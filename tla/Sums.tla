-------------------------------- MODULE Sums --------------------------------
(***************************************************************************)
(* Finite sums: what the proofs need to know of SumFunctionOnSet, with     *)
(* which the modules sum up exposures, cash and counts.                    *)
(*                                                                         *)
(* SumFunctionOnSet(f, S) is the value at S of a recursive function on the *)
(* subsets of S, which takes one member away at a time. Total(f, S) reads  *)
(* it off one such table for the whole domain of f; SumIsTotal connects    *)
(* the two, and the lemmas after it say how a sum changes with the set and *)
(* with the function. Counting, the order in a finite set and multiples    *)
(* come last.                                                              *)
(***************************************************************************)
EXTENDS Integers, FiniteSetsExt, FiniteSetTheorems, WellFoundedInduction, TLAPS

Picked(s) == CHOOSE x \in s : TRUE

\* The recursive function behind the sum, on all subsets of the domain.
IsTable(T, f) ==
  T = [s \in SUBSET DOMAIN f |->
         IF s = {} THEN 0 ELSE f[Picked(s)] + T[s \ {Picked(s)}]]

Total(f, S) == (CHOOSE T : IsTable(T, f))[S]

-----------------------------------------------------------------------------
(* Induction, with a set where a rule of logic has a predicate.            *)

\* A set of naturals has a least element: among the intervals from 0 up to
\* its members one is minimal under inclusion.
LEMMA LeastNatural ==
  ASSUME NEW T \in SUBSET Nat, T # {}
  PROVE  \E n \in T : \A m \in T : n <= m
<1> DEFINE Up == {0 .. n : n \in T}
<1>1. Up \subseteq FiniteSubsetsOf(Nat) /\ Up # {}
  <2>1. ASSUME NEW n \in T
        PROVE  0 .. n \in FiniteSubsetsOf(Nat)
    <3>1. IsFiniteSet(0 .. n) /\ 0 .. n \in SUBSET Nat
      BY FS_Interval
    <3> QED
      BY <3>1 DEF FiniteSubsetsOf
  <2> QED
    BY <2>1
<1>2. \E x \in Up : \A y \in Up : ~(<<y, x>> \in StrictSubsetOrdering(Nat))
  <2> HIDE DEF Up
  <2> QED
    BY <1>1, FS_StrictSubsetOrderingWellFounded, WFMin, Zenon
<1>3. PICK n \in T : \A m \in T : ~(<<0 .. m, 0 .. n>> \in StrictSubsetOrdering(Nat))
  BY <1>2
<1>4. ASSUME NEW m \in T, m < n
      PROVE  FALSE
  <2>1. 0 .. m \subseteq 0 .. n /\ 0 .. m # 0 .. n
    <3>1. n \in 0 .. n /\ n \notin 0 .. m
      BY <1>4
    <3> QED
      BY <1>4, <3>1
  <2>2. <<0 .. m, 0 .. n>> \in (SUBSET Nat) \X (SUBSET Nat)
    OBVIOUS
  <2>3. <<0 .. m, 0 .. n>> \in StrictSubsetOrdering(Nat)
    BY <2>1, <2>2, Zenon DEF StrictSubsetOrdering
  <2> QED
    BY <2>3, <1>3
<1> QED
  BY <1>4

\* Induction on the naturals.
LEMMA EveryNatural ==
  ASSUME NEW Good, 0 \in Good, \A n \in Nat : n \in Good => n + 1 \in Good
  PROVE  \A n \in Nat : n \in Good
<1> SUFFICES ASSUME Nat \ Good # {} PROVE FALSE
  OBVIOUS
<1>1. PICK n \in Nat \ Good : \A m \in Nat \ Good : n <= m
  BY LeastNatural
<1>2. n # 0 /\ n - 1 \in Nat
  BY <1>1
<1>3. n - 1 \in Good
  BY <1>1, <1>2
<1> QED
  BY <1>1, <1>2, <1>3

\* Taking a member away makes a finite set smaller.
LEMMA OneLess ==
  ASSUME NEW S, IsFiniteSet(S), NEW x \in S
  PROVE  /\ IsFiniteSet(S \ {x}) /\ Cardinality(S \ {x}) = Cardinality(S) - 1
         /\ Cardinality(S) \in Nat /\ Cardinality(S) # 0
BY FS_RemoveElement, FS_CardinalityType, FS_EmptySet

\* Induction on the subsets of a finite set, one member at a time.
LEMMA EverySubset ==
  ASSUME NEW D, IsFiniteSet(D), NEW Good, {} \in Good,
         \A s \in SUBSET D : s # {} /\ (\A x \in s : s \ {x} \in Good) => s \in Good
  PROVE  \A s \in SUBSET D : s \in Good
<1> DEFINE Upto == {n \in Nat : \A s \in SUBSET D : Cardinality(s) = n => s \in Good}
<1>0. \A s \in SUBSET D : IsFiniteSet(s) /\ Cardinality(s) \in Nat
  BY FS_Subset, FS_CardinalityType
<1>1. 0 \in Upto
  BY <1>0, FS_EmptySet
<1>2. ASSUME NEW n \in Nat, n \in Upto PROVE n + 1 \in Upto
  <2> SUFFICES ASSUME NEW s \in SUBSET D, Cardinality(s) = n + 1 PROVE s \in Good
    OBVIOUS
  <2>1. s # {}
    BY FS_EmptySet
  <2>2. ASSUME NEW x \in s PROVE s \ {x} \in Good
    <3>1. Cardinality(s \ {x}) = n
      BY <1>0, OneLess
    <3> QED
      BY <1>2, <3>1
  <2> QED
    BY <2>1, <2>2
<1>3. \A n \in Nat : n \in Upto
  <2> HIDE DEF Upto
  <2> QED
    BY <1>1, <1>2, EveryNatural
<1> QED
  BY <1>0, <1>3

-----------------------------------------------------------------------------
(* Tables of sums exist.                                                   *)

LEMMA PickedIn == ASSUME NEW s, s # {} PROVE Picked(s) \in s
BY DEF Picked

\* The recursion on the subsets of a finite set has a solution: extend it
\* from the subsets of at most n members to those of n + 1.
LEMMA TableExists ==
  ASSUME NEW D, IsFiniteSet(D), NEW f \in [D -> Int]
  PROVE  \E T \in [SUBSET D -> Int] : IsTable(T, f)
<1> DEFINE Upto(n) == {s \in SUBSET D : Cardinality(s) <= n}
           Step(h, s) == IF s = {} THEN 0 ELSE f[Picked(s)] + h[s \ {Picked(s)}]
           Good == {n \in Nat : \E h \in [Upto(n) -> Int] : \A s \in Upto(n) : h[s] = Step(h, s)}
<1>0. \A s \in SUBSET D : IsFiniteSet(s) /\ Cardinality(s) \in Nat
  BY FS_Subset, FS_CardinalityType
<1>1. 0 \in Good
  <2>1. \A s \in Upto(0) : s = {}
    BY <1>0, FS_EmptySet
  <2> DEFINE h == [s \in Upto(0) |-> 0]
  <2>2. h \in [Upto(0) -> Int] /\ \A s \in Upto(0) : h[s] = Step(h, s)
    BY <2>1
  <2> QED
    BY <2>2
<1>2. ASSUME NEW n \in Nat, n \in Good PROVE n + 1 \in Good
  <2>1. PICK h \in [Upto(n) -> Int] : \A s \in Upto(n) : h[s] = Step(h, s)
    BY <1>2
  <2>2. ASSUME NEW s \in Upto(n + 1), s # {}
        PROVE  s \ {Picked(s)} \in Upto(n) /\ f[Picked(s)] \in Int
    <3>1. Picked(s) \in s
      BY <2>2, PickedIn
    <3>2. Cardinality(s \ {Picked(s)}) = Cardinality(s) - 1 /\ Cardinality(s) \in Nat
      BY <1>0, <3>1, OneLess
    <3> QED
      BY <3>1, <3>2
  <2> DEFINE k == [s \in Upto(n + 1) |-> Step(h, s)]
  <2>3. k \in [Upto(n + 1) -> Int]
    BY <2>2
  <2>4. \A s \in Upto(n) : s \in Upto(n + 1) /\ k[s] = h[s]
    BY <1>0, <2>1
  <2>5. ASSUME NEW s \in Upto(n + 1) PROVE k[s] = Step(k, s)
    BY <2>2, <2>4
  <2>6. n + 1 \in Nat
    OBVIOUS
  <2> HIDE DEF k, Step, Upto
  <2> QED
    BY <2>3, <2>5, <2>6
<1>3. Cardinality(D) \in Nat /\ Cardinality(D) \in Good
  <2>1. \A n \in Nat : n \in Good
    <3> HIDE DEF Good
    <3> QED
      BY <1>1, <1>2, EveryNatural
  <2> QED
    BY <1>0, <2>1
<1>4. Upto(Cardinality(D)) = SUBSET D
  BY <1>0, FS_Subset
<1>5. PICK T \in [SUBSET D -> Int] : \A s \in SUBSET D : T[s] = Step(T, s)
  BY <1>3, <1>4
<1>6. T = [s \in SUBSET D |-> Step(T, s)]
  BY <1>5
<1> QED
  BY <1>6 DEF IsTable

\* A total unfolded once: nothing for no members, and else one member and the
\* total of the others.
LEMMA TotalStep ==
  ASSUME NEW D, IsFiniteSet(D), NEW f \in [D -> Int], NEW S \in SUBSET D
  PROVE  /\ Total(f, S) \in Int
         /\ S = {} => Total(f, S) = 0
         /\ S # {} => Total(f, S) = f[Picked(S)] + Total(f, S \ {Picked(S)})
<1> DEFINE T == CHOOSE T : IsTable(T, f)
<1>1. PICK T0 \in [SUBSET D -> Int] : IsTable(T0, f)
  BY TableExists
<1>2. IsTable(T, f)
  BY <1>1
<1>3. DOMAIN f = D /\ \A s \in SUBSET D : Total(f, s) = T[s]
  BY DEF Total
<1>4. \A s \in SUBSET D : T[s] = IF s = {} THEN 0 ELSE f[Picked(s)] + T[s \ {Picked(s)}]
  <2> HIDE DEF T
  <2> QED
    BY <1>2, <1>3 DEF IsTable
<1> HIDE DEF T
<1> DEFINE Good == {s \in SUBSET D : T[s] \in Int}
<1>5. \A s \in SUBSET D : s \in Good
  <2>1. {} \in Good
    <3>1. T[{}] = 0
      BY <1>4, Zenon
    <3> QED
      BY <3>1
  <2>2. ASSUME NEW s \in SUBSET D, s # {}, \A x \in s : s \ {x} \in Good PROVE s \in Good
    <3>1. Picked(s) \in s /\ f[Picked(s)] \in Int
      BY <2>2, PickedIn
    <3>2. T[s \ {Picked(s)}] \in Int
      BY <2>2, <3>1
    <3>3. T[s] = f[Picked(s)] + T[s \ {Picked(s)}]
      BY <1>4, <2>2, Zenon
    <3> QED
      BY <2>2, <3>1, <3>2, <3>3
  <2> HIDE DEF Good
  <2> QED
    BY <2>1, <2>2, EverySubset
<1>6. S \ {Picked(S)} \in SUBSET D
  OBVIOUS
<1> QED
  BY <1>3, <1>4, <1>5, <1>6

\* What a table on the subsets of W says of W is the total, whatever function
\* the table's own is a part of.
LEMMA TableIsTotal ==
  ASSUME NEW D, IsFiniteSet(D), NEW f \in [D -> Int], NEW W \in SUBSET D,
         NEW T, T = [s \in SUBSET W |->
                       IF s = {} THEN 0 ELSE f[Picked(s)] + T[s \ {Picked(s)}]]
  PROVE  T[W] = Total(f, W)
<1> DEFINE Good == {s \in SUBSET W : T[s] = Total(f, s)}
<1>0. \A s \in SUBSET W : T[s] = IF s = {} THEN 0 ELSE f[Picked(s)] + T[s \ {Picked(s)}]
  OBVIOUS
<1>1. {} \in Good
  <2>1. T[{}] = 0
    BY <1>0, Zenon
  <2>2. Total(f, {}) = 0
    BY TotalStep
  <2> QED
    BY <2>1, <2>2
<1>2. ASSUME NEW s \in SUBSET W, s # {}, \A x \in s : s \ {x} \in Good PROVE s \in Good
  <2>1. Picked(s) \in s
    BY <1>2, PickedIn
  <2>2. T[s \ {Picked(s)}] = Total(f, s \ {Picked(s)})
    BY <1>2, <2>1
  <2>3. T[s] = f[Picked(s)] + T[s \ {Picked(s)}]
    BY <1>0, <1>2, Zenon
  <2>4. Total(f, s) = f[Picked(s)] + Total(f, s \ {Picked(s)})
    BY <1>2, TotalStep
  <2> QED
    BY <2>2, <2>3, <2>4
<1>3. IsFiniteSet(W) /\ W \in SUBSET W
  BY FS_Subset
<1> HIDE DEF Good
<1>4. W \in Good
  BY <1>1, <1>2, <1>3, EverySubset
<1> QED
  BY <1>4 DEF Good

\* The library's sum over a set is the total.
LEMMA SumIsTotal ==
  ASSUME NEW D, IsFiniteSet(D), NEW f \in [D -> Int], NEW S \in SUBSET D
  PROVE  SumFunctionOnSet(f, S) = Total(f, S)
<1> DEFINE Tab(T) == T = [s \in SUBSET S |->
                           IF s = {} THEN 0 ELSE f[Picked(s)] + T[s \ {Picked(s)}]]
<1>1. SumFunctionOnSet(f, S) = (CHOOSE T : Tab(T))[S]
  BY SMT DEF SumFunctionOnSet, FoldFunctionOnSet, MapThenFoldSet, Picked
<1>2. \E T : Tab(T)
  <2> DEFINE g == [x \in S |-> f[x]]
  <2>1. IsFiniteSet(S) /\ g \in [S -> Int]
    BY FS_Subset
  <2>2. PICK T : IsTable(T, g)
    BY <2>1, TableExists
  <2>3. \A s \in SUBSET S : s # {} => g[Picked(s)] = f[Picked(s)]
    BY PickedIn
  <2>4. T = [s \in SUBSET S |-> IF s = {} THEN 0 ELSE g[Picked(s)] + T[s \ {Picked(s)}]]
    BY <2>2 DEF IsTable
  <2> HIDE DEF g
  <2> QED
    BY <2>3, <2>4
<1> DEFINE T == CHOOSE T : Tab(T)
<1>3. Tab(T)
  <2> HIDE DEF Tab
  <2> QED
    BY <1>2
<1> HIDE DEF T
<1> QED
  BY <1>1, <1>3, TableIsTotal DEF T

\* A sum as it is built up: nothing for no members, and else one member and
\* the sum over the others.
LEMMA SumStep ==
  ASSUME NEW D, IsFiniteSet(D), NEW f \in [D -> Int], NEW S \in SUBSET D
  PROVE  /\ SumFunctionOnSet(f, S) \in Int
         /\ S = {} => SumFunctionOnSet(f, S) = 0
         /\ S # {} => SumFunctionOnSet(f, S)
                        = f[Picked(S)] + SumFunctionOnSet(f, S \ {Picked(S)})
<1>1. S \ {Picked(S)} \in SUBSET D
  OBVIOUS
<1> QED
  BY <1>1, SumIsTotal, TotalStep

-----------------------------------------------------------------------------
(* The arithmetic of sums.                                                 *)

\* Any member may be taken out of a sum.
LEMMA SumRemove ==
  ASSUME NEW D, IsFiniteSet(D), NEW f \in [D -> Int], NEW S \in SUBSET D, NEW y \in S
  PROVE  SumFunctionOnSet(f, S) = f[y] + SumFunctionOnSet(f, S \ {y})
<1> DEFINE Good == {s \in SUBSET D : \A x \in s : SumFunctionOnSet(f, s) = f[x] + SumFunctionOnSet(f, s \ {x})}
<1>1. {} \in Good
  OBVIOUS
<1>2. ASSUME NEW s \in SUBSET D, s # {}, \A x \in s : s \ {x} \in Good PROVE s \in Good
  <2> SUFFICES ASSUME NEW x \in s PROVE SumFunctionOnSet(f, s) = f[x] + SumFunctionOnSet(f, s \ {x})
    OBVIOUS
  <2> DEFINE c == Picked(s)
  <2>1. c \in s /\ f[c] \in Int /\ f[x] \in Int
    BY <1>2, PickedIn
  <2>2. SumFunctionOnSet(f, s) = f[c] + SumFunctionOnSet(f, s \ {c})
    BY <1>2, SumStep
  <2> HIDE DEF c
  <2>3. CASE c # x
    <3>1. SumFunctionOnSet(f, s \ {c}) = f[x] + SumFunctionOnSet(f, (s \ {c}) \ {x})
      BY <1>2, <2>1, <2>3
    <3>2. SumFunctionOnSet(f, s \ {x}) = f[c] + SumFunctionOnSet(f, (s \ {x}) \ {c})
      BY <1>2, <2>1, <2>3
    <3>3. (s \ {c}) \ {x} = (s \ {x}) \ {c}
      OBVIOUS
    <3>4. SumFunctionOnSet(f, (s \ {x}) \ {c}) \in Int
      BY SumStep
    <3>5. SumFunctionOnSet(f, s) = f[c] + (f[x] + SumFunctionOnSet(f, (s \ {x}) \ {c}))
      BY <2>2, <3>1, <3>3, Zenon
    <3> HIDE DEF Good
    <3> QED
      BY <2>1, <3>2, <3>4, <3>5
  <2> QED
    BY <2>2, <2>3
<1>3. S \in Good
  <2> HIDE DEF Good
  <2> QED
    BY <1>1, <1>2, EverySubset
<1> QED
  BY <1>3

\* Functions that agree on a set have the same sum there.
LEMMA SumAgrees ==
  ASSUME NEW D, IsFiniteSet(D), NEW f \in [D -> Int], NEW g \in [D -> Int],
         NEW S \in SUBSET D, \A x \in S : f[x] = g[x]
  PROVE  SumFunctionOnSet(f, S) = SumFunctionOnSet(g, S)
<1> DEFINE Good == {s \in SUBSET S : SumFunctionOnSet(f, s) = SumFunctionOnSet(g, s)}
<1>1. {} \in Good
  BY SumStep
<1>2. ASSUME NEW s \in SUBSET S, s # {}, \A x \in s : s \ {x} \in Good PROVE s \in Good
  <2>1. Picked(s) \in s /\ Picked(s) \in S
    BY <1>2, PickedIn
  <2>2. SumFunctionOnSet(f, s) = f[Picked(s)] + SumFunctionOnSet(f, s \ {Picked(s)})
    BY <1>2, SumStep
  <2>3. SumFunctionOnSet(g, s) = g[Picked(s)] + SumFunctionOnSet(g, s \ {Picked(s)})
    BY <1>2, SumStep
  <2> QED
    BY <1>2, <2>1, <2>2, <2>3
<1>3. IsFiniteSet(S)
  BY FS_Subset
<1>4. S \in Good
  <2> HIDE DEF Good
  <2> QED
    BY <1>1, <1>2, <1>3, EverySubset
<1> QED
  BY <1>4

\* Changing the function at one member changes the sum by the difference.
LEMMA SumChange ==
  ASSUME NEW D, IsFiniteSet(D), NEW f \in [D -> Int], NEW g \in [D -> Int],
         NEW S \in SUBSET D, NEW y \in S, \A x \in S \ {y} : f[x] = g[x]
  PROVE  SumFunctionOnSet(g, S) - SumFunctionOnSet(f, S) = g[y] - f[y]
<1>1. SumFunctionOnSet(f, S) = f[y] + SumFunctionOnSet(f, S \ {y})
  BY SumRemove
<1>2. SumFunctionOnSet(g, S) = g[y] + SumFunctionOnSet(g, S \ {y})
  BY SumRemove
<1>3. SumFunctionOnSet(f, S \ {y}) = SumFunctionOnSet(g, S \ {y})
  BY SumAgrees
<1>4. SumFunctionOnSet(f, S \ {y}) \in Int /\ f[y] \in Int /\ g[y] \in Int
  BY SumStep
<1> QED
  BY <1>1, <1>2, <1>3, <1>4

\* A sum of naturals grows with the set.
LEMMA SumGrows ==
  ASSUME NEW D, IsFiniteSet(D), NEW f \in [D -> Nat], NEW S \in SUBSET D, NEW U \in SUBSET S
  PROVE  SumFunctionOnSet(f, U) <= SumFunctionOnSet(f, S) /\ SumFunctionOnSet(f, U) \in Nat
<1>0. f \in [D -> Int]
  OBVIOUS
<1> DEFINE Good == {s \in SUBSET D : /\ SumFunctionOnSet(f, s) \in Nat
                                     /\ \A u \in SUBSET s : SumFunctionOnSet(f, u) <= SumFunctionOnSet(f, s)}
<1>1. {} \in Good
  <2>1. SumFunctionOnSet(f, {}) = 0
    BY <1>0, SumStep
  <2> QED
    BY <2>1
<1>2. ASSUME NEW s \in SUBSET D, s # {}, \A x \in s : s \ {x} \in Good PROVE s \in Good
  <2>1. \A x \in s : SumFunctionOnSet(f, s) = f[x] + SumFunctionOnSet(f, s \ {x})
    BY <1>0, SumRemove
  <2>2. \A x \in s : /\ f[x] \in Nat /\ SumFunctionOnSet(f, s \ {x}) \in Nat
                     /\ \A u \in SUBSET (s \ {x}) : SumFunctionOnSet(f, u) <= SumFunctionOnSet(f, s \ {x})
    BY <1>2
  <2>3. SumFunctionOnSet(f, s) \in Nat
    <3>1. PICK x \in s : TRUE
      BY <1>2
    <3>2. f[x] \in Nat /\ SumFunctionOnSet(f, s \ {x}) \in Nat /\ SumFunctionOnSet(f, s) = f[x] + SumFunctionOnSet(f, s \ {x})
      BY <2>1, <2>2
    <3> QED
      BY <3>2
  <2>4. ASSUME NEW u \in SUBSET s PROVE SumFunctionOnSet(f, u) <= SumFunctionOnSet(f, s)
    <3>1. CASE u = s
      BY <2>3, <3>1
    <3>2. CASE u # s
      <4>1. PICK x \in s : u \in SUBSET (s \ {x})
        BY <3>2
      <4>2. SumFunctionOnSet(f, u) <= SumFunctionOnSet(f, s \ {x})
        BY <2>2, <4>1
      <4>3. SumFunctionOnSet(f, u) \in Int
        BY <1>0, SumStep
      <4> QED
        BY <2>1, <2>2, <4>2, <4>3
    <3> QED
      BY <3>1, <3>2
  <2> QED
    BY <2>3, <2>4
<1>3. S \in Good
  <2> HIDE DEF Good
  <2> QED
    BY <1>1, <1>2, EverySubset
<1>4. SumFunctionOnSet(f, U) \in Nat
  <2>1. \A s \in SUBSET D : s \in Good
    <3> HIDE DEF Good
    <3> QED
      BY <1>1, <1>2, EverySubset
  <2> QED
    BY <2>1
<1> QED
  BY <1>3, <1>4

\* Zeros add up to zero, and opposite numbers to the opposite of the sum.
LEMMA SumNegated ==
  ASSUME NEW D, IsFiniteSet(D), NEW f \in [D -> Int], NEW g \in [D -> Int],
         NEW S \in SUBSET D, \A x \in S : g[x] = -f[x]
  PROVE  SumFunctionOnSet(g, S) = -SumFunctionOnSet(f, S)
<1> DEFINE Good == {s \in SUBSET S : SumFunctionOnSet(g, s) = -SumFunctionOnSet(f, s)}
<1>1. {} \in Good
  <2>1. SumFunctionOnSet(g, {}) = 0 /\ SumFunctionOnSet(f, {}) = 0
    BY SumStep
  <2> QED
    BY <2>1
<1>2. ASSUME NEW s \in SUBSET S, s # {}, \A x \in s : s \ {x} \in Good PROVE s \in Good
  <2>1. Picked(s) \in s /\ f[Picked(s)] \in Int /\ g[Picked(s)] = -f[Picked(s)]
    BY <1>2, PickedIn
  <2>2. SumFunctionOnSet(f, s) = f[Picked(s)] + SumFunctionOnSet(f, s \ {Picked(s)})
    BY <1>2, SumStep
  <2>3. SumFunctionOnSet(g, s) = g[Picked(s)] + SumFunctionOnSet(g, s \ {Picked(s)})
    BY <1>2, SumStep
  <2>4. SumFunctionOnSet(f, s \ {Picked(s)}) \in Int
    BY SumStep
  <2>5. SumFunctionOnSet(g, s \ {Picked(s)}) = -SumFunctionOnSet(f, s \ {Picked(s)})
    BY <1>2, <2>1
  <2> QED
    BY <2>1, <2>2, <2>3, <2>4, <2>5
<1>3. S \in Good
  <2>1. IsFiniteSet(S)
    BY FS_Subset
  <2> HIDE DEF Good
  <2> QED
    BY <1>1, <1>2, <2>1, EverySubset
<1> QED
  BY <1>3

LEMMA SumOfZeros ==
  ASSUME NEW D, IsFiniteSet(D), NEW f \in [D -> Int], NEW S \in SUBSET D,
         \A x \in S : f[x] = 0
  PROVE  SumFunctionOnSet(f, S) = 0
<1>1. SumFunctionOnSet(f, S) = -SumFunctionOnSet(f, S)
  BY SumNegated
<1>2. SumFunctionOnSet(f, S) \in Int
  BY SumStep
<1> QED
  BY <1>1, <1>2

\* A sum may be taken in parts, one for each value of a key.
LEMMA SumByKeys ==
  ASSUME NEW D, IsFiniteSet(D), NEW f \in [D -> Int], NEW S \in SUBSET D,
         NEW C, IsFiniteSet(C), NEW key, \A x \in S : key[x] \in C,
         NEW g \in [C -> Int],
         \A c \in C : g[c] = SumFunctionOnSet(f, {x \in S : key[x] = c})
  PROVE  SumFunctionOnSet(g, C) = SumFunctionOnSet(f, S)
<1> DEFINE part(s) == [c \in C |-> SumFunctionOnSet(f, {x \in s : key[x] = c})]
           Good == {s \in SUBSET S : SumFunctionOnSet(part(s), C) = SumFunctionOnSet(f, s)}
<1>0. \A s \in SUBSET S : part(s) \in [C -> Int]
  <2>1. ASSUME NEW s \in SUBSET S, NEW c \in C
        PROVE  SumFunctionOnSet(f, {x \in s : key[x] = c}) \in Int
    <3>1. {x \in s : key[x] = c} \in SUBSET D
      OBVIOUS
    <3> QED
      BY <3>1, SumStep
  <2> QED
    BY <2>1
<1>1. {} \in Good
  <2>1. \A c \in C : part({})[c] = 0
    <3>1. SumFunctionOnSet(f, {}) = 0
      BY SumStep
    <3>2. ASSUME NEW c \in C PROVE part({})[c] = SumFunctionOnSet(f, {})
      <4>1. {x \in {} : key[x] = c} = {}
        OBVIOUS
      <4> QED
        BY <4>1
    <3> QED
      BY <3>1, <3>2
  <2>2. part({}) \in [C -> Int]
    BY <1>0
  <2> HIDE DEF part
  <2>3. SumFunctionOnSet(part({}), C) = 0
    BY <2>1, <2>2, SumOfZeros
  <2>4. SumFunctionOnSet(f, {}) = 0
    BY SumStep
  <2> QED
    BY <2>3, <2>4
<1>2. ASSUME NEW s \in SUBSET S, s # {}, \A x \in s : s \ {x} \in Good PROVE s \in Good
  <2>1. PICK x \in s : TRUE
    BY <1>2
  <2> DEFINE u == s \ {x}
             c == key[x]
  <2>2. c \in C /\ u \in SUBSET S /\ f[x] \in Int
    OBVIOUS
  <2>3. \A d \in C \ {c} : part(u)[d] = part(s)[d]
    <3> SUFFICES ASSUME NEW d \in C, d # c PROVE part(u)[d] = part(s)[d]
      OBVIOUS
    <3>1. {y \in u : key[y] = d} = {y \in s : key[y] = d}
      OBVIOUS
    <3> QED
      BY <3>1
  <2>4. part(s)[c] = f[x] + part(u)[c]
    <3> DEFINE P == {y \in s : key[y] = c}
    <3>1. P \in SUBSET D /\ x \in P /\ P \ {x} = {y \in u : key[y] = c}
      OBVIOUS
    <3>2. SumFunctionOnSet(f, P) = f[x] + SumFunctionOnSet(f, P \ {x})
      BY <3>1, SumRemove
    <3>3. part(s)[c] = SumFunctionOnSet(f, P) /\ part(u)[c] = SumFunctionOnSet(f, {y \in u : key[y] = c})
      BY <2>2
    <3> HIDE DEF P, part
    <3> QED
      BY <3>1, <3>2, <3>3
  <2>5. SumFunctionOnSet(part(u), C) = SumFunctionOnSet(f, u)
    BY <1>2
  <2>6. SumFunctionOnSet(f, s) = f[x] + SumFunctionOnSet(f, u)
    BY SumRemove
  <2>7. part(s) \in [C -> Int] /\ part(u) \in [C -> Int]
    BY <1>0, <2>2
  <2> HIDE DEF part, u, c
  <2>8. SumFunctionOnSet(part(s), C) - SumFunctionOnSet(part(u), C) = part(s)[c] - part(u)[c]
    BY <2>2, <2>3, <2>7, SumChange
  <2>9. /\ SumFunctionOnSet(part(s), C) \in Int /\ SumFunctionOnSet(part(u), C) \in Int
        /\ part(u)[c] \in Int
    BY <2>2, <2>7, SumStep
  <2>10. SumFunctionOnSet(part(s), C) = SumFunctionOnSet(f, s)
    BY <2>2, <2>4, <2>5, <2>6, <2>8, <2>9
  <2> QED
    BY <2>10
<1>3. S \in Good
  <2>1. IsFiniteSet(S)
    BY FS_Subset
  <2> HIDE DEF Good
  <2>2. \A s \in SUBSET S : s # {} /\ (\A x \in s : s \ {x} \in Good) => s \in Good
    BY <1>2
  <2>3. \A s \in SUBSET S : s \in Good
    BY <1>1, <2>1, <2>2, EverySubset, Zenon
  <2> QED
    BY <2>3
<1>4. g = part(S)
  OBVIOUS
<1> QED
  BY <1>3, <1>4

\* The same for any division of the set into parts.
Parts(S, C, with) ==
  /\ \A c \in C : with[c] \subseteq S
  /\ \A x \in S : \E c \in C : x \in with[c]
  /\ \A c, d \in C : c # d => with[c] \cap with[d] = {}
SumsOfParts(g, f, C, with) == \A c \in C : g[c] = SumFunctionOnSet(f, with[c])

LEMMA SumByParts ==
  ASSUME NEW D, IsFiniteSet(D), NEW f \in [D -> Int], NEW S \in SUBSET D,
         NEW C, IsFiniteSet(C), NEW with, Parts(S, C, with),
         NEW g \in [C -> Int], SumsOfParts(g, f, C, with)
  PROVE  SumFunctionOnSet(g, C) = SumFunctionOnSet(f, S)
<1> DEFINE key == [x \in S |-> CHOOSE c \in C : x \in with[c]]
<1>1. \A x \in S : key[x] \in C /\ x \in with[key[x]]
  BY DEF Parts
<1>2. \A c \in C : with[c] = {x \in S : key[x] = c}
  <2> HIDE DEF key
  <2> SUFFICES ASSUME NEW c \in C
               PROVE  \A x : x \in with[c] <=> x \in S /\ key[x] = c
    OBVIOUS
  <2> QED
    BY <1>1 DEF Parts
<1>3. \A c \in C : g[c] = SumFunctionOnSet(f, {x \in S : key[x] = c})
  BY <1>2 DEF SumsOfParts
<1> HIDE DEF key
<1> QED
  BY <1>1, <1>3, SumByKeys

\* The domain of the function beyond the set does not matter.
LEMMA SumAcross ==
  ASSUME NEW D, IsFiniteSet(D), NEW f \in [D -> Int],
         NEW E, IsFiniteSet(E), NEW g \in [E -> Int],
         NEW S \in SUBSET D, S \in SUBSET E, \A x \in S : f[x] = g[x]
  PROVE  SumFunctionOnSet(f, S) = SumFunctionOnSet(g, S)
<1> DEFINE Good == {s \in SUBSET S : SumFunctionOnSet(f, s) = SumFunctionOnSet(g, s)}
<1>0. \A s \in SUBSET S : s \in SUBSET D /\ s \in SUBSET E
  OBVIOUS
<1>1. {} \in Good
  <2>1. SumFunctionOnSet(f, {}) = 0
    BY SumStep
  <2>2. SumFunctionOnSet(g, {}) = 0
    BY SumStep
  <2> QED
    BY <2>1, <2>2
<1>2. ASSUME NEW s \in SUBSET S, s # {}, \A x \in s : s \ {x} \in Good PROVE s \in Good
  <2>1. Picked(s) \in s /\ Picked(s) \in S
    BY <1>2, PickedIn
  <2>2. SumFunctionOnSet(f, s) = f[Picked(s)] + SumFunctionOnSet(f, s \ {Picked(s)})
    BY <1>0, <1>2, SumStep
  <2>3. SumFunctionOnSet(g, s) = g[Picked(s)] + SumFunctionOnSet(g, s \ {Picked(s)})
    BY <1>0, <1>2, SumStep
  <2> QED
    BY <1>2, <2>1, <2>2, <2>3
<1>3. IsFiniteSet(S)
  BY FS_Subset
<1>4. S \in Good
  <2> HIDE DEF Good
  <2> QED
    BY <1>1, <1>2, <1>3, EverySubset
<1> QED
  BY <1>4

\* The sum of a sum of functions.
LEMMA SumPlus ==
  ASSUME NEW D, IsFiniteSet(D), NEW f \in [D -> Int], NEW g \in [D -> Int],
         NEW h \in [D -> Int], NEW S \in SUBSET D, \A x \in S : h[x] = f[x] + g[x]
  PROVE  SumFunctionOnSet(h, S) = SumFunctionOnSet(f, S) + SumFunctionOnSet(g, S)
<1> DEFINE Good == {s \in SUBSET S :
                      SumFunctionOnSet(h, s) = SumFunctionOnSet(f, s) + SumFunctionOnSet(g, s)}
<1>1. {} \in Good
  <2>1. SumFunctionOnSet(g, {}) = 0 /\ SumFunctionOnSet(f, {}) = 0 /\ SumFunctionOnSet(h, {}) = 0
    BY SumStep
  <2> QED
    BY <2>1
<1>2. ASSUME NEW s \in SUBSET S, s # {}, \A x \in s : s \ {x} \in Good PROVE s \in Good
  <2> DEFINE c == Picked(s)
  <2>1. c \in s /\ f[c] \in Int /\ g[c] \in Int /\ h[c] = f[c] + g[c]
    BY <1>2, PickedIn
  <2>0. ASSUME NEW k \in [D -> Int]
        PROVE  SumFunctionOnSet(k, s) = k[c] + SumFunctionOnSet(k, s \ {c})
    BY <1>2, SumStep
  <2>2. SumFunctionOnSet(f, s) = f[c] + SumFunctionOnSet(f, s \ {c})
    BY <2>0
  <2>3. SumFunctionOnSet(g, s) = g[c] + SumFunctionOnSet(g, s \ {c})
    BY <2>0
  <2>4. SumFunctionOnSet(h, s) = h[c] + SumFunctionOnSet(h, s \ {c})
    BY <2>0
  <2>5. SumFunctionOnSet(f, s \ {c}) \in Int /\ SumFunctionOnSet(g, s \ {c}) \in Int
    BY SumStep
  <2>6. SumFunctionOnSet(h, s \ {c})
          = SumFunctionOnSet(f, s \ {c}) + SumFunctionOnSet(g, s \ {c})
    BY <1>2, <2>1
  <2> HIDE DEF c
  <2> QED
    BY <2>1, <2>2, <2>3, <2>4, <2>5, <2>6
<1>3. S \in Good
  <2>1. IsFiniteSet(S)
    BY FS_Subset
  <2> HIDE DEF Good
  <2> QED
    BY <1>1, <1>2, <2>1, EverySubset
<1> QED
  BY <1>3

\* A function that is nowhere more has a sum that is no more.
LEMMA SumAtMost ==
  ASSUME NEW D, IsFiniteSet(D), NEW f \in [D -> Int], NEW g \in [D -> Int],
         NEW S \in SUBSET D, \A x \in S : f[x] <= g[x]
  PROVE  SumFunctionOnSet(f, S) <= SumFunctionOnSet(g, S)
<1> DEFINE Good == {s \in SUBSET S : SumFunctionOnSet(f, s) <= SumFunctionOnSet(g, s)}
<1>1. {} \in Good
  <2>1. SumFunctionOnSet(g, {}) = 0 /\ SumFunctionOnSet(f, {}) = 0
    BY SumStep
  <2> QED
    BY <2>1
<1>2. ASSUME NEW s \in SUBSET S, s # {}, \A x \in s : s \ {x} \in Good PROVE s \in Good
  <2> DEFINE c == Picked(s)
  <2>1. c \in s /\ f[c] \in Int /\ g[c] \in Int /\ f[c] <= g[c]
    BY <1>2, PickedIn
  <2>2. SumFunctionOnSet(f, s) = f[c] + SumFunctionOnSet(f, s \ {c})
    BY <1>2, SumStep
  <2>3. SumFunctionOnSet(g, s) = g[c] + SumFunctionOnSet(g, s \ {c})
    BY <1>2, SumStep
  <2>5. SumFunctionOnSet(f, s \ {c}) \in Int /\ SumFunctionOnSet(g, s \ {c}) \in Int
    BY SumStep
  <2>6. SumFunctionOnSet(f, s \ {c}) <= SumFunctionOnSet(g, s \ {c})
    BY <1>2, <2>1
  <2> HIDE DEF c
  <2> QED
    BY <2>1, <2>2, <2>3, <2>5, <2>6
<1>3. S \in Good
  <2>1. IsFiniteSet(S)
    BY FS_Subset
  <2> HIDE DEF Good
  <2> QED
    BY <1>1, <1>2, <2>1, EverySubset
<1> QED
  BY <1>3

\* The sum over a set is that over a part of it and that over the rest.
LEMMA SumSplit ==
  ASSUME NEW D, IsFiniteSet(D), NEW f \in [D -> Int], NEW S \in SUBSET D, NEW U \in SUBSET S
  PROVE  SumFunctionOnSet(f, S) = SumFunctionOnSet(f, U) + SumFunctionOnSet(f, S \ U)
<1> DEFINE Good == {s \in SUBSET S :
                      SumFunctionOnSet(f, s)
                        = SumFunctionOnSet(f, s \cap U) + SumFunctionOnSet(f, s \ U)}
<1>1. {} \in Good
  <2>1. SumFunctionOnSet(f, {}) = 0 /\ {} \cap U = {} /\ {} \ U = {}
    BY SumStep
  <2> QED
    BY <2>1
<1>2. ASSUME NEW s \in SUBSET S, s # {}, \A x \in s : s \ {x} \in Good PROVE s \in Good
  <2> DEFINE c == Picked(s)
  <2>1. c \in s /\ f[c] \in Int
    BY <1>2, PickedIn
  <2>2. SumFunctionOnSet(f, s) = f[c] + SumFunctionOnSet(f, s \ {c})
    BY <1>2, SumStep
  <2>3. SumFunctionOnSet(f, s \ {c})
          = SumFunctionOnSet(f, (s \ {c}) \cap U) + SumFunctionOnSet(f, (s \ {c}) \ U)
    BY <1>2, <2>1
  <2>4. /\ SumFunctionOnSet(f, s \cap U) \in Int /\ SumFunctionOnSet(f, s \ U) \in Int
        /\ SumFunctionOnSet(f, (s \ {c}) \cap U) \in Int
        /\ SumFunctionOnSet(f, (s \ {c}) \ U) \in Int
    BY SumStep
  <2>5. CASE c \in U
    <3>1. (s \ {c}) \cap U = (s \cap U) \ {c} /\ (s \ {c}) \ U = s \ U /\ c \in s \cap U
      BY <2>1, <2>5
    <3>2. SumFunctionOnSet(f, s \cap U) = f[c] + SumFunctionOnSet(f, (s \cap U) \ {c})
      BY <3>1, SumRemove
    <3>3. /\ SumFunctionOnSet(f, s \ {c})
               = SumFunctionOnSet(f, (s \cap U) \ {c}) + SumFunctionOnSet(f, s \ U)
          /\ SumFunctionOnSet(f, (s \cap U) \ {c}) \in Int
      BY <2>3, <2>4, <3>1, Zenon
    <3> HIDE DEF c
    <3> QED
      BY <2>1, <2>2, <2>4, <3>2, <3>3
  <2>6. CASE c \notin U
    <3>1. (s \ {c}) \cap U = s \cap U /\ (s \ {c}) \ U = (s \ U) \ {c} /\ c \in s \ U
      BY <2>1, <2>6
    <3>2. SumFunctionOnSet(f, s \ U) = f[c] + SumFunctionOnSet(f, (s \ U) \ {c})
      BY <3>1, SumRemove
    <3>3. /\ SumFunctionOnSet(f, s \ {c})
               = SumFunctionOnSet(f, s \cap U) + SumFunctionOnSet(f, (s \ U) \ {c})
          /\ SumFunctionOnSet(f, (s \ U) \ {c}) \in Int
      BY <2>3, <2>4, <3>1, Zenon
    <3> HIDE DEF c
    <3> QED
      BY <2>1, <2>2, <2>4, <3>2, <3>3
  <2> QED
    BY <2>5, <2>6
<1>3. S \in Good
  <2>1. IsFiniteSet(S)
    BY FS_Subset
  <2> HIDE DEF Good
  <2> QED
    BY <1>1, <1>2, <2>1, EverySubset
<1>4. S \cap U = U
  OBVIOUS
<1> QED
  BY <1>3, <1>4

\* A function that is zero outside a part is summed up over the part.
LEMMA SumOfPart ==
  ASSUME NEW D, IsFiniteSet(D), NEW f \in [D -> Int], NEW S \in SUBSET D,
         \A x \in D \ S : f[x] = 0
  PROVE  SumFunctionOnSet(f, D) = SumFunctionOnSet(f, S)
<1>1. D \in SUBSET D /\ S \in SUBSET D
  OBVIOUS
<1>2. SumFunctionOnSet(f, D) = SumFunctionOnSet(f, S) + SumFunctionOnSet(f, D \ S)
  BY <1>1, SumSplit
<1>3. SumFunctionOnSet(f, D \ S) = 0
  BY SumOfZeros
<1>4. SumFunctionOnSet(f, S) \in Int
  BY SumStep
<1> QED
  BY <1>2, <1>3, <1>4

\* Clearing a part of a function takes the sum of the part away.
LEMMA SumWithout ==
  ASSUME NEW D, IsFiniteSet(D), NEW f \in [D -> Int], NEW g \in [D -> Int], NEW S \in SUBSET D,
         \A x \in S : g[x] = 0, \A x \in D \ S : g[x] = f[x]
  PROVE  SumFunctionOnSet(g, D) = SumFunctionOnSet(f, D) - SumFunctionOnSet(f, S)
<1>1. D \in SUBSET D /\ S \in SUBSET D /\ D \ S \in SUBSET D
  OBVIOUS
<1>2. SumFunctionOnSet(f, D) = SumFunctionOnSet(f, S) + SumFunctionOnSet(f, D \ S)
  BY <1>1, SumSplit
<1>3. SumFunctionOnSet(g, D) = SumFunctionOnSet(g, D \ S)
  <2>1. SumFunctionOnSet(g, D) = SumFunctionOnSet(g, S) + SumFunctionOnSet(g, D \ S)
    BY <1>1, SumSplit
  <2>2. SumFunctionOnSet(g, S) = 0
    BY SumOfZeros
  <2>3. SumFunctionOnSet(g, D \ S) \in Int
    BY <1>1, SumStep
  <2> QED
    BY <2>1, <2>2, <2>3
<1>4. SumFunctionOnSet(g, D \ S) = SumFunctionOnSet(f, D \ S)
  BY <1>1, SumAgrees
<1>5. SumFunctionOnSet(f, S) \in Int /\ SumFunctionOnSet(f, D \ S) \in Int
  BY <1>1, SumStep
<1> QED
  BY <1>2, <1>3, <1>4, <1>5

-----------------------------------------------------------------------------
(* Counting.                                                               *)

\* What a finite set is mapped onto is finite, and of the same size when no two
\* members share a value.
LEMMA OntoSize ==
  ASSUME NEW S, IsFiniteSet(S), NEW T, NEW f \in [S -> T], \A y \in T : \E x \in S : f[x] = y
  PROVE  /\ IsFiniteSet(T)
         /\ (\A x, y \in S : f[x] = f[y] => x = y) => Cardinality(T) = Cardinality(S)
<1>1. f \in Surjection(S, T)
  BY DEF Surjection
<1>2. (\A x, y \in S : f[x] = f[y] => x = y) => f \in Injection(S, T)
  BY DEF Injection, IsInjective
<1>3. IsFiniteSet(T) /\ (Cardinality(T) = Cardinality(S) <=> f \in Injection(S, T))
  BY <1>1, FS_Surjection
<1> QED
  BY <1>2, <1>3

\* Sets without a common member.
LEMMA DisjointSize ==
  ASSUME NEW S, IsFiniteSet(S), NEW T, IsFiniteSet(T), S \cap T = {}
  PROVE  /\ IsFiniteSet(S \cup T) /\ Cardinality(S \cup T) = Cardinality(S) + Cardinality(T)
         /\ Cardinality(S) \in Nat /\ Cardinality(T) \in Nat
<1>1. Cardinality(S \cap T) = 0
  BY FS_EmptySet
<1>2. /\ IsFiniteSet(S \cup T)
      /\ Cardinality(S \cup T) = Cardinality(S) + Cardinality(T) - Cardinality(S \cap T)
  BY FS_Union
<1>3. Cardinality(S) \in Nat /\ Cardinality(T) \in Nat
  BY FS_CardinalityType
<1> QED
  BY <1>1, <1>2, <1>3

\* To count is to sum up ones.
LEMMA CountIsSum ==
  ASSUME NEW S, IsFiniteSet(S), NEW T \in SUBSET S
  PROVE  Cardinality(T) = SumFunctionOnSet([x \in S |-> 1], T)
<1> DEFINE ones == [x \in S |-> 1]
           Good == {s \in SUBSET S : Cardinality(s) = SumFunctionOnSet(ones, s)}
<1>0. ones \in [S -> Int] /\ \A x \in S : ones[x] = 1
  OBVIOUS
<1> HIDE DEF ones
<1>1. {} \in Good
  BY <1>0, SumStep, FS_EmptySet
<1>2. ASSUME NEW s \in SUBSET S, s # {}, \A x \in s : s \ {x} \in Good PROVE s \in Good
  <2>1. Picked(s) \in s
    BY <1>2, PickedIn
  <2>2. SumFunctionOnSet(ones, s) = 1 + SumFunctionOnSet(ones, s \ {Picked(s)})
    BY <1>0, <1>2, <2>1, SumStep
  <2>3. Cardinality(s \ {Picked(s)}) = Cardinality(s) - 1 /\ Cardinality(s) \in Nat
    BY <2>1, OneLess, FS_Subset
  <2>4. Cardinality(s \ {Picked(s)}) = SumFunctionOnSet(ones, s \ {Picked(s)})
    BY <1>2, <2>1
  <2> QED
    BY <2>2, <2>3, <2>4
<1>3. T \in Good
  <2> HIDE DEF Good
  <2> QED
    BY <1>1, <1>2, EverySubset
<1> QED
  BY <1>3 DEF ones

\* Members sorted by a key are counted key by key.
LEMMA CountByKeys ==
  ASSUME NEW S, IsFiniteSet(S), NEW C, IsFiniteSet(C), NEW key, \A x \in S : key[x] \in C
  PROVE  SumFunction([c \in C |-> Cardinality({x \in S : key[x] = c})]) = Cardinality(S)
<1> DEFINE g == [c \in C |-> Cardinality({x \in S : key[x] = c})]
           ones == [x \in S |-> 1]
           with == [c \in C |-> {x \in S : key[x] = c}]
<1>1. ones \in [S -> Int] /\ Parts(S, C, with)
  BY DEF Parts
<1>2. SumsOfParts(g, ones, C, with)
  <2> SUFFICES ASSUME NEW c \in C PROVE Cardinality({x \in S : key[x] = c}) = SumFunctionOnSet(ones, {x \in S : key[x] = c})
    BY DEF SumsOfParts
  <2>1. {x \in S : key[x] = c} \in SUBSET S
    OBVIOUS
  <2> QED
    BY <2>1, CountIsSum
<1>3. g \in [C -> Int]
  <2>1. ASSUME NEW c \in C PROVE Cardinality({x \in S : key[x] = c}) \in Int
    <3>1. {x \in S : key[x] = c} \in SUBSET S
      OBVIOUS
    <3>2. IsFiniteSet({x \in S : key[x] = c})
      BY <3>1, FS_Subset
    <3> QED
      BY <3>2, FS_CardinalityType
  <2> QED
    BY <2>1
<1>4. Cardinality(S) = SumFunctionOnSet(ones, S)
  BY CountIsSum
<1>5. DOMAIN g = C
  OBVIOUS
<1>6. SumFunctionOnSet(g, C) = SumFunctionOnSet(ones, S)
  <2> HIDE DEF ones, with, g
  <2>1. S \in SUBSET S
    OBVIOUS
  <2> QED
    BY <1>1, <1>2, <1>3, <2>1, SumByParts
<1> QED
  BY <1>4, <1>5, <1>6 DEF SumFunction

-----------------------------------------------------------------------------
(* Order in finite sets.                                                   *)

\* Max returns the greatest member of a set that has an upper bound.
LEMMA MaxOfBounded ==
  ASSUME NEW S \in SUBSET Int, S # {}, NEW b \in Int, \A x \in S : x <= b
  PROVE  Max(S) \in S /\ \A x \in S : x <= Max(S)
<1> DEFINE T == {b - x : x \in S}
<1>1. T \in SUBSET Nat /\ T # {}
  <2>1. \A x \in S : b - x \in Nat
    OBVIOUS
  <2> QED
    BY <2>1
<1>2. PICK n \in T : \A m \in T : n <= m
  BY <1>1, LeastNatural
<1>3. PICK x \in S : n = b - x
  OBVIOUS
<1>4. \A y \in S : x >= y
  BY <1>2, <1>3
<1> QED
  BY <1>4 DEF Max

\* A finite set has a greatest member.
LEMMA FiniteMax ==
  ASSUME NEW S \in SUBSET Int, IsFiniteSet(S), S # {}
  PROVE  Max(S) \in S /\ \A x \in S : x <= Max(S)
<1> DEFINE Good == {s \in SUBSET S : \E b \in Int : \A x \in s : x <= b}
<1>1. {} \in Good
  OBVIOUS
<1>2. ASSUME NEW s \in SUBSET S, s # {}, \A x \in s : s \ {x} \in Good PROVE s \in Good
  <2>1. PICK x \in s : TRUE
    BY <1>2
  <2>2. PICK b \in Int : \A y \in s \ {x} : y <= b
    BY <1>2
  <2>3. \E c \in Int : x <= c /\ b <= c
    <3>1. x \in Int
      OBVIOUS
    <3>2. (x <= b => x <= b /\ b <= b) /\ (~(x <= b) => x <= x /\ b <= x)
      BY <3>1
    <3> QED
      BY <3>1, <3>2
  <2>4. PICK c \in Int : x <= c /\ b <= c
    BY <2>3
  <2>5. \A y \in s : y \in Int /\ y <= c
    BY <2>2, <2>4
  <2> QED
    BY <2>5
<1> HIDE DEF Good
<1>3. S \in Good
  BY <1>1, <1>2, EverySubset
<1> QED
  BY <1>3, MaxOfBounded DEF Good

\* The place of r among the members of S.
RankIn(S, r) == Cardinality({q \in S : q <= r})

\* A greater member has a greater place.
LEMMA RankGrows ==
  ASSUME NEW S \in SUBSET Int, IsFiniteSet(S), NEW r \in S, NEW t \in S
  PROVE  /\ RankIn(S, r) \in 1 .. Cardinality(S)
         /\ r < t => RankIn(S, r) < RankIn(S, t)
         /\ RankIn(S, r) = RankIn(S, t) => r = t
         /\ Cardinality({q \in S : q < r}) = RankIn(S, r) - 1
<1> DEFINE upto(x) == {q \in S : q <= x}
<1>1. \A x \in S : IsFiniteSet(upto(x)) /\ Cardinality(upto(x)) \in Nat /\ Cardinality(upto(x)) <= Cardinality(S)
  BY FS_Subset, FS_CardinalityType
<1>2. ASSUME NEW x \in S, NEW y \in S, x < y PROVE Cardinality(upto(x)) < Cardinality(upto(y))
  <2>0. \A q \in S : q \in Int
    OBVIOUS
  <2>1. \A q \in S : q <= x => q <= y
    BY <1>2, <2>0
  <2>2. upto(x) # upto(y)
    <3>1. y \in upto(y) /\ y \notin upto(x)
      BY <1>2
    <3> QED
      BY <3>1
  <2>3. upto(x) \in SUBSET upto(y)
    BY <2>1
  <2> HIDE DEF upto
  <2>4. Cardinality(upto(x)) <= Cardinality(upto(y)) /\ Cardinality(upto(x)) # Cardinality(upto(y))
    BY <1>1, <2>2, <2>3, FS_Subset
  <2> QED
    BY <1>1, <2>4
<1>3. r \in upto(r)
  OBVIOUS
<1>4. {q \in S : q < r} = upto(r) \ {r}
  <2>1. \A q \in S : q \in Int
    OBVIOUS
  <2>2. \A q \in S : q < r <=> q <= r /\ q # r
    BY <2>1
  <2> QED
    BY <2>2
<1> HIDE DEF upto
<1>5. Cardinality(upto(r) \ {r}) = Cardinality(upto(r)) - 1 /\ Cardinality(upto(r)) # 0
  BY <1>1, <1>3, OneLess
<1>6. Cardinality(S) \in Nat
  BY FS_CardinalityType
<1>7. \A x : RankIn(S, x) = Cardinality(upto(x))
  BY DEF RankIn, upto
<1>8. Cardinality(upto(r)) \in 1 .. Cardinality(S)
  BY <1>1, <1>5, <1>6
<1>9. r \in Int /\ t \in Int
  OBVIOUS
<1>10. r # t => Cardinality(upto(r)) # Cardinality(upto(t))
  <2>1. CASE r < t
    BY <1>1, <1>2, <2>1
  <2>2. CASE t < r
    BY <1>1, <1>2, <2>2
  <2> QED
    BY <1>9, <2>1, <2>2
<1> QED
  BY <1>2, <1>4, <1>5, <1>7, <1>8, <1>10

\* Every place is taken.
LEMMA RankTaken ==
  ASSUME NEW S \in SUBSET Int, IsFiniteSet(S), NEW i \in 1 .. Cardinality(S)
  PROVE  \E r \in S : RankIn(S, r) = i
<1> DEFINE T == {RankIn(S, r) : r \in S}
           f == [r \in S |-> RankIn(S, r)]
<1>1. T \in SUBSET (1 .. Cardinality(S))
  <2>1. \A r \in S : RankIn(S, r) \in 1 .. Cardinality(S)
    BY RankGrows
  <2> QED
    BY <2>1
<1>2. f \in [S -> T] /\ \A y \in T : \E x \in S : f[x] = y
  OBVIOUS
<1>3. \A x, y \in S : f[x] = f[y] => x = y
  BY RankGrows
<1> HIDE DEF f, T
<1>4. IsFiniteSet(T) /\ Cardinality(T) = Cardinality(S)
  BY <1>2, <1>3, OntoSize
<1>5. Cardinality(S) \in Nat
  BY FS_CardinalityType
<1>6. IsFiniteSet(1 .. Cardinality(S)) /\ Cardinality(1 .. Cardinality(S)) = Cardinality(S)
  BY <1>5, FS_Interval
<1>7. T = 1 .. Cardinality(S)
  BY <1>1, <1>4, <1>6, FS_Subset
<1> QED
  BY <1>7 DEF T

\* The first n members of a finite set are n, or all of it.
LEMMA FirstMembers ==
  ASSUME NEW S \in SUBSET Int, IsFiniteSet(S), NEW n \in Nat
  PROVE  LET F == {r \in S : Cardinality({q \in S : q < r}) < n}
         IN  /\ IsFiniteSet(F) /\ Cardinality(F) \in Nat /\ Cardinality(F) <= n
             /\ F # S => Cardinality(F) = n
             /\ n # 0 /\ S # {} => F # {}
             /\ \A t \in F, r \in S : r <= t => r \in F
<1> DEFINE F == {r \in S : Cardinality({q \in S : q < r}) < n}
           f == [r \in F |-> RankIn(S, r)]
           size == Cardinality(S)
<1>0. size \in Nat
  BY FS_CardinalityType
<1>1. \A r \in S : RankIn(S, r) \in 1 .. size /\ (r \in F <=> RankIn(S, r) <= n)
  <2> SUFFICES ASSUME NEW r \in S
               PROVE  RankIn(S, r) \in 1 .. size /\ (r \in F <=> RankIn(S, r) <= n)
    OBVIOUS
  <2>1. RankIn(S, r) \in 1 .. size /\ Cardinality({q \in S : q < r}) = RankIn(S, r) - 1
    BY RankGrows
  <2> QED
    BY <1>0, <2>1
<1>2. F \subseteq S /\ IsFiniteSet(F) /\ Cardinality(F) \in Nat
  BY FS_Subset, FS_CardinalityType
<1> HIDE DEF F
<1>3. \A r, t \in S : (r < t => RankIn(S, r) < RankIn(S, t)) /\ (RankIn(S, r) = RankIn(S, t) => r = t)
  BY RankGrows
<1>4. \A t \in F, r \in S : r <= t => r \in F
  <2> SUFFICES ASSUME NEW t \in F, NEW r \in S, r <= t PROVE r \in F
    OBVIOUS
  <2>1. r < t \/ r = t
    BY <1>2
  <2>2. RankIn(S, r) <= RankIn(S, t) /\ RankIn(S, t) <= n
    BY <1>0, <1>1, <1>2, <1>3, <2>1
  <2> QED
    BY <1>0, <1>1, <1>2, <2>2
<1>5. size > n => Cardinality(F) = n
  <2> SUFFICES ASSUME size > n PROVE Cardinality(F) = n
    OBVIOUS
  <2>1. \A r \in F : RankIn(S, r) \in 1 .. n
    BY <1>0, <1>1, <1>2
  <2>2. f \in [F -> 1 .. n]
    BY <2>1
  <2>3. \A y \in 1 .. n : \E x \in F : f[x] = y
    <3> SUFFICES ASSUME NEW y \in 1 .. n PROVE \E x \in F : f[x] = y
      OBVIOUS
    <3>1. y \in 1 .. size /\ y <= n
      BY <1>0
    <3>2. PICK x \in S : RankIn(S, x) = y
      BY <3>1, RankTaken
    <3> QED
      BY <1>1, <3>1, <3>2
  <2>4. \A x, y \in F : f[x] = f[y] => x = y
    BY <1>2, <1>3
  <2> HIDE DEF f
  <2>5. Cardinality(1 .. n) = Cardinality(F)
    BY <1>2, <2>2, <2>3, <2>4, OntoSize
  <2>6. Cardinality(1 .. n) = n
    BY FS_Interval
  <2> QED
    BY <2>5, <2>6
<1>6. size <= n => F = S
  <2> SUFFICES ASSUME size <= n, NEW r \in S PROVE r \in F
    BY <1>2
  <2> QED
    BY <1>0, <1>1
<1>7. Cardinality(F) <= n /\ (F # S => Cardinality(F) = n)
  BY <1>0, <1>5, <1>6
<1>8. n # 0 /\ S # {} => F # {}
  BY <1>0, <1>5, <1>6, FS_EmptySet
<1> QED
  BY <1>2, <1>4, <1>7, <1>8 DEF F

-----------------------------------------------------------------------------
(* Multiples.                                                              *)

\* Different multiples of a number lie at least that number apart.
LEMMA MultiplesApart ==
  ASSUME NEW d \in Nat \ {0}, NEW i \in Nat, NEW j \in Nat, i < j
  PROVE  d * i \in Nat /\ d * j \in Nat /\ d * i + d <= d * j
<1>1. PICK e \in Nat : j = (i + 1) + e
  <2>1. j - (i + 1) \in Nat /\ j = (i + 1) + (j - (i + 1))
    OBVIOUS
  <2> QED
    BY <2>1
<1>2. d * j = d * i + d + d * e /\ d * e \in Nat /\ d * i \in Nat
  BY <1>1, Z3
<1> QED
  BY <1>2

\* A multiple and the next.
LEMMA NextMultiple ==
  ASSUME NEW a \in Nat, NEW d \in Nat \ {0}
  PROVE  a * d \in Nat /\ (a + 1) * d = a * d + d /\ a <= a * d
<1>1. a * d \in Nat /\ (a + 1) * d = a * d + d
  BY Z3
<1>2. PICK e \in Nat : d = e + 1
  <2>1. d - 1 \in Nat /\ d = (d - 1) + 1
    OBVIOUS
  <2> QED
    BY <2>1
<1>3. a * (e + 1) = a * e + a /\ a * e \in Nat
  BY Z3
<1> QED
  BY <1>1, <1>2, <1>3
=============================================================================
