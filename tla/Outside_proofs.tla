---------------------------- MODULE Outside_proofs ----------------------------
(***************************************************************************)
(* Theorems about what the program has of the outside: the one connection  *)
(* to the market-data stream (StreamLock), for every set of daemons and    *)
(* platforms and every number of starts and of faults; a download          *)
(* by any of the clients (PagedFetch), for every listing, page size and    *)
(* number of retries; and the histories kept of it (NewsPipelines,         *)
(* NewsHistory), for every length of the queue, of a day and of a row's    *)
(* life.                                                                   *)
(***************************************************************************)
EXTENDS StreamLock, NewsHistory, Sums, SequenceTheorems

-----------------------------------------------------------------------------
(* The connection.                                                         *)

PcValues == Looping \cup {"down", "starting", "refused", "closing"}

\* Who created the lock file is at the account, or has abandoned the file, and may
\* have been started again: StaleOnlyAfterFailure speaks only of one that is down.
StaleInv ==
  \A d \in Daemons : lockFile = d /\ pc[d] \notin Looping \cup {"closing"} => abandoned

LockInv == TypeOK /\ LockCoversConnection /\ StaleInv

LEMMA InitLockInv == Init => LockInv
<1> SUFFICES ASSUME Init PROVE LockInv
  OBVIOUS
<1>1. \A p \in Process : pc[p] = "down"
  BY DEF Init
<1>2. TypeOK
  <2>1. abandoned \in BOOLEAN /\ pc = [p \in Process |-> "down"]
    BY DEF Init
  <2> QED
    BY <1>1, <2>1, StreamLockAssumption DEF Init, TypeOK, Process
<1>3. LockCoversConnection
  BY <1>1 DEF LockCoversConnection, Looping, Process
<1>4. StaleInv
  BY StreamLockAssumption DEF Init, StaleInv, Process
<1> QED
  BY <1>2, <1>3, <1>4 DEF LockInv

\* The program counters after p has gone to another place.
LEMMA GoesTo ==
  ASSUME TypeOK, NEW p \in Process, NEW to \in PcValues, Goes(p, to),
         p \in Platforms => to # "refused"
  PROVE  /\ pc' \in [Process -> PcValues]
         /\ \A q \in Process : pc'[q] = IF q = p THEN to ELSE pc[q]
         /\ \A q \in Platforms : pc'[q] # "refused"
<1>1. pc \in [Process -> PcValues]
  BY DEF TypeOK, PcValues
<1>2. /\ pc' \in [Process -> PcValues]
      /\ \A q \in Process : pc'[q] = IF q = p THEN to ELSE pc[q]
  BY <1>1 DEF Goes
<1> QED
  BY <1>2 DEF TypeOK, Process

\* A step of p inside the loop, or out of it to the closing of its connection.
LEMMA LoopSteps ==
  ASSUME LockInv, NEW p \in Process,
         \/ Connect(p) \/ Authenticate(p) \/ Subscribe(p) \/ Reconnect(p)
         \/ ConnectionLost(p) \/ Stop(p)
  PROVE  LockInv'
<1>1. /\ pc[p] \in Looping
      /\ UNCHANGED <<lockFile, abandoned, said, starts>>
      /\ faults' \in 0..MaxFaults
  BY StreamLockAssumption
     DEF Fault, LockInv, TypeOK, Looping, Connect, Authenticate, Subscribe, Reconnect, ConnectionLost, Stop
<1>2. \E to \in Looping \cup {"closing"} : Goes(p, to)
  BY DEF Looping, Waits, Connect, Authenticate, Subscribe, Reconnect, ConnectionLost, Stop
<1>3. sessions' \subseteq Process /\ \A q, r \in sessions' : q = r
  BY DEF LockInv, TypeOK, Connect, Authenticate, Subscribe, Reconnect, ConnectionLost, Stop
<1>4. PICK to \in Looping \cup {"closing"} : Goes(p, to)
  BY <1>2
<1>5. /\ pc' \in [Process -> PcValues]
      /\ \A q \in Process : pc'[q] = IF q = p THEN to ELSE pc[q]
      /\ \A q \in Platforms : pc'[q] # "refused"
  BY <1>4, GoesTo DEF LockInv, PcValues, Looping
<1>6. TypeOK'
  BY <1>1, <1>3, <1>5 DEF LockInv, TypeOK, PcValues
<1>7. LockCoversConnection'
  BY <1>1, <1>5 DEF LockInv, LockCoversConnection, Process
<1>8. StaleInv'
  BY <1>1, <1>5 DEF LockInv, StaleInv, Process, Looping
<1> QED
  BY <1>6, <1>7, <1>8 DEF LockInv

LEMMA NextLockInv == LockInv /\ [Next]_vars => LockInv'
<1> SUFFICES ASSUME LockInv, [Next]_vars PROVE LockInv'
  OBVIOUS
<1>1. TypeOK /\ LockCoversConnection /\ StaleInv
  BY DEF LockInv
<1>11. /\ "down" \notin Looping \cup {"closing"} /\ "starting" \notin Looping \cup {"closing"}
       /\ "refused" \notin Looping \cup {"closing"} /\ "connecting" \in Looping
  BY DEF Looping
<1>2. ASSUME NEW p \in Process, Start(p) PROVE LockInv'
  <2>1. /\ pc' \in [Process -> PcValues]
        /\ \A q \in Process : pc'[q] = IF q = p THEN "starting" ELSE pc[q]
        /\ \A q \in Platforms : pc'[q] # "refused"
    BY <1>1, <1>2, GoesTo DEF Start, PcValues
  <2>2. /\ UNCHANGED <<lockFile, sessions, abandoned, faults>>
        /\ starts' \in 0..MaxStarts /\ said' \in [Daemons -> {"nothing", "OK", "WARNING"}]
    BY <1>1, <1>2, StreamLockAssumption DEF Start, TypeOK
  <2>3. TypeOK'
    BY <1>1, <2>1, <2>2 DEF TypeOK, PcValues
  <2>4. LockCoversConnection'
    BY <1>1, <1>11, <2>1, <2>2 DEF LockCoversConnection, Process
  <2>5. StaleInv'
    <3>1. pc[p] = "down"
      BY <1>2 DEF Start
    <3> QED
      BY <1>1, <1>11, <2>1, <2>2, <3>1 DEF StaleInv, Process
  <2> QED
    BY <2>3, <2>4, <2>5 DEF LockInv
<1>3. ASSUME NEW d \in Daemons, Acquire(d) PROVE LockInv'
  <2>1. d \in Process /\ d \notin Platforms
    BY StreamLockAssumption DEF Process
  <2>2. UNCHANGED <<sessions, said, starts>> /\ faults' \in 0..MaxFaults /\ pc[d] = "starting"
    BY <1>1, <1>3, StreamLockAssumption DEF Acquire, AcquireFails, Fault, TypeOK
  <2>3. CASE /\ lockFile = NoOne /\ Goes(d, "connecting") /\ lockFile' = d
             /\ UNCHANGED abandoned
    <3>1. /\ pc' \in [Process -> PcValues]
          /\ \A q \in Process : pc'[q] = IF q = d THEN "connecting" ELSE pc[q]
          /\ \A q \in Platforms : pc'[q] # "refused"
      BY <1>1, <2>1, <2>3, GoesTo DEF PcValues, Looping
    <3>2. TypeOK'
      BY <1>1, <2>2, <2>3, <3>1 DEF TypeOK, PcValues
    <3>3. LockCoversConnection' /\ StaleInv'
      BY <1>1, <1>11, <2>1, <2>2, <2>3, <3>1, StreamLockAssumption
         DEF LockCoversConnection, StaleInv, Process
    <3> QED
      BY <3>2, <3>3 DEF LockInv
  <2>4. CASE lockFile # NoOne /\ Refused(d) /\ UNCHANGED abandoned
    <3>1. /\ pc' \in [Process -> PcValues] /\ UNCHANGED lockFile
          /\ \A q \in Process : pc'[q] = IF q = d THEN "refused" ELSE pc[q]
          /\ \A q \in Platforms : pc'[q] # "refused"
      BY <1>1, <2>1, <2>4, GoesTo DEF PcValues, Refused
    <3>2. TypeOK'
      BY <1>1, <2>2, <2>4, <3>1 DEF TypeOK, PcValues
    <3>3. LockCoversConnection'
      BY <1>1, <1>11, <2>1, <2>2, <3>1 DEF LockCoversConnection, Process
    <3>4. StaleInv'
      BY <1>1, <1>11, <2>1, <2>2, <2>4, <3>1 DEF StaleInv, Process
    <3> QED
      BY <3>2, <3>3, <3>4 DEF LockInv
  <2>5. CASE lockFile = NoOne /\ AcquireFails(d)
    <3>1. /\ pc' \in [Process -> PcValues]
          /\ \A q \in Process : pc'[q] = IF q = d THEN "refused" ELSE pc[q]
          /\ \A q \in Platforms : pc'[q] # "refused"
      BY <1>1, <2>1, <2>5, GoesTo DEF PcValues, AcquireFails
    <3>2. lockFile' \in {NoOne, d} /\ abandoned' = (lockFile' = d)
      BY <2>5 DEF AcquireFails
    <3>3. TypeOK'
      BY <1>1, <2>2, <3>1, <3>2 DEF TypeOK, PcValues
    <3>4. LockCoversConnection'
      \* with no lock file, nobody is at the account
      <4>1. \A e \in Daemons : pc[e] \notin Looping \cup {"closing"}
        BY <1>1, <2>5, StreamLockAssumption DEF LockCoversConnection, Process
      <4> QED
        BY <1>11, <2>1, <3>1, <4>1 DEF LockCoversConnection, Process
    <3>5. StaleInv'
      BY <3>2, StreamLockAssumption DEF StaleInv, Process
    <3> QED
      BY <3>3, <3>4, <3>5 DEF LockInv
  <2> QED
    BY <1>3, <2>3, <2>4, <2>5 DEF Acquire
<1>4. ASSUME NEW p \in Platforms, RunUnlocked(p) \/ LeaveUnlocked(p) PROVE LockInv'
  <2>1. p \in Process /\ p \notin Daemons
    BY StreamLockAssumption DEF Process
  <2>2. UNCHANGED <<lockFile, sessions, abandoned, said, starts, faults>>
    BY <1>4 DEF RunUnlocked, LeaveUnlocked
  <2>3. PICK to \in {"connecting", "down"} : Goes(p, to)
    BY <1>4 DEF RunUnlocked, LeaveUnlocked
  <2>4. /\ pc' \in [Process -> PcValues]
        /\ \A q \in Process : pc'[q] = IF q = p THEN to ELSE pc[q]
        /\ \A q \in Platforms : pc'[q] # "refused"
    BY <1>1, <2>1, <2>3, GoesTo DEF PcValues, Looping
  <2>5. TypeOK'
    BY <1>1, <2>2, <2>4 DEF TypeOK, PcValues
  <2>6. LockCoversConnection' /\ StaleInv'
    BY <1>1, <2>1, <2>2, <2>4
       DEF LockCoversConnection, StaleInv, Process
  <2> QED
    BY <2>5, <2>6 DEF LockInv
<1>5. ASSUME NEW d \in Daemons, Release(d) PROVE LockInv'
  <2>1. d \in Process /\ d \notin Platforms
    BY StreamLockAssumption DEF Process
  <2>2. /\ pc[d] = "closing" /\ Goes(d, "down")
        /\ lockFile' \in {NoOne, lockFile} /\ abandoned' \in BOOLEAN
        /\ lockFile' # NoOne => abandoned'
        /\ said' \in [Daemons -> {"nothing", "OK", "WARNING"}]
        /\ UNCHANGED <<sessions, starts>> /\ faults' \in 0..MaxFaults
    <3>1. said' \in [Daemons -> {"nothing", "OK", "WARNING"}]
      BY <1>1, <1>5 DEF Release, TypeOK
    <3>2. CASE lockFile' = NoOne /\ abandoned' = FALSE /\ UNCHANGED faults
      BY <1>1, <1>5, <3>1, <3>2 DEF Release, TypeOK
    <3>3. CASE UNCHANGED lockFile /\ abandoned' = TRUE /\ Fault
      <4>1. faults' \in 0..MaxFaults
        BY <1>1, <3>3, StreamLockAssumption DEF Fault, TypeOK
      <4> QED
        BY <1>5, <3>1, <3>3, <4>1 DEF Release
    <3> QED
      BY <1>5, <3>2, <3>3 DEF Release, Unlink
  <2>3. /\ pc' \in [Process -> PcValues]
        /\ \A q \in Process : pc'[q] = IF q = d THEN "down" ELSE pc[q]
        /\ \A q \in Platforms : pc'[q] # "refused"
    BY <1>1, <2>1, <2>2, GoesTo DEF PcValues
  <2>4. TypeOK'
    BY <1>1, <2>2, <2>3 DEF TypeOK, PcValues
  <2>5. LockCoversConnection'
    <3>1. lockFile = d
      BY <1>1, <2>2 DEF LockCoversConnection
    <3> QED
      BY <1>1, <2>1, <2>3, <3>1 DEF LockCoversConnection, Process, Looping
  <2>6. StaleInv'
    BY <2>2, StreamLockAssumption DEF StaleInv
  <2> QED
    BY <2>4, <2>5, <2>6 DEF LockInv
<1>6. ASSUME NEW d \in Daemons, StopRefused(d) PROVE LockInv'
  <2>1. d \in Process /\ d \notin Platforms
    BY StreamLockAssumption DEF Process
  <2>2. /\ pc[d] = "refused" /\ Goes(d, "down")
        /\ said' \in [Daemons -> {"nothing", "OK", "WARNING"}]
        /\ UNCHANGED <<lockFile, sessions, abandoned, starts, faults>>
    BY <1>1, <1>6 DEF StopRefused, TypeOK
  <2>3. /\ pc' \in [Process -> PcValues]
        /\ \A q \in Process : pc'[q] = IF q = d THEN "down" ELSE pc[q]
        /\ \A q \in Platforms : pc'[q] # "refused"
    BY <1>1, <2>1, <2>2, GoesTo DEF PcValues
  <2>4. TypeOK'
    BY <1>1, <2>2, <2>3 DEF TypeOK, PcValues
  <2>5. LockCoversConnection' /\ StaleInv'
    BY <1>1, <2>1, <2>2, <2>3
       DEF LockCoversConnection, StaleInv, Process, Looping
  <2> QED
    BY <2>4, <2>5 DEF LockInv
<1>7. ASSUME NEW p \in Process, Kill(p) PROVE LockInv'
  <2>1. /\ Goes(p, "down") /\ abandoned' = (abandoned \/ lockFile = p)
        /\ UNCHANGED <<lockFile, sessions, said, starts, faults>>
    BY <1>7 DEF Kill
  <2>2. /\ pc' \in [Process -> PcValues]
        /\ \A q \in Process : pc'[q] = IF q = p THEN "down" ELSE pc[q]
        /\ \A q \in Platforms : pc'[q] # "refused"
    BY <1>1, <2>1, GoesTo DEF PcValues
  <2>3. TypeOK'
    BY <1>1, <2>1, <2>2 DEF TypeOK, PcValues
  <2>4. LockCoversConnection' /\ StaleInv'
    BY <1>1, <2>1, <2>2
       DEF LockCoversConnection, StaleInv, Process, Looping
  <2> QED
    BY <2>3, <2>4 DEF LockInv
<1>8. CASE DeleteLockFile
  <2>1. LockCoversConnection'
    BY <1>8 DEF DeleteLockFile, LockCoversConnection, Looping
  <2> QED
    BY <1>1, <1>8, <2>1, StreamLockAssumption
       DEF DeleteLockFile, LockInv, TypeOK, StaleInv, Process
<1>9. ASSUME NEW p \in Process, SessionEnds(p) PROVE LockInv'
  BY <1>1, <1>9 DEF SessionEnds, LockInv, TypeOK, LockCoversConnection, StaleInv
<1>10. CASE UNCHANGED vars
  BY <1>1, <1>10 DEF vars, LockInv, TypeOK, LockCoversConnection, StaleInv
<1> QED
  BY <1>2, <1>3, <1>4, <1>5, <1>6, <1>7, <1>8, <1>9, <1>10, LoopSteps DEF Next, Advance

LEMMA LockInvHolds == Spec => []LockInv
BY InitLockInv, NextLockInv, PTL DEF Spec

\* Types, and that Alpaca never holds two sessions of the account.
THEOREM TypeCorrect == Spec => []TypeOK
<1>1. LockInv => TypeOK
  BY DEF LockInv
<1> QED
  BY LockInvHolds, <1>1, PTL

\* A daemon at the account owns the lock file, whatever other processes start,
\* are refused, stop or die.
THEOREM LockCovers == Spec => []LockCoversConnection
<1>1. LockInv => LockCoversConnection
  BY DEF LockInv
<1> QED
  BY LockInvHolds, <1>1, PTL

\* Only a kill, or a write or a deletion of the lock file that failed, leaves it
\* there without its daemon, whatever other processes start, are refused or stop.
THEOREM StaleLockMeansFailure == Spec => []StaleOnlyAfterFailure
<1>1. LockInv => StaleOnlyAfterFailure
  BY DEF LockInv, StaleInv, StaleOnlyAfterFailure, Looping
<1> QED
  BY LockInvHolds, <1>1, PTL

-----------------------------------------------------------------------------
(* Pages.                                                                  *)

Increasing(s) == \A i, j \in DOMAIN s : i < j => s[i] < s[j]

\* The keys of a page, in order, are those of the page, each once.
LEMMA OrderedPage ==
  ASSUME NEW page \in SUBSET Rows
  PROVE  LET s == InOrder(page)
         IN  /\ s \in Seq(page) /\ Len(s) = Cardinality(page) /\ Increasing(s)
             /\ \A r \in page : \E i \in DOMAIN s : s[i] = r
<1> DEFINE n == Cardinality(page)
           s == InOrder(page)
<1>1. page \in SUBSET Int /\ IsFiniteSet(page) /\ n \in Nat
  <2>1. Rows \in SUBSET Int /\ IsFiniteSet(Rows)
    BY FetchAssumption
  <2>2. IsFiniteSet(page)
    BY <2>1, FS_Subset
  <2> QED
    BY <2>1, <2>2, FS_CardinalityType
<1>2. s = [i \in 1 .. n |-> CHOOSE r \in page : RankIn(page, r) = i]
  BY DEF InOrder, RankIn
<1>3. ASSUME NEW i \in 1 .. n PROVE s[i] \in page /\ RankIn(page, s[i]) = i
  <2>1. \E r \in page : RankIn(page, r) = i
    BY <1>1, RankTaken
  <2> QED
    BY <1>2, <2>1
<1>4. s \in [1 .. n -> page]
  <2> HIDE DEF s
  <2> QED
    BY <1>2, <1>3
<1> HIDE DEF s, n
<1>5. s \in Seq(page) /\ Len(s) = n /\ DOMAIN s = 1 .. n
  BY <1>1, <1>4
<1>6. ASSUME NEW i \in 1 .. n, NEW j \in 1 .. n, i < j PROVE s[i] < s[j]
  <2>1. s[i] \in page /\ s[j] \in page /\ RankIn(page, s[i]) = i /\ RankIn(page, s[j]) = j
    BY <1>3
  <2>2. s[j] < s[i] => j < i
    <3>1. s[j] < s[i] => RankIn(page, s[j]) < RankIn(page, s[i])
      BY <1>1, <2>1, RankGrows
    <3> QED
      BY <2>1, <3>1
  <2>3. s[i] \in Int /\ s[j] \in Int /\ i \in Int /\ j \in Int /\ s[i] # s[j]
    <3>1. \A r \in page : r \in Int
      BY <1>1
    <3>2. i \in Int /\ j \in Int /\ i # j
      BY <1>1, <1>6
    <3>3. s[i] # s[j]
      BY <2>1, <3>2
    <3> QED
      BY <2>1, <3>1, <3>2, <3>3
  <2> QED
    BY <1>6, <2>2, <2>3
<1>7. ASSUME NEW r \in page PROVE \E i \in 1 .. n : s[i] = r
  <2>1. RankIn(page, r) \in 1 .. n
    BY <1>1, RankGrows DEF n
  <2>2. RankIn(page, s[RankIn(page, r)]) = RankIn(page, r) /\ s[RankIn(page, r)] \in page
    BY <1>3, <2>1
  <2>3. s[RankIn(page, r)] = r
    BY <1>1, <2>2, RankGrows
  <2> QED
    BY <2>1, <2>3
<1> QED
  BY <1>5, <1>6, <1>7 DEF Increasing, s, n

\* As many keys in order as a set of keys has at most.
LEMMA NoMoreThanListed ==
  ASSUME NEW s \in Seq(Rows), Increasing(s)
  PROVE  Len(s) <= Cardinality(Rows)
<1> DEFINE n == Len(s)
<1>1. n \in Nat /\ DOMAIN s = 1 .. n /\ s \in [1 .. n -> Rows]
  OBVIOUS
<1> HIDE DEF n
<1>2. ASSUME NEW i \in 1 .. n, NEW j \in 1 .. n, s[i] = s[j] PROVE i = j
  <2>1. s[i] \in Rows /\ s[i] \in Nat
    BY <1>1, FetchAssumption
  <2>2. ~(i < j) /\ ~(j < i)
    BY <1>1, <1>2, <2>1 DEF Increasing
  <2> QED
    BY <1>1, <2>2
<1>3. s \in Injection(1 .. n, Rows)
  BY <1>1, <1>2 DEF Injection, IsInjective
<1>4. Cardinality(1 .. n) <= Cardinality(Rows)
  BY <1>3, FetchAssumption, FS_Injection
<1>5. Cardinality(1 .. n) = n
  BY <1>1, FS_Interval
<1> QED
  BY <1>4, <1>5 DEF n

\* What each client's record may hold.
WellMade(c) ==
    /\ c.limit \in Nat \ {0} /\ c.pages \in Nat \ {0} /\ c.again \in Nat
    /\ c.full \in {"unseen", "raised", "told"} /\ c.empty \in {"rows", "raised", "nothing"}
    /\ c.fails \in {"raised", "nothing"}
    /\ c.pages > 1 /\ c.full = "unseen" => c.pages = Unpaged
    /\ c.full = "told" => c.pages = MaxPages /\ c.limit = PageSize
    /\ c.keeps # {} => \/ c = fetch_news_range
                       \/ c.pages = 1 /\ c.empty = "nothing"

LEMMA ClientsAre == \A c \in Client : WellMade(c)
<1>1. PageSize \in Nat \ {0} /\ MaxPages \in Nat \ {0} /\ MaxRetries \in Nat \ {0} /\ Unpaged \in Nat \ {0}
  <2>1. Cardinality(Rows) \in Nat
    BY FetchAssumption, FS_CardinalityType
  <2> QED
    BY <2>1, FetchAssumption DEF Unpaged
<1>2. WellMade(_get_with_retry)
  BY <1>1 DEF WellMade, _get_with_retry
<1>3. WellMade(_fetch_spy_closes)
  BY <1>1 DEF WellMade, _fetch_spy_closes, _get_with_retry
<1>4. WellMade(_fetch_vix_closes)
  BY <1>1 DEF WellMade, _fetch_vix_closes, _get_with_retry
<1>5. WellMade(fetch_aggs)
  BY <1>1 DEF WellMade, fetch_aggs
<1>6. WellMade(_fetch_avg_daily_volume)
  BY <1>1 DEF WellMade, _fetch_avg_daily_volume, fetch_aggs
<1>7. WellMade(get_vix_history)
  BY <1>1 DEF WellMade, get_vix_history, fetch_aggs
<1>8. WellMade(_load_vix_daily)
  BY <1>1 DEF WellMade, _load_vix_daily, get_vix_history, fetch_aggs
<1>9. WellMade(_fetch_polygon_reference)
  BY <1>1 DEF WellMade, _fetch_polygon_reference, fetch_aggs
<1>10. WellMade(fetch_news_range)
  BY <1>1 DEF WellMade, fetch_news_range, fetch_aggs
<1>11. WellMade(alpaca_bars)
  BY <1>1 DEF WellMade, alpaca_bars, _get_with_retry
<1>12. WellMade(option_chain)
  BY <1>1 DEF WellMade, option_chain, alpaca_bars, _get_with_retry
<1>13. WellMade(_fetch_ticker_window)
  BY <1>1 DEF WellMade, _fetch_ticker_window
<1>14. WellMade(finnhub_get)
  BY <1>1 DEF WellMade, finnhub_get
<1>15. WellMade(_fetch_minute_bars)
  BY <1>1 DEF WellMade, _fetch_minute_bars, finnhub_get
<1> QED
  BY <1>2, <1>3, <1>4, <1>5, <1>6, <1>7, <1>8, <1>9, <1>10, <1>11, <1>12, <1>13, <1>14, <1>15 DEF Client

-----------------------------------------------------------------------------
(* A download.                                                             *)

Outcomes == {"running", "rows", "raised", "nothing"}
Downloads == [client : Client, from : Nat, to : Nat, got : Seq(Rows), behind : Nat, page : Nat, tries : Nat,
              again : Nat, outcome : Outcomes, since : SUBSET Rows, cut : BOOLEAN, told : BOOLEAN]

Asked(d, list) == {r \in list : d.from <= r /\ r <= d.to}

\* What it has got is the listing up to where it is.
Follows(d, list) ==
    /\ Increasing(d.got)
    /\ ToSet(d.got) \subseteq Asked(d, list)
    /\ \A i \in DOMAIN d.got : d.got[i] <= d.behind
    /\ d.got = <<>> => d.behind = 0
    /\ d.got # <<>> => d.behind \in ToSet(d.got)
    /\ d.since \subseteq Asked(d, list)
    /\ \A r \in d.since : r <= d.behind => r \in ToSet(d.got)

\* While it runs every page was full.
Underway(d) ==
    d.outcome = "running" => /\ Len(d.got) = d.page * d.client.limit /\ d.page < d.client.pages
                             /\ ~d.cut /\ ~d.told

\* How it ended.
Ended(d) ==
    /\ d.outcome = "rows" =>
          \/ d.since \subseteq ToSet(d.got)
          \/ d.client.pages = 1 /\ Len(d.got) = d.client.limit /\ d.client.full # "raised"
          \/ d.client.full = "told" /\ d.told
          \/ d.cut /\ d.client = fetch_news_range
    /\ d.outcome = "nothing" => d.client.fails = "nothing" \/ d.got = <<>>
    /\ d.told => d.outcome = "rows" /\ Len(d.got) = MaxPages * PageSize

Sound(d, list) == d \in Downloads /\ Follows(d, list) /\ Underway(d) /\ Ended(d)

\* A download that begins.
LEMMA FreshIsSound ==
  ASSUME listing \subseteq Rows, NEW c \in Client, NEW from \in Nat, NEW to \in Nat, NEW again \in Nat
  PROVE  Sound(Fresh(c, from, to, again), listing)
<1> DEFINE d == Fresh(c, from, to, again)
<1>1. d \in Downloads
  <2>1. {r \in listing : from <= r /\ r <= to} \in SUBSET Rows /\ <<>> \in Seq(Rows)
    OBVIOUS
  <2> QED
    BY <2>1 DEF Fresh, Downloads, Outcomes
<1>2. /\ d.got = <<>> /\ DOMAIN d.got = {} /\ ToSet(d.got) = {} /\ Len(d.got) = 0
      /\ d.behind = 0 /\ d.page = 0 /\ d.client = c /\ d.from = from /\ d.to = to
      /\ d.outcome = "running" /\ ~d.cut /\ ~d.told
      /\ d.since = Asked(d, listing)
  BY DEF Fresh, Asked, ToSet
<1> HIDE DEF d
<1>3. Follows(d, listing)
  <2>1. \A r \in listing : r \in Nat /\ ~(r <= 0)
    BY FetchAssumption
  <2> QED
    BY <1>2, <2>1 DEF Follows, Increasing, Asked
<1>4. Underway(d)
  <2>1. c.limit \in Nat \ {0} /\ c.pages \in Nat \ {0}
    BY ClientsAre DEF WellMade
  <2> QED
    BY <1>2, <2>1 DEF Underway
<1> QED
  BY <1>1, <1>2, <1>3, <1>4 DEF Sound, Ended, d

\* What is left of the listing behind a download, and its next page.
LEMMA PageIs ==
  ASSUME listing \subseteq Rows, NEW d \in Downloads
  PROVE  LET page == PageOf(d)
             s == InOrder(page)
         IN  /\ page \subseteq Rest(d) /\ Rest(d) \subseteq Asked(d, listing) /\ Rest(d) \subseteq Rows
             /\ \A r \in Rest(d) : r \in Nat /\ r > d.behind
             /\ Cardinality(page) \in Nat /\ Cardinality(page) <= d.client.limit
             /\ page # Rest(d) => Cardinality(page) = d.client.limit
             /\ Rest(d) # {} => page # {}
             /\ \A t \in page, r \in Rest(d) : r <= t => r \in page
             /\ page # {} => Max(page) \in page /\ \A r \in page : r <= Max(page)
             /\ s \in Seq(Rows) /\ Len(s) = Cardinality(page) /\ Increasing(s)
             /\ ToSet(s) = page
<1> DEFINE R == Rest(d)
           page == PageOf(d)
           s == InOrder(page)
<1>1. R \subseteq Asked(d, listing) /\ R \subseteq Rows /\ \A r \in R : r > d.behind
  BY DEF Rest, Asked
<1>2. page \subseteq R /\ page = {r \in R : Cardinality({q \in R : q < r}) < d.client.limit}
  BY DEF PageOf
<1>3. d.client.limit \in Nat \ {0}
  BY ClientsAre DEF WellMade, Downloads
<1> HIDE DEF R, page
<1>4. Rows \subseteq Nat /\ IsFiniteSet(Rows)
  BY FetchAssumption
<1>5. IsFiniteSet(R) /\ R \in SUBSET Int /\ \A r \in R : r \in Nat
  <2>1. R \in SUBSET Rows
    BY <1>1
  <2>2. IsFiniteSet(R)
    BY <1>4, <2>1, FS_Subset
  <2> QED
    BY <1>4, <2>1, <2>2
<1>6. /\ Cardinality(page) \in Nat /\ Cardinality(page) <= d.client.limit
      /\ page # R => Cardinality(page) = d.client.limit
      /\ R # {} => page # {}
      /\ \A t \in page, r \in R : r <= t => r \in page
  <2>1. \A n \in Nat : LET F == {r \in R : Cardinality({q \in R : q < r}) < n}
                       IN  /\ Cardinality(F) \in Nat /\ Cardinality(F) <= n
                           /\ F # R => Cardinality(F) = n
                           /\ n # 0 /\ R # {} => F # {}
                           /\ \A t \in F, r \in R : r <= t => r \in F
    BY <1>5, FirstMembers
  <2>2. d.client.limit \in Nat /\ d.client.limit # 0
    BY <1>3
  <2> QED
    BY <1>2, <2>1, <2>2
<1>7. page # {} => Max(page) \in page /\ \A r \in page : r <= Max(page)
  <2> SUFFICES ASSUME page # {} PROVE Max(page) \in page /\ \A r \in page : r <= Max(page)
    OBVIOUS
  <2>1. page \in SUBSET Int /\ IsFiniteSet(page)
    BY <1>2, <1>5, FS_Subset
  <2> QED
    BY <2>1, FiniteMax
<1>8. /\ s \in Seq(page) /\ Len(s) = Cardinality(page) /\ Increasing(s)
      /\ \A r \in page : \E i \in DOMAIN s : s[i] = r
  <2>1. page \in SUBSET Rows
    BY <1>1, <1>2
  <2> QED
    BY <2>1, OrderedPage
<1> HIDE DEF s
<1>9. s \in Seq(Rows)
  <2>1. Len(s) \in Nat /\ s \in [1 .. Len(s) -> page]
    BY <1>8
  <2>2. s \in [1 .. Len(s) -> Rows]
    BY <1>1, <1>2, <2>1
  <2> QED
    BY <2>1, <2>2
<1>10. ToSet(s) = page
  <2>1. ToSet(s) = {s[i] : i \in DOMAIN s}
    BY DEF ToSet
  <2>2. \A i \in DOMAIN s : s[i] \in page
    BY <1>8
  <2> QED
    BY <1>8, <2>1, <2>2
<1> QED
  BY <1>1, <1>2, <1>5, <1>6, <1>7, <1>8, <1>9, <1>10 DEF R, page, s

\* A download with one more page follows the listing further.
LEMMA OneMorePage ==
  ASSUME listing \subseteq Rows, NEW d, Sound(d, listing), d.outcome = "running"
  PROVE  LET e == WithPage(d)
         IN  /\ e \in Downloads /\ Follows(e, listing)
             /\ e.client = d.client /\ e.outcome = "running" /\ e.since = d.since
             /\ e.from = d.from /\ e.to = d.to /\ e.again = d.again
             /\ e.page = d.page + 1 /\ Len(e.got) = Len(d.got) + Cardinality(PageOf(d))
             /\ ~e.cut /\ ~e.told
             /\ PageOf(d) = Rest(d) => e.since \subseteq ToSet(e.got)
             /\ ToSet(d.got) \subseteq ToSet(e.got)
             /\ \A r \in Asked(d, listing) : d.behind < r /\ r <= e.behind => r \in ToSet(e.got)
<1> DEFINE page == PageOf(d)
           s == InOrder(page)
           e == WithPage(d)
           got == d.got \o s
<1>1. d \in Downloads /\ Follows(d, listing) /\ Underway(d)
  BY DEF Sound
<1>2. /\ page \subseteq Rest(d) /\ Rest(d) \subseteq Asked(d, listing) /\ Rest(d) \subseteq Rows
      /\ \A r \in Rest(d) : r \in Nat /\ r > d.behind
      /\ Cardinality(page) \in Nat
      /\ Rest(d) # {} => page # {}
      /\ \A t \in page, r \in Rest(d) : r <= t => r \in page
      /\ page # {} => Max(page) \in page /\ \A r \in page : r <= Max(page)
      /\ s \in Seq(Rows) /\ Len(s) = Cardinality(page) /\ Increasing(s)
      /\ ToSet(s) = page
  BY <1>1, PageIs
<1>3. /\ d.client \in Client /\ d.from \in Nat /\ d.to \in Nat /\ d.got \in Seq(Rows) /\ d.behind \in Nat
      /\ d.page \in Nat /\ d.again \in Nat /\ d.since \in SUBSET Rows /\ d.cut \in BOOLEAN /\ d.told \in BOOLEAN
      /\ ~d.cut /\ ~d.told
  BY <1>1 DEF Downloads, Underway
<1>4. e = [d EXCEPT !.got = got, !.behind = IF page = {} THEN d.behind ELSE Max(page),
                    !.page = d.page + 1, !.tries = 0]
  BY <1>1 DEF WithPage, Downloads
<1> HIDE DEF e, page, s, got
<1>5. /\ e.client = d.client /\ e.outcome = "running" /\ e.since = d.since /\ e.from = d.from /\ e.to = d.to
      /\ e.again = d.again /\ e.page = d.page + 1 /\ e.got = got /\ e.cut = d.cut /\ e.told = d.told
      /\ e.behind = IF page = {} THEN d.behind ELSE Max(page)
  BY <1>1, <1>4 DEF Downloads
<1>6. /\ got \in Seq(Rows) /\ Len(got) = Len(d.got) + Cardinality(page)
      /\ Len(d.got) \in Nat /\ Len(s) \in Nat
      /\ \A i \in 1 .. Len(d.got) : got[i] = d.got[i]
      /\ \A i \in 1 .. Len(s) : got[Len(d.got) + i] = s[i]
      /\ DOMAIN got = 1 .. Len(got) /\ DOMAIN d.got = 1 .. Len(d.got) /\ DOMAIN s = 1 .. Len(s)
      /\ \A i \in 1 .. Len(got) : i \in 1 .. Len(d.got) \/ \E j \in 1 .. Len(s) : i = Len(d.got) + j
      /\ \A i \in 1 .. Len(d.got) : i \in 1 .. Len(got)
      /\ \A i \in 1 .. Len(s) : Len(d.got) + i \in 1 .. Len(got)
  <2>0. d.got \in Seq(Rows) /\ s \in Seq(Rows)
    BY <1>2, <1>3
  <2>1. got \in Seq(Rows) /\ Len(got) = Len(d.got) + Len(s) /\ Len(d.got) \in Nat /\ Len(s) \in Nat
    BY <2>0 DEF got
  <2>2. /\ \A i \in 1 .. Len(d.got) : got[i] = d.got[i]
        /\ \A i \in 1 .. Len(s) : got[Len(d.got) + i] = s[i]
    BY <2>0 DEF got
  <2>3. DOMAIN got = 1 .. Len(got) /\ DOMAIN d.got = 1 .. Len(d.got) /\ DOMAIN s = 1 .. Len(s)
    BY <1>2, <1>3, <2>1
  <2>4. \A i \in 1 .. Len(got) : i \in 1 .. Len(d.got) \/ \E j \in 1 .. Len(s) : i = Len(d.got) + j
    <3> SUFFICES ASSUME NEW i \in 1 .. Len(got), i \notin 1 .. Len(d.got)
                 PROVE  \E j \in 1 .. Len(s) : i = Len(d.got) + j
      OBVIOUS
    <3>1. i - Len(d.got) \in 1 .. Len(s) /\ i = Len(d.got) + (i - Len(d.got))
      BY <2>1
    <3> QED
      BY <3>1
  <2>5. /\ \A i \in 1 .. Len(d.got) : i \in 1 .. Len(got)
        /\ \A i \in 1 .. Len(s) : Len(d.got) + i \in 1 .. Len(got)
    BY <2>1
  <2> QED
    BY <1>2, <2>1, <2>2, <2>3, <2>4, <2>5
<1>7. e \in Downloads
  <2>1. e.behind \in Nat
    BY <1>2, <1>3, <1>5
  <2>2. e.page \in Nat /\ e.got \in Seq(Rows)
    BY <1>3, <1>5, <1>6
  <2>3. e = [d EXCEPT !.got = e.got, !.behind = e.behind, !.page = e.page, !.tries = 0]
    BY <1>4, <1>5
  <2>4. ASSUME NEW a \in Seq(Rows), NEW b \in Nat, NEW c \in Nat
        PROVE  [d EXCEPT !.got = a, !.behind = b, !.page = c, !.tries = 0] \in Downloads
    <3>1. d \in [client : Client, from : Nat, to : Nat, got : Seq(Rows), behind : Nat, page : Nat, tries : Nat,
                 again : Nat, outcome : Outcomes, since : SUBSET Rows, cut : BOOLEAN, told : BOOLEAN]
      BY <1>1 DEF Downloads
    <3>2. [d EXCEPT !.got = a, !.behind = b, !.page = c, !.tries = 0]
            \in [client : Client, from : Nat, to : Nat, got : Seq(Rows), behind : Nat, page : Nat, tries : Nat,
                 again : Nat, outcome : Outcomes, since : SUBSET Rows, cut : BOOLEAN, told : BOOLEAN]
      BY <3>1
    <3> QED
      BY <3>2 DEF Downloads
  <2>5. [d EXCEPT !.got = e.got, !.behind = e.behind, !.page = e.page, !.tries = 0] \in Downloads
    BY <2>1, <2>2, <2>4
  <2> QED
    BY <2>3, <2>5
<1>8. ToSet(got) = ToSet(d.got) \cup page
  <2>1. ToSet(got) = {got[i] : i \in 1 .. Len(got)} /\ ToSet(d.got) = {d.got[i] : i \in 1 .. Len(d.got)}
        /\ page = {s[i] : i \in 1 .. Len(s)}
    BY <1>2, <1>6 DEF ToSet
  <2>2. ASSUME NEW x \in ToSet(got) PROVE x \in ToSet(d.got) \cup page
    <3>1. PICK i \in 1 .. Len(got) : x = got[i]
      BY <2>1
    <3>2. CASE i \in 1 .. Len(d.got)
      BY <1>6, <2>1, <3>1, <3>2
    <3>3. CASE \E j \in 1 .. Len(s) : i = Len(d.got) + j
      BY <1>6, <2>1, <3>1, <3>3
    <3> QED
      BY <1>6, <3>2, <3>3
  <2>3. ASSUME NEW x \in ToSet(d.got) \cup page PROVE x \in ToSet(got)
    <3>1. CASE \E i \in 1 .. Len(d.got) : x = d.got[i]
      BY <1>6, <2>1, <3>1
    <3>2. CASE \E i \in 1 .. Len(s) : x = s[i]
      <4>1. PICK i \in 1 .. Len(s) : x = s[i]
        BY <3>2
      <4>2. Len(d.got) + i \in 1 .. Len(got) /\ x = got[Len(d.got) + i]
        BY <1>6, <4>1
      <4> QED
        BY <2>1, <4>2
    <3> QED
      BY <2>1, <3>1, <3>2
  <2> QED
    BY <2>2, <2>3
<1>9. /\ \A i \in 1 .. Len(d.got) : d.got[i] \in Nat /\ d.got[i] <= d.behind
      /\ \A i \in 1 .. Len(s) : s[i] \in page /\ s[i] \in Nat /\ s[i] > d.behind /\ s[i] <= e.behind
      /\ d.behind <= e.behind /\ e.behind \in Nat
  <2>1. \A i \in 1 .. Len(d.got) : d.got[i] \in Rows /\ d.got[i] <= d.behind
    BY <1>1, <1>3, <1>6 DEF Follows
  <2>2. \A i \in 1 .. Len(s) : s[i] \in page
    BY <1>2, <1>6 DEF ToSet
  <2>3. e.behind \in Nat /\ d.behind <= e.behind
    BY <1>2, <1>3, <1>5
  <2>4. \A r \in Rows : r \in Nat
    BY FetchAssumption
  <2>5. \A r \in page : r \in Nat /\ r > d.behind /\ r <= e.behind
    <3>1. \A r \in page : r \in Nat /\ r > d.behind
      BY <1>2
    <3>2. page # {} => e.behind = Max(page) /\ \A r \in page : r <= Max(page)
      BY <1>2, <1>5
    <3> QED
      BY <3>1, <3>2
  <2>6. \A i \in 1 .. Len(d.got) : d.got[i] \in Nat /\ d.got[i] <= d.behind
    BY <2>1, <2>4
  <2>7. \A i \in 1 .. Len(s) : s[i] \in page /\ s[i] \in Nat /\ s[i] > d.behind /\ s[i] <= e.behind
    BY <2>2, <2>5
  <2> QED
    BY <2>3, <2>6, <2>7
<1>10. Increasing(got)
  <2> SUFFICES ASSUME NEW i \in 1 .. Len(got), NEW j \in 1 .. Len(got), i < j PROVE got[i] < got[j]
    BY <1>6 DEF Increasing
  <2>1. CASE i \in 1 .. Len(d.got) /\ j \in 1 .. Len(d.got)
    BY <1>1, <1>6, <2>1 DEF Follows, Increasing
  <2>2. CASE i \in 1 .. Len(d.got) /\ \E k \in 1 .. Len(s) : j = Len(d.got) + k
    <3>1. PICK k \in 1 .. Len(s) : j = Len(d.got) + k
      BY <2>2
    <3>2. got[i] = d.got[i] /\ got[j] = s[k]
      BY <1>6, <2>2, <3>1
    <3>3. d.got[i] \in Nat /\ d.got[i] <= d.behind /\ s[k] \in Nat /\ s[k] > d.behind
      BY <1>9, <2>2
    <3>4. d.behind \in Nat
      BY <1>3
    <3>5. d.got[i] < s[k]
      BY <3>3, <3>4
    <3> QED
      BY <3>2, <3>5
  <2>3. CASE \E k, l \in 1 .. Len(s) : i = Len(d.got) + k /\ j = Len(d.got) + l
    <3>1. PICK k \in 1 .. Len(s), l \in 1 .. Len(s) : i = Len(d.got) + k /\ j = Len(d.got) + l
      BY <2>3
    <3>2. k < l
      BY <1>6, <3>1
    <3>3. s[k] < s[l]
      BY <1>2, <1>6, <3>2 DEF Increasing
    <3> QED
      BY <1>6, <3>1, <3>3
  <2>4. CASE j \in 1 .. Len(d.got) /\ \E k \in 1 .. Len(s) : i = Len(d.got) + k
    BY <1>6, <2>4
  <2> QED
    BY <1>6, <2>1, <2>2, <2>3, <2>4
<1>11. Follows(e, listing)
  <2>1. Asked(e, listing) = Asked(d, listing)
    BY <1>5 DEF Asked
  <2>2. ToSet(got) \subseteq Asked(d, listing)
    BY <1>1, <1>2, <1>8 DEF Follows
  <2>3. \A i \in 1 .. Len(got) : got[i] <= e.behind
    <3> SUFFICES ASSUME NEW i \in 1 .. Len(got) PROVE got[i] <= e.behind
      OBVIOUS
    <3>1. CASE i \in 1 .. Len(d.got)
      <4>1. got[i] = d.got[i] /\ d.got[i] \in Nat /\ d.got[i] <= d.behind
        BY <1>6, <1>9, <3>1
      <4> QED
        BY <1>3, <1>9, <4>1
    <3>2. CASE \E j \in 1 .. Len(s) : i = Len(d.got) + j
      BY <1>6, <1>9, <3>2
    <3> QED
      BY <1>6, <3>1, <3>2
  <2>4. (got = <<>> => e.behind = 0) /\ (got # <<>> => e.behind \in ToSet(got))
    <3>1. CASE page = {}
      <4>1. Len(s) = 0 /\ s = <<>> /\ got = d.got
        BY <1>2, <1>3, <3>1, FS_EmptySet DEF got
      <4> QED
        BY <1>1, <1>5, <3>1, <4>1 DEF Follows
    <3>2. CASE page # {}
      <4>1. e.behind \in ToSet(got)
        BY <1>2, <1>5, <1>8, <3>2
      <4>2. got # <<>>
        BY <4>1 DEF ToSet
      <4> QED
        BY <4>1, <4>2
    <3> QED
      BY <3>1, <3>2
  <2>5. d.since \subseteq Asked(d, listing)
    BY <1>1 DEF Follows
  <2>6. ASSUME NEW r \in d.since, r <= e.behind PROVE r \in ToSet(got)
    <3>1. CASE r <= d.behind
      BY <1>1, <1>8, <3>1 DEF Follows
    <3>2. CASE ~(r <= d.behind)
      <4>1. r \in Rest(d)
        <5>1. r \in listing /\ d.from <= r /\ r <= d.to /\ r \in Nat
          BY <1>3, <2>5, FetchAssumption DEF Asked
        <5> QED
          BY <1>3, <3>2, <5>1 DEF Rest
      <4>2. page # {} /\ r <= Max(page) /\ Max(page) \in page
        BY <1>2, <1>5, <2>6, <4>1
      <4> QED
        BY <1>2, <1>8, <4>1, <4>2
    <3> QED
      BY <3>1, <3>2
  <2> QED
    BY <1>5, <1>6, <1>10, <2>1, <2>2, <2>3, <2>4, <2>5, <2>6 DEF Follows
<1>12. ASSUME page = Rest(d), NEW r \in e.since PROVE r \in ToSet(e.got)
  <2>1. r \in Asked(d, listing) /\ r \in Nat
    BY <1>1, <1>3, <1>5, FetchAssumption DEF Follows
  <2>2. CASE r <= d.behind
    BY <1>1, <1>5, <1>8, <2>2 DEF Follows
  <2>3. CASE ~(r <= d.behind)
    <3>1. r \in Rest(d)
      BY <1>3, <2>1, <2>3 DEF Rest, Asked
    <3> QED
      BY <1>5, <1>8, <1>12, <3>1
  <2> QED
    BY <2>2, <2>3
<1>13. ASSUME NEW r \in Asked(d, listing), d.behind < r, r <= e.behind PROVE r \in ToSet(e.got)
  <2>1. r \in Rest(d)
    <3>1. r \in listing /\ d.from <= r /\ r <= d.to /\ r \in Nat
      BY FetchAssumption DEF Asked
    <3> QED
      BY <1>3, <1>13, <3>1 DEF Rest
  <2>2. page # {} /\ r <= Max(page) /\ Max(page) \in page
    BY <1>2, <1>5, <1>13, <2>1
  <2> QED
    BY <1>2, <1>5, <1>8, <2>1, <2>2
<1> QED
  BY <1>3, <1>5, <1>6, <1>7, <1>8, <1>11, <1>12, <1>13 DEF e, page, got

\* Two downloads that have got the same of the same listing.
Alike(g, e) == /\ g.client = e.client /\ g.from = e.from /\ g.to = e.to /\ g.again = e.again
               /\ g.got = e.got /\ g.behind = e.behind /\ g.since = e.since

LEMMA AlikeFollows ==
  ASSUME NEW list, NEW g, NEW e, Alike(g, e), Follows(e, list)
  PROVE  Follows(g, list)
BY DEF Alike, Follows, Asked

\* A step that ends a download.
LEMMA WithOutcome ==
  ASSUME NEW e \in Downloads, NEW o \in Outcomes
  PROVE  LET g == [e EXCEPT !.outcome = o]
         IN  /\ g \in Downloads /\ Alike(g, e) /\ g.outcome = o
             /\ g.page = e.page /\ g.cut = e.cut /\ g.told = e.told
<1> DEFINE g == [e EXCEPT !.outcome = o]
<1>1. /\ DOMAIN e = DOMAIN g
      /\ e \in [client : Client, from : Nat, to : Nat, got : Seq(Rows), behind : Nat, page : Nat, tries : Nat,
                again : Nat, outcome : Outcomes, since : SUBSET Rows, cut : BOOLEAN, told : BOOLEAN]
  BY DEF Downloads
<1>2. g \in [client : Client, from : Nat, to : Nat, got : Seq(Rows), behind : Nat, page : Nat, tries : Nat,
             again : Nat, outcome : Outcomes, since : SUBSET Rows, cut : BOOLEAN, told : BOOLEAN]
  BY <1>1
<1>3. /\ g.client = e.client /\ g.from = e.from /\ g.to = e.to /\ g.again = e.again
      /\ g.got = e.got /\ g.behind = e.behind /\ g.since = e.since
      /\ g.outcome = o /\ g.page = e.page /\ g.cut = e.cut /\ g.told = e.told
  BY <1>1
<1> QED
  BY <1>2, <1>3 DEF Downloads, Alike

\* One that ends it with a word of warning.
LEMMA WithTold ==
  ASSUME NEW e \in Downloads
  PROVE  LET g == [e EXCEPT !.outcome = "rows", !.told = TRUE]
         IN  /\ g \in Downloads /\ Alike(g, e) /\ g.outcome = "rows" /\ g.told
             /\ g.cut = e.cut
<1> DEFINE g == [e EXCEPT !.outcome = "rows", !.told = TRUE]
<1>1. /\ DOMAIN e = DOMAIN g
      /\ e \in [client : Client, from : Nat, to : Nat, got : Seq(Rows), behind : Nat, page : Nat, tries : Nat,
                again : Nat, outcome : Outcomes, since : SUBSET Rows, cut : BOOLEAN, told : BOOLEAN]
  BY DEF Downloads
<1>2. g \in [client : Client, from : Nat, to : Nat, got : Seq(Rows), behind : Nat, page : Nat, tries : Nat,
             again : Nat, outcome : Outcomes, since : SUBSET Rows, cut : BOOLEAN, told : BOOLEAN]
  BY <1>1 DEF Outcomes
<1>3. /\ g.client = e.client /\ g.from = e.from /\ g.to = e.to /\ g.again = e.again
      /\ g.got = e.got /\ g.behind = e.behind /\ g.since = e.since
      /\ g.outcome = "rows" /\ g.told /\ g.cut = e.cut
  BY <1>1
<1> QED
  BY <1>2, <1>3 DEF Downloads, Alike

\* One that notes an answer of "keeps".
LEMMA WithCut ==
  ASSUME NEW e \in Downloads
  PROVE  LET g == [e EXCEPT !.cut = TRUE]
         IN  /\ g \in Downloads /\ Alike(g, e) /\ g.outcome = e.outcome
             /\ g.told = e.told /\ g.cut
<1> DEFINE g == [e EXCEPT !.cut = TRUE]
<1>1. /\ DOMAIN e = DOMAIN g
      /\ e \in [client : Client, from : Nat, to : Nat, got : Seq(Rows), behind : Nat, page : Nat, tries : Nat,
                again : Nat, outcome : Outcomes, since : SUBSET Rows, cut : BOOLEAN, told : BOOLEAN]
  BY DEF Downloads
<1>2. g \in [client : Client, from : Nat, to : Nat, got : Seq(Rows), behind : Nat, page : Nat, tries : Nat,
             again : Nat, outcome : Outcomes, since : SUBSET Rows, cut : BOOLEAN, told : BOOLEAN]
  BY <1>1
<1>3. /\ g.client = e.client /\ g.from = e.from /\ g.to = e.to /\ g.again = e.again
      /\ g.got = e.got /\ g.behind = e.behind /\ g.since = e.since
      /\ g.outcome = e.outcome /\ g.told = e.told /\ g.cut
  BY <1>1
<1> QED
  BY <1>2, <1>3 DEF Downloads, Alike

\* One that tries again.
LEMMA WithTry ==
  ASSUME NEW e \in Downloads
  PROVE  LET g == [e EXCEPT !.tries = @ + 1]
         IN  /\ g \in Downloads /\ Alike(g, e) /\ g.outcome = e.outcome
             /\ g.page = e.page /\ g.cut = e.cut /\ g.told = e.told
<1> DEFINE g == [e EXCEPT !.tries = @ + 1]
<1>1. /\ DOMAIN e = DOMAIN g
      /\ e \in [client : Client, from : Nat, to : Nat, got : Seq(Rows), behind : Nat, page : Nat, tries : Nat,
                again : Nat, outcome : Outcomes, since : SUBSET Rows, cut : BOOLEAN, told : BOOLEAN]
  BY DEF Downloads
<1>2. g \in [client : Client, from : Nat, to : Nat, got : Seq(Rows), behind : Nat, page : Nat, tries : Nat,
             again : Nat, outcome : Outcomes, since : SUBSET Rows, cut : BOOLEAN, told : BOOLEAN]
  BY <1>1
<1>3. /\ g.client = e.client /\ g.from = e.from /\ g.to = e.to /\ g.again = e.again
      /\ g.got = e.got /\ g.behind = e.behind /\ g.since = e.since
      /\ g.outcome = e.outcome /\ g.page = e.page /\ g.cut = e.cut /\ g.told = e.told
  BY <1>1
<1> QED
  BY <1>2, <1>3 DEF Downloads, Alike

\* What is handed over of the rows of a last page.
LEMMA ReturnedIsSound ==
  ASSUME NEW list, NEW e \in Downloads, Follows(e, list), ~e.told,
         \/ e.since \subseteq ToSet(e.got)
         \/ e.client.pages = 1 /\ Len(e.got) = e.client.limit /\ e.client.full # "raised"
         \/ e.cut /\ e.client = fetch_news_range
         \/ e.got = <<>> /\ e.client.empty = "nothing"
  PROVE  Sound(Returned(e), list) /\ Alike(Returned(e), e) /\ Returned(e).outcome # "running"
         /\ Returned(e).cut = e.cut
<1> DEFINE o == IF e.got = <<>> THEN e.client.empty ELSE "rows"
           g == Returned(e)
<1>1. o \in Outcomes /\ o # "running"
  BY ClientsAre DEF WellMade, Outcomes, Downloads
<1>2. g = [e EXCEPT !.outcome = o]
  BY DEF Returned
<1> HIDE DEF g, o
<1>3. g \in Downloads /\ Alike(g, e) /\ g.outcome = o /\ g.cut = e.cut /\ g.told = e.told
  BY <1>1, <1>2, WithOutcome
<1>4. Follows(g, list)
  BY <1>3, AlikeFollows
<1>5. o = "rows" => e.got # <<>> \/ e.client.empty = "rows"
  BY DEF o
<1>6. o = "nothing" => e.got = <<>>
  BY DEF o
<1>7. Ended(g)
  BY <1>3, <1>5, <1>6 DEF Ended, Alike
<1> QED
  BY <1>1, <1>3, <1>4, <1>7 DEF Sound, Underway, g

\* An answer keeps a download sound.
LEMMA AnsweredIsSound ==
  ASSUME listing \subseteq Rows, NEW d, Sound(d, listing), d.outcome = "running"
  PROVE  LET g == Answered(d)
         IN  /\ Sound(g, listing)
             /\ g.client = d.client /\ g.from = d.from /\ g.to = d.to
             /\ g.got = WithPage(d).got /\ g.behind = WithPage(d).behind /\ g.again = d.again
<1> DEFINE e == WithPage(d)
           page == PageOf(d)
           c == d.client
           g == Answered(d)
<1>1. d \in Downloads /\ Underway(d) /\ c \in Client /\ d.page \in Nat
  BY DEF Sound, Downloads
<1>2. /\ e \in Downloads /\ Follows(e, listing)
      /\ e.client = c /\ e.outcome = "running" /\ e.from = d.from /\ e.to = d.to /\ e.again = d.again
      /\ e.page = d.page + 1 /\ Len(e.got) = Len(d.got) + Cardinality(page)
      /\ ~e.cut /\ ~e.told
      /\ page = Rest(d) => e.since \subseteq ToSet(e.got)
  BY OneMorePage
<1>3. /\ Cardinality(page) \in Nat /\ Cardinality(page) <= c.limit
      /\ page # Rest(d) => Cardinality(page) = c.limit
  BY <1>1, PageIs
<1>4. /\ c.limit \in Nat \ {0} /\ c.pages \in Nat \ {0}
      /\ c.full \in {"unseen", "raised", "told"}
      /\ c.pages > 1 /\ c.full = "unseen" => c.pages = Unpaged
      /\ c.full = "told" => c.pages = MaxPages /\ c.limit = PageSize
  BY <1>1, ClientsAre DEF WellMade
<1>5. Len(d.got) = d.page * c.limit /\ d.page < c.pages
  BY <1>1 DEF Underway
<1>6. (d.page + 1) * c.limit = d.page * c.limit + c.limit /\ d.page * c.limit \in Nat
      /\ d.page + 1 <= (d.page + 1) * c.limit
  BY <1>1, <1>4, NextMultiple
<1> HIDE DEF e, page, c, g
<1>7. CASE page # Rest(d) /\ e.page < c.pages
  <2>1. g = e
    BY <1>7 DEF g, Answered, e, page, c
  <2>2. Len(e.got) = e.page * c.limit
    BY <1>2, <1>3, <1>5, <1>6, <1>7
  <2>3. Underway(e) /\ Ended(e)
    BY <1>2, <1>7, <2>2 DEF Underway, Ended
  <2> QED
    BY <1>2, <2>1, <2>3 DEF Sound, g, e, c
<1>8. CASE ~(page # Rest(d) /\ e.page < c.pages)
  <2>1. CASE \/ c.pages > 1 /\ page # Rest(d) /\ c.full = "raised"
             \/ c.pages = 1 /\ Cardinality(page) = c.limit /\ c.full = "raised"
    <3>1. g = [e EXCEPT !.outcome = "raised"]
      BY <1>4, <1>8, <2>1 DEF g, Answered, e, page, c
    <3>2. g \in Downloads /\ Alike(g, e) /\ g.outcome = "raised" /\ g.told = e.told
      BY <1>2, <3>1, WithOutcome DEF Outcomes
    <3>3. Follows(g, listing)
      BY <1>2, <3>2, AlikeFollows
    <3>4. Underway(g) /\ Ended(g)
      BY <1>2, <3>2 DEF Underway, Ended
    <3> QED
      BY <1>2, <3>2, <3>3, <3>4 DEF Sound, Alike, g, e, c
  <2>2. CASE c.pages > 1 /\ page # Rest(d) /\ c.full = "told"
    <3>1. g = [e EXCEPT !.outcome = "rows", !.told = TRUE]
      BY <1>8, <2>2 DEF g, Answered, e, page, c
    <3>2. g \in Downloads /\ Alike(g, e) /\ g.outcome = "rows" /\ g.told
      BY <1>2, <3>1, WithTold
    <3>3. Follows(g, listing)
      BY <1>2, <3>2, AlikeFollows
    <3>4. e.page = MaxPages /\ Len(e.got) = e.page * c.limit /\ c.limit = PageSize
      <4>1. c.pages = MaxPages /\ c.limit = PageSize /\ MaxPages \in Nat
        BY <1>4, <2>2, FetchAssumption
      <4>2. e.page = d.page + 1 /\ ~(e.page < c.pages)
        BY <1>2, <1>8, <2>2
      <4>3. e.page = MaxPages
        BY <1>1, <1>5, <4>1, <4>2
      <4>4. Len(e.got) = d.page * c.limit + c.limit
        BY <1>2, <1>3, <1>5, <2>2
      <4> QED
        BY <1>6, <4>1, <4>2, <4>3, <4>4
    <3>5. Len(g.got) = MaxPages * PageSize /\ g.client.full = "told"
      BY <1>2, <2>2, <3>2, <3>4 DEF Alike
    <3>6. Underway(g) /\ Ended(g)
      BY <3>2, <3>5 DEF Underway, Ended
    <3> QED
      BY <1>2, <3>2, <3>3, <3>6 DEF Sound, Alike, g, e, c
  <2>3. CASE /\ ~(c.pages > 1 /\ page # Rest(d) /\ c.full = "raised")
             /\ ~(c.pages > 1 /\ page # Rest(d) /\ c.full = "told")
             /\ ~(c.pages = 1 /\ Cardinality(page) = c.limit /\ c.full = "raised")
    <3>1. g = Returned(e)
      BY <1>8, <2>3 DEF g, Answered, e, page, c
    <3>2. page # Rest(d) => c.pages = 1 /\ Len(e.got) = c.limit /\ c.full # "raised"
      <4> SUFFICES ASSUME page # Rest(d) PROVE c.pages = 1 /\ Len(e.got) = c.limit /\ c.full # "raised"
        OBVIOUS
      <4>1. Cardinality(page) = c.limit /\ Len(e.got) = e.page * c.limit
        BY <1>2, <1>3, <1>5, <1>6
      <4>2. ~(c.pages > 1)
        <5> SUFFICES ASSUME c.pages > 1 PROVE FALSE
          OBVIOUS
        <5>1. c.pages = Unpaged /\ e.page >= c.pages
          BY <1>1, <1>2, <1>4, <1>8, <2>3
        <5>2. Len(e.got) <= Cardinality(Rows) /\ Cardinality(Rows) \in Nat
          BY <1>2, NoMoreThanListed, FetchAssumption, FS_CardinalityType DEF Follows, Downloads
        <5>3. Len(e.got) >= e.page /\ e.page \in Nat /\ Len(e.got) \in Nat
          <6>1. e.page = d.page + 1 /\ Len(e.got) = e.page * c.limit
            BY <1>2, <4>1
          <6>2. e.page \in Nat /\ e.page <= e.page * c.limit /\ e.page * c.limit \in Nat
            <7>1. e.page \in Nat /\ c.limit \in Nat \ {0}
              BY <1>1, <1>4, <6>1
            <7> QED
              BY <7>1, NextMultiple
          <6> QED
            BY <6>1, <6>2
        <5> QED
          BY <5>1, <5>2, <5>3 DEF Unpaged
      <4>3. d.page = 0 /\ c.pages = 1
        BY <1>1, <1>4, <1>5, <4>2
      <4>4. Len(e.got) = c.limit
        BY <1>2, <1>4, <1>5, <1>6, <4>1, <4>3
      <4> QED
        BY <2>3, <4>1, <4>3, <4>4
    <3>3. Sound(g, listing) /\ Alike(g, e)
      BY <1>2, <3>1, <3>2, ReturnedIsSound
    <3> QED
      BY <1>2, <3>3 DEF Alike, g, e, c
  <2> QED
    BY <2>1, <2>2, <2>3
<1> QED
  BY <1>7, <1>8

\* So does one that failed.
LEMMA FailedIsSound ==
  ASSUME listing \subseteq Rows, NEW d, Sound(d, listing), d.outcome = "running", NEW a
  PROVE  LET g == Failed(d, a)
         IN  /\ Sound(g, listing)
             /\ g.client = d.client /\ g.from = d.from /\ g.to = d.to
             /\ d.client.again <= d.again => g.got = d.got /\ g.behind = d.behind /\ g.again = d.again
<1> DEFINE c == d.client
           g == Failed(d, a)
<1>1. d \in Downloads /\ Follows(d, listing) /\ Underway(d) /\ c \in Client /\ d.page \in Nat
      /\ d.again \in Nat /\ d.from \in Nat /\ d.to \in Nat /\ d.got \in Seq(Rows)
  BY DEF Sound, Downloads
<1>2. /\ Len(d.got) = d.page * c.limit /\ d.page < c.pages /\ ~d.cut /\ ~d.told
  BY <1>1 DEF Underway
<1>3. /\ c.limit \in Nat \ {0} /\ c.pages \in Nat \ {0} /\ c.again \in Nat
      /\ c.fails \in {"raised", "nothing"}
      /\ c.keeps # {} => c = fetch_news_range \/ (c.pages = 1 /\ c.empty = "nothing")
  BY <1>1, ClientsAre DEF WellMade
<1> HIDE DEF c, g
<1>4. CASE a \in c.keeps
  <2> DEFINE e == [d EXCEPT !.cut = TRUE]
  <2>1. g = Returned(e)
    BY <1>4 DEF g, Failed, c
  <2>2. e \in Downloads /\ Alike(e, d) /\ e.told = d.told /\ e.cut
    BY <1>1, WithCut
  <2> HIDE DEF e
  <2>3. Follows(e, listing)
    BY <1>1, <2>2, AlikeFollows
  <2>4. e.client = c /\ e.got = d.got
    BY <2>2 DEF Alike, c
  <2>5. c = fetch_news_range \/ (e.got = <<>> /\ c.empty = "nothing")
    <3>1. CASE c.pages = 1 /\ c.empty = "nothing"
      <4>1. d.page = 0 /\ d.page * c.limit = 0
        BY <1>1, <1>2, <1>3, <3>1
      <4> QED
        BY <1>1, <1>2, <2>4, <3>1, <4>1
    <3> QED
      BY <1>3, <1>4, <3>1
  <2>6. Sound(g, listing) /\ Alike(g, e)
    BY <1>2, <2>1, <2>2, <2>3, <2>4, <2>5, ReturnedIsSound
  <2> QED
    BY <2>2, <2>6 DEF Alike, g
<1>5. CASE a \notin c.keeps /\ a \in c.retried /\ d.tries + 1 < MaxRetries
  <2>1. g = [d EXCEPT !.tries = @ + 1]
    BY <1>5 DEF g, Failed, c
  <2>2. /\ g \in Downloads /\ Alike(g, d) /\ g.outcome = d.outcome
        /\ g.page = d.page /\ g.told = d.told /\ g.cut = d.cut
    BY <1>1, <2>1, WithTry
  <2>3. Follows(g, listing)
    BY <1>1, <2>2, AlikeFollows
  <2>4. Underway(g) /\ Ended(g)
    BY <1>2, <2>2 DEF Underway, Ended, Alike, c
  <2> QED
    BY <2>2, <2>3, <2>4 DEF Sound, Alike, g
<1>6. CASE a \notin c.keeps /\ ~(a \in c.retried /\ d.tries + 1 < MaxRetries) /\ d.again < c.again
  <2>1. g = Fresh(c, d.from, d.to, d.again + 1)
    BY <1>6 DEF g, Failed, Restart, c
  <2>2. Sound(g, listing)
    BY <1>1, <2>1, FreshIsSound
  <2>3. g.client = c /\ g.from = d.from /\ g.to = d.to
    BY <2>1 DEF Fresh
  <2> QED
    BY <1>1, <1>3, <1>6, <2>2, <2>3 DEF g, c
<1>7. CASE a \notin c.keeps /\ ~(a \in c.retried /\ d.tries + 1 < MaxRetries) /\ ~(d.again < c.again)
  <2>1. g = [d EXCEPT !.outcome = c.fails]
    BY <1>7 DEF g, Failed, c
  <2>2. g \in Downloads /\ Alike(g, d) /\ g.outcome = c.fails /\ g.told = d.told
    <3>1. c.fails \in Outcomes
      BY <1>3 DEF Outcomes
    <3> QED
      BY <1>1, <2>1, <3>1, WithOutcome
  <2>3. Follows(g, listing)
    BY <1>1, <2>2, AlikeFollows
  <2>4. Underway(g) /\ Ended(g)
    BY <1>2, <1>3, <2>2 DEF Underway, Ended, Alike, c
  <2> QED
    BY <2>2, <2>3, <2>4 DEF Sound, Alike, g
<1> QED
  BY <1>4, <1>5, <1>6, <1>7 DEF c, g

\* A longer listing keeps it too.
LEMMA ListedIsSound ==
  ASSUME NEW list, NEW more, list \subseteq more, NEW d, Sound(d, list)
  PROVE  Sound(d, more)
<1>1. Asked(d, list) \subseteq Asked(d, more)
  BY DEF Asked
<1>2. Follows(d, list)
  BY DEF Sound
<1>3. Follows(d, more)
  BY <1>1, <1>2 DEF Follows
<1> QED
  BY <1>3 DEF Sound

FetchInv == listing \subseteq Rows /\ (call # Idle => Sound(call, listing))

LEMMA PageKeeps == ASSUME FetchInv, Page PROVE FetchInv'
<1>1. call # Idle /\ call.outcome = "running" /\ call' = Answered(call) /\ listing' = listing
  BY DEF Page, Running
<1> QED
  BY <1>1, AnsweredIsSound DEF FetchInv

LEMMA NoPageKeeps == ASSUME FetchInv, NEW a, NoPage(a) PROVE FetchInv'
<1>1. call # Idle /\ call.outcome = "running" /\ call' = Failed(call, a) /\ listing' = listing
  BY DEF NoPage, Running
<1> QED
  BY <1>1, FailedIsSound DEF FetchInv

LEMMA ListedKeeps == ASSUME FetchInv, NEW r \in Rows, Listed(r) PROVE FetchInv'
<1>1. call' = call /\ listing' = listing \cup {r}
  BY DEF Listed
<1>2. listing \subseteq listing \cup {r}
  OBVIOUS
<1> QED
  BY <1>1, <1>2, ListedIsSound DEF FetchInv

LEMMA BeginKeeps ==
  ASSUME FetchInv, NEW c \in Client, NEW from \in Nat, NEW to \in Nat, Begin(c, from, to)
  PROVE  FetchInv'
<1>1. listing' = listing /\ call' = Fresh(c, from, to, 1)
  BY DEF Begin
<1>2. Sound(Fresh(c, from, to, 1), listing)
  BY FreshIsSound DEF FetchInv
<1> QED
  BY <1>1, <1>2 DEF FetchInv

LEMMA SoundMeans == FetchInv => DownloadsAreWhole
<1> SUFFICES ASSUME FetchInv, call # Idle
             PROVE  /\ call.outcome = "rows" =>
                          /\ \A i, j \in DOMAIN call.got : i < j => call.got[i] < call.got[j]
                          /\ ToSet(call.got) \subseteq {r \in listing : call.from <= r /\ r <= call.to}
                          /\ call.since \subseteq ToSet(call.got) \/ Hidden(call)
                    /\ call.outcome = "nothing" => call.client.fails = "nothing" \/ call.got = <<>>
                    /\ call.told => call.outcome = "rows" /\ Len(call.got) = MaxPages * PageSize
  BY DEF DownloadsAreWhole
<1> QED
  BY DEF FetchInv, Sound, Follows, Increasing, Asked, Ended, Hidden

(***************************************************************************)
(* A download hands over the listing of its window, each row once and in   *)
(* order, whatever failed on the way, but where its client is built to     *)
(* hand over less: for any number of rows, pages and retries.              *)
(***************************************************************************)
THEOREM DownloadsHandOverTheListing == FetchSpec => []DownloadsAreWhole
<1>1. FetchInit => FetchInv
  BY DEF FetchInit, FetchInv
<1>2. FetchInv /\ [FetchNext]_fetchVars => FetchInv'
  <2> SUFFICES ASSUME FetchInv, [FetchNext]_fetchVars PROVE FetchInv'
    OBVIOUS
  <2>1. CASE UNCHANGED fetchVars
    BY <2>1 DEF FetchInv, fetchVars
  <2>2. ASSUME NEW c \in Client, NEW from \in Rows, NEW to \in Rows, Begin(c, from, to) PROVE FetchInv'
    <3>1. from \in Nat /\ to \in Nat
      BY FetchAssumption
    <3> QED
      BY <2>2, <3>1, BeginKeeps
  <2> QED
    BY <2>1, <2>2, PageKeeps, NoPageKeeps, ListedKeeps DEF FetchNext
<1> QED
  BY <1>1, <1>2, SoundMeans, PTL DEF FetchSpec

-----------------------------------------------------------------------------
(* The parts that rest.                                                    *)

FeedRests == heard = 0 /\ queue = <<>> /\ batch = <<>> /\ stored = {} /\ shed = {} /\ pushed = {} /\ feeds = 1
FileRests == rows = << >> /\ done = << >>

LEMMA RestingFeed == FeedRests => StreamKeepsNewest
<1> SUFFICES ASSUME FeedRests PROVE StreamKeepsNewest
  OBVIOUS
<1>1. ToSet(queue) = {} /\ ToSet(batch) = {} /\ DOMAIN queue = {} /\ 1 .. heard = {}
  BY DEF FeedRests, ToSet
<1> QED
  BY <1>1 DEF FeedRests, StreamKeepsNewest

LEMMA RestingFile == FileRests => RowsOutliveOtherCalls
<1> SUFFICES ASSUME FileRests PROVE RowsOutliveOtherCalls
  OBVIOUS
<1>1. DOMAIN rows = {} /\ DOMAIN done = {}
  BY DEF FileRests
<1> QED
  BY <1>1 DEF RowsOutliveOtherCalls

-----------------------------------------------------------------------------
(* The poller.                                                             *)

\* Behind the cursor all is stored or missed; between it and the end of the
\* page in flight all is on the page or missed.
Asking ==
    /\ cursor # Idle
    /\ call.client = _fetch_page /\ call.from = cursor /\ call.to = MaxSlot /\ call.again = 1
    /\ \A r \in listing : cursor <= r /\ r < call.behind => r \in ToSet(call.got) \/ r \in missed

PollInv ==
    /\ FetchInv
    /\ clock \in Nat /\ (cursor # Idle => cursor \in Nat)
    /\ PollPassesWhatItStored
    /\ call # Idle => Asking
    /\ FeedRests /\ FileRests /\ shelf = Idle /\ answer = Idle

LEMMA Slots == MaxSlot \in Nat \ {0} /\ \A r \in Rows : r \in Nat \ {0} /\ r <= MaxSlot
<1>1. Rows \in SUBSET Int /\ IsFiniteSet(Rows) /\ Rows # {} /\ \A r \in Rows : r \in Nat \ {0}
  BY FetchAssumption
<1>2. Max(Rows) \in Rows /\ \A r \in Rows : r <= Max(Rows)
  BY <1>1, FiniteMax
<1> QED
  BY <1>1, <1>2 DEF MaxSlot

LEMMA PageClient ==
  _fetch_page \in Client /\ _fetch_page.pages = 1 /\ _fetch_page.again = 1
BY DEF _fetch_page, _fetch_minute_bars, finnhub_get, Client

\* The greater of a number and the rows of a page.
LEMMA MaxWith ==
  ASSUME NEW n \in Nat, NEW T \in SUBSET Rows
  PROVE  /\ Max({n} \cup T) \in {n} \cup T /\ Max({n} \cup T) \in Nat
         /\ \A x \in {n} \cup T : x <= Max({n} \cup T)
<1>1. Rows \in SUBSET Nat /\ IsFiniteSet(Rows)
  BY FetchAssumption
<1>2. IsFiniteSet(T) /\ T \in SUBSET Nat
  BY <1>1, FS_Subset
<1>3. IsFiniteSet({n} \cup T)
  BY <1>2, FS_AddElement
<1> DEFINE S == {n} \cup T
<1>4. S \in SUBSET Int /\ S # {} /\ IsFiniteSet(S) /\ \A x \in S : x \in Nat
  BY <1>2, <1>3
<1> HIDE DEF S
<1>5. Max(S) \in S /\ \A x \in S : x <= Max(S)
  BY <1>4, FiniteMax
<1> QED
  BY <1>4, <1>5 DEF S

LEMMA PublishKeeps ==
  ASSUME PollInv, NEW r \in Rows, Publish(r), UNCHANGED <<newsVars, metaVars>>
  PROVE  PollInv'
<1>1. /\ r \notin listing /\ listing' = listing \cup {r} /\ call' = call
      /\ missed' = IF cursor # Idle => r >= Frontier THEN missed ELSE missed \cup {r}
      /\ clock' = clock /\ cursor' = cursor /\ scored' = scored /\ UNCHANGED streamVars
  BY DEF Publish, Listed
<1>2. FetchInv'
  <2>1. Listed(r)
    BY DEF Publish
  <2> QED
    BY <2>1, ListedKeeps DEF PollInv
<1>3. FeedRests' /\ FileRests' /\ shelf' = Idle /\ answer' = Idle
  BY <1>1 DEF PollInv, FeedRests, FileRests, streamVars, newsVars, metaVars
<1>4. r \in Nat
  BY Slots
<1>5. cursor # Idle => /\ cursor \in Nat /\ Frontier \in Nat /\ cursor <= Frontier
                       /\ call # Idle => \A x \in ToSet(call.got) : x <= Frontier
  <2> SUFFICES ASSUME cursor # Idle
               PROVE  /\ cursor \in Nat /\ Frontier \in Nat /\ cursor <= Frontier
                      /\ call # Idle => \A x \in ToSet(call.got) : x <= Frontier
    OBVIOUS
  <2>1. cursor \in Nat
    BY DEF PollInv
  <2> DEFINE T == IF call = Idle THEN {} ELSE ToSet(call.got)
  <2>2. T \in SUBSET Rows
    BY DEF PollInv, FetchInv, Sound, Follows, Asked
  <2>3. Frontier = Max({cursor} \cup T)
    BY DEF Frontier
  <2> HIDE DEF T
  <2>4. Frontier \in Nat /\ \A x \in {cursor} \cup T : x <= Frontier
    BY <2>1, <2>2, <2>3, MaxWith
  <2> QED
    BY <2>1, <2>4 DEF T
<1>6. PollPassesWhatItStored'
  <2> SUFFICES ASSUME cursor # Idle, NEW x \in listing \cup {r}, x < cursor
               PROVE  x \in scored \cup missed'
    BY <1>1 DEF PollPassesWhatItStored
  <2>1. CASE x \in listing
    BY <1>1, <2>1 DEF PollInv, PollPassesWhatItStored
  <2>2. CASE x = r
    <3>1. ~(r >= Frontier)
      BY <1>4, <1>5, <2>2
    <3> QED
      BY <1>1, <2>2, <3>1
  <2> QED
    BY <2>1, <2>2
<1>7. call' # Idle => Asking'
  <2> SUFFICES ASSUME call # Idle, NEW x \in listing \cup {r}, cursor <= x, x < call.behind
               PROVE  x \in ToSet(call.got) \/ x \in missed'
    BY <1>1 DEF Asking, PollInv
  <2>1. CASE x \in listing
    BY <1>1, <2>1 DEF PollInv, Asking
  <2>2. CASE x = r
    <3>1. cursor # Idle /\ call.behind \in Nat
      BY DEF PollInv, Asking, FetchInv, Sound, Downloads
    <3>2. call.behind \in ToSet(call.got)
      BY <1>4, <2>2, <3>1 DEF PollInv, FetchInv, Sound, Follows
    <3>3. ~(r >= Frontier)
      BY <1>4, <1>5, <2>2, <3>1, <3>2
    <3> QED
      BY <1>1, <2>2, <3>1, <3>3
  <2> QED
    BY <2>1, <2>2
<1> QED
  BY <1>1, <1>2, <1>3, <1>6, <1>7 DEF PollInv

LEMMA PollAnsweredKeeps == ASSUME PollInv, PollAnswered, UNCHANGED <<newsVars, metaVars>> PROVE PollInv'
<1>1. /\ listing' = listing /\ clock' = clock /\ cursor' = cursor /\ scored' = scored /\ missed' = missed
      /\ FeedRests' /\ FileRests' /\ shelf' = Idle /\ answer' = Idle
  BY DEF PollAnswered, Page, NoPage, PollInv, FeedRests, FileRests, pollVars, streamVars, newsVars, metaVars
<1>2. FetchInv'
  BY PageKeeps, NoPageKeeps DEF PollAnswered, PollInv
<1>3. /\ call # Idle /\ call.outcome = "running" /\ Asking /\ Sound(call, listing) /\ listing \subseteq Rows
      /\ \/ call' = Answered(call)
         \/ \E a \in Answers : call' = Failed(call, a)
  BY DEF PollAnswered, Page, NoPage, Running, PollInv, FetchInv
<1>4. call.client = _fetch_page /\ call.again = 1 /\ call.client.again = 1 /\ cursor \in Nat /\ cursor # Idle
      /\ call.behind \in Nat /\ call.from = cursor /\ call.to = MaxSlot
  BY <1>3, PageClient DEF Asking, PollInv, Sound, Downloads
<1>5. CASE call' = Answered(call)
  <2>1. /\ call'.client = call.client /\ call'.from = call.from /\ call'.to = call.to /\ call'.again = call.again
        /\ call'.got = WithPage(call).got /\ call'.behind = WithPage(call).behind
    BY <1>3, <1>5, AnsweredIsSound
  <2>2. /\ ToSet(call.got) \subseteq ToSet(call'.got)
        /\ \A r \in Asked(call, listing) : call.behind < r /\ r <= call'.behind => r \in ToSet(call'.got)
    BY <1>3, <2>1, OneMorePage
  <2>3. ASSUME NEW r \in listing, cursor <= r, r < call'.behind PROVE r \in ToSet(call'.got) \/ r \in missed
    <3>1. r \in Nat \ {0} /\ r \in Asked(call, listing)
      BY <1>3, <1>4, <2>3, Slots DEF Asked
    <3>2. CASE r < call.behind
      BY <1>3, <2>2, <2>3, <3>2 DEF Asking
    <3>3. CASE r = call.behind
      <4>1. r \in ToSet(call.got)
        BY <1>3, <3>1, <3>3 DEF Sound, Follows
      <4> QED
        BY <2>2, <4>1
    <3>4. CASE call.behind < r
      <4>1. call'.behind \in Nat
        BY <1>1, <1>2, <1>3, <1>5, AnsweredIsSound DEF Sound, Downloads
      <4> QED
        BY <2>2, <2>3, <3>1, <3>4, <4>1
    <3> QED
      BY <1>4, <3>1, <3>2, <3>3, <3>4
  <2>4. Asking'
    BY <1>1, <1>4, <2>1, <2>3 DEF Asking
  <2> QED
    BY <1>1, <1>2, <2>4 DEF PollInv, PollPassesWhatItStored
<1>6. CASE \E a \in Answers : call' = Failed(call, a)
  <2>1. /\ call'.client = call.client /\ call'.from = call.from /\ call'.to = call.to /\ call'.again = call.again
        /\ call'.got = call.got /\ call'.behind = call.behind
    BY <1>3, <1>4, <1>6, FailedIsSound
  <2>2. Asking'
    BY <1>1, <1>3, <2>1 DEF Asking
  <2> QED
    BY <1>1, <1>2, <2>2 DEF PollInv, PollPassesWhatItStored
<1> QED
  BY <1>3, <1>5, <1>6

LEMMA PollNextKeeps == PollInv /\ [PollNext /\ UNCHANGED <<newsVars, metaVars>>]_historyVars => PollInv'
<1> SUFFICES ASSUME PollInv, [PollNext /\ UNCHANGED <<newsVars, metaVars>>]_historyVars PROVE PollInv'
  OBVIOUS
<1>1. CASE UNCHANGED historyVars
  BY <1>1 DEF PollInv, FetchInv, FeedRests, FileRests, PollPassesWhatItStored, Asking, historyVars, fetchVars,
              pollVars, streamVars, newsVars, metaVars
<1> SUFFICES ASSUME PollNext, UNCHANGED <<newsVars, metaVars>> PROVE PollInv'
  BY <1>1
<1>2. FileRests' /\ shelf' = Idle /\ answer' = Idle
  BY DEF PollInv, FileRests, newsVars, metaVars
<1>3. CASE Tick
  <2>1. clock' \in Nat /\ UNCHANGED <<fetchVars, pollVars, streamVars>>
    BY <1>3 DEF Tick, PollInv
  <2> QED
    BY <1>2, <2>1 DEF PollInv, FetchInv, FeedRests, PollPassesWhatItStored, Asking, fetchVars, pollVars, streamVars
<1>4. CASE start
  <2>1. /\ call = Idle /\ cursor' \in Nat /\ UNCHANGED <<fetchVars, clock, scored, streamVars>>
        /\ missed' = missed \cup {r \in listing \ scored : r < cursor'}
    BY <1>4, PipelinesAssumption DEF start, PollInv
  <2>2. PollPassesWhatItStored'
    BY <2>1 DEF PollPassesWhatItStored, fetchVars
  <2> QED
    BY <1>2, <2>1, <2>2 DEF PollInv, FetchInv, FeedRests, fetchVars, streamVars
<1>5. CASE PollAsks
  <2>1. /\ cursor # Idle /\ call = Idle /\ call' = Fresh(_fetch_page, cursor, MaxSlot, 1)
        /\ UNCHANGED <<listing, clock, pollVars, streamVars>>
    BY <1>5 DEF PollAsks
  <2>2. Begin(_fetch_page, cursor, MaxSlot) /\ cursor \in Nat /\ MaxSlot \in Nat /\ _fetch_page \in Client
    BY <2>1, Slots, PageClient DEF Begin, PollInv
  <2>3. FetchInv'
    BY <2>2, BeginKeeps DEF PollInv
  <2>4. /\ call'.client = _fetch_page /\ call'.from = cursor /\ call'.to = MaxSlot /\ call'.again = 1
        /\ call'.behind = 0
    BY <2>1 DEF Fresh
  <2>5. \A r \in listing : ~(r < 0)
    BY Slots DEF PollInv, FetchInv
  <2>6. Asking'
    BY <2>1, <2>4, <2>5 DEF Asking, pollVars
  <2> QED
    BY <1>2, <2>1, <2>3, <2>6 DEF PollInv, FeedRests, PollPassesWhatItStored, pollVars, streamVars
<1>6. CASE PollStores
  <2> DEFINE T == ToSet(call.got)
  <2>1. /\ call # Idle /\ call' = Idle /\ UNCHANGED <<listing, clock, missed, streamVars>>
        /\ \/ scored' = scored \cup T /\ cursor' = Max({cursor} \cup T)
           \/ UNCHANGED <<scored, cursor>>
    BY <1>6 DEF PollStores, _persist
  <2>2. cursor # Idle /\ cursor \in Nat /\ Asking /\ T \in SUBSET Rows /\ listing \subseteq Rows
        /\ \A r \in T : r <= call.behind
    <3>1. Sound(call, listing) /\ Asking
      BY <2>1 DEF PollInv, FetchInv
    <3> QED
      BY <3>1 DEF PollInv, FetchInv, Sound, Follows, Asking, Asked, ToSet
  <2> HIDE DEF T
  <2>3. CASE UNCHANGED <<scored, cursor>>
    BY <1>2, <2>1, <2>3 DEF PollInv, FetchInv, FeedRests, PollPassesWhatItStored, streamVars
  <2>4. CASE scored' = scored \cup T /\ cursor' = Max({cursor} \cup T)
    <3>1. cursor' \in {cursor} \cup T /\ cursor' \in Nat
      BY <2>2, <2>4, MaxWith
    <3>2. ASSUME NEW r \in listing, r < cursor' PROVE r \in scored' \cup missed'
      <4>1. CASE r < cursor
        BY <2>1, <2>2, <2>4, <4>1 DEF PollInv, PollPassesWhatItStored
      <4>2. CASE ~(r < cursor)
        <5>1. r \in Nat /\ call.behind \in Nat
          BY <2>1, <2>2, Slots DEF PollInv, FetchInv, Sound, Downloads
        <5>2. cursor' \in T
          BY <2>2, <3>1, <3>2, <4>2
        <5>3. cursor <= r /\ r < call.behind
          BY <2>2, <3>1, <3>2, <4>2, <5>1, <5>2
        <5> QED
          BY <2>1, <2>2, <2>4, <5>3 DEF Asking, T
      <4> QED
        BY <4>1, <4>2
    <3>3. PollPassesWhatItStored'
      BY <2>1, <3>2 DEF PollPassesWhatItStored
    <3> QED
      BY <1>2, <2>1, <3>1, <3>3 DEF PollInv, FetchInv, FeedRests, streamVars
  <2> QED
    BY <2>1, <2>3, <2>4
<1>7. CASE PollerDies
  BY <1>2, <1>7 DEF PollerDies, PollInv, FetchInv, FeedRests, PollPassesWhatItStored, streamVars
<1> QED
  BY <1>3, <1>4, <1>5, <1>6, <1>7, PublishKeeps, PollAnsweredKeeps DEF PollNext

LEMMA AtTheStart ==
  HistoryInit => PollInv
<1> SUFFICES ASSUME HistoryInit PROVE PollInv
  OBVIOUS
<1>1. /\ listing = {} /\ call = Idle /\ clock = 0 /\ cursor = Idle /\ FeedRests /\ FileRests
      /\ shelf = Idle /\ answer = Idle
  BY DEF HistoryInit, PipelinesInit, FetchInit, FeedRests, FileRests
<1> QED
  BY <1>1 DEF PollInv, FetchInv, PollPassesWhatItStored

LEMMA PollingKeeps == PollSpec => []HistoriesAreKept
<1>1. HistoryInit => PollInv
  BY AtTheStart
<1>2. PollInv /\ [PollNext /\ UNCHANGED <<newsVars, metaVars>>]_historyVars => PollInv'
  BY PollNextKeeps
<1>3. PollInv => HistoriesAreKept
  BY RestingFeed, RestingFile DEF PollInv, HistoriesAreKept, NewsOfTheDay
<1> QED
  BY <1>1, <1>2, <1>3, PTL DEF PollSpec

-----------------------------------------------------------------------------
(* The news files.                                                         *)

ShelfInv ==
    /\ FetchInv
    /\ call # Idle => call.client = fetch_news_range
    /\ shelf # Idle => shelf.since \subseteq shelf.items \/ shelf.cut
    /\ NewsOfTheDay
    /\ cursor = Idle /\ FeedRests /\ FileRests

LEMMA NewsClient ==
  /\ fetch_news_range \in Client /\ fetch_news_range.full = "raised"
BY DEF fetch_news_range, fetch_aggs, Client

LEMMA WindowIs == ASSUME NEW d \in NewsDays PROVE Window(d).from \in Nat /\ Window(d).to \in Nat
<1>1. d \in Int /\ SlotsPerDay \in Nat \ {0} /\ d \in Nat
  BY HistoryAssumption DEF NewsDays
<1> DEFINE n == (d - 2) * SlotsPerDay + 1
<1>2. n \in Int /\ d * SlotsPerDay \in Nat
  BY <1>1, Z3
<1> HIDE DEF n
<1>3. {1, n} \in SUBSET Int /\ IsFiniteSet({1, n}) /\ {1, n} # {}
  <2>1. IsFiniteSet({1}) /\ IsFiniteSet({1} \cup {n})
    BY FS_Singleton, FS_AddElement
  <2>2. {1} \cup {n} = {1, n}
    OBVIOUS
  <2>3. IsFiniteSet({1, n})
    BY <2>1, <2>2, Zenon
  <2> QED
    BY <1>2, <2>3
<1>4. Max({1, n}) \in {1, n} /\ 1 <= Max({1, n})
  BY <1>3, FiniteMax
<1>5. Max({1, n}) \in Nat
  BY <1>2, <1>4
<1> QED
  BY <1>2, <1>5 DEF Window, n

\* What is served of a file that holds what was listed.
LEMMA ServedIsTheDays ==
  ASSUME NEW w, NEW s, s.since \subseteq s.items \/ s.cut
  PROVE  LET a == Served(w, s)
         IN  In(a, a.items) = a.items /\ (a.since \subseteq a.items \/ a.cut)
BY DEF Served, In

LEMMA ShelfNextKeeps == ShelfInv /\ [ShelfNext]_historyVars => ShelfInv'
<1> SUFFICES ASSUME ShelfInv, [ShelfNext]_historyVars PROVE ShelfInv'
  OBVIOUS
<1>1. CASE UNCHANGED historyVars
  BY <1>1 DEF ShelfInv, FetchInv, NewsOfTheDay, FeedRests, FileRests, historyVars, fetchVars, pollVars, streamVars,
              newsVars, metaVars
<1>2. CASE SlotEnds
  BY <1>2 DEF SlotEnds, Tick, ShelfInv, FetchInv, NewsOfTheDay, FeedRests, FileRests, fetchVars, pollVars, streamVars,
              newsVars, metaVars
<1>3. CASE NewsDownload
  <2>1. FetchInv'
    BY <1>3, PageKeeps, NoPageKeeps DEF NewsDownload, PollAnswered, ShelfInv
  <2>2. /\ call # Idle /\ Sound(call, listing) /\ listing \subseteq Rows /\ call.outcome = "running"
        /\ call' = Answered(call) \/ \E a \in Answers : call' = Failed(call, a)
    BY <1>3 DEF NewsDownload, PollAnswered, Page, NoPage, Running, ShelfInv, FetchInv
  <2>3. call'.client = call.client
    BY <2>2, AnsweredIsSound, FailedIsSound
  <2> QED
    BY <1>3, <2>1, <2>2, <2>3 DEF NewsDownload, PollAnswered, ShelfInv, NewsOfTheDay, FeedRests, FileRests,
                                  pollVars, streamVars, newsVars, metaVars
<1>4. CASE NewsArrived
  <2>1. call # Idle /\ call' = Idle /\ UNCHANGED <<listing, clock, pollVars, streamVars, metaVars>>
    BY <1>4 DEF NewsArrived
  <2>2. FetchInv' /\ cursor' = Idle /\ FeedRests' /\ FileRests'
    BY <2>1 DEF ShelfInv, FetchInv, FeedRests, FileRests, pollVars, streamVars, metaVars
  <2>3. CASE call.outcome = "rows" /\ ~UNCHANGED <<shelf, answer>>
    <3> DEFINE s == [from |-> call.from, to |-> call.to, items |-> ToSet(call.got),
                     since |-> call.since, cut |-> call.cut]
    <3>1. shelf' = s /\ answer' = Served(s, s)
      BY <1>4, <2>3 DEF NewsArrived
    <3>2. call.since \subseteq ToSet(call.got) \/ call.cut
      <4>1. Ended(call) /\ call.client.full = "raised"
        BY <2>1, NewsClient DEF ShelfInv, FetchInv, Sound
      <4> QED
        BY <2>3, <4>1 DEF Ended
    <3>3. s.since \subseteq s.items \/ s.cut
      BY <3>2
    <3> HIDE DEF s
    <3> QED
      BY <2>1, <2>2, <3>1, <3>3, ServedIsTheDays DEF ShelfInv, NewsOfTheDay
  <2>4. CASE UNCHANGED <<shelf, answer>>
    BY <2>1, <2>2, <2>4 DEF ShelfInv, NewsOfTheDay
  <2> QED
    BY <1>4, <2>3, <2>4 DEF NewsArrived
<1>5. CASE ReplayEnds
  BY <1>5 DEF ReplayEnds, ShelfInv, FetchInv, NewsOfTheDay, FeedRests, FileRests, pollVars, streamVars
<1>6. ASSUME NEW r \in Rows, Published(r) PROVE ShelfInv'
  <2>1. Publish(r) /\ Listed(r) /\ UNCHANGED <<newsVars, metaVars, cursor, streamVars, call>>
    BY <1>6 DEF Published, Publish, Listed
  <2>2. FetchInv'
    BY <2>1, ListedKeeps DEF ShelfInv
  <2> QED
    BY <2>1, <2>2 DEF ShelfInv, NewsOfTheDay, FeedRests, FileRests, streamVars, newsVars, metaVars
<1>7. ASSUME NEW d \in NewsDays, load_historical_news(d) PROVE ShelfInv'
  <2> DEFINE w == Window(d)
  <2>1. /\ call = Idle /\ UNCHANGED <<clock, pollVars, streamVars, shelf, metaVars>>
        /\ \/ shelf # Idle /\ answer' = Served(w, shelf) /\ UNCHANGED fetchVars
           \/ answer' = Idle /\ Begin(fetch_news_range, w.from, w.to)
    BY <1>7 DEF load_historical_news
  <2>2. cursor' = Idle /\ FeedRests' /\ FileRests'
    BY <2>1 DEF ShelfInv, FeedRests, FileRests, pollVars, streamVars, metaVars
  <2>3. CASE shelf # Idle /\ answer' = Served(w, shelf) /\ UNCHANGED fetchVars
    <3> HIDE DEF w
    <3>1. shelf.since \subseteq shelf.items \/ shelf.cut
      BY <2>3 DEF ShelfInv
    <3>2. NewsOfTheDay'
      BY <2>3, <3>1, ServedIsTheDays DEF NewsOfTheDay
    <3> QED
      BY <2>1, <2>2, <2>3, <3>2 DEF ShelfInv, FetchInv, fetchVars
  <2>4. CASE answer' = Idle /\ Begin(fetch_news_range, w.from, w.to)
    <3>1. FetchInv'
      BY <2>4, WindowIs, NewsClient, BeginKeeps DEF ShelfInv
    <3>2. call' # Idle => call'.client = fetch_news_range
      BY <2>4 DEF Begin, Fresh
    <3> QED
      BY <2>1, <2>2, <2>4, <3>1, <3>2 DEF ShelfInv, NewsOfTheDay
  <2> QED
    BY <2>1, <2>3, <2>4
<1> QED
  BY <1>1, <1>2, <1>3, <1>4, <1>5, <1>6, <1>7 DEF ShelfNext

LEMMA ShelvingKeeps == ShelfSpec => []HistoriesAreKept
<1>1. HistoryInit => ShelfInv
  BY DEF HistoryInit, PipelinesInit, FetchInit, FeedRests, FileRests, ShelfInv, FetchInv, NewsOfTheDay
<1>2. ShelfInv /\ [ShelfNext]_historyVars => ShelfInv'
  BY ShelfNextKeeps
<1>3. ShelfInv => HistoriesAreKept
  BY RestingFeed, RestingFile DEF ShelfInv, HistoriesAreKept, PollPassesWhatItStored
<1> QED
  BY <1>1, <1>2, <1>3, PTL DEF ShelfSpec

-----------------------------------------------------------------------------
(* The metadata file.                                                      *)

\* A row's volume is of the day it names, and no row was fetched later than today.
RowsOf(file, today) ==
    \A t \in DOMAIN file : file[t].adv = file[t].asOf /\ file[t].fetched \in Int /\ file[t].fetched <= today

\* A file holds what a call wrote of a ticker, but for the exposed and the dropped.
HoldsDone(file, t) == t \in DOMAIN done \ (exposed \cup dropped) => t \in DOMAIN file /\ file[t] = done[t]

\* A call under way: what it could read holds what the others' finished calls wrote.
Reads(t, l, today) ==
    /\ l = [cache |-> l.cache, blind |-> l.blind, asOf |-> l.asOf, fetched |-> l.fetched, adv |-> l.adv]
    /\ RowsOf(l.cache, today)
    /\ l.blind \in BOOLEAN /\ (l.blind \/ \A u \in Tickers \ {t} : HoldsDone(l.cache, u))
    /\ l.fetched # Idle => l.fetched \in Int /\ l.fetched <= today
    /\ l.adv # Idle => l.adv = l.asOf

MetadataInv ==
    /\ clock \in Nat
    /\ loading = [t \in Tickers |-> loading[t]]
    /\ DOMAIN done \subseteq Tickers
    /\ RowsOf(rows, Today)
    /\ \A t \in Tickers : HoldsDone(rows, t)
    /\ \A t \in Tickers : loading[t] # Idle => Reads(t, loading[t], Today)
    /\ call = Idle /\ cursor = Idle /\ FeedRests /\ answer = Idle

LEMMA TodayGrows ==
  ASSUME clock \in Nat
  PROVE  /\ Today \in Nat
         /\ clock' = clock + 1 => Today' \in Nat /\ Today <= Today'
<1>1. SlotsPerDay \in Nat \ {0}
  BY HistoryAssumption
<1>2. \A m \in Nat : /\ m \div SlotsPerDay \in Nat /\ m % SlotsPerDay \in Nat /\ m % SlotsPerDay < SlotsPerDay
                     /\ m = SlotsPerDay * (m \div SlotsPerDay) + (m % SlotsPerDay)
  BY <1>1
<1>3. Today \in Nat
  BY <1>2 DEF Today
<1>4. ASSUME clock' = clock + 1 PROVE Today' \in Nat /\ Today <= Today'
  <2> DEFINE a == clock \div SlotsPerDay
             b == (clock + 1) \div SlotsPerDay
             x == clock % SlotsPerDay
             y == (clock + 1) % SlotsPerDay
  <2>1. /\ a \in Nat /\ b \in Nat /\ x \in Nat /\ y \in Nat /\ y < SlotsPerDay
        /\ clock = SlotsPerDay * a + x /\ clock + 1 = SlotsPerDay * b + y
    BY <1>2
  <2>2. Today = a /\ Today' = b
    BY <1>4 DEF Today
  <2> HIDE DEF a, b, x, y
  <2>3. ~(b < a)
    <3> SUFFICES ASSUME b < a PROVE FALSE
      OBVIOUS
    <3>1. SlotsPerDay * b \in Nat /\ SlotsPerDay * a \in Nat /\ SlotsPerDay * b + SlotsPerDay <= SlotsPerDay * a
      BY <1>1, <2>1, MultiplesApart
    <3> QED
      BY <1>1, <2>1, <3>1
  <2> QED
    BY <2>1, <2>2, <2>3
<1> QED
  BY <1>3, <1>4

\* The day goes on, and the rows stay what they were.
LEMMA LaterDay ==
  ASSUME NEW today \in Int, NEW later \in Int, today <= later
  PROVE  /\ \A file : RowsOf(file, today) => RowsOf(file, later)
         /\ \A t, l : Reads(t, l, today) => Reads(t, l, later)
<1>1. \A file : RowsOf(file, today) => RowsOf(file, later)
  <2> SUFFICES ASSUME NEW file, RowsOf(file, today), NEW t \in DOMAIN file
               PROVE  file[t].adv = file[t].asOf /\ file[t].fetched \in Int /\ file[t].fetched <= later
    BY DEF RowsOf
  <2>1. file[t].adv = file[t].asOf /\ file[t].fetched \in Int /\ file[t].fetched <= today
    BY DEF RowsOf
  <2> QED
    BY <2>1
<1>2. ASSUME NEW t, NEW l, Reads(t, l, today) PROVE Reads(t, l, later)
  <2>1. RowsOf(l.cache, later)
    BY <1>1, <1>2 DEF Reads
  <2>2. l.fetched # Idle => l.fetched \in Int /\ l.fetched <= later
    BY <1>2 DEF Reads
  <2> QED
    BY <1>2, <2>1, <2>2 DEF Reads
<1> QED
  BY <1>1, <1>2

\* A step in which only the calls change, and each that is under way is in order.
LEMMA CallsChange ==
  ASSUME MetadataInv, NEW t \in Tickers, NEW l,
         loading' = [loading EXCEPT ![t] = l], l # Idle => Reads(t, l, Today),
         UNCHANGED <<fetchVars, clock, pollVars, streamVars, newsVars, rows, done, exposed, dropped>>
  PROVE  MetadataInv'
<1>1. /\ loading' = [u \in Tickers |-> IF u = t THEN l ELSE loading[u]]
      /\ loading' = [u \in Tickers |-> loading'[u]]
  BY DEF MetadataInv
<1>2. Today' = Today /\ clock' = clock /\ rows' = rows /\ done' = done /\ exposed' = exposed /\ dropped' = dropped
  BY DEF Today
<1>3. \A u \in Tickers : HoldsDone(rows, u)'
  BY <1>2 DEF MetadataInv, HoldsDone
<1>4. ASSUME NEW u \in Tickers, (loading[u] # Idle)' PROVE Reads(u, loading[u], Today)'
  <2>1. Reads(u, loading'[u], Today)
    <3>1. CASE u = t
      BY <1>1, <1>4, <3>1
    <3>2. CASE u # t
      BY <1>1, <1>4, <3>2 DEF MetadataInv
    <3> QED
      BY <3>1, <3>2
  <2>2. loading'[u].blind \/ \A v \in Tickers \ {u} : v \in DOMAIN done' \ (exposed' \cup dropped') =>
            v \in DOMAIN loading'[u].cache /\ loading'[u].cache[v] = done'[v]
    BY <1>2, <2>1 DEF Reads, HoldsDone
  <2> QED
    BY <1>2, <2>1, <2>2 DEF Reads, HoldsDone
<1>5. RowsOf(rows, Today)'
  BY <1>2 DEF MetadataInv
<1>6. call' = Idle /\ cursor' = Idle /\ FeedRests' /\ answer' = Idle
  BY DEF MetadataInv, FeedRests, fetchVars, pollVars, streamVars, newsVars
<1> QED
  BY <1>1, <1>2, <1>3, <1>4, <1>5, <1>6 DEF MetadataInv

LEMMA LoadBegins ==
  ASSUME MetadataInv, NEW t \in Tickers, NEW d \in NewsDays, get_ticker_metadata(t, d)
  PROVE  MetadataInv'
<1>0. PICK blind \in BOOLEAN :
          LET file == IF blind THEN << >> ELSE rows
              row == IF t \in DOMAIN file THEN file[t] ELSE Idle
              slow == IF row = Idle THEN FALSE ELSE _is_slow_fields_fresh(row)
          IN  loading' = [loading EXCEPT ![t] =
                  [cache |-> file, blind |-> blind, asOf |-> d,
                   fetched |-> IF slow THEN row.fetched ELSE Idle,
                   adv |-> IF row = Idle THEN Idle ELSE IF row.asOf = d THEN row.adv ELSE Idle]]
  BY DEF get_ticker_metadata
<1> DEFINE file == IF blind THEN << >> ELSE rows
           row == IF t \in DOMAIN file THEN file[t] ELSE Idle
           slow == IF row = Idle THEN FALSE ELSE _is_slow_fields_fresh(row)
           fetched == IF slow THEN row.fetched ELSE Idle
           adv == IF row = Idle THEN Idle ELSE IF row.asOf = d THEN row.adv ELSE Idle
           l == [cache |-> file, blind |-> blind, asOf |-> d, fetched |-> fetched, adv |-> adv]
<1>1. loading' = [loading EXCEPT ![t] = l]
  BY <1>0
<1>6. RowsOf(file, Today) /\ (blind \/ \A u \in Tickers \ {t} : HoldsDone(file, u))
  BY DEF MetadataInv, RowsOf
<1> HIDE DEF file
<1>2. row # Idle => row.adv = row.asOf /\ row.fetched \in Int /\ row.fetched <= Today
  BY <1>6 DEF RowsOf
<1> HIDE DEF row
<1>3. fetched # Idle => fetched \in Int /\ fetched <= Today
  BY <1>2
<1>4. adv # Idle => adv = d
  BY <1>2
<1> HIDE DEF fetched, adv
<1>5. Reads(t, l, Today)
  BY <1>6, <1>3, <1>4 DEF Reads
<1> HIDE DEF l
<1> QED
  BY <1>1, <1>5, CallsChange DEF get_ticker_metadata

LEMMA LoadGoesOn ==
  ASSUME MetadataInv, NEW t \in Tickers, _fetch_reference(t) \/ _fetch_adv(t)
  PROVE  MetadataInv'
<1> DEFINE f == [loading[t] EXCEPT !.fetched = Today]
           v == [loading[t] EXCEPT !.adv = loading[t].asOf]
<1>1. /\ loading[t] # Idle
      /\ UNCHANGED <<fetchVars, clock, pollVars, streamVars, newsVars, rows, done, exposed, dropped>>
      /\ \/ loading' = [loading EXCEPT ![t] = f] \/ loading' = [loading EXCEPT ![t] = v]
         \/ loading' = [loading EXCEPT ![t] = Idle]
  BY DEF _fetch_reference, _fetch_adv
<1>2. Reads(t, loading[t], Today) /\ Today \in Nat
  BY <1>1, TodayGrows DEF MetadataInv
<1>3. Reads(t, f, Today)
  <2>1. f = [cache |-> loading[t].cache, blind |-> loading[t].blind, asOf |-> loading[t].asOf, fetched |-> Today, adv |-> loading[t].adv]
    BY <1>2 DEF Reads
  <2> HIDE DEF f
  <2> QED
    BY <1>2, <2>1 DEF Reads
<1>4. Reads(t, v, Today)
  <2>1. v = [cache |-> loading[t].cache, blind |-> loading[t].blind, asOf |-> loading[t].asOf, fetched |-> loading[t].fetched,
             adv |-> loading[t].asOf]
    BY <1>2 DEF Reads
  <2> HIDE DEF v
  <2> QED
    BY <1>2, <2>1 DEF Reads
<1> HIDE DEF f, v
<1> QED
  BY <1>1, <1>3, <1>4, CallsChange

\* The row of a call is put into the file it had read.
LEMMA LoadWrites ==
  ASSUME MetadataInv, NEW t \in Tickers, Finishing(t), Written(t, Put(loading[t].cache, t, NewRow(t))),
         loading' = [loading EXCEPT ![t] = Idle], UNCHANGED <<fetchVars, clock, pollVars, streamVars, newsVars, loads>>
  PROVE  MetadataInv'
<1> DEFINE l == loading[t]
           row == [fetched |-> l.fetched, asOf |-> l.asOf, adv |-> l.adv]
           others == \E u \in Tickers \ {t} : loading[u] # Idle
<1>1. /\ l # Idle /\ l.fetched # Idle /\ l.adv # Idle
      /\ rows' = Put(l.cache, t, row) /\ done' = Put(done, t, row)
      /\ exposed' = IF others THEN exposed \cup {t} ELSE exposed \ {t}
      /\ dropped' = (IF l.blind THEN dropped \cup DOMAIN rows ELSE dropped) \ {t}
      /\ loading' = [loading EXCEPT ![t] = Idle]
      /\ UNCHANGED <<fetchVars, clock, pollVars, streamVars, newsVars>>
  BY DEF Finishing, Written, NewRow
<1>2. Reads(t, l, Today)
  BY <1>1 DEF MetadataInv
<1>3. row.adv = row.asOf /\ row.fetched \in Int /\ row.fetched <= Today
  BY <1>1, <1>2 DEF Reads
<1> HIDE DEF row
<1>4. /\ DOMAIN rows' = DOMAIN l.cache \cup {t} /\ rows'[t] = row
      /\ \A u \in DOMAIN l.cache : u # t => rows'[u] = l.cache[u]
      /\ DOMAIN done' = DOMAIN done \cup {t} /\ done'[t] = row
      /\ \A u \in DOMAIN done : u # t => done'[u] = done[u]
  <2>1. /\ rows' = [u \in DOMAIN l.cache \cup {t} |-> IF u = t THEN row ELSE l.cache[u]]
        /\ done' = [u \in DOMAIN done \cup {t} |-> IF u = t THEN row ELSE done[u]]
    BY <1>1 DEF Put
  <2> HIDE DEF l
  <2> QED
    BY <2>1
<1>5. RowsOf(rows', Today)
  BY <1>2, <1>3, <1>4 DEF Reads, RowsOf
<1>6. \A u \in Tickers : u \in DOMAIN done' \ (exposed' \cup dropped') =>
          u \in DOMAIN rows' /\ rows'[u] = done'[u]
  <2> SUFFICES ASSUME NEW u \in Tickers, u \in DOMAIN done' \ (exposed' \cup dropped')
               PROVE  u \in DOMAIN rows' /\ rows'[u] = done'[u]
    OBVIOUS
  <2>1. CASE u = t
    BY <1>4, <2>1
  <2>2. CASE u # t
    <3>1. u \in DOMAIN done \ (exposed \cup dropped) /\ done'[u] = done[u]
      BY <1>1, <1>4, <2>2
    <3>2. u \in DOMAIN rows
      BY <3>1 DEF MetadataInv, HoldsDone
    <3>3. ~l.blind
      BY <1>1, <2>2, <3>2
    <3>4. HoldsDone(l.cache, u)
      BY <1>2, <2>2, <3>3 DEF Reads
    <3> QED
      BY <1>4, <2>2, <3>1, <3>4 DEF HoldsDone
  <2> QED
    BY <2>1, <2>2
<1>7. Today' = Today
  BY <1>1 DEF Today
<1>8. loading' = [u \in Tickers |-> IF u = t THEN Idle ELSE loading[u]] /\ loading' = [u \in Tickers |-> loading'[u]]
  BY <1>1 DEF MetadataInv
<1>9. ASSUME NEW u \in Tickers, (loading[u] # Idle)' PROVE Reads(u, loading[u], Today)'
  <2>1. u # t /\ loading'[u] = loading[u] /\ loading[u] # Idle /\ t \in exposed' /\ exposed \subseteq exposed'
    BY <1>1, <1>8, <1>9
  <2>2. Reads(u, loading'[u], Today)
    BY <2>1 DEF MetadataInv
  <2>3. ASSUME NEW v \in Tickers \ {u}, v \in DOMAIN done' \ (exposed' \cup dropped'), ~loading'[u].blind
        PROVE  v \in DOMAIN loading'[u].cache /\ loading'[u].cache[v] = done'[v]
    <3>1. v # t /\ v \in DOMAIN done \ (exposed \cup dropped) /\ done'[v] = done[v]
      BY <1>1, <1>4, <2>1, <2>3
    <3> QED
      BY <2>2, <2>3, <3>1 DEF Reads, HoldsDone
  <2> QED
    BY <1>7, <2>2, <2>3 DEF Reads, HoldsDone
<1>10. call' = Idle /\ cursor' = Idle /\ FeedRests' /\ answer' = Idle /\ clock' \in Nat
  BY <1>1 DEF MetadataInv, FeedRests, fetchVars, pollVars, streamVars, newsVars
<1>11. \A u \in Tickers : HoldsDone(rows, u)'
  BY <1>6 DEF HoldsDone
<1>12. (DOMAIN done \subseteq Tickers)'
  BY <1>4 DEF MetadataInv
<1> QED
  BY <1>5, <1>7, <1>8, <1>9, <1>10, <1>11, <1>12 DEF MetadataInv, RowsOf

LEMMA LoadEnds ==
  ASSUME MetadataInv, NEW t \in Tickers, _write_cache_file(t)
  PROVE  MetadataInv'
<1>1. CASE Written(t, Put(loading[t].cache, t, NewRow(t)))
  BY <1>1, LoadWrites DEF _write_cache_file
<1>2. CASE UNCHANGED <<rows, done, exposed, dropped>>
  BY <1>2, CallsChange DEF _write_cache_file
<1> QED
  BY <1>1, <1>2 DEF _write_cache_file

LEMMA MetadataNextKeeps == MetadataInv /\ [MetadataNext]_historyVars => MetadataInv'
<1> SUFFICES ASSUME MetadataInv, [MetadataNext]_historyVars PROVE MetadataInv'
  OBVIOUS
<1>1. CASE UNCHANGED historyVars
  BY <1>1 DEF MetadataInv, Reads, HoldsDone, Today, FeedRests, historyVars, fetchVars, pollVars, streamVars, newsVars,
              metaVars
<1>2. CASE SlotEnds
  <2>1. /\ clock' = clock + 1 /\ rows' = rows /\ loading' = loading /\ done' = done /\ exposed' = exposed
        /\ dropped' = dropped /\ call' = call /\ cursor' = cursor /\ answer' = answer /\ UNCHANGED streamVars
    BY <1>2 DEF SlotEnds, Tick, fetchVars, pollVars, newsVars, metaVars
  <2>2. Today \in Int /\ Today' \in Int /\ Today <= Today'
    BY <2>1, TodayGrows DEF MetadataInv
  <2>3. RowsOf(rows, Today') /\ \A t \in Tickers : loading[t] # Idle => Reads(t, loading[t], Today')
    BY <2>2, LaterDay DEF MetadataInv
  <2>4. \A t \in Tickers : (loading[t] # Idle => Reads(t, loading[t], Today))'
    BY <2>1, <2>3 DEF Reads, HoldsDone
  <2>5. \A t \in Tickers : HoldsDone(rows, t)'
    BY <2>1 DEF MetadataInv, HoldsDone
  <2> QED
    BY <2>1, <2>3, <2>4, <2>5 DEF MetadataInv, FeedRests, streamVars
<1>3. CASE ReplayEnds
  <2>1. /\ call' = Idle /\ answer' = Idle /\ loading' = [t \in Tickers |-> Idle]
        /\ rows' = rows /\ done' = done /\ exposed' = exposed /\ dropped' = dropped
        /\ UNCHANGED <<clock, pollVars, streamVars>>
    BY <1>3 DEF ReplayEnds
  <2>2. Today' = Today
    BY <2>1 DEF Today
  <2>3. \A t \in Tickers : HoldsDone(rows, t)'
    BY <2>1 DEF MetadataInv, HoldsDone
  <2> QED
    BY <2>1, <2>2, <2>3 DEF MetadataInv, FeedRests, pollVars, streamVars
<1> QED
  BY <1>1, <1>2, <1>3, LoadBegins, LoadGoesOn, LoadEnds DEF MetadataNext

LEMMA LoadingKeeps == MetadataSpec => []HistoriesAreKept
<1>1. HistoryInit => MetadataInv
  <2> SUFFICES ASSUME HistoryInit PROVE MetadataInv
    OBVIOUS
  <2>1. /\ call = Idle /\ clock = 0 /\ cursor = Idle /\ FeedRests /\ answer = Idle
        /\ loading = [t \in Tickers |-> Idle] /\ DOMAIN rows = {} /\ DOMAIN done = {}
    BY DEF HistoryInit, PipelinesInit, FetchInit, FeedRests
  <2> QED
    BY <2>1 DEF MetadataInv, RowsOf, HoldsDone
<1>2. MetadataInv /\ [MetadataNext]_historyVars => MetadataInv'
  BY MetadataNextKeeps
<1>3. MetadataInv => HistoriesAreKept
  <2> SUFFICES ASSUME MetadataInv PROVE HistoriesAreKept
    OBVIOUS
  <2>1. PollPassesWhatItStored /\ StreamKeepsNewest /\ NewsOfTheDay
    BY RestingFeed DEF MetadataInv, PollPassesWhatItStored, NewsOfTheDay
  <2>2. RowsOutliveOtherCalls
    BY DEF MetadataInv, RowsOutliveOtherCalls, RowsOf, HoldsDone
  <2> QED
    BY <2>1, <2>2 DEF HistoriesAreKept
<1> QED
  BY <1>1, <1>2, <1>3, PTL DEF MetadataSpec

-----------------------------------------------------------------------------
(* The stream of headlines.                                                *)

Rising(q) == \A i, j \in DOMAIN q : i <= j => q[i] <= q[j]

\* No number is in the queue more than n times: n places on it is a greater one.
Spread(q, n) == \A i, j \in DOMAIN q : i + n <= j => q[i] < q[j]

FilesRest == call = Idle /\ cursor = Idle /\ answer = Idle /\ FileRests

StreamInv ==
    /\ heard \in Nat /\ feeds \in Nat \ {0}
    /\ queue \in Seq(1 .. heard) /\ Len(queue) <= QueueCap
    /\ Rising(queue) /\ Spread(queue, feeds)
    /\ queue # <<>> => queue[Len(queue)] = heard
    /\ ToSet(batch) \cup stored \cup shed \cup pushed \subseteq 1 .. heard
    /\ 1 .. heard \subseteq ToSet(queue) \cup ToSet(batch) \cup stored \cup shed \cup pushed
    /\ \A h \in pushed \ (ToSet(queue) \cup ToSet(batch) \cup stored \cup shed) :
          QueueCap <= feeds * (heard - h)
    /\ FilesRest

\* A rising queue of numbers above low, each in it n times at most, is not
\* longer than n times the numbers there are.
LEMMA SpreadOut ==
  ASSUME NEW q, NEW L \in Nat \ {0}, q \in [1 .. L -> Nat], NEW n \in Nat \ {0}, Spread(q, n),
         NEW low \in Nat, NEW top \in Nat, \A i \in 1 .. L : low < q[i] /\ q[i] <= top
  PROVE  L <= n * (top - low)
<1> DEFINE d == top - low
           Good == {k \in Nat : 1 + k * n \in 1 .. L => low + k < q[1 + k * n]}
<1>0. \A i \in 1 .. L : q[i] \in Nat
  OBVIOUS
<1>1. d \in Nat
  <2>1. 1 \in 1 .. L
    OBVIOUS
  <2> QED
    BY <1>0, <2>1
<1>2. 0 \in Good
  <2>1. 0 * n = 0
    BY Z3
  <2> QED
    BY <1>0, <2>1
<1>3. \A k \in Nat : k \in Good => k + 1 \in Good
  <2> SUFFICES ASSUME NEW k \in Nat, k \in Good, 1 + (k + 1) * n \in 1 .. L
               PROVE  low + (k + 1) < q[1 + (k + 1) * n]
    OBVIOUS
  <2>1. k * n \in Nat /\ (k + 1) * n = k * n + n
    BY NextMultiple
  <2>2. 1 + k * n \in 1 .. L /\ (1 + k * n) + n <= 1 + (k + 1) * n
    BY <2>1
  <2>3. q[1 + k * n] < q[1 + (k + 1) * n]
    BY <2>2 DEF Spread
  <2>4. low + k < q[1 + k * n]
    BY <2>2
  <2>5. q[1 + k * n] \in Nat /\ q[1 + (k + 1) * n] \in Nat
    BY <1>0, <2>2
  <2> QED
    BY <2>3, <2>4, <2>5
<1>4. d \in Good
  <2> HIDE DEF Good, d
  <2> QED
    BY <1>1, <1>2, <1>3, EveryNatural
<1>5. d * n \in Nat /\ n * d = d * n
  <2> HIDE DEF d
  <2> QED
    BY <1>1, Z3
<1>6. ~(d * n < L)
  <2> SUFFICES ASSUME d * n < L PROVE FALSE
    OBVIOUS
  <2>1. 1 + d * n \in 1 .. L
    BY <1>5
  <2>2. low + d < q[1 + d * n] /\ q[1 + d * n] <= top /\ q[1 + d * n] \in Nat
    BY <1>0, <1>4, <2>1
  <2> QED
    BY <2>2
<1> QED
  BY <1>5, <1>6

LEMMA SharedOut ==
  ASSUME NEW Q \in Nat, NEW f \in Nat \ {0}, NEW d \in Nat, Q <= f * d
  PROVE  Q \div f \in Nat /\ Q \div f <= d
<1> DEFINE a == Q \div f
           r == Q % f
<1>1. a \in Nat /\ r \in Nat /\ Q = f * a + r
  OBVIOUS
<1> HIDE DEF a, r
<1>2. ~(d < a)
  <2> SUFFICES ASSUME d < a PROVE FALSE
    OBVIOUS
  <2>1. f * d \in Nat /\ f * a \in Nat /\ f * d + f <= f * a
    BY <1>1, MultiplesApart
  <2> QED
    BY <1>1, <2>1
<1> QED
  BY <1>1, <1>2 DEF a

\* More headlines or more loops: still as many newer.
LEMMA MoreNewer ==
  ASSUME NEW f \in Nat, NEW d \in Nat, QueueCap <= f * d
  PROVE  QueueCap <= f * (d + 1) /\ QueueCap <= (f + 1) * d
<1>1. f * d \in Nat /\ f * (d + 1) = f * d + f /\ (f + 1) * d = f * d + d
  BY Z3
<1> QED
  BY <1>1, PipelinesAssumption

\* How many headlines a queue gives up for the next, and the queue with it.
GivenUp(q) == IF Len(q) = QueueCap THEN 1 ELSE 0

Follow(q, h, e) ==
    /\ Len(e) = Len(q) + 1 - GivenUp(q) /\ Len(e) <= QueueCap /\ Len(e) # 0
    /\ e[Len(e)] = h
    /\ \A i \in 1 .. Len(e) : i < Len(e) => i + GivenUp(q) \in 1 .. Len(q) /\ e[i] = q[i + GivenUp(q)]
    /\ GivenUp(q) = 1 => Len(q) # 0 /\ Head(q) = q[1]

LEMMA OneQueued ==
  ASSUME NEW S, NEW q \in Seq(S), Len(q) <= QueueCap, NEW h
  PROVE  Enqueued(q, h) \in Seq(S \cup {h}) /\ Follow(q, h, Enqueued(q, h))
<1> DEFINE k == IF Len(q) = QueueCap THEN 1 ELSE 0
           base == IF Len(q) = QueueCap THEN Tail(q) ELSE q
           e == Append(base, h)
<1>1. QueueCap \in Nat \ {0} /\ Len(q) \in Nat
  BY PipelinesAssumption
<1>2. k = 1 => Len(q) # 0 /\ q # <<>> /\ Head(q) = q[1]
  BY <1>1
<1>3. base \in Seq(S) /\ Len(base) = Len(q) - k /\ \A i \in 1 .. Len(base) : i + k \in 1 .. Len(q) /\ base[i] = q[i + k]
  <2>1. CASE Len(q) = QueueCap
    <3>1. q # <<>> /\ base = Tail(q) /\ k = 1
      BY <1>1, <2>1
    <3>2. Tail(q) \in Seq(S) /\ Len(Tail(q)) = Len(q) - 1 /\ \A i \in 1 .. Len(Tail(q)) : Tail(q)[i] = q[i + 1]
      BY <3>1, HeadTailProperties
    <3>3. \A i \in 1 .. Len(Tail(q)) : i + 1 \in 1 .. Len(q)
      BY <1>1, <3>2
    <3> QED
      BY <3>1, <3>2, <3>3
  <2>2. CASE Len(q) # QueueCap
    <3>1. base = q /\ k = 0
      BY <2>2
    <3> QED
      BY <1>1, <3>1
  <2> QED
    BY <2>1, <2>2
<1>4. k \in {0, 1} /\ (Len(q) = QueueCap <=> k = 1)
  OBVIOUS
<1> HIDE DEF k, base
<1>5. base \in Seq(S \cup {h})
  BY <1>3
<1>6. /\ e \in Seq(S \cup {h}) /\ Len(e) = Len(base) + 1 /\ e[Len(base) + 1] = h
      /\ \A i \in 1 .. Len(base) : e[i] = base[i]
  BY <1>5
<1> HIDE DEF e
<1>7. /\ Len(e) = Len(q) + 1 - k /\ Len(e) <= QueueCap /\ Len(e) # 0 /\ e[Len(e)] = h
      /\ \A i \in 1 .. Len(e) : i < Len(e) => i + k \in 1 .. Len(q) /\ e[i] = q[i + k]
  BY <1>1, <1>3, <1>4, <1>6
<1> QED
  BY <1>2, <1>6, <1>7 DEF Enqueued, Follow, GivenUp, e, base, k

\* A headline that fits behind the queue.
LEMMA EnqueueKeeps ==
  ASSUME StreamInv, NEW top, top \in {heard, heard + 1}, top # 0, heard' = top, _enqueue(top),
         \A i \in DOMAIN queue : i + feeds <= Len(queue) + 1 => queue[i] < top,
         UNCHANGED <<fetchVars, pollVars, batch, stored, shed, feeds, newsVars, metaVars>>
  PROVE  StreamInv'
<1> DEFINE e == Enqueued(queue, top)
           k == IF Len(queue) = QueueCap THEN 1 ELSE 0
           n == Len(queue)
           m == Len(e)
           kept == ToSet(batch) \cup stored \cup shed
<1>1. /\ heard \in Nat /\ top \in Nat \ {0} /\ heard <= top /\ feeds \in Nat \ {0}
      /\ queue \in Seq(1 .. heard) /\ n \in Nat /\ n <= QueueCap /\ DOMAIN queue = 1 .. n
      /\ \A i \in 1 .. n : queue[i] \in Nat /\ queue[i] \in 1 .. heard
  BY DEF StreamInv
<1>2. /\ queue' = e /\ pushed' = IF k = 1 THEN pushed \cup {Head(queue)} ELSE pushed
      /\ batch' = batch /\ stored' = stored /\ shed' = shed /\ feeds' = feeds
  BY DEF _enqueue
<1>3. /\ e \in Seq((1 .. heard) \cup {top}) /\ m = n + 1 - k /\ m <= QueueCap /\ m # 0
      /\ e[m] = top
      /\ \A i \in 1 .. m : i < m => i + k \in 1 .. n /\ e[i] = queue[i + k]
      /\ k = 1 => n # 0 /\ Head(queue) = queue[1]
  <2> DEFINE S == 1 .. heard
  <2>1. queue \in Seq(S) /\ Len(queue) <= QueueCap
    BY <1>1
  <2> HIDE DEF S
  <2>2. /\ e \in Seq(S \cup {top}) /\ m = n + 1 - k /\ m <= QueueCap /\ m # 0
        /\ e[m] = top
        /\ \A i \in 1 .. m : i < m => i + k \in 1 .. n /\ e[i] = queue[i + k]
        /\ k = 1 => n # 0 /\ Head(queue) = queue[1]
    <3>1. Follow(queue, top, e) /\ e \in Seq(S \cup {top})
      BY <2>1, OneQueued
    <3>2. k = GivenUp(queue)
      BY DEF GivenUp
    <3> HIDE DEF k, e
    <3> QED
      BY <3>1, <3>2 DEF Follow
  <2> QED
    BY <2>2 DEF S
<1>4. k \in {0, 1} /\ (k = 1 <=> n = QueueCap)
  OBVIOUS
<1>5. Rising(queue) /\ Spread(queue, feeds)
  BY DEF StreamInv
<1> HIDE DEF e, k
<1>6. m \in Nat /\ DOMAIN e = 1 .. m /\ e \in Seq(1 .. top) /\ e \in [1 .. m -> Nat]
  <2>1. (1 .. heard) \cup {top} \subseteq 1 .. top
    BY <1>1
  <2>2. m \in Nat /\ DOMAIN e = 1 .. m /\ \A i \in 1 .. m : e[i] \in (1 .. heard) \cup {top}
    BY <1>3 DEF m
  <2>3. \A i \in 1 .. m : e[i] \in 1 .. top /\ e[i] \in Nat
    BY <1>1, <2>1, <2>2
  <2>4. e = [i \in 1 .. m |-> e[i]]
    BY <1>3, <2>2 DEF m
  <2>5. e \in [1 .. m -> 1 .. top] /\ e \in [1 .. m -> Nat]
    BY <2>3, <2>4
  <2>6. e \in Seq(1 .. top)
    <3> DEFINE T == 1 .. top
    <3>1. m \in Nat /\ e \in [1 .. m -> T]
      BY <2>2, <2>5
    <3> HIDE DEF T
    <3>2. e \in Seq(T)
      BY <3>1
    <3> QED
      BY <3>2 DEF T
  <2> QED
    BY <2>2, <2>5, <2>6
<1> HIDE DEF n, m
<1>7. \A i \in 1 .. m : i < m => i + k \in 1 .. n /\ e[i] = queue[i + k] /\ e[i] <= heard /\ e[i] <= top
  BY <1>1, <1>3
<1>8. Rising(e)
  <2> SUFFICES ASSUME NEW i \in 1 .. m, NEW j \in 1 .. m, i <= j PROVE e[i] <= e[j]
    BY <1>6 DEF Rising
  <2>1. CASE i = j
    BY <1>6, <2>1
  <2>2. CASE i < j /\ j = m
    BY <1>3, <1>7, <2>2
  <2>3. CASE i < j /\ j < m
    <3>1. i + k \in 1 .. n /\ e[i] = queue[i + k] /\ j + k \in 1 .. n /\ e[j] = queue[j + k]
      BY <1>6, <1>7, <2>3
    <3>2. i + k <= j + k
      BY <1>4, <1>6, <2>3
    <3> QED
      BY <1>1, <1>5, <3>1, <3>2 DEF Rising
  <2> QED
    BY <1>6, <2>1, <2>2, <2>3
<1>9. Spread(e, feeds)
  <2> SUFFICES ASSUME NEW i \in 1 .. m, NEW j \in 1 .. m, i + feeds <= j PROVE e[i] < e[j]
    BY <1>6 DEF Spread
  <2>1. i < j
    BY <1>1
  <2>2. CASE j = m
    <3>1. i + k \in 1 .. n /\ e[i] = queue[i + k] /\ (i + k) + feeds <= n + 1
      BY <1>1, <1>3, <1>4, <1>7, <2>1, <2>2
    <3>2. queue[i + k] < top
      BY <1>1, <3>1 DEF n
    <3> QED
      BY <1>3, <2>2, <3>1, <3>2
  <2>3. CASE j < m
    <3>1. i + k \in 1 .. n /\ e[i] = queue[i + k] /\ j + k \in 1 .. n /\ e[j] = queue[j + k]
      BY <1>6, <1>7, <2>1, <2>3
    <3>2. (i + k) + feeds <= j + k
      BY <1>1, <1>4
    <3> QED
      BY <1>1, <1>5, <3>1, <3>2 DEF Spread
  <2> QED
    BY <1>6, <2>2, <2>3
<1>10. ASSUME NEW i \in 1 .. n PROVE queue[i] \in ToSet(e) \/ (k = 1 /\ i = 1)
  <2>1. CASE k = 0
    <3>1. i \in 1 .. m /\ e[i] = queue[i]
      BY <1>1, <1>3, <2>1
    <3> QED
      BY <1>6, <3>1 DEF ToSet
  <2>2. CASE k = 1 /\ i # 1
    <3> DEFINE j == i - 1
    <3>1. j \in 1 .. m /\ j < m /\ j + k = i
      BY <1>1, <1>3, <2>2
    <3> HIDE DEF j
    <3>2. e[j] = queue[i]
      BY <1>3, <3>1
    <3> QED
      BY <1>6, <3>1, <3>2 DEF ToSet
  <2> QED
    BY <1>4, <2>1, <2>2
<1>11. top \in ToSet(e)
  BY <1>3, <1>6 DEF ToSet
<1>12. \A h \in ToSet(queue) : h \in ToSet(e) \/ (k = 1 /\ h = queue[1])
  BY <1>1, <1>10 DEF ToSet
<1>13. 1 .. top \subseteq ToSet(queue)' \cup ToSet(batch)' \cup stored' \cup shed' \cup pushed'
  <2> SUFFICES ASSUME NEW h \in 1 .. top PROVE h \in ToSet(e) \cup kept \cup pushed'
    BY <1>2
  <2>1. CASE h = top
    BY <1>11, <2>1
  <2>2. CASE h \in 1 .. heard
    BY <1>2, <1>3, <1>12, <2>2 DEF StreamInv
  <2> QED
    BY <1>1, <2>1, <2>2
<1>14. kept \cup pushed' \subseteq 1 .. top
  BY <1>1, <1>2, <1>3 DEF StreamInv
<1>15. ASSUME NEW h \in pushed' \ (ToSet(e) \cup kept) PROVE QueueCap <= feeds * (top - h)
  <2>1. CASE h \in pushed /\ h \notin ToSet(queue)
    <3>1. QueueCap <= feeds * (heard - h) /\ h \in 1 .. heard
      BY <1>15, <2>1 DEF StreamInv
    <3>2. heard - h \in Nat /\ top - h \in {heard - h, (heard - h) + 1}
      BY <1>1, <3>1
    <3> DEFINE d == heard - h
               g == top - h
    <3>3. d \in Nat /\ g \in {d, d + 1} /\ QueueCap <= feeds * d
      BY <3>1, <3>2
    <3> HIDE DEF d, g
    <3>4. QueueCap <= feeds * g
      BY <1>1, <3>3, MoreNewer
    <3> QED
      BY <3>4 DEF g
  <2>2. CASE h \in ToSet(queue) \/ h \notin pushed
    <3>1. h \in ToSet(queue)
      <4>1. h \in pushed \/ (k = 1 /\ h = queue[1])
        BY <1>2, <1>3, <1>15
      <4>2. queue[1] \in ToSet(queue) \/ k # 1
        BY <1>1, <1>3 DEF ToSet
      <4> QED
        BY <2>2, <4>1, <4>2
    <3>2. k = 1 /\ h = queue[1] /\ h \in Nat /\ h \in 1 .. heard
      <4>1. k = 1 /\ h = queue[1]
        BY <1>12, <1>15, <3>1
      <4> QED
        BY <1>1, <1>3, <4>1
    <3>3. ASSUME NEW i \in 1 .. m PROVE h < e[i] /\ e[i] <= top
      <4>1. e[i] # h /\ e[i] \in Nat
        BY <1>6, <1>15 DEF ToSet
      <4>2. CASE i = m
        BY <1>1, <1>3, <3>2, <4>1, <4>2
      <4>3. CASE i < m
        <5>1. i + k \in 1 .. n /\ e[i] = queue[i + k] /\ e[i] <= top
          BY <1>7, <4>3
        <5>2. queue[1] <= queue[i + k]
          <6>1. 1 \in 1 .. n /\ 1 <= i + k
            BY <1>1, <5>1
          <6> QED
            BY <1>1, <1>5, <5>1, <6>1 DEF Rising
        <5> QED
          BY <3>2, <4>1, <5>1, <5>2
      <4> QED
        BY <1>6, <4>2, <4>3
    <3>4. m = QueueCap /\ m \in Nat \ {0}
      BY <1>1, <1>3, <1>4, <1>6, <3>2
    <3>5. m <= feeds * (top - h)
      BY <1>1, <1>6, <1>9, <3>2, <3>3, <3>4, SpreadOut
    <3> QED
      BY <3>4, <3>5
  <2> QED
    BY <2>1, <2>2
<1>16. FilesRest'
  BY DEF StreamInv, FilesRest, FileRests, fetchVars, pollVars, newsVars, metaVars
<1>17. Len(queue)' <= QueueCap /\ (queue' # <<>> => queue'[Len(queue')] = top)
  BY <1>2, <1>3 DEF m
<1> QED
  BY <1>1, <1>2, <1>6, <1>8, <1>9, <1>13, <1>14, <1>15, <1>16, <1>17 DEF StreamInv

\* The headlines that go to the scorer leave the rest of the queue as it was.
LEMMA FlushKeeps ==
  ASSUME StreamInv, _flush_loop, UNCHANGED <<newsVars, metaVars>>
  PROVE  StreamInv'
<1> DEFINE L == Len(queue)
           n == IF L < BatchSize THEN L ELSE BatchSize
           b == SubSeq(queue, 1, n)
           r == SubSeq(queue, n + 1, L)
           m == Len(r)
           S == 1 .. heard
<1>1. /\ batch = <<>> /\ queue # <<>> /\ batch' = b /\ queue' = r
      /\ UNCHANGED <<fetchVars, clock, pollVars, heard, stored, shed, pushed, feeds>>
  BY DEF _flush_loop
<1>2. /\ heard \in Nat /\ queue \in Seq(S) /\ L \in Nat /\ L <= QueueCap /\ DOMAIN queue = 1 .. L /\ L # 0
      /\ \A i \in 1 .. L : queue[i] \in S
  <2>1. heard \in Nat /\ queue \in Seq(S) /\ L <= QueueCap
    BY DEF StreamInv
  <2>2. queue # <<>>
    BY <1>1
  <2> HIDE DEF S
  <2> QED
    BY <2>1, <2>2
<1>3. n \in 1 .. L
  BY <1>2, PipelinesAssumption
<1>4. feeds \in Nat \ {0} /\ Rising(queue) /\ Spread(queue, feeds) /\ queue[L] = heard
  <2>1. StreamInv /\ queue # <<>>
    BY <1>1
  <2>2. queue[Len(queue)] = heard
    BY <2>1 DEF StreamInv
  <2>3. feeds \in Nat \ {0} /\ Rising(queue) /\ Spread(queue, feeds)
    BY <2>1 DEF StreamInv
  <2> QED
    BY <2>2, <2>3
<1> HIDE DEF L, n, S
<1>5. b \in Seq(S) /\ Len(b) = n /\ DOMAIN b = 1 .. n /\ \A i \in 1 .. n : b[i] = queue[i]
  <2>1. 1 \in Int /\ n \in Int /\ \A i \in 1 .. n : queue[i] \in S
    BY <1>2, <1>3
  <2>2. /\ b \in Seq(S) /\ Len(b) = (IF 1 <= n THEN n - 1 + 1 ELSE 0)
        /\ \A i \in 1 .. n - 1 + 1 : b[i] = queue[1 + i - 1]
    BY <2>1, SubSeqProperties
  <2> HIDE DEF b
  <2>3. Len(b) = n
    BY <1>2, <1>3, <2>2
  <2>4. \A i \in 1 .. n : i \in 1 .. n - 1 + 1 /\ 1 + i - 1 = i
    BY <1>2, <1>3
  <2> QED
    BY <2>2, <2>3, <2>4
<1>6. r \in Seq(S) /\ m = L - n /\ DOMAIN r = 1 .. m /\ \A i \in 1 .. m : n + i \in 1 .. L /\ r[i] = queue[n + i]
  <2>1. n + 1 \in Int /\ L \in Int /\ \A i \in n + 1 .. L : queue[i] \in S
    BY <1>2, <1>3
  <2>2. /\ r \in Seq(S) /\ Len(r) = (IF n + 1 <= L THEN L - (n + 1) + 1 ELSE 0)
        /\ \A i \in 1 .. L - (n + 1) + 1 : r[i] = queue[(n + 1) + i - 1]
    BY <2>1, SubSeqProperties
  <2> HIDE DEF r
  <2>3. m = L - n
    BY <1>2, <1>3, <2>2
  <2>4. \A i \in 1 .. m : i \in 1 .. L - (n + 1) + 1 /\ (n + 1) + i - 1 = n + i /\ n + i \in 1 .. L
    BY <1>2, <1>3, <2>3
  <2> QED
    BY <2>2, <2>3, <2>4
<1> HIDE DEF b, r, m
<1>7. m \in Nat /\ m <= QueueCap /\ (m # 0 => r[m] = heard)
  <2>1. m \in Nat /\ m <= L
    BY <1>2, <1>3, <1>6
  <2>2. m # 0 => m \in 1 .. m /\ n + m = L
    BY <1>2, <1>3, <1>6, <2>1
  <2>3. m <= QueueCap
    BY <1>2, <2>1, PipelinesAssumption
  <2> QED
    BY <1>4, <1>6, <2>1, <2>2, <2>3
<1>8. Rising(r) /\ Spread(r, feeds)
  <2> SUFFICES ASSUME NEW i \in 1 .. m, NEW j \in 1 .. m
               PROVE  (i <= j => r[i] <= r[j]) /\ (i + feeds <= j => r[i] < r[j])
    BY <1>6 DEF Rising, Spread
  <2>1. n + i \in DOMAIN queue /\ r[i] = queue[n + i] /\ n + j \in DOMAIN queue /\ r[j] = queue[n + j]
    BY <1>2, <1>6
  <2>2. (i <= j => n + i <= n + j) /\ (i + feeds <= j => (n + i) + feeds <= n + j)
    BY <1>2, <1>3, <1>4, <1>7
  <2> QED
    BY <1>4, <2>1, <2>2 DEF Rising, Spread
<1>9. ToSet(queue) = ToSet(b) \cup ToSet(r)
  <2>1. ASSUME NEW i \in 1 .. L PROVE queue[i] \in ToSet(b) \cup ToSet(r)
    <3>1. CASE i <= n
      <4>1. i \in 1 .. n
        BY <1>2, <3>1
      <4> QED
        BY <1>5, <4>1 DEF ToSet
    <3>2. CASE ~(i <= n)
      <4> DEFINE j == i - n
      <4>1. j \in 1 .. m /\ n + j = i
        BY <1>2, <1>3, <1>6, <3>2
      <4> HIDE DEF j
      <4>2. r[j] = queue[i]
        BY <1>6, <4>1
      <4> QED
        BY <1>6, <4>1, <4>2 DEF ToSet
    <3> QED
      BY <3>1, <3>2
  <2>2. \A i \in 1 .. n : i \in 1 .. L
    BY <1>2, <1>3
  <2>3. ToSet(queue) \subseteq ToSet(b) \cup ToSet(r)
    BY <1>2, <2>1 DEF ToSet
  <2>4. ToSet(b) \subseteq ToSet(queue)
    BY <1>2, <1>5, <2>2 DEF ToSet
  <2>5. ToSet(r) \subseteq ToSet(queue)
    BY <1>2, <1>6 DEF ToSet
  <2> QED
    BY <2>3, <2>4, <2>5
<1>10. ToSet(b) \subseteq S
  BY <1>5 DEF ToSet
<1>11. ToSet(batch) = {}
  BY <1>1 DEF ToSet
<1>12. FilesRest'
  BY <1>1 DEF StreamInv, FilesRest, FileRests, fetchVars, pollVars, newsVars, metaVars
<1>13. r \in Seq(1 .. heard) /\ (r # <<>> => r[Len(r)] = heard) /\ Len(r) <= QueueCap
  <2>1. r # <<>> => m # 0
    BY <1>6 DEF m
  <2> QED
    BY <1>6, <1>7, <2>1 DEF m, S
<1>14. ToSet(b) \cup stored \cup shed \cup pushed \subseteq 1 .. heard
  BY <1>10 DEF StreamInv, S
<1>15. 1 .. heard \subseteq ToSet(r) \cup ToSet(b) \cup stored \cup shed \cup pushed
  BY <1>9, <1>11 DEF StreamInv
<1>16. \A h \in pushed \ (ToSet(r) \cup ToSet(b) \cup stored \cup shed) : QueueCap <= feeds * (heard - h)
  BY <1>9, <1>11 DEF StreamInv
<1> QED
  BY <1>1, <1>2, <1>4, <1>8, <1>12, <1>13, <1>14, <1>15, <1>16 DEF StreamInv

\* A batch that leaves the scorer is stored or shed; one more loop may run.
LEMMA BatchLeaves ==
  ASSUME StreamInv, batch' = <<>>, stored \cup shed \cup ToSet(batch) = stored' \cup shed',
         feeds' \in {feeds, feeds + 1},
         UNCHANGED <<fetchVars, pollVars, heard, queue, pushed, newsVars, metaVars>>
  PROVE  StreamInv'
<1>1. ToSet(batch') = {}
  BY DEF ToSet
<1>2. FilesRest'
  BY DEF StreamInv, FilesRest, FileRests, fetchVars, pollVars, newsVars, metaVars
<1>3. heard \in Nat /\ feeds \in Nat \ {0} /\ pushed \subseteq 1 .. heard
  BY DEF StreamInv
<1>4. Spread(queue, feeds')
  <2> SUFFICES ASSUME NEW i \in DOMAIN queue, NEW j \in DOMAIN queue, i + feeds' <= j PROVE queue[i] < queue[j]
    BY DEF Spread
  <2>1. i + feeds <= j
    <3>1. i \in Nat /\ j \in Nat
      BY DEF StreamInv
    <3> QED
      BY <1>3, <3>1
  <2> QED
    BY <2>1 DEF StreamInv, Spread
<1>5. ASSUME NEW h \in pushed \ (ToSet(queue) \cup stored' \cup shed') PROVE QueueCap <= feeds' * (heard - h)
  <2> DEFINE d == heard - h
  <2>1. d \in Nat
    BY <1>3
  <2>2. QueueCap <= feeds * d
    BY <1>5 DEF StreamInv
  <2> HIDE DEF d
  <2>3. QueueCap <= feeds' * d
    BY <1>3, <2>1, <2>2, MoreNewer
  <2> QED
    BY <2>3 DEF d
<1>6. /\ ToSet(batch') \cup stored' \cup shed' \cup pushed \subseteq 1 .. heard
      /\ 1 .. heard \subseteq ToSet(queue) \cup ToSet(batch') \cup stored' \cup shed' \cup pushed
  BY <1>1 DEF StreamInv
<1> QED
  BY <1>1, <1>2, <1>3, <1>4, <1>5, <1>6 DEF StreamInv

\* The newest headline once more: fewer than feeds of it were in the queue.
LEMMA AgainKeeps ==
  ASSUME StreamInv, HeadlineAgain, UNCHANGED <<newsVars, metaVars>>
  PROVE  StreamInv'
<1> DEFINE L == Len(queue)
           same == {j \in DOMAIN queue : queue[j] = heard}
<1>1. /\ heard \in Nat /\ heard # 0 /\ L \in Nat /\ DOMAIN queue = 1 .. L /\ feeds \in Nat \ {0}
      /\ \A i \in 1 .. L : queue[i] \in 1 .. heard
      /\ Rising(queue)
  BY DEF HeadlineAgain, StreamInv
<1>2. ASSUME NEW i \in 1 .. L, i + feeds <= L + 1 PROVE queue[i] < heard
  <2> SUFFICES ASSUME queue[i] = heard PROVE FALSE
    BY <1>1
  <2>1. Cardinality(same) < feeds
    BY <1>1 DEF HeadlineAgain
  <2>2. i .. L \subseteq same
    <3> SUFFICES ASSUME NEW j \in i .. L PROVE j \in 1 .. L /\ queue[j] = heard
      BY <1>1
    <3>1. j \in 1 .. L /\ i <= j
      BY <1>1
    <3>2. queue[i] <= queue[j]
      BY <1>1, <3>1 DEF Rising
    <3> QED
      BY <1>1, <3>1, <3>2
  <2>3. IsFiniteSet(same)
    <3>1. IsFiniteSet(1 .. L) /\ same \in SUBSET (1 .. L)
      BY <1>1, FS_Interval
    <3> HIDE DEF same
    <3> QED
      BY <3>1, FS_Subset
  <2>4. Cardinality(i .. L) <= Cardinality(same) /\ Cardinality(same) \in Nat
    <3> HIDE DEF same
    <3> QED
      BY <2>2, <2>3, FS_Subset, FS_CardinalityType
  <2>5. Cardinality(i .. L) = L - i + 1
    <3>1. i \in Int /\ L \in Int /\ ~(i > L)
      BY <1>1
    <3> HIDE DEF L
    <3> QED
      BY <3>1, FS_Interval
  <2> HIDE DEF same, L
  <2> QED
    BY <1>1, <1>2, <2>1, <2>4, <2>5
<1> QED
  BY <1>1, <1>2, EnqueueKeeps DEF HeadlineAgain

LEMMA StreamNextKeeps == StreamInv /\ [StreamNext /\ UNCHANGED <<newsVars, metaVars>>]_historyVars => StreamInv'
<1> SUFFICES ASSUME StreamInv, [StreamNext /\ UNCHANGED <<newsVars, metaVars>>]_historyVars PROVE StreamInv'
  OBVIOUS
<1>1. CASE UNCHANGED historyVars
  BY <1>1 DEF StreamInv, FilesRest, FileRests, historyVars, fetchVars, pollVars, streamVars, newsVars, metaVars
<1> SUFFICES ASSUME StreamNext, UNCHANGED <<newsVars, metaVars>> PROVE StreamInv'
  BY <1>1
<1>2. CASE Headline
  <2>1. \A i \in DOMAIN queue : queue[i] < heard + 1
    BY DEF StreamInv
  <2>2. heard + 1 # 0
    BY DEF StreamInv
  <2> QED
    BY <1>2, <2>1, <2>2, EnqueueKeeps DEF Headline
<1>3. CASE score_batch
  <2>1. PICK some \in SUBSET ToSet(batch) : stored' = stored \cup some /\ shed' = shed \cup (ToSet(batch) \ some)
    BY <1>3 DEF score_batch
  <2>2. stored \cup shed \cup ToSet(batch) = stored' \cup shed'
    BY <2>1
  <2> QED
    BY <1>3, <2>2, BatchLeaves DEF score_batch
<1>4. CASE PersistFails
  <2>1. stored \cup shed \cup ToSet(batch) = stored' \cup shed'
    BY <1>4 DEF PersistFails
  <2> QED
    BY <1>4, <2>1, BatchLeaves DEF PersistFails
<1> QED
  BY <1>2, <1>3, <1>4, FlushKeeps, AgainKeeps DEF StreamNext

LEMMA StreamMeans == StreamInv => StreamKeepsNewest
<1> SUFFICES ASSUME StreamInv PROVE StreamKeepsNewest
  OBVIOUS
<1>1. \A h \in ToSet(batch) \cup stored \cup shed \cup pushed : queue # <<>> => h <= Last(queue)
  BY DEF StreamInv, Last
<1>2. \A i, j \in DOMAIN queue : i < j => queue[i] <= queue[j]
  BY DEF StreamInv, Rising
<1>3. ASSUME NEW h \in pushed \ (ToSet(queue) \cup ToSet(batch) \cup stored \cup shed)
      PROVE  h + QueueCap \div feeds <= heard
  <2> DEFINE d == heard - h
             a == QueueCap \div feeds
  <2>1. h \in Nat /\ heard \in Nat /\ d \in Nat /\ QueueCap <= feeds * d /\ feeds \in Nat \ {0} /\ QueueCap \in Nat
    BY PipelinesAssumption DEF StreamInv
  <2> HIDE DEF d
  <2>2. a \in Nat /\ a <= d
    BY <2>1, SharedOut
  <2> HIDE DEF a
  <2>3. h + a <= heard
    BY <2>1, <2>2 DEF d
  <2> QED
    BY <2>3 DEF a
<1> QED
  BY <1>1, <1>2, <1>3 DEF StreamKeepsNewest, StreamInv

LEMMA StreamingKeeps == StreamSpec => []HistoriesAreKept
<1>1. HistoryInit => StreamInv
  <2> SUFFICES ASSUME HistoryInit PROVE StreamInv
    OBVIOUS
  <2>1. /\ heard = 0 /\ queue = <<>> /\ batch = <<>> /\ stored = {} /\ shed = {} /\ pushed = {} /\ feeds = 1
        /\ FilesRest
    BY DEF HistoryInit, PipelinesInit, FetchInit, FilesRest, FileRests
  <2>2. ToSet(queue) = {} /\ ToSet(batch) = {} /\ DOMAIN queue = {} /\ Len(queue) = 0 /\ 1 .. heard = {}
    BY <2>1 DEF ToSet
  <2> QED
    BY <2>1, <2>2, PipelinesAssumption DEF StreamInv, Rising, Spread
<1>2. StreamInv /\ [StreamNext /\ UNCHANGED <<newsVars, metaVars>>]_historyVars => StreamInv'
  BY StreamNextKeeps
<1>3. StreamInv => HistoriesAreKept
  BY StreamMeans, RestingFile DEF StreamInv, FilesRest, HistoriesAreKept, PollPassesWhatItStored, NewsOfTheDay
<1> QED
  BY <1>1, <1>2, <1>3, PTL DEF StreamSpec

(***************************************************************************)
(* What the program keeps of the outside it keeps whole, whichever of its  *)
(* parts runs: the poller and the stream of headlines, the news files and  *)
(* the metadata file.                                                      *)
(***************************************************************************)
THEOREM HistoriesKept == HistorySpec => []HistoriesAreKept
BY PollingKeeps, StreamingKeeps, ShelvingKeeps, LoadingKeeps DEF HistorySpec
=============================================================================
