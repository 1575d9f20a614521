------------------------ MODULE DecisionLifecycle ------------------------
(* What the shadow tables promise about each decision: it is logged once,   *)
(* then perhaps gets the order row that prices it, then perhaps gets one    *)
(* outcome, and nothing of this is ever undone. Decisions may move together *)
(* and at any time.                                                         *)
CONSTANTS Decisions, Outcomes

VARIABLE stage

Unlogged == [is |-> "unlogged"]
Logged == [is |-> "logged"]
Priced == [is |-> "priced"]
Attributed(o) == [is |-> "attributed", outcome |-> o]

Init == stage = [i \in Decisions |-> Unlogged]

(* The row of a decision and its order row appear in one step of the caller, *)
(* or the order row never appears.                                          *)
Log(i) ==
    /\ stage[i] = Unlogged
    /\ \E s \in {Logged, Priced} : stage' = [stage EXCEPT ![i] = s]

Attribute(S) ==
    /\ \A i \in S : stage[i] = Priced
    /\ \E result \in [S -> Outcomes] :
        stage' = [i \in Decisions |->
                     IF i \in S THEN Attributed(result[i]) ELSE stage[i]]

Next ==
    \/ \E i \in Decisions : Log(i)
    \/ \E S \in SUBSET Decisions : Attribute(S)

Spec == Init /\ [][Next]_stage
=============================================================================
