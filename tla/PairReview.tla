----------------------------- MODULE PairReview -----------------------------
(***************************************************************************)
(* What officers are promised about possible duplicates: for every ordered *)
(* pair of complaints a verdict that machines may only suggest or withdraw *)
(* and that an officer's decision takes out of their hands for good.       *)
(***************************************************************************)

CONSTANTS Complaints, Verdicts

VARIABLE verdict   \* pair -> "none", "suggested" or a member of Verdicts

Pairs == Complaints \X Complaints

Init == verdict = [p \in Pairs |-> "none"]

\* Triage of one complaint draws up its list of open suggestions anew.
Suggest(c) ==
    /\ verdict' \in [Pairs -> {"none", "suggested"} \cup Verdicts]
    /\ \A p \in Pairs :
          verdict'[p] # verdict[p] =>
             /\ p[1] = c /\ p[2] # c
             /\ {verdict[p], verdict'[p]} = {"none", "suggested"}

\* An officer decides, or decides again, one pair that is on the list.
Decide(p) ==
    /\ verdict[p] # "none"
    /\ \E v \in Verdicts : verdict' = [verdict EXCEPT ![p] = v]

Next == (\E c \in Complaints : Suggest(c)) \/ (\E p \in Pairs : Decide(p))

Spec == Init /\ [][Next]_verdict
=============================================================================
