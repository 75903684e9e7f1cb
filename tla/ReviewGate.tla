----------------------------- MODULE ReviewGate -----------------------------
(***************************************************************************)
(* What the service promises about one complaint, whoever handles it: AI   *)
(* work waits behind a person, its result never routes, only a request for *)
(* triage clears an officer's decision, and a decision ends pending work.  *)
(* AIQueue (for each of its complaints) and Triage both implement it: what *)
(* is added to either must keep one promise.                               *)
(***************************************************************************)

VARIABLES
    status,     \* "absent", "review", "assigned" or "reviewed"
    pending     \* AI work on the complaint is queued or running

vars == <<status, pending>>

Init == status \in {"absent", "review"} /\ pending = FALSE

\* A request for triage, while nothing is pending: decided at once, or parked
\* for an officer with AI work to follow.
Request ==
    /\ ~pending
    /\ status' \in {"review", "assigned"}
    /\ pending' \in BOOLEAN
    /\ pending' => status' = "review"

\* The work ends, with a result or without: the complaint stays with officers.
Finish ==
    /\ pending /\ status = "review"
    /\ pending' = FALSE
    /\ UNCHANGED status

\* An officer decides.
Decide ==
    /\ status # "absent"
    /\ status' = "reviewed"
    /\ pending' = FALSE

\* A new catalog takes an automatic route back.
Recall ==
    /\ status = "assigned"
    /\ status' = "review"
    /\ UNCHANGED pending

Next == Request \/ Finish \/ Decide \/ Recall

Spec == Init /\ [][Next]_vars
=============================================================================
