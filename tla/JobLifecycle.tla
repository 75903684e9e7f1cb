--------------------------- MODULE JobLifecycle ----------------------------
(***************************************************************************)
(* What the AI queue promises its users, without clocks, tokens, leases or *)
(* processes: the state diagram of docs/ARCHITECTURE.md, at most one live  *)
(* job per complaint, attempts spent one by one within the job's budget,   *)
(* results committed only for undecided complaints, and an officer's       *)
(* decision that ends all pending work and is reopened by request only.    *)
(***************************************************************************)
EXTENDS Naturals

CONSTANTS Complaints, JobIds,
          Budgets         \* the attempt budgets a job can be given

VARIABLES
    job,        \* id -> [complaint, state, attempts, budget]
    decided     \* complaints an officer decided and nobody reopened

Live(f, c) == {j \in DOMAIN f : f[j].complaint = c /\ f[j].state \in {"queued", "processing"}}

Init == job = [j \in {} |-> 0] /\ decided = {}

\* The moves of one job while workers run: claim, retry, complete, give up.
Move(old, new) ==
    /\ new.complaint = old.complaint /\ new.budget = old.budget
    /\ \/ /\ old.state = "queued" /\ new.state = "processing"
          /\ old.attempts < old.budget
          /\ new.attempts = old.attempts + 1
       \/ /\ old.state = "processing" /\ new.state = "queued"
          /\ old.attempts < old.budget
          /\ new.attempts = old.attempts
       \/ /\ old.state = "processing" /\ new.state \in {"completed", "failed"}
          /\ new.attempts = old.attempts

\* Workers move jobs of undecided complaints and decide nothing.
Work ==
    /\ DOMAIN job' = DOMAIN job
    /\ \A j \in DOMAIN job :
          job'[j] # job[j] => job[j].complaint \notin decided /\ Move(job[j], job'[j])
    /\ UNCHANGED decided

\* A new request on a complaint without live work reopens the complaint and may
\* start one job.
Request(c) ==
    /\ Live(job, c) = {}
    /\ decided' = decided \ {c}
    /\ \/ UNCHANGED job
       \/ \E id \in JobIds \ DOMAIN job, n \in Budgets :
             job' = [j \in DOMAIN job \cup {id} |->
                        IF j = id
                        THEN [complaint |-> c, state |-> "queued", attempts |-> 0,
                              budget |-> n]
                        ELSE job[j]]

\* An officer decides: pending work of the complaint fails in the same step.
Decide(c) ==
    /\ decided' = decided \cup {c}
    /\ job' = [j \in DOMAIN job |->
                  IF j \in Live(job, c) THEN [job[j] EXCEPT !.state = "failed"] ELSE job[j]]

Next == Work \/ \E c \in Complaints : Request(c) \/ Decide(c)

vars == <<job, decided>>
Spec == Init /\ [][Next]_vars
=============================================================================
