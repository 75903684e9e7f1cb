------------------------ MODULE AIQueueBudgetProofs -------------------------
(***************************************************************************)
(* What the queue bounds: provider calls, work, waiting, and answers.      *)
(*                                                                         *)
(* Calls.  The provider is never called more often than a job's attempts   *)
(* allow.  The count alone is not inductive: two workers about to call for *)
(* one claim would overrun it.  They cannot exist, because every claim     *)
(* takes a token larger than all that were issued for its job              *)
(* (TokensDiffer), and a claim that is still current has an attempt in     *)
(* hand until its call (AttemptInHand).                                    *)
(*                                                                         *)
(* Work and waiting.  Every change of a row takes its job closer to its    *)
(* end, and no deadline lies further ahead than a lease or a retry delay:  *)
(* what JobsFinish needs besides fairness.                                 *)
(*                                                                         *)
(* Answers.  A request key names one job for ever.  A first request finds  *)
(* its key free because nothing is answered for an absent complaint        *)
(* (NoEarlyAnswer).                                                        *)
(***************************************************************************)
EXTENDS AIQueueProofs

Busy(w) == workers[w].pc \notin {"idle", "scanned"}

\* Rows that do not exist yet have had no calls.
NoEarlyCalls == \A j \in JobIds \ DOMAIN jobs : calls[j] = 0

\* A worker that may still call, on its job's latest claim, has a call left.
AttemptInHand ==
    \A w \in Workers :
        LET j == workers[w].claim.job
        IN  workers[w].pc = "claimed" /\ workers[w].claim.token = jobs[j].attempts
                => calls[j] < jobs[j].attempts

\* No two workers work under the same claim.
TokensDiffer ==
    \A v, w \in Workers :
        /\ Busy(v) /\ Busy(w)
        /\ workers[v].claim.job = workers[w].claim.job
        /\ workers[v].claim.token = workers[w].claim.token
        => v = w

Budget == CallsWithinBudget /\ NoEarlyCalls /\ AttemptInHand /\ TokensDiffer

-----------------------------------------------------------------------------
\* What the invariant of the queue says of the numbers compared here.
LEMMA Numbers ==
    ASSUME IInv
    PROVE  /\ DOMAIN jobs \subseteq JobIds
           /\ \A j \in DOMAIN jobs : jobs[j].attempts \in Nat
           /\ calls \in [JobIds -> Nat]
           /\ \A w \in Workers : Busy(w) =>
                 /\ workers[w].claim.job \in DOMAIN jobs
                 /\ workers[w].claim.token \in Nat
                 /\ workers[w].claim.token <= jobs[workers[w].claim.job].attempts
<1>1. RowsOK(jobs) /\ calls \in [JobIds -> Nat]
  BY Parts DEF IInv, TypeOK
<1>2. DOMAIN jobs \subseteq JobIds /\ \A j \in DOMAIN jobs : jobs[j].attempts \in Nat
  BY <1>1 DEF RowsOK, JobType
<1>3. ASSUME NEW w \in Workers, Busy(w)
      PROVE  /\ workers[w].claim.job \in DOMAIN jobs
             /\ workers[w].claim.token \in Nat
             /\ workers[w].claim.token <= jobs[workers[w].claim.job].attempts
  <2>1. ClaimOK(workers[w].claim, jobs)
    BY <1>3, WorkerFacts DEF Busy
  <2>2. /\ workers[w].claim.token \in Nat /\ workers[w].claim.attempts \in Nat
        /\ jobs[workers[w].claim.job].attempts \in Nat
    BY <1>2, <2>1 DEF ClaimOK, ClaimType
  <2> QED BY <2>1, <2>2 DEF ClaimOK
<1> QED BY <1>1, <1>2, <1>3

\* Rows stay, and no attempt is consumed; new rows may appear.
SameAttempts ==
    /\ DOMAIN jobs \subseteq DOMAIN jobs'
    /\ \A j \in DOMAIN jobs : jobs'[j].attempts = jobs[j].attempts

\* The worker ends its run, rests, or goes on under the same claim without
\* coming back to the check before the call.
GoesOn(w) ==
    \/ workers'[w].pc \in {"idle", "scanned"}
    \/ workers'[w] = workers[w]
    \/ /\ Busy(w) /\ workers'[w].pc # "claimed"
       /\ workers'[w].claim.job = workers[w].claim.job
       /\ workers'[w].claim.token = workers[w].claim.token

\* Steps that neither claim nor call keep the budget.
LEMMA QuietStep ==
    ASSUME IInv, IInv', Budget, SameAttempts, UNCHANGED calls, \A w \in Workers : GoesOn(w)
    PROVE  Budget'
<1>1. /\ \A j \in DOMAIN jobs : jobs[j].attempts \in Nat
      /\ \A j \in DOMAIN jobs' : jobs'[j].attempts \in Nat
      /\ DOMAIN jobs' \subseteq JobIds
  <2>1. TypeOK /\ TypeOK'
    BY DEF IInv
  <2> QED BY <2>1 DEF TypeOK, JobType
<1>2. CallsWithinBudget' /\ NoEarlyCalls'
  BY <1>1 DEF Budget, CallsWithinBudget, NoEarlyCalls, SameAttempts
<1>3. AttemptInHand'
  BY Numbers DEF Budget, AttemptInHand, GoesOn, SameAttempts, Busy
<1>4. TokensDiffer'
  BY DEF Budget, TokensDiffer, GoesOn, Busy
<1> QED BY <1>2, <1>3, <1>4 DEF Budget

\* fail's UPDATE spends no attempt.
LEMMA FailSameAttempts ==
    ASSUME IInv, NEW claim, ClaimOK(claim, jobs), NEW at \in Nat, NEW code \in ERROR_CODES,
           Fail(claim, at, code)
    PROVE  SameAttempts
<1> DEFINE j == claim.job
<1>1. RowsOK(jobs)
  BY Parts
<1>2. j \in DOMAIN jobs /\ jobs[j] \in JobType /\ RowConsistent(jobs[j])
  BY <1>1 DEF ClaimOK, RowsOK
<1>3. FailRow(jobs[j], claim, at, code).attempts = jobs[j].attempts
  BY <1>2, FailRowFacts DEF ClaimOK
<1>4. jobs' = [jobs EXCEPT ![j] = FailRow(jobs[j], claim, at, code)]
  BY DEF Fail
<1> QED BY <1>2, <1>3, <1>4 DEF SameAttempts

\* A worker that goes idle rests, and the others stay as they are.
LEMMA IdleGoesOn ==
    ASSUME IInv, NEW w \in Workers, GoIdle(w)
    PROVE  \A v \in Workers : GoesOn(v)
<1>1. workers \in [Workers -> WorkerType]
  BY Parts
<1> QED BY <1>1 DEF GoIdle, IdleWorker, GoesOn

\* Leaving for _fail_attempt keeps the claim's job and token.
LEMMA FalterGoesOn ==
    ASSUME IInv, NEW w \in Workers, Busy(w), NEW pc \in {"rejecting", "failing"}, NEW code,
           Falter(w, pc, code)
    PROVE  \A v \in Workers : GoesOn(v)
<1>1. workers \in [Workers -> WorkerType]
  BY Parts
<1>2. \A v \in Workers \ {w} : workers'[v] = workers[v]
  BY <1>1 DEF Falter
<1>3. workers[w] \in WorkerType /\ workers[w].claim \in ClaimType
  BY <1>1, WorkerFacts DEF Busy, ClaimOK
<1>4. /\ workers'[w].pc = pc
      /\ workers'[w].claim = [workers[w].claim EXCEPT
                                 !.attempts = jobs[workers[w].claim.job].attempts]
  BY <1>1, <1>3 DEF Falter, WorkerType
<1>5. workers'[w].claim.job = workers[w].claim.job /\ workers'[w].claim.token = workers[w].claim.token
  BY <1>3, <1>4 DEF ClaimType
<1> QED BY <1>2, <1>4, <1>5 DEF GoesOn

\* Going on to the call, or past it, keeps the claim.
LEMMA ProceedGoesOn ==
    ASSUME IInv, NEW w \in Workers, Busy(w), NEW pc \in {"calling", "prepared"}, Proceed(w, pc)
    PROVE  \A v \in Workers : GoesOn(v)
<1>1. workers \in [Workers -> WorkerType]
  BY Parts
<1>2. \A v \in Workers \ {w} : workers'[v] = workers[v]
  BY <1>1 DEF Proceed
<1>3. workers'[w].pc = pc /\ workers'[w].claim = workers[w].claim
  BY <1>1 DEF Proceed, WorkerType
<1> QED BY <1>2, <1>3 DEF GoesOn

\* A step that leaves rows, workers and calls alone keeps the budget.
LEMMA NothingMoves ==
    ASSUME Budget, UNCHANGED <<jobs, workers, calls>>
    PROVE  Budget'
BY DEF Budget, CallsWithinBudget, NoEarlyCalls, AttemptInHand, TokensDiffer, Busy

-----------------------------------------------------------------------------
(* The web processes. *)

\* An approval ends jobs and spends no attempt of theirs.
LEMMA ApproveBudget ==
    ASSUME IInv, IInv', Budget, NEW r \in Releases, NEW c \in Complaints, Approve(r, c)
    PROVE  Budget'
<1>1. RowsOK(jobs)
  BY Parts
<1>2. \A j \in DOMAIN jobs :
        Finished(jobs[j], "failed", "human_review_superseded").attempts = jobs[j].attempts
  BY <1>1, FinishedFacts DEF RowsOK, Terminal, ERROR_CODES
<1>3. SameAttempts
  BY <1>2 DEF Approve, SupersedeForReview, SameAttempts
<1> QED BY <1>3, QuietStep DEF Approve, GoesOn

\* Enqueueing adds one row and touches no other.
LEMMA ProcessBudget ==
    ASSUME IInv, IInv', Budget, NEW r \in Releases, NEW c \in Complaints, NEW k \in Keys,
           Process(r, c, k), UNCHANGED <<workers, calls>>
    PROVE  Budget'
<1>1. CASE UNCHANGED jobs
  BY <1>1, NothingMoves
<1>2. CASE Enqueue(r, c, k)
  <2>1. SameAttempts
    BY <1>2 DEF Enqueue, SameAttempts
  <2> QED BY <2>1, QuietStep DEF GoesOn
<1> QED BY <1>1, <1>2 DEF Process, EnqueueProcessing, ProcessNow

\* A request binds its key to a job or starts one.
LEMMA RequestBudget ==
    ASSUME IInv, IInv', Budget, NEW r \in Releases, NEW c \in Complaints, NEW k \in Keys,
           CreateAndProcess(r, c) \/ Reprocess(r, c, k)
    PROVE  Budget'
<1>1. "initial" \in Keys
  BY BoundsAssumption
<1>2. CASE CreateAndProcess(r, c)
  BY <1>1, <1>2, ProcessBudget DEF CreateAndProcess
<1>3. CASE Reprocess(r, c, k)
  <2>1. CASE ExistingJobs(c, k) # {}
    BY <1>3, <2>1, NothingMoves DEF Reprocess
  <2>2. CASE ExistingJobs(c, k) = {}
    BY <1>3, <2>2, ProcessBudget DEF Reprocess
  <2> QED BY <2>1, <2>2
<1> QED BY <1>2, <1>3

-----------------------------------------------------------------------------
(* The worker processes. *)

\* The scan and a restart leave a worker without a claim.
LEMMA ScanBudget ==
    ASSUME IInv, IInv', Budget, NEW w \in Workers,
           Scan(w) \/ \E r \in Releases : RestartWorker(w, r)
    PROVE  Budget'
<1>1. workers \in [Workers -> WorkerType]
  BY Parts
<1>2. CASE Scan(w)
  <2>1. \A v \in Workers : GoesOn(v)
    BY <1>1, <1>2 DEF Scan, GoesOn, WorkerType
  <2>2. SameAttempts /\ UNCHANGED calls
    BY <1>2 DEF Scan, SameAttempts
  <2> QED BY <2>1, <2>2, QuietStep
<1>3. CASE \E r \in Releases : RestartWorker(w, r)
  <2>1. \A v \in Workers : GoesOn(v)
    BY <1>1, <1>3 DEF RestartWorker, GoesOn, IdleWorker
  <2>2. SameAttempts /\ UNCHANGED calls
    BY <1>3 DEF RestartWorker, SameAttempts
  <2> QED BY <2>1, <2>2, QuietStep
<1> QED BY <1>2, <1>3

\* The provider's return, an exception, a failure or a completion makes no call.
LEMMA AttemptBudget ==
    ASSUME IInv, IInv', Budget, NEW w \in Workers,
           ProviderReturns(w) \/ TryRaises(w) \/ FailAttempt(w) \/ CompleteClaim(w)
    PROVE  Budget'
<1>1. RowsOK(jobs) /\ now \in Nat
  BY Parts
<1>2. CASE ProviderReturns(w)
  <2>1. Busy(w) /\ SameAttempts /\ UNCHANGED calls
    BY <1>2 DEF ProviderReturns, Busy, SameAttempts
  <2>2. \A v \in Workers : GoesOn(v)
    BY <1>2, <2>1, ProceedGoesOn, FalterGoesOn DEF ProviderReturns
  <2> QED BY <2>1, <2>2, QuietStep
<1>3. CASE TryRaises(w)
  <2>1. Busy(w) /\ SameAttempts /\ UNCHANGED calls
    BY <1>3 DEF TryRaises, Busy, SameAttempts
  <2>2. \A v \in Workers : GoesOn(v)
    BY <1>3, <2>1, FalterGoesOn DEF TryRaises
  <2> QED BY <2>1, <2>2, QuietStep
<1>4. CASE FailAttempt(w)
  <2>1. ClaimOK(workers[w].claim, jobs) /\ workers[w].at \in Nat /\ workers[w].code \in ERROR_CODES
    BY <1>4, WorkerFacts DEF FailAttempt
  <2>2. SameAttempts
    BY <1>4, <2>1, FailSameAttempts DEF FailAttempt
  <2>3. \A v \in Workers : GoesOn(v)
    BY <1>4, IdleGoesOn DEF FailAttempt
  <2> QED BY <1>4, <2>2, <2>3, QuietStep DEF FailAttempt
<1>5. CASE CompleteClaim(w)
  <2> DEFINE j == workers[w].claim.job
  <2>1. ClaimOK(workers[w].claim, jobs)
    BY <1>5, WorkerFacts DEF CompleteClaim
  <2>2. j \in DOMAIN jobs /\ jobs[j] \in JobType /\ RowConsistent(jobs[j])
    BY <1>1, <2>1 DEF ClaimOK, RowsOK
  <2>3. SameAttempts
    <3>1. CASE UNCHANGED jobs
      BY <3>1 DEF SameAttempts
    <3>2. CASE JobError(w) # "none" /\ Fail(workers[w].claim, now, JobError(w))
      <4>1. JobError(w) \in ERROR_CODES
        BY <3>2 DEF JobError, PreconditionError, ERROR_CODES
      <4> QED BY <1>1, <2>1, <3>2, <4>1, FailSameAttempts
    <3>3. CASE jobs' = [jobs EXCEPT ![j] = Finished(@, "completed", "none")]
      <4>1. Finished(jobs[j], "completed", "none").attempts = jobs[j].attempts
        BY <2>2, FinishedFacts DEF Terminal
      <4> QED BY <2>2, <3>3, <4>1 DEF SameAttempts
    <3> QED BY <1>5, <3>1, <3>2, <3>3 DEF CompleteClaim
  <2>4. \A v \in Workers : GoesOn(v)
    BY <1>5, IdleGoesOn DEF CompleteClaim
  <2> QED BY <1>5, <2>3, <2>4, QuietStep DEF CompleteClaim
<1> QED BY <1>2, <1>3, <1>4, <1>5

\* The call spends the attempt in hand: the worker owns the latest claim.
LEMMA CheckClaimBudget ==
    ASSUME IInv, IInv', Budget, NEW w \in Workers, CheckClaim(w)
    PROVE  Budget'
<1> DEFINE j == workers[w].claim.job
<1>1. Busy(w) /\ workers[w].pc = "claimed" /\ UNCHANGED jobs
  BY DEF CheckClaim, Busy
<1>2. CASE GoIdle(w) /\ UNCHANGED calls
  BY <1>1, <1>2, IdleGoesOn, QuietStep DEF SameAttempts
<1>3. CASE Falter(w, "rejecting", JobError(w)) /\ UNCHANGED calls
  BY <1>1, <1>3, FalterGoesOn, QuietStep DEF SameAttempts
<1>4. CASE Owns(w) /\ Proceed(w, "calling") /\ calls' = [calls EXCEPT ![j] = @ + 1]
  <2>1. /\ j \in DOMAIN jobs /\ j \in JobIds /\ jobs[j].attempts \in Nat
        /\ calls \in [JobIds -> Nat]
    BY <1>1, Numbers
  <2>2. workers[w].claim.token = jobs[j].attempts
    BY <1>4, <2>1 DEF Owns, OwnsClaim, IInv, ClaimsConsistent, RowConsistent
  <2>3. calls[j] < jobs[j].attempts
    BY <1>1, <2>2 DEF Budget, AttemptInHand
  <2>4. /\ calls'[j] = calls[j] + 1
        /\ \A i \in JobIds \ {j} : calls'[i] = calls[i]
    BY <1>4, <2>1
  <2>5. CallsWithinBudget' /\ NoEarlyCalls'
    BY <1>1, <2>1, <2>3, <2>4, Numbers DEF Budget, CallsWithinBudget, NoEarlyCalls
  <2>6. \A v \in Workers : GoesOn(v)
    BY <1>1, <1>4, ProceedGoesOn
  <2>7. TokensDiffer'
    BY <2>6 DEF Budget, TokensDiffer, GoesOn, Busy
  <2>8. AttemptInHand'
    <3> SUFFICES ASSUME NEW v \in Workers, workers'[v].pc = "claimed",
                        workers'[v].claim.token = jobs'[workers'[v].claim.job].attempts
                 PROVE  calls'[workers'[v].claim.job] < jobs'[workers'[v].claim.job].attempts
      BY DEF AttemptInHand
    <3>1. workers'[w].pc = "calling"
      BY <1>4, Parts DEF Proceed, WorkerType
    <3>2. v # w /\ workers'[v] = workers[v] /\ Busy(v)
      BY <2>6, <3>1 DEF GoesOn, Busy
    <3>3. workers[v].claim.job # j
      BY <1>1, <2>2, <3>2 DEF Budget, TokensDiffer
    <3>4. workers[v].claim.job \in JobIds
      BY <3>2, Numbers
    <3> QED BY <1>1, <2>4, <3>2, <3>3, <3>4 DEF Budget, AttemptInHand
  <2> QED BY <2>5, <2>7, <2>8 DEF Budget
<1> QED BY <1>2, <1>3, <1>4 DEF CheckClaim

\* Recovery spends no attempt.
LEMMA RecoveredAttempts ==
    ASSUME IInv, NEW w \in Workers
    PROVE  LET rows == Recovered(workers[w].expired, workers[w].at)
           IN  DOMAIN rows = DOMAIN jobs /\ \A j \in DOMAIN jobs : rows[j].attempts = jobs[j].attempts
<1> DEFINE at   == workers[w].at
           cls  == workers[w].expired
           rows == Recovered(cls, at)
<1>1. RowsOK(jobs) /\ at \in Nat /\ \A cl \in cls : ClaimOK(cl, jobs)
  BY Parts, WorkerFacts DEF WorkerOK
<1>2. ASSUME NEW j \in DOMAIN jobs PROVE rows[j].attempts = jobs[j].attempts
  <2>1. jobs[j] \in JobType /\ RowConsistent(jobs[j])
    BY <1>1 DEF RowsOK
  <2>2. CASE \E cl \in cls : cl.job = j
    <3>1. PICK cl \in cls : cl.job = j /\ rows[j] = FailRow(jobs[j], cl, at, "lease_expired")
      BY <2>2 DEF Recovered
    <3>2. cl \in ClaimType /\ cl.token <= cl.attempts /\ cl.attempts <= jobs[j].attempts
      BY <1>1, <3>1 DEF ClaimOK
    <3>3. "lease_expired" \in ERROR_CODES
      BY DEF ERROR_CODES, Retryable
    <3>4. FailRow(jobs[j], cl, at, "lease_expired").attempts = jobs[j].attempts
      BY <1>1, <2>1, <3>2, <3>3, FailRowFacts
    <3> QED BY <3>1, <3>4
  <2>3. CASE ~ \E cl \in cls : cl.job = j
    BY <2>3 DEF Recovered
  <2> QED BY <2>2, <2>3
<1> QED BY <1>2 DEF Recovered

\* A claim takes a token above all that were issued for its job.
LEMMA ClaimNextBudget ==
    ASSUME IInv, IInv', Budget, NEW w \in Workers, ClaimNext(w)
    PROVE  Budget'
<1>0. PICK rows : rows = Recovered(workers[w].expired, workers[w].at)
  OBVIOUS
<1>1. /\ DOMAIN rows = DOMAIN jobs /\ rows \in [DOMAIN jobs -> JobType]
      /\ \A j \in DOMAIN jobs : rows[j].attempts = jobs[j].attempts
  BY <1>0, RecoveredAttempts, RecoveredFacts DEF RowsOK
<1>2. CASE jobs' = rows /\ GoIdle(w)
  <2>1. SameAttempts /\ UNCHANGED calls
    BY <1>1, <1>2 DEF SameAttempts, ClaimNext
  <2> QED BY <1>2, <2>1, IdleGoesOn, QuietStep
<1>3. ASSUME NEW j \in DOMAIN jobs, NEW at,
             jobs' = [rows EXCEPT ![j] = Claimed(@, at)],
             workers' = [workers EXCEPT
                ![w] = [IdleWorker(@.release) EXCEPT
                           !.pc = "claimed",
                           !.claim = [job |-> j, token |-> jobs'[j].token,
                                      attempts |-> jobs'[j].attempts]]]
      PROVE  Budget'
  <2>1. /\ DOMAIN jobs' = DOMAIN jobs
        /\ jobs'[j].attempts = jobs[j].attempts + 1 /\ jobs'[j].token = jobs[j].attempts + 1
        /\ \A i \in DOMAIN jobs \ {j} : jobs'[i].attempts = jobs[i].attempts
    <3>1. rows[j] \in JobType
      BY <1>1
    <3>2. Claimed(rows[j], at).attempts = rows[j].attempts + 1
          /\ Claimed(rows[j], at).token = rows[j].attempts + 1
      BY <3>1 DEF Claimed, JobType
    <3> QED BY <1>1, <1>3, <3>2
  <2>2. /\ workers'[w].pc = "claimed" /\ workers'[w].claim.job = j
        /\ workers'[w].claim.token = jobs[j].attempts + 1
        /\ \A v \in Workers \ {w} : workers'[v] = workers[v]
    BY <1>3, <2>1, Parts DEF IdleWorker
  <2>3. /\ \A i \in DOMAIN jobs : jobs[i].attempts \in Nat /\ calls[i] \in Nat
        /\ DOMAIN jobs \subseteq JobIds
        /\ UNCHANGED calls
    BY Numbers DEF ClaimNext
  <2>4. CallsWithinBudget' /\ NoEarlyCalls'
    BY <2>1, <2>3 DEF Budget, CallsWithinBudget, NoEarlyCalls
  <2>5. \A v \in Workers : Busy(v) /\ workers[v].claim.job = j =>
            workers[v].claim.token # jobs[j].attempts + 1
    BY <2>3, Numbers
  <2>6. AttemptInHand'
    <3> SUFFICES ASSUME NEW v \in Workers, workers'[v].pc = "claimed",
                        workers'[v].claim.token = jobs'[workers'[v].claim.job].attempts
                 PROVE  calls'[workers'[v].claim.job] < jobs'[workers'[v].claim.job].attempts
      BY DEF AttemptInHand
    <3>1. CASE v = w
      BY <2>1, <2>2, <2>3, <3>1 DEF Budget, CallsWithinBudget
    <3>2. CASE v # w
      <4>1. workers'[v] = workers[v] /\ Busy(v) /\ workers[v].claim.job \in DOMAIN jobs
        BY <2>2, <3>2, Numbers DEF Busy
      <4>2. workers[v].claim.job # j
        BY <2>1, <2>5, <4>1
      <4> QED BY <2>1, <2>3, <4>1, <4>2 DEF Budget, AttemptInHand
    <3> QED BY <3>1, <3>2
  <2>7. TokensDiffer'
    <3> SUFFICES ASSUME NEW u \in Workers, NEW v \in Workers, Busy(u)', Busy(v)',
                        workers'[u].claim.job = workers'[v].claim.job,
                        workers'[u].claim.token = workers'[v].claim.token
                 PROVE  u = v
      BY DEF TokensDiffer
    <3>1. ASSUME NEW x \in Workers \ {w}, Busy(x)' PROVE Busy(x) /\ workers'[x] = workers[x]
      BY <2>2, <3>1 DEF Busy
    <3>2. CASE u = w \/ v = w
      BY <2>2, <2>5, <3>1, <3>2
    <3>3. CASE u # w /\ v # w
      BY <3>1, <3>3 DEF Budget, TokensDiffer
    <3> QED BY <3>2, <3>3
  <2> QED BY <2>4, <2>6, <2>7 DEF Budget
<1>4. \/ jobs' = rows /\ GoIdle(w)
      \/ \E j \in DOMAIN jobs :
            /\ jobs' = [rows EXCEPT ![j] = Claimed(@, workers[w].at)]
            /\ workers' = [workers EXCEPT
                  ![w] = [IdleWorker(@.release) EXCEPT
                             !.pc = "claimed",
                             !.claim = [job |-> j, token |-> jobs'[j].token,
                                        attempts |-> jobs'[j].attempts]]]
  BY <1>0, <1>1 DEF ClaimNext, GoIdle, Ready
<1> QED BY <1>2, <1>3, <1>4

-----------------------------------------------------------------------------
\* Every step of the queue keeps the budget.
LEMMA NextBudget == IInv /\ Budget /\ [Next]_vars => Budget'
<1> SUFFICES ASSUME IInv, Budget, [Next]_vars PROVE Budget'
  OBVIOUS
<1>1. IInv'
  BY NextInv
<1>2. CASE \/ \E r \in Releases : StartWeb(r)
           \/ CatalogLapses \/ Tick \/ UNCHANGED vars
  BY <1>2, NothingMoves DEF StartWeb, CatalogLapses, Tick, vars
<1>3. CASE \/ \E r \in Releases, c \in Complaints : CreateAndProcess(r, c)
           \/ Request
  BY <1>1, <1>3, RequestBudget, BoundsAssumption DEF Request
<1>4. CASE \E r \in Releases, c \in Complaints : Approve(r, c)
  BY <1>1, <1>4, ApproveBudget
<1>5. CASE \E w \in Workers : WorkerStep(w)
  BY <1>1, <1>5, ScanBudget, ClaimNextBudget, CheckClaimBudget, AttemptBudget DEF WorkerStep
<1>6. CASE \E w \in Workers, r \in Releases : RestartWorker(w, r)
  BY <1>1, <1>6, ScanBudget
<1> QED BY <1>2, <1>3, <1>4, <1>5, <1>6 DEF Next, OtherStep

\* Before any request there are no rows, no claims and no calls.
LEMMA InitBudget == Init => Budget
BY DEF Init, IdleWorker, Budget, CallsWithinBudget, NoEarlyCalls, AttemptInHand, TokensDiffer, Busy

\* Through crashes, stale scans, late failures and catalog changes, the provider
\* is called at most once per attempt a job consumed.
THEOREM ProviderBudget == Spec => []CallsWithinBudget
<1>1. Init => IInv /\ Budget
  BY InitInv, InitBudget
<1>2. IInv /\ Budget /\ [Next]_vars => IInv' /\ Budget'
  BY NextInv, NextBudget
<1>3. Budget => CallsWithinBudget
  BY DEF Budget
<1> QED BY <1>1, <1>2, <1>3, PTL DEF Spec
-----------------------------------------------------------------------------
(* Progress.                                                               *)

\* An officer's decision ends a live row and leaves the others.
Ends(old, new) ==
    /\ old.state \in ACTIVE_STATES /\ new.state \in Terminal
    /\ new.maxAttempts = old.maxAttempts

\* A row a worker moves, or an officer ends, climbs.
LEMMA MoveClimbs ==
    ASSUME NEW old \in JobType, RowConsistent(old), NEW new, Moves(old, new) \/ Ends(old, new)
    PROVE  new.maxAttempts = old.maxAttempts /\ Progress(old) < Progress(new)
<1>1. old.attempts \in Nat /\ old.maxAttempts \in Nat /\ old.attempts <= old.maxAttempts
  BY ReleasesAssumption DEF JobType, RowConsistent
<1>2. CASE Moves(old, new)
  BY <1>1, <1>2 DEF Moves, Progress, Terminal
<1>3. CASE Ends(old, new)
  BY <1>1, <1>3 DEF Ends, Progress, Terminal, ACTIVE_STATES, RowConsistent
<1> QED BY <1>2, <1>3

\* No row of the queue is beyond the top.
LEMMA Bounded ==
    ASSUME IInv
    PROVE  \A j \in DOMAIN jobs :
              /\ jobs[j] \in JobType /\ RowConsistent(jobs[j])
              /\ Progress(jobs[j]) <= 2 * jobs[j].maxAttempts + 1
<1>1. RowsOK(jobs)
  BY Parts
<1>2. \A j \in DOMAIN jobs : jobs[j] \in JobType /\ RowConsistent(jobs[j])
  BY <1>1 DEF RowsOK
<1>3. ASSUME NEW j \in DOMAIN jobs PROVE Progress(jobs[j]) <= 2 * jobs[j].maxAttempts + 1
  <2>1. /\ jobs[j].attempts \in Nat /\ jobs[j].maxAttempts \in Nat
        /\ jobs[j].attempts <= jobs[j].maxAttempts
    BY <1>2, ReleasesAssumption DEF JobType, RowConsistent
  <2> QED BY <2>1 DEF Progress
<1> QED BY <1>2, <1>3

\* Rows that stay or climb advance.
LEMMA ClimbingAdvances ==
    ASSUME IInv, DOMAIN jobs \subseteq DOMAIN jobs',
           \A j \in DOMAIN jobs :
              \/ jobs'[j] = jobs[j]
              \/ Moves(jobs[j], jobs'[j]) \/ Ends(jobs[j], jobs'[j])
    PROVE  Advances
<1>1. ASSUME NEW j \in DOMAIN jobs, jobs'[j] # jobs[j]
      PROVE  /\ jobs'[j].maxAttempts = jobs[j].maxAttempts
             /\ Progress(jobs[j]) < Progress(jobs'[j])
  <2>1. jobs[j] \in JobType /\ RowConsistent(jobs[j])
    BY Bounded
  <2> QED BY <1>1, <2>1, MoveClimbs
<1> QED BY <1>1, Bounded DEF Advances

\* A triage with a queue or without one adds a row at most.
LEMMA ProcessKeepsRows ==
    ASSUME NEW r \in Releases, NEW c \in Complaints, NEW k \in Keys, Process(r, c, k)
    PROVE  /\ DOMAIN jobs \subseteq DOMAIN jobs'
           /\ \A j \in DOMAIN jobs : jobs'[j] = jobs[j]
BY DEF Process, EnqueueProcessing, ProcessNow, Enqueue

\* Every step that changes a row takes its job further.
LEMMA NextAdvances == ASSUME IInv, [Next]_vars PROVE Advances
<1>1. CASE \E r \in Releases, c \in Complaints : CreateAndProcess(r, c)
  BY <1>1, ProcessKeepsRows, ClimbingAdvances, BoundsAssumption DEF CreateAndProcess
<1>2. CASE Request
  <2>1. /\ DOMAIN jobs \subseteq DOMAIN jobs'
        /\ \A j \in DOMAIN jobs : jobs'[j] = jobs[j]
    BY <1>2, ProcessKeepsRows DEF Request, Reprocess
  <2> QED BY <2>1, ClimbingAdvances
<1>3. ASSUME NEW r \in Releases, NEW c \in Complaints, Approve(r, c) PROVE Advances
  <2>1. DOMAIN jobs' = DOMAIN jobs
    BY <1>3 DEF Approve, SupersedeForReview
  <2>2. ASSUME NEW j \in DOMAIN jobs, jobs'[j] # jobs[j] PROVE Ends(jobs[j], jobs'[j])
    <3>1. /\ jobs[j].state \in ACTIVE_STATES
          /\ jobs'[j] = Finished(jobs[j], "failed", "human_review_superseded")
      BY <1>3, <2>2 DEF Approve, SupersedeForReview, ActiveJobs
    <3>2. jobs[j] \in JobType
      BY Bounded
    <3> QED BY <3>1, <3>2 DEF Finished, JobType, Ends, Terminal
  <2> QED BY <2>1, <2>2, ClimbingAdvances
<1>4. ASSUME NEW w \in Workers, WorkerStep(w) PROVE Advances
  <2>1. CASE Scan(w) \/ CheckClaim(w) \/ ProviderReturns(w) \/ TryRaises(w)
    BY <2>1, ClimbingAdvances DEF Scan, CheckClaim, ProviderReturns, TryRaises
  <2>2. CASE ClaimNext(w)
    BY <2>2, ClaimNextMoves, ClimbingAdvances
  <2>3. CASE CompleteClaim(w)
    BY <2>3, CompleteMoves, ClimbingAdvances
  <2>4. CASE FailAttempt(w)
    <3>1. /\ ClaimOK(workers[w].claim, jobs) /\ workers[w].at \in Nat
          /\ workers[w].code \in ERROR_CODES
      BY <2>4, WorkerFacts DEF FailAttempt
    <3> QED BY <2>4, <3>1, FailMoves, ClimbingAdvances DEF FailAttempt
  <2> QED BY <1>4, <2>1, <2>2, <2>3, <2>4 DEF WorkerStep
<1>5. CASE \/ \E r \in Releases : StartWeb(r)
           \/ CatalogLapses
           \/ \E w \in Workers, r \in Releases : RestartWorker(w, r)
           \/ Tick
           \/ UNCHANGED vars
  BY <1>5, ClimbingAdvances DEF StartWeb, CatalogLapses, RestartWorker, Tick, vars
<1> QED BY <1>1, <1>2, <1>3, <1>4, <1>5 DEF Next, OtherStep

\* Claims, retries, recoveries, stale failures and decisions: each takes the job
\* it changes closer to its end, so none is retried or passed round for ever.
THEOREM WorkAdvances == Spec => JobsAdvance
<1>1. IInv /\ [Next]_vars => [Advances]_vars
  BY NextAdvances
<1> QED BY <1>1, Invariant, PTL DEF Spec, JobsAdvance
-----------------------------------------------------------------------------
(* Deadlines.                                                              *)

\* The delay after the last attempt is a number whatever the release asks for.
LEMMA Delay ==
    ASSUME NEW row \in JobType, NEW n \in Nat \ {0}, n <= row.maxAttempts
    PROVE  RetrySeconds * 2^(n - 1) \in Nat
<1>1. PICK r \in Releases : row.maxAttempts = r.maxAttempts
  BY DEF JobType
<1>2. n \in 1..r.maxAttempts
  BY <1>1, ReleasesAssumption
<1> QED BY <1>1, <1>2, BackoffAssumption

\* What is due soon enough stays so while time passes.
LEMMA DueLater ==
    ASSUME NEW row \in JobType, RowConsistent(row), NEW at \in Nat, NEW later \in Nat,
           at <= later, DueBy(row, at)
    PROVE  DueBy(row, later)
<1>1. /\ row.attempts \in Nat /\ row.maxAttempts \in Nat /\ row.attempts <= row.maxAttempts
      /\ row.lease \in Nat /\ row.avail \in Nat
  BY ReleasesAssumption DEF JobType, RowConsistent
<1>2. CASE row.state = "queued" /\ row.attempts # 0
  <2>1. PICK wait \in Nat : wait = RetrySeconds * 2^(row.attempts - 1)
    BY <1>1, <1>2, Delay
  <2>2. row.avail <= at + wait
    BY <1>2, <2>1 DEF DueBy
  <2>3. row.avail <= later + wait
    BY <1>1, <2>1, <2>2
  <2> QED BY <1>2, <2>1, <2>3 DEF DueBy
<1>3. CASE ~(row.state = "queued" /\ row.attempts # 0)
  BY <1>1, <1>3, TimingAssumption DEF DueBy
<1> QED BY <1>2, <1>3

\* A row that waits for nothing is due.
LEMMA EndIsDue ==
    ASSUME NEW row, row.state \in Terminal, NEW at
    PROVE  DueBy(row, at)
BY DEF DueBy, Terminal

\* fail writes the retry delay of the attempt that failed.
LEMMA FailRowDue ==
    ASSUME NEW row \in JobType, RowConsistent(row), NEW claim \in ClaimType,
           claim.token <= claim.attempts, claim.attempts <= row.attempts,
           NEW at \in Nat, NEW code \in ERROR_CODES,
           NEW new, new = FailRow(row, claim, at, code), new # row
    PROVE  DueBy(new, at)
<1>1. row.state = "processing" /\ row.token = claim.token
  BY FailRowMoves
<1>2. row.attempts \in Nat /\ claim.attempts = row.attempts /\ claim.attempts # 0
  BY <1>1 DEF RowConsistent, ClaimType, JobType
<1>3. CASE new = Finished(row, "failed", code)
  <2>1. new.state = "failed"
    BY <1>3 DEF Finished, JobType
  <2> QED BY <2>1, EndIsDue DEF Terminal
<1>4. CASE new = Requeued(row, at, claim.attempts, code) /\ claim.attempts < row.maxAttempts
  <2>1. row.maxAttempts \in Nat
    BY ReleasesAssumption DEF JobType
  <2>2. PICK wait \in Nat : wait = RetrySeconds * 2^(claim.attempts - 1)
    BY <1>2, <1>4, <2>1, Delay
  <2>3. new.state = "queued" /\ new.attempts = row.attempts /\ new.avail = at + wait
    BY <1>4, <2>2 DEF Requeued, JobType
  <2> QED BY <1>2, <2>2, <2>3 DEF DueBy
<1> QED BY <1>3, <1>4 DEF FailRow

\* A step whose rows stay, or are written from an instant not of the future, puts
\* no job off.
LEMMA WrittenDue ==
    ASSUME IInv, IInv', DeadlinesNear, now <= now',
           \A j \in DOMAIN jobs' :
              \/ j \in DOMAIN jobs /\ jobs'[j] = jobs[j]
              \/ \E at \in Nat : at <= now' /\ DueBy(jobs'[j], at)
    PROVE  DeadlinesNear'
<1>1. /\ now \in Nat /\ now' \in Nat
      /\ \A j \in DOMAIN jobs' : jobs'[j] \in JobType /\ RowConsistent(jobs'[j])
  <2>1. TypeOK /\ TypeOK' /\ ClaimsConsistent'
    BY DEF IInv
  <2> QED BY <2>1 DEF TypeOK, ClaimsConsistent
<1>2. ASSUME NEW j \in DOMAIN jobs' PROVE DueBy(jobs'[j], now')
  <2>1. CASE j \in DOMAIN jobs /\ jobs'[j] = jobs[j]
    <3>1. DueBy(jobs'[j], now)
      BY <2>1 DEF DeadlinesNear
    <3> QED BY <1>1, <3>1, DueLater
  <2>2. CASE \E at \in Nat : at <= now' /\ DueBy(jobs'[j], at)
    BY <1>1, <2>2, DueLater
  <2> QED BY <1>2, <2>1, <2>2
<1> QED BY <1>2 DEF DeadlinesNear

\* The rows fail leaves, whoever calls it.
LEMMA FailDue ==
    ASSUME IInv, NEW claim, ClaimOK(claim, jobs), NEW at \in Nat, NEW code \in ERROR_CODES,
           Fail(claim, at, code)
    PROVE  /\ DOMAIN jobs' = DOMAIN jobs
           /\ \A j \in DOMAIN jobs : jobs'[j] = jobs[j] \/ DueBy(jobs'[j], at)
<1>1. PICK i, new : /\ i = claim.job /\ new = FailRow(jobs[i], claim, at, code)
                    /\ jobs' = [jobs EXCEPT ![i] = new]
  BY DEF Fail
<1>2. /\ claim \in ClaimType /\ claim.token <= claim.attempts /\ claim.attempts <= jobs[i].attempts
      /\ i \in DOMAIN jobs /\ jobs[i] \in JobType /\ RowConsistent(jobs[i])
  BY <1>1, Bounded DEF ClaimOK
<1>3. new = jobs[i] \/ DueBy(new, at)
  BY <1>1, <1>2, FailRowDue
<1> QED BY <1>1, <1>2, <1>3

\* The rows claim_next leaves: recovered ones wait, the claimed one is leased, both
\* from the instant of the scan.
LEMMA ClaimNextDue ==
    ASSUME IInv, NEW w \in Workers, ClaimNext(w)
    PROVE  /\ DOMAIN jobs' = DOMAIN jobs
           /\ \A j \in DOMAIN jobs : jobs'[j] = jobs[j] \/ DueBy(jobs'[j], workers[w].at)
<1>1. PICK rows, at : at = workers[w].at /\ rows = Recovered(workers[w].expired, at)
  OBVIOUS
<1>2. /\ DOMAIN rows = DOMAIN jobs /\ RowsOK(rows) /\ at \in Nat
      /\ \A cl \in workers[w].expired : ClaimOK(cl, jobs)
  BY <1>1, RecoveredFacts, WorkerFacts DEF WorkerOK
<1>3. ASSUME NEW j \in DOMAIN jobs, rows[j] # jobs[j] PROVE DueBy(rows[j], at)
  <2>1. PICK cl \in workers[w].expired :
            cl.job = j /\ rows[j] = FailRow(jobs[j], cl, at, "lease_expired")
    BY <1>1, <1>3 DEF Recovered
  <2>2. /\ cl \in ClaimType /\ cl.token <= cl.attempts /\ cl.attempts <= jobs[j].attempts
        /\ jobs[j] \in JobType /\ RowConsistent(jobs[j])
    BY <1>2, <2>1, Bounded DEF ClaimOK
  <2>3. "lease_expired" \in ERROR_CODES
    BY DEF ERROR_CODES, Retryable
  <2> QED BY <1>2, <1>3, <2>1, <2>2, <2>3, FailRowDue
<1>4. CASE jobs' = rows
  BY <1>1, <1>2, <1>3, <1>4
<1>5. ASSUME NEW i \in Ready(rows, at), jobs' = [rows EXCEPT ![i] = Claimed(@, at)]
      PROVE  /\ DOMAIN jobs' = DOMAIN jobs
             /\ \A j \in DOMAIN jobs : jobs'[j] = jobs[j] \/ DueBy(jobs'[j], at)
  <2>1. i \in DOMAIN rows /\ rows[i] \in JobType
    BY <1>2 DEF Ready, RowsOK
  <2>2. /\ Claimed(rows[i], at).state = "processing"
        /\ Claimed(rows[i], at).lease = at + LeaseSeconds
        /\ at + LeaseSeconds \in Nat
    BY <1>2, <2>1, ClaimedFacts, TimingAssumption
  <2>3. DueBy(Claimed(rows[i], at), at)
    BY <2>2 DEF DueBy
  <2> QED BY <1>2, <1>3, <1>5, <2>1, <2>3
<1> QED BY <1>1, <1>4, <1>5 DEF ClaimNext

\* Every step keeps the deadlines near.
LEMMA NextDue ==
    ASSUME IInv, IInv', HeldInstants, DeadlinesNear, [Next]_vars
    PROVE  DeadlinesNear'
<1>1. now \in Nat /\ now' \in Nat
  BY DEF IInv, TypeOK
<1>2. ASSUME NEW r \in Releases, NEW c \in Complaints, NEW k \in Keys, Process(r, c, k),
             UNCHANGED now
      PROVE  DeadlinesNear'
  <2>1. CASE UNCHANGED jobs
    BY <1>1, <1>2, <2>1, WrittenDue
  <2>2. CASE Enqueue(r, c, k)
    <3>1. DueBy(JobRow(c, k, r), now)
      BY <1>1 DEF DueBy, JobRow
    <3>2. \A j \in DOMAIN jobs' :
             \/ j \in DOMAIN jobs /\ jobs'[j] = jobs[j]
             \/ jobs'[j] = JobRow(c, k, r)
      BY <2>2 DEF Enqueue
    <3> QED BY <1>1, <1>2, <3>1, <3>2, WrittenDue
  <2> QED BY <1>2, <2>1, <2>2 DEF Process, EnqueueProcessing, ProcessNow
<1>3. CASE \/ \E r \in Releases, c \in Complaints : CreateAndProcess(r, c)
           \/ Request
  <2>1. CASE UNCHANGED <<jobs, now>>
    BY <1>1, <2>1, WrittenDue
  <2> QED BY <1>2, <1>3, <2>1, BoundsAssumption DEF CreateAndProcess, Request, Reprocess
<1>4. ASSUME NEW r \in Releases, NEW c \in Complaints, Approve(r, c) PROVE DeadlinesNear'
  <2>1. DOMAIN jobs' = DOMAIN jobs /\ UNCHANGED now
    BY <1>4 DEF Approve, SupersedeForReview
  <2>2. ASSUME NEW j \in DOMAIN jobs, jobs'[j] # jobs[j] PROVE DueBy(jobs'[j], now)
    <3>1. jobs'[j] = Finished(jobs[j], "failed", "human_review_superseded")
      BY <1>4, <2>2 DEF Approve, SupersedeForReview
    <3>2. jobs[j] \in JobType
      BY Bounded
    <3>3. jobs'[j].state = "failed"
      BY <3>1, <3>2 DEF Finished, JobType
    <3> QED BY <3>3, EndIsDue DEF Terminal
  <2> QED BY <1>1, <2>1, <2>2, WrittenDue
<1>5. ASSUME NEW w \in Workers, WorkerStep(w) PROVE DeadlinesNear'
  <2>1. workers[w].at \in Nat /\ workers[w].at <= now
    BY WorkerFacts DEF HeldInstants
  <2>2. CASE Scan(w) \/ CheckClaim(w) \/ ProviderReturns(w) \/ TryRaises(w)
    BY <1>1, <2>2, WrittenDue DEF Scan, CheckClaim, ProviderReturns, TryRaises
  <2>3. CASE ClaimNext(w)
    <3>1. UNCHANGED now
      BY <2>3 DEF ClaimNext
    <3> QED BY <1>1, <2>1, <2>3, <3>1, ClaimNextDue, WrittenDue
  <2>4. CASE FailAttempt(w)
    <3>1. /\ ClaimOK(workers[w].claim, jobs) /\ workers[w].code \in ERROR_CODES
          /\ Fail(workers[w].claim, workers[w].at, workers[w].code) /\ UNCHANGED now
      BY <2>4, WorkerFacts DEF FailAttempt
    <3> QED BY <1>1, <2>1, <3>1, FailDue, WrittenDue
  <2>5. CASE CompleteClaim(w)
    <3>1. ClaimOK(workers[w].claim, jobs) /\ UNCHANGED now
      BY <2>5, WorkerFacts DEF CompleteClaim
    <3>2. CASE UNCHANGED jobs
      BY <1>1, <3>1, <3>2, WrittenDue
    <3>3. CASE JobError(w) # "none" /\ Fail(workers[w].claim, now, JobError(w))
      <4>1. JobError(w) \in ERROR_CODES
        BY <3>3 DEF JobError, PreconditionError, ERROR_CODES
      <4> QED BY <1>1, <3>1, <3>3, <4>1, FailDue, WrittenDue
    <3>4. ASSUME NEW i, i = workers[w].claim.job,
                 jobs' = [jobs EXCEPT ![i] = Finished(@, "completed", "none")]
          PROVE  DeadlinesNear'
      <4>1. i \in DOMAIN jobs /\ jobs[i] \in JobType
        BY <3>1, <3>4, Bounded DEF ClaimOK
      <4>2. Finished(jobs[i], "completed", "none").state = "completed"
        BY <4>1 DEF Finished, JobType
      <4>3. DueBy(Finished(jobs[i], "completed", "none"), now)
        BY <4>2, EndIsDue DEF Terminal
      <4> QED BY <1>1, <3>1, <3>4, <4>1, <4>3, WrittenDue
    <3> QED BY <2>5, <3>2, <3>3, <3>4 DEF CompleteClaim
  <2> QED BY <1>5, <2>2, <2>3, <2>4, <2>5 DEF WorkerStep
<1>6. CASE Tick
  <2>1. UNCHANGED jobs /\ now <= now'
    BY <1>1, <1>6 DEF Tick
  <2> QED BY <2>1, WrittenDue
<1>7. CASE \/ \E r \in Releases : StartWeb(r)
           \/ CatalogLapses
           \/ \E w \in Workers, r \in Releases : RestartWorker(w, r)
           \/ UNCHANGED vars
  <2>1. UNCHANGED <<jobs, now>>
    BY <1>7 DEF StartWeb, CatalogLapses, RestartWorker, vars
  <2> QED BY <1>1, <2>1, WrittenDue
<1> QED BY <1>3, <1>4, <1>5, <1>6, <1>7 DEF Next, OtherStep

\* However late a failure or a recovery is written, no job is put off further
\* than its lease or its retry delay from the present.
THEOREM DeadlinesAreNear == Spec => []DeadlinesNear
<1>1. Init => HeldInstants /\ DeadlinesNear
  BY DEF Init, HeldInstants, IdleWorker, DeadlinesNear
<1>2. IInv /\ HeldInstants /\ [Next]_vars => HeldInstants'
  BY HeldStep, NextInv
<1>3. IInv /\ HeldInstants /\ DeadlinesNear /\ [Next]_vars => DeadlinesNear'
  BY NextDue, NextInv
<1> QED BY <1>1, <1>2, <1>3, Invariant, PTL DEF Spec
-----------------------------------------------------------------------------
(* Request keys.                                                           *)

\* A complaint nobody filed yet has answered no request.
NoEarlyAnswer ==
    \A c \in Complaints, k \in Keys :
        requests[<<c, k>>] # 0 => complaints[c].status # "absent"

KeysInv == KeysNameJobs /\ NoEarlyAnswer

\* No step takes a complaint, a row's owner or a row's key back.
KeepsNames ==
    /\ DOMAIN jobs \subseteq DOMAIN jobs'
    /\ \A j \in DOMAIN jobs :
          jobs'[j].complaint = jobs[j].complaint /\ jobs'[j].key = jobs[j].key
    /\ \A c \in Complaints : complaints[c].status # "absent" => complaints'[c].status # "absent"

\* A step that answers no request and starts no job keeps what keys name.
LEMMA QuietKeys ==
    ASSUME IInv, KeysInv, KeepsNames, DOMAIN jobs' = DOMAIN jobs, UNCHANGED requests
    PROVE  KeysInv' /\ SameAnswer
<1>1. requests \in [Complaints \X Keys -> DOMAIN jobs \cup {0}]
  BY DEF IInv, TypeOK
<1> QED BY <1>1 DEF KeysInv, KeysNameJobs, NoEarlyAnswer, KeepsNames, SameAnswer

\* Parking a complaint keeps it.
LEMMA ParkingKeeps ==
    ASSUME complaints \in ComplaintsType, NEW cs, complaints' = RequireHumanReview(cs)
    PROVE  \A c \in Complaints : complaints[c].status # "absent" => complaints'[c].status # "absent"
BY DEF RequireHumanReview, ComplaintsType

\* fail's UPDATE leaves the owner and the key of the row alone.
LEMMA FailRowNames ==
    ASSUME NEW row \in JobType, NEW claim, NEW at, NEW code
    PROVE  LET new == FailRow(row, claim, at, code)
           IN  new.complaint = row.complaint /\ new.key = row.key
BY DEF FailRow, Finished, Requeued, JobType

\* The transaction of fail.
LEMMA FailNames ==
    ASSUME IInv, NEW claim, claim.job \in DOMAIN jobs, NEW at, NEW code, Fail(claim, at, code)
    PROVE  KeepsNames /\ DOMAIN jobs' = DOMAIN jobs
<1>1. complaints \in ComplaintsType /\ jobs[claim.job] \in JobType
  BY Parts, Bounded
<1>2. \A c \in Complaints : complaints[c].status # "absent" => complaints'[c].status # "absent"
  BY <1>1, ParkingKeeps DEF Fail
<1>3. PICK i, new : /\ i = claim.job /\ new = FailRow(jobs[i], claim, at, code)
                    /\ jobs' = [jobs EXCEPT ![i] = new]
  BY DEF Fail
<1>4. new.complaint = jobs[i].complaint /\ new.key = jobs[i].key
  BY <1>1, <1>3, FailRowNames
<1> QED BY <1>2, <1>3, <1>4 DEF KeepsNames

\* The transaction of claim_next.
LEMMA ClaimNextNames ==
    ASSUME IInv, NEW w \in Workers, ClaimNext(w)
    PROVE  KeepsNames /\ DOMAIN jobs' = DOMAIN jobs
<1>1. PICK rows, at : at = workers[w].at /\ rows = Recovered(workers[w].expired, at)
  OBVIOUS
<1>2. DOMAIN rows = DOMAIN jobs /\ \A j \in DOMAIN jobs : rows[j] \in JobType
  BY <1>1, RecoveredFacts DEF RowsOK
<1>3. ASSUME NEW j \in DOMAIN jobs
      PROVE  rows[j].complaint = jobs[j].complaint /\ rows[j].key = jobs[j].key
  <2>1. jobs[j] \in JobType
    BY Bounded
  <2>2. rows[j] = jobs[j] \/ \E cl : rows[j] = FailRow(jobs[j], cl, at, "lease_expired")
    BY <1>1 DEF Recovered
  <2> QED BY <2>1, <2>2, FailRowNames
<1>4. \A j \in DOMAIN jobs :
          /\ Claimed(rows[j], at).complaint = jobs[j].complaint
          /\ Claimed(rows[j], at).key = jobs[j].key
  BY <1>2, <1>3 DEF Claimed, JobType
<1>5. jobs' = rows \/ \E i \in DOMAIN rows : jobs' = [rows EXCEPT ![i] = Claimed(@, at)]
  BY <1>1 DEF ClaimNext, Ready
<1>6. /\ DOMAIN jobs' = DOMAIN jobs
      /\ \A j \in DOMAIN jobs :
            jobs'[j].complaint = jobs[j].complaint /\ jobs'[j].key = jobs[j].key
  BY <1>2, <1>3, <1>4, <1>5
<1>7. \A c \in Complaints : complaints[c].status # "absent" => complaints'[c].status # "absent"
  BY Parts, ParkingKeeps DEF ClaimNext
<1> QED BY <1>6, <1>7 DEF KeepsNames

\* The completion ends its row; a result is only stored on a complaint.
LEMMA CompleteNames ==
    ASSUME IInv, NEW w \in Workers, CompleteClaim(w)
    PROVE  KeepsNames /\ DOMAIN jobs' = DOMAIN jobs
<1> DEFINE i == workers[w].claim.job
<1>1. i \in DOMAIN jobs /\ jobs[i] \in JobType /\ complaints \in ComplaintsType
  BY WorkerFacts, Bounded, Parts DEF CompleteClaim, ClaimOK
<1>2. CASE UNCHANGED <<jobs, complaints>>
  BY <1>2 DEF KeepsNames
<1>3. CASE Fail(workers[w].claim, now, JobError(w))
  BY <1>1, <1>3, FailNames
<1>4. CASE /\ jobs' = [jobs EXCEPT ![i] = Finished(@, "completed", "none")]
           /\ complaints' = ApplyDeferred(jobs[i].complaint)
  <2>1. /\ Finished(jobs[i], "completed", "none").complaint = jobs[i].complaint
        /\ Finished(jobs[i], "completed", "none").key = jobs[i].key
    BY <1>1 DEF Finished, JobType
  <2>2. \A c \in Complaints : complaints[c].status # "absent" => complaints'[c].status # "absent"
    BY <1>1, <1>4 DEF ApplyDeferred, ComplaintsType
  <2> QED BY <1>1, <1>4, <2>1, <2>2 DEF KeepsNames
<1> QED BY <1>2, <1>3, <1>4 DEF CompleteClaim

\* Enqueueing answers a key that had no answer, with a job that names it.
LEMMA ProcessKeys ==
    ASSUME IInv, KeysInv, NEW r \in Releases, NEW c \in Complaints, NEW k \in Keys,
           requests[<<c, k>>] = 0, Process(r, c, k)
    PROVE  KeysInv' /\ SameAnswer
<1>1. /\ requests \in [Complaints \X Keys -> DOMAIN jobs \cup {0}]
      /\ complaints \in ComplaintsType /\ DOMAIN jobs \subseteq JobIds
  BY Parts DEF IInv, TypeOK
<1>2. \A d \in Complaints :
         complaints'[d].status # "absent" \/ (d # c /\ complaints'[d] = complaints[d])
  BY <1>1 DEF Process, EnqueueProcessing, ProcessNow, ComplaintsType
<1>3. CASE UNCHANGED <<jobs, requests>>
  <2>1. KeepsNames
    BY <1>2, <1>3 DEF KeepsNames
  <2> QED BY <1>3, <2>1, QuietKeys
<1>4. CASE Enqueue(r, c, k)
  <2>1. PICK id : /\ id \in JobIds /\ id \notin DOMAIN jobs
                  /\ jobs' = [j \in DOMAIN jobs \cup {id} |->
                                 IF j = id THEN JobRow(c, k, r) ELSE jobs[j]]
                  /\ requests' = [requests EXCEPT ![<<c, k>>] = id]
    BY <1>4 DEF Enqueue
  <2>2. /\ DOMAIN jobs' = DOMAIN jobs \cup {id}
        /\ jobs'[id].complaint = c /\ jobs'[id].key = k
        /\ \A j \in DOMAIN jobs : jobs'[j] = jobs[j]
    BY <2>1 DEF JobRow
  <2>3. /\ requests'[<<c, k>>] = id
        /\ \A d \in Complaints, l \in Keys :
              <<d, l>> # <<c, k>> => requests'[<<d, l>>] = requests[<<d, l>>]
        /\ \A ck \in DOMAIN requests : ck # <<c, k>> => requests'[ck] = requests[ck]
    BY <1>1, <2>1
  <2>4. \A j \in DOMAIN jobs :
           /\ jobs[j].complaint \in Complaints /\ jobs[j].key \in Keys
           /\ <<jobs[j].complaint, jobs[j].key>> # <<c, k>>
    <3>1. \A j \in DOMAIN jobs : jobs[j].complaint \in Complaints /\ jobs[j].key \in Keys /\ j # 0
      BY <1>1, Bounded, BoundsAssumption DEF JobType
    <3> QED BY <3>1 DEF KeysInv, KeysNameJobs
  <2>5. \A j \in DOMAIN jobs' : requests'[<<jobs'[j].complaint, jobs'[j].key>>] = j
    BY <2>2, <2>3, <2>4 DEF KeysInv, KeysNameJobs
  <2>6. ASSUME NEW d \in Complaints, NEW l \in Keys, requests'[<<d, l>>] # 0
        PROVE  jobs'[requests'[<<d, l>>]].complaint = d
    <3>1. CASE <<d, l>> = <<c, k>>
      BY <2>2, <2>3, <3>1
    <3>2. CASE <<d, l>> # <<c, k>>
      <4>1. requests'[<<d, l>>] = requests[<<d, l>>] /\ requests[<<d, l>>] \in DOMAIN jobs
        BY <1>1, <2>3, <2>6, <3>2
      <4> QED BY <2>2, <2>6, <4>1 DEF KeysInv, KeysNameJobs
    <3> QED BY <3>1, <3>2
  <2>7. SameAnswer
    BY <2>3 DEF SameAnswer
  <2>8. NoEarlyAnswer'
    BY <1>2, <2>3 DEF KeysInv, NoEarlyAnswer
  <2> QED BY <2>5, <2>6, <2>7, <2>8 DEF KeysInv, KeysNameJobs
<1> QED BY <1>3, <1>4 DEF Process, EnqueueProcessing, ProcessNow

\* A repeated request is answered with the job its key names, or binds its key to
\* the pending job of its own complaint.
LEMMA ReprocessKeys ==
    ASSUME IInv, KeysInv, NEW r \in Releases, NEW c \in Complaints, NEW k \in Keys,
           Reprocess(r, c, k)
    PROVE  KeysInv' /\ SameAnswer
<1>1. requests \in [Complaints \X Keys -> DOMAIN jobs \cup {0}]
  BY DEF IInv, TypeOK
<1>2. CASE ExistingJobs(c, k) = {}
  <2>1. requests[<<c, k>>] = 0
    BY <1>2 DEF ExistingJobs
  <2> QED BY <1>2, <2>1, ProcessKeys DEF Reprocess
<1>3. CASE ExistingJobs(c, k) # {}
  <2>1. PICK newest \in ExistingJobs(c, k) : requests' = [requests EXCEPT ![<<c, k>>] = newest]
    BY <1>3 DEF Reprocess
  <2>2. UNCHANGED <<jobs, complaints>> /\ complaints[c].status # "absent"
    BY <1>3 DEF Reprocess
  <2>3. CASE requests[<<c, k>>] # 0
    <3>1. newest = requests[<<c, k>>]
      BY <2>1, <2>3 DEF ExistingJobs
    <3>2. UNCHANGED requests
      BY <1>1, <2>1, <3>1
    <3> QED BY <2>2, <3>2, QuietKeys DEF KeepsNames
  <2>4. CASE requests[<<c, k>>] = 0
    <3>1. newest \in DOMAIN jobs /\ jobs[newest].complaint = c
      BY <2>1, <2>4 DEF ExistingJobs, ActiveJobs
    <3>2. /\ requests'[<<c, k>>] = newest
          /\ \A d \in Complaints, l \in Keys :
                <<d, l>> # <<c, k>> => requests'[<<d, l>>] = requests[<<d, l>>]
          /\ \A ck \in DOMAIN requests : ck # <<c, k>> => requests'[ck] = requests[ck]
      BY <1>1, <2>1
    <3>3. \A j \in DOMAIN jobs :
             /\ jobs[j].complaint \in Complaints /\ jobs[j].key \in Keys
             /\ <<jobs[j].complaint, jobs[j].key>> # <<c, k>>
      <4>1. \A j \in DOMAIN jobs : jobs[j].complaint \in Complaints /\ jobs[j].key \in Keys /\ j # 0
        BY Bounded, Numbers, BoundsAssumption DEF JobType
      <4> QED BY <2>4, <4>1 DEF KeysInv, KeysNameJobs
    <3>4. \A j \in DOMAIN jobs : requests'[<<jobs[j].complaint, jobs[j].key>>] = j
      BY <3>2, <3>3 DEF KeysInv, KeysNameJobs
    <3>5. \A d \in Complaints, l \in Keys :
             requests'[<<d, l>>] # 0 => jobs[requests'[<<d, l>>]].complaint = d
      BY <3>1, <3>2 DEF KeysInv, KeysNameJobs
    <3>6. SameAnswer
      BY <2>4, <3>2 DEF SameAnswer
    <3>7. NoEarlyAnswer'
      BY <2>2, <3>2 DEF KeysInv, NoEarlyAnswer
    <3> QED BY <2>2, <3>4, <3>5, <3>6, <3>7 DEF KeysInv, KeysNameJobs
  <2> QED BY <2>3, <2>4
<1> QED BY <1>2, <1>3

\* Every step keeps what keys name, and every answer.
LEMMA NextKeys ==
    ASSUME IInv, KeysInv, [Next]_vars
    PROVE  KeysInv' /\ SameAnswer
<1>1. complaints \in ComplaintsType
  BY Parts
<1>2. ASSUME NEW r \in Releases, NEW c \in Complaints, CreateAndProcess(r, c)
      PROVE  KeysInv' /\ SameAnswer
  <2>1. requests[<<c, "initial">>] = 0
    BY <1>2, BoundsAssumption DEF CreateAndProcess, KeysInv, NoEarlyAnswer
  <2> QED BY <1>2, <2>1, ProcessKeys, BoundsAssumption DEF CreateAndProcess
<1>3. CASE Request
  BY <1>3, ReprocessKeys DEF Request
<1>4. ASSUME NEW r \in Releases, NEW c \in Complaints, Approve(r, c)
      PROVE  KeysInv' /\ SameAnswer
  <2>1. /\ DOMAIN jobs' = DOMAIN jobs /\ UNCHANGED requests
        /\ \A d \in Complaints : complaints[d].status # "absent" => complaints'[d].status # "absent"
    BY <1>1, <1>4 DEF Approve, SupersedeForReview, ComplaintsType
  <2>2. \A j \in DOMAIN jobs :
           \/ jobs'[j] = jobs[j]
           \/ jobs'[j] = Finished(jobs[j], "failed", "human_review_superseded")
    BY <1>4 DEF Approve, SupersedeForReview
  <2>3. \A j \in DOMAIN jobs :
           jobs'[j].complaint = jobs[j].complaint /\ jobs'[j].key = jobs[j].key
    BY <2>2, Bounded DEF Finished, JobType
  <2> QED BY <2>1, <2>3, QuietKeys DEF KeepsNames
<1>5. ASSUME NEW w \in Workers, WorkerStep(w) PROVE KeysInv' /\ SameAnswer
  <2>1. CASE Scan(w) \/ CheckClaim(w) \/ ProviderReturns(w) \/ TryRaises(w)
    <3>1. UNCHANGED <<jobs, requests, complaints>>
      BY <2>1 DEF Scan, CheckClaim, ProviderReturns, TryRaises
    <3> QED BY <3>1, QuietKeys DEF KeepsNames
  <2>2. CASE ClaimNext(w)
    BY <2>2, ClaimNextNames, QuietKeys DEF ClaimNext
  <2>3. CASE CompleteClaim(w)
    BY <2>3, CompleteNames, QuietKeys DEF CompleteClaim
  <2>4. CASE FailAttempt(w)
    <3>1. workers[w].claim.job \in DOMAIN jobs
      BY <2>4, WorkerFacts DEF FailAttempt, ClaimOK
    <3> QED BY <2>4, <3>1, FailNames, QuietKeys DEF FailAttempt
  <2> QED BY <1>5, <2>1, <2>2, <2>3, <2>4 DEF WorkerStep
<1>6. CASE \E r \in Releases : StartWeb(r)
  <2>1. UNCHANGED <<jobs, requests>>
    BY <1>6 DEF StartWeb
  <2>2. \A c \in Complaints : complaints[c].status # "absent" => complaints'[c].status # "absent"
    BY <1>1, <1>6, ParkingKeeps DEF StartWeb
  <2> QED BY <2>1, <2>2, QuietKeys DEF KeepsNames
<1>7. CASE \/ CatalogLapses
           \/ \E w \in Workers, r \in Releases : RestartWorker(w, r)
           \/ Tick
           \/ UNCHANGED vars
  <2>1. UNCHANGED <<jobs, requests, complaints>>
    BY <1>7 DEF CatalogLapses, RestartWorker, Tick, vars
  <2> QED BY <2>1, QuietKeys DEF KeepsNames
<1> QED BY <1>2, <1>3, <1>4, <1>5, <1>6, <1>7 DEF Next, OtherStep

\* Before any request no key has an answer.
LEMMA InitKeys == Init => KeysInv
BY DEF Init, KeysInv, KeysNameJobs, NoEarlyAnswer

\* The request table agrees with the rows: no two jobs of a complaint share a key.
THEOREM KeysNameTheirJobs == Spec => []KeysNameJobs
<1>1. IInv /\ KeysInv /\ [Next]_vars => KeysInv'
  BY NextKeys
<1>2. KeysInv => KeysNameJobs
  BY DEF KeysInv
<1> QED BY <1>1, <1>2, Invariant, InitKeys, PTL DEF Spec

\* A client that repeats its request key is answered with the same job for ever.
THEOREM AnswersAreFinal == Spec => AnswersStay
<1>1. IInv /\ KeysInv /\ [Next]_vars => KeysInv'
  BY NextKeys
<1>2. IInv /\ KeysInv /\ [Next]_vars => [SameAnswer]_vars
  BY NextKeys
<1> QED BY <1>1, <1>2, Invariant, InitKeys, PTL DEF Spec, AnswersStay
=============================================================================
