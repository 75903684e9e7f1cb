------------------------------ MODULE AIQueue ------------------------------
(***************************************************************************)
(* The durable AI work queue: services/ai_queue.py, the worker process of  *)
(* worker.py, and the request handlers of services/pipeline.py that feed   *)
(* the queue (create, reprocess, approve).                                 *)
(*                                                                         *)
(* Every action is one SQLite write transaction, one read in autocommit    *)
(* mode, or one provider call.  A write transaction is atomic because its  *)
(* first statement is an UPDATE or INSERT, which takes SQLite's single     *)
(* writer lock until commit (lock_complaint exists for that).  What the    *)
(* code reads or times BEFORE that first statement is a step of its own,   *)
(* and the transaction then runs with the possibly stale value.            *)
(***************************************************************************)
EXTENDS Naturals, FiniteSets

CONSTANTS
    Complaints,     \* complaint ids
    Keys,           \* request keys; "initial" is the one create uses
    JobIds,         \* rowids of ai_processing_jobs; bounds how many jobs exist
    Workers,        \* worker processes
    Releases,       \* what a process is started with (settings, catalog, code)
    RetrySeconds,   \* ai_queue_retry_seconds
    LeaseSeconds,   \* ai_queue_lease_seconds
    MaxRestarts     \* bound: worker crashes and restarts

(***************************************************************************)
(* A release fixes, for the life of a process: whether deferred AI is on,  *)
(* the provider/model pair, the catalog file, the text rules (redaction,   *)
(* which input_fingerprint hashes through), the attempts a new job gets,   *)
(* and the complaints whose text those rules flag as sensitive or urgent.  *)
(***************************************************************************)
ASSUME ReleasesAssumption ==
    \A r \in Releases :
        /\ r.deferred \in BOOLEAN
        /\ r.catalog \in Nat \ {0}
        /\ r.maxAttempts \in Nat \ {0}
        /\ r.sensitive \subseteq Complaints
ASSUME TimingAssumption ==
    /\ RetrySeconds \in Nat \ {0}
    /\ LeaseSeconds \in Nat \ {0}
\* The provers know nothing of exponentiation; TLC computes this for every run.
ASSUME BackoffAssumption ==
    \A r \in Releases : \A n \in 1..r.maxAttempts : RetrySeconds * 2^(n - 1) \in Nat \ {0}
ASSUME BoundsAssumption ==
    /\ JobIds \subseteq Nat \ {0}
    /\ MaxRestarts \in Nat
    /\ "initial" \in Keys

VARIABLES
    now,         \* the clock every process of the machine reads
    jobs,        \* ai_processing_jobs: rowid -> row
    requests,    \* ai_processing_requests: <<complaint, key>> -> rowid, 0 if none
    complaints,  \* the complaint projection the queue reads and writes
    current,     \* version of the last catalog import event, 0 before the first
    lapsed,      \* the current catalog's effective period is over
    webs,        \* releases of the web processes started so far
    workers,     \* local state of each worker process
    restarts,    \* worker restarts so far
    calls        \* history: provider calls made for each job

vars == <<now, jobs, requests, complaints, current, lapsed, webs, workers,
          restarts, calls>>

ACTIVE_STATES == {"queued", "processing"}
Terminal == {"completed", "failed"}

Retryable == {"provider_error", "processing_error", "lease_expired"}
ERROR_CODES == Retryable \cup
    {"catalog_changed", "configuration_changed", "input_changed",
     "human_review_superseded", "safety_review_required"}

NoClaim == [job |-> 0, token |-> 0, attempts |-> 0]

IdleWorker(r) ==
    [pc |-> "idle", release |-> r, at |-> 0, expired |-> {},
     claim |-> NoClaim, code |-> "none"]

(***************************************************************************)
(* Rows.  A NULL token or lease is 0.  uuid4 makes every claim's token     *)
(* fresh; so is the attempt number the claim consumes, which stands for    *)
(* it.  available_at of a finished row is never read again and is kept 0.  *)
(***************************************************************************)
JobRow(c, k, r) ==
    [complaint |-> c, key |-> k, state |-> "queued", attempts |-> 0,
     maxAttempts |-> r.maxAttempts, token |-> 0, lease |-> 0, avail |-> now,
     model |-> r.model, catalog |-> r.catalog, input |-> r.rules,
     error |-> "none"]

Finished(row, state, code) ==
    [row EXCEPT !.state = state, !.token = 0, !.lease = 0, !.avail = 0,
                !.error = code]

\* Mutant: the retry leaves the old token in the row.
Requeued_KeepsToken(row, at, attempts, code) ==
    [row EXCEPT !.state = "queued", !.lease = 0,
                !.avail = at + RetrySeconds * 2^(attempts - 1), !.error = code]

\* Mutant: the retry gives the whole budget back.
Requeued_ResetsAttempts(row, at, attempts, code) ==
    [row EXCEPT !.state = "queued", !.attempts = 0, !.token = 0, !.lease = 0,
                !.avail = at + RetrySeconds * 2^(attempts - 1), !.error = code]

Requeued(row, at, attempts, code) ==
    [row EXCEPT !.state = "queued", !.token = 0, !.lease = 0,
                !.avail = at + RetrySeconds * 2^(attempts - 1),
                !.error = code]

\* Mutant: a claim consumes no attempt.
Claimed_FreeAttempt(row, at) ==
    [row EXCEPT !.state = "processing", !.token = row.attempts + 1,
                !.lease = at + LeaseSeconds]

Claimed(row, at) ==
    [row EXCEPT !.state = "processing", !.attempts = row.attempts + 1,
                !.token = row.attempts + 1, !.lease = at + LeaseSeconds]

ActiveJobs(c) ==
    {j \in DOMAIN jobs : jobs[j].complaint = c /\ jobs[j].state \in ACTIVE_STATES}

Reviewed(c) == complaints[c].status = "reviewed"

\* require_human_review: an unreviewed complaint is parked with the officers.
RequireHumanReview(cs) ==
    [c \in Complaints |->
        IF c \in cs /\ ~Reviewed(c)
        THEN [complaints[c] EXCEPT !.status = "review"]
        ELSE complaints[c]]

\* ensure_current_catalog against the release's own catalog.
CatalogOk(r) == r.catalog = current /\ ~lapsed

(***************************************************************************)
(* Fail: the conditional UPDATE, decided with the attempt count read       *)
(* before the lock (claim.attempts) and the instant `at' read before it.   *)
(***************************************************************************)
\* Mutant: ownership forgets the token.
OwnsClaim_AnyToken(row, claim, at) ==
    row.state = "processing" /\ row.lease > at

OwnsClaim(row, claim, at) ==
    row.state = "processing" /\ row.token = claim.token /\ row.lease > at

LeaseRanOut(row, claim, at) ==
    row.state = "processing" /\ row.token = claim.token /\ row.lease <= at

\* Mutant: the retry ignores the attempt budget.
FailRow_Unbounded(row, claim, at, code) ==
    LET mine == IF code = "lease_expired" THEN LeaseRanOut(row, claim, at)
                                          ELSE OwnsClaim(row, claim, at)
    IN  IF ~mine THEN row
        ELSE IF code \in Retryable THEN Requeued(row, at, claim.attempts, code)
        ELSE Finished(row, "failed", code)

FailRow(row, claim, at, code) ==
    LET mine  == IF code = "lease_expired" THEN LeaseRanOut(row, claim, at)
                                           ELSE OwnsClaim(row, claim, at)
        retry == /\ code \in Retryable
                 /\ claim.attempts < row.maxAttempts
                 /\ ~Reviewed(row.complaint)
    IN  IF ~mine THEN row
        ELSE IF retry THEN Requeued(row, at, claim.attempts, code)
        ELSE Finished(row, "failed", code)

\* The transaction of fail: the row, and the complaint if the row changed.
Fail(claim, at, code) ==
    LET j   == claim.job
        row == FailRow(jobs[j], claim, at, code)
    IN  /\ jobs' = [jobs EXCEPT ![j] = row]
        /\ complaints' = RequireHumanReview(
               IF row = jobs[j] THEN {} ELSE {row.complaint})

-----------------------------------------------------------------------------
(***************************************************************************)
(* Web processes.                                                          *)
(***************************************************************************)
Init ==
    /\ now = 0
    /\ jobs = [j \in {} |-> 0]
    /\ requests = [ck \in Complaints \X Keys |-> 0]
    /\ complaints = [c \in Complaints |-> [status |-> "absent", by |-> "nobody"]]
    /\ current = 0
    /\ lapsed = FALSE
    /\ webs = {}
    /\ workers \in [Workers -> {IdleWorker(r) : r \in {q \in Releases : q.deferred}}]
    /\ restarts = 0
    /\ calls = [j \in JobIds |-> 0]

\* A web process starts: it imports its catalog, which must be the current
\* one or its direct successor, or the process does not come up.  A new
\* version invalidates every automatic route.
StartWeb(r) ==
    /\ r \notin webs
    /\ \/ /\ r.catalog = current /\ ~lapsed
          /\ UNCHANGED <<current, lapsed, complaints>>
       \/ /\ r.catalog = current + 1
          /\ current' = r.catalog
          /\ lapsed' = FALSE
          /\ complaints' = RequireHumanReview(
                 {c \in Complaints : complaints[c].status = "assigned"})
    /\ webs' = webs \cup {r}
    /\ UNCHANGED <<now, jobs, requests, workers, restarts, calls>>

\* The date passes effective_until of the current catalog.
CatalogLapses ==
    /\ current # 0 /\ ~lapsed
    /\ lapsed' = TRUE
    /\ UNCHANGED <<now, jobs, requests, complaints, current, webs, workers,
                   restarts, calls>>

\* Mutant: only the key is looked up, not the complaint's active job.
ExistingJobs_KeyOnly(c, k) ==
    IF requests[<<c, k>>] # 0 THEN {requests[<<c, k>>]}
    ELSE {j \in DOMAIN jobs : jobs[j].complaint = c /\ jobs[j].key = k}

\* Mutant: keys that joined a live job are not remembered once it has ended.
ExistingJobs_Forgets(c, k) ==
    {j \in DOMAIN jobs : jobs[j].complaint = c /\ jobs[j].key = k} \cup ActiveJobs(c)

\* existing_request: the job this key is bound to, else a job made with the
\* key or an active job of the complaint, newest first.
ExistingJobs(c, k) ==
    IF requests[<<c, k>>] # 0 THEN {requests[<<c, k>>]}
    ELSE {j \in DOMAIN jobs : jobs[j].complaint = c /\ jobs[j].key = k}
         \cup ActiveJobs(c)

NewJobId == Cardinality(DOMAIN jobs) + 1

Enqueue(r, c, k) ==
    /\ NewJobId \in JobIds \ DOMAIN jobs
    /\ jobs' = [j \in DOMAIN jobs \cup {NewJobId} |->
                   IF j = NewJobId THEN JobRow(c, k, r) ELSE jobs[j]]
    /\ requests' = [requests EXCEPT ![<<c, k>>] = NewJobId]

\* _enqueue_processing: local triage with forced review, which also clears an
\* earlier review, then a job unless the text is sensitive or the catalog is
\* not in force.
EnqueueProcessing(r, c, k) ==
    /\ complaints' = [complaints EXCEPT ![c] = [status |-> "review", by |-> "rules"]]
    /\ IF c \in r.sensitive \/ ~CatalogOk(r)
       THEN UNCHANGED <<jobs, requests>>
       ELSE Enqueue(r, c, k)

\* _process_existing in the web process, without a queue: an automatic route
\* needs a catalog in force and text that raises no review reason.
ProcessNow(r, c) ==
    /\ \E status \in {"review", "assigned"} :
          /\ status = "assigned" => CatalogOk(r) /\ c \notin r.sensitive
          /\ complaints' = [complaints EXCEPT ![c] = [status |-> status, by |-> "web"]]
    /\ UNCHANGED <<jobs, requests>>

Process(r, c, k) ==
    IF r.deferred THEN EnqueueProcessing(r, c, k) ELSE ProcessNow(r, c)

CreateAndProcess(r, c) ==
    /\ r \in webs
    /\ complaints[c].status = "absent"
    /\ Process(r, c, "initial")
    /\ UNCHANGED <<now, current, lapsed, webs, workers, restarts, calls>>

Reprocess(r, c, k) ==
    /\ r \in webs
    /\ complaints[c].status # "absent"
    /\ IF ExistingJobs(c, k) # {}
       THEN /\ \E newest \in ExistingJobs(c, k) :
                  /\ \A j \in ExistingJobs(c, k) : j <= newest
                  /\ requests' = [requests EXCEPT ![<<c, k>>] = newest]
            /\ UNCHANGED <<jobs, complaints>>
       ELSE Process(r, c, k)
    /\ UNCHANGED <<now, current, lapsed, webs, workers, restarts, calls>>

\* Mutant: an approval ends queued jobs and forgets running ones.
SupersedeForReview_QueuedOnly(c) ==
    [j \in DOMAIN jobs |->
        IF jobs[j].complaint = c /\ jobs[j].state = "queued"
        THEN Finished(jobs[j], "failed", "human_review_superseded")
        ELSE jobs[j]]

SupersedeForReview(c) ==
    [j \in DOMAIN jobs |->
        IF j \in ActiveJobs(c)
        THEN Finished(jobs[j], "failed", "human_review_superseded")
        ELSE jobs[j]]

Approve(r, c) ==
    /\ r \in webs
    /\ complaints[c].status # "absent"
    /\ CatalogOk(r)
    /\ jobs' = SupersedeForReview(c)
    /\ complaints' = [complaints EXCEPT ![c] = [status |-> "reviewed", by |-> "officer"]]
    /\ UNCHANGED <<now, requests, current, lapsed, webs, workers, restarts, calls>>

-----------------------------------------------------------------------------
(***************************************************************************)
(* Worker processes: run_once, step by step.                               *)
(***************************************************************************)
Claim(j) == [job |-> j, token |-> jobs[j].token, attempts |-> jobs[j].attempts]

\* Mutant: the scan for expired leases forgets to ask for running jobs.
Scan_AnyState(w) ==
    /\ workers[w].pc = "idle"
    /\ workers' = [workers EXCEPT
           ![w].pc = "scanned",
           ![w].at = now,
           ![w].expired = {Claim(j) : j \in {i \in DOMAIN jobs : jobs[i].lease <= now}}]
    /\ UNCHANGED <<now, jobs, requests, complaints, current, lapsed, webs,
                   restarts, calls>>

\* clock() and the SELECT of expired leases, before any lock.
Scan(w) ==
    /\ workers[w].pc = "idle"
    /\ workers' = [workers EXCEPT
           ![w].pc = "scanned",
           ![w].at = now,
           ![w].expired = {Claim(j) : j \in {i \in DOMAIN jobs :
                              jobs[i].state = "processing" /\ jobs[i].lease <= now}}]
    /\ UNCHANGED <<now, jobs, requests, complaints, current, lapsed, webs,
                   restarts, calls>>

\* The rows once every expired lease of the scan was failed.
Recovered(claims, at) ==
    [j \in DOMAIN jobs |->
        IF \E cl \in claims : cl.job = j
        THEN FailRow(jobs[j], CHOOSE cl \in claims : cl.job = j, at, "lease_expired")
        ELSE jobs[j]]

Ready(rows, at) ==
    {j \in DOMAIN rows : /\ rows[j].state = "queued"
                         /\ rows[j].avail <= at
                         /\ rows[j].attempts < rows[j].maxAttempts}

Before(rows, i, j) ==
    \/ rows[i].avail < rows[j].avail
    \/ rows[i].avail = rows[j].avail /\ i <= j

\* The one transaction of claim_next: recover, then claim the first ready job.
ClaimNext(w) ==
    LET at    == workers[w].at
        rows  == Recovered(workers[w].expired, at)
        ready == Ready(rows, at)
    IN  /\ workers[w].pc = "scanned"
        /\ complaints' = RequireHumanReview(
               {jobs[j].complaint : j \in {i \in DOMAIN jobs : rows[i] # jobs[i]}})
        /\ \/ /\ ready = {}
              /\ jobs' = rows
              /\ workers' = [workers EXCEPT ![w] = IdleWorker(@.release)]
           \/ \E j \in ready :
              /\ \A i \in ready : Before(rows, j, i)
              /\ jobs' = [rows EXCEPT ![j] = Claimed(@, at)]
              /\ workers' = [workers EXCEPT
                     ![w] = [IdleWorker(@.release) EXCEPT
                                !.pc = "claimed",
                                !.claim = [job |-> j, token |-> jobs'[j].token,
                                           attempts |-> jobs'[j].attempts]]]
        /\ UNCHANGED <<now, requests, current, lapsed, webs, restarts, calls>>

\* Mutant: the input fingerprint is not compared.
PreconditionError_AnyInput(r, row) ==
    IF Reviewed(row.complaint) THEN "human_review_superseded"
    ELSE IF r.model # row.model THEN "configuration_changed"
    ELSE IF r.catalog # row.catalog \/ ~CatalogOk(r) THEN "catalog_changed"
    ELSE IF row.complaint \in r.sensitive THEN "safety_review_required"
    ELSE "none"

\* _precondition_error, in the order the code asks.
PreconditionError(r, row) ==
    IF Reviewed(row.complaint) THEN "human_review_superseded"
    ELSE IF r.model # row.model THEN "configuration_changed"
    ELSE IF r.catalog # row.catalog \/ ~CatalogOk(r) THEN "catalog_changed"
    ELSE IF r.rules # row.input THEN "input_changed"
    ELSE IF row.complaint \in r.sensitive THEN "safety_review_required"
    ELSE "none"

Proceed(w, pc) == workers' = [workers EXCEPT ![w].pc = pc]

\* Leave for _fail_attempt: its clock and its read of the row precede its lock.
Falter(w, pc, code) ==
    workers' = [workers EXCEPT
        ![w].pc = pc, ![w].code = code, ![w].at = now,
        ![w].claim.attempts = jobs[workers[w].claim.job].attempts]

GoIdle(w) == workers' = [workers EXCEPT ![w] = IdleWorker(@.release)]

Owns(w) == OwnsClaim(jobs[workers[w].claim.job], workers[w].claim, now)

JobError(w) == PreconditionError(workers[w].release, jobs[workers[w].claim.job])

\* The check before the provider call, in a session that takes no lock.  A
\* claim no longer owned is discarded.
CheckClaim(w) ==
    /\ workers[w].pc = "claimed"
    /\ \/ /\ ~Owns(w)
          /\ GoIdle(w)
          /\ UNCHANGED calls
       \/ /\ Owns(w) /\ JobError(w) # "none"
          /\ Falter(w, "rejecting", JobError(w))
          /\ UNCHANGED calls
       \/ /\ Owns(w) /\ JobError(w) = "none"
          /\ Proceed(w, "calling")
          /\ calls' = [calls EXCEPT ![workers[w].claim.job] = @ + 1]
    /\ UNCHANGED <<now, jobs, requests, complaints, current, lapsed, webs, restarts>>

\* prepare_deferred returns, or raises ClassifierError.
ProviderReturns(w) ==
    /\ workers[w].pc = "calling"
    /\ Proceed(w, "prepared") \/ Falter(w, "failing", "provider_error")
    /\ UNCHANGED <<now, jobs, requests, complaints, current, lapsed, webs,
                   restarts, calls>>

\* apply_deferred: the provider's result, always with review forced.
ApplyDeferred(c) == [complaints EXCEPT ![c] = [status |-> "review", by |-> "worker"]]

\* The completion transaction: re-check under the lock, then the result, or
\* the refusal, and the terminal state commit together.
CompleteClaim(w) ==
    LET j == workers[w].claim.job
        c == jobs[j].complaint
    IN  /\ workers[w].pc = "prepared"
        /\ \/ /\ ~Owns(w)
              /\ UNCHANGED <<jobs, complaints>>
           \/ /\ Owns(w) /\ JobError(w) # "none"
              /\ Fail(workers[w].claim, now, JobError(w))
           \/ /\ Owns(w) /\ JobError(w) = "none"
              /\ jobs' = [jobs EXCEPT ![j] = Finished(@, "completed", "none")]
              /\ complaints' = ApplyDeferred(c)
        /\ GoIdle(w)
        /\ UNCHANGED <<now, requests, current, lapsed, webs, restarts, calls>>

\* Anything else raised in the try block (database is locked, a failed commit,
\* an unexpected provider error): its transaction rolls back.  Raised by the
\* rejection, it turns a final failure into a retryable one.
TryRaises(w) ==
    /\ workers[w].pc \in {"claimed", "rejecting", "calling", "prepared"}
    /\ Falter(w, "failing", "processing_error")
    /\ UNCHANGED <<now, jobs, requests, complaints, current, lapsed, webs,
                   restarts, calls>>

\* _fail_attempt, called from the try block ("rejecting") or from an except
\* clause ("failing").
FailAttempt(w) ==
    /\ workers[w].pc \in {"rejecting", "failing"}
    /\ Fail(workers[w].claim, workers[w].at, workers[w].code)
    /\ GoIdle(w)
    /\ UNCHANGED <<now, requests, current, lapsed, webs, restarts, calls>>

\* The process dies anywhere, or is stopped, and a new one comes up.
RestartWorker(w, r) ==
    /\ r.deferred
    /\ restarts < MaxRestarts
    /\ restarts' = restarts + 1
    /\ workers' = [workers EXCEPT ![w] = IdleWorker(r)]
    /\ UNCHANGED <<now, jobs, requests, complaints, current, lapsed, webs, calls>>

\* Time passes while some deadline lies ahead; after the last one the queue
\* cannot tell later from now.
Tick ==
    /\ \E j \in DOMAIN jobs :
          \/ jobs[j].state = "processing" /\ now < jobs[j].lease
          \/ jobs[j].state = "queued" /\ now < jobs[j].avail
    /\ now' = now + 1
    /\ UNCHANGED <<jobs, requests, complaints, current, lapsed, webs, workers,
                   restarts, calls>>

WorkerStep(w) ==
    \/ Scan(w)
    \/ ClaimNext(w)
    \/ CheckClaim(w)
    \/ ProviderReturns(w)
    \/ CompleteClaim(w)
    \/ TryRaises(w)
    \/ FailAttempt(w)

Request == \E r \in Releases, c \in Complaints, k \in Keys : Reprocess(r, c, k)

OtherStep ==
    \/ \E r \in Releases : StartWeb(r)
    \/ CatalogLapses
    \/ \E r \in Releases, c \in Complaints : CreateAndProcess(r, c)
    \/ \E r \in Releases, c \in Complaints : Approve(r, c)
    \/ \E w \in Workers : WorkerStep(w)
    \/ \E w \in Workers, r \in Releases : RestartWorker(w, r)
    \/ Tick

Next == Request \/ OtherStep

Spec == Init /\ [][Next]_vars

\* A worker in --watch mode keeps polling, provider calls return or time out
\* after 30 seconds, and the clock does not stop.
FairSpec ==
    /\ Spec
    /\ \A w \in Workers : WF_vars(WorkerStep(w))
    /\ WF_vars(Tick)

-----------------------------------------------------------------------------
(***************************************************************************)
(* Properties.                                                             *)
(***************************************************************************)
JobType ==
    [complaint : Complaints, key : Keys,
     state : ACTIVE_STATES \cup Terminal, attempts : Nat,
     maxAttempts : {r.maxAttempts : r \in Releases},
     token : Nat, lease : Nat, avail : Nat,
     model : {r.model : r \in Releases}, catalog : Nat,
     input : {r.rules : r \in Releases}, error : ERROR_CODES \cup {"none"}]

ClaimType == [job : JobIds, token : Nat \ {0}, attempts : Nat \ {0}]

WorkerType ==
    [pc : {"idle", "scanned", "claimed", "calling", "prepared", "rejecting", "failing"},
     release : Releases, at : Nat, expired : SUBSET ClaimType,
     claim : ClaimType \cup {NoClaim}, code : ERROR_CODES \cup {"none"}]

\* Every variable has the type its column or field has in the code.
TypeOK ==
    /\ now \in Nat
    /\ DOMAIN jobs \subseteq JobIds
    /\ jobs \in [DOMAIN jobs -> JobType]
    /\ requests \in [Complaints \X Keys -> DOMAIN jobs \cup {0}]
    /\ complaints \in [Complaints ->
          [status : {"absent", "review", "assigned", "reviewed"},
           by : {"nobody", "rules", "web", "worker", "officer"}]]
    /\ current \in Nat
    /\ lapsed \in BOOLEAN
    /\ webs \subseteq Releases
    /\ workers \in [Workers -> WorkerType]
    /\ \A w \in Workers :
          /\ workers[w].pc \notin {"idle", "scanned"} =>
                workers[w].claim \in ClaimType /\ workers[w].claim.job \in DOMAIN jobs
          /\ workers[w].pc \in {"rejecting", "failing"} => workers[w].code # "none"
          /\ \A cl \in workers[w].expired : cl.job \in DOMAIN jobs
    /\ restarts \in Nat
    /\ calls \in [JobIds -> Nat]

\* The unique active-complaint slot never fires: however requests, retries and
\* recoveries interleave, a complaint has at most one queued or running job.
OneActiveJob ==
    \A i, j \in DOMAIN jobs :
        /\ jobs[i].complaint = jobs[j].complaint
        /\ jobs[i].state \in ACTIVE_STATES /\ jobs[j].state \in ACTIVE_STATES
        => i = j

\* While AI work on a complaint is pending it is parked for human review: it is
\* neither routed automatically nor already decided by an officer.
ActiveJobParked ==
    \A j \in DOMAIN jobs :
        jobs[j].state \in ACTIVE_STATES => complaints[jobs[j].complaint].status = "review"

RowConsistent(row) ==
    /\ row.attempts <= row.maxAttempts
    /\ row.state = "queued" => row.attempts < row.maxAttempts
    /\ row.state = "processing" =>
          row.token = row.attempts /\ row.token # 0 /\ row.lease # 0
    /\ row.state # "processing" => row.token = 0 /\ row.lease = 0

\* A claim's token was issued for its job, and the attempt count read with it is
\* of that claim or a later one.
Issued(cl) == /\ cl.token <= cl.attempts
              /\ cl.attempts <= jobs[cl.job].attempts

\* The CHECK constraints on attempts, token and lease never fire; no job sits in
\* the queue with its attempts used up; and a worker or a scan holds only tokens
\* that were issued, so fail's attempt count, read before the lock, is right
\* whenever the token still matches.
ClaimsConsistent ==
    /\ \A j \in DOMAIN jobs : RowConsistent(jobs[j])
    /\ \A w \in Workers :
          /\ workers[w].pc \notin {"idle", "scanned"} => Issued(workers[w].claim)
          /\ \A cl \in workers[w].expired : Issued(cl)

\* Crashes and recoveries included, the provider is called at most once per
\* attempt consumed, so never more often than the job's budget allows.
CallsWithinBudget ==
    \A j \in DOMAIN jobs : calls[j] <= jobs[j].attempts

\* Fencing: a running job leaves "processing" only by the worker that holds its
\* current token, after its lease ran out, or because an officer decided.
Fenced ==
    \A j \in DOMAIN jobs :
        jobs[j].state = "processing" /\ jobs'[j] # jobs[j] =>
            \/ \E w \in Workers : /\ workers[w].claim.job = j
                                  /\ workers[w].claim.token = jobs[j].token
                                  /\ workers'[w].pc = "idle"
            \/ jobs[j].lease <= now
            \/ complaints'[jobs[j].complaint].status = "reviewed"
OnlyHolderEndsClaim == [][Fenced]_vars

\* A worker's result reaches a complaint only in the step that completes its
\* job, under the catalog in force, from the provider and text rules the job
\* was made for, and never over an officer's decision.
ResultIsCurrent ==
    \A c \in Complaints :
        complaints'[c].by = "worker" /\ complaints'[c] # complaints[c] =>
            /\ complaints[c] = [status |-> "review", by |-> "rules"]
            /\ \E j \in ActiveJobs(c), w \in Workers :
                  /\ jobs'[j].state = "completed"
                  /\ jobs[j].lease > now
                  /\ jobs[j].catalog = current /\ ~lapsed
                  /\ workers[w].claim.token = jobs[j].token
                  /\ workers[w].claim.job = j
                  /\ workers[w].release.model = jobs[j].model
                  /\ workers[w].release.rules = jobs[j].input
OnlyCurrentResults == [][ResultIsCurrent]_vars

\* Every accepted job ends, by success, failure or an officer's decision,
\* through crashes, expired leases and retries.
JobsFinish ==
    \A j \in JobIds :
        j \in DOMAIN jobs ~> j \in DOMAIN jobs /\ jobs[j].state \in Terminal

\* How far a row has come: claims and retries climb, an end is the top.
Progress(row) ==
    IF row.state = "queued" THEN 2 * row.attempts
    ELSE IF row.state = "processing" THEN 2 * row.attempts - 1
    ELSE 2 * row.maxAttempts + 1

\* No job goes round in circles: whoever changes a row, however stale what it
\* read, takes the job closer to its end, and a job of n attempts is changed at
\* most 2n + 1 times.  It is the part of JobsFinish that needs no fairness.
Advances ==
    \A j \in DOMAIN jobs :
        /\ j \in DOMAIN jobs'
        /\ Progress(jobs[j]) <= 2 * jobs[j].maxAttempts + 1
        /\ jobs'[j] # jobs[j] =>
              /\ jobs'[j].maxAttempts = jobs[j].maxAttempts
              /\ Progress(jobs[j]) < Progress(jobs'[j])
JobsAdvance == [][Advances]_vars

DueBy(row, at) ==
    /\ row.state = "processing" => row.lease <= at + LeaseSeconds
    /\ row.state = "queued" =>
          IF row.attempts = 0 THEN row.avail <= at
          ELSE row.avail <= at + RetrySeconds * 2^(row.attempts - 1)

\* No job is put off further than its lease or its retry delay from now, though
\* fail and claim_next write deadlines from instants read before their lock.
DeadlinesNear == \A j \in DOMAIN jobs : DueBy(jobs[j], now)

\* A request key that was answered names a job of its complaint, and a job is
\* named by the key it was made with: uq_ai_job_request never fires.
KeysNameJobs ==
    /\ \A c \in Complaints, k \in Keys :
          requests[<<c, k>>] # 0 => jobs[requests[<<c, k>>]].complaint = c
    /\ \A j \in DOMAIN jobs : requests[<<jobs[j].complaint, jobs[j].key>>] = j

\* A retry of an answered request finds the same job for ever, also where the key
\* had joined work begun under another one, and after that work has ended, was
\* superseded or was followed by new work: it starts nothing and undoes no decision.
SameAnswer == \A ck \in DOMAIN requests : requests[ck] # 0 => requests'[ck] = requests[ck]
AnswersStay == [][SameAnswer]_vars

-----------------------------------------------------------------------------
(* The abstract promise and the mapping that forgets time and processes. *)
Lifecycle == INSTANCE JobLifecycle WITH
    Budgets <- {r.maxAttempts : r \in Releases},
    job <- [j \in DOMAIN jobs |->
               [complaint |-> jobs[j].complaint, state |-> jobs[j].state,
                attempts |-> jobs[j].attempts, budget |-> jobs[j].maxAttempts]],
    decided <- {c \in Complaints : Reviewed(c)}

\* The queue implements its promise: every transaction of a handler or a worker
\* is one legal step of the job diagram of docs/ARCHITECTURE.md, or none.
ImplementsLifecycle == Lifecycle!Spec

\* One complaint as the gate sees it.
Gate(c) == INSTANCE ReviewGate WITH
    status <- complaints[c].status, pending <- ActiveJobs(c) # {}

\* Requests, retries, recoveries, catalogs and officers together keep the gate of
\* every complaint: no result and no failure moves it away from the officers, and
\* nothing but a request for triage undoes a decision.
KeepsGates ==
    /\ \A c \in Complaints : Gate(c)!Init
    /\ [][\A c \in Complaints : [Gate(c)!Next]_(Gate(c)!vars)]_vars
=============================================================================
