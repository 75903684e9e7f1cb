--------------------------- MODULE AIQueueProofs ---------------------------
(***************************************************************************)
(* The AI queue's invariants, proved for every number of complaints, keys, *)
(* workers, releases, jobs and restarts.                                   *)
(***************************************************************************)
EXTENDS AIQueue, TLAPS

\* The inductive invariant: each part needs the others.
IInv == TypeOK /\ ClaimsConsistent /\ OneActiveJob /\ ActiveJobParked

-----------------------------------------------------------------------------
(* Facts about one row. *)

\* A finished row is consistent and keeps its owner and its attempt count.
LEMMA FinishedFacts ==
    ASSUME NEW row \in JobType, RowConsistent(row),
           NEW state \in Terminal, NEW code \in ERROR_CODES \cup {"none"}
    PROVE  LET done == Finished(row, state, code)
           IN  /\ done \in JobType /\ RowConsistent(done)
               /\ done.complaint = row.complaint /\ done.attempts = row.attempts
               /\ done.state = state
<1>1. row.maxAttempts \in Nat /\ row.attempts \in Nat
  BY ReleasesAssumption DEF JobType
<1> QED BY <1>1 DEF JobType, Finished, Terminal, ERROR_CODES, RowConsistent

\* A claim sets the row running and takes the next attempt number as its token.
LEMMA ClaimedFacts ==
    ASSUME NEW row \in JobType, NEW at \in Nat
    PROVE  LET new == Claimed(row, at)
           IN  /\ new \in JobType
               /\ new.complaint = row.complaint /\ new.state = "processing"
               /\ new.attempts = row.attempts + 1 /\ new.token = row.attempts + 1
               /\ new.lease = at + LeaseSeconds /\ new.maxAttempts = row.maxAttempts
<1>1. row.attempts + 1 \in Nat /\ at + LeaseSeconds \in Nat
  BY TimingAssumption DEF JobType
<1> QED BY <1>1 DEF Claimed, JobType, ACTIVE_STATES

\* What fail's conditional UPDATE does to a consistent row: nothing, unless the
\* row runs under the claim; then it is queued with attempts left, or failed.
LEMMA FailRowFacts ==
    ASSUME NEW row \in JobType, RowConsistent(row),
           NEW claim \in ClaimType,
           claim.token <= claim.attempts, claim.attempts <= row.attempts,
           NEW at \in Nat, NEW code \in ERROR_CODES
    PROVE  LET new == FailRow(row, claim, at, code)
           IN  /\ new \in JobType
               /\ RowConsistent(new)
               /\ new.complaint = row.complaint
               /\ new.attempts = row.attempts
               /\ new # row => row.state = "processing"
               /\ new.state # row.state => new.state \in {"queued", "failed"}
<1> DEFINE requeued == Requeued(row, at, claim.attempts, code)
           failed   == Finished(row, "failed", code)
<1>1. row.maxAttempts \in Nat /\ row.attempts \in Nat /\ row.state \in ACTIVE_STATES \cup Terminal
  BY ReleasesAssumption DEF JobType
<1>2. failed \in JobType /\ RowConsistent(failed)
  BY FinishedFacts DEF Terminal
<1>3. ASSUME row.state = "processing", row.token = claim.token,
             claim.attempts < row.maxAttempts
      PROVE  requeued \in JobType /\ RowConsistent(requeued)
  <2>1. claim.attempts = row.attempts
    BY <1>1, <1>3 DEF RowConsistent, ClaimType
  <2>2. RetrySeconds * 2^(claim.attempts - 1) \in Nat
    <3>1. PICK r \in Releases : row.maxAttempts = r.maxAttempts
      BY DEF JobType
    <3>2. claim.attempts \in 1..r.maxAttempts
      BY <1>1, <1>3, <3>1, <2>1 DEF ClaimType
    <3> QED BY <3>1, <3>2, BackoffAssumption
  <2>3. at + RetrySeconds * 2^(claim.attempts - 1) \in Nat
    BY <2>2
  <2>4. requeued \in JobType
    BY <2>3 DEF JobType, Requeued, ACTIVE_STATES, ERROR_CODES
  <2> QED BY <2>1, <2>4, <1>1, <1>3 DEF RowConsistent, Requeued, JobType
<1>4. CASE FailRow(row, claim, at, code) = row
  BY <1>4
<1>5. CASE FailRow(row, claim, at, code) # row
  <2>1. row.state = "processing" /\ row.token = claim.token
    BY <1>5 DEF FailRow, OwnsClaim, LeaseRanOut
  <2>2. \/ FailRow(row, claim, at, code) = failed
        \/ /\ FailRow(row, claim, at, code) = requeued
           /\ claim.attempts < row.maxAttempts
    BY <1>5 DEF FailRow
  <2>3. failed.complaint = row.complaint /\ failed.attempts = row.attempts /\ failed.state = "failed"
    BY DEF Finished, JobType
  <2>4. requeued.complaint = row.complaint /\ requeued.attempts = row.attempts /\ requeued.state = "queued"
    BY DEF Requeued, JobType
  <2> QED BY <2>1, <2>2, <2>3, <2>4, <1>2, <1>3
<1> QED BY <1>4, <1>5

-----------------------------------------------------------------------------
(* The invariant by parts, each a predicate of the tables it is about. *)

ClaimOK(cl, js) ==
    /\ cl \in ClaimType /\ cl.job \in DOMAIN js
    /\ cl.token <= cl.attempts /\ cl.attempts <= js[cl.job].attempts

WorkerOK(x, js) ==
    /\ x \in WorkerType
    /\ x.pc \notin {"idle", "scanned"} => ClaimOK(x.claim, js)
    /\ x.pc \in {"rejecting", "failing"} => x.code # "none"
    /\ \A cl \in x.expired : ClaimOK(cl, js)

RowsOK(js) ==
    /\ DOMAIN js \subseteq JobIds
    /\ js \in [DOMAIN js -> JobType]
    /\ \A j \in DOMAIN js : RowConsistent(js[j])

ComplaintsType ==
    [Complaints -> [status : {"absent", "review", "assigned", "reviewed"},
                    by : {"nobody", "rules", "web", "worker", "officer"}]]

\* No row disappears and no attempt count goes back.
Grows(js, ks) ==
    /\ DOMAIN js \subseteq DOMAIN ks
    /\ \A j \in DOMAIN js : js[j].attempts <= ks[j].attempts

\* The invariant, table by table.
LEMMA Parts ==
    ASSUME IInv
    PROVE  /\ RowsOK(jobs)
           /\ workers \in [Workers -> WorkerType]
           /\ \A w \in Workers : WorkerOK(workers[w], jobs)
           /\ complaints \in ComplaintsType
           /\ now \in Nat
BY DEF IInv, TypeOK, ClaimsConsistent, RowsOK, WorkerOK, ClaimOK, Issued, ComplaintsType,
       WorkerType

\* The next state satisfies the invariant once each table does.
LEMMA Assemble ==
    ASSUME RowsOK(jobs'),
           workers' \in [Workers -> WorkerType],
           \A w \in Workers : WorkerOK(workers'[w], jobs'),
           complaints' \in ComplaintsType,
           now' \in Nat, current' \in Nat, lapsed' \in BOOLEAN,
           webs' \subseteq Releases, restarts' \in Nat, calls' \in [JobIds -> Nat],
           requests' \in [Complaints \X Keys -> (DOMAIN jobs)' \cup {0}],
           OneActiveJob', ActiveJobParked'
    PROVE  IInv'
BY DEF IInv, TypeOK, ClaimsConsistent, RowsOK, WorkerOK, ClaimOK, Issued, ComplaintsType

\* A worker's claims stay good while rows stay and attempt counts only rise.
LEMMA ClaimsStayGood ==
    ASSUME NEW js, NEW ks, RowsOK(js), RowsOK(ks), Grows(js, ks), NEW x, WorkerOK(x, js)
    PROVE  WorkerOK(x, ks)
<1>1. ASSUME NEW cl, ClaimOK(cl, js) PROVE ClaimOK(cl, ks)
  <2>1. /\ cl \in ClaimType /\ cl.job \in DOMAIN js /\ cl.job \in DOMAIN ks
        /\ cl.token <= cl.attempts /\ cl.attempts <= js[cl.job].attempts
        /\ js[cl.job].attempts <= ks[cl.job].attempts
    BY <1>1 DEF ClaimOK, Grows
  <2>2. js[cl.job] \in JobType /\ ks[cl.job] \in JobType
    BY <2>1 DEF RowsOK
  <2>3. js[cl.job].attempts \in Nat /\ ks[cl.job].attempts \in Nat /\ cl.attempts \in Nat
    BY <2>1, <2>2 DEF JobType, ClaimType
  <2> QED BY <2>1, <2>3 DEF ClaimOK
<1> QED BY <1>1 DEF WorkerOK

\* A worker between jobs holds no claim, whatever the tables hold.
LEMMA IdleWorkerOK ==
    ASSUME NEW r \in Releases, NEW js
    PROVE  WorkerOK(IdleWorker(r), js)
BY DEF WorkerOK, IdleWorker, WorkerType, NoClaim

\* require_human_review parks what it is given and unparks nothing.
LEMMA ReviewParks ==
    ASSUME complaints \in ComplaintsType, NEW cs
    PROVE  /\ RequireHumanReview(cs) \in ComplaintsType
           /\ \A c \in Complaints :
                 complaints[c].status = "review" => RequireHumanReview(cs)[c].status = "review"
BY DEF RequireHumanReview, ComplaintsType, Reviewed

\* A step that starts no job cannot give a complaint a second live one.
LEMMA NoNewJob ==
    ASSUME OneActiveJob,
           DOMAIN jobs' = DOMAIN jobs,
           \A j \in DOMAIN jobs :
              /\ jobs'[j].complaint = jobs[j].complaint
              /\ jobs'[j].state \in ACTIVE_STATES =>
                    /\ jobs[j].state \in ACTIVE_STATES
                    /\ complaints'[jobs[j].complaint].status = "review"
    PROVE  OneActiveJob' /\ ActiveJobParked'
BY DEF OneActiveJob, ActiveJobParked, ACTIVE_STATES

-----------------------------------------------------------------------------
\* The empty queue satisfies the invariant.
LEMMA InitInv == Init => IInv
<1> SUFFICES ASSUME Init PROVE IInv
  OBVIOUS
<1>1. DOMAIN jobs = {}
  BY DEF Init
<1>2. workers \in [Workers -> WorkerType] /\ \A w \in Workers : workers[w].pc = "idle" /\ workers[w].expired = {}
  BY DEF Init, IdleWorker, WorkerType, NoClaim
<1>3. TypeOK
  BY <1>1, <1>2, Zenon DEF Init, TypeOK
<1> QED BY <1>1, <1>2, <1>3 DEF IInv, ClaimsConsistent, OneActiveJob, ActiveJobParked

-----------------------------------------------------------------------------
(* Preservation: the web processes. *)

\* What stays as it is keeps its parts.
LEMMA SameWorkers ==
    ASSUME IInv, RowsOK(jobs'), Grows(jobs, jobs'), UNCHANGED workers
    PROVE  /\ workers' \in [Workers -> WorkerType]
           /\ \A w \in Workers : WorkerOK(workers'[w], jobs')
<1>1. RowsOK(jobs) /\ workers \in [Workers -> WorkerType]
      /\ \A w \in Workers : WorkerOK(workers[w], jobs)
  BY Parts
<1>2. ASSUME NEW w \in Workers PROVE WorkerOK(workers[w], jobs')
  BY <1>1, ClaimsStayGood
<1> QED BY <1>1, <1>2

\* Rows left alone stay good.
LEMMA GrowsSame ==
    ASSUME IInv, UNCHANGED jobs
    PROVE  RowsOK(jobs') /\ Grows(jobs, jobs')
<1>1. RowsOK(jobs)
  BY Parts
<1>2. \A j \in DOMAIN jobs : jobs[j].attempts \in Nat
  BY <1>1 DEF RowsOK, JobType
<1> QED BY <1>1, <1>2 DEF Grows

\* Starting a web process parks automatic routes and touches no job.
LEMMA StartWebInv == ASSUME IInv, NEW r \in Releases, StartWeb(r) PROVE IInv'
<1>1. RowsOK(jobs') /\ Grows(jobs, jobs') /\ complaints \in ComplaintsType
  BY GrowsSame, Parts DEF StartWeb
<1>2. /\ workers' \in [Workers -> WorkerType]
      /\ \A w \in Workers : WorkerOK(workers'[w], jobs')
  BY <1>1, SameWorkers DEF StartWeb
<1>3. /\ complaints' \in ComplaintsType
      /\ \A c \in Complaints : complaints[c].status = "review" => complaints'[c].status = "review"
  BY <1>1, ReviewParks DEF StartWeb
<1>4. OneActiveJob' /\ ActiveJobParked'
  BY <1>3, NoNewJob, Parts DEF IInv, StartWeb, ActiveJobParked, RowsOK, JobType
<1>5. /\ now' \in Nat /\ current' \in Nat /\ lapsed' \in BOOLEAN /\ webs' \subseteq Releases
      /\ restarts' \in Nat /\ calls' \in [JobIds -> Nat]
      /\ requests' \in [Complaints \X Keys -> (DOMAIN jobs)' \cup {0}]
  BY ReleasesAssumption DEF StartWeb, IInv, TypeOK
<1> QED BY <1>1, <1>2, <1>3, <1>4, <1>5, Assemble

\* An officer's decision ends every live job of the complaint in its own step.
LEMMA ApproveInv ==
    ASSUME IInv, NEW r \in Releases, NEW c \in Complaints, Approve(r, c) PROVE IInv'
<1>1. RowsOK(jobs) /\ complaints \in ComplaintsType
  BY Parts
<1>2. /\ DOMAIN jobs' = DOMAIN jobs
      /\ \A j \in DOMAIN jobs :
            jobs'[j] = IF j \in ActiveJobs(c)
                       THEN Finished(jobs[j], "failed", "human_review_superseded")
                       ELSE jobs[j]
  BY DEF Approve, SupersedeForReview
<1>3. \A j \in DOMAIN jobs :
        LET done == Finished(jobs[j], "failed", "human_review_superseded")
        IN  /\ done \in JobType /\ RowConsistent(done)
            /\ done.complaint = jobs[j].complaint /\ done.attempts = jobs[j].attempts
            /\ done.state = "failed"
  BY <1>1, FinishedFacts DEF RowsOK, Terminal, ERROR_CODES
<1>4. \A j \in DOMAIN jobs :
        /\ jobs'[j] \in JobType /\ RowConsistent(jobs'[j])
        /\ jobs'[j].complaint = jobs[j].complaint /\ jobs'[j].attempts = jobs[j].attempts
        /\ jobs[j].attempts \in Nat
        /\ jobs'[j].state \in ACTIVE_STATES =>
              jobs[j].state \in ACTIVE_STATES /\ jobs[j].complaint # c
  BY <1>1, <1>2, <1>3 DEF RowsOK, JobType, ActiveJobs, ACTIVE_STATES
<1>5. jobs' \in [DOMAIN jobs' -> JobType]
  BY <1>4, <1>2 DEF Approve, SupersedeForReview
<1>6. RowsOK(jobs') /\ Grows(jobs, jobs')
  BY <1>1, <1>2, <1>4, <1>5 DEF RowsOK, Grows
<1>7. /\ workers' \in [Workers -> WorkerType]
      /\ \A w \in Workers : WorkerOK(workers'[w], jobs')
  BY <1>6, SameWorkers DEF Approve
<1>8. /\ complaints' \in ComplaintsType
      /\ \A d \in Complaints \ {c} : complaints'[d] = complaints[d]
  BY <1>1 DEF Approve, ComplaintsType
<1>9. OneActiveJob' /\ ActiveJobParked'
  <2>1. \A j \in DOMAIN jobs : jobs[j].complaint \in Complaints
    BY <1>1 DEF RowsOK, JobType
  <2>2. \A j \in DOMAIN jobs : jobs'[j].state \in ACTIVE_STATES =>
            complaints'[jobs[j].complaint].status = "review"
    BY <1>4, <1>8, <2>1 DEF IInv, ActiveJobParked
  <2> QED BY <1>2, <1>4, <2>2, NoNewJob DEF IInv
<1>10. /\ now' \in Nat /\ current' \in Nat /\ lapsed' \in BOOLEAN /\ webs' \subseteq Releases
       /\ restarts' \in Nat /\ calls' \in [JobIds -> Nat]
       /\ requests' \in [Complaints \X Keys -> (DOMAIN jobs)' \cup {0}]
  BY <1>2 DEF Approve, IInv, TypeOK
<1> QED BY <1>6, <1>7, <1>8, <1>9, <1>10, Assemble

\* A new job's row is consistent, live, and owned by its complaint.
LEMMA JobRowFacts ==
    ASSUME IInv, NEW r \in Releases, NEW c \in Complaints, NEW k \in Keys
    PROVE  LET row == JobRow(c, k, r)
           IN  row \in JobType /\ RowConsistent(row) /\ row.complaint = c
<1>1. r.maxAttempts \in Nat \ {0} /\ r.catalog \in Nat /\ now \in Nat
  BY ReleasesAssumption, Parts
<1> QED BY <1>1 DEF JobRow, JobType, RowConsistent, ACTIVE_STATES, ERROR_CODES

\* Processing a complaint without a live job, with or without a queue.
LEMMA ProcessInv ==
    ASSUME IInv, NEW r \in Releases, NEW c \in Complaints, NEW k \in Keys,
           ActiveJobs(c) = {}, Process(r, c, k),
           UNCHANGED <<now, current, lapsed, webs, workers, restarts, calls>>
    PROVE  IInv'
<1>1. RowsOK(jobs) /\ complaints \in ComplaintsType
  BY Parts
<1>2. requests \in [Complaints \X Keys -> DOMAIN jobs \cup {0}]
  BY DEF IInv, TypeOK
<1>3. /\ complaints' \in ComplaintsType
      /\ \A d \in Complaints \ {c} : complaints'[d] = complaints[d]
  BY <1>1 DEF Process, EnqueueProcessing, ProcessNow, ComplaintsType
<1>4. \A j \in DOMAIN jobs : jobs[j].complaint \in Complaints /\ jobs[j].state \in ACTIVE_STATES \cup Terminal
  BY <1>1 DEF RowsOK, JobType
<1>5. \A j \in DOMAIN jobs : jobs[j].state \in ACTIVE_STATES =>
          jobs[j].complaint # c /\ complaints'[jobs[j].complaint].status = "review"
  BY <1>3, <1>4 DEF ActiveJobs, IInv, ActiveJobParked
<1>6. CASE UNCHANGED <<jobs, requests>>
  <2>1. RowsOK(jobs') /\ Grows(jobs, jobs')
    BY <1>6, GrowsSame
  <2>2. OneActiveJob' /\ ActiveJobParked'
    BY <1>5, <1>6, NoNewJob DEF IInv
  <2>3. /\ workers' \in [Workers -> WorkerType]
        /\ \A w \in Workers : WorkerOK(workers'[w], jobs')
    BY <2>1, SameWorkers
  <2>4. /\ now' \in Nat /\ current' \in Nat /\ lapsed' \in BOOLEAN /\ webs' \subseteq Releases
        /\ restarts' \in Nat /\ calls' \in [JobIds -> Nat]
        /\ requests' \in [Complaints \X Keys -> (DOMAIN jobs)' \cup {0}]
    BY <1>6 DEF IInv, TypeOK
  <2> QED BY <2>1, <2>2, <2>3, <2>4, <1>3, Assemble
<1>7. CASE Enqueue(r, c, k) /\ complaints'[c].status = "review"
  <2> DEFINE id == NewJobId
  <2> HIDE DEF id
  <2>1. /\ id \in JobIds /\ id \notin DOMAIN jobs
        /\ jobs' = [j \in DOMAIN jobs \cup {id} |->
                       IF j = id THEN JobRow(c, k, r) ELSE jobs[j]]
        /\ requests' = [requests EXCEPT ![<<c, k>>] = id]
    BY <1>7 DEF Enqueue, id
  <2>2. /\ DOMAIN jobs' = DOMAIN jobs \cup {id}
        /\ jobs'[id] = JobRow(c, k, r)
        /\ \A j \in DOMAIN jobs : jobs'[j] = jobs[j]
    BY <2>1
  <2>3. /\ JobRow(c, k, r) \in JobType /\ RowConsistent(JobRow(c, k, r))
        /\ JobRow(c, k, r).complaint = c
    BY JobRowFacts
  <2>4. RowsOK(jobs')
    <3>1. jobs' \in [DOMAIN jobs' -> JobType]
      BY <1>1, <2>1, <2>2, <2>3 DEF RowsOK
    <3> QED BY <1>1, <2>1, <2>2, <2>3, <3>1 DEF RowsOK
  <2>5. Grows(jobs, jobs')
    BY <1>1, <2>2 DEF RowsOK, Grows, JobType
  <2>6. OneActiveJob' /\ ActiveJobParked'
    BY <1>5, <1>7, <2>2, <2>3 DEF IInv, OneActiveJob, ActiveJobParked
  <2>7. /\ workers' \in [Workers -> WorkerType]
        /\ \A w \in Workers : WorkerOK(workers'[w], jobs')
    BY <2>4, <2>5, SameWorkers
  <2>8. /\ now' \in Nat /\ current' \in Nat /\ lapsed' \in BOOLEAN /\ webs' \subseteq Releases
        /\ restarts' \in Nat /\ calls' \in [JobIds -> Nat]
        /\ requests' \in [Complaints \X Keys -> (DOMAIN jobs)' \cup {0}]
    BY <1>2, <2>1, <2>2 DEF IInv, TypeOK
  <2> QED BY <2>4, <2>6, <2>7, <2>8, <1>3, Assemble
<1> QED BY <1>1, <1>6, <1>7 DEF Process, EnqueueProcessing, ProcessNow, ComplaintsType

\* A new complaint has no job yet, so processing it is safe.
LEMMA CreateInv ==
    ASSUME IInv, NEW r \in Releases, NEW c \in Complaints, CreateAndProcess(r, c) PROVE IInv'
<1>1. ActiveJobs(c) = {}
  BY DEF CreateAndProcess, ActiveJobs, IInv, ActiveJobParked
<1> QED BY <1>1, ProcessInv, BoundsAssumption DEF CreateAndProcess

\* A repeated request either finds its job or starts the only live one.
LEMMA ReprocessInv ==
    ASSUME IInv, NEW r \in Releases, NEW c \in Complaints, NEW k \in Keys, Reprocess(r, c, k)
    PROVE  IInv'
<1>1. requests \in [Complaints \X Keys -> DOMAIN jobs \cup {0}]
  BY DEF IInv, TypeOK
<1>2. CASE ExistingJobs(c, k) # {}
  <2>1. UNCHANGED <<now, jobs, complaints, current, lapsed, webs, workers, restarts, calls>>
    BY <1>2 DEF Reprocess
  <2>2. ExistingJobs(c, k) \subseteq DOMAIN jobs
    BY <1>1 DEF ExistingJobs, ActiveJobs
  <2>3. requests' \in [Complaints \X Keys -> DOMAIN jobs \cup {0}]
    BY <1>1, <1>2, <2>2 DEF Reprocess
  <2> QED BY <2>1, <2>3 DEF IInv, TypeOK, ClaimsConsistent, Issued, OneActiveJob, ActiveJobParked
<1>3. CASE ExistingJobs(c, k) = {}
  <2>1. ActiveJobs(c) = {}
    BY <1>3 DEF ExistingJobs
  <2> QED BY <1>3, <2>1, ProcessInv DEF Reprocess
<1> QED BY <1>2, <1>3

-----------------------------------------------------------------------------
(* Preservation: the worker processes. *)

\* Replacing one worker's record by a good one keeps every worker good.
LEMMA OneWorker ==
    ASSUME IInv, RowsOK(jobs'), Grows(jobs, jobs'), NEW w \in Workers, NEW x,
           WorkerOK(x, jobs'), workers' = [workers EXCEPT ![w] = x]
    PROVE  /\ workers' \in [Workers -> WorkerType]
           /\ \A v \in Workers : WorkerOK(workers'[v], jobs')
<1>1. /\ RowsOK(jobs) /\ workers \in [Workers -> WorkerType]
      /\ \A v \in Workers : WorkerOK(workers[v], jobs)
  BY Parts
<1>2. x \in WorkerType
  BY DEF WorkerOK
<1>3. ASSUME NEW v \in Workers PROVE WorkerOK(workers'[v], jobs')
  <2>1. CASE v = w
    BY <1>1, <2>1
  <2>2. CASE v # w
    <3>1. workers'[v] = workers[v]
      BY <1>1, <2>2
    <3> QED BY <1>1, <3>1, ClaimsStayGood
  <2> QED BY <2>1, <2>2
<1> QED BY <1>1, <1>2, <1>3

\* A worker that gives up its claim leaves every other claim good.
LEMMA IdleAgain ==
    ASSUME IInv, RowsOK(jobs'), Grows(jobs, jobs'), NEW w \in Workers, GoIdle(w)
    PROVE  /\ workers' \in [Workers -> WorkerType]
           /\ \A v \in Workers : WorkerOK(workers'[v], jobs')
<1>1. workers[w].release \in Releases
  BY Parts DEF WorkerType
<1>2. workers' = [workers EXCEPT ![w] = IdleWorker(workers[w].release)]
  BY DEF GoIdle
<1> QED BY <1>1, <1>2, IdleWorkerOK, OneWorker

\* What the invariant says of one worker.
LEMMA WorkerFacts ==
    ASSUME IInv, NEW w \in Workers
    PROVE  /\ workers[w] \in WorkerType /\ workers[w].at \in Nat
           /\ WorkerOK(workers[w], jobs)
           /\ workers[w].pc \in {"rejecting", "failing"} => workers[w].code \in ERROR_CODES
           /\ workers[w].pc \notin {"idle", "scanned"} => ClaimOK(workers[w].claim, jobs)
BY Parts DEF WorkerOK, WorkerType

\* The transaction of fail keeps the rows and the parked complaints right.
LEMMA FailInv ==
    ASSUME IInv, NEW claim, ClaimOK(claim, jobs), NEW at \in Nat, NEW code \in ERROR_CODES,
           Fail(claim, at, code)
    PROVE  /\ RowsOK(jobs') /\ Grows(jobs, jobs') /\ DOMAIN jobs' = DOMAIN jobs
           /\ complaints' \in ComplaintsType
           /\ OneActiveJob' /\ ActiveJobParked'
<1> DEFINE j == claim.job
           row == FailRow(jobs[j], claim, at, code)
<1>1. RowsOK(jobs) /\ complaints \in ComplaintsType
  BY Parts
<1>2. j \in DOMAIN jobs /\ jobs[j] \in JobType /\ RowConsistent(jobs[j])
  BY <1>1 DEF ClaimOK, RowsOK
<1>3. /\ row \in JobType /\ RowConsistent(row)
      /\ row.complaint = jobs[j].complaint /\ row.attempts = jobs[j].attempts
      /\ row # jobs[j] => jobs[j].state = "processing"
      /\ row.state # jobs[j].state => row.state \in {"queued", "failed"}
  BY <1>2, FailRowFacts DEF ClaimOK
<1>4. jobs' = [jobs EXCEPT ![j] = row]
  BY DEF Fail
<1>5. DOMAIN jobs' = DOMAIN jobs /\ jobs'[j] = row
      /\ \A i \in DOMAIN jobs \ {j} : jobs'[i] = jobs[i]
  BY <1>1, <1>2, <1>4 DEF RowsOK
<1>6. RowsOK(jobs')
  BY <1>1, <1>3, <1>4, <1>5 DEF RowsOK
<1>7. Grows(jobs, jobs')
  BY <1>1, <1>3, <1>5 DEF Grows, RowsOK, JobType
<1>8. /\ complaints' \in ComplaintsType
      /\ \A c \in Complaints : complaints[c].status = "review" => complaints'[c].status = "review"
  BY <1>1, ReviewParks DEF Fail
<1>9. \A i \in DOMAIN jobs :
        /\ jobs'[i].complaint = jobs[i].complaint
        /\ jobs[i].complaint \in Complaints
        /\ jobs'[i].state \in ACTIVE_STATES => jobs[i].state \in ACTIVE_STATES
  BY <1>1, <1>3, <1>5 DEF RowsOK, JobType, ACTIVE_STATES
<1>10. \A i \in DOMAIN jobs :
         jobs'[i].state \in ACTIVE_STATES => complaints'[jobs[i].complaint].status = "review"
  BY <1>8, <1>9 DEF IInv, ActiveJobParked
<1>11. OneActiveJob' /\ ActiveJobParked'
  BY <1>5, <1>9, <1>10, NoNewJob DEF IInv
<1> QED BY <1>5, <1>6, <1>7, <1>8, <1>11

\* What a step of a worker or of the clock leaves alone.
LEMMA RestStays ==
    ASSUME IInv, DOMAIN jobs' = DOMAIN jobs,
           UNCHANGED <<requests, current, lapsed, webs>>
    PROVE  /\ current' \in Nat /\ lapsed' \in BOOLEAN /\ webs' \subseteq Releases
           /\ requests' \in [Complaints \X Keys -> (DOMAIN jobs)' \cup {0}]
           /\ now \in Nat /\ restarts \in Nat /\ calls \in [JobIds -> Nat]
BY DEF IInv, TypeOK

\* A failed attempt changes its row as fail's UPDATE does, or not at all.
LEMMA FailAttemptInv == ASSUME IInv, NEW w \in Workers, FailAttempt(w) PROVE IInv'
<1>1. ClaimOK(workers[w].claim, jobs) /\ workers[w].at \in Nat /\ workers[w].code \in ERROR_CODES
  BY WorkerFacts DEF FailAttempt
<1>2. /\ RowsOK(jobs') /\ Grows(jobs, jobs') /\ DOMAIN jobs' = DOMAIN jobs
      /\ complaints' \in ComplaintsType
      /\ OneActiveJob' /\ ActiveJobParked'
  BY <1>1, FailInv DEF FailAttempt
<1>3. /\ workers' \in [Workers -> WorkerType]
      /\ \A v \in Workers : WorkerOK(workers'[v], jobs')
  BY <1>2, IdleAgain DEF FailAttempt
<1> QED BY <1>2, <1>3, RestStays, Assemble DEF FailAttempt

\* A completion ends the job it owns, in the transaction that stores the result.
LEMMA CompleteInv == ASSUME IInv, NEW w \in Workers, CompleteClaim(w) PROVE IInv'
<1> DEFINE j == workers[w].claim.job
           c == jobs[j].complaint
<1>1. ClaimOK(workers[w].claim, jobs)
  BY WorkerFacts DEF CompleteClaim
<1>2. RowsOK(jobs) /\ complaints \in ComplaintsType /\ now \in Nat
  BY Parts
<1>3. j \in DOMAIN jobs /\ jobs[j] \in JobType /\ RowConsistent(jobs[j])
  BY <1>1, <1>2 DEF ClaimOK, RowsOK
<1>4. /\ RowsOK(jobs') /\ Grows(jobs, jobs') /\ DOMAIN jobs' = DOMAIN jobs
      /\ complaints' \in ComplaintsType
      /\ OneActiveJob' /\ ActiveJobParked'
  <2>1. CASE UNCHANGED <<jobs, complaints>>
    BY <2>1, <1>2, GrowsSame DEF IInv, OneActiveJob, ActiveJobParked
  <2>2. CASE JobError(w) # "none" /\ Fail(workers[w].claim, now, JobError(w))
    <3>1. JobError(w) \in ERROR_CODES
      BY <2>2 DEF JobError, PreconditionError, ERROR_CODES
    <3> QED BY <2>2, <3>1, <1>1, <1>2, FailInv
  <2>3. CASE /\ jobs' = [jobs EXCEPT ![j] = Finished(@, "completed", "none")]
             /\ complaints' = ApplyDeferred(c)
    <3> DEFINE done == Finished(jobs[j], "completed", "none")
    <3>1. /\ done \in JobType /\ RowConsistent(done) /\ done.state = "completed"
          /\ done.complaint = c /\ done.attempts = jobs[j].attempts
      BY <1>3, FinishedFacts DEF Terminal
    <3> HIDE DEF done
    <3>2. /\ DOMAIN jobs' = DOMAIN jobs /\ jobs'[j] = done
          /\ \A i \in DOMAIN jobs \ {j} : jobs'[i] = jobs[i]
          /\ jobs' = [jobs EXCEPT ![j] = done]
      BY <1>2, <1>3, <2>3 DEF RowsOK, done
    <3>3. RowsOK(jobs')
      BY <1>2, <3>1, <3>2 DEF RowsOK
    <3>4. Grows(jobs, jobs')
      BY <1>2, <3>1, <3>2 DEF Grows, RowsOK, JobType
    <3>5. /\ complaints' \in ComplaintsType
          /\ \A d \in Complaints : complaints[d].status = "review" => complaints'[d].status = "review"
      BY <1>2, <2>3 DEF ComplaintsType, ApplyDeferred
    <3>6. \A i \in DOMAIN jobs :
            /\ jobs'[i].complaint = jobs[i].complaint
            /\ jobs[i].complaint \in Complaints
            /\ jobs'[i].state \in ACTIVE_STATES => jobs[i].state \in ACTIVE_STATES
      BY <1>2, <3>1, <3>2 DEF RowsOK, JobType, ACTIVE_STATES
    <3>7. OneActiveJob' /\ ActiveJobParked'
      BY <3>2, <3>5, <3>6, NoNewJob DEF IInv, ActiveJobParked
    <3> QED BY <3>2, <3>3, <3>4, <3>5, <3>7
  <2> QED BY <2>1, <2>2, <2>3 DEF CompleteClaim
<1>5. /\ workers' \in [Workers -> WorkerType]
      /\ \A v \in Workers : WorkerOK(workers'[v], jobs')
  BY <1>4, IdleAgain DEF CompleteClaim
<1> QED BY <1>4, <1>5, RestStays, Assemble DEF CompleteClaim

\* A step that changes no job and no complaint, only one worker's record.
LEMMA WorkerOnly ==
    ASSUME IInv, NEW w \in Workers, NEW x, WorkerOK(x, jobs),
           workers' = [workers EXCEPT ![w] = x],
           UNCHANGED <<now, jobs, requests, complaints, current, lapsed, webs>>,
           restarts' \in Nat, calls' \in [JobIds -> Nat]
    PROVE  IInv'
<1>1. RowsOK(jobs') /\ Grows(jobs, jobs')
  BY GrowsSame
<1>2. /\ workers' \in [Workers -> WorkerType]
      /\ \A v \in Workers : WorkerOK(workers'[v], jobs')
  BY <1>1, OneWorker
<1>3. OneActiveJob' /\ ActiveJobParked' /\ complaints' \in ComplaintsType /\ now' \in Nat
  BY Parts DEF IInv, OneActiveJob, ActiveJobParked
<1> QED BY <1>1, <1>2, <1>3, RestStays, Assemble

\* The scan for expired leases collects tokens that were issued.
LEMMA ScanInv == ASSUME IInv, NEW w \in Workers, Scan(w) PROVE IInv'
<1> DEFINE found == {Claim(j) : j \in {i \in DOMAIN jobs :
                        jobs[i].state = "processing" /\ jobs[i].lease <= now}}
           x == [workers[w] EXCEPT !.pc = "scanned", !.at = now, !.expired = found]
<1>1. RowsOK(jobs) /\ workers[w] \in WorkerType /\ now \in Nat
  BY Parts
<1>2. ASSUME NEW j \in DOMAIN jobs, jobs[j].state = "processing"
      PROVE  ClaimOK(Claim(j), jobs)
  BY <1>1, <1>2 DEF ClaimOK, Claim, ClaimType, RowsOK, JobType, RowConsistent
<1>3. \A cl \in found : ClaimOK(cl, jobs)
  BY <1>2
<1>4. found \subseteq ClaimType
  BY <1>3 DEF ClaimOK
<1> HIDE DEF found
<1>5. x \in WorkerType /\ x.pc = "scanned" /\ x.expired = found
  BY <1>1, <1>4 DEF WorkerType
<1>6. WorkerOK(x, jobs)
  BY <1>3, <1>5 DEF WorkerOK
<1>7. workers' = [workers EXCEPT ![w] = x]
  BY DEF Scan, found
<1> QED BY <1>6, <1>7, WorkerOnly, RestStays DEF Scan

\* Moving on to another step with the claim kept.
LEMMA ProceedOK ==
    ASSUME IInv, NEW w \in Workers, workers[w].pc \notin {"idle", "scanned"},
           NEW pc \in {"calling", "prepared"}
    PROVE  WorkerOK([workers[w] EXCEPT !.pc = pc], jobs)
BY WorkerFacts DEF WorkerOK, WorkerType

\* A worker that leaves for _fail_attempt re-reads the attempts of its own job.
LEMMA FalterOK ==
    ASSUME IInv, NEW w \in Workers, workers[w].pc \notin {"idle", "scanned"},
           NEW pc \in {"rejecting", "failing"}, NEW code \in ERROR_CODES,
           Falter(w, pc, code)
    PROVE  \E x : WorkerOK(x, jobs) /\ workers' = [workers EXCEPT ![w] = x]
<1> DEFINE old == workers[w].claim
           cl  == [old EXCEPT !.attempts = jobs[old.job].attempts]
           x   == [workers[w] EXCEPT !.pc = pc, !.code = code, !.at = now, !.claim = cl]
<1>1. ClaimOK(old, jobs) /\ WorkerOK(workers[w], jobs) /\ workers[w] \in WorkerType
  BY WorkerFacts
<1>2. RowsOK(jobs) /\ now \in Nat
  BY Parts
<1>3. /\ old \in ClaimType /\ old.job \in DOMAIN jobs
      /\ old.token <= old.attempts /\ old.attempts <= jobs[old.job].attempts
      /\ jobs[old.job].attempts \in Nat
  BY <1>1, <1>2 DEF ClaimOK, RowsOK, JobType
<1>4. /\ cl \in ClaimType /\ cl.job = old.job /\ cl.token = old.token
      /\ cl.attempts = jobs[old.job].attempts
  BY <1>3 DEF ClaimType
<1>5. ClaimOK(cl, jobs)
  BY <1>3, <1>4 DEF ClaimOK, ClaimType
<1> HIDE DEF cl
<1>6. /\ x \in WorkerType /\ x.claim = cl /\ x.pc = pc /\ x.code = code
      /\ x.expired = workers[w].expired
  BY <1>1, <1>2, <1>4 DEF WorkerType
<1>7. WorkerOK(x, jobs)
  BY <1>1, <1>5, <1>6 DEF WorkerOK, ERROR_CODES, Retryable
<1>8. workers' = [workers EXCEPT ![w] = x]
  BY DEF Falter, cl
<1> QED BY <1>7, <1>8

\* The check before the provider call moves one worker and no row.
LEMMA CheckClaimInv == ASSUME IInv, NEW w \in Workers, CheckClaim(w) PROVE IInv'
<1>1. workers[w].pc \notin {"idle", "scanned"} /\ ClaimOK(workers[w].claim, jobs)
  BY WorkerFacts DEF CheckClaim
<1>2. calls \in [JobIds -> Nat] /\ restarts \in Nat
  BY DEF IInv, TypeOK
<1>3. CASE GoIdle(w) /\ UNCHANGED calls
  <2>1. WorkerOK(IdleWorker(workers[w].release), jobs)
    BY IdleWorkerOK, Parts DEF WorkerType
  <2> QED BY <1>2, <1>3, <2>1, WorkerOnly DEF CheckClaim, GoIdle
<1>4. CASE JobError(w) # "none" /\ Falter(w, "rejecting", JobError(w)) /\ UNCHANGED calls
  <2>1. JobError(w) \in ERROR_CODES
    BY <1>4 DEF JobError, PreconditionError, ERROR_CODES
  <2>2. PICK x : WorkerOK(x, jobs) /\ workers' = [workers EXCEPT ![w] = x]
    BY <1>1, <1>4, <2>1, FalterOK
  <2> QED BY <1>2, <1>4, <2>2, WorkerOnly DEF CheckClaim
<1>5. CASE /\ Proceed(w, "calling")
           /\ calls' = [calls EXCEPT ![workers[w].claim.job] = @ + 1]
  <2>1. WorkerOK([workers[w] EXCEPT !.pc = "calling"], jobs)
    BY <1>1, ProceedOK
  <2>2. workers' = [workers EXCEPT ![w] = [workers[w] EXCEPT !.pc = "calling"]]
    BY <1>5 DEF Proceed
  <2>3. calls' \in [JobIds -> Nat]
    <3>1. workers[w].claim.job \in JobIds
      BY <1>1 DEF ClaimOK, ClaimType
    <3>2. calls[workers[w].claim.job] + 1 \in Nat
      BY <1>2, <3>1
    <3> QED BY <1>2, <1>5, <3>1, <3>2
  <2>4. /\ UNCHANGED <<now, jobs, requests, complaints, current, lapsed, webs>>
        /\ restarts' \in Nat
    BY <1>2 DEF CheckClaim
  <2> QED BY <2>1, <2>2, <2>3, <2>4, WorkerOnly
<1> QED BY <1>3, <1>4, <1>5 DEF CheckClaim

\* The provider's answer or error moves one worker and no row.
LEMMA ProviderReturnsInv == ASSUME IInv, NEW w \in Workers, ProviderReturns(w) PROVE IInv'
<1>1. workers[w].pc \notin {"idle", "scanned"}
  BY DEF ProviderReturns
<1>2. calls \in [JobIds -> Nat] /\ restarts \in Nat
  BY DEF IInv, TypeOK
<1>3. CASE Proceed(w, "prepared")
  <2>1. WorkerOK([workers[w] EXCEPT !.pc = "prepared"], jobs)
    BY <1>1, ProceedOK
  <2>2. workers' = [workers EXCEPT ![w] = [workers[w] EXCEPT !.pc = "prepared"]]
    BY <1>3 DEF Proceed
  <2> QED BY <1>2, <2>1, <2>2, WorkerOnly DEF ProviderReturns
<1>4. CASE Falter(w, "failing", "provider_error")
  <2>1. PICK x : WorkerOK(x, jobs) /\ workers' = [workers EXCEPT ![w] = x]
    BY <1>1, <1>4, FalterOK DEF ERROR_CODES, Retryable
  <2> QED BY <1>2, <2>1, WorkerOnly DEF ProviderReturns
<1> QED BY <1>3, <1>4 DEF ProviderReturns

\* An exception in the try block moves one worker and no row.
LEMMA TryRaisesInv == ASSUME IInv, NEW w \in Workers, TryRaises(w) PROVE IInv'
<1>1. PICK x : WorkerOK(x, jobs) /\ workers' = [workers EXCEPT ![w] = x]
  BY FalterOK DEF TryRaises, ERROR_CODES, Retryable
<1>2. calls \in [JobIds -> Nat] /\ restarts \in Nat
  BY DEF IInv, TypeOK
<1> QED BY <1>1, <1>2, WorkerOnly DEF TryRaises

\* A restarted worker holds no claim; its old row keeps waiting for its lease.
LEMMA RestartInv ==
    ASSUME IInv, NEW w \in Workers, NEW r \in Releases, RestartWorker(w, r) PROVE IInv'
<1>1. WorkerOK(IdleWorker(r), jobs)
  BY IdleWorkerOK
<1>2. restarts' \in Nat /\ calls \in [JobIds -> Nat]
  BY DEF RestartWorker, IInv, TypeOK
<1> QED BY <1>1, <1>2, WorkerOnly DEF RestartWorker

\* The clock moves no row.
LEMMA TickInv == ASSUME IInv, Tick PROVE IInv'
<1>1. RowsOK(jobs') /\ Grows(jobs, jobs')
  BY GrowsSame DEF Tick
<1>2. /\ workers' \in [Workers -> WorkerType]
      /\ \A v \in Workers : WorkerOK(workers'[v], jobs')
  BY <1>1, SameWorkers DEF Tick
<1>3. /\ OneActiveJob' /\ ActiveJobParked' /\ complaints' \in ComplaintsType
      /\ now' \in Nat
  BY Parts DEF Tick, IInv, OneActiveJob, ActiveJobParked
<1> QED BY <1>1, <1>2, <1>3, RestStays, Assemble DEF Tick

\* A catalog going out of force moves no row.
LEMMA LapseInv == ASSUME IInv, CatalogLapses PROVE IInv'
BY DEF CatalogLapses, IInv, TypeOK, ClaimsConsistent, Issued, OneActiveJob, ActiveJobParked

\* Failing every expired lease of a scan, in one transaction.
LEMMA RecoveredFacts ==
    ASSUME IInv, NEW w \in Workers
    PROVE  LET rows == Recovered(workers[w].expired, workers[w].at)
           IN  /\ DOMAIN rows = DOMAIN jobs
               /\ RowsOK(rows) /\ Grows(jobs, rows)
               /\ \A j \in DOMAIN jobs :
                     /\ rows[j].complaint = jobs[j].complaint
                     /\ rows[j].state \in ACTIVE_STATES => jobs[j].state \in ACTIVE_STATES
<1> DEFINE at   == workers[w].at
           cls  == workers[w].expired
           rows == Recovered(cls, at)
<1>1. RowsOK(jobs) /\ at \in Nat /\ \A cl \in cls : ClaimOK(cl, jobs)
  BY Parts, WorkerFacts DEF WorkerOK
<1>2. DOMAIN rows = DOMAIN jobs
  BY DEF Recovered
<1>3. ASSUME NEW j \in DOMAIN jobs
      PROVE  /\ rows[j] \in JobType /\ RowConsistent(rows[j])
             /\ rows[j].complaint = jobs[j].complaint
             /\ rows[j].attempts = jobs[j].attempts
             /\ rows[j].state \in ACTIVE_STATES => jobs[j].state \in ACTIVE_STATES
  <2>1. jobs[j] \in JobType /\ RowConsistent(jobs[j])
    BY <1>1 DEF RowsOK
  <2>2. CASE \E cl \in cls : cl.job = j
    <3> DEFINE cl == CHOOSE x \in cls : x.job = j
    <3>1. cl \in cls /\ cl.job = j
      BY <2>2
    <3>2. rows[j] = FailRow(jobs[j], cl, at, "lease_expired")
      BY <2>2 DEF Recovered
    <3> HIDE DEF cl
    <3>3. cl \in ClaimType /\ cl.token <= cl.attempts /\ cl.attempts <= jobs[j].attempts
      BY <1>1, <3>1 DEF ClaimOK
    <3>4. "lease_expired" \in ERROR_CODES
      BY DEF ERROR_CODES, Retryable
    <3>5. LET new == FailRow(jobs[j], cl, at, "lease_expired")
          IN  /\ new \in JobType
              /\ RowConsistent(new)
              /\ new.complaint = jobs[j].complaint
              /\ new.attempts = jobs[j].attempts
              /\ new # jobs[j] => jobs[j].state = "processing"
      BY <1>1, <2>1, <3>3, <3>4, FailRowFacts
    <3> HIDE DEF rows
    <3> QED BY <3>2, <3>5 DEF ACTIVE_STATES
  <2>3. CASE ~ \E cl \in cls : cl.job = j
    <3>1. rows[j] = jobs[j]
      BY <2>3 DEF Recovered
    <3> QED BY <2>1, <3>1
  <2> QED BY <2>2, <2>3
<1>4. rows \in [DOMAIN jobs -> JobType]
  BY <1>3 DEF Recovered
<1> HIDE DEF rows
<1>5. RowsOK(rows)
  BY <1>1, <1>2, <1>3, <1>4 DEF RowsOK
<1>6. Grows(jobs, rows)
  BY <1>1, <1>2, <1>3 DEF Grows, RowsOK, JobType
<1> QED BY <1>2, <1>3, <1>5, <1>6 DEF rows

\* Recovery and claim in one transaction: the claimed row gets a fresh token.
LEMMA ClaimNextInv == ASSUME IInv, NEW w \in Workers, ClaimNext(w) PROVE IInv'
<1> DEFINE at   == workers[w].at
           rows == Recovered(workers[w].expired, at)
           cs   == {jobs[j].complaint : j \in {i \in DOMAIN jobs : rows[i] # jobs[i]}}
<1>1. /\ RowsOK(jobs) /\ complaints \in ComplaintsType
      /\ at \in Nat /\ workers[w].release \in Releases
  BY Parts, WorkerFacts DEF WorkerType
<1>2. /\ DOMAIN rows = DOMAIN jobs
      /\ RowsOK(rows) /\ Grows(jobs, rows)
      /\ \A j \in DOMAIN jobs :
            /\ rows[j].complaint = jobs[j].complaint
            /\ rows[j].state \in ACTIVE_STATES => jobs[j].state \in ACTIVE_STATES
  BY RecoveredFacts
<1>3. complaints' = RequireHumanReview(cs)
  BY DEF ClaimNext
<1>4. \/ jobs' = rows /\ GoIdle(w)
      \/ \E j \in Ready(rows, at) :
            /\ jobs' = [rows EXCEPT ![j] = Claimed(@, at)]
            /\ workers' = [workers EXCEPT
                  ![w] = [IdleWorker(@.release) EXCEPT
                             !.pc = "claimed",
                             !.claim = [job |-> j, token |-> jobs'[j].token,
                                        attempts |-> jobs'[j].attempts]]]
  BY DEF ClaimNext, GoIdle
<1> HIDE DEF rows, cs
<1>5. /\ complaints' \in ComplaintsType
      /\ \A c \in Complaints : complaints[c].status = "review" => complaints'[c].status = "review"
  BY <1>1, <1>3, ReviewParks
<1>6. \A j \in DOMAIN jobs : jobs[j].complaint \in Complaints
  BY <1>1 DEF RowsOK, JobType
<1>7. \A j \in DOMAIN jobs : jobs[j].state \in ACTIVE_STATES =>
          complaints'[jobs[j].complaint].status = "review"
  BY <1>5, <1>6 DEF IInv, ActiveJobParked
<1>8. CASE jobs' = rows /\ GoIdle(w)
  <2>1. /\ workers' \in [Workers -> WorkerType]
        /\ \A v \in Workers : WorkerOK(workers'[v], jobs')
    BY <1>2, <1>8, IdleAgain
  <2>2. OneActiveJob' /\ ActiveJobParked'
    BY <1>2, <1>7, <1>8, NoNewJob DEF IInv
  <2> QED BY <1>2, <1>5, <1>8, <2>1, <2>2, RestStays, Assemble DEF ClaimNext
<1>9. ASSUME NEW j \in Ready(rows, at),
             jobs' = [rows EXCEPT ![j] = Claimed(@, at)],
             workers' = [workers EXCEPT
                ![w] = [IdleWorker(@.release) EXCEPT
                           !.pc = "claimed",
                           !.claim = [job |-> j, token |-> jobs'[j].token,
                                      attempts |-> jobs'[j].attempts]]]
      PROVE  IInv'
  <2> DEFINE row == Claimed(rows[j], at)
             cl  == [job |-> j, token |-> row.token, attempts |-> row.attempts]
             x   == [IdleWorker(workers[w].release) EXCEPT !.pc = "claimed", !.claim = cl]
  <2>1. /\ j \in DOMAIN rows /\ rows[j] \in JobType /\ rows[j].state = "queued"
        /\ rows[j].attempts < rows[j].maxAttempts
        /\ rows[j].attempts \in Nat /\ rows[j].maxAttempts \in Nat
    BY <1>2, ReleasesAssumption DEF Ready, RowsOK, JobType
  <2>2. /\ row \in JobType
        /\ row.complaint = rows[j].complaint /\ row.state = "processing"
        /\ row.attempts = rows[j].attempts + 1 /\ row.token = rows[j].attempts + 1
        /\ row.lease = at + LeaseSeconds /\ row.maxAttempts = rows[j].maxAttempts
    BY <1>1, <2>1, ClaimedFacts
  <2>3. RowConsistent(row)
    BY <1>1, <2>1, <2>2, TimingAssumption DEF RowConsistent
  <2> HIDE DEF row
  <2>4. /\ DOMAIN jobs' = DOMAIN jobs /\ jobs' = [rows EXCEPT ![j] = row]
        /\ jobs'[j] = row /\ \A i \in DOMAIN jobs \ {j} : jobs'[i] = rows[i]
    BY <1>2, <1>9, <2>1 DEF RowsOK, row
  <2>5. RowsOK(jobs')
    BY <1>2, <2>2, <2>3, <2>4 DEF RowsOK
  <2>6. Grows(jobs, jobs')
    BY <1>1, <1>2, <2>1, <2>2, <2>4 DEF Grows, RowsOK, JobType
  <2>7. ClaimOK(cl, jobs')
    BY <2>1, <2>2, <2>4, <2>5 DEF ClaimOK, ClaimType, RowsOK
  <2>8. WorkerOK(x, jobs')
    BY <1>1, <2>7 DEF WorkerOK, WorkerType, IdleWorker, NoClaim, ClaimOK
  <2>9. workers' = [workers EXCEPT ![w] = x]
    BY <1>9, <2>4
  <2> HIDE DEF x
  <2>10. /\ workers' \in [Workers -> WorkerType]
         /\ \A v \in Workers : WorkerOK(workers'[v], jobs')
    BY <2>5, <2>6, <2>8, <2>9, OneWorker
  <2>11. \A i \in DOMAIN jobs :
           /\ jobs'[i].complaint = jobs[i].complaint
           /\ jobs'[i].state \in ACTIVE_STATES => jobs[i].state \in ACTIVE_STATES
    BY <1>2, <2>1, <2>2, <2>4 DEF ACTIVE_STATES
  <2>12. OneActiveJob' /\ ActiveJobParked'
    BY <1>7, <2>4, <2>11, NoNewJob DEF IInv
  <2> QED BY <1>5, <2>4, <2>5, <2>10, <2>12, RestStays, Assemble DEF ClaimNext
<1> QED BY <1>4, <1>8, <1>9

-----------------------------------------------------------------------------
\* Every step of the queue keeps the invariant.
LEMMA NextInv == IInv /\ [Next]_vars => IInv'
<1> SUFFICES ASSUME IInv, [Next]_vars PROVE IInv'
  OBVIOUS
<1>1. CASE \E r \in Releases : StartWeb(r)
  BY <1>1, StartWebInv
<1>2. CASE CatalogLapses
  BY <1>2, LapseInv
<1>3. CASE \E r \in Releases, c \in Complaints : CreateAndProcess(r, c)
  BY <1>3, CreateInv
<1>4. CASE Request
  BY <1>4, ReprocessInv DEF Request
<1>5. CASE \E r \in Releases, c \in Complaints : Approve(r, c)
  BY <1>5, ApproveInv
<1>6. CASE \E w \in Workers : WorkerStep(w)
  BY <1>6, ScanInv, ClaimNextInv, CheckClaimInv, ProviderReturnsInv, CompleteInv,
     TryRaisesInv, FailAttemptInv DEF WorkerStep
<1>7. CASE \E w \in Workers, r \in Releases : RestartWorker(w, r)
  BY <1>7, RestartInv
<1>8. CASE Tick
  BY <1>8, TickInv
<1>9. CASE UNCHANGED vars
  BY <1>9 DEF vars, IInv, TypeOK, ClaimsConsistent, Issued, OneActiveJob, ActiveJobParked
<1> QED BY <1>1, <1>2, <1>3, <1>4, <1>5, <1>6, <1>7, <1>8, <1>9 DEF Next, OtherStep

\* The inductive invariant holds in every reachable state.
THEOREM Invariant == Spec => []IInv
<1>1. Init => IInv
  BY InitInv
<1>2. IInv /\ [Next]_vars => IInv'
  BY NextInv
<1> QED BY <1>1, <1>2, PTL DEF Spec

\* Every column and every field keeps its type, for all values of the constants.
THEOREM TypeCorrect == Spec => []TypeOK
<1>1. IInv => TypeOK
  BY DEF IInv
<1> QED BY <1>1, Invariant, PTL

\* No interleaving of requests, retries, recoveries and reviews gives a complaint
\* two live jobs: the unique active slot of ai_processing_jobs never rejects.
THEOREM AtMostOneActiveJob == Spec => []OneActiveJob
<1>1. IInv => OneActiveJob
  BY DEF IInv
<1> QED BY <1>1, Invariant, PTL

\* A complaint with pending AI work is parked for review: never routed
\* automatically, and never already decided by an officer.
THEOREM PendingWorkIsParked == Spec => []ActiveJobParked
<1>1. IInv => ActiveJobParked
  BY DEF IInv
<1> QED BY <1>1, Invariant, PTL

\* The CHECK constraints never fire, no queued job is out of attempts, and no
\* process holds a token that was not issued.
THEOREM ClaimsAreConsistent == Spec => []ClaimsConsistent
<1>1. IInv => ClaimsConsistent
  BY DEF IInv
<1> QED BY <1>1, Invariant, PTL

-----------------------------------------------------------------------------
(* Who decided last: a deferred result and its review flag travel together. *)

\* A result the worker stored is with the officers.
DeferredNeedsReview ==
    \A c \in Complaints : complaints[c].by = "worker" => complaints[c].status = "review"

\* What a step that keeps DeferredNeedsReview does to every complaint: leave it,
\* park it, or overwrite it with a decision that is not an unreviewed AI result.
Decides(old, new) ==
    \A c \in Complaints :
        \/ new[c] = old[c]
        \/ new[c].by = old[c].by /\ new[c].status = "review"
        \/ new[c].by = "worker" => new[c].status = "review"

\* Parking complaints for review never takes a deferred result out of review.
LEMMA ParkingDecides ==
    ASSUME complaints \in ComplaintsType, NEW cs
    PROVE  Decides(complaints, RequireHumanReview(cs))
BY DEF Decides, RequireHumanReview, ComplaintsType

\* One complaint's new decision leaves the others alone.
LEMMA OneDecides ==
    ASSUME complaints \in ComplaintsType, NEW c \in Complaints, NEW new,
           new.by = "worker" => new.status = "review"
    PROVE  Decides(complaints, [complaints EXCEPT ![c] = new])
BY DEF Decides, ComplaintsType

\* A failure parks the complaint of its row, if it changes the row at all.
LEMMA FailDecides ==
    ASSUME complaints \in ComplaintsType, NEW claim, NEW at, NEW code, Fail(claim, at, code)
    PROVE  Decides(complaints, complaints')
BY ParkingDecides DEF Fail

\* Triage in a web process decides one complaint, and not as a worker.
LEMMA ProcessDecides ==
    ASSUME complaints \in ComplaintsType,
           NEW r \in Releases, NEW c \in Complaints, NEW k \in Keys, Process(r, c, k)
    PROVE  Decides(complaints, complaints')
<1>1. CASE EnqueueProcessing(r, c, k)
  BY <1>1, OneDecides DEF EnqueueProcessing
<1>2. CASE ProcessNow(r, c)
  <2>1. PICK status \in {"review", "assigned"} :
            complaints' = [complaints EXCEPT ![c] = [status |-> status, by |-> "web"]]
    BY <1>2 DEF ProcessNow
  <2> QED BY <2>1, OneDecides
<1> QED BY <1>1, <1>2 DEF Process

\* Of a worker's steps the completion alone stores a result, and it forces review.
LEMMA WorkerDecides ==
    ASSUME IInv, NEW w \in Workers, WorkerStep(w)
    PROVE  Decides(complaints, complaints')
<1>1. complaints \in ComplaintsType /\ RowsOK(jobs)
  BY Parts
<1>2. ASSUME complaints' = complaints PROVE Decides(complaints, complaints')
  BY <1>2 DEF Decides
<1>3. CASE Scan(w) \/ CheckClaim(w) \/ ProviderReturns(w) \/ TryRaises(w)
  BY <1>3, <1>2 DEF Scan, CheckClaim, ProviderReturns, TryRaises
<1>4. CASE ClaimNext(w)
  BY <1>1, <1>4, ParkingDecides DEF ClaimNext
<1>5. CASE FailAttempt(w)
  BY <1>1, <1>5, FailDecides DEF FailAttempt
<1>6. CASE CompleteClaim(w)
  <2>1. jobs[workers[w].claim.job].complaint \in Complaints
    BY <1>1, <1>6, WorkerFacts DEF CompleteClaim, ClaimOK, RowsOK, JobType
  <2>2. CASE complaints' = ApplyDeferred(jobs[workers[w].claim.job].complaint)
    BY <1>1, <2>1, <2>2, OneDecides DEF ApplyDeferred
  <2>3. CASE Fail(workers[w].claim, now, JobError(w))
    BY <1>1, <2>3, FailDecides
  <2> QED BY <1>2, <1>6, <2>2, <2>3 DEF CompleteClaim
<1> QED BY <1>3, <1>4, <1>5, <1>6 DEF WorkerStep

\* No step of the queue takes a deferred result out of review.
LEMMA NextDecides ==
    ASSUME IInv, [Next]_vars
    PROVE  Decides(complaints, complaints')
<1>1. complaints \in ComplaintsType
  BY Parts
<1>2. ASSUME complaints' = complaints PROVE Decides(complaints, complaints')
  BY <1>2 DEF Decides
<1>3. CASE \E r \in Releases : StartWeb(r)
  BY <1>1, <1>2, <1>3, ParkingDecides DEF StartWeb
<1>4. CASE \E r \in Releases, c \in Complaints : CreateAndProcess(r, c)
  BY <1>1, <1>4, ProcessDecides, BoundsAssumption DEF CreateAndProcess
<1>5. CASE Request
  BY <1>1, <1>2, <1>5, ProcessDecides DEF Request, Reprocess
<1>6. CASE \E r \in Releases, c \in Complaints : Approve(r, c)
  BY <1>1, <1>6, OneDecides DEF Approve
<1>7. CASE \E w \in Workers : WorkerStep(w)
  BY <1>7, WorkerDecides
<1>8. CASE \/ CatalogLapses
           \/ \E w \in Workers, r \in Releases : RestartWorker(w, r)
           \/ Tick
           \/ UNCHANGED vars
  BY <1>2, <1>8 DEF CatalogLapses, RestartWorker, Tick, vars
<1> QED BY <1>3, <1>4, <1>5, <1>6, <1>7, <1>8 DEF Next, OtherStep

-----------------------------------------------------------------------------
(* The queue implements JobLifecycle.                                      *)

\* A row, and the tables, as the life cycle sees them.
Abstract(row) ==
    [complaint |-> row.complaint, state |-> row.state,
     attempts |-> row.attempts, budget |-> row.maxAttempts]

AbstractJobs == [j \in DOMAIN jobs |-> Abstract(jobs[j])]

Decided == {c \in Complaints : Reviewed(c)}

\* What a worker does to a row in one transaction, as the life cycle sees it.
Moves(old, new) ==
    /\ new.complaint = old.complaint /\ new.maxAttempts = old.maxAttempts
    /\ \/ /\ old.state = "queued" /\ new.state = "processing"
          /\ old.attempts < old.maxAttempts
          /\ new.attempts = old.attempts + 1
       \/ /\ old.state = "processing" /\ new.state = "queued"
          /\ old.attempts < old.maxAttempts
          /\ new.attempts = old.attempts
       \/ /\ old.state = "processing" /\ new.state \in Terminal
          /\ new.attempts = old.attempts

\* fail changes a row only under the claim's token; a retry has attempts left and
\* waits for a while.
LEMMA FailRowMoves ==
    ASSUME NEW row \in JobType, RowConsistent(row),
           NEW claim \in ClaimType,
           claim.token <= claim.attempts, claim.attempts <= row.attempts,
           NEW at \in Nat, NEW code \in ERROR_CODES,
           NEW new, new = FailRow(row, claim, at, code), new # row
    PROVE  /\ row.state = "processing" /\ row.token = claim.token
           /\ code = "lease_expired" => row.lease <= at
           /\ Moves(row, new)
           /\ new.state = "queued" => new.avail > at
<1>1. /\ row.state = "processing" /\ row.token = claim.token
      /\ code = "lease_expired" => row.lease <= at
  BY DEF FailRow, OwnsClaim, LeaseRanOut
<1>2. \/ new = Finished(row, "failed", code)
      \/ new = Requeued(row, at, claim.attempts, code) /\ claim.attempts < row.maxAttempts
  BY DEF FailRow
<1>3. row.attempts \in Nat /\ claim.attempts = row.attempts
  BY <1>1 DEF RowConsistent, ClaimType, JobType
<1>4. CASE new = Finished(row, "failed", code)
  BY <1>1, <1>4 DEF Finished, JobType, Moves, Terminal
<1>5. CASE new = Requeued(row, at, claim.attempts, code) /\ claim.attempts < row.maxAttempts
  <2>1. PICK wait \in Nat \ {0} : wait = RetrySeconds * 2^(claim.attempts - 1)
    <3>1. PICK r \in Releases : row.maxAttempts = r.maxAttempts
      BY DEF JobType
    <3>2. claim.attempts \in 1..r.maxAttempts
      BY <1>5, <3>1, ReleasesAssumption DEF ClaimType
    <3> QED BY <3>1, <3>2, BackoffAssumption
  <2>2. /\ new.complaint = row.complaint /\ new.maxAttempts = row.maxAttempts
        /\ new.state = "queued" /\ new.attempts = row.attempts /\ new.avail = at + wait
    BY <1>5, <2>1 DEF Requeued, JobType
  <2>3. new.avail > at
    BY <2>1, <2>2
  <2> QED BY <1>1, <1>3, <1>5, <2>2, <2>3 DEF Moves
<1> QED BY <1>1, <1>2, <1>4, <1>5

\* Parking complaints for review decides nothing.
LEMMA ParkingKeepsDecided ==
    ASSUME complaints \in ComplaintsType, NEW cs, complaints' = RequireHumanReview(cs)
    PROVE  Decided' = Decided
BY DEF Decided, RequireHumanReview, Reviewed, ComplaintsType

\* A transaction of a worker that moves rows of undecided complaints is Work.
LEMMA WorkStep ==
    ASSUME IInv, DOMAIN jobs' = DOMAIN jobs, Decided' = Decided,
           \A j \in DOMAIN jobs : jobs'[j] = jobs[j] \/ Moves(jobs[j], jobs'[j])
    PROVE  Lifecycle!Next
<1>1. DOMAIN AbstractJobs' = DOMAIN AbstractJobs
  BY DEF AbstractJobs
<1>2. ASSUME NEW j \in DOMAIN AbstractJobs, AbstractJobs'[j] # AbstractJobs[j]
      PROVE  /\ AbstractJobs[j].complaint \notin Decided
             /\ Lifecycle!Move(AbstractJobs[j], AbstractJobs'[j])
  <2>1. j \in DOMAIN jobs /\ j \in DOMAIN jobs'
    BY <1>2 DEF AbstractJobs
  <2>2. AbstractJobs[j] = Abstract(jobs[j]) /\ AbstractJobs'[j] = Abstract(jobs'[j])
    BY <2>1 DEF AbstractJobs
  <2>3. Moves(jobs[j], jobs'[j])
    BY <1>2, <2>1, <2>2
  <2>4. complaints[jobs[j].complaint].status = "review"
    BY <2>1, <2>3 DEF IInv, ActiveJobParked, Moves, ACTIVE_STATES
  <2> QED BY <2>2, <2>3, <2>4 DEF Abstract, Decided, Reviewed, Moves, Terminal, Lifecycle!Move
<1>3. Lifecycle!Work
  BY <1>1, <1>2 DEF Lifecycle!Work, AbstractJobs, Abstract, Decided
<1> QED BY <1>3 DEF Lifecycle!Next

\* A step that changes no row and no decision is not seen.
LEMMA UnseenStep ==
    ASSUME UNCHANGED jobs, Decided' = Decided
    PROVE  UNCHANGED Lifecycle!vars
BY DEF Decided, Lifecycle!vars

\* Triage of a complaint without live work is a Request.
LEMMA ProcessIsRequest ==
    ASSUME IInv, NEW r \in Releases, NEW c \in Complaints, NEW k \in Keys,
           ActiveJobs(c) = {}, Process(r, c, k)
    PROVE  Lifecycle!Next
<1>1. RowsOK(jobs) /\ complaints \in ComplaintsType
  BY Parts
<1>2. /\ \A d \in Complaints \ {c} : complaints'[d] = complaints[d]
      /\ complaints'[c].status \in {"review", "assigned"}
  BY <1>1 DEF Process, EnqueueProcessing, ProcessNow, ComplaintsType
<1>3. Decided' = Decided \ {c}
  BY <1>2 DEF Decided, Reviewed
<1>4. Lifecycle!Live(AbstractJobs, c) = {}
  BY DEF Lifecycle!Live, AbstractJobs, Abstract, ActiveJobs, ACTIVE_STATES
<1>5. \/ UNCHANGED AbstractJobs
      \/ \E id \in JobIds \ DOMAIN AbstractJobs, n \in {q.maxAttempts : q \in Releases} :
            AbstractJobs' = [j \in DOMAIN AbstractJobs \cup {id} |->
                                IF j = id
                                THEN [complaint |-> c, state |-> "queued", attempts |-> 0,
                                      budget |-> n]
                                ELSE AbstractJobs[j]]
  <2>1. CASE UNCHANGED jobs
    BY <2>1 DEF AbstractJobs, Abstract
  <2>2. CASE Enqueue(r, c, k)
    <3>1. PICK id \in JobIds \ DOMAIN jobs :
              jobs' = [j \in DOMAIN jobs \cup {id} |->
                          IF j = id THEN JobRow(c, k, r) ELSE jobs[j]]
      BY <2>2 DEF Enqueue
    <3>2. Abstract(JobRow(c, k, r)) =
              [complaint |-> c, state |-> "queued", attempts |-> 0, budget |-> r.maxAttempts]
      BY DEF Abstract, JobRow
    <3>3. AbstractJobs' = [j \in DOMAIN AbstractJobs \cup {id} |->
                              IF j = id THEN Abstract(JobRow(c, k, r)) ELSE AbstractJobs[j]]
      BY <3>1 DEF AbstractJobs
    <3>4. id \in JobIds \ DOMAIN AbstractJobs
      BY <3>1 DEF AbstractJobs
    <3> QED BY <3>2, <3>3, <3>4
  <2> QED BY <2>1, <2>2 DEF Process, EnqueueProcessing, ProcessNow
<1>6. Lifecycle!Request(c)
  BY <1>3, <1>4, <1>5 DEF Lifecycle!Request, AbstractJobs, Abstract, Decided
<1> QED BY <1>6 DEF Lifecycle!Next

\* An approval is a Decide.
LEMMA ApproveIsDecide ==
    ASSUME IInv, NEW r \in Releases, NEW c \in Complaints, Approve(r, c)
    PROVE  Lifecycle!Next
<1>1. RowsOK(jobs) /\ complaints \in ComplaintsType
  BY Parts
<1>2. Decided' = Decided \cup {c}
  BY <1>1 DEF Approve, Decided, Reviewed, ComplaintsType
<1>3. Lifecycle!Live(AbstractJobs, c) = ActiveJobs(c)
  BY DEF Lifecycle!Live, AbstractJobs, Abstract, ActiveJobs, ACTIVE_STATES
<1>4. ASSUME NEW j \in DOMAIN jobs
      PROVE  Abstract(Finished(jobs[j], "failed", "human_review_superseded"))
                 = [Abstract(jobs[j]) EXCEPT !.state = "failed"]
  BY <1>1 DEF Abstract, Finished, RowsOK, JobType
<1>5. AbstractJobs' = [j \in DOMAIN AbstractJobs |->
                          IF j \in Lifecycle!Live(AbstractJobs, c)
                          THEN [AbstractJobs[j] EXCEPT !.state = "failed"]
                          ELSE AbstractJobs[j]]
  BY <1>3, <1>4 DEF Approve, SupersedeForReview, AbstractJobs
<1>6. Lifecycle!Decide(c)
  BY <1>2, <1>5 DEF Lifecycle!Decide, AbstractJobs, Abstract, Decided
<1> QED BY <1>6 DEF Lifecycle!Next

\* The transaction of fail moves one row, or none, and decides nothing.
LEMMA FailMoves ==
    ASSUME IInv, NEW claim, ClaimOK(claim, jobs), NEW at \in Nat, NEW code \in ERROR_CODES,
           Fail(claim, at, code)
    PROVE  /\ DOMAIN jobs' = DOMAIN jobs /\ Decided' = Decided
           /\ \A j \in DOMAIN jobs :
                 \/ jobs'[j] = jobs[j]
                 \/ /\ Moves(jobs[j], jobs'[j])
                    /\ claim.job = j /\ claim.token = jobs[j].token
<1>1. RowsOK(jobs) /\ complaints \in ComplaintsType
  BY Parts
<1>2. PICK i, new : /\ i = claim.job /\ new = FailRow(jobs[i], claim, at, code)
                    /\ jobs' = [jobs EXCEPT ![i] = new]
  BY DEF Fail
<1>3. /\ claim \in ClaimType /\ claim.token <= claim.attempts /\ claim.attempts <= jobs[i].attempts
      /\ i \in DOMAIN jobs /\ jobs[i] \in JobType /\ RowConsistent(jobs[i])
  BY <1>1, <1>2 DEF ClaimOK, RowsOK
<1>4. new = jobs[i] \/ (Moves(jobs[i], new) /\ claim.token = jobs[i].token)
  BY <1>2, <1>3, FailRowMoves
<1>5. Decided' = Decided
  BY <1>1, ParkingKeepsDecided DEF Fail
<1> QED BY <1>1, <1>2, <1>3, <1>4, <1>5 DEF RowsOK

\* Recovery moves the rows whose lease had run out when the scan was made.
LEMMA RecoveredMoves ==
    ASSUME IInv, NEW w \in Workers, NEW rows, rows = Recovered(workers[w].expired, workers[w].at),
           NEW j \in DOMAIN jobs, rows[j] # jobs[j]
    PROVE  /\ jobs[j].state = "processing" /\ jobs[j].lease <= workers[w].at
           /\ Moves(jobs[j], rows[j])
           /\ j \notin Ready(rows, workers[w].at)
<1>1. /\ RowsOK(jobs) /\ workers[w].at \in Nat
      /\ \A cl \in workers[w].expired : ClaimOK(cl, jobs)
  BY Parts, WorkerFacts DEF WorkerOK
<1>2. PICK cl \in workers[w].expired :
          cl.job = j /\ rows[j] = FailRow(jobs[j], cl, workers[w].at, "lease_expired")
  BY DEF Recovered
<1>3. /\ cl \in ClaimType /\ cl.token <= cl.attempts /\ cl.attempts <= jobs[j].attempts
      /\ jobs[j] \in JobType /\ RowConsistent(jobs[j])
  BY <1>1, <1>2 DEF ClaimOK, RowsOK
<1>4. "lease_expired" \in ERROR_CODES
  BY DEF ERROR_CODES, Retryable
<1>5. /\ jobs[j].state = "processing" /\ jobs[j].lease <= workers[w].at
      /\ Moves(jobs[j], rows[j])
      /\ rows[j].state = "queued" => rows[j].avail > workers[w].at
  BY <1>1, <1>2, <1>3, <1>4, FailRowMoves
<1>6. RowsOK(rows)
  BY RecoveredFacts
<1>7. DOMAIN rows = DOMAIN jobs /\ rows[j].avail \in Nat
  BY <1>6 DEF RowsOK, JobType, Recovered
<1> QED BY <1>1, <1>5, <1>7 DEF Ready

\* The transaction of claim_next moves each row at most once.
LEMMA ClaimNextMoves ==
    ASSUME IInv, NEW w \in Workers, ClaimNext(w)
    PROVE  /\ DOMAIN jobs' = DOMAIN jobs /\ Decided' = Decided
           /\ \A j \in DOMAIN jobs :
                 \/ jobs'[j] = jobs[j]
                 \/ Moves(jobs[j], jobs'[j]) /\ jobs[j].state = "queued"
                 \/ Moves(jobs[j], jobs'[j]) /\ jobs[j].lease <= workers[w].at
<1>1. RowsOK(jobs) /\ complaints \in ComplaintsType /\ workers[w].at \in Nat
  BY Parts, WorkerFacts
<1>2. PICK rows, at : at = workers[w].at /\ rows = Recovered(workers[w].expired, at)
  OBVIOUS
<1>3. DOMAIN rows = DOMAIN jobs /\ RowsOK(rows)
  BY <1>2, RecoveredFacts
<1>4. \A j \in DOMAIN jobs : rows[j] # jobs[j] =>
          /\ jobs[j].lease <= at /\ Moves(jobs[j], rows[j])
          /\ j \notin Ready(rows, at)
  BY <1>2, RecoveredMoves
<1>5. \/ jobs' = rows
      \/ \E i \in Ready(rows, at) : jobs' = [rows EXCEPT ![i] = Claimed(@, at)]
  BY <1>2 DEF ClaimNext
<1>6. Decided' = Decided
  BY <1>1, ParkingKeepsDecided DEF ClaimNext
<1>7. CASE jobs' = rows
  BY <1>2, <1>3, <1>4, <1>6, <1>7
<1>8. ASSUME NEW i \in Ready(rows, at), jobs' = [rows EXCEPT ![i] = Claimed(@, at)]
      PROVE  /\ DOMAIN jobs' = DOMAIN jobs
             /\ \A j \in DOMAIN jobs :
                   \/ jobs'[j] = jobs[j]
                   \/ Moves(jobs[j], jobs'[j]) /\ jobs[j].state = "queued"
                   \/ Moves(jobs[j], jobs'[j]) /\ jobs[j].lease <= workers[w].at
  <2>1. i \in DOMAIN jobs /\ rows[i] = jobs[i] /\ jobs[i] \in JobType
    BY <1>1, <1>3, <1>4 DEF Ready, RowsOK
  <2>2. jobs[i].state = "queued" /\ jobs[i].attempts < jobs[i].maxAttempts
    BY <2>1 DEF Ready
  <2>3. Moves(jobs[i], Claimed(jobs[i], at))
    BY <1>1, <1>2, <2>1, <2>2, ClaimedFacts DEF Moves
  <2>4. /\ DOMAIN jobs' = DOMAIN jobs
        /\ jobs'[i] = Claimed(jobs[i], at)
        /\ \A j \in DOMAIN jobs \ {i} : jobs'[j] = rows[j]
    BY <1>3, <1>8, <2>1
  <2> QED BY <1>2, <1>4, <2>2, <2>3, <2>4
<1> QED BY <1>5, <1>6, <1>7, <1>8

\* The completion moves its own row, under its token, and decides nothing.
LEMMA CompleteMoves ==
    ASSUME IInv, NEW w \in Workers, CompleteClaim(w)
    PROVE  /\ DOMAIN jobs' = DOMAIN jobs /\ Decided' = Decided
           /\ \A j \in DOMAIN jobs :
                 \/ jobs'[j] = jobs[j]
                 \/ /\ Moves(jobs[j], jobs'[j])
                    /\ workers[w].claim.job = j /\ workers[w].claim.token = jobs[j].token
<1>1. RowsOK(jobs) /\ complaints \in ComplaintsType /\ now \in Nat
  BY Parts
<1>2. ClaimOK(workers[w].claim, jobs)
  BY WorkerFacts DEF CompleteClaim
<1>3. CASE UNCHANGED <<jobs, complaints>>
  BY <1>3 DEF Decided, Reviewed
<1>4. CASE JobError(w) # "none" /\ Fail(workers[w].claim, now, JobError(w))
  <2>1. JobError(w) \in ERROR_CODES
    BY <1>4 DEF JobError, PreconditionError, ERROR_CODES
  <2> QED BY <1>1, <1>2, <1>4, <2>1, FailMoves
<1>5. ASSUME NEW i, i = workers[w].claim.job, Owns(w),
             jobs' = [jobs EXCEPT ![i] = Finished(@, "completed", "none")],
             complaints' = ApplyDeferred(jobs[i].complaint)
      PROVE  /\ DOMAIN jobs' = DOMAIN jobs /\ Decided' = Decided
             /\ \A j \in DOMAIN jobs :
                   \/ jobs'[j] = jobs[j]
                   \/ /\ Moves(jobs[j], jobs'[j])
                      /\ workers[w].claim.job = j /\ workers[w].claim.token = jobs[j].token
  <2>1. i \in DOMAIN jobs /\ jobs[i] \in JobType /\ jobs[i].complaint \in Complaints
    BY <1>1, <1>2, <1>5 DEF ClaimOK, RowsOK, JobType
  <2>2. jobs[i].state = "processing" /\ jobs[i].token = workers[w].claim.token
    BY <1>5 DEF Owns, OwnsClaim
  <2>3. Moves(jobs[i], Finished(jobs[i], "completed", "none"))
    BY <2>1, <2>2 DEF Finished, JobType, Moves, Terminal
  <2>4. complaints[jobs[i].complaint].status = "review"
    BY <2>1, <2>2 DEF IInv, ActiveJobParked, ACTIVE_STATES
  <2>5. Decided' = Decided
    BY <1>1, <1>5, <2>1, <2>4 DEF Decided, Reviewed, ApplyDeferred, ComplaintsType
  <2>6. /\ DOMAIN jobs' = DOMAIN jobs
        /\ jobs'[i] = Finished(jobs[i], "completed", "none")
        /\ \A j \in DOMAIN jobs \ {i} : jobs'[j] = jobs[j]
    BY <1>1, <1>5, <2>1 DEF RowsOK
  <2> QED BY <1>5, <2>2, <2>3, <2>5, <2>6
<1> QED BY <1>3, <1>4, <1>5 DEF CompleteClaim

\* Every step of the queue is a legal step of the life cycle, or none.
LEMMA NextRefines ==
    ASSUME IInv, [Next]_vars
    PROVE  [Lifecycle!Next]_(Lifecycle!vars)
<1>1. complaints \in ComplaintsType
  BY Parts
<1>2. ASSUME UNCHANGED <<jobs, complaints>> PROVE UNCHANGED Lifecycle!vars
  BY <1>2, UnseenStep DEF Decided, Reviewed
<1>3. CASE \E r \in Releases : StartWeb(r)
  <2>1. Decided' = Decided
    BY <1>1, <1>3, ParkingKeepsDecided DEF StartWeb, Decided, Reviewed
  <2> QED BY <1>3, <2>1, UnseenStep DEF StartWeb
<1>4. ASSUME NEW r \in Releases, NEW c \in Complaints, CreateAndProcess(r, c)
      PROVE  Lifecycle!Next
  <2>1. ActiveJobs(c) = {}
    BY <1>4 DEF CreateAndProcess, ActiveJobs, IInv, ActiveJobParked
  <2> QED BY <1>4, <2>1, ProcessIsRequest, BoundsAssumption DEF CreateAndProcess
<1>5. ASSUME NEW r \in Releases, NEW c \in Complaints, NEW k \in Keys, Reprocess(r, c, k)
      PROVE  [Lifecycle!Next]_(Lifecycle!vars)
  <2>1. CASE ExistingJobs(c, k) # {}
    BY <1>2, <1>5, <2>1 DEF Reprocess
  <2>2. CASE ExistingJobs(c, k) = {}
    <3>1. ActiveJobs(c) = {}
      BY <2>2 DEF ExistingJobs
    <3> QED BY <1>5, <2>2, <3>1, ProcessIsRequest DEF Reprocess
  <2> QED BY <2>1, <2>2
<1>6. CASE \E r \in Releases, c \in Complaints : Approve(r, c)
  BY <1>6, ApproveIsDecide
<1>7. ASSUME NEW w \in Workers, WorkerStep(w)
      PROVE  [Lifecycle!Next]_(Lifecycle!vars)
  <2>1. CASE Scan(w) \/ CheckClaim(w) \/ ProviderReturns(w) \/ TryRaises(w)
    BY <1>2, <2>1 DEF Scan, CheckClaim, ProviderReturns, TryRaises
  <2>2. CASE ClaimNext(w)
    BY <2>2, ClaimNextMoves, WorkStep
  <2>3. CASE CompleteClaim(w)
    BY <2>3, CompleteMoves, WorkStep
  <2>4. CASE FailAttempt(w)
    <3>1. /\ ClaimOK(workers[w].claim, jobs) /\ workers[w].at \in Nat
          /\ workers[w].code \in ERROR_CODES
      BY <2>4, WorkerFacts DEF FailAttempt
    <3> QED BY <2>4, <3>1, FailMoves, WorkStep DEF FailAttempt
  <2> QED BY <1>7, <2>1, <2>2, <2>3, <2>4 DEF WorkerStep
<1>8. CASE \/ CatalogLapses
           \/ \E w \in Workers, r \in Releases : RestartWorker(w, r)
           \/ Tick
           \/ UNCHANGED vars
  BY <1>2, <1>8 DEF CatalogLapses, RestartWorker, Tick, vars
<1> QED BY <1>3, <1>4, <1>5, <1>6, <1>7, <1>8 DEF Next, OtherStep, Request

\* The queue with its clocks, tokens, leases, retries and crashes implements the
\* job diagram of docs/ARCHITECTURE.md.
THEOREM Refinement == Spec => ImplementsLifecycle
<1>1. Init => Lifecycle!Init
  BY DEF Init, Lifecycle!Init, Reviewed
<1>2. IInv /\ [Next]_vars => [Lifecycle!Next]_(Lifecycle!vars)
  BY NextRefines
<1> QED BY <1>1, <1>2, Invariant, PTL DEF Spec, ImplementsLifecycle, Lifecycle!Spec

-----------------------------------------------------------------------------
(* Who may end a running job.                                              *)

\* No process holds an instant of the future.
HeldInstants == \A w \in Workers : workers[w].at <= now

\* A worker's instant is taken from the clock, which only goes forward.
LEMMA HeldStep ==
    ASSUME IInv, IInv', HeldInstants, [Next]_vars
    PROVE  HeldInstants'
<1>1. /\ now \in Nat /\ now' \in Nat
      /\ workers \in [Workers -> WorkerType] /\ workers' \in [Workers -> WorkerType]
  BY DEF IInv, TypeOK
<1>2. now <= now'
  <2>1. CASE Tick
    BY <1>1, <2>1 DEF Tick
  <2>2. CASE UNCHANGED now
    BY <1>1, <2>2
  <2>3. ASSUME NEW w \in Workers, WorkerStep(w) PROVE UNCHANGED now
    BY <2>3 DEF WorkerStep, Scan, ClaimNext, CheckClaim, ProviderReturns, CompleteClaim,
       TryRaises, FailAttempt
  <2>4. Tick \/ UNCHANGED now
    BY <2>3 DEF Next, OtherStep, Request, StartWeb, CatalogLapses, CreateAndProcess, Reprocess,
       Approve, RestartWorker, vars
  <2> QED BY <2>1, <2>2, <2>4
<1>3. ASSUME NEW v \in Workers PROVE workers'[v].at \in {workers[v].at, now, 0}
  <2>1. CASE UNCHANGED workers
    BY <2>1
  <2>2. ASSUME NEW w \in Workers, GoIdle(w) PROVE workers'[v].at \in {workers[v].at, 0}
    BY <1>1, <2>2 DEF GoIdle, IdleWorker
  <2>3. ASSUME NEW w \in Workers, NEW pc, Proceed(w, pc) PROVE workers'[v].at = workers[v].at
    BY <1>1, <2>3 DEF Proceed, WorkerType
  <2>4. ASSUME NEW w \in Workers, NEW pc, NEW code, Falter(w, pc, code)
        PROVE  workers'[v].at \in {workers[v].at, now}
    BY <1>1, <2>4 DEF Falter, WorkerType
  <2>5. ASSUME NEW w \in Workers, Scan(w) PROVE workers'[v].at \in {workers[v].at, now}
    BY <1>1, <2>5 DEF Scan, WorkerType
  <2>6. ASSUME NEW w \in Workers, ClaimNext(w) PROVE workers'[v].at \in {workers[v].at, 0}
    <3>1. CASE workers' = [workers EXCEPT ![w] = IdleWorker(@.release)]
      BY <1>1, <3>1 DEF IdleWorker
    <3>2. ASSUME NEW cl, workers' = [workers EXCEPT
                    ![w] = [IdleWorker(@.release) EXCEPT !.pc = "claimed", !.claim = cl]]
          PROVE  workers'[v].at \in {workers[v].at, 0}
      BY <1>1, <3>2 DEF IdleWorker
    <3> QED BY <2>6, <3>1, <3>2 DEF ClaimNext
  <2>7. ASSUME NEW w \in Workers, NEW r \in Releases, RestartWorker(w, r)
        PROVE  workers'[v].at \in {workers[v].at, 0}
    BY <1>1, <2>7 DEF RestartWorker, IdleWorker
  <2>8. ASSUME NEW w \in Workers, WorkerStep(w) PROVE workers'[v].at \in {workers[v].at, now, 0}
    BY <2>2, <2>3, <2>4, <2>5, <2>6, <2>8 DEF WorkerStep, CheckClaim, ProviderReturns,
       CompleteClaim, TryRaises, FailAttempt
  <2> QED BY <2>1, <2>7, <2>8 DEF Next, OtherStep, Request, StartWeb, CatalogLapses,
         CreateAndProcess, Reprocess, Approve, Tick, vars
<1>4. ASSUME NEW v \in Workers PROVE workers'[v].at <= now'
  <2>1. workers[v].at \in Nat /\ workers[v].at <= now
    BY <1>1 DEF HeldInstants, WorkerType
  <2> QED BY <1>1, <1>2, <1>3, <2>1
<1> QED BY <1>4 DEF HeldInstants

\* Steps that leave the rows there are alone end no running job.
LEMMA UntouchedRows ==
    ASSUME \A j \in DOMAIN jobs : jobs'[j] = jobs[j]
    PROVE  Fenced
BY DEF Fenced

\* Triage of a complaint adds a row at most.
LEMMA ProcessFenced ==
    ASSUME IInv, NEW r \in Releases, NEW c \in Complaints, NEW k \in Keys, Process(r, c, k)
    PROVE  Fenced
BY UntouchedRows DEF Process, EnqueueProcessing, ProcessNow, Enqueue

\* A worker ends its own claim and rests, or recovers what has run out.
LEMMA WorkerFenced ==
    ASSUME IInv, HeldInstants, NEW w \in Workers, WorkerStep(w)
    PROVE  Fenced
<1>1. RowsOK(jobs) /\ workers \in [Workers -> WorkerType] /\ now \in Nat
  BY Parts
<1>2. CASE Scan(w) \/ CheckClaim(w) \/ ProviderReturns(w) \/ TryRaises(w)
  BY <1>2, UntouchedRows DEF Scan, CheckClaim, ProviderReturns, TryRaises
<1>3. CASE ClaimNext(w)
  <2>1. workers[w].at \in Nat /\ workers[w].at <= now
    BY WorkerFacts DEF HeldInstants
  <2>2. \A j \in DOMAIN jobs :
           jobs[j].state = "processing" /\ jobs'[j] # jobs[j] => jobs[j].lease <= workers[w].at
    BY <1>3, ClaimNextMoves
  <2>3. \A j \in DOMAIN jobs : jobs[j].lease \in Nat
    BY <1>1 DEF RowsOK, JobType
  <2> QED BY <1>1, <2>1, <2>2, <2>3 DEF Fenced
<1>4. ASSUME GoIdle(w),
             \A j \in DOMAIN jobs :
                \/ jobs'[j] = jobs[j]
                \/ workers[w].claim.job = j /\ workers[w].claim.token = jobs[j].token
      PROVE  Fenced
  <2>1. workers'[w].pc = "idle"
    BY <1>1, <1>4 DEF GoIdle, IdleWorker
  <2> QED BY <1>4, <2>1 DEF Fenced
<1>5. CASE CompleteClaim(w)
  BY <1>4, <1>5, CompleteMoves DEF CompleteClaim
<1>6. CASE FailAttempt(w)
  <2>1. /\ ClaimOK(workers[w].claim, jobs) /\ workers[w].at \in Nat
        /\ workers[w].code \in ERROR_CODES
    BY <1>6, WorkerFacts DEF FailAttempt
  <2> QED BY <1>4, <1>6, <2>1, FailMoves DEF FailAttempt
<1> QED BY <1>2, <1>3, <1>5, <1>6 DEF WorkerStep

\* An approval ends the jobs of the complaint it decides.
LEMMA ApproveFenced ==
    ASSUME IInv, NEW r \in Releases, NEW c \in Complaints, Approve(r, c)
    PROVE  Fenced
<1>1. complaints \in ComplaintsType
  BY Parts
<1>2. complaints'[c].status = "reviewed"
  BY <1>1 DEF Approve, ComplaintsType
<1>3. \A j \in DOMAIN jobs : jobs'[j] # jobs[j] => jobs[j].complaint = c
  BY DEF Approve, SupersedeForReview, ActiveJobs
<1> QED BY <1>2, <1>3 DEF Fenced

\* Every step respects the claims of the others.
LEMMA NextFenced ==
    ASSUME IInv, HeldInstants, [Next]_vars
    PROVE  Fenced
<1>1. CASE \E r \in Releases, c \in Complaints : CreateAndProcess(r, c)
  BY <1>1, ProcessFenced, BoundsAssumption DEF CreateAndProcess
<1>2. CASE Request
  BY <1>2, ProcessFenced, UntouchedRows DEF Request, Reprocess
<1>3. CASE \E r \in Releases, c \in Complaints : Approve(r, c)
  BY <1>3, ApproveFenced
<1>4. CASE \E w \in Workers : WorkerStep(w)
  BY <1>4, WorkerFenced
<1>5. CASE \/ \E r \in Releases : StartWeb(r)
           \/ CatalogLapses
           \/ \E w \in Workers, r \in Releases : RestartWorker(w, r)
           \/ Tick
           \/ UNCHANGED vars
  BY <1>5, UntouchedRows DEF StartWeb, CatalogLapses, RestartWorker, Tick, vars
<1> QED BY <1>1, <1>2, <1>3, <1>4, <1>5 DEF Next, OtherStep

\* A worker that lost its claim, however late its answer or its failure, cannot
\* end the job another one runs.
THEOREM Fencing == Spec => OnlyHolderEndsClaim
<1>1. Init => HeldInstants
  BY DEF Init, HeldInstants, IdleWorker
<1>2. IInv /\ HeldInstants /\ [Next]_vars => HeldInstants'
  BY HeldStep, NextInv
<1>3. IInv /\ HeldInstants /\ [Next]_vars => [Fenced]_vars
  BY NextFenced
<1> QED BY <1>1, <1>2, <1>3, Invariant, PTL DEF Spec, OnlyHolderEndsClaim

-----------------------------------------------------------------------------
(* Which results reach a complaint.                                        *)

\* While AI work is pending, what the complaint shows is the local triage.
PendingByRules ==
    \A j \in DOMAIN jobs :
        jobs[j].state \in ACTIVE_STATES => complaints[jobs[j].complaint].by = "rules"

\* Parking complaints for review changes nobody's authorship.
LEMMA ParkingKeepsAuthor ==
    ASSUME complaints \in ComplaintsType, NEW cs, complaints' = RequireHumanReview(cs)
    PROVE  \A c \in Complaints : complaints'[c].by = complaints[c].by
BY DEF RequireHumanReview, ComplaintsType

\* Without new jobs, pending work keeps its author where the complaint does.
LEMMA PendingStays ==
    ASSUME IInv, PendingByRules, DOMAIN jobs' = DOMAIN jobs,
           \A j \in DOMAIN jobs :
              jobs'[j].state \in ACTIVE_STATES =>
                 /\ jobs'[j].complaint = jobs[j].complaint
                 /\ jobs[j].state \in ACTIVE_STATES
                 /\ complaints'[jobs[j].complaint].by = complaints[jobs[j].complaint].by
    PROVE  PendingByRules'
BY DEF PendingByRules

\* A row moved by a worker was pending before.
LEMMA MovedWasPending ==
    ASSUME NEW old, NEW new, new = old \/ Moves(old, new)
    PROVE  /\ new.complaint = old.complaint
           /\ new.state \in ACTIVE_STATES => old.state \in ACTIVE_STATES
BY DEF Moves, ACTIVE_STATES

\* Triage starts a job only together with a local result.
LEMMA ProcessPending ==
    ASSUME IInv, PendingByRules, NEW r \in Releases, NEW c \in Complaints, NEW k \in Keys,
           ActiveJobs(c) = {}, Process(r, c, k)
    PROVE  PendingByRules'
<1>1. RowsOK(jobs) /\ complaints \in ComplaintsType
  BY Parts
<1>2. \A d \in Complaints \ {c} : complaints'[d] = complaints[d]
  BY <1>1 DEF Process, EnqueueProcessing, ProcessNow, ComplaintsType
<1>3. \A j \in DOMAIN jobs : jobs[j].state \in ACTIVE_STATES =>
         complaints'[jobs[j].complaint].by = "rules"
  BY <1>1, <1>2 DEF RowsOK, JobType, ActiveJobs, PendingByRules
<1>4. CASE UNCHANGED jobs
  BY <1>3, <1>4 DEF PendingByRules
<1>5. CASE Enqueue(r, c, k) /\ complaints'[c].by = "rules"
  <2>1. PICK id : jobs' = [j \in DOMAIN jobs \cup {id} |->
                              IF j = id THEN JobRow(c, k, r) ELSE jobs[j]]
    BY <1>5 DEF Enqueue
  <2>2. JobRow(c, k, r).complaint = c
    BY DEF JobRow
  <2> QED BY <1>3, <1>5, <2>1, <2>2 DEF PendingByRules
<1> QED BY <1>1, <1>4, <1>5 DEF Process, EnqueueProcessing, ProcessNow, ComplaintsType

\* A completion changes the author of a complaint whose only job it ends.
LEMMA CompletePending ==
    ASSUME IInv, PendingByRules, NEW w \in Workers, CompleteClaim(w)
    PROVE  PendingByRules'
<1>1. RowsOK(jobs) /\ complaints \in ComplaintsType
  BY Parts
<1>2. PICK i : i = workers[w].claim.job
  OBVIOUS
<1>3. i \in DOMAIN jobs /\ jobs[i] \in JobType
  BY <1>1, <1>2, WorkerFacts DEF CompleteClaim, ClaimOK, RowsOK
<1>4. /\ DOMAIN jobs' = DOMAIN jobs
      /\ \A j \in DOMAIN jobs :
            /\ jobs'[j].complaint = jobs[j].complaint
            /\ jobs'[j].state \in ACTIVE_STATES => jobs[j].state \in ACTIVE_STATES
  BY CompleteMoves, MovedWasPending
<1>5. CASE \A c \in Complaints : complaints'[c].by = complaints[c].by
  BY <1>1, <1>4, <1>5, PendingStays DEF RowsOK, JobType
<1>6. CASE /\ Owns(w)
           /\ jobs' = [jobs EXCEPT ![i] = Finished(@, "completed", "none")]
           /\ complaints' = ApplyDeferred(jobs[i].complaint)
  <2>1. jobs[i].state \in ACTIVE_STATES
    BY <1>2, <1>6 DEF Owns, OwnsClaim, ACTIVE_STATES
  <2>2. jobs'[i].state \notin ACTIVE_STATES
    BY <1>3, <1>6 DEF Finished, JobType, ACTIVE_STATES
  <2>3. \A j \in DOMAIN jobs : jobs'[j].state \in ACTIVE_STATES =>
           jobs[j].complaint # jobs[i].complaint
    BY <1>3, <1>4, <2>1, <2>2 DEF IInv, OneActiveJob
  <2>4. \A d \in Complaints : d # jobs[i].complaint => complaints'[d] = complaints[d]
    BY <1>1, <1>6 DEF ApplyDeferred, ComplaintsType
  <2>5. \A j \in DOMAIN jobs : jobs[j].complaint \in Complaints
    BY <1>1 DEF RowsOK, JobType
  <2> QED BY <1>4, <2>3, <2>4, <2>5, PendingStays
<1>7. CASE Fail(workers[w].claim, now, JobError(w))
  BY <1>1, <1>5, <1>7, ParkingKeepsAuthor DEF Fail
<1> QED BY <1>2, <1>5, <1>6, <1>7 DEF CompleteClaim

\* Only triage starts a job, and only a completion signs for one.
LEMMA NextPending ==
    ASSUME IInv, PendingByRules, [Next]_vars
    PROVE  PendingByRules'
<1>1. RowsOK(jobs) /\ complaints \in ComplaintsType
  BY Parts
<1>2. ASSUME DOMAIN jobs' = DOMAIN jobs,
             \A j \in DOMAIN jobs : jobs'[j] = jobs[j] \/ Moves(jobs[j], jobs'[j]),
             \A c \in Complaints : complaints'[c].by = complaints[c].by
      PROVE  PendingByRules'
  BY <1>1, <1>2, PendingStays, MovedWasPending DEF RowsOK, JobType
<1>3. CASE UNCHANGED <<jobs, complaints>>
  BY <1>3 DEF PendingByRules
<1>4. CASE \E r \in Releases : StartWeb(r)
  BY <1>1, <1>2, <1>4, ParkingKeepsAuthor DEF StartWeb
<1>5. CASE \E r \in Releases, c \in Complaints : CreateAndProcess(r, c)
  <2>1. PICK r \in Releases, c \in Complaints : CreateAndProcess(r, c)
    BY <1>5
  <2>2. ActiveJobs(c) = {}
    BY <2>1 DEF CreateAndProcess, ActiveJobs, IInv, ActiveJobParked
  <2> QED BY <2>1, <2>2, ProcessPending, BoundsAssumption DEF CreateAndProcess
<1>6. CASE Request
  <2>1. PICK r \in Releases, c \in Complaints, k \in Keys : Reprocess(r, c, k)
    BY <1>6 DEF Request
  <2>2. CASE ExistingJobs(c, k) # {}
    BY <1>3, <2>1, <2>2 DEF Reprocess
  <2>3. CASE ExistingJobs(c, k) = {}
    <3>1. ActiveJobs(c) = {}
      BY <2>3 DEF ExistingJobs
    <3> QED BY <2>1, <2>3, <3>1, ProcessPending DEF Reprocess
  <2> QED BY <2>2, <2>3
<1>7. CASE \E r \in Releases, c \in Complaints : Approve(r, c)
  <2>1. PICK r \in Releases, c \in Complaints : Approve(r, c)
    BY <1>7
  <2>2. \A d \in Complaints \ {c} : complaints'[d] = complaints[d]
    BY <1>1, <2>1 DEF Approve, ComplaintsType
  <2>3. /\ DOMAIN jobs' = DOMAIN jobs
        /\ \A j \in DOMAIN jobs :
              jobs'[j] = IF j \in ActiveJobs(c)
                         THEN Finished(jobs[j], "failed", "human_review_superseded")
                         ELSE jobs[j]
    BY <2>1 DEF Approve, SupersedeForReview
  <2>4. \A j \in DOMAIN jobs :
           Finished(jobs[j], "failed", "human_review_superseded").state \notin ACTIVE_STATES
    BY <1>1 DEF Finished, RowsOK, JobType, ACTIVE_STATES
  <2>5. \A j \in DOMAIN jobs : jobs'[j].state \in ACTIVE_STATES =>
           jobs'[j] = jobs[j] /\ jobs[j].complaint # c
    BY <2>3, <2>4 DEF ActiveJobs
  <2> QED BY <1>1, <2>2, <2>3, <2>5, PendingStays DEF RowsOK, JobType
<1>8. ASSUME NEW w \in Workers, WorkerStep(w) PROVE PendingByRules'
  <2>1. CASE Scan(w) \/ CheckClaim(w) \/ ProviderReturns(w) \/ TryRaises(w)
    BY <1>3, <2>1 DEF Scan, CheckClaim, ProviderReturns, TryRaises
  <2>2. CASE ClaimNext(w)
    BY <1>1, <1>2, <2>2, ClaimNextMoves, ParkingKeepsAuthor DEF ClaimNext
  <2>3. CASE CompleteClaim(w)
    BY <2>3, CompletePending
  <2>4. CASE FailAttempt(w)
    <3>1. /\ ClaimOK(workers[w].claim, jobs) /\ workers[w].at \in Nat
          /\ workers[w].code \in ERROR_CODES
      BY <2>4, WorkerFacts DEF FailAttempt
    <3> QED BY <1>1, <1>2, <2>4, <3>1, FailMoves, ParkingKeepsAuthor DEF FailAttempt, Fail
  <2> QED BY <1>8, <2>1, <2>2, <2>3, <2>4 DEF WorkerStep
<1>9. CASE \/ CatalogLapses
           \/ \E w \in Workers, r \in Releases : RestartWorker(w, r)
           \/ Tick
           \/ UNCHANGED vars
  BY <1>3, <1>9 DEF CatalogLapses, RestartWorker, Tick, vars
<1> QED BY <1>4, <1>5, <1>6, <1>7, <1>8, <1>9 DEF Next, OtherStep

\* The complaint keeps its triage, or gets one that is not a worker's.
LEMMA NoResult ==
    ASSUME \A c \in Complaints : complaints'[c] = complaints[c] \/ complaints'[c].by # "worker"
    PROVE  ResultIsCurrent
BY DEF ResultIsCurrent

\* Parking a complaint leaves a worker's result as it is: it is parked already.
LEMMA ParkingKeepsResults ==
    ASSUME complaints \in ComplaintsType, DeferredNeedsReview,
           NEW cs, complaints' = RequireHumanReview(cs)
    PROVE  ResultIsCurrent
<1>1. ASSUME NEW c \in Complaints, complaints'[c].by = "worker"
      PROVE  complaints'[c] = complaints[c]
  <2>1. complaints[c].status = "review"
    BY <1>1 DEF DeferredNeedsReview, RequireHumanReview, ComplaintsType
  <2>2. complaints[c] \in [status : {"absent", "review", "assigned", "reviewed"},
                           by : {"nobody", "rules", "web", "worker", "officer"}]
    BY DEF ComplaintsType
  <2>3. [complaints[c] EXCEPT !.status = "review"] = complaints[c]
    BY <2>1, <2>2
  <2> QED BY <2>3 DEF RequireHumanReview
<1> QED BY <1>1, NoResult

\* Triage in a web process stores no worker's result.
LEMMA ProcessNoResult ==
    ASSUME IInv, NEW r \in Releases, NEW c \in Complaints, NEW k \in Keys, Process(r, c, k)
    PROVE  ResultIsCurrent
<1>1. complaints \in ComplaintsType
  BY Parts
<1>2. \A d \in Complaints : complaints'[d] = complaints[d] \/ complaints'[d].by # "worker"
  BY <1>1 DEF Process, EnqueueProcessing, ProcessNow, ComplaintsType
<1> QED BY <1>2, NoResult

\* A completion stores its result only where the re-check found nothing changed.
LEMMA CompleteCurrent ==
    ASSUME IInv, DeferredNeedsReview, PendingByRules, NEW w \in Workers, CompleteClaim(w)
    PROVE  ResultIsCurrent
<1>1. RowsOK(jobs) /\ complaints \in ComplaintsType /\ now \in Nat
  BY Parts
<1>2. CASE UNCHANGED complaints
  BY <1>2, NoResult
<1>3. CASE Fail(workers[w].claim, now, JobError(w))
  BY <1>1, <1>3, ParkingKeepsResults DEF Fail
<1>4. ASSUME NEW i, i = workers[w].claim.job, Owns(w), JobError(w) = "none",
             jobs' = [jobs EXCEPT ![i] = Finished(@, "completed", "none")],
             complaints' = ApplyDeferred(jobs[i].complaint)
      PROVE  ResultIsCurrent
  <2>1. i \in DOMAIN jobs /\ jobs[i] \in JobType /\ jobs[i].complaint \in Complaints
    BY <1>1, <1>4, WorkerFacts DEF CompleteClaim, ClaimOK, RowsOK, JobType
  <2>2. /\ jobs[i].state = "processing" /\ jobs[i].lease > now
        /\ workers[w].claim.token = jobs[i].token
    BY <1>4 DEF Owns, OwnsClaim
  <2>3. /\ jobs[i].catalog = current /\ ~lapsed
        /\ workers[w].release.model = jobs[i].model
        /\ workers[w].release.rules = jobs[i].input
    BY <1>4 DEF JobError, PreconditionError, CatalogOk
  <2>4. /\ i \in ActiveJobs(jobs[i].complaint)
        /\ complaints[jobs[i].complaint].status = "review"
        /\ complaints[jobs[i].complaint].by = "rules"
    BY <2>1, <2>2 DEF ActiveJobs, ACTIVE_STATES, IInv, ActiveJobParked, PendingByRules
  <2>5. complaints[jobs[i].complaint] = [status |-> "review", by |-> "rules"]
    BY <1>1, <2>1, <2>4 DEF ComplaintsType
  <2>6. jobs'[i].state = "completed"
    BY <1>4, <2>1 DEF Finished, JobType
  <2>7. \A d \in Complaints : d # jobs[i].complaint => complaints'[d] = complaints[d]
    BY <1>1, <1>4 DEF ApplyDeferred, ComplaintsType
  <2> QED BY <1>4, <2>2, <2>3, <2>4, <2>5, <2>6, <2>7 DEF ResultIsCurrent
<1> QED BY <1>2, <1>3, <1>4 DEF CompleteClaim

\* Every step brings current results only.
LEMMA NextCurrent ==
    ASSUME IInv, DeferredNeedsReview, PendingByRules, [Next]_vars
    PROVE  ResultIsCurrent
<1>1. complaints \in ComplaintsType
  BY Parts
<1>2. CASE UNCHANGED complaints
  BY <1>2, NoResult
<1>3. CASE \E r \in Releases : StartWeb(r)
  BY <1>1, <1>2, <1>3, ParkingKeepsResults DEF StartWeb
<1>4. CASE \E r \in Releases, c \in Complaints : CreateAndProcess(r, c)
  BY <1>4, ProcessNoResult, BoundsAssumption DEF CreateAndProcess
<1>5. CASE Request
  BY <1>2, <1>5, ProcessNoResult DEF Request, Reprocess
<1>6. CASE \E r \in Releases, c \in Complaints : Approve(r, c)
  <2>1. PICK r \in Releases, c \in Complaints : Approve(r, c)
    BY <1>6
  <2>2. \A d \in Complaints : complaints'[d] = complaints[d] \/ complaints'[d].by # "worker"
    BY <1>1, <2>1 DEF Approve, ComplaintsType
  <2> QED BY <2>2, NoResult
<1>7. ASSUME NEW w \in Workers, WorkerStep(w) PROVE ResultIsCurrent
  <2>1. CASE Scan(w) \/ CheckClaim(w) \/ ProviderReturns(w) \/ TryRaises(w)
    BY <1>2, <2>1 DEF Scan, CheckClaim, ProviderReturns, TryRaises
  <2>2. CASE ClaimNext(w)
    BY <1>1, <2>2, ParkingKeepsResults DEF ClaimNext
  <2>3. CASE CompleteClaim(w)
    BY <2>3, CompleteCurrent
  <2>4. CASE FailAttempt(w)
    BY <1>1, <2>4, ParkingKeepsResults DEF FailAttempt, Fail
  <2> QED BY <1>7, <2>1, <2>2, <2>3, <2>4 DEF WorkerStep
<1>8. CASE \/ CatalogLapses
           \/ \E w \in Workers, r \in Releases : RestartWorker(w, r)
           \/ Tick
           \/ UNCHANGED vars
  BY <1>2, <1>8 DEF CatalogLapses, RestartWorker, Tick, vars
<1> QED BY <1>3, <1>4, <1>5, <1>6, <1>7, <1>8 DEF Next, OtherStep

\* Whatever changed while the provider was thinking, only a result that still
\* fits its job reaches the complaint, and never over an officer's decision.
THEOREM ResultsAreCurrent == Spec => OnlyCurrentResults
<1>1. Init => PendingByRules /\ DeferredNeedsReview
  BY DEF Init, PendingByRules, DeferredNeedsReview
<1>2. IInv /\ PendingByRules /\ [Next]_vars => PendingByRules'
  BY NextPending
<1>3. IInv /\ DeferredNeedsReview /\ [Next]_vars => DeferredNeedsReview'
  BY NextDecides DEF DeferredNeedsReview, Decides
<1>4. IInv /\ DeferredNeedsReview /\ PendingByRules /\ [Next]_vars => [ResultIsCurrent]_vars
  BY NextCurrent
<1> QED BY <1>1, <1>2, <1>3, <1>4, Invariant, PTL
       DEF Spec, OnlyCurrentResults

-----------------------------------------------------------------------------
(* The queue keeps the gate of every complaint (ReviewGate).               *)

\* Parking complaints that are parked changes no status.
LEMMA ParkedStay ==
    ASSUME complaints \in ComplaintsType, NEW cs, complaints' = RequireHumanReview(cs),
           \A c \in cs \cap Complaints : complaints[c].status = "review"
    PROVE  \A c \in Complaints : complaints'[c].status = complaints[c].status
BY DEF RequireHumanReview, ComplaintsType

\* fail parks the complaint of a row it changes, which had pending work.
LEMMA FailParks ==
    ASSUME IInv, NEW claim, ClaimOK(claim, jobs), NEW at \in Nat, NEW code \in ERROR_CODES,
           Fail(claim, at, code)
    PROVE  \A c \in Complaints : complaints'[c].status = complaints[c].status
<1>1. RowsOK(jobs) /\ complaints \in ComplaintsType
  BY Parts
<1>2. PICK i, new : /\ i = claim.job /\ new = FailRow(jobs[i], claim, at, code)
                    /\ complaints' = RequireHumanReview(
                           IF new = jobs[i] THEN {} ELSE {new.complaint})
  BY DEF Fail
<1>3. /\ claim \in ClaimType /\ claim.token <= claim.attempts /\ claim.attempts <= jobs[i].attempts
      /\ i \in DOMAIN jobs /\ jobs[i] \in JobType /\ RowConsistent(jobs[i])
  BY <1>1, <1>2 DEF ClaimOK, RowsOK
<1>4. new # jobs[i] => jobs[i].state = "processing" /\ new.complaint = jobs[i].complaint
  BY <1>2, <1>3, FailRowMoves DEF Moves
<1>5. new # jobs[i] => complaints[new.complaint].status = "review"
  BY <1>3, <1>4 DEF IInv, ActiveJobParked, ACTIVE_STATES
<1>6. \A c \in (IF new = jobs[i] THEN {} ELSE {new.complaint}) \cap Complaints :
         complaints[c].status = "review"
  BY <1>5
<1> QED BY <1>1, <1>2, <1>6, ParkedStay

\* Whatever a worker does, no complaint changes its status: results, failures and
\* recoveries concern complaints that officers have already.
LEMMA WorkerKeepsStatus ==
    ASSUME IInv, NEW w \in Workers, WorkerStep(w)
    PROVE  \A c \in Complaints : complaints'[c].status = complaints[c].status
<1>1. RowsOK(jobs) /\ complaints \in ComplaintsType /\ now \in Nat
  BY Parts
<1>2. CASE Scan(w) \/ CheckClaim(w) \/ ProviderReturns(w) \/ TryRaises(w)
  BY <1>2 DEF Scan, CheckClaim, ProviderReturns, TryRaises
<1>3. CASE ClaimNext(w)
  <2>1. PICK rows, moved :
            /\ rows = Recovered(workers[w].expired, workers[w].at)
            /\ moved = {jobs[j].complaint : j \in {i \in DOMAIN jobs : rows[i] # jobs[i]}}
            /\ complaints' = RequireHumanReview(moved)
    BY <1>3 DEF ClaimNext
  <2>2. ASSUME NEW c \in moved \cap Complaints
        PROVE  complaints[c].status = "review"
    <3>1. PICK j \in DOMAIN jobs : rows[j] # jobs[j] /\ c = jobs[j].complaint
      BY <2>1
    <3>2. jobs[j].state = "processing"
      BY <2>1, <3>1, RecoveredMoves
    <3> QED BY <3>1, <3>2 DEF IInv, ActiveJobParked, ACTIVE_STATES
  <2> QED BY <1>1, <2>1, <2>2, ParkedStay
<1>4. CASE FailAttempt(w)
  <2>1. /\ ClaimOK(workers[w].claim, jobs) /\ workers[w].at \in Nat
        /\ workers[w].code \in ERROR_CODES
    BY <1>4, WorkerFacts DEF FailAttempt
  <2> QED BY <1>4, <2>1, FailParks DEF FailAttempt
<1>5. CASE CompleteClaim(w)
  <2>1. ClaimOK(workers[w].claim, jobs)
    BY <1>5, WorkerFacts DEF CompleteClaim
  <2>2. CASE JobError(w) # "none" /\ Fail(workers[w].claim, now, JobError(w))
    <3>1. JobError(w) \in ERROR_CODES
      BY <2>2 DEF JobError, PreconditionError, ERROR_CODES
    <3> QED BY <1>1, <2>1, <2>2, <3>1, FailParks
  <2>3. ASSUME NEW i, i = workers[w].claim.job, Owns(w),
               complaints' = ApplyDeferred(jobs[i].complaint)
        PROVE  \A c \in Complaints : complaints'[c].status = complaints[c].status
    <3>1. i \in DOMAIN jobs /\ jobs[i].complaint \in Complaints /\ jobs[i].state = "processing"
      BY <1>1, <2>1, <2>3 DEF ClaimOK, RowsOK, JobType, Owns, OwnsClaim
    <3>2. complaints[jobs[i].complaint].status = "review"
      BY <3>1 DEF IInv, ActiveJobParked, ACTIVE_STATES
    <3> QED BY <1>1, <2>3, <3>1, <3>2 DEF ApplyDeferred, ComplaintsType
  <2> QED BY <1>5, <2>2, <2>3 DEF CompleteClaim
<1> QED BY <1>2, <1>3, <1>4, <1>5 DEF WorkerStep

\* Rows moved by a worker: the work of a complaint goes on or ends.
LEMMA WorkPassesGate ==
    ASSUME IInv, NEW c \in Complaints, complaints'[c].status = complaints[c].status,
           DOMAIN jobs' = DOMAIN jobs,
           \A j \in DOMAIN jobs : jobs'[j] = jobs[j] \/ Moves(jobs[j], jobs'[j])
    PROVE  [Gate(c)!Next]_(Gate(c)!vars)
<1>1. ActiveJobs(c)' \subseteq ActiveJobs(c)
  BY MovedWasPending DEF ActiveJobs
<1>2. CASE (ActiveJobs(c) # {})' = (ActiveJobs(c) # {})
  BY <1>2 DEF Gate!vars
<1>3. CASE ActiveJobs(c) # {} /\ ActiveJobs(c)' = {}
  <2>1. complaints[c].status = "review"
    BY <1>3 DEF ActiveJobs, IInv, ActiveJobParked
  <2>2. Gate(c)!Finish
    BY <1>3, <2>1 DEF Gate!Finish
  <2> QED BY <2>2 DEF Gate!Next
<1> QED BY <1>1, <1>2, <1>3

\* A complaint that a step does not touch, and whose rows it does not touch.
LEMMA UntouchedGate ==
    ASSUME NEW c \in Complaints, complaints'[c].status = complaints[c].status,
           ActiveJobs(c)' = ActiveJobs(c)
    PROVE  [Gate(c)!Next]_(Gate(c)!vars)
BY DEF Gate!vars

\* Triage in a web process is a request on one complaint.
LEMMA ProcessPassesGate ==
    ASSUME IInv, NEW r \in Releases, NEW c \in Complaints, NEW k \in Keys,
           ActiveJobs(c) = {}, Process(r, c, k), NEW d \in Complaints
    PROVE  [Gate(d)!Next]_(Gate(d)!vars)
<1>1. RowsOK(jobs) /\ complaints \in ComplaintsType
  BY Parts
<1>2. /\ d # c => complaints'[d] = complaints[d]
      /\ complaints'[c].status \in {"review", "assigned"}
      /\ complaints'[c].status = "review" \/ UNCHANGED jobs
  BY <1>1 DEF Process, EnqueueProcessing, ProcessNow, ComplaintsType
<1>3. d # c => ActiveJobs(d)' = ActiveJobs(d)
  <2>1. CASE UNCHANGED jobs
    BY <2>1 DEF ActiveJobs
  <2>2. CASE Enqueue(r, c, k)
    <3>1. PICK id \in JobIds \ DOMAIN jobs :
              jobs' = [j \in DOMAIN jobs \cup {id} |->
                          IF j = id THEN JobRow(c, k, r) ELSE jobs[j]]
      BY <2>2 DEF Enqueue
    <3>2. JobRow(c, k, r).complaint = c
      BY DEF JobRow
    <3> QED BY <3>1, <3>2 DEF ActiveJobs
  <2> QED BY <2>1, <2>2 DEF Process, EnqueueProcessing, ProcessNow
<1>4. CASE d # c
  BY <1>2, <1>3, <1>4, UntouchedGate
<1>5. CASE d = c
  <2>1. (ActiveJobs(c) # {})' \in BOOLEAN
    OBVIOUS
  <2>2. (ActiveJobs(c) # {})' => complaints'[c].status = "review"
    <3>1. UNCHANGED jobs => ActiveJobs(c)' = {}
      BY DEF ActiveJobs
    <3> QED BY <1>2, <3>1
  <2>3. Gate(c)!Request
    BY <1>2, <2>1, <2>2 DEF Gate!Request
  <2> QED BY <1>5, <2>3 DEF Gate!Next
<1> QED BY <1>4, <1>5

\* An approval decides one complaint and ends its work.
LEMMA ApprovePassesGate ==
    ASSUME IInv, NEW r \in Releases, NEW c \in Complaints, Approve(r, c), NEW d \in Complaints
    PROVE  [Gate(d)!Next]_(Gate(d)!vars)
<1>1. RowsOK(jobs) /\ complaints \in ComplaintsType
  BY Parts
<1>2. jobs' = SupersedeForReview(c)
  BY DEF Approve
<1>3. ASSUME NEW j \in DOMAIN jobs
      PROVE  /\ j \in ActiveJobs(c) => /\ jobs'[j].complaint = c
                                       /\ jobs'[j].state \notin ACTIVE_STATES
             /\ j \notin ActiveJobs(c) => jobs'[j] = jobs[j]
  BY <1>1, <1>2 DEF SupersedeForReview, ActiveJobs, Finished, RowsOK, JobType, ACTIVE_STATES
<1>4. DOMAIN jobs' = DOMAIN jobs
  BY <1>2 DEF SupersedeForReview
<1>5. CASE d # c
  <2>1. ActiveJobs(d)' = ActiveJobs(d)
    BY <1>3, <1>4, <1>5 DEF ActiveJobs
  <2>2. complaints'[d] = complaints[d]
    BY <1>1, <1>5 DEF Approve, ComplaintsType
  <2> QED BY <2>1, <2>2, UntouchedGate
<1>6. CASE d = c
  <2>1. ActiveJobs(c)' = {}
    BY <1>3, <1>4 DEF ActiveJobs
  <2>2. complaints[c].status # "absent" /\ complaints'[c].status = "reviewed"
    BY <1>1 DEF Approve, ComplaintsType
  <2>3. Gate(c)!Decide
    BY <2>1, <2>2 DEF Gate!Decide
  <2> QED BY <1>6, <2>3 DEF Gate!Next
<1> QED BY <1>5, <1>6

\* Every step of the queue is a legal step of every complaint's gate, or none.
LEMMA NextPassesGate ==
    ASSUME IInv, [Next]_vars, NEW d \in Complaints
    PROVE  [Gate(d)!Next]_(Gate(d)!vars)
<1>1. complaints \in ComplaintsType
  BY Parts
<1>2. ASSUME UNCHANGED <<jobs, complaints>> PROVE [Gate(d)!Next]_(Gate(d)!vars)
  BY <1>2, UntouchedGate DEF ActiveJobs
<1>3. CASE \E r \in Releases : StartWeb(r)
  <2>1. ActiveJobs(d)' = ActiveJobs(d)
    BY <1>3 DEF StartWeb, ActiveJobs
  <2>2. \/ complaints'[d].status = complaints[d].status
        \/ complaints[d].status = "assigned" /\ complaints'[d].status = "review"
    BY <1>1, <1>3 DEF StartWeb, RequireHumanReview, ComplaintsType
  <2>3. CASE complaints[d].status = "assigned" /\ complaints'[d].status = "review"
    <3>1. Gate(d)!Recall
      BY <2>1, <2>3 DEF Gate!Recall
    <3> QED BY <3>1 DEF Gate!Next
  <2> QED BY <2>1, <2>2, <2>3, UntouchedGate
<1>4. ASSUME NEW r \in Releases, NEW c \in Complaints, CreateAndProcess(r, c)
      PROVE  [Gate(d)!Next]_(Gate(d)!vars)
  <2>1. ActiveJobs(c) = {}
    BY <1>4 DEF CreateAndProcess, ActiveJobs, IInv, ActiveJobParked
  <2> QED BY <1>4, <2>1, ProcessPassesGate, BoundsAssumption DEF CreateAndProcess
<1>5. ASSUME NEW r \in Releases, NEW c \in Complaints, NEW k \in Keys, Reprocess(r, c, k)
      PROVE  [Gate(d)!Next]_(Gate(d)!vars)
  <2>1. CASE ExistingJobs(c, k) # {}
    BY <1>2, <1>5, <2>1 DEF Reprocess
  <2>2. CASE ExistingJobs(c, k) = {}
    <3>1. ActiveJobs(c) = {}
      BY <2>2 DEF ExistingJobs
    <3> QED BY <1>5, <2>2, <3>1, ProcessPassesGate DEF Reprocess
  <2> QED BY <2>1, <2>2
<1>6. CASE \E r \in Releases, c \in Complaints : Approve(r, c)
  BY <1>6, ApprovePassesGate
<1>7. ASSUME NEW w \in Workers, WorkerStep(w)
      PROVE  [Gate(d)!Next]_(Gate(d)!vars)
  <2>1. complaints'[d].status = complaints[d].status
    BY <1>7, WorkerKeepsStatus
  <2>2. CASE Scan(w) \/ CheckClaim(w) \/ ProviderReturns(w) \/ TryRaises(w)
    BY <1>2, <2>2 DEF Scan, CheckClaim, ProviderReturns, TryRaises
  <2>3. CASE ClaimNext(w)
    BY <2>1, <2>3, ClaimNextMoves, WorkPassesGate
  <2>4. CASE CompleteClaim(w)
    BY <2>1, <2>4, CompleteMoves, WorkPassesGate
  <2>5. CASE FailAttempt(w)
    <3>1. /\ ClaimOK(workers[w].claim, jobs) /\ workers[w].at \in Nat
          /\ workers[w].code \in ERROR_CODES
      BY <2>5, WorkerFacts DEF FailAttempt
    <3> QED BY <2>1, <2>5, <3>1, FailMoves, WorkPassesGate DEF FailAttempt
  <2> QED BY <1>7, <2>2, <2>3, <2>4, <2>5 DEF WorkerStep
<1>8. CASE \/ CatalogLapses
           \/ \E w \in Workers, r \in Releases : RestartWorker(w, r)
           \/ Tick
           \/ UNCHANGED vars
  BY <1>2, <1>8 DEF CatalogLapses, RestartWorker, Tick, vars
<1> QED BY <1>3, <1>4, <1>5, <1>6, <1>7, <1>8 DEF Next, OtherStep, Request

\* The queue implements ReviewGate for each of its complaints, however many
\* workers, releases, retries and requests there are.
THEOREM Gates == Spec => KeepsGates
<1>1. Init => \A c \in Complaints : Gate(c)!Init
  BY DEF Init, Gate!Init, ActiveJobs
<1>2. IInv /\ [Next]_vars => [\A c \in Complaints : [Gate(c)!Next]_(Gate(c)!vars)]_vars
  BY NextPassesGate
<1> QED BY <1>1, <1>2, Invariant, PTL DEF Spec, KeepsGates
=============================================================================
