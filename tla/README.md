# TLA+ models of the complaint triage service

The service takes complaints from citizens, triages them with rules or an AI
provider, parks them for officers, and shows citizens the answers officers
publish.  It runs as one or more web processes (`src/app/main.py`) and worker
processes (`src/app/worker.py`) on one SQLite file.  All coordination goes
through that file: there is no broker and no shared memory between processes.

## The system

| Component | State it keeps | Operations | Correct means |
|---|---|---|---|
| AI work queue (`services/ai_queue.py`) | `ai_processing_jobs`, `ai_processing_requests` | enqueue, claim, fail, complete, recover expired leases, supersede | one live job per complaint; only the current claim ends a job; attempts stay within the budget; every job ends |
| AI worker (`worker.py`) | claim, release it was started with | run_once: claim, check, call the provider, re-check, commit or fail | no result is stored under other conditions than the job's; crashes lose no job |
| Complaint pipeline (`services/pipeline.py`) | `complaints`, grounding records, review decisions | create, reprocess, approve, apply a deferred result | pending work never routes automatically; an officer's decision is never overwritten by a machine |
| Department catalog (`services/department_catalog.py`) | versions, entries, import events, `departments` | import at start-up, validate against history, project, invalidate routes | versions form a chain; retired ids stay retired; no route outlives its catalog |
| Answers (`pipeline.approve`, `citizen.publish_reply`, `services/draft.py`) | `review_decisions`, `published_replies`, grounding record | triage, approve, publish | citizens see the latest decision they were shown, in order, once each; grounding verdicts stay with their text |
| Citizen portal (`services/citizen.py`, `api/citizen.py`) | sessions, submissions, grants | create a session, file, look up, open | one complaint per form, whole or not at all, and open only to its owner or with its code |
| Citizen rate limiter (`services/citizen.py`) | buckets in memory, under a lock | allow | bounded windows and bounded memory |
| Duplicates and locations (`services/duplicates.py`) | candidate rows, location reviews | refresh, decide, normalise, confirm | suggestions rest on the latest triage, none is missed, and rows tell the officers' decisions, but for a row that changed under an officer |
| Officer sessions (`services/auth.py`) | none: signed tokens | log in, check role and CSRF | |
| Classifiers and providers (`services/classifier.py`, `openai_classifier.py`, `policy.py`) | the loaded catalog | score rules, ask a provider, bind its answer | whatever a provider says, candidates are departments and tasks of the catalog, and doubts reach an officer |
| Retrieval and drafts (`services/knowledge.py`, `draft.py`) | the loaded documents | select, retrieve, check sentences | only guidance in force is cited, only supported sentences are kept |
| Text rules (`services/pii.py`, `emergency.py`) | none: functions of text | redact, detect | |
| Audit log (`services/audit.py`, `database.py`) | `audit_events`, append-only triggers | append | an event commits with what it tells of |

**How they interact.**  Web requests call the pipeline, which enqueues jobs,
writes the complaint and its audit events in one transaction.  Workers poll
the queue, call the provider without a database session, and come back with a
second transaction.  A catalog import at start-up moves routed complaints back
to officers.  An approval ends the complaint's queued and running jobs in its
own transaction.  Publication copies a review into an immutable reply.

**What is hard.**  Reads that precede the writer lock (a SELECT in pysqlite is
its own transaction), clocks read before a lock, leases that expire under a
worker, crashes between the provider call and the commit, requests repeated
with the same key, pages that stay open while the complaint moves on, two
processes starting with different catalogs, and sessions that expire while a
request is on its way.  `PROJECT.json` lists these hazards line by line.

## Conventions shared by the modules

* A write transaction is **one action**: its first statement is an INSERT or
  UPDATE and takes SQLite's single writer lock until it commits
  (`lock_complaint` exists for that), so no other writer runs in between.
* What a handler **reads before its first write** is a step of its own, and
  the transaction then runs with what was read: the lease scan and clock of
  `claim_next`, the attempt count and clock of `fail`, the history and the
  department rows of an import, the session and the previous submission of a
  filing.
* A rollback is a step that changes no table.
* Texts, names, scores and messages are members of small sets; what a pure
  function of text decides is a free choice within what the code allows.
* Several clock reads inside one transaction are one instant.
* A definition ending in a name after an underscore, preceded by a comment that
  begins with "Mutant", is a plausible bug.  No specification uses it; it is
  there to show that the property it breaks can be broken.

## Modules

| Module | Models | Its abstract promise |
|---|---|---|
| `AIQueue` | the queue, the workers and the request handlers that feed them | `JobLifecycle` for the jobs, `ReviewGate` for each complaint |
| `RequestKeys` | `AIQueue` with the history an HTTP client has of its keys | |
| `DepartmentCatalog` | imports by several web processes, routes and approvals under a catalog | |
| `ReplyPublication` | one complaint from draft to published answer, with pages left open | `CitizenView` |
| `CitizenIntake` | filing, retries, lookup codes and grants | `CitizenDesk` |
| `Duplicates` | suggestions, location reviews and the officers' decisions on them | `PairReview` |
| `Classification` | from a text or a provider's answer to bound candidates | |
| `Drafting` | documents in force, retrieval, the sentences that survive | |
| `Triage` | what one complaint is given, at once or by a worker; extends the two above | `ReviewGate` |
| `AIQueueProofs`, `AIQueueBudgetProofs`, `DepartmentCatalogProofs`, `ReplyPublicationProofs`, `CitizenIntakeProofs`, `DuplicatesProofs`, `ClassificationProofs`, `TriageProofs` | theorems and proofs | |
| `MC...` | instances for TLC: model values, releases, catalog files, symmetry | |

### AIQueue

`jobs` and `requests` are the two tables; a missing token or lease is 0.
`workers[w].pc` is where `run_once` stands: `idle`, `scanned` (clock and
expired leases read), `claimed`, `calling` (provider), `prepared`, `rejecting`
(a failed precondition on its way to `fail`) and `failing` (an exception on its
way there).  A *release* is what a process is started with: settings, catalog
file, text rules and the complaints they flag; web and worker processes may run
different ones.

| Action | Code |
|---|---|
| `StartWeb`, `CatalogLapses` | start-up import (atomic here, in detail in `DepartmentCatalog`), `effective_until` |
| `CreateAndProcess`, `Reprocess`, `Approve` | the three pipeline handlers with all they change |
| `Scan`, `ClaimNext` | `claim_next` before and under the lock |
| `CheckClaim`, `ProviderReturns`, `CompleteClaim` | `run_once` around the provider call |
| `TryRaises`, `FailAttempt` | the except clauses and `_fail_attempt` |
| `RestartWorker`, `Tick` | crashes, time |

A claim's `uuid4` token is the number of the attempt it consumes: both are
fresh per claim.  The separate SELECTs of the check before the provider call
are one read.  Status `review` stands for `needs_review` and `urgent_review`.
`available_at` of a finished row is never read again and is kept 0.
A blocked approval changes nothing and is not an action.

### ReviewGate

What the service promises about one complaint, whoever handles it: pending AI
work waits behind officers, its end leaves the complaint with them, a decision
ends it, a new catalog takes an automatic route back, and nothing but a request
for triage clears a decision.  Two modules look at a complaint from different
sides and implement this one promise: `AIQueue`, for every complaint, with
leases, retries and crashes but no answers (`KeepsGates`), and `Triage`, for one
complaint, with every answer, draft and midnight but no leases (`KeepsGate`).
`DepartmentCatalog` does not map to it: there a triage puts any status in one
step, without the job in between.

### DepartmentCatalog

A process is `down`, has read the history (`seen`, the number of events), has
read the department rows on the idempotent path (`rows`), or is up with a
file.  `Insert` is the transaction of a new version, `Resync` that of the same
version again; `Reject` is a refused start.  A file is a record that stands for
its bytes, so equal checksums are equal records.  Work assignments and routing
rules are *tasks*, ids that a department owns.  All reads of one import are one
snapshot.  Document-level validation (`validate_catalog`) is the assumption
`DocumentAssumption` on the files; whether a successor is accepted is modelled
in full (`Succeeds`, `StableIds`).

### ReplyPublication

One complaint.  `pages[p]` is the review number in the publication form of an
open page.  `machine` is a history variable: the last draft a machine wrote and
the verdict on it.  `redact_pii` is the set `Identifying`; approve and publish
use the same rules.  `Triage` covers a reprocess and a deferred result.  The
initial states include a complaint of a database older than grounding records.
`Texts`, `Pages` and `MaxReviews` bound the instance.

### CitizenIntake

`requests[r].at` is where a POST stands: `posted` (session checked), `checked`
(no previous submission found), `filing` (rows flushed, lock held),
`rolled_back` (unique constraint fired), `granting` (code matched, no grant
found) or `regranting` (a rival inserted the grant first).  `Fail` stands for every other error, a lock timeout and the end of the
process.  `receipts` and `opened` are histories of what browsers were told; a
lost answer leaves no entry.  A code is known to anybody once a receipt page
has shown it.  Colliding receipt numbers roll back and answer 503, which is
`Fail`.  Texts, the request limit, preview and the listing page are left out;
complaints filed by staff have no submission and are not among `complaints`.

`CitizenDesk` is what the citizen is promised, without requests, locks,
rollbacks and session rows: a form nobody filed becomes a complaint that is its
browser's from the commit that makes it visible, every answer names it, access is
only ever added, and a stranger's access needs the code that was shown.  Access is
a right that the mapping keeps after the session expires; only a live session
can use it (`Post`, `Lookup` and `ShowReceipt` ask for one).

### Duplicates

`rows` is `duplicate_candidates` by its rowid: SQLite gives the largest id in use
plus one, so an id freed by a refresh comes back for another pair.  `locations`
is `complaint_location_reviews`, `triage` what the other complaints read of a
complaint: its category and normalised place.  Which triages a complaint may get
(`Outcomes`), how alike two texts are and when they were filed are constants.
`Process` is the part of `_process_existing` that runs under the lock:
`sync_location_review` and `refresh_duplicate_candidates`, the latter with the
delete, the search inside the window, the cut at the limit and the new ids.

An officer's request is two steps.  `ReadCandidate` and `ReadLocation` run
without a lock and remember the row they saw; `WriteCandidate` and
`WriteLocation` are the commit, an UPDATE by primary key that sets only the
columns whose new value differs from the one read, which is what SQLAlchemy
sends.  `Fail` is every rollback, the missing row and the duplicate insert
among them.  `decisions` and `confirmed` are histories of the audit events.
`lostPairs` and `lostPlaces` are histories too: what was touched by an UPDATE
that met another row than the one read.

### Classification, Drafting and Triage

A text is a record of what the detectors and counters make of it: keyword hits
per rule, danger, sensitive words, a location, tokens shared with each document.
The patterns themselves are not modelled.  Confidences are in percent, days are
numbers.

| Operator or action | Code |
|---|---|
| `ByRules`, `Bound` | `RuleBasedClassifier.classify`, `bind_classification` |
| `Eligible`, `Retrieved` | `_eligibility_reason`, `retrieve` |
| `RulesDraft`, `Draft` | `RulesGroundedDraftProvider`, `CitationEnforcedDrafter.generate` |
| `Decision` | the columns and the grounding record `_process_existing` stores |
| `Process` | `_process_existing` at once, from create or reprocess |
| `Enqueue` | `_enqueue_processing` with `deferred_safety_reasons` |
| `Prepare`, `Apply`, `GiveUp` | `prepare_deferred`, `apply_deferred`, and the ends of a job |
| `Approve`, `NextDay` | the officer, midnight |
| `Supersede` | another process's import: the department table, and `_invalidate_automatic_routes` on this complaint |
| `Overwrite` | a start that overlapped it: `_sync_current_projection` with the rows it had read |

Providers are free: `Answers` and `Drafts` are any sets of answers and of
sentences, and a provider may raise.  `date.today()` is read several times in one
triage, so midnight may fall between classification and retrieval.  `raw` and
`on` are histories: the answer a triage started from, and the day its documents
were retrieved; `active` says whether the best department's row was active then.
`projected` is what the department table says of this catalog's departments, any
member of `Projections`: a triage asks it for a reason to review, an approval
needs it, and imports rewrite it at any moment.  Jobs here only wait, hold a
result or end; their leases and retries are `AIQueue`'s.

## Runs

| Run | Asks | Instance |
|---|---|---|
| `queue_contention` | do tokens fence stale workers and does the budget hold? | 2 workers (symmetric), 1 job, 2 attempts (1 after a catalog rollover), 1 restart |
| `queue_requests` | do requests, approvals and mode switches keep one live job and the officers' gate, and is a key answered alike every time? | 1 complaint, 2 keys, 2 jobs, 1 worker, deferred and synchronous webs |
| `queue_recovery` | does a transaction that recovers one job and claims another stay within the life cycle? | 2 complaints, 2 jobs, 1 worker, 1 restart |
| `queue_drift` | are results stored only under the job's own conditions, and does every job end? | 1 job, releases with another model, other rules, other safety rules |
| `queue_keys` (violation) | does a repeated key leave a reviewed complaint alone? | 1 complaint, 2 keys |
| `catalog_overlap` | what holds whatever starts overlap? | 2 processes, 4 files |
| `catalog_serial` | what holds when one process runs at a time? | 1 process, 10 files, legal and illegal successors over up to five versions |
| `catalog_fork` (violation) | do overlapping starts keep the chain of versions? | 2 processes, 4 files |
| `publication` | is what citizens see in order, reviewed and honest? | 2 pages, 3 texts, 2 approvals |
| `intake` | is a form filed once, answered alike and opened by the right browsers, and is the promise of the desk kept? | 2 sessions, 2 forms, 2 requests at a time, 3 complaints |
| `duplicates` | do suggestions follow the triages and rows tell the decisions, whatever overlaps? | 4 complaints (one older than the tables, one without a place), 2 officers, 2 requests, 3 row ids, a list of 1 |
| `triage` | what can wrong answers, bad drafts, midnight and new catalogs do to one complaint, and is what was prepared stored, behind the gate? | 14 texts, 22 answers, 9 drafts, 4 departments (a sensitive one, the fallback), 2 department tables, 6 documents, 3 days |

**Why the bounds are enough.**  Fencing needs two holders of one row and one
expiry; both occur with two workers and one job.  Two attempts make a claim
both a retry and a last try.  A lease of 2 and a backoff of 1 let a
worker be late, in time, or exactly at the boundary.  One restart puts a crash
at any point.  Two jobs are needed where one transaction touches two rows
(`queue_recovery`) or a complaint gets a second job (`queue_requests`).
Ten catalog files give retirement, return after one and after two versions,
takeover by another department, and rival successors.  Three complaints leave
room for a conflict beside a completed filing.  `Tick` is taken only while a
deadline lies ahead: later than every deadline, the code cannot tell instants
apart.  In `duplicates` a category and a place each change once, which makes pairs
come and go; one pair is exactly a window apart and one is a day further.  A
list of one makes better matches push others out; three row ids are enough for
an id to be freed and used again between an officer's read and write, which
takes one request, and the second request makes two decisions overlap.
`MaxTriages` is 1 in `triage`: a triage overwrites every column, and what one
leaves behind for the next is only the job, which `Apply` and `GiveUp` end.  A
reopening after a review is therefore not reached in this run: `queue_requests`
checks the same gate with it, and `GateIsKept` is proved for any `MaxTriages`.
Two department tables, with and without one row, let a route meet a row that is
missing, comes back or goes between triage and approval.
The 22 answers have one flaw each, and confidences at, above and below each
limit.  The theorems below do not depend on these bounds.

**Deadlock.**  Queue instances really stop when all jobs are finished and no
request is left, and `CitizenIntake` when all cookies of the instance have
expired, and `Triage` on its last day; these configurations set
`CHECK_DEADLOCK FALSE`.  Catalogs, publication and duplicates are checked for
deadlock.

**Fairness** (`queue_drift` only): weak fairness of each worker's steps, as
`--watch` polls until it is stopped and the provider client has a 30 second
timeout, and of the clock.  Nothing is assumed of citizens, officers, web
processes or restarts.  A worker process that dies and is never restarted is
outside this assumption: the repository has no supervisor, and `JobsFinish`
says nothing then.  `claim_next` itself may raise, which ends the process; that
is `RestartWorker`.

**Mutants.**  Every property of every passing run comes with a bug that breaks
it in the same instance (a token kept on retry, a missing constraint, a commit
too early, a validation against the previous version only, ...).

**Implied, so not run by themselves.**  `ActiveJobParked` follows from
`KeepsGates`, and `NothingHalfFiled` and `AnswersOpen` from `ImplementsDesk`.
They keep their definitions and theorems, because the inductive invariants rest
on them.  `JobsAdvance`, `DeadlinesNear` and `KeysNameJobs` are
proved for every instance; TLC agrees on the instances of `queue_contention`,
`queue_requests` and `queue_drift`.

## Where the code and its documents differ

* `queue_keys`: `docs/ARCHITECTURE.md:118-119` says existing keys never reopen
  a reviewed record.  A request whose AI work is skipped (sensitive text, no
  catalog in force) stores no key, so repeating it after the approval clears
  the review.
* `catalog_fork`: `docs/ARCHITECTURE.md:151-152` says a successor must name the
  current version.  The import checks this before it holds the lock; two
  processes that start together can both import a successor of the same
  version.  `docs/DEPARTMENT_CATALOG.md:85-86` asks operators to stop the app
  before replacing the catalog, which avoids it.

For the same reason `ProjectionIsCurrent`, `RetiredStaysRetired` and
`StableOwners` are checked and proved for starts that do not overlap.

Behaviour no document speaks of, found while modelling and written into the
properties as exceptions or assumptions:

* An officer reads suggestion 7, a refresh deletes it and gives id 7 to another
  pair, and the officer's UPDATE decides that pair.  `RowsTellDecisions` excepts
  the pairs touched so (`lostPairs`); without the exception TLC breaks it in
  seven steps.
* Two officers decide one pair at once.  Columns whose value the request did not
  change are left out of its UPDATE, so the verdict of one may stand beside the
  name of the other.  The same exception covers it.
* An officer confirms a location while a triage normalises another one: the
  confirmation lands on a text the officer did not see (`lostPlaces`).
* A guidance document that was replaced comes back into use when its successor
  expires: `_eligibility_reason` asks whether the successor is in force today.
  `CitationsHold` is stated accordingly.
* A department may have thirty work assignments (`classifier.py:60`) and a new
  candidate names at most ten (`schemas.py:37`): with more than ten in the fallback
  department, neither the unmatched text's candidate nor the stand-in could be
  made and the triage would raise.  `FallbackAssumption` leaves such catalogs out.
* The fallback department as a runner-up raises no review reason; only as the
  best candidate does it.

## Theorems

All proofs are checked by TLAPS with no step left unproved.  They hold for every
value of the constants that satisfies the modules' named assumptions.

* **AIQueue** (`AIQueueProofs`): `TypeOK`, `OneActiveJob`, `ActiveJobParked`,
  `ClaimsConsistent`.  None is inductive alone.  A new job is allowed because
  the complaint has no active one, so `OneActiveJob` needs the tables' types; a
  retry is queued only while attempts are left, and `fail` decides that with an
  attempt count read *before* the lock, so `ClaimsConsistent` carries, for
  every worker and every scanned lease, that the count read with a token is at
  least the token and at most the row's: when the token still matches, the
  count is exact.  `IInv` is the conjunction, by one lemma per action.
* **AIQueue, steps** (`AIQueueProofs`):
  `OnlyHolderEndsClaim`, `OnlyCurrentResults` and the refinement
  `Spec => ImplementsLifecycle`.  `Moves` is what one transaction of a worker
  may do to a row; `FailRowMoves`, `RecoveredMoves`, `ClaimNextMoves` and
  `CompleteMoves` show that each does that and no more.  A transaction that
  recovers a lease and claims a job moves no row twice, because a retry's
  `available_at` lies after the instant of the recovery.  Fencing also needs that
  no process holds an instant of the future (`HeldInstants`), and the results
  property that pending work belongs to the local triage (`PendingByRules`).
* **AIQueue, the gate** (`AIQueueProofs`): `KeepsGates`, the refinement of
  `ReviewGate` for every complaint.  A transaction may touch several
  complaints, so the proof is about one of them at a time: whatever a worker
  does to a job with active work leaves its complaint waiting for an officer
  (`ActiveJobParked` before and after), and every other complaint stutters.
* **AIQueue, the provider budget** (`AIQueueBudgetProofs`): `CallsWithinBudget`.
  Two workers about to call under one claim would overrun the count; they
  cannot exist (`TokensDiffer`), because every claim takes a token above all
  that were issued for its job, and a current claim has an attempt in hand
  until its call (`AttemptInHand`).
* **AIQueue, work and waiting** (`AIQueueBudgetProofs`): `JobsAdvance`, the
  rank `Progress` climbs with every change of a row, so a job of n attempts is
  changed at most 2n + 1 times; `DeadlinesNear`, no lease or retry lies further
  ahead than its delay, though both are computed from instants read before the
  lock.  The first needs that a worker's stale read moves a row only forward
  (`Moves`), the second that those instants are past (`HeldInstants`).
* **AIQueue, answers** (`AIQueueBudgetProofs`): `KeysNameJobs` and
  `AnswersStay`: a key names one job of its complaint, and always the same, also
  where it joined another key's work and that work has ended since.
  Neither is inductive: a complaint that is filed later must not find its keys
  used, which is the conjunct `NoEarlyAnswer`.
* **DepartmentCatalog** (`DepartmentCatalogProofs`): `TypeOK`,
  `OneImportPerVersion`, `RoutesAreCurrent` for any overlap of starts; and,
  assuming `OneProcess` (one process at a time), `SuccessorsNameCurrent`,
  `RetiredStaysRetired`, `StableOwners`, `ProjectionIsCurrent`.  The second
  group rests on the fact that an import's snapshot is still the
  history when its lock arrives, and on lemma `AcceptedIds`: an accepted file
  activates no known id that the previous version left inactive, whatever older
  version knew it, which makes retirement final over any distance.
* **ReplyPublication** (`ReplyPublicationProofs`): `TypeOK`,
  `RepliesFollowReviews`, `GroundingHonest`, and the refinement
  `Spec => CitizenView` under the mapping that forgets drafts and pages: a
  review is a decision, a reply a showing.  The step that publishes needs the
  invariant that replies are in the order of their reviews.
* **CitizenIntake** (`CitizenIntakeProofs`): the four invariants of the run,
  `NothingHalfFiled`, `AnswersOpen`, and the refinement `Spec => ImplementsDesk`.
  The strengthening says what a request has established at each place
  (`InProgress`: a rolled-back request can find the winner, a flushed id is
  not a committed one, a pending grant was paid for with its code), that one
  request at a time holds the lock, and that codes and grants name filed
  complaints.  In the refinement a commit files a form new to the desk because
  `UniqueRequest` is checked there, and its complaint is new because rows and
  filings come together (`NothingHalfFiled`); a grant is backed by a code
  because its request established that when it looked (`InProgress`).
* **Duplicates** (`DuplicatesProofs`): all five invariants and the refinement
  `Spec => ImplementsReview`.  `NoMatchMissed` is the hard one: for every pair
  that matches now, the complaint triaged later saw the other one with the
  triage it still has, so its list names it or is full of better ones, and what
  an officer decided is never deleted.  Shortlists are shown complete or full
  by counting (`ShortlistFacts`).
* **Triage** (`ClassificationProofs`, `TriageProofs`): all six invariants and
  both step properties, `StoredAsPrepared` and `KeepsGate`, for every catalog,
  set of documents, texts, answers and drafts.  `ClassificationProofs` shows
  what `Bound` makes of any answer, that an answer that needed no repair names
  only the catalog's departments and work, and that binding twice is binding
  once (`BindingIsIdempotent`).  `Ranked` orders a set by counting
  predecessors, so that the order of candidates can be proved without
  induction.  The inductive invariant keeps, beside the triage, that what a
  worker has prepared is as good as what it will store, is a fixed point of the
  binding that `Apply` repeats, and that a waiting job's complaint raises no
  safety reason.

`Words` stands for the strings of the catalog and the reason codes; the provers
do not know that a literal is in `STRING`, so `OwnWords` says which are.

**Only model-checked**: `JobsFinish` (liveness under fairness, beyond the
prover).  What it needs besides fairness is proved: jobs cannot go round in
circles (`JobsAdvance`) and no deadline recedes (`DeadlinesNear`).
The provers know no exponentiation: `BackoffAssumption` states that
backoffs are positive, and TLC evaluates it in every queue run.

## Not modelled

* **Rate limiter**: fixed windows in a bounded dictionary under one lock in one
  process, so its calls are serial and a test reaches each limit directly; no
  modelled state depends on it.
* **Officer sessions**: signed tokens without stored state.
* **Audit rows**: they commit with the step they tell of; `Duplicates` keeps
  those of decisions as history.
* **Text rules**: redaction, danger and sensitivity patterns, tokens and
  similarity are string functions, covered by the repository's tests and evals.
  The modules take their verdicts as attributes of texts.
* **Pages, schemas, field validation, evaluation and scripts**: no state of
  their own.
* **Versions of complaints seen by an approving officer**: the API has none; an
  approval may overwrite a newer draft, see the hazards.

## Plan

1. Done: the queue with its life cycle and gate, request keys, catalog,
   publication, intake with its desk, duplicates, triage; every invariant,
   action property and refinement of the runs is proved.
2. `CitizenRateLimiter` beside `CitizenIntake`: at most the limit per window and
   address, bounded buckets, and addresses refused while the table is full.
3. Texts in `CitizenIntake`: an edited form sent with the key of a filed one.
4. One module for `Triage` and `AIQueue` together, so that a prepared result
   meets leases and retries as well as midnight and catalogs.  `ReviewGate` is
   the interface the two already share.
