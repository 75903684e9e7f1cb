------------------------------- MODULE Triage -------------------------------
(***************************************************************************)
(* What one complaint is given by triage: _process_existing of             *)
(* services/pipeline.py with all it decides, at once or in a worker that   *)
(* prepares a result and stores it later.  Providers answer whatever they  *)
(* like; midnight may pass between any two looks at the calendar.          *)
(*                                                                         *)
(* Jobs, leases and retries are AIQueue's; here a job waits, has a result  *)
(* prepared, and ends.                                                     *)
(***************************************************************************)
EXTENDS Classification, Drafting

CONSTANTS
    Texts,         \* what complaints can say
    Answers,       \* what a classifier that is not the rules may return
    Drafts,        \* what a draft provider that is not the rules may return
    Threshold,     \* auto_route_threshold
    CatalogUntil,  \* last day of the loaded catalog
    MaxDay,        \* bound on the calendar
    MaxTriages,    \* bound on requests for triage
    Projections,   \* what the department table may say: active departments
    Nowhere        \* no assigned department

ASSUME TextsAssumption ==
    \A t \in Texts :
       /\ t.hits \in [DOMAIN Rules -> Nat] /\ t.emergency \in Urgencies
       /\ t.sensitive \in BOOLEAN /\ t.located \in BOOLEAN

ASSUME BoundsAssumption == MaxDay \in Nat /\ Threshold \in 0..100 /\ Nowhere \notin Departments

ASSUME CatalogDateAssumption == CatalogUntil \in Int

ASSUME ProjectionsAssumption == Projections \subseteq SUBSET Departments

\* ClassificationResult: one to three candidates, sorted by confidence.
ASSUME AnswersAssumption ==
    \A a \in Answers :
       /\ a \in ClassificationType
       /\ Len(a.candidates) \in 1..3
       /\ \A i, j \in DOMAIN a.candidates :
             i < j => a.candidates[i].confidence >= a.candidates[j].confidence

VARIABLES
    text,        \* the complaint's text
    day,         \* date.today()
    superseded,  \* another process has imported a newer catalog
    projected,   \* departments of this catalog with active rows in the table
    triage,      \* the complaint's triage columns and grounding record
    job,         \* its AI job: "none", "waiting" or "prepared"
    prepared,    \* PreparedTriage in the worker's memory
    triages      \* how often officers and citizens have asked for triage

vars == <<text, day, superseded, projected, triage, job, prepared, triages>>

Untriaged == [status |-> "received", department |-> Nowhere]

Nothing == [by |-> "nobody"]

Init ==
    /\ text \in Texts
    /\ day = 0
    /\ superseded = FALSE
    /\ projected \in Projections
    /\ triage = Untriaged
    /\ job = "none"
    /\ prepared = Nothing
    /\ triages = 0

\* _require_routing_catalog finds no fault.
InForce(today) == ~superseded /\ today <= CatalogUntil

Midnight == {day} \cup When(day < MaxDay, day + 1)

-----------------------------------------------------------------------------
(* The decision.                                                           *)

Level(urgency) == CASE urgency = "normal" -> 0 [] urgency = "high" -> 1 [] urgency = "critical" -> 2

\* Mutant: the classifier's urgency stands.
Urgency_Provider(x) == x.urgency

\* The higher of what the classifier says and what the text says.
Urgency(x) == IF Level(x.urgency) >= Level(text.emergency) THEN x.urgency ELSE text.emergency

\* The classification that stands in for one that failed.
StandIn ==
    [failed |-> FALSE, category |-> "other", subcategory |-> "failed", urgency |-> "normal",
     missing |-> FALSE, review |-> TRUE, reasons |-> {"classifier_error"},
     candidates |-> <<[department |-> Fallback, confidence |-> 0, version |-> CatalogVersion,
                       tasks |-> TasksOf[Fallback]]>>]

\* Both looks at the catalog and the binding in between.
Classified(x, today) ==
    LET bound == Bound(x)
    IN  IF x.failed \/ ~InForce(today) \/ bound.failed THEN StandIn ELSE bound

CandidateCategories(candidates) ==
    {CategoryOf[candidates[i].department] : i \in DOMAIN candidates}

\* evaluate_policy, on the text and on every candidate's category.
PolicyReasons(category, candidates) ==
    When(text.sensitive, "sensitive_signal")
    \cup When(SensitiveCategory(category), "sensitive_category")
    \cup When(\E c \in CandidateCategories(candidates) : SensitiveCategory(c), "sensitive_category")

\* One rule of the department that asks for a location is enough, matched or not.
NeedsPlace(x) == \E i \in RulesOf(x.candidates[1].department) : Rules[i].needsPlace

ReviewReasons(x, forced) ==
    x.reasons \cup forced \cup PolicyReasons(x.category, x.candidates)
    \cup When(x.review, "classifier_requires_review")
    \cup When(Urgency(x) # "normal", "urgent_safety_signal")
    \cup When(x.candidates[1].confidence < Threshold, "low_routing_confidence")
    \cup When(NeedsPlace(x) /\ ~text.located, "location_required")
    \cup When(x.candidates[1].department \notin projected, "inactive_department_projection")

\* What _process_existing stores.  "raw", "on" and "active" are history: the answer
\* the classifier gave, the day the documents were retrieved, and whether the best
\* department's row was active.
Decision(x, forced, documents, draft, raw, on) ==
    LET review == ReviewReasons(x, forced) # {} \/ draft.review
        status == IF Urgency(x) # "normal" THEN "urgent_review"
                  ELSE IF review THEN "needs_review" ELSE "assigned"
    IN  [status |-> status, category |-> x.category, subcategory |-> x.subcategory,
         urgency |-> Urgency(x), candidates |-> x.candidates,
         department |-> IF status = "assigned" THEN x.candidates[1].department ELSE Nowhere,
         documents |-> documents, sources |-> draft.sources, sentences |-> draft.sentences,
         grounding |-> draft.grounding, deferred |-> forced # {}, raw |-> raw, on |-> on,
         active |-> x.candidates[1].department \in projected]

\* The rules' sentences, or those of some other provider.
Sentences(documents) == {RulesDraft(text, documents)} \cup Drafts

\* An answer, and what classify makes of it: OpenAIClassifier binds it to the
\* catalog before it returns, another classifier may not, and any may raise.
Classifications ==
    {[raw |-> a, result |-> a] : a \in Answers \cup {Failure, ByRules(text)}}
    \cup {[raw |-> a, result |-> Bound(a)] : a \in Answers}

Deferred == {"deferred_ai_requires_review"}

-----------------------------------------------------------------------------
(* Actions.                                                                *)

\* create_and_process or reprocess where AI work is not deferred; a request while
\* a job is live changes nothing.
Process ==
    /\ job = "none" /\ triages < MaxTriages
    /\ \E c \in Classifications, today \in Midnight, on \in Midnight :
          LET x == Classified(c.result, today)
              documents == Retrieved(x.category, text, on)
          IN  /\ today <= on /\ day' = on
              /\ \E s \in Sentences(documents) :
                    triage' = Decision(x, {}, documents, Draft(s, documents), c.raw, on)
    /\ triages' = triages + 1
    /\ UNCHANGED <<text, superseded, projected, job, prepared>>

\* Mutant: the candidates of the preflight are not looked at.
SafetyReasons_NoCandidates(t) ==
    When(text.sensitive, "sensitive_signal")
    \cup When(SensitiveCategory(t.category), "sensitive_category")
    \cup When(text.emergency # "normal" \/ t.urgency # "normal", "urgent_safety_signal")

\* deferred_safety_reasons, for a complaint triaged as t.
SafetyReasons(t) ==
    PolicyReasons(t.category, t.candidates)
    \cup When(text.emergency # "normal" \/ t.urgency # "normal", "urgent_safety_signal")

\* _enqueue_processing: local triage for officers, and a job unless there are reasons.
Enqueue ==
    /\ job = "none" /\ triages < MaxTriages
    /\ \E today \in Midnight, on \in Midnight :
          LET x == Classified(ByRules(text), today)
              documents == Retrieved(x.category, text, on)
              draft == Draft(RulesDraft(text, documents), documents)
          IN  /\ today <= on /\ day' = on
              /\ triage' = Decision(x, Deferred, documents, draft, ByRules(text), on)
              /\ job' = IF SafetyReasons(triage') = {} /\ InForce(on) THEN "waiting" ELSE "none"
    /\ triages' = triages + 1
    /\ UNCHANGED <<text, superseded, projected, prepared>>

\* What prepare_deferred makes of an answer: its reasons are replaced by one code.
Untrusted(x) == [x EXCEPT !.reasons = When(@ # {}, "provider_requires_review")]

\* The worker checks the job, asks its providers and keeps what they said.
Prepare ==
    /\ job = "waiting"
    /\ InForce(day) /\ SafetyReasons(triage) = {}
    /\ \E c \in Classifications, today \in Midnight, on \in Midnight :
          LET x == Bound(Untrusted(c.result))
              documents == Retrieved(x.category, text, on)
          IN  /\ today <= on /\ day' = on
              /\ ~c.result.failed /\ today <= CatalogUntil /\ ~x.failed
              /\ \E s \in Sentences(documents) :
                    prepared' = [by |-> "worker", result |-> x, documents |-> documents,
                                 draft |-> Draft(s, documents), raw |-> c.raw, on |-> on]
    /\ job' = "prepared"
    /\ UNCHANGED <<text, superseded, projected, triage, triages>>

\* Mutant: the documents are retrieved again for the draft that was prepared.
Apply_RetrievesAgain ==
    /\ job = "prepared"
    /\ InForce(day) /\ SafetyReasons(triage) = {}
    /\ \E today \in Midnight :
          /\ day' = today
          /\ triage' = Decision(Classified(prepared.result, today), Deferred,
                                Retrieved(prepared.result.category, text, today),
                                prepared.draft, prepared.raw, today)
    /\ job' = "none"
    /\ prepared' = Nothing
    /\ UNCHANGED <<text, superseded, projected, triages>>

\* Mutant: the prepared result is stored without forcing review.
Apply_Unforced ==
    /\ job = "prepared"
    /\ InForce(day) /\ SafetyReasons(triage) = {}
    /\ \E today \in Midnight :
          /\ day' = today
          /\ triage' = Decision(Classified(prepared.result, today), {}, prepared.documents,
                                prepared.draft, prepared.raw, prepared.on)
    /\ job' = "none"
    /\ prepared' = Nothing
    /\ UNCHANGED <<text, superseded, projected, triages>>

\* The worker checks again, completes the job and stores the result.
Apply ==
    /\ job = "prepared"
    /\ InForce(day) /\ SafetyReasons(triage) = {}
    /\ \E today \in Midnight :
          /\ day' = today
          /\ triage' = Decision(Classified(prepared.result, today), Deferred, prepared.documents,
                                prepared.draft, prepared.raw, prepared.on)
    /\ job' = "none"
    /\ prepared' = Nothing
    /\ UNCHANGED <<text, superseded, projected, triages>>

\* The job fails: a check finds a fault, the providers do, or attempts run out.
GiveUp ==
    /\ job # "none"
    /\ job' = "none"
    /\ prepared' = Nothing
    /\ UNCHANGED <<text, day, superseded, projected, triage, triages>>

\* An officer approves, pending work ends.  The record keeps what triage drafted;
\* the answer as edited is ReplyPublication's.
Approve(d) ==
    /\ triage # Untriaged /\ InForce(day) /\ d \in projected
    /\ triage' = [triage EXCEPT !.status = "reviewed", !.department = d]
    /\ job' = "none"
    /\ prepared' = Nothing
    /\ UNCHANGED <<text, day, superseded, projected, triages>>

NextDay ==
    /\ day < MaxDay
    /\ day' = day + 1
    /\ UNCHANGED <<text, superseded, projected, triage, job, prepared, triages>>

\* Another process imports a newer catalog, which writes the department table anew
\* and takes automatic routes back.
Supersede ==
    /\ ~superseded
    /\ superseded' = TRUE
    /\ projected' \in Projections
    /\ triage' = IF triage.status = "assigned"
                 THEN [triage EXCEPT !.status = "needs_review", !.department = Nowhere]
                 ELSE triage
    /\ UNCHANGED <<text, day, job, prepared, triages>>

\* A start that overlapped another writes the rows back that it had read.
Overwrite ==
    /\ projected' \in Projections
    /\ UNCHANGED <<text, day, superseded, triage, job, prepared, triages>>

Next ==
    \/ Process \/ Enqueue \/ Prepare \/ Apply \/ GiveUp
    \/ \E d \in Departments : Approve(d)
    \/ NextDay \/ Supersede \/ Overwrite

Spec == Init /\ [][Next]_vars

-----------------------------------------------------------------------------
(* Properties.                                                             *)

Statuses == {"received", "needs_review", "urgent_review", "assigned", "reviewed"}

TypeOK ==
    /\ text \in Texts /\ day \in 0..MaxDay /\ superseded \in BOOLEAN
    /\ projected \subseteq Departments
    /\ triage.status \in Statuses
    /\ triage.department \in Departments \cup {Nowhere}
    /\ triage # Untriaged =>
          /\ triage.sources \subseteq triage.documents /\ triage.documents \subseteq Documents
          /\ triage.grounding \in {"grounded", "no_sources", "flagged"}
          /\ triage.on \in 0..day
    /\ job \in {"none", "waiting", "prepared"}
    /\ (job = "prepared") <=> (prepared # Nothing)

\* What an answer must be for a machine to route by it: every department active,
\* not sensitive and named once, tasks and version of this catalog, nothing left open.
Sound(a) ==
    /\ ~a.missing /\ ~a.review /\ a.reasons = {} /\ a.urgency = "normal"
    /\ \A i \in DOMAIN a.candidates :
          LET c == a.candidates[i] IN
          /\ c.department \in Departments
          /\ c.version \in {NoVersion, CatalogVersion} /\ c.tasks \subseteq TasksOf[c.department]
          /\ ~SensitiveCategory(CategoryOf[c.department])
          /\ \A j \in DOMAIN a.candidates : j # i =>
                a.candidates[j].department # c.department

\* A complaint is routed without a person only while nothing speaks against it: a
\* catalog nobody has replaced, a calm, plain text, a sound answer that is sure of
\* one department and its work, a row that was active when it was routed, a location
\* wherever it asks for one, and a grounded draft.
AssignedIsSafe ==
    triage.status = "assigned" =>
       LET top == triage.candidates[1] IN
       /\ ~superseded
       /\ triage.department = top.department /\ top.department # Fallback
       /\ triage.active
       /\ text.emergency = "normal" /\ ~text.sensitive
       /\ Sound(triage.raw)
       /\ triage.category = CategoryOf[top.department]
       /\ top.confidence >= Threshold
       /\ \A i \in 2..Len(triage.candidates) :
             /\ triage.candidates[i].confidence < 90
             /\ top.confidence - triage.candidates[i].confidence > 5
       /\ \E i \in RulesOf(top.department) : Rules[i].subcategory = triage.subcategory
       /\ text.located \/ \A i \in RulesOf(top.department) : ~Rules[i].needsPlace
       /\ ~triage.deferred
       /\ triage.grounding = "grounded"

\* The candidates officers see are active departments, each once, with work of
\* their own, whatever the answer said and however often it was bound.
CandidatesAreOurs ==
    triage # Untriaged =>
       /\ triage.candidates # <<>>
       /\ \A i, j \in DOMAIN triage.candidates :
             LET c == triage.candidates[i] IN
             /\ c.department \in Departments
             /\ c.version = CatalogVersion
             /\ c.tasks # {} /\ c.tasks \subseteq TasksOf[c.department]
             /\ triage.candidates[j].department = c.department => i = j

\* A danger named in the text is never played down, by no answer and at no later
\* triage, and no machine routes it.
DangerIsKept ==
    triage # Untriaged =>
       /\ Level(triage.urgency) >= Level(text.emergency)
       /\ triage.status # "reviewed" =>
             (triage.urgency # "normal" <=> triage.status = "urgent_review")
       /\ triage.status = "urgent_review" => triage.department = Nowhere

\* Every source of a draft was, on the day it was retrieved, approved, in force,
\* safe, and not replaced by a newer version in force; only sentences it supports
\* are in the draft, and "grounded" means that none was turned away.
CitationsHold ==
    triage # Untriaged =>
       /\ \A d \in triage.documents :
             /\ InUse(d, triage.on) /\ ~Guide[d].unsafe /\ ~Guide[d].personal
             /\ Guide[d].successor # NoDocument => ~InUse(Guide[d].successor, triage.on)
       /\ \A s \in triage.sentences :
             /\ ~s.unsafe /\ ~s.personal
             /\ s.sources \subseteq triage.documents
             /\ s.substantive => s.sources # {} /\ s.shared >= 2
       /\ triage.grounding = "grounded" => triage.sources # {}

\* What waits for an external provider is harmless: no danger, no sensitive word,
\* and no sensitive department among the local candidates.
QueuedIsHarmless ==
    job # "none" =>
       /\ text.emergency = "normal" /\ ~text.sensitive
       /\ triage.status = "needs_review"
       /\ \A i \in DOMAIN triage.candidates :
             ~SensitiveCategory(CategoryOf[triage.candidates[i].department])

\* What a worker prepared is what the complaint is given, whatever happens until it
\* is stored: the documents and the draft, and the classification they were made
\* for, which is bound to the catalog once more.  Only the end of the catalog's
\* period puts the stand-in in its place.
GivesWhatWasPrepared ==
    job = "prepared" /\ triage' # triage /\ triage'.status # "reviewed" =>
       /\ triage'.documents = prepared.documents
       /\ triage'.sentences = prepared.draft.sentences
       /\ triage'.grounding = prepared.draft.grounding
       /\ \/ /\ triage'.category = prepared.result.category
             /\ triage'.subcategory = prepared.result.subcategory
             /\ triage'.candidates = prepared.result.candidates
          \/ CatalogUntil < day' /\ triage'.candidates[1].department = Fallback
StoredAsPrepared == [][GivesWhatWasPrepared]_vars

\* The complaint as the gate sees it; officers have it either way they review.
Standing(status) ==
    CASE status = "received" -> "absent"
      [] status \in {"needs_review", "urgent_review"} -> "review"
      [] OTHER -> status

Gate == INSTANCE ReviewGate WITH status <- Standing(triage.status), pending <- job # "none"

\* Triage keeps the gate: whatever a provider says and whenever its answer comes,
\* what was prepared ends with an officer, and a decision stands until somebody
\* asks for triage again.
KeepsGate == Gate!Spec
=============================================================================
