---------------------------- MODULE TriageProofs ----------------------------
(***************************************************************************)
(* Proofs about Triage: its inductive invariant, all six invariants of the *)
(* run, and that it keeps the gate of ReviewGate, for any catalog,         *)
(* guidance, texts, answers and drafts.                                    *)
(***************************************************************************)
EXTENDS Triage, ClassificationProofs

\* A triage record has these columns and no other.
Columns(t) ==
    t = [status |-> t.status, category |-> t.category, subcategory |-> t.subcategory,
         urgency |-> t.urgency, candidates |-> t.candidates, department |-> t.department,
         documents |-> t.documents, sources |-> t.sources, sentences |-> t.sentences,
         grounding |-> t.grounding, deferred |-> t.deferred, raw |-> t.raw, on |-> t.on,
         active |-> t.active]

\* What holds of documents retrieved on a day and a draft that was checked with them.
Cited(documents, draft, on) ==
    /\ documents \subseteq Documents
    /\ \A d \in documents :
          /\ InUse(d, on) /\ ~Guide[d].unsafe /\ ~Guide[d].personal
          /\ Guide[d].successor # NoDocument => ~InUse(Guide[d].successor, on)
    /\ \A s \in draft.sentences :
          /\ ~s.unsafe /\ ~s.personal
          /\ s.sources \subseteq documents
          /\ s.substantive => s.sources # {} /\ s.shared >= 2
    /\ draft.sources \subseteq documents
    /\ draft.grounding \in {"grounded", "no_sources", "flagged"}
    /\ draft.grounding = "grounded" => draft.sources # {}
    /\ draft.review \/ draft.grounding = "grounded"

\* A classification that may be stored: the catalog's candidates, or the stand-in's.
Storable(x) ==
    /\ x.urgency \in Urgencies
    /\ x.candidates # <<>> /\ 1 \in DOMAIN x.candidates /\ Ours(x.candidates)

\* What every decision the pipeline stores has in common.
DecisionOK(t) ==
    /\ Columns(t)
    /\ t.status \in {"needs_review", "urgent_review", "assigned"}
    /\ t.department \in Departments \cup {Nowhere}
    /\ t.status = "urgent_review" => t.department = Nowhere
    /\ t.urgency \in Urgencies /\ Level(t.urgency) >= Level(text.emergency)
    /\ t.urgency # "normal" <=> t.status = "urgent_review"
    /\ t.candidates # <<>> /\ Ours(t.candidates)
    /\ Cited(t.documents, [sentences |-> t.sentences, sources |-> t.sources,
                           grounding |-> t.grounding, review |-> TRUE], t.on)

\* What AssignedIsSafe demands of a route.
MayRoute(t) ==
    LET top == t.candidates[1] IN
       /\ ~superseded
       /\ t.department = top.department /\ top.department # Fallback
       /\ t.active
       /\ text.emergency = "normal" /\ ~text.sensitive
       /\ Sound(t.raw)
       /\ t.category = CategoryOf[top.department]
       /\ top.confidence >= Threshold
       /\ \A i \in 2..Len(t.candidates) :
             /\ t.candidates[i].confidence < 90
             /\ top.confidence - t.candidates[i].confidence > 5
       /\ \E i \in RulesOf(top.department) : Rules[i].subcategory = t.subcategory
       /\ text.located \/ \A i \in RulesOf(top.department) : ~Rules[i].needsPlace
       /\ ~t.deferred
       /\ t.grounding = "grounded"

\* A result the worker has prepared is bound and can be stored on any later day.
PreparedInv ==
    prepared # Nothing =>
       /\ AnswerOK(prepared.result) /\ Bound(prepared.result) = prepared.result
       /\ Cited(prepared.documents, prepared.draft, prepared.on)
       /\ prepared.on \in 0..day

\* The inductive invariant.
IInv ==
    /\ TypeOK
    /\ AssignedIsSafe
    /\ CandidatesAreOurs
    /\ DangerIsKept
    /\ CitationsHold
    /\ QueuedIsHarmless
    /\ triage # Untriaged => Columns(triage)
    /\ PreparedInv

-----------------------------------------------------------------------------
(* The parts of a decision.                                                *)

\* Levels order the urgencies.
LEMMA Levels ==
    /\ Level("normal") = 0 /\ Level("high") = 1 /\ Level("critical") = 2
    /\ \A u \in Urgencies : Level(u) \in 0..2 /\ (Level(u) = 0 => u = "normal")
<1>1. Level("normal") = 0 /\ Level("high") = 1 /\ Level("critical") = 2
    BY DEF Level
<1> QED BY <1>1 DEF Urgencies

\* The urgency of a decision is the higher of two.
LEMMA UrgencyFacts ==
    ASSUME text \in Texts, NEW x, x.urgency \in Urgencies
    PROVE  /\ Urgency(x) \in Urgencies
           /\ Level(Urgency(x)) >= Level(text.emergency)
           /\ Level(Urgency(x)) >= Level(x.urgency)
<1>1. text.emergency \in Urgencies
    BY TextsAssumption DEF TextsAssumption
<1>2. Level(text.emergency) \in 0..2 /\ Level(x.urgency) \in 0..2
    BY <1>1, Levels
<1> QED BY <1>1, <1>2 DEF Urgency

\* Retrieved documents are eligible, and a draft keeps only what they support.
LEMMA DraftCites ==
    ASSUME NEW category, NEW words, NEW on, NEW sentences
    PROVE  Cited(Retrieved(category, words, on), Draft(sentences, Retrieved(category, words, on)), on)
<1>1. PICK documents : documents = Retrieved(category, words, on)
    OBVIOUS
<1>2. \A d \in documents : d \in Documents /\ Eligible(d, on)
    BY <1>1 DEF Retrieved
<1>3. \A d \in documents :
         /\ InUse(d, on) /\ ~Guide[d].unsafe /\ ~Guide[d].personal
         /\ Guide[d].successor # NoDocument => ~InUse(Guide[d].successor, on)
    BY <1>2 DEF Eligible, Superseded
<1>4. PICK accepted : accepted = {s \in sentences : Accepted(s, documents)}
    OBVIOUS
<1>5. \A s \in accepted :
         /\ ~s.unsafe /\ ~s.personal
         /\ s.sources \subseteq documents
         /\ s.substantive => s.sources # {} /\ s.shared >= 2
    BY <1>4 DEF Accepted, Supported
<1>6. PICK cited : cited = UNION {s.sources : s \in accepted}
    OBVIOUS
<1>7. cited \subseteq documents
    BY <1>5, <1>6
<1>8. PICK draft : draft = Draft(sentences, documents)
    OBVIOUS
<1>9. /\ draft.sentences = accepted /\ draft.sources = cited
      /\ draft.grounding = IF accepted # sentences THEN "flagged"
                           ELSE IF cited = {} THEN "no_sources" ELSE "grounded"
      /\ draft.review <=> accepted # sentences \/ cited = {}
    BY <1>4, <1>6, <1>8 DEF Draft
<1> QED BY <1>1, <1>2, <1>3, <1>5, <1>7, <1>8, <1>9 DEF Cited

\* The stand-in for a failed classification is storable.
LEMMA StandInFacts ==
    Storable(StandIn) /\ StandIn.reasons # {}
<1>1. PICK c : c = [department |-> Fallback, confidence |-> 0, version |-> CatalogVersion,
                    tasks |-> TasksOf[Fallback]]
    OBVIOUS
<1>2. StandIn.candidates = <<c>> /\ StandIn.urgency = "normal" /\ StandIn.reasons = {"classifier_error"}
    BY <1>1 DEF StandIn
<1>3. Fallback \in Departments /\ TasksOf[Fallback] # {}
    BY CatalogAssumption DEF CatalogAssumption
<1>4. DOMAIN <<c>> = {1} /\ <<c>>[1] = c /\ <<c>> # <<>>
    OBVIOUS
<1>5. Ours(<<c>>)
    BY <1>1, <1>3, <1>4 DEF Ours
<1> QED BY <1>2, <1>4, <1>5 DEF Storable, Urgencies

\* What a classifier of any kind may hand to the pipeline.
LEMMA ClassificationsFacts ==
    ASSUME text \in Texts, NEW c \in Classifications
    PROVE  /\ c.raw = Failure \/ AnswerOK(c.raw)
           /\ c.result = Failure \/ AnswerOK(c.result)
           /\ c.result # Failure =>
                 AnswerOK(c.raw) /\ (c.result = c.raw \/ BindsTo(c.raw, c.result))
<1>1. \A a \in Answers : AnswerOK(a)
  <2> TAKE a \in Answers
  <2>1. a \in ClassificationType /\ Len(a.candidates) \in 1..3
        /\ \A i, j \in DOMAIN a.candidates :
              i < j => a.candidates[i].confidence >= a.candidates[j].confidence
      BY AnswersAssumption DEF AnswersAssumption
  <2>2. Sorted(a.candidates)
      BY <2>1 DEF Sorted
  <2>3. Len(a.candidates) >= 1
      BY <2>1
  <2> QED BY <2>1, <2>2, <2>3 DEF AnswerOK
<1>2. TextOK(text)
    BY TextsAssumption DEF TextsAssumption, TextOK
<1>3. ByRules(text) = Failure \/ AnswerOK(ByRules(text))
    BY <1>2, ByRulesFacts
<1>4. CASE \E a \in Answers \cup {Failure, ByRules(text)} : c = [raw |-> a, result |-> a]
    BY <1>1, <1>3, <1>4
<1>5. CASE \E a \in Answers : c = [raw |-> a, result |-> Bound(a)]
  <2>1. PICK a \in Answers : c = [raw |-> a, result |-> Bound(a)]
      BY <1>5
  <2>2. Bound(a) = Failure \/ BindsTo(a, Bound(a))
      BY <1>1, BoundFacts
  <2> QED BY <1>1, <2>1, <2>2 DEF BindsTo
<1> QED BY <1>4, <1>5 DEF Classifications

\* What classification ends with: a bound answer, or the stand-in.
LEMMA ClassifiedFacts ==
    ASSUME NEW x, x = Failure \/ AnswerOK(x), NEW today
    PROVE  /\ Storable(Classified(x, today))
           /\ \/ Classified(x, today) = StandIn
              \/ x # Failure /\ Classified(x, today) = Bound(x) /\ BindsTo(x, Bound(x))
<1>1. CASE Classified(x, today) = StandIn
    BY <1>1, StandInFacts
<1>2. CASE Classified(x, today) # StandIn
  <2>1. Classified(x, today) = Bound(x) /\ ~x.failed /\ ~Bound(x).failed
      BY <1>2 DEF Classified
  <2>2. x # Failure /\ Bound(x) # Failure
      BY <2>1 DEF Failure
  <2>3. BindsTo(x, Bound(x))
      BY <2>2, BoundFacts
  <2>4. Bound(x) \in ClassificationType /\ Len(Bound(x).candidates) >= 1 /\ Ours(Bound(x).candidates)
      BY <2>3 DEF BindsTo, AnswerOK
  <2>5. /\ Bound(x).urgency \in Urgencies
        /\ Bound(x).candidates # <<>> /\ 1 \in DOMAIN Bound(x).candidates
      BY <2>4 DEF ClassificationType
  <2> QED BY <2>1, <2>2, <2>3, <2>4, <2>5 DEF Storable
<1> QED BY <1>1, <1>2

-----------------------------------------------------------------------------
(* Decisions.                                                              *)

\* What is read off a decision.
LEMMA DecisionColumns ==
    ASSUME NEW x, NEW forced, NEW documents, NEW draft, NEW raw, NEW on,
           NEW t, t = Decision(x, forced, documents, draft, raw, on)
    PROVE  /\ Columns(t)
           /\ t.status = IF Urgency(x) # "normal" THEN "urgent_review"
                         ELSE IF ReviewReasons(x, forced) # {} \/ draft.review
                              THEN "needs_review" ELSE "assigned"
           /\ t.category = x.category /\ t.subcategory = x.subcategory
           /\ t.urgency = Urgency(x) /\ t.candidates = x.candidates
           /\ t.department = IF t.status = "assigned" THEN x.candidates[1].department ELSE Nowhere
           /\ t.documents = documents /\ t.sources = draft.sources
           /\ t.sentences = draft.sentences /\ t.grounding = draft.grounding
           /\ t.deferred = (forced # {}) /\ t.raw = raw /\ t.on = on
           /\ t.active = (x.candidates[1].department \in projected)
<1>1. PICK status : status = IF Urgency(x) # "normal" THEN "urgent_review"
                             ELSE IF ReviewReasons(x, forced) # {} \/ draft.review
                                  THEN "needs_review" ELSE "assigned"
    OBVIOUS
<1>2. PICK department :
          department = IF status = "assigned" THEN x.candidates[1].department ELSE Nowhere
    OBVIOUS
<1>3. t = [status |-> status, category |-> x.category, subcategory |-> x.subcategory,
           urgency |-> Urgency(x), candidates |-> x.candidates, department |-> department,
           documents |-> documents, sources |-> draft.sources, sentences |-> draft.sentences,
           grounding |-> draft.grounding, deferred |-> forced # {}, raw |-> raw, on |-> on,
           active |-> x.candidates[1].department \in projected]
    BY <1>1, <1>2 DEF Decision
<1> QED BY <1>1, <1>2, <1>3 DEF Columns

\* Any decision on a storable classification and a checked draft is in order.
LEMMA DecisionFacts ==
    ASSUME text \in Texts, NEW x, Storable(x), NEW documents, NEW draft, NEW on,
           Cited(documents, draft, on), NEW forced, NEW raw,
           NEW t, t = Decision(x, forced, documents, draft, raw, on)
    PROVE  DecisionOK(t)
<1>1. /\ Columns(t)
      /\ t.status = IF Urgency(x) # "normal" THEN "urgent_review"
                    ELSE IF ReviewReasons(x, forced) # {} \/ draft.review
                         THEN "needs_review" ELSE "assigned"
      /\ t.urgency = Urgency(x) /\ t.candidates = x.candidates
      /\ t.department = IF t.status = "assigned" THEN x.candidates[1].department ELSE Nowhere
      /\ t.documents = documents /\ t.sources = draft.sources
      /\ t.sentences = draft.sentences /\ t.grounding = draft.grounding /\ t.on = on
    BY DecisionColumns
<1>2. Urgency(x) \in Urgencies /\ Level(Urgency(x)) >= Level(text.emergency)
    BY UrgencyFacts DEF Storable
<1>3. x.candidates # <<>> /\ 1 \in DOMAIN x.candidates /\ Ours(x.candidates)
    BY DEF Storable
<1>4. t.department \in Departments \cup {Nowhere}
  <2>1. x.candidates[1].department \in Departments
      BY <1>3 DEF Ours
  <2> QED BY <1>1, <1>3, <2>1
<1>5. Cited(t.documents, [sentences |-> t.sentences, sources |-> t.sources,
                          grounding |-> t.grounding, review |-> TRUE], t.on)
    BY <1>1 DEF Cited
<1> QED BY <1>1, <1>2, <1>3, <1>4, <1>5 DEF DecisionOK

\* Everything an automatic route rests on follows from the absence of reasons.
LEMMA AssignedFacts ==
    ASSUME text \in Texts, NEW c \in Classifications, NEW today,
           NEW x, x = Classified(c.result, today),
           NEW documents, NEW draft, NEW on, Cited(documents, draft, on), NEW forced,
           NEW t, t = Decision(x, forced, documents, draft, c.raw, on), t.status = "assigned"
    PROVE  MayRoute(t)
<1>1. /\ t.status = IF Urgency(x) # "normal" THEN "urgent_review"
                    ELSE IF ReviewReasons(x, forced) # {} \/ draft.review
                         THEN "needs_review" ELSE "assigned"
      /\ t.category = x.category /\ t.subcategory = x.subcategory
      /\ t.candidates = x.candidates
      /\ t.department = IF t.status = "assigned" THEN x.candidates[1].department ELSE Nowhere
      /\ t.grounding = draft.grounding /\ t.deferred = (forced # {}) /\ t.raw = c.raw
      /\ t.active = (x.candidates[1].department \in projected)
    BY DecisionColumns
<1>2. Urgency(x) = "normal" /\ ReviewReasons(x, forced) = {} /\ ~draft.review
    BY <1>1
<1>3. /\ x.reasons = {} /\ forced = {} /\ PolicyReasons(x.category, x.candidates) = {}
      /\ ~x.review /\ ~(x.candidates[1].confidence < Threshold)
      /\ ~(NeedsPlace(x) /\ ~text.located) /\ x.candidates[1].department \in projected
    BY <1>2 DEF ReviewReasons, When
<1>4. t.grounding = "grounded"
    BY <1>1, <1>2 DEF Cited
<1>5. /\ c.raw = Failure \/ AnswerOK(c.raw)
      /\ c.result = Failure \/ AnswerOK(c.result)
      /\ c.result # Failure =>
                 AnswerOK(c.raw) /\ (c.result = c.raw \/ BindsTo(c.raw, c.result))
    BY ClassificationsFacts
<1>6. PICK a, b : a = c.raw /\ b = c.result
    OBVIOUS
<1>7. Storable(x) /\ b # Failure /\ BindsTo(b, x)
    BY <1>3, <1>5, <1>6, ClassifiedFacts, StandInFacts
<1>8. AnswerOK(a) /\ AnswerOK(b) /\ (b = a \/ BindsTo(a, b))
    BY <1>5, <1>6, <1>7
<1>9. b.reasons = {} /\ Repairs(b) = {} /\ Doubts(b, x.candidates) = {} /\ ~b.review
    BY <1>3, <1>7 DEF BindsTo
<1>10. a.reasons = {} /\ Repairs(a) = {} /\ ~a.review
    BY <1>8, <1>9 DEF BindsTo
<1>11. /\ a.missing = b.missing /\ a.urgency = x.urgency
       /\ b.category = x.category /\ b.subcategory = x.subcategory
    BY <1>7, <1>8 DEF BindsTo
<1>12. a.candidates \in Seq(CandidateType) /\ b.candidates \in Seq(CandidateType)
    BY <1>8 DEF AnswerOK, ClassificationType
<1>13. ASSUME NEW i \in DOMAIN a.candidates
       PROVE  \E k \in DOMAIN x.candidates :
                 x.candidates[k].department = a.candidates[i].department
  <2>1. i \in Kept(a)
      BY <1>10, <1>12, NoRepairs
  <2>2. PICK j \in DOMAIN b.candidates : b.candidates[j].department = a.candidates[i].department
      BY <1>8, <2>1 DEF BindsTo
  <2>3. j \in Kept(b)
      BY <1>9, <1>12, NoRepairs
  <2> QED BY <1>7, <2>2, <2>3 DEF BindsTo
<1>14. text.emergency = "normal" /\ x.urgency = "normal"
  <2>1. x.urgency \in Urgencies /\ text.emergency \in Urgencies
      BY <1>7, TextsAssumption DEF Storable, TextsAssumption
  <2>2. 0 >= Level(text.emergency) /\ 0 >= Level(x.urgency)
      BY <1>2, <2>1, UrgencyFacts, Levels
  <2> QED BY <2>1, <2>2, Levels
<1>15. /\ ~text.sensitive
       /\ \A d \in CandidateCategories(x.candidates) : ~SensitiveCategory(d)
    BY <1>3 DEF PolicyReasons, When
<1>16. PICK top : top = x.candidates[1].department
    OBVIOUS
<1>17. /\ b.category = CategoryOf[top] /\ top # Fallback
       /\ ~(\A i \in RulesOf(top) : Rules[i].subcategory # b.subcategory)
       /\ ~Ambiguous(x.candidates) /\ ~b.missing
    BY <1>9, <1>16 DEF Doubts, When
<1>18. Sound(a)
  <2>1. ASSUME NEW i \in DOMAIN a.candidates
        PROVE  /\ a.candidates[i].department \in Departments
               /\ a.candidates[i].version \in {NoVersion, CatalogVersion}
               /\ a.candidates[i].tasks \subseteq TasksOf[a.candidates[i].department]
               /\ ~SensitiveCategory(CategoryOf[a.candidates[i].department])
               /\ \A j \in DOMAIN a.candidates : j # i =>
                     a.candidates[j].department # a.candidates[i].department
    <3>1. PICK k \in DOMAIN x.candidates :
              x.candidates[k].department = a.candidates[i].department
        BY <1>13
    <3>2. CategoryOf[a.candidates[i].department] \in CandidateCategories(x.candidates)
        BY <3>1 DEF CandidateCategories
    <3> QED BY <1>10, <1>12, <1>15, <3>2, NoRepairs
  <2>2. ~a.missing /\ ~a.review /\ a.reasons = {} /\ a.urgency = "normal"
      BY <1>10, <1>11, <1>14, <1>17
  <2> QED BY <2>1, <2>2 DEF Sound
<1>19. PICK n \in Nat : n = Len(x.candidates) /\ DOMAIN x.candidates = 1..n /\ n >= 1
    BY <1>7 DEF BindsTo, AnswerOK, ClassificationType
<1>20. \A i \in 1..n : x.candidates[i].confidence \in 0..100
  <2>1. x.candidates \in Seq(CandidateType)
      BY <1>7 DEF BindsTo, AnswerOK, ClassificationType
  <2>2. \A i \in 1..n : x.candidates[i] \in CandidateType
      BY <1>19, <2>1
  <2> QED BY <2>2 DEF CandidateType
<1>21. ASSUME NEW i \in 2..n
       PROVE  /\ x.candidates[i].confidence < 90
              /\ x.candidates[1].confidence - x.candidates[i].confidence > 5
  <2>1. 1 \in 1..n /\ 2 \in 1..n /\ i \in 1..n /\ n > 1 /\ (i = 2 \/ 2 < i)
      BY <1>19
  <2>2. PICK first \in 0..100, second \in 0..100, this \in 0..100 :
            /\ first = x.candidates[1].confidence
            /\ second = x.candidates[2].confidence
            /\ this = x.candidates[i].confidence
      BY <1>20, <2>1
  <2>3. ~(second >= 90) /\ ~(first - second <= 5)
      BY <1>17, <1>19, <2>1, <2>2 DEF Ambiguous
  <2>4. Sorted(x.candidates)
      BY <1>7 DEF BindsTo, AnswerOK
  <2>5. second >= this
    <3>1. CASE i = 2
        BY <2>2, <3>1
    <3>2. CASE 2 < i
      <4>1. x.candidates[2].confidence >= x.candidates[i].confidence
          BY <1>19, <2>1, <2>4, <3>2 DEF Sorted
      <4> QED BY <2>2, <4>1
    <3> QED BY <2>1, <3>1, <3>2
  <2> QED BY <2>2, <2>3, <2>5
<1>22. x.candidates[1].confidence >= Threshold
  <2>1. 1 \in 1..n
      BY <1>19
  <2>2. PICK first \in 0..100 : first = x.candidates[1].confidence
      BY <1>20, <2>1
  <2> QED BY <1>3, <2>2, BoundsAssumption DEF BoundsAssumption
<1>23. text.located \/ \A i \in RulesOf(top) : ~Rules[i].needsPlace
    BY <1>3, <1>16 DEF NeedsPlace
<1>24. t.department = top /\ ~t.deferred /\ t.active
    BY <1>1, <1>3, <1>16
<1>25. t.candidates[1].department = top /\ t.candidates[1].confidence >= Threshold
    BY <1>1, <1>16, <1>22
<1>26. Sound(t.raw) /\ t.category = CategoryOf[top]
    BY <1>1, <1>6, <1>11, <1>17, <1>18
<1>27. \E i \in RulesOf(top) : Rules[i].subcategory = t.subcategory
    BY <1>1, <1>11, <1>17
<1>28. \A i \in 2..Len(t.candidates) :
          /\ t.candidates[i].confidence < 90
          /\ t.candidates[1].confidence - t.candidates[i].confidence > 5
    BY <1>1, <1>19, <1>21
<1>29. ~superseded
    BY <1>3, StandInFacts DEF Classified, InForce
<1> QED BY <1>4, <1>29, <1>14, <1>15, <1>17, <1>23, <1>24, <1>25, <1>26, <1>27, <1>28 DEF MayRoute

\* A decision with forced reasons is never an automatic route.
LEMMA DeferredFacts ==
    ASSUME NEW x, NEW documents, NEW draft, NEW raw, NEW on,
           NEW t, t = Decision(x, Deferred, documents, draft, raw, on)
    PROVE  t.status # "assigned" /\ (Urgency(x) = "normal" => t.status = "needs_review")
<1>1. t.status = IF Urgency(x) # "normal" THEN "urgent_review"
                 ELSE IF ReviewReasons(x, Deferred) # {} \/ draft.review
                      THEN "needs_review" ELSE "assigned"
    BY DecisionColumns
<1>2. ReviewReasons(x, Deferred) # {}
    BY DEF ReviewReasons, Deferred
<1> QED BY <1>1, <1>2

-----------------------------------------------------------------------------
(* Steps.                                                                  *)

\* A decision in order, stored as the triage record of the same text, keeps the
\* invariants about that record; what is left is when a machine routes.
LEMMA StoredFacts ==
    ASSUME DecisionOK(triage'), text' = text, triage'.on \in 0..day', AssignedIsSafe'
    PROVE  /\ triage'.status \in Statuses
           /\ triage'.department \in Departments \cup {Nowhere}
           /\ triage'.sources \subseteq triage'.documents /\ triage'.documents \subseteq Documents
           /\ triage'.grounding \in {"grounded", "no_sources", "flagged"}
           /\ CandidatesAreOurs' /\ DangerIsKept' /\ CitationsHold'
           /\ Columns(triage')
<1> USE DEF DecisionOK
<1>1. PICK t : t = triage'
    OBVIOUS
<1>2. Cited(t.documents, [sentences |-> t.sentences, sources |-> t.sources,
                          grounding |-> t.grounding, review |-> TRUE], t.on)
    BY <1>1
<1>3. /\ t.documents \subseteq Documents
      /\ \A d \in t.documents :
            /\ InUse(d, t.on) /\ ~Guide[d].unsafe /\ ~Guide[d].personal
            /\ Guide[d].successor # NoDocument => ~InUse(Guide[d].successor, t.on)
      /\ \A s \in t.sentences :
            /\ ~s.unsafe /\ ~s.personal
            /\ s.sources \subseteq t.documents
            /\ s.substantive => s.sources # {} /\ s.shared >= 2
      /\ t.sources \subseteq t.documents
      /\ t.grounding \in {"grounded", "no_sources", "flagged"}
      /\ t.grounding = "grounded" => t.sources # {}
    BY <1>2 DEF Cited
<1>4. CandidatesAreOurs'
    BY DEF CandidatesAreOurs, Ours
<1>5. DangerIsKept'
    BY DEF DangerIsKept
<1>6. CitationsHold'
    BY <1>1, <1>3 DEF CitationsHold
<1> QED BY <1>1, <1>3, <1>4, <1>5, <1>6 DEF Statuses

\* Midnight passes at most once between two looks.
LEMMA MidnightFacts ==
    ASSUME day \in 0..MaxDay, NEW on \in Midnight
    PROVE  on \in 0..MaxDay /\ day <= on
BY BoundsAssumption DEF BoundsAssumption, Midnight, When

\* Triage at once.
LEMMA ProcessIInv ==
    ASSUME IInv, Process
    PROVE  IInv'
<1>1. PICK c \in Classifications, today \in Midnight, on \in Midnight :
          LET x == Classified(c.result, today)
              documents == Retrieved(x.category, text, on)
          IN  /\ today <= on /\ day' = on
              /\ \E s \in Sentences(documents) :
                    triage' = Decision(x, {}, documents, Draft(s, documents), c.raw, on)
    BY DEF Process
<1>2. /\ job = "none" /\ UNCHANGED <<text, superseded, projected, job, prepared>>
      /\ text \in Texts /\ day \in 0..MaxDay /\ superseded \in BOOLEAN
      /\ projected \subseteq Departments
      /\ (job = "prepared") <=> (prepared # Nothing)
    BY DEF Process, IInv, TypeOK
<1>3. PICK x : x = Classified(c.result, today)
    OBVIOUS
<1>4. PICK documents : documents = Retrieved(x.category, text, on)
    OBVIOUS
<1>5. PICK s : day' = on /\ triage' = Decision(x, {}, documents, Draft(s, documents), c.raw, on)
    BY <1>1, <1>3, <1>4
<1>6. Cited(documents, Draft(s, documents), on)
    BY <1>4, DraftCites
<1>7. Storable(x)
    BY <1>2, <1>3, ClassificationsFacts, ClassifiedFacts
<1>8. PICK draft : draft = Draft(s, documents)
    OBVIOUS
<1>9. PICK t : t = triage'
    OBVIOUS
<1>10. DecisionOK(t) /\ t.on = on
    BY <1>2, <1>5, <1>6, <1>7, <1>8, <1>9, DecisionFacts, DecisionColumns
<1>11. AssignedIsSafe'
  <2>1. ASSUME t.status = "assigned"
        PROVE  MayRoute(t)
    <3>1. PICK forced : forced = {}
        OBVIOUS
    <3> QED BY <1>2, <1>3, <1>5, <1>6, <1>8, <1>9, <2>1, <3>1, AssignedFacts
  <2> QED BY <1>2, <1>9, <2>1 DEF AssignedIsSafe, MayRoute
<1>12. on \in 0..MaxDay /\ on \in 0..on
    BY <1>2, MidnightFacts, BoundsAssumption DEF BoundsAssumption
<1>13. DecisionOK(triage') /\ triage'.on \in 0..day'
    BY <1>5, <1>9, <1>10, <1>12
<1>14. TypeOK'
    BY <1>2, <1>5, <1>11, <1>12, <1>13, StoredFacts DEF TypeOK
<1>15. CandidatesAreOurs' /\ DangerIsKept' /\ CitationsHold' /\ Columns(triage')
    BY <1>2, <1>11, <1>13, StoredFacts
<1>16. QueuedIsHarmless'
    BY <1>2 DEF QueuedIsHarmless
<1>17. PreparedInv'
    BY <1>2 DEF PreparedInv
<1> QED BY <1>11, <1>14, <1>15, <1>16, <1>17 DEF IInv

\* A request that defers AI work: local triage, and a job if the text may wait.
LEMMA EnqueueIInv ==
    ASSUME IInv, Enqueue
    PROVE  IInv'
<1>1. PICK today \in Midnight, on \in Midnight :
          LET x == Classified(ByRules(text), today)
              documents == Retrieved(x.category, text, on)
              draft == Draft(RulesDraft(text, documents), documents)
          IN  /\ today <= on /\ day' = on
              /\ triage' = Decision(x, Deferred, documents, draft, ByRules(text), on)
              /\ job' = IF SafetyReasons(triage') = {} /\ InForce(on) THEN "waiting" ELSE "none"
    BY DEF Enqueue
<1>2. /\ job = "none" /\ UNCHANGED <<text, superseded, projected, prepared>>
      /\ text \in Texts /\ day \in 0..MaxDay /\ superseded \in BOOLEAN
      /\ projected \subseteq Departments
      /\ (job = "prepared") <=> (prepared # Nothing)
    BY DEF Enqueue, IInv, TypeOK
<1>3. PICK x : x = Classified(ByRules(text), today)
    OBVIOUS
<1>4. PICK documents : documents = Retrieved(x.category, text, on)
    OBVIOUS
<1>5. PICK sentences : sentences = RulesDraft(text, documents)
    OBVIOUS
<1>6. PICK draft, raw : draft = Draft(sentences, documents) /\ raw = ByRules(text)
    OBVIOUS
<1>7. PICK t : t = triage'
    OBVIOUS
<1>8. /\ day' = on /\ t = Decision(x, Deferred, documents, draft, raw, on)
      /\ job' = IF SafetyReasons(t) = {} /\ InForce(on) THEN "waiting" ELSE "none"
    BY <1>1, <1>3, <1>4, <1>5, <1>6, <1>7
<1>9. Cited(documents, draft, on)
    BY <1>4, <1>6, DraftCites
<1>10. Storable(x)
  <2>1. TextOK(text)
      BY <1>2, TextsAssumption DEF TextsAssumption, TextOK
  <2> QED BY <1>3, <2>1, ByRulesFacts, ClassifiedFacts
<1>11. /\ DecisionOK(t) /\ t.on = on /\ t.urgency = Urgency(x) /\ t.candidates = x.candidates
       /\ t.status # "assigned" /\ (Urgency(x) = "normal" => t.status = "needs_review")
    BY <1>2, <1>8, <1>9, <1>10, DecisionFacts, DecisionColumns, DeferredFacts
<1>12. AssignedIsSafe'
    BY <1>7, <1>11 DEF AssignedIsSafe
<1>13. on \in 0..MaxDay /\ on \in 0..on
    BY <1>2, MidnightFacts, BoundsAssumption DEF BoundsAssumption
<1>14. DecisionOK(triage') /\ triage'.on \in 0..day'
    BY <1>7, <1>8, <1>11, <1>13
<1>15. TypeOK'
    BY <1>2, <1>8, <1>12, <1>13, <1>14, StoredFacts DEF TypeOK
<1>16. CandidatesAreOurs' /\ DangerIsKept' /\ CitationsHold' /\ Columns(triage')
    BY <1>2, <1>12, <1>14, StoredFacts
<1>17. QueuedIsHarmless'
  <2>1. ASSUME SafetyReasons(t) = {}
        PROVE  /\ text.emergency = "normal" /\ ~text.sensitive
               /\ t.status = "needs_review"
               /\ \A i \in DOMAIN t.candidates :
                     ~SensitiveCategory(CategoryOf[t.candidates[i].department])
    <3>1. PolicyReasons(t.category, t.candidates) = {} /\ text.emergency = "normal" /\ t.urgency = "normal"
        BY <2>1 DEF SafetyReasons, When
    <3>2. ~text.sensitive /\ \A d \in CandidateCategories(t.candidates) : ~SensitiveCategory(d)
        BY <3>1 DEF PolicyReasons, When
    <3>3. \A i \in DOMAIN t.candidates :
             CategoryOf[t.candidates[i].department] \in CandidateCategories(t.candidates)
        BY DEF CandidateCategories
    <3> QED BY <1>11, <3>1, <3>2, <3>3
  <2> QED BY <1>2, <1>7, <1>8, <2>1 DEF QueuedIsHarmless
<1>18. PreparedInv'
    BY <1>2 DEF PreparedInv
<1> QED BY <1>12, <1>15, <1>16, <1>17, <1>18 DEF IInv

\* A step that leaves text and triage record alone keeps what is said of them.
LEMMA QuietFacts ==
    ASSUME IInv, UNCHANGED <<text, superseded, triage>>
    PROVE  /\ AssignedIsSafe' /\ CandidatesAreOurs' /\ DangerIsKept' /\ CitationsHold'
           /\ (triage # Untriaged => Columns(triage))'
<1>1. AssignedIsSafe'
    BY DEF IInv, AssignedIsSafe
<1>2. CandidatesAreOurs'
    BY DEF IInv, CandidatesAreOurs
<1>3. DangerIsKept'
    BY DEF IInv, DangerIsKept
<1>4. CitationsHold'
    BY DEF IInv, CitationsHold
<1>5. (triage # Untriaged => Columns(triage))'
    BY DEF IInv, Untriaged
<1> QED BY <1>1, <1>2, <1>3, <1>4, <1>5

\* The provider's reasons are replaced; it stays an answer.
LEMMA UntrustedFacts ==
    ASSUME NEW x, AnswerOK(x)
    PROVE  AnswerOK(Untrusted(x))
<1>1. PICK reasons \in SUBSET Words : reasons = When(x.reasons # {}, "provider_requires_review")
    BY CatalogAssumption DEF CatalogAssumption, OwnWords, When
<1>2. Untrusted(x) = [x EXCEPT !.reasons = reasons]
    BY <1>1 DEF Untrusted
<1>3. x \in ClassificationType
    BY DEF AnswerOK
<1>4. [x EXCEPT !.reasons = reasons] \in ClassificationType
    BY <1>3 DEF ClassificationType
<1>5. [x EXCEPT !.reasons = reasons].candidates = x.candidates
    BY <1>3 DEF ClassificationType
<1> QED BY <1>2, <1>4, <1>5 DEF AnswerOK

\* A worker prepares a result.
LEMMA PrepareIInv ==
    ASSUME IInv, Prepare
    PROVE  IInv'
<1>1. PICK c \in Classifications, today \in Midnight, on \in Midnight :
          LET x == Bound(Untrusted(c.result))
              documents == Retrieved(x.category, text, on)
          IN  /\ today <= on /\ day' = on
              /\ ~c.result.failed /\ today <= CatalogUntil /\ ~x.failed
              /\ \E s \in Sentences(documents) :
                    prepared' = [by |-> "worker", result |-> x, documents |-> documents,
                                 draft |-> Draft(s, documents), raw |-> c.raw, on |-> on]
    BY DEF Prepare
<1>2. /\ job = "waiting" /\ job' = "prepared" /\ UNCHANGED <<text, superseded, projected, triage, triages>>
      /\ text \in Texts /\ day \in 0..MaxDay /\ superseded \in BOOLEAN
      /\ projected \subseteq Departments
    BY DEF Prepare, IInv, TypeOK
<1>3. PICK x : x = Bound(Untrusted(c.result))
    OBVIOUS
<1>4. PICK documents : documents = Retrieved(x.category, text, on)
    OBVIOUS
<1>5. PICK s : /\ day' = on /\ ~c.result.failed /\ ~x.failed
               /\ prepared' = [by |-> "worker", result |-> x, documents |-> documents,
                               draft |-> Draft(s, documents), raw |-> c.raw, on |-> on]
    BY <1>1, <1>3, <1>4
<1>6. AnswerOK(x) /\ Bound(x) = x
  <2>1. c.result # Failure /\ x # Failure
      BY <1>5 DEF Failure
  <2>2. AnswerOK(c.result)
      BY <1>2, <2>1, ClassificationsFacts
  <2>3. BindsTo(Untrusted(c.result), x)
      BY <1>3, <2>1, <2>2, UntrustedFacts, BoundFacts
  <2>4. Bound(x) = x
      BY <1>3, <2>1, <2>2, UntrustedFacts, BindingIsIdempotent
  <2> QED BY <2>3, <2>4 DEF BindsTo
<1>7. PICK draft : draft = Draft(s, documents)
    OBVIOUS
<1>8. Cited(documents, draft, on)
    BY <1>4, <1>7, DraftCites
<1>9. on \in 0..MaxDay /\ day <= on /\ on \in 0..on
    BY <1>2, MidnightFacts, BoundsAssumption DEF BoundsAssumption
<1>10. PreparedInv'
    BY <1>5, <1>6, <1>7, <1>8, <1>9 DEF PreparedInv
<1>11. prepared' # Nothing
    BY <1>5 DEF Nothing
<1>12. TypeOK'
  <2>1. triage # Untriaged => triage.on \in 0..day'
      BY <1>2, <1>5, <1>9, BoundsAssumption DEF IInv, TypeOK, BoundsAssumption
  <2> QED BY <1>2, <1>5, <1>9, <1>11, <2>1 DEF IInv, TypeOK
<1>13. QueuedIsHarmless'
    BY <1>2 DEF IInv, QueuedIsHarmless
<1> QED BY <1>2, <1>10, <1>12, <1>13, QuietFacts DEF IInv

\* A worker stores a prepared result.
LEMMA ApplyIInv ==
    ASSUME IInv, Apply
    PROVE  IInv'
<1>1. /\ job = "prepared" /\ job' = "none" /\ prepared' = Nothing
      /\ UNCHANGED <<text, superseded, projected, triages>>
      /\ text \in Texts /\ day \in 0..MaxDay /\ superseded \in BOOLEAN
      /\ projected \subseteq Departments
      /\ prepared # Nothing
    BY DEF Apply, IInv, TypeOK
<1>2. /\ AnswerOK(prepared.result)
      /\ Cited(prepared.documents, prepared.draft, prepared.on)
      /\ prepared.on \in 0..day
    BY <1>1 DEF IInv, PreparedInv
<1>3. PICK today \in Midnight :
          /\ day' = today
          /\ triage' = Decision(Classified(prepared.result, today), Deferred, prepared.documents,
                                prepared.draft, prepared.raw, prepared.on)
    BY DEF Apply
<1>4. PICK x : x = Classified(prepared.result, today)
    OBVIOUS
<1>5. Storable(x)
    BY <1>2, <1>4, ClassifiedFacts
<1>6. PICK t : t = triage'
    OBVIOUS
<1>7. t = Decision(x, Deferred, prepared.documents, prepared.draft, prepared.raw, prepared.on)
    BY <1>3, <1>4, <1>6
<1>8. DecisionOK(t) /\ t.on = prepared.on /\ t.status # "assigned"
    BY <1>1, <1>2, <1>5, <1>7, DecisionFacts, DecisionColumns, DeferredFacts
<1>9. AssignedIsSafe'
    BY <1>6, <1>8 DEF AssignedIsSafe
<1>10. today \in 0..MaxDay /\ prepared.on \in 0..today
    BY <1>1, <1>2, MidnightFacts, BoundsAssumption DEF BoundsAssumption
<1>11. DecisionOK(triage') /\ triage'.on \in 0..day'
    BY <1>3, <1>6, <1>8, <1>10
<1>12. TypeOK'
    BY <1>1, <1>3, <1>9, <1>10, <1>11, StoredFacts DEF TypeOK
<1>13. CandidatesAreOurs' /\ DangerIsKept' /\ CitationsHold' /\ Columns(triage')
    BY <1>1, <1>9, <1>11, StoredFacts
<1>14. QueuedIsHarmless' /\ PreparedInv'
    BY <1>1 DEF QueuedIsHarmless, PreparedInv
<1> QED BY <1>9, <1>12, <1>13, <1>14 DEF IInv

\* An officer's approval touches status and department.
LEMMA ApproveIInv ==
    ASSUME IInv, NEW d \in Departments, Approve(d)
    PROVE  IInv'
<1>1. /\ triage # Untriaged /\ job' = "none" /\ prepared' = Nothing
      /\ triage' = [triage EXCEPT !.status = "reviewed", !.department = d]
      /\ UNCHANGED <<text, day, superseded, projected, triages>>
    BY DEF Approve
<1>2. PICK t, u : t = triage /\ u = triage'
    OBVIOUS
<1>3. Columns(t) /\ u = [t EXCEPT !.status = "reviewed", !.department = d]
    BY <1>1, <1>2 DEF IInv
<1>4. /\ Columns(u) /\ u.status = "reviewed" /\ u.department = d
      /\ u.urgency = t.urgency /\ u.candidates = t.candidates
      /\ u.documents = t.documents /\ u.sources = t.sources /\ u.sentences = t.sentences
      /\ u.grounding = t.grounding /\ u.on = t.on
    BY <1>3 DEF Columns
<1>5. TypeOK'
    BY <1>1, <1>2, <1>4 DEF IInv, TypeOK, Statuses
<1>6. AssignedIsSafe'
    BY <1>2, <1>4 DEF AssignedIsSafe
<1>7. CandidatesAreOurs'
    BY <1>1, <1>2, <1>4 DEF IInv, CandidatesAreOurs
<1>8. DangerIsKept'
    BY <1>1, <1>2, <1>4 DEF IInv, DangerIsKept
<1>9. CitationsHold'
    BY <1>1, <1>2, <1>4 DEF IInv, CitationsHold
<1>10. QueuedIsHarmless' /\ PreparedInv'
    BY <1>1 DEF QueuedIsHarmless, PreparedInv
<1> QED BY <1>2, <1>4, <1>5, <1>6, <1>7, <1>8, <1>9, <1>10 DEF IInv

\* A job ends, a day ends, the table is overwritten, or nothing happens.
LEMMA QuietIInv ==
    ASSUME IInv, GiveUp \/ NextDay \/ Overwrite \/ UNCHANGED vars
    PROVE  IInv'
<1>1. UNCHANGED <<text, superseded, triage>> /\ projected' \subseteq Departments
    BY ProjectionsAssumption DEF GiveUp, NextDay, Overwrite, vars, IInv, TypeOK
<1>2. /\ day \in 0..MaxDay /\ day' \in 0..MaxDay /\ day <= day'
      /\ superseded \in BOOLEAN
  <2>1. day \in 0..MaxDay /\ superseded \in BOOLEAN /\ MaxDay \in Nat
      BY BoundsAssumption DEF BoundsAssumption, IInv, TypeOK
  <2>2. day' = day \/ (day < MaxDay /\ day' = day + 1)
      BY DEF GiveUp, NextDay, Overwrite, vars
  <2> QED BY <2>1, <2>2
<1>3. \/ job' = "none" /\ prepared' = Nothing
      \/ UNCHANGED <<job, prepared>>
    BY DEF GiveUp, NextDay, Overwrite, vars
<1>4. TypeOK'
  <2>1. triage # Untriaged => triage.on \in 0..day'
      BY <1>2, BoundsAssumption DEF IInv, TypeOK, BoundsAssumption
  <2> QED BY <1>1, <1>2, <1>3, <2>1 DEF IInv, TypeOK
<1>5. QueuedIsHarmless'
    BY <1>1, <1>3 DEF IInv, QueuedIsHarmless
<1>6. PreparedInv'
  <2>1. CASE prepared' = Nothing
      BY <2>1 DEF PreparedInv
  <2>2. CASE prepared' = prepared
    <3>1. prepared # Nothing => prepared.on \in 0..day'
        BY <1>2, BoundsAssumption DEF BoundsAssumption, IInv, PreparedInv
    <3> QED BY <2>2, <3>1 DEF IInv, PreparedInv
  <2> QED BY <1>3, <2>1, <2>2
<1> QED BY <1>1, <1>4, <1>5, <1>6, QuietFacts DEF IInv

\* An import may take an automatic route back; of the record, it changes status and
\* department.
LEMMA SupersedeIInv ==
    ASSUME IInv, Supersede
    PROVE  IInv'
<1>1. /\ superseded' = TRUE /\ UNCHANGED <<text, day, job, prepared, triages>>
      /\ projected' \subseteq Departments
    BY ProjectionsAssumption DEF Supersede
<1>2. CASE triage.status # "assigned"
  <2>1. UNCHANGED triage
      BY <1>2 DEF Supersede
  <2>2. AssignedIsSafe'
      BY <1>2, <2>1 DEF AssignedIsSafe
  <2>3. TypeOK' /\ CandidatesAreOurs' /\ DangerIsKept' /\ CitationsHold'
      BY <1>1, <2>1 DEF IInv, TypeOK, CandidatesAreOurs, DangerIsKept, CitationsHold
  <2>4. QueuedIsHarmless' /\ PreparedInv' /\ (triage # Untriaged => Columns(triage))'
      BY <1>1, <2>1 DEF IInv, QueuedIsHarmless, PreparedInv, Untriaged
  <2> QED BY <2>2, <2>3, <2>4 DEF IInv
<1>3. CASE triage.status = "assigned"
  <2>1. triage' = [triage EXCEPT !.status = "needs_review", !.department = Nowhere]
      BY <1>3 DEF Supersede
  <2>2. PICK t, u : t = triage /\ u = triage'
      OBVIOUS
  <2>3. triage # Untriaged
      BY <1>3 DEF Untriaged
  <2>4. Columns(t) /\ u = [t EXCEPT !.status = "needs_review", !.department = Nowhere]
      BY <2>1, <2>2, <2>3 DEF IInv
  <2>5. /\ Columns(u) /\ u.status = "needs_review" /\ u.department = Nowhere
        /\ u.urgency = t.urgency /\ u.candidates = t.candidates
        /\ u.documents = t.documents /\ u.sources = t.sources /\ u.sentences = t.sentences
        /\ u.grounding = t.grounding /\ u.on = t.on
      BY <2>4 DEF Columns
  <2>6. job = "none"
      BY <1>3 DEF IInv, QueuedIsHarmless
  <2>7. TypeOK'
      BY <1>1, <2>2, <2>3, <2>5 DEF IInv, TypeOK, Statuses
  <2>8. AssignedIsSafe' /\ QueuedIsHarmless' /\ PreparedInv'
      BY <1>1, <2>2, <2>5, <2>6 DEF IInv, AssignedIsSafe, QueuedIsHarmless, PreparedInv
  <2>9. CandidatesAreOurs' /\ DangerIsKept' /\ CitationsHold'
      BY <1>1, <1>3, <2>2, <2>3, <2>5 DEF IInv, CandidatesAreOurs, DangerIsKept, CitationsHold
  <2> QED BY <2>2, <2>5, <2>7, <2>8, <2>9 DEF IInv
<1> QED BY <1>2, <1>3

-----------------------------------------------------------------------------
(* The theorems.                                                           *)

\* A complaint that has not been triaged.
LEMMA InitIInv ==
    ASSUME Init
    PROVE  IInv
<1>1. /\ text \in Texts /\ day = 0 /\ superseded = FALSE /\ triage = Untriaged
      /\ job = "none" /\ prepared = Nothing /\ projected \subseteq Departments
    BY ProjectionsAssumption DEF Init
<1>2. triage.status = "received" /\ triage.department = Nowhere
    BY <1>1 DEF Untriaged
<1>3. 0 \in 0..MaxDay
    BY BoundsAssumption DEF BoundsAssumption
<1>4. TypeOK
    BY <1>1, <1>2, <1>3 DEF TypeOK, Statuses
<1> QED BY <1>1, <1>2, <1>4
        DEF IInv, AssignedIsSafe, CandidatesAreOurs, DangerIsKept, CitationsHold,
            QueuedIsHarmless, PreparedInv

\* Every step keeps the invariant.
LEMMA NextIInv ==
    ASSUME IInv, [Next]_vars
    PROVE  IInv'
<1>1. CASE \E d \in Departments : Approve(d)
    BY <1>1, ApproveIInv
<1> QED BY <1>1, ProcessIInv, EnqueueIInv, PrepareIInv, ApplyIInv, QuietIInv,
           SupersedeIInv DEF Next

\* The inductive invariant holds throughout.
THEOREM Inductive == Spec => []IInv
<1>1. Init => IInv
    BY InitIInv
<1>2. IInv /\ [Next]_vars => IInv'
    BY NextIInv
<1> QED BY <1>1, <1>2, PTL DEF Spec

\* The triage columns keep their types (_process_existing, approve).
THEOREM TypeCorrect == Spec => []TypeOK
<1>1. IInv => TypeOK
    BY DEF IInv
<1> QED BY <1>1, Inductive, PTL

\* No machine routes a complaint that anything speaks against (_process_existing).
THEOREM RoutesAreSafe == Spec => []AssignedIsSafe
<1>1. IInv => AssignedIsSafe
    BY DEF IInv
<1> QED BY <1>1, Inductive, PTL

\* Stored candidates are the catalog's, each once (bind_classification).
THEOREM CandidatesBound == Spec => []CandidatesAreOurs
<1>1. IInv => CandidatesAreOurs
    BY DEF IInv
<1> QED BY <1>1, Inductive, PTL

\* A danger in the text survives every answer and triage (detect_emergency).
THEOREM DangersStay == Spec => []DangerIsKept
<1>1. IInv => DangerIsKept
    BY DEF IInv
<1> QED BY <1>1, Inductive, PTL

\* Sources are valid guidance of their day (retrieve, generate).
THEOREM SourcesHold == Spec => []CitationsHold
<1>1. IInv => CitationsHold
    BY DEF IInv
<1> QED BY <1>1, Inductive, PTL

\* Only harmless complaints wait for a provider (deferred_safety_reasons).
THEOREM QueueIsHarmless == Spec => []QueuedIsHarmless
<1>1. IInv => QueuedIsHarmless
    BY DEF IInv
<1> QED BY <1>1, Inductive, PTL

-----------------------------------------------------------------------------
(* Triage keeps the gate (ReviewGate).                                     *)

\* What the gate sees of each status.
LEMMA StandingFacts ==
    /\ Standing("received") = "absent"
    /\ Standing("needs_review") = "review" /\ Standing("urgent_review") = "review"
    /\ Standing("assigned") = "assigned" /\ Standing("reviewed") = "reviewed"
BY DEF Standing

\* Triage at once is a request that leaves nothing pending.
LEMMA ProcessRequests ==
    ASSUME Process
    PROVE  Gate!Request
<1>1. PICK x, documents, draft, raw, on : triage' = Decision(x, {}, documents, draft, raw, on)
  <2>1. PICK c \in Classifications, today \in Midnight, on \in Midnight :
            LET x == Classified(c.result, today)
                documents == Retrieved(x.category, text, on)
            IN  \E s \in Sentences(documents) :
                   triage' = Decision(x, {}, documents, Draft(s, documents), c.raw, on)
      BY DEF Process
  <2> QED BY <2>1
<1>2. triage'.status \in {"needs_review", "urgent_review", "assigned"}
  <2>1. PICK t : t = triage'
      OBVIOUS
  <2> QED BY <1>1, <2>1, DecisionColumns
<1>3. job = "none" /\ job' = "none"
    BY DEF Process
<1> QED BY <1>2, <1>3, StandingFacts DEF Gate!Request

\* A deferred request leaves the complaint with officers, and perhaps a job.
LEMMA EnqueueRequests ==
    ASSUME IInv', Enqueue
    PROVE  Gate!Request
<1>1. PICK x, documents, draft, raw, on :
          triage' = Decision(x, Deferred, documents, draft, raw, on)
    BY DEF Enqueue
<1>2. triage'.status \in {"needs_review", "urgent_review"}
  <2>1. PICK t : t = triage'
      OBVIOUS
  <2> QED BY <1>1, <2>1, DecisionColumns, DeferredFacts
<1>3. job = "none"
    BY DEF Enqueue
<1>4. job' # "none" => triage'.status = "needs_review"
    BY DEF IInv, QueuedIsHarmless
<1> QED BY <1>2, <1>3, <1>4, StandingFacts DEF Gate!Request

\* Work ends, with a result or without, and officers keep the complaint.
LEMMA WorkFinishes ==
    ASSUME IInv, Apply \/ GiveUp
    PROVE  Gate!Finish
<1>1. job # "none" /\ job' = "none"
    BY DEF Apply, GiveUp
<1>2. triage.status = "needs_review"
    BY <1>1 DEF IInv, QueuedIsHarmless
<1>3. triage'.status \in {"needs_review", "urgent_review"}
  <2>1. CASE Apply
    <3>1. PICK x, documents, draft, raw, on :
              triage' = Decision(x, Deferred, documents, draft, raw, on)
        BY <2>1 DEF Apply
    <3>2. PICK t : t = triage'
        OBVIOUS
    <3> QED BY <3>1, <3>2, DecisionColumns, DeferredFacts
  <2>2. CASE GiveUp
      BY <1>2, <2>2 DEF GiveUp
  <2> QED BY <2>1, <2>2
<1> QED BY <1>1, <1>2, <1>3, StandingFacts DEF Gate!Finish

\* A complaint that has been triaged is never again merely received.
Triaged == triage # Untriaged => triage.status # "received"

\* An approval changes the status, as an import may.
LEMMA ChangedStatus ==
    ASSUME IInv
    PROVE  /\ \A d \in Departments : Approve(d) => triage'.status = "reviewed"
           /\ Supersede => IF triage.status = "assigned" THEN triage'.status = "needs_review"
                                                        ELSE UNCHANGED triage
<1>1. PICK t : t = triage
    OBVIOUS
<1>2. ASSUME NEW d \in Departments, Approve(d)
      PROVE  triage'.status = "reviewed"
  <2>1. Columns(t) /\ triage' = [t EXCEPT !.status = "reviewed", !.department = d]
      BY <1>1, <1>2 DEF Approve, IInv
  <2> QED BY <2>1 DEF Columns
<1>3. ASSUME Supersede, triage.status = "assigned"
      PROVE  triage'.status = "needs_review"
  <2>1. Columns(t) /\ triage' = [t EXCEPT !.status = "needs_review", !.department = Nowhere]
      BY <1>1, <1>3 DEF IInv, Supersede, Untriaged
  <2> QED BY <2>1 DEF Columns
<1>4. Supersede /\ triage.status # "assigned" => UNCHANGED triage
    BY DEF Supersede
<1> QED BY <1>2, <1>3, <1>4

\* Every step keeps a triaged complaint triaged.
LEMMA NextTriaged ==
    ASSUME IInv, IInv', Triaged, [Next]_vars
    PROVE  Triaged'
<1>1. CASE Process \/ Enqueue
  <2>1. Gate!Request
      BY <1>1, ProcessRequests, EnqueueRequests
  <2> QED BY <2>1, StandingFacts DEF Gate!Request, Triaged
<1>2. CASE Apply \/ GiveUp
  <2>1. Gate!Finish
      BY <1>2, WorkFinishes
  <2> QED BY <2>1, StandingFacts DEF Gate!Finish, Triaged
<1>3. CASE \E d \in Departments : Approve(d)
    BY <1>3, ChangedStatus DEF Triaged
<1>4. CASE Supersede
    BY <1>4, ChangedStatus DEF Triaged
<1>5. CASE Prepare \/ NextDay \/ Overwrite \/ UNCHANGED vars
    BY <1>5 DEF Prepare, NextDay, Overwrite, vars, Triaged, Untriaged
<1> QED BY <1>1, <1>2, <1>3, <1>4, <1>5 DEF Next

\* An approval is the officer's decision, and an import a recall or nothing.
LEMMA OthersPassGate ==
    ASSUME IInv, Triaged,
           \/ \E d \in Departments : Approve(d)
           \/ Prepare \/ NextDay \/ Overwrite \/ Supersede \/ UNCHANGED vars
    PROVE  [Gate!Next]_(Gate!vars)
<1>1. CASE \E d \in Departments : Approve(d)
  <2>1. triage # Untriaged /\ job' = "none" /\ triage'.status = "reviewed"
      BY <1>1, ChangedStatus DEF Approve
  <2>2. Standing(triage.status) # "absent"
      BY <2>1, StandingFacts DEF Triaged, IInv, TypeOK, Statuses
  <2> QED BY <2>1, <2>2, StandingFacts DEF Gate!Next, Gate!Decide
<1>2. CASE Prepare
    BY <1>2 DEF Prepare, Gate!vars
<1>3. CASE NextDay \/ Overwrite \/ UNCHANGED vars
    BY <1>3 DEF NextDay, Overwrite, vars, Gate!vars
<1>4. CASE Supersede
  <2>1. UNCHANGED job
      BY <1>4 DEF Supersede
  <2> QED BY <1>4, <2>1, ChangedStatus, StandingFacts
          DEF Gate!Next, Gate!Recall, Gate!vars
<1> QED BY <1>1, <1>2, <1>3, <1>4

\* Whatever a provider says and whenever, what it prepared ends with an officer,
\* and a decision stands until somebody asks for triage again (apply_deferred).
THEOREM GateIsKept == Spec => KeepsGate
<1>1. Init => Gate!Init /\ Triaged
    BY StandingFacts DEF Init, Untriaged, Triaged, Gate!Init
<1>2. IInv /\ IInv' /\ Triaged /\ [Next]_vars => Triaged'
    BY NextTriaged
<1>3. IInv /\ IInv' /\ Triaged /\ [Next]_vars => [Gate!Next]_(Gate!vars)
    BY ProcessRequests, EnqueueRequests, WorkFinishes, OthersPassGate DEF Next, Gate!Next
<1> QED BY <1>1, <1>2, <1>3, Inductive, PTL DEF Spec, KeepsGate, Gate!Spec

-----------------------------------------------------------------------------
(* What was prepared is what is stored.                                    *)

\* The stand-in is the fallback department's.
LEMMA StandInDepartment == StandIn.candidates[1].department = Fallback
<1>1. PICK c : c = [department |-> Fallback, confidence |-> 0, version |-> CatalogVersion,
                    tasks |-> TasksOf[Fallback]]
    OBVIOUS
<1>2. StandIn.candidates = <<c>>
    BY <1>1 DEF StandIn
<1> QED BY <1>1, <1>2

\* Storing a prepared result.
LEMMA ApplyGives ==
    ASSUME IInv, Apply
    PROVE  GivesWhatWasPrepared
<1>1. /\ prepared # Nothing /\ AnswerOK(prepared.result)
      /\ Bound(prepared.result) = prepared.result /\ ~superseded
    BY DEF Apply, IInv, TypeOK, PreparedInv, InForce
<1>2. PICK today \in Midnight :
          /\ day' = today
          /\ triage' = Decision(Classified(prepared.result, today), Deferred, prepared.documents,
                                prepared.draft, prepared.raw, prepared.on)
    BY DEF Apply
<1>3. PICK p, x : p = prepared.result /\ x = Classified(prepared.result, today)
    OBVIOUS
<1>4. PICK t : t = triage'
    OBVIOUS
<1>5. t = Decision(x, Deferred, prepared.documents, prepared.draft, prepared.raw, prepared.on)
    BY <1>2, <1>3, <1>4
<1>6. /\ t.documents = prepared.documents /\ t.sentences = prepared.draft.sentences
      /\ t.grounding = prepared.draft.grounding
      /\ t.category = x.category /\ t.subcategory = x.subcategory /\ t.candidates = x.candidates
    BY <1>5, DecisionColumns
<1>7. x = p \/ (x = StandIn /\ ~InForce(today))
  <2>1. ~p.failed
      BY <1>1, <1>3 DEF AnswerOK, ClassificationType
  <2> QED BY <1>1, <1>3, <2>1 DEF Classified
<1>8. ~InForce(today) => CatalogUntil < today
  <2>1. today \in Int
      BY MidnightFacts, BoundsAssumption DEF BoundsAssumption, IInv, TypeOK
  <2> QED BY <1>1, <2>1, CatalogDateAssumption DEF CatalogDateAssumption, InForce
<1> QED BY <1>2, <1>3, <1>4, <1>6, <1>7, <1>8, StandInDepartment DEF GivesWhatWasPrepared

\* A worker's result is stored as it was prepared, bound once more or not
\* (prepare_deferred, apply_deferred, bind_classification).
THEOREM PreparedIsStored == Spec => StoredAsPrepared
<1>1. IInv /\ [Next]_vars => [GivesWhatWasPrepared]_vars
  <2> SUFFICES ASSUME IInv, Next PROVE GivesWhatWasPrepared
      OBVIOUS
  <2>1. CASE Process \/ Enqueue \/ Prepare \/ GiveUp \/ NextDay \/ Overwrite
      BY <2>1 DEF Process, Enqueue, Prepare, GiveUp, NextDay, Overwrite, GivesWhatWasPrepared
  <2>2. CASE Apply
      BY <2>2, ApplyGives
  <2>3. CASE \E d \in Departments : Approve(d)
      BY <2>3, ChangedStatus DEF GivesWhatWasPrepared
  <2>4. CASE Supersede
    <3>1. job = "prepared" => triage.status # "assigned"
        BY DEF IInv, QueuedIsHarmless
    <3> QED BY <2>4, <3>1, ChangedStatus DEF GivesWhatWasPrepared
  <2> QED BY <2>1, <2>2, <2>3, <2>4 DEF Next
<1> QED BY <1>1, Inductive, PTL DEF Spec, StoredAsPrepared
=============================================================================
