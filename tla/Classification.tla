--------------------------- MODULE Classification ---------------------------
(***************************************************************************)
(* From a complaint's text to candidate departments: the rule classifier   *)
(* and the binding of any classifier's answer to the loaded catalog        *)
(* (services/classifier.py, openai_classifier.py, policy.py).              *)
(*                                                                         *)
(* Confidences are in percent.  A text is what the local detectors and the *)
(* keyword rules make of it: how many keywords of each rule it has, its    *)
(* urgency, whether it has a sensitive word and a location.                *)
(***************************************************************************)
EXTENDS Integers, Sequences, FiniteSets

CONSTANTS
    Departments,         \* active departments of the catalog: by_id
    CategoryOf,          \* department -> its category
    TasksOf,             \* department -> its work assignments
    Rules,               \* routing rules in catalog order
    Fallback,            \* fallback_department_id
    CatalogVersion,      \* the version this process has loaded
    NoVersion,           \* an answer without a version
    SensitiveCategories, \* _SENSITIVE_CATEGORIES
    Words                \* what ids, categories and reason codes are made of

\* The codes and names of the program's own.
OwnWords ==
    {"unmatched", "unknown_or_inactive_department", "duplicate_department_candidate",
     "candidate_catalog_version_mismatch", "invalid_work_assignment_reference",
     "category_department_mismatch", "fallback_department", "unmatched_work_assignment",
     "ambiguous_department_candidates", "ambiguous_work_assignments", "missing_information",
     "provider_requires_review"}

ASSUME CatalogAssumption ==
    /\ OwnWords \subseteq Words
    /\ Fallback \in Departments /\ Departments \subseteq Words
    /\ CategoryOf \in [Departments -> Words] /\ TasksOf \in [Departments -> SUBSET Words]
    /\ CatalogVersion \in Words
    /\ Rules \in Seq([department : Departments, subcategory : Words, tasks : SUBSET Words,
                      needsPlace : BOOLEAN])
    /\ \A d, e \in Departments : d # e => TasksOf[d] \cap TasksOf[e] = {}
    /\ \A d \in Departments : TasksOf[d] # {}
    /\ \A i \in DOMAIN Rules :
          Rules[i].tasks # {} /\ Rules[i].tasks \subseteq TasksOf[Rules[i].department]
    /\ NoVersion # CatalogVersion

\* A department may have thirty work assignments and a new ClassificationCandidate
\* names at most ten: with more of them in the fallback department, the candidates of
\* classify and of the stand-in could not be made.  A bound candidate is a copy that
\* is not validated again, so other departments need no such limit.
ASSUME FallbackAssumption ==
    IsFiniteSet(TasksOf[Fallback]) /\ Cardinality(TasksOf[Fallback]) <= 10

Urgencies == {"normal", "high", "critical"}

\* ClassificationCandidate and ClassificationResult.
CandidateType ==
    [department : Words, confidence : 0..100, version : Words, tasks : SUBSET Words]

ClassificationType ==
    [failed : {FALSE}, category : Words, subcategory : Words, urgency : Urgencies,
     missing : BOOLEAN, review : BOOLEAN, reasons : SUBSET Words,
     candidates : Seq(CandidateType)]

\* The elements of S in the order of the pairs in before.
Ranked(S, before) ==
    [k \in 1..Cardinality(S) |->
        CHOOSE i \in S : Cardinality({j \in S : <<j, i>> \in before}) = k - 1]

\* The order of the places in a list of length n.
Earlier(n) == {p \in (1..n) \X (1..n) : p[1] < p[2]}

\* What evaluate_policy makes of a category.
SensitiveCategory(category) == category \in SensitiveCategories

RulesOf(d) == {i \in DOMAIN Rules : Rules[i].department = d}

\* work_assignment_ids_for.
TasksFor(d, subcategory) ==
    LET matched == UNION {Rules[i].tasks : i \in {j \in RulesOf(d) :
                                                    Rules[j].subcategory = subcategory}}
    IN  IF matched = {} THEN TasksOf[d] ELSE matched

-----------------------------------------------------------------------------
(* bind_classification.                                                    *)

Failure == [failed |-> TRUE]

Known(x, i) == x.candidates[i].department \in Departments

\* Candidates that stay: of an active department, and its first mention.
Kept(x) ==
    {i \in DOMAIN x.candidates :
        Known(x, i) /\ \A j \in 1..(i - 1) :
                          x.candidates[j].department # x.candidates[i].department}

ValidTasks(x, i) ==
    x.candidates[i].tasks \subseteq TasksFor(x.candidates[i].department, x.subcategory)

\* Mutant: any tasks a provider names are kept.
BoundCandidate_AnyTasks(x, i) ==
    LET c == x.candidates[i] IN
    [c EXCEPT !.version = CatalogVersion,
              !.tasks = IF c.tasks # {} THEN c.tasks ELSE TasksFor(c.department, x.subcategory)]

BoundCandidate(x, i) ==
    LET c == x.candidates[i] IN
    [c EXCEPT !.version = CatalogVersion,
              !.tasks = IF c.tasks # {} /\ ValidTasks(x, i) THEN c.tasks
                        ELSE TasksFor(c.department, x.subcategory)]

\* What an answer names that the catalog does not.
Repairs(x) ==
    {"unknown_or_inactive_department" : i \in {j \in DOMAIN x.candidates : ~Known(x, j)}}
    \cup {"duplicate_department_candidate" :
             i \in {j \in DOMAIN x.candidates \ Kept(x) : Known(x, j)}}
    \cup {"candidate_catalog_version_mismatch" :
             i \in {j \in Kept(x) : x.candidates[j].version \notin {NoVersion, CatalogVersion}}}
    \cup {"invalid_work_assignment_reference" : i \in {j \in Kept(x) : ~ValidTasks(x, j)}}

When(condition, reason) == IF condition THEN {reason} ELSE {}

\* Mutant: only a runner-up close behind is ambiguous.
Ambiguous_GapOnly(bound) ==
    Len(bound) > 1 /\ bound[1].confidence - bound[2].confidence <= 5

Ambiguous(bound) ==
    /\ Len(bound) > 1
    /\ \/ bound[2].confidence >= 90
       \/ bound[1].confidence - bound[2].confidence <= 5

\* What makes the best candidate unfit for an automatic route.
Doubts(x, bound) ==
    LET top == bound[1].department IN
    When(x.category # CategoryOf[top], "category_department_mismatch")
    \cup (IF top = Fallback THEN {"fallback_department"}
          ELSE When(\A i \in RulesOf(top) : Rules[i].subcategory # x.subcategory,
                    "unmatched_work_assignment"))
    \cup When(Ambiguous(bound), "ambiguous_department_candidates")
    \cup When(x.missing, "missing_information")

\* bind_classification, while the catalog is effective.
Bound(x) ==
    LET order == Ranked(Kept(x), Earlier(Len(x.candidates)))
        bound == [k \in DOMAIN order |-> BoundCandidate(x, order[k])]
        reasons == x.reasons \cup Repairs(x) \cup Doubts(x, bound)
    IN  IF Kept(x) = {} THEN Failure
        ELSE [x EXCEPT !.candidates = bound, !.reasons = reasons,
                       !.review = @ \/ reasons # {}]

-----------------------------------------------------------------------------
(* RuleBasedClassifier.classify.                                           *)

Confidence(hits) == IF 76 + 8 * hits > 98 THEN 98 ELSE 76 + 8 * hits

Surer(text) ==
    {p \in (DOMAIN Rules) \X (DOMAIN Rules) :
        LET first == Confidence(text.hits[p[1]])
            second == Confidence(text.hits[p[2]])
        IN  first > second \/ (first = second /\ p[1] < p[2])}

\* Rules with a keyword in the text, most confident first, then catalog order.
Scored(text) == Ranked({i \in DOMAIN Rules : text.hits[i] > 0}, Surer(text))

\* Nothing matched: the fallback department, for a person to look at.
Unmatched ==
    [failed |-> FALSE, category |-> CategoryOf[Fallback], subcategory |-> "unmatched",
     urgency |-> "normal", missing |-> FALSE, review |-> TRUE, reasons |-> {},
     candidates |-> <<[department |-> Fallback, confidence |-> 45,
                       version |-> CatalogVersion, tasks |-> TasksOf[Fallback]]>>]

\* The best rule of each department, at most three of them.
RuleCandidates(text) ==
    LET scored == Scored(text)
        first == {k \in DOMAIN scored : \A l \in 1..(k - 1) :
                     Rules[scored[l]].department # Rules[scored[k]].department}
        order == Ranked(first, Earlier(Len(scored)))
        candidate(i) == [department |-> Rules[i].department, version |-> CatalogVersion,
                         confidence |-> Confidence(text.hits[i]), tasks |-> Rules[i].tasks]
    IN  [k \in DOMAIN order \cap 1..3 |-> candidate(scored[order[k]])]

\* Rules of the best department that point to other work, at most 10 behind.
AmbiguousWork(text) ==
    LET scored == Scored(text)
        best == scored[1]
    IN  \E k \in 2..Len(scored) :
           /\ Rules[scored[k]].department = Rules[best].department
           /\ Rules[scored[k]].tasks # Rules[best].tasks
           /\ Confidence(text.hits[best]) - Confidence(text.hits[scored[k]]) <= 10

\* classify, while the catalog is effective.
ByRules(text) ==
    LET best == Scored(text)[1]
        missing == Rules[best].needsPlace /\ ~text.located
    IN  IF Scored(text) = <<>> THEN Unmatched
        ELSE Bound([failed |-> FALSE, category |-> CategoryOf[Rules[best].department],
                    subcategory |-> Rules[best].subcategory, urgency |-> "normal",
                    missing |-> missing, review |-> missing,
                    reasons |-> When(AmbiguousWork(text), "ambiguous_work_assignments"),
                    candidates |-> RuleCandidates(text)])
=============================================================================
