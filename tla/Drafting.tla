------------------------------ MODULE Drafting ------------------------------
(***************************************************************************)
(* Guidance documents and the drafts that cite them: which documents may   *)
(* be used on a day, which are retrieved for a text, and which sentences   *)
(* of a draft provider survive (services/knowledge.py, draft.py).          *)
(*                                                                         *)
(* A document or sentence is what the checks make of it: whether it has    *)
(* instructions or automatic decisions in it, personal identifiers, and    *)
(* how many tokens it shares.                                              *)
(***************************************************************************)
EXTENDS Integers, FiniteSets

CONSTANTS
    Documents,      \* document ids
    Guide,          \* document -> its metadata and content
    NoDocument,     \* superseded_by left blank
    MaxDocuments,   \* retrieve: limit
    NoUntil         \* effective_until left blank

ASSUME GuideAssumption ==
    \A d \in Documents :
       /\ Guide[d].approval \in {"approved", "draft", "revoked"}
       /\ Guide[d].until = NoUntil \/ Guide[d].from <= Guide[d].until
       /\ Guide[d].successor \in (Documents \ {d}) \cup {NoDocument}

\* is_effective: both ends belong to the window.
Effective(d, day) ==
    /\ Guide[d].from <= day
    /\ Guide[d].until = NoUntil \/ day <= Guide[d].until

InUse(d, day) == Guide[d].approval = "approved" /\ Effective(d, day)

Superseded(d, day) == Guide[d].successor # NoDocument /\ InUse(Guide[d].successor, day)

\* Mutant: the links between versions are not followed.
Eligible_IgnoresLinks(d, day) == InUse(d, day) /\ ~Guide[d].unsafe /\ ~Guide[d].personal

\* _eligibility_reason finds none.
Eligible(d, day) ==
    InUse(d, day) /\ ~Superseded(d, day) /\ ~Guide[d].unsafe /\ ~Guide[d].personal

\* Two exact tokens or two reviewed concepts in common.
Relevant(d, text) == text.tokens[d] >= 2 \/ text.concepts[d] >= 2

\* The hybrid score orders them, and the id those that score the same.
Better(d, e, text) ==
    \/ text.score[d] > text.score[e]
    \/ text.score[d] = text.score[e] /\ Guide[d].place < Guide[e].place

\* retrieve.
Retrieved(category, text, day) ==
    LET ranked == {d \in Documents : /\ Eligible(d, day) /\ Guide[d].category = category
                                     /\ Relevant(d, text)}
    IN  {d \in ranked : Cardinality({e \in ranked : Better(e, d, text)}) < MaxDocuments}

-----------------------------------------------------------------------------
(* CitationEnforcedDrafter.generate.                                       *)

\* A line of one of the operational forms; it may quote the citizen.
Operational(quoted) ==
    [substantive |-> FALSE, form |-> TRUE, sources |-> {}, shared |-> 0, words |-> 1,
     unsafe |-> quoted, personal |-> FALSE]

\* A document's first sentence, behind four words of the template's own.
Quotation(d) ==
    [substantive |-> TRUE, form |-> FALSE, sources |-> {d}, shared |-> Guide[d].lead,
     words |-> Guide[d].lead + 4, unsafe |-> FALSE, personal |-> FALSE]

\* RulesGroundedDraftProvider.generate.
RulesDraft(text, documents) ==
    {Operational(FALSE), Operational(text.unsafe)} \cup {Quotation(d) : d \in documents}

\* Mutant: any known document will do as a source.
Supported_AnySource(s, documents) ==
    /\ s.sources # {} /\ s.sources \subseteq Documents
    /\ s.shared >= 2 /\ 100 * s.shared >= 35 * s.words

Supported(s, documents) ==
    /\ s.sources # {} /\ s.sources \subseteq documents
    /\ s.shared >= 2 /\ 100 * s.shared >= 35 * s.words

\* Neither the redaction of its text nor _rejection_reason finds anything.
Accepted(s, documents) ==
    /\ ~s.personal /\ ~s.unsafe
    /\ IF s.substantive THEN Supported(s, documents) ELSE s.sources = {} /\ s.form

\* generate, on what the provider returned.
Draft(sentences, documents) ==
    LET accepted == {s \in sentences : Accepted(s, documents)}
        cited == UNION {s.sources : s \in accepted}
    IN  [sentences |-> accepted, sources |-> cited,
         grounding |-> IF accepted # sentences THEN "flagged"
                       ELSE IF cited = {} THEN "no_sources" ELSE "grounded",
         review |-> accepted # sentences \/ cited = {}]
=============================================================================
