------------------------- MODULE ReplyPublication --------------------------
(***************************************************************************)
(* One complaint from triage to the answer a citizen sees: machine drafts  *)
(* and their grounding record (services/pipeline.py), officers' reviews,   *)
(* and the publication of a review (services/citizen.py).                  *)
(*                                                                         *)
(* Triage, approval and publication each take the complaint's lock with    *)
(* their first write and are atomic from there.  What officers act on is a *)
(* page they opened earlier: the review number in its publication form.    *)
(***************************************************************************)
EXTENDS Naturals, Sequences

CONSTANTS
    Pages,        \* complaint pages officers have open
    Texts,        \* drafts and answers
    Identifying,  \* the texts redact_pii finds a direct identifier in
    MaxReviews    \* bound: how often the complaint is approved

ASSUME TextsAssumption == Identifying \subseteq Texts
ASSUME BoundAssumption == MaxReviews \in Nat

VARIABLES
    complaint,    \* status and answer_draft, and whether a citizen filed it
    grounding,    \* validation_status of the grounding record
    reviews,      \* review_decisions, append-only
    replies,      \* published_replies, append-only
    pages,        \* page -> review its form publishes, 0 without a form
    machine       \* history: the last machine draft and its verdict

vars == <<complaint, grounding, reviews, replies, pages, machine>>

\* What CitationEnforcedDrafter can say of a draft.
Verdicts == {"grounded", "no_sources", "flagged"}

Draft(text, verdict) == [text |-> text, verdict |-> verdict]

\* A triaged complaint, or one of a database older than grounding records.
Init ==
    /\ complaint \in [status : {"open"}, draft : Texts, citizen : BOOLEAN]
    /\ grounding \in Verdicts \cup {"missing"}
    /\ reviews = <<>>
    /\ replies = <<>>
    /\ pages = [p \in Pages |-> 0]
    /\ machine = Draft(complaint.draft, grounding)

\* Mutant: a new draft does not reset the record.
Triage_KeepsGrounding ==
    \E text \in Texts, verdict \in Verdicts :
        /\ complaint' = [complaint EXCEPT !.status = "open", !.draft = text]
        /\ machine' = Draft(text, verdict)
        /\ UNCHANGED <<grounding, reviews, replies, pages>>

\* _process_existing, for a reprocess or a deferred result: it clears an
\* earlier review and replaces the draft and its grounding record.
Triage ==
    \E text \in Texts, verdict \in Verdicts :
        /\ complaint' = [complaint EXCEPT !.status = "open", !.draft = text]
        /\ grounding' = verdict
        /\ machine' = Draft(text, verdict)
        /\ UNCHANGED <<reviews, replies, pages>>

LastReview == reviews[Len(reviews)]

\* Number of the review the citizen sees, 0 for none: latest_reply.
Visible == IF replies = <<>> THEN 0 ELSE replies[Len(replies)].review

\* The detail page offers to publish the latest review unless it is public.
OpenPage(p) ==
    /\ pages' = [pages EXCEPT ![p] =
           IF complaint.status = "reviewed" /\ Visible # Len(reviews)
           THEN Len(reviews) ELSE 0]
    /\ UNCHANGED <<complaint, grounding, reviews, replies, machine>>

Modified(text) == complaint.draft # text

GroundingAfter(modified) ==
    IF modified /\ grounding # "missing" THEN "human_modified_unverified" ELSE grounding

ReviewOf(text, record) ==
    [answer |-> text, modified |-> Modified(text), grounding |-> record, machine |-> machine]

\* Mutant: only an approval that changes the draft leaves a review.
Recorded_OnlyWhenModified(text, record) ==
    IF Modified(text) THEN Append(reviews, ReviewOf(text, record)) ELSE reviews

Recorded(text, record) == Append(reviews, ReviewOf(text, record))

\* approve, when nothing blocks it; the text need not be the draft shown.
Approve ==
    \E text \in Texts \ Identifying :
        LET record == GroundingAfter(Modified(text))
        IN  /\ Len(reviews) < MaxReviews
            /\ reviews' = Recorded(text, record)
            /\ grounding' = record
            /\ complaint' = [complaint EXCEPT !.status = "reviewed", !.draft = text]
            /\ UNCHANGED <<replies, pages, machine>>

\* Mutant: any review of the complaint may be published.
MayPublish_AnyReview(id) ==
    /\ complaint.citizen
    /\ complaint.status = "reviewed"
    /\ id \in DOMAIN reviews
    /\ reviews[id].answer \notin Identifying

\* publication_requires_current_review, publication_contains_identifiers
MayPublish(id) ==
    /\ complaint.citizen
    /\ complaint.status = "reviewed"
    /\ reviews # <<>> /\ id = Len(reviews)
    /\ LastReview.answer = complaint.draft
    /\ LastReview.answer \notin Identifying

\* The server copies the review snapshot.
Reply(id) == [review |-> id, answer |-> LastReview.answer]

\* Mutant: a second publication is not noticed.
Published_Never(id) == FALSE

Published(id) == \E i \in DOMAIN replies : replies[i].review = id

\* publish_reply: a review that is public already is left as it is.
PublishReply(p) ==
    /\ pages[p] # 0
    /\ MayPublish(pages[p])
    /\ ~Published(pages[p])
    /\ replies' = Append(replies, Reply(pages[p]))
    /\ UNCHANGED <<complaint, grounding, reviews, pages, machine>>

Next ==
    \/ Triage
    \/ Approve
    \/ \E p \in Pages : OpenPage(p)
    \/ \E p \in Pages : PublishReply(p)

Spec == Init /\ [][Next]_vars

-----------------------------------------------------------------------------
RecordStates == Verdicts \cup {"human_modified_unverified", "missing"}

ReviewType == [answer : Texts, modified : BOOLEAN, grounding : RecordStates,
               machine : [text : Texts, verdict : Verdicts \cup {"missing"}]]

\* The tables have the types their columns have; a page's form names a review.
TypeOK ==
    /\ complaint \in [status : {"open", "reviewed"}, draft : Texts, citizen : BOOLEAN]
    /\ grounding \in RecordStates
    /\ reviews \in Seq(ReviewType)
    /\ replies \in Seq([review : Nat \ {0}, answer : Texts])
    /\ pages \in [Pages -> 0..Len(reviews)]
    /\ machine \in [text : Texts, verdict : Verdicts \cup {"missing"}]
    /\ complaint.status = "reviewed" => reviews # <<>>

\* Double clicks, stale pages and two officers publish a review at most once,
\* never an older review after a newer one, and always the text that was
\* reviewed; so the unique review_id never fires.
RepliesFollowReviews ==
    /\ \A i \in DOMAIN replies :
          /\ replies[i].review \in DOMAIN reviews
          /\ replies[i].answer = reviews[replies[i].review].answer
    /\ \A i, j \in DOMAIN replies : i < j => replies[i].review < replies[j].review

\* A grounding verdict is only ever shown for the text it was computed on: the
\* record describes the current draft, a review's status the text it approved,
\* however edits, re-approvals and reprocessing follow one another.
GroundingHonest ==
    /\ grounding \in Verdicts =>
          machine = Draft(complaint.draft, grounding)
    /\ \A i \in DOMAIN reviews :
          reviews[i].grounding \in Verdicts =>
              reviews[i].machine = Draft(reviews[i].answer, reviews[i].grounding)

Citizen == INSTANCE CitizenView WITH
    decisions <- [i \in DOMAIN reviews |-> reviews[i].answer],
    shown <- Visible

\* The citizen's page implements the promise: whatever pages officers left open,
\* it only ever moves to the decision that is the latest one at that moment.
ShowsLatestDecision == Citizen!Spec
=============================================================================
