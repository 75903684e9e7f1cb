---------------------- MODULE ReplyPublicationProofs -----------------------
(***************************************************************************)
(* Proofs about ReplyPublication: the inductive invariant and that the     *)
(* citizen's page implements CitizenView.                                  *)
(***************************************************************************)
EXTENDS ReplyPublication, TLAPS

\* The inductive invariant: the three invariants of the runs need one another
\* (a reply's number is below that of the review about to be published because
\* it is the number of a review, and of another one).
IInv == TypeOK /\ RepliesFollowReviews /\ GroundingHonest

\* Verdicts and the other states of a grounding record do not overlap.
LEMMA RecordStatesDiffer ==
    "human_modified_unverified" \notin Verdicts /\ "missing" \notin Verdicts
BY DEF Verdicts

\* Before the first review every part holds.
LEMMA InitIInv == Init => IInv
BY SMT, RecordStatesDiffer
DEF Init, IInv, TypeOK, RepliesFollowReviews, GroundingHonest, RecordStates, Draft, ReviewType

\* A triage replaces draft, record and machine verdict together.
LEMMA TriageIInv == IInv /\ Triage => IInv'
<1> SUFFICES ASSUME IInv, Triage PROVE IInv'
    OBVIOUS
<1>1. TypeOK'
  <2> USE DEF IInv, TypeOK, Triage
  <2>1. complaint' \in [status : {"open", "reviewed"}, draft : Texts, citizen : BOOLEAN]
    OBVIOUS
  <2>2. grounding' \in RecordStates
    BY DEF RecordStates
  <2>3. machine' \in [text : Texts, verdict : Verdicts \cup {"missing"}]
    BY DEF Draft
  <2>4. /\ UNCHANGED <<reviews, replies, pages>>
        /\ complaint'.status = "open"
    OBVIOUS
  <2> QED BY <2>1, <2>2, <2>3, <2>4
<1>2. RepliesFollowReviews'
    BY DEF IInv, RepliesFollowReviews, Triage
<1>3. GroundingHonest'
    BY DEF IInv, GroundingHonest, Triage, Draft
<1> QED BY <1>1, <1>2, <1>3 DEF IInv

\* An approval that edits the draft takes the verdict away; one that does not
\* leaves both as they are.
LEMMA ApproveIInv == IInv /\ Approve => IInv'
<1> SUFFICES ASSUME IInv, Approve PROVE IInv'
    OBVIOUS
<1>1. PICK text \in Texts \ Identifying :
          /\ reviews' = Append(reviews, ReviewOf(text, GroundingAfter(Modified(text))))
          /\ grounding' = GroundingAfter(Modified(text))
          /\ complaint' = [complaint EXCEPT !.status = "reviewed", !.draft = text]
          /\ UNCHANGED <<replies, pages, machine>>
    BY DEF Approve, Recorded
<1> DEFINE new == ReviewOf(text, GroundingAfter(Modified(text)))
<1>2. GroundingAfter(Modified(text)) \in RecordStates
    BY DEF IInv, TypeOK, GroundingAfter, RecordStates
<1>3. new \in ReviewType
    BY <1>2 DEF IInv, TypeOK, ReviewOf, ReviewType, Modified
<1>4. /\ reviews' \in Seq(ReviewType)
      /\ Len(reviews') = Len(reviews) + 1
      /\ \A i \in DOMAIN reviews : i \in DOMAIN reviews' /\ reviews'[i] = reviews[i]
      /\ DOMAIN reviews' = DOMAIN reviews \cup {Len(reviews) + 1}
      /\ reviews'[Len(reviews) + 1] = new
    BY <1>1, <1>3 DEF IInv, TypeOK
<1>5. TypeOK'
  <2>1. pages' \in [Pages -> 0..Len(reviews')]
    BY <1>1, <1>4 DEF IInv, TypeOK
  <2>2. reviews' # <<>>
    BY <1>4 DEF IInv, TypeOK
  <2> QED BY <1>1, <1>2, <1>4, <2>1, <2>2 DEF IInv, TypeOK
<1>6. RepliesFollowReviews'
    BY <1>1, <1>4 DEF IInv, RepliesFollowReviews
<1>7. ASSUME GroundingAfter(Modified(text)) \in Verdicts
      PROVE  grounding = GroundingAfter(Modified(text)) /\ complaint.draft = text
    BY <1>7, RecordStatesDiffer DEF GroundingAfter, Modified, IInv, TypeOK, RecordStates
<1>8. GroundingHonest'
  <2>1. ASSUME grounding' \in Verdicts PROVE machine' = Draft(complaint'.draft, grounding')
    BY <1>1, <1>7, <2>1 DEF IInv, GroundingHonest, TypeOK
  <2>2. ASSUME new.grounding \in Verdicts PROVE new.machine = Draft(new.answer, new.grounding)
    BY <1>7, <2>2 DEF ReviewOf, IInv, GroundingHonest
  <2> QED BY <1>4, <2>1, <2>2 DEF IInv, GroundingHonest
<1> QED BY <1>5, <1>6, <1>8 DEF IInv

\* Opening a page notes a number of a review, or none.
LEMMA OpenPageIInv == ASSUME NEW p \in Pages, IInv, OpenPage(p) PROVE IInv'
<1>1. TypeOK'
    BY SMT DEF IInv, TypeOK, OpenPage
<1>2. RepliesFollowReviews' /\ GroundingHonest'
    BY DEF IInv, RepliesFollowReviews, GroundingHonest, OpenPage
<1> QED BY <1>1, <1>2 DEF IInv

\* A publication appends a reply to the latest review, which has none yet.
LEMMA PublishReplyIInv == ASSUME NEW p \in Pages, IInv, PublishReply(p) PROVE IInv'
<1> DEFINE n == Len(reviews)
<1>1. /\ n \in DOMAIN reviews /\ n \in Nat \ {0}
      /\ \A i \in DOMAIN replies : replies[i].review # n
      /\ replies' = Append(replies, [review |-> n, answer |-> reviews[n].answer])
      /\ UNCHANGED <<complaint, grounding, reviews, pages, machine>>
    BY DEF PublishReply, MayPublish, Published, Reply, LastReview, IInv, TypeOK
<1>2. reviews[n].answer \in Texts
  <2>1. reviews[n] \in ReviewType
    BY <1>1 DEF IInv, TypeOK
  <2> QED BY <2>1 DEF ReviewType
<1>3. /\ replies' \in Seq([review : Nat \ {0}, answer : Texts])
      /\ DOMAIN replies' = DOMAIN replies \cup {Len(replies) + 1}
      /\ \A i \in DOMAIN replies : replies'[i] = replies[i] /\ i < Len(replies) + 1
      /\ replies'[Len(replies) + 1] = [review |-> n, answer |-> reviews[n].answer]
    BY <1>1, <1>2 DEF IInv, TypeOK
<1>4. TypeOK'
    BY <1>1, <1>3 DEF IInv, TypeOK
<1>5. \A i \in DOMAIN replies : replies[i].review < n
    BY <1>1 DEF IInv, RepliesFollowReviews, TypeOK
<1>6. RepliesFollowReviews'
  <2>1. \A i \in DOMAIN replies' :
            /\ replies'[i].review \in DOMAIN reviews
            /\ replies'[i].answer = reviews[replies'[i].review].answer
    BY <1>1, <1>3 DEF IInv, RepliesFollowReviews
  <2>2. \A i, j \in DOMAIN replies' : i < j => replies'[i].review < replies'[j].review
    BY <1>3, <1>5 DEF IInv, RepliesFollowReviews, TypeOK
  <2> QED BY <1>1, <2>1, <2>2 DEF RepliesFollowReviews
<1>7. GroundingHonest'
    BY <1>1 DEF IInv, GroundingHonest
<1> QED BY <1>4, <1>6, <1>7 DEF IInv

\* The invariant holds in every reachable state, for any pages and texts and any
\* number of approvals.
THEOREM Invariant == Spec => []IInv
<1>1. IInv /\ [Next]_vars => IInv'
  <2> SUFFICES ASSUME IInv, [Next]_vars PROVE IInv'
    OBVIOUS
  <2>1. CASE Triage
    BY <2>1, TriageIInv
  <2>2. CASE Approve
    BY <2>2, ApproveIInv
  <2>3. ASSUME NEW p \in Pages, OpenPage(p) PROVE IInv'
    BY <2>3, OpenPageIInv
  <2>4. ASSUME NEW p \in Pages, PublishReply(p) PROVE IInv'
    BY <2>4, PublishReplyIInv
  <2>5. CASE UNCHANGED vars
    BY <2>5 DEF vars, IInv, TypeOK, RepliesFollowReviews, GroundingHonest
  <2> QED BY <2>1, <2>2, <2>3, <2>4, <2>5 DEF Next
<1> QED BY InitIInv, <1>1, PTL DEF Spec

\* The tables keep their types.
THEOREM TypeCorrect == Spec => []TypeOK
BY Invariant, PTL DEF IInv

\* publish_reply never publishes a review twice or an older one after a newer.
THEOREM RepliesInOrder == Spec => []RepliesFollowReviews
BY Invariant, PTL DEF IInv

\* No grounding verdict is ever shown for a text it was not computed on.
THEOREM VerdictsAreHonest == Spec => []GroundingHonest
BY Invariant, PTL DEF IInv

-----------------------------------------------------------------------------
(* Refinement. *)

\* What the citizen sees never changes but by a publication.
LEMMA VisibleUnchanged == UNCHANGED replies => Visible' = Visible
BY DEF Visible

\* The initial state shows nothing and no decision.
LEMMA InitCitizen == Init => Citizen!Init
<1> SUFFICES ASSUME Init PROVE Citizen!Init
    OBVIOUS
<1>1. reviews = <<>> /\ replies = <<>>
    BY DEF Init
<1>2. [i \in DOMAIN reviews |-> reviews[i].answer] = <<>>
    BY <1>1
<1>3. Visible = 0
    BY <1>1 DEF Visible
<1> QED BY <1>2, <1>3 DEF Citizen!Init

\* An approval is a decision.
LEMMA ApproveDecides == IInv /\ Approve => Citizen!Decide
<1> SUFFICES ASSUME IInv, Approve PROVE Citizen!Decide
    OBVIOUS
<1> DEFINE decisions == [i \in DOMAIN reviews |-> reviews[i].answer]
<1>1. PICK text \in Texts \ Identifying :
          /\ reviews' = Append(reviews, ReviewOf(text, GroundingAfter(Modified(text))))
          /\ UNCHANGED replies
    BY DEF Approve, Recorded
<1> DEFINE new == ReviewOf(text, GroundingAfter(Modified(text)))
<1>2. reviews \in Seq(ReviewType) /\ Len(reviews) \in Nat
    BY DEF IInv, TypeOK
<1>3. new \in ReviewType
  <2>1. GroundingAfter(Modified(text)) \in RecordStates
    BY DEF IInv, TypeOK, GroundingAfter, RecordStates
  <2> QED BY <2>1 DEF IInv, TypeOK, ReviewOf, ReviewType, Modified
<1>4. new.answer = text
    BY DEF ReviewOf
<1>5. /\ DOMAIN reviews = 1..Len(reviews)
      /\ DOMAIN reviews' = 1..(Len(reviews) + 1)
      /\ \A i \in 1..Len(reviews) : reviews'[i] = reviews[i]
      /\ reviews'[Len(reviews) + 1] = new
    BY <1>1, <1>2, <1>3
<1>6. decisions \in Seq(Texts) /\ Len(decisions) = Len(reviews)
  <2>1. \A i \in 1..Len(reviews) : reviews[i].answer \in Texts
    <3>1. \A i \in 1..Len(reviews) : reviews[i] \in ReviewType
      BY <1>2
    <3> QED BY <3>1 DEF ReviewType
  <2> QED BY <1>2, <1>5, <2>1
<1>7. [i \in DOMAIN reviews' |-> reviews'[i].answer] = Append(decisions, text)
  <2>1. /\ DOMAIN Append(decisions, text) = 1..(Len(reviews) + 1)
        /\ \A i \in 1..Len(reviews) : Append(decisions, text)[i] = decisions[i]
        /\ Append(decisions, text)[Len(reviews) + 1] = text
    BY <1>1, <1>6, <1>2
  <2>2. \A i \in 1..(Len(reviews) + 1) : reviews'[i].answer = Append(decisions, text)[i]
    BY <1>2, <1>4, <1>5, <2>1
  <2>3. Append(decisions, text) = [i \in 1..(Len(reviews) + 1) |-> Append(decisions, text)[i]]
    BY <1>1, <1>6, <2>1
  <2> QED BY <1>5, <2>2, <2>3
<1>8. Visible' = Visible
    BY <1>1, VisibleUnchanged
<1> QED BY <1>1, <1>7, <1>8 DEF Citizen!Decide

\* A publication shows the latest decision, which was not visible before.
LEMMA PublishShows ==
    ASSUME NEW p \in Pages, IInv, PublishReply(p)
    PROVE  Citizen!Show
<1> DEFINE n == Len(reviews)
<1> DEFINE decisions == [i \in DOMAIN reviews |-> reviews[i].answer]
<1>1. /\ n \in DOMAIN reviews /\ n \in Nat \ {0}
      /\ \A i \in DOMAIN replies : replies[i].review # n
      /\ replies' = Append(replies, [review |-> n, answer |-> reviews[n].answer])
      /\ UNCHANGED reviews
    BY DEF PublishReply, MayPublish, Published, Reply, LastReview, IInv, TypeOK
<1>2. Visible' = n
  <2>1. replies \in Seq([review : Nat \ {0}, answer : Texts])
    BY DEF IInv, TypeOK
  <2>2. replies' # <<>> /\ replies'[Len(replies')].review = n
    BY <1>1, <2>1
  <2> QED BY <2>2 DEF Visible
<1>3. Visible < n
  <2>1. CASE replies = <<>>
    BY <1>1, <2>1 DEF Visible
  <2>2. CASE replies # <<>>
    <3>1. Len(replies) \in DOMAIN replies
      BY <2>2 DEF IInv, TypeOK
    <3>2. replies[Len(replies)].review \in 1..n /\ replies[Len(replies)].review # n
      BY <1>1, <3>1 DEF IInv, RepliesFollowReviews, TypeOK
    <3> QED BY <1>1, <2>2, <3>2 DEF Visible
  <2> QED BY <2>1, <2>2
<1>4. Len(decisions) = n
    BY DEF IInv, TypeOK
<1>5. [i \in DOMAIN reviews' |-> reviews'[i].answer] = decisions
    BY <1>1
<1> QED BY <1>2, <1>3, <1>4, <1>5 DEF Citizen!Show

\* Every behaviour of reviews and publications, seen through the citizen's page,
\* is one CitizenView allows: the page only moves to the latest decision.
THEOREM Refinement == Spec => ShowsLatestDecision
<1>1. IInv /\ [Next]_vars => [Citizen!Next]_(Citizen!vars)
  <2> SUFFICES ASSUME IInv, [Next]_vars PROVE [Citizen!Next]_(Citizen!vars)
    OBVIOUS
  <2>1. CASE UNCHANGED <<reviews, replies>>
    BY <2>1, VisibleUnchanged DEF Citizen!vars
  <2>2. CASE Triage
    BY <2>1, <2>2 DEF Triage
  <2>3. CASE Approve
    BY <2>3, ApproveDecides DEF Citizen!Next
  <2>4. ASSUME NEW p \in Pages, OpenPage(p) PROVE UNCHANGED <<reviews, replies>>
    BY <2>4 DEF OpenPage
  <2>5. ASSUME NEW p \in Pages, PublishReply(p) PROVE Citizen!Next
    BY <2>5, PublishShows DEF Citizen!Next
  <2>6. CASE UNCHANGED vars
    BY <2>1, <2>6 DEF vars
  <2> QED BY <2>1, <2>2, <2>3, <2>4, <2>5, <2>6 DEF Next
<1> QED BY InitCitizen, Invariant, <1>1, PTL DEF Spec, ShowsLatestDecision, Citizen!Spec
=============================================================================
