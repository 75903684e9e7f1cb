--------------------------- MODULE CitizenIntake ----------------------------
(***************************************************************************)
(* The citizen portal: filing a complaint once per form, and opening it    *)
(* again from the same browser or with the lookup code                     *)
(* (services/citizen.py, called by api/citizen.py).                        *)
(*                                                                         *)
(* A request checks its session first and works on that answer: the        *)
(* session may expire under it.  Reads outside a transaction are steps of  *)
(* their own; the first write of a request takes SQLite's writer lock,     *)
(* which it holds until it commits or rolls back.  Any request may fail,   *)
(* stop with the process, or lose its answer, and be repeated.             *)
(***************************************************************************)
EXTENDS FiniteSets

CONSTANTS
    Sessions,    \* citizen cookies, a bound on how many are issued
    Forms,       \* request keys put in the form by GET /minwon/new
    Requests,    \* POST requests in progress
    Complaints,  \* complaint ids, a bound on how many are filed
    NoSession, NoForm, NoComplaint

VARIABLES
    sessions,    \* citizen_sessions: session -> "new", "live" or "expired"
    complaints,  \* committed complaints, with their audit events and AI jobs
    filed,       \* citizen_submissions: complaint -> owner and request key
    grants,      \* citizen_grants: pairs of session and complaint
    codes,       \* complaints whose lookup code a receipt page has shown
    requests,    \* request -> where it is and what it works on
    receipts,    \* history: session, form and complaint of answers received
    opened       \* history: session and complaint of lookups answered

vars == <<sessions, complaints, filed, grants, codes, requests, receipts, opened>>

Idle == [at |-> "idle", session |-> NoSession, form |-> NoForm, complaint |-> NoComplaint]

Init ==
    /\ sessions = [s \in Sessions |-> "new"]
    /\ complaints = {}
    /\ filed = [c \in {} |-> NoForm]
    /\ grants = {}
    /\ codes = {}
    /\ requests = [r \in Requests |-> Idle]
    /\ receipts = {}
    /\ opened = {}

At(r, place) == requests[r].at = place

Move(r, place) == requests' = [requests EXCEPT ![r].at = place]

Finish(r) == requests' = [requests EXCEPT ![r] = Idle]

\* Only the request between its first write and its end holds the lock.
LockFree == \A r \in Requests : ~At(r, "filing")

Filing(s, f) == [owner |-> s, form |-> f]

\* previous_submission, on committed rows.
Existing(s, f) == {c \in DOMAIN filed : filed[c] = Filing(s, f)}

\* The answer names a complaint; the browser may never receive it.
Receipt(r, c) ==
    /\ Finish(r)
    /\ \/ receipts' = receipts \cup {[session |-> requests[r].session,
                                      form |-> requests[r].form, complaint |-> c]}
       \/ UNCHANGED receipts

\* read_session.
Live == {s \in Sessions : sessions[s] = "live"}

\* create_session, for a page opened without a live session.
CreateSession(s) ==
    /\ sessions[s] = "new"
    /\ sessions' = [sessions EXCEPT ![s] = "live"]
    /\ UNCHANGED <<complaints, filed, grants, codes, requests, receipts, opened>>

\* expires_at passes; the row stays.
Expire(s) ==
    /\ s \in Live
    /\ sessions' = [sessions EXCEPT ![s] = "expired"]
    /\ UNCHANGED <<complaints, filed, grants, codes, requests, receipts, opened>>

\* Mutant: the session is not checked.
Post_WithoutSession(r) ==
    /\ At(r, "idle")
    /\ \E s \in Live \cup {NoSession}, f \in Forms :
           requests' = [requests EXCEPT ![r] =
               [at |-> "posted", session |-> s, form |-> f, complaint |-> NoComplaint]]
    /\ UNCHANGED <<sessions, complaints, filed, grants, codes, receipts, opened>>

\* POST /minwon/submit: the session and its CSRF token are checked once.
Post(r) ==
    /\ At(r, "idle")
    /\ \E s \in Live, f \in Forms :
           requests' = [requests EXCEPT ![r] =
               [at |-> "posted", session |-> s, form |-> f, complaint |-> NoComplaint]]
    /\ UNCHANGED <<sessions, complaints, filed, grants, codes, receipts, opened>>

\* A repeated form is answered with the complaint it filed.
AnswerPrevious(r) ==
    /\ At(r, "posted")
    /\ \E c \in Existing(requests[r].session, requests[r].form) : Receipt(r, c)
    /\ UNCHANGED <<sessions, complaints, filed, grants, codes, opened>>

FindNothing(r) ==
    /\ At(r, "posted")
    /\ Existing(requests[r].session, requests[r].form) = {}
    /\ Move(r, "checked")
    /\ UNCHANGED <<sessions, complaints, filed, grants, codes, receipts, opened>>

\* Mutant: the complaint is committed before it is anybody's.
Create_Commits(r) ==
    /\ At(r, "checked")
    /\ LockFree
    /\ \E c \in Complaints \ complaints :
           /\ requests' = [requests EXCEPT ![r] = [@ EXCEPT !.at = "filing", !.complaint = c]]
           /\ complaints' = complaints \cup {c}
    /\ UNCHANGED <<sessions, filed, grants, codes, receipts, opened>>

\* create_and_process(commit=False): the complaint, its audit events, triage
\* and AI job are flushed under the lock and not yet visible.
Create(r) ==
    /\ At(r, "checked")
    /\ LockFree
    /\ \E c \in Complaints \ complaints :
           requests' = [requests EXCEPT ![r] = [@ EXCEPT !.at = "filing", !.complaint = c]]
    /\ UNCHANGED <<sessions, complaints, filed, grants, codes, receipts, opened>>

\* Mutant: the table has no such constraint.
UniqueRequest_Never(s, f) == TRUE

\* UniqueConstraint uq_citizen_request.
UniqueRequest(s, f) == Existing(s, f) = {}

\* The submission row and its audit event join the complaint, and all commit.
Commit(r) ==
    LET c == requests[r].complaint
        s == requests[r].session
        f == requests[r].form
    IN  /\ At(r, "filing")
        /\ UniqueRequest(s, f)
        /\ complaints' = complaints \cup {c}
        /\ filed' = [d \in DOMAIN filed \cup {c} |-> IF d = c THEN Filing(s, f) ELSE filed[d]]
        /\ Receipt(r, c)
        /\ UNCHANGED <<sessions, grants, codes, opened>>

\* IntegrityError: another request of this form committed first; rollback.
Conflict(r) ==
    /\ At(r, "filing")
    /\ ~UniqueRequest(requests[r].session, requests[r].form)
    /\ Move(r, "rolled_back")
    /\ UNCHANGED <<sessions, complaints, filed, grants, codes, receipts, opened>>

\* Mutant: the answer names the complaint that was rolled back.
AnswerConflict_WithOwn(r) ==
    /\ At(r, "rolled_back")
    /\ Receipt(r, requests[r].complaint)
    /\ UNCHANGED <<sessions, complaints, filed, grants, codes, opened>>

\* The winner's complaint answers the loser.
AnswerConflict(r) ==
    /\ At(r, "rolled_back")
    /\ \E c \in Existing(requests[r].session, requests[r].form) : Receipt(r, c)
    /\ UNCHANGED <<sessions, complaints, filed, grants, codes, opened>>

\* Any other error, a lock timeout or the end of the process: rollback, and
\* at most a 503 without a complaint in it.
Fail(r) ==
    /\ ~At(r, "idle")
    /\ Finish(r)
    /\ UNCHANGED <<sessions, complaints, filed, grants, codes, receipts, opened>>

Owns(s, c) == c \in DOMAIN filed /\ filed[c].owner = s

\* get_accessible, for a session that read_session accepts.
MayOpen(s, c) == Owns(s, c) \/ <<s, c>> \in grants

\* GET /minwon/{id}/receipt shows the code to the owner, not to a grantee.
ShowReceipt(s, c) ==
    /\ s \in Live
    /\ Owns(s, c)
    /\ codes' = codes \cup {c}
    /\ UNCHANGED <<sessions, complaints, filed, grants, requests, receipts, opened>>

\* Mutant: any code that belongs to some complaint opens every one.
Matches_AnyCode(code, c) == code \in codes

\* compare_digest of the typed code and the hash of the submission.
Matches(code, c) == code = c

\* POST /minwon/lookup: a session types a receipt number and a code it has
\* been told, by whoever saw a receipt page.
Lookup(r) ==
    /\ At(r, "idle")
    /\ \E s \in Live, c \in DOMAIN filed, code \in codes :
           /\ Matches(code, c)
           /\ IF MayOpen(s, c)
              THEN /\ opened' = opened \cup {<<s, c>>}
                   /\ UNCHANGED requests
              ELSE /\ requests' = [requests EXCEPT ![r] =
                         [at |-> "granting", session |-> s, form |-> NoForm, complaint |-> c]]
                   /\ UNCHANGED opened
    /\ UNCHANGED <<sessions, complaints, filed, grants, codes, receipts>>

Pair(r) == <<requests[r].session, requests[r].complaint>>

\* The grant is inserted and commits.
Grant(r) ==
    /\ At(r, "granting")
    /\ LockFree
    /\ Pair(r) \notin grants
    /\ grants' = grants \cup {Pair(r)}
    /\ opened' = opened \cup {Pair(r)}
    /\ Finish(r)
    /\ UNCHANGED <<sessions, complaints, filed, codes, receipts>>

\* IntegrityError: a rival inserted the same grant since the lookup; rollback.
GrantConflict(r) ==
    /\ At(r, "granting")
    /\ LockFree
    /\ Pair(r) \in grants
    /\ Move(r, "regranting")
    /\ UNCHANGED <<sessions, complaints, filed, grants, codes, receipts, opened>>

\* The rival's grant answers this lookup too.
AnswerGranted(r) ==
    /\ At(r, "regranting")
    /\ Pair(r) \in grants
    /\ opened' = opened \cup {Pair(r)}
    /\ Finish(r)
    /\ UNCHANGED <<sessions, complaints, filed, grants, codes, receipts>>

Step(r) ==
    \/ Post(r) \/ AnswerPrevious(r) \/ FindNothing(r) \/ Create(r)
    \/ Commit(r) \/ Conflict(r) \/ AnswerConflict(r) \/ Fail(r)
    \/ Lookup(r) \/ Grant(r) \/ GrantConflict(r) \/ AnswerGranted(r)

Next ==
    \/ \E r \in Requests : Step(r)
    \/ \E s \in Sessions : CreateSession(s) \/ Expire(s)
    \/ \E s \in Sessions, c \in Complaints : ShowReceipt(s, c)

Spec == Init /\ [][Next]_vars

Places == {"idle", "posted", "checked", "filing", "rolled_back", "granting", "regranting"}

\* Every variable has its type; only sessions file, are answered and hold
\* grants.
TypeOK ==
    /\ sessions \in [Sessions -> {"new", "live", "expired"}]
    /\ complaints \subseteq Complaints
    /\ DOMAIN filed \subseteq Complaints
    /\ filed \in [DOMAIN filed -> [owner : Sessions, form : Forms]]
    /\ grants \subseteq Sessions \X Complaints
    /\ codes \subseteq Complaints
    /\ requests \in [Requests -> [at : Places, session : Sessions \cup {NoSession},
                                  form : Forms \cup {NoForm},
                                  complaint : Complaints \cup {NoComplaint}]]
    /\ receipts \subseteq [session : Sessions, form : Forms, complaint : Complaints]
    /\ opened \subseteq Sessions \X Complaints

\* However often a form is sent, at once or after a lost answer, one complaint
\* comes of it.
OneFilingPerForm ==
    \A c, d \in DOMAIN filed : filed[c] = filed[d] => c = d

\* No complaint, with its audit trail and AI job, outlives a failed or beaten
\* request: each one is somebody's filing.
NothingHalfFiled == complaints = DOMAIN filed

\* All answers a browser gets for one form name the same complaint, and that
\* complaint was filed with that form by that browser.
ReceiptsAgree ==
    \A x \in receipts : Existing(x.session, x.form) = {x.complaint}

\* An answered request, filing or lookup, leaves its session able to open the
\* complaint it was sent to, for as long as the session lives.
AnswersOpen ==
    /\ \A x \in receipts : MayOpen(x.session, x.complaint)
    /\ \A x \in opened : MayOpen(x[1], x[2])

\* A browser other than the owner's got in only with the code of that very
\* complaint, which the owner's receipt page had shown.
OnlyWithCode == \A g \in grants : g[2] \in codes /\ ~Owns(g[1], g[2])

-----------------------------------------------------------------------------
(* The promise to citizens: requests, locks, rollbacks and session rows    *)
(* are forgotten.                                                          *)
Desk == INSTANCE CitizenDesk WITH
    received <- complaints,
    register <- filed,
    access <- {g \in Sessions \X Complaints : MayOpen(g[1], g[2])},
    shown <- codes,
    told <- receipts

\* However requests overlap, fail, lose their answers and are repeated: a form
\* becomes one complaint, its browser's from the commit that makes it visible; every
\* answer names that complaint; nobody who was let in is shut out, and nobody
\* comes in but by filing it or by its own code.
ImplementsDesk == Desk!Spec
=============================================================================
