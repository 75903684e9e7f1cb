------------------------ MODULE CitizenIntakeProofs -------------------------
(***************************************************************************)
(* Proofs about CitizenIntake, for any sessions, forms, requests and       *)
(* complaints.  The invariants are not inductive by themselves: they rest  *)
(* on what a request in progress has established (InProgress), on SQLite's *)
(* single writer (OneWriter), and on codes and grants naming filed         *)
(* complaints only (AccessIsFiled).                                        *)
(***************************************************************************)
EXTENDS CitizenIntake, TLAPS

ForForm(r) == requests[r].session \in Sessions /\ requests[r].form \in Forms

\* What a request knows at each place it can be.
InProgress ==
    \A r \in Requests :
        /\ requests[r].at \in {"posted", "checked", "filing", "rolled_back"} => ForForm(r)
        /\ At(r, "filing") => requests[r].complaint \in Complaints \ complaints
        /\ At(r, "rolled_back") => Existing(requests[r].session, requests[r].form) # {}
        /\ At(r, "granting") \/ At(r, "regranting") =>
               /\ requests[r].session \in Sessions
               /\ requests[r].complaint \in codes
               /\ ~Owns(requests[r].session, requests[r].complaint)

OneWriter == \A q, r \in Requests : At(q, "filing") /\ At(r, "filing") => q = r

AccessIsFiled ==
    /\ codes \subseteq DOMAIN filed
    /\ \A g \in grants : g[2] \in DOMAIN filed

Safety ==
    /\ TypeOK
    /\ OneFilingPerForm
    /\ NothingHalfFiled
    /\ ReceiptsAgree
    /\ AnswersOpen
    /\ OnlyWithCode

Inv == Safety /\ InProgress /\ OneWriter /\ AccessIsFiled

\* The invariant holds of the empty database.
LEMMA InitEstablishesInv == Init => Inv
BY DEF Init, Inv, Safety, TypeOK, OneFilingPerForm, NothingHalfFiled, ReceiptsAgree,
       AnswersOpen, OnlyWithCode, InProgress, OneWriter, AccessIsFiled, At, Idle, Places

\* What a step of one request does to the table of requests.
LEMMA RequestsTyped ==
    ASSUME TypeOK
    PROVE  /\ DOMAIN requests = Requests
           /\ \A r \in Requests : /\ DOMAIN requests[r] = {"at", "session", "form", "complaint"}
                                  /\ requests[r].at \in Places
                                  /\ requests[r].session \in Sessions \cup {NoSession}
                                  /\ requests[r].form \in Forms \cup {NoForm}
                                  /\ requests[r].complaint \in Complaints \cup {NoComplaint}
BY DEF TypeOK

\* Moving a request is replacing its record.
LEMMA FieldUpdate ==
    ASSUME TypeOK, NEW r \in Requests, NEW place
    PROVE  [requests EXCEPT ![r].at = place] =
               [requests EXCEPT ![r] = [at |-> place, session |-> requests[r].session,
                                        form |-> requests[r].form,
                                        complaint |-> requests[r].complaint]]
<1>1. requests[r] \in [at : Places, session : Sessions \cup {NoSession},
                       form : Forms \cup {NoForm}, complaint : Complaints \cup {NoComplaint}]
  BY DEF TypeOK
<1>2. [requests[r] EXCEPT !.at = place] =
          [at |-> place, session |-> requests[r].session, form |-> requests[r].form,
           complaint |-> requests[r].complaint]
  BY <1>1
<1> QED BY <1>2, RequestsTyped

\* A step that leaves the tables of complaints, grants, codes and answers
\* alone keeps the safety properties that are about them alone.
LEMMA TablesUnchanged ==
    ASSUME Safety, AccessIsFiled,
           UNCHANGED <<complaints, filed, grants, codes, receipts, opened>>
    PROVE  /\ OneFilingPerForm' /\ NothingHalfFiled' /\ ReceiptsAgree'
           /\ AnswersOpen' /\ OnlyWithCode' /\ AccessIsFiled'
BY DEF Safety, OneFilingPerForm, NothingHalfFiled, ReceiptsAgree, AnswersOpen, OnlyWithCode,
       AccessIsFiled, Existing, Filing, MayOpen, Owns

\* Ending a request keeps what the others have established.
LEMMA FinishKeeps ==
    ASSUME TypeOK, InProgress, OneWriter, NEW r \in Requests, Finish(r),
           UNCHANGED <<complaints, filed, codes>>
    PROVE  InProgress' /\ OneWriter' /\ requests' \in [Requests -> [at : Places,
               session : Sessions \cup {NoSession}, form : Forms \cup {NoForm},
               complaint : Complaints \cup {NoComplaint}]]
<1>1. \A q \in Requests : requests'[q] = IF q = r THEN Idle ELSE requests[q]
  BY RequestsTyped DEF Finish
<1>2. Idle.at = "idle"
  BY DEF Idle
<1>3. InProgress'
  BY <1>1, <1>2 DEF InProgress, ForForm, At, Existing, Filing, Owns
<1>4. OneWriter'
  BY <1>1, <1>2 DEF OneWriter, At
<1> QED BY <1>3, <1>4 DEF TypeOK, Finish, Idle, Places

\* Answering a request with the complaint of its form keeps the invariant.
LEMMA AnswerKeeps ==
    ASSUME Inv, NEW r \in Requests, ForForm(r),
           NEW c \in Existing(requests[r].session, requests[r].form), Receipt(r, c),
           UNCHANGED <<sessions, complaints, filed, grants, codes, opened>>
    PROVE  Inv'
<1> DEFINE x == [session |-> requests[r].session, form |-> requests[r].form, complaint |-> c]
<1>1. /\ Finish(r) /\ receipts' \subseteq receipts \cup {x}
      /\ c \in DOMAIN filed /\ filed[c] = Filing(requests[r].session, requests[r].form)
      /\ c \in Complaints
  BY DEF Receipt, Existing, Inv, Safety, TypeOK
<1>2. InProgress' /\ OneWriter' /\ TypeOK'
  BY <1>1, FinishKeeps DEF Inv, Safety, TypeOK, ForForm
<1>3. Existing(requests[r].session, requests[r].form) = {c}
  BY DEF Inv, Safety, OneFilingPerForm, Existing
<1>4. Owns(requests[r].session, c)
  BY <1>1 DEF Owns, Filing
<1>5. ReceiptsAgree'
  BY <1>1, <1>3 DEF Inv, Safety, ReceiptsAgree, Existing, Filing
<1>6. AnswersOpen'
  BY <1>1, <1>4 DEF Inv, Safety, AnswersOpen, MayOpen, Owns
<1>7. OneFilingPerForm' /\ NothingHalfFiled' /\ OnlyWithCode' /\ AccessIsFiled'
  BY DEF Inv, Safety, OneFilingPerForm, NothingHalfFiled, OnlyWithCode, AccessIsFiled, Owns
<1> QED BY <1>2, <1>5, <1>6, <1>7 DEF Inv, Safety

\* A request that moves on, without touching the tables.
LEMMA MoveKeeps ==
    ASSUME Inv, NEW r \in Requests,
           NEW place \in Places, NEW s \in Sessions, NEW f \in Forms \cup {NoForm},
           NEW c \in Complaints \cup {NoComplaint},
           requests' = [requests EXCEPT ![r] =
               [at |-> place, session |-> s, form |-> f, complaint |-> c]],
           place \notin {"granting", "regranting"} => f \in Forms,
           place = "filing" => LockFree /\ c \in Complaints \ complaints,
           place = "rolled_back" => Existing(s, f) # {},
           place \in {"granting", "regranting"} => c \in codes /\ ~Owns(s, c),
           UNCHANGED <<sessions, complaints, filed, grants, codes, receipts>>,
           UNCHANGED opened
    PROVE  Inv'
<1> DEFINE rec == [at |-> place, session |-> s, form |-> f, complaint |-> c]
<1>1. \A q \in Requests : requests'[q] = IF q = r THEN rec ELSE requests[q]
  BY RequestsTyped DEF Inv, Safety
<1>2. TypeOK'
  BY DEF Inv, Safety, TypeOK
<1>3. InProgress'
  <2> SUFFICES ASSUME NEW q \in Requests
               PROVE  /\ requests'[q].at \in {"posted", "checked", "filing", "rolled_back"}
                            => ForForm(q)'
                      /\ At(q, "filing")' => requests'[q].complaint \in Complaints \ complaints
                      /\ At(q, "rolled_back")'
                            => Existing(requests'[q].session, requests'[q].form) # {}
                      /\ (At(q, "granting") \/ At(q, "regranting"))' =>
                            /\ requests'[q].session \in Sessions
                            /\ requests'[q].complaint \in codes
                            /\ ~Owns(requests'[q].session, requests'[q].complaint)
    BY DEF InProgress, Existing, Filing, Owns
  <2>1. CASE q = r
    BY <1>1, <2>1 DEF ForForm, At
  <2>2. CASE q # r
    BY <1>1, <2>2 DEF Inv, InProgress, ForForm, At
  <2> QED BY <2>1, <2>2
<1>4. OneWriter'
  BY <1>1 DEF Inv, OneWriter, At, LockFree
<1> QED BY <1>2, <1>3, <1>4, TablesUnchanged DEF Inv, Safety

\* The commit of a filing.
LEMMA CommitKeeps ==
    ASSUME Inv, NEW r \in Requests, Commit(r)
    PROVE  Inv'
<1>0. PICK s, f, c : /\ s = requests[r].session /\ f = requests[r].form
                     /\ c = requests[r].complaint
  OBVIOUS
<1> DEFINE x == [session |-> s, form |-> f, complaint |-> c]
<1>1. s \in Sessions /\ f \in Forms /\ c \in Complaints \ complaints
  BY <1>0 DEF Inv, InProgress, ForForm, Commit, At
<1>2. /\ DOMAIN filed' = DOMAIN filed \cup {c} /\ filed'[c] = Filing(s, f)
      /\ \A d \in DOMAIN filed : d # c /\ filed'[d] = filed[d]
      /\ complaints' = complaints \cup {c} /\ DOMAIN filed = complaints
      /\ \A d \in DOMAIN filed : filed[d] # Filing(s, f)
      /\ Finish(r) /\ receipts' \subseteq receipts \cup {x}
      /\ UNCHANGED <<sessions, grants, codes, opened>>
  <2>1. DOMAIN filed = complaints
    BY DEF Inv, Safety, NothingHalfFiled
  <2>2. filed' = [d \in DOMAIN filed \cup {c} |-> IF d = c THEN Filing(s, f) ELSE filed[d]]
    BY <1>0 DEF Commit
  <2>3. \A d \in DOMAIN filed : filed[d] # Filing(s, f)
    BY <1>0 DEF Commit, UniqueRequest, Existing
  <2> QED BY <1>0, <1>1, <2>1, <2>2, <2>3 DEF Commit, Receipt
<1>3. \A q \in Requests : requests'[q] = IF q = r THEN Idle ELSE requests[q]
  BY <1>2, RequestsTyped DEF Finish, Inv, Safety
<1>4. \A t \in Sessions, g \in Forms :
          Existing(t, g)' = Existing(t, g) \cup (IF Filing(t, g) = Filing(s, f) THEN {c} ELSE {})
  BY <1>2 DEF Existing
<1>5. \A t : \A d \in DOMAIN filed : Owns(t, d)' <=> Owns(t, d)
  BY <1>2 DEF Owns
<1>6. TypeOK'
  <2>1. filed' \in [DOMAIN filed' -> [owner : Sessions, form : Forms]]
    BY <1>0, <1>1 DEF Commit, Inv, Safety, TypeOK, Filing
  <2>2. requests' \in [Requests -> [at : Places, session : Sessions \cup {NoSession},
                         form : Forms \cup {NoForm}, complaint : Complaints \cup {NoComplaint}]]
    BY <1>2 DEF Finish, Idle, Places, Inv, Safety, TypeOK
  <2> QED BY <1>1, <1>2, <2>1, <2>2 DEF Inv, Safety, TypeOK
<1>7. OneFilingPerForm' /\ NothingHalfFiled'
  BY <1>2 DEF Inv, Safety, OneFilingPerForm, NothingHalfFiled
<1>8. ReceiptsAgree'
  <2> SUFFICES ASSUME NEW y \in receipts'
               PROVE  Existing(y.session, y.form)' = {y.complaint}
    BY DEF ReceiptsAgree, Existing
  <2>1. CASE y = x
    <3>1. Existing(s, f) = {}
      BY <1>2 DEF Existing
    <3> QED BY <1>1, <1>4, <2>1, <3>1
  <2>2. CASE y \in receipts
    <3>1. y.session \in Sessions /\ y.form \in Forms
      BY <2>2 DEF Inv, Safety, TypeOK
    <3>2. Existing(y.session, y.form) = {y.complaint}
      BY <2>2 DEF Inv, Safety, ReceiptsAgree
    <3>3. Filing(y.session, y.form) # Filing(s, f)
      BY <1>2, <3>2 DEF Existing
    <3> QED BY <1>4, <3>1, <3>2, <3>3
  <2> QED BY <1>2, <2>1, <2>2
<1>9. AnswersOpen'
  <2>1. \A t, d : MayOpen(t, d) => MayOpen(t, d)'
    BY <1>2 DEF MayOpen, Owns
  <2>2. MayOpen(s, c)'
    BY <1>2 DEF MayOpen, Owns, Filing
  <2> QED BY <1>2, <2>1, <2>2 DEF Inv, Safety, AnswersOpen
<1>10. OnlyWithCode' /\ AccessIsFiled'
  BY <1>2, <1>5 DEF Inv, Safety, OnlyWithCode, AccessIsFiled
<1>11. OneWriter'
  BY <1>3 DEF Inv, OneWriter, At, Idle
<1>12. InProgress'
  <2> SUFFICES ASSUME NEW q \in Requests
               PROVE  /\ requests'[q].at \in {"posted", "checked", "filing", "rolled_back"}
                            => ForForm(q)'
                      /\ At(q, "filing")' => requests'[q].complaint \in Complaints \ complaints'
                      /\ At(q, "rolled_back")'
                            => Existing(requests[q].session, requests[q].form)' # {}
                      /\ (At(q, "granting") \/ At(q, "regranting"))' =>
                            /\ requests'[q].session \in Sessions
                            /\ requests'[q].complaint \in codes'
                            /\ ~Owns(requests[q].session, requests[q].complaint)'
    BY DEF InProgress
  <2>1. CASE q = r
    BY <1>3, <2>1 DEF Idle, At, Places
  <2>2. CASE q # r
    <3>1. requests'[q] = requests[q] /\ ~At(q, "filing")
      BY <1>3, <2>2 DEF Inv, OneWriter, Commit
    <3>2. PICK t, g, d : /\ t = requests[q].session /\ g = requests[q].form
                         /\ d = requests[q].complaint
      OBVIOUS
    <3>3. At(q, "rolled_back") => t \in Sessions /\ g \in Forms /\ Existing(t, g) # {}
      BY <3>2 DEF Inv, InProgress, ForForm, At
    <3>4. At(q, "rolled_back") => Existing(t, g)' # {}
      BY <1>4, <3>3
    <3>5. At(q, "granting") \/ At(q, "regranting") => d \in DOMAIN filed /\ ~Owns(t, d)
      BY <3>2 DEF Inv, InProgress, AccessIsFiled
    <3>6. At(q, "granting") \/ At(q, "regranting") => ~Owns(t, d)'
      BY <1>5, <3>5
    <3>7. /\ At(q, "rolled_back")' => Existing(requests[q].session, requests[q].form)' # {}
          /\ (At(q, "granting") \/ At(q, "regranting"))' =>
                ~Owns(requests[q].session, requests[q].complaint)'
      BY <3>1, <3>2, <3>4, <3>6 DEF At, Existing, Owns
    <3> QED BY <1>2, <3>1, <3>7 DEF Inv, InProgress, ForForm, At
  <2> QED BY <2>1, <2>2
<1> QED BY <1>6, <1>7, <1>8, <1>9, <1>10, <1>11, <1>12 DEF Inv, Safety

\* A lookup answered with a grant, its own or a rival's.
LEMMA GrantKeeps ==
    ASSUME Inv, NEW r \in Requests, Grant(r) \/ AnswerGranted(r)
    PROVE  Inv'
<1> DEFINE pair == <<requests[r].session, requests[r].complaint>>
<1>1. /\ requests[r].session \in Sessions /\ requests[r].complaint \in codes
      /\ ~Owns(requests[r].session, requests[r].complaint)
  BY DEF Inv, InProgress, Grant, AnswerGranted
<1>2. /\ grants' = grants \cup {pair} /\ opened' = opened \cup {pair} /\ Finish(r)
      /\ UNCHANGED <<sessions, complaints, filed, codes, receipts>>
  BY DEF Grant, AnswerGranted, Pair
<1>3. InProgress' /\ OneWriter' /\ TypeOK'
  BY <1>1, <1>2, FinishKeeps DEF Inv, Safety, TypeOK
<1>4. OneFilingPerForm' /\ NothingHalfFiled' /\ ReceiptsAgree'
  BY <1>2 DEF Inv, Safety, OneFilingPerForm, NothingHalfFiled, ReceiptsAgree, Existing
<1>5. AnswersOpen'
  BY <1>2 DEF Inv, Safety, AnswersOpen, MayOpen, Owns
<1>6. OnlyWithCode' /\ AccessIsFiled'
  BY <1>1, <1>2 DEF Inv, Safety, OnlyWithCode, AccessIsFiled, Owns
<1> QED BY <1>3, <1>4, <1>5, <1>6 DEF Inv, Safety

\* Every step keeps the invariant.
LEMMA NextKeepsInv == Inv /\ [Next]_vars => Inv'
<1> SUFFICES ASSUME Inv, [Next]_vars PROVE Inv'
  OBVIOUS
<1>1. ASSUME NEW r \in Requests, Post(r) PROVE Inv'
  <2>1. PICK s \in Live, f \in Forms : requests' = [requests EXCEPT ![r] =
            [at |-> "posted", session |-> s, form |-> f, complaint |-> NoComplaint]]
    BY <1>1 DEF Post
  <2>2. s \in Sessions /\ "posted" \in Places
    BY DEF Live, Places
  <2> QED BY <1>1, <2>1, <2>2, MoveKeeps DEF Post
<1>2. ASSUME NEW r \in Requests, AnswerPrevious(r) PROVE Inv'
  BY <1>2, AnswerKeeps DEF AnswerPrevious, Inv, InProgress, At
<1>3. ASSUME NEW r \in Requests, FindNothing(r) PROVE Inv'
  <2>1. requests' = [requests EXCEPT ![r] =
            [at |-> "checked", session |-> requests[r].session, form |-> requests[r].form,
             complaint |-> requests[r].complaint]]
    BY <1>3, FieldUpdate DEF FindNothing, Move, Inv, Safety
  <2>2. ForForm(r)
    BY <1>3 DEF FindNothing, Inv, InProgress, At
  <2> QED BY <1>3, <2>1, <2>2, MoveKeeps, RequestsTyped
          DEF FindNothing, ForForm, Places, Inv, Safety
<1>4. ASSUME NEW r \in Requests, Create(r) PROVE Inv'
  <2>1. PICK c \in Complaints \ complaints :
            requests' = [requests EXCEPT ![r] = [@ EXCEPT !.at = "filing", !.complaint = c]]
    BY <1>4 DEF Create
  <2>2. requests' = [requests EXCEPT ![r] =
            [at |-> "filing", session |-> requests[r].session, form |-> requests[r].form,
             complaint |-> c]]
    <3>1. PICK q : q = [requests[r] EXCEPT !.at = "filing"]
      OBVIOUS
    <3>2. requests[r] \in [at : Places, session : Sessions \cup {NoSession},
                           form : Forms \cup {NoForm}, complaint : Complaints \cup {NoComplaint}]
      BY DEF Inv, Safety, TypeOK
    <3>3. q = [at |-> "filing", session |-> requests[r].session, form |-> requests[r].form,
               complaint |-> requests[r].complaint]
      BY <3>1, <3>2
    <3>4. [q EXCEPT !.complaint = c] =
              [at |-> "filing", session |-> requests[r].session, form |-> requests[r].form,
               complaint |-> c]
      BY <3>3
    <3>5. [requests[r] EXCEPT !.at = "filing", !.complaint = c] = [q EXCEPT !.complaint = c]
      BY <3>1
    <3> QED BY <2>1, <3>4, <3>5
  <2>3. ForForm(r)
    BY <1>4 DEF Create, Inv, InProgress, At
  <2> QED BY <1>4, <2>2, <2>3, MoveKeeps DEF Create, ForForm, Places
<1>5. ASSUME NEW r \in Requests, Commit(r) PROVE Inv'
  BY <1>5, CommitKeeps
<1>6. ASSUME NEW r \in Requests, Conflict(r) PROVE Inv'
  <2>1. requests' = [requests EXCEPT ![r] =
            [at |-> "rolled_back", session |-> requests[r].session, form |-> requests[r].form,
             complaint |-> requests[r].complaint]]
    BY <1>6, FieldUpdate DEF Conflict, Move, Inv, Safety
  <2>2. ForForm(r) /\ Existing(requests[r].session, requests[r].form) # {}
    BY <1>6 DEF Conflict, UniqueRequest, Inv, InProgress, At
  <2> QED BY <1>6, <2>1, <2>2, MoveKeeps, RequestsTyped
          DEF Conflict, ForForm, Places, Inv, Safety
<1>7. ASSUME NEW r \in Requests, AnswerConflict(r) PROVE Inv'
  BY <1>7, AnswerKeeps DEF AnswerConflict, Inv, InProgress, At
<1>8. ASSUME NEW r \in Requests, Fail(r) PROVE Inv'
  <2>1. InProgress' /\ OneWriter' /\ TypeOK'
    BY <1>8, FinishKeeps DEF Fail, Inv, Safety, TypeOK
  <2> QED BY <1>8, <2>1, TablesUnchanged DEF Fail, Inv, Safety
<1>9. ASSUME NEW r \in Requests, Lookup(r) PROVE Inv'
  <2>1. PICK s \in Live, c \in DOMAIN filed, code \in codes :
            /\ Matches(code, c)
            /\ IF MayOpen(s, c)
               THEN opened' = opened \cup {<<s, c>>} /\ UNCHANGED requests
               ELSE /\ requests' = [requests EXCEPT ![r] =
                          [at |-> "granting", session |-> s, form |-> NoForm, complaint |-> c]]
                    /\ UNCHANGED opened
    BY <1>9 DEF Lookup
  <2>2. /\ s \in Sessions /\ c \in codes /\ c \in Complaints
        /\ UNCHANGED <<sessions, complaints, filed, grants, codes, receipts>>
    BY <1>9, <2>1 DEF Live, Matches, Lookup, Inv, Safety, TypeOK
  <2>3. CASE MayOpen(s, c)
    <3>1. opened' = opened \cup {<<s, c>>} /\ UNCHANGED requests
      BY <2>1, <2>3
    <3>2. TypeOK'
      BY <2>2, <3>1 DEF Inv, Safety, TypeOK
    <3>3. InProgress' /\ OneWriter' /\ AccessIsFiled'
      BY <2>2, <3>1 DEF Inv, InProgress, OneWriter, AccessIsFiled, ForForm, At, Existing, Owns
    <3>4. AnswersOpen'
      BY <2>2, <2>3, <3>1 DEF Inv, Safety, AnswersOpen, MayOpen, Owns
    <3>5. OneFilingPerForm' /\ NothingHalfFiled' /\ ReceiptsAgree' /\ OnlyWithCode'
      BY <2>2 DEF Inv, Safety, OneFilingPerForm, NothingHalfFiled, ReceiptsAgree,
                  OnlyWithCode, Existing, Owns
    <3> QED BY <3>2, <3>3, <3>4, <3>5 DEF Inv, Safety
  <2>4. CASE ~MayOpen(s, c)
    <3>1. ~Owns(s, c) /\ "granting" \in Places
      BY <2>4 DEF MayOpen, Places
    <3> QED BY <2>1, <2>2, <2>4, <3>1, MoveKeeps
  <2> QED BY <2>3, <2>4
<1>10. ASSUME NEW r \in Requests, Grant(r) \/ AnswerGranted(r) PROVE Inv'
  BY <1>10, GrantKeeps
<1>11. ASSUME NEW s \in Sessions, CreateSession(s) \/ Expire(s) PROVE Inv'
  <2>1. /\ sessions' \in [Sessions -> {"new", "live", "expired"}]
        /\ UNCHANGED <<complaints, filed, grants, codes, requests, receipts, opened>>
    BY <1>11 DEF CreateSession, Expire, Inv, Safety, TypeOK
  <2>2. TypeOK' /\ InProgress' /\ OneWriter'
    BY <2>1 DEF Inv, Safety, TypeOK, InProgress, OneWriter, ForForm, At, Existing, Owns
  <2> QED BY <2>1, <2>2, TablesUnchanged DEF Inv, Safety
<1>12. ASSUME NEW s \in Sessions, NEW c \in Complaints, ShowReceipt(s, c) PROVE Inv'
  <2>1. /\ codes' = codes \cup {c} /\ c \in DOMAIN filed
        /\ UNCHANGED <<sessions, complaints, filed, grants, requests, receipts, opened>>
    BY <1>12 DEF ShowReceipt, Owns
  <2>2. TypeOK' /\ InProgress' /\ OneWriter' /\ AccessIsFiled'
    BY <2>1 DEF Inv, Safety, TypeOK, InProgress, OneWriter, AccessIsFiled, ForForm, At,
                Existing, Owns
  <2>3. OneFilingPerForm' /\ NothingHalfFiled' /\ ReceiptsAgree' /\ AnswersOpen' /\ OnlyWithCode'
    BY <2>1 DEF Inv, Safety, OneFilingPerForm, NothingHalfFiled, ReceiptsAgree, AnswersOpen,
                OnlyWithCode, Existing, MayOpen, Owns
  <2> QED BY <2>2, <2>3 DEF Inv, Safety
<1>13. ASSUME NEW r \in Requests, GrantConflict(r) PROVE Inv'
  <2>1. requests' = [requests EXCEPT ![r] =
            [at |-> "regranting", session |-> requests[r].session, form |-> requests[r].form,
             complaint |-> requests[r].complaint]]
    BY <1>13, FieldUpdate DEF GrantConflict, Move, Inv, Safety
  <2>2. /\ requests[r].session \in Sessions /\ requests[r].complaint \in codes
        /\ ~Owns(requests[r].session, requests[r].complaint)
    BY <1>13 DEF GrantConflict, Inv, InProgress
  <2> QED BY <1>13, <2>1, <2>2, MoveKeeps, RequestsTyped DEF GrantConflict, Places, Inv, Safety
<1>14. CASE UNCHANGED vars
  <2>1. TypeOK' /\ InProgress' /\ OneWriter'
    BY <1>14 DEF vars, Inv, Safety, TypeOK, InProgress, OneWriter, ForForm, At, Existing, Owns
  <2> QED BY <1>14, <2>1, TablesUnchanged DEF vars, Inv, Safety
<1> QED BY <1>1, <1>2, <1>3, <1>4, <1>5, <1>6, <1>7, <1>8, <1>9, <1>10, <1>11, <1>12, <1>13,
           <1>14 DEF Next, Step

\* The inductive invariant holds of every reachable state.
THEOREM Invariant == Spec => []Inv
BY InitEstablishesInv, NextKeepsInv, PTL DEF Spec

\* Sessions, rows and requests keep their types.
THEOREM TypeCorrect == Spec => []TypeOK
BY Invariant, PTL DEF Inv, Safety

\* However many requests send a form, at once or again, one complaint is filed.
THEOREM FiledOnce == Spec => []OneFilingPerForm
BY Invariant, PTL DEF Inv, Safety

\* A complaint is committed with its owner or not at all.
THEOREM FiledWhole == Spec => []NothingHalfFiled
BY Invariant, PTL DEF Inv, Safety

\* All answers to a form name the one complaint it filed.
THEOREM ReceiptsAreStable == Spec => []ReceiptsAgree
BY Invariant, PTL DEF Inv, Safety

\* Whoever was answered can open the complaint.
THEOREM AnswersHold == Spec => []AnswersOpen
BY Invariant, PTL DEF Inv, Safety

\* Nobody but the owner gets in without the complaint's own code.
THEOREM AccessNeedsCode == Spec => []OnlyWithCode
BY Invariant, PTL DEF Inv, Safety

-----------------------------------------------------------------------------
(* The tables keep the promise of CitizenDesk.                             *)

Access == {g \in Sessions \X Complaints : MayOpen(g[1], g[2])}

\* An answer with the complaint of a form, repeated or beaten, is a repetition.
LEMMA AnswerRepeats ==
    ASSUME Inv, NEW r \in Requests, ForForm(r),
           NEW c \in Existing(requests[r].session, requests[r].form), Receipt(r, c),
           UNCHANGED <<complaints, filed, grants, codes, opened>>
    PROVE  [Desk!Next]_(Desk!vars)
<1>1. /\ c \in DOMAIN filed /\ c \in Complaints
      /\ filed[c] = [owner |-> requests[r].session, form |-> requests[r].form]
    BY DEF Existing, Filing, Inv, Safety, TypeOK
<1>2. Access' = Access
    BY DEF Access, MayOpen, Owns
<1>3. CASE UNCHANGED receipts
    BY <1>2, <1>3 DEF Desk!vars, Access
<1>4. CASE receipts' = receipts \cup {[session |-> requests[r].session,
                                       form |-> requests[r].form, complaint |-> c]}
  <2>1. receipts' = receipts \cup {Desk!Answer(filed[c].owner, filed[c].form, c)}
      BY <1>1, <1>4 DEF Desk!Answer
  <2>2. Desk!Repeat(c)
      BY <1>1, <1>2, <2>1 DEF Desk!Repeat, Access
  <2> QED BY <1>1, <2>2 DEF Desk!Next
<1> QED BY <1>3, <1>4 DEF Receipt

\* The commit of a filing files the form.
LEMMA CommitFiles ==
    ASSUME Inv, NEW r \in Requests, Commit(r)
    PROVE  Desk!Next
<1>1. PICK s, f, c : /\ s = requests[r].session /\ f = requests[r].form
                     /\ c = requests[r].complaint
    OBVIOUS
<1>2. s \in Sessions /\ f \in Forms /\ c \in Complaints \ complaints
    BY <1>1 DEF Inv, InProgress, ForForm, Commit, At
<1>3. /\ complaints' = complaints \cup {c}
      /\ filed' = [d \in DOMAIN filed \cup {c} |->
                      IF d = c THEN [owner |-> s, form |-> f] ELSE filed[d]]
      /\ Existing(s, f) = {} /\ Receipt(r, c) /\ UNCHANGED <<grants, codes, opened>>
    BY <1>1 DEF Commit, UniqueRequest, Filing
<1>4. \A d \in DOMAIN filed : filed[d] # [owner |-> s, form |-> f]
    BY <1>3 DEF Existing, Filing
<1>5. DOMAIN filed = complaints /\ c \notin DOMAIN filed
    BY <1>2 DEF Inv, Safety, NothingHalfFiled
<1>6. Access' = Access \cup {<<s, c>>}
  <2>1. \A t \in Sessions, d \in Complaints :
           Owns(t, d)' <=> Owns(t, d) \/ (t = s /\ d = c)
      BY <1>3, <1>5 DEF Owns
  <2>2. \A t \in Sessions, d \in Complaints :
           MayOpen(t, d)' <=> MayOpen(t, d) \/ (t = s /\ d = c)
      BY <1>3, <2>1 DEF MayOpen
  <2> QED BY <1>2, <2>2 DEF Access
<1>7. receipts' = receipts \/ receipts' = receipts \cup {Desk!Answer(s, f, c)}
    BY <1>1, <1>3 DEF Receipt, Desk!Answer
<1>8. Desk!File(s, f, c)
    BY <1>2, <1>3, <1>4, <1>6, <1>7 DEF Desk!File, Access
<1> QED BY <1>2, <1>8 DEF Desk!Next

\* A lookup and a grant let a browser in by the complaint's code.
LEMMA LookupOpens ==
    ASSUME Inv, NEW r \in Requests, Lookup(r) \/ Grant(r) \/ AnswerGranted(r)
    PROVE  [Desk!Next]_(Desk!vars)
<1>1. ASSUME NEW s \in Sessions, NEW c \in codes, opened' = opened \cup {<<s, c>>},
             UNCHANGED <<complaints, filed, codes, receipts>>,
             grants' = grants \cup {<<s, c>>} \/ (UNCHANGED grants /\ MayOpen(s, c))
      PROVE  Desk!Next
  <2>1. c \in Complaints
      BY DEF Inv, Safety, TypeOK
  <2>2. \A t \in Sessions, d \in Complaints :
           MayOpen(t, d)' <=> MayOpen(t, d) \/ (t = s /\ d = c)
      BY <1>1 DEF MayOpen, Owns
  <2>3. Access' = Access \cup {<<s, c>>}
      BY <2>1, <2>2 DEF Access
  <2>4. Desk!Open(s, c)
      BY <1>1, <2>3 DEF Desk!Open, Access
  <2> QED BY <2>1, <2>4 DEF Desk!Next
<1>2. CASE Lookup(r)
  <2>1. PICK s \in Live, c \in DOMAIN filed, code \in codes :
            /\ Matches(code, c)
            /\ IF MayOpen(s, c)
               THEN opened' = opened \cup {<<s, c>>}
               ELSE UNCHANGED opened
      BY <1>2 DEF Lookup
  <2>2. /\ s \in Sessions /\ c \in codes
        /\ UNCHANGED <<complaints, filed, grants, codes, receipts>>
      BY <1>2, <2>1 DEF Live, Matches, Lookup
  <2>3. CASE MayOpen(s, c)
      BY <1>1, <2>1, <2>2, <2>3
  <2>4. CASE ~MayOpen(s, c)
    <3>1. Access' = Access
        BY <2>2 DEF Access, MayOpen, Owns
    <3> QED BY <2>1, <2>2, <2>4, <3>1 DEF Desk!vars, Access
  <2> QED BY <2>3, <2>4
<1>3. CASE Grant(r) \/ AnswerGranted(r)
  <2>1. requests[r].session \in Sessions /\ requests[r].complaint \in codes
      BY <1>3 DEF Grant, AnswerGranted, Inv, InProgress
  <2>2. CASE Grant(r)
      BY <1>1, <2>1, <2>2 DEF Grant, Pair
  <2>3. CASE AnswerGranted(r)
      BY <1>1, <2>1, <2>3 DEF AnswerGranted, Pair, MayOpen
  <2> QED BY <1>3, <2>2, <2>3
<1> QED BY <1>2, <1>3

\* Steps that leave the tables alone are none of the desk's.
LEMMA DeskUnchanged ==
    ASSUME UNCHANGED <<complaints, filed, grants, codes, receipts, opened>>
    PROVE  UNCHANGED Desk!vars
<1>1. Access' = Access
    BY DEF Access, MayOpen, Owns
<1> QED BY <1>1 DEF Desk!vars, Access

\* The code implements the promise made to citizens (submit, get_accessible,
\* grant_lookup).
THEOREM Refinement == Spec => ImplementsDesk
<1>1. Init => Desk!Init
    BY DEF Init, Desk!Init, MayOpen, Owns
<1>2. Inv /\ [Next]_vars => [Desk!Next]_(Desk!vars)
  <2> SUFFICES ASSUME Inv, [Next]_vars PROVE [Desk!Next]_(Desk!vars)
      OBVIOUS
  <2>1. ASSUME NEW r \in Requests, AnswerPrevious(r) \/ AnswerConflict(r)
        PROVE  [Desk!Next]_(Desk!vars)
    <3>1. PICK c \in Existing(requests[r].session, requests[r].form) : Receipt(r, c)
        BY <2>1 DEF AnswerPrevious, AnswerConflict
    <3>2. ForForm(r) /\ UNCHANGED <<complaints, filed, grants, codes, opened>>
        BY <2>1 DEF AnswerPrevious, AnswerConflict, Inv, InProgress, At
    <3> QED BY <3>1, <3>2, AnswerRepeats
  <2>2. ASSUME NEW r \in Requests,
               \/ Post(r) \/ FindNothing(r) \/ Create(r) \/ Conflict(r)
               \/ GrantConflict(r) \/ Fail(r)
        PROVE  UNCHANGED Desk!vars
      BY <2>2, DeskUnchanged DEF Post, FindNothing, Create, Conflict, GrantConflict, Fail
  <2>3. ASSUME NEW s \in Sessions, CreateSession(s) \/ Expire(s)
        PROVE  UNCHANGED Desk!vars
      BY <2>3, DeskUnchanged DEF CreateSession, Expire
  <2>4. ASSUME NEW s \in Sessions, NEW c \in Complaints, ShowReceipt(s, c)
        PROVE  Desk!Next
    <3>1. /\ c \in DOMAIN filed /\ codes' = codes \cup {c}
          /\ UNCHANGED <<complaints, filed, grants, receipts, opened>>
        BY <2>4 DEF ShowReceipt, Owns
    <3>2. Access' = Access
        BY <3>1 DEF Access, MayOpen, Owns
    <3> QED BY <3>1, <3>2 DEF Desk!Next, Desk!Show, Access
  <2>5. CASE UNCHANGED vars
      BY <2>5, DeskUnchanged DEF vars
  <2> QED BY <2>1, <2>2, <2>3, <2>4, <2>5, CommitFiles, LookupOpens DEF Next, Step
<1> QED BY <1>1, <1>2, Invariant, PTL DEF Spec, ImplementsDesk, Desk!Spec
=============================================================================
