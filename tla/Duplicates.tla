----------------------------- MODULE Duplicates -----------------------------
(***************************************************************************)
(* Possible duplicates and the confirmation of locations                   *)
(* (services/duplicates.py, and the handlers that call it).                *)
(*                                                                         *)
(* Every triage, under SQLite's writer lock, synchronises the complaint's  *)
(* location review and draws up its suggestions anew.  An officer's        *)
(* request reads its row before it holds any lock; its UPDATE, at commit,  *)
(* names the row by primary key and sets only the columns the request      *)
(* changed.  Row ids are SQLite's: the largest in use plus one.            *)
(***************************************************************************)
EXTENDS Integers, FiniteSets

CONSTANTS
    Complaints,     \* complaint ids
    Legacy,         \* complaints filed before the two tables existed
    Officers,       \* users with the role triage_officer or reviewer
    Requests,       \* officers' POST requests, each made once; a bound on decisions
    Outcomes,       \* complaint -> the triages it may get, by release and provider
    Created,        \* complaint -> day of created_at
    Similarity,     \* pair -> text_similarity of the redacted texts, in percent
    Window,         \* DUPLICATE_WINDOW, in days
    MaxCandidates,  \* MAX_DUPLICATE_CANDIDATES
    MaxRowId,       \* bound on the ids of duplicate_candidates
    NoPlace, Nobody

Pairs == Complaints \X Complaints

\* A text without a letter or digit has no normalised form in any release.
ASSUME OutcomesAssumption ==
    \A c \in Complaints :
       /\ Outcomes[c] # {}
       /\ \A x, y \in Outcomes[c] : x.place = NoPlace <=> y.place = NoPlace

ASSUME SizesAssumption ==
    /\ IsFiniteSet(Complaints) /\ Legacy \subseteq Complaints
    /\ MaxCandidates \in Nat /\ MaxRowId \in Nat
    /\ Window \in Nat \ {0}
    /\ Created \in [Complaints -> Int]
    /\ Similarity \in [Pairs -> 0..100]
    /\ Nobody \notin Officers

VARIABLES
    triage,      \* filed complaint -> its category and normalised place
    locations,   \* complaint_location_reviews: complaint -> text, status, by
    rows,        \* duplicate_candidates: id -> pair, what matched, status, by
    requests,    \* request -> "new", "done", or what it decides and what it read
    scored,      \* history: complaints whose duplicates were ever looked for
    decisions,   \* history: pair -> latest audited decision on it
    confirmed,   \* history: complaint -> latest audited confirmation, and of what
    lostPairs,   \* history: pairs of an UPDATE that met another row than was read
    lostPlaces   \* history: the same for location reviews, until the text changes

tables == <<triage, locations, rows>>
history == <<scored, decisions, confirmed, lostPairs, lostPlaces>>
vars == <<triage, locations, rows, requests, scored, decisions, confirmed, lostPairs, lostPlaces>>

Verdicts == {"confirmed", "rejected"}

New == [op |-> "new"]

Done == [op |-> "done"]

Nothing == [x \in {} |-> 0]

\* f with the value y for x.
Put(f, x, y) == [z \in DOMAIN f \cup {x} |-> IF z = x THEN y ELSE f[z]]

Init ==
    /\ triage \in {f \in [Legacy -> UNION {Outcomes[c] : c \in Legacy}] :
                      \A c \in Legacy : f[c] \in Outcomes[c]}
    /\ locations = Nothing
    /\ rows = Nothing
    /\ requests = [q \in Requests |-> New]
    /\ scored = {}
    /\ decisions = Nothing
    /\ confirmed = Nothing
    /\ lostPairs = {}
    /\ lostPlaces = {}

-----------------------------------------------------------------------------
(* Scores and suggestions.                                                 *)

Apart(c, d) == IF Created[c] < Created[d] THEN Created[d] - Created[c]
                                          ELSE Created[c] - Created[d]

WithinWindow(c, d) == Apart(c, d) <= Window

\* What sorts eligible matches: 0.15 * (time + text), in ten-thousandths and rounded
\* as in total; category and place add 0.70 to all of them.
Score(c, d) ==
    (3000 * (Window - Apart(c, d)) + Window) \div (2 * Window) + 15 * Similarity[<<c, d>>]

\* score_duplicate(...).eligible, for triages x of c and y of d.
Eligible(c, d, x, y) ==
    /\ x.category = y.category
    /\ x.place # NoPlace /\ x.place = y.place
    /\ WithinWindow(c, d)

Of(c) == {i \in DOMAIN rows : rows[i].pair[1] = c}

\* Mutant: a refresh also deletes what an officer has rejected.
Open_NotConfirmed(c) == {i \in Of(c) : rows[i].status # "confirmed"}

Open(c) == {i \in Of(c) : rows[i].status = "suggested"}

\* Mutant: only confirmed pairs count as reviewed.
Reviewed_ConfirmedOnly(c) == {rows[i].pair[2] : i \in {j \in Of(c) : rows[j].status = "confirmed"}}

Reviewed(c) == {rows[i].pair[2] : i \in Of(c) \ Open(c)}

\* Mutant: the complaint is not left out of its own search.
Matches_Itself(c, x) ==
    {d \in DOMAIN triage \ Reviewed(c) : Eligible(c, d, x, triage[d])}

\* Mutant: complaints without a location review are not searched.
Matches_LocatedOnly(c, x) ==
    {d \in DOMAIN locations \ ({c} \cup Reviewed(c)) : Eligible(c, d, x, triage[d])}

\* Those worth suggesting for c, triaged as x.
Matches(c, x) ==
    {d \in DOMAIN triage \ ({c} \cup Reviewed(c)) : Eligible(c, d, x, triage[d])}

\* The best MaxCandidates of S, best first; ties in any order.
Shortlists(c, S) ==
    LET n == IF Cardinality(S) <= MaxCandidates THEN Cardinality(S) ELSE MaxCandidates
    IN  {list \in [1..n -> S] :
            /\ \A i, j \in 1..n : i < j =>
                  list[i] # list[j] /\ Score(c, list[i]) >= Score(c, list[j])
            /\ \A d \in S \ {list[i] : i \in 1..n}, i \in 1..n :
                  Score(c, list[i]) >= Score(c, d)}

Suggestion(c, d, x) ==
    [pair |-> <<c, d>>, on |-> x, status |-> "suggested", by |-> Nobody]

\* refresh_duplicate_candidates: the open suggestions go, the list comes in after
\* the largest id that is left.
Refresh(c, x) ==
    LET kept == DOMAIN rows \ Open(c) IN
    \E last \in kept \cup {0}, list \in Shortlists(c, Matches(c, x)) :
       /\ \A i \in kept : i <= last
       /\ \A k \in DOMAIN list : last + k <= MaxRowId
       /\ rows' = [i \in kept \cup {last + k : k \in DOMAIN list} |->
                      IF i \in kept THEN rows[i] ELSE Suggestion(c, list[i - last], x)]

\* Mutant: an existing review keeps its text.
Synced_KeepsText(c, place) ==
    IF c \in DOMAIN locations
    THEN locations[c]
    ELSE [text |-> place, status |-> IF place = NoPlace THEN "missing" ELSE "unconfirmed",
          by |-> Nobody]

\* sync_location_review on the row of c, if it has one.
Synced(c, place) ==
    IF c \in DOMAIN locations /\ locations[c].text = place
    THEN locations[c]
    ELSE [text |-> place, status |-> IF place = NoPlace THEN "missing" ELSE "unconfirmed",
          by |-> Nobody]

\* A new filing, a reprocess or a deferred result: _process_existing under the lock.
Process(c, x) ==
    /\ triage' = Put(triage, c, x)
    /\ locations' = Put(locations, c, Synced(c, x.place))
    /\ Refresh(c, x)
    /\ scored' = scored \cup {c}
    /\ lostPlaces' = IF c \in DOMAIN locations /\ locations[c].text # x.place
                     THEN lostPlaces \ {c} ELSE lostPlaces
    /\ UNCHANGED <<requests, decisions, confirmed, lostPairs>>

-----------------------------------------------------------------------------
(* Officers' requests: read, then write.                                   *)

\* decide_duplicate_candidate up to its return: the row is read, no lock is held.
ReadCandidate(q, o, i, verdict) ==
    /\ requests[q] = New
    /\ requests' = [requests EXCEPT ![q] =
                       [op |-> "decide", id |-> i, seen |-> rows[i], status |-> verdict, by |-> o]]
    /\ UNCHANGED <<tables, history>>

\* confirm_location up to its return.  Without a row the request makes one from
\* the complaint it has read; without a place it ends with an error.
ReadLocation(q, o, c) ==
    /\ requests[q] = New
    /\ LET fresh == c \notin DOMAIN locations
           seen == IF fresh THEN Synced(c, triage[c].place) ELSE locations[c]
       IN  /\ seen.text # NoPlace
           /\ requests' = [requests EXCEPT ![q] =
                  [op |-> IF fresh THEN "insert" ELSE "confirm", complaint |-> c,
                   seen |-> seen, status |-> "confirmed", by |-> o]]
    /\ UNCHANGED <<tables, history>>

\* Mutant: the first reviewer stays on the row.
Updated_KeepsReviewer(row, r) ==
    [row EXCEPT !.status = IF r.status = r.seen.status THEN @ ELSE r.status,
                !.by = IF r.seen.by # Nobody THEN @ ELSE r.by]

\* UPDATE: a column whose new value is the one read is left out of it.
Updated(row, r) ==
    [row EXCEPT !.status = IF r.status = r.seen.status THEN @ ELSE r.status,
                !.by = IF r.by = r.seen.by THEN @ ELSE r.by]

\* The commit of a decision: the audit event and, by its id, the row.
WriteCandidate(q) ==
    LET r == requests[q] IN
    /\ r.op = "decide"
    /\ r.id \in DOMAIN rows
    /\ rows' = [rows EXCEPT ![r.id] = Updated(@, r)]
    /\ decisions' = Put(decisions, r.seen.pair, [status |-> r.status, by |-> r.by])
    /\ lostPairs' = IF rows[r.id] = r.seen THEN lostPairs
                    ELSE lostPairs \cup {r.seen.pair, rows[r.id].pair}
    /\ requests' = [requests EXCEPT ![q] = Done]
    /\ UNCHANGED <<triage, locations, scored, confirmed, lostPlaces>>

\* The commit of a confirmation; of two requests that both insert, one fails.
WriteLocation(q) ==
    LET r == requests[q]
        c == r.complaint
    IN
    /\ \/ /\ r.op = "insert" /\ c \notin DOMAIN locations
          /\ locations' = Put(locations, c, [r.seen EXCEPT !.status = r.status, !.by = r.by])
          /\ UNCHANGED lostPlaces
       \/ /\ r.op = "confirm"
          /\ locations' = [locations EXCEPT ![c] = Updated(@, r)]
          /\ lostPlaces' = IF locations[c] = r.seen THEN lostPlaces ELSE lostPlaces \cup {c}
    /\ confirmed' = Put(confirmed, c, [text |-> r.seen.text, by |-> r.by])
    /\ requests' = [requests EXCEPT ![q] = Done]
    /\ UNCHANGED <<triage, rows, scored, decisions, lostPairs>>

\* The row is gone, the key is taken, the database is locked or the process
\* stops: the transaction is rolled back.
Fail(q) ==
    /\ requests[q] \notin {New, Done}
    /\ requests' = [requests EXCEPT ![q] = Done]
    /\ UNCHANGED <<tables, history>>

Next ==
    \/ \E c \in Complaints : \E x \in Outcomes[c] : Process(c, x)
    \/ \E q \in Requests :
          \/ \E o \in Officers :
                \/ \E i \in DOMAIN rows, v \in Verdicts : ReadCandidate(q, o, i, v)
                \/ \E c \in DOMAIN triage : ReadLocation(q, o, c)
          \/ WriteCandidate(q)
          \/ WriteLocation(q)
          \/ Fail(q)

Spec == Init /\ [][Next]_vars

-----------------------------------------------------------------------------
(* Properties.                                                             *)

Places == {x.place : x \in UNION {Outcomes[c] : c \in Complaints}}

TypeOK ==
    /\ Legacy \subseteq DOMAIN triage /\ DOMAIN triage \subseteq Complaints
    /\ \A c \in DOMAIN triage : triage[c] \in Outcomes[c]
    /\ DOMAIN locations \subseteq DOMAIN triage
    /\ \A c \in DOMAIN locations :
          locations[c] \in [text : Places, status : {"missing", "unconfirmed", "confirmed"},
                            by : Officers \cup {Nobody}]
    /\ DOMAIN rows \subseteq 1..MaxRowId
    /\ \A i \in DOMAIN rows :
          /\ rows[i].pair \in Pairs /\ rows[i].pair[1] # rows[i].pair[2]
          /\ rows[i].status \in {"suggested"} \cup Verdicts
          /\ rows[i].by \in Officers \cup {Nobody}

\* The location review of a complaint always holds the place its latest triage
\* found, and says "missing" exactly when there is none, whatever confirmations
\* and triages overlapped.
LocationsFollowTriage ==
    \A c \in DOMAIN locations :
       /\ locations[c].text = triage[c].place
       /\ locations[c].status = "missing" <=> triage[c].place = NoPlace

\* A pair has one row; the open suggestions of a complaint, never more than
\* MaxCandidates, rest on its latest triage and not on an earlier one.
SuggestionsCurrent ==
    /\ \A i, j \in DOMAIN rows : rows[i].pair = rows[j].pair => i = j
    /\ \A c \in DOMAIN triage :
          /\ Cardinality(Open(c)) <= MaxCandidates
          /\ \A i \in Open(c) : rows[i].on = triage[c]

\* c's list has d on it, or MaxCandidates others that score no less.
Noticed(c, d) ==
    \/ \E i \in Of(c) : rows[i].pair[2] = d
    \/ Cardinality({i \in Of(c) : Score(c, rows[i].pair[2]) >= Score(c, d)}) >= MaxCandidates

\* No match is missed between two complaints: as they are triaged now, the one
\* triaged later has the other on its list, unless better ones fill it.
NoMatchMissed ==
    \A c, d \in DOMAIN triage :
       /\ c # d /\ {c, d} \cap scored # {}
       /\ Eligible(c, d, triage[c], triage[d])
       => Noticed(c, d) \/ Noticed(d, c)

\* Rows and location reviews show the latest decision in the audit trail, and an
\* undecided row has none there; the exceptions are those where an officer's
\* UPDATE met a row that was no longer the one it had read.
RowsTellDecisions ==
    /\ \A i \in DOMAIN rows :
          LET p == rows[i].pair IN
          p \notin lostPairs =>
             IF p \in DOMAIN decisions
             THEN decisions[p] = [status |-> rows[i].status, by |-> rows[i].by]
             ELSE rows[i].status = "suggested" /\ rows[i].by = Nobody
    /\ \A c \in DOMAIN locations \ lostPlaces :
          locations[c].status = "confirmed" =>
             /\ c \in DOMAIN confirmed
             /\ confirmed[c] = [text |-> locations[c].text, by |-> locations[c].by]

\* The verdict on each pair, for the promise made in PairReview.
Verdict ==
    [p \in Pairs |->
        IF \E i \in DOMAIN rows : rows[i].pair = p
        THEN rows[CHOOSE i \in DOMAIN rows : rows[i].pair = p].status
        ELSE "none"]

Review == INSTANCE PairReview WITH verdict <- Verdict

\* Machines only suggest and withdraw; what an officer has decided stays decided,
\* one pair at a time, through refreshes, reused ids and overlapping requests.
ImplementsReview == Review!Spec
=============================================================================
