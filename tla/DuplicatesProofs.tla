-------------------------- MODULE DuplicatesProofs --------------------------
(***************************************************************************)
(* Proofs about Duplicates: the inductive invariant, the five invariants   *)
(* of the run, and that the code implements PairReview.                    *)
(***************************************************************************)
EXTENDS Duplicates, FiniteSetTheorems, TLAPS

Triages == UNION {Outcomes[c] : c \in Complaints}

RowType ==
    [pair : Pairs, on : Triages, status : {"suggested"} \cup Verdicts,
     by : Officers \cup {Nobody}]

LocationType ==
    [text : Places, status : {"missing", "unconfirmed", "confirmed"},
     by : Officers \cup {Nobody}]

PairRequests ==
    [op : {"decide"}, id : Int, seen : RowType, status : Verdicts, by : Officers]

PlaceRequests ==
    [op : {"insert", "confirm"}, complaint : Complaints, seen : LocationType,
     status : {"confirmed"}, by : Officers]

\* What a request that has read a location review still knows of it: the text is
\* one that a triage of the complaint found, and while there is no row yet the
\* complaint has not been triaged again.
PlaceRequestOK(r) ==
    /\ r.complaint \in DOMAIN triage
    /\ r.seen.text # NoPlace
    /\ \E x \in Outcomes[r.complaint] : r.seen.text = x.place
    /\ r.op = "confirm" => r.complaint \in DOMAIN locations
    /\ r.complaint \notin DOMAIN locations => r.seen.text = triage[r.complaint].place

TriageInv ==
    /\ Legacy \subseteq DOMAIN triage /\ DOMAIN triage \subseteq Complaints
    /\ \A c \in DOMAIN triage : triage[c] \in Outcomes[c]
    /\ scored \subseteq DOMAIN triage

LocationsInv ==
    /\ DOMAIN locations \subseteq DOMAIN triage
    /\ \A c \in DOMAIN locations : locations[c] \in LocationType

RowsInv ==
    /\ DOMAIN rows \subseteq 1..MaxRowId
    /\ \A i \in DOMAIN rows : rows[i] \in RowType /\ rows[i].pair[1] # rows[i].pair[2]

RequestOK(r) ==
    \/ r \in {New, Done} \cup PairRequests
    \/ r \in PlaceRequests /\ PlaceRequestOK(r)

RequestsInv ==
    /\ DOMAIN requests = Requests
    /\ \A q \in Requests : RequestOK(requests[q])

\* A decision in the audit trail keeps its row, unless an UPDATE missed it.
DecisionsInv ==
    /\ \A p \in DOMAIN decisions : decisions[p] \in [status : Verdicts, by : Officers]
    /\ \A p \in DOMAIN decisions \ lostPairs : \E i \in DOMAIN rows : rows[i].pair = p

TypeInv == TriageInv /\ LocationsInv /\ RowsInv /\ RequestsInv /\ DecisionsInv

\* The inductive invariant.
IInv ==
    /\ TypeInv
    /\ LocationsFollowTriage
    /\ SuggestionsCurrent
    /\ NoMatchMissed
    /\ RowsTellDecisions

-----------------------------------------------------------------------------
(* The operators.                                                          *)

\* Matches are other complaints, not reviewed yet, and finitely many.
LEMMA MatchesFacts ==
    ASSUME TypeInv, NEW c, NEW x
    PROVE  /\ Matches(c, x) \subseteq DOMAIN triage
           /\ c \notin Matches(c, x)
           /\ Matches(c, x) \cap Reviewed(c) = {}
           /\ IsFiniteSet(Matches(c, x))
           /\ Cardinality(Matches(c, x)) \in Nat
<1>1. Matches(c, x) \subseteq DOMAIN triage \ ({c} \cup Reviewed(c))
    BY DEF Matches
<1>2. Matches(c, x) \in SUBSET Complaints
    BY <1>1 DEF TypeInv, TriageInv
<1>3. IsFiniteSet(Matches(c, x))
    BY <1>2, FS_Subset, SizesAssumption DEF SizesAssumption
<1> QED BY <1>1, <1>3, FS_CardinalityType

\* A shortlist has each of its members once, at most MaxCandidates of them, and
\* is either complete or full of members that score no less than those left out.
LEMMA ShortlistFacts ==
    ASSUME NEW c, NEW S, IsFiniteSet(S), NEW list \in Shortlists(c, S)
    PROVE  \E n \in Nat :
              /\ n <= MaxCandidates
              /\ list \in [1..n -> S]
              /\ \A i, j \in 1..n : i # j => list[i] # list[j]
              /\ \A d \in S : \/ \E k \in 1..n : list[k] = d
                              \/ /\ n = MaxCandidates
                                 /\ \A k \in 1..n : Score(c, list[k]) >= Score(c, d)
<1> DEFINE n == IF Cardinality(S) <= MaxCandidates THEN Cardinality(S) ELSE MaxCandidates
<1>1. Cardinality(S) \in Nat
    BY FS_CardinalityType
<1>2. n \in Nat /\ n <= MaxCandidates
    BY <1>1, SizesAssumption DEF SizesAssumption
<1>3. /\ list \in [1..n -> S]
      /\ \A i, j \in 1..n : i < j => list[i] # list[j]
      /\ \A d \in S \ {list[i] : i \in 1..n}, i \in 1..n : Score(c, list[i]) >= Score(c, d)
    BY DEF Shortlists
<1>4. \A i, j \in 1..n : i # j => list[i] # list[j]
  <2> TAKE i, j \in 1..n
  <2>1. i \in Int /\ j \in Int
      BY <1>2
  <2> QED BY <2>1, <1>3
<1>5. ASSUME NEW d \in S, \A k \in 1..n : list[k] # d
      PROVE  n = MaxCandidates /\ \A k \in 1..n : Score(c, list[k]) >= Score(c, d)
  <2>1. \A k \in 1..n : Score(c, list[k]) >= Score(c, d)
      BY <1>3, <1>5
  <2>2. list \in Injection(1..n, S)
      BY <1>3, <1>4 DEF Injection, IsInjective
  <2>3. list \notin Surjection(1..n, S)
      BY <1>5 DEF Surjection
  <2>4. Cardinality(1..n) = n
      BY <1>2, FS_Interval
  <2>5. n # Cardinality(S)
      BY <2>2, <2>3, <2>4, FS_Injection
  <2> QED BY <2>1, <2>5
<1> HIDE DEF n
<1> QED BY <1>2, <1>3, <1>4, <1>5

\* Rows of a refresh: those kept, then the list's, one id after the other.
Refreshed(c, x, last, n, list) ==
    /\ n <= MaxCandidates
    /\ list \in [1..n -> Matches(c, x)]
    /\ \A i, j \in 1..n : i # j => list[i] # list[j]
    /\ \A d \in Matches(c, x) :
          \/ \E k \in 1..n : list[k] = d
          \/ n = MaxCandidates /\ \A k \in 1..n : Score(c, list[k]) >= Score(c, d)
    /\ DOMAIN rows' = (DOMAIN rows \ Open(c)) \cup (last + 1)..(last + n)
    /\ DOMAIN rows' \subseteq 1..MaxRowId
    /\ \A i \in DOMAIN rows \ Open(c) : i \notin (last + 1)..(last + n)
    /\ \A i \in DOMAIN rows \ Open(c) : rows'[i] = rows[i]
    /\ \A k \in 1..n : rows'[last + k] = Suggestion(c, list[k], x)

\* Every refresh is of that form.
LEMMA RefreshFacts ==
    ASSUME TypeInv, NEW c \in Complaints, NEW x \in Outcomes[c], Refresh(c, x)
    PROVE  \E last \in Int, n \in Nat : \E list : Refreshed(c, x, last, n, list)
<1> DEFINE kept == DOMAIN rows \ Open(c)
<1>1. PICK last \in kept \cup {0}, list \in Shortlists(c, Matches(c, x)) :
          /\ \A i \in kept : i <= last
          /\ \A k \in DOMAIN list : last + k <= MaxRowId
          /\ rows' = [i \in kept \cup {last + k : k \in DOMAIN list} |->
                         IF i \in kept THEN rows[i] ELSE Suggestion(c, list[i - last], x)]
    BY DEF Refresh
<1>2. PICK n \in Nat :
          /\ n <= MaxCandidates
          /\ list \in [1..n -> Matches(c, x)]
          /\ \A i, j \in 1..n : i # j => list[i] # list[j]
          /\ \A d \in Matches(c, x) :
                \/ \E k \in 1..n : list[k] = d
                \/ n = MaxCandidates /\ \A k \in 1..n : Score(c, list[k]) >= Score(c, d)
    BY MatchesFacts, ShortlistFacts
<1>3. kept \subseteq 1..MaxRowId /\ MaxRowId \in Nat
    BY SizesAssumption DEF SizesAssumption, TypeInv, RowsInv
<1>4. last \in Int /\ last >= 0
    BY <1>3
<1>5. {last + k : k \in DOMAIN list} = (last + 1)..(last + n)
  <2>1. DOMAIN list = 1..n
      BY <1>2
  <2>2. ASSUME NEW i \in (last + 1)..(last + n) PROVE \E k \in 1..n : i = last + k
    <3>1. i - last \in 1..n /\ i = last + (i - last)
        BY <1>2, <1>4
    <3> QED BY <3>1
  <2>3. ASSUME NEW k \in 1..n PROVE last + k \in (last + 1)..(last + n)
      BY <1>2, <1>4
  <2>4. \A i : i \in {last + k : k \in DOMAIN list} <=> \E k \in 1..n : i = last + k
      BY <2>1
  <2> QED BY <2>2, <2>3, <2>4
<1>6. \A i \in kept : i \notin (last + 1)..(last + n)
    BY <1>1, <1>2, <1>3, <1>4
<1>7. DOMAIN rows' = kept \cup (last + 1)..(last + n)
    BY <1>1, <1>5
<1>8. DOMAIN rows' \subseteq 1..MaxRowId
  <2>1. \A k \in 1..n : last + k \in 1..MaxRowId
      BY <1>1, <1>2, <1>3, <1>4
  <2> QED BY <1>1, <1>2, <1>3, <2>1
<1>9. \A i \in kept : rows'[i] = rows[i]
    BY <1>1
<1>10. \A k \in 1..n : rows'[last + k] = Suggestion(c, list[k], x)
  <2> TAKE k \in 1..n
  <2>1. /\ last + k \in (last + 1)..(last + n)
        /\ (last + k) - last = k
      BY <1>2, <1>4
  <2>2. last + k \notin kept
      BY <1>6, <2>1
  <2> QED BY <1>1, <1>5, <2>1, <2>2
<1>11. Refreshed(c, x, last, n, list)
    BY <1>2, <1>6, <1>7, <1>8, <1>9, <1>10 DEF Refreshed
<1> QED BY <1>4, <1>11

\* The same without the arithmetic: what the rows of the complaint are after it.
LEMMA RefreshRows ==
    ASSUME TypeInv, NEW c \in Complaints, NEW x \in Outcomes[c], Refresh(c, x)
    PROVE  /\ DOMAIN rows' \subseteq 1..MaxRowId
           /\ \A i \in DOMAIN rows \ Open(c) : i \in DOMAIN rows' /\ rows'[i] = rows[i]
           /\ \A i \in DOMAIN rows' :
                 \/ i \in DOMAIN rows \ Open(c)
                 \/ /\ i \notin DOMAIN rows \ Open(c)
                    /\ \E d \in Matches(c, x) : rows'[i] = Suggestion(c, d, x)
           /\ \A i, j \in DOMAIN rows' :
                 /\ i \notin DOMAIN rows \ Open(c) /\ j \notin DOMAIN rows \ Open(c)
                 /\ rows'[i].pair = rows'[j].pair
                 => i = j
<1>1. PICK last \in Int, n \in Nat : \E list : Refreshed(c, x, last, n, list)
    BY RefreshFacts
<1>2. PICK list : Refreshed(c, x, last, n, list)
    BY <1>1
<1> USE DEF Refreshed
<1>3. ASSUME NEW i \in DOMAIN rows', i \notin DOMAIN rows \ Open(c)
      PROVE  \E k \in 1..n : i = last + k /\ rows'[i] = Suggestion(c, list[k], x)
  <2>1. i \in (last + 1)..(last + n)
      BY <1>2, <1>3
  <2>2. i - last \in 1..n /\ i = last + (i - last)
      BY <2>1
  <2> QED BY <1>2, <2>2
<1>4. ASSUME NEW i \in DOMAIN rows', NEW j \in DOMAIN rows',
             i \notin DOMAIN rows \ Open(c), j \notin DOMAIN rows \ Open(c),
             rows'[i].pair = rows'[j].pair
      PROVE  i = j
  <2>1. PICK k \in 1..n : i = last + k /\ rows'[i] = Suggestion(c, list[k], x)
      BY <1>3, <1>4
  <2>2. PICK l \in 1..n : j = last + l /\ rows'[j] = Suggestion(c, list[l], x)
      BY <1>3, <1>4
  <2>3. <<c, list[k]>> = <<c, list[l]>>
      BY <1>4, <2>1, <2>2 DEF Suggestion
  <2>4. list[k] = list[l]
      BY <2>3
  <2> QED BY <1>2, <2>1, <2>2, <2>4
<1>5. \A k \in 1..n : list[k] \in Matches(c, x)
    BY <1>2
<1> QED BY <1>2, <1>3, <1>4, <1>5

-----------------------------------------------------------------------------
(* Triage of one complaint.                                                *)

\* The columns it writes are the complaint's own.
LEMMA ProcessColumns ==
    ASSUME NEW c, NEW x, Process(c, x)
    PROVE  /\ DOMAIN triage' = DOMAIN triage \cup {c}
           /\ triage'[c] = x
           /\ \A d \in DOMAIN triage : d # c => triage'[d] = triage[d]
           /\ DOMAIN locations' = DOMAIN locations \cup {c}
           /\ locations'[c] = Synced(c, x.place)
           /\ \A d \in DOMAIN locations : d # c => locations'[d] = locations[d]
<1>1. triage' = Put(triage, c, x) /\ locations' = Put(locations, c, Synced(c, x.place))
    BY DEF Process
<1> QED BY <1>1 DEF Put

\* Any triage leaves the columns, the requests and the audit trail well-formed.
LEMMA ProcessType ==
    ASSUME IInv, NEW c \in Complaints, NEW x \in Outcomes[c], Process(c, x)
    PROVE  TypeInv'
<1> USE DEF IInv, TypeInv
<1>c. /\ DOMAIN triage' = DOMAIN triage \cup {c} /\ triage'[c] = x
      /\ \A d \in DOMAIN triage : d # c => triage'[d] = triage[d]
      /\ DOMAIN locations' = DOMAIN locations \cup {c}
      /\ locations'[c] = Synced(c, x.place)
      /\ \A d \in DOMAIN locations : d # c => locations'[d] = locations[d]
    BY ProcessColumns
<1>1. /\ triage' = Put(triage, c, x)
      /\ locations' = Put(locations, c, Synced(c, x.place))
      /\ Refresh(c, x)
      /\ scored' = scored \cup {c}
      /\ UNCHANGED <<requests, decisions, confirmed, lostPairs>>
    BY DEF Process
<1>2. x.place \in Places /\ x \in Triages
    BY DEF Places, Triages
<1>3. TriageInv'
    BY <1>1, <1>c DEF TriageInv
<1>4. Synced(c, x.place) \in LocationType
  <2>1. CASE c \in DOMAIN locations /\ locations[c].text = x.place
      BY <2>1 DEF Synced, LocationsInv
  <2>2. CASE ~(c \in DOMAIN locations /\ locations[c].text = x.place)
      BY <1>2, <2>2 DEF Synced, LocationType
  <2> QED BY <2>1, <2>2
<1>5. LocationsInv'
    BY <1>1, <1>4, <1>c DEF LocationsInv
<1>6. RowsInv'
  <2>1. ASSUME NEW d \in Matches(c, x)
        PROVE  Suggestion(c, d, x) \in RowType /\ c # d
    <3>1. d \in Complaints /\ c # d
        BY MatchesFacts DEF TriageInv
    <3> QED BY <1>2, <3>1 DEF Suggestion, RowType, Pairs
  <2>2. \A d : Suggestion(c, d, x).pair[1] = c /\ Suggestion(c, d, x).pair[2] = d
      BY DEF Suggestion
  <2>3. /\ DOMAIN rows' \subseteq 1..MaxRowId
        /\ \A i \in DOMAIN rows' :
              \/ i \in DOMAIN rows /\ rows'[i] = rows[i]
              \/ \E d \in Matches(c, x) : rows'[i] = Suggestion(c, d, x)
      BY <1>1, RefreshRows
  <2> QED BY <2>1, <2>2, <2>3 DEF RowsInv
<1>7. RequestsInv'
  <2>1. ASSUME NEW r \in PlaceRequests, PlaceRequestOK(r) PROVE PlaceRequestOK(r)'
      BY <1>1, <2>1, <1>c DEF PlaceRequestOK
  <2> QED BY <1>1, <2>1 DEF RequestsInv, RequestOK
<1>8. DecisionsInv'
  <2>1. ASSUME NEW p \in DOMAIN decisions \ lostPairs
        PROVE  \E i \in DOMAIN rows' : rows'[i].pair = p
    <3>1. PICK i \in DOMAIN rows : rows[i].pair = p
        BY <2>1 DEF DecisionsInv
    <3>2. /\ decisions[p] = [status |-> rows[i].status, by |-> rows[i].by]
          /\ decisions[p].status \in Verdicts
        BY <2>1, <3>1 DEF RowsTellDecisions, DecisionsInv
    <3>3. i \notin Open(c)
        BY <3>2 DEF Open, Verdicts
    <3> QED BY <1>1, <3>1, <3>3, RefreshRows
  <2> QED BY <1>1, <2>1 DEF DecisionsInv
<1> QED BY <1>3, <1>5, <1>6, <1>7, <1>8

\* sync_location_review makes the review fit the triage.
LEMMA ProcessLocations ==
    ASSUME IInv, NEW c \in Complaints, NEW x \in Outcomes[c], Process(c, x)
    PROVE  LocationsFollowTriage'
<1> USE DEF IInv, TypeInv
<1>c. /\ DOMAIN triage' = DOMAIN triage \cup {c} /\ triage'[c] = x
      /\ \A d \in DOMAIN triage : d # c => triage'[d] = triage[d]
      /\ DOMAIN locations' = DOMAIN locations \cup {c}
      /\ locations'[c] = Synced(c, x.place)
      /\ \A d \in DOMAIN locations : d # c => locations'[d] = locations[d]
    BY ProcessColumns
<1>1. /\ triage' = Put(triage, c, x)
      /\ locations' = Put(locations, c, Synced(c, x.place))
    BY DEF Process
<1>2. /\ Synced(c, x.place).text = x.place
      /\ Synced(c, x.place).status = "missing" <=> x.place = NoPlace
  <2>1. CASE c \in DOMAIN locations /\ locations[c].text = x.place
    <3>1. /\ locations[c].text = triage[c].place
          /\ locations[c].status = "missing" <=> triage[c].place = NoPlace
        BY <2>1 DEF LocationsFollowTriage
    <3> QED BY <2>1, <3>1 DEF Synced
  <2>2. CASE ~(c \in DOMAIN locations /\ locations[c].text = x.place)
      BY <2>2 DEF Synced
  <2> QED BY <2>1, <2>2
<1>3. \A d \in DOMAIN locations : d \in DOMAIN triage
    BY DEF LocationsInv
<1> QED BY <1>1, <1>2, <1>3, <1>c DEF LocationsFollowTriage

\* A refresh suggests no pair that has a row, at most MaxCandidates, and leaves
\* nothing that rests on an earlier triage.
LEMMA ProcessSuggestions ==
    ASSUME IInv, NEW c \in Complaints, NEW x \in Outcomes[c], Process(c, x)
    PROVE  SuggestionsCurrent'
<1> USE DEF IInv, TypeInv
<1>c. /\ DOMAIN triage' = DOMAIN triage \cup {c} /\ triage'[c] = x
      /\ \A d \in DOMAIN triage : d # c => triage'[d] = triage[d]
      /\ DOMAIN locations' = DOMAIN locations \cup {c}
      /\ locations'[c] = Synced(c, x.place)
      /\ \A d \in DOMAIN locations : d # c => locations'[d] = locations[d]
    BY ProcessColumns
<1>1. triage' = Put(triage, c, x) /\ Refresh(c, x)
    BY DEF Process
<1> DEFINE Kept(i) == i \in DOMAIN rows \ Open(c)
<1>2. /\ \A i \in DOMAIN rows : Kept(i) => i \in DOMAIN rows' /\ rows'[i] = rows[i]
      /\ \A i \in DOMAIN rows' : ~Kept(i) => \E d \in Matches(c, x) : rows'[i] = Suggestion(c, d, x)
      /\ \A i, j \in DOMAIN rows' : ~Kept(i) /\ ~Kept(j) /\ rows'[i].pair = rows'[j].pair => i = j
    BY <1>1, RefreshRows
<1>3. \A d : /\ Suggestion(c, d, x).pair = <<c, d>> /\ Suggestion(c, d, x).status = "suggested"
             /\ Suggestion(c, d, x).on = x
    BY DEF Suggestion
<1>4. ASSUME NEW i \in DOMAIN rows', NEW j \in DOMAIN rows', Kept(i), ~Kept(j)
      PROVE  rows'[i].pair # rows'[j].pair
  <2>1. PICK d \in Matches(c, x) : rows'[j].pair = <<c, d>>
      BY <1>2, <1>3, <1>4
  <2>2. d \notin Reviewed(c)
      BY MatchesFacts
  <2>3. ASSUME rows[i].pair = <<c, d>> PROVE FALSE
    <3>1. i \in Of(c) \ Open(c) /\ rows[i].pair[2] = d
        BY <1>4, <2>3 DEF Of
    <3> QED BY <2>2, <3>1 DEF Reviewed
  <2> QED BY <1>2, <1>4, <2>1, <2>3
<1>5. \A i, j \in DOMAIN rows' : rows'[i].pair = rows'[j].pair => i = j
  <2> SUFFICES ASSUME NEW i \in DOMAIN rows', NEW j \in DOMAIN rows', rows'[i].pair = rows'[j].pair
               PROVE  i = j
      OBVIOUS
  <2>1. CASE Kept(i) /\ Kept(j)
      BY <1>2, <2>1 DEF SuggestionsCurrent
  <2>2. CASE Kept(i) /\ ~Kept(j)
      BY <1>4, <2>2
  <2>3. CASE ~Kept(i) /\ Kept(j)
      BY <1>4, <2>3
  <2>4. CASE ~Kept(i) /\ ~Kept(j)
      BY <1>2, <2>4
  <2> QED BY <2>1, <2>2, <2>3, <2>4
<1>6. ASSUME NEW d \in DOMAIN triage', d # c
      PROVE  /\ Cardinality(Open(d)') <= MaxCandidates
             /\ \A i \in Open(d)' : rows'[i].on = triage'[d]
  <2>1. d \in DOMAIN triage /\ triage'[d] = triage[d]
      BY <1>1, <1>6, <1>c
  <2>2. ASSUME NEW i \in DOMAIN rows', rows'[i].pair[1] = d PROVE Kept(i) /\ rows'[i] = rows[i]
      BY <1>2, <1>3, <1>6, <2>2
  <2>3. ASSUME NEW i \in DOMAIN rows, rows[i].pair[1] = d PROVE i \in DOMAIN rows' /\ rows'[i] = rows[i]
      BY <1>2, <1>6, <2>3 DEF Open, Of
  <2>4. Open(d)' = Open(d)
      BY <2>2, <2>3 DEF Open, Of
  <2>5. \A i \in Open(d) : rows'[i] = rows[i]
      BY <2>3 DEF Open, Of
  <2> QED BY <2>1, <2>4, <2>5 DEF SuggestionsCurrent
<1>7. /\ Cardinality(Open(c)') <= MaxCandidates
      /\ \A i \in Open(c)' : rows'[i].on = triage'[c]
  <2>1. PICK last \in Int, n \in Nat : \E list : Refreshed(c, x, last, n, list)
      BY <1>1, RefreshFacts
  <2>2. PICK list : Refreshed(c, x, last, n, list)
      BY <2>1
  <2>3. ASSUME NEW i \in Open(c)' PROVE i \in DOMAIN rows' /\ ~Kept(i)
    <3>1. i \in DOMAIN rows' /\ rows'[i].pair[1] = c /\ rows'[i].status = "suggested"
        BY DEF Open, Of
    <3>2. ASSUME Kept(i) PROVE FALSE
        BY <1>2, <3>1, <3>2 DEF Open, Of
    <3> QED BY <3>1, <3>2
  <2>4. Open(c)' \subseteq (last + 1)..(last + n)
      BY <2>2, <2>3 DEF Refreshed
  <2>5. Cardinality((last + 1)..(last + n)) = n /\ IsFiniteSet((last + 1)..(last + n))
      BY FS_Interval
  <2>6. /\ Cardinality(Open(c)') <= Cardinality((last + 1)..(last + n))
        /\ IsFiniteSet(Open(c)')
      BY <2>4, <2>5, FS_Subset
  <2>7. Cardinality(Open(c)') \in Nat /\ MaxCandidates \in Nat /\ n <= MaxCandidates
      BY <2>2, <2>6, FS_CardinalityType, SizesAssumption DEF SizesAssumption, Refreshed
  <2>8. triage'[c] = x
      BY <1>1, <1>c
  <2> QED BY <1>2, <1>3, <2>3, <2>5, <2>6, <2>7, <2>8
<1> QED BY <1>5, <1>6, <1>7 DEF SuggestionsCurrent

\* Being worth suggesting works both ways.
LEMMA EligibleSymmetric ==
    ASSUME NEW c \in Complaints, NEW d \in Complaints, NEW x, NEW y, Eligible(c, d, x, y)
    PROVE  Eligible(d, c, y, x)
<1>1. Created[c] \in Int /\ Created[d] \in Int
    BY SizesAssumption DEF SizesAssumption
<1>2. Apart(c, d) = Apart(d, c)
    BY <1>1 DEF Apart
<1> QED BY <1>2 DEF Eligible, WithinWindow

\* The complaint just triaged has every match on its list, or better ones.
LEMMA RefreshNotices ==
    ASSUME TypeInv, NEW c \in Complaints, NEW x \in Outcomes[c], Refresh(c, x),
           NEW d \in DOMAIN triage, d # c, Eligible(c, d, x, triage[d])
    PROVE  Noticed(c, d)'
<1>1. CASE d \in Reviewed(c)
  <2>1. PICK i \in Of(c) \ Open(c) : rows[i].pair[2] = d
      BY <1>1 DEF Reviewed
  <2>2. i \in DOMAIN rows \ Open(c) /\ rows[i].pair[1] = c
      BY <2>1 DEF Of
  <2>3. i \in DOMAIN rows' /\ rows'[i] = rows[i]
      BY <2>2, RefreshRows
  <2> QED BY <2>1, <2>2, <2>3 DEF Noticed, Of
<1>2. CASE d \notin Reviewed(c)
  <2>1. d \in Matches(c, x)
      BY <1>2 DEF Matches
  <2>2. PICK last \in Int, n \in Nat : \E list : Refreshed(c, x, last, n, list)
      BY RefreshFacts
  <2>3. PICK list : Refreshed(c, x, last, n, list)
      BY <2>2
  <2>4. ASSUME NEW k \in 1..n
        PROVE  /\ last + k \in Of(c)'
               /\ rows'[last + k].pair[2] = list[k]
    <3>1. last + k \in (last + 1)..(last + n)
        OBVIOUS
    <3>2. last + k \in DOMAIN rows' /\ rows'[last + k] = Suggestion(c, list[k], x)
        BY <2>3, <3>1 DEF Refreshed
    <3> QED BY <3>2 DEF Of, Suggestion
  <2>5. CASE \E k \in 1..n : list[k] = d
      BY <2>4, <2>5 DEF Noticed
  <2>6. CASE n = MaxCandidates /\ \A k \in 1..n : Score(c, list[k]) >= Score(c, d)
    <3> DEFINE better == {i \in Of(c)' : Score(c, rows'[i].pair[2]) >= Score(c, d)}
    <3>1. ASSUME NEW i \in (last + 1)..(last + n) PROVE i \in better
      <4>1. i - last \in 1..n /\ i = last + (i - last)
          OBVIOUS
      <4> QED BY <2>4, <2>6, <4>1
    <3>2. better \subseteq 1..MaxRowId
        BY <2>3 DEF Refreshed, Of
    <3>3. IsFiniteSet(better)
        BY <3>2, FS_Interval, FS_Subset, SizesAssumption DEF SizesAssumption
    <3>4. Cardinality((last + 1)..(last + n)) = n
        BY FS_Interval
    <3>5. (last + 1)..(last + n) \in SUBSET better
        BY <3>1
    <3> HIDE DEF better
    <3>6. Cardinality((last + 1)..(last + n)) <= Cardinality(better)
        BY <3>3, <3>5, FS_Subset
    <3>7. Cardinality(better) \in Nat
        BY <3>3, FS_CardinalityType
    <3>8. Cardinality(better) >= MaxCandidates
        BY <2>6, <3>4, <3>6, <3>7
    <3> QED BY <3>8 DEF better, Noticed
  <2> QED BY <2>1, <2>3, <2>5, <2>6 DEF Refreshed
<1> QED BY <1>1, <1>2

\* A triage misses no match of its complaint and takes no other complaint's away.
LEMMA ProcessMatches ==
    ASSUME IInv, NEW c \in Complaints, NEW x \in Outcomes[c], Process(c, x)
    PROVE  NoMatchMissed'
<1> USE DEF IInv, TypeInv
<1>c. /\ DOMAIN triage' = DOMAIN triage \cup {c} /\ triage'[c] = x
      /\ \A d \in DOMAIN triage : d # c => triage'[d] = triage[d]
    BY ProcessColumns
<1>1. Refresh(c, x) /\ scored' = scored \cup {c}
    BY DEF Process
<1>2. \A d \in DOMAIN triage : d # c /\ Eligible(c, d, x, triage[d]) => Noticed(c, d)'
    BY <1>1, RefreshNotices
<1>3. ASSUME NEW a \in DOMAIN triage, NEW b, a # c, Noticed(a, b) PROVE Noticed(a, b)'
  <2>1. \A d : Suggestion(c, d, x).pair[1] = c
      BY DEF Suggestion
  <2>2. ASSUME NEW i \in Of(a)' PROVE i \in Of(a)
      BY <1>1, <1>3, <2>1, RefreshRows DEF Of
  <2>3. ASSUME NEW i \in Of(a) PROVE i \in Of(a)' /\ rows'[i] = rows[i]
    <3>1. i \in DOMAIN rows \ Open(c) /\ rows[i].pair[1] = a
        BY <1>3 DEF Of, Open
    <3> QED BY <1>1, <3>1, RefreshRows DEF Of
  <2>4. Of(a)' = Of(a)
      BY <2>2, <2>3
  <2>5. {i \in Of(a)' : Score(a, rows'[i].pair[2]) >= Score(a, b)}
          = {i \in Of(a) : Score(a, rows[i].pair[2]) >= Score(a, b)}
      BY <2>3, <2>4
  <2> QED BY <1>3, <2>3, <2>4, <2>5 DEF Noticed
<1> SUFFICES ASSUME NEW a \in DOMAIN triage', NEW b \in DOMAIN triage',
                    a # b, {a, b} \cap scored' # {}, Eligible(a, b, triage'[a], triage'[b])
             PROVE  Noticed(a, b)' \/ Noticed(b, a)'
    BY DEF NoMatchMissed
<1>4. CASE a = c
    BY <1>c, <1>2, <1>4
<1>5. CASE b = c
  <2>1. a \in DOMAIN triage /\ triage'[a] = triage[a] /\ triage'[b] = x /\ a \in Complaints
      BY <1>c, <1>5 DEF TriageInv
  <2>2. Eligible(c, a, x, triage[a])
      BY <1>5, <2>1, EligibleSymmetric
  <2> QED BY <1>2, <1>5, <2>1, <2>2
<1>6. CASE a # c /\ b # c
  <2>1. /\ a \in DOMAIN triage /\ b \in DOMAIN triage
        /\ Eligible(a, b, triage[a], triage[b])
        /\ {a, b} \cap scored # {}
      BY <1>c, <1>1, <1>6
  <2>2. Noticed(a, b) \/ Noticed(b, a)
      BY <2>1 DEF NoMatchMissed
  <2> QED BY <1>3, <1>6, <2>1, <2>2
<1> QED BY <1>4, <1>5, <1>6

\* New suggestions are for undecided pairs; a confirmation outlives the triage
\* only with the text it was for.
LEMMA ProcessDecisions ==
    ASSUME IInv, NEW c \in Complaints, NEW x \in Outcomes[c], Process(c, x)
    PROVE  RowsTellDecisions'
<1> USE DEF IInv, TypeInv
<1>c. /\ DOMAIN locations' = DOMAIN locations \cup {c}
      /\ locations'[c] = Synced(c, x.place)
      /\ \A d \in DOMAIN locations : d # c => locations'[d] = locations[d]
    BY ProcessColumns
<1>1. /\ Refresh(c, x)
      /\ lostPlaces' = IF c \in DOMAIN locations /\ locations[c].text # x.place
                       THEN lostPlaces \ {c} ELSE lostPlaces
      /\ UNCHANGED <<decisions, confirmed, lostPairs>>
    BY DEF Process
<1>2. ASSUME NEW i \in DOMAIN rows', rows'[i].pair \notin lostPairs
      PROVE  IF rows'[i].pair \in DOMAIN decisions
             THEN decisions[rows'[i].pair] = [status |-> rows'[i].status, by |-> rows'[i].by]
             ELSE rows'[i].status = "suggested" /\ rows'[i].by = Nobody
  <2>1. CASE i \in DOMAIN rows \ Open(c)
    <3>1. i \in DOMAIN rows /\ rows'[i] = rows[i]
        BY <1>1, <2>1, RefreshRows
    <3> QED BY <1>2, <3>1 DEF RowsTellDecisions
  <2>2. CASE i \notin DOMAIN rows \ Open(c)
    <3>1. PICK d \in Matches(c, x) : rows'[i] = Suggestion(c, d, x)
        BY <1>1, <2>2, RefreshRows
    <3>2. /\ rows'[i].pair = <<c, d>> /\ rows'[i].status = "suggested" /\ rows'[i].by = Nobody
        BY <3>1 DEF Suggestion
    <3>3. ASSUME <<c, d>> \in DOMAIN decisions PROVE FALSE
      <4>1. <<c, d>> \in DOMAIN decisions \ lostPairs
          BY <1>2, <3>2, <3>3
      <4>2. PICK j \in DOMAIN rows : rows[j].pair = <<c, d>>
          BY <4>1 DEF DecisionsInv
      <4>3. /\ decisions[<<c, d>>] = [status |-> rows[j].status, by |-> rows[j].by]
            /\ decisions[<<c, d>>].status \in Verdicts
          BY <4>1, <4>2 DEF RowsTellDecisions, DecisionsInv
      <4>4. rows[j].status # "suggested"
          BY <4>3 DEF Verdicts
      <4>5. j \in Of(c) \ Open(c) /\ rows[j].pair[2] = d
          BY <4>2, <4>4 DEF Of, Open
      <4>6. d \in Reviewed(c)
          BY <4>5 DEF Reviewed
      <4> QED BY <4>6, MatchesFacts
    <3> QED BY <3>2, <3>3
  <2> QED BY <2>1, <2>2
<1>3. ASSUME NEW d \in DOMAIN locations' \ lostPlaces', locations'[d].status = "confirmed"
      PROVE  /\ d \in DOMAIN confirmed
             /\ confirmed[d] = [text |-> locations'[d].text, by |-> locations'[d].by]
  <2>1. CASE d # c
      BY <1>c, <1>1, <1>3, <2>1 DEF RowsTellDecisions
  <2>2. CASE d = c
    <3>1. c \in DOMAIN locations /\ locations[c].text = x.place
        BY <1>c, <1>3, <2>2 DEF Synced
    <3>2. locations'[c] = locations[c] /\ c \notin lostPlaces
        BY <1>c, <1>1, <1>3, <2>2, <3>1 DEF Synced
    <3> QED BY <1>3, <2>2, <3>1, <3>2 DEF RowsTellDecisions
  <2> QED BY <2>1, <2>2
<1> QED BY <1>1, <1>2, <1>3 DEF RowsTellDecisions

\* A triage preserves the whole invariant.
LEMMA ProcessIInv ==
    ASSUME IInv, NEW c \in Complaints, NEW x \in Outcomes[c], Process(c, x)
    PROVE  IInv'
BY ProcessType, ProcessLocations, ProcessSuggestions, ProcessMatches, ProcessDecisions DEF IInv

-----------------------------------------------------------------------------
(* Officers' requests.                                                     *)

\* A step that only moves requests leaves the rest of the invariant alone.
LEMMA QuietIInv ==
    ASSUME IInv, UNCHANGED <<tables, history>>, RequestsInv'
    PROVE  IInv'
<1>1. UNCHANGED <<triage, locations, rows, scored, decisions, confirmed, lostPairs, lostPlaces>>
    BY DEF tables, history
<1>2. TypeInv'
    BY <1>1 DEF IInv, TypeInv, TriageInv, LocationsInv, RowsInv, DecisionsInv
<1>3. LocationsFollowTriage'
    BY <1>1 DEF IInv, LocationsFollowTriage
<1>4. \A c : Of(c)' = Of(c) /\ Open(c)' = Open(c)
    BY <1>1 DEF Of, Open
<1>5. SuggestionsCurrent'
    BY <1>1, <1>4 DEF IInv, SuggestionsCurrent
<1>6. \A c, d : Noticed(c, d)' <=> Noticed(c, d)
    BY <1>1, <1>4 DEF Noticed
<1>7. NoMatchMissed'
    BY <1>1, <1>6 DEF IInv, NoMatchMissed
<1>8. RowsTellDecisions'
    BY <1>1 DEF IInv, RowsTellDecisions
<1> QED BY <1>2, <1>3, <1>5, <1>7, <1>8 DEF IInv

\* One request changes, to something well-formed.
LEMMA RequestMoves ==
    ASSUME IInv, UNCHANGED <<tables, history>>, NEW q \in Requests, NEW r,
           requests' = [requests EXCEPT ![q] = r], RequestOK(r)
    PROVE  IInv'
<1>1. \A s : RequestOK(s)' <=> RequestOK(s)
    BY DEF RequestOK, PlaceRequestOK, tables
<1>2. RequestsInv'
    BY <1>1 DEF IInv, TypeInv, RequestsInv
<1> QED BY <1>2, QuietIInv

\* Reading a candidate.
LEMMA ReadCandidateIInv ==
    ASSUME IInv, NEW q \in Requests, NEW o \in Officers, NEW i \in DOMAIN rows,
           NEW v \in Verdicts, ReadCandidate(q, o, i, v)
    PROVE  IInv'
<1> DEFINE r == [op |-> "decide", id |-> i, seen |-> rows[i], status |-> v, by |-> o]
<1>1. rows[i] \in RowType /\ i \in Int
    BY SizesAssumption DEF SizesAssumption, IInv, TypeInv, RowsInv
<1>2. r \in PairRequests
    BY <1>1 DEF PairRequests
<1>3. requests' = [requests EXCEPT ![q] = r] /\ UNCHANGED <<tables, history>>
    BY DEF ReadCandidate
<1> HIDE DEF r
<1>4. RequestOK(r)
    BY <1>2 DEF RequestOK
<1> QED BY <1>3, <1>4, RequestMoves

\* Reading a location review, or making one from the complaint.
LEMMA ReadLocationIInv ==
    ASSUME IInv, NEW q \in Requests, NEW o \in Officers, NEW c \in DOMAIN triage,
           ReadLocation(q, o, c)
    PROVE  IInv'
<1> DEFINE fresh == c \notin DOMAIN locations
           seen == IF fresh THEN Synced(c, triage[c].place) ELSE locations[c]
           r == [op |-> IF fresh THEN "insert" ELSE "confirm", complaint |-> c,
                 seen |-> seen, status |-> "confirmed", by |-> o]
<1>1. /\ seen.text # NoPlace
      /\ requests' = [requests EXCEPT ![q] = r]
      /\ UNCHANGED <<tables, history>>
    BY DEF ReadLocation
<1>2. c \in Complaints /\ triage[c] \in Outcomes[c]
    BY DEF IInv, TypeInv, TriageInv
<1>3. seen \in LocationType /\ seen.text = triage[c].place
  <2>1. CASE fresh
    <3>1. triage[c].place \in Places
        BY <1>2 DEF Places
    <3> QED BY <2>1, <3>1 DEF Synced, LocationType
  <2>2. CASE ~fresh
      BY <2>2 DEF IInv, TypeInv, LocationsInv, LocationsFollowTriage
  <2> QED BY <2>1, <2>2
<1> HIDE DEF seen
<1>4. r \in PlaceRequests
    BY <1>2, <1>3 DEF PlaceRequests
<1>5. PlaceRequestOK(r)
    BY <1>1, <1>2, <1>3 DEF PlaceRequestOK
<1> HIDE DEF r
<1>6. RequestOK(r)
    BY <1>4, <1>5 DEF RequestOK
<1> QED BY <1>1, <1>6, RequestMoves

\* A request that ends without an effect.
LEMMA FailIInv ==
    ASSUME IInv, NEW q \in Requests, Fail(q)
    PROVE  IInv'
<1>1. requests' = [requests EXCEPT ![q] = Done] /\ UNCHANGED <<tables, history>>
    BY DEF Fail
<1>2. RequestOK(Done)
    BY DEF RequestOK
<1> QED BY <1>1, <1>2, RequestMoves

\* What is known of a request that commits a decision or a confirmation.
LEMMA CommitTypes ==
    ASSUME IInv, NEW q \in Requests
    PROVE  /\ WriteCandidate(q) => requests[q] \in PairRequests
           /\ WriteLocation(q) => requests[q] \in PlaceRequests /\ PlaceRequestOK(requests[q])
<1>1. \/ requests[q] \in {New, Done} \cup PairRequests
      \/ requests[q] \in PlaceRequests /\ PlaceRequestOK(requests[q])
    BY DEF IInv, TypeInv, RequestsInv, RequestOK
<1>2. New.op = "new" /\ Done.op = "done"
    BY DEF New, Done
<1>3. \A r \in PairRequests : r.op = "decide"
    BY DEF PairRequests
<1>4. \A r \in PlaceRequests : r.op \in {"insert", "confirm"}
    BY DEF PlaceRequests
<1>5. WriteCandidate(q) => requests[q].op = "decide"
    BY DEF WriteCandidate
<1>6. WriteLocation(q) => requests[q].op \in {"insert", "confirm"}
    BY DEF WriteLocation
<1> QED BY <1>1, <1>2, <1>3, <1>4, <1>5, <1>6

\* A decision changes no row but one, and of that neither pair nor triage.
LEMMA DecidedRows ==
    ASSUME IInv, NEW q \in Requests, WriteCandidate(q)
    PROVE  /\ requests[q].id \in DOMAIN rows
           /\ DOMAIN rows' = DOMAIN rows
           /\ \A i \in DOMAIN rows : i # requests[q].id => rows'[i] = rows[i]
           /\ LET old == rows[requests[q].id]
                  new == rows'[requests[q].id]
              IN  /\ old \in RowType /\ new \in RowType
                  /\ new.pair = old.pair /\ new.on = old.on
                  /\ new.status = IF requests[q].status = requests[q].seen.status
                                  THEN old.status ELSE requests[q].status
                  /\ new.by = IF requests[q].by = requests[q].seen.by
                              THEN old.by ELSE requests[q].by
<1>1. PICK r : r = requests[q]
    OBVIOUS
<1>2. r \in PairRequests
    BY <1>1, CommitTypes
<1>3. r.id \in DOMAIN rows /\ rows' = [rows EXCEPT ![r.id] = Updated(@, r)]
    BY <1>1 DEF WriteCandidate
<1>4. rows[r.id] \in RowType
    BY <1>3 DEF IInv, TypeInv, RowsInv
<1>5. r.status \in Verdicts /\ r.by \in Officers
    BY <1>2 DEF PairRequests
<1>6. /\ Updated(rows[r.id], r) \in RowType
      /\ Updated(rows[r.id], r).pair = rows[r.id].pair
      /\ Updated(rows[r.id], r).on = rows[r.id].on
      /\ Updated(rows[r.id], r).status =
            IF r.status = r.seen.status THEN rows[r.id].status ELSE r.status
      /\ Updated(rows[r.id], r).by = IF r.by = r.seen.by THEN rows[r.id].by ELSE r.by
    BY <1>4, <1>5 DEF Updated, RowType
<1> QED BY <1>1, <1>3, <1>4, <1>6

\* The columns a decision writes are well-formed.
LEMMA DecideType ==
    ASSUME IInv, NEW q \in Requests, WriteCandidate(q)
    PROVE  TypeInv'
<1> USE DEF IInv, TypeInv
<1>1. PICK r : r = requests[q]
    OBVIOUS
<1>2. r \in PairRequests
    BY <1>1, CommitTypes
<1>3. /\ decisions' = Put(decisions, r.seen.pair, [status |-> r.status, by |-> r.by])
      /\ lostPairs' = IF rows[r.id] = r.seen THEN lostPairs
                      ELSE lostPairs \cup {r.seen.pair, rows[r.id].pair}
      /\ requests' = [requests EXCEPT ![q] = Done]
      /\ UNCHANGED <<triage, locations, scored, confirmed, lostPlaces>>
    BY <1>1 DEF WriteCandidate
<1>4. /\ r.id \in DOMAIN rows
      /\ DOMAIN rows' = DOMAIN rows
      /\ \A i \in DOMAIN rows : i # r.id => rows'[i] = rows[i]
      /\ rows'[r.id] \in RowType /\ rows'[r.id].pair = rows[r.id].pair
    BY <1>1, DecidedRows
<1>5. TriageInv' /\ LocationsInv'
    BY <1>3 DEF TriageInv, LocationsInv
<1>6. RowsInv'
    BY <1>4 DEF RowsInv
<1>7. RequestsInv'
  <2>1. \A s : RequestOK(s)' <=> RequestOK(s)
      BY <1>3 DEF RequestOK, PlaceRequestOK
  <2>2. RequestOK(Done)
      BY DEF RequestOK
  <2> QED BY <1>3, <2>1, <2>2 DEF RequestsInv
<1>8. DecisionsInv'
  <2>1. [status |-> r.status, by |-> r.by] \in [status : Verdicts, by : Officers]
      BY <1>2 DEF PairRequests
  <2>2. \A p \in DOMAIN decisions' : decisions'[p] \in [status : Verdicts, by : Officers]
      BY <1>3, <2>1 DEF Put, DecisionsInv
  <2>3. ASSUME NEW p \in DOMAIN decisions' \ lostPairs'
        PROVE  \E i \in DOMAIN rows' : rows'[i].pair = p
    <3>1. CASE p = r.seen.pair
      <4>1. rows[r.id].pair = p
          BY <1>3, <2>3, <3>1
      <4> QED BY <1>4, <4>1
    <3>2. CASE p # r.seen.pair
      <4>1. p \in DOMAIN decisions \ lostPairs
          BY <1>3, <2>3, <3>2 DEF Put
      <4>2. PICK i \in DOMAIN rows : rows[i].pair = p
          BY <4>1 DEF DecisionsInv
      <4> QED BY <1>4, <4>2
    <3> QED BY <3>1, <3>2
  <2> QED BY <2>2, <2>3 DEF DecisionsInv
<1> QED BY <1>5, <1>6, <1>7, <1>8

\* A decision closes a suggestion, takes none off a list and reopens none.
LEMMA DecideSuggestions ==
    ASSUME IInv, NEW q \in Requests, WriteCandidate(q)
    PROVE  SuggestionsCurrent' /\ NoMatchMissed'
<1> USE DEF IInv, TypeInv
<1>1. PICK r : r = requests[q]
    OBVIOUS
<1>2. r \in PairRequests
    BY <1>1, CommitTypes
<1>3. UNCHANGED <<triage, scored>>
    BY DEF WriteCandidate
<1>4. /\ r.id \in DOMAIN rows
      /\ DOMAIN rows' = DOMAIN rows
      /\ \A i \in DOMAIN rows : i # r.id => rows'[i] = rows[i]
      /\ rows'[r.id].pair = rows[r.id].pair /\ rows'[r.id].on = rows[r.id].on
      /\ rows'[r.id].status = "suggested" => rows[r.id].status = "suggested"
  <2>1. r.status # "suggested"
      BY <1>2 DEF PairRequests, Verdicts
  <2> QED BY <1>1, <2>1, DecidedRows
<1>5. \A i \in DOMAIN rows : /\ rows'[i].pair = rows[i].pair
                             /\ rows'[i].on = rows[i].on
                             /\ rows'[i].status = "suggested" => rows[i].status = "suggested"
    BY <1>4
<1>6. \A c : Of(c)' = Of(c)
    BY <1>4, <1>5 DEF Of
<1>7. ASSUME NEW c PROVE Open(c)' \subseteq Open(c)
    BY <1>4, <1>5, <1>6 DEF Open, Of
<1>8. SuggestionsCurrent'
  <2>1. \A i, j \in DOMAIN rows' : rows'[i].pair = rows'[j].pair => i = j
      BY <1>4, <1>5 DEF SuggestionsCurrent
  <2>2. ASSUME NEW c \in DOMAIN triage
        PROVE  /\ Cardinality(Open(c)') <= MaxCandidates
               /\ \A i \in Open(c)' : rows'[i].on = triage[c]
    <3>1. IsFiniteSet(Open(c))
      <4>1. Open(c) \in SUBSET (1..MaxRowId)
          BY DEF Open, Of, RowsInv
      <4> QED BY <4>1, FS_Interval, FS_Subset, SizesAssumption DEF SizesAssumption
    <3>2. Open(c)' \in SUBSET Open(c)
        BY <1>7
    <3>3. Cardinality(Open(c)') <= Cardinality(Open(c)) /\ IsFiniteSet(Open(c)')
        BY <3>1, <3>2, FS_Subset
    <3>4. /\ Cardinality(Open(c)') \in Nat /\ Cardinality(Open(c)) \in Nat
          /\ MaxCandidates \in Nat
        BY <3>1, <3>3, FS_CardinalityType, SizesAssumption DEF SizesAssumption
    <3>5. Cardinality(Open(c)) <= MaxCandidates /\ \A i \in Open(c) : rows[i].on = triage[c]
        BY DEF SuggestionsCurrent
    <3>6. Cardinality(Open(c)') <= MaxCandidates
        BY <3>3, <3>4, <3>5
    <3>7. ASSUME NEW i \in Open(c)' PROVE rows'[i].on = triage[c]
      <4>1. i \in Open(c) /\ i \in DOMAIN rows
          BY <3>2 DEF Open, Of
      <4> QED BY <1>5, <3>5, <4>1
    <3> QED BY <3>6, <3>7
  <2> QED BY <1>3, <2>1, <2>2 DEF SuggestionsCurrent
<1>9. ASSUME NEW a, NEW b PROVE Noticed(a, b)' <=> Noticed(a, b)
  <2>1. \A i \in Of(a) : rows'[i].pair = rows[i].pair
      BY <1>5 DEF Of
  <2>2. {i \in Of(a)' : Score(a, rows'[i].pair[2]) >= Score(a, b)}
            = {i \in Of(a) : Score(a, rows[i].pair[2]) >= Score(a, b)}
      BY <1>6, <2>1
  <2> QED BY <1>6, <2>1, <2>2 DEF Noticed
<1>10. NoMatchMissed'
    BY <1>3, <1>9 DEF NoMatchMissed
<1> QED BY <1>8, <1>10

\* The row shows the decision, or the pair is one of those that were missed.
LEMMA DecideDecisions ==
    ASSUME IInv, NEW q \in Requests, WriteCandidate(q)
    PROVE  RowsTellDecisions'
<1> USE DEF IInv, TypeInv
<1>1. PICK r : r = requests[q]
    OBVIOUS
<1>2. /\ decisions' = Put(decisions, r.seen.pair, [status |-> r.status, by |-> r.by])
      /\ lostPairs' = IF rows[r.id] = r.seen THEN lostPairs
                      ELSE lostPairs \cup {r.seen.pair, rows[r.id].pair}
      /\ UNCHANGED <<locations, confirmed, lostPlaces>>
    BY <1>1 DEF WriteCandidate
<1>3. /\ r.id \in DOMAIN rows
      /\ DOMAIN rows' = DOMAIN rows
      /\ \A i \in DOMAIN rows : i # r.id => rows'[i] = rows[i]
      /\ rows'[r.id].pair = rows[r.id].pair
      /\ rows'[r.id].status = IF r.status = r.seen.status THEN rows[r.id].status ELSE r.status
      /\ rows'[r.id].by = IF r.by = r.seen.by THEN rows[r.id].by ELSE r.by
    BY <1>1, DecidedRows
<1>4. ASSUME NEW i \in DOMAIN rows', rows'[i].pair \notin lostPairs'
      PROVE  IF rows'[i].pair \in DOMAIN decisions'
             THEN decisions'[rows'[i].pair] = [status |-> rows'[i].status, by |-> rows'[i].by]
             ELSE rows'[i].status = "suggested" /\ rows'[i].by = Nobody
  <2>1. CASE i = r.id
    <3>1. rows[r.id] = r.seen
        BY <1>2, <1>3, <1>4, <2>1
    <3>2. /\ rows'[i].pair = r.seen.pair
          /\ rows'[i].status = r.status /\ rows'[i].by = r.by
        BY <1>3, <2>1, <3>1
    <3>3. /\ r.seen.pair \in DOMAIN decisions'
          /\ decisions'[r.seen.pair] = [status |-> r.status, by |-> r.by]
        BY <1>2 DEF Put
    <3> QED BY <3>2, <3>3
  <2>2. CASE i # r.id
    <3>1. i \in DOMAIN rows /\ rows'[i] = rows[i]
        BY <1>3, <2>2
    <3>2. rows[i].pair \notin lostPairs
        BY <1>2, <1>4, <3>1
    <3>3. rows[i].pair # r.seen.pair
      <4>1. CASE rows[r.id] = r.seen
          BY <1>3, <2>2, <3>1, <4>1 DEF SuggestionsCurrent
      <4>2. CASE rows[r.id] # r.seen
          BY <1>2, <1>4, <3>1, <4>2
      <4> QED BY <4>1, <4>2
    <3>4. /\ rows[i].pair \in DOMAIN decisions' <=> rows[i].pair \in DOMAIN decisions
          /\ rows[i].pair \in DOMAIN decisions =>
                decisions'[rows[i].pair] = decisions[rows[i].pair]
        BY <1>2, <3>3 DEF Put
    <3> QED BY <3>1, <3>2, <3>4 DEF RowsTellDecisions
  <2> QED BY <2>1, <2>2
<1>5. \A c \in DOMAIN locations' \ lostPlaces' :
         locations'[c].status = "confirmed" =>
            /\ c \in DOMAIN confirmed'
            /\ confirmed'[c] = [text |-> locations'[c].text, by |-> locations'[c].by]
    BY <1>2 DEF RowsTellDecisions
<1> QED BY <1>4, <1>5 DEF RowsTellDecisions

\* A decision preserves the whole invariant.
LEMMA DecideIInv ==
    ASSUME IInv, NEW q \in Requests, WriteCandidate(q)
    PROVE  IInv'
<1>1. LocationsFollowTriage'
    BY DEF IInv, LocationsFollowTriage, WriteCandidate
<1> QED BY <1>1, DecideType, DecideSuggestions, DecideDecisions DEF IInv

\* A confirmation is of the place the complaint still has, and ends its request.
LEMMA ConfirmIInv ==
    ASSUME IInv, NEW q \in Requests, WriteLocation(q)
    PROVE  IInv'
<1> USE DEF IInv, TypeInv
<1>1. PICK r : r = requests[q]
    OBVIOUS
<1>2. PICK c : c = r.complaint
    OBVIOUS
<1>3. r \in PlaceRequests /\ PlaceRequestOK(r)
    BY <1>1, CommitTypes
<1>4. /\ \/ /\ r.op = "insert" /\ c \notin DOMAIN locations
            /\ locations' = Put(locations, c, [r.seen EXCEPT !.status = r.status, !.by = r.by])
            /\ UNCHANGED lostPlaces
         \/ /\ r.op = "confirm"
            /\ locations' = [locations EXCEPT ![c] = Updated(@, r)]
            /\ lostPlaces' = IF locations[c] = r.seen THEN lostPlaces ELSE lostPlaces \cup {c}
      /\ confirmed' = Put(confirmed, c, [text |-> r.seen.text, by |-> r.by])
      /\ requests' = [requests EXCEPT ![q] = Done]
      /\ UNCHANGED <<triage, rows, scored, decisions, lostPairs>>
    BY <1>1, <1>2 DEF WriteLocation
<1>5. /\ r.seen \in LocationType /\ r.status = "confirmed" /\ r.by \in Officers
      /\ c \in DOMAIN triage /\ r.seen.text # NoPlace
      /\ \E x \in Outcomes[c] : r.seen.text = x.place
      /\ r.op = "confirm" => c \in DOMAIN locations
      /\ c \notin DOMAIN locations => r.seen.text = triage[c].place
    BY <1>2, <1>3 DEF PlaceRequests, PlaceRequestOK
<1>6. triage[c].place # NoPlace
    BY <1>5, OutcomesAssumption DEF OutcomesAssumption, TriageInv
<1>7. /\ DOMAIN locations' = DOMAIN locations \cup {c}
      /\ \A d \in DOMAIN locations : d # c => locations'[d] = locations[d]
      /\ locations'[c] \in LocationType
      /\ locations'[c].text = triage[c].place
      /\ locations'[c].status = "confirmed" \/ c \in lostPlaces'
      /\ locations'[c].status # "missing"
      /\ locations'[c] = [text |-> r.seen.text, status |-> "confirmed", by |-> r.by]
            \/ c \in lostPlaces'
  <2>1. CASE r.op = "insert"
    <3>1. PICK new : new = [r.seen EXCEPT !.status = r.status, !.by = r.by]
        OBVIOUS
    <3>2. /\ new \in LocationType /\ new.text = r.seen.text
          /\ new = [text |-> r.seen.text, status |-> "confirmed", by |-> r.by]
        BY <1>5, <3>1 DEF LocationType
    <3>3. locations' = Put(locations, c, new) /\ c \notin DOMAIN locations
        BY <1>4, <2>1, <3>1
    <3> QED BY <1>5, <3>2, <3>3 DEF Put
  <2>2. CASE r.op = "confirm"
    <3>1. PICK old, new : old = locations[c] /\ new = Updated(old, r)
        OBVIOUS
    <3>2. /\ c \in DOMAIN locations /\ locations' = [locations EXCEPT ![c] = new]
          /\ lostPlaces' = IF old = r.seen THEN lostPlaces ELSE lostPlaces \cup {c}
        BY <1>4, <1>5, <2>2, <3>1
    <3>3. /\ old \in LocationType /\ old.text = triage[c].place
          /\ old.status # "missing"
        BY <1>6, <3>1, <3>2 DEF LocationsInv, LocationsFollowTriage
    <3>4. /\ new \in LocationType /\ new.text = old.text /\ new.status # "missing"
          /\ old = r.seen =>
                new = [text |-> r.seen.text, status |-> "confirmed", by |-> r.by]
        BY <1>5, <3>1, <3>3 DEF Updated, LocationType
    <3> QED BY <3>2, <3>3, <3>4
  <2> QED BY <1>4, <2>1, <2>2
<1>8. TypeInv'
  <2>1. TriageInv' /\ RowsInv'
      BY <1>4 DEF TriageInv, RowsInv
  <2>2. LocationsInv'
      BY <1>4, <1>5, <1>7 DEF LocationsInv
  <2>3. RequestsInv'
    <3>1. \A s : RequestOK(s) => RequestOK(s)'
        BY <1>4, <1>7 DEF RequestOK, PlaceRequestOK
    <3>2. RequestOK(Done)'
        BY DEF RequestOK
    <3> QED BY <1>4, <3>1, <3>2 DEF RequestsInv
  <2>4. DecisionsInv'
      BY <1>4 DEF DecisionsInv
  <2> QED BY <2>1, <2>2, <2>3, <2>4
<1>9. LocationsFollowTriage'
    BY <1>4, <1>6, <1>7 DEF LocationsFollowTriage
<1>10. \A d : Of(d)' = Of(d) /\ Open(d)' = Open(d)
    BY <1>4 DEF Of, Open
<1>11. SuggestionsCurrent'
    BY <1>4, <1>10 DEF SuggestionsCurrent
<1>12. \A a, b : Noticed(a, b)' <=> Noticed(a, b)
    BY <1>4, <1>10 DEF Noticed
<1>13. NoMatchMissed'
    BY <1>4, <1>12 DEF NoMatchMissed
<1>14. RowsTellDecisions'
  <2>1. ASSUME NEW d \in DOMAIN locations' \ lostPlaces', locations'[d].status = "confirmed"
        PROVE  /\ d \in DOMAIN confirmed'
               /\ confirmed'[d] = [text |-> locations'[d].text, by |-> locations'[d].by]
    <3>1. CASE d = c
      <4>1. locations'[c] = [text |-> r.seen.text, status |-> "confirmed", by |-> r.by]
          BY <1>7, <2>1, <3>1
      <4> QED BY <1>4, <3>1, <4>1 DEF Put
    <3>2. CASE d # c
      <4>1. d \in DOMAIN locations \ lostPlaces /\ locations'[d] = locations[d]
          BY <1>4, <1>7, <2>1, <3>2
      <4> QED BY <1>4, <2>1, <3>2, <4>1 DEF Put, RowsTellDecisions
    <3> QED BY <3>1, <3>2
  <2>2. \A i \in DOMAIN rows' :
           LET p == rows'[i].pair IN
           p \notin lostPairs' =>
              IF p \in DOMAIN decisions'
              THEN decisions'[p] = [status |-> rows'[i].status, by |-> rows'[i].by]
              ELSE rows'[i].status = "suggested" /\ rows'[i].by = Nobody
      BY <1>4 DEF RowsTellDecisions
  <2> QED BY <2>1, <2>2 DEF RowsTellDecisions
<1> QED BY <1>8, <1>9, <1>11, <1>13, <1>14

-----------------------------------------------------------------------------
(* The theorems.                                                           *)

\* Before the first triage nothing is suggested, decided or confirmed.
LEMMA InitIInv ==
    ASSUME Init
    PROVE  IInv
<1>1. /\ DOMAIN triage = Legacy /\ \A c \in Legacy : triage[c] \in Outcomes[c]
      /\ locations = Nothing /\ rows = Nothing
      /\ requests = [q \in Requests |-> New]
      /\ scored = {} /\ decisions = Nothing
    BY DEF Init
<1>2. DOMAIN locations = {} /\ DOMAIN rows = {} /\ DOMAIN decisions = {}
    BY <1>1 DEF Nothing
<1>3. TypeInv
    BY <1>1, <1>2, SizesAssumption
       DEF SizesAssumption, TypeInv, TriageInv, LocationsInv, RowsInv, RequestsInv,
           RequestOK, DecisionsInv
<1>4. LocationsFollowTriage
    BY <1>2 DEF LocationsFollowTriage
<1>5. SuggestionsCurrent
  <2>1. \A c : Open(c) = {}
      BY <1>2 DEF Open, Of
  <2>2. Cardinality({}) <= MaxCandidates
      BY FS_EmptySet, SizesAssumption DEF SizesAssumption
  <2> QED BY <1>2, <2>1, <2>2 DEF SuggestionsCurrent
<1>6. NoMatchMissed
    BY <1>1 DEF NoMatchMissed
<1>7. RowsTellDecisions
    BY <1>2 DEF RowsTellDecisions
<1> QED BY <1>3, <1>4, <1>5, <1>6, <1>7 DEF IInv

\* Every step keeps the invariant.
LEMMA NextIInv ==
    ASSUME IInv, [Next]_vars
    PROVE  IInv'
<1>1. CASE \E c \in Complaints : \E x \in Outcomes[c] : Process(c, x)
    BY <1>1, ProcessIInv
<1>2. CASE \E q \in Requests, o \in Officers :
              \E i \in DOMAIN rows, v \in Verdicts : ReadCandidate(q, o, i, v)
    BY <1>2, ReadCandidateIInv
<1>3. CASE \E q \in Requests, o \in Officers : \E c \in DOMAIN triage : ReadLocation(q, o, c)
    BY <1>3, ReadLocationIInv
<1>4. CASE \E q \in Requests : WriteCandidate(q)
    BY <1>4, DecideIInv
<1>5. CASE \E q \in Requests : WriteLocation(q)
    BY <1>5, ConfirmIInv
<1>6. CASE \E q \in Requests : Fail(q)
    BY <1>6, FailIInv
<1>7. CASE UNCHANGED vars
  <2>1. UNCHANGED <<tables, history>> /\ UNCHANGED requests
      BY <1>7 DEF vars, tables, history
  <2>2. RequestsInv'
      BY <2>1 DEF IInv, TypeInv, RequestsInv, RequestOK, PlaceRequestOK, tables
  <2> QED BY <2>1, <2>2, QuietIInv
<1> QED BY <1>1, <1>2, <1>3, <1>4, <1>5, <1>6, <1>7 DEF Next

\* The inductive invariant holds throughout.
THEOREM Inductive == Spec => []IInv
<1>1. Init => IInv
    BY InitIInv
<1>2. IInv /\ [Next]_vars => IInv'
    BY NextIInv
<1> QED BY <1>1, <1>2, PTL DEF Spec

\* The tables keep their types and foreign keys: a review only of a filed complaint,
\* a candidate only between two different complaints.
THEOREM TypeCorrect == Spec => []TypeOK
<1>1. IInv => TypeOK
    BY DEF IInv, TypeInv, TriageInv, LocationsInv, RowsInv, LocationType, RowType, TypeOK
<1> QED BY <1>1, Inductive, PTL

\* However confirmations and triages overlap, the location review is of the place
\* the latest triage found (sync_location_review, confirm_location).
THEOREM LocationsFollow == Spec => []LocationsFollowTriage
<1>1. IInv => LocationsFollowTriage
    BY DEF IInv
<1> QED BY <1>1, Inductive, PTL

\* Suggestions are unique, few, and of the latest triage (refresh_duplicate_candidates).
THEOREM Suggestions == Spec => []SuggestionsCurrent
<1>1. IInv => SuggestionsCurrent
    BY DEF IInv
<1> QED BY <1>1, Inductive, PTL

\* No eligible pair goes unnoticed on both its lists, for any number of complaints.
THEOREM NoMatch == Spec => []NoMatchMissed
<1>1. IInv => NoMatchMissed
    BY DEF IInv
<1> QED BY <1>1, Inductive, PTL

\* Rows agree with the audit trail except where an UPDATE met another row
\* (decide_duplicate_candidate, confirm_location).
THEOREM RowsTell == Spec => []RowsTellDecisions
<1>1. IInv => RowsTellDecisions
    BY DEF IInv
<1> QED BY <1>1, Inductive, PTL

-----------------------------------------------------------------------------
(* The refinement of PairReview.                                           *)

\* The verdict on a pair with a row is the row's status.
LEMMA VerdictOfRow ==
    ASSUME SuggestionsCurrent, NEW i \in DOMAIN rows, rows[i].pair \in Pairs
    PROVE  Verdict[rows[i].pair] = rows[i].status
<1>1. PICK p \in Pairs : p = rows[i].pair
    OBVIOUS
<1>2. \A j \in DOMAIN rows : rows[j].pair = p => j = i
    BY <1>1 DEF SuggestionsCurrent
<1>3. (CHOOSE j \in DOMAIN rows : rows[j].pair = p) = i
    BY <1>1, <1>2
<1> QED BY <1>1, <1>3 DEF Verdict

\* A pair without a row has no verdict.
LEMMA VerdictOfNone ==
    ASSUME NEW p \in Pairs, \A i \in DOMAIN rows : rows[i].pair # p
    PROVE  Verdict[p] = "none"
BY DEF Verdict

\* The same two facts of the state a step leads to.
LEMMA VerdictsAfter ==
    ASSUME IInv'
    PROVE  /\ DOMAIN Verdict' = Pairs
           /\ \A i \in DOMAIN rows' : /\ rows'[i].pair \in Pairs
                                      /\ Verdict'[rows'[i].pair] = rows'[i].status
                                      /\ rows'[i].status \in {"suggested"} \cup Verdicts
           /\ \A p \in Pairs : (\A i \in DOMAIN rows' : rows'[i].pair # p) => Verdict'[p] = "none"
<1>1. /\ SuggestionsCurrent'
      /\ \A i \in DOMAIN rows' : rows'[i] \in RowType
    BY DEF IInv, TypeInv, RowsInv
<1>2. \A i \in DOMAIN rows' : /\ rows'[i].pair \in Pairs
                              /\ rows'[i].status \in {"suggested"} \cup Verdicts
    BY <1>1 DEF RowType
<1>3. ASSUME NEW i \in DOMAIN rows' PROVE Verdict'[rows'[i].pair] = rows'[i].status
  <2>1. PICK p \in Pairs : p = rows'[i].pair
      BY <1>2
  <2>2. \A j \in DOMAIN rows' : rows'[j].pair = p => j = i
      BY <1>1, <2>1 DEF SuggestionsCurrent
  <2>3. (CHOOSE j \in DOMAIN rows' : rows'[j].pair = p) = i
      BY <2>1, <2>2
  <2> QED BY <2>1, <2>3 DEF Verdict
<1>4. \A p \in Pairs : (\A i \in DOMAIN rows' : rows'[i].pair # p) => Verdict'[p] = "none"
    BY DEF Verdict
<1>5. DOMAIN Verdict' = Pairs
    BY DEF Verdict
<1> QED BY <1>2, <1>3, <1>4, <1>5

\* A triage only suggests and withdraws, for its own complaint.
LEMMA ProcessSuggests ==
    ASSUME IInv, IInv', NEW c \in Complaints, NEW x \in Outcomes[c], Process(c, x)
    PROVE  Review!Suggest(c)
<1>1. Refresh(c, x) /\ TypeInv /\ SuggestionsCurrent
    BY DEF Process, IInv
<1>2. /\ \A i \in DOMAIN rows \ Open(c) : i \in DOMAIN rows' /\ rows'[i] = rows[i]
      /\ \A i \in DOMAIN rows' :
            \/ i \in DOMAIN rows \ Open(c)
            \/ /\ i \notin DOMAIN rows \ Open(c)
               /\ \E d \in Matches(c, x) : rows'[i] = Suggestion(c, d, x)
    BY <1>1, RefreshRows
<1>3. /\ DOMAIN Verdict' = Pairs
      /\ \A i \in DOMAIN rows' : /\ rows'[i].pair \in Pairs
                                 /\ Verdict'[rows'[i].pair] = rows'[i].status
                                 /\ rows'[i].status \in {"suggested"} \cup Verdicts
      /\ \A p \in Pairs : (\A i \in DOMAIN rows' : rows'[i].pair # p) => Verdict'[p] = "none"
    BY VerdictsAfter
<1>4. \A i \in DOMAIN rows : rows[i].pair \in Pairs /\ rows[i].pair[1] # rows[i].pair[2]
    BY <1>1 DEF TypeInv, RowsInv, RowType
<1>5. \A i \in DOMAIN rows : Verdict[rows[i].pair] = rows[i].status
    BY <1>1, <1>4, VerdictOfRow
<1>6. ASSUME NEW p \in Pairs PROVE Verdict'[p] \in {"none", "suggested"} \cup Verdicts
    BY <1>3
<1>7. Verdict' = [p \in Pairs |-> Verdict'[p]]
    BY DEF Verdict
<1>8. Verdict' \in [Pairs -> {"none", "suggested"} \cup Verdicts]
    BY <1>6, <1>7
<1>9. ASSUME NEW p \in Pairs, Verdict'[p] # Verdict[p]
      PROVE  /\ p[1] = c /\ p[2] # c
             /\ {Verdict[p], Verdict'[p]} = {"none", "suggested"}
  <2>1. ASSUME NEW i \in DOMAIN rows \ Open(c), rows[i].pair = p PROVE FALSE
    <3>1. rows'[i] = rows[i] /\ i \in DOMAIN rows'
        BY <1>2
    <3>2. Verdict'[p] = rows[i].status /\ Verdict[p] = rows[i].status
        BY <1>3, <1>5, <2>1, <3>1
    <3> QED BY <1>9, <3>2
  <2>2. ASSUME NEW i \in DOMAIN rows', rows'[i].pair = p
        PROVE  p[1] = c /\ p[2] # c /\ Verdict'[p] = "suggested"
    <3>1. i \notin DOMAIN rows \ Open(c)
        BY <1>2, <2>1, <2>2
    <3>2. PICK d \in Matches(c, x) : rows'[i] = Suggestion(c, d, x)
        BY <1>2, <3>1
    <3>3. d # c
        BY <1>1, MatchesFacts
    <3>4. rows'[i].pair = <<c, d>> /\ rows'[i].status = "suggested"
        BY <3>2 DEF Suggestion
    <3> QED BY <1>3, <2>2, <3>3, <3>4
  <2>3. ASSUME NEW i \in DOMAIN rows, rows[i].pair = p
        PROVE  p[1] = c /\ p[2] # c /\ Verdict[p] = "suggested"
    <3>1. i \in Open(c)
        BY <2>1, <2>3
    <3>2. rows[i].status = "suggested" /\ p[1] = c
        BY <2>3, <3>1 DEF Open, Of
    <3> QED BY <1>4, <1>5, <2>3, <3>2
  <2>4. CASE \E i \in DOMAIN rows : rows[i].pair = p
    <3>1. \A j \in DOMAIN rows' : rows'[j].pair # p
        BY <1>9, <2>2, <2>3, <2>4
    <3>2. Verdict'[p] = "none"
        BY <1>3, <3>1
    <3> QED BY <2>3, <2>4, <3>2
  <2>5. CASE \A i \in DOMAIN rows : rows[i].pair # p
    <3>1. Verdict[p] = "none"
        BY <2>5, VerdictOfNone
    <3>2. \E j \in DOMAIN rows' : rows'[j].pair = p
        BY <1>3, <1>9, <3>1
    <3> QED BY <2>2, <3>1, <3>2
  <2> QED BY <2>4, <2>5
<1> QED BY <1>8, <1>9 DEF Review!Suggest, Review!Pairs, Pairs

\* A decision is one, on the pair of the row it meets, or changes no verdict.
LEMMA DecideDecides ==
    ASSUME IInv, IInv', NEW q \in Requests, WriteCandidate(q)
    PROVE  (\E p \in Review!Pairs : Review!Decide(p)) \/ Verdict' = Verdict
<1>1. PICK r : r = requests[q]
    OBVIOUS
<1>2. PICK p : p = rows[r.id].pair
    OBVIOUS
<1>3. r.status \in Verdicts
    BY <1>1, CommitTypes DEF PairRequests
<1>4. /\ r.id \in DOMAIN rows
      /\ DOMAIN rows' = DOMAIN rows
      /\ \A i \in DOMAIN rows : i # r.id => rows'[i] = rows[i]
      /\ rows'[r.id].pair = p
      /\ rows'[r.id].status = IF r.status = r.seen.status THEN rows[r.id].status ELSE r.status
    BY <1>1, <1>2, DecidedRows
<1>5. \A i \in DOMAIN rows : /\ rows[i].pair \in Pairs
                             /\ Verdict[rows[i].pair] = rows[i].status
                             /\ rows[i].status \in {"suggested"} \cup Verdicts
  <2>1. /\ SuggestionsCurrent
        /\ \A i \in DOMAIN rows : rows[i] \in RowType
      BY DEF IInv, TypeInv, RowsInv
  <2>2. \A i \in DOMAIN rows : rows[i].pair \in Pairs /\ rows[i].status \in {"suggested"} \cup Verdicts
      BY <2>1 DEF RowType
  <2> QED BY <2>1, <2>2, VerdictOfRow
<1>6. /\ \A i \in DOMAIN rows' : Verdict'[rows'[i].pair] = rows'[i].status
      /\ \A s \in Pairs : (\A i \in DOMAIN rows' : rows'[i].pair # s) => Verdict'[s] = "none"
    BY VerdictsAfter
<1>7. ASSUME NEW s \in Pairs, s # p PROVE Verdict'[s] = Verdict[s]
  <2>1. CASE \E i \in DOMAIN rows : rows[i].pair = s
    <3>1. PICK i \in DOMAIN rows : rows[i].pair = s
        BY <2>1
    <3>2. i # r.id
        BY <1>2, <1>7, <3>1
    <3> QED BY <1>4, <1>5, <1>6, <3>1, <3>2
  <2>2. CASE \A i \in DOMAIN rows : rows[i].pair # s
    <3>1. \A i \in DOMAIN rows' : rows'[i].pair # s
        BY <1>4, <1>7, <2>2
    <3> QED BY <1>6, <2>2, <3>1, VerdictOfNone
  <2> QED BY <2>1, <2>2
<1>8. Verdict'[p] = rows'[r.id].status /\ Verdict[p] = rows[r.id].status /\ p \in Pairs
    BY <1>2, <1>4, <1>5, <1>6
<1>9. /\ Verdict' = [s \in Pairs |-> Verdict'[s]]
      /\ Verdict = [s \in Pairs |-> Verdict[s]]
    BY DEF Verdict
<1>10. CASE r.status = r.seen.status
  <2>1. \A s \in Pairs : Verdict'[s] = Verdict[s]
      BY <1>4, <1>7, <1>8, <1>10
  <2> QED BY <1>9, <2>1
<1>11. CASE r.status # r.seen.status
  <2>1. Verdict'[p] = r.status
      BY <1>4, <1>8, <1>11
  <2>2. Verdict' = [Verdict EXCEPT ![p] = r.status]
      BY <1>7, <1>8, <1>9, <2>1
  <2>3. Verdict[p] # "none"
      BY <1>2, <1>4, <1>5, <1>8 DEF Verdicts
  <2>4. Review!Decide(p)
      BY <1>3, <2>2, <2>3 DEF Review!Decide
  <2> QED BY <1>8, <2>4 DEF Review!Pairs, Pairs
<1> QED BY <1>10, <1>11

\* Every step is a step of the promise, or changes no verdict.
LEMMA NextReviews ==
    ASSUME IInv, IInv', [Next]_vars
    PROVE  [Review!Next]_Verdict
<1>0. rows' = rows => Verdict' = Verdict
    BY DEF Verdict
<1>1. CASE \E c \in Complaints : \E x \in Outcomes[c] : Process(c, x)
    BY <1>1, ProcessSuggests DEF Review!Next
<1>2. CASE \E q \in Requests : WriteCandidate(q)
    BY <1>2, DecideDecides DEF Review!Next
<1>3. CASE \/ \E q \in Requests, o \in Officers :
                 \/ \E i \in DOMAIN rows, v \in Verdicts : ReadCandidate(q, o, i, v)
                 \/ \E c \in DOMAIN triage : ReadLocation(q, o, c)
           \/ \E q \in Requests : WriteLocation(q) \/ Fail(q)
           \/ UNCHANGED vars
  <2>1. rows' = rows
      BY <1>3 DEF ReadCandidate, ReadLocation, WriteLocation, Fail, tables, vars
  <2> QED BY <1>0, <2>1
<1> QED BY <1>1, <1>2, <1>3 DEF Next

\* The officers' decisions outlive every refresh, reused id and overlap of requests:
\* the code implements PairReview (refresh_duplicate_candidates, decide_duplicate_candidate).
THEOREM Refinement == Spec => ImplementsReview
<1>1. Init => Review!Init
  <2>1. ASSUME Init PROVE Verdict = [p \in Pairs |-> "none"]
    <3>1. DOMAIN rows = {}
        BY <2>1 DEF Init, Nothing
    <3> QED BY <3>1 DEF Verdict
  <2> QED BY <2>1 DEF Review!Init, Review!Pairs, Pairs
<1>2. IInv /\ IInv' /\ [Next]_vars => [Review!Next]_Verdict
    BY NextReviews
<1>3. Spec => []IInv
    BY Inductive
<1> QED BY <1>1, <1>2, <1>3, PTL DEF Spec, ImplementsReview, Review!Spec
=============================================================================
