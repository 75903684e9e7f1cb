---------------------- MODULE DepartmentCatalogProofs ----------------------
(***************************************************************************)
(* Proofs about DepartmentCatalog.  First what holds however starts        *)
(* overlap; then, for a single web process, what imports owe to being      *)
(* validated against the history they extend.                              *)
(***************************************************************************)
EXTENDS DepartmentCatalog, TLAPS

EventType == [file : Files, previous : Versions]

\* The invariant of any number of processes.
IInv == TypeOK /\ OneImportPerVersion /\ RoutesAreCurrent

\* A file's active departments are departments.
LEMMA ActiveDepartments == \A f \in Files : Active(f) \subseteq Departments
BY FilesAssumption DEF Active

\* Whatever row the projection is synced from, a row state comes out.
LEMMA SyncedRows ==
    ASSUME NEW f, NEW rows
    PROVE  [d \in Departments |-> Synced(f, d, rows[d])] \in [Departments -> RowStates]
BY DEF Synced, RowStates

\* The history is a sequence of imports of files.
LEMMA EventsTyped ==
    ASSUME TypeOK
    PROVE  /\ events \in Seq(EventType)
           /\ Len(events) \in Nat
           /\ DOMAIN events = 1..Len(events)
           /\ \A i \in 1..Len(events) : events[i] \in EventType /\ events[i].file \in Files
<1>1. events \in Seq(EventType)
    BY DEF TypeOK, EventType
<1>2. \A i \in 1..Len(events) : events[i] \in EventType
    BY <1>1
<1> QED BY <1>1, <1>2 DEF EventType

\* An import either changes no table or appends one event whose version is new.
LEMMA ImportSteps ==
    ASSUME IInv, NEW p \in Processes, Insert(p)
    PROVE  /\ procs[p].file \in Files
           /\ \/ UNCHANGED <<today, events, projection, complaints>>
              \/ /\ ~VersionTaken(procs[p].file.version)
                 /\ \E v \in Versions :
                       events' = Append(events, [file |-> procs[p].file, previous |-> v])
                 /\ complaints' = [c \in Complaints |-> Invalidated(c)]
                 /\ projection' = [d \in Departments |->
                                      Synced(procs[p].file, d, projection[d])]
                 /\ today' = today
<1> DEFINE f == procs[p].file
           n == procs[p].seen
<1>1. f \in Files /\ n \in Nat /\ n <= Len(events) /\ procs[p].pc = "read"
    BY DEF IInv, TypeOK, Insert
<1>2. (IF n = 0 THEN NoVersion ELSE events[n].file.version) \in Versions
  <2>1. CASE n = 0
    BY <2>1 DEF Versions
  <2>2. CASE n # 0
    <3>1. n \in 1..Len(events)
      BY <1>1, <2>2, EventsTyped DEF IInv
    <3> QED BY <2>2, <3>1, EventsTyped DEF IInv, Versions
  <2> QED BY <2>1, <2>2
<1>3. CASE VersionTaken(f.version)
    BY <1>1, <1>3 DEF Insert
<1>4. CASE ~VersionTaken(f.version)
  <2>1. \E v \in Versions : events' = Append(events, [file |-> f, previous |-> v])
    BY <1>2, <1>4, Zenon DEF Insert
  <2>2. /\ complaints' = [c \in Complaints |-> Invalidated(c)]
        /\ projection' = [d \in Departments |-> Synced(f, d, projection[d])]
        /\ today' = today
    BY <1>4, Zenon DEF Insert
  <2> QED BY <1>1, <1>4, <2>1, <2>2, Zenon
<1> QED BY <1>3, <1>4

\* The local state an import leaves its process in.
LEMMA InsertLocal ==
    ASSUME IInv, NEW p \in Processes, Insert(p)
    PROVE  procs' \in {[procs EXCEPT ![p] = Stopped],
                       [procs EXCEPT ![p] = Serving(procs[p].file)]}
BY DEF Insert, IInv, TypeOK

\* Stopping and coming up keep the local state well-typed.
LEMMA LocalTyped ==
    /\ Stopped \in [pc : {"down", "read", "syncing", "up"}, file : Files \cup {NoVersion},
                    seen : Nat, rows : [Departments -> RowStates]]
    /\ \A f \in Files : Serving(f) \in
          [pc : {"down", "read", "syncing", "up"}, file : Files \cup {NoVersion},
           seen : Nat, rows : [Departments -> RowStates]]
    /\ Stopped.pc = "down" /\ Stopped.seen = 0
    /\ \A f \in Files : Serving(f).pc = "up" /\ Serving(f).file = f /\ Serving(f).seen = 0
BY DEF Stopped, Serving, RowStates

\* The empty database.
LEMMA InitIInv == Init => IInv
<1> SUFFICES ASSUME Init PROVE IInv
    OBVIOUS
<1>1. TypeOK
    BY LocalTyped, FilesAssumption DEF Init, TypeOK, Unrouted, RowStates
<1>2. OneImportPerVersion /\ RoutesAreCurrent
    BY DEF Init, OneImportPerVersion, RoutesAreCurrent, Unrouted
<1> QED BY <1>1, <1>2 DEF IInv

\* A step that changes only the local state of one process.
LEMMA LocalStep ==
    ASSUME IInv, UNCHANGED <<today, events, projection, complaints>>,
           NEW p \in Processes,
           NEW l \in [pc : {"down", "read", "syncing", "up"}, file : Files \cup {NoVersion},
                      seen : Nat, rows : [Departments -> RowStates]],
           l.pc # "down" => l.file \in Files,
           l.seen <= Len(events),
           procs' = [procs EXCEPT ![p] = l]
    PROVE  IInv'
<1>1. TypeOK'
  <2>1. \A q \in Processes : procs'[q] = IF q = p THEN l ELSE procs[q]
    BY DEF IInv, TypeOK
  <2>2. procs' \in [Processes ->
            [pc : {"down", "read", "syncing", "up"}, file : Files \cup {NoVersion},
             seen : Nat, rows : [Departments -> RowStates]]]
    BY DEF IInv, TypeOK
  <2> QED BY <2>1, <2>2 DEF IInv, TypeOK
<1>2. OneImportPerVersion' /\ RoutesAreCurrent'
    BY DEF IInv, OneImportPerVersion, RoutesAreCurrent
<1> QED BY <1>1, <1>2 DEF IInv

\* Processes that are stopped or come up forget what they had read.
LEMMA RestStep ==
    ASSUME TypeOK, NEW p \in Processes, Len(events) <= Len(events'),
           events' \in Seq(EventType),
           \/ procs' = [procs EXCEPT ![p] = Stopped]
           \/ procs[p].file \in Files /\ procs' = [procs EXCEPT ![p] = Serving(procs[p].file)]
    PROVE  /\ procs' \in [Processes ->
                  [pc : {"down", "read", "syncing", "up"}, file : Files \cup {NoVersion},
                   seen : Nat, rows : [Departments -> RowStates]]]
           /\ \A q \in Processes :
                  /\ procs'[q].pc # "down" => procs'[q].file \in Files
                  /\ procs'[q].seen <= Len(events')
<1>1. PICK l \in {Stopped} \cup {Serving(f) : f \in Files} : procs' = [procs EXCEPT ![p] = l]
    OBVIOUS
<1>2. /\ l \in [pc : {"down", "read", "syncing", "up"}, file : Files \cup {NoVersion},
                seen : Nat, rows : [Departments -> RowStates]]
      /\ l.pc # "down" => l.file \in Files
      /\ l.seen = 0
    BY LocalTyped
<1>3. \A q \in Processes : procs'[q] = IF q = p THEN l ELSE procs[q]
    BY <1>1 DEF TypeOK
<1>4. Len(events) \in Nat /\ Len(events') \in Nat
    BY EventsTyped
<1>5. procs' \in [Processes ->
          [pc : {"down", "read", "syncing", "up"}, file : Files \cup {NoVersion},
           seen : Nat, rows : [Departments -> RowStates]]]
    BY <1>1, <1>2 DEF TypeOK
<1> QED BY <1>2, <1>3, <1>4, <1>5 DEF TypeOK

-----------------------------------------------------------------------------
\* A new event with a new version keeps versions apart, and no automatic route
\* survives it.
LEMMA InsertIInv == ASSUME IInv, NEW p \in Processes, Insert(p) PROVE IInv'
<1> DEFINE f == procs[p].file
<1>1. \/ procs' = [procs EXCEPT ![p] = Stopped]
      \/ f \in Files /\ procs' = [procs EXCEPT ![p] = Serving(f)]
    BY ImportSteps, InsertLocal
<1>2. CASE UNCHANGED <<today, events, projection, complaints>>
  <2>1. TypeOK'
    BY <1>1, <1>2, RestStep, EventsTyped DEF IInv, TypeOK
  <2>2. OneImportPerVersion' /\ RoutesAreCurrent'
    BY <1>2 DEF IInv, OneImportPerVersion, RoutesAreCurrent
  <2> QED BY <2>1, <2>2 DEF IInv
<1>3. ASSUME NEW v \in Versions,
             ~VersionTaken(f.version),
             events' = Append(events, [file |-> f, previous |-> v]),
             complaints' = [c \in Complaints |-> Invalidated(c)],
             projection' = [d \in Departments |-> Synced(f, d, projection[d])],
             today' = today
      PROVE  IInv'
  <2> DEFINE n == Len(events)
             e == [file |-> f, previous |-> v]
  <2>1. e \in EventType /\ e.file = f
    BY ImportSteps DEF EventType
  <2>2. /\ events' \in Seq(EventType)
        /\ n \in Nat /\ Len(events') = n + 1
        /\ DOMAIN events = 1..n /\ DOMAIN events' = 1..(n + 1)
        /\ \A i \in 1..n : events'[i] = events[i]
        /\ events'[n + 1] = e
    BY <1>3, <2>1, EventsTyped DEF IInv
  <2>3. complaints' \in [Complaints ->
            [status : {"review"}, department : {Nobody}, version : {NoVersion}]
            \cup [status : {"assigned", "reviewed"}, department : Departments,
                  version : Versions]]
    <3>1. \A c \in Complaints : Invalidated(c) \in
              [status : {"review"}, department : {Nobody}, version : {NoVersion}]
              \cup [status : {"assigned", "reviewed"}, department : Departments,
                    version : Versions]
      BY DEF IInv, TypeOK, Invalidated, Unrouted
    <3> QED BY <1>3, <3>1
  <2>4. projection' \in [Departments -> RowStates]
    BY <1>3, SyncedRows
  <2>5. TypeOK'
    <3>1. events' \in Seq([file : Files, previous : Versions]) /\ n <= Len(events')
      BY <2>2 DEF EventType
    <3> QED BY <1>1, <1>3, <2>2, <2>3, <2>4, <3>1, RestStep DEF IInv, TypeOK
  <2>6. OneImportPerVersion'
    <3>1. \A i \in 1..n : events[i].file.version # f.version
      BY <1>3, <2>2 DEF VersionTaken
    <3> QED BY <2>1, <2>2, <3>1 DEF IInv, OneImportPerVersion
  <2>7. RoutesAreCurrent'
    <3>1. \A c \in Complaints : complaints'[c].status # "assigned"
      BY <1>3 DEF Invalidated, Unrouted
    <3> QED BY <3>1 DEF RoutesAreCurrent
  <2> QED BY <2>5, <2>6, <2>7 DEF IInv
<1> QED BY <1>2, <1>3, ImportSteps

\* The reads, refusals and stops of an import.
LEMMA LocalIInv ==
    ASSUME IInv, NEW p \in Processes,
           (\E f \in Files : ReadHistory(p, f)) \/ ReadDepartments(p) \/ Reject(p) \/ Stop(p)
    PROVE  IInv'
<1>1. Len(events) \in Nat
    BY EventsTyped DEF IInv
<1>2. procs[p] \in [pc : {"down", "read", "syncing", "up"}, file : Files \cup {NoVersion},
                   seen : Nat, rows : [Departments -> RowStates]]
    BY DEF IInv, TypeOK
<1>3. ASSUME NEW f \in Files, ReadHistory(p, f) PROVE IInv'
  <2> DEFINE l == [procs[p] EXCEPT !.pc = "read", !.file = f, !.seen = Len(events)]
  <2>1. /\ l \in [pc : {"down", "read", "syncing", "up"}, file : Files \cup {NoVersion},
                  seen : Nat, rows : [Departments -> RowStates]]
        /\ l.file \in Files /\ l.seen <= Len(events)
    <3>1. l.file = f /\ l.seen = Len(events)
      BY <1>2
    <3>2. l \in [pc : {"down", "read", "syncing", "up"}, file : Files \cup {NoVersion},
                seen : Nat, rows : [Departments -> RowStates]]
      BY <1>1, <1>2
    <3> QED BY <1>1, <3>1, <3>2
  <2>2. procs' = [procs EXCEPT ![p] = l] /\ UNCHANGED <<today, events, projection, complaints>>
    BY <1>3 DEF ReadHistory
  <2> HIDE DEF l
  <2> QED BY <2>1, <2>2, LocalStep
<1>4. CASE ReadDepartments(p)
  <2> DEFINE l == [procs[p] EXCEPT !.pc = "syncing", !.rows = projection]
  <2>1. /\ l \in [pc : {"down", "read", "syncing", "up"}, file : Files \cup {NoVersion},
                  seen : Nat, rows : [Departments -> RowStates]]
        /\ l.file \in Files /\ l.seen <= Len(events)
    BY <1>2, <1>4 DEF IInv, TypeOK, ReadDepartments
  <2>2. procs' = [procs EXCEPT ![p] = l]
    BY <1>4 DEF ReadDepartments, IInv, TypeOK
  <2>3. UNCHANGED <<today, events, projection, complaints>>
    BY <1>4 DEF ReadDepartments
  <2> HIDE DEF l
  <2> QED BY <2>1, <2>2, <2>3, LocalStep
<1>5. CASE Reject(p) \/ Stop(p)
  <2>1. procs' = [procs EXCEPT ![p] = Stopped]
        /\ UNCHANGED <<today, events, projection, complaints>>
    BY <1>5 DEF Reject, Stop
  <2>2. Stopped.seen <= Len(events)
    BY <1>1, LocalTyped
  <2> QED BY <2>1, <2>2, LocalStep, LocalTyped
<1> QED BY <1>3, <1>4, <1>5

\* A resync rewrites rows of the projection and nothing else.
LEMMA ResyncIInv == ASSUME IInv, NEW p \in Processes, Resync(p) PROVE IInv'
<1> DEFINE f == procs[p].file
<1>1. /\ f \in Files
      /\ projection' \in [Departments -> RowStates]
      /\ procs' = [procs EXCEPT ![p] = Serving(f)]
      /\ UNCHANGED <<today, events, complaints>>
  <2>1. f \in Files /\ UNCHANGED <<today, events, complaints>>
    BY DEF Resync, IInv, TypeOK
  <2>2. \A d \in Departments : Synced(f, d, procs[p].rows[d]) \in RowStates
    BY DEF Synced, RowStates
  <2>3. projection' \in [Departments -> RowStates]
    BY <2>2 DEF Resync, IInv, TypeOK
  <2>4. procs' = [procs EXCEPT ![p] = Serving(f)]
    BY DEF Resync, IInv, TypeOK
  <2> QED BY <2>1, <2>3, <2>4
<1>2. TypeOK'
  <2>1. events' \in Seq(EventType) /\ Len(events) \in Nat /\ Len(events) <= Len(events')
    BY <1>1, EventsTyped DEF IInv
  <2>2. /\ procs' \in [Processes ->
               [pc : {"down", "read", "syncing", "up"}, file : Files \cup {NoVersion},
                seen : Nat, rows : [Departments -> RowStates]]]
        /\ \A q \in Processes :
               /\ procs'[q].pc # "down" => procs'[q].file \in Files
               /\ procs'[q].seen <= Len(events')
    BY <1>1, <2>1, RestStep DEF IInv
  <2> QED BY <1>1, <2>2 DEF IInv, TypeOK
<1>3. OneImportPerVersion' /\ RoutesAreCurrent'
    BY <1>1 DEF IInv, OneImportPerVersion, RoutesAreCurrent
<1> QED BY <1>2, <1>3 DEF IInv

\* Routes are made under the catalog in force, to a department active in it.
LEMMA RequestIInv ==
    ASSUME IInv, NEW p \in Processes, NEW c \in Complaints,
           Triage(p, c) \/ \E d \in Departments : Approve(p, c, d)
    PROVE  IInv'
<1> DEFINE f == procs[p].file
           Made(row) == \E d \in Departments :
               /\ row \in {Route("assigned", f, d), Route("reviewed", f, d)}
               /\ IsCurrent(f) /\ d \in Active(f)
<1>1. f \in Files
    BY DEF IInv, TypeOK, Triage, Approve
<1>2. PICK row : /\ complaints' = [complaints EXCEPT ![c] = row]
                 /\ row = Unrouted("review") \/ Made(row)
    BY <1>1, ActiveDepartments DEF Triage, Approve
<1>3. UNCHANGED <<today, events, projection, procs>>
    BY DEF Triage, Approve
<1>4. row \in [status : {"review"}, department : {Nobody}, version : {NoVersion}]
              \cup [status : {"assigned", "reviewed"}, department : Departments,
                    version : Versions]
    BY <1>1, <1>2 DEF Unrouted, Route, Versions
<1>5. TypeOK'
    BY <1>2, <1>3, <1>4 DEF IInv, TypeOK
<1>6. OneImportPerVersion'
    BY <1>3 DEF IInv, OneImportPerVersion
<1>7. RoutesAreCurrent'
  <2>1. row.status = "assigned" =>
            /\ events # <<>>
            /\ row.version = events[Len(events)].file.version
            /\ row.department \in Active(events[Len(events)].file)
    BY <1>2 DEF Unrouted, Route, IsCurrent
  <2>2. \A b \in Complaints : complaints'[b] = IF b = c THEN row ELSE complaints[b]
    BY <1>2 DEF IInv, TypeOK
  <2> QED BY <1>3, <2>1, <2>2 DEF IInv, RoutesAreCurrent
<1> QED BY <1>5, <1>6, <1>7 DEF IInv

\* The invariant holds in every reachable state, whatever starts overlap.
THEOREM Invariant == Spec => []IInv
<1>1. IInv /\ [Next]_vars => IInv'
  <2> SUFFICES ASSUME IInv, [Next]_vars PROVE IInv'
    OBVIOUS
  <2>1. ASSUME NEW p \in Processes, Import(p) PROVE IInv'
    BY <2>1, InsertIInv, LocalIInv, ResyncIInv DEF Import
  <2>2. ASSUME NEW p \in Processes, NEW c \in Complaints,
               Triage(p, c) \/ \E d \in Departments : Approve(p, c, d)
        PROVE  IInv'
    BY <2>2, RequestIInv
  <2>3. CASE NextDay
    <3>1. today' \in 0..MaxDay
      BY <2>3, FilesAssumption DEF NextDay, IInv, TypeOK
    <3> QED BY <2>3, <3>1 DEF NextDay, IInv, TypeOK, OneImportPerVersion, RoutesAreCurrent
  <2>4. CASE UNCHANGED vars
    BY <2>4 DEF vars, IInv, TypeOK, OneImportPerVersion, RoutesAreCurrent
  <2> QED BY <2>1, <2>2, <2>3, <2>4 DEF Next
<1> QED BY InitIInv, <1>1, PTL DEF Spec

\* The catalog tables and the routes keep their types.
THEOREM TypeCorrect == Spec => []TypeOK
BY Invariant, PTL DEF IInv

\* A version label is imported once, however many processes start at once.
THEOREM VersionsAreUnique == Spec => []OneImportPerVersion
BY Invariant, PTL DEF IInv

\* No automatic route outlives the catalog it was made under.
THEOREM RoutesFollowCatalog == Spec => []RoutesAreCurrent
BY Invariant, PTL DEF IInv

-----------------------------------------------------------------------------
(***************************************************************************)
(* One web process.  Nothing is committed between the reads of an import   *)
(* and its writes, so what it read is still so when it commits: that is    *)
(* the strengthening (ReadsAreCurrent) the history's properties need.      *)
(***************************************************************************)
OneProcess == \A p, q \in Processes : p = q

\* What an import in progress has read is what the tables hold.
ReadsAreCurrent ==
    \A p \in Processes :
        /\ procs[p].pc \in {"read", "syncing"} => procs[p].seen = Len(events)
        /\ procs[p].pc = "syncing" =>
              /\ procs[p].rows = projection
              /\ events # <<>> /\ events[Len(events)].file = procs[p].file

History == SuccessorsNameCurrent /\ RetiredStaysRetired /\ StableOwners

\* The invariant of one process.
SerialIInv == IInv /\ ReadsAreCurrent /\ History /\ ProjectionIsCurrent

\* Syncing with a file makes exactly its active departments active.
LEMMA SyncedActive ==
    ASSUME NEW f \in Files, NEW rows
    PROVE  {d \in Departments : Synced(f, d, rows[d]) = "active"} = Active(f)
<1>1. \A d \in Departments : Synced(f, d, rows[d]) = "active" <=> d \in Active(f)
    BY DEF Synced
<1> QED BY <1>1, ActiveDepartments

\* A department or a task the new file brings back was offered by the version
\* before it.
LEMMA AcceptedIds ==
    ASSUME TypeOK, NEW f \in Files, Accepted(f, Len(events)), NEW i \in 1..Len(events)
    PROVE  /\ Active(events[i].file) \cap Active(f) \subseteq Active(events[Len(events)].file)
           /\ Offers(events[i].file) \cap Offers(f) \subseteq Offers(events[Len(events)].file)
           /\ \A d \in DOMAIN events[i].file.departments, e \in DOMAIN f.departments :
                 events[i].file.departments[d].tasks \cap f.departments[e].tasks # {} => d = e
<1> DEFINE n == Len(events)
           g == events[i].file
<1>1. /\ n \in Nat \ {0} /\ g \in Files
      /\ g \in Imported(n) /\ Active(g) \subseteq DOMAIN g.departments
      /\ DOMAIN g.departments \subseteq Departments
    BY EventsTyped, FilesAssumption DEF Imported, Active
<1>2. StableIds(f, n)
    BY DEF Accepted
<1>3. ASSUME NEW d \in Active(g), d \in Active(f) PROVE d \in Active(events[n].file)
  <2>1. d \in DOMAIN f.departments /\ f.departments[d].active
    BY <1>3 DEF Active
  <2>2. KnownDepartment(n, d)
    BY <1>1, <1>3 DEF KnownDepartment
  <2> QED BY <1>2, <2>1, <2>2 DEF StableIds
<1>4. ASSUME NEW t, NEW d \in DOMAIN g.departments, t \in g.departments[d].tasks
      PROVE  d \in Owners(n, t)
    BY <1>1, <1>4 DEF Owners
<1>5. ASSUME NEW t \in Offers(g), NEW e \in Active(f), t \in f.departments[e].tasks
      PROVE  t \in Offers(events[n].file)
  <2>1. PICK d \in Active(g) : t \in g.departments[d].tasks
    BY <1>5 DEF Offers
  <2>2. Owners(n, t) # {}
    BY <1>1, <1>4, <2>1
  <2>3. e \in DOMAIN f.departments /\ f.departments[e].active
    BY <1>5 DEF Active
  <2>4. t \in Offered(n)
    BY <1>2, <1>5, <2>2, <2>3 DEF StableIds
  <2> QED BY <1>1, <2>4 DEF Offered
<1>6. ASSUME NEW d \in DOMAIN g.departments, NEW e \in DOMAIN f.departments,
             g.departments[d].tasks \cap f.departments[e].tasks # {}
      PROVE  d = e
  <2>1. PICK t : t \in g.departments[d].tasks /\ t \in f.departments[e].tasks
    BY <1>6
  <2>2. Owners(n, t) \subseteq {e}
    BY <1>2, <2>1 DEF StableIds
  <2> QED BY <1>4, <2>1, <2>2
<1>7. Active(g) \cap Active(f) \subseteq Active(events[n].file)
    BY <1>3
<1>8. Offers(g) \cap Offers(f) \subseteq Offers(events[n].file)
  <2> SUFFICES ASSUME NEW t \in Offers(g), t \in Offers(f) PROVE t \in Offers(events[n].file)
    OBVIOUS
  <2>1. PICK e \in Active(f) : t \in f.departments[e].tasks
    BY DEF Offers
  <2> QED BY <1>5, <2>1
<1> QED BY <1>6, <1>7, <1>8

\* Appending an accepted file extends the chain of versions.
LEMMA HistoryGrows ==
    ASSUME TypeOK, History, NEW f \in Files, Accepted(f, Len(events)), NEW v \in Versions,
           events' = Append(events, [file |-> f, previous |-> v])
    PROVE  History'
<1>0. PICK n : n = Len(events)
    OBVIOUS
<1>1. /\ n \in Nat /\ DOMAIN events = 1..n /\ DOMAIN events' = 1..(n + 1)
      /\ \A i \in 1..n : events'[i] = events[i] /\ events[i].file \in Files
      /\ events'[n + 1].file = f
  <2>1. [file |-> f, previous |-> v] \in EventType
    BY DEF EventType
  <2> QED BY <1>0, <2>1, EventsTyped
<1>2. SuccessorsNameCurrent'
  <2> DEFINE Follows(i) ==
          IF i = 1 THEN events'[i].file.supersedes = NoVersion
          ELSE /\ events'[i].file.supersedes = events'[i - 1].file.version
               /\ events'[i - 1].file.from <= events'[i].file.from
  <2>1. \A i \in 1..n : Follows(i)
    <3> SUFFICES ASSUME NEW i \in 1..n PROVE Follows(i)
      OBVIOUS
    <3> QED BY <1>1 DEF History, SuccessorsNameCurrent
  <2>2. IF n = 0 THEN f.supersedes = NoVersion
        ELSE f.supersedes = events[n].file.version /\ events[n].file.from <= f.from
    BY <1>0 DEF Accepted, Succeeds
  <2>3. n # 0 => n \in 1..n
    BY <1>1
  <2>4. Follows(n + 1)
    BY <1>1, <2>2, <2>3
  <2>5. \A i \in DOMAIN events' : i \in 1..n \/ i = n + 1
    BY <1>1
  <2>6. \A i \in DOMAIN events' : Follows(i)
    <3> HIDE DEF Follows
    <3> QED BY <2>1, <2>4, <2>5
  <2> QED BY <2>6 DEF SuccessorsNameCurrent
<1>3. ASSUME NEW i \in 1..n, NEW j \in 1..n, i < j \/ j = n
      PROVE  /\ Active(events[i].file) \cap Active(f) \subseteq Active(events[j].file)
             /\ Offers(events[i].file) \cap Offers(f) \subseteq Offers(events[j].file)
  <2>1. /\ Active(events[i].file) \cap Active(f) \subseteq Active(events[n].file)
        /\ Offers(events[i].file) \cap Offers(f) \subseteq Offers(events[n].file)
    BY <1>0, AcceptedIds
  <2>2. CASE j = n
    BY <2>1, <2>2
  <2>3. CASE i < j /\ j < n
    <3>1. n \in DOMAIN events /\ i \in DOMAIN events /\ j \in DOMAIN events
      BY <1>1, <2>3
    <3>2. /\ Active(events[i].file) \cap Active(events[n].file) \subseteq Active(events[j].file)
          /\ Offers(events[i].file) \cap Offers(events[n].file) \subseteq Offers(events[j].file)
      BY <2>3, <3>1 DEF History, RetiredStaysRetired
    <3> QED BY <2>1, <3>2
  <2> QED BY <1>1, <1>3, <2>2, <2>3
<1>4. RetiredStaysRetired'
  <2>1. ASSUME NEW i \in DOMAIN events', NEW j \in DOMAIN events', NEW k \in DOMAIN events',
               i < j, j < k
        PROVE  /\ Active(events'[i].file) \cap Active(events'[k].file)
                     \subseteq Active(events'[j].file)
               /\ Offers(events'[i].file) \cap Offers(events'[k].file)
                     \subseteq Offers(events'[j].file)
    <3>1. /\ i \in 1..n /\ j \in 1..n /\ (k \in 1..n \/ k = n + 1)
          /\ events'[i] = events[i] /\ events'[j] = events[j]
      BY <1>1, <2>1
    <3>2. CASE k = n + 1
      BY <1>1, <1>3, <2>1, <3>1, <3>2
    <3>3. CASE k \in 1..n
      <4>1. /\ Active(events[i].file) \cap Active(events[k].file) \subseteq Active(events[j].file)
            /\ Offers(events[i].file) \cap Offers(events[k].file) \subseteq Offers(events[j].file)
        BY <1>1, <2>1, <3>1, <3>3 DEF History, RetiredStaysRetired
      <4> QED BY <1>1, <3>1, <3>3, <4>1
    <3> QED BY <3>1, <3>2, <3>3
  <2> QED BY <2>1 DEF RetiredStaysRetired
<1>5. StableOwners'
  <2> DEFINE Apart(g, h) ==
          \A d \in DOMAIN g.departments, e \in DOMAIN h.departments :
              g.departments[d].tasks \cap h.departments[e].tasks # {} => d = e
  <2>1. \A i, j \in 1..n : Apart(events[i].file, events[j].file)
    BY <1>1 DEF History, StableOwners
  <2>2. \A i \in 1..n : Apart(events[i].file, f) /\ Apart(f, events[i].file)
    BY <1>0, <1>1, AcceptedIds
  <2>3. Apart(f, f)
    BY DocumentAssumption
  <2>4. \A i, j \in 1..(n + 1) : Apart(events'[i].file, events'[j].file)
    <3> HIDE DEF Apart
    <3>1. \A i \in 1..(n + 1) : i \in 1..n \/ i = n + 1
      BY <1>1
    <3> QED BY <1>1, <2>1, <2>2, <2>3, <3>1
  <2> QED BY <1>1, <2>4 DEF StableOwners
<1> QED BY <1>2, <1>4, <1>5 DEF History

\* The empty history of a single process.
LEMMA InitSerial == Init => SerialIInv
<1> SUFFICES ASSUME Init PROVE SerialIInv
    OBVIOUS
<1>1. events = <<>> /\ DOMAIN events = {}
    BY DEF Init
<1>2. ReadsAreCurrent
    BY LocalTyped DEF Init, ReadsAreCurrent
<1>3. History
    BY <1>1 DEF History, SuccessorsNameCurrent, RetiredStaysRetired, StableOwners
<1>4. ProjectionIsCurrent
    BY <1>1 DEF ProjectionIsCurrent
<1> QED BY <1>2, <1>3, <1>4, InitIInv DEF SerialIInv

\* Without an import the history stays the chain it was.
LEMMA HistoryUnchanged == ASSUME History, UNCHANGED events PROVE History'
<1>1. SuccessorsNameCurrent'
    BY DEF History, SuccessorsNameCurrent
<1>2. RetiredStaysRetired'
    BY DEF History, RetiredStaysRetired
<1>3. StableOwners'
    BY DEF History, StableOwners
<1> QED BY <1>1, <1>2, <1>3 DEF History

\* A step that leaves history, projection and local states alone.
LEMMA SerialUnchanged ==
    ASSUME SerialIInv, UNCHANGED <<events, projection, procs>>
    PROVE  ReadsAreCurrent' /\ History' /\ ProjectionIsCurrent'
<1>1. ReadsAreCurrent'
    BY DEF SerialIInv, ReadsAreCurrent
<1>2. ProjectionIsCurrent'
    BY DEF SerialIInv, ProjectionIsCurrent
<1> QED BY <1>1, <1>2, HistoryUnchanged DEF SerialIInv

\* A process that is stopped or up remembers nothing.
LEMMA NothingRead ==
    ASSUME OneProcess, TypeOK, NEW p \in Processes,
           \/ procs' = [procs EXCEPT ![p] = Stopped]
           \/ procs[p].file \in Files /\ procs' = [procs EXCEPT ![p] = Serving(procs[p].file)]
    PROVE  ReadsAreCurrent'
<1>1. procs'[p].pc \in {"down", "up"}
    BY LocalTyped DEF TypeOK
<1>2. \A q \in Processes : q = p
    BY DEF OneProcess
<1> QED BY <1>1, <1>2 DEF ReadsAreCurrent

\* With one process, an import commits against the history it was validated
\* against.
LEMMA InsertSerial ==
    ASSUME OneProcess, SerialIInv, NEW p \in Processes, Insert(p)
    PROVE  ReadsAreCurrent' /\ History' /\ ProjectionIsCurrent'
<1> DEFINE f == procs[p].file
<1>1. ReadsAreCurrent'
    BY ImportSteps, InsertLocal, NothingRead DEF SerialIInv, IInv
<1>2. f \in Files
    BY ImportSteps DEF SerialIInv
<1>3. CASE UNCHANGED <<today, events, projection, complaints>>
  <2>1. ProjectionIsCurrent'
    BY <1>3 DEF SerialIInv, ProjectionIsCurrent
  <2> QED BY <1>1, <1>3, <2>1, HistoryUnchanged DEF SerialIInv
<1>4. ASSUME NEW v \in Versions,
             events' = Append(events, [file |-> f, previous |-> v]),
             projection' = [d \in Departments |-> Synced(f, d, projection[d])]
      PROVE  History' /\ ProjectionIsCurrent'
  <2>1. Accepted(f, Len(events))
    BY DEF Insert, SerialIInv, ReadsAreCurrent
  <2>2. History'
    BY <1>2, <1>4, <2>1, HistoryGrows DEF SerialIInv, IInv
  <2>3. events'[Len(events')].file = f
    <3>1. [file |-> f, previous |-> v] \in EventType
      BY <1>2 DEF EventType
    <3> QED BY <1>4, <3>1, EventsTyped DEF SerialIInv, IInv
  <2>4. {d \in Departments : projection'[d] = "active"} = Active(f)
    <3>1. {d \in Departments : Synced(f, d, projection[d]) = "active"} = Active(f)
      BY <1>2, SyncedActive
    <3> QED BY <1>4, <3>1
  <2> QED BY <2>2, <2>3, <2>4 DEF ProjectionIsCurrent
<1> QED BY <1>1, <1>3, <1>4, ImportSteps DEF SerialIInv

\* With one process, a resync writes what the projection held already, synced
\* with the current file.
LEMMA ResyncSerial ==
    ASSUME OneProcess, SerialIInv, NEW p \in Processes, Resync(p)
    PROVE  ReadsAreCurrent' /\ History' /\ ProjectionIsCurrent'
<1> DEFINE f == procs[p].file
<1>1. /\ f \in Files /\ procs[p].rows = projection
      /\ events[Len(events)].file = f
    BY DEF Resync, SerialIInv, ReadsAreCurrent, IInv, TypeOK
<1>2. UNCHANGED events /\ procs' = [procs EXCEPT ![p] = Serving(f)]
    BY DEF Resync, SerialIInv, IInv, TypeOK
<1>3. ReadsAreCurrent'
    BY <1>1, <1>2, NothingRead DEF SerialIInv, IInv
<1>4. History'
    BY <1>2, HistoryUnchanged DEF SerialIInv
<1>5. ProjectionIsCurrent'
  <2>1. \A d \in Departments : projection'[d] = Synced(f, d, projection[d])
    BY <1>1 DEF Resync
  <2>2. {d \in Departments : Synced(f, d, projection[d]) = "active"} = Active(f)
    BY <1>1, SyncedActive
  <2>3. {d \in Departments : projection'[d] = "active"} = Active(f)
    BY <2>1, <2>2
  <2> QED BY <1>1, <1>2, <2>3 DEF ProjectionIsCurrent
<1> QED BY <1>3, <1>4, <1>5

\* The reads of an import note what the tables hold.
LEMMA LocalSerial ==
    ASSUME OneProcess, SerialIInv, NEW p \in Processes,
           (\E f \in Files : ReadHistory(p, f)) \/ ReadDepartments(p) \/ Reject(p) \/ Stop(p)
    PROVE  ReadsAreCurrent' /\ History' /\ ProjectionIsCurrent'
<1>1. UNCHANGED <<events, projection>>
    BY DEF ReadHistory, ReadDepartments, Reject, Stop
<1>2. History' /\ ProjectionIsCurrent'
  <2>1. ProjectionIsCurrent'
    BY <1>1 DEF SerialIInv, ProjectionIsCurrent
  <2> QED BY <1>1, <2>1, HistoryUnchanged DEF SerialIInv
<1>3. \A q \in Processes : q = p
    BY DEF OneProcess
<1>4. ASSUME NEW f \in Files, ReadHistory(p, f) PROVE ReadsAreCurrent'
  <2>1. procs'[p].pc = "read" /\ procs'[p].seen = Len(events)
    BY <1>4 DEF ReadHistory, SerialIInv, IInv, TypeOK
  <2> QED BY <1>1, <1>3, <2>1 DEF ReadsAreCurrent
<1>5. ASSUME ReadDepartments(p) PROVE ReadsAreCurrent'
  <2>1. /\ procs'[p].seen = procs[p].seen /\ procs'[p].file = procs[p].file
        /\ procs'[p].rows = projection
    BY <1>5 DEF ReadDepartments, SerialIInv, IInv, TypeOK
  <2>2. procs[p].seen = Len(events) /\ Unchanged(procs[p].file, Len(events))
    BY <1>5 DEF ReadDepartments, SerialIInv, ReadsAreCurrent
  <2>3. events # <<>> /\ events[Len(events)].file = procs[p].file
    BY <2>2, EventsTyped DEF Unchanged, SerialIInv, IInv
  <2> QED BY <1>1, <1>3, <2>1, <2>2, <2>3 DEF ReadsAreCurrent
<1>6. ASSUME Reject(p) \/ Stop(p) PROVE ReadsAreCurrent'
  <2>1. procs' = [procs EXCEPT ![p] = Stopped]
    BY <1>6 DEF Reject, Stop
  <2> QED BY <2>1, NothingRead DEF SerialIInv, IInv
<1> QED BY <1>2, <1>4, <1>5, <1>6

\* With one process at a time, for any files, departments and restarts.
THEOREM SerialInvariant ==
    ASSUME OneProcess
    PROVE  Spec => []SerialIInv
<1>1. SerialIInv /\ IInv' /\ [Next]_vars => SerialIInv'
  <2> SUFFICES ASSUME SerialIInv, IInv', [Next]_vars
               PROVE  ReadsAreCurrent' /\ History' /\ ProjectionIsCurrent'
    BY DEF SerialIInv
  <2>1. ASSUME NEW p \in Processes, Import(p)
        PROVE  ReadsAreCurrent' /\ History' /\ ProjectionIsCurrent'
    BY <2>1, InsertSerial, ResyncSerial, LocalSerial DEF Import
  <2>2. ASSUME UNCHANGED <<events, projection, procs>>
        PROVE  ReadsAreCurrent' /\ History' /\ ProjectionIsCurrent'
    BY <2>2, SerialUnchanged
  <2>3. ASSUME NEW p \in Processes, NEW c \in Complaints,
               Triage(p, c) \/ \E d \in Departments : Approve(p, c, d)
        PROVE  UNCHANGED <<events, projection, procs>>
    BY <2>3 DEF Triage, Approve
  <2>4. CASE NextDay
    BY <2>2, <2>4 DEF NextDay
  <2>5. CASE UNCHANGED vars
    BY <2>2, <2>5 DEF vars
  <2> QED BY <2>1, <2>2, <2>3, <2>4, <2>5 DEF Next
<1> QED BY InitSerial, Invariant, <1>1, PTL DEF Spec

\* Each import supersedes the version current when it commits.
THEOREM HistoryIsAChain == ASSUME OneProcess PROVE Spec => []SuccessorsNameCurrent
BY SerialInvariant, PTL DEF SerialIInv, History

\* What was retired once is never active again.
THEOREM RetirementIsFinal == ASSUME OneProcess PROVE Spec => []RetiredStaysRetired
BY SerialInvariant, PTL DEF SerialIInv, History

\* Tasks keep their department over the whole history.
THEOREM OwnersAreStable == ASSUME OneProcess PROVE Spec => []StableOwners
BY SerialInvariant, PTL DEF SerialIInv, History

\* The department table shows the catalog in force.
THEOREM ProjectionFollows == ASSUME OneProcess PROVE Spec => []ProjectionIsCurrent
BY SerialInvariant, PTL DEF SerialIInv
=============================================================================
