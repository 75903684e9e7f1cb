------------------------- MODULE DepartmentCatalog -------------------------
(***************************************************************************)
(* Importing versioned department catalogs (services/department_catalog.py)*)
(* when web processes start, and the routes and approvals that depend on   *)
(* the catalog in force.                                                   *)
(*                                                                         *)
(* An import reads the history in autocommit mode.  Its first write, the   *)
(* version row or, on the idempotent path, the flush at commit, takes the  *)
(* writer lock; from there to the commit it is one atomic step, which uses *)
(* what was read before.  The idempotent path also reads the projection    *)
(* before its lock, as the session does not autoflush.                     *)
(***************************************************************************)
EXTENDS Naturals, Sequences

CONSTANTS
    Processes,      \* web processes
    Complaints,
    Departments,    \* department ids
    Files,          \* catalog files a process may be started with
    NoVersion,      \* supersedes of a first catalog
    Nobody,         \* assigned_department_id of an unassigned complaint
    MaxDay          \* bound: the last date

(***************************************************************************)
(* A file is its bytes, so equal files are equal checksums.  Its work      *)
(* assignments and routing rules are tasks: ids a department owns.         *)
(***************************************************************************)
ASSUME FilesAssumption ==
    /\ \A f \in Files :
          /\ f.version # NoVersion /\ f.supersedes # f.version
          /\ f.from \in Nat /\ f.until \in Nat
          /\ DOMAIN f.departments \subseteq Departments
          /\ \A d \in DOMAIN f.departments : f.departments[d].active \in BOOLEAN
    /\ Nobody \notin Departments
    /\ MaxDay \in Nat
\* validate_catalog: the window is not empty, ids are unique in the file and some
\* department is active.
ASSUME DocumentAssumption ==
    \A f \in Files :
        /\ f.from <= f.until
        /\ \A d, e \in DOMAIN f.departments :
              f.departments[d].tasks \cap f.departments[e].tasks # {} => d = e
        /\ \E d \in DOMAIN f.departments : f.departments[d].active

VARIABLES
    today,        \* date.today()
    events,       \* catalog_import_events with the version and entry rows of each
    projection,   \* departments: id -> "absent", "active" or "retired"
    complaints,   \* routing columns of the complaints
    procs         \* local state of each web process

vars == <<today, events, projection, complaints, procs>>

Unrouted(status) == [status |-> status, department |-> Nobody, version |-> NoVersion]

Stopped == [pc |-> "down", file |-> NoVersion, seen |-> 0,
            rows |-> [d \in Departments |-> "absent"]]

Serving(f) == [Stopped EXCEPT !.pc = "up", !.file = f]

Init ==
    /\ today = 0
    /\ events = <<>>
    /\ projection = [d \in Departments |-> "absent"]
    /\ complaints = [c \in Complaints |-> Unrouted("review")]
    /\ procs = [p \in Processes |-> Stopped]

Active(f) == {d \in DOMAIN f.departments : f.departments[d].active}

\* Tasks a file offers through an active department.
Offers(f) == UNION {f.departments[d].tasks : d \in Active(f)}

\* ensure_effective
InForce(f) == f.from <= today /\ today <= f.until

\* ensure_current_catalog
IsCurrent(f) == InForce(f) /\ events # <<>> /\ events[Len(events)].file = f

\* _load_version_entries and the rows of earlier versions, as of event n.
Imported(n) == {events[i].file : i \in 1..n}

-----------------------------------------------------------------------------
(* Validation against the history that was read. *)

Owners(n, task) ==
    {d \in Departments : \E g \in Imported(n) :
        d \in DOMAIN g.departments /\ task \in g.departments[d].tasks}

\* Tasks the latest version read offers.
Offered(n) == IF n = 0 THEN {} ELSE Offers(events[n].file)

KnownDepartment(n, d) == \E g \in Imported(n) : d \in DOMAIN g.departments

\* Mutant: an id that was retired may come back.
StableIds_Revives(f, n) ==
    \A d \in DOMAIN f.departments :
        /\ \A g \in Imported(n) :
              d \in DOMAIN g.departments => g.departments[d].category = f.departments[d].category
        /\ \A t \in f.departments[d].tasks : Owners(n, t) \subseteq {d}

\* Mutant: ownership is compared with the previous version only.
StableIds_PreviousOnly(f, n) ==
    \A d \in DOMAIN f.departments :
        /\ f.departments[d].active /\ KnownDepartment(n, d) => d \in Active(events[n].file)
        /\ \A t \in f.departments[d].tasks :
              n # 0 => \A e \in DOMAIN events[n].file.departments :
                          t \in events[n].file.departments[e].tasks => e = d

\* _validate_stable_ids
StableIds(f, n) ==
    \A d \in DOMAIN f.departments :
        /\ \A g \in Imported(n) :
              d \in DOMAIN g.departments => g.departments[d].category = f.departments[d].category
        /\ f.departments[d].active /\ KnownDepartment(n, d) => d \in Active(events[n].file)
        /\ \A t \in f.departments[d].tasks :
              /\ Owners(n, t) \subseteq {d}
              /\ f.departments[d].active /\ Owners(n, t) # {} => t \in Offered(n)

\* Mutant: any catalog that names a predecessor may follow.
Succeeds_AnyPredecessor(f, n) ==
    IF n = 0 THEN f.supersedes = NoVersion ELSE f.supersedes # NoVersion

Succeeds(f, n) ==
    IF n = 0 THEN f.supersedes = NoVersion
    ELSE f.supersedes = events[n].file.version /\ events[n].file.from <= f.from

\* A new version that may follow event n.
Accepted(f, n) ==
    /\ \A g \in Imported(n) : g.version # f.version
    /\ Succeeds(f, n)
    /\ StableIds(f, n)

\* The exact current version again.
Unchanged(f, n) == n # 0 /\ events[n].file = f

-----------------------------------------------------------------------------
(* Web processes start. *)

ReadHistory(p, f) ==
    /\ procs[p].pc = "down"
    /\ InForce(f)
    /\ procs' = [procs EXCEPT ![p] = [@ EXCEPT !.pc = "read", !.file = f,
                                               !.seen = Len(events)]]
    /\ UNCHANGED <<today, events, projection, complaints>>

\* Mutant: departments missing from the new file stay as they are.
Synced_KeepsMissing(f, d, row) ==
    IF d \in Active(f) THEN "active"
    ELSE IF d \in DOMAIN f.departments THEN "retired" ELSE row

\* What _sync_current_projection makes of a row it read as `row'.
Synced(f, d, row) ==
    IF d \in Active(f) THEN "active"
    ELSE IF row = "absent" /\ d \notin DOMAIN f.departments THEN "absent"
    ELSE "retired"

\* Mutant: automatic routes keep their department.
Invalidated_KeepsDepartment(c) ==
    IF complaints[c].status = "assigned"
    THEN [complaints[c] EXCEPT !.status = "review"]
    ELSE complaints[c]

\* Mutant: automatic routes survive a new catalog.
Invalidated_Never(c) == complaints[c]

\* _invalidate_automatic_routes
Invalidated(c) ==
    IF complaints[c].status = "assigned" THEN Unrouted("review") ELSE complaints[c]

\* Mutant: the primary key of the version table is missing.
VersionTaken_Never(version) == FALSE

\* The primary key the version row meets under the lock.
VersionTaken(version) == \E i \in DOMAIN events : events[i].file.version = version

Insert(p) ==
    LET f == procs[p].file
        n == procs[p].seen
    IN  /\ procs[p].pc = "read" /\ Accepted(f, n)
        /\ IF VersionTaken(f.version)
           THEN /\ procs' = [procs EXCEPT ![p] = Stopped]
                /\ UNCHANGED <<events, projection, complaints>>
           ELSE /\ events' = Append(events,
                       [file |-> f,
                        previous |-> IF n = 0 THEN NoVersion ELSE events[n].file.version])
                /\ complaints' = [c \in Complaints |-> Invalidated(c)]
                /\ projection' = [d \in Departments |-> Synced(f, d, projection[d])]
                /\ procs' = [procs EXCEPT ![p] = Serving(@.file)]
        /\ UNCHANGED today

ReadDepartments(p) ==
    /\ procs[p].pc = "read" /\ Unchanged(procs[p].file, procs[p].seen)
    /\ procs' = [procs EXCEPT ![p].pc = "syncing", ![p].rows = projection]
    /\ UNCHANGED <<today, events, projection, complaints>>

\* The flush writes the columns that differ from what was read.
Resync(p) ==
    LET f == procs[p].file
        row(d) == procs[p].rows[d]
    IN  /\ procs[p].pc = "syncing"
        /\ projection' = [d \in Departments |->
               IF Synced(f, d, row(d)) # row(d) THEN Synced(f, d, row(d)) ELSE projection[d]]
        /\ procs' = [procs EXCEPT ![p] = Serving(@.file)]
        /\ UNCHANGED <<today, events, complaints>>

\* Everything else raises, and the process does not come up.
Reject(p) ==
    /\ procs[p].pc = "read"
    /\ ~Accepted(procs[p].file, procs[p].seen) /\ ~Unchanged(procs[p].file, procs[p].seen)
    /\ procs' = [procs EXCEPT ![p] = Stopped]
    /\ UNCHANGED <<today, events, projection, complaints>>

\* A process is stopped or dies, also in the middle of an import.
Stop(p) ==
    /\ procs[p].pc # "down"
    /\ procs' = [procs EXCEPT ![p] = Stopped]
    /\ UNCHANGED <<today, events, projection, complaints>>

-----------------------------------------------------------------------------
(* Requests a process serves once it is up. *)

Route(status, f, d) == [status |-> status, department |-> d, version |-> f.version]

\* Triage under the complaint's lock: an automatic route to an active department
\* when the process's catalog is current, human review otherwise.
Triage(p, c) ==
    LET f == procs[p].file
    IN  /\ procs[p].pc = "up"
        /\ \/ complaints' = [complaints EXCEPT ![c] = Unrouted("review")]
           \/ \E d \in Active(f) :
                 /\ IsCurrent(f)
                 /\ projection[d] = "active"
                 /\ complaints' = [complaints EXCEPT ![c] = Route("assigned", f, d)]
        /\ UNCHANGED <<today, events, projection, procs>>

\* An approval that is not blocked.
Approve(p, c, d) ==
    LET f == procs[p].file
    IN  /\ procs[p].pc = "up"
        /\ IsCurrent(f)
        /\ projection[d] = "active" /\ d \in Active(f)
        /\ complaints' = [complaints EXCEPT ![c] = Route("reviewed", f, d)]
        /\ UNCHANGED <<today, events, projection, procs>>

NextDay ==
    /\ today < MaxDay
    /\ today' = today + 1
    /\ UNCHANGED <<events, projection, complaints, procs>>

Import(p) ==
    \/ \E f \in Files : ReadHistory(p, f)
    \/ Insert(p)
    \/ ReadDepartments(p)
    \/ Resync(p)
    \/ Reject(p)
    \/ Stop(p)

Next ==
    \/ \E p \in Processes : Import(p)
    \/ \E p \in Processes, c \in Complaints : Triage(p, c)
    \/ \E p \in Processes, c \in Complaints, d \in Departments : Approve(p, c, d)
    \/ NextDay

Spec == Init /\ [][Next]_vars

-----------------------------------------------------------------------------
(* Properties that hold however starts overlap. *)

Versions == {NoVersion} \cup {f.version : f \in Files}
RowStates == {"absent", "active", "retired"}

\* The tables have the types their columns have, and a complaint names a
\* department exactly when it is assigned or reviewed.
TypeOK ==
    /\ today \in 0..MaxDay
    /\ events \in Seq([file : Files, previous : Versions])
    /\ projection \in [Departments -> RowStates]
    /\ complaints \in [Complaints ->
          [status : {"review"}, department : {Nobody}, version : {NoVersion}]
          \cup [status : {"assigned", "reviewed"}, department : Departments,
                version : Versions]]
    /\ procs \in [Processes ->
          [pc : {"down", "read", "syncing", "up"}, file : Files \cup {NoVersion},
           seen : Nat, rows : [Departments -> RowStates]]]
    /\ \A p \in Processes :
          /\ procs[p].pc # "down" => procs[p].file \in Files
          /\ procs[p].seen <= Len(events)

\* However many processes start at once with the same or with reused version
\* labels, a version enters the history once.
OneImportPerVersion ==
    \A i, j \in DOMAIN events : events[i].file.version = events[j].file.version => i = j

\* Every automatic route was made under the catalog now in force, to a
\* department active in it: an import leaves none behind and a process with an
\* older catalog makes none.
RoutesAreCurrent ==
    \A c \in Complaints : complaints[c].status = "assigned" =>
        /\ events # <<>>
        /\ complaints[c].version = events[Len(events)].file.version
        /\ complaints[c].department \in Active(events[Len(events)].file)

(* Properties of starts that do not overlap. *)

\* Each import names its predecessor in the sequence of events and is not dated
\* before it.
SuccessorsNameCurrent ==
    \A i \in DOMAIN events :
        IF i = 1 THEN events[i].file.supersedes = NoVersion
        ELSE /\ events[i].file.supersedes = events[i - 1].file.version
             /\ events[i - 1].file.from <= events[i].file.from

\* A department or task that was retired is never active again, however long
\* ago that was.
RetiredStaysRetired ==
    \A i, j, k \in DOMAIN events : i < j /\ j < k =>
        /\ Active(events[i].file) \cap Active(events[k].file) \subseteq Active(events[j].file)
        /\ Offers(events[i].file) \cap Offers(events[k].file) \subseteq Offers(events[j].file)

\* Over the whole history a task belongs to one department.
StableOwners ==
    \A i, j \in DOMAIN events :
        \A d \in DOMAIN events[i].file.departments, e \in DOMAIN events[j].file.departments :
            events[i].file.departments[d].tasks \cap events[j].file.departments[e].tasks # {}
                => d = e

\* The department table shows the catalog in force and nothing else as active.
ProjectionIsCurrent ==
    events # <<>> =>
        {d \in Departments : projection[d] = "active"} = Active(events[Len(events)].file)
=============================================================================
