------------------------ MODULE MCDepartmentCatalog ------------------------
(* Instances of DepartmentCatalog for TLC. *)
EXTENDS DepartmentCatalog, TLC

CONSTANTS p1, p2, A, B, C

Dept(active, category, tasks) == [active |-> active, category |-> category, tasks |-> tasks]

Open(category, tasks) == Dept(TRUE, category, tasks)
Closed(category, tasks) == Dept(FALSE, category, tasks)

File(version, supersedes, from, until, departments) ==
    [version |-> version, supersedes |-> supersedes, from |-> from, until |-> until,
     departments |-> departments]

First == File("v1", NoVersion, 0, 9, A :> Open("roads", {"a1"}) @@ B :> Open("parks", {"b1"}))

\* The same label over different bytes; one that expires on day 0.
Relabelled == File("v1", NoVersion, 0, 0, A :> Open("roads", {"a1"}))

\* Closes B, and moves nothing.
CloseB == File("v2", "v1", 0, 9, A :> Open("roads", {"a1"}) @@ B :> Closed("parks", {"b1"}))

\* A rival successor of v1 that keeps B open and drops a task of A.
KeepB == File("v2b", "v1", 1, 9, A :> Open("roads", {"a2"}) @@ B :> Open("parks", {"b1"}))

\* A successor of v1 that leaves B out altogether.
OmitB == File("v2c", "v1", 0, 9, A :> Open("roads", {"a1"}))

\* Successors of v2: B comes back; B is left out and C takes over a retired task
\* or a new one; C takes over the task of an open department.
ReopenB == File("v3", "v2", 0, 9, A :> Open("roads", {"a1"}) @@ B :> Open("parks", {"b1"}))
GrabTask == File("v3", "v2", 0, 9, A :> Open("roads", {"a1"}) @@ C :> Open("parks", {"b1"}))
AddC == File("v3", "v2", 0, 9, A :> Open("roads", {"a1"}) @@ C :> Open("parks", {"c1"}))

\* Successors of v3: one drops a task and one brings a dropped one back.
SwapTask == File("v4", "v3", 0, 9, A :> Open("roads", {"a2"}) @@ C :> Open("parks", {"c1"}))
TaskBack == File("v5", "v4", 1, 9, A :> Open("roads", {"a1"}) @@ C :> Open("parks", {"c1"}))
TaskMoves == File("v5", "v4", 1, 9, A :> Open("roads", {"a2"}) @@ C :> Open("parks", {"a1"}))

Rivals == {First, Relabelled, CloseB, KeepB}
Generations == {First, CloseB, KeepB, OmitB, ReopenB, GrabTask, AddC, SwapTask, TaskBack, TaskMoves}
============================================================================
