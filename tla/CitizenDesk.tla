---------------------------- MODULE CitizenDesk -----------------------------
(***************************************************************************)
(* What the portal promises citizens: a form becomes one complaint, which  *)
(* is its browser's from the first moment and for good; every answer names *)
(* it; and who has been let in stays in, with the complaint's code and not *)
(* otherwise.  CitizenIntake implements this.                              *)
(***************************************************************************)
CONSTANTS Sessions, Forms, Complaints

VARIABLES
    received,   \* complaints that exist
    register,   \* complaint -> the browser and form it was filed with
    access,     \* who may open what
    shown,      \* complaints whose code has been told
    told,       \* answers that reached a browser
    opened      \* lookups that were answered

vars == <<received, register, access, shown, told, opened>>

Init ==
    /\ received = {} /\ register = [c \in {} |-> 0]
    /\ access = {} /\ shown = {} /\ told = {} /\ opened = {}

Answer(s, f, c) == [session |-> s, form |-> f, complaint |-> c]

\* A form nobody has filed becomes a complaint; the answer may be lost.
File(s, f, c) ==
    /\ c \notin received
    /\ \A d \in DOMAIN register : register[d] # [owner |-> s, form |-> f]
    /\ received' = received \cup {c}
    /\ register' = [d \in DOMAIN register \cup {c} |->
                       IF d = c THEN [owner |-> s, form |-> f] ELSE register[d]]
    /\ access' = access \cup {<<s, c>>}
    /\ told' = told \/ told' = told \cup {Answer(s, f, c)}
    /\ UNCHANGED <<shown, opened>>

\* A form that is sent again is answered with its complaint.
Repeat(c) ==
    /\ c \in DOMAIN register
    /\ told' = told \cup {Answer(register[c].owner, register[c].form, c)}
    /\ UNCHANGED <<received, register, access, shown, opened>>

\* The browser it was filed with is shown the code.
Show(c) ==
    /\ c \in DOMAIN register
    /\ shown' = shown \cup {c}
    /\ UNCHANGED <<received, register, access, told, opened>>

\* The code lets a browser in.
Open(s, c) ==
    /\ c \in shown
    /\ access' = access \cup {<<s, c>>}
    /\ opened' = opened \cup {<<s, c>>}
    /\ UNCHANGED <<received, register, shown, told>>

Next ==
    \/ \E s \in Sessions, f \in Forms, c \in Complaints : File(s, f, c)
    \/ \E c \in Complaints : Repeat(c) \/ Show(c)
    \/ \E s \in Sessions, c \in Complaints : Open(s, c)

Spec == Init /\ [][Next]_vars
=============================================================================
