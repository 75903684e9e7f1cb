---------------------------- MODULE CitizenView ----------------------------
(***************************************************************************)
(* What a citizen is promised about answers, without drafts, pages or      *)
(* machine triage (docs/AUTH_AND_AUDIT.md): officers decide, and now and   *)
(* then show the citizen their latest decision, never an earlier one and   *)
(* never one that was shown before.                                        *)
(***************************************************************************)
EXTENDS Naturals, Sequences

CONSTANT Texts

VARIABLES
    decisions,   \* the answers officers decided on, in order
    shown        \* number of the decision the citizen sees, 0 for none

Init == decisions = <<>> /\ shown = 0

Decide ==
    /\ \E text \in Texts : decisions' = Append(decisions, text)
    /\ UNCHANGED shown

Show ==
    /\ shown < Len(decisions)
    /\ shown' = Len(decisions)
    /\ UNCHANGED decisions

Next == Decide \/ Show

vars == <<decisions, shown>>
Spec == Init /\ [][Next]_vars
=============================================================================
