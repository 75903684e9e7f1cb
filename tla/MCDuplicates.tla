--------------------------- MODULE MCDuplicates ----------------------------
(* An instance of Duplicates for TLC. *)
EXTENDS Duplicates, TLC

CONSTANTS c1, c2, c3, c4, o1, o2, q1, q2

On(category, place) == [category |-> category, place |-> place]

\* c1 may change its category, c2 the normalised form of its place; c4 has none.
Triages ==
    c1 :> {On("roads", "park"), On("parks", "park")} @@
    c2 :> {On("roads", "park"), On("roads", "gate")} @@
    c3 :> {On("roads", "park")} @@
    c4 :> {On("roads", NoPlace)}

\* c2 and c3 are one day past the window from each other; c1 is exactly within it.
Days == c1 :> 30 @@ c2 :> 0 @@ c3 :> 31 @@ c4 :> 30

Alike == [p \in Pairs |-> IF {p[1], p[2]} = {c1, c2} THEN 90 ELSE 0]

Symmetric == Permutations({o1, o2}) \cup Permutations(Requests)
============================================================================
