-------------------------- MODULE MCCitizenIntake ---------------------------
(* An instance of CitizenIntake for TLC.  Requests, complaints and forms are  *)
(* interchangeable, and so are sessions.                                     *)
EXTENDS CitizenIntake, TLC

CONSTANTS s1, s2, f1, f2, r1, r2, c1, c2, c3

Symmetry ==
    Permutations({s1, s2}) \cup Permutations({f1, f2})
        \cup Permutations({r1, r2}) \cup Permutations({c1, c2, c3})
=============================================================================
