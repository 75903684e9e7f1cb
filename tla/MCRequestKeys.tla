--------------------------- MODULE MCRequestKeys ---------------------------
(* An instance of RequestKeys in which the only complaint is sensitive. *)
EXTENDS RequestKeys

CONSTANTS c1, w1

SensitiveRelease ==
    {[deferred |-> TRUE, model |-> "m1", catalog |-> 1, rules |-> "t1",
      maxAttempts |-> 2, sensitive |-> {c1}]}

TwoKeys == {"initial", "k1"}
============================================================================
