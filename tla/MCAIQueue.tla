----------------------------- MODULE MCAIQueue -----------------------------
(* Instances of AIQueue for TLC. *)
EXTENDS AIQueue, TLC

CONSTANTS c1, c2, w1, w2

\* The release in service.
Base == [deferred |-> TRUE, model |-> "m1", catalog |-> 1, rules |-> "t1",
         maxAttempts |-> 2, sensitive |-> {}]

\* A web process with deferred AI switched off.
Synchronous == [Base EXCEPT !.deferred = FALSE]

\* The next catalog, with a smaller attempt budget.
NextCatalog == [Base EXCEPT !.catalog = 2, !.maxAttempts = 1]

\* Releases that share the catalog but not the provider, the redaction rules or
\* what they hold for sensitive.
NewModel == [Base EXCEPT !.model = "m2"]
NewRules == [Base EXCEPT !.rules = "t2"]
Stricter == [Base EXCEPT !.sensitive = {c1}]

OneRelease == {Base}
Rollover == {Base, NextCatalog}
ModeSwitch == {Base, Synchronous, NextCatalog}
Drift == {Base, NewModel, NewRules, Stricter}

OneKey == {"initial"}
TwoKeys == {"initial", "k1"}

Symmetric == Permutations({w1, w2})
============================================================================
