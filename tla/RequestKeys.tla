---------------------------- MODULE RequestKeys ----------------------------
(***************************************************************************)
(* AIQueue with the history an HTTP client has: which keys the deferred    *)
(* service has answered, and the key of the request just handled.          *)
(***************************************************************************)
EXTENDS AIQueue

VARIABLES
    answered,   \* <<complaint, key>> pairs of earlier deferred requests
    asked       \* the pair handled by the last step, <<>> if it was no request

KeyInit == Init /\ answered = {} /\ asked = <<>>

KeyNext ==
    \/ \E r \in Releases, c \in Complaints, k \in Keys :
          /\ Reprocess(r, c, k)
          /\ asked' = <<c, k>>
          /\ answered' = IF r.deferred THEN answered \cup {<<c, k>>} ELSE answered
    \/ OtherStep /\ asked' = <<>> /\ UNCHANGED answered

KeySpec == KeyInit /\ [][KeyNext]_<<vars, answered, asked>>

\* docs/ARCHITECTURE.md: "Existing keys do not create a new analysis or reopen
\* an already reviewed record."  A key the service has answered before, sent
\* again once the complaint is reviewed, leaves the complaint as it is.
ExistingKeyReopensNothing ==
    [][asked' \in answered /\ Reviewed(asked'[1])
          => complaints'[asked'[1]] = complaints[asked'[1]]]_<<vars, answered, asked>>
=============================================================================
