----------------------------- MODULE MCEvidence -----------------------------
(* Instances of Evidence for TLC. *)
EXTENDS Evidence, TLC

CONSTANTS a, c, r, s, v1, v2, h1, h2

\* Two heartbeats, and two receipts under one identity, the second one signed
\* with an older key.
Ids == (a :> 1) @@ (c :> 2) @@ (r :> 3) @@ (s :> 3)
Kinds == [m \in Message |-> IF m \in {r, s} THEN "receipt" ELSE "heartbeat"]
Times == (a :> 2) @@ (c :> 1) @@ (r :> 1) @@ (s :> 0)
Keys == (a :> v2) @@ (c :> v2) @@ (r :> v2) @@ (s :> v1)

=============================================================================
