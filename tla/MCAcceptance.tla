---------------------------- MODULE MCAcceptance ----------------------------
(* Instances of Acceptance for TLC. *)
EXTENDS Acceptance, TLC

CONSTANTS p1, p2, p3, p4, k1, k2, b1, b2

\* p1 and p2 send the same payment under the same key, p3 another one under
\* that key, and p4 a payment of its own.
Requests ==
  (p1 :> [key |-> k1, body |-> b1]) @@ (p2 :> [key |-> k1, body |-> b1]) @@
  (p3 :> [key |-> k1, body |-> b2]) @@ (p4 :> [key |-> k2, body |-> b1])

=============================================================================
