----------------------------- MODULE MCEndToEnd -----------------------------
(* Instances of EndToEnd for TLC. *)
EXTENDS EndToEnd

CONSTANTS c1, t1

=============================================================================
