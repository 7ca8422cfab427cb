---------------------------- MODULE MCSimulator ----------------------------
(* Instances of Simulator for TLC. *)
EXTENDS Simulator

CONSTANTS c1, c2

=============================================================================
