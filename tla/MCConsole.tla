----------------------------- MODULE MCConsole -----------------------------
(* Instances of Console for TLC. *)
EXTENDS Console, TLC

CONSTANTS t1, t2, x, y, i1, i2, s1, s2

\* The user of t1 has two merchants, that of t2 one of them.
Members == (t1 :> {x, y}) @@ (t2 :> {y})

=============================================================================
