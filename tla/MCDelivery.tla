----------------------------- MODULE MCDelivery -----------------------------
(* Instances of Delivery for TLC. *)
EXTENDS Delivery, TLC

CONSTANTS c1, c2, t1, t2, m1, m2

\* Tasks and messages are interchangeable.
Interchangeable == Permutations(Task) \cup Permutations(Message)

=============================================================================
