---------------------------- MODULE MCParentSync ----------------------------
(* Instances of ParentSync for TLC. *)
EXTENDS ParentSync, TLC

CONSTANTS k1, k2, k3, a, b

\* k3 is set up for another merchant.
Configured == (k1 :> a) @@ (k2 :> a) @@ (k3 :> b)

\* The oldest transaction may fail and be announced later, the others wait.
Fates == [r \in Row |-> IF r = 1 THEN 3 ELSE 1]

\* The two that are set up alike are interchangeable.
Interchangeable == Permutations({k1, k2})

=============================================================================
