----------------------------- MODULE Lifecycle -----------------------------
(***************************************************************************)
(* What the documented state machine (packages/contracts/index.ts,         *)
(* transitions) promises of an announcement, whatever processes work on    *)
(* it: an announcement moves only along its edges, one edge the table      *)
(* leaves out excepted (see Forward), and several may move in one          *)
(* transaction.                                                            *)
(***************************************************************************)
CONSTANT Command

VARIABLE phase    \* [Command -> Phase]

Phase == {"none", "pending", "published", "completed", "expired", "unknown"}

\* transitions, with the insertion of the row.
transitions ==
  [from \in Phase |->
     CASE from = "none"      -> {"pending"}
       [] from = "pending"   -> {"published", "completed", "expired", "unknown"}
       [] from = "published" -> {"completed", "expired", "unknown"}
       [] from = "unknown"   -> {"completed", "expired"}
       [] from = "expired"   -> {"completed"}
       [] OTHER              -> {}]

\* receiveEvidence moves an expired command to unknown when a completion
\* stamped after its expiry arrives; the table has no such edge.
Forward(from) ==
  transitions[from] \cup (IF from = "expired" THEN {"unknown"} ELSE {})

Init == phase = [c \in Command |-> "none"]

Next ==
  /\ phase' \in [Command -> Phase]
  /\ \A c \in Command : phase'[c] = phase[c] \/ phase'[c] \in Forward(phase[c])

Spec == Init /\ [][Next]_phase

=============================================================================
