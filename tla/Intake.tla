------------------------------- MODULE Intake -------------------------------
(***************************************************************************)
(* What receiveEvidence promises the device whose messages it takes, as if *)
(* one message were handled at a time and nothing were ever forgotten: a   *)
(* message takes effect at most once, while its key is good; of receipts   *)
(* with one identity one does; a heartbeat does while it is fresh, and the *)
(* device was last heard of at the latest one; and only of what has taken  *)
(* effect is a sender told that it is taken.                               *)
(***************************************************************************)
EXTENDS Integers

CONSTANTS Message, id, kind, at, key,
          Freshness   \* how old a heartbeat may be when it takes effect

VARIABLES
  time,
  counted,        \* how often a message has taken effect
  lastHeartbeat,
  revoked,        \* keys
  acknowledged    \* messages of which a sender was told that they are taken

intakeVars == <<time, counted, lastHeartbeat, revoked, acknowledged>>

IntakeInit ==
  /\ time = 0 /\ lastHeartbeat = 0
  /\ counted = [m \in Message |-> 0]
  /\ revoked = {} /\ acknowledged = {}

Twins(m) == {n \in Message : id[n] = id[m] /\ kind[n] = "receipt" /\ kind[m] = "receipt"}

Take(m) ==
  /\ counted[m] = 0 /\ \A n \in Twins(m) : counted[n] = 0
  /\ key[m] \notin revoked
  /\ \/ kind[m] = "receipt" /\ lastHeartbeat' = lastHeartbeat
     \/ /\ kind[m] = "heartbeat" /\ time <= at[m] + Freshness
        /\ lastHeartbeat' = IF lastHeartbeat > at[m] THEN lastHeartbeat ELSE at[m]
  /\ counted' = [counted EXCEPT ![m] = 1]
  /\ acknowledged' = acknowledged \cup {m}
  /\ UNCHANGED <<time, revoked>>

\* A copy is answered like the message that was taken.
Tell(m) ==
  /\ counted[m] > 0 /\ key[m] \notin revoked
  /\ acknowledged' = acknowledged \cup {m}
  /\ UNCHANGED <<time, counted, lastHeartbeat, revoked>>

TimePasses ==
  /\ time' > time
  /\ UNCHANGED <<counted, lastHeartbeat, revoked, acknowledged>>

Revoke ==
  /\ revoked \subseteq revoked'
  /\ UNCHANGED <<time, counted, lastHeartbeat, acknowledged>>

IntakeNext == (\E m \in Message : Take(m) \/ Tell(m)) \/ TimePasses \/ Revoke

IntakeSpec == IntakeInit /\ [][IntakeNext]_intakeVars

=============================================================================
