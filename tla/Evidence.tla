------------------------------ MODULE Evidence ------------------------------
(***************************************************************************)
(* receiveEvidence (apps/api/service.ts), statement by statement: how the   *)
(* signed messages of one device, receipts and heartbeats, are told apart,  *)
(* recorded once and acknowledged, while any number of them is handled at   *)
(* once, sent again or given up, keys are revoked, and the worker forgets   *)
(* heartbeats of yesterday (apps/worker/reconcile.ts).                      *)
(*                                                                          *)
(* The locks of Postgres are those of the source: a call shares the device  *)
(* and the key, a heartbeat then wants the device for itself, and an        *)
(* INSERT waits for the identity another call has inserted.                 *)
(***************************************************************************)
EXTENDS Integers

CONSTANTS
  Message,     \* messages with a valid signature; equal ones are one message
  id,          \* messageId
  kind,        \* "receipt" or "heartbeat"
  at,          \* timestamp
  key,         \* credentialVersion
  Fit,         \* receipts of a command there is, not older than its payment
  Version,     \* of the device's credentials
  Handler,     \* bound of the model: calls handled at a time
  Skew,        \* how far a timestamp may be from now (two minutes)
  Day,         \* how long a heartbeat is remembered (one day)
  Patience,    \* how long a transaction may take
  MaxTime,     \* bound of the model: when the clock stops
  MaxFailures, \* bound of the model: calls that fail on the way
  NoMessage

Id == {id[m] : m \in Message}

\* Nothing in the code bounds a transaction but the ten seconds a statement may
\* take; that it is over in half a day is what forgetting heartbeats rests on.
ASSUME EvidenceAssumption ==
  /\ kind \in [Message -> {"receipt", "heartbeat"}]
  /\ at \in [Message -> Nat]
  /\ key \in [Message -> Version]
  /\ Fit \subseteq {m \in Message : kind[m] = "receipt"}
  /\ NoMessage \notin Message
  /\ Skew \in Nat /\ Day \in Nat /\ Patience \in Nat
  /\ MaxTime \in Nat /\ MaxFailures \in Nat
  /\ Day >= 2 * (Skew + Patience)

VARIABLES
  time,
  identities,     \* committed rows of device_messages, by messageId
  lastHeartbeat,  \* devices.last_heartbeat; 0 before the first one
  revoked,        \* keys that are revoked, all of them when the device is
  failures,       \* how many calls have failed
  handler,        \* the calls: message, statement, now() of the transaction
  counted,        \* how often a message has taken effect
  acknowledged    \* messages of which a caller was told that they are taken

tables == <<identities, lastHeartbeat, counted>>
evidenceVars == <<time, tables, revoked, failures, handler, acknowledged>>

\* begun: BEGIN; checked: the key was found, it and the device are locked FOR
\* SHARE; unseen: no row has the identity, and the timestamp is allowed;
\* found: the INSERT met a row after all; inserted; beaten: the device is
\* updated; recorded: the receipt and its verdict are written.
Shared == {"checked", "unseen", "found", "inserted", "recorded"}

Phase == {"idle", "begun", "beaten"} \cup Shared

Idle == [phase |-> "idle", message |-> NoMessage, began |-> 0]

Forgotten == [message |-> NoMessage, received |-> 0]

EvidenceTypeOK ==
  /\ time \in 0..MaxTime
  /\ identities \in [Id -> [message : Message, received : 0..MaxTime] \cup {Forgotten}]
  /\ \A i \in Id : identities[i].message # NoMessage => id[identities[i].message] = i
  /\ lastHeartbeat \in Nat
  /\ revoked \in SUBSET Version
  /\ handler \in [Handler -> [phase : Phase, message : Message \cup {NoMessage}, began : 0..MaxTime]]
  /\ \A h \in Handler : handler[h].phase # "idle" =>
       handler[h].message # NoMessage /\ handler[h].began <= time
  /\ counted \in [Message -> Nat]
  /\ failures \in 0..MaxFailures
  /\ acknowledged \in SUBSET Message

EvidenceInit ==
  /\ time = 0
  /\ identities = [i \in Id |-> Forgotten]
  /\ lastHeartbeat = 0
  /\ revoked = {} /\ failures = 0
  /\ handler = [h \in Handler |-> Idle]
  /\ counted = [m \in Message |-> 0]
  /\ acknowledged = {}

----------------------------------------------------------------------------

At(h, phase) == handler[h].phase = phase

Its(h) == handler[h].message

Seen(h) == identities[id[Its(h)]]

Goes(h, phase) == handler' = [handler EXCEPT ![h].phase = phase]

\* COMMIT of what only read, or ROLLBACK.
Ends(h) == handler' = [handler EXCEPT ![h] = Idle]

\* The row of the identity has not been committed yet.
HoldsId(h, i) == handler[h].phase \in {"inserted", "beaten", "recorded"} /\ id[Its(h)] = i

\* Faulty: receipts update the device as well.
UpdatesAlways(h) == At(h, "inserted")

\* h is about to update the device.
Updates(h) == At(h, "inserted") /\ kind[Its(h)] = "heartbeat"

\* The calls whose locks the next statement of h has to wait for.
WaitsFor(h) ==
  {g \in Handler \ {h} :
     \/ At(h, "begun") /\ At(g, "beaten")
     \/ At(h, "unseen") /\ HoldsId(g, id[Its(h)])
     \/ Updates(h) /\ handler[g].phase \in Shared}

Runs(h) == WaitsFor(h) = {}

\* now() of the transaction
Now(m) == time

Begin(h, m) ==
  /\ At(h, "idle")
  /\ handler' = [handler EXCEPT ![h] = [phase |-> "begun", message |-> m, began |-> Now(m)]]
  /\ UNCHANGED <<time, tables, revoked, failures, acknowledged>>

\* The key is looked up and locked with its device, or not found (401).
Check(h) ==
  /\ At(h, "begun") /\ Runs(h)
  /\ IF key[Its(h)] \in revoked THEN Ends(h) ELSE Goes(h, "checked")
  /\ UNCHANGED <<time, tables, revoked, failures, acknowledged>>

\* The identity is known: a duplicate of the same message is acknowledged, any
\* other is refused (409).
Tells(h) == IF Seen(h).message = Its(h) THEN acknowledged \cup {Its(h)} ELSE acknowledged

\* Faulty: receipts as well have to be recent.
Recent(m) == at[m] <= time + Skew /\ at[m] >= time - Skew

InWindow(m) ==
  /\ at[m] <= time + Skew
  /\ kind[m] = "heartbeat" => at[m] >= time - Skew

\* The identity is looked up; if there is none, the timestamp is judged (422).
Look(h) ==
  /\ At(h, "checked")
  /\ IF Seen(h) # Forgotten THEN Ends(h) /\ acknowledged' = Tells(h)
     ELSE /\ IF InWindow(Its(h)) THEN Goes(h, "unseen") ELSE Ends(h)
          /\ UNCHANGED acknowledged
  /\ UNCHANGED <<time, tables, revoked, failures>>

\* INSERT ... ON CONFLICT DO NOTHING
Insert(h) ==
  /\ At(h, "unseen") /\ Runs(h)
  /\ Goes(h, IF Seen(h) = Forgotten THEN "inserted" ELSE "found")
  /\ UNCHANGED <<time, tables, revoked, failures, acknowledged>>

\* The row the INSERT met is read; without one, reading it would throw (500).
Reread(h) ==
  /\ At(h, "found")
  /\ Ends(h) /\ acknowledged' = Tells(h)
  /\ UNCHANGED <<time, tables, revoked, failures>>

\* The device is locked for the UPDATE of a heartbeat.
Beat(h) ==
  /\ Updates(h) /\ Runs(h)
  /\ Goes(h, "beaten")
  /\ UNCHANGED <<time, tables, revoked, failures, acknowledged>>

\* The receipt is written with its verdict, or refused (404, 422).
Record(h) ==
  /\ At(h, "inserted") /\ kind[Its(h)] = "receipt"
  /\ IF Its(h) \in Fit THEN Goes(h, "recorded") ELSE Ends(h)
  /\ UNCHANGED <<time, tables, revoked, failures, acknowledged>>

\* GREATEST
Latest(t) == IF lastHeartbeat > t THEN lastHeartbeat ELSE t

\* received_at, which is asked of heartbeats only.
Received(h) == IF At(h, "beaten") THEN handler[h].began ELSE 0

Commit(h) ==
  /\ handler[h].phase \in {"beaten", "recorded"}
  /\ identities' = [identities EXCEPT ![id[Its(h)]] =
                      [message |-> Its(h), received |-> Received(h)]]
  /\ counted' = [counted EXCEPT ![Its(h)] = @ + 1]
  /\ lastHeartbeat' = IF At(h, "beaten") THEN Latest(at[Its(h)]) ELSE lastHeartbeat
  /\ acknowledged' = acknowledged \cup {Its(h)}
  /\ Ends(h)
  /\ UNCHANGED <<time, revoked, failures>>

\* A statement fails, or takes ten seconds; or the process stops.
Fail(h) ==
  /\ ~At(h, "idle")
  /\ failures < MaxFailures /\ failures' = failures + 1
  /\ Ends(h)
  /\ UNCHANGED <<time, tables, revoked, acknowledged>>

\* Calls that wait for each other: heartbeats for the device they all share,
\* or one of them for the identity of another.
Circle(H) == H # {} /\ \A h \in H : WaitsFor(h) \cap H # {}

\* Postgres ends the deadlock by failing one of them.
Victim(h) ==
  /\ \E H \in SUBSET Handler : h \in H /\ Circle(H)
  /\ Ends(h)
  /\ UNCHANGED <<time, tables, revoked, failures, acknowledged>>

----------------------------------------------------------------------------

Tick ==
  /\ time < MaxTime
  /\ \A h \in Handler : At(h, "idle") \/ time < handler[h].began + Patience
  /\ time' = time + 1
  /\ UNCHANGED <<tables, revoked, failures, handler, acknowledged>>

\* Faulty: a heartbeat is forgotten when a message of its time would be refused.
LeftWindow(row) ==
  row # Forgotten /\ kind[row.message] = "heartbeat" /\ row.received < time - Skew

\* What the reconciler deletes, 500 rows at a time.
Forgettable(row) ==
  row # Forgotten /\ kind[row.message] = "heartbeat" /\ row.received < time - Day

Forget(i) ==
  /\ Forgettable(identities[i])
  /\ identities' = [identities EXCEPT ![i] = Forgotten]
  /\ UNCHANGED <<time, lastHeartbeat, counted, revoked, failures, handler, acknowledged>>

\* Faulty: keys are not locked.
InUseNever(v) == FALSE

\* Some call has locked the key.
InUse(v) == \E h \in Handler : handler[h].phase \in Shared \cup {"beaten"} /\ key[Its(h)] = v

\* An administrator revokes one key, or the device with all.
Revoke(keys) ==
  /\ keys # {}
  /\ \A v \in keys : ~InUse(v)
  /\ revoked' = revoked \cup keys
  /\ UNCHANGED <<time, tables, failures, handler, acknowledged>>

Statement(h) ==
  Check(h) \/ Look(h) \/ Insert(h) \/ Reread(h) \/ Beat(h) \/ Record(h) \/ Commit(h)

EvidenceNext ==
  \/ \E h \in Handler, m \in Message : Begin(h, m)
  \/ \E h \in Handler : Statement(h) \/ Fail(h) \/ Victim(h)
  \/ Tick
  \/ \E i \in Id : Forget(i)
  \/ Revoke(Version \ revoked) \/ \E v \in Version \ revoked : Revoke({v})

EvidenceSpec == EvidenceInit /\ [][EvidenceNext]_evidenceVars

\* Locks are granted in turn, deadlocks are found, the simulator sends a receipt
\* over and over.  (Failures come to an end: MaxFailures.)
FairEvidenceSpec ==
  /\ EvidenceSpec
  /\ \A h \in Handler : SF_evidenceVars(Statement(h)) /\ WF_evidenceVars(Victim(h))
  /\ \A m \in Fit : SF_evidenceVars(\E h \in Handler : Begin(h, m))

----------------------------------------------------------------------------

\* However often a message is sent, and how many of its copies are handled at
\* once, it takes effect once: also when the worker has forgotten a heartbeat,
\* for by then, and as long as any call may take, its timestamp is refused.
CountedOnce == \A m \in Message : counted[m] <= 1

\* Who is told that a message is taken can rely on it: what was found under its
\* identity is this very message, committed.
AcknowledgedIsCounted == acknowledged \subseteq {m \in Message : counted[m] > 0}

\* An identity belongs to one receipt, whichever of two comes first.
OneReceiptPerIdentity ==
  \A m, n \in Message :
    kind[m] = "receipt" /\ kind[n] = "receipt" /\ id[m] = id[n] /\ counted[m] > 0 /\ counted[n] > 0
      => m = n

\* Every message takes effect at most once, and exactly once if its sender was
\* told so, and of receipts with one identity one does.
TakenOnce == CountedOnce /\ AcknowledgedIsCounted /\ OneReceiptPerIdentity

\* The device was last heard of at the latest heartbeat recorded, in whichever
\* order heartbeats arrive and are committed.
HeartbeatIsLatest ==
  LET beats == {at[m] : m \in {n \in Message : kind[n] = "heartbeat" /\ counted[n] > 0}}
  IN lastHeartbeat \in beats \cup {0} /\ \A t \in beats : t <= lastHeartbeat

\* Heartbeats may deadlock (two copies of one that overlap always do), receipts
\* do not: what was played is not held up by the row that heartbeats fight for.
\* Only a device that gave a heartbeat the identity of a receipt could have both
\* in one deadlock.
ReceiptsNeverDeadlock ==
  \A H \in SUBSET Handler : Circle(H) =>
    \A h \in H : \E g \in H :
      kind[Its(g)] = "heartbeat" /\ (g = h \/ id[Its(g)] = id[Its(h)])

\* Nothing signed with a key takes effect once it is revoked: what the check
\* found still holds when the transaction commits.
RevokedTakesNothing ==
  [][\A m \in Message : key[m] \in revoked => counted'[m] = counted[m]]_evidenceVars

\* Calls that overlap, wait, fail, deadlock or come again, rows that are
\* forgotten and keys that are revoked meanwhile are invisible: to the device,
\* its messages are taken one at a time by something that forgets nothing.
OneAtATime == INSTANCE Intake WITH Freshness <- Skew + Patience

IsIntake == OneAtATime!IntakeSpec

\* A receipt that is sent over and over is taken, however old it is by then,
\* unless its key is revoked or its identity is another message's.
RepeatedIsTaken ==
  \A m \in Fit :
    <>[](key[m] \notin revoked /\ at[m] <= time + Skew)
      => <>(\E n \in Message : id[n] = id[m] /\ counted[n] > 0)

=============================================================================
