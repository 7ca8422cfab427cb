----------------------------- MODULE Acceptance -----------------------------
(***************************************************************************)
(* acceptPayment (apps/api/service.ts), statement by statement: one        *)
(* transaction inserts the payment, its command and its outbox row, under  *)
(* a unique index on the idempotency key.  Calls run concurrently; the     *)
(* process may stop anywhere, the answer may be lost after COMMIT, and a   *)
(* caller that got no answer calls again with the same key.                *)
(***************************************************************************)
CONSTANTS
  Caller,      \* callers; each repeats its request until it is answered
  Key,         \* idempotency keys, each within its merchant
  request,     \* [Caller -> [key : Key, body : fingerprint of the payment]]
  NoPayment    \* no row under a key

ASSUME AcceptanceAssumption ==
  /\ \A p \in Caller : request[p].key \in Key
  /\ "none" \notin Caller /\ "conflict" \notin Caller /\ "refused" \notin Caller
  /\ NoPayment \notin [id : Caller, body : {request[p].body : p \in Caller}]

VARIABLES
  payments,    \* committed rows of payments, by key
  commands,    \* payments with a committed row in commands
  outboxes,    \* payments whose command has a committed row in outbox
  revoked,     \* devices.revoked of the device that is to announce them
  call         \* what every caller does, and what it has been told

acceptanceVars == <<payments, commands, outboxes, revoked, call>>

\* A caller's payment is named by the caller: it inserts at most one that is
\* ever committed, and an identity that was rolled back is never seen.
Payment == [id : Caller, body : {request[p].body : p \in Caller}]

\* checked: the device was found, and is locked FOR SHARE; inserted, commanded,
\* enqueued: so many of the three rows are written, none of them committed;
\* replying: committed (or read), the response is under way.
Phase == {"idle", "checked", "inserted", "commanded", "enqueued", "replying", "done"}

Reply == Caller \cup {"none", "conflict", "refused"}

AcceptanceTypeOK ==
  /\ payments \in [Key -> Payment \cup {NoPayment}]
  /\ commands \in SUBSET Caller
  /\ outboxes \in SUBSET Caller
  /\ revoked \in BOOLEAN
  /\ call \in [Caller -> [phase : Phase, reply : Reply]]
  /\ \A p \in Caller : call[p].phase \in {"replying", "done"} <=> call[p].reply # "none"

AcceptanceInit ==
  /\ payments = [k \in Key |-> NoPayment]
  /\ commands = {}
  /\ outboxes = {}
  /\ revoked = FALSE
  /\ call = [p \in Caller |-> [phase |-> "idle", reply |-> "none"]]

----------------------------------------------------------------------------

Goes(p, phase) == call' = [call EXCEPT ![p].phase = phase]

Replies(p, phase, reply) == call' = [call EXCEPT ![p] = [phase |-> phase, reply |-> reply]]

OpenPhase == {"checked", "inserted", "commanded", "enqueued"}

\* Faulty: a call locks its key in shared mode before it inserts.
HoldsShared(p) == call[p].phase \in OpenPhase

\* p has a row under its key that is not committed yet.
HoldsKey(p) == call[p].phase \in {"inserted", "commanded", "enqueued"}

\* The device is looked up and locked, or not found (404).
Check(p) ==
  /\ call[p].phase = "idle"
  /\ IF revoked THEN Replies(p, "done", "refused") ELSE Goes(p, "checked")
  /\ UNCHANGED <<payments, commands, outboxes, revoked>>

\* INSERT INTO payments waits while another transaction holds the key.
Insert(p) ==
  /\ call[p].phase = "checked"
  /\ payments[request[p].key] = NoPayment
  /\ \A q \in Caller \ {p} : HoldsKey(q) => request[q].key # request[p].key
  /\ Goes(p, "inserted")
  /\ UNCHANGED <<payments, commands, outboxes, revoked>>

\* Faulty: the fingerprint is not compared.
OriginalOfAny(p) == payments[request[p].key].id

\* What a call finds out about the payment that has its key already.
Original(p) ==
  LET original == payments[request[p].key]
  IN IF original.body = request[p].body THEN original.id ELSE "conflict"

\* ON CONFLICT DO NOTHING, and the original is read.
FindOriginal(p) ==
  /\ call[p].phase = "checked"
  /\ payments[request[p].key] # NoPayment
  /\ Replies(p, "replying", Original(p))
  /\ UNCHANGED <<payments, commands, outboxes, revoked>>

\* Faulty: the command is inserted on another connection.
InsertCommandApart(p) ==
  /\ call[p].phase = "inserted"
  /\ Goes(p, "commanded")
  /\ commands' = commands \cup {p}
  /\ UNCHANGED <<payments, outboxes, revoked>>

InsertCommand(p) ==
  /\ call[p].phase = "inserted"
  /\ Goes(p, "commanded")
  /\ UNCHANGED <<payments, commands, outboxes, revoked>>

InsertOutbox(p) ==
  /\ call[p].phase = "commanded"
  /\ Goes(p, "enqueued")
  /\ UNCHANGED <<payments, commands, outboxes, revoked>>

Commit(p) ==
  /\ call[p].phase = "enqueued"
  /\ payments' = [payments EXCEPT ![request[p].key] = [id |-> p, body |-> request[p].body]]
  /\ commands' = commands \cup {p}
  /\ outboxes' = outboxes \cup {p}
  /\ Replies(p, "replying", p)
  /\ UNCHANGED revoked

\* A statement fails or the process stops: ROLLBACK.
Fail(p) ==
  /\ call[p].phase \in OpenPhase
  /\ Goes(p, "idle")
  /\ UNCHANGED <<payments, commands, outboxes, revoked>>

Respond(p) ==
  /\ call[p].phase = "replying"
  /\ Goes(p, "done")
  /\ UNCHANGED <<payments, commands, outboxes, revoked>>

\* The process stops, or the connection breaks, after COMMIT.
Lose(p) ==
  /\ call[p].phase = "replying"
  /\ Replies(p, "idle", "none")
  /\ UNCHANGED <<payments, commands, outboxes, revoked>>

\* Faulty: the device is not locked.
InUseNever == FALSE

\* Some call has the row of the device locked FOR SHARE.
InUse == \E p \in Caller : call[p].phase \in OpenPhase

\* An administrator revokes the device.
Revoke ==
  /\ ~revoked
  /\ ~InUse
  /\ revoked' = TRUE
  /\ UNCHANGED <<payments, commands, outboxes, call>>

Statement(p) ==
  \/ Check(p) \/ Insert(p) \/ FindOriginal(p) \/ InsertCommand(p)
  \/ InsertOutbox(p) \/ Commit(p) \/ Respond(p)

Failure(p) == Fail(p) \/ Lose(p)

AcceptanceNext ==
  \/ \E p \in Caller : Statement(p) \/ Failure(p)
  \/ Revoke

AcceptanceSpec == AcceptanceInit /\ [][AcceptanceNext]_acceptanceVars

\* Calls proceed, callers go on repeating them, and failures come to an end.
FairAcceptanceSpec ==
  /\ AcceptanceSpec
  /\ \A p \in Caller : WF_acceptanceVars(Statement(p))
  /\ <>[][\A p \in Caller : ~Failure(p)]_acceptanceVars

----------------------------------------------------------------------------

\* Payment, command and outbox row are there together or not at all, in every
\* state another transaction can see ("atomic" in docs/reliability.md).
RowsGoTogether ==
  /\ commands = {p \in Caller : \E k \in Key : payments[k] # NoPayment /\ payments[k].id = p}
  /\ outboxes = commands

\* No payment is accepted for a device that has been revoked: what the check
\* found still holds when the transaction commits.
RevokedAcceptsNothing == [][revoked => payments' = payments]_acceptanceVars

\* However calls overlap, fail and are repeated, the payments form an
\* idempotent ledger: a key is given away once, and no caller is told of a
\* payment other than its own request, or of a conflict where there is none.
Told == [p \in Caller |-> IF call[p].phase = "done" THEN call[p].reply ELSE "none"]

Books == INSTANCE Ledger WITH ledger <- payments, reply <- Told

IsLedger == Books!Spec

\* Every caller is answered: no two calls wait for each other's key for ever.
EveryCallerIsAnswered == \A p \in Caller : <>(call[p].phase = "done")

=============================================================================
