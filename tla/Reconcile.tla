----------------------------- MODULE Reconcile -----------------------------
(***************************************************************************)
(* One pass of the reconciler (apps/worker/reconcile.ts), a transaction at *)
(* READ COMMITTED under an advisory lock.  Its two UPDATEs choose their    *)
(* rows in a subquery, against the snapshot the statement starts with, and *)
(* write them one lock later without looking at the condition again; the   *)
(* statements of other transactions that commit in between are therefore   *)
(* separate steps here.                                                    *)
(***************************************************************************)
EXTENDS Service, FiniteSetsExt

CONSTANTS
  Batch,     \* LIMIT of the queries of a pass
  Watched    \* bound of the model: the kinds of incident it keeps.  No step
             \* reads an incident, so the rest of the model is the same
             \* whatever kinds are left out.

VARIABLES
  rec,         \* the pass that holds the advisory lock
  incidents    \* incidents about commands: <<resource_id, kind>>

Kind == {"retry_exhausted", "poison_command", "old_pending",
         "missing_receipt", "conflicting_receipt"}

ASSUME ReconcileAssumption == Batch \in Nat \ {0} /\ Watched \subseteq Kind

\* begun: the expiry UPDATE has its snapshot; expiring: it has written and
\* locked its rows; scanned: the incidents are inserted; choosing: the
\* redelivery UPDATE has its snapshot.
Pass == [phase : {"idle", "begun", "expiring", "scanned", "choosing"},
         victims : SUBSET Command, live : SUBSET Command,
         stale : SUBSET Command, found : SUBSET (Command \X Kind)]

NoPass == [phase |-> "idle", victims |-> {}, live |-> {}, stale |-> {}, found |-> {}]

ReconcileTypeOK ==
  /\ rec \in Pass
  /\ incidents \in SUBSET (Command \X Kind)

ReconcileInit == rec = NoPass /\ incidents = {}

\* What a query with LIMIT Batch may return of the rows S.
Limited(S) ==
  IF Cardinality(S) <= Batch THEN {S} ELSE kSubset(Batch, S)

----------------------------------------------------------------------------

\* Faulty: published commands are left out.
OverdueIfPending == {c \in Command : command[c].state = "pending" /\ ttl[c] = "over"}

Overdue == {c \in Command : command[c].state \in Undecided /\ ttl[c] = "over"}

\* BEGIN, the advisory lock, and the snapshot of the expiry UPDATE.  now() is
\* fixed for the whole pass, so is the set of commands still within their TTL.
RecBegin ==
  /\ rec.phase = "idle"
  /\ \E victims \in Limited(Overdue) :
       rec' = [NoPass EXCEPT !.phase = "begun", !.victims = victims,
                 !.live = {c \in Command : Accepted(c) /\ ttl[c] # "over"}]
  /\ UNCHANGED <<storeVars, evidence, incidents>>

\* The expiry UPDATE has the rows, locked until COMMIT.
RecExpire ==
  /\ rec.phase = "begun"
  /\ rec' = [rec EXCEPT !.phase = "expiring"]
  /\ locked' = rec.victims
  /\ UNCHANGED <<command, outbox, delivery, replays, ttl, sent, evidence, incidents>>

\* The state of a command as the pass itself sees it.
SeenState(c) == IF c \in rec.victims THEN "expired" ELSE command[c].state

DispatchKind(c) ==
  CASE outbox[c].status = "exhausted" -> "retry_exhausted"
    [] outbox[c].status = "permanent" -> "poison_command"
    [] outbox[c].status \in {"pending", "leased"} -> "old_pending"
    [] OTHER -> "missing_receipt"

\* Faulty: a command that a receipt has completed is not left out.
DispatchProblemsOfAll(old) ==
  {<<c, DispatchKind(c)>> : c \in {d \in Command :
      /\ Accepted(d)
      /\ \/ outbox[d].status \in {"exhausted", "permanent"}
         \/ outbox[d].status \in {"pending", "leased"} /\ d \in old
         \/ command[d].acked /\ d \in old}}

\* The dispatches in trouble; old is the set of commands created or published
\* more than 15 seconds ago.
DispatchProblems(old) ==
  {<<c, DispatchKind(c)>> : c \in {d \in Command :
      /\ Accepted(d)
      /\ SeenState(d) # "completed"
      /\ \/ outbox[d].status \in {"exhausted", "permanent"}
         \/ outbox[d].status \in {"pending", "leased"} /\ d \in old
         \/ command[d].acked /\ d \in old}}

Flagged(c) == \E m \in Message : evidence[m].cmd = c /\ evidence[m].conflicting

\* Faulty: conflicts of completed commands are taken for settled.
UnsettledProblems(old) ==
  DispatchProblems(old) \cup
    {<<c, "conflicting_receipt">> :
       c \in {d \in Command : Flagged(d) /\ command[d].state # "completed"}}

\* The rows of the problem query that concern commands.
Problems(old) ==
  DispatchProblems(old) \cup {<<c, "conflicting_receipt">> : c \in {d \in Command : Flagged(d)}}

\* The problem query and the inserts into incidents, ON CONFLICT DO NOTHING.
RecScan ==
  /\ rec.phase = "expiring"
  /\ \E old \in SUBSET Command : \E found \in Limited(Problems(old)) :
       rec' = [rec EXCEPT !.phase = "scanned",
                          !.found = {p \in found : p[2] \in Watched}]
  /\ UNCHANGED <<storeVars, evidence, incidents>>

Silent ==
  {c \in rec.live : /\ outbox[c].status = "published"
                    /\ SeenState(c) # "completed"
                    /\ outbox[c].due}

\* The snapshot of the redelivery UPDATE.
RecChoose ==
  /\ rec.phase = "scanned"
  /\ \E stale \in Limited(Silent) :
       rec' = [rec EXCEPT !.phase = "choosing", !.stale = stale]
  /\ UNCHANGED <<storeVars, evidence, incidents>>

\* Faulty: redelivery renews the budget of attempts.
RedeliveredAnew(row) ==
  [row EXCEPT !.status = "pending", !.due = TRUE, !.attempts = 0]

\* SET status='pending',next_attempt_at=now(): the token and the attempts of
\* the row stay as they are.
Redelivered(row) == [row EXCEPT !.status = "pending", !.due = TRUE]

\* The redelivery UPDATE writes its rows, and the pass commits.
RecCommit ==
  /\ rec.phase = "choosing"
  /\ command' = [c \in Command |->
       IF c \in rec.victims THEN [command[c] EXCEPT !.state = "expired"] ELSE command[c]]
  /\ outbox' = [c \in Command |->
       IF c \in rec.stale THEN Redelivered(outbox[c]) ELSE outbox[c]]
  /\ incidents' = incidents \cup rec.found
  /\ locked' = {}
  /\ rec' = NoPass
  /\ UNCHANGED <<delivery, replays, ttl, sent, evidence>>

\* A statement fails or the worker stops: nothing of the pass remains.
RecRollback ==
  /\ rec.phase # "idle"
  /\ rec' = NoPass
  /\ locked' = {}
  /\ UNCHANGED <<command, outbox, delivery, replays, ttl, sent, evidence, incidents>>

ReconcileNext ==
  RecBegin \/ RecExpire \/ RecScan \/ RecChoose \/ RecCommit \/ RecRollback

=============================================================================
