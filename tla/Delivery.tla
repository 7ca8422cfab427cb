------------------------------ MODULE Delivery ------------------------------
(***************************************************************************)
(* The delivery of announcements: the dispatch worker, the reconciler and  *)
(* the API at work on the shared rows, with time passing.                  *)
(***************************************************************************)
EXTENDS Dispatch, Reconcile

vars == <<command, outbox, delivery, replays, locked, ttl, sent,
          task, rec, incidents, evidence>>

Init == StoreInit /\ DispatchInit /\ ReconcileInit /\ ServiceInit

DispatchStep(t) == DispatchNext(t) /\ UNCHANGED <<rec, incidents, evidence>>

ReconcileStep == ReconcileNext /\ UNCHANGED task

ServiceStep == ServiceNext /\ UNCHANGED <<task, rec, incidents>>

TimeStep(c) == Time(c) /\ UNCHANGED <<task, rec, incidents, evidence>>

Next ==
  \/ \E t \in Task : DispatchStep(t)
  \/ ReconcileStep
  \/ ServiceStep
  \/ \E c \in Command : TimeStep(c)

Spec == Init /\ [][Next]_vars

----------------------------------------------------------------------------
(* Fairness *)

ClaimStep(t) ==
  (\E c \in Command : ClaimRow(t, c) \/ ClaimExhausted(t, c))
    /\ UNCHANGED <<rec, incidents, evidence>>

WorkStep(t) == Work(t) /\ UNCHANGED <<rec, incidents, evidence>>

\* Time passes; the cycles of some worker go on, since main.ts catches every
\* error of a cycle and starts the next one; a call that neither stops nor
\* throws proceeds.  Any number of passes of the reconciler may fail, but when
\* a statement of a pass is tried again and again it succeeds in the end.
Fairness ==
  /\ \A c \in Command :
       /\ WF_vars(LeaseLapses(c) /\ UNCHANGED <<task, rec, incidents, evidence>>)
       /\ WF_vars(ComesDue(c) /\ UNCHANGED <<task, rec, incidents, evidence>>)
       /\ WF_vars(Ages(c) /\ UNCHANGED <<task, rec, incidents, evidence>>)
  /\ \A t \in Task : WF_vars(ClaimStep(t)) /\ WF_vars(WorkStep(t))
  /\ WF_vars(RecBegin /\ UNCHANGED task)
  /\ SF_vars(RecExpire /\ UNCHANGED task)
  /\ SF_vars(RecScan /\ UNCHANGED task)
  /\ SF_vars(RecChoose /\ UNCHANGED task)
  /\ SF_vars(RecCommit /\ UNCHANGED task)

FairSpec == Spec /\ Fairness

----------------------------------------------------------------------------
(* Types *)

\* Every variable has its type (the columns of 001_core.sql and their CHECKs).
TypeOK == StoreTypeOK /\ DispatchTypeOK /\ ServiceTypeOK /\ ReconcileTypeOK

----------------------------------------------------------------------------
(* Leases and attempts *)

\* A row that carries a lease token points at its newest attempt, and that
\* attempt alone is open: whatever claim, finish, redelivery and replay do to
\* a row, they strand no attempt as 'claimed' and reopen none.  The
\* redelivery UPDATE keeps the token of a row that it takes from under a
\* worker, and replay erases the token without closing its attempt.
OpenAttempt(c) ==
  /\ outbox[c].token # 0 =>
       /\ outbox[c].status \in {"pending", "leased"}
       /\ outbox[c].token = Len(delivery[c])
       /\ delivery[c][outbox[c].token] = "claimed"
  /\ outbox[c].status = "leased" => outbox[c].token # 0
  /\ \A i \in DOMAIN delivery[c] :
       delivery[c][i] = "claimed" => i = outbox[c].token

OpenAttemptIsCurrent == \A c \in Command : OpenAttempt(c)

\* The outcome of an attempt is final: the UPDATE of delivery_attempts in
\* finish does not ask for outcome='claimed', so only the fencing token keeps
\* a worker that was overtaken from rewriting what was recorded for it.
AttemptOutcomeIsFinal ==
  [][\A c \in Command : \A i \in DOMAIN delivery[c] :
       /\ i \in DOMAIN delivery'[c]
       /\ delivery[c][i] # "claimed" => delivery'[c][i] = delivery[c][i]]_vars

\* Between two operator replays a command is claimed at most MAX_ATTEMPTS
\* times: automatic redelivery, lost leases, failed finishes and restarts all
\* draw on the one budget.
AttemptsWithinBudget ==
  \A c \in Command : Len(delivery[c]) <= MaxAttempts * (replays[c] + 1)

----------------------------------------------------------------------------
(* Dispatch status and command state, which different transactions write *)

\* A row that dispatch has given up or let expire belongs to a command that
\* is no longer presented as under way, and a row recorded as published to a
\* command with a published_at; a command is published only after the broker
\* has been handed its packet.
StatusAgreesWithState ==
  \A c \in Command :
    /\ outbox[c].status \in {"exhausted", "expired"} => command[c].state \notin Undecided
    /\ outbox[c].status = "published" => command[c].acked /\ command[c].state # "pending"
    /\ command[c].state = "published" => command[c].acked
    /\ command[c].acked => sent[c]

\* The log of attempts explains the other tables: published_at is set exactly
\* when some attempt is recorded as published, and the outcome a row stands at
\* is that of its newest attempt, although finish, claim, redelivery and replay
\* write them apart, and finish may be run again after a COMMIT whose answer
\* was lost.
LogExplainsRow ==
  \A c \in Command :
    /\ command[c].acked <=> \E i \in DOMAIN delivery[c] : delivery[c][i] = "published"
    /\ outbox[c].status \in {"published", "permanent", "expired"} =>
         delivery[c] # <<>> /\ delivery[c][Len(delivery[c])] = outbox[c].status

\* The tables that claim, finish, the reconciler and the API write agree.
TablesAgree == StatusAgreesWithState /\ LogExplainsRow

----------------------------------------------------------------------------
(* Verdicts *)

Received(c, result) ==
  \E m \in Message : evidence[m].cmd = c /\ evidence[m].result = result

\* A command counts as completed exactly on the proof of a recorded receipt
\* of an effect in time; completed_at is set with it.
CompletionIsProved ==
  \A c \in Command :
    /\ command[c].done <=> Received(c, "completed")
    /\ command[c].state = "completed" => command[c].done

\* A command is reported expired only when its lifetime has really entered
\* its last second, or its device said so.
ExpiryIsJustified ==
  \A c \in Command :
    command[c].state = "expired" => ttl[c] # "live" \/ Received(c, "expired")

\* A command becomes unknown only on a spent budget of attempts or on
\* evidence of an effect after its expiry.
UnknownIsJustified ==
  \A c \in Command :
    command[c].state = "unknown" =>
      Len(delivery[c]) >= MaxAttempts \/ Received(c, "late")

\* What a command is declared to be rests on evidence, on the clock or on a
\* spent budget, however verdicts of API, worker and reconciler overtake each
\* other.
VerdictsAreJustified == CompletionIsProved /\ ExpiryIsJustified /\ UnknownIsJustified

\* Two receipts of one command that contradict each other leave a receipt
\* marked conflicting, in whatever order they arrive and whatever the
\* reconciler and the worker do to the command between them -- as long as the
\* reconciler has not overwritten a completion (see CompletedIsTerminal).
ContradictionIsFlagged ==
  \A c \in Command :
    Received(c, "completed") /\ Received(c, "expired") =>
      Flagged(c) \/ command[c].state # "completed"

\* What an incident rests on and nothing takes back: a spent budget, a malformed
\* payload, a packet handed over and recorded as published, a marked receipt.
Grounded(c, kind) ==
  CASE kind = "retry_exhausted" -> Len(delivery[c]) >= MaxAttempts
    [] kind = "poison_command" -> c \in Poison
    [] kind = "missing_receipt" -> sent[c] /\ command[c].acked
    [] kind = "conflicting_receipt" -> Flagged(c)
    [] OTHER -> Accepted(c)

\* No receipt counts as having completed it, as the pass under way sees it:
\* none is recorded, or this pass or an earlier one has overwritten it.
Outstanding(c) ==
  Received(c, "completed") => c \in rec.victims \/ command[c].state # "completed"

\* What an incident says.
HoldsTrue(p) ==
  Grounded(p[1], p[2]) /\ (p[2] # "conflicting_receipt" => Outstanding(p[1]))

ReceiptCompletes(c) ==
  \E m \in Message : evidence[m] = NoReceipt /\ evidence'[m].cmd = c /\ evidence'[m].result = "completed"

IncidentsAreGrounded == \A p \in incidents : Grounded(p[1], p[2])

\* An incident was true when its pass queried the problems (reconcile.ts:20), and
\* nothing else is ever recorded.  When the pass commits it may be late by one
\* thing only: a receipt has completed the command after the query.  What it
\* rests on is never taken back.
IncidentsWereTrue ==
  /\ []IncidentsAreGrounded
  /\ [][/\ \A p \in rec'.found \ rec.found : HoldsTrue(p)
        /\ \A p \in rec.found \cap rec'.found :
             HoldsTrue(p) /\ ~HoldsTrue(p)' => ReceiptCompletes(p[1])
        /\ \A p \in incidents' \ incidents :
             p \in rec.found /\ (HoldsTrue(p) => HoldsTrue(p)')]_vars

\* published_at and completed_at are written once, and the only transaction
\* that takes a command out of completed is the pass of the reconciler whose
\* expiry UPDATE chose it before it completed.
CompletionLostOnlyToExpiry ==
  [][\A c \in Command :
       /\ command[c].acked => command'[c].acked
       /\ command[c].done => command'[c].done
       /\ command[c].state = "completed" /\ command'[c].state # "completed" =>
            c \in rec.victims /\ command'[c].state = "expired"]_vars

\* Every announcement moves along the documented state machine, a completion
\* that was overwritten still counting as one.
LifecyclePhase == [c \in Command |->
  IF command[c].done THEN "completed" ELSE command[c].state]

Announcements == INSTANCE Lifecycle WITH phase <- LifecyclePhase

FollowsLifecycle == Announcements!Spec

----------------------------------------------------------------------------
(* What the invariants above rest on *)

\* attempts counts the attempts since the last replay; a row is exhausted on a
\* spent budget only, and permanent on a malformed payload only.
RowsAreAccounted ==
  \A c \in Command :
    /\ outbox[c].attempts <= Len(delivery[c])
    /\ Len(delivery[c]) <= MaxAttempts * replays[c] + outbox[c].attempts
    /\ outbox[c].status = "exhausted" => Len(delivery[c]) >= MaxAttempts
    /\ outbox[c].status = "permanent" => c \in Poison

\* What a dispatch call is about to report has really happened, even if its
\* lease is long lost.
CallIsTruthful(item) ==
  /\ item.attempts <= Len(delivery[item.cmd])
  /\ item.phase = "sending" \/ item.outcome = "published" => sent[item.cmd]
  /\ item.outcome = "expired" => ttl[item.cmd] # "live"
  /\ item.outcome = "permanent" => item.cmd \in Poison

CallsAreTruthful == \A t \in Task : task[t] # Idle => CallIsTruthful(task[t])

\* What a pass is about to write is justified, though the rows may have moved.
PassIsTruthful ==
  /\ \A c \in rec.victims : Accepted(c) /\ ttl[c] = "over"
  /\ \A p \in rec.found : Grounded(p[1], p[2])

\* A completion presupposes the row; an expiry the device has reported stands
\* unless some receipt of the command is flagged.
ReceiptsAreWeighed ==
  \A c \in Command :
    /\ command[c].done => Accepted(c)
    /\ Received(c, "expired") => Flagged(c) \/ command[c].state = "expired"

Supported ==
  RowsAreAccounted /\ CallsAreTruthful /\ PassIsTruthful /\ ReceiptsAreWeighed

----------------------------------------------------------------------------
(* Progress *)

\* Every accepted command is decided: it does not stay pending or published.
EveryCommandIsDecided ==
  \A c \in Command : Accepted(c) ~> command[c].state \notin Undecided

\* The dispatch of every command comes to rest: redelivery and retries end.
DispatchComesToRest ==
  \A c \in Command : <>[](outbox[c].status \notin {"pending", "leased"})

\* Conflicting evidence is investigated: an incident is opened for it.
ConflictIsInvestigated ==
  \A c \in Command :
    Flagged(c) ~> <<c, "conflicting_receipt">> \in incidents

----------------------------------------------------------------------------
(* What the documentation says and the code does not keep *)

\* docs/architecture.md: "Completed is terminal."
CompletedIsTerminal ==
  [][\A c \in Command :
       command[c].state = "completed" => command'[c].state = "completed"]_vars

=============================================================================
