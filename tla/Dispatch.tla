------------------------------ MODULE Dispatch ------------------------------
(***************************************************************************)
(* The dispatch worker (apps/worker/dispatch.ts): claim leases an outbox   *)
(* row, dispatch publishes the command to the broker outside any           *)
(* transaction, finish records the outcome if the lease still holds.  A    *)
(* Task is one such call of dispatch, in any worker process.               *)
(***************************************************************************)
EXTENDS Store

CONSTANTS
  Task,     \* concurrent dispatch calls, over all worker processes
  Poison    \* commands whose payload commandSchema rejects

ASSUME DispatchAssumption == Poison \subseteq Command

VARIABLE task

\* A claim with the progress of its dispatch: "claimed" before publish,
\* "sending" while the broker's PUBACK is awaited, "decided" when finish is
\* about to be called, "finishing" inside its transaction.
Claim ==
  {item \in [phase : {"claimed", "sending", "decided", "finishing"},
             cmd : Command, token : Nat \ {0}, attempts : 1..MaxAttempts,
             outcome : Outcome \cup {"none"}, fresh : BOOLEAN] :
     item.outcome = "none" <=> item.phase \in {"claimed", "sending"}}

Idle == [phase |-> "idle"]

DispatchTypeOK == task \in [Task -> {Idle} \cup Claim]

DispatchInit == task = [t \in Task |-> Idle]

----------------------------------------------------------------------------
(* claim *)

\* Faulty: only pending rows are looked for.
ClaimableIfPending(c) == outbox[c].status = "pending" /\ outbox[c].due

\* WHERE (status='pending' AND next_attempt_at<=now())
\*    OR (status='leased' AND lease_until<now())
Claimable(c) ==
  \/ outbox[c].status = "pending" /\ outbox[c].due
  \/ outbox[c].status = "leased" /\ ~outbox[c].lease

\* Faulty: attempts may exceed the budget by one, or stop one short of it.
HasBudgetAndOne(c) == outbox[c].attempts <= MaxAttempts
HasBudgetLessOne(c) == outbox[c].attempts + 1 < MaxAttempts

HasBudget(c) == outbox[c].attempts < MaxAttempts

\* Faulty: the attempt whose lease ran out is left open.
AbandonedOpen(c) == delivery[c]

\* The attempts of c after the one its row still points at, if any, has been
\* closed as lease_expired.
Abandoned(c) ==
  [i \in DOMAIN delivery[c] |->
     IF i = outbox[c].token /\ delivery[c][i] = "claimed"
       THEN "lease_expired" ELSE delivery[c][i]]

\* The row is leased to t under a new token, and the attempt is logged.  The
\* query takes the oldest claimable row that nobody else has locked; which one
\* that is, is left open.
ClaimRow(t, c) ==
  /\ task[t] = Idle
  /\ Claimable(c)
  /\ HasBudget(c)
  /\ LET token == Len(delivery[c]) + 1
         attempts == outbox[c].attempts + 1
     IN /\ outbox' = [outbox EXCEPT ![c] =
                        [@ EXCEPT !.status = "leased", !.attempts = attempts,
                                  !.token = token, !.lease = TRUE]]
        /\ delivery' = [delivery EXCEPT ![c] = Append(Abandoned(c), "claimed")]
        /\ task' = [task EXCEPT ![t] =
                      [phase |-> "claimed", cmd |-> c, token |-> token,
                       attempts |-> attempts, outcome |-> "none", fresh |-> FALSE]]
  /\ UNCHANGED <<command, replays, locked, ttl, sent>>

\* The budget is spent: claim retires the row and returns nothing.
ClaimExhausted(t, c) ==
  /\ task[t] = Idle
  /\ Claimable(c)
  /\ ~HasBudget(c)
  /\ c \notin locked
  /\ outbox' = [outbox EXCEPT ![c] =
                  [@ EXCEPT !.status = "exhausted", !.token = 0, !.lease = FALSE]]
  /\ delivery' = [delivery EXCEPT ![c] = Abandoned(c)]
  /\ command' = [command EXCEPT ![c] = Decided(@, "unknown")]
  /\ UNCHANGED <<task, replays, locked, ttl, sent>>

----------------------------------------------------------------------------
(* dispatch *)

\* The call of dispatch has its outcome and goes on to finish.
Decide(t, outcome) ==
  task' = [task EXCEPT ![t] = [@ EXCEPT !.phase = "decided", !.outcome = outcome]]

RejectPayload(t) ==
  /\ task[t].phase = "claimed"
  /\ task[t].cmd \in Poison
  /\ Decide(t, "permanent")
  /\ UNCHANGED storeVars

\* Math.floor(... / 1000) <= 0
FindExpired(t) ==
  /\ task[t].phase = "claimed"
  /\ task[t].cmd \notin Poison
  /\ ttl[task[t].cmd] # "live"
  /\ Decide(t, "expired")
  /\ UNCHANGED storeVars

\* The packet is handed to the MQTT client, which may deliver it at any later
\* time, whatever becomes of the call.
Publish(t) ==
  /\ task[t].phase = "claimed"
  /\ task[t].cmd \notin Poison
  /\ ttl[task[t].cmd] = "live"
  /\ task' = [task EXCEPT ![t] = [@ EXCEPT !.phase = "sending"]]
  /\ sent' = [sent EXCEPT ![task[t].cmd] = TRUE]
  /\ UNCHANGED <<command, outbox, delivery, replays, locked, ttl>>

BrokerUnavailable(t) ==
  /\ task[t].phase = "claimed"
  /\ task[t].cmd \notin Poison
  /\ ttl[task[t].cmd] = "live"
  /\ Decide(t, "retry")
  /\ UNCHANGED storeVars

\* The PUBACK arrives ("published"), or the timer or an error wins ("retry").
PublishEnds(t) ==
  /\ task[t].phase = "sending"
  /\ \E outcome \in {"published", "retry"} : Decide(t, outcome)
  /\ UNCHANGED storeVars

----------------------------------------------------------------------------
(* finish *)

\* BEGIN fixes now(), which the UPDATE later compares with lease_until.
BeginFinish(t) ==
  /\ task[t].phase = "decided"
  /\ task' = [task EXCEPT ![t] = [@ EXCEPT !.phase = "finishing",
                                           !.fresh = outbox[task[t].cmd].lease]]
  /\ UNCHANGED storeVars

FinishStatus(item) ==
  IF item.outcome # "retry" THEN item.outcome
  ELSE IF item.attempts >= MaxAttempts THEN "exhausted" ELSE "pending"

\* Faulty: the lease is not compared with the token of the call.
HoldsAnyLease(item) == outbox[item.cmd].status = "leased" /\ item.fresh

\* WHERE lease_token=$2 AND status='leased' AND lease_until>now()
HoldsLease(item) ==
  /\ outbox[item.cmd].token = item.token
  /\ outbox[item.cmd].status = "leased"
  /\ item.fresh

\* Faulty: a publication overwrites whatever verdict there is.
ConcludedAnew(row, item) ==
  CASE FinishStatus(item) = "published" -> [row EXCEPT !.acked = TRUE, !.state = "published"]
    [] FinishStatus(item) = "expired" -> Decided(row, "expired")
    [] FinishStatus(item) = "exhausted" -> Decided(row, "unknown")
    [] OTHER -> row

\* The commands row after finish.
Concluded(row, item) ==
  CASE FinishStatus(item) = "published" ->
         [row EXCEPT !.acked = TRUE,
                     !.state = IF @ = "pending" THEN "published" ELSE @]
    [] FinishStatus(item) = "expired" -> Decided(row, "expired")
    [] FinishStatus(item) = "exhausted" -> Decided(row, "unknown")
    [] OTHER -> row

\* The updates of finish.  Those of commands wait for the row's lock.
Record(item) ==
  LET c == item.cmd
      status == FinishStatus(item)
  IN /\ status \in {"published", "expired", "exhausted"} => c \notin locked
     /\ outbox' = [outbox EXCEPT ![c] =
                     [@ EXCEPT !.status = status, !.token = 0,
                               !.lease = FALSE, !.due = FALSE]]
     /\ delivery' = [delivery EXCEPT ![c] =
                       [@ EXCEPT ![item.token] = item.outcome]]
     /\ command' = [command EXCEPT ![c] = Concluded(@, item)]
     /\ UNCHANGED <<replays, locked, ttl, sent>>

\* COMMIT.  If the lease is lost nothing is written.
FinishEffect(item) ==
  \/ HoldsLease(item) /\ Record(item)
  \/ ~HoldsLease(item) /\ UNCHANGED storeVars

Finish(t) ==
  /\ task[t].phase = "finishing"
  /\ FinishEffect(task[t])
  /\ task' = [task EXCEPT ![t] = Idle]

\* finish throws: it was rolled back, or the answer to COMMIT was lost after
\* the database had committed.  If it was recording a publication, the catch
\* of dispatch tries again with 'retry'; otherwise dispatch itself throws.
FinishThrows(t) ==
  /\ task[t].phase = "finishing"
  /\ FinishEffect(task[t]) \/ UNCHANGED storeVars
  /\ IF task[t].outcome = "published"
       THEN Decide(t, "retry")
       ELSE task' = [task EXCEPT ![t] = Idle]

\* The call never gets further: its process stops, or it was one of four
\* claims of a cycle in which another one failed.
Abandon(t) ==
  /\ task[t] # Idle
  /\ task' = [task EXCEPT ![t] = Idle]
  /\ UNCHANGED storeVars

Work(t) ==
  \/ RejectPayload(t) \/ FindExpired(t) \/ Publish(t) \/ BrokerUnavailable(t)
  \/ PublishEnds(t) \/ BeginFinish(t) \/ Finish(t)

DispatchNext(t) ==
  \/ \E c \in Command : ClaimRow(t, c) \/ ClaimExhausted(t, c)
  \/ Work(t)
  \/ FinishThrows(t)
  \/ Abandon(t)

=============================================================================
