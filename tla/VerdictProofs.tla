--------------------------- MODULE VerdictProofs ---------------------------
(***************************************************************************)
(* Theorems about the outcome of attempts and the verdicts on commands.    *)
(* They follow from one inductive invariant, Inv below: a verdict is       *)
(* written from what a call or a pass has seen earlier, so what those      *)
(* carry (CallsAreTruthful, PassIsTruthful) and what the rows count        *)
(* (RowsAreAccounted) must be kept together with the verdicts.             *)
(***************************************************************************)
EXTENDS DeliveryProofs

USE StoreAssumption DEF StoreAssumption

----------------------------------------------------------------------------
(* The log of attempts only grows, and closed attempts stay as they are *)

LogGrows(c) ==
  /\ Len(delivery[c]) <= Len(delivery'[c])
  /\ \A i \in DOMAIN delivery[c] :
       /\ i \in DOMAIN delivery'[c]
       /\ delivery[c][i] # "claimed" => delivery'[c][i] = delivery[c][i]

LEMMA SameLog ==
  ASSUME TypeOK, NEW c \in Command, delivery'[c] = delivery[c]
  PROVE  LogGrows(c)
  <1>1. Len(delivery[c]) \in Nat
    BY LenProperties DEF TypeOK, StoreTypeOK
  <1>2. QED BY <1>1 DEF LogGrows

\* claim closes the attempt its row points at, if open, and adds one.
LEMMA ClaimLog ==
  ASSUME TypeOK, NEW c \in Command,
         \/ delivery' = [delivery EXCEPT ![c] = Append(Abandoned(c), "claimed")]
         \/ delivery' = [delivery EXCEPT ![c] = Abandoned(c)]
  PROVE  \A d \in Command : LogGrows(d)
  <1> DEFINE n == Len(delivery[c])
  <1>1. /\ Abandoned(c) \in Seq(AttemptOutcome) /\ Len(Abandoned(c)) = n
        /\ n \in Nat /\ DOMAIN delivery[c] = 1..n /\ DOMAIN Abandoned(c) = 1..n
        /\ \A i \in 1..n : delivery[c][i] # "claimed" => Abandoned(c)[i] = delivery[c][i]
    BY AbandonedLog, LenProperties DEF TypeOK, StoreTypeOK
  <1>2. LET log == Append(Abandoned(c), "claimed")
        IN /\ Len(log) = n + 1
           /\ DOMAIN log = 1..(n + 1)
           /\ \A i \in 1..n : log[i] = Abandoned(c)[i]
    <2>1. "claimed" \in AttemptOutcome
      BY DEF AttemptOutcome
    <2>2. QED BY <1>1, <2>1, AppendProperties, LenProperties
  <1>3. \/ delivery'[c] = Append(Abandoned(c), "claimed")
        \/ delivery'[c] = Abandoned(c)
    BY DEF TypeOK, StoreTypeOK
  <1> HIDE DEF n
  <1>4. 1..n \subseteq 1..(n + 1) /\ n <= n + 1 /\ n <= n
    BY <1>1
  <1>5. LogGrows(c)
    BY <1>1, <1>2, <1>3, <1>4 DEF LogGrows, n
  <1>6. ASSUME NEW d \in Command, d # c PROVE LogGrows(d)
    BY <1>6, SameLog DEF TypeOK, StoreTypeOK
  <1>7. QED BY <1>5, <1>6

\* finish closes the attempt of its token, which is open while the row holds it.
LEMMA FinishLog ==
  ASSUME Core, NEW item \in Claim, FinishEffect(item)
  PROVE  \A d \in Command : LogGrows(d)
  <1>1. CASE delivery' = delivery
    BY <1>1, SameLog DEF Core
  <1>2. CASE HoldsLease(item) /\ Record(item)
    <2> DEFINE c == item.cmd
               log == [delivery[c] EXCEPT ![item.token] = item.outcome]
    <2>1. c \in Command
      BY DEF Claim
    <2>2. delivery[c] \in Seq(AttemptOutcome) /\ Len(delivery[c]) \in Nat
          /\ DOMAIN delivery[c] = 1..Len(delivery[c])
      BY <2>1, LenProperties DEF Core, TypeOK, StoreTypeOK
    <2>3. delivery[c][item.token] = "claimed"
      BY <1>2, <2>1 DEF HoldsLease, Core, OpenAttemptIsCurrent, OpenAttempt, Claim
    <2>4. delivery' = [delivery EXCEPT ![c] = log]
      BY <1>2 DEF Record
    <2>5. /\ DOMAIN log = DOMAIN delivery[c]
          /\ \A i \in DOMAIN delivery[c] : i # item.token => log[i] = delivery[c][i]
      OBVIOUS
    <2>6. Len(log) = Len(delivery[c])
      BY <2>2
    <2>7. delivery'[c] = log
      BY <2>1, <2>4 DEF Core, TypeOK, StoreTypeOK
    <2> HIDE DEF log, c
    <2>8. LogGrows(c)
      BY <2>2, <2>3, <2>5, <2>6, <2>7 DEF LogGrows
    <2>9. ASSUME NEW d \in Command, d # c PROVE LogGrows(d)
      BY <2>4, <2>9, SameLog DEF Core, TypeOK, StoreTypeOK
    <2>10. QED BY <2>8, <2>9
  <1>3. QED BY <1>1, <1>2 DEF FinishEffect, storeVars

\* No step shortens a log or rewrites a closed attempt.
LEMMA LogStep ==
  ASSUME Core, [Next]_vars
  PROVE  \A d \in Command : LogGrows(d)
  <1>1. CASE delivery' = delivery
    BY <1>1, SameLog DEF Core
  <1>2. ASSUME NEW t \in Task, DispatchNext(t)
        PROVE  \A d \in Command : LogGrows(d)
    <2>1. ASSUME NEW c \in Command, ClaimRow(t, c) \/ ClaimExhausted(t, c)
          PROVE  \A d \in Command : LogGrows(d)
      BY <2>1, ClaimLog DEF Core, HasBudget, ClaimRow, ClaimExhausted
    <2>2. ASSUME FinishEffect(task[t]), task[t].phase = "finishing"
          PROVE  \A d \in Command : LogGrows(d)
      <3>1. task[t] \in Claim
        BY <2>2 DEF Core, TypeOK, DispatchTypeOK, Idle
      <3>2. QED BY <2>2, <3>1, FinishLog
    <2>3. CASE Work(t)
      BY <1>1, <2>2, <2>3
         DEF Work, RejectPayload, FindExpired, Publish, BrokerUnavailable,
             PublishEnds, BeginFinish, Finish, storeVars
    <2>4. CASE FinishThrows(t) \/ Abandon(t)
      BY <1>1, <2>2, <2>4 DEF FinishThrows, Abandon, storeVars
    <2>5. QED BY <1>2, <2>1, <2>3, <2>4 DEF DispatchNext
  <1>3. CASE ReconcileStep
    BY <1>1, <1>3
       DEF ReconcileStep, ReconcileNext, RecBegin, RecExpire, RecScan, RecChoose,
           RecCommit, RecRollback, storeVars
  <1>4. CASE ServiceStep
    BY <1>1, <1>4
       DEF ServiceStep, ServiceNext, AcceptPayment, Replay, ReceiveEvidence
  <1>5. ASSUME NEW c \in Command, TimeStep(c) PROVE \A d \in Command : LogGrows(d)
    BY <1>1, <1>5 DEF TimeStep, Time, LeaseLapses, ComesDue, Ages
  <1>6. QED
    BY <1>1, <1>2, <1>3, <1>4, <1>5 DEF Next, DispatchStep, vars

\* Once an attempt has an outcome, nothing rewrites it: a worker whose lease
\* was lost cannot, although finish updates the attempt without a condition.
THEOREM OutcomesAreFinal == Spec => AttemptOutcomeIsFinal
  <1>1. Core /\ [Next]_vars =>
          [\A c \in Command : \A i \in DOMAIN delivery[c] :
             /\ i \in DOMAIN delivery'[c]
             /\ delivery[c][i] # "claimed" => delivery'[c][i] = delivery[c][i]]_vars
    BY LogStep DEF LogGrows
  <1>2. QED BY <1>1, CoreInvariant, PTL DEF Spec, AttemptOutcomeIsFinal

----------------------------------------------------------------------------
(* The one inductive invariant behind the verdicts *)

Verdicts ==
  /\ StatusAgreesWithState /\ CompletionIsProved /\ ExpiryIsJustified
  /\ UnknownIsJustified /\ IncidentsAreGrounded

Inv == Core /\ Verdicts /\ Supported

\* What no step takes back.
Keeps(c) ==
  /\ LogGrows(c)
  /\ replays[c] <= replays'[c]
  /\ sent[c] => sent'[c]
  /\ ttl[c] # "live" => ttl'[c] # "live"
  /\ ttl[c] = "over" => ttl'[c] = "over"
  /\ Accepted(c) => Accepted(c)'
  /\ Flagged(c) => Flagged(c)'

\* How a step that records no receipt may rewrite the row of a command.
Moves(c) ==
  \/ command'[c] = command[c]
  \/ ~Accepted(c) /\ command'[c] = [command[c] EXCEPT !.state = "pending"]
                  /\ outbox'[c].status = "pending"
  \/ /\ command[c].state \in Undecided /\ Len(delivery[c]) >= MaxAttempts
     /\ command'[c] = [command[c] EXCEPT !.state = "unknown"]
  \/ /\ command[c].state \in Undecided /\ ttl[c] # "live"
     /\ command'[c] = [command[c] EXCEPT !.state = "expired"]
  \/ /\ sent[c]
     /\ command'[c] = [command[c] EXCEPT !.acked = TRUE,
                         !.state = IF @ = "pending" THEN "published" ELSE @]
  \/ /\ c \in rec.victims /\ Accepted(c) /\ ttl[c] = "over"
     /\ command'[c] = [command[c] EXCEPT !.state = "expired"]

\* How it may leave the status of its row.
StatusMoves(c) ==
  \/ outbox'[c].status = outbox[c].status
  \/ outbox'[c].status \in {"pending", "leased"}
  \/ outbox'[c].status = "exhausted" /\ Len(delivery[c]) >= MaxAttempts
       /\ command'[c].state \notin Undecided
  \/ outbox'[c].status = "expired" /\ command'[c].state \notin Undecided
  \/ outbox'[c].status = "permanent" /\ c \in Poison
  \/ outbox'[c].status = "published" /\ command'[c].acked
       /\ command'[c].state # "pending"

\* finish writes what its call has really seen.
LEMMA FinishMoves ==
  ASSUME Inv, NEW item \in Claim, item.phase = "finishing", CallIsTruthful(item),
         FinishEffect(item)
  PROVE  \A c \in Command : Moves(c) /\ StatusMoves(c)
  <1> USE DEF Inv, Core, TypeOK, StoreTypeOK
  <1>1. CASE UNCHANGED storeVars
    BY <1>1 DEF storeVars, Moves, StatusMoves
  <1>2. CASE HoldsLease(item) /\ Record(item)
    <2> DEFINE c == item.cmd
    <2>1. c \in Command
      BY DEF Claim
    <2>2. item.outcome \in Outcome /\ item.attempts \in 1..MaxAttempts
      BY DEF Claim
    <2>3. /\ item.attempts <= Len(delivery[c])
          /\ item.outcome = "published" => sent[c]
          /\ item.outcome = "expired" => ttl[c] # "live"
          /\ item.outcome = "permanent" => c \in Poison
      BY DEF CallIsTruthful
    <2>4. /\ command' = [command EXCEPT ![c] = Concluded(command[c], item)]
          /\ outbox' = [outbox EXCEPT ![c] =
               [outbox[c] EXCEPT !.status = FinishStatus(item), !.token = 0,
                                 !.lease = FALSE, !.due = FALSE]]
      BY <1>2 DEF Record
    <2>5. command'[c] = Concluded(command[c], item)
          /\ outbox'[c].status = FinishStatus(item)
      BY <2>1, <2>4 DEF OutboxRow
    <2>6. ASSUME NEW d \in Command, d # c PROVE Moves(d) /\ StatusMoves(d)
      BY <2>4, <2>6 DEF Moves, StatusMoves
    <2>7. command[c] \in CommandRow /\ Len(delivery[c]) \in Nat
      BY <2>1, LenProperties
    <2> HIDE DEF c, Inv, Core, TypeOK, StoreTypeOK
    <2>8. ASSUME item.outcome = "published" PROVE Moves(c) /\ StatusMoves(c)
      BY <2>3, <2>5, <2>7, <2>8 DEF FinishStatus, Concluded, Moves, StatusMoves, CommandRow
    <2>9. ASSUME item.outcome = "expired" PROVE Moves(c) /\ StatusMoves(c)
      BY <2>3, <2>5, <2>7, <2>9
         DEF FinishStatus, Concluded, Decided, Moves, StatusMoves, CommandRow, Undecided
    <2>10. ASSUME item.outcome = "permanent" PROVE Moves(c) /\ StatusMoves(c)
      BY <2>3, <2>5, <2>7, <2>10 DEF FinishStatus, Concluded, Moves, StatusMoves
    <2>11. ASSUME item.outcome = "retry" /\ item.attempts >= MaxAttempts PROVE Moves(c) /\ StatusMoves(c)
      <3>1. Len(delivery[c]) >= MaxAttempts
        BY <2>2, <2>3, <2>7, <2>11
      <3>2. QED
        BY <2>5, <2>7, <2>11, <3>1
           DEF FinishStatus, Concluded, Decided, Moves, StatusMoves, CommandRow, Undecided
    <2>12. ASSUME item.outcome = "retry" /\ ~(item.attempts >= MaxAttempts) PROVE Moves(c) /\ StatusMoves(c)
      BY <2>5, <2>12 DEF FinishStatus, Concluded, Moves, StatusMoves
    <2>13. Moves(c) /\ StatusMoves(c)
      BY <2>2, <2>8, <2>9, <2>10, <2>11, <2>12 DEF Outcome
    <2>14. QED BY <2>6, <2>13
  <1>3. QED BY <1>1, <1>2 DEF FinishEffect

\* So does every other step that records no receipt.
LEMMA StepMoves ==
  ASSUME Inv, [Next]_vars,
         ~\E m \in Message, c \in Command, result \in Result : ReceiveEvidence(m, c, result)
  PROVE  /\ \A c \in Command : Moves(c) /\ StatusMoves(c)
         /\ evidence' = evidence
  <1> USE DEF Inv, Core, TypeOK, StoreTypeOK
  <1>1. ASSUME command' = command, \A c \in Command : outbox'[c].status = outbox[c].status
        PROVE  \A c \in Command : Moves(c) /\ StatusMoves(c)
    BY <1>1 DEF Moves, StatusMoves
  <1>2. ASSUME NEW t \in Task, DispatchStep(t)
        PROVE  (\A c \in Command : Moves(c) /\ StatusMoves(c)) /\ evidence' = evidence
    <2>1. evidence' = evidence
      BY <1>2 DEF DispatchStep
    <2>2. ASSUME NEW c \in Command, ClaimRow(t, c)
          PROVE  \A d \in Command : Moves(d) /\ StatusMoves(d)
      BY <2>2 DEF HasBudget, ClaimRow, Moves, StatusMoves, OutboxRow
    <2>3. ASSUME NEW c \in Command, ClaimExhausted(t, c)
          PROVE  \A d \in Command : Moves(d) /\ StatusMoves(d)
      <3>0. outbox[c] \in OutboxRow
        OBVIOUS
      <3>7. outbox[c].attempts \in Nat
        BY <3>0 DEF OutboxRow
      <3>8. ~(outbox[c].attempts < MaxAttempts)
        BY <2>3 DEF HasBudget, ClaimExhausted
      <3>9. outbox[c].attempts >= MaxAttempts
        <4> HIDE DEF Inv, Core, TypeOK, StoreTypeOK
        <4>1. QED BY <3>7, <3>8
      <3>1. /\ command' = [command EXCEPT ![c] = Decided(command[c], "unknown")]
            /\ outbox' = [outbox EXCEPT ![c] = [outbox[c] EXCEPT
                 !.status = "exhausted", !.token = 0, !.lease = FALSE]]
            /\ outbox[c].attempts >= MaxAttempts
        BY <2>3, <3>9 DEF ClaimExhausted
      <3>2. command'[c] = Decided(command[c], "unknown")
            /\ outbox'[c].status = "exhausted"
        BY <3>1 DEF OutboxRow
      <3>3. Len(delivery[c]) >= MaxAttempts
        <4>1. Len(delivery[c]) \in Nat /\ outbox[c].attempts \in Nat
          BY LenProperties DEF OutboxRow
        <4>2. outbox[c].attempts <= Len(delivery[c])
          BY DEF Supported, RowsAreAccounted
        <4> HIDE DEF Inv, Core, TypeOK, StoreTypeOK
        <4>3. QED BY <3>1, <4>1, <4>2
      <3>4. Moves(c) /\ StatusMoves(c)
        BY <3>2, <3>3 DEF Decided, Moves, StatusMoves, CommandRow, Undecided
      <3>5. ASSUME NEW d \in Command, d # c PROVE Moves(d) /\ StatusMoves(d)
        BY <3>1, <3>5 DEF Moves, StatusMoves
      <3>6. QED BY <3>4, <3>5
    <2>4. CASE Work(t) \/ FinishThrows(t) \/ Abandon(t)
      <3>1. \/ UNCHANGED storeVars
            \/ Publish(t)
            \/ task[t].phase = "finishing" /\ FinishEffect(task[t])
        BY <2>4 DEF Work, RejectPayload, FindExpired, BrokerUnavailable, PublishEnds,
                    BeginFinish, Finish, FinishThrows, Abandon
      <3>2. CASE UNCHANGED storeVars \/ Publish(t)
        BY <1>1, <2>1, <3>2 DEF storeVars, Publish
      <3>3. CASE task[t].phase = "finishing" /\ FinishEffect(task[t])
        <4>1. task[t] \in Claim /\ CallIsTruthful(task[t])
          BY <3>3 DEF Idle, DispatchTypeOK, Supported, CallsAreTruthful
        <4>2. QED BY <2>1, <3>3, <4>1, FinishMoves
      <3>4. QED BY <3>1, <3>2, <3>3
    <2>5. QED BY <1>2, <2>1, <2>2, <2>3, <2>4 DEF DispatchStep, DispatchNext
  <1>3. CASE ReconcileStep
    <2>1. evidence' = evidence
      BY <1>3
         DEF ReconcileStep, ReconcileNext, RecBegin, RecExpire, RecScan, RecChoose,
             RecCommit, RecRollback
    <2>2. CASE RecCommit
      <3>1. ASSUME NEW c \in Command PROVE Moves(c)
        <4>1. \/ command'[c] = command[c]
              \/ c \in rec.victims /\ command'[c] = [command[c] EXCEPT !.state = "expired"]
          BY <2>2 DEF Redelivered, RecCommit
        <4>2. QED BY <4>1 DEF Moves, Supported, PassIsTruthful
      <3>2. ASSUME NEW c \in Command PROVE StatusMoves(c)
        BY <2>2 DEF Redelivered, RecCommit, StatusMoves, OutboxRow
      <3>3. QED BY <2>1, <3>1, <3>2
    <2>3. CASE ~RecCommit
      BY <1>1, <1>3, <2>1, <2>3
         DEF ReconcileStep, ReconcileNext, RecBegin, RecExpire, RecScan, RecChoose,
             RecRollback, storeVars
    <2>4. QED BY <2>2, <2>3
  <1>4. CASE ServiceStep
    <2>1. ASSUME NEW c \in Command, AcceptPayment(c)
          PROVE  (\A d \in Command : Moves(d) /\ StatusMoves(d)) /\ evidence' = evidence
      BY <2>1 DEF AcceptPayment, Moves, StatusMoves, OutboxRow
    <2>2. ASSUME NEW c \in Command, Replay(c)
          PROVE  (\A d \in Command : Moves(d) /\ StatusMoves(d)) /\ evidence' = evidence
      BY <2>2 DEF Replay, Moves, StatusMoves, OutboxRow
    <2>3. QED BY <1>4, <2>1, <2>2 DEF ServiceStep, ServiceNext
  <1>5. ASSUME NEW c \in Command, TimeStep(c)
        PROVE  (\A d \in Command : Moves(d) /\ StatusMoves(d)) /\ evidence' = evidence
    <2>1. command' = command /\ evidence' = evidence
      BY <1>5 DEF TimeStep, Time, LeaseLapses, ComesDue, Ages
    <2>2. \/ outbox' = outbox
          \/ outbox' = [outbox EXCEPT ![c].lease = FALSE]
          \/ outbox' = [outbox EXCEPT ![c].due = TRUE]
      BY <1>5 DEF TimeStep, Time, LeaseLapses, ComesDue, Ages
    <2>3. ASSUME NEW d \in Command PROVE outbox'[d].status = outbox[d].status
      <3>1. CASE outbox' = outbox
        BY <3>1
      <3>2. CASE outbox' = [outbox EXCEPT ![c].lease = FALSE]
        <4>1. outbox'[d] \in {outbox[d], [outbox[d] EXCEPT !.lease = FALSE]}
          BY <3>2
        <4>2. QED BY <4>1 DEF OutboxRow
      <3>3. CASE outbox' = [outbox EXCEPT ![c].due = TRUE]
        <4>1. outbox'[d] \in {outbox[d], [outbox[d] EXCEPT !.due = TRUE]}
          BY <3>3
        <4>2. QED BY <4>1 DEF OutboxRow
      <3>4. QED BY <2>2, <3>1, <3>2, <3>3
    <2>4. QED BY <1>1, <2>1, <2>3
  <1>6. CASE UNCHANGED vars
    BY <1>1, <1>6 DEF vars
  <1>7. QED
    BY <1>2, <1>3, <1>4, <1>5, <1>6 DEF Next

----------------------------------------------------------------------------
(* What a step keeps *)

\* A receipt adds to the evidence and to the row of its command only.
LEMMA ReceiptStep ==
  ASSUME Inv, NEW m \in Message, NEW c \in Command, NEW result \in Result,
         ReceiveEvidence(m, c, result)
  PROVE  /\ \A d \in Command : \A r \in Result :
              Received(d, r)' <=> Received(d, r) \/ (d = c /\ r = result)
         /\ \A d \in Command :
              Flagged(d)' <=> Flagged(d) \/ (d = c /\ Conflicts(c, result))
         /\ command' = [command EXCEPT ![c] = Evidenced(command[c], result)]
         /\ UNCHANGED <<outbox, delivery, replays, ttl, sent>>
         /\ Accepted(c) /\ sent[c]
  <1>1. /\ evidence' = [evidence EXCEPT ![m] =
             [cmd |-> c, result |-> result, conflicting |-> Conflicts(c, result)]]
        /\ evidence[m] = NoReceipt
        /\ command' = [command EXCEPT ![c] = Evidenced(command[c], result)]
        /\ UNCHANGED <<outbox, delivery, replays, ttl, sent>>
        /\ Accepted(c) /\ sent[c]
    BY DEF ReceiveEvidence
  <1>2. /\ evidence'[m] =
             [cmd |-> c, result |-> result, conflicting |-> Conflicts(c, result)]
        /\ \A x \in Message : x # m => evidence'[x] = evidence[x]
    BY <1>1 DEF Inv, Core, TypeOK, ServiceTypeOK
  <1>3. evidence[m].result \notin Result /\ ~evidence[m].conflicting
    BY <1>1 DEF NoReceipt, Result
  <1>4. ASSUME NEW d \in Command, NEW r \in Result
        PROVE  Received(d, r)' <=> Received(d, r) \/ (d = c /\ r = result)
    BY <1>2, <1>3 DEF Received
  <1>5. ASSUME NEW d \in Command
        PROVE  Flagged(d)' <=> Flagged(d) \/ (d = c /\ Conflicts(c, result))
    BY <1>2, <1>3 DEF Flagged
  <1>6. QED BY <1>1, <1>4, <1>5

IsReceipt ==
  \E m \in Message, c \in Command, result \in Result : ReceiveEvidence(m, c, result)

LEMMA StepKeeps ==
  ASSUME Inv, [Next]_vars
  PROVE  \A c \in Command : Keeps(c)
  <1>1. \A c \in Command : LogGrows(c)
    BY LogStep DEF Inv
  <1>2. \A c \in Command : (Accepted(c) => Accepted(c)') /\ (Flagged(c) => Flagged(c)')
    <2>1. CASE IsReceipt
      <3>1. PICK m \in Message, c \in Command, result \in Result :
              ReceiveEvidence(m, c, result)
        BY <2>1 DEF IsReceipt
      <3>2. \A d \in Command : Flagged(d) => Flagged(d)'
        BY <3>1, ReceiptStep
      <3>3. command' = [command EXCEPT ![c] = Evidenced(command[c], result)]
        BY <3>1, ReceiptStep
      <3>4. ASSUME NEW d \in Command, Accepted(d) PROVE Accepted(d)'
        <4>1. CASE d = c
          <5>1. command'[c] = Evidenced(command[c], result)
            BY <3>3 DEF Inv, Core, TypeOK, StoreTypeOK
          <5>2. command[c] \in CommandRow
            BY DEF Inv, Core, TypeOK, StoreTypeOK
          <5>3. QED BY <3>4, <4>1, <5>1, <5>2 DEF Evidenced, Accepted, CommandRow
        <4>2. CASE d # c
          BY <3>3, <3>4, <4>2 DEF Inv, Core, TypeOK, StoreTypeOK, Accepted
        <4>3. QED BY <4>1, <4>2
      <3>5. QED BY <3>2, <3>4
    <2>2. CASE ~IsReceipt
      <3>1. (\A c \in Command : Moves(c)) /\ evidence' = evidence
        BY <2>2, StepMoves DEF IsReceipt
      <3>2. \A c \in Command : command[c] \in CommandRow
        BY DEF Inv, Core, TypeOK, StoreTypeOK
      <3>3. QED BY <3>1, <3>2 DEF Moves, Accepted, Flagged, CommandRow
    <2>3. QED BY <2>1, <2>2
  <1>3. ASSUME NEW c \in Command
        PROVE  replays[c] <= replays'[c] /\ (sent[c] => sent'[c])
    <2>1. /\ replays[c] \in Nat /\ replays \in [Command -> 0..MaxReplays]
          /\ sent \in [Command -> BOOLEAN]
      BY DEF Inv, Core, TypeOK, StoreTypeOK
    <2>2. CASE replays' = replays /\ sent' = sent
      BY <2>1, <2>2
    <2>3. ASSUME NEW t \in Task, Publish(t) PROVE replays' = replays /\ (sent[c] => sent'[c])
      BY <2>1, <2>3 DEF Publish
    <2>4. ASSUME NEW d \in Command, Replay(d) PROVE replays[c] <= replays'[c] /\ sent' = sent
      BY <2>1, <2>4 DEF Replay
    <2>5. \/ replays' = replays /\ sent' = sent
          \/ \E t \in Task : Publish(t)
          \/ \E d \in Command : Replay(d)
      BY DEF Next, vars, DispatchStep, DispatchNext, ClaimRow, ClaimExhausted, Work,
             RejectPayload, FindExpired, BrokerUnavailable, PublishEnds, BeginFinish,
             Finish, FinishThrows, Abandon, FinishEffect, Record, storeVars,
             ReconcileStep, ReconcileNext, RecBegin, RecExpire, RecScan, RecChoose,
             RecCommit, RecRollback, ServiceStep, ServiceNext, AcceptPayment,
             ReceiveEvidence, TimeStep, Time, LeaseLapses, ComesDue, Ages
    <2>6. QED BY <2>1, <2>2, <2>3, <2>4, <2>5
  <1>4. ASSUME NEW c \in Command
        PROVE  (ttl[c] # "live" => ttl'[c] # "live") /\ (ttl[c] = "over" => ttl'[c] = "over")
    <2>1. ttl \in [Command -> Stage]
      BY DEF Inv, Core, TypeOK, StoreTypeOK
    <2>2. ttl' = ttl \/ \E d \in Command : Ages(d)
      BY DEF Next, vars, DispatchStep, DispatchNext, ClaimRow, ClaimExhausted, Work,
             RejectPayload, FindExpired, BrokerUnavailable, PublishEnds, BeginFinish,
             Finish, FinishThrows, Abandon, FinishEffect, Record, Publish, storeVars,
             ReconcileStep, ReconcileNext, RecBegin, RecExpire, RecScan, RecChoose,
             RecCommit, RecRollback, ServiceStep, ServiceNext, AcceptPayment, Replay,
             ReceiveEvidence, TimeStep, Time, LeaseLapses, ComesDue
    <2>3. QED BY <2>1, <2>2 DEF Ages, Stage
  <1>5. QED BY <1>1, <1>2, <1>3, <1>4 DEF Keeps

----------------------------------------------------------------------------
(* The invariant is inductive, one part after the other *)

\* The budget: a claim adds one to attempts and to the log, a replay trades
\* the attempts of the row for a unit of replays.
LEMMA RowsStep ==
  ASSUME Inv, [Next]_vars
  PROVE  RowsAreAccounted'
  <1> USE DEF Inv, Core, TypeOK, StoreTypeOK
  <1> DEFINE Count(c) ==
        /\ outbox[c].attempts <= Len(delivery[c])
        /\ Len(delivery[c]) <= MaxAttempts * replays[c] + outbox[c].attempts
  <1>1. \A c \in Command : /\ Len(delivery[c]) \in Nat
                           /\ outbox[c].attempts \in 0..MaxAttempts
                           /\ replays[c] \in Nat
                           /\ MaxAttempts * replays[c] \in Nat
                           /\ Count(c)
    BY LenProperties DEF OutboxRow, Supported, RowsAreAccounted
  <1>2. ASSUME NEW c \in Command, Len(delivery'[c]) = Len(delivery[c]),
               outbox'[c].attempts = outbox[c].attempts, replays'[c] = replays[c]
        PROVE  Count(c)'
    BY <1>1, <1>2
  <1>3. ASSUME NEW t \in Task, NEW d \in Command, ClaimRow(t, d), NEW c \in Command
        PROVE  Count(c)'
    <2>1. CASE c # d
      BY <1>2, <1>3, <2>1 DEF HasBudget, ClaimRow
    <2>2. CASE c = d
      <3>1. Len(delivery'[c]) = Len(delivery[c]) + 1
        <4>1. Abandoned(c) \in Seq(AttemptOutcome) /\ Len(Abandoned(c)) = Len(delivery[c])
          BY AbandonedLog
        <4>2. "claimed" \in AttemptOutcome
          BY DEF AttemptOutcome
        <4>3. Len(Append(Abandoned(c), "claimed")) = Len(delivery[c]) + 1
          BY <4>1, <4>2, AppendProperties
        <4>4. QED BY <1>3, <2>2, <4>3 DEF HasBudget, ClaimRow
      <3>2. outbox'[c].attempts = outbox[c].attempts + 1 /\ replays'[c] = replays[c]
        BY <1>3, <2>2 DEF HasBudget, ClaimRow, OutboxRow
      <3> HIDE DEF Inv, Core, TypeOK, StoreTypeOK
      <3>3. QED BY <1>1, <3>1, <3>2
    <2>3. QED BY <2>1, <2>2
  <1>4. ASSUME NEW t \in Task, NEW d \in Command, ClaimExhausted(t, d), NEW c \in Command
        PROVE  Count(c)'
    <2>1. Len(delivery'[c]) = Len(delivery[c])
      <3>1. Len(Abandoned(d)) = Len(delivery[d])
        BY AbandonedLog
      <3>2. QED BY <1>4, <3>1 DEF HasBudget, ClaimExhausted
    <2>2. outbox'[c].attempts = outbox[c].attempts /\ replays'[c] = replays[c]
      <3>1. CASE c = d
        BY <1>4, <3>1 DEF HasBudget, ClaimExhausted, OutboxRow
      <3>2. CASE c # d
        BY <1>4, <3>2 DEF HasBudget, ClaimExhausted
      <3>3. QED BY <3>1, <3>2
    <2>3. QED BY <1>2, <2>1, <2>2
  <1>5. ASSUME NEW item \in Claim, FinishEffect(item), NEW c \in Command
        PROVE  Count(c)'
    <2>1. CASE UNCHANGED storeVars
      BY <1>2, <2>1 DEF storeVars
    <2>2. CASE Record(item)
      <3>1. Len(delivery'[c]) = Len(delivery[c])
        BY <2>2, LenProperties DEF Record
      <3>2. outbox'[c].attempts = outbox[c].attempts /\ replays'[c] = replays[c]
        <4>1. CASE c = item.cmd
          BY <2>2, <4>1 DEF Record, OutboxRow
        <4>2. CASE c # item.cmd
          BY <2>2, <4>2 DEF Record
        <4>3. QED BY <4>1, <4>2
      <3>3. QED BY <1>2, <3>1, <3>2
    <2>3. QED BY <1>5, <2>1, <2>2 DEF FinishEffect
  <1>6. ASSUME NEW d \in Command, Replay(d), NEW c \in Command
        PROVE  Count(c)'
    <2>1. CASE c # d
      BY <1>2, <1>6, <2>1 DEF Replay
    <2>2. CASE c = d
      <3>1. /\ outbox'[c].attempts = 0 /\ replays'[c] = replays[c] + 1
            /\ delivery'[c] = delivery[c]
        BY <1>6, <2>2 DEF Replay, OutboxRow
      <3>2. MaxAttempts * (replays[c] + 1) = MaxAttempts * replays[c] + MaxAttempts
        BY <1>1
      <3>3. MaxAttempts * replays'[c] = MaxAttempts * replays[c] + MaxAttempts
        BY <3>1, <3>2
      <3> DEFINE p == MaxAttempts * replays[c]
                 q == MaxAttempts * replays'[c]
                 n == Len(delivery[c])
                 k == outbox[c].attempts
      <3>4. p \in Nat /\ q = p + MaxAttempts /\ n \in Nat /\ k \in 0..MaxAttempts
            /\ n <= p + k
        BY <1>1, <3>3
      <3> HIDE DEF Inv, Core, TypeOK, StoreTypeOK, p, q, n, k
      <3>5. 0 <= n /\ n <= q + 0
        BY <3>4
      <3>6. QED BY <3>1, <3>5 DEF n, q
    <2>3. QED BY <2>1, <2>2
  <1>7. ASSUME NEW c \in Command PROVE Count(c)'
    <2>1. CASE \E t \in Task, d \in Command : ClaimRow(t, d) \/ ClaimExhausted(t, d)
      BY <1>3, <1>4, <2>1
    <2>2. CASE \E t \in Task : task[t].phase = "finishing" /\ FinishEffect(task[t])
      <3>1. PICK t \in Task : task[t].phase = "finishing" /\ FinishEffect(task[t])
        BY <2>2
      <3>2. task[t] \in Claim
        BY <3>1 DEF DispatchTypeOK, Idle
      <3>3. QED BY <1>5, <3>1, <3>2
    <2>3. CASE \E d \in Command : Replay(d)
      BY <1>6, <2>3
    <2>4. CASE UNCHANGED <<delivery, replays>> /\ outbox'[c].attempts = outbox[c].attempts
      BY <1>2, <2>4
    <2>5. CASE \E t \in Task : DispatchNext(t)
      BY <1>2, <2>1, <2>2, <2>5
         DEF DispatchNext, Work, RejectPayload, FindExpired, Publish, BrokerUnavailable,
             PublishEnds, BeginFinish, Finish, FinishThrows, Abandon, storeVars
    <2>6. CASE ReconcileStep
      <3>1. outbox'[c].attempts = outbox[c].attempts
        <4>1. outbox[c] \in OutboxRow
          OBVIOUS
        <4>2. CASE RecCommit
          <5>1. outbox'[c] = IF c \in rec.stale THEN Redelivered(outbox[c]) ELSE outbox[c]
            BY <4>2 DEF RecCommit
          <5>2. Redelivered(outbox[c]).attempts = outbox[c].attempts
            BY <4>1 DEF Redelivered, OutboxRow
          <5>3. QED BY <5>1, <5>2
        <4>3. CASE ~RecCommit
          BY <2>6, <4>3 DEF ReconcileStep, ReconcileNext, RecBegin, RecExpire, RecScan,
               RecChoose, RecRollback, storeVars
        <4>4. QED BY <4>2, <4>3
      <3>2. UNCHANGED <<delivery, replays>>
        BY <2>6 DEF ReconcileStep, ReconcileNext, RecBegin, RecExpire, RecScan,
             RecChoose, RecCommit, RecRollback, storeVars
      <3>3. QED BY <2>4, <3>1, <3>2
    <2>7. CASE ServiceStep
      <3>1. ASSUME NEW d \in Command, AcceptPayment(d)
            PROVE  outbox'[c].attempts = outbox[c].attempts
                   /\ UNCHANGED <<delivery, replays>>
        BY <3>1 DEF AcceptPayment, OutboxRow
      <3>2. QED
        BY <2>3, <2>4, <2>7, <3>1 DEF ServiceStep, ServiceNext, ReceiveEvidence
    <2>8. ASSUME NEW d \in Command, TimeStep(d) PROVE Count(c)'
      <3>1. outbox'[c].attempts = outbox[c].attempts
        <4>1. \/ outbox'[c] = outbox[c]
              \/ outbox'[c] = [outbox[c] EXCEPT !.lease = FALSE]
              \/ outbox'[c] = [outbox[c] EXCEPT !.due = TRUE]
          BY <2>8 DEF TimeStep, Time, LeaseLapses, ComesDue, Ages
        <4>2. QED BY <4>1 DEF OutboxRow
      <3>2. UNCHANGED <<delivery, replays>>
        BY <2>8 DEF TimeStep, Time, LeaseLapses, ComesDue, Ages
      <3>3. QED BY <2>4, <3>1, <3>2
    <2>9. CASE UNCHANGED vars
      BY <2>4, <2>9 DEF vars
    <2>10. QED BY <2>5, <2>6, <2>7, <2>8, <2>9 DEF Next, DispatchStep
  <1>8. ASSUME NEW c \in Command
        PROVE  /\ outbox'[c].status = "exhausted" => Len(delivery'[c]) >= MaxAttempts
               /\ outbox'[c].status = "permanent" => c \in Poison
    <2>1. CASE IsReceipt
      BY <2>1, ReceiptStep DEF IsReceipt, Supported, RowsAreAccounted
    <2>2. CASE ~IsReceipt
      <3>1. StatusMoves(c)
        BY <2>2, StepMoves DEF IsReceipt
      <3>2. Len(delivery[c]) \in Nat /\ Len(delivery'[c]) \in Nat
        BY CoreStep, LenProperties
      <3>3. Len(delivery[c]) <= Len(delivery'[c])
        BY StepKeeps DEF Keeps, LogGrows
      <3>4. /\ outbox[c].status = "exhausted" => Len(delivery[c]) >= MaxAttempts
            /\ outbox[c].status = "permanent" => c \in Poison
        BY DEF Supported, RowsAreAccounted
      <3> HIDE DEF Inv, Core, TypeOK, StoreTypeOK
      <3>5. QED BY <3>1, <3>2, <3>3, <3>4 DEF StatusMoves
    <2>3. QED BY <2>1, <2>2
  <1>9. QED BY <1>7, <1>8 DEF RowsAreAccounted

\* CallIsTruthful of the rows after the step.
StaysTruthful(item) ==
  /\ item.attempts <= Len(delivery'[item.cmd])
  /\ item.phase = "sending" \/ item.outcome = "published" => sent'[item.cmd]
  /\ item.outcome = "expired" => ttl'[item.cmd] # "live"
  /\ item.outcome = "permanent" => item.cmd \in Poison

\* What a call has seen stays true, since rows and clocks do not go back.
LEMMA TruthStays ==
  ASSUME Inv, [Next]_vars, NEW item \in Claim
  PROVE  /\ CallIsTruthful(item) => StaysTruthful(item)
         /\ item.attempts <= Len(delivery[item.cmd]) =>
              item.attempts <= Len(delivery'[item.cmd])
  <1> DEFINE c == item.cmd
  <1>1. c \in Command /\ item.attempts \in Nat
    BY DEF Claim
  <1>2. /\ Len(delivery[c]) <= Len(delivery'[c])
        /\ sent[c] => sent'[c]
        /\ ttl[c] # "live" => ttl'[c] # "live"
    BY <1>1, StepKeeps DEF Keeps, LogGrows
  <1>3. Len(delivery[c]) \in Nat /\ Len(delivery'[c]) \in Nat
    BY <1>1, CoreStep, LenProperties DEF Inv, Core, TypeOK, StoreTypeOK
  <1>4. QED BY <1>1, <1>2, <1>3 DEF CallIsTruthful, StaysTruthful

\* A call learns what it reports before it reports it.
LEMMA CallsStep ==
  ASSUME Inv, [Next]_vars
  PROVE  CallsAreTruthful'
  <1> USE DEF Inv, Core, TypeOK, StoreTypeOK, DispatchTypeOK
  <1>1. ASSUME NEW t \in Task, task[t] # Idle
        PROVE  task[t] \in Claim /\ CallIsTruthful(task[t]) /\ StaysTruthful(task[t])
               /\ task[t].cmd \in Command
    <2>1. task[t] \in Claim /\ CallIsTruthful(task[t])
      BY <1>1 DEF Supported, CallsAreTruthful
    <2>2. QED BY <2>1, TruthStays DEF Claim
  <1>2. ASSUME NEW t \in Task, task'[t] = task[t] \/ task'[t] = Idle
        PROVE  task'[t] # Idle => StaysTruthful(task'[t])
    BY <1>1, <1>2
  <1>3. ASSUME NEW t \in Task, DispatchStep(t)
        PROVE  task'[t] # Idle => StaysTruthful(task'[t])
    <2>1. ASSUME NEW c \in Command, ClaimRow(t, c)
          PROVE  task'[t] # Idle => StaysTruthful(task'[t])
      <3>1. task'[t] = [phase |-> "claimed", cmd |-> c, token |-> Len(delivery[c]) + 1,
                        attempts |-> outbox[c].attempts + 1, outcome |-> "none",
                        fresh |-> FALSE]
        BY <2>1 DEF HasBudget, ClaimRow
      <3>2. outbox'[c].attempts = outbox[c].attempts + 1
        BY <2>1 DEF HasBudget, ClaimRow, OutboxRow
      <3>3. outbox'[c].attempts <= Len(delivery'[c])
        BY RowsStep DEF RowsAreAccounted
      <3>4. QED BY <3>1, <3>2, <3>3 DEF StaysTruthful
    <2>2. CASE UNCHANGED task
      BY <1>2, <2>2
    <2>3. ASSUME NEW outcome \in Outcome, task[t] # Idle, Decide(t, outcome),
                 outcome = "published" => task[t].phase = "sending",
                 outcome = "expired" => ttl[task[t].cmd] # "live",
                 outcome = "permanent" => task[t].cmd \in Poison
          PROVE  task'[t] # Idle => StaysTruthful(task'[t])
      <3>1. task'[t] = [task[t] EXCEPT !.phase = "decided", !.outcome = outcome]
        BY <2>3 DEF Decide
      <3>2. /\ task'[t].phase = "decided" /\ task'[t].outcome = outcome
            /\ task'[t].cmd = task[t].cmd /\ task'[t].attempts = task[t].attempts
        BY <1>1, <2>3, <3>1 DEF Claim
      <3>3. ttl[task[t].cmd] # "live" => ttl'[task[t].cmd] # "live"
        BY <1>1, <2>3, StepKeeps DEF Keeps
      <3>4. QED BY <1>1, <2>3, <3>2, <3>3 DEF StaysTruthful
    <2>4. CASE RejectPayload(t)
      BY <2>3, <2>4 DEF RejectPayload, Outcome, Idle
    <2>5. CASE FindExpired(t)
      BY <2>3, <2>5 DEF FindExpired, Outcome, Idle
    <2>6. CASE BrokerUnavailable(t)
      BY <2>3, <2>6 DEF BrokerUnavailable, Outcome, Idle
    <2>7. CASE PublishEnds(t)
      BY <2>3, <2>7 DEF PublishEnds, Outcome, Idle
    <2>8. CASE Publish(t)
      <3>1. task[t] # Idle
        BY <2>8 DEF Publish, Idle
      <3>2. /\ task'[t].phase = "sending" /\ task'[t].outcome = task[t].outcome
            /\ task'[t].cmd = task[t].cmd /\ task'[t].attempts = task[t].attempts
            /\ sent'[task[t].cmd]
        BY <1>1, <2>8, <3>1 DEF Publish, Claim
      <3>3. QED BY <1>1, <3>1, <3>2 DEF StaysTruthful
    <2>9. CASE BeginFinish(t)
      <3>1. task[t] # Idle
        BY <2>9 DEF BeginFinish, Idle
      <3>2. /\ task'[t].phase = "finishing" /\ task'[t].outcome = task[t].outcome
            /\ task'[t].cmd = task[t].cmd /\ task'[t].attempts = task[t].attempts
        BY <1>1, <2>9, <3>1 DEF BeginFinish, Claim
      <3>3. QED BY <1>1, <3>1, <3>2 DEF StaysTruthful
    <2>10. CASE Finish(t) \/ Abandon(t)
      BY <1>2, <2>10 DEF Finish, Abandon
    <2>11. CASE FinishThrows(t)
      <3>1. CASE task[t].outcome = "published"
        BY <2>3, <2>11, <3>1 DEF FinishThrows, Outcome, Idle
      <3>2. CASE task[t].outcome # "published"
        BY <1>2, <2>11, <3>2 DEF FinishThrows
      <3>3. QED BY <3>1, <3>2
    <2>12. ASSUME NEW c \in Command, ClaimExhausted(t, c)
           PROVE  task'[t] # Idle => StaysTruthful(task'[t])
      BY <1>2, <2>12 DEF HasBudget, ClaimExhausted
    <2>13. QED
      BY <1>3, <2>1, <2>4, <2>5, <2>6, <2>7, <2>8, <2>9, <2>10, <2>11, <2>12
         DEF DispatchStep, DispatchNext, Work
  <1>4. ASSUME NEW t \in Task, DispatchStep(t), NEW u \in Task, u # t
        PROVE  task'[u] = task[u]
    BY <1>4 DEF DispatchStep, DispatchNext, ClaimRow, ClaimExhausted, Work,
       RejectPayload, FindExpired, Publish, BrokerUnavailable, PublishEnds,
       BeginFinish, Finish, FinishThrows, Abandon, Decide
  <1>5. CASE UNCHANGED task
    BY <1>2, <1>5 DEF CallsAreTruthful, CallIsTruthful, StaysTruthful
  <1>6. ASSUME NEW t \in Task, DispatchStep(t)
        PROVE  CallsAreTruthful'
    BY <1>2, <1>3, <1>4, <1>6 DEF CallsAreTruthful, CallIsTruthful, StaysTruthful
  <1>7. QED
    BY <1>5, <1>6 DEF Next, ReconcileStep, ServiceStep, TimeStep, vars

\* What may become of the row of a command: published_at and completed_at stay,
\* only a receipt completes it, and only a pass takes that back.
RowKeeps(c) ==
  /\ command[c].acked => command'[c].acked
  /\ command[c].done => command'[c].done
  /\ command[c].state # "completed" /\ command'[c].state = "completed" => ReceiptCompletes(c)
  /\ command[c].state = "completed" /\ command'[c].state # "completed" =>
       c \in rec.victims /\ command'[c].state = "expired"

LEMMA RowStep ==
  ASSUME Inv, [Next]_vars, NEW c \in Command
  PROVE  RowKeeps(c)
  <1>1. command[c] \in CommandRow /\ command \in [Command -> CommandRow]
    BY DEF Inv, Core, TypeOK, StoreTypeOK
  <1>2. CASE IsReceipt
    <2>1. PICK m \in Message, d \in Command, result \in Result :
            ReceiveEvidence(m, d, result)
      BY <1>2 DEF IsReceipt
    <2>2. command' = [command EXCEPT ![d] = Evidenced(command[d], result)]
      BY <2>1, ReceiptStep
    <2>3. CASE c # d
      <3>1. command'[c] = command[c]
        BY <1>1, <2>2, <2>3
      <3>2. QED BY <3>1 DEF RowKeeps
    <2>4. CASE c = d
      <3>1. command'[c] = Evidenced(command[c], result)
        BY <1>1, <2>2, <2>4
      <3>2. evidence[m] = NoReceipt /\ evidence'[m].cmd = c /\ evidence'[m].result = result
        BY <2>1, <2>4 DEF ReceiveEvidence, Inv, Core, TypeOK, ServiceTypeOK
      <3>3. command[c].state # "completed" /\ command'[c].state = "completed" => result = "completed"
        BY <1>1, <3>1 DEF Evidenced, CommandRow
      <3>4. /\ command'[c].acked = command[c].acked
            /\ command[c].done => command'[c].done
            /\ command[c].state = "completed" => command'[c].state = "completed"
        BY <1>1, <3>1 DEF Evidenced, CommandRow
      <3>5. QED BY <3>2, <3>3, <3>4 DEF RowKeeps, ReceiptCompletes
    <2>5. QED BY <2>3, <2>4
  <1>3. CASE ~IsReceipt
    <2>1. Moves(c)
      BY <1>3, StepMoves DEF IsReceipt
    <2>2. QED BY <1>1, <2>1 DEF Moves, CommandRow, Undecided, Accepted, RowKeeps
  <1>4. QED BY <1>2, <1>3

\* What an incident about a command rests on stays true.
LEMMA GroundsStay ==
  ASSUME Inv, [Next]_vars, NEW c \in Command, NEW kind, Grounded(c, kind)
  PROVE  Grounded(c, kind)'
  <1>1. /\ Len(delivery[c]) <= Len(delivery'[c])
        /\ sent[c] => sent'[c]
        /\ Flagged(c) => Flagged(c)'
        /\ Accepted(c) => Accepted(c)'
    BY StepKeeps DEF Keeps, LogGrows
  <1>2. command[c].acked => command'[c].acked
    BY RowStep DEF RowKeeps
  <1>3. Len(delivery[c]) \in Nat /\ Len(delivery'[c]) \in Nat
    BY CoreStep, LenProperties DEF Inv, Core, TypeOK, StoreTypeOK
  <1>4. QED BY <1>1, <1>2, <1>3 DEF Grounded

\* The problems a pass finds are real when it finds them.
LEMMA ProblemsAreTrue ==
  ASSUME Inv, NEW old \in SUBSET Command, NEW p \in Problems(old)
  PROVE  p \in Command \X Kind /\ HoldsTrue(p)
  <1>1. CASE \E d \in Command : p = <<d, "conflicting_receipt">> /\ Flagged(d)
    BY <1>1 DEF HoldsTrue, Grounded, Kind
  <1>2. ASSUME NEW d \in Command, p = <<d, DispatchKind(d)>>, Accepted(d),
               SeenState(d) # "completed",
               outbox[d].status \in {"exhausted", "permanent", "pending", "leased"}
                 \/ command[d].acked
        PROVE  p \in Command \X Kind /\ HoldsTrue(p)
    <2>1. /\ outbox[d].status = "exhausted" => Len(delivery[d]) >= MaxAttempts
          /\ outbox[d].status = "permanent" => d \in Poison
          /\ command[d].acked => sent[d]
      BY DEF Inv, Supported, RowsAreAccounted, Verdicts, StatusAgreesWithState
    <2>2. p[1] = d /\ p[2] = DispatchKind(d) /\ p \in Command \X Kind
      BY <1>2 DEF DispatchKind, Kind
    <2>3. Grounded(d, DispatchKind(d))
      BY <1>2, <2>1 DEF DispatchKind, Grounded
    <2>4. Outstanding(d)
      BY <1>2 DEF Outstanding, SeenState
    <2>5. QED BY <2>2, <2>3, <2>4 DEF HoldsTrue
  <1>3. \/ \E d \in Command : p = <<d, "conflicting_receipt">> /\ Flagged(d)
        \/ \E d \in Command : /\ p = <<d, DispatchKind(d)>>
                              /\ Accepted(d) /\ SeenState(d) # "completed"
                              /\ \/ outbox[d].status \in {"exhausted", "permanent", "pending", "leased"}
                                 \/ command[d].acked
    BY DEF Problems, DispatchProblems, Flagged, Inv, Core, TypeOK, ServiceTypeOK
  <1>4. QED BY <1>1, <1>2, <1>3

\* How a step may change what a pass has chosen and found.
LEMMA FoundStep ==
  ASSUME Inv, [Next]_vars
  PROVE  /\ rec'.victims \subseteq rec.victims \cup Overdue
         /\ \A p \in rec'.found : p \in rec.found \/ \E old \in SUBSET Command : p \in Problems(old)
  <1>0. rec \in Pass
    BY DEF Inv, Core, TypeOK, ReconcileTypeOK
  <1>1. CASE rec' = rec
    BY <1>1
  <1>2. CASE RecBegin
    <2>1. PICK victims \in Limited(Overdue) :
            rec' = [NoPass EXCEPT !.phase = "begun", !.victims = victims,
                      !.live = {c \in Command : Accepted(c) /\ ttl[c] # "over"}]
      BY <1>2 DEF RecBegin
    <2>2. rec'.victims = victims /\ rec'.found = {}
      BY <2>1 DEF NoPass
    <2>3. QED BY <2>2, LimitedIsSubset
  <1>3. CASE RecExpire
    BY <1>0, <1>3 DEF RecExpire, Pass
  <1>4. CASE RecScan
    <2>1. PICK old \in SUBSET Command : \E found \in Limited(Problems(old)) :
            rec' = [rec EXCEPT !.phase = "scanned",
                               !.found = {p \in found : p[2] \in Watched}]
      BY <1>4 DEF RecScan
    <2>2. PICK found \in Limited(Problems(old)) :
            rec' = [rec EXCEPT !.phase = "scanned",
                               !.found = {p \in found : p[2] \in Watched}]
      BY <2>1
    <2>3. rec'.victims = rec.victims /\ rec'.found \subseteq found
      BY <1>0, <2>2 DEF Pass
    <2>4. QED BY <2>3, LimitedIsSubset
  <1>5. CASE RecChoose
    BY <1>0, <1>5 DEF RecChoose, Pass
  <1>6. CASE RecCommit \/ RecRollback
    <2>1. rec' = NoPass
      BY <1>6, Zenon DEF Redelivered, RecCommit, RecRollback
    <2>2. rec'.victims = {} /\ rec'.found = {}
      BY <2>1 DEF NoPass
    <2>3. QED BY <2>2
  <1>7. QED
    BY <1>1, <1>2, <1>3, <1>4, <1>5, <1>6
       DEF Next, vars, DispatchStep, ServiceStep, TimeStep, ReconcileStep, ReconcileNext

\* A pass writes what stays true until it commits.
LEMMA PassStep ==
  ASSUME Inv, [Next]_vars
  PROVE  PassIsTruthful' /\ IncidentsAreGrounded'
  <1>1. /\ rec \in Pass /\ incidents \subseteq Command \X Kind
        /\ PassIsTruthful /\ IncidentsAreGrounded
    BY DEF Inv, Core, TypeOK, ReconcileTypeOK, Supported, Verdicts
  <1>2. ASSUME rec'.victims \subseteq rec.victims \cup Overdue,
               \A p \in rec'.found : p \in rec.found \/ \E old \in SUBSET Command : p \in Problems(old)
        PROVE  PassIsTruthful'
    <2>1. ASSUME NEW c \in rec'.victims PROVE (Accepted(c) /\ ttl[c] = "over")'
      <3>1. c \in Command /\ Accepted(c) /\ ttl[c] = "over"
        BY <1>1, <1>2 DEF PassIsTruthful, Overdue, Undecided, Accepted, Pass
      <3>2. QED BY <3>1, StepKeeps DEF Keeps
    <2>2. ASSUME NEW p \in rec'.found PROVE Grounded(p[1], p[2])'
      <3>1. p \in Command \X Kind /\ Grounded(p[1], p[2])
        BY <1>1, <1>2, ProblemsAreTrue DEF PassIsTruthful, Pass, HoldsTrue
      <3>2. PICK c \in Command, kind \in Kind : p = <<c, kind>>
        BY <3>1
      <3>3. Grounded(c, kind)'
        BY <3>1, <3>2, GroundsStay
      <3>4. QED BY <3>2, <3>3
    <2>3. QED BY <2>1, <2>2 DEF PassIsTruthful
  <1>3. ASSUME incidents' \subseteq incidents \cup rec.found
        PROVE  IncidentsAreGrounded'
    <2>1. ASSUME NEW p \in incidents' PROVE Grounded(p[1], p[2])'
      <3>1. p \in Command \X Kind /\ Grounded(p[1], p[2])
        BY <1>1, <1>3 DEF PassIsTruthful, IncidentsAreGrounded, Pass
      <3>2. PICK c \in Command, kind \in Kind : p = <<c, kind>>
        BY <3>1
      <3>3. Grounded(c, kind)'
        BY <3>1, <3>2, GroundsStay
      <3>4. QED BY <3>2, <3>3
    <2>2. QED BY <2>1 DEF IncidentsAreGrounded
  <1>4. incidents' \subseteq incidents \cup rec.found
    BY DEF Next, vars, DispatchStep, ServiceStep, TimeStep, ReconcileStep, ReconcileNext,
       RecBegin, RecExpire, RecScan, RecChoose, RecCommit, RecRollback
  <1>5. /\ rec'.victims \subseteq rec.victims \cup Overdue
        /\ \A p \in rec'.found : p \in rec.found \/ \E old \in SUBSET Command : p \in Problems(old)
    BY FoundStep
  <1>6. QED BY <1>2, <1>3, <1>4, <1>5

\* The parts of Verdicts and Supported that speak of one command and what has
\* been received about it.
Judged(c) ==
  /\ outbox[c].status \in {"exhausted", "expired"} => command[c].state \notin Undecided
  /\ outbox[c].status = "published" => command[c].acked /\ command[c].state # "pending"
  /\ command[c].state = "published" => command[c].acked
  /\ command[c].acked => sent[c]
  /\ command[c].done <=> Received(c, "completed")
  /\ command[c].state = "completed" => command[c].done
  /\ command[c].state = "expired" => ttl[c] # "live" \/ Received(c, "expired")
  /\ command[c].state = "unknown" =>
       Len(delivery[c]) >= MaxAttempts \/ Received(c, "late")
  /\ command[c].done => Accepted(c)
  /\ Received(c, "expired") => Flagged(c) \/ command[c].state = "expired"

LEMMA JudgedInv ==
  ASSUME Inv, NEW c \in Command
  PROVE  Judged(c)
  BY DEF Inv, Verdicts, Supported, StatusAgreesWithState, CompletionIsProved,
         ExpiryIsJustified, UnknownIsJustified, ReceiptsAreWeighed, Judged

\* A step that records no receipt judges a command on what is there already.
LEMMA JudgedByStep ==
  ASSUME Inv, [Next]_vars, ~IsReceipt, NEW c \in Command
  PROVE  Judged(c)'
  <1>1. Judged(c)
    BY JudgedInv
  <1>2. Moves(c) /\ StatusMoves(c) /\ evidence' = evidence
    BY StepMoves DEF IsReceipt
  <1>3. /\ \A r \in Result : Received(c, r)' <=> Received(c, r)
        /\ Flagged(c)' <=> Flagged(c)
    BY <1>2 DEF Received, Flagged
  <1>4. /\ Received(c, "completed")' <=> Received(c, "completed")
        /\ Received(c, "late")' <=> Received(c, "late")
        /\ Received(c, "expired")' <=> Received(c, "expired")
    BY <1>3 DEF Result
  <1>5. /\ command[c] \in CommandRow
        /\ Len(delivery[c]) \in Nat /\ Len(delivery'[c]) \in Nat
    BY CoreStep, LenProperties DEF Inv, Core, TypeOK, StoreTypeOK
  <1>6. /\ Len(delivery[c]) <= Len(delivery'[c])
        /\ sent[c] => sent'[c]
        /\ ttl[c] # "live" => ttl'[c] # "live"
        /\ ttl[c] = "over" => ttl'[c] = "over"
        /\ Accepted(c) => Accepted(c)'
    BY StepKeeps DEF Keeps, LogGrows
  <1>7. Len(delivery[c]) >= MaxAttempts => Len(delivery'[c]) >= MaxAttempts
    BY <1>5, <1>6
  <1>8. /\ outbox'[c].status \in {"exhausted", "expired"} => command'[c].state \notin Undecided
        /\ outbox'[c].status = "published" =>
             command'[c].acked /\ command'[c].state # "pending"
        /\ command'[c].state = "published" => command'[c].acked
        /\ command'[c].acked => sent'[c]
    BY <1>1, <1>2, <1>5, <1>6 DEF Judged, Moves, StatusMoves, CommandRow, Undecided, Accepted
  <1>9. /\ command'[c].done <=> command[c].done
        /\ command'[c].state = "completed" => command'[c].done
        /\ command'[c].done => Accepted(c)'
    BY <1>1, <1>2, <1>5, <1>6 DEF Judged, Moves, CommandRow, Undecided, Accepted
  <1>10. /\ command'[c].state = "expired" => ttl'[c] # "live" \/ Received(c, "expired")
         /\ Received(c, "expired") => Flagged(c) \/ command'[c].state = "expired"
    BY <1>1, <1>2, <1>5, <1>6 DEF Judged, Moves, CommandRow, Undecided, Accepted
  <1>11. command'[c].state = "unknown" =>
           Len(delivery'[c]) >= MaxAttempts \/ Received(c, "late")
    BY <1>1, <1>2, <1>5, <1>7 DEF Judged, Moves, CommandRow, Undecided, Accepted
  <1>12. QED BY <1>1, <1>3, <1>4, <1>8, <1>9, <1>10, <1>11 DEF Judged

\* A receipt judges its command by the result it carries.
LEMMA JudgedByReceipt ==
  ASSUME Inv, NEW m \in Message, NEW d \in Command, NEW result \in Result,
         ReceiveEvidence(m, d, result), NEW c \in Command
  PROVE  Judged(c)'
  <1>1. Judged(c)
    BY JudgedInv
  <1>2. /\ \A r \in Result : Received(c, r)' <=> Received(c, r) \/ (c = d /\ r = result)
        /\ Flagged(c)' <=> Flagged(c) \/ (c = d /\ Conflicts(d, result))
        /\ command' = [command EXCEPT ![d] = Evidenced(command[d], result)]
        /\ UNCHANGED <<outbox, delivery, replays, ttl, sent>>
        /\ Accepted(d)
    BY ReceiptStep
  <1>3. /\ Received(c, "completed")' <=> Received(c, "completed") \/ (c = d /\ result = "completed")
        /\ Received(c, "late")' <=> Received(c, "late") \/ (c = d /\ result = "late")
        /\ Received(c, "expired")' <=> Received(c, "expired") \/ (c = d /\ result = "expired")
    BY <1>2 DEF Result
  <1>4. command[c] \in CommandRow /\ command \in [Command -> CommandRow]
    BY DEF Inv, Core, TypeOK, StoreTypeOK
  <1>5. CASE c # d
    <2>1. command'[c] = command[c]
      BY <1>2, <1>4, <1>5
    <2>2. QED BY <1>1, <1>2, <1>3, <1>5, <2>1 DEF Judged, Accepted
  <1>6. CASE c = d
    <2>1. command'[c] = Evidenced(command[c], result)
      BY <1>2, <1>4, <1>6
    <2>2. CASE result = "completed"
      <3>1. command'[c].state = "completed" /\ command'[c].done
            /\ command'[c].acked = command[c].acked
        BY <1>4, <2>1, <2>2 DEF Evidenced, CommandRow
      <3>2. Received(c, "expired") => Flagged(c)'
        BY <1>1, <1>2, <1>6, <2>2 DEF Judged, Conflicts
      <3>3. QED
        BY <1>1, <1>2, <1>3, <1>6, <2>2, <3>1, <3>2 DEF Judged, Accepted, Undecided
    <2>3. CASE result = "late"
      <3>1. /\ command[c].state = "completed" => command'[c] = command[c]
            /\ command[c].state # "completed" => command'[c].state = "unknown"
            /\ command'[c].acked = command[c].acked /\ command'[c].done = command[c].done
        BY <1>4, <2>1, <2>3 DEF Evidenced, CommandRow
      <3>2. Flagged(c)'
        BY <1>2, <1>6, <2>3 DEF Conflicts
      <3>3. QED
        BY <1>1, <1>2, <1>3, <1>6, <2>3, <3>1, <3>2 DEF Judged, Accepted, Undecided
    <2>4. CASE result = "expired"
      <3>1. /\ command[c].state = "completed" => command'[c] = command[c]
            /\ command[c].state # "completed" => command'[c].state = "expired"
            /\ command'[c].acked = command[c].acked /\ command'[c].done = command[c].done
        BY <1>4, <2>1, <2>4 DEF Evidenced, CommandRow
      <3>2. command[c].state = "completed" => Flagged(c)'
        BY <1>2, <1>6, <2>4 DEF Conflicts
      <3>3. QED
        BY <1>1, <1>2, <1>3, <1>6, <2>4, <3>1, <3>2 DEF Judged, Accepted, Undecided
    <2>5. QED BY <2>2, <2>3, <2>4 DEF Result
  <1>7. QED BY <1>5, <1>6

LEMMA InvStep ==
  ASSUME Inv, [Next]_vars
  PROVE  Inv'
  <1>1. Core'
    BY CoreStep DEF Inv
  <1>2. RowsAreAccounted' /\ CallsAreTruthful' /\ PassIsTruthful' /\ IncidentsAreGrounded'
    BY RowsStep, CallsStep, PassStep
  <1>3. \A c \in Command : Judged(c)'
    BY JudgedByStep, JudgedByReceipt DEF IsReceipt
  <1>4. /\ StatusAgreesWithState' /\ CompletionIsProved' /\ ExpiryIsJustified'
        /\ UnknownIsJustified' /\ ReceiptsAreWeighed'
    BY <1>3 DEF StatusAgreesWithState, CompletionIsProved, ExpiryIsJustified,
                UnknownIsJustified, ReceiptsAreWeighed, Judged
  <1>5. QED BY <1>1, <1>2, <1>4 DEF Inv, Verdicts, Supported

\* The initial state of an empty database satisfies the invariant.
LEMMA InvInit ==
  ASSUME Init
  PROVE  Inv
  <1> USE DEF Init, StoreInit, DispatchInit, ServiceInit, ReconcileInit
  <1>1. Core
    BY CoreInit
  <1>2. \A c \in Command, r \in Result : ~Received(c, r) /\ ~Flagged(c)
    BY DEF Received, Flagged, NoReceipt, Result
  <1>3. ASSUME NEW c \in Command PROVE Judged(c)
    <2>1. /\ ~Received(c, "completed") /\ ~Received(c, "expired") /\ ~Received(c, "late")
      BY <1>2 DEF Result
    <2>2. QED BY <2>1 DEF Judged, NoCommand, NoOutbox, Undecided
  <1>4. StatusAgreesWithState /\ CompletionIsProved /\ ExpiryIsJustified
        /\ UnknownIsJustified /\ ReceiptsAreWeighed
    BY <1>3 DEF StatusAgreesWithState, CompletionIsProved, ExpiryIsJustified,
                UnknownIsJustified, ReceiptsAreWeighed, Judged
  <1>5. RowsAreAccounted
    <2>1. \A c \in Command : /\ outbox[c].attempts = 0 /\ replays[c] = 0
                             /\ outbox[c].status = "none" /\ Len(delivery[c]) = 0
      BY DEF NoOutbox
    <2>2. MaxAttempts * 0 + 0 = 0
      OBVIOUS
    <2>3. QED BY <2>1, <2>2 DEF RowsAreAccounted
  <1>6. CallsAreTruthful /\ PassIsTruthful /\ IncidentsAreGrounded
    BY DEF CallsAreTruthful, PassIsTruthful, IncidentsAreGrounded, NoPass
  <1>7. QED BY <1>1, <1>4, <1>5, <1>6 DEF Inv, Verdicts, Supported

----------------------------------------------------------------------------
(* The theorems *)

\* The whole invariant holds in every reachable state.
THEOREM InvInvariant == Spec => []Inv
  <1>1. Init => Inv
    BY InvInit
  <1>2. Inv /\ [Next]_vars => Inv'
    BY InvStep
  <1>3. QED BY <1>1, <1>2, PTL DEF Spec

\* A command is claimed at most MAX_ATTEMPTS times between two replays.
THEOREM BudgetHolds == Spec => []AttemptsWithinBudget
  <1>1. Inv => AttemptsWithinBudget
    <2>1. ASSUME Inv, NEW c \in Command
          PROVE  Len(delivery[c]) <= MaxAttempts * (replays[c] + 1)
      <3>1. /\ Len(delivery[c]) \in Nat /\ replays[c] \in Nat
            /\ outbox[c].attempts \in 0..MaxAttempts
        BY <2>1, LenProperties DEF Inv, Core, TypeOK, StoreTypeOK, OutboxRow
      <3>2. Len(delivery[c]) <= MaxAttempts * replays[c] + outbox[c].attempts
        BY <2>1 DEF Inv, Supported, RowsAreAccounted
      <3>3. MaxAttempts * (replays[c] + 1) = MaxAttempts * replays[c] + MaxAttempts
        BY <3>1
      <3>4. MaxAttempts * replays[c] \in Nat
        BY <3>1
      <3>5. QED BY <3>1, <3>2, <3>3, <3>4
    <2>2. QED BY <2>1 DEF AttemptsWithinBudget
  <1>2. QED BY <1>1, InvInvariant, PTL

----------------------------------------------------------------------------
(* The log of attempts and the rows it explains *)

Explained(c) ==
  /\ command[c].acked <=> \E i \in DOMAIN delivery[c] : delivery[c][i] = "published"
  /\ outbox[c].status \in {"published", "permanent", "expired"} =>
       delivery[c] # <<>> /\ delivery[c][Len(delivery[c])] = outbox[c].status

\* A claim adds an open attempt or none, and marks none as published.
LEMMA ClaimExplains ==
  ASSUME Inv, NEW c \in Command, Explained(c), command'[c].acked <=> command[c].acked,
         \/ delivery'[c] = Append(Abandoned(c), "claimed")
         \/ delivery'[c] = Abandoned(c),
         outbox'[c].status \in {"leased", "exhausted"}
  PROVE  Explained(c)'
  <1> DEFINE n == Len(delivery[c])
             log == Append(Abandoned(c), "claimed")
  <1>1. /\ Abandoned(c) \in Seq(AttemptOutcome) /\ Len(Abandoned(c)) = n
        /\ n \in Nat /\ DOMAIN delivery[c] = 1..n /\ DOMAIN Abandoned(c) = 1..n
        /\ \A i \in 1..n : Abandoned(c)[i] = "published" <=> delivery[c][i] = "published"
    BY AbandonedLog, LenProperties DEF Inv, Core, TypeOK, StoreTypeOK
  <1>2. /\ DOMAIN log = 1..(n + 1)
        /\ \A i \in 1..n : log[i] = Abandoned(c)[i]
        /\ log[n + 1] = "claimed"
    <2>1. "claimed" \in AttemptOutcome
      BY DEF AttemptOutcome
    <2>2. QED BY <1>1, <2>1, AppendProperties, LenProperties
  <1>3. \A i : i \in 1..(n + 1) <=> i \in 1..n \/ i = n + 1
    <2> HIDE DEF n
    <2>1. QED BY <1>1
  <1> HIDE DEF log, n
  <1>4. (\E i \in DOMAIN delivery'[c] : delivery'[c][i] = "published")
          <=> \E i \in DOMAIN delivery[c] : delivery[c][i] = "published"
    <2>1. CASE delivery'[c] = Abandoned(c)
      BY <1>1, <2>1
    <2>2. CASE delivery'[c] = log
      BY <1>1, <1>2, <1>3, <2>2
    <2>3. QED BY <2>1, <2>2 DEF log
  <1>5. QED BY <1>4 DEF Explained

\* finish writes one outcome to the attempt, the newest, and to the row.
LEMMA FinishExplains ==
  ASSUME Inv, NEW item \in Claim, item.phase = "finishing", HoldsLease(item), Record(item),
         Explained(item.cmd)
  PROVE  Explained(item.cmd)'
  <1> DEFINE c == item.cmd
             n == Len(delivery[c])
             log == [delivery[c] EXCEPT ![item.token] = item.outcome]
  <1>1. /\ c \in Command /\ item.outcome \in Outcome /\ item.token \in Nat \ {0}
    BY DEF Claim
  <1>2. /\ command[c] \in CommandRow /\ outbox[c] \in OutboxRow
        /\ n \in Nat /\ DOMAIN delivery[c] = 1..n
    BY <1>1, LenProperties DEF Inv, Core, TypeOK, StoreTypeOK
  <1>3. item.token = n /\ delivery[c][n] = "claimed" /\ n \in 1..n
    <2>1. item.token = n /\ delivery[c][item.token] = "claimed"
      BY <1>1 DEF HoldsLease, Inv, Core, OpenAttemptIsCurrent, OpenAttempt
    <2> HIDE DEF n, c
    <2>2. QED BY <1>1, <1>2, <2>1
  <1>4. /\ command'[c] = Concluded(command[c], item)
        /\ outbox'[c] = [outbox[c] EXCEPT !.status = FinishStatus(item), !.token = 0,
                                          !.lease = FALSE, !.due = FALSE]
        /\ delivery'[c] = log
    BY <1>1 DEF Record, Inv, Core, TypeOK, StoreTypeOK
  <1>5. /\ DOMAIN log = 1..n /\ Len(log) = n /\ log[n] = item.outcome
        /\ \A i \in 1..n : i # n => log[i] = delivery[c][i]
    BY <1>2, <1>3
  <1> HIDE DEF log, n
  <1>6. outbox'[c].status = FinishStatus(item)
    BY <1>2, <1>4 DEF OutboxRow
  <1>7. /\ FinishStatus(item) = "published" <=> item.outcome = "published"
        /\ FinishStatus(item) \in {"published", "permanent", "expired"} =>
             FinishStatus(item) = item.outcome
    BY <1>1 DEF FinishStatus, Outcome
  <1>8. command'[c].acked <=> command[c].acked \/ item.outcome = "published"
    <2>1. CASE item.outcome = "published"
      <3>1. FinishStatus(item) = "published"
        BY <1>7, <2>1
      <3>2. command'[c] = [command[c] EXCEPT !.acked = TRUE,
                             !.state = IF @ = "pending" THEN "published" ELSE @]
        BY <1>4, <3>1 DEF Concluded
      <3>3. command'[c].acked = TRUE
        BY <1>2, <3>2 DEF CommandRow
      <3>4. QED BY <2>1, <3>3
    <2>2. CASE item.outcome # "published"
      <3>1. command'[c] \in {command[c], Decided(command[c], "expired"),
                             Decided(command[c], "unknown")}
        BY <1>4, <1>7, <2>2 DEF Concluded
      <3>2. command'[c].acked = command[c].acked
        BY <1>2, <3>1 DEF Decided, CommandRow
      <3>3. QED BY <2>2, <3>2
    <2>3. QED BY <2>1, <2>2
  <1>9. (\E i \in 1..n : log[i] = "published")
          <=> (\E i \in 1..n : delivery[c][i] = "published") \/ item.outcome = "published"
    BY <1>3, <1>5
  <1>10. command'[c].acked <=> \E i \in DOMAIN delivery'[c] : delivery'[c][i] = "published"
    BY <1>2, <1>4, <1>5, <1>8, <1>9 DEF Explained
  <1>11. outbox'[c].status \in {"published", "permanent", "expired"} =>
           delivery'[c] # <<>> /\ delivery'[c][Len(delivery'[c])] = outbox'[c].status
    <2>1. log # <<>>
      BY <1>3, <1>5
    <2>2. QED BY <1>4, <1>5, <1>6, <1>7, <2>1
  <1>12. QED BY <1>10, <1>11 DEF Explained

LEMMA ExplainedStep ==
  ASSUME Inv, LogExplainsRow, [Next]_vars, NEW c \in Command
  PROVE  Explained(c)'
  <1>1. Explained(c)
    BY DEF LogExplainsRow, Explained
  <1>2. ASSUME delivery'[c] = delivery[c], command'[c].acked <=> command[c].acked,
               outbox'[c].status = outbox[c].status \/ outbox'[c].status = "pending"
        PROVE  Explained(c)'
    BY <1>1, <1>2 DEF Explained
  <1>3. /\ command \in [Command -> CommandRow] /\ outbox \in [Command -> OutboxRow]
        /\ delivery \in [Command -> Seq(AttemptOutcome)]
        /\ task \in [Task -> {Idle} \cup Claim]
    BY DEF Inv, Core, TypeOK, StoreTypeOK, DispatchTypeOK
  <1>4. CASE UNCHANGED storeVars
    BY <1>2, <1>4 DEF storeVars
  <1>5. ASSUME NEW t \in Task, DispatchStep(t) PROVE Explained(c)'
    <2>1. ASSUME NEW d \in Command, ClaimRow(t, d) PROVE Explained(c)'
      <3>1. CASE c = d
        <4>1. /\ delivery'[c] = Append(Abandoned(c), "claimed") /\ command' = command
              /\ outbox'[c].status = "leased"
          BY <1>3, <2>1, <3>1 DEF HasBudget, ClaimRow, OutboxRow
        <4>2. QED BY <1>1, <4>1, ClaimExplains
      <3>2. CASE c # d
        <4>1. delivery'[c] = delivery[c] /\ command' = command /\ outbox'[c] = outbox[c]
          BY <1>3, <2>1, <3>2 DEF ClaimRow
        <4>2. QED BY <1>2, <4>1
      <3>3. QED BY <3>1, <3>2
    <2>2. ASSUME NEW d \in Command, ClaimExhausted(t, d) PROVE Explained(c)'
      <3>1. CASE c = d
        <4>1. /\ delivery'[c] = Abandoned(c) /\ outbox'[c].status = "exhausted"
              /\ command'[c] = Decided(command[c], "unknown")
          BY <1>3, <2>2, <3>1 DEF HasBudget, ClaimExhausted, OutboxRow
        <4>2. command'[c].acked = command[c].acked
          BY <1>3, <4>1 DEF Decided, CommandRow
        <4>3. QED BY <1>1, <4>1, <4>2, ClaimExplains
      <3>2. CASE c # d
        <4>1. /\ delivery'[c] = delivery[c] /\ command'[c] = command[c]
              /\ outbox'[c] = outbox[c]
          BY <1>3, <2>2, <3>2 DEF HasBudget, ClaimExhausted
        <4>2. QED BY <1>2, <4>1
      <3>3. QED BY <3>1, <3>2
    <2>3. CASE Work(t) \/ FinishThrows(t) \/ Abandon(t)
      <3>1. \/ UNCHANGED storeVars
            \/ Publish(t)
            \/ task[t].phase = "finishing" /\ HoldsLease(task[t]) /\ Record(task[t])
        BY <2>3 DEF Work, RejectPayload, FindExpired, BrokerUnavailable, PublishEnds,
                    BeginFinish, Finish, FinishThrows, Abandon, FinishEffect
      <3>2. CASE Publish(t)
        BY <1>2, <3>2 DEF Publish
      <3>3. CASE task[t].phase = "finishing" /\ HoldsLease(task[t]) /\ Record(task[t])
        <4>1. task[t] \in Claim
          BY <1>3, <3>3 DEF Idle
        <4>2. CASE c = task[t].cmd
          BY <1>1, <3>3, <4>1, <4>2, FinishExplains
        <4>3. CASE c # task[t].cmd
          <5>1. /\ delivery'[c] = delivery[c] /\ command'[c] = command[c]
                /\ outbox'[c] = outbox[c]
            BY <1>3, <3>3, <4>3 DEF Record
          <5>2. QED BY <1>2, <5>1
        <4>4. QED BY <4>2, <4>3
      <3>4. QED BY <1>4, <3>1, <3>2, <3>3
    <2>4. QED BY <1>5, <2>1, <2>2, <2>3 DEF DispatchStep, DispatchNext
  <1>6. CASE ReconcileStep
    <2>1. CASE RecCommit
      <3>1. delivery' = delivery /\ command'[c].acked = command[c].acked
        BY <1>3, <2>1 DEF RecCommit, CommandRow
      <3>2. outbox'[c] = outbox[c] \/ outbox'[c] = Redelivered(outbox[c])
        BY <2>1 DEF RecCommit
      <3>3. outbox'[c].status = outbox[c].status \/ outbox'[c].status = "pending"
        BY <1>3, <3>2 DEF Redelivered, OutboxRow
      <3>4. QED BY <1>2, <3>1, <3>3
    <2>2. CASE ~RecCommit
      BY <1>2, <1>6, <2>2
         DEF ReconcileStep, ReconcileNext, RecBegin, RecExpire, RecScan, RecChoose,
             RecRollback, storeVars
    <2>3. QED BY <2>1, <2>2
  <1>7. CASE ServiceStep
    <2>1. delivery' = delivery
      BY <1>7 DEF ServiceStep, ServiceNext, AcceptPayment, Replay, ReceiveEvidence
    <2>2. \/ command'[c] = command[c]
          \/ command'[c] = [command[c] EXCEPT !.state = "pending"]
          \/ \E result \in Result : command'[c] = Evidenced(command[c], result)
      BY <1>3, <1>7 DEF ServiceStep, ServiceNext, AcceptPayment, Replay, ReceiveEvidence
    <2>3. command'[c].acked = command[c].acked
      BY <1>3, <2>2 DEF Evidenced, CommandRow
    <2>4. \/ outbox'[c] = outbox[c]
          \/ outbox'[c] = [outbox[c] EXCEPT !.status = "pending", !.due = TRUE]
          \/ outbox'[c] = [outbox[c] EXCEPT !.status = "pending", !.attempts = 0,
                                            !.due = TRUE, !.token = 0, !.lease = FALSE]
      BY <1>3, <1>7 DEF ServiceStep, ServiceNext, AcceptPayment, Replay, ReceiveEvidence
    <2>5. outbox'[c].status = outbox[c].status \/ outbox'[c].status = "pending"
      BY <1>3, <2>4 DEF OutboxRow
    <2>6. QED BY <1>2, <2>1, <2>3, <2>5
  <1>8. ASSUME NEW d \in Command, TimeStep(d) PROVE Explained(c)'
    <2>1. delivery' = delivery /\ command' = command
      BY <1>8 DEF TimeStep, Time, LeaseLapses, ComesDue, Ages
    <2>2. outbox'[c].status = outbox[c].status
      BY <1>3, <1>8 DEF TimeStep, Time, LeaseLapses, ComesDue, Ages, OutboxRow
    <2>3. QED BY <1>2, <2>1, <2>2
  <1>9. QED BY <1>4, <1>5, <1>6, <1>7, <1>8 DEF Next, vars, storeVars

\* Status, state and published_at agree, although dispatch, receipts and the
\* reconciler write them in different transactions, and the log of attempts
\* accounts for what dispatch has made of a row.
THEOREM TablesAlwaysAgree == Spec => []TablesAgree
  <1>1. Init => LogExplainsRow
    <2> SUFFICES ASSUME Init PROVE LogExplainsRow
      OBVIOUS
    <2>1. \A c \in Command : /\ delivery[c] = <<>> /\ outbox[c] = NoOutbox
                             /\ command[c] = NoCommand
      BY DEF Init, StoreInit
    <2>2. QED BY <2>1 DEF LogExplainsRow, NoOutbox, NoCommand
  <1>2. Inv /\ LogExplainsRow /\ [Next]_vars => LogExplainsRow'
    BY ExplainedStep DEF LogExplainsRow, Explained
  <1>3. Inv => StatusAgreesWithState
    BY DEF Inv, Verdicts
  <1>4. QED BY <1>1, <1>2, <1>3, InvInvariant, PTL DEF Spec, TablesAgree

\* Completion, expiry and doubt each rest on recorded evidence, on the clock
\* or on a spent budget.
THEOREM VerdictsHold == Spec => []VerdictsAreJustified
  BY InvInvariant, PTL DEF Inv, Verdicts, VerdictsAreJustified

\* What calls and passes carry from one statement to the next is still true when
\* they write it, and rows, attempts and receipts add up.
THEOREM SupportHolds == Spec => []Supported
  <1>1. Inv => Supported
    BY DEF Inv
  <1>2. QED BY <1>1, InvInvariant, PTL

\* Contradictory receipts leave a flagged one, except where the reconciler has
\* overwritten the completion.
THEOREM ContradictionsAreFlagged == Spec => []ContradictionIsFlagged
  <1>1. Inv => ContradictionIsFlagged
    BY DEF Inv, Supported, ReceiptsAreWeighed, ContradictionIsFlagged
  <1>2. QED BY <1>1, InvInvariant, PTL

\* What is true of a problem a pass has found is made false by nothing but a
\* receipt that completes the command.
LEMMA SaidStaysTrue ==
  ASSUME Inv, [Next]_vars, NEW p \in Command \X Kind, HoldsTrue(p),
         p[1] \in rec.victims => p[1] \in rec'.victims \/ command'[p[1]].state = "expired"
  PROVE  HoldsTrue(p)' \/ ReceiptCompletes(p[1])
  <1>1. PICK c \in Command, kind \in Kind : p[1] = c /\ p[2] = kind
    OBVIOUS
  <1>2. Grounded(c, kind)'
    BY <1>1, GroundsStay DEF HoldsTrue
  <1>3. ASSUME kind # "conflicting_receipt", ~ReceiptCompletes(c) PROVE Outstanding(c)'
    <2>1. Outstanding(c)
      BY <1>1, <1>3 DEF HoldsTrue
    <2>2. CASE Received(c, "completed")
      BY <1>1, <1>3, <2>1, <2>2, RowStep DEF Outstanding, RowKeeps
    <2>3. CASE ~Received(c, "completed")
      <3>1. command[c].state # "completed"
        BY <2>3 DEF Inv, Verdicts, CompletionIsProved
      <3>2. QED BY <1>3, <3>1, RowStep DEF Outstanding, RowKeeps
    <2>4. QED BY <2>2, <2>3
  <1>4. QED BY <1>1, <1>2, <1>3 DEF HoldsTrue

\* A pass that keeps what it has found keeps its victims; one that records it
\* has made them expired.
LEMMA VictimsStep ==
  ASSUME Inv, [Next]_vars, NEW c \in rec.victims, NEW p \in rec.found,
         p \in rec'.found \/ incidents' # incidents
  PROVE  c \in rec'.victims \/ command'[c].state = "expired"
  <1>1. rec \in Pass /\ c \in Command /\ command \in [Command -> CommandRow]
    BY DEF Inv, Core, TypeOK, StoreTypeOK, ReconcileTypeOK, Pass
  <1>2. CASE rec' = rec
    BY <1>2
  <1>3. CASE RecBegin \/ RecRollback
    <2>1. rec'.found = {} /\ incidents' = incidents
      <3>1. CASE RecBegin
        <4>1. \E victims, live \in SUBSET Command :
                rec' = [NoPass EXCEPT !.phase = "begun", !.victims = victims, !.live = live]
          BY <3>1, LimitedIsSubset DEF RecBegin, Overdue
        <4>2. QED BY <3>1, <4>1 DEF RecBegin, NoPass
      <3>2. CASE RecRollback
        BY <3>2 DEF RecRollback, NoPass
      <3>3. QED BY <1>3, <3>1, <3>2
    <2>2. QED BY <2>1
  <1>4. CASE RecExpire \/ RecScan \/ RecChoose
    BY <1>1, <1>4 DEF RecExpire, RecScan, RecChoose, Pass
  <1>5. CASE RecCommit
    BY <1>1, <1>5 DEF RecCommit, Redelivered, CommandRow
  <1>6. QED
    BY <1>2, <1>3, <1>4, <1>5
       DEF Next, vars, DispatchStep, ServiceStep, TimeStep, ReconcileStep, ReconcileNext

\* Every incident was true when its pass looked, and is late, if at all, by the
\* receipt that completed its command since.
THEOREM IncidentsAreTrue == Spec => IncidentsWereTrue
  <1> DEFINE Told ==
        /\ \A p \in rec'.found \ rec.found : HoldsTrue(p)
        /\ \A p \in rec.found \cap rec'.found :
             HoldsTrue(p) /\ ~HoldsTrue(p)' => ReceiptCompletes(p[1])
        /\ \A p \in incidents' \ incidents :
             p \in rec.found /\ (HoldsTrue(p) => HoldsTrue(p)')
  <1>1. ASSUME Inv, [Next]_vars PROVE Told
    <2>1. rec.found \subseteq Command \X Kind
      BY <1>1 DEF Inv, Core, TypeOK, ReconcileTypeOK, Pass
    <2>2. ASSUME NEW p \in rec'.found \ rec.found PROVE HoldsTrue(p)
      BY <1>1, <2>2, FoundStep, ProblemsAreTrue
    <2>3. ASSUME NEW p \in rec.found, p \in rec'.found \/ incidents' # incidents, HoldsTrue(p)
          PROVE  HoldsTrue(p)' \/ ReceiptCompletes(p[1])
      <3>1. p \in Command \X Kind
        BY <2>1, <2>3
      <3>2. p[1] \in rec.victims => p[1] \in rec'.victims \/ command'[p[1]].state = "expired"
        BY <1>1, <2>3, VictimsStep
      <3>3. QED BY <1>1, <2>3, <3>1, <3>2, SaidStaysTrue
    <2>4. ASSUME NEW p \in incidents' \ incidents
          PROVE  p \in rec.found /\ (HoldsTrue(p) => HoldsTrue(p)')
      <3>1. RecCommit
        BY <1>1, <2>4
           DEF Next, vars, DispatchStep, ServiceStep, TimeStep, ReconcileStep, ReconcileNext,
               RecBegin, RecExpire, RecScan, RecChoose, RecRollback
      <3>2. p \in rec.found
        BY <2>4, <3>1 DEF RecCommit
      <3>3. ~ReceiptCompletes(p[1])
        BY <3>1 DEF RecCommit, ReceiptCompletes, NoReceipt
      <3>4. QED BY <2>3, <2>4, <3>2, <3>3
    <2>5. QED BY <2>2, <2>3, <2>4
  <1>2. Inv /\ [Next]_vars => [Told]_vars
    BY <1>1
  <1>3. Inv => IncidentsAreGrounded
    BY DEF Inv, Verdicts
  <1>4. QED BY <1>2, <1>3, InvInvariant, PTL DEF Spec, IncidentsWereTrue

\* published_at and completed_at stay, and a completed command leaves its state
\* only in the expiry UPDATE of a pass that had chosen it before.
THEOREM CompletionsAreLostOnlyToExpiry == Spec => CompletionLostOnlyToExpiry
  <1> DEFINE Loss ==
        \A c \in Command :
          /\ command[c].acked => command'[c].acked
          /\ command[c].done => command'[c].done
          /\ command[c].state = "completed" /\ command'[c].state # "completed" =>
               c \in rec.victims /\ command'[c].state = "expired"
  <1>1. ASSUME Inv, [Next]_vars PROVE Loss
    BY <1>1, RowStep DEF RowKeeps
  <1>2. Inv /\ [Next]_vars => [Loss]_vars
    BY <1>1
  <1>3. QED BY <1>2, InvInvariant, PTL DEF Spec, CompletionLostOnlyToExpiry

----------------------------------------------------------------------------
(* Refinement of the state machine *)

\* Where a command stands after a step, seen through the refinement mapping.
LEMMA PhaseStep ==
  ASSUME Inv, [Next]_vars, NEW c \in Command
  PROVE  \/ LifecyclePhase'[c] = LifecyclePhase[c]
         \/ LifecyclePhase'[c] \in Announcements!Forward(LifecyclePhase[c])
  <1>1. /\ command[c] \in CommandRow /\ command'[c] \in CommandRow
        /\ command \in [Command -> CommandRow]
    BY CoreStep DEF Inv, Core, TypeOK, StoreTypeOK
  <1>2. /\ LifecyclePhase[c] = IF command[c].done THEN "completed" ELSE command[c].state
        /\ LifecyclePhase'[c] = IF command'[c].done THEN "completed" ELSE command'[c].state
    BY DEF LifecyclePhase
  <1>3. Judged(c)
    BY JudgedInv
  <1>4. ASSUME NEW from \in State
        PROVE  Announcements!transitions[from] =
                 CASE from = "none"      -> {"pending"}
                   [] from = "pending"   -> {"published", "completed", "expired", "unknown"}
                   [] from = "published" -> {"completed", "expired", "unknown"}
                   [] from = "unknown"   -> {"completed", "expired"}
                   [] from = "expired"   -> {"completed"}
                   [] OTHER              -> {}
    BY DEF Announcements!transitions, Announcements!Phase, State
  <1>5. /\ Announcements!Forward("none") = {"pending"}
        /\ Announcements!Forward("pending") = {"published", "completed", "expired", "unknown"}
        /\ Announcements!Forward("published") = {"completed", "expired", "unknown"}
        /\ Announcements!Forward("unknown") = {"completed", "expired"}
        /\ Announcements!Forward("expired") = {"completed", "unknown"}
    BY <1>4 DEF Announcements!Forward, State
  <1>6. CASE IsReceipt
    <2>1. PICK m \in Message, d \in Command, result \in Result :
            ReceiveEvidence(m, d, result)
      BY <1>6 DEF IsReceipt
    <2>2. Accepted(d) /\ command' = [command EXCEPT ![d] = Evidenced(command[d], result)]
      BY <2>1, ReceiptStep
    <2>3. \/ command'[c] = command[c]
          \/ Accepted(c) /\ command'[c] = Evidenced(command[c], result)
      BY <1>1, <2>2
    <2>4. QED
      BY <1>1, <1>2, <1>3, <1>5, <2>3 DEF Evidenced, Judged, Accepted, CommandRow, State
  <1>7. CASE ~IsReceipt
    <2>1. Moves(c)
      BY <1>7, StepMoves DEF IsReceipt
    <2>2. /\ command[c].state = "completed" => command[c].done
          /\ command[c].done => Accepted(c)
      BY <1>3 DEF Judged
    <2>3. CASE command'[c].done = command[c].done /\ command'[c].state = command[c].state
      BY <1>2, <2>3
    <2>4. CASE ~Accepted(c) /\ command'[c].done = command[c].done
               /\ command'[c].state = "pending"
      BY <1>2, <1>5, <2>2, <2>4 DEF Accepted
    <2>5. CASE command[c].state \in Undecided /\ command'[c].done = command[c].done
               /\ command'[c].state \in {"expired", "unknown"}
      BY <1>2, <1>5, <2>5 DEF Undecided
    <2>6. CASE command[c].state = "pending" /\ command'[c].done = command[c].done
               /\ command'[c].state = "published"
      BY <1>2, <1>5, <2>6
    <2>7. CASE Accepted(c) /\ command'[c].done = command[c].done
               /\ command'[c].state = "expired"
      BY <1>1, <1>2, <1>5, <2>2, <2>7 DEF Accepted, CommandRow, State
    <2>8. QED
      BY <1>1, <2>1, <2>3, <2>4, <2>5, <2>6, <2>7 DEF Moves, CommandRow
  <1>8. QED BY <1>6, <1>7

\* Delivery implements the state machine of the announcements: with a recorded
\* completion counted as completed, every step moves every command along an
\* edge of Lifecycle or not at all.
THEOREM RefinesLifecycle == Spec => FollowsLifecycle
  <1>1. Init => Announcements!Init
    BY DEF Init, StoreInit, NoCommand, LifecyclePhase, Announcements!Init
  <1>2. Inv /\ [Next]_vars => [Announcements!Next]_LifecyclePhase
    <2> SUFFICES ASSUME Inv, [Next]_vars PROVE Announcements!Next
      OBVIOUS
    <2>1. LifecyclePhase' \in [Command -> Announcements!Phase]
      <3>1. \A c \in Command : command'[c] \in CommandRow
        BY CoreStep DEF Inv, Core, TypeOK, StoreTypeOK
      <3>2. QED BY <3>1 DEF LifecyclePhase, Announcements!Phase, CommandRow, State
    <2>2. QED BY <2>1, PhaseStep DEF Announcements!Next
  <1>3. QED BY <1>1, <1>2, InvInvariant, PTL DEF Spec, FollowsLifecycle, Announcements!Spec

=============================================================================
