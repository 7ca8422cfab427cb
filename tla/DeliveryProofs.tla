--------------------------- MODULE DeliveryProofs ---------------------------
(***************************************************************************)
(* Theorems about Delivery, for every set of commands, dispatch calls and  *)
(* messages and every value of the bounds.                                 *)
(***************************************************************************)
EXTENDS Delivery, SequenceTheorems, TLAPS

USE StoreAssumption DEF StoreAssumption

----------------------------------------------------------------------------
(* Types, and the log of attempts *)

\* Where a row points into its log decides whether finish finds the attempt it
\* means to close, so types and open attempts are one inductive invariant.
Core == TypeOK /\ OpenAttemptIsCurrent

\* Closing the open attempt of a row leaves a log of the same length.
LEMMA AbandonedLog ==
  ASSUME NEW c \in Command, delivery[c] \in Seq(AttemptOutcome)
  PROVE  /\ Abandoned(c) \in Seq(AttemptOutcome)
         /\ Len(Abandoned(c)) = Len(delivery[c])
         /\ \A i \in 1..Len(delivery[c]) :
              Abandoned(c)[i] = IF i = outbox[c].token /\ delivery[c][i] = "claimed"
                                  THEN "lease_expired" ELSE delivery[c][i]
  <1>1. /\ Len(delivery[c]) \in Nat
        /\ DOMAIN delivery[c] = 1..Len(delivery[c])
        /\ delivery[c] \in [1..Len(delivery[c]) -> AttemptOutcome]
    BY LenProperties
  <1> DEFINE e(i) == IF i = outbox[c].token /\ delivery[c][i] = "claimed"
                       THEN "lease_expired" ELSE delivery[c][i]
  <1>2. Abandoned(c) = [i \in 1..Len(delivery[c]) |-> e(i)]
    BY <1>1 DEF Abandoned
  <1>3. \A i \in 1..Len(delivery[c]) : e(i) \in AttemptOutcome
    BY <1>1 DEF AttemptOutcome
  <1> HIDE DEF e
  <1>4. Abandoned(c) \in Seq(AttemptOutcome)
    BY <1>1, <1>2, <1>3, IsASeq
  <1>5. Len(Abandoned(c)) = Len(delivery[c])
    BY <1>1, <1>2, <1>4
  <1>6. QED BY <1>2, <1>4, <1>5 DEF e

\* claim keeps the types and the open attempts: it closes the attempt the row
\* pointed at before it opens the next.
LEMMA ClaimRowCore ==
  ASSUME Core, NEW t \in Task, NEW c \in Command, ClaimRow(t, c),
         UNCHANGED <<rec, incidents, evidence>>
  PROVE  Core'
  <1> USE DEF Core, TypeOK, StoreTypeOK, DispatchTypeOK, ServiceTypeOK, ReconcileTypeOK
  <1> DEFINE log == Abandoned(c)
             n == Len(delivery[c])
  <1>1. /\ log \in Seq(AttemptOutcome) /\ Len(log) = n
        /\ n \in Nat /\ DOMAIN delivery[c] = 1..n
        /\ \A i \in 1..n :
             log[i] = IF i = outbox[c].token /\ delivery[c][i] = "claimed"
                        THEN "lease_expired" ELSE delivery[c][i]
    BY AbandonedLog, LenProperties
  <1>2. /\ delivery' = [delivery EXCEPT ![c] = Append(log, "claimed")]
        /\ outbox' = [outbox EXCEPT ![c] =
             [@ EXCEPT !.status = "leased", !.attempts = outbox[c].attempts + 1,
                       !.token = n + 1, !.lease = TRUE]]
        /\ outbox[c].attempts < MaxAttempts
        /\ task' = [task EXCEPT ![t] =
             [phase |-> "claimed", cmd |-> c, token |-> n + 1,
              attempts |-> outbox[c].attempts + 1, outcome |-> "none", fresh |-> FALSE]]
    BY DEF HasBudget, ClaimRow
  <1> HIDE DEF log, n
  <1>3. /\ Append(log, "claimed") \in Seq(AttemptOutcome)
        /\ Len(Append(log, "claimed")) = n + 1
        /\ \A i \in 1..n : Append(log, "claimed")[i] = log[i]
        /\ Append(log, "claimed")[n + 1] = "claimed"
        /\ DOMAIN Append(log, "claimed") = 1..(n + 1)
    <2>1. "claimed" \in AttemptOutcome
      BY DEF AttemptOutcome
    <2>2. QED BY <1>1, <2>1, AppendProperties, LenProperties
  <1>4. StoreTypeOK'
    <2>1. delivery' \in [Command -> Seq(AttemptOutcome)]
      BY <1>2, <1>3
    <2>2. outbox' \in [Command -> OutboxRow]
      <3> DEFINE row == [outbox[c] EXCEPT !.status = "leased", !.token = n + 1,
                           !.attempts = outbox[c].attempts + 1, !.lease = TRUE]
      <3>1. outbox[c] \in OutboxRow
        OBVIOUS
      <3>2. outbox[c].attempts + 1 \in 0..MaxAttempts /\ n + 1 \in Nat
        BY <1>1, <1>2, <3>1 DEF OutboxRow
      <3>3. row \in OutboxRow
        BY <3>1, <3>2 DEF OutboxRow, Status
      <3>4. QED BY <1>2, <3>3
    <2>3. QED BY <2>1, <2>2 DEF HasBudget, ClaimRow
  <1>5. task' \in [Task -> {Idle} \cup Claim]
    BY <1>1, <1>2 DEF Claim, OutboxRow
  <1>6. OpenAttempt(c)'
    <2>1. /\ outbox'[c].token = n + 1 /\ outbox'[c].status = "leased"
          /\ delivery'[c] = Append(log, "claimed")
      BY <1>2 DEF OutboxRow
    <2>2. \A i \in 1..n : log[i] # "claimed"
      BY <1>1 DEF OpenAttemptIsCurrent, OpenAttempt
    <2>3. ASSUME NEW i \in 1..(n + 1), Append(log, "claimed")[i] = "claimed"
          PROVE  i = n + 1
      BY <1>1, <1>3, <2>2, <2>3
    <2>4. n + 1 # 0
      BY <1>1
    <2> HIDE DEF Core, TypeOK
    <2>5. QED BY <1>3, <2>1, <2>3, <2>4 DEF OpenAttempt
  <1>7. ASSUME NEW d \in Command, d # c PROVE OpenAttempt(d)'
    <2>1. outbox'[d] = outbox[d] /\ delivery'[d] = delivery[d]
      BY <1>2, <1>7
    <2>2. QED BY <2>1 DEF OpenAttempt, OpenAttemptIsCurrent
  <1>8. QED BY <1>4, <1>5, <1>6, <1>7 DEF HasBudget, ClaimRow, OpenAttemptIsCurrent

\* So does a claim that finds the budget spent.
LEMMA ClaimExhaustedCore ==
  ASSUME Core, NEW t \in Task, NEW c \in Command, ClaimExhausted(t, c),
         UNCHANGED <<rec, incidents, evidence>>
  PROVE  Core'
  <1> USE DEF Core, TypeOK, StoreTypeOK, DispatchTypeOK, ServiceTypeOK, ReconcileTypeOK
  <1> DEFINE n == Len(delivery[c])
             row == [outbox[c] EXCEPT !.status = "exhausted", !.token = 0, !.lease = FALSE]
  <1>1. /\ Abandoned(c) \in Seq(AttemptOutcome) /\ Len(Abandoned(c)) = n
        /\ n \in Nat /\ DOMAIN delivery[c] = 1..n /\ DOMAIN Abandoned(c) = 1..n
        /\ \A i \in 1..n :
             Abandoned(c)[i] = IF i = outbox[c].token /\ delivery[c][i] = "claimed"
                                 THEN "lease_expired" ELSE delivery[c][i]
    BY AbandonedLog, LenProperties
  <1>2. /\ delivery' = [delivery EXCEPT ![c] = Abandoned(c)]
        /\ outbox' = [outbox EXCEPT ![c] = row]
        /\ command' = [command EXCEPT ![c] = Decided(command[c], "unknown")]
    BY DEF HasBudget, ClaimExhausted
  <1>3. row \in OutboxRow /\ row.token = 0 /\ row.status = "exhausted"
    BY DEF OutboxRow, Status
  <1>4. Decided(command[c], "unknown") \in CommandRow
    BY DEF Decided, CommandRow, State
  <1> HIDE DEF row, n
  <1>5. StoreTypeOK'
    BY <1>1, <1>2, <1>3, <1>4 DEF HasBudget, ClaimExhausted
  <1>6. OpenAttempt(c)'
    <2>1. outbox'[c] = row /\ delivery'[c] = Abandoned(c)
      BY <1>2
    <2>2. \A i \in 1..n : Abandoned(c)[i] # "claimed"
      BY <1>1 DEF OpenAttemptIsCurrent, OpenAttempt
    <2> HIDE DEF Core, TypeOK
    <2>3. QED BY <1>1, <1>3, <2>1, <2>2 DEF OpenAttempt
  <1>7. ASSUME NEW d \in Command, d # c PROVE OpenAttempt(d)'
    <2>1. outbox'[d] = outbox[d] /\ delivery'[d] = delivery[d]
      BY <1>2, <1>7
    <2>2. QED BY <2>1 DEF OpenAttempt, OpenAttemptIsCurrent
  <1>8. QED BY <1>5, <1>6, <1>7 DEF HasBudget, ClaimExhausted, OpenAttemptIsCurrent

\* finish writes only the newest attempt of a row, through its token, and
\* takes the token from the row.
LEMMA FinishEffectCore ==
  ASSUME TypeOK, OpenAttemptIsCurrent, NEW item \in Claim,
         item.phase = "finishing", FinishEffect(item)
  PROVE  StoreTypeOK' /\ OpenAttemptIsCurrent'
  <1> USE DEF TypeOK, StoreTypeOK
  <1>1. CASE UNCHANGED storeVars
    BY <1>1 DEF storeVars, OpenAttemptIsCurrent, OpenAttempt
  <1>2. CASE HoldsLease(item) /\ Record(item)
    <2> DEFINE c == item.cmd
               n == Len(delivery[c])
               row == [outbox[c] EXCEPT !.status = FinishStatus(item), !.token = 0,
                                        !.lease = FALSE, !.due = FALSE]
               log == [delivery[c] EXCEPT ![item.token] = item.outcome]
    <2>1. c \in Command
      BY DEF Claim
    <2>2. /\ n \in Nat /\ DOMAIN delivery[c] = 1..n
          /\ delivery[c] \in Seq(AttemptOutcome)
      BY <2>1, LenProperties
    <2>3. item.token = n /\ item.token \in 1..n
      BY <1>2, <2>1, <2>2 DEF HoldsLease, OpenAttemptIsCurrent, OpenAttempt, Claim
    <2>4. item.outcome \in Outcome /\ item.outcome \in AttemptOutcome
          /\ item.outcome # "claimed"
      BY DEF Claim, Outcome, AttemptOutcome
    <2>5. /\ outbox' = [outbox EXCEPT ![c] = row]
          /\ delivery' = [delivery EXCEPT ![c] = log]
          /\ command' = [command EXCEPT ![c] = Concluded(command[c], item)]
          /\ UNCHANGED <<replays, locked, ttl, sent>>
      BY <1>2 DEF Record
    <2>6. FinishStatus(item) \in Status \ {"leased"}
      BY <2>4 DEF FinishStatus, Outcome, Status
    <2>7. row \in OutboxRow /\ row.token = 0 /\ row.status # "leased"
      BY <2>1, <2>6 DEF OutboxRow
    <2>8. Concluded(command[c], item) \in CommandRow
      BY <2>1 DEF Concluded, Decided, CommandRow, State
    <2>9. /\ log \in Seq(AttemptOutcome) /\ DOMAIN log = 1..n
          /\ \A i \in 1..n : log[i] = IF i = item.token THEN item.outcome ELSE delivery[c][i]
      <3> HIDE DEF TypeOK, StoreTypeOK, n
      <3>1. item.token \in 1..Len(delivery[c])
        BY <2>3 DEF n
      <3>2. /\ log \in Seq(AttemptOutcome)
            /\ Len(log) = Len(delivery[c])
            /\ \A i \in 1..Len(delivery[c]) :
                 log[i] = IF i = item.token THEN item.outcome ELSE delivery[c][i]
        BY <2>2, <2>4, <3>1, ExceptSeq
      <3> HIDE DEF log
      <3>3. DOMAIN log = 1..n
        BY <2>2, <3>2, LenProperties DEF n
      <3>4. QED BY <3>2, <3>3 DEF n
    <2> HIDE DEF row, log, n, c
    <2>10. StoreTypeOK'
      BY <2>1, <2>5, <2>7, <2>8, <2>9
    <2>11. OpenAttempt(c)'
      <3>1. outbox'[c] = row /\ delivery'[c] = log
        BY <2>1, <2>5
      <3>2. \A i \in 1..n : log[i] # "claimed"
        BY <2>1, <2>2, <2>3, <2>4, <2>9, <1>2
           DEF OpenAttemptIsCurrent, OpenAttempt, HoldsLease, c
      <3>3. QED BY <2>7, <2>9, <3>1, <3>2 DEF OpenAttempt
    <2>12. ASSUME NEW d \in Command, d # c PROVE OpenAttempt(d)'
      <3>1. outbox'[d] = outbox[d] /\ delivery'[d] = delivery[d]
        BY <2>5, <2>12
      <3>2. QED BY <3>1 DEF OpenAttempt, OpenAttemptIsCurrent
    <2>13. QED BY <2>10, <2>11, <2>12 DEF OpenAttemptIsCurrent
  <1>3. QED BY <1>1, <1>2 DEF FinishEffect

\* The steps of a dispatch call that leave the rows alone keep the type of the
\* call.
LEMMA WorkCore ==
  ASSUME Core, NEW t \in Task, Work(t), UNCHANGED <<rec, incidents, evidence>>
  PROVE  Core'
  <1> USE DEF Core, TypeOK, DispatchTypeOK
  <1>1. task[t] # Idle => task[t] \in Claim
    OBVIOUS
  <1>2. ASSUME NEW item \in Claim, task' = [task EXCEPT ![t] = item],
               StoreTypeOK', OpenAttemptIsCurrent'
        PROVE  Core'
    BY <1>2 DEF ServiceTypeOK, ReconcileTypeOK
  <1>3. ASSUME UNCHANGED storeVars PROVE StoreTypeOK' /\ OpenAttemptIsCurrent'
    BY <1>3 DEF storeVars, StoreTypeOK, OpenAttemptIsCurrent, OpenAttempt
  <1>4. ASSUME NEW outcome \in Outcome, task[t].phase \in {"claimed", "sending"},
               Decide(t, outcome), UNCHANGED storeVars
        PROVE  Core'
    <2>1. [task[t] EXCEPT !.phase = "decided", !.outcome = outcome] \in Claim
      <3>1. task[t] \in Claim
        BY <1>1, <1>4 DEF Idle
      <3>2. QED BY <3>1, <1>4 DEF Claim, Outcome
    <2>2. QED BY <1>2, <1>3, <1>4, <2>1 DEF Decide
  <1>5. CASE RejectPayload(t)
    BY <1>4, <1>5 DEF RejectPayload, Outcome
  <1>6. CASE FindExpired(t)
    BY <1>4, <1>6 DEF FindExpired, Outcome
  <1>7. CASE BrokerUnavailable(t)
    BY <1>4, <1>7 DEF BrokerUnavailable, Outcome
  <1>8. CASE PublishEnds(t)
    BY <1>4, <1>8 DEF PublishEnds, Outcome
  <1>9. CASE Publish(t)
    <2>1. [task[t] EXCEPT !.phase = "sending"] \in Claim
      BY <1>1, <1>9 DEF Publish, Idle, Claim, Outcome
    <2>2. StoreTypeOK' /\ OpenAttemptIsCurrent'
      BY <1>9 DEF Publish, StoreTypeOK, OpenAttemptIsCurrent, OpenAttempt
    <2>3. QED BY <1>2, <1>9, <2>1, <2>2 DEF Publish
  <1>10. CASE BeginFinish(t)
    <2>1. task[t] \in Claim /\ task[t].cmd \in Command
      BY <1>1, <1>10 DEF BeginFinish, Idle, Claim
    <2>2. outbox[task[t].cmd].lease \in BOOLEAN
      BY <2>1 DEF StoreTypeOK, OutboxRow
    <2>3. [task[t] EXCEPT !.phase = "finishing",
                          !.fresh = outbox[task[t].cmd].lease] \in Claim
      BY <1>10, <2>1, <2>2 DEF BeginFinish, Claim, Outcome
    <2>4. QED BY <1>2, <1>3, <1>10, <2>3 DEF BeginFinish
  <1>11. CASE Finish(t)
    <2>1. task[t] \in Claim
      BY <1>1, <1>11 DEF Finish, Idle
    <2>2. StoreTypeOK' /\ OpenAttemptIsCurrent'
      BY <1>11, <2>1, FinishEffectCore DEF Finish
    <2>3. QED BY <1>11, <2>2 DEF Finish, ServiceTypeOK, ReconcileTypeOK
  <1>12. QED
    BY <1>5, <1>6, <1>7, <1>8, <1>9, <1>10, <1>11 DEF Work

\* So do the ends of a call that throws or stops.
LEMMA CallEndsCore ==
  ASSUME Core, NEW t \in Task, FinishThrows(t) \/ Abandon(t),
         UNCHANGED <<rec, incidents, evidence>>
  PROVE  Core'
  <1> USE DEF Core, TypeOK, DispatchTypeOK
  <1>1. ASSUME UNCHANGED storeVars PROVE StoreTypeOK' /\ OpenAttemptIsCurrent'
    BY <1>1 DEF storeVars, StoreTypeOK, OpenAttemptIsCurrent, OpenAttempt
  <1>2. CASE Abandon(t)
    BY <1>1, <1>2 DEF Abandon, ServiceTypeOK, ReconcileTypeOK
  <1>3. CASE FinishThrows(t)
    <2>1. task[t] \in Claim
      BY <1>3 DEF FinishThrows, Idle
    <2>2. StoreTypeOK' /\ OpenAttemptIsCurrent'
      BY <1>1, <1>3, <2>1, FinishEffectCore DEF FinishThrows
    <2>3. [task[t] EXCEPT !.phase = "decided", !.outcome = "retry"] \in Claim
      BY <2>1 DEF Claim, Outcome
    <2>4. DispatchTypeOK'
      BY <1>3, <2>3 DEF FinishThrows, Decide
    <2>5. QED BY <2>2, <2>4 DEF ServiceTypeOK, ReconcileTypeOK
  <1>4. QED BY <1>2, <1>3

\* No transaction of the API leaves an attempt open without a row that points
\* at it: the rows replay resets carry no token.
LEMMA ServiceCore ==
  ASSUME Core, ServiceNext, UNCHANGED <<task, rec, incidents>>
  PROVE  Core'
  <1> USE DEF Core, TypeOK, StoreTypeOK, DispatchTypeOK, ServiceTypeOK, ReconcileTypeOK
  <1>1. ASSUME NEW c \in Command, AcceptPayment(c) PROVE Core'
    <2> DEFINE row == [outbox[c] EXCEPT !.status = "pending", !.due = TRUE]
    <2>1. /\ outbox' = [outbox EXCEPT ![c] = row]
          /\ command' = [command EXCEPT ![c].state = "pending"]
          /\ UNCHANGED <<delivery, replays, locked, ttl, sent, evidence>>
      BY <1>1 DEF AcceptPayment
    <2>2. row \in OutboxRow /\ row.token = outbox[c].token /\ row.status = "pending"
      BY DEF OutboxRow, Status
    <2> HIDE DEF row
    <2>3. command' \in [Command -> CommandRow]
      BY <2>1 DEF CommandRow, State
    <2>4. OpenAttemptIsCurrent'
      BY <2>1, <2>2 DEF OpenAttemptIsCurrent, OpenAttempt
    <2>5. QED BY <2>1, <2>2, <2>3, <2>4
  <1>2. ASSUME NEW c \in Command, Replay(c) PROVE Core'
    <2> DEFINE row == [outbox[c] EXCEPT !.status = "pending", !.attempts = 0,
                         !.due = TRUE, !.token = 0, !.lease = FALSE]
    <2>1. /\ outbox' = [outbox EXCEPT ![c] = row]
          /\ replays[c] < MaxReplays
          /\ replays' = [replays EXCEPT ![c] = replays[c] + 1]
          /\ outbox[c].status \in {"exhausted", "permanent", "published"}
          /\ UNCHANGED <<command, delivery, locked, ttl, sent, evidence>>
      BY <1>2 DEF Replay
    <2>2. row \in OutboxRow /\ row.token = 0 /\ row.status = "pending"
      <3>1. outbox[c] \in OutboxRow /\ 0 \in 0..MaxAttempts
        OBVIOUS
      <3> HIDE DEF Core, TypeOK
      <3>2. QED BY <3>1 DEF OutboxRow, Status
    <2>3. outbox[c].token = 0
      BY <2>1 DEF OpenAttemptIsCurrent, OpenAttempt
    <2>4. replays' \in [Command -> 0..MaxReplays]
      BY <2>1
    <2> HIDE DEF row
    <2>5. OpenAttemptIsCurrent'
      BY <2>1, <2>2, <2>3 DEF OpenAttemptIsCurrent, OpenAttempt
    <2>6. QED BY <2>1, <2>2, <2>4, <2>5
  <1>3. ASSUME NEW m \in Message, NEW c \in Command, NEW result \in Result,
               ReceiveEvidence(m, c, result)
        PROVE  Core'
    <2>1. [cmd |-> c, result |-> result, conflicting |-> Conflicts(c, result)] \in Receipt
      BY DEF Receipt, Conflicts
    <2>2. Evidenced(command[c], result) \in CommandRow
      BY DEF Evidenced, CommandRow, State
    <2>3. OpenAttemptIsCurrent'
      BY <1>3 DEF ReceiveEvidence, OpenAttemptIsCurrent, OpenAttempt
    <2>4. QED BY <1>3, <2>1, <2>2, <2>3 DEF ReceiveEvidence
  <1>4. QED BY <1>1, <1>2, <1>3 DEF ServiceNext

\* What a limited query returns are rows it could have returned.
LEMMA LimitedIsSubset ==
  ASSUME NEW S, NEW T \in Limited(S)
  PROVE  T \subseteq S
  BY DEF Limited, kSubset

\* A pass of the reconciler keeps every token with its open attempt: the row
\* it takes from under a worker becomes pending with the token it had.
LEMMA ReconcileCore ==
  ASSUME Core, ReconcileNext, UNCHANGED task
  PROVE  Core'
  <1> USE DEF Core, TypeOK, StoreTypeOK, DispatchTypeOK, ServiceTypeOK, ReconcileTypeOK
  <1>1. ASSUME UNCHANGED storeVars
        PROVE  StoreTypeOK' /\ OpenAttemptIsCurrent'
    BY <1>1 DEF storeVars, OpenAttemptIsCurrent, OpenAttempt
  <1>2. CASE RecBegin
    <2>1. PICK victims \in Limited(Overdue) :
            rec' = [NoPass EXCEPT !.phase = "begun", !.victims = victims,
                      !.live = {c \in Command : Accepted(c) /\ ttl[c] # "over"}]
      BY <1>2 DEF RecBegin
    <2>2. victims \subseteq Command
      BY LimitedIsSubset DEF Overdue
    <2>3. rec' \in Pass
      BY <2>1, <2>2 DEF Pass, NoPass
    <2>4. QED BY <1>1, <1>2, <2>3 DEF RecBegin
  <1>3. CASE RecExpire
    <2>1. rec' \in Pass /\ locked' \subseteq Command
      BY <1>3 DEF RecExpire, Pass
    <2>2. OpenAttemptIsCurrent'
      BY <1>3 DEF RecExpire, OpenAttemptIsCurrent, OpenAttempt
    <2>3. QED BY <1>3, <2>1, <2>2 DEF RecExpire
  <1>4. CASE RecScan
    <2>0. PICK old \in SUBSET Command : \E found \in Limited(Problems(old)) :
            rec' = [rec EXCEPT !.phase = "scanned",
                               !.found = {p \in found : p[2] \in Watched}]
      BY <1>4 DEF RecScan
    <2>1. PICK found \in Limited(Problems(old)) :
            rec' = [rec EXCEPT !.phase = "scanned",
                               !.found = {p \in found : p[2] \in Watched}]
      BY <2>0
    <2>2. Problems(old) \subseteq Command \X Kind
      BY DEF Problems, DispatchProblems, DispatchKind, Kind
    <2>3. found \subseteq Command \X Kind
      BY <2>2, LimitedIsSubset
    <2>4. rec' \in Pass
      BY <2>1, <2>3 DEF Pass
    <2>5. QED BY <1>1, <1>4, <2>4 DEF RecScan
  <1>5. CASE RecChoose
    <2>1. PICK stale \in Limited(Silent) :
            rec' = [rec EXCEPT !.phase = "choosing", !.stale = stale]
      BY <1>5 DEF RecChoose
    <2>2. stale \subseteq Command
      BY LimitedIsSubset DEF Silent, Pass
    <2>3. rec' \in Pass
      BY <2>1, <2>2 DEF Pass
    <2>4. QED BY <1>1, <1>5, <2>3 DEF RecChoose
  <1>6. CASE RecCommit
    <2>1. \A c \in Command :
            outbox'[c] = IF c \in rec.stale
                           THEN [outbox[c] EXCEPT !.status = "pending", !.due = TRUE]
                           ELSE outbox[c]
      BY <1>6 DEF Redelivered, RecCommit
    <2>2. outbox' \in [Command -> OutboxRow]
      BY <1>6 DEF Redelivered, RecCommit, OutboxRow, Status
    <2>3. command' \in [Command -> CommandRow]
      BY <1>6 DEF Redelivered, RecCommit, CommandRow, State
    <2>4. ASSUME NEW c \in Command PROVE OpenAttempt(c)'
      <3>1. /\ outbox'[c].token = outbox[c].token
            /\ outbox'[c].status \in {"pending", outbox[c].status}
        BY <2>1 DEF OutboxRow
      <3>2. delivery'[c] = delivery[c]
        BY <1>6 DEF Redelivered, RecCommit
      <3>3. QED BY <3>1, <3>2 DEF OpenAttemptIsCurrent, OpenAttempt
    <2>5. rec' \in Pass /\ incidents' \subseteq Command \X Kind
      BY <1>6 DEF Redelivered, RecCommit, Pass, NoPass
    <2>6. QED BY <1>6, <2>2, <2>3, <2>4, <2>5 DEF Redelivered, RecCommit, OpenAttemptIsCurrent
  <1>7. CASE RecRollback
    <2>1. rec' \in Pass
      BY <1>7 DEF RecRollback, Pass, NoPass
    <2>2. OpenAttemptIsCurrent'
      BY <1>7 DEF RecRollback, OpenAttemptIsCurrent, OpenAttempt
    <2>3. QED BY <1>7, <2>1, <2>2 DEF RecRollback
  <1>8. QED
    BY <1>2, <1>3, <1>4, <1>5, <1>6, <1>7 DEF ReconcileNext

\* Time changes no token, no attempt and no state.
LEMMA TimeCore ==
  ASSUME Core, NEW c \in Command, TimeStep(c)
  PROVE  Core'
  <1> USE DEF Core, TypeOK, StoreTypeOK, DispatchTypeOK, ServiceTypeOK, ReconcileTypeOK
  <1>1. ASSUME outbox' = [outbox EXCEPT ![c].lease = FALSE]
               \/ outbox' = [outbox EXCEPT ![c].due = TRUE],
               UNCHANGED <<command, delivery, replays, locked, ttl, sent>>
        PROVE  StoreTypeOK' /\ OpenAttemptIsCurrent'
    <2> DEFINE row == outbox'[c]
    <2>1. /\ row \in OutboxRow
          /\ row.token = outbox[c].token /\ row.status = outbox[c].status
      <3>1. CASE outbox' = [outbox EXCEPT ![c].lease = FALSE]
        <4>1. row = [outbox[c] EXCEPT !.lease = FALSE]
          BY <3>1
        <4>2. QED BY <4>1 DEF OutboxRow
      <3>2. CASE outbox' = [outbox EXCEPT ![c].due = TRUE]
        <4>1. row = [outbox[c] EXCEPT !.due = TRUE]
          BY <3>2
        <4>2. QED BY <4>1 DEF OutboxRow
      <3>3. QED BY <1>1, <3>1, <3>2
    <2>2. outbox' = [outbox EXCEPT ![c] = row]
      BY <1>1
    <2> HIDE DEF row
    <2>3. outbox' \in [Command -> OutboxRow]
      BY <2>1, <2>2
    <2>4. \A d \in Command : /\ outbox'[d].token = outbox[d].token
                             /\ outbox'[d].status = outbox[d].status
      BY <2>1, <2>2
    <2>5. QED BY <1>1, <2>3, <2>4 DEF OpenAttemptIsCurrent, OpenAttempt
  <1>2. CASE Ages(c)
    <2>1. ttl' \in [Command -> Stage]
      BY <1>2 DEF Ages, Stage
    <2>2. QED BY <1>2, <2>1 DEF Ages, TimeStep, OpenAttemptIsCurrent, OpenAttempt
  <1>3. QED BY <1>1, <1>2 DEF TimeStep, Time, LeaseLapses, ComesDue

\* An empty database satisfies Core.
LEMMA CoreInit ==
  ASSUME Init
  PROVE  Core
  <1>1. TypeOK
    BY DEF Init, StoreInit, DispatchInit, ServiceInit, ReconcileInit, TypeOK,
           StoreTypeOK, DispatchTypeOK, ServiceTypeOK, ReconcileTypeOK,
           NoCommand, NoOutbox, CommandRow, OutboxRow, State, Status, Stage,
           Pass, NoPass
  <1>2. OpenAttemptIsCurrent
    BY DEF Init, StoreInit, NoOutbox, OpenAttemptIsCurrent, OpenAttempt
  <1>3. QED BY <1>1, <1>2 DEF Core

\* Every step of the system keeps Core.
LEMMA CoreStep ==
  ASSUME Core, [Next]_vars
  PROVE  Core'
  <1>1. ASSUME NEW t \in Task, DispatchStep(t) PROVE Core'
    BY <1>1, ClaimRowCore, ClaimExhaustedCore, WorkCore, CallEndsCore
       DEF DispatchStep, DispatchNext
  <1>2. CASE ReconcileStep
    BY <1>2, ReconcileCore DEF ReconcileStep
  <1>3. CASE ServiceStep
    BY <1>3, ServiceCore DEF ServiceStep
  <1>4. ASSUME NEW c \in Command, TimeStep(c) PROVE Core'
    BY <1>4, TimeCore
  <1>5. CASE UNCHANGED vars
    BY <1>5 DEF vars, Core, TypeOK, StoreTypeOK, DispatchTypeOK, ServiceTypeOK,
                ReconcileTypeOK, OpenAttemptIsCurrent, OpenAttempt
  <1>6. QED BY <1>1, <1>2, <1>3, <1>4, <1>5 DEF Next

\* Every variable keeps its type, and every open attempt is the one its row
\* points at.
THEOREM CoreInvariant == Spec => []Core
  <1>1. Init => Core
    BY CoreInit
  <1>2. Core /\ [Next]_vars => Core'
    BY CoreStep
  <1>3. QED BY <1>1, <1>2, PTL DEF Spec

\* Every variable has its type in every reachable state.
THEOREM TypeCorrect == Spec => []TypeOK
  BY CoreInvariant, PTL DEF Core

\* No claim, finish, redelivery or replay strands an attempt as 'claimed'.
THEOREM NoAttemptIsStranded == Spec => []OpenAttemptIsCurrent
  BY CoreInvariant, PTL DEF Core

=============================================================================
