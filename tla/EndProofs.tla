----------------------------- MODULE EndProofs -----------------------------
(***************************************************************************)
(* Theorems about EndToEnd.  It implements Delivery, so everything proved  *)
(* of Delivery holds of it; together with what the inbox and the loop of   *)
(* the simulator keep, that ties the records of the API to what the device *)
(* has done.                                                               *)
(***************************************************************************)
EXTENDS EndToEnd, VerdictProofs, FiniteSetTheorems

USE EndToEndAssumption DEF EndToEndAssumption

----------------------------------------------------------------------------

\* The simulator is one of the environments Delivery allows for.
THEOREM ImplementsDelivery == EndSpec => Spec
  <1>1. EndInit => Init
    BY DEF EndInit
  <1>2. [EndNext]_endVars => [Next]_vars
    <2> SUFFICES ASSUME [EndNext]_endVars PROVE [Next]_vars
      OBVIOUS
    <2>1. CASE UNCHANGED endVars
      BY <2>1 DEF endVars
    <2>2. CASE \/ \E t \in Task : DispatchStep(t)
               \/ ReconcileStep
               \/ \E c \in Command : TimeStep(c)
      BY <2>2 DEF Next
    <2>3. CASE Loop \/ \E c \in Command : Arrive(c)
      BY <2>3 DEF Loop, Arrive
    <2>4. ASSUME NEW c \in Command, Operate(c) \/ ReceiptArrives(c) PROVE [Next]_vars
      BY <2>4 DEF Operate, ReceiptArrives, Next, ServiceStep, ServiceNext
    <2>5. QED BY <2>1, <2>2, <2>3, <2>4 DEF EndNext
  <1>3. QED BY <1>1, <1>2, PTL DEF EndSpec, Spec

----------------------------------------------------------------------------
(* The inductive invariant *)

\* The commands the device has in its inbox.
Heard == {c \in Command : Device!Known(c)}

\* The inbox records an effect with every result that claims one.
InboxOK ==
  /\ IsFiniteSet(Heard)
  /\ inbox \in [Command -> Device!Row \cup {Device!NoRow}]
  /\ \A c \in Command :
       Device!Known(c) => inbox[c].effects = IF inbox[c].result = "expired" THEN 0 ELSE 1

\* The API holds the receipt of the inbox, and it has decided the command.
ReceiptsMatch ==
  \A c \in Command : evidence[c] # NoReceipt =>
    /\ evidence[c].cmd = c /\ evidence[c].result = inbox[c].result
    /\ Accepted(c) /\ command[c].state \notin Undecided

\* The loop acknowledges what the API has committed.
AcksAreEarned ==
  /\ \A c \in Command : inbox[c].acked => c \in Committed
  /\ \A c \in Command :
       poster.phase = "answered" /\ poster.receipt = c => c \in Committed

\* A receipt is marked only if it claims an effect.
MarksAreEarned ==
  \A c \in Command : evidence[c].conflicting => evidence[c].result # "expired"

EndInv == InboxOK /\ ReceiptsMatch /\ AcksAreEarned /\ MarksAreEarned

\* The rows of the inbox, of a known command and of an unknown one.
LEMMA InboxRow ==
  ASSUME InboxOK, NEW c \in Command
  PROVE  /\ ~Device!Known(c) => inbox[c].result \notin Result /\ ~inbox[c].acked
         /\ Device!Known(c) => inbox[c] \in Device!Row
  BY DEF InboxOK, Device!Known, Device!NoRow, Device!Row, Device!Answer, Result

\* A stored receipt carries a result.
LEMMA StoredReceipt ==
  ASSUME Inv, NEW c \in Command, evidence[c] # NoReceipt
  PROVE  evidence[c].result \in Result
  BY DEF Inv, Core, TypeOK, ServiceTypeOK, Receipt

\* A recorded completion was played.
LEMMA CompletionWasPlayed ==
  ASSUME Inv, InboxOK, ReceiptsMatch, NEW c \in Command, command[c].done
  PROVE  inbox[c].effects = 1 /\ evidence[c].result = "completed"
  <1>1. PICK m \in Command : evidence[m].cmd = c /\ evidence[m].result = "completed"
    BY DEF Inv, Verdicts, CompletionIsProved, Received
  <1>2. evidence[m] # NoReceipt
    BY <1>1 DEF NoReceipt
  <1>3. m = c /\ inbox[c].result = "completed"
    BY <1>1, <1>2 DEF ReceiptsMatch
  <1>4. inbox[c] \in Device!Row
    BY <1>3, InboxRow DEF Result
  <1>5. QED BY <1>1, <1>3, <1>4, InboxRow DEF InboxOK, Device!Known, Device!NoRow

LEMMA EndInvInit == EndInit => EndInv
  <1> SUFFICES ASSUME EndInit PROVE EndInv
    OBVIOUS
  <1>1. /\ inbox = [c \in Command |-> Device!NoRow]
        /\ poster.phase = "collecting"
        /\ evidence = [c \in Command |-> NoReceipt]
    BY DEF EndInit, Device!DeviceInit, Device!AtRest, Init, ServiceInit
  <1>2. InboxOK
    <2>1. Heard = {}
      BY <1>1 DEF Heard, Device!Known
    <2>2. QED BY <1>1, <2>1, FS_EmptySet DEF InboxOK, Device!Known
  <1>3. ReceiptsMatch /\ MarksAreEarned
    BY <1>1 DEF ReceiptsMatch, MarksAreEarned, NoReceipt
  <1>4. AcksAreEarned
    BY <1>1 DEF AcksAreEarned, Device!NoRow
  <1>5. QED BY <1>2, <1>3, <1>4 DEF EndInv

\* A step of the worker, the reconciler, an operator or time records no
\* receipt, and takes no command back to pending or published.
LEMMA OtherSteps ==
  ASSUME Inv, EndInv, [Next]_vars, ~IsReceipt, UNCHANGED deviceVars
  PROVE  EndInv'
  <1>1. /\ UNCHANGED <<inbox, poster, posted>> /\ evidence' = evidence
        /\ \A c \in Command : Moves(c)
    BY StepMoves DEF deviceVars, IsReceipt
  <1>2. InboxOK' /\ AcksAreEarned' /\ MarksAreEarned'
    <2>1. Heard' = Heard
      BY <1>1 DEF Heard, Device!Known
    <2>2. QED
      BY <1>1, <2>1
         DEF EndInv, InboxOK, AcksAreEarned, MarksAreEarned, Committed, Device!Known
  <1>3. ASSUME NEW c \in Command, Accepted(c), command[c].state \notin Undecided
        PROVE  Accepted(c)' /\ command'[c].state \notin Undecided
    <2>1. command[c] \in CommandRow
      BY DEF Inv, Core, TypeOK, StoreTypeOK
    <2>2. QED BY <1>1, <1>3, <2>1 DEF Moves, Accepted, Undecided, CommandRow
  <1>4. ReceiptsMatch'
    BY <1>1, <1>3 DEF EndInv, ReceiptsMatch
  <1>5. QED BY <1>2, <1>4 DEF EndInv

\* The device has one receipt for a command, so it never contradicts itself.
LEMMA ReceiptArrivesStep ==
  ASSUME Inv, EndInv, NEW c \in Command, ReceiptArrives(c)
  PROVE  EndInv'
  <1>1. PICK result \in Result : inbox[c].result = result /\ ReceiveEvidence(c, c, result)
    BY DEF ReceiptArrives
  <1>2. UNCHANGED <<inbox, poster, posted>>
    BY DEF ReceiptArrives, deviceVars
  <1>3. /\ evidence[c] = NoReceipt
        /\ evidence' = [evidence EXCEPT ![c] =
             [cmd |-> c, result |-> result, conflicting |-> Conflicts(c, result)]]
        /\ command' = [command EXCEPT ![c] = Evidenced(command[c], result)]
        /\ Accepted(c)
    BY <1>1 DEF ReceiveEvidence
  <1>4. /\ evidence'[c] =
             [cmd |-> c, result |-> result, conflicting |-> Conflicts(c, result)]
        /\ \A d \in Command : d # c => evidence'[d] = evidence[d]
    BY <1>3 DEF Inv, Core, TypeOK, ServiceTypeOK
  <1>5. /\ command'[c] = Evidenced(command[c], result)
        /\ \A d \in Command : d # c => command'[d] = command[d]
        /\ command[c] \in CommandRow
    BY <1>3 DEF Inv, Core, TypeOK, StoreTypeOK
  <1>6. InboxOK'
    <2>1. Heard' = Heard
      BY <1>2 DEF Heard, Device!Known
    <2>2. QED BY <1>2, <2>1 DEF EndInv, InboxOK, Device!Known
  <1>7. AcksAreEarned'
    <2>1. evidence'[c] # NoReceipt
      BY <1>4 DEF NoReceipt, Result
    <2>2. \A d \in Command : d \in Committed => d \in Committed'
      BY <1>3, <1>4, <2>1 DEF Committed
    <2>3. QED BY <1>2, <2>2 DEF EndInv, AcksAreEarned
  <1>8. ReceiptsMatch'
    <2>1. Accepted(c)' /\ command'[c].state \notin Undecided
      <3>1. CASE command[c].state = "completed"
        BY <1>5, <3>1 DEF Evidenced, Accepted, Undecided, CommandRow
      <3>2. CASE command[c].state # "completed"
        BY <1>5, <3>2 DEF Evidenced, Accepted, Undecided, Result, CommandRow
      <3>3. QED BY <3>1, <3>2
    <2>2. ASSUME NEW d \in Command, d # c, evidence'[d] # NoReceipt
          PROVE  /\ evidence'[d].cmd = d /\ evidence'[d].result = inbox'[d].result
                 /\ Accepted(d)' /\ command'[d].state \notin Undecided
      BY <1>2, <1>4, <1>5, <2>2 DEF EndInv, ReceiptsMatch, Accepted
    <2>3. evidence'[c].cmd = c /\ evidence'[c].result = inbox'[c].result
      BY <1>1, <1>2, <1>4
    <2>4. QED BY <2>1, <2>2, <2>3 DEF ReceiptsMatch
  <1>9. MarksAreEarned'
    <2>1. ASSUME result = "expired" PROVE ~Conflicts(c, result)
      <3>1. ~command[c].done
        BY <1>3, CompletionWasPlayed DEF EndInv, NoReceipt
      <3>2. command[c].state # "completed"
        BY <3>1 DEF Inv, Verdicts, CompletionIsProved
      <3>3. QED BY <2>1, <3>2 DEF Conflicts
    <2>2. QED BY <1>4, <2>1 DEF EndInv, MarksAreEarned
  <1>10. QED BY <1>6, <1>7, <1>8, <1>9 DEF EndInv

\* A delivery adds a row, or reopens one and leaves what it says.
LEMMA ArriveStep ==
  ASSUME Inv, EndInv, NEW c \in Command, Arrive(c)
  PROVE  EndInv'
  <1>1. UNCHANGED vars /\ UNCHANGED <<command, evidence>> /\ UNCHANGED <<poster, posted>>
    BY DEF Arrive, vars, Device!Process
  <1>2. Committed' = Committed
    BY <1>1 DEF Committed
  <1>3. /\ \A d \in Command : d # c => inbox'[d] = inbox[d]
        /\ \/ ~Device!Known(c) /\ \E r \in Device!Answer : inbox'[c] = Device!NewRow(r)
           \/ Device!Known(c) /\ inbox'[c] = Device!Reopened(inbox[c])
        /\ DOMAIN inbox' = Command
        /\ inbox' = [d \in Command |-> inbox'[d]]
    BY DEF Arrive, Device!Process, EndInv, InboxOK
  <1>4. /\ inbox'[c] \in Device!Row
        /\ ~inbox'[c].acked
        /\ inbox'[c].effects = (IF inbox'[c].result = "expired" THEN 0 ELSE 1)
        /\ Device!Known(c) => inbox'[c].result = inbox[c].result
    <2>1. CASE ~Device!Known(c)
      <3>1. PICK r \in Device!Answer : inbox'[c] = Device!NewRow(r)
        BY <1>3, <2>1
      <3>2. Device!NewRow(r) \in Device!Row
        <4>1. Cardinality(Heard) \in Nat
          BY FS_CardinalityType DEF EndInv, InboxOK
        <4>2. Device!NextRowid \in Nat \ {0}
          <5>1. Device!Cardinality(Heard) = Cardinality(Heard)
            BY Zenon DEF Cardinality, Device!Cardinality
          <5>2. QED BY <4>1, <5>1 DEF Device!NextRowid, Heard
        <4>3. QED BY <4>2 DEF Device!NewRow, Device!Row
      <3>3. QED BY <2>1, <3>1, <3>2 DEF Device!NewRow
    <2>2. CASE Device!Known(c)
      <3>1. inbox[c] \in Device!Row
            /\ inbox[c].effects = (IF inbox[c].result = "expired" THEN 0 ELSE 1)
        BY <2>2, InboxRow DEF EndInv, InboxOK
      <3>2. inbox'[c] = Device!Reopened(inbox[c])
        BY <1>3, <2>2
      <3>3. QED BY <3>1, <3>2 DEF Device!Reopened, Device!Row
    <2>3. QED BY <2>1, <2>2
  <1>5. InboxOK'
    <2> DEFINE Fits(d) == inbox'[d] # Device!NoRow =>
            inbox'[d].effects = IF inbox'[d].result = "expired" THEN 0 ELSE 1
    <2>1. ASSUME NEW d \in Command
          PROVE  inbox'[d] \in Device!Row \cup {Device!NoRow} /\ Fits(d)
      <3>1. CASE d = c
        BY <1>4, <3>1
      <3>2. CASE d # c
        BY <1>3, <3>2 DEF EndInv, InboxOK, Device!Known
      <3>3. QED BY <3>1, <3>2
    <2>2. inbox' \in [Command -> Device!Row \cup {Device!NoRow}]
      BY <1>3, <2>1
    <2>3. IsFiniteSet(Heard')
      <3>1. Heard' = Heard \cup {c}
        <4>1. inbox'[c] # Device!NoRow
          BY <1>4 DEF Device!Row, Device!NoRow
        <4>2. QED BY <1>3, <4>1 DEF Heard, Device!Known
      <3>2. QED BY <3>1, FS_AddElement DEF EndInv, InboxOK
    <2>4. QED BY <1>3, <2>1, <2>2, <2>3 DEF InboxOK, Device!Known
  <1>6. AcksAreEarned'
    <2>1. ASSUME NEW d \in Command, inbox'[d].acked PROVE d \in Committed'
      <3>1. d # c
        BY <1>4, <2>1
      <3>2. QED BY <1>2, <1>3, <2>1, <3>1 DEF EndInv, AcksAreEarned
    <2>2. QED BY <1>1, <1>2, <2>1 DEF EndInv, AcksAreEarned
  <1>7. ReceiptsMatch'
    <2>1. ASSUME evidence[c] # NoReceipt PROVE Device!Known(c)
      <3>1. inbox[c].result \in Result
        BY <2>1, StoredReceipt DEF EndInv, ReceiptsMatch
      <3>2. QED BY <3>1, InboxRow DEF EndInv
    <2>2. ASSUME NEW d \in Command, evidence[d] # NoReceipt
          PROVE  inbox'[d].result = inbox[d].result
      BY <1>3, <1>4, <2>1, <2>2
    <2>3. QED BY <1>1, <2>2 DEF EndInv, ReceiptsMatch, Accepted
  <1>8. MarksAreEarned'
    BY <1>1 DEF EndInv, MarksAreEarned
  <1>9. QED BY <1>5, <1>6, <1>7, <1>8 DEF EndInv

\* The loop writes an acknowledgment only, and only after an answer.
LEMMA LoopStep ==
  ASSUME Inv, EndInv, Loop
  PROVE  EndInv'
  <1>1. UNCHANGED <<command, evidence>>
    BY DEF Loop, vars
  <1>2. Committed' = Committed
    BY <1>1 DEF Committed
  <1>3. ASSUME inbox' = inbox,
               \A c \in Command : poster'.phase = "answered" /\ poster'.receipt = c =>
                                    c \in Committed
        PROVE  EndInv'
    <2>1. Heard' = Heard
      BY <1>3 DEF Heard, Device!Known
    <2>2. QED
      BY <1>1, <1>2, <1>3, <2>1
         DEF EndInv, InboxOK, ReceiptsMatch, AcksAreEarned, MarksAreEarned, Accepted,
             Device!Known
  <1>4. CASE Device!Collect \/ Device!Restart \/ \E c \in Command : Device!GiveUp(c)
    BY <1>3, <1>4
       DEF Device!Collect, Device!Restart, Device!GiveUp, Device!GoOn, Device!AtRest
  <1>5. ASSUME NEW c \in Command, Device!Post(c) PROVE EndInv'
    <2>1. inbox' = inbox /\ poster' = [poster EXCEPT !.phase = "waiting"]
          /\ poster.phase = "posting"
      BY <1>5 DEF Device!Post
    <2>2. poster'.phase # "answered"
      BY <2>1
    <2>3. QED BY <1>3, <2>1, <2>2
  <1>6. ASSUME NEW c \in Command, Device!Answered(c) PROVE EndInv'
    <2>1. inbox' = inbox /\ poster' = [poster EXCEPT !.phase = "answered"]
          /\ poster.receipt = c /\ c \in Committed
      BY <1>6 DEF Device!Answered, Device!Waiting, Device!IsTaken
    <2>2. poster'.receipt = poster.receipt
      BY <2>1
    <2>3. QED BY <1>3, <2>1, <2>2
  <1>7. ASSUME NEW c \in Command, Device!Acknowledge(c) PROVE EndInv'
    <2>1. /\ inbox' = [inbox EXCEPT ![c].acked = TRUE]
          /\ c \in Committed
          /\ poster'.phase # "answered"
      BY <1>7 DEF Device!Acknowledge, Device!GoOn, Device!AtRest, EndInv, AcksAreEarned
    <2>2. Device!Known(c)
      <3>1. evidence[c] # NoReceipt
        BY <2>1 DEF Committed
      <3>2. inbox[c].result \in Result
        BY <3>1, StoredReceipt DEF EndInv, ReceiptsMatch
      <3>3. QED BY <3>2, InboxRow DEF EndInv
    <2>3. inbox[c] \in Device!Row
      BY <2>2, InboxRow DEF EndInv
    <2>4. /\ \A d \in Command : d # c => inbox'[d] = inbox[d]
          /\ inbox'[c] \in Device!Row
          /\ inbox'[c].result = inbox[c].result /\ inbox'[c].effects = inbox[c].effects
          /\ inbox' \in [Command -> Device!Row \cup {Device!NoRow}]
      BY <2>1, <2>3 DEF EndInv, InboxOK, Device!Row
    <2>5. InboxOK'
      <3>1. inbox'[c] # Device!NoRow
        BY <2>4 DEF Device!Row, Device!NoRow
      <3>2. Heard' = Heard
        BY <2>2, <2>4, <3>1 DEF Heard, Device!Known
      <3>3. QED BY <2>2, <2>4, <3>2 DEF EndInv, InboxOK, Device!Known
    <2>6. ReceiptsMatch' /\ MarksAreEarned'
      BY <1>1, <2>4 DEF EndInv, ReceiptsMatch, MarksAreEarned, Accepted
    <2>7. AcksAreEarned'
      BY <1>2, <2>1, <2>4 DEF EndInv, AcksAreEarned
    <2>8. QED BY <2>5, <2>6, <2>7 DEF EndInv
  <1>8. QED BY <1>4, <1>5, <1>6, <1>7 DEF Loop, Device!Loop

\* A step that leaves the evidence alone is no receipt.
LEMMA OwnSteps ==
  ASSUME Inv, [Next]_vars, evidence' = evidence
  PROVE  ~IsReceipt
  <1>1. SUFFICES ASSUME NEW m \in Message, NEW c \in Command, NEW result \in Result,
                        ReceiveEvidence(m, c, result)
                 PROVE  FALSE
    BY DEF IsReceipt
  <1>2. evidence'[m].result = result /\ evidence[m] = NoReceipt
    BY <1>1 DEF ReceiveEvidence, Inv, Core, TypeOK, ServiceTypeOK
  <1>3. QED BY <1>2 DEF NoReceipt, Result

LEMMA EndInvStep ==
  ASSUME Inv, EndInv, [EndNext]_endVars
  PROVE  EndInv'
  <1>1. CASE UNCHANGED endVars
    <2>1. UNCHANGED <<inbox, poster, command, evidence>>
      BY <1>1 DEF endVars, vars, deviceVars
    <2>2. Heard' = Heard
      BY <2>1 DEF Heard, Device!Known
    <2>3. QED
      BY <2>1, <2>2
         DEF EndInv, InboxOK, ReceiptsMatch, AcksAreEarned, MarksAreEarned, Accepted,
             Committed, Device!Known
  <1>2. CASE /\ \/ \E t \in Task : DispatchStep(t)
                \/ ReconcileStep
                \/ \E c \in Command : TimeStep(c)
             /\ UNCHANGED deviceVars
    <2>1. evidence' = evidence
      BY <1>2 DEF DispatchStep, ReconcileStep, ReconcileNext, RecBegin, RecExpire, RecScan,
                  RecChoose, RecCommit, RecRollback, TimeStep
    <2>2. [Next]_vars /\ ~IsReceipt
      BY <1>2, <2>1, OwnSteps DEF Next
    <2>3. QED BY <1>2, <2>2, OtherSteps DEF Next
  <1>3. ASSUME NEW c \in Command, Operate(c) PROVE EndInv'
    <2>1. evidence' = evidence /\ UNCHANGED deviceVars /\ Next
      BY <1>3 DEF Operate, AcceptPayment, Replay, Next, ServiceStep, ServiceNext
    <2>2. [Next]_vars /\ ~IsReceipt
      BY <1>3, <2>1, OwnSteps DEF Next
    <2>3. QED BY <2>1, <2>2, OtherSteps
  <1>4. QED
    BY <1>1, <1>2, <1>3, LoopStep, ArriveStep, ReceiptArrivesStep DEF EndNext

\* The invariant of the composition, on top of the one of Delivery.
THEOREM EndInvariant == EndSpec => [](Inv /\ EndInv)
  <1>1. EndInit => EndInv
    BY EndInvInit
  <1>2. Inv /\ EndInv /\ [EndNext]_endVars => EndInv'
    BY EndInvStep
  <1>3. QED BY <1>1, <1>2, ImplementsDelivery, InvInvariant, PTL DEF EndSpec

----------------------------------------------------------------------------
(* The theorems *)

\* The API's records agree with the device: a command recorded as completed
\* was played once, though it may have been delivered many times, and a receipt
\* marked as conflicting tells of an announcement that was played.
THEOREM RecordsAreTrue == EndSpec => []RecordsMatchDevice
  <1>1. ASSUME Inv, EndInv, NEW c \in Command, Flagged(c) PROVE inbox[c].effects = 1
    <2>1. PICK m \in Command : evidence[m].cmd = c /\ evidence[m].conflicting
      BY <1>1 DEF Flagged
    <2>2. evidence[m] # NoReceipt
      BY <2>1 DEF NoReceipt
    <2>3. m = c /\ evidence[c].result = inbox[c].result /\ inbox[c].result # "expired"
          /\ evidence[c].result \in Result
      BY <1>1, <2>1, <2>2, StoredReceipt DEF EndInv, ReceiptsMatch, MarksAreEarned
    <2>4. Device!Known(c)
      BY <1>1, <2>3, InboxRow DEF EndInv
    <2>5. QED BY <1>1, <2>3, <2>4 DEF EndInv, InboxOK
  <1>2. Inv /\ EndInv => RecordsMatchDevice
    BY <1>1, CompletionWasPlayed DEF EndInv, ReceiptsMatch, RecordsMatchDevice
  <1>3. QED BY <1>2, EndInvariant, PTL

\* A receipt the device no longer posts belongs to a command that is decided.
THEOREM AcknowledgedAreDecided == EndSpec => []AcknowledgedIsDecided
  <1>1. EndInv => AcknowledgedIsDecided
    BY DEF EndInv, AcksAreEarned, ReceiptsMatch, AcknowledgedIsDecided, Committed
  <1>2. QED BY <1>1, EndInvariant, PTL

----------------------------------------------------------------------------
(* Refinement of Promise *)

\* Outbox rows, packets, calls and redeliveries are of accepted commands.
OnlyAccepted ==
  /\ \A c \in Command : outbox[c].status # "none" \/ sent[c] => Accepted(c)
  /\ \A t \in Task : task[t] # Idle => Accepted(task[t].cmd)
  /\ \A c \in rec.stale : Accepted(c)

\* Calls are made for rows there are, and rows come with their commands.
LEMMA OnlyAcceptedStep ==
  ASSUME Inv, OnlyAccepted, [Next]_vars
  PROVE  OnlyAccepted'
  <1> USE DEF Accepted
  <1> DEFINE Rows == \A c \in Command : outbox[c].status # "none" => Accepted(c)
             Packets == \A c \in Command : sent[c] => Accepted(c)
             Calls == \A t \in Task : task[t] # Idle => Accepted(task[t].cmd)
             Chosen == \A c \in rec.stale : Accepted(c)
  <1>1. \A c \in Command : Accepted(c) => Accepted(c)'
    BY StepKeeps DEF Keeps
  <1>2. /\ outbox \in [Command -> OutboxRow] /\ sent \in [Command -> BOOLEAN]
        /\ task \in [Task -> {Idle} \cup Claim] /\ rec.stale \subseteq Command
    BY DEF Inv, Core, TypeOK, StoreTypeOK, DispatchTypeOK, ReconcileTypeOK, Pass
  <1>3. \A t \in Task : task[t] # Idle => task[t].cmd \in Command
    BY <1>2 DEF Claim
  <1>4. Rows /\ Packets /\ Calls /\ Chosen
    BY DEF OnlyAccepted
  <1>5. ASSUME NEW t \in Task, DispatchStep(t) PROVE Rows' /\ Packets' /\ Calls' /\ Chosen'
    <2>1. rec' = rec
      BY <1>5 DEF DispatchStep
    <2>2. ASSUME NEW c \in Command, ClaimRow(t, c) \/ ClaimExhausted(t, c)
          PROVE  Rows' /\ Packets' /\ Calls'
      <3>1. /\ outbox[c].status # "none" /\ sent' = sent
            /\ \A d \in Command : d # c => outbox'[d] = outbox[d]
        BY <1>2, <2>2 DEF ClaimRow, ClaimExhausted, Claimable
      <3>2. task' = task \/ (task'[t].cmd = c /\ \A u \in Task : u # t => task'[u] = task[u])
        BY <1>2, <2>2 DEF ClaimRow, ClaimExhausted
      <3>3. QED BY <1>1, <1>2, <1>3, <1>4, <3>1, <3>2
    <2>3. CASE Work(t) \/ FinishThrows(t) \/ Abandon(t)
      <3>1. task[t] # Idle
        BY <2>3
           DEF Work, RejectPayload, FindExpired, Publish, BrokerUnavailable, PublishEnds,
               BeginFinish, Finish, FinishThrows, Abandon, Idle
      <3>2. /\ \A u \in Task : u # t => task'[u] = task[u]
            /\ task'[t] # Idle => task'[t].cmd = task[t].cmd
        <4>1. \/ task' = [task EXCEPT ![t] = Idle]
              \/ task' = [task EXCEPT ![t] = [task[t] EXCEPT !.phase = "sending"]]
              \/ task' = [task EXCEPT ![t] = [task[t] EXCEPT
                            !.phase = "finishing", !.fresh = outbox[task[t].cmd].lease]]
              \/ \E o \in Outcome : task' = [task EXCEPT ![t] =
                                        [task[t] EXCEPT !.phase = "decided", !.outcome = o]]
          BY <2>3
             DEF Work, RejectPayload, FindExpired, Publish, BrokerUnavailable, PublishEnds,
                 BeginFinish, Finish, FinishThrows, Abandon, Decide, Outcome
        <4>2. task[t] \in Claim
          BY <1>2, <3>1
        <4>3. /\ \A u \in Task : u # t => task'[u] = task[u]
              /\ \/ task'[t] = Idle
                 \/ task'[t] = [task[t] EXCEPT !.phase = "sending"]
                 \/ task'[t] = [task[t] EXCEPT !.phase = "finishing",
                                               !.fresh = outbox[task[t].cmd].lease]
                 \/ \E o \in Outcome :
                      task'[t] = [task[t] EXCEPT !.phase = "decided", !.outcome = o]
          BY <1>2, <4>1
        <4>4. task'[t] # Idle => task'[t].cmd = task[t].cmd
          BY <4>2, <4>3 DEF Claim
        <4>5. QED BY <4>3, <4>4
      <3>3. Calls'
        BY <1>1, <1>2, <1>3, <1>4, <3>1, <3>2
      <3>4. /\ \A d \in Command : d # task[t].cmd => outbox'[d] = outbox[d]
            /\ \A d \in Command : d # task[t].cmd => sent'[d] = sent[d]
        BY <1>2, <1>3, <2>3, <3>1
           DEF Work, RejectPayload, FindExpired, Publish, BrokerUnavailable, PublishEnds,
               BeginFinish, Finish, FinishThrows, Abandon, FinishEffect, Record, storeVars
      <3>5. QED BY <1>1, <1>2, <1>3, <1>4, <2>1, <3>1, <3>3, <3>4
    <2>4. QED BY <1>1, <1>2, <1>4, <1>5, <2>1, <2>2, <2>3 DEF DispatchStep, DispatchNext
  <1>6. CASE ReconcileStep
    <2>1. task' = task /\ sent' = sent
      BY <1>6
         DEF ReconcileStep, ReconcileNext, RecBegin, RecExpire, RecScan, RecChoose,
             RecCommit, RecRollback, storeVars
    <2>2. \A c \in Command : outbox'[c].status = outbox[c].status \/ c \in rec.stale
      BY <1>6
         DEF ReconcileStep, ReconcileNext, RecBegin, RecExpire, RecScan, RecChoose,
             RecCommit, RecRollback, storeVars
    <2>3. rec'.stale \subseteq rec.stale \cup Silent
      <3>1. rec \in Pass
        BY DEF Inv, Core, TypeOK, ReconcileTypeOK
      <3>2. CASE RecBegin
        BY <3>2 DEF RecBegin, NoPass
      <3>3. CASE RecExpire \/ RecScan
        BY <3>1, <3>3 DEF RecExpire, RecScan, Pass
      <3>4. CASE RecChoose
        <4>1. PICK stale \in Limited(Silent) :
                rec' = [rec EXCEPT !.phase = "choosing", !.stale = stale]
          BY <3>4 DEF RecChoose
        <4>2. rec'.stale = stale
          BY <3>1, <4>1 DEF Pass
        <4>3. QED BY <4>1, <4>2, LimitedIsSubset
      <3>5. CASE RecCommit \/ RecRollback
        BY <3>5 DEF RecCommit, RecRollback, NoPass
      <3>6. QED BY <1>6, <3>2, <3>3, <3>4, <3>5 DEF ReconcileStep, ReconcileNext
    <2>4. \A c \in Silent : c \in Command /\ Accepted(c)
      BY <1>4 DEF Silent, Inv, Core, TypeOK, ReconcileTypeOK, Pass
    <2>5. QED BY <1>1, <1>2, <1>3, <1>4, <2>1, <2>2, <2>3, <2>4 DEF OnlyAccepted
  <1>7. CASE ServiceStep
    <2>1. UNCHANGED <<task, rec, sent>>
      BY <1>7 DEF ServiceStep, ServiceNext, AcceptPayment, Replay, ReceiveEvidence
    <2>2. \A c \in Command : outbox'[c] = outbox[c] \/ Accepted(c)'
      BY <1>1, <1>2, <1>7
         DEF ServiceStep, ServiceNext, AcceptPayment, Replay, ReceiveEvidence, Accepted,
             Inv, Core, TypeOK, StoreTypeOK, CommandRow
    <2>3. QED BY <1>1, <1>2, <1>3, <1>4, <2>1, <2>2 DEF OnlyAccepted
  <1>8. ASSUME NEW c \in Command, TimeStep(c) PROVE Rows' /\ Packets' /\ Calls' /\ Chosen'
    <2>1. UNCHANGED <<task, rec, sent>>
      BY <1>8 DEF TimeStep, Time, LeaseLapses, ComesDue, Ages
    <2>2. \A d \in Command : outbox'[d].status = outbox[d].status
      BY <1>2, <1>8 DEF TimeStep, Time, LeaseLapses, ComesDue, Ages, OutboxRow
    <2>3. QED BY <1>1, <1>2, <1>3, <1>4, <2>1, <2>2
  <1>9. CASE UNCHANGED vars
    BY <1>1, <1>2, <1>3, <1>4, <1>9 DEF vars, OnlyAccepted
  <1>10. QED BY <1>5, <1>6, <1>7, <1>8, <1>9 DEF Next, OnlyAccepted

LEMMA OnlyAcceptedHolds == Spec => []OnlyAccepted
  <1>1. Init => OnlyAccepted
    BY DEF Init, StoreInit, DispatchInit, ReconcileInit, NoOutbox, NoPass, OnlyAccepted
  <1>2. Inv /\ OnlyAccepted /\ [Next]_vars => OnlyAccepted'
    BY OnlyAcceptedStep
  <1>3. QED BY <1>1, <1>2, InvInvariant, PTL DEF Spec

\* The mapping, taken apart, before and after a step.
LEMMA SeenRow ==
  ASSUME NEW c \in Command
  PROVE  /\ Seen[c].state = LifecyclePhase[c] /\ Seen'[c].state = LifecyclePhase'[c]
         /\ Seen[c].heard = inbox[c].result /\ Seen'[c].heard = inbox'[c].result
         /\ Seen[c].receipt = Recorded(c) /\ Seen'[c].receipt = Recorded(c)'
         /\ Seen[c].settled = inbox[c].acked /\ Seen'[c].settled = inbox'[c].acked
         /\ LifecyclePhase[c] = IF command[c].done THEN "completed" ELSE command[c].state
         /\ LifecyclePhase'[c] = IF command'[c].done THEN "completed" ELSE command'[c].state
  BY DEF Seen, LifecyclePhase

\* What a step leaves alone looks the same after it.
LEMMA SeenAlike ==
  ASSUME NEW c \in Command, command'[c] = command[c], evidence'[c] = evidence[c]
  PROVE  /\ LifecyclePhase'[c] = LifecyclePhase[c] /\ Recorded(c)' = Recorded(c)
         /\ inbox'[c] = inbox[c] => Seen'[c] = Seen[c]
  <1>1. LifecyclePhase'[c] = LifecyclePhase[c]
    BY DEF LifecyclePhase
  <1>2. Recorded(c)' = Recorded(c)
    BY DEF Recorded
  <1>3. QED BY <1>1, <1>2 DEF Seen

\* Everything seen has its type.
LEMMA SeenType ==
  ASSUME Inv, EndInv
  PROVE  Seen \in [Command -> Promised!Announcement]
  <1>1. ASSUME NEW c \in Command PROVE Seen[c] \in Promised!Announcement
    <2>1. command[c] \in CommandRow /\ evidence[c] \in Receipt \cup {NoReceipt}
      BY DEF Inv, Core, TypeOK, StoreTypeOK, ServiceTypeOK
    <2>2. LifecyclePhase[c] \in Promised!Phase
      BY <2>1, SeenRow DEF CommandRow, State, Promised!Phase
    <2>3. inbox[c] \in Device!Row \cup {Device!NoRow}
      BY DEF EndInv, InboxOK
    <2>4. inbox[c].result \in Promised!Answer \cup {"none"}
      BY <2>3 DEF Device!Row, Device!NoRow, Device!Answer, Promised!Answer
    <2>5. inbox[c].acked \in BOOLEAN
      <3>1. CASE inbox[c] \in Device!Row
        BY <3>1 DEF Device!Row
      <3>2. CASE inbox[c] = Device!NoRow
        BY <3>2 DEF Device!NoRow
      <3>3. QED BY <2>3, <3>1, <3>2
    <2>6. Recorded(c) \in {"none", "plain", "conflicting"}
      BY DEF Recorded
    <2>7. QED BY <2>2, <2>4, <2>5, <2>6 DEF Seen, Promised!Announcement
  <1>2. QED BY <1>1 DEF Seen

\* Without a receipt an announcement is accepted or given up.
LEMMA VerdictIsPromised ==
  ASSUME Inv, EndInv, [Next]_vars, ~IsReceipt, UNCHANGED deviceVars, NEW c \in Command,
         Seen \in [Command -> Promised!Announcement],
         Seen' \in [Command -> Promised!Announcement]
  PROVE  Seen'[c] = Seen[c] \/ Promised!Moves(Seen[c], Seen'[c])
  <1> DEFINE a == Seen[c]
             b == Seen'[c]
             s == LifecyclePhase'[c]
  <1>1. inbox' = inbox /\ evidence' = evidence /\ Moves(c)
    BY StepMoves DEF deviceVars, IsReceipt
  <1>2. command[c] \in CommandRow /\ Judged(c)
    BY JudgedInv DEF Inv, Core, TypeOK, StoreTypeOK
  <1>3. /\ b = [a EXCEPT !.state = s] /\ a.state = LifecyclePhase[c]
        /\ s = IF command'[c].done THEN "completed" ELSE command'[c].state
    <2>1. Recorded(c)' = Recorded(c)
      BY <1>1 DEF Recorded
    <2>2. a \in Promised!Announcement /\ b \in Promised!Announcement
      OBVIOUS
    <2>3. QED BY <1>1, <2>1, <2>2, SeenRow DEF Promised!Announcement
  <1>4. \/ s = a.state
        \/ a.state = "none" /\ s = "pending"
        \/ s \in Promised!Verdicts(a.state)
    <2>1. a.state = IF command[c].done THEN "completed" ELSE command[c].state
      BY <1>3, SeenRow
    <2>2. command'[c].done = command[c].done
      BY <1>1, <1>2 DEF Moves, CommandRow
    <2>3. CASE command[c].done
      BY <1>3, <2>1, <2>2, <2>3
    <2>4. CASE ~command[c].done
      <3>1. a.state = command[c].state /\ s = command'[c].state
        BY <1>3, <2>1, <2>2, <2>4
      <3>2. command[c].state # "completed"
        BY <1>2, <2>4 DEF Judged
      <3>3. QED
        BY <1>1, <1>2, <3>1, <3>2
           DEF Moves, Promised!Verdicts, CommandRow, State, Undecided, Accepted
    <2>5. QED BY <2>3, <2>4
  <1>5. CASE s = a.state
    <2>1. a \in Promised!Announcement
      OBVIOUS
    <2>2. QED BY <1>3, <1>5, <2>1 DEF Promised!Announcement
  <1>6. CASE a.state = "none" /\ s = "pending"
    BY <1>3, <1>6 DEF Promised!Moves, Promised!Accept
  <1>7. CASE s \in Promised!Verdicts(a.state)
    BY <1>3, <1>7 DEF Promised!Moves, Promised!Conclude
  <1>8. QED BY <1>4, <1>5, <1>6, <1>7

\* A receipt tells what was heard.
LEMMA ReceiptIsPromised ==
  ASSUME Inv, EndInv, NEW c \in Command, ReceiptArrives(c),
         Seen \in [Command -> Promised!Announcement],
         Seen' \in [Command -> Promised!Announcement]
  PROVE  /\ Promised!Moves(Seen[c], Seen'[c])
         /\ \A d \in Command : d # c => Seen'[d] = Seen[d]
  <1>1. PICK result \in Result : inbox[c].result = result /\ ReceiveEvidence(c, c, result)
    BY DEF ReceiptArrives
  <1>2. inbox' = inbox
    BY DEF ReceiptArrives, deviceVars
  <1>3. /\ evidence[c] = NoReceipt
        /\ evidence' = [evidence EXCEPT ![c] =
             [cmd |-> c, result |-> result, conflicting |-> Conflicts(c, result)]]
        /\ command' = [command EXCEPT ![c] = Evidenced(command[c], result)]
    BY <1>1 DEF ReceiveEvidence
  <1>4. /\ evidence'[c] =
             [cmd |-> c, result |-> result, conflicting |-> Conflicts(c, result)]
        /\ command'[c] = Evidenced(command[c], result)
        /\ \A d \in Command : d # c => evidence'[d] = evidence[d] /\ command'[d] = command[d]
        /\ command[c] \in CommandRow
    BY <1>3 DEF Inv, Core, TypeOK, ServiceTypeOK, StoreTypeOK
  <1>5. ~command[c].done /\ command[c].state # "completed"
    <2>1. ~command[c].done
      BY <1>3, CompletionWasPlayed DEF EndInv, NoReceipt
    <2>2. QED BY <2>1, JudgedInv DEF Judged
  <1>6. \A d \in Command : d # c => Seen'[d] = Seen[d]
    BY <1>2, <1>4, SeenAlike
  <1>7. /\ Seen[c].state = command[c].state
        /\ Seen'[c].state = IF command'[c].done THEN "completed" ELSE command'[c].state
        /\ Seen[c].heard = result /\ Seen'[c].heard = result
        /\ Seen[c].receipt = "none"
        /\ Seen'[c].receipt = IF Conflicts(c, result) THEN "conflicting" ELSE "plain"
        /\ Seen'[c].settled = Seen[c].settled
    <2>1. Recorded(c)' = IF Conflicts(c, result) THEN "conflicting" ELSE "plain"
      <3>1. evidence'[c] # NoReceipt
        BY <1>4 DEF NoReceipt, Result
      <3>2. evidence'[c].conflicting <=> Conflicts(c, result)
        BY <1>4
      <3>3. QED BY <3>1, <3>2 DEF Recorded
    <2>2. Recorded(c) = "none" /\ LifecyclePhase[c] = command[c].state
      BY <1>3, <1>5, SeenRow DEF Recorded
    <2>3. QED BY <1>1, <1>2, <2>1, <2>2, SeenRow
  <1>8. Promised!Tell(Seen[c], Seen'[c])
    <2>0. Seen[c] \in Promised!Announcement /\ Seen'[c] \in Promised!Announcement
      OBVIOUS
    <2>1. CASE result = "completed"
      <3>1. command'[c].done /\ (Conflicts(c, result) <=> command[c].state = "expired")
        BY <1>4, <1>5, <2>1 DEF Evidenced, Conflicts, CommandRow
      <3>2. /\ Seen'[c].state = "completed"
            /\ Seen'[c].receipt = IF Seen[c].state = "expired" THEN "conflicting" ELSE "plain"
        BY <1>7, <3>1
      <3>3. Seen'[c] = Promised!Told(Seen[c], "completed", Seen'[c].receipt)
        BY <1>7, <2>0, <3>2 DEF Promised!Told, Promised!Announcement
      <3>4. QED BY <1>7, <2>1, <3>2, <3>3 DEF Promised!Tell
    <2>2. CASE result = "late"
      <3>1. /\ ~command'[c].done /\ command'[c].state = "unknown"
            /\ Conflicts(c, result)
        BY <1>4, <1>5, <2>2 DEF Evidenced, Conflicts, CommandRow
      <3>2. /\ Seen'[c].state = "unknown"
            /\ Seen'[c].receipt = "conflicting"
        BY <1>7, <3>1
      <3>3. Seen'[c] = Promised!Told(Seen[c], "unknown", Seen'[c].receipt)
        BY <1>7, <2>0, <3>2 DEF Promised!Told, Promised!Announcement
      <3>4. QED BY <1>7, <2>2, <3>2, <3>3 DEF Promised!Tell
    <2>3. CASE result = "expired"
      <3>1. /\ ~command'[c].done /\ command'[c].state = "expired"
            /\ ~Conflicts(c, result)
        BY <1>4, <1>5, <2>3 DEF Evidenced, Conflicts, CommandRow
      <3>2. /\ Seen'[c].state = "expired"
            /\ Seen'[c].receipt = "plain"
        BY <1>7, <3>1
      <3>3. Seen'[c] = Promised!Told(Seen[c], "expired", Seen'[c].receipt)
        BY <1>7, <2>0, <3>2 DEF Promised!Told, Promised!Announcement
      <3>4. QED BY <1>7, <2>3, <3>2, <3>3 DEF Promised!Tell
    <2>4. QED BY <2>1, <2>2, <2>3 DEF Result
  <1>9. QED BY <1>6, <1>8 DEF Promised!Moves

\* A delivery is heard once; the next ones reopen the row.
LEMMA ArrivalIsPromised ==
  ASSUME Inv, EndInv, OnlyAccepted, NEW c \in Command, Arrive(c),
         Seen \in [Command -> Promised!Announcement],
         Seen' \in [Command -> Promised!Announcement]
  PROVE  /\ Promised!Moves(Seen[c], Seen'[c])
         /\ \A d \in Command : d # c => Seen'[d] = Seen[d]
  <1>1. command' = command /\ evidence' = evidence /\ sent[c]
    BY DEF Arrive, vars
  <1>2. /\ \A d \in Command : d # c => inbox'[d] = inbox[d]
        /\ \/ ~Device!Known(c) /\ \E r \in Device!Answer : inbox'[c] = Device!NewRow(r)
           \/ Device!Known(c) /\ inbox'[c] = Device!Reopened(inbox[c])
    BY DEF Arrive, Device!Process, EndInv, InboxOK
  <1>3. \A d \in Command : d # c => Seen'[d] = Seen[d]
    BY <1>1, <1>2, SeenAlike
  <1>4. /\ Seen'[c].state = Seen[c].state /\ Seen'[c].receipt = Seen[c].receipt
        /\ Seen'[c].heard = inbox'[c].result /\ Seen'[c].settled = inbox'[c].acked
        /\ Seen[c] \in Promised!Announcement /\ Seen'[c] \in Promised!Announcement
    BY <1>1, SeenAlike, SeenRow
  <1>5. CASE ~Device!Known(c)
    <2>1. PICK r \in Device!Answer : inbox'[c] = Device!NewRow(r)
      BY <1>2, <1>5
    <2>2. Seen[c].state # "none" /\ Seen[c].heard = "none" /\ Seen[c].settled = FALSE
      BY <1>1, <1>5, SeenRow
         DEF OnlyAccepted, Accepted, Device!Known, Device!NoRow
    <2>3. Seen'[c] = [Seen[c] EXCEPT !.heard = r]
      <3>1. Seen'[c].heard = r /\ Seen'[c].settled = Seen[c].settled
        <4>1. inbox'[c].result = r /\ inbox'[c].acked = FALSE
          BY <2>1 DEF Device!NewRow
        <4>2. QED BY <1>4, <2>2, <4>1
      <3>2. QED BY <1>4, <3>1 DEF Promised!Announcement
    <2>4. QED
      BY <1>3, <2>2, <2>3 DEF Promised!Moves, Promised!Hear, Promised!Answer, Device!Answer
  <1>6. CASE Device!Known(c)
    <2>1. inbox[c] \in Device!Row /\ inbox'[c] = Device!Reopened(inbox[c])
      BY <1>2, <1>6, InboxRow DEF EndInv
    <2>2. inbox'[c].result = inbox[c].result /\ inbox'[c].acked = FALSE
      BY <2>1 DEF Device!Reopened, Device!Row
    <2>3. Seen'[c] = [Seen[c] EXCEPT !.settled = FALSE]
      BY <1>4, <2>2, SeenRow DEF Promised!Announcement
    <2>4. QED BY <1>3, <2>3 DEF Promised!Moves, Promised!Reopen
  <1>7. QED BY <1>5, <1>6

\* The loop settles what the API has.
LEMMA LoopIsPromised ==
  ASSUME Inv, EndInv, Loop, NEW d \in Command,
         Seen \in [Command -> Promised!Announcement],
         Seen' \in [Command -> Promised!Announcement]
  PROVE  Seen'[d] = Seen[d] \/ Promised!Moves(Seen[d], Seen'[d])
  <1>1. command' = command /\ evidence' = evidence
    BY DEF Loop, vars
  <1>2. CASE inbox' = inbox
    BY <1>1, <1>2, SeenAlike
  <1>3. ASSUME NEW c \in Command, Device!Acknowledge(c)
        PROVE  Seen'[d] = Seen[d] \/ Promised!Moves(Seen[d], Seen'[d])
    <2>1. inbox' = [inbox EXCEPT ![c].acked = TRUE] /\ evidence[c] # NoReceipt
      BY <1>3 DEF Device!Acknowledge, EndInv, AcksAreEarned, Committed
    <2>2. Device!Known(c)
      <3>1. inbox[c].result \in Result
        BY <2>1, StoredReceipt DEF EndInv, ReceiptsMatch
      <3>2. QED BY <3>1, InboxRow DEF EndInv
    <2>3. inbox[c] \in Device!Row
      BY <2>2, InboxRow DEF EndInv
    <2>4. CASE d # c
      BY <1>1, <2>1, <2>4, SeenAlike DEF EndInv, InboxOK
    <2>5. CASE d = c
      <3>1. inbox'[d].result = inbox[d].result /\ inbox'[d].acked = TRUE
        BY <2>1, <2>3, <2>5 DEF Device!Row, EndInv, InboxOK
      <3>2. Seen'[d] = [Seen[d] EXCEPT !.settled = TRUE] /\ Seen[d].receipt # "none"
        <4>1. /\ Seen'[d].state = Seen[d].state /\ Seen'[d].receipt = Seen[d].receipt
              /\ Recorded(d) # "none"
          BY <1>1, <2>1, <2>5, SeenAlike, SeenRow DEF Recorded
        <4>2. QED BY <3>1, <4>1, SeenRow DEF Promised!Announcement
      <3>3. QED BY <3>2 DEF Promised!Moves, Promised!Settle
    <2>6. QED BY <2>4, <2>5
  <1>4. QED
    BY <1>2, <1>3
       DEF Loop, Device!Loop, Device!Collect, Device!Post, Device!Answered, Device!GiveUp,
           Device!Restart

LEMMA PromiseStep ==
  ASSUME Inv, EndInv, OnlyAccepted, [EndNext]_endVars,
         Seen \in [Command -> Promised!Announcement],
         Seen' \in [Command -> Promised!Announcement]
  PROVE  \A c \in Command : Seen'[c] = Seen[c] \/ Promised!Moves(Seen[c], Seen'[c])
  <1>1. CASE UNCHANGED endVars
    BY <1>1, SeenAlike DEF endVars, vars, deviceVars
  <1>2. ASSUME Next, evidence' = evidence, UNCHANGED deviceVars
        PROVE  \A c \in Command : Seen'[c] = Seen[c] \/ Promised!Moves(Seen[c], Seen'[c])
    BY <1>2, OwnSteps, VerdictIsPromised
  <1>3. CASE /\ \/ \E t \in Task : DispatchStep(t)
                \/ ReconcileStep
                \/ \E c \in Command : TimeStep(c)
             /\ UNCHANGED deviceVars
    <2>1. evidence' = evidence
      BY <1>3 DEF DispatchStep, ReconcileStep, ReconcileNext, RecBegin, RecExpire, RecScan,
                  RecChoose, RecCommit, RecRollback, TimeStep
    <2>2. QED BY <1>2, <1>3, <2>1 DEF Next
  <1>4. ASSUME NEW d \in Command, Operate(d)
        PROVE  \A c \in Command : Seen'[c] = Seen[c] \/ Promised!Moves(Seen[c], Seen'[c])
    <2>1. evidence' = evidence /\ UNCHANGED deviceVars /\ Next
      BY <1>4 DEF Operate, AcceptPayment, Replay, Next, ServiceStep, ServiceNext
    <2>2. QED BY <1>2, <2>1
  <1>5. QED
    BY <1>1, <1>3, <1>4, LoopIsPromised, ArrivalIsPromised, ReceiptIsPromised DEF EndNext

\* Whatever worker, reconciler, operators, time, broker and device do, seen
\* from outside every announcement moves as Promise allows: judged once by the
\* device, decided once by its receipt.
THEOREM ImplementsPromise == EndSpec => KeepsPromise
  <1>1. EndInit => Promised!Init
    <2> SUFFICES ASSUME EndInit PROVE Seen = [c \in Command |-> Promised!New]
      BY DEF Promised!Init
    <2>1. ASSUME NEW c \in Command
          PROVE  /\ command[c] = NoCommand /\ evidence[c] = NoReceipt
                 /\ inbox[c] = Device!NoRow
      BY DEF EndInit, Init, StoreInit, ServiceInit, Device!DeviceInit
    <2>2. ASSUME NEW c \in Command
          PROVE  LifecyclePhase[c] = "none" /\ Recorded(c) = "none"
                 /\ inbox[c].result = "none" /\ inbox[c].acked = FALSE
      BY <2>1, SeenRow DEF NoCommand, Recorded, Device!NoRow
    <2>3. ASSUME NEW c \in Command PROVE Seen[c] = Promised!New
      BY <2>2 DEF Seen, Promised!New
    <2>4. QED BY <2>3 DEF Seen
  <1>2. /\ Inv /\ EndInv /\ OnlyAccepted /\ (Inv /\ EndInv)' /\ [EndNext]_endVars
          => [Promised!Next]_Seen
    <2>1. Inv /\ EndInv => Seen \in [Command -> Promised!Announcement]
      BY SeenType
    <2>2. (Inv /\ EndInv => Seen \in [Command -> Promised!Announcement])'
      BY <2>1, PTL
    <2>3. QED BY <2>1, <2>2, PromiseStep DEF Promised!Next
  <1>3. QED
    BY <1>1, <1>2, EndInvariant, ImplementsDelivery, OnlyAcceptedHolds, PTL
       DEF EndSpec, KeepsPromise, Promised!Spec

\* A receipt is told of what was heard, and decides.
ToldIsDecided ==
  /\ Seen \in [Command -> Promised!Announcement]
  /\ \A c \in Command : Seen[c].receipt # "none" =>
       Seen[c].heard # "none" /\ Seen[c].state \in {"completed", "expired", "unknown"}

\* What a recorded receipt has decided stands: nobody who comes late, neither
\* worker nor reconciler nor another delivery, changes what an announcement is
\* said to be, but for unknown, which a late pass may call expired.  (As in
\* Promise, a completion whose state was overwritten still counts as one: see
\* CompletedIsTerminal.)
THEOREM DecisionsAreFinal == EndSpec => Promised!DecisionsStand
  <1>1. Promised!Init => ToldIsDecided
    BY DEF Promised!Init, Promised!New, Promised!Announcement, Promised!Phase, ToldIsDecided
  <1> DEFINE Stands(a, b) ==
        a.receipt # "none" =>
          /\ b.receipt = a.receipt /\ b.heard = a.heard
          /\ b.state = a.state \/ (a.state = "unknown" /\ b.state = "expired")
  <1>2. ASSUME NEW a \in Promised!Announcement, NEW b, Promised!Moves(a, b),
               a.receipt # "none" =>
                 a.heard # "none" /\ a.state \in {"completed", "expired", "unknown"}
        PROVE  /\ Stands(a, b)
               /\ b.receipt # "none" =>
                    b.heard # "none" /\ b.state \in {"completed", "expired", "unknown"}
    <2>1. CASE Promised!Accept(a, b) \/ Promised!Hear(a, b)
      BY <1>2, <2>1
         DEF Promised!Accept, Promised!Hear, Promised!Answer, Promised!Announcement
    <2>2. CASE Promised!Conclude(a, b)
      BY <1>2, <2>2 DEF Promised!Conclude, Promised!Verdicts, Promised!Announcement
    <2>3. CASE Promised!Tell(a, b)
      BY <1>2, <2>3 DEF Promised!Tell, Promised!Told, Promised!Announcement
    <2>4. CASE Promised!Settle(a, b) \/ Promised!Reopen(a, b)
      BY <1>2, <2>4 DEF Promised!Settle, Promised!Reopen, Promised!Announcement
    <2>5. QED BY <1>2, <2>1, <2>2, <2>3, <2>4 DEF Promised!Moves
  <1> HIDE DEF Stands
  <1>3. ToldIsDecided /\ [Promised!Next]_Seen =>
          ToldIsDecided' /\ \A c \in Command : Stands(Seen[c], Seen'[c])
    <2> SUFFICES ASSUME ToldIsDecided, [Promised!Next]_Seen
                 PROVE  ToldIsDecided' /\ \A c \in Command : Stands(Seen[c], Seen'[c])
      OBVIOUS
    <2>1. CASE Seen' = Seen
      BY <2>1 DEF ToldIsDecided, Stands
    <2>2. CASE Promised!Next
      <3>1. ASSUME NEW c \in Command
            PROVE  /\ Stands(Seen[c], Seen'[c])
                   /\ Seen'[c].receipt # "none" =>
                        /\ Seen'[c].heard # "none"
                        /\ Seen'[c].state \in {"completed", "expired", "unknown"}
        <4>1. /\ Seen[c] \in Promised!Announcement
              /\ Seen'[c] = Seen[c] \/ Promised!Moves(Seen[c], Seen'[c])
              /\ Seen[c].receipt # "none" =>
                   Seen[c].heard # "none" /\ Seen[c].state \in {"completed", "expired", "unknown"}
          BY <2>2 DEF ToldIsDecided, Promised!Next
        <4>2. CASE Seen'[c] = Seen[c]
          BY <4>1, <4>2 DEF Stands
        <4>3. CASE Promised!Moves(Seen[c], Seen'[c])
          BY <1>2, <4>1, <4>3
        <4>4. QED BY <4>1, <4>2, <4>3
      <3>2. QED BY <2>2, <3>1 DEF ToldIsDecided, Promised!Next
    <2>3. QED BY <2>1, <2>2
  <1>4. ToldIsDecided /\ [Promised!Next]_Seen =>
          ToldIsDecided' /\ [\A c \in Command : Seen[c].receipt # "none" =>
             /\ Seen'[c].receipt = Seen[c].receipt
             /\ Seen'[c].heard = Seen[c].heard
             /\ \/ Seen'[c].state = Seen[c].state
                \/ Seen[c].state = "unknown" /\ Seen'[c].state = "expired"]_Seen
    BY <1>3 DEF Stands
  <1>5. QED
    BY <1>1, <1>4, ImplementsPromise, PTL
       DEF KeepsPromise, Promised!Spec, Promised!DecisionsStand

=============================================================================
