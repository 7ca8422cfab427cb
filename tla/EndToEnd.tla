------------------------------ MODULE EndToEnd ------------------------------
(***************************************************************************)
(* The whole way of an announcement: Delivery, with the environment that   *)
(* signs receipts replaced by the simulator.  Commands reach the device    *)
(* once their packet has been handed to the broker, at any time and any    *)
(* number of times (QoS 1, timers that give up on a packet still queued,   *)
(* redelivery); receipts reach the API whenever a request arrives.         *)
(***************************************************************************)
EXTENDS Delivery

CONSTANTS
  Refused,    \* see Simulator
  Limit

VARIABLES inbox, poster, posted    \* see Simulator

\* The receipt of a command has one identity, drawn when the device first sees
\* the command; here the command names it.
ASSUME EndToEndAssumption == Message = Command

Committed == {c \in Command : evidence[c] # NoReceipt}

Device == INSTANCE Simulator WITH stored <- Committed

deviceVars == <<inbox, poster, posted>>
endVars == <<vars, deviceVars>>

EndInit == Init /\ Device!DeviceInit

\* The broker hands the device a packet it has, or had.
Arrive(c) == sent[c] /\ UNCHANGED vars /\ Device!Process(c)

Loop == UNCHANGED vars /\ Device!Loop

\* A request of the loop reaches the API, which takes no receipt without one
\* of the results (evidenceMessage).
ReceiptArrives(c) ==
  /\ c \in posted \ Refused
  /\ \E result \in Result :
       inbox[c].result = result /\ ReceiveEvidence(c, c, result)
  /\ UNCHANGED <<task, rec, incidents, deviceVars>>

Operate(c) ==
  /\ AcceptPayment(c) \/ Replay(c)
  /\ UNCHANGED <<task, rec, incidents, deviceVars>>

EndNext ==
  \/ /\ \/ \E t \in Task : DispatchStep(t)
        \/ ReconcileStep
        \/ \E c \in Command : TimeStep(c)
     /\ UNCHANGED deviceVars
  \/ Loop
  \/ \E c \in Command : Operate(c) \/ Arrive(c) \/ ReceiptArrives(c)

EndSpec == EndInit /\ [][EndNext]_endVars

\* The loop of the simulator and the passes of the reconciler go on as in
\* Simulator and Delivery, so a receipt that waits for a row a pass has locked,
\* or is lost, is committed when it has been repeated often enough.
EndFairness ==
  /\ SF_endVars(RecExpire /\ UNCHANGED <<task, deviceVars>>)
  /\ SF_endVars(RecScan /\ UNCHANGED <<task, deviceVars>>)
  /\ SF_endVars(RecChoose /\ UNCHANGED <<task, deviceVars>>)
  /\ SF_endVars(RecCommit /\ UNCHANGED <<task, deviceVars>>)
  /\ WF_endVars(UNCHANGED vars /\ Device!Collect)
  /\ \A c \in Command :
       /\ SF_endVars(UNCHANGED vars /\ Device!Post(c))
       /\ SF_endVars(UNCHANGED vars /\ Device!Answered(c))
       /\ SF_endVars(UNCHANGED vars /\ (Device!Answered(c) \/ Device!GiveUp(c)))
       /\ SF_endVars(UNCHANGED vars /\ Device!Acknowledge(c))
       /\ SF_endVars(Device!Waiting(c) /\ ReceiptArrives(c))

FairEndSpec == EndSpec /\ EndFairness

----------------------------------------------------------------------------

\* What the API has recorded is what the device has done: the receipt it holds
\* of a command is the one in the inbox, a command recorded as completed has
\* been played, once, and so has one whose receipt is marked as conflicting.
RecordsMatchDevice ==
  \A c \in Command :
    /\ evidence[c] # NoReceipt =>
         evidence[c].cmd = c /\ evidence[c].result = inbox[c].result
    /\ command[c].done \/ Flagged(c) => inbox[c].effects = 1

\* The device stops posting a receipt only when the announcement is decided.
AcknowledgedIsDecided ==
  \A c \in Command : inbox[c].acked => Accepted(c) /\ command[c].state \notin Undecided

Recorded(c) ==
  IF evidence[c] = NoReceipt THEN "none"
  ELSE IF evidence[c].conflicting THEN "conflicting" ELSE "plain"

\* What can be seen of every announcement from outside (see Promise).
Seen == [c \in Command |->
  [state |-> LifecyclePhase[c], heard |-> inbox[c].result,
   receipt |-> Recorded(c), settled |-> inbox[c].acked]]

\* From outside, an announcement is judged once by the device and decided once
\* by its receipt, which corrects what was concluded without it.  A verdict
\* that rests on a receipt stands, except that a pass of the reconciler which
\* is late may turn unknown into expired.
Promised == INSTANCE Promise WITH announcement <- Seen

KeepsPromise == Promised!Spec

\* What was played is known to have been played, or is investigated: it is
\* recorded as completed, or its receipt is marked.
PlayedIsReported ==
  \A c \in Command \ Refused :
    inbox[c].effects = 1 ~> command[c].done \/ Flagged(c)

=============================================================================
