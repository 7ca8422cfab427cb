------------------------------ MODULE Service ------------------------------
(***************************************************************************)
(* The transactions of the API that touch an announcement                  *)
(* (apps/api/service.ts): acceptance of a payment, receipt of signed       *)
(* device evidence, and replay by an operator.                             *)
(*                                                                         *)
(* The device is outside this module: it may answer any command it could   *)
(* have been sent, several times and with contradictory results, since the *)
(* API takes any evidence signed with a valid credential.                  *)
(***************************************************************************)
EXTENDS Store

CONSTANT Message     \* identities (messageId) of receipts the devices sign

VARIABLE evidence    \* receipts: [Message -> Receipt \cup {NoReceipt}]

\* "late" is a completed receipt stamped after expires_at of its command.
Result == {"completed", "late", "expired"}

Receipt == [cmd : Command, result : Result, conflicting : BOOLEAN]

NoReceipt == [cmd |-> "none", result |-> "none", conflicting |-> FALSE]

ServiceTypeOK == evidence \in [Message -> Receipt \cup {NoReceipt}]

ServiceInit == evidence = [m \in Message |-> NoReceipt]

----------------------------------------------------------------------------

\* acceptPayment inserts a payment with its command and outbox row.  A
\* duplicate acceptance returns the stored payment and changes nothing.
AcceptPayment(c) ==
  /\ ~Accepted(c)
  /\ command' = [command EXCEPT ![c].state = "pending"]
  /\ outbox' = [outbox EXCEPT ![c] = [@ EXCEPT !.status = "pending", !.due = TRUE]]
  /\ UNCHANGED <<delivery, replays, locked, ttl, sent, evidence>>

\* Faulty: a completion after an expiry is not a conflict.
ConflictsForward(c, result) ==
  \/ result = "late"
  \/ command[c].state = "completed" /\ result = "expired"

\* conflicting, as receiveEvidence computes it from the row it has locked.
Conflicts(c, result) ==
  \/ result = "late"
  \/ command[c].state = "completed" /\ result = "expired"
  \/ command[c].state = "expired" /\ result = "completed"

\* Faulty: a completion stamped too late completes the command.
EvidencedLate(row, result) ==
  CASE result \in {"completed", "late"} -> [row EXCEPT !.state = "completed", !.done = TRUE]
    [] result = "expired" /\ row.state # "completed" -> [row EXCEPT !.state = "expired"]
    [] OTHER -> row

\* Faulty: an expiry undoes a completion.
EvidencedLast(row, result) ==
  CASE result = "completed" -> [row EXCEPT !.state = "completed", !.done = TRUE]
    [] result = "late" /\ row.state # "completed" -> [row EXCEPT !.state = "unknown"]
    [] result = "expired" -> [row EXCEPT !.state = "expired"]
    [] OTHER -> row

\* The commands row after a receipt.
Evidenced(row, result) ==
  CASE result = "completed" -> [row EXCEPT !.state = "completed", !.done = TRUE]
    [] result = "late" /\ row.state # "completed" -> [row EXCEPT !.state = "unknown"]
    [] result = "expired" /\ row.state # "completed" -> [row EXCEPT !.state = "expired"]
    [] OTHER -> row

\* receiveEvidence for a receipt.  A retransmission finds its message identity
\* taken and changes nothing; a refused receipt is rolled back.
ReceiveEvidence(m, c, result) ==
  /\ evidence[m] = NoReceipt
  /\ Accepted(c) /\ sent[c]
  /\ c \notin locked
  /\ evidence' = [evidence EXCEPT ![m] =
       [cmd |-> c, result |-> result, conflicting |-> Conflicts(c, result)]]
  /\ command' = [command EXCEPT ![c] = Evidenced(@, result)]
  /\ UNCHANGED <<outbox, delivery, replays, locked, ttl, sent>>

\* replay, when its check lets it through.
Replay(c) ==
  /\ replays[c] < MaxReplays
  /\ c \notin locked
  /\ Accepted(c)
  /\ command[c].state # "completed"
  /\ ttl[c] # "over"
  /\ outbox[c].status \in {"exhausted", "permanent", "published"}
  /\ outbox' = [outbox EXCEPT ![c] =
       [@ EXCEPT !.status = "pending", !.attempts = 0, !.due = TRUE,
                 !.token = 0, !.lease = FALSE]]
  /\ replays' = [replays EXCEPT ![c] = @ + 1]
  /\ UNCHANGED <<command, delivery, locked, ttl, sent, evidence>>

ServiceNext ==
  \/ \E c \in Command : AcceptPayment(c) \/ Replay(c)
  \/ \E m \in Message, c \in Command, result \in Result : ReceiveEvidence(m, c, result)

=============================================================================
