----------------------------- MODULE Simulator -----------------------------
(***************************************************************************)
(* The device simulator (apps/simulator): an SQLite inbox that records the *)
(* effect of a command and its receipt in one transaction, and a loop that *)
(* posts unacknowledged receipts to the API until it has taken them.       *)
(* Node runs the message callback between the steps of the loop.           *)
(*                                                                         *)
(* The API appears as the set of receipts it has committed.  The receipt   *)
(* of a command is signed once, so it is identified by the command.        *)
(***************************************************************************)
EXTENDS Naturals, FiniteSets

CONSTANTS
  Command,
  Refused,   \* commands whose receipts the API keeps refusing, for example
             \* because they were signed with a key revoked since
  Limit      \* LIMIT of the query for unacknowledged receipts

ASSUME SimulatorAssumption == Refused \subseteq Command /\ Limit \in Nat \ {0}

VARIABLES
  inbox,     \* inbox, also of commands that have not come yet (NoRow)
  poster,    \* the loop: what it does, with which receipt, and the rest of its batch
  posted,    \* receipts that have been sent to the API at some time
  stored     \* receipts the API has committed

deviceVars == <<inbox, poster, posted>>
simulatorVars == <<deviceVars, stored>>

\* "late" is a completion stamped after expires_at: the clock is read once to
\* choose the result and once more to stamp it.  How the clock of the device
\* relates to that of the API is left open.
Answer == {"completed", "late", "expired"}

Row == [result : Answer, effects : {0, 1}, acked : BOOLEAN, rowid : Nat \ {0}]

NoRow == [result |-> "none", effects |-> 0, acked |-> FALSE, rowid |-> 0]

Known(c) == inbox[c] # NoRow

\* collecting: about to query the inbox; posting: about to send the receipt of
\* a command; waiting: the request is under way; answered: the API has answered
\* that the receipt is taken.
AtRest == [phase |-> "collecting", receipt |-> "none", batch |-> {}]

AtWork == [phase : {"posting", "waiting", "answered"},
           receipt : Command, batch : SUBSET Command]

SimulatorTypeOK ==
  /\ inbox \in [Command -> Row \cup {NoRow}]
  /\ poster \in AtWork \cup {AtRest}
  /\ posted \in SUBSET Command
  /\ stored \in SUBSET Command

DeviceInit ==
  /\ inbox = [c \in Command |-> NoRow]
  /\ poster = AtRest
  /\ posted = {}

----------------------------------------------------------------------------
(* The inbox *)

\* The rowid SQLite gives to the next row: rows are never deleted.
NextRowid == Cardinality({c \in Command : Known(c)}) + 1

NewRow(result) ==
  [result |-> result, effects |-> IF result = "expired" THEN 0 ELSE 1,
   acked |-> FALSE, rowid |-> NextRowid]

\* Faulty: a command that comes again is judged by the clock again.
ReopenedAnew(row) == [row EXCEPT !.acked = FALSE, !.result = "expired", !.effects = 0]

\* A command that comes again has its receipt posted again.
Reopened(row) == [row EXCEPT !.acked = FALSE]

\* process: the broker delivers c, for the first time or once more.
Process(c) ==
  /\ \/ /\ ~Known(c)
        /\ \E result \in Answer : inbox' = [inbox EXCEPT ![c] = NewRow(result)]
     \/ /\ Known(c)
        /\ inbox' = [inbox EXCEPT ![c] = Reopened(@)]
  /\ UNCHANGED <<poster, posted, stored>>

----------------------------------------------------------------------------
(* The loop *)

Older(c, d) == inbox[c].rowid < inbox[d].rowid

\* The oldest Limit of some rows: SQLite reads the table by rowid.
Oldest(rows) == {c \in rows : Cardinality({d \in rows : Older(d, c)}) < Limit}

Open == {c \in Command : Known(c) /\ ~inbox[c].acked}

\* Faulty: a receipt that was sent once is not sent again.
PendingOnce == Oldest(Open \ posted)

\* pending: the oldest rows not acknowledged.
Pending == Oldest(Open)

\* for (const receipt of ...): the loop takes the oldest receipt of what is left
\* of its batch, or is done with it.
GoOn(batch) ==
  \/ batch = {} /\ poster' = AtRest
  \/ \E c \in batch :
       /\ \A d \in batch : ~Older(d, c)
       /\ poster' = [phase |-> "posting", receipt |-> c, batch |-> batch \ {c}]

Collect ==
  /\ poster.phase = "collecting"
  /\ Pending # {}
  /\ GoOn(Pending)
  /\ UNCHANGED <<inbox, posted, stored>>

\* The request for c is under way.
Waiting(c) == poster.phase = "waiting" /\ poster.receipt = c

\* fetch: from now on the request may reach the API, at any later time.
Post(c) ==
  /\ poster.phase = "posting" /\ poster.receipt = c
  /\ poster' = [poster EXCEPT !.phase = "waiting"]
  /\ posted' = posted \cup {c}
  /\ UNCHANGED <<inbox, stored>>

\* The API commits a receipt (once: later copies are duplicates).
Store(c) ==
  /\ c \in posted \ Refused
  /\ c \notin stored
  /\ stored' = stored \cup {c}
  /\ UNCHANGED deviceVars

\* Faulty: any answer is taken for an acknowledgment.
IsTakenAlways(c) == TRUE

\* response.ok: the API answers after its commit only.
IsTaken(c) == c \in stored

Answered(c) ==
  /\ Waiting(c)
  /\ IsTaken(c)
  /\ poster' = [poster EXCEPT !.phase = "answered"]
  /\ UNCHANGED <<inbox, posted, stored>>

\* The request times out, fails or is refused.
GiveUp(c) ==
  /\ Waiting(c)
  /\ GoOn(poster.batch)
  /\ UNCHANGED <<inbox, posted, stored>>

\* acknowledge
Acknowledge(c) ==
  /\ poster.phase = "answered" /\ poster.receipt = c
  /\ inbox' = [inbox EXCEPT ![c].acked = TRUE]
  /\ GoOn(poster.batch)
  /\ UNCHANGED <<posted, stored>>

\* The simulator stops, and starts again with its inbox.
Restart ==
  /\ poster.phase # "collecting"
  /\ poster' = AtRest
  /\ UNCHANGED <<inbox, posted, stored>>

Loop ==
  \/ Collect
  \/ \E c \in Command : Post(c) \/ Answered(c) \/ GiveUp(c) \/ Acknowledge(c)
  \/ Restart

----------------------------------------------------------------------------
(* The simulator on its own: the broker delivers what it likes *)

SimulatorInit == DeviceInit /\ stored = {}

SimulatorNext == Loop \/ \E c \in Command : Process(c) \/ Store(c)

\* The simulator is started again whenever it stops, and what the loop tries
\* over and over it gets done at last; a request that is repeated over and
\* over reaches the API at last, though any one of them may be lost.
LoopFairness ==
  /\ WF_simulatorVars(Collect)
  /\ \A c \in Command :
       /\ SF_simulatorVars(Post(c))
       /\ SF_simulatorVars(Answered(c))
       /\ SF_simulatorVars(Answered(c) \/ GiveUp(c))
       /\ SF_simulatorVars(Acknowledge(c))

SimulatorSpec == SimulatorInit /\ [][SimulatorNext]_simulatorVars

FairSimulatorSpec ==
  SimulatorSpec /\ LoopFairness
    /\ \A c \in Command : SF_simulatorVars(Waiting(c) /\ Store(c))

----------------------------------------------------------------------------

\* A receipt counts as acknowledged only when the API has committed it,
\* although requests are answered late, repeated and cut off, and the row may
\* be reopened by another delivery while its receipt is under way.
AcknowledgedIsStored == \A c \in Command : inbox[c].acked => c \in stored

\* The receipts the loop is going to post before it queries the inbox again.
InHand == IF poster.phase = "collecting" THEN {} ELSE {poster.receipt} \cup poster.batch

\* Receipts that are refused for ever keep their places at the head of the
\* inbox, and yet, as long as a batch has room for more than those, each batch
\* holds the oldest open receipt that is not refused.  (With as many of them as
\* a batch holds, nothing else is posted any more.)
OthersGetThrough ==
  [][Collect /\ Open \ Refused # {} =>
       \E c \in InHand' \ Refused : \A d \in Open \ Refused : ~Older(d, c)]_simulatorVars

\* Every receipt the API does not refuse reaches it in the end.
EveryReceiptIsStored == \A c \in Command \ Refused : Known(c) ~> c \in stored

\* Once the deliveries of a command are over, posting its receipt ends too.
\* (The rows of refused receipts stay open.)
PostingComesToRest ==
  \A c \in Command \ Refused :
    <>[][~Process(c)]_simulatorVars /\ <>Known(c) => <>[](inbox[c].acked)

=============================================================================
