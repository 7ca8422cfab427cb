------------------------------- MODULE Store -------------------------------
(***************************************************************************)
(* The PostgreSQL rows that the API, the dispatch worker and the           *)
(* reconciler share: commands, outbox, delivery_attempts and the replay    *)
(* entries of audit_events, together with what happens to them without any *)
(* process of PayOps taking a step: time passes.                           *)
(*                                                                         *)
(* Every command has exactly one outbox row (command_id is UNIQUE), so     *)
(* both tables are indexed by the command.  Wall-clock columns are reduced *)
(* to the comparisons the code makes with them: a lease is live or not, a  *)
(* row is due or not, and the lifetime of a command has three stages,      *)
(* because the worker rounds what is left of it down to whole seconds.     *)
(***************************************************************************)
EXTENDS Naturals, Sequences, FiniteSets

CONSTANTS
  Command,       \* identifiers of commands (and of their outbox rows)
  MaxAttempts,   \* config.MAX_ATTEMPTS
  MaxReplays     \* bound of the model: operator replays per command

\* config.ts: MAX_ATTEMPTS is an integer >= 1.
ASSUME StoreAssumption == MaxAttempts \in Nat \ {0} /\ MaxReplays \in Nat

VARIABLES
  command,    \* commands: state, published_at and completed_at (set or NULL)
  outbox,     \* outbox: status, attempts, lease_token, lease_until, next_attempt_at
  delivery,   \* delivery_attempts of the row, oldest first: their outcomes
  replays,    \* audit_events with action 'announcement.replay'
  locked,     \* rows of commands locked by a transaction that is still open
  ttl,        \* stage of the lifetime of the command (commands.expires_at)
  sent        \* the MQTT client or the broker has held a packet with the command

storeVars == <<command, outbox, delivery, replays, locked, ttl, sent>>

----------------------------------------------------------------------------

\* commands.state; "none" before the row is inserted.
State == {"none", "pending", "published", "completed", "expired", "unknown"}

\* outbox.status; "none" before the row is inserted.
Status == {"none", "pending", "leased", "published", "exhausted", "permanent", "expired"}

\* The outcomes dispatch passes to finish.
Outcome == {"published", "retry", "permanent", "expired"}

\* delivery_attempts.outcome
AttemptOutcome == Outcome \cup {"claimed", "lease_expired"}

\* "closing" is the last second before expires_at: the worker's floor already
\* yields 0, while every comparison with expires_at still finds it ahead.
Stage == {"live", "closing", "over"}

CommandRow == [state : State, acked : BOOLEAN, done : BOOLEAN]

\* token = 0 is a NULL lease_token; any other token is the position, in
\* delivery_attempts, of the attempt that was inserted with it (randomUUID is
\* never drawn twice).  lease says lease_until > now().  due says that
\* next_attempt_at has passed and, for a published row, that it passed more
\* than ten seconds ago: what claim and the redelivery query wait for.
OutboxRow == [status : Status, attempts : 0..MaxAttempts, token : Nat,
              lease : BOOLEAN, due : BOOLEAN]

StoreTypeOK ==
  /\ command \in [Command -> CommandRow]
  /\ outbox \in [Command -> OutboxRow]
  /\ delivery \in [Command -> Seq(AttemptOutcome)]
  /\ replays \in [Command -> 0..MaxReplays]
  /\ locked \in SUBSET Command
  /\ ttl \in [Command -> Stage]
  /\ sent \in [Command -> BOOLEAN]

NoCommand == [state |-> "none", acked |-> FALSE, done |-> FALSE]

NoOutbox == [status |-> "none", attempts |-> 0, token |-> 0,
             lease |-> FALSE, due |-> FALSE]

StoreInit ==
  /\ command = [c \in Command |-> NoCommand]
  /\ outbox = [c \in Command |-> NoOutbox]
  /\ delivery = [c \in Command |-> <<>>]
  /\ replays = [c \in Command |-> 0]
  /\ locked = {}
  /\ ttl = [c \in Command |-> "live"]
  /\ sent = [c \in Command |-> FALSE]

----------------------------------------------------------------------------

\* The states the WHERE clauses of the verdict updates name.
Undecided == {"pending", "published"}

Accepted(c) == command[c].state # "none"

\* Faulty: a command that was published already keeps its state.
DecidedIfPending(row, verdict) ==
  IF row.state = "pending" THEN [row EXCEPT !.state = verdict] ELSE row

\* UPDATE commands SET state=verdict WHERE id=c AND state IN ('pending','published')
Decided(row, verdict) ==
  IF row.state \in Undecided THEN [row EXCEPT !.state = verdict] ELSE row

----------------------------------------------------------------------------
(* Time.  Each action is one comparison with the clock changing its answer. *)

\* lease_until passes.
LeaseLapses(c) ==
  /\ outbox[c].lease
  /\ outbox' = [outbox EXCEPT ![c].lease = FALSE]
  /\ UNCHANGED <<command, delivery, replays, locked, ttl, sent>>

\* next_attempt_at passes (and, for a published row, ten seconds more).
ComesDue(c) ==
  /\ outbox[c].status \in {"pending", "published"}
  /\ ~outbox[c].due
  /\ outbox' = [outbox EXCEPT ![c].due = TRUE]
  /\ UNCHANGED <<command, delivery, replays, locked, ttl, sent>>

\* The last second before expires_at begins, or expires_at passes.
Ages(c) ==
  /\ Accepted(c)
  /\ ttl[c] # "over"
  /\ ttl' = [ttl EXCEPT ![c] = IF @ = "live" THEN "closing" ELSE "over"]
  /\ UNCHANGED <<command, outbox, delivery, replays, locked, sent>>

Time(c) == LeaseLapses(c) \/ ComesDue(c) \/ Ages(c)

=============================================================================
