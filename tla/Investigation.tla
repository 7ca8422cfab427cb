--------------------------- MODULE Investigation ---------------------------
(***************************************************************************)
(* Requests for an investigation (apps/api/app.ts, investigate in          *)
(* packages/investigation): a counter in every API process bounds how many *)
(* run at a time, and a count under an advisory lock per user bounds how   *)
(* many a user makes in an hour, over all processes.                       *)
(*                                                                         *)
(* Both now() and the default of created_at are the start of the           *)
(* transaction, which comes before the lock is had.                        *)
(***************************************************************************)
EXTENDS Integers, FiniteSets, Selection

CONSTANTS
  Request,     \* requests made in the behaviour, each of them once
  Api,         \* API processes
  User,
  at,          \* [Request -> Api]: the process a request reaches
  by,          \* [Request -> User]: who makes it
  evidence,    \* [Request -> Seq(Snapshot)]: all of the incident, the newest first
  choices,     \* [Request -> SUBSET Choice]: what the provider may answer
  MaxActive,   \* investigations a process runs at a time
  Quota,       \* investigations a user may request per hour
  Hour,
  Horizon      \* bound of the model: when the clock stops

ASSUME InvestigationAssumption ==
  /\ at \in [Request -> Api] /\ by \in [Request -> User]
  /\ MaxActive \in Nat \ {0} /\ Quota \in Nat \ {0}
  /\ Hour \in Nat \ {0} /\ Horizon \in Nat

\* What the program writes: the snapshots of an incident have different ids
\* (a primary key); the reconciler writes one, with the incident, and finds at
\* most two devices by their ids; those of the parent's transactions are many.
\* A choice is made of lists, as its schema requires.
ASSUME EvidenceAssumption ==
  \A r \in Request :
    /\ DOMAIN evidence[r] = 1..Len(evidence[r]) /\ Len(evidence[r]) \in Nat
    /\ \A i, j \in DOMAIN evidence[r] : evidence[r][i].id = evidence[r][j].id => i = j
    /\ \/ \A i \in DOMAIN evidence[r] : evidence[r][i].form \in {"unsupported", "parent"}
       \/ /\ Len(evidence[r]) = 1
          /\ evidence[r][1].form = "command" /\ DOMAIN evidence[r][1].devices \subseteq {1, 2}
    /\ \A choice \in choices[r] : DOMAIN choice.factIds = 1..Len(choice.factIds)
                                 /\ Len(choice.factIds) \in Nat

VARIABLES
  now,         \* the clock of the database
  active,      \* activeInvestigations of every process
  call,        \* how far every request is, and when its transaction began
  requested,   \* requests with an event 'investigation.requested', created_at
               \* the start of their transaction
  completed,   \* requests with an event 'investigation.completed'
  failed,      \* requests with an event 'investigation.failed'
  given        \* what a request is about to be answered

investigationVars == <<now, active, call, requested, completed, failed, given>>

NoAnswer == [facts |-> <<>>, hypotheses |-> <<>>, missing |-> <<>>]

\* What the provider of a request is shown.
context == [r \in Request |-> Context(evidence[r])]

\* begun: the transaction is open; locked: it has the advisory lock of the
\* user; counted: the count was below the quota; asking: it has committed and
\* the provider is asked; selected: the provider's answer is valid; failing: in
\* the catch, to be recorded as failed; leaving: about to be answered with an
\* error; lost: the process stopped.
Phase == {"new", "entered", "begun", "locked", "counted", "asking", "selected",
          "recorded", "failing", "leaving", "answered", "refused", "lost"}

InvestigationTypeOK ==
  /\ now \in 0..Horizon
  /\ active \in [Api -> 0..MaxActive]
  /\ call \in [Request -> [phase : Phase, start : Nat]]
  /\ requested \in SUBSET Request
  /\ completed \in SUBSET Request
  /\ failed \in SUBSET Request
  /\ \A r \in Request :
       given[r] # NoAnswer => call[r].phase \in {"selected", "recorded"}

InvestigationInit ==
  /\ now = 0
  /\ active = [p \in Api |-> 0]
  /\ call = [r \in Request |-> [phase |-> "new", start |-> 0]]
  /\ requested = {}
  /\ completed = {}
  /\ failed = {}
  /\ given = [r \in Request |-> NoAnswer]

----------------------------------------------------------------------------

Is(r, phase) == call[r].phase = phase

Goes(r, phase) == call' = [call EXCEPT ![r].phase = phase]

Step(r, from, to) ==
  Is(r, from) /\ Goes(r, to) /\ UNCHANGED <<now, active, requested, completed, failed, given>>

\* Between increment and decrement of the counter.
Inside(r) == call[r].phase \notin {"new", "answered", "refused", "lost"}

Busy(r) == active[at[r]] >= MaxActive

\* The check and the increment, with no await in between.
Enter(r) ==
  /\ Is(r, "new")
  /\ IF Busy(r)
       THEN Goes(r, "refused") /\ active' = active
       ELSE Goes(r, "entered") /\ active' = [active EXCEPT ![at[r]] = @ + 1]
  /\ UNCHANGED <<now, requested, completed, failed, given>>

Begin(r) ==
  /\ Is(r, "entered")
  /\ call' = [call EXCEPT ![r] = [phase |-> "begun", start |-> now]]
  /\ UNCHANGED <<now, active, requested, completed, failed, given>>

\* Faulty: the lock is of the process and not of the user.
LockedAtHome(r) ==
  \E q \in Request \ {r} : by[q] = by[r] /\ at[q] = at[r] /\ call[q].phase \in {"locked", "counted"}

\* Another transaction holds the advisory lock of the user.
Locked(r) ==
  \E q \in Request \ {r} : by[q] = by[r] /\ call[q].phase \in {"locked", "counted"}

Lock(r) == ~Locked(r) /\ Step(r, "begun", "locked")

\* What the count finds: created_at > now() - interval '1 hour'.
Usage(r) == {q \in requested : by[q] = by[r] /\ call[q].start > call[r].start - Hour}

Count(r) == Cardinality(Usage(r)) < Quota /\ Step(r, "locked", "counted")

\* The quota is reached, the incident is not the merchant's (404), or the
\* transaction fails: rolled back.
Refuse(r) ==
  \/ Cardinality(Usage(r)) >= Quota /\ Step(r, "locked", "leaving")
  \/ Step(r, "begun", "leaving")
  \/ Step(r, "locked", "leaving")
  \/ Step(r, "counted", "leaving")

\* The event is inserted, and committed with the snapshots read.
Reserve(r) ==
  /\ Is(r, "counted")
  /\ Goes(r, "asking")
  /\ requested' = requested \cup {r}
  /\ UNCHANGED <<now, active, completed, failed, given>>

\* The answer to COMMIT is lost: the event counts, yet nothing was reserved.
ReserveUnnoticed(r) ==
  /\ Is(r, "counted")
  /\ Goes(r, "leaving")
  /\ requested' = requested \cup {r}
  /\ UNCHANGED <<now, active, completed, failed, given>>

\* The provider answers, and what it says is rendered or refused.
Select(r, choice) ==
  /\ Is(r, "asking")
  /\ IF Supported(choice, context[r])
       THEN Goes(r, "selected") /\ given' = [given EXCEPT ![r] = Rendered(choice, context[r])]
       ELSE Goes(r, "failing") /\ given' = given
  /\ UNCHANGED <<now, active, requested, completed, failed>>

\* The provider cannot be asked, or what it says is not an answer.
ProviderThrows(r) == Step(r, "asking", "failing")

\* Faulty: nothing bounds the time of the provider.
TimeOutNever(r) == FALSE

\* The seven seconds are over.
TimeOut(r) == Step(r, "asking", "failing")

RecordCompleted(r) ==
  /\ Is(r, "selected")
  /\ Goes(r, "recorded")
  /\ completed' = completed \cup {r}
  /\ UNCHANGED <<now, active, requested, failed, given>>

\* Faulty: the error is ignored.
RecordThrowsAway(r) ==
  /\ Is(r, "selected")
  /\ Goes(r, "recorded")
  /\ UNCHANGED <<now, active, requested, completed, failed, given>>

\* The INSERT throws, done or not.
RecordThrows(r) ==
  /\ Is(r, "selected")
  /\ Goes(r, "failing")
  /\ completed' \in {completed, completed \cup {r}}
  /\ given' = [given EXCEPT ![r] = NoAnswer]
  /\ UNCHANGED <<now, active, requested, failed>>

\* The INSERT of the catch, which may throw as well.
RecordFailed(r) ==
  /\ Is(r, "failing")
  /\ Goes(r, "leaving")
  /\ failed' \in {failed, failed \cup {r}}
  /\ UNCHANGED <<now, active, requested, completed, given>>

\* Faulty: only an answer gives the slot back.
ReturnedIfAnswered(r) ==
  IF Is(r, "recorded") THEN [active EXCEPT ![at[r]] = @ - 1] ELSE active

\* finally
Returned(r) == [active EXCEPT ![at[r]] = @ - 1]

\* The response, and the decrement.
Leave(r) ==
  /\ \/ Is(r, "recorded") /\ Goes(r, "answered")
     \/ Is(r, "leaving") /\ Goes(r, "refused")
  /\ active' = Returned(r)
  /\ given' = [given EXCEPT ![r] = NoAnswer]
  /\ UNCHANGED <<now, requested, completed, failed>>

\* The process stops and is started again: its transactions are rolled back,
\* its counter begins anew.
Crash(p) ==
  /\ call' = [r \in Request |->
       IF at[r] = p /\ Inside(r) THEN [call[r] EXCEPT !.phase = "lost"] ELSE call[r]]
  /\ active' = [active EXCEPT ![p] = 0]
  /\ given' = [r \in Request |-> IF at[r] = p THEN NoAnswer ELSE given[r]]
  /\ UNCHANGED <<now, requested, completed, failed>>

Tick ==
  /\ now < Horizon
  /\ now' = now + 1
  /\ UNCHANGED <<active, call, requested, completed, failed, given>>

Proceed(r) ==
  \/ Begin(r) \/ Lock(r) \/ Count(r) \/ Refuse(r) \/ Reserve(r)
  \/ TimeOut(r) \/ RecordCompleted(r) \/ RecordFailed(r) \/ Leave(r)

InvestigationNext ==
  \/ \E r \in Request :
       \/ Enter(r) \/ Proceed(r) \/ ReserveUnnoticed(r)
       \/ ProviderThrows(r) \/ RecordThrows(r)
       \/ \E choice \in choices[r] : Select(r, choice)
  \/ \E p \in Api : Crash(p)
  \/ Tick

InvestigationSpec == InvestigationInit /\ [][InvestigationNext]_investigationVars

\* A request that was let in proceeds: statements end (statement_timeout), and
\* so does the wait for the provider.  The provider itself may never answer.
FairInvestigationSpec ==
  InvestigationSpec /\ \A r \in Request : WF_investigationVars(Proceed(r))

----------------------------------------------------------------------------

\* No user has more requests recorded in any hour than the quota allows,
\* although a transaction counts after it has waited for the lock and dates its
\* event and its window before it.
Within(u, time) ==
  {q \in requested : by[q] = u /\ call[q].start \in time + 1 .. time + Hour}

QuotaHolds ==
  \A u \in User : \A time \in -Hour..Horizon : Cardinality(Within(u, time)) <= Quota

\* The counter of a process counts the requests in it, whatever way they end.
SlotsAreCounted ==
  \A p \in Api : active[p] = Cardinality({r \in Request : at[r] = p /\ Inside(r)})

\* The provider is asked on a recorded request only, and what a user has been
\* given is recorded as completed.
EverythingIsAudited ==
  \A r \in Request :
    /\ call[r].phase \in {"asking", "selected", "recorded", "failing", "answered"}
         => r \in requested
    /\ Is(r, "answered") => r \in completed

\* Everything a snapshot observes, and does not tell, is told with the answer.
ToldOf(r, i) ==
  /\ \A f \in FactsOf(evidence[r][i]) : Item(evidence[r][i], f) \in Elements(given[r].facts)
  /\ \A f \in MissingOf(evidence[r][i]) : Notice(evidence[r][i], f) \in Elements(given[r].missing)

\* Whatever the provider leaves out or repeats, an observation or a notice is
\* missing only if its snapshot has MaxSnapshots newer ones, of each of which
\* everything is told; and no observation is given twice.  An incident of the
\* reconciler has one snapshot, so nothing of it is missing.  What is missing of
\* an older snapshot of the parent's is not mentioned.
NothingIsConcealed ==
  \A r \in Request : given[r] # NoAnswer =>
    /\ \A i \in DOMAIN evidence[r] :
         ToldOf(r, i) \/ Cardinality({j \in 1..(i - 1) : ToldOf(r, j)}) >= MaxSnapshots
    /\ \A p, q \in DOMAIN given[r].facts : given[r].facts[p] = given[r].facts[q] => p = q

\* Whatever the provider makes up, an operator is given observations of the
\* snapshots read only, and hypotheses only beside the observation they are
\* drawn from.
NothingIsInvented ==
  \A r \in Request : given[r] # NoAnswer =>
    /\ \A o \in Elements(given[r].facts) :
         \E i \in Read(evidence[r]) : \E f \in FactsOf(evidence[r][i]) : o = Item(evidence[r][i], f)
    /\ \A h \in Elements(given[r].hypotheses) : Grounds(h) \in Elements(given[r].facts)

\* An operator is given all there is in the MaxSnapshots newest snapshots of the
\* incident (in all of them, if there are no more), every observation once, and
\* nothing else, whatever the provider answers.
AnswersAreFaithful == NothingIsConcealed /\ NothingIsInvented

\* The slots of a process come free again, whatever the provider does.
SlotsComeFree == \A p \in Api : []<>(active[p] < MaxActive)

=============================================================================
