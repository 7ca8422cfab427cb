------------------------ MODULE InvestigationProofs ------------------------
(***************************************************************************)
(* The quota of investigations holds for any requests, users, processes,   *)
(* quota and hour, and whatever the clock does while a transaction waits   *)
(* for its lock.  The inductive invariant says that the lock excludes      *)
(* other requests of the user, and that a count made under it stays true   *)
(* until the event is inserted.                                            *)
(***************************************************************************)
EXTENDS Investigation, FiniteSetTheorems, WellFoundedInduction, TLAPS

\* What the argument needs of the types.
Shape ==
  /\ now \in Nat
  /\ call \in [Request -> [phase : Phase, start : Nat]]
  /\ requested \in SUBSET Request /\ IsFiniteSet(requested)
  /\ completed \in SUBSET Request

Holding == {"locked", "counted"}

\* The advisory lock excludes.
OneHolds ==
  \A q, r \in Request :
    by[q] = by[r] /\ call[q].phase \in Holding /\ call[r].phase \in Holding => q = r

\* What is recorded has been dated, for good.
RecordedIsDated ==
  \A r \in requested : call[r].phase \notin {"new", "entered", "begun", "locked", "counted"}

\* A count stays true while the lock is held.
CountStands == \A r \in Request : Is(r, "counted") => Cardinality(Usage(r)) < Quota

\* The quota, at any time at all.
QuotaAlways == \A u \in User : \A time \in Int : Cardinality(Within(u, time)) <= Quota

QuotaInv == Shape /\ OneHolds /\ RecordedIsDated /\ CountStands /\ QuotaAlways

LEMMA QuotaInit == InvestigationInit => QuotaInv
<1> SUFFICES ASSUME InvestigationInit PROVE QuotaInv
  OBVIOUS
<1>1. Shape
  BY FS_EmptySet DEF InvestigationInit, Shape, Phase
<1>2. OneHolds /\ RecordedIsDated /\ CountStands
  BY DEF InvestigationInit, OneHolds, RecordedIsDated, CountStands, Holding, Is
<1>3. QuotaAlways
  <2>1. \A u \in User, time \in Int : Within(u, time) = {}
    BY DEF InvestigationInit, Within
  <2> QED
    BY <2>1, FS_EmptySet, InvestigationAssumption DEF QuotaAlways
<1> QED
  BY <1>1, <1>2, <1>3 DEF QuotaInv

\* Steps that record no event, and date none that is recorded: the sets the
\* counts are made of stay the same.
LEMMA QuotaKept ==
  ASSUME QuotaInv, Shape', requested' = requested,
         \A q \in Request : call'[q].start = call[q].start \/ Is(q, "entered"),
         \A r \in Request : (call[r].phase = "counted")' =>
            call'[r].start = call[r].start /\ (Is(r, "counted") \/ Cardinality(Usage(r)) < Quota)
  PROVE  CountStands' /\ QuotaAlways'
<1>1. \A q \in requested : call'[q].start = call[q].start
  BY DEF QuotaInv, RecordedIsDated, Is, Shape
<1>2. CountStands'
  <2> SUFFICES ASSUME NEW r \in Request, Is(r, "counted")' PROVE Cardinality(Usage(r)') < Quota
    BY DEF CountStands
  <2>1. Cardinality(Usage(r)) < Quota /\ call'[r].start = call[r].start
    BY DEF QuotaInv, CountStands, Is
  <2>2. Usage(r)' = Usage(r)
    BY <1>1, <2>1 DEF Usage
  <2> QED
    BY <2>1, <2>2
<1>3. QuotaAlways'
  <2>1. \A u \in User, time \in Int : Within(u, time)' = Within(u, time)
    BY <1>1 DEF Within
  <2> QED
    BY <2>1 DEF QuotaInv, QuotaAlways
<1> QED
  BY <1>2, <1>3

\* A set with one element more.
LEMMA OneMore ==
  ASSUME NEW S, NEW x, NEW n \in Nat, IsFiniteSet(S), Cardinality(S) < n
  PROVE  Cardinality(S \cup {x}) <= n
<1>1. Cardinality(S) \in Nat
  BY FS_CardinalityType
<1>2. CASE x \in S
  <2>1. S \cup {x} = S
    BY <1>2
  <2> QED
    BY <1>1, <2>1
<1>3. CASE x \notin S
  <2>1. Cardinality(S \cup {x}) = Cardinality(S) + 1
    BY <1>3, FS_AddElement
  <2> QED
    BY <1>1, <2>1
<1> QED
  BY <1>2, <1>3

\* The step that records an event.  Whatever hour the event falls in, the
\* others in that hour are among the ones that were counted.
LEMMA QuotaSpent ==
  ASSUME QuotaInv, Shape', OneHolds', NEW r \in Request, Is(r, "counted"),
         requested' = requested \cup {r},
         NEW phase \in Phase, phase \notin {"new", "entered", "begun", "locked", "counted"},
         Goes(r, phase)
  PROVE  RecordedIsDated' /\ CountStands' /\ QuotaAlways'
<1> USE DEF QuotaInv
<1>1. /\ \A q \in Request : call'[q].start = call[q].start
      /\ \A q \in Request : call'[q].phase = IF q = r THEN phase ELSE call[q].phase
  BY DEF Goes, Shape
<1>2. RecordedIsDated'
  BY <1>1 DEF RecordedIsDated, Shape
<1>3. CountStands'
  <2> SUFFICES ASSUME NEW q \in Request, Is(q, "counted")' PROVE Cardinality(Usage(q)') < Quota
    BY DEF CountStands
  <2>1. q # r /\ Is(q, "counted")
    BY <1>1 DEF Is
  <2>2. by[q] # by[r]
    BY <2>1 DEF OneHolds, Holding, Is
  <2>3. Usage(q)' = Usage(q)
    BY <1>1, <2>2 DEF Usage, Shape
  <2> QED
    BY <2>1, <2>3 DEF CountStands
<1>4. QuotaAlways'
  <2> SUFFICES ASSUME NEW u \in User, NEW time \in Int
               PROVE  Cardinality(Within(u, time)') <= Quota
    BY DEF QuotaAlways
  <2>1. CASE by[r] = u /\ call[r].start \in time + 1 .. time + Hour
    <3>1. Within(u, time)' = Within(u, time) \cup {r}
      BY <1>1, <2>1 DEF Within, Shape
    <3>2. Within(u, time) \subseteq Usage(r)
      BY <2>1, InvestigationAssumption DEF Within, Usage, Shape
    <3>3. IsFiniteSet(Usage(r)) /\ IsFiniteSet(Within(u, time))
      BY FS_Subset DEF Shape, Usage, Within
    <3>4. Cardinality(Within(u, time)) <= Cardinality(Usage(r))
      BY <3>2, <3>3, FS_Subset
    <3>5. Cardinality(Usage(r)) < Quota
      BY DEF CountStands
    <3>6. Cardinality(Within(u, time)) \in Nat /\ Cardinality(Usage(r)) \in Nat
      BY <3>3, FS_CardinalityType
    <3>7. Quota \in Nat
      BY InvestigationAssumption
    <3>8. Cardinality(Within(u, time)) < Quota
      <4> HIDE DEF QuotaInv
      <4> QED
        BY <3>4, <3>5, <3>6, <3>7
    <3> QED
      BY <3>1, <3>3, <3>7, <3>8, OneMore
  <2>2. CASE ~(by[r] = u /\ call[r].start \in time + 1 .. time + Hour)
    <3>1. Within(u, time)' = Within(u, time)
      BY <1>1, <2>2 DEF Within, Shape
    <3> QED
      BY <3>1 DEF QuotaAlways
  <2> QED
    BY <2>1, <2>2
<1> QED
  BY <1>2, <1>3, <1>4

LEMMA QuotaStep == QuotaInv /\ [InvestigationNext]_investigationVars => QuotaInv'
<1> SUFFICES ASSUME QuotaInv, [InvestigationNext]_investigationVars PROVE QuotaInv'
  OBVIOUS
<1> USE DEF QuotaInv
<1>1. Shape'
  <2>1. now' \in Nat
    BY DEF InvestigationNext, investigationVars, Proceed, Enter, Begin, Lock, Count, Refuse, Reserve,
           ReserveUnnoticed, Select, ProviderThrows, TimeOut, RecordCompleted, RecordThrows, RecordFailed, Leave,
           Crash, Tick, Step, Shape
  <2>2. call' \in [Request -> [phase : Phase, start : Nat]]
    BY DEF InvestigationNext, investigationVars, Proceed, Enter, Begin, Lock, Count, Refuse, Reserve,
           ReserveUnnoticed, Select, ProviderThrows, TimeOut, RecordCompleted, RecordThrows, RecordFailed, Leave,
           Crash, Tick, Step, Goes, Shape, Phase
  <2>3. requested' = requested \/ \E r \in Request : requested' = requested \cup {r}
    BY DEF InvestigationNext, investigationVars, Proceed, Enter, Begin, Lock, Count, Refuse, Reserve,
           ReserveUnnoticed, Select, ProviderThrows, TimeOut, RecordCompleted, RecordThrows, RecordFailed, Leave,
           Crash, Tick, Step
  <2>4. completed' = completed \/ \E r \in Request : completed' = completed \cup {r}
    BY DEF InvestigationNext, investigationVars, Proceed, Enter, Begin, Lock, Count, Refuse, Reserve,
           ReserveUnnoticed, Select, ProviderThrows, TimeOut, RecordCompleted, RecordThrows, RecordFailed, Leave,
           Crash, Tick, Step
  <2> QED
    BY <2>1, <2>2, <2>3, <2>4, FS_AddElement DEF Shape
<1>2. ASSUME NEW r \in Request, Lock(r) PROVE QuotaInv'
  <2>1. /\ Is(r, "begun") /\ ~Locked(r) /\ requested' = requested
        /\ \A q \in Request : call'[q] = IF q = r THEN [call[q] EXCEPT !.phase = "locked"] ELSE call[q]
    BY <1>2 DEF Lock, Step, Goes, Shape
  <2>2. OneHolds'
    BY <2>1, <1>1 DEF OneHolds, Holding, Locked, Shape
  <2>3. RecordedIsDated'
    BY <2>1 DEF RecordedIsDated, Is, Shape
  <2>4. CountStands' /\ QuotaAlways'
    BY <1>1, <2>1, QuotaKept DEF Is, Shape
  <2> QED
    BY <1>1, <2>2, <2>3, <2>4
<1>3. ASSUME NEW r \in Request, Count(r) PROVE QuotaInv'
  <2>1. /\ Is(r, "locked") /\ Cardinality(Usage(r)) < Quota /\ requested' = requested
        /\ \A q \in Request : call'[q] = IF q = r THEN [call[q] EXCEPT !.phase = "counted"] ELSE call[q]
    BY <1>3 DEF Count, Step, Goes, Shape
  <2>2. OneHolds'
    BY <2>1 DEF OneHolds, Holding, Is, Shape
  <2>3. RecordedIsDated'
    BY <2>1 DEF RecordedIsDated, Is, Shape
  <2>4. CountStands' /\ QuotaAlways'
    BY <1>1, <2>1, QuotaKept DEF Is, Shape
  <2> QED
    BY <1>1, <2>2, <2>3, <2>4
<1>4. ASSUME NEW r \in Request, Reserve(r) \/ ReserveUnnoticed(r) PROVE QuotaInv'
  <2>1. PICK phase \in {"asking", "leaving"} :
          Is(r, "counted") /\ Goes(r, phase) /\ requested' = requested \cup {r}
    BY <1>4 DEF Reserve, ReserveUnnoticed
  <2>2. OneHolds'
    BY <2>1 DEF OneHolds, Holding, Goes, Shape
  <2>3. RecordedIsDated' /\ CountStands' /\ QuotaAlways'
    BY <1>1, <2>1, <2>2, QuotaSpent DEF Phase
  <2> QED
    BY <1>1, <2>2, <2>3
<1>5. ASSUME \* no other step locks, counts or records
        requested' = requested,
        \A q \in Request : \/ call'[q] = call[q]
                           \/ Is(q, "entered") /\ call'[q].phase = "begun"
                           \/ /\ call'[q].start = call[q].start
                              /\ call'[q].phase \notin {"new", "begun"} \cup Holding
                              /\ call'[q].phase # "entered" \/ Is(q, "new")
      PROVE  QuotaInv'
  <2>1. OneHolds'
    BY <1>5 DEF OneHolds, Holding
  <2>2. RecordedIsDated'
    BY <1>5 DEF RecordedIsDated, Holding, Is, Shape
  <2>3. CountStands' /\ QuotaAlways'
    BY <1>1, <1>5, QuotaKept DEF Holding, Is
  <2> QED
    BY <1>1, <2>1, <2>2, <2>3
<1>6. ASSUME NEW r \in Request, Enter(r) \/ Begin(r) PROVE QuotaInv'
  BY <1>5, <1>6 DEF Enter, Begin, Goes, Is, Holding, Shape
<1>7. ASSUME NEW r \in Request,
             \/ Refuse(r) \/ (\E choice \in choices[r] : Select(r, choice)) \/ ProviderThrows(r)
             \/ TimeOut(r) \/ RecordCompleted(r)
             \/ RecordThrows(r) \/ RecordFailed(r) \/ Leave(r)
      PROVE  QuotaInv'
  <2>1. requested' = requested
    BY <1>7 DEF Refuse, Select, ProviderThrows, TimeOut, RecordCompleted, RecordThrows, RecordFailed,
           Leave, Step
  <2>2. PICK phase \in {"leaving", "selected", "failing", "recorded", "answered", "refused"} : Goes(r, phase)
    BY <1>7 DEF Refuse, Select, ProviderThrows, TimeOut, RecordCompleted, RecordThrows, RecordFailed,
           Leave, Step
  <2> QED
    BY <1>5, <2>1, <2>2 DEF Goes, Holding, Shape
<1>8. ASSUME NEW p \in Api, Crash(p) PROVE QuotaInv'
  BY <1>5, <1>8 DEF Crash, Holding, Shape
<1>9. CASE Tick \/ UNCHANGED investigationVars
  BY <1>5, <1>9 DEF Tick, investigationVars
<1> QED
  BY <1>2, <1>3, <1>4, <1>6, <1>7, <1>8, <1>9 DEF InvestigationNext, Proceed

\* At most Quota investigations per user and hour, over all API processes.
THEOREM QuotaIsKept == InvestigationSpec => []QuotaHolds
<1>1. QuotaInv => QuotaHolds
  BY InvestigationAssumption DEF QuotaInv, QuotaAlways, QuotaHolds
<1> QED
  BY <1>1, QuotaInit, QuotaStep, PTL DEF InvestigationSpec

----------------------------------------------------------------------------

AuditInv ==
  /\ now \in Nat
  /\ call \in [Request -> [phase : Phase, start : Nat]]
  /\ EverythingIsAudited
  /\ \A r \in Request : Is(r, "recorded") => r \in completed

\* The provider is asked on a recorded request only, and what a user is given is
\* recorded as completed, whatever fails in between.
THEOREM RequestsAreAudited == InvestigationSpec => []EverythingIsAudited
<1>1. InvestigationInit => AuditInv
  BY DEF InvestigationInit, AuditInv, EverythingIsAudited, Is, Phase
<1>2. AuditInv /\ [InvestigationNext]_investigationVars => AuditInv'
  <2> SUFFICES ASSUME AuditInv, [InvestigationNext]_investigationVars PROVE AuditInv'
    OBVIOUS
  <2> USE DEF AuditInv, EverythingIsAudited, Is
  <2>1. CASE UNCHANGED investigationVars \/ Tick
    BY <2>1 DEF investigationVars, Tick
  <2>2. ASSUME NEW r \in Request, Enter(r) \/ Begin(r) \/ Lock(r) \/ Count(r) \/ Refuse(r)
        PROVE  AuditInv'
    <3>1. CASE Enter(r)
      BY <3>1 DEF Enter, Goes, Phase
    <3>2. CASE Begin(r)
      BY <3>2 DEF Begin, Phase
    <3>3. CASE Lock(r) \/ Count(r) \/ Refuse(r)
      BY <3>3 DEF Lock, Count, Refuse, Step, Goes, Phase
    <3> QED
      BY <2>2, <3>1, <3>2, <3>3
  <2>3. ASSUME NEW r \in Request, Reserve(r) \/ ReserveUnnoticed(r) PROVE AuditInv'
    BY <2>3 DEF Reserve, ReserveUnnoticed, Goes, Phase
  <2>4. ASSUME NEW r \in Request, NEW choice, Select(r, choice) PROVE AuditInv'
    BY <2>4 DEF Select, Goes, Phase
  <2>5. ASSUME NEW r \in Request, ProviderThrows(r) \/ TimeOut(r) \/ RecordFailed(r) PROVE AuditInv'
    BY <2>5 DEF ProviderThrows, TimeOut, RecordFailed, Step, Goes, Phase
  <2>6. ASSUME NEW r \in Request, RecordCompleted(r) \/ RecordThrows(r) PROVE AuditInv'
    BY <2>6 DEF RecordCompleted, RecordThrows, Goes, Phase
  <2>7. ASSUME NEW r \in Request, Leave(r) PROVE AuditInv'
    BY <2>7 DEF Leave, Goes, Phase
  <2>8. ASSUME NEW p \in Api, Crash(p) PROVE AuditInv'
    BY <2>8 DEF Crash, Phase
  <2> QED
    BY <2>1, <2>2, <2>3, <2>4, <2>5, <2>6, <2>7, <2>8 DEF InvestigationNext, Proceed
<1> QED
  BY <1>1, <1>2, PTL DEF InvestigationSpec, AuditInv


----------------------------------------------------------------------------
(* Slots *)

\* The requests inside a process.
Here(p) == {r \in Request : at[r] = p /\ Inside(r)}

SlotsInv ==
  /\ now \in Nat
  /\ call \in [Request -> [phase : Phase, start : Nat]]
  /\ active \in [Api -> Int]
  /\ \A p \in Api : IsFiniteSet(Here(p)) /\ active[p] = Cardinality(Here(p))

\* Steps in which no request enters or leaves.
LEMMA SlotsKept ==
  ASSUME SlotsInv, now' \in Nat, call' \in [Request -> [phase : Phase, start : Nat]],
         active' = active, \A r \in Request : Inside(r)' <=> Inside(r)
  PROVE  SlotsInv'
<1>1. \A p \in Api : Here(p)' = Here(p)
  BY DEF Here
<1> QED
  BY <1>1 DEF SlotsInv

\* A request goes on inside its process.
LEMMA SlotsStep ==
  ASSUME SlotsInv, UNCHANGED <<now, active>>, NEW r \in Request, NEW phase \in Phase,
         Goes(r, phase),
         Inside(r) <=> phase \notin {"new", "answered", "refused", "lost"}
  PROVE  SlotsInv'
<1>1. call' \in [Request -> [phase : Phase, start : Nat]]
  BY DEF Goes, SlotsInv
<1>2. \A q \in Request : Inside(q)' <=> Inside(q)
  BY DEF Goes, SlotsInv, Inside
<1> QED
  BY <1>1, <1>2, SlotsKept DEF SlotsInv

LEMMA SlotsInit == InvestigationInit => SlotsInv
<1> SUFFICES ASSUME InvestigationInit PROVE SlotsInv
  OBVIOUS
<1>1. \A p \in Api : Here(p) = {}
  BY DEF InvestigationInit, Here, Inside
<1> QED
  BY <1>1, FS_EmptySet DEF InvestigationInit, SlotsInv, Phase

LEMMA SlotsNext == SlotsInv /\ [InvestigationNext]_investigationVars => SlotsInv'
<1> SUFFICES ASSUME SlotsInv, [InvestigationNext]_investigationVars PROVE SlotsInv'
  OBVIOUS
<1>1. CASE UNCHANGED investigationVars \/ Tick
  BY <1>1, SlotsKept DEF investigationVars, Tick, SlotsInv, Inside
<1>2. ASSUME NEW r \in Request, Enter(r) PROVE SlotsInv'
  <2>1. CASE Busy(r)
    BY <1>2, <2>1, SlotsStep DEF Enter, Is, Inside, Phase
  <2>2. CASE ~Busy(r)
    <3>1. /\ Goes(r, "entered") /\ active' = [active EXCEPT ![at[r]] = @ + 1] /\ now' = now
          /\ ~Inside(r) /\ at[r] \in Api
      BY <1>2, <2>2, InvestigationAssumption DEF Enter, Is, Inside
    <3>2. call' \in [Request -> [phase : Phase, start : Nat]] /\ active' \in [Api -> Int]
      BY <3>1 DEF Goes, SlotsInv, Phase
    <3>3. \A q \in Request : Inside(q)' <=> Inside(q) \/ q = r
      BY <3>1 DEF Goes, SlotsInv, Inside
    <3>4. \A p \in Api \ {at[r]} : Here(p)' = Here(p)
      BY <3>3 DEF Here
    <3>5. Here(at[r])' = Here(at[r]) \cup {r} /\ r \notin Here(at[r])
      BY <3>1, <3>3 DEF Here
    <3>6. IsFiniteSet(Here(at[r])') /\ Cardinality(Here(at[r])') = Cardinality(Here(at[r])) + 1
      BY <3>1, <3>5, FS_AddElement DEF SlotsInv
    <3> QED
      BY <3>1, <3>2, <3>4, <3>6 DEF SlotsInv
  <2> QED
    BY <2>1, <2>2
<1>3. ASSUME NEW r \in Request, Begin(r) PROVE SlotsInv'
  BY <1>3, SlotsKept DEF Begin, Is, Inside, SlotsInv, Phase
<1>4. ASSUME NEW r \in Request, NEW choice,
             \/ Lock(r) \/ Count(r) \/ Refuse(r) \/ Reserve(r) \/ ReserveUnnoticed(r)
             \/ Select(r, choice) \/ ProviderThrows(r) \/ TimeOut(r)
             \/ RecordCompleted(r) \/ RecordThrows(r) \/ RecordFailed(r)
      PROVE  SlotsInv'
  <2>1. now' = now /\ active' = active /\ Inside(r)
    BY <1>4 DEF Lock, Count, Refuse, Reserve, ReserveUnnoticed, Select, ProviderThrows, TimeOut,
           RecordCompleted, RecordThrows, RecordFailed, Step, Is, Inside
  <2>2. PICK phase \in {"locked", "counted", "leaving", "asking", "selected", "failing", "recorded"} :
          Goes(r, phase)
    BY <1>4 DEF Lock, Count, Refuse, Reserve, ReserveUnnoticed, Select, ProviderThrows, TimeOut,
           RecordCompleted, RecordThrows, RecordFailed, Step
  <2> QED
    BY <2>1, <2>2, SlotsStep DEF Phase
<1>5. ASSUME NEW r \in Request, Leave(r) PROVE SlotsInv'
  <2>1. PICK phase \in {"answered", "refused"} : Goes(r, phase)
    BY <1>5 DEF Leave
  <2>2. active' = [active EXCEPT ![at[r]] = @ - 1] /\ now' = now /\ Inside(r) /\ at[r] \in Api
    BY <1>5, InvestigationAssumption DEF Leave, Returned, Is, Inside
  <2>3. call' \in [Request -> [phase : Phase, start : Nat]] /\ active' \in [Api -> Int]
    BY <2>1, <2>2 DEF Goes, SlotsInv, Phase
  <2>4. \A q \in Request : Inside(q)' <=> Inside(q) /\ q # r
    BY <2>1 DEF Goes, SlotsInv, Inside
  <2>5. \A p \in Api \ {at[r]} : Here(p)' = Here(p)
    BY <2>4 DEF Here
  <2>6. Here(at[r])' = Here(at[r]) \ {r} /\ r \in Here(at[r])
    BY <2>2, <2>4 DEF Here
  <2>7. IsFiniteSet(Here(at[r])') /\ Cardinality(Here(at[r])') = Cardinality(Here(at[r])) - 1
    BY <2>2, <2>6, FS_RemoveElement DEF SlotsInv
  <2> QED
    BY <2>2, <2>3, <2>5, <2>7 DEF SlotsInv
<1>6. ASSUME NEW p \in Api, Crash(p) PROVE SlotsInv'
  <2>1. call' \in [Request -> [phase : Phase, start : Nat]] /\ active' \in [Api -> Int] /\ now' = now
    BY <1>6 DEF Crash, SlotsInv, Phase
  <2>2. \A q \in Request : Inside(q)' <=> Inside(q) /\ at[q] # p
    BY <1>6 DEF Crash, SlotsInv, Inside
  <2>3. Here(p)' = {} /\ \A o \in Api \ {p} : Here(o)' = Here(o)
    BY <2>2 DEF Here
  <2> QED
    BY <1>6, <2>1, <2>3, FS_EmptySet DEF Crash, SlotsInv
<1> QED
  BY <1>1, <1>2, <1>3, <1>4, <1>5, <1>6 DEF InvestigationNext, Proceed

\* The counter of a process counts the requests in it: none takes a slot twice,
\* and each gives it back, by an answer, an error or the end of its process.
THEOREM SlotsAreExact == InvestigationSpec => []SlotsAreCounted
<1>1. SlotsInv => SlotsAreCounted
  BY DEF SlotsInv, SlotsAreCounted, Here
<1> QED
  BY <1>1, SlotsInit, SlotsNext, PTL DEF InvestigationSpec

\* No process runs more than it may, and an answer is there only while it is
\* recorded and sent.
THEOREM InvestigationIsTyped == InvestigationSpec => []InvestigationTypeOK
<1> DEFINE Types == SlotsInv /\ InvestigationTypeOK /\ DOMAIN given = Request
<1>1. InvestigationInit => Types
  BY SlotsInit, InvestigationAssumption DEF InvestigationInit, InvestigationTypeOK, Phase
<1>2. Types /\ [InvestigationNext]_investigationVars => Types'
  <2> SUFFICES ASSUME Types, [InvestigationNext]_investigationVars
               PROVE  InvestigationTypeOK' /\ DOMAIN given' = Request
    BY SlotsNext
  <2> DEFINE Good == InvestigationTypeOK' /\ DOMAIN given' = Request
  <2> USE InvestigationAssumption
  <2>1. CASE UNCHANGED investigationVars \/ Tick
    BY <2>1 DEF investigationVars, Tick, InvestigationTypeOK
  <2>2. ASSUME NEW r \in Request, NEW phase \in Phase, Goes(r, phase), now' = now,
               active' \in [Api -> 0..MaxActive], requested' \in SUBSET Request,
               completed' \in SUBSET Request, failed' \in SUBSET Request,
               DOMAIN given' = Request, \A q \in Request \ {r} : given'[q] = given[q],
               given'[r] # NoAnswer => phase \in {"selected", "recorded"}
        PROVE  Good
    <3>1. call' \in [Request -> [phase : Phase, start : Nat]]
      BY <2>2 DEF Goes, InvestigationTypeOK
    <3>2. \A q \in Request : call'[q].phase = IF q = r THEN phase ELSE call[q].phase
      BY <2>2 DEF Goes, InvestigationTypeOK
    <3> QED
      BY <2>2, <3>1, <3>2 DEF InvestigationTypeOK
  <2>3. ASSUME NEW r \in Request, Enter(r) PROVE Good
    <3>1. active' \in [Api -> 0..MaxActive]
      BY <2>3 DEF Enter, Busy, InvestigationTypeOK
    <3>2. given' = given /\ given[r] = NoAnswer /\ \E phase \in {"refused", "entered"} : Goes(r, phase)
      BY <2>3 DEF Enter, Is, InvestigationTypeOK
    <3> QED
      BY <2>2, <2>3, <3>1, <3>2 DEF Enter, InvestigationTypeOK, Phase
  <2>4. ASSUME NEW r \in Request, Begin(r) PROVE Good
    <3>1. given[r] = NoAnswer /\ now \in Nat
      BY <2>4 DEF Begin, Is, InvestigationTypeOK
    <3>2. call' \in [Request -> [phase : Phase, start : Nat]]
      BY <2>4, <3>1 DEF Begin, InvestigationTypeOK, Phase
    <3>3. \A q \in Request : q = r \/ call'[q] = call[q]
      BY <2>4 DEF Begin, InvestigationTypeOK
    <3> QED
      BY <2>4, <3>1, <3>2, <3>3 DEF Begin, InvestigationTypeOK
  <2>5. ASSUME NEW r \in Request,
               \/ Lock(r) \/ Count(r) \/ Refuse(r) \/ ProviderThrows(r) \/ TimeOut(r)
               \/ Reserve(r) \/ ReserveUnnoticed(r) \/ RecordFailed(r)
        PROVE  Good
    <3>1. UNCHANGED <<now, active, completed, given>> /\ requested' \in {requested, requested \cup {r}}
          /\ failed' \in {failed, failed \cup {r}}
      BY <2>5 DEF Lock, Count, Refuse, ProviderThrows, TimeOut, Step, Reserve, ReserveUnnoticed, RecordFailed
    <3>2. PICK phase \in {"locked", "counted", "leaving", "failing", "asking"} : Goes(r, phase)
      BY <2>5 DEF Lock, Count, Refuse, ProviderThrows, TimeOut, Step, Reserve, ReserveUnnoticed, RecordFailed
    <3>3. given[r] = NoAnswer
      BY <2>5 DEF Lock, Count, Refuse, ProviderThrows, TimeOut, Step, Reserve, ReserveUnnoticed, RecordFailed,
             Is, InvestigationTypeOK
    <3> QED
      BY <2>2, <3>1, <3>2, <3>3 DEF InvestigationTypeOK, Phase
  <2>6. ASSUME NEW r \in Request, NEW choice, Select(r, choice) PROVE Good
    <3>1. CASE Supported(choice, context[r])
      BY <2>2, <2>6, <3>1 DEF Select, InvestigationTypeOK, Phase
    <3>2. CASE ~Supported(choice, context[r])
      <4>1. given[r] = NoAnswer
        BY <2>6 DEF Select, Is, InvestigationTypeOK
      <4> QED
        BY <2>2, <2>6, <3>2, <4>1 DEF Select, InvestigationTypeOK, Phase
    <3> QED
      BY <3>1, <3>2
  <2>7. ASSUME NEW r \in Request, RecordCompleted(r) PROVE Good
    BY <2>2, <2>7 DEF RecordCompleted, InvestigationTypeOK, Phase
  <2>8. ASSUME NEW r \in Request, RecordThrows(r) PROVE Good
    BY <2>2, <2>8 DEF RecordThrows, InvestigationTypeOK, Phase
  <2>9. ASSUME NEW r \in Request, Leave(r) PROVE Good
    <3>1. at[r] \in Api /\ r \in Here(at[r])
      BY <2>9 DEF Leave, Is, Here, Inside
    <3>2. active[at[r]] \in Nat \ {0}
      BY <3>1, FS_EmptySet, FS_CardinalityType DEF SlotsInv
    <3>3. active' \in [Api -> 0..MaxActive]
      <4>1. active' = [active EXCEPT ![at[r]] = @ - 1] /\ active \in [Api -> 0..MaxActive]
        BY <2>9 DEF Leave, Returned, InvestigationTypeOK
      <4>2. active[at[r]] - 1 \in 0..MaxActive
        BY <3>1, <3>2, <4>1
      <4> QED
        BY <4>1, <4>2
    <3> QED
      BY <2>2, <2>9, <3>3 DEF Leave, InvestigationTypeOK, Phase
  <2>10. ASSUME NEW p \in Api, Crash(p) PROVE Good
    <3>1. call' \in [Request -> [phase : Phase, start : Nat]]
      BY <2>10 DEF Crash, InvestigationTypeOK, Phase
    <3>2. \A q \in Request : given'[q] # NoAnswer => call'[q] = call[q] /\ given'[q] = given[q]
      BY <2>10 DEF Crash
    <3>3. active' \in [Api -> 0..MaxActive] /\ DOMAIN given' = Request
      BY <2>10 DEF Crash, InvestigationTypeOK
    <3>4. UNCHANGED <<now, requested, completed, failed>>
      BY <2>10 DEF Crash
    <3> QED
      BY <3>1, <3>2, <3>3, <3>4 DEF InvestigationTypeOK
  <2> QED
    BY <2>1, <2>3, <2>4, <2>5, <2>6, <2>7, <2>8, <2>9, <2>10 DEF InvestigationNext, Proceed
<1> QED
  BY <1>1, <1>2, PTL DEF InvestigationSpec

----------------------------------------------------------------------------
\* Answers: nothing an incident of this program has falls to a limit, an
\* identifier of a choice comes for a first time, and what is given is a
\* supported choice, rendered.

Less == {p \in Nat \X Nat : p[1] < p[2]}

LEMMA LessIsWellFounded == IsWellFoundedOn(Less, Nat)
<1>1. OpToRel(<, Nat) = Less
  BY Zenon DEF OpToRel, Less
<1> QED
  BY <1>1, NatLessThanWellFounded, Zenon

\* A set of numbers has a first one.
LEMMA FirstExists ==
  ASSUME NEW T \in SUBSET Nat, NEW n \in T
  PROVE  \E m \in T : \A k \in T : m <= k
<1>1. PICK m \in T : \A k \in T : ~ (<<k, m>> \in Less)
  BY WFMin, LessIsWellFounded
<1>2. \A k \in Nat : k < m => <<k, m>> \in Less
  BY DEF Less
<1>3. m \in Nat /\ \A k \in T : k \in Nat /\ ~ (k < m)
  BY <1>1, <1>2
<1>4. \A k \in T : m <= k
  BY <1>3
<1> QED
  BY <1>4

\* Sets whose elements can be listed are finite, and no larger than the list.
LEMMA Listed ==
  ASSUME NEW S, NEW n \in Nat, NEW list, \A x \in S : \E i \in 1..n : list[i] = x
  PROVE  IsFiniteSet(S) /\ Cardinality(S) <= n
<1>1. CASE S = {}
  BY <1>1, FS_EmptySet
<1>2. CASE S # {}
  <2>1. PICK some \in S : TRUE
    BY <1>2
  <2> DEFINE f == [i \in 1..n |-> IF list[i] \in S THEN list[i] ELSE some]
  <2>2. f \in Surjection(1..n, S)
    BY <2>1 DEF Surjection
  <2>3. IsFiniteSet(1..n)
    BY FS_Interval
  <2> QED
    BY <2>2, <2>3, FS_Surjection, FS_SurjCardinalityBound DEF ExistsSurjection
<1> QED
  BY <1>1, <1>2

\* A list that is short enough is not cut.
LEMMA NothingIsCut ==
  ASSUME NEW places, IsFiniteSet(places), NEW n \in Nat, Cardinality(places) <= n
  PROVE  FirstOf(places, n) = places
<1> SUFFICES ASSUME NEW p \in places PROVE Cardinality({q \in places : UpTo(q, p)}) <= n
  BY DEF FirstOf
<1> DEFINE before == {q \in places : UpTo(q, p)}
<1> HIDE DEF before
<1>1. before \in SUBSET places
  BY DEF before
<1>2. IsFiniteSet(before) /\ Cardinality(before) <= Cardinality(places)
  BY <1>1, FS_Subset
<1>3. Cardinality(before) \in Nat /\ Cardinality(places) \in Nat
  BY <1>2, FS_CardinalityType
<1>4. Cardinality(before) <= n
  BY <1>2, <1>3
<1> QED
  BY <1>4 DEF before

\* So are the places of at most so many snapshots with at most so many fields.
LEMMA PlacesFit ==
  ASSUME NEW places, NEW I, NEW F, IsFiniteSet(I), IsFiniteSet(F), places \subseteq I \X F
  PROVE  IsFiniteSet(places) /\ Cardinality(places) <= Cardinality(I) * Cardinality(F)
<1>1. IsFiniteSet(I \X F) /\ Cardinality(I \X F) = Cardinality(I) * Cardinality(F)
  BY FS_Product, Zenon
<1>2. places \in SUBSET (I \X F)
  OBVIOUS
<1> QED
  BY <1>1, <1>2, FS_Subset

ParentFields == {<<"captured", 0>>, <<"parentPayment", 0>>, <<"parentAnnouncement", 0>>, <<"parentCreated", 0>>}

CommandNames == {"captured", "state", "published_at", "completed_at", "expires_at", "attempts",
                 "receipts", "conflicts", "retries", "heartbeat", "revoked"}

LEMMA NamesAreFew ==
  /\ IsFiniteSet(ParentFields) /\ Cardinality(ParentFields) <= 4
  /\ IsFiniteSet(CommandNames) /\ Cardinality(CommandNames) <= 11
<1>1. IsFiniteSet(ParentFields) /\ Cardinality(ParentFields) <= 4
  <2> DEFINE list == <<<<"captured", 0>>, <<"parentPayment", 0>>, <<"parentAnnouncement", 0>>, <<"parentCreated", 0>>>>
  <2>1. \A x \in ParentFields : \E i \in 1..4 : list[i] = x
    <3>1. ParentFields = {list[1], list[2], list[3], list[4]}
      BY DEF ParentFields
    <3> QED
      BY <3>1
  <2> QED
    BY <2>1, Listed
<1>2. IsFiniteSet(CommandNames) /\ Cardinality(CommandNames) <= 11
  <2> DEFINE list == <<"captured", "state", "published_at", "completed_at", "expires_at", "attempts",
                       "receipts", "conflicts", "retries", "heartbeat", "revoked">>
  <2>1. \A x \in CommandNames : \E i \in 1..11 : list[i] = x
    <3>1. CommandNames = {list[1], list[2], list[3], list[4], list[5], list[6], list[7],
                           list[8], list[9], list[10], list[11]}
      BY DEF CommandNames
    <3> HIDE DEF list
    <3>2. \A i \in {1, 2, 3, 4, 5, 6, 7, 8, 9, 10, 11} : i \in 1..11
      OBVIOUS
    <3>3. ASSUME NEW x \in CommandNames PROVE \E i \in 1..11 : list[i] = x
      <4>1. PICK i \in {1, 2, 3, 4, 5, 6, 7, 8, 9, 10, 11} : x = list[i]
        BY <3>1, SMT
      <4> QED
        BY <3>2, <4>1, Zenon
    <3> QED
      BY <3>3, Zenon
  <2> HIDE DEF list
  <2> QED
    BY <2>1, Listed
<1> QED
  BY <1>1, <1>2

LEMMA TenAndThree ==
  /\ IsFiniteSet(1..10) /\ Cardinality(1..10) = 10
  /\ IsFiniteSet(0..2) /\ Cardinality(0..2) = 3
<1>1. ASSUME NEW a \in Int, NEW b \in Int, a <= b
      PROVE  IsFiniteSet(a..b) /\ Cardinality(a..b) = b - a + 1
  BY <1>1, FS_Interval
<1>2. 10 - 1 + 1 = 10 /\ 2 - 0 + 1 = 3
  OBVIOUS
<1>3. 0 \in Int /\ 1 \in Int /\ 2 \in Int /\ 10 \in Int /\ 1 <= 10 /\ 0 <= 2
  OBVIOUS
<1> QED
  BY <1>1, <1>2, <1>3, Zenon

\* Every fact of an incident is shown to the provider ...
LEMMA FactsFit ==
  ASSUME NEW r \in Request
  PROVE  FirstOf(FactPlaces(evidence[r]), MaxFacts) = FactPlaces(evidence[r])
<1> DEFINE places == FactPlaces(evidence[r])
<1>1. IsFiniteSet(1..10) /\ Cardinality(1..10) = 10
  BY TenAndThree
<1>2. IsFiniteSet(0..2) /\ Cardinality(0..2) = 3
  BY TenAndThree
<1>3. CASE \A i \in DOMAIN evidence[r] : evidence[r][i].form \in {"unsupported", "parent"}
  <2>1. places \subseteq (1..10) \X ParentFields
    BY <1>3 DEF FactPlaces, Read, MaxSnapshots, FactsOf, Given, ParentFields
  <2>2. IsFiniteSet(places) /\ Cardinality(places) <= Cardinality(1..10) * Cardinality(ParentFields)
    BY <1>1, <2>1, NamesAreFew, PlacesFit
  <2>3. Cardinality(places) \in Nat /\ Cardinality(ParentFields) \in 0..4
    BY <2>2, NamesAreFew, FS_CardinalityType
  <2>4. Cardinality(places) <= MaxFacts
    BY <1>1, <2>2, <2>3 DEF MaxFacts
  <2> QED
    BY <2>2, <2>4, NothingIsCut DEF MaxFacts
<1>4. CASE /\ DOMAIN evidence[r] = {1} /\ evidence[r][1].form = "command"
           /\ DOMAIN evidence[r][1].devices \subseteq {1, 2}
  <2>1. FactsOf(evidence[r][1]) \subseteq CommandNames \X (0..2)
    BY <1>4 DEF FactsOf, CommandFacts, DeviceFacts, Devices, Given, If, CommandNames
  <2>2. places \subseteq {1} \X (CommandNames \X (0..2))
    BY <1>4, <2>1 DEF FactPlaces, Read
  <2>3. IsFiniteSet({1}) /\ Cardinality({1}) = 1
    BY FS_Singleton
  <2>4. /\ IsFiniteSet(CommandNames \X (0..2))
        /\ Cardinality(CommandNames \X (0..2)) = Cardinality(CommandNames) * 3
    BY <1>2, NamesAreFew, FS_Product
  <2>5. IsFiniteSet(places) /\ Cardinality(places) <= 1 * (Cardinality(CommandNames) * 3)
    BY <2>2, <2>3, <2>4, PlacesFit
  <2>6. Cardinality(places) \in Nat /\ Cardinality(CommandNames) \in 0..11
    BY <2>5, NamesAreFew, FS_CardinalityType
  <2>7. Cardinality(places) <= MaxFacts
    BY <2>5, <2>6 DEF MaxFacts
  <2> QED
    BY <2>5, <2>7, NothingIsCut DEF MaxFacts
<1> QED
  BY <1>3, <1>4, EvidenceAssumption

\* ... and every notice of what is missing is passed on.
LEMMA OneMoreFits ==
  ASSUME NEW S, NEW x, NEW n \in Nat, IsFiniteSet(S), Cardinality(S) <= n
  PROVE  /\ IsFiniteSet(S \cup {x})
         /\ Cardinality(S \cup {x}) <= n + 1
         /\ Cardinality(S \cup {x}) \in Nat
<1>1. IsFiniteSet(S \cup {x}) /\ Cardinality(S \cup {x}) \in Nat /\ Cardinality(S) \in Nat
  BY FS_AddElement, FS_CardinalityType
<1>2. Cardinality(S) < n + 1 /\ n + 1 \in Nat
  BY <1>1
<1>3. Cardinality(S \cup {x}) <= n + 1
  BY <1>2, OneMore, Zenon
<1> QED
  BY <1>1, <1>3

LEMMA MissingFew ==
  ASSUME NEW places, NEW I, NEW F, IsFiniteSet(I), IsFiniteSet(F),
         Cardinality(I) * Cardinality(F) <= 20, places \subseteq (I \X F) \cup {Always, Without}
  PROVE  FirstOf(places, MaxMissing) = places
<1>1. IsFiniteSet(I \X F) /\ Cardinality(I \X F) <= 20 /\ Cardinality(I \X F) \in Nat
  BY FS_Product, FS_CardinalityType
<1> DEFINE one == (I \X F) \cup {Always}
           two == one \cup {Without}
<1> HIDE DEF two
<1>2. IsFiniteSet(one) /\ Cardinality(one) <= 20 + 1 /\ Cardinality(one) \in Nat
  BY <1>1, OneMoreFits
<1> HIDE DEF one
<1>3. Cardinality(one) <= 21
  BY <1>2
<1>4. IsFiniteSet(two) /\ Cardinality(two) <= 21 + 1 /\ Cardinality(two) \in Nat
  BY <1>2, <1>3, OneMoreFits DEF two
<1> HIDE DEF two
<1>5. places \in SUBSET two
  BY DEF one, two
<1>6. IsFiniteSet(places) /\ Cardinality(places) <= Cardinality(two)
  BY <1>4, <1>5, FS_Subset
<1>7. Cardinality(places) <= MaxMissing
  BY <1>4, <1>6, FS_CardinalityType DEF MaxMissing
<1> QED
  BY <1>6, <1>7, NothingIsCut DEF MaxMissing

LEMMA MissingFit ==
  ASSUME NEW r \in Request, NEW i \in Read(evidence[r]), NEW f \in MissingOf(evidence[r][i])
  PROVE  Notice(evidence[r][i], f) \in Elements(context[r].missing)
<1> DEFINE all == {Always} \cup MissingPlaces(evidence[r]) \cup {p \in {Without} : DOMAIN evidence[r] = {}}
<1>1. Read(evidence[r]) \subseteq DOMAIN evidence[r] /\ Read(evidence[r]) \subseteq 1..10
  BY DEF Read, MaxSnapshots
<1>2. FirstOf(all, MaxMissing) = all
  <2>1. CASE \A j \in DOMAIN evidence[r] : evidence[r][j].form \in {"unsupported", "parent"}
    <3> DEFINE F == {<<"schema", 0>>, <<"parent", 0>>}
               list == <<<<"schema", 0>>, <<"parent", 0>>>>
    <3>1. all \subseteq ((1..10) \X F) \cup {Always, Without}
      BY <1>1, <2>1 DEF MissingPlaces, MissingOf
    <3>2. F = {list[1], list[2]}
      OBVIOUS
    <3> HIDE DEF list
    <3>3. \A x \in F : \E n \in 1..2 : list[n] = x
      BY <3>2
    <3> HIDE DEF F
    <3>4. IsFiniteSet(F) /\ Cardinality(F) \in 0..2
      BY <3>3, Listed, FS_CardinalityType
    <3>5. Cardinality(1..10) * Cardinality(F) <= 20
      BY <3>4, TenAndThree
    <3> QED
      BY <3>1, <3>4, <3>5, TenAndThree, MissingFew
  <2>2. CASE /\ DOMAIN evidence[r] = {1} /\ evidence[r][1].form = "command"
             /\ DOMAIN evidence[r][1].devices \subseteq {1, 2}
    <3> DEFINE names == {"state", "receipts", "heartbeat"}
               list == <<"state", "receipts", "heartbeat">>
    <3>1. MissingOf(evidence[r][1]) \subseteq names \X (0..2)
      BY <2>2 DEF MissingOf, If, Devices
    <3>2. all \subseteq ({1} \X (names \X (0..2))) \cup {Always, Without}
      BY <2>2, <3>1 DEF MissingPlaces, Read
    <3>3. names = {list[1], list[2], list[3]}
      OBVIOUS
    <3> HIDE DEF list
    <3>4. \A x \in names : \E n \in 1..3 : list[n] = x
      BY <3>3
    <3> HIDE DEF names
    <3>5. IsFiniteSet(names) /\ Cardinality(names) \in 0..3
      BY <3>4, Listed, FS_CardinalityType
    <3>6. IsFiniteSet(names \X (0..2)) /\ Cardinality(names \X (0..2)) = Cardinality(names) * 3
      BY <3>5, TenAndThree, FS_Product
    <3>7. IsFiniteSet({1}) /\ Cardinality({1}) = 1
      BY FS_Singleton
    <3>8. Cardinality({1}) * Cardinality(names \X (0..2)) <= 20
      BY <3>5, <3>6, <3>7
    <3> QED
      BY <3>2, <3>6, <3>7, <3>8, MissingFew
  <2> QED
    BY <2>1, <2>2, EvidenceAssumption
<1>3. <<i, f>> \in all
  BY DEF MissingPlaces
<1>4. <<i, f>> \notin {Always, Without}
  <2>1. i \in DOMAIN evidence[r] /\ i # 0
    BY <1>1
  <2>2. CASE evidence[r][i].form \in {"unsupported", "parent"}
    BY <2>1, <2>2 DEF MissingOf, Always, Without
  <2>3. CASE evidence[r][i].form = "command"
    BY <2>1, <2>3 DEF MissingOf, If, Always, Without
  <2> QED
    BY <2>1, <2>2, <2>3, EvidenceAssumption
<1>5. context[r].missing = [p \in all |->
        IF p \in {Always, Without} THEN General(p[2][1]) ELSE Notice(evidence[r][p[1]], p[2])]
  BY <1>2 DEF context, Context
<1> HIDE DEF all
<1> QED
  BY <1>3, <1>4, <1>5 DEF Elements

\* What the provider is shown of the facts: those of the snapshots read, each
\* of them at one place.
LEMMA ShownFacts ==
  ASSUME NEW r \in Request
  PROVE  /\ context[r].facts = [p \in FactPlaces(evidence[r]) |-> Item(evidence[r][p[1]], p[2])]
         /\ \A p \in FactPlaces(evidence[r]) :
              /\ p[1] \in Read(evidence[r]) /\ p[1] # 0 /\ p[2] \in FactsOf(evidence[r][p[1]])
              /\ p = <<p[1], p[2]>> /\ p[2] = <<p[2][1], p[2][2]>>
         /\ \A i \in Read(evidence[r]) : \A f \in FactsOf(evidence[r][i]) : <<i, f>> \in FactPlaces(evidence[r])
<1>1. context[r].facts = [p \in FactPlaces(evidence[r]) |-> Item(evidence[r][p[1]], p[2])]
  BY FactsFit DEF context, Context
<1>2. \A i \in Read(evidence[r]) : \A f \in FactsOf(evidence[r][i]) : <<i, f>> \in FactPlaces(evidence[r])
  BY DEF FactPlaces
<1>3. ASSUME NEW p \in FactPlaces(evidence[r])
      PROVE  /\ p[1] \in Read(evidence[r]) /\ p[1] # 0 /\ p[2] \in FactsOf(evidence[r][p[1]])
             /\ p = <<p[1], p[2]>> /\ p[2] = <<p[2][1], p[2][2]>>
  <2>1. PICK i \in Read(evidence[r]) : p \in {i} \X FactsOf(evidence[r][i])
    BY DEF FactPlaces
  <2>2. i # 0 /\ i \in DOMAIN evidence[r]
    BY DEF Read
  <2>3. \A f \in FactsOf(evidence[r][i]) : f = <<f[1], f[2]>>
    <3>1. CASE evidence[r][i].form \in {"unsupported", "parent"}
      BY <3>1 DEF FactsOf, Given
    <3>2. CASE evidence[r][i].form = "command"
      BY <3>2 DEF FactsOf, CommandFacts, DeviceFacts, Given, If
    <3> QED
      BY <2>2, <3>1, <3>2, EvidenceAssumption
  <2> QED
    BY <2>1, <2>2, <2>3
<1> QED
  BY <1>1, <1>2, <1>3

LEMMA FactIsShown ==
  ASSUME NEW r \in Request, NEW i \in Read(evidence[r]), NEW f \in FactsOf(evidence[r][i])
  PROVE  Item(evidence[r][i], f) \in Elements(context[r].facts)
<1> DEFINE places == FactPlaces(evidence[r])
<1>1. context[r].facts = [x \in places |-> Item(evidence[r][x[1]], x[2])]
  BY ShownFacts
<1>2. <<i, f>> \in places
  BY ShownFacts
<1> HIDE DEF places
<1>3. context[r].facts[<<i, f>>] = Item(evidence[r][i], f)
  BY <1>1, <1>2
<1> QED
  BY <1>1, <1>2, <1>3 DEF Elements

LEMMA FactsOnce ==
  ASSUME NEW r \in Request, NEW p \in DOMAIN context[r].facts, NEW q \in DOMAIN context[r].facts,
         context[r].facts[p] = context[r].facts[q]
  PROVE  p = q
<1> DEFINE places == FactPlaces(evidence[r])
<1>1. context[r].facts = [x \in places |-> Item(evidence[r][x[1]], x[2])]
  BY ShownFacts
<1>2. p \in places /\ q \in places
  BY <1>1
<1>3. Item(evidence[r][p[1]], p[2]) = Item(evidence[r][q[1]], q[2])
  <2> HIDE DEF places
  <2> QED
    BY <1>1, <1>2
<1>4. /\ evidence[r][p[1]].id = evidence[r][q[1]].id
      /\ p[2][1] = q[2][1] /\ p[2][2] = q[2][2]
  BY <1>3 DEF Item
<1>5. p[1] \in DOMAIN evidence[r] /\ q[1] \in DOMAIN evidence[r]
  BY <1>2, ShownFacts DEF Read
<1>6. p[1] = q[1]
  <2>1. \A i, j \in DOMAIN evidence[r] : evidence[r][i].id = evidence[r][j].id => i = j
    BY EvidenceAssumption
  <2> QED
    BY <1>4, <1>5, <2>1
<1>7. /\ p = <<p[1], p[2]>> /\ p[2] = <<p[2][1], p[2][2]>>
      /\ q = <<q[1], q[2]>> /\ q[2] = <<q[2][1], q[2][2]>>
  BY <1>2, ShownFacts
<1>8. p[2] = q[2]
  BY <1>4, <1>7
<1> QED
  BY <1>6, <1>7, <1>8

\* Whatever is chosen comes for a first time.
LEMMA ChosenComes ==
  ASSUME NEW r \in Request, NEW choice \in choices[r], NEW id \in Elements(choice.factIds)
  PROVE  \E j \in Once(choice.factIds) : choice.factIds[j] = id
<1> DEFINE ids == choice.factIds
           T == {j \in DOMAIN ids : ids[j] = id}
<1>1. DOMAIN ids = 1..Len(ids) /\ Len(ids) \in Nat
  BY EvidenceAssumption
<1>2. PICK n \in T : TRUE
  BY DEF Elements
<1> HIDE DEF ids
<1>3. T \in SUBSET Nat
  BY <1>1
<1>4. PICK m \in T : \A k \in T : m <= k
  BY <1>2, <1>3, FirstExists
<1>5. m \in Once(ids) /\ ids[m] = id
  BY <1>4 DEF Once
<1> QED
  BY <1>5 DEF ids

\* A supported choice, rendered: all facts and nothing but facts ...
LEMMA RenderedFacts ==
  ASSUME NEW r \in Request, NEW choice \in choices[r], Supported(choice, context[r])
  PROVE  LET facts == Rendered(choice, context[r]).facts
         IN  /\ Elements(facts) = Elements(context[r].facts)
             /\ \A p, q \in DOMAIN facts : facts[p] = facts[q] => p = q
<1> DEFINE ids == choice.factIds
           shown == context[r].facts
           chosen == {0} \X Once(ids)
           rest == Rest(choice, context[r])
           facts == Rendered(choice, context[r]).facts
<1>1. /\ DOMAIN facts = chosen \cup rest
      /\ \A p \in DOMAIN facts : facts[p] = IF p[1] = 0 THEN ids[p[2]] ELSE shown[p]
  BY DEF Rendered
<1>2. Elements(ids) \subseteq Elements(shown)
  BY DEF Supported
<1>3. rest = {p \in DOMAIN shown : shown[p] \notin Elements(ids)}
  BY DEF Rest
<1>4. \A p \in DOMAIN shown : p[1] # 0
  BY ShownFacts
<1>5. \A id \in Elements(ids) : \E j \in Once(ids) : ids[j] = id
  BY ChosenComes
<1>6. \A j \in Once(ids) : j \in DOMAIN ids /\ \A k \in DOMAIN ids : ids[k] = ids[j] => j <= k
  BY DEF Once
<1>7. \A j \in DOMAIN ids : j \in Nat
  BY EvidenceAssumption
<1>8. \A p, q \in DOMAIN shown : shown[p] = shown[q] => p = q
  BY FactsOnce
<1> HIDE DEF ids, shown, rest, facts
<1>9. \A p \in chosen : facts[p] = ids[p[2]] /\ p[2] \in Once(ids) /\ p = <<0, p[2]>>
  BY <1>1
<1>10. \A p \in rest : facts[p] = shown[p] /\ p \in DOMAIN shown /\ shown[p] \notin Elements(ids)
  BY <1>1, <1>3, <1>4
<1> HIDE DEF chosen
<1>11. Elements(facts) \subseteq Elements(shown)
  BY <1>1, <1>2, <1>6, <1>9, <1>10 DEF Elements
<1>12. ASSUME NEW p \in DOMAIN shown PROVE shown[p] \in Elements(facts)
  <2>1. CASE shown[p] \in Elements(ids)
    <3>1. PICK j \in Once(ids) : ids[j] = shown[p]
      BY <1>5, <2>1
    <3>2. <<0, j>> \in chosen
      BY DEF chosen
    <3>3. facts[<<0, j>>] = shown[p] /\ <<0, j>> \in DOMAIN facts
      BY <1>1, <1>9, <3>1, <3>2
    <3> QED
      BY <3>3 DEF Elements
  <2>2. CASE shown[p] \notin Elements(ids)
    BY <1>1, <1>3, <1>10, <2>2 DEF Elements
  <2> QED
    BY <2>1, <2>2
<1>13. ASSUME NEW p \in DOMAIN facts, NEW q \in DOMAIN facts, facts[p] = facts[q]
       PROVE  p = q
  <2>1. CASE p \in chosen /\ q \in chosen
    <3>1. p[2] <= q[2] /\ q[2] <= p[2] /\ p[2] \in Nat /\ q[2] \in Nat
      BY <1>6, <1>7, <1>9, <1>13, <2>1
    <3>2. p[2] = q[2]
      BY <3>1
    <3> QED
      BY <1>9, <2>1, <3>2
  <2>2. CASE p \in rest /\ q \in rest
    BY <1>8, <1>10, <1>13, <2>2
  <2>3. \A x \in chosen, y \in rest : facts[x] # facts[y]
    <3>1. \A x \in chosen : facts[x] \in Elements(ids)
      BY <1>6, <1>9 DEF Elements
    <3> QED
      BY <1>10, <3>1
  <2> QED
    BY <1>1, <1>13, <2>1, <2>2, <2>3
<1>14. Elements(facts) = Elements(shown)
  BY <1>11, <1>12 DEF Elements
<1> QED
  BY <1>13, <1>14 DEF facts, shown

\* ... and every hypothesis with the fact it is drawn from.
LEMMA GroundsShown ==
  ASSUME NEW r \in Request, NEW h \in Elements(context[r].hypotheses)
  PROVE  Grounds(h) \in Elements(context[r].facts)
<1>1. PICK p \in HypothesisPlaces(evidence[r]) : h = Item(evidence[r][p[1]], p[2])
  BY DEF Elements, context, Context, FirstOf
<1>2. PICK i \in Read(evidence[r]) : p \in {i} \X HypothesesOf(evidence[r][i])
  BY DEF HypothesisPlaces
<1> DEFINE e == evidence[r][i]
<1>3. e.form = "command" /\ p[1] = i /\ p[2] \in HypothesesOf(e)
  BY <1>2 DEF HypothesesOf
<1>4. CASE p[2] = <<"conflict", 0>>
  <2>1. <<"conflicts", 0>> \in FactsOf(e)
    BY <1>3, <1>4 DEF HypothesesOf, If, FactsOf, CommandFacts
  <2>2. Grounds(h) = Item(e, <<"conflicts", 0>>)
    BY <1>1, <1>3, <1>4 DEF Grounds, Item
  <2> QED
    BY <2>1, <2>2, FactIsShown
<1>5. CASE p[2] = <<"connectivity", 0>>
  <2>1. <<"retries", 0>> \in FactsOf(e)
    BY <1>3, <1>5 DEF HypothesesOf, If, FactsOf, CommandFacts
  <2>2. Grounds(h) = Item(e, <<"retries", 0>>)
    BY <1>1, <1>3, <1>5 DEF Grounds, Item
  <2> QED
    BY <2>1, <2>2, FactIsShown
<1> QED
  BY <1>3, <1>4, <1>5 DEF HypothesesOf, If

\* An answer is a supported choice, rendered.
AnswersAreRendered ==
  /\ DOMAIN given = Request
  /\ \A r \in Request : given[r] # NoAnswer =>
       \E choice \in choices[r] : Supported(choice, context[r]) /\ given[r] = Rendered(choice, context[r])

LEMMA RenderedIsFaithful == AnswersAreRendered => AnswersAreFaithful
<1> SUFFICES ASSUME AnswersAreRendered, NEW r \in Request, given[r] # NoAnswer
             PROVE  /\ \A i \in DOMAIN evidence[r] :
                         \/ ToldOf(r, i)
                         \/ Cardinality({j \in 1..(i - 1) : ToldOf(r, j)}) >= MaxSnapshots
                    /\ \A p, q \in DOMAIN given[r].facts : given[r].facts[p] = given[r].facts[q] => p = q
                    /\ \A o \in Elements(given[r].facts) :
                         \E i \in Read(evidence[r]) : \E f \in FactsOf(evidence[r][i]) : o = Item(evidence[r][i], f)
                    /\ \A h \in Elements(given[r].hypotheses) : Grounds(h) \in Elements(given[r].facts)
  BY DEF AnswersAreFaithful, NothingIsConcealed, NothingIsInvented
<1>1. PICK choice \in choices[r] : Supported(choice, context[r]) /\ given[r] = Rendered(choice, context[r])
  BY DEF AnswersAreRendered
<1>2. /\ Elements(given[r].facts) = Elements(context[r].facts)
      /\ \A p, q \in DOMAIN given[r].facts : given[r].facts[p] = given[r].facts[q] => p = q
  BY <1>1, RenderedFacts
<1>3. ASSUME NEW i \in Read(evidence[r]), NEW f \in FactsOf(evidence[r][i])
      PROVE  Item(evidence[r][i], f) \in Elements(given[r].facts)
  BY <1>2, FactIsShown
<1>4. ASSUME NEW i \in Read(evidence[r]), NEW f \in MissingOf(evidence[r][i])
      PROVE  Notice(evidence[r][i], f) \in Elements(given[r].missing)
  <2>1. given[r].missing = context[r].missing
    BY <1>1 DEF Rendered
  <2> QED
    BY <2>1, MissingFit
<1>5. ASSUME NEW o \in Elements(given[r].facts)
      PROVE  \E i \in Read(evidence[r]) : \E f \in FactsOf(evidence[r][i]) : o = Item(evidence[r][i], f)
  <2> DEFINE places == FactPlaces(evidence[r])
  <2>1. context[r].facts = [p \in places |-> Item(evidence[r][p[1]], p[2])]
    BY ShownFacts
  <2> HIDE DEF places
  <2>2. PICK p \in places : o = Item(evidence[r][p[1]], p[2])
    BY <1>2, <2>1 DEF Elements
  <2>3. p[1] \in Read(evidence[r]) /\ p[2] \in FactsOf(evidence[r][p[1]])
    BY ShownFacts DEF places
  <2> QED
    BY <2>2, <2>3
<1>6. ASSUME NEW h \in Elements(given[r].hypotheses) PROVE Grounds(h) \in Elements(given[r].facts)
  <2>1. h \in Elements(choice.hypothesisIds)
    BY <1>1 DEF Rendered, Elements, Once
  <2>2. h \in Elements(context[r].hypotheses)
    BY <1>1, <2>1 DEF Supported
  <2> QED
    BY <1>2, <2>2, GroundsShown
<1>7. \A i \in Read(evidence[r]) : ToldOf(r, i)
  BY <1>3, <1>4 DEF ToldOf
<1>8. ASSUME NEW i \in DOMAIN evidence[r], ~ToldOf(r, i)
      PROVE  Cardinality({j \in 1..(i - 1) : ToldOf(r, j)}) >= MaxSnapshots
  <2> DEFINE newer == {j \in 1..(i - 1) : ToldOf(r, j)}
  <2>1. DOMAIN evidence[r] = 1..Len(evidence[r]) /\ Len(evidence[r]) \in Nat
    BY EvidenceAssumption
  <2>2. i \in Nat /\ i > 10
    BY <1>7, <1>8, <2>1 DEF Read, MaxSnapshots
  <2>3. 1..10 \subseteq newer
    BY <1>7, <1>8, <2>1, <2>2 DEF Read, MaxSnapshots
  <2>4. IsFiniteSet(newer)
    <3>1. IsFiniteSet(1..(i - 1))
      BY <2>2, FS_Interval
    <3> QED
      BY <3>1, FS_Subset
  <2>5. Cardinality(1..10) = 10
    BY TenAndThree
  <2>6. Cardinality(newer) >= 10
    BY <2>3, <2>4, <2>5, FS_Subset, FS_CardinalityType
  <2> QED
    BY <2>6 DEF MaxSnapshots
<1> QED
  BY <1>2, <1>5, <1>6, <1>8

\* An operator is given all there is in the ten newest snapshots of the incident,
\* every observation once, and nothing else, whatever the provider answers and
\* whatever snapshots the program has written.
THEOREM AnswersAreFaithfulHolds == InvestigationSpec => []AnswersAreFaithful
<1>1. InvestigationInit => AnswersAreRendered
  BY DEF InvestigationInit, AnswersAreRendered
<1>2. AnswersAreRendered /\ [InvestigationNext]_investigationVars => AnswersAreRendered'
  <2> SUFFICES ASSUME AnswersAreRendered, [InvestigationNext]_investigationVars
               PROVE  /\ DOMAIN given' = Request
                      /\ \A q \in Request : given'[q] \in {NoAnswer, given[q]} \/
                           \E choice \in choices[q] :
                             Supported(choice, context[q]) /\ given'[q] = Rendered(choice, context[q])
    BY DEF AnswersAreRendered, context
  <2>1. CASE given' = given
    BY <2>1 DEF AnswersAreRendered
  <2>2. ASSUME NEW r \in Request, given' = [given EXCEPT ![r] = NoAnswer]
        PROVE  DOMAIN given' = Request /\ \A q \in Request : given'[q] \in {NoAnswer, given[q]}
    BY <2>2 DEF AnswersAreRendered
  <2>3. ASSUME NEW r \in Request, NEW choice \in choices[r], Select(r, choice)
        PROVE  \/ given' = given
               \/ /\ DOMAIN given' = Request
                  /\ Supported(choice, context[r]) /\ given'[r] = Rendered(choice, context[r])
                  /\ \A q \in Request \ {r} : given'[q] = given[q]
    BY <2>3 DEF Select, AnswersAreRendered
  <2>4. CASE \E p \in Api : Crash(p)
    BY <2>4 DEF Crash, AnswersAreRendered
  <2>5. ASSUME NEW r \in Request, RecordThrows(r) \/ Leave(r)
        PROVE  given' = [given EXCEPT ![r] = NoAnswer]
    BY <2>5 DEF RecordThrows, Leave
  <2>6. ASSUME NEW r \in Request,
               \/ Enter(r) \/ Begin(r) \/ Lock(r) \/ Count(r) \/ Refuse(r) \/ Reserve(r) \/ TimeOut(r)
               \/ RecordCompleted(r) \/ RecordFailed(r) \/ ReserveUnnoticed(r) \/ ProviderThrows(r)
        PROVE  given' = given
    BY <2>6 DEF Enter, Begin, Lock, Count, Refuse, Reserve, TimeOut, RecordCompleted, RecordFailed,
                ReserveUnnoticed, ProviderThrows, Step
  <2>7. CASE UNCHANGED investigationVars \/ Tick
    BY <2>1, <2>7 DEF investigationVars, Tick
  <2> QED
    BY <2>1, <2>2, <2>3, <2>4, <2>5, <2>6, <2>7 DEF InvestigationNext, Proceed
<1> QED
  BY <1>1, <1>2, RenderedIsFaithful, PTL DEF InvestigationSpec

=============================================================================
