---------------------------- MODULE ReportProofs ----------------------------
(***************************************************************************)
(* Theorems about what devices report: Simulator on its own, whatever the   *)
(* API is, for any number of commands and any limit of a batch; and          *)
(* Evidence, for any messages, calls at a time and windows.                  *)
(***************************************************************************)
EXTENDS Simulator, Evidence, FiniteSetTheorems, WellFoundedInduction, TLAPS

----------------------------------------------------------------------------
(* Simulator *)

\* The commands that have rows.
Numbered == {c \in Command : Known(c)}

\* The rows of the inbox are numbered as they come, the loop works on rows there
\* are, and what it is about to acknowledge is stored.
PostingInv ==
  /\ SimulatorTypeOK
  /\ InHand \subseteq Numbered
  /\ IsFiniteSet(Numbered)
  /\ \A c \in Numbered : inbox[c].rowid <= Cardinality(Numbered)
  /\ \A c, d \in Numbered : inbox[c].rowid = inbox[d].rowid => c = d
  /\ AcknowledgedIsStored
  /\ poster.phase = "answered" => poster.receipt \in stored

\* A command is known by its row.
LEMMA KnownRow ==
  ASSUME SimulatorTypeOK, NEW c \in Command
  PROVE  /\ Known(c) <=> inbox[c] \in Row
         /\ Known(c) => inbox[c].rowid \in Nat \ {0}
         /\ inbox[c].acked => Known(c)
  <1>1. NoRow \notin Row /\ ~NoRow.acked
    BY DEF Row, NoRow
  <1>2. inbox[c] \in Row \cup {NoRow}
    BY DEF SimulatorTypeOK
  <1>3. QED BY <1>1, <1>2 DEF Known, Row

\* The loop takes a receipt of its batch, or has come to its end.
LEMMA GoesOn ==
  ASSUME NEW batch \in SUBSET Command, GoOn(batch)
  PROVE  /\ poster' \in AtWork \cup {AtRest} /\ poster'.phase # "answered"
         /\ InHand' = batch
  BY DEF GoOn, AtWork, AtRest, InHand

\* A new row comes after all others.
LEMMA ProcessStep ==
  ASSUME PostingInv, NEW c \in Command, Process(c)
  PROVE  PostingInv'
  <1>1. /\ SimulatorTypeOK /\ inbox \in [Command -> Row \cup {NoRow}]
        /\ \A d \in Command : inbox[d].acked => d \in stored
        /\ IsFiniteSet(Numbered) /\ Cardinality(Numbered) \in Nat
    BY FS_CardinalityType DEF PostingInv, SimulatorTypeOK, AcknowledgedIsStored
  <1>2. UNCHANGED <<poster, posted, stored>>
    BY DEF Process
  <1>0. InHand' = InHand
    BY <1>2 DEF InHand
  <1>3. CASE Known(c)
    <2>1. inbox[c] \in Row /\ inbox' = [inbox EXCEPT ![c] = Reopened(inbox[c])]
      BY <1>1, <1>3, KnownRow DEF Process
    <2>2. /\ Reopened(inbox[c]) \in Row /\ ~Reopened(inbox[c]).acked
          /\ Reopened(inbox[c]).rowid = inbox[c].rowid
      BY <2>1 DEF Reopened, Row
    <2>3. /\ \A d \in Command : d # c => inbox'[d] = inbox[d]
          /\ inbox'[c] \in Row /\ ~inbox'[c].acked /\ inbox'[c].rowid = inbox[c].rowid
          /\ inbox' \in [Command -> Row \cup {NoRow}]
      BY <1>1, <2>1, <2>2
    <2>4. Numbered' = Numbered
      <3>1. inbox'[c] # NoRow
        BY <2>3 DEF Row, NoRow
      <3>2. QED BY <1>3, <2>3, <3>1 DEF Numbered, Known
    <2>5. \A d \in Command : inbox'[d].rowid = inbox[d].rowid /\ (inbox'[d].acked => d \in stored)
      BY <1>1, <2>3
    <2>6. \A d \in Numbered : d \in Command
      BY DEF Numbered
    <2>7. QED
      BY <1>0, <1>2, <2>3, <2>4, <2>5, <2>6 DEF PostingInv, SimulatorTypeOK, AcknowledgedIsStored
  <1>4. CASE ~Known(c)
    <2>1. PICK result \in Answer : inbox' = [inbox EXCEPT ![c] = NewRow(result)]
      BY <1>4 DEF Process
    <2>2. NextRowid = Cardinality(Numbered) + 1
      BY DEF NextRowid, Numbered
    <2>3. /\ NewRow(result) \in Row /\ ~NewRow(result).acked
          /\ NewRow(result).rowid = Cardinality(Numbered) + 1
      BY <1>1, <2>2 DEF NewRow, Row
    <2>4. /\ \A d \in Command : d # c => inbox'[d] = inbox[d]
          /\ inbox'[c] \in Row /\ ~inbox'[c].acked
          /\ inbox'[c].rowid = Cardinality(Numbered) + 1
          /\ inbox' \in [Command -> Row \cup {NoRow}]
      BY <1>1, <2>1, <2>3
    <2>5. Numbered' = Numbered \cup {c}
      <3>1. inbox'[c] # NoRow
        BY <2>4 DEF Row, NoRow
      <3>2. QED BY <2>4, <3>1 DEF Numbered, Known
    <2>6. IsFiniteSet(Numbered') /\ Cardinality(Numbered') = Cardinality(Numbered) + 1
      <3>1. c \notin Numbered
        BY <1>4 DEF Numbered
      <3>2. QED BY <1>1, <2>5, <3>1, FS_AddElement
    <2>7. ASSUME NEW d \in Numbered
          PROVE  /\ d # c /\ inbox'[d].rowid = inbox[d].rowid
                 /\ inbox[d].rowid \in Nat /\ inbox[d].rowid <= Cardinality(Numbered)
      <3>1. d \in Command /\ d # c /\ Known(d)
        BY <1>4 DEF Numbered
      <3>2. QED BY <1>1, <2>4, <3>1, KnownRow DEF PostingInv
    <2>8. /\ \A d \in Numbered' : inbox'[d].rowid <= Cardinality(Numbered')
          /\ \A d, e \in Numbered' : inbox'[d].rowid = inbox'[e].rowid => d = e
      <3>1. ASSUME NEW d \in Numbered' PROVE inbox'[d].rowid <= Cardinality(Numbered')
        BY <1>1, <2>4, <2>5, <2>6, <2>7
      <3>2. ASSUME NEW d \in Numbered', NEW e \in Numbered', inbox'[d].rowid = inbox'[e].rowid
            PROVE  d = e
        <4>1. CASE d = c /\ e \in Numbered
          BY <1>1, <2>4, <2>7, <3>2, <4>1
        <4>2. CASE d \in Numbered /\ e = c
          BY <1>1, <2>4, <2>7, <3>2, <4>2
        <4>3. CASE d \in Numbered /\ e \in Numbered
          BY <2>7, <3>2, <4>3 DEF PostingInv
        <4>4. QED BY <2>5, <4>1, <4>2, <4>3
      <3>3. QED BY <3>1, <3>2
    <2>9. \A d \in Command : inbox'[d].acked => d \in stored
      BY <1>1, <2>4
    <2>10. QED
      BY <1>0, <1>2, <2>4, <2>5, <2>6, <2>8, <2>9 DEF PostingInv, SimulatorTypeOK, AcknowledgedIsStored
  <1>5. QED BY <1>3, <1>4

\* What leaves the rows alone and posts rows there are.
LEMMA LoopStep ==
  ASSUME PostingInv, inbox' = inbox, InHand' \subseteq Numbered,
         poster' \in AtWork \cup {AtRest},
         posted' \in SUBSET Command, stored' \in SUBSET Command, stored \subseteq stored',
         poster'.phase = "answered" => poster'.receipt \in stored'
  PROVE  PostingInv'
  <1>1. Numbered' = Numbered
    BY DEF Numbered, Known
  <1>2. SimulatorTypeOK'
    BY DEF PostingInv, SimulatorTypeOK
  <1>3. AcknowledgedIsStored'
    BY DEF PostingInv, AcknowledgedIsStored
  <1>4. QED BY <1>1, <1>2, <1>3 DEF PostingInv

\* The row of a receipt that is stored is acknowledged.
LEMMA AcknowledgeStep ==
  ASSUME PostingInv, NEW c \in Command, Acknowledge(c)
  PROVE  PostingInv'
  <1>1. /\ SimulatorTypeOK /\ inbox \in [Command -> Row \cup {NoRow}]
        /\ poster \in AtWork \cup {AtRest}
        /\ \A d \in Command : inbox[d].acked => d \in stored
    BY DEF PostingInv, SimulatorTypeOK, AcknowledgedIsStored
  <1>2. /\ c \in stored /\ Known(c)
        /\ poster.batch \in SUBSET Command /\ poster.batch \subseteq Numbered
        /\ inbox' = [inbox EXCEPT ![c].acked = TRUE]
        /\ GoOn(poster.batch) /\ UNCHANGED <<posted, stored>>
    BY <1>1 DEF Acknowledge, PostingInv, AtWork, AtRest, InHand, Numbered
  <1>3. /\ poster' \in AtWork \cup {AtRest} /\ poster'.phase # "answered"
        /\ InHand' = poster.batch
    BY <1>2, GoesOn
  <1>4. inbox[c] \in Row
    BY <1>1, <1>2, KnownRow
  <1>5. /\ \A d \in Command : d # c => inbox'[d] = inbox[d]
        /\ inbox'[c] \in Row /\ inbox'[c].rowid = inbox[c].rowid
        /\ inbox' \in [Command -> Row \cup {NoRow}]
    BY <1>1, <1>2, <1>4 DEF Row
  <1>6. Numbered' = Numbered
    <2>1. inbox'[c] # NoRow
      BY <1>5 DEF Row, NoRow
    <2>2. QED BY <1>2, <1>5, <2>1 DEF Numbered, Known
  <1>7. \A d \in Command : inbox'[d].rowid = inbox[d].rowid /\ (inbox'[d].acked => d \in stored)
    BY <1>1, <1>2, <1>5
  <1>8. \A d \in Numbered : d \in Command
    BY DEF Numbered
  <1>9. QED
    BY <1>2, <1>3, <1>5, <1>6, <1>7, <1>8 DEF PostingInv, SimulatorTypeOK, AcknowledgedIsStored

LEMMA PostingStep ==
  ASSUME PostingInv, [SimulatorNext]_simulatorVars
  PROVE  PostingInv'
  <1>1. /\ SimulatorTypeOK /\ poster \in AtWork \cup {AtRest} /\ InHand \subseteq Numbered
        /\ posted \in SUBSET Command /\ stored \in SUBSET Command
        /\ Pending \subseteq Numbered /\ Numbered \subseteq Command
        /\ poster.phase = "answered" => poster.receipt \in stored
    BY DEF PostingInv, SimulatorTypeOK, Pending, Oldest, Open, Numbered
  <1>2. CASE UNCHANGED simulatorVars
    <2>1. UNCHANGED <<inbox, poster, posted, stored>>
      BY <1>2 DEF simulatorVars, deviceVars
    <2>2. InHand' = InHand
      BY <2>1 DEF InHand
    <2>3. QED BY <1>1, <2>1, <2>2, LoopStep
  <1>3. ASSUME NEW c \in Command, Store(c) PROVE PostingInv'
    <2>1. stored' = stored \cup {c} /\ UNCHANGED <<inbox, poster, posted>>
      BY <1>3 DEF Store, deviceVars
    <2>2. InHand' = InHand
      BY <2>1 DEF InHand
    <2>3. QED BY <1>1, <2>1, <2>2, LoopStep
  <1>4. CASE Collect
    <2>1. GoOn(Pending) /\ UNCHANGED <<inbox, posted, stored>> /\ Pending \in SUBSET Command
      BY <1>1, <1>4 DEF Collect
    <2>2. QED BY <1>1, <2>1, GoesOn, LoopStep
  <1>5. CASE Restart
    <2>1. poster' = AtRest /\ UNCHANGED <<inbox, posted, stored>>
      BY <1>5 DEF Restart
    <2>2. poster'.phase = "collecting" /\ InHand' = {}
      BY <2>1 DEF AtRest, InHand
    <2>3. QED BY <1>1, <2>1, <2>2, LoopStep
  <1>6. ASSUME NEW c \in Command, GiveUp(c) PROVE PostingInv'
    <2>1. GoOn(poster.batch) /\ UNCHANGED <<inbox, posted, stored>> /\ poster.phase = "waiting"
      BY <1>6 DEF GiveUp, Waiting
    <2>2. poster.batch \in SUBSET Command /\ poster.batch \subseteq InHand
      BY <1>1, <2>1 DEF AtWork, AtRest, InHand
    <2>3. QED BY <1>1, <2>1, <2>2, GoesOn, LoopStep
  <1>7. ASSUME NEW c \in Command, Post(c) \/ Answered(c) PROVE PostingInv'
    <2>1. PICK phase \in {"waiting", "answered"} :
            /\ poster' = [poster EXCEPT !.phase = phase]
            /\ phase = "answered" => c \in stored
      BY <1>7 DEF Post, Answered, IsTaken
    <2>2. /\ poster.receipt = c /\ poster.phase \in {"posting", "waiting"}
          /\ UNCHANGED <<inbox, stored>> /\ posted' \in SUBSET Command
      BY <1>1, <1>7 DEF Post, Answered, Waiting
    <2>3. poster \in AtWork
      BY <1>1, <2>2 DEF AtRest
    <2>4. /\ poster' \in AtWork /\ poster'.phase = phase
          /\ poster'.receipt = c /\ poster'.batch = poster.batch
      BY <2>1, <2>2, <2>3 DEF AtWork
    <2>5. InHand' = InHand
      BY <2>1, <2>2, <2>4 DEF InHand
    <2>6. QED BY <1>1, <2>1, <2>2, <2>4, <2>5, LoopStep
  <1>8. QED
    BY <1>2, <1>3, <1>4, <1>5, <1>6, <1>7, ProcessStep, AcknowledgeStep DEF SimulatorNext, Loop

LEMMA PostingInvariant == SimulatorSpec => []PostingInv
  <1>1. SimulatorInit => PostingInv
    <2> SUFFICES ASSUME SimulatorInit PROVE PostingInv
      OBVIOUS
    <2>1. /\ inbox = [c \in Command |-> NoRow] /\ poster = AtRest
          /\ posted = {} /\ stored = {}
      BY DEF SimulatorInit, DeviceInit
    <2>2. SimulatorTypeOK /\ AcknowledgedIsStored
      BY <2>1 DEF SimulatorTypeOK, AcknowledgedIsStored, NoRow
    <2>3. Numbered = {} /\ InHand = {} /\ poster.phase # "answered"
      BY <2>1 DEF Numbered, Known, InHand, AtRest
    <2>4. QED BY <2>2, <2>3, FS_EmptySet DEF PostingInv
  <1>2. PostingInv /\ [SimulatorNext]_simulatorVars => PostingInv'
    BY PostingStep
  <1>3. QED BY <1>1, <1>2, PTL DEF SimulatorSpec

\* Rows keep their shape and their numbers, and the loop works on one receipt at
\* a time, and on those that are left of its batch.
THEOREM SimulatorIsTyped == SimulatorSpec => []SimulatorTypeOK
  <1>1. PostingInv => SimulatorTypeOK
    BY DEF PostingInv
  <1>2. QED BY <1>1, PostingInvariant, PTL

\* No receipt is taken for delivered unless the API has committed it.
THEOREM AcksAreBacked == SimulatorSpec => []AcknowledgedIsStored
  <1>1. PostingInv => AcknowledgedIsStored
    BY DEF PostingInv
  <1>2. QED BY <1>1, PostingInvariant, PTL

Less == {p \in Nat \X Nat : p[1] < p[2]}

LEMMA LessIsWellFounded == IsWellFoundedOn(Less, Nat)
  <1>1. OpToRel(<, Nat) = Less
    BY Zenon DEF OpToRel, Less
  <1>2. QED BY <1>1, NatLessThanWellFounded, Zenon

\* Among known rows there is an oldest one.
LEMMA OneIsOldest ==
  ASSUME SimulatorTypeOK, NEW rows \in SUBSET Numbered, rows # {}
  PROVE  \E c \in rows : \A d \in rows : ~Older(d, c)
  <1> DEFINE ids == {inbox[c].rowid : c \in rows}
  <1>1. \A c \in rows : c \in Command /\ inbox[c].rowid \in Nat
    BY KnownRow DEF Numbered
  <1>2. ids \subseteq Nat /\ ids # {}
    BY <1>1
  <1>3. PICK n \in ids : \A m \in ids : ~(<<m, n>> \in Less)
    BY <1>2, WFMin, LessIsWellFounded
  <1>4. PICK c \in rows : inbox[c].rowid = n
    BY <1>3
  <1>5. ASSUME NEW d \in rows PROVE ~Older(d, c)
    <2>1. inbox[d].rowid \in ids /\ inbox[d].rowid \in Nat /\ n \in Nat
      BY <1>1, <1>3
    <2>2. ~(inbox[d].rowid < n)
      BY <1>3, <2>1 DEF Less
    <2>3. QED BY <1>4, <2>2 DEF Older
  <1>6. QED BY <1>5

\* Fewer refused receipts than a batch holds cannot keep out the others: the
\* oldest open row that is not refused is in the batch, for only refused ones
\* can be older.
LEMMA BatchReachesOthers ==
  ASSUME PostingInv, IsFiniteSet(Refused), Cardinality(Refused) < Limit, Collect,
         Open \ Refused # {}
  PROVE  \E c \in InHand' \ Refused : \A d \in Open \ Refused : ~Older(d, c)
  <1>1. Open \ Refused \in SUBSET Numbered /\ SimulatorTypeOK /\ Pending \in SUBSET Command
    BY DEF Open, Numbered, PostingInv, Pending, Oldest
  <1>2. PICK c \in Open \ Refused : \A d \in Open \ Refused : ~Older(d, c)
    BY <1>1, OneIsOldest
  <1> DEFINE ahead == {d \in Open : Older(d, c)}
  <1>3. ahead \in SUBSET Refused
    BY <1>2
  <1>4. Cardinality(ahead) < Limit
    <2>1. /\ Cardinality(ahead) \in Nat /\ Cardinality(Refused) \in Nat
          /\ Cardinality(ahead) <= Cardinality(Refused)
      BY <1>3, FS_Subset, FS_CardinalityType
    <2>2. Limit \in Nat
      BY SimulatorAssumption
    <2>3. QED BY <2>1, <2>2
  <1>5. c \in Pending
    BY <1>2, <1>4 DEF Pending, Oldest
  <1>6. InHand' = Pending
    BY <1>1, GoesOn DEF Collect
  <1>7. QED BY <1>2, <1>5, <1>6

\* Fewer refused receipts than a batch holds keep no other waiting.
THEOREM OthersAlwaysGetThrough ==
  ASSUME IsFiniteSet(Refused), Cardinality(Refused) < Limit
  PROVE  SimulatorSpec => OthersGetThrough
  <1>1. PostingInv => [Collect /\ Open \ Refused # {} =>
          \E c \in InHand' \ Refused : \A d \in Open \ Refused : ~Older(d, c)]_simulatorVars
    BY BatchReachesOthers
  <1>2. QED BY <1>1, PostingInvariant, PTL DEF OthersGetThrough

----------------------------------------------------------------------------
(* Evidence *)

\* The types, without the bounds of a run.
Tables ==
  /\ time \in Nat
  /\ identities \in [Id -> [message : Message \cup {NoMessage}, received : Int]]
  /\ handler \in [Handler -> [phase : Phase, message : Message \cup {NoMessage}, began : Int]]
  /\ counted \in [Message -> Nat]

Past == {"unseen", "found", "inserted", "beaten", "recorded"}
Holding == {"inserted", "beaten", "recorded"}
Keyed == Shared \cup {"beaten"}

IsBeat(m) == kind[m] = "heartbeat"

\* What every call is sure of: how long it has taken, when its message was
\* signed, that its key is good, and that nobody else has its identity.
CallSure(h) ==
  /\ handler[h].phase # "idle" =>
       Its(h) \in Message /\ handler[h].began <= time /\ time <= handler[h].began + Patience
  /\ handler[h].phase \in Past /\ IsBeat(Its(h)) =>
       /\ at[Its(h)] >= handler[h].began - Skew
       /\ at[Its(h)] <= handler[h].began + Patience + Skew
  /\ handler[h].phase \in Holding => Seen(h) = Forgotten
  /\ handler[h].phase \in Keyed => key[Its(h)] \notin revoked
  /\ handler[h].phase = "beaten" => IsBeat(Its(h))
  /\ handler[h].phase = "recorded" => ~IsBeat(Its(h))

CallsAreSure == \A h \in Handler : CallSure(h)

OneHolds ==
  \A g, h \in Handler :
    handler[g].phase \in Holding /\ handler[h].phase \in Holding /\ id[Its(g)] = id[Its(h)] => g = h

\* A row is that of a message recorded, not long before the call that did.
RowsAreTrue ==
  \A i \in Id : identities[i] # Forgotten =>
    LET m == identities[i].message
    IN /\ m \in Message /\ id[m] = i /\ counted[m] > 0
       /\ IsBeat(m) => at[m] <= identities[i].received + Patience + Skew

\* What has taken effect is remembered, or too old to come again.
Remembered(m) ==
  identities[id[m]].message = m \/ (IsBeat(m) /\ at[m] + Skew + Patience < time)

CountedIsKnown == \A m \in Message : counted[m] > 0 => Remembered(m)

EvidenceInv ==
  /\ Tables /\ CallsAreSure /\ OneHolds /\ RowsAreTrue /\ CountedIsKnown
  /\ CountedOnce /\ AcknowledgedIsCounted

LEMMA EvidenceStarts == EvidenceInit => EvidenceInv
<1> SUFFICES ASSUME EvidenceInit PROVE EvidenceInv
  OBVIOUS
<1>1. Tables
  BY DEF EvidenceInit, Tables, Forgotten, Idle, Phase
<1>2. CallsAreSure /\ OneHolds
  BY DEF EvidenceInit, CallsAreSure, CallSure, OneHolds, Idle, Past, Holding, Keyed, Shared
<1>3. RowsAreTrue /\ CountedIsKnown /\ CountedOnce /\ AcknowledgedIsCounted
  BY DEF EvidenceInit, RowsAreTrue, CountedIsKnown, CountedOnce, AcknowledgedIsCounted
<1> QED
  BY <1>1, <1>2, <1>3 DEF EvidenceInv

\* A call that is past the look-up has a message that is not yet too old.
LEMMA NotTooOld ==
  ASSUME EvidenceInv, NEW h \in Handler, handler[h].phase \in Past, IsBeat(Its(h))
  PROVE  time <= at[Its(h)] + Skew + Patience
<1>1. /\ handler[h].began \in Int /\ time \in Int /\ at[Its(h)] \in Int
      /\ time <= handler[h].began + Patience
      /\ at[Its(h)] >= handler[h].began - Skew
  BY EvidenceAssumption DEF EvidenceInv, Tables, CallsAreSure, CallSure, Past, Its
<1> QED
  BY <1>1, EvidenceAssumption

\* What a call that holds its identity is about to record has not been counted.
LEMMA NotYetCounted ==
  ASSUME EvidenceInv, NEW h \in Handler, handler[h].phase \in Holding
  PROVE  Its(h) \in Message /\ counted[Its(h)] = 0
<1>1. Its(h) \in Message /\ Seen(h) = Forgotten
  BY DEF EvidenceInv, CallsAreSure, CallSure, Holding
<1>2. id[Its(h)] \in Id /\ at[Its(h)] \in Int /\ time \in Int
  BY <1>1, EvidenceAssumption DEF Id, EvidenceInv, Tables
<1>3. ~Remembered(Its(h))
  <2>1. identities[id[Its(h)]].message # Its(h)
    BY <1>1, EvidenceAssumption DEF Seen, Forgotten
  <2>2. IsBeat(Its(h)) => time <= at[Its(h)] + Skew + Patience
    BY NotTooOld DEF Holding, Past
  <2> QED
    BY <1>2, <2>1, <2>2, EvidenceAssumption DEF Remembered
<1> QED
  BY <1>1, <1>3 DEF EvidenceInv, CountedIsKnown, Tables

\* The tables stay, and one call goes on to a phase of which it is sure.
LEMMA CallGoes ==
  ASSUME EvidenceInv, UNCHANGED <<time, identities, counted, revoked>>, NEW h \in Handler,
         NEW call \in [phase : Phase, message : Message \cup {NoMessage}, began : Int],
         handler' = [handler EXCEPT ![h] = call], CallSure(h)',
         call.phase \in Holding =>
           /\ \A g \in Handler \ {h} : ~HoldsId(g, id[call.message])
         , acknowledged' \subseteq acknowledged \cup {m \in Message : counted[m] > 0}
  PROVE  EvidenceInv'
<1>1. Tables' /\ \A g \in Handler : handler'[g] = IF g = h THEN call ELSE handler[g]
  BY DEF EvidenceInv, Tables
<1>2. CallsAreSure'
  <2> SUFFICES ASSUME NEW g \in Handler, g # h PROVE CallSure(g)'
    BY DEF CallsAreSure
  <2>1. handler'[g] = handler[g] /\ CallSure(g)
    BY <1>1 DEF EvidenceInv, CallsAreSure
  <2> QED
    BY <2>1 DEF CallSure, Its, Seen
<1>3. OneHolds'
  BY <1>1 DEF EvidenceInv, OneHolds, HoldsId, Holding, Its
<1>4. RowsAreTrue' /\ CountedIsKnown' /\ CountedOnce'
  BY DEF EvidenceInv, RowsAreTrue, CountedIsKnown, Remembered, CountedOnce
<1>5. AcknowledgedIsCounted'
  BY DEF EvidenceInv, AcknowledgedIsCounted
<1> QED
  BY <1>1, <1>2, <1>3, <1>4, <1>5 DEF EvidenceInv

\* A call ends without having recorded anything.
LEMMA CallEnds ==
  ASSUME EvidenceInv, UNCHANGED <<time, identities, counted, revoked>>, NEW h \in Handler, Ends(h),
         acknowledged' \subseteq acknowledged \cup {m \in Message : counted[m] > 0}
  PROVE  EvidenceInv'
<1>1. Idle \in [phase : Phase, message : Message \cup {NoMessage}, began : Int]
  BY DEF Idle, Phase
<1>2. handler'[h] = Idle
  BY DEF Ends, EvidenceInv, Tables
<1>3. CallSure(h)'
  BY <1>2 DEF CallSure, Idle, Past, Holding, Keyed, Shared
<1> QED
  BY <1>1, <1>3, CallGoes DEF Ends, Idle, Holding

\* What is told of a row found is true.
LEMMA TellsTrue ==
  ASSUME EvidenceInv, NEW h \in Handler, ~At(h, "idle")
  PROVE  Tells(h) \subseteq acknowledged \cup {m \in Message : counted[m] > 0}
<1>1. Its(h) \in Message /\ id[Its(h)] \in Id
  BY DEF EvidenceInv, CallsAreSure, CallSure, At, Id
<1>2. Seen(h).message = Its(h) => counted[Its(h)] > 0
  BY <1>1, EvidenceAssumption DEF EvidenceInv, RowsAreTrue, Seen, Forgotten
<1> QED
  BY <1>1, <1>2 DEF Tells

\* A call goes on to a phase, and keeps its message and its transaction.
LEMMA CallGoesOn ==
  ASSUME EvidenceInv, UNCHANGED <<time, identities, counted, revoked, acknowledged>>,
         NEW h \in Handler, NEW phase \in Phase, Goes(h, phase), CallSure(h)',
         phase \in Holding => \A g \in Handler \ {h} : ~HoldsId(g, id[Its(h)])
  PROVE  EvidenceInv'
<1> DEFINE call == [handler[h] EXCEPT !.phase = phase]
<1>1. call \in [phase : Phase, message : Message \cup {NoMessage}, began : Int]
  BY DEF EvidenceInv, Tables
<1>2. handler' = [handler EXCEPT ![h] = call]
  BY DEF Goes
<1>3. call.phase = phase /\ call.message = Its(h)
  BY DEF EvidenceInv, Tables, Its
<1> HIDE DEF call
<1> QED
  BY <1>1, <1>2, <1>3, CallGoes

\* What going on changes of a call, and what it does not.
LEMMA Gone ==
  ASSUME EvidenceInv, NEW h \in Handler, NEW phase, Goes(h, phase)
  PROVE  handler'[h].phase = phase /\ Its(h)' = Its(h) /\ handler'[h].began = handler[h].began
BY DEF EvidenceInv, Tables, Goes, Its

LEMMA StatementSteps ==
  ASSUME EvidenceInv, NEW h \in Handler, Statement(h), ~Commit(h)
  PROVE  EvidenceInv'
<1>0. /\ CallSure(h) /\ time \in Nat /\ handler[h].began \in Int
      /\ \A phase \in {"checked", "unseen", "found", "inserted", "beaten", "recorded"} : phase \in Phase
  BY DEF EvidenceInv, CallsAreSure, Tables, Phase, Shared
<1>1. CASE Check(h)
  <2>1. CASE key[Its(h)] \in revoked
    BY <1>1, <2>1, CallEnds DEF Check, tables
  <2>2. CASE key[Its(h)] \notin revoked
    <3>1. Goes(h, "checked") /\ At(h, "begun") /\ UNCHANGED <<time, identities, revoked>>
      BY <1>1, <2>2 DEF Check, tables
    <3>2. CallSure(h)'
      BY <1>0, <2>2, <3>1, Gone DEF CallSure, At, Past, Holding, Keyed, Shared
    <3> QED
      BY <1>0, <1>1, <3>1, <3>2, CallGoesOn DEF Check, tables, Holding
  <2> QED
    BY <2>1, <2>2
<1>2. CASE Look(h)
  <2>1. CASE Seen(h) # Forgotten
    BY <1>2, <2>1, CallEnds, TellsTrue DEF Look, tables, At
  <2>2. CASE Seen(h) = Forgotten /\ ~InWindow(Its(h))
    BY <1>2, <2>2, CallEnds DEF Look, tables
  <2>3. CASE Seen(h) = Forgotten /\ InWindow(Its(h))
    <3>1. /\ Goes(h, "unseen") /\ At(h, "checked")
          /\ UNCHANGED <<time, identities, revoked, counted, acknowledged>>
      BY <1>2, <2>3 DEF Look, tables
    <3>2. Its(h) \in Message /\ handler[h].began <= time /\ time <= handler[h].began + Patience
      BY <1>0, <3>1 DEF CallSure, At
    <3>3. IsBeat(Its(h)) => /\ at[Its(h)] >= handler[h].began - Skew
                            /\ at[Its(h)] <= handler[h].began + Patience + Skew
      BY <1>0, <2>3, <3>2, EvidenceAssumption DEF InWindow, IsBeat
    <3>4. CallSure(h)'
      BY <1>0, <3>1, <3>3, Gone DEF CallSure, At, Past, Holding, Keyed, Shared
    <3> QED
      BY <1>0, <3>1, <3>4, CallGoesOn DEF Holding
  <2> QED
    BY <2>1, <2>2, <2>3
<1>3. CASE Insert(h)
  <2>1. /\ At(h, "unseen") /\ UNCHANGED <<time, identities, revoked, counted, acknowledged>>
        /\ \A g \in Handler \ {h} : ~HoldsId(g, id[Its(h)])
    BY <1>3 DEF Insert, tables, Runs, WaitsFor
  <2>2. CASE Seen(h) = Forgotten
    <3>1. Goes(h, "inserted")
      BY <1>3, <2>2 DEF Insert
    <3>2. Seen(h)' = Forgotten
      BY <2>1, <2>2, <3>1, Gone DEF Seen
    <3>3. CallSure(h)'
      BY <1>0, <2>1, <3>1, <3>2, Gone DEF CallSure, At, Past, Holding, Keyed, Shared
    <3> QED
      BY <1>0, <2>1, <3>1, <3>3, CallGoesOn
  <2>3. CASE Seen(h) # Forgotten
    <3>1. Goes(h, "found")
      BY <1>3, <2>3 DEF Insert
    <3>2. CallSure(h)'
      BY <1>0, <2>1, <3>1, Gone DEF CallSure, At, Past, Holding, Keyed, Shared
    <3> QED
      BY <1>0, <2>1, <3>1, <3>2, CallGoesOn DEF Holding
  <2> QED
    BY <2>2, <2>3
<1>4. CASE Reread(h)
  BY <1>4, CallEnds, TellsTrue DEF Reread, tables, At
<1>5. ASSUME NEW phase \in {"beaten", "recorded"}, At(h, "inserted"), Goes(h, phase),
             UNCHANGED <<time, identities, revoked, counted, acknowledged>>,
             IsBeat(Its(h)) <=> phase = "beaten"
      PROVE  EvidenceInv'
  <2>1. Seen(h)' = Seen(h)
    BY <1>5, Gone DEF Seen
  <2>2. CallSure(h)'
    BY <1>0, <1>5, <2>1, Gone DEF CallSure, At, Past, Holding, Keyed, Shared
  <2>3. \A g \in Handler \ {h} : ~HoldsId(g, id[Its(h)])
    BY <1>5 DEF EvidenceInv, OneHolds, HoldsId, Holding, At
  <2> QED
    BY <1>0, <1>5, <2>2, <2>3, CallGoesOn
<1>6. CASE Beat(h)
  BY <1>5, <1>6 DEF Beat, Updates, tables, IsBeat
<1>7. CASE Record(h)
  <2>1. CASE Its(h) \in Fit
    BY <1>5, <1>7, <2>1 DEF Record, tables, IsBeat
  <2>2. CASE Its(h) \notin Fit
    BY <1>7, <2>2, CallEnds DEF Record, tables
  <2> QED
    BY <2>1, <2>2
<1> QED
  BY <1>1, <1>2, <1>3, <1>4, <1>6, <1>7 DEF Statement

LEMMA CommitStep ==
  ASSUME EvidenceInv, NEW h \in Handler, Commit(h)
  PROVE  EvidenceInv'
<1> DEFINE m == Its(h)
<1>1. m \in Message /\ counted[m] = 0 /\ id[m] \in Id
  BY NotYetCounted DEF Commit, Holding, Id
<1>2. /\ \A i \in Id : identities'[i] =
           IF i = id[m] THEN [message |-> m, received |-> Received(h)] ELSE identities[i]
      /\ \A n \in Message : counted'[n] = IF n = m THEN 1 ELSE counted[n]
      /\ \A g \in Handler : handler'[g] = IF g = h THEN Idle ELSE handler[g]
      /\ UNCHANGED <<time, revoked>> /\ acknowledged' = acknowledged \cup {m}
  BY <1>1 DEF Commit, Ends, EvidenceInv, Tables
<1>3. Received(h) \in Int
  BY DEF Received, EvidenceInv, Tables
<1>4. Tables'
  BY <1>1, <1>3 DEF Commit, Ends, EvidenceInv, Tables, Idle, Phase
<1>5. \A g \in Handler \ {h} : handler[g].phase \in Holding => id[Its(g)] # id[m]
  BY DEF EvidenceInv, OneHolds, Commit, Holding
<1>6. CallsAreSure'
  <2> SUFFICES ASSUME NEW g \in Handler PROVE CallSure(g)'
    BY DEF CallsAreSure
  <2>1. CASE g = h
    BY <1>2, <2>1 DEF CallSure, Idle, Past, Holding, Keyed, Shared
  <2>2. CASE g # h
    <3>1. handler'[g] = handler[g] /\ CallSure(g)
      BY <1>2, <2>2 DEF EvidenceInv, CallsAreSure
    <3>2. handler[g].phase \in Holding => Its(g) \in Message /\ id[Its(g)] \in Id
      BY <3>1 DEF CallSure, Holding, Id
    <3>3. handler[g].phase \in Holding => Seen(g)' = Seen(g)
      BY <1>2, <1>5, <2>2, <3>1, <3>2 DEF Seen, Its
    <3> QED
      BY <1>2, <3>1, <3>3 DEF CallSure, Its
  <2> QED
    BY <2>1, <2>2
<1>7. OneHolds'
  BY <1>2 DEF EvidenceInv, OneHolds, Holding, Its, Idle
<1>8. RowsAreTrue'
  <2>1. IsBeat(m) => at[m] <= Received(h) + Patience + Skew
    BY DEF EvidenceInv, CallsAreSure, CallSure, Commit, Past, Received, At
  <2> SUFFICES ASSUME NEW i \in Id, identities'[i] # Forgotten
               PROVE  LET n == identities'[i].message
                      IN /\ n \in Message /\ id[n] = i /\ counted'[n] > 0
                         /\ IsBeat(n) => at[n] <= identities'[i].received + Patience + Skew
    BY DEF RowsAreTrue
  <2>2. CASE i = id[m]
    <3>1. identities'[i] = [message |-> m, received |-> Received(h)]
      BY <1>2, <2>2
    <3> QED
      BY <1>1, <1>2, <2>1, <2>2, <3>1
  <2>3. CASE i # id[m]
    BY <1>2, <2>3 DEF EvidenceInv, RowsAreTrue
  <2> QED
    BY <2>2, <2>3
<1>9. CountedIsKnown'
  <2> SUFFICES ASSUME NEW n \in Message, counted'[n] > 0 PROVE Remembered(n)'
    BY DEF CountedIsKnown
  <2>1. id[n] \in Id
    BY DEF Id
  <2>2. CASE n = m
    <3>1. identities'[id[m]] = [message |-> m, received |-> Received(h)]
      BY <1>1, <1>2
    <3> QED
      BY <2>2, <3>1 DEF Remembered
  <2>3. CASE n # m /\ id[n] = id[m]
    <3>1. Seen(h) = Forgotten
      BY DEF EvidenceInv, CallsAreSure, CallSure, Commit, Holding
    <3>2. identities[id[n]].message # n
      BY <2>3, <3>1, EvidenceAssumption DEF Seen, Forgotten
    <3>3. counted[n] > 0
      BY <1>2, <2>3
    <3> QED
      BY <1>2, <3>2, <3>3 DEF EvidenceInv, CountedIsKnown, Remembered
  <2>4. CASE id[n] # id[m]
    BY <1>2, <2>1, <2>4 DEF EvidenceInv, CountedIsKnown, Remembered
  <2> QED
    BY <2>2, <2>3, <2>4
<1>10. CountedOnce' /\ AcknowledgedIsCounted'
  BY <1>1, <1>2 DEF EvidenceInv, CountedOnce, AcknowledgedIsCounted
<1> QED
  BY <1>4, <1>6, <1>7, <1>8, <1>9, <1>10 DEF EvidenceInv

LEMMA BeginStep ==
  ASSUME EvidenceInv, NEW h \in Handler, NEW m \in Message, Begin(h, m)
  PROVE  EvidenceInv'
<1> DEFINE call == [phase |-> "begun", message |-> m, began |-> time]
<1>1. call \in [phase : Phase, message : Message \cup {NoMessage}, began : Int]
  BY DEF EvidenceInv, Tables, Phase
<1>2. handler' = [handler EXCEPT ![h] = call] /\ handler'[h] = call
  BY DEF Begin, Now, EvidenceInv, Tables
<1>3. CallSure(h)'
  BY <1>2, EvidenceAssumption DEF CallSure, Its, Past, Holding, Keyed, Shared, Begin, EvidenceInv, Tables
<1>4. call.phase \notin Holding
  BY DEF Holding
<1> HIDE DEF call
<1> QED
  BY <1>1, <1>2, <1>3, <1>4, CallGoes DEF Begin, tables

LEMMA TickStep ==
  ASSUME EvidenceInv, Tick
  PROVE  EvidenceInv'
<1>1. /\ time' = time + 1 /\ time \in Nat
      /\ UNCHANGED <<identities, counted, revoked, handler, acknowledged>>
  BY DEF Tick, tables, EvidenceInv, Tables
<1>2. Tables' /\ OneHolds' /\ RowsAreTrue' /\ CountedOnce' /\ AcknowledgedIsCounted'
  BY <1>1 DEF EvidenceInv, Tables, OneHolds, RowsAreTrue, CountedOnce, AcknowledgedIsCounted, Its
<1>3. CallsAreSure'
  <2> SUFFICES ASSUME NEW h \in Handler PROVE CallSure(h)'
    BY DEF CallsAreSure
  <2>1. CallSure(h) /\ handler[h].began \in Int
    BY DEF EvidenceInv, CallsAreSure, Tables
  <2>2. handler[h].phase # "idle" => time + 1 <= handler[h].began + Patience
    BY <1>1, <2>1, EvidenceAssumption DEF Tick, At
  <2> QED
    BY <1>1, <2>1, <2>2 DEF CallSure, Its, Seen
<1>4. CountedIsKnown'
  <2> SUFFICES ASSUME NEW m \in Message, counted[m] > 0 PROVE Remembered(m)'
    BY <1>1 DEF CountedIsKnown
  <2>1. at[m] \in Int /\ Remembered(m)
    BY EvidenceAssumption DEF EvidenceInv, CountedIsKnown
  <2> QED
    BY <1>1, <2>1, EvidenceAssumption DEF Remembered
<1> QED
  BY <1>2, <1>3, <1>4 DEF EvidenceInv

\* A heartbeat that is forgotten is too old for the window, and will be for any
\* call under way.
LEMMA ForgetStep ==
  ASSUME EvidenceInv, NEW i \in Id, Forget(i)
  PROVE  EvidenceInv'
<1> DEFINE m == identities[i].message
<1>1. /\ \A j \in Id : identities'[j] = IF j = i THEN Forgotten ELSE identities[j]
      /\ UNCHANGED <<time, counted, revoked, handler, acknowledged>>
  BY DEF Forget, EvidenceInv, Tables
<1>2. Tables' /\ OneHolds' /\ CountedOnce' /\ AcknowledgedIsCounted'
  <2>1. Forgotten \in [message : Message \cup {NoMessage}, received : Int]
    BY DEF Forgotten
  <2>2. Tables'
    BY <1>1, <2>1 DEF Forget, EvidenceInv, Tables
  <2>3. OneHolds' /\ CountedOnce' /\ AcknowledgedIsCounted'
    BY <1>1 DEF EvidenceInv, OneHolds, CountedOnce, AcknowledgedIsCounted, Its
  <2> QED
    BY <2>2, <2>3
<1>3. CallsAreSure'
  <2> SUFFICES ASSUME NEW h \in Handler PROVE CallSure(h)'
    BY DEF CallsAreSure
  <2>1. CallSure(h)
    BY DEF EvidenceInv, CallsAreSure
  <2>2. handler[h].phase \in Holding => Its(h) \in Message /\ id[Its(h)] \in Id
    BY <2>1 DEF CallSure, Holding, Id
  <2>3. handler[h].phase \in Holding => Seen(h)' = Forgotten
    BY <1>1, <2>1, <2>2 DEF CallSure, Seen, Its
  <2> QED
    BY <1>1, <2>1, <2>3 DEF CallSure, Its
<1>4. RowsAreTrue'
  BY <1>1 DEF EvidenceInv, RowsAreTrue
<1>5. at[m] + Skew + Patience < time /\ IsBeat(m) /\ m \in Message
  <2>1. /\ m \in Message /\ IsBeat(m) /\ at[m] <= identities[i].received + Patience + Skew
        /\ identities[i].received < time - Day
    BY DEF Forget, Forgettable, EvidenceInv, RowsAreTrue, IsBeat
  <2>2. at[m] \in Int /\ identities[i].received \in Int /\ time \in Int
    BY <2>1, EvidenceAssumption DEF EvidenceInv, Tables
  <2> QED
    BY <2>1, <2>2, EvidenceAssumption
<1>6. CountedIsKnown'
  <2> SUFFICES ASSUME NEW n \in Message, counted[n] > 0 PROVE Remembered(n)'
    BY <1>1 DEF CountedIsKnown
  <2>1. Remembered(n) /\ id[n] \in Id
    BY DEF EvidenceInv, CountedIsKnown, Id
  <2>2. CASE n = m
    BY <1>1, <1>5, <2>2 DEF Remembered
  <2>3. CASE n # m
    BY <1>1, <2>1, <2>3 DEF Remembered
  <2> QED
    BY <2>2, <2>3
<1> QED
  BY <1>2, <1>3, <1>4, <1>6 DEF EvidenceInv

LEMMA RevokeStep ==
  ASSUME EvidenceInv, NEW keys, Revoke(keys)
  PROVE  EvidenceInv'
<1>1. UNCHANGED <<time, identities, counted, handler, acknowledged>> /\ revoked' = revoked \cup keys
  BY DEF Revoke, tables
<1>2. CallsAreSure'
  BY <1>1 DEF EvidenceInv, CallsAreSure, CallSure, Revoke, InUse, Keyed, Its, Seen
<1> QED
  BY <1>1, <1>2 DEF EvidenceInv, Tables, OneHolds, RowsAreTrue, CountedIsKnown, Remembered, CountedOnce,
     AcknowledgedIsCounted, Its

LEMMA EvidenceSteps == EvidenceInv /\ [EvidenceNext]_evidenceVars => EvidenceInv'
<1> SUFFICES ASSUME EvidenceInv, [EvidenceNext]_evidenceVars PROVE EvidenceInv'
  OBVIOUS
<1>1. ASSUME NEW h \in Handler, Statement(h) PROVE EvidenceInv'
  BY <1>1, StatementSteps, CommitStep
<1>2. ASSUME NEW h \in Handler, Fail(h) \/ Victim(h) PROVE EvidenceInv'
  BY <1>2, CallEnds DEF Fail, Victim, tables
<1>3. CASE UNCHANGED evidenceVars
  BY <1>3 DEF evidenceVars, tables, EvidenceInv, Tables, CallsAreSure, CallSure, OneHolds, RowsAreTrue,
     CountedIsKnown, Remembered, CountedOnce, AcknowledgedIsCounted, Its, Seen
<1> QED
  BY <1>1, <1>2, <1>3, BeginStep, TickStep, ForgetStep, RevokeStep DEF EvidenceNext

LEMMA EvidenceInvHolds == EvidenceSpec => []EvidenceInv
BY EvidenceStarts, EvidenceSteps, PTL DEF EvidenceSpec

\* No message takes effect twice, for any messages, calls at a time and window,
\* as long as a day is at least twice the window and the longest transaction;
\* who is told that it is taken can rely on it; an identity is one receipt's.
THEOREM MessagesCountOnce == EvidenceSpec => []TakenOnce
<1>1. EvidenceInv => OneReceiptPerIdentity
  BY DEF EvidenceInv, CountedIsKnown, Remembered, IsBeat, OneReceiptPerIdentity
<1>2. EvidenceInv => TakenOnce
  BY <1>1 DEF EvidenceInv, TakenOnce
<1> QED
  BY <1>2, EvidenceInvHolds, PTL

\* Nothing signed with a key takes effect once the key is revoked: the call that
\* commits has it locked.
THEOREM RevokedCountsNothing == EvidenceSpec => RevokedTakesNothing
<1>1. EvidenceInv /\ [EvidenceNext]_evidenceVars =>
        [\A m \in Message : key[m] \in revoked => counted'[m] = counted[m]]_evidenceVars
  <2> SUFFICES ASSUME EvidenceInv, EvidenceNext, NEW m \in Message, key[m] \in revoked
               PROVE  counted'[m] = counted[m]
    OBVIOUS
  <2>1. ASSUME NEW h \in Handler, Commit(h) PROVE counted'[m] = counted[m]
    <3>1. Its(h) # m
      BY <2>1 DEF EvidenceInv, CallsAreSure, CallSure, Commit, Keyed, Shared
    <3> QED
      BY <2>1, <3>1 DEF Commit, EvidenceInv, Tables
  <2> QED
    BY <2>1 DEF EvidenceNext, Statement, Begin, Check, Look, Insert, Reread, Beat, Record, Fail, Victim,
       Tick, Forget, Revoke, tables
<1> QED
  BY <1>1, EvidenceInvHolds, PTL DEF EvidenceSpec, RevokedTakesNothing

\* The latest heartbeat is the one of a row that was counted, and none is later.
LEMMA CommitKeepsLatest ==
  ASSUME EvidenceInv, HeartbeatIsLatest, lastHeartbeat \in Nat, NEW h \in Handler, Commit(h)
  PROVE  HeartbeatIsLatest' /\ lastHeartbeat' \in Nat
<1> DEFINE m == Its(h)
           Beats == {n \in Message : kind[n] = "heartbeat" /\ counted[n] > 0}
<1>1. m \in Message /\ at[m] \in Nat /\ \A n \in Message : at[n] \in Nat
  BY NotYetCounted, EvidenceAssumption DEF Commit, Holding
<1>2. \A n \in Message : counted'[n] > 0 <=> n = m \/ counted[n] > 0
  BY <1>1 DEF Commit, EvidenceInv, Tables
<1>3. CASE At(h, "beaten")
  <2>1. IsBeat(m)
    BY <1>3 DEF EvidenceInv, CallsAreSure, CallSure, At
  <2>2. Beats' = Beats \cup {m}
    BY <1>1, <1>2, <2>1 DEF IsBeat
  <2>3. lastHeartbeat' = IF lastHeartbeat > at[m] THEN lastHeartbeat ELSE at[m]
    BY <1>3 DEF Commit, Latest
  <2> QED
    BY <1>1, <2>2, <2>3 DEF HeartbeatIsLatest
<1>4. CASE ~At(h, "beaten")
  <2>1. ~IsBeat(m)
    BY <1>4 DEF EvidenceInv, CallsAreSure, CallSure, At, Commit
  <2>2. Beats' = Beats /\ lastHeartbeat' = lastHeartbeat
    BY <1>1, <1>2, <1>4, <2>1 DEF IsBeat, Commit
  <2> QED
    BY <2>2 DEF HeartbeatIsLatest
<1> QED
  BY <1>3, <1>4

\* The device was last heard of at the latest heartbeat recorded, in whichever
\* order heartbeats arrive and are committed.
THEOREM LastHeartbeatIsLatest == EvidenceSpec => []HeartbeatIsLatest
<1> DEFINE Inv == EvidenceInv /\ HeartbeatIsLatest /\ lastHeartbeat \in Nat
<1>1. EvidenceInit => Inv
  BY EvidenceStarts DEF EvidenceInit, HeartbeatIsLatest
<1>2. Inv /\ [EvidenceNext]_evidenceVars => Inv'
  <2> SUFFICES ASSUME Inv, [EvidenceNext]_evidenceVars
               PROVE  HeartbeatIsLatest' /\ lastHeartbeat' \in Nat
    BY EvidenceSteps
  <2>1. ASSUME NEW h \in Handler, Commit(h) PROVE HeartbeatIsLatest' /\ lastHeartbeat' \in Nat
    BY <2>1, CommitKeepsLatest
  <2>2. ASSUME UNCHANGED <<counted, lastHeartbeat>>
        PROVE  HeartbeatIsLatest' /\ lastHeartbeat' \in Nat
    BY <2>2 DEF HeartbeatIsLatest
  <2> QED
    BY <2>1, <2>2 DEF EvidenceNext, Statement, Begin, Check, Look, Insert, Reread, Beat, Record, Fail,
       Victim, Tick, Forget, Revoke, tables, evidenceVars
<1> QED
  BY <1>1, <1>2, PTL DEF EvidenceSpec

\* What a COMMIT does is what taking one message at a time would do.
LEMMA CommitTakes ==
  ASSUME EvidenceInv, NEW h \in Handler, Commit(h)
  PROVE  OneAtATime!Take(Its(h))
<1> DEFINE m == Its(h)
<1>1. /\ m \in Message /\ counted[m] = 0 /\ Seen(h) = Forgotten /\ key[m] \notin revoked
      /\ handler[h].phase = "beaten" => IsBeat(m)
      /\ handler[h].phase = "recorded" => ~IsBeat(m)
  BY NotYetCounted DEF Commit, Holding, EvidenceInv, CallsAreSure, CallSure, Keyed, Shared
<1>2. kind[m] \in {"receipt", "heartbeat"} /\ id[m] \in Id
  BY <1>1, EvidenceAssumption DEF Id
<1>3. \A n \in OneAtATime!Twins(m) : counted[n] = 0
  <2> SUFFICES ASSUME NEW n \in Message, id[n] = id[m], kind[n] = "receipt", counted[n] > 0
               PROVE  FALSE
    BY DEF OneAtATime!Twins, EvidenceInv, Tables
  <2>1. identities[id[m]].message = n
    BY DEF EvidenceInv, CountedIsKnown, Remembered, IsBeat
  <2> QED
    BY <1>1, <2>1, EvidenceAssumption DEF Seen, Forgotten
<1>4. counted' = [counted EXCEPT ![m] = 1] /\ UNCHANGED <<time, revoked>>
      /\ acknowledged' = acknowledged \cup {m}
  <2>1. counted[m] + 1 = 1
    BY <1>1
  <2> QED
    BY <2>1 DEF Commit
<1>5. CASE At(h, "beaten")
  <2>1. kind[m] = "heartbeat" /\ time <= at[m] + Skew + Patience
    BY <1>1, <1>5, NotTooOld DEF At, IsBeat, Past
  <2>2. at[m] + Skew + Patience = at[m] + (Skew + Patience)
    BY <1>1, EvidenceAssumption
  <2>3. lastHeartbeat' = IF lastHeartbeat > at[m] THEN lastHeartbeat ELSE at[m]
    BY <1>5 DEF Commit, Latest
  <2> QED
    BY <1>1, <1>3, <1>4, <2>1, <2>2, <2>3 DEF OneAtATime!Take
<1>6. CASE ~At(h, "beaten")
  <2>1. kind[m] = "receipt" /\ lastHeartbeat' = lastHeartbeat
    BY <1>1, <1>2, <1>6 DEF Commit, At, IsBeat
  <2> QED
    BY <1>1, <1>3, <1>4, <2>1 DEF OneAtATime!Take
<1> QED
  BY <1>5, <1>6

\* A call that finds its message tells of it, under a key that is still good.
LEMMA FoundIsTold ==
  ASSUME EvidenceInv, NEW h \in Handler, Look(h) \/ Reread(h)
  PROVE  \/ \E m \in Message : OneAtATime!Tell(m)
         \/ UNCHANGED OneAtATime!intakeVars
<1>1. UNCHANGED <<time, counted, lastHeartbeat, revoked>>
      /\ (acknowledged' = acknowledged \/ acknowledged' = Tells(h))
  BY DEF Look, Reread, tables
<1>2. CASE acknowledged' = acknowledged
  BY <1>1, <1>2 DEF OneAtATime!intakeVars
<1>3. CASE Seen(h).message = Its(h) /\ acknowledged' = acknowledged \cup {Its(h)}
  <2>1. Its(h) \in Message /\ key[Its(h)] \notin revoked
    BY DEF Look, Reread, At, EvidenceInv, CallsAreSure, CallSure, Keyed, Shared
  <2>2. counted[Its(h)] > 0
    <3>1. id[Its(h)] \in Id
      BY <2>1 DEF Id
    <3> QED
      BY <1>3, <2>1, <3>1, EvidenceAssumption DEF EvidenceInv, RowsAreTrue, Seen, Forgotten
  <2> QED
    BY <1>1, <1>3, <2>1, <2>2 DEF OneAtATime!Tell
<1> QED
  BY <1>1, <1>2, <1>3 DEF Tells

\* Overlapping calls, forgotten rows and revoked keys implement a device's
\* intake that takes one message at a time and forgets nothing.
THEOREM ImplementsIntake == EvidenceSpec => IsIntake
<1>1. EvidenceInit => OneAtATime!IntakeInit
  BY DEF EvidenceInit, OneAtATime!IntakeInit
<1>2. EvidenceInv /\ [EvidenceNext]_evidenceVars
        => [OneAtATime!IntakeNext]_(OneAtATime!intakeVars)
  <2> SUFFICES ASSUME EvidenceInv, [EvidenceNext]_evidenceVars
               PROVE  OneAtATime!IntakeNext \/ UNCHANGED OneAtATime!intakeVars
    OBVIOUS
  <2>1. ASSUME NEW h \in Handler, Commit(h) PROVE OneAtATime!IntakeNext
    <3>1. Its(h) \in Message
      BY <2>1, NotYetCounted DEF Commit, Holding
    <3> QED
      BY <2>1, <3>1, CommitTakes DEF OneAtATime!IntakeNext
  <2>2. ASSUME NEW h \in Handler, Look(h) \/ Reread(h)
        PROVE  OneAtATime!IntakeNext \/ UNCHANGED OneAtATime!intakeVars
    BY <2>2, FoundIsTold DEF OneAtATime!IntakeNext
  <2>3. CASE Tick
    <3>1. time \in Nat
      BY DEF EvidenceInv, Tables
    <3> QED
      BY <2>3, <3>1 DEF Tick, tables, OneAtATime!TimePasses, OneAtATime!IntakeNext
  <2>4. ASSUME NEW keys, Revoke(keys) PROVE OneAtATime!IntakeNext
    BY <2>4 DEF Revoke, tables, OneAtATime!Revoke, OneAtATime!IntakeNext
  <2>5. ASSUME UNCHANGED <<time, counted, lastHeartbeat, revoked, acknowledged>>
        PROVE  UNCHANGED OneAtATime!intakeVars
    BY <2>5 DEF OneAtATime!intakeVars
  <2>6. UNCHANGED evidenceVars \/ (\E h \in Handler, m \in Message : Begin(h, m))
          \/ (\E h \in Handler : Check(h) \/ Insert(h) \/ Beat(h) \/ Record(h) \/ Fail(h) \/ Victim(h))
          \/ (\E i \in Id : Forget(i))
        => UNCHANGED <<time, counted, lastHeartbeat, revoked, acknowledged>>
    BY DEF evidenceVars, tables, Begin, Check, Insert, Beat, Record, Fail, Victim, Forget
  <2> QED
    BY <2>1, <2>2, <2>3, <2>4, <2>5, <2>6 DEF EvidenceNext, Statement
<1> QED
  BY <1>1, <1>2, EvidenceInvHolds, PTL DEF EvidenceSpec, IsIntake, OneAtATime!IntakeSpec

\* Calls that wait for each other are heartbeats, or share the identity of one
\* that is: a receipt waits for a key or an identity, and who has either waits for
\* nobody, unless it is a heartbeat.
THEOREM OnlyHeartbeatsDeadlock == EvidenceSpec => []ReceiptsNeverDeadlock
<1>1. ReceiptsNeverDeadlock
  <2> SUFFICES ASSUME NEW H \in SUBSET Handler, Circle(H), NEW h \in H
               PROVE  \E g \in H : kind[Its(g)] = "heartbeat" /\ (g = h \/ id[Its(g)] = id[Its(h)])
    BY DEF ReceiptsNeverDeadlock
  <2>1. \A f \in H : \E g \in H : g \in WaitsFor(f)
    BY DEF Circle
  <2>2. \A f \in H : handler[f].phase \in {"begun", "unseen", "inserted"}
                    /\ (At(f, "inserted") => kind[Its(f)] = "heartbeat")
    BY <2>1 DEF WaitsFor, Updates, At
  <2>3. PICK g \in H : g \in WaitsFor(h)
    BY <2>1
  <2> QED
    BY <2>2, <2>3 DEF WaitsFor, Updates, HoldsId, At
<1> QED
  BY <1>1, PTL

\* Times stay within the run's, failures within their bound, and the call of a
\* handler at work has a message and has begun in the past.
THEOREM EvidenceIsTyped == EvidenceSpec => []EvidenceTypeOK
<1> DEFINE Types == EvidenceTypeOK /\ EvidenceInv
<1>1. EvidenceInit => Types
  <2> SUFFICES ASSUME EvidenceInit PROVE EvidenceTypeOK
    BY EvidenceStarts
  <2> QED
    BY EvidenceAssumption DEF EvidenceInit, EvidenceTypeOK, Forgotten, Idle, Phase
<1>2. Types /\ [EvidenceNext]_evidenceVars => Types'
  <2> SUFFICES ASSUME Types, [EvidenceNext]_evidenceVars PROVE EvidenceTypeOK'
    BY EvidenceSteps
  <2> USE EvidenceAssumption
  <2>1. \A h \in Handler : Idle \in [phase : Phase, message : Message \cup {NoMessage}, began : 0..MaxTime]
    BY DEF Idle, Phase
  <2>2. CASE UNCHANGED evidenceVars
    BY <2>2 DEF evidenceVars, tables, EvidenceTypeOK
  <2>3. ASSUME NEW h \in Handler, NEW m \in Message, Begin(h, m) PROVE EvidenceTypeOK'
    BY <2>3 DEF Begin, Now, tables, EvidenceTypeOK, Phase
  <2>4. ASSUME NEW h \in Handler, ~At(h, "idle"), NEW phase \in Phase, Goes(h, phase),
               UNCHANGED <<time, tables, revoked, failures>>,
               acknowledged' = acknowledged
        PROVE  EvidenceTypeOK'
    BY <2>4 DEF Goes, At, tables, EvidenceTypeOK
  <2>5. ASSUME NEW h \in Handler, Ends(h), UNCHANGED <<time, tables, revoked>>,
               failures' \in 0..MaxFailures, acknowledged' \in SUBSET Message
        PROVE  EvidenceTypeOK'
    BY <2>5 DEF Ends, Idle, Phase, tables, EvidenceTypeOK
  <2>6. ASSUME NEW h \in Handler, Statement(h), ~Commit(h) PROVE EvidenceTypeOK'
    <3>1. ~At(h, "idle") /\ Its(h) \in Message
      BY <2>6 DEF Statement, Check, Look, Insert, Reread, Beat, Record, Updates, At, Its, EvidenceTypeOK
    <3>2. Tells(h) \in SUBSET Message
      BY <3>1 DEF Tells, EvidenceTypeOK
    <3>3. failures \in 0..MaxFailures /\ acknowledged \in SUBSET Message
      BY DEF EvidenceTypeOK
    <3>4. Shared \cup {"beaten"} \subseteq Phase
      BY DEF Phase
    <3> QED
      BY <2>4, <2>5, <2>6, <3>1, <3>2, <3>3, <3>4
         DEF Statement, Check, Look, Insert, Reread, Beat, Record, Shared, tables
  <2>7. ASSUME NEW h \in Handler, Commit(h) PROVE EvidenceTypeOK'
    <3>1. Its(h) \in Message /\ id[Its(h)] \in Id /\ at[Its(h)] \in Nat /\ Received(h) \in 0..MaxTime
      BY <2>7 DEF Commit, Id, Its, Received, EvidenceTypeOK
    <3>2. lastHeartbeat' \in Nat
      BY <2>7, <3>1 DEF Commit, Latest, EvidenceTypeOK
    <3>3. \A i \in Id : identities'[i] = IF i = id[Its(h)] THEN [message |-> Its(h), received |-> Received(h)]
                                           ELSE identities[i]
      BY <2>7 DEF Commit, EvidenceTypeOK
    <3>4. identities' \in [Id -> [message : Message, received : 0..MaxTime] \cup {Forgotten}]
      BY <2>7, <3>1 DEF Commit, EvidenceTypeOK
    <3>5. \A i \in Id : identities'[i].message # NoMessage => id[identities'[i].message] = i
      BY <3>1, <3>3 DEF EvidenceTypeOK
    <3>6. counted' \in [Message -> Nat]
      BY <2>7, <3>1 DEF Commit, EvidenceTypeOK
    <3> QED
      BY <2>7, <3>1, <3>2, <3>4, <3>5, <3>6, <2>1 DEF Commit, Ends, Idle, EvidenceTypeOK
  <2>8. ASSUME NEW h \in Handler, Fail(h) \/ Victim(h) PROVE EvidenceTypeOK'
    <3>1. failures' \in 0..MaxFailures /\ acknowledged' \in SUBSET Message
      BY <2>8 DEF Fail, Victim, EvidenceTypeOK
    <3> QED
      BY <2>5, <2>8, <3>1 DEF Fail, Victim, tables
  <2>9. CASE Tick
    BY <2>9 DEF Tick, tables, EvidenceTypeOK
  <2>10. ASSUME NEW i \in Id, Forget(i) PROVE EvidenceTypeOK'
    <3>1. \A j \in Id : identities'[j] = IF j = i THEN Forgotten ELSE identities[j]
      BY <2>10 DEF Forget, EvidenceTypeOK
    <3>2. identities' \in [Id -> [message : Message, received : 0..MaxTime] \cup {Forgotten}]
      BY <2>10 DEF Forget, EvidenceTypeOK
    <3>3. \A j \in Id : identities'[j].message # NoMessage => id[identities'[j].message] = j
      BY <3>1 DEF EvidenceTypeOK, Forgotten
    <3> QED
      BY <2>10, <3>2, <3>3 DEF Forget, EvidenceTypeOK
  <2>11. ASSUME NEW keys \in SUBSET Version, Revoke(keys) PROVE EvidenceTypeOK'
    BY <2>11 DEF Revoke, tables, EvidenceTypeOK
  <2> QED
    BY <2>2, <2>3, <2>6, <2>7, <2>8, <2>9, <2>10, <2>11 DEF EvidenceNext
<1> QED
  BY <1>1, <1>2, PTL DEF EvidenceSpec

=============================================================================
