--------------------------- MODULE ConsoleProofs ---------------------------
(***************************************************************************)
(* What the console shows, for any tokens, merchants, memberships, requests *)
(* under way and clicks.  The inductive invariant says what requests carry  *)
(* with them: who may read their answers, and that only those of a replay   *)
(* are taken for another place's than the one they were made for.           *)
(***************************************************************************)
EXTENDS Console, FiniteSetTheorems, TLAPS

\* What the argument needs of the types.
Shape ==
  /\ session \in Token \cup {NoToken}
  /\ flight \in [Slot -> Flight \cup {Free}]
  /\ investigating \in BOOLEAN
  /\ tab \in Tab /\ page \in Page
  /\ merchant \in Merchant \cup {NoMerchant}

\* A request has a sender and keeps the place it was made at, unless it is the
\* refresh a replay ends with; investigations are asked for on their tab; and
\* what is answered is what the sender may read.
Owned(f) ==
  /\ f.of.token \in Token
  /\ f.kind # "refresh" \/ f.item # "replay" => f.scope = f.of
  /\ f.kind \in {"evidence", "investigation"} => f.of.tab = "investigation"
  /\ f.status = "ok" => f.of.merchant \in member[f.of.token]

RequestsAreOwned == \A s \in Slot : flight[s] # Free => Owned(flight[s])

\* The flag says whether there is an investigation, of which there is but one,
\* and no result of another one is on screen meanwhile.
InvestigationIsAlone ==
  /\ \A s \in Slot : s \in Investigations => investigating
  /\ investigating => \E s \in Slot : s \in Investigations
  /\ \A r, s \in Investigations : r = s
  /\ investigating => result = NoView

\* A result is shown on its tab, which has no pages to turn.
ResultIsOnItsTab == Signed /\ result # NoView => tab = "investigation"

ScreenInv == ScreenIsRight /\ ResultIsOnItsTab /\ CitationsResolve

ConsoleInv ==
  /\ Shape
  /\ RequestsAreOwned
  /\ InvestigationIsAlone
  /\ ScreenInv

LEMMA ConsoleStarts == ConsoleInit => ConsoleInv
<1> SUFFICES ASSUME ConsoleInit PROVE ConsoleInv
  OBVIOUS
<1>1. Shape
  <2>1. 0 \in Page /\ "incidents" \in Tab
    BY ConsoleAssumption DEF Page, Tab
  <2>2. flight \in [Slot -> Flight \cup {Free}]
    BY DEF ConsoleInit
  <2> QED
    BY <2>1, <2>2 DEF ConsoleInit, Shape
<1>2. RequestsAreOwned /\ InvestigationIsAlone
  BY DEF ConsoleInit, RequestsAreOwned, InvestigationIsAlone, Investigations
<1>3. ScreenInv
  BY DEF ConsoleInit, ScreenInv, ScreenIsRight, DetailsAreRight, RowsAreRight, MaySee,
     ResultIsOnItsTab, CitationsResolve
<1> QED
  BY <1>1, <1>2, <1>3 DEF ConsoleInv

\* What a step of the user that sends nothing leaves of the requests.
LEMMA RequestsKept ==
  ASSUME ConsoleInv, UNCHANGED <<flight, investigating>>, result' \in {result, NoView}
  PROVE  RequestsAreOwned' /\ InvestigationIsAlone'
<1>1. RequestsAreOwned'
  BY DEF ConsoleInv, RequestsAreOwned
<1>2. InvestigationIsAlone'
  BY DEF ConsoleInv, InvestigationIsAlone, Investigations
<1> QED
  BY <1>1, <1>2

\* Everything is cleared.
Cleared == rows' = NoView /\ detail' = NoView /\ result' = NoView

LEMMA ClearedIsRight ==
  ASSUME ConsoleInv, Cleared, Shape', UNCHANGED <<flight, investigating>>
  PROVE  ConsoleInv'
<1>1. ScreenInv'
  BY DEF Cleared, ScreenInv, ScreenIsRight, DetailsAreRight, RowsAreRight, MaySee,
     ResultIsOnItsTab, CitationsResolve
<1> QED
  BY <1>1, RequestsKept DEF ConsoleInv, Cleared

\* A slot gets another request, or none.
LEMMA SlotIsPut ==
  ASSUME ConsoleInv, NEW s \in Slot, NEW f \in Flight \cup {Free}, f # Free => Owned(f),
         flight' = [flight EXCEPT ![s] = f]
  PROVE  /\ flight' \in [Slot -> Flight \cup {Free}]
         /\ \A r \in Slot : flight'[r] = IF r = s THEN f ELSE flight[r]
         /\ RequestsAreOwned'
<1>1. \A r \in Slot : flight'[r] = IF r = s THEN f ELSE flight[r]
  BY DEF ConsoleInv, Shape
<1>2. flight' \in [Slot -> Flight \cup {Free}]
  BY DEF ConsoleInv, Shape
<1>3. RequestsAreOwned'
  BY <1>1, Zenon DEF ConsoleInv, RequestsAreOwned, Owned
<1> QED
  BY <1>1, <1>2, <1>3

Investigates(f) == f # Free /\ f.kind \in {"evidence", "investigation"}

\* The slot was and is used for something else, or by the one investigation.
LEMMA StillAlone ==
  ASSUME ConsoleInv, NEW s \in Slot, NEW f, Investigates(f) <=> Investigates(flight[s]),
         \A r \in Slot : flight'[r] = IF r = s THEN f ELSE flight[r],
         investigating' = investigating, investigating => result' = NoView
  PROVE  InvestigationIsAlone'
<1>1. Investigations' = Investigations
  BY DEF Investigations, Investigates
<1> QED
  BY <1>1 DEF ConsoleInv, InvestigationIsAlone

\* The slot is free, and the flag says so.
LEMMA AloneAtLast ==
  ASSUME ConsoleInv, NEW s \in Slot,
         \A r \in Slot : flight'[r] = IF r = s THEN Free ELSE flight[r],
         investigating' = (investigating /\ ~Investigates(flight[s])),
         investigating' => result' = NoView
  PROVE  InvestigationIsAlone'
<1>1. Investigations' = Investigations \ {s}
  BY DEF Investigations
<1> QED
  BY <1>1 DEF ConsoleInv, InvestigationIsAlone, Investigations, Investigates

LEMMA ScopeType ==
  ASSUME ConsoleInv
  PROVE  ActiveScope \in Scope /\ (Signed => ActiveScope.token \in Token)
BY DEF ConsoleInv, Shape, ActiveScope, Scope, Signed

\* A request of a kind other than the second one of an investigation is sent.
LEMMA Sending ==
  ASSUME ConsoleInv, Signed, NEW s \in Slot, NEW i \in Subject,
         NEW kind \in Kind, Sends(s, kind, i),
         kind \in {"evidence", "investigation"} => tab = "investigation"
  PROVE  /\ flight' \in [Slot -> Flight \cup {Free}]
         /\ \A r \in Slot :
              flight'[r] = IF r = s THEN Sent(kind, ActiveScope, ActiveScope, i) ELSE flight[r]
         /\ RequestsAreOwned'
<1> DEFINE f == Sent(kind, ActiveScope, ActiveScope, i)
<1>1. f \in Flight /\ Owned(f)
  BY ScopeType, ConsoleAssumption DEF Sent, Flight, Owned, Version, ActiveScope
<1> QED
  BY <1>1, SlotIsPut DEF Sends

\* The screen stays as it is.
LEMMA Unseen ==
  ASSUME ConsoleInv, UNCHANGED <<place, shown>>
  PROVE  ScreenInv'
BY DEF ConsoleInv, place, shown, ScreenInv, ScreenIsRight, DetailsAreRight, RowsAreRight,
   MaySee, ResultIsOnItsTab, CitationsResolve, Citations, Anchors, Signed, AtPlace

\* A request is sent that is no part of an investigation.
LEMMA SentApart ==
  ASSUME ConsoleInv, Signed, NEW s \in Slot, NEW i \in Subject,
         NEW kind \in {"refresh", "inspect", "replay"}, Sends(s, kind, i),
         UNCHANGED <<place, shown, investigating>>
  PROVE  ConsoleInv'
<1> DEFINE f == Sent(kind, ActiveScope, ActiveScope, i)
<1>1. /\ flight' \in [Slot -> Flight \cup {Free}]
      /\ \A r \in Slot : flight'[r] = IF r = s THEN f ELSE flight[r]
      /\ RequestsAreOwned'
  BY Sending DEF Kind
<1>2. ~Investigates(f) /\ ~Investigates(flight[s])
  BY DEF Investigates, Sent, Sends
<1>3. InvestigationIsAlone'
  <2>1. investigating => result' = NoView
    BY DEF ConsoleInv, InvestigationIsAlone, shown
  <2> HIDE DEF f
  <2> QED
    BY <1>1, <1>2, <2>1, StillAlone
<1>4. Shape'
  BY <1>1 DEF ConsoleInv, Shape, place
<1> QED
  BY <1>1, <1>3, <1>4, Unseen DEF ConsoleInv

LEMMA UserSteps ==
  ASSUME ConsoleInv, User
  PROVE  ConsoleInv'
<1> USE DEF ConsoleInv
<1>1. CASE \E t \in Token : LogIn(t)
  BY <1>1, ClearedIsRight DEF LogIn, Cleared, Shape
<1>2. CASE SignOut
  BY <1>2, ClearedIsRight DEF SignOut, EndSession, Cleared, Shape
<1>3. CASE \E m \in Merchant : SelectMerchant(m)
  BY <1>3, ClearedIsRight, ConsoleAssumption DEF SelectMerchant, Cleared, Shape, Page
<1>4. CASE CloseDetail
  <2>1. Shape'
    BY <1>4 DEF CloseDetail, place, Shape
  <2>2. ScreenInv'
    BY <1>4 DEF CloseDetail, place, ScreenInv, ScreenIsRight, DetailsAreRight, RowsAreRight,
       MaySee, ResultIsOnItsTab, CitationsResolve, Signed, AtPlace
  <2> QED
    BY <1>4, <2>1, <2>2, RequestsKept DEF CloseDetail
<1>5. CASE \E t \in Tab : OpenTab(t)
  <2> PICK t \in Tab : OpenTab(t)
    BY <1>5
  <2>1. Shape'
    BY ConsoleAssumption DEF OpenTab, Shape, Page
  <2>2. ScreenInv'
    BY DEF OpenTab, DetailLeft, ScreenInv, ScreenIsRight, DetailsAreRight, RowsAreRight, MaySee,
       ResultIsOnItsTab, CitationsResolve, Signed, AtPlace
  <2> QED
    BY <2>1, <2>2, RequestsKept DEF OpenTab
<1>6. CASE \E p \in PagesNext : TurnPage(p)
  <2> PICK p \in PagesNext : TurnPage(p)
    BY <1>6
  <2>1. Shape'
    BY DEF TurnPage, PagesNext, Shape
  <2>2. ScreenInv'
    BY DEF TurnPage, ScreenInv, ScreenIsRight, DetailsAreRight, RowsAreRight, MaySee,
       ResultIsOnItsTab, CitationsResolve, Signed, AtPlace
  <2> QED
    BY <2>1, <2>2, RequestsKept DEF TurnPage
<1>7. CASE \E s \in Slot, i \in Item : Inspect(s, i) \/ Investigate(s, i)
  <2> PICK s \in Slot, i \in Item : Inspect(s, i) \/ Investigate(s, i)
    BY <1>7
  <2>1. CASE Inspect(s, i)
    BY <2>1, SentApart DEF Inspect, Subject
  <2>2. CASE Investigate(s, i)
    <3>1. Shape' /\ RequestsAreOwned'
      BY <2>2, Sending DEF Investigate, Kind, Subject, place, Shape
    <3>2. Investigations' = {s}
      BY <2>2, Sending DEF Investigate, Kind, Subject, Sends, Sent, Free, Idle, Investigations, InvestigationIsAlone
    <3>3. InvestigationIsAlone'
      BY <2>2, <3>2 DEF Investigate, InvestigationIsAlone
    <3>4. ScreenInv'
      BY <2>2 DEF Investigate, place, ScreenInv, ScreenIsRight, DetailsAreRight, RowsAreRight,
         MaySee, ResultIsOnItsTab, CitationsResolve, Citations, Signed, AtPlace
    <3> QED
      BY <3>1, <3>3, <3>4
  <2> QED
    BY <2>1, <2>2
<1>8. CASE \E s \in Slot : Replay(s)
  BY <1>8, SentApart DEF Replay, Subject
<1> QED
  BY <1>1, <1>2, <1>3, <1>4, <1>5, <1>6, <1>7, <1>8 DEF User

\* A request gets an answer, or is made another one of the same kind.
LEMMA Answering ==
  ASSUME ConsoleInv, version \in Version, NEW s \in Slot, Answer(s)
  PROVE  ConsoleInv'
<1> DEFINE f == [flight[s] EXCEPT !.status = Answered(flight[s].of), !.version = Told(s)]
<1>1. flight[s] \in Flight /\ Owned(flight[s])
  BY DEF ConsoleInv, Shape, RequestsAreOwned, Answer, Waiting
<1>2. f \in Flight
  <2>1. Answered(flight[s].of) \in {"waiting", "ok", "refused", "unauthorized"}
    BY DEF Answered
  <2>2. Told(s) \in Version
    BY ConsoleAssumption DEF Told, Version
  <2> HIDE DEF Answered, Told
  <2> QED
    BY <1>1, <2>1, <2>2 DEF Flight
<1>3. Owned(f)
  BY <1>1 DEF Owned, Answered, Flight
<1>4. flight' = [flight EXCEPT ![s] = f]
  BY DEF Answer
<1>5. f # Free /\ (Investigates(f) <=> Investigates(flight[s]))
  BY <1>1 DEF Investigates, Flight, Free, Answer, Waiting, Kind
<1> HIDE DEF f
<1>6. /\ flight' \in [Slot -> Flight \cup {Free}]
      /\ \A r \in Slot : flight'[r] = IF r = s THEN f ELSE flight[r]
      /\ RequestsAreOwned'
  BY <1>2, <1>3, <1>4, SlotIsPut
<1>7. InvestigationIsAlone'
  <2>1. investigating => result' = NoView
    BY DEF ConsoleInv, InvestigationIsAlone, Answer, shown
  <2> QED
    BY <1>5, <1>6, <2>1, StillAlone DEF Answer
<1>8. Shape'
  BY <1>6 DEF ConsoleInv, Shape, Answer, place
<1> QED
  BY <1>6, <1>7, <1>8, Unseen DEF ConsoleInv, Answer

\* A slot becomes free.
LEMMA Ending ==
  ASSUME ConsoleInv, NEW s \in Slot, Ends(s)
  PROVE  /\ flight' \in [Slot -> Flight \cup {Free}]
         /\ \A r \in Slot : flight'[r] = IF r = s THEN Free ELSE flight[r]
         /\ RequestsAreOwned'
BY SlotIsPut DEF Ends

LEMMA FailSteps ==
  ASSUME ConsoleInv, NEW s \in Slot, Fail(s) \/ Refused(s)
  PROVE  ConsoleInv'
<1>1. Ends(s) /\ investigating' = InvestigatingAfter(s) /\ flight[s] # Free
  BY DEF Fail, Waiting, Refused
<1>2. investigating' = (investigating /\ ~Investigates(flight[s]))
  BY <1>1 DEF InvestigatingAfter, Investigates
<1>3. UNCHANGED <<place, shown>> \/ (Signed /\ EndSession)
  BY DEF Fail, Refused, DropToken
<1>4. InvestigationIsAlone'
  <2>1. investigating' => result' = NoView
    BY <1>2, <1>3 DEF ConsoleInv, InvestigationIsAlone, shown, EndSession
  <2> QED
    BY <1>1, <1>2, <2>1, Ending, AloneAtLast
<1>5. investigating' \in BOOLEAN
  BY <1>2
<1>6. Shape'
  BY <1>1, <1>3, <1>5, Ending DEF ConsoleInv, Shape, place, EndSession
<1>7. ScreenInv'
  <2>1. CASE UNCHANGED <<place, shown>>
    BY <2>1, Unseen
  <2>2. CASE EndSession
    BY <2>2 DEF EndSession, ScreenInv, ScreenIsRight, DetailsAreRight, RowsAreRight, MaySee,
       ResultIsOnItsTab, CitationsResolve
  <2> QED
    BY <1>3, <2>1, <2>2
<1> QED
  BY <1>1, <1>4, <1>6, <1>7, Ending DEF ConsoleInv

\* What is put on screen was made for this place, by the one who is signed in.
LEMMA ViewIsRight ==
  ASSUME ConsoleInv, NEW s \in Slot, flight[s] # Free, flight[s].status = "ok", IsActive(s)
  PROVE  /\ ViewOf(s).of.token \in Token
         /\ ViewOf(s).of.merchant \in member[ViewOf(s).of.token]
         /\ ViewOf(s).scope = ActiveScope
         /\ ViewOf(s).item = flight[s].item
         /\ flight[s].kind # "refresh" \/ flight[s].item # "replay" => ViewOf(s).of = ActiveScope
         /\ Investigates(flight[s]) => ViewOf(s).of.tab = "investigation"
BY DEF ConsoleInv, RequestsAreOwned, Owned, ViewOf, IsActive, Investigates

LEMMA RefreshedStep ==
  ASSUME ConsoleInv, NEW s \in Slot, Refreshed(s)
  PROVE  ConsoleInv'
<1>1. Ends(s) /\ Is(s, "refresh", "ok")
  BY DEF Refreshed
<1>2. InvestigationIsAlone'
  <2>1. ~Investigates(flight[s]) /\ ~Investigates(Free)
    BY <1>1 DEF Investigates, Is
  <2>2. investigating => result' = NoView
    BY DEF ConsoleInv, InvestigationIsAlone, Refreshed
  <2> QED
    BY <1>1, <2>1, <2>2, Ending, StillAlone DEF Refreshed
<1>3. Shape'
  BY <1>1, Ending DEF ConsoleInv, Shape, Refreshed, place
<1>4. ScreenInv'
  BY <1>1, ViewIsRight DEF ConsoleInv, Is, Refreshed, place, ScreenInv, ScreenIsRight,
     DetailsAreRight, RowsAreRight, MaySee, ResultIsOnItsTab, CitationsResolve, Citations,
     Anchors, Signed, AtPlace, ActiveScope
<1> QED
  BY <1>1, <1>2, <1>3, <1>4, Ending DEF ConsoleInv

LEMMA InspectedStep ==
  ASSUME ConsoleInv, NEW s \in Slot, Inspected(s)
  PROVE  ConsoleInv'
<1>1. Ends(s) /\ Is(s, "inspect", "ok")
  BY DEF Inspected
<1>2. InvestigationIsAlone'
  <2>1. ~Investigates(flight[s]) /\ ~Investigates(Free)
    BY <1>1 DEF Investigates, Is
  <2>2. investigating => result' = NoView
    BY DEF ConsoleInv, InvestigationIsAlone, Inspected
  <2> QED
    BY <1>1, <2>1, <2>2, Ending, StillAlone DEF Inspected
<1>3. Shape'
  BY <1>1, Ending DEF ConsoleInv, Shape, Inspected, place
<1>4. ScreenInv'
  BY <1>1, ViewIsRight DEF ConsoleInv, Is, Inspected, place, ScreenInv, ScreenIsRight,
     DetailsAreRight, RowsAreRight, MaySee, ResultIsOnItsTab, CitationsResolve, Citations,
     Anchors, Signed, AtPlace, ActiveScope
<1> QED
  BY <1>1, <1>2, <1>3, <1>4, Ending DEF ConsoleInv

LEMMA InvestigatedStep ==
  ASSUME ConsoleInv, NEW s \in Slot, Investigated(s)
  PROVE  ConsoleInv'
<1>1. Ends(s) /\ Is(s, "investigation", "ok") /\ investigating' = FALSE
  BY DEF Investigated
<1>2. InvestigationIsAlone'
  BY <1>1, Ending, AloneAtLast DEF Is, Investigates
<1>3. Shape'
  BY <1>1, Ending DEF ConsoleInv, Shape, Investigated, place
<1>4. ScreenInv'
  BY <1>1, ViewIsRight DEF ConsoleInv, Is, Investigates, Investigated, place, ScreenInv,
     ScreenIsRight, DetailsAreRight, RowsAreRight, MaySee, ResultIsOnItsTab, CitationsResolve,
     Citations, Anchors, Signed, AtPlace, ActiveScope
<1> QED
  BY <1>1, <1>2, <1>3, <1>4, Ending DEF ConsoleInv

LEMMA EvidenceReadStep ==
  ASSUME ConsoleInv, NEW s \in Slot, EvidenceRead(s)
  PROVE  ConsoleInv'
<1> DEFINE f == [flight[s] EXCEPT !.kind = "investigation", !.status = "waiting"]
<1>1. Is(s, "evidence", "ok") /\ flight[s] \in Flight /\ Owned(flight[s]) /\ Investigates(flight[s])
  BY DEF ConsoleInv, Shape, RequestsAreOwned, EvidenceRead, Is, Investigates
<1>2. investigating /\ result = NoView
  BY <1>1 DEF ConsoleInv, InvestigationIsAlone, Investigations, Investigates
<1>3. CASE IsActive(s)
  <2>1. f \in Flight /\ Owned(f) /\ Investigates(f)
    BY <1>1 DEF Flight, Kind, Owned, Investigates, Free, Is
  <2>2. flight' = [flight EXCEPT ![s] = f]
    BY <1>3 DEF EvidenceRead
  <2> HIDE DEF f
  <2>3. /\ flight' \in [Slot -> Flight \cup {Free}]
        /\ \A r \in Slot : flight'[r] = IF r = s THEN f ELSE flight[r]
        /\ RequestsAreOwned'
    BY <2>1, <2>2, SlotIsPut
  <2>4. InvestigationIsAlone'
    BY <1>1, <1>2, <1>3, <2>1, <2>3, StillAlone DEF EvidenceRead
  <2>5. Shape'
    BY <1>3, <2>3 DEF ConsoleInv, Shape, EvidenceRead, place
  <2>6. ScreenInv'
    BY <1>1, <1>2, <1>3, ViewIsRight DEF ConsoleInv, Is, EvidenceRead, place, ScreenInv,
       ScreenIsRight, DetailsAreRight, RowsAreRight, MaySee, ResultIsOnItsTab, CitationsResolve,
       Citations, Anchors, Signed, AtPlace, ActiveScope
  <2> QED
    BY <2>3, <2>4, <2>5, <2>6 DEF ConsoleInv
<1>4. CASE ~IsActive(s)
  <2>1. Ends(s) /\ investigating' = FALSE /\ UNCHANGED <<place, shown>>
    BY <1>4 DEF EvidenceRead, shown
  <2>2. InvestigationIsAlone'
    BY <1>1, <2>1, Ending, AloneAtLast
  <2>3. Shape'
    BY <2>1, Ending DEF ConsoleInv, Shape, place
  <2> QED
    BY <2>1, <2>2, <2>3, Ending, Unseen DEF ConsoleInv
<1> QED
  BY <1>3, <1>4

LEMMA ReplayedStep ==
  ASSUME ConsoleInv, NEW s \in Slot, Replayed(s)
  PROVE  ConsoleInv'
<1> DEFINE f == Sent("refresh", flight[s].of, ActiveScope, "replay")
<1>1. Is(s, "replay", "ok") /\ flight[s] \in Flight /\ Owned(flight[s])
  BY DEF ConsoleInv, Shape, RequestsAreOwned, Replayed, Is
<1>2. f \in Flight /\ Owned(f) /\ ~Investigates(f) /\ ~Investigates(flight[s])
  BY <1>1, ScopeType, ConsoleAssumption DEF Flight, Kind, Subject, Owned, Investigates, Sent, Is, Version
<1>3. flight' = [flight EXCEPT ![s] = f]
  BY DEF Replayed
<1> HIDE DEF f
<1>4. /\ flight' \in [Slot -> Flight \cup {Free}]
      /\ \A r \in Slot : flight'[r] = IF r = s THEN f ELSE flight[r]
      /\ RequestsAreOwned'
  BY <1>2, <1>3, SlotIsPut
<1>5. InvestigationIsAlone'
  <2>1. investigating => result' = NoView
    BY DEF ConsoleInv, InvestigationIsAlone, Replayed, shown
  <2> QED
    BY <1>2, <1>4, <2>1, StillAlone DEF Replayed
<1>6. Shape'
  BY <1>4 DEF ConsoleInv, Shape, Replayed, place
<1> QED
  BY <1>4, <1>5, <1>6, Unseen DEF ConsoleInv, Replayed

LEMMA MeSteps ==
  ASSUME ConsoleInv, NEW t \in Token, MeAnswered(t) \/ MeRefused(t)
  PROVE  ConsoleInv'
<1>1. CASE MeAnswered(t)
  <2>1. merchant' \in Merchant \cup {NoMerchant}
    BY <1>1, ConsoleAssumption DEF MeAnswered
  <2>2. Shape'
    BY <1>1, <2>1 DEF ConsoleInv, Shape, MeAnswered
  <2>3. ScreenInv'
    BY <1>1 DEF ConsoleInv, MeAnswered, ScreenInv, ScreenIsRight, DetailsAreRight, RowsAreRight,
       MaySee, ResultIsOnItsTab, CitationsResolve, Citations, Anchors, Signed, AtPlace
  <2> QED
    BY <1>1, <2>2, <2>3, RequestsKept DEF ConsoleInv, MeAnswered
<1>2. CASE MeRefused(t)
  <2>1. CASE UNCHANGED <<place, shown>>
    <3>1. Shape'
      BY <1>2, <2>1 DEF ConsoleInv, Shape, place, MeRefused
    <3> QED
      BY <1>2, <2>1, <3>1, Unseen, RequestsKept DEF ConsoleInv, shown, MeRefused
  <2>2. CASE EndSession
    BY <1>2, <2>2, ClearedIsRight DEF ConsoleInv, Shape, EndSession, Cleared, MeRefused
  <2> QED
    BY <1>2, <2>1, <2>2 DEF MeRefused, DropToken
<1> QED
  BY <1>1, <1>2

LEMMA VersionHolds == ConsoleSpec => [](version \in Version)
<1>1. ConsoleInit => version \in Version
  BY ConsoleAssumption DEF ConsoleInit, Version
<1>2. version \in Version /\ [ConsoleNext]_consoleVars => (version \in Version)'
  <2> SUFFICES ASSUME version \in Version, ConsoleNext PROVE version' \in Version
    BY DEF consoleVars, api
  <2>1. version' = version \/ Change
    BY DEF ConsoleNext, User, LogIn, SignOut, CloseDetail, SelectMerchant, OpenTab, TurnPage, Inspect,
       Investigate, Replay, Refresh, Answer, Fail, Deliver, Refreshed, Inspected, EvidenceRead,
       Investigated, Replayed, Refused, MeAnswered, MeRefused, Expire, api
  <2> QED
    BY <2>1, ConsoleAssumption DEF Change, Version
<1> QED
  BY <1>1, <1>2, PTL DEF ConsoleSpec

LEMMA ConsoleSteps == ConsoleInv /\ version \in Version /\ [ConsoleNext]_consoleVars => ConsoleInv'
<1> SUFFICES ASSUME ConsoleInv, version \in Version, [ConsoleNext]_consoleVars PROVE ConsoleInv'
  OBVIOUS
<1>1. CASE User
  BY <1>1, UserSteps
<1>2. ASSUME NEW s \in Slot, Refresh(s) PROVE ConsoleInv'
  BY <1>2, SentApart DEF Refresh, Refreshes, Subject
<1>3. ASSUME NEW s \in Slot, Answer(s) \/ Fail(s) \/ Deliver(s) PROVE ConsoleInv'
  BY <1>3, Answering, FailSteps, RefreshedStep, InspectedStep, EvidenceReadStep, InvestigatedStep,
     ReplayedStep DEF Deliver
<1>4. ASSUME NEW t \in Token, MeAnswered(t) \/ MeRefused(t) PROVE ConsoleInv'
  BY <1>4, MeSteps
<1>5. ASSUME UNCHANGED <<place, shown, investigating, flight>> PROVE ConsoleInv'
  <2>1. Shape'
    BY <1>5 DEF ConsoleInv, Shape, place
  <2> QED
    BY <1>5, <2>1, Unseen, RequestsKept DEF ConsoleInv, shown
<1> QED
  BY <1>1, <1>2, <1>3, <1>4, <1>5 DEF ConsoleNext, consoleVars, Expire, Change

LEMMA ConsoleInvHolds == ConsoleSpec => []ConsoleInv
BY ConsoleStarts, ConsoleSteps, VersionHolds, PTL DEF ConsoleSpec

\* Whatever is on screen is of the place it is shown at, and of a merchant its
\* reader may see, however late the answers come (src.tsx:79, 149, 165, 172), but
\* for the rows of the refresh a replay ends with (src.tsx:194): of these it says
\* only that they were taken for rows of this place, and permitted to the one who
\* clicked.
THEOREM ScreenHolds == ConsoleSpec => []ScreenIsRight
<1>1. ConsoleInv => ScreenIsRight
  BY DEF ConsoleInv, ScreenInv
<1> QED
  BY <1>1, ConsoleInvHolds, PTL

\* The links of an investigation lead to the evidence of its own incident: as
\* long as there is but one, no other evidence is put beside its result.
THEOREM CitationsResolveHolds == ConsoleSpec => []CitationsResolve
BY ConsoleInvHolds, PTL DEF ConsoleInv, ScreenInv

\* The flag that disables the buttons counts the investigations under way,
\* whatever has become of the session and the place they were asked for.
THEOREM OneInvestigationHolds == ConsoleSpec => []OneInvestigation
<1>1. ConsoleInv => OneInvestigation
  <2> SUFFICES ASSUME ConsoleInv PROVE OneInvestigation
    OBVIOUS
  <2>1. CASE investigating
    <3> PICK s \in Slot : Investigations = {s}
      BY <2>1 DEF ConsoleInv, InvestigationIsAlone, Investigations
    <3> QED
      BY <2>1, FS_Singleton DEF OneInvestigation
  <2>2. CASE ~investigating
    <3>1. Investigations = {}
      BY <2>2 DEF ConsoleInv, InvestigationIsAlone, Investigations
    <3> QED
      BY <2>2, <3>1, FS_EmptySet DEF OneInvestigation
  <2> QED
    BY <2>1, <2>2
<1> QED
  BY <1>1, ConsoleInvHolds, PTL

\* The types of what Shape leaves out.
Rest ==
  /\ listed \in SUBSET Merchant
  /\ {rows, detail, result} \subseteq View \cup {NoView}
  /\ me \in [Token -> {"unasked", "asked", "answered"}]
  /\ expired \in SUBSET Token
  /\ clicks \in 0..MaxClicks

LEMMA RestSteps ==
  ASSUME ConsoleInv, Rest, [ConsoleNext]_consoleVars
  PROVE  Rest'
<1> USE ConsoleAssumption
<1>1. Clicks => clicks' \in 0..MaxClicks
  BY DEF Clicks, Rest
<1>2. ASSUME EndSession \/ UNCHANGED <<place, shown>>
      PROVE  listed' \in SUBSET Merchant /\ {rows', detail', result'} \subseteq View \cup {NoView}
  BY <1>2 DEF EndSession, place, shown, Rest
<1>3. ASSUME UNCHANGED <<listed, me, expired>>, clicks' = clicks \/ Clicks,
             {rows', detail', result'} \subseteq {rows, detail, result, NoView}
      PROVE  Rest'
  BY <1>1, <1>3 DEF Rest
<1>4. CASE UNCHANGED consoleVars \/ Change \/ CloseDetail
  BY <1>3, <1>4 DEF consoleVars, Change, CloseDetail, place, shown, api
<1>5. ASSUME NEW t \in Token, LogIn(t) \/ Expire(t) PROVE Rest'
  BY <1>5 DEF LogIn, Expire, place, shown, api, Rest
<1>6. CASE SignOut
  BY <1>1, <1>2, <1>6 DEF SignOut, api, Rest
<1>7. ASSUME NEW m, NEW t, NEW p, SelectMerchant(m) \/ OpenTab(t) \/ TurnPage(p) PROVE Rest'
  BY <1>3, <1>7 DEF SelectMerchant, OpenTab, DetailLeft, TurnPage, api
<1>8. ASSUME NEW s \in Slot, NEW i,
             \/ Inspect(s, i) \/ Investigate(s, i) \/ Replay(s) \/ Refresh(s) \/ Answer(s)
             \/ Replayed(s) \/ Fail(s)
      PROVE  Rest'
  BY <1>3, <1>8 DEF Inspect, Investigate, Replay, Refresh, Answer, Replayed, Fail, place, shown, api
<1>9. ASSUME NEW s \in Slot, Refreshed(s) \/ Inspected(s) \/ Investigated(s) \/ EvidenceRead(s)
      PROVE  Rest'
  <2>1. flight[s] \in Flight
    BY <1>9 DEF Refreshed, Inspected, Investigated, EvidenceRead, Is, ConsoleInv, Shape
  <2>2. ViewOf(s) \in View
    BY <2>1 DEF ViewOf, View, Flight
  <2> QED
    BY <1>9, <2>2 DEF Refreshed, Inspected, Investigated, EvidenceRead, place, api, Rest
<1>10. ASSUME NEW s \in Slot, Refused(s) PROVE Rest'
  <2>1. EndSession \/ UNCHANGED <<place, shown>>
    BY <1>10 DEF Refused, DropToken
  <2> QED
    BY <1>2, <1>10, <2>1 DEF Refused, api, Rest
<1>11. ASSUME NEW t \in Token, MeAnswered(t) PROVE Rest'
  BY <1>11 DEF MeAnswered, api, Rest
<1>12. ASSUME NEW t \in Token, MeRefused(t) PROVE Rest'
  <2>1. EndSession \/ UNCHANGED <<place, shown>>
    BY <1>12 DEF MeRefused, DropToken
  <2> QED
    BY <1>2, <1>12, <2>1 DEF MeRefused, api, Rest
<1> QED
  BY <1>4, <1>5, <1>6, <1>7, <1>8, <1>9, <1>10, <1>11, <1>12 DEF ConsoleNext, User, Deliver

\* Whatever is sent, answered, shown or cleared, and in whatever order, keeps its
\* form: pages and clicks stay within their bounds.
THEOREM ConsoleIsTyped == ConsoleSpec => []ConsoleTypeOK
<1>1. ConsoleInit => Rest
  BY ConsoleAssumption DEF ConsoleInit, Rest
<1>2. ConsoleInv /\ Rest /\ version \in Version => ConsoleTypeOK
  BY DEF ConsoleInv, Shape, Rest, ConsoleTypeOK
<1> QED
  BY <1>1, <1>2, RestSteps, ConsoleInvHolds, VersionHolds, PTL DEF ConsoleSpec

=============================================================================
