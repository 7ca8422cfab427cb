------------------------------ MODULE Console ------------------------------
(***************************************************************************)
(* The operations console (apps/dashboard/src.tsx) in one browser, and what *)
(* the API answers it (token and membership, in apps/api/app.ts).  Its user *)
(* signs in and out, navigates, inspects, investigates and replays while    *)
(* requests of earlier moments are still under way; a refresh is started    *)
(* every five seconds, whether or not the one before has been answered.     *)
(*                                                                          *)
(* A change of state, the render it causes and the effects of that render   *)
(* are one step.  The five reads of a refresh count as one, which is as old *)
(* as the oldest of them.                                                   *)
(***************************************************************************)
EXTENDS Naturals, FiniteSets

CONSTANTS
  Token,       \* tokens, each issued by one sign-in
  Merchant,
  member,      \* [Token -> SUBSET Merchant]: memberships of the token's user
  Item,        \* incidents (and payments) of which details can be asked for
  Short,       \* bound of the model: tokens whose hour ends while one looks
  Slot,        \* bound of the model: requests under way at a time
  MaxPage,     \* bound of the model: pages one can turn to
  MaxVersion,  \* bound of the model: how often the data of the API change
  MaxClicks,   \* bound of the model: what a user does besides signing in
  NoToken, NoMerchant

ASSUME ConsoleAssumption ==
  /\ member \in [Token -> SUBSET Merchant]
  /\ NoToken \notin Token /\ NoMerchant \notin Merchant
  /\ Short \subseteq Token
  /\ MaxPage \in Nat /\ MaxVersion \in Nat /\ MaxClicks \in Nat

VARIABLES
  session,       \* token, or NoToken: the login page is shown
  listed,        \* merchants one can select
  merchant,      \* the selected one
  tab, page,
  rows,          \* what the tables show
  detail,        \* what the panel of details shows
  result,        \* investigation
  investigating,
  flight,        \* requests under way, by slot
  me,            \* how far the request /me of every token is
  expired,       \* tokens older than an hour
  version,       \* of the data the API has
  clicks

shown == <<rows, detail, result>>
place == <<session, listed, merchant, tab, page>>
api == <<expired, version>>
consoleVars == <<place, shown, investigating, flight, me, api, clicks>>

\* Two of the tabs; the others show rows to inspect as "incidents" does.
Tab == {"incidents", "investigation"}

Page == 0..MaxPage

Version == 0..MaxVersion

\* What identifies the data of a request: who asks, for which merchant, where.
Scope == [token : Token \cup {NoToken}, merchant : Merchant \cup {NoMerchant},
          tab : Tab, page : Page]

\* activeScope
ActiveScope == [token |-> session, merchant |-> merchant, tab |-> tab, page |-> page]

Kind == {"refresh", "inspect", "evidence", "investigation", "replay"}

\* The incident, the payment or the announcement a request is about, and "replay"
\* for the refresh a replay ends with.
Subject == Item \cup {"none", "replay"}

\* of: who asks, and for what; scope: activeScope when it was captured; status: of
\* the answer.
Flight == [kind : Kind, of : Scope, scope : Scope, item : Subject,
           status : {"waiting", "ok", "refused", "unauthorized"}, version : Version]

Free == [kind |-> "free"]

\* What is on screen, and the request it comes from.
View == [of : Scope, scope : Scope, item : Subject, version : Version]

NoView == [of |-> "nothing"]

ConsoleTypeOK ==
  /\ session \in Token \cup {NoToken}
  /\ listed \in SUBSET Merchant
  /\ merchant \in Merchant \cup {NoMerchant}
  /\ tab \in Tab /\ page \in Page
  /\ rows \in View \cup {NoView}
  /\ detail \in View \cup {NoView}
  /\ result \in View \cup {NoView}
  /\ investigating \in BOOLEAN
  /\ flight \in [Slot -> Flight \cup {Free}]
  /\ me \in [Token -> {"unasked", "asked", "answered"}]
  /\ expired \in SUBSET Token
  /\ version \in Version
  /\ clicks \in 0..MaxClicks

ConsoleInit ==
  /\ session = NoToken /\ listed = {} /\ merchant = NoMerchant
  /\ tab = "incidents" /\ page = 0
  /\ rows = NoView /\ detail = NoView /\ result = NoView
  /\ investigating = FALSE
  /\ flight = [s \in Slot |-> Free]
  /\ me = [t \in Token |-> "unasked"]
  /\ expired = {} /\ version = 0 /\ clicks = 0

----------------------------------------------------------------------------
(* The user *)

Clicks == clicks < MaxClicks /\ clicks' = clicks + 1

Signed == session # NoToken

\* The token goes: everything is cleared, and the login page is shown.
EndSession ==
  /\ session' = NoToken /\ listed' = {} /\ merchant' = NoMerchant
  /\ rows' = NoView /\ detail' = NoView /\ result' = NoView
  /\ UNCHANGED <<tab, page>>

\* setToken('') after a 401: the session is ended, if there is one.
DropToken == IF Signed THEN EndSession ELSE UNCHANGED <<place, shown>>

LogIn(t) ==
  /\ ~Signed
  /\ me[t] = "unasked"
  /\ session' = t
  /\ me' = [me EXCEPT ![t] = "asked"]
  /\ rows' = NoView /\ detail' = NoView /\ result' = NoView
  /\ UNCHANGED <<listed, merchant, tab, page, investigating, flight, api, clicks>>

SignOut ==
  /\ Signed /\ Clicks
  /\ EndSession
  /\ UNCHANGED <<investigating, flight, me, api>>

SelectMerchant(m) ==
  /\ Signed /\ Clicks
  /\ m \in listed \ {merchant}
  /\ merchant' = m /\ page' = 0
  /\ rows' = NoView /\ detail' = NoView /\ result' = NoView
  /\ UNCHANGED <<session, listed, tab, investigating, flight, me, api>>

\* The details after another tab is opened.
DetailLeft == NoView

OpenTab(t) ==
  /\ Signed /\ Clicks
  /\ tab' = t /\ page' = 0
  /\ rows' = (IF page = 0 THEN rows ELSE NoView)
  /\ detail' = DetailLeft
  /\ result' = NoView
  /\ UNCHANGED <<session, listed, merchant, investigating, flight, me, api>>

PagesNext == {page - 1, page + 1} \cap Page

TurnPage(p) ==
  /\ Signed /\ Clicks
  /\ tab # "investigation"
  /\ page' = p
  /\ rows' = NoView /\ detail' = NoView
  /\ UNCHANGED <<session, listed, merchant, tab, result, investigating, flight, me, api>>

CloseDetail ==
  /\ Signed /\ detail # NoView /\ Clicks
  /\ detail' = NoView
  /\ UNCHANGED <<place, rows, result, investigating, flight, me, api>>

----------------------------------------------------------------------------
(* Requests *)

Sent(kind, of, scope, item) ==
  [kind |-> kind, of |-> of, scope |-> scope, item |-> item,
   status |-> "waiting", version |-> 0]

Sends(s, kind, item) ==
  /\ flight[s] = Free
  /\ flight' = [flight EXCEPT ![s] = Sent(kind, ActiveScope, ActiveScope, item)]

\* Faulty: there is no timer.
RefreshesOnce == Signed /\ merchant # NoMerchant /\ rows = NoView

\* By the effect of a render, and again by the timer.
Refreshes == Signed /\ merchant # NoMerchant

\* refresh up to its await
Refresh(s) ==
  /\ Refreshes
  /\ Sends(s, "refresh", "none")
  /\ UNCHANGED <<place, shown, investigating, me, api, clicks>>

Inspect(s, i) ==
  /\ Signed /\ rows # NoView /\ tab = "incidents" /\ Clicks
  /\ Sends(s, "inspect", i)
  /\ UNCHANGED <<place, shown, investigating, me, api>>

\* Faulty: the buttons stay enabled.
AlwaysEnabled == TRUE

\* disabled={investigating}
Idle == ~investigating

\* investigateIncident up to its first await.
Investigate(s, i) ==
  /\ Signed /\ rows # NoView /\ tab = "investigation" /\ Idle /\ Clicks
  /\ Sends(s, "evidence", i)
  /\ investigating' = TRUE
  /\ result' = NoView
  /\ UNCHANGED <<place, rows, detail, me, api>>

\* replay, confirmed.
Replay(s) ==
  /\ Signed /\ rows # NoView /\ tab = "incidents" /\ Clicks
  /\ Sends(s, "replay", "none")
  /\ UNCHANGED <<place, shown, investigating, me, api>>

\* What the API says to a request: token first, then membership.
Answered(of) ==
  IF of.token \in expired THEN "unauthorized"
  ELSE IF of.merchant \in member[of.token] THEN "ok" ELSE "refused"

\* Which data the rows of an answer are; nothing asks this of the details.
Told(s) == IF flight[s].kind = "refresh" THEN version ELSE 0

Waiting(s) == flight[s] # Free /\ flight[s].status = "waiting"

Answer(s) ==
  /\ Waiting(s)
  /\ flight' = [flight EXCEPT ![s].status = Answered(flight[s].of), ![s].version = Told(s)]
  /\ UNCHANGED <<place, shown, investigating, me, api, clicks>>

----------------------------------------------------------------------------
(* Answers *)

Is(s, kind, status) == flight[s] # Free /\ flight[s].kind = kind /\ flight[s].status = status

\* Faulty: only the token is compared.
IsActiveForToken(s) == flight[s].scope.token = session

\* scope === activeScope.current
IsActive(s) == flight[s].scope = ActiveScope

ViewOf(s) ==
  [of |-> flight[s].of, scope |-> flight[s].scope, item |-> flight[s].item,
   version |-> flight[s].version]

Ends(s) == flight' = [flight EXCEPT ![s] = Free]

Refreshed(s) ==
  /\ Is(s, "refresh", "ok")
  /\ rows' = IF IsActive(s) THEN ViewOf(s) ELSE rows
  /\ Ends(s)
  /\ UNCHANGED <<place, detail, result, investigating, me, api, clicks>>

Inspected(s) ==
  /\ Is(s, "inspect", "ok")
  /\ IF IsActive(s) THEN detail' = ViewOf(s) /\ result' = NoView
     ELSE UNCHANGED <<detail, result>>
  /\ Ends(s)
  /\ UNCHANGED <<place, rows, investigating, me, api, clicks>>

\* The evidence is there: the investigation is requested, or given up.
EvidenceRead(s) ==
  /\ Is(s, "evidence", "ok")
  /\ IF IsActive(s)
       THEN /\ detail' = ViewOf(s)
            /\ flight' = [flight EXCEPT ![s].kind = "investigation", ![s].status = "waiting"]
            /\ UNCHANGED investigating
       ELSE Ends(s) /\ investigating' = FALSE /\ UNCHANGED detail
  /\ UNCHANGED <<place, rows, result, me, api, clicks>>

Investigated(s) ==
  /\ Is(s, "investigation", "ok")
  /\ IF IsActive(s) THEN detail' = ViewOf(s) /\ result' = ViewOf(s)
     ELSE UNCHANGED <<detail, result>>
  /\ Ends(s) /\ investigating' = FALSE
  /\ UNCHANGED <<place, rows, me, api, clicks>>

\* await refresh(), by the closure of the click: it asks for what was selected
\* then, and takes the place that is active now for its own.
Replayed(s) ==
  /\ Is(s, "replay", "ok")
  /\ flight' = [flight EXCEPT ![s] = Sent("refresh", flight[s].of, ActiveScope, "replay")]
  /\ UNCHANGED <<place, shown, investigating, me, api, clicks>>

\* Faulty: only what is still active ends the investigation.
InvestigatingIfActive(s) ==
  investigating /\ (flight[s].kind \notin {"evidence", "investigation"} \/ ~IsActive(s))

\* finally
InvestigatingAfter(s) == investigating /\ flight[s].kind \notin {"evidence", "investigation"}

\* Ten seconds are over, or the request fails for a reason of its own (429, 503, a
\* role that may not replay).
Fail(s) ==
  /\ Waiting(s)
  /\ Ends(s) /\ investigating' = InvestigatingAfter(s)
  /\ UNCHANGED <<place, shown, me, api, clicks>>

\* An error from the API; a 401 ends the session, whichever it is by now.
Refused(s) ==
  /\ flight[s] # Free
  /\ \/ flight[s].status = "unauthorized" /\ DropToken
     \/ flight[s].status = "refused" /\ UNCHANGED <<place, shown>>
  /\ Ends(s)
  /\ investigating' = InvestigatingAfter(s)
  /\ UNCHANGED <<me, api, clicks>>

Deliver(s) ==
  Refreshed(s) \/ Inspected(s) \/ EvidenceRead(s) \/ Investigated(s) \/ Replayed(s) \/ Refused(s)

\* The list of a user's merchants, in no order; the first one is selected.  It
\* is not asked whether the session is still the same.
MeAnswered(t) ==
  /\ me[t] = "asked"
  /\ me' = [me EXCEPT ![t] = "answered"]
  /\ listed' = member[t]
  /\ merchant' \in IF member[t] = {} THEN {NoMerchant} ELSE member[t]
  /\ IF Signed /\ merchant' # merchant THEN rows' = NoView /\ detail' = NoView
     ELSE UNCHANGED <<rows, detail>>
  /\ UNCHANGED <<session, tab, page, result, investigating, flight, api, clicks>>

MeRefused(t) ==
  /\ me[t] = "asked"
  /\ me' = [me EXCEPT ![t] = "answered"]
  /\ \/ t \in expired /\ DropToken
     \/ UNCHANGED <<place, shown>>
  /\ UNCHANGED <<investigating, flight, api, clicks>>

----------------------------------------------------------------------------

Expire(t) ==
  /\ t \in Short \ expired /\ me[t] # "unasked"
  /\ expired' = expired \cup {t}
  /\ UNCHANGED <<place, shown, investigating, flight, me, version, clicks>>

\* Payments, devices, incidents change.
Change ==
  /\ version < MaxVersion
  /\ version' = version + 1
  /\ UNCHANGED <<place, shown, investigating, flight, me, expired, clicks>>

User ==
  \/ \E t \in Token : LogIn(t)
  \/ SignOut \/ CloseDetail
  \/ \E m \in Merchant : SelectMerchant(m)
  \/ \E t \in Tab : OpenTab(t)
  \/ \E p \in PagesNext : TurnPage(p)
  \/ \E s \in Slot, i \in Item : Inspect(s, i) \/ Investigate(s, i)
  \/ \E s \in Slot : Replay(s)

ConsoleNext ==
  \/ User \/ Change
  \/ \E s \in Slot : Refresh(s) \/ Answer(s) \/ Fail(s) \/ Deliver(s)
  \/ \E t \in Token : MeAnswered(t) \/ MeRefused(t) \/ Expire(t)

ConsoleSpec == ConsoleInit /\ [][ConsoleNext]_consoleVars

\* Every request ends; the timer goes on; and a refresh that is repeated over
\* and over succeeds at last if the API has no reason to refuse it.
FairConsoleSpec ==
  /\ ConsoleSpec
  /\ \A s \in Slot :
       WF_consoleVars(Answer(s) \/ Fail(s)) /\ WF_consoleVars(Deliver(s))
  /\ SF_consoleVars(\E s \in Slot : Refresh(s))
  /\ SF_consoleVars(\E s \in Slot :
       flight[s] # Free /\ flight[s].kind = "refresh" /\ IsActive(s) /\ Answer(s))

----------------------------------------------------------------------------

\* Of a merchant the one who looks at the screen is a member of.
MaySee(view) == view.of.merchant \in member[session]

AtPlace(scope) ==
  scope.token = session /\ scope.merchant = merchant /\ scope.page = page

\* However late answers come, and wherever the user has gone and come back from
\* meanwhile: details are of the place one is at, an investigation was made there
\* (but a late /me can select another merchant and leave it, without details),
\* and both are of merchants their reader may see.
DetailsAreRight ==
  /\ detail # NoView => AtPlace(detail.of) /\ detail.of.tab = tab /\ MaySee(detail)
  /\ result # NoView =>
       /\ result.of.token = session /\ result.of.tab = tab /\ result.of.page = page
       /\ MaySee(result)
       /\ detail # NoView => result.of.merchant = merchant

\* Rows are of this place too, but for those of the refresh a replay ends with:
\* they were taken for rows of this place, and asked for by the one who clicked.
RowsAreRight ==
  rows # NoView =>
    IF rows.item = "replay"
      THEN AtPlace(rows.scope) /\ rows.of.merchant \in member[rows.of.token]
      ELSE AtPlace(rows.of) /\ MaySee(rows)

\* What is on screen is of the place it is shown at, and its reader may see it,
\* except for the rows that a replay of another place brings (src.tsx:194): those
\* may even be of a merchant only the user of an earlier session may see.
ScreenIsRight == Signed => DetailsAreRight /\ RowsAreRight

\* The anchors of the details on screen, and what an investigation links to.
Anchors == IF detail = NoView THEN {} ELSE {<<detail.of.merchant, detail.item>>}
Citations == IF result = NoView THEN {} ELSE {<<result.of.merchant, result.item>>}

\* The links of an investigation never lead to the evidence of another incident.
CitationsResolve == Signed /\ detail # NoView => Citations \subseteq Anchors

\* At most one investigation is under way in a browser (each counts in the
\* quota of its user), and the console knows whether there is one.
Investigations ==
  {s \in Slot : flight[s] # Free /\ flight[s].kind \in {"evidence", "investigation"}}

OneInvestigation == Cardinality(Investigations) = IF investigating THEN 1 ELSE 0

\* Once the user stays and the data rest, the rows on screen are the newest of
\* the merchant selected, although refreshes overtake each other and the one
\* after a replay may bring rows of another place.  (A merchant the user is no
\* member of can be selected too: by an answer to /me of an earlier session.)
UpToDate == AtPlace(rows.of) /\ rows.version = version

RowsBecomeCurrent ==
  <>[](Signed /\ session \notin expired /\ merchant \in member[session])
    => <>[](rows # NoView /\ UpToDate)

=============================================================================
