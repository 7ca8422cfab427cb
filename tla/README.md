# PayOps: specifications and proofs

PayOps accepts payments over HTTP, announces each of them on a payment device
over MQTT, collects signed evidence from the devices, and opens incidents when
the evidence and its own records do not add up. This directory holds TLA+
modules of its core, TLC configurations that check them on small instances, and
proofs, checked by TLAPS, that hold for any size. Paths below are relative to
the root of the repository.

Run everything in this directory:

    tlc -workers 2 -config DeliveryLeases.cfg MCDelivery
    tlapm DeliveryProofs.tla

## 1. Inventory

### Components, their state and operations

| Component | State it keeps | Operations |
|---|---|---|
| API transactions (`apps/api/service.ts`) | rows of `payments`, `commands`, `outbox`, `device_messages`, `receipts`, `audit_events` | `acceptPayment`, `receiveEvidence` (receipts and heartbeats), `replay` |
| Dispatch worker (`apps/worker/dispatch.ts`, loop in `main.ts`) | leases and fencing tokens in `outbox`, rows of `delivery_attempts`, `published_at`; in memory: the calls under way, `lastReconcile` | `claim`, `publish`, `finish`, `dispatch`, the cycle (reconcile if three seconds have passed, four concurrent claims, dispatch) |
| Reconciler (`apps/worker/reconcile.ts`) | `incidents`, `incident_evidence`; writes `commands` and `outbox` | one transaction: expire, find problems, record incidents, redeliver, delete old heartbeat identities |
| Device simulator (`apps/simulator`) | SQLite `inbox`; in memory: the batch of receipts being posted | `process`, `pending`, `acknowledge`, the loop that posts receipts and heartbeats |
| Contracts (`packages/contracts`) | none | schemas, the table `transitions`, `retryDelay` |
| Database access (`packages/database`) | a pool of ten connections | `transaction`: BEGIN, body, COMMIT or ROLLBACK; `migrate` under an advisory lock |
| HTTP routes (`apps/api/app.ts`) | `activeInvestigations` in memory, `audit_events` | authorization, routing, reads; requests for investigations, with their quota |
| Investigation (`packages/investigation`) | none | projection of evidence, the provider raced by a timer, rendering of what it selects |
| Parent monitoring (`packages/parent-monitoring`, `scripts/parent-sync.ts`) | `parent_sources`, `parent_transactions`, incidents of kind `parent_publication_pending` | a scan: pages of the parent's transactions, fetched and imported one by one under a session advisory lock |
| Security (`packages/security`) | none (credentials are rows) | sign, verify, fingerprint; key rotation in `scripts/rotate-key.ts` |
| Console (`apps/dashboard`) | in the browser: token, merchants and the one selected, tab, page, rows, details, result of an investigation, whether one is under way | sign in and out, navigate, a refresh every five seconds, inspect, investigate, replay; what is done with answers that come late |
| Observability, MQTT options, fault points, scripts | caches and metrics | -- |

### How they interact

    caller --HTTP--> API --rows--> PostgreSQL <--rows--> worker, reconciler
                      ^                                     |
                      |                                     | MQTT, QoS 1
                      +------HTTP, signed evidence---- device simulator

API, worker and reconciler never call each other. They communicate through five
tables, each of them written by at least two transactions of different
processes, at isolation level READ COMMITTED. Who may write what next is decided
by WHERE clauses, by row locks (`FOR UPDATE`, `FOR SHARE`, `SKIP LOCKED`) and by
the lease token of the outbox row. The worker and the device communicate through
an MQTT client that may deliver a packet later than the worker believes, and the
device and the API through requests that may be lost or answered too late.

### Which behaviour is hard

- Several dispatch calls, in one worker or in several, work with copies of rows
  taken when they were claimed; a lease may lapse while its holder still
  publishes or is in the middle of `finish`, whose `now()` is the time of BEGIN.
- Each statement of the reconciler sees its own snapshot; the expiry and the
  redelivery UPDATE choose rows first and lock and write them later, and the
  condition of the subquery is not evaluated again on the locked row.
- Receipts of one command arrive in any order, contradict each other, and race
  with the verdicts of the worker and of the reconciler.
- Time has edges: the worker rounds the time left down to whole seconds and
  gives up a second before the database finds the command expired.
- Every process may stop anywhere; COMMIT may take effect and still throw.
- Copies of a signed message are handled at once, keys are revoked meanwhile, and
  heartbeats are forgotten after a day.
- The console has several requests under way, whose answers come in any order and
  after the user has gone elsewhere, or someone else has signed in.
- Budgets (attempts, rows per pass, receipts per batch) meet rows that stay.

PROJECT.json lists these hazards one by one, each at the line where it bites,
with the properties that would catch it going wrong.

### What makes each component correct

- Acceptance: payment, command and outbox row appear together; an idempotency
  key is used for one payment, whatever overlaps, fails or is repeated.
- Worker: no attempt is lost from the books, none is rewritten, the budget holds,
  every command is decided, dispatch comes to rest.
- Evidence: a message takes effect once, under a key that is valid; a verdict rests
  on a receipt or on time or on a spent budget; contradictions leave a mark;
  completed is not taken back.
- Reconciler: an incident was true of its command when the pass looked, and is late
  when it is committed only by a receipt that completed the command meanwhile; what
  deserves one gets one; redelivery neither resurrects what is settled nor breaks the
  accounting of attempts.
- Simulator: an effect happens at most once per command; a receipt is posted
  until it is committed, and not given up earlier.
- Investigation: the quota of a user holds over all API processes; a slot is given
  back however the request ends; what was given to a user is on record, and is all
  that the ten newest snapshots of the incident tell and nothing else, whatever the
  provider says.
- Parent monitoring: an observation is never replaced by an older one; a scan that
  reports `ok` has seen what there was; incidents follow the observations.
- Console: what is on screen belongs to the place it is shown at, and its reader may
  see it (for the rows a replay brings, this does not hold); one investigation at a
  time; rows become current.
- Migrations: see the plan.

## 2. Modules

| Module | Models | Rests on |
|---|---|---|
| `Store` | the shared rows, and time | -- |
| `Dispatch` | `dispatch.ts` and the worker's cycle | `Store` |
| `Service` | `receiveEvidence` for receipts, `replay`, `acceptPayment` as one step | `Store` |
| `Reconcile` | `reconcile.ts`, statement by statement | `Service` |
| `Delivery` | the composition; properties and fairness | `Dispatch`, `Reconcile` |
| `Lifecycle` | abstract: the table `transitions` of the contracts | -- |
| `Simulator` | `apps/simulator`: inbox and posting loop | -- |
| `EndToEnd` | `Delivery` with `Simulator` as its device | `Delivery`, `Simulator` |
| `Promise` | abstract: an announcement as seen from outside | -- |
| `Acceptance` | `acceptPayment`, statement by statement | -- |
| `Ledger` | abstract: an idempotent ledger | -- |
| `Evidence` | `receiveEvidence` statement by statement, and what becomes of heartbeats | -- |
| `Intake` | abstract: a device's messages taken one at a time, and nothing forgotten | -- |
| `Selection` | what a provider is shown and an operator is given (`packages/investigation`), as operators | -- |
| `Investigation` | the route that requests an investigation, and the wait for the provider | `Selection` |
| `ParentSync` | `packages/parent-monitoring` and its loop, with the parent as environment | -- |
| `Mirror` | abstract: a picture of the parent that only advances | -- |
| `Console` | `apps/dashboard/src.tsx` in one browser, with the API's answers | -- |
| `MCDelivery`, `MCSimulator`, `MCEndToEnd`, `MCAcceptance`, `MCEvidence`, `MCInvestigation`, `MCParentSync`, `MCConsole` | instances for TLC | |
| `DeliveryProofs`, `VerdictProofs`, `EndProofs`, `ReportProofs` (`Simulator` and `Evidence`), `AcceptanceProofs`, `InvestigationProofs`, `ParentSyncProofs`, `ConsoleProofs` | theorems | |

Definitions that begin with "Faulty:" in their comment are not part of any
specification. Each is a variant of the definition after it, with a plausible
mistake in it, and some property is known to fail when it is put in its place.

### Store

`command[c]`, `outbox[c]` and `delivery[c]` are the rows of a command (the tables
are one to one, and `delivery_attempts` is a sequence per command). Identifiers
are model values. Columns that hold a time are reduced to the comparisons the
code makes: `lease` is `lease_until > now()`, `due` says that `next_attempt_at`
has passed (plus ten seconds for a published row), `ttl[c]` is `live`, `closing`
(the last second, where `Math.floor` already yields 0) or `over`. Each of these
changes by an action of its own, at any time, which covers every value of the
configured times and any drift. A lease token is the position of the attempt
that was inserted with it: a `randomUUID` is never drawn twice.
`sent[c]` says that the MQTT client has held a packet with the command; it is
never reset, because a packet once queued may be delivered at any later time.

### Dispatch

`task[t]` is one call of `dispatch`, with the copy of the row `claim` returned.
`ClaimRow` and `ClaimExhausted` are the transaction `claim` (SKIP LOCKED and all,
one step since it holds the row throughout and reads nothing else). Then the call
decides (`RejectPayload`, `FindExpired`), publishes (`Publish`, `PublishEnds`,
with the timer and the broker's answer in either order, and `BrokerUnavailable`),
and finishes. `finish` takes two steps: `BeginFinish` fixes the lease condition,
since `now()` is the start of the transaction, and `Finish` locks, writes and
commits. `FinishThrows` is an error of it, whether its COMMIT took effect or not;
the code then tries `finish` once more with `retry`. `Abandon` is the process
stopping, a second failure, or a claim lost because another claim of its cycle
failed.

### Service, Reconcile

`ReceiveEvidence` takes any receipt for a command that could have reached a
device; a duplicate identity changes nothing, a refused message rolls back.
A pass of the reconciler is five steps: `RecBegin` chooses the victims of the
expiry UPDATE from a snapshot, `RecExpire` locks and writes them (blindly: the
state is not asked for again), `RecScan` takes the snapshots of the problem query
and inserts incidents, `RecChoose` and `RecCommit` are the redelivery UPDATE and
the COMMIT; `RecRollback` is any failure. Victims stay in `locked` until the end.
`Batch` stands for the LIMITs of the queries (100 and 20 in the code).

### Simulator, EndToEnd

`inbox` is the SQLite table with its rowids, which grow by one because rows are
never deleted; `Pending` is the query: it has no ORDER BY, and SQLite reads the
table by rowid. `poster` is the loop, with the receipt it is at and what is left
of its batch (`GoOn`). The message
callback (`Process`) runs between any two steps of the loop, as Node runs it at
any `await`. `Restart` loses the loop's batch and keeps the inbox. A request that
was sent may be stored by the API at any later time, also after the loop has
given it up. On its own the module sees the API as the set of receipts it has
committed. `EndToEnd` takes `Delivery`, drops the environment that signs
arbitrary receipts, and instantiates `Simulator` with `stored` replaced by the
receipts in `evidence`. A step of `EndToEnd` is a step of one side, or of both
(`ReceiptArrives`).

`Promise` says what all this amounts to for those outside. Its state, per
announcement, is what a caller reads, what the device made of the command, whether
its receipt is recorded and marked, and whether the device still posts it; the
refinement mapping `Seen` reads that off the rows of the API and the inbox. It
moves by `Accept`, `Hear`, `Conclude` (a verdict without a receipt), `Tell` (the
receipt decides, and is marked if it contradicts), `Settle` and `Reopen`. No attempt,
lease, pass, packet or request is left in it. The state of `Seen` is
`LifecyclePhase`, in which `completed_at` decides, because `state` alone may lose a
completion (the run `terminal`).

### Acceptance, Ledger

A call of `acceptPayment` goes through the statements of its transaction. The row
of the device is locked FOR SHARE (`InUse`), the unique index makes an INSERT wait
for an uncommitted row with the same key (`HoldsKey`), nothing is visible before
`Commit`. `Fail` is an error or a stop anywhere before COMMIT, `Lose` one after
it; the caller then repeats the request. The refinement mapping to `Ledger` is
the table `payments` and what callers have been told.

### Evidence

A handler is one request with a signed message, as far as its transaction has got
(`Phase`); `Check`, `Look`, `Insert`, `Reread`, `Beat`, `Record`, `Commit` are its
statements, in the order of `service.ts:88-180`. A message is one whose signature
is good: any other is refused before it touches a row. Equal messages are one
element of `Message`, which is what the stored fingerprint decides.
`WaitsFor` says whose locks the next statement meets: the key and the device are
locked FOR SHARE, a heartbeat then updates the device, an INSERT waits for an
uncommitted row of the same identity. `Victim` is PostgreSQL's answer to a
deadlock, `Fail` any other error or stop. `Forget` is the worker's deletion of
heartbeats of yesterday (`reconcile.ts:76`); `Revoke` is an administrator.
The verdict over a receipt is one step here, because `Service` has it; there in turn a
receipt is taken in one step, which this module justifies: whatever overlaps, a
message is counted once. `Intake` is the same device's view with one step for a
message (`Take`, `Tell`), no identities that are forgotten, no locks and no calls;
the refinement mapping leaves `counted`, `lastHeartbeat`, `revoked` and
`acknowledged` as they are, and lets a heartbeat be as old as the window and the
longest transaction allow together.

### Selection, Investigation

The texts an operator sees are templates over a snapshot, a field and, for devices,
an index; `Selection` therefore speaks of `<<snapshot, field, index>>`.
A list is a function on places, `<<snapshot, field>>`, in the order in which the
code pushes to it (`UpTo`); a limit keeps its first places (`FirstOf`).
`Context` is `evidenceContext` with the real limits (10 snapshots, 60 facts, 20
hypotheses, 30 notices), `Supported` the check of the provider's choice, `Rendered`
what is made of it. The constant text of the checks an operator is told to make is
left out. `given[r]` is that answer while it is recorded and sent.

`active[p]` is the counter of an API process; `Enter` checks and increments it in
one step, as the code does between two awaits. A request then begins its
transaction, which fixes `now()`, waits for the advisory lock of its user
(`Lock`), counts (`Count`) and inserts and commits its event (`Reserve`).
`call[r].start` is both the end of the window the request counts in and the
`created_at` of its event, as both are the start of the transaction; other
requests commit while it waits. `Refuse` is every way out with an error before
the commit, `ReserveUnnoticed` a COMMIT whose answer is lost. The provider
answers (`Select`) or does not, the timer always ends the wait (`TimeOut`). The
two INSERTs that follow may throw, done or not. `Leave` is the response together
with the `finally` that decrements the counter.

### Console

One step is a change of state, the render it causes and the effects of that
render: JavaScript lets nothing in between. `session`, `merchant`, `tab`, `page`
are the state `activeScope` is made of, and `flight[s]` is a request with the
scope captured when it was made. The five reads of a refresh are one, as old as
the oldest of them. `Answer` is the API: it looks at the token, then at the
membership (`Answered`). `Refreshed`, `Inspected`, `EvidenceRead`, `Investigated`,
`Replayed`, `Refused` are what the code does with an answer; `Fail` is its timer, or an
error of the request's own, such as a role that may not. `Replayed` calls the `refresh` of
the click: it asks for the merchant of then and takes the place that is active
now for its own. `MeAnswered` does not ask whether the session is still the one
that asked, as the code does not. `Slot` bounds how many requests are under way.

### ParentSync

The parent is external. It lists its transactions newest first, without ties, one
answer is one snapshot of the list, and nothing disappears from it; a transaction
only moves on, from 1 (waiting, or not paid) to 2 (announcement failed) or 3
(announced). `docs/parent-integration.md:46` names what the code does not promise
otherwise: with tied timestamps rows may trade places between two pages.

`scan[k]` is a collector, `tx` the one transaction that can have the row of the
source locked. `TryLock`, `Bind`, `Begin` are `syncParent` up to the loop, `Fetch`,
`Import`, `SendCommit`, `Commit`, `NextPage` one turn of it, `End`, `MarkError`,
`Unlock` the ways out. `Commit` belongs to PostgreSQL: once sent, it takes effect
whether its collector lives or not. `Crash` frees the advisory lock at once,
rolls back what was not sent and leaves a sent COMMIT behind (`Orphaned`).
`Throw` and `ImportThrows` are errors; an UPDATE that throws may have been done.
`observed[r]` is the stage of the row in `parent_transactions`, and
`source.success` stands for `last_success_at`: what the parent had when that scan
began, so `CompleteScanSawAll` says what "the last complete scan" of the dashboard
means. Whether a waiting row counts as a problem depends on the clock of the
collector, and is left open in `SendCommit`. `Mirror` is what remains for someone
who reads only the tables: `Observe` moves some transactions forward, as far as
the parent had, and judges their incidents; `Complete` records a scan.

## 3. Runs

| Run | What it asks | Result |
|---|---|---|
| `leases` | do two concurrent calls, the reconciler, a replay and a receipt keep the books of attempts straight, do row, log and state explain each other (`TablesAgree`), and is what a command is declared to be justified | holds |
| `two_commands` | with a malformed command, two receipts and passes of one row: were incidents true when the pass looked, and by what alone are they late when it commits; do contradictions leave a mark, is the life cycle followed | holds |
| `live` | is every command decided, does dispatch come to rest, are conflicts investigated | holds |
| `simulator` | are receipts kept until they are committed, and posted until then | holds |
| `end_to_end` | does everything together keep `Promise`; do the API's records agree with what the device did; is what was played reported | holds |
| `acceptance` | is acceptance an atomic, idempotent ledger; is everyone answered | holds |
| `evidence` | is `receiveEvidence` an `Intake`: does a message take effect once, under a valid key; and are receipts kept out of the deadlocks of heartbeats, and taken in the end | holds |
| `investigation` | do quota, slots and records of investigations hold over two processes; is an operator given all that the ten newest snapshots tell, once, and nothing else | holds |
| `parent_sync` | are the tables a `Mirror` of the parent: do observations only advance; are complete scans complete, are incidents and lock in order, whoever stops | holds |
| `console` | does the screen show things where they belong, to someone who may see them, but for the rows of a replay made elsewhere; is one investigation made at a time; do rows become current | holds |
| `terminal` | is completed terminal | violated |
| `simulator_blocked` | does every acceptable receipt get through | violated |

### What the violations show

1. `terminal`. `docs/architecture.md:46` says "Completed is terminal". The expiry
   UPDATE of the reconciler selects its rows in a subquery. If a receipt commits a
   completion between that snapshot and the lock, the UPDATE waits, re-evaluates
   only `id IN (...)`, and writes `expired` over `completed`. `completed_at` stays
   set, which is how `LifecyclePhase` can still map the command to "completed".
   What remains true, and is checked and proved, is
   `CompletionLostOnlyToExpiry`: this is the only way to lose a completion.
2. `simulator_blocked`. The simulator posts its twenty oldest unacknowledged
   receipts; as many that the API keeps refusing (their key was revoked) starve
   all later ones, though `docs/reliability.md:9` says that pending evidence is
   retried until it is committed. `simulator` shows that with one more than the
   refused ones the others do get through, and `OthersAlwaysGetThrough` proves it
   for any numbers: as long as fewer receipts are refused than a batch holds, every
   batch has the oldest of the others in it.

### What modelling showed besides

No document says otherwise, or the properties allow for it; a maintainer may want
to know all the same.

- A completion stamped after the expiry moves an expired command to `unknown`
  (`service.ts:171`); the table `transitions` (`contracts/index.ts:50`) would let it
  become `completed` only. `canTransition` is not called by the transactions, and
  `Lifecycle` counts the two alike.
- The problem query (`reconcile.ts:28`) returns 100 rows, in no order, and does not
  leave out problems that have an incident: with 100 standing ones a new one may
  never be recorded. `live` has room for all.
- Two overlapping copies of one heartbeat always deadlock: both share the device's
  row and then want it. One is failed, and nothing is lost.
- An incident's page lists its 50 oldest snapshots (`app.ts:276`), an investigation
  is shown the 10 newest (`app.ts:318`): beyond 50, a citation may lead nowhere.
  `docs/investigation.md:3` names the ten, but an operator is not told that there are
  older ones: no notice of them is among those of the answer. This can happen to
  incidents of parent transactions only; the reconciler writes one snapshot with
  every incident of its own.
- The reconciler queries problems, and then records them row by row; nothing holds
  the commands meanwhile. A receipt that completes a command in between does not
  keep a `missing_receipt`, `old_pending` or `retry_exhausted` found before from being
  committed after it. `IncidentsWereTrue` allows this, and nothing else.
- A replay ends with `await refresh()` (`src.tsx:194`), in the closure of the click:
  it sends the token and the merchant of then, and takes the place that is active
  when it starts for its own, so the comparison of line 79 cannot tell that it is of
  elsewhere. If the user signs out before the replay is answered and another one
  signs in, rows of the first one's merchant are on the screen of the second until
  the next refresh, also if the second is no member there. The API has done what
  `docs/threat-model.md:7` says of it (the one who asked is a member); the screen is
  another's. `ScreenIsRight` therefore says that details and results are always of
  their place and reader, and that rows are, but for those of such a refresh;
  `RowsBecomeCurrent` says that they do not stay.
- In the console, a late `/me` installs the merchants of an earlier session
  (`src.tsx:110`), and a late 401 of an old token ends the present session (`:56`).
  If that `/me` selects another merchant, the result of an investigation stays on
  screen, though its details are cleared (`:98`): `ScreenIsRight` asks for its
  merchant to be the selected one only beside details.

### Bounds

| Bound | Value | Why it is enough |
|---|---|---|
| `Command` | 1, or 2 in `two_commands` and `simulator` | rows of different commands meet only in the LIMITs of the queries and in the claims of a task, which two commands exercise; a command's own rows carry the rest |
| `Task` | 2 in `leases`, else 1 | one call that holds a lease and one that has lost it; a third adds a second overtaken call, which is fenced in the same way |
| `MaxAttempts` | 2 in `leases`, `live`, else 1 | the first attempt that is not the last, and the last |
| `MaxReplays` | 1, or 0 in `end_to_end`, whose invariants are proved without a bound | attempts before and after a replay; the proofs have no bound |
| `Message` | 2 in `two_commands`, else 1 | two receipts, of one command or of two, with any results in any order: a contradiction takes two; the proofs have no bound |
| `Batch`, `Limit` | 1 or 2 | smaller than, or as large as, the number of rows that qualify |
| `Watched` | the kinds of incidents a run looks at | the others neither read nor write what its properties read |
| `Caller` | 4 | two equal requests, one with the same key and another body, one with its own key |
| `Request`, `Api`, `User` | 3, 2, 2 | one user at both processes, and one more user at the first |
| `MaxActive`, `Quota` | 1 | the first request that is let in, and the first that is one too many (2 and 10 in the code) |
| `Collector` | 3 | one scans, one has died with a COMMIT under way, one is set up wrongly; the advisory lock admits no second scan |
| `MaxRows`, `PageSize`, `MaxPages` | 5, 2, 2 | a full last page, one row more than a scan reads, rows that move to the next page during a scan (100 and 20 in the code) |
| `Fate` | one row goes through all stages | an incident that opens and is resolved, also by late observations |
| `Hour`, `Horizon` | 2, 2 | events inside the window of a later request, and just outside it |
| `evidence`, `choices` | 3 incidents, 6 choices each | a conflict with a retry, eleven snapshots (one more than are read), a device never heard of; a provider that chooses all, nothing, twice, foreign, misplaced or too many identifiers |
| `Message` of `Evidence` | 4 | two heartbeats, and two receipts under one identity, one of them with an older key |
| `Handler`, `Version` | 2, 2 | a message and its copy, or another one; a key that is revoked and one that is not. The proofs have no bound |
| `Skew`, `Patience`, `Day`, `MaxTime` | 1, 1, 4, 5 | the least day the assumption allows, and a time by which a heartbeat is forgotten (two minutes, ten seconds a statement, a day in the code) |
| `MaxFailures` | 1 | a call that fails while a copy waits for it |
| `Token`, `Merchant`, `Item` | 2, 2, 2 | one session after another, here or elsewhere, this evidence or that |
| `Slot`, `MaxClicks` | 2, 3 | two answers in either order; go away, act, come back. The proofs have no bound |
| `MaxPage`, `MaxVersion` | 1, 1 | one other page; data that change once under a refresh |

`delivery` needs no bound of its own: the budget bounds it, which
`AttemptsWithinBudget` shows. Lease tokens, due dates and stages of the lifetime
are finite by construction. Symmetry is used for dispatch calls, receipts and
collectors with one configuration, which the specification never tells apart, and only in runs without
liveness properties. Deadlock is checked everywhere except in `acceptance` and
`investigation`, where there is nothing left to do when everyone has been answered
and the clock has stopped, and in `console`, whose user may stay signed out.

### Fairness

`Delivery`: time passes (weak fairness of each clock action), the cycles of some
worker go on (weak fairness of claims: the loop of `main.ts` catches every error
and starts the next cycle), a call that neither stops nor throws proceeds. Nothing
is assumed about `FinishThrows`, `Abandon` or `RecRollback`: they may happen
forever. A statement of a pass that is tried again and again succeeds in the end
(strong fairness): any number of passes may fail, but not all of them at the same
statement. Where a bad environment could fail every pass for ever, nothing is
promised. Claims go on while passes fail, which is the case with a second worker;
with a single one, see the hazard at `apps/worker/main.ts:43`.

`Simulator`: it is started again when it stops; what its loop tries over and over
it gets done at last, and a request that is repeated over and over reaches the
API at last, though any single one may be lost. `PostingComesToRest` is stated
under the condition that deliveries of the command end, which the broker decides.

`Acceptance`: calls proceed (weak fairness), and failures end at some time, since
no system answers callers whose every request fails. Nothing is assumed of the
order in which calls get a key.

`Investigation`: a request that was let in proceeds (weak fairness). Its
statements end, at the latest by `statement_timeout`, also the wait for the lock,
and the timer of `investigate` ends the wait for the provider. Nothing is assumed
of the provider.

`Evidence`: a statement that can run again and again runs (strong fairness: row
locks are granted in turn), a deadlock is found, the simulator goes on sending a
receipt that is accepted or repeated. Failures come to an end (`MaxFailures`).

`Console`: every request ends, by its answer or its timer, and its promise is settled; the timer
of the refresh goes on. Of the refreshes made at the place the user stays at, some
is answered at last (strong fairness); any number may fail before.

## 4. Proofs

All theorems are for any sets of commands, tasks, messages, callers, keys, requests
and tokens, and for any budgets, quotas and limits. The assumptions are the ones the
modules declare: `StoreAssumption` (`MAX_ATTEMPTS` is at least one), the ones of
`Dispatch` and `Reconcile` on the sets they are given, `SimulatorAssumption`,
`EndToEndAssumption` (a receipt is named by its command, because the device signs
one for each), `ParentSyncAssumption` (collectors have a configuration, pages and
their number are positive), `AcceptanceAssumption` (requests name keys, the values that
stand for "no row" are distinct from rows), `InvestigationAssumption` (every
request has a user and a process; quota and hour are positive), the
`EvidenceAssumption` of `Investigation` (ids of snapshots differ, an incident has one
snapshot of the reconciler's with two devices at most, or any number, in a sequence, of the parent's
or of unknown schemas), `ConsoleAssumption` (tokens have memberships, "no token" is
none) and the `EvidenceAssumption` of `Evidence`. The last one carries weight: a day is at least twice the sum of the window and the longest transaction.
The code bounds a statement (`statement_timeout`, ten seconds) and not a
transaction, so that half a day is enough is a fact about its few statements.

- `DeliveryProofs`. `TypeOK` and `OpenAttemptIsCurrent` are inductive together (`Core`):
  a row that holds a token holds that of its newest attempt, which is open, and no
  other attempt is, so a call with another token can neither finish nor reopen one.
  Theorems `CoreInvariant`, `TypeCorrect`, `NoAttemptIsStranded`.
- `VerdictProofs`. The inductive invariant is the core together with the verdicts
  and with `Supported`. `Supported` is needed because none of the verdicts is
  inductive: a call carries an outcome to `finish` long after it was decided, and
  a pass carries victims and problems from one statement to the next. So the
  invariant says that what they carry is true already (`CallsAreTruthful`,
  `PassIsTruthful`), that attempts and replays add up (`RowsAreAccounted`), and
  that receipts and marks agree (`ReceiptsAreWeighed`). From it follow
  `AttemptsWithinBudget`, `TablesAgree`, the verdicts,
  `ContradictionIsFlagged`; then the action properties `AttemptOutcomeIsFinal` and
  `CompletionLostOnlyToExpiry`, and `IncidentsWereTrue`: what an incident rests on
  (`Grounded`: a packet that was sent, a verdict, a mark) is never taken back, what a
  query finds holds in the state it sees, and until the pass commits only a receipt
  can make it untrue, by completing the command (`SaidStaysTrue`); then that `Delivery`
  implements `Lifecycle` (`RefinesLifecycle`), where a completion that was
  overwritten counts as one. `VerdictsHold` and `SupportHolds` state the verdicts
  and `Supported` itself. `TablesAlwaysAgree` adds the log: that the outcome a row
  stands at is its newest attempt's needs the core, because a row may only be
  finished by the holder of its token, and that `published_at` is set exactly when
  some attempt is recorded as published needs that outcomes are never rewritten.
- `EndProofs`. `EndToEnd` implements `Delivery` (`ImplementsDelivery`): the
  simulator is one of the environments `Delivery` allows. The invariants of
  `Delivery` therefore hold, and together with the agreement of inbox and
  `evidence` they give the end-to-end theorems. `ImplementsPromise` is the refinement
  of `Promise`, by cases over who moves: worker, reconciler, time and operators only
  give up without a receipt (from `Moves` and the verdicts of `VerdictProofs`), a
  receipt finds a command that is not completed, because the device has one receipt
  for it, and the loop settles what is recorded. It needs one more invariant,
  `OnlyAccepted`: rows, packets, calls and redeliveries are of accepted commands, or
  a device could hear of an announcement nobody made. `DecisionsAreFinal` then follows
  from `Promise` alone, and with it for the whole system: what a recorded receipt has
  decided stands. Both count a completion that was overwritten as one, as
  `RefinesLifecycle` does: it is `completed_at` that stands, not the column `state`.
- `ReportProofs`. `AcksAreBacked`: whatever the API does, an acknowledged receipt is
  stored. `OthersAlwaysGetThrough`: the invariant `PostingInv` says that the known rows
  are finitely many and numbered apart, so there is an oldest open row that is not
  refused, and only refused rows are before it, fewer than a batch holds.
  `MessagesCountOnce`: a call that holds an identity is alone under it, what was
  counted is still remembered or too old to be accepted, and a call that has looked
  up a heartbeat cannot be so slow that the heartbeat was counted and forgotten
  since: this is where the assumption on the day is spent. `RevokedCountsNothing`,
  `LastHeartbeatIsLatest`, `OnlyHeartbeatsDeadlock` (of the locks alone, without an
  invariant). `ImplementsIntake`: a commit is the moment a message is taken; that its
  key is good then is the share lock's doing, that nobody has taken it before is
  `MessagesCountOnce`, and every other step of a call is invisible.
- `AcceptanceProofs`. The invariant adds that an uncommitted row is alone under
  its key and that an answer under way is the one the rows give;
  `RowsAreAtomic`, `RevocationHolds`, and the refinement `ImplementsLedger`.
- `ParentSyncProofs`. `ObservationsAdvance`: the advisory lock keeps live scans
  apart, and what a dead collector has sent was fetched before the next scan
  began, so it is not newer than anything the next one fetches, and the row lock
  lets it commit first. The invariant orders observed, pending and fetched rows in
  this way. `CompleteScans` adds that the rows a scan has not covered yet lie
  beyond its page: new transactions push a row to later pages only, and the last
  page holds the oldest there are (`LastPage`). This is the argument why offsets
  into a moving list lose nothing. `OneScanAtATime` is part of the first invariant;
  `IncidentsAgree` adds that a COMMIT carries the judgement its rows deserve.
  `ImplementsMirror` puts these together: what a COMMIT writes, late or not, is
  between what was observed and what the parent has, and a scan that is recorded as
  complete is behind none recorded before.
- `InvestigationProofs`. `QuotaIsKept`. The invariant says that the lock excludes
  the other requests of the user, that recorded requests have been dated for good,
  and that a count made under the lock stays true until the event is inserted. It
  needs no relation between clock and dates: whatever hour the new event falls
  in, those of its user in that hour were counted, because the count has no upper
  end. That is why it does not matter that `now()` is older than the lock.
  `SlotsAreExact` counts the requests inside a process, `RequestsAreAudited` follows
  a request through its records. `AnswersAreFaithfulHolds` is about the operators of
  `Selection`, for any evidence of the shape the program writes: the places of every
  list are counted against its limit (one snapshot of a command, or the ten of
  the parent's transactions that are read, with four facts each), so nothing of the
  snapshots read is cut, and a snapshot that is not read has ten newer ones that are;
  a choice that passed the check names distinct facts that were shown, and what
  is rendered of it is the facts themselves, each once, with all others after them.
- `ConsoleProofs`. `ScreenHolds`, `CitationsResolveHolds`, `OneInvestigationHolds`.
  The invariant says what requests carry with them (a sender who may read the
  answer; the place they were made at, unless they are the refresh of a replay) and that the mark, the one investigation and
  the result on screen go together: a citation resolves because no other evidence
  can be put beside a result without clearing it.

Types are proved for every module with state (`TypeCorrect`, `SimulatorIsTyped`,
`CallsAreTyped`, `EvidenceIsTyped`, `InvestigationIsTyped`, `MirrorIsTyped`,
`ConsoleIsTyped`), from the same invariants; only `TypeOK` is also checked by a run.

Induction over data is avoided: where a least or a first element is needed (the
oldest row, the first place of a list), it comes from the well-foundedness of `<`
on the naturals (`WFMin` of the library), and lists are functions on places and
not sequences that are folded.

Only model-checked: all liveness (`EveryCommandIsDecided`, `DispatchComesToRest`,
`ConflictIsInvestigated`, `EveryReceiptIsStored`, `PostingComesToRest`,
`PlayedIsReported`, `EveryCallerIsAnswered`, `RepeatedIsTaken`, `SlotsComeFree`,
`RowsBecomeCurrent`), since the prover handles neither ENABLED nor fairness. Every
safety property and every refinement that a run expects to hold is proved.

## 5. What is not modelled

- The incidents about devices, authentication and dependencies, and
  `worker_status`. The loop of the worker as a process: that a reconcile that
  fails ends the cycle, and that the next cycle starts while dispatches of the last
  one still run.
- `migrate.ts`: see the plan.
- Row locks held by short transactions of delivery, and the deadlocks PostgreSQL
  resolves by failing one transaction (those of heartbeats are in `Evidence`):
  transactions that read and write one locked row are
  one step, and their failure is `FinishThrows` or a rollback.
- The contents of payments and messages; validation; roles; cryptography. A
  message that does not verify is refused and changes nothing. `rotate-key.ts` adds
  a key, which needs no model: a key that nobody has used yet is one of `Version`.
- Of the parent connection: the checks of a response's shape and size, an UPDATE of
  `parent_sources` that a dead collector left waiting for the row lock, and an
  advisory lock whose session ended without its collector noticing. The code has
  no fencing token for that case; the model lets a collector end with its session.
- `published_at` and `completed_at` as times: only whether they are set.
- The connection pool, metrics, logging, layout and wording of the console, its
  other tabs (they show rows as the two modelled ones do), and the other scripts,
  which drive the system and are no part of it.

## 6. Plan

Delivery, evidence, acceptance, simulator, investigation, parent monitoring and
console are in place. What remains, in this order:

| Module | Models | Properties and theorems |
|---|---|---|
| `WorkerLoop` | `worker/main.ts` as a process: cycle, `Promise.all`, shutdown | how many dispatches run at a time; claims depend on reconcile |
| `RowLocks` | the order of row locks of all transactions | which pairs can deadlock; all failures are retried |
| `Migrate` | `migrate.ts` under its advisory lock, interrupted anywhere | each migration is applied once, in order |

`Evidence` is to be composed with `Delivery` at `ReceiveEvidence`, so that its
statements interleave with those of the reconciler; `WorkerLoop` will refine the
claims of `Dispatch`. `ParentSync` still lacks liveness (a scan completes again once
failures end) and the UPDATE a dead collector may leave behind.
