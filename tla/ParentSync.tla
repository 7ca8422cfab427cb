----------------------------- MODULE ParentSync -----------------------------
(***************************************************************************)
(* Observation of the parent platform (packages/parent-monitoring, looped  *)
(* by scripts/parent-sync.ts).  A collector takes a session advisory lock, *)
(* then fetches page after page of the parent's transactions and imports   *)
(* each in a transaction of its own, on other connections than the one     *)
(* that has the lock.  Only the row lock of the source, FOR UPDATE,        *)
(* separates an import from the COMMIT of a collector that has died.       *)
(*                                                                         *)
(* The parent is external: it lists its newest transactions first, and     *)
(* announcements go from waiting to failed or published.                   *)
(***************************************************************************)
EXTENDS Integers, FiniteSets

CONSTANTS
  Collector, Mapping,
  config,      \* [Collector -> Mapping]: parent and merchant it is set up for
  Nobody, Unmapped,
  MaxRows,     \* bound of the model: transactions of the parent
  Fate,        \* bound of the model: how far each of them gets
  PageSize,    \* 100 in the code
  MaxPages     \* 20 in the code

Row == 1..MaxRows     \* by age, the oldest first

\* 0: there is no such transaction; 1: paid and not yet announced, or not paid;
\* 2: paid, announcement failed; 3: announced.  A later observation of a
\* transaction has a stage as high or higher.
Stage == 0..3

ASSUME ParentSyncAssumption ==
  /\ config \in [Collector -> Mapping]
  /\ Nobody \notin Collector /\ Unmapped \notin Mapping
  /\ MaxRows \in Nat /\ Fate \in [Row -> 1..3]
  /\ PageSize \in Nat \ {0} /\ MaxPages \in Nat \ {0}

VARIABLES
  stage,       \* the transactions of the parent
  observed,    \* parent_transactions
  incident,    \* the parent_publication_pending incident of every row
  source,      \* parent_sources: its mapping, sync_status, and for
               \* last_success_at what the parent had when that scan began
  lock,        \* who has the advisory lock
  tx,          \* the transaction that has the row of the source locked
  scan         \* where every collector is

parentVars == <<stage, observed, incident, source, lock, tx, scan>>

Page == UNION {[S -> Stage] : S \in SUBSET Row}

Nothing == [r \in Row |-> 0]
NoPage == [r \in {} |-> 0]
NoTx == [phase |-> "none", by |-> Nobody, items |-> NoPage, problems |-> {}]
Resting == [phase |-> "idle", page |-> 1, items |-> NoPage, last |-> FALSE, began |-> Nothing]

ParentTypeOK ==
  /\ stage \in [Row -> Stage] /\ observed \in [Row -> Stage]
  /\ incident \in [Row -> {"none", "open", "resolved"}]
  /\ source \in [mapping : Mapping \cup {Unmapped}, success : [Row -> Stage],
                 status : {"never", "syncing", "ok", "partial", "error"}]
  /\ lock \in Collector \cup {Nobody}
  /\ tx \in [phase : {"none", "open", "sent"}, by : Collector \cup {Nobody},
             items : Page, problems : SUBSET Row]
  /\ scan \in [Collector -> [phase : {"idle", "locked", "bound", "fetching", "fetched",
                                      "importing", "committing", "imported", "failed", "unlocking"},
                             page : 1..MaxPages, items : Page, last : BOOLEAN,
                             began : [Row -> Stage]]]

ParentInit ==
  /\ stage = Nothing /\ observed = Nothing
  /\ incident = [r \in Row |-> "none"]
  /\ source = [mapping |-> Unmapped, success |-> Nothing, status |-> "never"]
  /\ lock = Nobody
  /\ tx = NoTx
  /\ scan = [k \in Collector |-> Resting]

----------------------------------------------------------------------------
(* The parent *)

Create(r) ==
  /\ stage[r] = 0 /\ \A q \in 1 .. r - 1 : stage[q] > 0
  /\ stage' = [stage EXCEPT ![r] = 1]
  /\ UNCHANGED <<observed, incident, source, lock, tx, scan>>

Progress(r) ==
  /\ stage[r] > 0
  /\ \E s \in stage[r] + 1 .. Fate[r] : stage' = [stage EXCEPT ![r] = s]
  /\ UNCHANGED <<observed, incident, source, lock, tx, scan>>

Listed == Cardinality({r \in Row : stage[r] > 0})

Offset(p) == (p - 1) * PageSize

\* What a request for page p is answered.
Items(p) ==
  [r \in {q \in Row : stage[q] > 0 /\ Listed - q \in Offset(p) .. Offset(p) + PageSize - 1} |-> stage[r]]

\* Faulty: the last page is taken to be the one before.
LastEarly(p) == Cardinality(DOMAIN Items(p)) < PageSize \/ (p + 1) * PageSize >= Listed

Last(p) == Cardinality(DOMAIN Items(p)) < PageSize \/ p * PageSize >= Listed

----------------------------------------------------------------------------
(* syncParent *)

At(k, phase) == scan[k].phase = phase

Goes(k, phase) == scan' = [scan EXCEPT ![k].phase = phase]

\* The variables of the scan are out of scope.
Leaves(k, phase) == scan' = [scan EXCEPT ![k] = [Resting EXCEPT !.phase = phase]]

\* Faulty: whoever asks gets the lock.
LockFreeAlways(k) == TRUE

\* pg_try_advisory_lock
LockFree(k) == lock = Nobody

\* A collector that finds the lock taken returns 'busy'.
TryLock(k) ==
  /\ At(k, "idle") /\ LockFree(k)
  /\ lock' = k
  /\ Leaves(k, "locked")
  /\ UNCHANGED <<stage, observed, incident, source, tx>>

Matches(k, mapping) == mapping = config[k]

\* Faulty: the collector leaves without giving the lock back.
RejectedAtOnce == "idle"

\* The exception passes through finally.
Rejected == "unlocking"

More(k) == scan[k].page < MaxPages

\* The row of the source after the statement a collector is about to execute.
Written(k) ==
  CASE At(k, "locked") /\ source.mapping = Unmapped -> [source EXCEPT !.mapping = config[k]]
    [] At(k, "bound") -> [source EXCEPT !.status = "syncing"]
    [] At(k, "imported") /\ scan[k].last ->
         [source EXCEPT !.status = "ok", !.success = scan[k].began]
    [] At(k, "imported") /\ ~scan[k].last /\ ~More(k) -> [source EXCEPT !.status = "partial"]
    [] At(k, "failed") -> [source EXCEPT !.status = "error"]
    [] OTHER -> source

\* Every UPDATE of the row waits for its lock.
Write(k) == tx = NoTx /\ source' = Written(k)

\* A statement that fails, or is interrupted, may have been executed.
MayWrite(k) == source' = source \/ Write(k)

\* INSERT ... ON CONFLICT DO NOTHING, and the comparison with the stored row.
Bind(k) ==
  /\ At(k, "locked")
  /\ source' = Written(k)
  /\ Goes(k, IF Matches(k, Written(k).mapping) THEN "bound" ELSE Rejected)
  /\ UNCHANGED <<stage, observed, incident, lock, tx>>

\* sync_status='syncing'
Begin(k) ==
  /\ At(k, "bound") /\ Write(k)
  /\ scan' = [scan EXCEPT ![k].phase = "fetching", ![k].began = stage]
  /\ UNCHANGED <<stage, observed, incident, lock, tx>>

\* fetchParentPage
Fetch(k) ==
  /\ At(k, "fetching")
  /\ LET p == scan[k].page
     IN scan' = [scan EXCEPT ![k].phase = "fetched", ![k].items = Items(p), ![k].last = Last(p)]
  /\ UNCHANGED <<stage, observed, incident, source, lock, tx>>

NextPage(k) ==
  /\ At(k, "imported") /\ ~scan[k].last /\ More(k)
  /\ scan' = [scan EXCEPT ![k].phase = "fetching", ![k].page = @ + 1]
  /\ UNCHANGED <<stage, observed, incident, source, lock, tx>>

\* The scan is complete; or it is not after the last page a scan reads.
End(k) ==
  /\ At(k, "imported") /\ (scan[k].last \/ ~More(k))
  /\ Write(k)
  /\ Leaves(k, "unlocking")
  /\ UNCHANGED <<stage, observed, incident, lock, tx>>

\* A request or an UPDATE fails, in the inner try or outside of it.
Throw(k) ==
  /\ \/ At(k, "fetching") /\ Leaves(k, "failed")
     \/ At(k, "fetched") /\ Leaves(k, "failed")
     \/ At(k, "imported") /\ (scan[k].last \/ ~More(k)) /\ Leaves(k, "failed")
     \/ At(k, "locked") /\ Leaves(k, Rejected)
     \/ At(k, "bound") /\ Leaves(k, Rejected)
     \/ At(k, "failed") /\ Leaves(k, Rejected)
  /\ MayWrite(k)
  /\ UNCHANGED <<stage, observed, incident, lock, tx>>

\* catch
MarkError(k) ==
  /\ At(k, "failed") /\ Write(k)
  /\ Leaves(k, "unlocking")
  /\ UNCHANGED <<stage, observed, incident, lock, tx>>

\* finally
Unlock(k) ==
  /\ At(k, "unlocking")
  /\ lock' = Nobody
  /\ Leaves(k, "idle")
  /\ UNCHANGED <<stage, observed, incident, source, tx>>

\* PostgreSQL has a COMMIT whose collector does not wait for it any more.
Orphaned == [tx EXCEPT !.by = Nobody]

\* The collector stops anywhere and its sessions end: the advisory lock is
\* free, an open transaction is rolled back, one whose COMMIT was sent is not.
Crash(k) ==
  /\ ~At(k, "idle")
  /\ scan' = [scan EXCEPT ![k] = Resting]
  /\ lock' = IF lock = k THEN Nobody ELSE lock
  /\ \/ tx.by # k /\ tx' = tx
     \/ tx.by = k /\ tx.phase = "open" /\ tx' = NoTx
     \/ tx.by = k /\ tx.phase = "sent" /\ tx' = Orphaned
  /\ MayWrite(k)
  /\ UNCHANGED <<stage, observed, incident>>

----------------------------------------------------------------------------
(* importParentRows *)

\* The row of the source FOR UPDATE, and its comparison once more.
Import(k) ==
  /\ At(k, "fetched") /\ tx = NoTx
  /\ Matches(k, source.mapping)
  /\ tx' = [NoTx EXCEPT !.phase = "open", !.by = k, !.items = scan[k].items]
  /\ scan' = [scan EXCEPT ![k].phase = "importing", ![k].items = NoPage]
  /\ UNCHANGED <<stage, observed, incident, source, lock>>

With(items, s) == {r \in DOMAIN items : items[r] = s}

\* The rows are written, each judged by the clock of the collector if it waits.
SendCommit(k) ==
  /\ At(k, "importing")
  /\ \E late \in SUBSET With(tx.items, 1) :
       tx' = [tx EXCEPT !.phase = "sent", !.problems = With(tx.items, 2) \cup late]
  /\ Goes(k, "committing")
  /\ UNCHANGED <<stage, observed, incident, source, lock>>

\* Faulty: an incident that has been resolved stays so.
JudgedOnce(status, problem) ==
  CASE problem /\ status = "none" -> "open"
    [] ~problem /\ status = "open" -> "resolved"
    [] OTHER -> status

\* An incident is opened, reopened or resolved.
Judged(status, problem) ==
  CASE problem -> "open"
    [] ~problem /\ status # "none" -> "resolved"
    [] OTHER -> status

\* PostgreSQL commits, whether or not the collector is still there.
Commit ==
  /\ tx.phase = "sent"
  /\ observed' = [r \in Row |-> IF r \in DOMAIN tx.items THEN tx.items[r] ELSE observed[r]]
  /\ incident' = [r \in Row |->
       IF r \in DOMAIN tx.items THEN Judged(incident[r], r \in tx.problems) ELSE incident[r]]
  /\ tx' = NoTx
  /\ scan' = [k \in Collector |->
       IF k = tx.by THEN [scan[k] EXCEPT !.phase = "imported"] ELSE scan[k]]
  /\ UNCHANGED <<stage, source, lock>>

\* A statement of the import fails: rolled back.  When COMMIT does, it may
\* take effect all the same, also later.
ImportThrows(k) ==
  /\ \/ At(k, "importing") /\ tx' = NoTx
     \/ At(k, "committing") /\ tx' \in {NoTx, Orphaned}
  /\ Leaves(k, "failed")
  /\ UNCHANGED <<stage, observed, incident, source, lock>>

ParentNext ==
  \/ \E r \in Row : Create(r) \/ Progress(r)
  \/ \E k \in Collector :
       \/ TryLock(k) \/ Bind(k) \/ Begin(k) \/ Fetch(k) \/ NextPage(k) \/ End(k)
       \/ Throw(k) \/ MarkError(k) \/ Unlock(k) \/ Crash(k)
       \/ Import(k) \/ SendCommit(k) \/ ImportThrows(k)
  \/ Commit

ParentSpec == ParentInit /\ [][ParentNext]_parentVars

----------------------------------------------------------------------------

\* No observation is replaced by an older one, although collectors overlap,
\* stop, and leave a COMMIT behind.
NothingGoesBack == [][\A r \in Row : observed'[r] >= observed[r]]_parentVars

\* Overlapping collectors, their pages, locks and left-over COMMITs are
\* invisible: to a reader of the tables, observation is a picture of the parent
\* that only advances, with incidents that follow it and complete scans that
\* never fall behind one another.
Picture == INSTANCE Mirror WITH complete <- source.success

IsMirror == Picture!MirrorSpec

\* A scan that was recorded as complete has observed everything the parent had
\* when it began, although the pages shift while it runs.
CompleteScanSawAll == \A r \in Row : observed[r] >= source.success[r]

\* Incidents say what the newest observation says, whichever collector made it.
IncidentsFollow ==
  \A r \in Row :
    /\ observed[r] = 0 => incident[r] = "none"
    /\ observed[r] = 2 => incident[r] = "open"
    /\ observed[r] = 3 => incident[r] # "open"

\* The lock is held exactly by the collector that scans, and given back
\* whatever way the scan ends.
LockIsReturned == \A k \in Collector : lock = k <=> ~At(k, "idle")

\* Rows are fetched and imported only for the parent and the merchant that the
\* source was bound to first.
OneMapping ==
  \A k \in Collector :
    At(k, "fetched") \/ tx.by = k => config[k] = source.mapping

\* One scan at a time, under the lock, of the parent the source is bound to.
OneScan == LockIsReturned /\ OneMapping

=============================================================================
