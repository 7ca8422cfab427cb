-------------------------- MODULE ParentSyncProofs --------------------------
(***************************************************************************)
(* Observations of the parent never go back, for any collectors, mappings, *)
(* pages and histories.  The advisory lock keeps collectors apart while    *)
(* they live.  A COMMIT that a dead collector has left behind carries rows *)
(* that were fetched before the next collector had the lock, so it is      *)
(* older than whatever that one fetches, and the row lock of the source    *)
(* lets it pass first.                                                     *)
(***************************************************************************)
EXTENDS ParentSync, FiniteSetTheorems, TLAPS

\* What the argument needs of the types.
Shape ==
  /\ stage \in [Row -> Stage] /\ observed \in [Row -> Stage]
  /\ source \in [mapping : Mapping \cup {Unmapped}, success : [Row -> Stage],
                 status : {"never", "syncing", "ok", "partial", "error"}]
  /\ lock \in Collector \cup {Nobody}
  /\ tx \in [phase : {"none", "open", "sent"}, by : Collector \cup {Nobody},
             items : Page, problems : SUBSET Row]
  /\ scan \in [Collector -> [phase : {"idle", "locked", "bound", "fetching", "fetched",
                                      "importing", "committing", "imported", "failed", "unlocking"},
                             page : Int, items : Page, last : BOOLEAN,
                             began : [Row -> Stage]]]

\* A transaction belongs to a collector that waits for it, or to nobody.
Owned == \A k \in Collector : tx.by = k => At(k, "importing") \/ At(k, "committing")

\* Once it has passed the comparison, a collector is set up as the source is.
Bound ==
  \A k \in Collector :
    scan[k].phase \in {"bound", "fetching", "fetched", "importing", "committing", "imported"}
      => config[k] = source.mapping

\* What is about to be written is not older than what it replaces, and not
\* newer than the parent.
Pending ==
  /\ \A r \in Row : observed[r] <= stage[r]
  /\ \A r \in DOMAIN tx.items : observed[r] <= tx.items[r] /\ tx.items[r] <= stage[r]

\* What has been fetched is not older than what is observed, or about to be.
Fetched ==
  \A k \in Collector : At(k, "fetched") =>
    \A r \in DOMAIN scan[k].items :
      /\ observed[r] <= scan[k].items[r] /\ scan[k].items[r] <= stage[r]
      /\ r \in DOMAIN tx.items => tx.items[r] <= scan[k].items[r]

MirrorInv == Shape /\ LockIsReturned /\ Owned /\ Bound /\ Pending /\ Fetched

----------------------------------------------------------------------------

LEMMA NoPageIsPage == NoPage \in Page /\ DOMAIN NoPage = {}
  BY DEF NoPage, Page

\* A page holds rows with their stages.
LEMMA PageRows ==
  ASSUME NEW items \in Page
  PROVE  DOMAIN items \subseteq Row /\ \A r \in DOMAIN items : items[r] \in Stage
  BY DEF Page

LEMMA ItemsArePage ==
  ASSUME stage \in [Row -> Stage], NEW p
  PROVE  /\ Items(p) \in Page
         /\ \A r \in DOMAIN Items(p) : r \in Row /\ Items(p)[r] = stage[r]
<1> DEFINE S == {q \in Row : stage[q] > 0 /\ Listed - q \in Offset(p) .. Offset(p) + PageSize - 1}
<1>1. Items(p) = [r \in S |-> stage[r]] /\ S \subseteq Row
  BY DEF Items
<1> HIDE DEF S
<1>2. Items(p) \in [S -> Stage]
  BY <1>1
<1> QED
  BY <1>1, <1>2 DEF Page

LEMMA MirrorInit == ParentInit => MirrorInv
<1> SUFFICES ASSUME ParentInit PROVE MirrorInv
  OBVIOUS
<1>1. Nothing \in [Row -> Stage]
  BY DEF Nothing, Stage
<1>2. Shape
  BY <1>1, NoPageIsPage DEF ParentInit, Shape, NoTx, Resting
<1>3. LockIsReturned /\ Owned /\ Bound /\ Fetched
  BY ParentSyncAssumption DEF ParentInit, LockIsReturned, Owned, Bound, Fetched, At, Resting, NoTx
<1>4. Pending
  BY <1>1, NoPageIsPage DEF ParentInit, Pending, NoTx, Stage, Nothing
<1> QED
  BY <1>2, <1>3, <1>4 DEF MirrorInv

\* Steps that leave the parent, the observations and the transaction alone, and
\* leave no collector with a page it did not have.
LEMMA MirrorKept ==
  ASSUME MirrorInv, UNCHANGED <<stage, observed, tx>>,
         \A k \in Collector : At(k, "fetched")' => scan'[k] = scan[k]
  PROVE  Pending' /\ Fetched'
  BY DEF MirrorInv, Pending, Fetched, At

\* What a statement writes into the row of the source.
LEMMA WrittenRow ==
  ASSUME Shape, NEW k \in Collector
  PROVE  /\ Written(k) \in [mapping : Mapping \cup {Unmapped}, success : [Row -> Stage],
                            status : {"never", "syncing", "ok", "partial", "error"}]
         /\ \/ Written(k).mapping = source.mapping
            \/ source.mapping = Unmapped /\ At(k, "locked") /\ Written(k).mapping = config[k]
  BY ParentSyncAssumption DEF Written, Shape, At

Scanning == {"bound", "fetching", "fetched", "importing", "committing", "imported"}

Scan == [phase : {"idle", "locked", "bound", "fetching", "fetched",
                  "importing", "committing", "imported", "failed", "unlocking"},
         page : Int, items : Page, last : BOOLEAN, began : [Row -> Stage]]

\* A step of the only collector that is at work, other than fetch and import.
LEMMA MirrorQuiet ==
  ASSUME MirrorInv, UNCHANGED <<stage, observed, tx>>,
         NEW k \in Collector, lock \in {k, Nobody}, lock' \in {k, Nobody},
         NEW row \in Scan, scan' = [scan EXCEPT ![k] = row], row.phase # "fetched",
         lock' = k <=> row.phase # "idle",
         tx.by = k => row.phase \in {"importing", "committing"},
         source' = source \/ source' = Written(k),
         row.phase \in Scanning => config[k] = source'.mapping
  PROVE  MirrorInv'
<1> USE DEF MirrorInv
<1>1. /\ \A j \in Collector : scan'[j] = IF j = k THEN row ELSE scan[j]
      /\ k # Nobody
  BY ParentSyncAssumption DEF Shape
<1>2. Shape'
  <2>1. source' \in [mapping : Mapping \cup {Unmapped}, success : [Row -> Stage],
                     status : {"never", "syncing", "ok", "partial", "error"}]
    BY WrittenRow DEF Shape
  <2>2. scan' \in [Collector -> Scan]
    <3>1. scan \in [Collector -> Scan]
      BY DEF Shape, Scan
    <3> QED
      BY <3>1
  <2>3. lock' \in Collector \cup {Nobody}
    OBVIOUS
  <2>4. stage' = stage /\ observed' = observed /\ tx' = tx
    OBVIOUS
  <2> QED
    BY <2>1, <2>2, <2>3, <2>4 DEF Shape, Scan
<1>3. \A j \in Collector \ {k} : At(j, "idle")
  BY <1>1, ParentSyncAssumption DEF LockIsReturned
<1>4. LockIsReturned'
  BY <1>1, <1>3, ParentSyncAssumption DEF LockIsReturned, At
<1>5. Owned'
  BY <1>1, <1>3 DEF Owned, At
<1>6. Bound'
  BY <1>1, <1>3 DEF Bound, Scanning, At
<1>7. Pending' /\ Fetched'
  BY <1>1, <1>3, MirrorKept DEF At
<1> QED
  BY <1>2, <1>4, <1>5, <1>6, <1>7

Quiet(k) ==
  \/ TryLock(k) \/ Bind(k) \/ Begin(k) \/ NextPage(k) \/ End(k)
  \/ Throw(k) \/ MarkError(k) \/ Unlock(k)

LEMMA QuietStep ==
  ASSUME MirrorInv, NEW k \in Collector, Quiet(k)
  PROVE  MirrorInv'
<1> USE DEF MirrorInv
<1>1. /\ scan[k] \in Scan
      /\ \A phase \in {"idle", "locked", "failed", "unlocking"} :
           [Resting EXCEPT !.phase = phase] \in Scan /\ [Resting EXCEPT !.phase = phase].phase = phase
  <2>1. scan[k] \in Scan
    BY DEF Shape, Scan
  <2>2. Resting \in Scan
    <3>1. Nothing \in [Row -> Stage]
      BY DEF Nothing, Stage
    <3> QED
      BY <3>1, NoPageIsPage DEF Scan, Resting
  <2> QED
    BY <2>1, <2>2 DEF Scan
<1>2. k # Nobody /\ lock \in Collector \cup {Nobody}
  BY ParentSyncAssumption DEF Shape
<1>3. CASE TryLock(k)
  <2>1. tx.by # k
    BY <1>3 DEF TryLock, Owned, At
  <2> QED
    BY <1>1, <1>2, <1>3, <2>1, MirrorQuiet DEF TryLock, LockFree, Leaves, Scanning
<1>4. ASSUME ~At(k, "idle") PROVE lock = k
  BY <1>4 DEF LockIsReturned
<1>5. CASE Bind(k)
  <2>1. lock = k /\ tx.by # k
    BY <1>4, <1>5 DEF Bind, Owned, At
  <2>2. PICK phase \in {"bound", "unlocking"} :
          Goes(k, phase) /\ (phase = "bound" => config[k] = source'.mapping)
    BY <1>5 DEF Bind, Matches, Rejected
  <2>3. [scan[k] EXCEPT !.phase = phase] \in Scan
    BY <1>1, <2>2 DEF Scan
  <2>4. [scan[k] EXCEPT !.phase = phase].phase = phase
    BY <1>1 DEF Scan
  <2> QED
    BY <1>2, <1>5, <2>1, <2>2, <2>3, <2>4, MirrorQuiet DEF Bind, Goes, Scanning
<1>6. CASE Begin(k)
  <2>1. lock = k /\ tx.by # k
    BY <1>4, <1>6 DEF Begin, Owned, At
  <2> DEFINE row == [scan[k] EXCEPT !.phase = "fetching", !.began = stage]
  <2>2. row \in Scan /\ row.phase = "fetching" /\ scan' = [scan EXCEPT ![k] = row]
    BY <1>1, <1>6 DEF Scan, Begin, Shape
  <2>3. config[k] = source'.mapping
    <3>1. source'.mapping = source.mapping
      BY <1>6, WrittenRow DEF Begin, Write, At
    <3> QED
      BY <1>6, <3>1 DEF Begin, Bound, At
  <2> QED
    BY <1>2, <1>6, <2>1, <2>2, <2>3, MirrorQuiet DEF Begin, Write
<1>7. CASE NextPage(k)
  <2>1. lock = k /\ tx.by # k
    BY <1>4, <1>7 DEF NextPage, Owned, At
  <2> DEFINE row == [scan[k] EXCEPT !.phase = "fetching", !.page = @ + 1]
  <2>2. row \in Scan /\ row.phase = "fetching" /\ scan' = [scan EXCEPT ![k] = row]
    BY <1>1, <1>7 DEF Scan, NextPage, Shape
  <2>3. config[k] = source'.mapping
    BY <1>7 DEF NextPage, Bound, At
  <2> QED
    BY <1>2, <1>7, <2>1, <2>2, <2>3, MirrorQuiet DEF NextPage
<1>8. CASE End(k) \/ Throw(k) \/ MarkError(k)
  <2>1. lock = k /\ tx.by # k
    BY <1>4, <1>8 DEF End, Throw, MarkError, Owned, At
  <2>2. PICK phase \in {"failed", "unlocking"} : Leaves(k, phase)
    BY <1>8 DEF End, Throw, MarkError, Rejected
  <2>3. source' = source \/ source' = Written(k)
    BY <1>8 DEF End, Throw, MarkError, Write, MayWrite
  <2>4. UNCHANGED <<stage, observed, tx, lock>>
    BY <1>8 DEF End, Throw, MarkError
  <2> QED
    BY <1>1, <1>2, <2>1, <2>2, <2>3, <2>4, MirrorQuiet DEF Leaves, Scanning
<1>9. CASE Unlock(k)
  <2>1. lock = k /\ tx.by # k
    BY <1>4, <1>9 DEF Unlock, Owned, At
  <2> QED
    BY <1>1, <1>2, <1>9, <2>1, MirrorQuiet DEF Unlock, Leaves, Scanning
<1> QED
  BY <1>3, <1>5, <1>6, <1>7, <1>8, <1>9 DEF Quiet

\* The transactions of the parent only move on.
LEMMA ParentStep ==
  ASSUME MirrorInv, \E r \in Row : Create(r) \/ Progress(r)
  PROVE  MirrorInv'
<1> USE DEF MirrorInv
<1>1. stage' \in [Row -> Stage] /\ \A r \in Row : stage[r] <= stage'[r]
  <2>1. CASE \E r \in Row : Create(r)
    BY <2>1 DEF Create, Shape, Stage
  <2>2. CASE \E r \in Row : Progress(r)
    <3>1. PICK r \in Row : Progress(r)
      BY <2>2
    <3>2. stage[r] \in 0..3 /\ Fate[r] \in 1..3
      BY ParentSyncAssumption DEF Shape, Stage
    <3>3. PICK v \in stage[r] + 1 .. Fate[r] : stage' = [stage EXCEPT ![r] = v]
      BY <3>1 DEF Progress
    <3>4. v \in 0..3 /\ stage[r] <= v
      BY <3>2, <3>3
    <3> QED
      BY <3>3, <3>4 DEF Shape, Stage
  <2> QED
    BY <2>1, <2>2
<1>2. UNCHANGED <<observed, source, lock, tx, scan>>
  BY DEF Create, Progress
<1>3. Shape'
  BY <1>1, <1>2 DEF Shape
<1>4. LockIsReturned' /\ Owned' /\ Bound'
  BY <1>2 DEF LockIsReturned, Owned, Bound, At
<1>5. Pending'
  BY <1>1, <1>2, PageRows DEF Pending, Shape, Stage
<1>6. Fetched'
  <2>1. \A k \in Collector : scan[k].items \in Page
    BY DEF Shape
  <2> QED
    BY <1>1, <1>2, <2>1, PageRows DEF Fetched, At, Shape, Stage
<1> QED
  BY <1>3, <1>4, <1>5, <1>6

\* A page is fetched: nothing observed, and nothing about to be, is newer.
LEMMA FetchStep ==
  ASSUME MirrorInv, NEW k \in Collector, Fetch(k)
  PROVE  MirrorInv'
<1> USE DEF MirrorInv
<1>1. PICK items \in Page, last \in BOOLEAN :
        /\ scan' = [scan EXCEPT ![k].phase = "fetched", ![k].items = items, ![k].last = last]
        /\ \A r \in DOMAIN items : r \in Row /\ items[r] = stage[r]
  <2> DEFINE p == scan[k].page
  <2>1. /\ Items(p) \in Page
        /\ \A r \in DOMAIN Items(p) : r \in Row /\ Items(p)[r] = stage[r]
    BY ItemsArePage DEF Shape
  <2>2. Last(p) \in BOOLEAN
    BY DEF Last
  <2>3. scan' = [scan EXCEPT ![k].phase = "fetched", ![k].items = Items(p), ![k].last = Last(p)]
    BY DEF Fetch
  <2> HIDE DEF p
  <2> QED
    BY <2>1, <2>2, <2>3
<1>2. At(k, "fetching") /\ UNCHANGED <<stage, observed, incident, source, lock, tx>>
  BY DEF Fetch
<1>3. /\ \A j \in Collector \ {k} : scan'[j] = scan[j]
      /\ scan'[k] = [scan[k] EXCEPT !.phase = "fetched", !.items = items, !.last = last]
      /\ scan'[k].phase = "fetched" /\ scan'[k].items = items
  BY <1>1 DEF Shape
<1>4. Shape'
  <2>1. scan \in [Collector -> Scan]
    BY DEF Shape, Scan
  <2> DEFINE row == [scan[k] EXCEPT !.phase = "fetched", !.items = items, !.last = last]
  <2>2. row \in Scan /\ scan' = [scan EXCEPT ![k] = row]
    BY <1>1, <2>1 DEF Scan
  <2>3. scan' \in [Collector -> Scan]
    BY <2>1, <2>2
  <2> QED
    BY <1>2, <2>3 DEF Shape, Scan
<1>5. LockIsReturned' /\ Owned'
  BY <1>2, <1>3 DEF LockIsReturned, Owned, At
<1>6. Bound'
  BY <1>2, <1>3 DEF Bound, At
<1>7. Pending'
  BY <1>2 DEF Pending
<1>8. Fetched'
  <2> SUFFICES ASSUME NEW j \in Collector, At(j, "fetched")', NEW r \in DOMAIN scan'[j].items
               PROVE  /\ observed[r] <= scan'[j].items[r] /\ scan'[j].items[r] <= stage[r]
                      /\ r \in DOMAIN tx.items => tx.items[r] <= scan'[j].items[r]
    BY <1>2 DEF Fetched
  <2>1. CASE j = k
    BY <1>1, <1>3, <2>1 DEF Pending, Shape, Stage
  <2>2. CASE j # k
    BY <1>3, <2>2 DEF Fetched, At
  <2> QED
    BY <2>1, <2>2
<1> QED
  BY <1>4, <1>5, <1>6, <1>7, <1>8

LEMMA Alone ==
  ASSUME MirrorInv, NEW k \in Collector, ~At(k, "idle")
  PROVE  lock = k /\ k # Nobody /\ \A j \in Collector \ {k} : At(j, "idle")
  BY ParentSyncAssumption DEF MirrorInv, LockIsReturned

\* Without a transaction nothing is about to be written.
LEMMA NoTxIsQuiet ==
  /\ NoTx.by = Nobody /\ DOMAIN NoTx.items = {}
  /\ NoTx \in [phase : {"none", "open", "sent"}, by : Collector \cup {Nobody},
               items : Page, problems : SUBSET Row]
  BY NoPageIsPage DEF NoTx

\* A step of the only collector at work in which its transaction begins, goes
\* on or ends without an effect: no row is in it that was not fetched or in it.
LEMMA TxStep ==
  ASSUME MirrorInv, NEW k \in Collector, ~At(k, "idle"),
         UNCHANGED <<stage, observed>>,
         NEW row \in Scan, scan' = [scan EXCEPT ![k] = row], row.phase # "fetched",
         row.phase \in Scanning => config[k] = source'.mapping,
         lock' \in {k, Nobody}, lock' = k <=> row.phase # "idle",
         source' = source \/ source' = Written(k),
         tx' \in [phase : {"none", "open", "sent"}, by : Collector \cup {Nobody},
                  items : Page, problems : SUBSET Row],
         tx'.by \in {k, Nobody, tx.by},
         tx'.by = k => row.phase \in {"importing", "committing"},
         \/ DOMAIN tx'.items = {}
         \/ tx'.items = tx.items
         \/ At(k, "fetched") /\ tx'.items = scan[k].items
  PROVE  MirrorInv'
<1> USE DEF MirrorInv
<1>1. /\ \A j \in Collector : scan'[j] = IF j = k THEN row ELSE scan[j]
      /\ lock = k /\ k # Nobody /\ \A j \in Collector \ {k} : At(j, "idle")
  BY Alone DEF Shape
<1>2. Shape'
  <2>1. source' \in [mapping : Mapping \cup {Unmapped}, success : [Row -> Stage],
                     status : {"never", "syncing", "ok", "partial", "error"}]
    BY WrittenRow DEF Shape
  <2>2. scan' \in [Collector -> Scan]
    <3>1. scan \in [Collector -> Scan]
      BY DEF Shape, Scan
    <3> QED
      BY <3>1
  <2>3. lock' \in Collector \cup {Nobody}
    OBVIOUS
  <2>4. stage' = stage /\ observed' = observed
    OBVIOUS
  <2> QED
    BY <2>1, <2>2, <2>3, <2>4 DEF Shape, Scan
<1>3. LockIsReturned'
  BY <1>1, ParentSyncAssumption DEF LockIsReturned, At
<1>4. Owned'
  <2> SUFFICES ASSUME NEW j \in Collector, tx'.by = j
               PROVE  scan'[j].phase \in {"importing", "committing"}
    BY DEF Owned, At
  <2>1. j = k
    BY <1>1, ParentSyncAssumption DEF Owned, At
  <2> QED
    BY <1>1, <2>1
<1>5. Bound'
  BY <1>1 DEF Bound, Scanning, At
<1>6. Pending'
  BY DEF Pending, Fetched
<1>7. Fetched'
  BY <1>1 DEF Fetched, At
<1> QED
  BY <1>2, <1>3, <1>4, <1>5, <1>6, <1>7

LEMMA TxActions ==
  ASSUME MirrorInv, NEW k \in Collector,
         Import(k) \/ SendCommit(k) \/ ImportThrows(k) \/ Crash(k)
  PROVE  MirrorInv'
<1> USE DEF MirrorInv
<1>1. /\ scan[k] \in Scan
      /\ \A phase \in {"idle", "failed"} :
           [Resting EXCEPT !.phase = phase] \in Scan /\ [Resting EXCEPT !.phase = phase].phase = phase
      /\ Resting \in Scan /\ Resting.phase = "idle"
  <2>1. scan[k] \in Scan
    BY DEF Shape, Scan
  <2>2. Resting \in Scan /\ Resting.phase = "idle"
    <3>1. Nothing \in [Row -> Stage]
      BY DEF Nothing, Stage
    <3> QED
      BY <3>1, NoPageIsPage DEF Scan, Resting
  <2> QED
    BY <2>1, <2>2 DEF Scan
<1>2. ~At(k, "idle")
  BY DEF Import, SendCommit, ImportThrows, Crash, At
<1>3. lock = k /\ k # Nobody
  BY <1>2, Alone
<1>4. UNCHANGED <<stage, observed>>
  BY DEF Import, SendCommit, ImportThrows, Crash
<1>5. CASE Import(k)
  <2> DEFINE row == [scan[k] EXCEPT !.phase = "importing", !.items = NoPage]
  <2>1. row \in Scan /\ row.phase = "importing" /\ scan' = [scan EXCEPT ![k] = row]
    BY <1>1, <1>5, NoPageIsPage DEF Import, Scan, Shape
  <2>2. config[k] = source'.mapping /\ source' = source /\ lock' = k /\ At(k, "fetched")
    BY <1>3, <1>5 DEF Import, Matches
  <2>3. /\ tx' \in [phase : {"none", "open", "sent"}, by : Collector \cup {Nobody},
                    items : Page, problems : SUBSET Row]
        /\ tx'.by = k /\ tx'.items = scan[k].items
    BY <1>1, <1>5, NoTxIsQuiet DEF Import, Scan
  <2> HIDE DEF row
  <2> QED
    BY <1>2, <1>3, <1>4, <2>1, <2>2, <2>3, TxStep
<1>6. CASE SendCommit(k)
  <2> DEFINE row == [scan[k] EXCEPT !.phase = "committing"]
  <2>1. row \in Scan /\ row.phase = "committing" /\ scan' = [scan EXCEPT ![k] = row]
    BY <1>1, <1>6 DEF SendCommit, Goes, Scan
  <2>2. config[k] = source'.mapping /\ source' = source /\ lock' = k
    BY <1>3, <1>6 DEF SendCommit, Bound, At
  <2>3. PICK problems \in SUBSET Row : tx' = [tx EXCEPT !.phase = "sent", !.problems = problems]
    <3>1. \A v : With(tx.items, v) \subseteq Row
      BY PageRows DEF With, Shape
    <3> QED
      BY <1>6, <3>1 DEF SendCommit
  <2>4. /\ tx' \in [phase : {"none", "open", "sent"}, by : Collector \cup {Nobody},
                    items : Page, problems : SUBSET Row]
        /\ tx'.by = tx.by /\ tx'.items = tx.items
    BY <2>3 DEF Shape
  <2> HIDE DEF row
  <2> QED
    BY <1>2, <1>3, <1>4, <2>1, <2>2, <2>4, TxStep
<1>7. tx' = NoTx \/ tx' = Orphaned \/ (tx' = tx /\ tx.by # k) =>
        /\ tx' \in [phase : {"none", "open", "sent"}, by : Collector \cup {Nobody},
                    items : Page, problems : SUBSET Row]
        /\ tx'.by \in {Nobody, tx.by} /\ tx'.by # k
        /\ DOMAIN tx'.items = {} \/ tx'.items = tx.items
  <2>1. /\ Orphaned \in [phase : {"none", "open", "sent"}, by : Collector \cup {Nobody},
                          items : Page, problems : SUBSET Row]
        /\ Orphaned.by = Nobody /\ Orphaned.items = tx.items
    BY DEF Shape, Orphaned
  <2> QED
    BY <1>3, <2>1, NoTxIsQuiet DEF Shape
<1>8. CASE ImportThrows(k)
  <2>1. tx' = NoTx \/ tx' = Orphaned
    BY <1>8 DEF ImportThrows
  <2>2. source' = source /\ lock' = k /\ Leaves(k, "failed")
    BY <1>3, <1>8 DEF ImportThrows
  <2> DEFINE row == [Resting EXCEPT !.phase = "failed"]
  <2>3. row \in Scan /\ row.phase = "failed" /\ scan' = [scan EXCEPT ![k] = row]
    BY <1>1, <2>2 DEF Leaves
  <2> HIDE DEF row
  <2>4. /\ tx' \in [phase : {"none", "open", "sent"}, by : Collector \cup {Nobody},
                    items : Page, problems : SUBSET Row]
        /\ tx'.by \in {Nobody, tx.by} /\ tx'.by # k
        /\ DOMAIN tx'.items = {} \/ tx'.items = tx.items
    BY <1>7, <2>1
  <2> QED
    BY <1>2, <1>3, <1>4, <2>2, <2>3, <2>4, TxStep DEF Scanning
<1>9. CASE Crash(k)
  <2>1. tx' = NoTx \/ tx' = Orphaned \/ (tx' = tx /\ tx.by # k)
    BY <1>9 DEF Crash
  <2>2. /\ source' = source \/ source' = Written(k)
        /\ lock' = Nobody /\ scan' = [scan EXCEPT ![k] = Resting]
    BY <1>3, <1>9 DEF Crash, MayWrite, Write
  <2> QED
    BY <1>1, <1>2, <1>3, <1>4, <1>7, <2>1, <2>2, TxStep DEF Scanning
<1> QED
  BY <1>5, <1>6, <1>8, <1>9

LEMMA CommitStep ==
  ASSUME MirrorInv, Commit
  PROVE  MirrorInv' /\ \A r \in Row : observed'[r] >= observed[r]
<1> USE DEF MirrorInv
<1>1. /\ UNCHANGED <<stage, source, lock>> /\ tx' = NoTx
      /\ \A r \in Row : observed'[r] = IF r \in DOMAIN tx.items THEN tx.items[r] ELSE observed[r]
      /\ \A j \in Collector : scan'[j] = IF j = tx.by THEN [scan[j] EXCEPT !.phase = "imported"] ELSE scan[j]
  BY DEF Commit
<1>2. DOMAIN tx.items \subseteq Row /\ \A r \in DOMAIN tx.items : tx.items[r] \in Stage
  BY PageRows DEF Shape
<1>3. \A j \in Collector : j = tx.by => scan'[j].phase = "imported" /\ scan[j].phase \in {"importing", "committing"}
  BY <1>1 DEF Owned, At, Shape
<1>4. Shape'
  <2>1. observed' \in [Row -> Stage]
    BY <1>2 DEF Commit, Shape
  <2>2. scan' \in [Collector -> Scan]
    <3>1. scan \in [Collector -> Scan]
      BY DEF Shape, Scan
    <3>2. \A j \in Collector : [scan[j] EXCEPT !.phase = "imported"] \in Scan
      BY <3>1 DEF Scan
    <3> QED
      BY <3>1, <3>2 DEF Commit
  <2> QED
    BY <1>1, <2>1, <2>2, NoTxIsQuiet DEF Shape, Scan
<1>5. LockIsReturned'
  BY <1>1, <1>3 DEF LockIsReturned, At
<1>6. Owned'
  BY <1>1, NoTxIsQuiet, ParentSyncAssumption DEF Owned
<1>7. Bound'
  BY <1>1, <1>3 DEF Bound
<1>8. Pending' /\ \A r \in Row : observed'[r] >= observed[r]
  BY <1>1, <1>2, NoTxIsQuiet DEF Pending, Shape, Stage
<1>9. Fetched'
  <2> SUFFICES ASSUME NEW j \in Collector, At(j, "fetched")', NEW r \in DOMAIN scan'[j].items
               PROVE  observed'[r] <= scan'[j].items[r] /\ scan'[j].items[r] <= stage[r]
    BY <1>1, NoTxIsQuiet DEF Fetched
  <2>1. scan'[j] = scan[j] /\ At(j, "fetched")
    BY <1>1, <1>3 DEF At
  <2>2. r \in Row
    BY <2>1, PageRows DEF Shape
  <2> QED
    BY <1>1, <2>1, <2>2 DEF Fetched
<1> QED
  BY <1>4, <1>5, <1>6, <1>7, <1>8, <1>9

LEMMA MirrorStep == MirrorInv /\ [ParentNext]_parentVars => MirrorInv'
<1> SUFFICES ASSUME MirrorInv, [ParentNext]_parentVars PROVE MirrorInv'
  OBVIOUS
<1>1. CASE UNCHANGED parentVars
  BY <1>1 DEF parentVars, MirrorInv, Shape, LockIsReturned, Owned, Bound, Pending, Fetched, At
<1>2. CASE ParentNext
  BY <1>2, ParentStep, QuietStep, FetchStep, TxActions, CommitStep DEF ParentNext, Quiet
<1> QED
  BY <1>1, <1>2

----------------------------------------------------------------------------

THEOREM MirrorInvariant == ParentSpec => []MirrorInv
  BY MirrorInit, MirrorStep, PTL DEF ParentSpec

\* No observation is replaced by an older one, for any number of collectors,
\* rows and pages.
THEOREM ObservationsAdvance == ParentSpec => NothingGoesBack
<1>1. MirrorInv /\ [ParentNext]_parentVars => [\A r \in Row : observed'[r] >= observed[r]]_parentVars
  <2> SUFFICES ASSUME MirrorInv, ParentNext PROVE \A r \in Row : observed'[r] >= observed[r]
    OBVIOUS
  <2>1. CASE Commit
    BY <2>1, CommitStep
  <2>2. CASE observed' = observed
    BY <2>2 DEF MirrorInv, Shape, Stage
  <2> QED
    BY <2>1, <2>2 DEF ParentNext, Create, Progress, TryLock, Bind, Begin, Fetch, NextPage, End,
         Throw, MarkError, Unlock, Crash, Import, SendCommit, ImportThrows
<1> QED
  BY <1>1, MirrorInvariant, PTL DEF ParentSpec, NothingGoesBack

\* The advisory lock is held exactly during a scan, and what is fetched and
\* imported belongs to the mapping of the source.
THEOREM OneScanAtATime == ParentSpec => []OneScan
<1>1. MirrorInv => OneScan
  BY DEF MirrorInv, Bound, Owned, LockIsReturned, OneMapping, OneScan, At
<1> QED
  BY <1>1, MirrorInvariant, PTL

----------------------------------------------------------------------------
(* Complete scans *)

\* The transactions of the parent are numbered in the order of their creation.
Numbered == {r \in Row : stage[r] > 0} = 1 .. Listed

\* r has been observed as far as it had come when the scan of k began.
Seen(k, r) == observed[r] >= scan[k].began[r]

\* r is on a later page than those before p.
Beyond(r, p) == r <= Listed /\ Listed - r >= Offset(p)

Later(k, r) == ~scan[k].last /\ Beyond(r, scan[k].page + 1)

\* What the parent had when the scan began has been observed, is on its way to
\* be, or is still to be fetched, wherever new transactions have moved it.
CoveredBy(k) ==
  /\ scan[k].page >= 1
  /\ scan[k].phase \in {"locked", "bound"} => scan[k].page = 1
  /\ scan[k].phase \in {"importing", "committing"} => tx.by = k
  /\ \A r \in Row :
       /\ scan[k].began[r] <= stage[r]
       /\ At(k, "fetching") => Seen(k, r) \/ Beyond(r, scan[k].page)
       /\ At(k, "fetched") =>
            \/ Seen(k, r) \/ Later(k, r)
            \/ r \in DOMAIN scan[k].items /\ scan[k].items[r] >= scan[k].began[r]
       /\ scan[k].phase \in {"importing", "committing"} =>
            \/ Seen(k, r) \/ Later(k, r)
            \/ r \in DOMAIN tx.items /\ tx.items[r] >= scan[k].began[r]
       /\ At(k, "imported") => Seen(k, r) \/ Later(k, r)

ScanInv ==
  MirrorInv /\ Numbered /\ CompleteScanSawAll /\ \A k \in Collector : CoveredBy(k)

\* The last page has the oldest transactions there are.
LEMMA LastPage ==
  ASSUME Shape, Numbered, NEW p \in Nat \ {0}, NEW r \in Row, Beyond(r, p), stage[r] > 0
  PROVE  r \in DOMAIN Items(p) \/ (~Last(p) /\ Beyond(r, p + 1))
<1>1. Listed \in Nat /\ PageSize \in Nat \ {0} /\ r \in Int
  <2>1. IsFiniteSet(Row)
    BY FS_Interval, ParentSyncAssumption DEF Row
  <2>2. IsFiniteSet({q \in Row : stage[q] > 0})
    BY <2>1, FS_Subset
  <2> QED
    BY <2>2, FS_CardinalityType, ParentSyncAssumption DEF Listed, Row
<1>2. Offset(p) \in Int /\ Offset(p + 1) = Offset(p) + PageSize /\ p * PageSize = Offset(p) + PageSize
  BY <1>1 DEF Offset
<1>3. DOMAIN Items(p) = {q \in Row : stage[q] > 0 /\ Listed - q \in Offset(p) .. Offset(p) + PageSize - 1}
  BY DEF Items
<1>4. CASE Listed - r < Offset(p) + PageSize
  BY <1>1, <1>2, <1>3, <1>4 DEF Beyond
<1>5. CASE Listed - r >= Offset(p) + PageSize
  <2>1. Offset(p + 1) <= Listed - r /\ r <= Listed /\ r >= 1
    BY <1>2, <1>5 DEF Beyond, Row
  <2> DEFINE a == Listed - Offset(p) - PageSize + 1
             b == Listed - Offset(p)
  <2>2. a \in Int /\ b \in Int /\ a <= b /\ b - a + 1 = PageSize /\ a >= 1
    BY <1>1, <1>2, <2>1
  <2>3. Offset(p) >= 0
    <3> DEFINE n == p - 1
    <3>1. n \in Nat
      OBVIOUS
    <3> HIDE DEF n
    <3>2. n * PageSize >= 0
      BY <1>1, <3>1
    <3> QED
      BY <3>2 DEF Offset, n
  <2>4. DOMAIN Items(p) = a .. b
    BY <1>1, <1>2, <1>3, <2>2, <2>3 DEF Numbered, Row
  <2>5. Cardinality(DOMAIN Items(p)) = PageSize
    BY <2>2, <2>4, FS_Interval
  <2> QED
    BY <1>1, <1>2, <2>1, <2>5 DEF Last, Beyond
<1> QED
  BY <1>1, <1>2, <1>4, <1>5

LEMMA ListedType == Listed \in Nat
<1>1. IsFiniteSet(Row)
  BY FS_Interval, ParentSyncAssumption DEF Row
<1>2. IsFiniteSet({q \in Row : stage[q] > 0})
  BY <1>1, FS_Subset
<1> QED
  BY <1>2, FS_CardinalityType DEF Listed

LEMMA StageTypes ==
  ASSUME Shape
  PROVE  /\ \A r \in Row : r \in Int /\ stage[r] \in Nat /\ observed[r] \in Nat /\ source.success[r] \in Nat
         /\ \A k \in Collector : scan[k].page \in Int /\ \A r \in Row : scan[k].began[r] \in Nat
<1>1. \A v \in Stage : v \in Nat
  BY DEF Stage
<1>2. \A r \in Row : r \in Int
  BY ParentSyncAssumption DEF Row
<1>3. \A r \in Row : stage[r] \in Stage /\ observed[r] \in Stage /\ source.success[r] \in Stage
  BY DEF Shape
<1>4. \A k \in Collector : scan[k].page \in Int /\ \A r \in Row : scan[k].began[r] \in Stage
  BY DEF Shape
<1> QED
  BY <1>1, <1>2, <1>3, <1>4

\* Transactions are numbered as they come, and none goes away.
LEMMA NumberedStep ==
  ASSUME Shape, Shape', Numbered, [ParentNext]_parentVars
  PROVE  Numbered' /\ Listed' \in Nat /\ Listed' >= Listed /\ \A r \in Row : stage'[r] >= stage[r]
<1>1. Listed \in Nat /\ MaxRows \in Nat
  BY ListedType, ParentSyncAssumption
<1>2. CASE stage' = stage
  <2>1. {q \in Row : stage'[q] > 0} = {q \in Row : stage[q] > 0}
    BY <1>2
  <2>2. Listed' = Listed
    BY <2>1 DEF Listed
  <2>3. \A r \in Row : stage'[r] >= stage[r]
    BY <1>2, StageTypes
  <2> QED
    BY <1>1, <2>1, <2>2, <2>3 DEF Numbered
<1>3. CASE \E r \in Row : Create(r)
  <2>1. PICK r \in Row : Create(r)
    BY <1>3
  <2> DEFINE n == Listed
             old == {q \in Row : stage[q] > 0}
             new == {q \in Row : stage'[q] > 0}
  <2>2. old = 1 .. n /\ n \in Nat
    BY <1>1 DEF Numbered
  <2>3. stage[r] = 0 /\ (\A q \in 1 .. r - 1 : stage[q] > 0) /\ stage' = [stage EXCEPT ![r] = 1]
    BY <2>1 DEF Create
  <2>4. \A q \in Row : stage[q] \in Int /\ stage'[q] = IF q = r THEN 1 ELSE stage[q]
    BY <2>3 DEF Shape, Stage
  <2>5. \A q \in Row : stage'[q] >= stage[q]
    BY <2>3, <2>4
  <2>6. new = old \cup {r}
    BY <2>3, <2>4
  <2>7. r \notin old /\ r \in 1 .. MaxRows /\ r \in Int
    BY <1>1, <2>3 DEF Row
  <2> HIDE DEF n
  <2>8. r > n
    BY <2>2, <2>7
  <2>9. ~(r > n + 1)
    <3> SUFFICES ASSUME r > n + 1 PROVE FALSE
      OBVIOUS
    <3>1. n + 1 \in Row /\ n + 1 \in 1 .. r - 1
      BY <1>1, <2>2, <2>7 DEF Row
    <3>2. n + 1 \in old
      BY <2>3, <3>1
    <3> QED
      BY <2>2, <3>2
  <2>10. new = 1 .. n + 1
    BY <2>2, <2>6, <2>7, <2>8, <2>9
  <2>11. Cardinality(new) = n + 1
    <3>1. 1 \in Int /\ n + 1 \in Int /\ 1 <= n + 1 /\ n + 1 - 1 + 1 = n + 1
      BY <2>2
    <3>2. Cardinality(1 .. n + 1) = n + 1 - 1 + 1
      BY <3>1, FS_Interval
    <3> QED
      BY <2>10, <3>1, <3>2
  <2>12. Listed' = Cardinality(new)
    BY DEF Listed
  <2>13. Listed' = n + 1 /\ new = 1 .. Listed' /\ Listed' >= n /\ Listed' \in Nat
    BY <2>2, <2>10, <2>11, <2>12
  <2> QED
    BY <2>5, <2>13 DEF Numbered, n
<1>4. CASE \E r \in Row : Progress(r)
  <2>1. PICK r \in Row : Progress(r)
    BY <1>4
  <2>2. stage[r] \in Int /\ stage[r] > 0 /\ Fate[r] \in Int
    <3>1. Fate[r] \in 1..3
      BY ParentSyncAssumption
    <3> QED
      BY <2>1, <3>1, StageTypes DEF Progress
  <2>3. PICK v \in stage[r] + 1 .. Fate[r] : stage' = [stage EXCEPT ![r] = v]
    BY <2>1 DEF Progress
  <2>4. v \in Int /\ v > 0 /\ v >= stage[r]
    BY <2>2, <2>3
  <2>5. \A q \in Row : stage[q] \in Int /\ stage'[q] = IF q = r THEN v ELSE stage[q]
    BY <2>3, StageTypes DEF Shape
  <2>6. \A q \in Row : (stage'[q] > 0 <=> stage[q] > 0) /\ stage'[q] >= stage[q]
    BY <2>2, <2>4, <2>5
  <2>7. {q \in Row : stage'[q] > 0} = {q \in Row : stage[q] > 0}
    BY <2>6
  <2>8. Listed' = Listed
    BY <2>7 DEF Listed
  <2> QED
    BY <1>1, <2>6, <2>7, <2>8 DEF Numbered
<1>5. stage' = stage \/ \E r \in Row : Create(r) \/ Progress(r)
  BY DEF ParentNext, parentVars, TryLock, Bind, Begin, Fetch, NextPage, End, Throw, MarkError,
         Unlock, Crash, Import, SendCommit, ImportThrows, Commit
<1> QED
  BY <1>2, <1>3, <1>4, <1>5

\* The world has moved on, and k has not.
LEMMA CoveredStays ==
  ASSUME Shape, Shape', NEW k \in Collector, CoveredBy(k), scan'[k] = scan[k],
         \A r \in Row : stage'[r] >= stage[r] /\ observed'[r] >= observed[r],
         Listed' \in Nat, Listed' >= Listed,
         scan[k].phase \in {"importing", "committing"} => tx'.by = tx.by /\ tx'.items = tx.items
  PROVE  CoveredBy(k)'
<1>1. scan[k].page \in Int /\ scan[k].began \in [Row -> Stage] /\ Listed \in Nat
      /\ PageSize \in Nat
  BY ListedType, ParentSyncAssumption DEF Shape
<1>2. \A p \in Int : Offset(p) \in Int
  BY <1>1 DEF Offset
<1>3. \A r \in Row : \A p \in Int : Beyond(r, p) => r <= Listed' /\ Listed' - r >= Offset(p)
  BY <1>1, <1>2 DEF Beyond, Row
<1>4. \A r \in Row : /\ observed[r] \in Int /\ observed'[r] \in Int
                      /\ stage[r] \in Int /\ stage'[r] \in Int /\ scan[k].began[r] \in Int
  <2>1. \A v \in Stage : v \in Int
    BY DEF Stage
  <2>2. \A r \in Row : observed'[r] \in Stage /\ stage'[r] \in Stage
    BY DEF Shape
  <2> QED
    BY <2>1, <2>2, StageTypes
<1>5. \A r \in Row : Seen(k, r) => observed'[r] >= scan[k].began[r]
  BY <1>4 DEF Seen
<1>6. \A r \in Row : scan[k].began[r] <= stage'[r]
  BY <1>4 DEF CoveredBy
<1>7. \A r \in Row : Seen(k, r) => Seen(k, r)'
  BY <1>5 DEF Seen
<1>8. \A r \in Row : Later(k, r) => Later(k, r)'
  <2>1. scan[k].page + 1 \in Int
    BY <1>1
  <2>2. \A r \in Row : Beyond(r, scan[k].page + 1) => Beyond(r, scan[k].page + 1)'
    BY <1>3, <2>1 DEF Beyond, Offset
  <2> QED
    BY <2>2 DEF Later
<1>9. \A r \in Row : Beyond(r, scan[k].page) => Beyond(r, scan[k].page)'
  BY <1>1, <1>3 DEF Beyond, Offset
<1> QED
  BY <1>6, <1>7, <1>8, <1>9 DEF CoveredBy, At

\* A collector without a page and without a scan has nothing to cover.
LEMMA CoveredAtRest ==
  ASSUME Shape', NEW k \in Collector, NEW phase \in {"idle", "locked", "failed", "unlocking"},
         scan'[k] = [Resting EXCEPT !.phase = phase]
  PROVE  CoveredBy(k)'
<1>1. scan'[k].page = 1 /\ scan'[k].phase = phase /\ \A r \in Row : scan'[k].began[r] = 0
  BY DEF Resting, Nothing
<1>2. \A r \in Row : scan'[k].began[r] <= stage'[r]
  BY <1>1 DEF Shape, Stage
<1> QED
  BY <1>1, <1>2 DEF CoveredBy, At

\* A step of the only collector at work that observes nothing.
LEMMA OneMoves ==
  ASSUME ScanInv, MirrorInv', Numbered', Listed' \in Nat, UNCHANGED <<stage, observed>>,
         NEW k \in Collector, ~At(k, "idle") \/ lock = Nobody,
         \A j \in Collector \ {k} : scan'[j] = scan[j],
         CoveredBy(k)', source' = source \/ source' = Written(k)
  PROVE  ScanInv'
<1>1. MirrorInv /\ Shape /\ Shape'
  BY DEF ScanInv, MirrorInv
<1>2. \A j \in Collector \ {k} : At(j, "idle")
  BY <1>1, Alone, ParentSyncAssumption DEF MirrorInv, LockIsReturned
<1>3. \A r \in Row : stage'[r] >= stage[r] /\ observed'[r] >= observed[r]
  BY <1>1, StageTypes
<1>4. Listed' = Listed /\ Listed' >= Listed
  BY <1>1, ListedType DEF Listed
<1>5. \A j \in Collector \ {k} : CoveredBy(j)'
  BY <1>1, <1>2, <1>3, <1>4, CoveredStays DEF At, ScanInv
<1>6. CompleteScanSawAll'
  <2>1. CASE source'.success = source.success
    BY <2>1 DEF ScanInv, CompleteScanSawAll
  <2>2. CASE /\ At(k, "imported") /\ scan[k].last
             /\ source'.success = scan[k].began
    <3>1. \A r \in Row : Seen(k, r)
      BY <2>2 DEF ScanInv, CoveredBy, Later
    <3> QED
      BY <2>2, <3>1 DEF Seen, CompleteScanSawAll
  <2>3. \/ Written(k).success = source.success
        \/ At(k, "imported") /\ scan[k].last /\ Written(k).success = scan[k].began
    BY <1>1 DEF Written, Shape
  <2> QED
    BY <2>1, <2>2, <2>3
<1> QED
  BY <1>5, <1>6 DEF ScanInv

\* A scan is begun, goes to its next page, fetches it or hands it over.
LEMMA CoveredNext ==
  ASSUME ScanInv, Shape', NEW k \in Collector,
         Bind(k) \/ Begin(k) \/ Fetch(k) \/ NextPage(k) \/ Import(k) \/ SendCommit(k)
  PROVE  CoveredBy(k)'
<1>1. MirrorInv /\ Shape /\ Numbered /\ CoveredBy(k)
  BY DEF ScanInv, MirrorInv
<1>2. scan[k] \in Scan /\ scan[k].page \in Nat \ {0} /\ \A r \in Row : scan[k].began[r] <= stage[r]
  BY <1>1 DEF Shape, Scan, CoveredBy
<1>3. UNCHANGED <<stage, observed>>
  BY DEF Bind, Begin, Fetch, NextPage, Import, SendCommit
<1>4. Listed' = Listed
  BY <1>3 DEF Listed
<1>5. \A r \in Row : \A p \in Int : Beyond(r, p)' <=> Beyond(r, p)
  BY <1>4 DEF Beyond, Offset
<1>6. CASE Bind(k)
  <2>1. PICK phase \in {"bound", "unlocking"} : scan'[k] = [scan[k] EXCEPT !.phase = phase]
    BY <1>1, <1>6 DEF Bind, Goes, Rejected, Shape
  <2>2. scan'[k].page = 1 /\ scan'[k].began = scan[k].began /\ scan'[k].phase \in {"bound", "unlocking"}
    BY <1>1, <1>2, <1>6, <2>1 DEF Bind, At, CoveredBy, Scan
  <2> QED
    BY <1>2, <1>3, <2>2 DEF CoveredBy, At
<1>7. CASE Begin(k)
  <2>1. /\ scan'[k].page = 1 /\ scan'[k].began = stage /\ scan'[k].phase = "fetching"
    BY <1>1, <1>2, <1>7 DEF Begin, At, CoveredBy, Shape
  <2>2. \A r \in Row : Seen(k, r)' \/ Beyond(r, 1)
    <3> SUFFICES ASSUME NEW r \in Row, stage[r] # 0 PROVE Beyond(r, 1)
      BY <1>1, <1>3, <2>1, StageTypes DEF Seen
    <3>1. r \in 1 .. Listed /\ Listed \in Nat
      BY <1>1, ListedType, StageTypes DEF Numbered
    <3>2. Offset(1) = 0
      BY ParentSyncAssumption DEF Offset
    <3> QED
      BY <3>1, <3>2 DEF Beyond
  <2>3. \A r \in Row : Beyond(r, scan[k].page)' <=> Beyond(r, 1)
    BY <1>4, <2>1 DEF Beyond, Offset
  <2>4. \A r \in Row : scan'[k].began[r] <= stage'[r]
    BY <1>1, <1>3, <2>1, StageTypes
  <2> QED
    BY <2>1, <2>2, <2>3, <2>4 DEF CoveredBy, At
<1>8. CASE Fetch(k)
  <2> DEFINE p == scan[k].page
  <2>1. /\ At(k, "fetching") /\ scan'[k].phase = "fetched" /\ scan'[k].items = Items(p)
        /\ scan'[k].last = Last(p) /\ scan'[k].began = scan[k].began /\ scan'[k].page = p
    BY <1>1, <1>8 DEF Fetch, Shape
  <2>2. ASSUME NEW r \in Row
        PROVE  \/ Seen(k, r) \/ (~Last(p) /\ Beyond(r, p + 1))
               \/ r \in DOMAIN Items(p) /\ Items(p)[r] >= scan[k].began[r]
    <3>1. Seen(k, r) \/ Beyond(r, p)
      BY <1>1, <2>1 DEF CoveredBy
    <3>2. CASE stage[r] = 0
      BY <1>1, <1>2, <3>2, StageTypes DEF Seen
    <3>3. CASE stage[r] > 0 /\ Beyond(r, p)
      <4>1. r \in DOMAIN Items(p) \/ (~Last(p) /\ Beyond(r, p + 1))
        BY <1>1, <1>2, <3>3, LastPage
      <4>2. r \in DOMAIN Items(p) => Items(p)[r] = stage[r]
        BY <1>1, ItemsArePage DEF Shape
      <4>3. stage[r] >= scan[k].began[r]
        BY <1>1, <1>2, StageTypes
      <4> QED
        BY <4>1, <4>2, <4>3
    <3> QED
      BY <1>1, <3>1, <3>2, <3>3, StageTypes
  <2>3. \A r \in Row : (Later(k, r)' <=> ~Last(p) /\ Beyond(r, p + 1)) /\ (Seen(k, r)' <=> Seen(k, r))
    BY <1>3, <1>4, <2>1 DEF Later, Seen, Beyond, Offset
  <2> HIDE DEF p
  <2>4. p >= 1
    BY <1>2 DEF p
  <2> QED
    BY <1>2, <1>3, <2>1, <2>2, <2>3, <2>4 DEF CoveredBy, At
<1>9. CASE NextPage(k)
  <2>1. /\ At(k, "imported") /\ ~scan[k].last /\ scan'[k].phase = "fetching"
        /\ scan'[k].page = scan[k].page + 1 /\ scan'[k].began = scan[k].began
    BY <1>1, <1>9 DEF NextPage, Shape
  <2>2. \A r \in Row : Seen(k, r) \/ Beyond(r, scan[k].page + 1)
    BY <1>1, <2>1 DEF CoveredBy, Later
  <2>3. \A r \in Row : Beyond(r, scan[k].page)' <=> Beyond(r, scan[k].page + 1)
    BY <1>4, <2>1 DEF Beyond, Offset
  <2>4. \A r \in Row : Seen(k, r)' <=> Seen(k, r)
    BY <1>3, <2>1 DEF Seen
  <2>5. scan'[k].page >= 1
    BY <1>2, <2>1
  <2> QED
    BY <1>2, <1>3, <2>1, <2>2, <2>3, <2>4, <2>5 DEF CoveredBy, At
<1>10. CASE Import(k) \/ SendCommit(k)
  <2>1. /\ scan'[k].phase \in {"importing", "committing"} /\ scan'[k].page = scan[k].page
        /\ scan'[k].began = scan[k].began /\ scan'[k].last = scan[k].last
    <3>1. CASE Import(k)
      <4>1. scan'[k] = [scan[k] EXCEPT !.phase = "importing", !.items = NoPage]
        BY <1>1, <3>1 DEF Import, Shape
      <4> QED
        BY <1>2, <4>1 DEF Scan
    <3>2. CASE SendCommit(k)
      <4>1. scan'[k] = [scan[k] EXCEPT !.phase = "committing"]
        BY <1>1, <3>2 DEF SendCommit, Goes, Shape
      <4> QED
        BY <1>2, <4>1 DEF Scan
    <3> QED
      BY <1>10, <3>1, <3>2
  <2>2. tx'.by = k /\ tx'.items = IF At(k, "fetched") THEN scan[k].items ELSE tx.items
    BY <1>1, <1>10, NoTxIsQuiet DEF Import, SendCommit, CoveredBy, At, Shape
  <2>3. At(k, "fetched") \/ At(k, "importing")
    BY <1>10 DEF Import, SendCommit
  <2>4. \A r \in Row : \/ Seen(k, r) \/ Later(k, r)
                       \/ r \in DOMAIN tx'.items /\ tx'.items[r] >= scan[k].began[r]
    BY <1>1, <2>2, <2>3 DEF CoveredBy, At
  <2>5. \A r \in Row : (Later(k, r)' <=> Later(k, r)) /\ (Seen(k, r)' <=> Seen(k, r))
    BY <1>3, <1>4, <2>1 DEF Later, Seen, Beyond, Offset
  <2>6. scan'[k].page >= 1
    BY <1>2, <2>1
  <2> QED
    BY <1>2, <1>3, <2>1, <2>2, <2>4, <2>5, <2>6 DEF CoveredBy, At
<1> QED
  BY <1>6, <1>7, <1>8, <1>9, <1>10

\* What was on its way has been observed.
LEMMA CoveredCommit ==
  ASSUME ScanInv, MirrorInv', Numbered', Listed' \in Nat, Listed' >= Listed, Commit
  PROVE  ScanInv'
<1>1. MirrorInv /\ Shape /\ Shape' /\ Owned /\ \A j \in Collector : CoveredBy(j)
  BY DEF ScanInv, MirrorInv
<1>2. /\ UNCHANGED <<stage, source, lock>>
      /\ \A r \in Row : observed'[r] = IF r \in DOMAIN tx.items THEN tx.items[r] ELSE observed[r]
      /\ \A j \in Collector : scan'[j] = IF j = tx.by THEN [scan[j] EXCEPT !.phase = "imported"] ELSE scan[j]
  BY DEF Commit
<1>3. \A r \in Row : stage'[r] >= stage[r] /\ observed'[r] >= observed[r]
  BY <1>1, <1>2, CommitStep, StageTypes
<1>4. ASSUME NEW j \in Collector PROVE CoveredBy(j)'
  <2>1. CASE j # tx.by
    <3>1. scan'[j] = scan[j] /\ scan[j].phase \notin {"importing", "committing"}
      BY <1>1, <1>2, <2>1 DEF CoveredBy
    <3> QED
      BY <1>1, <1>3, <3>1, CoveredStays
  <2>2. CASE j = tx.by
    <3>1. /\ scan'[j].phase = "imported" /\ scan'[j].page = scan[j].page
          /\ scan'[j].began = scan[j].began /\ scan'[j].last = scan[j].last
      BY <1>1, <1>2, <2>2 DEF Shape
    <3>2. scan[j].phase \in {"importing", "committing"}
      BY <1>1, <2>2 DEF Owned, At
    <3>3. \A r \in Row : \/ Seen(j, r) \/ Later(j, r)
                         \/ r \in DOMAIN tx.items /\ tx.items[r] >= scan[j].began[r]
      BY <1>1, <3>2 DEF CoveredBy
    <3>4. \A r \in Row : /\ observed'[r] \in Int /\ observed[r] \in Int /\ scan[j].began[r] \in Int
                         /\ observed'[r] >= observed[r]
                         /\ r \in DOMAIN tx.items => observed'[r] = tx.items[r]
      <4>1. \A r \in Row : observed'[r] \in Stage
        BY <1>1 DEF Shape
      <4> QED
        BY <1>1, <1>2, <1>3, <4>1, StageTypes DEF Stage
    <3>5. \A r \in Row : Seen(j, r) => observed'[r] >= scan[j].began[r]
      BY <3>4 DEF Seen
    <3>6. \A r \in Row : Later(j, r)' <=> Later(j, r)
      BY <1>2, <3>1 DEF Later, Beyond, Offset, Listed
    <3>7. \A r \in Row : Seen(j, r)' \/ Later(j, r)'
      BY <3>1, <3>3, <3>4, <3>5, <3>6 DEF Seen
    <3> QED
      BY <1>1, <1>2, <3>1, <3>7 DEF CoveredBy, At
  <2> QED
    BY <2>1, <2>2
<1>5. CompleteScanSawAll'
  <2>1. \A r \in Row : observed'[r] \in Stage
    BY <1>1 DEF Shape
  <2>2. \A r \in Row : /\ observed'[r] \in Int /\ observed[r] \in Int /\ source.success[r] \in Int
    BY <1>1, <2>1, StageTypes DEF Stage
  <2> QED
    BY <1>2, <1>3, <2>2 DEF ScanInv, CompleteScanSawAll
<1> QED
  BY <1>4, <1>5 DEF ScanInv

LEMMA ScanInit == ParentInit => ScanInv
<1> SUFFICES ASSUME ParentInit PROVE ScanInv
  OBVIOUS
<1>1. MirrorInv /\ Shape
  BY MirrorInit DEF MirrorInv
<1>2. Numbered
  <2>1. {r \in Row : stage[r] > 0} = {}
    BY DEF ParentInit, Nothing
  <2>2. Listed = 0
    BY <2>1, FS_EmptySet DEF Listed
  <2> QED
    BY <2>1, <2>2 DEF Numbered
<1>3. CompleteScanSawAll
  BY DEF ParentInit, Nothing, CompleteScanSawAll
<1>4. \A k \in Collector : CoveredBy(k)
  <2> SUFFICES ASSUME NEW k \in Collector PROVE CoveredBy(k)
    OBVIOUS
  <2>1. scan[k].phase = "idle" /\ scan[k].page = 1 /\ \A r \in Row : scan[k].began[r] = 0 /\ stage[r] = 0
    BY DEF ParentInit, Resting, Nothing
  <2> QED
    BY <2>1 DEF CoveredBy, At
<1> QED
  BY <1>1, <1>2, <1>3, <1>4 DEF ScanInv

LEMMA ScanStep == ScanInv /\ [ParentNext]_parentVars => ScanInv'
<1> SUFFICES ASSUME ScanInv, [ParentNext]_parentVars PROVE ScanInv'
  OBVIOUS
<1>1. MirrorInv /\ Shape /\ MirrorInv' /\ Shape'
  BY MirrorStep DEF ScanInv, MirrorInv
<1>2. Numbered' /\ Listed' \in Nat /\ Listed' >= Listed /\ \A r \in Row : stage'[r] >= stage[r]
  BY <1>1, NumberedStep DEF ScanInv
<1>3. CASE UNCHANGED <<observed, source, tx, scan>>
  <2>1. \A r \in Row : observed'[r] >= observed[r]
    BY <1>1, <1>3, StageTypes
  <2>2. \A k \in Collector : CoveredBy(k)'
    BY <1>1, <1>2, <1>3, <2>1, CoveredStays DEF ScanInv
  <2>3. CompleteScanSawAll'
    BY <1>3 DEF ScanInv, CompleteScanSawAll
  <2> QED
    BY <1>1, <1>2, <2>2, <2>3 DEF ScanInv
<1>4. CASE Commit
  BY <1>1, <1>2, <1>4, CoveredCommit
<1>5. ASSUME NEW k \in Collector,
             Bind(k) \/ Begin(k) \/ Fetch(k) \/ NextPage(k) \/ Import(k) \/ SendCommit(k)
      PROVE  ScanInv'
  <2>1. CoveredBy(k)'
    BY <1>1, <1>5, CoveredNext
  <2>2. ~At(k, "idle") /\ UNCHANGED <<stage, observed>> /\ (source' = source \/ source' = Written(k))
    BY <1>5 DEF Bind, Begin, Fetch, NextPage, Import, SendCommit, At, Write
  <2>3. \A j \in Collector \ {k} : scan'[j] = scan[j]
    BY <1>1, <1>5 DEF Bind, Begin, Fetch, NextPage, Import, SendCommit, Goes, Shape
  <2> QED
    BY <1>1, <1>2, <2>1, <2>2, <2>3, OneMoves
<1>6. ASSUME NEW k \in Collector,
             \/ TryLock(k) \/ End(k) \/ Throw(k) \/ MarkError(k) \/ Unlock(k)
             \/ Crash(k) \/ ImportThrows(k)
      PROVE  ScanInv'
  <2>1. \E phase \in {"idle", "locked", "failed", "unlocking"} : Leaves(k, phase)
    <3>1. Resting \in Scan /\ Resting.phase = "idle"
      <4>1. Nothing \in [Row -> Stage]
        BY DEF Nothing, Stage
      <4> QED
        BY <4>1, NoPageIsPage DEF Scan, Resting
    <3>2. Resting = [Resting EXCEPT !.phase = "idle"]
      BY <3>1 DEF Scan
    <3> QED
      BY <1>6, <3>2 DEF TryLock, End, Throw, MarkError, Unlock, Crash, ImportThrows, Rejected, Leaves
  <2>2. CoveredBy(k)' /\ \A j \in Collector \ {k} : scan'[j] = scan[j]
    <3>1. PICK phase \in {"idle", "locked", "failed", "unlocking"} : Leaves(k, phase)
      BY <2>1
    <3>2. scan'[k] = [Resting EXCEPT !.phase = phase] /\ \A j \in Collector \ {k} : scan'[j] = scan[j]
      BY <1>1, <3>1 DEF Leaves, Shape
    <3> QED
      BY <1>1, <3>2, CoveredAtRest
  <2>3. /\ ~At(k, "idle") \/ lock = Nobody
        /\ UNCHANGED <<stage, observed>> /\ (source' = source \/ source' = Written(k))
    BY <1>6 DEF TryLock, LockFree, End, Throw, MarkError, Unlock, Crash, ImportThrows, At, Write, MayWrite
  <2> QED
    BY <1>1, <1>2, <2>2, <2>3, OneMoves
<1> QED
  BY <1>3, <1>4, <1>5, <1>6 DEF ParentNext, parentVars, Create, Progress

\* A scan that is recorded as complete has observed what the parent had when it
\* began, whatever the sizes of the pages and the transactions that come meanwhile.
THEOREM CompleteScans == ParentSpec => []CompleteScanSawAll
<1>1. ScanInv => CompleteScanSawAll
  BY DEF ScanInv
<1> QED
  BY <1>1, ScanInit, ScanStep, PTL DEF ParentSpec

----------------------------------------------------------------------------
(* Incidents *)

\* Only transactions that exist are fetched and imported, and a COMMIT carries
\* the judgement its rows deserve.
IncidentInv ==
  /\ MirrorInv
  /\ incident \in [Row -> {"none", "open", "resolved"}]
  /\ IncidentsFollow
  /\ \A k \in Collector : \A r \in DOMAIN scan[k].items : scan[k].items[r] # 0
  /\ \A r \in DOMAIN tx.items :
       /\ tx.items[r] # 0
       /\ tx.phase = "sent" /\ tx.items[r] = 2 => r \in tx.problems
       /\ tx.phase = "sent" /\ tx.items[r] = 3 => r \notin tx.problems

\* Steps that write no incident, and carry nothing new to the one that does.
LEMMA IncidentKept ==
  ASSUME IncidentInv, MirrorInv', UNCHANGED <<observed, incident>>,
         \A k \in Collector :
           scan'[k].items = scan[k].items \/ DOMAIN scan'[k].items = {},
         \/ tx' = tx \/ DOMAIN tx'.items = {} \/ tx' = Orphaned
  PROVE  IncidentInv'
<1>1. Orphaned.items = tx.items /\ Orphaned.problems = tx.problems /\ Orphaned.phase = tx.phase
  BY DEF Orphaned, IncidentInv, MirrorInv, Shape
<1> QED
  BY <1>1 DEF IncidentInv, IncidentsFollow

LEMMA IncidentStart == ParentInit => IncidentInv
<1> SUFFICES ASSUME ParentInit PROVE IncidentInv
  OBVIOUS
<1>1. \A r \in Row : observed[r] = 0 /\ incident[r] = "none"
  BY DEF ParentInit, Nothing
<1> QED
  BY <1>1, MirrorInit, NoPageIsPage DEF ParentInit, IncidentInv, IncidentsFollow, Resting, NoTx

LEMMA IncidentStep == IncidentInv /\ [ParentNext]_parentVars => IncidentInv'
<1> SUFFICES ASSUME IncidentInv, [ParentNext]_parentVars PROVE IncidentInv'
  OBVIOUS
<1>1. MirrorInv'
  BY MirrorStep DEF IncidentInv
<1>2. \A k \in Collector : scan[k] \in Scan
  BY DEF IncidentInv, MirrorInv, Shape, Scan
<1>3. \A phase : DOMAIN [Resting EXCEPT !.phase = phase].items = {} /\ DOMAIN Resting.items = {}
  BY NoPageIsPage DEF Resting
<1>4. CASE UNCHANGED parentVars
  BY <1>1, <1>4, IncidentKept DEF parentVars
<1>5. CASE \E r \in Row : Create(r) \/ Progress(r)
  BY <1>1, <1>5, IncidentKept DEF Create, Progress
<1>6. ASSUME NEW k \in Collector, Quiet(k) \/ Crash(k) \/ ImportThrows(k)
      PROVE  IncidentInv'
  <2>1. UNCHANGED <<observed, incident>>
    BY <1>6 DEF Quiet, TryLock, Bind, Begin, NextPage, End, Throw, MarkError, Unlock, Crash, ImportThrows
  <2>2. tx' = tx \/ tx' = NoTx \/ tx' = Orphaned
    BY <1>6 DEF Quiet, TryLock, Bind, Begin, NextPage, End, Throw, MarkError, Unlock, Crash, ImportThrows
  <2>3. \A j \in Collector : scan'[j].items = scan[j].items \/ DOMAIN scan'[j].items = {}
    <3>1. scan \in [Collector -> Scan]
      BY DEF IncidentInv, MirrorInv, Shape, Scan
    <3>2. CASE Bind(k) \/ Begin(k) \/ NextPage(k)
      BY <3>1, <3>2 DEF Bind, Begin, NextPage, Goes, Scan
    <3>3. CASE \E phase : Leaves(k, phase)
      BY <1>3, <3>1, <3>3 DEF Leaves
    <3>4. CASE Crash(k)
      BY <1>3, <3>1, <3>4 DEF Crash
    <3> QED
      BY <1>6, <3>2, <3>3, <3>4 DEF Quiet, TryLock, End, Throw, MarkError, Unlock, ImportThrows
  <2> QED
    BY <1>1, <2>1, <2>2, <2>3, IncidentKept, NoTxIsQuiet
<1>7. ASSUME NEW k \in Collector, Fetch(k) PROVE IncidentInv'
  <2>1. UNCHANGED <<observed, incident, tx>>
    BY <1>7 DEF Fetch
  <2>2. \A r \in DOMAIN Items(scan[k].page) : Items(scan[k].page)[r] # 0
    BY DEF Items, IncidentInv, MirrorInv, Shape, Stage
  <2>3. \A j \in Collector :
          scan'[j].items = IF j = k THEN Items(scan[k].page) ELSE scan[j].items
    <3>1. scan \in [Collector -> Scan]
      BY DEF IncidentInv, MirrorInv, Shape, Scan
    <3> QED
      BY <1>7, <3>1 DEF Fetch, Scan
  <2> QED
    BY <1>1, <2>1, <2>2, <2>3 DEF IncidentInv, IncidentsFollow
<1>8. ASSUME NEW k \in Collector, Import(k) PROVE IncidentInv'
  <2>1. UNCHANGED <<observed, incident>> /\ tx'.items = scan[k].items /\ tx'.phase = "open"
    BY <1>8 DEF Import, NoTx
  <2>2. \A j \in Collector : scan'[j].items = IF j = k THEN NoPage ELSE scan[j].items
    <3>1. scan \in [Collector -> Scan]
      BY DEF IncidentInv, MirrorInv, Shape, Scan
    <3> QED
      BY <1>8, <3>1 DEF Import, Scan
  <2> QED
    BY <1>1, <2>1, <2>2, NoPageIsPage DEF IncidentInv, IncidentsFollow
<1>9. ASSUME NEW k \in Collector, SendCommit(k) PROVE IncidentInv'
  <2>1. PICK late \in SUBSET With(tx.items, 1) :
          tx' = [tx EXCEPT !.phase = "sent", !.problems = With(tx.items, 2) \cup late]
    BY <1>9 DEF SendCommit
  <2>2. tx'.items = tx.items /\ tx'.problems = With(tx.items, 2) \cup late
    BY <2>1 DEF IncidentInv, MirrorInv, Shape
  <2>3. UNCHANGED <<observed, incident>> /\ \A j \in Collector : scan'[j].items = scan[j].items
    <3>1. scan \in [Collector -> Scan]
      BY DEF IncidentInv, MirrorInv, Shape, Scan
    <3> QED
      BY <1>9, <3>1 DEF SendCommit, Goes, Scan
  <2> QED
    BY <1>1, <2>2, <2>3 DEF IncidentInv, IncidentsFollow, With
<1>10. CASE Commit
  <2>1. DOMAIN tx.items \subseteq Row /\ \A r \in DOMAIN tx.items : tx.items[r] \in Stage
    BY PageRows DEF IncidentInv, MirrorInv, Shape
  <2>2. \A r \in Row :
          /\ observed'[r] = IF r \in DOMAIN tx.items THEN tx.items[r] ELSE observed[r]
          /\ incident'[r] = IF r \in DOMAIN tx.items
                              THEN Judged(incident[r], r \in tx.problems) ELSE incident[r]
    BY <1>10 DEF Commit
  <2>3. incident' \in [Row -> {"none", "open", "resolved"}]
    BY <1>10 DEF Commit, Judged, IncidentInv
  <2>4. IncidentsFollow'
    <3> SUFFICES ASSUME NEW r \in Row
                 PROVE  /\ observed'[r] = 0 => incident'[r] = "none"
                        /\ observed'[r] = 2 => incident'[r] = "open"
                        /\ observed'[r] = 3 => incident'[r] # "open"
      BY DEF IncidentsFollow
    <3>1. CASE r \in DOMAIN tx.items
      BY <1>10, <2>2, <3>1 DEF Commit, Judged, IncidentInv
    <3>2. CASE r \notin DOMAIN tx.items
      BY <2>2, <3>2 DEF IncidentInv, IncidentsFollow
    <3> QED
      BY <3>1, <3>2
  <2>5. tx' = NoTx /\ \A j \in Collector : scan'[j].items = scan[j].items
    <3>1. scan \in [Collector -> Scan]
      BY DEF IncidentInv, MirrorInv, Shape, Scan
    <3> QED
      BY <1>10, <3>1 DEF Commit, Scan
  <2> QED
    BY <1>1, <2>3, <2>4, <2>5, NoTxIsQuiet DEF IncidentInv
<1> QED
  BY <1>4, <1>5, <1>6, <1>7, <1>8, <1>9, <1>10 DEF ParentNext, Quiet

\* An incident says what the newest observation says, whichever collector made
\* it: an unpublished transaction has an open one, a published one has not.
THEOREM IncidentsAgree == ParentSpec => []IncidentsFollow
<1>1. IncidentInv => IncidentsFollow
  BY DEF IncidentInv
<1> QED
  BY <1>1, IncidentStart, IncidentStep, PTL DEF ParentSpec

\* Stages stay in their order, a transaction carries pages of rows, and no scan
\* leaves the pages it may read.
THEOREM MirrorIsTyped == ParentSpec => []ParentTypeOK
<1> DEFINE Pages == \A k \in Collector : scan[k].page \in 1..MaxPages
<1>1. ParentInit => Pages
  BY ParentSyncAssumption DEF ParentInit, Resting
<1>2. IncidentInv /\ Pages /\ [ParentNext]_parentVars => Pages'
  <2> SUFFICES ASSUME IncidentInv, Pages, [ParentNext]_parentVars PROVE Pages'
    OBVIOUS
  <2> USE ParentSyncAssumption
  <2>1. scan \in [Collector -> Scan]
    BY DEF IncidentInv, MirrorInv, Shape, Scan
  <2>2. \A phase : [Resting EXCEPT !.phase = phase].page = 1 /\ Resting.page = 1 /\ 1 \in 1..MaxPages
    BY DEF Resting
  <2>3. CASE scan' = scan
    BY <2>3
  <2>4. ASSUME NEW k \in Collector,
               (\E phase : Goes(k, phase)) \/ Begin(k) \/ Fetch(k) \/ Import(k)
        PROVE  Pages'
    <3>1. CASE \E phase : Goes(k, phase)
      BY <2>1, <3>1 DEF Goes, Scan
    <3>2. CASE Begin(k)
      BY <2>1, <3>2 DEF Begin, Scan
    <3>3. CASE Fetch(k)
      BY <2>1, <3>3 DEF Fetch, Scan
    <3>4. CASE Import(k)
      BY <2>1, <3>4 DEF Import, Scan
    <3> QED
      BY <2>4, <3>1, <3>2, <3>3, <3>4
  <2>5. ASSUME NEW k \in Collector, NextPage(k) PROVE Pages'
    <3>1. scan[k].page + 1 \in 1..MaxPages
      BY <2>5 DEF NextPage, More
    <3> QED
      BY <2>1, <2>5, <3>1 DEF NextPage, Scan
  <2>6. ASSUME NEW k \in Collector, (\E phase : Leaves(k, phase)) \/ Crash(k) PROVE Pages'
    BY <2>1, <2>2, <2>6 DEF Leaves, Crash
  <2>7. CASE Commit
    BY <2>1, <2>7 DEF Commit, Scan
  <2>8. ASSUME NEW k \in Collector,
               \/ TryLock(k) \/ Bind(k) \/ End(k) \/ Throw(k) \/ MarkError(k) \/ Unlock(k)
               \/ SendCommit(k) \/ ImportThrows(k)
        PROVE  Pages'
    <3>1. (\E phase : Goes(k, phase)) \/ (\E phase : Leaves(k, phase))
      BY <2>8 DEF TryLock, Bind, End, Throw, MarkError, Unlock, SendCommit, ImportThrows
    <3> QED
      BY <2>4, <2>6, <3>1
  <2>9. CASE UNCHANGED parentVars \/ \E r \in Row : Create(r) \/ Progress(r)
    BY <2>3, <2>9 DEF parentVars, Create, Progress
  <2> QED
    BY <2>4, <2>5, <2>6, <2>7, <2>8, <2>9 DEF ParentNext
<1>3. IncidentInv /\ Pages => ParentTypeOK
  <2> SUFFICES ASSUME IncidentInv, Pages PROVE ParentTypeOK
    OBVIOUS
  <2>1. Shape /\ incident \in [Row -> {"none", "open", "resolved"}]
    BY DEF IncidentInv, MirrorInv
  <2> QED
    BY <2>1 DEF Shape, ParentTypeOK
<1> QED
  BY <1>1, <1>2, <1>3, IncidentStart, IncidentStep, PTL DEF ParentSpec

----------------------------------------------------------------------------
(* The picture of the parent *)

\* A scan in progress began no earlier than the last one that was completed.
Recorded ==
  \A k \in Collector :
    scan[k].phase \in {"fetching", "fetched", "importing", "committing", "imported"}
      => \A r \in Row : source.success[r] <= scan[k].began[r]

PictureInv == ScanInv /\ IncidentInv /\ Recorded

\* What a statement does to the record of the last complete scan.
LEMMA WrittenSuccess ==
  ASSUME Shape, NEW k \in Collector
  PROVE  \/ Written(k).success = source.success
         \/ At(k, "imported") /\ scan[k].last /\ Written(k).success = scan[k].began
  BY DEF Written, Shape

\* Every step of a collector but the commit: the record of the last complete
\* scan stays, or becomes what this scan, then at its end, found at its beginning.
LEMMA CollectorStep ==
  ASSUME PictureInv, NEW k \in Collector,
         \/ TryLock(k) \/ Bind(k) \/ Begin(k) \/ Fetch(k) \/ NextPage(k) \/ End(k)
         \/ Throw(k) \/ MarkError(k) \/ Unlock(k) \/ Crash(k)
         \/ Import(k) \/ SendCommit(k) \/ ImportThrows(k)
  PROVE  /\ UNCHANGED <<stage, observed, incident>>
         /\ \/ source'.success = source.success
            \/ /\ At(k, "imported") /\ scan[k].last
               /\ source'.success = scan[k].began
               /\ scan'[k].phase \in {"idle", "unlocking", "failed"}
         /\ \A j \in Collector \ {k} : At(j, "idle") /\ scan'[j] = scan[j]
<1>1. MirrorInv /\ Shape /\ scan[k] \in Scan
  BY DEF PictureInv, ScanInv, MirrorInv, Shape, Scan
<1>2. UNCHANGED <<stage, observed, incident>>
  BY DEF TryLock, Bind, Begin, Fetch, NextPage, End, Throw, MarkError, Unlock, Crash, Import,
         SendCommit, ImportThrows
<1>3. \A j \in Collector \ {k} : At(j, "idle")
  <2>1. CASE At(k, "idle")
    <3>1. lock = Nobody
      BY <2>1 DEF TryLock, Bind, Begin, Fetch, NextPage, End, Throw, MarkError, Unlock, Crash,
             Import, SendCommit, ImportThrows, LockFree, At
    <3> QED
      BY <1>1, <3>1, ParentSyncAssumption DEF MirrorInv, LockIsReturned
  <2>2. CASE ~At(k, "idle")
    BY <1>1, <2>2, Alone
  <2> QED
    BY <2>1, <2>2
<1>4. \A j \in Collector \ {k} : scan'[j] = scan[j]
  BY <1>1 DEF TryLock, Bind, Begin, Fetch, NextPage, End, Throw, MarkError, Unlock, Crash, Import,
         SendCommit, ImportThrows, Goes, Leaves, Shape
<1>5. CASE End(k) \/ Throw(k) \/ Crash(k)
  <2>1. source' = source \/ source' = Written(k)
    BY <1>5 DEF End, Throw, Crash, Write, MayWrite
  <2>2. scan'[k].phase \in {"idle", "unlocking", "failed"}
    BY <1>1, <1>5 DEF End, Throw, Crash, Leaves, Resting, Rejected, Shape
  <2> QED
    BY <1>1, <1>2, <1>3, <1>4, <2>1, <2>2, WrittenSuccess
<1>6. CASE ~(End(k) \/ Throw(k) \/ Crash(k))
  <2>1. source' = source \/ (source' = Written(k) /\ ~At(k, "imported"))
    BY <1>6 DEF TryLock, Bind, Begin, Fetch, NextPage, MarkError, Unlock, Import, SendCommit,
           ImportThrows, Write, At
  <2> QED
    BY <1>1, <1>2, <1>3, <1>4, <2>1, WrittenSuccess
<1> QED
  BY <1>5, <1>6

LEMMA PictureStart == ParentInit => PictureInv
<1>1. ParentInit => Recorded
  BY DEF ParentInit, Recorded, Resting
<1> QED
  BY <1>1, ScanInit, IncidentStart DEF PictureInv

LEMMA PictureStep == PictureInv /\ [ParentNext]_parentVars => PictureInv'
<1> SUFFICES ASSUME PictureInv, [ParentNext]_parentVars PROVE Recorded'
  BY ScanStep, IncidentStep DEF PictureInv
<1>1. MirrorInv /\ Shape /\ CompleteScanSawAll /\ Shape'
  BY MirrorStep DEF PictureInv, ScanInv, MirrorInv
<1>2. CASE UNCHANGED <<source, scan>>
  BY <1>2 DEF PictureInv, Recorded
<1>3. CASE Commit
  <2>1. \A k \in Collector : scan'[k].began = scan[k].began
    BY <1>1, <1>3 DEF Commit, Shape
  <2>2. \A k \in Collector :
          scan'[k].phase = scan[k].phase \/ scan[k].phase \in {"importing", "committing"}
    BY <1>1, <1>3 DEF Commit, MirrorInv, Owned, At
  <2> QED
    BY <1>3, <2>1, <2>2 DEF Commit, PictureInv, Recorded
<1>4. ASSUME NEW k \in Collector,
             \/ TryLock(k) \/ Bind(k) \/ Begin(k) \/ Fetch(k) \/ NextPage(k) \/ End(k)
             \/ Throw(k) \/ MarkError(k) \/ Unlock(k) \/ Crash(k)
             \/ Import(k) \/ SendCommit(k) \/ ImportThrows(k)
      PROVE  Recorded'
  <2>1. /\ \/ source'.success = source.success
           \/ scan'[k].phase \in {"idle", "unlocking", "failed"}
        /\ \A j \in Collector \ {k} : At(j, "idle") /\ scan'[j] = scan[j]
    BY <1>4, CollectorStep
  <2> SUFFICES ASSUME scan'[k].phase \in {"fetching", "fetched", "importing", "committing", "imported"},
                      source'.success = source.success
               PROVE  \A r \in Row : source.success[r] <= scan'[k].began[r]
    BY <2>1 DEF Recorded, At
  <2>2. CASE Begin(k)
    <3>1. scan'[k].began = stage
      BY <1>1, <2>2 DEF Begin, Shape
    <3>2. \A r \in Row : source.success[r] <= observed[r] /\ observed[r] <= stage[r]
      BY <1>1, StageTypes DEF CompleteScanSawAll, MirrorInv, Pending
    <3> QED
      BY <1>1, <3>1, <3>2, StageTypes
  <2>3. CASE Fetch(k) \/ NextPage(k) \/ Import(k) \/ SendCommit(k)
    <3>1. scan'[k].began = scan[k].began
      <4>1. scan \in [Collector -> Scan]
        BY <1>1 DEF Shape, Scan
      <4>2. CASE Fetch(k)
        BY <4>1, <4>2 DEF Fetch, Scan
      <4>3. CASE NextPage(k)
        BY <4>1, <4>3 DEF NextPage, Scan
      <4>4. CASE Import(k)
        BY <4>1, <4>4 DEF Import, Scan
      <4>5. CASE SendCommit(k)
        BY <4>1, <4>5 DEF SendCommit, Goes, Scan
      <4> QED
        BY <2>3, <4>2, <4>3, <4>4, <4>5
    <3>2. scan[k].phase \in {"fetching", "fetched", "importing", "committing", "imported"}
      BY <2>3 DEF Fetch, NextPage, Import, SendCommit, At
    <3> QED
      BY <3>1, <3>2 DEF PictureInv, Recorded
  <2>4. ~(TryLock(k) \/ Bind(k) \/ End(k) \/ Throw(k) \/ MarkError(k) \/ Unlock(k)
          \/ Crash(k) \/ ImportThrows(k))
    BY <1>1 DEF TryLock, Bind, End, Throw, MarkError, Unlock, Crash, ImportThrows, Goes, Leaves,
           Rejected, Resting, Shape
  <2> QED
    BY <1>4, <2>2, <2>3, <2>4
<1> QED
  BY <1>2, <1>3, <1>4 DEF ParentNext, parentVars, Create, Progress

\* What a reader of the tables sees of a step.
LEMMA PictureMoves ==
  ASSUME PictureInv, PictureInv', [ParentNext]_parentVars
  PROVE  [Picture!ParentMoves \/ Picture!Observe \/ Picture!Complete]_<<stage, observed, incident, source.success>>
<1>1. MirrorInv /\ Shape /\ CompleteScanSawAll /\ MirrorInv' /\ Shape'
  BY DEF PictureInv, ScanInv, MirrorInv
<1>2. CASE UNCHANGED parentVars
  BY <1>2 DEF parentVars
<1>3. CASE \E r \in Row : Create(r) \/ Progress(r)
  <2>1. \A r \in Row : stage'[r] >= stage[r]
    BY <1>1, NumberedStep DEF PictureInv, ScanInv
  <2> QED
    BY <1>3, <2>1 DEF Picture!ParentMoves, Picture!Ahead, Create, Progress
<1>4. CASE Commit
  <2>1. \A r \in Row : observed'[r] >= observed[r]
    BY <1>1, <1>4, CommitStep
  <2>2. \A r \in Row : stage[r] >= observed'[r]
    <3>1. stage' = stage /\ \A r \in Row : observed'[r] <= stage'[r]
      BY <1>1, <1>4 DEF Commit, MirrorInv, Pending
    <3>2. \A r \in Row : observed'[r] \in Nat /\ stage[r] \in Nat
      <4>1. \A r \in Row : observed'[r] \in Stage
        BY <1>1 DEF Shape
      <4> QED
        BY <1>1, <4>1, StageTypes DEF Stage
    <3> QED
      BY <3>1, <3>2
  <2>3. ASSUME NEW r \in Row
        PROVE  \/ observed'[r] = observed[r] /\ incident'[r] = incident[r]
               \/ /\ observed'[r] # 0
                  /\ incident'[r] \in Picture!Verdicts(observed'[r], incident[r])
    <3>1. CASE r \notin DOMAIN tx.items
      BY <1>4, <3>1 DEF Commit
    <3>2. CASE r \in DOMAIN tx.items
      <4>1. /\ observed'[r] = tx.items[r] /\ tx.items[r] \in {1, 2, 3} /\ tx.phase = "sent"
            /\ incident'[r] = Judged(incident[r], r \in tx.problems)
        <5>1. tx.items[r] # 0
          BY <3>2 DEF PictureInv, IncidentInv
        <5>2. tx.items[r] \in Stage
          BY <1>1, <3>2, PageRows DEF Shape
        <5> QED
          BY <1>4, <3>2, <5>1, <5>2 DEF Commit, Stage
      <4>2. tx.items[r] = 2 => r \in tx.problems
        BY <3>2, <4>1 DEF PictureInv, IncidentInv
      <4>3. tx.items[r] = 3 => r \notin tx.problems
        BY <3>2, <4>1 DEF PictureInv, IncidentInv
      <4>4. incident[r] \in {"none", "open", "resolved"}
        BY DEF PictureInv, IncidentInv
      <4>5. incident'[r] = IF r \in tx.problems THEN "open" ELSE Picture!Settled(incident[r])
        BY <4>1, <4>4 DEF Judged, Picture!Settled
      <4>6. /\ Picture!Verdicts(1, incident[r]) = {"open", Picture!Settled(incident[r])}
            /\ Picture!Verdicts(2, incident[r]) = {"open"}
            /\ Picture!Verdicts(3, incident[r]) = {Picture!Settled(incident[r])}
        <5> DEFINE status == incident[r]
        <5> HIDE DEF status
        <5>1. /\ Picture!Verdicts(1, status) = {"open", Picture!Settled(status)}
              /\ Picture!Verdicts(2, status) = {"open"}
              /\ Picture!Verdicts(3, status) = {Picture!Settled(status)}
          BY DEF Picture!Verdicts
        <5> QED
          BY <5>1 DEF status
      <4>7. incident'[r] \in Picture!Verdicts(tx.items[r], incident[r])
        BY <4>1, <4>2, <4>3, <4>5, <4>6
      <4> QED
        BY <4>1, <4>7
    <3> QED
      BY <3>1, <3>2
  <2> QED
    BY <1>4, <2>1, <2>2, <2>3 DEF Commit, Picture!Observe, Picture!Ahead
<1>5. ASSUME NEW k \in Collector,
             \/ TryLock(k) \/ Bind(k) \/ Begin(k) \/ Fetch(k) \/ NextPage(k) \/ End(k)
             \/ Throw(k) \/ MarkError(k) \/ Unlock(k) \/ Crash(k)
             \/ Import(k) \/ SendCommit(k) \/ ImportThrows(k)
      PROVE  \/ Picture!Complete
             \/ UNCHANGED <<stage, observed, incident, source.success>>
  <2>1. UNCHANGED <<stage, observed, incident>>
    BY <1>5, CollectorStep
  <2>2. CASE source'.success = source.success
    BY <2>1, <2>2
  <2>3. CASE At(k, "imported") /\ source'.success = scan[k].began
    <3>1. \A r \in Row : source'.success[r] >= source.success[r]
      BY <1>1, <2>3, StageTypes DEF PictureInv, Recorded, At
    <3>2. \A r \in Row : observed[r] >= source'.success[r]
      BY <2>1 DEF PictureInv, ScanInv, CompleteScanSawAll
    <3> QED
      BY <2>1, <3>1, <3>2 DEF Picture!Complete, Picture!Ahead
  <2> QED
    BY <1>5, <2>1, <2>2, <2>3, CollectorStep
<1> QED
  BY <1>2, <1>3, <1>4, <1>5 DEF ParentNext

\* Collectors, pages, locks and COMMITs implement the picture: it advances
\* only, its incidents are judged by every observation, and complete scans
\* never fall behind one another.
THEOREM ImplementsMirror == ParentSpec => IsMirror
<1>1. ParentInit => Picture!MirrorInit
  BY DEF ParentInit, Nothing, Picture!MirrorInit
<1>2. PictureInv /\ [ParentNext]_parentVars
        => [Picture!ParentMoves \/ Picture!Observe \/ Picture!Complete]_<<stage, observed, incident, source.success>>
  BY PictureStep, PictureMoves
<1> QED
  BY <1>1, <1>2, PictureStart, PictureStep, PTL
     DEF ParentSpec, IsMirror, Picture!MirrorSpec, Picture!mirrorVars

=============================================================================
