------------------------------- MODULE Mirror -------------------------------
(***************************************************************************)
(* What the observation of the parent platform promises, with no collector,*)
(* lock, page or transaction in it: PayOps keeps a picture of the parent   *)
(* that may lag behind but never shows more than the parent had, and never *)
(* less than it showed before; the incident of a transaction is judged     *)
(* anew by every observation of it, and by nothing else; and a scan that is*)
(* recorded as complete is behind none that was recorded before, nor ahead *)
(* of the picture.                                                         *)
(***************************************************************************)
EXTENDS Integers

CONSTANT Row

VARIABLES
  stage,      \* how far every transaction has come at the parent
  observed,   \* how far PayOps has seen it come
  incident,   \* its incident
  complete    \* what the last complete scan found at the parent

mirrorVars == <<stage, observed, incident, complete>>

MirrorInit ==
  /\ stage = [r \in Row |-> 0] /\ observed = stage /\ complete = stage
  /\ incident = [r \in Row |-> "none"]

Ahead(new, old) == \A r \in Row : new[r] >= old[r]

ParentMoves ==
  /\ Ahead(stage', stage)
  /\ UNCHANGED <<observed, incident, complete>>

Settled(status) == IF status = "none" THEN "none" ELSE "resolved"

\* A transaction that waits is a problem or not, by the clock; one whose
\* announcement failed is a problem, and an announced one is none.
Verdicts(seen, status) ==
  CASE seen = 1 -> {"open", Settled(status)}
    [] seen = 2 -> {"open"}
    [] seen = 3 -> {Settled(status)}

\* Any number of transactions are observed.
Observe ==
  /\ Ahead(observed', observed) /\ Ahead(stage, observed')
  /\ \A r \in Row :
       \/ observed'[r] = observed[r] /\ incident'[r] = incident[r]
       \/ observed'[r] # 0 /\ incident'[r] \in Verdicts(observed'[r], incident[r])
  /\ UNCHANGED <<stage, complete>>

Complete ==
  /\ Ahead(complete', complete) /\ Ahead(observed, complete')
  /\ UNCHANGED <<stage, observed, incident>>

MirrorSpec == MirrorInit /\ [][ParentMoves \/ Observe \/ Complete]_mirrorVars

=============================================================================
