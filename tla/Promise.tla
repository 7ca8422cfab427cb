------------------------------ MODULE Promise ------------------------------
(***************************************************************************)
(* What PayOps promises of an announcement to those who see it from        *)
(* outside: the caller who reads its state, the device that hears it, and  *)
(* the operator who looks for marks.  Attempts, leases, passes and         *)
(* requests do not appear.                                                 *)
(*                                                                         *)
(* An announcement is settled by its receipt, once; without one it can     *)
(* only be given up, by the clock or for a spent budget, and the receipt   *)
(* corrects that verdict when it comes.  Several announcements may move at *)
(* once, since one pass of the reconciler may write several.               *)
(***************************************************************************)
CONSTANT Command

\* state: as the caller sees it, a completion that was overwritten still
\* counting as one; heard: what the device made of the command; receipt:
\* whether the device's receipt is recorded, and as a conflicting one;
\* settled: the device posts it no more.
VARIABLE announcement

Phase == {"none", "pending", "published", "completed", "expired", "unknown"}

\* "late" is an effect stamped after the expiry.
Answer == {"completed", "late", "expired"}

Announcement ==
  [state : Phase, heard : Answer \cup {"none"},
   receipt : {"none", "plain", "conflicting"}, settled : BOOLEAN]

New == [state |-> "none", heard |-> "none", receipt |-> "none", settled |-> FALSE]

Init == announcement = [c \in Command |-> New]

----------------------------------------------------------------------------
(* The moves of one announcement, from a to b *)

Accept(a, b) == a.state = "none" /\ b = [a EXCEPT !.state = "pending"]

\* The device sees the command, and judges it once.
Hear(a, b) ==
  /\ a.state # "none" /\ a.heard = "none"
  /\ \E answer \in Answer : b = [a EXCEPT !.heard = answer]

\* Verdicts that need no receipt: handed to the broker, or given up.  A pass
\* of the reconciler that chose an announcement before it became unknown
\* expires it afterwards.
Verdicts(state) ==
  CASE state = "pending"   -> {"published", "expired", "unknown"}
    [] state = "published" -> {"expired", "unknown"}
    [] state = "unknown"   -> {"expired"}
    [] OTHER               -> {}

Conclude(a, b) == \E verdict \in Verdicts(a.state) : b = [a EXCEPT !.state = verdict]

\* The receipt decides the announcement, whatever was concluded before, and
\* is marked if it contradicts that or tells of an effect too late.
Told(a, verdict, receipt) == [a EXCEPT !.state = verdict, !.receipt = receipt]

Tell(a, b) ==
  /\ a.receipt = "none"
  /\ \/ /\ a.heard = "completed"
        /\ b = Told(a, "completed", IF a.state = "expired" THEN "conflicting" ELSE "plain")
     \/ a.heard = "late" /\ b = Told(a, "unknown", "conflicting")
     \/ a.heard = "expired" /\ b = Told(a, "expired", "plain")

Settle(a, b) == a.receipt # "none" /\ b = [a EXCEPT !.settled = TRUE]

\* The command is delivered again, and its receipt posted again.
Reopen(a, b) == b = [a EXCEPT !.settled = FALSE]

Moves(a, b) ==
  Accept(a, b) \/ Hear(a, b) \/ Conclude(a, b) \/ Tell(a, b) \/ Settle(a, b) \/ Reopen(a, b)

----------------------------------------------------------------------------

Next ==
  /\ announcement' \in [Command -> Announcement]
  /\ \A c \in Command :
       announcement'[c] = announcement[c] \/ Moves(announcement[c], announcement'[c])

Spec == Init /\ [][Next]_announcement

\* A receipt that is recorded stands, and with it what was heard and the state
\* it decided, except that unknown may still become expired.  (The column of a
\* completion may be overwritten: see the comment on the variable.)
DecisionsStand ==
  [][\A c \in Command : announcement[c].receipt # "none" =>
       /\ announcement'[c].receipt = announcement[c].receipt
       /\ announcement'[c].heard = announcement[c].heard
       /\ \/ announcement'[c].state = announcement[c].state
          \/ announcement[c].state = "unknown" /\ announcement'[c].state = "expired"]_announcement

=============================================================================
