-------------------------- MODULE AcceptanceProofs --------------------------
(***************************************************************************)
(* Proofs about Acceptance, for any callers, keys and requests.  The       *)
(* inductive invariant is that rows go together, that the key of a call    *)
(* which has inserted is free and held by it alone, that an answer under   *)
(* way is what the rows say, and that a device in use is not revoked.      *)
(***************************************************************************)
EXTENDS Acceptance, TLAPS

\* The unique index: an uncommitted row is the only one under its key.
KeysAreHeld ==
  \A p \in Caller : HoldsKey(p) =>
    /\ payments[request[p].key] = NoPayment
    /\ \A q \in Caller : HoldsKey(q) /\ request[q].key = request[p].key => q = p

\* An answer that is under way is the one the rows give.
AnswersAreOriginal ==
  \A p \in Caller : call[p].phase = "replying" =>
    /\ payments[request[p].key] # NoPayment
    /\ call[p].reply = Original(p)

\* The lock on the row of the device.
LockedIsInUse == InUse => ~revoked

AcceptanceInv ==
  /\ AcceptanceTypeOK
  /\ RowsGoTogether
  /\ KeysAreHeld
  /\ AnswersAreOriginal
  /\ LockedIsInUse

LEMMA InitInv == AcceptanceInit => AcceptanceInv
<1> SUFFICES ASSUME AcceptanceInit PROVE AcceptanceInv
  OBVIOUS
<1>1. AcceptanceTypeOK
  BY DEF AcceptanceInit, AcceptanceTypeOK, Phase, Reply
<1>2. RowsGoTogether
  BY DEF AcceptanceInit, RowsGoTogether
<1>3. KeysAreHeld /\ AnswersAreOriginal /\ LockedIsInUse
  BY DEF AcceptanceInit, KeysAreHeld, AnswersAreOriginal, LockedIsInUse, HoldsKey, InUse, OpenPhase
<1> QED
  BY <1>1, <1>2, <1>3 DEF AcceptanceInv

\* A step that leaves the tables alone and moves one call on.
LEMMA MoveKeepsRows ==
  ASSUME RowsGoTogether, UNCHANGED <<payments, commands, outboxes>>
  PROVE  RowsGoTogether'
BY DEF RowsGoTogether

\* A call's answer is a reply.
LEMMA OriginalType ==
  ASSUME AcceptanceTypeOK, NEW p \in Caller, payments[request[p].key] # NoPayment
  PROVE  Original(p) \in Reply /\ Original(p) # "none"
BY AcceptanceAssumption DEF AcceptanceTypeOK, Original, Payment, Reply

LEMMA StepInv == AcceptanceInv /\ [AcceptanceNext]_acceptanceVars => AcceptanceInv'
<1> SUFFICES ASSUME AcceptanceInv, [AcceptanceNext]_acceptanceVars PROVE AcceptanceInv'
  OBVIOUS
<1> USE DEF AcceptanceInv
<1> DEFINE Parts == KeysAreHeld /\ AnswersAreOriginal /\ LockedIsInUse
<1>1. ASSUME NEW p \in Caller, Check(p) PROVE AcceptanceInv'
  <2>1. AcceptanceTypeOK'
    BY <1>1 DEF Check, Goes, Replies, AcceptanceTypeOK, Phase, Reply
  <2>2. RowsGoTogether'
    BY <1>1, MoveKeepsRows DEF Check
  <2>3. Parts'
    BY <1>1 DEF Check, Goes, Replies, AcceptanceTypeOK, KeysAreHeld, AnswersAreOriginal,
                LockedIsInUse, HoldsKey, Original, InUse, OpenPhase
  <2> QED
    BY <2>1, <2>2, <2>3
<1>2. ASSUME NEW p \in Caller, Insert(p) PROVE AcceptanceInv'
  <2>1. AcceptanceTypeOK'
    BY <1>2 DEF Insert, Goes, AcceptanceTypeOK, Phase
  <2>2. RowsGoTogether'
    BY <1>2, MoveKeepsRows DEF Insert
  <2>3. KeysAreHeld'
    BY <1>2 DEF Insert, Goes, AcceptanceTypeOK, KeysAreHeld, HoldsKey
  <2>4. AnswersAreOriginal' /\ LockedIsInUse'
    BY <1>2 DEF Insert, Goes, AcceptanceTypeOK, AnswersAreOriginal, LockedIsInUse, Original, InUse, OpenPhase
  <2> QED
    BY <2>1, <2>2, <2>3, <2>4
<1>3. ASSUME NEW p \in Caller, FindOriginal(p) PROVE AcceptanceInv'
  <2>1. AcceptanceTypeOK'
    BY <1>3, OriginalType DEF FindOriginal, Replies, AcceptanceTypeOK, Phase
  <2>2. RowsGoTogether'
    BY <1>3, MoveKeepsRows DEF FindOriginal
  <2>3. Parts'
    BY <1>3 DEF FindOriginal, Replies, AcceptanceTypeOK, KeysAreHeld, AnswersAreOriginal,
                LockedIsInUse, HoldsKey, Original, InUse, OpenPhase
  <2> QED
    BY <2>1, <2>2, <2>3
<1>4. ASSUME NEW p \in Caller, InsertCommand(p) \/ InsertOutbox(p) PROVE AcceptanceInv'
  <2>1. AcceptanceTypeOK'
    BY <1>4 DEF InsertCommand, InsertOutbox, Goes, AcceptanceTypeOK, Phase
  <2>2. RowsGoTogether'
    BY <1>4, MoveKeepsRows DEF InsertCommand, InsertOutbox
  <2>3. Parts'
    BY <1>4 DEF InsertCommand, InsertOutbox, Goes, AcceptanceTypeOK, KeysAreHeld, AnswersAreOriginal,
                LockedIsInUse, HoldsKey, Original, InUse, OpenPhase
  <2> QED
    BY <2>1, <2>2, <2>3
<1>5. ASSUME NEW p \in Caller, Commit(p) PROVE AcceptanceInv'
  <2> DEFINE key == request[p].key
  <2>1. key \in Key /\ payments[key] = NoPayment
    BY <1>5, AcceptanceAssumption DEF Commit, KeysAreHeld, HoldsKey
  <2>2. [id |-> p, body |-> request[p].body] \in Payment
    BY DEF Payment
  <2>3. [id |-> p, body |-> request[p].body] # NoPayment
    BY <2>2, AcceptanceAssumption DEF Payment
  <2>4. AcceptanceTypeOK'
    BY <1>5, <2>2, AcceptanceAssumption DEF Commit, Replies, AcceptanceTypeOK, Phase, Reply
  <2>5. RowsGoTogether'
    BY <1>5, <2>1, <2>3 DEF Commit, RowsGoTogether, AcceptanceTypeOK
  <2>6. KeysAreHeld'
    BY <1>5, <2>1 DEF Commit, Replies, AcceptanceTypeOK, KeysAreHeld, HoldsKey
  <2>7. AnswersAreOriginal'
    <3> SUFFICES ASSUME NEW q \in Caller, (call[q].phase = "replying")'
                 PROVE  (payments[request[q].key] # NoPayment)' /\ (call[q].reply = Original(q))'
      BY DEF AnswersAreOriginal
    <3>1. CASE q = p
      BY <1>5, <2>1, <2>3, <3>1 DEF Commit, Replies, AcceptanceTypeOK, Original
    <3>2. CASE q # p
      BY <1>5, <2>1, <3>2 DEF Commit, Replies, AcceptanceTypeOK, Original, AnswersAreOriginal
    <3> QED
      BY <3>1, <3>2
  <2>8. LockedIsInUse'
    BY <1>5 DEF Commit, Replies, AcceptanceTypeOK, LockedIsInUse, InUse, OpenPhase
  <2> QED
    BY <2>4, <2>5, <2>6, <2>7, <2>8
<1>6. ASSUME NEW p \in Caller, Fail(p) \/ Respond(p) \/ Lose(p) PROVE AcceptanceInv'
  <2>1. AcceptanceTypeOK'
    BY <1>6 DEF Fail, Respond, Lose, Goes, Replies, AcceptanceTypeOK, Phase, Reply, OpenPhase
  <2>2. RowsGoTogether'
    BY <1>6, MoveKeepsRows DEF Fail, Respond, Lose
  <2>3. Parts'
    BY <1>6 DEF Fail, Respond, Lose, Goes, Replies, AcceptanceTypeOK, KeysAreHeld, AnswersAreOriginal,
                LockedIsInUse, HoldsKey, Original, InUse, OpenPhase
  <2> QED
    BY <2>1, <2>2, <2>3
<1>7. CASE Revoke
  <2>1. RowsGoTogether'
    BY <1>7, MoveKeepsRows DEF Revoke
  <2>2. AcceptanceTypeOK' /\ Parts'
    BY <1>7 DEF Revoke, AcceptanceTypeOK, KeysAreHeld, AnswersAreOriginal, LockedIsInUse, HoldsKey, Original, InUse
  <2> QED
    BY <2>1, <2>2
<1>8. CASE UNCHANGED acceptanceVars
  <2>1. RowsGoTogether'
    BY <1>8, MoveKeepsRows DEF acceptanceVars
  <2>2. AcceptanceTypeOK' /\ Parts'
    BY <1>8 DEF acceptanceVars, AcceptanceTypeOK, KeysAreHeld, AnswersAreOriginal, LockedIsInUse, HoldsKey, Original, InUse
  <2> QED
    BY <2>1, <2>2
<1> QED
  BY <1>1, <1>2, <1>3, <1>4, <1>5, <1>6, <1>7, <1>8 DEF AcceptanceNext, Statement, Failure

LEMMA AcceptanceInvariant == AcceptanceSpec => []AcceptanceInv
BY InitInv, StepInv, PTL DEF AcceptanceSpec

\* A call has a reply exactly while it replies and when it is done, and there is
\* one payment of a key, or none.
THEOREM CallsAreTyped == AcceptanceSpec => []AcceptanceTypeOK
<1>1. AcceptanceInv => AcceptanceTypeOK
  BY DEF AcceptanceInv
<1> QED
  BY <1>1, AcceptanceInvariant, PTL

\* No transaction sees a payment without its command and outbox row, or either
\* of them without the payment.
THEOREM RowsAreAtomic == AcceptanceSpec => []RowsGoTogether
<1>1. AcceptanceInv => RowsGoTogether
  BY DEF AcceptanceInv
<1> QED
  BY <1>1, AcceptanceInvariant, PTL

\* Once a device is revoked, no payment is committed for it.
THEOREM RevocationHolds == AcceptanceSpec => RevokedAcceptsNothing
<1>1. AcceptanceInv /\ [AcceptanceNext]_acceptanceVars
        => [revoked => payments' = payments]_acceptanceVars
  <2> SUFFICES ASSUME AcceptanceInv, AcceptanceNext, revoked PROVE payments' = payments
    BY DEF acceptanceVars
  <2>1. \A p \in Caller : ~Commit(p)
    BY DEF Commit, AcceptanceInv, LockedIsInUse, InUse, OpenPhase
  <2> QED
    BY <2>1 DEF AcceptanceNext, Statement, Failure, Check, Insert, FindOriginal, InsertCommand,
                InsertOutbox, Fail, Respond, Lose, Revoke
<1> QED
  BY <1>1, AcceptanceInvariant, PTL DEF AcceptanceSpec, RevokedAcceptsNothing

\* acceptPayment implements an idempotent ledger.
THEOREM ImplementsLedger == AcceptanceSpec => IsLedger
<1>1. AcceptanceInit => Books!Init
  BY DEF AcceptanceInit, Books!Init, Told
<1>2. AcceptanceInv /\ [AcceptanceNext]_acceptanceVars => [Books!Next]_<<payments, Told>>
  <2> SUFFICES ASSUME AcceptanceInv, [AcceptanceNext]_acceptanceVars
               PROVE  [Books!Next]_<<payments, Told>>
    OBVIOUS
  <2> USE DEF AcceptanceInv
  <2>1. ASSUME NEW p \in Caller, Check(p) PROVE Books!Refuse(p) \/ UNCHANGED <<payments, Told>>
    <3>1. CASE revoked
      <4>1. call' = [call EXCEPT ![p] = [phase |-> "done", reply |-> "refused"]]
        BY <2>1, <3>1 DEF Check, Replies
      <4>2. \A q \in Caller : call'[q] = IF q = p THEN [phase |-> "done", reply |-> "refused"] ELSE call[q]
        BY <4>1 DEF AcceptanceTypeOK
      <4>3. Told[p] = "none" /\ Told' = [Told EXCEPT ![p] = "refused"]
        <5>1. \A q \in Caller :
                (IF call'[q].phase = "done" THEN call'[q].reply ELSE "none")
                  = IF q = p THEN "refused" ELSE Told[q]
          BY <4>2 DEF Told
        <5>2. Told[p] = "none"
          BY <2>1 DEF Check, Told
        <5> QED
          BY <5>1, <5>2 DEF Told
      <4> QED
        BY <2>1, <4>3 DEF Check, Books!Refuse
    <3>2. CASE ~revoked
      BY <2>1, <3>2 DEF Check, Goes, AcceptanceTypeOK, Told
    <3> QED
      BY <3>1, <3>2
  <2>2. ASSUME NEW p \in Caller, Commit(p) PROVE Books!Enter(p)
    <3>1. payments[request[p].key] = NoPayment
      BY <2>2 DEF Commit, KeysAreHeld, HoldsKey
    <3>2. Told' = Told
      BY <2>2 DEF Commit, Replies, AcceptanceTypeOK, Told
    <3> QED
      BY <2>2, <3>1, <3>2 DEF Commit, Books!Enter, Books!Entry
  <2>3. ASSUME NEW p \in Caller, Respond(p) PROVE Books!Tell(p)
    <3>1. payments[request[p].key] # NoPayment /\ call[p].reply = Books!Verdict(p)
      BY <2>3 DEF Respond, AnswersAreOriginal, Original, Books!Verdict
    <3>2. Told[p] = "none" /\ Told' = [Told EXCEPT ![p] = call[p].reply]
      BY <2>3 DEF Respond, Goes, AcceptanceTypeOK, Told
    <3> QED
      BY <2>3, <3>1, <3>2 DEF Respond, Books!Tell
  <2>4. ASSUME NEW p \in Caller,
               \/ Insert(p) \/ FindOriginal(p) \/ InsertCommand(p)
               \/ InsertOutbox(p) \/ Failure(p)
        PROVE  UNCHANGED <<payments, Told>>
    BY <2>4 DEF Insert, FindOriginal, InsertCommand, InsertOutbox, Failure, Fail, Lose, OpenPhase,
                Goes, Replies, AcceptanceTypeOK, Told
  <2>5. CASE Revoke
    BY <2>5 DEF Revoke, Told
  <2>6. CASE UNCHANGED acceptanceVars
    BY <2>6 DEF acceptanceVars, Told
  <2> QED
    BY <2>1, <2>2, <2>3, <2>4, <2>5, <2>6 DEF AcceptanceNext, Statement, Books!Next
<1> QED
  BY <1>1, <1>2, AcceptanceInvariant, PTL DEF AcceptanceSpec, IsLedger, Books!Spec

=============================================================================
