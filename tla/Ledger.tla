------------------------------- MODULE Ledger -------------------------------
(***************************************************************************)
(* What acceptance of payments promises: an idempotent ledger.  A key is   *)
(* entered at most once, for good; a caller is told of the entry under its *)
(* key, or that the entry is of another payment, or is refused.            *)
(***************************************************************************)
CONSTANTS
  Caller,    \* callers, each with one request
  Key,       \* idempotency keys, each within its merchant
  request,   \* [Caller -> [key : Key, body : Body]]
  NoPayment  \* the value of a key not entered

VARIABLES
  ledger,    \* [Key -> [id, body] or NoPayment]
  reply      \* [Caller -> what the caller has been told]

Entry(p) == [id |-> p, body |-> request[p].body]

\* The answer the ledger gives to p.
Verdict(p) ==
  LET entry == ledger[request[p].key]
  IN IF entry.body = request[p].body THEN entry.id ELSE "conflict"

Init ==
  /\ ledger = [k \in Key |-> NoPayment]
  /\ reply = [p \in Caller |-> "none"]

Enter(p) ==
  /\ ledger[request[p].key] = NoPayment
  /\ ledger' = [ledger EXCEPT ![request[p].key] = Entry(p)]
  /\ reply' = reply

Tell(p) ==
  /\ reply[p] = "none"
  /\ ledger[request[p].key] # NoPayment
  /\ reply' = [reply EXCEPT ![p] = Verdict(p)]
  /\ ledger' = ledger

Refuse(p) ==
  /\ reply[p] = "none"
  /\ reply' = [reply EXCEPT ![p] = "refused"]
  /\ ledger' = ledger

Next == \E p \in Caller : Enter(p) \/ Tell(p) \/ Refuse(p)

Spec == Init /\ [][Next]_<<ledger, reply>>

=============================================================================
