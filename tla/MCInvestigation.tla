-------------------------- MODULE MCInvestigation --------------------------
(* Instances of Investigation for TLC. *)
EXTENDS Investigation, TLC

CONSTANTS r1, r2, r3, p1, p2, u1, u2

\* u1 uses both processes, u2 only the first.
Where == (r1 :> p1) @@ (r2 :> p1) @@ (r3 :> p2)
Whose == (r1 :> u1) @@ (r2 :> u2) @@ (r3 :> u1)

\* A conflict, as the reconciler captures it; a transaction of the parent that
\* opened and resolved its incident eleven times; a device never heard of.
Conflict ==
  [id |-> 20, form |-> "command", fields |-> {"captured", "state", "published_at", "expires_at"},
   attempts |-> <<"published", "retry">>, receipts |-> <<TRUE, FALSE>>,
   devices |-> <<{"heartbeat", "revoked"}>>]
Observed(n) ==
  [id |-> n, form |-> "parent",
   fields |-> {"captured", "parentPayment", "parentAnnouncement", "parentCreated"}]
Unheard ==
  [id |-> 30, form |-> "command", fields |-> {"captured"}, attempts |-> <<>>, receipts |-> <<>>,
   devices |-> <<{"revoked"}>>]

Snapshots == (r1 :> <<Conflict>>) @@ (r2 :> [i \in 1..11 |-> Observed(12 - i)]) @@ (r3 :> <<Unheard>>)

\* All, nothing, the last one twice; one of another incident, a hypothesis as an
\* observation, and more than there may be.
Chosen(r) ==
  LET known == Context(Snapshots[r])
      all == InOrder(known.facts)
      last == all[Len(all)]
      Facts(ids) == [factIds |-> ids, hypothesisIds |-> InOrder(known.hypotheses)]
  IN {Everything(known), [factIds |-> <<>>, hypothesisIds |-> <<>>], Facts(<<last, last>>),
      Facts(<<<<40, "captured", 0>>>>), Facts(InOrder(known.hypotheses)), Facts([i \in 1..61 |-> last])}

Answers == [r \in Request |-> Chosen(r)]

=============================================================================
