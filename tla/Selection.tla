----------------------------- MODULE Selection -----------------------------
(***************************************************************************)
(* What a provider is shown of an incident, and what an operator is given  *)
(* of its answer (evidenceContext and investigate in                       *)
(* packages/investigation).  Texts are templates: an observation is        *)
(* identified by its snapshot, its field and, for devices, an index.       *)
(*                                                                         *)
(* A field is <<its name, index of the device, or 0>>.  A list that is     *)
(* pushed to while snapshots are gone through is a function on places      *)
(* <<index of the snapshot, field>>, in the order of UpTo.                 *)
(***************************************************************************)
EXTENDS Integers, Sequences, FiniteSets

MaxSnapshots == 10
MaxFacts == 60
MaxHypotheses == 20
MaxMissing == 30

\* The order in which a snapshot is gone through, before its devices and for
\* each of them.
Order ==
  <<"past", "captured", "schema", "parentPayment", "parentAnnouncement", "parentCreated", "parent",
    "state", "published_at", "completed_at", "expires_at", "attempts", "receipts",
    "conflicts", "conflict", "retries", "connectivity", "heartbeat", "revoked", "none">>

Position(field) == CHOOSE n \in DOMAIN Order : Order[n] = field[1]

UpTo(p, q) ==
  LET f == p[2]
      g == q[2]
  IN \/ p[1] < q[1]
     \/ p[1] = q[1] /\ f[2] < g[2]
     \/ p[1] = q[1] /\ f[2] = g[2] /\ Position(f) <= Position(g)

\* The first n places of a list.
FirstOf(places, n) == {p \in places : Cardinality({q \in places : UpTo(q, p)}) <= n}

\* The elements of a list as a sequence.
InOrder(list) ==
  [n \in 1..Cardinality(DOMAIN list) |->
     list[CHOOSE p \in DOMAIN list : Cardinality({q \in DOMAIN list : UpTo(q, p)}) = n]]

Elements(list) == {list[p] : p \in DOMAIN list}

----------------------------------------------------------------------------

\* A snapshot has an id; a form (unsupported: of another schema; parent: of the
\* parent's transaction; command: of the rows of the reconciler); the fields
\* that are there and of their type; outcomes of attempts; for every receipt,
\* whether it conflicts; and for every device, which of its fields are there.
Attempts(e) == DOMAIN e.attempts \cap 1..20
Receipts(e) == DOMAIN e.receipts \cap 1..20
Devices(e) == DOMAIN e.devices \cap 1..5

Conflicting(e) == \E i \in Receipts(e) : e.receipts[i]
Retried(e) == \E i \in Attempts(e) : e.attempts[i] = "retry"

\* These fields, those of them that are there.
Given(e, names) == (names \cap e.fields) \X {0}

If(condition, name) == {f \in {<<name, 0>>} : condition}

DeviceFacts(e) ==
  {f \in {"heartbeat", "revoked"} \X Devices(e) : f[1] \in e.devices[f[2]]}

CommandFacts(e) ==
  Given(e, {"state", "published_at", "completed_at", "expires_at"})
    \cup {<<"attempts", 0>>, <<"receipts", 0>>}
    \cup If(Conflicting(e), "conflicts") \cup If(Retried(e), "retries")
    \cup DeviceFacts(e)

FactsOf(e) ==
  Given(e, {"captured"}) \cup
  (CASE e.form = "unsupported" -> {}
     [] e.form = "parent" -> Given(e, {"parentPayment", "parentAnnouncement", "parentCreated"})
     [] e.form = "command" -> CommandFacts(e))

HypothesesOf(e) ==
  IF e.form # "command" THEN {}
  ELSE If(Conflicting(e), "conflict") \cup If(Retried(e), "connectivity")

MissingOf(e) ==
  CASE e.form = "unsupported" -> {<<"schema", 0>>}
    [] e.form = "parent" -> {<<"parent", 0>>}
    [] e.form = "command" ->
         If("state" \notin e.fields, "state") \cup If(Receipts(e) = {}, "receipts")
           \cup {f \in {"heartbeat"} \X Devices(e) : "heartbeat" \notin e.devices[f[2]]}

\* What is said of a field of a snapshot.
Item(e, field) == <<e.id, field[1], field[2]>>

\* A notice that is about no snapshot.
General(notice) == <<0, notice, 0>>

Notice(e, field) == IF field[1] = "parent" THEN General("parent") ELSE Item(e, field)

\* The snapshots that are gone through: the newest, for the API reads no more.
Read(evidence) == DOMAIN evidence \cap 1..MaxSnapshots

FactPlaces(evidence) == UNION {{i} \X FactsOf(evidence[i]) : i \in Read(evidence)}
HypothesisPlaces(evidence) == UNION {{i} \X HypothesesOf(evidence[i]) : i \in Read(evidence)}
MissingPlaces(evidence) == UNION {{i} \X MissingOf(evidence[i]) : i \in Read(evidence)}

\* What is missing in any case, and what is if there is no evidence.
Always == <<0, <<"past", 0>>>>
Without == <<1, <<"none", 0>>>>

\* evidenceContext
Context(evidence) ==
  [facts |-> [p \in FirstOf(FactPlaces(evidence), MaxFacts) |-> Item(evidence[p[1]], p[2])],
   hypotheses |->
     [p \in FirstOf(HypothesisPlaces(evidence), MaxHypotheses) |-> Item(evidence[p[1]], p[2])],
   missing |->
     [p \in FirstOf({Always} \cup MissingPlaces(evidence)
                      \cup {p \in {Without} : DOMAIN evidence = {}}, MaxMissing) |->
        IF p \in {Always, Without} THEN General(p[2][1]) ELSE Notice(evidence[p[1]], p[2])]]

----------------------------------------------------------------------------

\* MockProvider
Everything(context) ==
  [factIds |-> InOrder(context.facts), hypothesisIds |-> InOrder(context.hypotheses)]

\* The schema of a choice, and that every identifier in it is known.
Supported(choice, context) ==
  /\ Len(choice.factIds) <= MaxFacts
  /\ Len(choice.hypothesisIds) <= MaxHypotheses
  /\ Elements(choice.factIds) \subseteq Elements(context.facts)
  /\ Elements(choice.hypothesisIds) \subseteq Elements(context.hypotheses)

\* [...new Set(ids)]: where an identifier comes for the first time.
Once(ids) == {i \in DOMAIN ids : \A j \in DOMAIN ids : ids[j] = ids[i] => i <= j}

\* Faulty: what the provider leaves out is left out.
RestForgotten(choice, context) == {}

\* What the provider has not chosen, in the order of the evidence.
Rest(choice, context) ==
  {p \in DOMAIN context.facts : context.facts[p] \notin Elements(choice.factIds)}

\* What is made of a choice that is supported.  The places <<0, i>> of what was
\* chosen come before those of the rest.
Rendered(choice, context) ==
  [facts |-> [p \in ({0} \X Once(choice.factIds)) \cup Rest(choice, context) |->
                IF p[1] = 0 THEN choice.factIds[p[2]] ELSE context.facts[p]],
   hypotheses |-> [i \in Once(choice.hypothesisIds) |-> choice.hypothesisIds[i]],
   missing |-> context.missing]

\* What a hypothesis is drawn from.
Grounds(hypothesis) ==
  <<hypothesis[1], IF hypothesis[2] = "conflict" THEN "conflicts" ELSE "retries", 0>>

=============================================================================
