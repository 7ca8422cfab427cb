\* Two commands, one of them malformed, two receipts, a pass limited to one row
\* per query: incidents, contradictory evidence, the life cycle.
SPECIFICATION Spec
CONSTANTS
  c1 = c1
  c2 = c2
  t1 = t1
  t2 = t2
  m1 = m1
  m2 = m2
  Command = {c1, c2}
  Task = {t1}
  Message = {m1, m2}
  Poison = {c2}
  MaxAttempts = 1
  MaxReplays = 0
  Watched = {"retry_exhausted", "poison_command", "missing_receipt", "conflicting_receipt"}
  Batch = 1
SYMMETRY Interchangeable
INVARIANTS
  ContradictionIsFlagged
PROPERTIES
  
  CompletionLostOnlyToExpiry
  FollowsLifecycle
