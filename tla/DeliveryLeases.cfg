\* One command, two attempts before and after one operator replay, two
\* concurrent dispatch calls: leases, attempts, and what decides a command.
SPECIFICATION Spec
CONSTANTS
  c1 = c1
  c2 = c2
  t1 = t1
  t2 = t2
  m1 = m1
  m2 = m2
  Command = {c1}
  Task = {t1, t2}
  Message = {m1}
  Poison = {}
  MaxAttempts = 2
  MaxReplays = 1
  Watched = {}
  Batch = 1
SYMMETRY Interchangeable
INVARIANTS
  VerdictsAreJustified
  TypeOK
  OpenAttemptIsCurrent
  AttemptsWithinBudget
  TablesAgree
PROPERTIES
  AttemptOutcomeIsFinal
