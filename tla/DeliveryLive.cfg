\* Progress: one command, two attempts, one replay.
SPECIFICATION FairSpec
CONSTANTS
  c1 = c1
  c2 = c2
  t1 = t1
  t2 = t2
  m1 = m1
  m2 = m2
  Command = {c1}
  Task = {t1}
  Message = {m1}
  Poison = {}
  MaxAttempts = 2
  MaxReplays = 1
  Watched = {"conflicting_receipt"}
  Batch = 2
PROPERTIES
  EveryCommandIsDecided
  DispatchComesToRest
  ConflictIsInvestigated
