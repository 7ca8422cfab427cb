\* The reconciler overwrites a completion.
SPECIFICATION Spec
CONSTANTS
  c1 = c1
  c2 = c2
  t1 = t1
  t2 = t2
  m1 = m1
  m2 = m2
  Command = {c1}
  Task = {t1}
  Message = {m1}
  Poison = {}
  MaxAttempts = 1
  MaxReplays = 0
  Watched = {}
  Batch = 1
PROPERTIES
  CompletedIsTerminal
