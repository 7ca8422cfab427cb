\* One command, one attempt, no replay.
SPECIFICATION FairEndSpec
CONSTANTS
  c1 = c1
  t1 = t1
  Command = {c1}
  Message = {c1}
  Task = {t1}
  Poison = {}
  MaxAttempts = 1
  MaxReplays = 0
  Watched = {}
  Batch = 1
  Refused = {}
  Limit = 1
INVARIANTS
  RecordsMatchDevice
PROPERTIES
  KeepsPromise
  PlayedIsReported
