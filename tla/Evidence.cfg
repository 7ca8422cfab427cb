\* Two calls at a time; heartbeats and receipts, the receipts with one identity.
SPECIFICATION FairEvidenceSpec
CONSTANTS
  a = a  c = c  r = r  s = s
  v1 = v1  v2 = v2
  h1 = h1  h2 = h2
  Message = {a, c, r, s}
  id <- Ids
  kind <- Kinds
  at <- Times
  key <- Keys
  Fit = {r, s}
  Version = {v1, v2}
  Handler = {h1, h2}
  Skew = 1
  Day = 4
  Patience = 1
  MaxTime = 5
  MaxFailures = 1
  NoMessage = NoMessage
INVARIANTS
  TakenOnce
  ReceiptsNeverDeadlock
PROPERTIES
  IsIntake
  RepeatedIsTaken
