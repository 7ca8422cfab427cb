\* Three requests of two users at two processes, one at a time and one per hour.
SPECIFICATION FairInvestigationSpec
CONSTANTS
  r1 = r1  r2 = r2  r3 = r3
  p1 = p1  p2 = p2
  u1 = u1  u2 = u2
  Request = {r1, r2, r3}
  Api = {p1, p2}
  User = {u1, u2}
  at <- Where
  by <- Whose
  evidence <- Snapshots
  choices <- Answers
  MaxActive = 1
  Quota = 1
  Hour = 2
  Horizon = 2
INVARIANTS
  QuotaHolds
  SlotsAreCounted
  EverythingIsAudited
  AnswersAreFaithful
PROPERTIES
  SlotsComeFree
\* Requests end when all have been answered.
CHECK_DEADLOCK FALSE
