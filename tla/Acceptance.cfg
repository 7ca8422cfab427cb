SPECIFICATION FairAcceptanceSpec
CONSTANTS
  p1 = p1  p2 = p2  p3 = p3  p4 = p4
  k1 = k1  k2 = k2
  b1 = b1  b2 = b2
  Caller = {p1, p2, p3, p4}
  Key = {k1, k2}
  NoPayment = NoPayment
  request <- Requests
INVARIANTS
  RowsGoTogether
PROPERTIES
  RevokedAcceptsNothing
  IsLedger
  EveryCallerIsAnswered
\* Calls end when every caller has been answered.
CHECK_DEADLOCK FALSE
