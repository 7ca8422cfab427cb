\* Two commands, one of them refused; a batch takes in both.
SPECIFICATION FairSimulatorSpec
CONSTANTS
  c1 = c1
  c2 = c2
  Command = {c1, c2}
  Refused = {c1}
  Limit = 2
INVARIANTS
  AcknowledgedIsStored
PROPERTIES
  EveryReceiptIsStored
  PostingComesToRest
