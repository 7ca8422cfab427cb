\* A batch is as small as the number of refused receipts.
SPECIFICATION FairSimulatorSpec
CONSTANTS
  c1 = c1
  c2 = c2
  Command = {c1, c2}
  Refused = {c1}
  Limit = 1
PROPERTIES
  EveryReceiptIsStored
