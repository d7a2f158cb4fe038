SPECIFICATION Spec
CONSTANTS
  ICHAN_HOLD = 2
  MaxData = 1
  WriteSizes = {1}
  ReadSizes = {1}
  Devices = {"tcp", "psip"}
  WindowOpen = TRUE
  MaxSignals = 1
  CancelTries = 64
  MaxGen = 1
CHECK_DEADLOCK FALSE
INVARIANTS
  CancelTellsTruth
