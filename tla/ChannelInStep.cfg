SPECIFICATION Spec
CONSTANTS
  ICHAN_HOLD = 2
  MaxData = 1
  WriteSizes = {2}
  ReadSizes = {1}
  Devices = {"tcp", "psip"}
  WindowOpen = FALSE
  MaxSignals = 0
  CancelTries = 64
  MaxGen = 1
CHECK_DEADLOCK FALSE
INVARIANTS
  InStep
