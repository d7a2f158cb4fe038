SPECIFICATION Spec
CONSTANTS
  ICHAN_HOLD = 2
  MaxData = 3
  WriteSizes = {1, 2}
  ReadSizes = {1}
  Devices = {"tcp", "psip"}
  WindowOpen = FALSE
  MaxSignals = 2
  CancelTries = 64
  MaxGen = 2
CHECK_DEADLOCK FALSE
INVARIANTS
  TypeOK
  OnlyWritesMisread
  OneReplyEach
  PendMatchesLayer
  StreamKept
