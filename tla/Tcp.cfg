SPECIFICATION Spec
CONSTANTS
  a = a
  b = b
  Peer = {a, b}
  Scripts <- PassScripts
  SeqSpace = 64
  ISS <- MCISS
  MSS = 3
  HDR = 1
  SND_WND = 4
  RCV_WND = 4
  MIN_RCV = 4
  FaultKinds = {"lose", "duplicate", "overtake", "early", "dead"}
  MaxFaults = 2
INVARIANTS NothingAckedLost CheckConn TimerCovers ShutdownMeansReceived
PROPERTIES StreamSpec WindowNeverShrinks
CHECK_DEADLOCK FALSE
