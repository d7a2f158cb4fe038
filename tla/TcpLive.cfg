SPECIFICATION Spec
CONSTANTS
  a = a
  b = b
  Peer = {a, b}
  Scripts <- LiveScripts
  SeqSpace = 64
  ISS <- MCISS
  MSS = 3
  HDR = 1
  SND_WND = 4
  RCV_WND = 4
  MIN_RCV = 4
  FaultKinds = {"lose", "early"}
  MaxFaults = 2
PROPERTY Answered
CHECK_DEADLOCK FALSE
