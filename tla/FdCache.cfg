SPECIFICATION Spec
CONSTANTS
  FDC_NCHAN = 3
  NDesc = 3
  StampMod = 2
  Client = {c1, c2, c3}
  NoFd = NoFd
CHECK_DEADLOCK FALSE
INVARIANTS
  TypeOK
  HeldIsOwn
  Answerable
  NoReplyLost
  CeilingStable
  NamesTidied
PROPERTIES
  RefusedOnlyWhenFull
  EveryHelloAnswered
  EveryChannelReclaimed
