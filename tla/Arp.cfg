SPECIFICATION Spec
CONSTANTS
  Port = {p1}
  Host = {h1, h2, h3}
  ARP_CACHE_NR = 2
  MAX_ARP_RETRIES = 2
  HZ = 2
  ARP_EXP_TIME = 4
  ARP_NOTRCH_EXP_TIME = 2
  ARP_INUSE_OFFSET = 1
  MaxIdle = 2
  TTLs = {2}
  MaxAge = 5
  MaxPackets = 3
  None = None
INVARIANTS TypeOK OneEntryEach RequestCovered QueueCovered FrameFindsHost
PROPERTIES EveryPacketLeaves
