CONSTANTS
  Timer = {t1, t2}
  Event = {e1}
  HZ = 2
  CLCK_SEED = 2
  CLCK_MAX_STEP = 3
  MAX_WAIT = 2
  PollMax = 3
  Delays = {1, 5}
  Jumps <- AllJumps
  Sets = 1
  Start = 3
  MaxWall = 7
  Horizon = 12
  MaxInputs = 2
SPECIFICATION FairSpec
INVARIANTS TypeOK ChainExact NothingMissedAsleep AbsurdStepHarmless
PROPERTIES NeverBackwards DueTimersRun EventsRun
CHECK_DEADLOCK FALSE
