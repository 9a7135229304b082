CONSTANTS
  Window = 1
  Buffer = 1
  HighWater = 1
  Plans <- Talks
SPECIFICATION FairSpec
INVARIANTS WholeUnlessFailed SlowReaderSlowsSender
PROPERTY EveryoneHangsUp
CHECK_DEADLOCK FALSE
