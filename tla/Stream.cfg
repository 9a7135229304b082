CONSTANTS
  Plans <- FaultyAndHealthy
  MaxBlocks = 5
  MaxResumes = 2
  Window = 2
  SeqMod = 5
  RedeliveryWindow = 2
  HighWater = 2
  ReplayDepth = 2
SPECIFICATION FairSpec
INVARIANTS AckedMeansTaken BoundedUntilReplay
PROPERTIES EarliestFailure KeepsThePromise CloseReturns EveryBlockRead
CHECK_DEADLOCK FALSE
