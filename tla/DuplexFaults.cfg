CONSTANTS
  MaxBlocks = 1
  Window = 1
  Scenarios <- Troubles
SPECIFICATION FairSpec
INVARIANTS CleanCloseResolves ResolvedMeansDelivered
PROPERTIES BothEnd CloseReturns
CHECK_DEADLOCK FALSE
