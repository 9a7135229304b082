CONSTANTS
  Length = 2
  Scenarios <- Mix
SPECIFICATION FairSpec
INVARIANTS BytesKept ToldMeansClaimed
PROPERTY EveryoneSettles
CHECK_DEADLOCK FALSE
