CONSTANTS
  b1 = b1
  b2 = b2
  Told = b1
  Bodies <- TwoBodies
  Chunks = 3
  MaxBuffered = 2
  MaxOrphans = 2
  MaxReplays = 1
  Faults <- AllFaults
SPECIFICATION Spec
INVARIANTS OrphansConserved NoChunkForgotten
PROPERTY KeepsThePromise
CHECK_DEADLOCK FALSE
