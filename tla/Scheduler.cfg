CONSTANTS
  s1 = s1
  s2 = s2
  w1 = w1
  w2 = w2
  NoStream = NoStream
  Streams <- TwoStreams
  Writers <- TwoWriters
  Slots <- FiveSlots
  SendLimit = 1
  Window <- WindowMixed
  BlockSize = 2
  FlushEachWrite <- JustS2
  MaxBytes = 2
  ParkAge = 1
  SlowAcks = TRUE
  CanAbandon = TRUE
SPECIFICATION FairSpec
INVARIANTS SlotsConserved BudgetRespected NoSlotIdleWhileWaiting
PROPERTIES NobodyJumpsTheQueue WritersReturn
CHECK_DEADLOCK FALSE
