CONSTANTS
  s1 = s1
  s2 = s2
  w1 = w1
  w2 = w2
  NoStream = NoStream
  Streams <- TwoStreams
  Writers <- OneWriter
  Slots <- FiveSlots
  SendLimit = 1
  Window <- WindowTwo
  BlockSize = 1
  FlushEachWrite <- NoStreams
  MaxBytes = 3
  ParkAge = 2
  SlowAcks = TRUE
  CanAbandon = FALSE
SPECIFICATION Spec
INVARIANT NeverWedged
CHECK_DEADLOCK FALSE
