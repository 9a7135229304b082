CONSTANTS
  SenderWindow = 4
  ReceiveWindow = 4
  HighWater = 6
  IdleTimeout = 5
  MaxGap = 4
SPECIFICATION PatienceSpec
INVARIANT SlowConsumerIsKept
