CONSTANTS
  Units = 2
  SocketBuffer = 1
  Troubles <- SomeTroubles
SPECIFICATION SipubFairSpec
INVARIANT EndedMeansWhole
PROPERTIES FallbackDelivers EveryoneFinishes
CHECK_DEADLOCK FALSE
