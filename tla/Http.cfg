CONSTANTS
  Parts = 2
  Window = 1
  Exchanges <- All
SPECIFICATION FairSpec
INVARIANTS EndedMeansWhole StanzasFit
PROPERTIES HealthyExchange EveryoneSettles
CHECK_DEADLOCK FALSE
