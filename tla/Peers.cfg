CONSTANTS
  Alice = Alice
  Bob = Bob
  Carol = Carol
  Users = {Alice, Bob, Carol}
  Vers = {"v1", "v2"}
  Slots = {1, 2}
  Requests = 4
  Horizon = 7
  TtlTicks = 3
  Burst = 2
  MaxTracked = 2
  RateNum = 2
  RateDen = 3
  Plans <- Meetings
SPECIFICATION Spec
INVARIANTS VerdictsAreTrue OnePromptAtATime LimiterKeepsItsWord
CHECK_DEADLOCK FALSE
