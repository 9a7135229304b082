CONSTANT
  Scenarios <- AnyTrouble
SPECIFICATION FairSpec
INVARIANTS Agreement ArmedBeforeOpen LosersLetGo
PROPERTIES NoTimeoutNeeded EveryoneFinishes
CHECK_DEADLOCK FALSE
