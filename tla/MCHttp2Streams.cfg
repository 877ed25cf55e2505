CONSTANTS
  StreamIds = {1, 2, 3}
  MaxWeight = 2
  MaxFrame = 1
  CycleMod = 16
  PrioritySpecs <- Specs
  DefaultWeight = 1
  WriteLens = {0}
  MaxConcurrent = 1
  MaxIdle = 1
SPECIFICATION Spec
INVARIANTS SessionTreeIsSound CountersAgree RetentionIsBounded ItemsAreOwned
CHECK_DEADLOCK FALSE
