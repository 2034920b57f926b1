SPECIFICATION FairSpec
CONSTANTS
  Server = {"s1", "s2"}
  Keeper = {"s1", "s2"}
  Worker = {"w1", "w2", "w3"}
  Group = {"g1"}
  grpOf <- OneGroup
  TrainSteps = 2
  NumRetry = 2
INVARIANTS
  StopOnlyAfterAllLeft
PROPERTIES
  AllStop
