SPECIFICATION FairSpec
CONSTANTS
  Worker = {"w1", "w2"}
  Entry = {"e1", "e2"}
  Group = {"g1", "g2"}
  Slice = {1}
  entryOf <- TwoGroupsEntryOf
  grpOf <- TwoGroupsGrpOf
  Owner = "w1"
  Step0 = 1
  InitVersion = 1
  WarmupSteps = 1
  TrainSteps = 4
  CheckpointFrequency = 1
  CheckpointAfter = 1
  SleepCoversInit = TRUE
INVARIANTS
  OneGroupPerUpdate
  GradientsInOrder
PROPERTIES
  Termination
