SPECIFICATION Spec
CONSTANTS
  Worker = {"w1", "w2", "w3", "w4"}
  Entry = {"e1", "e2", "e3", "e4"}
  Group = {"g1", "g2"}
  Slice = {1}
  entryOf <- SpanningEntryOf
  grpOf <- SpanningGrpOf
  Owner = "w1"
  Step0 = 0
  InitVersion = 0
  WarmupSteps = 0
  TrainSteps = 2
  CheckpointFrequency = 1
  CheckpointAfter = 1
  SleepCoversInit = TRUE
INVARIANTS
  OneGroupPerUpdate
