SPECIFICATION FairSpec
CONSTANTS
  Worker = {"w1", "w2", "w3", "w4"}
  Entry = {"e1", "e2", "e3"}
  Group = {"g1"}
  Slice = {1, 2}
  entryOf <- FourEntryOf
  grpOf <- OneGroupGrpOf
  Owner = "w1"
  Step0 = 0
  InitVersion = 0
  WarmupSteps = 0
  TrainSteps = 3
  CheckpointFrequency = 1
  CheckpointAfter = 1
  SleepCoversInit = TRUE
INVARIANTS
  NoFatal
  SnapshotReads
  ExactAggregation
  NoLostWakeup
  PeriodicCheckpointExact
  IInv
PROPERTIES
  Termination
  ImplementsSyncSGD
  VersionNeverRegresses
