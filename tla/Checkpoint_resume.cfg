SPECIFICATION Spec
CONSTANTS
  Worker = {1, 2}
  Frequency = 1
  After = 1
  TrainSteps = 2
INVARIANT
  ResumeFindsLatest
CHECK_DEADLOCK FALSE
