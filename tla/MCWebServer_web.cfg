SPECIFICATION Spec
CONSTANTS
  Worker = {1, 2}
  MaxId = 2
  PipeSize = 1
  MaxDelay = 2
  Bounds <- MCBounds
INVARIANTS
  AnswerIsRecent
  LogIsKept
  EachLineOnce
PROPERTIES
  UploadEnds
  WorkersStop
CHECK_DEADLOCK FALSE
