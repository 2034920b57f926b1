SPECIFICATION Spec
CONSTANTS
  Grp = {"g0", "g1", "g2"}
  Master = "g0"
  MaxUpdates = 5
INVARIANTS
  NoDoubleCount
  NothingLost
  RoundsArePaidFor
PROPERTIES
  MasterKeeps
