SPECIFICATION Spec
CONSTANTS
  Inputs <- MCInputs
  MaxBox = 9
INVARIANTS
  SourcesFirst
  ConnectionsKept
  SlicesCover
  NoFatal
  Balanced
  Placed
PROPERTY
  SetupEnds
