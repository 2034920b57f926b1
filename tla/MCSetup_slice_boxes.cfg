SPECIFICATION Spec
CONSTANTS
  Inputs <- FourServers
  MaxBox = 9
INVARIANT
  BoxesExist
