SPECIFICATION Spec
CONSTANTS
  p1 = p1
  p2 = p2
  w1 = w1
  w2 = w2
  s1 = s1
  s2 = s2
  Proc = {p1, p2}
  Worker = {w1, w2}
  Server = {s1, s2}
  procOf <- MCProcOf
  groupOf <- MCGroupOf
  BufSize = 3
  SyncServers = TRUE
  MaxRequest <- MCMaxRequest
  MaxReminder <- MCMaxReminder
INVARIANTS
  NothingUnsent
PROPERTIES
  ImplementsFifoNet
  AllEnd
