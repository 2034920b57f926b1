SPECIFICATION Spec
CONSTANTS
  Launch = {l1, l2}
  nprocs <- MCNProcs
  l1 = l1
  l2 = l2
  nhosts = 2
  JobsNotRemoved = 1
  MaxEvents = 2
INVARIANTS
  OwnEndpoint
  JobIdsDiffer
PROPERTIES
  RecentJobsStay
  AllRegister
CHECK_DEADLOCK FALSE
