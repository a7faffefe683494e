SPECIFICATION Spec
CONSTANTS
  n1 = n1
  n2 = n2
  n3 = n3
  Nodes <- MCNodes
  None = None
  Torn = Torn
  DiskSize = 4
  Reserved = 1
  Disks <- MCDisks
  MaxClaims = 2
  MaxFaults = 3
INVARIANTS TypeOK PassIsProven CapturesLeaveTestOut NothingOrphaned
PROPERTIES DataRemovedOnlyAtCleanup CapturedRunCleansUp
CHECK_DEADLOCK FALSE
