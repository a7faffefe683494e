SPECIFICATION FairSpec
CONSTANTS
  n1 = n1
  n2 = n2
  n3 = n3
  None = None
  Nodes = {n1, n2, n3}
  Repaired = n2
  Healthy <- MCHealthy
  Faults = {"provider", "fail", "crash", "mixup", "edit"}
  MaxFaults = 1
INVARIANTS TypeOK BackupFollows ReconciledOnePerNode WedgesLast
PROPERTIES OnlyPromisedChanges OnlyKnownWedges
