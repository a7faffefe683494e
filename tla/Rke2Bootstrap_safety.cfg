SPECIFICATION FairSpec
CONSTANTS
  Servers = 3
  Tokens = {t1, t2}
  Absent = Absent
  Faults = {"fail", "crash", "lost", "loss"}
  MaxFaults = 3
INVARIANTS OneLineage QuorumKept
PROPERTIES SealedBeforeUse OnlyKnownWedges
