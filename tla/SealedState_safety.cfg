SPECIFICATION FairSpec
CONSTANTS
  Procs = {p1, p2}
  NoProc = NoProc
  Absent = Absent
  Empty = Empty
  Torn = Torn
  Faults = {"crash", "torn", "io", "fail"}
  MaxVersion = 2
INVARIANTS LatestStateKept LeaseIsExclusive PlaintextOnlyAfterInterruption
PROPERTIES ImplementsRegister NoForkedWrite RunTerminates
