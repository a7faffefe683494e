SPECIFICATION Spec
CONSTANTS
  Procs = {p1, p2}
  NoProc = NoProc
  Absent = Absent
  Empty = Empty
  Torn = Torn
  Faults = {"crash"}
  MaxVersion = 2
PROPERTIES RefusedRunKeepsSeal
