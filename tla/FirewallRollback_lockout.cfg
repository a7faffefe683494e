SPECIFICATION FairSpec
CONSTANTS
  Rules = {open, moved, closed}
  Admitting = {open, moved}
  None = None
  Faults = {}
  MaxRuns = 2
PROPERTIES LockoutIsRolledBack
CHECK_DEADLOCK FALSE
