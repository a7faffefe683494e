SPECIFICATION FairSpec
CONSTANTS
  Configs = {strict, moved, closed}
  Admitting = {strict, moved}
  None = None
  Targets = {"configure"}
  Faults = {"abort"}
  MaxRuns = 2
PROPERTIES LockoutIsRolledBack
CHECK_DEADLOCK FALSE
