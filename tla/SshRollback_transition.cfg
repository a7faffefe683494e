SPECIFICATION FairSpec
CONSTANTS
  Configs = {strict, moved, closed}
  Admitting = {strict, moved}
  None = None
  Targets = {"configure", "verify"}
  Faults = {"abort", "flake", "stall", "reboot"}
  MaxRuns = 3
INVARIANTS NextBootAdmits ConfigureStaysHardened
PROPERTIES ProbeLockoutIsRolledBack
CHECK_DEADLOCK FALSE
