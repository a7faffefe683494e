SPECIFICATION FairFirewall
CONSTANTS
  Rules = {open, moved, closed}
  Open = {open, moved}
  NoRules = NoRules
  FirewallFaults = {"abort", "flake", "stall", "reboot"}
  MaxPlays = 3
INVARIANTS RestoreTargetAdmits ProofStillStands
PROPERTIES GuardedLockoutEnds
CHECK_DEADLOCK FALSE
