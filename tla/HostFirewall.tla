------------------------------ MODULE HostFirewall ------------------------------
(***************************************************************************)
(* The firewall transition of a host under names of its own, so that one   *)
(* module can speak of it and of the host's SSH transition: the two have   *)
(* the same shape, and share neither files nor tasks nor timers.           *)
(***************************************************************************)
CONSTANTS
  Rules,           \* rule sets an operator may ask for
  Open,            \* those that let an administrator open a fresh session
  NoRules,         \* no table, no file, no capture
  FirewallFaults,  \* which of the role's FaultKinds happen
  MaxPlays         \* bound on the number of playbook runs

VARIABLES
  task,       \* next task of the role
  rules,      \* the rules of the run's inventory
  changed,    \* a rendered file changed
  file,       \* the rules file
  unit,       \* the service is installed
  service,    \* ... and enabled and active
  live,       \* the live table
  capture,    \* the captured table
  rollback,   \* phase3-firewall-rollback.timer and .service
  passed,     \* the last run ended successfully
  plays       \* number of runs started

Firewall == INSTANCE FirewallRollback WITH
  Admitting <- Open, None <- NoRules, Faults <- FirewallFaults, MaxRuns <- MaxPlays,
  pc <- task, wanted <- rules, saved <- capture, timer <- rollback, ok <- passed, runs <- plays

ASSUME HostFirewallAssumption == Firewall!FirewallRollbackAssumption

FirewallSpec == Firewall!Spec
FairFirewall == Firewall!FairSpec

------------------------------------------------------------------------------
(***************************************************************************)
(* Every variable of the role keeps its type.                              *)
(***************************************************************************)
FirewallTypeOK == Firewall!TypeOK

(***************************************************************************)
(* What the timer would restore is always a state the administrator can    *)
(* get into.                                                               *)
(***************************************************************************)
RestoreTargetAdmits == Firewall!RestoreTargetAdmits

(***************************************************************************)
(* The timer is only cancelled over rules that admit a fresh session, and  *)
(* stays so until the end of the run.                                      *)
(***************************************************************************)
ProofStillStands == Firewall!ProofStillStands

(***************************************************************************)
(* A lockout with an armed timer ends, unless the host is booted first.    *)
(***************************************************************************)
GuardedLockoutEnds == Firewall!GuardedLockoutEnds
=================================================================================
