--------------------------- MODULE HostRollbackProofs ---------------------------
(***************************************************************************)
(* Theorems about the two transitions of a host that a timer may take      *)
(* back.  SshRollback is extended: what a successful configure run leaves  *)
(* behind under every fault, and what a boot finds when only probes fail,  *)
(* for every set of drop-ins and any number of runs; and of HostFirewall,  *)
(* that neither the capture nor a cancelled timer locks the administrator  *)
(* out, for every set of rules, fault and number of runs.                  *)
(***************************************************************************)
EXTENDS SshRollback, HostFirewall, TLAPS

(***************************************************************************)
(* Every variable of the SSH transition keeps its type.                    *)
(***************************************************************************)
LEMMA TypeStep == TypeOK /\ [Next]_vars => TypeOK'
<1> SUFFICES ASSUME TypeOK, [Next]_vars PROVE TypeOK'
  OBVIOUS
<1> USE SshRollbackAssumption DEF TypeOK, Steps, Window, Moves, Quiet, Throws, Mishap, host
<1>1. CASE \E t \in Targets, c \in Configs : StartRun(t, c)
  <2> PICK t \in Targets, c \in Configs : StartRun(t, c)
    BY <1>1
  <2>1. runs' \in 0..MaxRuns
    BY SMT DEF StartRun
  <2>2. /\ seen' \in BOOLEAN /\ account' \in BOOLEAN
       /\ ok' \in BOOLEAN /\ mishap' \in BOOLEAN
    BY Zenon DEF StartRun, host
  <2>3. pc' \in Steps /\ wanted' \in Configs /\ target' \in Targets
    BY Zenon DEF StartRun, Steps
  <2> QED
    BY <2>1, <2>2, <2>3, Zenon DEF StartRun, host, TypeOK
<1>2. CASE ProbeAdmin
  BY <1>2 DEF ProbeAdmin
<1>3. CASE SkipBootstrap
  BY <1>3 DEF SkipBootstrap
<1>4. CASE NeedsBootstrap
  BY <1>4 DEF NeedsBootstrap
<1>5. CASE Unreachable
  BY <1>5 DEF Unreachable
<1>6. CASE AssertHardened
  BY <1>6 DEF AssertHardened, AssertAdmin, AssertRootDenied
<1>7. CASE NotHardened
  BY <1>7 DEF NotHardened
<1>8. CASE Converge
  BY <1>8 DEF Converge
<1>9. CASE ControlledReboot
  BY <1>9 DEF ControlledReboot, Boots
<1>10. CASE ProvesBoot
  BY <1>10 DEF ProvesBoot
<1>11. CASE FinalVerify
  BY <1>11 DEF FinalVerify
<1>12. CASE PlaybookFails
  BY <1>12 DEF PlaybookFails
<1>13. CASE CreateAccount
  BY <1>13 DEF CreateAccount
<1>14. CASE ProveSecond
  BY <1>14 DEF ProveSecond
<1>15. CASE SecondFails
  BY <1>15 DEF SecondFails
<1>16. CASE PrepareClears
  BY <1>16 DEF PrepareClears
<1>17. CASE Captures
  BY <1>17 DEF Captures
<1>18. CASE ClearTimer
  BY <1>18 DEF ClearTimer
<1>19. CASE Arm
  BY <1>19 DEF Arm
<1>20. CASE Render
  BY <1>20 DEF Render
<1>21. CASE Reload
  BY <1>21 DEF Reload
<1>22. CASE ProveAdmin
  BY <1>22 DEF ProveAdmin
<1>23. CASE AdminFails
  BY <1>23 DEF AdminFails
<1>24. CASE ProveRootDenied
  BY <1>24 DEF ProveRootDenied
<1>25. CASE RootNotDenied
  BY <1>25 DEF RootNotDenied
<1>26. CASE Cancel
  BY <1>26 DEF Cancel
<1>27. CASE CancelFails
  BY <1>27 DEF CancelFails
<1>28. CASE Cleanup
  BY <1>28 DEF Cleanup
<1>29. CASE RestoreFile
  BY <1>29 DEF RestoreFile
<1>30. CASE RestoreReload
  BY <1>30 DEF RestoreReload
<1>31. CASE Abort
  BY <1>31 DEF Abort
<1>32. CASE Reboot
  BY <1>32 DEF Reboot, Boots
<1>33. CASE UNCHANGED vars
  BY <1>33 DEF vars
<1> QED
  BY <1>1, <1>2, <1>3, <1>4, <1>5, <1>6, <1>7, <1>8, <1>9, <1>10, <1>11, <1>12,
     <1>13, <1>14, <1>15, <1>16, <1>17, <1>18, <1>19, <1>20, <1>21, <1>22, <1>23,
     <1>24, <1>25, <1>26, <1>27, <1>28, <1>29, <1>30, <1>31, <1>32, <1>33
     DEF Next, Phase3, Role, Timer

(***************************************************************************)
(* Type correctness of SshRollback.                                        *)
(***************************************************************************)
THEOREM TypeCorrect == Spec => []TypeOK
<1>1. Init => TypeOK
  <2> SUFFICES ASSUME Init PROVE TypeOK
    OBVIOUS
  <2>1. runs \in 0..MaxRuns
    BY SshRollbackAssumption, SMT DEF Init
  <2> QED
    BY <2>1, Zenon DEF Init, TypeOK
<1> QED
  BY <1>1, TypeStep, PTL DEF Spec

(***************************************************************************)
(* From the controlled reboot on no timer is left and the daemon runs what *)
(* is on disk; once verify-hosts.yml got in, that is a hardened drop-in.   *)
(***************************************************************************)
Rebooted == pc \in {"booted", "final", "finalRoot", "verify"} => timer = "off" /\ dropin = sshd
Diagnosis == pc \in {"final", "finalRoot", "verify"} => sshd \in Admitting
Ended == ok => pc = "idle"

HardenedInv ==
  /\ target = "configure" => Rebooted /\ Diagnosis
  /\ Ended /\ ConfigureStaysHardened

(***************************************************************************)
(* Every step of either target keeps it.                                   *)
(***************************************************************************)
LEMMA HardenedStep ==
  ASSUME TypeOK, HardenedInv, [Next]_vars
  PROVE  HardenedInv'
<1> USE SshRollbackAssumption
    DEF TypeOK, HardenedInv, Rebooted, Diagnosis, Ended, ConfigureStaysHardened, Hardened,
        Steps, Window, Admin, Diagnosed, Mishap, Moves, Succeeds, Quiet, Throws, host
<1>1. CASE \E t \in Targets, c \in Configs : StartRun(t, c)
  BY <1>1 DEF StartRun
<1>2. CASE ProbeAdmin
  BY <1>2 DEF ProbeAdmin
<1>3. CASE SkipBootstrap
  BY <1>3 DEF SkipBootstrap
<1>4. CASE NeedsBootstrap
  BY <1>4 DEF NeedsBootstrap
<1>5. CASE Unreachable
  BY <1>5 DEF Unreachable
<1>6. CASE AssertHardened
  BY <1>6 DEF AssertHardened, AssertAdmin, AssertRootDenied
<1>7. CASE NotHardened
  BY <1>7 DEF NotHardened
<1>8. CASE Converge
  BY <1>8 DEF Converge
<1>9. CASE ControlledReboot
  BY <1>9 DEF ControlledReboot, Boots
<1>10. CASE ProvesBoot
  BY <1>10 DEF ProvesBoot
<1>11. CASE FinalVerify
  BY <1>11 DEF FinalVerify
<1>12. CASE PlaybookFails
  BY <1>12 DEF PlaybookFails
<1>13. CASE CreateAccount
  BY <1>13 DEF CreateAccount
<1>14. CASE ProveSecond
  BY <1>14 DEF ProveSecond
<1>15. CASE SecondFails
  BY <1>15 DEF SecondFails
<1>16. CASE PrepareClears
  BY <1>16 DEF PrepareClears
<1>17. CASE Captures
  BY <1>17 DEF Captures
<1>18. CASE ClearTimer
  BY <1>18 DEF ClearTimer
<1>19. CASE Arm
  BY <1>19 DEF Arm
<1>20. CASE Render
  BY <1>20 DEF Render
<1>21. CASE Reload
  BY <1>21 DEF Reload
<1>22. CASE ProveAdmin
  BY <1>22 DEF ProveAdmin
<1>23. CASE AdminFails
  BY <1>23 DEF AdminFails
<1>24. CASE ProveRootDenied
  BY <1>24 DEF ProveRootDenied
<1>25. CASE RootNotDenied
  BY <1>25 DEF RootNotDenied
<1>26. CASE Cancel
  BY <1>26 DEF Cancel
<1>27. CASE CancelFails
  BY <1>27 DEF CancelFails
<1>28. CASE Cleanup
  BY <1>28 DEF Cleanup
<1>29. CASE RestoreFile
  BY <1>29 DEF RestoreFile
<1>30. CASE RestoreReload
  BY <1>30 DEF RestoreReload
<1>31. CASE Abort
  BY <1>31 DEF Abort
<1>32. CASE Reboot
  BY <1>32 DEF Reboot, Boots
<1>33. CASE UNCHANGED vars
  BY <1>33 DEF vars
<1> QED
  BY <1>1, <1>2, <1>3, <1>4, <1>5, <1>6, <1>7, <1>8, <1>9, <1>10, <1>11, <1>12,
     <1>13, <1>14, <1>15, <1>16, <1>17, <1>18, <1>19, <1>20, <1>21, <1>22, <1>23,
     <1>24, <1>25, <1>26, <1>27, <1>28, <1>29, <1>30, <1>31, <1>32, <1>33
     DEF Next, Phase3, Role, Timer

(***************************************************************************)
(* A configure run that printed [PASS] leaves the host hardened for good,  *)
(* whatever aborts, stalls, failed probes and reboots happened to it and   *)
(* to the runs before it: no timer of an earlier run is left to reopen     *)
(* root login, because the controlled reboot discards it.                  *)
(***************************************************************************)
THEOREM ConfigureIsFinal == Spec => []ConfigureStaysHardened
<1>1. Init => HardenedInv
  BY DEF Init, HardenedInv, Rebooted, Diagnosis, Ended, ConfigureStaysHardened
<1>2. TypeOK /\ HardenedInv /\ [Next]_vars => HardenedInv'
  BY HardenedStep
<1>3. HardenedInv => ConfigureStaysHardened
  BY DEF HardenedInv
<1> QED
  BY <1>1, <1>2, <1>3, TypeCorrect, PTL DEF Spec

(***************************************************************************)
(* What lets somebody in, and where it must be while only probes fail: in  *)
(* the capture, and on disk unless an armed timer will take it back.  The  *)
(* daemon runs what is on disk except between the two steps that change    *)
(* it.  A timer that outlived its run left a hardened daemon behind, so no *)
(* run bootstraps, and captures, while one is pending.                     *)
(***************************************************************************)
Safe == Admitting \cup {None}

Taking == {"account", "second", "prepare", "capture", "clear", "arm"}

BootInv == ~mishap =>
  /\ saved \in Safe
  /\ timer # "armed" => dropin \in Safe
  /\ pc \in Taking => timer = "off"
  /\ pc \in Window => timer = "armed"
  /\ pc # "reload" /\ timer # "restoring" => dropin = sshd
  /\ pc \in {"root", "cancel"} => sshd \in Safe
  /\ timer # "off" /\ pc \notin {"render", "reload"} => sshd # None
  /\ pc \in Taking \cup {"probe", "probeRoot", "render"} => wanted # None
  /\ pc = "reload" => dropin # None

(***************************************************************************)
(* Every step keeps it as long as nothing but a probe has failed.          *)
(***************************************************************************)
LEMMA BootStep ==
  ASSUME TypeOK, BootInv, [Next]_vars
  PROVE  BootInv'
<1> USE SshRollbackAssumption
    DEF TypeOK, BootInv, Safe, Taking, Steps, Window, Admin, Root, Diagnosed, Elapsed,
        Mishap, Moves, Succeeds, Quiet, Throws, host
<1>1. CASE \E t \in Targets, c \in Configs : StartRun(t, c)
  BY <1>1 DEF StartRun
<1>2. CASE ProbeAdmin
  BY <1>2 DEF ProbeAdmin
<1>3. CASE SkipBootstrap
  BY <1>3 DEF SkipBootstrap
<1>4. CASE NeedsBootstrap
  BY <1>4 DEF NeedsBootstrap
<1>5. CASE Unreachable
  BY <1>5 DEF Unreachable
<1>6. CASE AssertHardened
  BY <1>6 DEF AssertHardened, AssertAdmin, AssertRootDenied
<1>7. CASE NotHardened
  BY <1>7 DEF NotHardened
<1>8. CASE Converge
  BY <1>8 DEF Converge
<1>9. CASE ControlledReboot
  BY <1>9 DEF ControlledReboot, Boots
<1>10. CASE ProvesBoot
  BY <1>10 DEF ProvesBoot
<1>11. CASE FinalVerify
  BY <1>11 DEF FinalVerify
<1>12. CASE PlaybookFails
  BY <1>12 DEF PlaybookFails
<1>13. CASE CreateAccount
  BY <1>13 DEF CreateAccount
<1>14. CASE ProveSecond
  BY <1>14 DEF ProveSecond
<1>15. CASE SecondFails
  BY <1>15 DEF SecondFails
<1>16. CASE PrepareClears
  BY <1>16 DEF PrepareClears
<1>17. CASE Captures
  BY <1>17 DEF Captures
<1>18. CASE ClearTimer
  BY <1>18 DEF ClearTimer
<1>19. CASE Arm
  BY <1>19 DEF Arm
<1>20. CASE Render
  BY <1>20 DEF Render
<1>21. CASE Reload
  BY <1>21 DEF Reload
<1>22. CASE ProveAdmin
  BY <1>22 DEF ProveAdmin
<1>23. CASE AdminFails
  BY <1>23 DEF AdminFails
<1>24. CASE ProveRootDenied
  BY <1>24 DEF ProveRootDenied
<1>25. CASE RootNotDenied
  BY <1>25 DEF RootNotDenied
<1>26. CASE Cancel
  BY <1>26 DEF Cancel
<1>27. CASE CancelFails
  BY <1>27 DEF CancelFails
<1>28. CASE Cleanup
  BY <1>28 DEF Cleanup
<1>29. CASE RestoreFile
  BY <1>29 DEF RestoreFile
<1>30. CASE RestoreReload
  BY <1>30 DEF RestoreReload
<1>31. CASE Abort
  BY <1>31 DEF Abort
<1>32. CASE Reboot
  BY <1>32 DEF Reboot, Boots
<1>33. CASE UNCHANGED vars
  BY <1>33 DEF vars
<1> QED
  BY <1>1, <1>2, <1>3, <1>4, <1>5, <1>6, <1>7, <1>8, <1>9, <1>10, <1>11, <1>12,
     <1>13, <1>14, <1>15, <1>16, <1>17, <1>18, <1>19, <1>20, <1>21, <1>22, <1>23,
     <1>24, <1>25, <1>26, <1>27, <1>28, <1>29, <1>30, <1>31, <1>32, <1>33
     DEF Next, Phase3, Role, Timer

(***************************************************************************)
(* Without a timer to take it back, the drop-in on disk lets somebody in,  *)
(* as long as no task, controller or host died on the way.                 *)
(***************************************************************************)
THEOREM NextBootIsSafe == Spec => []NextBootAdmits
<1>1. Init => BootInv
  BY DEF Init, BootInv, Safe, Taking, Window
<1>2. TypeOK /\ BootInv /\ [Next]_vars => BootInv'
  BY BootStep
<1>3. BootInv => NextBootAdmits
  BY DEF BootInv, Safe, NextBootAdmits
<1> QED
  BY <1>1, <1>2, <1>3, TypeCorrect, PTL DEF Spec

------------------------------------------------------------------------------
\* The firewall of the same host

(***************************************************************************)
(* Up to the task that loads the new rules the administrator can get in: a *)
(* run starts on a reachable host, and only the timer (which restores an   *)
(* admitting capture, or nothing) interferes before the rules are loaded.  *)
(***************************************************************************)
FirewallEntered ==
  task \in {"rules", "unit", "block", "capture", "clear", "arm", "apply"} => Firewall!Reachable

FirewallInv ==
  Firewall!TypeOK /\ Firewall!RestoreTargetAdmits /\ FirewallEntered /\ Firewall!ProofStillStands

(***************************************************************************)
(* A host the role never ran on satisfies the invariant.                   *)
(***************************************************************************)
LEMMA FirewallInit ==
  ASSUME Firewall!Init
  PROVE  FirewallInv
<1> USE DEF Firewall!Init
<1>1. plays \in 0..MaxPlays
  BY HostFirewallAssumption, SMT DEF Firewall!FirewallRollbackAssumption
<1>2. changed \in BOOLEAN /\ unit \in BOOLEAN /\ service \in BOOLEAN /\ passed \in BOOLEAN
  BY Zenon
<1>3. Firewall!TypeOK
  BY <1>1, <1>2, Zenon DEF Firewall!TypeOK, Firewall!Tasks, Firewall!Window
<1> QED
  BY <1>3, SMT DEF FirewallInv, Firewall!RestoreTargetAdmits, FirewallEntered,
                   Firewall!ProofStillStands

(***************************************************************************)
(* Every task, the timer, an abort and a boot keep the invariant.          *)
(***************************************************************************)
LEMMA FirewallStep ==
  ASSUME FirewallInv, [Firewall!Next]_(Firewall!vars)
  PROVE  FirewallInv'
<1> USE HostFirewallAssumption DEF Firewall!FirewallRollbackAssumption, FirewallInv, Firewall!TypeOK,
    Firewall!RestoreTargetAdmits, FirewallEntered, Firewall!ProofStillStands,
    Firewall!Reachable, Firewall!Moves, Firewall!Tasks, Firewall!Window
<1>1. CASE \E r \in Rules : Firewall!StartRun(r)
  <2> PICK r \in Rules : Firewall!StartRun(r)
    BY <1>1
  <2>1. plays' \in 0..MaxPlays
    BY SMT DEF Firewall!StartRun
  <2>2. changed' \in BOOLEAN /\ unit' \in BOOLEAN /\ service' \in BOOLEAN /\ passed' \in BOOLEAN
    BY Zenon DEF Firewall!StartRun
  <2>3. Firewall!TypeOK'
    BY <2>1, <2>2, Zenon DEF Firewall!StartRun
  <2> QED
    BY <2>3, SMT DEF Firewall!StartRun
<1>2. CASE Firewall!RenderRules
  BY <1>2 DEF Firewall!RenderRules
<1>3. CASE Firewall!RenderUnit
  BY <1>3 DEF Firewall!RenderUnit
<1>4. CASE Firewall!SkipBlock
  BY <1>4 DEF Firewall!SkipBlock
<1>5. CASE Firewall!PrepareClears
  BY <1>5 DEF Firewall!PrepareClears
<1>6. CASE Firewall!Captures
  BY <1>6 DEF Firewall!Captures
<1>7. CASE Firewall!ClearTimer
  BY <1>7 DEF Firewall!ClearTimer
<1>8. CASE Firewall!Arm
  BY <1>8 DEF Firewall!Arm
<1>9. CASE Firewall!Apply
  BY <1>9 DEF Firewall!Apply
<1>10. CASE Firewall!Prove
  BY <1>10 DEF Firewall!Prove
<1>11. CASE Firewall!ProveFails
  BY <1>11 DEF Firewall!ProveFails
<1>12. CASE Firewall!Cancel
  BY <1>12 DEF Firewall!Cancel
<1>13. CASE Firewall!CancelFails
  BY <1>13 DEF Firewall!CancelFails
<1>14. CASE Firewall!Cleanup
  BY <1>14 DEF Firewall!Cleanup
<1>15. CASE Firewall!Enable
  BY <1>15 DEF Firewall!Enable
<1>16. CASE Firewall!RestoreBegins
  BY <1>16 DEF Firewall!RestoreBegins
<1>17. CASE Firewall!RestoreEnds
  BY <1>17 DEF Firewall!RestoreEnds
<1>18. CASE Firewall!Abort
  BY <1>18 DEF Firewall!Abort
<1>19. CASE Firewall!Reboot
  BY <1>19 DEF Firewall!Reboot
<1>20. CASE UNCHANGED Firewall!vars
  BY <1>20 DEF Firewall!vars
<1> QED
  BY <1>1, <1>2, <1>3, <1>4, <1>5, <1>6, <1>7, <1>8, <1>9, <1>10, <1>11, <1>12,
     <1>13, <1>14, <1>15, <1>16, <1>17, <1>18, <1>19, <1>20
     DEF Firewall!Next, Firewall!Run, Firewall!Timer

(***************************************************************************)
(* The invariant holds in every reachable state.                           *)
(***************************************************************************)
LEMMA FirewallInvariant == FirewallSpec => []FirewallInv
<1>1. Firewall!Init => FirewallInv
  BY FirewallInit
<1>2. FirewallInv /\ [Firewall!Next]_(Firewall!vars) => FirewallInv'
  BY FirewallStep
<1> QED
  BY <1>1, <1>2, PTL DEF FirewallSpec, Firewall!Spec

(***************************************************************************)
(* Type correctness of the role's state.                                   *)
(***************************************************************************)
THEOREM FirewallTypeCorrect == FirewallSpec => []FirewallTypeOK
BY FirewallInvariant, PTL DEF FirewallInv, FirewallTypeOK

(***************************************************************************)
(* phase3-firewall-rollback never holds a capture that would lock the      *)
(* administrator out.                                                      *)
(***************************************************************************)
THEOREM CaptureAdmits == FirewallSpec => []RestoreTargetAdmits
BY FirewallInvariant, PTL DEF FirewallInv, RestoreTargetAdmits

(***************************************************************************)
(* The role only cancels its timer on a host the administrator can enter,  *)
(* even when the timer fires in the middle of the block.                   *)
(***************************************************************************)
THEOREM CancelledOnlyWhenReachable == FirewallSpec => []ProofStillStands
BY FirewallInvariant, PTL DEF FirewallInv, ProofStillStands
===============================================================================
