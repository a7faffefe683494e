------------------------------ MODULE SshRollback ------------------------------
(***************************************************************************)
(* The SSH transition of one host: scripts/host/phase3.ps1 decides whether *)
(* the `access_bootstrap` role still has to run; the role proves the named *)
(* administrator, captures the hardening drop-in, arms a five-minute       *)
(* systemd timer, renders and reloads the new drop-in, proves it in fresh  *)
(* sessions and cancels the timer; phase3.ps1 then asserts hardened access *)
(* and reboots the host.  The operator may start either target again after *)
(* a run stopped anywhere, while the timer of an earlier run still ticks.  *)
(***************************************************************************)
EXTENDS Integers

CONSTANTS
  Configs,    \* hardening drop-ins the role may render
  Admitting,  \* those under which the administrator's key opens a session
  None,       \* no drop-in (the image's default: root by key), no capture
  Targets,    \* which of {"configure", "verify"} are invoked
  Faults,     \* which of FaultKinds happen
  MaxRuns     \* bound on the number of phase3.ps1 runs

FaultKinds ==
  { "abort",    \* a task fails or the controller dies between two steps
    "flake",    \* an ssh probe fails although sshd would have let it in
    "stall",    \* the controller pauses past the timer inside the role
    "reboot" }  \* the host restarts; /run and transient units are lost

ASSUME SshRollbackAssumption ==
  /\ Admitting \subseteq Configs
  /\ None \notin Configs
  /\ Targets \subseteq {"configure", "verify"}
  /\ Faults \subseteq FaultKinds
  /\ MaxRuns \in Nat

VARIABLES
  pc,       \* next step of the run
  target,   \* the target of the run
  seen,     \* $adminAccessible
  wanted,   \* the drop-in this run renders
  account,  \* platform-admin exists, with key and sudo
  dropin,   \* /etc/ssh/sshd_config.d/90-verda-platform.conf
  sshd,     \* the configuration the daemon has loaded
  saved,    \* /run/phase3-ssh-rollback.{present,conf}
  timer,    \* phase3-ssh-rollback.timer and .service
  ok,       \* the last run printed [PASS] and ended
  runs,     \* number of runs started
  mishap    \* history: something but a failing probe went wrong

host == <<account, dropin, sshd, saved, timer>>
vars == <<pc, target, seen, wanted, account, dropin, sshd, saved, timer, ok, runs, mishap>>

\* From the task that arms the timer to the one that cancels it.
Window == {"render", "reload", "admin", "root", "cancel"}

Steps == Window \cup
  { "probe", "probeRoot", "account", "second", "prepare", "capture", "clear", "arm",
    "cleanup", "assert", "assertRoot", "converge", "reboot", "booted", "final",
    "finalRoot", "verify" }

TypeOK ==
  /\ pc \in Steps \cup {"idle"}
  /\ target \in Targets \cup {None}
  /\ wanted \in Configs \cup {None}
  /\ dropin \in Configs \cup {None}
  /\ sshd \in Configs \cup {None}
  /\ saved \in Configs \cup {None}
  /\ timer \in {"off", "armed", "restoring"}
  /\ seen \in BOOLEAN /\ account \in BOOLEAN
  /\ ok \in BOOLEAN /\ mishap \in BOOLEAN
  /\ runs \in 0..MaxRuns

\* A host as the provider's image boots it.
Init ==
  /\ pc = "idle"
  /\ target = None
  /\ wanted = None /\ dropin = None /\ sshd = None /\ saved = None
  /\ seen = FALSE /\ account = FALSE /\ ok = FALSE /\ mishap = FALSE
  /\ timer = "off"
  /\ runs = 0

\* Test-AccountAccess and the ssh probes of the role.
Admin == account /\ sshd \in Admitting \cup {None}
Root == sshd = None
LockedOut == ~Admin /\ ~Root

Succeeds(access) == access
Fails(access) == ~access \/ "flake" \in Faults

Moves(from, to) == pc = from /\ pc' = to
Quiet == UNCHANGED <<target, seen, wanted, ok, runs, mishap>>
Throws(step) == Moves(step, "idle") /\ Quiet /\ UNCHANGED host

------------------------------------------------------------------------------
\* phase3.ps1: selection of the hosts to bootstrap

StartRun(t, c) ==
  /\ runs < MaxRuns
  /\ Moves("idle", IF t = "configure" THEN "probe" ELSE "final")
  /\ target' = t
  /\ wanted' = c
  /\ seen' = FALSE
  /\ ok' = FALSE
  /\ runs' = runs + 1
  /\ UNCHANGED mishap /\ UNCHANGED host

ProbeAdmin ==
  /\ Moves("probe", "probeRoot")
  /\ \/ Succeeds(Admin) /\ seen' = TRUE
     \/ Fails(Admin) /\ seen' = FALSE
  /\ UNCHANGED <<target, wanted, ok, runs, mishap>> /\ UNCHANGED host

\* Already hardened: the role, and with it any pending timer, is left alone.
SkipBootstrap ==
  /\ seen /\ Fails(Root)
  /\ Moves("probeRoot", "assert")
  /\ Quiet /\ UNCHANGED host

NeedsBootstrap ==
  /\ Succeeds(Root)
  /\ Moves("probeRoot", "account")
  /\ Quiet /\ UNCHANGED host

Unreachable == ~seen /\ Fails(Root) /\ Throws("probeRoot")

------------------------------------------------------------------------------
\* The access_bootstrap role

CreateAccount ==
  /\ Moves("account", "second")
  /\ account' = TRUE
  /\ Quiet /\ UNCHANGED <<dropin, sshd, saved, timer>>

ProveSecond ==
  /\ Succeeds(Admin)
  /\ Moves("second", "prepare")
  /\ Quiet /\ UNCHANGED host

SecondFails == Fails(Admin) /\ Throws("second")

PrepareClears ==
  /\ Moves("prepare", "capture")
  /\ saved' = None
  /\ Quiet /\ UNCHANGED <<account, dropin, sshd, timer>>

Captures ==
  /\ Moves("capture", "clear")
  /\ saved' = dropin
  /\ Quiet /\ UNCHANGED <<account, dropin, sshd, timer>>

\* Stops timer and service of an earlier run; a restore under way is killed.
ClearTimer ==
  /\ Moves("clear", "arm")
  /\ timer' = "off"
  /\ Quiet /\ UNCHANGED <<account, dropin, sshd, saved>>

Arm ==
  /\ Moves("arm", "render")
  /\ timer' = "armed"
  /\ Quiet /\ UNCHANGED <<account, dropin, sshd, saved>>

Render ==
  /\ Moves("render", "reload")
  /\ dropin' = wanted
  /\ Quiet /\ UNCHANGED <<account, sshd, saved, timer>>

Reload ==
  /\ Moves("reload", "admin")
  /\ sshd' = dropin
  /\ Quiet /\ UNCHANGED <<account, dropin, saved, timer>>

\* Mutant: the outcome of the fresh session is ignored.
ProveAdminIgnored ==
  /\ Moves("admin", "root")
  /\ Quiet /\ UNCHANGED host

ProveAdmin ==
  /\ Succeeds(Admin)
  /\ Moves("admin", "root")
  /\ Quiet /\ UNCHANGED host

AdminFails == Fails(Admin) /\ Throws("admin")

\* failed_when: rc == 0: any failure of the probe counts as a denial.
ProveRootDenied ==
  /\ Fails(Root)
  /\ Moves("root", "cancel")
  /\ Quiet /\ UNCHANGED host

RootNotDenied == Succeeds(Root) /\ Throws("root")

\* Stopping the timer does not stop a restore service it already started.
Cancel ==
  /\ timer # "off"
  /\ Moves("cancel", "cleanup")
  /\ timer' = IF timer = "armed" THEN "off" ELSE timer
  /\ Quiet /\ UNCHANGED <<account, dropin, sshd, saved>>

CancelFails == timer = "off" /\ Throws("cancel")

Cleanup ==
  /\ Moves("cleanup", "assert")
  /\ saved' = None
  /\ Quiet /\ UNCHANGED <<account, dropin, sshd, timer>>
------------------------------------------------------------------------------
\* phase3.ps1: Assert-HardenedAccess, playbooks, reboot

AssertAdmin(step, next) ==
  /\ Succeeds(Admin)
  /\ Moves(step, next)
  /\ Quiet /\ UNCHANGED host

AssertRootDenied(step, next) ==
  /\ Fails(Root)
  /\ Moves(step, next)
  /\ Quiet /\ UNCHANGED host

AssertHardened ==
  \/ AssertAdmin("assert", "assertRoot")
  \/ AssertRootDenied("assertRoot", "converge")
  \/ AssertAdmin("final", "finalRoot")
  \/ AssertRootDenied("finalRoot", "verify")

NotHardened ==
  \/ \E step \in {"assert", "final"} : Fails(Admin) /\ Throws(step)
  \/ \E step \in {"assertRoot", "finalRoot"} : Succeeds(Root) /\ Throws(step)

\* verify-hosts.yml reads the configuration on disk through an admin session.
Diagnosed == Admin /\ dropin # None

\* The playbooks of the first and second run, which may take any time.
Converge ==
  /\ Succeeds(Diagnosed)
  /\ Moves("converge", "reboot")
  /\ Quiet /\ UNCHANGED host

Boots ==
  /\ sshd' = dropin
  /\ saved' = None
  /\ timer' = "off"
  /\ UNCHANGED <<account, dropin>>

\* Mutant: the boot identity is not compared; the host answers before it goes down.
ControlledRebootUnproven ==
  /\ Succeeds(Admin)
  /\ Moves("reboot", "booted")
  /\ Quiet /\ UNCHANGED host

\* Restart-NodeSerially asks the host over ssh to reboot ...
ControlledReboot ==
  /\ Succeeds(Admin)
  /\ Moves("reboot", "booted")
  /\ Boots
  /\ Quiet

\* ... and waits for the administrator, then for verify-hosts.yml.
ProvesBoot ==
  /\ Succeeds(Diagnosed)
  /\ Moves("booted", "final")
  /\ Quiet /\ UNCHANGED host

FinalVerify ==
  /\ Succeeds(Diagnosed)
  /\ Moves("verify", "idle")
  /\ ok' = TRUE
  /\ UNCHANGED <<target, seen, wanted, runs, mishap>> /\ UNCHANGED host

PlaybookFails ==
  \/ \E step \in {"converge", "booted", "verify"} : Fails(Diagnosed) /\ Throws(step)
  \/ Fails(Admin) /\ Throws("reboot")

Phase3 == \/ ProbeAdmin \/ SkipBootstrap \/ NeedsBootstrap \/ Unreachable
          \/ AssertHardened \/ NotHardened \/ Converge \/ ControlledReboot
          \/ ProvesBoot \/ FinalVerify \/ PlaybookFails

Role == \/ CreateAccount \/ ProveSecond \/ SecondFails \/ PrepareClears \/ Captures
        \/ ClearTimer \/ Arm \/ Render \/ Reload \/ ProveAdmin \/ AdminFails
        \/ ProveRootDenied \/ RootNotDenied \/ Cancel \/ CancelFails \/ Cleanup

------------------------------------------------------------------------------
\* The role takes far less than five minutes unless the controller stalls.
Elapsed == pc \notin Window \/ "stall" \in Faults

\* The run's own variables, when something other than a probe goes wrong.
Mishap == mishap' = TRUE /\ UNCHANGED <<target, seen, wanted, ok, runs>>

\* `restore` puts the captured drop-in back, or removes the drop-in ...
RestoreFile ==
  /\ timer = "armed" /\ Elapsed
  /\ timer' = "restoring"
  /\ dropin' = saved
  /\ IF pc \in Window THEN Mishap ELSE Quiet
  /\ UNCHANGED <<pc, account, sshd, saved>>

\* Mutant: the daemon is not reloaded.
RestoreReloadMissing ==
  /\ timer = "restoring"
  /\ timer' = "off"
  /\ UNCHANGED <<pc, account, dropin, sshd, saved>> /\ Quiet

\* ... and reloads sshd.
RestoreReload ==
  /\ timer = "restoring"
  /\ timer' = "off"
  /\ sshd' = dropin
  /\ UNCHANGED <<pc, account, dropin, saved>> /\ Quiet

Timer == RestoreFile \/ RestoreReload

Abort ==
  /\ "abort" \in Faults
  /\ \E step \in Steps : Moves(step, "idle")
  /\ Mishap /\ UNCHANGED host

Reboot ==
  /\ "reboot" \in Faults
  /\ pc' = "idle"
  /\ Boots
  /\ Mishap

Next == \/ \E t \in Targets, c \in Configs : StartRun(t, c)
        \/ Phase3 \/ Role \/ Timer \/ Abort \/ Reboot

Spec == Init /\ [][Next]_vars

\* Every step of a run is bounded (ConnectTimeout, waits of five minutes), and
\* systemd runs an armed timer and the service it starts.
FairSpec == Spec /\ WF_vars(Phase3 \/ Role) /\ WF_vars(Timer)

------------------------------------------------------------------------------
(***************************************************************************)
(* "Apply firewall and SSH transitions with five-minute automatic          *)
(* recovery" (ADR 0013): a host that lets nobody in recovers by itself.    *)
(***************************************************************************)
LockoutIsRolledBack == LockedOut ~> ~LockedOut

(***************************************************************************)
(* ... which it does, from every lockout that failing probes and repeated  *)
(* runs lead to, as long as nothing else goes wrong.                       *)
(***************************************************************************)
ProbeLockoutIsRolledBack == LockedOut /\ ~mishap ~> ~LockedOut \/ mishap

(***************************************************************************)
(* The drop-in an unplanned boot would load lets somebody in whenever no   *)
(* timer is left to take it back, whatever failed runs, skipped roles and  *)
(* half-done restores led there.                                           *)
(***************************************************************************)
NextBootAdmits ==
  ~mishap /\ timer = "off" => dropin \in Admitting \cup {None}

Hardened == sshd \in Admitting /\ dropin = sshd /\ timer = "off"

(***************************************************************************)
(* "root and password-only SSH are denied" (phase3.ps1:318): what a        *)
(* successful `configure` run asserted still holds when it has ended, and  *)
(* no timer of an earlier run takes it back, whatever aborts, stalls,      *)
(* failed probes and unplanned reboots happened before.  (Of `verify` this *)
(* is not true: it asserts the same while a timer may be pending.)         *)
(***************************************************************************)
ConfigureStaysHardened == ok /\ target = "configure" => Hardened
==============================================================================
