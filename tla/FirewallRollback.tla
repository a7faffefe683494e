--------------------------- MODULE FirewallRollback ---------------------------
(***************************************************************************)
(* The `firewall` role of infra/ansible on one host: rules and service     *)
(* unit are rendered, then, only if a file changed, the live nftables      *)
(* table is captured, a five-minute systemd timer is armed to restore it,  *)
(* the new rules are loaded, a fresh administrator session is proved and   *)
(* the timer is cancelled.  The playbook run, the timer and the host's own *)
(* boot interleave; the tasks of a run are separate steps, and a run may   *)
(* be repeated after it stopped at any of them.                            *)
(***************************************************************************)
EXTENDS Integers

CONSTANTS
  Rules,      \* rule sets an operator may ask for
  Admitting,  \* those that let an administrator open a fresh session
  None,       \* no table, no file, no capture
  Faults,     \* which of FaultKinds happen
  MaxRuns     \* bound on the number of playbook runs

FaultKinds ==
  { "abort",    \* a task fails or the controller dies between two tasks
    "flake",    \* the fresh session fails although the rules admit it
    "stall",    \* the controller pauses past the timer inside the block
    "reboot" }  \* the host restarts; /run and transient units are lost

\* Assumed where the constants are given values or names (HostFirewall).
FirewallRollbackAssumption ==
  /\ Admitting \subseteq Rules
  /\ None \notin Rules
  /\ Faults \subseteq FaultKinds
  /\ MaxRuns \in Nat

VARIABLES
  pc,       \* next task of the run
  wanted,   \* the rules of the run's inventory
  changed,  \* firewall_rules.changed or firewall_service.changed
  file,     \* /etc/nftables.d/90-verda-platform.nft
  unit,     \* verda-platform-firewall.service is installed
  service,  \* ... and enabled and active (RemainAfterExit)
  live,     \* table inet verda_platform
  saved,    \* /run/phase3-firewall-rollback.{present,nft}
  timer,    \* phase3-firewall-rollback.timer and .service
  ok,       \* the last run ended successfully
  runs      \* number of runs started

vars == <<pc, wanted, changed, file, unit, service, live, saved, timer, ok, runs>>

\* From the task that arms the timer to the one that cancels it.
Window == {"apply", "prove", "cancel"}

Tasks == Window \cup {"rules", "unit", "block", "capture", "clear", "arm", "cleanup", "enable"}

TypeOK ==
  /\ pc \in Tasks \cup {"idle"}
  /\ wanted \in Rules \cup {None}
  /\ file \in Rules \cup {None}
  /\ live \in Rules \cup {None}
  /\ saved \in Rules \cup {None}
  /\ timer \in {"off", "armed", "restoring"}
  /\ changed \in BOOLEAN /\ unit \in BOOLEAN /\ service \in BOOLEAN /\ ok \in BOOLEAN
  /\ runs \in 0..MaxRuns

\* A host the role has never run on; sshd is reachable by default.
Init ==
  /\ pc = "idle"
  /\ wanted = None /\ file = None /\ live = None /\ saved = None
  /\ changed = FALSE /\ unit = FALSE /\ service = FALSE /\ ok = FALSE
  /\ timer = "off"
  /\ runs = 0

Reachable == live = None \/ live \in Admitting
LockedOut == ~Reachable

Moves(from, to) == pc = from /\ pc' = to

------------------------------------------------------------------------------
\* Every run opens fresh connections: a locked-out host cannot be configured.
StartRun(r) ==
  /\ runs < MaxRuns
  /\ Reachable
  /\ Moves("idle", "rules")
  /\ wanted' = r
  /\ changed' = FALSE
  /\ ok' = FALSE
  /\ runs' = runs + 1
  /\ UNCHANGED <<file, unit, service, live, saved, timer>>

RenderRules ==
  /\ Moves("rules", "unit")
  /\ file' = wanted
  /\ changed' = (file # wanted)
  /\ UNCHANGED <<wanted, unit, service, live, saved, timer, ok, runs>>

RenderUnit ==
  /\ Moves("unit", "block")
  /\ unit' = TRUE
  /\ changed' = (changed \/ ~unit)
  /\ UNCHANGED <<wanted, file, service, live, saved, timer, ok, runs>>

\* when: firewall_rules.changed or firewall_service.changed
SkipBlock ==
  /\ ~changed
  /\ Moves("block", "enable")
  /\ UNCHANGED <<wanted, changed, file, unit, service, live, saved, timer, ok, runs>>

\* `prepare` removes the old capture ...
PrepareClears ==
  /\ changed
  /\ Moves("block", "capture")
  /\ saved' = None
  /\ UNCHANGED <<wanted, changed, file, unit, service, live, timer, ok, runs>>

\* Mutant: the capture is taken from the rendered file.
CapturesFile ==
  /\ Moves("capture", "clear")
  /\ saved' = file
  /\ UNCHANGED <<wanted, changed, file, unit, service, live, timer, ok, runs>>

\* ... and captures the live table, if there is one.
Captures ==
  /\ Moves("capture", "clear")
  /\ saved' = live
  /\ UNCHANGED <<wanted, changed, file, unit, service, live, timer, ok, runs>>

\* Stops timer and service of an earlier run; a restore under way is killed.
ClearTimer ==
  /\ Moves("clear", "arm")
  /\ timer' = "off"
  /\ UNCHANGED <<wanted, changed, file, unit, service, live, saved, ok, runs>>

Arm ==
  /\ Moves("arm", "apply")
  /\ timer' = "armed"
  /\ UNCHANGED <<wanted, changed, file, unit, service, live, saved, ok, runs>>

\* verda-firewall-apply; established connections survive the new rules.
Apply ==
  /\ Moves("apply", "prove")
  /\ live' = file
  /\ UNCHANGED <<wanted, changed, file, unit, service, saved, timer, ok, runs>>

\* Mutant: any outcome of the fresh session is accepted.
ProveNothing ==
  /\ Moves("prove", "cancel")
  /\ UNCHANGED <<wanted, changed, file, unit, service, live, saved, timer, ok, runs>>

\* A fresh session that lists the table.
Prove ==
  /\ live \in Admitting
  /\ Moves("prove", "cancel")
  /\ UNCHANGED <<wanted, changed, file, unit, service, live, saved, timer, ok, runs>>

ProveFails ==
  /\ live \notin Admitting \/ "flake" \in Faults
  /\ Moves("prove", "idle")
  /\ UNCHANGED <<wanted, changed, file, unit, service, live, saved, timer, ok, runs>>

\* Stopping the timer does not stop a restore service it already started.
Cancel ==
  /\ timer # "off"
  /\ Moves("cancel", "cleanup")
  /\ timer' = IF timer = "armed" THEN "off" ELSE timer
  /\ UNCHANGED <<wanted, changed, file, unit, service, live, saved, ok, runs>>

\* The transient timer elapsed and was unloaded: systemctl stop fails.
CancelFails ==
  /\ timer = "off"
  /\ Moves("cancel", "idle")
  /\ UNCHANGED <<wanted, changed, file, unit, service, live, saved, timer, ok, runs>>

Cleanup ==
  /\ Moves("cleanup", "enable")
  /\ saved' = None
  /\ UNCHANGED <<wanted, changed, file, unit, service, live, timer, ok, runs>>

\* `state: started` loads the file only when the service is not yet active.
Enable ==
  /\ Moves("enable", "idle")
  /\ live' = IF service THEN live ELSE file
  /\ service' = TRUE
  /\ ok' = TRUE
  /\ UNCHANGED <<wanted, changed, file, unit, saved, timer, runs>>

Run == \/ RenderRules \/ RenderUnit \/ SkipBlock \/ PrepareClears \/ Captures
       \/ ClearTimer \/ Arm \/ Apply \/ Prove \/ ProveFails \/ Cancel
       \/ CancelFails \/ Cleanup \/ Enable

------------------------------------------------------------------------------
\* The block takes far less than five minutes unless the controller stalls.
Elapsed == pc \notin Window \/ "stall" \in Faults

\* Mutant: the capture is loaded over the table without deleting it first.
RestoreBeginsLoading ==
  /\ timer = "armed" /\ Elapsed
  /\ timer' = "restoring"
  /\ UNCHANGED <<pc, wanted, changed, file, unit, service, live, saved, ok, runs>>

\* `restore` deletes the table ...
RestoreBegins ==
  /\ timer = "armed" /\ Elapsed
  /\ timer' = "restoring"
  /\ live' = None
  /\ UNCHANGED <<pc, wanted, changed, file, unit, service, saved, ok, runs>>

\* ... and loads the capture, if there is one.
RestoreEnds ==
  /\ timer = "restoring"
  /\ timer' = "off"
  /\ live' = IF saved = None THEN live ELSE saved
  /\ UNCHANGED <<pc, wanted, changed, file, unit, service, saved, ok, runs>>

Timer == RestoreBegins \/ RestoreEnds

Abort ==
  /\ "abort" \in Faults
  /\ pc \in Tasks
  /\ pc' = "idle"
  /\ UNCHANGED <<wanted, changed, file, unit, service, live, saved, timer, ok, runs>>

\* The enabled service loads the file at boot; nothing guards that.
Reboot ==
  /\ "reboot" \in Faults
  /\ pc' = "idle"
  /\ live' = IF service THEN file ELSE None
  /\ saved' = None
  /\ timer' = "off"
  /\ UNCHANGED <<wanted, changed, file, unit, service, ok, runs>>

Next == (\E r \in Rules : StartRun(r)) \/ Run \/ Timer \/ Abort \/ Reboot

Spec == Init /\ [][Next]_vars

\* Every task of a run is bounded (ConnectTimeout), and systemd runs an armed
\* timer and the service it starts.
FairSpec == Spec /\ WF_vars(Run) /\ WF_vars(Timer)

------------------------------------------------------------------------------
(***************************************************************************)
(* What the timer would restore is always a state the administrator can    *)
(* get into, whatever run, stop, flake, boot or earlier timer came before  *)
(* the capture.                                                            *)
(***************************************************************************)
RestoreTargetAdmits == saved # None => saved \in Admitting

(***************************************************************************)
(* The timer is only cancelled over rules that admit a fresh session, and  *)
(* stays so until the end of the run although a restore may still be       *)
(* running beside it.                                                      *)
(***************************************************************************)
ProofStillStands ==
  pc \in {"cancel", "cleanup"} \/ (pc = "enable" /\ changed) => Reachable

\* What a boot leaves: no run, no capture, no timer, the rules it loads.
Booted ==
  /\ pc = "idle" /\ saved = None /\ timer = "off"
  /\ live = IF service THEN file ELSE None

(***************************************************************************)
(* A lockout with an armed timer ends, whether the block caused it or a    *)
(* later run that skipped the block and started the service, unless the    *)
(* host is booted first.                                                   *)
(***************************************************************************)
GuardedLockoutEnds == (LockedOut /\ timer = "armed") ~> (Reachable \/ Booted)

(***************************************************************************)
(* "Apply firewall and SSH transitions with five-minute automatic          *)
(* recovery" (ADR 0013): every lockout ends.                               *)
(***************************************************************************)
LockoutIsRolledBack == LockedOut ~> Reachable
==============================================================================
