----------------------------- MODULE SealedState -----------------------------
(***************************************************************************)
(* The protected Terraform-state boundary of scripts/infra/phase2.ps1 on   *)
(* its Windows operator host.  Between runs the state file is DPAPI-sealed *)
(* (<state>.dpapi); a run takes a named OS mutex, decrypts the state to    *)
(* plaintext, lets Terraform read and rewrite it, and reseals it in a      *)
(* `finally` block.  Every file operation is a step of its own, so that a  *)
(* killed process, a failing command or a short write can fall between any *)
(* two of them.                                                            *)
(*                                                                         *)
(* Terraform (external) rewrites the plaintext atomically.  Its content is *)
(* abstracted to a version number: version n is what the n-th write left,  *)
(* and only version `latest` describes the cloud as it is.                 *)
(***************************************************************************)
EXTENDS Integers

CONSTANTS
  Procs,       \* operator invocations of phase2.ps1, reusable
  NoProc,
  Absent,      \* file content: the file does not exist
  Empty,       \* file content: created or truncated, no byte written yet
  Torn,        \* file content: some, not all, of the bytes
  Faults,      \* which of FaultKinds the environment may inject
  MaxVersion   \* bound on the number of Terraform writes

FaultKinds ==
  { "crash",   \* the process, with its Terraform child, is killed
    "torn",    \* Open-SealedState's WriteAllBytes is cut short
    "io",      \* a file operation of Close-SealedState throws or writes badly
    "fail" }   \* a precondition, check, backup or Terraform command fails

ASSUME SealedStateAssumption ==
  /\ NoProc \notin Procs
  /\ Faults \subseteq FaultKinds
  /\ MaxVersion \in Nat
  /\ {Absent, Empty, Torn} \cap Nat = {}
  /\ Absent # Empty /\ Absent # Torn /\ Empty # Torn

Versions == Nat \ {0}
Content  == Versions \cup {Absent, Empty, Torn}

\* Close-SealedState seals the state and then Terraform's own <state>.backup.
Files == {"state", "backup"}

(***************************************************************************)
(* The targets, one per distinct control path: `inventory` stands for the  *)
(* generic targets that never write state (init, plan, verify-hosts,       *)
(* lifecycle-check, cost-report); `apply` for apply and destroy;           *)
(* `phase6-resize-state` for the four phase6 targets.                      *)
(***************************************************************************)
RepairTargets  == {"repair-node-02-plan", "repair-node-02-apply"}
WritingTargets == {"apply"} \cup RepairTargets
Phase6Targets  == {"phase6-resize-state"}
Targets == {"inventory", "state-audit"} \cup WritingTargets \cup Phase6Targets

VARIABLES
  lease,       \* owner of the named mutex
  pc,          \* where each invocation stands
  target,
  admitted,    \* $genericStateBoundaryAdmitted
  opened,      \* Open-SealedState returned ($phase6StateOpened)
  file,        \* $plaintextPath of the loop in Close-SealedState
  bytes,       \* $bytes / $plaintext: what the process last read
  plain,       \* <state> and <state>.backup
  sealed,      \* <file>.dpapi
  fresh,       \* <file>.dpapi.new
  backups,     \* contents of the checksummed independent backups
  latest,      \* history: number of Terraform writes so far
  interrupted, \* history: a crash or a throwing file operation left plaintext
  cut          \* history: a write of Open-SealedState was cut short

files  == <<plain, sealed, fresh, backups>>
locals == <<target, admitted, opened, file, bytes>>
history == <<latest, interrupted, cut>>
vars   == <<lease, pc, locals, files, history>>

Outside   == {"idle", "lease"}
Entering  == {"admit", "prepare", "open"}
Working   == {"ready", "before", "terraform", "after"}
Closing   == {"close", "sealing", "verify", "remove"}
Inside    == Entering \cup {"opening"} \cup Working \cup {"finally"}
                      \cup Closing \cup {"release"}
Labels    == Outside \cup Inside

TypeOK ==
  /\ lease \in Procs \cup {NoProc}
  /\ pc \in [Procs -> Labels]
  /\ target \in [Procs -> Targets]
  /\ admitted \in [Procs -> BOOLEAN]
  /\ opened \in [Procs -> BOOLEAN]
  /\ file \in [Procs -> Files]
  /\ bytes \in [Procs -> Content]
  /\ plain \in [Files -> Content]
  /\ sealed \in [Files -> Content]
  /\ fresh \in [Files -> Content]
  /\ backups \subseteq Content
  /\ latest \in Nat
  /\ interrupted \in BOOLEAN /\ cut \in BOOLEAN

\* The boundary before the first apply: no state file of any kind.
Init ==
  /\ lease = NoProc
  /\ pc = [p \in Procs |-> "idle"]
  /\ target = [p \in Procs |-> "inventory"]
  /\ admitted = [p \in Procs |-> FALSE]
  /\ opened = [p \in Procs |-> FALSE]
  /\ file = [p \in Procs |-> "state"]
  /\ bytes = [p \in Procs |-> Absent]
  /\ plain = [f \in Files |-> Absent]
  /\ sealed = [f \in Files |-> Absent]
  /\ fresh = [f \in Files |-> Absent]
  /\ backups = {}
  /\ latest = 0
  /\ interrupted = FALSE /\ cut = FALSE

Goto(p, label) == pc' = [pc EXCEPT ![p] = label]
At(p, label)   == pc[p] = label
Moves(p, from, to) == At(p, from) /\ Goto(p, to)
\* The process is gone, and with it what it held in memory.
Gone(p) ==
  /\ Goto(p, "idle")
  /\ target' = [target EXCEPT ![p] = "inventory"]
  /\ admitted' = [admitted EXCEPT ![p] = FALSE]
  /\ opened' = [opened EXCEPT ![p] = FALSE]
  /\ file' = [file EXCEPT ![p] = "state"]
  /\ bytes' = [bytes EXCEPT ![p] = Absent]

PlaintextLeft(content) == \E f \in Files : content[f] # Absent

------------------------------------------------------------------------------
(* Entry: parameters, the mutex, the Phase 6 journal. *)

Start(p) ==
  /\ Moves(p, "idle", "lease")
  /\ UNCHANGED <<lease, locals, files, history>>

\* Mutant: the result of WaitOne(0) is ignored.
EnterLeaseUnchecked(p, t) ==
  /\ Moves(p, "lease", "admit")
  /\ lease' = p
  /\ target' = [target EXCEPT ![p] = t]
  /\ UNCHANGED <<admitted, opened, file, bytes, files, history>>

\* WaitOne(0) succeeds, or finds the mutex abandoned by a killed owner.  Nothing
\* depends on the target the script was started with before this point.
EnterLease(p, t) ==
  /\ lease = NoProc
  /\ Moves(p, "lease", "admit")
  /\ lease' = p
  /\ target' = [target EXCEPT ![p] = t]
  /\ UNCHANGED <<admitted, opened, file, bytes, files, history>>

\* Mutant: WaitOne() without a timeout.
RefuseLeaseWaits(p) ==
  /\ lease # NoProc
  /\ At(p, "lease")
  /\ UNCHANGED vars

\* Another Phase 2 process holds the mutex: throw; `finally` has nothing to do.
RefuseLease(p) ==
  /\ lease # NoProc
  /\ At(p, "lease")
  /\ Gone(p)
  /\ UNCHANGED <<lease, files, history>>

\* Generic targets first prove that no Phase 6 operation is incomplete.
Admit(p) ==
  /\ Moves(p, "admit", "prepare")
  /\ admitted' = [admitted EXCEPT ![p] = target[p] \notin Phase6Targets]
  /\ UNCHANGED <<lease, target, opened, file, bytes, files, history>>

\* Assert-NoActivePhase6MutationJournal throws before the admission flag is set.
RefuseJournal(p) ==
  /\ "fail" \in Faults
  /\ target[p] \notin Phase6Targets
  /\ Moves(p, "admit", "finally")
  /\ UNCHANGED <<lease, locals, files, history>>

------------------------------------------------------------------------------
(* The target's own preamble and Open-SealedState. *)

\* Assert-Credentials, the destructive confirmation, Initialize-LocalBoundary.
Prepare(p) ==
  /\ Moves(p, "prepare", "open")
  /\ UNCHANGED <<lease, locals, files, history>>

PrepareFails(p) ==
  /\ "fail" \in Faults
  /\ Moves(p, "prepare", "finally")
  /\ UNCHANGED <<lease, locals, files, history>>

OpenRefuses(p) ==
  /\ sealed["state"] # Absent
  /\ plain["state"] # Absent
  /\ Moves(p, "open", "finally")
  /\ UNCHANGED <<lease, locals, files, history>>

\* Mutant: the existing sealed file is not looked for.
OpenNothingUnsealed(p) ==
  /\ Moves(p, "open", "ready")
  /\ opened' = [opened EXCEPT ![p] = TRUE]
  /\ UNCHANGED <<lease, target, admitted, file, bytes, files, history>>

OpenNothing(p) ==
  /\ sealed["state"] = Absent
  /\ Moves(p, "open", "ready")
  /\ opened' = [opened EXCEPT ![p] = TRUE]
  /\ UNCHANGED <<lease, target, admitted, file, bytes, files, history>>

\* Read and decrypt the sealed file; WriteAllBytes creates the plaintext.
OpenBegins(p) ==
  /\ sealed["state"] # Absent
  /\ plain["state"] = Absent
  /\ Moves(p, "open", "opening")
  /\ bytes' = [bytes EXCEPT ![p] = sealed["state"]]
  /\ plain' = [plain EXCEPT !["state"] = Empty]
  /\ UNCHANGED <<lease, target, admitted, opened, file, sealed, fresh, backups,
                 history>>

OpenWrites(p) ==
  /\ Moves(p, "opening", "ready")
  /\ plain' = [plain EXCEPT !["state"] = bytes[p]]
  /\ opened' = [opened EXCEPT ![p] = TRUE]
  /\ UNCHANGED <<lease, target, admitted, file, bytes, sealed, fresh, backups,
                 history>>

\* WriteAllBytes throws: the sealed file stays, a partial plaintext is left.
OpenWriteThrows(p) ==
  /\ "torn" \in Faults
  /\ Moves(p, "opening", "finally")
  /\ \E c \in {Empty, Torn} : plain' = [plain EXCEPT !["state"] = c]
  /\ interrupted' = TRUE /\ cut' = TRUE
  /\ UNCHANGED <<lease, locals, sealed, fresh, backups, latest>>

------------------------------------------------------------------------------
(* The body of the target: live contract, Terraform, backups. *)

\* `terraform init` reads the state file and rejects one it cannot parse.
Ready(p) ==
  /\ plain["state"] # Torn
  /\ Moves(p, "ready", IF target[p] \in RepairTargets THEN "before" ELSE "terraform")
  /\ UNCHANGED <<lease, locals, files, history>>

ReadyFails(p) ==
  /\ plain["state"] = Torn \/ "fail" \in Faults
  /\ Moves(p, "ready", "finally")
  /\ UNCHANGED <<lease, locals, files, history>>

(***************************************************************************)
(* One state write by Terraform: an apply step, a destroy step or one      *)
(* `untaint`.  A missing or empty file is an empty state to Terraform.     *)
(* The previous content may be kept in <state>.backup.                     *)
(***************************************************************************)
TerraformWrites(p) ==
  /\ At(p, "terraform")
  /\ target[p] \in WritingTargets
  /\ plain["state"] # Torn
  /\ latest < MaxVersion
  /\ latest' = latest + 1
  /\ \E b \in {plain["backup"], plain["state"]} :
       plain' = [plain EXCEPT !["state"] = latest + 1, !["backup"] = b]
  /\ UNCHANGED <<lease, pc, locals, sealed, fresh, backups, interrupted, cut>>

TerraformDone(p) ==
  /\ Moves(p, "terraform", IF target[p] \in WritingTargets \cup {"state-audit"}
                           THEN "after" ELSE "finally")
  /\ UNCHANGED <<lease, locals, files, history>>

\* Only repair-node-02-apply backs up in a `finally`, and only existing state.
AfterFailure(p) ==
  IF target[p] = "repair-node-02-apply" /\ plain["state"] # Absent
    THEN "after" ELSE "finally"

TerraformFails(p) ==
  /\ "fail" \in Faults
  /\ Moves(p, "terraform", AfterFailure(p))
  /\ UNCHANGED <<lease, locals, files, history>>

BackupState(p) ==
  /\ plain["state"] # Absent
  /\ \/ Moves(p, "before", "terraform")
     \/ Moves(p, "after", "finally")
  /\ backups' = backups \cup {plain["state"]}
  /\ UNCHANGED <<lease, locals, plain, sealed, fresh, history>>

\* No state to back up, or a cut-short file that never gets its checksum.
BackupThrows(p) ==
  /\ plain["state"] = Absent \/ "fail" \in Faults
  /\ \/ Moves(p, "before", AfterFailure(p))
     \/ Moves(p, "after", "finally")
  /\ UNCHANGED <<lease, locals, files, history>>

------------------------------------------------------------------------------
(* The outer `finally`: Close-SealedState, then the lease. *)

\* Mutant: only admitted generic targets reseal.
FinallyGenericOnly(p) ==
  /\ Moves(p, "finally", IF admitted[p] THEN "close" ELSE "release")
  /\ UNCHANGED <<lease, locals, files, history>>

Finally(p) ==
  /\ Moves(p, "finally",
           IF admitted[p] \/ (target[p] \in Phase6Targets /\ opened[p])
             THEN "close" ELSE "release")
  /\ UNCHANGED <<lease, locals, files, history>>

\* The loop of Close-SealedState advances to the next file, or ends.
NextFile(p) ==
  /\ Goto(p, IF file[p] = "state" THEN "close" ELSE "release")
  /\ file' = [file EXCEPT ![p] = "backup"]

CloseSkips(p) ==
  /\ At(p, "close")
  /\ plain[file[p]] = Absent
  /\ NextFile(p)
  /\ UNCHANGED <<lease, target, admitted, opened, bytes, files, history>>

\* Mutant: the plaintext is removed as soon as it has been read.
CloseReadsAndRemoves(p) ==
  /\ plain[file[p]] \notin {Absent, Empty}
  /\ Moves(p, "close", "sealing")
  /\ bytes' = [bytes EXCEPT ![p] = plain[file[p]]]
  /\ fresh' = [fresh EXCEPT ![file[p]] = Torn]
  /\ plain' = [plain EXCEPT ![file[p]] = Absent]
  /\ UNCHANGED <<lease, target, admitted, opened, file, sealed, backups,
                 history>>

\* Read and encrypt the plaintext; WriteAllBytes creates <file>.dpapi.new.
CloseReads(p) ==
  /\ plain[file[p]] \notin {Absent, Empty}
  /\ Moves(p, "close", "sealing")
  /\ bytes' = [bytes EXCEPT ![p] = plain[file[p]]]
  /\ fresh' = [fresh EXCEPT ![file[p]] = Torn]
  /\ UNCHANGED <<lease, target, admitted, opened, file, plain, sealed, backups,
                 history>>

CloseWrites(p) ==
  /\ Moves(p, "sealing", "verify")
  /\ \E c \in {bytes[p]} \cup (IF "io" \in Faults THEN {Torn} ELSE {}) :
       fresh' = [fresh EXCEPT ![file[p]] = c]
  /\ UNCHANGED <<lease, locals, plain, sealed, backups, history>>

\* Mutant: the round trip is not compared before the move.
CloseMovesUnverified(p) ==
  /\ Moves(p, "verify", "remove")
  /\ sealed' = [sealed EXCEPT ![file[p]] = fresh[file[p]]]
  /\ fresh' = [fresh EXCEPT ![file[p]] = Absent]
  /\ UNCHANGED <<lease, locals, plain, backups, history>>

\* The decrypted round trip equals what was read: Move-Item -Force.
CloseMoves(p) ==
  /\ fresh[file[p]] = bytes[p]
  /\ Moves(p, "verify", "remove")
  /\ sealed' = [sealed EXCEPT ![file[p]] = fresh[file[p]]]
  /\ fresh' = [fresh EXCEPT ![file[p]] = Absent]
  /\ UNCHANGED <<lease, locals, plain, backups, history>>

CloseMismatch(p) ==
  /\ fresh[file[p]] # bytes[p]
  /\ Moves(p, "verify", "release")
  /\ fresh' = [fresh EXCEPT ![file[p]] = Absent]
  /\ interrupted' = TRUE
  /\ UNCHANGED <<lease, locals, plain, sealed, backups, latest, cut>>

CloseRemoves(p) ==
  /\ At(p, "remove")
  /\ plain' = [plain EXCEPT ![file[p]] = Absent]
  /\ NextFile(p)
  /\ interrupted' = (interrupted /\ PlaintextLeft(plain'))
  /\ UNCHANGED <<lease, target, admitted, opened, bytes, sealed, fresh, backups,
                 latest, cut>>

\* An I/O error, or Protect-BytesForCurrentUser refusing an empty array.
CloseThrows(p) ==
  /\ \/ "io" \in Faults /\ pc[p] \in Closing
     \/ At(p, "close") /\ plain[file[p]] = Empty
  /\ Goto(p, "release")
  /\ interrupted' = (interrupted \/ PlaintextLeft(plain))
  /\ UNCHANGED <<lease, locals, files, latest, cut>>

ExitLease(p) ==
  /\ At(p, "release")
  /\ Gone(p)
  /\ lease' = NoProc
  /\ UNCHANGED <<files, history>>

------------------------------------------------------------------------------
(***************************************************************************)
(* The process is killed.  The OS abandons its mutex; a file it was        *)
(* writing keeps a prefix of its bytes.                                    *)
(***************************************************************************)
Crash(p) ==
  /\ "crash" \in Faults
  /\ pc[p] # "idle"
  /\ Gone(p)
  /\ lease' = IF lease = p THEN NoProc ELSE lease
  /\ \/ /\ At(p, "opening") /\ "torn" \in Faults
        /\ \E c \in {Empty, Torn} : plain' = [plain EXCEPT !["state"] = c]
        /\ cut' = TRUE
     \/ ~At(p, "opening") /\ UNCHANGED <<plain, cut>>
  /\ interrupted' = (interrupted \/ (lease = p /\ PlaintextLeft(plain)))
  /\ UNCHANGED <<sealed, fresh, backups, latest>>

Enter(p) == (\E t \in Targets : EnterLease(p, t)) \/ RefuseLease(p) \/ Admit(p)
              \/ RefuseJournal(p) \/ Prepare(p) \/ PrepareFails(p)
Open(p)  == OpenRefuses(p) \/ OpenNothing(p) \/ OpenBegins(p) \/ OpenWrites(p)
              \/ OpenWriteThrows(p)
Work(p)  == Ready(p) \/ ReadyFails(p) \/ TerraformWrites(p) \/ TerraformDone(p)
              \/ TerraformFails(p) \/ BackupState(p) \/ BackupThrows(p)
Close(p) == Finally(p) \/ CloseSkips(p) \/ CloseReads(p) \/ CloseWrites(p)
              \/ CloseMoves(p) \/ CloseMismatch(p) \/ CloseRemoves(p)
              \/ CloseThrows(p) \/ ExitLease(p)

\* What the invocation itself does next, once started.
Step(p) == Enter(p) \/ Open(p) \/ Work(p) \/ Close(p)

Next == \E p \in Procs : Start(p) \/ Step(p) \/ Crash(p)

Spec == Init /\ [][Next]_vars

\* A started PowerShell process keeps executing its script.
FairSpec == Spec /\ \A p \in Procs : WF_vars(Step(p))

------------------------------------------------------------------------------
(* Properties. *)

(***************************************************************************)
(* At most one invocation is between Enter- and Exit-Phase2MutationLease,  *)
(* and the lease is never left behind by a refused or killed one.          *)
(***************************************************************************)
LeaseIsExclusive == \A p \in Procs : pc[p] \in Inside <=> lease = p

(***************************************************************************)
(* The newest Terraform state survives, intact, in the plaintext or in the *)
(* sealed file, whatever fails or crashes between the steps of             *)
(* Open/Close-SealedState, until a write of Open is cut short.             *)
(***************************************************************************)
LatestStateKept ==
  ~cut /\ latest # 0 => latest \in {plain["state"], sealed["state"]}

(***************************************************************************)
(* No lost update: Terraform only ever writes on top of the newest state,  *)
(* or from nothing when none was ever written.  Refusing an ambiguous pair *)
(* in Open-SealedState is what guarantees it after a crash.                *)
(***************************************************************************)
NoForkedWrite ==
  [][latest' # latest =>
       plain["state"] = (IF latest = 0 THEN Absent ELSE latest)]_vars

(***************************************************************************)
(* State is sealed at rest: with nobody inside the boundary, plaintext on  *)
(* disk is the trace of a crash or of a file operation that threw; every   *)
(* refused, failing and successful path removes it.                        *)
(***************************************************************************)
PlaintextOnlyAfterInterruption ==
  lease = NoProc /\ ~interrupted => ~PlaintextLeft(plain)

(***************************************************************************)
(* The version a reader of the boundary would recover: the plaintext when  *)
(* it is whole, else the sealed file.                                      *)
(***************************************************************************)
Recoverable ==
  IF plain["state"] \in Versions THEN plain["state"]
  ELSE IF sealed["state"] \in Versions THEN sealed["state"] ELSE 0

Register ==
  INSTANCE StateRegister WITH value <- Recoverable, holder <- lease, intact <- ~cut

\* The boundary implements the register it promises (StateRegister).
ImplementsRegister == Register!Spec

\* A started run always leaves: no path of the script waits or wedges inside.
RunTerminates == \A p \in Procs : pc[p] = "lease" ~> pc[p] = "idle"

(***************************************************************************)
(* "refusing an ambiguous state lineage" (phase2.ps1): a run that did not  *)
(* open the state does not replace the sealed file it refused to judge.    *)
(***************************************************************************)
RefusedRunKeepsSeal ==
  [][\A p \in Procs : lease = p /\ ~opened[p] => sealed'["state"] = sealed["state"]]_vars
==============================================================================
