---------------------------- MODULE Rke2Bootstrap ----------------------------
(***************************************************************************)
(* scripts/cluster/phase4.ps1 with the role rke2_server: hosts are         *)
(* prepared one after the other, the servers are started one after the     *)
(* other, then one server at a time is stopped in the failure drills.  A   *)
(* run may stop at any step and is then started again; targets bootstrap   *)
(* and verify.  The cluster configuration is the same in every run; the    *)
(* role firewall, which prepare runs first on a host, is FirewallRollback. *)
(***************************************************************************)
EXTENDS Integers, FiniteSets, FiniteSetsExt

CONSTANTS
  Servers,    \* number of servers; server 1 is the primary
  Tokens,     \* cluster tokens the random generator may produce
  Absent,     \* no token
  Faults,     \* which of FaultKinds happen
  MaxFaults   \* bound on the number of faults

FaultKinds ==
  { "fail",   \* a command, task or check fails
    "crash",  \* the script is killed
    "lost",   \* the ssh command that restarts a stopped server does not arrive
    "loss",   \* the operator loses the sealed token between two runs
    "stale" } \* a stopped server is still reported Ready when a drill waits

ASSUME Rke2BootstrapAssumption ==
  /\ Servers \in Nat /\ Servers > 1
  /\ Absent \notin Tokens
  /\ Faults \subseteq FaultKinds
  /\ MaxFaults \in Nat

Nodes == 1..Servers

\* How far the role has come on a host; a repeated run adds what is missing.
Bare == 0      \* nothing of RKE2
Paths == 1     \* /var/lib/rancher/rke2 and its parents
Binary == 2    \* `rke2 --version` answers
Config == 3    \* cluster token and configuration
Sysctl == 4    \* /etc/sysctl.d/60-rke2-cis.conf

VARIABLES
  pc,      \* next step of the run
  target,  \* $Target
  tok,     \* $token
  i,       \* the server a loop of the run is at
  floor,   \* $existingMembers
  passed,  \* the try block of a drill reached its end
  sealed,  \* the sealed token on the controller
  level,   \* how far each host is prepared
  archive, \* what is unpacked of RKE2's archive: nothing; a torn binary; the binary
           \* but not all that follows it ("cut"); everything ("whole")
  token,   \* each host's token file
  active,  \* the CIS sysctls are in force
  svc,     \* rke2-server.service: off, starting or up
  joined,  \* the server is a member of the cluster's etcd
  ok,      \* the last run ended with [PASS]
  faults   \* number of faults so far

locals  == <<target, tok, i, floor, passed>>
hosts   == <<level, archive, token, active>>
cluster == <<svc, joined>>
vars    == <<pc, locals, sealed, hosts, cluster, ok, faults>>

Steps == { "token", "seal", "hosts", "prepare", "activate", "floor", "start",
           "stage", "verify", "stop", "outage", "restart", "wait", "window" }

TypeOK ==
  /\ pc \in Steps \cup {"idle"}
  /\ target \in {"bootstrap", "verify"}
  /\ tok \in Tokens \cup {Absent}
  /\ i \in Nodes
  /\ floor \in 0..Servers
  /\ passed \in BOOLEAN
  /\ sealed \in Tokens \cup {Absent}
  /\ level \in [Nodes -> Bare..Sysctl]
  /\ archive \in [Nodes -> {"none", "torn", "cut", "whole"}]
  /\ token \in [Nodes -> Tokens \cup {Absent}]
  /\ active \in [Nodes -> BOOLEAN]
  /\ svc \in [Nodes -> {"off", "starting", "up"}]
  /\ joined \in [Nodes -> BOOLEAN]
  /\ ok \in BOOLEAN
  /\ faults \in 0..MaxFaults

\* Hosts as Phase 3 leaves them.
Init ==
  /\ pc = "idle"
  /\ target = "bootstrap" /\ tok = Absent /\ i = 1 /\ floor = 0 /\ passed = FALSE
  /\ sealed = Absent
  /\ level = [n \in Nodes |-> Bare]
  /\ archive = [n \in Nodes |-> "none"]
  /\ token = [n \in Nodes |-> Absent]
  /\ active = [n \in Nodes |-> FALSE]
  /\ svc = [n \in Nodes |-> "off"]
  /\ joined = [n \in Nodes |-> FALSE]
  /\ ok = FALSE
  /\ faults = 0

Moves(from, to) == pc = from /\ pc' = to

Fault(kind) ==
  /\ kind \in Faults
  /\ faults < MaxFaults
  /\ faults' = faults + 1

Members == {n \in Nodes : joined[n]}

------------------------------------------------------------------------------
(* The token and the predecessor checks. *)

StartRun(t) ==
  /\ Moves("idle", "token")
  /\ target' = t
  /\ tok' = Absent /\ i' = 1 /\ floor' = 0 /\ passed' = FALSE
  /\ ok' = FALSE
  /\ UNCHANGED <<sealed, hosts, cluster, faults>>

AfterToken == IF target = "bootstrap" THEN "hosts" ELSE "verify"

OpenToken ==
  /\ sealed # Absent
  /\ Moves("token", AfterToken)
  /\ tok' = sealed
  /\ UNCHANGED <<target, i, floor, passed, sealed, hosts, cluster, ok, faults>>

\* Mutant: the token is used before its sealed copy exists.
GenerateUnsealed(t) ==
  /\ sealed = Absent
  /\ Moves("token", AfterToken)
  /\ tok' = t
  /\ UNCHANGED <<target, i, floor, passed, sealed, hosts, cluster, ok, faults>>

GenerateToken(t) ==
  /\ sealed = Absent
  /\ Moves("token", "seal")
  /\ tok' = t
  /\ UNCHANGED <<target, i, floor, passed, sealed, hosts, cluster, ok, faults>>

\* The sealed copy is compared under a temporary name, then moved.
SealToken ==
  /\ Moves("seal", AfterToken)
  /\ sealed' = tok
  /\ UNCHANGED <<locals, hosts, cluster, ok, faults>>

\* Mutant: only a run that prepared every host is resumed.
ResumableComplete == \A n \in Nodes : archive[n] # "none"

\* Get-PreparedRke2HostCount: some host has the file /usr/local/bin/rke2.
Resumable == \E n \in Nodes : archive[n] # "none"

\* Without one, Phase 3 must find no trace of RKE2 on any host.
HostBoundary ==
  /\ Resumable \/ \A n \in Nodes : level[n] = Bare
  /\ Moves("hosts", "prepare")
  /\ i' = 1
  /\ UNCHANGED <<target, tok, floor, passed, sealed, hosts, cluster, ok, faults>>

RefuseHosts ==
  /\ ~Resumable /\ \E n \in Nodes : level[n] # Bare
  /\ Moves("hosts", "idle")
  /\ UNCHANGED <<locals, sealed, hosts, cluster, ok, faults>>

------------------------------------------------------------------------------
(* install-rke2.yml, action prepare, one host after the other. *)

\* Mutant: the token file is replaced without looking at the old one.
LineageIgnored == TRUE

Lineage == token[i] \in {Absent, tok}

RefuseLineage ==
  /\ ~Lineage
  /\ Moves("prepare", "idle")
  /\ UNCHANGED <<locals, sealed, hosts, cluster, ok, faults>>

\* The archive is unpacked as long as `rke2 --version` fails.
PrepareStep ==
  /\ Lineage
  /\ level[i] < Sysctl
  /\ level[i] = Config => archive[i] = "whole"
  /\ level' = [level EXCEPT ![i] = @ + 1]
  /\ archive' = IF level'[i] = Binary THEN [archive EXCEPT ![i] = "whole"] ELSE archive
  /\ token' = IF level'[i] = Config THEN [token EXCEPT ![i] = tok] ELSE token
  /\ Moves("prepare", IF level'[i] = Sysctl THEN "activate" ELSE "prepare")
  /\ UNCHANGED <<locals, sealed, active, cluster, ok, faults>>

(***************************************************************************)
(* A failure or a kill while the archive is unpacked into /usr/local: the  *)
(* binary is torn and unpacked again by the next run, or it is there and   *)
(* works, and no run unpacks what was to follow.                           *)
(***************************************************************************)
CutArchive ==
  /\ Moves("prepare", "idle")
  /\ level[i] = Paths
  /\ \E kind \in {"fail", "crash"} : Fault(kind)
  /\ \/ archive' = [archive EXCEPT ![i] = "torn"] /\ UNCHANGED level
     \/ /\ archive' = [archive EXCEPT ![i] = "cut"]
        /\ level' = [level EXCEPT ![i] = Binary]
  /\ UNCHANGED <<locals, sealed, token, active, cluster, ok>>

\* share/rke2/rke2-cis-sysctl.conf is missing: nothing can be copied.
NoSysctlFile ==
  /\ Lineage
  /\ level[i] = Config /\ archive[i] = "cut"
  /\ Moves("prepare", "idle")
  /\ UNCHANGED <<locals, sealed, hosts, cluster, ok, faults>>

\* The sysctls are activated by the run that copied their file.
Activate ==
  /\ active' = [active EXCEPT ![i] = TRUE]
  /\ i' = IF i < Servers THEN i + 1 ELSE i
  /\ Moves("activate", IF i < Servers THEN "prepare" ELSE "floor")
  /\ UNCHANGED <<target, tok, floor, passed, sealed, level, archive, token, cluster, ok,
                 faults>>

\* The copy is unchanged: nothing is activated.
PrepareKeeps ==
  /\ Lineage
  /\ level[i] = Sysctl
  /\ token' = [token EXCEPT ![i] = tok]
  /\ i' = IF i < Servers THEN i + 1 ELSE i
  /\ Moves("prepare", IF i < Servers THEN "prepare" ELSE "floor")
  /\ UNCHANGED <<target, tok, floor, passed, sealed, level, archive, active, cluster, ok,
                 faults>>

------------------------------------------------------------------------------
(* Staged start. *)

\* Parity of the common configuration holds; then the members are counted.
ReadFloor ==
  /\ Moves("floor", "start")
  /\ floor' = IF svc[1] = "up" THEN Cardinality(Members) ELSE 0
  /\ i' = 1
  /\ UNCHANGED <<target, tok, passed, sealed, hosts, cluster, ok, faults>>

Launched == [svc EXCEPT ![i] = IF @ = "off" THEN "starting" ELSE @]

StartServer ==
  /\ Moves("start", "stage")
  /\ svc' = Launched
  /\ UNCHANGED <<locals, sealed, hosts, joined, ok, faults>>

\* API listener, Ready, number of members, health of the primary.
Staged ==
  /\ svc[i] = "up" /\ svc[1] = "up"
  /\ Cardinality(Members) >= Max({floor, i})
  /\ i' = IF i < Servers THEN i + 1 ELSE i
  /\ Moves("stage", IF i < Servers THEN "start" ELSE "verify")
  /\ UNCHANGED <<target, tok, floor, passed, sealed, hosts, cluster, ok, faults>>

(***************************************************************************)
(* External: RKE2 with the CIS profile starts only under its sysctls.  The *)
(* primary creates the cluster, the others join it at the primary.         *)
(***************************************************************************)
Startable(n) == active[n] /\ (joined[n] \/ n = 1 \/ svc[1] = "up")

ServerRuns(n) ==
  /\ svc[n] = "starting" /\ Startable(n)
  /\ svc' = [svc EXCEPT ![n] = "up"]
  /\ joined' = [joined EXCEPT ![n] = TRUE]
  /\ UNCHANGED <<pc, locals, sealed, hosts, ok, faults>>

\* A wait for a server that cannot come up ends at its deadline.
TimesOut ==
  /\ pc \in {"stage", "wait"}
  /\ svc[i] # "up" /\ ~(svc[i] = "starting" /\ Startable(i))
  /\ pc' = "idle"
  /\ UNCHANGED <<locals, sealed, hosts, cluster, ok, faults>>

------------------------------------------------------------------------------
(* Full verification with the failure drills: the last server, the primary. *)

AllUp == \A n \in Nodes : level[n] >= Config /\ svc[n] = "up"

FullVerification ==
  /\ AllUp
  /\ Moves("verify", "stop")
  /\ i' = Servers
  /\ UNCHANGED <<target, tok, floor, passed, sealed, hosts, cluster, ok, faults>>

RefuseVerification ==
  /\ ~AllUp
  /\ pc \in {"verify", "window"} /\ pc' = "idle"
  /\ UNCHANGED <<locals, sealed, hosts, cluster, ok, faults>>

StopServer ==
  /\ Moves("stop", "outage")
  /\ svc' = [svc EXCEPT ![i] = "off"]
  /\ UNCHANGED <<locals, sealed, hosts, joined, ok, faults>>

\* ssh fails before or after the service stopped; finally runs in any case.
StopFails ==
  /\ Fault("fail")
  /\ Moves("stop", "restart")
  /\ passed' = FALSE
  /\ \E s \in {svc[i], "off"} : svc' = [svc EXCEPT ![i] = s]
  /\ UNCHANGED <<target, tok, i, floor, sealed, hosts, joined, ok>>

\* The remaining etcd members are healthy, API and workload answer, or not.
Outage ==
  /\ Moves("outage", "restart")
  /\ \/ passed' = (\A n \in Nodes \ {i} : svc[n] = "up") /\ UNCHANGED faults
     \/ passed' = FALSE /\ Fault("fail")
  /\ UNCHANGED <<target, tok, i, floor, sealed, hosts, cluster, ok>>

\* finally: the result of the restart is thrown away.
Restart ==
  /\ Moves("restart", IF passed THEN "wait" ELSE "idle")
  /\ \/ svc' = Launched /\ UNCHANGED faults
     \/ UNCHANGED svc /\ Fault("lost")
  /\ UNCHANGED <<locals, sealed, hosts, joined, ok>>

\* Mutant: the next drill does not wait for the restarted server.
RecoveredAnyway ==
  /\ i' = IF i = Servers THEN 1 ELSE i
  /\ Moves("wait", IF i = Servers THEN "stop" ELSE "window")
  /\ UNCHANGED <<target, tok, floor, passed, sealed, hosts, cluster, ok, faults>>

\* Wait-ClusterStage and the Cilium stack, then the next drill.
Recovered ==
  /\ \/ svc[i] = "up" /\ UNCHANGED faults
     \/ i = Servers /\ Fault("stale")
  /\ Cardinality(Members) = Servers
  /\ i' = IF i = Servers THEN 1 ELSE i
  /\ Moves("wait", IF i = Servers THEN "stop" ELSE "window")
  /\ UNCHANGED <<target, tok, floor, passed, sealed, hosts, cluster, ok>>

\* The stability window; for bootstrap also a second prepare, which changes
\* nothing.
Stable ==
  /\ AllUp
  /\ Moves("window", "idle")
  /\ ok' = TRUE
  /\ UNCHANGED <<locals, sealed, hosts, cluster, faults>>

------------------------------------------------------------------------------
(* What stops a run. *)

Fail ==
  /\ Fault("fail")
  /\ pc \notin {"idle", "stop", "outage", "restart"}
  /\ pc' = "idle"
  /\ UNCHANGED <<locals, sealed, hosts, cluster, ok>>

Crash ==
  /\ Fault("crash")
  /\ pc # "idle"
  /\ pc' = "idle"
  /\ UNCHANGED <<locals, sealed, hosts, cluster, ok>>

LoseToken ==
  /\ Fault("loss")
  /\ pc = "idle" /\ sealed # Absent
  /\ sealed' = Absent
  /\ UNCHANGED <<pc, locals, hosts, cluster, ok>>

Prepare == \/ HostBoundary \/ RefuseHosts \/ RefuseLineage \/ PrepareStep
           \/ NoSysctlFile \/ Activate \/ PrepareKeeps

Drills == \/ FullVerification \/ RefuseVerification \/ StopServer \/ Outage
          \/ Restart \/ Recovered \/ Stable

Run == \/ OpenToken \/ (\E t \in Tokens : GenerateToken(t)) \/ SealToken
       \/ Prepare \/ ReadFloor \/ StartServer \/ Staged \/ TimesOut \/ Drills

Next == \/ \E t \in {"bootstrap", "verify"} : StartRun(t)
        \/ Run
        \/ \E n \in Nodes : ServerRuns(n)
        \/ StopFails \/ CutArchive \/ Fail \/ Crash \/ LoseToken

Spec == Init /\ [][Next]_vars

\* A run keeps executing, RKE2 starts, the operator repeats the bootstrap.
FairSpec ==
  /\ Spec
  /\ WF_vars(Run)
  /\ \A n \in Nodes : WF_vars(ServerRuns(n))
  /\ SF_vars(StartRun("bootstrap"))

------------------------------------------------------------------------------
(***************************************************************************)
(* All servers carry the token of one lineage, whatever run, with or       *)
(* without the sealed copy of an earlier one, prepared them.               *)
(***************************************************************************)
OneLineage ==
  \A m, n \in Nodes : token[m] # Absent /\ token[n] # Absent => token[m] = token[n]

(***************************************************************************)
(* A token reaches a server only when its recovery copy is sealed, so that *)
(* a run killed in between can be repeated with the same token.            *)
(***************************************************************************)
SealedBeforeUse == [][\A n \in Nodes : token'[n] # token[n] => token'[n] = sealed]_vars

(***************************************************************************)
(* "retained one-node quorum safety" (phase4.ps1): at most one member of   *)
(* the cluster is down, whatever a drill, its `finally` or the runs after  *)
(* an interrupted drill do.                                                *)
(***************************************************************************)
QuorumKept ==
  \A m, n \in Members : svc[m] # "up" /\ svc[n] # "up" => m = n

(***************************************************************************)
(* The states from which repeating the bootstrap never helps: hosts with   *)
(* the RKE2 directories and none with its binary, an archive of which only *)
(* the binary was unpacked, sysctls whose file was copied by a run that    *)
(* did not activate them, a lost token lineage.                            *)
(***************************************************************************)
Wedged ==
  /\ pc = "idle"
  /\ \/ ~Resumable /\ \E n \in Nodes : level[n] = Paths
     \/ \E n \in Nodes : archive[n] = "cut"
     \/ \E n \in Nodes : level[n] = Sysctl /\ ~active[n]
     \/ token[1] \notin {Absent, sealed}

\* Every other interrupted bootstrap can be repeated until it succeeds.
OnlyKnownWedges == []<>(ok \/ Wedged)
==============================================================================
