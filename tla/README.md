# Verification of the Verda platform repository

TLA+ models, TLC model checking and TLAPS proofs for the programs in this
repository: PowerShell, Bash and Python drivers, Terraform and Ansible code that
build a three-node RKE2 management cluster on Verda Cloud and put Argo CD on
it. Paths below are relative to the repository root (`src/`).

## 1. Inventory of the system

The platform is built in phases by an operator on a Windows controller. Each
phase is a script that may fail, be interrupted, and be started again; most of
what can go wrong lies in the states such a stop leaves behind.

| component | state it keeps | operations | who it interacts with |
|---|---|---|---|
| **Terraform state boundary** `scripts/infra/phase2.ps1` | named OS mutex, `<state>`, `<state>.backup`, their `.dpapi` and `.dpapi.new` files, independent backups | lease, journal admission, `Open-SealedState`, Terraform commands, `Backup-State`, `Close-SealedState` in `finally` | other invocations (mutex, files), Terraform (plaintext state), Phase 6 journal |
| **Reviewed plans and node-02 repair** (same file) | three saved plans, staged copy with open handles and hashes, taints in the state, newest backup | plan, review (`assert-plan.py`), staged apply, untaint + replace, rollback plan, destroy, state audit, cost report | state boundary, plan gate, Terraform and the provider |
| **Plan, cost, inventory gates** `assert-plan.py`, `cost-envelope.py`, `generate-inventory.py` | none | pure checks of Terraform JSON in four modes | called by `phase2.ps1` |
| **Firewall transition** role `firewall` | rules file, unit, live nftables table, capture in `/run`, transient timer | render, capture, arm, apply, prove, cancel, enable; timer's restore; boot | SSH probes from the controller, systemd |
| **SSH transition** role `access_bootstrap` | account, drop-in on disk, configuration loaded by sshd, capture, transient timer | create account, prove, capture, arm, render, reload, prove, cancel; timer's restore | host phase driver, systemd |
| **Host phase driver** `scripts/host/phase3.ps1` | which hosts still need the SSH transition | select, assert hardened access, converge, controlled reboot, verify | both roles above |
| **Data disk** role `storage_device` | signatures, ext4, fstab, mount | probe, refuse, mkfs, mount | Longhorn |
| **WireGuard, hardening, common, diagnostics** roles | packages, sysctls, templates | idempotent tasks; read-only checks | host phase driver |
| **RKE2 bootstrap** `scripts/cluster/phase4.ps1`, roles `rke2_server`, `etcd_backup` | sealed cluster token, prepared hosts, etcd membership, CIS sysctl file | serial prepare, staged start, failure drills | host phase driver |
| **Cilium reconciliation** `scripts/cluster/reconcile-cilium-agent.sh` | pods and restart counts | wait ready, delete residual pods, final strict loop | Kubernetes controllers |
| **Argo CD installation** `bootstrap/argocd/install.sh` | namespace, CRDs, Helm release | verify or create CRDs, `helm upgrade --install --atomic`, rollback | GitOps bootstrap |
| **GitOps bootstrap** `scripts/bootstrap-gitops.sh` | admin password on the server, initial secret, local credential and token files, root Application | generate, rotate, delete secret, sessions, write tokens, apply root, poll | Argo CD |
| **Capacity admission** `scripts/phase6/capacity-admission.py`, `render-capacity-inputs.py` | renders below `.local`, the tracked contract, running sums | render, report or verify, hash evidence and sources, account each document, admit or reject | operator (contract), editors of tracked files, the cluster |
| **Longhorn gates** `longhorn-storage-test.sh`, `longhorn-storage-contract.py`, `longhorn-capacity.py`, `capacity-report.py` in `scripts/phase5` | test namespace, claim, PV, volume, `identity.json`, capacity captures | write on one node, read on another, health, cleanup in the trap, absence, capacity before and after | Kubernetes, Longhorn |
| **Harbor, Rancher, demo** `bootstrap-private-projects.sh`, `register-rancher.sh`, `applications/platform-demo/main.go` | projects, registration, in-flight requests | converge, register, serve and shut down | Kubernetes |
| **Quality tooling** `scripts/quality/*` | download caches and markers | verified download, fingerprint | CI |
| **Runtime verification scripts**, **declarative manifests** | none | read-only probes; data for Argo CD and Terraform | |

Hard behaviours, and so the hazards in `PROJECT.json`:

- *Stops and repeats.* Every driver may stop between any two steps (failed
  command, dead controller, killed process) and is run again by hand. The next
  run decides from what it finds on disk (`changed`, `both files exist`,
  `already hardened`), which may describe a state nobody ever proved.
- *Timers racing the controller.* Two transitions on the host arm a five-minute
  systemd timer which restores an earlier state while a run, or the next run,
  continues.
- *Reboots.* They load what is on disk and forget transient units and `/run`.
- *Concurrent invocations* of `phase2.ps1` on one controller.
- *Partial writes.* `WriteAllBytes` is neither atomic nor durable; renders and
  `identity.json` are rewritten in place.
- *Half-done work of others.* Terraform's provider fails after it created
  something, an answer of Kubernetes or Argo CD is lost, Helm stops inside a
  release. The next run judges what it finds.
- *Files read twice, or before and after a change.* Plans, renders, sources and
  evidence change under programs that hold no lock.

What makes the components correct, in one line each: the newest Terraform state
is never lost and never forked; plaintext is not left behind by an orderly run;
a lockout of the administrator is always rolled back; a timer is only cancelled
over a proven configuration; a successful run stays successful; an interrupted
bootstrap can be repeated; the cloud changes only as a judged plan says; the
destructive test proves what it reports and leaves nothing behind; admission
judges what will run and never overcommits.

## 2. Modules

| module | models | checked by | proofs |
|---|---|---|---|
| `StateRegister` | abstract promise of the state boundary: an exclusive register that never loses its value while intact | as property of `SealedState` | refinement |
| `SealedState` | state boundary of `phase2.ps1` | `sealed_state*` | `SealedStateProofs` |
| `ReviewedPlan`, `MCReviewedPlan` | what the targets of `phase2.ps1` do inside the boundary, with `assert-plan.py` | `reviewed_plan` | `ReviewedPlanProofs` |
| `FirewallRollback`, `HostFirewall` | role `firewall`, its helper, timer, unit, boots; the same under names of its own | `firewall*` | `HostRollbackProofs` |
| `SshRollback` | role `access_bootstrap`, helper, timer, and the part of `phase3.ps1` around it | `ssh*` | `HostRollbackProofs` |
| `Rke2Bootstrap` | `phase4.ps1` with the role `rke2_server` | `rke2_bootstrap` | `ClusterBootstrapProofs` |
| `GitOpsBootstrap`, `ClusterGitOps` | `install.sh`, `wait-for-argocd.sh`, `bootstrap-gitops.sh`; the same under names of its own | `gitops_bootstrap` | `ClusterBootstrapProofs` |
| `StorageTest`, `MCStorageTest` | the disruptive Longhorn test, its contract commands and both capacity gates, and the cluster they act on | `storage_test` | `StorageTestProofs` |
| `CapacityRender`, `MCCapacityRender` | how renders, contract and evidence come together: `render-capacity-inputs.py` and the checksums of `capacity-admission.py` | `capacity_render` | `CapacityRenderProofs` |
| `CapacityAdmission`, `MCCapacityAdmission` | what `capacity-admission.py` computes, and the cluster it speaks about | `capacity_admission` | `CapacityAdmissionProofs` |
| `FoldLemmas` | nothing of the code: what the sums, extremes and folds of the community modules return | | cited by `CapacityAdmissionProofs` |

The modules are the platform's phases and share no variable: each phase starts
from what the one before it leaves, which is the next one's `Init`. Two pairs
split one program. `ReviewedPlan` is what happens between opening and closing in
`SealedState`, whose exclusive lease is why it has one run at a time and whose
`TerraformWrites` stands for every step of it that sets `state`.
`CapacityRender` decides which documents reach the gate, `CapacityAdmission`
what the gate makes of them. `SealedState` instantiates its abstract
specification.

### SealedState

A process `p \in Procs` is one invocation of `phase2.ps1`; its `pc` walks the
script: `lease` (mutex), `admit` (journal), `prepare` (credentials,
confirmation, directories), `open`/`opening` (`Open-SealedState`), `ready`
(live contract, `terraform init`), `before`/`terraform`/`after` (backup, body,
backup), `finally`, `close`/`sealing`/`verify`/`remove` (the loop of
`Close-SealedState`, once per file), `release`. Each file operation is an action
of its own. A file's content is `Absent`, `Empty`, `Torn` or the number of the
Terraform write that produced it; `latest` counts those writes. The target is
chosen when the mutex is entered, because nothing before that depends on it. `admitted` and
`opened` are `$genericStateBoundaryAdmitted` and `$phase6StateOpened`; the
branch at the start of the script's `finally` is `Finally`. The targets are
grouped by control path (comment at `Targets`).

`Crash` kills an invocation with its Terraform child at any step: the mutex is
abandoned and the next `WaitOne` gets it. Terraform is external; it writes its
state file atomically, reads an empty file as an empty state, and refuses one it
cannot parse. `cut` records that a write of `Open-SealedState` was cut short:
from then on nothing is claimed about the newest version, because a run that
refuses the ambiguous pair reseals the fragment (run `sealed_state_refusal`).
`StateRegister` says the same in the abstract: a holder may `Damage` the
register, after which it may `Lose` the value, and not before.

### ReviewedPlan

A run is a target and a `pc` over its steps: `plan`, `stage`, `review`, `apply`,
`applying` (Terraform, one operation of the provider at a time), `before`,
`backup` and `rescue` (`Backup-State`, the last one in the repair's `finally`),
`addresses`, `untaint`, `reject`, `rollback`, `reconcile`, `destroy`. `saved` are
the three plan files, `staged` the copy an apply holds open. A plan is its
changes per resource, whether the attributes `assert-plan.py` compares are the
accepted ones (`shape`), and whether it was made of the present state (`fresh`:
Terraform compares the serial). `cloud` is the object behind an address, `state`
what Terraform notes of it, `orphans` the resources of which the cloud has an
object Terraform does not know. `output` are the nodes of Terraform's stored
output `nodes`, from which the cost report takes its prices: a successful apply
writes it, a failed one keeps what was stored, which may list a node the state has
lost. `backup` says whether the newest independent backup is of the present state.

External: what Terraform plans (`Planned`, `Destroying`), the order its
operations allow, `prevent_destroy`, and how the provider fails (`OperationFails`:
nothing was done, the entry is tainted, the answer is lost; several resources of
one Terraform run may fail of one cause). Faults also are `fail`, `crash`,
`mixup` (one plan file copied over another) and `edit` (the machine type in the
node map). `Init` is an empty project, or the stack as the first apply of this
repository left it: complete, every instance tainted
(`provider-runtime-findings.md`), with its outputs stored or not.

`Wedged` names the states from which no target leads on: part of the stack
exists, which is neither an initial plan nor one without drift, for example
after every successful `destroy`; or the tainted entries are not the ones the
repair untaints, for example after a repair plan that stopped behind its loop
and whose saved plan was lost. `OnlyKnownWedges` says there are no others,
`WedgesLast` that these are what they are called. `untaint` makes the repair
plan unrepeatable: its second call refuses the entry the first one cleared.
With the repository's two healthy nodes the one exception is a stack whose only
tainted entry is the first healthy node: a repair plan untaints it, fails on the
second and leaves a stack without taints. With more nodes that is so for the
first `k` of them, whichever `k` (`Untaintable`), which the attempt to prove
`WedgesLast` for every node map brought up and TLC confirms with four nodes.

The properties say what the code does where its documents say more:

- "Terraform changes the Verda resource boundary only from a reviewed saved plan"
  (`architecture.md:31`, `operations-model.md:5`). `destroy` plans again with
  `-auto-approve` (`phase2.ps1:1471`); the rollback plan that `lifecycle-check` had
  reviewed is not the one that is applied. `OnlyPromisedChanges` demands a staged
  copy that passed the review of `apply` and of the repair only, and of `destroy`
  that it does no more than delete instances.
- A backup is "created after apply and material state changes" (ADR 0012:49-50). An
  apply, a destroy or a repair plan that fails after it changed the state leaves the
  backup behind (`phase2.ps1:1374` is reached after success only). `BackupFollows`
  claims a backup after success and, of the repair's apply, before its first
  operation and after its last one, well or not.
- A cost report that passes is called a live reconciliation, and counts. An instance
  whose creation was not noted passes for the node's own when the state has no
  entry for that node and the stored output still has its price: a failed repair on
  a stack whose output was stored. `ReconciledOnePerNode` says that this is the one
  thing it overlooks.

### FirewallRollback

One host. A run is a sequence of tasks (`pc`), each an action; `changed` is the
condition of the guarded block, computed from the *file*. A rule set is
abstracted to whether it admits a fresh administrator session (`Admitting`).
`live` is the nftables table, `saved` the capture in `/run`, `timer` the
transient timer and the restore service it starts (two steps: it deletes the
table, then loads the capture, and stopping the timer does not stop the
service). `Abort` stops a run between any two tasks; `Reboot` loads `file` if
the service is enabled. `StartRun` is enabled whenever no run is in progress,
with any rules, also while the timer of an earlier run is pending.

`HostFirewall` instantiates the module under constants and variables of its own
(`task`, `capture`, `rollback`, ...) and names the properties the run `firewall`
checks. The proofs need it: `HostRollbackProofs` extends it beside
`SshRollback`, whose variables have the original names. The named assumption on
the constants is assumed there and evaluated in that run.

### SshRollback

One host, seen from `phase3.ps1`: probe administrator, probe root, either skip
or run the `access_bootstrap` role, assert hardened access, converge, reboot,
verify. `dropin` is the file on disk, `sshd` the configuration the daemon has
loaded, `saved` and `timer` as above. `Admin` and `Root` say whose fresh session
would succeed. `target` is what the run was started with, `mishap` records that
something other than a probe has failed since the beginning. The role's probe of
a denied root treats every failure as denied, as the code does (`Fails`).
Account, key and sudo tasks are one step, because only "the administrator exists" matters to later steps.

`ConfigureStaysHardened` is about `configure`. Target `verify` asserts the same
(`phase3.ps1:318`, "strict key admin succeeds; root and password-only SSH are
denied") but looks at the daemon and the drop-in, not at the timer: it prints
`[PASS]` while the timer of a failed run is pending, which up to five minutes
later removes the drop-in. `configure` is safe only because its controlled
reboot discards the transient timer.

### GitOpsBootstrap

One operator, one cluster. A run is a sequence of steps (`pc`): `namespace`,
`crds`, `helm`, `helming` and `wait` are `install.sh` and `wait-for-argocd.sh`,
the rest is `bootstrap-gitops.sh`, where `file`, `writing`, `read` and `session`
are walked once per account. `ns`, `release`, `good` and `crds` are what Helm
and Kubernetes keep; `server` holds each account's password on the Argo CD
server, `initSecret` says whether the initial secret exists, `file` and `token`
are the four external files. `seen`, `existing` and `desired` are the shell
variables of the same meaning: what a run decided from, while the cluster may
differ. `account` is whose credential the run is at.

External: `ServerStarts` (the first start of argocd-server generates a password
and the initial secret), Helm (`--atomic` removes a first release that times out
and keeps the namespace; `helm list` does not show a pending release, and Helm
refuses to work beside one). Faults: `fail` (any command; a failing query of the
namespace does not stop `install.sh`, which takes it for absent), `crash`, `lost` (a PUT is applied, its answer is not
received), `helm`. A failing command cannot interrupt `printf > file`; a kill
can, and leaves the file empty or torn.

`Wedged` names the leftovers no repetition helps with: a namespace without a
release, which a run gets past only when its query of the namespace fails; an
initial secret that outlived its password, a cut-short
password file. They are states of the code; `OnlyKnownWedges`, which the run
checks as `OnlyGitOpsWedges`, says there are no others. A pending or failed
revision is none of them, because `install.sh --rollback` accepts any revision of
the pinned chart, the pending installation included. The first contradicts the
intention of `install.sh:207`, "retained CRDs
from an interrupted install must already match the pinned chart": with the CRDs
the interrupted install also leaves the namespace, which lines 117-119 refuse.

`ClusterGitOps` instantiates the module under constants and variables of its own
(`at`, `session`, `done`, ...) and names the properties the run checks, as
`HostFirewall` does: `ClusterBootstrapProofs` extends it beside `Rke2Bootstrap`.
The named assumption is assumed there and evaluated in that run.

### Rke2Bootstrap

`pc` walks `phase4.ps1`: `token`/`seal` (`Get-ClusterToken`), `hosts`
(`Invoke-Phase4HostBoundary`), `prepare`/`activate` (the role's prepare tasks,
one host after the other), `floor` (members already there), `start`/`stage` (one
server after the other), `verify`, then per drill `stop`, `outage`, `restart`,
`wait`, and `window` at the end. Target `verify` goes from the token straight to
`verify`. `level` is how far the role has come on a host, cut where a later run
decides differently: nothing, the RKE2 directories, the binary, token and
configuration, the copied sysctl file. `archive` is what is unpacked of RKE2's
archive: a stop in the middle leaves a torn binary, which the next run unpacks
again, or one that works without the files that follow it (`CutArchive`).
`active` says whether the sysctls are in
force, `svc` and `joined` are the service and its etcd membership, `sealed` is
the recovery copy of the token on the controller.

External: `ServerRuns`. A server comes up only with its sysctls active
(`protect-kernel-defaults`), the first start of a server other than the primary
also needs the primary. Faults: `fail` (any command or check; not between `try`
and the end of `finally`, whose failures are `StopFails`, `Outage` and `lost`),
`crash`, `lost` (the ssh that restarts a stopped server), `loss` (the operator
loses the sealed token), and `stale` (a server stopped moments ago is still
reported Ready when the drill waits for it). `stale` is not part of the run and
is excluded by hypothesis in `QuorumIsKept`: with it a second member can go
down. Reboots, unplanned outages and rebuilt hosts are left out.

`Wedged` names: hosts with the RKE2 directories and none with the binary (the
absence gate of Phase 3 then refuses every run), an archive cut behind its binary
(`rke2 --version` works, so it is not unpacked again, and the sysctl file to be
copied from it is missing in every later run), a sysctl file copied by a run
that did not activate it (a repeated run sees it unchanged; a reboot would
help), and a lost token lineage.

### StorageTest

`pc` walks `longhorn-storage-test.sh`; `attempt` says whether cleanup is the end
of the test or the EXIT trap, which runs once and only if the namespace is the
run's own (`created`). A claim is the number of a PVC uid and stands for its PV
and Longhorn volume too: `policy`, `volume`, `wrote` and `read` are kept for each,
so that a claim replaced under the same name is another one. `held` is the claim
in the capture being judged, `identity` the captured one. Each contract command
is the condition it raises on: `CaptureIdentity`, `Healthy`, `Rescheduled`,
`Owned`, `Retarget`, `RunAbsence`; `CapacityGate` and `Capacity` are
`longhorn-capacity.py` with `capacity-report.py`. A command that changes the
cluster may be applied and its answer lost (`Applied`). Any command may fail or
be interrupted (`Interrupted`), and a kill leaves no trap (`Killed`).

External: scheduling and provisioning on the first placement, the pods, the
namespace controller (pods, then the claim, then the namespace), the CSI
controller, nodes that go away and come back, and another actor who replaces the
claim (`Replaced`). A wait may expire without a fault only for the writer, whose
volume may fit nowhere; other waits expire after some trouble, and a cluster
that is merely slow costs a fault. What others have scheduled and what the
filesystems have free are independent of each other (volumes are thin) and may
change at any time (`OtherVolumes`), which also covers figures Longhorn updates
late; the report's mount size is a constant. Of a capacity report the model
keeps how many of the test's volumes existed when it was captured: the sums are
those of the moment, and `build_report` does not compare the two reports.

Seen while modelling and allowed by the properties: a `create namespace` whose
answer is lost leaves an empty labelled namespace, because the flag is set after
the command; a namespace that vanishes between `get` and `delete` turns a clean
run into FAIL; a claim replaced between two steps of cleanup can leave a Retain
PV without a namespace, hence `last <= 1` in `NothingOrphaned`. `build_report`
merges the two health reports into one dictionary, the later over the earlier
(493-498), so it would not see a failed `health_before`; the driver stops before
that. `capture_cluster_lists` hides the failure of an early `get`, but the empty
file it leaves makes the absence check refuse.

### CapacityRender

Three actors without a lock: a render run (`rpc`), an admission (`apc`), and
people who edit files, fetch charts and copy a report into the contract
(`Operator`). A checksum is the content it was taken of, a render the inputs it
was made from. A render run reads the lock once and each component's files when
it is its turn (`RenderComponent`), rewrites the render in place in two steps
(`Truncate`, `CanonicalWrite`) and hashes the sources in a later read
(`ComponentEntry`). An admission holds the contract it read (`held`), reads each
evidence file twice (`HashEvidence`, `LoadEvidence`), compares what it computed
from the baseline with the contract (`BaselineMatches`), compares a component's
sources (`CheckSources`), takes its render in one read (`CheckRender`), and at
the end compares the candidate's figures (`ProjectionMatches`). `Figures` maps a
content of evidence to what the program compares: sums, the two smallest nodes,
snapshot checksums. Contents that differ in labels, taints or the distribution
over the nodes may have the same figures.

A report may bind a render to sources it was not made from, when an edit falls
between the two reads. `AdmissionIsCurrent` therefore asks for an undisturbed
report or `--verify-contract` run (`calm`, `verified`), and `VerifyReproduces`
says that the latter suffices. A piece of evidence replaced between its two reads
passes if its figures are those the contract states, and then decides placement
with its own labels, taints and distribution: `EvidenceIsBound` promises the
figures always, and the content only of a file that was not replaced there.
The figures in `projection_result` that also depend on renders and placement are
compared in the code, and may refuse in the model (`Reject`). `--projection-only`
takes the same path without the candidate and admits nothing; a contract written
for it, whose candidate figures are null, is left out, and so is the
storage-class manifest (593-618), read once.

### CapacityAdmission

`node`, `disk` and `render` are the inputs: what the three nodes have and the
rendered documents in the order they are read. `Account` is one turn of the loop
of `component_capacity` with the sums of `evaluate` (`steady`, `peak`, `raw`,
`loss`), `Reject` any of its refusals, `Admit`/`RejectSums` the comparisons at
the end. CPU and memory pass through the same formulas independently of each
other, so every number is of one of them. A pod needs both on one node: a real
scheduler may bind less than `Bind`, so what holds of every placement in the
model holds of each resource by itself, and nothing more. Selectors, taints and node affinity are the set `eligible`. The
containers of the application are one sum, and the init containers a sequence,
because their order matters. Checksums, quantities, the recorded projection and
mode `--projection-only` (which admits nothing) are left out.

The second half is external: what Kubernetes makes of the same documents
(`PodRequest`, `MaxSurge`, `MostPods`), written from Kubernetes' definitions and
not from the gate's, a scheduler that binds a pod to any node with room,
rollouts and Jobs that start and end pods, and the loss of one node.

`NoResourceScattered` holds only for pods no larger than the reserve: with a
larger one the room the sums promise may lie scattered over the two nodes that
are left. The gate compares no pod with the reserve. Left out of it are
DaemonSets and pinned and anti-affine workloads, whose room others may take. It
is a claim about CPU, and one about memory. That a pod finds *a* node does not
follow: with one unit of CPU free on the first node left and one of memory on
the second, the sums keep a reserve of one of each, and a pod of one and one
waits.

`VolumeSumsFit` says of the disks what the gate's sums say and no more. The run
contains a cluster that is admitted although its third disk cannot hold a copy
of every volume; and for `longhorn-standard`, with two copies, `_pvc_bytes`
counts one after a loss (line 589) although both may be on the nodes that are
left. In neither case the promised 50 GiB
(`platform-capacity-admission.yaml:37`) remain free on the disks concerned.

## 3. Runs

Every property has a mutant: a plausible bug in a mapped definition under which
TLC finds the property violated.

| run | question | result |
|---|---|---|
| `sealed_state` | Crashes, failing commands, failing or short writes in both directions: is the lease exclusive, is the newest state kept until Open's write is cut short, does Terraform only write on top of it, is plaintext at rest only the trace of an interruption, does every run end, is the boundary a `StateRegister`? | holds |
| `sealed_state_refusal` | Does a run that refuses an ambiguous pair leave the sealed file alone? | **violated** |
| `reviewed_plan` | All targets in any order, from nothing and from the tainted stack, with a fault of any kind: do an apply and a repair change only what a plan that passed the review allows and the unreviewed destroy only instances, is the repair backed up before and after, has a reconciled stack one instance for each node, does an operator who keeps trying complete the stack or end in a named wedge? | holds |
| `firewall` | Does the capture always admit the administrator, is the timer only cancelled on a reachable host, and does a lockout with an armed timer end (or the host boot first), under every fault? | holds |
| `firewall_lockout` | Does *every* lockout end? | **violated** |
| `ssh_transition` | Both targets, every fault: does a successful `configure` stay hardened; while only probes fail, is every lockout rolled back and does a boot without a timer let somebody in? | holds |
| `ssh_lockout` | Is every lockout rolled back when runs stop between tasks? | **violated** |
| `rke2_bootstrap` | Under failures, kills, a lost restart and a lost token: one token lineage, sealed before use, at most one member down, and does repeating the bootstrap always end in success or a named wedge? | holds |
| `gitops_bootstrap` | Under stops, kills, lost answers and Helm time-outs: is the administrator's password never lost, is nothing handed over unproven, does success last, and does repeating the scripts always end in success or a named wedge? | holds |
| `storage_test` | Under failing commands, lost answers, signals, node losses and a replaced claim: is a PASS proven by one volume written on one node and read on another, were both capacity reports captured while no volume of the test existed, is no PV orphaned, does no volume go while the test may read it, does a run that captured its identity clean up after one fault? | holds |
| `capacity_render` | With edits and kills at every step and both programs running at once: was what is admitted rendered from what was compared, does verification find a disturbed report, has the evidence the figures the contract states, and is it the contract's own unless replaced between its two reads? | holds |
| `capacity_admission` | For every pair of documents of all kinds: is a pod's request its greediest moment, does the reserve remain under any overlap of rollouts and the loss of any node, has some node enough of each resource for a pending pod however the others are scattered, does each workload fit alone after a loss, do the volumes fit in sum? | holds |

The violated ones are disagreements between the code and its own documents,
described under `findings` in `PROJECT.json` with the quoted line:

- `phase2.ps1` sets the admission flag before `Open-SealedState` judges the
  files, so the `finally` of a refusing run reseals the leftover plaintext over
  the sealed state it refused to judge. If the plaintext was left by a write cut
  short, the only good copy is replaced.
- The firewall role compares the rules file with the previous run's, not with
  the live table; after a rolled-back run a repeated run skips the guarded block
  and starts the service on the failed rules without a timer.
- The SSH role captures the drop-in from disk; a run that stops between
  rendering and reloading leaves one that nobody proved, and the next run makes
  it the restore target.

### Bounds

- Two invocations (`Procs = {p1, p2}`): the mutex and the files are the only
  shared state, and every step of one invocation depends on at most one other
  (the one it is racing or the one that stopped before it). Invocations are
  reusable, so a behaviour contains any number of runs one after another.
- `MaxVersion = 2`: one version to lose and one to write over it. Versions are
  only compared for equality with `latest`.
- `reviewed_plan`: the three nodes of the cluster, of which two are untainted and
  one replaced, in 162 000 states. One fault; a provider error counts as one
  however many resources of one Terraform run it hits, and the repair starts from
  the tainted stack of `Init`, so that a second trouble falls into every step of
  it. The safety properties also hold with two faults (2.8 million states, outside
  the five minutes this project allows a run together with the liveness).
- Three rule sets or drop-ins, `open`/`strict` and `moved` which admit the
  administrator and `closed` which does not: two different admitting ones let a
  restore go back to something else than what was applied.
- `MaxRuns` 3 (2 in two violation runs): a run that stops, one that builds on
  what it left, and one that builds on that. A fourth run starts from a state
  the second or third already started from; the three invariants of the firewall
  and the two of SSH are proved for every `MaxRuns`.
- Two CRDs (a partly created set), two generated passwords (one that is lost and
  one that replaces it), three faults per behaviour in `GitOpsBootstrap`: a run
  that stops, one that stops while repairing it, and a query misread in between. Its invariants are proved for
  any number.
- Three servers, the size the driver fixes, two tokens, three faults in
  `Rke2Bootstrap`: a lost restart, a stop and a lost token in one behaviour.
- Renders of two documents out of 17, one for every kind, strategy and kind of
  placement, one of them twice included, on four clusters of three nodes with four
  to six units, one of them with a small disk: two workloads are enough to fill two nodes to the last unit and
  to scatter what is left. The gate treats documents one by one and only adds.
- `storage_test`: three nodes with disks of four test volumes, one of them
  reserved; other volumes spread unevenly, at the limit, and disks almost
  full although little is scheduled, changing at any time. Two
  claims (the run's and one that replaces it) and three faults: one in the test,
  one in its trap, one in the cluster. 443 000 states.
- `capacity_render`: two components, one with a chart and the LimitRange, one
  with operator projections, taken in opposite orders by the two programs; six
  files, of three contents for evidence (two of them with the same figures) and two
  for others, and two edits: a file may change and change back. 2.8 million states.
- No symmetry reduction, because most runs check liveness.

`CHECK_DEADLOCK FALSE` in the firewall and SSH configurations: after `MaxRuns`
runs with the timer off nothing is left to do; and in `capacity_admission`: a
rejecting gate exits; and in `storage_test`: the test runs once. The other runs
check deadlock.

### Fairness

- `SealedState`: weak fairness of `Step(p)`, the script's own next step, for
  each started invocation. Nothing in the script waits: the mutex is tried with
  a zero timeout. `Start` and `Crash` are not fair.
- `FirewallRollback`, `SshRollback`: weak fairness of the run's own next task
  (every probe has `ConnectTimeout`, every wait a deadline, and a failing task
  is a step too) and of the timer, which systemd runs (`AccuracySec`-bounded).
  New runs, faults and reboots are not fair: nothing good depends on them.
- `GitOpsBootstrap`, `Rke2Bootstrap`: weak fairness of the run's own next step
  (every wait has a deadline) and of Argo CD or RKE2 starting; strong fairness of
  the operator repeating the bootstrap (and the rollback). Without it "a repeated
  bootstrap succeeds" has no meaning. Faults are bounded and not fair, so what
  is claimed is success after the last of them.
- Outside a "stall" the role's window between arming and cancelling is shorter
  than the timer's five minutes (`Elapsed`); with "stall" the timer may fire in
  it. Both runs include the stall; in `SshRollback` it is a `mishap`, after which
  the rollback of lockouts is no longer claimed.
- `ReviewedPlan`: weak fairness of the run's next step, Terraform's included
  (`-lock-timeout`, and the provider's own time-outs), and strong fairness of an
  operator who keeps starting `plan`, `apply` and the two repair targets. Other
  targets, `destroy` among them, may come in between for ever.
- `StorageTest`: weak fairness of the script, which runs while it is not killed
  and whose waits have deadlines, and of the cluster's controllers, which
  reconcile. Faults, node losses and other actors are not fair.

## 4. Proofs

All theorems are checked by `tlapm` with Z3, Zenon and LS4 and hold for every
value of the constants that satisfies the module's named assumption, in
particular any number of invocations, versions and runs and any set of faults,
unless a hypothesis is listed. `TypeCorrect` is listed per module; the runs leave
`TypeOK` to it, except in `storage_test` and `reviewed_plan`. Every inductive
invariant was an invariant of a TLC run of the same module before it was proved.

| theorem | statement | inductive invariant |
|---|---|---|
| `SealedStateProofs!TypeCorrect` | `Spec => []TypeOK` | itself |
| `!LeaseExclusion` | `Spec => []LeaseIsExclusive` | itself, with `TypeOK` |
| `!StateIsNeverLost` | `Spec => []LatestStateKept` (which claims nothing once Open's write was cut short) | `SafetyInv` |
| `!SealedAtRest` | `Spec => []PlaintextOnlyAfterInterruption` | `SafetyInv` |
| `!NoLostUpdate` | `Spec => NoForkedWrite` | `SafetyInv` |
| `!BoundaryIsARegister` | `Spec => ImplementsRegister`, that is `Register!Spec` | `SafetyInv` |
| `ReviewedPlanProofs!TypeCorrect` | `Spec => []TypeOK` | `Core` |
| `!BackupsFollow` | `Spec => []BackupFollows` | `RepairBackedUp`, with `Core` |
| `!ChangesKeepPromises` | `Spec => OnlyPromisedChanges` | `Sound`, with `Core` |
| `!ReconciledPerNode` | `Spec => []ReconciledOnePerNode` | `Sound`, with `Core` |
| `!WedgesAreLast` | `Spec => []WedgesLast` | `StaysWedged`, with `Sound` |
| `HostRollbackProofs!FirewallTypeCorrect` | `FirewallSpec => []FirewallTypeOK` | itself |
| `!CaptureAdmits` | `FirewallSpec => []RestoreTargetAdmits` | `FirewallInv` |
| `!CancelledOnlyWhenReachable` | `FirewallSpec => []ProofStillStands` | `FirewallInv` |
| `!TypeCorrect` | `Spec => []TypeOK` | itself |
| `!ConfigureIsFinal` | `Spec => []ConfigureStaysHardened` | `HardenedInv` |
| `!NextBootIsSafe` | `Spec => []NextBootAdmits` (which claims nothing after a `mishap`) | `BootInv` |
| `ClusterBootstrapProofs!TypeCorrect` | `Spec => []TypeOK` | itself |
| `!TokenIsSealedFirst` | `Spec => SealedBeforeUse` | `TokenInv` |
| `!LineageIsOne` | `Spec => []OneLineage` | `LineageInv`, with `TokenInv` |
| `!QuorumIsKept` | `Spec => []QuorumKept`, if Ready is never stale | `DrillInv` |
| `!GitOpsTypeCorrect` | `GitOpsSpec => []GitOpsTypeOK` | itself |
| `!AdministratorIsKept` | `GitOpsSpec => []AdministratorKept` | `HandoverInv` |
| `!SuccessIsStable` | `GitOpsSpec => []SuccessHolds` | `HandoverInv` |
| `!NothingUnprovenIsHandedOver` | `GitOpsSpec => HandoverIsProven` | `HandoverInv` |
| `CapacityAdmissionProofs!TypeCorrect` | `Spec => []TypeOK` | itself |
| `!SurgeIsExact` | the gate's `maxSurge` is the least number of pods that makes the percentage | arithmetic |
| `!NothingUncounted` | `Spec => []AllPassed` | `PassedInv` |
| `!ReserveKept` | `Spec => []ReserveRemains` | `AdmissionInv` |
| `!RequestsExact` | `Spec => []RequestIsExact` | `TypeOK`; induction over the init containers |
| `!NeitherIsScattered` | `Spec => []NoResourceScattered` | `AdmissionInv` |
| `!VolumesFitInSum` | `Spec => []VolumeSumsFit` | `AdmissionInv` |
| `!RolloutsFitAlone` | `Spec => []WorkloadFitsAlone` | `AdmissionInv` |
| `StorageTestProofs!TypeCorrect` | `Spec => []TypeOK` | itself |
| `!PassProven` | `Spec => []PassIsProven` | `Inv` |
| `!NoOrphan` | `Spec => []NothingOrphaned` | `Inv` |
| `!DataKept` | `Spec => DataRemovedOnlyAtCleanup` | `Inv` |
| `!CapturesOfOthers` | `Spec => []CapturesLeaveTestOut` | `DisksInv`, with `Inv` |
| `CapacityRenderProofs!TypeCorrect` | `Spec => []TypeOK` | itself |
| `!VerifyCurrent` | `Spec => []VerifyReproduces` | `RenderInv` |
| `!AdmissionCurrent` | `Spec => []AdmissionIsCurrent` | `RenderInv`, `AcceptInv` |
| `!EvidenceBound` | `Spec => []EvidenceIsBound` | `AcceptInv` |

*SealedState.* `LatestStateKept` is not inductive: that the newest version is in
one of two files says nothing of which one the next step replaces. `SafetyInv`
adds `SealInv` (which of the two files carries the newest version, and that a
partial plaintext always lies beside a sealed file), `HolderInv` (what the holder
of the lease knows: the plaintext it works on is the newest, the bytes it read are the plaintext's,
the `.dpapi.new` file it compares is its own) and `ExposureInv` (plaintext
exists only if its holder is still going to run `Close-SealedState` over it, or
after an interruption). Mutual exclusion is what lets the holder's knowledge
survive the steps of others, so it is proved first. The refinement maps the
register's value to the version a reader would recover and its holder to the
lease: every step commits, acquires, releases or stutters.

*ReviewedPlan.* Three groups of actions carry the proofs: a run ends
(`Finishes`), goes on without touching cloud, state or plans (`GoesOn`), or does
its work (`Works`), beside the actions that stay by themselves; `ScriptKinds` sorts every step of the script into them.
`Core` is `TypeOK` with which target a step belongs to (`OwnStep`), that what
an apply goes on with is staged and has passed its review (`Staged`), and that
a new run starts without an error or a half-done loop (`Fresh`). `BackupFollows`
speaks of a repair about to apply and of ended runs; `RepairBackedUp` says where in a repair the backup
may lie behind, and by whose hand.

`OnlyPromisedChanges` needs to know that an object about to be created is not
there, which Terraform decides by its state alone. `Sound` relates the two:
nothing is in the cloud whose entry is gone (`Noted`); key and volumes, which
nothing deletes, are where their entries say (`Kept`); an instance has an entry
only on top of the key's and its volume's (`Founded`); and an instance of which
Terraform lost an object has no entry ever again, since no plan the review
lets through would create it beside the others (`Unnoted`). `ValidPlans`
says what a plan that Terraform still takes promises about the present objects
and entries, for all three files and the staged copy, and `Judged` that what is
left to do of it is what the review saw. The same invariant bounds what the
counting of `Write-LiveCostReport` can overlook: instances and volumes are counted
in the cloud, lost ones included, and compared with the number of nodes. A lost
instance has no entry, and so nothing in its place (`Unnoted`, `Noted`); the lemma
`CountsKnown` turns the equal numbers into one instance for each node, and those
stand on volumes of which there are then no others.

`WedgesLast` is about runs that start in a wedge and meet no further trouble.
`StaysWedged` follows them: what the loop of `untaint` has cleared plus what
is left is not a set a repair can clear (`UntaintableMore`), no plan of an
incomplete or tainted stack passes its review unless it changes nothing, a repair plan
that is applied is the one that was saved, and destroying only takes entries away.

*FirewallRollback.* `FirewallInv` adds `FirewallEntered`: from the first task of a
run to the loading of its rules the host is reachable, because Ansible itself had to
reach it and only a timer that restores an admitting capture, or nothing, can
change the live table meanwhile. That is what makes the capture admitting.

*SshRollback.* `HardenedInv` follows the last part of `phase3.ps1`: the
controlled reboot forces disk and daemon to agree and discards the timer
(`Rebooted`), the diagnostics then see a hardened daemon (`Diagnosis`), and a
run that ended well does nothing more (`Ended`). `BootInv` says that the capture
is always safe, that disk and daemon only disagree between render and reload, and that an unproven drop-in on
disk always has an armed timer behind it.

*GitOpsBootstrap.* `HandoverInv` is `Stored` (a generated password the server
accepts is in its file, the initial one in the initial secret), `Reading` (which
account a step works on, and that it holds what the file holds), `Proven` (after
the session of an account its password is the server's, for the reviewer's steps
also the administrator's), `Written` (which token files are already of this
run), `Finished` and the goal `SuccessHolds`. `Stored` alone is not inductive:
that a PUT writes a password which is on disk needs `Reading`.

*Rke2Bootstrap.* `TokenInv` says that beyond the sealing step the sealed copy is
the run's token, which makes every write of a token file one of a sealed token.
`LineageInv` adds that the hosts are prepared in order: the first one fixes the
lineage, and a run that reaches a later host carries the first one's token, even
to a host with nothing to compare. `DrillInv` says that a drill begins with all
servers up and until it ends every server but the stopped one stays up.

*FoldLemmas.* The capacity gates add over nodes, documents, containers and
claims, with folds of the community modules. Such a fold is a chosen function
that satisfies a recursive equation, so nothing can be said of it before that
function is known to exist. `FoldExists` and `FoldUnique` show it by induction
over the subsets of a finite set; the library's induction theorems take the
claim as an operator, which the provers cannot instantiate, so `SetInduction`
takes it as the set of subsets it holds of and follows from the well-foundedness
of strict inclusion. The lemmas about sums (`SumRemove`, `SumMono`, `SumPlus`,
`SumSpread`), extremes (`Extremes`) and folds along a sequence (`TableRuns`)
rest on it.

*CapacityAdmission.* `RequestsExact` goes along the init containers: after `k` of
them the gate's two accumulators hold what the sidecars among them keep and the
most that was held while one of them started (`RunReaches`). That every request is a natural number (`RequestsAreNatural`) comes out
of it and is no hypothesis. `AdmissionInv` is `TypeOK` with: `PassedInv` (the
documents read so far passed on nodes that do not change), `DecidedInv` (the
compared sums are those of the verdict), `SumsInv` (the sums are those over the
documents read) and `ClusterInv` (of no workload more pods are placed than
wanted, nor wanted than Kubernetes ever makes of it). `WorstIsLeast` makes "the
two smallest nodes" stand for any two. `ReserveRemains` relates the gate's sum to
what runs long after: `MostFits` compares the two definitions of one workload's
peak, the gate's and Kubernetes', and `DemandBounded` adds that up over the
documents. For `NoResourceScattered` two sums over different things must meet: what
lies on the two nodes left is at most what all pods but the pending one ask for
(`PendingUnused`), so if neither node had room, they would hold more than
`ReserveRemains` allows (`RoomOnTwo`); this is where the pod's size against the
reserve is needed. `WorkloadFitsAlone` shows the gate's even spread to be a placement
(`SpreadFits`), `VolumeSumsFit` compares copies claim by claim (`BytesKept`,
`VolumesCounted`).

*StorageTest.* `PassIsProven` relates what three captures said to what happened
to one volume, so it needs the history in between. `Inv` adds to `TypeOK`:
`OrderInv` (claims are numbered as they are made, the bound one is the last, and
nothing belongs to one not made yet), `RetainInv` (until cleanup no PV is under
Delete, because the class was examined before anything was provisioned; the
namespace is only deleted when the PV of its claim goes with it), `PayloadInv` (a
claim is written at most once, on the node of its writer, and a reader is not on
the captured node), `IdentityInv` (the captured identity names the node that
wrote the captured claim, unless the claim was replaced before the capture and
again after it) and `ProvenInv` (what the checks have established once they are
behind). The disjunct in `IdentityInv` is what makes a replaced claim harmless:
the second capture must find the first one's claim, which is then still the last.
`DisksInv` says that each capacity report so far counts nothing of the test:
before the first there is no claim, before the second the absence of the volumes
of all of them was proved, and without the namespace none is made.

*CapacityRender.* `RenderInv` says that in a run no edit has fallen into, the
lock it read, the render in memory and every entry made so far are those of the
present files, so that each entry binds a render to its own sources; it carries
this to the report, the contract copied from it, the contract an admission holds
and a `verified` one. `AcceptInv` says of an admission that the components it has passed
were taken with the held contract's source and render, that the evidence is the
one it hashed but for what was swapped, and that the figures compared so far are
the contract's. The two meet in `AdmissionIsCurrent`.

So every invariant and every action property of the passing runs is proved.
Only model-checked is the liveness, which is beyond the prover:
`RunTerminates`, `GuardedLockoutEnds`, `ProbeLockoutIsRolledBack`,
`CapturedRunCleansUp`, `OnlyKnownWedges` in two modules and `OnlyGitOpsWedges`.
And `QuorumKept` is proved, as it is checked, without the fault `stale`.

## 5. Not modelled

- *Runtime verification scripts, declarative manifests, WireGuard, hardening,
  common, diagnostics*: read-only probes, data, and idempotent tasks without a
  protocol.
- *Cost envelope, inventory, CIDR and port checks*: comparisons and renderings of
  one document. `cost-envelope.py` repeats the counts `assert-plan.py` has just
  asserted.
- *The phase6-resize targets' own work* (receipt, no-drift proof, output) inside
  the boundary; `SealedState` has their control path.
- *Data disk* (probe, prove empty, mkfs, fstab, mount): a straight sequence
  guarded by the disk's signatures. Interrupting it is worth a model once the
  tools' exit codes on a half-made filesystem are pinned down by a test.
- *Cilium reconciliation*, *Harbor projects*, *Rancher registration*, *demo
  shutdown*, *download caches*: next in that order. Of them only the first acts on
  something that changes by itself: a pod that restarts after the delete loop is
  not deleted by the final strict loop (`reconcile-cilium-agent.sh:120`), so the
  script fails where another turn would have helped.
- *etcd snapshots, test namespaces and the support bundle* of `phase4.ps1`.

Observed while reading and checked by no run: the Phase 6 journal is looked at
once, at entry, so one that is created while a long apply runs is not seen
(`phase2.ps1:1298`); `main.go` returns when `ListenAndServe` does, which may be
before `Shutdown` has drained the connections (line 103). What the documents say
beyond what the code does in the reviewed plans, the backups, the cost report and
the capacity gate stands with the modules in section 2.
