------------------------------ MODULE StorageTest ------------------------------
(***************************************************************************)
(* The destructive Longhorn test: longhorn-storage-test.sh drives it,      *)
(* longhorn-storage-contract.py judges every capture and                   *)
(* longhorn-capacity.py with capacity-report.py gate it before and after.  *)
(* A writer pod fills a claim on one node, a reader pod checks the payload *)
(* on another, and cleanup removes the claim's storage, whose class says   *)
(* Retain.  Claim number c stands for one PVC uid with the PV and the      *)
(* Longhorn volume provisioned for it (their names derive from that uid).  *)
(***************************************************************************)
EXTENDS Naturals, FiniteSets

CONSTANTS
  Nodes,     \* the management servers
  None,      \* no file, no node
  Torn,      \* a file cut off while it was written
  DiskSize,  \* size of each dedicated disk, in volumes of the test's size
  Reserved,  \* storageReserved
  Disks,     \* what others may have scheduled and left free on each disk
  MaxClaims, \* bound on the claims made in the test namespace
  MaxFaults  \* bound on failing commands, signals, node losses, replacements

Claims == 1..MaxClaims

ASSUME StorageAssumption ==
  /\ IsFiniteSet(Nodes) /\ None \notin Nodes
  /\ {None, Torn} \cap [claim: Claims, node: Nodes] = {}
  /\ DiskSize \in Nat /\ Reserved \in Nat
  /\ Disks \subseteq [load: [Nodes -> Nat], free: [Nodes -> Nat]]
  /\ MaxClaims \in Nat \ {0} /\ MaxFaults \in Nat

VARIABLES
  \* the harness and its runtime directory
  pc,        \* next step
  attempt,   \* "main", or "exit" in the trap
  created,   \* namespace_created
  held,      \* the claim in the PVC capture being judged, 0: none
  identity,  \* identity.json: None, Torn or the claim and its source node
  pre, post, \* the capacity reports: how many volumes of the test existed at their capture
  \* the cluster
  class,     \* reclaimPolicy of longhorn-critical
  disk,      \* scheduled by other volumes, and free space of the filesystem, per node
  up,        \* nodes that are Ready and schedulable
  ns,        \* the test namespace
  bound,     \* the claim checksum-data, 0: none
  last,      \* number of claims made so far
  policy,    \* of each claim's PV
  volume,    \* content of each claim's Longhorn volume
  healthy,   \* nodes with a running replica of the claim's volume
  pod,       \* the writer or reader pod
  wrote, read, \* node on which each claim's payload was written, checked
  faults

harness == <<pc, attempt, created, held, identity, pre, post>>
world == <<class, disk, up, ns, bound, last, policy, volume, healthy, pod, wrote, read>>
vars == <<pc, attempt, created, held, identity, pre, post, class, disk, up, ns, bound,
          last, policy, volume, healthy, pod, wrote, read, faults>>

Testing == { "capacity", "class", "exists", "create", "apply", "writer", "capture",
  "identify", "before", "deleteWriter", "reader", "waitReader", "recapture", "reread", "after" }
Cleaning == {"getNs", "getPvc", "target", "patch", "retarget", "deleteNs", "waitNs", "absence"}
Ended == {"pass", "fail", "killed"}

Identities == [claim: Claims, node: Nodes]
NoPod == [kind |-> "none", node |-> None, ready |-> FALSE]

HarnessOK ==
  /\ pc \in Testing \cup Cleaning \cup {"post", "report"} \cup Ended
  /\ attempt \in {"main", "exit"} /\ created \in BOOLEAN /\ held \in 0..MaxClaims
  /\ identity \in Identities \cup {None, Torn}

WorldOK ==
  /\ class \in {"Retain", "Delete"} /\ disk \in Disks /\ up \in SUBSET Nodes
  /\ ns \in {"absent", "active", "terminating"}
  /\ bound \in 0..MaxClaims /\ last \in 0..MaxClaims
  /\ policy \in [Claims -> {"none", "Retain", "Delete"}]
  /\ volume \in [Claims -> {"none", "blank", "torn", "payload"}]
  /\ healthy \in SUBSET Nodes
  /\ pod \in [kind: {"none", "writer", "reader"}, node: Nodes \cup {None}, ready: BOOLEAN]
  /\ wrote \in [Claims -> Nodes \cup {None}] /\ read \in [Claims -> Nodes \cup {None}]

ReportsOK == {pre, post} \subseteq (0..MaxClaims) \cup {None}

TypeOK == HarnessOK /\ ReportsOK /\ WorldOK /\ faults \in 0..MaxFaults

Init ==
  /\ pc = "capacity" /\ attempt = "main" /\ created = FALSE
  /\ held = 0 /\ identity = None /\ pre = None /\ post = None
  /\ class \in {"Retain", "Delete"} /\ disk \in Disks /\ up = Nodes
  /\ ns = "absent" /\ bound = 0 /\ last = 0
  /\ policy = [c \in Claims |-> "none"] /\ volume = [c \in Claims |-> "none"]
  /\ healthy = {} /\ pod = NoPod
  /\ wrote = [c \in Claims |-> None] /\ read = [c \in Claims |-> None]
  /\ faults = 0

------------------------------------------------------------------------------
\* longhorn-capacity.py and capacity-report.py on a capture of the nodes

Existing == {c \in Claims : volume[c] # "none"}

\* storageScheduled counts a replica on every node; storageAvailable is measured.
Scheduled(n) == disk.load[n] + Cardinality(Existing)

\* _exact_names, _conditions_true, ready_node: three nodes, Ready and schedulable.
AllSchedulable == up = Nodes

CapacityGate ==
  /\ AllSchedulable
  /\ \A n \in Nodes : disk.free[n] * 100 >= DiskSize * 25
  /\ \A n \in Nodes : Scheduled(n) <= DiskSize - Reserved

\* Of the figures of a report: the volumes of the test they can count.
Capacity == Cardinality(Existing)

------------------------------------------------------------------------------
\* Leaving a step

Calm == UNCHANGED faults
Faulty == faults < MaxFaults /\ faults' = faults + 1

Moves(from, to) == pc = from /\ pc' = to /\ UNCHANGED attempt

\* set -e, phase5_fail or a signal: the EXIT trap cleans up, once.
Fail ==
  IF attempt = "main" /\ created
    THEN pc' = "getNs" /\ attempt' = "exit"
    ELSE pc' = "fail" /\ UNCHANGED attempt

Refuse(step) ==
  /\ pc = step /\ Fail /\ Calm
  /\ UNCHANGED <<created, held, identity, pre, post>> /\ UNCHANGED world

\* A command that changes the cluster: its answer arrives, or is lost.
Applied(from, to) ==
  \/ Moves(from, to) /\ Calm
  \/ pc = from /\ Fail /\ Faulty

\* A command that only reads.
Checked(from, to) ==
  /\ Moves(from, to) /\ Calm
  /\ UNCHANGED <<created, identity, pre, post>> /\ UNCHANGED world

------------------------------------------------------------------------------
\* The test

CapturePre ==
  /\ CapacityGate
  /\ Moves("capacity", "class") /\ Calm
  /\ pre' = Capacity
  /\ UNCHANGED <<created, held, identity, post>> /\ UNCHANGED world

RefuseCapacity ==
  /\ ~CapacityGate
  /\ Refuse("capacity") \/ Refuse("post")

\* Mutant: reclaimPolicy is not examined.
StorageClassUnread == Checked("class", "exists") /\ UNCHANGED held

StorageClass == class = "Retain" /\ Checked("class", "exists") /\ UNCHANGED held
RefuseClass == class # "Retain" /\ Refuse("class")

NamespaceIsFree == ns = "absent" /\ Checked("exists", "create") /\ UNCHANGED held

\* Without the answer namespace_created stays 'false' and nothing cleans up.
CreateNamespace ==
  /\ Applied("create", "apply")
  /\ ns' = "active"
  /\ created' = (pc' = "apply")
  /\ UNCHANGED <<held, identity, pre, post>>
  /\ UNCHANGED <<class, disk, up, bound, last, policy, volume, healthy, pod, wrote, read>>

New(kind) == [kind |-> kind, node |-> None, ready |-> FALSE]

\* The claim and the writer go to the API server one after the other.
ApplyWriter ==
  /\ Applied("apply", "writer")
  /\ bound' = 1 /\ last' = 1
  /\ \/ pod' = New("writer")
     \/ pc' # "writer" /\ pod' = NoPod
  /\ UNCHANGED <<created, held, identity, pre, post>>
  /\ UNCHANGED <<class, disk, up, ns, policy, volume, healthy, wrote, read>>

Runs(kind) == pod.kind = kind /\ pod.ready

WriterReady == Runs("writer") /\ Checked("writer", "capture") /\ UNCHANGED held

ReadClaim(from, to) ==
  /\ bound # 0
  /\ Checked(from, to)
  /\ held' = bound

CaptureClaim == ReadClaim("capture", "identify")

Provisioned(c, kept) ==
  /\ IF kept THEN policy[c] = "Retain" ELSE policy[c] # "none"
  /\ volume[c] # "none"

\* Mutant: neither readiness nor node of the writer is examined.
CaptureIdentityAnywhere ==
  /\ Applied("identify", "before")
  /\ Provisioned(held, TRUE)
  /\ identity' = IF pc' = "before" THEN [claim |-> held, node |-> pod.node] ELSE Torn
  /\ UNCHANGED <<created, held, pre, post>> /\ UNCHANGED world

\* write_private_json truncates the file and then fills it.
CaptureIdentity ==
  /\ Applied("identify", "before")
  /\ Provisioned(held, TRUE) /\ Runs("writer")
  /\ identity' = IF pc' = "before" THEN [claim |-> held, node |-> pod.node] ELSE Torn
  /\ UNCHANGED <<created, held, pre, post>> /\ UNCHANGED world

RefuseIdentity ==
  /\ Refuse("identify")
  /\ ~(Provisioned(held, TRUE) /\ Runs("writer"))

Captured == identity \in Identities

\* validate_health: attached, and a running replica on every node.
Healthy ==
  /\ volume[identity.claim] # "none"
  /\ bound = identity.claim /\ pod.node # None
  /\ healthy = Nodes

HealthBefore == Checked("before", "deleteWriter") /\ Healthy /\ UNCHANGED held
HealthAfter == Checked("after", "getNs") /\ Healthy /\ UNCHANGED held

DeleteWriter ==
  /\ pod.kind = "writer" /\ pod.node \in up \cup {None}
  /\ Applied("deleteWriter", "reader")
  /\ pod' = NoPod
  /\ UNCHANGED <<created, held, identity, pre, post>>
  /\ UNCHANGED <<class, disk, up, ns, bound, last, policy, volume, healthy, wrote, read>>

CreateReader ==
  /\ Applied("reader", "waitReader")
  /\ pod' = New("reader")
  /\ UNCHANGED <<created, held, identity, pre, post>>
  /\ UNCHANGED <<class, disk, up, ns, bound, last, policy, volume, healthy, wrote, read>>

ReaderReady == Runs("reader") /\ Checked("waitReader", "recapture") /\ UNCHANGED held
RecaptureClaim == ReadClaim("recapture", "reread")

\* verify_reschedule
Rescheduled ==
  /\ held = identity.claim /\ Provisioned(held, FALSE)
  /\ Runs("reader") /\ pod.node # identity.node

VerifyReschedule == Checked("reread", "after") /\ Rescheduled /\ UNCHANGED held
RefuseReschedule == Refuse("reread") /\ ~Rescheduled

\* kubectl wait and the health loop give up at their deadline, after some trouble
\* or over a volume that fits nowhere; a cluster that is merely slow costs a fault
\* (Interrupted).
TimesOut ==
  \/ Refuse("writer")
  \/ faults > 0 /\ \E step \in {"before", "deleteWriter", "waitReader", "after"} : Refuse(step)

------------------------------------------------------------------------------
\* cleanup_test_objects, from the end of the test or from the trap

GetNamespace ==
  /\ \/ ns = "absent" /\ Checked("getNs", "waitNs")
     \/ ns # "absent" /\ Checked("getNs", "getPvc")
  /\ UNCHANGED held

\* Mutant: the namespace goes although no identity was captured.
GetClaimAnyway ==
  \/ (bound = 0 \/ identity = None) /\ Checked("getPvc", "deleteNs") /\ UNCHANGED held
  \/ identity # None /\ ReadClaim("getPvc", "target")

GetClaim ==
  \/ bound = 0 /\ Checked("getPvc", "deleteNs") /\ UNCHANGED held
  \/ identity # None /\ ReadClaim("getPvc", "target")

\* "retaining the labelled namespace is safer than orphaning a Retain-policy volume"
RetainNamespace == bound # 0 /\ identity = None /\ Refuse("getPvc")

\* validate_cleanup_target on the captured claim and fresh lists
Owned(kept) ==
  /\ Captured
  /\ held = identity.claim
  /\ policy[held] = kept /\ volume[held] # "none"

\* Mutant: a PV that an earlier attempt already patched is refused.
TargetOnce == Checked("target", "patch") /\ Owned("Retain") /\ UNCHANGED held

Target ==
  /\ \/ Checked("target", "patch") /\ Owned("Retain")
     \/ Checked("target", "deleteNs") /\ Owned("Delete")
  /\ UNCHANGED held

RefuseTarget == Refuse("target") /\ ~Owned("Retain") /\ ~Owned("Delete")

Patch ==
  /\ Applied("patch", "retarget")
  /\ policy[identity.claim] # "none"
  /\ policy' = [policy EXCEPT ![identity.claim] = "Delete"]
  /\ UNCHANGED <<created, held, identity, pre, post>>
  /\ UNCHANGED <<class, disk, up, ns, bound, last, volume, healthy, pod, wrote, read>>

\* The volume list of the first check is used again.
Retarget == Checked("retarget", "deleteNs") /\ policy[held] = "Delete" /\ UNCHANGED held

PersistentVolumeLost == Refuse("retarget") /\ policy[held] # "Delete"

DeleteNamespace ==
  /\ ns # "absent"
  /\ Applied("deleteNs", "waitNs")
  /\ ns' = "terminating"
  /\ UNCHANGED <<created, held, identity, pre, post>>
  /\ UNCHANGED <<class, disk, up, bound, last, policy, volume, healthy, pod, wrote, read>>

AlreadyDeleted == ns = "absent" /\ Refuse("deleteNs")

\* Mutant: a main run measures the disks as soon as its namespace is gone.
NamespaceGoneOnly ==
  /\ ns = "absent" /\ UNCHANGED held
  /\ Checked("waitNs", IF attempt = "main" THEN "post" ELSE "absence")

NamespaceGone == ns = "absent" /\ Checked("waitNs", "absence") /\ UNCHANGED held

\* Mutant: only the namespace is looked for.
RunAbsenceNamespace == ns = "absent"

\* No PersistentVolume and no Longhorn volume refers to the namespace.
RunAbsence == ns = "absent" /\ \A c \in Claims : policy[c] = "none" /\ volume[c] = "none"

\* validate_run_absence in its loop, then validate_absence on the same lists.
ProveAbsence ==
  /\ RunAbsence /\ identity # Torn
  /\ pc = "absence"
  /\ pc' = IF attempt = "main" THEN "post" ELSE "fail"
  /\ created' = FALSE
  /\ Calm
  /\ UNCHANGED <<attempt, held, identity, pre, post>> /\ UNCHANGED world

CapturePost ==
  /\ CapacityGate
  /\ Moves("post", "report") /\ Calm
  /\ post' = Capacity
  /\ UNCHANGED <<created, held, identity, pre>> /\ UNCHANGED world

Report == pre # None /\ post # None /\ Checked("report", "pass") /\ UNCHANGED held

\* A failing command, a cleanup loop at its deadline, INT or TERM ...
Interrupted ==
  /\ pc \notin Ended /\ Fail /\ Faulty
  /\ UNCHANGED <<created, held, identity, pre, post>> /\ UNCHANGED world

\* ... and KILL, or a second signal in the trap, which has reset its handlers.
Killed ==
  /\ pc \notin Ended /\ pc' = "killed" /\ Faulty
  /\ UNCHANGED <<attempt, created, held, identity, pre, post>> /\ UNCHANGED world

Test ==
  \/ CapturePre \/ RefuseCapacity \/ StorageClass \/ RefuseClass \/ NamespaceIsFree
  \/ CreateNamespace \/ ApplyWriter \/ WriterReady \/ CaptureClaim \/ CaptureIdentity
  \/ RefuseIdentity \/ HealthBefore \/ DeleteWriter \/ CreateReader \/ ReaderReady
  \/ RecaptureClaim \/ VerifyReschedule \/ RefuseReschedule \/ HealthAfter
  \/ TimesOut

Cleanup ==
  \/ GetNamespace \/ GetClaim \/ RetainNamespace \/ Target \/ RefuseTarget \/ Patch
  \/ Retarget \/ PersistentVolumeLost \/ DeleteNamespace \/ AlreadyDeleted
  \/ NamespaceGone \/ ProveAbsence

Harness == Test \/ Cleanup \/ CapturePost \/ Report

------------------------------------------------------------------------------
\* Kubernetes and Longhorn

Cluster(A) == A /\ UNCHANGED harness /\ UNCHANGED <<class, disk>>

\* WaitForFirstConsumer: the first placement provisions; the scheduler of
\* Longhorn overprovisions no disk.
Provision ==
  IF policy[bound] # "none" THEN UNCHANGED <<policy, volume, healthy>>
  ELSE /\ \A n \in Nodes : Scheduled(n) < DiskSize - Reserved
       /\ policy' = [policy EXCEPT ![bound] = class]
       /\ volume' = [volume EXCEPT ![bound] = "blank"]
       /\ healthy' = up

Place(n) ==
  /\ ns = "active" /\ pod.kind # "none" /\ pod.node = None /\ bound # 0
  /\ pod.kind = "reader" => n # identity.node
  /\ pod' = [pod EXCEPT !.node = n]
  /\ Provision
  /\ Calm /\ UNCHANGED <<up, ns, bound, last, wrote, read>>

\* `test ! -e /data/payload.bin`: a writer that starts twice never gets ready.
WriterStarts ==
  /\ pod.kind = "writer" /\ pod.node \in up /\ ~pod.ready /\ volume[bound] = "blank"
  /\ \/ /\ Calm
        /\ volume' = [volume EXCEPT ![bound] = "payload"]
        /\ pod' = [pod EXCEPT !.ready = TRUE]
        /\ wrote' = [wrote EXCEPT ![bound] = pod.node]
     \/ /\ Faulty
        /\ volume' = [volume EXCEPT ![bound] = "torn"]
        /\ UNCHANGED <<pod, wrote>>
  /\ UNCHANGED <<up, ns, bound, last, policy, healthy, read>>

ReaderStarts ==
  /\ pod.kind = "reader" /\ pod.node \in up /\ ~pod.ready /\ volume[bound] = "payload"
  /\ pod' = [pod EXCEPT !.ready = TRUE]
  /\ read' = [read EXCEPT ![bound] = pod.node]
  /\ Calm /\ UNCHANGED <<up, ns, bound, last, policy, volume, healthy, wrote>>

\* The namespace controller: pods first, then the claim they protect.
Finalize ==
  /\ ns = "terminating"
  /\ \/ pod # NoPod /\ pod.node \in up \cup {None} /\ pod' = NoPod /\ UNCHANGED <<ns, bound>>
     \/ pod = NoPod /\ bound # 0 /\ bound' = 0 /\ UNCHANGED <<ns, pod>>
     \/ pod = NoPod /\ bound = 0 /\ ns' = "absent" /\ UNCHANGED <<bound, pod>>
  /\ Calm /\ UNCHANGED <<up, last, policy, volume, healthy, wrote, read>>

\* The CSI controller deletes the volume of a released Delete-policy PV, then the PV.
Reclaim(c) ==
  /\ policy[c] = "Delete" /\ bound # c
  /\ IF volume[c] # "none"
       THEN volume' = [volume EXCEPT ![c] = "none"] /\ UNCHANGED policy
       ELSE policy' = [policy EXCEPT ![c] = "none"] /\ UNCHANGED volume
  /\ Calm /\ UNCHANGED <<up, ns, bound, last, healthy, pod, wrote, read>>

Recovers(n) ==
  /\ n \notin healthy \/ n \notin up
  /\ up' = up \cup {n}
  /\ healthy' = healthy \cup {n}
  /\ Calm /\ UNCHANGED <<ns, bound, last, policy, volume, pod, wrote, read>>

NodeLost(n) ==
  /\ n \in up /\ Faulty
  /\ up' = up \ {n}
  /\ healthy' = healthy \ {n}
  /\ pod' = [pod EXCEPT !.ready = @ /\ pod.node # n]
  /\ UNCHANGED <<ns, bound, last, policy, volume, wrote, read>>

\* Another actor replaces claim and pod under the same names and labels: an
\* operator, or a second run given the same PHASE5_STORAGE_TEST_RUN_ID.
Replaced ==
  /\ ns = "active" /\ bound # 0 /\ last < MaxClaims /\ Faulty
  /\ bound' = last + 1 /\ last' = last + 1
  /\ pod' \in {NoPod, New("writer")}
  /\ UNCHANGED <<up, ns, policy, volume, healthy, wrote, read>>

\* Other volumes are created, filled and deleted; Longhorn updates its figures.
OtherVolumes ==
  /\ disk' \in Disks \ {disk}
  /\ Calm /\ UNCHANGED harness
  /\ UNCHANGED <<class, up, ns, bound, last, policy, volume, healthy, pod, wrote, read>>

Controllers ==
  Cluster( \/ WriterStarts \/ ReaderStarts \/ Finalize
           \/ \E n \in Nodes : Place(n) \/ Recovers(n)
           \/ \E c \in Claims : Reclaim(c) )

Trouble == Interrupted \/ Killed \/ Cluster(Replaced \/ \E n \in Nodes : NodeLost(n))

Next == Harness \/ Controllers \/ OtherVolumes \/ Trouble

\* The script runs while it is not killed; the cluster's controllers reconcile.
Spec == Init /\ [][Next]_vars /\ WF_vars(Harness) /\ WF_vars(Controllers)

------------------------------------------------------------------------------
Gone == ns = "absent" /\ \A c \in Claims : policy[c] = "none" /\ volume[c] = "none"

(* A report with status PASS: the run's namespace, PersistentVolumes and   *)
(* Longhorn volumes are gone, and the payload one pod wrote to a volume    *)
(* was read from that very volume by a pod on another node, whatever       *)
(* happened between the captures (build_report, "status": "PASS").         *)
PassIsProven ==
  pc = "pass" =>
    /\ Gone
    /\ \E c \in Claims :
         /\ c = identity.claim
         /\ wrote[c] # None /\ read[c] # None /\ wrote[c] # read[c]

(* Both capacity reports of a PASS are of the others' disks: none of the   *)
(* volumes the test had, those of a claim that replaced its own included,  *)
(* existed when the figures were captured (longhorn-storage-test.sh:232,   *)
(* 523).  build_report (516-531) does not compare the two: what others did *)
(* in between may make them differ.                                        *)
CapturesLeaveTestOut == pc = "pass" => pre = 0 /\ post = 0

(* "retaining the labelled namespace is safer than orphaning a             *)
(* Retain-policy volume" (longhorn-storage-test.sh:99): unless the claim   *)
(* was replaced meanwhile, no PV is left behind under Retain once its      *)
(* namespace is gone, however the run and its cleanup were interrupted.    *)
NothingOrphaned ==
  ns = "absent" /\ last <= 1 => \A c \in Claims : policy[c] # "Retain"

(* "longhorn_test_data_removed_only_at_cleanup" (validate_absence): no     *)
(* volume of the test disappears while the run may still read it, even     *)
(* when its claim is replaced under it.                                    *)
DataRemovedOnlyAtCleanup ==
  [][\A c \in Claims :
       volume[c] # "none" /\ volume'[c] = "none" => pc \notin Testing]_vars

(* "This also makes cleanup retry-safe" (longhorn-storage-test.sh:134): a  *)
(* run that captured its identity removes namespace, PV and volume in the  *)
(* end although one command of test or cleanup failed or lost its answer,  *)
(* a cleanup wait expired, or a node went away.                            *)
CapturedRunCleansUp ==
  Captured ~> Gone \/ pc = "killed" \/ faults > 1 \/ last > 1
================================================================================
