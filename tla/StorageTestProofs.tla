--------------------------- MODULE StorageTestProofs ---------------------------
(***************************************************************************)
(* Theorems about StorageTest, for all nodes, disks, loads, claims and     *)
(* faults: what a report with status PASS proves, that no PersistentVolume *)
(* is orphaned, that no volume goes while the test may read it, and that   *)
(* the capacity reports count nothing of the test.                         *)
(***************************************************************************)
EXTENDS StorageTest, FiniteSetTheorems, TLAPS

Setup == {"capacity", "class", "exists", "create"}
Early == Setup \cup {"apply"}

\* After the identity capture, up to the end of the test.
Identified == {"before", "deleteWriter", "reader", "waitReader", "recapture", "reread", "after"}

\* Up to the creation of the reader.
Unread == Testing \ {"waitReader", "recapture", "reread", "after"}

(***************************************************************************)
(* The claims in the order they are made.  Nothing is made before          *)
(* `kubectl apply` of the writer; while the namespace is there the claim   *)
(* bound is the last one made; nothing belongs to a claim not made yet.    *)
(***************************************************************************)
OrderInv ==
  /\ bound \in {0, last} /\ held <= last
  /\ pc \in {"identify", "target", "patch", "retarget"} => held # 0
  /\ pc \in Early => last = 0
  /\ pc \in Testing \ Setup => ns = "active"
  /\ pc \in Testing \ Early => last > 0
  /\ ns = "active" /\ last > 0 => bound = last
  /\ pod.kind # "none" => bound # 0
  /\ \A c \in Claims : c > last =>
       policy[c] = "none" /\ volume[c] = "none" /\ wrote[c] = None /\ read[c] = None

(***************************************************************************)
(* Until cleanup no PV can be reclaimed (reclaim_policy of the class is    *)
(* examined first, the patch to Delete comes last), and the namespace is   *)
(* only deleted when the PV of its claim will go with it.                  *)
(***************************************************************************)
RetainInv ==
  /\ pc \in Testing \ {"capacity", "class"} => class = "Retain"
  /\ pc \in Testing => \A c \in Claims : policy[c] # "Delete"
  /\ pc = "deleteNs" /\ ns = "active" /\ last = 1 => policy[1] = "Delete"
  /\ ns # "active" /\ last <= 1 => \A c \in Claims : policy[c] # "Retain"

(***************************************************************************)
(* A claim is written at most once, on the node of its writer; the reader  *)
(* is on another node than the captured one (the anti-affinity of its      *)
(* manifest).                                                              *)
(***************************************************************************)
PayloadInv ==
  /\ bound # 0 => /\ policy[bound] = "none" => volume[bound] = "none" /\ wrote[bound] = None
                  /\ wrote[bound] # None => volume[bound] # "blank"
  /\ Runs("writer") => wrote[bound] = pod.node /\ pod.node \in Nodes
  /\ Runs("reader") => read[bound] = pod.node /\ pod.node \in Nodes
  /\ pod.kind = "reader" => Captured /\ pod.node # identity.node

Matched(c) == wrote[c] = identity.node

(***************************************************************************)
(* The captured identity names the node that wrote the captured claim,     *)
(* unless the claim was replaced before it was captured and has since been *)
(* again; a reader is judged on the claim it runs on.                      *)
(***************************************************************************)
IdentityInv ==
  /\ pc \in Identified => Captured
  /\ Captured => identity.claim <= last /\ (identity.claim = last => Matched(last))
  /\ pc \in Unread => pod.kind # "reader" /\ \A c \in Claims : read[c] = None
  /\ \A c \in Claims : read[c] # None => Captured /\ read[c] # identity.node
  /\ pc = "reread" /\ pod.kind = "reader" => held = last

\* Past the check of the reader.
Tested ==
  \/ attempt = "main" /\ pc \in Cleaning \cup {"after"}
  \/ pc \in {"post", "report", "pass"}

(***************************************************************************)
(* What the checks of a run have established.                              *)
(***************************************************************************)
ProvenInv ==
  /\ Tested => Captured /\ Matched(identity.claim) /\ read[identity.claim] # None
  /\ pc \in {"post", "report", "pass"} => Gone

Inv == TypeOK /\ OrderInv /\ RetainInv /\ PayloadInv /\ IdentityInv /\ ProvenInv

(***************************************************************************)
(* A run that gives up, is interrupted or killed leaves everything as it is: *)
(* it goes to the trap, which starts with `kubectl get namespace`, or ends. *)
(***************************************************************************)
Abandons ==
  /\ UNCHANGED <<created, held, identity, pre, post>> /\ UNCHANGED world
  /\ \/ pc' = "getNs" /\ attempt' = "exit"
     \/ pc' \in {"fail", "killed"} /\ UNCHANGED attempt
  /\ faults' \in 0..MaxFaults

GivesUp ==
  \/ RefuseCapacity \/ RefuseClass \/ RefuseIdentity \/ RefuseReschedule \/ TimesOut
  \/ RetainNamespace \/ RefuseTarget \/ PersistentVolumeLost \/ AlreadyDeleted
  \/ Interrupted \/ Killed

LEMMA Abandoned ==
  ASSUME HarnessOK, faults \in 0..MaxFaults, GivesUp
  PROVE  Abandons
<1>1. CASE Interrupted \/ Killed
  BY <1>1, StorageAssumption DEF StorageAssumption, Interrupted, Killed, Fail, Faulty, Abandons
<1>2. ASSUME NEW step, Refuse(step)
      PROVE  Abandons
  BY <1>2 DEF Refuse, Fail, Calm, Abandons
<1> QED
  BY <1>1, <1>2, Zenon DEF GivesUp, RefuseCapacity, RefuseClass, RefuseIdentity, RefuseReschedule,
     TimesOut, RetainNamespace, RefuseTarget, PersistentVolumeLost, AlreadyDeleted

(***************************************************************************)
(* The steps of the system, one by one; the last is of others' volumes, or *)
(* none at all.                                                            *)
(***************************************************************************)
Elsewhere ==
  /\ disk' \in Disks /\ UNCHANGED harness /\ UNCHANGED faults
  /\ UNCHANGED <<class, up, ns, bound, last, policy, volume, healthy, pod, wrote, read>>

Step ==
  \/ Abandons
  \/ CapturePre \/ StorageClass \/ NamespaceIsFree \/ CreateNamespace \/ ApplyWriter
  \/ WriterReady \/ CaptureClaim \/ CaptureIdentity \/ HealthBefore \/ DeleteWriter
  \/ CreateReader \/ ReaderReady \/ RecaptureClaim \/ VerifyReschedule
  \/ HealthAfter \/ GetNamespace \/ GetClaim \/ Target \/ Patch \/ Retarget
  \/ DeleteNamespace \/ NamespaceGone \/ ProveAbsence \/ CapturePost \/ Report
  \/ Cluster(WriterStarts)
  \/ Cluster(ReaderStarts)
  \/ Cluster(Finalize)
  \/ \E n \in Nodes : Cluster(Place(n))
  \/ \E n \in Nodes : Cluster(Recovers(n))
  \/ \E c \in Claims : Cluster(Reclaim(c))
  \/ Cluster(Replaced)
  \/ \E n \in Nodes : Cluster(NodeLost(n))
  \/ Elsewhere

LEMMA Steps == TypeOK /\ [Next]_vars => Step
<1> SUFFICES ASSUME TypeOK, [Next]_vars PROVE Step
  OBVIOUS
<1>1. CASE GivesUp
  BY <1>1, Abandoned DEF TypeOK, Step
<1>2. CASE Controllers
  BY <1>2, Zenon DEF Controllers, Cluster, Step
<1>3. CASE Cluster(Replaced \/ \E n \in Nodes : NodeLost(n))
  BY <1>3, Zenon DEF Cluster, Step
<1>4. CASE Harness /\ ~GivesUp
  BY <1>4, Zenon DEF Harness, Test, Cleanup, GivesUp, Step
<1>5. CASE UNCHANGED vars
  BY <1>5, Zenon DEF vars, harness, TypeOK, WorldOK, Elsewhere, Step
<1>6. CASE OtherVolumes
  BY <1>6, Zenon DEF OtherVolumes, Calm, Elsewhere, Step
<1> QED
  BY <1>1, <1>2, <1>3, <1>4, <1>5, <1>6, Zenon DEF Next, Trouble, GivesUp

(***************************************************************************)
(* Each group of variables keeps its type when a step leaves it alone.     *)
(***************************************************************************)
LEMMA Unmoved ==
  ASSUME TypeOK
  PROVE  /\ UNCHANGED world => WorldOK'
         /\ UNCHANGED <<pre, post>> => ReportsOK'
         /\ UNCHANGED harness => HarnessOK' /\ ReportsOK'
         /\ Calm \/ Faulty => faults' \in 0..MaxFaults
<1>1. UNCHANGED world => WorldOK'
  BY Zenon DEF TypeOK, WorldOK, world
<1>2. UNCHANGED <<pre, post>> => ReportsOK'
  BY Zenon DEF TypeOK, ReportsOK
<1>3. UNCHANGED harness => HarnessOK' /\ UNCHANGED <<pre, post>>
  BY Zenon DEF TypeOK, HarnessOK, harness
<1>4. Calm \/ Faulty => faults' \in 0..MaxFaults
  BY StorageAssumption DEF StorageAssumption, TypeOK, Calm, Faulty
<1> QED
  BY <1>1, <1>2, <1>3, <1>4

(***************************************************************************)
(* The pods kubectl applies: not placed yet.                               *)
(***************************************************************************)
LEMMA Pods ==
  {NoPod, New("writer"), New("reader")}
     \subseteq [kind: {"none", "writer", "reader"}, node: Nodes \cup {None}, ready: BOOLEAN]
BY DEF NoPod, New

(***************************************************************************)
(* There are no more volumes than claims.                                  *)
(***************************************************************************)
LEMMA ExistingCount == Cardinality(Existing) \in 0..MaxClaims
<1>0. MaxClaims \in Int /\ MaxClaims >= 1
  BY StorageAssumption DEF StorageAssumption
<1>1. IsFiniteSet(Claims) /\ Cardinality(Claims) = MaxClaims
  <2>1. IsFiniteSet(1..MaxClaims) /\ Cardinality(1..MaxClaims) = MaxClaims - 1 + 1
    BY <1>0, FS_Interval
  <2> QED
    BY <1>0, <2>1 DEF Claims
<1>2. IsFiniteSet(Existing) /\ Cardinality(Existing) <= Cardinality(Claims)
  BY <1>1, FS_Subset DEF Existing
<1> QED
  BY <1>0, <1>1, <1>2, FS_CardinalityType

(***************************************************************************)
(* Every step keeps the types.                                             *)
(***************************************************************************)
LEMMA TypeStep ==
  ASSUME Inv, [Next]_vars
  PROVE  TypeOK'
<1>0. TypeOK
  BY DEF Inv
<1>1. CASE Abandons
  <2>1. HarnessOK'
    BY <1>0, <1>1 DEF Abandons, TypeOK, HarnessOK, Cleaning, Ended
  <2> QED
    BY <1>0, <1>1, <2>1, Unmoved DEF Abandons, TypeOK
<1>2. CASE CapturePre
  <2>1. HarnessOK'
    BY <1>0, <1>2 DEF CapturePre, Moves, TypeOK, HarnessOK, Testing, Cleaning, Ended
  <2>2. ReportsOK'
    BY <1>0, <1>2, ExistingCount DEF CapturePre, Capacity, TypeOK, ReportsOK
  <2>4. UNCHANGED world /\ Calm
    BY <1>2, Zenon DEF CapturePre
  <2> QED
    BY <1>0, <2>1, <2>2, <2>4, Unmoved DEF TypeOK
<1>3. CASE StorageClass
  <2>1. HarnessOK'
    BY <1>0, <1>3 DEF StorageClass, Checked, Moves, TypeOK, HarnessOK, Testing, Cleaning, Ended
  <2>2. UNCHANGED <<pre, post>> /\ UNCHANGED world /\ (Calm \/ Faulty)
    BY <1>3, Zenon DEF StorageClass, Checked
  <2> QED
    BY <1>0, <2>1, <2>2, Unmoved DEF TypeOK
<1>4. CASE NamespaceIsFree
  <2>1. HarnessOK'
    BY <1>0, <1>4 DEF NamespaceIsFree, Checked, Moves, TypeOK, HarnessOK, Testing, Cleaning, Ended
  <2>2. UNCHANGED <<pre, post>> /\ UNCHANGED world /\ (Calm \/ Faulty)
    BY <1>4, Zenon DEF NamespaceIsFree, Checked
  <2> QED
    BY <1>0, <2>1, <2>2, Unmoved DEF TypeOK
<1>5. CASE CreateNamespace
  <2>1. HarnessOK'
    BY <1>0, <1>5 DEF CreateNamespace, Applied, Moves, Fail, TypeOK, HarnessOK, Testing, Cleaning,
       Ended
  <2>2. WorldOK'
    BY <1>0, <1>5, StorageAssumption DEF StorageAssumption, CreateNamespace, TypeOK, WorldOK
  <2>3. UNCHANGED <<pre, post>> /\ (Calm \/ Faulty)
    BY <1>5, Zenon DEF CreateNamespace, Applied
  <2> QED
    BY <1>0, <2>1, <2>2, <2>3, Unmoved DEF TypeOK
<1>6. CASE ApplyWriter
  <2>1. HarnessOK'
    BY <1>0, <1>6 DEF ApplyWriter, Applied, Moves, Fail, TypeOK, HarnessOK, Testing, Cleaning,
       Ended
  <2>2. WorldOK'
    BY <1>0, <1>6, StorageAssumption, Pods DEF StorageAssumption, ApplyWriter, TypeOK, WorldOK
  <2>3. UNCHANGED <<pre, post>> /\ (Calm \/ Faulty)
    BY <1>6, Zenon DEF ApplyWriter, Applied
  <2> QED
    BY <1>0, <2>1, <2>2, <2>3, Unmoved DEF TypeOK
<1>7. CASE WriterReady
  <2>1. HarnessOK'
    BY <1>0, <1>7 DEF WriterReady, Checked, Moves, TypeOK, HarnessOK, Testing, Cleaning, Ended
  <2>2. UNCHANGED <<pre, post>> /\ UNCHANGED world /\ (Calm \/ Faulty)
    BY <1>7, Zenon DEF WriterReady, Checked
  <2> QED
    BY <1>0, <2>1, <2>2, Unmoved DEF TypeOK
<1>8. CASE CaptureClaim
  <2>1. HarnessOK'
    BY <1>0, <1>8 DEF CaptureClaim, ReadClaim, Checked, Moves, TypeOK, HarnessOK, WorldOK,
       Testing, Cleaning, Ended
  <2>2. UNCHANGED <<pre, post>> /\ UNCHANGED world /\ (Calm \/ Faulty)
    BY <1>8, Zenon DEF CaptureClaim, ReadClaim, Checked
  <2> QED
    BY <1>0, <2>1, <2>2, Unmoved DEF TypeOK
<1>9. CASE CaptureIdentity
  <2>1. /\ held \in Claims /\ pod.node \in Nodes /\ pc = "identify"
        /\ UNCHANGED <<created, held>>
    BY <1>0, <1>9 DEF CaptureIdentity, Applied, Moves, Inv, OrderInv, PayloadInv, TypeOK,
       HarnessOK, Claims
  <2>2. identity' \in Identities \cup {Torn}
    BY <2>1, <1>9 DEF CaptureIdentity, Identities
  <2>3. pc' \in Testing \cup Cleaning \cup Ended /\ attempt' \in {"main", "exit"}
    BY <1>0, <1>9 DEF CaptureIdentity, Applied, Moves, Fail, TypeOK, HarnessOK, Testing,
       Cleaning, Ended
  <2>4. HarnessOK'
    BY <1>0, <2>1, <2>2, <2>3 DEF TypeOK, HarnessOK
  <2>5. UNCHANGED <<pre, post>> /\ UNCHANGED world /\ (Calm \/ Faulty)
    BY <1>9, Zenon DEF CaptureIdentity, Applied
  <2> QED
    BY <1>0, <2>4, <2>5, Unmoved DEF TypeOK
<1>10. CASE HealthBefore
  <2>1. HarnessOK'
    BY <1>0, <1>10 DEF HealthBefore, Checked, Moves, TypeOK, HarnessOK, Testing, Cleaning, Ended
  <2>2. UNCHANGED <<pre, post>> /\ UNCHANGED world /\ (Calm \/ Faulty)
    BY <1>10, Zenon DEF HealthBefore, Checked
  <2> QED
    BY <1>0, <2>1, <2>2, Unmoved DEF TypeOK
<1>11. CASE DeleteWriter
  <2>1. HarnessOK'
    BY <1>0, <1>11 DEF DeleteWriter, Applied, Moves, Fail, TypeOK, HarnessOK, Testing, Cleaning,
       Ended
  <2>2. WorldOK'
    BY <1>0, <1>11, StorageAssumption, Pods DEF StorageAssumption, DeleteWriter, TypeOK, WorldOK
  <2>3. UNCHANGED <<pre, post>> /\ (Calm \/ Faulty)
    BY <1>11, Zenon DEF DeleteWriter, Applied
  <2> QED
    BY <1>0, <2>1, <2>2, <2>3, Unmoved DEF TypeOK
<1>12. CASE CreateReader
  <2>1. HarnessOK'
    BY <1>0, <1>12 DEF CreateReader, Applied, Moves, Fail, TypeOK, HarnessOK, Testing, Cleaning,
       Ended
  <2>2. WorldOK'
    BY <1>0, <1>12, StorageAssumption, Pods DEF StorageAssumption, CreateReader, TypeOK, WorldOK
  <2>3. UNCHANGED <<pre, post>> /\ (Calm \/ Faulty)
    BY <1>12, Zenon DEF CreateReader, Applied
  <2> QED
    BY <1>0, <2>1, <2>2, <2>3, Unmoved DEF TypeOK
<1>13. CASE ReaderReady
  <2>1. HarnessOK'
    BY <1>0, <1>13 DEF ReaderReady, Checked, Moves, TypeOK, HarnessOK, Testing, Cleaning, Ended
  <2>2. UNCHANGED <<pre, post>> /\ UNCHANGED world /\ (Calm \/ Faulty)
    BY <1>13, Zenon DEF ReaderReady, Checked
  <2> QED
    BY <1>0, <2>1, <2>2, Unmoved DEF TypeOK
<1>14. CASE RecaptureClaim
  <2>1. HarnessOK'
    BY <1>0, <1>14 DEF RecaptureClaim, ReadClaim, Checked, Moves, TypeOK, HarnessOK, WorldOK,
       Testing, Cleaning, Ended
  <2>2. UNCHANGED <<pre, post>> /\ UNCHANGED world /\ (Calm \/ Faulty)
    BY <1>14, Zenon DEF RecaptureClaim, ReadClaim, Checked
  <2> QED
    BY <1>0, <2>1, <2>2, Unmoved DEF TypeOK
<1>15. CASE VerifyReschedule
  <2>1. HarnessOK'
    BY <1>0, <1>15 DEF VerifyReschedule, Rescheduled, Checked, Moves, TypeOK, HarnessOK, Testing,
       Cleaning, Ended
  <2>2. UNCHANGED <<pre, post>> /\ UNCHANGED world /\ (Calm \/ Faulty)
    BY <1>15, Zenon DEF VerifyReschedule, Checked
  <2> QED
    BY <1>0, <2>1, <2>2, Unmoved DEF TypeOK
<1>16. CASE HealthAfter
  <2>1. HarnessOK'
    BY <1>0, <1>16 DEF HealthAfter, Checked, Moves, TypeOK, HarnessOK, Testing, Cleaning, Ended
  <2>2. UNCHANGED <<pre, post>> /\ UNCHANGED world /\ (Calm \/ Faulty)
    BY <1>16, Zenon DEF HealthAfter, Checked
  <2> QED
    BY <1>0, <2>1, <2>2, Unmoved DEF TypeOK
<1>17. CASE GetNamespace
  <2>1. HarnessOK'
    BY <1>0, <1>17 DEF GetNamespace, Checked, Moves, TypeOK, HarnessOK, Testing, Cleaning, Ended
  <2>2. UNCHANGED <<pre, post>> /\ UNCHANGED world /\ (Calm \/ Faulty)
    BY <1>17, Zenon DEF GetNamespace, Checked
  <2> QED
    BY <1>0, <2>1, <2>2, Unmoved DEF TypeOK
<1>18. CASE GetClaim
  <2>1. HarnessOK'
    BY <1>0, <1>18 DEF GetClaim, ReadClaim, Checked, Moves, TypeOK, HarnessOK, WorldOK, Testing,
       Cleaning, Ended
  <2>2. UNCHANGED <<pre, post>> /\ UNCHANGED world /\ (Calm \/ Faulty)
    BY <1>18, Zenon DEF GetClaim, ReadClaim, Checked
  <2> QED
    BY <1>0, <2>1, <2>2, Unmoved DEF TypeOK
<1>19. CASE Target
  <2>1. HarnessOK'
    BY <1>0, <1>19 DEF Target, Owned, Checked, Moves, TypeOK, HarnessOK, Testing, Cleaning, Ended
  <2>2. UNCHANGED <<pre, post>> /\ UNCHANGED world /\ (Calm \/ Faulty)
    BY <1>19, Zenon DEF Target, Checked
  <2> QED
    BY <1>0, <2>1, <2>2, Unmoved DEF TypeOK
<1>20. CASE Patch
  <2>1. HarnessOK'
    BY <1>0, <1>20 DEF Patch, Applied, Moves, Fail, TypeOK, HarnessOK, Testing, Cleaning, Ended
  <2>2. WorldOK'
    BY <1>0, <1>20, StorageAssumption DEF StorageAssumption, Patch, TypeOK, WorldOK
  <2>3. UNCHANGED <<pre, post>> /\ (Calm \/ Faulty)
    BY <1>20, Zenon DEF Patch, Applied
  <2> QED
    BY <1>0, <2>1, <2>2, <2>3, Unmoved DEF TypeOK
<1>21. CASE Retarget
  <2>1. HarnessOK'
    BY <1>0, <1>21 DEF Retarget, Checked, Moves, TypeOK, HarnessOK, Testing, Cleaning, Ended
  <2>2. UNCHANGED <<pre, post>> /\ UNCHANGED world /\ (Calm \/ Faulty)
    BY <1>21, Zenon DEF Retarget, Checked
  <2> QED
    BY <1>0, <2>1, <2>2, Unmoved DEF TypeOK
<1>22. CASE DeleteNamespace
  <2>1. HarnessOK'
    BY <1>0, <1>22 DEF DeleteNamespace, Applied, Moves, Fail, TypeOK, HarnessOK, Testing, Cleaning,
       Ended
  <2>2. WorldOK'
    BY <1>0, <1>22, StorageAssumption DEF StorageAssumption, DeleteNamespace, TypeOK, WorldOK
  <2>3. UNCHANGED <<pre, post>> /\ (Calm \/ Faulty)
    BY <1>22, Zenon DEF DeleteNamespace, Applied
  <2> QED
    BY <1>0, <2>1, <2>2, <2>3, Unmoved DEF TypeOK
<1>23. CASE NamespaceGone
  <2>1. HarnessOK'
    BY <1>0, <1>23 DEF NamespaceGone, Checked, Moves, TypeOK, HarnessOK, Testing, Cleaning, Ended
  <2>2. UNCHANGED <<pre, post>> /\ UNCHANGED world /\ (Calm \/ Faulty)
    BY <1>23, Zenon DEF NamespaceGone, Checked
  <2> QED
    BY <1>0, <2>1, <2>2, Unmoved DEF TypeOK
<1>24. CASE ProveAbsence
  <2>1. HarnessOK'
    BY <1>0, <1>24 DEF ProveAbsence, RunAbsence, TypeOK, HarnessOK, Testing, Cleaning, Ended
  <2>2. UNCHANGED <<pre, post>> /\ UNCHANGED world /\ (Calm \/ Faulty)
    BY <1>24, Zenon DEF ProveAbsence
  <2> QED
    BY <1>0, <2>1, <2>2, Unmoved DEF TypeOK
<1>25. CASE CapturePost
  <2>1. HarnessOK'
    BY <1>0, <1>25 DEF CapturePost, Moves, TypeOK, HarnessOK, Testing, Cleaning, Ended
  <2>2. ReportsOK'
    BY <1>0, <1>25, ExistingCount DEF CapturePost, Capacity, TypeOK, ReportsOK
  <2>4. UNCHANGED world /\ Calm
    BY <1>25, Zenon DEF CapturePost
  <2> QED
    BY <1>0, <2>1, <2>2, <2>4, Unmoved DEF TypeOK
<1>26. CASE Report
  <2>1. HarnessOK'
    BY <1>0, <1>26 DEF Report, Checked, Moves, TypeOK, HarnessOK, Testing, Cleaning, Ended
  <2>2. UNCHANGED <<pre, post>> /\ UNCHANGED world /\ (Calm \/ Faulty)
    BY <1>26, Zenon DEF Report, Checked
  <2> QED
    BY <1>0, <2>1, <2>2, Unmoved DEF TypeOK
<1>27. CASE Cluster(WriterStarts)
  <2>1. WorldOK'
    BY <1>0, <1>27, StorageAssumption DEF StorageAssumption, Cluster, WriterStarts, TypeOK, WorldOK
  <2>2. UNCHANGED harness /\ (Calm \/ Faulty)
    BY <1>27, Zenon DEF Cluster, WriterStarts
  <2> QED
    BY <1>0, <2>1, <2>2, Unmoved DEF TypeOK
<1>28. CASE Cluster(ReaderStarts)
  <2>1. WorldOK'
    BY <1>0, <1>28, StorageAssumption DEF StorageAssumption, Cluster, ReaderStarts, TypeOK, WorldOK
  <2>2. UNCHANGED harness /\ (Calm \/ Faulty)
    BY <1>28, Zenon DEF Cluster, ReaderStarts
  <2> QED
    BY <1>0, <2>1, <2>2, Unmoved DEF TypeOK
<1>29. CASE Cluster(Finalize)
  <2>1. WorldOK'
    BY <1>0, <1>29, StorageAssumption, Pods DEF StorageAssumption, Cluster, Finalize, TypeOK, WorldOK
  <2>2. UNCHANGED harness /\ (Calm \/ Faulty)
    BY <1>29, Zenon DEF Cluster, Finalize
  <2> QED
    BY <1>0, <2>1, <2>2, Unmoved DEF TypeOK
<1>30. CASE \E n \in Nodes : Cluster(Place(n))
  <2> PICK n \in Nodes : Cluster(Place(n))
    BY <1>30
  <2>1. WorldOK'
    BY <1>0, StorageAssumption DEF StorageAssumption, Cluster, Place, Provision, TypeOK, WorldOK
  <2>2. UNCHANGED harness /\ (Calm \/ Faulty)
    BY Zenon DEF Cluster, Place
  <2> QED
    BY <1>0, <2>1, <2>2, Unmoved DEF TypeOK
<1>31. CASE \E n \in Nodes : Cluster(Recovers(n))
  <2> PICK n \in Nodes : Cluster(Recovers(n))
    BY <1>31
  <2>1. WorldOK'
    BY <1>0, StorageAssumption DEF StorageAssumption, Cluster, Recovers, TypeOK, WorldOK
  <2>2. UNCHANGED harness /\ (Calm \/ Faulty)
    BY Zenon DEF Cluster, Recovers
  <2> QED
    BY <1>0, <2>1, <2>2, Unmoved DEF TypeOK
<1>32. CASE \E c \in Claims : Cluster(Reclaim(c))
  <2> PICK c \in Claims : Cluster(Reclaim(c))
    BY <1>32
  <2>1. WorldOK'
    BY <1>0, StorageAssumption DEF StorageAssumption, Cluster, Reclaim, TypeOK, WorldOK
  <2>2. UNCHANGED harness /\ (Calm \/ Faulty)
    BY Zenon DEF Cluster, Reclaim
  <2> QED
    BY <1>0, <2>1, <2>2, Unmoved DEF TypeOK
<1>33. CASE Cluster(Replaced)
  <2>1. WorldOK'
    BY <1>0, <1>33, StorageAssumption, Pods DEF StorageAssumption, Cluster, Replaced, TypeOK, WorldOK
  <2>2. UNCHANGED harness /\ (Calm \/ Faulty)
    BY <1>33, Zenon DEF Cluster, Replaced
  <2> QED
    BY <1>0, <2>1, <2>2, Unmoved DEF TypeOK
<1>34. CASE \E n \in Nodes : Cluster(NodeLost(n))
  <2> PICK n \in Nodes : Cluster(NodeLost(n))
    BY <1>34
  <2>1. WorldOK'
    BY <1>0, StorageAssumption DEF StorageAssumption, Cluster, NodeLost, TypeOK, WorldOK
  <2>2. UNCHANGED harness /\ (Calm \/ Faulty)
    BY Zenon DEF Cluster, NodeLost
  <2> QED
    BY <1>0, <2>1, <2>2, Unmoved DEF TypeOK
<1>35. CASE Elsewhere
  <2>1. WorldOK'
    BY <1>0, <1>35, Zenon DEF Elsewhere, TypeOK, WorldOK
  <2> QED
    BY <1>0, <1>35, <2>1, Unmoved, Zenon DEF Elsewhere, Calm, TypeOK
<1> QED
  BY <1>0, <1>1, <1>2, <1>3, <1>4, <1>5, <1>6, <1>7, <1>8, <1>9, <1>10, <1>11,
     <1>12, <1>13, <1>14, <1>15, <1>16, <1>17, <1>18, <1>19, <1>20, <1>21,
     <1>22, <1>23, <1>24, <1>25, <1>26, <1>27, <1>28, <1>29, <1>30, <1>31,
     <1>32, <1>33, <1>34, <1>35, Steps, Zenon DEF Step

(***************************************************************************)
(* Every step keeps OrderInv.                                              *)
(***************************************************************************)
LEMMA OrderStep ==
  ASSUME Inv, [Next]_vars
  PROVE  OrderInv'
<1> USE DEF Inv, TypeOK, HarnessOK, WorldOK, OrderInv, Setup, Early, Testing, Cleaning,
           Identified, Unread
<1>1. CASE Abandons
  BY <1>1 DEF Abandons, world, harness
<1>2. CASE CapturePre
  BY <1>2 DEF CapturePre, Moves, Calm, world, harness
<1>3. CASE StorageClass
  BY <1>3 DEF StorageClass, Checked, Moves, Calm, world, harness
<1>4. CASE NamespaceIsFree
  BY <1>4 DEF NamespaceIsFree, Checked, Moves, Calm, world, harness
<1>5. CASE CreateNamespace
  BY <1>5 DEF CreateNamespace, Applied, Moves, Fail, Calm, Faulty, world, harness
<1>6. CASE ApplyWriter
  <2>1. pc = "apply" /\ last = 0 /\ bound' = 1 /\ last' = 1 /\ held = 0
    BY <1>6 DEF ApplyWriter, Applied, Moves
  <2>2. UNCHANGED <<ns, policy, volume, wrote, read, held>>
    BY <1>6, Zenon DEF ApplyWriter
  <2>3. \A c \in Claims : c > last' =>
          policy'[c] = "none" /\ volume'[c] = "none" /\ wrote'[c] = None /\ read'[c] = None
    BY <2>1, <2>2 DEF Claims
  <2>4. pc' \in {"writer", "getNs", "fail"}
    BY <1>6 DEF ApplyWriter, Applied, Moves, Fail
  <2> QED
    BY <2>1, <2>2, <2>3, <2>4
<1>7. CASE WriterReady
  BY <1>7 DEF WriterReady, Checked, Moves, Calm, world, harness
<1>8. CASE CaptureClaim
  BY <1>8 DEF CaptureClaim, ReadClaim, Checked, Moves, Calm, world, harness
<1>9. CASE CaptureIdentity
  BY <1>9 DEF CaptureIdentity, Applied, Moves, Fail, Calm, Faulty, Captured, world,
     harness
<1>10. CASE HealthBefore
  BY <1>10 DEF HealthBefore, Checked, Moves, Calm, world, harness
<1>11. CASE DeleteWriter
  BY <1>11 DEF DeleteWriter, Applied, Moves, Fail, Calm, Faulty, NoPod, world, harness
<1>12. CASE CreateReader
  BY <1>12 DEF CreateReader, Applied, Moves, Fail, Calm, Faulty, New, world, harness
<1>13. CASE ReaderReady
  BY <1>13 DEF ReaderReady, Checked, Moves, Calm, world, harness
<1>14. CASE RecaptureClaim
  BY <1>14 DEF RecaptureClaim, ReadClaim, Checked, Moves, Calm, world, harness
<1>15. CASE VerifyReschedule
  BY <1>15 DEF VerifyReschedule, Rescheduled, Checked, Moves, Calm, world, harness
<1>16. CASE HealthAfter
  BY <1>16 DEF HealthAfter, Checked, Moves, Calm, world, harness
<1>17. CASE GetNamespace
  BY <1>17 DEF GetNamespace, Checked, Moves, Calm, world, harness
<1>18. CASE GetClaim
  BY <1>18 DEF GetClaim, ReadClaim, Checked, Moves, Calm, world, harness
<1>19. CASE Target
  BY <1>19 DEF Target, Owned, Checked, Moves, Calm, world, harness
<1>20. CASE Patch
  BY <1>20 DEF Patch, Applied, Moves, Fail, Calm, Faulty, world, harness
<1>21. CASE Retarget
  BY <1>21 DEF Retarget, Checked, Moves, Calm, world, harness
<1>22. CASE DeleteNamespace
  BY <1>22 DEF DeleteNamespace, Applied, Moves, Fail, Calm, Faulty, world, harness
<1>23. CASE NamespaceGone
  BY <1>23 DEF NamespaceGone, Checked, Moves, Calm, world, harness
<1>24. CASE ProveAbsence
  BY <1>24 DEF ProveAbsence, RunAbsence, Calm, world, harness
<1>25. CASE CapturePost
  BY <1>25 DEF CapturePost, Moves, Calm, world, harness
<1>26. CASE Report
  BY <1>26 DEF Report, Checked, Moves, Calm, world, harness
<1>27. CASE Cluster(WriterStarts)
  BY <1>27 DEF Cluster, WriterStarts, world, harness
<1>28. CASE Cluster(ReaderStarts)
  BY <1>28 DEF Cluster, ReaderStarts, world, harness
<1>29. CASE Cluster(Finalize)
  BY <1>29 DEF Cluster, Finalize, NoPod, world, harness
<1>30. CASE \E n \in Nodes : Cluster(Place(n))
  BY <1>30 DEF Cluster, Place, Provision, world, harness
<1>31. CASE \E n \in Nodes : Cluster(Recovers(n))
  BY <1>31 DEF Cluster, Recovers, world, harness
<1>32. CASE \E c \in Claims : Cluster(Reclaim(c))
  BY <1>32 DEF Cluster, Reclaim, world, harness
<1>33. CASE Cluster(Replaced)
  <2>1. /\ ns = "active" /\ bound' = last + 1 /\ last' = last + 1 /\ last \in Nat \ {0}
        /\ UNCHANGED <<pc, held, ns, policy, volume, wrote, read>>
    BY <1>33 DEF Cluster, Replaced, harness
  <2>2. \A c \in Claims : c > last' =>
          policy'[c] = "none" /\ volume'[c] = "none" /\ wrote'[c] = None /\ read'[c] = None
    BY <2>1 DEF Claims
  <2>3. held <= last'
    BY <2>1
  <2> QED
    BY <2>1, <2>2, <2>3
<1>34. CASE \E n \in Nodes : Cluster(NodeLost(n))
  BY <1>34 DEF Cluster, NodeLost, world, harness
<1>35. CASE Elsewhere
  BY <1>35 DEF Elsewhere, world, harness
<1> QED
  BY <1>1, <1>2, <1>3, <1>4, <1>5, <1>6, <1>7, <1>8, <1>9, <1>10, <1>11, <1>12,
     <1>13, <1>14, <1>15, <1>16, <1>17, <1>18, <1>19, <1>20, <1>21, <1>22,
     <1>23, <1>24, <1>25, <1>26, <1>27, <1>28, <1>29, <1>30, <1>31, <1>32,
     <1>33, <1>34, <1>35, Steps, Zenon DEF Step

(***************************************************************************)
(* Every step keeps RetainInv.                                             *)
(***************************************************************************)
LEMMA RetainStep ==
  ASSUME Inv, [Next]_vars
  PROVE  RetainInv'
<1> USE DEF Inv, TypeOK, HarnessOK, WorldOK, RetainInv, Setup, Early, Testing, Cleaning,
           Identified, Unread
<1>1. CASE Abandons
  BY <1>1 DEF Abandons, OrderInv, world, harness
<1>2. CASE CapturePre
  BY <1>2 DEF CapturePre, Moves, Calm, OrderInv, world, harness
<1>3. CASE StorageClass
  BY <1>3 DEF StorageClass, Checked, Moves, Calm, OrderInv, world, harness
<1>4. CASE NamespaceIsFree
  BY <1>4 DEF NamespaceIsFree, Checked, Moves, Calm, OrderInv, world, harness
<1>5. CASE CreateNamespace
  BY <1>5 DEF CreateNamespace, Applied, Moves, Fail, Calm, Faulty, OrderInv, world,
     harness
<1>6. CASE ApplyWriter
  BY <1>6 DEF ApplyWriter, Applied, Moves, Fail, Calm, Faulty, New, NoPod, OrderInv,
     world, harness
<1>7. CASE WriterReady
  BY <1>7 DEF WriterReady, Checked, Moves, Calm, OrderInv, world, harness
<1>8. CASE CaptureClaim
  BY <1>8 DEF CaptureClaim, ReadClaim, Checked, Moves, Calm, OrderInv, world, harness
<1>9. CASE CaptureIdentity
  BY <1>9 DEF CaptureIdentity, Applied, Moves, Fail, Calm, Faulty, Captured, OrderInv,
     world, harness
<1>10. CASE HealthBefore
  BY <1>10 DEF HealthBefore, Checked, Moves, Calm, OrderInv, world, harness
<1>11. CASE DeleteWriter
  BY <1>11 DEF DeleteWriter, Applied, Moves, Fail, Calm, Faulty, NoPod, OrderInv, world,
     harness
<1>12. CASE CreateReader
  BY <1>12 DEF CreateReader, Applied, Moves, Fail, Calm, Faulty, New, OrderInv, world,
     harness
<1>13. CASE ReaderReady
  BY <1>13 DEF ReaderReady, Checked, Moves, Calm, OrderInv, world, harness
<1>14. CASE RecaptureClaim
  BY <1>14 DEF RecaptureClaim, ReadClaim, Checked, Moves, Calm, OrderInv, world, harness
<1>15. CASE VerifyReschedule
  BY <1>15 DEF VerifyReschedule, Rescheduled, Checked, Moves, Calm, OrderInv, world,
     harness
<1>16. CASE HealthAfter
  BY <1>16 DEF HealthAfter, Checked, Moves, Calm, OrderInv, world, harness
<1>17. CASE GetNamespace
  BY <1>17 DEF GetNamespace, Checked, Moves, Calm, OrderInv, world, harness
<1>18. CASE GetClaim
  BY <1>18 DEF GetClaim, ReadClaim, Checked, Moves, Calm, OrderInv, world, harness
<1>19. CASE Target
  BY <1>19 DEF Target, Owned, Checked, Moves, Calm, OrderInv, world, harness
<1>20. CASE Patch
  BY <1>20 DEF Patch, Applied, Moves, Fail, Calm, Faulty, OrderInv, world, harness
<1>21. CASE Retarget
  BY <1>21 DEF Retarget, Checked, Moves, Calm, OrderInv, world, harness
<1>22. CASE DeleteNamespace
  <2>1. /\ pc = "deleteNs" /\ pc' \in {"waitNs", "getNs", "fail"} /\ ns # "absent"
        /\ UNCHANGED <<last, policy, class>>
    BY <1>22 DEF DeleteNamespace, Applied, Moves, Fail
  <2>2. last <= 1 => \A c \in Claims : policy[c] # "Retain"
    <3>1. CASE last = 1 /\ ns = "active"
      <4>1. policy[1] = "Delete" /\ \A c \in Claims : c # 1 => c > last
        BY <2>1, <3>1 DEF Claims
      <4> QED
        BY <4>1, Zenon DEF OrderInv
    <3>2. CASE last = 0
      BY <3>2 DEF OrderInv, Claims
    <3>3. CASE ns # "active"
      BY <3>3
    <3> QED
      BY <3>1, <3>2, <3>3
  <2> QED
    BY <2>1, <2>2
<1>23. CASE NamespaceGone
  BY <1>23 DEF NamespaceGone, Checked, Moves, Calm, OrderInv, world, harness
<1>24. CASE ProveAbsence
  BY <1>24 DEF ProveAbsence, RunAbsence, Calm, OrderInv, world, harness
<1>25. CASE CapturePost
  BY <1>25 DEF CapturePost, Moves, Calm, OrderInv, world, harness
<1>26. CASE Report
  BY <1>26 DEF Report, Checked, Moves, Calm, OrderInv, world, harness
<1>27. CASE Cluster(WriterStarts)
  BY <1>27 DEF Cluster, WriterStarts, OrderInv, world, harness
<1>28. CASE Cluster(ReaderStarts)
  BY <1>28 DEF Cluster, ReaderStarts, OrderInv, world, harness
<1>29. CASE Cluster(Finalize)
  BY <1>29 DEF Cluster, Finalize, NoPod, OrderInv, world, harness
<1>30. CASE \E n \in Nodes : Cluster(Place(n))
  BY <1>30 DEF Cluster, Place, Provision, OrderInv, world, harness
<1>31. CASE \E n \in Nodes : Cluster(Recovers(n))
  BY <1>31 DEF Cluster, Recovers, OrderInv, world, harness
<1>32. CASE \E c \in Claims : Cluster(Reclaim(c))
  <2> PICK c \in Claims : Cluster(Reclaim(c))
    BY <1>32
  <2>1. /\ policy[c] = "Delete" /\ bound # c
        /\ policy' = policy \/ policy' = [policy EXCEPT ![c] = "none"]
        /\ UNCHANGED <<pc, ns, last, class>>
    BY DEF Cluster, Reclaim, harness
  <2>2. \A d \in Claims : policy'[d] = policy[d] \/ policy'[d] = "none"
    BY <2>1
  <2>3. ns = "active" /\ last = 1 => c # 1
    BY <2>1 DEF OrderInv
  <2>4. c # 1 => policy'[1] = policy[1]
    BY <2>1, StorageAssumption DEF StorageAssumption, Claims
  <2> QED
    BY <2>1, <2>2, <2>3, <2>4
<1>33. CASE Cluster(Replaced)
  BY <1>33 DEF Cluster, Replaced, New, NoPod, OrderInv, world, harness
<1>34. CASE \E n \in Nodes : Cluster(NodeLost(n))
  BY <1>34 DEF Cluster, NodeLost, OrderInv, world, harness
<1>35. CASE Elsewhere
  BY <1>35 DEF Elsewhere, OrderInv, world, harness
<1> QED
  BY <1>1, <1>2, <1>3, <1>4, <1>5, <1>6, <1>7, <1>8, <1>9, <1>10, <1>11, <1>12,
     <1>13, <1>14, <1>15, <1>16, <1>17, <1>18, <1>19, <1>20, <1>21, <1>22,
     <1>23, <1>24, <1>25, <1>26, <1>27, <1>28, <1>29, <1>30, <1>31, <1>32,
     <1>33, <1>34, <1>35, Steps, Zenon DEF Step

(***************************************************************************)
(* Every step keeps PayloadInv.                                            *)
(***************************************************************************)
LEMMA PayloadStep ==
  ASSUME Inv, [Next]_vars
  PROVE  PayloadInv'
<1> USE DEF Inv, TypeOK, HarnessOK, WorldOK, PayloadInv, Setup, Early, Testing, Cleaning,
           Identified, Unread
<1>1. CASE Abandons
  BY <1>1 DEF Abandons, OrderInv, IdentityInv, Captured, Runs, world, harness
<1>2. CASE CapturePre
  BY <1>2 DEF CapturePre, Moves, Calm, OrderInv, IdentityInv, Captured, Runs, world,
     harness
<1>3. CASE StorageClass
  BY <1>3 DEF StorageClass, Checked, Moves, Calm, OrderInv, IdentityInv, Captured, Runs,
     world, harness
<1>4. CASE NamespaceIsFree
  BY <1>4 DEF NamespaceIsFree, Checked, Moves, Calm, OrderInv, IdentityInv, Captured,
     Runs, world, harness
<1>5. CASE CreateNamespace
  BY <1>5 DEF CreateNamespace, Applied, Moves, Fail, Calm, Faulty, OrderInv, IdentityInv,
     Captured, Runs, world, harness
<1>6. CASE ApplyWriter
  <2>1. /\ pc = "apply" /\ last = 0 /\ bound' = 1 /\ last' = 1
        /\ UNCHANGED <<policy, volume, wrote, read, identity>>
        /\ pod' \in {New("writer"), NoPod}
    BY <1>6 DEF ApplyWriter, Applied, Moves, OrderInv
  <2>2. 1 \in Claims
    BY StorageAssumption DEF StorageAssumption, Claims
  <2>3. policy[1] = "none" /\ volume[1] = "none" /\ wrote[1] = None
    BY <2>1, <2>2 DEF OrderInv
  <2> QED
    BY <2>1, <2>2, <2>3 DEF Runs, New, NoPod, Captured
<1>7. CASE WriterReady
  BY <1>7 DEF WriterReady, Checked, Moves, Calm, OrderInv, IdentityInv, Captured, Runs,
     world, harness
<1>8. CASE CaptureClaim
  BY <1>8 DEF CaptureClaim, ReadClaim, Checked, Moves, Calm, OrderInv, IdentityInv,
     Captured, Runs, world, harness
<1>9. CASE CaptureIdentity
  BY <1>9 DEF CaptureIdentity, Applied, Moves, Fail, Calm, Faulty, Captured, OrderInv,
     IdentityInv, Captured, Runs, world, harness
<1>10. CASE HealthBefore
  BY <1>10 DEF HealthBefore, Checked, Moves, Calm, OrderInv, IdentityInv, Captured, Runs,
     world, harness
<1>11. CASE DeleteWriter
  BY <1>11 DEF DeleteWriter, Applied, Moves, Fail, Calm, Faulty, NoPod, OrderInv,
     IdentityInv, Captured, Runs, world, harness
<1>12. CASE CreateReader
  <2>1. pc = "reader" /\ pod' = New("reader") /\ UNCHANGED <<bound, policy, volume, wrote, identity>>
    BY <1>12 DEF CreateReader, Applied, Moves
  <2>2. Captured
    BY <2>1 DEF IdentityInv
  <2>3. identity.node # None
    BY <2>2, StorageAssumption DEF StorageAssumption, Captured, Identities
  <2> QED
    BY <2>1, <2>2, <2>3 DEF Runs, New, Captured
<1>13. CASE ReaderReady
  BY <1>13 DEF ReaderReady, Checked, Moves, Calm, OrderInv, IdentityInv, Captured, Runs,
     world, harness
<1>14. CASE RecaptureClaim
  BY <1>14 DEF RecaptureClaim, ReadClaim, Checked, Moves, Calm, OrderInv, IdentityInv,
     Captured, Runs, world, harness
<1>15. CASE VerifyReschedule
  BY <1>15 DEF VerifyReschedule, Rescheduled, Checked, Moves, Calm, OrderInv, IdentityInv,
     Captured, Runs, world, harness
<1>16. CASE HealthAfter
  BY <1>16 DEF HealthAfter, Checked, Moves, Calm, OrderInv, IdentityInv, Captured, Runs,
     world, harness
<1>17. CASE GetNamespace
  BY <1>17 DEF GetNamespace, Checked, Moves, Calm, OrderInv, IdentityInv, Captured, Runs,
     world, harness
<1>18. CASE GetClaim
  BY <1>18 DEF GetClaim, ReadClaim, Checked, Moves, Calm, OrderInv, IdentityInv, Captured,
     Runs, world, harness
<1>19. CASE Target
  BY <1>19 DEF Target, Owned, Checked, Moves, Calm, OrderInv, IdentityInv, Captured, Runs,
     world, harness
<1>20. CASE Patch
  BY <1>20 DEF Patch, Applied, Moves, Fail, Calm, Faulty, OrderInv, IdentityInv, Captured,
     Runs, world, harness
<1>21. CASE Retarget
  BY <1>21 DEF Retarget, Checked, Moves, Calm, OrderInv, IdentityInv, Captured, Runs,
     world, harness
<1>22. CASE DeleteNamespace
  BY <1>22 DEF DeleteNamespace, Applied, Moves, Fail, Calm, Faulty, OrderInv, IdentityInv,
     Captured, Runs, world, harness
<1>23. CASE NamespaceGone
  BY <1>23 DEF NamespaceGone, Checked, Moves, Calm, OrderInv, IdentityInv, Captured, Runs,
     world, harness
<1>24. CASE ProveAbsence
  BY <1>24 DEF ProveAbsence, RunAbsence, Calm, OrderInv, IdentityInv, Captured, Runs,
     world, harness
<1>25. CASE CapturePost
  BY <1>25 DEF CapturePost, Moves, Calm, OrderInv, IdentityInv, Captured, Runs, world,
     harness
<1>26. CASE Report
  BY <1>26 DEF Report, Checked, Moves, Calm, OrderInv, IdentityInv, Captured, Runs, world,
     harness
<1>27. CASE Cluster(WriterStarts)
  <2>1. /\ pod.kind = "writer" /\ pod.node \in Nodes /\ volume[bound] = "blank" /\ ~pod.ready
        /\ bound \in Claims
        /\ UNCHANGED <<bound, policy, read, identity>>
    BY <1>27 DEF Cluster, WriterStarts, OrderInv, harness, Claims
  <2>2. policy[bound] # "none"
    BY <2>1 DEF Claims
  <2>3. CASE /\ volume' = [volume EXCEPT ![bound] = "payload"]
             /\ pod' = [pod EXCEPT !.ready = TRUE]
             /\ wrote' = [wrote EXCEPT ![bound] = pod.node]
    <3>1. pod'.kind = "writer" /\ pod'.node = pod.node
      BY <2>1, <2>3
    <3>2. volume'[bound] = "payload" /\ wrote'[bound] = pod.node
      BY <2>1, <2>3
    <3> QED
      BY <2>1, <2>2, <3>1, <3>2 DEF Runs
  <2>4. CASE volume' = [volume EXCEPT ![bound] = "torn"] /\ UNCHANGED <<pod, wrote>>
    <3>1. volume'[bound] = "torn"
      BY <2>1, <2>4
    <3> QED
      BY <2>1, <2>2, <2>4, <3>1 DEF Runs
  <2> QED
    BY <1>27, <2>3, <2>4 DEF Cluster, WriterStarts
<1>28. CASE Cluster(ReaderStarts)
  <2>1. /\ pod.kind = "reader" /\ pod.node \in Nodes /\ bound \in Claims
        /\ pod' = [pod EXCEPT !.ready = TRUE]
        /\ read' = [read EXCEPT ![bound] = pod.node]
        /\ UNCHANGED <<bound, policy, volume, wrote, identity>>
    BY <1>28 DEF Cluster, ReaderStarts, OrderInv, harness, Claims
  <2>2. pod'.kind = "reader" /\ pod'.node = pod.node /\ read'[bound] = pod.node
    BY <2>1
  <2> QED
    BY <2>1, <2>2 DEF Runs, Captured
<1>29. CASE Cluster(Finalize)
  BY <1>29 DEF Cluster, Finalize, NoPod, OrderInv, IdentityInv, Captured, Runs, world,
     harness
<1>30. CASE \E n \in Nodes : Cluster(Place(n))
  <2> PICK n \in Nodes : Cluster(Place(n))
    BY <1>30
  <2>1. /\ bound \in Claims /\ pod.node = None /\ (pod.kind = "reader" => n # identity.node)
        /\ pod' = [pod EXCEPT !.node = n]
        /\ UNCHANGED <<bound, wrote, read, identity>>
    BY DEF Cluster, Place, OrderInv, harness, Claims
  <2>2. pod'.kind = pod.kind /\ pod'.node = n /\ pod'.ready = pod.ready
    BY <2>1
  <2>3. ~pod.ready \/ pod.kind = "none"
    BY <2>1, StorageAssumption DEF StorageAssumption, Runs
  <2>4. \/ UNCHANGED <<policy, volume>>
        \/ /\ policy[bound] = "none"
           /\ policy' = [policy EXCEPT ![bound] = class]
           /\ volume' = [volume EXCEPT ![bound] = "blank"]
    BY Zenon DEF Cluster, Place, Provision
  <2>5. bound # 0
    BY <2>1 DEF Claims
  <2>6. policy'[bound] = "none" => volume'[bound] = "none" /\ wrote[bound] = None
    BY <2>1, <2>4, <2>5
  <2>7. wrote[bound] # None => volume'[bound] # "blank"
    BY <2>1, <2>4, <2>5
  <2> QED
    BY <2>1, <2>2, <2>3, <2>6, <2>7 DEF Runs, Captured
<1>31. CASE \E n \in Nodes : Cluster(Recovers(n))
  BY <1>31 DEF Cluster, Recovers, OrderInv, IdentityInv, Captured, Runs, world, harness
<1>32. CASE \E c \in Claims : Cluster(Reclaim(c))
  <2> PICK c \in Claims : Cluster(Reclaim(c))
    BY <1>32
  <2>1. /\ bound # c /\ UNCHANGED <<bound, pod, wrote, read, identity>>
        /\ policy' = policy \/ policy' = [policy EXCEPT ![c] = "none"]
        /\ volume' = volume \/ volume' = [volume EXCEPT ![c] = "none"]
    BY DEF Cluster, Reclaim, harness
  <2>2. bound # 0 => bound \in Claims
    BY DEF Claims
  <2>3. bound # 0 => policy'[bound] = policy[bound] /\ volume'[bound] = volume[bound]
    BY <2>1, <2>2
  <2> QED
    BY <2>1, <2>3 DEF Runs, Captured
<1>33. CASE Cluster(Replaced)
  <2>1. /\ bound' = last + 1 /\ last < MaxClaims
        /\ pod' \in {New("writer"), NoPod}
        /\ UNCHANGED <<policy, volume, wrote, read, identity>>
    BY <1>33 DEF Cluster, Replaced, harness
  <2>2. last + 1 \in Claims /\ last + 1 > last
    BY <2>1, StorageAssumption DEF StorageAssumption, Claims
  <2>3. policy[bound'] = "none" /\ volume[bound'] = "none" /\ wrote[bound'] = None
    BY <2>1, <2>2 DEF OrderInv
  <2> QED
    BY <2>1, <2>3 DEF Runs, New, NoPod, Captured
<1>34. CASE \E n \in Nodes : Cluster(NodeLost(n))
  BY <1>34 DEF Cluster, NodeLost, OrderInv, IdentityInv, Captured, Runs, world, harness
<1>35. CASE Elsewhere
  BY <1>35 DEF Elsewhere, OrderInv, IdentityInv, Captured, Runs, world, harness
<1> QED
  BY <1>1, <1>2, <1>3, <1>4, <1>5, <1>6, <1>7, <1>8, <1>9, <1>10, <1>11, <1>12,
     <1>13, <1>14, <1>15, <1>16, <1>17, <1>18, <1>19, <1>20, <1>21, <1>22,
     <1>23, <1>24, <1>25, <1>26, <1>27, <1>28, <1>29, <1>30, <1>31, <1>32,
     <1>33, <1>34, <1>35, Steps, Zenon DEF Step

(***************************************************************************)
(* Every step keeps IdentityInv.                                           *)
(***************************************************************************)
LEMMA IdentityStep ==
  ASSUME Inv, [Next]_vars
  PROVE  IdentityInv'
<1> USE DEF Inv, TypeOK, HarnessOK, WorldOK, IdentityInv, Setup, Early, Testing, Cleaning,
           Identified, Unread
<1>1. CASE Abandons
  BY <1>1 DEF Abandons, OrderInv, PayloadInv, Matched, Captured, Runs, world, harness
<1>2. CASE CapturePre
  BY <1>2 DEF CapturePre, Moves, Calm, OrderInv, PayloadInv, Matched, Captured, Runs,
     world, harness
<1>3. CASE StorageClass
  BY <1>3 DEF StorageClass, Checked, Moves, Calm, OrderInv, PayloadInv, Matched, Captured,
     Runs, world, harness
<1>4. CASE NamespaceIsFree
  BY <1>4 DEF NamespaceIsFree, Checked, Moves, Calm, OrderInv, PayloadInv, Matched,
     Captured, Runs, world, harness
<1>5. CASE CreateNamespace
  BY <1>5 DEF CreateNamespace, Applied, Moves, Fail, Calm, Faulty, OrderInv, PayloadInv,
     Matched, Captured, Runs, world, harness
<1>6. CASE ApplyWriter
  <2>1. /\ pc = "apply" /\ last = 0 /\ bound' = 1 /\ last' = 1
        /\ UNCHANGED <<policy, volume, wrote, read, identity>>
        /\ pod' \in {New("writer"), NoPod}
    BY <1>6 DEF ApplyWriter, Applied, Moves, OrderInv
  <2>2. 1 \in Claims /\ policy[1] = "none" /\ volume[1] = "none" /\ wrote[1] = None
    BY <2>1, StorageAssumption DEF StorageAssumption, OrderInv, Claims
  <2>3. ~Captured
    BY <2>1 DEF Captured, Identities, Claims
  <2>4. pc' \in {"writer", "getNs", "fail"}
    BY <1>6 DEF ApplyWriter, Applied, Moves, Fail
  <2> QED
    BY <2>1, <2>2, <2>3, <2>4 DEF New, NoPod, Captured
<1>7. CASE WriterReady
  BY <1>7 DEF WriterReady, Checked, Moves, Calm, OrderInv, PayloadInv, Matched, Captured,
     Runs, world, harness
<1>8. CASE CaptureClaim
  BY <1>8 DEF CaptureClaim, ReadClaim, Checked, Moves, Calm, OrderInv, PayloadInv,
     Matched, Captured, Runs, world, harness
<1>9. CASE CaptureIdentity
  <2>1. /\ pc = "identify" /\ Runs("writer") /\ held # 0
        /\ UNCHANGED <<bound, last, pod, wrote, read>>
    BY <1>9, Zenon DEF CaptureIdentity, Applied, Moves, OrderInv, world
  <2>2. wrote[bound] = pod.node /\ pod.node \in Nodes /\ (held = last => bound = last)
    BY <2>1 DEF PayloadInv, OrderInv, Runs
  <2>3. (\A c \in Claims : read[c] = None) /\ pod.kind # "reader"
    BY <2>1
  <2>4. \/ pc' = "before" /\ identity' = [claim |-> held, node |-> pod.node]
        \/ pc' \in {"getNs", "fail"} /\ identity' = Torn
    BY <1>9 DEF CaptureIdentity, Applied, Moves, Fail
  <2>5. CASE pc' = "before" /\ identity' = [claim |-> held, node |-> pod.node]
    <3>1. identity' \in Identities
      BY <2>1, <2>2, <2>5 DEF Identities, Claims
    <3> QED
      BY <2>1, <2>2, <2>3, <2>5, <3>1 DEF Captured, Matched, OrderInv
  <2>6. CASE pc' \in {"getNs", "fail"} /\ identity' = Torn
    <3>1. ~Captured'
      BY <2>6, StorageAssumption DEF StorageAssumption, Captured, Identities
    <3> QED
      BY <2>1, <2>3, <2>6, <3>1
  <2> QED
    BY <2>4, <2>5, <2>6
<1>10. CASE HealthBefore
  BY <1>10 DEF HealthBefore, Checked, Moves, Calm, OrderInv, PayloadInv, Matched, Captured,
     Runs, world, harness
<1>11. CASE DeleteWriter
  BY <1>11 DEF DeleteWriter, Applied, Moves, Fail, Calm, Faulty, NoPod, OrderInv,
     PayloadInv, Matched, Captured, Runs, world, harness
<1>12. CASE CreateReader
  BY <1>12 DEF CreateReader, Applied, Moves, Fail, Calm, Faulty, New, OrderInv, PayloadInv,
     Matched, Captured, Runs, world, harness
<1>13. CASE ReaderReady
  BY <1>13 DEF ReaderReady, Checked, Moves, Calm, OrderInv, PayloadInv, Matched, Captured,
     Runs, world, harness
<1>14. CASE RecaptureClaim
  BY <1>14 DEF RecaptureClaim, ReadClaim, Checked, Moves, Calm, OrderInv, PayloadInv,
     Matched, Captured, Runs, world, harness
<1>15. CASE VerifyReschedule
  BY <1>15 DEF VerifyReschedule, Rescheduled, Checked, Moves, Calm, OrderInv, PayloadInv,
     Matched, Captured, Runs, world, harness
<1>16. CASE HealthAfter
  BY <1>16 DEF HealthAfter, Checked, Moves, Calm, OrderInv, PayloadInv, Matched, Captured,
     Runs, world, harness
<1>17. CASE GetNamespace
  BY <1>17 DEF GetNamespace, Checked, Moves, Calm, OrderInv, PayloadInv, Matched, Captured,
     Runs, world, harness
<1>18. CASE GetClaim
  BY <1>18 DEF GetClaim, ReadClaim, Checked, Moves, Calm, OrderInv, PayloadInv, Matched,
     Captured, Runs, world, harness
<1>19. CASE Target
  BY <1>19 DEF Target, Owned, Checked, Moves, Calm, OrderInv, PayloadInv, Matched,
     Captured, Runs, world, harness
<1>20. CASE Patch
  BY <1>20 DEF Patch, Applied, Moves, Fail, Calm, Faulty, OrderInv, PayloadInv, Matched,
     Captured, Runs, world, harness
<1>21. CASE Retarget
  BY <1>21 DEF Retarget, Checked, Moves, Calm, OrderInv, PayloadInv, Matched, Captured,
     Runs, world, harness
<1>22. CASE DeleteNamespace
  BY <1>22 DEF DeleteNamespace, Applied, Moves, Fail, Calm, Faulty, OrderInv, PayloadInv,
     Matched, Captured, Runs, world, harness
<1>23. CASE NamespaceGone
  BY <1>23 DEF NamespaceGone, Checked, Moves, Calm, OrderInv, PayloadInv, Matched,
     Captured, Runs, world, harness
<1>24. CASE ProveAbsence
  BY <1>24 DEF ProveAbsence, RunAbsence, Calm, OrderInv, PayloadInv, Matched, Captured,
     Runs, world, harness
<1>25. CASE CapturePost
  BY <1>25 DEF CapturePost, Moves, Calm, OrderInv, PayloadInv, Matched, Captured, Runs,
     world, harness
<1>26. CASE Report
  BY <1>26 DEF Report, Checked, Moves, Calm, OrderInv, PayloadInv, Matched, Captured, Runs,
     world, harness
<1>27. CASE Cluster(WriterStarts)
  <2>1. /\ pod.kind = "writer" /\ pod'.kind = "writer" /\ volume[bound] = "blank"
        /\ bound = last /\ bound \in Claims
        /\ UNCHANGED <<pc, held, last, read, identity>>
        /\ wrote' = wrote \/ wrote' = [wrote EXCEPT ![bound] = pod.node]
    BY <1>27 DEF Cluster, WriterStarts, OrderInv, harness, Claims
  <2>2. Captured => identity.node # None
    BY StorageAssumption DEF StorageAssumption, Captured, Identities
  <2>3. ~(Captured /\ identity.claim = last)
    BY <2>1, <2>2 DEF PayloadInv, Matched, Claims
  <2> QED
    BY <2>1, <2>3 DEF Captured
<1>28. CASE Cluster(ReaderStarts)
  BY <1>28 DEF Cluster, ReaderStarts, OrderInv, PayloadInv, Matched, Captured, Runs, world,
     harness
<1>29. CASE Cluster(Finalize)
  BY <1>29 DEF Cluster, Finalize, NoPod, OrderInv, PayloadInv, Matched, Captured, Runs,
     world, harness
<1>30. CASE \E n \in Nodes : Cluster(Place(n))
  BY <1>30 DEF Cluster, Place, Provision, OrderInv, PayloadInv, Matched, Captured, Runs,
     world, harness
<1>31. CASE \E n \in Nodes : Cluster(Recovers(n))
  BY <1>31 DEF Cluster, Recovers, OrderInv, PayloadInv, Matched, Captured, Runs, world,
     harness
<1>32. CASE \E c \in Claims : Cluster(Reclaim(c))
  BY <1>32 DEF Cluster, Reclaim, OrderInv, PayloadInv, Matched, Captured, Runs, world,
     harness
<1>33. CASE Cluster(Replaced)
  <2>1. /\ last' = last + 1 /\ last \in Nat /\ pod'.kind # "reader"
        /\ UNCHANGED <<pc, held, wrote, read, identity>>
    BY <1>33 DEF Cluster, Replaced, New, NoPod, harness
  <2>2. Captured => identity.claim \in Nat
    BY DEF Captured, Identities, Claims
  <2> QED
    BY <2>1, <2>2 DEF Captured
<1>34. CASE \E n \in Nodes : Cluster(NodeLost(n))
  BY <1>34 DEF Cluster, NodeLost, OrderInv, PayloadInv, Matched, Captured, Runs, world,
     harness
<1>35. CASE Elsewhere
  BY <1>35 DEF Elsewhere, OrderInv, PayloadInv, Matched, Captured, Runs, world, harness
<1> QED
  BY <1>1, <1>2, <1>3, <1>4, <1>5, <1>6, <1>7, <1>8, <1>9, <1>10, <1>11, <1>12,
     <1>13, <1>14, <1>15, <1>16, <1>17, <1>18, <1>19, <1>20, <1>21, <1>22,
     <1>23, <1>24, <1>25, <1>26, <1>27, <1>28, <1>29, <1>30, <1>31, <1>32,
     <1>33, <1>34, <1>35, Steps, Zenon DEF Step

(***************************************************************************)
(* Every step keeps ProvenInv.                                             *)
(***************************************************************************)
LEMMA ProvenStep ==
  ASSUME Inv, [Next]_vars
  PROVE  ProvenInv'
<1> USE DEF Inv, TypeOK, HarnessOK, WorldOK, ProvenInv, Setup, Early, Testing, Cleaning,
           Identified, Unread
<1>1. CASE Abandons
  BY <1>1 DEF Abandons, OrderInv, PayloadInv, IdentityInv, Tested, Matched, Captured,
     Gone, world, harness
<1>2. CASE CapturePre
  BY <1>2 DEF CapturePre, Moves, Calm, OrderInv, PayloadInv, IdentityInv, Tested, Matched,
     Captured, Gone, world, harness
<1>3. CASE StorageClass
  BY <1>3 DEF StorageClass, Checked, Moves, Calm, OrderInv, PayloadInv, IdentityInv,
     Tested, Matched, Captured, Gone, world, harness
<1>4. CASE NamespaceIsFree
  BY <1>4 DEF NamespaceIsFree, Checked, Moves, Calm, OrderInv, PayloadInv, IdentityInv,
     Tested, Matched, Captured, Gone, world, harness
<1>5. CASE CreateNamespace
  BY <1>5 DEF CreateNamespace, Applied, Moves, Fail, Calm, Faulty, OrderInv, PayloadInv,
     IdentityInv, Tested, Matched, Captured, Gone, world, harness
<1>6. CASE ApplyWriter
  BY <1>6 DEF ApplyWriter, Applied, Moves, Fail, Calm, Faulty, New, NoPod, OrderInv,
     PayloadInv, IdentityInv, Tested, Matched, Captured, Gone, world, harness
<1>7. CASE WriterReady
  BY <1>7 DEF WriterReady, Checked, Moves, Calm, OrderInv, PayloadInv, IdentityInv,
     Tested, Matched, Captured, Gone, world, harness
<1>8. CASE CaptureClaim
  BY <1>8 DEF CaptureClaim, ReadClaim, Checked, Moves, Calm, OrderInv, PayloadInv,
     IdentityInv, Tested, Matched, Captured, Gone, world, harness
<1>9. CASE CaptureIdentity
  BY <1>9 DEF CaptureIdentity, Applied, Moves, Fail, Calm, Faulty, Captured, OrderInv,
     PayloadInv, IdentityInv, Tested, Matched, Captured, Gone, world, harness
<1>10. CASE HealthBefore
  BY <1>10 DEF HealthBefore, Checked, Moves, Calm, OrderInv, PayloadInv, IdentityInv,
     Tested, Matched, Captured, Gone, world, harness
<1>11. CASE DeleteWriter
  BY <1>11 DEF DeleteWriter, Applied, Moves, Fail, Calm, Faulty, NoPod, OrderInv,
     PayloadInv, IdentityInv, Tested, Matched, Captured, Gone, world, harness
<1>12. CASE CreateReader
  BY <1>12 DEF CreateReader, Applied, Moves, Fail, Calm, Faulty, New, OrderInv, PayloadInv,
     IdentityInv, Tested, Matched, Captured, Gone, world, harness
<1>13. CASE ReaderReady
  BY <1>13 DEF ReaderReady, Checked, Moves, Calm, OrderInv, PayloadInv, IdentityInv,
     Tested, Matched, Captured, Gone, world, harness
<1>14. CASE RecaptureClaim
  BY <1>14 DEF RecaptureClaim, ReadClaim, Checked, Moves, Calm, OrderInv, PayloadInv,
     IdentityInv, Tested, Matched, Captured, Gone, world, harness
<1>15. CASE VerifyReschedule
  <2>1. /\ pc = "reread" /\ pc' = "after" /\ held = identity.claim /\ Runs("reader")
        /\ UNCHANGED <<identity, wrote, read>>
    BY <1>15, Zenon DEF VerifyReschedule, Rescheduled, Checked, Moves, world
  <2>2. Captured /\ identity.claim = last /\ Matched(last)
    BY <2>1 DEF IdentityInv, Runs
  <2>3. bound = last /\ read[bound] = pod.node /\ pod.node # None
    BY <2>1, StorageAssumption DEF StorageAssumption, OrderInv, PayloadInv, Runs
  <2> QED
    BY <2>1, <2>2, <2>3 DEF Tested, Captured, Matched
<1>16. CASE HealthAfter
  BY <1>16 DEF HealthAfter, Checked, Moves, Calm, OrderInv, PayloadInv, IdentityInv,
     Tested, Matched, Captured, Gone, world, harness
<1>17. CASE GetNamespace
  BY <1>17 DEF GetNamespace, Checked, Moves, Calm, OrderInv, PayloadInv, IdentityInv,
     Tested, Matched, Captured, Gone, world, harness
<1>18. CASE GetClaim
  BY <1>18 DEF GetClaim, ReadClaim, Checked, Moves, Calm, OrderInv, PayloadInv,
     IdentityInv, Tested, Matched, Captured, Gone, world, harness
<1>19. CASE Target
  BY <1>19 DEF Target, Owned, Checked, Moves, Calm, OrderInv, PayloadInv, IdentityInv,
     Tested, Matched, Captured, Gone, world, harness
<1>20. CASE Patch
  BY <1>20 DEF Patch, Applied, Moves, Fail, Calm, Faulty, OrderInv, PayloadInv,
     IdentityInv, Tested, Matched, Captured, Gone, world, harness
<1>21. CASE Retarget
  BY <1>21 DEF Retarget, Checked, Moves, Calm, OrderInv, PayloadInv, IdentityInv, Tested,
     Matched, Captured, Gone, world, harness
<1>22. CASE DeleteNamespace
  BY <1>22 DEF DeleteNamespace, Applied, Moves, Fail, Calm, Faulty, OrderInv, PayloadInv,
     IdentityInv, Tested, Matched, Captured, Gone, world, harness
<1>23. CASE NamespaceGone
  BY <1>23 DEF NamespaceGone, Checked, Moves, Calm, OrderInv, PayloadInv, IdentityInv,
     Tested, Matched, Captured, Gone, world, harness
<1>24. CASE ProveAbsence
  BY <1>24 DEF ProveAbsence, RunAbsence, Calm, OrderInv, PayloadInv, IdentityInv, Tested,
     Matched, Captured, Gone, world, harness
<1>25. CASE CapturePost
  BY <1>25 DEF CapturePost, Moves, Calm, OrderInv, PayloadInv, IdentityInv, Tested,
     Matched, Captured, Gone, world, harness
<1>26. CASE Report
  BY <1>26 DEF Report, Checked, Moves, Calm, OrderInv, PayloadInv, IdentityInv, Tested,
     Matched, Captured, Gone, world, harness
<1>27. CASE Cluster(WriterStarts)
  <2>1. /\ volume[bound] = "blank" /\ bound = last /\ bound \in Claims
        /\ UNCHANGED <<pc, attempt, read, identity>>
        /\ wrote' = wrote \/ wrote' = [wrote EXCEPT ![bound] = pod.node]
    BY <1>27 DEF Cluster, WriterStarts, OrderInv, harness, Claims
  <2>2. Captured => identity.node # None /\ identity.claim \in Claims
    BY StorageAssumption DEF StorageAssumption, Captured, Identities
  <2>3. ~(Captured /\ identity.claim = last)
    BY <2>1, <2>2 DEF PayloadInv, IdentityInv, Matched, Claims
  <2>4. ~Gone
    BY <2>1 DEF Gone
  <2>5. Captured => (Matched(identity.claim) <=> Matched(identity.claim)')
    BY <2>1, <2>2, <2>3 DEF Matched
  <2> QED
    BY <2>1, <2>4, <2>5 DEF Tested, Captured
<1>28. CASE Cluster(ReaderStarts)
  <2>1. /\ volume[bound] = "payload" /\ pod.node \in Nodes /\ bound \in Claims
        /\ UNCHANGED <<pc, attempt, wrote, identity>>
        /\ read' = [read EXCEPT ![bound] = pod.node]
    BY <1>28 DEF Cluster, ReaderStarts, OrderInv, harness, Claims
  <2>2. Captured => identity.claim \in Claims
    BY DEF Captured, Identities
  <2>3. ~Gone
    BY <2>1 DEF Gone
  <2>4. Captured /\ read[identity.claim] # None => read'[identity.claim] # None
    BY <2>1, <2>2, StorageAssumption DEF StorageAssumption
  <2> QED
    BY <2>1, <2>3, <2>4 DEF Tested, Captured, Matched
<1>29. CASE Cluster(Finalize)
  BY <1>29 DEF Cluster, Finalize, NoPod, OrderInv, PayloadInv, IdentityInv, Tested,
     Matched, Captured, Gone, world, harness
<1>30. CASE \E n \in Nodes : Cluster(Place(n))
  BY <1>30 DEF Cluster, Place, Provision, OrderInv, PayloadInv, IdentityInv, Tested,
     Matched, Captured, Gone, world, harness
<1>31. CASE \E n \in Nodes : Cluster(Recovers(n))
  BY <1>31 DEF Cluster, Recovers, OrderInv, PayloadInv, IdentityInv, Tested, Matched,
     Captured, Gone, world, harness
<1>32. CASE \E c \in Claims : Cluster(Reclaim(c))
  BY <1>32 DEF Cluster, Reclaim, OrderInv, PayloadInv, IdentityInv, Tested, Matched,
     Captured, Gone, world, harness
<1>33. CASE Cluster(Replaced)
  BY <1>33 DEF Cluster, Replaced, New, NoPod, OrderInv, PayloadInv, IdentityInv, Tested,
     Matched, Captured, Gone, world, harness
<1>34. CASE \E n \in Nodes : Cluster(NodeLost(n))
  BY <1>34 DEF Cluster, NodeLost, OrderInv, PayloadInv, IdentityInv, Tested, Matched,
     Captured, Gone, world, harness
<1>35. CASE Elsewhere
  BY <1>35 DEF Elsewhere, OrderInv, PayloadInv, IdentityInv, Tested, Matched, Captured, Gone,
     world, harness
<1> QED
  BY <1>1, <1>2, <1>3, <1>4, <1>5, <1>6, <1>7, <1>8, <1>9, <1>10, <1>11, <1>12,
     <1>13, <1>14, <1>15, <1>16, <1>17, <1>18, <1>19, <1>20, <1>21, <1>22,
     <1>23, <1>24, <1>25, <1>26, <1>27, <1>28, <1>29, <1>30, <1>31, <1>32,
     <1>33, <1>34, <1>35, Steps, Zenon DEF Step

(***************************************************************************)
(* Only Reclaim empties a volume.                                          *)
(***************************************************************************)
LEMMA VolumeStep ==
  ASSUME TypeOK, [Next]_vars, NEW c \in Claims, volume[c] # "none", volume'[c] = "none"
  PROVE  policy[c] = "Delete"
<1> USE DEF TypeOK, WorldOK
<1>1. ~Abandons
  BY DEF Abandons, world
<1>2. ~CapturePre
  BY DEF CapturePre, world
<1>3. ~StorageClass
  BY DEF StorageClass, Checked, world
<1>4. ~NamespaceIsFree
  BY DEF NamespaceIsFree, Checked, world
<1>5. ~CreateNamespace
  BY DEF CreateNamespace
<1>6. ~ApplyWriter
  BY DEF ApplyWriter
<1>7. ~WriterReady
  BY DEF WriterReady, Checked, world
<1>8. ~CaptureClaim
  BY DEF CaptureClaim, ReadClaim, Checked, world
<1>9. ~CaptureIdentity
  BY DEF CaptureIdentity, world
<1>10. ~HealthBefore
  BY DEF HealthBefore, Checked, world
<1>11. ~DeleteWriter
  BY DEF DeleteWriter
<1>12. ~CreateReader
  BY DEF CreateReader
<1>13. ~ReaderReady
  BY DEF ReaderReady, Checked, world
<1>14. ~RecaptureClaim
  BY DEF RecaptureClaim, ReadClaim, Checked, world
<1>15. ~VerifyReschedule
  BY DEF VerifyReschedule, Checked, world
<1>16. ~HealthAfter
  BY DEF HealthAfter, Checked, world
<1>17. ~GetNamespace
  BY DEF GetNamespace, Checked, world
<1>18. ~GetClaim
  BY DEF GetClaim, ReadClaim, Checked, world
<1>19. ~Target
  BY DEF Target, Checked, world
<1>20. ~Patch
  BY DEF Patch
<1>21. ~Retarget
  BY DEF Retarget, Checked, world
<1>22. ~DeleteNamespace
  BY DEF DeleteNamespace
<1>23. ~NamespaceGone
  BY DEF NamespaceGone, Checked, world
<1>24. ~ProveAbsence
  BY DEF ProveAbsence, world
<1>25. ~CapturePost
  BY DEF CapturePost, world
<1>26. ~Report
  BY DEF Report, Checked, world
<1>27. ~Cluster(WriterStarts)
  BY DEF Cluster, WriterStarts
<1>28. ~Cluster(ReaderStarts)
  BY DEF Cluster, ReaderStarts
<1>29. ~Cluster(Finalize)
  BY DEF Cluster, Finalize
<1>30. ~(\E n \in Nodes : Cluster(Place(n)))
  BY DEF Cluster, Place, Provision
<1>31. ~(\E n \in Nodes : Cluster(Recovers(n)))
  BY DEF Cluster, Recovers
<1>32. CASE \E d \in Claims : Cluster(Reclaim(d))
  BY <1>32 DEF Cluster, Reclaim
<1>33. ~Cluster(Replaced)
  BY DEF Cluster, Replaced
<1>34. ~(\E n \in Nodes : Cluster(NodeLost(n)))
  BY DEF Cluster, NodeLost
<1>35. ~Elsewhere
  BY DEF Elsewhere
<1> QED
  BY <1>1, <1>2, <1>3, <1>4, <1>5, <1>6, <1>7, <1>8, <1>9, <1>10, <1>11, <1>12,
     <1>13, <1>14, <1>15, <1>16, <1>17, <1>18, <1>19, <1>20, <1>21, <1>22,
     <1>23, <1>24, <1>25, <1>26, <1>27, <1>28, <1>29, <1>30, <1>31, <1>32,
     <1>33, <1>34, <1>35, Steps, Zenon DEF Step

(***************************************************************************)
(* All of it holds from Init on.                                           *)
(***************************************************************************)
LEMMA Invariance == Spec => []Inv
<1>1. Init => Inv
  <2> SUFFICES ASSUME Init PROVE Inv
    OBVIOUS
  <2>1. HarnessOK /\ WorldOK
    <3>1. 0 \in 0..MaxClaims
      BY StorageAssumption DEF StorageAssumption
    <3>2. /\ disk \in Disks
          /\ pod \in [kind: {"none", "writer", "reader"}, node: Nodes \cup {None}, ready: BOOLEAN]
      BY StorageAssumption, Pods DEF StorageAssumption, Init
    <3>3. HarnessOK
      BY <3>1 DEF Init, HarnessOK, Testing
    <3> QED
      BY <3>1, <3>2, <3>3 DEF Init, WorldOK
  <2>2. ReportsOK /\ faults \in 0..MaxFaults
    BY StorageAssumption DEF StorageAssumption, Init, ReportsOK
  <2>3. OrderInv /\ RetainInv
    BY DEF Init, OrderInv, RetainInv, Setup, Early, Testing, NoPod
  <2>4. ~Captured
    BY StorageAssumption DEF StorageAssumption, Init, Captured, Identities
  <2>5. PayloadInv /\ IdentityInv
    BY <2>4 DEF Init, PayloadInv, IdentityInv, Runs, NoPod, Identified
  <2>6. ProvenInv
    BY DEF Init, ProvenInv, Tested, Cleaning
  <2> QED
    BY <2>1, <2>2, <2>3, <2>5, <2>6 DEF Inv, TypeOK
<1>2. Inv /\ [Next]_vars => Inv'
  BY TypeStep, OrderStep, RetainStep, PayloadStep, IdentityStep, ProvenStep, Zenon DEF Inv
<1> QED
  BY <1>1, <1>2, PTL DEF Spec

(***************************************************************************)
(* The variables of the test and the cluster have their types, through every *)
(* failure, lost answer, kill, node loss and replaced claim.               *)
(***************************************************************************)
THEOREM TypeCorrect == Spec => []TypeOK
<1>1. Inv => TypeOK
  BY DEF Inv
<1> QED
  BY <1>1, Invariance, PTL

(***************************************************************************)
(* A report with status PASS (build_report) says what it means: nothing of the *)
(* run is left, and the captured claim was written on one node and read on *)
(* another.  verify_reschedule only compares captures; that they speak of one *)
(* claim and one payload follows from PayloadInv and IdentityInv: a claim is *)
(* written once, the reader is kept off the captured node, and a claim replaced *)
(* between two captures cannot come back.                                  *)
(***************************************************************************)
THEOREM PassProven == Spec => []PassIsProven
<1>1. Inv => PassIsProven
  <2> SUFFICES ASSUME Inv, pc = "pass"
               PROVE  /\ Gone
                      /\ \E c \in Claims :
                           /\ c = identity.claim
                           /\ wrote[c] # None /\ read[c] # None /\ wrote[c] # read[c]
    BY DEF PassIsProven
  <2>1. Gone /\ Captured /\ Matched(identity.claim) /\ read[identity.claim] # None
    BY DEF Inv, ProvenInv, Tested
  <2>2. identity.claim \in Claims /\ identity.node # None
    BY <2>1, StorageAssumption DEF StorageAssumption, Captured, Identities
  <2>3. read[identity.claim] # identity.node
    BY <2>1, <2>2 DEF Inv, IdentityInv
  <2> QED
    BY <2>1, <2>2, <2>3 DEF Matched
<1> QED
  BY <1>1, Invariance, PTL

(***************************************************************************)
(* No PersistentVolume stays behind under Retain once its namespace is gone *)
(* (longhorn-storage-test.sh:99, 134), unless the claim was replaced: cleanup *)
(* deletes the namespace only of a run without a claim or after the PV was *)
(* seen to be Delete (RetainInv), and a Delete PV is never made Retain again. *)
(***************************************************************************)
THEOREM NoOrphan == Spec => []NothingOrphaned
<1>1. Inv => NothingOrphaned
  BY Zenon DEF Inv, RetainInv, NothingOrphaned
<1> QED
  BY <1>1, Invariance, PTL

(***************************************************************************)
(* No volume of the test goes while the test may still read it             *)
(* (validate_absence: longhorn_test_data_removed_only_at_cleanup): only a PV *)
(* under Delete is reclaimed, the class was examined before anything was   *)
(* provisioned (StorageClass), and Patch is a step of cleanup.             *)
(***************************************************************************)
THEOREM DataKept == Spec => DataRemovedOnlyAtCleanup
<1>1. Inv /\ [Next]_vars =>
        [\A c \in Claims :
           volume[c] # "none" /\ volume'[c] = "none" => pc \notin Testing]_vars
  BY VolumeStep, Zenon DEF Inv, RetainInv
<1> QED
  BY <1>1, Invariance, PTL DEF Spec, DataRemovedOnlyAtCleanup

------------------------------------------------------------------------------
(* The disks. *)

(***************************************************************************)
(* The reports so far count nothing of the test, and a run that reports has *)
(* both: before the first no claim was made, before the second the absence *)
(* of every claim's volume was proved.                                     *)
(***************************************************************************)
DisksInv ==
  /\ {pre, post} \subseteq {None, 0}
  /\ pc = "pass" => pre # None /\ post # None

LEMMA NothingExists ==
  ASSUME \A c \in Claims : volume[c] = "none"
  PROVE  Capacity = 0
<1>1. Existing = {}
  BY DEF Existing
<1> QED
  BY <1>1, FS_EmptySet DEF Capacity

\* Every step keeps that: only the captures write the reports.
LEMMA DisksStep ==
  ASSUME Inv, DisksInv, [Next]_vars
  PROVE  DisksInv'
<1> USE DEF Inv, TypeOK
<1>1. CASE UNCHANGED <<pre, post>> /\ (pc' = "pass" => pc = "pass")
  BY <1>1, Zenon DEF DisksInv
<1>2. CASE CapturePre
  <2>1. pc = "capacity" /\ pc' = "class" /\ pre' = Capacity /\ post' = post
    BY <1>2 DEF CapturePre, Moves
  <2>2. last = 0
    BY <2>1 DEF OrderInv, Early, Setup
  <2>3. \A c \in Claims : volume[c] = "none"
    BY <2>2, StorageAssumption DEF OrderInv, Claims, StorageAssumption
  <2> QED
    BY <2>1, <2>3, NothingExists DEF DisksInv
<1>3. CASE CapturePost
  <2>1. pc = "post" /\ pc' = "report" /\ post' = Capacity /\ pre' = pre
    BY <1>3 DEF CapturePost, Moves
  <2>2. Capacity = 0
    BY <2>1, NothingExists DEF ProvenInv, Gone
  <2> QED
    BY <2>1, <2>2 DEF DisksInv
<1>4. CASE Report
  <2>1. pre # None /\ post # None /\ UNCHANGED <<pre, post>>
    BY <1>4 DEF Report, Checked
  <2> QED
    BY <2>1, Zenon DEF DisksInv
<1>5. CASE ~CapturePre /\ ~CapturePost /\ ~Report
  <2>1. UNCHANGED <<pre, post>>
    BY <1>5, Steps, Zenon DEF Step, Abandons, StorageClass, NamespaceIsFree, CreateNamespace,
       ApplyWriter, WriterReady, CaptureClaim, CaptureIdentity, HealthBefore, DeleteWriter,
       CreateReader, ReaderReady, RecaptureClaim, VerifyReschedule, HealthAfter, GetNamespace,
       GetClaim, Target, Patch, Retarget, DeleteNamespace, NamespaceGone, ProveAbsence,
       ReadClaim, Checked, Cluster, harness, Elsewhere
  <2>2. pc' = "pass" => pc = "pass"
    BY <1>5, Steps DEF Step, Abandons, StorageClass, NamespaceIsFree, CreateNamespace,
       ApplyWriter, WriterReady, CaptureClaim, CaptureIdentity, HealthBefore, DeleteWriter,
       CreateReader, ReaderReady, RecaptureClaim, VerifyReschedule, HealthAfter, GetNamespace,
       GetClaim, Target, Patch, Retarget, DeleteNamespace, NamespaceGone, ProveAbsence,
       ReadClaim, Checked, Applied, Moves, Fail, Cluster, harness, Elsewhere
  <2> QED
    BY <1>1, <2>1, <2>2
<1> QED
  BY <1>2, <1>3, <1>4, <1>5

(***************************************************************************)
(* No volume of the test existed at either capture of a PASS, whatever was *)
(* replaced, lost or interrupted: the first is taken before there is a claim, *)
(* the second after ProveAbsence has found no PV and no volume of any of the *)
(* namespace's claims, and none is made without the namespace.             *)
(***************************************************************************)
THEOREM CapturesOfOthers == Spec => []CapturesLeaveTestOut
<1>1. Init => DisksInv
  BY DEF Init, DisksInv
<1>2. Inv /\ DisksInv /\ [Next]_vars => DisksInv'
  BY DisksStep
<1>3. DisksInv => CapturesLeaveTestOut
  BY DEF DisksInv, CapturesLeaveTestOut
<1> QED
  BY <1>1, <1>2, <1>3, Invariance, PTL DEF Spec
================================================================================
