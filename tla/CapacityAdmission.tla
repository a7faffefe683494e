-------------------------- MODULE CapacityAdmission --------------------------
(***************************************************************************)
(* scripts/phase6/capacity-admission.py: the gate reads the rendered       *)
(* documents one after the other, adds up what they request at steady      *)
(* state and at rollout peak and what their volumes take, and compares the *)
(* sums with what two of the three nodes hold.  The second half is the     *)
(* cluster the gate speaks about: rollouts, a scheduler and the loss of a  *)
(* node.  All numbers are of one resource, CPU or memory: both pass        *)
(* through the same formulas independently.  A node must have room for a   *)
(* pod in both, so a real scheduler does less than the one here, and what  *)
(* holds of every placement here holds of each resource there.             *)
(***************************************************************************)
EXTENDS Integers, Sequences, FiniteSetsExt, SequencesExt

CONSTANTS
  Renders,      \* the documents of a render, in the order the gate reads them
  Evidence,     \* what the candidate nodes may have: resources and disk
  Existing,     \* resources requested before Phase 6, in pods of one unit
  Reserve,      \* required reserve of resources
  DiskReserve   \* required reserve of bytes

\* The evidence must hold exactly three nodes.
Nodes == 1..3

Workloads == {"Deployment", "StatefulSet", "DaemonSet", "Job", "Pod"}
Kinds == Workloads \cup
  { "PersistentVolumeClaim",
    "Object",      \* a kind that takes no capacity
    "Generator" }  \* any other kind; an operator may run pods for it

Containers == [always : BOOLEAN, request : Nat]   \* restartPolicy: Always
Claims == [bytes : Nat, copies : Nat \ {0}]        \* copies of its StorageClass

Documents ==
  [ name : STRING,
    kind : Kinds,
    replicas : Nat,                            \* a Job's parallelism
    strategy : {"RollingUpdate", "Recreate", "OnDelete"},
    surge : [percent : BOOLEAN, value : Nat],  \* maxSurge
    inits : Seq(Containers),
    app : Nat,                                 \* sum of the application containers
    overhead : Nat,
    peakOnly : BOOLEAN,
    eligible : SUBSET Nodes,  \* by selector, taints and node affinity
    anti : BOOLEAN,           \* required pod anti-affinity by host
    claims : Seq(Claims) ]

ASSUME CapacityAssumption ==
  /\ Renders \subseteq Seq(Documents)
  /\ Evidence \subseteq [node : [Nodes -> Nat \ {0}], disk : [Nodes -> Nat \ {0}]]
  /\ Existing \in Nat /\ Reserve \in Nat /\ DiskReserve \in Nat

VARIABLES
  node,     \* allocatable resources of each node
  disk,     \* free bytes of each node
  render,   \* the rendered documents
  i,        \* number of documents read
  steady,   \* aggregate_steady
  peak,     \* aggregate_peak
  raw,      \* raw_pvc_bytes
  loss,     \* loss_pvc_bytes
  verdict,  \* reading, rejected, or admitted
  wanted,   \* pods each workload wants, workload 0 is what existed before
  placed,   \* how many of them run on each node
  down      \* the lost node, 0 if none

inputs  == <<node, disk, render>>
sums    == <<steady, peak, raw, loss>>
cluster == <<wanted, placed, down>>
vars    == <<inputs, i, sums, verdict, cluster>>

Ids == 0..Len(render)

TypeOK ==
  /\ [node |-> node, disk |-> disk] \in Evidence
  /\ render \in Renders
  /\ i \in 0..Len(render)
  /\ steady \in Nat /\ peak \in Nat /\ raw \in Nat /\ loss \in Nat
  /\ verdict \in {"reading", "rejected", "admitted"}
  /\ wanted \in [Ids -> Nat]
  /\ placed \in [Ids -> [Nodes -> Nat]]
  /\ down \in 0..3

Init ==
  /\ \E e \in Evidence : node = e.node /\ disk = e.disk
  /\ render \in Renders
  /\ i = 0
  /\ steady = 0 /\ peak = 0 /\ raw = 0 /\ loss = 0
  /\ verdict = "reading"
  /\ wanted = [d \in Ids |-> 0]
  /\ placed = [d \in Ids |-> [n \in Nodes |-> 0]]
  /\ down = 0

Ceiling(a, b) == (a + b - 1) \div b

------------------------------------------------------------------------------
(* What one document requests. *)

\* Mutant: an init container runs without the sidecars started before it.
AfterInitAlone(acc, c) ==
  [ sidecars |-> IF c.always THEN acc.sidecars + c.request ELSE acc.sidecars,
    most     |-> Max({acc.most, c.request}) ]

\* One init container more: a sidecar stays, another one runs beside those
\* before it.
AfterInit(acc, c) ==
  LET running == acc.sidecars + c.request IN
  [ sidecars |-> IF c.always THEN running ELSE acc.sidecars,
    most     |-> Max({acc.most, running}) ]

EffectiveRequest(w) ==
  LET inits == FoldLeft(AfterInit, [sidecars |-> 0, most |-> 0], w.inits)
  IN  Max({w.app + inits.sidecars, inits.most}) + w.overhead

\* Mutant: the percentage is rounded down.
SurgeFloor(w, basis) ==
  IF w.surge.percent THEN (basis * w.surge.value) \div 100 ELSE w.surge.value

Surge(w, basis) ==
  IF w.surge.percent THEN Ceiling(basis * w.surge.value, 100) ELSE w.surge.value

\* Pods of a workload at steady state and at the peak of a rollout.
Replicas(w, hosts) ==
  CASE w.kind = "Deployment"  -> [ steady |-> w.replicas,
                                   peak |-> w.replicas + (IF w.strategy = "Recreate"
                                                          THEN 0 ELSE Surge(w, w.replicas)) ]
    [] w.kind = "StatefulSet" -> [ steady |-> w.replicas, peak |-> w.replicas ]
    [] w.kind = "DaemonSet"   -> [ steady |-> hosts,
                                   peak |-> hosts + (IF w.strategy = "OnDelete"
                                                     THEN 0 ELSE Surge(w, hosts)) ]
    [] w.kind = "Job"         -> [ steady |-> 0, peak |-> w.replicas ]
    [] w.kind = "Pod"         -> [ steady |-> 1, peak |-> 1 ]

\* A DaemonSet is counted again for the nodes it may run on, with its surge
\* whatever its strategy is.
Counted(w) ==
  LET hosts == Cardinality(w.eligible) IN
  IF w.kind = "DaemonSet" THEN [ steady |-> hosts, peak |-> hosts + Surge(w, hosts) ]
                          ELSE Replicas(w, 3)

Smallest(hosts) == Min({node[n] : n \in hosts})

\* The pods spread evenly over hosts, as if each were the smallest of them.
Spreads(w, pods, hosts) ==
  Ceiling(pods, Cardinality(hosts)) * EffectiveRequest(w) <= Smallest(hosts)

\* Mutant: nothing is asked of the nodes left after a loss.
PlacementCheckUnlost(w, r) ==
  /\ w.eligible # {}
  /\ EffectiveRequest(w) <= Smallest(w.eligible)
  /\ w.anti => r.steady <= Cardinality(w.eligible)
  /\ Spreads(w, r.peak, w.eligible)

PlacementCheck(w, r) ==
  /\ w.eligible # {}
  /\ EffectiveRequest(w) <= Smallest(w.eligible)
  /\ w.anti => r.steady <= Cardinality(w.eligible)
  /\ Spreads(w, r.peak, w.eligible)
  /\ r.peak > 0 => \A lost \in Nodes :
       LET remaining == w.eligible \ {lost}
       IN  remaining # {} /\ Spreads(w, r.peak, remaining)

Bytes(claims, times) ==
  FoldLeft(LAMBDA sum, c : [ raw  |-> sum.raw + c.bytes * times * c.copies,
                             loss |-> sum.loss + c.bytes * times * (c.copies - 1) ],
           [raw |-> 0, loss |-> 0], claims)

\* Mutant: a StatefulSet's volumes are counted once, not once for each pod.
VolumesOnce(w) ==
  CASE w.kind \in {"StatefulSet", "PersistentVolumeClaim"} -> Bytes(w.claims, 1)
    [] OTHER -> [raw |-> 0, loss |-> 0]

Volumes(w) ==
  CASE w.kind = "StatefulSet"           -> Bytes(w.claims, Counted(w).steady)
    [] w.kind = "PersistentVolumeClaim" -> Bytes(w.claims, 1)
    [] OTHER                            -> [raw |-> 0, loss |-> 0]

------------------------------------------------------------------------------
(* The gate. *)

Supported(w) ==
  /\ w.kind = "Deployment" => w.strategy \in {"RollingUpdate", "Recreate"}
  /\ w.kind \in {"StatefulSet", "DaemonSet"} => w.strategy \in {"RollingUpdate", "OnDelete"}
  /\ w.kind = "Job" => w.replicas > 0

Accepts(w) ==
  /\ w.kind # "Generator"
  /\ \A j \in 1..i : render[j].name # w.name
  /\ w.kind \in Workloads => /\ Supported(w)
                             /\ PlacementCheck(w, Replicas(w, 3))
                             /\ PlacementCheck(w, Counted(w))

Reading == verdict = "reading" /\ i < Len(render)

Reject ==
  /\ Reading
  /\ ~Accepts(render[i + 1])
  /\ verdict' = "rejected"
  /\ UNCHANGED <<inputs, i, sums, cluster>>

\* component_capacity for the next document; a peak-only projection adds to
\* the peak alone.
Account ==
  /\ Reading
  /\ LET w == render[i + 1] IN
     /\ Accepts(w)
     /\ IF w.kind \in Workloads
        THEN LET r == Counted(w)  size == EffectiveRequest(w) IN
             /\ steady' = steady + (IF w.peakOnly THEN 0 ELSE size * r.steady)
             /\ peak' = peak + size * r.peak
        ELSE UNCHANGED <<steady, peak>>
     /\ raw' = raw + Volumes(w).raw
     /\ loss' = loss + Volumes(w).loss
  /\ i' = i + 1
  /\ UNCHANGED <<inputs, verdict, cluster>>

Total(f) == f[1] + f[2] + f[3]

\* What the two smallest hold.
Worst(f) == Total(f) - Max({f[n] : n \in Nodes})

\* Mutant: the nodes left after a loss are compared with the steady state.
FitsSteady ==
  /\ Existing + steady + Reserve <= Worst(node)
  /\ raw + DiskReserve <= Total(disk)
  /\ loss + DiskReserve <= Worst(disk)

Fits ==
  /\ Existing + steady <= Total(node)
  /\ Existing + peak + Reserve <= Worst(node)
  /\ raw + DiskReserve <= Total(disk)
  /\ loss + DiskReserve <= Worst(disk)

RejectSums ==
  /\ verdict = "reading" /\ i = Len(render)
  /\ ~Fits
  /\ verdict' = "rejected"
  /\ UNCHANGED <<inputs, i, sums, cluster>>

------------------------------------------------------------------------------
(* The cluster, from Kubernetes' own definitions. *)

Sum(f) == FoldFunction(+, 0, f)

\* The most a pod holds at once: while its k-th init container runs, or later.
PodRequest(w) ==
  LET stays(k) == Sum([j \in {m \in 1..k : w.inits[m].always} |-> w.inits[j].request])
      starting == {stays(k - 1) + w.inits[k].request : k \in DOMAIN w.inits}
  IN  w.overhead + Max({w.app + stays(Len(w.inits))} \cup starting)

\* The pods a rollout may add: the fewest that make the percentage.
MaxSurge(w, basis) ==
  IF ~w.surge.percent THEN w.surge.value
  ELSE Min({k \in 0..basis * w.surge.value : 100 * k >= basis * w.surge.value})

Rolls(w) == w.strategy = "RollingUpdate" /\ w.kind \in {"Deployment", "DaemonSet"}

Runs(w) ==
  CASE w.kind \in {"Deployment", "StatefulSet", "Generator"} -> w.replicas
    [] w.kind = "DaemonSet" -> Cardinality(w.eligible)
    [] w.kind = "Pod"       -> 1
    [] OTHER                -> 0

SteadyPods(d) ==
  IF d = 0 THEN Existing ELSE IF render[d].peakOnly THEN 0 ELSE Runs(render[d])

MostPods(d) ==
  IF d = 0 THEN Existing
  ELSE LET w == render[d] IN
       IF w.kind = "Job" THEN w.replicas
       ELSE Runs(w) + (IF Rolls(w) THEN MaxSurge(w, Runs(w)) ELSE 0)

Size(d) == IF d = 0 THEN 1 ELSE PodRequest(render[d])
Home(d) == IF d = 0 THEN Nodes ELSE render[d].eligible

\* How many pods of a workload one node may run.
PerNode(d) ==
  IF d = 0 THEN Existing
  ELSE IF render[d].anti THEN 1
  ELSE IF render[d].kind = "DaemonSet" THEN 1 + MostPods(d) - SteadyPods(d)
  ELSE MostPods(d)

Free(n) == node[n] - Sum([d \in Ids |-> placed[d][n] * Size(d)])
Pending(d) == wanted[d] - Sum(placed[d])
HasRoom(d, n) == n \in Home(d) \ {down} /\ placed[d][n] < PerNode(d) /\ Size(d) <= Free(n)

Admit ==
  /\ verdict = "reading" /\ i = Len(render)
  /\ Fits
  /\ verdict' = "admitted"
  /\ wanted' = [d \in Ids |-> SteadyPods(d)]
  /\ UNCHANGED <<inputs, i, sums, placed, down>>

Quiet == UNCHANGED <<inputs, i, sums, verdict>>

Bind(d, n) ==
  /\ Pending(d) > 0
  /\ HasRoom(d, n)
  /\ placed' = [placed EXCEPT ![d][n] = @ + 1]
  /\ UNCHANGED <<wanted, down>> /\ Quiet

\* A rollout, a Job or generated work starts one more pod ...
StartPod(d) ==
  /\ verdict = "admitted"
  /\ wanted[d] < MostPods(d)
  /\ wanted' = [wanted EXCEPT ![d] = @ + 1]
  /\ UNCHANGED <<placed, down>> /\ Quiet

\* ... and ends one, old or new.
EndPod(d, n) ==
  /\ placed[d][n] > 0
  /\ wanted[d] > SteadyPods(d)
  /\ placed' = [placed EXCEPT ![d][n] = @ - 1]
  /\ wanted' = [wanted EXCEPT ![d] = @ - 1]
  /\ UNCHANGED down /\ Quiet

LoseNode(n) ==
  /\ verdict = "admitted"
  /\ down = 0 /\ down' = n
  /\ placed' = [d \in Ids |-> [placed[d] EXCEPT ![n] = 0]]
  /\ UNCHANGED wanted /\ Quiet

NodeReturns ==
  /\ down # 0 /\ down' = 0
  /\ UNCHANGED <<wanted, placed>> /\ Quiet

Gate == Account \/ Reject \/ Admit \/ RejectSums

Cluster == \/ \E d \in Ids, n \in Nodes : Bind(d, n) \/ EndPod(d, n)
           \/ \E d \in Ids : StartPod(d)
           \/ \E n \in Nodes : LoseNode(n)
           \/ NodeReturns

Next == Gate \/ Cluster

Spec == Init /\ [][Next]_vars

------------------------------------------------------------------------------
(***************************************************************************)
(* "Operational reserve remains after the complete rollout peak and one    *)
(* node loss" (config/platform-capacity-admission.yaml:34): whatever       *)
(* rollouts and generated work overlap, any two nodes hold everything the  *)
(* admitted workloads want, and the reserve besides.                       *)
(***************************************************************************)
ReserveRemains ==
  verdict = "admitted" => \A lost \in Nodes :
    Sum([d \in Ids |-> wanted[d] * Size(d)]) + Reserve
      <= Sum([n \in Nodes \ {lost} |-> node[n]])

(***************************************************************************)
(* Of neither resource is what the admission keeps free ever so scattered  *)
(* that every node left has too little for a waiting pod that is not tied  *)
(* to certain nodes and asks for no more than the reserve, however the     *)
(* pods were placed before and also right after a node was lost.  This     *)
(* does not promise that one node has enough of both: with CPU left on one *)
(* node and memory on the other, each holds and the pod waits.             *)
(***************************************************************************)
FreeToMove(d) == d = 0 \/ (render[d].kind # "DaemonSet" /\ ~render[d].anti /\ Home(d) = Nodes)

NoResourceScattered ==
  \A d \in Ids :
    Pending(d) > 0 /\ FreeToMove(d) /\ Size(d) <= Reserve => \E n \in Nodes : HasRoom(d, n)

(***************************************************************************)
(* Each admitted workload could run its whole rollout on the nodes it may  *)
(* use that are left after the loss of any node, if it were alone there    *)
(* ("one-node-loss placement", _placement_check); anti-affine workloads    *)
(* are only checked at steady state on all nodes, and are left out.        *)
(***************************************************************************)
FitsAlone(d, lost) ==
  \E f \in [Home(d) \ {lost} -> 0..MostPods(d)] :
    /\ Sum(f) = MostPods(d)
    /\ \A n \in DOMAIN f : f[n] * Size(d) <= node[n]

WorkloadFitsAlone ==
  verdict = "admitted" => \A d \in DOMAIN render :
    render[d].kind \in Workloads /\ ~render[d].anti => \A lost \in 0..3 : FitsAlone(d, lost)

(***************************************************************************)
(* "Restartable init resources follow scheduler peak semantics"            *)
(* (test_phase6_capacity_admission.py:617): the gate counts for a pod what *)
(* it holds at its greediest moment, neither less nor more.                *)
(***************************************************************************)
RequestIsExact ==
  \A d \in DOMAIN render :
    render[d].kind \in Workloads => EffectiveRequest(render[d]) = PodRequest(render[d])

(***************************************************************************)
(* "Fifty GiB remains free after replicated PVC allocation for rebuild     *)
(* work" (config/platform-capacity-admission.yaml:37), as far as the gate  *)
(* goes, which is by sums: all disks together hold every copy of the       *)
(* volumes of an admitted render and the reserve, and so do any two disks  *)
(* with one copy less of each volume.  That each disk holds its share is   *)
(* not promised (one may be small), nor that a volume with fewer copies    *)
(* than nodes had one of them on the node that was lost (_pvc_bytes).      *)
(***************************************************************************)
VolumeBytes(d, less) ==
  LET w == render[d]
      sizes == Sum([c \in DOMAIN w.claims |-> w.claims[c].bytes * (w.claims[c].copies - less)])
  IN  CASE w.kind = "StatefulSet"           -> w.replicas * sizes
        [] w.kind = "PersistentVolumeClaim" -> sizes
        [] OTHER                            -> 0

AllVolumes(less) == Sum([d \in DOMAIN render |-> VolumeBytes(d, less)])

VolumeSumsFit ==
  verdict = "admitted" =>
    /\ AllVolumes(0) + DiskReserve <= Sum(disk)
    /\ \A lost \in Nodes :
         AllVolumes(1) + DiskReserve <= Sum([n \in Nodes \ {lost} |-> disk[n]])
==============================================================================
