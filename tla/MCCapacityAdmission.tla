------------------------- MODULE MCCapacityAdmission -------------------------
(***************************************************************************)
(* Documents for CapacityAdmission: one for every kind and strategy, with  *)
(* percentages that do not divide, sidecars and init containers, pinned    *)
(* and anti-affine workloads, volumes with three, two and one copies.      *)
(***************************************************************************)
EXTENDS CapacityAdmission

Plain ==
  [ name |-> "plain", kind |-> "Object", replicas |-> 0, strategy |-> "RollingUpdate",
    surge |-> [percent |-> TRUE, value |-> 25], inits |-> <<>>, app |-> 1,
    overhead |-> 0, peakOnly |-> FALSE, eligible |-> Nodes, anti |-> FALSE,
    claims |-> <<>> ]

Container(always, request) == [always |-> always, request |-> request]
Claim(bytes, copies) == [bytes |-> bytes, copies |-> copies]

MCDocuments ==
  << Plain,
    [Plain EXCEPT !.name = "web", !.kind = "Deployment", !.replicas = 2],
    [Plain EXCEPT !.name = "heavy", !.kind = "Deployment", !.replicas = 1, !.app = 2],
    [Plain EXCEPT !.name = "recreated", !.kind = "Deployment", !.replicas = 1,
       !.strategy = "Recreate", !.app = 1,
       !.inits = <<Container(TRUE, 1), Container(FALSE, 3)>>],
    [Plain EXCEPT !.name = "pinned", !.kind = "Deployment", !.replicas = 3,
       !.surge = [percent |-> FALSE, value |-> 0], !.eligible = {1, 2}],
    [Plain EXCEPT !.name = "local", !.kind = "Deployment", !.replicas = 1,
       !.eligible = {1}],
    [Plain EXCEPT !.name = "spread", !.kind = "Deployment", !.replicas = 3, !.anti = TRUE],
    [Plain EXCEPT !.name = "data", !.kind = "StatefulSet", !.replicas = 2,
       !.inits = <<Container(FALSE, 2), Container(TRUE, 1)>>, !.claims = <<Claim(1, 3)>>],
    [Plain EXCEPT !.name = "agent", !.kind = "DaemonSet", !.strategy = "OnDelete"],
    [Plain EXCEPT !.name = "proxy", !.kind = "DaemonSet", !.eligible = {2, 3}, !.overhead = 1],
    [Plain EXCEPT !.name = "hook", !.kind = "Job", !.replicas = 2],
    [Plain EXCEPT !.name = "mover", !.kind = "Pod", !.peakOnly = TRUE, !.app = 2],
    [Plain EXCEPT !.name = "operator", !.kind = "Generator", !.replicas = 1],
    [Plain EXCEPT !.name = "store", !.kind = "PersistentVolumeClaim",
       !.claims = <<Claim(2, 3)>>],
    [Plain EXCEPT !.name = "cache", !.kind = "PersistentVolumeClaim",
       !.claims = <<Claim(1, 2)>>],
    [Plain EXCEPT !.name = "scratch", !.kind = "PersistentVolumeClaim",
       !.claims = <<Claim(1, 1)>>] >>

\* Every pair of documents, a document twice among them.
MCRenders ==
  { <<MCDocuments[pair[1]], MCDocuments[pair[2]]>> :
      pair \in {p \in (DOMAIN MCDocuments) \X (DOMAIN MCDocuments) : p[1] <= p[2]} }

\* Equal nodes, and one node smaller or larger than the others; among them a disk
\* that cannot hold a copy of every volume the sums let in.
MCEvidence ==
  { [node |-> <<4, 4, 4>>, disk |-> <<5, 5, 3>>],
    [node |-> <<6, 4, 4>>, disk |-> <<3, 3, 3>>],
    [node |-> <<4, 6, 5>>, disk |-> <<5, 5, 3>>],
    [node |-> <<5, 5, 5>>, disk |-> <<5, 5, 1>>] }
==============================================================================
