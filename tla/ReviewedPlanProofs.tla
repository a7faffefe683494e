--------------------------- MODULE ReviewedPlanProofs ---------------------------
(***************************************************************************)
(* What the reviewed plans, the repair and the cost report guarantee, for  *)
(* every set of nodes, whichever of them the repair replaces, and any      *)
(* number of runs, provider errors, kills, mixed-up plan files and edits   *)
(* of the node map.                                                        *)
(***************************************************************************)
EXTENDS ReviewedPlan, FiniteSetTheorems, FunctionTheorems, TLAPS

Broken == Instance(Repaired)

(***************************************************************************)
(* The target a step belongs to.                                           *)
(***************************************************************************)
OwnStep ==
  /\ pc = "plan" => target \in {"plan", "repair-node-02-plan"}
  /\ pc \in {"stage", "apply"} => target \in {"apply", "repair-node-02-apply"}
  /\ pc = "review" => target \notin {"cost-report", "state-audit", "destroy"}
  /\ pc = "before" => target \in {"repair-node-02-plan", "repair-node-02-apply"}
  /\ pc \in {"addresses", "untaint"} => target = "repair-node-02-plan"
  /\ pc = "applying" => target \in {"apply", "repair-node-02-apply", "destroy"}
  /\ pc = "backup" => target \in Writers
  /\ pc = "rescue" => target = "repair-node-02-apply"
  /\ pc \in {"reject", "rollback"} => target = "lifecycle-check"
  /\ pc = "reconcile" => target = "cost-report"
  /\ pc = "destroy" => target = "destroy"

(***************************************************************************)
(* What a run keeps for itself is fresh when it starts.                    *)
(***************************************************************************)
Fresh ==
  /\ pc \in Ended => broken = "no"
  /\ next # 1 => target = "repair-node-02-plan" /\ pc \in {"untaint", "plan", "review", "backup"}

(***************************************************************************)
(* The two targets that apply a plan have a copy of it, and what they go   *)
(* on with has passed the review.                                          *)
(***************************************************************************)
Staged ==
  /\ pc \in {"review", "before", "apply", "applying"} /\ target \in {"apply", "repair-node-02-apply"} =>
       staged # None
  /\ target \notin {"apply", "repair-node-02-apply"} => staged = None
  /\ pc \in {"before", "apply", "applying"} /\ target \in {"apply", "repair-node-02-apply"} =>
       Asserted(staged)

(***************************************************************************)
(* What a plan says about objects c and entries s while Terraform still    *)
(* takes it.                                                               *)
(***************************************************************************)
Valid(p, c, s) ==
  p # None /\ p.fresh =>
    /\ \A r \in DOMAIN p.changes : p.changes[r] = "create" => c[r] = "none"
    /\ AssertReplacement(p) =>
         s[Broken] # "none" /\ \A r \in Resources \ {Broken} : s[r] = "ok"

ValidPlans ==
  /\ \A f \in PlanFiles : Valid(saved[f], cloud, state)
  /\ pc \in {"review", "before", "apply"} => Valid(staged, cloud, state)

(***************************************************************************)
(* The stack: an entry is dropped from the state no sooner than its object *)
(* from the cloud, and of the key and the volumes neither is; an instance  *)
(* has an entry only on top of the key's and its volume's; and an instance *)
(* nobody noted has no entry ever after.                                   *)
(***************************************************************************)
Noted == \A r \in Resources : state[r] = "none" => cloud[r] = "none"
Kept == \A r \in Resources \ Instances : state[r] # "none" => cloud[r] # "none"
Founded == \A r \in Instances : state[r] # "none" => \A s \in Needs(r) : state[s] # "none"
Unnoted ==
  \A r \in Instances \cap orphans :
    state[r] = "none" /\ \A s \in Needs(r) : state[s] # "none"

Stack == Noted /\ Kept /\ Founded /\ Unnoted

(***************************************************************************)
(* What Terraform has left to do is of the plan the run has judged, and a  *)
(* creation is of what neither the state nor the cloud has.                *)
(***************************************************************************)
Doing(r) ==
  /\ todo[r] = "create" => state[r] = "none"
  /\ todo[r] \in {"create", "replace"} => r \notin Instances \cap orphans
  /\ target = "apply" => todo[r] = "create" /\ staged.shape = "accepted"
  /\ target = "repair-node-02-apply" => r = Broken /\ todo[r] \in {"create", "replace"}
  /\ target = "destroy" => r \in Instances /\ todo[r] = "delete" /\ state[r] # "none"

AllJudged == \A r \in DOMAIN todo : Doing(r)
Judged == pc = "applying" => AllJudged

(***************************************************************************)
(* Only a repair under way may have left the backup behind itself.         *)
(***************************************************************************)
RepairBackedUp ==
  /\ pc = "pass" /\ target \in Writers => backup = "current"
  /\ pc = "apply" /\ target = "repair-node-02-apply" => backup = "current"
  /\ backup = "behind" /\ writer = "repair-node-02-apply" =>
       target = "repair-node-02-apply" /\ pc \in {"applying", "rescue", "backup"}

(***************************************************************************)
(* A run that started in a wedge stays in one: what it untaints are not    *)
(* the nodes a repair untaints, what it applies is nothing, or a repair on *)
(* a stack that misses something else, or it only deletes.                 *)
(***************************************************************************)
StaysWedged ==
  sunk =>
    /\ config = "accepted" /\ broken = "no" /\ Wedged
    /\ pc = "untaint" /\ AllKnown(Resources) => ~Untaintable(Tainted \cup First(next - 1))
    /\ pc = "plan" /\ target = "repair-node-02-plan" /\ AllKnown(Resources) =>
         ~(Tainted \subseteq Instances)
    /\ pc = "applying" /\ target = "apply" => DOMAIN todo = {}
    /\ pc \in {"review", "before", "apply"} /\ target = "repair-node-02-apply" =>
         staged = saved["RepairPlanPath"]
    /\ pc = "applying" /\ target = "repair-node-02-apply" =>
         Known(Key) /\ ~AllKnown(Resources \ {Broken})

------------------------------------------------------------------------------
\* Types

RunTyped ==
  /\ pc \in Ended \cup Steps /\ target \in Targets
  /\ staged = None \/ (IsPlan(staged) /\ pc \notin Ended)
  /\ next \in 1..(Len(Healthy) + 1)
  /\ DOMAIN todo \subseteq Resources /\ \A r \in DOMAIN todo : todo[r] \in Actions
  /\ broken \in Outcomes \cup {"no"} /\ config \in Shapes

PlansTyped ==
  /\ DOMAIN saved = PlanFiles
  /\ \A f \in PlanFiles : saved[f] = None \/ IsPlan(saved[f])

WorldTyped ==
  /\ cloud \in [Resources -> Shapes \cup {"none"}]
  /\ state \in [Resources -> {"none", "ok", "tainted"}]
  /\ orphans \subseteq Resources /\ output \subseteq Nodes

RecordTyped ==
  /\ backup \in {"no state", "behind", "current"}
  /\ writer \in Targets \cup {"none", "stopped"}
  /\ sunk \in BOOLEAN /\ faults \in 0..MaxFaults

LEMMA HealthyNodes ==
  /\ Len(Healthy) \in Nat /\ MaxFaults \in Nat
  /\ \A i \in 1..Len(Healthy) : Healthy[i] \in Nodes /\ Healthy[i] # Repaired
BY ReviewedPlanAssumption

LEMMA TypeParts == RunTyped' /\ PlansTyped' /\ WorldTyped' /\ RecordTyped' => TypeOK'
BY Zenon DEF TypeOK, RunTyped, PlansTyped, WorldTyped, RecordTyped

(***************************************************************************)
(* What Terraform plans is a plan, and so is what is left of one when the  *)
(* state is written; Terraform takes no such plan.                         *)
(***************************************************************************)
LEMMA PlannedTyped ==
  ASSUME config \in Shapes, NEW S
  PROVE  IsPlan(Planned(S))
<1> DEFINE new == {r \in Resources : ~Known(r)}
           renewed == {r \in Resources \ new : state[r] = "tainted" \/ r \in S}
           changed == {r \in Instances \ (new \cup renewed) :
                         cloud[r] # config \/ Needs(r) \cap (new \cup renewed) # {}}
           changes == [r \in new \cup renewed \cup changed |->
             IF r \in new THEN "create" ELSE IF r \in renewed THEN "replace" ELSE "update"]
<1>1. Planned(S) = [changes |-> changes, shape |-> config, fresh |-> TRUE]
  BY Zenon DEF Planned
<1>2. new \cup renewed \cup changed \subseteq Resources
  BY DEF Resources
<1>3. DOMAIN changes \subseteq Resources /\ \A r \in DOMAIN changes : changes[r] \in Actions
  BY <1>2 DEF Actions
<1> HIDE DEF changes
<1> QED
  BY <1>1, <1>3 DEF IsPlan

LEMMA DestroyingTyped ==
  ASSUME NEW S \in SUBSET Resources
  PROVE  IsPlan(Destroying(S))
<1> DEFINE changes == [r \in {s \in S : Known(s)} |-> "delete"]
           shape == IF \A r \in S : Known(r) => cloud[r] = "accepted" \/ r \notin Instances
                      THEN "accepted" ELSE "other"
<1>1. Destroying(S) = [changes |-> changes, shape |-> shape, fresh |-> TRUE]
  BY Zenon DEF Destroying
<1>2. DOMAIN changes \subseteq Resources /\ \A r \in DOMAIN changes : changes[r] \in Actions
  BY DEF Actions
<1>3. shape \in Shapes
  BY Zenon DEF Shapes
<1> HIDE DEF changes, shape
<1> QED
  BY <1>1, <1>2, <1>3 DEF IsPlan

LEMMA StaleTyped ==
  ASSUME NEW p, p = None \/ IsPlan(p)
  PROVE  /\ Stale(p) = None \/ IsPlan(Stale(p))
         /\ Stale(p) # None => ~Stale(p).fresh
<1>1. CASE p = None
  BY <1>1 DEF Stale
<1>2. CASE p # None
  <2> DEFINE changes == IF AssertReplacement(p) THEN p.changes ELSE NoChange
  <2>1. Stale(p) = [changes |-> changes, shape |-> p.shape, fresh |-> FALSE]
    BY <1>2, Zenon DEF Stale
  <2>2. DOMAIN changes \subseteq Resources /\ \A r \in DOMAIN changes : changes[r] \in Actions
    BY <1>2 DEF IsPlan, NoChange
  <2>3. p.shape \in Shapes
    BY <1>2 DEF IsPlan
  <2> HIDE DEF changes
  <2> QED
    BY <2>1, <2>2, <2>3 DEF IsPlan
<1> QED
  BY <1>1, <1>2

LEMMA WrittenTyped ==
  ASSUME TypeOK, StateWritten
  PROVE  /\ PlansTyped'
         /\ \A f \in PlanFiles : saved'[f] = Stale(saved[f])
         /\ \A f \in PlanFiles : saved'[f] # None => ~saved'[f].fresh
         /\ backup' = "behind" /\ writer' = target /\ target \in Targets
<1>1. \A f \in PlanFiles : saved'[f] = Stale(saved[f])
  BY DEF StateWritten
<1>2. \A f \in PlanFiles : saved[f] = None \/ IsPlan(saved[f])
  BY DEF TypeOK
<1>3. \A f \in PlanFiles : saved'[f] = None \/ IsPlan(saved'[f])
  BY <1>1, <1>2, StaleTyped, Zenon
<1>4. \A f \in PlanFiles : saved'[f] # None => ~saved'[f].fresh
  BY <1>1, <1>2, StaleTyped, Zenon
<1>5. DOMAIN saved' = PlanFiles
  BY DEF StateWritten
<1>6. PlansTyped'
  BY <1>3, <1>5, Zenon DEF PlansTyped, IsPlan
<1> QED
  BY <1>1, <1>4, <1>6 DEF StateWritten, TypeOK

(***************************************************************************)
(* The ways out of a step.                                                 *)
(***************************************************************************)
LEMMA CountsTyped ==
  ASSUME TypeOK, Calm \/ \E kind \in FaultKinds : Faulty(kind)
  PROVE  sunk' \in BOOLEAN /\ faults' \in 0..MaxFaults
<1>1. CASE Calm
  <2>1. sunk' \in BOOLEAN
    BY <1>1, Zenon DEF TypeOK, Calm
  <2> QED
    BY <1>1, <2>1 DEF TypeOK, Calm
<1>2. CASE \E kind \in FaultKinds : Faulty(kind)
  <2>1. sunk' \in BOOLEAN
    BY <1>2, Zenon DEF Faulty
  <2>2. faults < MaxFaults /\ faults' = faults + 1
    BY <1>2, Zenon DEF Faulty
  <2>3. faults \in 0..MaxFaults /\ MaxFaults \in Nat
    BY ReviewedPlanAssumption, Zenon DEF TypeOK
  <2> QED
    BY <2>1, <2>2, <2>3
<1> QED
  BY <1>1, <1>2

LEMMA RecordKept ==
  ASSUME TypeOK, Calm, UNCHANGED <<backup, writer>>
  PROVE  RecordTyped'
BY CountsTyped, Zenon DEF TypeOK, RecordTyped

LEMMA WorldKept ==
  ASSUME TypeOK, UNCHANGED world
  PROVE  WorldTyped'
BY Zenon DEF TypeOK, WorldTyped, world

LEMMA PlansKept ==
  ASSUME TypeOK, UNCHANGED saved
  PROVE  PlansTyped'
BY Zenon DEF TypeOK, PlansTyped, IsPlan

LEMMA EndTyped ==
  ASSUME TypeOK, NEW step, NEW outcome \in Ended, End(step, outcome)
  PROVE  RunTyped' /\ OwnStep'
<1>1. pc' \in Ended /\ target' \in Targets /\ staged' = None /\ config' \in Shapes
  BY DEF TypeOK, End, Moves
<1>2. next' \in 1..(Len(Healthy) + 1) /\ broken' \in Outcomes \cup {"no"}
  BY HealthyNodes DEF End
<1>3. DOMAIN todo' \subseteq Resources /\ \A r \in DOMAIN todo' : todo'[r] \in Actions
  BY DEF End, NoChange
<1>4. RunTyped'
  BY <1>1, <1>2, <1>3, Zenon DEF RunTyped
<1> QED
  BY <1>1, <1>4 DEF OwnStep, Ended

LEMMA EndsTyped ==
  ASSUME TypeOK, NEW step, NEW outcome \in Ended, Ends(step, outcome)
  PROVE  TypeOK' /\ OwnStep'
<1>1. RunTyped' /\ OwnStep'
  BY EndTyped DEF Ends
<1>2. PlansTyped' /\ WorldTyped' /\ RecordTyped'
  BY PlansKept, WorldKept, RecordKept DEF Ends
<1> QED
  BY <1>1, <1>2, TypeParts

LEMMA MovesTyped ==
  ASSUME TypeOK, NEW from, NEW to \in Steps, Moves(from, to), from \in Steps, UNCHANGED staged
  PROVE  /\ pc' \in Ended \cup Steps /\ target' \in Targets /\ config' \in Shapes
         /\ staged' = None \/ (IsPlan(staged)' /\ pc' \notin Ended)
<1>1. pc' \notin Ended /\ pc \notin Ended
  BY DEF Moves, Steps, Ended
<1>2. staged' = None \/ IsPlan(staged')
  BY Zenon DEF TypeOK
<1> QED
  BY <1>1, <1>2, Zenon DEF TypeOK, Moves, IsPlan

LEMMA CheckedTyped ==
  ASSUME TypeOK, NEW from \in Steps, NEW to \in Steps, Checked(from, to)
  PROVE  TypeOK'
<1>1. UNCHANGED <<next, todo, broken>>
  BY DEF Checked, run
<1>2. RunTyped'
  BY <1>1, MovesTyped, Zenon DEF TypeOK, RunTyped, Checked, files
<1>3. PlansTyped' /\ WorldTyped' /\ RecordTyped'
  BY PlansKept, WorldKept, RecordKept DEF Checked, files
<1> QED
  BY <1>2, <1>3, TypeParts

LEMMA SaveTyped ==
  ASSUME TypeOK, OwnStep, NEW from \in Steps, NEW plan, IsPlan(plan), Save(from, plan)
  PROVE  TypeOK'
<1>1. UNCHANGED <<next, todo, broken>>
  BY DEF Save, run
<1>2. RunTyped'
  BY <1>1, MovesTyped, Zenon DEF TypeOK, RunTyped, Save, Steps
<1>3. PlanPath \in PlanFiles
  BY DEF PlanPath, PlanFiles
<1>4. \A f \in PlanFiles : saved'[f] = plan \/ saved'[f] = saved[f]
  BY DEF Save, TypeOK
<1>5. DOMAIN saved' = PlanFiles
  BY DEF Save, TypeOK
<1>6. \A f \in PlanFiles : saved'[f] = None \/ IsPlan(saved'[f])
  BY <1>4, Zenon DEF TypeOK
<1>7. PlansTyped'
  BY <1>5, <1>6, Zenon DEF PlansTyped, IsPlan
<1>8. WorldTyped' /\ RecordTyped'
  BY WorldKept, RecordKept DEF Save
<1> QED
  BY <1>2, <1>7, <1>8, TypeParts

LEMMA InitTyped == Init => TypeOK /\ OwnStep
<1> SUFFICES ASSUME Init PROVE TypeOK /\ OwnStep
  OBVIOUS
<1>1. /\ pc \in Ended /\ target \in Targets /\ staged = None /\ broken \in Outcomes \cup {"no"}
      /\ config \in Shapes /\ orphans \subseteq Resources /\ output \subseteq Nodes
      /\ backup \in {"no state", "behind", "current"} /\ writer \in Targets \cup {"none", "stopped"}
  BY DEF Init, Ended, Targets, Shapes
<1>2. next \in 1..(Len(Healthy) + 1) /\ faults \in 0..MaxFaults
  <2>1. next = 1 /\ faults = 0
    BY Zenon DEF Init
  <2> QED
    BY <2>1, HealthyNodes
<1>3. DOMAIN todo \subseteq Resources /\ \A r \in DOMAIN todo : todo[r] \in Actions
  BY DEF Init, NoChange
<1>4. IsPlan(AppliedPlan)
  BY DEF IsPlan, AppliedPlan, NoChange, Shapes
<1>5. DOMAIN saved = PlanFiles /\ \A f \in PlanFiles : saved[f] = None \/ IsPlan(saved[f])
  <2>1. \/ saved = [f \in PlanFiles |-> None]
        \/ saved = [f \in PlanFiles |-> IF f = "PlanPath" THEN AppliedPlan ELSE None]
    BY Zenon DEF Init
  <2> QED
    BY <1>4, <2>1, Zenon
<1>6. /\ cloud \in [Resources -> Shapes \cup {"none"}]
      /\ state \in [Resources -> {"none", "ok", "tainted"}]
  BY DEF Init, Shapes
<1>7. sunk \in BOOLEAN
  BY Zenon DEF Init
<1>8. TypeOK
  BY <1>1, <1>2, <1>3, <1>5, <1>6, <1>7, Zenon DEF TypeOK
<1> QED
  BY <1>1, <1>8 DEF OwnStep, Ended

(***************************************************************************)
(* Starting, staging and applying a plan, and the operations of the        *)
(* provider.                                                               *)
(***************************************************************************)
LEMMA StartTyped ==
  ASSUME TypeOK, NEW t \in Targets, Start(t)
  PROVE  TypeOK' /\ OwnStep'
<1>1. pc' \in Steps /\ target' = t /\ OwnStep'
  BY DEF Start, FirstStep, Targets, Steps, OwnStep, Writers
<1>2. staged' = None /\ UNCHANGED <<next, todo, broken, config, saved>>
  BY DEF Start, TypeOK, files, run
<1>3. RunTyped'
  BY <1>1, <1>2, Zenon DEF TypeOK, RunTyped
<1>4. sunk' \in BOOLEAN
  BY Zenon DEF Start
<1>5. RecordTyped'
  BY <1>4, Zenon DEF TypeOK, RecordTyped, Start
<1>6. PlansTyped' /\ WorldTyped'
  BY <1>2, PlansKept, WorldKept DEF Start
<1> QED
  BY <1>1, <1>3, <1>5, <1>6, TypeParts

LEMMA StageTyped ==
  ASSUME TypeOK, OwnStep, Stage
  PROVE  TypeOK' /\ OwnStep'
<1>1. pc' = "review" /\ target' = target /\ target \in {"apply", "repair-node-02-apply"}
  BY DEF Stage, Moves, OwnStep
<1>2. PlanPath \in PlanFiles
  BY DEF PlanPath, PlanFiles
<1>3. IsPlan(staged')
  BY <1>2, Zenon DEF Stage, TypeOK
<1>4. UNCHANGED <<next, todo, broken, config, saved>>
  BY DEF Stage, Moves, run
<1>5. pc' \in Steps /\ pc' \notin Ended
  BY <1>1 DEF Steps, Ended
<1>6. RunTyped'
  BY <1>1, <1>3, <1>4, <1>5, Zenon DEF TypeOK, RunTyped, IsPlan
<1>7. PlansTyped' /\ WorldTyped' /\ RecordTyped'
  BY <1>4, PlansKept, WorldKept, RecordKept DEF Stage
<1> QED
  BY <1>1, <1>6, <1>7, TypeParts DEF OwnStep

\* What remains to be done when only the rest of a run's own variables moves.
LEMMA BeginsTyped ==
  ASSUME TypeOK, NEW from \in Steps, Moves(from, "applying"), NEW plan, IsPlan(plan),
         todo' = plan.changes, Calm, UNCHANGED <<files, next, broken, world, backup, writer>>
  PROVE  TypeOK'
<1>1. "applying" \in Steps
  BY DEF Steps
<1>2. DOMAIN todo' \subseteq Resources /\ \A r \in DOMAIN todo' : todo'[r] \in Actions
  BY DEF IsPlan
<1>3. next' \in 1..(Len(Healthy) + 1) /\ broken' \in Outcomes \cup {"no"}
  BY Zenon DEF TypeOK
<1>4. RunTyped'
  BY <1>1, <1>2, <1>3, MovesTyped, Zenon DEF RunTyped, files
<1>5. PlansTyped' /\ WorldTyped' /\ RecordTyped'
  BY PlansKept, WorldKept, RecordKept DEF files
<1> QED
  BY <1>4, <1>5, TypeParts

LEMMA ShapeTyped ==
  ASSUME TypeOK
  PROVE  Shape \in Shapes
BY DEF Shape, TypeOK, IsPlan

LEMMA WithoutTyped ==
  ASSUME TypeOK, NEW r
  PROVE  /\ DOMAIN Without(r) = DOMAIN todo \ {r}
         /\ \A s \in DOMAIN todo \ {r} : Without(r)[s] = todo[s]
         /\ \A s \in DOMAIN Without(r) : Without(r)[s] \in Actions
BY DEF Without, TypeOK

LEMMA OperationTyped ==
  ASSUME TypeOK, NEW r \in Resources, Operation(r)
  PROVE  TypeOK'
<1>1. r \in DOMAIN todo /\ todo[r] \in Actions
  BY DEF Operation, Ready, TypeOK
<1>2. /\ cloud' \in [Resources -> Shapes \cup {"none"}]
      /\ state' \in [Resources -> {"none", "ok", "tainted"}]
  BY <1>1, ShapeTyped DEF Operation, TypeOK, Actions
<1>3. orphans' \subseteq Resources /\ output' \subseteq Nodes
  BY <1>1 DEF Operation, TypeOK, Actions
<1>4. todo' = Without(r) \/ todo' = [todo EXCEPT ![r] = "create"]
  BY <1>1 DEF Operation, Actions
<1>5. DOMAIN todo' \subseteq Resources /\ \A s \in DOMAIN todo' : todo'[s] \in Actions
  <2>1. CASE todo' = Without(r)
    BY <2>1, WithoutTyped DEF TypeOK
  <2>2. CASE todo' = [todo EXCEPT ![r] = "create"]
    BY <2>2 DEF TypeOK, Actions
  <2> QED
    BY <1>4, <2>1, <2>2
<1>6. "applying" \in Steps /\ next' \in 1..(Len(Healthy) + 1) /\ broken' \in Outcomes \cup {"no"}
  BY DEF Operation, TypeOK, Steps
<1>7. RunTyped'
  BY <1>5, <1>6, MovesTyped, Zenon DEF RunTyped, Operation
<1>8. WorldTyped'
  BY <1>2, <1>3 DEF WorldTyped
<1>9. sunk' \in BOOLEAN /\ faults' \in 0..MaxFaults
  BY CountsTyped, Zenon DEF Operation
<1>10. PlansTyped' /\ backup' = "behind" /\ writer' \in Targets
  BY WrittenTyped DEF Operation
<1>11. RecordTyped'
  BY <1>9, <1>10 DEF RecordTyped
<1> QED
  BY <1>7, <1>8, <1>10, <1>11, TypeParts

LEMMA OperationFailsTyped ==
  ASSUME TypeOK, NEW r \in Resources, NEW how \in Outcomes, OperationFails(r, how)
  PROVE  TypeOK'
<1>1. r \in DOMAIN todo /\ todo[r] \in Actions
  BY DEF OperationFails, Ready, TypeOK
<1>2. cloud' \in [Resources -> Shapes \cup {"none"}]
  BY ShapeTyped DEF OperationFails, TypeOK, Outcomes, world
<1>3. state' \in [Resources -> {"none", "ok", "tainted"}]
  BY DEF OperationFails, TypeOK, Outcomes, world
<1>4. orphans' \subseteq Resources /\ output' \subseteq Nodes
  BY DEF OperationFails, TypeOK, Outcomes, world
<1>5. DOMAIN todo' \subseteq Resources /\ \A s \in DOMAIN todo' : todo'[s] \in Actions
  BY WithoutTyped DEF OperationFails, TypeOK
<1>6. "applying" \in Steps /\ next' \in 1..(Len(Healthy) + 1) /\ broken' \in Outcomes \cup {"no"}
  BY DEF OperationFails, TypeOK, Steps
<1>7. RunTyped'
  BY <1>5, <1>6, MovesTyped, Zenon DEF RunTyped, OperationFails
<1>8. WorldTyped'
  BY <1>2, <1>3, <1>4 DEF WorldTyped
<1>9. sunk' \in BOOLEAN /\ faults' \in 0..MaxFaults
  <2>1. Calm \/ Faulty("provider")
    BY Zenon DEF OperationFails
  <2> QED
    BY <2>1, CountsTyped, Zenon DEF FaultKinds
<1>10. CASE UNCHANGED <<saved, backup, writer>>
  <2>1. PlansTyped'
    BY <1>10, PlansKept
  <2>2. RecordTyped'
    BY <1>9, <1>10, Zenon DEF RecordTyped, TypeOK
  <2> QED
    BY <1>7, <1>8, <2>1, <2>2, TypeParts
<1>11. CASE StateWritten
  <2>1. PlansTyped' /\ backup' = "behind" /\ writer' \in Targets
    BY <1>11, WrittenTyped
  <2>2. RecordTyped'
    BY <1>9, <2>1 DEF RecordTyped
  <2> QED
    BY <1>7, <1>8, <2>1, <2>2, TypeParts
<1> QED
  BY <1>10, <1>11, Zenon DEF OperationFails

LEMMA UntaintTyped ==
  ASSUME TypeOK, Untaint
  PROVE  TypeOK' /\ This \in Instances
<1>1. Len(Healthy) \in Nat /\ next \in 1..Len(Healthy) /\ Healthy[next] \in Nodes
  <2>1. next \in 1..(Len(Healthy) + 1) /\ next <= Len(Healthy)
    BY Zenon DEF Untaint, TypeOK
  <2> QED
    BY <2>1, HealthyNodes
<1>2. This \in Instances
  BY <1>1 DEF This, Instances
<1>3. state' \in [Resources -> {"none", "ok", "tainted"}]
  BY <1>2 DEF Untaint, TypeOK, Resources
<1>4. next' \in 1..(Len(Healthy) + 1) /\ "untaint" \in Steps
  BY <1>1 DEF Untaint, Steps
<1>5. RunTyped'
  BY <1>4, MovesTyped, Zenon DEF TypeOK, RunTyped, Untaint
<1>6. WorldTyped'
  BY <1>3, Zenon DEF TypeOK, WorldTyped, Untaint
<1>7. sunk' \in BOOLEAN /\ faults' \in 0..MaxFaults
  BY CountsTyped, Zenon DEF Untaint
<1>8. PlansTyped' /\ backup' = "behind" /\ writer' \in Targets
  BY WrittenTyped DEF Untaint
<1>9. RecordTyped'
  BY <1>7, <1>8 DEF RecordTyped
<1> QED
  BY <1>2, <1>5, <1>6, <1>8, <1>9, TypeParts

------------------------------------------------------------------------------
\* The kinds of steps

(***************************************************************************)
(* A run ends without having changed anything in this step; it passes      *)
(* after a plan it only saved, or after the counts and the rate.  A repair *)
(* that has written the state ends with a backup.                          *)
(***************************************************************************)
Finishes ==
  \E step \in Steps, outcome \in {"pass", "fail"} :
    /\ Ends(step, outcome)
    /\ outcome = "pass" =>
         \/ step = "review" /\ target \in {"plan", "lifecycle-check"}
         \/ step = "reconcile" /\ CountsAndRate
    /\ step \in {"backup", "rescue"} => backup = "no state"
    /\ step = "applying" => target # "repair-node-02-apply"

(***************************************************************************)
(* A run goes on without having changed anything in this step.  When       *)
(* Terraform is done (TerraformDone) only its output may have changed.     *)
(***************************************************************************)
GoesOn ==
  \/ /\ Asserted(Reviewed)
     /\ \/ Checked("review", "apply") /\ target = "apply"
        \/ Checked("review", "before") /\ target = "repair-node-02-apply"
        \/ Checked("review", "backup") /\ target = "repair-node-02-plan"
  \/ (Checked("apply", "rescue") \/ Checked("applying", "rescue")) /\ target = "repair-node-02-apply"
  \/ Checked("addresses", "untaint")
  \/ Checked("untaint", "plan") /\ next > Len(Healthy)
  \/ Checked("reject", "rollback")

Works ==
  \E r \in Resources : Operation(r) \/ \E how \in Outcomes : OperationFails(r, how)

LEMMA ReviewKinds ==
  ASSUME TypeOK, OwnStep, Review
  PROVE  Finishes \/ GoesOn
<1>1. pc = "review" /\ target \in Targets \ {"cost-report", "state-audit", "destroy"}
  BY DEF Review, OwnStep, TypeOK
<1>2. CASE target \in {"plan", "lifecycle-check"}
  <2>1. AfterReview = "pass"
    BY <1>2 DEF AfterReview
  <2>2. Ends("review", "pass")
    BY <2>1, Zenon DEF Review
  <2> QED
    BY <1>2, <2>2 DEF Finishes, Steps
<1>3. CASE target = "apply"
  <2>1. AfterReview = "apply"
    BY <1>3 DEF AfterReview
  <2> QED
    BY <1>3, <2>1 DEF Review, GoesOn
<1>4. CASE target = "repair-node-02-plan"
  <2>1. AfterReview = "backup"
    BY <1>4 DEF AfterReview
  <2> QED
    BY <1>4, <2>1 DEF Review, GoesOn
<1>5. CASE target = "repair-node-02-apply"
  <2>1. AfterReview = "before"
    BY <1>5 DEF AfterReview
  <2> QED
    BY <1>5, <2>1 DEF Review, GoesOn
<1> QED
  BY <1>1, <1>2, <1>3, <1>4, <1>5 DEF Targets

LEMMA ScriptKinds ==
  ASSUME TypeOK, OwnStep, Script
  PROVE  \/ Finishes \/ GoesOn \/ Works \/ TerraformDone
         \/ Plan \/ RollbackPlan \/ Stage \/ Apply \/ Destroy
         \/ Untaint \/ BackupBefore \/ BackupState \/ BackupRescue
<1>1. ASSUME NEW step \in Steps, Refuse(step),
             step \in {"backup", "rescue"} => backup = "no state",
             step = "applying" => target # "repair-node-02-apply"
      PROVE  Finishes
  BY <1>1 DEF Refuse, Finishes
<1>2. CASE PlanRefused \/ NoPlan \/ RefusePlan \/ AddressesDiffer \/ NotTainted
           \/ FullDestroyAccepted \/ CostReportFails \/ NoState
  BY <1>1, <1>2 DEF PlanRefused, NoPlan, RefusePlan, AddressesDiffer, NotTainted,
     FullDestroyAccepted, CostReportFails, NoState, Steps
<1>3. CASE CostReport
  BY <1>3 DEF CostReport, Finishes, Steps
<1>4. CASE Review
  BY <1>4, ReviewKinds
<1>5. CASE StalePlan
  <2>1. CASE target = "repair-node-02-apply"
    BY <1>5, <2>1 DEF StalePlan, AfterFailure, GoesOn
  <2>2. CASE target # "repair-node-02-apply"
    BY <1>1, <1>5, <2>2 DEF StalePlan, AfterFailure, Steps
  <2> QED
    BY <2>1, <2>2
<1>6. CASE Addresses \/ Untainted \/ FullDestroyRejected
  BY <1>6 DEF Addresses, Untainted, FullDestroyRejected, GoesOn
<1>7. CASE Terraform
  <2>2. CASE TerraformFails
    <3>1. CASE target = "repair-node-02-apply"
      BY <2>2, <3>1 DEF TerraformFails, GoesOn
    <3>2. CASE target # "repair-node-02-apply"
      BY <1>1, <2>2, <3>2 DEF TerraformFails, Steps
    <3> QED
      BY <3>1, <3>2
  <2> QED
    BY <1>7, <2>2 DEF Terraform, Works
<1> QED
  BY <1>2, <1>3, <1>4, <1>5, <1>6, <1>7 DEF Script

LEMMA DoneKeeps ==
  ASSUME TypeOK, OwnStep, TerraformDone
  PROVE  /\ pc = "applying" /\ pc' = "backup" /\ Calm
         /\ UNCHANGED <<target, config, staged, next, todo, broken, cloud, state, orphans>>
         /\ StateWritten \/ UNCHANGED <<saved, backup, writer>>
         /\ output' \subseteq Nodes /\ target \in Writers
<1>1. output' \in {output, {}, Nodes}
  BY DEF TerraformDone, OutputsAfter
<1>2. output' \subseteq Nodes
  BY <1>1 DEF TypeOK
<1>3. target \in Writers
  BY DEF TerraformDone, Moves, OwnStep, Writers
<1> QED
  BY <1>2, <1>3 DEF TerraformDone, Moves, run

LEMMA DoneTyped ==
  ASSUME TypeOK, OwnStep, TerraformDone
  PROVE  TypeOK' /\ OwnStep'
<1>1. pc' = "backup" /\ target' \in Writers
  BY DoneKeeps
<1>2. RunTyped'
  BY <1>1, DoneKeeps, Zenon DEF TypeOK, RunTyped, IsPlan, Steps, Ended
<1>3. WorldTyped'
  BY DoneKeeps, Zenon DEF TypeOK, WorldTyped
<1>4. PlansTyped' /\ RecordTyped'
  <2>1. CASE StateWritten
    <3>1. PlansTyped' /\ backup' = "behind" /\ writer' \in Targets
      BY <2>1, WrittenTyped
    <3>2. sunk' \in BOOLEAN /\ faults' \in 0..MaxFaults
      BY DoneKeeps, CountsTyped, Zenon
    <3> QED
      BY <3>1, <3>2 DEF RecordTyped
  <2>2. CASE UNCHANGED <<saved, backup, writer>>
    BY <2>2, DoneKeeps, PlansKept, RecordKept
  <2> QED
    BY <2>1, <2>2, DoneKeeps
<1>5. OwnStep'
  BY <1>1 DEF OwnStep
<1> QED
  BY <1>2, <1>3, <1>4, <1>5, TypeParts

LEMMA GoesOnTyped ==
  ASSUME TypeOK, OwnStep, GoesOn
  PROVE  TypeOK' /\ OwnStep'
<1>1. PICK from \in Steps, to \in Steps : Checked(from, to)
  BY DEF GoesOn, Steps
<1>2. TypeOK'
  BY <1>1, CheckedTyped
<1>3. OwnStep'
  BY DEF GoesOn, Checked, Moves, OwnStep, Writers
<1> QED
  BY <1>2, <1>3

LEMMA BackupsTyped ==
  ASSUME TypeOK, OwnStep, BackupBefore \/ BackupState \/ BackupRescue
  PROVE  TypeOK' /\ OwnStep'
<1>1. RunTyped' /\ OwnStep'
  <2>1. CASE BackupBefore
    <3>1. PICK to \in {"addresses", "apply"} :
             Moves("before", to) /\ to = IF target = "repair-node-02-plan" THEN "addresses" ELSE "apply"
      BY <2>1 DEF BackupBefore
    <3>2. UNCHANGED <<staged, next, todo, broken>> /\ "before" \in Steps /\ to \in Steps
      BY <2>1 DEF BackupBefore, files, run, Steps
    <3>3. RunTyped'
      BY <3>1, <3>2, MovesTyped, Zenon DEF TypeOK, RunTyped
    <3>4. OwnStep'
      BY <3>1 DEF OwnStep, Moves
    <3> QED
      BY <3>3, <3>4
  <2>2. CASE BackupState \/ BackupRescue
    BY <2>2, EndTyped DEF BackupState, BackupRescue, Ended
  <2> QED
    BY <2>1, <2>2
<1>2. UNCHANGED <<saved, world, writer>> /\ Calm
  BY DEF BackupBefore, BackupState, BackupRescue, files
<1>3. backup' \in {"no state", "behind", "current"}
  BY DEF BackupBefore, BackupState, BackupRescue, TypeOK
<1>4. RecordTyped'
  BY <1>2, <1>3, CountsTyped, Zenon DEF TypeOK, RecordTyped
<1> QED
  BY <1>1, <1>2, <1>4, PlansKept, WorldKept, TypeParts

LEMMA FailsTyped ==
  ASSUME TypeOK, OwnStep, Fails
  PROVE  TypeOK' /\ OwnStep'
<1>1. UNCHANGED <<saved, world, backup>> /\ writer' \in Targets \cup {"none", "stopped"}
  BY DEF Fails, Cut, TypeOK, files
<1>2. RunTyped' /\ OwnStep'
  <2>1. CASE /\ pc \in {"before", "apply"} /\ target = "repair-node-02-apply"
             /\ Moves(pc, "rescue") /\ UNCHANGED <<files, run, writer>>
    <3>1. UNCHANGED <<staged, next, todo, broken>> /\ pc \in Steps /\ "rescue" \in Steps
      BY <2>1 DEF files, run, Steps
    <3>2. RunTyped'
      BY <2>1, <3>1, MovesTyped, Zenon DEF TypeOK, RunTyped
    <3>3. OwnStep'
      BY <2>1 DEF OwnStep, Moves
    <3> QED
      BY <3>2, <3>3
  <2>2. CASE End(pc, "stopped") \/ End(pc, "fail")
    BY <2>2, EndTyped DEF Ended
  <2> QED
    BY <2>1, <2>2 DEF Fails
<1>3. RecordTyped'
  BY <1>1, CountsTyped, Zenon DEF TypeOK, RecordTyped, Fails, FaultKinds
<1> QED
  BY <1>1, <1>2, <1>3, PlansKept, WorldKept, TypeParts

LEMMA KilledTyped ==
  ASSUME TypeOK, Killed
  PROVE  TypeOK' /\ OwnStep'
<1>1. UNCHANGED <<saved, world, backup>> /\ writer' \in Targets \cup {"none", "stopped"}
  BY DEF Killed, Cut, TypeOK
<1>2. RunTyped' /\ OwnStep'
  BY EndTyped DEF Killed, Ended
<1>3. Calm \/ Faulty("crash")
  BY Zenon DEF Killed
<1>4. RecordTyped'
  BY <1>1, <1>3, CountsTyped, Zenon DEF TypeOK, RecordTyped, FaultKinds
<1> QED
  BY <1>1, <1>2, <1>4, PlansKept, WorldKept, TypeParts

LEMMA MixupTyped ==
  ASSUME TypeOK, OwnStep, NEW f \in PlanFiles, NEW g \in PlanFiles, Mixup(f, g)
  PROVE  /\ TypeOK' /\ OwnStep'
         /\ \A h \in PlanFiles : saved'[h] = IF h = f THEN saved[g] ELSE saved[h]
<1>1. /\ DOMAIN saved' = PlanFiles
      /\ \A h \in PlanFiles : saved'[h] = IF h = f THEN saved[g] ELSE saved[h]
  BY DEF Mixup, TypeOK
<1>2. \A h \in PlanFiles : saved'[h] = None \/ IsPlan(saved'[h])
  BY <1>1, Zenon DEF TypeOK
<1>3. PlansTyped'
  BY <1>1, <1>2, Zenon DEF PlansTyped, IsPlan
<1>4. UNCHANGED <<pc, target, staged, next, todo, broken, config>>
  BY DEF Mixup, run
<1>5. RunTyped'
  BY <1>4, Zenon DEF TypeOK, RunTyped, IsPlan
<1>6. RecordTyped'
  BY CountsTyped, Zenon DEF TypeOK, RecordTyped, Mixup, FaultKinds
<1>7. WorldTyped'
  BY WorldKept DEF Mixup
<1>8. OwnStep'
  BY <1>4, Zenon DEF OwnStep
<1> QED
  BY <1>1, <1>3, <1>5, <1>6, <1>7, <1>8, TypeParts

LEMMA EditTyped ==
  ASSUME TypeOK, OwnStep, NEW shape \in Shapes, Edit(shape)
  PROVE  TypeOK' /\ OwnStep'
<1>1. UNCHANGED <<pc, target, saved, staged, next, todo, broken, world, backup, writer>>
  BY DEF Edit, run, files
<1>2. RunTyped'
  BY <1>1, Zenon DEF TypeOK, RunTyped, IsPlan, Edit
<1>3. Calm \/ Faulty("edit")
  BY Zenon DEF Edit
<1>4. RecordTyped'
  BY <1>1, <1>3, CountsTyped, Zenon DEF TypeOK, RecordTyped, FaultKinds
<1>5. OwnStep'
  BY <1>1, Zenon DEF OwnStep
<1> QED
  BY <1>1, <1>2, <1>4, <1>5, PlansKept, WorldKept, TypeParts

LEMMA WorksTyped ==
  ASSUME TypeOK, OwnStep, Works
  PROVE  TypeOK' /\ OwnStep'
<1>1. TypeOK'
  BY OperationTyped, OperationFailsTyped DEF Works
<1>2. UNCHANGED <<pc, target>>
  BY DEF Works, Operation, OperationFails, Moves
<1> QED
  BY <1>1, <1>2, Zenon DEF OwnStep

LEMMA SavesTyped ==
  ASSUME TypeOK, OwnStep, Plan \/ RollbackPlan
  PROVE  TypeOK' /\ OwnStep'
<1>1. \E from \in {"plan", "rollback"} : \E plan : Save(from, plan) /\ IsPlan(plan)
  <2>1. config \in Shapes /\ Instances \in SUBSET Resources
    BY DEF TypeOK, Resources
  <2> QED
    BY <2>1, PlannedTyped, DestroyingTyped DEF Plan, RollbackPlan
<1>2. TypeOK'
  BY <1>1, SaveTyped DEF Steps
<1>3. OwnStep'
  BY <1>1 DEF Save, Moves, OwnStep
<1> QED
  BY <1>2, <1>3

LEMMA TypeStep ==
  ASSUME TypeOK, OwnStep, Staged, [Next]_vars
  PROVE  TypeOK' /\ OwnStep'
<1>1. CASE \E t \in Targets : Start(t)
  BY <1>1, StartTyped
<1>2. CASE Finishes
  BY <1>2, EndsTyped DEF Finishes, Ended
<1>3. CASE GoesOn \/ TerraformDone
  BY <1>3, GoesOnTyped, DoneTyped
<1>4. CASE Works
  BY <1>4, WorksTyped
<1>5. CASE Plan \/ RollbackPlan
  BY <1>5, SavesTyped
<1>6. CASE Stage
  BY <1>6, StageTyped
<1>7. CASE Apply
  <2>1. target \in {"apply", "repair-node-02-apply"} /\ pc' = "applying" /\ target' = target
    BY <1>7 DEF Apply, OwnStep, Moves
  <2>2. staged # None /\ IsPlan(staged)
    BY <1>7, <2>1, Zenon DEF Apply, Moves, Staged, TypeOK
  <2>3. TypeOK'
    BY <1>7, <2>2, BeginsTyped DEF Apply, Applied, Steps
  <2> QED
    BY <2>1, <2>3 DEF OwnStep
<1>8. CASE Destroy
  <2>1. pc' = "applying" /\ target' = "destroy"
    BY <1>8 DEF Destroy, OwnStep, Moves
  <2>2. IsPlan(Destroying(Instances))
    BY DestroyingTyped DEF Resources
  <2>3. TypeOK'
    BY <1>8, <2>2, BeginsTyped DEF Destroy, Steps
  <2> QED
    BY <2>1, <2>3 DEF OwnStep
<1>9. CASE Untaint
  <2>1. UNCHANGED <<pc, target>>
    BY <1>9 DEF Untaint, Moves
  <2> QED
    BY <1>9, <2>1, UntaintTyped, Zenon DEF OwnStep
<1>10. CASE BackupBefore \/ BackupState \/ BackupRescue
  BY <1>10, BackupsTyped
<1>11. CASE Trouble
  BY <1>11, FailsTyped, KilledTyped, MixupTyped, EditTyped DEF Trouble
<1>12. CASE UNCHANGED vars
  <2>1. UNCHANGED <<pc, target, saved, staged, next, todo, broken, config, world, backup, writer, sunk, faults>>
    BY <1>12 DEF vars, files, run
  <2>2. RunTyped'
    BY <2>1, Zenon DEF TypeOK, RunTyped, IsPlan
  <2>3. OwnStep'
    BY <2>1, Zenon DEF OwnStep
  <2> QED
    BY <2>1, <2>2, <2>3, PlansKept, WorldKept, RecordKept, TypeParts DEF Calm
<1> QED
  BY <1>1, <1>2, <1>3, <1>4, <1>5, <1>6, <1>7, <1>8, <1>9, <1>10, <1>11, <1>12, ScriptKinds DEF Next

LEMMA InitStaged == Init => Staged /\ Fresh
BY DEF Init, Staged, Fresh, Ended

LEMMA StagedStep ==
  ASSUME TypeOK, OwnStep, Staged, Fresh, [Next]_vars
  PROVE  Staged' /\ Fresh'
<1>1. CASE \E t \in Targets : Start(t)
  <2>1. UNCHANGED <<staged, next, broken>> /\ pc \in Ended
    BY <1>1 DEF Start, files, run
  <2>2. pc' \notin Ended /\ staged = None
    BY <1>1, <2>1 DEF Start, FirstStep, Targets, Ended, TypeOK
  <2>3. next = 1
    BY <2>1 DEF Fresh, Ended
  <2>4. pc' \notin {"review", "before", "apply", "applying"} \/ target' \notin {"apply", "repair-node-02-apply"}
    BY <1>1 DEF Start, FirstStep, Targets
  <2> QED
    BY <2>1, <2>2, <2>3, <2>4 DEF Staged, Fresh
<1>2. ASSUME NEW step, NEW outcome \in Ended, End(step, outcome) PROVE Staged' /\ Fresh'
  BY <1>2 DEF End, Moves, Staged, Fresh, Ended
<1>3. CASE Finishes \/ BackupState \/ BackupRescue \/ Killed
  BY <1>2, <1>3 DEF Finishes, Ends, BackupState, BackupRescue, Killed, Ended
<1>4. CASE GoesOn
  <2>1. UNCHANGED <<staged, target, next, broken>> /\ pc' \notin Ended
    BY <1>4 DEF GoesOn, Checked, Moves, files, run, Ended
  <2>2. Fresh'
    <3> SUFFICES ASSUME next' # 1
                 PROVE  target' = "repair-node-02-plan" /\ pc' \in {"untaint", "plan", "review", "backup"}
      BY <2>1 DEF Fresh
    <3>1. next # 1 /\ target = "repair-node-02-plan" /\ pc \in {"untaint", "plan", "review", "backup"}
      BY <2>1 DEF Fresh
    <3> QED
      BY <1>4, <2>1, <3>1 DEF GoesOn, Checked, Moves
  <2>3. CASE target \in {"apply", "repair-node-02-apply"} /\ pc = "review"
    <3>1. staged # None /\ Asserted(staged)
      BY <1>4, <2>3 DEF GoesOn, Checked, Moves, Staged, Reviewed
    <3>2. Asserted(staged)'
      BY <2>1, <3>1 DEF Asserted, AssertNoDrift, AssertInitial, AssertComputeRollback, AssertReplacement
    <3> QED
      BY <2>1, <2>2, <2>3, <3>1, <3>2 DEF Staged
  <2>4. CASE target \notin {"apply", "repair-node-02-apply"} \/ pc # "review"
    <3>1. pc' \notin {"review", "before", "apply", "applying"} \/ target \notin {"apply", "repair-node-02-apply"}
      BY <1>4, <2>4 DEF GoesOn, Checked, Moves
    <3> QED
      BY <2>1, <2>2, <3>1 DEF Staged
  <2> QED
    BY <2>3, <2>4
<1>5. CASE Works
  <2>1. UNCHANGED <<pc, target, staged, next>> /\ pc = "applying"
    BY <1>5 DEF Works, Operation, OperationFails, Moves
  <2>2. Asserted(staged)' <=> Asserted(staged)
    BY <2>1 DEF Asserted, AssertNoDrift, AssertInitial, AssertComputeRollback, AssertReplacement
  <2> QED
    BY <2>1, <2>2 DEF Staged, Fresh, Ended
<1>6. CASE Plan \/ RollbackPlan
  BY <1>6 DEF Plan, RollbackPlan, Save, Moves, OwnStep, Staged, Fresh, Ended, run
<1>7. CASE Stage
  BY <1>7 DEF Stage, Moves, OwnStep, Staged, Fresh, Ended, run
<1>8. CASE Apply \/ Destroy
  <2>1. UNCHANGED <<target, staged, next, broken>> /\ pc' = "applying" /\ pc \in {"apply", "destroy"}
    BY <1>8 DEF Apply, Destroy, Moves, files
  <2>2. Asserted(staged)' <=> Asserted(staged)
    BY <2>1 DEF Asserted, AssertNoDrift, AssertInitial, AssertComputeRollback, AssertReplacement
  <2>3. target \in {"apply", "repair-node-02-apply"} => pc = "apply"
    BY <2>1 DEF OwnStep
  <2> QED
    BY <2>1, <2>2, <2>3 DEF Staged, Fresh, Ended
<1>9. CASE Untaint
  <2>1. UNCHANGED <<pc, target, staged, broken>> /\ pc = "untaint" /\ target = "repair-node-02-plan"
    BY <1>9 DEF Untaint, Moves, OwnStep
  <2> QED
    BY <2>1 DEF Staged, Fresh, Ended
<1>10. CASE BackupBefore
  <2>1. UNCHANGED <<target, staged, next, broken>> /\ pc = "before" /\ pc' \in {"addresses", "apply"}
    BY <1>10 DEF BackupBefore, Moves, files, run
  <2>2. Asserted(staged)' <=> Asserted(staged)
    BY <2>1 DEF Asserted, AssertNoDrift, AssertInitial, AssertComputeRollback, AssertReplacement
  <2> QED
    BY <2>1, <2>2 DEF Staged, Fresh, Ended
<1>11. CASE Fails
  <2>1. CASE Moves(pc, "rescue") /\ pc \in {"before", "apply"} /\ UNCHANGED <<files, run, writer>> /\ target = "repair-node-02-apply"
    <3>1. UNCHANGED <<target, staged, next, broken>> /\ pc' = "rescue"
      BY <2>1 DEF Moves, files, run
    <3> QED
      BY <2>1, <3>1 DEF Staged, Fresh, Ended
  <2> QED
    BY <1>2, <1>11, <2>1 DEF Fails, Ended
<1>12. ASSUME UNCHANGED <<pc, target, staged, next, broken>> PROVE Staged' /\ Fresh'
  <2>1. Asserted(staged)' <=> Asserted(staged)
    BY <1>12 DEF Asserted, AssertNoDrift, AssertInitial, AssertComputeRollback, AssertReplacement
  <2> QED
    BY <1>12, <2>1 DEF Staged, Fresh
<1>13. CASE (\E f, g \in PlanFiles : Mixup(f, g)) \/ (\E shape \in Shapes : Edit(shape))
  BY <1>12, <1>13 DEF Mixup, Edit, run, files
<1>14. CASE UNCHANGED vars
  BY <1>12, <1>14 DEF vars, files, run
<1>15. CASE TerraformDone
  BY <1>15, DoneKeeps DEF Staged, Fresh, Ended
<1> QED
  BY <1>1, <1>3, <1>4, <1>5, <1>6, <1>7, <1>8, <1>9, <1>10, <1>11, <1>13, <1>14, <1>15, ScriptKinds
     DEF Next, Trouble

Core == TypeOK /\ OwnStep /\ Staged /\ Fresh

LEMMA CoreInvariant == Spec => []Core
<1>1. Init => Core
  BY InitTyped, InitStaged DEF Core
<1>2. Core /\ [Next]_vars => Core'
  BY TypeStep, StagedStep DEF Core
<1> QED
  BY <1>1, <1>2, PTL DEF Spec

(***************************************************************************)
(* Every variable of the plans and the stack keeps its type.               *)
(***************************************************************************)
THEOREM TypeCorrect == Spec => []TypeOK
BY CoreInvariant, PTL DEF Core

------------------------------------------------------------------------------
\* The backups

LEMMA InitBackedUp == Init => RepairBackedUp
BY DEF Init, RepairBackedUp

LEMMA BackupStep ==
  ASSUME Core, RepairBackedUp, [Next]_vars
  PROVE  RepairBackedUp'
<1> USE DEF Core
<1>1. CASE \E t \in Targets : Start(t)
  <2>1. UNCHANGED <<backup, writer>> /\ pc \in Ended /\ pc' \notin {"pass", "apply"}
    BY <1>1 DEF Start, FirstStep, Targets
  <2> QED
    BY <2>1 DEF RepairBackedUp, Ended
<1>2. CASE Finishes
  BY <1>2 DEF Finishes, Ends, End, Moves, Writers, OwnStep, RepairBackedUp
<1>3. CASE GoesOn
  BY <1>3 DEF GoesOn, Checked, Moves, RepairBackedUp
<1>12. CASE TerraformDone
  BY <1>12, DoneKeeps DEF StateWritten, RepairBackedUp
<1>4. CASE Works
  <2>1. pc' = "applying" /\ target' = target
    BY <1>4 DEF Works, Operation, OperationFails, Moves
  <2>2. StateWritten \/ UNCHANGED <<backup, writer>>
    BY <1>4 DEF Works, Operation, OperationFails
  <2> QED
    BY <1>4, <2>1, <2>2 DEF Works, Operation, OperationFails, Moves, StateWritten, RepairBackedUp
<1>5. CASE Plan \/ RollbackPlan \/ Stage \/ Apply \/ Destroy
  BY <1>5 DEF Plan, RollbackPlan, Save, Stage, Apply, Destroy, Moves, RepairBackedUp
<1>6. CASE Untaint
  BY <1>6 DEF Untaint, Moves, StateWritten, OwnStep, RepairBackedUp
<1>7. CASE BackupBefore \/ BackupState \/ BackupRescue
  BY <1>7 DEF BackupBefore, BackupState, BackupRescue, End, Moves, RepairBackedUp
<1>8. CASE Fails
  <2>1. pc' \notin {"pass", "apply"} /\ target' = target /\ backup' = backup
    BY <1>8 DEF Fails, End, Moves
  <2>2. CASE Moves(pc, "rescue") /\ target = "repair-node-02-apply" /\ UNCHANGED writer
    BY <2>1, <2>2 DEF Moves, RepairBackedUp
  <2>3. CASE Cut
    BY <2>1, <2>3 DEF Cut, RepairBackedUp
  <2>4. CASE UNCHANGED writer /\ pc \notin {"backup", "rescue", "applying"}
    BY <2>1, <2>4 DEF RepairBackedUp
  <2> QED
    BY <1>8, <2>2, <2>3, <2>4 DEF Fails
<1>9. CASE Killed
  BY <1>9 DEF Killed, Cut, End, Moves, RepairBackedUp
<1>10. ASSUME UNCHANGED <<pc, target, backup, writer>> PROVE RepairBackedUp'
  BY <1>10 DEF RepairBackedUp
<1>11. CASE (\E f, g \in PlanFiles : Mixup(f, g)) \/ (\E shape \in Shapes : Edit(shape)) \/ UNCHANGED vars
  BY <1>10, <1>11 DEF Mixup, Edit, vars
<1> QED
  BY <1>1, <1>2, <1>3, <1>4, <1>5, <1>6, <1>7, <1>8, <1>9, <1>11, <1>12,
     ScriptKinds DEF Next, Trouble

(***************************************************************************)
(* A target that writes the state ends with a backup of it when it passes; *)
(* the repair also begins with one and ends with one when it fails, unless *)
(* it was cut off.                                                         *)
(***************************************************************************)
THEOREM BackupsFollow == Spec => []BackupFollows
<1>1. RepairBackedUp => BackupFollows
  BY DEF RepairBackedUp, BackupFollows, Ended
<1>2. Core /\ RepairBackedUp /\ [Next]_vars => RepairBackedUp'
  BY BackupStep
<1> QED
  BY <1>1, <1>2, InitBackedUp, CoreInvariant, PTL DEF Spec

------------------------------------------------------------------------------
\* The stack and the plans

LEMMA Addressed ==
  /\ Key \in Resources \ Instances /\ Volumes \subseteq Resources \ Instances
  /\ Instances \subseteq Resources /\ Broken \in Instances
  /\ \A r \in Instances : Needs(r) \subseteq Resources \ Instances /\ Key \in Needs(r)
  /\ \A n \in Nodes : Volume(n) \in Needs(Instance(n))
<1>1. \A n, m : Instance(n) # Volume(m) /\ Instance(n) # Key
  BY DEF Instance, Volume, Key
<1>2. Key \in Resources \ Instances /\ Volumes \subseteq Resources \ Instances
  BY <1>1 DEF Resources, Instances, Volumes
<1>3. Instances \subseteq Resources /\ Broken \in Instances
  BY ReviewedPlanAssumption DEF Resources, Instances, Broken
<1>4. \A n \in Nodes : Needs(Instance(n)) = {Key, Volume(n)}
  <2> TAKE n \in Nodes
  <2>1. Instance(n) \in Instances /\ Instance(n)[2] = n
    BY DEF Instances, Instance
  <2> QED
    BY <2>1, Zenon DEF Needs
<1>5. \A n \in Nodes : Volume(n) \in Volumes
  BY DEF Volumes
<1>6. \A r \in Instances : Needs(r) \subseteq Resources \ Instances /\ Key \in Needs(r)
  BY <1>2, <1>4, <1>5 DEF Instances
<1> QED
  BY <1>2, <1>3, <1>4, <1>6

Sound == Stack /\ ValidPlans /\ Judged

LEMMA InitSound == Init => Sound
<1> SUFFICES ASSUME Init PROVE Sound
  OBVIOUS
<1>1. /\ pc = "idle" /\ orphans = {} /\ staged = None
  BY DEF Init
<1>2. \A r \in Resources : (state[r] = "none" <=> cloud[r] = "none")
  BY DEF Init
<1>3. (\A r \in Resources : state[r] = "none") \/ (\A r \in Resources : state[r] # "none")
  BY DEF Init
<1>4. Stack
  BY <1>1, <1>2, <1>3, Addressed DEF Stack, Noted, Kept, Founded, Unnoted
<1>5. \A f \in PlanFiles : saved[f] = None \/ saved[f] = AppliedPlan
  BY Zenon DEF Init
<1>6. ValidPlans
  BY <1>1, <1>5 DEF ValidPlans, Valid, AppliedPlan
<1> QED
  BY <1>1, <1>4, <1>6 DEF Sound, Judged

(***************************************************************************)
(* A plan just made is right about the stack.                              *)
(***************************************************************************)
LEMMA PlannedValid ==
  ASSUME TypeOK, Noted, NEW S
  PROVE  Valid(Planned(S), cloud, state)
<1> DEFINE new == {r \in Resources : ~Known(r)}
           renewed == {r \in Resources \ new : state[r] = "tainted" \/ r \in S}
           changed == {r \in Instances \ (new \cup renewed) :
                         cloud[r] # config \/ Needs(r) \cap (new \cup renewed) # {}}
           all == new \cup renewed \cup changed
           changes == [r \in all |->
             IF r \in new THEN "create" ELSE IF r \in renewed THEN "replace" ELSE "update"]
<1>1. Planned(S) = [changes |-> changes, shape |-> config, fresh |-> TRUE]
  BY Zenon DEF Planned
<1>2. \A r \in new : cloud[r] = "none"
  BY DEF Known, Noted
<1>3. DOMAIN changes = all /\ \A r \in all : (changes[r] = "create" => r \in new)
  BY Zenon
<1>4. \A r \in all : changes[r] = "replace" => r \notin new
  BY Zenon
<1>5. all \subseteq Resources /\ new \cup renewed \subseteq all
  BY DEF Resources
<1>6. \A r \in Resources \ all : state[r] = "ok"
  <2> SUFFICES ASSUME NEW r \in Resources, r \notin new, r \notin renewed PROVE state[r] = "ok"
    BY <1>5
  <2>1. Known(r) /\ state[r] # "tainted"
    OBVIOUS
  <2>2. state[r] \in {"none", "ok", "tainted"}
    BY DEF TypeOK
  <2> QED
    BY <2>1, <2>2 DEF Known
<1>7. Broken \in all /\ Broken \notin new => state[Broken] # "none"
  BY <1>5 DEF Known
<1> HIDE DEF new, all, changes
<1>8. Planned(S).changes = changes
  BY <1>1
<1>9. AssertReplacement(Planned(S)) => all = {Broken} /\ changes[Broken] = "replace"
  BY <1>3, <1>8 DEF AssertReplacement, Broken
<1> QED
  BY <1>2, <1>3, <1>4, <1>6, <1>7, <1>8, <1>9 DEF Valid

LEMMA DestroyingValid ==
  ASSUME NEW S
  PROVE  /\ Valid(Destroying(S), cloud, state)
         /\ DOMAIN Destroying(S).changes \subseteq S
         /\ \A r \in DOMAIN Destroying(S).changes :
              Destroying(S).changes[r] = "delete" /\ state[r] # "none"
<1> DEFINE changes == [r \in {s \in S : Known(s)} |-> "delete"]
<1>1. Destroying(S).changes = changes
  BY DEF Destroying
<1>2. /\ DOMAIN changes \subseteq S
      /\ \A r \in DOMAIN changes : changes[r] = "delete" /\ state[r] # "none"
  BY DEF Known
<1> HIDE DEF changes
<1>3. ~AssertReplacement(Destroying(S))
  BY <1>1, <1>2 DEF AssertReplacement
<1> QED
  BY <1>1, <1>2, <1>3 DEF Valid

(***************************************************************************)
(* The operations of the provider keep the stack sound: each is of what    *)
(* the judged plan says, and a creation has what it stands on.             *)
(***************************************************************************)
LEMMA Operated ==
  ASSUME Core, Sound, NEW r \in Resources, Operation(r)
  PROVE  /\ Stack' /\ UNCHANGED orphans
         /\ AllJudged'
         /\ cloud' = [cloud EXCEPT ![r] = cloud'[r]]
         /\ \/ target = "apply" /\ cloud[r] = "none" /\ cloud'[r] = "accepted"
            \/ target = "repair-node-02-apply" /\ r = Broken
            \/ target = "destroy" /\ r \in Instances /\ cloud'[r] = "none" /\ state'[r] = "none"
         /\ \A s \in Resources \ {r} : state'[s] = state[s]
<1> USE DEF Core
<1>1. /\ Doing(r) /\ Ready(r) /\ r \in DOMAIN todo
      /\ target \in {"apply", "repair-node-02-apply", "destroy"}
      /\ \A s \in DOMAIN todo : Doing(s)
  BY DEF Operation, Ready, Sound, Judged, AllJudged, OwnStep
<1>2. /\ DOMAIN cloud = Resources /\ DOMAIN state = Resources
      /\ UNCHANGED <<target, staged>>
  BY DEF Operation, Moves, TypeOK
<1>3. Noted /\ Kept /\ Founded /\ Unnoted
  BY DEF Sound, Stack
<1>4. /\ DOMAIN Without(r) = DOMAIN todo \ {r}
      /\ \A s \in DOMAIN todo \ {r} : Without(r)[s] = todo[s]
  BY WithoutTyped
<1>7. DOMAIN todo \subseteq Resources
  BY DEF TypeOK
<1>5. CASE todo[r] = "create"
  <2>1. /\ cloud' = [cloud EXCEPT ![r] = Shape] /\ state' = [state EXCEPT ![r] = "ok"]
        /\ orphans' = IF cloud[r] = "none" THEN orphans ELSE orphans \cup {r}
        /\ todo' = Without(r)
    BY <1>5 DEF Operation
  <2>2. state[r] = "none" /\ cloud[r] = "none" /\ r \notin Instances \cap orphans
    BY <1>1, <1>3, <1>5 DEF Doing, Noted
  <2>3. \A s \in Needs(r) : state[s] = "ok"
    BY <1>1, <1>5 DEF Ready
  <2>4. Shape # "none" /\ orphans' = orphans
    BY <2>1, <2>2, ShapeTyped DEF Shapes
  <2>5. /\ \A s \in Resources \ {r} : state'[s] = state[s] /\ cloud'[s] = cloud[s]
        /\ state'[r] = "ok" /\ cloud'[r] = Shape
    BY <1>2, <2>1
  <2>6. Noted' /\ Kept'
    BY <1>3, <2>4, <2>5 DEF Noted, Kept
  <2>7. Founded'
    BY <1>3, <2>3, <2>5, Addressed DEF Founded, Needs
  <2>8. Unnoted'
    BY <1>3, <2>2, <2>4, <2>5, Addressed DEF Unnoted, Needs
  <2>9. AllJudged'
    BY <1>1, <1>2, <1>4, <1>7, <2>1, <2>4, <2>5 DEF AllJudged, Doing
  <2>10. target = "apply" => Shape = "accepted"
    BY <1>1 DEF Doing, Shape, Staged, Operation, Moves
  <2> QED
    BY <1>1, <1>5, <2>1, <2>2, <2>4, <2>5, <2>6, <2>7, <2>8, <2>9, <2>10 DEF Stack, Doing
<1>6. CASE todo[r] \in {"replace", "delete"}
  <2>1. /\ cloud' = [cloud EXCEPT ![r] = "none"] /\ state' = [state EXCEPT ![r] = "none"]
        /\ orphans' = orphans
        /\ todo' = Without(r) \/ (todo[r] = "replace" /\ todo' = [todo EXCEPT ![r] = "create"])
    BY <1>6 DEF Operation
  <2>2. r \in Instances /\ target # "apply"
    BY <1>1, <1>6, Addressed DEF Doing
  <2>3. /\ \A s \in Resources \ {r} : state'[s] = state[s] /\ cloud'[s] = cloud[s]
        /\ state'[r] = "none" /\ cloud'[r] = "none"
    BY <1>2, <2>1
  <2>4. Noted' /\ Kept'
    BY <1>3, <2>2, <2>3 DEF Noted, Kept
  <2>5. Founded'
    BY <1>3, <2>2, <2>3, Addressed DEF Founded, Needs
  <2>6. Unnoted'
    BY <1>3, <2>1, <2>2, <2>3, Addressed DEF Unnoted, Needs
  <2>7. AllJudged'
    <3>1. \A s \in DOMAIN todo \ {r} : todo'[s] = todo[s] /\ Doing(s) /\ state'[s] = state[s]
      BY <1>1, <1>4, <2>1, <2>3 DEF TypeOK
    <3>2. todo' = Without(r) \/ (r \in DOMAIN todo' /\ todo'[r] = "create" /\ todo[r] = "replace")
      BY <1>1, <2>1
    <3>3. DOMAIN todo' \subseteq DOMAIN todo
      BY <1>4, <2>1
    <3> SUFFICES ASSUME NEW s \in DOMAIN todo' PROVE Doing(s)'
      BY DEF AllJudged
    <3>4. CASE s # r
      BY <1>2, <2>1, <3>1, <3>3, <3>4 DEF Doing
    <3>5. CASE s = r
      <4>1. todo'[r] = "create" /\ todo[r] = "replace"
        BY <1>4, <3>2, <3>5
      <4> QED
        BY <1>1, <1>2, <2>1, <2>2, <2>3, <3>5, <4>1 DEF Doing
    <3> QED
      BY <3>4, <3>5
  <2> QED
    BY <1>1, <2>1, <2>2, <2>3, <2>4, <2>5, <2>6, <2>7 DEF Stack, Doing
<1> QED
  BY <1>1, <1>5, <1>6 DEF Doing

LEMMA OperatedNot ==
  ASSUME Core, Sound, NEW r \in Resources, NEW how \in Outcomes, OperationFails(r, how)
  PROVE  /\ Stack'
         /\ AllJudged'
         /\ how = "nothing" => UNCHANGED <<cloud, state, orphans>>
         /\ orphans' # orphans => broken' = "lost"
         /\ \A s \in Resources \ {r} : cloud'[s] = cloud[s] /\ state'[s] = state[s]
         /\ \/ cloud'[r] = cloud[r]
            \/ target = "apply" /\ cloud[r] = "none" /\ cloud'[r] = "accepted"
            \/ target = "repair-node-02-apply" /\ r = Broken
            \/ target = "destroy" /\ r \in Instances /\ cloud'[r] = "none"
         /\ state' = state => cloud'[r] \in {cloud[r], "none"}
<1> USE DEF Core
<1>1. /\ Doing(r) /\ Ready(r) /\ r \in DOMAIN todo
      /\ target \in {"apply", "repair-node-02-apply", "destroy"}
      /\ \A s \in DOMAIN todo : Doing(s)
  BY DEF OperationFails, Ready, Sound, Judged, AllJudged, OwnStep
<1>2. /\ DOMAIN cloud = Resources /\ DOMAIN state = Resources
      /\ UNCHANGED <<target, staged>> /\ todo' = Without(r) /\ broken' = how
  BY DEF OperationFails, Moves, TypeOK
<1>3. Noted /\ Kept /\ Founded /\ Unnoted
  BY DEF Sound, Stack
<1>4. /\ DOMAIN todo' = DOMAIN todo \ {r}
      /\ \A s \in DOMAIN todo \ {r} : todo'[s] = todo[s]
  BY <1>2, WithoutTyped
<1>8. DOMAIN todo \subseteq Resources
  BY DEF TypeOK
<1>5. CASE how = "nothing"
  <2>1. UNCHANGED <<cloud, state, orphans>>
    BY <1>5 DEF OperationFails, world
  <2>2. Stack'
    BY <1>3, <2>1 DEF Stack, Noted, Kept, Founded, Unnoted
  <2>3. AllJudged'
    BY <1>1, <1>2, <1>4, <2>1 DEF AllJudged, Doing
  <2> QED
    BY <1>5, <2>1, <2>2, <2>3
<1>6. CASE how = "tainted"
  <2>1. /\ todo[r] = "create"
        /\ cloud' = [cloud EXCEPT ![r] = Shape] /\ state' = [state EXCEPT ![r] = "tainted"]
        /\ orphans' = orphans
    BY <1>6 DEF OperationFails
  <2>2. state[r] = "none" /\ cloud[r] = "none" /\ r \notin Instances \cap orphans
    BY <1>1, <1>3, <2>1 DEF Doing, Noted
  <2>3. \A s \in Needs(r) : state[s] = "ok"
    BY <1>1, <2>1 DEF Ready
  <2>4. Shape # "none"
    BY ShapeTyped DEF Shapes
  <2>5. /\ \A s \in Resources \ {r} : state'[s] = state[s] /\ cloud'[s] = cloud[s]
        /\ state'[r] = "tainted" /\ cloud'[r] = Shape
    BY <1>2, <2>1
  <2>6. Noted' /\ Kept'
    BY <1>3, <2>4, <2>5 DEF Noted, Kept
  <2>7. Founded'
    BY <1>3, <2>3, <2>5, Addressed DEF Founded, Needs
  <2>8. Unnoted'
    BY <1>3, <2>1, <2>2, <2>5, Addressed DEF Unnoted, Needs
  <2>9. AllJudged'
    BY <1>1, <1>2, <1>4, <1>8, <2>1, <2>5 DEF AllJudged, Doing
  <2>10. target = "apply" => Shape = "accepted"
    BY <1>1 DEF Doing, Shape, Staged, OperationFails, Moves
  <2>11. Stack' /\ state' # state /\ target # "destroy"
    BY <1>1, <2>1, <2>2, <2>5, <2>6, <2>7, <2>8 DEF Stack, Doing
  <2>12. target = "repair-node-02-apply" => r = Broken
    BY <1>1 DEF Doing
  <2> QED
    BY <1>1, <1>6, <2>1, <2>2, <2>5, <2>9, <2>10, <2>11, <2>12
<1>7. CASE how = "lost"
  <2>1. /\ cloud' = [cloud EXCEPT ![r] = IF todo[r] = "create" THEN @ ELSE "none"]
        /\ orphans' = IF todo[r] = "create" THEN orphans \cup {r} ELSE orphans
        /\ state' = state
    BY <1>7 DEF OperationFails
  <2>2. todo[r] # "create" => r \in Instances /\ target # "apply"
    BY <1>1, Addressed DEF Doing
  <2>3. todo[r] = "create" => state[r] = "none" /\ \A s \in Needs(r) : state[s] = "ok"
    BY <1>1 DEF Ready, Doing
  <2>4. /\ \A s \in Resources \ {r} : cloud'[s] = cloud[s]
        /\ cloud'[r] = IF todo[r] = "create" THEN cloud[r] ELSE "none"
    BY <1>2, <2>1
  <2>5. Noted' /\ Kept'
    BY <1>3, <2>1, <2>2, <2>4 DEF Noted, Kept
  <2>6. Founded' /\ Unnoted'
    BY <1>3, <2>1, <2>3 DEF Founded, Unnoted, Needs
  <2>7. AllJudged'
    BY <1>1, <1>2, <1>4, <2>1 DEF AllJudged, Doing
  <2>8. target = "repair-node-02-apply" => r = Broken
    BY <1>1 DEF Doing
  <2>9. Stack'
    BY <2>5, <2>6 DEF Stack
  <2> QED
    BY <1>1, <1>2, <1>7, <2>1, <2>2, <2>4, <2>7, <2>8, <2>9
<1> QED
  BY <1>5, <1>6, <1>7 DEF Outcomes

LEMMA WrittenValid ==
  ASSUME TypeOK, StateWritten
  PROVE  \A f \in PlanFiles : Valid(saved[f], cloud, state)'
BY WrittenTyped DEF Valid

LEMMA OperationSound ==
  ASSUME Core, Sound, NEW r \in Resources, Operation(r)
  PROVE  Sound'
<1>1. Stack' /\ AllJudged'
  BY Operated
<1>2. \A f \in PlanFiles : Valid(saved[f], cloud, state)'
  BY WrittenValid DEF Operation, Core
<1>3. pc' = "applying"
  BY DEF Operation, Moves
<1> QED
  BY <1>1, <1>2, <1>3 DEF Sound, ValidPlans, Judged

LEMMA OperationFailsSound ==
  ASSUME Core, Sound, NEW r \in Resources, NEW how \in Outcomes, OperationFails(r, how)
  PROVE  Sound'
<1>1. Stack' /\ AllJudged'
  BY OperatedNot
<1>2. pc' = "applying"
  BY DEF OperationFails, Moves
<1>3. \A f \in PlanFiles : Valid(saved[f], cloud, state)'
  <2>1. CASE StateWritten
    BY <2>1, WrittenValid DEF Core
  <2>2. CASE state' = state /\ UNCHANGED saved
    <3>1. \A s \in Resources : cloud[s] = "none" => cloud'[s] = "none"
      BY <2>2, OperatedNot
    <3> SUFFICES ASSUME NEW f \in PlanFiles, saved[f] # None, saved[f].fresh
                 PROVE  Valid(saved[f], cloud', state)
      BY <2>2 DEF Valid
    <3>2. DOMAIN saved[f].changes \subseteq Resources
      BY DEF Core, TypeOK, IsPlan
    <3> QED
      BY <3>1, <3>2 DEF Sound, ValidPlans, Valid
  <2> QED
    BY <2>1, <2>2 DEF OperationFails
<1> QED
  BY <1>1, <1>2, <1>3 DEF Sound, ValidPlans, Judged

LEMMA UntaintSound ==
  ASSUME Core, Sound, Untaint
  PROVE  /\ Sound'
         /\ \A r \in Resources : state'[r] = IF r = This THEN "ok" ELSE state[r]
         /\ state[This] = "tainted" /\ This \in Instances
<1> USE DEF Core
<1>1. This \in Instances /\ state[This] = "tainted" /\ UNCHANGED <<cloud, orphans>> /\ pc' = "untaint"
  BY UntaintTyped DEF Untaint, Moves
<1>2. \A r \in Resources : state'[r] = IF r = This THEN "ok" ELSE state[r]
  BY DEF Untaint, TypeOK
<1>3. \A r \in Resources : state'[r] = "none" <=> state[r] = "none"
  BY <1>1, <1>2, Addressed
<1>4. Noted /\ Kept /\ Founded /\ Unnoted
  BY DEF Sound, Stack
<1>5. Noted' /\ Kept'
  BY <1>1, <1>3, <1>4 DEF Noted, Kept
<1>6. Founded' /\ Unnoted'
  BY <1>1, <1>3, <1>4, Addressed DEF Founded, Unnoted, Needs
<1>7. \A f \in PlanFiles : Valid(saved[f], cloud, state)'
  BY WrittenValid DEF Untaint
<1> QED
  BY <1>1, <1>2, <1>5, <1>6, <1>7 DEF Sound, Stack, ValidPlans, Judged

(***************************************************************************)
(* A plan that has passed the review and that Terraform still takes        *)
(* creates what is not there, or replaces the broken instance.             *)
(***************************************************************************)
LEMMA ApplySound ==
  ASSUME Core, Sound, Apply
  PROVE  Sound'
<1> USE DEF Core
<1>1. /\ pc = "apply" /\ pc' = "applying" /\ UNCHANGED <<target, saved, staged, cloud, state, orphans>>
      /\ todo' = staged.changes /\ staged.fresh /\ target \in {"apply", "repair-node-02-apply"}
  BY DEF Apply, Applied, Moves, OwnStep, files, world
<1>2. staged # None /\ Asserted(staged) /\ Valid(staged, cloud, state)
  BY <1>1 DEF Staged, Sound, ValidPlans
<1>3. Noted /\ Kept /\ Founded /\ Unnoted
  BY DEF Sound, Stack
<1>4. ASSUME NEW r \in DOMAIN todo' PROVE Doing(r)'
  <2>1. CASE target = "apply"
    <3>1. /\ DOMAIN staged.changes = Resources /\ staged.shape = "accepted"
          /\ \A s \in Resources : staged.changes[s] = "create"
      BY <1>1, <1>2, <1>4, <2>1 DEF Asserted, AssertNoDrift, AssertInitial, NoChange
    <3>2. \A s \in Resources : cloud[s] = "none"
      BY <1>1, <1>2, <3>1 DEF Valid
    <3>3. \A s \in Resources \ Instances : state[s] = "none"
      BY <1>3, <3>2 DEF Kept
    <3>4. \A s \in Instances : state[s] = "none" /\ s \notin orphans
      BY <1>3, <3>3, Addressed DEF Founded, Unnoted
    <3> QED
      BY <1>1, <1>4, <2>1, <3>1, <3>3, <3>4 DEF Doing
  <2>2. CASE target = "repair-node-02-apply"
    <3>1. AssertReplacement(staged)
      BY <1>2, <2>2 DEF Asserted
    <3>2. r = Broken /\ todo'[r] = "replace"
      BY <1>1, <1>4, <3>1 DEF AssertReplacement, Broken
    <3>3. state[Broken] # "none"
      BY <1>1, <1>2, <3>1 DEF Valid
    <3>4. Broken \notin Instances \cap orphans
      BY <1>3, <3>3 DEF Unnoted
    <3> QED
      BY <1>1, <2>2, <3>2, <3>4 DEF Doing
  <2> QED
    BY <1>1, <2>1, <2>2
<1>5. Stack'
  BY <1>1, <1>3 DEF Stack, Noted, Kept, Founded, Unnoted
<1>6. \A f \in PlanFiles : Valid(saved[f], cloud, state)'
  BY <1>1 DEF Sound, ValidPlans
<1> QED
  BY <1>1, <1>4, <1>5, <1>6 DEF Sound, ValidPlans, Judged, AllJudged

LEMMA SavesSound ==
  ASSUME Core, Sound, Plan \/ RollbackPlan
  PROVE  /\ Sound'
         /\ \E plan : /\ IsPlan(plan) /\ Valid(plan, cloud, state)
                      /\ \A f \in PlanFiles : saved'[f] = IF f = PlanPath THEN plan ELSE saved[f]
<1> USE DEF Core
<1>1. \E from \in {"plan", "rollback"} : \E plan :
        Save(from, plan) /\ IsPlan(plan) /\ Valid(plan, cloud, state)
  <2>1. Noted /\ config \in Shapes /\ Instances \in SUBSET Resources
    BY DEF Sound, Stack, TypeOK, Resources
  <2> QED
    BY <2>1, PlannedValid, PlannedTyped, DestroyingValid, DestroyingTyped DEF Plan, RollbackPlan
<1>2. PICK plan : /\ \E from \in {"plan", "rollback"} : Save(from, plan)
                  /\ IsPlan(plan) /\ Valid(plan, cloud, state)
  BY <1>1
<1>3. \A f \in PlanFiles : saved'[f] = IF f = PlanPath THEN plan ELSE saved[f]
  BY <1>2 DEF Save, TypeOK
<1>4. UNCHANGED <<cloud, state, orphans, staged>> /\ pc' = "review" /\ pc \in {"plan", "rollback"}
  BY <1>2 DEF Save, Moves, world
<1>5. staged = None
  BY <1>4 DEF OwnStep, Staged
<1>6. ValidPlans'
  BY <1>2, <1>3, <1>4, <1>5 DEF Sound, ValidPlans, Valid
<1>7. Stack'
  BY <1>4 DEF Sound, Stack, Noted, Kept, Founded, Unnoted
<1> QED
  BY <1>2, <1>3, <1>4, <1>6, <1>7 DEF Sound, Judged

\* Steps that leave the stack and the saved plans alone.
LEMMA QuietSound ==
  ASSUME Core, Sound, UNCHANGED <<saved, cloud, state, orphans>>,
         pc' # "applying",
         pc' \in {"review", "before", "apply"} =>
           staged' = staged /\ (pc \in {"review", "before", "apply"} \/ staged = None)
  PROVE  Sound'
<1>1. Stack'
  BY DEF Sound, Stack, Noted, Kept, Founded, Unnoted
<1>2. \A f \in PlanFiles : Valid(saved[f], cloud, state)'
  BY DEF Sound, ValidPlans
<1>3. pc' \in {"review", "before", "apply"} => Valid(staged, cloud, state)'
  BY DEF Sound, ValidPlans, Valid
<1> QED
  BY <1>1, <1>2, <1>3 DEF Sound, ValidPlans, Judged

\* Steps that leave the run alone as well.
LEMMA AsideSound ==
  ASSUME Core, Sound, UNCHANGED <<pc, target, staged, todo, cloud, state, orphans>>,
         \A f \in PlanFiles : \E g \in PlanFiles : saved'[f] = saved[g]
  PROVE  Sound'
<1>1. Stack'
  BY DEF Sound, Stack, Noted, Kept, Founded, Unnoted
<1>2. \A f \in PlanFiles : Valid(saved[f], cloud, state)'
  BY DEF Sound, ValidPlans
<1>3. ValidPlans'
  BY <1>2 DEF Sound, ValidPlans
<1>4. Judged'
  BY DEF Sound, Judged, AllJudged, Doing
<1> QED
  BY <1>1, <1>3, <1>4 DEF Sound

LEMMA SoundStep ==
  ASSUME Core, Sound, [Next]_vars
  PROVE  Sound'
<1> USE DEF Core
<1>1. CASE \E t \in Targets : Start(t)
  <2>1. /\ pc' # "applying" /\ staged = None
        /\ UNCHANGED <<saved, staged, cloud, state, orphans>>
    BY <1>1 DEF Start, FirstStep, Targets, files, world, TypeOK
  <2> QED
    BY <2>1, QuietSound
<1>2. ASSUME pc' \in Ended \cup {"rescue"}, UNCHANGED <<saved, world>> PROVE Sound'
  BY <1>2, QuietSound DEF world, Ended
<1>3. CASE Finishes \/ BackupState \/ BackupRescue \/ Killed \/ Fails
  BY <1>2, <1>3 DEF Finishes, Ends, End, Moves, BackupState, BackupRescue, Killed, Fails, files, Ended
<1>4. CASE GoesOn
  <2>1. /\ pc' # "applying" /\ pc' # "review"
        /\ UNCHANGED <<saved, staged, cloud, state, orphans>>
        /\ pc' \in {"before", "apply"} => pc = "review"
    BY <1>4 DEF GoesOn, Checked, Moves, files, world
  <2> QED
    BY <2>1, QuietSound
<1>14. CASE TerraformDone
  <2>1. CASE UNCHANGED saved
    BY <1>14, <2>1, DoneKeeps, QuietSound
  <2>2. CASE StateWritten
    <3>1. \A f \in PlanFiles : Valid(saved[f], cloud, state)'
      BY <2>2, WrittenValid
    <3>2. Stack'
      BY <1>14, DoneKeeps DEF Sound, Stack, Noted, Kept, Founded, Unnoted
    <3> QED
      BY <1>14, <3>1, <3>2, DoneKeeps DEF Sound, ValidPlans, Judged
  <2> QED
    BY <1>14, <2>1, <2>2, DoneKeeps
<1>5. CASE Works
  BY <1>5, OperationSound, OperationFailsSound DEF Works
<1>6. CASE Plan \/ RollbackPlan
  BY <1>6, SavesSound
<1>7. CASE Stage
  <2>1. /\ pc' = "review" /\ UNCHANGED <<saved, cloud, state, orphans>>
        /\ staged' = saved[PlanPath] /\ PlanPath \in PlanFiles
    BY <1>7 DEF Stage, Moves, world, PlanPath, PlanFiles
  <2>2. Stack'
    BY <2>1 DEF Sound, Stack, Noted, Kept, Founded, Unnoted
  <2>3. ValidPlans'
    BY <2>1 DEF Sound, ValidPlans
  <2> QED
    BY <2>1, <2>2, <2>3 DEF Sound, Judged
<1>8. CASE Apply
  BY <1>8, ApplySound
<1>9. CASE Destroy
  <2>1. /\ pc' = "applying" /\ UNCHANGED <<saved, staged, cloud, state, orphans>>
        /\ todo' = Destroying(Instances).changes /\ target' = "destroy"
    BY <1>9 DEF Destroy, Moves, world, files, OwnStep
  <2>2. Stack' /\ ValidPlans'
    BY <2>1 DEF Sound, Stack, Noted, Kept, Founded, Unnoted, ValidPlans
  <2>3. AllJudged'
    BY <2>1, DestroyingValid DEF AllJudged, Doing
  <2> QED
    BY <2>1, <2>2, <2>3 DEF Sound, Judged
<1>10. CASE Untaint
  BY <1>10, UntaintSound
<1>11. CASE BackupBefore
  <2>1. /\ pc = "before" /\ pc' \in {"addresses", "apply"}
        /\ UNCHANGED <<saved, staged, cloud, state, orphans>>
    BY <1>11 DEF BackupBefore, Moves, files, world
  <2> QED
    BY <2>1, QuietSound
<1>12. CASE \E f, g \in PlanFiles : Mixup(f, g)
  <2>1. PICK f \in PlanFiles, g \in PlanFiles : Mixup(f, g)
    BY <1>12
  <2>2. \A h \in PlanFiles : saved'[h] = IF h = f THEN saved[g] ELSE saved[h]
    BY <2>1, MixupTyped
  <2> QED
    BY <2>1, <2>2, AsideSound DEF Mixup, run, world
<1>13. CASE (\E shape \in Shapes : Edit(shape)) \/ UNCHANGED vars
  BY <1>13, AsideSound DEF Edit, vars, run, files, world
<1> QED
  BY <1>1, <1>3, <1>4, <1>5, <1>6, <1>7, <1>8, <1>9, <1>10, <1>11, <1>12, <1>13, <1>14,
     ScriptKinds DEF Next, Trouble

LEMMA SoundInvariant == Spec => []Sound
<1>1. Core /\ Sound /\ [Next]_vars => Sound'
  BY SoundStep
<1> QED
  BY <1>1, InitSound, CoreInvariant, PTL DEF Spec

(***************************************************************************)
(* No step but an operation of the provider touches the cloud.             *)
(***************************************************************************)
LEMMA OnlyWorks ==
  ASSUME Core, [Next]_vars, ~Works
  PROVE  UNCHANGED <<cloud, orphans>>
<1>1. CASE (\E t \in Targets : Start(t)) \/ Finishes \/ GoesOn \/ TerraformDone
  BY <1>1 DEF Start, Finishes, Ends, GoesOn, Checked, TerraformDone, world
<1>2. CASE Plan \/ RollbackPlan \/ Stage \/ Apply \/ Destroy \/ Untaint
  BY <1>2 DEF Plan, RollbackPlan, Save, Stage, Apply, Destroy, Untaint, world
<1>3. CASE BackupBefore \/ BackupState \/ BackupRescue
  BY <1>3 DEF BackupBefore, BackupState, BackupRescue, world
<1>4. CASE Trouble \/ UNCHANGED vars
  BY <1>4 DEF Trouble, Fails, Killed, Mixup, Edit, vars, world
<1> QED
  BY <1>1, <1>2, <1>3, <1>4, ScriptKinds DEF Next, Core

(***************************************************************************)
(* What happens to the cloud is what a reviewed plan allows, or a deletion *)
(* of instances by the confirmed destroy, whose plan nobody reviews; and   *)
(* an object nobody knows is an error of the provider.                     *)
(***************************************************************************)
THEOREM ChangesKeepPromises == Spec => OnlyPromisedChanges
<1> DEFINE Promised ==
      /\ \A r \in Resources : cloud'[r] # cloud[r] =>
           \/ /\ target = "apply" /\ staged # None /\ Asserted(staged)
              /\ cloud[r] = "none" /\ cloud'[r] = "accepted"
           \/ /\ target = "repair-node-02-apply" /\ staged # None /\ Asserted(staged)
              /\ r = Instance(Repaired)
           \/ target = "destroy" /\ r \in Instances /\ cloud'[r] = "none"
      /\ orphans' # orphans => broken' = "lost"
<1>1. ASSUME Core, Sound, [Next]_vars PROVE Promised
  <2>1. CASE ~Works
    BY <1>1, <2>1, OnlyWorks
  <2>4. ASSUME Works, target \in {"apply", "repair-node-02-apply"}
        PROVE  staged # None /\ Asserted(staged)
    <3>1. pc = "applying"
      BY <2>4 DEF Works, Operation, OperationFails, Ready
    <3> QED
      BY <1>1, <2>4, <3>1 DEF Core, Staged
  <2>2. ASSUME NEW r \in Resources, Operation(r) PROVE Promised
    <3>1. \A s \in Resources \ {r} : cloud'[s] = cloud[s]
      BY <1>1, <2>2, Operated DEF Core, TypeOK
    <3> QED
      BY <1>1, <2>2, <2>4, <3>1, Operated DEF Broken, Works
  <2>3. ASSUME NEW r \in Resources, NEW how \in Outcomes, OperationFails(r, how) PROVE Promised
    BY <1>1, <2>3, <2>4, OperatedNot DEF Broken, Works
  <2> QED
    BY <2>1, <2>2, <2>3 DEF Works
<1>2. Core /\ Sound /\ [Next]_vars => [Promised]_vars
  BY <1>1
<1> QED
  BY <1>2, CoreInvariant, SoundInvariant, PTL DEF Spec, OnlyPromisedChanges

------------------------------------------------------------------------------
\* The cost report

LEMMA OnePerNode ==
  /\ IsFiniteSet(Instances) /\ Cardinality(Instances) = Cardinality(Nodes)
  /\ IsFiniteSet(Volumes) /\ Cardinality(Volumes) = Cardinality(Nodes)
  /\ Cardinality(Nodes) \in Nat
<1> DEFINE i == [n \in Nodes |-> Instance(n)]
           v == [n \in Nodes |-> Volume(n)]
<1>1. i \in Bijection(Nodes, Instances)
  <2>1. i \in [Nodes -> Instances]
    BY DEF Instances
  <2>2. \A a, b \in Nodes : i[a] = i[b] => a = b
    BY DEF Instance
  <2>3. \A t \in Instances : \E n \in Nodes : i[n] = t
    BY DEF Instances
  <2> QED
    BY <2>1, <2>2, <2>3, Fun_IsBij
<1>2. v \in Bijection(Nodes, Volumes)
  <2>1. v \in [Nodes -> Volumes]
    BY DEF Volumes
  <2>2. \A a, b \in Nodes : v[a] = v[b] => a = b
    BY DEF Volume
  <2>3. \A t \in Volumes : \E n \in Nodes : v[n] = t
    BY DEF Volumes
  <2> QED
    BY <2>1, <2>2, <2>3, Fun_IsBij
<1>3. ExistsBijection(Nodes, Instances) /\ ExistsBijection(Nodes, Volumes)
  BY <1>1, <1>2, Fun_ExistsBij
<1>4. IsFiniteSet(Nodes)
  BY ReviewedPlanAssumption
<1> QED
  BY <1>3, <1>4, FS_Bijection, FS_CardinalityType

(***************************************************************************)
(* An instance nobody noted stands for one that is not there, so the count *)
(* of the instances leaves one for each node; and then the volumes, which  *)
(* all of them stand on, are there and add up.                             *)
(***************************************************************************)
LEMMA CountsKnown ==
  ASSUME TypeOK, Stack, CountsAndRate
  PROVE  \A n \in Nodes :
           /\ Known(Volume(n)) /\ Volume(n) \notin orphans
           /\ Known(Instance(n)) # (Instance(n) \in orphans)
<1> DEFINE there(S) == {r \in S : cloud[r] # "none"}
           lost == orphans \cap Instances
<1>1. /\ IsFiniteSet(lost) /\ Cardinality(lost) \in Nat
      /\ IsFiniteSet(orphans \cap Volumes) /\ Cardinality(orphans \cap Volumes) \in Nat
      /\ IsFiniteSet(there(Instances)) /\ Cardinality(there(Instances)) \in Nat
      /\ Cardinality(there(Volumes)) \in Nat
  BY OnePerNode, FS_Subset, FS_CardinalityType
<1>2. /\ Objects(Instances) = Cardinality(there(Instances)) + Cardinality(lost)
      /\ Objects(Volumes) = Cardinality(there(Volumes)) + Cardinality(orphans \cap Volumes)
  BY DEF Objects
<1>3. \A r \in lost : state[r] = "none" /\ \A s \in Needs(r) : state[s] # "none"
  BY DEF Stack, Unnoted
<1>4. there(Instances) \cap lost = {}
  BY <1>3, Addressed DEF Stack, Noted
<1>5. there(Instances) \cup lost = Instances
  <2>1. Cardinality(there(Instances) \cup lost) = Cardinality(there(Instances)) + Cardinality(lost)
    <3>1. Cardinality(there(Instances) \cup lost) =
             Cardinality(there(Instances)) + Cardinality(lost) - Cardinality(there(Instances) \cap lost)
      BY <1>1, FS_Union
    <3>2. Cardinality(there(Instances) \cap lost) = 0
      BY <1>4, FS_EmptySet
    <3> HIDE DEF there, lost
    <3> QED
      BY <1>1, <3>1, <3>2
  <2>2. Cardinality(there(Instances) \cup lost) = Cardinality(Instances)
    BY <1>2, <2>1, OnePerNode DEF CountsAndRate
  <2>3. there(Instances) \cup lost \subseteq Instances
    OBVIOUS
  <2> QED
    BY <2>2, <2>3, OnePerNode, FS_Subset
<1>6. \A r \in Instances : Known(r) # (r \in orphans)
  <2>1. \A r \in there(Instances) : Known(r)
    BY Addressed DEF Stack, Noted, Known
  <2>2. \A r \in lost : ~Known(r)
    BY <1>3 DEF Known
  <2> QED
    BY <1>4, <1>5, <2>1, <2>2
<1>7. \A n \in Nodes : state[Volume(n)] # "none" /\ cloud[Volume(n)] # "none"
  <2> TAKE n \in Nodes
  <2>1. Instance(n) \in Instances /\ Volume(n) \in Volumes /\ Volume(n) \in Needs(Instance(n))
    BY Addressed DEF Instances, Volumes
  <2>2. state[Volume(n)] # "none"
    <3>1. CASE Instance(n) \in lost
      BY <1>3, <2>1, <3>1
    <3>2. CASE Instance(n) \in there(Instances)
      BY <2>1, <3>2, Addressed DEF Stack, Noted, Founded
    <3> QED
      BY <1>5, <2>1, <3>1, <3>2
  <2> QED
    BY <2>1, <2>2, Addressed DEF Stack, Kept
<1>8. there(Volumes) = Volumes
  BY <1>7 DEF Volumes
<1>9. Cardinality(orphans \cap Volumes) = 0
  <2>1. Objects(Volumes) = Cardinality(Nodes)
    <3>1. /\ Objects(Instances) = Cardinality(Nodes)
          /\ Objects(Volumes) + Objects(Instances) = 2 * Cardinality(Nodes)
      BY DEF CountsAndRate
    <3>2. Objects(Volumes) \in Nat
      BY <1>1, <1>2
    <3> QED
      BY <3>1, <3>2, OnePerNode
  <2> QED
    <3>1. Cardinality(there(Volumes)) = Cardinality(Nodes)
      BY <1>8, OnePerNode
    <3> HIDE DEF there
    <3> QED
      BY <1>1, <1>2, <2>1, <3>1, OnePerNode
<1>10. orphans \cap Volumes = {}
  BY <1>1, <1>9, FS_EmptySet
<1>11. \A n \in Nodes : Instance(n) \in Instances /\ Volume(n) \in Volumes
  BY DEF Instances, Volumes
<1> QED
  BY <1>6, <1>7, <1>10, <1>11 DEF Known

LEMMA ReconciledStep ==
  ASSUME Core, Sound, ReconciledOnePerNode, [Next]_vars
  PROVE  ReconciledOnePerNode'
<1> USE DEF Core
<1> SUFFICES ASSUME pc' = "pass", target' = "cost-report"
             PROVE  (\A n \in Nodes :
                       /\ Known(Volume(n)) /\ Volume(n) \notin orphans
                       /\ Known(Instance(n)) # (Instance(n) \in orphans))'
  BY DEF ReconciledOnePerNode
<1>1. UNCHANGED <<cloud, state, orphans>> /\ target' = target /\ (pc = "pass" \/ CountsAndRate)
  <2>1. CASE (\E t \in Targets : Start(t)) \/ GoesOn \/ TerraformDone \/ Works \/ BackupBefore
    BY <2>1, DoneKeeps DEF Start, FirstStep, Targets, GoesOn, Checked, Works, Operation,
       OperationFails, BackupBefore, Moves
  <2>2. CASE Plan \/ RollbackPlan \/ Stage \/ Apply \/ Destroy \/ Untaint
    BY <2>2 DEF Plan, RollbackPlan, Save, Stage, Apply, Destroy, Untaint, Moves
  <2>3. CASE Finishes
    BY <2>3 DEF Finishes, Ends, End, Moves, world
  <2>4. CASE BackupState \/ BackupRescue
    BY <2>4 DEF BackupState, BackupRescue, End, Moves, OwnStep, Writers
  <2>5. CASE Trouble \/ UNCHANGED vars
    BY <2>5 DEF Trouble, Fails, Killed, End, Moves, Mixup, Edit, vars, world
  <2> QED
    BY <2>1, <2>2, <2>3, <2>4, <2>5, ScriptKinds DEF Next
<1>2. \A n \in Nodes :
        /\ Known(Volume(n)) /\ Volume(n) \notin orphans
        /\ Known(Instance(n)) # (Instance(n) \in orphans)
  BY <1>1, CountsKnown DEF Sound, ReconciledOnePerNode
<1> QED
  BY <1>1, <1>2 DEF Known

(***************************************************************************)
(* A cost report that passes has found every volume known and each node    *)
(* with one instance, known or lost, whatever the provider left unnoted.   *)
(***************************************************************************)
THEOREM ReconciledPerNode == Spec => []ReconciledOnePerNode
<1>1. Init => ReconciledOnePerNode
  BY DEF Init, ReconciledOnePerNode
<1>2. Core /\ Sound /\ ReconciledOnePerNode /\ [Next]_vars => ReconciledOnePerNode'
  BY ReconciledStep
<1> QED
  BY <1>1, <1>2, CoreInvariant, SoundInvariant, PTL DEF Spec

------------------------------------------------------------------------------
\* The wedges

(***************************************************************************)
(* First is what the repair untaints: instances, and each of them adds to  *)
(* the ones before it.                                                     *)
(***************************************************************************)
LEMMA FirstNodes ==
  /\ \A k \in 0..Len(Healthy) : First(k) \subseteq Instances
  /\ First(0) = {}
  /\ \A k \in 1..Len(Healthy) : First(k) = First(k - 1) \cup {Instance(Healthy[k])}
  /\ \A j, k \in 0..Len(Healthy) : j <= k => First(j) \subseteq First(k)
<1>1. \A k \in 0..Len(Healthy) : \A i \in 1..k : i \in 1..Len(Healthy)
  BY HealthyNodes
<1>2. \A k \in 0..Len(Healthy) : First(k) \subseteq Instances
  BY <1>1, HealthyNodes DEF First, Instances
<1>3. First(0) = {}
  BY DEF First
<1>4. \A k \in 1..Len(Healthy) : First(k) = First(k - 1) \cup {Instance(Healthy[k])}
  <2> SUFFICES ASSUME NEW k \in 1..Len(Healthy)
               PROVE  First(k) = First(k - 1) \cup {Instance(Healthy[k])}
    OBVIOUS
  <2>1. \A i : i \in 1..k <=> (i \in 1..(k - 1) \/ i = k)
    BY HealthyNodes
  <2> QED
    BY <2>1 DEF First
<1>5. \A j, k \in 0..Len(Healthy) : j <= k => First(j) \subseteq First(k)
  <2>1. \A j, k \in 0..Len(Healthy) : j <= k => 1..j \subseteq 1..k
    BY HealthyNodes
  <2> QED
    BY <2>1 DEF First
<1> QED
  BY <1>2, <1>3, <1>4, <1>5

LEMMA UntaintableMore ==
  ASSUME NEW S, NEW j \in 1..Len(Healthy), Untaintable(S) \/ S = {}
  PROVE  Untaintable(S \cup First(j))
<1>1. CASE S = {}
  BY <1>1 DEF Untaintable
<1>2. CASE S \subseteq Instances /\ First(Len(Healthy)) \subseteq S
  BY <1>2, FirstNodes, HealthyNodes DEF Untaintable
<1>3. CASE \E k \in 1..Len(Healthy) : S = First(k)
  <2>1. PICK k \in 1..Len(Healthy) : S = First(k)
    BY <1>3
  <2>2. First(j) \subseteq First(k) \/ First(k) \subseteq First(j)
    BY FirstNodes, HealthyNodes
  <2> QED
    BY <2>1, <2>2 DEF Untaintable
<1> QED
  BY <1>1, <1>2, <1>3 DEF Untaintable

(***************************************************************************)
(* A wedge depends on the stack, the node map and the repair plan alone.   *)
(***************************************************************************)
LEMMA WedgeKept ==
  ASSUME UNCHANGED <<config, cloud, state>>, saved'["RepairPlanPath"] = saved["RepairPlanPath"]
  PROVE  /\ Wedged' <=> Wedged
         /\ Tainted' = Tainted
         /\ \A S : AllKnown(S)' <=> AllKnown(S)
         /\ \A r : Known(r)' <=> Known(r)
<1>1. \A r : Known(r)' <=> Known(r)
  BY DEF Known
<1>2. \A S : AllKnown(S)' <=> AllKnown(S)
  BY <1>1 DEF AllKnown
<1>3. Tainted' = Tainted
  BY DEF Tainted
<1>4. Repairable' <=> Repairable
  BY <1>2, <1>3 DEF Repairable
<1> QED
  BY <1>1, <1>2, <1>3, <1>4 DEF Wedged

\* A wedge stays one when the saved plans go stale.
LEMMA StaleWedged ==
  ASSUME Core, Wedged, StateWritten, UNCHANGED <<config, cloud, state>>
  PROVE  Wedged'
<1>1. \A r : Known(r)' <=> Known(r)
  BY DEF Known
<1>2. \A S : AllKnown(S)' <=> AllKnown(S)
  BY <1>1 DEF AllKnown
<1>3. Tainted' = Tainted
  BY DEF Tainted
<1>4. saved'["RepairPlanPath"] # None => ~saved'["RepairPlanPath"].fresh
  BY WrittenTyped DEF PlanFiles, Core
<1>5. Repairable' => Repairable
  BY <1>2, <1>3, <1>4 DEF Repairable
<1> QED
  BY <1>1, <1>2, <1>3, <1>5 DEF Wedged

\* What is missing is not what a repair plan replaces.
LEMMA MissingWedges ==
  ASSUME NEW r \in Resources, Known(r), ~AllKnown(Resources),
         \/ ~AllKnown(Resources \ {Broken})
         \/ saved["RepairPlanPath"] # None => ~saved["RepairPlanPath"].fresh
  PROVE  Wedged
BY DEF Wedged, Repairable, Broken

(***************************************************************************)
(* A replacement is only planned on a stack of which nothing is missing.   *)
(***************************************************************************)
LEMMA PlannedKnown ==
  ASSUME NEW S, AssertReplacement(Planned(S))
  PROVE  AllKnown(Resources)
<1> DEFINE new == {r \in Resources : ~Known(r)}
           renewed == {r \in Resources \ new : state[r] = "tainted" \/ r \in S}
           changed == {r \in Instances \ (new \cup renewed) :
                         cloud[r] # config \/ Needs(r) \cap (new \cup renewed) # {}}
           all == new \cup renewed \cup changed
           changes == [r \in all |->
             IF r \in new THEN "create" ELSE IF r \in renewed THEN "replace" ELSE "update"]
<1>1. Planned(S) = [changes |-> changes, shape |-> config, fresh |-> TRUE]
  BY Zenon DEF Planned
<1>2. DOMAIN changes = all /\ \A r \in all : r \in new => changes[r] = "create"
  BY Zenon
<1>3. new \subseteq all
  BY Zenon
<1>4. \A r \in Resources \ new : Known(r)
  OBVIOUS
<1> HIDE DEF new, all, changes
<1>5. all = {Broken} /\ changes[Broken] = "replace"
  BY <1>1, <1>2 DEF AssertReplacement, Broken
<1>6. new = {}
  BY <1>2, <1>3, <1>5
<1> QED
  BY <1>4, <1>6 DEF AllKnown

LEMMA WorksWedged ==
  ASSUME Core, Sound, StaysWedged, Works, sunk'
  PROVE  StaysWedged'
<1> USE DEF Core
<1>1. ~\E r \in Resources, how \in Outcomes : OperationFails(r, how)
  BY DEF OperationFails, Calm, Faulty, StaysWedged, Outcomes
<1>2. PICK r \in Resources : Operation(r)
  BY <1>1 DEF Works
<1>3. /\ sunk /\ UNCHANGED <<target, config, broken>> /\ pc = "applying" /\ pc' = "applying"
      /\ r \in DOMAIN todo /\ Doing(r) /\ StateWritten
  BY <1>2 DEF Operation, Ready, Moves, Calm, Sound, Judged, AllJudged
<1>4. target # "apply"
  BY <1>3 DEF StaysWedged
<1>5. \A s \in Resources \ {r} : cloud'[s] = cloud[s] /\ state'[s] = state[s]
  BY <1>2, Operated DEF TypeOK
<1>6. \A s \in Resources \ {r} : Known(s)' <=> Known(s)
  BY <1>5 DEF Known
<1>7. CASE target = "repair-node-02-apply"
  <2>1. r = Broken /\ Known(Key) /\ ~AllKnown(Resources \ {Broken})
    BY <1>3, <1>7 DEF StaysWedged, Doing
  <2>2. Known(Key)' /\ ~AllKnown(Resources \ {Broken})' /\ ~AllKnown(Resources)'
    BY <1>6, <2>1, Addressed DEF AllKnown
  <2>3. Wedged'
    BY <2>2, Addressed DEF Wedged, Repairable, Broken
  <2> QED
    BY <1>3, <1>7, <2>2, <2>3 DEF StaysWedged
<1>8. CASE target = "destroy"
  <2>1. r \in Instances /\ state[r] # "none" /\ state'[r] = "none"
    BY <1>2, <1>3, <1>8, Operated DEF Doing
  <2>2. Known(Key)
    BY <2>1, Addressed DEF Sound, Stack, Founded, Kept, Known
  <2>3. Known(Key)' /\ ~AllKnown(Resources)'
    BY <1>6, <2>1, <2>2, Addressed DEF AllKnown, Known
  <2>4. saved'["RepairPlanPath"] # None => ~saved'["RepairPlanPath"].fresh
    BY <1>3, WrittenTyped DEF PlanFiles
  <2>5. Wedged'
    BY <2>3, <2>4, Addressed DEF Wedged, Repairable
  <2> QED
    BY <1>3, <1>8, <2>5 DEF StaysWedged
<1> QED
  BY <1>3, <1>4, <1>7, <1>8 DEF OwnStep

LEMMA PlanWedged ==
  ASSUME Core, Sound, StaysWedged, Plan, sunk'
  PROVE  StaysWedged'
<1> USE DEF Core
<1>1. /\ sunk /\ UNCHANGED <<target, config, broken, cloud, state>> /\ pc = "plan" /\ pc' = "review"
      /\ target \in {"plan", "repair-node-02-plan"}
  BY DEF Plan, Save, Moves, Calm, world, run, OwnStep
<1>2. \A f \in PlanFiles : saved'[f] = IF f = PlanPath THEN Planned(Replaced) ELSE saved[f]
  BY DEF Plan, Save, TypeOK
<1>3. config = "accepted" /\ broken = "no" /\ Wedged
  BY <1>1 DEF StaysWedged
<1>4. CASE target = "plan"
  <2>1. saved'["RepairPlanPath"] = saved["RepairPlanPath"]
    BY <1>2, <1>4 DEF PlanPath, PlanFiles
  <2> QED
    BY <1>1, <1>3, <1>4, <2>1, WedgeKept DEF StaysWedged
<1>5. CASE target = "repair-node-02-plan"
  <2>1. saved'["RepairPlanPath"] = Planned(Replaced)
    BY <1>2, <1>5 DEF PlanPath, PlanFiles
  <2>2. \A r : Known(r)' <=> Known(r)
    BY <1>1 DEF Known
  <2>3. Tainted' = Tainted /\ \A S : AllKnown(S)' <=> AllKnown(S)
    BY <1>1, <2>2 DEF Tainted, AllKnown
  <2>4. CASE AllKnown(Resources)
    <3>1. ~(Tainted \subseteq Instances)
      BY <1>1, <1>5, <2>4 DEF StaysWedged
    <3>2. ~Untaintable(Tainted)
      BY <3>1, FirstNodes, HealthyNodes DEF Untaintable
    <3>3. ~Repairable' /\ Tainted # {}
      BY <2>3, <3>1, <3>2, Addressed DEF Repairable, Broken
    <3> QED
      BY <1>1, <1>3, <1>5, <2>3, <2>4, <3>3 DEF StaysWedged, Wedged
  <2>5. CASE ~AllKnown(Resources)
    <3>1. ~AssertReplacement(saved'["RepairPlanPath"])
      BY <2>1, <2>5, PlannedKnown
    <3>2. ~Repairable'
      BY <2>3, <2>5, <3>1 DEF Repairable
    <3>3. \E r \in Resources : Known(r)
      BY <1>3, <2>5 DEF Wedged
    <3> QED
      BY <1>1, <1>3, <1>5, <2>2, <2>3, <2>5, <3>2, <3>3 DEF StaysWedged, Wedged
  <2> QED
    BY <2>4, <2>5
<1> QED
  BY <1>1, <1>4, <1>5

LEMMA ApplyWedged ==
  ASSUME Core, Sound, StaysWedged, Apply, sunk'
  PROVE  StaysWedged'
<1> USE DEF Core
<1>1. /\ sunk /\ UNCHANGED <<target, config, broken, cloud, state, saved, staged>>
      /\ pc = "apply" /\ pc' = "applying"
      /\ todo' = staged.changes /\ staged.fresh /\ target \in {"apply", "repair-node-02-apply"}
  BY DEF Apply, Applied, Moves, Calm, OwnStep, files, world
<1>2. staged # None /\ Asserted(staged) /\ Valid(staged, cloud, state)
  BY <1>1 DEF Staged, Sound, ValidPlans
<1>3. config = "accepted" /\ broken = "no" /\ Wedged
  BY <1>1 DEF StaysWedged
<1>4. /\ Wedged'
      /\ \A S : AllKnown(S)' <=> AllKnown(S)
      /\ \A r : Known(r)' <=> Known(r)
  BY <1>1, <1>3, WedgeKept
<1>5. CASE target = "apply"
  <2>1. \E r \in Resources : Known(r)
    BY <1>3, Addressed DEF Wedged, AllKnown
  <2>2. ~AssertInitial(staged)
    BY <1>1, <1>2, <2>1 DEF AssertInitial, Valid, Known
  <2>3. DOMAIN todo' = {}
    BY <1>1, <1>2, <1>5, <2>2 DEF Asserted, AssertNoDrift, NoChange
  <2> QED
    BY <1>1, <1>3, <1>4, <1>5, <2>3 DEF StaysWedged
<1>6. CASE target = "repair-node-02-apply"
  <2>1. AssertReplacement(staged) /\ staged = saved["RepairPlanPath"]
    BY <1>1, <1>2, <1>6 DEF Asserted, StaysWedged
  <2>2. \A r \in Resources \ {Broken} : state[r] = "ok"
    BY <1>1, <1>2, <2>1 DEF Valid
  <2>3. Tainted \subseteq {Broken}
    BY <2>2 DEF Tainted
  <2>4. ~AllKnown(Resources \ {Broken})
    <3> SUFFICES ASSUME AllKnown(Resources \ {Broken}) PROVE FALSE
      OBVIOUS
    <3>1. Repairable
      BY <1>1, <1>2, <2>1, <2>3 DEF Repairable, Broken
    <3> QED
      BY <1>3, <2>2, <3>1, Addressed DEF Wedged
  <2>5. Known(Key)
    BY <2>2, Addressed DEF Sound, Stack, Kept, Known
  <2> QED
    BY <1>1, <1>3, <1>4, <1>6, <2>4, <2>5 DEF StaysWedged
<1> QED
  BY <1>1, <1>5, <1>6

LEMMA UntaintWedged ==
  ASSUME Core, Sound, StaysWedged, Untaint, sunk'
  PROVE  StaysWedged'
<1> USE DEF Core
<1>1. /\ sunk /\ UNCHANGED <<target, config, broken, cloud>> /\ pc = "untaint" /\ pc' = "untaint"
      /\ next' = next + 1 /\ StateWritten
  BY DEF Untaint, Moves, Calm
<1>2. config = "accepted" /\ broken = "no" /\ Wedged
  BY <1>1 DEF StaysWedged
<1>3. /\ \A r \in Resources : state'[r] = IF r = This THEN "ok" ELSE state[r]
      /\ state[This] = "tainted" /\ This \in Instances
  BY UntaintSound
<1>4. next \in 1..Len(Healthy) /\ next' - 1 = next
  <2>1. next \in 1..(Len(Healthy) + 1) /\ next <= Len(Healthy)
    BY Zenon DEF Untaint, TypeOK
  <2> QED
    BY <1>1, <2>1, HealthyNodes
<1>5. This \in Tainted /\ Tainted' = Tainted \ {This}
  BY <1>3, Addressed DEF Tainted
<1>6. First(next) = First(next - 1) \cup {This}
  BY <1>4, FirstNodes DEF This
<1>7. Tainted' \cup First(next) = Tainted \cup First(next - 1)
  BY <1>5, <1>6
<1>8. \A r \in Resources : Known(r)' <=> Known(r)
  BY <1>1, <1>3, Addressed DEF Known
<1>9. /\ AllKnown(Resources)' <=> AllKnown(Resources)
      /\ AllKnown(Resources \ {Broken})' <=> AllKnown(Resources \ {Broken})
  BY <1>8 DEF AllKnown
<1>10. saved'["RepairPlanPath"] # None => ~saved'["RepairPlanPath"].fresh
  BY <1>1, WrittenTyped DEF PlanFiles
<1>11. CASE AllKnown(Resources)
  <2>1. ~Untaintable(Tainted' \cup First(next))
    BY <1>1, <1>7, <1>11 DEF StaysWedged
  <2>2. ~Untaintable(Tainted') /\ Tainted' # {}
    BY <1>4, <2>1, UntaintableMore
  <2>3. ~Repairable'
    BY <1>10, <2>2 DEF Repairable
  <2> QED
    BY <1>1, <1>2, <1>4, <1>9, <1>11, <2>1, <2>2, <2>3 DEF StaysWedged, Wedged
<1>12. CASE ~AllKnown(Resources)
  <2>1. ~Repairable'
    BY <1>9, <1>10, <1>12 DEF Repairable
  <2>2. \E r \in Resources : Known(r)'
    BY <1>2, <1>8, <1>12 DEF Wedged
  <2> QED
    BY <1>1, <1>2, <1>9, <1>12, <2>1, <2>2 DEF StaysWedged, Wedged
<1> QED
  BY <1>11, <1>12

LEMMA WedgedStep ==
  ASSUME Core, Sound, StaysWedged, [Next]_vars
  PROVE  StaysWedged'
<1> USE DEF Core
<1> SUFFICES ASSUME sunk' PROVE StaysWedged'
  BY DEF StaysWedged
<1>1. CASE \E t \in Targets : Start(t)
  <2>1. /\ Wedged /\ config = "accepted" /\ pc \in Ended
        /\ UNCHANGED <<config, cloud, state, saved, broken>>
        /\ pc' \notin {"untaint", "applying", "review", "before", "apply"}
           \/ (pc' = "before" /\ target' = "repair-node-02-plan")
        /\ pc' = "plan" => target' = "plan"
    BY <1>1 DEF Start, FirstStep, Targets, files, run, world
  <2> QED
    BY <2>1, WedgeKept DEF StaysWedged, Fresh
<1>2. ASSUME UNCHANGED <<config, cloud, state, saved, sunk, broken>>,
             pc' \notin {"untaint", "plan", "review", "before", "apply", "applying"}
      PROVE  StaysWedged'
  BY <1>2, WedgeKept DEF StaysWedged
<1>3. ASSUME NEW step, NEW outcome \in Ended, End(step, outcome),
             UNCHANGED <<cloud, state, saved, sunk>>
      PROVE  StaysWedged'
  BY <1>3, WedgeKept DEF StaysWedged, End, Moves, Ended
<1>4. CASE Finishes \/ BackupState \/ BackupRescue
  BY <1>3, <1>4 DEF Finishes, Ends, BackupState, BackupRescue, Calm, world, Ended
<1>5. CASE GoesOn
  <2>1. /\ sunk /\ UNCHANGED <<target, config, cloud, state, saved, staged, sunk, broken, next>>
        /\ pc' \notin {"review", "applying"}
    BY <1>5 DEF GoesOn, Checked, Moves, Calm, files, run, world
  <2>2. /\ config = "accepted" /\ broken = "no" /\ Wedged /\ Wedged' /\ Tainted' = Tainted
        /\ \A S : AllKnown(S)' <=> AllKnown(S)
    BY <2>1, WedgeKept DEF StaysWedged
  <2>3. CASE pc' = "untaint"
    <3>1. next = 1
      BY <1>5, <2>3 DEF GoesOn, Checked, Moves, Fresh
    <3>2. Tainted \cup First(next - 1) = Tainted
      BY <3>1, FirstNodes
    <3>3. AllKnown(Resources) => ~Untaintable(Tainted)
      BY <2>2 DEF Wedged, Repairable
    <3> QED
      BY <2>1, <2>2, <2>3, <3>2, <3>3 DEF StaysWedged
  <2>4. CASE pc' = "plan"
    <3>1. pc = "untaint" /\ next > Len(Healthy)
      BY <1>5, <2>4 DEF GoesOn, Checked, Moves
    <3>2. next - 1 = Len(Healthy)
      <4>1. next \in 1..(Len(Healthy) + 1)
        BY DEF TypeOK
      <4> QED
        BY <3>1, <4>1, HealthyNodes
    <3>3. AllKnown(Resources) => ~(Tainted \subseteq Instances)
      BY <2>1, <3>1, <3>2, FirstNodes, HealthyNodes DEF StaysWedged, Untaintable
    <3> QED
      BY <2>1, <2>2, <2>4, <3>3 DEF StaysWedged
  <2>5. CASE pc' \in {"before", "apply"}
    <3>1. pc = "review"
      BY <1>5, <2>5 DEF GoesOn, Checked, Moves
    <3> QED
      BY <2>1, <2>2, <2>5, <3>1 DEF StaysWedged
  <2> QED
    BY <1>2, <2>1, <2>3, <2>4, <2>5
<1>16. CASE TerraformDone
  <2>1. /\ sunk /\ UNCHANGED <<config, cloud, state, sunk, broken>> /\ pc' = "backup"
        /\ StateWritten \/ UNCHANGED saved
    BY <1>16, DoneKeeps DEF Calm
  <2>2. CASE UNCHANGED saved
    BY <1>2, <2>1, <2>2
  <2>3. CASE StateWritten
    BY <2>1, <2>3, StaleWedged DEF StaysWedged
  <2> QED
    BY <2>1, <2>2, <2>3
<1>6. CASE Works
  BY <1>6, WorksWedged
<1>7. CASE Plan
  BY <1>7, PlanWedged
<1>8. CASE RollbackPlan
  <2>1. /\ UNCHANGED <<target, config, cloud, state, sunk, broken>> /\ pc' = "review"
        /\ target = "lifecycle-check" /\ saved'["RepairPlanPath"] = saved["RepairPlanPath"]
    BY <1>8 DEF RollbackPlan, Save, Moves, Calm, world, run, OwnStep, PlanPath, PlanFiles, TypeOK
  <2> QED
    BY <2>1, WedgeKept DEF StaysWedged
<1>9. CASE Stage
  <2>1. /\ UNCHANGED <<target, config, cloud, state, saved, sunk, broken>> /\ pc' = "review"
        /\ staged' = saved[PlanPath] /\ target \in {"apply", "repair-node-02-apply"}
    BY <1>9 DEF Stage, Moves, Calm, world, run, OwnStep
  <2> QED
    BY <2>1, WedgeKept DEF StaysWedged, PlanPath
<1>10. CASE Apply
  BY <1>10, ApplyWedged
<1>11. CASE Destroy
  <2>1. /\ UNCHANGED <<target, config, cloud, state, saved, sunk, broken>> /\ pc' = "applying"
        /\ target = "destroy"
    BY <1>11 DEF Destroy, Moves, Calm, world, files, OwnStep
  <2> QED
    BY <2>1, WedgeKept DEF StaysWedged
<1>12. CASE Untaint
  BY <1>12, UntaintWedged
<1>13. CASE BackupBefore
  <2>1. /\ UNCHANGED <<target, config, cloud, state, saved, staged, sunk, broken>>
        /\ pc = "before" /\ pc' \in {"addresses", "apply"}
    BY <1>13 DEF BackupBefore, Moves, Calm, world, files, run
  <2> QED
    BY <2>1, WedgeKept DEF StaysWedged
<1>14. CASE Trouble
  <2>1. CASE Fails \/ \E f, g \in PlanFiles : Mixup(f, g)
    BY <2>1 DEF Fails, Mixup, Faulty
  <2>2. CASE Killed
    BY <2>2 DEF Killed, Calm, Faulty, StaysWedged
  <2>3. CASE \E shape \in Shapes : Edit(shape)
    BY <2>3 DEF Edit, Calm, Faulty, StaysWedged, Shapes
  <2> QED
    BY <1>14, <2>1, <2>2, <2>3 DEF Trouble
<1>15. CASE UNCHANGED vars
  <2>1. UNCHANGED <<pc, target, config, cloud, state, saved, staged, sunk, broken, next, todo>>
    BY <1>15 DEF vars, files, run, world
  <2> QED
    BY <2>1, WedgeKept DEF StaysWedged
<1> QED
  BY <1>1, <1>4, <1>5, <1>6, <1>7, <1>8, <1>9, <1>10, <1>11, <1>12, <1>13, <1>14, <1>15,
     <1>16, ScriptKinds DEF Next

(***************************************************************************)
(* A run that starts in one of the named states and meets no further       *)
(* trouble ends in one of them, whatever its target.                       *)
(***************************************************************************)
THEOREM WedgesAreLast == Spec => []WedgesLast
<1>1. Init => StaysWedged
  BY DEF Init, StaysWedged
<1>2. Core /\ Sound /\ StaysWedged /\ [Next]_vars => StaysWedged'
  BY WedgedStep
<1>3. StaysWedged => WedgesLast
  BY DEF StaysWedged, WedgesLast
<1> QED
  BY <1>1, <1>2, <1>3, CoreInvariant, SoundInvariant, PTL DEF Spec
=============================================================================
