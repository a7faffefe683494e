------------------------------ MODULE ReviewedPlan ------------------------------
(***************************************************************************)
(* What the targets of scripts/infra/phase2.ps1 do to the cloud, inside    *)
(* the boundary of module SealedState, which admits one run at a time and  *)
(* hands it the newest Terraform state: saved plans, their judgement by    *)
(* assert-plan.py, the staged copy an apply works from, the repair of one  *)
(* node, the compute rollback, the backups and the cost reconciliation.    *)
(* A run may fail or be killed at any step; the files it leaves and the    *)
(* state Terraform wrote are what the next run finds.  Terraform and its   *)
(* provider are external.                                                  *)
(***************************************************************************)
EXTENDS Naturals, Sequences, FiniteSets

CONSTANTS
  Nodes,     \* keys of the node map
  Repaired,  \* the node the repair targets may replace
  Healthy,   \* the others, in the order the repair untaints them
  None,      \* no plan
  Faults,    \* which of FaultKinds happen
  MaxFaults  \* bound on their number

FaultKinds ==
  { "provider", \* an operation of the provider fails, half done or done unnoticed
    "fail",     \* any other command fails
    "crash",    \* the run and its Terraform are killed
    "mixup",    \* a saved plan is copied over another one
    "edit" }    \* somebody edits the node map

Volume(n) == <<"volume", n>>
Instance(n) == <<"instance", n>>
Key == <<"key", None>>
Volumes == {Volume(n) : n \in Nodes}
Instances == {Instance(n) : n \in Nodes}
Resources == {Key} \cup Volumes \cup Instances

ASSUME ReviewedPlanAssumption ==
  /\ IsFiniteSet(Nodes) /\ Repaired \in Nodes /\ None \notin Nodes
  /\ Healthy \in Seq(Nodes \ {Repaired})
  /\ Faults \subseteq FaultKinds /\ MaxFaults \in Nat

\* One target per control path that does something here; inventory, verify-hosts
\* and init only read.
Targets == { "plan", "apply", "repair-node-02-plan", "repair-node-02-apply",
  "lifecycle-check", "cost-report", "state-audit", "destroy" }
Writers == {"apply", "repair-node-02-plan", "repair-node-02-apply", "state-audit", "destroy"}
PlanFiles == {"PlanPath", "RepairPlanPath", "RollbackPlanPath"}

VARIABLES
  pc,      \* next step of the run
  target,  \* of the present or last run
  saved,   \* the saved plans
  staged,  \* the private copy an apply works from
  next,    \* how many nodes the repair has untainted, plus one
  todo,    \* operations Terraform has left
  broken,  \* how operations of this Terraform run fail
  config,  \* machine type in the node map
  cloud,   \* the object behind each address of the state: none, or its machine type
  state,   \* Terraform's state: no entry, good or tainted
  orphans, \* resources of which the cloud has an object the state does not know
  output,  \* the nodes of Terraform's stored output `nodes`
  backup,  \* the newest backup: of an older or of the present state
  writer,  \* history: target that changed the state last, "stopped" if it was cut off
  sunk,    \* history: the run started in a wedge, and met no trouble since
  faults

files == <<saved, staged>>
run == <<next, todo, broken>>
world == <<cloud, state, orphans, output>>
vars == <<pc, target, files, run, config, world, backup, writer, sunk, faults>>

Ended == {"idle", "pass", "fail", "stopped"}
Steps == { "plan", "stage", "review", "before", "addresses", "untaint", "apply", "applying",
  "backup", "rescue", "reject", "rollback", "reconcile", "destroy" }
Actions == {"create", "replace", "update", "delete"}
Shapes == {"accepted", "other"}
Outcomes == {"nothing", "tainted", "lost"}
NoChange == [r \in {} |-> "none"]
AppliedPlan == [changes |-> NoChange, shape |-> "accepted", fresh |-> FALSE] \* see Stale

IsPlan(p) ==
  /\ DOMAIN p = {"changes", "shape", "fresh"}
  /\ DOMAIN p.changes \subseteq Resources
  /\ \A r \in DOMAIN p.changes : p.changes[r] \in Actions
  /\ p.shape \in Shapes /\ p.fresh \in BOOLEAN

TypeOK ==
  /\ pc \in Ended \cup Steps
  /\ target \in Targets
  /\ DOMAIN saved = PlanFiles
  /\ \A f \in PlanFiles : saved[f] = None \/ IsPlan(saved[f])
  /\ staged = None \/ (IsPlan(staged) /\ pc \notin Ended)
  /\ next \in 1..(Len(Healthy) + 1)
  /\ DOMAIN todo \subseteq Resources /\ \A r \in DOMAIN todo : todo[r] \in Actions
  /\ broken \in Outcomes \cup {"no"} /\ config \in Shapes
  /\ cloud \in [Resources -> Shapes \cup {"none"}]
  /\ state \in [Resources -> {"none", "ok", "tainted"}]
  /\ orphans \subseteq Resources /\ output \subseteq Nodes
  /\ backup \in {"no state", "behind", "current"}
  /\ writer \in Targets \cup {"none", "stopped"}
  /\ sunk \in BOOLEAN /\ faults \in 0..MaxFaults

\* Nothing yet, or what the first apply left: the provider reported an inconsistent
\* result for every instance it had created (provider-runtime-findings.md), after
\* Terraform had got to its outputs or before.
Init ==
  /\ pc = "idle" /\ target = "plan"
  /\ staged = None /\ next = 1 /\ todo = NoChange /\ broken = "no"
  /\ config = "accepted"
  /\ \/ /\ saved = [f \in PlanFiles |-> None]
        /\ cloud = [r \in Resources |-> "none"] /\ state = [r \in Resources |-> "none"]
        /\ output = {} /\ backup = "no state" /\ writer = "none"
     \/ /\ saved = [f \in PlanFiles |-> IF f = "PlanPath" THEN AppliedPlan ELSE None]
        /\ cloud = [r \in Resources |-> "accepted"]
        /\ state = [r \in Resources |-> IF r \in Instances THEN "tainted" ELSE "ok"]
        /\ output \in {{}, Nodes} /\ backup = "behind" /\ writer = "apply"
  /\ orphans = {} /\ sunk = FALSE /\ faults = 0

------------------------------------------------------------------------------
\* assert-plan.py

\* Mutant: the resources are not counted.
AssertInitialUncounted(plan) ==
  /\ \A r \in DOMAIN plan.changes : plan.changes[r] = "create"
  /\ plan.shape = "accepted"

\* The whole stack, created, in the accepted shape.
AssertInitial(plan) ==
  /\ DOMAIN plan.changes = Resources
  /\ \A r \in Resources : plan.changes[r] = "create"
  /\ plan.shape = "accepted"

AssertNoDrift(plan) == plan.changes = NoChange

AssertComputeRollback(plan) ==
  /\ DOMAIN plan.changes = Instances
  /\ \A r \in Instances : plan.changes[r] = "delete"
  /\ plan.shape = "accepted"

\* Exactly one change: the replacement of the repaired node.
AssertReplacement(plan) ==
  /\ DOMAIN plan.changes = {Instance(Repaired)}
  /\ plan.changes[Instance(Repaired)] = "replace"
  /\ plan.shape = "accepted"

\* Mutant: plan and apply ask for no drift.
AssertedNoDrift(plan) ==
  CASE target \in {"plan", "apply"} -> AssertNoDrift(plan)
    [] target = "lifecycle-check" -> AssertComputeRollback(plan)
    [] OTHER -> AssertReplacement(plan)

\* build_summary with the mode each target asks for
Asserted(plan) ==
  CASE target \in {"plan", "apply"} -> AssertNoDrift(plan) \/ AssertInitial(plan)
    [] target = "lifecycle-check" -> AssertComputeRollback(plan)
    [] OTHER -> AssertReplacement(plan)

------------------------------------------------------------------------------
\* Terraform, as far as the script relies on it

\* A refresh drops from the state what the cloud no longer has.
Known(r) == state[r] # "none" /\ cloud[r] # "none"

\* An instance needs the key and its data volume, by their identifiers.
Needs(r) == IF r \in Instances THEN {Key, Volume(r[2])} ELSE {}

\* terraform plan [-replace=...]
Planned(replaced) ==
  LET new     == {r \in Resources : ~Known(r)}
      renewed == {r \in Resources \ new : state[r] = "tainted" \/ r \in replaced}
      changed == {r \in Instances \ (new \cup renewed) :
                    cloud[r] # config \/ Needs(r) \cap (new \cup renewed) # {}}
  IN [changes |-> [r \in new \cup renewed \cup changed |->
                     IF r \in new THEN "create" ELSE IF r \in renewed THEN "replace" ELSE "update"],
      shape |-> config, fresh |-> TRUE]

\* prevent_destroy: no plan may delete a data volume.
Preventable(plan) ==
  \E v \in Volumes \cap DOMAIN plan.changes : plan.changes[v] \in {"replace", "delete"}

\* terraform plan -destroy [-target=module.management.module.node]
Destroying(S) ==
  [changes |-> [r \in {s \in S : Known(s)} |-> "delete"],
   shape |-> IF \A r \in S : Known(r) => cloud[r] = "accepted" \/ r \notin Instances
               THEN "accepted" ELSE "other",
   fresh |-> TRUE]

\* The state file is written, and with it its serial: Terraform refuses every plan
\* made before, whatever it says.  Only whether the repair backs up first depends
\* on what it says.
Stale(p) ==
  IF p = None THEN None
  ELSE [changes |-> IF AssertReplacement(p) THEN p.changes ELSE NoChange,
        shape |-> p.shape, fresh |-> FALSE]

StateWritten ==
  /\ saved' = [f \in PlanFiles |-> Stale(saved[f])]
  /\ backup' = "behind"
  /\ writer' = target

------------------------------------------------------------------------------
\* Leaving a step

Calm == UNCHANGED <<sunk, faults>>
Faulty(kind) ==
  kind \in Faults /\ faults < MaxFaults /\ faults' = faults + 1 /\ sunk' = FALSE

Moves(from, to) == pc = from /\ pc' = to /\ UNCHANGED <<target, config>>

\* A step that only reads.
Checked(from, to) ==
  Moves(from, to) /\ Calm /\ UNCHANGED <<files, run, world, backup, writer>>

\* Mutant: the staged copy is left behind.
EndKeepsStaged(step, outcome) ==
  /\ Moves(step, outcome) /\ UNCHANGED staged
  /\ next' = 1 /\ todo' = NoChange /\ broken' = "no"

\* The process ends and removes its staged copy.
End(step, outcome) ==
  /\ Moves(step, outcome)
  /\ staged' = None /\ next' = 1 /\ todo' = NoChange /\ broken' = "no"

Ends(step, outcome) ==
  End(step, outcome) /\ Calm /\ UNCHANGED <<saved, world, backup, writer>>

Refuse(step) == Ends(step, "fail")

------------------------------------------------------------------------------
\* Where a run leaves the stack

Tainted == {r \in Resources : state[r] = "tainted"}
Complete == config = "accepted" /\ Tainted = {} /\ \A r \in Resources : cloud[r] = "accepted"

AllKnown(S) == \A r \in S : Known(r)

\* The first k healthy nodes.
First(k) == {Instance(Healthy[i]) : i \in 1..k}

\* The repair targets untaint all the healthy nodes, or the first of them before they
\* fail and leave no other tainted ...
Untaintable(S) ==
  \/ S \subseteq Instances /\ First(Len(Healthy)) \subseteq S
  \/ \E k \in 1..Len(Healthy) : S = First(k)

\* ... or a repair plan is still good.
Repairable ==
  \/ AllKnown(Resources) /\ Untaintable(Tainted)
  \/ /\ AllKnown(Resources \ {Instance(Repaired)}) /\ Tainted \subseteq {Instance(Repaired)}
     /\ saved["RepairPlanPath"] # None
     /\ saved["RepairPlanPath"].fresh /\ AssertReplacement(saved["RepairPlanPath"])

\* Nothing the script offers gets out of these.
Wedged ==
  \/ config = "other"
  \/ /\ ~Repairable
     /\ \/ (\E r \in Resources : Known(r)) /\ ~AllKnown(Resources)
        \/ AllKnown(Resources) /\ Tainted # {}

------------------------------------------------------------------------------
\* The targets

FirstStep ==
  [ t \in Targets |->
      CASE t = "plan" -> "plan"
        [] t \in {"apply", "repair-node-02-apply"} -> "stage"
        [] t = "repair-node-02-plan" -> "before"
        [] t = "lifecycle-check" -> "reject"
        [] t = "cost-report" -> "reconcile"
        [] t = "state-audit" -> "backup"
        [] t = "destroy" -> "destroy" ]

\* The boundary is open, contract and credentials are checked, Terraform is
\* initialized; what may fail there changes nothing.
Start(t) ==
  /\ pc \in Ended
  /\ pc' = FirstStep[t] /\ target' = t
  /\ sunk' = (Wedged /\ config = "accepted")
  /\ UNCHANGED <<files, run, config, world, backup, writer, faults>>

\* $paths.PlanPath as the target sets it
PlanPath ==
  CASE target \in {"plan", "apply"} -> "PlanPath"
    [] target = "lifecycle-check" -> "RollbackPlanPath"
    [] OTHER -> "RepairPlanPath"

Save(from, plan) ==
  /\ Moves(from, "review") /\ Calm
  /\ saved' = [saved EXCEPT ![PlanPath] = plan]
  /\ UNCHANGED <<staged, run, world, backup, writer>>

\* -replace of the repair
Replaced == IF target = "repair-node-02-plan" THEN {Instance(Repaired)} ELSE {}

Plan == ~Preventable(Planned(Replaced)) /\ Save("plan", Planned(Replaced))
PlanRefused == Preventable(Planned(Replaced)) /\ Refuse("plan")

\* New-StagedReviewedPlan: a private copy, open and locked until the run ends.
Stage ==
  /\ saved[PlanPath] # None
  /\ Moves("stage", "review") /\ Calm
  /\ staged' = saved[PlanPath]
  /\ UNCHANGED <<saved, run, world, backup, writer>>

NoPlan == saved[PlanPath] = None /\ Refuse("stage")

\* The plan a target has judged: the one it made, or the staged copy.
Reviewed == IF staged # None THEN staged ELSE saved[PlanPath]

AfterReview ==
  CASE target \in {"plan", "lifecycle-check"} -> "pass"
    [] target = "apply" -> "apply"
    [] target = "repair-node-02-plan" -> "backup"
    [] target = "repair-node-02-apply" -> "before"

Review ==
  /\ pc = "review" /\ Asserted(Reviewed)
  /\ IF AfterReview = "pass" THEN Ends("review", "pass") ELSE Checked("review", AfterReview)

RefusePlan == pc = "review" /\ ~Asserted(Reviewed) /\ Refuse("review")

\* Mutant: the file is applied, not the copy that was judged.
AppliedFromPath == saved[PlanPath]

\* Open-VerifiedStagedPlanPath: the bytes that were judged.
Applied == staged

\* terraform apply refuses a plan of an older state.
Apply ==
  /\ pc = "apply" /\ Applied.fresh
  /\ Moves("apply", "applying") /\ Calm
  /\ todo' = Applied.changes
  /\ UNCHANGED <<files, next, broken, world, backup, writer>>

\* The finally block around the repair's apply backs up what there is.
AfterFailure ==
  IF target = "repair-node-02-apply" THEN Checked("apply", "rescue") ELSE Refuse("apply")

StalePlan == pc = "apply" /\ ~Applied.fresh /\ AfterFailure

\* terraform destroy -target=module.management.module.node
Destroy ==
  /\ Moves("destroy", "applying") /\ Calm
  /\ todo' = Destroying(Instances).changes
  /\ UNCHANGED <<files, next, broken, world, backup, writer>>

------------------------------------------------------------------------------
\* Operations of the provider, in any order their dependencies allow

Shape == IF staged = None THEN config ELSE staged.shape

Ready(r) ==
  /\ pc = "applying" /\ r \in DOMAIN todo
  /\ todo[r] = "create" => \A s \in Needs(r) : state[s] = "ok" /\ s \notin DOMAIN todo

Without(r) == [s \in DOMAIN todo \ {r} |-> todo[s]]

Operation(r) ==
  /\ Ready(r)
  /\ CASE todo[r] = "create" ->
            /\ cloud' = [cloud EXCEPT ![r] = Shape] /\ state' = [state EXCEPT ![r] = "ok"]
            /\ orphans' = IF cloud[r] = "none" THEN orphans ELSE orphans \cup {r}
            /\ todo' = Without(r)
       [] todo[r] = "replace" ->
            /\ cloud' = [cloud EXCEPT ![r] = "none"] /\ state' = [state EXCEPT ![r] = "none"]
            /\ todo' = [todo EXCEPT ![r] = "create"]
            /\ UNCHANGED orphans
       [] todo[r] = "delete" ->
            /\ cloud' = [cloud EXCEPT ![r] = "none"] /\ state' = [state EXCEPT ![r] = "none"]
            /\ todo' = Without(r)
            /\ UNCHANGED orphans
       [] todo[r] = "update" ->
            /\ cloud' = [cloud EXCEPT ![r] = Shape] /\ todo' = Without(r)
            /\ UNCHANGED <<state, orphans>>
  /\ StateWritten
  /\ Moves("applying", "applying") /\ Calm
  /\ UNCHANGED <<staged, next, broken, output>>

\* An operation fails: it did nothing, or a creation left a tainted entry
\* ("Provider produced inconsistent result after apply") or an object nobody
\* noted, or a deletion was done and not noted.  What depends on it is skipped;
\* others may fail of the same cause.
OperationFails(r, how) ==
  /\ Ready(r)
  /\ CASE how = "nothing" -> UNCHANGED world
       [] how = "tainted" ->
            /\ todo[r] = "create"
            /\ cloud' = [cloud EXCEPT ![r] = Shape] /\ state' = [state EXCEPT ![r] = "tainted"]
            /\ UNCHANGED orphans
       [] how = "lost" ->
            /\ cloud' = [cloud EXCEPT ![r] = IF todo[r] = "create" THEN @ ELSE "none"]
            /\ orphans' = IF todo[r] = "create" THEN orphans \cup {r} ELSE orphans
            /\ UNCHANGED state
  /\ IF state' = state THEN UNCHANGED <<saved, backup, writer>> ELSE StateWritten
  /\ todo' = Without(r)
  /\ Moves("applying", "applying")
  /\ broken' = how
  /\ IF broken = how THEN Calm ELSE broken = "no" /\ Faulty("provider")
  /\ UNCHANGED <<staged, next, output>>

\* The output lists every node of the map.  It waits for all the instances, so an
\* apply that fails keeps the stored one; a targeted destroy may drop it.  A run
\* without operations writes the state if its output is another one.
OutputsAfter == IF target = "destroy" THEN {output, {}} ELSE {Nodes}

TerraformDone ==
  /\ DOMAIN todo = {} /\ broken = "no"
  /\ Moves("applying", "backup") /\ Calm
  /\ output' \in OutputsAfter
  /\ IF output' = output THEN UNCHANGED <<saved, backup, writer>> ELSE StateWritten
  /\ UNCHANGED <<staged, run, cloud, state, orphans>>

TerraformFails ==
  /\ broken # "no" /\ \A r \in DOMAIN todo : ~Ready(r)
  /\ IF target = "repair-node-02-apply" THEN Checked("applying", "rescue") ELSE Refuse("applying")

Terraform ==
  (\E r \in Resources : Operation(r) \/ \E how \in Outcomes : OperationFails(r, how)) \/ TerraformDone \/ TerraformFails

------------------------------------------------------------------------------
\* Backups, the repair of a node, the rollback plan, the cost report

\* Backup-State throws without a state.
NoState == backup = "no state" /\ \E step \in {"before", "backup"} : Refuse(step)

BackupBefore ==
  /\ backup # "no state" /\ backup' = "current"
  /\ Moves("before", IF target = "repair-node-02-plan" THEN "addresses" ELSE "apply")
  /\ Calm /\ UNCHANGED <<files, run, world, writer>>

BackupState ==
  /\ backup # "no state" /\ backup' = "current"
  /\ End("backup", "pass") /\ Calm /\ UNCHANGED <<saved, world, writer>>

\* Mutant: a failed apply of the repair is not backed up.
BackupRescueSkipped == Ends("rescue", "fail")

\* In `finally`: the error that led here is thrown on.
BackupRescue ==
  /\ backup' = IF backup = "no state" THEN backup ELSE "current"
  /\ End("rescue", "fail") /\ Calm /\ UNCHANGED <<saved, world, writer>>

\* terraform state list gives exactly the addresses of the contract.
SevenAddresses == \A r \in Resources : state[r] # "none"
Addresses == SevenAddresses /\ Checked("addresses", "untaint")
AddressesDiffer == ~SevenAddresses /\ Refuse("addresses")

This == Instance(Healthy[next])

\* terraform untaint fails on an entry that is not tainted.
Untaint ==
  /\ next <= Len(Healthy) /\ state[This] = "tainted"
  /\ state' = [state EXCEPT ![This] = "ok"]
  /\ next' = next + 1
  /\ StateWritten
  /\ Moves("untaint", "untaint") /\ Calm
  /\ UNCHANGED <<staged, todo, broken, cloud, orphans, output>>

NotTainted == next <= Len(Healthy) /\ state[This] # "tainted" /\ Refuse("untaint")
Untainted == next > Len(Healthy) /\ Checked("untaint", "plan")

\* A full destroy must be rejected by prevent_destroy.
FullDestroyRejected == Preventable(Destroying(Resources)) /\ Checked("reject", "rollback")
FullDestroyAccepted == ~Preventable(Destroying(Resources)) /\ Refuse("reject")

RollbackPlan == Save("rollback", Destroying(Instances))

\* What the provider reports, and bills.
Objects(S) == Cardinality({r \in S : cloud[r] # "none"}) + Cardinality(orphans \cap S)

\* Mutant: the number of instances alone.
CountsInstances == Objects(Instances) = Cardinality(Nodes)

\* Three instances, six volumes with the instances' own, and the rate of as many
\* nodes as Terraform's stored output has prices of.
CountsAndRate ==
  /\ Objects(Instances) = Cardinality(Nodes)
  /\ Objects(Volumes) + Objects(Instances) = 2 * Cardinality(Nodes)
  /\ Objects(Instances) = Cardinality(output)

CostReport == CountsAndRate /\ Ends("reconcile", "pass")
CostReportFails == ~CountsAndRate /\ Refuse("reconcile")

Script ==
  \/ Plan \/ PlanRefused \/ Stage \/ NoPlan \/ Review \/ RefusePlan
  \/ Apply \/ StalePlan \/ Destroy \/ Terraform
  \/ NoState \/ BackupBefore \/ BackupState \/ BackupRescue
  \/ Addresses \/ AddressesDiffer \/ Untaint \/ NotTainted \/ Untainted
  \/ FullDestroyRejected \/ FullDestroyAccepted \/ RollbackPlan
  \/ CostReport \/ CostReportFails

------------------------------------------------------------------------------
\* What goes wrong

Cut == IF backup = "behind" THEN writer' = "stopped" ELSE UNCHANGED writer

\* Any other command of the run fails; so may the backup in `finally`.  A repair whose
\* first backup fails gets there too, one that fails earlier does not.
Fails ==
  /\ pc \notin Ended \cup {"applying"}
  /\ \/ /\ pc \in {"before", "apply"} /\ target = "repair-node-02-apply"
        /\ Moves(pc, "rescue") /\ UNCHANGED <<files, run, writer>>
     \/ pc \in {"backup", "rescue"} /\ End(pc, "stopped") /\ Cut /\ UNCHANGED saved
     \/ /\ pc \notin {"backup", "rescue"} /\ (pc = "apply" => target # "repair-node-02-apply")
        /\ End(pc, "fail") /\ UNCHANGED <<saved, writer>>
  /\ Faulty("fail")
  /\ UNCHANGED <<world, backup>>

\* With an operation under way its outcome is lost as well (OperationFails).
Killed ==
  /\ pc \notin Ended
  /\ End(pc, "stopped") /\ Cut
  /\ IF broken # "no" THEN Calm ELSE Faulty("crash")
  /\ UNCHANGED <<saved, world, backup>>

Mixup(f, g) ==
  /\ f # g /\ saved[g] # None /\ saved[f] # saved[g]
  /\ saved' = [saved EXCEPT ![f] = saved[g]]
  /\ Faulty("mixup")
  /\ UNCHANGED <<pc, target, staged, run, config, world, backup, writer>>

Edit(shape) ==
  /\ config # shape /\ config' = shape
  /\ IF shape = "accepted" THEN Calm ELSE Faulty("edit")
  /\ UNCHANGED <<pc, target, files, run, world, backup, writer>>

Trouble ==
  \/ Fails \/ Killed
  \/ \E f, g \in PlanFiles : Mixup(f, g)
  \/ \E shape \in Shapes : Edit(shape)

Next == (\E t \in Targets : Start(t)) \/ Script \/ Trouble

Spec == Init /\ [][Next]_vars

\* A started run continues (every command returns); the operator keeps trying
\* each of the targets that could complete the stack.
FairSpec ==
  /\ Spec
  /\ WF_vars(Script)
  /\ SF_vars(Start("plan")) /\ SF_vars(Start("apply"))
  /\ SF_vars(Start("repair-node-02-plan")) /\ SF_vars(Start("repair-node-02-apply"))

------------------------------------------------------------------------------
(***************************************************************************)
(* What each target may do to the cloud, whichever plan files were copied  *)
(* over each other, whatever older runs left, and whenever the node map    *)
(* was edited: an apply works from a copy that passed the review and only  *)
(* creates what was not there, in the accepted shape; a repair works from  *)
(* such a copy and only takes down or creates the repaired instance; the   *)
(* destroy only deletes instances; no other target changes anything.  An   *)
(* object the state does not know appears only by an error of the          *)
(* provider.  "Only from a reviewed saved plan" (architecture.md:31) holds *)
(* of the first two alone: the destroy plans by itself and applies that    *)
(* plan with -auto-approve, unseen by assert-plan.py (phase2.ps1:1471).    *)
(***************************************************************************)
OnlyPromisedChanges ==
  [][ /\ \A r \in Resources : cloud'[r] # cloud[r] =>
           \/ /\ target = "apply" /\ staged # None /\ Asserted(staged)
              /\ cloud[r] = "none" /\ cloud'[r] = "accepted"
           \/ /\ target = "repair-node-02-apply" /\ staged # None /\ Asserted(staged)
              /\ r = Instance(Repaired)
           \/ target = "destroy" /\ r \in Instances /\ cloud'[r] = "none"
      /\ orphans' # orphans => broken' = "lost" ]_vars

(***************************************************************************)
(* "Backups were verified immediately before and after mutation"           *)
(* (recovery-and-exit-gates.md:22), said of the repair: its apply begins   *)
(* with the newest backup being of the present state, and when it has      *)
(* ended, well or not, the newest backup is again of what it wrote, unless *)
(* the run was cut off.  Of the other targets that write the state only a  *)
(* successful run ends so: nothing backs up after an apply, a destroy or a *)
(* repair plan that failed half way, although ADR 0012:49-50 asks for a    *)
(* backup after every material change of the state.                        *)
(***************************************************************************)
BackupFollows ==
  /\ pc = "pass" /\ target \in Writers => backup = "current"
  /\ pc = "apply" /\ target = "repair-node-02-apply" => backup = "current"
  /\ pc \in Ended /\ backup = "behind" => writer # "repair-node-02-apply"

(***************************************************************************)
(* "Live cost/resource reconciliation" (Write-LiveCostReport): it counts,  *)
(* and reads prices from an output that a failed apply did not refresh;    *)
(* and yet, after any history of failed and half-noted operations, a run   *)
(* that passes means that Terraform knows every data volume and there is   *)
(* no second one, and that every node has one instance: the one Terraform  *)
(* knows, or one it lost the answer about.  Such a stranger takes the      *)
(* place of the node's own, and the report does not tell the two apart.    *)
(***************************************************************************)
ReconciledOnePerNode ==
  pc = "pass" /\ target = "cost-report" =>
    \A n \in Nodes :
      /\ Known(Volume(n)) /\ Volume(n) \notin orphans
      /\ Known(Instance(n)) # (Instance(n) \in orphans)

(***************************************************************************)
(* An operator who keeps planning, applying and repairing ends with the    *)
(* whole stack, from nothing, after provider errors that tainted it all,   *)
(* after stale and mixed-up plan files and killed runs - or in one of the  *)
(* named states, in which the gate refuses every plan: part of the stack   *)
(* exists (EXPECTED_COUNTS, assert-plan.py:115), or the tainted nodes are  *)
(* not the ones the repair untaints (phase2.ps1:805).                      *)
(***************************************************************************)
OnlyKnownWedges == []<>(pc \in Ended /\ (Complete \/ Wedged))

(* The named states are what they are called: a run of any target that     *)
(* starts in one of them, with the node map as accepted, and meets no      *)
(* further trouble ends in one of them.                                    *)
WedgesLast == pc \in Ended /\ sunk => Wedged
================================================================================
