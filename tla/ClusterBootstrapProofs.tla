------------------------- MODULE ClusterBootstrapProofs -------------------------
(***************************************************************************)
(* Theorems about the two bootstraps of a cluster.  Rke2Bootstrap is       *)
(* extended, for every number of servers, every set of tokens and any      *)
(* number of faults: no token is used before its recovery copy is sealed,  *)
(* all servers carry one lineage, and no drill takes a second member down. *)
(* And of ClusterGitOps, for every set of faults and any number of them:   *)
(* the administrator is never locked out of Argo CD, a successful          *)
(* bootstrap stays one, nothing is handed over unproven.                   *)
(***************************************************************************)
EXTENDS Rke2Bootstrap, ClusterGitOps, FiniteSetTheorems, TLAPS

(***************************************************************************)
(* There are no more members than servers.                                 *)
(***************************************************************************)
LEMMA MembersCounted == Cardinality(Members) \in 0..Servers
<1>1. Members \in SUBSET Nodes
  BY DEF Members
<1>2. /\ IsFiniteSet(Nodes)
      /\ Cardinality(Nodes) = Servers
  BY Rke2BootstrapAssumption, FS_Interval DEF Nodes
<1>3. /\ IsFiniteSet(Members)
      /\ Cardinality(Members) <= Servers
  BY <1>1, <1>2, FS_Subset
<1>4. Cardinality(Members) \in Nat
  BY <1>3, FS_CardinalityType
<1> QED
  BY <1>3, <1>4, Rke2BootstrapAssumption

(***************************************************************************)
(* The hosts Phase 3 leaves have the types of TypeOK.                      *)
(***************************************************************************)
LEMMA TypeInit == Init => TypeOK
<1> SUFFICES ASSUME Init PROVE TypeOK
  OBVIOUS
<1>1. passed \in BOOLEAN /\ ok \in BOOLEAN
  BY Zenon DEF Init
<1>2. active \in [Nodes -> BOOLEAN] /\ joined \in [Nodes -> BOOLEAN]
  BY Zenon DEF Init
<1>3. /\ 1 \in Nodes /\ 0 \in 0..Servers /\ 0 \in 0..MaxFaults
      /\ level \in [Nodes -> Bare..Sysctl]
  BY Rke2BootstrapAssumption DEF Init, Nodes, Bare, Sysctl
<1>4. /\ token \in [Nodes -> Tokens \cup {Absent}]
      /\ svc \in [Nodes -> {"off", "starting", "up"}]
  BY DEF Init
<1>5. archive \in [Nodes -> {"none", "torn", "cut", "whole"}]
  BY DEF Init
<1> QED
  BY <1>1, <1>2, <1>3, <1>4, <1>5 DEF Init, TypeOK

(***************************************************************************)
(* No step breaks the types.                                               *)
(***************************************************************************)
LEMMA TypeStep == TypeOK /\ [Next]_vars => TypeOK'
<1> SUFFICES ASSUME TypeOK, [Next]_vars PROVE TypeOK'
  OBVIOUS
<1> USE Rke2BootstrapAssumption
    DEF TypeOK, Nodes, Steps, Moves, locals, hosts, cluster
<1>1. CASE OpenToken
  BY <1>1 DEF OpenToken, AfterToken
<1>2. CASE SealToken
  BY <1>2 DEF SealToken, AfterToken
<1>3. CASE HostBoundary
  BY <1>3 DEF HostBoundary
<1>4. CASE RefuseHosts
  BY <1>4 DEF RefuseHosts
<1>5. CASE RefuseLineage
  BY <1>5 DEF RefuseLineage
<1>6. CASE PrepareStep
  <2>1. level' = [level EXCEPT ![i] = @ + 1] /\ level[i] \in 0..4 /\ level[i] < 4
    BY <1>6 DEF PrepareStep, Bare, Sysctl
  <2>2. level' \in [Nodes -> Bare..Sysctl]
    BY <2>1 DEF Bare, Sysctl
  <2>3. token' \in [Nodes -> Tokens \cup {Absent}]
    BY <1>6 DEF PrepareStep
  <2>4. pc' \in Steps
    BY <1>6 DEF PrepareStep
  <2>5. archive' \in [Nodes -> {"none", "torn", "cut", "whole"}]
    BY <1>6 DEF PrepareStep
  <2> QED
    BY <1>6, <2>2, <2>3, <2>4, <2>5 DEF PrepareStep
<1>7. CASE Activate
  BY <1>7 DEF Activate
<1>8. CASE PrepareKeeps
  BY <1>8 DEF PrepareKeeps
<1>9. CASE ReadFloor
  <2>1. Cardinality(Members) \in 0..Servers
    BY MembersCounted
  <2>2. floor' \in 0..Servers
    BY <1>9, <2>1 DEF ReadFloor
  <2> QED
    BY <1>9, <2>2 DEF ReadFloor
<1>10. CASE StartServer
  BY <1>10 DEF StartServer, Launched
<1>11. CASE Staged
  BY <1>11 DEF Staged
<1>12. CASE TimesOut
  BY <1>12 DEF TimesOut
<1>13. CASE FullVerification
  BY <1>13 DEF FullVerification
<1>14. CASE RefuseVerification
  BY <1>14 DEF RefuseVerification
<1>15. CASE StopServer
  BY <1>15 DEF StopServer
<1>16. CASE Outage
  <2>1. passed' \in BOOLEAN
    BY <1>16, Zenon DEF Outage
  <2>2. UNCHANGED faults \/ Fault("fail")
    BY <1>16, Zenon DEF Outage
  <2>3. faults' \in 0..MaxFaults
    BY <2>2 DEF Fault
  <2>4. pc' = "restart" /\ UNCHANGED <<target, tok, i, floor, sealed, hosts, cluster, ok>>
    BY <1>16, Zenon DEF Outage
  <2> QED
    BY <2>1, <2>3, <2>4
<1>17. CASE Restart
  BY <1>17 DEF Restart, Fault, Launched
<1>18. CASE Recovered
  BY <1>18 DEF Recovered, Fault
<1>19. CASE Stable
  BY <1>19 DEF Stable
<1>20. CASE StopFails
  <2>1. passed' \in BOOLEAN
    BY <1>20, Zenon DEF StopFails
  <2>2. ok' \in BOOLEAN
    BY <1>20, Zenon DEF StopFails
  <2>3. PICK s \in {svc[i], "off"} : svc' = [svc EXCEPT ![i] = s]
    BY <1>20, Zenon DEF StopFails
  <2>4. svc' \in [Nodes -> {"off", "starting", "up"}]
    BY <2>3
  <2>5. /\ pc' \in Steps \cup {"idle"} /\ target' \in {"bootstrap", "verify"}
        /\ i' \in Nodes /\ floor' \in 0..Servers /\ faults' \in 0..MaxFaults
        /\ tok' \in Tokens \cup {Absent} /\ sealed' \in Tokens \cup {Absent}
        /\ svc' \in [Nodes -> {"off", "starting", "up"}]
        /\ UNCHANGED <<level, archive, token, active, joined>>
    BY <1>20, <2>4 DEF StopFails, Fault
  <2> QED
    BY <2>1, <2>2, <2>5
<1>21. CASE Fail
  BY <1>21 DEF Fail, Fault
<1>22. CASE Crash
  BY <1>22 DEF Crash, Fault
<1>23. CASE LoseToken
  BY <1>23 DEF LoseToken, Fault
<1>24. CASE \E t \in Tokens : GenerateToken(t)
  BY <1>24 DEF GenerateToken
<1>25. CASE \E t \in {"bootstrap", "verify"} : StartRun(t)
  <2>1. passed' \in BOOLEAN
    BY <1>25, Zenon DEF StartRun
  <2>2. ok' \in BOOLEAN
    BY <1>25, Zenon DEF StartRun
  <2>3. /\ pc' \in Steps \cup {"idle"} /\ target' \in {"bootstrap", "verify"}
        /\ i' \in Nodes /\ floor' \in 0..Servers /\ faults' \in 0..MaxFaults
        /\ tok' \in Tokens \cup {Absent} /\ sealed' \in Tokens \cup {Absent}
        /\ svc' \in [Nodes -> {"off", "starting", "up"}]
        /\ UNCHANGED <<level, archive, token, active, joined>>
    BY <1>25 DEF StartRun
  <2> QED
    BY <2>1, <2>2, <2>3
<1>26. CASE \E n \in Nodes : ServerRuns(n)
  BY <1>26 DEF ServerRuns
<1>27. CASE UNCHANGED vars
  BY <1>27 DEF vars
<1>28. CASE NoSysctlFile
  BY <1>28 DEF NoSysctlFile
<1>29. CASE CutArchive
  BY <1>29 DEF CutArchive, Fault, Bare, Paths, Binary, Config, Sysctl
<1> QED
  BY <1>1, <1>2, <1>3, <1>4, <1>5, <1>6, <1>7, <1>8, <1>9, <1>10,
     <1>11, <1>12, <1>13, <1>14, <1>15, <1>16, <1>17, <1>18, <1>19, <1>20,
     <1>21, <1>22, <1>23, <1>24, <1>25, <1>26, <1>27, <1>28, <1>29
     DEF Next, Run, Prepare, Drills

(***************************************************************************)
(* Type correctness of every run of phase4.ps1.                            *)
(***************************************************************************)
THEOREM TypeCorrect == Spec => []TypeOK
<1>1. Init => TypeOK
  BY TypeInit
<1> QED
  BY <1>1, TypeStep, PTL DEF Spec

------------------------------------------------------------------------------
(***************************************************************************)
(* Beyond the token step a run holds a token, and beyond the sealing step  *)
(* the sealed copy on the controller is that token.                        *)
(***************************************************************************)
TokenInv ==
  /\ pc \notin {"idle", "token"} => tok \in Tokens
  /\ pc \notin {"idle", "token", "seal"} => sealed = tok

(***************************************************************************)
(* No step breaks the token invariant.                                     *)
(***************************************************************************)
LEMMA TokenStep == TypeOK /\ TokenInv /\ [Next]_vars => TokenInv'
<1> SUFFICES ASSUME TypeOK, TokenInv, [Next]_vars PROVE TokenInv'
  OBVIOUS
<1> USE Rke2BootstrapAssumption
    DEF TypeOK, TokenInv, Moves, locals, hosts, cluster
<1>1. CASE OpenToken
  BY <1>1 DEF OpenToken, AfterToken
<1>2. CASE SealToken
  BY <1>2 DEF SealToken, AfterToken
<1>3. CASE HostBoundary
  BY <1>3 DEF HostBoundary
<1>4. CASE RefuseHosts
  BY <1>4 DEF RefuseHosts
<1>5. CASE RefuseLineage
  BY <1>5 DEF RefuseLineage
<1>6. CASE PrepareStep
  BY <1>6 DEF PrepareStep
<1>7. CASE Activate
  BY <1>7 DEF Activate
<1>8. CASE PrepareKeeps
  BY <1>8 DEF PrepareKeeps
<1>9. CASE ReadFloor
  BY <1>9 DEF ReadFloor
<1>10. CASE StartServer
  BY <1>10 DEF StartServer, Launched
<1>11. CASE Staged
  BY <1>11 DEF Staged
<1>12. CASE TimesOut
  BY <1>12 DEF TimesOut
<1>13. CASE FullVerification
  BY <1>13 DEF FullVerification
<1>14. CASE RefuseVerification
  BY <1>14 DEF RefuseVerification
<1>15. CASE StopServer
  BY <1>15 DEF StopServer
<1>16. CASE Outage
  BY <1>16 DEF Outage, Fault
<1>17. CASE Restart
  BY <1>17 DEF Restart, Fault, Launched
<1>18. CASE Recovered
  BY <1>18 DEF Recovered, Fault
<1>19. CASE Stable
  BY <1>19 DEF Stable
<1>20. CASE StopFails
  BY <1>20 DEF StopFails, Fault
<1>21. CASE Fail
  BY <1>21 DEF Fail, Fault
<1>22. CASE Crash
  BY <1>22 DEF Crash, Fault
<1>23. CASE LoseToken
  BY <1>23 DEF LoseToken, Fault
<1>24. CASE \E t \in Tokens : GenerateToken(t)
  BY <1>24 DEF GenerateToken
<1>25. CASE \E t \in {"bootstrap", "verify"} : StartRun(t)
  BY <1>25 DEF StartRun
<1>26. CASE \E n \in Nodes : ServerRuns(n)
  BY <1>26 DEF ServerRuns
<1>27. CASE UNCHANGED vars
  BY <1>27 DEF vars
<1>28. CASE NoSysctlFile
  BY <1>28 DEF NoSysctlFile
<1>29. CASE CutArchive
  BY <1>29 DEF CutArchive, Fault
<1> QED
  BY <1>1, <1>2, <1>3, <1>4, <1>5, <1>6, <1>7, <1>8, <1>9, <1>10,
     <1>11, <1>12, <1>13, <1>14, <1>15, <1>16, <1>17, <1>18, <1>19, <1>20,
     <1>21, <1>22, <1>23, <1>24, <1>25, <1>26, <1>27, <1>28, <1>29
     DEF Next, Run, Prepare, Drills

(***************************************************************************)
(* In every run the sealed copy precedes the use of the token.             *)
(***************************************************************************)
LEMMA TokenInvariant == Spec => [](TypeOK /\ TokenInv)
<1>1. Init => TypeOK /\ TokenInv
  BY TypeInit DEF Init, TokenInv
<1> QED
  BY <1>1, TypeStep, TokenStep, PTL DEF Spec

(***************************************************************************)
(* Get-ClusterToken and the role's token tasks: a token reaches a server   *)
(* only when its recovery copy is sealed, under every fault.               *)
(***************************************************************************)
THEOREM TokenIsSealedFirst == Spec => SealedBeforeUse
<1> DEFINE Installs == \A n \in Nodes : token'[n] # token[n] => token'[n] = sealed
<1>1. ASSUME TypeOK, TokenInv, [Next]_vars PROVE [Installs]_vars
  <2> SUFFICES ASSUME Next, token' # token PROVE Installs
    BY <1>1 DEF vars, hosts
  <2>1. PrepareStep \/ PrepareKeeps
    BY DEF Next, Run, Prepare, Drills, StartRun, OpenToken, GenerateToken,
       SealToken, HostBoundary, RefuseHosts, RefuseLineage, Activate, ReadFloor,
       StartServer, Staged, TimesOut, FullVerification, RefuseVerification,
       StopServer, Outage, Restart, Recovered, Stable, ServerRuns, StopFails,
       NoSysctlFile, CutArchive, Fail, Crash, LoseToken, hosts
  <2>2. pc = "prepare" /\ sealed = tok
    BY <1>1, <2>1 DEF PrepareStep, PrepareKeeps, Moves, TokenInv
  <2>3. token' = [token EXCEPT ![i] = tok] \/ token' = token
    BY <2>1 DEF PrepareStep, PrepareKeeps
  <2> QED
    BY <1>1, <2>2, <2>3 DEF TypeOK
<1>2. [](TypeOK /\ TokenInv) /\ [][Next]_vars => [][Installs]_vars
  BY <1>1, PTL
<1>3. [][Installs]_vars <=> SealedBeforeUse
  BY DEF SealedBeforeUse
<1> QED
  BY <1>2, <1>3, TokenInvariant, PTL DEF Spec

------------------------------------------------------------------------------
(***************************************************************************)
(* The hosts are prepared in order: the first one fixes the lineage, a     *)
(* host with a configuration has a token, and from the second host on the  *)
(* run's token is the first host's.                                        *)
(***************************************************************************)
LineageInv ==
  /\ \A n \in Nodes : token[n] \in {Absent, token[1]}
  /\ \A n \in Nodes : level[n] >= Config => token[n] # Absent
  /\ pc \in {"prepare", "activate"} /\ i > 1 => token[1] = tok
  /\ pc = "activate" => token[i] = tok

(***************************************************************************)
(* No step breaks the lineage invariant.                                   *)
(***************************************************************************)
LEMMA LineageStep == TypeOK /\ TokenInv /\ LineageInv /\ [Next]_vars => LineageInv'
<1> SUFFICES ASSUME TypeOK, TokenInv, LineageInv, [Next]_vars PROVE LineageInv'
  OBVIOUS
<1> USE Rke2BootstrapAssumption
    DEF TypeOK, TokenInv, LineageInv, Nodes, Config, Moves, locals, hosts, cluster
<1>1. CASE OpenToken
  BY <1>1 DEF OpenToken, AfterToken
<1>2. CASE SealToken
  BY <1>2 DEF SealToken, AfterToken
<1>3. CASE HostBoundary
  BY <1>3 DEF HostBoundary
<1>4. CASE RefuseHosts
  BY <1>4 DEF RefuseHosts
<1>5. CASE RefuseLineage
  BY <1>5 DEF RefuseLineage
<1>6. CASE PrepareStep
  <2>1. /\ pc = "prepare" /\ i' = i /\ tok' = tok
        /\ token[i] \in {Absent, tok}
        /\ tok # Absent
    BY <1>6 DEF PrepareStep, Lineage
  <2>2. /\ level' = [level EXCEPT ![i] = @ + 1]
        /\ level[i] < Sysctl
        /\ token' = IF level'[i] = 3 THEN [token EXCEPT ![i] = tok] ELSE token
        /\ pc' = IF level'[i] = Sysctl THEN "activate" ELSE "prepare"
    BY <1>6 DEF PrepareStep
  <2>3. level'[i] = level[i] + 1 /\ level[i] \in Int
    BY <2>2 DEF Bare, Sysctl
  <2>4. i = 1 \/ token[1] = tok
    BY <2>1
  <2>5. token'[i] = tok \/ token'[i] = token[i]
    BY <2>2
  <2>6. \A n \in 1..Servers : token'[n] \in {Absent, token'[1]}
    BY <2>1, <2>2, <2>4
  <2>7. \A n \in 1..Servers : level'[n] >= 3 => token'[n] # Absent
    BY <2>1, <2>2, <2>3
  <2>8. pc' \in {"prepare", "activate"} /\ i' > 1 => token'[1] = tok'
    BY <2>1, <2>2, <2>4
  <2>9. pc' = "activate" => token'[i'] = tok'
    BY <2>1, <2>2, <2>3 DEF Sysctl
  <2> QED
    BY <2>6, <2>7, <2>8, <2>9
<1>7. CASE Activate
  BY <1>7 DEF Activate
<1>8. CASE PrepareKeeps
  <2>1. /\ pc = "prepare" /\ pc' \in {"prepare", "floor"}
        /\ token[i] \in {Absent, tok} /\ tok # Absent
        /\ token' = [token EXCEPT ![i] = tok]
        /\ UNCHANGED <<tok, level>>
    BY <1>8 DEF PrepareKeeps, Lineage
  <2>2. i = 1 \/ token[1] = tok
    BY <2>1
  <2>3. \A n \in 1..Servers : token'[n] \in {Absent, token'[1]}
    BY <2>1, <2>2
  <2>4. \A n \in 1..Servers : level'[n] >= 3 => token'[n] # Absent
    BY <2>1
  <2>5. token'[1] = tok'
    BY <2>1, <2>2
  <2> QED
    BY <2>1, <2>3, <2>4, <2>5
<1>9. CASE ReadFloor
  BY <1>9 DEF ReadFloor
<1>10. CASE StartServer
  BY <1>10 DEF StartServer, Launched
<1>11. CASE Staged
  BY <1>11 DEF Staged
<1>12. CASE TimesOut
  BY <1>12 DEF TimesOut
<1>13. CASE FullVerification
  BY <1>13 DEF FullVerification
<1>14. CASE RefuseVerification
  BY <1>14 DEF RefuseVerification
<1>15. CASE StopServer
  BY <1>15 DEF StopServer
<1>16. CASE Outage
  BY <1>16 DEF Outage, Fault
<1>17. CASE Restart
  BY <1>17 DEF Restart, Fault, Launched
<1>18. CASE Recovered
  BY <1>18 DEF Recovered, Fault
<1>19. CASE Stable
  BY <1>19 DEF Stable
<1>20. CASE StopFails
  BY <1>20 DEF StopFails, Fault
<1>21. CASE Fail
  BY <1>21 DEF Fail, Fault
<1>22. CASE Crash
  BY <1>22 DEF Crash, Fault
<1>23. CASE LoseToken
  BY <1>23 DEF LoseToken, Fault
<1>24. CASE \E t \in Tokens : GenerateToken(t)
  BY <1>24 DEF GenerateToken
<1>25. CASE \E t \in {"bootstrap", "verify"} : StartRun(t)
  BY <1>25 DEF StartRun
<1>26. CASE \E n \in Nodes : ServerRuns(n)
  BY <1>26 DEF ServerRuns
<1>27. CASE UNCHANGED vars
  BY <1>27 DEF vars
<1>28. CASE NoSysctlFile
  BY <1>28 DEF NoSysctlFile
<1>29. CASE CutArchive
  BY <1>29 DEF CutArchive, Fault, Paths, Binary
<1> QED
  BY <1>1, <1>2, <1>3, <1>4, <1>5, <1>6, <1>7, <1>8, <1>9, <1>10,
     <1>11, <1>12, <1>13, <1>14, <1>15, <1>16, <1>17, <1>18, <1>19, <1>20,
     <1>21, <1>22, <1>23, <1>24, <1>25, <1>26, <1>27, <1>28, <1>29
     DEF Next, Run, Prepare, Drills

(***************************************************************************)
(* The role's token check: all servers carry the token of one lineage,     *)
(* even when the sealed copy of an earlier run was lost.                   *)
(***************************************************************************)
THEOREM LineageIsOne == Spec => []OneLineage
<1>1. Init => LineageInv
  BY Rke2BootstrapAssumption
     DEF Init, LineageInv, Nodes, Bare, Config
<1>2. LineageInv => OneLineage
  BY DEF LineageInv, OneLineage
<1> QED
  BY <1>1, <1>2, TokenInvariant, LineageStep, PTL DEF Spec

------------------------------------------------------------------------------
(***************************************************************************)
(* A drill stops a server when all are up, and until it has seen the       *)
(* server back every other one is up.                                      *)
(***************************************************************************)
DrillInv ==
  /\ QuorumKept
  /\ pc = "stop" => \A n \in Nodes : svc[n] = "up"
  /\ pc \in {"outage", "restart", "wait"} => \A n \in Nodes : n # i => svc[n] = "up"

(***************************************************************************)
(* No step breaks the drill invariant, if Ready is never stale.            *)
(***************************************************************************)
LEMMA DrillStep ==
  ASSUME "stale" \notin Faults
  PROVE  TypeOK /\ DrillInv /\ [Next]_vars => DrillInv'
<1> SUFFICES ASSUME TypeOK, DrillInv, [Next]_vars PROVE DrillInv'
  OBVIOUS
<1> USE Rke2BootstrapAssumption
    DEF TypeOK, DrillInv, QuorumKept, Members, Nodes, Moves, locals, hosts, cluster
<1>1. CASE OpenToken
  BY <1>1 DEF OpenToken, AfterToken
<1>2. CASE SealToken
  BY <1>2 DEF SealToken, AfterToken
<1>3. CASE HostBoundary
  BY <1>3 DEF HostBoundary
<1>4. CASE RefuseHosts
  BY <1>4 DEF RefuseHosts
<1>5. CASE RefuseLineage
  BY <1>5 DEF RefuseLineage
<1>6. CASE PrepareStep
  BY <1>6 DEF PrepareStep
<1>7. CASE Activate
  BY <1>7 DEF Activate
<1>8. CASE PrepareKeeps
  BY <1>8 DEF PrepareKeeps
<1>9. CASE ReadFloor
  BY <1>9 DEF ReadFloor
<1>10. CASE StartServer
  BY <1>10 DEF StartServer, Launched
<1>11. CASE Staged
  BY <1>11 DEF Staged
<1>12. CASE TimesOut
  BY <1>12 DEF TimesOut
<1>13. CASE FullVerification
  BY <1>13 DEF FullVerification, AllUp
<1>14. CASE RefuseVerification
  BY <1>14 DEF RefuseVerification
<1>15. CASE StopServer
  BY <1>15 DEF StopServer
<1>16. CASE Outage
  BY <1>16 DEF Outage, Fault
<1>17. CASE Restart
  BY <1>17 DEF Restart, Fault, Launched
<1>18. CASE Recovered
  BY <1>18 DEF Recovered, Fault
<1>19. CASE Stable
  BY <1>19 DEF Stable
<1>20. CASE StopFails
  BY <1>20 DEF StopFails, Fault
<1>21. CASE Fail
  BY <1>21 DEF Fail, Fault
<1>22. CASE Crash
  BY <1>22 DEF Crash, Fault
<1>23. CASE LoseToken
  BY <1>23 DEF LoseToken, Fault
<1>24. CASE \E t \in Tokens : GenerateToken(t)
  BY <1>24 DEF GenerateToken
<1>25. CASE \E t \in {"bootstrap", "verify"} : StartRun(t)
  BY <1>25 DEF StartRun
<1>26. CASE \E n \in Nodes : ServerRuns(n)
  BY <1>26 DEF ServerRuns
<1>27. CASE UNCHANGED vars
  BY <1>27 DEF vars
<1>28. CASE NoSysctlFile
  BY <1>28 DEF NoSysctlFile
<1>29. CASE CutArchive
  BY <1>29 DEF CutArchive, Fault
<1> QED
  BY <1>1, <1>2, <1>3, <1>4, <1>5, <1>6, <1>7, <1>8, <1>9, <1>10,
     <1>11, <1>12, <1>13, <1>14, <1>15, <1>16, <1>17, <1>18, <1>19, <1>20,
     <1>21, <1>22, <1>23, <1>24, <1>25, <1>26, <1>27, <1>28, <1>29
     DEF Next, Run, Prepare, Drills

(***************************************************************************)
(* "retained one-node quorum safety" of phase4.ps1: as long as a stopped   *)
(* server is not reported Ready, neither the drills nor the runs after an  *)
(* interrupted drill ever have two members down, whatever else fails.      *)
(***************************************************************************)
THEOREM QuorumIsKept ==
  ASSUME "stale" \notin Faults
  PROVE  Spec => []QuorumKept
<1>1. Init => DrillInv
  BY DEF Init, DrillInv, QuorumKept, Members, Nodes
<1>2. TypeOK /\ DrillInv /\ [Next]_vars => DrillInv'
  BY DrillStep
<1>3. DrillInv => QuorumKept
  BY DEF DrillInv
<1> QED
  BY <1>1, <1>2, <1>3, TypeCorrect, PTL DEF Spec

------------------------------------------------------------------------------

(***************************************************************************)
(* No step breaks the types.                                               *)
(***************************************************************************)
LEMMA GitOpsTypeStep == GitOps!TypeOK /\ [GitOps!Next]_(GitOps!vars) => GitOps!TypeOK'
<1> SUFFICES ASSUME GitOps!TypeOK, [GitOps!Next]_(GitOps!vars) PROVE GitOps!TypeOK'
  OBVIOUS
<1> USE ClusterGitOpsAssumption
    DEF GitOps!GitOpsBootstrapAssumption, GitOps!TypeOK, GitOps!Accounts,
        GitOps!Listed, GitOps!Steps, GitOps!Moves, GitOps!locals, GitOps!helm,
        GitOps!secrets, GitOps!disk
<1>1. CASE GitOps!CheckNamespace
  BY <1>1 DEF GitOps!CheckNamespace
<1>2. CASE GitOps!RefuseNamespace
  BY <1>2 DEF GitOps!RefuseNamespace
<1>3. CASE GitOps!CrdsReady
  BY <1>3 DEF GitOps!CrdsReady
<1>4. CASE GitOps!HelmBegins
  BY <1>4 DEF GitOps!HelmBegins
<1>5. CASE GitOps!HelmSucceeds
  BY <1>5 DEF GitOps!HelmSucceeds
<1>6. CASE GitOps!RollbackDone
  BY <1>6 DEF GitOps!RollbackDone
<1>7. CASE GitOps!WaitForArgocd
  BY <1>7 DEF GitOps!WaitForArgocd
<1>8. CASE GitOps!ReadSecret
  <2>1. seen' \in BOOLEAN
    BY <1>8, Zenon DEF GitOps!ReadSecret
  <2>2. mishaps' \in 0..MaxMishaps
    BY <1>8 DEF GitOps!ReadSecret, GitOps!Fault
  <2> QED
    BY <1>8, <2>1, <2>2, Zenon DEF GitOps!ReadSecret
<1>9. CASE GitOps!KeepFile
  BY <1>9 DEF GitOps!KeepFile
<1>10. CASE GitOps!NoCredential
  BY <1>10 DEF GitOps!NoCredential
<1>11. CASE GitOps!WriteFile
  BY <1>11 DEF GitOps!WriteFile
<1>12. CASE GitOps!ReadFile
  BY <1>12 DEF GitOps!ReadFile, GitOps!AfterRead
<1>13. CASE GitOps!RefuseFile
  BY <1>13 DEF GitOps!RefuseFile
<1>14. CASE GitOps!Rotate
  BY <1>14 DEF GitOps!Rotate
<1>15. CASE GitOps!RefuseRotate
  BY <1>15 DEF GitOps!RefuseRotate
<1>16. CASE GitOps!DeleteSecret
  BY <1>16 DEF GitOps!DeleteSecret
<1>17. CASE GitOps!PutReviewer
  BY <1>17 DEF GitOps!PutReviewer
<1>18. CASE GitOps!Session
  BY <1>18 DEF GitOps!Session
<1>19. CASE GitOps!RefuseSession
  BY <1>19 DEF GitOps!RefuseSession
<1>20. CASE GitOps!WriteToken
  BY <1>20 DEF GitOps!WriteToken
<1>21. CASE GitOps!ApplyRoot
  BY <1>21 DEF GitOps!ApplyRoot
<1>22. CASE GitOps!Synced
  BY <1>22 DEF GitOps!Synced
<1>23. CASE GitOps!StartInstall
  BY <1>23 DEF GitOps!StartInstall
<1>24. CASE GitOps!StartRollback
  BY <1>24 DEF GitOps!StartRollback
<1>25. CASE GitOps!ServerStarts
  BY <1>25 DEF GitOps!ServerStarts
<1>26. CASE GitOps!HelmFails
  BY <1>26 DEF GitOps!HelmFails, GitOps!Fault
<1>27. CASE GitOps!RollbackFails
  BY <1>27 DEF GitOps!RollbackFails, GitOps!Fault
<1>28. CASE GitOps!PutLost
  BY <1>28 DEF GitOps!PutLost, GitOps!Fault
<1>29. CASE GitOps!Fail
  BY <1>29 DEF GitOps!Fail, GitOps!Fault
<1>30. CASE GitOps!Crash
  BY <1>30 DEF GitOps!Crash, GitOps!Fault
<1>31. CASE \E c \in CRDs : GitOps!CreateCrd(c)
  BY <1>31 DEF GitOps!CreateCrd
<1>32. CASE \E g \in Passwords : GitOps!Generate(g)
  BY <1>32 DEF GitOps!Generate
<1>33. CASE UNCHANGED GitOps!vars
  BY <1>33 DEF GitOps!vars
<1>34. CASE GitOps!MisreadNamespace
  <2>1. mishaps' \in 0..MaxMishaps
    BY <1>34 DEF GitOps!MisreadNamespace, GitOps!Fault
  <2>2. existing' \in BOOLEAN
    BY <1>34, Zenon DEF GitOps!MisreadNamespace
  <2> QED
    BY <1>34, <2>1, <2>2, Zenon DEF GitOps!MisreadNamespace
<1>35. CASE GitOps!HelmRefuses
  BY <1>35 DEF GitOps!HelmRefuses
<1> HIDE DEF GitOps!TypeOK, GitOps!Accounts, GitOps!Listed, GitOps!Steps,
             GitOps!Moves, GitOps!locals, GitOps!helm, GitOps!secrets, GitOps!disk
<1>36. GitOps!Install => GitOps!TypeOK'
  BY <1>1, <1>2, <1>3, <1>4, <1>5, <1>6, <1>31, <1>35, Zenon DEF GitOps!Install
<1>37. GitOps!Credentials => GitOps!TypeOK'
  BY <1>7, <1>8, <1>9, <1>10, <1>11, <1>12, <1>13, <1>14, <1>15, <1>16,
     <1>17, <1>18, <1>19, <1>20, <1>32, Zenon DEF GitOps!Credentials
<1>38. GitOps!Handover => GitOps!TypeOK'
  BY <1>21, <1>22, Zenon DEF GitOps!Handover
<1> QED
  BY <1>23, <1>24, <1>25, <1>26, <1>27, <1>28, <1>29, <1>30, <1>33, <1>34,
     <1>36, <1>37, <1>38, Zenon
     DEF GitOps!Next, GitOps!Run

(***************************************************************************)
(* Every variable of the bootstrap keeps its type.                         *)
(***************************************************************************)
THEOREM GitOpsTypeCorrect == GitOpsSpec => []GitOpsTypeOK
<1>1. GitOps!Init => GitOps!TypeOK
  <2> SUFFICES ASSUME GitOps!Init PROVE GitOps!TypeOK
    OBVIOUS
  <2>1. mishaps \in 0..MaxMishaps
    BY ClusterGitOpsAssumption, SMT DEF GitOps!GitOpsBootstrapAssumption,
         GitOps!Init
  <2>2. /\ desired \in [GitOps!Accounts -> Passwords \cup {NoPassword}]
        /\ server \in [GitOps!Accounts -> Passwords \cup {Initial, NoPassword}]
        /\ file \in [GitOps!Accounts -> Passwords \cup {NoPassword, Empty, Torn}]
        /\ session \in [GitOps!Accounts -> Passwords \cup {NoPassword}]
    BY SMT DEF GitOps!Init
  <2> QED
    BY <2>1, <2>2, Zenon DEF GitOps!Init, GitOps!TypeOK, GitOps!Accounts,
                             GitOps!Listed, GitOps!Steps
<1> QED
  BY <1>1, GitOpsTypeStep, PTL DEF GitOpsSpec, GitOpsTypeOK, GitOps!Spec

(***************************************************************************)
(* What links server, files and tokens.  Stored: an external file is never *)
(* changed once its password reached the server.  Read, Proven, Written:   *)
(* what the run knows after reading a file, opening a session, writing a   *)
(* token.  Finished: only a rollback may follow a success unnoticed.       *)
(***************************************************************************)
Holds(a) == desired[a] = file[a] /\ file[a] \in Passwords
Accepted(a) == Holds(a) /\ server[a] = file[a]

Stored ==
  /\ \A a \in GitOps!Accounts : server[a] \in Passwords => file[a] = server[a]
  /\ server["reviewer"] # Initial
  /\ server["admin"] = Initial => initSecret

Reading ==
  /\ at = "writing" => server[account] \notin Passwords
  /\ at \in {"rotate", "delete"} => account = "admin"
  /\ at = "put" => account = "reviewer"
  /\ at \in {"namespace", "crds", "helm", "helming", "wait", "secret"} => account = "admin"
  /\ at \in {"rotate", "delete", "put", "session"} => Holds(account)

Proven ==
  /\ at = "delete" => Accepted("admin")
  /\ at \in {"file", "writing", "read", "put", "session"} /\ account = "reviewer"
       => Accepted("admin")
  /\ at \in {"token", "root", "sync"} => Accepted("admin") /\ Accepted("reviewer")

Written ==
  /\ at = "token" /\ account = "reviewer" => session["admin"] = desired["admin"]
  /\ at \in {"root", "sync"} => \A a \in GitOps!Accounts : session[a] = desired[a]

Finished == done => at \in {"idle", "rollback"} /\ server["admin"] # NoPassword

HandoverInv == Stored /\ Reading /\ Proven /\ Written /\ Finished /\ GitOps!SuccessHolds

(***************************************************************************)
(* A bootstrap that never ran satisfies the invariant.                     *)
(***************************************************************************)
LEMMA HandoverInit == GitOps!Init => HandoverInv
BY ClusterGitOpsAssumption
   DEF GitOps!GitOpsBootstrapAssumption, GitOps!Init, HandoverInv, Stored, Reading,
       Proven, Written, Finished, GitOps!SuccessHolds, GitOps!Accounts

(***************************************************************************)
(* Every step of a run, of the server and of the operator, and every fault *)
(* keeps it.                                                               *)
(***************************************************************************)
LEMMA HandoverStep ==
  ASSUME GitOps!TypeOK, HandoverInv, [GitOps!Next]_(GitOps!vars)
  PROVE  HandoverInv'
<1> USE ClusterGitOpsAssumption
    DEF GitOps!GitOpsBootstrapAssumption, GitOps!TypeOK, GitOps!Accounts,
        HandoverInv, Stored, Reading, Proven, Written, Finished,
        GitOps!SuccessHolds, Holds, Accepted, GitOps!Moves, GitOps!locals,
        GitOps!helm, GitOps!secrets, GitOps!disk
<1>1. CASE GitOps!CheckNamespace
  BY <1>1 DEF GitOps!CheckNamespace
<1>2. CASE GitOps!RefuseNamespace
  BY <1>2 DEF GitOps!RefuseNamespace
<1>3. CASE GitOps!CrdsReady
  BY <1>3 DEF GitOps!CrdsReady
<1>4. CASE GitOps!HelmBegins
  BY <1>4 DEF GitOps!HelmBegins
<1>5. CASE GitOps!HelmSucceeds
  BY <1>5 DEF GitOps!HelmSucceeds
<1>6. CASE GitOps!RollbackDone
  BY <1>6 DEF GitOps!RollbackDone
<1>7. CASE GitOps!WaitForArgocd
  BY <1>7 DEF GitOps!WaitForArgocd
<1>8. CASE GitOps!ReadSecret
  BY <1>8 DEF GitOps!ReadSecret, GitOps!Fault
<1>9. CASE GitOps!KeepFile
  BY <1>9 DEF GitOps!KeepFile
<1>10. CASE GitOps!NoCredential
  BY <1>10 DEF GitOps!NoCredential
<1>11. CASE GitOps!WriteFile
  BY <1>11 DEF GitOps!WriteFile
<1>12. CASE GitOps!ReadFile
  BY <1>12 DEF GitOps!ReadFile, GitOps!AfterRead
<1>13. CASE GitOps!RefuseFile
  BY <1>13 DEF GitOps!RefuseFile
<1>14. CASE GitOps!Rotate
  BY <1>14 DEF GitOps!Rotate
<1>15. CASE GitOps!RefuseRotate
  BY <1>15 DEF GitOps!RefuseRotate
<1>16. CASE GitOps!DeleteSecret
  BY <1>16 DEF GitOps!DeleteSecret
<1>17. CASE GitOps!PutReviewer
  BY <1>17 DEF GitOps!PutReviewer
<1>18. CASE GitOps!Session
  BY <1>18 DEF GitOps!Session
<1>19. CASE GitOps!RefuseSession
  BY <1>19 DEF GitOps!RefuseSession
<1>20. CASE GitOps!WriteToken
  BY <1>20 DEF GitOps!WriteToken
<1>21. CASE GitOps!ApplyRoot
  BY <1>21 DEF GitOps!ApplyRoot
<1>22. CASE GitOps!Synced
  BY <1>22 DEF GitOps!Synced
<1>23. CASE GitOps!StartInstall
  BY <1>23 DEF GitOps!StartInstall
<1>24. CASE GitOps!StartRollback
  BY <1>24 DEF GitOps!StartRollback
<1>25. CASE GitOps!ServerStarts
  BY <1>25 DEF GitOps!ServerStarts
<1>26. CASE GitOps!HelmFails
  BY <1>26 DEF GitOps!HelmFails, GitOps!Fault
<1>27. CASE GitOps!RollbackFails
  BY <1>27 DEF GitOps!RollbackFails, GitOps!Fault
<1>28. CASE GitOps!PutLost
  BY <1>28 DEF GitOps!PutLost, GitOps!Fault
<1>29. CASE GitOps!Fail
  BY <1>29 DEF GitOps!Fail, GitOps!Fault
<1>30. CASE GitOps!Crash
  BY <1>30 DEF GitOps!Crash, GitOps!Fault
<1>31. CASE \E c \in CRDs : GitOps!CreateCrd(c)
  BY <1>31 DEF GitOps!CreateCrd
<1>32. CASE \E g \in Passwords : GitOps!Generate(g)
  BY <1>32 DEF GitOps!Generate
<1>33. CASE UNCHANGED GitOps!vars
  BY <1>33 DEF GitOps!vars
<1>34. CASE GitOps!MisreadNamespace
  BY <1>34 DEF GitOps!MisreadNamespace, GitOps!Fault
<1>35. CASE GitOps!HelmRefuses
  BY <1>35 DEF GitOps!HelmRefuses
<1> QED
  BY <1>1, <1>2, <1>3, <1>4, <1>5, <1>6, <1>7, <1>8, <1>9, <1>10,
     <1>11, <1>12, <1>13, <1>14, <1>15, <1>16, <1>17, <1>18, <1>19, <1>20,
     <1>21, <1>22, <1>23, <1>24, <1>25, <1>26, <1>27, <1>28, <1>29, <1>30,
     <1>31, <1>32, <1>33, <1>34, <1>35
     DEF GitOps!Next, GitOps!Run, GitOps!Install, GitOps!Credentials,
         GitOps!Handover

(***************************************************************************)
(* The types and the invariant hold in every reachable state.              *)
(***************************************************************************)
LEMMA HandoverInvariant == GitOpsSpec => [](GitOps!TypeOK /\ HandoverInv)
BY HandoverInit, HandoverStep, GitOpsTypeCorrect, PTL DEF GitOpsSpec, GitOpsTypeOK,
   GitOps!Spec

(***************************************************************************)
(* The server's administrator password is always in the external file or   *)
(* in the initial secret, whatever fails or is killed.                     *)
(***************************************************************************)
THEOREM AdministratorIsKept == GitOpsSpec => []AdministratorKept
<1>1. GitOps!TypeOK /\ HandoverInv => GitOps!AdministratorKept
  BY DEF GitOps!TypeOK, HandoverInv, Stored, GitOps!AdministratorKept,
         GitOps!Accounts
<1> QED
  BY <1>1, HandoverInvariant, PTL DEF AdministratorKept

(***************************************************************************)
(* After a run that ended with [PASS], files, tokens and server agree      *)
(* until the next run starts.                                              *)
(***************************************************************************)
THEOREM SuccessIsStable == GitOpsSpec => []SuccessHolds
<1>1. HandoverInv => GitOps!SuccessHolds
  BY DEF HandoverInv
<1> QED
  BY <1>1, HandoverInvariant, PTL DEF SuccessHolds

(***************************************************************************)
(* Tokens and the root Application are only written while both external    *)
(* passwords open a session.                                               *)
(***************************************************************************)
THEOREM NothingUnprovenIsHandedOver == GitOpsSpec => HandoverIsProven
<1> DEFINE OnlyProven ==
      <<session, root>>' # <<session, root>> =>
        \A a \in GitOps!Accounts : server[a] = file[a] /\ server[a] \in Passwords
<1>1. ASSUME GitOps!TypeOK, HandoverInv,
   [GitOps!Next]_(GitOps!vars) PROVE [OnlyProven]_(GitOps!vars)
  <2> USE <1>1 DEF HandoverInv, Proven, Accepted, Holds, GitOps!Accounts
  <2>1. CASE GitOps!WriteToken
    BY <2>1 DEF GitOps!WriteToken, GitOps!Moves
  <2>2. CASE GitOps!ApplyRoot
    BY <2>2 DEF GitOps!ApplyRoot, GitOps!Moves
  <2>3. ASSUME ~GitOps!WriteToken, ~GitOps!ApplyRoot PROVE UNCHANGED <<session, root>>
    BY <1>1, <2>3, Zenon
       DEF GitOps!Next, GitOps!Run, GitOps!Install, GitOps!Credentials,
           GitOps!Handover, GitOps!vars, GitOps!disk, GitOps!CheckNamespace,
           GitOps!RefuseNamespace, GitOps!CrdsReady, GitOps!HelmBegins,
           GitOps!HelmSucceeds, GitOps!RollbackDone, GitOps!WaitForArgocd,
           GitOps!ReadSecret, GitOps!KeepFile, GitOps!NoCredential,
           GitOps!WriteFile, GitOps!ReadFile, GitOps!RefuseFile, GitOps!Rotate,
           GitOps!RefuseRotate, GitOps!DeleteSecret, GitOps!PutReviewer,
           GitOps!Session, GitOps!RefuseSession, GitOps!Synced,
           GitOps!StartInstall, GitOps!StartRollback, GitOps!ServerStarts,
           GitOps!HelmFails, GitOps!RollbackFails, GitOps!PutLost, GitOps!Fail,
           GitOps!Crash, GitOps!CreateCrd, GitOps!Generate,
           GitOps!MisreadNamespace, GitOps!HelmRefuses
  <2> QED
    BY <2>1, <2>2, <2>3
<1> QED
  BY <1>1, HandoverInvariant, PTL DEF GitOpsSpec, GitOps!Spec, HandoverIsProven,
     GitOps!HandoverIsProven
=================================================================================
