-------------------------- MODULE SealedStateProofs --------------------------
(***************************************************************************)
(* Theorems about SealedState, for every set of invocations, every set of  *)
(* faults and every bound on the number of Terraform writes.               *)
(***************************************************************************)
EXTENDS SealedState, TLAPS

(***************************************************************************)
(* The inductive invariant.  SealInv says which of the two state files     *)
(* carries the newest version; HolderInv what the process inside the       *)
(* boundary knows at each point of the script; ExposureInv where plaintext *)
(* may lie while nothing was interrupted.                                  *)
(***************************************************************************)
WillClose(p) == admitted[p] \/ (target[p] \in Phase6Targets /\ opened[p])

SealInv ==
  /\ plain["state"] \in Versions => plain["state"] = latest
  /\ plain["state"] \notin Versions /\ sealed["state"] \in Versions
       => sealed["state"] = latest
  /\ plain["state"] = Absent /\ sealed["state"] = Absent => latest = 0
  /\ plain["state"] \in {Empty, Torn} => sealed["state"] # Absent
  /\ \A f \in Files : sealed[f] # Empty
  /\ ~cut => plain["state"] # Torn /\ sealed["state"] # Torn

HolderInv ==
  \A p \in Procs :
    /\ pc[p] \notin Closing \cup {"release"} => file[p] = "state"
    /\ pc[p] = "opening" => /\ plain["state"] = Empty
                            /\ bytes[p] = sealed["state"]
    /\ pc[p] \in Working => /\ plain["state"] # Empty
                            /\ plain["state"] = Absent => sealed["state"] = Absent
                            /\ opened[p]
    /\ pc[p] \in {"prepare", "open", "opening"} \cup Working
         => admitted[p] \/ target[p] \in Phase6Targets
    /\ pc[p] \in {"sealing", "verify"} => /\ bytes[p] = plain[file[p]]
                                          /\ bytes[p] \notin {Absent, Empty}
    /\ pc[p] = "remove" => /\ sealed[file[p]] = plain[file[p]]
                           /\ plain[file[p]] # Absent

ExposureInv ==
  ~interrupted =>
    /\ lease = NoProc => ~PlaintextLeft(plain)
    /\ \A p \in Procs :
         /\ pc[p] \in Entering \cup {"release"} => ~PlaintextLeft(plain)
         /\ pc[p] = "finally" /\ ~WillClose(p) => ~PlaintextLeft(plain)
         /\ pc[p] \in Closing /\ file[p] = "backup" => plain["state"] = Absent

SafetyInv == SealInv /\ HolderInv /\ ExposureInv

(***************************************************************************)
(* Every variable of the boundary keeps its type.                          *)
(***************************************************************************)
THEOREM TypeCorrect == Spec => []TypeOK
<1>1. Init => TypeOK
  <2> SUFFICES ASSUME Init PROVE TypeOK
    OBVIOUS
  <2>1. "idle" \in Labels /\ "inventory" \in Targets /\ "state" \in Files
    BY DEF Labels, Outside, Targets, Files
  <2>2. Absent \in Content
    BY DEF Content
  <2>3. QED
    BY <2>1, <2>2 DEF Init, TypeOK
<1>2. TypeOK /\ [Next]_vars => TypeOK'
  <2> SUFFICES ASSUME TypeOK, [Next]_vars PROVE TypeOK'
    OBVIOUS
  <2> USE SealedStateAssumption
      DEF TypeOK, Labels, Outside, Inside, Entering, Working, Closing, Targets,
          WritingTargets, RepairTargets, Phase6Targets, Files, Content, Versions,
          locals, files, history, Goto, At, Moves
  <2>1. ASSUME NEW p \in Procs, Start(p) PROVE TypeOK'
    BY <2>1 DEF Start
  <2>2. ASSUME NEW p \in Procs, NEW t \in Targets, EnterLease(p, t) PROVE TypeOK'
    BY <2>2 DEF EnterLease
  <2>3. ASSUME NEW p \in Procs, RefuseLease(p) PROVE TypeOK'
    BY <2>3 DEF RefuseLease, Gone
  <2>4. ASSUME NEW p \in Procs, Admit(p) PROVE TypeOK'
    BY <2>4 DEF Admit
  <2>5. ASSUME NEW p \in Procs, RefuseJournal(p) PROVE TypeOK'
    BY <2>5 DEF RefuseJournal
  <2>6. ASSUME NEW p \in Procs, Prepare(p) PROVE TypeOK'
    BY <2>6 DEF Prepare
  <2>7. ASSUME NEW p \in Procs, PrepareFails(p) PROVE TypeOK'
    BY <2>7 DEF PrepareFails
  <2>8. ASSUME NEW p \in Procs, OpenRefuses(p) PROVE TypeOK'
    BY <2>8 DEF OpenRefuses
  <2>9. ASSUME NEW p \in Procs, OpenNothing(p) PROVE TypeOK'
    BY <2>9 DEF OpenNothing
  <2>10. ASSUME NEW p \in Procs, OpenBegins(p) PROVE TypeOK'
    BY <2>10 DEF OpenBegins
  <2>11. ASSUME NEW p \in Procs, OpenWrites(p) PROVE TypeOK'
    BY <2>11 DEF OpenWrites
  <2>12. ASSUME NEW p \in Procs, OpenWriteThrows(p) PROVE TypeOK'
    BY <2>12 DEF OpenWriteThrows
  <2>13. ASSUME NEW p \in Procs, Ready(p) PROVE TypeOK'
    BY <2>13 DEF Ready
  <2>14. ASSUME NEW p \in Procs, ReadyFails(p) PROVE TypeOK'
    BY <2>14 DEF ReadyFails
  <2>15. ASSUME NEW p \in Procs, TerraformWrites(p) PROVE TypeOK'
    BY <2>15 DEF TerraformWrites
  <2>16. ASSUME NEW p \in Procs, TerraformDone(p) PROVE TypeOK'
    BY <2>16 DEF TerraformDone
  <2>17. ASSUME NEW p \in Procs, TerraformFails(p) PROVE TypeOK'
    BY <2>17 DEF TerraformFails, AfterFailure
  <2>18. ASSUME NEW p \in Procs, BackupState(p) PROVE TypeOK'
    BY <2>18 DEF BackupState
  <2>19. ASSUME NEW p \in Procs, BackupThrows(p) PROVE TypeOK'
    BY <2>19 DEF BackupThrows, AfterFailure
  <2>20. ASSUME NEW p \in Procs, Finally(p) PROVE TypeOK'
    BY <2>20 DEF Finally
  <2>21. ASSUME NEW p \in Procs, CloseSkips(p) PROVE TypeOK'
    BY <2>21 DEF CloseSkips, NextFile
  <2>22. ASSUME NEW p \in Procs, CloseReads(p) PROVE TypeOK'
    BY <2>22 DEF CloseReads
  <2>23. ASSUME NEW p \in Procs, CloseWrites(p) PROVE TypeOK'
    BY <2>23 DEF CloseWrites
  <2>24. ASSUME NEW p \in Procs, CloseMoves(p) PROVE TypeOK'
    BY <2>24 DEF CloseMoves
  <2>25. ASSUME NEW p \in Procs, CloseMismatch(p) PROVE TypeOK'
    BY <2>25 DEF CloseMismatch
  <2>26. ASSUME NEW p \in Procs, CloseRemoves(p) PROVE TypeOK'
    BY <2>26 DEF CloseRemoves, NextFile, PlaintextLeft
  <2>27. ASSUME NEW p \in Procs, CloseThrows(p) PROVE TypeOK'
    BY <2>27 DEF CloseThrows, PlaintextLeft
  <2>28. ASSUME NEW p \in Procs, ExitLease(p) PROVE TypeOK'
    BY <2>28 DEF ExitLease, Gone
  <2>29. ASSUME NEW p \in Procs, Crash(p) PROVE TypeOK'
    <3>1. interrupted' \in BOOLEAN /\ cut' \in BOOLEAN
      BY <2>29, Zenon DEF Crash
    <3>2. plain' \in [Files -> Content] /\ lease' \in Procs \cup {NoProc}
      BY <2>29 DEF Crash
    <3>3. UNCHANGED <<sealed, fresh, backups, latest>> /\ Gone(p)
      BY <2>29, Zenon DEF Crash
    <3> QED
      BY <3>1, <3>2, <3>3 DEF Gone
  <2>30. CASE UNCHANGED vars
    BY <2>30 DEF vars
  <2> QED
    BY <2>1, <2>2, <2>3, <2>4, <2>5, <2>6, <2>7, <2>8, <2>9, <2>10, <2>11,
       <2>12, <2>13, <2>14, <2>15, <2>16, <2>17, <2>18, <2>19, <2>20,
       <2>21, <2>22, <2>23, <2>24, <2>25, <2>26, <2>27, <2>28, <2>29, <2>30
       DEF Next, Step, Enter, Open, Work, Close
<1> QED
  BY <1>1, <1>2, PTL DEF Spec

(***************************************************************************)
(* One invocation inside the boundary at a time (the named mutex).         *)
(***************************************************************************)
LEMMA LeaseStep ==
  ASSUME TypeOK, LeaseIsExclusive, [Next]_vars
  PROVE  LeaseIsExclusive'
<1> USE SealedStateAssumption
    DEF TypeOK, LeaseIsExclusive, Outside, Inside, Entering, Working, Closing, Goto, At, Moves, locals, files, history, Gone, NextFile, AfterFailure
<1>1. ASSUME NEW p \in Procs, Start(p) PROVE LeaseIsExclusive'
  BY <1>1 DEF Start
<1>2. ASSUME NEW p \in Procs, NEW t \in Targets, EnterLease(p, t) PROVE LeaseIsExclusive'
  BY <1>2 DEF EnterLease
<1>3. ASSUME NEW p \in Procs, RefuseLease(p) PROVE LeaseIsExclusive'
  BY <1>3 DEF RefuseLease, Gone
<1>4. ASSUME NEW p \in Procs, Admit(p) PROVE LeaseIsExclusive'
  BY <1>4 DEF Admit
<1>5. ASSUME NEW p \in Procs, RefuseJournal(p) PROVE LeaseIsExclusive'
  BY <1>5 DEF RefuseJournal
<1>6. ASSUME NEW p \in Procs, Prepare(p) PROVE LeaseIsExclusive'
  BY <1>6 DEF Prepare
<1>7. ASSUME NEW p \in Procs, PrepareFails(p) PROVE LeaseIsExclusive'
  BY <1>7 DEF PrepareFails
<1>8. ASSUME NEW p \in Procs, OpenRefuses(p) PROVE LeaseIsExclusive'
  BY <1>8 DEF OpenRefuses
<1>9. ASSUME NEW p \in Procs, OpenNothing(p) PROVE LeaseIsExclusive'
  BY <1>9 DEF OpenNothing
<1>10. ASSUME NEW p \in Procs, OpenBegins(p) PROVE LeaseIsExclusive'
  BY <1>10 DEF OpenBegins
<1>11. ASSUME NEW p \in Procs, OpenWrites(p) PROVE LeaseIsExclusive'
  BY <1>11 DEF OpenWrites
<1>12. ASSUME NEW p \in Procs, OpenWriteThrows(p) PROVE LeaseIsExclusive'
  BY <1>12 DEF OpenWriteThrows
<1>13. ASSUME NEW p \in Procs, Ready(p) PROVE LeaseIsExclusive'
  BY <1>13 DEF Ready
<1>14. ASSUME NEW p \in Procs, ReadyFails(p) PROVE LeaseIsExclusive'
  BY <1>14 DEF ReadyFails
<1>15. ASSUME NEW p \in Procs, TerraformWrites(p) PROVE LeaseIsExclusive'
  BY <1>15 DEF TerraformWrites
<1>16. ASSUME NEW p \in Procs, TerraformDone(p) PROVE LeaseIsExclusive'
  BY <1>16 DEF TerraformDone
<1>17. ASSUME NEW p \in Procs, TerraformFails(p) PROVE LeaseIsExclusive'
  BY <1>17 DEF TerraformFails, AfterFailure
<1>18. ASSUME NEW p \in Procs, BackupState(p) PROVE LeaseIsExclusive'
  BY <1>18 DEF BackupState
<1>19. ASSUME NEW p \in Procs, BackupThrows(p) PROVE LeaseIsExclusive'
  BY <1>19 DEF BackupThrows, AfterFailure
<1>20. ASSUME NEW p \in Procs, Finally(p) PROVE LeaseIsExclusive'
  BY <1>20 DEF Finally
<1>21. ASSUME NEW p \in Procs, CloseSkips(p) PROVE LeaseIsExclusive'
  BY <1>21 DEF CloseSkips, NextFile
<1>22. ASSUME NEW p \in Procs, CloseReads(p) PROVE LeaseIsExclusive'
  BY <1>22 DEF CloseReads
<1>23. ASSUME NEW p \in Procs, CloseWrites(p) PROVE LeaseIsExclusive'
  BY <1>23 DEF CloseWrites
<1>24. ASSUME NEW p \in Procs, CloseMoves(p) PROVE LeaseIsExclusive'
  BY <1>24 DEF CloseMoves
<1>25. ASSUME NEW p \in Procs, CloseMismatch(p) PROVE LeaseIsExclusive'
  BY <1>25 DEF CloseMismatch
<1>26. ASSUME NEW p \in Procs, CloseRemoves(p) PROVE LeaseIsExclusive'
  BY <1>26 DEF CloseRemoves, NextFile, PlaintextLeft
<1>27. ASSUME NEW p \in Procs, CloseThrows(p) PROVE LeaseIsExclusive'
  BY <1>27 DEF CloseThrows, PlaintextLeft
<1>28. ASSUME NEW p \in Procs, ExitLease(p) PROVE LeaseIsExclusive'
  BY <1>28 DEF ExitLease, Gone
<1>29. ASSUME NEW p \in Procs, Crash(p) PROVE LeaseIsExclusive'
  BY <1>29 DEF Crash, Gone, PlaintextLeft
<1>30. CASE UNCHANGED vars
  BY <1>30 DEF vars
<1> QED
  BY <1>1, <1>2, <1>3, <1>4, <1>5, <1>6, <1>7, <1>8, <1>9, <1>10, <1>11,
     <1>12, <1>13, <1>14, <1>15, <1>16, <1>17, <1>18, <1>19, <1>20,
     <1>21, <1>22, <1>23, <1>24, <1>25, <1>26, <1>27, <1>28, <1>29, <1>30
     DEF Next, Step, Enter, Open, Work, Close

(***************************************************************************)
(* At most one invocation is inside the boundary Enter-Phase2MutationLease *)
(* opens and Exit-Phase2MutationLease closes, killed holders included.     *)
(***************************************************************************)
THEOREM LeaseExclusion == Spec => []LeaseIsExclusive
<1>1. Init => LeaseIsExclusive
  BY SealedStateAssumption
     DEF Init, LeaseIsExclusive, Inside, Entering, Working, Closing
<1> QED
  BY <1>1, LeaseStep, TypeCorrect, PTL DEF Spec

(***************************************************************************)
(* Each part of SafetyInv survives every step, given the others.           *)
(***************************************************************************)
LEMMA SealStep ==
  ASSUME TypeOK, LeaseIsExclusive, SealInv, HolderInv, ExposureInv, [Next]_vars
  PROVE  SealInv'
<1> USE SealedStateAssumption
    DEF TypeOK, SealInv, HolderInv, Versions, Content, Files, Working, Goto, At, Moves, locals, files, history, Gone, NextFile, AfterFailure
<1>1. ASSUME NEW p \in Procs, Start(p) PROVE SealInv'
  BY <1>1 DEF Start
<1>2. ASSUME NEW p \in Procs, NEW t \in Targets, EnterLease(p, t) PROVE SealInv'
  BY <1>2 DEF EnterLease
<1>3. ASSUME NEW p \in Procs, RefuseLease(p) PROVE SealInv'
  BY <1>3 DEF RefuseLease, Gone
<1>4. ASSUME NEW p \in Procs, Admit(p) PROVE SealInv'
  BY <1>4 DEF Admit
<1>5. ASSUME NEW p \in Procs, RefuseJournal(p) PROVE SealInv'
  BY <1>5 DEF RefuseJournal
<1>6. ASSUME NEW p \in Procs, Prepare(p) PROVE SealInv'
  BY <1>6 DEF Prepare
<1>7. ASSUME NEW p \in Procs, PrepareFails(p) PROVE SealInv'
  BY <1>7 DEF PrepareFails
<1>8. ASSUME NEW p \in Procs, OpenRefuses(p) PROVE SealInv'
  BY <1>8 DEF OpenRefuses
<1>9. ASSUME NEW p \in Procs, OpenNothing(p) PROVE SealInv'
  BY <1>9 DEF OpenNothing
<1>10. ASSUME NEW p \in Procs, OpenBegins(p) PROVE SealInv'
  BY <1>10 DEF OpenBegins
<1>11. ASSUME NEW p \in Procs, OpenWrites(p) PROVE SealInv'
  BY <1>11 DEF OpenWrites
<1>12. ASSUME NEW p \in Procs, OpenWriteThrows(p) PROVE SealInv'
  BY <1>12 DEF OpenWriteThrows
<1>13. ASSUME NEW p \in Procs, Ready(p) PROVE SealInv'
  BY <1>13 DEF Ready
<1>14. ASSUME NEW p \in Procs, ReadyFails(p) PROVE SealInv'
  BY <1>14 DEF ReadyFails
<1>15. ASSUME NEW p \in Procs, TerraformWrites(p) PROVE SealInv'
  BY <1>15 DEF TerraformWrites
<1>16. ASSUME NEW p \in Procs, TerraformDone(p) PROVE SealInv'
  BY <1>16 DEF TerraformDone
<1>17. ASSUME NEW p \in Procs, TerraformFails(p) PROVE SealInv'
  BY <1>17 DEF TerraformFails, AfterFailure
<1>18. ASSUME NEW p \in Procs, BackupState(p) PROVE SealInv'
  BY <1>18 DEF BackupState
<1>19. ASSUME NEW p \in Procs, BackupThrows(p) PROVE SealInv'
  BY <1>19 DEF BackupThrows, AfterFailure
<1>20. ASSUME NEW p \in Procs, Finally(p) PROVE SealInv'
  BY <1>20 DEF Finally
<1>21. ASSUME NEW p \in Procs, CloseSkips(p) PROVE SealInv'
  BY <1>21 DEF CloseSkips, NextFile
<1>22. ASSUME NEW p \in Procs, CloseReads(p) PROVE SealInv'
  BY <1>22 DEF CloseReads
<1>23. ASSUME NEW p \in Procs, CloseWrites(p) PROVE SealInv'
  BY <1>23 DEF CloseWrites
<1>24. ASSUME NEW p \in Procs, CloseMoves(p) PROVE SealInv'
  BY <1>24 DEF CloseMoves
<1>25. ASSUME NEW p \in Procs, CloseMismatch(p) PROVE SealInv'
  BY <1>25 DEF CloseMismatch
<1>26. ASSUME NEW p \in Procs, CloseRemoves(p) PROVE SealInv'
  BY <1>26 DEF CloseRemoves, NextFile, PlaintextLeft
<1>27. ASSUME NEW p \in Procs, CloseThrows(p) PROVE SealInv'
  BY <1>27 DEF CloseThrows, PlaintextLeft
<1>28. ASSUME NEW p \in Procs, ExitLease(p) PROVE SealInv'
  BY <1>28 DEF ExitLease, Gone
<1>29. ASSUME NEW p \in Procs, Crash(p) PROVE SealInv'
  BY <1>29 DEF Crash, Gone, PlaintextLeft
<1>30. CASE UNCHANGED vars
  BY <1>30 DEF vars
<1> QED
  BY <1>1, <1>2, <1>3, <1>4, <1>5, <1>6, <1>7, <1>8, <1>9, <1>10, <1>11,
     <1>12, <1>13, <1>14, <1>15, <1>16, <1>17, <1>18, <1>19, <1>20,
     <1>21, <1>22, <1>23, <1>24, <1>25, <1>26, <1>27, <1>28, <1>29, <1>30
     DEF Next, Step, Enter, Open, Work, Close

(***************************************************************************)
(* No step breaks HolderInv: what the holder of the mutex knows about the  *)
(* files it opened stays true, because Enter-Phase2MutationLease keeps     *)
(* every other invocation out until ReleaseMutex.                          *)
(***************************************************************************)
LEMMA HolderStep ==
  ASSUME TypeOK, LeaseIsExclusive, SealInv, HolderInv, ExposureInv, [Next]_vars
  PROVE  HolderInv'
<1> USE SealedStateAssumption
    DEF TypeOK, LeaseIsExclusive, SealInv, HolderInv, Versions, Content, Files, Outside, Inside, Entering, Working, Closing, Goto, At, Moves, locals, files, history, Gone, NextFile, AfterFailure
<1>1. ASSUME NEW p \in Procs, Start(p) PROVE HolderInv'
  BY <1>1 DEF Start
<1>2. ASSUME NEW p \in Procs, NEW t \in Targets, EnterLease(p, t) PROVE HolderInv'
  BY <1>2 DEF EnterLease
<1>3. ASSUME NEW p \in Procs, RefuseLease(p) PROVE HolderInv'
  BY <1>3 DEF RefuseLease, Gone
<1>4. ASSUME NEW p \in Procs, Admit(p) PROVE HolderInv'
  <2>1. admitted'[p] \/ target'[p] \in Phase6Targets
    BY <1>4 DEF Admit
  <2>2. \A q \in Procs : /\ q # p => pc'[q] = pc[q] /\ admitted'[q] = admitted[q]
                         /\ opened'[q] = opened[q] /\ target'[q] = target[q]
                         /\ file'[q] = file[q] /\ bytes'[q] = bytes[q]
    BY <1>4 DEF Admit
  <2> QED
    BY <1>4, <2>1, <2>2 DEF Admit
<1>5. ASSUME NEW p \in Procs, RefuseJournal(p) PROVE HolderInv'
  BY <1>5 DEF RefuseJournal
<1>6. ASSUME NEW p \in Procs, Prepare(p) PROVE HolderInv'
  BY <1>6 DEF Prepare
<1>7. ASSUME NEW p \in Procs, PrepareFails(p) PROVE HolderInv'
  BY <1>7 DEF PrepareFails
<1>8. ASSUME NEW p \in Procs, OpenRefuses(p) PROVE HolderInv'
  BY <1>8 DEF OpenRefuses
<1>9. ASSUME NEW p \in Procs, OpenNothing(p) PROVE HolderInv'
  BY <1>9 DEF OpenNothing
<1>10. ASSUME NEW p \in Procs, OpenBegins(p) PROVE HolderInv'
  BY <1>10 DEF OpenBegins
<1>11. ASSUME NEW p \in Procs, OpenWrites(p) PROVE HolderInv'
  BY <1>11 DEF OpenWrites
<1>12. ASSUME NEW p \in Procs, OpenWriteThrows(p) PROVE HolderInv'
  BY <1>12 DEF OpenWriteThrows
<1>13. ASSUME NEW p \in Procs, Ready(p) PROVE HolderInv'
  BY <1>13 DEF Ready
<1>14. ASSUME NEW p \in Procs, ReadyFails(p) PROVE HolderInv'
  BY <1>14 DEF ReadyFails
<1>15. ASSUME NEW p \in Procs, TerraformWrites(p) PROVE HolderInv'
  BY <1>15 DEF TerraformWrites
<1>16. ASSUME NEW p \in Procs, TerraformDone(p) PROVE HolderInv'
  BY <1>16 DEF TerraformDone
<1>17. ASSUME NEW p \in Procs, TerraformFails(p) PROVE HolderInv'
  BY <1>17 DEF TerraformFails, AfterFailure
<1>18. ASSUME NEW p \in Procs, BackupState(p) PROVE HolderInv'
  BY <1>18 DEF BackupState
<1>19. ASSUME NEW p \in Procs, BackupThrows(p) PROVE HolderInv'
  BY <1>19 DEF BackupThrows, AfterFailure
<1>20. ASSUME NEW p \in Procs, Finally(p) PROVE HolderInv'
  BY <1>20 DEF Finally
<1>21. ASSUME NEW p \in Procs, CloseSkips(p) PROVE HolderInv'
  BY <1>21 DEF CloseSkips, NextFile
<1>22. ASSUME NEW p \in Procs, CloseReads(p) PROVE HolderInv'
  BY <1>22 DEF CloseReads
<1>23. ASSUME NEW p \in Procs, CloseWrites(p) PROVE HolderInv'
  BY <1>23 DEF CloseWrites
<1>24. ASSUME NEW p \in Procs, CloseMoves(p) PROVE HolderInv'
  BY <1>24 DEF CloseMoves
<1>25. ASSUME NEW p \in Procs, CloseMismatch(p) PROVE HolderInv'
  BY <1>25 DEF CloseMismatch
<1>26. ASSUME NEW p \in Procs, CloseRemoves(p) PROVE HolderInv'
  BY <1>26 DEF CloseRemoves, NextFile, PlaintextLeft
<1>27. ASSUME NEW p \in Procs, CloseThrows(p) PROVE HolderInv'
  BY <1>27 DEF CloseThrows, PlaintextLeft
<1>28. ASSUME NEW p \in Procs, ExitLease(p) PROVE HolderInv'
  BY <1>28 DEF ExitLease, Gone
<1>29. ASSUME NEW p \in Procs, Crash(p) PROVE HolderInv'
  BY <1>29 DEF Crash, Gone, PlaintextLeft
<1>30. CASE UNCHANGED vars
  BY <1>30 DEF vars
<1> QED
  BY <1>1, <1>2, <1>3, <1>4, <1>5, <1>6, <1>7, <1>8, <1>9, <1>10, <1>11,
     <1>12, <1>13, <1>14, <1>15, <1>16, <1>17, <1>18, <1>19, <1>20,
     <1>21, <1>22, <1>23, <1>24, <1>25, <1>26, <1>27, <1>28, <1>29, <1>30
     DEF Next, Step, Enter, Open, Work, Close

(***************************************************************************)
(* No step breaks ExposureInv: plaintext exists only while an invocation   *)
(* is going to run Close-SealedState over it, or after an interruption.    *)
(***************************************************************************)
LEMMA ExposureStep ==
  ASSUME TypeOK, LeaseIsExclusive, SealInv, HolderInv, ExposureInv, [Next]_vars
  PROVE  ExposureInv'
<1> USE SealedStateAssumption
    DEF TypeOK, LeaseIsExclusive, HolderInv, ExposureInv, WillClose, PlaintextLeft, Files, Outside, Inside, Entering, Working, Closing, Goto, At, Moves, locals, files, history, Gone, NextFile, AfterFailure
<1>1. ASSUME NEW p \in Procs, Start(p) PROVE ExposureInv'
  BY <1>1 DEF Start
<1>2. ASSUME NEW p \in Procs, NEW t \in Targets, EnterLease(p, t) PROVE ExposureInv'
  BY <1>2 DEF EnterLease
<1>3. ASSUME NEW p \in Procs, RefuseLease(p) PROVE ExposureInv'
  BY <1>3 DEF RefuseLease, Gone
<1>4. ASSUME NEW p \in Procs, Admit(p) PROVE ExposureInv'
  BY <1>4 DEF Admit
<1>5. ASSUME NEW p \in Procs, RefuseJournal(p) PROVE ExposureInv'
  BY <1>5 DEF RefuseJournal
<1>6. ASSUME NEW p \in Procs, Prepare(p) PROVE ExposureInv'
  BY <1>6 DEF Prepare
<1>7. ASSUME NEW p \in Procs, PrepareFails(p) PROVE ExposureInv'
  BY <1>7 DEF PrepareFails
<1>8. ASSUME NEW p \in Procs, OpenRefuses(p) PROVE ExposureInv'
  BY <1>8 DEF OpenRefuses
<1>9. ASSUME NEW p \in Procs, OpenNothing(p) PROVE ExposureInv'
  BY <1>9 DEF OpenNothing
<1>10. ASSUME NEW p \in Procs, OpenBegins(p) PROVE ExposureInv'
  BY <1>10 DEF OpenBegins
<1>11. ASSUME NEW p \in Procs, OpenWrites(p) PROVE ExposureInv'
  BY <1>11 DEF OpenWrites
<1>12. ASSUME NEW p \in Procs, OpenWriteThrows(p) PROVE ExposureInv'
  BY <1>12 DEF OpenWriteThrows
<1>13. ASSUME NEW p \in Procs, Ready(p) PROVE ExposureInv'
  BY <1>13 DEF Ready
<1>14. ASSUME NEW p \in Procs, ReadyFails(p) PROVE ExposureInv'
  BY <1>14 DEF ReadyFails
<1>15. ASSUME NEW p \in Procs, TerraformWrites(p) PROVE ExposureInv'
  BY <1>15 DEF TerraformWrites
<1>16. ASSUME NEW p \in Procs, TerraformDone(p) PROVE ExposureInv'
  BY <1>16 DEF TerraformDone
<1>17. ASSUME NEW p \in Procs, TerraformFails(p) PROVE ExposureInv'
  BY <1>17 DEF TerraformFails, AfterFailure
<1>18. ASSUME NEW p \in Procs, BackupState(p) PROVE ExposureInv'
  BY <1>18 DEF BackupState
<1>19. ASSUME NEW p \in Procs, BackupThrows(p) PROVE ExposureInv'
  BY <1>19 DEF BackupThrows, AfterFailure
<1>20. ASSUME NEW p \in Procs, Finally(p) PROVE ExposureInv'
  BY <1>20 DEF Finally
<1>21. ASSUME NEW p \in Procs, CloseSkips(p) PROVE ExposureInv'
  BY <1>21 DEF CloseSkips, NextFile
<1>22. ASSUME NEW p \in Procs, CloseReads(p) PROVE ExposureInv'
  BY <1>22 DEF CloseReads
<1>23. ASSUME NEW p \in Procs, CloseWrites(p) PROVE ExposureInv'
  BY <1>23 DEF CloseWrites
<1>24. ASSUME NEW p \in Procs, CloseMoves(p) PROVE ExposureInv'
  BY <1>24 DEF CloseMoves
<1>25. ASSUME NEW p \in Procs, CloseMismatch(p) PROVE ExposureInv'
  BY <1>25 DEF CloseMismatch
<1>26. ASSUME NEW p \in Procs, CloseRemoves(p) PROVE ExposureInv'
  BY <1>26 DEF CloseRemoves, NextFile, PlaintextLeft
<1>27. ASSUME NEW p \in Procs, CloseThrows(p) PROVE ExposureInv'
  BY <1>27 DEF CloseThrows, PlaintextLeft
<1>28. ASSUME NEW p \in Procs, ExitLease(p) PROVE ExposureInv'
  BY <1>28 DEF ExitLease, Gone
<1>29. ASSUME NEW p \in Procs, Crash(p) PROVE ExposureInv'
  BY <1>29 DEF Crash, Gone, PlaintextLeft
<1>30. CASE UNCHANGED vars
  BY <1>30 DEF vars
<1> QED
  BY <1>1, <1>2, <1>3, <1>4, <1>5, <1>6, <1>7, <1>8, <1>9, <1>10, <1>11,
     <1>12, <1>13, <1>14, <1>15, <1>16, <1>17, <1>18, <1>19, <1>20,
     <1>21, <1>22, <1>23, <1>24, <1>25, <1>26, <1>27, <1>28, <1>29, <1>30
     DEF Next, Step, Enter, Open, Work, Close

(***************************************************************************)
(* The inductive invariant of phase2.ps1's state boundary: mutual          *)
(* exclusion of the lease and the three facts it protects hold in every    *)
(* reachable state.                                                        *)
(***************************************************************************)
LEMMA SafetyInvariant == Spec => [](LeaseIsExclusive /\ SafetyInv)
<1>1. Init => SafetyInv
  <2> SUFFICES ASSUME Init PROVE SafetyInv
    OBVIOUS
  <2>1. SealInv
    BY SealedStateAssumption DEF Init, SealInv, Files, Versions
  <2>2. HolderInv
    BY DEF Init, HolderInv, Working, Closing
  <2>3. ExposureInv
    BY DEF Init, ExposureInv, PlaintextLeft, Entering, Closing
  <2> QED
    BY <2>1, <2>2, <2>3 DEF SafetyInv
<1>2. TypeOK /\ LeaseIsExclusive /\ SafetyInv /\ [Next]_vars => SafetyInv'
  BY SealStep, HolderStep, ExposureStep DEF SafetyInv
<1> QED
  BY <1>1, <1>2, TypeCorrect, LeaseExclusion, PTL DEF Spec

(***************************************************************************)
(* The newest Terraform state is in the plaintext or in the sealed file    *)
(* after any number of crashes, failures and retries of Open- and          *)
(* Close-SealedState, unless Open's own write can be cut short.            *)
(***************************************************************************)
THEOREM StateIsNeverLost == Spec => []LatestStateKept
<1>1. TypeOK /\ SafetyInv => LatestStateKept
  BY SealedStateAssumption
     DEF TypeOK, SafetyInv, SealInv, LatestStateKept, Content, Versions, Files
<1> QED
  BY <1>1, TypeCorrect, SafetyInvariant, PTL

(***************************************************************************)
(* With nobody inside the boundary, plaintext on disk means that a process *)
(* was killed or that sealing it threw.                                    *)
(***************************************************************************)
THEOREM SealedAtRest == Spec => []PlaintextOnlyAfterInterruption
<1>1. SafetyInv => PlaintextOnlyAfterInterruption
  BY DEF SafetyInv, ExposureInv, PlaintextOnlyAfterInterruption
<1> QED
  BY <1>1, SafetyInvariant, PTL

(***************************************************************************)
(* Terraform never writes on top of anything but the newest state, even    *)
(* when Open's write is cut short and the sealed file is damaged.          *)
(***************************************************************************)
THEOREM NoLostUpdate == Spec => NoForkedWrite
<1> DEFINE OnNewest ==
      latest' # latest => plain["state"] = (IF latest = 0 THEN Absent ELSE latest)
<1>1. ASSUME TypeOK, SafetyInv, [Next]_vars PROVE [OnNewest]_vars
  <2>1. ASSUME NEW p \in Procs, TerraformWrites(p) PROVE OnNewest
    BY <1>1, <2>1, SealedStateAssumption
       DEF TerraformWrites, At, TypeOK, SafetyInv, SealInv, HolderInv, Working,
           Content, Versions, Files
  <2>2. ASSUME latest' # latest PROVE \E p \in Procs : TerraformWrites(p)
    BY <1>1, <2>2
       DEF Next, Step, Enter, Open, Work, Close, Start, EnterLease, RefuseLease,
           Admit, RefuseJournal, Prepare, PrepareFails, OpenRefuses, OpenNothing,
           OpenBegins, OpenWrites, OpenWriteThrows, Ready, ReadyFails,
           TerraformDone, TerraformFails, BackupState, BackupThrows, Finally,
           CloseSkips, CloseReads, CloseWrites, CloseMoves, CloseMismatch,
           CloseRemoves, CloseThrows, ExitLease, Crash, files, history, vars
  <2> QED
    BY <2>1, <2>2
<1> QED
  BY <1>1, TypeCorrect, SafetyInvariant, PTL DEF Spec, NoForkedWrite

(***************************************************************************)
(* The steps that move the register: a Terraform write, entering, leaving  *)
(* or being killed inside the boundary, and those that change a file.      *)
(***************************************************************************)
LEMMA RegisterSteps ==
  ASSUME [Next]_vars
  PROVE  \/ \E p \in Procs : \/ TerraformWrites(p) \/ ExitLease(p) \/ Crash(p)
                             \/ \E t \in Targets : EnterLease(p, t)
                             \/ OpenBegins(p) \/ OpenWrites(p) \/ OpenWriteThrows(p)
                             \/ CloseMoves(p) \/ CloseRemoves(p)
         \/ UNCHANGED <<latest, lease, cut, plain, sealed>>
BY DEF Next, Step, Enter, Open, Work, Close, Start, RefuseLease, Admit,
       RefuseJournal, Prepare, PrepareFails, OpenRefuses, OpenNothing,
       Ready, ReadyFails, TerraformDone, TerraformFails, BackupState,
       BackupThrows, Finally, CloseSkips, CloseReads, CloseWrites,
       CloseMismatch, CloseThrows, files, history, vars

(***************************************************************************)
(* What can be read back is the newest version or, once a write of Open-   *)
(* SealedState was cut short, nothing.                                     *)
(***************************************************************************)
LEMMA RecoverableIsLatest ==
  ASSUME TypeOK, SafetyInv
  PROVE  Recoverable = latest \/ (cut /\ Recoverable = 0)
BY SealedStateAssumption
   DEF TypeOK, SafetyInv, SealInv, Recoverable, Content, Versions, Files

(***************************************************************************)
(* A step of Open- or Close-SealedState keeps what can be read back, or    *)
(* loses it after a write of Open was cut short.                           *)
(***************************************************************************)
LEMMA FileSteps ==
  ASSUME TypeOK, SafetyInv, NEW p \in Procs,
         \/ OpenBegins(p) \/ OpenWrites(p) \/ OpenWriteThrows(p)
         \/ CloseMoves(p) \/ CloseRemoves(p) \/ Crash(p)
  PROVE  Recoverable' = Recoverable \/ (cut /\ Recoverable' = 0)
<1> USE SealedStateAssumption
    DEF TypeOK, SafetyInv, SealInv, HolderInv, Recoverable, Content, Versions, Files,
        Goto, At, Moves, NextFile
<1>1. CASE OpenBegins(p)
  BY <1>1 DEF OpenBegins
<1>2. CASE OpenWrites(p)
  BY <1>2 DEF OpenWrites
<1>3. CASE OpenWriteThrows(p)
  BY <1>3 DEF OpenWriteThrows
<1>4. CASE CloseMoves(p)
  BY <1>4 DEF CloseMoves
<1>5. CASE CloseRemoves(p)
  BY <1>5 DEF CloseRemoves
<1>6. CASE Crash(p)
  BY <1>6 DEF Crash
<1> QED
  BY <1>1, <1>2, <1>3, <1>4, <1>5, <1>6

(***************************************************************************)
(* The boundary implements the register it promises: what can be read back *)
(* changes only by a write of the one process inside, by one version, and  *)
(* is lost only after Open's own write was cut short.                      *)
(***************************************************************************)
THEOREM BoundaryIsARegister == Spec => ImplementsRegister
<1> DEFINE Inv == TypeOK /\ LeaseIsExclusive /\ SafetyInv
<1>1. Init => Register!Init
  BY SealedStateAssumption DEF Init, Register!Init, Recoverable, Files, Versions
<1>2. ASSUME Inv, [Next]_vars PROVE [Register!Next]_<<Recoverable, lease, ~cut>>
  <2>1. ASSUME NEW p \in Procs, TerraformWrites(p) PROVE Register!Commit(p)
    <3>1. lease = p
      BY <1>2, <2>1 DEF TerraformWrites, At, LeaseIsExclusive, Inside, Working
    <3>2. Recoverable = latest
      BY <1>2, <2>1, SealedStateAssumption
         DEF TerraformWrites, At, TypeOK, SafetyInv, SealInv, HolderInv, Working,
             Recoverable, Content, Versions, Files
    <3>3. Recoverable' = latest + 1
      BY <1>2, <2>1 DEF TerraformWrites, TypeOK, Recoverable, Content, Versions, Files
    <3> QED
      BY <2>1, <3>1, <3>2, <3>3 DEF TerraformWrites, Register!Commit
  <2>2. ASSUME NEW p \in Procs, NEW t \in Targets, EnterLease(p, t)
        PROVE  Register!Acquire(p)
    BY <2>2 DEF EnterLease, Register!Acquire, files, history, Recoverable
  <2>3. ASSUME NEW p \in Procs, ExitLease(p) PROVE Register!Release(p)
    BY <1>2, <2>3
       DEF ExitLease, At, LeaseIsExclusive, Inside, Register!Release, files, history,
           Recoverable
  <2>4. ASSUME NEW p \in Procs,
               OpenBegins(p) \/ OpenWrites(p) \/ CloseMoves(p) \/ CloseRemoves(p)
        PROVE  Register!Lose(p) \/ UNCHANGED <<Recoverable, lease, cut>>
    <3>1. lease = p
      BY <1>2, <2>4
         DEF OpenBegins, OpenWrites, CloseMoves, CloseRemoves, Moves, At,
             LeaseIsExclusive, Inside, Entering, Closing
    <3>2. UNCHANGED <<lease, cut>>
      BY <2>4 DEF OpenBegins, OpenWrites, CloseMoves, CloseRemoves, history
    <3> QED
      BY <1>2, <2>4, <3>1, <3>2, FileSteps DEF Register!Lose
  <2>5. ASSUME NEW p \in Procs, OpenWriteThrows(p) PROVE Register!Damage(p)
    <3>1. lease = p
      BY <1>2, <2>5 DEF OpenWriteThrows, Moves, At, LeaseIsExclusive, Inside
    <3>2. Recoverable' = Recoverable
      BY <1>2, <2>5, SealedStateAssumption
         DEF OpenWriteThrows, Moves, At, TypeOK, SafetyInv, HolderInv, Recoverable,
             Versions, Files
    <3> QED
      BY <2>5, <3>1, <3>2 DEF OpenWriteThrows, Register!Damage
  <2>6. ASSUME NEW p \in Procs, Crash(p)
        PROVE  Register!Release(p) \/ UNCHANGED <<Recoverable, lease, cut>>
    <3>1. Recoverable' = Recoverable
      BY <1>2, <2>6, SealedStateAssumption
         DEF Crash, At, TypeOK, SafetyInv, HolderInv, Recoverable, Versions, Files
    <3>2. lease # p => UNCHANGED cut
      BY <1>2, <2>6 DEF Crash, At, LeaseIsExclusive, Inside
    <3>3. lease = p => cut' \in {cut, TRUE}
      BY <1>2, <2>6 DEF Crash, TypeOK
    <3> QED
      BY <1>2, <2>6, <3>1, <3>2, <3>3 DEF Crash, TypeOK, Register!Release
  <2>7. CASE UNCHANGED <<latest, lease, cut, plain, sealed>>
    BY <2>7 DEF Recoverable
  <2> QED
    BY <1>2, <2>1, <2>2, <2>3, <2>4, <2>5, <2>6, <2>7, RegisterSteps
       DEF Register!Next
<1> QED
  BY <1>1, <1>2, TypeCorrect, LeaseExclusion, SafetyInvariant, PTL
     DEF Spec, ImplementsRegister, Register!Spec, Register!regVars
==============================================================================
