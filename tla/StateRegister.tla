---------------------------- MODULE StateRegister ----------------------------
(***************************************************************************)
(* What the protected Terraform-state boundary of scripts/infra/phase2.ps1 *)
(* promises to its callers: one register holding the newest state version, *)
(* changed only by the process that holds the boundary, one version at a   *)
(* time, and never lost, whichever file currently carries it.  A write of  *)
(* the boundary itself that is cut short ends the last of these promises,  *)
(* and only that one: the register may then read as never written.         *)
(***************************************************************************)
EXTENDS Naturals

CONSTANTS Procs, NoProc

VARIABLES
  value,    \* the newest version anybody can still read back; 0: none
  holder,   \* the process inside the boundary, or NoProc
  intact    \* no write of the boundary was cut short yet

regVars == <<value, holder, intact>>

Init == value = 0 /\ holder = NoProc /\ intact = TRUE

Acquire(p) ==
  /\ holder = NoProc
  /\ holder' = p
  /\ UNCHANGED <<value, intact>>

Commit(p) ==
  /\ holder = p
  /\ value' = value + 1
  /\ UNCHANGED <<holder, intact>>

\* An orderly exit and a killed process look the same from outside, except that
\* the latter may leave a damaged copy behind.
Release(p) ==
  /\ holder = p
  /\ holder' = NoProc
  /\ intact' \in {intact, FALSE}
  /\ UNCHANGED value

Damage(p) ==
  /\ holder = p
  /\ intact' = FALSE
  /\ UNCHANGED <<value, holder>>

Lose(p) ==
  /\ holder = p
  /\ ~intact
  /\ value' = 0
  /\ UNCHANGED <<holder, intact>>

Next ==
  \E p \in Procs : Acquire(p) \/ Commit(p) \/ Release(p) \/ Damage(p) \/ Lose(p)

Spec == Init /\ [][Next]_regVars
==============================================================================
