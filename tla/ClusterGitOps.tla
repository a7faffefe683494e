----------------------------- MODULE ClusterGitOps -----------------------------
(***************************************************************************)
(* The GitOps bootstrap of a cluster under names of its own, so that one   *)
(* module can speak of it and of the cluster's RKE2 bootstrap before it:   *)
(* both are walked by an operator who repeats them, and they share nothing *)
(* but the running cluster the second one starts from.                     *)
(***************************************************************************)
CONSTANTS
  CRDs,         \* the custom resource definitions of the pinned chart
  Passwords,    \* those `openssl rand` may produce
  Initial,      \* the password argocd-server generates for itself
  NoPassword,   \* no file, no password
  Empty,        \* a file created or truncated, nothing written yet
  Torn,         \* a file with some of its bytes
  GitOpsFaults, \* which of the bootstrap's FaultKinds happen
  MaxMishaps    \* bound on the number of faults

VARIABLES
  at,         \* next step of the run
  account,    \* whose credential the run is working on
  desired,    \* $desired_password and $reviewer_password
  seen,       \* $initial_secret_exists
  existing,   \* $release_exists
  ns,         \* namespace argocd exists
  release,    \* status of the Helm release's last revision
  good,       \* the release history has a deployed revision
  crds,       \* CRDs that exist
  server,     \* each account's password on the Argo CD server
  initSecret, \* argocd-initial-admin-secret exists
  file,       \* the two external password files
  session,    \* the two token files: the password each was opened with
  root,       \* Application platform-root exists
  done,       \* the last run ended with [PASS]
  mishaps     \* number of faults so far

GitOps == INSTANCE GitOpsBootstrap WITH
  Generated <- Passwords, Absent <- NoPassword, Faults <- GitOpsFaults,
  MaxFaults <- MaxMishaps, pc <- at, token <- session, ok <- done, faults <- mishaps

ASSUME ClusterGitOpsAssumption == GitOps!GitOpsBootstrapAssumption

GitOpsSpec == GitOps!Spec
FairGitOps == GitOps!FairSpec

------------------------------------------------------------------------------
(***************************************************************************)
(* Every variable of the bootstrap keeps its type.                         *)
(***************************************************************************)
GitOpsTypeOK == GitOps!TypeOK

(***************************************************************************)
(* The password the Argo CD server accepts is in the external file or      *)
(* still in the initial secret, wherever a run stopped.                    *)
(***************************************************************************)
AdministratorKept == GitOps!AdministratorKept

(***************************************************************************)
(* Files, tokens and server agree after a successful bootstrap, and the    *)
(* initial password is nobody's.                                           *)
(***************************************************************************)
SuccessHolds == GitOps!SuccessHolds

(***************************************************************************)
(* A token file or the root Application only appears or changes while both *)
(* external passwords open a session.                                      *)
(***************************************************************************)
HandoverIsProven == GitOps!HandoverIsProven

(***************************************************************************)
(* Repeating bootstrap and rollback succeeds again and again, except from  *)
(* the leftovers that GitOpsBootstrap's Wedged names.                      *)
(***************************************************************************)
OnlyGitOpsWedges == GitOps!OnlyKnownWedges
================================================================================
