--------------------------- MODULE GitOpsBootstrap ---------------------------
(***************************************************************************)
(* scripts/bootstrap-gitops.sh with bootstrap/argocd/install.sh, run by    *)
(* one operator against one cluster: Argo CD is installed with Helm, the   *)
(* generated administrator password is rotated to one kept in an external  *)
(* file, the reviewer gets a password, session tokens are written, and the *)
(* root Application is applied.  A run may stop at any step and is then    *)
(* started again; the next run decides from the cluster and from the files *)
(* what is left to do.  install.sh --rollback may be run in between.       *)
(***************************************************************************)
EXTENDS Integers

CONSTANTS
  CRDs,       \* the custom resource definitions of the pinned chart
  Generated,  \* passwords `openssl rand` may produce
  Initial,    \* the password argocd-server generates for itself
  Absent,     \* no file, no password
  Empty,      \* a file created or truncated, nothing written yet
  Torn,       \* a file with some of its bytes
  Faults,     \* which of FaultKinds happen
  MaxFaults   \* bound on the number of faults

FaultKinds ==
  { "fail",   \* a command fails or times out without changing anything
    "crash",  \* the script is killed
    "lost",   \* a PUT is applied, its answer is not received
    "helm" }  \* Helm gives up waiting for the workloads

\* Assumed where the constants are given values or names (ClusterGitOps).
GitOpsBootstrapAssumption ==
  /\ Faults \subseteq FaultKinds
  /\ MaxFaults \in Nat
  /\ Initial \notin Generated
  /\ {Absent, Empty, Torn} \cap (Generated \cup {Initial}) = {}
  /\ Absent # Empty /\ Absent # Torn /\ Empty # Torn

VARIABLES
  pc,         \* next step of the run
  account,    \* whose credential the run is working on
  desired,    \* $desired_password and $reviewer_password
  seen,       \* $initial_secret_exists
  existing,   \* $release_exists
  ns,         \* namespace argocd exists
  release,    \* status of the Helm release's last revision
  good,       \* the release history has a deployed revision
  crds,       \* CRDs that exist, created from the pinned chart
  server,     \* each account's password on the Argo CD server
  initSecret, \* argocd-initial-admin-secret exists
  file,       \* the two external password files
  token,      \* the two token files: the password the session was opened with
  root,       \* Application platform-root exists
  ok,         \* the last run ended with [PASS]
  faults      \* number of faults so far

locals  == <<account, desired, seen, existing>>
helm    == <<ns, release, good, crds>>
secrets == <<server, initSecret>>
disk    == <<file, token>>
vars    == <<pc, locals, helm, secrets, disk, root, ok, faults>>

Accounts == {"admin", "reviewer"}

\* `helm list` without --all shows deployed and failed releases only.
Listed == {"deployed", "failed"}

Steps == { "namespace", "crds", "helm", "helming", "wait", "secret", "file",
           "writing", "read", "rotate", "delete", "session", "put", "token",
           "root", "sync", "rollback" }

TypeOK ==
  /\ pc \in Steps \cup {"idle"}
  /\ account \in Accounts
  /\ desired \in [Accounts -> Generated \cup {Absent}]
  /\ seen \in BOOLEAN
  /\ existing \in BOOLEAN
  /\ ns \in BOOLEAN
  /\ release \in Listed \cup {"none", "pending"}
  /\ good \in BOOLEAN
  /\ crds \subseteq CRDs
  /\ server \in [Accounts -> Generated \cup {Initial, Absent}]
  /\ initSecret \in BOOLEAN
  /\ file \in [Accounts -> Generated \cup {Absent, Empty, Torn}]
  /\ token \in [Accounts -> Generated \cup {Absent}]
  /\ root \in BOOLEAN
  /\ ok \in BOOLEAN
  /\ faults \in 0..MaxFaults

\* A cluster without Argo CD, a host without credential files.
Init ==
  /\ pc = "idle"
  /\ account = "admin"
  /\ desired = [a \in Accounts |-> Absent]
  /\ seen = FALSE /\ existing = FALSE
  /\ ns = FALSE /\ release = "none" /\ good = FALSE /\ crds = {}
  /\ server = [a \in Accounts |-> Absent]
  /\ initSecret = FALSE
  /\ file = [a \in Accounts |-> Absent]
  /\ token = [a \in Accounts |-> Absent]
  /\ root = FALSE /\ ok = FALSE
  /\ faults = 0

Moves(from, to) == pc = from /\ pc' = to

Fault(kind) ==
  /\ kind \in Faults
  /\ faults < MaxFaults
  /\ faults' = faults + 1

------------------------------------------------------------------------------
(* install.sh: namespace, CRDs, Helm. *)

StartInstall ==
  /\ Moves("idle", "namespace")
  /\ account' = "admin"
  /\ desired' = [a \in Accounts |-> Absent]
  /\ seen' = FALSE /\ existing' = FALSE
  /\ ok' = FALSE
  /\ UNCHANGED <<helm, secrets, disk, root, faults>>

\* An existing namespace must hold exactly the pinned release.
CheckNamespace ==
  /\ ns => release \in Listed
  /\ Moves("namespace", "crds")
  /\ existing' = ns
  /\ UNCHANGED <<account, desired, seen, helm, secrets, disk, root, ok, faults>>

RefuseNamespace ==
  /\ ns /\ release \notin Listed
  /\ Moves("namespace", "idle")
  /\ UNCHANGED <<locals, helm, secrets, disk, root, ok, faults>>

\* Any failure of `kubectl get namespace` counts as: there is no namespace.  Then
\* only a release that `helm list` shows stops the run.
MisreadNamespace ==
  /\ ns /\ release \notin Listed
  /\ Fault("fail")
  /\ Moves("namespace", "crds")
  /\ existing' = FALSE
  /\ UNCHANGED <<account, desired, seen, helm, secrets, disk, root, ok>>

\* Only missing CRDs are created, one after the other, never beside a release.
CreateCrd(c) ==
  /\ pc = "crds"
  /\ c \in CRDs \ crds
  /\ ~existing
  /\ crds' = crds \cup {c}
  /\ UNCHANGED <<pc, locals, ns, release, good, secrets, disk, root, ok, faults>>

\* Every CRD matches the chart and is established.
CrdsReady ==
  /\ crds = CRDs
  /\ Moves("crds", "helm")
  /\ UNCHANGED <<locals, helm, secrets, disk, root, ok, faults>>

\* helm upgrade --install --create-namespace --atomic ...
HelmBegins ==
  /\ release # "pending"
  /\ Moves("helm", "helming")
  /\ ns' = TRUE
  /\ release' = "pending"
  /\ UNCHANGED <<locals, good, crds, secrets, disk, root, ok, faults>>

\* "another operation (install/upgrade/rollback) is in progress"
HelmRefuses ==
  /\ release = "pending"
  /\ Moves("helm", "idle")
  /\ UNCHANGED <<locals, helm, secrets, disk, root, ok, faults>>

\* ... --wait: the workloads are ready, argocd-server among them.
HelmSucceeds ==
  /\ server["admin"] # Absent
  /\ Moves("helming", "wait")
  /\ release' = "deployed"
  /\ good' = TRUE
  /\ UNCHANGED <<locals, ns, crds, secrets, disk, root, ok, faults>>

(***************************************************************************)
(* --atomic: a failed first install is uninstalled, a failed upgrade goes  *)
(* back to the last deployed revision, if there is one.  The namespace and *)
(* the CRDs stay, and so does the initial secret, which argocd-server made *)
(* by itself.                                                              *)
(***************************************************************************)
HelmFails ==
  /\ Fault("helm")
  /\ Moves("helming", "idle")
  /\ release' = IF ~existing THEN "none" ELSE IF good THEN "deployed" ELSE "failed"
  /\ server' = IF ~existing THEN [a \in Accounts |-> Absent] ELSE server
  /\ UNCHANGED <<locals, ns, good, crds, initSecret, disk, root, ok>>

\* install.sh --rollback <revision>: any revision in the history will do that was
\* made of the pinned chart, whatever became of it, a pending first install as well.
StartRollback ==
  /\ release # "none"
  /\ Moves("idle", "rollback")
  /\ release' = "pending"
  /\ UNCHANGED <<locals, ns, good, crds, secrets, disk, root, ok, faults>>

\* --wait, as above
RollbackDone ==
  /\ server["admin"] # Absent
  /\ Moves("rollback", "idle")
  /\ release' = "deployed"
  /\ good' = TRUE
  /\ UNCHANGED <<locals, ns, crds, secrets, disk, root, ok, faults>>

RollbackFails ==
  /\ Fault("helm")
  /\ Moves("rollback", "idle")
  /\ release' = "failed"
  /\ UNCHANGED <<locals, ns, good, crds, secrets, disk, root, ok>>

\* External: a first argocd-server makes its own password and the secret.
ServerStarts ==
  /\ release # "none"
  /\ server["admin"] = Absent
  /\ server' = [server EXCEPT !["admin"] = Initial]
  /\ initSecret' = TRUE
  /\ UNCHANGED <<pc, locals, helm, disk, root, ok, faults>>

------------------------------------------------------------------------------
(* bootstrap-gitops.sh: the administrator, the reviewer, the tokens. *)

\* wait-for-argocd.sh: the pinned release is listed, its workloads are ready.
WaitForArgocd ==
  /\ Moves("wait", "secret")
  /\ UNCHANGED <<locals, helm, secrets, disk, root, ok, faults>>

\* Any failure of `kubectl get secret` counts as: there is no such secret.
ReadSecret ==
  /\ Moves("secret", "file")
  /\ \/ seen' = initSecret /\ UNCHANGED faults
     \/ seen' = FALSE /\ Fault("fail")
  /\ UNCHANGED <<account, desired, existing, helm, secrets, disk, root, ok>>

KeepFile ==
  /\ file[account] # Absent
  /\ Moves("file", "read")
  /\ UNCHANGED <<locals, helm, secrets, disk, root, ok, faults>>

\* Mutant: an existing file is generated anew.
GenerateAlways(g) ==
  /\ account = "admin" => seen
  /\ Moves("file", "writing")
  /\ desired' = [desired EXCEPT ![account] = g]
  /\ file' = [file EXCEPT ![account] = Empty]
  /\ UNCHANGED <<account, seen, existing, helm, secrets, token, root, ok, faults>>

\* The redirection creates the file, `printf` fills it.
Generate(g) ==
  /\ file[account] = Absent
  /\ account = "admin" => seen
  /\ Moves("file", "writing")
  /\ desired' = [desired EXCEPT ![account] = g]
  /\ file' = [file EXCEPT ![account] = Empty]
  /\ UNCHANGED <<account, seen, existing, helm, secrets, token, root, ok, faults>>

NoCredential ==
  /\ file[account] = Absent
  /\ account = "admin" /\ ~seen
  /\ Moves("file", "idle")
  /\ UNCHANGED <<locals, helm, secrets, disk, root, ok, faults>>

WriteFile ==
  /\ Moves("writing", "read")
  /\ file' = [file EXCEPT ![account] = desired[account]]
  /\ UNCHANGED <<locals, helm, secrets, token, root, ok, faults>>

\* Mutant: a password that is already external is taken for rotated.
AfterReadTrusting == IF account = "reviewer" THEN "put" ELSE "session"

AfterRead ==
  IF account = "reviewer" THEN "put" ELSE IF seen THEN "rotate" ELSE "session"

ReadFile ==
  /\ file[account] \in Generated
  /\ Moves("read", AfterRead)
  /\ desired' = [desired EXCEPT ![account] = file[account]]
  /\ UNCHANGED <<account, seen, existing, helm, secrets, disk, root, ok, faults>>

\* `read` fails, or the format contract of the credential does.
RefuseFile ==
  /\ file[account] \notin Generated
  /\ Moves("read", "idle")
  /\ UNCHANGED <<locals, helm, secrets, disk, root, ok, faults>>

\* A session with the initial password changes it to the external one.
Rotate ==
  /\ server["admin"] = Initial
  /\ Moves("rotate", "delete")
  /\ server' = [server EXCEPT !["admin"] = desired["admin"]]
  /\ UNCHANGED <<locals, helm, initSecret, disk, root, ok, faults>>

RefuseRotate ==
  /\ server["admin"] # Initial
  /\ Moves("rotate", "idle")
  /\ UNCHANGED <<locals, helm, secrets, disk, root, ok, faults>>

DeleteSecret ==
  /\ Moves("delete", "session")
  /\ initSecret' = FALSE
  /\ UNCHANGED <<locals, helm, server, disk, root, ok, faults>>

\* The administrator changes the reviewer's password.
PutReviewer ==
  /\ Moves("put", "session")
  /\ server' = [server EXCEPT !["reviewer"] = desired["reviewer"]]
  /\ UNCHANGED <<locals, helm, initSecret, disk, root, ok, faults>>

\* curl --fail: the change was made, the script stops all the same.
PutLost ==
  /\ Fault("lost")
  /\ \/ Moves("rotate", "idle") /\ server["admin"] = Initial
     \/ Moves("put", "idle")
  /\ server' = [server EXCEPT ![account] = desired[account]]
  /\ UNCHANGED <<locals, helm, initSecret, disk, root, ok>>

\* Mutant: create_session's result is not looked at.
SessionUnverified ==
  /\ Moves("session", IF account = "admin" THEN "file" ELSE "token")
  /\ account' = IF account = "admin" THEN "reviewer" ELSE "admin"
  /\ UNCHANGED <<desired, seen, existing, helm, secrets, disk, root, ok, faults>>

\* create_session and verify_session for one account, then the next one.
Session ==
  /\ server[account] = desired[account]
  /\ Moves("session", IF account = "admin" THEN "file" ELSE "token")
  /\ account' = IF account = "admin" THEN "reviewer" ELSE "admin"
  /\ UNCHANGED <<desired, seen, existing, helm, secrets, disk, root, ok, faults>>

RefuseSession ==
  /\ server[account] # desired[account]
  /\ Moves("session", "idle")
  /\ UNCHANGED <<locals, helm, secrets, disk, root, ok, faults>>

\* Mutant: the reviewer's token is not replaced.
WriteTokenOnce ==
  /\ Moves("token", "root")
  /\ token' = [token EXCEPT ![account] = desired[account]]
  /\ account' = "reviewer"
  /\ UNCHANGED <<desired, seen, existing, helm, secrets, file, root, ok, faults>>

\* atomic_write_token: the old token or the new one, never part of one.
WriteToken ==
  /\ Moves("token", IF account = "admin" THEN "token" ELSE "root")
  /\ token' = [token EXCEPT ![account] = desired[account]]
  /\ account' = "reviewer"
  /\ UNCHANGED <<desired, seen, existing, helm, secrets, file, root, ok, faults>>

ApplyRoot ==
  /\ Moves("root", "sync")
  /\ root' = TRUE
  /\ UNCHANGED <<locals, helm, secrets, disk, ok, faults>>

\* Healthy and Synced before the deadline, one day-zero Application.
Synced ==
  /\ Moves("sync", "idle")
  /\ ok' = TRUE
  /\ UNCHANGED <<locals, helm, secrets, disk, root, faults>>

------------------------------------------------------------------------------
(* What stops a run. *)

Fail ==
  /\ Fault("fail")
  /\ pc \notin {"idle", "helming", "writing", "rollback"}
  /\ pc' = "idle"
  /\ UNCHANGED <<locals, helm, secrets, disk, root, ok>>

\* Helm creates the namespace before it records a first release.
Crash ==
  /\ Fault("crash")
  /\ pc # "idle"
  /\ pc' = "idle"
  /\ IF pc = "writing"
       THEN \E c \in {Empty, Torn} : file' = [file EXCEPT ![account] = c]
       ELSE UNCHANGED file
  /\ IF pc = "helming" /\ ~existing /\ server["admin"] = Absent
       THEN release' \in {"pending", "none"}
       ELSE UNCHANGED release
  /\ UNCHANGED <<locals, ns, good, crds, secrets, token, root, ok>>

Install == \/ CheckNamespace \/ RefuseNamespace \/ HelmRefuses \/ (\E c \in CRDs : CreateCrd(c))
           \/ CrdsReady \/ HelmBegins \/ HelmSucceeds \/ RollbackDone

Credentials ==
  \/ WaitForArgocd \/ ReadSecret \/ KeepFile \/ (\E g \in Generated : Generate(g))
  \/ NoCredential \/ WriteFile \/ ReadFile \/ RefuseFile \/ Rotate \/ RefuseRotate
  \/ DeleteSecret \/ PutReviewer \/ Session \/ RefuseSession \/ WriteToken

Handover == ApplyRoot \/ Synced

Run == Install \/ Credentials \/ Handover

Next == \/ StartInstall \/ StartRollback \/ Run \/ ServerStarts
        \/ MisreadNamespace \/ HelmFails \/ RollbackFails \/ PutLost \/ Fail \/ Crash

Spec == Init /\ [][Next]_vars

(***************************************************************************)
(* A run keeps executing, a deployed argocd-server starts, and the         *)
(* operator keeps repeating the bootstrap and, where there is a revision   *)
(* to go to, the rollback.                                                 *)
(***************************************************************************)
FairSpec ==
  /\ Spec
  /\ WF_vars(Run) /\ WF_vars(ServerStarts)
  /\ SF_vars(StartInstall) /\ SF_vars(StartRollback)

------------------------------------------------------------------------------
(***************************************************************************)
(* Argo CD can always be administered: the password the server accepts is  *)
(* in the external file or still in the initial secret, wherever a run     *)
(* stopped between generating, writing, changing and deleting.             *)
(***************************************************************************)
AdministratorKept ==
  \/ server["admin"] = Absent
  \/ server["admin"] = file["admin"]
  \/ server["admin"] = Initial /\ initSecret

(***************************************************************************)
(* A successful bootstrap stays one: both external passwords are the       *)
(* server's, both tokens were opened with them, and the initial password   *)
(* is no longer anybody's, until the next run starts.                      *)
(***************************************************************************)
SuccessHolds ==
  ok => /\ server["admin"] # Initial
        /\ \A a \in Accounts : server[a] = file[a] /\ token[a] = server[a]

(***************************************************************************)
(* Nothing is handed over unproven: a token file changes, and the root     *)
(* Application appears, only while both external passwords open a session. *)
(***************************************************************************)
HandoverIsProven ==
  [][<<token, root>>' # <<token, root>> =>
       \A a \in Accounts : server[a] = file[a] /\ server[a] \in Generated]_vars

(***************************************************************************)
(* The states from which repeating the scripts never helps, unless a query *)
(* of the namespace happens to fail: a namespace left by a first install   *)
(* that Helm removed or never began to record, an initial secret that      *)
(* outlived its password, a cut-short password file.                       *)
(***************************************************************************)
Wedged ==
  /\ pc = "idle"
  /\ \/ ns /\ release = "none"
     \/ initSecret /\ server["admin"] \notin {Initial, Absent}
     \/ \E a \in Accounts : file[a] \in {Empty, Torn}

\* Every other interrupted bootstrap can be repeated until it succeeds.
OnlyKnownWedges == []<>(ok \/ Wedged)
==============================================================================
