SPECIFICATION FairGitOps
CONSTANTS
  CRDs = {app, proj}
  Passwords = {g1, g2}
  Initial = Initial
  NoPassword = NoPassword
  Empty = Empty
  Torn = Torn
  GitOpsFaults = {"fail", "crash", "lost", "helm"}
  MaxMishaps = 3
INVARIANTS AdministratorKept SuccessHolds
PROPERTIES HandoverIsProven OnlyGitOpsWedges
