SPECIFICATION Spec
CONSTANTS
  rancher = rancher
  monitoring = monitoring
  Lock = Lock
  Limit = Limit
  Crs = Crs
  Projection = Projection
  Baseline = Baseline
  Candidate = Candidate
  None = None
  Torn = Torn
  Components <- MCComponents
  RenderOrder <- MCRenderOrder
  AdmitOrder <- MCAdmitOrder
  Files <- MCFiles
  Reads <- MCReads
  Versions = {1, 2, 3}
  Figures <- MCFigures
  Variants <- MCVariants
  Exact = {1}
  MaxEdits = 2
INVARIANTS AdmissionIsCurrent VerifyReproduces EvidenceIsBound
