SPECIFICATION Spec
CONSTANTS
  Renders <- MCRenders
  Evidence <- MCEvidence
  Existing = 2
  Reserve = 2
  DiskReserve = 1
INVARIANTS ReserveRemains NoResourceScattered WorkloadFitsAlone RequestIsExact VolumeSumsFit
CHECK_DEADLOCK FALSE
