SPECIFICATION Spec
CONSTANTS
  Exporters = {e1, e2}
  Chunks = 2
  HasDirectoryFlag = TRUE
  MaxCancels = 1
  MaxFaults = 1
  MaxKills = 0
  MaxOutages = 1
SYMMETRY ExporterSymmetry
INVARIANTS
  TargetComplete
  ReturnedIsDurable
  NoOrphanTemp
CHECK_DEADLOCK FALSE
