SPECIFICATION FairSpec
CONSTANTS
  Exporters = {e1}
  Chunks = 2
  HasDirectoryFlag = FALSE
  MaxCancels = 3
  MaxFaults = 2
  MaxKills = 1
  MaxOutages = 0
INVARIANTS
  CancelledIsQuiet
PROPERTIES
  NoLateReplace
  CancellationHonoured
  ExportEnds
CHECK_DEADLOCK FALSE
