SPECIFICATION PatientSpec
CONSTANTS
  Items = 5
  MaxSize = 3
  BatchSize = 2
  MaxCancels = 1
  MaxEmpty = 0
  ConcurrentClose = FALSE
PROPERTIES
  Resumable
CHECK_DEADLOCK FALSE
