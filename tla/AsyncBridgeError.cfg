SPECIFICATION Spec
CONSTANTS
  Items = 5
  MaxSize = 3
  BatchSize = 2
  MaxCancels = 1
  MaxEmpty = 0
  ConcurrentClose = FALSE
INVARIANTS
  ErrorSurvivesCancel
CHECK_DEADLOCK FALSE
