SPECIFICATION FairSpec
CONSTANTS
  Items = 5
  MaxSize = 1
  BatchSize = 2
  MaxCancels = 1
  MaxEmpty = 1
  ConcurrentClose = FALSE
PROPERTIES
  ProducerNeverStuck
CHECK_DEADLOCK FALSE
