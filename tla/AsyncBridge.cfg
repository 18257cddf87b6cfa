SPECIFICATION FairSpec
CONSTANTS
  Items = 5
  MaxSize = 3
  BatchSize = 2
  MaxCancels = 2
  MaxEmpty = 1
  ConcurrentClose = TRUE
INVARIANTS
  InOrder
  IteratorExclusive
  ReportIsHonest
PROPERTIES
  ProducerNeverStuck
  CloseCompletes
CHECK_DEADLOCK FALSE
