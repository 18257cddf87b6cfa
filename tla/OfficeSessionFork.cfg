SPECIFICATION FairSpec
CONSTANTS
  e1 = e1
  e2 = e2
  x1 = x1
  NIL = NIL
  Requests = {e1, e2}
  Threads = {t1}
  ChildThread = c
  Kind <- KindOfRequest
  Units = 1
  Warnings = 0
  PipeCapacity = 1
  MaxFaults = 1
  MaxForks = 1
PROPERTIES
  RequestEnds
  WorkersExit
CHECK_DEADLOCK FALSE
