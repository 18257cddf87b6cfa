SPECIFICATION Spec
CONSTANTS
  e1 = e1
  e2 = e2
  x1 = x1
  NIL = NIL
  Requests = {e1, e2, x1}
  Threads = {t1, t2}
  ChildThread = c
  Kind <- KindOfRequest
  Units = 1
  Warnings = 1
  PipeCapacity = 1
  MaxFaults = 1
  MaxForks = 0
SYMMETRY Alike
INVARIANTS
  IdleSessionIsClean
  AnswersAreComplete
  NoStrayWorker
CHECK_DEADLOCK FALSE
