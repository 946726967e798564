CONSTANTS
  Parts = {"runs", "steps", "specs", "targets", "ws", "tail"}
  Job = {c1, c2}
  maxConcurrentRuns = 1
  maxFinishedRuns = 1
  runSeconds = 1
  stepSeconds = 1
  runLeaseTTLMargin = 2
  StrictDrift = TRUE
  MaxSteps = 3
  MaxEntries = 3
  TLease = {l1, l2}
  TCall = {c1, c2}
  NoTLease = none
  maxBootWaiters = 1
  MaxBatch = 2
  MaxWsRequests = 3
  maxAsyncWSRequests = 2
  OutRoom = 1
  EventRoom = 1
  MaxAppends = 4
  FeedRoom = 1
  ReadsFail = FALSE
SPECIFICATION ServerSpec
SYMMETRY ServerSymmetry
INVARIANTS
  ServerTypeOK
  
  TargetsSound
  
CHECK_DEADLOCK FALSE
