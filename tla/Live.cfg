CONSTANTS
  Lease = {l1, l2}
  Target = {x1}
  Device = {}
  Key = {"any"}
  Matches <- OnlyTarget
  Asked = {"none", "erase"}
  Listings <- AlwaysListed
  Grace = TRUE
  Clearable = {}
  Poolable = {}
  MaxFinish = 1
  Rec = {r1}
  RecRun = {u1}
  Sim = {t1}
  NoRec = NoRec
  MaxConcurrent = 1
  Overlap = FALSE
  Hub = {h1}
  HubTarget = {t1}
  Viewer = {v1}
  NoHub = NoHub
  MaxStreams = 1
  MaxViewers = 1
  MaxOpens = 3
  FHost = {f1}
  Asker = {k1}
  FleetRun = {}
  NoFHost = NoFHost
  WantsReset = TRUE
  MaxQuiet = 1
  Job = {j1}
  maxConcurrentRuns = 1
  maxFinishedRuns = 1
  runSeconds = 2
  stepSeconds = 1
  runLeaseTTLMargin = 2
  MaxWsRequests = 2
  maxAsyncWSRequests = 1
  OutRoom = 1
  EventRoom = 1
  MaxAppends = 3
  FeedRoom = 1
  ReadsFail = FALSE
SPECIFICATION LiveSpec
PROPERTIES
  LapsedLeaseEnds
  ResetIsResolved
  AbandonedEnds
  
CHECK_DEADLOCK FALSE
