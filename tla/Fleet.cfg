CONSTANTS
  Parts = {"boots", "pool", "broker", "placement", "advice", "routing"}
  BootSim = {b1, b2}
  Request = {q1, q2}
  NoSim = NoSim
  MaxBootedRunning = 1
  MaxConcurrentBoots = 1
  SlowChecks = FALSE
  FHost = {f1, f2}
  Asker = {k1}
  FleetRun = {r1}
  NoFHost = NoFHost
  WantsReset = TRUE
  MaxQuiet = 1
  NHosts = 3
  Views <- SmallViews
  decisionRingCap = 2
  growColdThreshold = 2
  shrinkMinDemand = 2
  MaxDecisions = 3
  AdviceList = {a0, a1, a2}
  NoAdvice = a0
  CHost = {g1, g2}
  COwner = g1
  NoCHost = none
SPECIFICATION FleetSpec
SYMMETRY FleetSymmetry
INVARIANTS
  FleetTypeOK
  BootsSound
  
  BrokerSound
  PlacementSound
  ClientsSound
CHECK_DEADLOCK FALSE
