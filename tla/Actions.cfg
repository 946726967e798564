CONSTANTS
  Parts = {"waits", "scrolls", "ladder", "elementmap", "wda", "devices", "registry"}
  WScreen = {1, 2, 3}
  Matched = {2}
  Ambiguous = {3}
  WaitTimeout = 4
  MaxNeed = 3
  Rows = 13
  Window = 5
  StepRows = 3
  PageRows = 5
  MaxScrolls = 7
  MaxLost = 1
  WdaCaller = {c1, c2}
  NoCaller = none
  MaxRunner = 2
  MaxArms = 2
  Worker = {c1, c2}
  LadderKinds <- WdaOnly
  StepTimeout = 2
  RungBudget <- SmallBudget
  axBreakerThreshold = 2
  EAct = {c1, c2}
  AppId = {app1}
  ScreenId = {1, 2}
  CapClass = {n1, n2}
  ScreenFrame <- ElsewhereOn
  NoFrame = "none"
  Steady = TRUE
  Socket = {s1}
  NoSocket = s0
  p1 = p1
  p2 = p2
  Phone = {p1, p2}
  ForwardPort = {1, 2}
  NoPort = 0
  DevConfigs <- SmallConfigs
  MaxApplies = 3
SPECIFICATION ActionsSpec
SYMMETRY ActionsSymmetry
INVARIANTS
  ActionsTypeOK
  
  DevicesSound
CHECK_DEADLOCK FALSE
