CONSTANTS
  p1 = p1
  p2 = p2
  Pid = {p1}
  Actors = {"watchdog", "reset", "grant"}
  Overtaking = FALSE
  SignalsFail = FALSE
SPECIFICATION Spec
PROPERTIES
  NeverShutDownFrozen
