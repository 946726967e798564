CONSTANTS
  p1 = p1
  p2 = p2
  Pid = {p1, p2}
  Actors = {"watchdog", "reset", "grant", "viewer", "closer"}
  Overtaking = FALSE
  SignalsFail = FALSE
SPECIFICATION FairSpec
INVARIANTS
  TypeOK
  
  

  
