CONSTANTS
  Parts = {"recorder", "stream", "helpers", "journal", "snapshots", "images"}
  Rec = {r1, r2}
  RecRun = {u1, u2}
  Sim = {t1}
  NoRec = NoRec
  MaxConcurrent = 1
  Overlap = FALSE
  Hub = {h1, h2}
  HubTarget = {t1}
  Viewer = {v1, v2}
  NoHub = NoHub
  MaxStreams = 1
  MaxViewers = 2
  MaxOpens = 2
  Caller = {v1, v2}
  WarmUDID = {d1, d2}
  Entry = {e1, e2, e3}
  NoEntry = NoEntry
  MaxTargets = 1
  MaxAttempts = 2
  Writer = {w1, w2}
  Tailer = {y1}
  RunState = {s1, s2, s3}
  NoRunState = NoRunState
  MaxSeq = 3
  Overtaken = FALSE
  SnpHolder = {l1, l2}
  Snap = {n1}
  Resetter = auto
  MaxCalls = 2
  Img = {i1, i2}
  SlimImg = {i1}
  Dev = {d1, d2, d3}
  StampCount = 2
  MaxImgOps = 3
  MaxImgCrashes = 1
SPECIFICATION ServicesSpec
SYMMETRY ServicesSymmetry
INVARIANTS
  ServicesTypeOK
  
  
  StoresSound

  
CHECK_DEADLOCK FALSE
