SPECIFICATION LiveSpec
CONSTANTS
  Workers = {w1, w2}
  NoWorker = NoWorker
  Fingerprints = {f1}
  SiteLevel = {}
  URLs = {u1, u2}
  NoURL = NoURL
  DedupWindow = 2
  AutoClose = 2
  Faults = TRUE
  MaxTime = 2
  MaxOps = 2
  Crawls = {c1, c2}
  Slots = 1
  Bases = {1, 2}
  Default = 2
  Delays = {0}
  Token = 2
  MaxThrottle = 1
  MaxGen = 2
PROPERTIES OperationsReturn NoneStranded AllGranted ShutdownDrains
CHECK_DEADLOCK FALSE
