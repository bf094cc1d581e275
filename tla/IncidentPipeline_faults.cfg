SPECIFICATION TrackedSpec
CONSTANTS
  Workers = {w1, w2}
  NoWorker = NoWorker
  Fingerprints = {f1, s1}
  SiteLevel = {s1}
  URLs = {u1, u2}
  NoURL = NoURL
  DedupWindow = 1
  AutoClose = 1
  Faults = TRUE
  MaxTime = 2
  MaxOps = 3
SYMMETRY Symmetry
INVARIANTS TypeOK OneOpenPerFingerprint DedupSpacing
PROPERTIES ResolveClosesEmpty ImplementsWholeBoard
CHECK_DEADLOCK FALSE
