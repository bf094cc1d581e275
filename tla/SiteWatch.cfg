SPECIFICATION SuiteSpec
CONSTANTS
  Docs <- McDocs
  Seeds <- McSeeds
  DefaultSeed = "index"
  ChildrenOf <- McChildren
  Locs <- McLocs
  Canonical <- McCanonical
  Contents <- McContents
  SitemapLimit = 3
  DeepestIndex = 1
  ListCap = 1
  PageBudget = 2
  Closings = {"off", "robots unavailable"}
  MaxEdits = 1
  MaxBreaks = 1
  MaxOutages = 1
  MaxFaults = 1
  NoBaseline = NoBaseline
  Nodes <- McNodes
  Root = "home"
  BaseURL = "base"
  Unadmitted = {"b"}
  OutLinks <- McOutLinks
  Syncers = {g1, g2}
  InlinkLossFloor = 2
  DepthRegressionThreshold = 1
  MaxBFSDepth = 2
  NULL = NULL
  MaxSyncs = 3
  MaxSweeps = 2
  MaxMishaps = 1
  NumRules = 2
  Pages = {p1}
  FileKinds = {robots}
  Pruners = {sweep1, sweep2}
  RawHTMLKeep = 1
  SnapshotMaxAge = 2
  FileSnapshotsKeep = 2
  Chunk = 1
  MaxRows = 3
  MaxFiles = 3
  MaxClock = 3
  MaxBack = 1
  SegPages <- McSegPages
  SegKnown = {"home"}
  SegNames = {"blog", "shop"}
  SegConfigs <- McSegConfigs
  Uncompilable = Uncompilable
  NoMatcher = NoMatcher
  Reconcilers = {r1, r2}
  MaxSegEdits = 2
  MaxReconciles = 3
  MaxSegmentErrors = 1
  ScorePages = {"home", "post"}
  Importances = {2}
  HealthRules = {"noindex", "title"}
  Impact <- McImpact
  Scorers = {h1, h2}
  MaxMoves = 4
  MaxPoints = 2
  MaxHealthClock = 1
CONSTRAINTS FewTogether OneThing
INVARIANTS SuiteTypeOK SweepSettlesOrphans OncePerEpisode Reconciled SegmentsSettle ScoreInRange
PROPERTIES KeptWhileListed  RetentionLosesNothing
CHECK_DEADLOCK FALSE
