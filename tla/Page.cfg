SPECIFICATION SuiteSpec
CONSTANTS
  Pages <- ManyPages
  Unparseable <- Deep
  BlockPage = BlockPage
  NoPage = NoPage
  MaxFaults = 1
  Crawls = {c1, c2}
  Slots = 2
  Bases = {1, 2}
  Default = 2
  Delays = {0, 2}
  Token = 4
  MaxThrottle = 2
  MaxGen = 2
CONSTRAINT FewWhenFaulty
SYMMETRY Symmetry
INVARIANTS SuiteTypeOK NoSilentRegression LogTracksSnapshot IndexableResolves OneAlertPerCause
PROPERTIES SteadySpacing
CHECK_DEADLOCK FALSE
