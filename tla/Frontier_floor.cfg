SPECIFICATION FrontierOnly
CONSTANTS
  Pages <- ManyPages
  Unparseable <- Deep
  BlockPage = BlockPage
  NoPage = NoPage
  MaxFaults = 1
  Crawls = {c1, c2}
  Slots = 2
  Bases = {1, 4}
  Default = 4
  Delays = {2}
  Token = 4
  MaxThrottle = 1
  MaxGen = 2
PROPERTIES FloorRespected
CHECK_DEADLOCK FALSE
