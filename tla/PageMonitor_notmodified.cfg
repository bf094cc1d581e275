SPECIFICATION PageOnly
CONSTANTS
  Pages <- FewPages
  Unparseable <- Nothing
  BlockPage = BlockPage
  NoPage = NoPage
  MaxFaults = 0
  Crawls = {c1, c2}
  Slots = 2
  Bases = {1, 2}
  Default = 2
  Delays = {0, 2}
  Token = 4
  MaxThrottle = 2
  MaxGen = 2
INVARIANTS NotModifiedMeansSeen
CHECK_DEADLOCK FALSE
