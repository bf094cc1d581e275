SPECIFICATION SuiteSpec
CONSTANTS
  Sites <- McSites
  Urls <- McUrls
  SiteOf <- McSiteOf
  Depth <- McDepth
  Poison = {"bad"}
  MinInterval = 2
  MaxInterval = 3
  Batch = 2
  MaxParallel = 1
  RetryAfters = {0, 4}
  MaxLate = 1
  MaxAsks = 1
  MaxErrors = 1
  Pages <- McPages
  Home = "p0"
  LinksOf <- McLinksOf
  InSitemap = {"p1", "p4"}
  OutOfScope = {"x"}
  Crawls = {c1, c2}
  Seeder = seeder
  MaxDepth = 1
  MaxPages = 3
  MaxMisses = 1
  Unknown = Unknown
  Askers = {a1, a2}
  TTL = 4
  NegativeTTL = 2
  FetchTime = 3
  MaxChanges = 2
  Nothing = Nothing
INVARIANTS SuiteTypeOK PageCap
PROPERTIES RequestsHonoured NoStarvation VerdictIsFresh AskersServed
CHECK_DEADLOCK FALSE
