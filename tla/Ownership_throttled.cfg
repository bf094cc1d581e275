SPECIFICATION OwnershipOnly
CONSTANTS
  Pages <- McPages
  Importance <- McImportance
  GoogleStates <- McGoogleStates
  Budget = 1
  MaxAge = 0
  IdleDays = 1
  NoInspection = NoInspection
  MaxDay = 1
  MaxMoves = 1
  MaxCrawls = 2
  MaxOutages = 1
  Domains = {"shop"}
  Methods = {"well_known"}
  NoMethod = NoMethod
  NoSite = NoSite
  Reloaders = {r1}
  MaxEdits = 1
  MaxReloads = 1
  MaxChecks = 1
  MaxProofMoves = 1
  MaxTroubles = 0
  Hooks = {h1, h2}
  Commands = {c1}
  ListedSites = {"s"}
  Settable = {"interval"}
  Reserved = {"contact"}
  NoHook = NoHook
  MaxRequests = 2
  MaxLosses = 1
  MaxFailures = 1
  Routines = {"scheduler", "re-verify"}
  OneShot = {"re-verify"}
  Requests = {q1, q2}
  Callers = {w1, w2}
  NoCaller = NoCaller
  MaxWrites = 3
  Workers = {n1, n2}
  Flushers = {d1, d2}
  Keys = {k1}
  Cap = 1
  Hour = 2
  MaxPending = 2
  MaxTime = 2
  MaxAlerts = 4
  MaxTurns = 2
  MaxReadFaults = 1
CONSTRAINT FewMoves
INVARIANTS ThrottledIsSlow
CHECK_DEADLOCK FALSE
