---------------------------- MODULE MCCrawlLoop ----------------------------
(***************************************************************************)
(* What stands between a URL and its next fetch, for TLC: the schedule,    *)
(* discovery and the robots.txt cache of one site.  A behaviour is about   *)
(* one of them, its focus; the others stay in their initial states, so     *)
(* that their state spaces add up.                                         *)
(***************************************************************************)
EXTENDS Schedule, Discovery, RobotsCache

VARIABLE focus

McSites == {"s1", "s2"}
McUrls == {"home", "bad", "deep"}
McSiteOf == [u \in McUrls |-> IF u = "deep" THEN "s2" ELSE "s1"]
McDepth == [home |-> 0, bad |-> 1, deep |-> 2]

McPages == {"p0", "p1", "p2", "p3", "p4", "x"}
McLinksOf == [p0 |-> {"p1", "p2", "x"}, p1 |-> {"p0", "p3"}, p2 |-> {"p1"}, p3 |-> {"p4"},
              p4 |-> {}, x |-> {}]

SuiteInit ==
  /\ focus \in {"schedule", "discovery", "robots"}
  /\ ScheduleInit
  /\ DiscoveryInit
  /\ RobotsInit

SuiteNext ==
  /\ UNCHANGED focus
  /\ \/ focus = "schedule" /\ ScheduleNext /\ UNCHANGED <<discoveryVars, robotsVars>>
     \/ focus = "discovery" /\ DiscoveryNext /\ UNCHANGED <<scheduleVars, robotsVars>>
     \/ focus = "robots" /\ RobotsNext /\ UNCHANGED <<scheduleVars, discoveryVars>>

SuiteVars == <<focus, scheduleVars, discoveryVars, robotsVars>>

SuiteSpec ==
  /\ SuiteInit
  /\ [][SuiteNext]_SuiteVars
  /\ ScheduleFairness
  /\ DiscoveryFairness
  /\ RobotsFairness

SuiteTypeOK == ScheduleTypeOK /\ DiscoveryTypeOK /\ RobotsTypeOK
=============================================================================
