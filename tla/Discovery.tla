----------------------------- MODULE Discovery -----------------------------
(***************************************************************************)
(* How the URL inventory of one site grows: EnqueueLinks, which every      *)
(* crawl of a page calls with the links it found, and the admission half   *)
(* of CollectAndSeed, which the sitemap timer calls                        *)
(* (internal/discovery/discovery.go).  Both count the inventory once and   *)
(* then look each URL up and insert it, in transactions of their own; the  *)
(* lock of the site is held around the whole of it.                        *)
(*                                                                         *)
(* The order of the links is left open.  Bound: MaxMisses store calls may  *)
(* fail.                                                                   *)
(*                                                                         *)
(* A definition named X_Y is X with the defect Y: the checks put it in the *)
(* place of X to show that a property can fail.                            *)
(***************************************************************************)
EXTENDS Naturals, FiniteSets

CONSTANTS
  Pages,        \* the addresses that links and sitemaps name
  Home,         \* the homepage, in the inventory from the start
  LinksOf,      \* the links on each page
  InSitemap,    \* the locs of the sitemap
  OutOfScope,   \* addresses of other sites or that the SSRF check refuses
  Crawls,       \* the goroutines that crawl pages of the site
  Seeder,       \* the one that reads the sitemap
  MaxDepth,
  MaxPages,     \* 0 is unlimited
  MaxMisses,
  Unknown       \* not in the inventory, or no lock holder

ASSUME DiscoveryAssumption ==
  /\ Home \in Pages \ OutOfScope
  /\ IsFiniteSet(Pages)
  /\ Pages \cap {"idle", "lock", "count", "admit"} = {}
  /\ LinksOf \in [Pages -> SUBSET Pages]
  /\ InSitemap \subseteq Pages
  /\ Seeder \notin Crawls
  /\ {MaxDepth, MaxPages, MaxMisses} \subseteq Nat
  /\ Unknown \notin Nat \cup Crawls \cup {Seeder}

VARIABLES
  depthOf,   \* urls.depth, for the URLs of the inventory
  siteLock,  \* who holds the lock of the site
  job,       \* where each discovery is
  misses     \* how many store calls have failed

discoveryVars == <<depthOf, siteLock, job, misses>>

-----------------------------------------------------------------------------
Discoverers == Crawls \cup {Seeder}
Inventory == {u \in Pages : depthOf[u] # Unknown}

Idle == [pc |-> "idle", todo |-> {}, depth |-> 0, count |-> 0, added |-> 0]

DiscoveryInit ==
  /\ depthOf = [u \in Pages |-> IF u = Home THEN 0 ELSE Unknown]
  /\ siteLock = Unknown
  /\ job = [d \in Discoverers |-> Idle]
  /\ misses = 0

Step(d, pc) == job' = [job EXCEPT ![d].pc = pc]

Start(d, urls, depth) ==
  /\ job[d].pc = "idle"
  /\ job' = [job EXCEPT ![d] = [Idle EXCEPT !.pc = "lock", !.todo = urls, !.depth = depth]]
  /\ UNCHANGED <<depthOf, siteLock, misses>>

EnqueueLinks(d, parent) ==
  /\ parent \in Inventory
  /\ depthOf[parent] < MaxDepth
  /\ Start(d, LinksOf[parent], depthOf[parent] + 1)

SeedSitemaps == Start(Seeder, InSitemap, 1)

Lock_Skipped(d) ==
  /\ job[d].pc = "lock"
  /\ Step(d, "count")
  /\ UNCHANGED <<depthOf, siteLock, misses>>

Lock(d) ==
  /\ job[d].pc = "lock"
  /\ siteLock = Unknown
  /\ siteLock' = d
  /\ Step(d, "count")
  /\ UNCHANGED <<depthOf, misses>>

CountSiteURLs(d) ==
  /\ job[d].pc = "count"
  /\ job' = [job EXCEPT ![d].count = Cardinality(Inventory), ![d].pc = "admit"]
  /\ UNCHANGED <<depthOf, siteLock, misses>>

Return(d) ==
  /\ job' = [job EXCEPT ![d] = Idle]
  /\ siteLock' = Unknown

\* No link is left, or the inventory is full.
Capped(d) == MaxPages > 0 /\ job[d].count + job[d].added >= MaxPages

EnqueueEnds(d) ==
  /\ job[d].pc = "admit"
  /\ job[d].todo = {} \/ Capped(d)
  /\ Return(d)
  /\ UNCHANGED <<depthOf, misses>>

\* admit: out of scope and known URLs are passed over; the others go on to upsert.
Admit(d, u) ==
  /\ job[d].pc = "admit"
  /\ ~Capped(d)
  /\ u \in job[d].todo
  /\ IF u \in OutOfScope \cup Inventory
     THEN job' = [job EXCEPT ![d].todo = @ \ {u}]
     ELSE job' = [job EXCEPT ![d].todo = @ \ {u}, ![d].pc = u]
  /\ UNCHANGED <<depthOf, siteLock, misses>>

\* UpsertURL writes the depth and the schedule of the row, new or not.
Upsert(d) ==
  /\ job[d].pc \in Pages
  /\ depthOf' = [depthOf EXCEPT ![job[d].pc] = job[d].depth]
  /\ job' = [job EXCEPT ![d].added = @ + 1, ![d].pc = "admit"]
  /\ UNCHANGED <<siteLock, misses>>

Misses == misses < MaxMisses /\ misses' = misses + 1

\* An upsert that fails is not counted, and the next link follows.
UpsertFails(d) ==
  /\ job[d].pc \in Pages
  /\ Misses
  /\ Step(d, "admit")
  /\ UNCHANGED <<depthOf, siteLock>>

\* A count or a lookup that fails ends the discovery; the lock is deferred.
LookupFails(d) ==
  /\ job[d].pc \in {"count", "admit"}
  /\ Misses
  /\ Return(d)
  /\ UNCHANGED depthOf

-----------------------------------------------------------------------------
Discover(d) ==
  \/ Lock(d)
  \/ CountSiteURLs(d)
  \/ EnqueueEnds(d)
  \/ \E u \in Pages : Admit(d, u)
  \/ Upsert(d)
  \/ UpsertFails(d)
  \/ LookupFails(d)

DiscoveryNext ==
  \/ \E d \in Crawls, parent \in Pages : EnqueueLinks(d, parent)
  \/ SeedSitemaps
  \/ \E d \in Discoverers : Discover(d)

\* Goroutines run, and a mutex serves one that waits long enough.
DiscoveryFairness ==
  \A d \in Discoverers : WF_discoveryVars(Discover(d)) /\ SF_discoveryVars(Lock(d))

DiscoverySpec == DiscoveryInit /\ [][DiscoveryNext]_discoveryVars /\ DiscoveryFairness

-----------------------------------------------------------------------------
\* The types of the variables.
DiscoveryTypeOK ==
  /\ depthOf \in [Pages -> 0..(MaxDepth + 1) \cup {Unknown}]
  /\ siteLock \in Discoverers \cup {Unknown}
  /\ \A d \in Discoverers :
       /\ job[d].pc \in {"idle", "lock", "count", "admit"} \cup Pages
       /\ job[d].todo \subseteq Pages
       /\ job[d].added \in 0..Cardinality(Pages)
  /\ misses \in 0..MaxMisses

\* Crawls of one site and its sitemap find pages at the same time and together
\* never exceed the page cap, although each counts the inventory only once.
PageCap == MaxPages > 0 => Cardinality(Inventory) <= MaxPages
=============================================================================
