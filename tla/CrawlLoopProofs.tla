-------------------------- MODULE CrawlLoopProofs --------------------------
(***************************************************************************)
(* Proofs about what stands between a URL and its next fetch: for any      *)
(* number of pages, crawls and sites the inventory, the robots.txt cache   *)
(* and the schedule.                                                       *)
(***************************************************************************)
EXTENDS MCCrawlLoop, FiniteSetTheorems, TLAPS

-----------------------------------------------------------------------------
(* Discovery: the inventory and its cap.                                   *)

\* A discovery holds the lock of the site from its count to its end.
Working == {"count", "admit"} \cup Pages

DiscState ==
  [pc : {"idle", "lock"} \cup Working, todo : SUBSET Pages, depth : 0..(MaxDepth + 1), count : Nat, added : Nat]

DiscTypes ==
  /\ depthOf \in [Pages -> 0..(MaxDepth + 1) \cup {Unknown}]
  /\ siteLock \in Discoverers \cup {Unknown}
  /\ job \in [Discoverers -> DiscState]
  /\ misses \in 0..MaxMisses

\* What the holder of the lock has counted, and what it is about to insert.
DiscOK(d) ==
  /\ job[d].pc \in Working <=> siteLock = d
  /\ job[d].pc \in {"idle", "lock", "count"} => job[d].added = 0
  /\ job[d].pc \in {"admit"} \cup Pages => job[d].count + job[d].added = Cardinality(Inventory)
  /\ job[d].pc \in Pages => ~Capped(d) /\ job[d].pc \notin Inventory

DiscInv ==
  /\ DiscTypes
  /\ \A d \in Discoverers : DiscOK(d)
  /\ PageCap

LEMMA InventoryCounts == IsFiniteSet(Inventory) /\ Cardinality(Inventory) \in Nat
<1>1. Inventory \subseteq Pages
  BY DEF Inventory
<1> QED
  BY <1>1, FS_Subset, FS_CardinalityType, DiscoveryAssumption

LEMMA DiscIdle == Idle \in DiscState /\ Idle.pc = "idle" /\ Idle.added = 0
BY DiscoveryAssumption DEF Idle, DiscState

\* No URL is named like a stage of a discovery.
LEMMA StagesApart == \A u \in Pages : u \notin {"idle", "lock", "count", "admit"}
BY DiscoveryAssumption

\* A discovery moves on and nothing is inserted.
LEMMA DiscMoves ==
  ASSUME DiscInv, NEW d \in Discoverers, NEW w \in DiscState,
         job' = [job EXCEPT ![d] = w], depthOf' = depthOf,
         siteLock' \in Discoverers \cup {Unknown}, misses' \in 0..MaxMisses,
         w.pc \in Working <=> siteLock' = d,
         \A e \in Discoverers \ {d} : siteLock' = e <=> siteLock = e,
         w.pc \in {"idle", "lock", "count"} => w.added = 0,
         w.pc \in {"admit"} \cup Pages => w.count + w.added = Cardinality(Inventory),
         w.pc \in Pages => ~(MaxPages > 0 /\ w.count + w.added >= MaxPages) /\ w.pc \notin Inventory
  PROVE  DiscInv'
<1>0. /\ job'[d] = w /\ \A e \in Discoverers \ {d} : job'[e] = job[e]
      /\ job' \in [Discoverers -> DiscState] /\ Inventory' = Inventory
  BY DEF DiscInv, DiscTypes, Inventory
<1>1. DiscTypes'
  BY <1>0 DEF DiscInv, DiscTypes
<1>2. \A e \in Discoverers : DiscOK(e)'
  <2> TAKE e \in Discoverers
  <2>1. CASE e = d
    BY <1>0, <2>1 DEF DiscOK, Capped
  <2>2. CASE e # d
    <3>1. DiscOK(e) /\ job'[e] = job[e] /\ (siteLock' = e <=> siteLock = e)
      BY <1>0, <2>2 DEF DiscInv
    <3> QED
      BY <1>0, <3>1 DEF DiscOK, Capped
  <2> QED
    BY <2>1, <2>2
<1>3. PageCap'
  BY <1>0 DEF DiscInv, PageCap
<1> QED
  BY <1>1, <1>2, <1>3 DEF DiscInv

LEMMA DiscStarts ==
  ASSUME DiscInv, NEW d \in Discoverers, NEW urls \in SUBSET Pages, NEW depth \in 0..(MaxDepth + 1),
         Start(d, urls, depth)
  PROVE  DiscInv'
<1> DEFINE w == [Idle EXCEPT !.pc = "lock", !.todo = urls, !.depth = depth]
<1>1. w \in DiscState /\ w.pc = "lock" /\ w.added = 0
  BY DiscIdle DEF DiscState
<1>2. job' = [job EXCEPT ![d] = w] /\ UNCHANGED <<depthOf, siteLock, misses>> /\ job[d].pc = "idle"
  BY DEF Start
<1> HIDE DEF w
<1>3. siteLock # d
  BY <1>2, StagesApart DEF DiscInv, DiscOK, Working
<1>4. siteLock' \in Discoverers \cup {Unknown} /\ misses' \in 0..MaxMisses
  BY <1>2 DEF DiscInv, DiscTypes
<1> QED
  BY <1>1, <1>2, <1>3, <1>4, StagesApart, DiscMoves DEF Working

LEMMA DiscReturns ==
  ASSUME DiscInv, NEW d \in Discoverers, job[d].pc \in {"count", "admit"}, Return(d), depthOf' = depthOf,
         misses' \in 0..MaxMisses
  PROVE  DiscInv'
<1>1. siteLock = d
  BY DEF DiscInv, DiscOK, Working
<1>2. \A e \in Discoverers : e # Unknown
  BY DiscoveryAssumption DEF Discoverers
<1>3. job' = [job EXCEPT ![d] = Idle] /\ siteLock' = Unknown
  BY DEF Return
<1> QED
  BY <1>1, <1>2, <1>3, DiscIdle, StagesApart, DiscMoves DEF Working

LEMMA DiscInitially == DiscoveryInit => DiscInv
<1> SUFFICES ASSUME DiscoveryInit PROVE DiscInv
  OBVIOUS
<1> USE DEF DiscoveryInit
<1>1. DiscTypes
  <2>1. {MaxDepth, MaxMisses} \subseteq Nat
    BY DiscoveryAssumption
  <2> QED
    BY <2>1, DiscIdle DEF DiscTypes
<1>2. Inventory = {Home}
  BY DiscoveryAssumption DEF Inventory
<1>3. PageCap
  <2>1. Cardinality(Inventory) = 1
    BY <1>2, FS_Singleton
  <2>2. MaxPages \in Nat
    BY DiscoveryAssumption
  <2> QED
    BY <2>1, <2>2 DEF PageCap
<1>4. \A d \in Discoverers : DiscOK(d)
  <2> TAKE d \in Discoverers
  <2>1. d # Unknown
    BY DiscoveryAssumption DEF Discoverers
  <2>2. job[d] = Idle
    OBVIOUS
  <2> QED
    BY <2>1, <2>2, DiscIdle, StagesApart DEF DiscOK, Working
<1> QED
  BY <1>1, <1>3, <1>4 DEF DiscInv

LEMMA DiscSteps ==
  ASSUME DiscInv, NEW d \in Discoverers, Discover(d)
  PROVE  DiscInv'
<1>0. /\ job \in [Discoverers -> DiscState] /\ job[d] \in DiscState /\ DiscOK(d)
      /\ depthOf \in [Pages -> 0..(MaxDepth + 1) \cup {Unknown}]
      /\ siteLock \in Discoverers \cup {Unknown} /\ misses \in 0..MaxMisses
  BY DEF DiscInv, DiscTypes
<1>c. IsFiniteSet(Inventory) /\ Cardinality(Inventory) \in Nat
  BY InventoryCounts
<1>m. Misses => misses' \in 0..MaxMisses
  BY <1>0, DiscoveryAssumption DEF Misses
<1>1. CASE Lock(d)
  <2> DEFINE w == [job[d] EXCEPT !.pc = "count"]
  <2>1. w \in DiscState /\ w.pc = "count" /\ w.added = job[d].added
    BY <1>0 DEF DiscState, Working
  <2>2. job' = [job EXCEPT ![d] = w] /\ siteLock = Unknown /\ siteLock' = d /\ UNCHANGED <<depthOf, misses>>
    BY <1>0, <1>1 DEF Lock, Step
  <2>3. job[d].pc = "lock" /\ job[d].added = 0
    BY <1>0, <1>1 DEF Lock, DiscOK
  <2>4. \A e \in Discoverers : e # Unknown
    BY DiscoveryAssumption DEF Discoverers
  <2> HIDE DEF w
  <2> QED
    BY <1>0, <2>1, <2>2, <2>3, <2>4, StagesApart, DiscMoves DEF Working
<1>2. CASE CountSiteURLs(d)
  <2> DEFINE w == [job[d] EXCEPT !.count = Cardinality(Inventory), !.pc = "admit"]
  <2>1. w \in DiscState /\ w.pc = "admit" /\ w.added = job[d].added /\ w.count = Cardinality(Inventory)
    BY <1>0, <1>c DEF DiscState, Working
  <2>2. job' = [job EXCEPT ![d] = w] /\ UNCHANGED <<depthOf, siteLock, misses>>
    BY <1>0, <1>2 DEF CountSiteURLs
  <2>3. job[d].pc = "count" /\ job[d].added = 0 /\ siteLock = d
    BY <1>0, <1>2 DEF CountSiteURLs, DiscOK, Working
  <2> HIDE DEF w
  <2>4. w.count + w.added = Cardinality(Inventory)
    BY <1>c, <2>1, <2>3
  <2>5. w.pc \in Working /\ w.pc \notin Pages /\ w.pc \notin {"idle", "lock", "count"}
    BY <2>1, StagesApart DEF Working
  <2> QED
    BY <1>0, <2>1, <2>2, <2>3, <2>4, <2>5, DiscMoves
<1>3. CASE EnqueueEnds(d)
  BY <1>0, <1>3, DiscReturns DEF EnqueueEnds
<1>4. ASSUME NEW u \in Pages, Admit(d, u) PROVE DiscInv'
  <2>0. /\ job[d].pc = "admit" /\ ~Capped(d) /\ siteLock = d
        /\ job[d].count + job[d].added = Cardinality(Inventory) /\ UNCHANGED <<depthOf, siteLock, misses>>
    BY <1>0, <1>4 DEF Admit, DiscOK, Working
  <2>1. CASE u \in OutOfScope \cup Inventory
    <3> DEFINE w == [job[d] EXCEPT !.todo = @ \ {u}]
    <3>1. w \in DiscState /\ w.pc = "admit" /\ w.added = job[d].added /\ w.count = job[d].count
      BY <1>0, <2>0 DEF DiscState, Working
    <3>2. job' = [job EXCEPT ![d] = w]
      BY <1>0, <1>4, <2>1 DEF Admit
    <3> HIDE DEF w
    <3> QED
      BY <1>0, <2>0, <3>1, <3>2, StagesApart, DiscMoves DEF Working
  <2>2. CASE u \notin OutOfScope \cup Inventory
    <3> DEFINE w == [job[d] EXCEPT !.todo = @ \ {u}, !.pc = u]
    <3>1. w \in DiscState /\ w.pc = u /\ w.added = job[d].added /\ w.count = job[d].count
      BY <1>0, <2>0 DEF DiscState, Working
    <3>2. job' = [job EXCEPT ![d] = w]
      BY <1>0, <1>4, <2>2 DEF Admit
    <3> HIDE DEF w
    <3> QED
      BY <1>0, <2>0, <2>2, <3>1, <3>2, StagesApart, DiscMoves DEF Working, Capped
  <2> QED
    BY <2>1, <2>2
<1>5. CASE Upsert(d)
  <2> DEFINE u == job[d].pc
             w == [job[d] EXCEPT !.added = @ + 1, !.pc = "admit"]
  <2>0. /\ u \in Pages /\ siteLock = d /\ ~Capped(d) /\ u \notin Inventory
        /\ job[d].count + job[d].added = Cardinality(Inventory) /\ UNCHANGED <<siteLock, misses>>
    BY <1>0, <1>5 DEF Upsert, DiscOK, Working
  <2>1. /\ w \in DiscState /\ w.pc = "admit" /\ w.added = job[d].added + 1 /\ w.count = job[d].count
        /\ job[d].added \in Nat /\ job[d].count \in Nat /\ job[d].depth \in 0..(MaxDepth + 1)
    <3>1. job[d].added \in Nat /\ job[d].count \in Nat /\ job[d].depth \in 0..(MaxDepth + 1)
      BY <1>0 DEF DiscState
    <3>2. job[d].added + 1 \in Nat /\ "admit" \in Working
      BY <3>1 DEF Working
    <3> QED
      BY <1>0, <3>1, <3>2 DEF DiscState
  <2>2. job' = [job EXCEPT ![d] = w] /\ depthOf' = [depthOf EXCEPT ![u] = job[d].depth]
    BY <1>0, <1>5 DEF Upsert
  <2> HIDE DEF w, u
  <2>3. job'[d] = w /\ \A e \in Discoverers \ {d} : job'[e] = job[e]
    BY <1>0, <2>2
  <2>4. Inventory' = Inventory \cup {u}
    <3>1. job[d].depth # Unknown
      BY <2>1, DiscoveryAssumption
    <3> QED
      BY <1>0, <2>0, <2>2, <3>1 DEF Inventory
  <2>5. Cardinality(Inventory') = Cardinality(Inventory) + 1
    BY <1>c, <2>0, <2>4, FS_AddElement
  <2>6. DiscTypes'
    BY <1>0, <2>0, <2>1, <2>2 DEF DiscTypes
  <2>7. DiscOK(d)'
    BY <1>c, <2>0, <2>1, <2>3, <2>5, StagesApart DEF DiscOK, Working
  <2>8. \A e \in Discoverers \ {d} : DiscOK(e)'
    <3> TAKE e \in Discoverers \ {d}
    <3>1. DiscOK(e) /\ job'[e] = job[e] /\ siteLock' # e /\ siteLock # e
      BY <2>0, <2>3 DEF DiscInv
    <3> QED
      BY <3>1 DEF DiscOK, Working
  <2>9. PageCap'
    BY <1>c, <2>0, <2>1, <2>5, DiscoveryAssumption DEF PageCap, Capped
  <2> QED
    BY <2>6, <2>7, <2>8, <2>9 DEF DiscInv
<1>6. CASE UpsertFails(d)
  <2> DEFINE w == [job[d] EXCEPT !.pc = "admit"]
  <2>0. /\ job[d].pc \in Pages /\ siteLock = d /\ UNCHANGED <<depthOf, siteLock>>
        /\ job[d].count + job[d].added = Cardinality(Inventory) /\ misses' \in 0..MaxMisses
    BY <1>0, <1>6, <1>m DEF UpsertFails, DiscOK, Working
  <2>1. w \in DiscState /\ w.pc = "admit" /\ w.added = job[d].added /\ w.count = job[d].count
    BY <1>0 DEF DiscState, Working
  <2>2. job' = [job EXCEPT ![d] = w]
    BY <1>0, <1>6 DEF UpsertFails, Step
  <2> HIDE DEF w
  <2> QED
    BY <1>0, <2>0, <2>1, <2>2, StagesApart, DiscMoves DEF Working
<1>7. CASE LookupFails(d)
  BY <1>0, <1>7, <1>m, DiscReturns DEF LookupFails
<1> QED
  BY <1>1, <1>2, <1>3, <1>4, <1>5, <1>6, <1>7 DEF Discover

LEMMA DiscInductive ==
  ASSUME DiscInv, [DiscoveryNext]_discoveryVars
  PROVE  DiscInv'
<1>1. CASE UNCHANGED discoveryVars
  BY <1>1 DEF discoveryVars, DiscInv, DiscTypes, DiscOK, Capped, Inventory, PageCap
<1>2. ASSUME NEW d \in Crawls, NEW parent \in Pages, EnqueueLinks(d, parent) PROVE DiscInv'
  <2>1. depthOf[parent] + 1 \in 0..(MaxDepth + 1) /\ LinksOf[parent] \subseteq Pages
    <3>1. depthOf[parent] \in 0..(MaxDepth + 1) /\ depthOf[parent] < MaxDepth
      BY <1>2 DEF EnqueueLinks, Inventory, DiscInv, DiscTypes
    <3> QED
      BY <3>1, DiscoveryAssumption
  <2> QED
    BY <1>2, <2>1, DiscStarts DEF EnqueueLinks, Discoverers
<1>3. CASE SeedSitemaps
  <2>1. 1 \in 0..(MaxDepth + 1) /\ InSitemap \subseteq Pages
    BY DiscoveryAssumption
  <2> QED
    BY <1>3, <2>1, DiscStarts DEF SeedSitemaps, Discoverers
<1> QED
  BY <1>1, <1>2, <1>3, DiscSteps DEF DiscoveryNext

LEMMA DiscInvariant == DiscoverySpec => []DiscInv
<1> QED
  BY DiscInitially, DiscInductive, PTL DEF DiscoverySpec

\* However many crawls of one site find links at the same time, and whatever its
\* sitemap names, the inventory stays within the page cap (EnqueueLinks,
\* CollectAndSeed and the lock of the site).
THEOREM PageCapCorrect == DiscoverySpec => []PageCap
<1>1. DiscInv => PageCap
  BY DEF DiscInv
<1> QED
  BY <1>1, DiscInvariant, PTL

LEMMA DiscTypeOK == DiscInv => DiscoveryTypeOK
<1> SUFFICES ASSUME DiscInv PROVE DiscoveryTypeOK
  OBVIOUS
<1>1. ASSUME NEW d \in Discoverers
      PROVE  /\ job[d].pc \in {"idle", "lock", "count", "admit"} \cup Pages
             /\ job[d].todo \subseteq Pages
             /\ job[d].added \in 0..Cardinality(Pages)
  <2>1. job[d] \in DiscState /\ DiscOK(d)
    BY DEF DiscInv, DiscTypes
  <2>2. Cardinality(Inventory) <= Cardinality(Pages) /\ Cardinality(Pages) \in Nat
    <3>1. Inventory \subseteq Pages
      BY DEF Inventory
    <3> QED
      BY <3>1, FS_Subset, FS_CardinalityType, DiscoveryAssumption
  <2>3. job[d].added \in Nat /\ job[d].count \in Nat
    BY <2>1 DEF DiscState
  <2>4. job[d].added = 0 \/ job[d].count + job[d].added = Cardinality(Inventory)
    BY <2>1 DEF DiscOK, DiscState, Working
  <2>5. job[d].added \in 0..Cardinality(Pages)
    BY <2>2, <2>3, <2>4, InventoryCounts
  <2> QED
    BY <2>1, <2>5 DEF DiscState, Working
<1> QED
  BY <1>1 DEF DiscoveryTypeOK, DiscInv, DiscTypes

-----------------------------------------------------------------------------
(* RobotsCache: verdicts and the answers they rest on.                     *)

RobTypes ==
  /\ served \in Answers \cup {Nothing}
  /\ servedFor \in 0..(TTL + 1)
  /\ answer \in [file : Answers, left : 0..TTL] \cup {Nothing}
  /\ leader \in Askers \cup {Nothing}
  /\ asker \in [Askers -> {"idle", "ask", "waiting", "fetching", "storing", "in", "out"}]
  /\ got \in Answers \cup {Nothing}
  /\ age \in 0..FetchTime

\* A crawl fetches while it is the leader, and stores what it has read.
RobLeads ==
  /\ leader = Nothing => got = Nothing
  /\ \A w \in Askers :
       /\ asker[w] \in {"fetching", "storing"} <=> leader = w
       /\ asker[w] # "idle" => served # Nothing
       /\ asker[w] = "storing" => got # Nothing
       /\ asker[w] = "fetching" => got = Nothing

\* What was read, and what is cached, is what the site serves unless it has changed
\* since the fetch began.
RobCurrent ==
  /\ got # Nothing /\ servedFor > age => got = served
  /\ answer # Nothing =>
       /\ answer.left <= Lifetime(answer.file)
       /\ answer.left > 0 /\ servedFor > Lifetime(answer.file) - answer.left => answer.file = served

RobInv == RobTypes /\ RobLeads /\ RobCurrent

LEMMA RobTimes ==
  /\ TTL \in Nat /\ NegativeTTL \in Nat /\ FetchTime \in Nat
  /\ FetchTime <= TTL /\ NegativeTTL <= TTL
  /\ \A a : Lifetime(a) \in {TTL, NegativeTTL}
BY RobotsAssumption DEF Lifetime

LEMMA RobNothing == Nothing \notin Answers /\ Nothing \notin Askers
BY RobotsAssumption DEF Answers

LEMMA RobInitially == RobotsInit => RobInv
BY RobTimes, RobNothing DEF RobotsInit, RobInv, RobTypes, RobLeads, RobCurrent

\* One crawl moves.
LEMMA RobMoved ==
  ASSUME RobTypes, NEW w \in Askers,
         NEW state \in {"idle", "ask", "waiting", "fetching", "storing", "in", "out"}, Becomes(w, state)
  PROVE  /\ asker'[w] = state /\ \A v \in Askers \ {w} : asker'[v] = asker[v]
         /\ asker' \in [Askers -> {"idle", "ask", "waiting", "fetching", "storing", "in", "out"}]
BY DEF RobTypes, Becomes

\* The crawl that does not lead moves and nothing else does.
LEMMA RobAsks ==
  ASSUME RobInv, NEW w \in Askers, asker[w] \notin {"fetching", "storing"},
         NEW state \in {"idle", "ask", "waiting", "in", "out"}, Becomes(w, state),
         UNCHANGED <<siteVars, cacheVars>>, served # Nothing
  PROVE  RobInv'
<1>0. UNCHANGED <<served, servedFor, changes, answer, leader, got, age>>
  BY DEF siteVars, cacheVars
<1>1. /\ asker'[w] = state /\ \A v \in Askers \ {w} : asker'[v] = asker[v]
      /\ asker' \in [Askers -> {"idle", "ask", "waiting", "fetching", "storing", "in", "out"}]
  BY RobMoved DEF RobInv
<1>2. RobTypes'
  BY <1>0, <1>1 DEF RobInv, RobTypes
<1>3. RobLeads'
  BY <1>0, <1>1 DEF RobInv, RobLeads
<1>4. RobCurrent'
  BY <1>0 DEF RobInv, RobCurrent
<1> QED
  BY <1>2, <1>3, <1>4 DEF RobInv

LEMMA RobLeader ==
  ASSUME RobInv, NEW w \in Askers, Lead(w) \/ Raw(w)
  PROVE  RobInv'
<1>1. CASE Lead(w)
  <2>0. /\ asker[w] = "ask" /\ leader = Nothing /\ leader' = w /\ age' = 0 /\ Becomes(w, "fetching")
        /\ UNCHANGED <<served, servedFor, changes, answer, got>>
    BY <1>1 DEF Lead, siteVars
  <2>1. /\ asker'[w] = "fetching" /\ \A v \in Askers \ {w} : asker'[v] = asker[v]
        /\ asker' \in [Askers -> {"idle", "ask", "waiting", "fetching", "storing", "in", "out"}]
    BY <2>0, RobMoved DEF RobInv
  <2>2. got = Nothing
    BY <2>0 DEF RobInv, RobLeads
  <2>3. RobTypes'
    BY <2>0, <2>1, RobTimes DEF RobInv, RobTypes
  <2>4. RobLeads'
    BY <2>0, <2>1, <2>2, RobNothing DEF RobInv, RobLeads
  <2>5. RobCurrent'
    BY <2>0, <2>2 DEF RobInv, RobCurrent
  <2> QED
    BY <2>3, <2>4, <2>5 DEF RobInv
<1>2. CASE Raw(w)
  <2>0. /\ asker[w] = "fetching" /\ got' = served /\ Becomes(w, "storing")
        /\ UNCHANGED <<served, servedFor, changes, answer, leader, age>>
    BY <1>2 DEF Raw, siteVars
  <2>1. /\ asker'[w] = "storing" /\ \A v \in Askers \ {w} : asker'[v] = asker[v]
        /\ asker' \in [Askers -> {"idle", "ask", "waiting", "fetching", "storing", "in", "out"}]
    BY <2>0, RobMoved DEF RobInv
  <2>2. leader = w /\ served # Nothing
    BY <2>0 DEF RobInv, RobLeads
  <2>3. RobTypes'
    BY <2>0, <2>1 DEF RobInv, RobTypes
  <2>4. RobLeads'
    BY <2>0, <2>1, <2>2, RobNothing DEF RobInv, RobLeads
  <2>5. RobCurrent'
    BY <2>0 DEF RobInv, RobCurrent
  <2> QED
    BY <2>3, <2>4, <2>5 DEF RobInv
<1> QED
  BY <1>1, <1>2

LEMMA RobStores ==
  ASSUME RobInv, NEW w \in Askers, Store(w)
  PROVE  RobInv'
<1>0. /\ asker[w] = "storing" /\ answer' = Entry(got)
      /\ leader' = Nothing /\ got' = Nothing /\ UNCHANGED <<served, servedFor, changes, age>>
  BY DEF Store, siteVars
<1>1. got \in Answers /\ got # Nothing /\ leader = w /\ served # Nothing
  BY <1>0, RobNothing DEF RobInv, RobTypes, RobLeads
<1>2. age \in Nat /\ age <= FetchTime /\ servedFor \in Nat
  BY RobTimes DEF RobInv, RobTypes
<1>3. Lifetime(got) \in Nat /\ Lifetime(got) <= TTL
  BY RobTimes
<1>4. /\ answer'.file = got /\ answer'.left = (IF age < Lifetime(got) THEN Lifetime(got) - age ELSE 0)
      /\ answer' \in [file : Answers, left : 0..TTL]
  <2> DEFINE left == IF age < Lifetime(got) THEN Lifetime(got) - age ELSE 0
  <2>1. left \in 0..TTL
    BY <1>2, <1>3, RobTimes
  <2>2. answer' = [file |-> got, left |-> left]
    BY <1>0 DEF Entry
  <2> QED
    BY <1>1, <2>1, <2>2
<1>5. /\ asker'[w] \in {"in", "out"}
      /\ \A v \in Askers \ {w} : asker'[v] = IF asker[v] = "waiting" THEN "ask" ELSE asker[v]
      /\ asker' \in [Askers -> {"idle", "ask", "waiting", "fetching", "storing", "in", "out"}]
  BY DEF Store, RobInv, RobTypes
<1>6. RobTypes'
  BY <1>0, <1>4, <1>5 DEF RobInv, RobTypes
<1>7. RobLeads'
  BY <1>0, <1>1, <1>5, RobNothing DEF RobInv, RobLeads
<1>8. RobCurrent'
  <2>1. servedFor > age => got = served
    BY <1>1 DEF RobInv, RobCurrent
  <2>2. /\ answer'.left <= Lifetime(got)
        /\ answer'.left > 0 => Lifetime(got) - answer'.left = age
    BY <1>2, <1>3, <1>4
  <2> QED
    BY <1>0, <1>4, <2>1, <2>2 DEF RobCurrent
<1> QED
  BY <1>6, <1>7, <1>8 DEF RobInv

LEMMA RobChanges ==
  ASSUME RobInv, NEW a \in Answers, Change(a)
  PROVE  RobInv'
<1>0. served' = a /\ servedFor' = 0 /\ UNCHANGED <<answer, leader, got, age, asker>>
  BY DEF Change, cacheVars
<1>1. a # Nothing
  BY RobNothing
<1>2. RobTypes'
  BY <1>0, RobTimes DEF RobInv, RobTypes
<1>3. RobLeads'
  BY <1>0, <1>1 DEF RobInv, RobLeads
<1>4. RobCurrent'
  <2>1. ~(servedFor' > age)
    BY <1>0, RobTimes DEF RobInv, RobTypes
  <2>2. answer # Nothing => answer.left \in Nat /\ answer.left <= Lifetime(answer.file)
    BY DEF RobInv, RobTypes, RobCurrent
  <2>3. answer # Nothing => ~(servedFor' > Lifetime(answer.file) - answer.left)
    BY <1>0, <2>2, RobTimes
  <2> QED
    BY <1>0, <2>1, <2>2, <2>3 DEF RobCurrent
<1> QED
  BY <1>2, <1>3, <1>4 DEF RobInv

LEMMA RobAges ==
  ASSUME RobInv, TimePasses
  PROVE  RobInv'
<1>0. UNCHANGED <<served, changes, leader, got, asker>>
  BY DEF TimePasses
<1>1. /\ servedFor \in 0..(TTL + 1) /\ servedFor' = IF servedFor > TTL THEN servedFor ELSE servedFor + 1
      /\ age \in 0..FetchTime /\ age' = (IF leader # Nothing THEN age + 1 ELSE 0)
      /\ leader # Nothing => age < FetchTime
  BY DEF TimePasses, RobInv, RobTypes
<1>2. servedFor' \in 0..(TTL + 1) /\ age' \in 0..FetchTime
  BY <1>1, RobTimes
<1>3. CASE Fresh
  <2>1. /\ answer \in [file : Answers, left : 0..TTL] /\ answer.left > 0
        /\ answer' = [answer EXCEPT !.left = @ - 1]
    BY <1>3 DEF Fresh, TimePasses, RobInv, RobTypes
  <2>2. answer'.file = answer.file /\ answer'.left = answer.left - 1
    BY <2>1
  <2>3. answer' \in [file : Answers, left : 0..TTL]
    <3>1. answer.left - 1 \in 0..TTL
      BY <2>1, RobTimes
    <3> QED
      BY <2>1, <3>1
  <2>4. answer # Nothing
    BY <1>3 DEF Fresh
  <2>5. /\ answer.left <= Lifetime(answer.file)
        /\ servedFor > Lifetime(answer.file) - answer.left => answer.file = served
    BY <2>1, <2>4 DEF RobInv, RobCurrent
  <2>6. Lifetime(answer.file) \in Nat /\ Lifetime(answer.file) <= TTL /\ answer.left \in Nat
    BY <2>1, RobTimes
  <2>7. /\ answer.left - 1 <= Lifetime(answer.file)
        /\ servedFor' > Lifetime(answer.file) - (answer.left - 1) => servedFor > Lifetime(answer.file) - answer.left
    BY <1>1, <2>1, <2>5, <2>6, RobTimes
  <2>8. got # Nothing /\ servedFor' > age' => got = served
    <3>1. got # Nothing => leader # Nothing
      BY DEF RobInv, RobLeads
    <3>2. got # Nothing /\ servedFor' > age' => servedFor > age
      BY <1>1, <3>1, RobTimes
    <3> QED
      BY <3>2 DEF RobInv, RobCurrent
  <2>9. RobTypes' /\ RobLeads'
    BY <1>0, <1>2, <2>3 DEF RobInv, RobTypes, RobLeads
  <2>10. RobCurrent'
    BY <1>0, <2>2, <2>5, <2>7, <2>8 DEF RobCurrent
  <2> QED
    BY <2>9, <2>10 DEF RobInv
<1>4. CASE ~Fresh
  <2>1. answer' = answer /\ (answer = Nothing \/ ~(answer.left > 0))
    BY <1>4 DEF Fresh, TimePasses
  <2>2. got # Nothing /\ servedFor' > age' => got = served
    <3>1. got # Nothing => leader # Nothing
      BY DEF RobInv, RobLeads
    <3>2. got # Nothing /\ servedFor' > age' => servedFor > age
      BY <1>1, <3>1, RobTimes
    <3> QED
      BY <3>2 DEF RobInv, RobCurrent
  <2>3. RobTypes' /\ RobLeads'
    BY <1>0, <1>2, <2>1 DEF RobInv, RobTypes, RobLeads
  <2>4. RobCurrent'
    BY <1>0, <2>1, <2>2 DEF RobInv, RobCurrent
  <2> QED
    BY <2>3, <2>4 DEF RobInv
<1> QED
  BY <1>3, <1>4

LEMMA RobInductive ==
  ASSUME RobInv, [RobotsNext]_robotsVars
  PROVE  RobInv'
<1>1. CASE UNCHANGED robotsVars
  BY <1>1 DEF robotsVars, siteVars, cacheVars, RobInv, RobTypes, RobLeads, RobCurrent
<1>2. ASSUME NEW w \in Askers, Ask(w) PROVE RobInv'
  BY <1>2, RobAsks DEF Ask
<1>3. ASSUME NEW w \in Askers, TakeAnswer(w) \/ AwaitLeader(w) \/ Proceed(w) PROVE RobInv'
  <2>1. PICK state \in {"idle", "waiting", "in", "out"} :
          Becomes(w, state) /\ UNCHANGED <<siteVars, cacheVars>> /\ asker[w] \in {"ask", "in", "out"}
    BY <1>3 DEF TakeAnswer, AwaitLeader, Proceed
  <2>2. served # Nothing
    BY <2>1 DEF RobInv, RobLeads
  <2> QED
    BY <2>1, <2>2, RobAsks
<1> QED
  BY <1>1, <1>2, <1>3, RobLeader, RobStores, RobChanges, RobAges DEF RobotsNext, AskStep

LEMMA RobInvariant == RobotsSpec => []RobInv
<1> QED
  BY RobInitially, RobInductive, PTL DEF RobotsSpec

\* The verdict of a step rests on the answer that is cached when the step is over,
\* and that one is what the site serves, unless it has changed within its lifetime or
\* within the time of a fetch: the leader takes an answer that may have expired.
LEMMA RobVerdict ==
  ASSUME RobInv, RobInv', [RobotsNext]_robotsVars, NEW w \in Askers, Decides(w)
  PROVE  /\ answer' # Nothing /\ served' = served /\ servedFor' = servedFor
         /\ servedFor > Lifetime(answer'.file) /\ servedFor > FetchTime => answer'.file = served
         /\ asker'[w] = IF Allows(answer'.file) THEN "in" ELSE "out"
<1>1. PICK v \in Askers : TakeAnswer(v) \/ Store(v)
  <2>1. asker'[w] # asker[w] /\ asker'[w] \in {"in", "out"}
    BY DEF Decides
  <2>2. \A v \in Askers : \A state : Becomes(v, state) /\ state \notin {"in", "out"} => asker'[w] \notin {"in", "out"}
                                    \/ asker'[w] = asker[w]
    BY DEF Becomes, RobInv, RobTypes
  <2> QED
    BY <2>1, <2>2 DEF RobotsNext, robotsVars, AskStep, Ask, AwaitLeader, Lead, Raw, Proceed, Change, TimePasses
<1>2. CASE TakeAnswer(v)
  <2>1. v = w
    BY <1>2 DEF TakeAnswer, Becomes, Decides, RobInv, RobTypes
  <2>2. asker'[w] = IF Allows(answer.file) THEN "in" ELSE "out"
    BY <1>2, <2>1 DEF TakeAnswer, Becomes, RobInv, RobTypes
  <2>3. answer' = answer /\ answer # Nothing /\ answer.left > 0 /\ UNCHANGED <<served, servedFor>>
    BY <1>2 DEF TakeAnswer, Fresh, siteVars, cacheVars
  <2>4. servedFor > Lifetime(answer.file) => answer.file = served
    BY <2>3, RobTimes DEF RobInv, RobTypes, RobCurrent
  <2> QED
    BY <2>2, <2>3, <2>4
<1>3. CASE Store(v)
  <2>1. v = w
    BY <1>3 DEF Store, Decides, RobInv, RobTypes
  <2>2. /\ asker'[w] = IF Allows(got) THEN "in" ELSE "out"
        /\ answer' = Entry(got) /\ got # Nothing
    BY <1>3, <2>1 DEF Store, RobInv, RobTypes, RobLeads
  <2>3. answer'.file = got /\ (servedFor > FetchTime => got = served)
    BY <2>2, RobTimes DEF Entry, RobInv, RobTypes, RobCurrent
  <2>4. answer' # Nothing
    <3> DEFINE left == IF age < Lifetime(got) THEN Lifetime(got) - age ELSE 0
    <3>1. got \in Answers /\ left \in Nat
      BY <2>2, RobTimes DEF RobInv, RobTypes
    <3>2. answer' = [file |-> got, left |-> left]
      BY <2>2 DEF Entry
    <3>3. answer' \in [file : Answers, left : Nat]
      BY <3>1, <3>2
    <3> QED
      BY <3>3, RobotsAssumption DEF Answers
  <2> QED
    BY <1>3, <2>2, <2>3, <2>4 DEF Store, siteVars
<1> QED
  BY <1>1, <1>2, <1>3

\* Whoever fetched the file and whatever the site had answered before: no crawl goes
\* on because of rules that are older than TTL, and none is turned away because of an
\* error that has been over for NegativeTTL and the time of a fetch (Allowed, entryFor,
\* fetchEntry).
THEOREM VerdictIsFreshCorrect == RobotsSpec => VerdictIsFresh
<1>1. ASSUME RobInv, RobInv', [RobotsNext]_robotsVars
      PROVE  [\A w \in Askers : Decides(w) =>
                /\ served = "forbid" /\ servedFor > TTL => asker'[w] = "out"
                /\ asker'[w] = "out" /\ servedFor > NegativeTTL /\ servedFor > FetchTime =>
                     answer'.file = "forbid" \/ served = "error"]_robotsVars
  <2> SUFFICES ASSUME NEW w \in Askers, Decides(w)
               PROVE  /\ served = "forbid" /\ servedFor > TTL => asker'[w] = "out"
                      /\ asker'[w] = "out" /\ servedFor > NegativeTTL /\ servedFor > FetchTime =>
                           answer'.file = "forbid" \/ served = "error"
    OBVIOUS
  <2>1. /\ answer' # Nothing /\ served' = served /\ servedFor' = servedFor
        /\ servedFor > Lifetime(answer'.file) /\ servedFor > FetchTime => answer'.file = served
        /\ asker'[w] = IF Allows(answer'.file) THEN "in" ELSE "out"
    BY <1>1, RobVerdict
  <2>2. answer'.file \in Answers
    BY <1>1, <2>1 DEF RobInv, RobTypes
  <2>3. servedFor \in Nat
    BY <1>1 DEF RobInv, RobTypes
  <2>4. ASSUME served = "forbid", servedFor > TTL PROVE asker'[w] = "out"
    <3>1. servedFor > Lifetime(answer'.file) /\ servedFor > FetchTime
      BY <2>3, <2>4, RobTimes
    <3> QED
      BY <2>1, <2>2, <2>4, <3>1 DEF Allows
  <2>5. ASSUME asker'[w] = "out", servedFor > NegativeTTL, servedFor > FetchTime PROVE answer'.file = "forbid" \/ served = "error"
    <3>1. answer'.file \in {"forbid", "error"}
      BY <2>1, <2>2, <2>5 DEF Allows, Answers
    <3>2. CASE answer'.file = "error"
      <4>1. Lifetime(answer'.file) = NegativeTTL
        BY <3>2 DEF Lifetime
      <4> QED
        BY <2>1, <2>5, <3>2, <4>1
    <3> QED
      BY <3>1, <3>2
  <2> QED
    BY <2>4, <2>5
<1> QED
  BY <1>1, RobInvariant, PTL DEF RobotsSpec, VerdictIsFresh

LEMMA RobTypeOK == RobInv => RobotsTypeOK
BY DEF RobInv, RobTypes, RobotsTypeOK

-----------------------------------------------------------------------------
(* Schedule: requests of operators and of servers.                         *)

\* How far away a check may be.
Within(at) == -MaxLate <= at /\ (at <= MaxInterval \/ \E ra \in RetryAfters : at <= ra)

SchedTypes ==
  /\ nextCheck \in [Urls -> Int] /\ \A u \in Urls : Within(nextCheck[u])
  /\ interval \in [Urls -> MinInterval..MaxInterval]
  /\ enabled \subseteq Sites /\ loop \in {"off", "idle", "tick", "batch"} /\ stopped \in BOOLEAN
  /\ batch \subseteq Rows /\ crawling \subseteq Rows
  /\ IsFiniteSet(crawling) /\ Cardinality(crawling) <= MaxParallel
  /\ asked \subseteq Urls /\ heldOff \in [Urls -> Nat]
  /\ asks \in 0..MaxAsks /\ errors \in 0..MaxErrors

\* What is held off is not due, and no crawl is on of what was asked for.
SchedKept ==
  /\ \A u \in Urls : heldOff[u] = 0 \/ heldOff[u] <= nextCheck[u]
  /\ asked \cap UrlsOf(crawling) = {}
  /\ RecheckKept

SchedInv == SchedTypes /\ SchedKept

LEMMA SchedBounds ==
  /\ MinInterval \in Nat /\ MaxInterval \in Nat /\ 0 < MinInterval /\ MinInterval <= MaxInterval
  /\ MaxLate \in Nat /\ MaxAsks \in Nat /\ MaxErrors \in Nat /\ MaxParallel \in Nat /\ 0 < MaxParallel
  /\ RetryAfters \subseteq Nat
BY ScheduleAssumption

\* The intervals that the rules give stay in their bounds.
LEMMA IntervalsInBounds ==
  ASSUME NEW prev \in MinInterval..MaxInterval
  PROVE  /\ \A changed \in BOOLEAN : RecomputeNextCheck(prev, changed) \in MinInterval..MaxInterval
         /\ BackoffSchedule(prev) \in MinInterval..MaxInterval
<1>1. \A i \in Int : Clamp(i) \in MinInterval..MaxInterval
  BY SchedBounds DEF Clamp, AtMost, AtLeast
<1>2. prev \in Int /\ prev * 2 \in Int /\ prev * 3 \in Int
  BY SchedBounds
<1>3. prev \div 2 \in Int /\ (prev * 3) \div 2 \in Int
  BY <1>2
<1> QED
  BY <1>1, <1>2, <1>3 DEF RecomputeNextCheck, BackoffSchedule

LEMMA SchedInitially == ScheduleInit => SchedInv
<1> SUFFICES ASSUME ScheduleInit PROVE SchedInv
  OBVIOUS
<1> USE DEF ScheduleInit
<1>1. IsFiniteSet(crawling) /\ Cardinality(crawling) <= MaxParallel
  BY FS_EmptySet, SchedBounds
<1>2. \A u \in Urls : Within(nextCheck[u])
  BY SchedBounds DEF Within
<1>3. SchedTypes
  <2>1. MinInterval \in MinInterval..MaxInterval /\ 0 \in 0..MaxAsks /\ 0 \in 0..MaxErrors
    BY SchedBounds
  <2>2. /\ nextCheck \in [Urls -> Int] /\ interval \in [Urls -> MinInterval..MaxInterval]
        /\ heldOff \in [Urls -> Nat]
    BY <2>1
  <2> QED
    BY <1>1, <1>2, <2>1, <2>2 DEF SchedTypes
<1>4. SchedKept
  BY DEF SchedKept, RecheckKept, UrlsOf
<1> QED
  BY <1>3, <1>4 DEF SchedInv

\* The rows of the batch and of the crawls change, the schedule does not.
LEMMA SchedLoop ==
  ASSUME SchedInv, UNCHANGED <<schedule, enabled, heldOff, asks>>,
         loop' \in {"off", "idle", "tick", "batch"}, stopped' \in BOOLEAN, errors' \in 0..MaxErrors,
         batch' \subseteq Rows, crawling' \subseteq Rows,
         IsFiniteSet(crawling'), Cardinality(crawling') <= MaxParallel,
         asked' \subseteq asked, asked' \cap UrlsOf(crawling') = {}
  PROVE  SchedInv'
<1>0. nextCheck' = nextCheck /\ interval' = interval
  BY DEF schedule
<1>1. SchedTypes'
  BY <1>0 DEF SchedInv, SchedTypes, Within
<1>2. SchedKept'
  BY <1>0 DEF SchedInv, SchedKept, RecheckKept
<1> QED
  BY <1>1, <1>2 DEF SchedInv

LEMMA SchedTicks ==
  ASSUME SchedInv, RunScheduler \/ SchedulerTick \/ TickFails \/ DropBatch \/ TickDone \/ StopScheduler
                   \/ \E r \in batch : Dispatch(r)
  PROVE  SchedInv'
<1>0. /\ asked \cap UrlsOf(crawling) = {} /\ batch \subseteq Rows /\ crawling \subseteq Rows /\ stopped \in BOOLEAN
      /\ IsFiniteSet(crawling) /\ Cardinality(crawling) <= MaxParallel /\ errors \in 0..MaxErrors
      /\ interval \in [Urls -> MinInterval..MaxInterval] /\ loop \in {"off", "idle", "tick", "batch"}
  BY DEF SchedInv, SchedTypes, SchedKept
<1>1. CASE RunScheduler \/ DropBatch \/ TickDone \/ StopScheduler
  <2>1. /\ UNCHANGED <<schedule, enabled, heldOff, asks, asked, errors>>
        /\ loop' \in {"off", "idle", "tick", "batch"} /\ stopped' \in BOOLEAN
        /\ batch' \subseteq batch /\ crawling' = crawling
    BY <1>0, <1>1 DEF RunScheduler, DropBatch, TickDone, StopScheduler, tickVars
  <2>2. asked' \cap UrlsOf(crawling') = {}
    BY <1>0, <2>1
  <2> QED
    BY <1>0, <2>1, <2>2, SchedLoop
<1>2. CASE SchedulerTick
  <2>1. PICK urls \in PopDueURLs : batch' = {Row(u) : u \in urls}
    BY <1>2 DEF SchedulerTick
  <2>2. /\ UNCHANGED <<schedule, enabled, heldOff, asks, asked, errors, stopped, crawling>> /\ loop' = "batch"
    BY <1>2 DEF SchedulerTick
  <2>3. urls \subseteq Urls
    BY DEF PopDueURLs, Due
  <2>4. batch' \subseteq Rows
    BY <1>0, <2>1, <2>3 DEF Row, Rows
  <2> QED
    BY <1>0, <2>2, <2>4, SchedLoop
<1>3. CASE TickFails
  <2>1. /\ UNCHANGED <<schedule, enabled, heldOff, asks, asked, stopped, batch, crawling>> /\ loop' = "idle"
        /\ errors' = errors \/ (errors < MaxErrors /\ errors' = errors + 1)
    BY <1>3 DEF TickFails
  <2>2. errors' \in 0..MaxErrors
    BY <1>0, <2>1, SchedBounds
  <2> QED
    BY <1>0, <2>1, <2>2, SchedLoop
<1>4. ASSUME NEW r \in batch, Dispatch(r) PROVE SchedInv'
  <2>1. /\ UNCHANGED <<schedule, enabled, heldOff, asks, stopped, loop, errors>> /\ asked' = asked \ {r.url}
        /\ batch' = batch \ {r} /\ crawling' = crawling \cup {r} /\ Cardinality(crawling) < MaxParallel
    BY <1>4 DEF Dispatch
  <2>2. IsFiniteSet(crawling') /\ Cardinality(crawling') <= MaxParallel
    <3>1. /\ IsFiniteSet(crawling \cup {r}) /\ Cardinality(crawling) \in Nat
          /\ Cardinality(crawling \cup {r}) \in {Cardinality(crawling), Cardinality(crawling) + 1}
      BY <1>0, FS_AddElement, FS_CardinalityType
    <3> QED
      BY <2>1, <3>1, SchedBounds
  <2>3. asked' \cap UrlsOf(crawling') = {}
    <3>1. UrlsOf(crawling') = UrlsOf(crawling) \cup {r.url}
      BY <2>1 DEF UrlsOf
    <3> QED
      BY <1>0, <2>1, <3>1
  <2> QED
    BY <1>0, <2>1, <2>2, <2>3, SchedLoop
<1> QED
  BY <1>1, <1>2, <1>3, <1>4

LEMMA SchedClock ==
  ASSUME SchedInv, Clock
  PROVE  SchedInv'
<1>0. /\ nextCheck' = [u \in Urls |-> AtLeast(-MaxLate, nextCheck[u] - 1)]
      /\ heldOff' = [u \in Urls |-> AtLeast(0, heldOff[u] - 1)] /\ loop' = "tick"
      /\ UNCHANGED <<interval, enabled, batch, crawling, stopped, asked, asks, errors>>
  BY DEF Clock
<1>1. \A u \in Urls : /\ nextCheck[u] \in Int /\ heldOff[u] \in Nat /\ Within(nextCheck[u])
                      /\ heldOff[u] = 0 \/ heldOff[u] <= nextCheck[u]
  BY DEF SchedInv, SchedTypes, SchedKept
<1>2. \A u \in Urls : /\ nextCheck'[u] \in Int /\ heldOff'[u] \in Nat
                      /\ nextCheck'[u] <= nextCheck[u] \/ nextCheck'[u] = -MaxLate
                      /\ -MaxLate <= nextCheck'[u]
                      /\ heldOff'[u] = 0 \/ heldOff'[u] <= nextCheck'[u]
  BY <1>0, <1>1, SchedBounds DEF AtLeast
<1>3. \A u \in Urls : Within(nextCheck'[u])
  <2> TAKE u \in Urls
  <2>1. CASE nextCheck'[u] = -MaxLate
    BY <2>1, SchedBounds DEF Within
  <2>2. CASE nextCheck'[u] <= nextCheck[u]
    BY <1>1, <1>2, <2>2, SchedBounds DEF Within
  <2> QED
    BY <1>2, <2>1, <2>2
<1>4. SchedTypes'
  <2>1. nextCheck' \in [Urls -> Int] /\ heldOff' \in [Urls -> Nat]
    BY <1>0, <1>2
  <2>2. \A u \in Urls : Within(nextCheck[u])'
    BY <1>3 DEF Within
  <2> QED
    BY <1>0, <2>1, <2>2 DEF SchedInv, SchedTypes
<1>5. SchedKept'
  <2>1. \A u \in asked : nextCheck[u] <= 0 /\ u \in Urls
    BY DEF SchedInv, SchedTypes, SchedKept, RecheckKept
  <2>2. \A u \in asked : nextCheck'[u] <= 0
    BY <1>1, <1>2, <2>1, SchedBounds
  <2>3. asked' \cap UrlsOf(crawling') = {}
    BY <1>0 DEF SchedInv, SchedKept
  <2> QED
    BY <1>0, <1>2, <2>2, <2>3 DEF SchedKept, RecheckKept
<1> QED
  BY <1>4, <1>5 DEF SchedInv

\* A crawl ends, with what it has written about its URL.
LEMMA SchedLeaves ==
  ASSUME SchedInv, NEW r, Leaves(r), errors' \in 0..MaxErrors,
         NEW every \in MinInterval..MaxInterval, NEW at \in Int, Within(at), NEW ticks \in Nat,
         ticks = 0 \/ ticks <= at,
         (UpdateURLSchedule(r.url, every, at) /\ HoldOff(r.url, ticks)) \/ UNCHANGED <<schedule, heldOff>>
  PROVE  SchedInv'
<1>0. /\ r \in crawling /\ crawling' = crawling \ {r} /\ UNCHANGED <<enabled, loop, batch, stopped, asked, asks>>
      /\ IsFiniteSet(crawling) /\ Cardinality(crawling) <= MaxParallel
      /\ asked \cap UrlsOf(crawling) = {}
  BY DEF Leaves, SchedInv, SchedTypes, SchedKept
<1>1. r.url \in Urls /\ r.url \notin asked
  BY <1>0 DEF SchedInv, SchedTypes, Rows, UrlsOf
<1>2. IsFiniteSet(crawling') /\ Cardinality(crawling') <= MaxParallel
  <2>1. /\ IsFiniteSet(crawling \ {r}) /\ Cardinality(crawling \ {r}) = Cardinality(crawling) - 1
        /\ Cardinality(crawling) \in Nat
    BY <1>0, FS_RemoveElement, FS_CardinalityType
  <2> QED
    BY <1>0, <2>1, SchedBounds
<1>3. asked' \cap UrlsOf(crawling') = {}
  <2>1. UrlsOf(crawling') \subseteq UrlsOf(crawling)
    BY <1>0 DEF UrlsOf
  <2> QED
    BY <1>0, <2>1
<1>4. CASE UNCHANGED <<schedule, heldOff>>
  BY <1>0, <1>2, <1>3, <1>4, SchedLoop DEF SchedInv, SchedTypes
<1>5. CASE UpdateURLSchedule(r.url, every, at) /\ HoldOff(r.url, ticks)
  <2>0. /\ nextCheck \in [Urls -> Int] /\ interval \in [Urls -> MinInterval..MaxInterval]
        /\ heldOff \in [Urls -> Nat]
    BY DEF SchedInv, SchedTypes
  <2>1. /\ nextCheck' \in [Urls -> Int] /\ interval' \in [Urls -> MinInterval..MaxInterval]
        /\ heldOff' \in [Urls -> Nat]
        /\ nextCheck'[r.url] = at /\ heldOff'[r.url] = ticks
        /\ \A u \in Urls \ {r.url} : nextCheck'[u] = nextCheck[u] /\ heldOff'[u] = heldOff[u]
    BY <1>1, <1>5, <2>0 DEF UpdateURLSchedule, HoldOff
  <2>2. \A u \in Urls : Within(nextCheck[u])'
    BY <1>1, <2>1 DEF SchedInv, SchedTypes, Within
  <2>3. \A u \in Urls : heldOff'[u] = 0 \/ heldOff'[u] <= nextCheck'[u]
    BY <1>1, <2>1 DEF SchedInv, SchedKept
  <2>4. RecheckKept'
    BY <1>0, <1>1, <2>1 DEF SchedInv, SchedTypes, SchedKept, RecheckKept
  <2>5. SchedTypes'
    BY <1>0, <1>2, <2>1, <2>2 DEF SchedInv, SchedTypes
  <2> QED
    BY <1>3, <2>3, <2>4, <2>5 DEF SchedInv, SchedKept
<1> QED
  BY <1>4, <1>5

LEMMA SchedCrawlEnds ==
  ASSUME SchedInv, NEW r \in crawling, CrawlEnds(r)
  PROVE  SchedInv'
<1>0. r.interval \in MinInterval..MaxInterval /\ errors \in 0..MaxErrors
  BY DEF SchedInv, SchedTypes, Rows
<1>1. CASE Disallowed(r)
  <2>1. Within(MaxInterval) /\ MaxInterval \in MinInterval..MaxInterval /\ MaxInterval \in Nat
    BY SchedBounds DEF Within
  <2> QED
    BY <1>0, <1>1, <2>1, SchedLeaves DEF Disallowed
<1>2. ASSUME NEW changed \in BOOLEAN, Crawled(r, changed) PROVE SchedInv'
  <2> DEFINE next == RecomputeNextCheck(r.interval, changed)
  <2>1. next \in MinInterval..MaxInterval
    BY <1>0, IntervalsInBounds
  <2>2. Leaves(r) /\ UpdateURLSchedule(r.url, next, next) /\ HoldOff(r.url, MinInterval) /\ errors' = errors
    BY <1>2 DEF Crawled
  <2> HIDE DEF next
  <2>3. Within(next) /\ next \in Int /\ MinInterval <= next /\ MinInterval \in Nat
    BY <2>1, SchedBounds DEF Within
  <2> QED
    BY <1>0, <2>1, <2>2, <2>3, SchedLeaves
<1>3. ASSUME NEW ra \in RetryAfters, SoftBlocked(r, ra) PROVE SchedInv'
  <2> DEFINE next == BackoffSchedule(r.interval)
             at == AtLeast(next, ra)
             ticks == AtLeast(ra, MinInterval)
  <2>1. next \in MinInterval..MaxInterval /\ ra \in Nat
    BY <1>0, IntervalsInBounds, SchedBounds
  <2>2. Leaves(r) /\ UpdateURLSchedule(r.url, next, at) /\ HoldOff(r.url, ticks) /\ errors' = errors
    BY <1>3 DEF SoftBlocked
  <2> HIDE DEF next
  <2>3. Within(at) /\ at \in Int /\ ticks <= at /\ ticks \in Nat
    BY <2>1, SchedBounds DEF Within, AtLeast
  <2> HIDE DEF at, ticks
  <2> QED
    BY <1>0, <2>1, <2>2, <2>3, SchedLeaves
<1>4. CASE Panicked(r) \/ ScheduleLost(r)
  <2>1. Leaves(r) /\ UNCHANGED <<schedule, heldOff>> /\ errors' \in 0..MaxErrors
    BY <1>0, <1>4, SchedBounds DEF Panicked, ScheduleLost
  <2>2. Within(0) /\ MaxInterval \in MinInterval..MaxInterval
    BY SchedBounds DEF Within
  <2> QED
    BY <2>1, <2>2, SchedLeaves
<1>5. CASE BackedOff(r)
  <2> DEFINE next == BackoffSchedule(r.interval)
  <2>1. next \in MinInterval..MaxInterval
    BY <1>0, IntervalsInBounds
  <2>2. Leaves(r) /\ UpdateURLSchedule(r.url, next, next) /\ HoldOff(r.url, MinInterval) /\ errors' = errors
    BY <1>5 DEF BackedOff
  <2> HIDE DEF next
  <2>3. Within(next) /\ next \in Int /\ MinInterval <= next /\ MinInterval \in Nat
    BY <2>1, SchedBounds DEF Within
  <2> QED
    BY <1>0, <2>1, <2>2, <2>3, SchedLeaves
<1> QED
  BY <1>1, <1>2, <1>3, <1>4, <1>5 DEF CrawlEnds

LEMMA SchedAsks ==
  ASSUME SchedInv, NEW urls \in SUBSET Urls, Asks(urls), interval' \in [Urls -> MinInterval..MaxInterval]
  PROVE  SchedInv'
<1>0. /\ asks < MaxAsks /\ asks' = asks + 1 /\ asked' = asked \cup (urls \ UrlsOf(crawling))
      /\ nextCheck' = [u \in Urls |-> IF u \in urls THEN 0 ELSE nextCheck[u]]
      /\ heldOff' = [u \in Urls |-> IF u \in urls THEN 0 ELSE heldOff[u]]
      /\ UNCHANGED <<enabled, loop, batch, crawling, stopped, errors>>
  BY DEF Asks, tickVars
<1>1. /\ \A u \in Urls : nextCheck[u] \in Int /\ heldOff[u] \in Nat /\ Within(nextCheck[u])
      /\ \A u \in Urls : heldOff[u] = 0 \/ heldOff[u] <= nextCheck[u]
      /\ asks \in 0..MaxAsks /\ asked \cap UrlsOf(crawling) = {} /\ asked \subseteq Urls
      /\ \A u \in asked : nextCheck[u] <= 0
  BY DEF SchedInv, SchedTypes, SchedKept, RecheckKept
<1>2. Within(0) /\ asks' \in 0..MaxAsks
  BY <1>0, <1>1, SchedBounds DEF Within
<1>3. \A u \in Urls : Within(nextCheck[u])'
  BY <1>0, <1>1, <1>2 DEF Within
<1>4. nextCheck' \in [Urls -> Int] /\ heldOff' \in [Urls -> Nat]
  BY <1>0, <1>1
<1>5. SchedTypes'
  BY <1>0, <1>1, <1>2, <1>3, <1>4 DEF SchedInv, SchedTypes
<1>6. SchedKept'
  BY <1>0, <1>1 DEF SchedKept, RecheckKept
<1> QED
  BY <1>5, <1>6 DEF SchedInv

LEMMA SchedInductive ==
  ASSUME SchedInv, [ScheduleNext]_scheduleVars
  PROVE  SchedInv'
<1>0. interval \in [Urls -> MinInterval..MaxInterval] /\ MinInterval \in MinInterval..MaxInterval
  BY SchedBounds DEF SchedInv, SchedTypes
<1>1. CASE UNCHANGED scheduleVars
  BY <1>1 DEF scheduleVars, schedule, tickVars, SchedInv, SchedTypes, SchedKept, Within, RecheckKept
<1>2. ASSUME NEW target \in Targets, EnqueueRecheck(target) PROVE SchedInv'
  <2>1. target \subseteq Urls
    BY DEF Targets
  <2> DEFINE urls == {u \in target : SiteOf[u] \in enabled}
  <2>2. urls \in SUBSET Urls /\ Asks(urls) /\ interval' = interval
    BY <1>2, <2>1 DEF EnqueueRecheck
  <2> QED
    BY <1>0, <2>2, SchedAsks
<1>3. ASSUME NEW u \in Urls, SeedHomepage(u) PROVE SchedInv'
  <2>1. interval' \in [Urls -> MinInterval..MaxInterval] /\ Asks({u}) /\ {u} \in SUBSET Urls
    BY <1>0, <1>3 DEF SeedHomepage
  <2> QED
    BY <2>1, SchedAsks
<1>4. ASSUME NEW s \in Sites, SetSiteEnabled(s) PROVE SchedInv'
  <2>1. /\ UNCHANGED <<nextCheck, interval, loop, batch, crawling, stopped, asked, heldOff, errors>>
        /\ asks < MaxAsks /\ asks' = asks + 1 /\ enabled' \subseteq enabled \cup {s}
    BY <1>4 DEF SetSiteEnabled, schedule, tickVars
  <2>2. asks' \in 0..MaxAsks
    BY <2>1, SchedBounds DEF SchedInv, SchedTypes
  <2>3. SchedTypes'
    BY <2>1, <2>2 DEF SchedInv, SchedTypes, Within
  <2>4. SchedKept'
    BY <2>1 DEF SchedInv, SchedKept, RecheckKept
  <2> QED
    BY <2>3, <2>4 DEF SchedInv
<1> QED
  BY <1>1, <1>2, <1>3, <1>4, SchedTicks, SchedClock, SchedCrawlEnds DEF ScheduleNext

LEMMA SchedInvariant == ScheduleSpec => []SchedInv
<1> QED
  BY SchedInitially, SchedInductive, PTL DEF ScheduleSpec

\* However rechecks, restarts, sites switched off and failing calls fall between the
\* pop of a batch and the ends of its crawls: what an operator asks for stays due
\* until a crawl of it begins, unless one was on when he asked, and no URL is popped
\* before the Retry-After of its own answer
\* (PopDueURLs, UpdateURLSchedule, EnqueueRecheck).
THEOREM RequestsHonouredCorrect == ScheduleSpec => RequestsHonoured
<1>1. ASSUME SchedInv, SchedInv', [ScheduleNext]_scheduleVars
      PROVE  [RecheckKept' /\ LeftAlone]_scheduleVars
  <2>1. RecheckKept'
    BY <1>1 DEF SchedInv, SchedKept
  <2>2. ASSUME NEW r \in batch' \ batch PROVE heldOff[r.url] = 0
    <3>1. SchedulerTick
      BY <1>1, <2>2 DEF ScheduleNext, RunScheduler, Clock, TickFails, Dispatch, DropBatch, TickDone, CrawlEnds,
         Disallowed, Crawled, SoftBlocked, BackedOff, Panicked, ScheduleLost, Leaves, EnqueueRecheck, SeedHomepage, Asks,
         SetSiteEnabled, StopScheduler, tickVars, scheduleVars
    <3>2. PICK urls \in PopDueURLs : batch' = {Row(u) : u \in urls}
      BY <3>1 DEF SchedulerTick
    <3>3. PICK u \in urls : r = Row(u)
      BY <2>2, <3>2
    <3>4. u \in Urls /\ nextCheck[u] <= 0 /\ r.url = u
      BY <3>3 DEF PopDueURLs, Due, Row
    <3> QED
      BY <1>1, <3>4 DEF SchedInv, SchedTypes, SchedKept
  <2> QED
    BY <2>1, <2>2 DEF LeftAlone
<1> QED
  BY <1>1, SchedInvariant, PTL DEF ScheduleSpec, RequestsHonoured

LEMMA SchedTypeOK == SchedInv => ScheduleTypeOK
BY DEF SchedInv, SchedTypes, ScheduleTypeOK, Within

-----------------------------------------------------------------------------
(* The suite: each of its behaviours is one of every component.            *)

LEMMA SuiteStep ==
  ASSUME [SuiteNext]_SuiteVars
  PROVE  [ScheduleNext]_scheduleVars /\ [DiscoveryNext]_discoveryVars /\ [RobotsNext]_robotsVars
<1>1. CASE UNCHANGED SuiteVars
  BY <1>1 DEF SuiteVars
<1>2. CASE SuiteNext
  BY <1>2 DEF SuiteNext
<1> QED
  BY <1>1, <1>2

\* Whatever part of the crawl loop a behaviour of the suite is about, its variables
\* keep their types: no more crawls than places, intervals within their bounds, an
\* answer no longer valid than its lifetime.
THEOREM SuiteTypeCorrect == SuiteSpec => []SuiteTypeOK
<1> DEFINE Parts == SchedInv /\ DiscInv /\ RobInv
<1>1. SuiteInit => Parts
  BY SchedInitially, DiscInitially, RobInitially DEF SuiteInit
<1>2. Parts /\ [SuiteNext]_SuiteVars => Parts'
  BY SuiteStep, SchedInductive, DiscInductive, RobInductive
<1>3. Parts => SuiteTypeOK
  BY SchedTypeOK, DiscTypeOK, RobTypeOK DEF SuiteTypeOK
<1> QED
  BY <1>1, <1>2, <1>3, PTL DEF SuiteSpec
=============================================================================
