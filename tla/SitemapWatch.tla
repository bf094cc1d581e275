---------------------------- MODULE SitemapWatch ----------------------------
(***************************************************************************)
(* The sitemap watch of one site: CollectAndSeed walks the sitemap         *)
(* documents, RefreshSitemap reconciles urls.in_sitemap with what it read, *)
(* keeps the set as the baseline of the next pass and alerts on what       *)
(* changed (internal/discovery/discovery.go,                               *)
(* internal/scheduler/sidetimers_sitemap.go, internal/store/               *)
(* sitemap_coverage.go).  The documents change, break and come back while  *)
(* a pass walks them; pages are crawled and found by links meanwhile; the  *)
(* daemon may stop between any two steps of a pass.                        *)
(*                                                                         *)
(* A set of URLs stands for its hash.  The order of the entries of a       *)
(* document is not modelled: which of them fit in the page budget is left  *)
(* open.  "since", "edits" and "trimmed" are history: how many times the   *)
(* owner had published when the pass began, and whether the budget left    *)
(* something out.  Admission is one step here (Discovery has its steps).   *)
(* Bounds: MaxEdits, MaxBreaks, MaxOutages and MaxFaults count changes of  *)
(* the documents, their failures, the times robots.txt or the setting      *)
(* closes the sitemap, and errors of the store.                            *)
(***************************************************************************)
EXTENDS Integers, Sequences, FiniteSets

CONSTANTS
  Docs,          \* the sitemap documents
  Seeds,         \* the documents robots.txt declares, a sequence
  DefaultSeed,   \* <base>/sitemap.xml
  ChildrenOf,    \* the documents an index lists, a sequence; <<>> for a urlset
  Locs,          \* the <loc> values of urlsets
  Canonical,     \* the URL the inventory keeps for a loc
  Contents,      \* the sets of locs a urlset may declare, by document
  SitemapLimit,  \* maxSitemapFetches
  DeepestIndex,  \* maxSitemapDepth
  ListCap,       \* sitemapURLCap
  PageBudget,    \* caps.MaxPages, 0 for none
  Closings,      \* what can keep the sitemap from being read, see gate
  MaxEdits,
  MaxBreaks,
  MaxOutages,
  MaxFaults,
  NoBaseline

ASSUME SitemapAssumption ==
  /\ DefaultSeed \in Docs
  /\ Seeds \in Seq(Docs)
  /\ ChildrenOf \in [Docs -> Seq(Docs)]
  /\ IsFiniteSet(Locs)
  /\ Canonical \in [Locs -> Locs]
  /\ Contents \in [Docs -> SUBSET SUBSET Locs]
  /\ \A d \in Docs : Contents[d] # {}
  /\ Closings \subseteq {"off", "robots unavailable"}
  /\ {SitemapLimit, DeepestIndex, ListCap, MaxEdits, MaxBreaks, MaxOutages, MaxFaults}
       \subseteq Nat
  /\ PageBudget \in Nat

VARIABLES
  inSitemap,  \* urls.in_sitemap of the rows of the inventory, "absent" without a row
  crawled,    \* the rows with a last_checked
  content,    \* what each urlset declares
  health,     \* whether a document is served whole, cut off, or not at all
  gate,       \* whether robots.txt and the settings allow the sitemap
  pass,       \* the pass under way
  baseline,   \* the newest sitemap snapshot
  edits, breaks, outages, faultsSeen

sitemapVars == <<inSitemap, crawled, content, health, gate, pass, baseline,
                 edits, breaks, outages, faultsSeen>>

-----------------------------------------------------------------------------
Rows == {u \in Locs : inSitemap[u] # "absent"}
Flagged == {u \in Locs : inSitemap[u] = "yes"}

NoCoverage == [uncrawled |-> 0, unadmitted |-> 0, orphaned |-> 0]

NotCollecting ==
  [pc |-> "idle", seed |-> DefaultSeed, queue |-> <<>>, visited |-> {}, fetches |-> 0,
   pages |-> {}, taken |-> 0, trimmed |-> FALSE, incomplete |-> FALSE, status |-> 0,
   coverage |-> NoCoverage, since |-> 0, alerts |-> {}]

SitemapInit ==
  /\ inSitemap = [u \in Locs |-> "absent"]
  /\ crawled = {}
  /\ content \in {c \in [Docs -> UNION {Contents[d] : d \in Docs}] :
                    \A d \in Docs : c[d] \in Contents[d]}
  /\ health = [d \in Docs |-> "ok"]
  /\ gate = "open"
  /\ pass = NotCollecting
  /\ baseline = NoBaseline
  /\ edits = 0
  /\ breaks = 0
  /\ outages = 0
  /\ faultsSeen = 0

\* As many entries, or rows, as the site may have.
Spent(n) == PageBudget > 0 /\ n >= PageBudget

-----------------------------------------------------------------------------
(* The world around a pass.                                                *)

world == <<content, health, gate, edits, breaks, outages>>
store == <<inSitemap, crawled, baseline>>

\* The owner publishes another list of pages.
Publish(d) ==
  /\ edits < MaxEdits
  /\ \E c \in Contents[d] \ {content[d]} : content' = [content EXCEPT ![d] = c]
  /\ edits' = edits + 1
  /\ UNCHANGED <<store, health, gate, pass, breaks, outages, faultsSeen>>

\* A document answers with an error, is cut at the body limit, or recovers.
HealthChanges(d) ==
  /\ \E h \in {"ok", "missing", "cut"} \ {health[d]} :
       /\ health' = [health EXCEPT ![d] = h]
       /\ breaks' = IF h = "ok" THEN breaks ELSE breaks + 1
       /\ breaks' <= MaxBreaks
  /\ UNCHANGED <<store, content, gate, pass, edits, outages, faultsSeen>>

\* robots.txt answers with a server error, which disallows everything and names
\* no sitemap, or the owner turns sitemap discovery off.
GateCloses ==
  /\ outages < MaxOutages
  /\ gate = "open"
  /\ gate' \in Closings
  /\ outages' = outages + 1
  /\ UNCHANGED <<store, content, health, pass, edits, breaks, faultsSeen>>

GateOpens ==
  /\ gate # "open"
  /\ gate' = "open"
  /\ UNCHANGED <<store, content, health, pass, edits, breaks, outages, faultsSeen>>

\* A crawl of a page ends; a link leads to a page that no sitemap has named yet.
CrawlPage(u) ==
  /\ u \in Rows \ crawled
  /\ crawled' = crawled \cup {u}
  /\ UNCHANGED <<inSitemap, baseline, world, pass, faultsSeen>>

FindLink(u) ==
  /\ ~Spent(Cardinality(Rows))
  /\ inSitemap[Canonical[u]] = "absent"
  /\ inSitemap' = [inSitemap EXCEPT ![Canonical[u]] = "no"]
  /\ UNCHANGED <<crawled, baseline, world, pass, faultsSeen>>

-----------------------------------------------------------------------------
(* CollectAndSeed.                                                         *)

QueueOf(docs, level) == [i \in 1..Len(docs) |-> [doc |-> docs[i], level |-> level]]

\* What robots.txt declares, or the sitemap at its usual place.
Declared == IF Seeds # <<>> THEN Seeds ELSE <<DefaultSeed>>
SitemapSeeds == IF gate = "open" THEN Declared ELSE <<DefaultSeed>>

\* With sitemap discovery off the collection is empty, and counts as complete.
Collect ==
  /\ pass.pc = "idle"
  /\ pass' = [NotCollecting EXCEPT
                !.pc = IF gate = "off" THEN "reconcile" ELSE "walk",
                !.seed = Head(SitemapSeeds),
                !.queue = IF gate = "off" THEN <<>> ELSE QueueOf(SitemapSeeds, 0),
                !.since = edits]
  /\ UNCHANGED <<store, world, faultsSeen>>

WalkOn ==
  /\ pass.pc = "walk"
  /\ pass.queue # <<>>
  /\ pass.fetches < SitemapLimit
  /\ ~Spent(pass.taken)

PassedOver(item) ==
  \/ item.level > DeepestIndex
  \/ item.doc \in pass.visited
  \/ gate = "robots unavailable"

\* A document that is too deep, was read before or that robots.txt disallows is
\* left out; the pass does not become incomplete by that.
SkipDoc ==
  /\ WalkOn
  /\ PassedOver(Head(pass.queue))
  /\ pass' = [pass EXCEPT !.queue = Tail(@), !.visited = @ \cup {Head(pass.queue).doc}]
  /\ UNCHANGED <<store, world, faultsSeen>>

Usable_CutToo(d) == health[d] # "missing"

\* Fetched without an error, not truncated, and parsed.
Usable(d) == health[d] = "ok"

Entries(d) == IF health[d] = "ok" THEN content[d] ELSE {}

\* ApplyBudget: the first children of an index, as many as there may be entries,
\* and the entries of a urlset that there is still room for.
Children(d) == IF PageBudget > 0 /\ Len(ChildrenOf[d]) > PageBudget
               THEN SubSeq(ChildrenOf[d], 1, PageBudget) ELSE ChildrenOf[d]
Fitting(us) == IF PageBudget = 0 \/ pass.taken + Cardinality(us) <= PageBudget THEN {us}
               ELSE {k \in SUBSET us : pass.taken + Cardinality(k) = PageBudget}

\* What a fetch leaves of the pass: a document that is not usable leaves it
\* incomplete, one that is over the budget does not; an index adds its children to
\* the queue.
Fetched(item, kept) ==
  [pass EXCEPT
     !.queue = Tail(@) \o IF Usable(item.doc) THEN QueueOf(Children(item.doc), item.level + 1)
                          ELSE <<>>,
     !.visited = @ \cup {item.doc},
     !.fetches = @ + 1,
     !.status = IF item.doc # pass.seed THEN @ ELSE IF health[item.doc] = "missing" THEN 404 ELSE 200,
     !.incomplete = @ \/ ~Usable(item.doc),
     !.pages = @ \cup kept,
     !.taken = @ + Cardinality(kept),
     !.trimmed = @ \/ kept # Entries(item.doc) \/ Children(item.doc) # ChildrenOf[item.doc]]

\* The next document is fetched.
FetchDoc ==
  /\ WalkOn
  /\ ~PassedOver(Head(pass.queue))
  /\ \E kept \in Fitting(Entries(Head(pass.queue).doc)) : pass' = Fetched(Head(pass.queue), kept)
  /\ UNCHANGED <<store, world, faultsSeen>>

\* The walk ends with an empty queue, or with work left: at the fetch limit, which
\* leaves the pass incomplete, or with the budget spent, which does not.
EndWalk ==
  /\ pass.pc = "walk"
  /\ ~WalkOn
  /\ pass' = [pass EXCEPT
       !.pc = "admit",
       !.incomplete = @ \/ (pass.queue # <<>> /\ pass.fetches >= SitemapLimit),
       !.trimmed = @ \/ pass.queue # <<>>]
  /\ UNCHANGED <<store, world, faultsSeen>>

\* The pages that the inventory does not have get a row, flagged, until the site has
\* as many as it may.
AdmitPages ==
  /\ pass.pc = "admit"
  /\ LET news == {Canonical[u] : u \in pass.pages} \ Rows
     IN \E admitted \in SUBSET news :
          /\ admitted # news => Spent(Cardinality(Rows \cup admitted))
          /\ \A u \in admitted : ~Spent(Cardinality((Rows \cup admitted) \ {u}))
          /\ inSitemap' = [u \in Locs |-> IF u \in admitted THEN "yes" ELSE inSitemap[u]]
  /\ pass' = [pass EXCEPT !.pc = "reconcile"]
  /\ UNCHANGED <<crawled, baseline, world, faultsSeen>>

-----------------------------------------------------------------------------
(* RefreshSitemap.                                                         *)

\* The rows named are flagged and the others cleared, in one transaction; an
\* incomplete pass clears nothing.  The rows are compared with the locs as read.
ReconcileSitemapMembership ==
  /\ pass.pc = "reconcile"
  /\ inSitemap' = [u \in Locs |-> IF u \in Rows /\ u \in pass.pages THEN "yes"
                                  ELSE IF u \in Flagged /\ ~pass.incomplete THEN "no"
                                  ELSE inSitemap[u]]
  /\ pass' = [pass EXCEPT !.pc = "count"]
  /\ UNCHANGED <<crawled, baseline, world, faultsSeen>>

LiveCoverage ==
  LET short == Cardinality(pass.pages) - Cardinality(Flagged)
  IN [uncrawled |-> Cardinality(Flagged \ crawled),
      unadmitted |-> IF short > 0 THEN short ELSE 0,
      orphaned |-> Cardinality((Rows \ Flagged) \cap crawled)]

SitemapLiveCounts ==
  /\ pass.pc = "count"
  /\ pass' = [pass EXCEPT !.pc = "save", !.coverage = LiveCoverage]
  /\ UNCHANGED <<store, world, faultsSeen>>

\* One of the buckets of URLs that the sitemap and the crawl disagree on grew.
CoverageDriftGrew(old, new) ==
  \/ new.uncrawled + new.unadmitted > old.uncrawled + old.unadmitted
  \/ new.orphaned > old.orphaned

BaselineHash_Partial == pass.pages

\* An incomplete pass carries the hash of the baseline forward.
BaselineHash == IF pass.incomplete THEN baseline.hash ELSE pass.pages

Capped == Cardinality(pass.pages) > ListCap

Snapshot ==
  [hash |-> BaselineHash, status |-> pass.status, coverage |-> pass.coverage,
   urls |-> IF Capped THEN {} ELSE pass.pages, capped |-> Capped,
   incomplete |-> pass.incomplete,
   since |-> IF pass.incomplete THEN baseline.since ELSE pass.since,
   trimmed |-> IF pass.incomplete THEN baseline.trimmed ELSE pass.trimmed]

\* What the alert says was dropped: nothing when a list was cut.
Dropped == IF baseline.capped \/ Capped THEN {} ELSE baseline.urls \ pass.pages

\* CompareFile and the drift gate; an incomplete pass can only tell that the
\* status changed.
Alerts ==
  LET differs ==
        [sitemap_xml |-> ~pass.incomplete /\ baseline.hash # BaselineHash,
         sitemap_xml_status |-> baseline.status # pass.status,
         sitemap_coverage_drift |->
           ~pass.incomplete /\ CoverageDriftGrew(baseline.coverage, pass.coverage)]
  IN {[field |-> f, dropped |-> IF f = "sitemap_xml" THEN Dropped ELSE {}] :
        f \in {g \in DOMAIN differs : differs[g]}}

Unchanged ==
  /\ baseline # NoBaseline
  /\ baseline.hash = BaselineHash
  /\ baseline.status = pass.status
  /\ baseline.coverage = pass.coverage

\* The first baseline must be a complete pass.
NothingToSave == IF baseline = NoBaseline THEN pass.incomplete ELSE Unchanged

SkipSave ==
  /\ pass.pc = "save"
  /\ NothingToSave
  /\ pass' = NotCollecting
  /\ UNCHANGED <<store, world, faultsSeen>>

\* SaveFileSnapshot; the first snapshot leads to no alert.
SaveSnapshot ==
  /\ pass.pc = "save"
  /\ ~NothingToSave
  /\ baseline' = Snapshot
  /\ pass' = IF baseline = NoBaseline THEN NotCollecting
             ELSE [pass EXCEPT !.pc = "alert", !.alerts = Alerts]
  /\ UNCHANGED <<inSitemap, crawled, world, faultsSeen>>

\* The incident pipeline takes the alert.
Ingest(a) ==
  /\ pass.pc = "alert"
  /\ a \in pass.alerts
  /\ pass' = [pass EXCEPT !.alerts = @ \ {a}]
  /\ UNCHANGED <<store, world, faultsSeen>>

EndPass ==
  /\ pass.pc = "alert"
  /\ pass.alerts = {}
  /\ pass' = NotCollecting
  /\ UNCHANGED <<store, world, faultsSeen>>

Fault == faultsSeen < MaxFaults /\ faultsSeen' = faultsSeen + 1

\* An alert that the pipeline refuses does not hold up the others.
IngestFails(a) ==
  /\ pass.pc = "alert"
  /\ a \in pass.alerts
  /\ Fault
  /\ pass' = [pass EXCEPT !.alerts = @ \ {a}]
  /\ UNCHANGED <<store, world>>

\* A store call fails, or the daemon stops: the pass ends where it is.
PassBreaks ==
  /\ pass.pc # "idle"
  /\ Fault
  /\ pass' = NotCollecting
  /\ UNCHANGED <<store, world>>

-----------------------------------------------------------------------------
RefreshSitemap ==
  \/ Collect
  \/ SkipDoc
  \/ FetchDoc
  \/ EndWalk
  \/ AdmitPages
  \/ ReconcileSitemapMembership
  \/ SitemapLiveCounts
  \/ SkipSave
  \/ SaveSnapshot
  \/ \E a \in pass.alerts : Ingest(a) \/ IngestFails(a)
  \/ EndPass
  \/ PassBreaks

SitemapNext ==
  \/ RefreshSitemap
  \/ \E d \in Docs : Publish(d) \/ HealthChanges(d)
  \/ GateCloses
  \/ GateOpens
  \/ \E u \in Locs : CrawlPage(u) \/ FindLink(u)

SitemapSpec == SitemapInit /\ [][SitemapNext]_sitemapVars

-----------------------------------------------------------------------------
\* The types of the variables.
SitemapTypeOK ==
  /\ inSitemap \in [Locs -> {"absent", "no", "yes"}]
  /\ crawled \subseteq Rows
  /\ \A d \in Docs : content[d] \in Contents[d] /\ health[d] \in {"ok", "missing", "cut"}
  /\ gate \in {"open"} \cup Closings
  /\ pass.pc \in {"idle", "walk", "admit", "reconcile", "count", "save", "alert"}
  /\ pass.pages \subseteq Locs
  /\ pass.fetches \in 0..SitemapLimit
  /\ baseline = NoBaseline \/ baseline.hash \subseteq Locs
  /\ pass.alerts \subseteq
       [field : {"sitemap_xml", "sitemap_xml_status", "sitemap_coverage_drift"},
        dropped : SUBSET Locs]

\* The documents that a walk finds, at which levels: those declared, and what the
\* indexes list down to DeepestIndex.
Places == Docs \X (0..DeepestIndex)
ClosedUnderLists(found) ==
  /\ \A i \in DOMAIN Declared : <<Declared[i], 0>> \in found
  /\ \A p \in found : p[2] < DeepestIndex =>
       \A i \in DOMAIN ChildrenOf[p[1]] : <<ChildrenOf[p[1]][i], p[2] + 1>> \in found
InReach == {p \in Places : \A found \in SUBSET Places : ClosedUnderLists(found) => p \in found}
Walked == {p[1] : p \in InReach}

\* The locs that one of these documents has in every version of it.
Always == {u \in Locs : \E d \in Walked : \A c \in Contents[d] : u \in c}

\* While robots.txt and the settings let the sitemap be read, documents that
\* fail or are cut off never take a page out of the sitemap that its owner has
\* listed all along: an incomplete pass only adds.  The code does not count a walk
\* that the page budget cuts as incomplete, and such a pass may take it out; the
\* passes after it, and those that fit, may not.
KeptWhileListed ==
  [][\A u \in Always :
       outages' = 0 /\ ~pass.trimmed /\ inSitemap[u] = "yes" => inSitemap'[u] = "yes"]_sitemapVars

\* The same without those conditions, as the comment of RefreshSitemap has it: a
\* partial read can never masquerade as a mass URL drop.
PartialReadsOnlyAdd ==
  [][\A u \in Always : inSitemap[u] = "yes" => inSitemap'[u] = "yes"]_sitemapVars

\* Whatever documents failed in the passes between, an alert that the set of
\* URLs changed follows an edit of the owner since the last complete pass began,
\* and it calls no URL dropped that has been listed all along: where neither that
\* pass nor this one was cut by the page budget, which makes a set that was read
\* in part count as the whole.
NoPhantomChange ==
  [][\A a \in pass'.alerts \ pass.alerts :
       a.field = "sitemap_xml" /\ outages = 0 /\ ~pass.trimmed /\ ~baseline.trimmed =>
         edits > baseline.since /\ a.dropped \cap Always = {}]_sitemapVars

=============================================================================
