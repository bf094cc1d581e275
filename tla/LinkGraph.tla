----------------------------- MODULE LinkGraph -----------------------------
(***************************************************************************)
(* The internal links of one site: SyncPage replaces the out-edges of a    *)
(* page as it is crawled and looks at the targets that lost or gained a    *)
(* link; Sweep walks the graph from the homepage, compares click depths    *)
(* with those of the last sweep and reconciles the orphans                 *)
(* (internal/linkgraph/grapher.go, internal/store/linkgraph.go).  The      *)
(* edges of a page change in one transaction; the reads and the issues     *)
(* that follow are transactions of their own, so crawls of other pages and *)
(* the sweep come between them.                                            *)
(*                                                                         *)
(* The order of the targets is left open.  The alerts that go with the     *)
(* issues are the incident pipeline's.  Bounds: MaxSyncs crawls, MaxSweeps *)
(* sweeps, and MaxMishaps store errors and restarts.                       *)
(***************************************************************************)
EXTENDS Integers, FiniteSets

CONSTANTS
  Nodes,            \* the URLs that links name
  Root,             \* the homepage, as the inventory has it
  BaseURL,          \* and as it was configured
  Unadmitted,       \* those that may come into the inventory later
  OutLinks,         \* the sets of links a page may carry, by page
  Syncers,          \* the crawls that may be in SyncPage
  InlinkLossFloor,
  DepthRegressionThreshold,
  MaxBFSDepth,
  NULL,             \* no graph_depth yet
  MaxSyncs,
  MaxSweeps,
  MaxMishaps

ASSUME LinkGraphAssumption ==
  /\ IsFiniteSet(Nodes)
  /\ Root \in Nodes \ Unadmitted
  /\ Unadmitted \subseteq Nodes
  /\ OutLinks \in [Nodes -> SUBSET SUBSET Nodes]
  /\ {InlinkLossFloor, DepthRegressionThreshold, MaxBFSDepth, MaxSyncs, MaxSweeps, MaxMishaps}
       \subseteq Nat
  /\ NULL \notin Nat

VARIABLES
  known,       \* the URLs of the inventory
  checked,     \* those with a last_checked
  edges,       \* link_edges
  graphDepth,  \* urls.graph_depth
  graphIssues, \* the open issues of the three graph rules
  peak,        \* inlinkBaseline, lost with the process
  sync,        \* what each SyncPage has still to look at
  sweep,       \* where the sweep is
  syncs, sweeps, mishaps,
  stirred      \* history: a SyncPage step or a mishap since the sweep began

graphVars == <<known, checked, edges, graphDepth, graphIssues, peak, sync, sweep,
               syncs, sweeps, mishaps, stirred>>

-----------------------------------------------------------------------------
Inlinks(t) == {p \in Nodes : <<p, t>> \in edges}
Warm == known \subseteq checked
Orphans == {p \in known \ {Root} : Inlinks(p) = {}}

Issue(rule, p) == [rule |-> rule, page |-> p]
OpenPages(rule) == {p \in Nodes : Issue(rule, p) \in graphIssues}

NotSyncing == [pc |-> "idle", page |-> Root, removed |-> {}, added |-> {}, target |-> Root, after |-> 0]
NotSweeping == [pc |-> "idle", todo |-> {}, orphans |-> {}, warm |-> FALSE]

LinkGraphInit ==
  /\ known = Nodes \ Unadmitted
  /\ checked = {}
  /\ edges = {}
  /\ graphDepth = [p \in Nodes |-> NULL]
  /\ graphIssues = {}
  /\ peak = [p \in Nodes |-> 0]
  /\ sync = [w \in Syncers |-> NotSyncing]
  /\ sweep = NotSweeping
  /\ syncs = 0
  /\ sweeps = 0
  /\ mishaps = 0
  /\ stirred = FALSE

-----------------------------------------------------------------------------
(* SyncPage.                                                               *)

counters == <<syncs, sweeps, mishaps>>
Mishap == mishaps < MaxMishaps /\ mishaps' = mishaps + 1

\* Discovery puts a URL into the inventory.
AdmitNode(p) ==
  /\ p \notin known
  /\ known' = known \cup {p}
  /\ stirred' = TRUE
  /\ UNCHANGED <<checked, edges, graphDepth, graphIssues, peak, sync, sweep, counters>>

\* A crawl of p replaces the out-edges of p.
SyncOutEdges(w, p) ==
  /\ sync[w].pc = "idle"
  /\ syncs < MaxSyncs
  /\ p \in known
  /\ \E links \in OutLinks[p] :
       /\ edges' = {e \in edges : e[1] # p} \cup ({p} \X links)
       /\ sync' = [sync EXCEPT ![w].pc = "next",
                               ![w].page = p,
                               ![w].removed = {e[2] : e \in {f \in edges : f[1] = p}} \ links,
                               ![w].added = {t \in links : <<p, t>> \notin edges}]
  /\ syncs' = syncs + 1
  /\ stirred' = TRUE
  /\ UNCHANGED <<known, checked, graphDepth, graphIssues, peak, sweep, sweeps, mishaps>>

SyncStep(w, rec) ==
  /\ sync' = [sync EXCEPT ![w] = rec]
  /\ stirred' = TRUE

\* WhatLinksTo: the inlinks of the next removed target are counted, and of an
\* added one once no removed target is left.  A removed target outside the
\* inventory is passed over.
CountInlinks(w, t) ==
  /\ sync[w].pc = "next"
  /\ t \in IF sync[w].removed # {} THEN sync[w].removed ELSE sync[w].added
  /\ LET passed == sync[w].removed # {} /\ t \notin known
         branch == IF sync[w].removed # {} THEN "lost" ELSE "gained"
     IN SyncStep(w, [sync[w] EXCEPT !.removed = @ \ {t},
                                    !.added = IF sync[w].removed = {} THEN @ \ {t} ELSE @,
                                    !.pc = IF passed THEN "next" ELSE branch,
                                    !.target = t,
                                    !.after = Cardinality(Inlinks(t))])
  /\ UNCHANGED <<known, checked, edges, graphDepth, graphIssues, peak, sweep, counters>>

\* The last link to a page is gone, and every page has been checked once.
OpenOrphan(w) == sync[w].after = 0 /\ sync[w].target # BaseURL /\ Warm

EvaluateOrphan(w) ==
  /\ sync[w].pc = "lost"
  /\ graphIssues' = IF OpenOrphan(w)
                    THEN graphIssues \cup {Issue("page_orphaned", sync[w].target)}
                    ELSE graphIssues
  /\ SyncStep(w, [sync[w] EXCEPT !.pc = "loss"])
  /\ UNCHANGED <<known, checked, edges, graphDepth, peak, sweep, counters>>

\* observeInlinks: the highest count seen since the process started.
ObserveInlinks(w) ==
  peak' = [peak EXCEPT ![sync[w].target] = IF sync[w].after > @ THEN sync[w].after ELSE @]

\* Half of the links a page once had are gone.
EvaluateLoss(w) ==
  /\ sync[w].pc = "loss"
  /\ ObserveInlinks(w)
  /\ LET t == sync[w].target
     IN graphIssues' = IF peak'[t] >= InlinkLossFloor /\ 2 * sync[w].after <= peak'[t]
                       THEN graphIssues \cup {Issue("inlink_loss", t)}
                       ELSE graphIssues
  /\ SyncStep(w, [sync[w] EXCEPT !.pc = "next"])
  /\ UNCHANGED <<known, checked, edges, graphDepth, sweep, counters>>

\* A page that is linked again is no orphan.
EvaluateAdded(w) ==
  /\ sync[w].pc = "gained"
  /\ ObserveInlinks(w)
  /\ graphIssues' = graphIssues \ {Issue("page_orphaned", p) : p \in known \cap {sync[w].target}}
  /\ SyncStep(w, [sync[w] EXCEPT !.pc = "next"])
  /\ UNCHANGED <<known, checked, edges, graphDepth, sweep, counters>>

\* The crawl goes on and writes its schedule, and last_checked with it.
SyncEnds(w) ==
  /\ sync[w].pc = "next"
  /\ sync[w].removed \cup sync[w].added = {}
  /\ checked' = checked \cup {sync[w].page}
  /\ SyncStep(w, NotSyncing)
  /\ UNCHANGED <<known, edges, graphDepth, graphIssues, peak, sweep, counters>>

\* A crawl that robots.txt or the origin turns away writes last_checked too.
CrawlFails(p) ==
  /\ p \in known \ checked
  /\ Mishap
  /\ checked' = checked \cup {p}
  /\ stirred' = TRUE
  /\ UNCHANGED <<known, edges, graphDepth, graphIssues, peak, sync, sweep, syncs, sweeps>>

\* A target that a store error hits is given up; the others follow.
SyncError(w) ==
  /\ sync[w].pc \in {"lost", "loss", "gained"}
  /\ Mishap
  /\ SyncStep(w, [sync[w] EXCEPT !.pc = "next"])
  /\ UNCHANGED <<known, checked, edges, graphDepth, graphIssues, peak, sweep, syncs, sweeps>>

-----------------------------------------------------------------------------
(* Sweep.                                                                  *)

\* The pages within d clicks of the homepage, and a page's depth.
Within[d \in 0..MaxBFSDepth] ==
  IF d = 0 THEN {Root}
  ELSE Within[d - 1] \cup {t \in Nodes : \E p \in Within[d - 1] \cap known : <<p, t>> \in edges}

Reached == known \cap Within[MaxBFSDepth]
ClickDepth(p) == CHOOSE d \in 0..MaxBFSDepth :
                   p \in Within[d] /\ (d > 0 => p \notin Within[d - 1])

SweepStep(rec) ==
  /\ sweep' = rec
  /\ UNCHANGED <<known, checked, edges, peak, sync, counters, stirred>>

\* The depths are read, and written; pages out of reach keep theirs.
SweepGraphDepths ==
  /\ sweep.pc = "idle"
  /\ sweeps < MaxSweeps
  /\ sweeps' = sweeps + 1
  /\ graphDepth' = [p \in Nodes |-> IF p \in Reached THEN ClickDepth(p) ELSE graphDepth[p]]
  /\ sweep' = [NotSweeping EXCEPT !.pc = "depth",
                 !.todo = {[page |-> p, old |-> graphDepth[p], new |-> ClickDepth(p)] :
                             p \in {q \in Reached : graphDepth[q] # NULL}}]
  /\ stirred' = \E w \in Syncers : sync[w].pc # "idle"
  /\ UNCHANGED <<known, checked, edges, graphIssues, peak, sync, syncs, mishaps>>

Buried(c) == c.new - c.old >= DepthRegressionThreshold

EvaluateDepthChange(c) ==
  /\ sweep.pc = "depth"
  /\ c \in sweep.todo
  /\ graphIssues' = IF Buried(c)
                    THEN graphIssues \cup {Issue("click_depth_regression", c.page)}
                    ELSE graphIssues \ {Issue("click_depth_regression", c.page)}
  /\ SweepStep([sweep EXCEPT !.todo = @ \ {c}])
  /\ UNCHANGED graphDepth

\* reconcileOrphans reads the orphans, and then whether the graph is warm.
ListOrphans ==
  /\ sweep.pc = "depth"
  /\ sweep.todo = {}
  /\ SweepStep([sweep EXCEPT !.pc = "warm", !.orphans = Orphans])
  /\ UNCHANGED <<graphDepth, graphIssues>>

GraphWarm ==
  /\ sweep.pc = "warm"
  /\ SweepStep([sweep EXCEPT !.pc = "open", !.warm = Warm,
                             !.todo = IF Warm THEN sweep.orphans ELSE {}])
  /\ UNCHANGED <<graphDepth, graphIssues>>

ReopenOrphan(p) ==
  /\ sweep.pc = "open"
  /\ p \in sweep.todo
  /\ graphIssues' = graphIssues \cup {Issue("page_orphaned", p)}
  /\ SweepStep([sweep EXCEPT !.todo = @ \ {p}])
  /\ UNCHANGED graphDepth

ListOpenOrphans_WhenWarm ==
  /\ sweep.pc = "open"
  /\ sweep.todo = {}
  /\ SweepStep([sweep EXCEPT !.pc = "close",
                  !.todo = IF sweep.warm THEN OpenPages("page_orphaned") \ sweep.orphans ELSE {}])
  /\ UNCHANGED <<graphDepth, graphIssues>>

\* Cold or warm, an issue whose page was no orphan is to be closed.
ListOpenOrphans ==
  /\ sweep.pc = "open"
  /\ sweep.todo = {}
  /\ SweepStep([sweep EXCEPT !.pc = "close", !.todo = OpenPages("page_orphaned") \ sweep.orphans])
  /\ UNCHANGED <<graphDepth, graphIssues>>

CloseOrphan(p) ==
  /\ sweep.pc = "close"
  /\ p \in sweep.todo
  /\ graphIssues' = graphIssues \ {Issue("page_orphaned", p)}
  /\ SweepStep([sweep EXCEPT !.todo = @ \ {p}])
  /\ UNCHANGED graphDepth

SweepEnds ==
  /\ sweep.pc = "close"
  /\ sweep.todo = {}
  /\ SweepStep(NotSweeping)
  /\ UNCHANGED <<graphDepth, graphIssues>>

\* A store error in the sweep: a page is passed over, or the sweep ends.
SweepFails ==
  /\ sweep.pc # "idle"
  /\ Mishap
  /\ \/ sweep' = NotSweeping
     \/ \E x \in sweep.todo : sweep' = [sweep EXCEPT !.todo = @ \ {x}]
  /\ stirred' = TRUE
  /\ UNCHANGED <<known, checked, edges, graphDepth, graphIssues, peak, sync, syncs, sweeps>>

\* The daemon is restarted: what the process knew is gone.
Restart ==
  /\ Mishap
  /\ sync' = [w \in Syncers |-> NotSyncing]
  /\ sweep' = NotSweeping
  /\ peak' = [p \in Nodes |-> 0]
  /\ stirred' = TRUE
  /\ UNCHANGED <<known, checked, edges, graphDepth, graphIssues, syncs, sweeps>>

-----------------------------------------------------------------------------
SyncPage(w) ==
  \/ \E p \in Nodes : SyncOutEdges(w, p) \/ CountInlinks(w, p)
  \/ EvaluateOrphan(w)
  \/ EvaluateLoss(w)
  \/ EvaluateAdded(w)
  \/ SyncEnds(w)
  \/ SyncError(w)

Sweep ==
  \/ SweepGraphDepths
  \/ \E c \in sweep.todo : EvaluateDepthChange(c)
  \/ ListOrphans
  \/ GraphWarm
  \/ \E p \in Nodes : ReopenOrphan(p) \/ CloseOrphan(p)
  \/ ListOpenOrphans
  \/ SweepEnds
  \/ SweepFails

LinkGraphNext ==
  \/ \E w \in Syncers : SyncPage(w)
  \/ Sweep
  \/ \E p \in Nodes : AdmitNode(p) \/ CrawlFails(p)
  \/ Restart

LinkGraphSpec == LinkGraphInit /\ [][LinkGraphNext]_graphVars

-----------------------------------------------------------------------------
\* The types of the variables.
LinkGraphTypeOK ==
  /\ checked \subseteq known /\ known \subseteq Nodes
  /\ edges \subseteq known \X Nodes
  /\ graphDepth \in [Nodes -> 0..MaxBFSDepth \cup {NULL}]
  /\ graphIssues \subseteq
       [rule : {"page_orphaned", "inlink_loss", "click_depth_regression"}, page : known]
  /\ peak \in [Nodes -> 0..Cardinality(Nodes)]
  /\ stirred \in BOOLEAN

\* Whatever crawls, store errors and restarts left behind, a sweep that nothing
\* overlaps ends with page_orphaned open on no page that has a link, and, when
\* every page has been checked, on each page that has none.
SweepSettlesOrphans ==
  sweep.pc = "close" /\ sweep.todo = {} /\ ~stirred =>
    /\ OpenPages("page_orphaned") \subseteq Orphans
    /\ Warm => OpenPages("page_orphaned") = Orphans
=============================================================================
