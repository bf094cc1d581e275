-------------------------- MODULE SiteWatchProofs --------------------------
(***************************************************************************)
(* Proofs about what the daemon notices about a site and keeps of it, for  *)
(* any site: the sweep of the link graph settles the issues of orphaned    *)
(* pages, a reconcile that runs alone settles the segments, the retention  *)
(* sweep loses nothing that a crawl still needs, documents of the sitemap  *)
(* that fail neither take a listed page out nor raise an alert, and a      *)
(* health score is in range whatever changed while it was computed.        *)
(***************************************************************************)
EXTENDS MCSiteWatch, IssueEngineProofs, FiniteSetTheorems, SequenceTheorems, NaturalsInduction,
        WellFoundedInduction, TLAPS

-----------------------------------------------------------------------------
(* The link graph: a sweep and the crawls that sync links under it.        *)

GraphRules == {"page_orphaned", "inlink_loss", "click_depth_regression"}

SyncState ==
  [pc : {"idle", "next", "lost", "loss", "gained"}, page : Nodes, removed : SUBSET Nodes,
   added : SUBSET Nodes, target : Nodes, after : 0..Cardinality(Nodes)]

\* What SyncPage is about to write it writes for URLs of the inventory.
SyncOK(w) ==
  /\ sync[w].page \in known
  /\ sync[w].pc \in {"lost", "loss"} => sync[w].target \in known

\* What the sweep has still to look at, by its phase.
TodoOK ==
  /\ sweep.orphans \subseteq known
  /\ sweep.pc = "depth" => \A c \in sweep.todo : c.page \in known
  /\ sweep.pc = "open" => sweep.todo \subseteq sweep.orphans
  /\ sweep.pc = "close" => sweep.todo \subseteq Nodes

SweepState == [pc : {"idle", "depth", "warm", "open", "close"}, todo : SUBSET (Nodes \cup [page : Nodes, old : 0..MaxBFSDepth, new : 0..MaxBFSDepth]),
               orphans : SUBSET Nodes, warm : BOOLEAN]

GraphTypes ==
  /\ LinkGraphTypeOK
  /\ sync \in [Syncers -> SyncState]
  /\ sweep \in SweepState
  /\ Root \in known
  /\ \A w \in Syncers : SyncOK(w)
  /\ TodoOK

\* What the sweep has read still holds, and what it has written is in the issues.
Settling ==
  /\ sweep.pc \in {"warm", "open", "close"} => sweep.orphans = Orphans
  /\ sweep.pc \in {"open", "close"} => sweep.warm = Warm
  /\ sweep.pc = "open" /\ Warm => Orphans \ sweep.todo \subseteq OpenPages("page_orphaned")
  /\ sweep.pc = "close" =>
       /\ OpenPages("page_orphaned") \ Orphans \subseteq sweep.todo
       /\ sweep.todo \cap Orphans = {}
       /\ Warm => Orphans \subseteq OpenPages("page_orphaned")

SweepInv == GraphTypes /\ (~stirred => Settling)

-----------------------------------------------------------------------------
LEMMA GraphBounds ==
  /\ Root \in Nodes /\ Root \notin Unadmitted
  /\ MaxBFSDepth \in Nat
  /\ Cardinality(Nodes) \in Nat
  /\ \A t : Cardinality(Inlinks(t)) \in 0..Cardinality(Nodes)
<1>1. IsFiniteSet(Nodes) /\ Root \in Nodes /\ Root \notin Unadmitted /\ MaxBFSDepth \in Nat
  BY LinkGraphAssumption
<1>2. Cardinality(Nodes) \in Nat
  BY <1>1, FS_CardinalityType
<1>3. ASSUME NEW t PROVE Cardinality(Inlinks(t)) \in 0..Cardinality(Nodes)
  <2>1. Inlinks(t) \subseteq Nodes
    BY DEF Inlinks
  <2>2. IsFiniteSet(Inlinks(t)) /\ Cardinality(Inlinks(t)) <= Cardinality(Nodes)
    BY <1>1, <2>1, FS_Subset
  <2>3. Cardinality(Inlinks(t)) \in Nat
    BY <2>2, FS_CardinalityType
  <2> QED
    BY <1>2, <2>2, <2>3
<1> QED
  BY <1>1, <1>2, <1>3

\* A page that the walk reaches has a least number of clicks.
LEMMA DepthExists == ASSUME NEW p \in Reached PROVE ClickDepth(p) \in 0..MaxBFSDepth
<1> DEFINE D == {d \in 0..MaxBFSDepth : p \in Within[d]}
<1>1. MaxBFSDepth \in D /\ D \subseteq Nat
  BY GraphBounds DEF Reached
<1>2. PICK d \in D : \A e \in D : ~(e < d)
  <2>1. \E d \in D : \A e \in D : <<e, d>> \notin OpToRel(<, Nat)
    BY <1>1, NatLessThanWellFounded, WFMin
  <2> QED
    BY <1>1, <2>1 DEF OpToRel
<1>3. d \in 0..MaxBFSDepth /\ p \in Within[d]
  OBVIOUS
<1>4. d > 0 => p \notin Within[d - 1]
  <2>1. d > 0 => d - 1 \in 0..MaxBFSDepth /\ d - 1 < d
    BY <1>3, GraphBounds
  <2> QED
    BY <1>2, <2>1
<1> HIDE DEF D
<1> QED
  BY <1>3, <1>4 DEF ClickDepth

LEMMA GraphInitially == LinkGraphInit => SweepInv
<1> SUFFICES ASSUME LinkGraphInit PROVE SweepInv
  OBVIOUS
<1> USE GraphBounds DEF LinkGraphInit
<1>1. LinkGraphTypeOK
  <2>1. checked \subseteq known /\ known \subseteq Nodes /\ edges \subseteq known \X Nodes
    OBVIOUS
  <2>2. graphDepth \in [Nodes -> 0..MaxBFSDepth \cup {NULL}] /\ peak \in [Nodes -> 0..Cardinality(Nodes)]
    OBVIOUS
  <2>3. graphIssues \subseteq [rule : GraphRules, page : known] /\ stirred \in BOOLEAN
    OBVIOUS
  <2> QED
    BY <2>1, <2>2, <2>3 DEF LinkGraphTypeOK, GraphRules
<1>2. NotSyncing \in SyncState
  BY DEF NotSyncing, SyncState
<1>3. sync \in [Syncers -> SyncState] /\ \A w \in Syncers : SyncOK(w)
  <2>1. Root \in known
    OBVIOUS
  <2> QED
    BY <1>2, <2>1 DEF SyncOK, NotSyncing
<1>4. sweep \in SweepState /\ TodoOK /\ Settling
  BY DEF SweepState, TodoOK, Settling, NotSweeping
<1>5. Root \in known
  OBVIOUS
<1> QED
  BY <1>1, <1>3, <1>4, <1>5 DEF SweepInv, GraphTypes

-----------------------------------------------------------------------------
\* The crawls.

\* A crawl goes on with w: its state stays typed.
LEMMA SyncGoesOn ==
  ASSUME GraphTypes, NEW w \in Syncers, NEW rec \in SyncState, rec.page \in known,
         rec.pc \in {"lost", "loss"} => rec.target \in known,
         sync' = [sync EXCEPT ![w] = rec], UNCHANGED known
  PROVE  sync' \in [Syncers -> SyncState] /\ \A v \in Syncers : SyncOK(v)'
<1>1. sync' \in [Syncers -> SyncState]
  BY DEF GraphTypes
<1>2. ASSUME NEW v \in Syncers PROVE SyncOK(v)'
  BY DEF GraphTypes, SyncOK
<1> QED
  BY <1>1, <1>2

\* The sweep keeps what it holds while the inventory grows.
LEMMA SweepKept ==
  ASSUME GraphTypes, known \subseteq known', UNCHANGED sweep PROVE sweep' \in SweepState /\ TodoOK'
<1>1. TodoOK /\ sweep \in SweepState
  BY DEF GraphTypes
<1> QED
  BY <1>1 DEF TodoOK

LEMMA CrawlSteps ==
  ASSUME GraphTypes, NEW w \in Syncers, SyncPage(w) PROVE GraphTypes' /\ stirred'
<1> USE GraphBounds
<1>0. /\ sync[w] \in SyncState /\ sync[w].page \in known
      /\ sync[w].pc \in {"lost", "loss"} => sync[w].target \in known
      /\ LinkGraphTypeOK /\ sync \in [Syncers -> SyncState]
  BY DEF GraphTypes, SyncOK
<1>1. ASSUME NEW p \in Nodes, SyncOutEdges(w, p) PROVE GraphTypes' /\ stirred'
  <2>1. p \in known
    BY <1>1 DEF SyncOutEdges
  <2>2. PICK links \in OutLinks[p] :
       /\ edges' = {e \in edges : e[1] # p} \cup ({p} \X links)
       /\ sync' = [sync EXCEPT ![w].pc = "next",
                               ![w].page = p,
                               ![w].removed = {e[2] : e \in {f \in edges : f[1] = p}} \ links,
                               ![w].added = {t \in links : <<p, t>> \notin edges}]
    BY <1>1 DEF SyncOutEdges
  <2>3. links \subseteq Nodes
    BY LinkGraphAssumption
  <2> DEFINE removed == {e[2] : e \in {f \in edges : f[1] = p}} \ links
             added == {t \in links : <<p, t>> \notin edges}
             rec == [sync[w] EXCEPT !.pc = "next", !.page = p, !.removed = removed, !.added = added]
  <2>4. removed \subseteq Nodes /\ added \subseteq Nodes
    BY <1>0, <2>3 DEF LinkGraphTypeOK
  <2>5. sync' = [sync EXCEPT ![w] = rec]
    BY <1>0, <2>2
  <2> HIDE DEF removed, added
  <2>6. rec \in SyncState /\ rec.page = p /\ rec.pc = "next"
    BY <1>0, <2>1, <2>4 DEF SyncState
  <2> HIDE DEF rec
  <2>7. UNCHANGED <<known, checked, graphDepth, graphIssues, peak, sweep>> /\ stirred' = TRUE
    BY <1>1 DEF SyncOutEdges
  <2>8. sync' \in [Syncers -> SyncState] /\ \A v \in Syncers : SyncOK(v)'
    BY <2>1, <2>5, <2>6, <2>7, SyncGoesOn
  <2>9. edges' \subseteq known \X Nodes
    BY <1>0, <2>1, <2>2, <2>3 DEF LinkGraphTypeOK
  <2>10. LinkGraphTypeOK'
    BY <1>0, <2>7, <2>9 DEF LinkGraphTypeOK
  <2> QED
    BY <2>7, <2>8, <2>10, SweepKept DEF GraphTypes
<1>2. ASSUME NEW t \in Nodes, CountInlinks(w, t) PROVE GraphTypes' /\ stirred'
  <2> DEFINE noPage == sync[w].removed # {} /\ t \notin known
             branch == IF sync[w].removed # {} THEN "lost" ELSE "gained"
             rec == [sync[w] EXCEPT !.removed = @ \ {t},
                                    !.added = IF sync[w].removed = {} THEN @ \ {t} ELSE @,
                                    !.pc = IF noPage THEN "next" ELSE branch,
                                    !.target = t,
                                    !.after = Cardinality(Inlinks(t))]
  <2>1. /\ sync' = [sync EXCEPT ![w] = rec] /\ stirred' = TRUE
        /\ UNCHANGED <<known, checked, edges, graphDepth, graphIssues, peak, sweep>>
    BY <1>2 DEF CountInlinks, SyncStep
  <2>2. Cardinality(Inlinks(t)) \in 0..Cardinality(Nodes)
    OBVIOUS
  <2>3. rec \in SyncState /\ rec.page = sync[w].page
    BY <1>0, <2>2 DEF SyncState
  <2>4. rec.pc \in {"lost", "loss"} => rec.target \in known
    BY <1>0 DEF SyncState
  <2> HIDE DEF rec
  <2>5. sync' \in [Syncers -> SyncState] /\ \A v \in Syncers : SyncOK(v)'
    BY <1>0, <2>1, <2>3, <2>4, SyncGoesOn
  <2>6. LinkGraphTypeOK'
    BY <1>0, <2>1 DEF LinkGraphTypeOK
  <2> QED
    BY <2>1, <2>5, <2>6, SweepKept DEF GraphTypes
<1>3. ASSUME SyncStep(w, [sync[w] EXCEPT !.pc = "next"]) \/ SyncStep(w, [sync[w] EXCEPT !.pc = "loss"]),
             sync[w].pc = "lost" \/ SyncStep(w, [sync[w] EXCEPT !.pc = "next"]),
             UNCHANGED <<known, sweep>>, LinkGraphTypeOK'
      PROVE  GraphTypes' /\ stirred'
  <2>1. PICK c \in {"next", "loss"} : /\ SyncStep(w, [sync[w] EXCEPT !.pc = c])
                                      /\ c = "loss" => sync[w].pc = "lost"
    BY <1>3
  <2> DEFINE rec == [sync[w] EXCEPT !.pc = c]
  <2>2. sync' = [sync EXCEPT ![w] = rec] /\ stirred' = TRUE
    BY <2>1 DEF SyncStep
  <2>3. rec \in SyncState /\ rec.page = sync[w].page /\ rec.pc = c /\ rec.target = sync[w].target
    BY <1>0 DEF SyncState
  <2> HIDE DEF rec
  <2>4. sync' \in [Syncers -> SyncState] /\ \A v \in Syncers : SyncOK(v)'
    BY <1>0, <1>3, <2>1, <2>2, <2>3, SyncGoesOn
  <2> QED
    BY <1>3, <2>2, <2>4, SweepKept DEF GraphTypes
<1>4. ASSUME ObserveInlinks(w) PROVE peak' \in [Nodes -> 0..Cardinality(Nodes)]
  BY <1>0, <1>4 DEF ObserveInlinks, LinkGraphTypeOK, SyncState
<1>5. CASE EvaluateOrphan(w)
  <2>1. graphIssues' \subseteq [rule : GraphRules, page : known]
    BY <1>0, <1>5 DEF EvaluateOrphan, LinkGraphTypeOK, GraphRules, Issue
  <2>2. LinkGraphTypeOK'
    BY <1>0, <1>5, <2>1 DEF EvaluateOrphan, LinkGraphTypeOK, SyncStep, GraphRules
  <2> QED
    BY <1>3, <1>5, <2>2 DEF EvaluateOrphan
<1>6. CASE EvaluateLoss(w)
  <2>1. graphIssues' \subseteq [rule : GraphRules, page : known]
    BY <1>0, <1>6 DEF EvaluateLoss, LinkGraphTypeOK, GraphRules, Issue
  <2>2. LinkGraphTypeOK'
    BY <1>0, <1>4, <1>6, <2>1 DEF EvaluateLoss, LinkGraphTypeOK, SyncStep, GraphRules
  <2> QED
    BY <1>3, <1>6, <2>2 DEF EvaluateLoss
<1>7. CASE EvaluateAdded(w)
  <2>1. LinkGraphTypeOK'
    BY <1>0, <1>4, <1>7 DEF EvaluateAdded, LinkGraphTypeOK, SyncStep
  <2> QED
    BY <1>3, <1>7, <2>1 DEF EvaluateAdded
<1>8. CASE SyncEnds(w)
  <2>1. LinkGraphTypeOK'
    BY <1>0, <1>8 DEF SyncEnds, LinkGraphTypeOK, SyncStep
  <2>2. NotSyncing \in SyncState /\ NotSyncing.page = Root /\ NotSyncing.pc = "idle"
    BY DEF NotSyncing, SyncState
  <2>3. sync' \in [Syncers -> SyncState]
    BY <1>0, <1>8, <2>2 DEF SyncEnds, SyncStep
  <2>4. ASSUME NEW v \in Syncers PROVE SyncOK(v)'
    BY <1>8, <2>2 DEF SyncEnds, SyncStep, SyncOK, GraphTypes
  <2> QED
    BY <1>8, <2>1, <2>3, <2>4, SweepKept DEF GraphTypes, SyncEnds, SyncStep
<1>9. CASE SyncError(w)
  <2>1. LinkGraphTypeOK'
    BY <1>0, <1>9 DEF SyncError, LinkGraphTypeOK, SyncStep
  <2> QED
    BY <1>3, <1>9, <2>1 DEF SyncError
<1> QED
  BY <1>1, <1>2, <1>5, <1>6, <1>7, <1>8, <1>9 DEF SyncPage

-----------------------------------------------------------------------------
\* The sweep and the rest of the world.

\* Every step but the sweep's own writes keeps what a step of the sweep does not touch.
LEMMA OtherSteps ==
  ASSUME GraphTypes,
         (\E p \in Nodes : AdmitNode(p) \/ CrawlFails(p)) \/ Restart \/ SweepFails
  PROVE  GraphTypes' /\ stirred'
<1> USE GraphBounds
<1>0. LinkGraphTypeOK /\ sync \in [Syncers -> SyncState] /\ sweep \in SweepState /\ TodoOK
      /\ Root \in known /\ \A w \in Syncers : SyncOK(w)
  BY DEF GraphTypes
<1>1. NotSweeping \in SweepState /\ NotSweeping.pc = "idle" /\ NotSweeping.orphans = {}
  BY DEF NotSweeping, SweepState
<1>2. NotSyncing \in SyncState /\ NotSyncing.page = Root /\ NotSyncing.pc = "idle"
  BY DEF NotSyncing, SyncState
<1>3. ASSUME NEW p \in Nodes, AdmitNode(p) PROVE GraphTypes' /\ stirred'
  <2>1. LinkGraphTypeOK'
    BY <1>0, <1>3 DEF AdmitNode, LinkGraphTypeOK
  <2>2. sweep' \in SweepState /\ TodoOK'
    BY <1>3, SweepKept DEF AdmitNode
  <2>3. \A w \in Syncers : SyncOK(w)'
    BY <1>0, <1>3 DEF AdmitNode, SyncOK
  <2> QED
    BY <1>0, <1>3, <2>1, <2>2, <2>3 DEF AdmitNode, GraphTypes
<1>4. ASSUME NEW p \in Nodes, CrawlFails(p) PROVE GraphTypes' /\ stirred'
  <2>1. LinkGraphTypeOK'
    BY <1>0, <1>4 DEF CrawlFails, LinkGraphTypeOK
  <2>2. sweep' \in SweepState /\ TodoOK'
    BY <1>4, SweepKept DEF CrawlFails
  <2>3. \A w \in Syncers : SyncOK(w)'
    BY <1>0, <1>4 DEF CrawlFails, SyncOK
  <2> QED
    BY <1>0, <1>4, <2>1, <2>2, <2>3 DEF CrawlFails, GraphTypes
<1>5. CASE Restart
  <2>1. LinkGraphTypeOK'
    BY <1>0, <1>5 DEF Restart, LinkGraphTypeOK
  <2>2. sweep' \in SweepState /\ TodoOK'
    BY <1>1, <1>5 DEF Restart, TodoOK
  <2>3. sync' \in [Syncers -> SyncState]
    BY <1>2, <1>5 DEF Restart
  <2>4. ASSUME NEW w \in Syncers PROVE SyncOK(w)'
    BY <1>0, <1>2, <1>5 DEF Restart, SyncOK
  <2> QED
    BY <1>0, <1>5, <2>1, <2>2, <2>3, <2>4 DEF Restart, GraphTypes
<1>6. CASE SweepFails
  <2>1. LinkGraphTypeOK' /\ UNCHANGED <<known, sync>> /\ stirred'
    BY <1>0, <1>6 DEF SweepFails, LinkGraphTypeOK
  <2>2. sweep' \in SweepState /\ TodoOK'
    <3>1. CASE sweep' = NotSweeping
      BY <1>1, <3>1 DEF TodoOK
    <3>2. ASSUME NEW x \in sweep.todo, sweep' = [sweep EXCEPT !.todo = @ \ {x}]
          PROVE  sweep' \in SweepState /\ TodoOK'
      <4>1. /\ sweep' \in SweepState /\ sweep'.pc = sweep.pc /\ sweep'.orphans = sweep.orphans
            /\ sweep'.todo \subseteq sweep.todo
        BY <1>0, <3>2 DEF SweepState
      <4> QED
        BY <1>0, <2>1, <4>1 DEF TodoOK
    <3> QED
      BY <1>6, <3>1, <3>2 DEF SweepFails
  <2>3. \A w \in Syncers : SyncOK(w)'
    BY <1>0, <2>1 DEF SyncOK
  <2> QED
    BY <1>0, <2>1, <2>2, <2>3 DEF GraphTypes
<1> QED
  BY <1>3, <1>4, <1>5, <1>6

\* A step of the sweep to rec.
LEMMA SweepGoesOn ==
  ASSUME GraphTypes, NEW rec \in SweepState, SweepStep(rec), LinkGraphTypeOK',
         rec.orphans \subseteq known,
         rec.pc = "depth" => \A c \in rec.todo : c.page \in known,
         rec.pc = "open" => rec.todo \subseteq rec.orphans,
         rec.pc = "close" => rec.todo \subseteq Nodes
  PROVE  GraphTypes'
<1>1. sweep' \in SweepState /\ TodoOK'
  BY DEF SweepStep, TodoOK
<1>2. UNCHANGED <<sync, known>>
  BY DEF SweepStep
<1>3. \A w \in Syncers : SyncOK(w)'
  BY <1>2 DEF GraphTypes, SyncOK
<1> QED
  BY <1>1, <1>2, <1>3 DEF GraphTypes

\* The issues of the orphans, as a step changes them.
LEMMA OrphanIssues ==
  /\ \A p \in Nodes : (graphIssues' = graphIssues \cup {Issue("page_orphaned", p)})
       => OpenPages("page_orphaned")' = OpenPages("page_orphaned") \cup {p}
  /\ \A p \in Nodes : (graphIssues' = graphIssues \ {Issue("page_orphaned", p)})
       => OpenPages("page_orphaned")' = OpenPages("page_orphaned") \ {p}
<1>1. \A p, q : Issue("page_orphaned", p) = Issue("page_orphaned", q) => p = q
  BY DEF Issue
<1> QED
  BY <1>1 DEF OpenPages

\* While nothing stirs, the graph that the sweep has read does not change.
LEMMA SameGraph ==
  ASSUME NEW rec, SweepStep(rec) PROVE Orphans' = Orphans /\ (Warm <=> Warm')
BY DEF SweepStep, Orphans, Warm, Inlinks

LEMMA SweepSteps ==
  ASSUME SweepInv, Sweep PROVE SweepInv'
<1> USE GraphBounds
<1>0. /\ LinkGraphTypeOK /\ sync \in [Syncers -> SyncState] /\ sweep \in SweepState /\ TodoOK
      /\ Root \in known /\ GraphTypes /\ (~stirred => Settling)
      /\ \A w \in Syncers : SyncOK(w)
  BY DEF GraphTypes, SweepInv
<1>1. CASE SweepGraphDepths
  <2> DEFINE todo == {[page |-> p, old |-> graphDepth[p], new |-> ClickDepth(p)] :
                        p \in {q \in Reached : graphDepth[q] # NULL}}
             rec == [NotSweeping EXCEPT !.pc = "depth", !.todo = todo]
  <2>1. /\ sweep' = rec /\ UNCHANGED <<known, checked, edges, graphIssues, peak, sync>>
        /\ graphDepth' = [p \in Nodes |-> IF p \in Reached THEN ClickDepth(p) ELSE graphDepth[p]]
        /\ stirred' \in BOOLEAN
    BY <1>1 DEF SweepGraphDepths
  <2>2. \A p \in Reached : p \in known /\ p \in Nodes /\ ClickDepth(p) \in 0..MaxBFSDepth
    BY <1>0, DepthExists DEF Reached, LinkGraphTypeOK
  <2>3. graphDepth' \in [Nodes -> 0..MaxBFSDepth \cup {NULL}]
    BY <1>0, <2>1, <2>2 DEF LinkGraphTypeOK
  <2>4. todo \subseteq [page : Nodes, old : 0..MaxBFSDepth, new : 0..MaxBFSDepth]
        /\ \A c \in todo : c.page \in known
    BY <1>0, <2>2 DEF LinkGraphTypeOK
  <2> HIDE DEF todo
  <2>5. rec \in SweepState /\ rec.pc = "depth" /\ rec.todo = todo /\ rec.orphans = {}
    BY <2>4 DEF NotSweeping, SweepState
  <2> HIDE DEF rec
  <2>6. LinkGraphTypeOK'
    BY <1>0, <2>1, <2>3 DEF LinkGraphTypeOK
  <2>7. TodoOK' /\ Settling'
    BY <2>1, <2>4, <2>5 DEF TodoOK, Settling
  <2>8. \A w \in Syncers : SyncOK(w)'
    BY <1>0, <2>1 DEF SyncOK
  <2> QED
    BY <1>0, <2>1, <2>5, <2>6, <2>7, <2>8 DEF SweepInv, GraphTypes
<1>2. ASSUME NEW c \in sweep.todo, EvaluateDepthChange(c) PROVE SweepInv'
  <2> DEFINE rec == [sweep EXCEPT !.todo = @ \ {c}]
  <2>1. /\ sweep.pc = "depth" /\ SweepStep(rec) /\ UNCHANGED graphDepth
        /\ \/ graphIssues' = graphIssues \cup {Issue("click_depth_regression", c.page)}
           \/ graphIssues' = graphIssues \ {Issue("click_depth_regression", c.page)}
    BY <1>2 DEF EvaluateDepthChange
  <2>2. c.page \in known
    BY <1>0, <2>1 DEF TodoOK
  <2>3. rec \in SweepState /\ rec.pc = "depth" /\ rec.orphans = sweep.orphans
        /\ rec.todo \subseteq sweep.todo
    BY <1>0, <2>1 DEF SweepState
  <2> HIDE DEF rec
  <2>4. graphIssues' \subseteq [rule : GraphRules, page : known]
    BY <1>0, <2>1, <2>2 DEF LinkGraphTypeOK, GraphRules, Issue
  <2>5. LinkGraphTypeOK'
    BY <1>0, <2>1, <2>4 DEF LinkGraphTypeOK, GraphRules, SweepStep
  <2>6. GraphTypes'
    BY <1>0, <2>1, <2>3, <2>5, SweepGoesOn DEF TodoOK
  <2>7. Settling'
    BY <2>1, <2>3 DEF SweepStep, Settling
  <2> QED
    BY <2>6, <2>7 DEF SweepInv
<1>3. CASE ListOrphans
  <2> DEFINE rec == [sweep EXCEPT !.pc = "warm", !.orphans = Orphans]
  <2>1. SweepStep(rec) /\ UNCHANGED <<graphDepth, graphIssues>>
    BY <1>3 DEF ListOrphans
  <2>2. Orphans \subseteq known /\ Orphans \subseteq Nodes
    BY <1>0 DEF Orphans, LinkGraphTypeOK
  <2>3. rec \in SweepState /\ rec.pc = "warm" /\ rec.orphans = Orphans
    BY <1>0, <2>2 DEF SweepState
  <2> HIDE DEF rec
  <2>4. LinkGraphTypeOK'
    BY <1>0, <2>1 DEF LinkGraphTypeOK, SweepStep
  <2>5. GraphTypes'
    BY <1>0, <2>1, <2>2, <2>3, <2>4, SweepGoesOn
  <2>6. Settling'
    BY <2>1, <2>3, SameGraph DEF SweepStep, Settling
  <2> QED
    BY <2>5, <2>6 DEF SweepInv
<1>4. CASE GraphWarm
  <2> DEFINE todo == IF Warm THEN sweep.orphans ELSE {}
             rec == [sweep EXCEPT !.pc = "open", !.warm = Warm, !.todo = todo]
  <2>1. sweep.pc = "warm" /\ SweepStep(rec) /\ UNCHANGED <<graphDepth, graphIssues>>
    BY <1>4 DEF GraphWarm
  <2>2. Warm \in BOOLEAN /\ todo \subseteq sweep.orphans /\ sweep.orphans \subseteq Nodes
    BY <1>0 DEF Warm, SweepState
  <2>3. /\ rec \in SweepState /\ rec.pc = "open" /\ rec.orphans = sweep.orphans /\ rec.todo = todo
        /\ rec.warm = Warm
    BY <1>0, <2>2 DEF SweepState
  <2> HIDE DEF rec
  <2>4. LinkGraphTypeOK'
    BY <1>0, <2>1 DEF LinkGraphTypeOK, SweepStep
  <2>5. GraphTypes'
    BY <1>0, <2>1, <2>2, <2>3, <2>4, SweepGoesOn DEF TodoOK
  <2>6. ASSUME ~stirred' PROVE Settling'
    <3>1. sweep.orphans = Orphans
      BY <1>0, <2>1, <2>6 DEF SweepStep, Settling
    <3>2. sweep' = rec /\ Orphans' = Orphans /\ (Warm <=> Warm')
      BY <2>1, SameGraph DEF SweepStep
    <3>3. Warm' \in BOOLEAN /\ rec.warm = Warm'
      BY <2>2, <2>3, <3>2 DEF Warm
    <3>4. Warm' => Orphans' \ sweep'.todo = {}
      BY <2>3, <3>1, <3>2
    <3> QED
      BY <2>3, <3>1, <3>2, <3>3, <3>4 DEF Settling
  <2> QED
    BY <2>5, <2>6 DEF SweepInv
<1>5. ASSUME NEW p \in Nodes, ReopenOrphan(p) PROVE SweepInv'
  <2> DEFINE rec == [sweep EXCEPT !.todo = @ \ {p}]
  <2>1. /\ sweep.pc = "open" /\ SweepStep(rec) /\ UNCHANGED graphDepth /\ p \in sweep.todo
        /\ graphIssues' = graphIssues \cup {Issue("page_orphaned", p)}
    BY <1>5 DEF ReopenOrphan
  <2>2. p \in known
    BY <1>0, <2>1 DEF TodoOK
  <2>3. /\ rec \in SweepState /\ rec.pc = "open" /\ rec.orphans = sweep.orphans
        /\ rec.todo = sweep.todo \ {p} /\ rec.warm = sweep.warm
    BY <1>0, <2>1 DEF SweepState
  <2> HIDE DEF rec
  <2>4. graphIssues' \subseteq [rule : GraphRules, page : known]
    BY <1>0, <2>1, <2>2 DEF LinkGraphTypeOK, GraphRules, Issue
  <2>5. LinkGraphTypeOK'
    BY <1>0, <2>1, <2>4 DEF LinkGraphTypeOK, GraphRules, SweepStep
  <2>6. GraphTypes'
    BY <1>0, <2>1, <2>3, <2>5, SweepGoesOn DEF TodoOK
  <2>7. ASSUME ~stirred' PROVE Settling'
    <3>1. Settling
      BY <1>0, <2>1, <2>7 DEF SweepStep
    <3>2. sweep' = rec /\ Orphans' = Orphans /\ (Warm <=> Warm')
          /\ OpenPages("page_orphaned")' = OpenPages("page_orphaned") \cup {p}
      BY <2>1, SameGraph, OrphanIssues DEF SweepStep
    <3>3. Warm \in BOOLEAN /\ Warm' \in BOOLEAN
      BY DEF Warm
    <3> QED
      BY <2>1, <2>3, <3>1, <3>2, <3>3 DEF Settling
  <2> QED
    BY <2>6, <2>7 DEF SweepInv
<1>6. CASE ListOpenOrphans
  <2> DEFINE todo == OpenPages("page_orphaned") \ sweep.orphans
             rec == [sweep EXCEPT !.pc = "close", !.todo = todo]
  <2>1. /\ sweep.pc = "open" /\ SweepStep(rec) /\ UNCHANGED <<graphDepth, graphIssues>>
        /\ sweep.todo = {}
    BY <1>6 DEF ListOpenOrphans
  <2>2. todo \subseteq Nodes
    BY DEF OpenPages
  <2>3. /\ rec \in SweepState /\ rec.pc = "close" /\ rec.orphans = sweep.orphans /\ rec.todo = todo
        /\ rec.warm = sweep.warm
    BY <1>0, <2>2 DEF SweepState
  <2> HIDE DEF rec
  <2>4. LinkGraphTypeOK'
    BY <1>0, <2>1 DEF LinkGraphTypeOK, SweepStep
  <2>5. GraphTypes'
    BY <1>0, <2>1, <2>2, <2>3, <2>4, SweepGoesOn DEF TodoOK
  <2>6. ASSUME ~stirred' PROVE Settling'
    <3>1. Settling
      BY <1>0, <2>1, <2>6 DEF SweepStep
    <3>2. sweep' = rec /\ Orphans' = Orphans /\ (Warm <=> Warm')
          /\ OpenPages("page_orphaned")' = OpenPages("page_orphaned")
      BY <2>1, SameGraph DEF SweepStep, OpenPages
    <3>3. Warm \in BOOLEAN /\ Warm' \in BOOLEAN
      BY DEF Warm
    <3> QED
      BY <2>1, <2>3, <3>1, <3>2, <3>3 DEF Settling
  <2> QED
    BY <2>5, <2>6 DEF SweepInv
<1>7. ASSUME NEW p \in Nodes, CloseOrphan(p) PROVE SweepInv'
  <2> DEFINE rec == [sweep EXCEPT !.todo = @ \ {p}]
  <2>1. /\ sweep.pc = "close" /\ SweepStep(rec) /\ UNCHANGED graphDepth /\ p \in sweep.todo
        /\ graphIssues' = graphIssues \ {Issue("page_orphaned", p)}
    BY <1>7 DEF CloseOrphan
  <2>2. /\ rec \in SweepState /\ rec.pc = "close" /\ rec.orphans = sweep.orphans
        /\ rec.todo = sweep.todo \ {p} /\ rec.warm = sweep.warm
    BY <1>0, <2>1 DEF SweepState
  <2> HIDE DEF rec
  <2>3. LinkGraphTypeOK'
    BY <1>0, <2>1 DEF LinkGraphTypeOK, SweepStep
  <2>4. GraphTypes'
    BY <1>0, <2>1, <2>2, <2>3, SweepGoesOn DEF TodoOK
  <2>5. ASSUME ~stirred' PROVE Settling'
    <3>1. Settling
      BY <1>0, <2>1, <2>5 DEF SweepStep
    <3>2. sweep' = rec /\ Orphans' = Orphans /\ (Warm <=> Warm')
          /\ OpenPages("page_orphaned")' = OpenPages("page_orphaned") \ {p}
      BY <2>1, SameGraph, OrphanIssues DEF SweepStep
    <3>3. Warm \in BOOLEAN /\ Warm' \in BOOLEAN
      BY DEF Warm
    <3> QED
      BY <2>1, <2>2, <3>1, <3>2, <3>3 DEF Settling
  <2> QED
    BY <2>4, <2>5 DEF SweepInv
<1>8. CASE SweepEnds
  <2>1. SweepStep(NotSweeping) /\ UNCHANGED <<graphDepth, graphIssues>>
    BY <1>8 DEF SweepEnds
  <2>2. NotSweeping \in SweepState /\ NotSweeping.pc = "idle" /\ NotSweeping.orphans = {}
    BY DEF NotSweeping, SweepState
  <2>3. LinkGraphTypeOK'
    BY <1>0, <2>1 DEF LinkGraphTypeOK, SweepStep
  <2>4. GraphTypes'
    BY <1>0, <2>1, <2>2, <2>3, SweepGoesOn
  <2>5. Settling'
    BY <2>1, <2>2 DEF SweepStep, Settling
  <2> QED
    BY <2>4, <2>5 DEF SweepInv
<1>9. CASE SweepFails
  BY <1>0, <1>9, OtherSteps DEF SweepInv
<1> QED
  BY <1>1, <1>2, <1>3, <1>4, <1>5, <1>6, <1>7, <1>8, <1>9 DEF Sweep

LEMMA GraphInductive == SweepInv /\ [LinkGraphNext]_graphVars => SweepInv'
<1> SUFFICES ASSUME SweepInv, [LinkGraphNext]_graphVars PROVE SweepInv'
  OBVIOUS
<1>1. CASE \E w \in Syncers : SyncPage(w)
  BY <1>1, CrawlSteps DEF SweepInv
<1>2. CASE Sweep
  BY <1>2, SweepSteps
<1>3. CASE (\E p \in Nodes : AdmitNode(p) \/ CrawlFails(p)) \/ Restart
  BY <1>3, OtherSteps DEF SweepInv
<1>4. CASE UNCHANGED graphVars
  <2>1. Settling => Settling'
    BY <1>4 DEF graphVars, Settling, Orphans, Inlinks, Warm, OpenPages
  <2>2. GraphTypes'
    BY <1>4 DEF graphVars, SweepInv, GraphTypes, LinkGraphTypeOK, SyncOK, TodoOK
  <2> QED
    BY <1>4, <2>1, <2>2 DEF SweepInv, graphVars
<1> QED
  BY <1>1, <1>2, <1>3, <1>4 DEF LinkGraphNext

\* Whatever crawls, store errors and restarts left behind, a sweep that nothing
\* overlaps leaves page_orphaned open on no page that has a link, and on every one
\* that has none once each page has been checked (reconcileOrphans against SyncPage).
THEOREM SweepSettlesOrphansCorrect == LinkGraphSpec => []SweepSettlesOrphans
<1>1. SweepInv => SweepSettlesOrphans
  BY DEF SweepInv, Settling, SweepSettlesOrphans
<1> QED
  BY <1>1, GraphInitially, GraphInductive, PTL DEF LinkGraphSpec

\* The types of the link graph: last_checked, edges and issues are about URLs of the
\* inventory only, and a click depth is within the bound of the walk.
THEOREM LinkGraphTypeCorrect == LinkGraphSpec => []LinkGraphTypeOK
<1>1. SweepInv => LinkGraphTypeOK
  BY DEF SweepInv, GraphTypes
<1> QED
  BY <1>1, GraphInitially, GraphInductive, PTL DEF LinkGraphSpec

-----------------------------------------------------------------------------
(* The segments: reconciles, admissions and the registry.                  *)

SegIDs == 1..segSerial
Matchers == {NoMatcher} \cup UNION {[match : {c}, ids : [DOMAIN c -> SegIDs]] : c \in SegConfigs}

ReconcileState == [pc : {"idle", "sync", "reclassify", "swap"}, config : SegConfigs \cup {Uncompilable},
                   matcher : Matchers, company : BOOLEAN]
ClassifyState == [pc : {"idle", "new", "found"}, ids : SUBSET SegIDs]
Definition == [id : SegIDs, name : SegNames, rule : SUBSET SegPages]

SegTypes ==
  /\ segConfig \in SegConfigs \cup {Uncompilable}
  /\ segSerial \in Nat
  /\ segments \subseteq Definition
  /\ \A d, e \in segments : d.name = e.name => d = e
  /\ inventory \subseteq SegPages
  /\ urlSegments \subseteq inventory \X IDs
  /\ registry \in Matchers
  /\ reconcile \in [Reconcilers -> ReconcileState]
  /\ classify \in [SegPages -> ClassifyState]
  /\ alone \in BOOLEAN
  /\ \A r \in Reconcilers : reconcile[r].pc = "sync" => reconcile[r].config \in SegConfigs
  /\ \A p \in SegPages : classify[p].pc # "idle" => p \in inventory

\* The table holds the definitions that the matcher is bound to.
Bound(matcher) ==
  {<<d.name, d.id, d.rule>> : d \in segments} =
    {<<n, matcher.ids[n], matcher.match[n]>> : n \in DOMAIN matcher.match}

\* Every page that was there when the reconcile began is in the segments that match it.
Classified(matcher, p) == MembersOf(p) = MatchIDs(matcher, p)

\* A reconcile without company is the only one, and what it has written stands.
LoneOK(r) ==
  reconcile[r].pc # "idle" /\ ~reconcile[r].company =>
    /\ Busy = {r}
    /\ reconcile[r].pc \in {"reclassify", "swap"} /\ reconcile[r].matcher # NoMatcher =>
         Bound(reconcile[r].matcher)
    /\ reconcile[r].pc = "swap" /\ reconcile[r].matcher # NoMatcher =>
         \A p \in inventory \ late : Classified(reconcile[r].matcher, p)

\* Between reconciles a page that is admitted is classified by the matcher that stands.
PublishedOK ==
  Busy = {} /\ alone /\ registry # NoMatcher =>
    /\ Bound(registry)
    /\ \A p \in inventory \ late :
         /\ classify[p].pc = "idle" => Classified(registry, p)
         /\ classify[p].pc = "found" => classify[p].ids = MatchIDs(registry, p)

SegInv ==
  /\ SegTypes
  /\ Busy # {} => \A p \in SegPages : classify[p].pc # "idle" => p \in late
  /\ \A r \in Reconcilers : LoneOK(r)
  /\ PublishedOK

-----------------------------------------------------------------------------
\* A matcher is bound to the names of a configuration.
LEMMA MatcherShape ==
  ASSUME NEW m \in Matchers, m # NoMatcher
  PROVE  \E c \in SegConfigs : m.match = c /\ m.ids \in [DOMAIN c -> SegIDs]
BY DEF Matchers

LEMMA MatchIDsTyped == ASSUME NEW m \in Matchers, NEW p PROVE MatchIDs(m, p) \subseteq SegIDs
<1>1. CASE m = NoMatcher
  BY <1>1 DEF MatchIDs
<1>2. CASE m # NoMatcher
  <2>1. PICK c \in SegConfigs : m.match = c /\ m.ids \in [DOMAIN c -> SegIDs]
    BY <1>2, MatcherShape
  <2> QED
    BY <1>2, <2>1 DEF MatchIDs
<1> QED
  BY <1>1, <1>2

\* A matcher that agrees with the table is bound to ids of the table.
LEMMA BoundIDs ==
  ASSUME NEW m \in Matchers, m # NoMatcher, Bound(m), NEW p PROVE MatchIDs(m, p) \subseteq IDs
<1>1. PICK c \in SegConfigs : m.match = c /\ m.ids \in [DOMAIN c -> SegIDs]
  BY MatcherShape
<1>2. ASSUME NEW n \in DOMAIN c PROVE m.ids[n] \in IDs
  <2>1. <<n, m.ids[n], m.match[n]>> \in {<<d.name, d.id, d.rule>> : d \in segments}
    BY <1>1 DEF Bound
  <2> QED
    BY <2>1 DEF IDs
<1> QED
  BY <1>1, <1>2 DEF MatchIDs

\* Ids are given out in order, so that a matcher stays one.
LEMMA MatchersGrow ==
  ASSUME segSerial \in Nat, segSerial' \in Nat, segSerial <= segSerial'
  PROVE  SegIDs \subseteq SegIDs' /\ Matchers \subseteq Matchers'
<1>1. SegIDs \subseteq SegIDs'
  BY DEF SegIDs
<1>2. ASSUME NEW m \in Matchers PROVE m \in Matchers'
  <2>1. CASE m = NoMatcher
    BY <2>1 DEF Matchers
  <2>2. CASE m # NoMatcher
    <3>1. PICK c \in SegConfigs : m \in [match : {c}, ids : [DOMAIN c -> SegIDs]]
      BY <2>2 DEF Matchers
    <3>2. m \in [match : {c}, ids : [DOMAIN c -> SegIDs']]
      BY <1>1, <3>1
    <3> QED
      BY <3>2 DEF Matchers
  <2> QED
    BY <2>1, <2>2
<1> QED
  BY <1>1, <1>2

LEMMA SegInitially == SegmentsInit => SegInv
<1> SUFFICES ASSUME SegmentsInit PROVE SegInv
  OBVIOUS
<1>1. NotReconciling \in ReconcileState /\ NotReconciling.pc = "idle"
  BY DEF NotReconciling, ReconcileState, Matchers
<1>2. NotClassifying \in ClassifyState /\ NotClassifying.pc = "idle"
  BY DEF NotClassifying, ClassifyState
<1>3. /\ reconcile \in [Reconcilers -> ReconcileState] /\ \A r \in Reconcilers : reconcile[r].pc = "idle"
      /\ classify \in [SegPages -> ClassifyState] /\ \A p \in SegPages : classify[p].pc = "idle"
  BY <1>1, <1>2 DEF SegmentsInit
<1>4. /\ segConfig \in SegConfigs \cup {Uncompilable} /\ segSerial \in Nat /\ segments \subseteq Definition
      /\ inventory \subseteq SegPages /\ urlSegments \subseteq inventory \X IDs /\ registry \in Matchers
      /\ alone = FALSE /\ segments = {}
  BY SegmentsAssumption DEF SegmentsInit, Matchers
<1>5. SegTypes
  BY <1>3, <1>4 DEF SegTypes
<1>6. Busy = {}
  BY <1>3 DEF Busy
<1> QED
  BY <1>3, <1>4, <1>5, <1>6 DEF SegInv, LoneOK, PublishedOK

-----------------------------------------------------------------------------
\* What r does leaves the others as they are; none of them is alone.
LEMMA OthersNotLone ==
  ASSUME SegInv, NEW r \in Reconcilers, reconcile[r].pc # "idle", NEW w,
         reconcile' = [reconcile EXCEPT ![r] = w], NEW q \in Reconcilers \ {r}
  PROVE  LoneOK(q)'
<1>1. reconcile'[q] = reconcile[q]
  BY DEF SegInv, SegTypes
<1>2. r \in Busy
  BY DEF Busy
<1>3. reconcile[q].pc # "idle" /\ ~reconcile[q].company => Busy = {q}
  BY DEF SegInv, LoneOK
<1> QED
  BY <1>1, <1>2, <1>3 DEF LoneOK

LEMMA StepEdit == SegInv /\ EditSegments => SegInv'
<1> SUFFICES ASSUME SegInv, EditSegments PROVE SegInv'
  OBVIOUS
<1>1. UNCHANGED <<segments, urlSegments, registry, inventory, reconcile, classify, segSerial, alone, late>>
      /\ segConfig' \in SegConfigs \cup {Uncompilable}
  BY DEF EditSegments
<1>2. /\ SegIDs' = SegIDs /\ IDs' = IDs /\ Busy' = Busy /\ Matchers' = Matchers /\ ReconcileState' = ReconcileState
      /\ ClassifyState' = ClassifyState /\ Definition' = Definition
  BY <1>1 DEF IDs, Busy, SegIDs, Matchers, ReconcileState, ClassifyState, Definition
<1>3. SegTypes'
  BY <1>1, <1>2 DEF SegInv, SegTypes
<1>4. \A m : Bound(m)' <=> Bound(m)
  BY <1>1 DEF Bound
<1>5. \A m, p : Classified(m, p)' <=> Classified(m, p)
  BY <1>1, <1>2 DEF Classified, MembersOf
<1>6. ASSUME NEW r \in Reconcilers PROVE LoneOK(r)'
  BY <1>1, <1>2, <1>4, <1>5 DEF SegInv, LoneOK
<1>7. PublishedOK'
  BY <1>1, <1>2, <1>4, <1>5 DEF SegInv, PublishedOK
<1> QED
  BY <1>1, <1>2, <1>3, <1>6, <1>7 DEF SegInv

-----------------------------------------------------------------------------
\* The admission of a page.

\* The facts about the state that the steps of an admission rest on.
LEMMA SegFacts ==
  ASSUME SegInv
  PROVE  /\ SegTypes /\ PublishedOK /\ registry \in Matchers
         /\ segSerial \in Nat /\ urlSegments \subseteq inventory \X IDs
         /\ classify \in [SegPages -> ClassifyState]
         /\ reconcile \in [Reconcilers -> ReconcileState]
         /\ \A r \in Reconcilers : LoneOK(r)
         /\ \A p \in SegPages : classify[p].pc # "idle" => p \in inventory
         /\ Busy # {} => \A p \in SegPages : classify[p].pc # "idle" => p \in late
BY DEF SegInv, SegTypes

\* An admission changes nothing that the table and the reconciles are about.
LEMMA AdmissionKeeps ==
  ASSUME UNCHANGED <<segConfig, segments, registry, reconcile, segSerial, alone>>
  PROVE  /\ SegIDs' = SegIDs /\ IDs' = IDs /\ Busy' = Busy /\ Matchers' = Matchers
         /\ ReconcileState' = ReconcileState /\ ClassifyState' = ClassifyState
         /\ Definition' = Definition
         /\ \A m : Bound(m)' <=> Bound(m)
BY DEF IDs, Busy, SegIDs, Matchers, ReconcileState, ClassifyState, Definition, Bound

LEMMA StepUpsert == ASSUME SegInv, NEW p \in SegPages, Upsert(p) PROVE SegInv'
<1>1. /\ p \notin inventory /\ inventory' = inventory \cup {p}
      /\ UNCHANGED <<segConfig, segments, urlSegments, registry, reconcile, segSerial, alone>>
      /\ late' = IF Busy = {} THEN late ELSE late \cup {p}
      /\ classify' = [classify EXCEPT ![p].pc = "new"]
  BY DEF Upsert
<1>2. /\ classify' \in [SegPages -> ClassifyState] /\ classify'[p].pc = "new"
      /\ \A q \in SegPages \ {p} : classify'[q] = classify[q]
  BY <1>1, SegFacts DEF ClassifyState
<1>3. SegTypes'
  BY <1>1, <1>2, AdmissionKeeps DEF SegInv, SegTypes
<1>4. \A m, q : Classified(m, q)' <=> Classified(m, q)
  BY <1>1, AdmissionKeeps DEF Classified, MembersOf
<1>5. ASSUME NEW r \in Reconcilers PROVE LoneOK(r)'
  <2>1. Busy = {r} => inventory' \ late' \subseteq inventory \ late
    BY <1>1
  <2> QED
    BY <1>1, <1>4, <2>1, SegFacts, AdmissionKeeps DEF LoneOK
<1>6. PublishedOK'
  <2>1. Busy = {} => inventory' \ late' \subseteq (inventory \ late) \cup {p}
    BY <1>1
  <2>2. inventory \subseteq SegPages
    BY SegFacts DEF SegTypes
  <2> QED
    BY <1>1, <1>2, <1>4, <2>1, <2>2, SegFacts, AdmissionKeeps DEF PublishedOK
<1>7. Busy' # {} => \A q \in SegPages : classify'[q].pc # "idle" => q \in late'
  BY <1>1, <1>2, SegFacts, AdmissionKeeps
<1> QED
  BY <1>3, <1>5, <1>6, <1>7 DEF SegInv

LEMMA StepFind == ASSUME SegInv, NEW p \in SegPages, SegmentIDsFor(p) PROVE SegInv'
<1>1. /\ classify[p].pc = "new"
      /\ UNCHANGED <<segConfig, segments, urlSegments, registry, inventory, reconcile, segSerial, alone, late>>
      /\ classify' = [classify EXCEPT ![p] = [pc |-> "found", ids |-> MatchIDs(registry, p)]]
  BY DEF SegmentIDsFor
<1>2. /\ classify' \in [SegPages -> ClassifyState]
      /\ classify'[p].pc = "found" /\ classify'[p].ids = MatchIDs(registry, p)
      /\ \A q \in SegPages \ {p} : classify'[q] = classify[q]
  <2>1. [pc |-> "found", ids |-> MatchIDs(registry, p)] \in ClassifyState
    BY SegFacts, MatchIDsTyped DEF ClassifyState
  <2> QED
    BY <1>1, <2>1, SegFacts
<1>3. SegTypes'
  BY <1>1, <1>2, AdmissionKeeps DEF SegInv, SegTypes
<1>4. \A m, q : /\ Classified(m, q)' <=> Classified(m, q)
                /\ MatchIDs(m, q)' = MatchIDs(m, q)
  BY <1>1, AdmissionKeeps DEF Classified, MembersOf, MatchIDs
<1>5. ASSUME NEW r \in Reconcilers PROVE LoneOK(r)'
  BY <1>1, <1>4, SegFacts, AdmissionKeeps DEF LoneOK
<1>6. PublishedOK'
  <2>1. inventory \subseteq SegPages
    BY SegFacts DEF SegTypes
  <2> QED
    BY <1>1, <1>2, <1>4, <2>1, SegFacts, AdmissionKeeps DEF PublishedOK
<1>7. Busy' # {} => \A q \in SegPages : classify'[q].pc # "idle" => q \in late'
  BY <1>1, <1>2, SegFacts, AdmissionKeeps
<1> QED
  BY <1>3, <1>5, <1>6, <1>7 DEF SegInv

LEMMA StepSet == ASSUME SegInv, NEW p \in SegPages, SetURLSegments(p) PROVE SegInv'
<1>1. /\ classify[p].pc = "found" /\ classify' = [classify EXCEPT ![p] = NotClassifying]
      /\ UNCHANGED <<segConfig, segments, registry, inventory, reconcile, segSerial, alone, late>>
      /\ urlSegments' = IF classify[p].ids \subseteq IDs
                        THEN {m \in urlSegments : m[1] # p} \cup {<<p, i>> : i \in classify[p].ids}
                        ELSE urlSegments
  BY DEF SetURLSegments
<1>2. /\ classify' \in [SegPages -> ClassifyState] /\ classify'[p].pc = "idle"
      /\ \A q \in SegPages \ {p} : classify'[q] = classify[q]
  <2>1. NotClassifying \in ClassifyState /\ NotClassifying.pc = "idle"
    BY DEF NotClassifying, ClassifyState
  <2> QED
    BY <1>1, <2>1, SegFacts
<1>3. p \in inventory
  BY <1>1, SegFacts
<1>4. urlSegments' \subseteq inventory \X IDs
  BY <1>1, <1>3, SegFacts
<1>5. SegTypes'
  BY <1>1, <1>2, <1>4, AdmissionKeeps DEF SegInv, SegTypes
<1>6. \A m : \A q \in SegPages \ {p} : Classified(m, q)' <=> Classified(m, q)
  <2>1. ASSUME NEW q \in SegPages \ {p}, NEW i PROVE <<q, i>> \in urlSegments' <=> <<q, i>> \in urlSegments
    BY <1>1
  <2>2. ASSUME NEW q \in SegPages \ {p} PROVE MembersOf(q)' = MembersOf(q)
    BY <1>1, <2>1, AdmissionKeeps DEF MembersOf
  <2>3. \A m, q : MatchIDs(m, q)' = MatchIDs(m, q)
    BY DEF MatchIDs
  <2> QED
    BY <2>2, <2>3 DEF Classified
<1>7. classify[p].ids \subseteq IDs => MembersOf(p)' = classify[p].ids
  <2>1. SUFFICES ASSUME classify[p].ids \subseteq IDs PROVE MembersOf(p)' = classify[p].ids
    OBVIOUS
  <2>2. \A i : <<p, i>> \in urlSegments' <=> i \in classify[p].ids
    BY <1>1, <2>1, SegFacts
  <2> QED
    BY <1>1, <2>1, <2>2, AdmissionKeeps DEF MembersOf
<1>8. inventory \subseteq SegPages
  BY SegFacts DEF SegTypes
<1>9. ASSUME NEW r \in Reconcilers PROVE LoneOK(r)'
  <2>1. Busy = {r} => p \in late
    BY <1>1, SegFacts
  <2> QED
    BY <1>1, <1>6, <1>8, <2>1, SegFacts, AdmissionKeeps DEF LoneOK
<1>10. PublishedOK'
  <2> SUFFICES ASSUME Busy = {}, alone, registry # NoMatcher,
                      NEW q \in inventory \ late
               PROVE  /\ classify'[q].pc = "idle" => Classified(registry, q)'
                      /\ classify'[q].pc = "found" => classify'[q].ids = MatchIDs(registry, q)'
    BY <1>1, SegFacts, AdmissionKeeps DEF PublishedOK
  <2>1. \A m, u : MatchIDs(m, u)' = MatchIDs(m, u)
    BY DEF MatchIDs
  <2>2. CASE q # p
    BY <1>1, <1>2, <1>6, <1>8, <2>1, <2>2, SegFacts DEF PublishedOK
  <2>3. CASE q = p
    <3>1. Bound(registry) /\ classify[p].ids = MatchIDs(registry, p)
      BY <1>1, <2>3, SegFacts DEF PublishedOK
    <3>2. classify[p].ids \subseteq IDs
      BY <3>1, BoundIDs, SegFacts
    <3>3. MembersOf(p)' = MatchIDs(registry, p)
      BY <1>7, <3>1, <3>2
    <3> QED
      BY <1>1, <1>2, <2>1, <2>3, <3>3 DEF Classified
  <2> QED
    BY <2>2, <2>3
<1>11. Busy' # {} => \A q \in SegPages : classify'[q].pc # "idle" => q \in late'
  BY <1>1, <1>2, SegFacts, AdmissionKeeps
<1> QED
  BY <1>5, <1>9, <1>10, <1>11 DEF SegInv

-----------------------------------------------------------------------------
\* The steps of a reconcile.

LEMMA StepStart == ASSUME SegInv, NEW r \in Reconcilers, StartReconcile(r) PROVE SegInv'
<1> DEFINE w == [pc |-> IF segConfig = Uncompilable THEN "swap" ELSE "sync",
                 config |-> segConfig, matcher |-> NoMatcher, company |-> Busy # {}]
           next(q) == [reconcile[q] EXCEPT !.company = (q \in Busy)]
<1>1. /\ reconcile[r].pc = "idle"
      /\ reconcile' = [q \in Reconcilers |-> IF q = r THEN w ELSE next(q)]
      /\ late' = {p \in SegPages : classify[p].pc # "idle"}
      /\ UNCHANGED <<segConfig, segments, urlSegments, registry, inventory, classify, segSerial, alone>>
  BY DEF StartReconcile
<1>2. /\ w \in ReconcileState /\ w.pc \in {"sync", "swap"} /\ w.matcher = NoMatcher
      /\ (w.pc = "sync" => w.config \in SegConfigs) /\ (~w.company => Busy = {})
  <2>1. segConfig \in SegConfigs \cup {Uncompilable}
    BY SegFacts DEF SegTypes
  <2> QED
    BY <2>1 DEF ReconcileState, Matchers
<1>3. ASSUME NEW q \in Reconcilers
      PROVE  /\ next(q) \in ReconcileState /\ next(q).pc = reconcile[q].pc /\ next(q).config = reconcile[q].config
             /\ (next(q).pc # "idle" => next(q).company)
  <2> DEFINE busy == q \in Busy
  <2>1. busy \in BOOLEAN /\ (reconcile[q].pc # "idle" => busy = TRUE)
    BY DEF Busy
  <2>2. reconcile[q] \in ReconcileState /\ next(q) = [reconcile[q] EXCEPT !.company = busy]
    BY SegFacts
  <2> HIDE DEF next, busy
  <2> QED
    BY <2>1, <2>2 DEF ReconcileState
<1> HIDE DEF w, next
<1>4. /\ SegIDs' = SegIDs /\ IDs' = IDs /\ Matchers' = Matchers /\ ReconcileState' = ReconcileState
      /\ ClassifyState' = ClassifyState /\ Definition' = Definition
  BY <1>1 DEF IDs, SegIDs, Matchers, ReconcileState, ClassifyState, Definition
<1>5. /\ reconcile' \in [Reconcilers -> ReconcileState] /\ reconcile'[r] = w
      /\ \A q \in Reconcilers \ {r} : reconcile'[q] = next(q)
  BY <1>1, <1>2, <1>3
<1>6. SegTypes'
  BY <1>1, <1>2, <1>3, <1>4, <1>5 DEF SegInv, SegTypes
<1>7. r \in Busy' /\ (Busy = {} => Busy' = {r})
  BY <1>2, <1>3, <1>5 DEF Busy
<1>8. ASSUME NEW q \in Reconcilers PROVE LoneOK(q)'
  BY <1>2, <1>3, <1>5, <1>7 DEF LoneOK
<1>9. PublishedOK'
  BY <1>7 DEF PublishedOK
<1> QED
  BY <1>1, <1>6, <1>8, <1>9 DEF SegInv

\* Where r goes on with w, the types that the others have stay.
LEMMA RecGoesOn ==
  ASSUME SegInv, NEW r \in Reconcilers, reconcile[r].pc # "idle", NEW w,
         reconcile' = [reconcile EXCEPT ![r] = w], w \in ReconcileState',
         segSerial' \in Nat, segSerial <= segSerial', w.pc = "sync" => w.config \in SegConfigs,
         UNCHANGED <<segConfig, registry, inventory, classify>>, alone' \in BOOLEAN,
         segments' \subseteq Definition', \A d, e \in segments' : d.name = e.name => d = e,
         urlSegments' \subseteq inventory \X IDs'
  PROVE  SegTypes'
<1>1. SegIDs \subseteq SegIDs' /\ Matchers \subseteq Matchers'
  BY SegFacts, MatchersGrow
<1>2. ReconcileState \subseteq ReconcileState' /\ ClassifyState \subseteq ClassifyState'
  BY <1>1 DEF ReconcileState, ClassifyState
<1>3. reconcile' \in [Reconcilers -> ReconcileState']
  BY <1>2, SegFacts
<1>4. classify' \in [SegPages -> ClassifyState'] /\ registry' \in Matchers'
  BY <1>1, <1>2, SegFacts
<1>5. \A q \in Reconcilers : reconcile'[q].pc = "sync" => reconcile'[q].config \in SegConfigs
  BY SegFacts DEF SegTypes
<1> QED
  BY <1>3, <1>4, <1>5 DEF SegInv, SegTypes

LEMMA BusyStays ==
  ASSUME SegInv, NEW r \in Reconcilers, reconcile[r].pc # "idle", NEW w,
         reconcile' = [reconcile EXCEPT ![r] = w]
  PROVE  /\ w.pc # "idle" => Busy' = Busy /\ r \in Busy
         /\ w.pc = "idle" => Busy' = Busy \ {r}
         /\ Busy # {}
BY SegFacts DEF Busy

LEMMA StepSync == ASSUME SegInv, NEW r \in Reconcilers, SyncSiteSegments(r) PROVE SegInv'
<1> DEFINE config == reconcile[r].config
           kept == {d \in segments : d.name \in DOMAIN config}
           new == DOMAIN config \ {d.name : d \in segments}
           chosen(n) == CHOOSE d \in segments' : d.name = n
           matcher == [match |-> config, ids |-> [n \in DOMAIN config |-> chosen(n).id]]
           w == [reconcile[r] EXCEPT !.pc = "reclassify", !.matcher = matcher]
<1>1. PICK id \in [new -> segSerial + 1 .. segSerial + Cardinality(new)] :
          /\ \A m, n \in new : id[m] = id[n] => m = n
          /\ segments' = {[d EXCEPT !.rule = config[d.name]] : d \in kept} \cup
                         {[id |-> id[n], name |-> n, rule |-> config[n]] : n \in new}
  BY DEF SyncSiteSegments
<1>2. /\ reconcile[r].pc = "sync" /\ segSerial' = segSerial + Cardinality(new)
      /\ urlSegments' = {m \in urlSegments : \E d \in segments' : d.id = m[2]}
      /\ UNCHANGED <<segConfig, registry, inventory, classify, alone, late>>
      /\ reconcile' = [reconcile EXCEPT ![r].pc = "reclassify", ![r].matcher = matcher]
  BY DEF SyncSiteSegments
<1>3. /\ config \in SegConfigs /\ DOMAIN config \subseteq SegNames
      /\ \A n \in DOMAIN config : config[n] \subseteq SegPages
  BY <1>2, SegmentsAssumption DEF SegInv, SegTypes
<1>4. Cardinality(new) \in Nat /\ segSerial \in Nat
  <2>1. IsFiniteSet(new)
    BY <1>3, SegmentsAssumption, FS_Subset
  <2> QED
    BY <2>1, FS_CardinalityType, SegFacts
<1>5. segSerial' \in Nat /\ segSerial <= segSerial' /\ \A n \in new : id[n] \in SegIDs'
  BY <1>1, <1>2, <1>4 DEF SegIDs
<1>6. SegIDs \subseteq SegIDs' /\ Matchers \subseteq Matchers'
  BY <1>4, <1>5, MatchersGrow
<1>7. segments \subseteq Definition /\ \A d, e \in segments : d.name = e.name => d = e
  BY DEF SegInv, SegTypes
<1> HIDE DEF config
<1>8. ASSUME NEW d \in segments'
      PROVE  /\ d \in Definition' /\ d.name \in DOMAIN config /\ d.rule = config[d.name]
  <2>1. CASE \E n \in new : d = [id |-> id[n], name |-> n, rule |-> config[n]]
    BY <1>3, <1>5, <2>1 DEF Definition
  <2>2. ASSUME NEW e \in kept, d = [e EXCEPT !.rule = config[e.name]]
        PROVE  /\ d \in Definition' /\ d.name \in DOMAIN config /\ d.rule = config[d.name]
    BY <1>3, <1>6, <1>7, <2>2 DEF Definition
  <2> QED
    BY <1>1, <2>1, <2>2
<1>9. ASSUME NEW n \in DOMAIN config PROVE \E d \in segments' : d.name = n
  <2>1. CASE n \in new
    <3> DEFINE fresh == [id |-> id[n], name |-> n, rule |-> config[n]]
    <3>1. fresh.name = n /\ fresh \in segments'
      BY <1>1, <2>1
    <3> QED
      BY <3>1
  <2>2. CASE n \notin new
    <3>1. PICK e \in segments : e.name = n
      BY <2>2
    <3>2. e \in kept /\ [e EXCEPT !.rule = config[e.name]] \in segments'
      BY <1>1, <3>1
    <3>3. [e EXCEPT !.rule = config[e.name]].name = n
      BY <1>7, <3>1 DEF Definition
    <3> QED
      BY <3>2, <3>3
  <2> QED
    BY <2>1, <2>2
<1>10. ASSUME NEW d \in segments', NEW e \in segments', d.name = e.name PROVE d = e
  <2> DEFINE Old(x) == \E y \in kept : x = [y EXCEPT !.rule = config[y.name]] /\ x.name = y.name
             New(x) == \E n \in new : x = [id |-> id[n], name |-> n, rule |-> config[n]] /\ x.name = n
  <2>1. ASSUME NEW x \in segments' PROVE Old(x) \/ New(x)
    BY <1>1, <1>7 DEF Definition
  <2>2. \A x : Old(x) => x.name \notin new
    OBVIOUS
  <2>3. \A x : New(x) => x.name \in new
    OBVIOUS
  <2>4. CASE Old(d) /\ Old(e)
    BY <1>7, <1>10, <2>4
  <2>5. CASE New(d) /\ New(e)
    BY <1>10, <2>5
  <2> QED
    BY <1>10, <2>1, <2>2, <2>3, <2>4, <2>5
<1> HIDE DEF new, kept
<1>11. ASSUME NEW n \in DOMAIN config PROVE chosen(n) \in segments' /\ chosen(n).name = n
  BY <1>9
<1> HIDE DEF chosen
<1>12. matcher.match = config /\ matcher.ids = [n \in DOMAIN config |-> chosen(n).id]
  OBVIOUS
<1>13. matcher.ids \in [DOMAIN config -> SegIDs']
  BY <1>8, <1>11, <1>12 DEF Definition
<1>14. matcher \in Matchers'
  <2>1. matcher \in [match : {config}, ids : [DOMAIN config -> SegIDs']]
    BY <1>13
  <2> QED
    BY <1>3, <2>1 DEF Matchers
<1>15. {<<d.name, d.id, d.rule>> : d \in segments'} =
         {<<n, matcher.ids[n], matcher.match[n]>> : n \in DOMAIN matcher.match}
  <2>1. ASSUME NEW d \in segments'
        PROVE  d.name \in DOMAIN config /\ <<d.name, d.id, d.rule>> = <<d.name, matcher.ids[d.name], matcher.match[d.name]>>
    <3>1. chosen(d.name) = d /\ d.name \in DOMAIN config
      BY <1>8, <1>10, <1>11
    <3> QED
      BY <1>8, <1>12, <3>1
  <2>2. ASSUME NEW n \in DOMAIN config
        PROVE  \E d \in segments' : <<n, matcher.ids[n], matcher.match[n]>> = <<d.name, d.id, d.rule>>
    BY <1>8, <1>11, <1>12
  <2>3. DOMAIN matcher.match = DOMAIN config
    BY <1>12
  <2> HIDE DEF matcher
  <2> QED
    BY <2>1, <2>2, <2>3
<1> HIDE DEF matcher
<1>16. reconcile[r] \in ReconcileState /\ reconcile' = [reconcile EXCEPT ![r] = w]
  BY <1>2, SegFacts
<1>17. w \in ReconcileState' /\ w.pc = "reclassify" /\ w.matcher = matcher
  BY <1>6, <1>14, <1>16 DEF ReconcileState
<1> HIDE DEF w
<1>18. urlSegments' \subseteq inventory \X IDs'
  BY <1>2, SegFacts DEF IDs
<1>19. SegTypes'
  BY <1>2, <1>5, <1>8, <1>10, <1>16, <1>17, <1>18, RecGoesOn, SegFacts DEF SegInv, SegTypes
<1>20. Busy' = Busy /\ r \in Busy
  BY <1>2, <1>16, <1>17, BusyStays
<1>21. ASSUME NEW q \in Reconcilers PROVE LoneOK(q)'
  <2>1. CASE q # r
    BY <1>2, <1>16, <2>1, OthersNotLone
  <2>2. CASE q = r
    <3>1. reconcile'[r] = w /\ w.company = reconcile[r].company
      BY <1>16, SegFacts DEF w, ReconcileState
    <3>2. ~w.company => Busy' = {r}
      BY <1>2, <1>20, <3>1, SegFacts DEF LoneOK
    <3> QED
      BY <1>15, <1>17, <2>2, <3>1, <3>2 DEF LoneOK, Bound
  <2> QED
    BY <2>1, <2>2
<1>22. PublishedOK'
  BY <1>20 DEF PublishedOK
<1>23. Busy' # {} => \A p \in SegPages : classify'[p].pc # "idle" => p \in late'
  BY <1>2, <1>20, SegFacts
<1> QED
  BY <1>19, <1>21, <1>22, <1>23 DEF SegInv

LEMMA NotReconcilingTyped ==
  NotReconciling \in ReconcileState /\ NotReconciling.pc = "idle"
BY DEF NotReconciling, ReconcileState, Matchers

\* A reconcile that ends without a new matcher.
LEMMA StepGivesUp ==
  ASSUME SegInv, NEW r \in Reconcilers, reconcile[r].pc # "idle",
         reconcile' = [reconcile EXCEPT ![r] = NotReconciling], alone' = FALSE,
         UNCHANGED <<segConfig, segments, urlSegments, registry, inventory, classify, segSerial, late>>
  PROVE  SegInv'
<1>1. /\ SegIDs' = SegIDs /\ IDs' = IDs /\ Matchers' = Matchers /\ ReconcileState' = ReconcileState
      /\ ClassifyState' = ClassifyState /\ Definition' = Definition
  BY DEF IDs, SegIDs, Matchers, ReconcileState, ClassifyState, Definition
<1>2. SegTypes'
  <2>1. segSerial \in Nat /\ segSerial <= segSerial
    BY SegFacts
  <2> QED
    BY <1>1, <2>1, NotReconcilingTyped, RecGoesOn DEF SegInv, SegTypes
<1>3. Busy' = Busy \ {r}
  BY BusyStays, NotReconcilingTyped
<1>4. ASSUME NEW q \in Reconcilers PROVE LoneOK(q)'
  <2>1. CASE q # r
    BY <2>1, OthersNotLone
  <2>2. CASE q = r
    BY <2>2, NotReconcilingTyped, SegFacts DEF LoneOK
  <2> QED
    BY <2>1, <2>2
<1>5. PublishedOK'
  BY DEF PublishedOK
<1>6. Busy' # {} => \A p \in SegPages : classify'[p].pc # "idle" => p \in late'
  BY <1>3, SegFacts
<1> QED
  BY <1>2, <1>4, <1>5, <1>6 DEF SegInv

LEMMA StepReclassify == ASSUME SegInv, NEW r \in Reconcilers, ReclassifySite(r) PROVE SegInv'
<1> DEFINE matcher == reconcile[r].matcher
           members == Membership(matcher)
           w == [reconcile[r] EXCEPT !.pc = "swap"]
<1>1. /\ reconcile[r].pc = "reclassify"
      /\ UNCHANGED <<segConfig, segments, registry, inventory, classify, segSerial, late>>
      /\ \/ /\ \A m \in members : m[2] \in IDs
            /\ urlSegments' = members /\ alone' = alone
            /\ reconcile' = [reconcile EXCEPT ![r].pc = "swap"]
         \/ /\ reconcile' = [reconcile EXCEPT ![r] = NotReconciling]
            /\ alone' = FALSE /\ UNCHANGED urlSegments
  BY DEF ReclassifySite
<1>2. CASE reconcile' = [reconcile EXCEPT ![r] = NotReconciling] /\ alone' = FALSE /\ UNCHANGED urlSegments
  BY <1>1, <1>2, StepGivesUp
<1>3. CASE /\ \A m \in members : m[2] \in IDs
           /\ urlSegments' = members /\ alone' = alone
           /\ reconcile' = [reconcile EXCEPT ![r].pc = "swap"]
  <2>1. /\ SegIDs' = SegIDs /\ IDs' = IDs /\ Matchers' = Matchers /\ ReconcileState' = ReconcileState
        /\ Definition' = Definition
    BY <1>1 DEF IDs, SegIDs, Matchers, ReconcileState, Definition
  <2>2. reconcile[r] \in ReconcileState /\ reconcile' = [reconcile EXCEPT ![r] = w]
    BY <1>3, SegFacts
  <2>3. /\ w \in ReconcileState /\ w.pc = "swap" /\ w.matcher = matcher
        /\ w.company = reconcile[r].company /\ matcher \in Matchers
    BY <2>2 DEF ReconcileState
  <2> HIDE DEF w
  <2>4. urlSegments' \subseteq inventory' \X IDs'
    BY <1>1, <1>3, <2>1 DEF Membership
  <2>5. SegTypes'
    <3>1. segSerial' \in Nat /\ segSerial <= segSerial' /\ w \in ReconcileState' /\ (w.pc = "sync" => w.config \in SegConfigs)
      BY <1>1, <2>1, <2>3, SegFacts
    <3>2. /\ segments' \subseteq Definition' /\ \A d, e \in segments' : d.name = e.name => d = e
          /\ alone' \in BOOLEAN /\ urlSegments' \subseteq inventory \X IDs'
      BY <1>1, <1>3, <2>1, <2>4 DEF SegInv, SegTypes
    <3> QED
      BY <1>1, <2>2, <3>1, <3>2, RecGoesOn
  <2>6. Busy' = Busy /\ r \in Busy
    BY <1>1, <2>2, <2>3, BusyStays
  <2>7. ASSUME NEW p \in inventory
        PROVE  \A i : i \in MatchIDs(matcher, p) <=> i \in IDs' /\ <<p, i>> \in urlSegments'
    <3>1. MatchIDs(matcher, p) \subseteq SegIDs
      BY <2>3, MatchIDsTyped
    <3>2. \A i : <<p, i>> \in members <=> i \in MatchIDs(matcher, p)
      BY <3>1 DEF Membership, SegIDs
    <3>3. ASSUME NEW i \in MatchIDs(matcher, p) PROVE i \in IDs
      <4>1. <<p, i>> \in members /\ <<p, i>>[2] = i
        BY <3>2
      <4> HIDE DEF members
      <4> QED
        BY <1>3, <4>1
    <3> QED
      BY <1>3, <2>1, <3>2, <3>3
  <2>8. ASSUME NEW q \in Reconcilers PROVE LoneOK(q)'
    <3>1. CASE q # r
      BY <1>1, <2>2, <3>1, OthersNotLone
    <3>2. CASE q = r
      <4>1. reconcile'[r] = w
        BY <2>2, SegFacts
      <4>2. ~w.company => Busy' = {r} /\ (matcher # NoMatcher => Bound(matcher))
        BY <1>1, <2>3, <2>6, SegFacts DEF LoneOK
      <4>3. Bound(matcher) => {<<d.name, d.id, d.rule>> : d \in segments'} =
                {<<n, matcher.ids[n], matcher.match[n]>> : n \in DOMAIN matcher.match}
        BY <1>1 DEF Bound
      <4>4. \A p \in inventory' : {i \in IDs' : <<p, i>> \in urlSegments'} = MatchIDs(matcher, p)
        BY <1>1, <2>7
      <4> HIDE DEF matcher
      <4>5. SUFFICES ASSUME ~w.company, matcher # NoMatcher
                     PROVE  /\ Bound(reconcile[r].matcher)'
                            /\ \A p \in inventory' : Classified(reconcile[r].matcher, p)'
        BY <2>3, <3>2, <4>1, <4>2 DEF LoneOK
      <4>6. Bound(reconcile[r].matcher)'
        BY <2>3, <4>1, <4>2, <4>3, <4>5 DEF Bound
      <4>7. \A p \in inventory' : Classified(reconcile[r].matcher, p)'
        BY <2>3, <4>1, <4>4 DEF Classified, MembersOf, MatchIDs
      <4> QED
        BY <4>6, <4>7
    <3> QED
      BY <3>1, <3>2
  <2>9. PublishedOK'
    BY <2>6 DEF PublishedOK
  <2>10. Busy' # {} => \A p \in SegPages : classify'[p].pc # "idle" => p \in late'
    BY <1>1, <2>6, SegFacts
  <2> QED
    BY <2>5, <2>8, <2>9, <2>10 DEF SegInv
<1> QED
  BY <1>1, <1>2, <1>3

LEMMA StepFails == ASSUME SegInv, NEW r \in Reconcilers, ReconcileFails(r) PROVE SegInv'
<1>1. /\ reconcile[r].pc # "idle" /\ reconcile' = [reconcile EXCEPT ![r] = NotReconciling] /\ alone' = FALSE
      /\ UNCHANGED <<segConfig, segments, urlSegments, registry, inventory, classify, segSerial, late>>
  BY DEF ReconcileFails
<1> QED
  BY <1>1, StepGivesUp

LEMMA StepSwap == ASSUME SegInv, NEW r \in Reconcilers, Swap(r) PROVE SegInv'
<1> DEFINE matcher == reconcile[r].matcher
<1>1. /\ reconcile[r].pc = "swap" /\ registry' = matcher
      /\ reconcile' = [reconcile EXCEPT ![r] = NotReconciling] /\ alone' = ~reconcile[r].company
      /\ UNCHANGED <<segConfig, segments, urlSegments, inventory, classify, segSerial, late>>
  BY DEF Swap
<1>2. /\ SegIDs' = SegIDs /\ IDs' = IDs /\ Matchers' = Matchers /\ ReconcileState' = ReconcileState
      /\ ClassifyState' = ClassifyState /\ Definition' = Definition
  BY <1>1 DEF IDs, SegIDs, Matchers, ReconcileState, ClassifyState, Definition
<1>3. matcher \in Matchers /\ reconcile[r].company \in BOOLEAN
  BY SegFacts DEF ReconcileState
<1>4. /\ reconcile' \in [Reconcilers -> ReconcileState] /\ reconcile'[r] = NotReconciling
      /\ \A q \in Reconcilers \ {r} : reconcile'[q] = reconcile[q]
  BY <1>1, NotReconcilingTyped, SegFacts
<1>5. SegTypes'
  <2>1. \A q \in Reconcilers : reconcile'[q].pc = "sync" => reconcile'[q].config \in SegConfigs
    BY <1>4, NotReconcilingTyped DEF SegInv, SegTypes
  <2>2. alone' \in BOOLEAN /\ registry' \in Matchers'
    BY <1>1, <1>2, <1>3
  <2> QED
    BY <1>1, <1>2, <1>4, <2>1, <2>2 DEF SegInv, SegTypes
<1>6. Busy # {} /\ Busy' = Busy \ {r}
  BY <1>1, BusyStays, NotReconcilingTyped
<1>7. ASSUME NEW q \in Reconcilers PROVE LoneOK(q)'
  <2>1. CASE q # r
    BY <1>1, <2>1, OthersNotLone
  <2>2. CASE q = r
    BY <1>4, <2>2, NotReconcilingTyped DEF LoneOK
  <2> QED
    BY <2>1, <2>2
<1>8. \A m, p : /\ Bound(m)' <=> Bound(m)
                /\ Classified(m, p)' <=> Classified(m, p)
  BY <1>1, <1>2 DEF Bound, Classified, MembersOf, MatchIDs
<1>9. PublishedOK'
  <2> SUFFICES ASSUME ~reconcile[r].company, matcher # NoMatcher
               PROVE  /\ Bound(matcher)
                      /\ \A p \in inventory \ late : Classified(matcher, p) /\ classify[p].pc # "found"
    <3>1. \A p : classify'[p] = classify[p]
      BY <1>1
    <3>2. registry' = matcher /\ inventory' = inventory /\ late' = late /\ alone' = ~reconcile[r].company
      BY <1>1
    <3> HIDE DEF matcher
    <3>3. Bound(matcher) => {<<d.name, d.id, d.rule>> : d \in segments'} =
              {<<n, matcher.ids[n], matcher.match[n]>> : n \in DOMAIN matcher.match}
      BY <1>1 DEF Bound
    <3>4. \A p : Classified(matcher, p) => {i \in IDs' : <<p, i>> \in urlSegments'} = MatchIDs(matcher, p)
      BY <1>1, <1>2 DEF Classified, MembersOf
    <3>5. SUFFICES ASSUME Busy' = {}, ~reconcile[r].company, matcher # NoMatcher
                   PROVE  /\ Bound(registry)'
                          /\ \A p \in inventory \ late :
                               Classified(registry, p)' /\ classify'[p].pc # "found"
      BY <3>1, <3>2 DEF PublishedOK
    <3>6. Bound(registry)'
      BY <3>2, <3>3, <3>5 DEF Bound
    <3>7. \A p \in inventory \ late : Classified(registry, p)'
      BY <3>2, <3>4, <3>5 DEF Classified, MembersOf, MatchIDs
    <3> QED
      BY <3>1, <3>5, <3>6, <3>7
  <2>1. Bound(matcher) /\ \A p \in inventory \ late : Classified(matcher, p)
    BY <1>1, SegFacts DEF LoneOK
  <2>2. ASSUME NEW p \in inventory \ late PROVE classify[p].pc # "found"
    BY <1>6, SegFacts DEF SegInv, SegTypes
  <2> QED
    BY <2>1, <2>2
<1>10. Busy' # {} => \A p \in SegPages : classify'[p].pc # "idle" => p \in late'
  BY <1>1, <1>6, SegFacts
<1> QED
  BY <1>5, <1>7, <1>9, <1>10 DEF SegInv

LEMMA SegStutters == SegInv /\ UNCHANGED segmentVars => SegInv'
<1> SUFFICES ASSUME SegInv, UNCHANGED segmentVars PROVE SegInv'
  OBVIOUS
<1>1. UNCHANGED <<segConfig, segments, urlSegments, registry, inventory, reconcile, classify, segSerial, alone, late>>
  BY DEF segmentVars
<1>2. /\ SegIDs' = SegIDs /\ IDs' = IDs /\ Busy' = Busy /\ Matchers' = Matchers /\ ReconcileState' = ReconcileState
      /\ ClassifyState' = ClassifyState /\ Definition' = Definition
  BY <1>1 DEF IDs, Busy, SegIDs, Matchers, ReconcileState, ClassifyState, Definition
<1>3. SegTypes'
  BY <1>1, <1>2 DEF SegInv, SegTypes
<1>4. \A m : Bound(m)' <=> Bound(m)
  BY <1>1 DEF Bound
<1>5. \A m, p : Classified(m, p)' <=> Classified(m, p)
  BY <1>1, <1>2 DEF Classified, MembersOf
<1>6. ASSUME NEW r \in Reconcilers PROVE LoneOK(r)'
  BY <1>1, <1>2, <1>4, <1>5 DEF SegInv, LoneOK
<1>7. PublishedOK'
  BY <1>1, <1>2, <1>4, <1>5 DEF SegInv, PublishedOK
<1> QED
  BY <1>1, <1>2, <1>3, <1>6, <1>7 DEF SegInv

LEMMA SegInductive == SegInv /\ [SegmentsNext]_segmentVars => SegInv'
BY StepEdit, StepStart, StepSync, StepReclassify, StepFails, StepSwap, StepUpsert, StepFind, StepSet,
   SegStutters DEF SegmentsNext

LEMMA SegTyped == SegInv => SegmentsTypeOK
<1> SUFFICES ASSUME SegInv PROVE SegmentsTypeOK
  OBVIOUS
<1>1. \A d \in segments : d.id \in 1..segSerial /\ d.name \in SegNames /\ d.rule \subseteq SegPages
  BY DEF SegInv, SegTypes, Definition, SegIDs
<1>2. \A r \in Reconcilers :
        /\ reconcile[r].pc \in {"idle", "sync", "reclassify", "swap"}
        /\ reconcile[r].matcher \in Matchers
  BY SegFacts DEF ReconcileState
<1>3. \A p \in SegPages : classify[p].pc \in {"idle", "new", "found"} /\ classify[p].ids \subseteq 1..segSerial
  BY SegFacts DEF ClassifyState, SegIDs
<1> QED
  BY <1>1, <1>2, <1>3 DEF SegInv, SegTypes, SegmentsTypeOK, Matchers, SegIDs

(* The tables of the segments, the registry and the running reconciles keep their
   shapes: a definition's id was given out, a name is in the table once, and a
   membership is of a page of the inventory in a segment of the table. *)
THEOREM SegmentsTypeCorrect == SegmentsSpec => []SegmentsTypeOK
  BY SegTyped, SegInitially, SegInductive, PTL DEF SegmentsSpec

(* After a reconcile that ran alone and was published, whatever failed or crossed
   before it: the registry is bound to the definitions of the table, and every page
   but those whose admission met the reconcile is in exactly the segments whose
   pattern matches it. *)
THEOREM SegmentsSettleCorrect == SegmentsSpec => []SegmentsSettle
<1>1. SegInv => SegmentsSettle
  BY DEF SegInv, PublishedOK, SegmentsSettle, Bound, Classified
<1> QED
  BY <1>1, SegInitially, SegInductive, PTL DEF SegmentsSpec

-----------------------------------------------------------------------------
(* Retention: the sweep beside the crawls whose snapshots it prunes.       *)

RowShape == [id : 1..MaxRows, of : Pages, at : 0..MaxClock, html : BOOLEAN]
FileShape == [id : 1..MaxFiles, of : FileKinds, at : 0..MaxClock]
ReadShape == [pc : {"idle", "read", "saved"}, at : 0..MaxClock, id : 0..MaxRows, first : BOOLEAN]
PruneShape == [pc : {"idle", "html", "rows", "files"}, cutoff : -SnapshotMaxAge..MaxClock]

\* A row has an id that no other one has and that was given already.
RowsApart ==
  /\ IsFiniteSet(snapshots) /\ IsFiniteSet(files)
  /\ \A r \in snapshots : r.id <= serial.rows
  /\ \A r, s \in snapshots : r.id = s.id => r = s

\* The clock is behind the time of a sweep by what it was set back, and a crawl is
\* younger than what a sweep deletes.
SweepsBehind ==
  /\ \A s \in Pruners : prune[s].pc # "idle" => prune[s].cutoff + SnapshotMaxAge <= dbClock + backs
  /\ \A u \in Pages : reading[u].pc # "idle" => dbClock <= reading[u].at + SnapshotMaxAge - MaxBack
  /\ \A u \in Pages, s \in Pruners : reading[u].pc # "idle" /\ prune[s].pc # "idle" =>
       prune[s].cutoff <= reading[u].at

CutoffsBehind == SnapshotMaxAge > 0 => SweepsBehind

\* The snapshot of a crawl under way, and the body of the newest one.
RowsKept ==
  /\ \A s \in Pruners : prune[s].pc = "rows" => SnapshotMaxAge > 0
  /\ \A u \in Pages : reading[u].pc = "saved" =>
       \E r \in snapshots : r.id = reading[u].id /\ r.at = reading[u].at
  /\ \A u \in Pages : \A r \in LatestSnapshot(u) : r.html

RetentionInv == RetentionTypeOK /\ RowsApart /\ CutoffsBehind /\ RowsKept

-----------------------------------------------------------------------------
\* The newest of some rows are among the newest of more, or with more kept.
LEMMA NewestGrows ==
  ASSUME NEW rows, IsFiniteSet(rows), NEW few \in Nat, NEW many \in Nat, few <= many,
         NEW left \in SUBSET rows
  PROVE  /\ Newest(few, rows) \subseteq Newest(many, rows)
         /\ Newest(many, rows) \cap left \subseteq Newest(many, left)
<1>1. ASSUME NEW r
      PROVE  /\ Cardinality({s \in rows : Newer(s, r)}) \in Nat
             /\ Cardinality({s \in left : Newer(s, r)}) \in Nat
             /\ Cardinality({s \in left : Newer(s, r)}) <= Cardinality({s \in rows : Newer(s, r)})
  <2> DEFINE all == {s \in rows : Newer(s, r)}
             rest == {s \in left : Newer(s, r)}
  <2>1. all \subseteq rows /\ rest \subseteq all
    OBVIOUS
  <2> HIDE DEF all, rest
  <2>2. IsFiniteSet(all) /\ IsFiniteSet(rest) /\ Cardinality(rest) <= Cardinality(all)
    BY <2>1, FS_Subset
  <2> QED
    BY <2>2, FS_CardinalityType DEF all, rest
<1> DEFINE all(r) == Cardinality({s \in rows : Newer(s, r)})
           rest(r) == Cardinality({s \in left : Newer(s, r)})
<1>2. \A r : all(r) \in Nat /\ rest(r) \in Nat /\ rest(r) <= all(r)
  BY <1>1
<1>3. /\ Newest(few, rows) = {r \in rows : all(r) < few} /\ Newest(many, rows) = {r \in rows : all(r) < many}
      /\ Newest(many, left) = {r \in left : rest(r) < many}
  BY DEF Newest
<1> HIDE DEF all, rest
<1>4. \A r : (all(r) < few => all(r) < many) /\ (all(r) < many => rest(r) < many)
  BY <1>2
<1> QED
  BY <1>3, <1>4

\* The newest of all is what nothing is newer than.
LEMMA NewestOne ==
  ASSUME NEW rows, IsFiniteSet(rows)
  PROVE  Newest(1, rows) = {r \in rows : \A s \in rows : ~Newer(s, r)}
<1>1. ASSUME NEW r
      PROVE  Cardinality({s \in rows : Newer(s, r)}) < 1 <=> \A s \in rows : ~Newer(s, r)
  <2> DEFINE all == {s \in rows : Newer(s, r)}
  <2>1. all \subseteq rows
    OBVIOUS
  <2>2. all = {} <=> \A s \in rows : ~Newer(s, r)
    OBVIOUS
  <2> HIDE DEF all
  <2>3. IsFiniteSet(all)
    BY <2>1, FS_Subset
  <2>4. Cardinality(all) \in Nat /\ (Cardinality(all) = 0 <=> all = {})
    BY <2>3, FS_CardinalityType, FS_EmptySet
  <2>5. Cardinality(all) < 1 <=> all = {}
    BY <2>4
  <2> QED
    BY <2>2, <2>5 DEF all
<1> QED
  BY <1>1 DEF Newest

\* Times and ids are numbers.
Dated(rows) == \A r \in rows : r.at \in Int /\ r.id \in Int

\* Some row is the newest.
LEMMA NewestExists ==
  ASSUME NEW rows, IsFiniteSet(rows), Dated(rows), rows # {}
  PROVE  \E r \in rows : \A s \in rows : ~Newer(s, r)
<1> DEFINE above(r) == {s \in rows : Newer(s, r)}
           count(r) == Cardinality(above(r))
           D == {count(r) : r \in rows}
<1>1. ASSUME NEW r \in rows PROVE IsFiniteSet(above(r)) /\ count(r) \in Nat
  <2>1. above(r) \subseteq rows
    OBVIOUS
  <2> HIDE DEF above
  <2> QED
    BY <2>1, FS_Subset, FS_CardinalityType
<1>2. ASSUME NEW r \in rows, NEW s \in rows, Newer(s, r) PROVE count(s) < count(r)
  <2>1. above(s) \subseteq above(r) /\ s \in above(r) /\ s \notin above(s)
    BY <1>2 DEF Newer, Dated
  <2>2. IsFiniteSet(above(r)) /\ count(r) \in Nat /\ count(s) \in Nat
    BY <1>1
  <2> HIDE DEF above
  <2>3. count(s) <= count(r) /\ (count(s) = count(r) => above(s) = above(r))
    BY <2>1, <2>2, FS_Subset
  <2> QED
    BY <2>1, <2>2, <2>3
<1> HIDE DEF above, count
<1>3. D \subseteq Nat /\ D # {}
  BY <1>1
<1>4. PICK d \in D : \A e \in D : ~(e < d)
  <2>1. \E d \in D : \A e \in D : <<e, d>> \notin OpToRel(<, Nat)
    BY <1>3, NatLessThanWellFounded, WFMin
  <2> QED
    BY <1>3, <2>1 DEF OpToRel
<1>5. PICK r \in rows : count(r) = d
  BY <1>4
<1>6. ASSUME NEW s \in rows, Newer(s, r) PROVE FALSE
  BY <1>2, <1>4, <1>5, <1>6
<1> QED
  BY <1>5, <1>6

-----------------------------------------------------------------------------
\* What the bounds say.
LEMMA RetentionNats ==
  /\ {RawHTMLKeep, FileSnapshotsKeep, SnapshotMaxAge, MaxRows, MaxFiles, MaxClock, MaxBack} \subseteq Nat
  /\ Chunk \in Nat /\ Chunk > 0
  /\ SnapshotMaxAge > 0 => MaxBack < SnapshotMaxAge
  /\ Least(RawHTMLKeep, 1) \in Nat /\ 1 <= Least(RawHTMLKeep, 1)
  /\ Least(FileSnapshotsKeep, 2) \in Nat /\ 2 <= Least(FileSnapshotsKeep, 2)
BY RetentionAssumption DEF Least

\* The rows of a page are finitely many, with a time and an id each.
LEMMA RowsOfPage ==
  ASSUME RetentionTypeOK, RowsApart, NEW u
  PROVE  /\ OfPage(u) \subseteq snapshots /\ IsFiniteSet(OfPage(u)) /\ Dated(OfPage(u))
         /\ LatestSnapshot(u) = {r \in OfPage(u) : \A s \in OfPage(u) : ~Newer(s, r)}
<1>1. OfPage(u) \subseteq snapshots
  BY DEF OfPage
<1>2. IsFiniteSet(OfPage(u))
  BY <1>1, FS_Subset DEF RowsApart
<1>3. Dated(OfPage(u))
  BY <1>1, RetentionNats DEF Dated, RetentionTypeOK
<1> QED
  BY <1>1, <1>2, <1>3, NewestOne DEF LatestSnapshot

\* Where no row goes and none comes, the latest snapshot stays the latest one.
LEMMA LatestStays ==
  ASSUME RetentionTypeOK, RowsApart, (RetentionTypeOK)', (RowsApart)', NEW u \in Pages,
         snapshots' \subseteq snapshots,
         \A r \in snapshots \ snapshots' : r \notin LatestSnapshot(r.of)
  PROVE  LatestSnapshot(u)' = LatestSnapshot(u)
<1>1. OfPage(u)' \subseteq OfPage(u)
  BY DEF OfPage
<1>2. /\ LatestSnapshot(u) = {r \in OfPage(u) : \A s \in OfPage(u) : ~Newer(s, r)}
      /\ IsFiniteSet(OfPage(u)) /\ Dated(OfPage(u)) /\ OfPage(u) \subseteq snapshots
  BY RowsOfPage
<1>3. LatestSnapshot(u)' = {r \in OfPage(u)' : \A s \in OfPage(u)' : ~Newer(s, r)}
  <2>1. IsFiniteSet(OfPage(u)')
    BY <1>1, <1>2, FS_Subset
  <2>2. LatestSnapshot(u)' = Newest(1, OfPage(u)')
    BY DEF LatestSnapshot
  <2> QED
    BY <2>1, <2>2, NewestOne
<1>4. LatestSnapshot(u) \subseteq OfPage(u)'
  <2>1. ASSUME NEW r \in LatestSnapshot(u) PROVE r.of = u /\ r \in snapshots
    BY <1>2 DEF OfPage
  <2> QED
    BY <2>1 DEF OfPage
<1>5. ASSUME NEW r \in LatestSnapshot(u)' PROVE r \in LatestSnapshot(u)
  <2>1. r \in OfPage(u)
    BY <1>1, <1>3
  <2>2. PICK top \in OfPage(u) : \A s \in OfPage(u) : ~Newer(s, top)
    BY <1>2, <2>1, NewestExists
  <2>3. top \in OfPage(u)' /\ ~Newer(top, r) /\ ~Newer(r, top)
    BY <1>2, <1>3, <1>4, <2>1, <2>2
  <2>4. r.id = top.id
    BY <1>2, <2>1, <2>3 DEF Newer, Dated
  <2>5. r = top
    BY <1>2, <2>1, <2>2, <2>4 DEF RowsApart
  <2> QED
    BY <1>2, <2>2, <2>5
<1> QED
  BY <1>1, <1>2, <1>3, <1>4, <1>5

\* Nothing is there at first.
LEMMA RetentionInitially == RetentionInit => RetentionInv
<1> SUFFICES ASSUME RetentionInit PROVE RetentionInv
  OBVIOUS
<1>1. RetentionTypeOK
  BY RetentionNats DEF RetentionInit, RetentionTypeOK, NotReading, NotPruning
<1>2. RowsApart
  BY FS_EmptySet DEF RetentionInit, RowsApart
<1>3. CutoffsBehind
  BY DEF RetentionInit, CutoffsBehind, SweepsBehind, NotReading, NotPruning
<1>4. RowsKept
  BY DEF RetentionInit, RowsKept, NotReading, NotPruning, LatestSnapshot, Newest, OfPage
<1> QED
  BY <1>1, <1>2, <1>3, <1>4 DEF RetentionInv

\* The types.
LEMMA RetentionTyped == RetentionTypeOK /\ [RetentionNext]_retentionVars => RetentionTypeOK'
<1> SUFFICES ASSUME RetentionTypeOK, [RetentionNext]_retentionVars PROVE RetentionTypeOK'
  OBVIOUS
<1>0. /\ snapshots \in SUBSET RowShape /\ changes \in SUBSET (1..MaxRows) /\ files \in SUBSET FileShape
      /\ reading \in [Pages -> ReadShape] /\ prune \in [Pruners -> PruneShape]
      /\ serial \in [rows : 0..MaxRows, files : 0..MaxFiles]
      /\ dbClock \in 0..MaxClock /\ backs \in 0..MaxBack
  BY DEF RetentionTypeOK, RowShape, FileShape, ReadShape, PruneShape
<1> SUFFICES
         /\ snapshots' \in SUBSET RowShape /\ changes' \in SUBSET (1..MaxRows) /\ files' \in SUBSET FileShape
         /\ reading' \in [Pages -> ReadShape] /\ prune' \in [Pruners -> PruneShape]
         /\ serial' \in [rows : 0..MaxRows, files : 0..MaxFiles]
         /\ dbClock' \in 0..MaxClock /\ backs' \in 0..MaxBack
  BY DEF RetentionTypeOK, RowShape, FileShape, ReadShape, PruneShape
<1>1. CASE UNCHANGED retentionVars
  BY <1>0, <1>1 DEF retentionVars
<1>2. CASE \E u \in Pages : ReadLatest(u)
  BY <1>0, <1>2, RetentionNats DEF ReadLatest, ReadShape
<1>3. ASSUME NEW u \in Pages, SavePageSnapshot(u)
      PROVE  /\ snapshots' \in SUBSET RowShape /\ reading' \in [Pages -> ReadShape]
             /\ serial' \in [rows : 0..MaxRows, files : 0..MaxFiles]
             /\ UNCHANGED <<changes, files, prune, dbClock, backs>>
  <2> DEFINE n == serial.rows + 1
  <2>1. /\ n \in 1..MaxRows /\ serial' = [serial EXCEPT !.rows = n] /\ serial'.rows = n
        /\ reading[u] \in ReadShape
    BY <1>0, <1>3, RetentionNats DEF SavePageSnapshot
  <2>2. /\ snapshots' = snapshots \cup {[id |-> n, of |-> u, at |-> reading[u].at, html |-> TRUE]}
        /\ reading' = [reading EXCEPT ![u].pc = "saved", ![u].id = n]
    BY <1>3, <2>1 DEF SavePageSnapshot
  <2> HIDE DEF n
  <2>3. [id |-> n, of |-> u, at |-> reading[u].at, html |-> TRUE] \in RowShape
    BY <2>1 DEF RowShape, ReadShape
  <2>4. [reading[u] EXCEPT !.pc = "saved", !.id = n] \in ReadShape
    <3>1. n \in 0..MaxRows
      BY <2>1, RetentionNats
    <3> QED
      BY <2>1, <3>1 DEF ReadShape
  <2>5. reading' = [reading EXCEPT ![u] = [reading[u] EXCEPT !.pc = "saved", !.id = n]]
    BY <1>0, <2>2
  <2>6. serial' \in [rows : 0..MaxRows, files : 0..MaxFiles]
    BY <1>0, <2>1, RetentionNats
  <2>7. UNCHANGED <<changes, files, prune, dbClock, backs>>
    BY <1>3 DEF SavePageSnapshot
  <2>8. reading' \in [Pages -> ReadShape]
    BY <1>0, <2>4, <2>5
  <2> QED
    BY <1>0, <2>2, <2>3, <2>6, <2>7, <2>8
<1>4. ASSUME NEW u \in Pages, RecordChanges(u) \/ CrawlEnds(u)
      PROVE  /\ changes' \in SUBSET (1..MaxRows) /\ reading' \in [Pages -> ReadShape]
             /\ UNCHANGED <<snapshots, files, prune, serial, dbClock, backs>>
  <2>1. NotReading \in ReadShape
    BY RetentionNats DEF NotReading, ReadShape
  <2>2. RecordChanges(u) => reading[u].id \in 1..MaxRows
    BY <1>0 DEF RecordChanges, RowShape
  <2> QED
    BY <1>0, <1>4, <2>1, <2>2 DEF RecordChanges, CrawlEnds
<1>5. CASE \E k \in FileKinds : SaveFileSnapshot(k)
  <2>1. PICK k \in FileKinds : SaveFileSnapshot(k)
    BY <1>5
  <2>2. /\ serial.files + 1 \in 1..MaxFiles /\ serial' = [serial EXCEPT !.files = @ + 1]
        /\ serial'.files = serial.files + 1
    BY <1>0, <2>1, RetentionNats DEF SaveFileSnapshot
  <2>3. [id |-> serial'.files, of |-> k, at |-> dbClock] \in FileShape
    BY <1>0, <2>2 DEF FileShape
  <2>4. serial' \in [rows : 0..MaxRows, files : 0..MaxFiles]
    BY <1>0, <2>2, RetentionNats
  <2> QED
    BY <1>0, <2>1, <2>3, <2>4 DEF SaveFileSnapshot
<1>6. ASSUME NEW s \in Pruners, NEW pc \in {"files", "rows"}, prune' = [prune EXCEPT ![s].pc = pc]
      PROVE  prune' \in [Pruners -> PruneShape]
  BY <1>0, <1>6 DEF PruneShape
<1>7. CASE \E s \in Pruners : StartSweep(s)
  <2>1. PICK s \in Pruners : StartSweep(s)
    BY <1>7
  <2>2. [pc |-> "html", cutoff |-> dbClock - SnapshotMaxAge] \in PruneShape
    BY <1>0, RetentionNats DEF PruneShape
  <2> QED
    BY <1>0, <2>1, <2>2 DEF StartSweep
<1>8. ASSUME NEW s \in Pruners, NullStaleRawHTML(s)
      PROVE  /\ snapshots' \in SUBSET RowShape /\ prune' \in [Pruners -> PruneShape]
             /\ UNCHANGED <<changes, files, reading, serial, dbClock, backs>>
  <2>1. \A r \in snapshots : \A b \in BOOLEAN : [r EXCEPT !.html = b] \in RowShape
    BY <1>0 DEF RowShape
  <2>2. PICK kept : snapshots' = {[r EXCEPT !.html = r \in kept] : r \in snapshots}
    BY <1>8 DEF NullStaleRawHTML
  <2>3. snapshots' \in SUBSET RowShape
    <3>1. ASSUME NEW r \in snapshots PROVE [r EXCEPT !.html = r \in kept] \in RowShape
      <4>1. (r \in kept) \in BOOLEAN
        OBVIOUS
      <4> QED
        BY <2>1, <4>1
    <3> QED
      BY <2>2, <3>1
  <2>4. PICK pc \in {"rows", "files"} : prune' = [prune EXCEPT ![s].pc = pc]
    BY <1>8 DEF NullStaleRawHTML
  <2> QED
    BY <1>6, <1>8, <2>3, <2>4 DEF NullStaleRawHTML
<1>9. ASSUME NEW s \in Pruners, DeleteStaleSnapshots(s)
      PROVE  /\ snapshots' \in SUBSET RowShape /\ changes' \in SUBSET (1..MaxRows)
             /\ prune' \in [Pruners -> PruneShape]
             /\ UNCHANGED <<files, reading, serial, dbClock, backs>>
  BY <1>0, <1>6, <1>9 DEF DeleteStaleSnapshots
<1>10. ASSUME NEW s \in Pruners, TrimFileSnapshots(s) \/ PruneFails(s)
       PROVE  /\ files' \in SUBSET FileShape /\ prune' \in [Pruners -> PruneShape]
              /\ UNCHANGED <<snapshots, changes, reading, serial, dbClock, backs>>
  <2>1. NotPruning \in PruneShape
    BY RetentionNats DEF NotPruning, PruneShape
  <2>2. \A k, keep : Newest(keep, OfKind(k)) \subseteq files
    BY DEF Newest, OfKind
  <2> QED
    BY <1>0, <1>10, <2>1, <2>2 DEF TrimFileSnapshots, PruneFails
<1>11. CASE DBTick \/ SetBack
  <2>1. dbClock' \in 0..MaxClock /\ backs' \in 0..MaxBack
    BY <1>0, <1>11, RetentionNats DEF DBTick, SetBack
  <2> QED
    BY <1>0, <1>11, <2>1 DEF DBTick, SetBack
<1> QED
  BY <1>0, <1>1, <1>2, <1>3, <1>4, <1>5, <1>7, <1>8, <1>9, <1>10, <1>11 DEF RetentionNext

\* The rows stay apart.
LEMMA RowsStayApart == RetentionTypeOK /\ RowsApart /\ [RetentionNext]_retentionVars => RowsApart'
<1> SUFFICES ASSUME RetentionTypeOK, RowsApart, [RetentionNext]_retentionVars PROVE RowsApart'
  OBVIOUS
<1>0. /\ IsFiniteSet(snapshots) /\ IsFiniteSet(files)
      /\ \A r \in snapshots : r.id <= serial.rows /\ r.id \in Int
      /\ \A r, s \in snapshots : r.id = s.id => r = s
      /\ serial \in [rows : Nat, files : Nat] /\ snapshots \subseteq RowShape
  BY RetentionNats DEF RowsApart, RetentionTypeOK, RowShape
<1>1. ASSUME UNCHANGED <<snapshots, files, serial>> PROVE RowsApart'
  BY <1>0, <1>1 DEF RowsApart
<1>2. ASSUME NEW u \in Pages, SavePageSnapshot(u) PROVE RowsApart'
  <2>1. PICK new : new.id = serial.rows + 1 /\ snapshots' = snapshots \cup {new}
    BY <1>0, <1>2 DEF SavePageSnapshot
  <2>2. serial'.rows = serial.rows + 1 /\ files' = files
    BY <1>0, <1>2 DEF SavePageSnapshot
  <2>3. IsFiniteSet(snapshots')
    BY <1>0, <2>1, FS_AddElement
  <2>4. \A r \in snapshots : r.id < new.id
    BY <1>0, <2>1
  <2> QED
    BY <1>0, <2>1, <2>2, <2>3, <2>4 DEF RowsApart
<1>3. ASSUME NEW k \in FileKinds, SaveFileSnapshot(k) PROVE RowsApart'
  <2>1. IsFiniteSet(files')
    BY <1>0, <1>3, FS_AddElement DEF SaveFileSnapshot
  <2>2. snapshots' = snapshots /\ serial'.rows = serial.rows
    BY <1>0, <1>3 DEF SaveFileSnapshot
  <2> QED
    BY <1>0, <2>1, <2>2 DEF RowsApart
<1>4. ASSUME NEW s \in Pruners, NullStaleRawHTML(s) PROVE RowsApart'
  <2>1. PICK kept : snapshots' = {[r EXCEPT !.html = r \in kept] : r \in snapshots}
    BY <1>4 DEF NullStaleRawHTML
  <2> DEFINE f == [r \in snapshots |-> [r EXCEPT !.html = r \in kept]]
  <2>2. f \in Surjection(snapshots, snapshots')
    BY <2>1 DEF Surjection
  <2>3. \A r \in snapshots : f[r].id = r.id
    BY <1>0 DEF RowShape
  <2>4. \A r \in snapshots' : \E q \in snapshots : r = f[q]
    BY <2>1
  <2> HIDE DEF f
  <2>5. IsFiniteSet(snapshots')
    BY <1>0, <2>2, FS_Surjection
  <2>6. UNCHANGED <<files, serial>>
    BY <1>4 DEF NullStaleRawHTML
  <2> QED
    BY <1>0, <2>3, <2>4, <2>5, <2>6 DEF RowsApart
<1>5. ASSUME NEW s \in Pruners, DeleteStaleSnapshots(s) PROVE RowsApart'
  <2>1. snapshots' \subseteq snapshots /\ UNCHANGED <<files, serial>>
    BY <1>5 DEF DeleteStaleSnapshots
  <2>2. IsFiniteSet(snapshots')
    BY <1>0, <2>1, FS_Subset
  <2> QED
    BY <1>0, <2>1, <2>2 DEF RowsApart
<1>6. ASSUME NEW s \in Pruners, TrimFileSnapshots(s) PROVE RowsApart'
  <2>1. files' \subseteq files /\ UNCHANGED <<snapshots, serial>>
    BY <1>6 DEF TrimFileSnapshots, Newest, OfKind
  <2>2. IsFiniteSet(files')
    BY <1>0, <2>1, FS_Subset
  <2> QED
    BY <1>0, <2>1, <2>2 DEF RowsApart
<1>7. CASE UNCHANGED retentionVars
  BY <1>1, <1>7 DEF retentionVars
<1>8. ASSUME NEW u \in Pages, ReadLatest(u) \/ RecordChanges(u) \/ CrawlEnds(u) PROVE RowsApart'
  BY <1>1, <1>8 DEF ReadLatest, RecordChanges, CrawlEnds
<1>9. ASSUME NEW s \in Pruners, StartSweep(s) \/ PruneFails(s) PROVE RowsApart'
  BY <1>1, <1>9 DEF StartSweep, PruneFails
<1>10. CASE DBTick \/ SetBack
  BY <1>1, <1>10 DEF DBTick, SetBack
<1> QED
  BY <1>2, <1>3, <1>4, <1>5, <1>6, <1>7, <1>8, <1>9, <1>10 DEF RetentionNext

\* Only a save changes which snapshot is the latest of a page: a sweep takes the body
\* of none that is, and deletes none.
LEMMA OnlySavesChangeLatest ==
  ASSUME RetentionInv, [RetentionNext]_retentionVars, RetentionTypeOK', RowsApart',
         NEW u \in Pages, \A v \in Pages : ~SavePageSnapshot(v)
  PROVE  LatestSnapshot(u)' = LatestSnapshot(u)
<1>0. RetentionTypeOK /\ RowsApart /\ RowsKept
  BY DEF RetentionInv
<1>1. ASSUME UNCHANGED snapshots PROVE LatestSnapshot(u)' = LatestSnapshot(u)
  BY <1>1 DEF LatestSnapshot, OfPage
<1>2. ASSUME NEW s \in Pruners, NullStaleRawHTML(s) PROVE LatestSnapshot(u)' = LatestSnapshot(u)
  <2> DEFINE whole(v) == {r \in OfPage(v) : r.html}
             kept == UNION {Newest(Least(RawHTMLKeep, 1), whole(v)) : v \in Pages}
             f == [r \in snapshots |-> [r EXCEPT !.html = r \in kept]]
  <2>1. snapshots' = {f[r] : r \in snapshots}
    BY <1>2 DEF NullStaleRawHTML
  <2>2. /\ OfPage(u) \subseteq snapshots /\ IsFiniteSet(OfPage(u))
        /\ LatestSnapshot(u) = {r \in OfPage(u) : \A q \in OfPage(u) : ~Newer(q, r)}
    BY <1>0, RowsOfPage
  <2>3. LatestSnapshot(u) \subseteq kept
    <3>1. IsFiniteSet(whole(u)) /\ LatestSnapshot(u) \subseteq whole(u)
      BY <1>0, <2>2, FS_Subset DEF RowsKept
    <3>2. LatestSnapshot(u) \subseteq {r \in whole(u) : \A q \in whole(u) : ~Newer(q, r)}
      BY <2>2, <3>1
    <3>3. LatestSnapshot(u) \subseteq Newest(1, whole(u))
      BY <3>1, <3>2, NewestOne
    <3>4. Newest(1, whole(u)) \subseteq Newest(Least(RawHTMLKeep, 1), whole(u))
      BY <3>1, NewestGrows, RetentionNats
    <3> QED
      BY <3>3, <3>4
  <2>4. \A r \in snapshots : /\ f[r].id = r.id /\ f[r].of = r.of /\ f[r].at = r.at
                             /\ r.html /\ r \in kept => f[r] = r
    <3> SUFFICES ASSUME NEW r \in snapshots
                 PROVE  /\ f[r].id = r.id /\ f[r].of = r.of /\ f[r].at = r.at
                        /\ r.html /\ r \in kept => f[r] = r
      OBVIOUS
    <3>1. f[r] = [r EXCEPT !.html = r \in kept] /\ r \in RowShape
      BY <1>0 DEF RetentionTypeOK, RowShape
    <3> HIDE DEF f, kept
    <3>2. f[r].id = r.id /\ f[r].of = r.of /\ f[r].at = r.at
      BY <3>1 DEF RowShape
    <3>3. ASSUME r.html, r \in kept PROVE f[r] = r
      <4>1. f[r] = [r EXCEPT !.html = TRUE] /\ r.html = TRUE
        BY <3>1, <3>3 DEF RowShape
      <4> QED
        BY <3>1, <4>1 DEF RowShape
    <3> QED
      BY <3>2, <3>3
  <2> HIDE DEF f, kept
  <2>5. OfPage(u)' = {f[r] : r \in OfPage(u)}
    BY <2>1, <2>4 DEF OfPage
  <2>6. LatestSnapshot(u)' = {r \in OfPage(u)' : \A q \in OfPage(u)' : ~Newer(q, r)}
    <3>1. IsFiniteSet(OfPage(u)')
      <4>1. OfPage(u)' \subseteq snapshots' /\ IsFiniteSet(snapshots')
        BY DEF OfPage, RowsApart
      <4> QED
        BY <4>1, FS_Subset
    <3> QED
      BY <3>1, NewestOne DEF LatestSnapshot
  <2>7. \A r, q \in snapshots : Newer(f[q], f[r]) <=> Newer(q, r)
    BY <2>4 DEF Newer
  <2>8. LatestSnapshot(u)' = {f[r] : r \in LatestSnapshot(u)}
    BY <2>2, <2>5, <2>6, <2>7
  <2>9. \A r \in LatestSnapshot(u) : f[r] = r
    BY <1>0, <2>2, <2>3, <2>4 DEF RowsKept
  <2> QED
    BY <2>8, <2>9
<1>3. ASSUME NEW s \in Pruners, DeleteStaleSnapshots(s) PROVE LatestSnapshot(u)' = LatestSnapshot(u)
  <2>1. snapshots' \subseteq snapshots /\ snapshots \ snapshots' \subseteq Stale(prune[s].cutoff)
    BY <1>3 DEF DeleteStaleSnapshots
  <2>2. ASSUME NEW r \in snapshots \ snapshots' PROVE r \notin LatestSnapshot(r.of)
    <3>1. r \notin Newest(Least(RawHTMLKeep, 1), OfPage(r.of))
      BY <2>1 DEF Stale
    <3>2. IsFiniteSet(OfPage(r.of))
      BY <1>0, RowsOfPage
    <3>3. Newest(1, OfPage(r.of)) \subseteq Newest(Least(RawHTMLKeep, 1), OfPage(r.of))
      BY <3>2, NewestGrows, RetentionNats
    <3> QED
      BY <3>1, <3>3 DEF LatestSnapshot
  <2> QED
    BY <1>0, <2>1, <2>2, LatestStays
<1> QED
  BY <1>1, <1>2, <1>3 DEF RetentionNext, retentionVars, ReadLatest, RecordChanges, CrawlEnds, SaveFileSnapshot,
     StartSweep, TrimFileSnapshots, PruneFails, DBTick, SetBack

\* The sweeps stay behind the crawls.
LEMMA CutoffsStayBehind ==
  RetentionTypeOK /\ CutoffsBehind /\ [RetentionNext]_retentionVars => CutoffsBehind'
<1> SUFFICES ASSUME RetentionTypeOK, CutoffsBehind, [RetentionNext]_retentionVars, SnapshotMaxAge > 0
             PROVE  SweepsBehind'
  BY DEF CutoffsBehind
<1>0. /\ reading \in [Pages -> ReadShape] /\ prune \in [Pruners -> PruneShape]
      /\ dbClock \in Int /\ backs \in Int /\ backs <= MaxBack /\ MaxBack < SnapshotMaxAge
      /\ MaxBack \in Int /\ SnapshotMaxAge \in Int
      /\ \A s \in Pruners : prune[s].cutoff \in Int
      /\ \A u \in Pages : reading[u].at \in Int
      /\ SweepsBehind
  BY RetentionNats DEF RetentionTypeOK, ReadShape, PruneShape, CutoffsBehind
<1>1. ASSUME UNCHANGED <<dbClock, backs>>,
             \A s \in Pruners : prune'[s].pc # "idle" => prune[s].pc # "idle" /\ prune'[s].cutoff = prune[s].cutoff,
             \A u \in Pages : reading'[u].pc # "idle" => reading[u].pc # "idle" /\ reading'[u].at = reading[u].at
      PROVE  SweepsBehind'
  BY <1>0, <1>1 DEF SweepsBehind
<1>2. ASSUME NEW u \in Pages, ReadLatest(u)
      PROVE  SweepsBehind'
  <2>1. reading'[u].at = dbClock /\ \A v \in Pages \ {u} : reading'[v] = reading[v]
    BY <1>0, <1>2 DEF ReadLatest
  <2>2. UNCHANGED <<prune, dbClock, backs>>
    BY <1>2 DEF ReadLatest
  <2> QED
    BY <1>0, <2>1, <2>2 DEF SweepsBehind
<1>3. ASSUME NEW s \in Pruners, StartSweep(s)
      PROVE  SweepsBehind'
  <2>1. prune'[s].cutoff = dbClock - SnapshotMaxAge /\ \A t \in Pruners \ {s} : prune'[t] = prune[t]
    BY <1>0, <1>3 DEF StartSweep
  <2>2. UNCHANGED <<reading, dbClock, backs>> /\ backs >= 0
    BY <1>3, RetentionNats DEF StartSweep, RetentionTypeOK
  <2> QED
    BY <1>0, <2>1, <2>2, RetentionNats DEF SweepsBehind
<1>4. ASSUME DBTick \/ SetBack
      PROVE  SweepsBehind'
  BY <1>0, <1>4 DEF DBTick, SetBack, SweepsBehind
<1>5. ASSUME NEW u \in Pages, SavePageSnapshot(u) \/ RecordChanges(u) \/ CrawlEnds(u)
      PROVE  /\ UNCHANGED <<prune, dbClock, backs>>
             /\ \A v \in Pages : reading'[v].pc # "idle" => reading[v].pc # "idle" /\ reading'[v].at = reading[v].at
  BY <1>0, <1>5 DEF SavePageSnapshot, RecordChanges, CrawlEnds, NotReading, ReadShape
<1>6. ASSUME NEW s \in Pruners,
             NullStaleRawHTML(s) \/ DeleteStaleSnapshots(s) \/ TrimFileSnapshots(s) \/ PruneFails(s)
      PROVE  /\ UNCHANGED <<reading, dbClock, backs>>
             /\ \A t \in Pruners : prune'[t].pc # "idle" => prune[t].pc # "idle" /\ prune'[t].cutoff = prune[t].cutoff
  BY <1>0, <1>6 DEF NullStaleRawHTML, DeleteStaleSnapshots, TrimFileSnapshots, PruneFails, NotPruning, PruneShape
<1>7. ASSUME NEW k \in FileKinds, SaveFileSnapshot(k) PROVE UNCHANGED <<prune, reading, dbClock, backs>>
  BY <1>7 DEF SaveFileSnapshot
<1> QED
  BY <1>1, <1>2, <1>3, <1>4, <1>5, <1>6, <1>7 DEF RetentionNext, retentionVars

\* No step breaks what is kept: the row that a crawl under way has saved is younger
\* than the cutoff of any sweep.
LEMMA RowsStayKept ==
  RetentionInv /\ [RetentionNext]_retentionVars /\ RetentionTypeOK' /\ RowsApart' => RowsKept'
<1> SUFFICES ASSUME RetentionInv, [RetentionNext]_retentionVars, RetentionTypeOK', RowsApart' PROVE RowsKept'
  OBVIOUS
<1>0. /\ RetentionTypeOK /\ RowsApart /\ CutoffsBehind /\ RowsKept
      /\ reading \in [Pages -> ReadShape] /\ prune \in [Pruners -> PruneShape] /\ snapshots \in SUBSET RowShape
  BY DEF RetentionInv, RetentionTypeOK, ReadShape, PruneShape, RowShape
<1>1. \A s \in Pruners : prune'[s].pc = "rows" => SnapshotMaxAge > 0
  <2>1. ASSUME NEW s \in Pruners, NullStaleRawHTML(s) \/ DeleteStaleSnapshots(s) \/ StartSweep(s)
                                  \/ TrimFileSnapshots(s) \/ PruneFails(s),
               NEW t \in Pruners, prune'[t].pc = "rows"
        PROVE  SnapshotMaxAge > 0
    <3>1. CASE t # s
      <4>1. prune'[t] = prune[t]
        BY <1>0, <2>1, <3>1 DEF NullStaleRawHTML, DeleteStaleSnapshots, StartSweep, TrimFileSnapshots, PruneFails
      <4> QED
        BY <1>0, <2>1, <4>1 DEF RowsKept
    <3>2. CASE t = s
      BY <1>0, <2>1, <3>2
         DEF RowsKept, NullStaleRawHTML, DeleteStaleSnapshots, StartSweep, TrimFileSnapshots, PruneFails, NotPruning,
             PruneShape
    <3> QED
      BY <3>1, <3>2
  <2>2. ASSUME UNCHANGED prune PROVE \A s \in Pruners : prune'[s].pc = "rows" => SnapshotMaxAge > 0
    BY <1>0, <2>2 DEF RowsKept
  <2> QED
    BY <2>1, <2>2 DEF RetentionNext, retentionVars, ReadLatest, SavePageSnapshot, RecordChanges, CrawlEnds,
       SaveFileSnapshot, DBTick, SetBack
<1>2. \A u \in Pages : reading'[u].pc = "saved" =>
        \E r \in snapshots' : r.id = reading'[u].id /\ r.at = reading'[u].at
  <2> DEFINE Saved(u) == \E r \in snapshots : r.id = reading[u].id /\ r.at = reading[u].at
  <2>1. ASSUME NEW u \in Pages, reading'[u] = reading[u], \A r \in snapshots :
                 \E q \in snapshots' : q.id = r.id /\ q.at = r.at, reading'[u].pc = "saved"
        PROVE  Saved(u)'
    BY <1>0, <2>1 DEF RowsKept
  <2>2. ASSUME NEW v \in Pages, SavePageSnapshot(v), NEW u \in Pages, reading'[u].pc = "saved" PROVE Saved(u)'
    <3>1. CASE u = v
      <4>1. reading'[u].id = serial'.rows /\ reading'[u].at = reading[u].at
        BY <1>0, <2>2, <3>1 DEF SavePageSnapshot, ReadShape
      <4>2. [id |-> serial'.rows, of |-> u, at |-> reading[u].at, html |-> TRUE] \in snapshots'
        BY <2>2, <3>1 DEF SavePageSnapshot
      <4> QED
        BY <4>1, <4>2
    <3>2. CASE u # v
      <4>1. reading'[u] = reading[u] /\ snapshots \subseteq snapshots'
        BY <1>0, <2>2, <3>2 DEF SavePageSnapshot
      <4> QED
        BY <2>1, <2>2, <4>1
    <3> QED
      BY <3>1, <3>2
  <2>3. ASSUME NEW v \in Pages, ReadLatest(v) \/ RecordChanges(v) \/ CrawlEnds(v),
               NEW u \in Pages, reading'[u].pc = "saved"
        PROVE  Saved(u)'
    <3>1. u # v /\ snapshots' = snapshots
      BY <1>0, <2>3 DEF ReadLatest, RecordChanges, CrawlEnds, NotReading
    <3>2. reading'[u] = reading[u]
      BY <1>0, <2>3, <3>1 DEF ReadLatest, RecordChanges, CrawlEnds
    <3> QED
      BY <2>1, <2>3, <3>1, <3>2
  <2>4. ASSUME NEW s \in Pruners, NullStaleRawHTML(s), NEW u \in Pages, reading'[u].pc = "saved" PROVE Saved(u)'
    <3>1. PICK kept : snapshots' = {[r EXCEPT !.html = r \in kept] : r \in snapshots}
      BY <2>4 DEF NullStaleRawHTML
    <3>2. ASSUME NEW r \in snapshots PROVE \E q \in snapshots' : q.id = r.id /\ q.at = r.at
      <4>1. [r EXCEPT !.html = r \in kept] \in snapshots'
        BY <3>1
      <4>2. [r EXCEPT !.html = r \in kept].id = r.id /\ [r EXCEPT !.html = r \in kept].at = r.at
        BY <1>0 DEF RowShape
      <4> QED
        BY <4>1, <4>2
    <3>3. reading' = reading
      BY <2>4 DEF NullStaleRawHTML
    <3> QED
      BY <2>1, <2>4, <3>2, <3>3
  <2>5. ASSUME NEW s \in Pruners, DeleteStaleSnapshots(s), NEW u \in Pages, reading'[u].pc = "saved" PROVE Saved(u)'
    <3>1. /\ reading' = reading /\ prune[s].pc = "rows"
          /\ \A r \in snapshots \ snapshots' : r.at < prune[s].cutoff
      BY <2>5 DEF DeleteStaleSnapshots, Stale
    <3>2. prune[s].cutoff <= reading[u].at
      BY <1>0, <2>5, <3>1 DEF CutoffsBehind, SweepsBehind, RowsKept
    <3>3. PICK r \in snapshots : r.id = reading[u].id /\ r.at = reading[u].at
      BY <1>0, <2>5, <3>1 DEF RowsKept
    <3>4. prune[s].cutoff \in Int /\ reading[u].at \in Int
      BY <1>0, RetentionNats DEF PruneShape, ReadShape
    <3>5. r \in snapshots'
      BY <3>1, <3>2, <3>3, <3>4
    <3> QED
      BY <3>1, <3>3, <3>5
  <2>6. ASSUME UNCHANGED <<snapshots, reading>>, NEW u \in Pages, reading'[u].pc = "saved" PROVE Saved(u)'
    BY <2>1, <2>6
  <2> QED
    BY <2>2, <2>3, <2>4, <2>5, <2>6 DEF RetentionNext, retentionVars, SaveFileSnapshot, StartSweep,
       TrimFileSnapshots, PruneFails, DBTick, SetBack
<1>3. \A u \in Pages : \A r \in LatestSnapshot(u)' : r.html
  <2>1. CASE \A v \in Pages : ~SavePageSnapshot(v)
    BY <1>0, <2>1, OnlySavesChangeLatest DEF RowsKept
  <2>2. ASSUME NEW v \in Pages, SavePageSnapshot(v), NEW u \in Pages, NEW r \in LatestSnapshot(u)' PROVE r.html
    <3>1. PICK new : snapshots' = snapshots \cup {new} /\ new.html = TRUE
      <4> DEFINE new == [id |-> serial'.rows, of |-> v, at |-> reading[v].at, html |-> TRUE]
      <4>1. snapshots' = snapshots \cup {new} /\ new.html = TRUE
        BY <2>2 DEF SavePageSnapshot
      <4> QED
        BY <4>1
    <3>2. LatestSnapshot(u)' = {q \in OfPage(u)' : \A t \in OfPage(u)' : ~Newer(t, q)}
      <4>1. OfPage(u)' \subseteq snapshots' /\ IsFiniteSet(snapshots')
        BY DEF OfPage, RowsApart
      <4>2. IsFiniteSet(OfPage(u)')
        BY <4>1, FS_Subset
      <4> QED
        BY <4>2, NewestOne DEF LatestSnapshot
    <3>3. OfPage(u) \subseteq OfPage(u)' /\ (r # new => r \in OfPage(u))
      BY <3>1, <3>2 DEF OfPage
    <3>4. r # new => r \in LatestSnapshot(u)
      BY <1>0, <3>2, <3>3, RowsOfPage
    <3> QED
      BY <1>0, <3>1, <3>4 DEF RowsKept
  <2> QED
    BY <2>1, <2>2
<1> QED
  BY <1>1, <1>2, <1>3 DEF RowsKept

\* The invariant holds initially and is preserved.
LEMMA RetentionInductive == RetentionInv /\ [RetentionNext]_retentionVars => RetentionInv'
BY RetentionTyped, RowsStayApart, CutoffsStayBehind, RowsStayKept DEF RetentionInv

LEMMA RetentionInvariant == RetentionSpec => []RetentionInv
BY RetentionInductive, RetentionInitially, PTL DEF RetentionSpec

\* Every value of the variables of the sweep and of the crawls has its type.
THEOREM RetentionTypeCorrect == RetentionSpec => []RetentionTypeOK
<1>1. RetentionInv => RetentionTypeOK
  BY DEF RetentionInv
<1> QED
  BY <1>1, RetentionInvariant, PTL

\* No sweep takes a change from the log.
LEMMA ChangesStay ==
  ASSUME RetentionInv, [RetentionNext]_retentionVars
  PROVE  changes \subseteq changes'
<1>1. ASSUME NEW s \in Pruners, DeleteStaleSnapshots(s) PROVE changes \subseteq changes'
  BY <1>1 DEF DeleteStaleSnapshots, Stale
<1> QED
  BY <1>1 DEF RetentionNext, retentionVars, ReadLatest, SavePageSnapshot, RecordChanges, CrawlEnds, SaveFileSnapshot,
     StartSweep, NullStaleRawHTML, TrimFileSnapshots, PruneFails, DBTick, SetBack

\* The two newest file snapshots of a kind are kept.
LEMMA FilesStay ==
  ASSUME RetentionInv, [RetentionNext]_retentionVars, NEW k \in FileKinds
  PROVE  Newest(2, OfKind(k)) \subseteq files'
<1>1. OfKind(k) \subseteq files /\ Newest(2, OfKind(k)) \subseteq OfKind(k)
  BY DEF OfKind, Newest
<1>2. ASSUME NEW s \in Pruners, TrimFileSnapshots(s) PROVE Newest(2, OfKind(k)) \subseteq files'
  <2>1. IsFiniteSet(OfKind(k))
    BY <1>1, FS_Subset DEF RetentionInv, RowsApart
  <2>2. Newest(2, OfKind(k)) \subseteq Newest(Least(FileSnapshotsKeep, 2), OfKind(k))
    BY <2>1, NewestGrows, RetentionNats
  <2>3. Newest(Least(FileSnapshotsKeep, 2), OfKind(k)) \subseteq files'
    BY <1>2 DEF TrimFileSnapshots
  <2> QED
    BY <2>2, <2>3
<1>3. ASSUME files \subseteq files' PROVE Newest(2, OfKind(k)) \subseteq files'
  BY <1>1, <1>3
<1> QED
  BY <1>2, <1>3 DEF RetentionNext, retentionVars, ReadLatest, SavePageSnapshot, RecordChanges, CrawlEnds,
     SaveFileSnapshot, StartSweep, NullStaleRawHTML, DeleteStaleSnapshots, PruneFails, DBTick, SetBack

\* A sweep that ends its rows has deleted all that were stale.
LEMMA NoneStaleIsLeft ==
  ASSUME RetentionInv, [RetentionNext]_retentionVars, RetentionTypeOK', NEW s \in Pruners,
         prune[s].pc = "rows", prune'[s].pc = "files"
  PROVE  Stale(prune[s].cutoff)' = {}
<1>0. /\ RetentionTypeOK /\ RowsApart /\ prune \in [Pruners -> PruneShape]
  BY DEF RetentionInv, RetentionTypeOK, PruneShape
<1>1. DeleteStaleSnapshots(s)
  <2>1. ASSUME NEW t \in Pruners \ {s}, NEW w, prune' = [prune EXCEPT ![t] = w] PROVE FALSE
    BY <1>0, <2>1
  <2>2. ASSUME NEW t \in Pruners,
               \/ StartSweep(t) \/ NullStaleRawHTML(t) \/ DeleteStaleSnapshots(t)
               \/ TrimFileSnapshots(t) \/ PruneFails(t)
        PROVE  t = s
    <3>1. SUFFICES ASSUME t # s PROVE prune'[s] = prune[s]
      BY <1>0
    <3> QED
      BY <1>0, <2>2, <3>1 DEF StartSweep, NullStaleRawHTML, DeleteStaleSnapshots, TrimFileSnapshots, PruneFails
  <2>3. ~StartSweep(s) /\ ~NullStaleRawHTML(s)
    BY DEF StartSweep, NullStaleRawHTML
  <2>4. ~TrimFileSnapshots(s)
    BY DEF TrimFileSnapshots
  <2>5. ~PruneFails(s)
    BY <1>0 DEF PruneFails, NotPruning
  <2>6. prune' # prune
    OBVIOUS
  <2> QED
    BY <2>2, <2>3, <2>4, <2>5, <2>6 DEF RetentionNext, retentionVars, ReadLatest, SavePageSnapshot, RecordChanges,
       CrawlEnds, SaveFileSnapshot, DBTick, SetBack
<1>2. PICK gone \in SUBSET Stale(prune[s].cutoff) :
        /\ \/ Cardinality(gone) = Chunk
           \/ Cardinality(gone) < Chunk /\ gone = Stale(prune[s].cutoff)
        /\ snapshots' = snapshots \ gone
        /\ changes' = changes \ {r.id : r \in gone}
        /\ prune' = [prune EXCEPT ![s].pc = IF Cardinality(gone) < Chunk THEN "files" ELSE "rows"]
  BY <1>1 DEF DeleteStaleSnapshots
<1>3. prune'[s].cutoff = prune[s].cutoff /\ Cardinality(gone) < Chunk
  BY <1>0, <1>2 DEF PruneShape
<1>4. gone = Stale(prune[s].cutoff)
  BY <1>2, <1>3, RetentionNats
<1>5. changes' = changes
  BY <1>2 DEF Stale
<1>6. ASSUME NEW r \in snapshots', r.at < prune[s].cutoff, r.id \notin changes'
      PROVE  r \in Newest(Least(RawHTMLKeep, 1), OfPage(r.of)')
  <2>1. r \in Newest(Least(RawHTMLKeep, 1), OfPage(r.of)) /\ r \in snapshots
    BY <1>2, <1>4, <1>5, <1>6 DEF Stale
  <2>2. OfPage(r.of)' \subseteq OfPage(r.of) /\ r \in OfPage(r.of)'
    BY <1>2, <1>6 DEF OfPage
  <2>3. IsFiniteSet(OfPage(r.of))
    BY <1>0, RowsOfPage
  <2>4. \A left \in SUBSET OfPage(r.of) :
          Newest(Least(RawHTMLKeep, 1), OfPage(r.of)) \cap left \subseteq Newest(Least(RawHTMLKeep, 1), left)
    BY <2>3, NewestGrows, RetentionNats
  <2> QED
    BY <2>1, <2>2, <2>4
<1>7. Stale(prune[s].cutoff)' = {r \in snapshots' : /\ r.at < prune'[s].cutoff
                                                    /\ r \notin Newest(Least(RawHTMLKeep, 1), OfPage(r.of)')
                                                    /\ r.id \notin changes'}
  BY DEF Stale
<1> QED
  BY <1>3, <1>6, <1>7

\* Whatever sweeps overlap the crawls and one another, and whichever of their transactions
\* fail, pruning takes no change from the log, no snapshot a crawl is at, none that a
\* later crawl compares with, no body that it needs, and leaves no stale row behind
\* (internal/store/retention.go).
THEOREM RetentionLosesNothingCorrect == RetentionSpec => RetentionLosesNothing
<1>1. RetentionInv /\ RetentionInv' /\ [RetentionNext]_retentionVars => [LosesNothing]_retentionVars
  <2> SUFFICES ASSUME RetentionInv, RetentionInv', [RetentionNext]_retentionVars PROVE LosesNothing
    OBVIOUS
  <2>1. changes \subseteq changes'
    BY ChangesStay
  <2>2. \A u \in Pages : reading'[u].pc = "saved" => \E r \in snapshots' : r.id = reading'[u].id
    BY DEF RetentionInv, RowsKept
  <2>3. ASSUME serial' = serial, NEW u \in Pages
        PROVE  {r.id : r \in LatestSnapshot(u)'} = {r.id : r \in LatestSnapshot(u)}
    <3>1. ASSUME NEW v \in Pages, SavePageSnapshot(v) PROVE FALSE
      <4>1. serial.rows \in Nat /\ serial'.rows = serial.rows + 1
        BY <3>1, RetentionNats DEF SavePageSnapshot, RetentionInv, RetentionTypeOK
      <4> QED
        BY <2>3, <4>1
    <3> QED
      BY <3>1, OnlySavesChangeLatest DEF RetentionInv
  <2>4. \A k \in FileKinds : Newest(2, OfKind(k)) \subseteq files'
    BY FilesStay
  <2>5. \A u \in Pages : \A r \in LatestSnapshot(u)' : r.html
    BY DEF RetentionInv, RowsKept
  <2>6. \A s \in Pruners : prune[s].pc = "rows" /\ prune'[s].pc = "files" => Stale(prune[s].cutoff)' = {}
    BY NoneStaleIsLeft DEF RetentionInv
  <2> QED
    BY <2>1, <2>2, <2>3, <2>4, <2>5, <2>6 DEF LosesNothing
<1> QED
  BY <1>1, RetentionInvariant, PTL DEF RetentionSpec, RetentionLosesNothing

-----------------------------------------------------------------------------
(* The sitemap watch: a walk reads the documents in reach level by level.  *)

\* The shapes of a queue, a pass and a baseline.
DocAt == [doc : Docs, level : Nat]
Coverage == [uncrawled : Nat, unadmitted : Nat, orphaned : Nat]
Alert == [field : {"sitemap_xml", "sitemap_xml_status", "sitemap_coverage_drift"}, dropped : SUBSET Locs]
PassPcs == {"idle", "walk", "admit", "reconcile", "count", "save", "alert"}
Queues == Seq(DocAt)
DocSets == SUBSET Docs
LocSets == SUBSET Locs
FetchCounts == 0..SitemapLimit
Statuses == {0, 200, 404}
AlertSets == SUBSET Alert
PassShape ==
  [pc : PassPcs, seed : Docs, queue : Queues, visited : DocSets, fetches : FetchCounts, pages : LocSets,
   taken : Nat, trimmed : BOOLEAN, incomplete : BOOLEAN, status : Statuses, coverage : Coverage, since : Nat, alerts : AlertSets]
BaselineShape ==
  [hash : SUBSET Locs, status : {0, 200, 404}, coverage : Coverage, urls : SUBSET Locs, capped : BOOLEAN,
   incomplete : BOOLEAN, since : Nat, trimmed : BOOLEAN]

SitemapTypes ==
  /\ inSitemap \in [Locs -> {"absent", "no", "yes"}] /\ crawled \in SUBSET Rows
  /\ content \in [Docs -> SUBSET Locs] /\ \A d \in Docs : content[d] \in Contents[d]
  /\ health \in [Docs -> {"ok", "missing", "cut"}]
  /\ gate \in {"open"} \cup Closings
  /\ pass \in PassShape
  /\ baseline # NoBaseline => baseline \in BaselineShape
  /\ edits \in Nat /\ outages \in Nat
  /\ pass.pc # "idle" => pass.since <= edits

-----------------------------------------------------------------------------
\* The sequences of the walk.
LEMMA SitemapBounds ==
  /\ DefaultSeed \in Docs /\ Seeds \in Seq(Docs) /\ Declared \in Seq(Docs) /\ Declared # <<>>
  /\ \A d \in Docs : ChildrenOf[d] \in Seq(Docs) /\ Contents[d] \subseteq SUBSET Locs
  /\ SitemapLimit \in Nat /\ DeepestIndex \in Nat /\ MaxEdits \in Nat /\ MaxOutages \in Nat
  /\ IsFiniteSet(Locs) /\ PageBudget \in Nat
<1>1. <<DefaultSeed>> \in Seq(Docs) /\ <<DefaultSeed>> # <<>>
  <2>1. DefaultSeed \in Docs
    BY SitemapAssumption
  <2>2. Len(<<DefaultSeed>>) = 1 /\ Len(<<>>) = 0
    OBVIOUS
  <2> QED
    BY <2>1, <2>2
<1>2. DefaultSeed \in Docs /\ Seeds \in Seq(Docs)
  BY SitemapAssumption
<1>3. Declared \in Seq(Docs) /\ Declared # <<>>
  BY <1>1, <1>2 DEF Declared
<1>4. \A d \in Docs : ChildrenOf[d] \in Seq(Docs) /\ Contents[d] \subseteq SUBSET Locs
  BY SitemapAssumption
<1>5. SitemapLimit \in Nat /\ DeepestIndex \in Nat /\ MaxEdits \in Nat /\ MaxOutages \in Nat /\ IsFiniteSet(Locs)
      /\ PageBudget \in Nat
  BY SitemapAssumption
<1> QED
  BY <1>2, <1>3, <1>4, <1>5

LEMMA QueueOfTyped ==
  ASSUME NEW docs \in Seq(Docs), NEW level \in Nat
  PROVE  /\ QueueOf(docs, level) \in Seq(DocAt) /\ Len(QueueOf(docs, level)) = Len(docs)
         /\ \A i \in 1..Len(docs) : QueueOf(docs, level)[i] = [doc |-> docs[i], level |-> level]
<1>1. Len(docs) \in Nat /\ \A i \in 1..Len(docs) : docs[i] \in Docs
  OBVIOUS
<1>2. QueueOf(docs, level) \in [1..Len(docs) -> DocAt]
  BY <1>1 DEF QueueOf, DocAt
<1>3. QueueOf(docs, level) \in Seq(DocAt)
  BY <1>1, <1>2, SeqDef
<1>4. Len(QueueOf(docs, level)) = Len(docs)
  BY <1>1, <1>2, <1>3, LenProperties
<1> QED
  BY <1>1, <1>3, <1>4 DEF QueueOf

\* The first document of a queue is taken, and others are added to its end.
LEMMA QueueMoves ==
  ASSUME NEW queue \in Seq(DocAt), queue # <<>>, NEW more \in Seq(DocAt)
  PROVE  LET next == Tail(queue) \o more
             rest == Len(queue) - 1
         IN  /\ Head(queue) = queue[1] /\ queue[1] \in DocAt /\ Len(queue) \in Nat \ {0}
             /\ Tail(queue) \in Seq(DocAt) /\ next \in Seq(DocAt) /\ Len(next) = rest + Len(more)
             /\ \A i \in 1..rest : next[i] = queue[i + 1]
             /\ \A i \in 1..Len(more) : next[rest + i] = more[i]
             /\ \A i \in 1..Len(next) : (i \in 1..rest /\ next[i] = queue[i + 1])
                                        \/ (i - rest \in 1..Len(more) /\ next[i] = more[i - rest])
<1>1. /\ Tail(queue) \in Seq(DocAt) /\ Len(Tail(queue)) = Len(queue) - 1
      /\ \A i \in 1..Len(Tail(queue)) : Tail(queue)[i] = queue[i + 1]
      /\ Head(queue) = queue[1] /\ Len(queue) \in Nat \ {0} /\ queue[1] \in DocAt
  OBVIOUS
<1> DEFINE rest == Len(queue) - 1
           next == Tail(queue) \o more
<1>2. rest \in Nat /\ Len(more) \in Nat /\ next \in Seq(DocAt) /\ Len(next) = rest + Len(more)
  <2>1. Len(more) \in Nat /\ rest \in Nat
    BY <1>1
  <2> QED
    BY <1>1, <2>1, ConcatProperties
<1>3. \A i \in 1..rest + Len(more) : next[i] = IF i <= rest THEN Tail(queue)[i] ELSE more[i - rest]
  BY <1>1, ConcatProperties
<1>4. \A i \in 1..rest : Tail(queue)[i] = queue[i + 1]
  BY <1>1
<1> HIDE DEF next, rest
<1>5. \A i \in 1..rest : next[i] = queue[i + 1]
  <2> SUFFICES ASSUME NEW i \in 1..rest PROVE next[i] = queue[i + 1]
    OBVIOUS
  <2>1. i \in 1..rest + Len(more) /\ i <= rest
    BY <1>2
  <2> QED
    BY <1>3, <1>4, <2>1
<1>6. \A i \in 1..Len(more) : next[rest + i] = more[i]
  <2> SUFFICES ASSUME NEW i \in 1..Len(more) PROVE next[rest + i] = more[i]
    OBVIOUS
  <2>1. rest + i \in 1..rest + Len(more) /\ ~(rest + i <= rest) /\ (rest + i) - rest = i
    BY <1>2
  <2> QED
    BY <1>3, <2>1
<1>7. \A i \in 1..Len(next) : (i \in 1..rest /\ next[i] = queue[i + 1])
                              \/ (i - rest \in 1..Len(more) /\ next[i] = more[i - rest])
  <2> SUFFICES ASSUME NEW i \in 1..rest + Len(more)
               PROVE  (i \in 1..rest /\ next[i] = queue[i + 1])
                      \/ (i - rest \in 1..Len(more) /\ next[i] = more[i - rest])
    BY <1>2
  <2>1. CASE i <= rest
    BY <1>2, <1>5, <2>1
  <2>2. CASE ~(i <= rest)
    <3>1. i - rest \in 1..Len(more)
      BY <1>2, <2>2
    <3> QED
      BY <1>3, <2>2, <3>1
  <2> QED
    BY <2>1, <2>2
<1> QED
  BY <1>1, <1>2, <1>5, <1>6, <1>7 DEF next, rest

-----------------------------------------------------------------------------
\* A number of locs.
LEMMA CountsTyped == \A us \in SUBSET Locs : Cardinality(us) \in Nat
BY SitemapBounds, FS_Subset, FS_CardinalityType

LEMMA NotCollectingTyped == NotCollecting \in PassShape
<1>1. <<>> \in Seq(DocAt)
  OBVIOUS
<1> QED
  BY <1>1, SitemapBounds
     DEF NotCollecting, NoCoverage, PassShape, Queues, DocSets, LocSets, FetchCounts, Statuses, AlertSets, PassPcs, Coverage

\* What the steps change of a pass.
Begun(p, pc, seed, queue, since) == [p EXCEPT !.pc = pc, !.seed = seed, !.queue = queue, !.since = since]
Read(p, queue, seen, n, st, part, us, m, cut) ==
  [p EXCEPT !.queue = queue, !.visited = seen, !.fetches = n, !.status = st, !.incomplete = part, !.pages = us,
            !.taken = m, !.trimmed = cut]
Alerted(p, pc, alerts) == [p EXCEPT !.pc = pc, !.alerts = alerts]

LEMMA BegunTyped ==
  ASSUME NEW p \in PassShape, NEW pc \in PassPcs, NEW seed \in Docs, NEW queue \in Queues, NEW since \in Nat
  PROVE  Begun(p, pc, seed, queue, since) \in PassShape /\ Begun(p, pc, seed, queue, since).since = since
BY DEF PassShape, Begun

LEMMA ReadTyped ==
  ASSUME NEW p \in PassShape, NEW queue \in Queues, NEW seen \in DocSets, NEW n \in FetchCounts,
         NEW st \in Statuses, NEW part \in BOOLEAN, NEW us \in LocSets, NEW m \in Nat, NEW cut \in BOOLEAN
  PROVE  /\ Read(p, queue, seen, n, st, part, us, m, cut) \in PassShape
         /\ Read(p, queue, seen, n, st, part, us, m, cut).since = p.since
BY DEF PassShape, Read

LEMMA AlertedTyped ==
  ASSUME NEW p \in PassShape, NEW pc \in PassPcs, NEW alerts \in AlertSets
  PROVE  Alerted(p, pc, alerts) \in PassShape /\ Alerted(p, pc, alerts).since = p.since
BY DEF PassShape, Alerted

LEMMA SeedsTyped ==
  SitemapSeeds \in Seq(Docs) /\ Head(SitemapSeeds) \in Docs /\ QueueOf(SitemapSeeds, 0) \in Seq(DocAt)
<1>1. SitemapSeeds \in Seq(Docs) /\ SitemapSeeds # <<>>
  <2>1. <<DefaultSeed>> \in Seq(Docs) /\ Len(<<DefaultSeed>>) = 1 /\ Len(<<>>) = 0
    BY SitemapBounds
  <2>2. <<DefaultSeed>> # <<>>
    BY <2>1
  <2> QED
    BY <2>1, <2>2, SitemapBounds DEF SitemapSeeds
<1>2. Head(SitemapSeeds) \in Docs
  BY <1>1, HeadTailProperties
<1> QED
  BY <1>1, <1>2, QueueOfTyped

LEMMA SnapshotTyped ==
  ASSUME SitemapTypes, ~NothingToSave
  PROVE  Snapshot \in BaselineShape /\ (baseline # NoBaseline => Alerts \in SUBSET Alert)
<1>1. pass \in PassShape /\ (baseline # NoBaseline => baseline \in BaselineShape)
  BY DEF SitemapTypes
<1>2. /\ pass.pages \in SUBSET Locs /\ pass.status \in {0, 200, 404} /\ pass.coverage \in Coverage
      /\ pass.incomplete \in BOOLEAN /\ pass.since \in Nat /\ pass.trimmed \in BOOLEAN
  BY <1>1 DEF PassShape, LocSets, Statuses
<1>3. pass.incomplete => baseline # NoBaseline
  BY DEF NothingToSave
<1>4. baseline # NoBaseline => /\ baseline.hash \in SUBSET Locs /\ baseline.urls \in SUBSET Locs /\ baseline.since \in Nat
                               /\ baseline.trimmed \in BOOLEAN
  BY <1>1 DEF BaselineShape
<1>5. Snapshot \in BaselineShape
  <2>1. /\ BaselineHash \in SUBSET Locs /\ (IF pass.incomplete THEN baseline.since ELSE pass.since) \in Nat
        /\ (IF pass.incomplete THEN baseline.trimmed ELSE pass.trimmed) \in BOOLEAN
    BY <1>2, <1>3, <1>4 DEF BaselineHash
  <2>2. Capped \in BOOLEAN /\ (IF Capped THEN {} ELSE pass.pages) \in SUBSET Locs
    BY <1>2 DEF Capped
  <2> QED
    BY <1>2, <2>1, <2>2 DEF Snapshot, BaselineShape
<1>6. baseline # NoBaseline => Dropped \in SUBSET Locs
  BY <1>4 DEF Dropped
<1>7. baseline # NoBaseline => Alerts \in SUBSET Alert
  BY <1>6 DEF Alerts, Alert
<1> QED
  BY <1>5, <1>7

\* What a fetch leaves of a pass.
LEMMA FetchReads ==
  ASSUME NEW item, NEW kept
  PROVE  LET more == IF Usable(item.doc) THEN QueueOf(Children(item.doc), item.level + 1) ELSE <<>>
             st == IF item.doc # pass.seed THEN pass.status ELSE IF health[item.doc] = "missing" THEN 404 ELSE 200
             cut == pass.trimmed \/ kept # Entries(item.doc) \/ Children(item.doc) # ChildrenOf[item.doc]
         IN Fetched(item, kept) =
              Read(pass, Tail(pass.queue) \o more, pass.visited \cup {item.doc}, pass.fetches + 1, st,
                   pass.incomplete \/ ~Usable(item.doc), pass.pages \cup kept, pass.taken + Cardinality(kept), cut)
BY DEF Fetched, Read

LEMMA FittingTyped ==
  ASSUME NEW us \in SUBSET Locs, NEW kept \in Fitting(us)
  PROVE  kept \in SUBSET us /\ Cardinality(kept) \in Nat
<1>1. kept \in SUBSET us
  BY DEF Fitting
<1> QED
  BY <1>1, CountsTyped

LEMMA ChildrenTyped == ASSUME NEW d \in Docs PROVE Children(d) \in Seq(Docs)
<1>1. ChildrenOf[d] \in Seq(Docs) /\ PageBudget \in Nat
  BY SitemapBounds
<1>2. CASE PageBudget > 0 /\ Len(ChildrenOf[d]) > PageBudget
  <2>1. \A i \in 1..PageBudget : i \in 1..Len(ChildrenOf[d])
    BY <1>1, <1>2
  <2>2. SubSeq(ChildrenOf[d], 1, PageBudget) \in Seq(Docs)
    BY <1>1, <1>2, <2>1, SubSeqProperties
  <2> QED
    BY <1>2, <2>2 DEF Children
<1> QED
  BY <1>1, <1>2 DEF Children

\* The types.
LEMMA SitemapTyped == SitemapTypes /\ [SitemapNext]_sitemapVars => SitemapTypes'
<1> SUFFICES ASSUME SitemapTypes, [SitemapNext]_sitemapVars PROVE SitemapTypes'
  OBVIOUS
<1>0. /\ inSitemap \in [Locs -> {"absent", "no", "yes"}] /\ crawled \in SUBSET Rows /\ pass \in PassShape
      /\ content \in [Docs -> SUBSET Locs] /\ \A d \in Docs : content[d] \in Contents[d]
      /\ health \in [Docs -> {"ok", "missing", "cut"}]
      /\ gate \in {"open"} \cup Closings
      /\ edits \in Nat /\ outages \in Nat
      /\ pass.pc # "idle" => pass.since <= edits
  BY DEF SitemapTypes
<1>1. CASE UNCHANGED sitemapVars
  BY <1>1 DEF sitemapVars, SitemapTypes, Rows
<1>2. ASSUME NEW p \in PassShape, pass' = p, UNCHANGED <<store, world>>, p.pc # "idle" => p.since <= edits
      PROVE  SitemapTypes'
  BY <1>2 DEF SitemapTypes, store, world, Rows
<1>3. ASSUME UNCHANGED <<pass, baseline, inSitemap, crawled>>, edits' \in Nat, outages' \in Nat, edits <= edits',
             content' \in [Docs -> SUBSET Locs], \A d \in Docs : content'[d] \in Contents[d],
             health' \in [Docs -> {"ok", "missing", "cut"}], gate' \in {"open"} \cup Closings
      PROVE  SitemapTypes'
  <2>1. pass.pc # "idle" => pass.since \in Nat /\ pass.since <= edits'
    BY <1>0, <1>3 DEF PassShape
  <2> QED
    BY <1>3, <2>1 DEF SitemapTypes, Rows
<1>4. ASSUME NEW d \in Docs, Publish(d) PROVE SitemapTypes'
  <2>1. PICK c \in Contents[d] : content' = [content EXCEPT ![d] = c]
    BY <1>4 DEF Publish
  <2>2. c \in SUBSET Locs
    BY <2>1, SitemapBounds
  <2>3. UNCHANGED <<pass, baseline, inSitemap, crawled, outages, health, gate>> /\ edits' = edits + 1
    BY <1>4 DEF Publish, store
  <2> QED
    BY <1>0, <1>3, <2>1, <2>2, <2>3
<1>5. ASSUME NEW d \in Docs, HealthChanges(d) PROVE SitemapTypes'
  <2>1. UNCHANGED <<pass, baseline, inSitemap, crawled, outages, content, gate, edits>>
    BY <1>5 DEF HealthChanges, store
  <2>2. health' \in [Docs -> {"ok", "missing", "cut"}]
    BY <1>0, <1>5 DEF HealthChanges
  <2> QED
    BY <1>0, <1>3, <2>1, <2>2
<1>6. CASE GateCloses \/ GateOpens
  BY <1>0, <1>3, <1>6 DEF GateCloses, GateOpens, store
<1>7. ASSUME NEW r \in [Locs -> {"absent", "no", "yes"}], inSitemap' = r, \A u \in Rows : r[u] # "absent",
             crawled' \in SUBSET Rows, baseline' = baseline, UNCHANGED world,
             pass' \in PassShape, pass'.pc # "idle" => pass'.since <= edits
      PROVE  SitemapTypes'
  BY <1>7 DEF SitemapTypes, world, Rows
<1>8. ASSUME NEW u \in Locs, CrawlPage(u) PROVE SitemapTypes'
  BY <1>0, <1>7, <1>8 DEF CrawlPage, Rows
<1>9. ASSUME NEW u \in Locs, FindLink(u) PROVE SitemapTypes'
  <2>1. inSitemap' \in [Locs -> {"absent", "no", "yes"}] /\ \A v \in Rows : inSitemap'[v] # "absent"
    BY <1>0, <1>9 DEF FindLink, Rows
  <2> QED
    BY <1>0, <1>7, <1>9, <2>1 DEF FindLink
<1>10. CASE Collect
  <2> DEFINE p == [NotCollecting EXCEPT
                     !.pc = IF gate = "off" THEN "reconcile" ELSE "walk", !.seed = Head(SitemapSeeds),
                     !.queue = IF gate = "off" THEN <<>> ELSE QueueOf(SitemapSeeds, 0), !.since = edits]
  <2>1. p \in PassShape /\ p.since = edits
    <3> DEFINE pc == IF gate = "off" THEN "reconcile" ELSE "walk"
               queue == IF gate = "off" THEN <<>> ELSE QueueOf(SitemapSeeds, 0)
               seed == Head(SitemapSeeds)
    <3>1. <<>> \in Seq(DocAt)
      OBVIOUS
    <3>2. queue \in Seq(DocAt) /\ pc \in PassPcs /\ seed \in Docs /\ edits \in Nat
      BY <1>0, <3>1, SeedsTyped DEF PassPcs
    <3>3. p = Begun(NotCollecting, pc, seed, queue, edits)
      BY DEF Begun
    <3> HIDE DEF pc, queue, seed, p
    <3> QED
      BY <3>2, <3>3, NotCollectingTyped, BegunTyped DEF Queues
  <2>2. pass' = p /\ UNCHANGED <<store, world>>
    BY <1>10 DEF Collect
  <2> HIDE DEF p
  <2> QED
    BY <1>0, <1>2, <2>1, <2>2
<1>11. CASE SkipDoc
  <2>1. pass.queue \in Seq(DocAt) /\ pass.queue # <<>> /\ pass.pc = "walk" /\ pass.visited \in SUBSET Docs
    BY <1>0, <1>11 DEF PassShape, Queues, DocSets, SkipDoc, WalkOn
  <2>2. Tail(pass.queue) \in Seq(DocAt) /\ Head(pass.queue) \in DocAt
    BY <2>1, HeadTailProperties
  <2>3. pass.visited \cup {Head(pass.queue).doc} \in SUBSET Docs
    BY <2>1, <2>2 DEF DocAt
  <2> DEFINE p == [pass EXCEPT !.queue = Tail(@), !.visited = @ \cup {Head(pass.queue).doc}]
  <2>4. p \in PassShape /\ p.since = pass.since
    BY <1>0, <2>2, <2>3 DEF PassShape, Queues, DocSets
  <2>5. pass' = p /\ UNCHANGED <<store, world>>
    BY <1>11 DEF SkipDoc
  <2> HIDE DEF p
  <2> QED
    BY <1>0, <1>2, <2>1, <2>4, <2>5
<1>12. CASE FetchDoc
  <2> DEFINE item == Head(pass.queue)
             more == IF Usable(item.doc) THEN QueueOf(Children(item.doc), item.level + 1) ELSE <<>>
             st == IF item.doc # pass.seed THEN pass.status ELSE IF health[item.doc] = "missing" THEN 404 ELSE 200
  <2>1. /\ pass.queue \in Seq(DocAt) /\ pass.queue # <<>> /\ pass.pc = "walk" /\ pass.visited \in SUBSET Docs
        /\ pass.fetches \in 0..SitemapLimit /\ pass.fetches < SitemapLimit /\ pass.pages \in SUBSET Locs
        /\ pass.status \in {0, 200, 404} /\ pass.taken \in Nat /\ pass.incomplete \in BOOLEAN
        /\ pass.trimmed \in BOOLEAN
    BY <1>0, <1>12 DEF PassShape, Queues, DocSets, LocSets, FetchCounts, Statuses, FetchDoc, WalkOn
  <2>2. item \in DocAt /\ item.doc \in Docs /\ item.level \in Nat
    <3>1. item \in DocAt
      BY <2>1, HeadTailProperties
    <3> QED
      BY <3>1 DEF DocAt
  <2>3. more \in Seq(DocAt)
    <3>1. <<>> \in Seq(DocAt)
      OBVIOUS
    <3>2. Children(item.doc) \in Seq(Docs) /\ item.level + 1 \in Nat
      BY <2>2, ChildrenTyped
    <3>3. QueueOf(Children(item.doc), item.level + 1) \in Seq(DocAt)
      BY <3>2, QueueOfTyped
    <3> QED
      BY <3>1, <3>3
  <2>4. Tail(pass.queue) \o more \in Seq(DocAt)
    BY <2>1, <2>3, QueueMoves
  <2>5. Entries(item.doc) \in SUBSET Locs
    BY <1>0, <2>2 DEF Entries
  <2>6. PICK kept \in Fitting(Entries(item.doc)) : pass' = Fetched(item, kept)
    BY <1>12 DEF FetchDoc
  <2>7. kept \in SUBSET Locs /\ Cardinality(kept) \in Nat
    BY <2>5, FittingTyped
  <2> DEFINE queue == Tail(pass.queue) \o more
             part == pass.incomplete \/ ~Usable(item.doc)
             seen == pass.visited \cup {item.doc}
             n == pass.fetches + 1
             m == pass.taken + Cardinality(kept)
             read == pass.pages \cup kept
             cut == pass.trimmed \/ kept # Entries(item.doc) \/ Children(item.doc) # ChildrenOf[item.doc]
  <2>8. /\ queue \in Queues /\ seen \in DocSets /\ n \in FetchCounts /\ st \in Statuses /\ m \in Nat
        /\ read \in LocSets
    BY <2>1, <2>2, <2>4, <2>7, SitemapBounds DEF Queues, DocSets, LocSets, FetchCounts, Statuses
  <2>9. part \in BOOLEAN /\ cut \in BOOLEAN
    BY <2>1
  <2>10. pass' = Read(pass, queue, seen, n, st, part, read, m, cut)
    BY <2>6, FetchReads
  <2>11. UNCHANGED <<store, world>>
    BY <1>12 DEF FetchDoc
  <2> HIDE DEF queue, part, seen, n, m, read, cut, st, more, item
  <2>12. pass' \in PassShape /\ pass'.since = pass.since
    BY <1>0, <2>8, <2>9, <2>10, ReadTyped
  <2> QED
    BY <1>0, <1>2, <2>1, <2>11, <2>12
<1>13. CASE EndWalk
  <2> DEFINE part == pass.incomplete \/ (pass.queue # <<>> /\ pass.fetches >= SitemapLimit)
             cut == pass.trimmed \/ pass.queue # <<>>
             p == [pass EXCEPT !.pc = "admit", !.incomplete = part, !.trimmed = cut]
  <2>1. p \in PassShape /\ p.since = pass.since
    <3>1. pass \in PassShape /\ "admit" \in PassPcs
      BY <1>0 DEF PassPcs
    <3>2. part \in BOOLEAN /\ cut \in BOOLEAN
      BY <3>1 DEF PassShape
    <3> HIDE DEF part, cut
    <3> QED
      BY <3>1, <3>2 DEF PassShape
  <2>2. pass' = p /\ UNCHANGED <<store, world>> /\ pass.pc = "walk"
    BY <1>13 DEF EndWalk
  <2> HIDE DEF p
  <2> QED
    BY <1>0, <1>2, <2>1, <2>2
<1>14. CASE AdmitPages \/ ReconcileSitemapMembership
  <2>1. PICK pc \in {"reconcile", "count"} : pass' = [pass EXCEPT !.pc = pc] /\ pass.pc # "idle"
    BY <1>14 DEF AdmitPages, ReconcileSitemapMembership
  <2>2. pass' \in PassShape /\ pass'.since = pass.since
    <3>1. pc \in PassPcs /\ pass \in PassShape
      BY <1>0, <2>1 DEF PassPcs
    <3>2. pass' = [pass EXCEPT !.pc = pc]
      BY <2>1
    <3> QED
      BY <3>1, <3>2 DEF PassShape
  <2>3. inSitemap' \in [Locs -> {"absent", "no", "yes"}] /\ \A v \in Rows : inSitemap'[v] # "absent"
    <3>1. CASE AdmitPages
      <4>1. PICK admitted : inSitemap' = [v \in Locs |-> IF v \in admitted THEN "yes" ELSE inSitemap[v]]
        BY <3>1 DEF AdmitPages
      <4> QED
        BY <1>0, <4>1 DEF Rows
    <3>2. CASE ReconcileSitemapMembership
      BY <1>0, <3>2 DEF ReconcileSitemapMembership, Rows, Flagged
    <3> QED
      BY <1>14, <3>1, <3>2
  <2>4. UNCHANGED <<crawled, baseline, world>>
    BY <1>14 DEF AdmitPages, ReconcileSitemapMembership
  <2> QED
    BY <1>0, <1>7, <2>1, <2>2, <2>3, <2>4
<1>15. CASE SitemapLiveCounts
  <2>1. pass' = [pass EXCEPT !.pc = "save", !.coverage = LiveCoverage] /\ UNCHANGED <<store, world>> /\ pass.pc = "count"
    BY <1>15 DEF SitemapLiveCounts
  <2>2. /\ pass.pages \in SUBSET Locs /\ Flagged \in SUBSET Locs /\ Flagged \ crawled \in SUBSET Locs
        /\ (Rows \ Flagged) \cap crawled \in SUBSET Locs
    BY <1>0 DEF PassShape, LocSets, Flagged, Rows
  <2>3. LiveCoverage \in Coverage
    BY <2>2, CountsTyped DEF Coverage, LiveCoverage
  <2>4. pass' \in PassShape /\ pass'.since = pass.since
    BY <1>0, <2>1, <2>3 DEF PassShape, PassPcs
  <2> QED
    BY <1>0, <1>2, <2>1, <2>4
<1>16. CASE SkipSave \/ EndPass \/ PassBreaks
  <2>1. pass' = NotCollecting /\ UNCHANGED <<store, world>>
    BY <1>16 DEF SkipSave, EndPass, PassBreaks
  <2>2. NotCollecting.pc = "idle"
    BY DEF NotCollecting
  <2> QED
    BY <1>2, <2>1, <2>2, NotCollectingTyped
<1>17. CASE SaveSnapshot
  <2>1. Snapshot \in BaselineShape /\ (baseline # NoBaseline => Alerts \in SUBSET Alert)
    BY <1>17, SnapshotTyped DEF SaveSnapshot
  <2>2. /\ pass' = (IF baseline = NoBaseline THEN NotCollecting ELSE [pass EXCEPT !.pc = "alert", !.alerts = Alerts])
        /\ baseline' = Snapshot /\ UNCHANGED <<inSitemap, crawled, world>> /\ pass.pc = "save"
    BY <1>17 DEF SaveSnapshot
  <2>3. NotCollecting.pc = "idle"
    BY DEF NotCollecting
  <2>4. pass' \in PassShape /\ (pass'.pc # "idle" => pass'.since = pass.since)
    <3>1. CASE baseline = NoBaseline
      BY <2>2, <2>3, <3>1, NotCollectingTyped
    <3>2. CASE baseline # NoBaseline
      <4>1. "alert" \in PassPcs /\ pass' = Alerted(pass, "alert", Alerts)
        BY <2>2, <3>2 DEF PassPcs, Alerted
      <4> QED
        BY <1>0, <2>1, <3>2, <4>1, AlertedTyped DEF AlertSets
    <3> QED
      BY <3>1, <3>2
  <2> QED
    BY <1>0, <2>1, <2>2, <2>4 DEF SitemapTypes, world, Rows
<1>18. CASE \E a \in pass.alerts : Ingest(a) \/ IngestFails(a)
  <2>1. PICK a \in pass.alerts : pass' = [pass EXCEPT !.alerts = @ \ {a}] /\ UNCHANGED <<store, world>> /\ pass.pc = "alert"
    BY <1>18 DEF Ingest, IngestFails
  <2>2. pass' \in PassShape /\ pass'.since = pass.since
    BY <1>0, <2>1 DEF PassShape, AlertSets
  <2> QED
    BY <1>0, <1>2, <2>1, <2>2
<1> QED
  BY <1>1, <1>4, <1>5, <1>6, <1>8, <1>9, <1>10, <1>11, <1>12, <1>13, <1>14, <1>15, <1>16, <1>17, <1>18
     DEF SitemapNext, RefreshSitemap

-----------------------------------------------------------------------------
\* What the documents in reach declare.
Published == UNION {content[d] : d \in Walked}

\* A document was read at this level or before, or it waits in the queue.
Awaited(queue, seen, lv, d, l) ==
  \/ d \in seen /\ lv[d] <= l
  \/ \E k \in 1..Len(queue) : queue[k] = [doc |-> d, level |-> l]

\* The walk goes level by level.
InOrder(queue) ==
  \A i, j \in 1..Len(queue) : i <= j => /\ queue[i].level <= queue[j].level
                                        /\ queue[j].level <= queue[i].level + 1
Behind(queue, seen, lv) == \A i \in 1..Len(queue) : \A d \in seen : lv[d] <= queue[i].level

\* What was read of a document that is not too deep.
ReadOf(d, lv) ==
  lv[d] <= DeepestIndex =>
    /\ <<d, lv[d]>> \in InReach
    /\ \E c \in Contents[d] : c \subseteq pass.pages
    /\ pass.since = edits => content[d] \subseteq pass.pages
    /\ \A i \in 1..Len(ChildrenOf[d]) :
         Awaited(pass.queue, pass.visited, lv, ChildrenOf[d][i], lv[d] + 1)

\* A walk, with the level each document was read at.
Searched(lv) ==
  /\ \A i \in 1..Len(Declared) : Awaited(pass.queue, pass.visited, lv, Declared[i], 0)
  /\ \A d \in pass.visited : ReadOf(d, lv)
  /\ InOrder(pass.queue) /\ Behind(pass.queue, pass.visited, lv)
  /\ \A k \in 1..Len(pass.queue) :
       pass.queue[k].level <= DeepestIndex => <<pass.queue[k].doc, pass.queue[k].level>> \in InReach
  /\ pass.since = edits => pass.pages \subseteq Published

Undisturbed == ~pass.incomplete /\ ~pass.trimmed /\ outages = 0
OpenWithoutOutage == outages = 0 => gate = "open"
WalkGoesOn == pass.pc = "walk" /\ Undisturbed => \E lv \in [Docs -> Nat] : Searched(lv)
ReadAll ==
  pass.pc \in {"admit", "reconcile", "count", "save"} /\ Undisturbed =>
    /\ Always \subseteq pass.pages
    /\ pass.since = edits => pass.pages = Published
Remembered ==
  baseline # NoBaseline =>
    /\ baseline.since <= edits
    /\ pass.pc # "idle" => baseline.since <= pass.since
    /\ outages = 0 /\ ~baseline.trimmed /\ baseline.since = edits => baseline.hash = Published

SitemapInv == SitemapTypes /\ OpenWithoutOutage /\ WalkGoesOn /\ ReadAll /\ Remembered

\* The documents in reach: those declared, and those that documents in reach
\* list; no set of places that has these leaves one of them out.
LEMMA ReachHolds ==
  /\ \A i \in 1..Len(Declared) : <<Declared[i], 0>> \in InReach
  /\ \A d \in Docs, l \in Nat :
       <<d, l>> \in InReach => d \in Walked /\ l <= DeepestIndex
  /\ \A d \in Docs, l \in Nat : <<d, l>> \in InReach /\ l < DeepestIndex =>
       \A i \in 1..Len(ChildrenOf[d]) : <<ChildrenOf[d][i], l + 1>> \in InReach
<1>0. /\ \A i \in 1..Len(Declared) : Declared[i] \in Docs /\ <<Declared[i], 0>> \in Places
      /\ DOMAIN Declared = 1..Len(Declared)
      /\ \A d \in Docs : DOMAIN ChildrenOf[d] = 1..Len(ChildrenOf[d])
  BY SitemapBounds DEF Places
<1>1. \A i \in 1..Len(Declared) : <<Declared[i], 0>> \in InReach
  BY <1>0 DEF InReach, ClosedUnderLists
<1>2. ASSUME NEW d \in Docs, NEW l \in Nat, <<d, l>> \in InReach PROVE d \in Walked /\ l <= DeepestIndex
  <2>1. <<d, l>> \in Places
    BY <1>2 DEF InReach
  <2>2. l \in 0..DeepestIndex
    BY <2>1 DEF Places
  <2>3. <<d, l>>[1] = d
    OBVIOUS
  <2> QED
    BY <1>2, <2>2, <2>3, SitemapBounds DEF Walked
<1>3. ASSUME NEW d \in Docs, NEW l \in Nat, <<d, l>> \in InReach, l < DeepestIndex,
             NEW i \in 1..Len(ChildrenOf[d])
      PROVE  <<ChildrenOf[d][i], l + 1>> \in InReach
  <2>1. ChildrenOf[d][i] \in Docs /\ l + 1 \in 0..DeepestIndex
    BY <1>3, SitemapBounds
  <2>2. <<ChildrenOf[d][i], l + 1>> \in Places
    BY <2>1 DEF Places
  <2>3. ASSUME NEW found \in SUBSET Places, ClosedUnderLists(found)
        PROVE  <<ChildrenOf[d][i], l + 1>> \in found
    <3>1. <<d, l>> \in found
      BY <1>3, <2>3 DEF InReach
    <3>2. <<d, l>>[1] = d /\ <<d, l>>[2] = l
      OBVIOUS
    <3> QED
      BY <1>0, <1>3, <2>3, <3>1, <3>2 DEF ClosedUnderLists
  <2> QED
    BY <2>2, <2>3 DEF InReach
<1> QED
  BY <1>1, <1>2, <1>3

\* The first document of the queue is taken and its children wait behind the
\* others: nothing awaited is lost and the order is kept.
HeadTaken(queue, more, seen, lv, d0, l0, lw) ==
  /\ queue \in Seq(DocAt) /\ queue # <<>> /\ more \in Seq(DocAt) /\ seen \in SUBSET Docs
  /\ lv \in [Docs -> Nat] /\ InOrder(queue) /\ Behind(queue, seen, lv)
  /\ d0 \in Docs /\ l0 \in Nat /\ Head(queue) = [doc |-> d0, level |-> l0]
  /\ \A i \in 1..Len(more) : more[i].level = l0 + 1
  /\ lw \in [Docs -> Nat] /\ (\A d \in seen : lw[d] = lv[d]) /\ (d0 \notin seen => lw[d0] = l0)
KeptByTaking(queue, more, seen, lv, d0, lw, next) ==
  /\ InOrder(next) /\ Behind(next, seen \cup {d0}, lw)
  /\ \A d \in Docs, l \in Nat : Awaited(queue, seen, lv, d, l) => Awaited(next, seen \cup {d0}, lw, d, l)
  /\ \A i \in 1..Len(more) : \E k \in 1..Len(next) : next[k] = more[i]
  /\ \A k \in 1..Len(next) : \/ \E j \in 1..Len(queue) : next[k] = queue[j]
                            \/ \E i \in 1..Len(more) : next[k] = more[i]

LEMMA QueueTaken ==
  ASSUME NEW queue, NEW more, NEW seen, NEW lv, NEW d0, NEW l0, NEW lw,
         HeadTaken(queue, more, seen, lv, d0, l0, lw)
  PROVE  KeptByTaking(queue, more, seen, lv, d0, lw, Tail(queue) \o more)
<1>0. /\ queue \in Seq(DocAt) /\ queue # <<>> /\ more \in Seq(DocAt) /\ seen \in SUBSET Docs
      /\ lv \in [Docs -> Nat] /\ InOrder(queue) /\ Behind(queue, seen, lv)
      /\ d0 \in Docs /\ l0 \in Nat /\ Head(queue) = [doc |-> d0, level |-> l0]
      /\ \A i \in 1..Len(more) : more[i].level = l0 + 1
      /\ lw \in [Docs -> Nat] /\ (\A d \in seen : lw[d] = lv[d]) /\ (d0 \notin seen => lw[d0] = l0)
  BY DEF HeadTaken
<1> USE <1>0
<1> DEFINE next == Tail(queue) \o more
           rest == Len(queue) - 1
<1>1. /\ queue[1] = [doc |-> d0, level |-> l0] /\ Len(queue) \in Nat \ {0} /\ rest \in Nat
      /\ Len(more) \in Nat /\ Len(next) = rest + Len(more) /\ next \in Seq(DocAt)
      /\ \A i \in 1..rest : next[i] = queue[i + 1]
      /\ \A i \in 1..Len(more) : next[rest + i] = more[i]
      /\ \A i \in 1..Len(next) : (i \in 1..rest /\ next[i] = queue[i + 1])
                                 \/ (i - rest \in 1..Len(more) /\ next[i] = more[i - rest])
  <2>1. Len(queue) \in Nat \ {0} /\ Len(more) \in Nat /\ rest \in Nat
    OBVIOUS
  <2> QED
    BY <2>1, QueueMoves
<1> HIDE DEF next
<1>2. /\ \A i \in 1..Len(queue) : queue[i].level \in Nat /\ l0 <= queue[i].level /\ queue[i].level <= l0 + 1
      /\ \A i \in 1..Len(next) : next[i].level \in Nat
  <2>1. \A i \in 1..Len(queue) : queue[i] \in DocAt
    OBVIOUS
  <2>2. \A i \in 1..Len(next) : next[i] \in DocAt
    BY <1>1
  <2>3. 1 \in 1..Len(queue) /\ queue[1].level = l0 /\ \A i \in 1..Len(queue) : 1 <= i
    BY <1>1
  <2>4. \A i \in 1..Len(queue) : queue[1].level <= queue[i].level /\ queue[i].level <= queue[1].level + 1
    BY <2>3 DEF InOrder
  <2> QED
    BY <2>1, <2>2, <2>3, <2>4 DEF DocAt
<1>3. \A i \in 1..rest : i + 1 \in 1..Len(queue)
  BY <1>1
<1>4. \A i \in 1..Len(next) : l0 <= next[i].level /\ next[i].level <= l0 + 1
  <2> SUFFICES ASSUME NEW i \in 1..Len(next) PROVE l0 <= next[i].level /\ next[i].level <= l0 + 1
    OBVIOUS
  <2>1. CASE i \in 1..rest /\ next[i] = queue[i + 1]
    BY <1>2, <1>3, <2>1
  <2>2. CASE i - rest \in 1..Len(more) /\ next[i] = more[i - rest]
    <3>1. next[i].level = l0 + 1
      BY <2>2
    <3> QED
      BY <3>1
  <2> QED
    BY <1>1, <2>1, <2>2
<1>5. InOrder(next)
  <2> SUFFICES ASSUME NEW i \in 1..Len(next), NEW j \in 1..Len(next), i <= j
               PROVE  next[i].level <= next[j].level /\ next[j].level <= next[i].level + 1
    BY DEF InOrder
  <2>1. next[i].level \in Nat /\ next[j].level \in Nat /\ next[j].level <= next[i].level + 1
    BY <1>2, <1>4
  <2>2. CASE j \in 1..rest /\ next[j] = queue[j + 1]
    <3>1. i \in 1..rest
      <4>1. rest \in Nat /\ Len(next) \in Nat
        BY <1>1
      <4> HIDE DEF rest
      <4> QED
        BY <2>2, <4>1
    <3>2. next[i] = queue[i + 1] /\ i + 1 \in 1..Len(queue) /\ j + 1 \in 1..Len(queue) /\ i + 1 <= j + 1
      <4>1. \A k \in 1..rest : next[k] = queue[k + 1]
        BY <1>1
      <4>2. \A k \in 1..rest : k + 1 \in 1..Len(queue)
        BY <1>3
      <4>3. i + 1 <= j + 1
        OBVIOUS
      <4> HIDE DEF rest
      <4> QED
        BY <2>2, <3>1, <4>1, <4>2, <4>3
    <3>3. queue[i + 1].level <= queue[j + 1].level
      BY <3>2 DEF InOrder
    <3> QED
      BY <2>1, <2>2, <3>2, <3>3
  <2>3. CASE j - rest \in 1..Len(more) /\ next[j] = more[j - rest]
    <3>1. next[j].level = l0 + 1
      BY <2>3
    <3>2. next[i].level <= l0 + 1
      BY <1>4
    <3> QED
      BY <2>1, <3>1, <3>2
  <2> QED
    BY <1>1, <2>2, <2>3
<1>6. Behind(next, seen \cup {d0}, lw)
  <2> SUFFICES ASSUME NEW i \in 1..Len(next), NEW d \in seen \cup {d0} PROVE lw[d] <= next[i].level
    BY DEF Behind
  <2>1. d \in Docs /\ lw[d] \in Nat /\ next[i].level \in Nat /\ l0 <= next[i].level
    BY <1>2, <1>4
  <2>2. \A e \in seen : lv[e] <= l0
    <3>1. 1 \in 1..Len(queue) /\ queue[1].level = l0
      BY <1>1
    <3> QED
      BY <3>1 DEF Behind
  <2>3. lw[d] <= l0
    BY <2>2
  <2> QED
    BY <2>1, <2>3
<1>7. ASSUME NEW d \in Docs, NEW l \in Nat, Awaited(queue, seen, lv, d, l)
      PROVE  Awaited(next, seen \cup {d0}, lw, d, l)
  <2>1. CASE d \in seen /\ lv[d] <= l
    BY <2>1 DEF Awaited
  <2>2. ASSUME NEW k \in 1..Len(queue), queue[k] = [doc |-> d, level |-> l]
        PROVE  Awaited(next, seen \cup {d0}, lw, d, l)
    <3>1. CASE k = 1
      <4>1. d = d0 /\ l = l0
        BY <1>1, <2>2, <3>1
      <4>2. lw[d0] <= l0
        <5>1. CASE d0 \in seen
          <6>1. 1 \in 1..Len(queue) /\ queue[1].level = l0
            BY <1>1
          <6> QED
            BY <5>1, <6>1 DEF Behind
        <5>2. CASE d0 \notin seen
          BY <5>2
        <5> QED
          BY <5>1, <5>2
      <4> QED
        BY <4>1, <4>2 DEF Awaited
    <3>2. CASE k # 1
      <4>1. k - 1 \in 1..rest /\ k - 1 \in 1..Len(next) /\ (k - 1) + 1 = k
        BY <1>1, <3>2
      <4>2. next[k - 1] = queue[k]
        BY <1>1, <4>1
      <4> QED
        BY <2>2, <4>1, <4>2 DEF Awaited
    <3> QED
      BY <3>1, <3>2
  <2> QED
    BY <1>7, <2>1, <2>2 DEF Awaited
<1>8. ASSUME NEW i \in 1..Len(more) PROVE \E k \in 1..Len(next) : next[k] = more[i]
  <2>1. rest + i \in 1..Len(next)
    BY <1>1
  <2> QED
    BY <1>1, <2>1
<1>9. ASSUME NEW k \in 1..Len(next)
      PROVE  \/ \E j \in 1..Len(queue) : next[k] = queue[j]
             \/ \E i \in 1..Len(more) : next[k] = more[i]
  BY <1>1, <1>3
<1> QED
  BY <1>5, <1>6, <1>7, <1>8, <1>9 DEF next, KeptByTaking

-----------------------------------------------------------------------------
\* The walk takes the document at the head of its queue: it passes it over, or
\* reads it and puts its children at the end.
Takes(d0, l0, more) ==
  /\ pass.queue # <<>> /\ Head(pass.queue) = [doc |-> d0, level |-> l0]
  /\ pass'.queue = Tail(pass.queue) \o more /\ pass'.visited = pass.visited \cup {d0}
  /\ pass'.since = pass.since
  /\ UNCHANGED <<content, edits>>
  /\ \/ /\ d0 \in pass.visited \/ l0 > DeepestIndex
        /\ more = <<>> /\ pass'.pages = pass.pages
     \/ /\ d0 \notin pass.visited /\ l0 <= DeepestIndex
        /\ more = QueueOf(ChildrenOf[d0], l0 + 1) /\ pass'.pages = pass.pages \cup content[d0]

\* The children of an index, at the end of the queue.
LEMMA ChildrenQueued ==
  ASSUME NEW d \in Docs, NEW l \in Nat
  PROVE  /\ Len(QueueOf(ChildrenOf[d], l + 1)) = Len(ChildrenOf[d])
         /\ \A i \in 1..Len(ChildrenOf[d]) :
              QueueOf(ChildrenOf[d], l + 1)[i] = [doc |-> ChildrenOf[d][i], level |-> l + 1]
<1>1. ChildrenOf[d] \in Seq(Docs) /\ l + 1 \in Nat
  BY SitemapBounds
<1> DEFINE docs == ChildrenOf[d]
           level == l + 1
<1>2. docs \in Seq(Docs) /\ level \in Nat
  BY <1>1
<1> HIDE DEF docs, level
<1>3. /\ Len(QueueOf(docs, level)) = Len(docs)
      /\ \A i \in 1..Len(docs) : QueueOf(docs, level)[i] = [doc |-> docs[i], level |-> level]
  BY <1>2, QueueOfTyped
<1> QED
  BY <1>3 DEF docs, level

\* What it takes keeps the search.
LEMMA SearchGoesOn ==
  ASSUME SitemapTypes, NEW lv \in [Docs -> Nat], Searched(lv),
         NEW d0 \in Docs, NEW l0 \in Nat, NEW more \in Seq(DocAt), Takes(d0, l0, more)
  PROVE  \E lw \in [Docs -> Nat] : Searched(lw)'
<1>1. PICK lw \in [Docs -> Nat] : (\A d \in pass.visited : lw[d] = lv[d]) /\ (d0 \notin pass.visited => lw[d0] = l0)
  <2> DEFINE lw == IF d0 \in pass.visited THEN lv ELSE [lv EXCEPT ![d0] = l0]
  <2>1. lw \in [Docs -> Nat] /\ (\A d \in pass.visited : lw[d] = lv[d]) /\ (d0 \notin pass.visited => lw[d0] = l0)
    OBVIOUS
  <2> QED
    BY <2>1
<1>2. /\ pass.queue \in Seq(DocAt) /\ pass.visited \in SUBSET Docs /\ pass.pages \in SUBSET Locs
      /\ content[d0] \in Contents[d0]
  BY DEF SitemapTypes, PassShape, Queues, DocSets, LocSets
<1> DEFINE reads == d0 \notin pass.visited /\ l0 <= DeepestIndex
<1>3. /\ ~reads => more = <<>> /\ Len(more) = 0 /\ pass'.pages = pass.pages
      /\ reads => /\ pass'.pages = pass.pages \cup content[d0]
                  /\ Len(more) = Len(ChildrenOf[d0])
                  /\ \A i \in 1..Len(ChildrenOf[d0]) : more[i] = [doc |-> ChildrenOf[d0][i], level |-> l0 + 1]
      /\ \A i \in 1..Len(more) : more[i].level = l0 + 1
      /\ pass'.since = pass.since /\ edits' = edits /\ content' = content /\ pass'.visited = pass.visited \cup {d0}
  <2>1. l0 <= DeepestIndex <=> ~(l0 > DeepestIndex)
    BY SitemapBounds
  <2>2. /\ ~reads => more = <<>> /\ pass'.pages = pass.pages
        /\ reads => more = QueueOf(ChildrenOf[d0], l0 + 1) /\ pass'.pages = pass.pages \cup content[d0]
        /\ pass'.since = pass.since /\ edits' = edits /\ content' = content /\ pass'.visited = pass.visited \cup {d0}
    BY <2>1 DEF Takes
  <2>3. more = <<>> => Len(more) = 0
    OBVIOUS
  <2>4. reads => /\ Len(more) = Len(ChildrenOf[d0])
                 /\ \A i \in 1..Len(ChildrenOf[d0]) : more[i] = [doc |-> ChildrenOf[d0][i], level |-> l0 + 1]
    BY <2>2, ChildrenQueued
  <2> HIDE DEF reads
  <2>5. ASSUME NEW i \in 1..Len(more) PROVE more[i].level = l0 + 1
    <3>1. reads
      BY <2>2, <2>3
    <3>2. more[i] = [doc |-> ChildrenOf[d0][i], level |-> l0 + 1]
      BY <2>4, <3>1
    <3> QED
      BY <3>2
  <2> QED
    BY <2>2, <2>3, <2>4, <2>5
<1>4. /\ InOrder(pass'.queue) /\ Behind(pass'.queue, pass'.visited, lw)
      /\ \A d \in Docs, l \in Nat : Awaited(pass.queue, pass.visited, lv, d, l) =>
           Awaited(pass'.queue, pass'.visited, lw, d, l)
      /\ \A i \in 1..Len(more) : \E k \in 1..Len(pass'.queue) : pass'.queue[k] = more[i]
      /\ \A k \in 1..Len(pass'.queue) : \/ \E j \in 1..Len(pass.queue) : pass'.queue[k] = pass.queue[j]
                                        \/ \E i \in 1..Len(more) : pass'.queue[k] = more[i]
  <2>1. InOrder(pass.queue) /\ Behind(pass.queue, pass.visited, lv)
    BY DEF Searched
  <2> DEFINE queue == pass.queue
             seen == pass.visited
             next == Tail(queue) \o more
  <2>2. pass'.queue = next /\ pass'.visited = seen \cup {d0}
    BY DEF Takes
  <2>3. /\ queue \in Seq(DocAt) /\ queue # <<>> /\ Head(queue) = [doc |-> d0, level |-> l0] /\ seen \in SUBSET Docs
        /\ (\A d \in seen : lw[d] = lv[d]) /\ (d0 \notin seen => lw[d0] = l0)
        /\ InOrder(queue) /\ Behind(queue, seen, lv)
        /\ \A i \in 1..Len(more) : more[i].level = l0 + 1
    BY <1>1, <1>2, <1>3, <2>1 DEF Takes
  <2> HIDE DEF queue, seen
  <2>4. HeadTaken(queue, more, seen, lv, d0, l0, lw)
    BY <1>1, <2>3 DEF HeadTaken
  <2>5. KeptByTaking(queue, more, seen, lv, d0, lw, next)
    BY <2>4, QueueTaken
  <2> HIDE DEF next
  <2> QED
    BY <2>2, <2>5 DEF queue, seen, KeptByTaking
<1>5. \A i \in 1..Len(Declared) : Awaited(pass'.queue, pass'.visited, lw, Declared[i], 0)
  <2>1. \A i \in 1..Len(Declared) : Awaited(pass.queue, pass.visited, lv, Declared[i], 0) /\ Declared[i] \in Docs
    BY SitemapBounds DEF Searched
  <2> QED
    BY <1>4, <2>1
<1>6. l0 <= DeepestIndex => <<d0, l0>> \in InReach /\ d0 \in Walked
  <2>1. 1 \in 1..Len(pass.queue) /\ pass.queue[1] = [doc |-> d0, level |-> l0]
    BY <1>2, QueueMoves DEF Takes
  <2>2. l0 <= DeepestIndex => <<d0, l0>> \in InReach
    BY <2>1 DEF Searched
  <2> QED
    BY <2>2, ReachHolds
<1>7. pass.pages \subseteq pass'.pages /\ (d0 \notin pass.visited /\ l0 <= DeepestIndex => content[d0] \subseteq pass'.pages)
      /\ pass'.since = pass.since /\ edits' = edits /\ content' = content
      /\ (pass'.pages = pass.pages \/ (l0 <= DeepestIndex /\ pass'.pages = pass.pages \cup content[d0]))
      /\ pass'.visited = pass.visited \cup {d0}
  BY <1>3
<1>8. ASSUME NEW d \in pass.visited PROVE ReadOf(d, lw)'
  <2>1. SUFFICES ASSUME lv[d] <= DeepestIndex
        PROVE  /\ <<d, lv[d]>> \in InReach
               /\ \E c \in Contents[d] : c \subseteq pass'.pages
               /\ pass'.since = edits' => content'[d] \subseteq pass'.pages
               /\ \A i \in 1..Len(ChildrenOf[d]) :
                    Awaited(pass'.queue, pass'.visited, lw, ChildrenOf[d][i], lv[d] + 1)
    <3>1. lw[d] = lv[d]
      BY <1>1
    <3> QED
      BY <3>1 DEF ReadOf
  <2>2. ReadOf(d, lv)
    BY DEF Searched
  <2>3. d \in Docs /\ lv[d] + 1 \in Nat /\ \A i \in 1..Len(ChildrenOf[d]) : ChildrenOf[d][i] \in Docs
    BY <1>2, SitemapBounds
  <2>4. \A i \in 1..Len(ChildrenOf[d]) : Awaited(pass.queue, pass.visited, lv, ChildrenOf[d][i], lv[d] + 1)
    BY <2>1, <2>2 DEF ReadOf
  <2>5. \A i \in 1..Len(ChildrenOf[d]) : Awaited(pass'.queue, pass'.visited, lw, ChildrenOf[d][i], lv[d] + 1)
    BY <1>4, <2>3, <2>4
  <2>6. /\ <<d, lv[d]>> \in InReach /\ \E c \in Contents[d] : c \subseteq pass.pages
        /\ pass.since = edits => content[d] \subseteq pass.pages
    BY <2>1, <2>2 DEF ReadOf
  <2> QED
    BY <1>7, <2>5, <2>6
<1>9. ASSUME d0 \notin pass.visited PROVE ReadOf(d0, lw)'
  <2>1. lw[d0] = l0
    BY <1>1, <1>9
  <2>2. SUFFICES ASSUME l0 <= DeepestIndex
        PROVE  /\ <<d0, l0>> \in InReach
               /\ \E c \in Contents[d0] : c \subseteq pass'.pages
               /\ content'[d0] \subseteq pass'.pages
               /\ \A i \in 1..Len(ChildrenOf[d0]) :
                    Awaited(pass'.queue, pass'.visited, lw, ChildrenOf[d0][i], l0 + 1)
    BY <2>1 DEF ReadOf
  <2>3. content[d0] \subseteq pass'.pages
    BY <1>7, <1>9, <2>2
  <2>5. /\ Len(more) = Len(ChildrenOf[d0])
        /\ \A i \in 1..Len(more) : more[i] = [doc |-> ChildrenOf[d0][i], level |-> l0 + 1]
    BY <1>3, <1>9, <2>2
  <2>6. \A i \in 1..Len(ChildrenOf[d0]) : Awaited(pass'.queue, pass'.visited, lw, ChildrenOf[d0][i], l0 + 1)
    <3> SUFFICES ASSUME NEW i \in 1..Len(ChildrenOf[d0])
                 PROVE  \E k \in 1..Len(pass'.queue) : pass'.queue[k] = [doc |-> ChildrenOf[d0][i], level |-> l0 + 1]
      BY DEF Awaited
    <3>1. i \in 1..Len(more) /\ more[i] = [doc |-> ChildrenOf[d0][i], level |-> l0 + 1]
      BY <2>5
    <3>2. \E k \in 1..Len(pass'.queue) : pass'.queue[k] = more[i]
      BY <1>4, <3>1
    <3> QED
      BY <3>1, <3>2
  <2> QED
    BY <1>2, <1>6, <1>7, <2>2, <2>3, <2>6
<1>10. ASSUME NEW k \in 1..Len(pass'.queue), pass'.queue[k].level <= DeepestIndex
       PROVE  <<pass'.queue[k].doc, pass'.queue[k].level>> \in InReach
  <2>1. ASSUME NEW j \in 1..Len(pass.queue), pass'.queue[k] = pass.queue[j]
        PROVE  <<pass'.queue[k].doc, pass'.queue[k].level>> \in InReach
    BY <1>10, <2>1 DEF Searched
  <2>2. ASSUME NEW i \in 1..Len(more), pass'.queue[k] = more[i]
        PROVE  <<pass'.queue[k].doc, pass'.queue[k].level>> \in InReach
    <3>1. reads
      BY <1>3
    <3>2. more[i] = [doc |-> ChildrenOf[d0][i], level |-> l0 + 1] /\ i \in 1..Len(ChildrenOf[d0])
      BY <1>3, <3>1
    <3>3. pass'.queue[k].doc = ChildrenOf[d0][i] /\ pass'.queue[k].level = l0 + 1
      <4>1. pass'.queue[k] = [doc |-> ChildrenOf[d0][i], level |-> l0 + 1]
        BY <2>2, <3>2
      <4> QED
        BY <4>1
    <3>4. l0 < DeepestIndex /\ l0 <= DeepestIndex
      <4>1. l0 + 1 <= DeepestIndex
        BY <1>10, <3>3
      <4> QED
        BY <4>1, SitemapBounds
    <3> QED
      BY <1>6, <3>2, <3>3, <3>4, ReachHolds
  <2> QED
    BY <1>4, <2>1, <2>2
<1>11. pass'.since = edits' => pass'.pages \subseteq Published'
  <2>1. Published' = Published
    BY <1>7 DEF Published
  <2>2. pass.since = edits => pass.pages \subseteq Published
    BY DEF Searched
  <2>3. l0 <= DeepestIndex => content[d0] \subseteq Published
    BY <1>6 DEF Published
  <2> QED
    BY <1>7, <2>1, <2>2, <2>3
<1>12. Searched(lw)'
  <2>1. \A d \in pass'.visited : ReadOf(d, lw)'
    BY <1>7, <1>8, <1>9
  <2>2. \A k \in 1..Len(pass'.queue) :
         pass'.queue[k].level <= DeepestIndex => <<pass'.queue[k].doc, pass'.queue[k].level>> \in InReach
    BY <1>10
  <2> QED
    BY <1>4, <1>5, <1>11, <2>1, <2>2 DEF Searched
<1> QED
  BY <1>1, <1>12

\* A walk whose queue is empty has read every document in reach.
LEMMA SearchEnds ==
  ASSUME SitemapTypes, NEW lv \in [Docs -> Nat], Searched(lv), pass.queue = <<>>
  PROVE  /\ Always \subseteq pass.pages
         /\ pass.since = edits => pass.pages = Published
<1> DEFINE found == {p \in Places : p[1] \in pass.visited /\ lv[p[1]] <= p[2]}
<1>1. pass.visited \in SUBSET Docs /\ Len(pass.queue) = 0
  BY DEF SitemapTypes, PassShape, DocSets
<1>2. \A d, l : Awaited(pass.queue, pass.visited, lv, d, l) => d \in pass.visited /\ lv[d] <= l
  BY <1>1 DEF Awaited
<1>3. \A d \in Docs, l \in Nat : d \in pass.visited /\ lv[d] <= l /\ l <= DeepestIndex => <<d, l>> \in found
  <2> SUFFICES ASSUME NEW d \in Docs, NEW l \in Nat, d \in pass.visited, lv[d] <= l, l <= DeepestIndex
               PROVE  <<d, l>> \in found
    OBVIOUS
  <2>1. <<d, l>> \in Places /\ <<d, l>>[1] = d /\ <<d, l>>[2] = l
    BY SitemapBounds DEF Places
  <2> QED
    BY <2>1
<1>4. ClosedUnderLists(found)
  <2>1. ASSUME NEW i \in DOMAIN Declared PROVE <<Declared[i], 0>> \in found
    <3>1. i \in 1..Len(Declared) /\ Declared[i] \in Docs /\ 0 \in Nat /\ 0 <= DeepestIndex
      BY SitemapBounds
    <3>2. Awaited(pass.queue, pass.visited, lv, Declared[i], 0)
      BY <3>1 DEF Searched
    <3> HIDE DEF found
    <3> QED
      BY <1>2, <1>3, <3>1, <3>2
  <2>2. ASSUME NEW p \in found, p[2] < DeepestIndex, NEW i \in DOMAIN ChildrenOf[p[1]]
        PROVE  <<ChildrenOf[p[1]][i], p[2] + 1>> \in found
    <3>1. p[1] \in pass.visited /\ lv[p[1]] <= p[2] /\ p[1] \in Docs /\ p[2] \in Nat /\ lv[p[1]] \in Nat
      BY DEF Places
    <3>2. lv[p[1]] <= DeepestIndex /\ p[2] + 1 \in Nat /\ p[2] + 1 <= DeepestIndex
      <4>1. p[2] < DeepestIndex /\ DeepestIndex \in Nat
        BY <2>2, SitemapBounds
      <4> HIDE DEF found
      <4> QED
        BY <3>1, <4>1
    <3>3. i \in 1..Len(ChildrenOf[p[1]]) /\ ChildrenOf[p[1]][i] \in Docs
      BY <2>2, <3>1, SitemapBounds
    <3>4. ReadOf(p[1], lv)
      BY <3>1 DEF Searched
    <3>5. Awaited(pass.queue, pass.visited, lv, ChildrenOf[p[1]][i], lv[p[1]] + 1)
      BY <3>2, <3>3, <3>4 DEF ReadOf
    <3>6. ChildrenOf[p[1]][i] \in pass.visited /\ lv[ChildrenOf[p[1]][i]] <= lv[p[1]] + 1 /\ lv[ChildrenOf[p[1]][i]] \in Nat
      BY <1>2, <3>3, <3>5
    <3>7. lv[ChildrenOf[p[1]][i]] <= p[2] + 1
      BY <3>1, <3>6
    <3> HIDE DEF found
    <3> QED
      BY <1>3, <3>2, <3>3, <3>6, <3>7
  <2> QED
    BY <2>1, <2>2 DEF ClosedUnderLists
<1>5. ASSUME NEW d \in Walked PROVE d \in Docs /\ d \in pass.visited /\ lv[d] <= DeepestIndex
  <2>1. PICK p \in InReach : p[1] = d
    BY DEF Walked
  <2>2. found \in SUBSET Places
    OBVIOUS
  <2>3. p \in found
    BY <1>4, <2>2 DEF InReach
  <2>4. p[1] \in Docs /\ p[2] \in 0..DeepestIndex
    BY <2>3 DEF Places
  <2>5. lv[d] \in Nat /\ lv[d] <= p[2] /\ d \in pass.visited
    BY <2>1, <2>3, <2>4
  <2> QED
    BY <2>1, <2>4, <2>5, SitemapBounds
<1>6. ASSUME NEW d \in Walked
      PROVE  /\ \E c \in Contents[d] : c \subseteq pass.pages
             /\ pass.since = edits => content[d] \subseteq pass.pages
  <2>1. ReadOf(d, lv)
    BY <1>5 DEF Searched
  <2> QED
    BY <1>5, <2>1 DEF ReadOf
<1>7. Always \subseteq pass.pages
  BY <1>6 DEF Always
<1>8. pass.since = edits => pass.pages = Published
  BY <1>6 DEF Searched, Published
<1> QED
  BY <1>7, <1>8

-----------------------------------------------------------------------------
LEMMA SitemapStarts == SitemapInit => SitemapInv
<1> SUFFICES ASSUME SitemapInit PROVE SitemapInv
  OBVIOUS
<1>1. content \in [Docs -> SUBSET Locs] /\ \A d \in Docs : content[d] \in Contents[d]
  <2>1. /\ content \in [Docs -> UNION {Contents[d] : d \in Docs}] /\ \A d \in Docs : content[d] \in Contents[d]
        /\ \A d \in Docs : Contents[d] \subseteq SUBSET Locs
    BY SitemapBounds DEF SitemapInit
  <2> QED
    BY <2>1
<1>2. pass \in PassShape /\ pass.pc = "idle"
  BY NotCollectingTyped DEF SitemapInit, NotCollecting
<1>3. SitemapTypes
  <2>1. /\ inSitemap \in [Locs -> {"absent", "no", "yes"}] /\ crawled \in SUBSET Rows
        /\ health \in [Docs -> {"ok", "missing", "cut"}] /\ gate \in {"open"} \cup Closings
        /\ baseline = NoBaseline /\ edits \in Nat /\ outages \in Nat
    BY DEF SitemapInit
  <2> QED
    BY <1>1, <1>2, <2>1 DEF SitemapTypes
<1>4. gate = "open" /\ baseline = NoBaseline
  BY DEF SitemapInit
<1> QED
  BY <1>2, <1>3, <1>4 DEF SitemapInv, OpenWithoutOutage, WalkGoesOn, ReadAll, Remembered

-----------------------------------------------------------------------------
\* What happens around a pass: the sitemap is edited, or it is not.
LEMMA AroundSitemap ==
  ASSUME SitemapInv, UNCHANGED <<pass, baseline>>, outages' \in Nat, outages' = 0 => outages = 0,
         outages' = 0 => gate' = "open" \/ gate' = gate,
         UNCHANGED <<content, edits>> \/ edits' = edits + 1
  PROVE  OpenWithoutOutage' /\ WalkGoesOn' /\ ReadAll' /\ Remembered'
<1>0. /\ OpenWithoutOutage /\ WalkGoesOn /\ ReadAll /\ Remembered
      /\ pass \in PassShape /\ edits \in Nat /\ (pass.pc # "idle" => pass.since <= edits)
      /\ pass.since \in Nat /\ (baseline # NoBaseline => baseline.since \in Nat)
  BY DEF SitemapInv, SitemapTypes, PassShape, BaselineShape
<1>1. OpenWithoutOutage'
  BY <1>0 DEF OpenWithoutOutage
<1>2. CASE UNCHANGED <<content, edits>>
  <2>1. WalkGoesOn'
    BY <1>0, <1>2 DEF WalkGoesOn, Undisturbed, Searched, ReadOf, Published
  <2>2. ReadAll' /\ Remembered'
    BY <1>0, <1>2 DEF ReadAll, Remembered, Undisturbed, Published
  <2> QED
    BY <1>1, <2>1, <2>2
<1>3. CASE edits' = edits + 1
  <2>1. /\ pass.pc # "idle" => pass.since # edits'
        /\ (baseline # NoBaseline => baseline.since <= edits' /\ baseline.since # edits')
    BY <1>0, <1>3 DEF Remembered
  <2>2. WalkGoesOn'
    BY <1>0, <2>1 DEF WalkGoesOn, Undisturbed, Searched, ReadOf
  <2>3. ReadAll'
    BY <1>0, <2>1 DEF ReadAll, Undisturbed
  <2>4. Remembered'
    BY <1>0, <2>1 DEF Remembered
  <2> QED
    BY <1>1, <2>2, <2>3, <2>4
<1> QED
  BY <1>2, <1>3

\* A step of the pass that leaves the world and the baseline alone.
LEMMA InThePass ==
  ASSUME SitemapInv, UNCHANGED <<baseline, world>>,
         pass'.pc # "idle" => pass'.since = edits \/ (pass.pc # "idle" /\ pass'.since = pass.since)
  PROVE  OpenWithoutOutage' /\ Remembered'
<1>1. /\ OpenWithoutOutage /\ Remembered /\ UNCHANGED <<baseline, content, gate, edits, outages>>
  BY DEF SitemapInv, world
<1> QED
  BY <1>1 DEF OpenWithoutOutage, Remembered, Published

\* The walk begins with the documents that are declared.
LEMMA CollectBegins == SitemapInv /\ Collect => WalkGoesOn' /\ ReadAll' /\ OpenWithoutOutage' /\ Remembered'
<1> SUFFICES ASSUME SitemapInv, Collect PROVE WalkGoesOn' /\ ReadAll' /\ OpenWithoutOutage' /\ Remembered'
  OBVIOUS
<1>1. /\ UNCHANGED <<baseline, world>> /\ pass'.since = edits
      /\ pass'.visited = {} /\ pass'.pages = {}
      /\ pass'.pc = IF gate = "off" THEN "reconcile" ELSE "walk"
      /\ gate # "off" => pass'.queue = QueueOf(SitemapSeeds, 0)
  BY DEF Collect, NotCollecting, store
<1>2. UNCHANGED <<gate, outages, content, edits>> /\ (outages = 0 => gate = "open")
  BY <1>1 DEF world, SitemapInv, OpenWithoutOutage
<1>3. ReadAll'
  BY <1>1, <1>2 DEF ReadAll, Undisturbed
<1>4. ASSUME outages = 0 PROVE \E lv \in [Docs -> Nat] : Searched(lv)'
  <2>1. gate = "open" /\ SitemapSeeds = Declared /\ pass'.queue = QueueOf(Declared, 0)
    BY <1>1, <1>2, <1>4 DEF SitemapSeeds
  <2>2. PICK lv : lv = [d \in Docs |-> 0]
    OBVIOUS
  <2>3. /\ Len(pass'.queue) = Len(Declared) /\ Len(Declared) \in Nat
        /\ \A i \in 1..Len(Declared) : pass'.queue[i] = [doc |-> Declared[i], level |-> 0] /\ Declared[i] \in Docs
    BY <2>1, QueueOfTyped, SitemapBounds
  <2>4. \A i \in 1..Len(Declared) : Awaited(pass'.queue, pass'.visited, lv, Declared[i], 0)
    BY <2>3 DEF Awaited
  <2>5. \A i \in 1..Len(pass'.queue) : pass'.queue[i].level = 0 /\ pass'.queue[i].doc = Declared[i]
    <3> SUFFICES ASSUME NEW i \in 1..Len(pass'.queue) PROVE pass'.queue[i].level = 0 /\ pass'.queue[i].doc = Declared[i]
      OBVIOUS
    <3>1. pass'.queue[i] = [doc |-> Declared[i], level |-> 0]
      BY <2>3
    <3> QED
      BY <3>1
  <2>6. InOrder(pass'.queue) /\ Behind(pass'.queue, pass'.visited, lv)
    BY <1>1, <2>5 DEF InOrder, Behind
  <2>7. \A k \in 1..Len(pass'.queue) : <<pass'.queue[k].doc, pass'.queue[k].level>> \in InReach
    BY <2>3, <2>5, ReachHolds
  <2>8. lv \in [Docs -> Nat]
    BY <2>2
  <2>9. Searched(lv)'
    BY <1>1, <2>4, <2>6, <2>7 DEF Searched
  <2> QED
    BY <2>8, <2>9
<1>5. WalkGoesOn'
  BY <1>2, <1>4 DEF WalkGoesOn, Undisturbed
<1>6. OpenWithoutOutage' /\ Remembered'
  BY <1>1, InThePass
<1> QED
  BY <1>3, <1>5, <1>6

\* A fetch leaves the rest of a pass alone.
LEMMA FetchLeaves ==
  FetchDoc /\ pass \in PassShape => pass'.pc = pass.pc /\ pass'.since = pass.since /\ pass'.alerts = pass.alerts
<1> SUFFICES ASSUME FetchDoc, pass \in PassShape
             PROVE  pass'.pc = pass.pc /\ pass'.since = pass.since /\ pass'.alerts = pass.alerts
  OBVIOUS
<1> DEFINE item == Head(pass.queue)
           more == IF Usable(item.doc) THEN QueueOf(Children(item.doc), item.level + 1) ELSE <<>>
           st == IF item.doc # pass.seed THEN pass.status ELSE IF health[item.doc] = "missing" THEN 404 ELSE 200
<1>1. PICK kept : pass' = Fetched(item, kept)
  BY DEF FetchDoc
<1> DEFINE queue == Tail(pass.queue) \o more
           seen == pass.visited \cup {item.doc}
           part == pass.incomplete \/ ~Usable(item.doc)
           us == pass.pages \cup kept
           n == pass.taken + Cardinality(kept)
           cut == pass.trimmed \/ kept # Entries(item.doc) \/ Children(item.doc) # ChildrenOf[item.doc]
<1>2. pass' = Read(pass, queue, seen, pass.fetches + 1, st, part, us, n, cut)
  BY <1>1, FetchReads
<1> HIDE DEF st, queue, seen, part, us, n, cut, more
<1> QED
  BY <1>2 DEF PassShape, Read

\* The walk goes on.
LEMMA WalkSteps == SitemapInv /\ (SkipDoc \/ FetchDoc) => WalkGoesOn' /\ ReadAll' /\ OpenWithoutOutage' /\ Remembered'
<1> SUFFICES ASSUME SitemapInv, SkipDoc \/ FetchDoc PROVE WalkGoesOn' /\ ReadAll' /\ OpenWithoutOutage' /\ Remembered'
  OBVIOUS
<1>1. /\ UNCHANGED <<baseline, world>> /\ pass.pc = "walk" /\ pass.queue # <<>> /\ pass \in PassShape /\ SitemapTypes
      /\ WalkGoesOn /\ (outages = 0 => gate = "open")
  BY DEF SkipDoc, FetchDoc, WalkOn, store, SitemapInv, SitemapTypes, OpenWithoutOutage
<1>2. PICK d0 \in Docs, l0 \in Nat : Head(pass.queue) = [doc |-> d0, level |-> l0]
  <2>1. pass.queue \in Seq(DocAt)
    BY <1>1 DEF PassShape, Queues
  <2>2. Head(pass.queue) \in DocAt
    BY <1>1, <2>1, HeadTailProperties
  <2> QED
    BY <2>2 DEF DocAt
<1>3. Head(pass.queue).doc = d0 /\ Head(pass.queue).level = l0
  BY <1>2
<1>4. pass'.pc = "walk" /\ pass'.since = pass.since /\ UNCHANGED <<content, edits, outages, health>>
  <2>1. UNCHANGED <<content, edits, outages, health>>
    BY <1>1 DEF world
  <2>2. CASE SkipDoc
    BY <1>1, <2>1, <2>2 DEF SkipDoc, PassShape
  <2>3. CASE FetchDoc
    BY <1>1, <2>1, <2>3, FetchLeaves
  <2> QED
    BY <2>2, <2>3
<1>5. ASSUME ~pass'.incomplete, ~pass'.trimmed, outages = 0
      PROVE  ~pass.incomplete /\ ~pass.trimmed /\ \E more \in Seq(DocAt) : Takes(d0, l0, more)
  <2>1. CASE SkipDoc
    <3>1. /\ pass'.queue = Tail(pass.queue) /\ pass'.visited = pass.visited \cup {d0} /\ pass'.pages = pass.pages
          /\ pass'.incomplete = pass.incomplete /\ pass'.trimmed = pass.trimmed
      BY <1>1, <1>3, <2>1 DEF SkipDoc, PassShape
    <3>2. d0 \in pass.visited \/ l0 > DeepestIndex
      BY <1>1, <1>3, <1>5, <2>1 DEF SkipDoc, PassedOver
    <3>3. <<>> \in Seq(DocAt) /\ Tail(pass.queue) \o <<>> = Tail(pass.queue)
      <4>1. Tail(pass.queue) \in Seq(DocAt) /\ <<>> \in Seq(DocAt)
        BY <1>1, HeadTailProperties DEF PassShape, Queues
      <4> QED
        BY <4>1, ConcatEmptySeq
    <3>4. Takes(d0, l0, <<>>)
      BY <1>1, <1>2, <1>4, <3>1, <3>2, <3>3 DEF Takes
    <3> QED
      BY <1>5, <3>1, <3>3, <3>4
  <2>2. CASE FetchDoc
    <3> DEFINE item == Head(pass.queue)
               more == IF Usable(item.doc) THEN QueueOf(Children(item.doc), item.level + 1) ELSE <<>>
               st == IF item.doc # pass.seed THEN pass.status ELSE IF health[item.doc] = "missing" THEN 404 ELSE 200
    <3>0. PICK kept \in Fitting(Entries(item.doc)) : pass' = Fetched(item, kept)
      BY <2>2 DEF FetchDoc
    <3>7. /\ pass'.queue = Tail(pass.queue) \o more
          /\ pass'.visited = pass.visited \cup {item.doc}
          /\ pass'.incomplete = (pass.incomplete \/ ~Usable(item.doc))
          /\ pass'.pages = pass.pages \cup kept
          /\ pass'.trimmed = (pass.trimmed \/ kept # Entries(item.doc) \/ Children(item.doc) # ChildrenOf[item.doc])
      <4> DEFINE cut == pass.trimmed \/ kept # Entries(item.doc) \/ Children(item.doc) # ChildrenOf[item.doc]
                 q == Tail(pass.queue) \o more
                 part == pass.incomplete \/ ~Usable(item.doc)
      <4>1. pass' = Read(pass, q, pass.visited \cup {item.doc}, pass.fetches + 1, st, part,
                         pass.pages \cup kept, pass.taken + Cardinality(kept), cut)
        BY <3>0, FetchReads
      <4>2. /\ pass'.queue = q /\ pass'.visited = pass.visited \cup {item.doc} /\ pass'.incomplete = part
            /\ pass'.pages = pass.pages \cup kept /\ pass'.trimmed = cut
        <5> HIDE DEF st, cut, q, part, item
        <5> QED
          BY <1>1, <4>1 DEF PassShape, Read
      <4> QED
        BY <4>2
    <3>1. /\ pass'.queue = Tail(pass.queue) \o
                            (IF Usable(d0) THEN QueueOf(Children(d0), l0 + 1) ELSE <<>>)
          /\ pass'.visited = pass.visited \cup {d0}
          /\ pass'.incomplete = (pass.incomplete \/ ~Usable(d0))
          /\ pass'.pages = pass.pages \cup kept
          /\ pass'.trimmed = (pass.trimmed \/ kept # Entries(d0) \/ Children(d0) # ChildrenOf[d0])
      BY <1>3, <3>7
    <3>2. d0 \notin pass.visited /\ ~(l0 > DeepestIndex)
      <4>1. ~PassedOver(Head(pass.queue))
        BY <2>2 DEF FetchDoc
      <4> QED
        BY <1>3, <4>1 DEF PassedOver
    <3>3. /\ ~pass.incomplete /\ ~pass.trimmed /\ Usable(d0) /\ kept = content[d0]
          /\ Children(d0) = ChildrenOf[d0]
      BY <1>3, <1>5, <3>0, <3>1 DEF Usable, Entries
    <3>4. /\ pass'.queue = Tail(pass.queue) \o QueueOf(ChildrenOf[d0], l0 + 1)
          /\ pass'.pages = pass.pages \cup content[d0] /\ l0 <= DeepestIndex
      <4>1. l0 <= DeepestIndex
        BY <3>2, SitemapBounds
      <4> QED
        BY <3>1, <3>3, <4>1
    <3>5. QueueOf(ChildrenOf[d0], l0 + 1) \in Seq(DocAt)
      <4>1. ChildrenOf[d0] \in Seq(Docs) /\ l0 + 1 \in Nat
        BY SitemapBounds
      <4> QED
        BY <4>1, QueueOfTyped
    <3>6. Takes(d0, l0, QueueOf(ChildrenOf[d0], l0 + 1))
      BY <1>1, <1>2, <1>4, <3>1, <3>2, <3>4 DEF Takes
    <3> QED
      BY <3>3, <3>5, <3>6
  <2> QED
    BY <2>1, <2>2
<1>6. WalkGoesOn'
  <2> SUFFICES ASSUME ~pass'.incomplete, ~pass'.trimmed, outages = 0 PROVE \E lw \in [Docs -> Nat] : Searched(lw)'
    BY <1>4 DEF WalkGoesOn, Undisturbed
  <2>1. PICK lv \in [Docs -> Nat] : Searched(lv)
    BY <1>1, <1>5 DEF WalkGoesOn, Undisturbed
  <2>2. PICK more \in Seq(DocAt) : Takes(d0, l0, more)
    BY <1>5
  <2> QED
    BY <1>1, <2>1, <2>2, SearchGoesOn
<1>7. ReadAll'
  BY <1>4 DEF ReadAll
<1>8. OpenWithoutOutage' /\ Remembered'
  BY <1>1, <1>4, InThePass
<1> QED
  BY <1>6, <1>7, <1>8

\* The walk ends: unless work was left, it has read every document in reach.
LEMMA WalkEnds == SitemapInv /\ EndWalk => WalkGoesOn' /\ ReadAll' /\ OpenWithoutOutage' /\ Remembered'
<1> SUFFICES ASSUME SitemapInv, EndWalk PROVE WalkGoesOn' /\ ReadAll' /\ OpenWithoutOutage' /\ Remembered'
  OBVIOUS
<1>1. /\ UNCHANGED <<baseline, world>> /\ pass.pc = "walk" /\ pass'.pc = "admit" /\ pass'.since = pass.since
      /\ pass'.pages = pass.pages /\ pass'.trimmed = (pass.trimmed \/ pass.queue # <<>>)
      /\ pass'.incomplete = (pass.incomplete \/ (pass.queue # <<>> /\ pass.fetches >= SitemapLimit))
      /\ SitemapTypes /\ WalkGoesOn
  BY DEF EndWalk, store, SitemapInv, SitemapTypes, PassShape
<1>2. ReadAll'
  <2> SUFFICES ASSUME ~pass'.incomplete, ~pass'.trimmed, outages = 0
               PROVE  /\ Always \subseteq pass.pages
                      /\ pass.since = edits => pass.pages = Published
    BY <1>1 DEF ReadAll, Undisturbed, Published, world
  <2>1. pass.queue = <<>> /\ ~pass.incomplete /\ ~pass.trimmed
    BY <1>1
  <2>2. PICK lv \in [Docs -> Nat] : Searched(lv)
    BY <1>1, <2>1 DEF WalkGoesOn, Undisturbed
  <2> QED
    BY <1>1, <2>1, <2>2, SearchEnds
<1>3. WalkGoesOn'
  BY <1>1 DEF WalkGoesOn
<1>4. OpenWithoutOutage' /\ Remembered'
  BY <1>1, InThePass
<1> QED
  BY <1>2, <1>3, <1>4

\* What was read is admitted, reconciled and counted.
LEMMA SitemapStepsOn ==
  SitemapInv /\ (AdmitPages \/ ReconcileSitemapMembership \/ SitemapLiveCounts) =>
    WalkGoesOn' /\ ReadAll' /\ OpenWithoutOutage' /\ Remembered'
<1> SUFFICES ASSUME SitemapInv, AdmitPages \/ ReconcileSitemapMembership \/ SitemapLiveCounts
             PROVE  WalkGoesOn' /\ ReadAll' /\ OpenWithoutOutage' /\ Remembered'
  OBVIOUS
<1>1. /\ UNCHANGED <<baseline, world>> /\ pass.pc \in {"admit", "reconcile", "count"}
      /\ pass \in PassShape /\ ReadAll
  BY DEF AdmitPages, ReconcileSitemapMembership, SitemapLiveCounts, store, SitemapInv, SitemapTypes
<1>3. /\ pass'.pc \in {"reconcile", "count", "save"} /\ pass'.since = pass.since /\ pass'.pages = pass.pages
      /\ pass'.incomplete = pass.incomplete /\ pass'.trimmed = pass.trimmed
  <2>1. CASE AdmitPages \/ ReconcileSitemapMembership
    BY <1>1, <2>1 DEF AdmitPages, ReconcileSitemapMembership, PassShape
  <2>2. CASE SitemapLiveCounts
    <3>1. pass' = [pass EXCEPT !.pc = "save", !.coverage = LiveCoverage]
      BY <2>2 DEF SitemapLiveCounts
    <3> QED
      BY <1>1, <3>1 DEF PassShape
  <2> QED
    BY <2>1, <2>2
<1>4. ReadAll'
  BY <1>1, <1>3 DEF ReadAll, Undisturbed, Published, world
<1>5. WalkGoesOn'
  BY <1>3 DEF WalkGoesOn
<1>6. OpenWithoutOutage' /\ Remembered'
  BY <1>1, <1>3, InThePass
<1> QED
  BY <1>4, <1>5, <1>6

\* What is kept for the next pass: of a complete pass, all that was published.
LEMMA SaveKeeps == SitemapInv /\ SaveSnapshot => WalkGoesOn' /\ ReadAll' /\ OpenWithoutOutage' /\ Remembered'
<1> SUFFICES ASSUME SitemapInv, SaveSnapshot PROVE WalkGoesOn' /\ ReadAll' /\ OpenWithoutOutage' /\ Remembered'
  OBVIOUS
<1>1. /\ UNCHANGED world /\ pass.pc = "save" /\ ~NothingToSave /\ pass \in PassShape /\ ReadAll /\ Remembered
      /\ baseline' = Snapshot /\ pass.since \in Nat /\ edits \in Nat /\ pass.since <= edits /\ OpenWithoutOutage
      /\ (baseline # NoBaseline => baseline.since \in Nat)
  BY DEF SaveSnapshot, SitemapInv, SitemapTypes, PassShape, BaselineShape
<1>2. pass'.pc \in {"idle", "alert"} /\ (pass'.pc # "idle" => pass'.since = pass.since)
  BY <1>1 DEF SaveSnapshot, NotCollecting, PassShape
<1>3. Remembered'
  <2>1. pass.incomplete => baseline # NoBaseline
    BY <1>1 DEF NothingToSave
  <2>2. /\ Snapshot.hash = (IF pass.incomplete THEN baseline.hash ELSE pass.pages)
        /\ Snapshot.since = (IF pass.incomplete THEN baseline.since ELSE pass.since)
        /\ Snapshot.trimmed = (IF pass.incomplete THEN baseline.trimmed ELSE pass.trimmed)
    BY DEF Snapshot, BaselineHash
  <2>3. Snapshot.since <= pass.since /\ Snapshot.since <= edits
    BY <1>1, <2>1, <2>2 DEF Remembered
  <2>4. outages = 0 /\ ~Snapshot.trimmed /\ Snapshot.since = edits => Snapshot.hash = Published
    BY <1>1, <2>1, <2>2 DEF Remembered, ReadAll, Undisturbed
  <2> QED
    BY <1>1, <1>2, <2>3, <2>4 DEF Remembered, Published, world
<1>4. WalkGoesOn' /\ ReadAll'
  BY <1>2 DEF WalkGoesOn, ReadAll
<1>5. OpenWithoutOutage'
  BY <1>1 DEF OpenWithoutOutage, world
<1> QED
  BY <1>3, <1>4, <1>5

\* The pass ends, or an alert is handed over.
LEMMA PassSettles ==
  SitemapInv /\ (SkipSave \/ EndPass \/ PassBreaks \/ \E a \in pass.alerts : Ingest(a) \/ IngestFails(a)) =>
    WalkGoesOn' /\ ReadAll' /\ OpenWithoutOutage' /\ Remembered'
<1> SUFFICES ASSUME SitemapInv, SkipSave \/ EndPass \/ PassBreaks \/ \E a \in pass.alerts : Ingest(a) \/ IngestFails(a)
             PROVE  WalkGoesOn' /\ ReadAll' /\ OpenWithoutOutage' /\ Remembered'
  OBVIOUS
<1>1. UNCHANGED <<baseline, world>> /\ pass \in PassShape
  BY DEF SkipSave, EndPass, PassBreaks, Ingest, IngestFails, store, SitemapInv, SitemapTypes
<1>2. pass'.pc \in {"idle", "alert"} /\ (pass'.pc # "idle" => pass.pc = "alert" /\ pass'.since = pass.since)
  <2>1. CASE SkipSave \/ EndPass \/ PassBreaks
    BY <2>1 DEF SkipSave, EndPass, PassBreaks, NotCollecting
  <2>2. CASE \E a \in pass.alerts : Ingest(a) \/ IngestFails(a)
    BY <1>1, <2>2 DEF Ingest, IngestFails, PassShape
  <2> QED
    BY <2>1, <2>2
<1>3. WalkGoesOn' /\ ReadAll'
  BY <1>2 DEF WalkGoesOn, ReadAll
<1>4. OpenWithoutOutage' /\ Remembered'
  BY <1>1, <1>2, InThePass
<1> QED
  BY <1>3, <1>4

-----------------------------------------------------------------------------
\* The inductive invariant.
LEMMA SitemapKept == SitemapInv /\ [SitemapNext]_sitemapVars => SitemapInv'
<1> SUFFICES ASSUME SitemapInv, [SitemapNext]_sitemapVars PROVE SitemapInv'
  OBVIOUS
<1>0. SitemapTypes'
  BY SitemapTyped DEF SitemapInv
<1>1. outages \in Nat /\ (outages = 0 => gate = "open") /\ outages' \in Nat
  BY <1>0 DEF SitemapInv, SitemapTypes, OpenWithoutOutage
<1> DEFINE kept == OpenWithoutOutage' /\ WalkGoesOn' /\ ReadAll' /\ Remembered'
<1>2. CASE UNCHANGED sitemapVars
  <2>1. UNCHANGED <<pass, baseline, outages, gate, content, edits>>
    BY <1>2 DEF sitemapVars
  <2> QED
    BY <1>0, <1>1, <2>1, AroundSitemap DEF SitemapInv
<1>3. ASSUME NEW d \in Docs, Publish(d) \/ HealthChanges(d) PROVE kept
  <2>1. UNCHANGED <<pass, baseline, outages, gate>> /\ (UNCHANGED <<content, edits>> \/ edits' = edits + 1)
    BY <1>3 DEF Publish, HealthChanges, store
  <2> QED
    BY <1>1, <2>1, AroundSitemap
<1>4. ASSUME GateCloses \/ GateOpens PROVE kept
  <2>1. UNCHANGED <<pass, baseline, content, edits>> /\ (outages' = outages + 1 \/ (outages' = outages /\ gate' = "open"))
    BY <1>4 DEF GateCloses, GateOpens, store
  <2>2. (outages' = 0 => outages = 0) /\ (outages' = 0 => gate' = "open")
    BY <1>1, <2>1
  <2>3. outages' \in Nat /\ UNCHANGED <<pass, baseline>> /\ UNCHANGED <<content, edits>>
    BY <1>1, <2>1
  <2> QED
    BY <2>2, <2>3, AroundSitemap
<1>5. ASSUME NEW u \in Locs, CrawlPage(u) \/ FindLink(u) PROVE kept
  <2>1. UNCHANGED <<pass, baseline, outages, gate, content, edits>>
    BY <1>5 DEF CrawlPage, FindLink, world
  <2> QED
    BY <1>1, <2>1, AroundSitemap
<1>6. ASSUME RefreshSitemap PROVE kept
  <2>1. CASE Collect \/ SkipDoc \/ FetchDoc \/ EndWalk
    BY <2>1, CollectBegins, WalkSteps, WalkEnds
  <2>2. CASE AdmitPages \/ ReconcileSitemapMembership \/ SitemapLiveCounts
    BY <2>2, SitemapStepsOn
  <2>3. CASE SaveSnapshot
    BY <2>3, SaveKeeps
  <2>4. CASE SkipSave \/ EndPass \/ PassBreaks \/ \E a \in pass.alerts : Ingest(a) \/ IngestFails(a)
    BY <2>4, PassSettles
  <2> QED
    BY <1>6, <2>1, <2>2, <2>3, <2>4 DEF RefreshSitemap
<1> QED
  BY <1>0, <1>2, <1>3, <1>4, <1>5, <1>6 DEF SitemapNext, SitemapInv

LEMMA SitemapInvariant == SitemapSpec => []SitemapInv
BY SitemapStarts, SitemapKept, PTL DEF SitemapSpec

LEMMA SitemapShapes == SitemapInv => SitemapTypeOK
BY DEF SitemapInv, SitemapTypes, SitemapTypeOK, PassShape, PassPcs, BaselineShape, Alert,
       LocSets, FetchCounts, AlertSets

\* The documents, the rows and the pass keep their shapes.
THEOREM SitemapTypeCorrect == SitemapSpec => []SitemapTypeOK
  BY SitemapShapes, SitemapInvariant, PTL

\* While the sitemap may be read, documents that fail or are cut never take a
\* page out of the sitemap that its owner has listed all along, unless the page
\* budget cut the pass.
THEOREM KeptWhileListedCorrect == SitemapSpec => KeptWhileListed
<1>1. ASSUME SitemapInv, [SitemapNext]_sitemapVars, NEW u \in Always, outages' = 0, ~pass.trimmed, inSitemap[u] = "yes"
      PROVE  inSitemap'[u] = "yes"
  <2>1. outages \in Nat /\ u \in Locs /\ inSitemap \in [Locs -> {"absent", "no", "yes"}]
    BY <1>1 DEF SitemapInv, SitemapTypes, Always
  <2>2. CASE UNCHANGED inSitemap
    BY <1>1, <2>2
  <2>3. ASSUME NEW v \in Locs, FindLink(v) PROVE inSitemap'[u] = "yes"
    BY <1>1, <2>1, <2>3 DEF FindLink
  <2>4. CASE AdmitPages
    BY <1>1, <2>1, <2>4 DEF AdmitPages
  <2>5. CASE ReconcileSitemapMembership
    <3>1. outages = 0 /\ pass.pc = "reconcile" /\ ReadAll
      BY <1>1, <2>5 DEF ReconcileSitemapMembership, world, SitemapInv
    <3>2. pass.incomplete \/ u \in pass.pages
      BY <1>1, <3>1 DEF ReadAll, Undisturbed
    <3> QED
      BY <1>1, <2>1, <2>5, <3>2 DEF ReconcileSitemapMembership, Rows, Flagged
  <2>6. \/ UNCHANGED inSitemap \/ AdmitPages \/ ReconcileSitemapMembership
        \/ \E v \in Locs : FindLink(v)
    BY <1>1 DEF SitemapNext, sitemapVars, RefreshSitemap, Collect, SkipDoc, FetchDoc, EndWalk, SitemapLiveCounts,
                SkipSave, SaveSnapshot, Ingest, IngestFails, EndPass, PassBreaks, Publish, HealthChanges, GateCloses,
                GateOpens, CrawlPage, store
  <2> QED
    BY <2>2, <2>3, <2>4, <2>5, <2>6
<1>2. SitemapInv /\ [SitemapNext]_sitemapVars =>
        [\A u \in Always : outages' = 0 /\ ~pass.trimmed /\ inSitemap[u] = "yes" => inSitemap'[u] = "yes"]_sitemapVars
  BY <1>1
<1> QED
  BY <1>2, SitemapInvariant, PTL DEF SitemapSpec, KeptWhileListed

\* Whatever failed between, an alert that the set of URLs changed follows an edit
\* since the last complete pass began, and calls nothing dropped that was listed
\* all along, where the page budget cut neither of the two passes.
THEOREM NoPhantomChangeCorrect == SitemapSpec => NoPhantomChange
<1>1. ASSUME SitemapInv, [SitemapNext]_sitemapVars, NEW a \in pass'.alerts \ pass.alerts,
             a.field = "sitemap_xml", outages = 0, ~pass.trimmed, ~baseline.trimmed
      PROVE  edits > baseline.since /\ a.dropped \cap Always = {}
  <2>1. pass \in PassShape
    BY <1>1 DEF SitemapInv, SitemapTypes
  <2>2. NotCollecting.alerts = {}
    BY DEF NotCollecting
  <2>3. SaveSnapshot
    <3>1. CASE UNCHANGED pass
      BY <1>1, <3>1
    <3>2. CASE Collect
      BY <1>1, <3>2 DEF Collect, NotCollecting
    <3>3. CASE SkipDoc \/ EndWalk \/ AdmitPages \/ ReconcileSitemapMembership \/ SitemapLiveCounts
      <4>1. CASE SkipDoc
        BY <1>1, <2>1, <4>1 DEF SkipDoc, PassShape
      <4>4. CASE EndWalk
        BY <1>1, <2>1, <4>4 DEF EndWalk, PassShape
      <4>2. CASE AdmitPages \/ ReconcileSitemapMembership
        BY <1>1, <2>1, <4>2 DEF AdmitPages, ReconcileSitemapMembership, PassShape
      <4>3. CASE SitemapLiveCounts
        <5>1. pass' = [pass EXCEPT !.pc = "save", !.coverage = LiveCoverage]
          BY <4>3 DEF SitemapLiveCounts
        <5> QED
          BY <1>1, <2>1, <5>1 DEF PassShape
      <4> QED
        BY <3>3, <4>1, <4>2, <4>3, <4>4
    <3>4. CASE FetchDoc
      BY <1>1, <2>1, <3>4, FetchLeaves
    <3>5. CASE SkipSave \/ EndPass \/ PassBreaks
      BY <1>1, <2>2, <3>5 DEF SkipSave, EndPass, PassBreaks
    <3>6. ASSUME NEW b \in pass.alerts, Ingest(b) \/ IngestFails(b) PROVE FALSE
      BY <1>1, <2>1, <3>6 DEF Ingest, IngestFails, PassShape
    <3>7. UNCHANGED pass \/ RefreshSitemap
      BY <1>1 DEF SitemapNext, sitemapVars, Publish, HealthChanges, GateCloses, GateOpens, CrawlPage, FindLink
    <3> QED
      BY <3>1, <3>2, <3>3, <3>4, <3>5, <3>6, <3>7 DEF RefreshSitemap
  <2>4. baseline # NoBaseline /\ a \in Alerts /\ pass.pc = "save"
    BY <1>1, <2>1, <2>2, <2>3 DEF SaveSnapshot, PassShape
  <2>5. ~pass.incomplete /\ baseline.hash # pass.pages /\ a.dropped = Dropped
    <3> DEFINE differs ==
          [sitemap_xml |-> ~pass.incomplete /\ baseline.hash # BaselineHash,
           sitemap_xml_status |-> baseline.status # pass.status,
           sitemap_coverage_drift |->
             ~pass.incomplete /\ CoverageDriftGrew(baseline.coverage, pass.coverage)]
    <3>1. PICK f \in {g \in DOMAIN differs : differs[g]} :
            a = [field |-> f, dropped |-> IF f = "sitemap_xml" THEN Dropped ELSE {}]
      BY <2>4 DEF Alerts
    <3>2. f = "sitemap_xml" /\ a.dropped = Dropped
      BY <1>1, <3>1
    <3>3. differs["sitemap_xml"]
      BY <3>1, <3>2
    <3>4. ~pass.incomplete /\ baseline.hash # BaselineHash
      BY <3>3
    <3> QED
      BY <3>2, <3>4 DEF BaselineHash
  <2>6. /\ Always \subseteq pass.pages /\ (pass.since = edits => pass.pages = Published)
        /\ baseline.since <= edits /\ baseline.since <= pass.since /\ (baseline.since = edits => baseline.hash = Published)
        /\ pass.since \in Nat /\ edits \in Nat /\ baseline.since \in Nat /\ pass.since <= edits
    BY <1>1, <2>4, <2>5 DEF SitemapInv, SitemapTypes, ReadAll, Remembered, Undisturbed, PassShape, BaselineShape
  <2>7. edits > baseline.since
    BY <2>5, <2>6
  <2>8. a.dropped \cap Always = {}
    BY <2>5, <2>6 DEF Dropped
  <2> QED
    BY <2>7, <2>8
<1>2. SitemapInv /\ [SitemapNext]_sitemapVars =>
        [\A a \in pass'.alerts \ pass.alerts :
           a.field = "sitemap_xml" /\ outages = 0 /\ ~pass.trimmed /\ ~baseline.trimmed =>
             edits > baseline.since /\ a.dropped \cap Always = {}]_sitemapVars
  BY <1>1
<1> QED
  BY <1>2, SitemapInvariant, PTL DEF SitemapSpec, NoPhantomChange

-----------------------------------------------------------------------------
(* Health scores: a sum of points is a number of pairs, so that what is lost,*)
(* a part of what can be lost, is no more.                                 *)

\* What a recompute has read at each of its steps: caps and masses of pages, a time
\* that has been, no more pages than there are.
PageCounts == UNION {[S -> Nat] : S \in SUBSET ScorePages}

Readings ==
  [pc : {"idle", "pages", "issues", "insert"}, now : 0..MaxHealthClock, caps : PageCounts,
   pages : 0..Cardinality(ScorePages), masses : PageCounts]

HealthInv ==
  /\ HealthTypeOK
  /\ IsFiniteSet(points)
  /\ scorer \in [Scorers -> Readings]
  /\ \A w \in Scorers : scorer[w].pc = "insert" => Defined(scorer[w])
  /\ ScoreInRange

\* Points counted one by one are finitely many.
LEMMA PointsFinite ==
  ASSUME NEW D, IsFiniteSet(D), NEW f, \A x \in D : f[x] \in Int
  PROVE  IsFiniteSet(PointsOf(D, f))
<1> DEFINE T == {{x} \X (1..f[x]) : x \in D}
<1>1. PICK column : column = [x \in D |-> {x} \X (1..f[x])]
  OBVIOUS
<1>2. column \in [D -> T] /\ \A t \in T : \E x \in D : column[x] = t
  BY <1>1
<1>3. column \in Surjection(D, T)
  BY <1>2 DEF Surjection
<1>4. IsFiniteSet(T)
  <2> HIDE DEF T
  <2> QED
    BY <1>3, FS_Surjection
<1>5. \A x \in D : IsFiniteSet({x} \X (1..f[x]))
  <2> SUFFICES ASSUME NEW x \in D PROVE IsFiniteSet({x} \X (1..f[x]))
    OBVIOUS
  <2>1. IsFiniteSet({x}) /\ IsFiniteSet(1..f[x])
    <3>1. IsFiniteSet({x})
      BY FS_Singleton
    <3>2. f[x] \in Int /\ 1 \in Int
      OBVIOUS
    <3>3. IsFiniteSet(1..f[x])
      BY <3>2, FS_Interval
    <3> QED
      BY <3>1, <3>3
  <2> QED
    BY <2>1, FS_Product
<1>6. \A t \in T : IsFiniteSet(t)
  BY <1>5
<1>7. IsFiniteSet(UNION T)
  BY <1>4, <1>6, FS_UNION
<1> QED
  BY <1>7 DEF PointsOf

LEMMA PageCountsTyped ==
  ASSUME NEW c \in PageCounts
  PROVE  /\ DOMAIN c \subseteq ScorePages /\ IsFiniteSet(DOMAIN c)
         /\ \A p \in DOMAIN c : c[p] \in Nat
<1>1. PICK S \in SUBSET ScorePages : c \in [S -> Nat]
  BY DEF PageCounts
<1> QED
  BY <1>1, FS_Subset, HealthAssumption

\* The points a page loses are among those it can lose, whichever of the two reads
\* has the page.
LEMMA LostAmongAll ==
  ASSUME NEW s \in Readings
  PROVE  /\ MaxMass(s) \in Nat
         /\ ImpactMass(s) \in 0..MaxMass(s)
<1> DEFINE Most == PointsOf(DOMAIN s.caps, s.caps)
           Lost == PointsOf(DOMAIN s.masses, Deficits(s))
<1>1. s.caps \in PageCounts /\ s.masses \in PageCounts
  BY DEF Readings
<1>2. /\ IsFiniteSet(DOMAIN s.caps) /\ \A p \in DOMAIN s.caps : s.caps[p] \in Nat
      /\ \A p \in DOMAIN s.masses : s.masses[p] \in Nat
  BY <1>1, PageCountsTyped
<1>3. IsFiniteSet(Most)
  BY <1>2, PointsFinite
<1>4. Lost \subseteq Most
  <2> SUFFICES ASSUME NEW x \in Lost PROVE x \in Most
    OBVIOUS
  <2>3. PICK p \in DOMAIN s.masses : x \in {p} \X (1..Deficits(s)[p])
    BY DEF PointsOf
  <2>4. PICK i \in 1..Deficit(s.caps, s.masses[p], p) : x = <<p, i>>
    BY <2>3 DEF Deficits
  <2>1. CapOf(s.caps, p) # 0 /\ i \in 1..CapOf(s.caps, p)
    <3>1. s.masses[p] \in Nat /\ CapOf(s.caps, p) \in Nat
      BY <1>2 DEF CapOf
    <3> QED
      BY <3>1 DEF Deficit
  <2>2. p \in DOMAIN s.caps /\ CapOf(s.caps, p) = s.caps[p]
    BY <2>1 DEF CapOf
  <2> QED
    BY <2>1, <2>2, <2>4 DEF PointsOf
<1>5. Cardinality(Most) \in Nat /\ Cardinality(Lost) \in Nat /\ Cardinality(Lost) <= Cardinality(Most)
  BY <1>3, <1>4, FS_Subset, FS_CardinalityType
<1> QED
  BY <1>5 DEF MaxMass, ImpactMass, Total

\* What is read of the tables at one time is typed.
LEMMA CapsTyped ==
  ASSUME HealthTypeOK
  PROVE  Caps \in PageCounts /\ Cardinality(scope \cap processed) \in 0..Cardinality(ScorePages)
<1>1. Caps \in [scope -> Nat] /\ scope \in SUBSET ScorePages
  <2>1. scope \subseteq ScorePages /\ \A p \in ScorePages : importance[p] \in Importances \cup {0}
    BY DEF HealthTypeOK
  <2>2. Importances \cup {0} \subseteq Nat
    <3>1. Importances \subseteq Nat /\ 0 \in Nat
      BY HealthAssumption
    <3> QED
      BY <3>1, Zenon
  <2>3. \A p \in scope : importance[p] \in Nat
    BY <2>1, <2>2, Zenon
  <2> QED
    BY <2>1, <2>3 DEF Caps
<1>2. scope \cap processed \in SUBSET ScorePages
  BY DEF HealthTypeOK
<1>3. Cardinality(scope \cap processed) \in 0..Cardinality(ScorePages)
  <2>1. IsFiniteSet(ScorePages)
    BY HealthAssumption
  <2>2. Cardinality(scope \cap processed) <= Cardinality(ScorePages) /\ IsFiniteSet(scope \cap processed)
    BY <1>2, <2>1, FS_Subset
  <2>3. Cardinality(ScorePages) \in Nat
    BY <2>1, FS_CardinalityType
  <2>4. Cardinality(scope \cap processed) \in Nat
    BY <2>2, FS_CardinalityType
  <2> QED
    BY <2>2, <2>3, <2>4
<1> QED
  BY <1>1, <1>3 DEF PageCounts

LEMMA MassesTyped ==
  ASSUME HealthTypeOK
  PROVE  Masses \in PageCounts
<1>1. ASSUME NEW p PROVE Mass(p) \in Nat
  <2> DEFINE R == {r \in HealthRules : <<p, r>> \in openIssues}
  <2>1. IsFiniteSet(R) /\ \A r \in R : Impact[r] \in Int
    <3>1. R \in SUBSET HealthRules /\ IsFiniteSet(HealthRules)
      BY HealthAssumption
    <3>2. \A r \in R : Impact[r] \in Int
      BY HealthAssumption
    <3> HIDE DEF R
    <3> QED
      BY <3>1, <3>2, FS_Subset
  <2>2. IsFiniteSet(PointsOf(R, Impact))
    BY <2>1, PointsFinite
  <2> QED
    BY <2>2, FS_CardinalityType DEF Mass, Total
<1> DEFINE S == {p \in scope : Mass(p) > 0}
<1>2. S \in SUBSET ScorePages
  BY DEF HealthTypeOK
<1>3. Masses \in [S -> Nat]
  BY <1>1 DEF Masses
<1> QED
  BY <1>2, <1>3 DEF PageCounts

\* A defined score is of a page that has been processed.
LEMMA DefinedHasPages ==
  ASSUME NEW s \in Readings, Defined(s)
  PROVE  MaxMass(s) > 0 /\ s.pages > 0
<1>1. s.caps \in PageCounts /\ s.pages \in Nat
  BY FS_CardinalityType, HealthAssumption DEF Readings
<1>2. DOMAIN s.caps # {}
  <2> SUFFICES ASSUME DOMAIN s.caps = {} PROVE FALSE
    OBVIOUS
  <2>1. PointsOf(DOMAIN s.caps, s.caps) = {}
    BY DEF PointsOf
  <2> QED
    BY <2>1, FS_EmptySet DEF Defined, MaxMass, Total
<1>3. Cardinality(DOMAIN s.caps) \in Nat /\ Cardinality(DOMAIN s.caps) # 0
  BY <1>1, <1>2, PageCountsTyped, FS_EmptySet, FS_CardinalityType
<1>4. RequiredCoverage(Cardinality(DOMAIN s.caps)) >= 1
  BY <1>3 DEF RequiredCoverage
<1> QED
  BY <1>1, <1>3, <1>4 DEF Defined, RequiredCoverage

LEMMA Restful == NotScoring \in Readings /\ NotScoring.pc = "idle"
<1>1. Cardinality(ScorePages) \in Nat
  BY FS_CardinalityType, HealthAssumption
<1>2. <<>> \in [{} -> Nat]
  OBVIOUS
<1>3. <<>> \in PageCounts
  BY <1>2 DEF PageCounts
<1> QED
  BY <1>1, <1>3, HealthAssumption DEF NotScoring, Readings

LEMMA HealthInitially == HealthInit => HealthInv
<1> SUFFICES ASSUME HealthInit PROVE HealthInv
  OBVIOUS
<1>1. HealthTypeOK
  BY Restful, FS_CardinalityType, HealthAssumption DEF HealthInit, HealthTypeOK
<1> QED
  BY <1>1, Restful, FS_EmptySet DEF HealthInit, HealthInv, ScoreInRange

\* The readings of the others are left alone: what the step must establish is of one
\* recompute, and of the points.
LEMMA OneReads ==
  ASSUME HealthInv, NEW w \in Scorers, NEW s \in Readings, s.pc = "insert" => Defined(s),
         scorer' = [scorer EXCEPT ![w] = s],
         UNCHANGED <<scope, importance, processed, openIssues, points, moves, healthClock>>
  PROVE  HealthInv'
<1>1. scorer' \in [Scorers -> Readings] /\ \A v \in Scorers : scorer'[v].pc = "insert" => Defined(scorer'[v])
  BY DEF HealthInv
<1>2. \A v \in Scorers : scorer'[v].pc \in {"idle", "pages", "issues", "insert"}
  BY <1>1 DEF Readings
<1> QED
  BY <1>1, <1>2 DEF HealthInv, HealthTypeOK, ScoreInRange, Defined, MaxMass, RequiredCoverage

LEMMA HealthInductive == HealthInv /\ [HealthNext]_healthVars => HealthInv'
<1> SUFFICES ASSUME HealthInv, [HealthNext]_healthVars PROVE HealthInv'
  OBVIOUS
<1>0. HealthTypeOK /\ scorer \in [Scorers -> Readings] /\ IsFiniteSet(points) /\ ScoreInRange
  BY DEF HealthInv
<1>1. CASE UNCHANGED healthVars
  BY <1>1 DEF healthVars, HealthInv, HealthTypeOK, ScoreInRange, Defined, MaxMass, RequiredCoverage
<1>2. ASSUME NEW p \in ScorePages, UpsertURL(p) \/ LeaveScope(p) \/ UpdateURLSchedule(p) PROVE HealthInv'
  <2>1. HealthTypeOK'
    BY <1>0, <1>2, HealthAssumption DEF HealthTypeOK, UpsertURL, LeaveScope, UpdateURLSchedule, Move
  <2> QED
    BY <1>2, <2>1 DEF HealthInv, ScoreInRange, UpsertURL, LeaveScope, UpdateURLSchedule,
                      Defined, MaxMass, RequiredCoverage
<1>3. ASSUME NEW p \in ScorePages, NEW r \in HealthRules, UpsertIssue(p, r) \/ IssueCloses(p, r)
      PROVE  HealthInv'
  <2>1. HealthTypeOK'
    BY <1>0, <1>3, HealthAssumption DEF HealthTypeOK, UpsertIssue, IssueCloses, Move
  <2> QED
    BY <1>3, <2>1 DEF HealthInv, ScoreInRange, UpsertIssue, IssueCloses, Defined, MaxMass, RequiredCoverage
<1>4. CASE HealthTick
  <2>1. HealthTypeOK'
    BY <1>0, <1>4, HealthAssumption DEF HealthTypeOK, HealthTick
  <2> QED
    BY <1>4, <2>1 DEF HealthInv, ScoreInRange, HealthTick, Defined, MaxMass, RequiredCoverage
<1>5. ASSUME NEW w \in Scorers, RecordHealthScores(w) PROVE HealthInv'
  <2>1. [NotScoring EXCEPT !.pc = "pages", !.now = healthClock] \in Readings
    BY <1>0, Restful DEF Readings, HealthTypeOK
  <2>2. [NotScoring EXCEPT !.pc = "pages", !.now = healthClock].pc = "pages"
    BY DEF NotScoring
  <2> QED
    BY <1>5, <2>1, <2>2, OneReads DEF RecordHealthScores
<1>6. ASSUME NEW w \in Scorers, ScopeURLs(w) PROVE HealthInv'
  <2> DEFINE s == [scorer[w] EXCEPT !.pc = "issues", !.caps = Caps, !.pages = Cardinality(scope \cap processed)]
  <2>1. s \in Readings /\ s.pc = "issues"
    BY <1>0, CapsTyped DEF Readings
  <2>2. scorer' = [scorer EXCEPT ![w] = s]
    BY <1>0, <1>6 DEF ScopeURLs
  <2> QED
    BY <1>6, <2>1, <2>2, OneReads DEF ScopeURLs
<1>7. ASSUME NEW w \in Scorers, ScopeOpenIssues(w) PROVE HealthInv'
  <2> DEFINE s == [scorer[w] EXCEPT !.pc = "insert", !.masses = Masses]
  <2>1. CASE Defined(scorer[w])
    <3>1. s \in Readings /\ s.caps = scorer[w].caps /\ s.pages = scorer[w].pages
      BY <1>0, MassesTyped DEF Readings
    <3>2. Defined(s)
      BY <2>1, <3>1 DEF Defined, MaxMass
    <3>3. scorer' = [scorer EXCEPT ![w] = s]
      BY <1>0, <1>7, <2>1 DEF ScopeOpenIssues
    <3> QED
      BY <1>7, <3>1, <3>2, <3>3, OneReads DEF ScopeOpenIssues
  <2>2. CASE ~Defined(scorer[w])
    <3>1. scorer' = [scorer EXCEPT ![w] = NotScoring]
      BY <1>0, <1>7, <2>2 DEF ScopeOpenIssues
    <3> QED
      BY <1>7, <3>1, Restful, OneReads DEF ScopeOpenIssues
  <2> QED
    BY <2>1, <2>2
<1>8. ASSUME NEW w \in Scorers, ScoringFails(w) PROVE HealthInv'
  BY <1>8, Restful, OneReads DEF ScoringFails
<1>9. ASSUME NEW w \in Scorers, InsertHealthScoreIfChanged(w) PROVE HealthInv'
  <2> DEFINE s == scorer[w]
             point == [id |-> Cardinality(points) + 1, at |-> s.now, impact |-> ImpactMass(s),
                       max |-> MaxMass(s), pages |-> s.pages]
  <2>1. s \in Readings /\ Defined(s)
    BY <1>0, <1>9 DEF InsertHealthScoreIfChanged, HealthInv
  <2>2. /\ MaxMass(s) \in Nat /\ ImpactMass(s) \in 0..MaxMass(s)
        /\ MaxMass(s) > 0 /\ s.pages > 0
    BY <2>1, LostAmongAll, DefinedHasPages
  <2>3. /\ scorer' = [scorer EXCEPT ![w] = NotScoring]
        /\ UNCHANGED <<scope, importance, processed, openIssues, moves, healthClock>>
        /\ points' = points \/ (Cardinality(points) < MaxPoints /\ points' = points \cup {point})
    BY <1>9 DEF InsertHealthScoreIfChanged
  <2>4. Cardinality(points) \in Nat
    BY <1>0, FS_CardinalityType
  <2>5. s.now \in 0..MaxHealthClock /\ s.pages \in 0..Cardinality(ScorePages)
    BY <2>1 DEF Readings
  <2>6. CASE points' = points
    BY <1>9, <2>3, <2>6, Restful, OneReads
  <2>7. CASE Cardinality(points) < MaxPoints /\ points' = points \cup {point}
    <3>1. point \in [id : 1..MaxPoints, at : 0..MaxHealthClock, impact : Nat, max : Nat,
                     pages : 0..Cardinality(ScorePages)]
      BY <2>2, <2>4, <2>5, <2>7, HealthAssumption
    <3>2. IsFiniteSet(points')
      BY <1>0, <2>7, FS_AddElement
    <3>3. ScoreInRange'
      BY <1>0, <2>2, <2>7 DEF ScoreInRange
    <3>4. scorer' \in [Scorers -> Readings] /\ \A v \in Scorers : scorer'[v].pc = "insert" => Defined(scorer'[v])
      BY <2>3, Restful DEF HealthInv
    <3>5. \A v \in Scorers : scorer'[v].pc \in {"idle", "pages", "issues", "insert"}
      BY <3>4 DEF Readings
    <3>6. HealthTypeOK'
      BY <1>0, <2>3, <2>7, <3>1, <3>5 DEF HealthTypeOK
    <3> QED
      BY <3>2, <3>3, <3>4, <3>6 DEF HealthInv, Defined, MaxMass, RequiredCoverage
  <2> QED
    BY <2>3, <2>6, <2>7
<1> QED
  BY <1>1, <1>2, <1>3, <1>4, <1>5, <1>6, <1>7, <1>8, <1>9 DEF HealthNext

LEMMA HealthInvariant == HealthSpec => []HealthInv
  BY HealthInitially, HealthInductive, PTL DEF HealthSpec

\* The recomputes' readings and the stored points keep their types, and no point is
\* stored past the bound, of pages the scope does not have or at a time to come.
THEOREM HealthTypeCorrect == HealthSpec => []HealthTypeOK
<1>1. HealthInv => HealthTypeOK
  BY DEF HealthInv
<1> QED
  BY <1>1, HealthInvariant, PTL

\* A stored score is one, whatever changed between the two reads it was computed from.
THEOREM ScoreInRangeCorrect == HealthSpec => []ScoreInRange
<1>1. HealthInv => ScoreInRange
  BY DEF HealthInv
<1> QED
  BY <1>1, HealthInvariant, PTL

-----------------------------------------------------------------------------
(* The suite: each of its behaviours is one of every component.            *)

LEMMA SuiteStep ==
  ASSUME [SuiteNext]_SuiteVars
  PROVE  /\ [SitemapNext]_sitemapVars /\ [LinkGraphNext]_graphVars /\ [IssueNext]_issueVars
         /\ [RetentionNext]_retentionVars /\ [SegmentsNext]_segmentVars /\ [HealthNext]_healthVars
<1>1. CASE UNCHANGED SuiteVars
  BY <1>1 DEF SuiteVars
<1>2. CASE SuiteNext
  BY <1>2 DEF SuiteNext
<1> QED
  BY <1>1, <1>2

\* Whatever part of the site watch a behaviour of the suite is about, its variables
\* keep their types: the shapes of rows, passes and readings, ids that have been given
\* out, times that have been.
THEOREM SuiteTypeCorrect == SuiteSpec => []SuiteTypeOK
<1> DEFINE Parts == SitemapInv /\ SweepInv /\ IssueTypeOK /\ RetentionInv /\ SegInv /\ HealthInv
<1>1. SuiteInit => Parts
  BY SitemapStarts, GraphInitially, InitTypeOK, RetentionInitially, SegInitially, HealthInitially DEF SuiteInit
<1>2. Parts /\ [SuiteNext]_SuiteVars => Parts'
  BY SuiteStep, SitemapKept, GraphInductive, TypeStep, RetentionInductive, SegInductive, HealthInductive
<1>3. Parts => SuiteTypeOK
  <2>1. SitemapInv => SitemapTypeOK
    BY SitemapShapes
  <2>2. SweepInv => LinkGraphTypeOK
    BY DEF SweepInv, GraphTypes
  <2>3. RetentionInv => RetentionTypeOK
    BY DEF RetentionInv
  <2>4. HealthInv => HealthTypeOK
    BY DEF HealthInv
  <2> QED
    BY <2>1, <2>2, <2>3, <2>4, SegTyped DEF SuiteTypeOK
<1> QED
  BY <1>1, <1>2, <1>3, PTL DEF SuiteSpec
=============================================================================
