------------------------------ MODULE Segments ------------------------------
(***************************************************************************)
(* The segments of one site (internal/segments, internal/store/segments.go)*)
(* as three parties keep them: the configuration, the tables segments and  *)
(* url_segments, and the registry in memory.  A reconcile compiles the     *)
(* configuration it read, converges the definitions, reclassifies every    *)
(* page and publishes its matcher at the end, each step a transaction or a *)
(* swap of its own; a page that discovery admits is classified by the      *)
(* matcher it finds, and the reload, the re-verification and the start     *)
(* reconcile without a lock between them.                                  *)
(*                                                                         *)
(* A pattern is the set of pages whose path it matches.  Bounds: MaxEdits  *)
(* edits of the configuration, MaxReconciles, MaxSegmentErrors.            *)
(***************************************************************************)
EXTENDS Integers, FiniteSets

CONSTANTS
  SegPages,      \* pages of the site, known or to be found
  SegKnown,      \* those in the inventory from the start
  SegNames,
  SegConfigs,    \* the configurations, as functions of names to patterns
  Uncompilable,  \* one whose pattern, or name, is not valid
  NoMatcher,
  Reconcilers,
  MaxSegEdits, MaxReconciles, MaxSegmentErrors

ASSUME SegmentsAssumption ==
  /\ IsFiniteSet(SegNames)
  /\ SegKnown \subseteq SegPages
  /\ \A c \in SegConfigs : DOMAIN c \subseteq SegNames /\ \A n \in DOMAIN c : c[n] \subseteq SegPages
  /\ Uncompilable \notin SegConfigs
  /\ {MaxSegEdits, MaxReconciles, MaxSegmentErrors} \subseteq Nat

VARIABLES
  segConfig,   \* the configuration of the daemon
  segments,    \* the table: definitions with their ids
  urlSegments, \* url_segments: pairs of a page and an id
  registry,    \* the matcher of the site, in memory
  inventory,   \* the pages of the site
  reconcile,   \* where each reconcile is
  classify,    \* where the classification of an admitted page is
  segSerial, segEdits, reconciles, segErrors,
  alone,       \* history: the last reconcile that published had no company
  late         \* history: pages admitted since the last reconcile to publish began

segmentVars == <<segConfig, segments, urlSegments, registry, inventory, reconcile, classify,
                 segSerial, segEdits, reconciles, segErrors, alone, late>>

-----------------------------------------------------------------------------
\* A matcher carries the patterns of a configuration and the ids it was bound to.
MatchIDs(matcher, p) ==
  IF matcher = NoMatcher THEN {}
  ELSE {matcher.ids[n] : n \in {n \in DOMAIN matcher.ids : p \in matcher.match[n]}}

IDs == {d.id : d \in segments}
MembersOf(p) == {i \in IDs : <<p, i>> \in urlSegments}

NotReconciling == [pc |-> "idle", config |-> Uncompilable, matcher |-> NoMatcher, company |-> FALSE]
NotClassifying == [pc |-> "idle", ids |-> {}]

SegmentsInit ==
  /\ segConfig \in SegConfigs
  /\ segments = {} /\ urlSegments = {}
  /\ registry = NoMatcher
  /\ inventory = SegKnown
  /\ reconcile = [r \in Reconcilers |-> NotReconciling]
  /\ classify = [p \in SegPages |-> NotClassifying]
  /\ segSerial = 0 /\ segEdits = 0 /\ reconciles = 0 /\ segErrors = 0
  /\ alone = FALSE
  /\ late = {}

SegmentsTypeOK ==
  LET ids == 1..segSerial
      matchers == {NoMatcher} \cup
        UNION {[match : {c}, ids : [DOMAIN c -> ids]] : c \in SegConfigs}
  IN /\ segConfig \in SegConfigs \cup {Uncompilable}
     /\ \A d \in segments : d.id \in ids /\ d.name \in SegNames /\ d.rule \subseteq SegPages
     /\ \A d, e \in segments : d.name = e.name => d = e
     /\ urlSegments \subseteq inventory \X IDs
     /\ registry \in matchers
     /\ \A r \in Reconcilers :
          /\ reconcile[r].pc \in {"idle", "sync", "reclassify", "swap"}
          /\ reconcile[r].matcher \in matchers
     /\ \A p \in SegPages : classify[p].pc \in {"idle", "new", "found"} /\ classify[p].ids \subseteq ids

Busy == {r \in Reconcilers : reconcile[r].pc # "idle"}

-----------------------------------------------------------------------------
EditSegments ==
  /\ segEdits < MaxSegEdits
  /\ \E c \in SegConfigs \cup {Uncompilable} : c # segConfig /\ segConfig' = c
  /\ segEdits' = segEdits + 1
  /\ UNCHANGED <<segments, urlSegments, registry, inventory, reconcile, classify, segSerial,
                 reconciles, segErrors, alone, late>>

\* A configuration that does not compile skips the site: what the tables hold
\* stays, and the registry that is published has no matcher for it.
StartReconcile(r) ==
  /\ reconcile[r].pc = "idle"
  /\ reconciles < MaxReconciles
  /\ reconciles' = reconciles + 1
  /\ reconcile' = [q \in Reconcilers |->
       IF q = r THEN [pc |-> IF segConfig = Uncompilable THEN "swap" ELSE "sync",
                      config |-> segConfig, matcher |-> NoMatcher, company |-> Busy # {}]
       ELSE [reconcile[q] EXCEPT !.company = (q \in Busy)]]
  /\ late' = {p \in SegPages : classify[p].pc # "idle"}
  /\ UNCHANGED <<segConfig, segments, urlSegments, registry, inventory, classify, segSerial,
                 segEdits, segErrors, alone>>

\* Converge the table to the definitions, in one transaction: a name that is gone
\* takes its memberships along, one that stays keeps its id.
SyncSiteSegments(r) ==
  LET config == reconcile[r].config
      kept == {d \in segments : d.name \in DOMAIN config}
      new == DOMAIN config \ {d.name : d \in segments}
  IN /\ reconcile[r].pc = "sync"
     /\ \E id \in [new -> segSerial + 1 .. segSerial + Cardinality(new)] :
          /\ \A m, n \in new : id[m] = id[n] => m = n
          /\ segments' = {[d EXCEPT !.rule = config[d.name]] : d \in kept} \cup
                         {[id |-> id[n], name |-> n, rule |-> config[n]] : n \in new}
     /\ segSerial' = segSerial + Cardinality(new)
     /\ urlSegments' = {m \in urlSegments : \E d \in segments' : d.id = m[2]}
     /\ reconcile' = [reconcile EXCEPT ![r].pc = "reclassify", ![r].matcher =
          [match |-> config,
           ids |-> [n \in DOMAIN config |-> (CHOOSE d \in segments' : d.name = n).id]]]
     /\ UNCHANGED <<segConfig, registry, inventory, classify, segEdits, reconciles, segErrors,
                    alone, late>>

Membership_Grows(matcher) ==
  urlSegments \cup {m \in inventory \X (1..segSerial) : m[2] \in MatchIDs(matcher, m[1])}
Membership(matcher) == {m \in inventory \X (1..segSerial) : m[2] \in MatchIDs(matcher, m[1])}

\* Rewrite every membership of the site in one transaction.  An id that another
\* reconcile has deleted breaks the foreign key: nothing is written, and the
\* reconcile ends without publishing.
ReclassifySite(r) ==
  /\ reconcile[r].pc = "reclassify"
  /\ LET members == Membership(reconcile[r].matcher)
     IN IF \A m \in members : m[2] \in IDs
        THEN /\ urlSegments' = members
             /\ reconcile' = [reconcile EXCEPT ![r].pc = "swap"]
             /\ alone' = alone
        ELSE /\ reconcile' = [reconcile EXCEPT ![r] = NotReconciling]
             /\ alone' = FALSE
             /\ UNCHANGED urlSegments
  /\ UNCHANGED <<segConfig, segments, registry, inventory, classify, segSerial, segEdits,
                 reconciles, segErrors, late>>

\* The store fails, before or after the definitions are synced.
ReconcileFails(r) ==
  /\ reconcile[r].pc \in {"sync", "reclassify"}
  /\ segErrors < MaxSegmentErrors
  /\ segErrors' = segErrors + 1
  /\ reconcile' = [reconcile EXCEPT ![r] = NotReconciling]
  /\ alone' = FALSE
  /\ UNCHANGED <<segConfig, segments, urlSegments, registry, inventory, classify, segSerial,
                 segEdits, reconciles, late>>

Swap(r) ==
  /\ reconcile[r].pc = "swap"
  /\ registry' = reconcile[r].matcher
  /\ reconcile' = [reconcile EXCEPT ![r] = NotReconciling]
  /\ alone' = ~reconcile[r].company
  /\ UNCHANGED <<segConfig, segments, urlSegments, inventory, classify, segSerial, segEdits,
                 reconciles, segErrors, late>>

-----------------------------------------------------------------------------
\* Discovery admits a page, looks its segments up in the registry, and writes them.
Upsert(p) ==
  /\ p \notin inventory
  /\ inventory' = inventory \cup {p}
  /\ classify' = [classify EXCEPT ![p].pc = "new"]
  /\ late' = IF Busy = {} THEN late ELSE late \cup {p}
  /\ UNCHANGED <<segConfig, segments, urlSegments, registry, reconcile, segSerial, segEdits,
                 reconciles, segErrors, alone>>

SegmentIDsFor(p) ==
  /\ classify[p].pc = "new"
  /\ classify' = [classify EXCEPT ![p] = [pc |-> "found", ids |-> MatchIDs(registry, p)]]
  /\ UNCHANGED <<segConfig, segments, urlSegments, registry, inventory, reconcile, segSerial,
                 segEdits, reconciles, segErrors, alone, late>>

\* The page counts as admitted whether or not this succeeds.
SetURLSegments(p) ==
  /\ classify[p].pc = "found"
  /\ urlSegments' =
       IF classify[p].ids \subseteq IDs
       THEN {m \in urlSegments : m[1] # p} \cup {<<p, i>> : i \in classify[p].ids}
       ELSE urlSegments
  /\ classify' = [classify EXCEPT ![p] = NotClassifying]
  /\ UNCHANGED <<segConfig, segments, registry, inventory, reconcile, segSerial, segEdits,
                 reconciles, segErrors, alone, late>>

SegmentsNext ==
  \/ EditSegments
  \/ \E r \in Reconcilers : \/ StartReconcile(r) \/ SyncSiteSegments(r) \/ ReclassifySite(r)
                            \/ ReconcileFails(r) \/ Swap(r)
  \/ \E p \in SegPages : Upsert(p) \/ SegmentIDsFor(p) \/ SetURLSegments(p)

SegmentsSpec == SegmentsInit /\ [][SegmentsNext]_segmentVars

-----------------------------------------------------------------------------
(* After a reconcile that ran alone and was published, the three agree whatever
   went wrong before it: the registry is bound to the definitions of the table,
   and each page is in exactly the segments whose pattern matches it -- except one
   whose admission met the reconcile (discovery.go:386), until the next. *)
SegmentsSettle ==
  Busy = {} /\ alone /\ registry # NoMatcher =>
    /\ {<<d.name, d.id, d.rule>> : d \in segments} =
         {<<n, registry.ids[n], registry.match[n]>> : n \in DOMAIN registry.match}
    /\ \A p \in inventory \ late :
         classify[p].pc = "idle" => MembersOf(p) = MatchIDs(registry, p)
=============================================================================
