---------------------------- MODULE PageMonitor ----------------------------
(***************************************************************************)
(* One page under watch: Crawler.CrawlOne (internal/scheduler/crawl.go)    *)
(* and Processor.ProcessFetch (process.go) with diff.Compare, the rules    *)
(* about status and indexability and the access gate of internal/alerts.   *)
(*                                                                         *)
(* A crawl fetches the page, saves its snapshot, runs the access gate,     *)
(* records the changes, applies the rules, emits alert events, resolves    *)
(* the incidents of recovered signals and writes the schedule row with the *)
(* HTTP validators.  Each of these is a transaction of its own; one can    *)
(* fail and the process can crash between any two, at most MaxFaults times *)
(* (a bound).                                                              *)
(*                                                                         *)
(* Of a page the model keeps what the alert logic looks at: the status,    *)
(* the robots directive and the canonical link.  An incident here is an    *)
(* identity (change type and severity) that has the page as a member: the  *)
(* page joins it with Ingest and leaves it with Resolve (IncidentPipeline  *)
(* models how).  The sweep that closes an incident after 24 hours without  *)
(* an event is left out: crawls here come more often than that.            *)
(*                                                                         *)
(* A definition named X_Y is X with the defect Y: the checks put it in the *)
(* place of X to show that a property can fail.                            *)
(***************************************************************************)
EXTENDS Naturals, FiniteSets

CONSTANTS
  Pages,        \* what the site can serve at the address
  Unparseable,  \* those without a body, or that the extractor refuses
  BlockPage,    \* the page of a block (429, 503, 403, a challenge)
  NoPage,       \* no snapshot, or no validator
  MaxFaults     \* how often a store call may fail or the process crash

PageType == [status    : {200, 301, 404, 500},
             robots    : {"none", "snippet", "noindex"},
             canonical : {"self", "away", "none"}]

ASSUME MonitorAssumption ==
  /\ Pages \subseteq PageType
  /\ Unparseable \subseteq Pages
  /\ {NoPage, BlockPage} \cap PageType = {}
  /\ NoPage # BlockPage
  /\ MaxFaults \in Nat

VARIABLES
  etag,       \* urls.etag: the page a conditional GET names
  snap,       \* the latest row of snapshots
  logged,     \* what the rows of changes, replayed, say the page is
  issues,     \* the rules with an open issue for the page
  incidents,  \* the incident identities that have the page as a member
  pc,         \* the step the crawl is about to take
  new,        \* the snapshot of this crawl
  old,        \* the snapshot before it
  findings,   \* the findings the rules have newly opened in this crawl
  alerted,    \* history: the events this crawl has ingested
  told,       \* history: those ingested since the page was last healthy
  baseline,   \* history: whether the page has ever been healthy
  faults      \* the number of faults so far

stored == <<etag, snap, logged, issues, incidents>>
locals == <<new, old, findings>>
history == <<alerted, told, baseline>>
vars == <<stored, pc, locals, history, faults>>

-----------------------------------------------------------------------------
\* extract.Indexability: the first reason that applies.
Reason(p) ==
  IF p.status < 200 \/ p.status >= 300 THEN "non_2xx_status"
  ELSE IF p.robots = "noindex" THEN "meta_robots_noindex"
  ELSE IF p.canonical = "away" THEN "canonicalized_away"
  ELSE "indexable"

Indexable(p) == Reason(p) = "indexable"
IsError(p)   == p.status >= 400
Healthy(p)   == p # NoPage /\ p.status = 200 /\ Indexable(p)

Fields == {"meta_robots", "canonical", "indexability_reason", "indexable", "http_status"}

Value(p) == [meta_robots         |-> p.robots,
             canonical           |-> p.canonical,
             indexability_reason |-> Reason(p),
             indexable           |-> Indexable(p),
             http_status         |-> p.status]

\* diff.Compare: the fields that differ; nothing for a first snapshot.
Changes(n, o) == IF o = NoPage THEN {} ELSE {f \in Fields : Value(n)[f] # Value(o)[f]}

\* The rules of rules.DefaultRuleSet about these fields: the severity of the
\* finding, or "pass".
Rules == {"status_regression", "indexability_flip", "meta_robots_noindex", "canonical_changed"}

StatusRegression(n, o) ==
  CASE n.status >= 500 -> "critical"
    [] n.status \in 400..499 /\ o # NoPage /\ ~IsError(o) -> "critical"
    [] n.status \in 400..499 /\ (o = NoPage \/ IsError(o)) -> "warning"
    [] OTHER -> "pass"

Verdict(n, o) ==
  [status_regression   |-> StatusRegression(n, o),
   indexability_flip   |-> IF o # NoPage /\ Indexable(o) /\ ~Indexable(n) THEN "critical" ELSE "pass",
   meta_robots_noindex |-> IF n.robots = "noindex" THEN "critical" ELSE "pass",
   canonical_changed   |-> IF n.canonical = "none" \/ "canonical" \in Changes(n, o)
                           THEN "critical" ELSE "pass"]

\* ruleFieldForBridge: the change type under which a finding is alerted.
BridgeField == [status_regression   |-> "http_status",
                indexability_flip   |-> "indexable",
                meta_robots_noindex |-> "meta_robots",
                canonical_changed   |-> "canonical"]

Blocked     == [type |-> "monitoring_blocked", sev |-> "critical"]
Unreachable == [type |-> "monitoring_unreachable", sev |-> "critical"]
Critical(f) == [type |-> f, sev |-> "critical"]
Identity == [type : Fields \cup {Blocked.type, Unreachable.type}, sev : {"critical", "warning"}]

Finding == [type : Fields, sev : {"critical", "warning"}]

-----------------------------------------------------------------------------
Fault   == faults < MaxFaults /\ faults' = faults + 1
NoFault == UNCHANGED faults

Init ==
  /\ etag = NoPage
  /\ snap = NoPage
  /\ logged = NoPage
  /\ issues = {}
  /\ incidents = {}
  /\ pc = "idle"
  /\ new = NoPage
  /\ old = NoPage
  /\ findings = {}
  /\ alerted = {}
  /\ told = {}
  /\ baseline = FALSE
  /\ faults = 0

(***************************************************************************)
(* The fetch.  A blocked or unreachable page only drives the access gate.  *)
(* The server answers 304 to a conditional GET whose validator names the   *)
(* page it still serves.                                                   *)
(***************************************************************************)
FetchPage(p) ==
  /\ pc = "idle"
  /\ new' = p
  /\ pc' = IF p \in Unparseable THEN "schedule" ELSE "save"
  /\ UNCHANGED <<stored, old, findings, history, faults>>

FetchNotModified ==
  /\ pc = "idle"
  /\ etag # NoPage
  /\ pc' = "notModified"
  /\ UNCHANGED <<stored, locals, history, faults>>

\* A block page can have validators of its own, and they are adopted.
FetchFailed(inc) ==
  /\ pc = "idle"
  /\ incidents' = incidents \cup {inc}
  /\ etag' \in {etag} \cup (IF inc = Blocked THEN {BlockPage} ELSE {})
  /\ UNCHANGED <<snap, logged, issues, pc, locals, history, faults>>

\* LatestSnapshot, then SaveSnapshot: the prior one is read first.  The first
\* snapshot is the baseline of the change history.
SaveSnapshot ==
  /\ pc = "save"
  /\ old' = snap
  /\ snap' = new
  /\ logged' = IF snap = NoPage THEN new ELSE logged
  /\ pc' = "gate"
  /\ UNCHANGED <<etag, issues, incidents, new, findings, history, faults>>

\* HandleFetchClass of an ok fetch: the operational incidents are resolved.
Gate ==
  /\ pc \in {"gate", "notModified"}
  /\ incidents' = incidents \ {Blocked, Unreachable}
  /\ pc' = IF pc = "gate" THEN "record" ELSE "schedule"
  /\ UNCHANGED <<etag, snap, logged, issues, locals, history, faults>>

RecordChanges_StatusOnly ==
  /\ pc = "record"
  /\ logged' = IF old = NoPage THEN logged ELSE [logged EXCEPT !.status = new.status]
  /\ pc' = "rules"
  /\ UNCHANGED <<etag, snap, issues, incidents, locals, history, faults>>

\* RecordChanges: one row for each field of the diff.
RecordChanges ==
  LET Written(field, now, before) == IF field \in Changes(new, old) THEN now ELSE before
  IN /\ pc = "record"
     /\ logged' = [status    |-> Written("http_status", new.status, logged.status),
                   robots    |-> Written("meta_robots", new.robots, logged.robots),
                   canonical |-> Written("canonical", new.canonical, logged.canonical)]
     /\ pc' = "rules"
     /\ UNCHANGED <<etag, snap, issues, incidents, locals, history, faults>>

\* Engine.Apply opens the failing rules and closes the passing ones; ApplyRules
\* returns those that were not open before.
ApplyRules ==
  LET failing == {r \in Rules : Verdict(new, old)[r] # "pass"}
  IN /\ pc = "rules"
     /\ issues' = failing
     /\ findings' = {[type |-> BridgeField[r], sev |-> Verdict(new, old)[r]] :
                       r \in failing \ issues}
     /\ pc' = "emit"
     /\ UNCHANGED <<etag, snap, logged, incidents, new, old, history, faults>>

(***************************************************************************)
(* The events.  An indexability flip stands for the directives that caused *)
(* it; a page that is gone is one event, whatever else changed with it.    *)
(***************************************************************************)
Folded_FlipOnly(field) ==
  "indexable" \in Changes(new, old) /\ field \in {"meta_robots", "indexability_reason"}

Folded_StatusToo(field) ==
  /\ "indexable" \in Changes(new, old)
  /\ field \in {"meta_robots", "indexability_reason", "http_status"}

Folded(field) ==
  \/ "indexable" \in Changes(new, old) /\ field \in {"meta_robots", "indexability_reason"}
  \/ /\ "http_status" \in Changes(new, old) /\ IsError(new)
     /\ field \in {"indexable", "canonical"}

\* A robots directive that changes without touching the noindex verdict.
Benign(field) ==
  field = "meta_robots" /\ (old.robots = "noindex" <=> new.robots = "noindex")

Streamed == {Critical(f) : f \in {g \in Changes(new, old) : ~Folded(g) /\ ~Benign(g)}}

\* The findings that the change stream has not alerted; on a first crawl only
\* a broken page.
Bridged ==
  {x \in findings : /\ old = NoPage => x.type = "http_status"
                    /\ \A e \in Streamed : e.type # x.type
                    /\ ~Folded(x.type)}

\* An ingest that fails is joined to the error and the loop goes on.
Emit(lost) ==
  LET delivered == (Streamed \cup Bridged) \ lost
  IN /\ pc = "emit"
     /\ lost \subseteq Streamed \cup Bridged
     /\ IF lost = {} THEN NoFault ELSE Fault
     /\ incidents' = incidents \cup delivered
     /\ alerted' = delivered
     /\ told' = told \cup delivered
     /\ pc' = "resolve"
     /\ UNCHANGED <<etag, snap, logged, issues, locals, baseline>>

Recovered_StatusOnly ==
  IF old # NoPage /\ IsError(old) /\ new.status \in 200..299
  THEN {Critical("http_status")} ELSE {}

\* resolveHealthyFields: the signals that have reverted to a healthy value.
Recovered ==
  {inc \in {Critical("indexable"), Critical("http_status")} :
     /\ old # NoPage
     /\ inc.type = "indexable" => ~Indexable(old) /\ Indexable(new)
     /\ inc.type = "http_status" => IsError(old) /\ new.status \in 200..299}

\* The first resolve that fails ends the others: indexable comes first.
ResolveHealthy(done) ==
  /\ pc = "resolve"
  /\ done \subseteq Recovered
  /\ IF done = Recovered THEN NoFault ELSE Fault
  /\ Critical("http_status") \in done => done = Recovered
  /\ incidents' = incidents \ done
  /\ pc' = "schedule"
  /\ UNCHANGED <<etag, snap, logged, issues, locals, history>>

\* The end of a crawl: its locals are gone.
Finish ==
  /\ pc' = "idle"
  /\ new' = NoPage
  /\ old' = NoPage
  /\ findings' = {}
  /\ alerted' = {}
  /\ told' = IF Healthy(snap) THEN {} ELSE told
  /\ baseline' = (baseline \/ Healthy(snap))

\* UpdateURLSchedule writes the validators of the response; those of an earlier
\* one are kept if it has none, as error pages often do.
UpdateSchedule ==
  /\ pc = "schedule"
  /\ etag' \in {etag} \cup ({new} \ {NoPage})
  /\ Finish
  /\ UNCHANGED <<snap, logged, issues, incidents, faults>>

(***************************************************************************)
(* Faults.  An error of a step before the events ends the processing: the  *)
(* schedule is written all the same.  Half of the rules may be applied.    *)
(***************************************************************************)
StepError ==
  /\ Fault
  /\ pc \in {"save", "gate", "notModified", "record"}
  /\ pc' = "schedule"
  /\ UNCHANGED <<stored, locals, history>>

\* The gate resolves the two incidents one after the other.
GateHalfDone ==
  /\ Fault
  /\ pc \in {"gate", "notModified"}
  /\ incidents' = incidents \ {Blocked}
  /\ pc' = "schedule"
  /\ UNCHANGED <<etag, snap, logged, issues, locals, history>>

\* SaveSnapshot has committed, but LatestSnapshot had failed.
PriorUnread ==
  /\ Fault
  /\ pc = "save"
  /\ snap' = new
  /\ logged' = IF snap = NoPage THEN new ELSE logged
  /\ pc' = "schedule"
  /\ UNCHANGED <<etag, issues, incidents, locals, history>>

RulesError(applied) ==
  /\ Fault
  /\ pc = "rules"
  /\ applied \subseteq Rules
  /\ issues' = {r \in Rules : IF r \in applied THEN Verdict(new, old)[r] # "pass" ELSE r \in issues}
  /\ pc' = "schedule"
  /\ UNCHANGED <<etag, snap, logged, incidents, locals, history>>

ScheduleError ==
  /\ Fault
  /\ pc = "schedule"
  /\ Finish
  /\ UNCHANGED stored

Crash ==
  /\ Fault
  /\ pc # "idle"
  /\ Finish
  /\ UNCHANGED stored

-----------------------------------------------------------------------------
Crawl ==
  \/ \E p \in Pages : FetchPage(p)
  \/ FetchNotModified
  \/ \E inc \in {Blocked, Unreachable} : FetchFailed(inc)
  \/ SaveSnapshot
  \/ Gate
  \/ RecordChanges
  \/ ApplyRules
  \/ \E lost \in SUBSET (Streamed \cup Bridged) : Emit(lost)
  \/ \E done \in SUBSET Recovered : ResolveHealthy(done)
  \/ UpdateSchedule

Next ==
  \/ Crawl
  \/ StepError
  \/ GateHalfDone
  \/ PriorUnread
  \/ \E applied \in SUBSET Rules : RulesError(applied)
  \/ ScheduleError
  \/ Crash

Spec == Init /\ [][Next]_vars

-----------------------------------------------------------------------------
\* The types of the variables.
TypeOK ==
  /\ etag \in Pages \cup {NoPage, BlockPage}
  /\ {snap, new, old} \subseteq Pages \cup {NoPage}
  /\ logged \in PageType \cup {NoPage}
  /\ issues \subseteq Rules
  /\ incidents \subseteq Identity
  /\ pc \in {"idle", "save", "gate", "notModified", "record", "rules", "emit", "resolve", "schedule"}
  /\ findings \subseteq Finding
  /\ alerted \subseteq Identity
  /\ told \subseteq Identity
  /\ baseline \in BOOLEAN
  /\ faults \in 0..MaxFaults

\* The next three hold of a page none of whose crawls has failed half-way.
\* Every regression is told: once the page has been healthy, a crawl that leaves
\* it broken or out of the index has raised a critical event since, whatever the
\* folding of events across crawls ("no over-suppression", ProcessFetch).
NoSilentRegression ==
  faults = 0 /\ pc = "idle" /\ baseline /\ snap # NoPage =>
    /\ ~Healthy(snap) => \E e \in told : e.sev = "critical"
    /\ IsError(snap) => Critical("http_status") \in told

\* A page that fails is one alert, not several: when a healthy page is gone only
\* its status is alerted, and when it leaves the index the directives that did it
\* are not alerted besides.
OneAlertPerCause ==
  pc = "resolve" /\ old # NoPage /\ Healthy(old) =>
    /\ IsError(new) => alerted \subseteq {Critical("http_status")}
    /\ new.status = 200 /\ ~Indexable(new) =>
         alerted \subseteq {Critical("indexable"), Critical("canonical")}

\* The change history, replayed on the first snapshot, gives the last one.
LogTracksSnapshot == faults = 0 /\ pc = "idle" => logged = snap

\* An indexability incident does not outlive the recovery of the page.
IndexableResolves ==
  faults = 0 /\ pc = "idle" /\ snap # NoPage /\ Indexable(snap) => Critical("indexable") \notin incidents

\* What ProcessFetch says of a 304: there is nothing new to compare, so the page
\* the server still serves is the one in the last snapshot.  The validators kept
\* can be those of an older page, to which the site has gone back.
NotModifiedMeansSeen == pc = "notModified" /\ etag \in Pages => snap = etag
=============================================================================
