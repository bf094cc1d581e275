# rabbot: a TLA+ model of the monitor

rabbot is a single-process daemon that watches web sites for SEO regressions: it crawls the
pages of a site politely, compares each page with its last snapshot, applies rules, and turns
what it finds into alerts that are grouped, de-duplicated, throttled and resolved. This
directory holds its specification: modules translated from the Go source, the TLC
configurations that check them on small instances, and the TLAPS proofs of the theorems that
hold for every value of the constants.

Paths below are relative to `src/internal/` unless they say otherwise. `PROJECT.json` has the
exact source lines of every definition (`map`), the hazards at their lines, the runs, the mutants
and the theorems.

## 1. The system

### 1.1 How the parts interact

```
                scheduler.Tick (due URLs, a batch at a time)
                        |  up to N workers
                        v
   Crawler.CrawlOne --> Robots cache --> Frontier --> Fetcher
        |                                 (pause, host slots, rate limiter)
        |  snapshot, schedule row, HTTP validators
        v
   Processor.ProcessFetch: access gate -> diff -> changes -> rules (issues) -> emit -> resolve
        |                                                     |                |
        |  discovered links, link graph                       v                v
        v                                            alerts.Pipeline.Ingest / Resolve
   Discovery, Grapher                                          |
                                                     hourly throttle -- full --> digest buffer
                                                               |                      |
                                                               v                      v
                                                           Dispatcher (Slack, e-mail, webhook)

   side timers (gocron): incident auto-close, digest flush, robots.txt and sitemap watch,
                         link-graph sweep, Search Console pull, retention, re-verification
   control socket:       pause/resume, recheck, ignore issue, add site, set config, reload, reads
```

Everything is one process over one SQLite database. Writes go through a single connection,
so a write transaction is atomic and isolated; two successive transactions of one operation
are not, and most of the hazards below live in that gap. Goroutines share memory through
mutexes (pipeline, frontier, throttle, digest buffer) and channels (host slots, `rerate`).

### 1.2 The components

For each part: its state, its operations, what makes it hard, what makes it correct.

**Incident pipeline** (`alerts/pipeline.go`, `alerts/timers.go`, `store/incidents.go`,
`store/alert_members.go`). State: the `alerts` and `alert_members` tables and a mutex per
fingerprint. Operations: `Ingest` (read the open incident, add the page, accrue or open, notify
unless inside the dedup window), `Resolve` (remove the page, close if it was the last),
`AutoCloseStale` (list, then close by id). Hard: each operation is three to five transactions;
the mutex covers them but the sweep does not take it; `now` is read before the mutex; the stamp is
written before the dispatch. Correct: one open incident per identity, spacing of notifications,
closing only on the last recovery, nothing stranded open.

**Page monitor** (`scheduler/crawl.go`, `scheduler/process.go`, `scheduler/rules_bridge.go`,
`alerts/access.go`, `diff/`, `rules/default_rules.go`). State: the snapshot, the change log, the
issues, incident membership and the validators of each URL. Operations: fetch, 304, failed or
blocked fetch, save, gate, record, apply rules, emit, resolve, update the schedule. Hard:
one defect shows in several fields and rules, over one crawl or two, and must be told once and
never not at all; the steps are separate transactions; recovery is inferred from two snapshots.
Correct: no silent regression, one alert per cause, the log replays to the snapshot.

**Issue engine** (`rules/engine.go`, `store/issues.go`, `supervisor/wiring.go`). State: a row per
rule and page, open, closed or ignored. Operations: `Engine.Apply` (list, then upsert or close
rule by rule) between the two lists of `ApplyRules`; `IgnoreIssue` by the operator at any moment.
Hard: decisions on a stale list; an abort half way, which loses what was found. Correct: a finding is gone
through once per episode, alerted or passed over; open issues are failing rules.

**Alert delivery** (`alerts/throttle.go`, `supervisor/wiring.go`, `notify/`). State: the sends of the
last hour by recipient, the digest buffer with its count of drops. Operations: ask the throttle,
send, add to the digest, flush it. Hard: a sliding window at its limit, two flushes at once (the
job has no singleton mode), overflow while a flush pops. Correct: the cap over every hour and no
stricter, newest alerts kept, losses counted.

**Frontier** (`frontier/frontier.go`, `cli/throttle.go`). State by host: slots, base interval,
Crawl-delay floor, adaptive factor, limiter. Operations: `Acquire`, `Report`, `Release`,
`SetMinInterval`, `SetHostRate`, `SetPaused`. Hard: the limiter is replaced under its waiters; its
reservations outlive a change of rate. Correct: spacing, everyone granted, shutdown not held up.

**Robots cache** (`frontier/robots.go`). State: an entry per host with its age, and a call in
flight. One leader fetches and the others wait; a 5xx disallows the host for the negative TTL, a
4xx or a transport error allows it. Hard: a leader that is cancelled, fails or panics
decides for all; a disallowed URL is put off to its maximum interval (`crawl.go:105`).

**Scheduler and recheck** (`scheduler/scheduler.go`, `store/repo_m1.go`,
`store/repo_daemon_m1.go`, `scheduler/importance.go`). State: `next_check_at`, importance, the
adaptive interval and the failure count of each URL. `Tick` pops due URLs by importance, crawls
them and waits for the whole batch; a recheck makes a URL due. Hard: starvation by important
pages, a URL that panics stays due, a recheck that the crawl in flight overwrites. Correct: every
URL is crawled again and again, a recheck asked for before a crawl of the URL begins leads to one, and a URL
that is told to wait waits.

**Side timers** (`scheduler/sidetimers.go`, `scheduler/sidetimers_sitemap.go`, `coverage/`). State:
the last robots.txt and sitemap bodies, sitemap membership and coverage. Operations: walk the sitemap
documents, admit their pages, set the membership, compare with the baseline, alert. Hard: documents that
fail or are cut in the middle of a walk; a walk that the page cap of the site stops, which counts as complete.
Correct: an incomplete pass takes nothing out and sets no baseline; what is listed all along is kept and not
reported as gone, as long as it fits under the cap.

**Search Console** (`scheduler/gscpuller.go`, `gsc/`, `cli/gscregister.go`). State: inspection
results and a daily budget. Operations: rank the candidates, inspect them until the quota, compare
with the crawl, raise or retract a discrepancy. Hard: pages are crawled and reindexed during a job; the
pages after the budget. Correct: a discrepancy that is alerted was real at some time since the crawl it quotes.

**Discovery** (`discovery/discovery.go`). Counts the URLs of a site and admits new ones up to a cap,
under a per-site lock. Correct: the cap, however many discoveries run together.

**Link graph** (`linkgraph/grapher.go`, `linkgraph/export.go`, `store/linkgraph.go`). State: edges, click depths, three kinds of issue.
Operations: replace the edges of a page and look at its targets; sweep the whole graph. Hard: crawls
change the graph between the steps of both. Correct: a sweep that nothing overlaps settles the orphans.

**Retention** (`store/retention.go`). Prunes bodies, snapshots and file versions beside the crawls that write
them. Correct: nothing is taken that the log, a crawl in flight or the next comparison needs.

**Segments** (`segments/segments.go`, `store/segments.go`, `cli/segments.go`, `cli/reconcile.go`). State: definitions in the configuration and in the table, the
registry of matchers, membership of pages. Correct: after a reconcile, each page is in the segments
that match it.

**Health scores** (`store/health.go`). Pages and issues of a scope are read by two statements, then a
score is inserted. Correct: the score is one of a scope that has something to lose, and in range.

**Verification** (`verify/`, `cli/reverify.go`, `cli/reconcile.go`). State: a proof record per site, and what
the daemon made of it: rows, rates of hosts, trusted hosts. A timer re-checks proofs, demotes, and slows
down; a reload reconciles. Hard: reads that fail on the way are passed over without an error. Correct: no unverified site at full speed
while the list of sites can be read; a reload settles all but what it could not read.

**Configuration** (`config/mutate.go`, `fsatomic/write.go`, `cli/run.go`). Hooks and commands edit one file:
temporary file, sync, rename, reload. Correct: an edit that was answered stays.

**Daemon** (`cli/run.go`, `supervisor/`, `control/server.go`). Start, failed binds, requests, the order of
the teardown and the two waits of it that time out. **Store transactions** (`store/store.go`, `store/sqlite.go`): `WriteTx` on one connection, whose `BEGIN` outlives a
cancelled caller unless it is rolled back. Correct: nothing uses the store after its checkpoint
but what the teardown gave up waiting for; the writer is never wedged.

**Front ends** (`mcp/`, `control/`, `cli/read_hooks.go` and the commands). A tool asks through a bridge, the control
client and an endpoint, whose hook reads the store or changes something; a command does the same or opens
the store itself. State: none of their own, but each layer has a sign of its own for "there is no such thing":
a sentinel error, a 404, a flag in a 200, a field. Hard: the statements of a hook are not one transaction; a
failure must not come out as an absence, nor an absence as a value. Correct: what one is told has its reason in
what happened to the call. The wizard's screens change the configuration file. **Fetcher**,
**extraction**, **notifier formats**, **URL normalisation**: I/O and text processing.
**Observability**: counters no decision depends on.

`PROJECT.json` lists each of these with its sources and its status.

## 2. The modules

Each module of the first table models a part from its source; its header says what it leaves out and
names its bounds.

| Module | Models | Lines |
|---|---|---|
| `IncidentBoard` | what the pipeline promises: a board of open incidents and their broken pages | 60 |
| `IncidentPipeline` | Ingest, Resolve and auto-close, one transaction after another; implements `IncidentBoard` | 446 |
| `PageMonitor` | one URL: CrawlOne and ProcessFetch, with access gate, diff, rules, folding, recovery | 399 |
| `IssueEngine` | Engine.Apply inside ApplyRules, with the operator | 227 |
| `Delivery` | hourly throttle, digest buffer, overlapping flushes | 274 |
| `Frontier` | the gate of one host: pause, slots, limiter, rates, adaptive throttle, shutdown | 344 |
| `RobotsCache` | the robots.txt of one origin: single flight, lifetimes, verdicts | 214 |
| `Schedule` | Tick, batches by importance, intervals, back-off, Retry-After, recheck, panics | 349 |
| `Discovery` | EnqueueLinks and the admission of sitemap entries, under the page cap | 173 |
| `SitemapWatch` | the walk of the sitemap documents, membership, baseline, alerts | 427 |
| `LinkGraph` | SyncPage and the sweep: edges, click depths, orphans, lost inlinks | 335 |
| `Retention` | the sweep of snapshots and files beside the crawls that write them | 206 |
| `Segments` | configuration, tables and registry of the segments of a site | 213 |
| `Health` | health scores: two reads, one insert, overlapping recomputes | 182 |
| `Ownership` | proofs of ownership, reload, re-verification, and the rates of hosts | 447 |
| `SearchConsole` | the daily job: budget, inspections, comparison with the crawl, incidents | 353 |
| `ConfigFile` | the writers of config.yaml, the atomic write, power losses | 379 |
| `Lifecycle` | start, failed binds, control requests, teardown | 308 |
| `StoreTx` | WriteTx on the one writer connection | 135 |
| `ReadSurface` | the tools of the MCP server and the commands of the CLI: handlers, bridge, client, endpoints, hooks | 510 |

The `MC` modules make instances of them for TLC. A suite puts several parts into one specification: its
variable `focus` says which part a behaviour is about and the others stay in their initial
states, so that the state spaces add up instead of multiplying. The parts of a suite do not interact; where
two parts do interact, one of them is inside the model of the other (the atomic Ingest of
`PageMonitor`, the admission of `SitemapWatch`).

| Module | Instance of | Run |
|---|---|---|
| `MCIncidentPipeline` | IncidentPipeline, with the history variable `faulted` | `pipeline_faults` |
| `MCPage` | PageMonitor, Frontier | `page` |
| `MCLiveness` | IncidentPipeline, Frontier, with fairness | `liveness` |
| `MCCrawlLoop` | Schedule, Discovery, RobotsCache | `crawl_loop` |
| `MCSiteWatch` | SitemapWatch, LinkGraph, IssueEngine, Retention, Segments, Health | `site_watch` |
| `MCDaemon` | SearchConsole, Ownership, ConfigFile, Lifecycle, StoreTx, Delivery, ReadSurface | `daemon` |

The `Proofs` modules hold the theorems: `IncidentPipelineProofs`, `PageMonitorProofs` (page and
gate), `IssueEngineProofs`, `DeliveryProofs`, `CrawlLoopProofs`, `SiteWatchProofs`, `ConfigFileProofs`,
`DaemonProofs`.

**Conventions.** One action is one step between two points where another goroutine, or a crash, can get
in: a store call (one transaction), a mutex, a channel operation, a network call. History variables are
marked `history` where they are declared; no guard reads them except through the bounds. A definition
`X_Y` is `X` with the defect `Y`, a plausible bug of that code: put in the place of `X` it makes a
property fail, which shows that the property is about the code. Every property has one.

### 2.1 IncidentPipeline

`rows`, `nextId` and `members` are the two tables; `locks` is `Pipeline.locks`; `pc`, `op` and
`cur` are the program counter, the event with its `now`, and the copy of the row of each
goroutine. `Ingest` is `Begin`, `Acquire`, `ReadOpen`, then `AddMember`, `Accrue` or `Renotify` for
a row that exists, `OpenIncident`, `AddFirstMember` for one that does not, and `Dispatch`; `Resolve` is
`Begin`, `Acquire`, `ReadOpen`/`ReadNone`, `RemoveMember`, `CloseIncident`. `SweepRead` and
`SweepClose` are `AutoCloseStale`, which works on a list of ids and takes no mutex. `StoreError` is
the error return of any store call; `Crash` clears all but the tables. `UpdateIncident` writes the
whole row the worker has read, the status included, so it can reopen an incident the sweep has
just closed: the model does as the code does.

The refinement mapping (`CountsAsOpen`) says when an operation takes effect on the board: an Ingest when
its page is a member, a Resolve when it no longer is. A row just inserted is not on the board
until its first member is; a row emptied by a worker that is about to close it is off the board; a row
the sweep closes under an Ingest that has read it stays on it. With errors and crashes the board has
`Torn` steps; `ImplementsWholeBoard` says besides that until the first fault there is none.

### 2.2 PageMonitor and Frontier

A page is a record of status, robots directive and canonical link, what the status and
indexability rules look at. `etag` is the page the stored validators belong to, `snap` the last
snapshot, `logged` the replay of the `changes` rows. `FetchPage`, `FetchNotModified` and
`FetchFailed` are the outcomes of a fetch; `SaveSnapshot`, `Gate`, `RecordChanges`, `ApplyRules`,
`Emit`, `ResolveHealthy` and `UpdateSchedule` are the transactions that follow, with their early
returns. `Changes`, `Verdict`, `Folded`, `Streamed`, `Bridged` and `Recovered` are translated from
`diff.Compare`, `DefaultRuleSet`, the folding loop of `ProcessFetch` and `ruleFieldForBridge`. Fault
actions are the partial effects the code can leave: `GateHalfDone`, `PriorUnread`, `RulesError`.
Ingest and Resolve are atomic here, which the refinement of `IncidentBoard` justifies.

In `Frontier` time is relative, so no clock bounds the runs: tokens grow and waits shrink with the tick.
The limiter is `x/time/rate` with a burst of one, modelled from how the code uses it: a reservation
takes a token into debt, `SetLimit` keeps reservations, a cancelled one gives its token back only if it
was the last. Limiters are numbered: `applyEffectiveLimit` starts a new one when the base is lowered,
and the crawls parked on an old one `Retry`. The adaptive throttle doubles and halves here; the
code uses 1.5 and 0.9 up to 16.

### 2.3 IssueEngine and Delivery

`issues` is the table for one page. `ListBefore`, `ListExisting`, `ApplyRule` (once per rule, on the list
read before) and `ListAfter` are `ApplyRules`. `ProcessFetch` then goes through the new findings one by one:
`AlertFinding` alerts one and `PassOver` leaves it out, because of its tier, because the page is on its first
crawl, because the field was alerted already, or because it is folded into another (`process.go:429-463`; which of
them is decided in `PageMonitor`, and left open here). `IgnoreIssue` is the operator; `Abort` is an error or a
crash, after which what the crawl had opened and not gone through is `lost`. Which rules fail on a page is arbitrary.

`sends` is the throttle's map. `Admit`, `Refuse` and `Bypass` (critical alerts) are what
`maybeDispatch` does with an alert; `Add` is the digest buffer's `Add` with its overflow. A flush is
`FlushStart`, `TakeDropped`, then `FlushCheck`, `PopFront`, `FlushSend` for each alert, then
`FlushEnd`; several can run, and the daemon can `Stop` at any point.

### 2.4 The crawl loop: Schedule, Discovery, RobotsCache

`Schedule` keeps `next_check_at` relative to now. `SchedulerTick` pops the due rows of enabled sites by
importance; `Dispatch` and `CrawlEnds` are the worker pool; `TickDone` is the wait for the batch. What a
crawl writes at its end is computed from the row that was popped and overwrites what came in between, a recheck
included: `Crawled` by `RecomputeNextCheck`, `BackedOff` (a hard block, a 5xx, no answer) by `BackoffSchedule`, and
`SoftBlocked` (a 429 or a 503) by the later of that and Retry-After. All of this is about the one URL: the other
URLs of the host keep their schedules (`crawl.go:335`). A page in `Poison` panics: its
row stays due. `Discovery` is `EnqueueLinks` and `CollectAndSeed` with the lock of the site, one count
per call and one transaction per URL. In `RobotsCache` an asker shares the cached answer, leads the fetch or
waits for the leader; an answer is dated from the start of its fetch, which may take longer
(30 s, `cli/run.go:362`) than an error is kept (20 s): then the waiters fetch in turn.

### 2.5 The site watch: SitemapWatch, LinkGraph, Retention, Segments, Health

A pass of `SitemapWatch` is `Collect`, then `FetchDoc` or `SkipDoc` per document of the queue (with the
`visited` set, the level of nesting, the limit of fetches and the page budget), `EndWalk`, `AdmitPages`,
`ReconcileSitemapMembership`, `SitemapLiveCounts`, `SaveSnapshot` or `SkipSave`, and the ingests. Documents
change, break and come back between any two of these. The page budget of the site cuts three things: what is taken
of a document (`Fitting`, `Children`: any part of that size, since the order of the entries is not modelled), the
walk (`Spent`), and admission. None of them makes the pass incomplete, and its set becomes the baseline; the
history `trimmed` remembers it, and the two properties of the sitemap except the passes and baselines cut so.

`LinkGraph` replaces the edges of a page in one step and looks at each target that lost or gained a link in
steps of its own; the sweep reads the graph once, then depths, then opens and closes issues page by
page. `Retention` is three transactions or more with the cutoff of its start; sweeps overlap; a crawl
is read, save, record. `Segments` compiles, converges the definitions, reclassifies, publishes, in
four steps that interleave with other reconciles and with admissions.

`Health` reads the pages of a scope, then the open issues, then inserts. Sums of points are written as the
number of pairs of a page and a point (`PointsOf`, `Total`): the same number, and one that can be
reasoned about without induction over the pages.

### 2.6 The daemon: Ownership, SearchConsole, ConfigFile, Lifecycle, StoreTx

In `Ownership` a task of a goroutine walks the sites one by one (`sync`, `disable`, `apply`,
`refresh` of a reload; check, save, throttle of a re-verification), each write a step that can fail and
after which the daemon can crash. Reads fail in three ways, as in the code: a statement whose error ends the reload
(`ReconcileFails`); a record that counts as throttled when it cannot be read (`RecordUnread`: `reconcile.go:248`,
`throttle.go:55`, `run.go:1495`); a list of sites without which no rate is installed, or the trust stays as it was
(`SitesUnlisted`). The task goes on after the last two and reports success; its `missed` names what it did not read. `SearchConsole` is one job a day: candidates by importance within the
budget, `UpsertIndexStatus`, then the comparison with the last snapshot and the Ingest or Resolve of the
signal, with crawls, reindexing and expiry between. The answer of an inspection and its stamp,
which is taken right after it (`gscpuller.go:325`), are one step. `ConfigFile` keeps the file in memory's view and
the set of contents a power loss may leave (`onDisk`); hooks take `cfgWriteMu`, commands do
not. `Lifecycle` has the stages of `runDaemon` with its goroutines, listeners, timers and requests; of its two waits
with a time-out (five seconds for the requests, gocron's for its jobs) both outcomes are steps, whose errors
`runDaemon` ignores (`run.go:1256`, `run.go:1269`): what it gave up waiting for is `abandoned` and goes on.
`StoreTx` is one connection, a transaction flag and callers whose context may be cancelled before
each statement.

### 2.7 What somebody who asks is told: ReadSurface

A function of a layer is one definition with its name: a hook is its statements in their order, each with what
follows if the thing is there, if it is not, and if the statement fails (`StepOf`); an endpoint is what it refuses
and its sign of absence; a client function is the signs it recognises; a bridge function says whether it passes
an absence on. The owner of a page is looked up in two statements, the list of sites and the row of the page, and an
error of the second falls through to the base URLs (`cli/links.go:112`, `cli/read_hooks.go:541`). A handler may
replace a malformed input by a default (`drops`: `mcp/tools_read.go:198`, `400`, `421`): the call keeps its flaw and
is answered all the same. `Askers` are the 24 tools and the 24 commands put together from these (a tool that makes
different requests counts for each). A call names things
(a site, a page, an issue, a segment, an inspection) or leaves out what is optional, and has at most one malformed
input. `Ask` begins it, `RefuseInput`, `NotServed` and `GiveUp` (time-out, transport, no token) end it early,
`RunHook`, `HookGoesOn`, `HookSays`, `StatementFails` and `HookAnswers` are the hook, one statement at a time; around
it things appear, segments are dropped, the site is purged, and the daemon goes, comes back, comes back without
its link graph or as another with another token. `had` and `lacked` are the history of the call: which
of the things it names have been there, and which have been missing, at some moment of it. What the answers
contain, and the follow-up of `summarize_changes` (the searches around each change, where any failure is passed
over), are left out.

## 3. The runs

| Run | Checks | Distinct states |
|---|---|---|
| `pipeline_faults` | TypeOK, OneOpenPerFingerprint, DedupSpacing, ResolveClosesEmpty, ImplementsWholeBoard | 408 k |
| `page` | SuiteTypeOK, NoSilentRegression, LogTracksSnapshot, IndexableResolves, OneAlertPerCause, SteadySpacing | 2.9 M |
| `liveness` | OperationsReturn, NoneStranded, AllGranted, ShutdownDrains | 22 k |
| `crawl_loop` | SuiteTypeOK, PageCap, RequestsHonoured, NoStarvation, VerdictIsFresh, AskersServed | 44 k |
| `site_watch` | SuiteTypeOK, SweepSettlesOrphans, OncePerEpisode, Reconciled, SegmentsSettle, ScoreInRange, KeptWhileListed, NoPhantomChange, RetentionLosesNothing | 1.4 M |
| `daemon` | SuiteTypeOK, DemotedIsSlow, AnsweredEditsStay, DiscrepancyWasReal, ReloadSettles, TeardownInOrder, WriterNeverWedged, HourlyCapExact, DigestAccounted, HonestAnswer | 1.4 M |
| `page_notmodified`, `frontier_floor`, `issue_ignored`, `sitemap_partial`, `throttled_fast`, `config_bricked` | one property each, violated: section 3.3 | |

What they show:

- **pipeline_faults.** Two workers, one page-level and one site-level identity, two pages, three
  operations, the sweep, store errors and a crash at any step. Two workers are enough for the races
  the mutex excludes, since a third only waits; three operations are an opening, an accrual
  and a recovery in any order and overlap, with the sweep under any of them.
- **page.** Every sequence of eight pages (each status, directive and canonical next to the
  others, two of them without a body that can be parsed), 304s, blocks and failed fetches, with one failing
  store call or crash anywhere. Without a fault the state is finite without a bound on the number of crawls,
  so that every sequence is covered. One fault, because its trace is what matters: a state of
  the tables that no run of whole crawls leaves. `OneAlertPerCause` must hold with it; the other three
  say what they say of crawls without one, since an alert lost between snapshot and emit is what the code
  does (`scheduler/process.go:320`). And the gate: two crawls, two base rates, a Crawl-delay, the
  adaptive throttle, pauses and shutdown at any moment, and two limiters, so that crawls are parked on one that has been
  replaced, with and without a Crawl-delay and at either throttle.
- **liveness.** With fairness and faults: every operation returns; once events stop
  (`MaxOps`) every incident that is stale is closed; a crawl that asks for its host gets it unless crawling
  is paused for good; a stopping daemon is not held by a crawl that waits. Not reduced by symmetry. One slot,
  so that crawls meet at the slot as well as at the limiter.
- **crawl_loop.** Three URLs of two sites, one that panics, a batch of two; a discovery by two crawls and
  the sitemap of five pages in scope under a cap of three; two askers of a robots.txt that changes
  twice, with fetches that outlast the lifetime of an error. Retry-After is longer than any interval, so that only
  `SoftBlocked` can keep to it.
- **site_watch.** A sitemap index that lists itself and two sets, with three locs and a page budget of two, so that
  a pass may fit or be cut in a document or in the queue; three pages with
  changing links, two crawls and the sweep; two rules and the operator; one page under two
  overlapping sweeps; two pages in two segments under two reconciles; two pages and two rules scored by two
  recomputes.
- **daemon.** Two pages with a budget of one inspection and a day that passes; one site with one proof,
  a reload, a re-verification, a check and one failed write, failed read or crash; two hooks and a command on one file, with
  a power loss and a failure; the whole teardown with every subset of listeners, two requests, and waits that time out or not; three
  writes of two callers; a cap of one alert per hour, a buffer of two and four alerts for two workers and two
  flushes; every tool and command with every malformed input, from any store, with two changes of the
  store or the daemon and one failure. Two changes are a thing that goes and comes back, or another daemon and
  a thing that goes; a second failure would find the call over, or excused already. `HonestAnswer` has three exceptions,
  which are those of the code: for `get_index_status`, `gsc status` and `links` a failed read of the owner is an
  absence; for the searches of a page that nobody owns there is an empty answer instead of "not found"; and a
  malformed input that a handler replaces by a default has the answer of the default. Everybody else may answer only
  an input that nothing was wrong with.

`CHECK_DEADLOCK FALSE` is set because the bounds stop the runs (clocks, counts of operations) and because a
stopped daemon has no step left.

### 3.1 Bounds

Bounds are constants named `Max...` and each module's header lists its own; they count clock ticks,
events from outside, faults, or ids. The settings of the program (windows, caps, intervals, budgets) are
scaled down. State constraints: `FewWhenFaulty` (after a fault the site keeps to four pages),
`FewTogether` (at most four
syncs, sweeps and mishaps of the link graph; at most two changes and troubles of the sitemap, and one page of it
crawled), `OneThing`
(the parts of retention that do not interact are not varied together), `FewMoves` (at most three of
the moves from outside in `Ownership`, one crawl after an error of Search Console, and nothing after what
excuses the loss of an edit, where `AnsweredEditsStay` promises nothing), `FewAtOnce` (flushes of the digest overlap
while the clock of the throttle, which they do not look at, stands still; a call with a malformed input meets one
change or failure). All but the last of `FewMoves` cut
combinations, not single events. Crawls of a host, and workers and pages of the pipeline, are interchangeable
(`SYMMETRY`) in `page` and `pipeline_faults`, which check no liveness. The theorems of section 4 need none
of them.

### 3.2 Fairness

Fairness is stated in the suites that check liveness, and of a part only when the behaviour is about it.

- IncidentPipeline (`PipelineFairness`): a goroutine that has begun keeps running (WF of its
  steps); a Go mutex does not starve a waiter (SF of `Acquire`; its starvation mode hands over after
  1 ms); gocron starts the sweep for ever (WF of `SweepRead`) and a store that can fail does not fail
  always (SF of `SweepClose`); time passes. Nothing is assumed of events, errors or crashes.
- Frontier (`GateFairness`): time passes; goroutines run; the poll of the pause flag sees it clear if it is
  clear again and again (SF of `Enter`); a channel serves senders in order (SF of `TakeSlot`).
- Schedule (`ScheduleFairness`): the loop, the workers and the clock go on; ticks do not fail for ever.
- Discovery: a goroutine that has begun keeps running.
- RobotsCache: the same, time passes, and a crawl that wakes again and again to look at the cache is at some time
  the first at the mutex (SF of `Lead`). Without it, when every fetch outlasts the lifetime of its
  error, others could fetch before it for ever: TLC shows that behaviour. Nothing in the code rules it out but
  chance.

### 3.3 Where the code departs from what it says

Six runs refute one sentence of a doc or comment each; `PROJECT.json` quotes it.

- **A 304 for an older page** (`page_notmodified`, `scheduler/crawl.go:245`). The stored ETag is replaced
  only by a response that has one. Page A with an ETag, then page B without, then A again: the
  conditional GET names A, the 304 is taken for "no new content" while the snapshot is B, and B's
  issues and incidents stay until A changes.
- **Crawl-delay and a fresh limiter** (`frontier_floor`, `frontier/frontier.go:201`). Lowering the base
  rate installs a limiter with a token in it, so the next request may follow the last at once, inside
  the advertised Crawl-delay. `SteadySpacing` is what does hold: at a rate that does not change, requests
  are an interval apart.
- **Ignored issues that pass** (`issue_ignored`, `store/issues.go:69`). `Engine.Apply` means to close an issue
  from open and from ignored; `CloseIssue` updates open rows only. The silence outlives the defect.
- **An outage of robots.txt empties the sitemap** (`sitemap_partial`, `discovery/discovery.go:225`). A document
  that robots.txt disallows is passed over without marking the pass incomplete, and a robots.txt that
  answers with a server error disallows everything. `KeptWhileListed` is what holds otherwise.
- **A check that demotes does not slow down** (`throttled_fast`, `verify/orchestrate.go:100`). The demotion is
  saved, the rate of the host and the trust in it stay until a reload or a restart: the hourly re-verification
  passes over sites that are not verified. `DemotedIsSlow` is what holds otherwise.
- **A refused value stays in the file** (`config_bricked`, `cli/run.go:1098`). `set_config` writes before it
  loads: a flag that is not a boolean is refused, stays in config.yaml, and the next start fails.

Found while modelling, and stated as no violation:

- The auto-close sweep closes by id from a list, so it can close an incident that has just become fresh
  (`alerts/timers.go:29`).
- An `http_status` incident of a page that recovers through a 301 stays open until the sweep
  (`scheduler/process.go:522`); the first crawl of a page that is already broken alerts, through the bridged
  rule (`process.go:433`).
- The notification stamp precedes the dispatch and the pop precedes the digest send, so a crash or a
  failed send in between loses that alert (`alerts/pipeline.go:211`, `supervisor/wiring.go:296`).
- `store/health.go` says that a page with issues and no cap "cannot happen: same scope": it can, since pages and
  issues are read by two statements; its issues count for nothing, which is why `ScoreInRange` holds. A
  score may mix two moments, and when a site goes from A to B and back, an overlapping recompute can store
  the older score last.
- `store/report.go:688` compares sums over windows of unequal length.
- `siteIDForURL` takes any error of its read for an absent row (`cli/links.go:112`), and `cli/read_hooks.go:541` any
  error of `siteIDForURL` for a page nobody owns: after a failed read, `links` and the reads of Search Console
  can say that no site owns a page that one does (`FailureIsAbsence`, an exception of `HonestAnswer`).
- A walk of the sitemap that the page cap stops counts as complete (`discovery/discovery.go:214`): it clears the
  flags of the pages it did not get to, becomes the baseline, and the next pass that gets further alerts on the
  difference. An exception of `KeptWhileListed` and `NoPhantomChange`.
- A reload whose reads of the list of sites fail installs no rates, or keeps the old trust, and reports success
  (`cli/throttle.go:55`, `cli/run.go:1495`): a host demoted before keeps its full speed until the next reload. An
  exception of `DemotedIsSlow`, and the `missed` of `ReloadSettles`.
- A request or a timer job that outlives the time-out of its wait uses the store after its checkpoint, even after
  it is closed (`cli/run.go:1256`, `1269`). An exception of `TeardownInOrder`.
- A crawl that is cut short between opening an issue and its alerts loses them for as long as the issue stays open
  (`supervisor/wiring.go:369`); the `lost` of `OncePerEpisode`.
- A recheck asked for while a crawl of the URL is under way is overwritten by the schedule that crawl writes
  (`store/repo_daemon_m1.go:29`).
- The descriptions of `blast_radius` and `what_links_to` (`mcp/tools_read.go`) say that a page without inbound links is
  reported not found; `linksHook` says so only of a page without a row, and answers zero links otherwise.
- The daemon's client for robots.txt waits 30 s (`cli/run.go:362`), longer than the 20 s an error is kept
  (`frontier/robots.go:40`): the error of a slow server has expired when it is stored, so it is shared with
  nobody and each crawl of the host waits for a fetch of its own.
- A restart runs the Search Console job again and spends its daily budget again (`cli/gscregister.go`); the
  pages after the budget are never inspected, because candidates are ordered by importance alone.
- Adding a notifier and its route are two writes of config.yaml, and `cli/init.go` writes the first file
  without the atomic write.

## 4. The proofs

Checked by TLAPS with SMT, Zenon and LS4. Every theorem holds for all values of the constants that
satisfy the assumption its module names (`PipelineAssumption`, `FrontierAssumption`, ...), which TLC
evaluates in every run; none is about the bounds of a run. Most assumptions say that a bound is a
natural number and that a value standing for "none" is not one of the things. Those that say more:

| Assumption | Says besides | Because |
|---|---|---|
| `MonitorAssumption` | pages are records of the three fields; the marks for "no page" and "blocked" are none | `extract` returns them so |
| `TokenAssumption` | a token is a whole number of slow ticks | choice of the unit of time |
| `FrontierAssumption` | rates positive, at least one slot, a slowest rate and a longest Crawl-delay | a host has finitely many settings |
| `RetentionAssumption` | the clock is set back by less than the age of a snapshot in all | ages are compared on the wall clock |
| `RobotsAssumption` | neither a fetch nor the lifetime of an error is longer than that of rules | 30 s, 20 s, 5 min (`cli/run.go:362`, `frontier/robots.go:40`) |
| `SearchConsoleAssumption` | finitely many pages, no two of the same rank | the order is total: importance, then address |
| `ScheduleAssumption` | the least interval is not above the greatest | the defaults and `RecomputeNextCheck` |
| `SitemapAssumption` | finitely many locations; nothing of the tree of documents, which may have cycles | a document is finite |
| `HealthAssumption` | finitely many pages and rules, points that are natural numbers | `capPoints` and the points of rules round and clamp |

None of the invariants that matter is inductive as it stands. What makes each one so:

**IncidentPipelineProofs** (`TypeCorrect`, `OneOpenCorrect`, `SpacingCorrect`, `ResolveCorrect`,
`BoardImplemented`). `SafeInv` says that a worker past `lock` holds the mutex of its identity and its copy is
of an open row of that identity (`WorkerInv`), that the rows are those inserted so far (`RowsInv`), and, the
heart of it, that what a worker has read stays true until it writes, up to a close by the sweep
(`ReadInv`): a worker about to open has an identity with no open row, and a worker with a row is the only one
that can have it open. For the spacing, `NotifyInv` relates the last dispatch, the row's stamp and the copy
of it: a worker about to dispatch has waited for the window, even if it read its clock before it
waited for the mutex. For the recovery, `CloseInv`: a worker about to close has seen the last member go
and nobody has added one since. The refinement needs `BoardInv`, which adds what a worker on a new row or
an emptied one may still do to it (`FreshInv`, `EventInv`). The initial states map to initial states; each step maps
to a board step of its own identity or changes nothing that is counted (`BoardStep`), and no step of
one identity is seen on another's row (`ElsewhereKept`). `ImplementsWholeBoard` asks besides that a `Torn`
step follows a fault; the history variable `faulted` carries that.

**PageMonitorProofs**, the page (`PageTypeCorrect`, `NoSilentRegressionCorrect`, `LogTracksSnapshotCorrect`,
`IndexableResolvesCorrect`, `OneAlertPerCauseCorrect`). `PageInv` says at each stage of a crawl what is still owed:
which events the crawl under way will emit (`Underway`), that the log replays to the snapshot or will
with the changes in hand (`Replayed`), that a broken page is accounted for by an alert or by an event to come
(`Accounted`), and that an open indexability incident belongs to a page out of the index (`Unflipped`, while
nothing failed). The lemmas on `Changes`, `Folded`, `Streamed` and `Bridged` say what the translated
functions return for two arbitrary pages; `EventsPerCause` is that folding leaves one event per cause.

The gate (`SteadySpacingCorrect`). `FrontierInv` has `Spaced`: while the rate is steady, the tokens of the limiter
are at most what the ticks since the last request have added, and each parked crawl waits for the debt
in front of it. Arithmetic on products is in four lemmas (`Multiply` to `Quotient`), which let SMT do
the rest without nonlinear terms.

What the limiter owes (`SuiteTypeCorrect`): that its debt stays within what its slots can ask for has to hold
although a crawl that is abandoned may leave its place in the debt and its slot is given to another. The
invariant is therefore about the future (`Solvent`): for every `l`, the debt, with one token for each
slot whose crawl does not wait longer than `l` ticks, is at most the bound and what `l` ticks earn at the slowest
rate (`Foreseen`). Only cardinalities occur in it, no sum over the crawls, so no induction over data is needed.
Looking for the counterexample with TLC showed that the guard of `Reserve` was too weak: `x/time/rate`
looks at the context before it reserves, so no crawl reserves after the stop. `TokenAssumption` makes
the unit of time fine enough that a token is a whole number of ticks' earnings.

**IssueEngineProofs.** `OncePerEpisodeCorrect` by `ToldInv` (an issue told or passed over before that the first list
does not have is ignored, and Apply's own list sees that, unless it is past the rule; an open issue that is neither
is among the findings of the crawl at work, or `lost`), `ReconciledCorrect` by
`ReconcileInv` (ahead of the loop nothing has opened since the list; behind it the claim holds).

**DeliveryProofs.** `HourlyCapCorrect` by `CapInv` (the throttle's map holds exactly the sends of the last
hour), `DigestAccountedCorrect` by `BufferInv` (the buffer is the tail of all that was ever added, place
by place, and what is not in it was taken or counted as lost).

**CrawlLoopProofs.** `PageCapCorrect` by `DiscInv`: under the lock of the site, what a call counted and what it has
added since make the inventory. `VerdictIsFreshCorrect` by `RobInv`: at most one leader, and every
answer kept or about to be kept is one the site gave since its fetch began (`RobCurrent`).
`RequestsHonouredCorrect` by `SchedInv` (`SchedKept`: a recheck that no crawl has begun since is due, whether its
row waits in the batch or not; a URL that is held off has its next check no sooner than that). An error may have expired when it is stored, so that the verdict of the
leader is as old as its fetch at most, and that of the others as the lifetime. `SuiteTypeCorrect` puts the type
invariants of the parts together.

**SiteWatchProofs.** `SweepSettlesOrphansCorrect`: `Settling` says, of a sweep nothing has stirred, that what it
has still to do and what is done make the graph it read. `SegmentsSettleCorrect`: `SegInv` follows a
reconcile that is alone (`LoneOK`) and keeps what was published true of later admissions (`PublishedOK`);
pages admitted during the reconcile are the exception the code leaves (`late`).
`RetentionLosesNothingCorrect`: ids and times of rows of one page agree (`RowsApart`), a running sweep's cutoff is
behind every crawl that began after it (`CutoffsBehind`), and what a crawl has read or needs is among the
rows kept (`RowsKept`). `KeptWhileListedCorrect` and `NoPhantomChangeCorrect`: `WalkGoesOn` gives each document
in reach the level at which it is found and says that the queue, the visited set and the documents read
cover every level so far, so that a walk that ends complete, and that the page budget has not trimmed, has read all
(`ReadAll`); `Remembered` carries that over to the baseline.
`ScoreInRangeCorrect`: the points lost are a subset of all points (`LostAmongAll`), and an insert
follows a reading of a scope that has points.

**DaemonProofs, ConfigFileProofs.** `WriterNeverWedgedCorrect` by `TxInv` (the connection's flag is the
caller's program counter). `TeardownInOrderCorrect` by `LifeInv` (what has been told to end, at each stage of the
teardown, and that only what a wait gave up on is left behind). `DemotedIsSlowCorrect` by `OwnInv` (`Untangled`: a site that is not verified and not yet slow is in the
list of the job at work, whose reads may fail, since a record that is not read makes a host slow). `ReloadSettlesCorrect` by `ReloadInv`, which says of a reload that is alone what each of
its steps has done (`ReloadDone`), for every set of reads that have failed on its way so far (`missed`). `DiscrepancyWasRealCorrect` by `GscInv` (`GscSafe`: what the job has
in hand of a page was true since the crawl it quotes). `AnsweredEditsStayCorrect` by `ConfInv` (`ConfSafe`: file,
temporary file and the contents a power loss may leave all hold the edits answered, unless what
excuses a loss has happened). `HonestAnswerCorrect` by `ReadInv`: what a hook has looked for and found has been there,
what it has written is written (`StepsDone`), and the history of an open call is true (`Followed`). It speaks of
the steps of the hook that is asked, whichever that is, so what it needs of them is stated once (`AskerOK`: a step
ends in an absence only when the thing is missing, or fails as an error, and whoever says "not found" reads the
sign of its endpoint) and proved of all 48 askers: their steps are sequences over a few kinds
(`Finding`, `Acting`), and concatenation keeps to them (`Concatenated`, `Looks`, `Changes`); the reads that look for an owner (`OwnerFirst`,
`OwnerSecond`, `CliOwners`) and the adding of a site are lemmas of their own. `SuiteTypeCorrect` as above.

### 4.1 What is only model-checked

- Liveness: `OperationsReturn`, `NoneStranded`, `AllGranted`, `ShutdownDrains`, `NoStarvation`, `AskersServed`.
  TLAPS proves nothing about ENABLED, so no fairness can be used in a proof.
- The six refuted statements, for which TLC has the counterexample.

## 5. What is not modelled

- Hosts in the frontier and URLs in the page monitor are one: the code keeps them apart (state by
  host, rows by `url_id`). Incidents, which pages share, are modelled with several.
- Rules and diff fields about titles, content, links and structured data: they pass through the
  same steps as those that are modelled.
- Wall-clock jumps, except in `Retention`; SQLite's own crash recovery; migrations, which run once at open.
- HTTP, DNS, SMTP, HTML parsing, message layout, the terminal screens: I/O and text. The fetcher with its SSRF
  guard, extraction, URL normalisation and calibration are functions of their input; their classes of results are
  inputs of the models.
- The authorisation of Search Console: exchanges with a provider.
- The contents of answers: the sums of a report, the bounds of the graph export, tables and JSON. `ReadSurface` has the
  statements that lead to them.
- Observability: no decision depends on it. The set-up and the wizard: what they change is the
  configuration file and the requests, which `ConfigFile` and `Lifecycle` have.

Some hazards have no property, because the code lets them happen. The models have the steps that lead there, as the
code has them, and the properties next to them say where their own claim ends; a property that excluded
them would be false:

- the sweep closes an incident that has just become fresh (`alerts/timers.go:29`): `ImplementsWholeBoard` shows only
  that it closes an open one, and closes it whole;
- a send is lost after its stamp (`alerts/pipeline.go:211`): `DedupSpacing` is about sending twice, not about sending
  at all;
- a crash between snapshot and alert loses the change (`scheduler/crawl.go:175`): `NoSilentRegression` and
  `LogTracksSnapshot` are about crawls without a fault;
- an aborted `ApplyRules` loses its findings (`supervisor/wiring.go:369`), a recheck is overwritten by the crawl under
  way (`store/repo_daemon_m1.go:29`), the older of two overlapping reloads may win (`cli/run.go:587`);
- the pages after the daily inspection budget are never inspected (`cli/gscregister.go:105`): the ranking is by
  design.

## 6. What is left

1. `SearchShift` and the bounded graph export, as operators against reference definitions.
2. Set-up: the first configuration file beside a daemon that starts.
3. The page monitor composed with the board for several pages, in place of its own incident set.

## 7. Running it

```
tlc -workers 2 -config Page.cfg MCPage.tla
tlapm SiteWatchProofs.tla
```

`PROJECT.json` names the module and configuration of every run. `SiteWatchProofs`, `DaemonProofs` and
`PageMonitorProofs` take some minutes each from nothing.
