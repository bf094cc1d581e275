------------------------------ MODULE Schedule ------------------------------
(***************************************************************************)
(* When a URL is crawled: Scheduler.Tick and Run                           *)
(* (internal/scheduler/scheduler.go), the schedule that Crawler.CrawlOne   *)
(* writes back (crawl.go, importance.go), the queries over urls they use   *)
(* and the recheck an operator asks for (internal/store).                  *)
(*                                                                         *)
(* A tick pops the due URLs of enabled sites, the most important first and *)
(* a batch at most, crawls them in parallel and waits for all of them.     *)
(* The row a crawl was given is the one of the pop: what it writes at the  *)
(* end overwrites whatever was written to the row in between.              *)
(*                                                                         *)
(* Time counts ticks of the scheduler, relative to now: nextCheck[u] is    *)
(* how far away next_check_at is, and a URL is due when it is not positive *)
(* (MaxLate bounds how late is told apart).  A batch is over before the    *)
(* next tick.  Bounds: MaxAsks (rechecks and restarts), MaxErrors (store   *)
(* calls that fail), RetryAfters (what a soft block can ask for).          *)
(*                                                                         *)
(* A definition named X_Y is X with the defect Y: the checks put it in the *)
(* place of X to show that a property can fail.                            *)
(***************************************************************************)
EXTENDS Integers, FiniteSets

CONSTANTS
  Urls,         \* the URL inventory
  Sites,        \* the sites under watch
  SiteOf,       \* the site of each URL
  Depth,        \* the depth each URL was found at; 0 is the homepage
  Poison,       \* URLs whose processing panics
  MinInterval, MaxInterval,
  Batch,        \* Scheduler.Batch, 50 unless configured
  MaxParallel,  \* Scheduler.MaxParallel, 8 unless configured
  RetryAfters, MaxLate, MaxAsks, MaxErrors

ASSUME ScheduleAssumption ==
  /\ SiteOf \in [Urls -> Sites]
  /\ Depth \in [Urls -> Nat]
  /\ Poison \subseteq Urls
  /\ {MinInterval, MaxInterval, Batch, MaxParallel} \subseteq Nat \ {0}
  /\ MinInterval <= MaxInterval
  /\ RetryAfters \subseteq Nat
  /\ {MaxLate, MaxAsks, MaxErrors} \subseteq Nat

VARIABLES
  nextCheck,  \* urls.next_check_at, in ticks from now
  interval,   \* urls.interval, in ticks
  enabled,    \* the sites that are enabled
  loop,       \* what Scheduler.Run is doing
  batch,      \* the rows popped and not yet dispatched
  crawling,   \* the rows being crawled
  stopped,    \* the context of the daemon is done
  asked,      \* history: the rechecks no crawl has begun since
  heldOff,    \* history: the ticks a URL is to be left alone
  asks,       \* how often an operator has interfered
  errors      \* how many store calls have failed

schedule == <<nextCheck, interval>>
tickVars == <<loop, batch, crawling>>
scheduleVars == <<schedule, enabled, tickVars, stopped, asked, heldOff, asks, errors>>

-----------------------------------------------------------------------------
AtLeast(a, b) == IF a >= b THEN a ELSE b
AtMost(a, b)  == IF a <= b THEN a ELSE b
Clamp(i)      == AtMost(MaxInterval, AtLeast(MinInterval, i))

\* In hundredths, as a URL found by a link has it; the sitemap adds up to 40.
ColdStartImportance(u, priority) ==
  IF Depth[u] = 0 THEN 100 ELSE AtMost(99, 60 \div (1 + Depth[u]) + 40 * priority)

Importance(u) == ColdStartImportance(u, 0)

RecomputeNextCheck_Unbounded(prev, changed) == IF changed THEN prev \div 2 ELSE (prev * 3) \div 2

\* The interval shrinks on a change and grows while the page is stable.
RecomputeNextCheck(prev, changed) == Clamp(IF changed THEN prev \div 2 ELSE (prev * 3) \div 2)

BackoffSchedule(prev) == Clamp(prev * 2)

Row(u) == [url |-> u, interval |-> interval[u]]
Rows == [url : Urls, interval : MinInterval..MaxInterval]
UrlsOf(rows) == {r.url : r \in rows}
InHand == UrlsOf(batch) \cup UrlsOf(crawling)

Due == {u \in Urls : nextCheck[u] <= 0 /\ SiteOf[u] \in enabled}

Before(u, v) ==
  \/ Importance(u) > Importance(v)
  \/ Importance(u) = Importance(v) /\ nextCheck[u] < nextCheck[v]

\* PopDueURLs: the order by importance and next_check_at, cut at the batch.
PopDueURLs ==
  {urls \in SUBSET Due :
     /\ Cardinality(urls) = AtMost(Batch, Cardinality(Due))
     /\ \A u \in urls, v \in Due \ urls : ~Before(v, u)}

ScheduleInit ==
  /\ nextCheck = [u \in Urls |-> 1]
  /\ interval = [u \in Urls |-> MinInterval]
  /\ enabled = Sites
  /\ loop = "off"
  /\ batch = {}
  /\ crawling = {}
  /\ stopped = FALSE
  /\ asked = {}
  /\ heldOff = [u \in Urls |-> 0]
  /\ asks = 0
  /\ errors = 0

(***************************************************************************)
(* The loop.                                                               *)
(***************************************************************************)
RunScheduler ==
  /\ loop = "off"
  /\ ~stopped
  /\ loop' = "idle"
  /\ UNCHANGED <<schedule, enabled, batch, crawling, stopped, asked, heldOff, asks, errors>>

Clock ==
  /\ loop = "idle"
  /\ ~stopped
  /\ nextCheck' = [u \in Urls |-> AtLeast(-MaxLate, nextCheck[u] - 1)]
  /\ heldOff' = [u \in Urls |-> AtLeast(0, heldOff[u] - 1)]
  /\ loop' = "tick"
  /\ UNCHANGED <<interval, enabled, batch, crawling, stopped, asked, asks, errors>>

SchedulerTick ==
  /\ loop = "tick"
  /\ \E urls \in PopDueURLs : batch' = {Row(u) : u \in urls}
  /\ loop' = "batch"
  /\ UNCHANGED <<schedule, enabled, crawling, stopped, asked, heldOff, asks, errors>>

\* The query fails, or finds the context done: the tick is logged and over.
TickFails ==
  /\ loop = "tick"
  /\ \/ stopped /\ UNCHANGED errors
     \/ errors < MaxErrors /\ errors' = errors + 1
  /\ loop' = "idle"
  /\ UNCHANGED <<schedule, enabled, batch, crawling, stopped, asked, heldOff, asks>>

\* A row takes one of the places of the semaphore.  The select that sends to it
\* also listens to the context, and may take either when both are ready.
Dispatch(r) ==
  /\ r \in batch
  /\ Cardinality(crawling) < MaxParallel
  /\ batch' = batch \ {r}
  /\ crawling' = crawling \cup {r}
  /\ asked' = asked \ {r.url}
  /\ UNCHANGED <<schedule, enabled, loop, stopped, heldOff, asks, errors>>

DropBatch ==
  /\ stopped
  /\ batch # {}
  /\ batch' = {}
  /\ UNCHANGED <<schedule, enabled, loop, crawling, stopped, asked, heldOff, asks, errors>>

\* wg.Wait: the tick ends with its last crawl.
TickDone ==
  /\ loop = "batch"
  /\ batch = {}
  /\ crawling = {}
  /\ loop' = "idle"
  /\ UNCHANGED <<schedule, enabled, batch, crawling, stopped, asked, heldOff, asks, errors>>

(***************************************************************************)
(* How a crawl ends, with the row it was given.                            *)
(***************************************************************************)
Leaves(r) ==
  /\ r \in crawling
  /\ crawling' = crawling \ {r}
  /\ UNCHANGED <<enabled, loop, batch, stopped, asked, asks>>

UpdateURLSchedule_Everywhere(u, every, at) ==
  /\ interval' = [interval EXCEPT ![u] = every]
  /\ nextCheck' = [v \in Urls |-> at]

UpdateURLSchedule(u, every, at) ==
  /\ interval' = [interval EXCEPT ![u] = every]
  /\ nextCheck' = [nextCheck EXCEPT ![u] = at]

HoldOff(u, ticks) == heldOff' = [heldOff EXCEPT ![u] = ticks]

Disallowed_Spins(r) ==
  /\ Leaves(r)
  /\ HoldOff(r.url, MaxInterval)
  /\ UNCHANGED <<schedule, errors>>

\* robots.txt forbids the URL: the longest interval, not an immediate retry.
Disallowed(r) ==
  /\ Leaves(r)
  /\ r.url \notin Poison
  /\ UpdateURLSchedule(r.url, MaxInterval, MaxInterval)
  /\ HoldOff(r.url, MaxInterval)
  /\ UNCHANGED errors

Crawled(r, changed) ==
  LET next == RecomputeNextCheck(r.interval, changed)
  IN /\ Leaves(r)
     /\ r.url \notin Poison
     /\ UpdateURLSchedule(r.url, next, next)
     /\ HoldOff(r.url, MinInterval)
     /\ UNCHANGED errors

SoftBlocked_NoRetryAfter(r, retryAfter) ==
  LET next == BackoffSchedule(r.interval)
  IN /\ Leaves(r)
     /\ r.url \notin Poison
     /\ UpdateURLSchedule(r.url, next, next)
     /\ HoldOff(r.url, AtLeast(retryAfter, MinInterval))
     /\ UNCHANGED errors

\* A 429 or a 503: this URL waits for Retry-After when that is later than its own
\* back-off; the schedules of the other URLs of the host stay as they are.
SoftBlocked(r, retryAfter) ==
  LET next == BackoffSchedule(r.interval)
  IN /\ Leaves(r)
     /\ r.url \notin Poison
     /\ UpdateURLSchedule(r.url, next, AtLeast(next, retryAfter))
     /\ HoldOff(r.url, AtLeast(retryAfter, MinInterval))
     /\ UNCHANGED errors

\* A hard block, a 5xx or no answer: what Retry-After says does not count.
BackedOff(r) ==
  LET next == BackoffSchedule(r.interval)
  IN /\ Leaves(r)
     /\ r.url \notin Poison
     /\ UpdateURLSchedule(r.url, next, next)
     /\ HoldOff(r.url, MinInterval)
     /\ UNCHANGED errors

\* A panic is contained: the row stays as it is, and due.
Panicked(r) ==
  /\ Leaves(r)
  /\ r.url \in Poison
  /\ UNCHANGED <<schedule, heldOff, errors>>

\* The schedule is not written: the call fails, or its context is done.
ScheduleLost(r) ==
  /\ Leaves(r)
  /\ r.url \notin Poison
  /\ \/ stopped /\ UNCHANGED errors
     \/ errors < MaxErrors /\ errors' = errors + 1
  /\ UNCHANGED <<schedule, heldOff>>

(***************************************************************************)
(* The operator.                                                           *)
(***************************************************************************)
Asks(urls) ==
  /\ asks < MaxAsks
  /\ asks' = asks + 1
  /\ nextCheck' = [u \in Urls |-> IF u \in urls THEN 0 ELSE nextCheck[u]]
  /\ heldOff' = [u \in Urls |-> IF u \in urls THEN 0 ELSE heldOff[u]]
  /\ asked' = asked \cup (urls \ UrlsOf(crawling))
  /\ UNCHANGED <<enabled, tickVars, stopped, errors>>

\* A recheck of one URL, of a site or of everything; disabled sites are left out.
EnqueueRecheck(target) ==
  /\ Asks({u \in target : SiteOf[u] \in enabled})
  /\ UNCHANGED interval

Targets == {{u} : u \in Urls} \cup {{u \in Urls : SiteOf[u] = s} : s \in Sites} \cup {Urls}

\* Reconciling the configuration seeds the homepage of a site again.
SeedHomepage(u) ==
  /\ Depth[u] = 0
  /\ Asks({u})
  /\ interval' = [interval EXCEPT ![u] = MinInterval]

SetSiteEnabled(s) ==
  /\ asks < MaxAsks
  /\ asks' = asks + 1
  /\ enabled' = IF s \in enabled THEN enabled \ {s} ELSE enabled \cup {s}
  /\ UNCHANGED <<schedule, tickVars, stopped, asked, heldOff, errors>>

StopScheduler ==
  /\ ~stopped
  /\ stopped' = TRUE
  /\ UNCHANGED <<schedule, enabled, tickVars, asked, heldOff, asks, errors>>

-----------------------------------------------------------------------------
CrawlEnds(r) ==
  \/ Disallowed(r)
  \/ \E changed \in BOOLEAN : Crawled(r, changed)
  \/ \E ra \in RetryAfters : SoftBlocked(r, ra)
  \/ BackedOff(r)
  \/ Panicked(r)
  \/ ScheduleLost(r)

ScheduleNext ==
  \/ RunScheduler
  \/ Clock
  \/ SchedulerTick
  \/ TickFails
  \/ \E r \in batch : Dispatch(r)
  \/ DropBatch
  \/ TickDone
  \/ \E r \in crawling : CrawlEnds(r)
  \/ \E target \in Targets : EnqueueRecheck(target)
  \/ \E u \in Urls : SeedHomepage(u)
  \/ \E s \in Sites : SetSiteEnabled(s)
  \/ StopScheduler

\* The ticker rings and the loop runs; a fetch has a deadline.
ScheduleFairness ==
  /\ WF_scheduleVars(Clock)
  /\ WF_scheduleVars(SchedulerTick \/ TickFails)
  /\ WF_scheduleVars(TickDone)
  /\ WF_scheduleVars(DropBatch \/ \E r \in batch : Dispatch(r))
  /\ WF_scheduleVars(\E r \in crawling : CrawlEnds(r))

ScheduleSpec == ScheduleInit /\ [][ScheduleNext]_scheduleVars /\ ScheduleFairness

-----------------------------------------------------------------------------
\* The types; no more crawls than places, and an interval stays in its bounds.
ScheduleTypeOK ==
  /\ nextCheck \in [Urls -> Int]
  /\ \A u \in Urls : /\ -MaxLate <= nextCheck[u]
                     /\ nextCheck[u] <= MaxInterval \/ \E ra \in RetryAfters : nextCheck[u] <= ra
  /\ interval \in [Urls -> MinInterval..MaxInterval]
  /\ enabled \subseteq Sites
  /\ loop \in {"off", "idle", "tick", "batch"}
  /\ batch \cup crawling \subseteq Rows
  /\ Cardinality(crawling) <= MaxParallel
  /\ asked \subseteq Urls
  /\ asks \in 0..MaxAsks
  /\ errors \in 0..MaxErrors

\* A due URL is crawled, however many more important URLs there are and although
\* one that panics is popped again on every tick, as long as the batch has room
\* for what comes due in a tick (PopDueURLs orders by importance alone).
NoStarvation ==
  \A u \in Urls : loop # "off" /\ u \in Due ~> u \in InHand \/ u \notin Due \/ stopped

\* A recheck makes a URL due at once, and until a crawl of it begins nothing puts it
\* off: not a row of it that was popped before and waits for its place, not the
\* crawls of other URLs, a failed call or the end of the batch.  A crawl that has
\* begun already when the operator asks does put it off, as it writes the next check
\* it computes from the row of the pop: that recheck is lost.
RecheckKept == \A u \in asked : nextCheck[u] <= 0

\* A URL that answered with a 429 or a 503 is not popped again before Retry-After,
\* and none before its shortest interval, unless the operator asks for it or the
\* schedule could not be written.  This is about the URL: the others of the host are
\* popped as they come due.
LeftAlone == \A r \in batch' \ batch : heldOff[r.url] = 0

\* What the operator asks for is kept and what a server asks for is granted, and
\* neither undoes the other.
RequestsHonoured == [][RecheckKept' /\ LeftAlone]_scheduleVars
=============================================================================
