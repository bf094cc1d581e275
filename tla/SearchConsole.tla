--------------------------- MODULE SearchConsole ---------------------------
(***************************************************************************)
(* Google Search Console for one site: the daily job that pulls the search *)
(* metrics and inspects the most important pages within the daily budget,  *)
(* and then compares what Google says with what the last crawl said        *)
(* (internal/scheduler/gscpuller.go, gscsignals.go,                        *)
(* internal/cli/gscregister.go, internal/store/gsc.go).  Google reindexes, *)
(* pages are crawled and incidents expire between any two steps of it; the *)
(* API answers with errors or that the quota is spent; the daemon may be   *)
(* restarted, which starts the job again.                                  *)
(*                                                                         *)
(* The answer of an inspection and its stamp, read right after it, are one *)
(* step.  A stamp is the day; whether an inspection is older than the      *)
(* crawl it is compared with is kept as the flag "behind".  "strayed" and  *)
(* "paged" are history.  Of an incident: its members and the day of its    *)
(* last event.  Bounds: MaxDay, MaxMoves changes at Google, MaxCrawls,     *)
(* MaxOutages errors and restarts.                                         *)
(***************************************************************************)
EXTENDS Integers, Sequences, FiniteSets

CONSTANTS
  Pages,
  Importance,    \* urls.importance
  GoogleStates,  \* what Google may say of a page: [index, canonical]
  Budget,        \* DailyInspectBudget, and the budget of the signals
  MaxAge,        \* gscMaxInspectionAge, in days
  IdleDays,      \* IncidentAutoClose, in days
  NoInspection,
  MaxDay,
  MaxMoves,
  MaxCrawls,
  MaxOutages

\* A row of url_index_status: what Google said, the day, and whether the page has
\* been crawled since.
Inspection == [index : {"indexed", "excluded", "unclear"}, canonical : {"same", "other", "none"},
               day : Nat, behind : BOOLEAN]

ASSUME SearchConsoleAssumption ==
  /\ NoInspection \notin Inspection
  /\ IsFiniteSet(Pages)
  /\ Importance \in [Pages -> Nat]
  /\ \A p, q \in Pages : Importance[p] = Importance[q] => p = q
  /\ GoogleStates \subseteq
       [index : {"indexed", "excluded", "unclear"}, canonical : {"same", "other", "none"}]
  /\ {Budget, MaxAge, IdleDays, MaxDay, MaxMoves, MaxCrawls, MaxOutages} \subseteq Nat

VARIABLES
  day,
  google,     \* what Google would answer
  verdict,    \* "uncrawled", "unfetched" (crawled in vain), or the last snapshot's
  status,     \* url_index_status
  incident,   \* by signal
  gsc,        \* the job
  moves, crawls, troubles,
  strayed,    \* whether Google has disagreed with the verdict since it was made
  paged         \* how often a page was ingested for a signal since it last recovered

gscVars == <<day, google, verdict, status, incident, gsc, moves, crawls, troubles, strayed, paged>>

-----------------------------------------------------------------------------
Signals == {"index_status_discrepancy", "google_canonical_mismatch"}

Closed == [open |-> FALSE, members |-> {}, updated |-> 0]

\* The job before it starts; "ran" until the next day.
NoJob == [pc |-> "idle", ran |-> FALSE, todo |-> {}, failed |-> FALSE, signal |-> "index_status_discrepancy",
          row |-> NoInspection, strayed |-> FALSE]

SearchConsoleInit ==
  /\ day = 0
  /\ google \in [Pages -> GoogleStates]
  /\ verdict = [p \in Pages |-> "uncrawled"]
  /\ status = [p \in Pages |-> NoInspection]
  /\ incident = [s \in Signals |-> Closed]
  /\ gsc = NoJob
  /\ moves = 0
  /\ crawls = 0
  /\ troubles = 0
  /\ strayed = [p \in Pages |-> FALSE]
  /\ paged = [s \in Signals |-> [p \in Pages |-> 0]]

\* Google and Rabbot hold opposite views of a page.
Disagree(index, seen) ==
  \/ seen = "indexable" /\ index = "excluded"
  \/ seen = "noindex" /\ index = "indexed"

outside == <<day, google, verdict, moves, crawls, strayed>>
Trouble == troubles < MaxOutages /\ troubles' = troubles + 1

Step(job) ==
  /\ gsc' = job
  /\ UNCHANGED <<outside, troubles>>

-----------------------------------------------------------------------------
(* Around the job.                                                         *)

NextDay ==
  /\ day < MaxDay
  /\ day' = day + 1
  /\ gsc' = [gsc EXCEPT !.ran = FALSE]
  /\ UNCHANGED <<google, verdict, status, incident, moves, crawls, troubles, strayed, paged>>

Reindex(p) ==
  /\ moves < MaxMoves
  /\ moves' = moves + 1
  /\ \E g \in GoogleStates \ {google[p]} :
       /\ google' = [google EXCEPT ![p] = g]
       /\ strayed' = [strayed EXCEPT ![p] = @ \/ Disagree(g.index, verdict[p])]
  /\ UNCHANGED <<day, verdict, status, incident, gsc, crawls, troubles, paged>>

\* The page that the job is at: the most important one of those it still has to do.
Foremost == CHOOSE p \in gsc.todo : \A q \in gsc.todo : Importance[q] <= Importance[p]

\* A new snapshot: what was inspected before it is behind.
Behind(row) == IF row = NoInspection THEN row ELSE [row EXCEPT !.behind = TRUE]

CrawlSnapshot(p, seen) ==
  /\ crawls < MaxCrawls
  /\ crawls' = crawls + 1
  /\ verdict' = [verdict EXCEPT ![p] = seen]
  /\ strayed' = [strayed EXCEPT ![p] = Disagree(google[p].index, seen)]
  /\ status' = [status EXCEPT ![p] = Behind(@)]
  /\ gsc' = IF gsc.todo # {} /\ p = Foremost THEN [gsc EXCEPT !.row = Behind(@)] ELSE gsc
  /\ UNCHANGED <<day, google, incident, moves, troubles, paged>>

\* The first crawl fails: the page has a fetch class and no snapshot.
CrawlInVain(p) ==
  /\ verdict[p] = "uncrawled"
  /\ crawls < MaxCrawls
  /\ crawls' = crawls + 1
  /\ verdict' = [verdict EXCEPT ![p] = "unfetched"]
  /\ UNCHANGED <<day, google, status, incident, gsc, moves, troubles, strayed, paged>>

\* AutoCloseStale: nothing was ingested for a day.
Expire(s) ==
  /\ incident[s].open
  /\ day - incident[s].updated >= IdleDays
  /\ incident' = [incident EXCEPT ![s] = Closed]
  /\ UNCHANGED <<outside, status, gsc, troubles, paged>>

RestartDaemon ==
  /\ Trouble
  /\ gsc' = NoJob
  /\ UNCHANGED <<outside, status, incident, paged>>

-----------------------------------------------------------------------------
(* Pull.                                                                   *)

\* Crawled pages, the most important first and no more than the budget.
InspectionCandidates ==
  LET crawled == {p \in Pages : verdict[p] # "uncrawled"}
  IN {p \in crawled : Cardinality({q \in crawled : Importance[q] > Importance[p]}) < Budget}

\* The search metrics; an error of theirs does not keep the pages from being
\* inspected.
PullSearchAnalytics ==
  /\ gsc.pc = "idle"
  /\ ~gsc.ran
  /\ Step([NoJob EXCEPT !.pc = "select", !.ran = TRUE])
  /\ UNCHANGED <<status, incident, paged>>

PullFails ==
  /\ gsc.pc = "idle"
  /\ ~gsc.ran
  /\ Trouble
  /\ gsc' = [NoJob EXCEPT !.pc = "select", !.ran = TRUE, !.failed = TRUE]
  /\ UNCHANGED <<outside, status, incident, paged>>

SelectCandidates ==
  /\ gsc.pc = "select"
  /\ Step([gsc EXCEPT !.pc = "inspect", !.todo = InspectionCandidates])
  /\ UNCHANGED <<status, incident, paged>>

\* urlInspection.index.inspect, and the time of the answer.
InspectURL ==
  /\ gsc.pc = "inspect"
  /\ gsc.todo # {}
  /\ Step([gsc EXCEPT !.pc = "upsert",
             !.row = [index |-> google[Foremost].index, canonical |-> google[Foremost].canonical,
                      day |-> day, behind |-> FALSE]])
  /\ UNCHANGED <<status, incident, paged>>

\* The quota is spent: the pass ends, and is no failure.  Any other error of the
\* API passes over the page.
InspectFails ==
  /\ gsc.pc = "inspect"
  /\ gsc.todo # {}
  /\ Trouble
  /\ \E rest \in {{}, gsc.todo \ {Foremost}} : gsc' = [gsc EXCEPT !.todo = rest]
  /\ UNCHANGED <<outside, status, incident, paged>>

UpsertURLIndexStatus ==
  /\ gsc.pc = "upsert"
  /\ status' = [status EXCEPT ![Foremost] = gsc.row]
  /\ Step([gsc EXCEPT !.pc = "inspect", !.todo = @ \ {Foremost}, !.row = NoInspection])
  /\ UNCHANGED <<incident, paged>>

UpsertStatusFails ==
  /\ gsc.pc = "upsert"
  /\ Trouble
  /\ gsc' = [gsc EXCEPT !.pc = "inspect", !.todo = @ \ {Foremost}, !.row = NoInspection, !.failed = TRUE]
  /\ UNCHANGED <<outside, status, incident, paged>>

\* The signals are evaluated after a pull without an error.
EndPull ==
  /\ gsc.pc = "inspect"
  /\ gsc.todo = {}
  /\ Step(IF gsc.failed THEN [NoJob EXCEPT !.ran = gsc.ran]
          ELSE [gsc EXCEPT !.pc = "evaluate", !.todo = InspectionCandidates])
  /\ UNCHANGED <<status, incident, paged>>

-----------------------------------------------------------------------------
(* Evaluate: for each candidate the discrepancy, then the canonical.       *)

\* The next signal of the page, or the next page.
Evaluated(job) ==
  IF job.signal = "index_status_discrepancy"
  THEN [job EXCEPT !.pc = "evaluate", !.row = NoInspection, !.signal = "google_canonical_mismatch"]
  ELSE [job EXCEPT !.pc = "evaluate", !.row = NoInspection, !.signal = "index_status_discrepancy",
                   !.todo = @ \ {Foremost}]

LatestURLIndexStatus ==
  /\ gsc.pc = "evaluate"
  /\ gsc.todo # {}
  /\ Step(IF status[Foremost] = NoInspection THEN Evaluated(gsc)
          ELSE [gsc EXCEPT !.pc = "compare", !.row = status[Foremost]])
  /\ UNCHANGED <<status, incident, paged>>

TooStale_AgeOnly(row) == day - row.day > MaxAge

\* gscInspectionTooStale.
TooStale(row) == row.behind \/ day - row.day > MaxAge

\* The snapshot is read and the signal decided: fire, retract, or leave as it is.
EvalSignal1 ==
  /\ gsc.pc = "compare"
  /\ gsc.signal = "index_status_discrepancy"
  /\ LET seen == verdict[Foremost]
         next == IF gsc.row.index = "unclear" THEN "retract"
                 ELSE IF seen \notin {"indexable", "noindex"} THEN "leave"
                 ELSE IF ~Disagree(gsc.row.index, seen) THEN "retract"
                 ELSE IF TooStale(gsc.row) THEN "leave"
                 ELSE "probe"
     IN Step(IF next = "leave" THEN Evaluated(gsc)
             ELSE [gsc EXCEPT !.pc = next, !.strayed = strayed[Foremost]])
  /\ UNCHANGED <<status, incident, paged>>

\* The canonical that Google chose against the one the page declares.
EvalSignal2 ==
  /\ gsc.pc = "compare"
  /\ gsc.signal = "google_canonical_mismatch"
  /\ Step([gsc EXCEPT !.pc = CASE gsc.row.canonical = "same" -> "retract"
                               [] gsc.row.canonical = "other" -> "probe"
                               [] gsc.row.canonical = "none" -> "retract if open"])
  /\ UNCHANGED <<status, incident, paged>>

HasOpenMember(p, s) == incident[s].open /\ p \in incident[s].members

\* ingestOnStateChange and resolveIfOpen ask before they act.
ProbeOpenMember ==
  /\ gsc.pc \in {"probe", "retract if open"}
  /\ LET act == IF gsc.pc = "probe" THEN ~HasOpenMember(Foremost, gsc.signal)
                ELSE HasOpenMember(Foremost, gsc.signal)
     IN Step(IF ~act THEN Evaluated(gsc)
             ELSE [gsc EXCEPT !.pc = IF gsc.pc = "probe" THEN "ingest" ELSE "retract"])
  /\ UNCHANGED <<status, incident, paged>>

IngestSignal ==
  /\ gsc.pc = "ingest"
  /\ incident' = [incident EXCEPT ![gsc.signal] =
                    [open |-> TRUE, members |-> @.members \cup {Foremost}, updated |-> day]]
  /\ paged' = [paged EXCEPT ![gsc.signal][Foremost] = @ + 1]
  /\ Step(Evaluated(gsc))
  /\ UNCHANGED status

ResolveSignal_KeptOpen ==
  /\ gsc.pc = "retract"
  /\ incident' = [incident EXCEPT ![gsc.signal].members = @ \ {Foremost}]
  /\ paged' = [paged EXCEPT ![gsc.signal][Foremost] = 0]
  /\ Step(Evaluated(gsc))
  /\ UNCHANGED status

\* Resolve: the incident closes with its last member.
ResolveSignal ==
  /\ gsc.pc = "retract"
  /\ LET rest == incident[gsc.signal].members \ {Foremost}
     IN incident' = [incident EXCEPT ![gsc.signal] =
                       IF rest = {} THEN Closed ELSE [@ EXCEPT !.members = rest]]
  /\ paged' = [paged EXCEPT ![gsc.signal][Foremost] = 0]
  /\ Step(Evaluated(gsc))
  /\ UNCHANGED status

\* A read or the pipeline fails: the error is kept and the next signal follows.
SignalFails ==
  /\ gsc.pc \in {"evaluate", "compare", "probe", "retract if open", "ingest", "retract"}
  /\ gsc.todo # {}
  /\ Trouble
  /\ gsc' = Evaluated(gsc)
  /\ UNCHANGED <<outside, status, incident, paged>>

EndJob ==
  /\ gsc.pc = "evaluate"
  /\ gsc.todo = {}
  /\ Step([NoJob EXCEPT !.ran = gsc.ran])
  /\ UNCHANGED <<status, incident, paged>>

-----------------------------------------------------------------------------
Pull ==
  \/ PullSearchAnalytics \/ PullFails
  \/ SelectCandidates
  \/ InspectURL \/ InspectFails
  \/ UpsertURLIndexStatus \/ UpsertStatusFails
  \/ EndPull

Evaluate ==
  \/ LatestURLIndexStatus
  \/ EvalSignal1 \/ EvalSignal2
  \/ ProbeOpenMember
  \/ IngestSignal \/ ResolveSignal
  \/ SignalFails
  \/ EndJob

SearchConsoleNext ==
  \/ NextDay
  \/ \E p \in Pages : Reindex(p) \/ CrawlInVain(p)
  \/ \E p \in Pages, seen \in {"indexable", "noindex"} : CrawlSnapshot(p, seen)
  \/ \E s \in Signals : Expire(s)
  \/ RestartDaemon
  \/ Pull
  \/ Evaluate

SearchConsoleSpec == SearchConsoleInit /\ [][SearchConsoleNext]_gscVars

-----------------------------------------------------------------------------
\* The types of the variables.
SearchConsoleTypeOK ==
  /\ day \in 0..MaxDay
  /\ google \in [Pages -> GoogleStates]
  /\ verdict \in [Pages -> {"uncrawled", "unfetched", "indexable", "noindex"}]
  /\ \A s \in Signals : incident[s].members \subseteq Pages /\ incident[s].updated \in 0..day
  /\ \A s \in Signals : incident[s].open <=> incident[s].members # {}
  /\ gsc.todo \subseteq Pages
  /\ gsc.signal \in Signals
  /\ strayed \in [Pages -> BOOLEAN]

\* An alert that Google and Rabbot disagree on a page is never about a past that
\* both have left: since the crawl it quotes there was a time when they did, however
\* old the inspection, and whatever was crawled or reindexed during the job.
DiscrepancyWasReal ==
  [][paged'["index_status_discrepancy"] # paged["index_status_discrepancy"] /\ gsc.pc = "ingest"
       => gsc.strayed]_gscVars
=============================================================================
