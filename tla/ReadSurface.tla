---------------------------- MODULE ReadSurface ----------------------------
(***************************************************************************)
(* What somebody who asks is told.  A tool of the MCP server asks the      *)
(* daemon through a bridge and the control client; the control server      *)
(* checks the request and runs a hook, and the hook reads the store, or    *)
(* changes something, one statement after another.  A command of the CLI   *)
(* goes the same way, or opens the store itself.  Each layer has its own   *)
(* sign for "there is no such thing", and while they work the store        *)
(* changes, reads fail and the daemon goes.                                *)
(*                                                                         *)
(* A function of a layer is one definition.  What the answers contain is   *)
(* left out; kept are the statements, in their order, and what each layer  *)
(* makes of an absence and of an error:                                    *)
(*   handler   the malformed inputs it refuses, those that it or its       *)
(*             client replaces by a default, and the things a request      *)
(*             need not name                                               *)
(*   bridge    the signs it passes on                                      *)
(*   client    the signs it recognises                                     *)
(*   endpoint  the malformed inputs it refuses, and its sign of absence    *)
(*   hook      the malformed inputs it refuses, and its steps              *)
(***************************************************************************)
EXTENDS Naturals, Sequences

CONSTANTS
  MaxTurns,         \* changes of the store, goings and comings of the daemon
  MaxReadFaults     \* failed statements and lost replies

ASSUME ReadSurfaceAssumption == MaxTurns \in Nat /\ MaxReadFaults \in Nat

VARIABLES
  stored,           \* which of the things a request can name there are
  answering,        \* who listens: the daemon, with or without its link graph, one with another token, or nobody
  call,             \* the one call
  turns, readFaults

readVars == <<stored, answering, call, turns, readFaults>>

Things == {"site", "url", "issue", "segment", "inspection"}

-----------------------------------------------------------------------------
(* A step is about one thing, or about rows that may as well be none, and  *)
(* says what can follow if the thing is there, if it is not, and if the    *)
(* statement fails: the next step ("on") or an answer.                     *)
StepOf(of, does, present, absent, failed) ==
  [of |-> of, does |-> does, present |-> present, absent |-> absent, failed |-> failed]

Needs(e) == <<StepOf(e, "read", {"on"}, {"absent"}, {"error"})>>   \* errors.Is(err, store.ErrNotFound) is told
MustBe(e) == <<StepOf(e, "read", {"on"}, {"error"}, {"error"})>>
Must == <<StepOf("rows", "read", {"on"}, {"on"}, {"error"})>>
Try == <<StepOf("rows", "read", {"on"}, {"on"}, {"on"})>>          \* its part of the answer stays empty
Write == <<StepOf("rows", "write", {"on"}, {"on"}, {"error"})>>

Hook(refuses, steps) == [refuses |-> refuses, steps |-> steps]

-----------------------------------------------------------------------------
(* The statements of the store that are more than one.                     *)
SitemapCoverage == Must \o Must \o Must \o Must \o Must  \* the file, two counts and two samples

ComputeHealthScore == Must \o Must     \* the pages of the scope and their open issues
HealthScoreSeries == Must

BlastRadiusCard == Must \o Must \o Must
Orphans == Must

NeighborhoodURLs == Must
EdgesAmong == Must
NodePayloads == Must
exportFocus == NeighborhoodURLs \o NeighborhoodURLs \o EdgesAmong \o EdgesAmong \o NodePayloads
exportOverview == Must \o Must     \* are there segments; their edges, or those of the folders

changeSummary == Must
issueWindowCount == Must
issueSummary == Must \o issueWindowCount \o issueWindowCount
topChangedURLs == Must
siteIDsForURLs == Must
annotateSearchShifts == Must
countBySite == Must
siteRollups == countBySite \o countBySite \o Must \o ComputeHealthScore
healthBlock == ComputeHealthScore \o HealthScoreSeries \o Must \o ComputeHealthScore
BuildReportOfAll ==
  changeSummary \o issueSummary \o topChangedURLs \o siteIDsForURLs \o annotateSearchShifts \o siteRollups
BuildReportOfOne == changeSummary \o issueSummary \o topChangedURLs \o annotateSearchShifts \o healthBlock

\* The site that owns a page: the sites are listed, and the page's row is read in each.  An
\* error of that read is not told from a missing row: the base URLs decide, and no site
\* may own the page by them.  What its caller makes of a failure and of "no site" differs.
siteIDForURL(absent, failed) ==
  <<StepOf("site", "read", {"on"}, {absent}, {failed}),
    StepOf("site", "read", {"on"}, {"on", absent}, {"on", absent})>>

-----------------------------------------------------------------------------
(* The hooks that read.                                                    *)
resolveVerificationTier == Try
listSitesHook == Hook({}, Must \o resolveVerificationTier)
siteDetailHook ==      \* the proof, the issues, the home page, its snapshot, the count, the segments
  Hook({}, Needs("site") \o resolveVerificationTier \o Try \o Try \o Try \o Try \o Try \o Try)
issuesHook == Hook({"severity", "status"}, Must)
historyHook == Hook({}, Needs("url") \o Must)
richResultsHook == Hook({}, Needs("url") \o Must)
reportHook == Hook({}, BuildReportOfAll)
reportHookOfOne == Hook({}, BuildReportOfOne)    \* with a site_id, which need not be one of a site
coverageHook == Hook({}, Needs("site") \o SitemapCoverage)
scoreHook_AnyError ==      \* any error of the lookup is taken for "no such site"
  Hook({}, <<StepOf("site", "read", {"on"}, {"absent"}, {"absent"})>> \o Needs("segment") \o ComputeHealthScore
           \o HealthScoreSeries)
scoreHook == Hook({}, Needs("site") \o Needs("segment") \o ComputeHealthScore \o HealthScoreSeries)
linksHook == Hook({}, Needs("url") \o BlastRadiusCard)
graphHookFocus == Hook({"mode"}, Needs("site") \o exportFocus)
graphHookOverview == Hook({"mode"}, Needs("site") \o exportOverview)
indexStatusHook == Hook({}, siteIDForURL("absent", "absent") \o Needs("inspection"))
searchPerformanceHook == Hook({"since"}, siteIDForURL("value", "value") \o Must)

statusFromStore == Try \o Try \o Try
cappedSitesCount == Try
statusHook == Hook({}, statusFromStore \o Try \o cappedSitesCount)

-----------------------------------------------------------------------------
(* The hooks that change something.  Those that edit config.yaml reload    *)
(* it; a reload makes the row of a new site.                               *)
addSiteURLError == {"url"}
addSiteDuplicateErr ==      \* a site that is disabled may be added again
  <<StepOf("site", "read", {"on", "error"}, {"on"}, {"error"})>>
WriteAdded == Write
ReloadsNew == <<StepOf("rows", "create", {"on"}, {"on"}, {"error"})>>
AddSite == Hook(addSiteURLError, addSiteDuplicateErr \o WriteAdded \o ReloadsNew \o MustBe("site"))

WriteRemoved == Write
Reloads == Must
DeletesSite == <<StepOf("rows", "delete", {"on"}, {"on"}, {"error"})>>
RemoveSite == Hook({}, MustBe("site") \o WriteRemoved \o Reloads)
RemoveSiteAndPurge == Hook({}, RemoveSite.steps \o DeletesSite)

SetConfig == Hook({"key"}, Write \o Reloads)

SetPaused == Hook({}, <<StepOf("rows", "write", {"on"}, {"on"}, {})>>)
EnqueueRecheck == Hook({}, Write)
IgnoreIssue == Hook({}, <<StepOf("issue", "write", {"on"}, {"error"}, {"error"})>>)
NotifyTest == Hook({"notifier"}, Write)

verifyBegin == Hook({"method"}, MustBe("site") \o Must \o Try)   \* the token; the tier
verifyCheck == Hook({"method"}, MustBe("site") \o Write)

ConfigWriters == {AddSite, RemoveSite, RemoveSiteAndPurge, SetConfig}   \* those that hold cfgWriteMu

-----------------------------------------------------------------------------
(* The control server: what an endpoint refuses before the hook runs, and  *)
(* how it says that the hook found nothing: a 404, a 200 whose whole body  *)
(* is a flag, a field of the answer, or not at all.  Two of them are 501   *)
(* in a daemon whose link graph is off.                                    *)
Endpoint(refuses, absence) == [refuses |-> refuses, absence |-> absence, graph |-> FALSE]
GraphEndpoint(refuses, absence) == [refuses |-> refuses, absence |-> absence, graph |-> TRUE]

decodeBody == {"body"}

handleStatus == Endpoint({}, "none")
handleListSites == Endpoint({}, "none")
handleSiteDetail == Endpoint({"id"}, "flag")
handleListIssues == Endpoint({"site_id"}, "none")
handleHistory == Endpoint({"url", "since"}, "field")
handleReport == Endpoint({"since", "site_id", "top"}, "none")
handleCoverage == Endpoint({"site_id"}, "404")
handleRichResults == Endpoint({"url"}, "field")
handleScore == Endpoint({"site_id", "since"}, "flag")
handleLinks == GraphEndpoint({"url", "limit"}, "field")
handleGraph == GraphEndpoint({"site_id", "hops", "limit"}, "flag")
handleIndexStatus == Endpoint({"url"}, "field")
handleSearchPerformance == Endpoint({"url", "since"}, "none")
handleAddSite == Endpoint(decodeBody, "none")
handleRemoveSite == Endpoint({"id"}, "none")
handleCrawl == Endpoint(decodeBody, "none")
handleIgnoreIssue == Endpoint({"id"}, "none")
handlePaused == Endpoint({}, "none")
handleNotifyTest == Endpoint(decodeBody, "none")
handleConfigSet == Endpoint(decodeBody, "none")
handleVerify == Endpoint(decodeBody, "none")

-----------------------------------------------------------------------------
(* The control client: the signs of absence it recognises.  A field comes  *)
(* with the answer it is decoded into; a flag must be looked for, and a    *)
(* 404 be told from the other statuses, which are all errors.              *)
clientStatus == {}
clientSites == {}
SiteDetailFound == {"flag"}
clientIssues == {}
clientHistory == {"field"}
clientReport == {}
clientCoverage == {"404"}
clientRichResults == {"field"}
clientScore == {"flag"}
clientLinks == {"field"}
clientGraph == {"flag"}
clientIndexStatus == {"field"}
clientSearchPerformance == {}
clientActs == {}         \* add, remove, crawl, ignore, pause, test, set
clientVerify == {}

\* What comes out of the client, of an answer with this sign.
Decoded(client, sign) ==
  CASE sign \in client -> "absent" [] sign = "404" /\ sign \notin client -> "error" [] OTHER -> "value"

-----------------------------------------------------------------------------
(* The bridge: does its answer say that there is no such thing?            *)
bridgeStatus == {}
bridgeSites == {}
bridgeSite == {"absent"}
bridgeIssues == {}
bridgeHistory == {"absent"}
bridgeReport == {}
bridgeCoverage == {"absent"}
bridgeRichResults == {"absent"}
bridgeHealthScore == {"absent"}
bridgeLinks == {"absent"}
bridgeLinkGraph == {"absent"}
bridgeIndexStatus == {"absent"}
bridgeSearchPerformance == {}
bridgeActs == {}
bridgeVerify == {}

-----------------------------------------------------------------------------
(* Who asks: the tools of the MCP server.                                  *)
Handler(refuses, drops, optional) == [refuses |-> refuses, drops |-> drops, optional |-> optional]
Plain == Handler({}, {}, {})

Tool(handler, bridge, client, endpoint, hook) ==
  [handler |-> handler, bridge |-> bridge, client |-> client, endpoint |-> endpoint, hook |-> hook]

get_status == Tool(Plain, bridgeStatus, clientStatus, handleStatus, statusHook)
list_sites == Tool(Plain, bridgeSites, clientSites, handleListSites, listSitesHook)
get_site == Tool(Plain, bridgeSite, SiteDetailFound, handleSiteDetail, siteDetailHook)
list_issues == Tool(Plain, bridgeIssues, clientIssues, handleListIssues, issuesHook)
get_history == Tool(Handler({"since"}, {}, {}), bridgeHistory, clientHistory, handleHistory, historyHook)
\* Afterwards the searches of each page of the report are asked for; what fails is passed over.
summarize_changes == Tool(Handler({"since"}, {"top"}, {}), bridgeReport, clientReport, handleReport, reportHook)
summarize_one == Tool(Handler({"since"}, {"top"}, {}), bridgeReport, clientReport, handleReport, reportHookOfOne)
get_coverage == Tool(Plain, bridgeCoverage, clientCoverage, handleCoverage, coverageHook)
get_rich_results == Tool(Plain, bridgeRichResults, clientRichResults, handleRichResults, richResultsHook)
get_health_score == Tool(Handler({"since"}, {}, {"segment"}), bridgeHealthScore, clientScore, handleScore, scoreHook)
blast_radius == Tool(Handler({}, {"limit"}, {}), bridgeLinks, clientLinks, handleLinks, linksHook)
what_links_to == blast_radius      \* the same call, of which the tool shows less
get_link_graph ==
  Tool(Handler({"hops"}, {"limit", "fewHops"}, {}), bridgeLinkGraph, clientGraph, handleGraph, graphHookFocus)
get_link_overview ==
  Tool(Handler({"hops"}, {"limit", "fewHops"}, {}), bridgeLinkGraph, clientGraph, handleGraph, graphHookOverview)
get_index_status == Tool(Plain, bridgeIndexStatus, clientIndexStatus, handleIndexStatus, indexStatusHook)
get_search_performance ==
  Tool(Handler({"since"}, {}, {}), bridgeSearchPerformance, clientSearchPerformance, handleSearchPerformance,
       searchPerformanceHook)
add_site == Tool(Plain, bridgeActs, clientActs, handleAddSite, AddSite)
recheck_site == Tool(Plain, bridgeActs, clientActs, handleCrawl, EnqueueRecheck)
pause_monitoring == Tool(Plain, bridgeActs, clientActs, handlePaused, SetPaused)     \* and resume_monitoring
ignore_issue == Tool(Plain, bridgeActs, clientActs, handleIgnoreIssue, IgnoreIssue)
send_test_alert == Tool(Plain, bridgeActs, clientActs, handleNotifyTest, NotifyTest)
set_config == Tool(Handler({"key"}, {}, {}), bridgeActs, clientActs, handleConfigSet, SetConfig)
verify_begin == Tool(Plain, bridgeVerify, clientVerify, handleVerify, verifyBegin)
verify_check == Tool(Plain, bridgeVerify, clientVerify, handleVerify, verifyCheck)

McpTools ==
  {get_status, list_sites, get_site, list_issues, get_history, summarize_changes, summarize_one, get_coverage,
   get_rich_results, get_health_score, blast_radius, what_links_to, get_link_graph, get_link_overview,
   get_index_status, get_search_performance, add_site, recheck_site, pause_monitoring, ignore_issue,
   send_test_alert, set_config, verify_begin, verify_check}

-----------------------------------------------------------------------------
(* Who asks: the commands of the CLI, through the daemon or the store.     *)
withControlClient(refuses, endpoint, hook) == Tool(Handler(refuses, {}, {}), {}, {}, endpoint, hook)

Direct == Endpoint({}, "itself")
withStore(handler, refuses, steps) == Tool(handler, {"absent"}, {"itself"}, Direct, Hook(refuses, Must \o steps))

rabbot_status == withControlClient({}, handleStatus, statusHook)
rabbot_sites_add == withControlClient({}, handleAddSite, AddSite)
rabbot_sites_remove == withControlClient({}, handleRemoveSite, RemoveSite)
rabbot_sites_purge == withControlClient({}, handleRemoveSite, RemoveSiteAndPurge)
rabbot_crawl == withControlClient({}, handleCrawl, EnqueueRecheck)
rabbot_pause == withControlClient({}, handlePaused, SetPaused)        \* and resume
rabbot_issue_ignore == withControlClient({"id"}, handleIgnoreIssue, IgnoreIssue)
rabbot_notify_test == withControlClient({}, handleNotifyTest, NotifyTest)
rabbot_config_set == withControlClient({"pair"}, handleConfigSet, SetConfig)

rabbot_sites_list == withStore(Plain, {}, Must)
rabbot_sites_show == withStore(Plain, {}, Needs("site") \o Try)
rabbot_segments == withStore(Handler({}, {}, {"site"}), {}, Needs("site") \o Must)
rabbot_history == withStore(Plain, {"since"}, Needs("url") \o Must)
rabbot_inspect == withStore(Plain, {}, Needs("url") \o Try \o Must \o Must \o Must)
rabbot_links == withStore(Handler({"limit"}, {}, {}), {}, siteIDForURL("absent", "error") \o BlastRadiusCard)
rabbot_orphans == withStore(Handler({"limit"}, {}, {}), {}, Needs("site") \o Orphans)
rabbot_graph == withStore(Handler({"hops"}, {}, {}), {}, Needs("site") \o Must \o exportOverview)
rabbot_graph_focus == withStore(Handler({"hops"}, {}, {}), {}, Needs("site") \o Must \o exportFocus)
rabbot_sitemap_coverage == withStore(Handler({"site"}, {}, {}), {}, Needs("site") \o SitemapCoverage)
rabbot_gsc_status == withStore(Plain, {}, siteIDForURL("absent", "absent") \o Needs("inspection"))
rabbot_gsc_performance == withStore(Handler({"url", "since"}, {}, {}), {}, siteIDForURL("value", "value") \o Must)

\* A filter that names no site is an error that says so; one that names no segment is
\* answered by a hint, for which the segments are read again.
unknownSegment == Needs("segment")
rabbot_issues ==
  withStore(Handler({"status"}, {}, {"site", "segment"}), {}, Needs("site") \o unknownSegment \o Must)
rabbot_report ==
  withStore(Handler({"since", "limit"}, {}, {"segment"}), {}, unknownSegment \o BuildReportOfAll)
rabbot_report_site ==
  withStore(Handler({"since", "limit"}, {}, {"segment"}), {}, Needs("site") \o unknownSegment \o BuildReportOfOne)

CliCommands ==
  {rabbot_status, rabbot_sites_add, rabbot_sites_remove, rabbot_sites_purge, rabbot_crawl, rabbot_pause,
   rabbot_issue_ignore, rabbot_notify_test, rabbot_config_set, rabbot_sites_list, rabbot_sites_show,
   rabbot_segments, rabbot_history, rabbot_inspect, rabbot_links, rabbot_orphans, rabbot_graph, rabbot_graph_focus,
   rabbot_sitemap_coverage, rabbot_gsc_status, rabbot_gsc_performance, rabbot_issues, rabbot_report,
   rabbot_report_site}

Askers == McpTools \cup CliCommands

NamedBy(a) == {a.hook.steps[i].of : i \in DOMAIN a.hook.steps} \cap Things

\* What is replaced by a default does not come to the daemon: it is answered as the default.
Refusals(a) == a.handler.refuses \cup ((a.endpoint.refuses \cup a.hook.refuses) \ a.handler.drops)
Answered(a) == a.handler.drops \cup {"none"}
Acts(a) == \E i \in DOMAIN a.hook.steps : a.hook.steps[i].does # "read"

-----------------------------------------------------------------------------
(* The store: everything is of a site, and an issue of a page.             *)
Possible(things) ==
  /\ things # {} => "site" \in things
  /\ "issue" \in things => "url" \in things

NoCall ==
  [pc |-> "idle", asker |-> get_status, flaw |-> "none", named |-> {}, at |-> 1, outcome |-> "none",
   had |-> {}, lacked |-> {}, troubled |-> FALSE, wrote |-> FALSE]

ReadSurfaceInit ==
  /\ stored \in {things \in SUBSET Things : Possible(things)}
  /\ answering = "daemon"
  /\ call = NoCall
  /\ turns = 0 /\ readFaults = 0

\* The history of the call: what it named has been there, has not been there.
Seen(c, now) == [c EXCEPT !.had = @ \cup (c.named \cap now), !.lacked = @ \cup (c.named \ now)]

Result(outcome) == [call EXCEPT !.pc = "answered", !.outcome = outcome]

TheStep == call.asker.hook.steps[call.at]

\* Whether the daemon runs the hook; a command that opens the store needs no daemon.
Reaches(a) ==
  \/ a.endpoint = Direct
  \/ answering = "daemon"
  \/ answering = "graphless" /\ ~a.endpoint.graph

-----------------------------------------------------------------------------
(* The call.  Its input is malformed in one place at most.                 *)
Ask(a, flaw, named) ==
  /\ call.pc = "idle"
  /\ call' = Seen([NoCall EXCEPT !.pc = "asked", !.asker = a, !.named = named, !.flaw = flaw], stored)
  /\ UNCHANGED <<stored, answering, turns, readFaults>>

\* A malformed input is an error, before or after the round trip.
RefuseInput ==
  /\ call.pc = "asked" /\ call.flaw \in Refusals(call.asker)
  /\ call.flaw \in call.asker.handler.refuses \/ Reaches(call.asker)
  /\ call' = Result("error")
  /\ UNCHANGED <<stored, answering, turns, readFaults>>

\* Nobody listens, or who does refuses the token or has no such hook.
NotServed ==
  /\ call.pc = "asked" /\ call.flaw \notin call.asker.handler.refuses
  /\ ~Reaches(call.asker)
  /\ call' = [Result("error") EXCEPT !.troubled = TRUE]
  /\ UNCHANGED <<stored, answering, turns, readFaults>>

RunHook ==
  /\ call.pc = "asked" /\ Reaches(call.asker) /\ call.flaw \notin Refusals(call.asker)
  /\ call' = [call EXCEPT !.pc = "serving"]
  /\ UNCHANGED <<stored, answering, turns, readFaults>>

\* What the layers make of what the hook says.
Heard(says) ==
  LET decoded == IF says = "absent" THEN Decoded(call.asker.client, call.asker.endpoint.absence) ELSE says
  IN IF decoded = "absent" /\ "absent" \notin call.asker.bridge THEN "value" ELSE decoded

InHook == call.pc = "serving" /\ call.at <= Len(call.asker.hook.steps)

\* A thing that the request does not name is not looked for.
There(step) == step.of \in stored \/ step.of \notin call.named
Says(step) == IF There(step) THEN step.present ELSE step.absent

StoredAfter(does) == CASE does = "create" -> stored \cup {"site"} [] does = "delete" -> {} [] OTHER -> stored

HookGoesOn ==
  /\ InHook /\ "on" \in Says(TheStep)
  /\ stored' = StoredAfter(TheStep.does)
  /\ call' = Seen([call EXCEPT !.at = @ + 1, !.wrote = @ \/ TheStep.does # "read"], stored')
  /\ UNCHANGED <<answering, turns, readFaults>>

HookSays ==
  /\ InHook
  /\ \E says \in Says(TheStep) \ {"on"} : call' = Result(Heard(says))
  /\ UNCHANGED <<stored, answering, turns, readFaults>>

\* The statement fails and has changed nothing.
StatementFails ==
  /\ InHook /\ TheStep.of \in call.named \cup {"rows"}
  /\ readFaults < MaxReadFaults /\ readFaults' = readFaults + 1
  /\ \E says \in TheStep.failed :
       call' = IF says = "on" THEN [call EXCEPT !.at = @ + 1, !.troubled = TRUE]
               ELSE [Result(Heard(says)) EXCEPT !.troubled = TRUE]
  /\ UNCHANGED <<stored, answering, turns>>

HookAnswers ==
  /\ call.pc = "serving" /\ call.at > Len(call.asker.hook.steps)
  /\ call' = Result("value")
  /\ UNCHANGED <<stored, answering, turns, readFaults>>

\* No configuration or token, no reply within ten seconds, a transport that breaks:
\* whatever the hook does, or has done, the asker has an error.
GiveUp ==
  /\ call.pc \in {"asked", "serving"}
  /\ readFaults < MaxReadFaults /\ readFaults' = readFaults + 1
  /\ call' = [Result("error") EXCEPT !.troubled = TRUE]
  /\ UNCHANGED <<stored, answering, turns>>

Forget ==
  /\ call.pc = "answered"
  /\ call' = NoCall
  /\ UNCHANGED <<stored, answering, turns, readFaults>>

-----------------------------------------------------------------------------
(* Around the call the store changes, and the daemon goes and comes.       *)
Turn == turns < MaxTurns /\ turns' = turns + 1

Becomes(now) ==
  /\ Turn
  /\ stored' = now
  /\ call' = IF call.pc \in {"asked", "serving"} THEN Seen(call, now) ELSE call
  /\ UNCHANGED <<answering, readFaults>>

\* A reload, a crawl, a rule or an inspection finds something new.
Appears(thing) == thing \notin stored /\ Possible(stored \cup {thing}) /\ Becomes(stored \cup {thing})
SegmentDropped == "segment" \in stored /\ Becomes(stored \ {"segment"})

\* Somebody else purges the site, unless the call is of those that exclude each other.
Purge ==
  /\ "site" \in stored
  /\ ~(call.pc = "serving" /\ call.asker.hook \in ConfigWriters)
  /\ Becomes({})

DaemonTurns(who) ==
  /\ Turn
  /\ answering # who /\ answering' = who
  /\ call' = IF call.pc = "serving" /\ call.asker.endpoint # Direct
             THEN [Result("error") EXCEPT !.troubled = TRUE] ELSE call
  /\ UNCHANGED <<stored, readFaults>>

ReadSurfaceNext ==
  \/ \E a \in Askers : \E flaw \in Refusals(a) \cup Answered(a) :
       \E omitted \in SUBSET a.handler.optional : Ask(a, flaw, NamedBy(a) \ omitted)
  \/ RefuseInput
  \/ NotServed
  \/ RunHook
  \/ HookGoesOn
  \/ HookSays
  \/ StatementFails
  \/ HookAnswers
  \/ GiveUp
  \/ Forget
  \/ \E thing \in Things : Appears(thing)
  \/ SegmentDropped
  \/ Purge
  \/ \E who \in {"daemon", "graphless", "another", "nobody"} : DaemonTurns(who)

ReadSurfaceSpec == ReadSurfaceInit /\ [][ReadSurfaceNext]_readVars

-----------------------------------------------------------------------------
\* The types.
ReadSurfaceTypeOK ==
  /\ stored \in SUBSET Things /\ Possible(stored)
  /\ answering \in {"daemon", "graphless", "another", "nobody"}
  /\ call.pc \in {"idle", "asked", "serving", "answered"}
  /\ call.asker \in Askers
  /\ call.named \in SUBSET NamedBy(call.asker)
  /\ call.at \in 1..Len(call.asker.hook.steps) + 1
  /\ call.outcome \in {"none", "value", "absent", "error"}
  /\ call.had \cup call.lacked = call.named
  /\ call.troubled \in BOOLEAN /\ call.wrote \in BOOLEAN
  /\ turns \in 0..MaxTurns /\ readFaults \in 0..MaxReadFaults

\* The exceptions of the code.  For these a page whose owner could not be read may be
\* one that is not found or that no site owns, and for those such a page has an empty answer.
FailureIsAbsence == {get_index_status, rabbot_gsc_status, rabbot_links}
AbsenceIsEmpty == {get_search_performance, rabbot_gsc_performance}

\* Nobody is told that a thing does not exist because a statement failed, the daemon
\* was down or a layer took one sign for another: it was missing at some moment of the
\* call.  Nobody gets a value of what was never there, for an input that some layer
\* refuses, or of a change that was not made; the few inputs that are replaced by a
\* default have its value.  And an error is an input that is refused, a failure, or, for
\* those who cannot say "not found", something missing or in the way.
HonestAnswer ==
  call.pc = "answered" =>
    /\ call.outcome = "absent" =>
         \/ call.lacked # {}
         \/ call.troubled /\ call.asker \in FailureIsAbsence
    /\ call.outcome = "value" =>
         /\ call.flaw \in Answered(call.asker)
         /\ Acts(call.asker) => call.wrote
         /\ call.named \ (IF call.asker \in AbsenceIsEmpty THEN {"site"} ELSE {}) \subseteq call.had
    /\ call.outcome = "error" =>
         \/ call.flaw \in Refusals(call.asker)
         \/ call.troubled
         \/ "absent" \notin call.asker.bridge /\ call.lacked # {}
         \/ call.asker.hook = AddSite /\ call.had # {}
=============================================================================
