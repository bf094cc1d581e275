---------------------------- MODULE MCSiteWatch ----------------------------
(***************************************************************************)
(* What the daemon notices about a site and keeps of it, for TLC: the      *)
(* sitemap watch, the link graph, the issue engine, the snapshots under    *)
(* the retention sweep, the segments and the health scores.  A behaviour   *)
(* is about one of them, its focus, and the others stay in their initial   *)
(* states, so that their state spaces add up.  The constraints bound how   *)
(* many crawls, sweeps and mishaps of the link graph and how many changes  *)
(* and troubles of the sitemap come together, let one page of the sitemap  *)
(* be crawled, and keep apart, in the retention sweep, what does not       *)
(* interact: many snapshots, many file snapshots, sweeps that overlap and  *)
(* a clock that is set back.                                               *)
(***************************************************************************)
EXTENDS SitemapWatch, LinkGraph, IssueEngine, Retention, Segments, Health, TLC

VARIABLE focus

McDocs == {"index", "posts", "pages"}
McChildren == [index |-> <<"pages", "posts">>, posts |-> <<>>, pages |-> <<>>]
McSeeds == <<"index", "index">>
McLocs == {"a", "b", "c"}
McCanonical == [u \in McLocs |-> u]
McContents == [index |-> {{}}, posts |-> {{"a"}, {"a", "c"}}, pages |-> {{"b"}}]

McNodes == {"home", "a", "b"}
McOutLinks == [home |-> {{"a", "b"}, {"a"}}, a |-> {{"b"}, {}}, b |-> {{"home"}}]

McSegPages == {"home", "post"}
McSegConfigs ==
  {"blog" :> {"post"}, "blog" :> {"home", "post"}, ("blog" :> {"home"}) @@ ("shop" :> {"post"})}

McImpact == [noindex |-> 3, title |-> 1]

FewTogether ==
  /\ syncs + sweeps + mishaps <= 4
  /\ edits + breaks + outages + faultsSeen <= 2
  /\ Cardinality(crawled) <= 1

OneThing ==
  /\ serial.rows > 1 => serial.files = 0
  /\ Cardinality({s \in Pruners : prune[s].pc # "idle"}) > 1 =>
       backs = 0 /\ serial.files = 0 /\ serial.rows <= 2

SuiteInit ==
  /\ focus \in {"sitemap", "links", "issues", "snapshots", "segments", "health"}
  /\ SitemapInit
  /\ LinkGraphInit
  /\ IssueInit
  /\ RetentionInit
  /\ SegmentsInit
  /\ focus # "sitemap" => content["pages"] = {"b"} /\ content["posts"] = {"a"}
  /\ focus # "segments" => segConfig = "blog" :> {"post"}
  /\ HealthInit

SuiteNext ==
  /\ UNCHANGED focus
  /\ \/ /\ focus = "sitemap" /\ SitemapNext
        /\ UNCHANGED <<graphVars, issueVars, retentionVars, segmentVars, healthVars>>
     \/ /\ focus = "links" /\ LinkGraphNext
        /\ UNCHANGED <<sitemapVars, issueVars, retentionVars, segmentVars, healthVars>>
     \/ /\ focus = "issues" /\ IssueNext
        /\ UNCHANGED <<sitemapVars, graphVars, retentionVars, segmentVars, healthVars>>
     \/ /\ focus = "snapshots" /\ RetentionNext
        /\ UNCHANGED <<sitemapVars, graphVars, issueVars, segmentVars, healthVars>>
     \/ /\ focus = "segments" /\ SegmentsNext
        /\ UNCHANGED <<sitemapVars, graphVars, issueVars, retentionVars, healthVars>>
     \/ /\ focus = "health" /\ HealthNext
        /\ UNCHANGED <<sitemapVars, graphVars, issueVars, retentionVars, segmentVars>>

SuiteVars == <<focus, sitemapVars, graphVars, issueVars, retentionVars, segmentVars, healthVars>>

SuiteSpec == SuiteInit /\ [][SuiteNext]_SuiteVars

\* One of the parts alone.
SitemapOnly == SuiteInit /\ focus = "sitemap" /\ [][SuiteNext]_SuiteVars
IssuesOnly == SuiteInit /\ focus = "issues" /\ [][SuiteNext]_SuiteVars

SuiteTypeOK ==
  /\ SitemapTypeOK
  /\ LinkGraphTypeOK
  /\ IssueTypeOK
  /\ RetentionTypeOK
  /\ SegmentsTypeOK
  /\ HealthTypeOK
=============================================================================
