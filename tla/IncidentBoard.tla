---------------------------- MODULE IncidentBoard ----------------------------
(***************************************************************************)
(* What the alert pipeline promises: one board entry per incident identity *)
(* that is either closed, or open with the set of pages still broken.  A   *)
(* report or a recovery is one atomic step, whatever the number of crawl   *)
(* workers; an entry closes with its last page, or by expiring.  Only a    *)
(* fault (a failed store call, a crash) may leave an entry open that       *)
(* tracks no page.  IncidentPipeline is shown to implement this module.    *)
(***************************************************************************)
EXTENDS Naturals

CONSTANTS Fingerprints, SiteLevel, URLs, NoURL, Faults

VARIABLES
  open,    \* the identities with an open incident
  broken   \* the pages each identity tracks as still broken

boardVars == <<open, broken>>

Init ==
  /\ open = {}
  /\ broken = [fp \in Fingerprints |-> {}]

\* A page is seen failing: the incident is open and tracks it.
Report(fp, url) ==
  /\ url = NoURL <=> fp \in SiteLevel
  /\ open' = open \cup {fp}
  /\ broken' = [broken EXCEPT ![fp] = @ \cup ({url} \ {NoURL})]

\* A page has recovered: the incident closes with its last page.
Recover(fp, url) ==
  /\ fp \in open
  /\ broken' = [broken EXCEPT ![fp] = @ \ {url}]
  /\ open' = IF broken[fp] \ {url} = {} THEN open \ {fp} ELSE open

Expire(fp) ==
  /\ fp \in open
  /\ open' = open \ {fp}
  /\ broken' = [broken EXCEPT ![fp] = {}]

\* Operations cut short: some leave an empty incident open, some lose the
\* accrual that would have kept an expired incident open.
Torn(stranded, expired) ==
  /\ Faults
  /\ stranded \cap open = {}
  /\ expired \subseteq open
  /\ open' = (open \cup stranded) \ expired
  /\ broken' = [fp \in Fingerprints |-> IF fp \in expired THEN {} ELSE broken[fp]]

Whole ==
  \/ \E fp \in Fingerprints, url \in URLs \cup {NoURL} : Report(fp, url)
  \/ \E fp \in Fingerprints, url \in URLs : Recover(fp, url)
  \/ \E fp \in Fingerprints : Expire(fp)

Next ==
  \/ Whole
  \/ \E stranded, expired \in SUBSET Fingerprints : Torn(stranded, expired)

Spec == Init /\ [][Next]_boardVars
=============================================================================
