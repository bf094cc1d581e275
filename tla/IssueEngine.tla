----------------------------- MODULE IssueEngine -----------------------------
(***************************************************************************)
(* The issues of one page: Engine.Apply (internal/rules/engine.go) inside  *)
(* procDeps.ApplyRules (internal/supervisor/wiring.go), over the issues    *)
(* table (internal/store/issues.go), with an operator who ignores issues   *)
(* through the control socket while crawls run.                            *)
(*                                                                         *)
(* A crawl lists the open issues, lists all the issues, goes through the   *)
(* rules in order with one transaction each, and lists the open issues     *)
(* again: what is open now and was not before is a new finding, which      *)
(* ProcessFetch alerts or passes over.  The daemon does not crawl a page   *)
(* twice at once.  Store calls may fail and the process may crash at any   *)
(* step.                                                                   *)
(*                                                                         *)
(* A definition named X_Y is X with the defect Y: the checks put it in the *)
(* place of X to show that a property can fail.                            *)
(***************************************************************************)
EXTENDS Naturals

CONSTANT NumRules  \* the rule set is 1..NumRules, in the order of DefaultRuleSet

ASSUME EngineAssumption == NumRules \in Nat

Rules == 1..NumRules

VARIABLES
  issues,    \* the status of the issue of each rule, "none" without a row
  stage,        \* the step the crawl is about to take
  failing,   \* the rules that fail on the page just fetched
  wasOpen,   \* the issues that were open before Apply
  listed,    \* the statuses Apply has read
  rule,      \* the rule Apply is at
  newly,     \* the new findings ProcessFetch has not gone through yet
  told,      \* history: how often each issue was alerted since it was last closed
  passed,    \* history: how often it was passed over as a new finding since then
  lost       \* history: the issues whose finding a crawl that was cut short lost

crawlVars == <<failing, wasOpen, listed, rule, newly>>
history == <<told, passed, lost>>
issueVars == <<issues, stage, crawlVars, history>>

-----------------------------------------------------------------------------
Status == {"none", "open", "closed", "ignored"}
OpenIssues == {r \in Rules : issues[r] = "open"}

IssueInit ==
  /\ issues = [r \in Rules |-> "none"]
  /\ stage = "idle"
  /\ failing = {}
  /\ wasOpen = {}
  /\ listed = [r \in Rules |-> "none"]
  /\ rule = 1
  /\ newly = {}
  /\ told = [r \in Rules |-> 0]
  /\ passed = [r \in Rules |-> 0]
  /\ lost = {}

\* ApplyRules, for a page on which just these rules fail.
ListBefore(fails) ==
  /\ stage = "idle"
  /\ failing' = fails
  /\ wasOpen' = OpenIssues
  /\ stage' = "list"
  /\ UNCHANGED <<issues, listed, rule, newly, history>>

ListExisting_FromZero ==
  /\ stage = "list"
  /\ listed' = issues
  /\ rule' = 0
  /\ stage' = "rule"
  /\ UNCHANGED <<issues, failing, wasOpen, newly, history>>

ListExisting ==
  /\ stage = "list"
  /\ listed' = issues
  /\ rule' = 1
  /\ stage' = "rule"
  /\ UNCHANGED <<issues, failing, wasOpen, newly, history>>

\* UpsertIssue: the row is open, whatever it was.
OpenIssue(r) ==
  /\ issues' = [issues EXCEPT ![r] = "open"]
  /\ UNCHANGED history

\* CloseIssue: only an open row is closed, which ends the episode.
CloseIssue(r) ==
  IF issues[r] = "open"
  THEN /\ issues' = [issues EXCEPT ![r] = "closed"]
       /\ told' = [told EXCEPT ![r] = 0]
       /\ passed' = [passed EXCEPT ![r] = 0]
       /\ lost' = lost \ {r}
  ELSE UNCHANGED <<issues, history>>

Keep == UNCHANGED <<issues, history>>

ApplyRule_KeepsOpen ==
  /\ stage = "rule"
  /\ rule \in Rules
  /\ \/ rule \in failing /\ listed[rule] = "ignored" /\ Keep
     \/ rule \in failing /\ listed[rule] # "ignored" /\ OpenIssue(rule)
     \/ rule \notin failing /\ listed[rule] = "ignored" /\ CloseIssue(rule)
     \/ rule \notin failing /\ listed[rule] # "ignored" /\ Keep
  /\ rule' = rule + 1
  /\ UNCHANGED <<stage, failing, wasOpen, listed, newly>>

ApplyRule ==
  /\ stage = "rule"
  /\ rule \in Rules
  /\ \/ rule \in failing /\ listed[rule] = "ignored" /\ Keep
     \/ rule \in failing /\ listed[rule] # "ignored" /\ OpenIssue(rule)
     \/ rule \notin failing /\ listed[rule] \in {"open", "ignored"} /\ CloseIssue(rule)
     \/ rule \notin failing /\ listed[rule] \notin {"open", "ignored"} /\ Keep
  /\ rule' = rule + 1
  /\ UNCHANGED <<stage, failing, wasOpen, listed, newly>>

ListAfter_AllOpen ==
  /\ stage = "rule"
  /\ rule \notin Rules
  /\ newly' = OpenIssues
  /\ stage' = "alert"
  /\ UNCHANGED <<issues, failing, wasOpen, listed, rule, history>>

ListAfter ==
  /\ stage = "rule"
  /\ rule \notin Rules
  /\ newly' = OpenIssues \ wasOpen
  /\ stage' = "alert"
  /\ UNCHANGED <<issues, failing, wasOpen, listed, rule, history>>

\* The end of ApplyRules, or of the crawl: its locals are gone.
LeaveApply ==
  /\ stage' = "idle"
  /\ failing' = {}
  /\ wasOpen' = {}
  /\ listed' = [r \in Rules |-> "none"]
  /\ rule' = 1
  /\ newly' = {}

\* ProcessFetch hands a new finding to the alert pipeline.
AlertFinding(r) ==
  /\ stage = "alert"
  /\ r \in newly
  /\ newly' = newly \ {r}
  /\ told' = [told EXCEPT ![r] = @ + 1]
  /\ UNCHANGED <<issues, stage, failing, wasOpen, listed, rule, passed, lost>>

\* Or it does not: a finding of the lowest tier, one that is no breakage on the first
\* crawl of the page, one whose field this crawl has alerted already or that is folded
\* into such an alert, a text that was too long before this crawl.
PassOver(r) ==
  /\ stage = "alert"
  /\ r \in newly
  /\ newly' = newly \ {r}
  /\ passed' = [passed EXCEPT ![r] = @ + 1]
  /\ UNCHANGED <<issues, stage, failing, wasOpen, listed, rule, told, lost>>

AlertsDone ==
  /\ stage = "alert"
  /\ newly = {}
  /\ LeaveApply
  /\ UNCHANGED <<issues, history>>

\* IgnoreIssue, by the operator at any moment: any row can be ignored.
IgnoreIssue(r) ==
  /\ issues[r] # "none"
  /\ issues' = [issues EXCEPT ![r] = "ignored"]
  /\ UNCHANGED <<stage, crawlVars, history>>

\* What has been opened in this crawl and not been gone through.
Unreported == IF stage = "alert" THEN newly ELSE OpenIssues \ wasOpen

\* A failed store call ends ApplyRules with an error, and the findings it would have
\* returned are no longer new at the next crawl; the same goes for a crash.
Abort ==
  /\ stage # "idle"
  /\ lost' = lost \cup Unreported
  /\ LeaveApply
  /\ UNCHANGED <<issues, told, passed>>

-----------------------------------------------------------------------------
IssueNext ==
  \/ \E fails \in SUBSET Rules : ListBefore(fails)
  \/ ListExisting
  \/ ApplyRule
  \/ ListAfter
  \/ \E r \in newly : AlertFinding(r) \/ PassOver(r)
  \/ AlertsDone
  \/ \E r \in Rules : IgnoreIssue(r)
  \/ Abort

IssueSpec == IssueInit /\ [][IssueNext]_issueVars

-----------------------------------------------------------------------------
IssueTypeOK ==
  /\ issues \in [Rules -> Status]
  /\ stage \in {"idle", "list", "rule", "alert"}
  /\ failing \in SUBSET Rules
  /\ wasOpen \in SUBSET Rules
  /\ listed \in [Rules -> Status]
  /\ rule \in 1..(NumRules + 1)
  /\ newly \in SUBSET Rules
  /\ told \in [Rules -> Nat]
  /\ passed \in [Rules -> Nat]
  /\ lost \in SUBSET Rules

\* While an issue stays open it is alerted at most once, on the crawl that opened it,
\* and never when it was passed over there: over any number of crawls, of crawls cut
\* short and of attempts to ignore it ("no re-alert", Engine.Apply).  Between crawls
\* every open issue has been alerted or passed over, but those whose own crawl was
\* cut short: their finding is lost for as long as they stay open.
OncePerEpisode ==
  /\ \A r \in Rules : told[r] + passed[r] <= 1
  /\ stage = "idle" => \A r \in OpenIssues \ lost : told[r] + passed[r] = 1

\* When Apply has gone through the rules, the open issues are failing rules and
\* every failing rule is open or silenced, although the operator may have
\* ignored issues between the list and the writes.
Reconciled ==
  stage = "rule" /\ rule \notin Rules =>
    /\ OpenIssues \subseteq failing
    /\ \A r \in failing : issues[r] \in {"open", "ignored"}

\* What Engine.Apply says of its two lists: a rule that passes closes its issue,
\* ignored or not.  CloseIssue touches only open rows.
PassingIsClosed ==
  stage = "alert" => \A r \in Rules \ failing : listed[r] = "ignored" => issues[r] # "ignored"
=============================================================================
