-------------------------- MODULE IssueEngineProofs --------------------------
(***************************************************************************)
(* Proofs about IssueEngine, for any number of rules: a new finding is     *)
(* alerted or passed over once in an episode, and Apply reconciles the     *)
(* issues with the page.                                                   *)
(***************************************************************************)
EXTENDS IssueEngine, TLAPS

\* An issue that was decided on and that the before-list misses is ignored, and Apply
\* sees that it is, unless it is past the rule.  One that is open and was not has just
\* been opened, or the crawl that opened it was cut short.
Decided(r) == told[r] + passed[r]
ToldOK(r) ==
  /\ Decided(r) <= 1
  /\ Decided(r) = 1 => issues[r] \in {"open", "ignored"}
  /\ Decided(r) = 1 /\ stage \in {"list", "rule"} /\ r \notin wasOpen =>
       /\ issues[r] = "ignored"
       /\ stage = "rule" /\ rule <= r => listed[r] = "ignored"
  /\ stage = "alert" /\ r \in newly => Decided(r) = 0 /\ issues[r] \in {"open", "ignored"}
  /\ r \notin lost /\ issues[r] = "open" /\ Decided(r) = 0 =>
       \/ stage = "rule" /\ r \notin wasOpen
       \/ stage = "alert" /\ r \in newly
  /\ r \notin lost /\ r \in wasOpen /\ (stage = "list" \/ (stage = "rule" /\ rule <= r)) =>
       Decided(r) = 1

ToldInv == IssueTypeOK /\ \A r \in Rules : ToldOK(r)

\* Ahead of the rule nothing has been opened since the list; behind it the open
\* issues are failing rules, and the failing rules are open or ignored.
ReconciledAt(r) ==
  /\ rule <= r /\ issues[r] = "open" => listed[r] = "open"
  /\ rule <= r /\ listed[r] = "ignored" => issues[r] = "ignored"
  /\ r < rule /\ issues[r] = "open" => r \in failing
  /\ r < rule /\ r \in failing => issues[r] \in {"open", "ignored"}

ReconcileInv == IssueTypeOK /\ (stage = "rule" => \A r \in Rules : ReconciledAt(r))

-----------------------------------------------------------------------------
\* The initial state has the types.
LEMMA InitTypeOK == IssueInit => IssueTypeOK
<1> SUFFICES ASSUME IssueInit PROVE IssueTypeOK
  OBVIOUS
<1>1. rule \in 1..(NumRules + 1)
  BY EngineAssumption DEF IssueInit
<1> QED
  BY <1>1 DEF IssueInit, IssueTypeOK, Status

\* Every action keeps the types.
LEMMA TypeStep == IssueTypeOK /\ [IssueNext]_issueVars => IssueTypeOK'
<1> SUFFICES ASSUME IssueTypeOK, [IssueNext]_issueVars PROVE IssueTypeOK'
  OBVIOUS
<1> USE DEF IssueTypeOK, Status
<1>0. NumRules \in Nat
  BY EngineAssumption
<1>1. CASE \E fails \in SUBSET Rules : ListBefore(fails)
  BY <1>0, <1>1 DEF ListBefore, history, OpenIssues
<1>2. CASE ListExisting
  BY <1>0, <1>2 DEF ListExisting, history, Rules
<1>3. CASE ApplyRule
  <2>1. rule + 1 \in 1..(NumRules + 1)
    BY <1>0, <1>3 DEF ApplyRule, Rules
  <2>2. /\ issues' \in [Rules -> Status] /\ lost' \in SUBSET Rules
        /\ told' \in [Rules -> Nat] /\ passed' \in [Rules -> Nat]
    <3>1. CASE OpenIssue(rule)
      BY <3>1 DEF OpenIssue, history
    <3>2. CASE CloseIssue(rule)
      BY <3>2 DEF CloseIssue, history
    <3>3. CASE Keep
      BY <3>3 DEF Keep, history
    <3> QED
      BY <1>3, <3>1, <3>2, <3>3 DEF ApplyRule
  <2> QED
    BY <1>3, <2>1, <2>2 DEF ApplyRule
<1>4. CASE ListAfter
  BY <1>0, <1>4 DEF ListAfter, history, OpenIssues
<1>5. CASE \E r \in newly : AlertFinding(r) \/ PassOver(r)
  BY <1>0, <1>5 DEF AlertFinding, PassOver
<1>9. CASE AlertsDone
  BY <1>0, <1>9 DEF AlertsDone, LeaveApply, Rules, history
<1>6. CASE \E r \in Rules : IgnoreIssue(r)
  BY <1>0, <1>6 DEF IgnoreIssue, crawlVars, history
<1>7. CASE Abort
  <2>1. Unreported \in SUBSET Rules
    BY DEF Unreported, OpenIssues
  <2>2. 1 \in 1..(NumRules + 1)
    BY <1>0
  <2> QED
    BY <1>7, <2>1, <2>2 DEF Abort, LeaveApply
<1>8. CASE UNCHANGED issueVars
  BY <1>8 DEF issueVars, crawlVars, history
<1> QED
  BY <1>1, <1>2, <1>3, <1>4, <1>5, <1>6, <1>7, <1>8, <1>9 DEF IssueNext

\* The episodes: one step per action, for one rule at a time.
LEMMA ToldStep == ToldInv /\ [IssueNext]_issueVars => ToldInv'
<1> SUFFICES ASSUME ToldInv, [IssueNext]_issueVars, NEW r \in Rules PROVE ToldOK(r)'
  BY TypeStep DEF ToldInv
<1>0. IssueTypeOK /\ ToldOK(r) /\ NumRules \in Nat /\ r \in Nat
  BY EngineAssumption DEF ToldInv, Rules
<1> USE DEF IssueTypeOK, ToldOK, Status, Decided
<1>1. CASE \E fails \in SUBSET Rules : ListBefore(fails)
  BY <1>0, <1>1 DEF ListBefore, history, OpenIssues
<1>2. CASE ListExisting
  BY <1>0, <1>2 DEF ListExisting, history
<1>3. CASE ApplyRule
  <2>0. UNCHANGED <<stage, wasOpen, listed, newly>> /\ rule' = rule + 1
    BY <1>3 DEF ApplyRule
  <2>1. CASE rule = r
    <3>1. CASE OpenIssue(r) /\ listed[r] # "ignored"
      BY <1>0, <1>3, <2>0, <2>1, <3>1 DEF ApplyRule, OpenIssue, history
    <3>2. CASE CloseIssue(r)
      BY <1>0, <1>3, <2>0, <2>1, <3>2 DEF ApplyRule, CloseIssue, history
    <3>3. CASE Keep
      BY <1>0, <1>3, <2>0, <2>1, <3>3 DEF ApplyRule, Keep, history
    <3> QED
      BY <1>3, <2>1, <3>1, <3>2, <3>3 DEF ApplyRule
  <2>2. CASE rule # r
    <3>1. issues'[r] = issues[r] /\ told'[r] = told[r] /\ passed'[r] = passed[r] /\ (r \in lost' <=> r \in lost)
      BY <1>0, <1>3, <2>2 DEF ApplyRule, OpenIssue, CloseIssue, Keep, history
    <3> QED
      BY <1>0, <2>0, <2>2, <3>1
  <2> QED
    BY <2>1, <2>2
<1>4. CASE ListAfter
  BY <1>0, <1>4 DEF ListAfter, history, OpenIssues
<1>5. ASSUME NEW s \in newly, AlertFinding(s) \/ PassOver(s) PROVE ToldOK(r)'
  <2>1. CASE s = r
    BY <1>0, <1>5, <2>1 DEF AlertFinding, PassOver
  <2>2. CASE s # r
    <3>1. told'[r] = told[r] /\ passed'[r] = passed[r] /\ (r \in newly' <=> r \in newly)
      BY <1>0, <1>5, <2>2 DEF AlertFinding, PassOver
    <3>2. UNCHANGED <<issues, stage, wasOpen, listed, rule, lost>>
      BY <1>5 DEF AlertFinding, PassOver
    <3> QED
      BY <1>0, <3>1, <3>2
  <2> QED
    BY <2>1, <2>2
<1>9. CASE AlertsDone
  BY <1>0, <1>9 DEF AlertsDone, LeaveApply, history
<1>6. CASE \E s \in Rules : IgnoreIssue(s)
  BY <1>0, <1>6 DEF IgnoreIssue, crawlVars, history
<1>7. CASE Abort
  BY <1>0, <1>7 DEF Abort, LeaveApply, Unreported, OpenIssues
<1>8. CASE UNCHANGED issueVars
  BY <1>0, <1>8 DEF issueVars, crawlVars, history
<1> QED
  BY <1>1, <1>2, <1>3, <1>4, <1>5, <1>6, <1>7, <1>8, <1>9 DEF IssueNext

\* The reconciliation: one step per action, for one rule at a time.
LEMMA ReconcileStep == ReconcileInv /\ [IssueNext]_issueVars => ReconcileInv'
<1> SUFFICES ASSUME ReconcileInv, [IssueNext]_issueVars, stage' = "rule", NEW r \in Rules
             PROVE ReconciledAt(r)'
  BY TypeStep DEF ReconcileInv
<1>0. IssueTypeOK /\ NumRules \in Nat /\ r \in Nat
  BY EngineAssumption DEF ReconcileInv, Rules
<1> USE DEF IssueTypeOK, ReconciledAt, Status
<1>1. CASE \E fails \in SUBSET Rules : ListBefore(fails)
  BY <1>1 DEF ListBefore
<1>2. CASE ListExisting
  BY <1>0, <1>2 DEF ListExisting, history, Rules
<1>3. CASE ApplyRule
  <2>0. ReconciledAt(r)
    BY <1>3 DEF ApplyRule, ReconcileInv
  <2>1. CASE rule = r
    BY <1>0, <1>3, <2>0, <2>1 DEF ApplyRule, OpenIssue, CloseIssue, Keep
  <2>2. CASE rule # r
    <3>1. issues'[r] = issues[r]
      BY <1>0, <1>3, <2>2 DEF ApplyRule, OpenIssue, CloseIssue, Keep
    <3>2. UNCHANGED <<failing, listed>> /\ rule' = rule + 1
      BY <1>3 DEF ApplyRule
    <3> QED
      BY <1>0, <2>0, <2>2, <3>1, <3>2
  <2> QED
    BY <2>1, <2>2
<1>4. CASE ListAfter
  BY <1>4 DEF ListAfter
<1>5. CASE \E s \in newly : AlertFinding(s) \/ PassOver(s)
  BY <1>5 DEF AlertFinding, PassOver
<1>9. CASE AlertsDone
  BY <1>9 DEF AlertsDone, LeaveApply
<1>6. CASE \E s \in Rules : IgnoreIssue(s)
  BY <1>0, <1>6 DEF IgnoreIssue, crawlVars, history, ReconcileInv
<1>7. CASE Abort
  BY <1>7 DEF Abort, LeaveApply
<1>8. CASE UNCHANGED issueVars
  BY <1>8 DEF issueVars, crawlVars, history, ReconcileInv
<1> QED
  BY <1>1, <1>2, <1>3, <1>4, <1>5, <1>6, <1>7, <1>8, <1>9 DEF IssueNext

-----------------------------------------------------------------------------
\* While an issue stays open it is alerted or passed over once, whatever the operator
\* ignores and whichever crawls are cut short, and at least once unless the crawl that
\* opened it is one of them (ApplyRules, Engine.Apply, ProcessFetch).
THEOREM OncePerEpisodeCorrect == IssueSpec => []OncePerEpisode
<1>1. IssueInit => ToldInv
  <2> SUFFICES ASSUME IssueInit PROVE IssueTypeOK /\ \A r \in Rules : ToldOK(r)
    BY DEF ToldInv
  <2>1. IssueTypeOK
    BY InitTypeOK
  <2>2. ASSUME NEW r \in Rules PROVE ToldOK(r)
    BY DEF IssueInit, ToldOK, Decided
  <2> QED
    BY <2>1, <2>2
<1>2. ToldInv => OncePerEpisode
  <2> SUFFICES ASSUME ToldInv, NEW r \in Rules
               PROVE  /\ told[r] + passed[r] <= 1
                      /\ stage = "idle" /\ r \in OpenIssues \ lost => told[r] + passed[r] = 1
    BY DEF OncePerEpisode, OpenIssues
  <2>1. told[r] \in Nat /\ passed[r] \in Nat /\ ToldOK(r)
    BY DEF ToldInv, IssueTypeOK
  <2> QED
    BY <2>1 DEF ToldOK, Decided, OpenIssues
<1> QED
  BY <1>1, <1>2, ToldStep, PTL DEF IssueSpec

\* When Apply has gone through the rules, the open issues are failing rules and
\* the failing rules are open or ignored (Engine.Apply against IgnoreIssue).
THEOREM ReconciledCorrect == IssueSpec => []Reconciled
<1>1. IssueInit => ReconcileInv
  BY InitTypeOK DEF IssueInit, ReconcileInv
<1>2. ReconcileInv => Reconciled
  <2> SUFFICES ASSUME ReconcileInv, stage = "rule", rule \notin Rules
               PROVE /\ OpenIssues \subseteq failing
                     /\ \A r \in failing : issues[r] \in {"open", "ignored"}
    BY DEF Reconciled
  <2>1. \A r \in Rules : r < rule
    BY EngineAssumption DEF ReconcileInv, IssueTypeOK, Rules
  <2> QED
    BY <2>1 DEF ReconcileInv, ReconciledAt, OpenIssues, IssueTypeOK
<1> QED
  BY <1>1, <1>2, ReconcileStep, PTL DEF IssueSpec
=============================================================================
