------------------------- MODULE PageMonitorProofs -------------------------
(***************************************************************************)
(* Proofs about one page under watch and the politeness gate of its host,  *)
(* for any set of pages the site may serve, any number of crawls, slots    *)
(* and faults, and any rates.                                              *)
(*                                                                         *)
(* The inductive invariant of the page says for each step of a crawl which *)
(* snapshot the change history, the events and the incidents account for:  *)
(* the one before until the changes are recorded and alerted, the new one  *)
(* from then on.  That of the gate relates the tokens of the limiter to    *)
(* the ticks since the last request and to what those who wait have left,  *)
(* and bounds what is owed by what those who wait can still ask for.       *)
(***************************************************************************)
EXTENDS MCPage, FiniteSetTheorems, TLAPS

-----------------------------------------------------------------------------
(* The steps of a crawl and what they account for.                         *)

\* The steps of a crawl between the save of its snapshot and the schedule row.
Processing == {"gate", "record", "rules", "emit", "resolve"}
Untouched  == {"idle", "notModified", "save"}

Told(p) == /\ ~Healthy(p) => \E e \in told : e.sev = "critical"
           /\ IsError(p) => Critical("http_status") \in told

NotFlipped == Critical("indexable") \notin incidents

\* A finding as ApplyRules makes it.
FindingOf(x, n, o) ==
  \E r \in Rules : Verdict(n, o)[r] # "pass" /\ x = [type |-> BridgeField[r], sev |-> Verdict(n, o)[r]]

\* What the locals of a crawl have to do with the tables.
Underway ==
  /\ pc \in {"save"} \cup Processing => new \in Pages
  /\ pc \in Processing => snap = new
  /\ snap = NoPage <=> logged = NoPage
  /\ pc = "emit" => \A x \in findings : FindingOf(x, new, old)

\* The change history is one snapshot behind until the changes are recorded.
Replayed ==
  /\ pc \in Untouched \cup {"rules", "emit", "resolve", "schedule"} => logged = snap
  /\ pc \in {"gate", "record"} => logged = IF old = NoPage THEN new ELSE old

\* What has been told accounts for the last snapshot that was alerted on.
Accounted ==
  /\ baseline => snap # NoPage
  /\ baseline /\ pc \in {"gate", "record", "rules", "emit"} => old # NoPage /\ Told(old)
  /\ baseline /\ pc \in Untouched \cup {"resolve", "schedule"} => Told(snap)

\* The incident of an indexable page is there only while it is about to be resolved.
Unflipped ==
  /\ pc \in Untouched \cup {"schedule"} /\ (snap = NoPage \/ Indexable(snap)) => NotFlipped
  /\ pc \in {"gate", "record", "rules", "emit"} /\ (old = NoPage \/ Indexable(old)) => NotFlipped
  /\ pc = "resolve" /\ Indexable(new) /\ ~NotFlipped => old # NoPage /\ ~Indexable(old)

PageInv ==
  /\ TypeOK
  /\ Underway
  /\ OneAlertPerCause
  /\ faults = 0 => Replayed /\ Accounted /\ Unflipped

-----------------------------------------------------------------------------
\* The diff, the rules and the events.

LEMMA PageShape ==
  /\ NoPage \notin PageType /\ NoPage \notin Pages /\ BlockPage # NoPage
  /\ Pages \subseteq PageType
  /\ \A p \in PageType : /\ p.status \in {200, 301, 404, 500} /\ p.robots \in {"none", "snippet", "noindex"}
                         /\ p.canonical \in {"self", "away", "none"}
                         /\ Indexable(p) => p.status = 200 /\ p.robots # "noindex" /\ p.canonical # "away"
                         /\ Healthy(p) <=> Indexable(p)
                         /\ IsError(p) <=> p.status \in {404, 500}
BY MonitorAssumption DEF PageType, Indexable, Reason, Healthy, IsError

\* The fields that a diff reports are those that differ.
LEMMA ChangesAre ==
  ASSUME NEW n \in PageType, NEW o \in PageType
  PROVE  /\ "http_status" \in Changes(n, o) <=> n.status # o.status
         /\ "meta_robots" \in Changes(n, o) <=> n.robots # o.robots
         /\ "canonical" \in Changes(n, o) <=> n.canonical # o.canonical
         /\ "indexable" \in Changes(n, o) <=> (Indexable(n) # Indexable(o))
         /\ Changes(n, o) \subseteq Fields
BY PageShape DEF Changes, Value, Fields

LEMMA ChangesNone == ASSUME NEW n PROVE Changes(n, NoPage) = {}
BY DEF Changes

\* A finding is about one of four fields; it is critical unless the page was gone before.
LEMMA FindingShape ==
  ASSUME NEW n \in PageType, NEW o \in PageType \cup {NoPage}, NEW x, FindingOf(x, n, o)
  PROVE  /\ x \in Finding /\ x.type \in {"http_status", "indexable", "meta_robots", "canonical"}
         /\ x.type = "http_status" => IsError(n)
         /\ x.type = "indexable" => x = Critical("indexable") /\ o # NoPage /\ Indexable(o) /\ ~Indexable(n)
         /\ x.type = "canonical" => x = Critical("canonical")
<1> DEFINE v == Verdict(n, o)
<1>1. /\ v["status_regression"] = StatusRegression(n, o)
      /\ v["indexability_flip"] = IF o # NoPage /\ Indexable(o) /\ ~Indexable(n) THEN "critical" ELSE "pass"
      /\ v["meta_robots_noindex"] = IF n.robots = "noindex" THEN "critical" ELSE "pass"
      /\ v["canonical_changed"] = IF n.canonical = "none" \/ "canonical" \in Changes(n, o) THEN "critical" ELSE "pass"
  BY DEF Verdict
<1>2. /\ StatusRegression(n, o) \in {"pass", "critical", "warning"}
      /\ StatusRegression(n, o) # "pass" => IsError(n)
  BY PageShape DEF StatusRegression
<1>3. /\ BridgeField["status_regression"] = "http_status" /\ BridgeField["indexability_flip"] = "indexable"
      /\ BridgeField["meta_robots_noindex"] = "meta_robots" /\ BridgeField["canonical_changed"] = "canonical"
  BY DEF BridgeField
<1> HIDE DEF v
<1>4. PICK r \in Rules : v[r] # "pass" /\ x = [type |-> BridgeField[r], sev |-> v[r]]
  BY DEF FindingOf, v
<1>5. CASE r = "status_regression"
  BY <1>1, <1>2, <1>3, <1>4, <1>5 DEF Finding, Fields
<1>6. CASE r = "indexability_flip"
  BY <1>1, <1>3, <1>4, <1>6 DEF Finding, Fields, Critical
<1>7. CASE r = "meta_robots_noindex"
  BY <1>1, <1>3, <1>4, <1>7 DEF Finding, Fields
<1>8. CASE r = "canonical_changed"
  BY <1>1, <1>3, <1>4, <1>8 DEF Finding, Fields, Critical
<1> QED
  BY <1>4, <1>5, <1>6, <1>7, <1>8 DEF Rules

\* What is streamed: the changes that stand for themselves, as critical events.
LEMMA StreamedAre ==
  /\ \A f \in Changes(new, old) : ~Folded(f) /\ ~Benign(f) => Critical(f) \in Streamed
  /\ \A e \in Streamed : \E f \in Changes(new, old) : ~Folded(f) /\ ~Benign(f) /\ e = Critical(f)
  /\ \A f : Critical(f).type = f /\ Critical(f).sev = "critical"
BY DEF Streamed, Critical

LEMMA BridgedAre ==
  \A x \in Bridged : x \in findings /\ (\A e \in Streamed : e.type # x.type) /\ ~Folded(x.type)
                     /\ (old = NoPage => x.type = "http_status")
BY DEF Bridged

\* The events of a crawl are identities.
LEMMA EventsTyped ==
  ASSUME TypeOK, new \in Pages
  PROVE  Streamed \cup Bridged \subseteq Identity
<1>1. Changes(new, old) \subseteq Fields
  BY DEF Changes
<1>2. \A f \in Fields : Critical(f) \in Identity
  BY DEF Critical, Identity
<1>3. Streamed \subseteq Identity
  BY <1>1, <1>2, StreamedAre
<1>4. Finding \subseteq Identity
  BY DEF Finding, Identity
<1> QED
  BY <1>3, <1>4, BridgedAre DEF TypeOK

\* A crawl whose events all arrive accounts for the page it has seen.
LEMMA EventsAccount ==
  ASSUME new \in PageType, old \in PageType, Told(old), told' = told \cup Streamed \cup Bridged
  PROVE  /\ ~Healthy(new) => \E e \in told' : e.sev = "critical"
         /\ IsError(new) => Critical("http_status") \in told'
<1>1. ASSUME IsError(new), ~IsError(old) PROVE Critical("http_status") \in Streamed
  <2>1. "http_status" \in Changes(new, old)
    BY <1>1, PageShape, ChangesAre
  <2>2. ~Folded("http_status") /\ ~Benign("http_status")
    BY DEF Folded, Benign
  <2> QED
    BY <2>1, <2>2, StreamedAre
<1>2. ASSUME ~Healthy(new), Healthy(old), ~IsError(new) PROVE Critical("indexable") \in Streamed
  <2>1. "indexable" \in Changes(new, old)
    BY <1>2, PageShape, ChangesAre
  <2>2. ~Folded("indexable") /\ ~Benign("indexable")
    BY <1>2 DEF Folded, Benign
  <2> QED
    BY <2>1, <2>2, StreamedAre
<1>3. Healthy(old) => ~IsError(old)
  BY PageShape
<1>4. Streamed \subseteq told' /\ told \subseteq told'
  OBVIOUS
<1>5. IsError(new) => Critical("http_status") \in told'
  BY <1>1, <1>4 DEF Told
<1>6. ASSUME ~Healthy(new) PROVE \E e \in told' : e.sev = "critical"
  <2>1. CASE ~Healthy(old)
    BY <1>4, <2>1 DEF Told
  <2>2. CASE Healthy(old)
    BY <1>1, <1>2, <1>3, <1>4, <1>6, <2>2, StreamedAre
  <2> QED
    BY <2>1, <2>2
<1> QED
  BY <1>5, <1>6

\* A page that stays in the index, or is seen for the first time, is no event about it.
LEMMA NoFlipEvent ==
  ASSUME new \in PageType, old \in PageType \cup {NoPage}, Indexable(new), old = NoPage \/ Indexable(old),
         \A x \in findings : FindingOf(x, new, old)
  PROVE  Critical("indexable") \notin Streamed \cup Bridged
<1>1. "indexable" \notin Changes(new, old)
  BY ChangesAre, ChangesNone
<1>2. Critical("indexable") \notin Streamed
  <2> SUFFICES ASSUME Critical("indexable") \in Streamed PROVE FALSE
    OBVIOUS
  <2>1. PICK f \in Changes(new, old) : Critical("indexable") = Critical(f)
    BY StreamedAre
  <2>2. f = "indexable"
    BY <2>1, StreamedAre
  <2> QED
    BY <1>1, <2>1, <2>2
<1>3. Critical("indexable") \notin Bridged
  <2>1. Critical("indexable") \in Bridged => FindingOf(Critical("indexable"), new, old)
    BY BridgedAre
  <2> QED
    BY <2>1, FindingShape, StreamedAre
<1> QED
  BY <1>2, <1>3

\* A healthy page that fails is told once, by the event that names the cause.
LEMMA EventsPerCause ==
  ASSUME new \in PageType, old \in PageType, Healthy(old), \A x \in findings : FindingOf(x, new, old)
  PROVE  /\ IsError(new) => Streamed \cup Bridged \subseteq {Critical("http_status")}
         /\ new.status = 200 /\ ~Indexable(new) =>
              Streamed \cup Bridged \subseteq {Critical("indexable"), Critical("canonical")}
<1>1. ~Indexable(new) => "indexable" \in Changes(new, old)
  BY ChangesAre, PageShape
<1>2. ASSUME IsError(new) PROVE Streamed \cup Bridged \subseteq {Critical("http_status")}
  <2>1. ~Indexable(new) /\ "http_status" \in Changes(new, old)
    BY <1>2, ChangesAre, PageShape
  <2>2. /\ Folded("meta_robots") /\ Folded("indexability_reason") /\ Folded("indexable") /\ Folded("canonical")
        /\ ~Folded("http_status") /\ ~Benign("http_status")
    BY <1>1, <1>2, <2>1 DEF Folded, Benign
  <2>3. Critical("http_status") \in Streamed
    BY <2>1, <2>2, StreamedAre
  <2>4. ASSUME NEW e \in Streamed PROVE e = Critical("http_status")
    <3>1. PICK f \in Changes(new, old) : ~Folded(f) /\ e = Critical(f)
      BY StreamedAre
    <3>2. f = "http_status"
      BY <2>2, <3>1, ChangesAre DEF Fields
    <3> QED
      BY <3>1, <3>2
  <2>5. ASSUME NEW x \in Bridged PROVE FALSE
    <3>1. /\ x.type \in {"http_status", "indexable", "meta_robots", "canonical"}
          /\ ~Folded(x.type) /\ \A e \in Streamed : e.type # x.type
      BY BridgedAre, FindingShape
    <3> QED
      BY <2>2, <2>3, <3>1, StreamedAre
  <2> QED
    BY <2>4, <2>5
<1>3. ASSUME new.status = 200, ~Indexable(new)
      PROVE  Streamed \cup Bridged \subseteq {Critical("indexable"), Critical("canonical")}
  <2>1. "http_status" \notin Changes(new, old) /\ ~IsError(new)
    BY <1>3, ChangesAre, PageShape
  <2>2. Folded("meta_robots") /\ Folded("indexability_reason")
    BY <1>1, <1>3 DEF Folded
  <2>3. ASSUME NEW e \in Streamed PROVE e \in {Critical("indexable"), Critical("canonical")}
    <3>1. PICK f \in Changes(new, old) : ~Folded(f) /\ e = Critical(f)
      BY StreamedAre
    <3>2. f \in {"indexable", "canonical"}
      BY <2>1, <2>2, <3>1, ChangesAre DEF Fields
    <3> QED
      BY <3>1, <3>2
  <2>4. ASSUME NEW x \in Bridged PROVE x \in {Critical("indexable"), Critical("canonical")}
    <3>1. FindingOf(x, new, old) /\ ~Folded(x.type)
      BY BridgedAre
    <3> QED
      BY <2>1, <2>2, <3>1, FindingShape
  <2> QED
    BY <2>3, <2>4
<1> QED
  BY <1>2, <1>3

-----------------------------------------------------------------------------
\* The inductive invariant.

LEMMA PageInitially == Init => PageInv
<1> SUFFICES ASSUME Init PROVE PageInv
  OBVIOUS
<1>1. TypeOK
  <2>1. faults \in 0..MaxFaults
    <3>1. faults = 0 /\ MaxFaults \in Nat
      BY MonitorAssumption DEF Init
    <3> QED
      BY <3>1
  <2>3. baseline \in BOOLEAN /\ pc = "idle"
    BY DEF Init
  <2>2. /\ {snap, new, old} \subseteq Pages \cup {NoPage} /\ logged \in PageType \cup {NoPage}
        /\ etag \in Pages \cup {NoPage, BlockPage} /\ issues \subseteq Rules
        /\ incidents \subseteq Identity /\ findings \subseteq Finding /\ alerted \subseteq Identity
        /\ told \subseteq Identity
    BY DEF Init
  <2> QED
    BY <2>1, <2>2, <2>3 DEF TypeOK
<1>2. Underway /\ OneAlertPerCause
  <2>1. pc = "idle" /\ snap = logged
    BY DEF Init
  <2> QED
    BY <2>1 DEF Underway, Processing, OneAlertPerCause
<1>3. Replayed /\ Accounted /\ Unflipped
  BY DEF Init, Replayed, Accounted, Unflipped, Untouched, NotFlipped
<1> QED
  BY <1>1, <1>2, <1>3 DEF PageInv

\* A fault leaves nothing to show of a page none of whose crawls has failed.
LEMMA Faulted ==
  ASSUME PageInv, Fault PROVE faults' # 0 /\ faults' \in 0..MaxFaults
<1>1. faults \in 0..MaxFaults /\ MaxFaults \in Nat
  BY MonitorAssumption DEF PageInv, TypeOK
<1> QED
  BY <1>1 DEF Fault

\* The end of a crawl, orderly or not.
LEMMA PageFinishes ==
  ASSUME PageInv, pc # "idle", Finish, etag' \in Pages \cup {NoPage, BlockPage},
         UNCHANGED <<snap, logged, issues, incidents>>, faults' \in 0..MaxFaults,
         faults' = 0 => faults = 0 /\ pc = "schedule"
  PROVE  PageInv'
<1>1. /\ pc' = "idle" /\ new' = NoPage /\ old' = NoPage /\ findings' = {} /\ alerted' = {}
      /\ told' = IF Healthy(snap) THEN {} ELSE told
      /\ baseline' = (baseline \/ Healthy(snap))
  BY DEF Finish
<1>2. baseline' \in BOOLEAN
  BY <1>1 DEF PageInv, TypeOK, Healthy
<1>3. TypeOK'
  BY <1>1, <1>2 DEF PageInv, TypeOK
<1>4. Underway' /\ OneAlertPerCause'
  BY <1>1 DEF PageInv, Underway, Processing, OneAlertPerCause
<1>5. ASSUME faults' = 0 PROVE Replayed' /\ Accounted' /\ Unflipped'
  <2>1. /\ faults = 0 /\ pc = "schedule" /\ Replayed /\ Accounted /\ Unflipped
        /\ snap \in Pages \cup {NoPage}
    BY <1>5 DEF PageInv, TypeOK
  <2>2. Replayed' /\ Unflipped'
    BY <1>1, <2>1 DEF Replayed, Unflipped, Untouched, NotFlipped
  <2>3. Accounted'
    <3>1. CASE Healthy(snap)
      <4>1. snap \in PageType /\ ~IsError(snap)
        BY <2>1, <3>1, PageShape DEF Healthy
      <4> QED
        BY <1>1, <2>1, <3>1, <4>1, PageShape DEF Accounted, Told, Untouched
    <3>2. CASE ~Healthy(snap)
      BY <1>1, <2>1, <3>2 DEF Accounted, Told, Untouched
    <3> QED
      BY <3>1, <3>2
  <2> QED
    BY <2>2, <2>3
<1> QED
  BY <1>3, <1>4, <1>5 DEF PageInv

\* A step that has failed goes to the schedule.
LEMMA PageFails ==
  ASSUME PageInv, Fault, pc # "emit", pc' = "schedule", incidents' \subseteq incidents, issues' \subseteq Rules,
         snap' \in Pages \cup {NoPage}, logged' \in PageType \cup {NoPage}, snap' = NoPage <=> logged' = NoPage,
         UNCHANGED <<etag, new, old, findings, history>>
  PROVE  PageInv'
<1>1. TypeOK'
  BY Faulted DEF PageInv, TypeOK, history
<1>2. Underway' /\ OneAlertPerCause'
  BY DEF PageInv, Underway, Processing, OneAlertPerCause
<1> QED
  BY <1>1, <1>2, Faulted DEF PageInv

-----------------------------------------------------------------------------
\* The steps of a crawl.

LEMMA StepFetch == ASSUME PageInv, NEW p \in Pages, FetchPage(p) PROVE PageInv'
<1>1. /\ pc = "idle" /\ new' = p /\ pc' \in {"schedule", "save"}
      /\ UNCHANGED <<etag, snap, logged, issues, incidents, old, findings, alerted, told, baseline, faults>>
  BY DEF FetchPage, stored, history
<1>2. TypeOK'
  BY <1>1 DEF PageInv, TypeOK
<1>3. Underway' /\ OneAlertPerCause'
  BY <1>1 DEF PageInv, Underway, Processing, OneAlertPerCause
<1>4. ASSUME faults = 0 PROVE Replayed' /\ Accounted' /\ Unflipped'
  BY <1>1, <1>4 DEF PageInv, Replayed, Accounted, Unflipped, Untouched, Told, NotFlipped
<1> QED
  BY <1>1, <1>2, <1>3, <1>4 DEF PageInv

LEMMA StepNotModified == ASSUME PageInv, FetchNotModified PROVE PageInv'
<1>1. /\ pc = "idle" /\ pc' = "notModified"
      /\ UNCHANGED <<etag, snap, logged, issues, incidents, new, old, findings, alerted, told, baseline, faults>>
  BY DEF FetchNotModified, stored, history, locals
<1>2. TypeOK'
  BY <1>1 DEF PageInv, TypeOK
<1>3. Underway' /\ OneAlertPerCause'
  BY <1>1 DEF PageInv, Underway, Processing, OneAlertPerCause
<1>4. ASSUME faults = 0 PROVE Replayed' /\ Accounted' /\ Unflipped'
  BY <1>1, <1>4 DEF PageInv, Replayed, Accounted, Unflipped, Untouched, Told, NotFlipped
<1> QED
  BY <1>1, <1>2, <1>3, <1>4 DEF PageInv

LEMMA GateIncidents ==
  /\ {Blocked, Unreachable} \subseteq Identity
  /\ Critical("indexable") \notin {Blocked, Unreachable}
BY DEF Blocked, Unreachable, Critical, Identity

LEMMA StepFetchFailed == ASSUME PageInv, NEW inc \in {Blocked, Unreachable}, FetchFailed(inc) PROVE PageInv'
<1>1. /\ pc = "idle" /\ pc' = pc /\ incidents' = incidents \cup {inc} /\ etag' \in {etag, BlockPage}
      /\ UNCHANGED <<snap, logged, issues, new, old, findings, alerted, told, baseline, faults>>
  BY DEF FetchFailed, history, locals
<1>2. inc \in Identity /\ inc # Critical("indexable")
  BY GateIncidents
<1>3. TypeOK'
  BY <1>1, <1>2 DEF PageInv, TypeOK
<1>4. Underway' /\ OneAlertPerCause'
  BY <1>1 DEF PageInv, Underway, Processing, OneAlertPerCause
<1>5. NotFlipped' <=> NotFlipped
  BY <1>1, <1>2 DEF NotFlipped
<1>6. ASSUME faults = 0 PROVE Replayed' /\ Accounted' /\ Unflipped'
  BY <1>1, <1>5, <1>6 DEF PageInv, Replayed, Accounted, Unflipped, Untouched, Told
<1> QED
  BY <1>1, <1>3, <1>4, <1>6 DEF PageInv

LEMMA StepSave == ASSUME PageInv, SaveSnapshot PROVE PageInv'
<1>1. /\ pc = "save" /\ pc' = "gate" /\ old' = snap /\ snap' = new
      /\ logged' = IF snap = NoPage THEN new ELSE logged
      /\ UNCHANGED <<etag, issues, incidents, new, findings, alerted, told, baseline, faults>>
  BY DEF SaveSnapshot, history
<1>2. new \in Pages /\ new # NoPage /\ new \in PageType
  BY <1>1, PageShape DEF PageInv, Underway
<1>3. TypeOK'
  BY <1>1, <1>2 DEF PageInv, TypeOK
<1>4. Underway' /\ OneAlertPerCause'
  BY <1>1, <1>2 DEF PageInv, Underway, Processing, OneAlertPerCause
<1>5. ASSUME faults = 0 PROVE Replayed' /\ Accounted' /\ Unflipped'
  BY <1>1, <1>2, <1>5 DEF PageInv, Replayed, Accounted, Unflipped, Untouched, Told, NotFlipped
<1> QED
  BY <1>1, <1>3, <1>4, <1>5 DEF PageInv

LEMMA StepGate == ASSUME PageInv, Gate PROVE PageInv'
<1>1. /\ \/ pc = "gate" /\ pc' = "record"
         \/ pc = "notModified" /\ pc' = "schedule"
      /\ incidents' = incidents \ {Blocked, Unreachable}
      /\ UNCHANGED <<etag, snap, logged, issues, new, old, findings, alerted, told, baseline, faults>>
  BY DEF Gate, history, locals
<1>2. TypeOK'
  BY <1>1 DEF PageInv, TypeOK
<1>3. Underway' /\ OneAlertPerCause'
  BY <1>1 DEF PageInv, Underway, Processing, OneAlertPerCause
<1>4. NotFlipped' <=> NotFlipped
  BY <1>1, GateIncidents DEF NotFlipped
<1>5. ASSUME faults = 0 PROVE Replayed' /\ Accounted' /\ Unflipped'
  BY <1>1, <1>4, <1>5 DEF PageInv, Replayed, Accounted, Unflipped, Untouched, Told
<1> QED
  BY <1>1, <1>2, <1>3, <1>5 DEF PageInv

LEMMA StepRecord == ASSUME PageInv, RecordChanges PROVE PageInv'
<1> DEFINE Row(field, now, before) == IF field \in Changes(new, old) THEN now ELSE before
           row == [status    |-> Row("http_status", new.status, logged.status),
                   robots    |-> Row("meta_robots", new.robots, logged.robots),
                   canonical |-> Row("canonical", new.canonical, logged.canonical)]
<1>1. /\ pc = "record" /\ pc' = "rules" /\ logged' = row
      /\ UNCHANGED <<etag, snap, issues, incidents, new, old, findings, alerted, told, baseline, faults>>
  BY DEF RecordChanges, history, locals
<1>2. /\ new \in PageType /\ new # NoPage /\ snap = new /\ logged \in PageType /\ old \in PageType \cup {NoPage}
  BY <1>1, PageShape DEF PageInv, TypeOK, Underway, Processing
<1>3. row \in PageType
  BY <1>2 DEF PageType
<1>4. logged = (IF old = NoPage THEN new ELSE old) => row = new
  <2>1. CASE old = NoPage
    BY <1>2, <2>1, ChangesNone DEF PageType
  <2>2. CASE old # NoPage
    <3>1. /\ "http_status" \in Changes(new, old) <=> new.status # old.status
          /\ "meta_robots" \in Changes(new, old) <=> new.robots # old.robots
          /\ "canonical" \in Changes(new, old) <=> new.canonical # old.canonical
      BY <1>2, <2>2, ChangesAre
    <3>2. logged = old => /\ row.status = new.status /\ row.robots = new.robots
                          /\ row.canonical = new.canonical
      BY <3>1
    <3> HIDE DEF row
    <3> QED
      BY <1>2, <1>3, <2>2, <3>2 DEF PageType
  <2> QED
    BY <2>1, <2>2
<1> HIDE DEF row
<1>5. TypeOK'
  BY <1>1, <1>3 DEF PageInv, TypeOK
<1>6. Underway' /\ OneAlertPerCause'
  BY <1>1, <1>2, <1>3, PageShape DEF PageInv, Underway, Processing, OneAlertPerCause
<1>7. ASSUME faults = 0 PROVE Replayed' /\ Accounted' /\ Unflipped'
  BY <1>1, <1>2, <1>4, <1>7 DEF PageInv, Replayed, Accounted, Unflipped, Untouched, Told, NotFlipped
<1> QED
  BY <1>1, <1>5, <1>6, <1>7 DEF PageInv

LEMMA StepRules == ASSUME PageInv, ApplyRules PROVE PageInv'
<1> DEFINE failing == {r \in Rules : Verdict(new, old)[r] # "pass"}
<1>1. /\ pc = "rules" /\ pc' = "emit" /\ issues' = failing
      /\ findings' = {[type |-> BridgeField[r], sev |-> Verdict(new, old)[r]] : r \in failing \ issues}
      /\ UNCHANGED <<etag, snap, logged, incidents, new, old, alerted, told, baseline, faults>>
  BY DEF ApplyRules, history
<1>2. /\ new \in PageType /\ old \in PageType \cup {NoPage}
  BY <1>1, PageShape DEF PageInv, TypeOK, Underway, Processing
<1>3. ASSUME NEW x \in findings' PROVE FindingOf(x, new, old)
  BY <1>1, <1>3 DEF FindingOf
<1>4. findings' \subseteq Finding /\ issues' \subseteq Rules
  BY <1>1, <1>2, <1>3, FindingShape
<1>5. TypeOK'
  BY <1>1, <1>4 DEF PageInv, TypeOK
<1>6. Underway' /\ OneAlertPerCause'
  <2>1. \A x \in findings' : FindingOf(x, new, old)'
    BY <1>1, <1>3 DEF FindingOf, Verdict, Rules, BridgeField
  <2> QED
    BY <1>1, <2>1 DEF PageInv, Underway, Processing, OneAlertPerCause
<1>7. ASSUME faults = 0 PROVE Replayed' /\ Accounted' /\ Unflipped'
  BY <1>1, <1>7 DEF PageInv, Replayed, Accounted, Unflipped, Untouched, Told, NotFlipped
<1> QED
  BY <1>1, <1>5, <1>6, <1>7 DEF PageInv

LEMMA StepEmit == ASSUME PageInv, NEW lost \in SUBSET (Streamed \cup Bridged), Emit(lost) PROVE PageInv'
<1> DEFINE events == Streamed \cup Bridged
           delivered == events \ lost
<1>1. /\ pc = "emit" /\ pc' = "resolve" /\ IF lost = {} THEN NoFault ELSE Fault
      /\ incidents' = incidents \cup delivered /\ alerted' = delivered /\ told' = told \cup delivered
      /\ UNCHANGED <<etag, snap, logged, issues, new, old, findings, baseline>>
  BY DEF Emit, locals
<1>2. /\ new \in Pages /\ new \in PageType /\ old \in PageType \cup {NoPage} /\ snap = new
      /\ \A x \in findings : FindingOf(x, new, old)
  BY <1>1, PageShape DEF PageInv, TypeOK, Underway, Processing
<1>3. delivered \subseteq events /\ delivered \subseteq Identity
  BY <1>2, EventsTyped DEF PageInv
<1>4. faults' \in 0..MaxFaults /\ (faults' = 0 => faults = 0 /\ lost = {})
  <2>1. CASE lost = {}
    BY <1>1, <2>1 DEF NoFault, PageInv, TypeOK
  <2>2. CASE lost # {}
    BY <1>1, <2>2, Faulted
  <2> QED
    BY <2>1, <2>2
<1> HIDE DEF delivered, events
<1>5. TypeOK'
  BY <1>1, <1>3, <1>4 DEF PageInv, TypeOK
<1>6. Underway'
  BY <1>1 DEF PageInv, Underway, Processing
<1>7. OneAlertPerCause'
  <2> SUFFICES ASSUME old # NoPage, Healthy(old)
               PROVE  /\ IsError(new) => delivered \subseteq {Critical("http_status")}
                      /\ new.status = 200 /\ ~Indexable(new) =>
                           delivered \subseteq {Critical("indexable"), Critical("canonical")}
    BY <1>1 DEF OneAlertPerCause, Healthy, IsError, Indexable, Reason, Critical
  <2> QED
    BY <1>2, <1>3, EventsPerCause DEF events
<1>8. ASSUME faults' = 0 PROVE Replayed' /\ Accounted' /\ Unflipped'
  <2>1. /\ Replayed /\ Accounted /\ Unflipped /\ delivered = events
    BY <1>4, <1>8 DEF PageInv, delivered
  <2>2. Replayed'
    BY <1>1, <2>1 DEF Replayed, Untouched
  <2>3. Accounted'
    <3>1. ASSUME baseline PROVE /\ ~Healthy(new) => \E e \in told' : e.sev = "critical"
                                /\ IsError(new) => Critical("http_status") \in told'
      <4>1. old # NoPage /\ Told(old) /\ told' = told \cup Streamed \cup Bridged
        BY <1>1, <2>1, <3>1 DEF Accounted, events
      <4> QED
        BY <1>2, <4>1, EventsAccount
    <3> QED
      BY <1>1, <1>2, <2>1, <3>1 DEF Accounted, Told, Untouched
  <2>4. Unflipped'
    <3> SUFFICES ASSUME Indexable(new), Critical("indexable") \in incidents \cup events
                 PROVE  old # NoPage /\ ~Indexable(old)
      BY <1>1, <2>1 DEF Unflipped, Untouched, NotFlipped
    <3> SUFFICES ASSUME old = NoPage \/ Indexable(old) PROVE FALSE
      OBVIOUS
    <3>1. Critical("indexable") \notin incidents
      BY <1>1, <2>1 DEF Unflipped, NotFlipped
    <3> QED
      BY <1>2, <3>1, NoFlipEvent DEF events
  <2> QED
    BY <2>2, <2>3, <2>4
<1> QED
  BY <1>5, <1>6, <1>7, <1>8 DEF PageInv

LEMMA StepResolve == ASSUME PageInv, NEW done \in SUBSET Recovered, ResolveHealthy(done) PROVE PageInv'
<1>1. /\ pc = "resolve" /\ pc' = "schedule" /\ IF done = Recovered THEN NoFault ELSE Fault
      /\ incidents' = incidents \ done
      /\ UNCHANGED <<etag, snap, logged, issues, new, old, findings, alerted, told, baseline>>
  BY DEF ResolveHealthy, locals, history
<1>2. faults' \in 0..MaxFaults /\ (faults' = 0 => faults = 0 /\ done = Recovered)
  <2>1. CASE done = Recovered
    BY <1>1, <2>1 DEF NoFault, PageInv, TypeOK
  <2>2. CASE done # Recovered
    BY <1>1, <2>2, Faulted
  <2> QED
    BY <2>1, <2>2
<1>3. TypeOK'
  BY <1>1, <1>2 DEF PageInv, TypeOK
<1>4. Underway' /\ OneAlertPerCause'
  BY <1>1 DEF PageInv, Underway, Processing, OneAlertPerCause
<1>5. ASSUME faults' = 0 PROVE Replayed' /\ Accounted' /\ Unflipped'
  <2>1. /\ Replayed /\ Accounted /\ Unflipped /\ incidents' = incidents \ Recovered
        /\ snap = new /\ new # NoPage
    BY <1>1, <1>2, <1>5, PageShape DEF PageInv, Underway, Processing
  <2>2. ASSUME Indexable(new) PROVE Critical("indexable") \notin incidents'
    <3>1. Critical("indexable") \in incidents => Critical("indexable") \in Recovered
      BY <1>1, <2>1, <2>2 DEF Unflipped, NotFlipped, Recovered, Critical
    <3> QED
      BY <2>1, <3>1
  <2>3. Unflipped'
    BY <1>1, <2>1, <2>2 DEF Unflipped, NotFlipped, Untouched
  <2> QED
    BY <1>1, <2>1, <2>3 DEF Replayed, Accounted, Told, Untouched
<1> QED
  BY <1>3, <1>4, <1>5 DEF PageInv

LEMMA StepSchedule == ASSUME PageInv, UpdateSchedule PROVE PageInv'
<1>1. /\ pc = "schedule" /\ etag' \in {etag} \cup ({new} \ {NoPage}) /\ Finish
      /\ UNCHANGED <<snap, logged, issues, incidents, faults>>
  BY DEF UpdateSchedule
<1>2. etag' \in Pages \cup {NoPage, BlockPage} /\ faults' \in 0..MaxFaults
  BY <1>1 DEF PageInv, TypeOK
<1> QED
  BY <1>1, <1>2, PageFinishes

LEMMA StepScheduleError == ASSUME PageInv, ScheduleError PROVE PageInv'
<1>1. pc = "schedule" /\ Finish /\ UNCHANGED <<etag, snap, logged, issues, incidents>> /\ Fault
  BY DEF ScheduleError, stored
<1>2. etag' \in Pages \cup {NoPage, BlockPage}
  BY <1>1 DEF PageInv, TypeOK
<1> QED
  BY <1>1, <1>2, PageFinishes, Faulted

LEMMA StepCrash == ASSUME PageInv, Crash PROVE PageInv'
<1>1. pc # "idle" /\ Finish /\ UNCHANGED <<etag, snap, logged, issues, incidents>> /\ Fault
  BY DEF Crash, stored
<1>2. etag' \in Pages \cup {NoPage, BlockPage}
  BY <1>1 DEF PageInv, TypeOK
<1> QED
  BY <1>1, <1>2, PageFinishes, Faulted

LEMMA StepStepError == ASSUME PageInv, StepError PROVE PageInv'
<1>1. /\ Fault /\ pc # "emit" /\ pc' = "schedule"
      /\ UNCHANGED <<etag, snap, logged, issues, incidents, new, old, findings, history>>
  BY DEF StepError, stored, locals
<1>2. /\ incidents' \subseteq incidents /\ issues' \subseteq Rules
      /\ snap' \in Pages \cup {NoPage} /\ logged' \in PageType \cup {NoPage} /\ (snap' = NoPage <=> logged' = NoPage)
  BY <1>1 DEF PageInv, TypeOK, Underway
<1> QED
  BY <1>1, <1>2, PageFails

LEMMA StepGateHalfDone == ASSUME PageInv, GateHalfDone PROVE PageInv'
<1>1. /\ Fault /\ pc # "emit" /\ pc' = "schedule" /\ incidents' = incidents \ {Blocked}
      /\ UNCHANGED <<etag, snap, logged, issues, new, old, findings, history>>
  BY DEF GateHalfDone, locals
<1>2. /\ incidents' \subseteq incidents /\ issues' \subseteq Rules
      /\ snap' \in Pages \cup {NoPage} /\ logged' \in PageType \cup {NoPage} /\ (snap' = NoPage <=> logged' = NoPage)
  BY <1>1 DEF PageInv, TypeOK, Underway
<1> QED
  BY <1>1, <1>2, PageFails

LEMMA StepPriorUnread == ASSUME PageInv, PriorUnread PROVE PageInv'
<1>1. /\ Fault /\ pc = "save" /\ pc' = "schedule" /\ snap' = new
      /\ logged' = IF snap = NoPage THEN new ELSE logged
      /\ UNCHANGED <<etag, issues, incidents, new, old, findings, history>>
  BY DEF PriorUnread, locals
<1>2. new \in Pages /\ new \in PageType /\ new # NoPage
  BY <1>1, PageShape DEF PageInv, Underway
<1>3. /\ incidents' \subseteq incidents /\ issues' \subseteq Rules
      /\ snap' \in Pages \cup {NoPage} /\ logged' \in PageType \cup {NoPage} /\ (snap' = NoPage <=> logged' = NoPage)
  BY <1>1, <1>2 DEF PageInv, TypeOK, Underway
<1> QED
  BY <1>1, <1>3, PageFails

LEMMA StepRulesError == ASSUME PageInv, NEW applied, RulesError(applied) PROVE PageInv'
<1>1. /\ Fault /\ pc # "emit" /\ pc' = "schedule" /\ issues' \subseteq Rules
      /\ UNCHANGED <<etag, snap, logged, incidents, new, old, findings, history>>
  BY DEF RulesError, locals
<1>2. /\ incidents' \subseteq incidents
      /\ snap' \in Pages \cup {NoPage} /\ logged' \in PageType \cup {NoPage} /\ (snap' = NoPage <=> logged' = NoPage)
  BY <1>1 DEF PageInv, TypeOK, Underway
<1> QED
  BY <1>1, <1>2, PageFails

LEMMA PageStutters == PageInv /\ UNCHANGED vars => PageInv'
<1> SUFFICES ASSUME PageInv, UNCHANGED vars PROVE PageInv'
  OBVIOUS
<1>1. UNCHANGED <<etag, snap, logged, issues, incidents, pc, new, old, findings, alerted, told, baseline, faults>>
  BY DEF vars, stored, locals, history
<1>2. TypeOK'
  BY <1>1 DEF PageInv, TypeOK
<1>3. Underway' /\ OneAlertPerCause'
  BY <1>1 DEF PageInv, Underway, Processing, OneAlertPerCause, FindingOf, Verdict, Rules, BridgeField
<1>4. ASSUME faults = 0 PROVE Replayed' /\ Accounted' /\ Unflipped'
  BY <1>1, <1>4 DEF PageInv, Replayed, Accounted, Unflipped, Untouched, Told, NotFlipped
<1> QED
  BY <1>1, <1>2, <1>3, <1>4 DEF PageInv

LEMMA PageInductive == PageInv /\ [Next]_vars => PageInv'
BY StepFetch, StepNotModified, StepFetchFailed, StepSave, StepGate, StepRecord, StepRules, StepEmit,
   StepResolve, StepSchedule, StepScheduleError, StepCrash, StepStepError, StepGateHalfDone,
   StepPriorUnread, StepRulesError, PageStutters DEF Next, Crawl

(* The tables, the locals of a crawl and its events keep their types, also when
   steps fail and the process crashes (internal/scheduler/crawl.go, process.go). *)
THEOREM PageTypeCorrect == Spec => []TypeOK
<1>1. PageInv => TypeOK
  BY DEF PageInv
<1> QED
  BY <1>1, PageInitially, PageInductive, PTL DEF Spec

(* Every regression is told: a page that was healthy and is left broken or out of
   the index has raised a critical event since, as long as no crawl failed half-way. *)
THEOREM NoSilentRegressionCorrect == Spec => []NoSilentRegression
<1>1. PageInv => NoSilentRegression
  BY DEF PageInv, NoSilentRegression, Accounted, Told, Untouched
<1> QED
  BY <1>1, PageInitially, PageInductive, PTL DEF Spec

(* The change history, replayed on the first snapshot, gives the last one. *)
THEOREM LogTracksSnapshotCorrect == Spec => []LogTracksSnapshot
<1>1. PageInv => LogTracksSnapshot
  BY DEF PageInv, LogTracksSnapshot, Replayed, Untouched
<1> QED
  BY <1>1, PageInitially, PageInductive, PTL DEF Spec

(* An indexability incident does not outlive the recovery of the page. *)
THEOREM IndexableResolvesCorrect == Spec => []IndexableResolves
<1>1. PageInv => IndexableResolves
  BY DEF PageInv, IndexableResolves, Unflipped, NotFlipped, Untouched
<1> QED
  BY <1>1, PageInitially, PageInductive, PTL DEF Spec

(* A healthy page that fails is one alert, the one that names the cause, whatever
   fails or crashes about it. *)
THEOREM OneAlertPerCauseCorrect == Spec => []OneAlertPerCause
<1>1. PageInv => OneAlertPerCause
  BY DEF PageInv
<1> QED
  BY <1>1, PageInitially, PageInductive, PTL DEF Spec

-----------------------------------------------------------------------------
(* The politeness gate: tokens, waits and requests.                        *)

Stages == {"idle", "entry", "slot", "ready", "reserve", "parked", "fetch", "process"}
Limiter == [every : Every, tokens : Int]

FrontierTypes ==
  /\ base \in Bases
  /\ throttle \in 1..MaxThrottle
  /\ floor \in Delays \cup {0}
  /\ gen \in 1..MaxGen
  /\ lims \in [1..MaxGen -> Limiter]
  /\ at \in [Crawls -> Stages]
  /\ ref \in [Crawls -> 1..MaxGen]
  /\ left \in [Crawls -> Nat]
  /\ steady \subseteq Crawls
  /\ lastOne \in BOOLEAN
  /\ since \in 0..Slowest

\* A debt at the rate of the limiter, in ticks times Token: no token is there before
\* the interval since the last request is over, and whoever waits at the present
\* rate waits until its own token is paid off.
Spaced ==
  /\ lastOne => lims[gen].tokens * lims[gen].every < (since + 1) * Token
  /\ \A w \in steady :
       /\ at[w] = "parked"
       /\ ref[w] = gen
       /\ lims[gen].tokens * lims[gen].every + left[w] * Token < Token
       /\ lastOne => since + left[w] >= lims[gen].every
  /\ \A v, w \in steady :
       v # w => left[v] >= left[w] + lims[gen].every \/ left[w] >= left[v] + lims[gen].every

FrontierInv ==
  /\ FrontierTypes
  /\ \A g \in 1..MaxGen : lims[g].tokens <= Token
  /\ Spaced

-----------------------------------------------------------------------------
\* Arithmetic.

LEMMA Multiply ==
  ASSUME NEW a \in Int, NEW b \in Int, NEW k \in Nat
  PROVE  /\ a * k \in Int /\ (a <= b => a * k <= b * k)
         /\ (a + b) * k = a * k + b * k /\ (a - b) * k = a * k - b * k
OBVIOUS

LEMMA Cancel ==
  ASSUME NEW a \in Int, NEW b \in Int, NEW k \in Nat \ {0}, a * k < b * k PROVE a < b
OBVIOUS

LEMMA Product ==
  ASSUME NEW c \in Nat \ {0}, NEW m \in Nat \ {0}, NEW t \in 1..m
  PROVE  c * t \in Nat \ {0} /\ c * t <= c * m
OBVIOUS

LEMMA Quotient ==
  ASSUME NEW a \in Nat, NEW k \in Nat \ {0}
  PROVE  a \div k \in Nat /\ (a \div k) * k <= a /\ a < (a \div k) * k + k
OBVIOUS

\* The slowest interval bounds every interval there can be.
LEMMA SlowestIs ==
  /\ Slowest \in Nat \ {0}
  /\ \A b \in Bases, t \in 1..MaxThrottle, f \in Delays \cup {0} : effectiveEvery(b, t, f) \in Every
  /\ \A b \in Bases : b \in Every
<1> DEFINE asked == {b * MaxThrottle : b \in Bases} \cup Delays
<1>1. PICK b \in Bases : \A c \in Bases : c <= b
  BY FrontierAssumption
<1>2. MaxThrottle \in Nat \ {0} /\ Bases \subseteq Nat \ {0} /\ Delays \subseteq Nat
  BY FrontierAssumption
<1>3. ASSUME NEW c \in Bases, NEW t \in 1..MaxThrottle
      PROVE  c * t \in Nat \ {0} /\ c * t <= c * MaxThrottle
  <2>1. c \in Nat \ {0}
    BY <1>2
  <2> QED
    BY <1>2, <2>1, Product
<1>4. b * MaxThrottle \in asked /\ \A c \in Bases : c * MaxThrottle <= b * MaxThrottle
  <2>1. ASSUME NEW c \in Bases PROVE c * MaxThrottle <= b * MaxThrottle
    <3>1. b \in Int /\ MaxThrottle \in Nat /\ c \in Int /\ c <= b
      BY <1>1, <1>2
    <3> HIDE DEF asked
    <3> QED
      BY <3>1, Multiply
  <2>2. b * MaxThrottle \in {c * MaxThrottle : c \in Bases}
    BY Zenon
  <2>3. b * MaxThrottle \in asked
    BY <2>2, Zenon
  <2> HIDE DEF asked
  <2> QED
    BY <2>1, <2>3
<1>5. asked \subseteq Nat
  <2>1. MaxThrottle \in 1..MaxThrottle
    BY <1>2
  <2>2. ASSUME NEW c \in Bases PROVE c * MaxThrottle \in Nat
    BY <1>3, <2>1
  <2>3. \A x \in asked : x \in Delays \/ \E c \in Bases : x = c * MaxThrottle
    BY Zenon
  <2> HIDE DEF asked
  <2> QED
    BY <1>2, <2>2, <2>3
<1>6. \E e \in asked : \A f \in asked : f <= e
  <2>3. \A x \in asked : x \in Delays \/ \E c \in Bases : x = c * MaxThrottle
    BY Zenon
  <2>4. Delays \subseteq asked
    BY Zenon
  <2> HIDE DEF asked
  <2>1. CASE \A d \in Delays : d <= b * MaxThrottle
    BY <1>4, <2>1, <2>3
  <2>2. CASE \E d \in Delays : ~(d <= b * MaxThrottle)
    <3>1. PICK f \in Delays : \A d \in Delays : d <= f
      BY <2>2, FrontierAssumption
    <3>2. b * MaxThrottle <= f
      BY <1>2, <1>3, <1>5, <2>2, <3>1
    <3>3. \A c \in Bases : c * MaxThrottle <= f
      <4>1. ASSUME NEW c \in Bases PROVE c * MaxThrottle <= f
        <5>1. /\ c * MaxThrottle <= b * MaxThrottle /\ c * MaxThrottle \in asked
          <6>1. c * MaxThrottle \in asked
            BY Zenon DEF asked
          <6> QED
            BY <1>4, <6>1
        <5> QED
          BY <1>2, <1>4, <1>5, <3>2, <5>1
      <4> QED
        BY <4>1
    <3> QED
      BY <2>3, <2>4, <3>1, <3>3
  <2> QED
    BY <2>1, <2>2
<1>7. Slowest \in asked /\ \A f \in asked : f <= Slowest
  <2>1. Slowest = CHOOSE e \in asked : \A f \in asked : f <= e
    BY DEF Slowest
  <2> HIDE DEF asked
  <2> QED
    BY <1>6, <2>1
<1>12. \A c \in Bases : c * MaxThrottle \in asked
  BY Zenon
<1>13. Delays \subseteq asked
  BY Zenon
<1> HIDE DEF asked
<1>8. Slowest \in Nat /\ b * MaxThrottle <= Slowest /\ b * MaxThrottle \in Nat \ {0}
  BY <1>2, <1>4, <1>5, <1>7
<1>9. ASSUME NEW c \in Bases, NEW t \in 1..MaxThrottle PROVE c * t \in Nat \ {0} /\ c * t <= Slowest
  <2>1. c * t \in Nat \ {0} /\ c * t <= c * MaxThrottle
    BY <1>3
  <2>2. c * MaxThrottle <= Slowest /\ c * MaxThrottle \in Nat
    BY <1>5, <1>7, <1>12
  <2> QED
    BY <1>8, <2>1, <2>2
<1>10. \A c \in Bases, t \in 1..MaxThrottle, f \in Delays \cup {0} : effectiveEvery(c, t, f) \in Every
  BY <1>2, <1>7, <1>8, <1>9, <1>13 DEF effectiveEvery, Larger, Every
<1>11. \A c \in Bases : c \in Every
  <2>1. \A c \in Bases : c * 1 = c /\ 1 \in 1..MaxThrottle
    BY <1>2
  <2> QED
    BY <1>2, <1>8, <1>9, <2>1 DEF Every
<1> QED
  BY <1>8, <1>10, <1>11

\* The facts about the state that the steps rest on.
LEMMA FrontierFacts ==
  ASSUME FrontierInv
  PROVE  /\ FrontierTypes /\ Spaced /\ gen \in 1..MaxGen /\ since \in Nat /\ since <= Slowest
         /\ Token \in Nat \ {0} /\ Slowest \in Nat \ {0}
         /\ \A g \in 1..MaxGen : /\ lims[g].every \in Nat \ {0} /\ lims[g].every <= Slowest
                                 /\ lims[g].tokens \in Int /\ lims[g].tokens <= Token
                                 /\ lims[g] \in Limiter
         /\ \A w \in Crawls : at[w] \in Stages /\ left[w] \in Nat /\ ref[w] \in 1..MaxGen
<1>1. Token \in Nat \ {0} /\ Slowest \in Nat \ {0}
  BY FrontierAssumption, SlowestIs
<1>2. FrontierTypes /\ Spaced /\ gen \in 1..MaxGen /\ since \in 0..Slowest
  BY DEF FrontierInv, FrontierTypes
<1>3. ASSUME NEW g \in 1..MaxGen
      PROVE  /\ lims[g].every \in Nat \ {0} /\ lims[g].every <= Slowest
             /\ lims[g].tokens \in Int /\ lims[g].tokens <= Token
             /\ lims[g] \in Limiter
  <2>1. lims[g] \in Limiter /\ lims[g].tokens <= Token
    BY DEF FrontierInv, FrontierTypes
  <2>2. lims[g].every \in Every /\ lims[g].tokens \in Int
    BY <2>1 DEF Limiter
  <2> QED
    BY <1>1, <2>1, <2>2 DEF Every
<1>4. \A w \in Crawls : at[w] \in Stages /\ left[w] \in Nat /\ ref[w] \in 1..MaxGen
  BY <1>2 DEF FrontierTypes
<1> QED
  BY <1>1, <1>2, <1>3, <1>4

-----------------------------------------------------------------------------
\* What a step does to the spacing.

\* The limiter and the crawls that wait at its rate stay as they are.
LEMMA SpacingKept ==
  ASSUME Spaced, gen' = gen, lims'[gen] = lims[gen], steady' \subseteq steady,
         lastOne' => lastOne /\ since' = since,
         \A w \in steady' : at'[w] = at[w] /\ ref'[w] = ref[w] /\ left'[w] = left[w]
  PROVE  Spaced'
BY DEF Spaced

\* A rate that changes forgets the past.
LEMMA SpacingForgotten == ASSUME steady' = {}, lastOne' = FALSE PROVE Spaced'
BY DEF Spaced

\* SetLimit, as the steps use it.
LEMMA LimitSet ==
  ASSUME FrontierInv, NEW every \in Every, SetLimit(every),
         \A w \in steady : at'[w] = at[w] /\ ref'[w] = ref[w] /\ left'[w] = left[w]
  PROVE  /\ lims' \in [1..MaxGen -> Limiter] /\ \A g \in 1..MaxGen : lims'[g].tokens <= Token
         /\ gen' = gen /\ since' = since /\ steady' \subseteq steady /\ lastOne' \in BOOLEAN
         /\ Spaced'
<1>1. /\ lims' = [lims EXCEPT ![gen].every = every] /\ gen' = gen /\ since' = since
      /\ IF every = lims[gen].every THEN steady' = steady /\ lastOne' = lastOne
                                    ELSE steady' = {} /\ lastOne' = FALSE
  BY DEF SetLimit
<1>2. lims \in [1..MaxGen -> Limiter] /\ gen \in 1..MaxGen /\ lastOne \in BOOLEAN
  BY DEF FrontierInv, FrontierTypes
<1>3. /\ lims' \in [1..MaxGen -> Limiter] /\ \A g \in 1..MaxGen : lims'[g].tokens = lims[g].tokens
      /\ (every = lims[gen].every => lims'[gen] = lims[gen])
  BY <1>1, <1>2 DEF Limiter
<1>4. \A g \in 1..MaxGen : lims'[g].tokens <= Token
  BY <1>3, FrontierFacts
<1>5. Spaced'
  <2>1. CASE every = lims[gen].every
    BY <1>1, <1>3, <2>1, SpacingKept, FrontierFacts
  <2>2. CASE every # lims[gen].every
    BY <1>1, <2>2, SpacingForgotten
  <2> QED
    BY <2>1, <2>2
<1> QED
  BY <1>1, <1>2, <1>3, <1>4, <1>5

LEMMA FrontierInitially == FrontierInit => FrontierInv
<1> SUFFICES ASSUME FrontierInit PROVE FrontierInv
  OBVIOUS
<1>1. Full(Default) \in Limiter /\ Full(Default).tokens <= Token
  BY SlowestIs, FrontierAssumption DEF Full, Limiter
<1>2. lims \in [1..MaxGen -> Limiter] /\ \A g \in 1..MaxGen : lims[g].tokens <= Token
  BY <1>1 DEF FrontierInit
<1>3. 1 \in 1..MaxGen /\ 1 \in 1..MaxThrottle /\ Default \in Bases
  BY FrontierAssumption
<1>4. lastOne = FALSE /\ steady = {}
  BY DEF FrontierInit
<1>5. since \in 0..Slowest
  BY SlowestIs DEF FrontierInit
<1>6. FrontierTypes
  BY <1>2, <1>3, <1>4, <1>5 DEF FrontierInit, FrontierTypes, Stages
<1>7. Spaced
  BY <1>4 DEF Spaced
<1> QED
  BY <1>2, <1>6, <1>7 DEF FrontierInv

-----------------------------------------------------------------------------
\* The rate.

\* A base that is lowered comes with a fresh limiter.
LEMMA StepRate == ASSUME FrontierInv, NEW b \in Bases, SetHostRate(b) PROVE FrontierInv'
<1> DEFINE every == effectiveEvery(b, throttle, floor)
<1>1. /\ base' = b /\ applyEffectiveLimit(every)
      /\ UNCHANGED <<throttle, floor, at, ref, left>>
  BY DEF SetHostRate, slotVars
<1>2. every \in Every
  BY SlowestIs DEF FrontierInv, FrontierTypes
<1> HIDE DEF every
<1>3. /\ lims' \in [1..MaxGen -> Limiter] /\ \A g \in 1..MaxGen : lims'[g].tokens <= Token
      /\ gen' \in 1..MaxGen /\ since' = since /\ steady' \subseteq steady /\ lastOne' \in BOOLEAN
      /\ Spaced'
  <2>1. CASE every < lims[gen].every
    <3>1. /\ gen < MaxGen /\ gen' = gen + 1 /\ lims' = [lims EXCEPT ![gen + 1] = Full(every)]
          /\ steady' = {} /\ lastOne' = FALSE /\ since' = since
      BY <1>1, <2>1 DEF applyEffectiveLimit
    <3>2. Full(every) \in Limiter /\ Full(every).tokens <= Token
      BY <1>2, FrontierAssumption DEF Full, Limiter
    <3>3. lims \in [1..MaxGen -> Limiter] /\ gen \in 1..MaxGen /\ MaxGen \in Nat
      BY FrontierAssumption DEF FrontierInv, FrontierTypes
    <3>4. gen' \in 1..MaxGen
      BY <3>1, <3>3
    <3>5. lims' \in [1..MaxGen -> Limiter] /\ \A g \in 1..MaxGen : lims'[g].tokens <= Token
      BY <3>1, <3>2, <3>3, FrontierFacts
    <3> QED
      BY <3>1, <3>4, <3>5, SpacingForgotten
  <2>2. CASE ~(every < lims[gen].every)
    BY <1>1, <1>2, <2>2, LimitSet, FrontierFacts DEF applyEffectiveLimit
  <2> QED
    BY <2>1, <2>2
<1>4. FrontierTypes'
  BY <1>1, <1>3 DEF FrontierInv, FrontierTypes
<1> QED
  BY <1>3, <1>4 DEF FrontierInv

\* A crawl or a switch moves on, and the limiters stay as they are.
LEMMA StepAside ==
  ASSUME FrontierInv, UNCHANGED <<base, throttle, floor, gen, lims, since>>,
         at' \in [Crawls -> Stages], ref' \in [Crawls -> 1..MaxGen], left' \in [Crawls -> Nat],
         steady' \subseteq steady, lastOne' = lastOne,
         \A w \in steady' : at'[w] = at[w] /\ ref'[w] = ref[w] /\ left'[w] = left[w]
  PROVE  FrontierInv'
<1>1. FrontierTypes'
  BY DEF FrontierInv, FrontierTypes
<1>2. Spaced'
  BY SpacingKept, FrontierFacts
<1> QED
  BY <1>1, <1>2 DEF FrontierInv

LEMMA StepSwitch == ASSUME FrontierInv, SetPaused \/ StopDaemon \/ UNCHANGED frontierVars PROVE FrontierInv'
<1>1. UNCHANGED <<base, throttle, floor, gen, lims, since, at, ref, left, steady, lastOne>>
  BY DEF SetPaused, StopDaemon, frontierVars, rates, limVars, slotVars, pastRequests
<1> QED
  BY <1>1, StepAside DEF FrontierInv, FrontierTypes

\* A crawl that moves away from a step where it did not wait.
LEMMA StepMove ==
  ASSUME FrontierInv, NEW w \in Crawls, at[w] # "parked", NEW step \in Stages, MoveTo(w, step),
         NEW r \in 1..MaxGen, ref' = [ref EXCEPT ![w] = r],
         UNCHANGED <<base, throttle, floor, gen, lims, left, steady, lastOne, since>>
  PROVE  FrontierInv'
<1>1. at' = [at EXCEPT ![w] = step] /\ at \in [Crawls -> Stages] /\ ref \in [Crawls -> 1..MaxGen]
      /\ left \in [Crawls -> Nat] /\ w \notin steady
  BY DEF MoveTo, FrontierInv, FrontierTypes, Spaced
<1>2. at' \in [Crawls -> Stages] /\ ref' \in [Crawls -> 1..MaxGen]
  BY <1>1
<1>3. \A v \in steady' : at'[v] = at[v] /\ ref'[v] = ref[v] /\ left'[v] = left[v]
  BY <1>1
<1> QED
  BY <1>1, <1>2, <1>3, StepAside

LEMMA StepBegin == ASSUME FrontierInv, NEW w \in Crawls, NEW delay \in Delays, BeginCrawl(w, delay) PROVE FrontierInv'
<1>1. /\ at[w] = "idle" /\ floor' = Larger(floor, delay)
      /\ IF delay > 0 THEN SetLimit(effectiveEvery(base, throttle, floor'))
                      ELSE UNCHANGED <<gen, lims, steady, lastOne, since>>
      /\ at' = [at EXCEPT ![w] = "entry"]
      /\ UNCHANGED <<base, throttle, ref, left>>
  BY DEF BeginCrawl, MoveTo, limVars, pastRequests
<1>2. /\ at \in [Crawls -> Stages] /\ ref \in [Crawls -> 1..MaxGen] /\ left \in [Crawls -> Nat]
      /\ base \in Bases /\ throttle \in 1..MaxThrottle /\ floor \in Delays \cup {0} /\ w \notin steady
      /\ steady \subseteq Crawls /\ lastOne \in BOOLEAN
  BY <1>1 DEF FrontierInv, FrontierTypes, Spaced
<1>3. at' \in [Crawls -> Stages]
  BY <1>1, <1>2 DEF Stages
<1>4. \A v \in steady : at'[v] = at[v] /\ ref'[v] = ref[v] /\ left'[v] = left[v]
  BY <1>1, <1>2
<1>5. floor' \in Delays \cup {0}
  BY <1>1, <1>2 DEF Larger
<1>6. /\ lims' \in [1..MaxGen -> Limiter] /\ \A g \in 1..MaxGen : lims'[g].tokens <= Token
      /\ gen' = gen /\ since' = since /\ steady' \subseteq steady /\ lastOne' \in BOOLEAN
      /\ Spaced'
  <2>1. CASE delay > 0
    <3>1. effectiveEvery(base, throttle, floor') \in Every
      BY <1>2, <1>5, SlowestIs
    <3> QED
      BY <1>1, <1>4, <2>1, <3>1, LimitSet
  <2>2. CASE ~(delay > 0)
    <3>1. UNCHANGED <<gen, lims, steady, lastOne, since>>
      BY <1>1, <2>2
    <3>2. Spaced'
      BY <1>4, <3>1, SpacingKept, FrontierFacts
    <3> QED
      BY <1>2, <3>1, <3>2 DEF FrontierInv, FrontierTypes
  <2> QED
    BY <2>1, <2>2
<1>7. FrontierTypes'
  BY <1>1, <1>2, <1>3, <1>5, <1>6 DEF FrontierInv, FrontierTypes
<1> QED
  BY <1>6, <1>7 DEF FrontierInv

LEMMA StepReport == ASSUME FrontierInv, NEW w \in Crawls, NEW bad \in BOOLEAN, Report(w, bad) PROVE FrontierInv'
<1>1. /\ at[w] = "fetch"
      /\ throttle' = IF bad THEN Smaller(MaxThrottle, throttle * 2) ELSE Larger(1, throttle \div 2)
      /\ SetLimit(effectiveEvery(base, throttle', floor))
      /\ at' = [at EXCEPT ![w] = "process"]
      /\ UNCHANGED <<base, floor, ref, left>>
  BY DEF Report, MoveTo
<1>2. /\ at \in [Crawls -> Stages] /\ base \in Bases /\ throttle \in 1..MaxThrottle
      /\ floor \in Delays \cup {0} /\ w \notin steady /\ MaxThrottle \in Nat \ {0}
      /\ steady \subseteq Crawls
  BY <1>1, FrontierAssumption DEF FrontierInv, FrontierTypes, Spaced
<1>3. throttle' \in 1..MaxThrottle
  <2>1. CASE bad
    BY <1>1, <1>2, <2>1 DEF Smaller
  <2>2. CASE ~bad
    <3>1. throttle \div 2 \in Nat /\ (throttle \div 2) * 2 <= throttle
      BY <1>2, Quotient
    <3>2. throttle' = Larger(1, throttle \div 2)
      BY <1>1, <2>2
    <3> QED
      BY <1>2, <3>1, <3>2 DEF Larger
  <2> QED
    BY <2>1, <2>2
<1>4. at' \in [Crawls -> Stages] /\ \A v \in steady : at'[v] = at[v] /\ ref'[v] = ref[v] /\ left'[v] = left[v]
  BY <1>1, <1>2 DEF Stages
<1>5. effectiveEvery(base, throttle', floor) \in Every
  BY <1>2, <1>3, SlowestIs
<1>6. /\ lims' \in [1..MaxGen -> Limiter] /\ \A g \in 1..MaxGen : lims'[g].tokens <= Token
      /\ gen' = gen /\ since' = since /\ steady' \subseteq steady /\ lastOne' \in BOOLEAN
      /\ Spaced'
  BY <1>1, <1>4, <1>5, LimitSet
<1>7. FrontierTypes'
  BY <1>1, <1>2, <1>3, <1>4, <1>6 DEF FrontierInv, FrontierTypes
<1> QED
  BY <1>6, <1>7 DEF FrontierInv

-----------------------------------------------------------------------------
\* The requests and the wait for them.

\* A reservation in debt waits until the debt is paid off at the present rate.
LEMMA Waits ==
  ASSUME NEW tokens \in Int, NEW every \in Nat \ {0}, NEW k \in Nat \ {0}, k = Token, tokens < 0
  PROVE  /\ Wait(tokens, every) \in Nat
         /\ Wait(tokens, every) * k >= -(tokens * every)
         /\ tokens * every + Wait(tokens, every) * k < k
<1> DEFINE debt == -tokens
           ticks == (debt * every + k - 1) \div k
<1>1. Larger(0, -tokens) = debt /\ debt \in Nat
  BY DEF Larger
<1>2. debt * every \in Nat
  BY <1>1
<1>3. debt * every = -(tokens * every) /\ tokens * every \in Int
  OBVIOUS
<1>4. Wait(tokens, every) = ticks
  BY <1>1 DEF Wait
<1>5. debt * every + k - 1 \in Nat
  BY <1>2
<1>6. /\ ticks \in Nat /\ ticks * k <= debt * every + k - 1
      /\ debt * every + k - 1 < ticks * k + k
  BY <1>5, Quotient
<1>7. ticks * k \in Nat
  BY <1>6
<1> HIDE DEF debt, ticks
<1> QED
  BY <1>2, <1>3, <1>4, <1>6, <1>7

\* A request: the crawls that go on waiting are an interval behind it.
LEMMA Requests ==
  ASSUME FrontierInv, NEW w \in Crawls, NEW counts \in BOOLEAN, Granted(w, counts),
         UNCHANGED <<gen, ref, left>>,
         counts => /\ lims'[gen].tokens * lims[gen].every < Token
                   /\ \A v \in steady \ {w} : left[v] >= lims[gen].every,
         lims'[gen].every = lims[gen].every, lims'[gen].tokens \in Int,
         \A v \in steady \ {w} : lims'[gen].tokens * lims[gen].every + left[v] * Token < Token
  PROVE  Spaced'
<1>1. /\ at' = [at EXCEPT ![w] = "fetch"] /\ since' = 0 /\ lastOne' = counts /\ steady' = steady \ {w}
      /\ at \in [Crawls -> Stages] /\ steady \subseteq Crawls
  BY DEF Granted, MoveTo, FrontierInv, FrontierTypes
<1>2. \A v \in steady' : at'[v] = at[v]
  BY <1>1
<1>3. (since' + 1) * Token = Token
  BY <1>1, FrontierFacts
<1>4. \A v \in steady' : lastOne' => since' + left'[v] >= lims'[gen'].every
  BY <1>1, FrontierFacts
<1> QED
  BY <1>1, <1>2, <1>3, <1>4 DEF Spaced, FrontierInv

LEMMA StepWake == ASSUME FrontierInv, NEW w \in Crawls, Wake(w) PROVE FrontierInv'
<1>1. /\ at[w] = "parked" /\ left[w] = 0 /\ Granted(w, w \in steady)
      /\ UNCHANGED <<base, throttle, floor, gen, lims, ref, left>>
  BY DEF Wake, rates, limVars
<1> DEFINE counts == w \in steady
<1>2. counts \in BOOLEAN /\ Granted(w, counts)
  BY <1>1
<1>3. counts => /\ lims[gen].tokens * lims[gen].every < Token
                /\ \A v \in steady \ {w} : left[v] >= lims[gen].every
  <2>1. SUFFICES ASSUME counts PROVE /\ lims[gen].tokens * lims[gen].every < Token
                                     /\ \A v \in steady \ {w} : left[v] >= lims[gen].every
    OBVIOUS
  <2>2. lims[gen].tokens * lims[gen].every + left[w] * Token < Token
    BY <2>1 DEF FrontierInv, Spaced
  <2>3. left[w] * Token = 0 /\ lims[gen].tokens * lims[gen].every \in Int
    BY <1>1, FrontierFacts
  <2>4. lims[gen].tokens * lims[gen].every < Token
    BY <1>1, <2>2, <2>3, FrontierFacts
  <2>5. ASSUME NEW v \in steady \ {w} PROVE left[v] >= lims[gen].every
    <3>1. left[v] >= left[w] + lims[gen].every \/ left[w] >= left[v] + lims[gen].every
      BY <2>1 DEF FrontierInv, Spaced
    <3>2. v \in Crawls
      BY DEF FrontierInv, FrontierTypes
    <3> QED
      BY <1>1, <3>1, <3>2, FrontierFacts
  <2> QED
    BY <2>4, <2>5
<1> HIDE DEF counts
<1>4. \A v \in steady \ {w} : lims[gen].tokens * lims[gen].every + left[v] * Token < Token
  BY DEF FrontierInv, Spaced
<1>5. Spaced'
  BY <1>1, <1>2, <1>3, <1>4, Requests, FrontierFacts
<1>6. at' \in [Crawls -> Stages] /\ since' \in 0..Slowest /\ lastOne' \in BOOLEAN /\ steady' \subseteq Crawls
  BY <1>2, FrontierFacts DEF Granted, MoveTo, FrontierInv, FrontierTypes, Stages
<1>7. FrontierTypes'
  BY <1>1, <1>6 DEF FrontierInv, FrontierTypes
<1> QED
  BY <1>1, <1>5, <1>7 DEF FrontierInv

LEMMA StepReserve == ASSUME FrontierInv, NEW w \in Crawls, Reserve(w) PROVE FrontierInv'
<1> DEFINE g == ref[w]
           T == lims[g].tokens
           E == lims[g].every
           ticks == Wait(T - Token, E)
<1>1. /\ at[w] = "reserve"
      /\ IF T >= Token
         THEN Granted(w, g = gen) /\ left' = left
         ELSE /\ at' = [at EXCEPT ![w] = "parked"]
              /\ left' = [left EXCEPT ![w] = ticks]
              /\ steady' = IF g = gen THEN steady \cup {w} ELSE steady
              /\ UNCHANGED <<lastOne, since>>
      /\ lims' = [lims EXCEPT ![g].tokens = T - Token]
      /\ UNCHANGED <<base, throttle, floor, gen, ref>>
  BY DEF Reserve, MoveTo, rates
<1>2. /\ g \in 1..MaxGen /\ T \in Int /\ T <= Token /\ E \in Nat \ {0} /\ Token \in Nat \ {0} /\ E <= Slowest
      /\ lims \in [1..MaxGen -> Limiter] /\ at \in [Crawls -> Stages] /\ left \in [Crawls -> Nat]
      /\ steady \subseteq Crawls /\ w \notin steady /\ Spaced /\ since \in Nat /\ gen \in 1..MaxGen
      /\ lastOne \in BOOLEAN
  BY <1>1, FrontierFacts DEF FrontierInv, FrontierTypes, Spaced
<1> HIDE DEF g, T, E, ticks
<1>3. /\ lims' \in [1..MaxGen -> Limiter] /\ lims'[g].tokens = T - Token /\ lims'[g].every = E
      /\ \A h \in (1..MaxGen) \ {g} : lims'[h] = lims[h]
  <2>1. T - Token \in Int /\ lims[g] \in Limiter
    BY <1>2
  <2>2. [lims[g] EXCEPT !.tokens = T - Token] \in Limiter
    BY <2>1 DEF Limiter
  <2> QED
    BY <1>1, <1>2, <2>1 DEF Limiter, E
<1>4. \A h \in 1..MaxGen : lims'[h].tokens <= Token
  BY <1>2, <1>3, FrontierFacts
<1>5. T * E \in Int /\ (T - Token) * E = T * E - Token * E /\ Token * E \in Nat
  BY <1>2, Multiply
<1>6. CASE T >= Token
  <2>1. T = Token /\ Granted(w, g = gen) /\ left' = left
    BY <1>1, <1>2, <1>6
  <2>2. g = gen => steady = {}
    <3> SUFFICES ASSUME g = gen, NEW v \in steady PROVE FALSE
      OBVIOUS
    <3>1. T * E + left[v] * Token < Token
      BY <1>2 DEF Spaced, T, E
    <3>2. left[v] \in Nat /\ left[v] * Token >= 0
      BY <1>2
    <3>3. Token * 1 <= Token * E
      BY <1>2
    <3> QED
      BY <1>2, <1>5, <2>1, <3>1, <3>2, <3>3
  <2> DEFINE counts == g = gen
  <2>3. counts \in BOOLEAN /\ Granted(w, counts)
    BY <2>1
  <2>4. lims'[gen].every = lims[gen].every /\ lims'[gen].tokens \in Int
    BY <1>2, <1>3, FrontierFacts DEF E, Limiter
  <2>5. counts => lims'[gen].tokens * lims[gen].every < Token
    <3>1. counts => lims'[gen].tokens = 0
      BY <1>2, <1>3, <2>1
    <3>2. 0 * lims[gen].every = 0
      BY <1>2, FrontierFacts
    <3> QED
      BY <1>2, <3>1, <3>2
  <2>6. \A v \in steady \ {w} :
          lims'[gen].tokens * lims[gen].every + left[v] * Token < Token
    <3>1. CASE g = gen
      BY <2>2, <3>1
    <3>2. CASE g # gen
      BY <1>2, <1>3, <3>2 DEF Spaced
    <3> QED
      BY <3>1, <3>2
  <2>7. counts => \A v \in steady \ {w} : left[v] >= lims[gen].every
    BY <2>2
  <2> HIDE DEF counts
  <2>8. Spaced'
    BY <1>1, <2>1, <2>3, <2>4, <2>5, <2>6, <2>7, Requests
  <2>9. at' \in [Crawls -> Stages] /\ since' \in 0..Slowest /\ lastOne' \in BOOLEAN /\ steady' \subseteq Crawls
    BY <1>2, <2>3, FrontierFacts DEF Granted, MoveTo, Stages
  <2>10. FrontierTypes'
    BY <1>1, <1>3, <2>1, <2>9 DEF FrontierInv, FrontierTypes
  <2> QED
    BY <1>1, <1>4, <2>8, <2>10 DEF FrontierInv
<1>7. CASE ~(T >= Token)
  <2>1. /\ at' = [at EXCEPT ![w] = "parked"] /\ left' = [left EXCEPT ![w] = ticks]
        /\ steady' = IF g = gen THEN steady \cup {w} ELSE steady
        /\ lastOne' = lastOne /\ since' = since
    BY <1>1, <1>7
  <2>2. /\ ticks \in Nat /\ ticks * Token >= -((T - Token) * E)
        /\ (T - Token) * E + ticks * Token < Token
    <3>1. T - Token \in Int /\ T - Token < 0
      BY <1>2, <1>7
    <3> QED
      BY <1>2, <3>1, Waits DEF ticks
  <2>3. ticks * Token >= Token * E - T * E /\ ticks * Token \in Nat
    BY <1>2, <1>5, <2>2
  <2>4. /\ at' \in [Crawls -> Stages] /\ left' \in [Crawls -> Nat] /\ at'[w] = "parked" /\ left'[w] = ticks
        /\ steady' \subseteq Crawls
        /\ \A v \in Crawls \ {w} : at'[v] = at[v] /\ left'[v] = left[v]
    BY <1>2, <2>1, <2>2 DEF Stages
  <2>5. FrontierTypes'
    BY <1>1, <1>3, <2>1, <2>4 DEF FrontierInv, FrontierTypes
  <2>6. CASE g # gen
    <3>1. lims'[gen] = lims[gen] /\ steady' = steady
      BY <1>2, <1>3, <2>1, <2>6
    <3>2. \A v \in steady' : at'[v] = at[v] /\ ref'[v] = ref[v] /\ left'[v] = left[v]
      BY <1>1, <1>2, <2>4, <3>1
    <3>3. Spaced'
      BY <1>1, <1>2, <2>1, <3>1, <3>2, SpacingKept
    <3> QED
      BY <1>1, <1>4, <2>5, <3>3 DEF FrontierInv
  <2>7. CASE g = gen
    <3>1. steady' = steady \cup {w} /\ lims'[gen].tokens = T - Token /\ lims'[gen].every = E
          /\ lims[gen].tokens = T /\ lims[gen].every = E /\ gen' = gen /\ ref' = ref
      BY <1>1, <1>3, <2>1, <2>7 DEF T, E
    <3>2. lastOne' => (T - Token) * E < (since + 1) * Token
      <4>1. lastOne => T * E < (since + 1) * Token
        BY <1>2, <3>1 DEF Spaced
      <4>2. (since + 1) * Token \in Nat
        BY <1>2
      <4> QED
        BY <1>5, <2>1, <4>1, <4>2
    <3>3. ASSUME NEW v \in steady
          PROVE  /\ at'[v] = "parked" /\ ref'[v] = gen' /\ left'[v] = left[v]
                 /\ (T - Token) * E + left[v] * Token < Token
                 /\ lastOne' => since + left[v] >= E
                 /\ ticks >= left[v] + E
      <4>1. at[v] = "parked" /\ ref[v] = gen /\ T * E + left[v] * Token < Token
            /\ (lastOne => since + left[v] >= E)
        BY <1>2, <3>1 DEF Spaced
      <4>2. v # w /\ v \in Crawls /\ left[v] \in Nat /\ left[v] * Token \in Nat
        BY <1>2
      <4>3. (T - Token) * E + left[v] * Token < Token
        <5>1. Token \in Nat /\ T * E \in Int /\ (T - Token) * E = T * E - Token * E /\ Token * E \in Nat
          BY <1>2, <1>5
        <5>2. T * E + left[v] * Token < Token /\ left[v] * Token \in Nat
          BY <4>1, <4>2
        <5> QED
          BY <5>1, <5>2
      <4>4. Token * E + left[v] * Token < ticks * Token + Token
        <5>1. Token \in Nat /\ T * E \in Int /\ Token * E \in Nat
          BY <1>2, <1>5
        <5>2. T * E + left[v] * Token < Token /\ left[v] * Token \in Nat
          BY <4>1, <4>2
        <5> QED
          BY <2>3, <5>1, <5>2
      <4>5. (E + left[v]) * Token < (ticks + 1) * Token
        <5>1. (E + left[v]) * Token = Token * E + left[v] * Token
          BY <1>2, <4>2
        <5>2. (ticks + 1) * Token = ticks * Token + Token
          BY <1>2, <2>2
        <5> QED
          BY <4>4, <5>1, <5>2
      <4>6. E + left[v] < ticks + 1
        BY <1>2, <2>2, <4>2, <4>5, Cancel
      <4>7. at'[v] = "parked" /\ ref'[v] = gen' /\ left'[v] = left[v]
        BY <2>4, <3>1, <4>1, <4>2
      <4>8. lastOne' => since + left[v] >= E
        BY <2>1, <4>1
      <4>9. ticks >= left[v] + E
        BY <1>2, <2>2, <4>2, <4>6
      <4> QED
        BY <4>3, <4>7, <4>8, <4>9
    <3>4. lastOne => since + ticks >= E
      <4> SUFFICES ASSUME lastOne PROVE since + ticks >= E
        OBVIOUS
      <4>1. T * E < (since + 1) * Token /\ (since + 1) * Token \in Nat
        BY <1>2, <3>1 DEF Spaced
      <4>2. Token * E < (since + 1) * Token + ticks * Token
        BY <1>5, <2>3, <4>1
      <4>3. E * Token < (since + 1 + ticks) * Token
        <5>1. (since + 1 + ticks) * Token = (since + 1) * Token + ticks * Token
          BY <1>2, <2>2
        <5>2. E * Token = Token * E
          BY <1>2
        <5> QED
          BY <4>2, <5>1, <5>2
      <4>4. E < since + 1 + ticks
        BY <1>2, <2>2, <4>3, Cancel
      <4> QED
        BY <1>2, <2>2, <4>4
    <3>5. \A u, v \in steady' :
            u # v => left'[u] >= left'[v] + E \/ left'[v] >= left'[u] + E
      <4>1. \A u, v \in steady : u # v => left[u] >= left[v] + E \/ left[v] >= left[u] + E
        BY <1>2, <3>1 DEF Spaced
      <4> QED
        BY <2>4, <3>1, <3>3, <4>1
    <3>6. ASSUME NEW v \in steady'
          PROVE  /\ at'[v] = "parked" /\ ref'[v] = gen'
                 /\ (T - Token) * E + left'[v] * Token < Token
                 /\ lastOne' => since' + left'[v] >= E
      <4>1. CASE v = w
        BY <2>1, <2>2, <2>4, <2>7, <3>1, <3>4, <4>1 DEF g
      <4>2. CASE v # w
        BY <2>1, <3>1, <3>3, <4>2
      <4> QED
        BY <4>1, <4>2
    <3>7. Spaced'
      BY <2>1, <3>1, <3>2, <3>5, <3>6 DEF Spaced
    <3> QED
      BY <1>1, <1>4, <2>5, <3>7 DEF FrontierInv
  <2> QED
    BY <2>6, <2>7
<1> QED
  BY <1>6, <1>7

\* The rest of a crawl.

LEMMA StepCrawls ==
  ASSUME FrontierInv, NEW w \in Crawls, Enter(w) \/ TakeSlot(w) \/ TakeLimiter(w) \/ Release(w)
  PROVE  FrontierInv'
<1>1. /\ gen \in 1..MaxGen /\ ref[w] \in 1..MaxGen /\ ref \in [Crawls -> 1..MaxGen]
  BY FrontierFacts DEF FrontierInv, FrontierTypes
<1>2. ref = [ref EXCEPT ![w] = ref[w]]
  BY <1>1
<1>3. CASE Enter(w)
  <2>1. /\ at[w] # "parked" /\ MoveTo(w, "slot") /\ ref' = [ref EXCEPT ![w] = ref[w]] /\ "slot" \in Stages
        /\ UNCHANGED <<base, throttle, floor, gen, lims, left, steady, lastOne, since>>
    BY <1>2, <1>3 DEF Enter, rates, limVars, pastRequests, Stages
  <2> QED
    BY <1>1, <2>1, StepMove
<1>4. CASE TakeSlot(w)
  <2>1. /\ at[w] # "parked" /\ MoveTo(w, "ready") /\ ref' = [ref EXCEPT ![w] = ref[w]] /\ "ready" \in Stages
        /\ UNCHANGED <<base, throttle, floor, gen, lims, left, steady, lastOne, since>>
    BY <1>2, <1>4 DEF TakeSlot, rates, limVars, pastRequests, Stages
  <2> QED
    BY <1>1, <2>1, StepMove
<1>5. CASE TakeLimiter(w)
  <2>1. /\ at[w] # "parked" /\ MoveTo(w, "reserve") /\ ref' = [ref EXCEPT ![w] = gen] /\ "reserve" \in Stages
        /\ UNCHANGED <<base, throttle, floor, gen, lims, left, steady, lastOne, since>>
    BY <1>5 DEF TakeLimiter, rates, limVars, pastRequests, Stages
  <2> QED
    BY <1>1, <2>1, StepMove
<1>6. CASE Release(w)
  <2>1. /\ at[w] # "parked" /\ MoveTo(w, "idle") /\ ref' = [ref EXCEPT ![w] = ref[w]] /\ "idle" \in Stages
        /\ UNCHANGED <<base, throttle, floor, gen, lims, left, steady, lastOne, since>>
    BY <1>2, <1>6 DEF Release, rates, limVars, pastRequests, Stages
  <2> QED
    BY <1>1, <2>1, StepMove
<1> QED
  BY <1>3, <1>4, <1>5, <1>6

\* A token given back goes to a limiter that has been replaced.
LEMMA StepRetry == ASSUME FrontierInv, NEW w \in Crawls, Retry(w) PROVE FrontierInv'
<1> DEFINE g == ref[w]
           tokens == Smaller(Token, lims[g].tokens + Token)
<1>1. /\ g < gen
      /\ lims' = [lims EXCEPT ![g].tokens = tokens] \/ lims' = lims
      /\ at' = [at EXCEPT ![w] = "ready"] /\ left' = [left EXCEPT ![w] = 0]
      /\ UNCHANGED <<base, throttle, floor, gen, ref, steady, lastOne, since>>
  BY DEF Retry, MoveTo, rates, pastRequests
<1>2. /\ g \in 1..MaxGen /\ lims[g] \in Limiter /\ lims[g].tokens \in Int /\ Token \in Nat
      /\ lims \in [1..MaxGen -> Limiter] /\ at \in [Crawls -> Stages] /\ left \in [Crawls -> Nat]
      /\ gen \in 1..MaxGen /\ steady \subseteq Crawls /\ Spaced
  BY FrontierFacts DEF FrontierInv, FrontierTypes
<1>3. tokens \in Int /\ tokens <= Token
  BY <1>2 DEF Smaller
<1> HIDE DEF g, tokens
<1>4. /\ lims' \in [1..MaxGen -> Limiter] /\ lims'[gen] = lims[gen]
      /\ \A h \in 1..MaxGen : lims'[h].tokens <= Token
  <2>1. CASE lims' = lims
    BY <1>2, <2>1, FrontierFacts
  <2>2. CASE lims' = [lims EXCEPT ![g].tokens = tokens]
    <3>1. lims'[g].tokens = tokens /\ lims'[g] \in Limiter /\ \A h \in (1..MaxGen) \ {g} : lims'[h] = lims[h]
      BY <1>2, <1>3, <2>2 DEF Limiter
    <3>2. g # gen
      BY <1>1, <1>2
    <3> QED
      BY <1>2, <1>3, <2>2, <3>1, <3>2, FrontierFacts
  <2> QED
    BY <1>1, <2>1, <2>2
<1>5. w \notin steady
  BY <1>1, <1>2 DEF Spaced, g
<1>6. at' \in [Crawls -> Stages] /\ left' \in [Crawls -> Nat]
      /\ \A v \in steady' : at'[v] = at[v] /\ ref'[v] = ref[v] /\ left'[v] = left[v]
  BY <1>1, <1>2, <1>5 DEF Stages
<1>7. Spaced'
  BY <1>1, <1>2, <1>4, <1>6, SpacingKept
<1>8. FrontierTypes'
  BY <1>1, <1>4, <1>6 DEF FrontierInv, FrontierTypes
<1> QED
  BY <1>1, <1>4, <1>7, <1>8 DEF FrontierInv

LEMMA StepAbandon == ASSUME FrontierInv, NEW w \in Crawls, Abandon(w) PROVE FrontierInv'
<1>1. /\ at' = [at EXCEPT ![w] = "idle"] /\ left' = [left EXCEPT ![w] = 0] /\ steady' = steady \ {w}
      /\ UNCHANGED <<base, throttle, floor, gen, lims, ref, lastOne, since>>
  BY DEF Abandon, MoveTo, rates, limVars
<1>2. /\ at \in [Crawls -> Stages] /\ left \in [Crawls -> Nat] /\ ref \in [Crawls -> 1..MaxGen]
      /\ steady \subseteq Crawls
  BY DEF FrontierInv, FrontierTypes
<1>3. at' \in [Crawls -> Stages] /\ left' \in [Crawls -> Nat] /\ ref' \in [Crawls -> 1..MaxGen]
      /\ \A v \in steady' : at'[v] = at[v] /\ ref'[v] = ref[v] /\ left'[v] = left[v]
  BY <1>1, <1>2 DEF Stages
<1> QED
  BY <1>1, <1>3, StepAside

\* A tick pays off one interval's part of a token, and waits get shorter by one.
LEMMA StepFrontierTick == ASSUME FrontierInv, FrontierTick PROVE FrontierInv'
<1> DEFINE part(g) == Token \div lims[g].every
           tokens(g) == Smaller(Token, lims[g].tokens + part(g))
<1>1. /\ \A w \in Crawls : at[w] = "parked" => left[w] > 0
      /\ left' = [w \in Crawls |-> IF at[w] = "parked" THEN left[w] - 1 ELSE left[w]]
      /\ lims' = [g \in 1..MaxGen |-> [lims[g] EXCEPT !.tokens = tokens(g)]]
      /\ since' = Smaller(Slowest, since + 1)
      /\ UNCHANGED <<base, throttle, floor, gen, at, ref, steady, lastOne>>
  BY DEF FrontierTick, rates
<1>2. ASSUME NEW g \in 1..MaxGen
      PROVE  /\ part(g) \in Nat /\ part(g) * lims[g].every <= Token
             /\ tokens(g) \in Int /\ tokens(g) <= Token /\ tokens(g) <= lims[g].tokens + part(g)
  <2>1. Token \in Nat /\ lims[g].every \in Nat \ {0} /\ lims[g].tokens \in Int
    BY FrontierFacts
  <2>2. part(g) \in Nat /\ part(g) * lims[g].every <= Token
    BY <2>1, Quotient
  <2> HIDE DEF part
  <2> QED
    BY <2>1, <2>2 DEF Smaller
<1> HIDE DEF part, tokens
<1>3. ASSUME NEW g \in 1..MaxGen
      PROVE  /\ lims'[g] \in Limiter /\ lims'[g].tokens = tokens(g) /\ lims'[g].every = lims[g].every
  <2>1. lims[g] \in Limiter /\ lims'[g] = [lims[g] EXCEPT !.tokens = tokens(g)]
    BY <1>1, FrontierFacts
  <2> QED
    BY <1>2, <2>1 DEF Limiter
<1>4. lims' \in [1..MaxGen -> Limiter] /\ \A g \in 1..MaxGen : lims'[g].tokens <= Token
  BY <1>1, <1>2, <1>3
<1>5. ASSUME NEW w \in Crawls PROVE left'[w] \in Nat /\ (at[w] = "parked" => left'[w] = left[w] - 1)
  BY <1>1, FrontierFacts
<1>6. since' \in 0..Slowest /\ (since' = since + 1 \/ since' = Slowest)
  BY <1>1, FrontierFacts DEF Smaller
<1>7. FrontierTypes'
  <2>1. left' \in [Crawls -> Nat]
    BY <1>1, <1>5
  <2> QED
    BY <1>1, <1>4, <1>6, <2>1 DEF FrontierInv, FrontierTypes
<1> DEFINE T == lims[gen].tokens
           E == lims[gen].every
           U == tokens(gen)
<1>8. /\ T \in Int /\ E \in Nat \ {0} /\ E <= Slowest /\ U \in Int /\ U <= Token /\ Token \in Nat \ {0}
      /\ lims'[gen'].tokens = U /\ lims'[gen'].every = E /\ gen' = gen
      /\ since \in Nat /\ steady \subseteq Crawls /\ Slowest \in Nat
  BY <1>1, <1>2, <1>3, FrontierFacts DEF FrontierInv, FrontierTypes
<1>9. U * E \in Int /\ T * E \in Int /\ U * E <= T * E + Token
  <2>1. part(gen) \in Nat /\ part(gen) * E <= Token /\ U <= T + part(gen)
    BY <1>2, FrontierFacts
  <2> HIDE DEF T, E, U
  <2>2. U * E <= (T + part(gen)) * E
    BY <1>8, <2>1, Multiply
  <2>3. (T + part(gen)) * E = T * E + part(gen) * E
    BY <1>8, <2>1, Multiply
  <2> QED
    BY <1>8, <2>1, <2>2, <2>3
<1>10. Spaced
  BY DEF FrontierInv
<1>11. /\ lastOne => T * E < (since + 1) * Token
       /\ \A w \in steady : /\ at[w] = "parked" /\ ref[w] = gen
                            /\ T * E + left[w] * Token < Token
                            /\ lastOne => since + left[w] >= E
       /\ \A v, w \in steady : v # w => left[v] >= left[w] + E \/ left[w] >= left[v] + E
  BY <1>10 DEF Spaced
<1> HIDE DEF T, E, U
<1>12. lastOne => U * E < (since' + 1) * Token
  <2> SUFFICES ASSUME lastOne PROVE U * E < (since' + 1) * Token
    OBVIOUS
  <2>1. CASE since' = since + 1
    <3>1. (since + 1 + 1) * Token = (since + 1) * Token + Token /\ (since + 1) * Token \in Nat
      BY <1>8
    <3> QED
      BY <1>8, <1>9, <1>11, <2>1, <3>1
  <2>2. CASE since' = Slowest
    <3>1. U * E <= Token * E
      BY <1>8, Multiply
    <3>2. Token * E <= Slowest * Token
      BY <1>8, Multiply
    <3>3. (Slowest + 1) * Token = Slowest * Token + Token
      BY <1>8
    <3> QED
      BY <1>8, <1>9, <2>2, <3>1, <3>2, <3>3
  <2> QED
    BY <1>6, <2>1, <2>2
<1>13. ASSUME NEW w \in steady
       PROVE  /\ at'[w] = "parked" /\ ref'[w] = gen'
              /\ U * E + left'[w] * Token < Token
              /\ lastOne' => since' + left'[w] >= E
  <2>1. w \in Crawls /\ left[w] \in Nat /\ left[w] > 0 /\ left'[w] = left[w] - 1
    BY <1>1, <1>5, <1>8, <1>11, FrontierFacts
  <2>2. (left[w] - 1) * Token = left[w] * Token - Token /\ left[w] * Token \in Nat
    BY <1>8, <2>1
  <2>3. U * E + left'[w] * Token < Token
    BY <1>8, <1>9, <1>11, <2>1, <2>2
  <2>4. lastOne' => since' + left'[w] >= E
    <3>1. lastOne' => since + left[w] >= E
      BY <1>1, <1>11
    <3>2. E \in Nat /\ E <= Slowest /\ since \in Nat /\ Slowest \in Nat
      BY <1>8
    <3> QED
      BY <1>6, <2>1, <3>1, <3>2
  <2> QED
    BY <1>1, <1>11, <2>3, <2>4
<1>14. \A v, w \in steady : v # w => left'[v] >= left'[w] + E \/ left'[w] >= left'[v] + E
  <2>1. \A w \in steady : left'[w] = left[w] - 1 /\ left[w] \in Nat
    BY <1>5, <1>8, <1>11, FrontierFacts
  <2> QED
    BY <1>8, <1>11, <2>1
<1>15. Spaced'
  BY <1>1, <1>8, <1>12, <1>13, <1>14 DEF Spaced
<1> QED
  BY <1>4, <1>7, <1>8, <1>15 DEF FrontierInv, FrontierTypes

LEMMA FrontierInductive == FrontierInv /\ [FrontierNext]_frontierVars => FrontierInv'
BY StepRate, StepSwitch, StepBegin, StepCrawls, StepReserve, StepWake, StepRetry, StepAbandon,
   StepReport, StepFrontierTick DEF FrontierNext, CrawlStep

\* A step that makes a request is that of a crawl that finds a token or has waited for one.
LEMMA WhoRequests ==
  ASSUME FrontierInv, [FrontierNext]_frontierVars, NEW w \in Crawls, Requested(w)
  PROVE  \/ Wake(w)
         \/ Reserve(w) /\ lims[ref[w]].tokens >= Token
<1>0. at[w] # "fetch" /\ at'[w] = "fetch" /\ at \in [Crawls -> Stages]
  BY DEF Requested, FrontierInv, FrontierTypes
<1>1. ASSUME NEW v \in Crawls, NEW step, MoveTo(v, step), step # "fetch" PROVE FALSE
  BY <1>0, <1>1 DEF MoveTo
<1>2. ASSUME at' = at PROVE FALSE
  BY <1>0, <1>2
<1>3. ASSUME NEW v \in Crawls, MoveTo(v, "fetch") PROVE v = w
  BY <1>0, <1>3 DEF MoveTo
<1>4. ASSUME NEW v \in Crawls, CrawlStep(v)
      PROVE  \/ Wake(w)
             \/ Reserve(w) /\ lims[ref[w]].tokens >= Token
  <2>1. CASE Wake(v)
    BY <1>3, <2>1 DEF Wake, Granted
  <2>2. CASE Reserve(v)
    <3>1. CASE lims[ref[v]].tokens >= Token
      <4>1. MoveTo(v, "fetch")
        BY <2>2, <3>1 DEF Reserve, Granted
      <4> QED
        BY <1>3, <2>2, <3>1, <4>1
    <3>2. CASE ~(lims[ref[v]].tokens >= Token)
      <4>1. MoveTo(v, "parked")
        BY <2>2, <3>2 DEF Reserve
      <4> QED
        BY <1>1, <4>1
    <3> QED
      BY <3>1, <3>2
  <2>3. CASE Enter(v) \/ TakeSlot(v) \/ TakeLimiter(v) \/ Retry(v)
    BY <1>1, <2>3 DEF Enter, TakeSlot, TakeLimiter, Retry
  <2>4. CASE Abandon(v) \/ Release(v)
    BY <1>1, <2>4 DEF Abandon, Release
  <2>5. CASE \E bad \in BOOLEAN : Report(v, bad)
    BY <1>1, <2>5 DEF Report
  <2> QED
    BY <1>4, <2>1, <2>2, <2>3, <2>4, <2>5 DEF CrawlStep
<1>5. ~\E b \in Bases : SetHostRate(b)
  BY <1>2 DEF SetHostRate, slotVars
<1>6. ~(SetPaused \/ StopDaemon \/ FrontierTick \/ UNCHANGED frontierVars)
  BY <1>2 DEF SetPaused, StopDaemon, FrontierTick, frontierVars, slotVars
<1>7. ~\E v \in Crawls, delay \in Delays : BeginCrawl(v, delay)
  BY <1>1 DEF BeginCrawl
<1> QED
  BY <1>4, <1>5, <1>6, <1>7 DEF FrontierNext

LEMMA RequestsSpaced ==
  ASSUME FrontierInv, [FrontierNext]_frontierVars, NEW w \in Crawls, Requested(w), lastOne, lastOne'
  PROVE  since >= lims[gen].every
<1> DEFINE T == lims[gen].tokens
           E == lims[gen].every
<1>1. /\ T \in Int /\ T <= Token /\ E \in Nat \ {0} /\ Token \in Nat \ {0} /\ since \in Nat
      /\ T * E < (since + 1) * Token
  BY FrontierFacts DEF Spaced
<1>2. CASE Wake(w)
  <2>1. w \in steady /\ left[w] = 0
    BY <1>2 DEF Wake, Granted
  <2> QED
    BY <1>1, <2>1 DEF FrontierInv, Spaced
<1>3. CASE Reserve(w) /\ lims[ref[w]].tokens >= Token
  <2>1. ref[w] = gen
    BY <1>3 DEF Reserve, Granted
  <2>2. T = Token
    BY <1>1, <1>3, <2>1
  <2> HIDE DEF T, E
  <2>3. E * Token < (since + 1) * Token
    BY <1>1, <2>2
  <2>4. E < since + 1
    BY <1>1, <2>3, Cancel
  <2> QED
    BY <1>1, <2>4 DEF E
<1> QED
  BY <1>2, <1>3, WhoRequests

(* While the rate of a host stays the same its requests are an interval apart, for
   any number of crawls and slots and any rates, whatever was parked when the rate
   changed (internal/frontier/frontier.go). *)
THEOREM SteadySpacingCorrect == FrontierSpec => SteadySpacing
<1>1. FrontierInv /\ [FrontierNext]_frontierVars =>
        [\A w \in Crawls : Requested(w) /\ lastOne /\ lastOne' => since >= lims[gen].every]_frontierVars
  BY RequestsSpaced
<1> QED
  BY <1>1, FrontierInitially, FrontierInductive, PTL DEF FrontierSpec, SteadySpacing

-----------------------------------------------------------------------------
(* What the limiter is owed.  A crawl that parks waits a tick at least for *)
(* each token of the debt, and each tick pays off what the slowest rate    *)
(* earns, however often the rate changes meanwhile.  So by the time l more *)
(* ticks have passed, l of those parts are paid, and only the slots whose  *)
(* crawls wait no longer than that can have asked for one token more.      *)

EarnedLeast == Token \div Slowest
Due == Slots * Slowest * Token

WaitsLonger(l) == {w \in Crawls : at[w] = "parked" /\ ref[w] = gen /\ left[w] > l}
WillReserve(g) == {w \in Crawls : at[w] = "reserve" /\ ref[w] = g}

SlotsHeld == IsFiniteSet(Holding) /\ Cardinality(Holding) <= Slots

Foreseen == \A l \in Nat :
  (Slots - Cardinality(WaitsLonger(l))) * Token - lims[gen].tokens <= Due + l * EarnedLeast

\* A limiter that was replaced is asked by those who have taken it already, and no others.
LeftBehind == \A g \in 1..MaxGen :
  g < gen => Cardinality(WillReserve(g)) * Token - lims[g].tokens <= Due

Solvent ==
  /\ paused \in BOOLEAN /\ stopping \in BOOLEAN
  /\ SlotsHeld
  /\ \A g \in 1..MaxGen : -lims[g].tokens <= Due
  /\ \A w \in Crawls : left[w] <= Longest /\ ref[w] <= gen
  /\ ~stopping => Foreseen /\ LeftBehind

DebtInv == FrontierInv /\ Solvent

\* Arithmetic: what a tick earns, and that of a debt the slowest rate leaves the rest.
LEMMA Earnings ==
  /\ Slots \in Nat \ {0} /\ Token \in Nat \ {0} /\ Slowest \in Nat \ {0}
  /\ EarnedLeast \in Nat \ {0} /\ EarnedLeast * Slowest = Token
  /\ Due \in Nat /\ Slots * Token <= Due /\ Longest \in Nat
  /\ \A every \in Every : Token \div every \in Nat /\ Token \div every >= EarnedLeast
<1>1. Slots \in Nat \ {0} /\ Token \in Nat \ {0} /\ Slowest \in Nat \ {0} /\ Token % Slowest = 0
  BY FrontierAssumption, SlowestIs, TokenAssumption
<1>2. EarnedLeast \in Nat /\ EarnedLeast * Slowest = Token
  BY <1>1 DEF EarnedLeast
<1>3. EarnedLeast # 0
  BY <1>1, <1>2
<1>4. Slots * Slowest \in Nat /\ Slots <= Slots * Slowest
  BY <1>1
<1>5. Slots * Slowest * Token \in Nat /\ Slots * Token <= Slots * Slowest * Token
  BY <1>1, <1>4, Multiply
<1>6. Slots * Slowest * Slowest \in Nat
  BY <1>1, <1>4
<1>7. ASSUME NEW every \in Every PROVE Token \div every \in Nat /\ Token \div every >= EarnedLeast
  <2>1. every \in Nat \ {0} /\ every <= Slowest
    BY <1>1 DEF Every
  <2>2. Token \div every \in Nat /\ Token < (Token \div every) * every + every
    BY <1>1, <2>1, Quotient
  <2>3. EarnedLeast * every <= Token
    BY <1>1, <1>2, <2>1, Multiply
  <2>4. PICK q \in Nat : q = Token \div every
    BY <2>2
  <2>5. Token < q * every + every /\ q * every \in Nat /\ EarnedLeast * every \in Nat
    BY <1>2, <2>1, <2>2, <2>4
  <2>6. (q + 1) * every = q * every + every
    BY <2>1
  <2>7. EarnedLeast * every < (q + 1) * every
    <3> DEFINE x == EarnedLeast * every
               y == q * every
               z == (q + 1) * every
    <3>1. x \in Nat /\ y \in Nat /\ x <= Token /\ Token < y + every /\ z = y + every
      BY <2>3, <2>5, <2>6
    <3> HIDE DEF x, y, z
    <3>2. x < z
      BY <1>1, <2>1, <3>1
    <3> QED
      BY <3>2 DEF x, z
  <2>8. EarnedLeast < q + 1
    BY <1>2, <2>1, <2>7, Cancel
  <2> QED
    BY <1>2, <2>4, <2>8
<1> QED
  BY <1>1, <1>2, <1>3, <1>5, <1>6, <1>7 DEF Due, Longest

LEMMA DebtFacts ==
  ASSUME DebtInv
  PROVE  /\ FrontierTypes /\ stopping \in BOOLEAN /\ paused \in BOOLEAN
         /\ gen \in 1..MaxGen
         /\ \A g \in 1..MaxGen : /\ lims[g].tokens \in Int /\ lims[g].tokens <= Token /\ -lims[g].tokens <= Due
                                 /\ lims[g].every \in Every
         /\ \A w \in Crawls : at[w] \in Stages /\ left[w] \in 0..Longest /\ ref[w] \in 1..MaxGen /\ ref[w] <= gen
<1>1. FrontierInv /\ Solvent
  BY DEF DebtInv
<1>2. \A w \in Crawls : left[w] \in Nat /\ left[w] <= Longest
  BY <1>1, FrontierFacts DEF Solvent
<1>3. \A g \in 1..MaxGen : lims[g].every \in Every
  BY <1>1, FrontierFacts DEF Every
<1> QED
  BY <1>1, <1>2, <1>3, FrontierFacts, Earnings DEF Solvent

\* The crawls that hold a slot are not more than there are slots.
LEMMA AtMostSlots ==
  ASSUME NEW H, IsFiniteSet(H), Cardinality(H) <= Slots, NEW S \in SUBSET H
  PROVE  IsFiniteSet(S) /\ Cardinality(S) \in 0..Slots
<1>1. IsFiniteSet(S) /\ Cardinality(S) <= Cardinality(H)
  BY FS_Subset
<1>2. Cardinality(S) \in Nat /\ Cardinality(H) \in Nat
  BY <1>1, FS_CardinalityType
<1> QED
  BY <1>1, <1>2, Earnings

\* Those who wait and those who are about to ask hold slots.
LEMMA Counted ==
  ASSUME SlotsHeld
  PROVE  /\ \A l \in Nat : IsFiniteSet(WaitsLonger(l)) /\ Cardinality(WaitsLonger(l)) \in 0..Slots
         /\ \A g \in 1..MaxGen : IsFiniteSet(WillReserve(g)) /\ Cardinality(WillReserve(g)) \in 0..Slots
         /\ \A l \in Nat : Cardinality(WillReserve(gen)) + Cardinality(WaitsLonger(l)) <= Slots
         /\ \A l \in Nat : \A w \in Crawls \ WaitsLonger(l) : w \in Holding => Cardinality(WaitsLonger(l)) < Slots
<1>1. ASSUME NEW S \in SUBSET Holding
      PROVE  IsFiniteSet(S) /\ Cardinality(S) \in 0..Slots
  BY AtMostSlots DEF SlotsHeld
<1>2. \A l \in Nat : WaitsLonger(l) \in SUBSET Holding
  BY DEF WaitsLonger, Holding
<1>3. \A g \in 1..MaxGen : WillReserve(g) \in SUBSET Holding
  BY DEF WillReserve, Holding
<1>4. ASSUME NEW l \in Nat PROVE Cardinality(WillReserve(gen)) + Cardinality(WaitsLonger(l)) <= Slots
  <2> DEFINE A == WillReserve(gen)
             B == WaitsLonger(l)
  <2>1. A \cap B = {} /\ A \cup B \in SUBSET Holding /\ A \in SUBSET Holding /\ B \in SUBSET Holding
    BY DEF WillReserve, WaitsLonger, Holding
  <2> HIDE DEF A, B
  <2>2. /\ IsFiniteSet(A) /\ IsFiniteSet(B) /\ Cardinality(A \cup B) \in 0..Slots
        /\ Cardinality(A) \in Nat /\ Cardinality(B) \in Nat
    <3>1. Slots \in Nat
      BY Earnings
    <3> QED
      BY <1>1, <2>1, <3>1
  <2>3. Cardinality(A \cup B) = Cardinality(A) + Cardinality(B) - Cardinality({})
    BY <2>1, <2>2, FS_Union
  <2> QED
    BY <2>2, <2>3, FS_EmptySet, Earnings DEF A, B
<1>5. ASSUME NEW l \in Nat, NEW w \in Crawls \ WaitsLonger(l), w \in Holding
      PROVE  Cardinality(WaitsLonger(l)) < Slots
  <2> DEFINE B == WaitsLonger(l)
  <2>1. B \in SUBSET Holding /\ B \cup {w} \in SUBSET Holding /\ w \notin B
    BY <1>2, <1>5
  <2> HIDE DEF B
  <2>2. IsFiniteSet(B) /\ Cardinality(B) \in 0..Slots /\ Cardinality(B \cup {w}) \in 0..Slots
    BY <1>1, <2>1
  <2>3. Cardinality(B \cup {w}) = Cardinality(B) + 1
    BY <2>1, <2>2, FS_AddElement
  <2> QED
    BY <2>2, <2>3, Earnings DEF B
<1> QED
  BY <1>1, <1>2, <1>3, <1>4, <1>5

\* What counts less owes less.
LEMMA FewerOwe ==
  ASSUME NEW a \in Int, NEW b \in Int, a <= b, NEW t \in Int, NEW u \in Int, t <= u
  PROVE  /\ a * Token - u <= b * Token - t
         /\ a * Token \in Int /\ b * Token \in Int
<1>1. Token \in Nat
  BY Earnings
<1>2. a * Token \in Int /\ b * Token \in Int /\ a * Token <= b * Token
  BY <1>1, Multiply
<1> QED
  BY <1>2

LEMMA DebtInitially == FrontierInit => DebtInv
<1> SUFFICES ASSUME FrontierInit PROVE DebtInv
  OBVIOUS
<1>1. Holding = {} /\ gen = 1
  BY DEF FrontierInit, Holding
<1>2. SlotsHeld
  BY <1>1, FS_EmptySet, Earnings DEF SlotsHeld
<1>3. \A g \in 1..MaxGen : lims[g].tokens = Token
  BY DEF FrontierInit, Full
<1>4. Foreseen
  <2> SUFFICES ASSUME NEW l \in Nat
               PROVE  (Slots - Cardinality(WaitsLonger(l))) * Token - lims[gen].tokens <= Due + l * EarnedLeast
    BY DEF Foreseen
  <2>1. Cardinality(WaitsLonger(l)) \in 0..Slots
    BY <1>2, Counted
  <2>2. lims[gen].tokens = Token
    BY <1>1, <1>3, FrontierAssumption
  <2>3. (Slots - Cardinality(WaitsLonger(l))) * Token - Token <= Slots * Token - 0
    BY <2>1, FewerOwe, Earnings
  <2> DEFINE more == (Slots - Cardinality(WaitsLonger(l))) * Token
             paid == l * EarnedLeast
             all == Slots * Token
  <2>4. paid \in Nat /\ all \in Nat /\ more \in Int /\ all <= Due /\ Due \in Nat /\ Token \in Nat
    BY <2>1, Earnings, Multiply
  <2>5. more - Token <= all - 0
    BY <2>3
  <2> HIDE DEF more, paid, all
  <2>6. more - Token <= Due + paid
    BY <2>4, <2>5
  <2> QED
    BY <2>2, <2>6 DEF more, paid
<1>5. LeftBehind
  BY <1>1 DEF LeftBehind
<1>6. \A w \in Crawls : left[w] <= Longest /\ ref[w] <= gen
  BY Earnings DEF FrontierInit
<1>7. \A g \in 1..MaxGen : -lims[g].tokens <= Due
  BY <1>3, Earnings
<1>8. paused \in BOOLEAN /\ stopping \in BOOLEAN
  BY DEF FrontierInit
<1> QED
  BY <1>2, <1>4, <1>5, <1>6, <1>7, <1>8, FrontierInitially DEF DebtInv, Solvent

\* A crawl that moves holds a slot as before, or less, or takes one that is free.
LEMMA SlotsKept ==
  ASSUME DebtInv, NEW w \in Crawls, NEW step \in Stages, MoveTo(w, step),
         \/ at[w] \notin {"idle", "entry", "slot"}
         \/ step \in {"idle", "entry", "slot"}
         \/ Cardinality(Holding) < Slots
  PROVE  SlotsHeld'
<1>1. IsFiniteSet(Holding) /\ Cardinality(Holding) <= Slots /\ Slots \in Nat /\ Cardinality(Holding) \in Nat
  BY Earnings, FS_CardinalityType DEF DebtInv, Solvent, SlotsHeld
<1>2. at' = [at EXCEPT ![w] = step] /\ at \in [Crawls -> Stages]
  BY DebtFacts DEF MoveTo, FrontierTypes
<1>3. CASE Cardinality(Holding) < Slots
  <2>1. Holding' \in SUBSET (Holding \cup {w})
    BY <1>2 DEF Holding
  <2>2. IsFiniteSet(Holding \cup {w}) /\ Cardinality(Holding \cup {w}) <= Slots
    <3>1. /\ IsFiniteSet(Holding \cup {w})
          /\ Cardinality(Holding \cup {w}) = IF w \in Holding THEN Cardinality(Holding) ELSE Cardinality(Holding) + 1
      BY <1>1, FS_AddElement
    <3> QED
      BY <1>1, <1>3, <3>1
  <2>3. Cardinality(Holding \cup {w}) \in Nat /\ Cardinality(Holding') <= Cardinality(Holding \cup {w})
        /\ IsFiniteSet(Holding')
    BY <2>1, <2>2, FS_Subset, FS_CardinalityType
  <2> QED
    BY <1>1, <2>2, <2>3, FS_CardinalityType DEF SlotsHeld
<1>4. CASE ~(Cardinality(Holding) < Slots)
  <2>1. Holding' \in SUBSET Holding
    BY <1>2, <1>4 DEF Holding
  <2>2. IsFiniteSet(Holding') /\ Cardinality(Holding') <= Cardinality(Holding)
    BY <1>1, <2>1, FS_Subset
  <2> QED
    BY <1>1, <2>2, FS_CardinalityType DEF SlotsHeld
<1> QED
  BY <1>3, <1>4

\* No limiter owes more, and those who wait for the present one go on waiting.
LEMMA DebtKept ==
  ASSUME DebtInv, FrontierInv', SlotsHeld', gen' = gen, paused' \in BOOLEAN, stopping' \in BOOLEAN,
         stopping => stopping',
         \A g \in 1..MaxGen : lims'[g].tokens >= lims[g].tokens,
         \A w \in Crawls : /\ left'[w] = left[w] \/ left'[w] = 0
                           /\ ref'[w] = ref[w] \/ ref'[w] = gen,
         stopping' \/ \A w \in Crawls :
           /\ at[w] = "parked" /\ ref[w] = gen /\ left[w] > 0 => at'[w] = "parked" /\ ref'[w] = gen /\ left'[w] = left[w]
           /\ at'[w] = "reserve" /\ ref'[w] # gen => at[w] = "reserve" /\ ref'[w] = ref[w]
  PROVE  DebtInv'
<1>1. \A g \in 1..MaxGen : lims'[g].tokens \in Int /\ lims[g].tokens \in Int
  <2>1. \A g \in 1..MaxGen : lims'[g] \in Limiter
    BY DEF FrontierInv, FrontierTypes
  <2> QED
    BY <2>1, DebtFacts DEF Limiter
<1>2. \A g \in 1..MaxGen : -lims'[g].tokens <= Due
  BY <1>1, DebtFacts, Earnings
<1>3. \A w \in Crawls : left'[w] <= Longest /\ ref'[w] <= gen'
  BY DebtFacts, Earnings
<1>4. ASSUME ~stopping' PROVE Foreseen'
  <2> SUFFICES ASSUME NEW l \in Nat
               PROVE  (Slots - Cardinality(WaitsLonger(l)')) * Token - lims'[gen].tokens <= Due + l * EarnedLeast
    BY DEF Foreseen
  <2>1. WaitsLonger(l) \in SUBSET WaitsLonger(l)'
    <3> SUFFICES ASSUME NEW w \in WaitsLonger(l) PROVE w \in WaitsLonger(l)'
      OBVIOUS
    <3>1. w \in Crawls /\ at[w] = "parked" /\ ref[w] = gen /\ left[w] > l
      BY DEF WaitsLonger
    <3>2. left[w] > 0
      BY <3>1, DebtFacts, Earnings
    <3> QED
      BY <1>4, <3>1, <3>2 DEF WaitsLonger
  <2>2. IsFiniteSet(WaitsLonger(l)') /\ Cardinality(WaitsLonger(l)') \in 0..Slots
    <3>1. WaitsLonger(l)' \in SUBSET Holding'
      BY DEF WaitsLonger, Holding
    <3>2. IsFiniteSet(Holding') /\ Cardinality(Holding') <= Slots
      BY DEF SlotsHeld
    <3> QED
      BY <3>1, <3>2, AtMostSlots
  <2>3. /\ Cardinality(WaitsLonger(l)) <= Cardinality(WaitsLonger(l)')
        /\ Cardinality(WaitsLonger(l)) \in 0..Slots
    BY <2>1, <2>2, FS_Subset, Counted DEF DebtInv, Solvent
  <2>4. (Slots - Cardinality(WaitsLonger(l)')) * Token - lims'[gen].tokens
          <= (Slots - Cardinality(WaitsLonger(l))) * Token - lims[gen].tokens
    BY <1>1, <2>2, <2>3, FewerOwe, DebtFacts, Earnings
  <2> DEFINE one == (Slots - Cardinality(WaitsLonger(l)')) * Token
             other == (Slots - Cardinality(WaitsLonger(l))) * Token
             paid == l * EarnedLeast
  <2>5. one \in Int /\ other \in Int /\ paid \in Nat /\ Due \in Nat
    <3>1. /\ Slots - Cardinality(WaitsLonger(l)') \in Int /\ Slots - Cardinality(WaitsLonger(l)) \in Int
          /\ Token \in Nat /\ EarnedLeast \in Nat /\ Due \in Nat
      BY <2>2, <2>3, Earnings
    <3>2. paid \in Nat
      BY <3>1, Multiply
    <3> QED
      BY <3>1, <3>2, Multiply
  <2>6. other - lims[gen].tokens <= Due + paid
    BY <1>4 DEF DebtInv, Solvent, Foreseen
  <2>7. one - lims'[gen].tokens <= other - lims[gen].tokens
    BY <2>4
  <2>8. lims'[gen].tokens \in Int /\ lims[gen].tokens \in Int
    BY <1>1, DebtFacts
  <2> HIDE DEF one, other, paid
  <2>9. one - lims'[gen].tokens <= Due + paid
    BY <2>5, <2>6, <2>7, <2>8
  <2> QED
    BY <2>9 DEF one, paid
<1>5. ASSUME ~stopping', NEW g \in 1..MaxGen, g < gen
      PROVE  Cardinality(WillReserve(g)') * Token - lims'[g].tokens <= Due
  <2>1. WillReserve(g)' \in SUBSET WillReserve(g)
    BY <1>5, DebtFacts DEF WillReserve
  <2>2. IsFiniteSet(WillReserve(g)) /\ Cardinality(WillReserve(g)) \in 0..Slots
    BY Counted DEF DebtInv, Solvent
  <2>3. Cardinality(WillReserve(g)') <= Cardinality(WillReserve(g)) /\ Cardinality(WillReserve(g)') \in Nat
    BY <2>1, <2>2, FS_Subset, FS_CardinalityType
  <2> DEFINE one == Cardinality(WillReserve(g)') * Token
             other == Cardinality(WillReserve(g)) * Token
  <2>4. one - lims'[g].tokens <= other - lims[g].tokens /\ one \in Int /\ other \in Int
    BY <1>1, <2>2, <2>3, FewerOwe, Earnings
  <2>5. other - lims[g].tokens <= Due
    BY <1>5 DEF DebtInv, Solvent, LeftBehind
  <2> HIDE DEF one, other
  <2>6. one - lims'[g].tokens <= Due
    BY <1>1, <2>4, <2>5, Earnings
  <2> QED
    BY <2>6 DEF one
<1>6. ~stopping' => LeftBehind'
  BY <1>5 DEF LeftBehind
<1> QED
  BY <1>2, <1>3, <1>4, <1>6 DEF DebtInv, Solvent

\* The steps of a crawl that neither reserve nor replace a limiter.
LEMMA DebtOfCrawls ==
  ASSUME DebtInv, FrontierInv', NEW w \in Crawls,
         \/ Enter(w) \/ TakeSlot(w) \/ TakeLimiter(w) \/ Wake(w) \/ Retry(w) \/ Abandon(w) \/ Release(w)
         \/ \E bad \in BOOLEAN : Report(w, bad)
         \/ \E delay \in Delays : BeginCrawl(w, delay)
  PROVE  DebtInv'
<1>1. /\ at \in [Crawls -> Stages] /\ ref \in [Crawls -> 1..MaxGen] /\ left \in [Crawls -> Nat]
      /\ lims \in [1..MaxGen -> Limiter] /\ gen \in 1..MaxGen /\ stopping \in BOOLEAN
      /\ \A g \in 1..MaxGen : lims[g].tokens \in Int
  BY DebtFacts DEF FrontierTypes
<1>2. ASSUME NEW every, SetLimit(every) PROVE gen' = gen /\ \A g \in 1..MaxGen : lims'[g].tokens = lims[g].tokens
  <2>1. lims' = [lims EXCEPT ![gen].every = every] /\ gen' = gen
    BY <1>2 DEF SetLimit
  <2> QED
    BY <1>1, <2>1 DEF Limiter
<1>3. CASE Enter(w)
  <2>1. /\ at[w] = "entry" /\ MoveTo(w, "slot") /\ UNCHANGED <<paused, stopping, gen, lims, ref, left>>
    BY <1>3 DEF Enter, limVars
  <2>2. SlotsHeld'
    BY <2>1, SlotsKept DEF Stages
  <2> QED
    BY <1>1, <2>1, <2>2, DebtKept, DebtFacts DEF MoveTo
<1>4. CASE TakeSlot(w)
  <2>1. /\ at[w] = "slot" /\ Cardinality(Holding) < Slots /\ MoveTo(w, "ready")
        /\ UNCHANGED <<paused, stopping, gen, lims, ref, left>>
    BY <1>4 DEF TakeSlot, limVars
  <2>2. SlotsHeld'
    BY <2>1, SlotsKept DEF Stages
  <2> QED
    BY <1>1, <2>1, <2>2, DebtKept, DebtFacts DEF MoveTo
<1>5. CASE TakeLimiter(w)
  <2>1. /\ at[w] = "ready" /\ MoveTo(w, "reserve") /\ ref' = [ref EXCEPT ![w] = gen]
        /\ UNCHANGED <<paused, stopping, gen, lims, left>>
    BY <1>5 DEF TakeLimiter, limVars
  <2>2. SlotsHeld'
    BY <2>1, SlotsKept DEF Stages
  <2> QED
    BY <1>1, <2>1, <2>2, DebtKept, DebtFacts DEF MoveTo
<1>6. CASE Wake(w)
  <2>1. /\ at[w] = "parked" /\ left[w] = 0 /\ MoveTo(w, "fetch") /\ UNCHANGED <<paused, stopping, gen, lims, ref, left>>
    BY <1>6 DEF Wake, Granted, limVars
  <2>2. SlotsHeld'
    BY <2>1, SlotsKept DEF Stages
  <2> QED
    BY <1>1, <2>1, <2>2, DebtKept, DebtFacts DEF MoveTo
<1>7. CASE Retry(w)
  <2>1. /\ at[w] \in {"reserve", "parked"} /\ ref[w] # gen /\ MoveTo(w, "ready") /\ left' = [left EXCEPT ![w] = 0]
        /\ UNCHANGED <<paused, stopping, gen, ref>>
        /\ \/ lims' = lims
           \/ lims' = [lims EXCEPT ![ref[w]].tokens = Smaller(Token, @ + Token)]
    BY <1>1, <1>7 DEF Retry
  <2>2. SlotsHeld'
    BY <2>1, SlotsKept DEF Stages
  <2>3. \A g \in 1..MaxGen : lims'[g].tokens >= lims[g].tokens
    <3> DEFINE t == lims[ref[w]].tokens
    <3>1. t \in Int /\ t <= Token /\ Token \in Nat
      BY <1>1, DebtFacts, Earnings
    <3>2. Smaller(Token, t + Token) >= t
      BY <3>1 DEF Smaller
    <3>3. CASE lims' = [lims EXCEPT ![ref[w]].tokens = Smaller(Token, @ + Token)]
      <4>1. /\ lims'[ref[w]].tokens = Smaller(Token, t + Token)
            /\ \A g \in (1..MaxGen) \ {ref[w]} : lims'[g] = lims[g]
        BY <1>1, <3>3 DEF Limiter
      <4>2. ASSUME NEW g \in 1..MaxGen PROVE lims'[g].tokens >= lims[g].tokens
        <5>1. CASE g = ref[w]
          BY <3>2, <4>1, <5>1
        <5>2. CASE g # ref[w]
          <6>1. lims'[g] = lims[g]
            BY <4>1, <5>2
          <6> QED
            BY <1>1, <6>1
        <5> QED
          BY <5>1, <5>2
      <4> QED
        BY <4>2
    <3>4. CASE lims' = lims
      BY <1>1, <3>4
    <3> HIDE DEF t
    <3> QED
      BY <2>1, <3>3, <3>4, Zenon
  <2> QED
    BY <1>1, <2>1, <2>2, <2>3, DebtKept, DebtFacts DEF MoveTo
<1>8. CASE Abandon(w)
  <2>1. /\ stopping /\ MoveTo(w, "idle") /\ left' = [left EXCEPT ![w] = 0] /\ UNCHANGED <<paused, stopping, gen, lims, ref>>
    BY <1>8 DEF Abandon, limVars
  <2>2. SlotsHeld'
    BY <2>1, SlotsKept DEF Stages
  <2> QED
    BY <1>1, <2>1, <2>2, DebtKept, DebtFacts
<1>9. CASE Release(w)
  <2>1. /\ at[w] = "process" /\ MoveTo(w, "idle") /\ UNCHANGED <<paused, stopping, gen, lims, ref, left>>
    BY <1>9 DEF Release, limVars
  <2>2. SlotsHeld'
    BY <2>1, SlotsKept DEF Stages
  <2> QED
    BY <1>1, <2>1, <2>2, DebtKept, DebtFacts DEF MoveTo
<1>10. ASSUME NEW bad \in BOOLEAN, Report(w, bad) PROVE DebtInv'
  <2>1. /\ at[w] = "fetch" /\ MoveTo(w, "process") /\ UNCHANGED <<paused, stopping, ref, left>>
        /\ SetLimit(effectiveEvery(base, throttle', floor))
    BY <1>10 DEF Report
  <2>2. SlotsHeld'
    BY <2>1, SlotsKept DEF Stages
  <2>3. gen' = gen /\ \A g \in 1..MaxGen : lims'[g].tokens = lims[g].tokens
    BY <1>2, <2>1
  <2> QED
    BY <1>1, <2>1, <2>2, <2>3, DebtKept, DebtFacts DEF MoveTo
<1>11. ASSUME NEW delay \in Delays, BeginCrawl(w, delay) PROVE DebtInv'
  <2>1. /\ at[w] = "idle" /\ MoveTo(w, "entry") /\ UNCHANGED <<paused, stopping, ref, left>>
        /\ \/ SetLimit(effectiveEvery(base, throttle, floor'))
           \/ UNCHANGED <<gen, lims>>
    BY <1>11 DEF BeginCrawl, limVars
  <2>2. SlotsHeld'
    BY <2>1, SlotsKept DEF Stages
  <2>3. gen' = gen /\ \A g \in 1..MaxGen : lims'[g].tokens = lims[g].tokens
    BY <1>2, <2>1
  <2> QED
    BY <1>1, <2>1, <2>2, <2>3, DebtKept, DebtFacts DEF MoveTo
<1> QED
  BY <1>3, <1>4, <1>5, <1>6, <1>7, <1>8, <1>9, <1>10, <1>11

LEMMA DebtOfSwitches ==
  ASSUME DebtInv, FrontierInv', SetPaused \/ StopDaemon \/ UNCHANGED frontierVars PROVE DebtInv'
<1>1. UNCHANGED <<gen, lims, at, ref, left>>
  BY DEF SetPaused, StopDaemon, frontierVars, limVars, slotVars
<1>3. paused' \in BOOLEAN /\ stopping' \in BOOLEAN /\ (stopping => stopping')
  <2>1. paused \in BOOLEAN /\ stopping \in BOOLEAN
    BY DebtFacts
  <2>2. CASE SetPaused
    BY <2>1, <2>2, Zenon DEF SetPaused
  <2>3. CASE StopDaemon
    BY <2>1, <2>3, Zenon DEF StopDaemon
  <2>4. CASE UNCHANGED frontierVars
    BY <2>1, <2>4 DEF frontierVars
  <2> QED
    BY <2>2, <2>3, <2>4
<1>2. SlotsHeld'
  BY <1>1 DEF SlotsHeld, Holding, DebtInv, Solvent
<1> QED
  BY <1>1, <1>2, <1>3, DebtKept, DebtFacts

\* A limiter that is replaced leaves those behind who have taken it.
LEMMA DebtOfRates == ASSUME DebtInv, FrontierInv', NEW b \in Bases, SetHostRate(b) PROVE DebtInv'
<1> DEFINE every == effectiveEvery(b, throttle, floor)
<1>1. applyEffectiveLimit(every) /\ UNCHANGED <<paused, stopping, at, ref, left>>
  BY DEF SetHostRate, slotVars
<1>2. /\ lims \in [1..MaxGen -> Limiter] /\ gen \in 1..MaxGen /\ MaxGen \in Nat
      /\ \A g \in 1..MaxGen : lims[g].tokens \in Int
      /\ stopping \in BOOLEAN /\ paused \in BOOLEAN
  BY DebtFacts, FrontierAssumption DEF FrontierTypes
<1>3. SlotsHeld /\ SlotsHeld'
  BY <1>1 DEF SlotsHeld, Holding, DebtInv, Solvent
<1> HIDE DEF every
<1>4. CASE ~(every < lims[gen].every)
  <2>1. lims' = [lims EXCEPT ![gen].every = every] /\ gen' = gen
    BY <1>1, <1>4 DEF applyEffectiveLimit, SetLimit
  <2>2. \A g \in 1..MaxGen : lims'[g].tokens = lims[g].tokens
    BY <1>2, <2>1 DEF Limiter
  <2> QED
    BY <1>1, <1>2, <1>3, <2>1, <2>2, DebtKept, DebtFacts
<1>5. CASE every < lims[gen].every
  <2>1. gen < MaxGen /\ gen' = gen + 1 /\ lims' = [lims EXCEPT ![gen + 1] = Full(every)]
    BY <1>1, <1>5 DEF applyEffectiveLimit
  <2>2. /\ lims'[gen'].tokens = Token
        /\ \A g \in 1..MaxGen : g # gen' => lims'[g] = lims[g]
    BY <1>2, <2>1 DEF Full
  <2>3. \A g \in 1..MaxGen : -lims'[g].tokens <= Due
    BY <1>2, <2>1, <2>2, DebtFacts, Earnings
  <2>4. \A w \in Crawls : left'[w] <= Longest /\ ref'[w] <= gen'
    BY <1>1, <1>2, <2>1, DebtFacts, Earnings
  <2>5. Foreseen'
    <3> SUFFICES ASSUME NEW l \in Nat
                 PROVE  (Slots - Cardinality(WaitsLonger(l)')) * Token - lims'[gen'].tokens <= Due + l * EarnedLeast
      BY DEF Foreseen
    <3> DEFINE c == Cardinality(WaitsLonger(l)')
               more == (Slots - c) * Token
               paid == l * EarnedLeast
               all == Slots * Token
    <3>1. c \in 0..Slots
      <4>1. WaitsLonger(l)' \in SUBSET Holding'
        BY DEF WaitsLonger, Holding
      <4> QED
        BY <1>3, <4>1, AtMostSlots DEF SlotsHeld
    <3> HIDE DEF c
    <3>2. Slots - c <= Slots /\ Slots - c \in Int /\ Slots \in Int
      BY <3>1, Earnings
    <3>3. more - Token <= all - Token /\ more \in Int /\ all \in Int
      BY <3>2, FewerOwe, Earnings
    <3>4. paid \in Nat /\ Due \in Nat /\ Token \in Nat /\ all <= Due
      BY Earnings
    <3> HIDE DEF more, paid, all
    <3>5. more - Token <= Due + paid
      BY <3>3, <3>4
    <3> QED
      BY <2>2, <3>5 DEF more, paid, c
  <2>6. ASSUME ~stopping, NEW g \in 1..MaxGen, g < gen'
        PROVE  Cardinality(WillReserve(g)') * Token - lims'[g].tokens <= Due
    <3>1. WillReserve(g)' = WillReserve(g) /\ lims'[g] = lims[g]
      BY <1>1, <1>2, <2>1, <2>2, <2>6 DEF WillReserve
    <3>2. CASE g < gen
      BY <2>6, <3>1, <3>2 DEF DebtInv, Solvent, LeftBehind
    <3>3. CASE g = gen
      <4> DEFINE r == Cardinality(WillReserve(gen))
                 c == Cardinality(WaitsLonger(0))
                 one == r * Token
                 other == (Slots - c) * Token
      <4>1. r \in 0..Slots /\ c \in 0..Slots /\ r + c <= Slots
        BY <1>2, <1>3, Counted
      <4>2. other - lims[gen].tokens <= Due + 0 * EarnedLeast
        BY <2>6 DEF DebtInv, Solvent, Foreseen
      <4> HIDE DEF r, c
      <4>3. r <= Slots - c /\ r \in Int /\ Slots - c \in Int
        BY <4>1, Earnings
      <4>4. one - lims[gen].tokens <= other - lims[gen].tokens /\ one \in Int /\ other \in Int
        <5> DEFINE t == lims[gen].tokens
        <5>1. t \in Int /\ t <= t
          BY <1>2
        <5> HIDE DEF t
        <5>2. r * Token - t <= (Slots - c) * Token - t /\ r * Token \in Int /\ (Slots - c) * Token \in Int
          BY <4>3, <5>1, FewerOwe
        <5> QED
          BY <5>2 DEF t
      <4> HIDE DEF one, other
      <4>5. one - lims[gen].tokens <= Due
        BY <1>2, <4>2, <4>4, Earnings
      <4> QED
        BY <3>1, <3>3, <4>5 DEF one, r
    <3> QED
      BY <1>2, <2>1, <2>6, <3>2, <3>3
  <2>7. ~stopping' => LeftBehind'
    BY <1>1, <2>6 DEF LeftBehind
  <2> QED
    BY <1>1, <1>2, <1>3, <2>3, <2>4, <2>5, <2>7 DEF DebtInv, Solvent
<1> QED
  BY <1>4, <1>5

\* A tick pays off the least that any rate earns, and waits get shorter by one.
LEMMA DebtOfTicks == ASSUME DebtInv, FrontierInv', FrontierTick PROVE DebtInv'
<1> DEFINE earned(g) == Token \div lims[g].every
<1>1. /\ \A w \in Crawls : at[w] = "parked" => left[w] > 0
      /\ left' = [w \in Crawls |-> IF at[w] = "parked" THEN left[w] - 1 ELSE left[w]]
      /\ lims' = [g \in 1..MaxGen |-> [lims[g] EXCEPT !.tokens = Smaller(Token, @ + earned(g))]]
      /\ UNCHANGED <<paused, stopping, gen, at, ref>>
  BY DEF FrontierTick
<1>2. /\ gen \in 1..MaxGen /\ \A w \in Crawls : left[w] \in 0..Longest
      /\ stopping \in BOOLEAN /\ paused \in BOOLEAN
  BY DebtFacts
<1>3. ASSUME NEW g \in 1..MaxGen
      PROVE  /\ lims[g].tokens \in Int /\ lims'[g].tokens \in Int
             /\ lims'[g].tokens = Token \/ lims'[g].tokens >= lims[g].tokens + EarnedLeast
             /\ lims'[g].tokens >= lims[g].tokens
  <2>1. /\ lims[g].tokens \in Int /\ lims[g].tokens <= Token /\ lims[g].every \in Every /\ lims[g] \in Limiter
        /\ Token \in Nat
    BY DebtFacts, Earnings DEF FrontierTypes
  <2>2. earned(g) \in Nat /\ earned(g) >= EarnedLeast /\ EarnedLeast \in Nat
    BY <2>1, Earnings
  <2> HIDE DEF earned
  <2>3. lims'[g].tokens = Smaller(Token, lims[g].tokens + earned(g))
    BY <1>1, <2>1 DEF Limiter
  <2> QED
    BY <2>1, <2>2, <2>3 DEF Smaller
<1>4. SlotsHeld /\ SlotsHeld'
  BY <1>1 DEF SlotsHeld, Holding, DebtInv, Solvent
<1>5. \A g \in 1..MaxGen : -lims'[g].tokens <= Due
  BY <1>3, DebtFacts, Earnings
<1>6. ASSUME NEW w \in Crawls PROVE left'[w] <= Longest /\ ref'[w] <= gen'
  <2>1. left[w] \in Nat /\ left[w] <= Longest /\ Longest \in Nat
    BY <1>2, Earnings
  <2>2. left'[w] = left[w] - 1 \/ left'[w] = left[w]
    BY <1>1
  <2>3. ref'[w] <= gen'
    BY <1>1, DebtFacts
  <2> QED
    BY <2>1, <2>2, <2>3
<1>7. ASSUME ~stopping, NEW l \in Nat
      PROVE  (Slots - Cardinality(WaitsLonger(l)')) * Token - lims'[gen].tokens <= Due + l * EarnedLeast
  <2>1. WaitsLonger(l)' = WaitsLonger(l + 1)
    BY <1>1, <1>2 DEF WaitsLonger
  <2> DEFINE c == Cardinality(WaitsLonger(l + 1))
             more == (Slots - c) * Token
             paid == l * EarnedLeast
             all == Slots * Token
  <2>2. more - lims[gen].tokens <= Due + (l + 1) * EarnedLeast
    BY <1>7 DEF DebtInv, Solvent, Foreseen
  <2>3. (l + 1) * EarnedLeast = paid + EarnedLeast /\ paid \in Nat
    BY Earnings, Multiply
  <2>4. c \in 0..Slots
    BY <1>4, Counted
  <2> HIDE DEF c
  <2>5. Slots - c <= Slots /\ Slots - c \in Int /\ Slots \in Int
    BY <2>4, Earnings
  <2>6. more - Token <= all - Token /\ more \in Int /\ all \in Int /\ all <= Due
    BY <2>5, FewerOwe, Earnings
  <2>7. /\ lims[gen].tokens \in Int /\ lims'[gen].tokens \in Int
        /\ lims'[gen].tokens = Token \/ lims'[gen].tokens >= lims[gen].tokens + EarnedLeast
    BY <1>2, <1>3
  <2> HIDE DEF more, paid, all
  <2>8. more - lims'[gen].tokens <= Due + paid
    BY <2>2, <2>3, <2>6, <2>7, Earnings
  <2> QED
    BY <2>1, <2>8 DEF more, paid, c
<1>8. ASSUME ~stopping, NEW g \in 1..MaxGen, g < gen
      PROVE  Cardinality(WillReserve(g)') * Token - lims'[g].tokens <= Due
  <2>1. WillReserve(g)' = WillReserve(g)
    BY <1>1 DEF WillReserve
  <2> DEFINE one == Cardinality(WillReserve(g)) * Token
  <2>2. one - lims[g].tokens <= Due
    BY <1>8 DEF DebtInv, Solvent, LeftBehind
  <2>3. one \in Int
    <3>1. Cardinality(WillReserve(g)) \in 0..Slots
      BY <1>4, Counted
    <3> QED
      BY <3>1, Earnings, Multiply
  <2> HIDE DEF one
  <2>4. one - lims'[g].tokens <= Due
    BY <1>3, <2>2, <2>3, Earnings
  <2> QED
    BY <2>1, <2>4 DEF one
<1>9. ~stopping' => Foreseen' /\ LeftBehind'
  BY <1>1, <1>7, <1>8 DEF Foreseen, LeftBehind
<1> QED
  BY <1>1, <1>2, <1>4, <1>5, <1>6, <1>9 DEF DebtInv, Solvent

\* Who comes last while a debt of d at most a * s is paid off by parts of s.
LEMMA Remainder ==
  ASSUME NEW a \in Nat, NEW x \in Nat, NEW d \in Nat, NEW s \in Nat \ {0}, d <= a * s, d <= x * s
  PROVE  a + d <= a * s + x
<1>1. CASE x >= a
  <2>1. a * s \in Nat
    OBVIOUS
  <2> QED
    BY <1>1, <2>1
<1>2. CASE ~(x >= a)
  <2>1. PICK y \in Nat : a = x + y
    <3>1. a - x \in Nat /\ a = x + (a - x)
      BY <1>2
    <3> QED
      BY <3>1
  <2>2. a * s = x * s + y * s /\ x * s \in Nat /\ y * s \in Nat
    BY <2>1, Multiply
  <2>3. y <= y * s
    BY <2>1
  <2> DEFINE as == a * s
             xs == x * s
             ys == y * s
  <2>4. as = xs + ys /\ xs \in Nat /\ ys \in Nat /\ y <= ys /\ d <= xs
    BY <2>2, <2>3
  <2> HIDE DEF as, xs, ys
  <2>5. a + d <= as + x
    BY <2>1, <2>4
  <2> QED
    BY <2>5 DEF as
<1> QED
  BY <1>1, <1>2

LEMMA DueIs == Due = (Slots * Token) * Slowest /\ Slots * Token \in Nat
<1>1. Slots \in Nat /\ Token \in Nat /\ Slowest \in Nat
  BY Earnings
<1>2. Slots * Slowest * Token = (Slots * Token) * Slowest
  BY <1>1
<1> QED
  BY <1>1, <1>2 DEF Due

\* A token more is owed: the slot that asked for it was one that had not yet.
LEMMA DebtOfReserve == ASSUME DebtInv, FrontierInv', NEW w \in Crawls, Reserve(w) PROVE DebtInv'
<1> DEFINE g == ref[w]
           T == lims[g].tokens
           E == lims[g].every
           ticks == Wait(T - Token, E)
           debt == Token - T
<1>1. /\ at[w] = "reserve" /\ ~stopping
      /\ \/ T >= Token /\ MoveTo(w, "fetch") /\ left' = left
         \/ T < Token /\ MoveTo(w, "parked") /\ left' = [left EXCEPT ![w] = ticks]
      /\ lims' = [lims EXCEPT ![g].tokens = T - Token]
      /\ UNCHANGED <<paused, stopping, gen, ref>>
  <2>1. T \in Int /\ Token \in Int
    BY DebtFacts, Earnings
  <2> QED
    BY <2>1 DEF Reserve, Granted
<1>2. /\ g \in 1..MaxGen /\ g <= gen /\ gen \in 1..MaxGen /\ T \in Int /\ T <= Token /\ E \in Every
      /\ lims \in [1..MaxGen -> Limiter] /\ at \in [Crawls -> Stages] /\ left \in [Crawls -> Nat]
      /\ ref \in [Crawls -> 1..MaxGen] /\ stopping \in BOOLEAN /\ paused \in BOOLEAN
      /\ \A h \in 1..MaxGen : lims[h].tokens \in Int
      /\ Token \in Nat \ {0} /\ debt \in Nat
  <2>1. /\ g \in 1..MaxGen /\ g <= gen /\ gen \in 1..MaxGen
    BY DebtFacts
  <2>2. T \in Int /\ T <= Token /\ E \in Every /\ \A h \in 1..MaxGen : lims[h].tokens \in Int
    BY <2>1, DebtFacts
  <2>3. Token \in Nat \ {0}
    BY Earnings
  <2>4. debt \in Nat
    BY <2>2, <2>3
  <2>5. /\ lims \in [1..MaxGen -> Limiter] /\ at \in [Crawls -> Stages] /\ left \in [Crawls -> Nat]
        /\ ref \in [Crawls -> 1..MaxGen] /\ stopping \in BOOLEAN /\ paused \in BOOLEAN
    BY DebtFacts DEF FrontierTypes
  <2> QED
    BY <2>1, <2>2, <2>3, <2>4, <2>5
<1>3. /\ SlotsHeld /\ Foreseen /\ LeftBehind
      /\ \A h \in 1..MaxGen : -lims[h].tokens <= Due
      /\ \A v \in Crawls : left[v] <= Longest /\ ref[v] <= gen
  BY <1>1 DEF DebtInv, Solvent
<1>4. SlotsHeld'
  BY <1>1, SlotsKept DEF Stages
<1>5. /\ lims'[g].tokens = -debt
      /\ \A h \in 1..MaxGen : h # g => lims'[h] = lims[h]
  BY <1>1, <1>2 DEF Limiter
<1>6. /\ at' \in [Crawls -> Stages]
      /\ at'[w] # "reserve" /\ (at'[w] = "parked" => left'[w] = ticks)
      /\ T >= Token => at'[w] # "parked"
      /\ \A v \in Crawls : v # w => at'[v] = at[v] /\ left'[v] = left[v]
  <2>1. CASE T >= Token /\ MoveTo(w, "fetch") /\ left' = left
    BY <1>2, <2>1 DEF MoveTo, Stages
  <2>2. CASE T < Token /\ MoveTo(w, "parked") /\ left' = [left EXCEPT ![w] = ticks]
    <3>1. at' = [at EXCEPT ![w] = "parked"] /\ left' = [left EXCEPT ![w] = ticks] /\ ~(T >= Token)
      BY <1>2, <2>2 DEF MoveTo
    <3> HIDE DEF T, ticks
    <3> QED
      BY <1>2, <3>1 DEF Stages
  <2> QED
    BY <1>1, <2>1, <2>2
<1> HIDE DEF T, E, ticks, debt, g
<1>7. w \in WillReserve(g) /\ w \in Holding /\ \A l \in Nat : w \notin WaitsLonger(l)
  BY <1>1 DEF WillReserve, Holding, WaitsLonger, g
<1>8. debt <= Due
  <2>1. CASE g = gen
    <3> DEFINE c == Cardinality(WaitsLonger(0))
               more == (Slots - c) * Token
    <3>1. more - T <= Due + 0 * EarnedLeast
      BY <1>3, <2>1 DEF Foreseen, T
    <3>2. c \in 0..Slots /\ c < Slots
      BY <1>3, <1>7, Counted
    <3> HIDE DEF c
    <3>3. 1 <= Slots - c /\ Slots - c \in Int
      BY <3>2, Earnings
    <3>4. 1 * Token - T <= more - T /\ more \in Int /\ 1 * Token = Token
      BY <1>2, <3>3, FewerOwe
    <3> HIDE DEF more
    <3>5. 0 * EarnedLeast = 0 /\ Due \in Nat
      BY Earnings
    <3>6. Token - T <= Due
      BY <1>2, <3>1, <3>4, <3>5
    <3> QED
      BY <3>6 DEF debt
  <2>2. CASE g # gen
    <3> DEFINE c == Cardinality(WillReserve(g))
               more == c * Token
    <3>1. more - T <= Due
      BY <1>2, <1>3, <2>2 DEF LeftBehind, T
    <3>2. c \in 0..Slots /\ IsFiniteSet(WillReserve(g))
      BY <1>2, <1>3, Counted
    <3>3. c # 0
      BY <1>7, <3>2, FS_EmptySet
    <3> HIDE DEF c
    <3>4. 1 <= c /\ c \in Int
      BY <3>2, <3>3, Earnings
    <3>5. 1 * Token - T <= more - T /\ more \in Int /\ 1 * Token = Token
      BY <1>2, <3>4, FewerOwe
    <3> HIDE DEF more
    <3>6. Token - T <= Due
      BY <1>2, <3>1, <3>5, Earnings
    <3> QED
      BY <3>6 DEF debt
  <2> QED
    BY <2>1, <2>2
<1>9. ASSUME NEW h \in 1..MaxGen PROVE -lims'[h].tokens <= Due
  <2>1. CASE h = g
    BY <1>2, <1>5, <1>8, <2>1, Earnings
  <2>2. CASE h # g
    BY <1>3, <1>5, <2>2
  <2> QED
    BY <2>1, <2>2
<1>10. ASSUME T < Token PROVE ticks \in Nat /\ debt <= ticks * Token /\ ticks <= Longest
  <2>1. E \in Nat \ {0} /\ E <= Slowest /\ Slowest \in Nat /\ Slots \in Nat
    BY <1>2, Earnings DEF Every
  <2>2. -debt \in Int /\ -debt < 0 /\ T - Token = -debt
    BY <1>2, <1>10 DEF debt
  <2>3. ticks \in Nat /\ ticks * Token >= -((-debt) * E) /\ (-debt) * E + ticks * Token < Token
    BY <1>2, <2>1, <2>2, Waits DEF ticks
  <2>4. (-debt) * E = -(debt * E) /\ debt * E \in Nat /\ debt <= debt * E
    BY <1>2, <2>1
  <2>5. debt * E <= Due * E /\ Due * E \in Nat
    BY <1>2, <1>8, <2>1, Earnings, Multiply
  <2>6. PICK n \in Nat : n = Slots * Slowest * E
    BY <2>1
  <2>7. Due * E = n * Token
    <3>1. Slots * Slowest * Token * E = (Slots * Slowest * E) * Token
      BY <1>2, <2>1
    <3> QED
      BY <2>6, <3>1 DEF Due
  <2>8. ticks * Token \in Nat /\ n * Token \in Nat
    BY <1>2, <2>3, <2>6
  <2>9. (n + 1) * Token = n * Token + Token
    BY <1>2, <2>6
  <2>10. ticks * Token < (n + 1) * Token
    <3> DEFINE a == debt * E
               b == ticks * Token
               c == n * Token
    <3>1. a \in Nat /\ b \in Nat /\ c \in Nat /\ a <= c /\ -a + b < Token
      BY <2>3, <2>4, <2>5, <2>7, <2>8
    <3> HIDE DEF a, b, c
    <3>2. b < c + Token
      BY <1>2, <3>1
    <3> QED
      BY <2>9, <3>2 DEF b, c
  <2>11. ticks <= n
    <3>1. ticks < n + 1
      BY <1>2, <2>3, <2>6, <2>10, Cancel
    <3> QED
      BY <2>3, <2>6, <3>1
  <2>12. n <= Longest
    <3>1. Slots * Slowest \in Nat
      BY <2>1
    <3>2. E * (Slots * Slowest) <= Slowest * (Slots * Slowest)
      BY <2>1, <3>1, Multiply
    <3>3. E * (Slots * Slowest) = Slots * Slowest * E /\ Slowest * (Slots * Slowest) = Slots * Slowest * Slowest
      BY <2>1
    <3> QED
      BY <2>6, <3>2, <3>3 DEF Longest
  <2>13. debt <= ticks * Token
    <3> DEFINE a == debt * E
               b == ticks * Token
    <3>1. a \in Nat /\ b \in Nat /\ b >= -(-a) /\ debt <= a
      BY <2>3, <2>4, <2>8
    <3> HIDE DEF a, b
    <3>2. debt <= b
      BY <1>2, <3>1
    <3> QED
      BY <3>2 DEF b
  <2> QED
    BY <2>3, <2>6, <2>11, <2>12, <2>13, Earnings
<1>11. ASSUME NEW v \in Crawls PROVE left'[v] <= Longest /\ ref'[v] <= gen'
  <2>1. ref'[v] <= gen' /\ left[v] <= Longest
    BY <1>1, <1>3
  <2>2. left'[v] = left[v] \/ (T < Token /\ left'[v] = ticks)
    BY <1>1, <1>2
  <2> QED
    BY <1>10, <2>1, <2>2
<1>12. ASSUME NEW l \in Nat
       PROVE  (Slots - Cardinality(WaitsLonger(l)')) * Token - lims'[gen].tokens <= Due + l * EarnedLeast
  <2> DEFINE c == Cardinality(WaitsLonger(l))
             x == l * EarnedLeast
  <2>1. c \in 0..Slots /\ IsFiniteSet(WaitsLonger(l)) /\ c < Slots
    BY <1>3, <1>7, Counted
  <2>2. (Slots - c) * Token - lims[gen].tokens <= Due + x
    BY <1>3 DEF Foreseen
  <2>3. x \in Nat
    BY Earnings, Multiply
  <2>4. CASE g # gen
    <3>1. WaitsLonger(l)' = WaitsLonger(l)
      BY <1>1, <1>6, <2>4 DEF WaitsLonger, g
    <3>2. lims'[gen] = lims[gen]
      BY <1>2, <1>5, <2>4
    <3> QED
      BY <2>2, <3>1, <3>2
  <2>5. CASE g = gen /\ T < Token /\ l < ticks
    <3>1. WaitsLonger(l)' = WaitsLonger(l) \cup {w}
      BY <1>1, <1>2, <1>6, <1>10, <2>5 DEF WaitsLonger, g, MoveTo
    <3>2. Cardinality(WaitsLonger(l)') = c + 1
      BY <1>7, <2>1, <3>1, FS_AddElement
    <3>3. lims'[gen].tokens = T - Token /\ lims[gen].tokens = T
      BY <1>2, <1>5, <2>5 DEF debt, T
    <3> HIDE DEF c, x
    <3>4. (Slots - (c + 1)) * Token = (Slots - c) * Token - Token /\ (Slots - c) * Token \in Int
      <4>1. Slots - c \in Int /\ Slots - (c + 1) = (Slots - c) - 1 /\ 1 * Token = Token
        BY <1>2, <2>1, Earnings
      <4>2. PICK z \in Int : z = Slots - c
        BY <4>1
      <4>3. (z - 1) * Token = z * Token - 1 * Token /\ z * Token \in Int
        BY <1>2, Multiply
      <4> QED
        BY <4>1, <4>2, <4>3
    <3> DEFINE more == (Slots - c) * Token
    <3>5. more \in Int /\ more - T <= Due + x /\ (Slots - (c + 1)) * Token = more - Token
      BY <2>2, <3>3, <3>4
    <3> HIDE DEF more
    <3>6. (more - Token) - (T - Token) <= Due + x
      BY <1>2, <2>3, <3>5, Earnings
    <3> QED
      BY <3>2, <3>3, <3>5, <3>6 DEF x
  <2>6. CASE g = gen /\ (T < Token => ticks <= l)
    <3>1. WaitsLonger(l)' = WaitsLonger(l)
      BY <1>1, <1>2, <1>6, <1>7, <1>10, <2>6 DEF WaitsLonger
    <3>2. lims'[gen].tokens = -debt
      BY <1>5, <2>6
    <3> DEFINE all == Slots * Token
               more == (Slots - c) * Token
    <3>3. more - (-debt) <= all - (-debt) /\ more \in Int
      <4>1. Slots - c \in Int /\ Slots - c <= Slots /\ Slots \in Int /\ -debt \in Int /\ -debt <= -debt
        BY <1>2, <2>1, Earnings
      <4> QED
        BY <4>1, FewerOwe
    <3>4. all \in Nat /\ Due = all * Slowest /\ Slowest \in Nat \ {0} /\ all * Slowest \in Nat
      BY DueIs, Earnings
    <3>5. debt <= x * Slowest
      <4>1. CASE T < Token
        <5>1. ticks \in Nat /\ debt <= ticks * Token /\ ticks <= l
          BY <1>10, <2>6, <4>1
        <5>2. ticks * Token <= l * Token /\ ticks * Token \in Nat /\ l * Token \in Nat
          BY <1>2, <5>1, Multiply
        <5>3. l * Token = x * Slowest
          <6>1. EarnedLeast \in Nat /\ Slowest \in Nat /\ Token = EarnedLeast * Slowest
            BY Earnings
          <6>2. l * (EarnedLeast * Slowest) = (l * EarnedLeast) * Slowest
            BY <6>1
          <6> QED
            BY <6>1, <6>2
        <5> DEFINE b == ticks * Token
                   d == l * Token
        <5>4. b \in Nat /\ d \in Nat /\ debt <= b /\ b <= d
          BY <5>1, <5>2
        <5> HIDE DEF b, d
        <5>5. debt <= d
          BY <1>2, <5>4
        <5> QED
          BY <5>3, <5>5 DEF d
      <4>2. CASE ~(T < Token)
        <5>1. debt = 0
          BY <1>2, <4>2 DEF debt
        <5>2. x * Slowest \in Nat
          BY <2>3, Earnings
        <5> QED
          BY <5>1, <5>2
      <4> QED
        BY <4>1, <4>2
    <3> HIDE DEF x, all, more, c
    <3>6. all + debt <= all * Slowest + x
      BY <1>2, <1>8, <2>3, <3>4, <3>5, Remainder
    <3>7. more - (-debt) <= Due + x
      BY <1>2, <2>3, <3>3, <3>4, <3>6
    <3> QED
      BY <3>1, <3>2, <3>7 DEF x, more, c
  <2> QED
    BY <1>10, <2>4, <2>5, <2>6
<1>13. ASSUME NEW h \in 1..MaxGen, h < gen
       PROVE  Cardinality(WillReserve(h)') * Token - lims'[h].tokens <= Due
  <2> DEFINE c == Cardinality(WillReserve(h))
  <2>1. c \in 0..Slots /\ IsFiniteSet(WillReserve(h))
    BY <1>3, Counted
  <2>2. c * Token - lims[h].tokens <= Due
    BY <1>3, <1>13 DEF LeftBehind
  <2>3. CASE h # g
    <3>1. WillReserve(h)' = WillReserve(h)
      BY <1>1, <1>6, <2>3 DEF WillReserve, g
    <3> QED
      BY <1>5, <2>2, <2>3, <3>1
  <2>4. CASE h = g
    <3>1. WillReserve(h)' = WillReserve(h) \ {w}
      BY <1>1, <1>6, <2>4 DEF WillReserve
    <3>2. Cardinality(WillReserve(h)') = c - 1
      BY <1>7, <2>1, <2>4, <3>1, FS_RemoveElement
    <3>3. lims'[h].tokens = T - Token /\ lims[h].tokens = T
      BY <1>2, <1>5, <2>4 DEF debt, T
    <3> HIDE DEF c
    <3>4. (c - 1) * Token = c * Token - Token /\ c * Token \in Int
      <4>1. c \in Int /\ 1 * Token = Token
        BY <1>2, <2>1, Earnings
      <4> QED
        BY <1>2, <4>1, Multiply
    <3> DEFINE more == c * Token
    <3>5. more \in Int /\ more - T <= Due /\ (c - 1) * Token = more - Token
      BY <2>2, <3>3, <3>4
    <3> HIDE DEF more
    <3>6. (more - Token) - (T - Token) <= Due
      BY <1>2, <3>5, Earnings
    <3> QED
      BY <3>2, <3>3, <3>5, <3>6
  <2> QED
    BY <2>3, <2>4
<1>14. Foreseen' /\ LeftBehind'
  BY <1>1, <1>12, <1>13 DEF Foreseen, LeftBehind
<1> QED
  BY <1>1, <1>2, <1>4, <1>9, <1>11, <1>14 DEF DebtInv, Solvent

LEMMA DebtInductive == DebtInv /\ [FrontierNext]_frontierVars => DebtInv'
<1> SUFFICES ASSUME DebtInv, [FrontierNext]_frontierVars PROVE DebtInv'
  OBVIOUS
<1>1. FrontierInv'
  BY FrontierInductive DEF DebtInv
<1> QED
  BY <1>1, DebtOfRates, DebtOfSwitches, DebtOfCrawls, DebtOfReserve, DebtOfTicks DEF FrontierNext, CrawlStep

\* The gate's part of the types of the suite.
LEMMA GateTypeOK == DebtInv => FrontierTypeOK
<1> SUFFICES ASSUME DebtInv PROVE FrontierTypeOK
  OBVIOUS
<1>1. Slots \in Nat /\ Slowest \in Nat /\ Token \in Nat /\ Due \in Nat
  BY Earnings
<1>2. -Slots * Slowest * Token = -Due
  BY <1>1 DEF Due
<1>3. lims \in [1..MaxGen -> [every : Every, tokens : (-Slots * Slowest * Token)..Token]]
  <2>1. ASSUME NEW g \in 1..MaxGen PROVE lims[g] \in [every : Every, tokens : (-Slots * Slowest * Token)..Token]
    <3>1. lims[g].tokens \in (-Slots * Slowest * Token)..Token /\ lims[g].every \in Every
      BY <1>1, <1>2, DebtFacts
    <3>2. lims[g] \in Limiter
      BY DebtFacts DEF FrontierTypes
    <3> QED
      BY <3>1, <3>2 DEF Limiter
  <2> QED
    BY <2>1, DebtFacts DEF FrontierTypes
<1>4. left \in [Crawls -> 0..Longest]
  BY DebtFacts DEF FrontierTypes
<1> QED
  BY <1>3, <1>4, DebtFacts DEF FrontierTypeOK, FrontierTypes, Stages

LEMMA SuiteOfParts == SuiteSpec => Spec /\ FrontierSpec
<1>1. SuiteInit => Init /\ FrontierInit
  BY DEF SuiteInit
<1>2. [SuiteNext]_<<focus, vars, frontierVars>> => [Next]_vars /\ [FrontierNext]_frontierVars
  BY DEF SuiteNext
<1> QED
  BY <1>1, <1>2, PTL DEF SuiteSpec, Spec, FrontierSpec

(* Whatever a behaviour is about, the variables keep their types: what the limiter
   owes stays within a bound, for any number of crawls and any changes of the rate,
   and so does each wait (internal/frontier/frontier.go). *)
THEOREM SuiteTypeCorrect == SuiteSpec => []SuiteTypeOK
<1>1. TypeOK /\ FrontierTypeOK => SuiteTypeOK
  BY DEF SuiteTypeOK
<1> QED
  BY <1>1, SuiteOfParts, PageTypeCorrect, DebtInitially, DebtInductive, GateTypeOK, PTL DEF FrontierSpec
=============================================================================
