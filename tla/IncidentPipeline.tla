-------------------------- MODULE IncidentPipeline --------------------------
(***************************************************************************)
(* The incident state machine of internal/alerts (Pipeline.Ingest,         *)
(* Pipeline.Resolve, Pipeline.AutoCloseStale) over the rows of             *)
(* internal/store (incidents.go, alert_members.go).                        *)
(*                                                                         *)
(* Crawl workers run Ingest and Resolve concurrently.  Every store call is *)
(* one transaction, hence one step; the steps of one operation are         *)
(* serialised by a mutex per fingerprint (Pipeline.locks).  The auto-close *)
(* sweep runs on a timer and does NOT take that mutex.  A store call may   *)
(* fail and the process may crash between any two steps when Faults holds: *)
(* the rows survive a crash, mutexes and local variables do not.           *)
(*                                                                         *)
(* Bounds: MaxTime (clock ticks), MaxOps (operations begun).               *)
(*                                                                         *)
(* A definition named X_Y is X with the defect Y: the checks put it in the *)
(* place of X to show that a property can fail.                            *)
(***************************************************************************)
EXTENDS Naturals, Sequences

CONSTANTS
  Workers,       \* goroutines calling the pipeline
  NoWorker,      \* the value of a free mutex
  Fingerprints,  \* incident identities: site + change_type + severity
  SiteLevel,     \* those whose events carry no URL (robots.txt, sitemap)
  URLs,          \* page addresses an event can carry
  NoURL,         \* the empty URL of a site-level event
  DedupWindow,   \* Caps.DedupWindow, in ticks
  AutoClose,     \* Caps.IncidentAutoClose, in ticks
  Faults,        \* whether store calls may fail and the process may crash
  MaxTime,
  MaxOps

ASSUME PipelineAssumption ==
  /\ NoWorker \notin Workers
  /\ NoURL \notin URLs
  /\ SiteLevel \subseteq Fingerprints
  /\ DedupWindow \in Nat
  /\ AutoClose \in Nat
  /\ Faults \in BOOLEAN
  /\ MaxTime \in Nat
  /\ MaxOps \in Nat

VARIABLES
  clock,      \* the time Options.Now returns
  begun,      \* number of operations begun so far
  rows,       \* the alerts table, by row id
  nextId,     \* the id the next INSERT takes
  members,    \* the alert_members table: the member URLs of each row
  locks,      \* Pipeline.locks: the worker that holds each mutex
  pc,         \* the step each worker is about to take
  op,         \* the Event (and the value of "now") each worker is handling
  cur,        \* the row each worker has read or inserted, with its id
  sweepList,  \* ids the sweep has found stale and has yet to close
  sweepNow,   \* the sweep's value of "now"
  notes       \* history: the stamps of the Dispatch calls made for each row

dbVars    == <<rows, nextId, members>>
localVars == <<locks, pc, op, cur>>
sweepVars == <<sweepList, sweepNow>>
vars == <<clock, begun, dbVars, localVars, sweepVars, notes>>

-----------------------------------------------------------------------------
Time == 0..MaxTime
Ids  == 1..MaxOps

Row == [status   : {"open", "closed"},
        fp       : Fingerprints,
        count    : Nat,      \* affected_count
        updated  : Time,     \* last_updated_at
        notified : Time,     \* last_notified_at
        auto     : BOOLEAN]  \* auto_closed_at is set
NoRow == [status |-> "none"]

Event == [kind : {"ingest", "resolve"},
          fp   : Fingerprints,
          url  : URLs \cup {NoURL},
          now  : Time]
NoEvent == [kind |-> "none"]

Copy   == [id : Ids, row : Row]
NoCopy == [id |-> 0]

\* The steps that call the store: each of them can return an error instead.
StoreSteps == {"read", "member", "update", "open", "firstMember", "remove", "close"}
Steps == StoreSteps \cup {"idle", "lock", "dispatch"}

OpenRows(fp) == {id \in Ids : rows[id].status = "open" /\ rows[id].fp = fp}

\* The worker returns: the deferred unlock runs and its locals are gone.
Return(w) ==
  /\ locks' = [locks EXCEPT ![op[w].fp] = NoWorker]
  /\ pc'    = [pc EXCEPT ![w] = "idle"]
  /\ op'    = [op EXCEPT ![w] = NoEvent]
  /\ cur'   = [cur EXCEPT ![w] = NoCopy]

Goto(w, step) ==
  /\ pc' = [pc EXCEPT ![w] = step]
  /\ UNCHANGED <<locks, op, cur>>

-----------------------------------------------------------------------------
Init ==
  /\ clock = 0
  /\ begun = 0
  /\ rows = [id \in Ids |-> NoRow]
  /\ nextId = 1
  /\ members = [id \in Ids |-> {}]
  /\ locks = [fp \in Fingerprints |-> NoWorker]
  /\ pc = [w \in Workers |-> "idle"]
  /\ op = [w \in Workers |-> NoEvent]
  /\ cur = [w \in Workers |-> NoCopy]
  /\ sweepList = {}
  /\ sweepNow = 0
  /\ notes = [id \in Ids |-> <<>>]

Tick ==
  /\ clock < MaxTime
  /\ clock' = clock + 1
  /\ UNCHANGED <<begun, dbVars, localVars, sweepVars, notes>>

(***************************************************************************)
(* The common head of Ingest and Resolve.  "now" is read BEFORE the mutex  *)
(* is taken, so a worker that waits for it carries an old value.  Site     *)
(* level events come from the robots and sitemap side timers, which never  *)
(* resolve.                                                                *)
(***************************************************************************)
Begin(w, kind, fp, url) ==
  /\ pc[w] = "idle"
  /\ begun < MaxOps
  /\ url = NoURL <=> fp \in SiteLevel
  /\ kind = "resolve" => url # NoURL
  /\ begun' = begun + 1
  /\ op' = [op EXCEPT ![w] = [kind |-> kind, fp |-> fp, url |-> url, now |-> clock]]
  /\ pc' = [pc EXCEPT ![w] = "lock"]
  /\ UNCHANGED <<clock, dbVars, locks, cur, sweepVars, notes>>

Acquire_NoMutex(w) ==
  /\ pc[w] = "lock"
  /\ locks' = [locks EXCEPT ![op[w].fp] = w]
  /\ pc' = [pc EXCEPT ![w] = "read"]
  /\ UNCHANGED <<clock, begun, dbVars, op, cur, sweepVars, notes>>

Acquire(w) ==
  /\ pc[w] = "lock"
  /\ locks[op[w].fp] = NoWorker
  /\ locks' = [locks EXCEPT ![op[w].fp] = w]
  /\ pc' = [pc EXCEPT ![w] = "read"]
  /\ UNCHANGED <<clock, begun, dbVars, op, cur, sweepVars, notes>>

\* GetOpenIncident: the open row of the fingerprint, the latest if several.
ReadOpen(w) ==
  /\ pc[w] = "read"
  /\ \E id \in OpenRows(op[w].fp) :
       /\ \A other \in OpenRows(op[w].fp) : rows[other].updated <= rows[id].updated
       /\ cur' = [cur EXCEPT ![w] = [id |-> id, row |-> rows[id]]]
  /\ pc' = [pc EXCEPT ![w] = IF op[w].kind = "ingest" THEN "member" ELSE "remove"]
  /\ UNCHANGED <<clock, begun, dbVars, locks, op, sweepVars, notes>>

ReadNone(w) ==
  /\ pc[w] = "read"
  /\ OpenRows(op[w].fp) = {}
  /\ \/ op[w].kind = "ingest"  /\ Goto(w, "open")
     \/ op[w].kind = "resolve" /\ Return(w)
  /\ UNCHANGED <<clock, begun, dbVars, sweepVars, notes>>

(***************************************************************************)
(* Ingest.                                                                 *)
(***************************************************************************)
InsertMember_EmptyToo(w) ==
  members' = [members EXCEPT ![cur[w].id] = @ \cup {op[w].url}]

\* addMember: INSERT OR IGNORE, skipped for an event without a URL.
InsertMember(w) ==
  members' = [members EXCEPT ![cur[w].id] = @ \cup ({op[w].url} \ {NoURL})]

AddMember(w) ==
  /\ pc[w] = "member"
  /\ InsertMember(w)
  /\ Goto(w, "update")
  /\ UNCHANGED <<clock, begun, rows, nextId, sweepVars, notes>>

WithinWindow(w) == op[w].now < cur[w].row.notified + DedupWindow

\* UpdateIncident writes EVERY mutable column from the worker's copy, status too.
Accrue(w) ==
  /\ pc[w] = "update"
  /\ WithinWindow(w)
  /\ rows' = [rows EXCEPT ![cur[w].id] =
                [cur[w].row EXCEPT !.count = @ + 1, !.updated = op[w].now]]
  /\ Return(w)
  /\ UNCHANGED <<clock, begun, nextId, members, sweepVars, notes>>

Renotify_Unstamped(w) ==
  /\ pc[w] = "update"
  /\ ~WithinWindow(w)
  /\ rows' = [rows EXCEPT ![cur[w].id] =
                [cur[w].row EXCEPT !.count = @ + 1, !.updated = op[w].now]]
  /\ Goto(w, "dispatch")
  /\ UNCHANGED <<clock, begun, nextId, members, sweepVars, notes>>

Renotify(w) ==
  /\ pc[w] = "update"
  /\ ~WithinWindow(w)
  /\ rows' = [rows EXCEPT ![cur[w].id] =
                [cur[w].row EXCEPT !.count = @ + 1, !.updated = op[w].now,
                                   !.notified = op[w].now]]
  /\ Goto(w, "dispatch")
  /\ UNCHANGED <<clock, begun, nextId, members, sweepVars, notes>>

NewRow(w) == [status |-> "open", fp |-> op[w].fp, count |-> 1,
              updated |-> op[w].now, notified |-> op[w].now, auto |-> FALSE]

OpenIncident_NoMember(w) ==
  /\ pc[w] = "open"
  /\ nextId \in Ids  \* bound: never false, a row is opened by an operation
  /\ rows' = [rows EXCEPT ![nextId] = NewRow(w)]
  /\ nextId' = nextId + 1
  /\ cur' = [cur EXCEPT ![w] = [id |-> nextId, row |-> NewRow(w)]]
  /\ pc' = [pc EXCEPT ![w] = "dispatch"]
  /\ UNCHANGED <<clock, begun, members, locks, op, sweepVars, notes>>

OpenIncident(w) ==
  /\ pc[w] = "open"
  /\ nextId \in Ids  \* bound: never false, a row is opened by an operation
  /\ rows' = [rows EXCEPT ![nextId] = NewRow(w)]
  /\ nextId' = nextId + 1
  /\ cur' = [cur EXCEPT ![w] = [id |-> nextId, row |-> NewRow(w)]]
  /\ pc' = [pc EXCEPT ![w] = "firstMember"]
  /\ UNCHANGED <<clock, begun, members, locks, op, sweepVars, notes>>

AddFirstMember(w) ==
  /\ pc[w] = "firstMember"
  /\ InsertMember(w)
  /\ Goto(w, "dispatch")
  /\ UNCHANGED <<clock, begun, rows, nextId, sweepVars, notes>>

\* maybeDispatch runs with the mutex held.  Its outcome (sent, failed, kept for
\* the digest) does not change any row: Delivery.tla models it.
Dispatch(w) ==
  /\ pc[w] = "dispatch"
  /\ notes' = [notes EXCEPT ![cur[w].id] = Append(@, op[w].now)]
  /\ Return(w)
  /\ UNCHANGED <<clock, begun, dbVars, sweepVars>>

(***************************************************************************)
(* Resolve.                                                                *)
(***************************************************************************)
RemoveMember_FirstRecoveryCloses(w) ==
  /\ pc[w] = "remove"
  /\ members' = [members EXCEPT ![cur[w].id] = @ \ {op[w].url}]
  /\ Goto(w, "close")
  /\ UNCHANGED <<clock, begun, rows, nextId, sweepVars, notes>>

\* RemoveAlertMember deletes and counts in one transaction.
RemoveMember(w) ==
  LET remaining == members[cur[w].id] \ {op[w].url}
  IN /\ pc[w] = "remove"
     /\ members' = [members EXCEPT ![cur[w].id] = remaining]
     /\ \/ remaining # {} /\ Return(w)
        \/ remaining = {} /\ Goto(w, "close")
     /\ UNCHANGED <<clock, begun, rows, nextId, sweepVars, notes>>

CloseIncident(w) ==
  /\ pc[w] = "close"
  /\ rows' = [rows EXCEPT ![cur[w].id].status = "closed",
                          ![cur[w].id].updated = op[w].now]
  /\ Return(w)
  /\ UNCHANGED <<clock, begun, nextId, members, sweepVars, notes>>

(***************************************************************************)
(* AutoCloseStale: one read of all the open rows, then one transaction per *)
(* stale one, without any of the mutexes.                                  *)
(***************************************************************************)
SweepRead_NeverStale ==
  /\ sweepList = {}
  /\ sweepNow' = clock
  /\ sweepList' = {id \in Ids : /\ rows[id].status = "open"
                                /\ rows[id].updated + AutoClose < clock}
  /\ UNCHANGED <<clock, begun, dbVars, localVars, notes>>

SweepRead ==
  /\ sweepList = {}
  /\ sweepNow' = clock
  /\ sweepList' = {id \in Ids : /\ rows[id].status = "open"
                                /\ rows[id].updated + AutoClose <= clock}
  /\ UNCHANGED <<clock, begun, dbVars, localVars, notes>>

SweepClose(id) ==
  /\ id \in sweepList
  /\ rows' = [rows EXCEPT ![id].status = "closed",
                          ![id].updated = sweepNow,
                          ![id].auto = TRUE]
  /\ sweepList' = sweepList \ {id}
  /\ UNCHANGED <<clock, begun, nextId, members, localVars, sweepNow, notes>>

(***************************************************************************)
(* Faults: an error from the store ends the operation or the sweep; a      *)
(* crash ends them all.                                                    *)
(***************************************************************************)
StoreError_MutexKept(w) ==
  /\ Faults
  /\ pc[w] \in StoreSteps
  /\ pc' = [pc EXCEPT ![w] = "idle"]
  /\ op' = [op EXCEPT ![w] = NoEvent]
  /\ cur' = [cur EXCEPT ![w] = NoCopy]
  /\ UNCHANGED <<clock, begun, dbVars, locks, sweepVars, notes>>

StoreError(w) ==
  /\ Faults
  /\ pc[w] \in StoreSteps
  /\ Return(w)
  /\ UNCHANGED <<clock, begun, dbVars, sweepVars, notes>>

SweepError ==
  /\ Faults
  /\ sweepList # {}
  /\ sweepList' = {}
  /\ UNCHANGED <<clock, begun, dbVars, localVars, sweepNow, notes>>

Crash ==
  /\ Faults
  /\ locks' = [fp \in Fingerprints |-> NoWorker]
  /\ pc' = [w \in Workers |-> "idle"]
  /\ op' = [w \in Workers |-> NoEvent]
  /\ cur' = [w \in Workers |-> NoCopy]
  /\ sweepList' = {}
  /\ UNCHANGED <<clock, begun, dbVars, sweepNow, notes>>

-----------------------------------------------------------------------------
\* The steps a worker takes by itself once an operation has begun.
Work(w) ==
  \/ Acquire(w)
  \/ ReadOpen(w)
  \/ ReadNone(w)
  \/ AddMember(w)
  \/ Accrue(w)
  \/ Renotify(w)
  \/ OpenIncident(w)
  \/ AddFirstMember(w)
  \/ Dispatch(w)
  \/ RemoveMember(w)
  \/ CloseIncident(w)

Next ==
  \/ Tick
  \/ \E w \in Workers, kind \in {"ingest", "resolve"}, fp \in Fingerprints,
        url \in URLs \cup {NoURL} : Begin(w, kind, fp, url)
  \/ \E w \in Workers : Work(w)
  \/ SweepRead
  \/ \E id \in Ids : SweepClose(id)
  \/ \E w \in Workers : StoreError(w)
  \/ SweepError
  \/ Crash

Spec == Init /\ [][Next]_vars

-----------------------------------------------------------------------------
TypeOK ==
  /\ clock \in Time
  /\ begun \in 0..MaxOps
  /\ rows \in [Ids -> Row \cup {NoRow}]
  /\ nextId \in 1..(MaxOps + 1)
  /\ members \in [Ids -> SUBSET URLs]
  /\ locks \in [Fingerprints -> Workers \cup {NoWorker}]
  /\ pc \in [Workers -> Steps]
  /\ op \in [Workers -> Event \cup {NoEvent}]
  /\ cur \in [Workers -> Copy \cup {NoCopy}]
  /\ sweepList \in SUBSET Ids
  /\ sweepNow \in Time
  /\ notes \in [Ids -> Seq(Time)]

\* Concurrent crawls of pages that fail in the same way share one incident: no
\* interleaving of the workers, of the sweep and of crashes opens a second one.
\* (Pipeline.locks: "two URLs sharing a group fingerprint would otherwise both
\* observe no open incident in GetOpenIncident and both OpenIncident".)
OneOpenPerFingerprint ==
  \A i, j \in Ids :
    /\ rows[i].status = "open"
    /\ rows[j].status = "open"
    /\ rows[i].fp = rows[j].fp
    => i = j

\* Two notifications of one incident are never closer than the dedup window,
\* whatever workers sent them and however late they took the mutex.
DedupSpacing ==
  \A id \in Ids : \A i \in 1..(Len(notes[id]) - 1) :
    notes[id][i] + DedupWindow <= notes[id][i + 1]

\* Resolve closes an incident only when its last member has recovered, whatever
\* other pages are being ingested or resolved ("a still-broken sibling keeps the
\* incident open", Pipeline.Resolve).
ResolveClosesEmpty ==
  [][\A id \in Ids :
       /\ rows[id].status = "open"
       /\ rows'[id].status = "closed"
       /\ ~rows'[id].auto
       => members[id] = {}]_vars

-----------------------------------------------------------------------------
(***************************************************************************)
(* Refinement.  An Ingest takes effect when the page is a member, a        *)
(* Resolve when it no longer is: a row just inserted whose first member is *)
(* still to come is not open yet, a row without members about to be closed *)
(* is closed already.  A row the sweep closes under an Ingest that has     *)
(* read it stays open, because UpdateIncident will write its status back.  *)
(***************************************************************************)
HeldAt(id, steps) == \E w \in Workers : pc[w] \in steps /\ cur[w].id = id

CountsAsOpen(id) ==
  \/ rows[id].status = "open" /\ ~HeldAt(id, {"firstMember", "close"})
  \/ HeldAt(id, {"member", "update"})

BoardRows(fp) == {id \in Ids : CountsAsOpen(id) /\ rows[id].fp = fp}

Board == INSTANCE IncidentBoard WITH
           open   <- {fp \in Fingerprints : BoardRows(fp) # {}},
           broken <- [fp \in Fingerprints |-> UNION {members[id] : id \in BoardRows(fp)}]

\* The pipeline implements the board.
ImplementsBoard == Board!Spec

-----------------------------------------------------------------------------
(***************************************************************************)
(* Fairness.  A worker that has begun an operation keeps running and a Go  *)
(* mutex does not starve a waiter (strong fairness of Acquire).  gocron    *)
(* fires the sweep for ever, and a store that fails does not always fail   *)
(* (strong fairness of SweepClose).  Time passes.                          *)
(***************************************************************************)
Fairness ==
  /\ \A w \in Workers : WF_vars(Work(w)) /\ SF_vars(Acquire(w))
  /\ WF_vars(SweepRead)
  /\ \A id \in Ids : SF_vars(SweepClose(id))
  /\ WF_vars(Tick)

FairSpec == Spec /\ Fairness

\* Every operation returns: no error path leaks a mutex and no crash keeps one.
OperationsReturn == \A w \in Workers : pc[w] = "lock" ~> pc[w] = "idle"

\* Whatever an error or a crash leaves half done, once the events stop no
\* incident stays open beyond IncidentAutoClose ("old incidents are never
\* stranded open", Pipeline.Resolve).
NoneStranded ==
  <>[](\A id \in Ids :
         ~(rows[id].status = "open" /\ rows[id].updated + AutoClose <= clock))
=============================================================================
