----------------------- MODULE IncidentPipelineProofs -----------------------
(***************************************************************************)
(* Proofs about IncidentPipeline, for any number of workers, identities    *)
(* and pages and any windows: the types, one open incident per identity,   *)
(* the spacing of notifications, what Resolve may close, and that the      *)
(* pipeline implements IncidentBoard.                                      *)
(*                                                                         *)
(* The argument: past "lock" a worker holds the mutex of its identity, so  *)
(* nobody else touches the rows of that identity except the sweep, which   *)
(* only closes.  What the worker has read therefore stays true, up to a    *)
(* close, until it writes.  The board shows of each identity the one row   *)
(* that is open or that an Ingest has read, unless its worker hides it.    *)
(***************************************************************************)
EXTENDS MCIncidentPipeline, TLAPS

\* The steps at which a worker holds a mutex, and those at which it has a row.
InSection == Steps \ {"idle", "lock"}
HasRow == {"member", "update", "firstMember", "dispatch", "remove", "close"}

\* The locals of a worker agree with where it is, and its mutex is its own.
WorkerOK(w) ==
  /\ pc[w] # "idle" => op[w] \in Event
  /\ pc[w] \in InSection => locks[op[w].fp] = w
  /\ pc[w] \in HasRow =>
       /\ cur[w] \in Copy
       /\ cur[w].id < nextId
       /\ cur[w].row.fp = op[w].fp
       /\ cur[w].row.status = "open"

WorkerInv == \A w \in Workers : WorkerOK(w)

\* The rows of the table are those inserted so far.
RowsInv ==
  /\ \A id \in Ids : id < nextId <=> rows[id] # NoRow
  /\ \A id \in sweepList : id < nextId

\* What a worker has read holds until it writes: no row of its identity is open
\* but its own, and its own still belongs to the identity.
ReadOK(w) ==
  /\ pc[w] = "open" => OpenRows(op[w].fp) = {}
  /\ pc[w] \in HasRow =>
       /\ rows[cur[w].id].fp = op[w].fp
       /\ OpenRows(op[w].fp) \subseteq {cur[w].id}

ReadInv == \A w \in Workers : ReadOK(w)

\* The stamp of a row is the last one dispatched or a later one; a worker about
\* to dispatch has waited for the window to pass.
StampInv ==
  \A id \in Ids : notes[id] # <<>> =>
    /\ id < nextId
    /\ notes[id][Len(notes[id])] <= rows[id].notified
    /\ \A w \in Workers : pc[w] = "dispatch" /\ cur[w].id = id =>
         notes[id][Len(notes[id])] + DedupWindow <= op[w].now

\* A worker's copy of the stamp is the row's; one about to dispatch has set it.
CopyInv ==
  \A w \in Workers :
    /\ pc[w] \in {"member", "update"} => cur[w].row.notified = rows[cur[w].id].notified
    /\ pc[w] = "dispatch" => rows[cur[w].id].notified = op[w].now
    /\ pc[w] = "firstMember" =>
         rows[cur[w].id].notified = op[w].now /\ notes[cur[w].id] = <<>>

\* A worker about to close has seen the last member go.
CloseInv == \A w \in Workers : pc[w] = "close" => members[cur[w].id] = {}

SafeInv == TypeOK /\ WorkerInv /\ RowsInv /\ ReadInv /\ OneOpenPerFingerprint
-----------------------------------------------------------------------------
\* A row of the table is either free or a Row: its status tells which.
LEMMA RowShape ==
  ASSUME TypeOK, NEW id \in Ids
  PROVE  /\ rows[id] # NoRow <=> rows[id] \in Row
         /\ rows[id].status = "open" => rows[id] \in Row
<1>1. rows[id] \in Row \cup {NoRow}
  BY DEF TypeOK
<1>2. NoRow.status = "none"
  BY DEF NoRow
<1>3. ASSUME NEW r \in Row PROVE r.status \in {"open", "closed"}
  BY SMTT(30) DEF Row
<1> QED
  BY <1>1, <1>2, <1>3

\* Every step keeps the types.
LEMMA TypeStep ==
  ASSUME TypeOK, WorkerInv, RowsInv, [Next]_vars
  PROVE  TypeOK'
<1> USE PipelineAssumption DEF Time, Ids
<1> USE DEF TypeOK, vars, dbVars, localVars, sweepVars
<1>1. CASE Tick
  BY <1>1 DEF Tick
<1>2. ASSUME NEW w \in Workers, NEW kind \in {"ingest", "resolve"},
             NEW fp \in Fingerprints, NEW url \in URLs \cup {NoURL},
             Begin(w, kind, fp, url)
      PROVE  TypeOK'
  <2>1. [kind |-> kind, fp |-> fp, url |-> url, now |-> clock] \in Event
    BY DEF Event
  <2> QED
    BY <1>2, <2>1 DEF Begin, Steps
<1>3. ASSUME NEW w \in Workers, Return(w), pc[w] # "idle"
      PROVE  /\ locks' \in [Fingerprints -> Workers \cup {NoWorker}]
             /\ pc' \in [Workers -> Steps]
             /\ op' \in [Workers -> Event \cup {NoEvent}]
             /\ cur' \in [Workers -> Copy \cup {NoCopy}]
  BY <1>3 DEF Return, Steps
<1>4. ASSUME NEW w \in Workers, NEW step \in Steps, Goto(w, step)
      PROVE  /\ locks' \in [Fingerprints -> Workers \cup {NoWorker}]
             /\ pc' \in [Workers -> Steps]
             /\ op' \in [Workers -> Event \cup {NoEvent}]
             /\ cur' \in [Workers -> Copy \cup {NoCopy}]
  BY <1>4 DEF Goto
<1>5. ASSUME NEW w \in Workers, pc[w] # "idle"
      PROVE  op[w] \in Event
  BY <1>5 DEF WorkerInv, WorkerOK
<1>6. ASSUME NEW w \in Workers, pc[w] \in HasRow
      PROVE  /\ cur[w].id \in Ids
             /\ cur[w].row \in Row
  BY <1>6 DEF WorkerInv, WorkerOK, Copy
<1>7. ASSUME NEW w \in Workers, Acquire(w)
      PROVE  TypeOK'
  BY <1>5, <1>7 DEF Acquire, Event, Steps, StoreSteps
<1>8. ASSUME NEW w \in Workers, ReadOpen(w)
      PROVE  TypeOK'
  <2>1. PICK id \in OpenRows(op[w].fp) :
          cur' = [cur EXCEPT ![w] = [id |-> id, row |-> rows[id]]]
    BY <1>8 DEF ReadOpen
  <2>2. [id |-> id, row |-> rows[id]] \in Copy
    BY <2>1, RowShape DEF OpenRows, Copy
  <2> QED
    BY <1>8, <2>1, <2>2 DEF ReadOpen, Steps, StoreSteps
<1>9. ASSUME NEW w \in Workers, ReadNone(w)
      PROVE  TypeOK'
  BY <1>3, <1>4, <1>9 DEF ReadNone, Steps, StoreSteps
<1>10. ASSUME NEW w \in Workers, InsertMember(w), pc[w] \in HasRow
       PROVE  members' \in [Ids -> SUBSET URLs]
  BY <1>5, <1>6, <1>10 DEF InsertMember, Event, HasRow
<1>11. ASSUME NEW w \in Workers, AddMember(w)
       PROVE  TypeOK'
  BY <1>4, <1>10, <1>11 DEF AddMember, HasRow, Steps, StoreSteps
<1>12. ASSUME NEW w \in Workers, pc[w] = "update", Accrue(w)
       PROVE  TypeOK'
  <2>1. [cur[w].row EXCEPT !.count = @ + 1, !.updated = op[w].now] \in Row
    <3>1. op[w].now \in Time /\ cur[w].row \in Row
      BY <1>5, <1>6, <1>12 DEF HasRow, Event
    <3>2. cur[w].row.count + 1 \in Nat
      BY <3>1 DEF Row
    <3> QED
      BY <3>1, <3>2 DEF Row
  <2> QED
    BY <1>3, <1>12, <2>1 DEF Accrue
<1>13. ASSUME NEW w \in Workers, pc[w] = "update", Renotify(w)
       PROVE  TypeOK'
  <2>1. [cur[w].row EXCEPT !.count = @ + 1, !.updated = op[w].now,
                           !.notified = op[w].now] \in Row
    <3>1. op[w].now \in Time /\ cur[w].row \in Row
      BY <1>5, <1>6, <1>13 DEF HasRow, Event
    <3>2. cur[w].row.count + 1 \in Nat
      BY <3>1 DEF Row
    <3> QED
      BY <3>1, <3>2 DEF Row
  <2> QED
    BY <1>4, <1>13, <2>1 DEF Renotify, Steps
<1>14. ASSUME NEW w \in Workers, OpenIncident(w)
       PROVE  TypeOK'
  <2>1. NewRow(w) \in Row
    BY <1>5, <1>14 DEF OpenIncident, NewRow, Row, Event
  <2>2. [id |-> nextId, row |-> NewRow(w)] \in Copy
    BY <1>14, <2>1 DEF OpenIncident, Copy
  <2>3. nextId' \in 1..(MaxOps + 1)
    BY <1>14 DEF OpenIncident
  <2> QED
    BY <1>14, <2>1, <2>2, <2>3 DEF OpenIncident, Steps, StoreSteps
<1>15. ASSUME NEW w \in Workers, AddFirstMember(w)
       PROVE  TypeOK'
  BY <1>4, <1>10, <1>15 DEF AddFirstMember, HasRow, Steps
<1>16. ASSUME NEW w \in Workers, Dispatch(w)
       PROVE  TypeOK'
  <2>1. Append(notes[cur[w].id], op[w].now) \in Seq(Time)
    BY <1>5, <1>6, <1>16 DEF Dispatch, HasRow, Event
  <2> QED
    BY <1>3, <1>16, <2>1 DEF Dispatch
<1>17. ASSUME NEW w \in Workers, RemoveMember(w)
       PROVE  TypeOK'
  <2>1. members' \in [Ids -> SUBSET URLs]
    BY <1>6, <1>17 DEF RemoveMember, HasRow
  <2> QED
    BY <1>3, <1>4, <1>17, <2>1 DEF RemoveMember, Steps, StoreSteps
<1>18. ASSUME NEW w \in Workers, CloseIncident(w)
       PROVE  TypeOK'
  <2>1. rows[cur[w].id] \in Row
    BY <1>6, <1>18, RowShape DEF CloseIncident, HasRow, WorkerInv, WorkerOK, RowsInv
  <2>2. [rows[cur[w].id] EXCEPT !.status = "closed", !.updated = op[w].now] \in Row
    BY <1>5, <1>18, <2>1 DEF CloseIncident, Row, Event
  <2>3. rows' = [rows EXCEPT ![cur[w].id] =
                   [rows[cur[w].id] EXCEPT !.status = "closed", !.updated = op[w].now]]
    BY <1>6, <1>18, <2>1 DEF CloseIncident, HasRow
  <2>4. rows' \in [Ids -> Row \cup {NoRow}]
    BY <2>2, <2>3
  <2> QED
    BY <1>3, <1>18, <2>4 DEF CloseIncident
<1>19. CASE SweepRead
  BY <1>19 DEF SweepRead
<1>20. ASSUME NEW id \in Ids, SweepClose(id)
       PROVE  TypeOK'
  <2>1. rows[id] \in Row
    BY <1>20, RowShape DEF SweepClose, RowsInv
  <2>2. rows' = [rows EXCEPT ![id] = [rows[id] EXCEPT !.status = "closed",
                                        !.updated = sweepNow, !.auto = TRUE]]
    BY <1>20, <2>1 DEF SweepClose
  <2>3. [rows[id] EXCEPT !.status = "closed", !.updated = sweepNow, !.auto = TRUE] \in Row
    BY <2>1 DEF Row
  <2> QED
    BY <1>20, <2>2, <2>3 DEF SweepClose
<1>21. ASSUME NEW w \in Workers, StoreError(w)
       PROVE  TypeOK'
  BY <1>3, <1>21 DEF StoreError, StoreSteps
<1>22. CASE SweepError
  BY <1>22 DEF SweepError
<1>23. CASE Crash
  BY <1>23 DEF Crash, Steps
<1>24. CASE UNCHANGED vars
  BY <1>24
<1> HIDE DEF TypeOK
<1> QED
  BY <1>1, <1>2, <1>7, <1>8, <1>9, <1>11, <1>12, <1>13, <1>14, <1>15, <1>16, <1>17,
     <1>18, <1>19, <1>20, <1>21, <1>22, <1>23, <1>24
     DEF Next, Work, Accrue, Renotify

\* Past "lock", a worker is the only one handling its identity.
LEMMA Exclusive ==
  ASSUME TypeOK, WorkerInv, NEW v \in Workers, NEW w \in Workers, v # w,
         pc[v] \in InSection, pc[w] \in InSection
  PROVE  op[v].fp # op[w].fp
BY DEF WorkerInv, WorkerOK

\* Every step keeps the locals of a worker in agreement with where it is: its
\* own steps set them, the others' release or take only other mutexes.
LEMMA WorkerStep ==
  ASSUME TypeOK, TypeOK', WorkerInv, RowsInv, [Next]_vars
  PROVE  WorkerInv'
<1> SUFFICES ASSUME NEW v \in Workers PROVE WorkerOK(v)'
  BY DEF WorkerInv
<1> USE PipelineAssumption
<1> USE DEF WorkerOK, InSection, HasRow, Steps, StoreSteps
<1>0. WorkerOK(v)
  BY DEF WorkerInv
<1>1. CASE UNCHANGED <<nextId, localVars>>
  BY <1>0, <1>1 DEF localVars
<1>2. ASSUME NEW w \in Workers, NEW kind \in {"ingest", "resolve"},
             NEW fp \in Fingerprints, NEW url \in URLs \cup {NoURL},
             Begin(w, kind, fp, url)
      PROVE  WorkerOK(v)'
  BY <1>0, <1>2 DEF Begin, TypeOK, dbVars, Event
<1>3. ASSUME NEW w \in Workers, pc[w] \in InSection, Return(w), UNCHANGED nextId
      PROVE  WorkerOK(v)'
  BY <1>0, <1>3, Exclusive DEF Return, TypeOK, Event, WorkerInv
<1>4. ASSUME NEW w \in Workers, pc[w] \in HasRow, NEW step \in HasRow, Goto(w, step),
             UNCHANGED nextId
      PROVE  WorkerOK(v)'
  BY <1>0, <1>4 DEF Goto, TypeOK
<1>5. ASSUME NEW w \in Workers, Acquire(w)
      PROVE  WorkerOK(v)'
  BY <1>0, <1>5 DEF Acquire, TypeOK, dbVars, Event, WorkerInv
<1>6. ASSUME NEW w \in Workers, ReadOpen(w)
      PROVE  WorkerOK(v)'
  <2>1. PICK id \in OpenRows(op[w].fp) :
          cur' = [cur EXCEPT ![w] = [id |-> id, row |-> rows[id]]]
    BY <1>6 DEF ReadOpen
  <2>2. /\ id < nextId
        /\ [id |-> id, row |-> rows[id]] \in Copy
    BY <2>1, RowShape DEF OpenRows, RowsInv, Copy
  <2>3. rows[id].fp = op[w].fp /\ rows[id].status = "open"
    BY <2>1 DEF OpenRows
  <2> QED
    BY <1>0, <1>6, <2>1, <2>2, <2>3 DEF ReadOpen, TypeOK, dbVars
<1>7. ASSUME NEW w \in Workers, ReadNone(w)
      PROVE  WorkerOK(v)'
  <2>1. CASE Goto(w, "open")
    BY <1>0, <1>7, <2>1 DEF ReadNone, Goto, TypeOK, dbVars
  <2>2. CASE Return(w)
    BY <1>3, <1>7, <2>2 DEF ReadNone, dbVars
  <2> QED
    BY <1>7, <2>1, <2>2 DEF ReadNone
<1>8. ASSUME NEW w \in Workers, OpenIncident(w)
      PROVE  WorkerOK(v)'
  <2>1. /\ NewRow(w).fp = op[w].fp
        /\ NewRow(w).status = "open"
    BY DEF NewRow
  <2>2. cur'[w] = [id |-> nextId, row |-> NewRow(w)]
    BY <1>8 DEF OpenIncident, TypeOK
  <2>3. cur'[w] \in Copy
    BY <2>2, <1>8 DEF OpenIncident, TypeOK, NoCopy, Copy, Ids
  <2>4. /\ nextId' = nextId + 1
        /\ nextId \in Nat
        /\ \A u \in Workers : cur[u] \in Copy => cur[u].id \in Nat
    BY <1>8 DEF OpenIncident, TypeOK, Copy, Ids
  <2> QED
    BY <1>0, <1>8, <2>1, <2>2, <2>3, <2>4 DEF OpenIncident, TypeOK
<1>9. ASSUME NEW w \in Workers, StoreError(w)
      PROVE  WorkerOK(v)'
  BY <1>3, <1>9 DEF StoreError, dbVars, InSection, Return, TypeOK
<1>10. CASE Crash
  BY <1>10 DEF Crash, dbVars
<1>11. ASSUME NEW w \in Workers, Work(w)
       PROVE  WorkerOK(v)'
  BY <1>3, <1>4, <1>5, <1>6, <1>7, <1>8, <1>11
     DEF Work, AddMember, Accrue, Renotify, AddFirstMember, Dispatch, RemoveMember,
         CloseIncident, dbVars
<1> QED
  BY <1>1, <1>2, <1>9, <1>10, <1>11
     DEF Next, Tick, SweepRead, SweepClose, SweepError, vars, dbVars, localVars

\* The one way an operation writes a row it has: the row stays in the table and
\* stays of its identity, so every other row keeps what the workers know of it.
RowWritten(w, r) ==
  /\ rows' = [rows EXCEPT ![cur[w].id] = r]
  /\ r \in Row
  /\ r.fp = op[w].fp

\* Every step that writes the row of a worker that has one is a RowWritten.
LEMMA WritesOwnRow ==
  ASSUME TypeOK, WorkerInv, RowsInv, ReadInv, NEW w \in Workers,
         Accrue(w) \/ Renotify(w) \/ CloseIncident(w)
  PROVE  pc[w] \in HasRow /\ \E r \in Row : RowWritten(w, r)
<1> USE DEF WorkerInv, WorkerOK, HasRow
<1>1. pc[w] \in {"update", "close"}
  BY DEF Accrue, Renotify, CloseIncident
<1>2. /\ op[w] \in Event
      /\ cur[w] \in Copy
      /\ cur[w].id \in Ids
      /\ cur[w].row \in Row
      /\ rows[cur[w].id] \in Row
      /\ rows[cur[w].id].fp = op[w].fp
      /\ cur[w].row.fp = op[w].fp
  BY <1>1, RowShape DEF Copy, RowsInv, ReadInv, ReadOK
<1>3. cur[w].row.count + 1 \in Nat /\ op[w].now \in Time
  BY <1>2 DEF Row, Event
<1>4. CASE Accrue(w)
  <2> DEFINE r == [cur[w].row EXCEPT !.count = @ + 1, !.updated = op[w].now]
  <2>1. r \in Row /\ r.fp = op[w].fp
    BY <1>2, <1>3 DEF Row
  <2> QED
    BY <1>1, <1>4, <2>1 DEF Accrue, RowWritten
<1>5. CASE Renotify(w)
  <2> DEFINE r == [cur[w].row EXCEPT !.count = @ + 1, !.updated = op[w].now,
                                     !.notified = op[w].now]
  <2>1. r \in Row /\ r.fp = op[w].fp
    BY <1>2, <1>3 DEF Row
  <2> QED
    BY <1>1, <1>5, <2>1 DEF Renotify, RowWritten
<1>6. CASE CloseIncident(w)
  <2> DEFINE r == [rows[cur[w].id] EXCEPT !.status = "closed", !.updated = op[w].now]
  <2>1. r \in Row /\ r.fp = op[w].fp
    BY <1>2, <1>3 DEF Row
  <2>2. rows' = [rows EXCEPT ![cur[w].id] = r]
    BY <1>2, <1>6 DEF CloseIncident, TypeOK
  <2> QED
    BY <1>1, <2>1, <2>2 DEF RowWritten
<1> QED
  BY <1>4, <1>5, <1>6

\* The sweep closes a row of the table and changes neither its identity nor its
\* notification stamp.
LEMMA SweepWrites ==
  ASSUME TypeOK, RowsInv, NEW id \in Ids, SweepClose(id)
  PROVE  /\ rows'[id] \in Row
         /\ rows'[id].status = "closed"
         /\ rows'[id].fp = rows[id].fp
         /\ rows'[id].notified = rows[id].notified
         /\ rows'[id].auto
         /\ id < nextId
         /\ \A other \in Ids \ {id} : rows'[other] = rows[other]
<1>1. rows[id] \in Row /\ id < nextId
  BY RowShape DEF SweepClose, RowsInv
<1>2. rows' = [rows EXCEPT ![id] = [rows[id] EXCEPT !.status = "closed",
                                      !.updated = sweepNow, !.auto = TRUE]]
  BY <1>1 DEF SweepClose, TypeOK
<1> QED
  BY <1>1, <1>2 DEF TypeOK, Row

\* Rows are inserted at nextId and never taken away.
LEMMA RowsStep ==
  ASSUME TypeOK, TypeOK', WorkerInv, RowsInv, ReadInv, [Next]_vars
  PROVE  RowsInv'
<1> USE DEF RowsInv
<1>1. CASE UNCHANGED <<rows, nextId>> /\ sweepList' \subseteq sweepList
  BY <1>1
<1>2. CASE SweepRead
  <2>1. \A id \in sweepList' : rows[id].status = "open" /\ id \in Ids
    BY <1>2 DEF SweepRead
  <2> QED
    BY <1>2, <2>1, RowShape DEF SweepRead, dbVars
<1>3. ASSUME NEW w \in Workers, Accrue(w) \/ Renotify(w) \/ CloseIncident(w)
      PROVE  RowsInv'
  <2>1. PICK r \in Row : RowWritten(w, r)
    BY <1>3, WritesOwnRow
  <2>2. cur[w].id \in Ids /\ cur[w].id < nextId
    BY <1>3, WritesOwnRow DEF WorkerInv, WorkerOK, Copy
  <2>3. r # NoRow
    BY DEF Row, NoRow
  <2>4. UNCHANGED <<nextId, sweepList>>
    BY <1>3 DEF Accrue, Renotify, CloseIncident, sweepVars
  <2> QED
    BY <2>1, <2>2, <2>3, <2>4 DEF RowWritten, TypeOK
<1>4. ASSUME NEW w \in Workers, OpenIncident(w)
      PROVE  RowsInv'
  <2>1. NewRow(w) # NoRow
    BY DEF NewRow, NoRow
  <2>2. /\ nextId' = nextId + 1
        /\ rows' = [rows EXCEPT ![nextId] = NewRow(w)]
        /\ UNCHANGED sweepList
    BY <1>4 DEF OpenIncident, sweepVars
  <2> QED
    BY <2>1, <2>2, PipelineAssumption DEF TypeOK, Ids
<1>5. ASSUME NEW id \in Ids, SweepClose(id)
      PROVE  RowsInv'
  <2>1. rows'[id] # NoRow
    BY <1>5, SweepWrites DEF Row, NoRow
  <2>2. UNCHANGED nextId /\ sweepList' \subseteq sweepList
    BY <1>5 DEF SweepClose
  <2> QED
    BY <1>5, <2>1, <2>2, SweepWrites
<1>6. CASE Crash \/ SweepError
  BY <1>1, <1>6 DEF Crash, SweepError, dbVars
<1>7. ASSUME NEW w \in Workers, Work(w)
      PROVE  RowsInv'
  BY <1>1, <1>3, <1>4, <1>7
     DEF Work, Acquire, ReadOpen, ReadNone, AddMember, AddFirstMember, Dispatch,
         RemoveMember, dbVars, sweepVars
<1> QED
  BY <1>1, <1>2, <1>5, <1>6, <1>7
     DEF Next, Tick, Begin, StoreError, vars, dbVars, sweepVars

-----------------------------------------------------------------------------
\* A row written under the mutex of its identity leaves the rows of every other
\* identity as they were, and no open row of its own identity but itself.
LEMMA WriteKeepsReads ==
  ASSUME TypeOK, WorkerInv, RowsInv, ReadInv,
         NEW w \in Workers, pc[w] \in HasRow, NEW r \in Row, RowWritten(w, r)
  PROVE  /\ \A fp \in Fingerprints :
              OpenRows(fp)' \subseteq IF fp = op[w].fp THEN {cur[w].id} ELSE OpenRows(fp)
         /\ \A id \in Ids : id < nextId => rows'[id].fp = rows[id].fp
<1>1. /\ cur[w].id \in Ids
      /\ rows[cur[w].id].fp = op[w].fp
      /\ OpenRows(op[w].fp) \subseteq {cur[w].id}
  BY DEF WorkerInv, WorkerOK, Copy, ReadInv, ReadOK
<1>2. \A id \in Ids : rows'[id] = IF id = cur[w].id THEN r ELSE rows[id]
  BY <1>1 DEF RowWritten, TypeOK
<1> QED
  BY <1>1, <1>2 DEF RowWritten, OpenRows

\* A worker that does not move keeps what it has read, if no row of its identity
\* is opened or changes identity.
LEMMA ReadKept ==
  ASSUME TypeOK, WorkerInv, ReadInv, NEW v \in Workers,
         pc'[v] = pc[v], op'[v] = op[v], cur'[v] = cur[v],
         pc[v] \in InSection => OpenRows(op[v].fp)' \subseteq OpenRows(op[v].fp),
         \A id \in Ids : id < nextId => rows'[id].fp = rows[id].fp
  PROVE  ReadOK(v)'
<1>1. CASE pc[v] = "open"
  BY <1>1 DEF ReadInv, ReadOK, InSection, Steps, StoreSteps, HasRow, OpenRows
<1>2. CASE pc[v] \in HasRow
  <2>1. cur[v].id \in Ids /\ cur[v].id < nextId
    BY <1>2 DEF WorkerInv, WorkerOK, Copy
  <2>2. pc[v] \in InSection
    BY <1>2 DEF HasRow, InSection, Steps, StoreSteps
  <2> QED
    BY <1>2, <2>1, <2>2 DEF ReadInv, ReadOK, HasRow, OpenRows
<1> QED
  BY <1>1, <1>2 DEF ReadOK

\* One open incident per identity, said with OpenRows.
LEMMA OneOpenKept ==
  ASSUME TypeOK', \A fp \in Fingerprints : \A i, j \in OpenRows(fp)' : i = j
  PROVE  OneOpenPerFingerprint'
<1> SUFFICES ASSUME NEW i \in Ids, NEW j \in Ids,
                    rows'[i].status = "open", rows'[j].status = "open", rows'[i].fp = rows'[j].fp
             PROVE  i = j
  BY DEF OneOpenPerFingerprint
<1>1. rows'[i] \in Row
  BY DEF TypeOK, NoRow
<1>2. rows'[i].fp \in Fingerprints
  BY <1>1 DEF Row
<1> QED
  BY <1>2 DEF OpenRows

\* Every step keeps what the workers have read: the rows of an identity are
\* written by the holder of its mutex only, but for the sweep, which closes.
LEMMA ReadStep ==
  ASSUME TypeOK, TypeOK', WorkerInv, RowsInv, ReadInv, OneOpenPerFingerprint, [Next]_vars
  PROVE  ReadInv' /\ OneOpenPerFingerprint'
<1> USE DEF HasRow, InSection, Steps, StoreSteps
<1>1. ASSUME UNCHANGED rows, NEW v \in Workers, pc'[v] = pc[v], op'[v] = op[v], cur'[v] = cur[v]
      PROVE  ReadOK(v)'
  <2>1. OpenRows(op[v].fp)' = OpenRows(op[v].fp)
    BY <1>1 DEF OpenRows
  <2> QED
    BY <1>1, <2>1, ReadKept
<1>2. UNCHANGED rows => OneOpenPerFingerprint'
  BY DEF OneOpenPerFingerprint
<1>3. CASE UNCHANGED <<rows, pc, op, cur>>
  BY <1>1, <1>2, <1>3 DEF ReadInv
<1>4. ASSUME NEW w \in Workers, UNCHANGED rows, ReadOK(w)',
             \A v \in Workers \ {w} : pc'[v] = pc[v] /\ op'[v] = op[v] /\ cur'[v] = cur[v]
      PROVE  ReadInv' /\ OneOpenPerFingerprint'
  BY <1>1, <1>2, <1>4 DEF ReadInv
<1>5. ASSUME NEW w \in Workers, pc[w] # "idle", Return(w), UNCHANGED rows
      PROVE  ReadInv' /\ OneOpenPerFingerprint'
  <2>1. ReadOK(w)'
    BY <1>5 DEF Return, ReadOK, TypeOK
  <2> QED
    BY <1>4, <1>5, <2>1 DEF Return, TypeOK
<1>6. ASSUME NEW w \in Workers, pc[w] \in HasRow, NEW step \in HasRow, Goto(w, step),
             UNCHANGED rows
      PROVE  ReadInv' /\ OneOpenPerFingerprint'
  <2>1. ReadOK(w)'
    BY <1>6 DEF Goto, ReadInv, ReadOK, TypeOK, OpenRows
  <2> QED
    BY <1>4, <1>6, <2>1 DEF Goto, TypeOK
<1>7. ASSUME NEW w \in Workers, NEW kind \in {"ingest", "resolve"},
             NEW fp \in Fingerprints, NEW url \in URLs \cup {NoURL},
             Begin(w, kind, fp, url)
      PROVE  ReadInv' /\ OneOpenPerFingerprint'
  <2>1. ReadOK(w)'
    BY <1>7 DEF Begin, ReadOK, TypeOK
  <2> QED
    BY <1>4, <1>7, <2>1 DEF Begin, TypeOK, dbVars
<1>8. ASSUME NEW w \in Workers, Acquire(w)
      PROVE  ReadInv' /\ OneOpenPerFingerprint'
  <2>1. ReadOK(w)'
    BY <1>8 DEF Acquire, ReadOK, TypeOK
  <2> QED
    BY <1>4, <1>8, <2>1 DEF Acquire, TypeOK, dbVars
<1>9. ASSUME NEW w \in Workers, ReadOpen(w)
      PROVE  ReadInv' /\ OneOpenPerFingerprint'
  <2>1. PICK id \in OpenRows(op[w].fp) :
          cur' = [cur EXCEPT ![w] = [id |-> id, row |-> rows[id]]]
    BY <1>9 DEF ReadOpen
  <2>2. UNCHANGED <<rows, op>> /\ cur'[w].id = id
    BY <1>9, <2>1 DEF ReadOpen, dbVars, TypeOK
  <2>3. rows[id].fp = op[w].fp /\ OpenRows(op[w].fp) \subseteq {id}
    BY <2>1 DEF OpenRows, OneOpenPerFingerprint
  <2>4. OpenRows(op[w].fp)' = OpenRows(op[w].fp)
    BY <2>2 DEF OpenRows
  <2>5. pc'[w] \in {"member", "remove"}
    BY <1>9 DEF ReadOpen, TypeOK
  <2>6. ReadOK(w)'
    BY <2>2, <2>3, <2>4, <2>5 DEF ReadOK
  <2> QED
    BY <1>4, <1>9, <2>1, <2>2, <2>6 DEF ReadOpen, TypeOK
<1>10. ASSUME NEW w \in Workers, ReadNone(w)
       PROVE  ReadInv' /\ OneOpenPerFingerprint'
  <2>1. CASE Goto(w, "open")
    <3>1. OpenRows(op[w].fp)' = {} /\ pc'[w] = "open"
      BY <1>10, <2>1 DEF ReadNone, Goto, OpenRows, dbVars, TypeOK
    <3> QED
      BY <1>4, <1>10, <2>1, <3>1 DEF ReadNone, Goto, ReadOK, TypeOK, dbVars
  <2>2. CASE Return(w)
    BY <1>5, <1>10, <2>2 DEF ReadNone, dbVars
  <2> QED
    BY <1>10, <2>1, <2>2 DEF ReadNone
<1>11. ASSUME NEW w \in Workers, Accrue(w) \/ Renotify(w) \/ CloseIncident(w)
       PROVE  ReadInv' /\ OneOpenPerFingerprint'
  <2>1. PICK r \in Row : RowWritten(w, r)
    BY <1>11, WritesOwnRow
  <2>2. pc[w] \in HasRow
    BY <1>11, WritesOwnRow
  <2>3. /\ \A fp \in Fingerprints :
             OpenRows(fp)' \subseteq IF fp = op[w].fp THEN {cur[w].id} ELSE OpenRows(fp)
        /\ \A id \in Ids : id < nextId => rows'[id].fp = rows[id].fp
    BY <2>1, <2>2, WriteKeepsReads
  <2>4. OneOpenPerFingerprint'
    BY <2>3, OneOpenKept DEF OneOpenPerFingerprint, OpenRows
  <2>5. ReadOK(w)'
    <3>1. CASE Renotify(w)
      <4>1. pc'[w] = "dispatch" /\ op' = op /\ cur' = cur
        BY <3>1 DEF Renotify, Goto, TypeOK
      <4>2. cur[w].id \in Ids /\ cur[w].id < nextId /\ op[w].fp \in Fingerprints
        BY <2>2 DEF WorkerInv, WorkerOK, Copy, Event
      <4>3. rows[cur[w].id].fp = op[w].fp
        BY <2>2 DEF ReadInv, ReadOK
      <4>4. OpenRows(op[w].fp)' \subseteq {cur[w].id}
        BY <2>3, <4>1, <4>2 DEF OpenRows
      <4> QED
        BY <2>3, <4>1, <4>2, <4>3, <4>4 DEF ReadOK
    <3>2. CASE Accrue(w) \/ CloseIncident(w)
      BY <3>2 DEF Accrue, CloseIncident, Return, ReadOK, TypeOK
    <3> QED
      BY <1>11, <3>1, <3>2
  <2>6. ASSUME NEW v \in Workers, v # w
        PROVE  ReadOK(v)'
    <3>1. pc'[v] = pc[v] /\ op'[v] = op[v] /\ cur'[v] = cur[v]
      BY <1>11, <2>6 DEF Accrue, Renotify, CloseIncident, Return, Goto, TypeOK
    <3>2. ASSUME pc[v] \in InSection
          PROVE  OpenRows(op[v].fp)' \subseteq OpenRows(op[v].fp)
      <4>1. op[v].fp # op[w].fp /\ op[v].fp \in Fingerprints
        BY <2>2, <2>6, <3>2, Exclusive DEF WorkerInv, WorkerOK, Event
      <4> QED
        BY <2>3, <3>1, <4>1 DEF OpenRows
    <3> QED
      BY <2>3, <3>1, <3>2, ReadKept
  <2> QED
    BY <2>4, <2>5, <2>6 DEF ReadInv
<1>12. ASSUME NEW w \in Workers, OpenIncident(w)
       PROVE  ReadInv' /\ OneOpenPerFingerprint'
  <2>1. /\ OpenRows(op[w].fp) = {}
        /\ op[w] \in Event
        /\ nextId \in Ids
        /\ NewRow(w).fp = op[w].fp
    BY <1>12 DEF OpenIncident, ReadInv, ReadOK, WorkerInv, WorkerOK, NewRow
  <2>2. \A id \in Ids : rows'[id] = IF id = nextId THEN NewRow(w) ELSE rows[id]
    BY <1>12 DEF OpenIncident, TypeOK
  <2>3. /\ \A fp \in Fingerprints :
             OpenRows(fp)' \subseteq IF fp = op[w].fp THEN {nextId} ELSE OpenRows(fp)
        /\ \A id \in Ids : id < nextId => rows'[id].fp = rows[id].fp
    BY <2>1, <2>2 DEF OpenRows, Ids
  <2>4. OneOpenPerFingerprint'
    BY <2>3, OneOpenKept DEF OneOpenPerFingerprint, OpenRows
  <2>5. ReadOK(w)'
    <3>1. pc'[w] = "firstMember" /\ op' = op /\ cur'[w].id = nextId
      BY <1>12 DEF OpenIncident, TypeOK
    <3>2. OpenRows(op[w].fp)' \subseteq {nextId}
      BY <2>1, <2>3, <3>1 DEF OpenRows, Event
    <3> QED
      BY <2>1, <2>2, <3>1, <3>2 DEF ReadOK
  <2>6. ASSUME NEW v \in Workers, v # w
        PROVE  ReadOK(v)'
    <3>1. pc'[v] = pc[v] /\ op'[v] = op[v] /\ cur'[v] = cur[v]
      BY <1>12, <2>6 DEF OpenIncident, TypeOK
    <3>2. ASSUME pc[v] \in InSection
          PROVE  OpenRows(op[v].fp)' \subseteq OpenRows(op[v].fp)
      <4>1. op[v].fp # op[w].fp /\ op[v].fp \in Fingerprints
        BY <1>12, <2>6, <3>2, Exclusive DEF OpenIncident, WorkerInv, WorkerOK, Event
      <4> QED
        BY <2>3, <3>1, <4>1 DEF OpenRows
    <3> QED
      BY <2>3, <3>1, <3>2, ReadKept
  <2> QED
    BY <2>4, <2>5, <2>6 DEF ReadInv
<1>13. ASSUME NEW id \in Ids, SweepClose(id)
       PROVE  ReadInv' /\ OneOpenPerFingerprint'
  <2>1. \A fp \in Fingerprints : OpenRows(fp)' \subseteq OpenRows(fp)
    BY <1>13, SweepWrites DEF OpenRows
  <2>2. \A other \in Ids : rows'[other].fp = rows[other].fp
    BY <1>13, SweepWrites
  <2>3. UNCHANGED <<pc, op, cur>>
    BY <1>13 DEF SweepClose, localVars
  <2>4. OneOpenPerFingerprint'
    BY <2>1, OneOpenKept DEF OneOpenPerFingerprint, OpenRows
  <2>5. ASSUME NEW v \in Workers
        PROVE  ReadOK(v)'
    <3>1. ASSUME pc[v] \in InSection
          PROVE  OpenRows(op[v].fp)' \subseteq OpenRows(op[v].fp)
      <4>1. op[v].fp \in Fingerprints
        BY <3>1 DEF WorkerInv, WorkerOK, Event
      <4> QED
        BY <2>1, <2>3, <4>1 DEF OpenRows
    <3> QED
      BY <2>2, <2>3, <3>1, ReadKept
  <2> QED
    BY <2>4, <2>5 DEF ReadInv
<1>14. CASE Crash
  BY <1>2, <1>14 DEF Crash, ReadInv, ReadOK, dbVars
<1>15. ASSUME NEW w \in Workers, Work(w)
       PROVE  ReadInv' /\ OneOpenPerFingerprint'
  BY <1>5, <1>6, <1>8, <1>9, <1>10, <1>11, <1>12, <1>15
     DEF Work, AddMember, AddFirstMember, Dispatch, RemoveMember, dbVars
<1>16. ASSUME NEW w \in Workers, StoreError(w)
       PROVE  ReadInv' /\ OneOpenPerFingerprint'
  BY <1>5, <1>16 DEF StoreError, dbVars
<1> QED
  BY <1>3, <1>7, <1>13, <1>14, <1>15, <1>16
     DEF Next, Tick, SweepRead, SweepError, vars, dbVars, localVars

\* The invariant holds at the start and is kept by every step.
LEMMA SafeInductive ==
  /\ Init => SafeInv
  /\ SafeInv /\ [Next]_vars => SafeInv'
<1>1. Init => SafeInv
  <2> SUFFICES ASSUME Init PROVE SafeInv
    OBVIOUS
  <2> USE PipelineAssumption DEF Init
  <2>1. TypeOK
    BY DEF TypeOK, Time, Ids, Steps
  <2>2. RowsInv
    BY DEF RowsInv, Ids
  <2>3. WorkerInv /\ ReadInv
    BY DEF WorkerInv, WorkerOK, ReadInv, ReadOK, InSection, HasRow
  <2>4. OneOpenPerFingerprint
    BY DEF OneOpenPerFingerprint, NoRow
  <2> QED
    BY <2>1, <2>2, <2>3, <2>4 DEF SafeInv
<1>2. SafeInv /\ [Next]_vars => SafeInv'
  BY TypeStep, WorkerStep, RowsStep, ReadStep DEF SafeInv
<1> QED
  BY <1>1, <1>2

LEMMA Safe == Spec => []SafeInv
BY SafeInductive, PTL DEF Spec

\* Every variable keeps its type: no step writes a row that is not in the table
\* or a member that is not a page, and the ids stay within their bound.
THEOREM TypeCorrect == Spec => []TypeOK
BY Safe, PTL DEF SafeInv

\* Whatever the number of crawl workers, of identities and of pages, and with
\* errors and crashes at any step, an identity never has two open incidents.
THEOREM OneOpenCorrect == Spec => []OneOpenPerFingerprint
BY Safe, PTL DEF SafeInv

-----------------------------------------------------------------------------
\* Workers past "lock" never hold the same row.
LEMMA OwnRows ==
  ASSUME SafeInv, NEW v \in Workers, NEW w \in Workers, v # w,
         pc[v] \in HasRow, pc[w] \in HasRow
  PROVE  cur[v].id # cur[w].id
<1>1. op[v].fp # op[w].fp
  BY Exclusive DEF SafeInv, HasRow, InSection, Steps, StoreSteps
<1> QED
  BY <1>1 DEF SafeInv, ReadInv, ReadOK

\* What is known of the row of a worker that has one.
LEMMA HeldRow ==
  ASSUME SafeInv, NEW w \in Workers, pc[w] \in HasRow
  PROVE  /\ op[w] \in Event
         /\ op[w].now \in Time
         /\ cur[w].id \in Ids
         /\ cur[w].id < nextId
         /\ cur[w].row \in Row
         /\ rows[cur[w].id] \in Row
<1>1. pc[w] # "idle" /\ cur[w] \in Copy /\ cur[w].id < nextId /\ op[w] \in Event
  BY DEF SafeInv, WorkerInv, WorkerOK, HasRow
<1> QED
  BY <1>1, RowShape DEF SafeInv, RowsInv, Copy, Event

\* The stamps of the rows, the notifications sent and the workers' copies, kept
\* together by every step.
NotifyInv == StampInv /\ CopyInv /\ DedupSpacing

\* A step that writes neither the stamps nor the notifications keeps NotifyInv,
\* if it brings no worker to a step that NotifyInv speaks of.
LEMMA NotifyKept ==
  ASSUME SafeInv, NotifyInv, UNCHANGED notes, nextId' \in Nat, nextId' >= nextId,
         \A id \in Ids : id < nextId => rows'[id].notified = rows[id].notified,
         \A v \in Workers :
           \/ pc'[v] \notin {"member", "update", "firstMember", "dispatch"}
           \/ pc'[v] = pc[v] /\ op'[v] = op[v] /\ cur'[v] = cur[v]
  PROVE  NotifyInv'
<1> USE DEF HasRow
<1>1. \A v \in Workers : pc[v] \in HasRow => cur[v].id \in Ids /\ cur[v].id < nextId
  BY HeldRow
<1>2. StampInv'
  BY DEF NotifyInv, StampInv, SafeInv, TypeOK, Ids
<1>3. CopyInv'
  BY <1>1 DEF NotifyInv, CopyInv
<1>4. DedupSpacing'
  BY DEF NotifyInv, DedupSpacing
<1> QED
  BY <1>2, <1>3, <1>4 DEF NotifyInv

\* Every step keeps NotifyInv: a stamp moves forward by at least the window, and
\* the notification that follows carries it.
LEMMA NotifyStep ==
  ASSUME SafeInv, SafeInv', NotifyInv, [Next]_vars
  PROVE  NotifyInv'
<1> USE DEF HasRow
<1>1. nextId \in Nat /\ nextId' \in Nat
  BY PipelineAssumption DEF SafeInv, TypeOK
<1>2. CASE UNCHANGED <<rows, nextId, notes, pc, op, cur>>
  BY <1>1, <1>2, NotifyKept
<1>3. ASSUME NEW w \in Workers, UNCHANGED <<rows, nextId, notes>>,
             pc'[w] \notin {"member", "update", "firstMember", "dispatch"},
             \A v \in Workers \ {w} : pc'[v] = pc[v] /\ op'[v] = op[v] /\ cur'[v] = cur[v]
      PROVE  NotifyInv'
  BY <1>1, <1>3, NotifyKept
<1>4. ASSUME NEW w \in Workers, NEW kind \in {"ingest", "resolve"},
             NEW fp \in Fingerprints, NEW url \in URLs \cup {NoURL},
             Begin(w, kind, fp, url)
      PROVE  NotifyInv'
  BY <1>3, <1>4 DEF Begin, SafeInv, TypeOK, dbVars
<1>5. ASSUME NEW w \in Workers, pc[w] # "idle", Return(w), UNCHANGED <<rows, nextId, notes>>
      PROVE  NotifyInv'
  BY <1>3, <1>5 DEF Return, SafeInv, TypeOK
<1>6. ASSUME NEW w \in Workers, Acquire(w)
      PROVE  NotifyInv'
  BY <1>3, <1>6 DEF Acquire, SafeInv, TypeOK, dbVars
<1>7. ASSUME NEW w \in Workers, ReadOpen(w)
      PROVE  NotifyInv'
  <2>1. PICK id \in OpenRows(op[w].fp) :
          cur' = [cur EXCEPT ![w] = [id |-> id, row |-> rows[id]]]
    BY <1>7 DEF ReadOpen
  <2>2. /\ UNCHANGED <<rows, nextId, notes, op>>
        /\ pc'[w] \in {"member", "remove"}
        /\ cur'[w] = [id |-> id, row |-> rows[id]]
        /\ \A v \in Workers \ {w} : pc'[v] = pc[v] /\ cur'[v] = cur[v]
    BY <1>7, <2>1 DEF ReadOpen, dbVars, SafeInv, TypeOK
  <2>3. StampInv' /\ DedupSpacing'
    BY <2>2 DEF NotifyInv, StampInv, DedupSpacing
  <2>4. CopyInv'
    BY <2>2 DEF NotifyInv, CopyInv
  <2> QED
    BY <2>3, <2>4 DEF NotifyInv
<1>8. ASSUME NEW w \in Workers, ReadNone(w)
      PROVE  NotifyInv'
  <2>1. CASE Goto(w, "open")
    BY <1>3, <1>8, <2>1 DEF ReadNone, Goto, SafeInv, TypeOK, dbVars
  <2>2. CASE Return(w)
    BY <1>5, <1>8, <2>2 DEF ReadNone, dbVars
  <2> QED
    BY <1>8, <2>1, <2>2 DEF ReadNone
<1>9. ASSUME NEW w \in Workers, AddMember(w)
      PROVE  NotifyInv'
  <2>1. /\ UNCHANGED <<rows, nextId, notes, op, cur>>
        /\ pc[w] = "member" /\ pc'[w] = "update"
        /\ \A v \in Workers \ {w} : pc'[v] = pc[v]
    BY <1>9 DEF AddMember, Goto, SafeInv, TypeOK
  <2>2. StampInv' /\ DedupSpacing'
    BY <2>1 DEF NotifyInv, StampInv, DedupSpacing
  <2>3. CopyInv'
    BY <2>1 DEF NotifyInv, CopyInv
  <2> QED
    BY <2>2, <2>3 DEF NotifyInv
<1>10. ASSUME NEW w \in Workers, AddFirstMember(w)
       PROVE  NotifyInv'
  <2>1. /\ UNCHANGED <<rows, nextId, notes, op, cur>>
        /\ pc[w] = "firstMember" /\ pc'[w] = "dispatch"
        /\ \A v \in Workers \ {w} : pc'[v] = pc[v]
    BY <1>10 DEF AddFirstMember, Goto, SafeInv, TypeOK
  <2>2. notes[cur[w].id] = <<>>
    BY <2>1 DEF NotifyInv, CopyInv
  <2>3. StampInv' /\ DedupSpacing'
    BY <2>1, <2>2 DEF NotifyInv, StampInv, DedupSpacing
  <2>4. CopyInv'
    BY <2>1 DEF NotifyInv, CopyInv
  <2> QED
    BY <2>3, <2>4 DEF NotifyInv
<1>11. ASSUME NEW w \in Workers, Accrue(w)
       PROVE  NotifyInv'
  <2>1. /\ pc[w] = "update"
        /\ cur[w].row.notified = rows[cur[w].id].notified
    BY <1>11 DEF Accrue, NotifyInv, CopyInv
  <2>2. cur[w].id \in Ids /\ cur[w].row \in Row
    BY <2>1, HeldRow
  <2>3. \A id \in Ids : rows'[id].notified = rows[id].notified
    BY <1>11, <2>1, <2>2 DEF Accrue, SafeInv, TypeOK, Row
  <2>4. /\ UNCHANGED <<nextId, notes>>
        /\ pc'[w] = "idle"
        /\ \A v \in Workers \ {w} : pc'[v] = pc[v] /\ op'[v] = op[v] /\ cur'[v] = cur[v]
    BY <1>11 DEF Accrue, Return, SafeInv, TypeOK
  <2> QED
    BY <1>1, <2>3, <2>4, NotifyKept
<1>12. ASSUME NEW w \in Workers, Renotify(w)
       PROVE  NotifyInv'
  <2> DEFINE i == cur[w].id
  <2>1. /\ pc[w] = "update"
        /\ cur[w].row.notified = rows[i].notified
    BY <1>12 DEF Renotify, NotifyInv, CopyInv
  <2>2. i \in Ids /\ i < nextId /\ cur[w].row \in Row /\ op[w].now \in Time
    BY <2>1, HeldRow
  <2>3. /\ UNCHANGED <<nextId, notes, op, cur>>
        /\ pc'[w] = "dispatch"
        /\ \A v \in Workers \ {w} : pc'[v] = pc[v]
    BY <1>12 DEF Renotify, Goto, SafeInv, TypeOK
  <2>4. /\ rows'[i].notified = op[w].now
        /\ \A id \in Ids \ {i} : rows'[id] = rows[id]
    BY <1>12, <2>2 DEF Renotify, SafeInv, TypeOK, Row
  <2>5. rows[i].notified + DedupWindow <= op[w].now /\ rows[i].notified \in Nat
    <3>1. cur[w].row.notified \in 0..MaxTime /\ op[w].now \in 0..MaxTime
      BY <2>2 DEF Row, Time
    <3> QED
      BY <1>12, <2>1, <3>1, PipelineAssumption DEF Renotify, WithinWindow
  <2>6. \A v \in Workers \ {w} : pc[v] \in HasRow => cur[v].id # i
    BY <2>1, OwnRows
  <2>7. StampInv'
    <3>1. ASSUME NEW id \in Ids, notes[id] # <<>>
          PROVE  notes[id][Len(notes[id])] \in Nat
      <4>1. notes[id] \in Seq(Time)
        BY DEF SafeInv, TypeOK
      <4>2. Len(notes[id]) \in 1..Len(notes[id])
        BY <3>1, <4>1
      <4> QED
        BY <4>1, <4>2, PipelineAssumption DEF Time
    <3>2. notes[i] # <<>> =>
            /\ notes[i][Len(notes[i])] + DedupWindow <= op[w].now
            /\ notes[i][Len(notes[i])] <= op[w].now
      <4>1. op[w].now \in Nat /\ DedupWindow \in Nat
        BY <2>2, PipelineAssumption DEF Time
      <4>2. notes[i] # <<>> => notes[i][Len(notes[i])] <= rows[i].notified
        BY <2>2 DEF NotifyInv, StampInv
      <4>3. notes[i] # <<>> => notes[i][Len(notes[i])] \in Nat
        BY <2>2, <3>1
      <4> HIDE DEF i
      <4> QED
        BY <2>5, <4>1, <4>2, <4>3
    <3> QED
      BY <2>2, <2>3, <2>4, <2>6, <3>2 DEF NotifyInv, StampInv
  <2>8. CopyInv'
    <3>1. \A v \in Workers \ {w} : pc[v] \in HasRow =>
            cur[v].id \in Ids /\ rows'[cur[v].id] = rows[cur[v].id]
      BY <2>4, <2>6, HeldRow
    <3> QED
      BY <2>3, <2>4, <3>1 DEF NotifyInv, CopyInv
  <2>9. DedupSpacing'
    BY <2>3 DEF NotifyInv, DedupSpacing
  <2> QED
    BY <2>7, <2>8, <2>9 DEF NotifyInv
<1>13. ASSUME NEW w \in Workers, OpenIncident(w)
       PROVE  NotifyInv'
  <2>1. /\ nextId \in Ids /\ nextId' = nextId + 1
        /\ UNCHANGED <<notes, op>>
        /\ pc'[w] = "firstMember" /\ cur'[w].id = nextId
        /\ \A v \in Workers \ {w} : pc'[v] = pc[v] /\ cur'[v] = cur[v]
    BY <1>13 DEF OpenIncident, SafeInv, TypeOK
  <2>2. /\ rows'[nextId].notified = op[w].now
        /\ \A id \in Ids \ {nextId} : rows'[id] = rows[id]
    BY <1>13 DEF OpenIncident, SafeInv, TypeOK, NewRow
  <2>3. notes[nextId] = <<>>
    BY <1>1, <2>1 DEF NotifyInv, StampInv
  <2>4. \A v \in Workers : pc[v] \in HasRow => cur[v].id \in Ids \ {nextId} /\ cur[v].id < nextId
    BY <1>1, HeldRow DEF Ids
  <2>5. StampInv'
    BY <1>1, <2>1, <2>2, <2>3, <2>4 DEF NotifyInv, StampInv, Ids
  <2>6. CopyInv'
    BY <2>1, <2>2, <2>3, <2>4 DEF NotifyInv, CopyInv
  <2>7. DedupSpacing'
    BY <2>1 DEF NotifyInv, DedupSpacing
  <2> QED
    BY <2>5, <2>6, <2>7 DEF NotifyInv
<1>14. ASSUME NEW w \in Workers, Dispatch(w)
       PROVE  NotifyInv'
  <2> DEFINE i == cur[w].id
             s == notes[i]
             n == op[w].now
  <2>1. /\ pc[w] = "dispatch" /\ UNCHANGED <<rows, nextId>>
        /\ pc'[w] = "idle"
        /\ \A v \in Workers \ {w} : pc'[v] = pc[v] /\ op'[v] = op[v] /\ cur'[v] = cur[v]
    BY <1>14 DEF Dispatch, Return, dbVars, SafeInv, TypeOK
  <2>2. i \in Ids /\ i < nextId /\ n \in Time /\ s \in Seq(Time)
    BY <2>1, HeldRow DEF SafeInv, TypeOK
  <2>3. /\ notes'[i] = Append(s, n)
        /\ \A id \in Ids \ {i} : notes'[id] = notes[id]
    BY <1>14, <2>2 DEF Dispatch, SafeInv, TypeOK
  <2>4. /\ Len(notes'[i]) = Len(s) + 1
        /\ notes'[i][Len(s) + 1] = n
        /\ \A k \in 1..Len(s) : notes'[i][k] = s[k]
        /\ Len(s) \in Nat
    BY <2>2, <2>3
  <2>5. \A v \in Workers \ {w} : pc[v] \in HasRow => cur[v].id # i
    BY <2>1, OwnRows
  <2>6. rows[i].notified = n /\ n \in Nat
    BY <2>1, <2>2, PipelineAssumption DEF NotifyInv, CopyInv, Time
  <2>7. s # <<>> => s[Len(s)] + DedupWindow <= n
    BY <2>1, <2>2 DEF NotifyInv, StampInv
  <2>8. StampInv'
    <3> SUFFICES ASSUME NEW id \in Ids, notes'[id] # <<>>
                 PROVE  /\ id < nextId'
                        /\ notes'[id][Len(notes'[id])] <= rows'[id].notified
                        /\ \A v \in Workers : pc'[v] = "dispatch" /\ cur'[v].id = id =>
                             notes'[id][Len(notes'[id])] + DedupWindow <= op'[v].now
      BY DEF StampInv
    <3>1. CASE id = i
      BY <2>1, <2>2, <2>4, <2>5, <2>6, <3>1
    <3>2. CASE id # i
      BY <2>1, <2>3, <3>2 DEF NotifyInv, StampInv
    <3> QED
      BY <3>1, <3>2
  <2>9. CopyInv'
    <3>1. \A v \in Workers \ {w} : pc[v] \in HasRow => notes'[cur[v].id] = notes[cur[v].id]
      BY <2>3, <2>5, HeldRow
    <3> QED
      BY <2>1, <3>1 DEF NotifyInv, CopyInv
  <2>10. DedupSpacing'
    <3> SUFFICES ASSUME NEW id \in Ids, NEW k \in 1..(Len(notes'[id]) - 1)
                 PROVE  notes'[id][k] + DedupWindow <= notes'[id][k + 1]
      BY DEF DedupSpacing
    <3>1. CASE id # i
      BY <2>3, <3>1 DEF NotifyInv, DedupSpacing
    <3>2. CASE id = i /\ k < Len(s)
      <4>1. k \in 1..(Len(s) - 1) /\ k \in 1..Len(s) /\ k + 1 \in 1..Len(s)
        BY <2>4, <3>2
      <4> QED
        BY <2>2, <2>4, <3>2, <4>1 DEF NotifyInv, DedupSpacing
    <3>3. CASE id = i /\ k = Len(s)
      <4>1. s # <<>> /\ Len(s) \in 1..Len(s)
        BY <2>2, <2>4, <3>3
      <4> QED
        BY <2>4, <2>7, <3>3, <4>1
    <3> QED
      BY <2>4, <3>1, <3>2, <3>3
  <2> QED
    BY <2>8, <2>9, <2>10 DEF NotifyInv
<1>15. ASSUME NEW w \in Workers, RemoveMember(w)
       PROVE  NotifyInv'
  <2>1. CASE Return(w)
    BY <1>5, <1>15, <2>1 DEF RemoveMember
  <2>2. CASE Goto(w, "close")
    BY <1>3, <1>15, <2>2 DEF RemoveMember, Goto, SafeInv, TypeOK
  <2> QED
    BY <1>15, <2>1, <2>2 DEF RemoveMember
<1>16. ASSUME NEW w \in Workers, CloseIncident(w)
       PROVE  NotifyInv'
  <2>1. pc[w] = "close" /\ cur[w].id \in Ids /\ rows[cur[w].id] \in Row
    BY <1>16, HeldRow DEF CloseIncident
  <2>2. \A id \in Ids : rows'[id].notified = rows[id].notified
    BY <1>16, <2>1 DEF CloseIncident, SafeInv, TypeOK, Row
  <2>3. /\ UNCHANGED <<nextId, notes>>
        /\ pc'[w] = "idle"
        /\ \A v \in Workers \ {w} : pc'[v] = pc[v] /\ op'[v] = op[v] /\ cur'[v] = cur[v]
    BY <1>16 DEF CloseIncident, Return, SafeInv, TypeOK
  <2> QED
    BY <1>1, <2>2, <2>3, NotifyKept
<1>17. ASSUME NEW id \in Ids, SweepClose(id)
       PROVE  NotifyInv'
  <2>1. \A other \in Ids : rows'[other].notified = rows[other].notified
    BY <1>17, SweepWrites DEF SafeInv
  <2>2. UNCHANGED <<nextId, notes, pc, op, cur>>
    BY <1>17 DEF SweepClose, localVars
  <2> QED
    BY <1>1, <2>1, <2>2, NotifyKept
<1>18. CASE Crash
  BY <1>1, <1>18, NotifyKept DEF Crash, dbVars
<1>19. ASSUME NEW w \in Workers, Work(w)
       PROVE  NotifyInv'
  BY <1>6, <1>7, <1>8, <1>9, <1>10, <1>11, <1>12, <1>13, <1>14, <1>15, <1>16, <1>19 DEF Work
<1>20. ASSUME NEW w \in Workers, StoreError(w)
       PROVE  NotifyInv'
  BY <1>5, <1>20 DEF StoreError, StoreSteps, dbVars
<1> QED
  BY <1>2, <1>4, <1>17, <1>18, <1>19, <1>20
     DEF Next, Tick, SweepRead, SweepError, vars, dbVars, localVars

LEMMA NotifyInitially == Init => NotifyInv
BY DEF Init, NotifyInv, StampInv, CopyInv, DedupSpacing

\* Two notifications of one incident are at least the dedup window apart,
\* whatever the workers do and however late they take the mutex: a stamp that a
\* worker has compared with its clock cannot move before it writes.
THEOREM SpacingCorrect == Spec => []DedupSpacing
<1>1. SafeInv /\ SafeInv' /\ NotifyInv /\ [Next]_vars => NotifyInv'
  BY NotifyStep
<1>2. NotifyInv => DedupSpacing
  BY DEF NotifyInv
<1> QED
  BY <1>1, <1>2, Safe, NotifyInitially, PTL DEF Spec

\* Resolve closes an incident only when its last page has recovered: between
\* the removal of the last member and the close no worker can add one.
LEMMA CloseStep ==
  ASSUME SafeInv, CloseInv, [Next]_vars
  PROVE  CloseInv'
<1> USE DEF HasRow, SafeInv, TypeOK
<1>1. CASE UNCHANGED <<members, pc, cur>>
  BY <1>1 DEF CloseInv
<1>2. ASSUME NEW w \in Workers, UNCHANGED members, pc'[w] # "close",
             \A v \in Workers \ {w} : pc'[v] = pc[v] /\ cur'[v] = cur[v]
      PROVE  CloseInv'
  BY <1>2 DEF CloseInv
<1>3. ASSUME NEW w \in Workers, pc[w] \in HasRow, pc'[w] # "close",
             \A id \in Ids \ {cur[w].id} : members'[id] = members[id],
             \A v \in Workers \ {w} : pc'[v] = pc[v] /\ cur'[v] = cur[v]
      PROVE  CloseInv'
  BY <1>3, OwnRows, HeldRow DEF CloseInv
<1>4. ASSUME NEW w \in Workers, RemoveMember(w)
      PROVE  CloseInv'
  <2>1. CASE Return(w)
    BY <1>3, <1>4, <2>1, HeldRow DEF RemoveMember, Return
  <2>2. CASE Goto(w, "close") /\ members[cur[w].id] \ {op[w].url} = {}
    <3>1. cur[w].id \in Ids /\ members'[cur[w].id] = {}
      BY <1>4, <2>2, HeldRow DEF RemoveMember
    <3>2. \A v \in Workers \ {w} : pc[v] = "close" => members'[cur[v].id] = members[cur[v].id]
      BY <1>4, OwnRows, HeldRow DEF RemoveMember
    <3> QED
      BY <2>2, <3>1, <3>2 DEF CloseInv, Goto
  <2> QED
    BY <1>4, <2>1, <2>2 DEF RemoveMember
<1>5. ASSUME NEW w \in Workers, AddMember(w) \/ AddFirstMember(w)
      PROVE  CloseInv'
  BY <1>3, <1>5, HeldRow DEF AddMember, AddFirstMember, InsertMember, Goto
<1>6. CASE Crash
  BY <1>6 DEF Crash, CloseInv, dbVars
<1>7. ASSUME NEW w \in Workers, Work(w)
      PROVE  CloseInv'
  BY <1>2, <1>4, <1>5, <1>7
     DEF Work, Acquire, ReadOpen, ReadNone, Accrue, Renotify, OpenIncident, Dispatch,
         CloseIncident, Return, Goto, dbVars
<1>8. ASSUME NEW w \in Workers, StoreError(w)
      PROVE  CloseInv'
  BY <1>2, <1>8 DEF StoreError, Return, dbVars
<1>9. ASSUME NEW w \in Workers, NEW kind \in {"ingest", "resolve"},
             NEW fp \in Fingerprints, NEW url \in URLs \cup {NoURL},
             Begin(w, kind, fp, url)
      PROVE  CloseInv'
  BY <1>2, <1>9 DEF Begin, dbVars
<1> QED
  BY <1>1, <1>6, <1>7, <1>8, <1>9
     DEF Next, Tick, SweepRead, SweepClose, SweepError, vars, dbVars, localVars

\* Whatever other pages are being reported or have recovered, an incident that
\* the sweep did not close was closed with no page left in it.
THEOREM ResolveCorrect == Spec => ResolveClosesEmpty
<1> DEFINE Good == \A id \in Ids :
                     /\ rows[id].status = "open"
                     /\ rows'[id].status = "closed"
                     /\ ~rows'[id].auto
                     => members[id] = {}
<1>1. Init => CloseInv
  BY DEF Init, CloseInv
<1>2. SafeInv /\ CloseInv /\ [Next]_vars => CloseInv'
  BY CloseStep
<1>3. ASSUME SafeInv, CloseInv, [Next]_vars
      PROVE  Good
  <2> SUFFICES ASSUME NEW id \in Ids, rows[id].status = "open",
                      rows'[id].status = "closed", ~rows'[id].auto
               PROVE  members[id] = {}
    OBVIOUS
  <2> USE <1>3
  <2>1. ASSUME NEW w \in Workers, CloseIncident(w)
        PROVE  members[id] = {}
    <3>1. pc[w] = "close" /\ cur[w].id \in Ids
      BY <2>1, HeldRow DEF CloseIncident, HasRow
    <3>2. id # cur[w].id => rows'[id] = rows[id]
      BY <2>1, <3>1 DEF CloseIncident, SafeInv, TypeOK
    <3> QED
      BY <3>1, <3>2 DEF CloseInv
  <2>2. ASSUME NEW w \in Workers, Accrue(w) \/ Renotify(w)
        PROVE  FALSE
    <3>1. pc[w] = "update" /\ cur[w].id \in Ids /\ cur[w].row \in Row /\ cur[w].row.status = "open"
      BY <2>2, HeldRow DEF Accrue, Renotify, HasRow, SafeInv, WorkerInv, WorkerOK
    <3>2. \E r : r.status = "open" /\ rows' = [rows EXCEPT ![cur[w].id] = r]
      <4>1. ASSUME Accrue(w) PROVE \E r : r.status = "open" /\ rows' = [rows EXCEPT ![cur[w].id] = r]
        <5> DEFINE r == [cur[w].row EXCEPT !.count = @ + 1, !.updated = op[w].now]
        <5>1. r.status = "open"
          BY <3>1 DEF Row
        <5>2. rows' = [rows EXCEPT ![cur[w].id] = r]
          BY <4>1 DEF Accrue
        <5> QED
          BY <5>1, <5>2
      <4>2. ASSUME Renotify(w) PROVE \E r : r.status = "open" /\ rows' = [rows EXCEPT ![cur[w].id] = r]
        <5> DEFINE r == [cur[w].row EXCEPT !.count = @ + 1, !.updated = op[w].now, !.notified = op[w].now]
        <5>1. r.status = "open"
          BY <3>1 DEF Row
        <5>2. rows' = [rows EXCEPT ![cur[w].id] = r]
          BY <4>2 DEF Renotify
        <5> QED
          BY <5>1, <5>2
      <4> QED
        BY <2>2, <4>1, <4>2
    <3>3. rows \in [Ids -> Row \cup {NoRow}]
      BY DEF SafeInv, TypeOK
    <3> QED
      BY <3>1, <3>2, <3>3
  <2>3. ASSUME NEW w \in Workers, OpenIncident(w)
        PROVE  FALSE
    BY <2>3 DEF OpenIncident, NewRow, SafeInv, TypeOK
  <2>4. ASSUME NEW other \in Ids, SweepClose(other)
        PROVE  FALSE
    BY <2>4, SweepWrites DEF SafeInv
  <2>5. CASE UNCHANGED rows
    BY <2>5
  <2> QED
    BY <1>3, <2>1, <2>2, <2>3, <2>4, <2>5
       DEF Next, Work, Tick, Begin, Acquire, ReadOpen, ReadNone, AddMember, AddFirstMember,
           Dispatch, RemoveMember, SweepRead, StoreError, SweepError, Crash, vars, dbVars
<1>4. Spec => []CloseInv
  BY <1>1, <1>2, Safe, PTL DEF Spec
<1> QED
  BY <1>3, <1>4, Safe, PTL DEF Spec, ResolveClosesEmpty


-----------------------------------------------------------------------------
(* The refinement: what the board shows of the tables.                     *)

\* No row has a member before its first one is added.
FreshInv ==
  /\ \A id \in Ids : id >= nextId => members[id] = {}
  /\ \A w \in Workers : pc[w] = "firstMember" => members[cur[w].id] = {}

\* Only the events of a site level identity come without a page, and they never
\* resolve.
EventInv ==
  \A w \in Workers : pc[w] # "idle" =>
    /\ op[w].url = NoURL <=> op[w].fp \in SiteLevel
    /\ op[w].kind = "resolve" \/ pc[w] = "remove" => op[w].url \in URLs

BoardInv == CloseInv /\ FreshInv /\ EventInv

\* Only the worker of a row gives it members, and it does so once it has the row.
LEMMA FreshStep ==
  ASSUME SafeInv, FreshInv, [Next]_vars
  PROVE  FreshInv'
<1> USE DEF HasRow, SafeInv, TypeOK, Ids
<1>1. CASE UNCHANGED <<nextId, members, pc, cur>>
  BY <1>1 DEF FreshInv
<1>2. ASSUME NEW w \in Workers, UNCHANGED <<nextId, members>>, pc'[w] # "firstMember",
             \A v \in Workers \ {w} : pc'[v] = pc[v] /\ cur'[v] = cur[v]
      PROVE  FreshInv'
  BY <1>2 DEF FreshInv
<1>3. ASSUME NEW w \in Workers, pc[w] \in HasRow, pc'[w] # "firstMember", UNCHANGED nextId,
             \A id \in Ids \ {cur[w].id} : members'[id] = members[id],
             \A v \in Workers \ {w} : pc'[v] = pc[v] /\ cur'[v] = cur[v]
      PROVE  FreshInv'
  <2>1. \A id \in Ids : id >= nextId => members'[id] = members[id]
    BY <1>3, HeldRow
  <2>2. \A v \in Workers \ {w} : pc[v] = "firstMember" =>
          cur[v].id \in Ids /\ members'[cur[v].id] = members[cur[v].id]
    BY <1>3, OwnRows, HeldRow
  <2> QED
    BY <1>3, <2>1, <2>2 DEF FreshInv
<1>4. ASSUME NEW w \in Workers, OpenIncident(w)
      PROVE  FreshInv'
  <2>1. /\ nextId \in Ids /\ nextId' = nextId + 1 /\ members' = members
        /\ cur'[w].id = nextId
        /\ \A v \in Workers \ {w} : pc'[v] = pc[v] /\ cur'[v] = cur[v]
    BY <1>4 DEF OpenIncident
  <2>2. \A id \in Ids : id >= nextId' => members'[id] = {}
    BY <2>1 DEF FreshInv
  <2>3. members'[cur'[w].id] = {}
    BY <2>1 DEF FreshInv
  <2> QED
    BY <2>1, <2>2, <2>3 DEF FreshInv
<1>5. ASSUME NEW w \in Workers, AddMember(w) \/ AddFirstMember(w)
      PROVE  FreshInv'
  BY <1>3, <1>5, HeldRow DEF AddMember, AddFirstMember, InsertMember, Goto
<1>6. ASSUME NEW w \in Workers, RemoveMember(w)
      PROVE  FreshInv'
  BY <1>3, <1>6, HeldRow DEF RemoveMember, Goto, Return
<1>7. CASE Crash
  BY <1>7 DEF Crash, FreshInv, dbVars
<1>8. ASSUME NEW w \in Workers, Work(w)
      PROVE  FreshInv'
  BY <1>2, <1>4, <1>5, <1>6, <1>8
     DEF Work, Acquire, ReadOpen, ReadNone, Accrue, Renotify, Dispatch, CloseIncident,
         Return, Goto, dbVars
<1>9. ASSUME NEW w \in Workers, StoreError(w)
      PROVE  FreshInv'
  BY <1>2, <1>9 DEF StoreError, Return, dbVars
<1>10. ASSUME NEW w \in Workers, NEW kind \in {"ingest", "resolve"},
              NEW fp \in Fingerprints, NEW url \in URLs \cup {NoURL},
              Begin(w, kind, fp, url)
       PROVE  FreshInv'
  BY <1>2, <1>10 DEF Begin, dbVars
<1> QED
  BY <1>1, <1>7, <1>8, <1>9, <1>10
     DEF Next, Tick, SweepRead, SweepClose, SweepError, vars, dbVars, localVars

\* A worker keeps the event it began with.
LEMMA EventStep ==
  ASSUME SafeInv, EventInv, [Next]_vars
  PROVE  EventInv'
<1> USE DEF SafeInv, TypeOK
<1>1. CASE UNCHANGED <<pc, op>>
  BY <1>1 DEF EventInv
<1>2. ASSUME NEW w \in Workers,
             pc'[w] = "idle" \/ (pc[w] # "idle" /\ op'[w] = op[w] /\ pc'[w] # "remove"),
             \A v \in Workers \ {w} : pc'[v] = pc[v] /\ op'[v] = op[v]
      PROVE  EventInv'
  BY <1>2 DEF EventInv
<1>3. ASSUME NEW w \in Workers, ReadOpen(w)
      PROVE  EventInv'
  <2>1. op[w] \in Event /\ op[w].kind \in {"ingest", "resolve"}
    BY <1>3 DEF ReadOpen, WorkerInv, WorkerOK, Event
  <2>2. pc'[w] = (IF op[w].kind = "ingest" THEN "member" ELSE "remove")
    BY <1>3 DEF ReadOpen
  <2>3. op' = op /\ \A v \in Workers \ {w} : pc'[v] = pc[v]
    BY <1>3 DEF ReadOpen
  <2> QED
    BY <1>3, <2>1, <2>2, <2>3 DEF EventInv, ReadOpen
<1>4. ASSUME NEW w \in Workers, NEW kind \in {"ingest", "resolve"},
             NEW fp \in Fingerprints, NEW url \in URLs \cup {NoURL},
             Begin(w, kind, fp, url)
      PROVE  EventInv'
  <2>1. /\ op'[w] = [kind |-> kind, fp |-> fp, url |-> url, now |-> clock]
        /\ pc'[w] = "lock"
        /\ \A v \in Workers \ {w} : pc'[v] = pc[v] /\ op'[v] = op[v]
    BY <1>4 DEF Begin
  <2> QED
    BY <1>4, <2>1 DEF Begin, EventInv
<1>5. CASE Crash
  BY <1>5 DEF Crash, EventInv
<1>6. ASSUME NEW w \in Workers, Work(w)
      PROVE  EventInv'
  BY <1>2, <1>3, <1>6
     DEF Work, Acquire, ReadNone, AddMember, Accrue, Renotify, OpenIncident, AddFirstMember,
         Dispatch, RemoveMember, CloseIncident, Return, Goto
<1>7. ASSUME NEW w \in Workers, StoreError(w)
      PROVE  EventInv'
  BY <1>2, <1>7 DEF StoreError, Return
<1> QED
  BY <1>1, <1>4, <1>5, <1>6, <1>7
     DEF Next, Tick, SweepRead, SweepClose, SweepError, vars, localVars

\* What the board relies on beyond SafeInv holds throughout.
LEMMA BoardInvariant == Spec => []BoardInv
<1>1. Init => BoardInv
  BY DEF Init, BoardInv, CloseInv, FreshInv, EventInv
<1>2. SafeInv /\ BoardInv /\ [Next]_vars => BoardInv'
  BY CloseStep, FreshStep, EventStep DEF BoardInv
<1> QED
  BY <1>1, <1>2, Safe, PTL DEF Spec

\* What the board shows: the identities it has open and the pages of each.
Shown == {fp \in Fingerprints : BoardRows(fp) # {}}
Pages == [fp \in Fingerprints |-> UNION {members[id] : id \in BoardRows(fp)}]

Holding == {"member", "update"}
Hiding == {"firstMember", "close"}

\* A row that is open, or that an Ingest has read, is the only such row of its
\* identity.
Tracked(id) == rows[id].status = "open" \/ HeldAt(id, Holding)

\* There is one per identity: its mutex keeps the others from reading another.
LEMMA OneTracked ==
  ASSUME SafeInv, NEW i \in Ids, NEW j \in Ids, Tracked(i), Tracked(j),
         rows[i].fp = rows[j].fp
  PROVE  i = j
<1> USE DEF HasRow, Holding, SafeInv
<1>1. ASSUME NEW id \in Ids, NEW w \in Workers, pc[w] \in Holding, cur[w].id = id,
             NEW other \in Ids, rows[other].status = "open", rows[other].fp = rows[id].fp
      PROVE  other = id
  <2>1. OpenRows(op[w].fp) \subseteq {id} /\ rows[id].fp = op[w].fp
    BY <1>1 DEF ReadInv, ReadOK
  <2> QED
    BY <1>1, <2>1 DEF OpenRows
<1>2. ASSUME NEW v \in Workers, NEW w \in Workers, pc[v] \in Holding, cur[v].id = i,
             pc[w] \in Holding, cur[w].id = j
      PROVE  i = j
  <2>1. op[v].fp = rows[i].fp /\ op[w].fp = rows[j].fp
    BY <1>2 DEF ReadInv, ReadOK
  <2>2. v = w
    BY <1>2, <2>1, Exclusive DEF InSection, Steps, StoreSteps
  <2> QED
    BY <1>2, <2>2
<1>3. CASE rows[i].status = "open" /\ rows[j].status = "open"
  BY <1>3 DEF OneOpenPerFingerprint
<1> QED
  BY <1>1, <1>2, <1>3 DEF Tracked, HeldAt

\* What counts as open is such a row.
LEMMA CountedTracked ==
  ASSUME NEW id \in Ids, CountsAsOpen(id)
  PROVE  Tracked(id)
BY DEF CountsAsOpen, Tracked, Holding

\* The board shows an identity by the one row that counts as open.
Faithful(fp) ==
  /\ \A id \in Ids : CountsAsOpen(id) /\ rows[id].fp = fp =>
       fp \in Shown /\ Pages[fp] = members[id]
  /\ fp \in Shown => \E id \in Ids : CountsAsOpen(id) /\ rows[id].fp = fp
  /\ fp \notin Shown => Pages[fp] = {}

\* The board is faithful in every state of the invariant,
LEMMA OnBoard == SafeInv => \A fp \in Fingerprints : Faithful(fp)
<1> SUFFICES ASSUME SafeInv, NEW fp \in Fingerprints PROVE Faithful(fp)
  OBVIOUS
<1>1. Pages[fp] = UNION {members[id] : id \in BoardRows(fp)}
  BY DEF Pages
<1>2. fp \in Shown <=> BoardRows(fp) # {}
  BY DEF Shown
<1>3. ASSUME NEW id \in Ids, CountsAsOpen(id), rows[id].fp = fp
      PROVE  fp \in Shown /\ Pages[fp] = members[id]
  <2>1. id \in BoardRows(fp)
    BY <1>3 DEF BoardRows
  <2>2. ASSUME NEW j \in BoardRows(fp) PROVE j = id
    BY <1>3, OneTracked, CountedTracked DEF BoardRows
  <2>3. BoardRows(fp) = {id}
    BY <2>1, <2>2
  <2>4. UNION {members[j] : j \in {id}} = members[id]
    OBVIOUS
  <2> QED
    BY <1>1, <1>2, <2>3, <2>4
<1>4. ASSUME fp \notin Shown PROVE Pages[fp] = {}
  BY <1>1, <1>2, <1>4
<1>5. ASSUME fp \in Shown PROVE \E id \in Ids : CountsAsOpen(id) /\ rows[id].fp = fp
  BY <1>2, <1>5 DEF BoardRows
<1> QED
  BY <1>3, <1>4, <1>5 DEF Faithful

\* and so after a step.
LEMMA OnBoardNext == SafeInv' => (\A fp \in Fingerprints : Faithful(fp))'
BY OnBoard, PTL

\* An identity whose rows count as before is shown as before.
LEMMA ShownKept ==
  ASSUME NEW fp \in Fingerprints,
         \A id \in Ids : (CountsAsOpen(id)' /\ rows'[id].fp = fp) <=>
                         (CountsAsOpen(id) /\ rows[id].fp = fp),
         \A id \in Ids : CountsAsOpen(id) /\ rows[id].fp = fp => members'[id] = members[id]
  PROVE  (fp \in Shown' <=> fp \in Shown) /\ Pages'[fp] = Pages[fp]
<1>1. BoardRows(fp)' = BoardRows(fp)
  BY DEF BoardRows
<1>2. \A id \in BoardRows(fp) : members'[id] = members[id]
  BY DEF BoardRows
<1>3. UNION {members'[id] : id \in BoardRows(fp)} = UNION {members[id] : id \in BoardRows(fp)}
  BY <1>2
<1>4. Pages[fp] = UNION {members[id] : id \in BoardRows(fp)}
  BY DEF Pages
<1>5. Pages'[fp] = UNION {members'[id] : id \in BoardRows(fp)'}
  BY DEF Pages
<1>6. fp \in Shown' <=> BoardRows(fp)' # {}
  BY DEF Shown
<1> QED
  BY <1>1, <1>3, <1>4, <1>5, <1>6 DEF Shown

\* The board stays as it is if every identity is shown as before.
LEMMA BoardKept ==
  ASSUME \A fp \in Fingerprints : (fp \in Shown' <=> fp \in Shown) /\ Pages'[fp] = Pages[fp]
  PROVE  UNCHANGED Board!boardVars
<1>1. Shown' = Shown
  BY DEF Shown
<1>2. Pages' = Pages
  BY DEF Pages
<1> QED
  BY <1>1, <1>2 DEF Shown, Pages, Board!boardVars

\* What a worker past "lock" does to its locals concerns no row of another
\* identity, and of its own only the row it has.
LEMMA HeldByOthers ==
  ASSUME SafeInv, NEW w \in Workers, pc[w] \in InSection, NEW S \in SUBSET HasRow,
         \A v \in Workers \ {w} : pc'[v] = pc[v] /\ cur'[v] = cur[v],
         NEW id \in Ids
  PROVE  /\ rows[id].fp = op[w].fp =>
              /\ HeldAt(id, S) <=> pc[w] \in S /\ cur[w].id = id
              /\ HeldAt(id, S)' <=> pc'[w] \in S /\ cur'[w].id = id
         /\ rows[id].fp # op[w].fp /\ (pc'[w] \in S => cur'[w].id # id) =>
              (HeldAt(id, S)' <=> HeldAt(id, S))
<1>1. \A v \in Workers \ {w} : pc[v] \in HasRow => rows[cur[v].id].fp # op[w].fp
  BY Exclusive DEF SafeInv, ReadInv, ReadOK, HasRow, InSection, Steps, StoreSteps
<1>2. pc[w] \in HasRow => rows[cur[w].id].fp = op[w].fp
  BY DEF SafeInv, ReadInv, ReadOK
<1>3. HeldAt(id, S)' <=> \E v \in Workers : pc'[v] \in S /\ cur'[v].id = id
  BY DEF HeldAt
<1> QED
  BY <1>1, <1>2, <1>3 DEF HeldAt

\* A step of a worker past "lock" that writes only rows of its identity changes
\* what the board shows of that identity at most.
LEMMA ElsewhereKept ==
  ASSUME SafeInv, NEW w \in Workers, pc[w] \in InSection,
         \A v \in Workers \ {w} : pc'[v] = pc[v] /\ cur'[v] = cur[v],
         pc'[w] \in HasRow => rows[cur'[w].id].fp = op[w].fp,
         \A id \in Ids : rows'[id] # rows[id] \/ members'[id] # members[id] =>
           rows[id].fp = op[w].fp /\ rows'[id].fp = op[w].fp,
         NEW fp \in Fingerprints, fp # op[w].fp
  PROVE  (fp \in Shown' <=> fp \in Shown) /\ Pages'[fp] = Pages[fp]
<1>2. ASSUME NEW id \in Ids, rows[id].fp = fp
      PROVE  /\ rows'[id] = rows[id] /\ members'[id] = members[id]
             /\ CountsAsOpen(id)' <=> CountsAsOpen(id)
  <2>1. rows'[id] = rows[id] /\ members'[id] = members[id]
    BY <1>2
  <2>2. /\ HeldAt(id, Hiding)' <=> HeldAt(id, Hiding)
        /\ HeldAt(id, Holding)' <=> HeldAt(id, Holding)
    BY <1>2, HeldByOthers DEF Hiding, Holding, HasRow
  <2> QED
    BY <2>1, <2>2 DEF CountsAsOpen, Hiding, Holding
<1>3. \A id \in Ids : rows'[id].fp = fp => rows[id].fp = fp
  OBVIOUS
<1> QED
  BY <1>2, <1>3, ShownKept

\* What the board shows of the row a worker has, before and after its step.
LEMMA OwnCounts ==
  ASSUME SafeInv, NEW w \in Workers, pc[w] \in InSection,
         \A v \in Workers \ {w} : pc'[v] = pc[v] /\ cur'[v] = cur[v],
         NEW id \in Ids, rows[id].fp = op[w].fp
  PROVE  /\ CountsAsOpen(id) <=>
              \/ rows[id].status = "open" /\ ~(pc[w] \in Hiding /\ cur[w].id = id)
              \/ pc[w] \in Holding /\ cur[w].id = id
         /\ CountsAsOpen(id)' <=>
              \/ rows'[id].status = "open" /\ ~(pc'[w] \in Hiding /\ cur'[w].id = id)
              \/ pc'[w] \in Holding /\ cur'[w].id = id
<1>1. Hiding \in SUBSET HasRow /\ Holding \in SUBSET HasRow
  BY DEF Hiding, Holding, HasRow
<1>2. CountsAsOpen(id)' <=> \/ rows'[id].status = "open" /\ ~HeldAt(id, Hiding)'
                           \/ HeldAt(id, Holding)'
  BY DEF CountsAsOpen, Hiding, Holding
<1>3. ASSUME NEW S \in SUBSET HasRow
      PROVE  /\ HeldAt(id, S) <=> pc[w] \in S /\ cur[w].id = id
             /\ HeldAt(id, S)' <=> pc'[w] \in S /\ cur'[w].id = id
  BY HeldByOthers
<1>4. CountsAsOpen(id) <=> \/ rows[id].status = "open" /\ ~HeldAt(id, Hiding)
                          \/ HeldAt(id, Holding)
  BY DEF CountsAsOpen, Hiding, Holding
<1> QED
  BY <1>1, <1>2, <1>3, <1>4

\* A step that writes no row and no member, and changes no worker that has a row.
LEMMA QuietStep ==
  ASSUME UNCHANGED <<rows, members>>,
         \A v \in Workers : \/ pc'[v] = pc[v] /\ cur'[v] = cur[v]
                            \/ pc[v] \notin HasRow /\ pc'[v] \notin HasRow
  PROVE  UNCHANGED Board!boardVars
<1>1. ASSUME NEW id \in Ids PROVE CountsAsOpen(id)' <=> CountsAsOpen(id)
  <2>1. ASSUME NEW S \in SUBSET HasRow PROVE HeldAt(id, S)' <=> HeldAt(id, S)
    <3>1. HeldAt(id, S)' <=> \E v \in Workers : pc'[v] \in S /\ cur'[v].id = id
      BY DEF HeldAt
    <3> QED
      BY <3>1 DEF HeldAt
  <2>2. Hiding \in SUBSET HasRow /\ Holding \in SUBSET HasRow
    BY DEF Hiding, Holding, HasRow
  <2> QED
    BY <2>1, <2>2 DEF CountsAsOpen, Hiding, Holding
<1> QED
  BY <1>1, ShownKept, BoardKept

\* Operations cut short: rows and members stay, only what workers held is gone.
LEMMA TornStep ==
  ASSUME SafeInv, SafeInv', Faults, UNCHANGED <<rows, members>>,
         \A id \in Ids : CountsAsOpen(id)' /\ ~CountsAsOpen(id) =>
           rows[id].status = "open" /\ members[id] = {}
  PROVE  \E stranded, expired \in SUBSET Fingerprints : Board!Torn(stranded, expired)
<1> DEFINE stranded == Shown' \ Shown
           expired == Shown \ Shown'
<1>1. stranded \in SUBSET Fingerprints /\ expired \in SUBSET Fingerprints
  BY DEF Shown
<1>2. stranded \cap Shown = {} /\ expired \subseteq Shown /\ Shown' = (Shown \cup stranded) \ expired
  OBVIOUS
<1>3. ASSUME NEW fp \in Fingerprints
      PROVE  Pages'[fp] = IF fp \in Shown /\ fp \notin Shown' THEN {} ELSE Pages[fp]
  <2>1. Faithful(fp) /\ Faithful(fp)'
    BY OnBoard, OnBoardNext
  <2>2. CASE fp \notin Shown'
    BY <2>1, <2>2 DEF Faithful
  <2>3. CASE fp \in Shown'
    <3>1. PICK i \in Ids : CountsAsOpen(i)' /\ rows[i].fp = fp
      BY <2>1, <2>3 DEF Faithful
    <3>2. Pages'[fp] = members[i]
      BY <2>1, <3>1 DEF Faithful
    <3>3. Tracked(i)
      BY <3>1, CountedTracked DEF Tracked
    <3>4. CASE fp \notin Shown
      <4>1. ~CountsAsOpen(i)
        BY <2>1, <3>1, <3>4 DEF Faithful
      <4> QED
        BY <2>1, <3>1, <3>2, <3>4, <4>1 DEF Faithful
    <3>5. CASE fp \in Shown
      <4>1. PICK j \in Ids : CountsAsOpen(j) /\ rows[j].fp = fp
        BY <2>1, <3>5 DEF Faithful
      <4>2. i = j
        BY <3>1, <3>3, <4>1, CountedTracked, OneTracked
      <4> QED
        BY <2>1, <2>3, <3>2, <4>1, <4>2 DEF Faithful
    <3> QED
      BY <3>4, <3>5
  <2> QED
    BY <2>2, <2>3
<1>4. Pages' = [fp \in Fingerprints |-> IF fp \in expired THEN {} ELSE Pages[fp]]
  BY <1>3 DEF Pages
<1> HIDE DEF stranded, expired
<1>5. ASSUME NEW a \in SUBSET Fingerprints, NEW b \in SUBSET Fingerprints,
             a = stranded, b = expired
      PROVE  Board!Torn(a, b)
  BY <1>2, <1>4, <1>5, Zenon DEF Board!Torn, Shown, Pages
<1>6. \E a, b \in SUBSET Fingerprints : a = stranded /\ b = expired
  BY <1>1
<1> QED
  BY <1>5, <1>6

\* The steps of an operation, one by one.
LEMMA ReadShows ==
  ASSUME SafeInv, NEW w \in Workers, ReadOpen(w)
  PROVE  UNCHANGED Board!boardVars
<1>1. pc[w] \in InSection /\ pc[w] = "read" /\ op[w].fp \in Fingerprints
  BY DEF ReadOpen, SafeInv, WorkerInv, WorkerOK, InSection, Steps, StoreSteps, Event
<1>2. PICK id \in Ids : /\ rows[id].status = "open" /\ rows[id].fp = op[w].fp
                        /\ cur' = [cur EXCEPT ![w] = [id |-> id, row |-> rows[id]]]
  BY DEF ReadOpen, OpenRows
<1>3. /\ pc'[w] \in {"member", "remove"} /\ cur'[w].id = id
      /\ \A v \in Workers \ {w} : pc'[v] = pc[v] /\ cur'[v] = cur[v]
      /\ rows' = rows /\ members' = members
  BY <1>2 DEF ReadOpen, SafeInv, TypeOK, dbVars
<1>4. ASSUME NEW j \in Ids, rows[j].fp = op[w].fp
      PROVE  CountsAsOpen(j)' <=> CountsAsOpen(j)
  BY <1>1, <1>2, <1>3, <1>4, OwnCounts DEF Hiding, Holding
<1>5. ASSUME NEW fp \in Fingerprints
      PROVE  (fp \in Shown' <=> fp \in Shown) /\ Pages'[fp] = Pages[fp]
  <2>1. CASE fp = op[w].fp
    BY <1>3, <1>4, <2>1, ShownKept
  <2>2. CASE fp # op[w].fp
    BY <1>1, <1>2, <1>3, <2>2, ElsewhereKept
  <2> QED
    BY <2>1, <2>2
<1> QED
  BY <1>5, BoardKept

\* A worker that has a row does something to it.
LEMMA OnItsRow ==
  ASSUME SafeInv, NEW w \in Workers, pc[w] \in HasRow,
         pc'[w] \in HasRow => cur'[w] = cur[w],
         \A v \in Workers \ {w} : pc'[v] = pc[v] /\ cur'[v] = cur[v],
         \A id \in Ids \ {cur[w].id} : rows'[id] = rows[id] /\ members'[id] = members[id],
         rows'[cur[w].id].fp = op[w].fp
  PROVE  /\ pc[w] \in InSection /\ op[w] \in Event /\ op[w].fp \in Fingerprints
         /\ cur[w].id \in Ids /\ rows[cur[w].id].fp = op[w].fp
         /\ \A id \in Ids : rows[id].status = "open" /\ rows[id].fp = op[w].fp => id = cur[w].id
         /\ \A fp \in Fingerprints \ {op[w].fp} :
              (fp \in Shown' <=> fp \in Shown) /\ Pages'[fp] = Pages[fp]
<1>1. pc[w] \in InSection
  BY DEF HasRow, InSection, Steps, StoreSteps
<1>2. op[w] \in Event /\ op[w].fp \in Fingerprints /\ cur[w].id \in Ids
  BY HeldRow DEF Event
<1>3. /\ rows[cur[w].id].fp = op[w].fp
      /\ OpenRows(op[w].fp) \subseteq {cur[w].id}
  BY DEF SafeInv, ReadInv, ReadOK
<1>4. \A id \in Ids : rows'[id] # rows[id] \/ members'[id] # members[id] =>
        rows[id].fp = op[w].fp /\ rows'[id].fp = op[w].fp
  BY <1>3
<1>5. pc'[w] \in HasRow => rows[cur'[w].id].fp = op[w].fp
  BY <1>3
<1>6. \A id \in Ids : rows[id].status = "open" /\ rows[id].fp = op[w].fp => id = cur[w].id
  BY <1>3 DEF OpenRows
<1>7. ASSUME NEW fp \in Fingerprints \ {op[w].fp}
      PROVE  (fp \in Shown' <=> fp \in Shown) /\ Pages'[fp] = Pages[fp]
  BY <1>1, <1>4, <1>5, ElsewhereKept
<1> QED
  BY <1>1, <1>2, <1>3, <1>6, <1>7

\* How its identity is shown, then.
LEMMA OwnShown ==
  ASSUME SafeInv, SafeInv', NEW w \in Workers, pc[w] \in InSection, op[w].fp \in Fingerprints,
         \A v \in Workers \ {w} : pc'[v] = pc[v] /\ cur'[v] = cur[v],
         NEW id \in Ids, rows[id].fp = op[w].fp, rows'[id].fp = op[w].fp,
         \A j \in Ids \ {id} : rows'[j] = rows[j],
         \A j \in Ids : rows[j].status = "open" /\ rows[j].fp = op[w].fp => j = id,
         pc[w] \in HasRow => cur[w].id = id,
         pc'[w] \in HasRow => cur'[w].id = id
  PROVE  /\ op[w].fp \in Shown <=> \/ rows[id].status = "open" /\ pc[w] \notin Hiding
                                   \/ pc[w] \in Holding
         /\ op[w].fp \in Shown' <=> \/ rows'[id].status = "open" /\ pc'[w] \notin Hiding
                                    \/ pc'[w] \in Holding
         /\ op[w].fp \in Shown => Pages[op[w].fp] = members[id]
         /\ op[w].fp \in Shown' => Pages'[op[w].fp] = members'[id]
         /\ op[w].fp \notin Shown => Pages[op[w].fp] = {}
         /\ op[w].fp \notin Shown' => Pages'[op[w].fp] = {}
<1> DEFINE g == op[w].fp
<1>1. Faithful(g)
  BY OnBoard
<1>2. ASSUME NEW fp \in Fingerprints PROVE Faithful(fp)'
  BY OnBoardNext
<1>3. /\ \A j \in Ids : CountsAsOpen(j)' /\ rows'[j].fp = g => g \in Shown' /\ Pages'[g] = members'[j]
      /\ g \in Shown' => \E j \in Ids : CountsAsOpen(j)' /\ rows'[j].fp = g
      /\ g \notin Shown' => Pages'[g] = {}
  <2>1. PICK fp \in Fingerprints : fp = g
    OBVIOUS
  <2> QED
    BY <1>2, <2>1 DEF Faithful
<1>4. pc[w] \in Hiding \cup Holding => cur[w].id = id
  BY DEF Hiding, Holding, HasRow
<1>5. pc'[w] \in Hiding \cup Holding => cur'[w].id = id
  BY DEF Hiding, Holding, HasRow
<1>6. ASSUME NEW j \in Ids, rows[j].fp = g
      PROVE  /\ CountsAsOpen(j) <=> j = id /\ (\/ rows[id].status = "open" /\ pc[w] \notin Hiding
                                               \/ pc[w] \in Holding)
             /\ CountsAsOpen(j)' <=> j = id /\ (\/ rows'[id].status = "open" /\ pc'[w] \notin Hiding
                                                \/ pc'[w] \in Holding)
  BY <1>4, <1>5, <1>6, OwnCounts
<1>7. \A j \in Ids : rows'[j].fp = g => rows[j].fp = g
  OBVIOUS
<1> QED
  BY <1>1, <1>3, <1>6, <1>7 DEF Faithful

\* A step of a worker about its row is a step of the board about its identity.
LEMMA BoardMoves ==
  ASSUME NEW g \in Fingerprints,
         \A fp \in Fingerprints \ {g} : (fp \in Shown' <=> fp \in Shown) /\ Pages'[fp] = Pages[fp]
  PROVE  /\ (g \in Shown' <=> g \in Shown) /\ Pages'[g] = Pages[g] => UNCHANGED Board!boardVars
         /\ \A url \in URLs \cup {NoURL} :
              /\ url = NoURL <=> g \in SiteLevel
              /\ g \in Shown'
              /\ Pages'[g] = Pages[g] \cup ({url} \ {NoURL})
              => Board!Whole
         /\ \A url \in URLs :
              /\ g \in Shown
              /\ Pages'[g] = Pages[g] \ {url}
              /\ g \in Shown' <=> Pages[g] \ {url} # {}
              => Board!Whole
         /\ g \in Shown /\ g \notin Shown' /\ Pages'[g] = {} => Board!Whole
<1>0. Shown \subseteq Fingerprints /\ Shown' \subseteq Fingerprints
  BY DEF Shown
<1>1. (g \in Shown' <=> g \in Shown) /\ Pages'[g] = Pages[g] => UNCHANGED Board!boardVars
  BY BoardKept
<1>2. ASSUME NEW P, Pages'[g] = P
      PROVE  Pages' = [Pages EXCEPT ![g] = P]
  BY <1>2 DEF Pages
<1>3. ASSUME NEW url \in URLs \cup {NoURL}, url = NoURL <=> g \in SiteLevel, g \in Shown',
             Pages'[g] = Pages[g] \cup ({url} \ {NoURL})
      PROVE  Board!Report(g, url)
  <2>1. Shown' = Shown \cup {g}
    BY <1>0, <1>3
  <2>2. Pages' = [Pages EXCEPT ![g] = @ \cup ({url} \ {NoURL})]
    BY <1>2, <1>3
  <2> QED
    BY <1>3, <2>1, <2>2, Zenon DEF Board!Report, Shown, Pages
<1>4. ASSUME NEW url \in URLs, g \in Shown, Pages'[g] = Pages[g] \ {url},
             g \in Shown' <=> Pages[g] \ {url} # {}
      PROVE  Board!Recover(g, url)
  <2>1. Shown' = IF Pages[g] \ {url} = {} THEN Shown \ {g} ELSE Shown
    BY <1>0, <1>4
  <2>2. Pages' = [Pages EXCEPT ![g] = @ \ {url}]
    BY <1>2, <1>4
  <2> QED
    BY <1>4, <2>1, <2>2, Zenon DEF Board!Recover, Shown, Pages
<1>5. ASSUME g \in Shown, g \notin Shown', Pages'[g] = {}
      PROVE  Board!Expire(g)
  <2>1. Shown' = Shown \ {g}
    BY <1>0, <1>5
  <2>2. Pages' = [Pages EXCEPT ![g] = {}]
    BY <1>2, <1>5
  <2> QED
    BY <1>5, <2>1, <2>2, Zenon DEF Board!Expire, Shown, Pages
<1> QED
  BY <1>1, <1>3, <1>4, <1>5 DEF Board!Whole

\* The pages of a row about to get its first member, and those of one to close.
LEMMA Emptied ==
  ASSUME BoardInv, NEW w \in Workers, pc[w] \in Hiding
  PROVE  members[cur[w].id] = {}
BY DEF BoardInv, CloseInv, FreshInv, Hiding

\* AddAlertMember is the report, or adds to a row the sweep has closed meanwhile.
LEMMA MemberReported ==
  ASSUME SafeInv, SafeInv', BoardInv, NEW w \in Workers, AddMember(w) \/ AddFirstMember(w)
  PROVE  Board!Whole \/ UNCHANGED Board!boardVars
<1> DEFINE id == cur[w].id
           url == op[w].url
<1>1. /\ pc[w] \in HasRow /\ pc[w] \in {"member", "firstMember"}
      /\ cur' = cur /\ rows' = rows
      /\ \A v \in Workers \ {w} : pc'[v] = pc[v]
      /\ pc[w] = "member" => pc'[w] = "update"
      /\ pc[w] = "firstMember" => pc'[w] = "dispatch"
      /\ members' = [members EXCEPT ![id] = @ \cup ({url} \ {NoURL})]
  BY DEF AddMember, AddFirstMember, InsertMember, Goto, HasRow, SafeInv, TypeOK
<1>2. id \in Ids /\ rows[id].fp = op[w].fp
  BY <1>1, HeldRow DEF SafeInv, ReadInv, ReadOK
<1>3. /\ members'[id] = members[id] \cup ({url} \ {NoURL})
      /\ \A j \in Ids \ {id} : rows'[j] = rows[j] /\ members'[j] = members[j]
  BY <1>1, <1>2 DEF SafeInv, TypeOK
<1>4. /\ pc[w] \in InSection /\ op[w] \in Event /\ op[w].fp \in Fingerprints
      /\ \A j \in Ids : rows[j].status = "open" /\ rows[j].fp = op[w].fp => j = id
      /\ \A fp \in Fingerprints \ {op[w].fp} :
           (fp \in Shown' <=> fp \in Shown) /\ Pages'[fp] = Pages[fp]
  BY <1>1, <1>2, <1>3, OnItsRow
<1>5. url \in URLs \cup {NoURL} /\ (url = NoURL <=> op[w].fp \in SiteLevel)
  BY <1>1, <1>4 DEF BoardInv, EventInv, Event
<1>6. /\ op[w].fp \in Shown <=> \/ rows[id].status = "open" /\ pc[w] \notin Hiding
                                \/ pc[w] \in Holding
      /\ op[w].fp \in Shown' <=> \/ rows'[id].status = "open" /\ pc'[w] \notin Hiding
                                 \/ pc'[w] \in Holding
      /\ op[w].fp \in Shown => Pages[op[w].fp] = members[id]
      /\ op[w].fp \in Shown' => Pages'[op[w].fp] = members'[id]
      /\ op[w].fp \notin Shown => Pages[op[w].fp] = {}
      /\ op[w].fp \notin Shown' => Pages'[op[w].fp] = {}
  BY <1>1, <1>2, <1>3, <1>4, OwnShown
<1>7. CASE pc[w] = "member"
  <2>1. op[w].fp \in Shown' /\ Pages'[op[w].fp] = Pages[op[w].fp] \cup ({url} \ {NoURL})
    BY <1>1, <1>3, <1>6, <1>7 DEF Holding
  <2> QED
    BY <1>4, <1>5, <2>1, BoardMoves
<1>8. CASE pc[w] = "firstMember"
  <2>1. members[id] = {} /\ Pages[op[w].fp] = {} /\ op[w].fp \notin Shown
    BY <1>6, <1>8, Emptied DEF Hiding, Holding
  <2>2. CASE rows[id].status = "open"
    <3>1. op[w].fp \in Shown' /\ Pages'[op[w].fp] = Pages[op[w].fp] \cup ({url} \ {NoURL})
      BY <1>1, <1>3, <1>6, <1>8, <2>1, <2>2 DEF Hiding
    <3> QED
      BY <1>4, <1>5, <3>1, BoardMoves
  <2>3. CASE rows[id].status # "open"
    <3>1. op[w].fp \notin Shown' /\ Pages'[op[w].fp] = Pages[op[w].fp]
      BY <1>1, <1>6, <1>8, <2>1, <2>3 DEF Holding
    <3> QED
      BY <1>4, <2>1, <3>1, BoardMoves
  <2> QED
    BY <2>2, <2>3
<1> QED
  BY <1>1, <1>7, <1>8

\* RemoveAlertMember is the recovery, unless the sweep has closed the row.
LEMMA MemberRecovered ==
  ASSUME SafeInv, SafeInv', BoardInv, NEW w \in Workers, RemoveMember(w)
  PROVE  Board!Whole \/ UNCHANGED Board!boardVars
<1> DEFINE id == cur[w].id
           url == op[w].url
<1>1. /\ pc[w] \in HasRow /\ pc[w] = "remove" /\ rows' = rows
      /\ \A v \in Workers \ {w} : pc'[v] = pc[v] /\ cur'[v] = cur[v]
      /\ \/ members[id] \ {url} # {} /\ pc'[w] = "idle"
         \/ members[id] \ {url} = {} /\ pc'[w] = "close" /\ cur'[w] = cur[w]
      /\ members' = [members EXCEPT ![id] = members[id] \ {url}]
  BY DEF RemoveMember, Return, Goto, HasRow, SafeInv, TypeOK
<1>2. id \in Ids /\ rows[id].fp = op[w].fp
  BY <1>1, HeldRow DEF SafeInv, ReadInv, ReadOK
<1>3. /\ members'[id] = members[id] \ {url} /\ rows'[id].fp = op[w].fp
      /\ \A j \in Ids \ {id} : rows'[j] = rows[j] /\ members'[j] = members[j]
  BY <1>1, <1>2 DEF SafeInv, TypeOK
<1>4. pc'[w] \in HasRow => cur'[w] = cur[w] /\ cur'[w].id = id
  BY <1>1 DEF HasRow
<1>5. /\ pc[w] \in InSection /\ op[w] \in Event /\ op[w].fp \in Fingerprints
      /\ \A j \in Ids : rows[j].status = "open" /\ rows[j].fp = op[w].fp => j = id
      /\ \A fp \in Fingerprints \ {op[w].fp} :
           (fp \in Shown' <=> fp \in Shown) /\ Pages'[fp] = Pages[fp]
  BY <1>1, <1>2, <1>3, <1>4, OnItsRow
<1>6. url \in URLs
  BY <1>1 DEF BoardInv, EventInv
<1>7. /\ op[w].fp \in Shown <=> \/ rows[id].status = "open" /\ pc[w] \notin Hiding
                                \/ pc[w] \in Holding
      /\ op[w].fp \in Shown' <=> \/ rows'[id].status = "open" /\ pc'[w] \notin Hiding
                                 \/ pc'[w] \in Holding
      /\ op[w].fp \in Shown => Pages[op[w].fp] = members[id]
      /\ op[w].fp \in Shown' => Pages'[op[w].fp] = members'[id]
      /\ op[w].fp \notin Shown => Pages[op[w].fp] = {}
      /\ op[w].fp \notin Shown' => Pages'[op[w].fp] = {}
  BY <1>1, <1>2, <1>3, <1>4, <1>5, OwnShown
<1>8. CASE rows[id].status = "open"
  <2>1. op[w].fp \in Shown /\ Pages[op[w].fp] = members[id]
    BY <1>1, <1>7, <1>8 DEF Hiding
  <2>2. op[w].fp \in Shown' <=> members[id] \ {url} # {}
    BY <1>1, <1>7, <1>8 DEF Hiding, Holding
  <2>3. Pages'[op[w].fp] = members[id] \ {url}
    BY <1>3, <1>7, <2>2
  <2> QED
    BY <1>5, <1>6, <2>1, <2>2, <2>3, BoardMoves
<1>9. CASE rows[id].status # "open"
  <2>1. op[w].fp \notin Shown /\ op[w].fp \notin Shown' /\ Pages'[op[w].fp] = Pages[op[w].fp]
    BY <1>1, <1>7, <1>9 DEF Holding
  <2> QED
    BY <1>5, <2>1, BoardMoves
<1> QED
  BY <1>8, <1>9

\* UpdateIncident, a notification and CloseIncident show nothing new: an update
\* writes "open" back, and what Resolve closes it has hidden already.
LEMMA WriteShows ==
  ASSUME SafeInv, SafeInv', NEW w \in Workers,
         Accrue(w) \/ Renotify(w) \/ Dispatch(w) \/ CloseIncident(w)
  PROVE  UNCHANGED Board!boardVars
<1> DEFINE id == cur[w].id
<1>1. /\ pc[w] \in HasRow /\ pc[w] \in {"update", "dispatch", "close"}
      /\ \A v \in Workers \ {w} : pc'[v] = pc[v] /\ cur'[v] = cur[v]
      /\ pc'[w] = "idle" \/ (pc'[w] = "dispatch" /\ cur'[w] = cur[w])
      /\ pc[w] = "dispatch" => rows' = rows
      /\ members' = members
  <2>1. pc[w] \in {"update", "dispatch", "close"} /\ (pc[w] = "dispatch" => rows' = rows)
    BY DEF Accrue, Renotify, Dispatch, CloseIncident, dbVars
  <2>2. members' = members /\ (Return(w) \/ Goto(w, "dispatch"))
    <3>1. CASE Accrue(w) \/ Renotify(w)
      BY <3>1, Zenon DEF Accrue, Renotify
    <3>2. CASE Dispatch(w) \/ CloseIncident(w)
      BY <3>2 DEF Dispatch, CloseIncident, dbVars
    <3> QED
      BY <3>1, <3>2
  <2>3. /\ Return(w) => pc'[w] = "idle"
        /\ Goto(w, "dispatch") => pc'[w] = "dispatch" /\ cur' = cur
        /\ \A v \in Workers \ {w} : pc'[v] = pc[v] /\ cur'[v] = cur[v]
    BY <2>2 DEF Return, Goto, SafeInv, TypeOK
  <2>4. pc[w] \in HasRow
    BY <2>1 DEF HasRow
  <2>5. pc'[w] = "idle" \/ (pc'[w] = "dispatch" /\ cur'[w] = cur[w])
    BY <2>2, <2>3
  <2> QED
    BY <2>1, <2>2, <2>3, <2>4, <2>5, Zenon
<1>2. id \in Ids /\ rows[id].fp = op[w].fp /\ op[w].fp \in Fingerprints
  <2>1. id \in Ids /\ op[w].fp \in Fingerprints
    BY <1>1, HeldRow DEF Event
  <2>2. ReadOK(w)
    BY DEF SafeInv, ReadInv
  <2> QED
    BY <1>1, <2>1, <2>2 DEF ReadOK
<1>3. ASSUME pc[w] # "dispatch"
      PROVE  \E r \in Row : RowWritten(w, r)
  BY <1>1, <1>3, WritesOwnRow DEF SafeInv, Dispatch
<1>4. /\ rows'[id].fp = op[w].fp
      /\ \A j \in Ids \ {id} : rows'[j] = rows[j] /\ members'[j] = members[j]
  BY <1>1, <1>2, <1>3 DEF RowWritten, SafeInv, TypeOK
<1>5. pc[w] = "update" => rows'[id].status = "open"
  <2> SUFFICES ASSUME Accrue(w) \/ Renotify(w) PROVE rows'[id].status = "open"
    BY DEF Dispatch, CloseIncident
  <2>1. cur[w].row \in Row /\ cur[w].row.status = "open"
    BY <1>1, HeldRow DEF SafeInv, WorkerInv, WorkerOK
  <2>2. CASE Accrue(w)
    <3> DEFINE r == [cur[w].row EXCEPT !.count = @ + 1, !.updated = op[w].now]
    <3>1. r.status = "open"
      BY <2>1 DEF Row
    <3>2. rows' = [rows EXCEPT ![id] = r]
      BY <2>2 DEF Accrue
    <3> QED
      BY <1>2, <3>1, <3>2 DEF SafeInv, TypeOK
  <2>3. CASE Renotify(w)
    <3> DEFINE r == [cur[w].row EXCEPT !.count = @ + 1, !.updated = op[w].now, !.notified = op[w].now]
    <3>1. r.status = "open"
      BY <2>1 DEF Row
    <3>2. rows' = [rows EXCEPT ![id] = r]
      BY <2>3 DEF Renotify
    <3> QED
      BY <1>2, <3>1, <3>2 DEF SafeInv, TypeOK
  <2> QED
    BY <2>2, <2>3
<1>6. pc[w] = "close" => rows'[id].status = "closed"
  <2> SUFFICES ASSUME CloseIncident(w) PROVE rows'[id].status = "closed"
    BY DEF Accrue, Renotify, Dispatch
  <2>1. rows[id] \in Row
    BY <1>1, HeldRow
  <2> QED
    BY <1>2, <2>1 DEF CloseIncident, SafeInv, TypeOK, Row
<1>7. pc'[w] \in HasRow => cur'[w] = cur[w]
  BY <1>1 DEF HasRow
<1>8. /\ pc[w] \in InSection
      /\ \A j \in Ids : rows[j].status = "open" /\ rows[j].fp = op[w].fp => j = id
      /\ \A fp \in Fingerprints \ {op[w].fp} :
           (fp \in Shown' <=> fp \in Shown) /\ Pages'[fp] = Pages[fp]
  BY <1>1, <1>2, <1>4, <1>7, OnItsRow
<1>9. /\ op[w].fp \in Shown <=> \/ rows[id].status = "open" /\ pc[w] \notin Hiding
                                \/ pc[w] \in Holding
      /\ op[w].fp \in Shown' <=> \/ rows'[id].status = "open" /\ pc'[w] \notin Hiding
                                 \/ pc'[w] \in Holding
      /\ op[w].fp \in Shown => Pages[op[w].fp] = members[id]
      /\ op[w].fp \in Shown' => Pages'[op[w].fp] = members'[id]
      /\ op[w].fp \notin Shown => Pages[op[w].fp] = {}
      /\ op[w].fp \notin Shown' => Pages'[op[w].fp] = {}
  BY <1>1, <1>2, <1>4, <1>7, <1>8, OwnShown
<1>10. op[w].fp \in Shown' <=> op[w].fp \in Shown
  <2>1. CASE pc[w] = "update"
    BY <1>1, <1>5, <1>9, <2>1 DEF Hiding, Holding
  <2>2. CASE pc[w] = "dispatch"
    BY <1>1, <1>9, <2>2 DEF Hiding, Holding
  <2>3. CASE pc[w] = "close"
    BY <1>1, <1>6, <1>9, <2>3 DEF Hiding, Holding, CloseIncident, Return, SafeInv, TypeOK
  <2> QED
    BY <1>1, <2>1, <2>2, <2>3
<1>11. Pages'[op[w].fp] = Pages[op[w].fp]
  BY <1>1, <1>9, <1>10
<1> QED
  BY <1>2, <1>8, <1>10, <1>11, BoardMoves

\* A row just inserted is not on the board before its first member.
LEMMA OpenShows ==
  ASSUME SafeInv, NEW w \in Workers, OpenIncident(w)
  PROVE  UNCHANGED Board!boardVars
<1>0. PICK new \in Ids : new = nextId
  BY DEF OpenIncident
<1>1. /\ members' = members
      /\ \A j \in Ids \ {new} : rows'[j] = rows[j]
      /\ pc[w] = "open" /\ pc'[w] = "firstMember" /\ cur'[w].id = new
      /\ \A v \in Workers \ {w} : pc'[v] = pc[v] /\ cur'[v] = cur[v]
  BY <1>0 DEF OpenIncident, SafeInv, TypeOK
<1>2. rows[new] = NoRow
  BY <1>0 DEF SafeInv, RowsInv, TypeOK, Ids
<1>3. \A v \in Workers : pc[v] \in HasRow => cur[v].id # new
  BY <1>0, HeldRow DEF SafeInv, TypeOK, Ids
<1>4. ASSUME NEW S \in SUBSET HasRow, NEW id \in Ids \ {new}
      PROVE  HeldAt(id, S)' <=> HeldAt(id, S)
  <2>1. HeldAt(id, S)' <=> \E v \in Workers : pc'[v] \in S /\ cur'[v].id = id
    BY DEF HeldAt
  <2> QED
    BY <1>1, <2>1 DEF HeldAt, HasRow
<1>5. ASSUME NEW id \in Ids \ {new}
      PROVE  CountsAsOpen(id)' <=> CountsAsOpen(id)
  <2>1. Hiding \in SUBSET HasRow /\ Holding \in SUBSET HasRow
    BY DEF Hiding, Holding, HasRow
  <2> QED
    BY <1>1, <1>4, <2>1 DEF CountsAsOpen, Hiding, Holding
<1>6. ~CountsAsOpen(new)
  BY <1>2, <1>3 DEF CountsAsOpen, HeldAt, NoRow, HasRow
<1>7. ~CountsAsOpen(new)'
  <2>1. HeldAt(new, {"firstMember", "close"})'
    BY <1>1 DEF HeldAt
  <2>2. ~HeldAt(new, {"member", "update"})'
    BY <1>1, <1>3 DEF HeldAt, HasRow
  <2> QED
    BY <2>1, <2>2 DEF CountsAsOpen
<1>8. \A id \in Ids : \A fp \in Fingerprints :
        (CountsAsOpen(id)' /\ rows'[id].fp = fp) <=> (CountsAsOpen(id) /\ rows[id].fp = fp)
  BY <1>1, <1>5, <1>6, <1>7
<1> QED
  BY <1>1, <1>8, ShownKept, BoardKept

\* The sweep lets an incident expire, unless an Ingest holds it or it is hidden.
LEMMA SweepShows ==
  ASSUME SafeInv, SafeInv', NEW id \in Ids, SweepClose(id)
  PROVE  Board!Whole \/ UNCHANGED Board!boardVars
<1>1. /\ rows[id] \in Row /\ rows'[id].status = "closed" /\ rows'[id].fp = rows[id].fp
      /\ \A j \in Ids \ {id} : rows'[j] = rows[j]
      /\ members' = members /\ pc' = pc /\ cur' = cur
  <2>1. rows[id] \in Row
    BY RowShape DEF SweepClose, SafeInv, RowsInv
  <2> QED
    BY <2>1 DEF SweepClose, SafeInv, TypeOK, localVars, Row
<1>2. \A S : \A j \in Ids : HeldAt(j, S)' <=> HeldAt(j, S)
  BY <1>1 DEF HeldAt
<1>3. \A j \in Ids \ {id} : CountsAsOpen(j)' <=> CountsAsOpen(j)
  BY <1>1, <1>2 DEF CountsAsOpen
<1>4. CASE CountsAsOpen(id)' <=> CountsAsOpen(id)
  BY <1>1, <1>3, <1>4, ShownKept, BoardKept
<1>5. CASE ~(CountsAsOpen(id)' <=> CountsAsOpen(id))
  <2>1. CountsAsOpen(id) /\ ~CountsAsOpen(id)'
    BY <1>1, <1>2, <1>5 DEF CountsAsOpen
  <2>2. PICK g \in Fingerprints : g = rows[id].fp
    BY <1>1 DEF Row
  <2>3. g \in Shown
    BY <2>1, <2>2, OnBoard DEF Faithful
  <2>4. g \notin Shown' /\ Pages'[g] = {}
    <3>1. Faithful(g)'
      BY OnBoardNext
    <3>2. ASSUME NEW j \in Ids, CountsAsOpen(j)', rows'[j].fp = g PROVE FALSE
      BY <1>1, <1>3, <2>1, <2>2, <3>2, CountedTracked, OneTracked
    <3> QED
      BY <3>1, <3>2 DEF Faithful
  <2>5. ASSUME NEW fp \in Fingerprints \ {g}
        PROVE  (fp \in Shown' <=> fp \in Shown) /\ Pages'[fp] = Pages[fp]
    <3>1. \A j \in Ids : (CountsAsOpen(j)' /\ rows'[j].fp = fp) <=>
                         (CountsAsOpen(j) /\ rows[j].fp = fp)
      BY <1>1, <1>3, <2>2
    <3> QED
      BY <1>1, <3>1, ShownKept
  <2> QED
    BY <2>3, <2>4, <2>5, BoardMoves
<1> QED
  BY <1>4, <1>5

\* An error loses what the worker hid or held, and nothing else,
LEMMA ErrorTears ==
  ASSUME SafeInv, SafeInv', BoardInv, NEW w \in Workers, StoreError(w)
  PROVE  \E stranded, expired \in SUBSET Fingerprints : Board!Torn(stranded, expired)
<1>1. /\ Faults /\ pc[w] \in InSection /\ pc'[w] = "idle" /\ rows' = rows /\ members' = members
      /\ \A v \in Workers \ {w} : pc'[v] = pc[v] /\ cur'[v] = cur[v]
  BY DEF StoreError, Return, InSection, Steps, StoreSteps, SafeInv, TypeOK, dbVars
<1>2. ASSUME NEW id \in Ids, CountsAsOpen(id)', ~CountsAsOpen(id)
      PROVE  rows[id].status = "open" /\ members[id] = {}
  <2>1. CASE rows[id].fp = op[w].fp
    <3>1. rows[id].status = "open" /\ pc[w] \in Hiding /\ cur[w].id = id
      BY <1>1, <1>2, <2>1, OwnCounts DEF Hiding, Holding
    <3> QED
      BY <3>1, Emptied
  <2>2. CASE rows[id].fp # op[w].fp
    <3>1. /\ HeldAt(id, Hiding)' <=> HeldAt(id, Hiding)
          /\ HeldAt(id, Holding)' <=> HeldAt(id, Holding)
      BY <1>1, <2>2, HeldByOthers DEF Hiding, Holding, HasRow
    <3> QED
      BY <1>1, <1>2, <3>1 DEF CountsAsOpen, Hiding, Holding
  <2> QED
    BY <2>1, <2>2
<1> QED
  BY <1>1, <1>2, TornStep

\* and a crash what they all did.
LEMMA CrashTears ==
  ASSUME SafeInv, SafeInv', BoardInv, Crash
  PROVE  \E stranded, expired \in SUBSET Fingerprints : Board!Torn(stranded, expired)
<1>1. Faults /\ rows' = rows /\ members' = members /\ \A v \in Workers : pc'[v] = "idle"
  BY DEF Crash, dbVars
<1>2. ASSUME NEW id \in Ids, CountsAsOpen(id)', ~CountsAsOpen(id)
      PROVE  rows[id].status = "open" /\ members[id] = {}
  <2>1. ~HeldAt(id, Holding)' /\ ~HeldAt(id, Hiding)'
    BY <1>1 DEF HeldAt, Hiding, Holding
  <2>2. rows[id].status = "open" /\ HeldAt(id, Hiding)
    BY <1>1, <1>2, <2>1 DEF CountsAsOpen, Hiding, Holding
  <2> QED
    BY <2>2, Emptied DEF HeldAt
<1> QED
  BY <1>1, <1>2, TornStep

\* Every step of the pipeline is one of the board or none, and only a fault tears.
LEMMA BoardStep ==
  ASSUME SafeInv, SafeInv', BoardInv, [Next]_vars
  PROVE  \/ Board!Whole
         \/ UNCHANGED Board!boardVars
         \/ FaultStep /\ \E stranded, expired \in SUBSET Fingerprints : Board!Torn(stranded, expired)
<1>1. CASE UNCHANGED <<rows, members, pc, cur>>
  BY <1>1, QuietStep
<1>2. ASSUME NEW w \in Workers, UNCHANGED <<rows, members>>,
             pc[w] \notin HasRow, pc'[w] \notin HasRow,
             \A v \in Workers \ {w} : pc'[v] = pc[v] /\ cur'[v] = cur[v]
      PROVE  UNCHANGED Board!boardVars
  BY <1>2, QuietStep
<1>3. ASSUME NEW w \in Workers, NEW kind \in {"ingest", "resolve"},
             NEW fp \in Fingerprints, NEW url \in URLs \cup {NoURL},
             Begin(w, kind, fp, url)
      PROVE  UNCHANGED Board!boardVars
  BY <1>2, <1>3 DEF Begin, HasRow, SafeInv, TypeOK, dbVars
<1>4. ASSUME NEW w \in Workers, Acquire(w) \/ ReadNone(w)
      PROVE  UNCHANGED Board!boardVars
  BY <1>2, <1>4 DEF Acquire, ReadNone, Goto, Return, HasRow, SafeInv, TypeOK, dbVars
<1>5. ASSUME NEW w \in Workers, Work(w)
      PROVE  Board!Whole \/ UNCHANGED Board!boardVars
  BY <1>4, <1>5, ReadShows, MemberReported, MemberRecovered, WriteShows, OpenShows DEF Work
<1>6. ASSUME NEW w \in Workers, StoreError(w)
      PROVE  FaultStep /\ \E stranded, expired \in SUBSET Fingerprints : Board!Torn(stranded, expired)
  BY <1>6, ErrorTears DEF FaultStep
<1>7. CASE Crash
  BY <1>7, CrashTears DEF FaultStep
<1> QED
  BY <1>1, <1>3, <1>5, <1>6, <1>7, SweepShows
     DEF Next, Tick, SweepRead, SweepError, vars, dbVars, localVars

\* At the start the board is empty.
LEMMA BoardInitially == Init => Board!Init
<1> SUFFICES ASSUME Init PROVE Board!Init
  OBVIOUS
<1>1. ASSUME NEW fp \in Fingerprints PROVE BoardRows(fp) = {}
  BY DEF Init, BoardRows, CountsAsOpen, HeldAt, NoRow
<1> QED
  BY <1>1 DEF Board!Init

\* The pipeline, for any number of workers and whatever fails, behaves as the
\* board: a report and a recovery are one step each, an incident closes with its
\* last page or by expiring, and until the first fault no operation is cut short.
THEOREM BoardImplemented == TrackedSpec => ImplementsWholeBoard
<1> DEFINE TrackedNext == Next /\ faulted' = (faulted \/ FaultStep)
<1>1. Init /\ [][TrackedNext]_<<vars, faulted>> => Spec
  <2>1. [TrackedNext]_<<vars, faulted>> => [Next]_vars
    BY DEF vars
  <2> QED
    BY <2>1, PTL DEF Spec
<1>2. SafeInv /\ SafeInv' /\ BoardInv /\ [TrackedNext]_<<vars, faulted>>
        => [Board!Next]_(Board!boardVars)
  BY BoardStep DEF Board!Next, vars
<1>3. SafeInv /\ SafeInv' /\ BoardInv /\ [TrackedNext]_<<vars, faulted>>
        => [~faulted' => Board!Whole \/ UNCHANGED Board!boardVars]_<<vars, faulted>>
  BY BoardStep DEF vars
<1>4. Init => Board!Init
  BY BoardInitially
<1>5. TrackedSpec => Init /\ [][TrackedNext]_<<vars, faulted>>
  BY PTL DEF TrackedSpec, TrackedInit
<1> QED
  BY <1>1, <1>2, <1>3, <1>4, <1>5, Safe, BoardInvariant, PTL
     DEF ImplementsWholeBoard, ImplementsBoard, Board!Spec
=============================================================================
