---------------------------- MODULE DaemonProofs ----------------------------
(***************************************************************************)
(* Proofs about the components of the daemon beside its crawls: the        *)
(* transactions of the store (WriterNeverWedged), the start and teardown   *)
(* (TeardownInOrder), the ownership of sites and the rate of their hosts   *)
(* (DemotedIsSlow, and ReloadSettles of a whole reload), and the Search    *)
(* Console job (DiscrepancyWasReal), each for any number of callers,       *)
(* loops, sites, jobs and pages; what those who ask are told               *)
(* (HonestAnswer), whoever they are; and the types of the suite they make  *)
(* with the writers of config.yaml and the delivery of alerts.             *)
(***************************************************************************)
EXTENDS MCDaemon, ConfigFileProofs, DeliveryProofs, FiniteSetTheorems, TLAPS

-----------------------------------------------------------------------------
(* StoreTx: the connection of the writer pool.                             *)

\* What StoreTxTypeOK says of the callers.
CallerState ==
  [pc : {"idle", "conn", "begin", "fn", "commit", "rollback", "discard", "close ok", "close error",
         "ok", "error"},
   write : 0..MaxWrites, over : BOOLEAN]

\* A caller holds the connection from its grant until it closes it.
Holding == {"begin", "fn", "commit", "rollback", "discard", "close ok", "close error"}

\* What is pending is the write of the holder, and only within its transaction.
TxOK(c) ==
  /\ caller[c].pc \in Holding <=> holder = c
  /\ caller[c].pc # "idle" => caller[c].write \in 1..writes
  /\ caller[c].pc \in {"begin", "close ok", "close error"} => ~inTx /\ pending = {}
  /\ caller[c].pc = "commit" => pending = {caller[c].write}
  /\ caller[c].pc = "fn" => pending = {}
  /\ caller[c].pc \in {"rollback", "discard"} => pending \subseteq {caller[c].write}
  /\ caller[c].pc \in {"close ok", "ok"} => caller[c].write \in database
  /\ caller[c].pc \notin {"idle", "close ok", "ok"} => caller[c].write \notin database

TxInv ==
  /\ StoreTxTypeOK
  /\ holder = NoCaller => ~inTx /\ pending = {}
  /\ database \subseteq 1..writes
  /\ \A c \in Callers : TxOK(c)
  /\ \A c, d \in Callers : caller[c].pc # "idle" /\ caller[d].pc # "idle" /\ c # d =>
       caller[c].write # caller[d].write

Statement(c) ==
  \/ CallWriteTx(c) \/ Cancel(c) \/ Conn(c) \/ BeginImmediate(c) \/ Fn(c)
  \/ Commit(c) \/ Rollback(c) \/ Discard(c) \/ CloseConn(c)

\* A caller that moves keeps its write, and the others stay where they are.
LEMMA TxMoved ==
  ASSUME caller \in [Callers -> CallerState], NEW c \in Callers, NEW to, Move(c, to)
  PROVE  /\ caller'[c].pc = to /\ caller'[c].write = caller[c].write
         /\ \A d \in Callers \ {c} : caller'[d] = caller[d]
         /\ to \in {"idle", "conn", "begin", "fn", "commit", "rollback", "discard", "close ok",
                   "close error", "ok", "error"} => caller' \in [Callers -> CallerState]
BY DEF Move, CallerState

\* The pieces of the types.
LEMMA TxTypes ==
  StoreTxTypeOK => /\ caller \in [Callers -> CallerState]
                   /\ writes \in 0..MaxWrites /\ writes \in Nat /\ MaxWrites \in Nat
                   /\ holder \in Callers \cup {NoCaller} /\ inTx \in BOOLEAN
                   /\ pending \subseteq 1..MaxWrites /\ database \subseteq 1..MaxWrites
<1> SUFFICES ASSUME StoreTxTypeOK
             PROVE  caller \in [Callers -> CallerState] /\ writes \in Nat
  BY StoreTxAssumption DEF StoreTxTypeOK
<1>1. writes \in 0..MaxWrites /\ MaxWrites \in Nat
  BY StoreTxAssumption DEF StoreTxTypeOK
<1>2. writes \in Nat
  BY <1>1
<1> QED
  BY <1>2 DEF StoreTxTypeOK, CallerState

\* Every statement of a transaction keeps the types.
LEMMA TxTypeStep ==
  ASSUME StoreTxTypeOK, NEW c \in Callers, Statement(c),
         caller[c].pc # "idle" => caller[c].write \in 1..writes
  PROVE  StoreTxTypeOK'
<1>0. /\ caller \in [Callers -> CallerState]
      /\ writes \in 0..MaxWrites /\ MaxWrites \in Nat
  BY TxTypes
<1>1. caller' \in [Callers -> CallerState]
  <2>1. CASE CallWriteTx(c)
    <3>1. writes + 1 \in 0..MaxWrites
      BY <1>0, <2>1 DEF CallWriteTx
    <3> QED
      BY <1>0, <2>1, <3>1 DEF CallWriteTx, CallerState
  <2>2. CASE Cancel(c)
    BY <1>0, <2>2 DEF Cancel, CallerState
  <2>3. CASE ~CallWriteTx(c) /\ ~Cancel(c)
    <3>1. PICK to \in {"begin", "fn", "commit", "rollback", "discard", "close ok", "close error",
                      "ok", "error"} : Move(c, to)
      BY <2>3 DEF Statement, Conn, BeginImmediate, Fn, Commit, Rollback, Discard, CloseConn, Move
    <3> QED
      BY <1>0, <3>1, TxMoved
  <2> QED
    BY <2>1, <2>2, <2>3
<1>2. writes' \in 0..MaxWrites
  <2>1. CASE CallWriteTx(c)
    BY <1>0, <2>1 DEF CallWriteTx
  <2>2. CASE ~CallWriteTx(c)
    BY <1>0, <2>2 DEF Statement, Cancel, Conn, BeginImmediate, Fn, Commit, Rollback, Discard, CloseConn
  <2> QED
    BY <2>1, <2>2
<1>3. pending' \subseteq 1..MaxWrites
  <2>1. CASE Fn(c)
    <3>1. caller[c].write \in 1..writes
      BY <2>1 DEF Fn, At
    <3>2. caller[c].write \in 1..MaxWrites
      BY <1>0, <3>1
    <3> QED
      BY <2>1, <3>2 DEF Fn, StoreTxTypeOK
  <2> QED
    BY <2>1 DEF StoreTxTypeOK, Statement, CallWriteTx, Cancel, Conn, BeginImmediate, Commit, Rollback, Discard,
                CloseConn
<1> QED
  BY <1>1, <1>2, <1>3
     DEF StoreTxTypeOK, CallerState, Statement, CallWriteTx, Cancel, Conn, BeginImmediate, Fn, Commit, Rollback,
         Discard, CloseConn

\* A statement of one caller keeps what holds of it, and of any other.
LEMMA TxCallerStep ==
  ASSUME TxInv, NEW c \in Callers, NEW d \in Callers, Statement(c)
  PROVE  TxOK(d)'
<1> DEFINE Moved(to) == /\ caller'[c].pc = to /\ caller'[c].write = caller[c].write
                        /\ d # c => caller'[d] = caller[d]
<1>0. /\ caller \in [Callers -> CallerState]
      /\ writes \in 0..MaxWrites /\ database \subseteq 1..writes
      /\ TxOK(c) /\ TxOK(d)
      /\ holder = NoCaller => ~inTx /\ pending = {}
      /\ c # NoCaller /\ d # NoCaller /\ inTx \in BOOLEAN
      /\ caller[c].pc # "idle" /\ caller[d].pc # "idle" /\ c # d => caller[c].write # caller[d].write
  BY StoreTxAssumption DEF TxInv, StoreTxTypeOK, CallerState
<1>00. \A to : Move(c, to) => Moved(to)
  BY <1>0, TxMoved
<1> HIDE DEF Moved
<1>1. CASE CallWriteTx(c)
  <2>1. /\ caller'[c].pc = "conn" /\ caller'[c].write = writes + 1
        /\ d # c => caller'[d] = caller[d]
        /\ caller[c].pc \in {"idle", "ok", "error"}
        /\ UNCHANGED <<holder, inTx, pending, database>>
    BY <1>0, <1>1 DEF CallWriteTx, CallerState
  <2>2. writes + 1 \in 1..writes' /\ writes + 1 \notin database /\ 1..writes \subseteq 1..writes'
    BY <1>0, <1>1, StoreTxAssumption DEF CallWriteTx
  <2>3. CASE d = c
    BY <1>0, <2>1, <2>2, <2>3 DEF TxOK, Holding
  <2>4. CASE d # c
    BY <1>0, <2>1, <2>2, <2>4 DEF TxOK, Holding
  <2> QED
    BY <2>3, <2>4
<1>2. CASE Cancel(c)
  <2>1. /\ caller'[c].pc = caller[c].pc /\ caller'[c].write = caller[c].write
        /\ d # c => caller'[d] = caller[d]
        /\ UNCHANGED <<holder, inTx, pending, database, writes>>
    BY <1>0, <1>2 DEF Cancel, CallerState
  <2> QED
    BY <1>0, <2>1 DEF TxOK, Holding
<1>3. CASE Conn(c)
  <2>1. /\ UNCHANGED <<inTx, pending, database, writes>>
        /\ \/ holder = NoCaller /\ holder' = c /\ Moved("begin")
           \/ UNCHANGED holder /\ Moved("error")
        /\ caller[c].pc = "conn"
    BY <1>00, <1>3 DEF Conn, At
  <2>2. CASE d = c
    BY <1>0, <2>1, <2>2 DEF TxOK, Holding, Moved
  <2>3. CASE d # c
    BY <1>0, <2>1, <2>3 DEF TxOK, Holding, Moved
  <2> QED
    BY <2>2, <2>3
<1>4. CASE BeginImmediate(c)
  <2>1. /\ UNCHANGED <<holder, pending, database, writes>>
        /\ caller[c].pc = "begin"
        /\ \/ Moved("fn")
           \/ inTx' = inTx /\ Moved("close error")
    BY <1>00, <1>4 DEF BeginImmediate, At
  <2>2. CASE d = c /\ caller'[c].pc = "fn"
    BY <1>0, <2>1, <2>2 DEF TxOK, Holding, Moved
  <2>3. CASE d = c /\ inTx' = inTx /\ Moved("close error")
    BY <1>0, <2>1, <2>3 DEF TxOK, Holding, Moved
  <2>4. CASE d # c
    BY <1>0, <2>1, <2>4 DEF TxOK, Holding, Moved
  <2> QED
    BY <2>1, <2>2, <2>3, <2>4 DEF Moved
<1>5. CASE Fn(c)
  <2>1. /\ UNCHANGED <<holder, inTx, database, writes>>
        /\ \E to \in {"commit", "rollback"} :
             Moved(to) /\ (pending' = {caller[c].write} \/ (to = "rollback" /\ UNCHANGED pending))
        /\ caller[c].pc = "fn"
    BY <1>00, <1>5 DEF Fn, At, Move
  <2>2. CASE d = c
    BY <1>0, <2>1, <2>2 DEF TxOK, Holding, Moved
  <2>3. CASE d # c
    BY <1>0, <2>1, <2>3 DEF TxOK, Holding, Moved
  <2> QED
    BY <2>2, <2>3
<1>6. CASE Commit(c)
  <2>1. /\ UNCHANGED <<holder, writes>>
        /\ \/ /\ inTx' = FALSE /\ database' = database \cup pending /\ pending' = {}
              /\ Moved("close ok")
           \/ UNCHANGED <<inTx, database, pending>> /\ Moved("rollback")
        /\ caller[c].pc = "commit"
    BY <1>00, <1>6 DEF Commit, At
  <2>2. CASE d = c
    BY <1>0, <2>1, <2>2 DEF TxOK, Holding, Moved
  <2>3. CASE d # c
    BY <1>0, <2>1, <2>3 DEF TxOK, Holding, Moved
  <2> QED
    BY <2>2, <2>3
<1>7. CASE Rollback(c)
  <2>1. /\ UNCHANGED <<holder, database, writes>>
        /\ \/ inTx' = FALSE /\ pending' = {} /\ Moved("close error")
           \/ UNCHANGED <<inTx, pending>> /\ Moved("discard")
        /\ caller[c].pc = "rollback"
    BY <1>00, <1>7 DEF Rollback, At
  <2>2. CASE d = c
    BY <1>0, <2>1, <2>2 DEF TxOK, Holding, Moved
  <2>3. CASE d # c
    BY <1>0, <2>1, <2>3 DEF TxOK, Holding, Moved
  <2> QED
    BY <2>2, <2>3
<1>8. CASE Discard(c)
  <2>1. /\ UNCHANGED <<holder, database, writes>>
        /\ inTx' = FALSE /\ pending' = {} /\ Moved("close error")
        /\ caller[c].pc = "discard"
    BY <1>00, <1>8 DEF Discard, At
  <2>2. CASE d = c
    BY <1>0, <2>1, <2>2 DEF TxOK, Holding, Moved
  <2>3. CASE d # c
    BY <1>0, <2>1, <2>3 DEF TxOK, Holding, Moved
  <2> QED
    BY <2>2, <2>3
<1>9. CASE CloseConn(c)
  <2>1. /\ UNCHANGED <<inTx, pending, database, writes>>
        /\ holder' = NoCaller
        /\ \/ caller[c].pc = "close ok" /\ Moved("ok")
           \/ caller[c].pc = "close error" /\ Moved("error")
    BY <1>00, <1>9 DEF CloseConn, At
  <2>2. CASE d = c
    BY <1>0, <2>1, <2>2 DEF TxOK, Holding, Moved
  <2>3. CASE d # c
    BY <1>0, <2>1, <2>3 DEF TxOK, Holding, Moved
  <2> QED
    BY <2>2, <2>3
<1> QED
  BY <1>1, <1>2, <1>3, <1>4, <1>5, <1>6, <1>7, <1>8, <1>9 DEF Statement

\* Every statement of a transaction keeps its invariant.
LEMMA TxStep == TxInv /\ [StoreTxNext]_txVars => TxInv'
<1> SUFFICES ASSUME TxInv, [StoreTxNext]_txVars PROVE TxInv'
  OBVIOUS
<1>1. CASE UNCHANGED txVars
  BY <1>1 DEF txVars, TxInv, TxOK, StoreTxTypeOK
<1>2. ASSUME NEW c \in Callers, Statement(c)
      PROVE  TxInv'
  <2>0. /\ StoreTxTypeOK /\ TxOK(c) /\ database \subseteq 1..writes
        /\ caller \in [Callers -> CallerState] /\ writes \in Nat
    BY TxTypes DEF TxInv
  <2>00. \A a, b \in Callers : caller[a].pc # "idle" /\ caller[b].pc # "idle" /\ a # b =>
            caller[a].write # caller[b].write
    BY DEF TxInv
  <2>1. StoreTxTypeOK'
    BY <1>2, <2>0, TxTypeStep DEF TxOK
  <2>2. \A d \in Callers : TxOK(d)'
    BY <1>2, TxCallerStep
  <2>3. holder' = NoCaller => ~inTx' /\ pending' = {}
    <3>1. CASE CloseConn(c)
      BY <2>0, <3>1 DEF CloseConn, TxOK, At
    <3>2. CASE ~CloseConn(c) /\ holder' = NoCaller
      <4>1. holder = NoCaller
        BY <1>2, <3>2, StoreTxAssumption
           DEF Statement, CallWriteTx, Cancel, Conn, BeginImmediate, Fn, Commit, Rollback, Discard
      <4>2. CallWriteTx(c) \/ Cancel(c) \/ Conn(c)
        BY <1>2, <2>0, <3>2, <4>1, StoreTxAssumption
           DEF Statement, BeginImmediate, Fn, Commit, Rollback, Discard, At, TxOK, Holding
      <4> QED
        BY <4>1, <4>2 DEF CallWriteTx, Cancel, Conn, TxInv
    <3> QED
      BY <3>1, <3>2
  <2>4. database' \subseteq 1..writes'
    <3>1. CASE CallWriteTx(c)
      BY <2>0, <3>1 DEF CallWriteTx
    <3>2. CASE Commit(c)
      BY <2>0, <3>2 DEF Commit, At, TxOK
    <3>3. CASE ~CallWriteTx(c) /\ ~Commit(c)
      BY <1>2, <2>0, <3>3
         DEF Statement, Cancel, Conn, BeginImmediate, Fn, Rollback, Discard, CloseConn
    <3> QED
      BY <3>1, <3>2, <3>3
  <2>5. \A a, b \in Callers : caller'[a].pc # "idle" /\ caller'[b].pc # "idle" /\ a # b =>
           caller'[a].write # caller'[b].write
    <3>1. CASE CallWriteTx(c)
      <4>1. caller'[c].write = writes + 1 /\ \A a \in Callers \ {c} : caller'[a] = caller[a]
        BY <2>0, <3>1 DEF CallWriteTx, CallerState
      <4>2. \A a \in Callers : caller[a].pc # "idle" => caller[a].write # writes + 1
        <5>1. \A a \in Callers : caller[a].pc # "idle" => caller[a].write \in 1..writes
          BY DEF TxInv, TxOK
        <5> QED
          BY <2>0, <5>1
      <4> QED
        BY <2>00, <4>1, <4>2
    <3>2. CASE ~CallWriteTx(c)
      <4>1. \A a \in Callers : /\ caller'[a].write = caller[a].write
                               /\ caller'[a].pc # "idle" => caller[a].pc # "idle"
        <5>1. CASE Cancel(c)
          BY <2>0, <5>1 DEF Cancel, CallerState
        <5>2. CASE ~Cancel(c)
          <6>1. (\E to : Move(c, to)) /\ caller[c].pc # "idle"
            BY <1>2, <3>2, <5>2
               DEF Statement, Conn, BeginImmediate, Fn, Commit, Rollback, Discard, CloseConn, Move, At
          <6> QED
            BY <2>0, <6>1, TxMoved
        <5> QED
          BY <5>1, <5>2
      <4> QED
        BY <2>00, <4>1
    <3> QED
      BY <3>1, <3>2
  <2> QED
    BY <2>1, <2>2, <2>3, <2>4, <2>5 DEF TxInv
<1> QED
  BY <1>1, <1>2 DEF StoreTxNext, Statement

\* The initial state of the store satisfies it.
LEMMA TxInit == StoreTxInit => TxInv
<1> SUFFICES ASSUME StoreTxInit PROVE TxInv
  OBVIOUS
<1>1. MaxWrites \in Nat
  BY StoreTxAssumption
<1>2. StoreTxTypeOK
  <2>1. 0 \in 0..MaxWrites
    BY <1>1
  <2>2. Idle \in CallerState
    BY <2>1 DEF Idle, CallerState
  <2>3. caller \in [Callers -> CallerState]
    BY <2>2 DEF StoreTxInit
  <2> QED
    BY <2>1, <2>3 DEF StoreTxInit, StoreTxTypeOK, CallerState
<1>3. \A c \in Callers : caller[c].pc = "idle" /\ c # holder
  BY StoreTxAssumption DEF StoreTxInit, Idle
<1>4. \A c \in Callers : TxOK(c)
  BY <1>3 DEF StoreTxInit, TxOK, Holding
<1>5. ~inTx /\ pending = {} /\ database = {}
  BY DEF StoreTxInit
<1> QED
  BY <1>2, <1>3, <1>4, <1>5 DEF TxInv

\* However the writes of the daemon end, the connection comes back outside a
\* transaction, and what a caller is told is what became of its write (WriteTx).
THEOREM WriterNeverWedgedCorrect == StoreTxSpec => []WriterNeverWedged
<1>1. TxInv => WriterNeverWedged
  BY DEF TxInv, TxOK, WriterNeverWedged, At
<1> QED
  BY <1>1, TxInit, TxStep, PTL DEF StoreTxSpec

-----------------------------------------------------------------------------
(* Lifecycle: the start and the teardown of runDaemon.                     *)

\* The stages before anything is started, and those after everything was waited for.
Early == {"load", "open", "build", "sync", "spawn"}
Late == {"checkpoint", "close", "returned"}
Told(s) == listener[s] \in {"starting", "serving"} => s \in shutDown

\* Who uses the store is only there while the store is open.
LifeStages ==
  /\ store # "open" => stage \in {"load", "open", "close", "returned"}
  /\ timers # "none" => stage \notin Early \cup {"timers"}
  /\ timers \in {"idle", "busy"} => stage \notin {"join"} \cup Late
  /\ timers = "left" => "timers" \in abandoned
  /\ \A r \in Routines : routine[r] # "none" => stage \notin Early
  /\ stage \in Late => \A r \in Routines : routine[r] \in {"none", "gone"}

\* A listener that was started has been shut down before it is waited for, and a
\* teardown is always that of a cancelled context.
LifeListeners ==
  /\ stage \in Early \cup {"timers", "metrics"} => listener["metrics"] = "none"
  /\ stage \in Early \cup {"timers", "metrics", "metrics grace", "control"} => listener["control"] = "none"
  /\ stage \in {"drain control", "stop metrics", "stop timers", "join"} \cup Late => Told("control")
  /\ stage \in {"stop timers", "join"} \cup Late => Told("metrics")
  /\ stage \in {"stop control", "drain control", "stop metrics", "stop timers", "join", "checkpoint"} => cancelled

\* Only the requests it gave up waiting for outlive the drain of the control server.
LifeRequests ==
  \A q \in Requests :
    /\ request[q] # "none" => listener["control"] \in {"serving", "gone"}
    /\ stage \in {"stop metrics", "stop timers", "join"} \cup Late => request[q] = "none" \/ q \in abandoned

LifeInv == LifecycleTypeOK /\ LifeStages /\ LifeListeners /\ LifeRequests /\ StoreLeftAlone

\* The initial state of the daemon satisfies it.
LEMMA LifeInit == LifecycleInit => LifeInv
BY DEF LifecycleInit, LifeInv, LifecycleTypeOK, LifeStages, LifeListeners, LifeRequests, StoreLeftAlone,
       Early, Late, Told, Servers

\* Every step of runDaemon, of what it started and of the requests preserves it.
LEMMA LifeStep == LifeInv /\ [LifecycleNext]_lifeVars => LifeInv'
<1> SUFFICES ASSUME LifeInv, [LifecycleNext]_lifeVars PROVE LifeInv'
  OBVIOUS
<1> USE DEF LifeInv, LifecycleTypeOK, LifeStages, LifeListeners, LifeRequests, StoreLeftAlone, Early, Late, Told,
            Servers, Proceed
<1>1. CASE LoadConfiguration
  BY <1>1 DEF LoadConfiguration
<1>2. CASE OpenStore
  BY <1>2 DEF OpenStore
<1>3. CASE BuildStack
  BY <1>3 DEF BuildStack
<1>4. CASE SyncSites
  BY <1>4 DEF SyncSites
<1>5. CASE SpawnPipeline
  BY <1>5 DEF SpawnPipeline
<1>6. CASE StartTimers
  BY <1>6 DEF StartTimers
<1>7. CASE StartMetrics
  <2>1. CASE GraceOver("metrics", "control")
    <3>1. /\ stage = "metrics grace" /\ stage' = "control"
          /\ UNCHANGED <<wanted, cancelled, store, routine, timers, listener, shutDown, request, abandoned, late>>
      BY <2>1 DEF GraceOver, GraceOf
    <3>2. LifecycleTypeOK'
      BY <3>1
    <3>3. LifeStages'
      BY <3>1
    <3>4. LifeListeners'
      BY <3>1
    <3>5. LifeRequests'
      BY <3>1
    <3>6. StoreLeftAlone'
      BY <3>1
    <3> QED
      BY <3>2, <3>3, <3>4, <3>5, <3>6
  <2>2. CASE StartListener("metrics", "control")
    <3>1. /\ stage = "metrics" /\ stage' \in {"metrics grace", "control"}
          /\ UNCHANGED <<wanted, cancelled, store, routine, timers, shutDown, request, abandoned, late>>
      BY <2>2 DEF StartListener, GraceOf
    <3>2. /\ stage' = "control" => listener' = listener
          /\ listener' \in [Servers -> {"none", "starting", "serving", "refused", "gone"}]
          /\ listener'["control"] = listener["control"]
      <4>1. \/ stage' = "control" /\ listener' = listener
            \/ stage' = "metrics grace" /\ listener' = [listener EXCEPT !["metrics"] = "starting"]
        BY <2>2 DEF StartListener, GraceOf
      <4>2. listener \in [Servers -> {"none", "starting", "serving", "refused", "gone"}]
        OBVIOUS
      <4> HIDE DEF LifeInv
      <4> QED
        BY <4>1, <4>2
    <3>3. LifecycleTypeOK'
      <4>1. /\ wanted' \subseteq Servers /\ cancelled' \in BOOLEAN /\ shutDown' \subseteq Servers
            /\ store' \in {"none", "open", "checkpointed", "closed"}
            /\ timers' \in {"none", "idle", "busy", "left"}
            /\ request' \in [Requests -> {"none", "call", "shutdown"}]
            /\ abandoned' \subseteq Requests \cup {"timers"}
        BY <3>1
      <4>2. /\ routine' \in [Routines -> {"none", "idle", "busy", "gone"}]
            /\ late' \subseteq Routines \cup {"timers"} \cup Requests
        BY <3>1
      <4>3. stage' \in {"metrics grace", "control"}
        BY <3>1
      <4> HIDE DEF LifeInv
      <4> QED
        BY <3>2, <4>1, <4>2, <4>3
    <3>4. LifeStages'
      BY <3>1, <3>2
    <3>5. LifeListeners'
      BY <3>1, <3>2
    <3>6. LifeRequests'
      BY <3>1, <3>2
    <3>7. StoreLeftAlone'
      BY <3>1, <3>2
    <3> QED
      BY <3>3, <3>4, <3>5, <3>6, <3>7
  <2> QED
    BY <1>7, <2>1, <2>2 DEF StartMetrics
<1>8. CASE MetricsBindFails
  BY <1>8 DEF MetricsBindFails, BindFails, GraceOf
<1>9. CASE StartControl
  <2>1. CASE GraceOver("control", "run")
    <3>1. /\ stage = "control grace" /\ stage' = "run"
          /\ UNCHANGED <<wanted, cancelled, store, routine, timers, listener, shutDown, request, abandoned, late>>
      BY <2>1 DEF GraceOver, GraceOf
    <3>2. LifecycleTypeOK'
      BY <3>1
    <3>3. LifeStages'
      BY <3>1
    <3>4. LifeListeners'
      BY <3>1
    <3>5. LifeRequests'
      BY <3>1
    <3>6. StoreLeftAlone'
      BY <3>1
    <3> QED
      BY <3>2, <3>3, <3>4, <3>5, <3>6
  <2>2. CASE StartListener("control", "run")
    <3>1. /\ stage = "control" /\ stage' \in {"control grace", "run"}
          /\ UNCHANGED <<wanted, cancelled, store, routine, timers, shutDown, request, abandoned, late>>
      BY <2>2 DEF StartListener, GraceOf
    <3>2. /\ stage' = "run" => listener' = listener
          /\ listener' \in [Servers -> {"none", "starting", "serving", "refused", "gone"}]
          /\ listener'["metrics"] = listener["metrics"]
      <4>1. \/ stage' = "run" /\ listener' = listener
            \/ stage' = "control grace" /\ listener' = [listener EXCEPT !["control"] = "starting"]
        BY <2>2 DEF StartListener, GraceOf
      <4>2. listener \in [Servers -> {"none", "starting", "serving", "refused", "gone"}]
        OBVIOUS
      <4> HIDE DEF LifeInv
      <4> QED
        BY <4>1, <4>2
    <3>3. LifecycleTypeOK'
      <4>1. /\ wanted' \subseteq Servers /\ cancelled' \in BOOLEAN /\ shutDown' \subseteq Servers
            /\ store' \in {"none", "open", "checkpointed", "closed"}
            /\ timers' \in {"none", "idle", "busy", "left"}
            /\ request' \in [Requests -> {"none", "call", "shutdown"}]
            /\ abandoned' \subseteq Requests \cup {"timers"}
        BY <3>1
      <4>2. /\ routine' \in [Routines -> {"none", "idle", "busy", "gone"}]
            /\ late' \subseteq Routines \cup {"timers"} \cup Requests
        BY <3>1
      <4>3. stage' \in {"control grace", "run"}
        BY <3>1
      <4> HIDE DEF LifeInv
      <4> QED
        BY <3>2, <4>1, <4>2, <4>3
    <3>4. LifeStages'
      BY <3>1, <3>2
    <3>5. LifeListeners'
      BY <3>1, <3>2
    <3>6. LifeRequests'
      BY <3>1, <3>2
    <3>7. StoreLeftAlone'
      BY <3>1, <3>2
    <3> QED
      BY <3>3, <3>4, <3>5, <3>6, <3>7
  <2> QED
    BY <1>9, <2>1, <2>2 DEF StartControl
<1>10. CASE ControlBindFails
  BY <1>10 DEF ControlBindFails, BindFails, GraceOf
<1>11. ASSUME NEW r \in Routines, Work(r) PROVE LifeInv'
  BY <1>11 DEF Work
<1>12. ASSUME NEW r \in Routines, stage # "returned", Finish(r) PROVE LifeInv'
  <2>1. LifecycleTypeOK'
    BY <1>12 DEF Finish, UseStore
  <2>2. LifeStages'
    BY <1>12 DEF Finish, UseStore
  <2>3. LifeListeners'
    BY <1>12 DEF Finish, UseStore
  <2>4. LifeRequests'
    BY <1>12 DEF Finish, UseStore
  <2>5. StoreLeftAlone'
    BY <1>12 DEF Finish, UseStore
  <2> QED
    BY <2>1, <2>2, <2>3, <2>4, <2>5
<1>13. ASSUME NEW r \in Routines, Leave(r) PROVE LifeInv'
  <2>1. LifecycleTypeOK'
    BY <1>13 DEF Leave
  <2>2. LifeStages'
    BY <1>13 DEF Leave
  <2>3. LifeListeners'
    BY <1>13 DEF Leave
  <2>4. LifeRequests'
    BY <1>13 DEF Leave
  <2>5. StoreLeftAlone'
    BY <1>13 DEF Leave
  <2> QED
    BY <2>1, <2>2, <2>3, <2>4, <2>5
<1>14. CASE StartJob
  BY <1>14 DEF StartJob
<1>15. CASE stage # "returned" /\ FinishJob
  <2>1. /\ \/ timers = "busy" /\ timers' = "idle"
           \/ timers = "left" /\ timers' = "none"
        /\ late' = late \/ (store # "open" /\ late' = late \cup {"timers"})
        /\ UNCHANGED <<stage, wanted, cancelled, store, routine, listener, shutDown, request, abandoned>>
    BY <1>15 DEF FinishJob, UseStore
  <2>2. LifecycleTypeOK'
    BY <2>1
  <2>3. LifeStages'
    BY <2>1
  <2>4. LifeListeners'
    BY <2>1
  <2>5. LifeRequests'
    BY <2>1
  <2>6. StoreLeftAlone'
    <3>1. store # "open" => timers = "left"
      <4>1. store # "open" => stage \in {"load", "open", "close"}
        BY <1>15
      <4>2. timers = "busy" => stage \notin {"load", "open", "close"}
        OBVIOUS
      <4> QED
        BY <2>1, <4>1, <4>2
    <3>2. timers = "left" => "timers" \in abandoned
      OBVIOUS
    <3>3. late \subseteq abandoned
      OBVIOUS
    <3> HIDE DEF LifeInv
    <3> QED
      BY <2>1, <3>1, <3>2, <3>3
  <2> QED
    BY <2>2, <2>3, <2>4, <2>5, <2>6
<1>16. ASSUME NEW s \in Servers, Listen(s) PROVE LifeInv'
  <2>1. PICK result \in {"serving", "refused"} : listener' = [listener EXCEPT ![s] = result]
    BY <1>16 DEF Listen
  <2>2. /\ listener[s] = "starting" /\ listener'[s] \in {"serving", "refused"}
        /\ \A t \in Servers \ {s} : listener'[t] = listener[t]
        /\ listener' \in [Servers -> {"none", "starting", "serving", "refused", "gone"}]
    BY <1>16, <2>1 DEF Listen
  <2>3. UNCHANGED <<stage, wanted, cancelled, store, routine, timers, shutDown, request, abandoned, late>>
    BY <1>16 DEF Listen
  <2>4. LifecycleTypeOK'
    BY <2>2, <2>3
  <2>5. LifeStages'
    BY <2>2, <2>3
  <2>6. LifeListeners'
    BY <2>2, <2>3
  <2>7. LifeRequests'
    BY <2>2, <2>3
  <2>8. StoreLeftAlone'
    BY <2>2, <2>3
  <2> QED
    BY <2>4, <2>5, <2>6, <2>7, <2>8
<1>17. ASSUME NEW s \in Servers, StopServing(s) PROVE LifeInv'
  <2>1. LifecycleTypeOK'
    BY <1>17 DEF StopServing
  <2>2. LifeStages'
    BY <1>17 DEF StopServing
  <2>3. LifeListeners'
    BY <1>17 DEF StopServing
  <2>4. LifeRequests'
    BY <1>17 DEF StopServing
  <2>5. StoreLeftAlone'
    BY <1>17 DEF StopServing
  <2> QED
    BY <2>1, <2>2, <2>3, <2>4, <2>5
<1>18. ASSUME NEW q \in Requests, NEW kind \in {"call", "shutdown"}, Accept(q, kind) PROVE LifeInv'
  BY <1>18 DEF Accept
<1>19. ASSUME NEW q \in Requests, stage # "returned", ReplyCall(q) PROVE LifeInv'
  <2>1. LifecycleTypeOK'
    BY <1>19 DEF ReplyCall, Reply, UseStore
  <2>2. LifeStages'
    BY <1>19 DEF ReplyCall, Reply, UseStore
  <2>3. LifeListeners'
    BY <1>19 DEF ReplyCall, Reply, UseStore
  <2>4. LifeRequests'
    BY <1>19 DEF ReplyCall, Reply, UseStore
  <2>5. StoreLeftAlone'
    BY <1>19 DEF ReplyCall, Reply, UseStore
  <2> QED
    BY <2>1, <2>2, <2>3, <2>4, <2>5
<1>21. ASSUME NEW q \in Requests, ReplyShutdown(q) PROVE LifeInv'
  <2>1. LifecycleTypeOK'
    BY <1>21 DEF ReplyShutdown, Reply
  <2>2. LifeStages'
    BY <1>21 DEF ReplyShutdown, Reply
  <2>3. LifeListeners'
    BY <1>21 DEF ReplyShutdown, Reply
  <2>4. LifeRequests'
    BY <1>21 DEF ReplyShutdown, Reply
  <2>5. StoreLeftAlone'
    BY <1>21 DEF ReplyShutdown, Reply
  <2> QED
    BY <2>1, <2>2, <2>3, <2>4, <2>5
<1>22. CASE Signal
  <2>1. LifecycleTypeOK'
    BY <1>22 DEF Signal
  <2>2. LifeStages'
    BY <1>22 DEF Signal
  <2>3. LifeListeners'
    BY <1>22 DEF Signal
  <2>4. LifeRequests'
    BY <1>22 DEF Signal
  <2>5. StoreLeftAlone'
    BY <1>22 DEF Signal
  <2> QED
    BY <2>1, <2>2, <2>3, <2>4, <2>5
<1>23. CASE RunLoop
  BY <1>23 DEF RunLoop
<1>24. CASE StopControl
  BY <1>24 DEF StopControl
<1>20. ASSUME NEW served \in SUBSET Requests, Drain(served), Served \subseteq served PROVE LifeInv'
  <2>1. /\ stage = "drain control" /\ stage' = "stop metrics" /\ abandoned' = abandoned \cup served
        /\ UNCHANGED <<wanted, cancelled, store, routine, timers, listener, shutDown, request, late>>
    BY <1>20 DEF Drain
  <2>2. LifecycleTypeOK'
    BY <2>1
  <2>3. LifeStages'
    BY <2>1
  <2>4. LifeListeners'
    BY <2>1
  <2>5. LifeRequests'
    BY <1>20, <2>1 DEF Served
  <2>6. StoreLeftAlone'
    BY <2>1
  <2> QED
    BY <2>2, <2>3, <2>4, <2>5, <2>6
<1>25. CASE DrainControl \/ DrainControlTimesOut
  <2>1. Served \subseteq Requests
    BY DEF Served
  <2> QED
    BY <1>20, <1>25, <2>1 DEF DrainControl, DrainControlTimesOut
<1>26. CASE StopMetrics
  BY <1>26 DEF StopMetrics
<1>27. CASE StopTimers
  BY <1>27 DEF StopTimers
<1>32. CASE StopTimersTimesOut
  <2>1. /\ stage = "stop timers" /\ stage' = "join" /\ timers' = "left" /\ abandoned' = abandoned \cup {"timers"}
        /\ UNCHANGED <<wanted, cancelled, store, routine, listener, shutDown, request, late>>
    BY <1>32 DEF StopTimersTimesOut
  <2>2. LifecycleTypeOK'
    BY <2>1
  <2>3. LifeStages'
    BY <2>1
  <2>4. LifeListeners'
    BY <2>1
  <2>5. LifeRequests'
    BY <2>1
  <2>6. StoreLeftAlone'
    BY <2>1
  <2> QED
    BY <2>2, <2>3, <2>4, <2>5, <2>6
<1>28. CASE Join
  BY <1>28 DEF Join
<1>29. CASE Checkpoint
  BY <1>29 DEF Checkpoint
<1>30. CASE Close
  <2>1. LifecycleTypeOK'
    BY <1>30 DEF Close
  <2>2. LifeStages'
    BY <1>30 DEF Close
  <2>3. LifeListeners'
    BY <1>30 DEF Close
  <2>4. LifeRequests'
    BY <1>30 DEF Close
  <2>5. StoreLeftAlone'
    BY <1>30 DEF Close
  <2> QED
    BY <2>1, <2>2, <2>3, <2>4, <2>5
<1>31. CASE UNCHANGED lifeVars
  <2>1. LifecycleTypeOK'
    BY <1>31 DEF lifeVars
  <2>2. LifeStages'
    BY <1>31 DEF lifeVars
  <2>3. LifeListeners'
    BY <1>31 DEF lifeVars
  <2>4. LifeRequests'
    BY <1>31 DEF lifeVars
  <2>5. StoreLeftAlone'
    BY <1>31 DEF lifeVars
  <2> QED
    BY <2>1, <2>2, <2>3, <2>4, <2>5
<1> HIDE DEF LifeInv
<1> QED
  BY <1>1, <1>2, <1>3, <1>4, <1>5, <1>6, <1>7, <1>8, <1>9, <1>10, <1>11, <1>12, <1>13, <1>14, <1>15, <1>16,
     <1>17, <1>18, <1>19, <1>20, <1>21, <1>22, <1>23, <1>24, <1>25, <1>26, <1>27, <1>28, <1>29, <1>30, <1>31, <1>32
     DEF LifecycleNext

\* Whatever was started, and wherever the start was given up, what the teardown waits
\* for has been told to end, and only what it gave up waiting for, a request after five
\* seconds or a job after the stop timeout of gocron, uses the store after its
\* checkpoint (runDaemon, the Shutdown of the control server and of gocron).
THEOREM TeardownInOrderCorrect == LifecycleSpec => []TeardownInOrder
<1>1. LifeInv => TeardownInOrder
  BY DEF LifeInv, LifeListeners, TeardownInOrder, JoinReturns, Told, Servers
<1> QED
  BY <1>1, LifeInit, LifeStep, PTL DEF LifecycleSpec

-----------------------------------------------------------------------------
(* Ownership: one task at a time, and the hosts that are too fast.         *)

\* What a task may be, and a site.
WorkState == [pc : {"idle", "sync", "resolve", "set", "disable", "rates", "floors", "apply", "refresh",
               "verify", "fetch", "save", "write"},
         snap : SUBSET Domains, sites : SUBSET Domains, at : Domains \cup {NoSite}, seen : Tiers,
         method : Methods \cup {NoMethod}, hosts : SUBSET Domains, demoted : BOOLEAN,
         missed : SUBSET Misses, alone : BOOLEAN]

RowState == [known : BOOLEAN, enabled : BOOLEAN, tier : Tiers, method : Methods \cup {NoMethod}, pace : {"full", "floor"}]

\* The types, with the site that a step is about.
OwnTypes ==
  /\ life \in {"down", "starting", "serving"}
  /\ config \subseteq Domains /\ loaded \subseteq Domains /\ trusted \subseteq Domains
  /\ row \in [Domains -> RowState]
  /\ rate \in [Domains -> {"full", "floor"}]
  /\ task \in [Jobs -> WorkState]
  /\ tangled \in BOOLEAN
  /\ \A j \in Jobs : task[j].pc \in {"resolve", "set", "apply", "fetch", "save", "write"} => task[j].at \in Domains

\* A host is not crawled faster than its site has earned.
Slow(s) == row[s].enabled /\ row[s].tier # "verified" => rate[s] = "floor"
AllSlow == \A s \in Domains : Slow(s)

\* What a task has still to do about the hosts that are too fast.
WorkSlow(j) ==
  /\ task[j].pc \in {"verify", "fetch", "save"} /\ ~task[j].demoted => AllSlow
  /\ task[j].pc = "floors" => \A s \in Domains \ task[j].sites : Slow(s)
  /\ task[j].pc = "apply" => /\ task[j].seen \in {row[task[j].at].tier, "throttled"}
                             /\ \A s \in Domains \ (task[j].sites \cup {task[j].at}) : Slow(s)
  /\ task[j].pc = "refresh" => AllSlow

\* Without a check, a failed reload or an overlap there is one task at a time, and it
\* knows of every host that is too fast.
Untangled ==
  /\ Free(Checker)
  /\ \A i, j \in Jobs : i # j => Free(i) \/ Free(j)
  /\ life = "down" => \A j \in Jobs : Free(j)
  /\ Quiet => AllSlow
  /\ \A j \in Jobs : WorkSlow(j)

OwnInv == OwnTypes /\ (~tangled => Untangled)

\* A task that moves leaves the others where they are.
LEMMA OwnMoved ==
  ASSUME task \in [Jobs -> WorkState], NEW j \in Jobs, NEW w \in WorkState, Continue(j, w)
  PROVE  task' \in [Jobs -> WorkState] /\ task'[j] = w /\ \A i \in Jobs \ {j} : task'[i] = task[i]
BY DEF Continue

\* A task goes on alone unless the history is tangled, so that only its own claims
\* have to be shown again.
LEMMA OwnGoesOn ==
  ASSUME OwnInv, NEW j \in Jobs, task[j].pc # "idle", NEW w \in WorkState, Continue(j, w),
         tangled' \in BOOLEAN, ~tangled' => ~tangled,
         life' \in {"down", "starting", "serving"}, life' = life \/ life' = "serving",
         config' \subseteq Domains, loaded' \subseteq Domains, trusted' \subseteq Domains,
         row' \in [Domains -> RowState], rate' \in [Domains -> {"full", "floor"}],
         w.pc \in {"resolve", "set", "apply", "fetch", "save", "write"} => w.at \in Domains,
         ~tangled /\ ~tangled' => (w.pc = "idle" => AllSlow') /\ WorkSlow(j)'
  PROVE  OwnInv'
<1>1. task' \in [Jobs -> WorkState] /\ task'[j] = w /\ \A i \in Jobs \ {j} : task'[i] = task[i]
  BY OwnMoved DEF OwnInv, OwnTypes
<1>2. OwnTypes'
  BY <1>1 DEF OwnInv, OwnTypes
<1>3. ASSUME ~tangled' PROVE Untangled'
  <2>1. Untangled /\ ~tangled
    BY <1>3 DEF OwnInv
  <2>2. j # Checker /\ \A i \in Jobs \ {j} : task[i].pc = "idle"
    BY <2>1 DEF Untangled, Free
  <2>3. \A i \in Jobs \ {j} : task'[i].pc = "idle"
    BY <1>1, <2>2
  <2>4. Checker \in Jobs
    BY DEF Jobs
  <2>5. \A i \in Jobs : WorkSlow(i)'
    BY <1>3, <2>1, <2>3 DEF WorkSlow
  <2>6. life' # "down"
    BY <2>1 DEF Untangled, Free
  <2>7. Quiet' => AllSlow'
    BY <1>1, <1>3, <2>1 DEF Quiet, Free
  <2> QED
    BY <2>2, <2>3, <2>4, <2>5, <2>6, <2>7 DEF Untangled, Free
<1> QED
  BY <1>2, <1>3 DEF OwnInv

\* A task starts: if the history is not tangled it is the only one.
LEMMA OwnStarts ==
  ASSUME OwnInv, NEW j \in Jobs, ~tangled => Free(j), NEW w \in WorkState, Launch(j, w),
         life' \in {"down", "starting", "serving"}, j # Checker => life' # "down",
         config' \subseteq Domains, loaded' \subseteq Domains, UNCHANGED <<row, rate, trusted>>,
         w.pc \in {"sync", "verify", "write"}, w.pc = "write" => w.at \in Domains,
         w.pc = "verify" /\ ~tangled => life = "serving"
  PROVE  OwnInv'
<1>0. task \in [Jobs -> WorkState] /\ tangled \in BOOLEAN
  BY DEF OwnInv, OwnTypes
<1>1. /\ task'[j].pc = w.pc /\ task'[j].at = w.at
      /\ \A i \in Jobs \ {j} : task'[i].pc = task[i].pc /\ task'[i].at = task[i].at
      /\ task' \in [Jobs -> WorkState] /\ tangled' \in BOOLEAN
  <2> DEFINE others == {i \in Jobs \ {j} : ~Free(i)}
             first == [w EXCEPT !.alone = others = {}]
             next(i) == [task[i] EXCEPT !.alone = @ /\ Free(i)]
  <2>1. first \in WorkState /\ first.pc = w.pc /\ first.at = w.at
    BY DEF WorkState
  <2>2. ASSUME NEW i \in Jobs
        PROVE  next(i) \in WorkState /\ next(i).pc = task[i].pc /\ next(i).at = task[i].at
    BY <1>0 DEF WorkState, Free
  <2>3. task' = [i \in Jobs |-> IF i = j THEN first ELSE next(i)]
    BY DEF Launch
  <2>4. tangled' \in BOOLEAN
    BY <1>0 DEF Launch
  <2> HIDE DEF first, next, others
  <2> QED
    BY <2>1, <2>2, <2>3, <2>4
<1>2. OwnTypes'
  BY <1>1 DEF OwnInv, OwnTypes
<1>3. ASSUME ~tangled' PROVE Untangled'
  <2>1. j # Checker /\ ~tangled /\ \A i \in Jobs : Free(i)
    BY <1>0, <1>3 DEF Launch
  <2>2. \A i \in Jobs \ {j} : task'[i].pc = "idle"
    BY <1>1, <2>1 DEF Free
  <2>3. w.pc = "verify" => AllSlow
    BY <2>1 DEF OwnInv, Untangled, Quiet
  <2>4. AllSlow' <=> AllSlow
    BY DEF AllSlow, Slow
  <2>5. Checker \in Jobs
    BY DEF Jobs
  <2> QED
    BY <1>1, <2>1, <2>2, <2>3, <2>4, <2>5 DEF Untangled, WorkSlow, Free, Quiet
<1> QED
  BY <1>2, <1>3 DEF OwnInv

\* The works that the actions build are works.
LEMMA NoWorkTyped == NoWork \in WorkState /\ NoWork.pc = "idle"
BY DEF NoWork, WorkState, Tiers

LEMMA ReconcileTyped ==
  ASSUME NEW snap \in SUBSET Domains
  PROVE  /\ Reconcile(snap) \in WorkState /\ Reconcile(snap).pc = "sync"
         /\ [Reconcile(snap) EXCEPT !.alone = FALSE] \in WorkState
         /\ [Reconcile(snap) EXCEPT !.alone = FALSE].pc = "sync"
BY DEF Reconcile, NoWork, WorkState, Tiers

\* Only a verified site is at full speed.
LEMMA OwnSpeed == \A tier : Speed(tier) \in {"full", "floor"} /\ (tier # "verified" => Speed(tier) = "floor")
BY DEF Speed

\* A step of reconcileSites or of what follows it.
LEMMA OwnReconciling ==
  ASSUME OwnInv, NEW j \in Jobs, Reconciling(j)
  PROVE  OwnInv'
<1>0. /\ OwnTypes /\ task[j] \in WorkState /\ (~tangled => WorkSlow(j))
      /\ row \in [Domains -> RowState] /\ rate \in [Domains -> {"full", "floor"}]
  BY DEF OwnInv, OwnTypes, Untangled
<1>1. ASSUME NEW s \in Domains, SyncSite(j, s) PROVE OwnInv'
  <2> DEFINE w == IF row[s].known THEN [task[j] EXCEPT !.pc = "resolve", !.sites = @ \ {s}, !.at = s]
                  ELSE [task[j] EXCEPT !.sites = @ \ {s}]
  <2>1. w \in WorkState /\ w.pc \in {"sync", "resolve"} /\ (w.pc = "resolve" => w.at \in Domains)
    BY <1>0, <1>1 DEF SyncSite, WorkState
  <2>2. row' \in [Domains -> RowState]
    <3> DEFINE r == IF row[s].known THEN [row[s] EXCEPT !.enabled = TRUE]
                    ELSE [NoRow EXCEPT !.known = TRUE, !.enabled = TRUE]
    <3>1. r \in RowState
      BY <1>0 DEF RowState, NoRow, Tiers
    <3>2. row' = [row EXCEPT ![s] = r]
      BY <1>0, <1>1 DEF SyncSite
    <3> HIDE DEF r
    <3> QED
      BY <1>0, <3>1, <3>2
  <2>3. Continue(j, w) /\ task[j].pc = "sync" /\ UNCHANGED <<daemon, rate, trusted>>
    BY <1>1 DEF SyncSite
  <2>4. task'[j] = w
    BY <1>0, <2>1, <2>3, OwnMoved DEF OwnTypes
  <2> QED
    BY <1>0, <2>1, <2>2, <2>3, <2>4, OwnGoesOn DEF WorkSlow, daemon, OwnTypes
<1>2. ASSUME NEW s \in Domains, DisableRemoved(j, s) PROVE OwnInv'
  <2> DEFINE w == [task[j] EXCEPT !.sites = @ \ {s}]
  <2>1. w \in WorkState /\ w.pc = "disable"
    BY <1>0, <1>2 DEF DisableRemoved, WorkState
  <2>2. row' \in [Domains -> RowState]
    <3> DEFINE r == [row[s] EXCEPT !.enabled = FALSE]
    <3>1. r \in RowState
      BY <1>0 DEF RowState
    <3>2. row' = [row EXCEPT ![s] = r]
      BY <1>0, <1>2 DEF DisableRemoved
    <3> HIDE DEF r
    <3> QED
      BY <1>0, <3>1, <3>2
  <2>3. Continue(j, w) /\ task[j].pc = "disable" /\ UNCHANGED <<daemon, rate, trusted>>
    BY <1>2 DEF DisableRemoved
  <2>4. task'[j] = w
    BY <1>0, <2>1, <2>3, OwnMoved DEF OwnTypes
  <2> QED
    BY <1>0, <2>1, <2>2, <2>3, <2>4, OwnGoesOn DEF WorkSlow, daemon, OwnTypes
<1>3. ASSUME NEW s \in Domains, ReadFloor(j, s) PROVE OwnInv'
  <2> DEFINE w == [task[j] EXCEPT !.pc = "apply", !.sites = @ \ {s}, !.at = s, !.seen = row[s].tier]
  <2>1. w \in WorkState /\ w.pc = "apply" /\ w.at = s /\ w.seen = row[s].tier /\ w.sites = task[j].sites \ {s}
    BY <1>0, <1>3 DEF ReadFloor, WorkState, RowState
  <2>2. Continue(j, w) /\ task[j].pc = "floors" /\ UNCHANGED <<daemon, row, rate, trusted>>
    BY <1>3 DEF ReadFloor
  <2>3. task'[j] = w
    BY <1>0, <2>1, <2>2, OwnMoved DEF OwnTypes
  <2>4. ~tangled => WorkSlow(j)'
    BY <1>0, <2>1, <2>2, <2>3 DEF WorkSlow, Slow
  <2> QED
    BY <1>0, <2>1, <2>2, <2>4, OwnGoesOn DEF daemon, OwnTypes
<1>4. ASSUME NEW s \in Domains, ReadHost(j, s) PROVE OwnInv'
  <2> DEFINE w == [task[j] EXCEPT !.sites = @ \ {s}, !.hosts = IF row[s].tier = "verified" THEN @ \cup {s} ELSE @]
  <2>1. w \in WorkState /\ w.pc = "refresh"
    BY <1>0, <1>4 DEF ReadHost, WorkState
  <2>2. Continue(j, w) /\ task[j].pc = "refresh" /\ UNCHANGED <<daemon, row, rate, trusted>>
    BY <1>4 DEF ReadHost
  <2>3. task'[j] = w
    BY <1>0, <2>1, <2>2, OwnMoved DEF OwnTypes
  <2>4. ~tangled => WorkSlow(j)'
    BY <1>0, <2>1, <2>2, <2>3 DEF WorkSlow, AllSlow, Slow
  <2> QED
    BY <1>0, <2>1, <2>2, <2>4, OwnGoesOn DEF daemon, OwnTypes
<1>5. CASE ResolveCrawlForSite(j)
  <2> DEFINE w == [task[j] EXCEPT !.pc = "set", !.seen = row[task[j].at].tier]
  <2>0. task[j].pc = "resolve" /\ task[j].at \in Domains
    BY <1>0, <1>5 DEF ResolveCrawlForSite, OwnTypes
  <2>1. w \in WorkState /\ w.pc = "set" /\ w.at = task[j].at
    BY <1>0, <2>0 DEF WorkState, RowState
  <2>2. Continue(j, w) /\ UNCHANGED <<daemon, row, rate, trusted>>
    BY <1>5 DEF ResolveCrawlForSite
  <2>3. task'[j] = w
    BY <1>0, <2>1, <2>2, OwnMoved DEF OwnTypes
  <2> QED
    BY <1>0, <2>0, <2>1, <2>2, <2>3, OwnGoesOn DEF WorkSlow, daemon, OwnTypes
<1>6. CASE SetSiteThrottle(j)
  <2> DEFINE w == [task[j] EXCEPT !.pc = "sync", !.at = NoSite, !.seen = "throttled"]
  <2>0. task[j].pc = "set" /\ task[j].at \in Domains
    BY <1>0, <1>6 DEF SetSiteThrottle, OwnTypes
  <2>1. w \in WorkState /\ w.pc = "sync"
    BY <1>0 DEF WorkState, Tiers
  <2>2. row' \in [Domains -> RowState]
    <3>1. Speed(task[j].seen) \in {"full", "floor"}
      BY OwnSpeed
    <3> QED
      BY <1>0, <1>6, <2>0, <3>1 DEF SetSiteThrottle, RowState
  <2>3. Continue(j, w) /\ UNCHANGED <<daemon, rate, trusted>>
    BY <1>6 DEF SetSiteThrottle
  <2>4. task'[j] = w
    BY <1>0, <2>1, <2>3, OwnMoved DEF OwnTypes
  <2> QED
    BY <1>0, <2>0, <2>1, <2>2, <2>3, <2>4, OwnGoesOn DEF WorkSlow, daemon, OwnTypes
<1>7. CASE ListRemoved(j)
  <2> DEFINE w == [task[j] EXCEPT !.pc = "disable", !.sites = Enabled \ task[j].snap]
  <2>1. w \in WorkState /\ w.pc = "disable"
    BY <1>0 DEF WorkState, Enabled
  <2>2. Continue(j, w) /\ task[j].pc = "sync" /\ UNCHANGED <<daemon, row, rate, trusted>>
    BY <1>7 DEF ListRemoved
  <2>3. task'[j] = w
    BY <1>0, <2>1, <2>2, OwnMoved DEF OwnTypes
  <2> QED
    BY <1>0, <2>1, <2>2, <2>3, OwnGoesOn DEF WorkSlow, daemon, OwnTypes
<1>8. CASE ListFloors(j)
  <2> DEFINE w == [task[j] EXCEPT !.pc = "floors", !.sites = Enabled]
  <2>1. w \in WorkState /\ w.pc = "floors" /\ w.sites = Enabled
    BY <1>0 DEF WorkState, Enabled
  <2>2. Continue(j, w) /\ task[j].pc \in {"disable", "rates"} /\ UNCHANGED <<daemon, row, rate, trusted>>
    BY <1>8 DEF ListFloors, Reconciled
  <2>3. task'[j] = w
    BY <1>0, <2>1, <2>2, OwnMoved DEF OwnTypes
  <2>4. WorkSlow(j)'
    BY <2>1, <2>2, <2>3 DEF WorkSlow, Slow, Enabled
  <2> QED
    BY <1>0, <2>1, <2>2, <2>4, OwnGoesOn DEF daemon, OwnTypes
<1>9. CASE ApplyThrottleFloor(j)
  <2> DEFINE w == [task[j] EXCEPT !.pc = "floors", !.at = NoSite, !.seen = "throttled"]
  <2>0. PICK s \in Domains : task[j].pc = "apply" /\ s = task[j].at
    BY <1>0, <1>9 DEF ApplyThrottleFloor, OwnTypes
  <2>1. w \in WorkState /\ w.pc = "floors" /\ w.sites = task[j].sites
    BY <1>0 DEF WorkState, Tiers
  <2>2. Continue(j, w) /\ UNCHANGED <<daemon, row, trusted>>
    BY <1>9 DEF ApplyThrottleFloor
  <2>3. /\ rate'[s] = Speed(task[j].seen) /\ \A d \in Domains \ {s} : rate'[d] = rate[d]
        /\ rate' \in [Domains -> {"full", "floor"}]
    BY <1>0, <1>9, <2>0, OwnSpeed DEF ApplyThrottleFloor
  <2>4. task'[j] = w
    BY <1>0, <2>1, <2>2, OwnMoved DEF OwnTypes
  <2>5. ASSUME ~tangled PROVE WorkSlow(j)'
    <3>1. task[j].seen \in {row[s].tier, "throttled"} /\ \A d \in Domains \ (task[j].sites \cup {s}) : Slow(d)
      BY <1>0, <2>0, <2>5 DEF WorkSlow
    <3>2. Slow(s)'
      BY <2>2, <2>3, <3>1, OwnSpeed DEF Slow
    <3>3. \A d \in Domains \ (task[j].sites \cup {s}) : Slow(d)'
      BY <2>2, <2>3, <3>1 DEF Slow
    <3> QED
      BY <2>1, <2>4, <3>2, <3>3 DEF WorkSlow
  <2> QED
    BY <1>0, <2>0, <2>1, <2>2, <2>3, <2>5, OwnGoesOn DEF daemon, OwnTypes
<1>10. CASE ListHosts(j)
  <2> DEFINE w == [task[j] EXCEPT !.pc = "refresh", !.sites = Enabled]
  <2>1. w \in WorkState /\ w.pc = "refresh"
    BY <1>0 DEF WorkState, Enabled
  <2>2. Continue(j, w) /\ task[j].pc = "floors" /\ task[j].sites = {} /\ UNCHANGED <<daemon, row, rate, trusted>>
    BY <1>10 DEF ListHosts
  <2>3. task'[j] = w
    BY <1>0, <2>1, <2>2, OwnMoved DEF OwnTypes
  <2>4. ~tangled => WorkSlow(j)'
    BY <1>0, <2>1, <2>2, <2>3 DEF WorkSlow, AllSlow, Slow
  <2> QED
    BY <1>0, <2>1, <2>2, <2>4, OwnGoesOn DEF daemon, OwnTypes
<1>11. CASE Refresh(j)
  <2>1. Continue(j, NoWork) /\ task[j].pc = "refresh" /\ UNCHANGED <<config, loaded, row, rate, tangled>>
    BY <1>11 DEF Refresh
  <2>2. life' = "serving" /\ trusted' \subseteq Domains
    BY <1>0, <1>11 DEF Refresh, WorkState, OwnTypes
  <2>3. task'[j] = NoWork
    BY <1>0, <2>1, NoWorkTyped, OwnMoved DEF OwnTypes
  <2>4. ~tangled => AllSlow' /\ WorkSlow(j)'
    BY <1>0, <2>1, <2>3, NoWorkTyped DEF WorkSlow, AllSlow, Slow
  <2> QED
    BY <1>0, <2>1, <2>2, <2>4, NoWorkTyped, OwnGoesOn DEF OwnTypes
<1> QED
  BY <1>1, <1>2, <1>3, <1>4, <1>5, <1>6, <1>7, <1>8, <1>9, <1>10, <1>11 DEF Reconciling

\* A step of reverifyAll.
LEMMA OwnReverify ==
  ASSUME OwnInv, Reverify \/ ReverifyFails
  PROVE  OwnInv'
<1> DEFINE j == Reverifier
<1>0. /\ OwnTypes /\ j \in Jobs /\ task[j] \in WorkState /\ (~tangled => WorkSlow(j))
      /\ row \in [Domains -> RowState] /\ rate \in [Domains -> {"full", "floor"}]
  BY DEF OwnInv, OwnTypes, Untangled, Jobs
<1>1. CASE BeginReverify
  <2> DEFINE w == [NoWork EXCEPT !.pc = "verify", !.sites = Enabled]
  <2>1. w \in WorkState /\ w.pc = "verify"
    BY DEF WorkState, NoWork, Tiers, Enabled
  <2>2. Free(j) /\ Launch(j, w) /\ life = "serving" /\ UNCHANGED <<life, config, loaded, row, proof, rate, trusted>>
    BY <1>1 DEF BeginReverify
  <2>3. life' = "serving" /\ config' \subseteq Domains /\ loaded' \subseteq Domains
        /\ UNCHANGED <<row, rate, trusted>>
    BY <1>0, <2>2 DEF OwnTypes
  <2> QED
    BY <1>0, <2>1, <2>2, <2>3, OwnStarts
<1>2. ASSUME NEW s \in Domains, GetVerification(s) PROVE OwnInv'
  <2> DEFINE w == [task[j] EXCEPT !.sites = @ \ {s},
          !.pc = IF row[s].tier # "verified" THEN "verify" ELSE "fetch",
          !.at = IF row[s].tier = "verified" THEN s ELSE NoSite,
          !.method = IF row[s].tier = "verified" THEN row[s].method ELSE NoMethod]
  <2>1. w \in WorkState /\ w.pc \in {"verify", "fetch"} /\ (w.pc = "fetch" => w.at \in Domains)
        /\ w.demoted = task[j].demoted
    BY <1>0, <1>2 DEF WorkState, RowState
  <2>2. Continue(j, w) /\ task[j].pc = "verify" /\ UNCHANGED <<daemon, row, rate, trusted>>
    BY <1>2 DEF GetVerification
  <2>3. task'[j] = w
    BY <1>0, <2>1, <2>2, OwnMoved DEF OwnTypes
  <2>4. ~tangled => WorkSlow(j)'
    BY <1>0, <2>1, <2>2, <2>3 DEF WorkSlow, AllSlow, Slow
  <2> QED
    BY <1>0, <2>1, <2>2, <2>4, OwnGoesOn DEF daemon, OwnTypes
<1>3. CASE FetchProof
  <2>1. PICK w : /\ Continue(j, w) /\ task[j].pc = "fetch" /\ UNCHANGED <<daemon, row, rate, trusted>>
                 /\ \/ w = [task[j] EXCEPT !.pc = "verify", !.at = NoSite, !.method = NoMethod]
                    \/ w = [task[j] EXCEPT !.pc = "save", !.seen = "verified"]
                    \/ w = [task[j] EXCEPT !.pc = "save", !.seen = "throttled"]
    BY <1>3 DEF FetchProof
  <2>2. w \in WorkState /\ w.pc \in {"verify", "save"} /\ (w.pc = "save" => w.at \in Domains)
        /\ w.demoted = task[j].demoted
    <3>1. task[j].at \in Domains
      BY <1>0, <2>1 DEF OwnTypes
    <3> QED
      BY <1>0, <2>1, <3>1 DEF WorkState, Tiers
  <2>3. task'[j] = w
    BY <1>0, <2>1, <2>2, OwnMoved DEF OwnTypes
  <2>4. ~tangled => WorkSlow(j)'
    BY <1>0, <2>1, <2>2, <2>3 DEF WorkSlow, AllSlow, Slow
  <2> QED
    BY <1>0, <2>1, <2>2, <2>4, OwnGoesOn DEF daemon, OwnTypes
<1>4. CASE SaveReverified
  <2> DEFINE w == Saved(task[j], task[j].demoted \/ task[j].seen # "verified")
  <2>0. PICK s \in Domains : task[j].pc = "save" /\ s = task[j].at
    BY <1>0, <1>4 DEF SaveReverified, OwnTypes
  <2>1. w \in WorkState /\ w.pc = "verify" /\ (~w.demoted => ~task[j].demoted /\ task[j].seen = "verified")
    BY <1>0 DEF Saved, WorkState, Tiers
  <2>2. Continue(j, w) /\ UNCHANGED <<daemon, rate, trusted>>
    BY <1>4 DEF SaveReverified
  <2>3. /\ row' \in [Domains -> RowState] /\ row'[s].tier = task[j].seen
        /\ \A d \in Domains \ {s} : row'[d] = row[d]
    BY <1>0, <1>4, <2>0 DEF SaveReverified, RowState, WorkState
  <2>4. task'[j] = w
    BY <1>0, <2>1, <2>2, OwnMoved DEF OwnTypes
  <2>5. ASSUME ~tangled, ~w.demoted PROVE AllSlow'
    <3>1. AllSlow /\ task[j].seen = "verified"
      BY <1>0, <2>0, <2>1, <2>5 DEF WorkSlow
    <3>2. Slow(s)'
      BY <2>3, <3>1 DEF Slow
    <3>3. \A d \in Domains \ {s} : Slow(d)'
      BY <2>2, <2>3, <3>1 DEF AllSlow, Slow
    <3> QED
      BY <3>2, <3>3 DEF AllSlow
  <2>6. ~tangled => WorkSlow(j)'
    BY <2>1, <2>4, <2>5 DEF WorkSlow
  <2> QED
    BY <1>0, <2>0, <2>1, <2>2, <2>3, <2>6, OwnGoesOn DEF daemon, OwnTypes
<1>5. CASE EndReverify
  <2> DEFINE w == IF task[j].demoted THEN [Reconcile(loaded) EXCEPT !.alone = task[j].alone] ELSE NoWork
  <2>1. w \in WorkState /\ w.pc \in {"sync", "idle"} /\ (w.pc = "idle" => ~task[j].demoted)
    <3>1. loaded \subseteq Domains /\ task[j].alone \in BOOLEAN
      BY <1>0 DEF OwnTypes, WorkState
    <3> QED
      BY <1>0, <3>1 DEF NoWork, Reconcile, WorkState, Tiers
  <2>2. Continue(j, w) /\ task[j].pc = "verify" /\ UNCHANGED <<daemon, row, rate, trusted>>
    BY <1>5 DEF EndReverify
  <2>3. task'[j] = w
    BY <1>0, <2>1, <2>2, OwnMoved DEF OwnTypes
  <2>4. ~tangled => WorkSlow(j)' /\ (w.pc = "idle" => AllSlow')
    BY <1>0, <2>1, <2>2, <2>3 DEF WorkSlow, AllSlow, Slow
  <2> QED
    BY <1>0, <2>1, <2>2, <2>4, OwnGoesOn DEF daemon, OwnTypes
<1>6. CASE ReverifyFails
  <2> DEFINE w == Saved(task[j], task[j].demoted)
  <2>1. w \in WorkState /\ w.pc = "verify" /\ w.demoted = task[j].demoted
    BY <1>0 DEF Saved, WorkState, Tiers
  <2>2. /\ Continue(j, w) /\ task[j].pc \in {"fetch", "save"}
        /\ UNCHANGED <<life, config, loaded, row, rate, trusted, tangled>>
    BY <1>6 DEF ReverifyFails
  <2>3. task'[j] = w
    BY <1>0, <2>1, <2>2, OwnMoved DEF OwnTypes
  <2>4. ~tangled => WorkSlow(j)'
    BY <1>0, <2>1, <2>2, <2>3 DEF WorkSlow, AllSlow, Slow
  <2> QED
    BY <1>0, <2>1, <2>2, <2>4, OwnGoesOn DEF OwnTypes
<1> QED
  BY <1>1, <1>2, <1>3, <1>4, <1>5, <1>6 DEF Reverify

\* An error in reconcileSites: a re-verification goes on with the floors, a reload
\* tangles the history.
LEMMA OwnReconcileFails ==
  ASSUME OwnInv, NEW j \in Jobs, ReconcileFails(j)
  PROVE  OwnInv'
<1> DEFINE w == IF j \in Reloaders THEN NoWork
                ELSE [task[j] EXCEPT !.pc = "rates", !.sites = {}, !.at = NoSite, !.seen = "throttled"]
<1>0. OwnTypes /\ task[j] \in WorkState
  BY DEF OwnInv, OwnTypes
<1>1. w \in WorkState /\ w.pc \in {"idle", "rates"} /\ (j \notin Reloaders => w.pc = "rates")
  <2>1. CASE j \in Reloaders
    BY <2>1, NoWorkTyped
  <2>2. CASE j \notin Reloaders
    BY <1>0, <2>2 DEF WorkState, Tiers
  <2> QED
    BY <2>1, <2>2
<1>2. /\ Continue(j, w) /\ task[j].pc # "idle" /\ tangled' = (tangled \/ j # Reverifier)
      /\ UNCHANGED <<life, config, loaded, row, rate, trusted>>
  BY DEF ReconcileFails
<1>3. task'[j] = w
  BY <1>0, <1>1, <1>2, OwnMoved DEF OwnTypes
<1>4. ~tangled' => j \notin Reloaders
  BY <1>2, OwnershipAssumption DEF Reverifier
<1>5. ~tangled' => WorkSlow(j)' /\ w.pc # "idle"
  BY <1>1, <1>2, <1>3, <1>4 DEF WorkSlow
<1> QED
  BY <1>0, <1>1, <1>2, <1>5, OwnGoesOn DEF OwnTypes

\* A read that fails is passed over: a record counts as throttled, which is slow enough;
\* a list of sites without which no rate is installed tangles the history.
LEMMA OwnPassesOver ==
  ASSUME OwnInv, NEW j \in Jobs, RecordUnread(j) \/ SitesUnlisted(j)
  PROVE  OwnInv'
<1>0. /\ OwnTypes /\ task[j] \in WorkState /\ (~tangled => WorkSlow(j))
      /\ row \in [Domains -> RowState] /\ rate \in [Domains -> {"full", "floor"}]
  BY DEF OwnInv, OwnTypes, Untangled
<1> DEFINE without(what, s) == [task[j] EXCEPT !.missed = @ \cup {<<what, s>>}]
<1>1. ASSUME NEW what, NEW s, <<what, s>> \in Misses
      PROVE  /\ without(what, s) \in WorkState
             /\ without(what, s).at = task[j].at /\ without(what, s).sites = task[j].sites
             /\ without(what, s).pc = task[j].pc
  BY <1>0, <1>1 DEF WorkState
<1>2. CASE RecordUnread(j) /\ task[j].pc = "resolve"
  <2> DEFINE v == without("pace", task[j].at)
             w == [v EXCEPT !.pc = "set", !.seen = "throttled"]
  <2>1. Continue(j, w) /\ UNCHANGED <<life, config, loaded, row, rate, trusted, tangled>>
    BY <1>2 DEF RecordUnread
  <2>2. task[j].at \in Domains /\ v \in WorkState /\ v.at = task[j].at
    BY <1>0, <1>1, <1>2 DEF OwnTypes, Misses
  <2> HIDE DEF v
  <2>3. w \in WorkState /\ w.pc = "set" /\ w.at = task[j].at
    BY <2>2 DEF WorkState, Tiers
  <2>4. task'[j] = w
    BY <1>0, <2>1, <2>3, OwnMoved DEF OwnTypes
  <2> QED
    BY <1>0, <1>2, <2>1, <2>2, <2>3, <2>4, OwnGoesOn DEF WorkSlow, OwnTypes
<1>3. CASE RecordUnread(j) /\ task[j].pc = "floors"
  <2>0. PICK s \in task[j].sites :
          /\ Continue(j, [without("rate", s) EXCEPT !.pc = "apply", !.sites = @ \ {s}, !.at = s, !.seen = "throttled"])
          /\ UNCHANGED <<life, config, loaded, row, rate, trusted, tangled>>
    BY <1>3 DEF RecordUnread
  <2> DEFINE v == without("rate", s)
             w == [v EXCEPT !.pc = "apply", !.sites = @ \ {s}, !.at = s, !.seen = "throttled"]
  <2>1. Continue(j, w) /\ UNCHANGED <<life, config, loaded, row, rate, trusted, tangled>>
    BY <2>0
  <2>2. s \in Domains /\ v \in WorkState /\ v.sites = task[j].sites
    BY <1>0, <1>1 DEF WorkState, Misses
  <2> HIDE DEF v
  <2>3. w \in WorkState /\ w.pc = "apply" /\ w.at = s /\ w.seen = "throttled" /\ w.sites = task[j].sites \ {s}
    BY <2>2 DEF WorkState, Tiers
  <2>4. task'[j] = w
    BY <1>0, <2>1, <2>3, OwnMoved DEF OwnTypes
  <2>5. ~tangled => WorkSlow(j)'
    BY <1>0, <1>3, <2>1, <2>3, <2>4 DEF WorkSlow, Slow
  <2> QED
    BY <1>0, <1>3, <2>1, <2>2, <2>3, <2>5, OwnGoesOn DEF OwnTypes
<1>4. CASE RecordUnread(j) /\ task[j].pc = "refresh"
  <2>0. PICK s \in task[j].sites :
          /\ Continue(j, [without("trust", s) EXCEPT !.sites = @ \ {s}])
          /\ UNCHANGED <<life, config, loaded, row, rate, trusted, tangled>>
    BY <1>4 DEF RecordUnread
  <2> DEFINE v == without("trust", s)
             w == [v EXCEPT !.sites = @ \ {s}]
  <2>1. Continue(j, w) /\ UNCHANGED <<life, config, loaded, row, rate, trusted, tangled>>
    BY <2>0
  <2>2. s \in Domains /\ v \in WorkState /\ v.pc = "refresh"
    <3>1. s \in Domains
      BY <1>0, <2>0 DEF WorkState
    <3>2. <<"trust", s>> \in Misses
      BY <3>1 DEF Misses
    <3> QED
      BY <1>1, <1>4, <3>1, <3>2
  <2> HIDE DEF v
  <2>3. w \in WorkState /\ w.pc = "refresh"
    BY <2>2 DEF WorkState
  <2>4. task'[j] = w
    BY <1>0, <2>1, <2>3, OwnMoved DEF OwnTypes
  <2>5. ~tangled => WorkSlow(j)'
    BY <1>0, <1>4, <2>1, <2>3, <2>4 DEF WorkSlow, AllSlow, Slow
  <2> QED
    BY <1>0, <1>4, <2>1, <2>3, <2>5, OwnGoesOn DEF OwnTypes
<1>5. CASE SitesUnlisted(j) /\ tangled'
  <2>1. PICK what, w :
          /\ what \in {"rates", "hosts"} /\ Continue(j, w) /\ task[j].pc \in {"disable", "rates", "floors"}
          /\ \/ w = [without(what, NoSite) EXCEPT !.pc = "floors", !.sites = {}]
             \/ w = [without(what, NoSite) EXCEPT !.pc = "refresh"]
          /\ UNCHANGED <<life, config, loaded, row, rate, trusted>>
    BY <1>5 DEF SitesUnlisted, Reconciled
  <2> DEFINE v == without(what, NoSite)
  <2>2. v \in WorkState
    BY <1>1, <2>1 DEF Misses
  <2> HIDE DEF v
  <2>3. w = [v EXCEPT !.pc = "floors", !.sites = {}] \/ w = [v EXCEPT !.pc = "refresh"]
    BY <2>1 DEF v
  <2>4. w \in WorkState /\ w.pc \in {"floors", "refresh"}
    BY <2>2, <2>3 DEF WorkState
  <2> QED
    BY <1>0, <1>5, <2>1, <2>4, OwnGoesOn DEF OwnTypes
<1>6. CASE SitesUnlisted(j) /\ ~tangled'
  <2> DEFINE v == without("hosts", NoSite)
             w == [v EXCEPT !.pc = "refresh"]
  <2>1. /\ Continue(j, w) /\ task[j].pc = "floors" /\ task[j].sites = {}
        /\ UNCHANGED <<life, config, loaded, row, rate, trusted, tangled>>
    BY <1>6 DEF SitesUnlisted
  <2>2. v \in WorkState
    BY <1>1 DEF Misses
  <2> HIDE DEF v
  <2>3. w \in WorkState /\ w.pc = "refresh"
    BY <2>2 DEF WorkState
  <2>4. task'[j] = w
    BY <1>0, <2>1, <2>3, OwnMoved DEF OwnTypes
  <2>5. WorkSlow(j)'
    BY <1>0, <1>6, <2>1, <2>3, <2>4 DEF WorkSlow, AllSlow, Slow
  <2> QED
    BY <1>0, <1>6, <2>1, <2>3, <2>5, OwnGoesOn DEF OwnTypes
<1>7. RecordUnread(j) => task[j].pc \in {"resolve", "floors", "refresh"}
  BY DEF RecordUnread
<1> QED
  BY <1>2, <1>3, <1>4, <1>5, <1>6, <1>7

\* The operator, the web, a crash and a start.
LEMMA OwnOutside ==
  ASSUME OwnInv,
         \/ EditConfig \/ ProofChanges \/ CrashDaemon \/ StartDaemon
         \/ \E j \in Reloaders : Reload(j)
         \/ \E s \in Domains, m \in Methods : BeginCheck(s, m) \/ Attest(s, m)
         \/ SaveCheck
  PROVE  OwnInv'
<1>0. OwnTypes /\ config \in SUBSET Domains
  BY DEF OwnInv, OwnTypes
<1>1. CASE EditConfig
  BY <1>1, <1>0 DEF EditConfig, OwnInv, OwnTypes, Untangled, WorkSlow, AllSlow, Slow, Quiet, Free
<1>2. CASE ProofChanges
  BY <1>2, <1>0 DEF ProofChanges, OwnInv, OwnTypes, Untangled, WorkSlow, AllSlow, Slow, Quiet, Free
<1>3. CASE CrashDaemon
  <2>1. /\ task' = [j \in Jobs |-> NoWork] /\ rate' = [s \in Domains |-> "full"]
        /\ life' = "down" /\ trusted' = {}
        /\ UNCHANGED <<config, loaded, row, tangled>>
    BY <1>3 DEF CrashDaemon
  <2>2. \A j \in Jobs : task'[j].pc = "idle" /\ task'[j] \in WorkState
    BY <2>1, NoWorkTyped
  <2>3. Checker \in Jobs
    BY DEF Jobs
  <2> QED
    BY <1>0, <2>1, <2>2, <2>3, NoWorkTyped DEF OwnInv, OwnTypes, Untangled, WorkSlow, Quiet, Free
<1>4. CASE StartDaemon
  <2>1. /\ life = "down" /\ life' = "starting" /\ loaded' = config /\ Launch(Reverifier, Reconcile(config))
        /\ UNCHANGED <<config, row, rate, trusted>>
    BY <1>4 DEF StartDaemon
  <2>2. ~tangled => Free(Reverifier)
    BY <2>1 DEF OwnInv, Untangled, Jobs
  <2> QED
    BY <1>0, <2>1, <2>2, ReconcileTyped, OwnStarts DEF Jobs, Checker, Reverifier
<1>5. ASSUME NEW j \in Reloaders, Reload(j) PROVE OwnInv'
  <2>1. /\ life = "serving" /\ life' = "serving" /\ loaded' = config /\ Free(j) /\ Launch(j, Reconcile(config))
        /\ UNCHANGED <<config, row, rate, trusted>>
    BY <1>5 DEF Reload
  <2> QED
    BY <1>0, <2>1, ReconcileTyped, OwnStarts DEF Jobs
<1>6. ASSUME NEW s \in Domains, NEW m \in Methods, BeginCheck(s, m) PROVE OwnInv'
  <2> DEFINE w == [NoWork EXCEPT !.pc = "write", !.at = s, !.method = m,
                     !.seen = IF proof[s][m] = "placed" THEN "verified" ELSE "throttled"]
  <2>1. w \in WorkState /\ w.pc = "write" /\ w.at = s
    BY DEF NoWork, WorkState, Tiers
  <2>2. /\ Free(Checker) /\ Launch(Checker, w)
        /\ UNCHANGED <<life, config, loaded, row, proof, rate, trusted>>
    BY <1>6 DEF BeginCheck
  <2>3. Checker \in Jobs /\ life' \in {"down", "starting", "serving"} /\ config' \subseteq Domains
        /\ loaded' \subseteq Domains /\ UNCHANGED <<row, rate, trusted>>
    BY <1>0, <2>2 DEF Jobs, OwnTypes
  <2> QED
    BY <2>1, <2>2, <2>3, OwnStarts
<1>7. ASSUME NEW s \in Domains, NEW m \in Methods, Attest(s, m) PROVE OwnInv'
  <2>1. tangled' = TRUE /\ UNCHANGED <<life, config, loaded, rate, trusted>>
    BY <1>7 DEF Attest
  <2>2. row' \in [Domains -> RowState]
    BY <1>0, <1>7 DEF Attest, OwnTypes, RowState, Tiers
  <2>3. /\ task' \in [Jobs -> WorkState]
        /\ \A j \in Jobs : task'[j].pc = task[j].pc /\ task'[j].at = task[j].at
    <3>1. task' = [j \in Jobs |-> [task[j] EXCEPT !.alone = @ /\ Free(j)]]
      BY <1>7 DEF Attest
    <3>2. ASSUME NEW j \in Jobs
          PROVE  /\ [task[j] EXCEPT !.alone = @ /\ Free(j)] \in WorkState
                 /\ [task[j] EXCEPT !.alone = @ /\ Free(j)].pc = task[j].pc
                 /\ [task[j] EXCEPT !.alone = @ /\ Free(j)].at = task[j].at
      <4>1. task[j] \in WorkState /\ (task[j].alone /\ Free(j)) \in BOOLEAN
        BY <1>0 DEF OwnTypes, WorkState, Free
      <4> QED
        BY <4>1 DEF WorkState
    <3> QED
      BY <3>1, <3>2
  <2> QED
    BY <1>0, <2>1, <2>2, <2>3 DEF OwnInv, OwnTypes
<1>8. CASE SaveCheck
  <2> DEFINE work == task[Checker]
  <2>0. Checker \in Jobs /\ work \in WorkState /\ (~tangled => Free(Checker))
    BY <1>0 DEF Jobs, OwnInv, OwnTypes, Untangled
  <2>1. PICK s \in Domains : work.pc = "write" /\ s = work.at
    BY <1>0, <1>8, <2>0 DEF SaveCheck, OwnTypes
  <2>2. PICK w : /\ Continue(Checker, w) /\ loaded' \in {loaded, config}
                 /\ w = NoWork \/ w = [Reconcile(config) EXCEPT !.alone = FALSE]
    BY <1>8 DEF SaveCheck
  <2>3. w \in WorkState /\ w.pc \in {"idle", "sync"}
    BY <1>0, <2>2, NoWorkTyped, ReconcileTyped
  <2>4. row' \in [Domains -> RowState]
    <3>1. work.seen \in Tiers /\ work.method \in Methods \cup {NoMethod} /\ row \in [Domains -> RowState]
      BY <1>0, <2>0 DEF WorkState, OwnTypes
    <3>2. row' = [row EXCEPT ![work.at].tier = work.seen, ![work.at].method = work.method]
      BY <1>8 DEF SaveCheck
    <3> QED
      BY <2>1, <3>1, <3>2 DEF RowState
  <2>5. UNCHANGED <<life, config, rate, trusted, tangled>>
    BY <1>8 DEF SaveCheck
  <2> QED
    BY <1>0, <2>0, <2>1, <2>2, <2>3, <2>4, <2>5, OwnGoesOn DEF OwnTypes, Free
<1> QED
  BY <1>1, <1>2, <1>3, <1>4, <1>5, <1>6, <1>7, <1>8

\* The initial state satisfies it: nothing serves, and nothing is being done.
LEMMA OwnInit == OwnershipInit => OwnInv
<1> SUFFICES ASSUME OwnershipInit PROVE OwnInv
  OBVIOUS
<1>1. task = [j \in Jobs |-> NoWork]
  BY DEF OwnershipInit
<1>2. \A j \in Jobs : task[j].pc = "idle" /\ task[j] \in WorkState
  BY <1>1, NoWorkTyped
<1>3. row \in [Domains -> RowState]
  <2>1. NoRow \in RowState /\ Removed \in RowState /\ \A m \in Methods : Proven(m) \in RowState
    BY DEF NoRow, Removed, Proven, RowState, Tiers
  <2> QED
    BY <2>1 DEF OwnershipInit
<1> QED
  BY <1>1, <1>2, <1>3, NoWorkTyped
     DEF OwnershipInit, OwnInv, OwnTypes, Untangled, WorkSlow, Free, Quiet, Jobs

\* Every step preserves it.
LEMMA OwnStep == OwnInv /\ [OwnershipNext]_ownVars => OwnInv'
<1> SUFFICES ASSUME OwnInv, [OwnershipNext]_ownVars PROVE OwnInv'
  OBVIOUS
<1>1. CASE UNCHANGED ownVars
  BY <1>1 DEF ownVars, OwnInv, OwnTypes, Untangled, WorkSlow, AllSlow, Slow, Quiet, Free
<1>2. CASE OwnershipNext
  BY <1>2, OwnReconciling, OwnReconcileFails, OwnPassesOver, OwnReverify, OwnOutside DEF OwnershipNext
<1> QED
  BY <1>1, <1>2

\* Whatever crash or failed write comes between the record of a demotion and the rate
\* of the host, between its jobs the daemon crawls no unverified site at full speed
\* (reconcileSites, installThrottleFloors, reverifyAll).
THEOREM DemotedIsSlowCorrect == OwnershipSpec => []DemotedIsSlow
<1>1. OwnInv => DemotedIsSlow
  BY DEF OwnInv, Untangled, AllSlow, Slow, DemotedIsSlow, Enabled, Free, Quiet
<1> QED
  BY <1>1, OwnInit, OwnStep, PTL DEF OwnershipSpec

-----------------------------------------------------------------------------
(* Ownership: what a reload that nothing overlapped has done so far.       *)

\* A site as a reload leaves it in the table.
Tabled(s, missed) == row[s].enabled /\ Paced(s, missed)

\* What a task may have seen of the tier of a site, when a failed read counts as throttled.
TierSeen(j, what) ==
  \/ task[j].seen = row[task[j].at].tier
  \/ task[j].seen = "throttled" /\ <<what, task[j].at>> \in task[j].missed

\* A task is alone if no other one runs.
AloneInv ==
  \A j \in Jobs : task[j].alone /\ ~Free(j) => \A i \in Jobs \ {j} : Free(i)

\* What a reload has done so far.
ReloadDone(j) ==
  LET work == task[j]
      snap == work.snap
  IN /\ snap = loaded
     /\ work.pc \in {"sync", "resolve", "set", "disable", "floors", "apply", "refresh"}
     /\ work.pc # "refresh" => work.hosts = {}
     /\ work.pc # "disable" => work.sites \subseteq snap
     /\ work.pc = "sync" => \A s \in snap \ work.sites : Tabled(s, work.missed)
     /\ work.pc \in {"resolve", "set"} =>
          /\ row[work.at].enabled
          /\ \A s \in snap \ (work.sites \cup {work.at}) : Tabled(s, work.missed)
     /\ work.pc = "set" => TierSeen(j, "pace")
     /\ work.pc = "apply" => TierSeen(j, "rate")
     /\ work.pc \in {"disable", "floors", "apply", "refresh"} => \A s \in snap : Tabled(s, work.missed)
     /\ work.pc = "disable" => Enabled \ snap \subseteq work.sites /\ work.sites \cap snap = {}
     /\ work.pc \in {"floors", "apply", "refresh"} => Enabled = snap
     /\ work.pc = "floors" => \A s \in snap \ work.sites : Rated(s, work.missed)
     /\ work.pc = "apply" => \A s \in snap \ (work.sites \cup {work.at}) : Rated(s, work.missed)
     /\ work.pc = "refresh" =>
          /\ \A s \in snap : Rated(s, work.missed)
          /\ work.hosts \cap work.sites = {}
          /\ \A s \in snap \ work.sites : Trusted(s, work.hosts, work.missed)

ReloadInv ==
  /\ AloneInv
  /\ \A j \in Reloaders : task[j].alone /\ ~Free(j) => ReloadDone(j)

\* A task goes on: if it is alone it is the only one, and only a reload has more
\* to show.
LEMMA ReloadGoesOn ==
  ASSUME OwnTypes, ReloadInv, NEW j \in Jobs, ~Free(j), NEW w \in WorkState, Continue(j, w),
         w.pc # "idle" /\ w.alone => task[j].alone,
         j \in Reloaders /\ w.pc # "idle" /\ w.alone => ReloadDone(j)'
  PROVE  ReloadInv'
<1>1. task'[j] = w /\ \A i \in Jobs \ {j} : task'[i] = task[i]
  BY OwnMoved DEF OwnTypes
<1>2. AloneInv
  BY DEF ReloadInv
<1>3. ASSUME NEW i \in Jobs \ {j} PROVE ~(task'[i].alone /\ task'[i].pc # "idle")
  BY <1>1, <1>2, <1>3 DEF AloneInv, Free
<1>4. AloneInv'
  BY <1>1, <1>2, <1>3 DEF AloneInv, Free
<1>5. ASSUME NEW i \in Reloaders, task'[i].alone, task'[i].pc # "idle" PROVE ReloadDone(i)'
  <2>1. i \in Jobs
    BY DEF Jobs
  <2>2. i = j
    BY <1>3, <1>5, <2>1
  <2> QED
    BY <1>1, <1>5, <2>2
<1> QED
  BY <1>4, <1>5 DEF ReloadInv, Free

\* A task that starts is alone only if no other one runs, and no other one is then.
LEMMA ReloadStarts ==
  ASSUME OwnTypes, ReloadInv, NEW j \in Jobs, NEW w \in WorkState, Launch(j, w),
         j \in Reloaders => ReloadDone(j)'
  PROVE  ReloadInv'
<1> DEFINE others == {i \in Jobs \ {j} : ~Free(i)}
           first == [w EXCEPT !.alone = others = {}]
           next(i) == [task[i] EXCEPT !.alone = @ /\ Free(i)]
<1>1. first.alone <=> others = {}
  BY DEF WorkState
<1>2. ASSUME NEW i \in Jobs
      PROVE  next(i).pc = task[i].pc /\ (next(i).alone => Free(i))
  <2>1. task[i] \in WorkState
    BY DEF OwnTypes
  <2> QED
    BY <2>1 DEF WorkState
<1>3. task' = [i \in Jobs |-> IF i = j THEN first ELSE next(i)]
  BY DEF Launch
<1>4. others = {} => \A i \in Jobs \ {j} : Free(i)
  OBVIOUS
<1> HIDE DEF first, next, others
<1>5. ASSUME NEW i \in Jobs \ {j} PROVE task'[i].pc = task[i].pc /\ ~(task'[i].alone /\ task'[i].pc # "idle")
  BY <1>2, <1>3 DEF Free
<1>6. task'[j].alone => \A i \in Jobs \ {j} : Free(i)
  BY <1>1, <1>3, <1>4
<1>7. AloneInv'
  BY <1>5, <1>6 DEF AloneInv, Free
<1>8. ASSUME NEW i \in Reloaders, task'[i].alone, task'[i].pc # "idle" PROVE ReloadDone(i)'
  <2>1. i \in Jobs
    BY DEF Jobs
  <2>2. i = j
    BY <1>5, <1>8, <2>1
  <2> QED
    BY <2>2
<1> QED
  BY <1>7, <1>8 DEF ReloadInv, Free

\* A step of reconcileSites or of what follows it brings a reload closer to its end.
LEMMA ReloadReconciles ==
  ASSUME OwnTypes, ReloadInv, NEW j \in Jobs, Reconciling(j)
  PROVE  ReloadInv'
<1> DEFINE work == task[j]
           snap == task[j].snap
<1>0. /\ work \in WorkState /\ row \in [Domains -> RowState] /\ rate \in [Domains -> {"full", "floor"}]
      /\ work.pc \in {"resolve", "set", "apply"} => work.at \in Domains
      /\ snap \subseteq Domains /\ work.sites \subseteq Domains
      /\ work.alone /\ work.pc # "idle" /\ j \in Reloaders => ReloadDone(j)
  BY DEF OwnTypes, ReloadInv, WorkState, Free
<1>m. PICK missed : missed = work.missed
  OBVIOUS
<1>1. ASSUME NEW s \in Domains, SyncSite(j, s) PROVE ReloadInv'
  <2> DEFINE w == IF row[s].known THEN [task[j] EXCEPT !.pc = "resolve", !.sites = @ \ {s}, !.at = s]
                  ELSE [task[j] EXCEPT !.sites = @ \ {s}]
             r == IF row[s].known THEN [row[s] EXCEPT !.enabled = TRUE]
                  ELSE [NoRow EXCEPT !.known = TRUE, !.enabled = TRUE]
  <2>1. /\ work.pc = "sync" /\ s \in work.sites /\ Continue(j, w) /\ row' = [row EXCEPT ![s] = r]
        /\ UNCHANGED <<loaded, rate>>
    BY <1>0, <1>1 DEF SyncSite, daemon
  <2>2. /\ w \in WorkState /\ w.snap = snap /\ w.hosts = work.hosts /\ w.sites = work.sites \ {s}
        /\ w.alone = work.alone /\ w.missed = missed
        /\ w.pc = (IF row[s].known THEN "resolve" ELSE "sync")
        /\ row[s].known => w.at = s
    BY <1>0, <1>m, <2>1 DEF WorkState
  <2>3. /\ r.enabled
        /\ ~row[s].known => r.tier = "throttled" /\ r.pace = "floor"
    BY <1>0 DEF RowState, NoRow
  <2> HIDE DEF w, r
  <2>4. task'[j] = w
    BY <1>0, <2>1, <2>2, OwnMoved DEF OwnTypes
  <2>5. row'[s] = r /\ \A t \in Domains \ {s} : row'[t] = row[t]
    BY <1>0, <2>1
  <2>6. ~row[s].known => Tabled(s, missed)'
    BY <2>3, <2>5 DEF Tabled, Paced, Speed
  <2>7. ASSUME j \in Reloaders, work.alone PROVE ReloadDone(j)'
    <3>1. ReloadDone(j)
      BY <1>0, <2>1, <2>7
    <3>2. snap = loaded /\ work.hosts = {} /\ work.sites \subseteq snap /\ \A t \in snap \ work.sites : Tabled(t, missed)
      BY <1>m, <2>1, <3>1 DEF ReloadDone, Tabled, Paced, Rated, Trusted, TierSeen
    <3>3. \A t \in (snap \ work.sites) \ {s} : Tabled(t, missed)'
      BY <1>0, <2>5, <3>2 DEF Tabled, Paced
    <3> QED
      BY <1>m, <2>1, <2>2, <2>3, <2>4, <2>5, <2>6, <3>2, <3>3 DEF ReloadDone, Tabled, Paced, Rated, Trusted, TierSeen
  <2> QED
    BY <2>1, <2>2, <2>7, ReloadGoesOn DEF Free
<1>2. ASSUME NEW s \in Domains, DisableRemoved(j, s) PROVE ReloadInv'
  <2> DEFINE w == [task[j] EXCEPT !.sites = @ \ {s}]
             r == [row[s] EXCEPT !.enabled = FALSE]
  <2>1. /\ work.pc = "disable" /\ s \in work.sites /\ Continue(j, w) /\ row' = [row EXCEPT ![s] = r]
        /\ UNCHANGED <<loaded, rate>>
    BY <1>0, <1>2 DEF DisableRemoved, daemon
  <2>2. /\ w \in WorkState /\ w.snap = snap /\ w.hosts = work.hosts /\ w.sites = work.sites \ {s}
        /\ w.alone = work.alone /\ w.missed = missed /\ w.pc = "disable"
    BY <1>0, <1>m, <2>1 DEF WorkState
  <2>3. ~r.enabled
    BY <1>0 DEF RowState
  <2> HIDE DEF w, r
  <2>4. task'[j] = w
    BY <1>0, <2>1, <2>2, OwnMoved DEF OwnTypes
  <2>5. row'[s] = r /\ \A t \in Domains \ {s} : row'[t] = row[t]
    BY <1>0, <2>1
  <2>7. ASSUME j \in Reloaders, work.alone PROVE ReloadDone(j)'
    <3>1. ReloadDone(j)
      BY <1>0, <2>1, <2>7
    <3>2. /\ snap = loaded /\ work.hosts = {} /\ \A t \in snap : Tabled(t, missed)
          /\ Enabled \ snap \subseteq work.sites /\ work.sites \cap snap = {}
      BY <1>m, <2>1, <3>1 DEF ReloadDone, Tabled, Paced, Rated, Trusted, TierSeen
    <3>3. \A t \in snap : Tabled(t, missed)'
      BY <1>0, <2>1, <2>5, <3>2 DEF Tabled, Paced
    <3>4. Enabled' \ snap \subseteq work.sites \ {s}
      BY <2>3, <2>5, <3>2 DEF Enabled
    <3> QED
      BY <1>m, <2>1, <2>2, <2>4, <3>2, <3>3, <3>4 DEF ReloadDone, Tabled, Paced, Rated, Trusted, TierSeen
  <2> QED
    BY <2>1, <2>2, <2>7, ReloadGoesOn DEF Free
<1>3. ASSUME NEW s \in Domains, ReadFloor(j, s) PROVE ReloadInv'
  <2> DEFINE w == [task[j] EXCEPT !.pc = "apply", !.sites = @ \ {s}, !.at = s, !.seen = row[s].tier]
  <2>1. work.pc = "floors" /\ s \in work.sites /\ Continue(j, w) /\ UNCHANGED <<loaded, row, rate>>
    BY <1>3 DEF ReadFloor, daemon
  <2>2. /\ w \in WorkState /\ w.snap = snap /\ w.hosts = work.hosts /\ w.sites = work.sites \ {s}
        /\ w.alone = work.alone /\ w.missed = missed /\ w.pc = "apply" /\ w.at = s /\ w.seen = row[s].tier
    BY <1>0, <1>m, <2>1 DEF WorkState, RowState
  <2> HIDE DEF w
  <2>4. task'[j] = w
    BY <1>0, <2>1, <2>2, OwnMoved DEF OwnTypes
  <2>7. ASSUME j \in Reloaders, work.alone PROVE ReloadDone(j)'
    <3>1. ReloadDone(j)
      BY <1>0, <2>1, <2>7
    <3> QED
      BY <1>m, <2>1, <2>2, <2>4, <3>1 DEF ReloadDone, Tabled, Paced, Rated, Enabled, Trusted, TierSeen
  <2> QED
    BY <2>1, <2>2, <2>7, ReloadGoesOn DEF Free
<1>4. ASSUME NEW s \in Domains, ReadHost(j, s) PROVE ReloadInv'
  <2> DEFINE w == [task[j] EXCEPT !.sites = @ \ {s}, !.hosts = IF row[s].tier = "verified" THEN @ \cup {s} ELSE @]
  <2>1. work.pc = "refresh" /\ s \in work.sites /\ Continue(j, w) /\ UNCHANGED <<loaded, row, rate>>
    BY <1>4 DEF ReadHost, daemon
  <2>2. /\ w \in WorkState /\ w.snap = snap /\ w.sites = work.sites \ {s}
        /\ w.hosts = (IF row[s].tier = "verified" THEN work.hosts \cup {s} ELSE work.hosts)
        /\ w.alone = work.alone /\ w.missed = missed /\ w.pc = "refresh"
    BY <1>0, <1>m, <2>1 DEF WorkState
  <2> HIDE DEF w
  <2>4. task'[j] = w
    BY <1>0, <2>1, <2>2, OwnMoved DEF OwnTypes
  <2>7. ASSUME j \in Reloaders, work.alone PROVE ReloadDone(j)'
    <3>1. ReloadDone(j)
      BY <1>0, <2>1, <2>7
    <3> QED
      BY <1>m, <2>1, <2>2, <2>4, <3>1 DEF ReloadDone, Tabled, Paced, Rated, Enabled, Trusted, TierSeen
  <2> QED
    BY <2>1, <2>2, <2>7, ReloadGoesOn DEF Free
<1>5. CASE ResolveCrawlForSite(j)
  <2> DEFINE w == [task[j] EXCEPT !.pc = "set", !.seen = row[task[j].at].tier]
  <2>1. work.pc = "resolve" /\ Continue(j, w) /\ UNCHANGED <<loaded, row, rate>>
    BY <1>5 DEF ResolveCrawlForSite, daemon
  <2>2. /\ w \in WorkState /\ w.snap = snap /\ w.sites = work.sites /\ w.hosts = work.hosts
        /\ w.alone = work.alone /\ w.missed = missed /\ w.pc = "set" /\ w.at = work.at /\ w.seen = row[work.at].tier
    BY <1>0, <1>m, <2>1 DEF WorkState, RowState
  <2> HIDE DEF w
  <2>4. task'[j] = w
    BY <1>0, <2>1, <2>2, OwnMoved DEF OwnTypes
  <2>7. ASSUME j \in Reloaders, work.alone PROVE ReloadDone(j)'
    <3>1. ReloadDone(j)
      BY <1>0, <2>1, <2>7
    <3> QED
      BY <1>m, <2>1, <2>2, <2>4, <3>1 DEF ReloadDone, Tabled, Paced, Rated, Trusted, TierSeen
  <2> QED
    BY <2>1, <2>2, <2>7, ReloadGoesOn DEF Free
<1>6. CASE SetSiteThrottle(j)
  <2> DEFINE w == [task[j] EXCEPT !.pc = "sync", !.at = NoSite, !.seen = "throttled"]
  <2>0. PICK s \in Domains : task[j].pc = "set" /\ s = task[j].at
    BY <1>0, <1>6 DEF SetSiteThrottle
  <2> DEFINE r == [row[s] EXCEPT !.pace = Speed(task[j].seen)]
  <2>1. work.pc = "set" /\ Continue(j, w) /\ row' = [row EXCEPT ![s] = r] /\ UNCHANGED <<loaded, rate>>
    BY <1>6, <2>0 DEF SetSiteThrottle, daemon
  <2>2. /\ w \in WorkState /\ w.snap = snap /\ w.sites = work.sites /\ w.hosts = work.hosts
        /\ w.alone = work.alone /\ w.missed = missed /\ w.pc = "sync"
    BY <1>0, <1>m, <2>1 DEF WorkState, Tiers
  <2>3. r.enabled = row[s].enabled /\ r.tier = row[s].tier /\ r.pace = Speed(task[j].seen)
    BY <1>0 DEF RowState
  <2> HIDE DEF w, r
  <2>4. task'[j] = w
    BY <1>0, <2>1, <2>2, OwnMoved DEF OwnTypes
  <2>5. row'[s] = r /\ \A t \in Domains \ {s} : row'[t] = row[t]
    BY <1>0, <2>1
  <2>7. ASSUME j \in Reloaders, work.alone PROVE ReloadDone(j)'
    <3>1. ReloadDone(j)
      BY <1>0, <2>1, <2>7
    <3>2. /\ snap = loaded /\ work.hosts = {} /\ work.sites \subseteq snap
          /\ row[s].enabled
          /\ work.seen = row[s].tier \/ (work.seen = "throttled" /\ <<"pace", s>> \in missed)
          /\ \A t \in snap \ (work.sites \cup {s}) : Tabled(t, missed)
      BY <1>m, <2>0, <3>1 DEF ReloadDone, Tabled, Paced, Rated, Trusted, TierSeen
    <3>3. Tabled(s, missed)'
      BY <2>3, <2>5, <3>2, OwnSpeed DEF Tabled, Paced
    <3>4. \A t \in snap \ work.sites : Tabled(t, missed)'
      BY <1>0, <2>5, <3>2, <3>3 DEF Tabled, Paced
    <3> QED
      BY <1>m, <2>1, <2>2, <2>4, <3>2, <3>4 DEF ReloadDone, Tabled, Paced, Rated, Trusted, TierSeen
  <2> QED
    BY <2>1, <2>2, <2>7, ReloadGoesOn DEF Free
<1>7. CASE ListRemoved(j)
  <2> DEFINE w == [task[j] EXCEPT !.pc = "disable", !.sites = Enabled \ task[j].snap]
  <2>1. work.pc = "sync" /\ work.sites = {} /\ Continue(j, w) /\ UNCHANGED <<loaded, row, rate>>
    BY <1>7 DEF ListRemoved, daemon
  <2>2. /\ w \in WorkState /\ w.snap = snap /\ w.sites = Enabled \ snap /\ w.hosts = work.hosts
        /\ w.alone = work.alone /\ w.missed = missed /\ w.pc = "disable"
    BY <1>0, <1>m, <2>1 DEF WorkState, Enabled
  <2> HIDE DEF w
  <2>4. task'[j] = w
    BY <1>0, <2>1, <2>2, OwnMoved DEF OwnTypes
  <2>7. ASSUME j \in Reloaders, work.alone PROVE ReloadDone(j)'
    <3>1. ReloadDone(j)
      BY <1>0, <2>1, <2>7
    <3>2. Enabled' = Enabled /\ \A s \in snap : Tabled(s, missed)'
      BY <1>m, <2>1, <3>1 DEF ReloadDone, Tabled, Paced, Enabled, Rated, Trusted, TierSeen
    <3> QED
      BY <1>m, <2>1, <2>2, <2>4, <3>1, <3>2 DEF ReloadDone, Tabled, Paced, Rated, Trusted, TierSeen
  <2> QED
    BY <2>1, <2>2, <2>7, ReloadGoesOn DEF Free
<1>8. CASE ListFloors(j)
  <2> DEFINE w == [task[j] EXCEPT !.pc = "floors", !.sites = Enabled]
  <2>1. /\ work.pc = "rates" \/ (work.pc = "disable" /\ work.sites = {})
        /\ Continue(j, w) /\ UNCHANGED <<loaded, row, rate>>
    BY <1>8 DEF ListFloors, Reconciled, daemon
  <2>2. /\ w \in WorkState /\ w.snap = snap /\ w.sites = Enabled /\ w.hosts = work.hosts
        /\ w.alone = work.alone /\ w.missed = missed /\ w.pc = "floors"
    BY <1>0, <1>m, <2>1 DEF WorkState, Enabled
  <2> HIDE DEF w
  <2>4. task'[j] = w
    BY <1>0, <2>1, <2>2, OwnMoved DEF OwnTypes
  <2>7. ASSUME j \in Reloaders, work.alone PROVE ReloadDone(j)'
    <3>1. ReloadDone(j)
      BY <1>0, <2>1, <2>7
    <3>2. snap \subseteq Enabled /\ Enabled \subseteq snap
      BY <1>m, <1>0, <2>1, <3>1 DEF ReloadDone, Tabled, Paced, Enabled, Rated, Trusted, TierSeen
    <3>3. Enabled' = Enabled /\ \A s \in snap : Tabled(s, missed)'
      BY <1>m, <2>1, <3>1 DEF ReloadDone, Tabled, Paced, Enabled, Rated, Trusted, TierSeen
    <3> QED
      BY <1>m, <2>1, <2>2, <2>4, <3>1, <3>2, <3>3 DEF ReloadDone, Tabled, Paced, Rated, Trusted, TierSeen
  <2> QED
    BY <2>1, <2>2, <2>7, ReloadGoesOn DEF Free
<1>9. CASE ApplyThrottleFloor(j)
  <2> DEFINE w == [task[j] EXCEPT !.pc = "floors", !.at = NoSite, !.seen = "throttled"]
  <2>0. PICK s \in Domains : task[j].pc = "apply" /\ s = task[j].at
    BY <1>0, <1>9 DEF ApplyThrottleFloor
  <2>1. work.pc = "apply" /\ Continue(j, w) /\ rate' = [rate EXCEPT ![s] = Speed(work.seen)] /\ UNCHANGED <<loaded, row>>
    BY <1>9, <2>0 DEF ApplyThrottleFloor, daemon
  <2>2. /\ w \in WorkState /\ w.snap = snap /\ w.sites = work.sites /\ w.hosts = work.hosts
        /\ w.alone = work.alone /\ w.missed = missed /\ w.pc = "floors"
    BY <1>0, <1>m, <2>1 DEF WorkState, Tiers
  <2> HIDE DEF w
  <2>4. task'[j] = w
    BY <1>0, <2>1, <2>2, OwnMoved DEF OwnTypes
  <2>5. rate'[s] = Speed(work.seen) /\ \A t \in Domains \ {s} : rate'[t] = rate[t]
    BY <1>0, <2>1
  <2>7. ASSUME j \in Reloaders, work.alone PROVE ReloadDone(j)'
    <3>1. ReloadDone(j)
      BY <1>0, <2>1, <2>7
    <3>2. /\ work.seen = row[s].tier \/ (work.seen = "throttled" /\ <<"rate", s>> \in missed)
          /\ \A t \in snap \ (work.sites \cup {s}) : Rated(t, missed)
      BY <1>m, <2>0, <3>1 DEF ReloadDone, Tabled, Paced, Rated, Trusted, TierSeen
    <3>3. \A t \in snap \ work.sites : Rated(t, missed)'
      BY <1>0, <2>1, <2>5, <3>2, OwnSpeed DEF Rated
    <3>4. Enabled' = Enabled /\ \A t \in snap : Tabled(t, missed)'
      BY <1>m, <2>1, <3>1 DEF ReloadDone, Tabled, Paced, Enabled, Rated, Trusted, TierSeen
    <3> QED
      BY <1>m, <2>1, <2>2, <2>4, <3>1, <3>3, <3>4 DEF ReloadDone, Tabled, Paced, Rated, Trusted, TierSeen
  <2> QED
    BY <2>1, <2>2, <2>7, ReloadGoesOn DEF Free
<1>10. CASE ListHosts(j)
  <2> DEFINE w == [task[j] EXCEPT !.pc = "refresh", !.sites = Enabled]
  <2>1. work.pc = "floors" /\ work.sites = {} /\ Continue(j, w) /\ UNCHANGED <<loaded, row, rate>>
    BY <1>10 DEF ListHosts, daemon
  <2>2. /\ w \in WorkState /\ w.snap = snap /\ w.sites = Enabled /\ w.hosts = work.hosts
        /\ w.alone = work.alone /\ w.missed = missed /\ w.pc = "refresh"
    BY <1>0, <1>m, <2>1 DEF WorkState, Enabled
  <2> HIDE DEF w
  <2>4. task'[j] = w
    BY <1>0, <2>1, <2>2, OwnMoved DEF OwnTypes
  <2>7. ASSUME j \in Reloaders, work.alone PROVE ReloadDone(j)'
    <3>1. ReloadDone(j)
      BY <1>0, <2>1, <2>7
    <3>2. Enabled' = Enabled /\ (\A s \in snap : Tabled(s, missed)') /\ \A s \in snap : Rated(s, missed)'
      BY <1>m, <2>1, <3>1 DEF ReloadDone, Tabled, Paced, Rated, Enabled, Trusted, TierSeen
    <3> QED
      BY <1>m, <2>1, <2>2, <2>4, <3>1, <3>2 DEF ReloadDone, Tabled, Paced, Rated, Trusted, TierSeen
  <2> QED
    BY <2>1, <2>2, <2>7, ReloadGoesOn DEF Free
<1>11. CASE Refresh(j)
  BY <1>11, NoWorkTyped, ReloadGoesOn DEF Refresh, Free
<1> QED
  BY <1>1, <1>2, <1>3, <1>4, <1>5, <1>6, <1>7, <1>8, <1>9, <1>10, <1>11 DEF Reconciling

\* A read that fails is recorded, and its site, or all of them, is excused from then on.
LEMMA ReloadPassesOver ==
  ASSUME OwnTypes, ReloadInv, NEW j \in Jobs, RecordUnread(j) \/ SitesUnlisted(j)
  PROVE  ReloadInv'
<1> DEFINE work == task[j]
           snap == task[j].snap
<1>0. /\ work \in WorkState /\ row \in [Domains -> RowState] /\ rate \in [Domains -> {"full", "floor"}]
      /\ work.pc \in {"resolve", "set", "apply"} => work.at \in Domains
      /\ snap \subseteq Domains /\ work.sites \subseteq Domains
      /\ work.alone /\ work.pc # "idle" /\ j \in Reloaders => ReloadDone(j)
  BY DEF OwnTypes, ReloadInv, WorkState, Free
<1>1. PICK missed : missed = work.missed
  OBVIOUS
<1>2. UNCHANGED <<loaded, row, rate>>
  BY DEF RecordUnread, SitesUnlisted
<1> DEFINE without(what, s) == [task[j] EXCEPT !.missed = @ \cup {<<what, s>>}]
<1>3. ASSUME NEW what, NEW s, <<what, s>> \in Misses
      PROVE  /\ without(what, s) \in WorkState
             /\ without(what, s) = [work EXCEPT !.missed = missed \cup {<<what, s>>}]
  BY <1>0, <1>1, <1>3 DEF WorkState
<1>4. ASSUME NEW what, NEW s, <<what, s>> \in Misses
      PROVE  /\ without(what, s).at = work.at /\ without(what, s).sites = work.sites /\ without(what, s).snap = snap
             /\ without(what, s).pc = work.pc /\ without(what, s).hosts = work.hosts
             /\ without(what, s).alone = work.alone /\ without(what, s).missed = missed \cup {<<what, s>>}
  BY <1>0, <1>1, <1>4 DEF WorkState
<1>5. CASE RecordUnread(j) /\ work.pc = "resolve"
  <2> DEFINE v == without("pace", work.at)
             w == [v EXCEPT !.pc = "set", !.seen = "throttled"]
             more == missed \cup {<<"pace", work.at>>}
  <2>1. Continue(j, w)
    BY <1>5 DEF RecordUnread
  <2>2. <<"pace", work.at>> \in Misses
    BY <1>0, <1>5 DEF Misses
  <2>3. /\ v \in WorkState /\ v.at = work.at /\ v.sites = work.sites /\ v.snap = snap /\ v.hosts = work.hosts
        /\ v.alone = work.alone /\ v.missed = more
    BY <1>3, <1>4, <2>2
  <2> HIDE DEF v
  <2>4. /\ w \in WorkState /\ w.pc = "set" /\ w.at = work.at /\ w.sites = work.sites /\ w.snap = snap
        /\ w.hosts = work.hosts /\ w.alone = work.alone /\ w.missed = more /\ w.seen = "throttled"
    BY <2>3 DEF WorkState, Tiers
  <2> HIDE DEF w
  <2>5. task'[j] = w
    BY <2>1, <2>4, OwnMoved DEF OwnTypes
  <2>6. ASSUME j \in Reloaders, work.alone PROVE ReloadDone(j)'
    <3>1. ReloadDone(j)
      BY <1>0, <1>5, <2>6
    <3> QED
      BY <1>1, <1>2, <1>5, <2>4, <2>5, <3>1 DEF ReloadDone, Tabled, Paced, TierSeen
  <2> QED
    BY <1>5, <2>1, <2>4, <2>6, ReloadGoesOn DEF Free
<1>6. CASE RecordUnread(j) /\ work.pc = "floors"
  <2>0. PICK s \in work.sites :
          Continue(j, [without("rate", s) EXCEPT !.pc = "apply", !.sites = @ \ {s}, !.at = s, !.seen = "throttled"])
    BY <1>6 DEF RecordUnread
  <2> DEFINE v == without("rate", s)
             w == [v EXCEPT !.pc = "apply", !.sites = @ \ {s}, !.at = s, !.seen = "throttled"]
             more == missed \cup {<<"rate", s>>}
  <2>1. Continue(j, w)
    BY <2>0
  <2>2. s \in Domains /\ <<"rate", s>> \in Misses
    BY <1>0, <2>0 DEF Misses
  <2>3. /\ v \in WorkState /\ v.sites = work.sites /\ v.snap = snap /\ v.hosts = work.hosts
        /\ v.alone = work.alone /\ v.missed = more
    BY <1>3, <1>4, <2>2
  <2> HIDE DEF v
  <2>4. /\ w \in WorkState /\ w.pc = "apply" /\ w.at = s /\ w.sites = work.sites \ {s} /\ w.snap = snap
        /\ w.hosts = work.hosts /\ w.alone = work.alone /\ w.missed = more /\ w.seen = "throttled"
    BY <2>2, <2>3 DEF WorkState, Tiers
  <2> HIDE DEF w
  <2>5. task'[j] = w
    BY <2>1, <2>4, OwnMoved DEF OwnTypes
  <2>6. ASSUME j \in Reloaders, work.alone PROVE ReloadDone(j)'
    <3>1. ReloadDone(j)
      BY <1>0, <1>6, <2>6
    <3>2. /\ snap = loaded /\ work.hosts = {} /\ work.sites \subseteq snap /\ Enabled = snap
          /\ \A t \in snap : Tabled(t, missed)
          /\ \A t \in snap \ work.sites : Rated(t, missed)
      BY <1>1, <1>6, <3>1 DEF ReloadDone
    <3>3. Enabled' = Enabled
      BY <1>2 DEF Enabled
    <3>4. \A t \in snap : Tabled(t, more)'
      BY <1>2, <3>2 DEF Tabled, Paced
    <3>5. \A t \in snap \ work.sites : Rated(t, more)'
      BY <1>2, <3>2 DEF Rated
    <3> QED
      BY <1>2, <2>4, <2>5, <3>2, <3>3, <3>4, <3>5 DEF ReloadDone, TierSeen, Tabled, Paced, Rated
  <2> QED
    BY <1>6, <2>1, <2>4, <2>6, ReloadGoesOn DEF Free
<1>7. CASE RecordUnread(j) /\ work.pc = "refresh"
  <2>0. PICK s \in work.sites : Continue(j, [without("trust", s) EXCEPT !.sites = @ \ {s}])
    BY <1>7 DEF RecordUnread
  <2> DEFINE v == without("trust", s)
             w == [v EXCEPT !.sites = @ \ {s}]
             more == missed \cup {<<"trust", s>>}
  <2>1. Continue(j, w)
    BY <2>0
  <2>2. s \in Domains /\ <<"trust", s>> \in Misses
    BY <1>0, <2>0 DEF Misses
  <2>3. /\ v \in WorkState /\ v.pc = "refresh" /\ v.sites = work.sites /\ v.snap = snap /\ v.hosts = work.hosts
        /\ v.alone = work.alone /\ v.missed = more
    BY <1>3, <1>4, <1>7, <2>2
  <2> HIDE DEF v
  <2>4. /\ w \in WorkState /\ w.pc = "refresh" /\ w.sites = work.sites \ {s} /\ w.snap = snap
        /\ w.hosts = work.hosts /\ w.alone = work.alone /\ w.missed = more
    BY <2>3 DEF WorkState
  <2> HIDE DEF w
  <2>5. task'[j] = w
    BY <2>1, <2>4, OwnMoved DEF OwnTypes
  <2>6. ASSUME j \in Reloaders, work.alone PROVE ReloadDone(j)'
    <3>1. ReloadDone(j)
      BY <1>0, <1>7, <2>6
    <3>2. /\ snap = loaded /\ work.sites \subseteq snap /\ Enabled = snap
          /\ \A t \in snap : Tabled(t, missed)
          /\ \A t \in snap : Rated(t, missed)
          /\ work.hosts \cap work.sites = {}
          /\ \A t \in snap \ work.sites : Trusted(t, work.hosts, missed)
      BY <1>1, <1>7, <3>1 DEF ReloadDone
    <3>3. Enabled' = Enabled
      BY <1>2 DEF Enabled
    <3>4. \A t \in snap : Tabled(t, more)' /\ Rated(t, more)'
      BY <1>2, <3>2 DEF Tabled, Paced, Rated
    <3>5. \A t \in (snap \ work.sites) \cup {s} : Trusted(t, work.hosts, more)
      BY <2>0, <3>2 DEF Trusted
    <3>6. PICK hosts : hosts = work.hosts
      OBVIOUS
    <3>7. \A t \in (snap \ work.sites) \cup {s} : Trusted(t, hosts, more)'
      BY <1>2, <3>5, <3>6 DEF Trusted
    <3> QED
      BY <1>2, <2>4, <2>5, <3>2, <3>3, <3>4, <3>6, <3>7 DEF ReloadDone, Tabled, Paced, Rated, Trusted
  <2> QED
    BY <1>7, <2>1, <2>4, <2>6, ReloadGoesOn DEF Free
<1>8. CASE SitesUnlisted(j) /\ Reconciled(j)
  <2> DEFINE v == without("rates", NoSite)
             w == [v EXCEPT !.pc = "floors", !.sites = {}]
             more == missed \cup {<<"rates", NoSite>>}
  <2>1. Continue(j, w) /\ work.pc \in {"disable", "rates"}
    BY <1>8 DEF SitesUnlisted, Reconciled
  <2>2. <<"rates", NoSite>> \in Misses
    BY DEF Misses
  <2>3. /\ v \in WorkState /\ v.snap = snap /\ v.hosts = work.hosts
        /\ v.alone = work.alone /\ v.missed = more
    BY <1>3, <1>4, <2>2
  <2> HIDE DEF v
  <2>4. /\ w \in WorkState /\ w.pc = "floors" /\ w.sites = {} /\ w.snap = snap
        /\ w.hosts = work.hosts /\ w.alone = work.alone /\ w.missed = more
    BY <2>3 DEF WorkState
  <2> HIDE DEF w
  <2>5. task'[j] = w
    BY <2>1, <2>4, OwnMoved DEF OwnTypes
  <2>6. ASSUME j \in Reloaders, work.alone PROVE ReloadDone(j)'
    <3>1. ReloadDone(j)
      BY <1>0, <2>1, <2>6
    <3>2. /\ snap = loaded /\ work.hosts = {} /\ \A t \in snap : Tabled(t, missed)
          /\ Enabled \ snap = {}
      BY <1>1, <1>8, <2>1, <3>1 DEF ReloadDone, Reconciled
    <3>3. snap \subseteq Enabled
      BY <1>0, <3>2 DEF Tabled, Enabled
    <3>4. Enabled' = snap
      BY <1>2, <3>2, <3>3 DEF Enabled
    <3>5. \A t \in snap : Tabled(t, more)' /\ Rated(t, more)'
      BY <1>2, <3>2 DEF Tabled, Paced, Rated
    <3> QED
      BY <1>2, <2>4, <2>5, <3>2, <3>4, <3>5 DEF ReloadDone, Tabled, Paced, Rated
  <2> QED
    BY <2>1, <2>4, <2>6, ReloadGoesOn DEF Free
<1>9. CASE SitesUnlisted(j) /\ ~Reconciled(j)
  <2> DEFINE v == without("hosts", NoSite)
             w == [v EXCEPT !.pc = "refresh"]
             more == missed \cup {<<"hosts", NoSite>>}
  <2>1. Continue(j, w) /\ work.pc = "floors" /\ work.sites = {}
    BY <1>9 DEF SitesUnlisted
  <2>2. <<"hosts", NoSite>> \in Misses
    BY DEF Misses
  <2>3. /\ v \in WorkState /\ v.snap = snap /\ v.hosts = work.hosts /\ v.sites = work.sites
        /\ v.alone = work.alone /\ v.missed = more
    BY <1>3, <1>4, <2>2
  <2> HIDE DEF v
  <2>4. /\ w \in WorkState /\ w.pc = "refresh" /\ w.sites = {} /\ w.snap = snap
        /\ w.hosts = work.hosts /\ w.alone = work.alone /\ w.missed = more
    BY <2>1, <2>3 DEF WorkState
  <2> HIDE DEF w
  <2>5. task'[j] = w
    BY <2>1, <2>4, OwnMoved DEF OwnTypes
  <2>6. ASSUME j \in Reloaders, work.alone PROVE ReloadDone(j)'
    <3>1. ReloadDone(j)
      BY <1>0, <2>1, <2>6
    <3>2. /\ snap = loaded /\ Enabled = snap /\ \A t \in snap : Tabled(t, missed)
          /\ \A t \in snap : Rated(t, missed)
      BY <1>1, <2>1, <3>1 DEF ReloadDone
    <3>3. Enabled' = Enabled
      BY <1>2 DEF Enabled
    <3>4. \A t \in snap : Tabled(t, more)' /\ Rated(t, more)'
      BY <1>2, <3>2 DEF Tabled, Paced, Rated
    <3> QED
      BY <1>2, <2>4, <2>5, <3>2, <3>3, <3>4 DEF ReloadDone, Tabled, Paced, Rated, Trusted
  <2> QED
    BY <2>1, <2>4, <2>6, ReloadGoesOn DEF Free
<1>10. RecordUnread(j) => work.pc \in {"resolve", "floors", "refresh"}
  BY DEF RecordUnread
<1> QED
  BY <1>5, <1>6, <1>7, <1>8, <1>9, <1>10

\* What a step of the re-verification or of a check leaves alone is still alone.
LEMMA ReloadBeside ==
  ASSUME OwnTypes, ReloadInv,
         \/ \E j \in Jobs : ReconcileFails(j)
         \/ Reverify \/ ReverifyFails \/ SaveCheck
  PROVE  ReloadInv'
<1>0. /\ Reverifier \in Jobs /\ Reverifier \notin Reloaders
      /\ Checker \in Jobs /\ Checker \notin Reloaders
      /\ task[Reverifier] \in WorkState /\ task[Checker] \in WorkState /\ config \in SUBSET Domains
      /\ loaded \in SUBSET Domains
  BY OwnershipAssumption DEF OwnTypes, Jobs, Reverifier, Checker
<1>1. ASSUME NEW w, Continue(Reverifier, w), w \in WorkState, w.alone = task[Reverifier].alone \/ w.pc = "idle",
             ~Free(Reverifier)
      PROVE  ReloadInv'
  BY <1>0, <1>1, ReloadGoesOn
<1>2. ASSUME NEW j \in Jobs, ReconcileFails(j) PROVE ReloadInv'
  <2> DEFINE w == IF j \in Reloaders THEN NoWork
                  ELSE [task[j] EXCEPT !.pc = "rates", !.sites = {}, !.at = NoSite, !.seen = "throttled"]
  <2>1. task[j] \in WorkState /\ Continue(j, w) /\ ~Free(j)
    BY <1>2 DEF ReconcileFails, OwnTypes, Free
  <2>2. w \in WorkState /\ (j \in Reloaders => w.pc = "idle") /\ (w.alone => task[j].alone \/ w.pc = "idle")
    <3>1. CASE j \in Reloaders
      BY <3>1, NoWorkTyped
    <3>2. CASE j \notin Reloaders
      BY <2>1, <3>2 DEF WorkState, Tiers
    <3> QED
      BY <3>1, <3>2
  <2> HIDE DEF w
  <2> QED
    BY <2>1, <2>2, ReloadGoesOn
<1>3. CASE BeginReverify
  <2> DEFINE w == [NoWork EXCEPT !.pc = "verify", !.sites = Enabled]
  <2>1. w \in WorkState
    BY DEF NoWork, WorkState, Enabled, Tiers
  <2> HIDE DEF w
  <2> QED
    BY <1>0, <1>3, <2>1, ReloadStarts DEF BeginReverify, w
<1>4. ASSUME NEW s \in Domains, GetVerification(s) PROVE ReloadInv'
  <2> DEFINE w == [task[Reverifier] EXCEPT !.sites = @ \ {s},
                     !.pc = IF row[s].tier # "verified" THEN "verify" ELSE "fetch",
                     !.at = IF row[s].tier = "verified" THEN s ELSE NoSite,
                     !.method = IF row[s].tier = "verified" THEN row[s].method ELSE NoMethod]
  <2>1. w \in WorkState /\ w.alone = task[Reverifier].alone
    BY <1>0 DEF WorkState, RowState, OwnTypes
  <2>2. Continue(Reverifier, w) /\ ~Free(Reverifier)
    BY <1>4 DEF GetVerification, Free
  <2> QED
    BY <1>1, <2>1, <2>2
<1>5. CASE FetchProof
  <2> DEFINE shown == proof[task[Reverifier].at][task[Reverifier].method]
             w == IF shown = "unreachable"
                  THEN [task[Reverifier] EXCEPT !.pc = "verify", !.at = NoSite, !.method = NoMethod]
                  ELSE [task[Reverifier] EXCEPT !.pc = "save", !.seen = IF shown = "placed" THEN "verified" ELSE "throttled"]
  <2>1. w \in WorkState /\ w.alone = task[Reverifier].alone
    BY <1>0 DEF WorkState, Tiers
  <2>2. Continue(Reverifier, w) /\ ~Free(Reverifier)
    BY <1>5 DEF FetchProof, Free
  <2> QED
    BY <1>1, <2>1, <2>2
<1>6. CASE SaveReverified \/ ReverifyFails
  <2>1. PICK demoted \in BOOLEAN : Continue(Reverifier, Saved(task[Reverifier], demoted))
    <3>1. task[Reverifier].demoted \in BOOLEAN /\ (task[Reverifier].demoted \/ task[Reverifier].seen # "verified") \in BOOLEAN
      BY <1>0 DEF WorkState
    <3> QED
      BY <1>6, <3>1 DEF SaveReverified, ReverifyFails
  <2>2. Saved(task[Reverifier], demoted) \in WorkState /\ Saved(task[Reverifier], demoted).alone = task[Reverifier].alone
    BY <1>0 DEF Saved, WorkState, Tiers
  <2>3. ~Free(Reverifier)
    BY <1>6 DEF SaveReverified, ReverifyFails, Free
  <2> QED
    BY <1>1, <2>1, <2>2, <2>3
<1>7. CASE EndReverify
  <2> DEFINE w == IF task[Reverifier].demoted THEN [Reconcile(loaded) EXCEPT !.alone = task[Reverifier].alone]
                  ELSE NoWork
  <2>1. w \in WorkState /\ (w.alone = task[Reverifier].alone \/ w.pc = "idle")
    <3>1. Reconcile(loaded) \in WorkState /\ task[Reverifier].alone \in BOOLEAN
      BY <1>0, ReconcileTyped DEF WorkState
    <3>2. ASSUME NEW work \in WorkState, NEW b \in BOOLEAN
          PROVE  [work EXCEPT !.alone = b] \in WorkState /\ [work EXCEPT !.alone = b].alone = b
      BY DEF WorkState
    <3> QED
      BY <3>1, <3>2, NoWorkTyped
  <2>2. Continue(Reverifier, w) /\ ~Free(Reverifier)
    BY <1>7 DEF EndReverify, Free
  <2> QED
    BY <1>1, <2>1, <2>2
<1>8. CASE SaveCheck
  <2> DEFINE again == [Reconcile(config) EXCEPT !.alone = FALSE]
  <2>1. PICK w : (w = NoWork \/ w = again) /\ Continue(Checker, w) /\ ~Free(Checker)
    BY <1>8 DEF SaveCheck, Free
  <2>2. again \in WorkState /\ ~again.alone
    BY <1>0, ReconcileTyped DEF WorkState, Reconcile, NoWork
  <2> HIDE DEF again
  <2>3. w \in WorkState /\ (w.pc = "idle" \/ ~w.alone)
    BY <2>1, <2>2, NoWorkTyped
  <2> QED
    BY <1>0, <2>1, <2>3, ReloadGoesOn
<1> QED
  BY <1>2, <1>3, <1>4, <1>5, <1>6, <1>7, <1>8 DEF Reverify

\* What no task does: the operator and the web leave the works as they are, and who
\* attests overlaps them all.
LEMMA ReloadOutside ==
  ASSUME OwnTypes, ReloadInv,
         \/ EditConfig \/ ProofChanges \/ CrashDaemon \/ StartDaemon
         \/ \E j \in Reloaders : Reload(j)
         \/ \E s \in Domains, m \in Methods : BeginCheck(s, m) \/ Attest(s, m)
  PROVE  ReloadInv'
<1>0. Reverifier \in Jobs /\ Checker \in Jobs /\ Reverifier \notin Reloaders /\ Checker \notin Reloaders
      /\ config \in SUBSET Domains
  BY OwnershipAssumption DEF OwnTypes, Jobs, Reverifier, Checker
<1>1. CASE EditConfig \/ ProofChanges
  <2>1. UNCHANGED <<loaded, row, rate, task>>
    BY <1>1 DEF EditConfig, ProofChanges
  <2> QED
    BY <2>1 DEF ReloadInv, AloneInv, ReloadDone, Free, Tabled, TierSeen, Paced, Rated, Trusted, Enabled
<1>2. CASE CrashDaemon
  <2>1. \A j \in Jobs : task'[j].pc = "idle"
    BY <1>2, NoWorkTyped DEF CrashDaemon
  <2> QED
    BY <2>1 DEF ReloadInv, AloneInv, Free, Jobs
<1>3. CASE StartDaemon
  BY <1>0, <1>3, ReconcileTyped, ReloadStarts DEF StartDaemon
<1>4. ASSUME NEW j \in Reloaders, Reload(j) PROVE ReloadInv'
  <2>1. j \in Jobs /\ loaded' = config /\ Launch(j, Reconcile(config))
    BY <1>4 DEF Reload, Jobs
  <2>2. /\ task'[j].pc = "sync" /\ task'[j].snap = config /\ task'[j].sites = config /\ task'[j].hosts = {}
    BY <2>1 DEF Launch, Reconcile, NoWork
  <2>3. ReloadDone(j)'
    BY <2>1, <2>2 DEF ReloadDone
  <2> QED
    BY <1>0, <2>1, <2>3, ReconcileTyped, ReloadStarts
<1>5. ASSUME NEW s \in Domains, NEW m \in Methods, BeginCheck(s, m) PROVE ReloadInv'
  <2> DEFINE w == [NoWork EXCEPT !.pc = "write", !.at = s, !.method = m,
                     !.seen = IF proof[s][m] = "placed" THEN "verified" ELSE "throttled"]
  <2>1. w \in WorkState
    BY DEF NoWork, WorkState, Tiers
  <2>2. Launch(Checker, w)
    BY <1>5 DEF BeginCheck
  <2> HIDE DEF w
  <2> QED
    BY <1>0, <2>1, <2>2, ReloadStarts
<1>6. ASSUME NEW s \in Domains, NEW m \in Methods, Attest(s, m) PROVE ReloadInv'
  <2>1. task' = [j \in Jobs |-> [task[j] EXCEPT !.alone = @ /\ Free(j)]]
    BY <1>6 DEF Attest
  <2>2. ASSUME NEW j \in Jobs PROVE task'[j].pc = task[j].pc /\ (task'[j].alone => Free(j))
    <3>1. task[j] \in WorkState /\ task'[j] = [task[j] EXCEPT !.alone = @ /\ Free(j)]
      BY <2>1 DEF OwnTypes
    <3> QED
      BY <3>1 DEF WorkState
  <2> QED
    BY <2>2 DEF ReloadInv, AloneInv, Free, Jobs
<1> QED
  BY <1>1, <1>2, <1>3, <1>4, <1>5, <1>6

\* Nothing is being done at first.
LEMMA ReloadInit == OwnershipInit => ReloadInv
<1> SUFFICES ASSUME OwnershipInit PROVE ReloadInv
  OBVIOUS
<1>1. \A j \in Jobs : task[j].pc = "idle"
  BY NoWorkTyped DEF OwnershipInit
<1> QED
  BY <1>1 DEF ReloadInv, AloneInv, Free, Jobs

\* Every step preserves it.
LEMMA ReloadStep == OwnTypes /\ ReloadInv /\ [OwnershipNext]_ownVars => ReloadInv'
<1> SUFFICES ASSUME OwnTypes, ReloadInv, [OwnershipNext]_ownVars PROVE ReloadInv'
  OBVIOUS
<1>1. CASE UNCHANGED ownVars
  BY <1>1 DEF ownVars, ReloadInv, AloneInv, ReloadDone, Free, Tabled, TierSeen, Paced, Rated, Trusted, Enabled
<1>2. CASE OwnershipNext
  BY <1>2, ReloadReconciles, ReloadPassesOver, ReloadBeside, ReloadOutside DEF OwnershipNext
<1> QED
  BY <1>1, <1>2

\* Only its last step ends a reload that has read the hosts; a crash ends it too, but
\* then nothing serves.
LEMMA ReloadEnds ==
  ASSUME OwnTypes, OwnershipNext, NEW j \in Reloaders,
         task[j].pc = "refresh", task'[j].pc = "idle", life' = "serving"
  PROVE  Refresh(j)
<1>0. /\ j \in Jobs /\ j # Reverifier /\ j # Checker /\ Reverifier \in Jobs /\ Checker \in Jobs
      /\ task \in [Jobs -> WorkState]
  BY OwnershipAssumption DEF OwnTypes, Jobs, Reverifier, Checker
<1>1. ASSUME NEW i \in Jobs \ {j}, NEW w, Continue(i, w) PROVE FALSE
  BY <1>0, <1>1 DEF Continue
<1>2. ASSUME NEW i \in Jobs, NEW w \in WorkState, Launch(i, w), w.pc # "idle" PROVE FALSE
  <2> DEFINE others == {k \in Jobs \ {i} : ~Free(k)}
             next(k) == [task[k] EXCEPT !.alone = @ /\ Free(k)]
             first == [w EXCEPT !.alone = others = {}]
  <2>1. task' = [k \in Jobs |-> IF k = i THEN first ELSE next(k)]
    BY <1>2 DEF Launch
  <2>2. first.pc = w.pc /\ next(j).pc = task[j].pc
    BY <1>0 DEF WorkState
  <2> HIDE DEF first, next, others
  <2> QED
    BY <1>0, <1>2, <2>1, <2>2
<1>13. ASSUME NEW i \in Jobs, RecordUnread(i) \/ SitesUnlisted(i) PROVE FALSE
  <2>1. i = j
    BY <1>1, <1>13 DEF RecordUnread, SitesUnlisted
  <2>2. RecordUnread(j) /\ \E s \in task[j].sites :
          Continue(j, [[task[j] EXCEPT !.missed = @ \cup {<<"trust", s>>}] EXCEPT !.sites = @ \ {s}])
    BY <1>13, <2>1 DEF RecordUnread, SitesUnlisted, Reconciled
  <2>3. task'[j].pc = "refresh"
    BY <1>0, <2>2 DEF Continue, WorkState
  <2> QED
    BY <2>3
<1>3. CASE EditConfig \/ ProofChanges \/ CrashDaemon
  BY <1>3 DEF EditConfig, ProofChanges, CrashDaemon
<1>4. CASE StartDaemon
  BY <1>0, <1>2, <1>4, ReconcileTyped DEF StartDaemon, OwnTypes
<1>5. ASSUME NEW i \in Reloaders, Reload(i) PROVE FALSE
  BY <1>2, <1>5, ReconcileTyped DEF Reload, OwnTypes, Jobs
<1>6. ASSUME NEW i \in Jobs, Reconciling(i) \/ ReconcileFails(i) PROVE Refresh(j)
  <2>1. i = j
    BY <1>1, <1>6 DEF Reconciling, ReconcileFails, SyncSite, DisableRemoved, ReadFloor, ReadHost, ResolveCrawlForSite,
                      SetSiteThrottle, ListRemoved, ListFloors, ApplyThrottleFloor, ListHosts, Refresh
  <2>2. ASSUME NEW s \in Domains PROVE ~ReadHost(j, s)
    <3>1. ASSUME ReadHost(j, s) PROVE task'[j].pc = "refresh"
      BY <1>0, <3>1 DEF ReadHost, Continue, WorkState
    <3> QED
      BY <3>1
  <2> QED
    BY <1>6, <2>1, <2>2 DEF Reconciling, ReconcileFails, SyncSite, DisableRemoved, ReadFloor, ResolveCrawlForSite,
                            SetSiteThrottle, ListRemoved, ListFloors, Reconciled, ApplyThrottleFloor, ListHosts
<1>7. CASE BeginReverify
  <2> DEFINE w == [NoWork EXCEPT !.pc = "verify", !.sites = Enabled]
  <2>1. w \in WorkState /\ w.pc # "idle"
    BY DEF NoWork, WorkState, Enabled, Tiers
  <2>2. Launch(Reverifier, w)
    BY <1>7 DEF BeginReverify
  <2> HIDE DEF w
  <2> QED
    BY <1>0, <1>2, <2>1, <2>2
<1>8. CASE (\E s \in Domains : GetVerification(s)) \/ FetchProof \/ SaveReverified \/ EndReverify \/ ReverifyFails
  BY <1>0, <1>1, <1>8 DEF GetVerification, FetchProof, SaveReverified, EndReverify, ReverifyFails
<1>9. CASE SaveCheck
  BY <1>0, <1>1, <1>9 DEF SaveCheck
<1>10. ASSUME NEW s \in Domains, NEW m \in Methods, BeginCheck(s, m) PROVE FALSE
  <2> DEFINE w == [NoWork EXCEPT !.pc = "write", !.at = s, !.method = m,
                     !.seen = IF proof[s][m] = "placed" THEN "verified" ELSE "throttled"]
  <2>1. w \in WorkState /\ w.pc # "idle"
    BY DEF NoWork, WorkState, Tiers
  <2>2. Launch(Checker, w)
    BY <1>10 DEF BeginCheck
  <2> HIDE DEF w
  <2> QED
    BY <1>0, <1>2, <2>1, <2>2
<1>11. ASSUME NEW s \in Domains, NEW m \in Methods, Attest(s, m) PROVE FALSE
  BY <1>0, <1>11 DEF Attest, WorkState
<1> QED
  BY <1>3, <1>4, <1>5, <1>6, <1>7, <1>8, <1>9, <1>10, <1>11, <1>13 DEF OwnershipNext, Reverify

\* A reload that nothing overlapped, and that ran to its end, leaves the sites table,
\* the rates of the hosts and the trust in them as config.yaml and the proofs have it
\* (reconcileSites, installThrottleFloors, verifiedHosts.refresh).
THEOREM ReloadSettlesCorrect == OwnershipSpec => ReloadSettles
<1> DEFINE Ends == \A j \in Reloaders :
             /\ task[j].pc = "refresh" /\ task'[j].pc = "idle" /\ life' = "serving"
             /\ task[j].alone
             /\ loaded = config
             => \A missed \in {task[j].missed}, s \in Domains : Settled(s, missed)'
<1>1. OwnTypes /\ ReloadInv /\ [OwnershipNext]_ownVars => [Ends]_ownVars
  <2> SUFFICES ASSUME OwnTypes, ReloadInv, OwnershipNext, NEW j \in Reloaders,
                      task[j].pc = "refresh", task'[j].pc = "idle", life' = "serving", task[j].alone,
                      loaded = config, NEW missed \in {task[j].missed}, NEW s \in Domains
               PROVE  Settled(s, missed)'
    OBVIOUS
  <2>1. Refresh(j)
    BY ReloadEnds
  <2>2. ReloadDone(j)
    BY DEF ReloadInv, Free
  <2>3. /\ task[j].sites = {} /\ UNCHANGED <<config, loaded, row, rate>>
        /\ <<"hosts", NoSite>> \in missed \/ trusted' = task[j].hosts
    BY <2>1 DEF Refresh
  <2>4. /\ Enabled = config
        /\ \A t \in config : Paced(t, missed) /\ Rated(t, missed) /\ Trusted(t, task[j].hosts, missed)
    BY <2>2, <2>3 DEF ReloadDone, Tabled
  <2>5. row[s].enabled <=> s \in config
    BY <2>4 DEF Enabled
  <2> QED
    BY <2>3, <2>4, <2>5 DEF Settled, Paced, Rated, Trusted
<1>2. OwnInv => OwnTypes
  BY DEF OwnInv
<1> QED
  BY <1>1, <1>2, OwnInit, OwnStep, ReloadInit, ReloadStep, PTL DEF OwnershipSpec, ReloadSettles

-----------------------------------------------------------------------------
(* SearchConsole: the daily job.                                           *)

\* The states in which the job is at a page.
AtPage == {"upsert", "compare", "probe", "retract if open", "ingest", "retract"}

JobState ==
  [pc : {"idle", "select", "inspect", "evaluate"} \cup AtPage, ran : BOOLEAN, todo : SUBSET Pages,
   failed : BOOLEAN, signal : Signals, row : Inspection \cup {NoInspection}, strayed : BOOLEAN]

GscTypes ==
  /\ day \in 0..MaxDay
  /\ google \in [Pages -> GoogleStates]
  /\ verdict \in [Pages -> {"uncrawled", "unfetched", "indexable", "noindex"}]
  /\ status \in [Pages -> Inspection \cup {NoInspection}]
  /\ incident \in [Signals -> [open : BOOLEAN, members : SUBSET Pages, updated : Nat]]
  /\ \A s \in Signals : (incident[s].open <=> incident[s].members # {}) /\ incident[s].updated <= day
  /\ gsc \in JobState
  /\ strayed \in [Pages -> BOOLEAN]
  /\ paged \in [Signals -> [Pages -> Nat]]

\* The job is at a page, with the row it has read of it.
GscAtPage ==
  /\ gsc.pc \in AtPage => gsc.todo # {}
  /\ gsc.pc = "compare" => gsc.row # NoInspection

\* An inspection that is not behind quotes a Google that the crawled page has met.
Quotes(inspection, p) ==
  inspection # NoInspection /\ ~inspection.behind /\ Disagree(inspection.index, verdict[p]) => strayed[p]

GscSafe ==
  /\ \A p \in Pages : Disagree(google[p].index, verdict[p]) => strayed[p]
  /\ \A p \in Pages : Quotes(status[p], p)
  /\ gsc.pc \in {"upsert", "compare"} => Quotes(gsc.row, Foremost)
  /\ gsc.pc \in {"probe", "ingest"} /\ gsc.signal = "index_status_discrepancy" => gsc.strayed

GscInv == GscTypes /\ GscAtPage /\ GscSafe

\* The most important page of a set: Foremost is that of the pages left.
Top(S) == CHOOSE p \in S : \A q \in S : Importance[q] <= Importance[p]

LEMMA TopIsIn ==
  ASSUME NEW S, S \subseteq Pages, S # {}
  PROVE  Top(S) \in S
<1> DEFINE Above(q) == {r \in S : Importance[r] > Importance[q]}
           T == {Above(q) : q \in S}
<1>1. IsFiniteSet(S)
  BY FS_Subset, SearchConsoleAssumption
<1>2. T \subseteq FiniteSubsetsOf(S) /\ T # {}
  <2>1. FiniteSubsetsOf(S) = SUBSET S
    BY <1>1, FS_FiniteSubsetsOfFinite
  <2>2. T \subseteq SUBSET S /\ T # {}
    OBVIOUS
  <2> QED
    BY <2>1, <2>2
<1>3. PICK A \in T : \A B \in T : <<B, A>> \notin StrictSubsetOrdering(S)
  <2> HIDE DEF T
  <2> QED
    BY <1>2, WFMin, FS_StrictSubsetOrderingWellFounded
<1>4. PICK q \in S : A = Above(q)
  BY <1>3
<1>5. \A p \in S : Importance[p] \in Nat
  BY SearchConsoleAssumption
<1>6. \A r \in S : Importance[r] <= Importance[q]
  <2> SUFFICES ASSUME NEW r \in S, Importance[r] > Importance[q] PROVE FALSE
    BY <1>5
  <2>1. Above(r) \subseteq Above(q) /\ r \in Above(q) /\ r \notin Above(r)
    BY <1>5
  <2>2. <<Above(r), Above(q)>> \in StrictSubsetOrdering(S)
    BY <2>1 DEF StrictSubsetOrdering
  <2> QED
    BY <1>3, <1>4, <2>2
<1> QED
  BY <1>6 DEF Top

LEMMA ForemostIsTop == Foremost = Top(gsc.todo) /\ Foremost' = Top(gsc'.todo)
BY DEF Foremost, Top

LEMMA ForemostIsLeft ==
  ASSUME GscTypes, gsc.todo # {}
  PROVE  Foremost \in gsc.todo /\ Foremost \in Pages
BY TopIsIn, ForemostIsTop DEF GscTypes, JobState

LEMMA GscInitially == SearchConsoleInit => GscInv
<1> SUFFICES ASSUME SearchConsoleInit PROVE GscInv
  OBVIOUS
<1> USE DEF SearchConsoleInit
<1>1. gsc = NoJob /\ NoJob \in JobState
  BY DEF NoJob, JobState, Signals
<1>2. Closed \in [open : BOOLEAN, members : SUBSET Pages, updated : Nat] /\ Closed.open = FALSE /\ Closed.members = {}
        /\ Closed.updated = 0
  BY DEF Closed
<1>3. GscTypes
  BY <1>1, <1>2, SearchConsoleAssumption DEF GscTypes
<1>4. GscAtPage
  BY <1>1 DEF GscAtPage, NoJob, AtPage
<1>5. GscSafe
  BY <1>1 DEF GscSafe, NoJob, Quotes, Disagree
<1> QED
  BY <1>3, <1>4, <1>5 DEF GscInv

GscIncidents ==
  /\ incident \in [Signals -> [open : BOOLEAN, members : SUBSET Pages, updated : Nat]]
  /\ \A s \in Signals : (incident[s].open <=> incident[s].members # {}) /\ incident[s].updated <= day

\* The job goes on, and whatever it wrote is well.
LEMMA GscGoesOn ==
  ASSUME GscInv, NEW job \in JobState, gsc' = job, UNCHANGED outside,
         status' \in [Pages -> Inspection \cup {NoInspection}], \A p \in Pages : Quotes(status[p], p)',
         GscIncidents', paged' \in [Signals -> [Pages -> Nat]],
         job.pc \in AtPage => job.todo # {},
         job.pc = "compare" => job.row # NoInspection,
         job.pc \in {"upsert", "compare"} => Quotes(job.row, Top(job.todo)),
         job.pc \in {"probe", "ingest"} /\ job.signal = "index_status_discrepancy" => job.strayed
  PROVE  GscInv'
<1>0. /\ day' = day /\ google' = google /\ verdict' = verdict /\ strayed' = strayed
  BY DEF outside
<1>1. GscTypes'
  BY <1>0 DEF GscInv, GscTypes, GscIncidents
<1>2. GscAtPage'
  BY DEF GscAtPage
<1>3. GscSafe'
  <2>1. \A p \in Pages : (Disagree(google[p].index, verdict[p]) => strayed[p])'
    BY <1>0 DEF GscInv, GscSafe, Disagree
  <2>2. gsc'.pc \in {"upsert", "compare"} => Quotes(gsc.row, Foremost)'
    BY <1>0, ForemostIsTop DEF Quotes, Disagree
  <2> QED
    BY <2>1, <2>2 DEF GscSafe
<1> QED
  BY <1>1, <1>2, <1>3 DEF GscInv

\* The job goes on and has written nothing.
LEMMA GscReads ==
  ASSUME GscInv, NEW job \in JobState, gsc' = job, UNCHANGED <<outside, status, incident, paged>>,
         job.pc \in AtPage => job.todo # {},
         job.pc = "compare" => job.row # NoInspection,
         job.pc \in {"upsert", "compare"} => Quotes(job.row, Top(job.todo)),
         job.pc \in {"probe", "ingest"} /\ job.signal = "index_status_discrepancy" => job.strayed
  PROVE  GscInv'
<1>0. /\ day' = day /\ verdict' = verdict /\ strayed' = strayed
      /\ status' = status /\ incident' = incident /\ paged' = paged
  BY DEF outside
<1>1. \A p \in Pages : Quotes(status[p], p)'
  BY <1>0 DEF GscInv, GscSafe, Quotes, Disagree
<1>2. GscIncidents'
  BY <1>0 DEF GscInv, GscTypes, GscIncidents
<1>3. /\ status' \in [Pages -> Inspection \cup {NoInspection}]
      /\ paged' \in [Signals -> [Pages -> Nat]]
  BY <1>0 DEF GscInv, GscTypes
<1> QED
  BY <1>1, <1>2, <1>3, GscGoesOn

\* After a signal comes the next one, or the next page.
LEMMA EvaluatedGoesOn ==
  ASSUME GscInv, gsc.todo # {}
  PROVE  Evaluated(gsc) \in JobState /\ Evaluated(gsc).pc = "evaluate"
<1> USE ForemostIsLeft DEF GscInv
<1>1. gsc \in JobState
  BY DEF GscTypes
<1>2. gsc.todo \ {Foremost} \subseteq Pages
  BY <1>1 DEF JobState
<1> HIDE DEF Foremost
<1> QED
  BY <1>1, <1>2 DEF Evaluated, JobState, Signals

LEMMA NoJobTyped == NoJob \in JobState /\ NoJob.pc = "idle" /\ NoJob.todo = {}
BY DEF NoJob, JobState, Signals

LEMMA CandidatesArePages == InspectionCandidates \subseteq Pages
BY DEF InspectionCandidates

LEMMA GscPulls ==
  ASSUME GscInv, Pull
  PROVE  GscInv'
<1>0. gsc \in JobState /\ status \in [Pages -> Inspection \cup {NoInspection}]
  BY DEF GscInv, GscTypes
<1>1. CASE PullSearchAnalytics
  <2> DEFINE w == [NoJob EXCEPT !.pc = "select", !.ran = TRUE]
  <2>1. w \in JobState /\ w.pc = "select"
    BY NoJobTyped DEF JobState
  <2>2. gsc' = w /\ UNCHANGED <<outside, status, incident, paged>>
    BY <1>1 DEF PullSearchAnalytics, Step
  <2> QED
    BY <2>1, <2>2, GscReads DEF AtPage
<1>2. CASE PullFails
  <2> DEFINE w == [NoJob EXCEPT !.pc = "select", !.ran = TRUE, !.failed = TRUE]
  <2>1. w \in JobState /\ w.pc = "select"
    BY NoJobTyped DEF JobState
  <2>2. gsc' = w /\ UNCHANGED <<outside, status, incident, paged>>
    BY <1>2 DEF PullFails
  <2> QED
    BY <2>1, <2>2, GscReads DEF AtPage
<1>3. CASE SelectCandidates
  <2> DEFINE w == [gsc EXCEPT !.pc = "inspect", !.todo = InspectionCandidates]
  <2>1. w \in JobState /\ w.pc = "inspect"
    BY <1>0, CandidatesArePages DEF JobState
  <2>2. gsc' = w /\ UNCHANGED <<outside, status, incident, paged>>
    BY <1>3 DEF SelectCandidates, Step
  <2> QED
    BY <2>1, <2>2, GscReads DEF AtPage
<1>4. CASE InspectURL
  <2> DEFINE r == [index |-> google[Foremost].index, canonical |-> google[Foremost].canonical,
                   day |-> day, behind |-> FALSE]
             w == [gsc EXCEPT !.pc = "upsert", !.row = r]
  <2>0. gsc.todo # {} /\ Foremost \in Pages
    BY <1>4, ForemostIsLeft DEF InspectURL, GscInv
  <2>1. google[Foremost] \in [index : {"indexed", "excluded", "unclear"}, canonical : {"same", "other", "none"}]
    BY <2>0, SearchConsoleAssumption DEF GscInv, GscTypes
  <2>2. day \in Nat
    BY SearchConsoleAssumption DEF GscInv, GscTypes
  <2>3. r \in Inspection
    BY <2>1, <2>2 DEF Inspection
  <2>4. w \in JobState /\ w.pc = "upsert" /\ w.row = r /\ w.todo = gsc.todo
    BY <1>0, <2>3 DEF JobState, AtPage
  <2>5. gsc' = w /\ UNCHANGED <<outside, status, incident, paged>>
    BY <1>4 DEF InspectURL, Step
  <2>6. Quotes(r, Foremost)
    BY <2>0 DEF GscInv, GscSafe, Quotes
  <2> QED
    BY <2>0, <2>4, <2>5, <2>6, ForemostIsTop, GscReads
<1>5. CASE InspectFails
  <2>1. PICK rest \in {{}, gsc.todo \ {Foremost}} : gsc' = [gsc EXCEPT !.todo = rest]
    BY <1>5 DEF InspectFails
  <2> DEFINE w == [gsc EXCEPT !.todo = rest]
  <2>2. w \in JobState /\ w.pc = "inspect"
    BY <1>0, <1>5 DEF JobState, InspectFails
  <2>3. UNCHANGED <<outside, status, incident, paged>>
    BY <1>5 DEF InspectFails
  <2> QED
    BY <2>1, <2>2, <2>3, GscReads DEF AtPage
<1>6. CASE UpsertURLIndexStatus
  <2> DEFINE w == [gsc EXCEPT !.pc = "inspect", !.todo = @ \ {Foremost}, !.row = NoInspection]
  <2>0. gsc.pc = "upsert" /\ gsc.todo # {} /\ Foremost \in Pages
    BY <1>6, ForemostIsLeft DEF UpsertURLIndexStatus, GscInv, GscAtPage, AtPage
  <2>1. w \in JobState /\ w.pc = "inspect"
    BY <1>0 DEF JobState
  <2>2. gsc' = w /\ UNCHANGED <<outside, incident, paged>>
    BY <1>6 DEF UpsertURLIndexStatus, Step
  <2>3. gsc.row \in Inspection \cup {NoInspection}
    BY <1>0 DEF JobState
  <2>4. /\ status'[Foremost] = gsc.row /\ \A p \in Pages \ {Foremost} : status'[p] = status[p]
        /\ status' \in [Pages -> Inspection \cup {NoInspection}]
    BY <1>0, <1>6, <2>0, <2>3 DEF UpsertURLIndexStatus
  <2>5. \A p \in Pages : Quotes(status[p], p)'
    <3> TAKE p \in Pages
    <3>1. Quotes(status'[p], p)
      BY <2>0, <2>4 DEF GscInv, GscSafe
    <3> QED
      BY <2>2, <3>1 DEF Quotes, outside
  <2>6. GscIncidents' /\ paged' \in [Signals -> [Pages -> Nat]]
    BY <2>2 DEF GscIncidents, outside, GscInv, GscTypes
  <2> QED
    BY <2>1, <2>2, <2>4, <2>5, <2>6, GscGoesOn DEF AtPage
<1>7. CASE UpsertStatusFails
  <2> DEFINE w == [gsc EXCEPT !.pc = "inspect", !.todo = @ \ {Foremost}, !.row = NoInspection, !.failed = TRUE]
  <2>1. w \in JobState /\ w.pc = "inspect"
    BY <1>0 DEF JobState
  <2>2. gsc' = w /\ UNCHANGED <<outside, status, incident, paged>>
    BY <1>7 DEF UpsertStatusFails
  <2> QED
    BY <2>1, <2>2, GscReads DEF AtPage
<1>8. CASE EndPull
  <2> DEFINE w == IF gsc.failed THEN [NoJob EXCEPT !.ran = gsc.ran]
                  ELSE [gsc EXCEPT !.pc = "evaluate", !.todo = InspectionCandidates]
  <2>1. w \in JobState /\ w.pc \in {"idle", "evaluate"}
    BY <1>0, NoJobTyped, CandidatesArePages DEF JobState
  <2>2. gsc' = w /\ UNCHANGED <<outside, status, incident, paged>>
    BY <1>8 DEF EndPull, Step
  <2> QED
    BY <2>1, <2>2, GscReads DEF AtPage
<1> QED
  BY <1>1, <1>2, <1>3, <1>4, <1>5, <1>6, <1>7, <1>8 DEF Pull

LEMMA GscEvaluates ==
  ASSUME GscInv, Evaluate
  PROVE  GscInv'
<1>0. /\ gsc \in JobState /\ status \in [Pages -> Inspection \cup {NoInspection}]
      /\ incident \in [Signals -> [open : BOOLEAN, members : SUBSET Pages, updated : Nat]]
      /\ paged \in [Signals -> [Pages -> Nat]] /\ gsc.signal \in Signals /\ day \in Nat
  BY SearchConsoleAssumption DEF GscInv, GscTypes, JobState
<1>1. CASE LatestURLIndexStatus
  <2> DEFINE w == [gsc EXCEPT !.pc = "compare", !.row = status[Foremost]]
  <2>0. gsc.todo # {} /\ Foremost \in Pages /\ UNCHANGED <<outside, status, incident, paged>>
    BY <1>1, ForemostIsLeft DEF LatestURLIndexStatus, GscInv, Step
  <2>1. CASE status[Foremost] = NoInspection
    <3>1. gsc' = Evaluated(gsc)
      BY <1>1, <2>1 DEF LatestURLIndexStatus, Step
    <3> QED
      BY <2>0, <3>1, EvaluatedGoesOn, GscReads DEF AtPage
  <2>2. CASE status[Foremost] # NoInspection
    <3>1. gsc' = w
      BY <1>1, <2>2 DEF LatestURLIndexStatus, Step
    <3>2. w \in JobState /\ w.pc = "compare" /\ w.row = status[Foremost] /\ w.todo = gsc.todo
      BY <1>0, <2>0 DEF JobState, AtPage
    <3>3. Quotes(w.row, Top(w.todo))
      BY <2>0, <3>2, ForemostIsTop DEF GscInv, GscSafe
    <3> QED
      BY <2>0, <2>2, <3>1, <3>2, <3>3, GscReads
  <2> QED
    BY <2>1, <2>2
<1>2. CASE EvalSignal1
  <2> DEFINE seen == verdict[Foremost]
             next == IF gsc.row.index = "unclear" THEN "retract"
                     ELSE IF seen \notin {"indexable", "noindex"} THEN "leave"
                     ELSE IF ~Disagree(gsc.row.index, seen) THEN "retract"
                     ELSE IF TooStale(gsc.row) THEN "leave"
                     ELSE "probe"
             w == [gsc EXCEPT !.pc = next, !.strayed = strayed[Foremost]]
  <2>0. /\ gsc.pc = "compare" /\ gsc.todo # {} /\ Foremost \in Pages
        /\ UNCHANGED <<outside, status, incident, paged>>
    BY <1>2, ForemostIsLeft DEF EvalSignal1, GscInv, GscAtPage, AtPage, Step
  <2>1. CASE next = "leave"
    <3>1. gsc' = Evaluated(gsc)
      BY <1>2, <2>1 DEF EvalSignal1, Step
    <3> QED
      BY <2>0, <3>1, EvaluatedGoesOn, GscReads DEF AtPage
  <2>2. CASE next # "leave"
    <3>1. gsc' = w
      BY <1>2, <2>2 DEF EvalSignal1, Step
    <3>2. next \in {"retract", "probe"}
      BY <2>2
    <3>3. strayed[Foremost] \in BOOLEAN
      BY <2>0 DEF GscInv, GscTypes
    <3>4. next = "probe" => strayed[Foremost]
      <4>1. gsc.row # NoInspection /\ Quotes(gsc.row, Foremost)
        BY <2>0 DEF GscInv, GscAtPage, GscSafe
      <4>2. next = "probe" => Disagree(gsc.row.index, seen) /\ ~TooStale(gsc.row)
        OBVIOUS
      <4> QED
        BY <4>1, <4>2 DEF Quotes, TooStale
    <3> HIDE DEF next
    <3>5. w \in JobState /\ w.pc = next /\ w.todo = gsc.todo /\ w.strayed = strayed[Foremost]
      BY <1>0, <3>2, <3>3 DEF JobState, AtPage
    <3> HIDE DEF w
    <3> QED
      BY <2>0, <3>1, <3>2, <3>4, <3>5, GscReads
  <2> QED
    BY <2>1, <2>2
<1>3. CASE EvalSignal2
  <2>0. /\ gsc.pc = "compare" /\ gsc.todo # {} /\ gsc.row \in Inspection
        /\ gsc.signal = "google_canonical_mismatch" /\ UNCHANGED <<outside, status, incident, paged>>
    BY <1>0, <1>3 DEF EvalSignal2, GscInv, GscAtPage, AtPage, Step, JobState
  <2>1. PICK next \in {"retract", "probe", "retract if open"} : gsc' = [gsc EXCEPT !.pc = next]
    <3>1. gsc.row.canonical \in {"same", "other", "none"}
      BY <2>0 DEF Inspection
    <3> QED
      BY <1>3, <3>1 DEF EvalSignal2, Step
  <2> DEFINE w == [gsc EXCEPT !.pc = next]
  <2>2. w \in JobState /\ w.pc = next /\ w.todo = gsc.todo /\ w.signal = gsc.signal
    BY <1>0, <2>1 DEF JobState, AtPage
  <2> QED
    BY <2>0, <2>1, <2>2, GscReads
<1>4. CASE ProbeOpenMember
  <2> DEFINE act == IF gsc.pc = "probe" THEN ~HasOpenMember(Foremost, gsc.signal)
                    ELSE HasOpenMember(Foremost, gsc.signal)
             next == IF gsc.pc = "probe" THEN "ingest" ELSE "retract"
             w == [gsc EXCEPT !.pc = next]
  <2>0. gsc.todo # {} /\ UNCHANGED <<outside, status, incident, paged>>
    BY <1>4 DEF ProbeOpenMember, GscInv, GscAtPage, AtPage, Step
  <2>1. CASE ~act
    <3>1. gsc' = Evaluated(gsc)
      BY <1>4, <2>1 DEF ProbeOpenMember, Step
    <3> QED
      BY <2>0, <3>1, EvaluatedGoesOn, GscReads DEF AtPage
  <2>2. CASE act
    <3>1. gsc' = w
      BY <1>4, <2>2 DEF ProbeOpenMember, Step
    <3>2. /\ w \in JobState /\ w.pc = next /\ w.todo = gsc.todo /\ w.signal = gsc.signal
          /\ w.strayed = gsc.strayed
      BY <1>0 DEF JobState, AtPage
    <3>3. next = "ingest" /\ gsc.signal = "index_status_discrepancy" => gsc.strayed
      BY DEF GscInv, GscSafe
    <3>4. next \in {"ingest", "retract"}
      OBVIOUS
    <3> HIDE DEF next, w
    <3> QED
      BY <2>0, <3>1, <3>2, <3>3, <3>4, GscReads
  <2> QED
    BY <2>1, <2>2
<1>5. CASE IngestSignal
  <2> DEFINE i == [open |-> TRUE, members |-> incident[gsc.signal].members \cup {Foremost}, updated |-> day]
  <2>0. /\ gsc.todo # {} /\ Foremost \in Pages /\ gsc' = Evaluated(gsc) /\ UNCHANGED <<outside, status>>
    BY <1>5, ForemostIsLeft DEF IngestSignal, GscInv, GscAtPage, AtPage, Step
  <2>1. /\ i \in [open : BOOLEAN, members : SUBSET Pages, updated : Nat]
        /\ i.open = TRUE /\ i.members # {} /\ i.updated = day
    BY <1>0, <2>0
  <2>2. incident' = [incident EXCEPT ![gsc.signal] = i]
    BY <1>0, <1>5 DEF IngestSignal
  <2> HIDE DEF i
  <2>3. incident'[gsc.signal] = i /\ \A s \in Signals \ {gsc.signal} : incident'[s] = incident[s]
    BY <1>0, <2>2
  <2>4. incident' \in [Signals -> [open : BOOLEAN, members : SUBSET Pages, updated : Nat]]
    BY <1>0, <2>1, <2>2
  <2>5. GscIncidents'
    <3>1. day' = day
      BY <2>0 DEF outside
    <3>2. \A s \in Signals : (incident[s].open <=> incident[s].members # {}) /\ incident[s].updated <= day
      BY DEF GscInv, GscTypes
    <3>3. \A s \in Signals : (incident'[s].open <=> incident'[s].members # {}) /\ incident'[s].updated <= day
      BY <1>0, <2>1, <2>3, <3>2
    <3> QED
      BY <2>4, <3>1, <3>3 DEF GscIncidents
  <2>6. paged' \in [Signals -> [Pages -> Nat]]
    BY <1>0, <1>5, <2>0 DEF IngestSignal
  <2>7. \A p \in Pages : Quotes(status[p], p)'
    BY <2>0 DEF GscInv, GscSafe, Quotes, Disagree, outside
  <2>8. status' \in [Pages -> Inspection \cup {NoInspection}]
    BY <1>0, <2>0
  <2> QED
    BY <2>0, <2>5, <2>6, <2>7, <2>8, EvaluatedGoesOn, GscGoesOn DEF AtPage
<1>6. CASE ResolveSignal
  <2> DEFINE rest == incident[gsc.signal].members \ {Foremost}
             i == IF rest = {} THEN Closed ELSE [incident[gsc.signal] EXCEPT !.members = rest]
  <2>0. /\ gsc.todo # {} /\ Foremost \in Pages /\ gsc' = Evaluated(gsc) /\ UNCHANGED <<outside, status>>
    BY <1>6, ForemostIsLeft DEF ResolveSignal, GscInv, GscAtPage, AtPage, Step
  <2>1. /\ i \in [open : BOOLEAN, members : SUBSET Pages, updated : Nat]
        /\ (i.open <=> i.members # {}) /\ i.updated <= day
    <3>1. /\ incident[gsc.signal] \in [open : BOOLEAN, members : SUBSET Pages, updated : Nat]
          /\ (incident[gsc.signal].open <=> incident[gsc.signal].members # {})
          /\ incident[gsc.signal].updated <= day
      BY <1>0 DEF GscInv, GscTypes
    <3>2. CASE rest = {}
      BY <1>0, <3>2 DEF Closed
    <3>3. CASE rest # {}
      BY <1>0, <3>1, <3>3
    <3> QED
      BY <3>2, <3>3
  <2>2. incident' = [incident EXCEPT ![gsc.signal] = i]
    BY <1>0, <1>6 DEF ResolveSignal
  <2> HIDE DEF i
  <2>3. incident'[gsc.signal] = i /\ \A s \in Signals \ {gsc.signal} : incident'[s] = incident[s]
    BY <1>0, <2>2
  <2>4. incident' \in [Signals -> [open : BOOLEAN, members : SUBSET Pages, updated : Nat]]
    BY <1>0, <2>1, <2>2
  <2>5. GscIncidents'
    <3>1. day' = day
      BY <2>0 DEF outside
    <3>2. \A s \in Signals : (incident[s].open <=> incident[s].members # {}) /\ incident[s].updated <= day
      BY DEF GscInv, GscTypes
    <3>3. \A s \in Signals : (incident'[s].open <=> incident'[s].members # {}) /\ incident'[s].updated <= day
      BY <2>1, <2>3, <3>2
    <3> QED
      BY <2>4, <3>1, <3>3 DEF GscIncidents
  <2>6. paged' \in [Signals -> [Pages -> Nat]]
    BY <1>0, <1>6, <2>0 DEF ResolveSignal
  <2>7. \A p \in Pages : Quotes(status[p], p)'
    BY <2>0 DEF GscInv, GscSafe, Quotes, Disagree, outside
  <2>8. status' \in [Pages -> Inspection \cup {NoInspection}]
    BY <1>0, <2>0
  <2> QED
    BY <2>0, <2>5, <2>6, <2>7, <2>8, EvaluatedGoesOn, GscGoesOn DEF AtPage
<1>7. CASE SignalFails
  <2>1. gsc' = Evaluated(gsc) /\ gsc.todo # {} /\ UNCHANGED <<outside, status, incident, paged>>
    BY <1>7 DEF SignalFails
  <2> QED
    BY <2>1, EvaluatedGoesOn, GscReads DEF AtPage
<1>8. CASE EndJob
  <2> DEFINE w == [NoJob EXCEPT !.ran = gsc.ran]
  <2>1. w \in JobState /\ w.pc = "idle"
    BY <1>0, NoJobTyped DEF JobState
  <2>2. gsc' = w /\ UNCHANGED <<outside, status, incident, paged>>
    BY <1>8 DEF EndJob, Step
  <2> QED
    BY <2>1, <2>2, GscReads DEF AtPage
<1> QED
  BY <1>1, <1>2, <1>3, <1>4, <1>5, <1>6, <1>7, <1>8 DEF Evaluate

\* The world moves on around the job.
LEMMA GscAround ==
  ASSUME GscInv,
         \/ NextDay
         \/ \E p \in Pages : Reindex(p) \/ CrawlInVain(p)
         \/ \E p \in Pages, seen \in {"indexable", "noindex"} : CrawlSnapshot(p, seen)
         \/ \E s \in Signals : Expire(s)
         \/ RestartDaemon
  PROVE  GscInv'
<1>0. /\ gsc \in JobState /\ status \in [Pages -> Inspection \cup {NoInspection}]
      /\ incident \in [Signals -> [open : BOOLEAN, members : SUBSET Pages, updated : Nat]]
      /\ verdict \in [Pages -> {"uncrawled", "unfetched", "indexable", "noindex"}]
      /\ google \in [Pages -> GoogleStates] /\ strayed \in [Pages -> BOOLEAN]
  BY DEF GscInv, GscTypes
<1>d. MaxDay \in Nat /\ day \in 0..MaxDay
  BY SearchConsoleAssumption DEF GscInv, GscTypes
<1>1. CASE NextDay
  <2> DEFINE w == [gsc EXCEPT !.ran = FALSE]
  <2>1. /\ w \in JobState /\ w.pc = gsc.pc /\ w.todo = gsc.todo /\ w.row = gsc.row
        /\ w.signal = gsc.signal /\ w.strayed = gsc.strayed
    BY <1>0 DEF JobState
  <2>2. /\ gsc' = w /\ day' = day + 1 /\ day < MaxDay
        /\ UNCHANGED <<google, verdict, status, incident, strayed, paged>>
    BY <1>1 DEF NextDay
  <2> HIDE DEF w
  <2>3. day' \in 0..MaxDay /\ \A s \in Signals : incident[s].updated <= day => incident[s].updated <= day'
    BY <1>0, <1>d, <2>2
  <2>4. GscTypes'
    BY <2>1, <2>2, <2>3 DEF GscInv, GscTypes
  <2>5. GscAtPage'
    BY <2>1, <2>2 DEF GscInv, GscAtPage
  <2>6. Foremost' = Foremost
    BY <2>1, <2>2, ForemostIsTop
  <2>7. GscSafe'
    BY <2>1, <2>2, <2>6 DEF GscInv, GscSafe, Quotes, Disagree
  <2> QED
    BY <2>4, <2>5, <2>7 DEF GscInv
<1>2. ASSUME NEW p \in Pages, Reindex(p) PROVE GscInv'
  <2>1. PICK g \in GoogleStates : /\ google' = [google EXCEPT ![p] = g]
                                  /\ strayed' = [strayed EXCEPT ![p] = @ \/ Disagree(g.index, verdict[p])]
    BY <1>2 DEF Reindex
  <2>2. UNCHANGED <<day, verdict, status, incident, gsc, paged>>
    BY <1>2 DEF Reindex
  <2>3. /\ google'[p] = g /\ strayed'[p] = (strayed[p] \/ Disagree(g.index, verdict[p]))
        /\ \A q \in Pages \ {p} : google'[q] = google[q] /\ strayed'[q] = strayed[q]
    BY <1>0, <2>1
  <2>4. google' \in [Pages -> GoogleStates] /\ strayed' \in [Pages -> BOOLEAN]
    <3>1. (strayed[p] \/ Disagree(g.index, verdict[p])) \in BOOLEAN
      OBVIOUS
    <3> QED
      BY <1>0, <2>1, <3>1
  <2>5. GscTypes'
    BY <2>2, <2>4 DEF GscInv, GscTypes
  <2>6. GscAtPage'
    BY <2>2 DEF GscInv, GscAtPage
  <2>7. \A q \in Pages : strayed[q] => strayed'[q]
    BY <2>3
  <2>8. \A q \in Pages : Disagree(google'[q].index, verdict'[q]) => strayed'[q]
    <3> TAKE q \in Pages
    <3>1. CASE q = p
      BY <2>2, <2>3, <3>1
    <3>2. CASE q # p
      BY <2>2, <2>3, <3>2 DEF GscInv, GscSafe
    <3> QED
      BY <3>1, <3>2
  <2>9. \A q \in Pages : Quotes(status[q], q)'
    BY <2>2, <2>7 DEF GscInv, GscSafe, Quotes, Disagree
  <2>10. gsc.pc \in {"upsert", "compare"} => Quotes(gsc.row, Foremost)'
    <3> SUFFICES ASSUME gsc.pc \in {"upsert", "compare"} PROVE Quotes(gsc.row, Foremost)'
      BY <2>2
    <3>1. Foremost \in Pages /\ Foremost' = Foremost
      BY <2>2, ForemostIsLeft, ForemostIsTop DEF GscInv, GscAtPage, AtPage
    <3>2. Quotes(gsc.row, Foremost)
      BY DEF GscInv, GscSafe
    <3> QED
      BY <2>2, <2>7, <3>1, <3>2 DEF Quotes, Disagree
  <2>11. GscSafe'
    BY <2>2, <2>8, <2>9, <2>10 DEF GscInv, GscSafe, Disagree
  <2> QED
    BY <2>5, <2>6, <2>11 DEF GscInv
<1>3. ASSUME NEW p \in Pages, CrawlInVain(p) PROVE GscInv'
  <2>1. /\ verdict' = [verdict EXCEPT ![p] = "unfetched"]
        /\ UNCHANGED <<day, google, status, incident, gsc, strayed, paged>>
    BY <1>3 DEF CrawlInVain
  <2>2. GscTypes'
    BY <2>1 DEF GscInv, GscTypes
  <2>3. GscAtPage'
    BY <2>1 DEF GscInv, GscAtPage
  <2>4. \A q \in Pages, index \in {"indexed", "excluded", "unclear"} :
          Disagree(index, verdict'[q]) => Disagree(index, verdict[q])
    BY <1>0, <2>1 DEF Disagree
  <2>5. \A q \in Pages : (Disagree(google[q].index, verdict[q]) => strayed[q])'
    <3> TAKE q \in Pages
    <3>1. google[q].index \in {"indexed", "excluded", "unclear"}
      BY <1>0, SearchConsoleAssumption
    <3>2. Disagree(google[q].index, verdict'[q]) => strayed[q]
      BY <2>4, <3>1 DEF GscInv, GscSafe
    <3> QED
      BY <2>1, <3>2 DEF Disagree
  <2>6. \A q \in Pages, r \in Inspection \cup {NoInspection} : Quotes(r, q) => Quotes(r, q)'
    BY <2>1, <2>4 DEF Quotes, Disagree, Inspection
  <2>7. gsc.pc \in {"upsert", "compare"} => Quotes(gsc.row, Foremost)'
    <3> SUFFICES ASSUME gsc.pc \in {"upsert", "compare"} PROVE Quotes(gsc.row, Foremost)'
      BY <2>1
    <3>1. Foremost \in Pages /\ Foremost' = Foremost
      BY <2>1, ForemostIsLeft, ForemostIsTop DEF GscInv, GscAtPage, AtPage
    <3>2. Quotes(gsc.row, Foremost) /\ gsc.row \in Inspection \cup {NoInspection}
      BY <1>0 DEF GscInv, GscSafe, JobState
    <3>3. Quotes(gsc.row, Foremost) => gsc'.row = gsc.row
      BY <2>1
    <3> QED
      BY <2>1, <2>4, <3>1, <3>2 DEF Quotes, Disagree, Inspection
  <2>8. GscSafe'
    BY <1>0, <2>1, <2>5, <2>6, <2>7 DEF GscInv, GscSafe, Quotes
  <2> QED
    BY <2>2, <2>3, <2>8 DEF GscInv
<1>4. ASSUME NEW p \in Pages, NEW seen \in {"indexable", "noindex"}, CrawlSnapshot(p, seen) PROVE GscInv'
  <2>1. /\ verdict' = [verdict EXCEPT ![p] = seen]
        /\ strayed' = [strayed EXCEPT ![p] = Disagree(google[p].index, seen)]
        /\ status' = [status EXCEPT ![p] = Behind(@)]
        /\ UNCHANGED <<day, google, incident, paged>>
    BY <1>4 DEF CrawlSnapshot
  <2>2. \A r \in Inspection \cup {NoInspection} :
          Behind(r) \in Inspection \cup {NoInspection} /\ (Behind(r) # NoInspection => Behind(r).behind)
    BY DEF Behind, Inspection
  <2>3. /\ verdict'[p] = seen /\ strayed'[p] = Disagree(google[p].index, seen) /\ status'[p] = Behind(status[p])
        /\ \A q \in Pages \ {p} : verdict'[q] = verdict[q] /\ strayed'[q] = strayed[q] /\ status'[q] = status[q]
    BY <1>0, <2>1
  <2>4. /\ gsc' \in JobState /\ gsc'.pc = gsc.pc /\ gsc'.todo = gsc.todo /\ gsc'.signal = gsc.signal
        /\ gsc'.strayed = gsc.strayed
        /\ gsc'.row = IF gsc.todo # {} /\ p = Foremost THEN Behind(gsc.row) ELSE gsc.row
    <3>1. CASE gsc.todo # {} /\ p = Foremost
      <4>1. gsc' = [gsc EXCEPT !.row = Behind(gsc.row)]
        BY <1>0, <1>4, <3>1 DEF CrawlSnapshot, JobState
      <4>2. Behind(gsc.row) \in Inspection \cup {NoInspection}
        BY <1>0, <2>2 DEF JobState
      <4> QED
        BY <1>0, <3>1, <4>1, <4>2 DEF JobState
    <3>2. CASE ~(gsc.todo # {} /\ p = Foremost)
      BY <1>0, <1>4, <3>2 DEF CrawlSnapshot
    <3> QED
      BY <3>1, <3>2
  <2>5. /\ verdict' \in [Pages -> {"uncrawled", "unfetched", "indexable", "noindex"}]
        /\ strayed' \in [Pages -> BOOLEAN]
        /\ status' \in [Pages -> Inspection \cup {NoInspection}]
    <3>1. Disagree(google[p].index, seen) \in BOOLEAN
      BY DEF Disagree
    <3> QED
      BY <1>0, <2>1, <2>2, <3>1
  <2>6. GscTypes'
    BY <2>1, <2>4, <2>5 DEF GscInv, GscTypes
  <2>7. GscAtPage'
    <3>1. gsc.row \in Inspection \cup {NoInspection}
      BY <1>0 DEF JobState
    <3>2. gsc.row # NoInspection => Behind(gsc.row) # NoInspection
      <4>1. ASSUME gsc.row \in Inspection PROVE Behind(gsc.row) \in Inspection
        BY <4>1, SearchConsoleAssumption DEF Behind, Inspection
      <4> QED
        BY <3>1, <4>1, SearchConsoleAssumption
    <3> QED
      BY <2>4, <3>2 DEF GscInv, GscAtPage
  <2>8. \A q \in Pages : Disagree(google'[q].index, verdict'[q]) => strayed'[q]
    <3> TAKE q \in Pages
    <3>1. CASE q = p
      BY <2>1, <2>3, <3>1
    <3>2. CASE q # p
      BY <2>1, <2>3, <3>2 DEF GscInv, GscSafe
    <3> QED
      BY <3>1, <3>2
  <2>9. \A q \in Pages \ {p}, r \in Inspection \cup {NoInspection} : Quotes(r, q) => Quotes(r, q)'
    BY <2>3 DEF Quotes, Disagree
  <2>10. \A q \in Pages : Quotes(status[q], q)'
    <3> TAKE q \in Pages
    <3>1. CASE q = p
      <4>1. status'[p] # NoInspection => status'[p].behind
        BY <1>0, <2>2, <2>3
      <4> QED
        BY <3>1, <4>1 DEF Quotes
    <3>2. CASE q # p
      <4>1. Quotes(status[q], q) /\ status'[q] = status[q]
        BY <2>3, <3>2 DEF GscInv, GscSafe
      <4> QED
        BY <2>3, <3>2, <4>1 DEF Quotes, Disagree
    <3> QED
      BY <3>1, <3>2
  <2>11. ASSUME gsc.pc \in {"upsert", "compare"} PROVE Quotes(gsc.row, Foremost)'
    <3>1. Foremost \in Pages /\ Foremost' = Foremost /\ gsc.todo # {}
      BY <2>4, <2>11, ForemostIsLeft, ForemostIsTop DEF GscInv, GscAtPage, AtPage
    <3>2. Quotes(gsc.row, Foremost) /\ gsc.row \in Inspection \cup {NoInspection}
      BY <1>0, <2>11 DEF GscInv, GscSafe, JobState
    <3>3. CASE p = Foremost
      <4>1. gsc'.row # NoInspection => gsc'.row.behind
        BY <2>2, <2>4, <3>1, <3>2, <3>3
      <4> QED
        BY <4>1 DEF Quotes
    <3>4. CASE p # Foremost
      <4>1. gsc'.row = gsc.row
        BY <2>4, <3>4
      <4>2. verdict'[Foremost] = verdict[Foremost] /\ strayed'[Foremost] = strayed[Foremost]
        BY <2>3, <3>1, <3>4
      <4> QED
        BY <3>1, <3>2, <4>1, <4>2 DEF Quotes, Disagree
    <3> QED
      BY <3>3, <3>4
  <2>12. GscSafe'
    BY <2>4, <2>8, <2>10, <2>11 DEF GscInv, GscSafe, Disagree
  <2> QED
    BY <2>6, <2>7, <2>12 DEF GscInv
<1>5. ASSUME NEW s \in Signals, Expire(s) PROVE GscInv'
  <2>1. incident' = [incident EXCEPT ![s] = Closed] /\ UNCHANGED <<outside, status, gsc, paged>>
    BY <1>5 DEF Expire
  <2>2. Closed \in [open : BOOLEAN, members : SUBSET Pages, updated : Nat] /\ Closed.open = FALSE /\ Closed.members = {}
        /\ Closed.updated = 0
    BY DEF Closed
  <2>3. incident' \in [Signals -> [open : BOOLEAN, members : SUBSET Pages, updated : Nat]]
    BY <1>0, <2>1, <2>2
  <2>4. incident'[s] = Closed /\ \A t \in Signals \ {s} : incident'[t] = incident[t]
    BY <1>0, <2>1
  <2>5. \A t \in Signals : (incident'[t].open <=> incident'[t].members # {}) /\ incident'[t].updated <= day
    BY <1>d, <2>2, <2>4 DEF GscInv, GscTypes
  <2>6. GscTypes'
    BY <2>1, <2>3, <2>5 DEF GscInv, GscTypes, outside
  <2>7. GscAtPage' /\ GscSafe'
    BY <2>1, ForemostIsTop DEF GscInv, GscAtPage, GscSafe, outside, Quotes, Disagree
  <2> QED
    BY <2>6, <2>7 DEF GscInv
<1>6. CASE RestartDaemon
  BY <1>6, NoJobTyped, GscReads DEF RestartDaemon, AtPage
<1> QED
  BY <1>1, <1>2, <1>3, <1>4, <1>5, <1>6

LEMMA GscInductive ==
  ASSUME GscInv, [SearchConsoleNext]_gscVars
  PROVE  GscInv'
<1>1. CASE UNCHANGED gscVars
  BY <1>1, ForemostIsTop
     DEF gscVars, GscInv, GscTypes, GscAtPage, GscSafe, Quotes, Disagree
<1>2. CASE SearchConsoleNext
  BY <1>2, GscPulls, GscEvaluates, GscAround DEF SearchConsoleNext
<1> QED
  BY <1>1, <1>2

LEMMA GscInvariant == SearchConsoleSpec => []GscInv
<1> QED
  BY GscInitially, GscInductive, PTL DEF SearchConsoleSpec

\* Only an ingest counts a page for a signal, and a discrepancy is ingested when
\* Google has strayed from the crawl it is compared with.
THEOREM DiscrepancyWasRealCorrect == SearchConsoleSpec => DiscrepancyWasReal
<1>1. ASSUME GscInv, [SearchConsoleNext]_gscVars
      PROVE  [paged'["index_status_discrepancy"] # paged["index_status_discrepancy"] /\ gsc.pc = "ingest"
                => gsc.strayed]_gscVars
  <2> SUFFICES ASSUME paged'["index_status_discrepancy"] # paged["index_status_discrepancy"], gsc.pc = "ingest",
                      SearchConsoleNext
               PROVE  gsc.strayed
    BY <1>1
  <2>0. paged \in [Signals -> [Pages -> Nat]] /\ gsc.signal \in Signals
    BY <1>1 DEF GscInv, GscTypes, JobState
  <2>1. IngestSignal
    BY DEF SearchConsoleNext, NextDay, Reindex, CrawlInVain, CrawlSnapshot, Expire, RestartDaemon, Pull, Evaluate,
           PullSearchAnalytics, PullFails, SelectCandidates, InspectURL, InspectFails, UpsertURLIndexStatus,
           UpsertStatusFails, EndPull, LatestURLIndexStatus, EvalSignal1, EvalSignal2, ProbeOpenMember,
           ResolveSignal, SignalFails, EndJob
  <2>2. gsc.signal = "index_status_discrepancy"
    BY <2>0, <2>1 DEF IngestSignal, Signals
  <2> QED
    BY <1>1, <2>2 DEF GscInv, GscSafe
<1> QED
  BY <1>1, GscInvariant, PTL DEF SearchConsoleSpec, DiscrepancyWasReal

-----------------------------------------------------------------------------
(* ReadSurface: what each layer makes of an absence.                       *)

Answers == {"on", "absent", "value", "error"}

\* What a step of the asker may do for its answers to be honest.
StepOK(a, s) ==
  /\ s.present \subseteq {"on", "error"}
  /\ "error" \in s.present => a.hook = AddSite /\ s.of \in Things \ a.handler.optional
  /\ s.absent \subseteq Answers /\ s.failed \subseteq Answers
  /\ "absent" \in s.absent \cup s.failed => a.endpoint.absence \in a.client /\ "absent" \in a.bridge
  /\ "absent" \in s.failed => a \in FailureIsAbsence
  /\ "error" \in s.absent => "absent" \notin a.bridge
  /\ "value" \in s.absent \cup s.failed => a \in AbsenceIsEmpty /\ NamedBy(a) \subseteq {"site"} /\ ~Acts(a)
  /\ "on" \in s.failed => s.does = "read"

\* Once this step is done, what it is about has been there.
Sure(s) == "on" \notin s.absent \cup s.failed

AskerOK(a) ==
  /\ Len(a.hook.steps) \in Nat /\ DOMAIN a.hook.steps = 1..Len(a.hook.steps)
  /\ \A i \in DOMAIN a.hook.steps : StepOK(a, a.hook.steps[i])
  /\ \A e \in NamedBy(a) : \E i \in DOMAIN a.hook.steps : a.hook.steps[i].of = e /\ Sure(a.hook.steps[i])

\* The steps of those who only read rows, of those who look for what is named and
\* those who change something.
Read == StepOf("rows", "read", {"on"}, {"on"}, {"error"})
Tried == StepOf("rows", "read", {"on"}, {"on"}, {"on"})
Written == StepOf("rows", "write", {"on"}, {"on"}, {"error"})
Found(e) == StepOf(e, "read", {"on"}, {"absent"}, {"error"})
Owned == StepOf("site", "read", {"on"}, {"absent"}, {"absent"})
Indifferent == StepOf("site", "read", {"on"}, {"value"}, {"value"})
ByBase(sign) == StepOf("site", "read", {"on"}, {"on", sign}, {"on", sign})   \* once the sites are listed
Had(e) == StepOf(e, "read", {"on"}, {"error"}, {"error"})
Vacant == StepOf("site", "read", {"on", "error"}, {"on"}, {"error"})

Reading == {Read, Tried}
Finding == Reading \cup {Found("site"), Found("url"), Found("segment"), Found("inspection")}
Acting == {Read, Tried, Written, Had("site"), StepOf("rows", "create", {"on"}, {"on"}, {"error"}),
           StepOf("rows", "delete", {"on"}, {"on"}, {"error"}), StepOf("rows", "write", {"on"}, {"on"}, {}),
           StepOf("issue", "write", {"on"}, {"error"}, {"error"})}

LEMMA ReadSteps ==
  /\ Must \in Seq(Reading) /\ Try \in Seq(Reading)
  /\ \A e \in {"site", "url", "segment", "inspection"} : Needs(e) \in Seq(Finding)
  /\ Must \in Seq(Finding) /\ Try \in Seq(Finding)
  /\ Must \in Seq(Acting) /\ Try \in Seq(Acting) /\ Write \in Seq(Acting) /\ MustBe("site") \in Seq(Acting)
  BY DEF Must, Try, Needs, Write, MustBe, Reading, Finding, Acting, Read, Tried, Written, Found, Had

LEMMA Concatenated == ASSUME NEW S, NEW s \in Seq(S), NEW t \in Seq(S) PROVE s \o t \in Seq(S)
  BY ConcatProperties

LEMMA FindingReads == Seq(Reading) \subseteq Seq(Finding)
<1>1. Reading \subseteq Finding
  BY DEF Finding
<1> QED
  BY <1>1

\* Whoever says "not found" passes on the sign of the endpoint.
LEMMA Looks ==
  ASSUME NEW a, a.hook.steps \in Seq(Finding), a.endpoint.absence \in a.client, "absent" \in a.bridge
  PROVE  AskerOK(a)
<1>0. \A i \in DOMAIN a.hook.steps : a.hook.steps[i] \in Finding
  OBVIOUS
<1>1. \A s \in Finding : StepOK(a, s)
  BY DEF Finding, Reading, Read, Tried, Found, StepOf, StepOK, Answers
<1>2. \A s \in Finding : s.of \in Things => Sure(s)
  BY DEF Finding, Reading, Read, Tried, Found, StepOf, Things, Sure
<1>3. \A e \in NamedBy(a) : \E i \in DOMAIN a.hook.steps : a.hook.steps[i].of = e /\ e \in Things
  BY DEF NamedBy
<1>4. Len(a.hook.steps) \in Nat /\ DOMAIN a.hook.steps = 1..Len(a.hook.steps)
  OBVIOUS
<1> QED
  BY <1>0, <1>1, <1>2, <1>3, <1>4 DEF AskerOK

\* Whoever changes something says that what it needs is missing by an error.
LEMMA Changes ==
  ASSUME NEW a, a.hook.steps \in Seq(Acting), "absent" \notin a.bridge
  PROVE  AskerOK(a)
<1>0. \A i \in DOMAIN a.hook.steps : a.hook.steps[i] \in Acting
  OBVIOUS
<1>1. \A s \in Acting : StepOK(a, s)
  BY DEF Acting, Read, Tried, Written, Had, StepOf, StepOK, Answers
<1>2. \A s \in Acting : s.of \in Things => Sure(s)
  BY DEF Acting, Read, Tried, Written, Had, StepOf, Things, Sure
<1>3. \A e \in NamedBy(a) : \E i \in DOMAIN a.hook.steps : a.hook.steps[i].of = e /\ e \in Things
  BY DEF NamedBy
<1>4. Len(a.hook.steps) \in Nat /\ DOMAIN a.hook.steps = 1..Len(a.hook.steps)
  OBVIOUS
<1> QED
  BY <1>0, <1>1, <1>2, <1>3, <1>4 DEF AskerOK

\* The state of a page in Google, and its links: a failed read of its owner is an absence as well.
LEMMA FindsStatus ==
  ASSUME NEW a, a.hook.steps \in Seq(Finding \cup {Owned, ByBase("absent")}), a.endpoint.absence \in a.client,
         "absent" \in a.bridge, a \in FailureIsAbsence,
         \E i \in DOMAIN a.hook.steps : a.hook.steps[i] \in {Owned, Found("site")}
  PROVE  AskerOK(a)
<1> DEFINE Steps == Finding \cup {Owned, ByBase("absent")}
<1>0. \A i \in DOMAIN a.hook.steps : a.hook.steps[i] \in Steps
  OBVIOUS
<1>1. \A s \in Steps : StepOK(a, s)
  BY DEF Finding, Reading, Read, Tried, Found, Owned, ByBase, StepOf, StepOK, Answers
<1>2. \A s \in Steps : s.of \in Things \ {"site"} => Sure(s)
  BY DEF Finding, Reading, Read, Tried, Found, Owned, ByBase, StepOf, Things, Sure
<1>3. \A s \in {Owned, Found("site")} : s.of = "site" /\ Sure(s)
  BY DEF Owned, Found, StepOf, Sure
<1>4. \A e \in NamedBy(a) : \E i \in DOMAIN a.hook.steps : a.hook.steps[i].of = e /\ e \in Things
  BY DEF NamedBy
<1>5. Len(a.hook.steps) \in Nat /\ DOMAIN a.hook.steps = 1..Len(a.hook.steps)
  OBVIOUS
<1> HIDE DEF Steps
<1>6. ASSUME NEW e \in NamedBy(a)
      PROVE  \E i \in DOMAIN a.hook.steps : a.hook.steps[i].of = e /\ Sure(a.hook.steps[i])
  BY <1>0, <1>2, <1>3, <1>4, <1>6
<1> QED
  BY <1>0, <1>1, <1>5, <1>6 DEF AskerOK

\* The searches of a page: no owner, no rows.
LEMMA FindsSearches ==
  ASSUME NEW a, a.hook.steps \in Seq({Read, Indifferent, ByBase("value")}), a \in AbsenceIsEmpty,
         \E i \in DOMAIN a.hook.steps : a.hook.steps[i] = Indifferent
  PROVE  AskerOK(a)
<1> DEFINE Steps == {Read, Indifferent, ByBase("value")}
<1>0. \A i \in DOMAIN a.hook.steps : a.hook.steps[i] \in Steps
  OBVIOUS
<1>1. NamedBy(a) \subseteq {"site"} /\ ~Acts(a)
  BY <1>0 DEF NamedBy, Acts, Read, Indifferent, ByBase, StepOf, Things
<1>2. \A s \in Steps : StepOK(a, s)
  BY <1>1 DEF Read, Indifferent, ByBase, StepOf, StepOK, Answers
<1>3. Indifferent.of = "site" /\ Sure(Indifferent)
  BY DEF Indifferent, StepOf, Sure
<1>4. Len(a.hook.steps) \in Nat /\ DOMAIN a.hook.steps = 1..Len(a.hook.steps)
  OBVIOUS
<1> HIDE DEF Steps
<1> QED
  BY <1>0, <1>1, <1>2, <1>3, <1>4 DEF AskerOK

\* The owner is looked for before the rows are read.
LEMMA OwnerFirst ==
  ASSUME NEW S, NEW x \in S, NEW y \in S, NEW rest \in Seq(S)
  PROVE  /\ <<x, y>> \o rest \in Seq(S)
         /\ 1 \in DOMAIN (<<x, y>> \o rest) /\ (<<x, y>> \o rest)[1] = x
<1> DEFINE head == <<x, y>>
<1>1. head \in Seq(S) /\ Len(head) = 2 /\ head[1] = x
  OBVIOUS
<1> HIDE DEF head
<1>2. /\ head \o rest \in Seq(S) /\ Len(head \o rest) = 2 + Len(rest)
      /\ \A i \in 1..2 : (head \o rest)[i] = head[i]
  <2>1. /\ head \o rest \in Seq(S) /\ Len(head \o rest) = Len(head) + Len(rest)
        /\ \A i \in 1..Len(head) + Len(rest) :
             (head \o rest)[i] = IF i <= Len(head) THEN head[i] ELSE rest[i - Len(head)]
    BY <1>1, ConcatProperties
  <2>2. Len(rest) \in Nat
    OBVIOUS
  <2> QED
    BY <1>1, <2>1, <2>2
<1>3. 1 \in DOMAIN (head \o rest) /\ (head \o rest)[1] = x
  <2>1. Len(rest) \in Nat /\ 1 \in 1..2
    OBVIOUS
  <2>2. 1 \in 1..Len(head \o rest) /\ DOMAIN (head \o rest) = 1..Len(head \o rest)
    BY <1>2, <2>1
  <2> QED
    BY <1>1, <1>2, <2>1, <2>2
<1> QED
  BY <1>2, <1>3 DEF head

\* The same when the store has to be opened first.
LEMMA OwnerSecond ==
  ASSUME NEW S, NEW w \in S, NEW x \in S, NEW y \in S, NEW rest \in Seq(S)
  PROVE  /\ <<w>> \o (<<x, y>> \o rest) \in Seq(S)
         /\ 2 \in DOMAIN (<<w>> \o (<<x, y>> \o rest)) /\ (<<w>> \o (<<x, y>> \o rest))[2] = x
<1> DEFINE tail == <<x, y>> \o rest
           one == <<w>>
<1>1. tail \in Seq(S) /\ 1 \in DOMAIN tail /\ tail[1] = x
  BY OwnerFirst
<1>2. one \in Seq(S) /\ Len(one) = 1
  OBVIOUS
<1> HIDE DEF tail, one
<1>3. /\ one \o tail \in Seq(S) /\ Len(one \o tail) = 1 + Len(tail)
      /\ \A i \in 1..Len(one) + Len(tail) :
           (one \o tail)[i] = IF i <= Len(one) THEN one[i] ELSE tail[i - Len(one)]
  <2>1. Len(tail) \in Nat
    BY <1>1
  <2> QED
    BY <1>1, <1>2, <2>1, ConcatProperties
<1>4. Len(tail) \in Nat /\ Len(tail) >= 1
  BY <1>1
<1>5. 2 \in DOMAIN (one \o tail) /\ (one \o tail)[2] = tail[1]
  <2>1. 2 \in 1..Len(one \o tail) /\ DOMAIN (one \o tail) = 1..Len(one \o tail)
    BY <1>3, <1>4
  <2> QED
    BY <1>2, <1>3, <1>4, <2>1
<1> QED
  BY <1>1, <1>3, <1>5 DEF one, tail

LEMMA Pushed ==
  ASSUME NEW S, NEW s \in Seq(S), NEW x \in S
  PROVE  /\ s \o <<x>> \in Seq(S) /\ Len(s \o <<x>>) = Len(s) + 1
         /\ \A i \in 1..Len(s) : (s \o <<x>>)[i] = s[i]
         /\ (s \o <<x>>)[Len(s) + 1] = x
<1>1. <<x>> \in Seq(S) /\ Len(<<x>>) = 1 /\ <<x>>[1] = x
  OBVIOUS
<1> QED
  BY <1>1, ConcatProperties

LEMMA FourInARow ==
  ASSUME NEW x, NEW y, NEW z, NEW w
  PROVE  <<x>> \o <<y>> \o <<z>> \o <<w>> = <<x, y, z, w>>
<1> DEFINE S == {x, y, z, w}
           two == <<x>> \o <<y>>
           three == two \o <<z>>
           four == three \o <<w>>
<1>1. <<x>> \in Seq(S) /\ Len(<<x>>) = 1 /\ <<x>>[1] = x
  OBVIOUS
<1>0. y \in S /\ z \in S /\ w \in S
  OBVIOUS
<1>5. <<x, y, z, w>> \in Seq(S) /\ Len(<<x, y, z, w>>) = 4
  OBVIOUS
<1> HIDE DEF S
<1>2. two \in Seq(S) /\ Len(two) = 2 /\ two[1] = x /\ two[2] = y
  BY <1>0, <1>1, Pushed
<1> HIDE DEF two
<1>3. three \in Seq(S) /\ Len(three) = 3 /\ three[1] = x /\ three[2] = y /\ three[3] = z
  <2>1. two \in Seq(S) /\ z \in S
    BY <1>2, <1>0
  <2>2. /\ three \in Seq(S) /\ Len(three) = Len(two) + 1
        /\ \A i \in 1..Len(two) : three[i] = two[i]
        /\ three[Len(two) + 1] = z
    BY <2>1, Pushed, Zenon
  <2> QED
    BY <1>2, <2>2
<1> HIDE DEF three
<1>4. four \in Seq(S) /\ Len(four) = 4 /\ four[1] = x /\ four[2] = y /\ four[3] = z /\ four[4] = w
  <2>1. three \in Seq(S) /\ w \in S
    BY <1>3, <1>0
  <2>2. /\ four \in Seq(S) /\ Len(four) = Len(three) + 1
        /\ \A i \in 1..Len(three) : four[i] = three[i]
        /\ four[Len(three) + 1] = w
    BY <2>1, Pushed, Zenon
  <2> QED
    BY <1>3, <2>2
<1> HIDE DEF four
<1>6. \A i \in 1..4 : four[i] = <<x, y, z, w>>[i]
  BY <1>4
<1>7. four = <<x, y, z, w>>
  BY <1>4, <1>5, <1>6, SeqEqual
<1> QED
  BY <1>7 DEF four, three, two

\* A new site: what is in the way is an error, and the site is read back.
LEMMA Adds ==
  ASSUME NEW a, a.hook = AddSite, "absent" \notin a.bridge, a.handler.optional = {}
  PROVE  AskerOK(a)
<1> DEFINE steps == <<Vacant, Written, StepOf("rows", "create", {"on"}, {"on"}, {"error"}), Had("site")>>
<1>0. a.hook.steps = steps
  <2>1. a.hook.steps = addSiteDuplicateErr \o WriteAdded \o ReloadsNew \o MustBe("site")
    BY DEF AddSite, Hook
  <2>2. addSiteDuplicateErr = <<Vacant>> /\ WriteAdded = <<Written>> /\ MustBe("site") = <<Had("site")>>
    BY DEF addSiteDuplicateErr, WriteAdded, Write, MustBe, Vacant, Written, Had
  <2>3. <<Vacant>> \o <<Written>> \o ReloadsNew \o <<Had("site")>> = steps
    BY FourInARow DEF ReloadsNew
  <2> QED
    BY <2>1, <2>2, <2>3
<1>1. \A i \in 1..4 : StepOK(a, steps[i])
  BY DEF Vacant, Written, Had, StepOf, StepOK, Answers, Things
<1>2. steps[4].of = "site" /\ Sure(steps[4])
  BY DEF Had, StepOf, Sure
<1>3. NamedBy(a) \subseteq {"site"}
  <2>1. \A i \in 1..4 : steps[i].of \in {"rows", "site"}
    BY DEF Vacant, Written, Had, StepOf
  <2> QED
    BY <1>0, <2>1 DEF NamedBy, Things
<1>4. Len(steps) = 4 /\ DOMAIN steps = 1..4
  OBVIOUS
<1> HIDE DEF steps
<1> QED
  BY <1>0, <1>1, <1>2, <1>3, <1>4 DEF AskerOK

-----------------------------------------------------------------------------
(* The steps of each hook.                                                 *)
LEMMA RowReads ==
  /\ ComputeHealthScore \in Seq(Reading) /\ HealthScoreSeries \in Seq(Reading)
  /\ SitemapCoverage \in Seq(Reading) /\ BlastRadiusCard \in Seq(Reading) /\ Orphans \in Seq(Reading)
  /\ exportFocus \in Seq(Reading) /\ exportOverview \in Seq(Reading)
  /\ BuildReportOfAll \in Seq(Reading) /\ BuildReportOfOne \in Seq(Reading)
<1>1. Must \in Seq(Reading)
  BY ReadSteps
<1>2. Must \o Must \in Seq(Reading)
  BY <1>1, Concatenated
<1>3. Must \o Must \o Must \in Seq(Reading)
  BY <1>1, <1>2, Concatenated
<1>4. Must \o Must \o Must \o Must \in Seq(Reading)
  BY <1>1, <1>3, Concatenated
<1>5. Must \o Must \o Must \o Must \o Must \in Seq(Reading)
  BY <1>1, <1>4, Concatenated
<1>6. ComputeHealthScore \in Seq(Reading) /\ HealthScoreSeries \in Seq(Reading)
  BY <1>1, <1>2 DEF ComputeHealthScore, HealthScoreSeries
<1>7. SitemapCoverage \in Seq(Reading) /\ BlastRadiusCard \in Seq(Reading) /\ Orphans \in Seq(Reading)
  BY <1>1, <1>3, <1>5 DEF SitemapCoverage, BlastRadiusCard, Orphans
<1>8. exportFocus \in Seq(Reading) /\ exportOverview \in Seq(Reading)
  BY <1>2, <1>5 DEF exportFocus, exportOverview, NeighborhoodURLs, EdgesAmong, NodePayloads
<1>9. changeSummary \in Seq(Reading) /\ issueSummary \in Seq(Reading) /\ topChangedURLs \in Seq(Reading)
  BY <1>1, <1>3 DEF changeSummary, issueSummary, issueWindowCount, topChangedURLs
<1>10. changeSummary \o issueSummary \o topChangedURLs \in Seq(Reading)
  <2>1. changeSummary \o issueSummary \in Seq(Reading)
    BY <1>9, Concatenated
  <2> QED
    BY <1>9, <2>1, Concatenated
<1>11. siteRollups \in Seq(Reading)
  BY <1>3, <1>6, Concatenated DEF siteRollups, countBySite
<1>12. healthBlock \in Seq(Reading)
  <2>1. ComputeHealthScore \o HealthScoreSeries \in Seq(Reading)
    BY <1>6, Concatenated
  <2>2. ComputeHealthScore \o HealthScoreSeries \o Must \in Seq(Reading)
    BY <1>1, <2>1, Concatenated
  <2> QED
    BY <1>6, <2>2, Concatenated DEF healthBlock
<1>13. siteIDsForURLs \in Seq(Reading) /\ annotateSearchShifts \in Seq(Reading)
  BY <1>1 DEF siteIDsForURLs, annotateSearchShifts
<1>14. BuildReportOfAll \in Seq(Reading)
  <2>1. changeSummary \o issueSummary \o topChangedURLs \o siteIDsForURLs \in Seq(Reading)
    BY <1>10, <1>13, Concatenated
  <2>2. changeSummary \o issueSummary \o topChangedURLs \o siteIDsForURLs \o annotateSearchShifts \in Seq(Reading)
    BY <1>13, <2>1, Concatenated
  <2> QED
    BY <1>11, <2>2, Concatenated DEF BuildReportOfAll
<1>15. BuildReportOfOne \in Seq(Reading)
  <2>1. changeSummary \o issueSummary \o topChangedURLs \o annotateSearchShifts \in Seq(Reading)
    BY <1>10, <1>13, Concatenated
  <2> QED
    BY <1>12, <2>1, Concatenated DEF BuildReportOfOne
<1> QED
  BY <1>6, <1>7, <1>8, <1>14, <1>15

\* The hooks of the daemon that say that something is not there.
LEMMA HookFinds ==
  /\ siteDetailHook.steps \in Seq(Finding) /\ historyHook.steps \in Seq(Finding)
  /\ richResultsHook.steps \in Seq(Finding) /\ coverageHook.steps \in Seq(Finding)
  /\ scoreHook.steps \in Seq(Finding) /\ linksHook.steps \in Seq(Finding)
  /\ graphHookFocus.steps \in Seq(Finding) /\ graphHookOverview.steps \in Seq(Finding)
<1>1. /\ Needs("site") \in Seq(Finding) /\ Needs("url") \in Seq(Finding) /\ Needs("segment") \in Seq(Finding)
      /\ Must \in Seq(Finding) /\ Try \in Seq(Finding)
  BY ReadSteps
<1>2. /\ ComputeHealthScore \in Seq(Finding) /\ HealthScoreSeries \in Seq(Finding)
      /\ SitemapCoverage \in Seq(Finding) /\ BlastRadiusCard \in Seq(Finding)
      /\ exportFocus \in Seq(Finding) /\ exportOverview \in Seq(Finding)
  BY RowReads, FindingReads
<1>3. siteDetailHook.steps \in Seq(Finding)
  <2>1. Needs("site") \o Try \in Seq(Finding)
    BY <1>1, Concatenated
  <2>2. Needs("site") \o Try \o Try \o Try \in Seq(Finding)
    BY <1>1, <2>1, Concatenated
  <2>3. Needs("site") \o Try \o Try \o Try \o Try \o Try \in Seq(Finding)
    BY <1>1, <2>2, Concatenated
  <2>4. Needs("site") \o Try \o Try \o Try \o Try \o Try \o Try \o Try \in Seq(Finding)
    BY <1>1, <2>3, Concatenated
  <2> QED
    BY <2>4 DEF siteDetailHook, Hook, resolveVerificationTier
<1>4. historyHook.steps \in Seq(Finding) /\ richResultsHook.steps \in Seq(Finding)
  BY <1>1, Concatenated DEF historyHook, richResultsHook, Hook
<1>5. coverageHook.steps \in Seq(Finding) /\ linksHook.steps \in Seq(Finding)
  BY <1>1, <1>2, Concatenated DEF coverageHook, linksHook, Hook
<1>6. graphHookFocus.steps \in Seq(Finding) /\ graphHookOverview.steps \in Seq(Finding)
  BY <1>1, <1>2, Concatenated DEF graphHookFocus, graphHookOverview, Hook
<1>7. scoreHook.steps \in Seq(Finding)
  <2>1. Needs("site") \o Needs("segment") \in Seq(Finding)
    BY <1>1, Concatenated
  <2>2. Needs("site") \o Needs("segment") \o ComputeHealthScore \in Seq(Finding)
    BY <1>2, <2>1, Concatenated
  <2> QED
    BY <1>2, <2>2, Concatenated DEF scoreHook, Hook
<1> QED
  BY <1>3, <1>4, <1>5, <1>6, <1>7

\* Those that need nothing or change something.
LEMMA HookChanges ==
  /\ statusHook.steps \in Seq(Acting) /\ listSitesHook.steps \in Seq(Acting) /\ issuesHook.steps \in Seq(Acting)
  /\ reportHook.steps \in Seq(Acting) /\ reportHookOfOne.steps \in Seq(Acting)
  /\ RemoveSite.steps \in Seq(Acting) /\ RemoveSiteAndPurge.steps \in Seq(Acting)
  /\ SetConfig.steps \in Seq(Acting) /\ SetPaused.steps \in Seq(Acting) /\ EnqueueRecheck.steps \in Seq(Acting)
  /\ IgnoreIssue.steps \in Seq(Acting) /\ NotifyTest.steps \in Seq(Acting)
  /\ verifyBegin.steps \in Seq(Acting) /\ verifyCheck.steps \in Seq(Acting)
<1>1. Must \in Seq(Acting) /\ Try \in Seq(Acting) /\ Write \in Seq(Acting) /\ MustBe("site") \in Seq(Acting)
  BY ReadSteps
<1>2. Seq(Reading) \subseteq Seq(Acting)
  <2>1. Reading \subseteq Acting
    BY DEF Reading, Acting
  <2> QED
    BY <2>1
<1>3. statusHook.steps \in Seq(Acting)
  <2>1. Try \o Try \o Try \in Seq(Acting)
    BY <1>1, Concatenated
  <2>2. Try \o Try \o Try \o Try \in Seq(Acting)
    BY <1>1, <2>1, Concatenated
  <2>3. Try \o Try \o Try \o Try \o Try \in Seq(Acting)
    BY <1>1, <2>2, Concatenated
  <2> QED
    BY <2>3 DEF statusHook, statusFromStore, cappedSitesCount, Hook
<1>4. listSitesHook.steps \in Seq(Acting) /\ issuesHook.steps \in Seq(Acting)
  BY <1>1, Concatenated DEF listSitesHook, issuesHook, Hook, resolveVerificationTier
<1>5. reportHook.steps \in Seq(Acting) /\ reportHookOfOne.steps \in Seq(Acting)
  BY <1>2, RowReads DEF reportHook, reportHookOfOne, Hook
<1>6. RemoveSite.steps \in Seq(Acting)
  <2>1. MustBe("site") \o Write \in Seq(Acting)
    BY <1>1, Concatenated
  <2> QED
    BY <1>1, <2>1, Concatenated DEF RemoveSite, WriteRemoved, Reloads, Hook
<1>7. RemoveSiteAndPurge.steps \in Seq(Acting)
  <2>1. DeletesSite \in Seq(Acting)
    BY DEF DeletesSite, Acting
  <2> QED
    BY <1>6, <2>1, Concatenated DEF RemoveSiteAndPurge, Hook
<1>8. SetConfig.steps \in Seq(Acting) /\ EnqueueRecheck.steps \in Seq(Acting) /\ NotifyTest.steps \in Seq(Acting)
  BY <1>1, Concatenated DEF SetConfig, Reloads, EnqueueRecheck, NotifyTest, Hook
<1>9. SetPaused.steps \in Seq(Acting) /\ IgnoreIssue.steps \in Seq(Acting)
  BY DEF SetPaused, IgnoreIssue, Hook, Acting
<1>10. verifyBegin.steps \in Seq(Acting)
  <2>1. MustBe("site") \o Must \in Seq(Acting)
    BY <1>1, Concatenated
  <2> QED
    BY <1>1, <2>1, Concatenated DEF verifyBegin, Hook
<1>11. verifyCheck.steps \in Seq(Acting)
  BY <1>1, Concatenated DEF verifyCheck, Hook
<1> QED
  BY <1>3, <1>4, <1>5, <1>6, <1>7, <1>8, <1>9, <1>10, <1>11

\* Every tool and every command is one of these.
LEMMA McpReads ==
  /\ AskerOK(get_site) /\ AskerOK(get_history) /\ AskerOK(get_coverage) /\ AskerOK(get_rich_results)
  /\ AskerOK(get_health_score) /\ AskerOK(blast_radius) /\ AskerOK(get_link_graph)
  /\ AskerOK(get_link_overview)
<1>1. AskerOK(get_site)
  BY HookFinds, Looks DEF get_site, Tool, SiteDetailFound, handleSiteDetail, Endpoint, bridgeSite
<1>2. AskerOK(get_history)
  BY HookFinds, Looks DEF get_history, Tool, clientHistory, handleHistory, Endpoint, bridgeHistory
<1>3. AskerOK(get_coverage)
  BY HookFinds, Looks DEF get_coverage, Tool, clientCoverage, handleCoverage, Endpoint, bridgeCoverage
<1>4. AskerOK(get_rich_results)
  BY HookFinds, Looks DEF get_rich_results, Tool, clientRichResults, handleRichResults, Endpoint, bridgeRichResults
<1>5. AskerOK(get_health_score)
  BY HookFinds, Looks DEF get_health_score, Tool, clientScore, handleScore, Endpoint, bridgeHealthScore
<1>6. AskerOK(blast_radius)
  BY HookFinds, Looks DEF blast_radius, Tool, clientLinks, handleLinks, GraphEndpoint, bridgeLinks
<1>7. AskerOK(get_link_graph)
  BY HookFinds, Looks DEF get_link_graph, Tool, clientGraph, handleGraph, GraphEndpoint, bridgeLinkGraph
<1>8. AskerOK(get_link_overview)
  BY HookFinds, Looks DEF get_link_overview, Tool, clientGraph, handleGraph, GraphEndpoint, bridgeLinkGraph
<1> QED
  BY <1>1, <1>2, <1>3, <1>4, <1>5, <1>6, <1>7, <1>8

LEMMA McpChanges ==
  /\ AskerOK(get_status) /\ AskerOK(list_sites) /\ AskerOK(list_issues) /\ AskerOK(summarize_changes)
  /\ AskerOK(summarize_one) /\ AskerOK(recheck_site) /\ AskerOK(pause_monitoring) /\ AskerOK(ignore_issue)
  /\ AskerOK(send_test_alert) /\ AskerOK(set_config) /\ AskerOK(verify_begin) /\ AskerOK(verify_check)
<1>1. AskerOK(get_status)
  BY HookChanges, Changes DEF get_status, Tool, bridgeStatus
<1>2. AskerOK(list_sites)
  BY HookChanges, Changes DEF list_sites, Tool, bridgeSites
<1>3. AskerOK(list_issues)
  BY HookChanges, Changes DEF list_issues, Tool, bridgeIssues
<1>4. AskerOK(summarize_changes)
  BY HookChanges, Changes DEF summarize_changes, Tool, bridgeReport
<1>5. AskerOK(summarize_one)
  BY HookChanges, Changes DEF summarize_one, Tool, bridgeReport
<1>6. AskerOK(recheck_site)
  BY HookChanges, Changes DEF recheck_site, Tool, bridgeActs
<1>7. AskerOK(pause_monitoring)
  BY HookChanges, Changes DEF pause_monitoring, Tool, bridgeActs
<1>8. AskerOK(ignore_issue)
  BY HookChanges, Changes DEF ignore_issue, Tool, bridgeActs
<1>9. AskerOK(send_test_alert)
  BY HookChanges, Changes DEF send_test_alert, Tool, bridgeActs
<1>10. AskerOK(set_config)
  BY HookChanges, Changes DEF set_config, Tool, bridgeActs
<1>11. AskerOK(verify_begin)
  BY HookChanges, Changes DEF verify_begin, Tool, bridgeVerify
<1>12. AskerOK(verify_check)
  BY HookChanges, Changes DEF verify_check, Tool, bridgeVerify
<1> QED
  BY <1>1, <1>2, <1>3, <1>4, <1>5, <1>6, <1>7, <1>8, <1>9, <1>10, <1>11, <1>12

LEMMA CliChanges ==
  /\ AskerOK(rabbot_status) /\ AskerOK(rabbot_sites_remove) /\ AskerOK(rabbot_sites_purge)
  /\ AskerOK(rabbot_crawl) /\ AskerOK(rabbot_pause) /\ AskerOK(rabbot_issue_ignore)
  /\ AskerOK(rabbot_notify_test) /\ AskerOK(rabbot_config_set)
<1>1. AskerOK(rabbot_status)
  BY HookChanges, Changes DEF rabbot_status, withControlClient, Tool
<1>2. AskerOK(rabbot_sites_remove)
  BY HookChanges, Changes DEF rabbot_sites_remove, withControlClient, Tool
<1>3. AskerOK(rabbot_sites_purge)
  BY HookChanges, Changes DEF rabbot_sites_purge, withControlClient, Tool
<1>4. AskerOK(rabbot_crawl)
  BY HookChanges, Changes DEF rabbot_crawl, withControlClient, Tool
<1>5. AskerOK(rabbot_pause)
  BY HookChanges, Changes DEF rabbot_pause, withControlClient, Tool
<1>6. AskerOK(rabbot_issue_ignore)
  BY HookChanges, Changes DEF rabbot_issue_ignore, withControlClient, Tool
<1>7. AskerOK(rabbot_notify_test)
  BY HookChanges, Changes DEF rabbot_notify_test, withControlClient, Tool
<1>8. AskerOK(rabbot_config_set)
  BY HookChanges, Changes DEF rabbot_config_set, withControlClient, Tool
<1> QED
  BY <1>1, <1>2, <1>3, <1>4, <1>5, <1>6, <1>7, <1>8

LEMMA TheRestOfTheTools ==
  AskerOK(get_index_status) /\ AskerOK(get_search_performance) /\ AskerOK(add_site) /\ AskerOK(rabbot_sites_add)
<1>1. AskerOK(get_index_status)
  <2> DEFINE S == Finding \cup {Owned, ByBase("absent")}
  <2>1. /\ get_index_status.hook.steps \in Seq(S)
        /\ 1 \in DOMAIN get_index_status.hook.steps /\ get_index_status.hook.steps[1] = Owned
    <3>1. siteIDForURL("absent", "absent") = <<Owned, ByBase("absent")>>
      BY DEF siteIDForURL, Owned, ByBase
    <3>2. Needs("inspection") \in Seq(S) /\ Owned \in S /\ ByBase("absent") \in S
      BY DEF Needs, Finding, Found
    <3>3. get_index_status.hook.steps = siteIDForURL("absent", "absent") \o Needs("inspection")
      BY DEF get_index_status, Tool, indexStatusHook, Hook
    <3> HIDE DEF S
    <3>4. /\ <<Owned, ByBase("absent")>> \o Needs("inspection") \in Seq(S)
         /\ 1 \in DOMAIN (<<Owned, ByBase("absent")>> \o Needs("inspection")) /\ (<<Owned, ByBase("absent")>> \o Needs("inspection"))[1] = Owned
      BY <3>2, OwnerFirst
    <3> QED
      BY <3>1, <3>2, <3>3, <3>4
  <2>2. get_index_status \in FailureIsAbsence
    BY DEF FailureIsAbsence
  <2>3. "absent" \in get_index_status.bridge /\ get_index_status.endpoint.absence \in get_index_status.client
    BY DEF get_index_status, Tool, bridgeIndexStatus, clientIndexStatus, handleIndexStatus, Endpoint
  <2> QED
    BY <2>1, <2>2, <2>3, FindsStatus
<1>2. AskerOK(get_search_performance)
  <2> DEFINE S == {Read, Indifferent, ByBase("value")}
  <2>1. /\ get_search_performance.hook.steps \in Seq(S)
        /\ 1 \in DOMAIN get_search_performance.hook.steps /\ get_search_performance.hook.steps[1] = Indifferent
    <3>1. siteIDForURL("value", "value") = <<Indifferent, ByBase("value")>>
      BY DEF siteIDForURL, Indifferent, ByBase
    <3>2. Must \in Seq(S) /\ Indifferent \in S /\ ByBase("value") \in S
      BY DEF Must, Read
    <3>3. get_search_performance.hook.steps = siteIDForURL("value", "value") \o Must
      BY DEF get_search_performance, Tool, searchPerformanceHook, Hook
    <3> HIDE DEF S
    <3>4. /\ <<Indifferent, ByBase("value")>> \o Must \in Seq(S)
         /\ 1 \in DOMAIN (<<Indifferent, ByBase("value")>> \o Must) /\ (<<Indifferent, ByBase("value")>> \o Must)[1] = Indifferent
      BY <3>2, OwnerFirst
    <3> QED
      BY <3>1, <3>2, <3>3, <3>4
  <2>2. get_search_performance \in AbsenceIsEmpty
    BY DEF AbsenceIsEmpty
  <2> QED
    BY <2>1, <2>2, FindsSearches
<1>3. AskerOK(add_site)
  BY Adds DEF add_site, Tool, Plain, Handler, bridgeActs
<1>4. AskerOK(rabbot_sites_add)
  BY Adds DEF rabbot_sites_add, withControlClient, Tool, Handler
<1> QED
  BY <1>1, <1>2, <1>3, <1>4

\* A command that opens the store says by itself that something is not there.
LEMMA StoreFinds ==
  ASSUME NEW handler, NEW refuses, NEW steps \in Seq(Finding)
  PROVE  AskerOK(withStore(handler, refuses, steps))
<1> DEFINE a == withStore(handler, refuses, steps)
<1>1. Must \o steps \in Seq(Finding)
  BY ReadSteps, Concatenated
<1>2. a.hook.steps \in Seq(Finding)
  BY <1>1 DEF withStore, Tool, Hook
<1>3. a.endpoint.absence \in a.client /\ "absent" \in a.bridge
  BY DEF withStore, Tool, Direct, Endpoint
<1> QED
  BY <1>2, <1>3, Looks

LEMMA CliReads ==
  /\ AskerOK(rabbot_sites_list) /\ AskerOK(rabbot_sites_show) /\ AskerOK(rabbot_segments)
  /\ AskerOK(rabbot_history) /\ AskerOK(rabbot_inspect) /\ AskerOK(rabbot_orphans)
  /\ AskerOK(rabbot_graph) /\ AskerOK(rabbot_graph_focus) /\ AskerOK(rabbot_sitemap_coverage)
  /\ AskerOK(rabbot_issues) /\ AskerOK(rabbot_report) /\ AskerOK(rabbot_report_site)
<1>1. /\ Needs("site") \in Seq(Finding) /\ Needs("url") \in Seq(Finding) /\ Needs("segment") \in Seq(Finding)
      /\ Must \in Seq(Finding) /\ Try \in Seq(Finding)
  BY ReadSteps
<1>2. /\ SitemapCoverage \in Seq(Finding) /\ BlastRadiusCard \in Seq(Finding) /\ Orphans \in Seq(Finding)
      /\ exportFocus \in Seq(Finding) /\ exportOverview \in Seq(Finding)
      /\ BuildReportOfAll \in Seq(Finding) /\ BuildReportOfOne \in Seq(Finding)
  BY RowReads, FindingReads
<1>3. AskerOK(rabbot_sites_list)
  BY <1>1, StoreFinds DEF rabbot_sites_list
<1>4. AskerOK(rabbot_sites_show)
  <2>1. Needs("site") \o Try \in Seq(Finding)
    BY <1>1, Concatenated
  <2> QED
    BY <2>1, StoreFinds DEF rabbot_sites_show
<1>5. AskerOK(rabbot_segments)
  <2>1. Needs("site") \o Must \in Seq(Finding)
    BY <1>1, Concatenated
  <2> QED
    BY <2>1, StoreFinds DEF rabbot_segments
<1>6. AskerOK(rabbot_history)
  <2>1. Needs("url") \o Must \in Seq(Finding)
    BY <1>1, Concatenated
  <2> QED
    BY <2>1, StoreFinds DEF rabbot_history
<1>7. AskerOK(rabbot_inspect)
  <2>1. Needs("url") \o Try \in Seq(Finding)
    BY <1>1, Concatenated
  <2>2. Needs("url") \o Try \o Must \o Must \in Seq(Finding)
    BY <1>1, <2>1, Concatenated
  <2>3. Needs("url") \o Try \o Must \o Must \o Must \in Seq(Finding)
    BY <1>1, <2>2, Concatenated
  <2> QED
    BY <2>3, StoreFinds DEF rabbot_inspect
<1>9. AskerOK(rabbot_orphans)
  <2>1. Needs("site") \o Orphans \in Seq(Finding)
    BY <1>1, <1>2, Concatenated
  <2> QED
    BY <2>1, StoreFinds DEF rabbot_orphans
<1>10. AskerOK(rabbot_graph) /\ AskerOK(rabbot_graph_focus)
  <2>1. Needs("site") \o Must \in Seq(Finding)
    BY <1>1, Concatenated
  <2>2. Needs("site") \o Must \o exportOverview \in Seq(Finding)
    BY <1>2, <2>1, Concatenated
  <2>3. Needs("site") \o Must \o exportFocus \in Seq(Finding)
    BY <1>2, <2>1, Concatenated
  <2> QED
    BY <2>2, <2>3, StoreFinds DEF rabbot_graph, rabbot_graph_focus
<1>11. AskerOK(rabbot_sitemap_coverage)
  <2>1. Needs("site") \o SitemapCoverage \in Seq(Finding)
    BY <1>1, <1>2, Concatenated
  <2> QED
    BY <2>1, StoreFinds DEF rabbot_sitemap_coverage
<1>12. AskerOK(rabbot_issues) /\ AskerOK(rabbot_report) /\ AskerOK(rabbot_report_site)
  <2>1. unknownSegment \in Seq(Finding)
    BY <1>1 DEF unknownSegment
  <2>2. Needs("site") \o unknownSegment \in Seq(Finding)
    BY <1>1, <2>1, Concatenated
  <2>3. Needs("site") \o unknownSegment \o Must \in Seq(Finding)
    BY <1>1, <2>2, Concatenated
  <2>4. unknownSegment \o BuildReportOfAll \in Seq(Finding)
    BY <1>2, <2>1, Concatenated
  <2>5. Needs("site") \o unknownSegment \o BuildReportOfOne \in Seq(Finding)
    BY <1>2, <2>2, Concatenated
  <2> QED
    BY <2>3, <2>4, <2>5, StoreFinds DEF rabbot_issues, rabbot_report, rabbot_report_site
<1> QED
  BY <1>3, <1>4, <1>5, <1>6, <1>7, <1>9, <1>10, <1>11, <1>12

LEMMA CliOwners == AskerOK(rabbot_links) /\ AskerOK(rabbot_gsc_status) /\ AskerOK(rabbot_gsc_performance)
<1>1. AskerOK(rabbot_gsc_status)
  <2> DEFINE S == Finding \cup {Owned, ByBase("absent")}
  <2>1. /\ rabbot_gsc_status.hook.steps \in Seq(S)
        /\ 2 \in DOMAIN rabbot_gsc_status.hook.steps /\ rabbot_gsc_status.hook.steps[2] = Owned
    <3>1. siteIDForURL("absent", "absent") = <<Owned, ByBase("absent")>> /\ Must = <<Read>>
      BY DEF siteIDForURL, Owned, ByBase, Must, Read
    <3>2. Needs("inspection") \in Seq(S) /\ Read \in S /\ Owned \in S /\ ByBase("absent") \in S
      BY DEF Needs, Finding, Reading, Found
    <3>3. rabbot_gsc_status.hook.steps = Must \o (siteIDForURL("absent", "absent") \o Needs("inspection"))
      BY DEF rabbot_gsc_status, withStore, Tool, Hook
    <3> HIDE DEF S
    <3>4. /\ <<Read>> \o (<<Owned, ByBase("absent")>> \o Needs("inspection")) \in Seq(S)
         /\ 2 \in DOMAIN (<<Read>> \o (<<Owned, ByBase("absent")>> \o Needs("inspection"))) /\ (<<Read>> \o (<<Owned, ByBase("absent")>> \o Needs("inspection")))[2] = Owned
      BY <3>2, OwnerSecond
    <3> QED
      BY <3>1, <3>2, <3>3, <3>4
  <2>2. rabbot_gsc_status \in FailureIsAbsence
    BY DEF FailureIsAbsence
  <2>3. "absent" \in rabbot_gsc_status.bridge /\ rabbot_gsc_status.endpoint.absence \in rabbot_gsc_status.client
    BY DEF rabbot_gsc_status, withStore, Tool, Direct, Endpoint
  <2> QED
    BY <2>1, <2>2, <2>3, FindsStatus
<1>2. AskerOK(rabbot_gsc_performance)
  <2> DEFINE S == {Read, Indifferent, ByBase("value")}
  <2>1. /\ rabbot_gsc_performance.hook.steps \in Seq(S)
        /\ 2 \in DOMAIN rabbot_gsc_performance.hook.steps /\ rabbot_gsc_performance.hook.steps[2] = Indifferent
    <3>1. siteIDForURL("value", "value") = <<Indifferent, ByBase("value")>> /\ Must = <<Read>>
      BY DEF siteIDForURL, Indifferent, ByBase, Must, Read
    <3>2. Must \in Seq(S) /\ Read \in S /\ Indifferent \in S /\ ByBase("value") \in S
      BY DEF Must, Read
    <3>3. rabbot_gsc_performance.hook.steps = Must \o (siteIDForURL("value", "value") \o Must)
      BY DEF rabbot_gsc_performance, withStore, Tool, Hook
    <3> HIDE DEF S
    <3>4. /\ <<Read>> \o (<<Indifferent, ByBase("value")>> \o Must) \in Seq(S)
         /\ 2 \in DOMAIN (<<Read>> \o (<<Indifferent, ByBase("value")>> \o Must)) /\ (<<Read>> \o (<<Indifferent, ByBase("value")>> \o Must))[2] = Indifferent
      BY <3>2, OwnerSecond
    <3> QED
      BY <3>1, <3>2, <3>3, <3>4
  <2>2. rabbot_gsc_performance \in AbsenceIsEmpty
    BY DEF AbsenceIsEmpty
  <2> QED
    BY <2>1, <2>2, FindsSearches
<1>3. AskerOK(rabbot_links)
  <2> DEFINE S == Finding \cup {Owned, ByBase("absent")}
  <2>1. /\ rabbot_links.hook.steps \in Seq(S)
        /\ 2 \in DOMAIN rabbot_links.hook.steps /\ rabbot_links.hook.steps[2] = Found("site")
    <3>1. siteIDForURL("absent", "error") = <<Found("site"), ByBase("absent")>> /\ Must = <<Read>>
      BY DEF siteIDForURL, Found, ByBase, Must, Read
    <3>2. Read \in S /\ Found("site") \in S /\ ByBase("absent") \in S
      BY DEF Finding, Reading
    <3>3. BlastRadiusCard \in Seq(S)
      <4>1. Reading \subseteq S
        BY DEF Finding
      <4> HIDE DEF S
      <4> QED
        BY <4>1, RowReads
    <3>4. rabbot_links.hook.steps = Must \o (siteIDForURL("absent", "error") \o BlastRadiusCard)
      BY DEF rabbot_links, withStore, Tool, Hook
    <3> HIDE DEF S
    <3>5. /\ <<Read>> \o (<<Found("site"), ByBase("absent")>> \o BlastRadiusCard) \in Seq(S)
         /\ 2 \in DOMAIN (<<Read>> \o (<<Found("site"), ByBase("absent")>> \o BlastRadiusCard)) /\ (<<Read>> \o (<<Found("site"), ByBase("absent")>> \o BlastRadiusCard))[2] = Found("site")
      BY <3>3, <3>2, OwnerSecond
    <3> QED
      BY <3>1, <3>2, <3>3, <3>4, <3>5
  <2>2. rabbot_links \in FailureIsAbsence
    BY DEF FailureIsAbsence
  <2>3. "absent" \in rabbot_links.bridge /\ rabbot_links.endpoint.absence \in rabbot_links.client
    BY DEF rabbot_links, withStore, Tool, Direct, Endpoint
  <2> QED
    BY <2>1, <2>2, <2>3, FindsStatus
<1> QED
  BY <1>1, <1>2, <1>3

LEMMA AskersOK == \A a \in Askers : AskerOK(a)
<1>1. \A a \in McpTools : AskerOK(a)
  BY McpReads, McpChanges, TheRestOfTheTools DEF McpTools, what_links_to
<1>2. \A a \in CliCommands : AskerOK(a)
  BY CliChanges, CliReads, CliOwners, TheRestOfTheTools DEF CliCommands
<1> QED
  BY <1>1, <1>2 DEF Askers

-----------------------------------------------------------------------------
(* The call.                                                               *)
Flaws == UNION {Refusals(a) \cup Answered(a) : a \in Askers}
CallState ==
  [pc : {"idle", "asked", "serving", "answered"}, asker : Askers,
   flaw : Flaws, named : SUBSET Things, at : Nat,
   outcome : {"none", "value", "absent", "error"}, had : SUBSET Things, lacked : SUBSET Things,
   troubled : BOOLEAN, wrote : BOOLEAN]

\* Of the steps that are done: what was looked for has been there, what was to be
\* written is.
StepsDone(c) ==
  \A i \in 1..(c.at - 1) :
    /\ c.asker.hook.steps[i].of \in c.named /\ Sure(c.asker.hook.steps[i]) => c.asker.hook.steps[i].of \in c.had
    /\ c.asker.hook.steps[i].does # "read" => c.wrote

\* The history of an open call is true.
Followed(c, now) ==
  /\ NamedBy(c.asker) \ c.asker.handler.optional \subseteq c.named
  /\ c.named \cap now \subseteq c.had /\ c.named \ now \subseteq c.lacked

CallOK(c, now) ==
  /\ c \in CallState
  /\ c.named \subseteq NamedBy(c.asker) /\ c.had \cup c.lacked = c.named
  /\ c.at \in 1..Len(c.asker.hook.steps) + 1
  /\ c.pc = "asked" => c.flaw \in Refusals(c.asker) \cup Answered(c.asker) /\ c.at = 1 /\ Followed(c, now)
  /\ c.pc = "serving" => c.flaw \in Answered(c.asker) /\ StepsDone(c) /\ Followed(c, now)

ReadInv ==
  /\ stored \in SUBSET Things /\ Possible(stored)
  /\ answering \in {"daemon", "graphless", "another", "nobody"}
  /\ CallOK(call, stored)
  /\ turns \in 0..MaxTurns /\ readFaults \in 0..MaxReadFaults
  /\ HonestAnswer

LEMMA NoCallOK == ASSUME NEW now PROVE CallOK(NoCall, now)
<1>1. get_status \in Askers
  BY DEF Askers, McpTools
<1>2. Len(get_status.hook.steps) \in Nat
  BY <1>1, AskersOK DEF AskerOK
<1>3. NoCall \in CallState
  <2>1. "none" \in Flaws
    BY <1>1 DEF Flaws, Answered
  <2> QED
    BY <1>1, <2>1 DEF NoCall, CallState
<1> QED
  BY <1>1, <1>2, <1>3 DEF CallOK, NoCall

LEMMA SeenCall ==
  ASSUME NEW c \in CallState, NEW now \in SUBSET Things
  PROVE  /\ Seen(c, now) \in CallState
         /\ Seen(c, now).pc = c.pc /\ Seen(c, now).asker = c.asker /\ Seen(c, now).flaw = c.flaw
         /\ Seen(c, now).named = c.named /\ Seen(c, now).at = c.at /\ Seen(c, now).outcome = c.outcome
         /\ Seen(c, now).had = c.had \cup (c.named \cap now)
         /\ Seen(c, now).lacked = c.lacked \cup (c.named \ now)
         /\ Seen(c, now).troubled = c.troubled /\ Seen(c, now).wrote = c.wrote
  BY DEF Seen, CallState

\* An open call stays what it is when the store changes.
LEMMA SeenOK ==
  ASSUME NEW c, NEW old, CallOK(c, old), NEW now \in SUBSET Things
  PROVE  CallOK(Seen(c, now), now)
<1> DEFINE d == Seen(c, now)
<1>1. c \in CallState
  BY DEF CallOK
<1>2. /\ d \in CallState /\ d.pc = c.pc /\ d.asker = c.asker /\ d.flaw = c.flaw /\ d.named = c.named
      /\ d.at = c.at /\ d.had = c.had \cup (c.named \cap now) /\ d.lacked = c.lacked \cup (c.named \ now)
      /\ d.wrote = c.wrote
  BY <1>1, SeenCall
<1> HIDE DEF d
<1>3. StepsDone(c) => StepsDone(d)
  BY <1>2 DEF StepsDone
<1>4. NamedBy(c.asker) \ c.asker.handler.optional \subseteq c.named => Followed(d, now)
  BY <1>2 DEF Followed
<1>5. d.had \cup d.lacked = d.named
  BY <1>1, <1>2 DEF CallOK
<1>6. CallOK(d, now)
  BY <1>2, <1>3, <1>4, <1>5 DEF CallOK, Followed
<1> QED
  BY <1>6 DEF d

LEMMA ResultFields ==
  ASSUME call \in CallState, NEW o \in {"value", "absent", "error"}
  PROVE  /\ Result(o) \in CallState /\ [Result(o) EXCEPT !.troubled = TRUE] \in CallState
         /\ \A d \in {Result(o), [Result(o) EXCEPT !.troubled = TRUE]} :
              /\ d.pc = "answered" /\ d.asker = call.asker /\ d.flaw = call.flaw /\ d.named = call.named
              /\ d.at = call.at /\ d.outcome = o /\ d.had = call.had /\ d.lacked = call.lacked
              /\ d.wrote = call.wrote
         /\ Result(o).troubled = call.troubled /\ [Result(o) EXCEPT !.troubled = TRUE].troubled = TRUE
  BY DEF Result, CallState

\* A call that has its answer.
LEMMA ResultOK ==
  ASSUME NEW now, CallOK(call, now), NEW o \in {"value", "absent", "error"}
  PROVE  CallOK(Result(o), now) /\ CallOK([Result(o) EXCEPT !.troubled = TRUE], now)
<1>1. call \in CallState
  BY DEF CallOK
<1> QED
  BY <1>1, ResultFields DEF CallOK

\* What the hook says comes through the layers.
LEMMA HeardRight ==
  ASSUME NEW says \in {"absent", "value", "error"},
         says = "absent" => call.asker.endpoint.absence \in call.asker.client /\ "absent" \in call.asker.bridge
  PROVE  Heard(says) = says
  BY DEF Heard, Decoded

LEMMA ReadInit == ReadSurfaceInit => ReadInv
<1> SUFFICES ASSUME ReadSurfaceInit PROVE ReadInv
  OBVIOUS
<1>1. CallOK(call, stored)
  BY NoCallOK DEF ReadSurfaceInit
<1>2. HonestAnswer
  BY DEF ReadSurfaceInit, NoCall, HonestAnswer
<1> QED
  BY <1>1, <1>2, ReadSurfaceAssumption DEF ReadSurfaceInit, ReadInv

\* The statement that a hook has come to.
LEMMA StepFacts ==
  ASSUME CallOK(call, stored), InHook
  PROVE  /\ call.at \in 1..Len(call.asker.hook.steps) /\ StepOK(call.asker, TheStep)
         /\ call.flaw \in Answered(call.asker) /\ Followed(call, stored) /\ StepsDone(call)
<1>1. call.asker \in Askers /\ call.at \in Nat
  BY DEF CallOK, CallState
<1>2. AskerOK(call.asker)
  BY <1>1, AskersOK
<1>3. call.at \in 1..Len(call.asker.hook.steps)
  BY <1>1, <1>2 DEF CallOK, InHook, AskerOK
<1>4. StepOK(call.asker, TheStep)
  BY <1>2, <1>3 DEF AskerOK, TheStep
<1> QED
  BY <1>3, <1>4 DEF CallOK, InHook

\* A call that has come to the end of its hook has all that it says.
LEMMA AllDone ==
  ASSUME CallOK(call, stored), HookAnswers
  PROVE  /\ call.flaw \in Answered(call.asker) /\ call.named \subseteq call.had
         /\ Acts(call.asker) => call.wrote
<1>1. call.asker \in Askers /\ call.at \in Nat
  BY DEF CallOK, CallState
<1>2. AskerOK(call.asker)
  BY <1>1, AskersOK
<1>3. 1..(call.at - 1) = DOMAIN call.asker.hook.steps
  BY <1>1, <1>2 DEF CallOK, HookAnswers, AskerOK
<1>4. StepsDone(call) /\ call.flaw \in Answered(call.asker)
  BY DEF CallOK, HookAnswers
<1>5. Acts(call.asker) => call.wrote
  BY <1>3, <1>4 DEF Acts, StepsDone
<1>6. ASSUME NEW e \in call.named PROVE e \in call.had
  <2>1. PICK i \in DOMAIN call.asker.hook.steps :
          call.asker.hook.steps[i].of = e /\ Sure(call.asker.hook.steps[i])
    BY <1>2, <1>6 DEF CallOK, AskerOK
  <2> QED
    BY <1>3, <1>4, <1>6, <2>1 DEF StepsDone
<1> QED
  BY <1>4, <1>5, <1>6

\* What a hook says of a thing that is, or is not, there.
LEMMA SaidHonestly ==
  ASSUME CallOK(call, stored), InHook, NEW says \in Says(TheStep) \ {"on"}
  PROVE  /\ says \in {"absent", "value", "error"} /\ Heard(says) = says
         /\ says = "absent" => call.lacked # {}
         /\ says = "value" =>
              call.asker \in AbsenceIsEmpty /\ ~Acts(call.asker) /\ call.named \subseteq {"site"}
         /\ says = "error" =>
              \/ "absent" \notin call.asker.bridge /\ call.lacked # {}
              \/ call.asker.hook = AddSite /\ call.had # {}
<1> DEFINE s == TheStep
<1>1. StepOK(call.asker, s) /\ Followed(call, stored)
  BY StepFacts
<1>2. call.named \subseteq NamedBy(call.asker)
  BY DEF CallOK
<1>3. CASE There(s)
  <2>1. says = "error" /\ call.asker.hook = AddSite /\ s.of \in Things \ call.asker.handler.optional
    BY <1>1, <1>3 DEF Says, StepOK
  <2>2. s.of \in NamedBy(call.asker)
    <3>1. call.at \in 1..Len(call.asker.hook.steps)
      BY StepFacts
    <3>2. call.at \in DOMAIN call.asker.hook.steps
      <4>1. call.asker \in Askers
        BY DEF CallOK, CallState
      <4> QED
        BY <3>1, <4>1, AskersOK DEF AskerOK
    <3> QED
      BY <2>1, <3>2 DEF NamedBy, TheStep
  <2>3. s.of \in call.named /\ s.of \in stored
    BY <1>1, <1>3, <2>1, <2>2 DEF Followed, There
  <2>4. call.had # {}
    BY <1>1, <2>3 DEF Followed
  <2>5. Heard(says) = says
    BY <2>1, HeardRight
  <2> QED
    BY <2>1, <2>4, <2>5
<1>4. CASE ~There(s)
  <2>1. s.of \in call.lacked
    BY <1>1, <1>4 DEF There, Followed
  <2>2. says \in s.absent /\ says # "on"
    BY <1>4 DEF Says
  <2>3. says \in {"absent", "value", "error"}
    BY <1>1, <2>2 DEF StepOK, Answers
  <2>4. Heard(says) = says
    BY <1>1, <2>2, <2>3, HeardRight DEF StepOK
  <2>5. says = "value" =>
          call.asker \in AbsenceIsEmpty /\ ~Acts(call.asker) /\ call.named \subseteq {"site"}
    BY <1>1, <1>2, <2>2 DEF StepOK
  <2>6. says = "error" => "absent" \notin call.asker.bridge
    BY <1>1, <2>2 DEF StepOK
  <2> QED
    BY <2>1, <2>3, <2>4, <2>5, <2>6
<1> QED
  BY <1>3, <1>4

\* What a hook says of a statement that fails.
LEMMA FailedHonestly ==
  ASSUME CallOK(call, stored), InHook, NEW says \in TheStep.failed
  PROVE  /\ says \in Answers
         /\ says = "on" => TheStep.does = "read" /\ ~Sure(TheStep)
         /\ says # "on" => Heard(says) = says
         /\ says = "absent" => call.asker \in FailureIsAbsence
         /\ says = "value" =>
              call.asker \in AbsenceIsEmpty /\ ~Acts(call.asker) /\ call.named \subseteq {"site"}
<1>1. StepOK(call.asker, TheStep)
  BY StepFacts
<1>2. says \in Answers
  BY <1>1 DEF StepOK
<1>3. says # "on" => Heard(says) = says
  BY <1>1, <1>2, HeardRight DEF StepOK, Answers
<1> QED
  BY <1>1, <1>2, <1>3 DEF StepOK, CallOK, Sure

\* A hook that goes on has done one more step.
LEMMA GoesOn ==
  ASSUME CallOK(call, stored), InHook, NEW d \in CallState,
         d.pc = "serving", d.asker = call.asker, d.flaw = call.flaw, d.named = call.named,
         d.at = call.at + 1, call.had \subseteq d.had, d.had \cup d.lacked = d.named, call.wrote => d.wrote,
         TheStep.of \in call.named /\ Sure(TheStep) => TheStep.of \in d.had,
         TheStep.does # "read" => d.wrote,
         NEW now, d.named \cap now \subseteq d.had, d.named \ now \subseteq d.lacked
  PROVE  CallOK(d, now)
<1>1. /\ call.at \in 1..Len(call.asker.hook.steps) /\ call.flaw \in Answered(call.asker) /\ Followed(call, stored)
      /\ StepsDone(call)
  BY StepFacts
<1>2. Len(call.asker.hook.steps) \in Nat
  <2>1. call.asker \in Askers
    BY DEF CallOK, CallState
  <2> QED
    BY <2>1, AskersOK DEF AskerOK
<1>3. d.at \in 1..Len(d.asker.hook.steps) + 1
  BY <1>1, <1>2
<1>4. StepsDone(d)
  <2> SUFFICES ASSUME NEW i \in 1..(d.at - 1)
               PROVE  /\ d.asker.hook.steps[i].of \in d.named /\ Sure(d.asker.hook.steps[i])
                           => d.asker.hook.steps[i].of \in d.had
                      /\ d.asker.hook.steps[i].does # "read" => d.wrote
    BY DEF StepsDone
  <2>1. CASE i = call.at
    BY <2>1 DEF TheStep
  <2>2. CASE i # call.at
    <3>1. i \in 1..(call.at - 1)
      BY <1>1, <1>2, <2>2
    <3> QED
      BY <1>1, <3>1 DEF StepsDone
  <2> QED
    BY <2>1, <2>2
<1>5. Followed(d, now)
  BY <1>1 DEF Followed
<1> QED
  BY <1>1, <1>3, <1>4, <1>5 DEF CallOK

LEMMA AskStep ==
  ASSUME ReadInv, NEW a \in Askers, NEW flaw \in Refusals(a) \cup Answered(a),
         NEW omitted \in SUBSET a.handler.optional, Ask(a, flaw, NamedBy(a) \ omitted)
  PROVE  ReadInv'
<1> DEFINE c == [NoCall EXCEPT !.pc = "asked", !.asker = a, !.named = NamedBy(a) \ omitted, !.flaw = flaw]
<1>1. AskerOK(a)
  BY AskersOK
<1>2. NoCall \in CallState /\ NoCall.at = 1 /\ NoCall.had = {} /\ NoCall.lacked = {}
  BY NoCallOK DEF CallOK, NoCall
<1>4. flaw \in Flaws
  BY DEF Flaws
<1>5. NamedBy(a) \subseteq Things
  BY DEF NamedBy
<1>6. /\ c \in CallState /\ c.pc = "asked" /\ c.asker = a /\ c.named = NamedBy(a) \ omitted /\ c.flaw = flaw
      /\ c.at = 1 /\ c.had = {} /\ c.lacked = {}
  BY <1>2, <1>4, <1>5 DEF CallState
<1> HIDE DEF c
<1>7. call' = Seen(c, stored) /\ UNCHANGED <<stored, answering, turns, readFaults>>
  BY DEF Ask, c
<1>8. stored \in SUBSET Things
  BY DEF ReadInv
<1> DEFINE d == Seen(c, stored)
<1>9. /\ d \in CallState /\ d.pc = "asked" /\ d.asker = a /\ d.named = NamedBy(a) \ omitted /\ d.flaw = flaw
      /\ d.at = 1 /\ d.had = d.named \cap stored /\ d.lacked = d.named \ stored
  BY <1>6, <1>8, SeenCall
<1> HIDE DEF d
<1>10. CallOK(d, stored)
  BY <1>1, <1>9 DEF CallOK, Followed, AskerOK
<1>11. call' = d
  BY <1>7 DEF d
<1> QED
  BY <1>7, <1>9, <1>10, <1>11 DEF ReadInv, HonestAnswer

\* A call that ends.
LEMMA EndStep ==
  ASSUME ReadInv, NEW o \in {"value", "absent", "error"}, NEW d,
         d = Result(o) \/ d = [Result(o) EXCEPT !.troubled = TRUE],
         o = "absent" => call.lacked # {} \/ (d.troubled /\ call.asker \in FailureIsAbsence),
         o = "value" =>
           /\ call.flaw \in Answered(call.asker)
           /\ Acts(call.asker) => call.wrote
           /\ call.named \ (IF call.asker \in AbsenceIsEmpty THEN {"site"} ELSE {}) \subseteq call.had,
         o = "error" =>
           \/ call.flaw \in Refusals(call.asker) \/ d.troubled \/ ("absent" \notin call.asker.bridge /\ call.lacked # {})
           \/ call.asker.hook = AddSite /\ call.had # {},
         call' = d, stored' = stored, turns' \in 0..MaxTurns, readFaults' \in 0..MaxReadFaults,
         answering' \in {"daemon", "graphless", "another", "nobody"}
  PROVE  ReadInv'
<1>1. CallOK(d, stored)
  BY ResultOK DEF ReadInv
<1>2. /\ d.pc = "answered" /\ d.asker = call.asker /\ d.flaw = call.flaw /\ d.named = call.named
      /\ d.outcome = o /\ d.had = call.had /\ d.lacked = call.lacked /\ d.wrote = call.wrote
  <2>1. d \in {Result(o), [Result(o) EXCEPT !.troubled = TRUE]}
    OBVIOUS
  <2>2. call \in CallState
    BY DEF ReadInv, CallOK
  <2>3. /\ Result(o).outcome = o /\ Result(o).pc = "answered"
        /\ \A e \in {Result(o), [Result(o) EXCEPT !.troubled = TRUE]} :
             /\ e.pc = "answered" /\ e.asker = call.asker /\ e.flaw = call.flaw /\ e.named = call.named
             /\ e.outcome = o /\ e.had = call.had /\ e.lacked = call.lacked /\ e.wrote = call.wrote
    BY <2>2, ResultFields
  <2> QED
    BY <2>1, <2>3
<1>3. HonestAnswer'
  <2>1. call'.outcome = o /\ call'.asker = call.asker /\ call'.lacked = call.lacked
    BY <1>2
  <2>2. call'.flaw = call.flaw /\ call'.wrote = call.wrote /\ call'.named = call.named /\ call'.had = call.had
    BY <1>2
  <2>3. call'.troubled = d.troubled
    OBVIOUS
  <2>4. CASE o = "absent"
    BY <2>1, <2>3, <2>4 DEF HonestAnswer
  <2>5. CASE o = "value"
    BY <2>1, <2>2, <2>5 DEF HonestAnswer
  <2>6. CASE o = "error"
    BY <2>1, <2>2, <2>3, <2>6 DEF HonestAnswer
  <2> QED
    BY <2>4, <2>5, <2>6
<1> QED
  BY <1>1, <1>3 DEF ReadInv

LEMMA HookGoesOnStep == ASSUME ReadInv, HookGoesOn PROVE ReadInv'
<1> DEFINE s == TheStep
           wrote == call.wrote \/ s.does # "read"
           c == [call EXCEPT !.at = call.at + 1, !.wrote = wrote]
           d == Seen(c, stored')
<1>1. call \in CallState /\ CallOK(call, stored) /\ InHook /\ call.pc = "serving"
  BY DEF ReadInv, CallOK, HookGoesOn, InHook
<1>2. StepOK(call.asker, s) /\ Followed(call, stored)
  BY <1>1, StepFacts
<1>3. /\ stored' = StoredAfter(s.does) /\ "on" \in Says(s)
      /\ call' = d /\ UNCHANGED <<answering, turns, readFaults>>
  BY DEF HookGoesOn
<1>4. stored' \in SUBSET Things /\ Possible(stored)'
  BY <1>3 DEF StoredAfter, ReadInv, Possible, Things
<1>5. /\ c \in CallState /\ c.pc = "serving" /\ c.asker = call.asker /\ c.flaw = call.flaw
      /\ c.named = call.named /\ c.at = call.at + 1 /\ c.had = call.had /\ c.lacked = call.lacked
      /\ c.wrote = wrote
  <2>1. wrote \in BOOLEAN /\ call.at + 1 \in Nat
    BY <1>1 DEF CallState
  <2> HIDE DEF s, wrote
  <2> QED
    BY <1>1, <2>1 DEF CallState
<1> HIDE DEF s, c
<1>6. /\ d \in CallState /\ d.pc = "serving" /\ d.asker = call.asker /\ d.flaw = call.flaw
      /\ d.named = call.named /\ d.at = call.at + 1
      /\ d.had = call.had \cup (call.named \cap stored') /\ d.lacked = call.lacked \cup (call.named \ stored')
      /\ d.wrote = c.wrote
  BY <1>4, <1>5, SeenCall
<1> HIDE DEF d
<1>7. s.of \in call.named /\ Sure(s) => s.of \in d.had
  BY <1>2, <1>3, <1>6 DEF Says, There, Sure, Followed
<1>8. CallOK(d, stored')
  <2>1. d.had \cup d.lacked = d.named
    BY <1>1, <1>6 DEF CallOK
  <2>2. (call.wrote => d.wrote) /\ (s.does # "read" => d.wrote)
    BY <1>5, <1>6
  <2>3. d.named \cap stored' \subseteq d.had /\ d.named \ stored' \subseteq d.lacked /\ call.had \subseteq d.had
    BY <1>6
  <2> QED
    BY <1>1, <1>6, <1>7, <2>1, <2>2, <2>3, GoesOn DEF s
<1>9. HonestAnswer'
  BY <1>3, <1>6 DEF HonestAnswer
<1> QED
  BY <1>3, <1>4, <1>8, <1>9 DEF ReadInv

LEMMA StatementFailsStep == ASSUME ReadInv, StatementFails PROVE ReadInv'
<1> DEFINE s == TheStep
<1>1. call \in CallState /\ CallOK(call, stored) /\ InHook /\ call.pc = "serving"
  BY DEF ReadInv, CallOK, StatementFails, InHook
<1>2. UNCHANGED <<stored, answering, turns>> /\ readFaults' \in 0..MaxReadFaults
  BY ReadSurfaceAssumption DEF StatementFails, ReadInv
<1>3. PICK says \in s.failed :
        call' = IF says = "on" THEN [call EXCEPT !.at = @ + 1, !.troubled = TRUE]
                ELSE [Result(Heard(says)) EXCEPT !.troubled = TRUE]
  BY DEF StatementFails
<1>4. CASE says = "on"
  <2> DEFINE d == [call EXCEPT !.at = call.at + 1, !.troubled = TRUE]
  <2>1. s.does = "read" /\ ~Sure(s)
    BY <1>1, <1>4, FailedHonestly
  <2>2. /\ d \in CallState /\ d.pc = "serving" /\ d.asker = call.asker /\ d.flaw = call.flaw
        /\ d.named = call.named /\ d.at = call.at + 1 /\ d.had = call.had /\ d.lacked = call.lacked
        /\ d.wrote = call.wrote
    <3>1. call.at + 1 \in Nat
      BY <1>1 DEF CallState
    <3> QED
      BY <1>1, <3>1 DEF CallState
  <2> HIDE DEF d
  <2>3. call' = d
    BY <1>3, <1>4 DEF d
  <2>4. d.named \cap stored \subseteq d.had /\ d.named \ stored \subseteq d.lacked
    BY <1>1, <2>2, StepFacts DEF Followed
  <2>6. d.had \cup d.lacked = d.named
    BY <1>1, <2>2 DEF CallOK
  <2> HIDE DEF s
  <2>7. CallOK(d, stored)
    BY <1>1, <2>1, <2>2, <2>4, <2>6, GoesOn DEF s
  <2> QED
    BY <1>2, <2>2, <2>3, <2>7 DEF ReadInv, HonestAnswer
<1>5. CASE says # "on"
  <2>1. /\ says \in {"absent", "value", "error"} /\ Heard(says) = says
        /\ says = "absent" => call.asker \in FailureIsAbsence
        /\ says = "value" =>
             call.asker \in AbsenceIsEmpty /\ ~Acts(call.asker) /\ call.named \subseteq {"site"}
    BY <1>1, <1>5, FailedHonestly DEF Answers
  <2>2. call' = [Result(says) EXCEPT !.troubled = TRUE]
    BY <1>3, <1>5, <2>1
  <2>3. call.flaw \in Answered(call.asker)
    BY <1>1, StepFacts
  <2>4. [Result(says) EXCEPT !.troubled = TRUE].troubled = TRUE
    BY <1>1, <2>1, ResultFields
  <2>5. says = "value" => call.named \ (IF call.asker \in AbsenceIsEmpty THEN {"site"} ELSE {}) \subseteq call.had
    BY <2>1
  <2>6. /\ stored' = stored /\ turns' \in 0..MaxTurns /\ readFaults' \in 0..MaxReadFaults
        /\ answering' \in {"daemon", "graphless", "another", "nobody"}
    BY <1>2 DEF ReadInv
  <2> DEFINE d == [Result(says) EXCEPT !.troubled = TRUE]
  <2>7. call' = d /\ d.troubled = TRUE /\ d = [Result(says) EXCEPT !.troubled = TRUE]
    BY <2>2, <2>4
  <2> HIDE DEF d, s
  <2>8. says = "absent" => call.lacked # {} \/ (d.troubled /\ call.asker \in FailureIsAbsence)
    BY <2>1, <2>7
  <2>9. says = "value" => (Acts(call.asker) => call.wrote)
    BY <2>1
  <2>10. says = "error" =>
           \/ call.flaw \in Refusals(call.asker) \/ d.troubled \/ ("absent" \notin call.asker.bridge /\ call.lacked # {})
           \/ call.asker.hook = AddSite /\ call.had # {}
    <3>1. d.troubled
      BY <2>7
    <3> QED
      BY <3>1, Zenon
  <2> QED
    BY <2>1, <2>3, <2>5, <2>6, <2>7, <2>8, <2>9, <2>10, EndStep
<1> QED
  BY <1>4, <1>5

\* A call that ends with an error that it has an excuse for.
LEMMA TroubledStep ==
  ASSUME ReadInv, call' = [Result("error") EXCEPT !.troubled = TRUE], stored' = stored,
         turns' \in 0..MaxTurns, readFaults' \in 0..MaxReadFaults,
         answering' \in {"daemon", "graphless", "another", "nobody"}
  PROVE  ReadInv'
<1> DEFINE d == [Result("error") EXCEPT !.troubled = TRUE]
<1>1. call \in CallState
  BY DEF ReadInv, CallOK
<1>2. d.troubled = TRUE
  BY <1>1, ResultFields
<1>3. d = [Result("error") EXCEPT !.troubled = TRUE] /\ call' = d
  OBVIOUS
<1> HIDE DEF d
<1>4. \/ call.flaw \in Refusals(call.asker) \/ d.troubled \/ ("absent" \notin call.asker.bridge /\ call.lacked # {})
      \/ call.asker.hook = AddSite /\ call.had # {}
  <2>1. d.troubled
    BY <1>2
  <2> QED
    BY <2>1
<1> QED
  BY <1>3, <1>4, EndStep

LEMMA CallStep ==
  ASSUME ReadInv, RefuseInput \/ NotServed \/ RunHook \/ HookSays \/ HookAnswers \/ GiveUp \/ Forget
  PROVE  ReadInv'
<1>0. /\ call \in CallState /\ CallOK(call, stored) /\ stored \in SUBSET Things /\ Possible(stored)
      /\ answering \in {"daemon", "graphless", "another", "nobody"}
      /\ turns \in 0..MaxTurns /\ readFaults \in 0..MaxReadFaults
  BY DEF ReadInv, CallOK
<1>1. CASE RefuseInput
  <2>1. call.flaw \in Refusals(call.asker)
    BY <1>1 DEF RefuseInput
  <2> DEFINE d == Result("error")
  <2>2. call' = d /\ d = Result("error") /\ UNCHANGED <<stored, answering, turns, readFaults>>
    BY <1>1 DEF RefuseInput
  <2> HIDE DEF d
  <2> QED
    BY <1>0, <2>1, <2>2, EndStep
<1>2. CASE NotServed
  BY <1>0, <1>2, TroubledStep DEF NotServed
<1>3. CASE RunHook
  <2> DEFINE d == [call EXCEPT !.pc = "serving"]
  <2>1. /\ d \in CallState /\ d.pc = "serving" /\ d.asker = call.asker /\ d.flaw = call.flaw
        /\ d.named = call.named /\ d.at = call.at /\ d.had = call.had /\ d.lacked = call.lacked
        /\ d.wrote = call.wrote
    BY <1>0 DEF CallState
  <2>2. call' = d /\ UNCHANGED <<stored, answering, turns, readFaults>>
    BY <1>3 DEF RunHook
  <2>3. call.flaw \in Answered(call.asker) /\ call.at = 1 /\ Followed(call, stored)
    BY <1>0, <1>3 DEF RunHook, CallOK
  <2> HIDE DEF d
  <2>4. StepsDone(d)
    BY <2>1, <2>3 DEF StepsDone
  <2>5. Followed(d, stored)
    BY <2>1, <2>3 DEF Followed
  <2>6. CallOK(d, stored)
    BY <1>0, <2>1, <2>3, <2>4, <2>5 DEF CallOK
  <2> QED
    BY <1>0, <2>1, <2>2, <2>6 DEF ReadInv, HonestAnswer
<1>4. CASE HookSays
  <2>1. InHook /\ UNCHANGED <<stored, answering, turns, readFaults>>
    BY <1>4 DEF HookSays
  <2>2. PICK says \in Says(TheStep) \ {"on"} : call' = Result(Heard(says))
    BY <1>4 DEF HookSays
  <2>3. /\ says \in {"absent", "value", "error"} /\ Heard(says) = says
        /\ says = "absent" => call.lacked # {}
        /\ says = "value" =>
             call.asker \in AbsenceIsEmpty /\ ~Acts(call.asker) /\ call.named \subseteq {"site"}
        /\ says = "error" =>
             \/ "absent" \notin call.asker.bridge /\ call.lacked # {}
             \/ call.asker.hook = AddSite /\ call.had # {}
    BY <1>0, <2>1, SaidHonestly
  <2>4. call.flaw \in Answered(call.asker)
    BY <1>0, <2>1, StepFacts
  <2>5. says = "value" => call.named \ (IF call.asker \in AbsenceIsEmpty THEN {"site"} ELSE {}) \subseteq call.had
    BY <2>3
  <2>6. call' = Result(says)
    BY <2>2, <2>3
  <2> QED
    BY <1>0, <2>1, <2>3, <2>4, <2>5, <2>6, EndStep
<1>5. CASE HookAnswers
  <2>1. /\ call.flaw \in Answered(call.asker) /\ call.named \subseteq call.had
        /\ Acts(call.asker) => call.wrote
    BY <1>0, <1>5, AllDone
  <2>2. call.named \ (IF call.asker \in AbsenceIsEmpty THEN {"site"} ELSE {}) \subseteq call.had
    BY <2>1
  <2> QED
    BY <1>0, <1>5, <2>1, <2>2, EndStep DEF HookAnswers
<1>6. CASE GiveUp
  <2>1. readFaults' \in 0..MaxReadFaults
    BY <1>0, <1>6, ReadSurfaceAssumption DEF GiveUp
  <2> QED
    BY <1>0, <1>6, <2>1, TroubledStep DEF GiveUp
<1>7. CASE Forget
  <2>1. NoCall.pc = "idle"
    BY DEF NoCall
  <2> QED
    BY <1>0, <1>7, <2>1, NoCallOK DEF Forget, ReadInv, HonestAnswer
<1> QED
  BY <1>1, <1>2, <1>3, <1>4, <1>5, <1>6, <1>7

\* The store changes.
LEMMA BecomesStep ==
  ASSUME ReadInv, NEW now \in SUBSET Things, Possible(now), Becomes(now)
  PROVE  ReadInv'
<1>0. call \in CallState /\ CallOK(call, stored)
  BY DEF ReadInv, CallOK
<1>1. turns' \in 0..MaxTurns /\ stored' = now /\ UNCHANGED <<answering, readFaults>>
  BY ReadSurfaceAssumption DEF Becomes, Turn, ReadInv
<1>2. CASE call.pc \in {"asked", "serving"}
  <2>1. call' = Seen(call, now)
    BY <1>2 DEF Becomes
  <2>2. CallOK(Seen(call, now), now)
    BY <1>0, SeenOK
  <2>3. Seen(call, now).pc = call.pc
    BY <1>0, SeenCall
  <2> QED
    BY <1>1, <1>2, <2>1, <2>2, <2>3 DEF ReadInv, HonestAnswer
<1>3. CASE call.pc \notin {"asked", "serving"}
  <2>1. call' = call
    BY <1>3 DEF Becomes
  <2>2. CallOK(call, now)
    BY <1>0, <1>3 DEF CallOK
  <2> QED
    BY <1>1, <2>1, <2>2 DEF ReadInv, HonestAnswer
<1> QED
  BY <1>2, <1>3

LEMMA ReadStep == ReadInv /\ [ReadSurfaceNext]_readVars => ReadInv'
<1> SUFFICES ASSUME ReadInv, [ReadSurfaceNext]_readVars PROVE ReadInv'
  OBVIOUS
<1>0. stored \in SUBSET Things /\ Possible(stored)
  BY DEF ReadInv
<1>1. CASE UNCHANGED readVars
  BY <1>1 DEF readVars, ReadInv, HonestAnswer
<1>2. CASE \E a \in Askers : \E flaw \in Refusals(a) \cup Answered(a) :
             \E omitted \in SUBSET a.handler.optional : Ask(a, flaw, NamedBy(a) \ omitted)
  BY <1>2, AskStep
<1>3. CASE RefuseInput \/ NotServed \/ RunHook \/ HookSays \/ HookAnswers \/ GiveUp \/ Forget
  BY <1>3, CallStep
<1>4. CASE HookGoesOn
  BY <1>4, HookGoesOnStep
<1>5. CASE StatementFails
  BY <1>5, StatementFailsStep
<1>6. ASSUME NEW thing \in Things, Appears(thing) PROVE ReadInv'
  BY <1>0, <1>6, BecomesStep DEF Appears
<1>7. CASE SegmentDropped
  <2>1. Possible(stored \ {"segment"})
    BY <1>0 DEF Possible
  <2> QED
    BY <1>0, <1>7, <2>1, BecomesStep DEF SegmentDropped
<1>8. CASE Purge
  BY <1>8, BecomesStep DEF Purge, Possible
<1>9. ASSUME NEW who \in {"daemon", "graphless", "another", "nobody"}, DaemonTurns(who) PROVE ReadInv'
  <2>1. turns' \in 0..MaxTurns /\ UNCHANGED <<stored, readFaults>> /\ answering' = who
    BY <1>9, ReadSurfaceAssumption DEF DaemonTurns, Turn, ReadInv
  <2>2. CASE call' = call
    BY <2>1, <2>2 DEF ReadInv, HonestAnswer
  <2>3. CASE call' = [Result("error") EXCEPT !.troubled = TRUE]
    BY <2>1, <2>3, TroubledStep DEF ReadInv
  <2> QED
    BY <1>9, <2>2, <2>3 DEF DaemonTurns
<1> QED
  BY <1>1, <1>2, <1>3, <1>4, <1>5, <1>6, <1>7, <1>8, <1>9 DEF ReadSurfaceNext

\* "Not found", a value and an error are each said for what happened in the call, for
\* every tool and command, any number of changes of the store and of failures.
THEOREM HonestAnswerCorrect == ReadSurfaceSpec => []HonestAnswer
<1>1. ReadInv => HonestAnswer
  BY DEF ReadInv
<1> QED
  BY <1>1, ReadInit, ReadStep, PTL DEF ReadSurfaceSpec

-----------------------------------------------------------------------------
(* The suite: each of its behaviours is one of every component.            *)

LEMMA SuiteOfComponents ==
  SuiteSpec => /\ SearchConsoleSpec /\ OwnershipSpec /\ ConfigFileSpec /\ LifecycleSpec /\ StoreTxSpec
               /\ DeliverySpec /\ ReadSurfaceSpec
<1>1. SuiteInit => /\ SearchConsoleInit /\ OwnershipInit /\ ConfigFileInit /\ LifecycleInit /\ StoreTxInit
                   /\ DeliveryInit /\ ReadSurfaceInit
  BY DEF SuiteInit
<1>2. [SuiteNext]_SuiteVars =>
        /\ [SearchConsoleNext]_gscVars /\ [OwnershipNext]_ownVars /\ [ConfigFileNext]_configVars
        /\ [LifecycleNext]_lifeVars /\ [StoreTxNext]_txVars /\ [DeliveryNext]_deliveryVars
        /\ [ReadSurfaceNext]_readVars
  <2> SUFFICES ASSUME [SuiteNext]_SuiteVars
               PROVE  /\ [SearchConsoleNext]_gscVars /\ [OwnershipNext]_ownVars /\ [ConfigFileNext]_configVars
                      /\ [LifecycleNext]_lifeVars /\ [StoreTxNext]_txVars /\ [DeliveryNext]_deliveryVars
                      /\ [ReadSurfaceNext]_readVars
    OBVIOUS
  <2>1. CASE UNCHANGED SuiteVars
    BY <2>1 DEF SuiteVars
  <2>2. CASE SuiteNext
    BY <2>2 DEF SuiteNext
  <2> QED
    BY <2>1, <2>2
<1> QED
  BY <1>1, <1>2, PTL
     DEF SuiteSpec, SearchConsoleSpec, OwnershipSpec, ConfigFileSpec, LifecycleSpec, StoreTxSpec, DeliverySpec,
         ReadSurfaceSpec

LEMMA GscTypeOK == GscInv => SearchConsoleTypeOK
<1> SUFFICES ASSUME GscInv PROVE SearchConsoleTypeOK
  OBVIOUS
<1>1. day \in Nat
  BY SearchConsoleAssumption DEF GscInv, GscTypes
<1>2. \A s \in Signals : incident[s].members \subseteq Pages /\ incident[s].updated \in 0..day
  BY <1>1 DEF GscInv, GscTypes
<1>3. gsc.todo \subseteq Pages /\ gsc.signal \in Signals
  BY DEF GscInv, GscTypes, JobState
<1> QED
  BY <1>2, <1>3 DEF GscInv, GscTypes, SearchConsoleTypeOK

LEMMA ReadTypeOK == ReadInv => ReadSurfaceTypeOK
<1> SUFFICES ASSUME ReadInv PROVE ReadSurfaceTypeOK
  OBVIOUS
<1> QED
  BY DEF ReadInv, CallOK, CallState, ReadSurfaceTypeOK

\* Whatever part of the daemon a behaviour of the suite is about, its variables keep
\* their types: an incident of Search Console is open while it has members, nobody
\* but a writer holds the lock of config.yaml, and so on.
THEOREM SuiteTypeCorrect == SuiteSpec => []SuiteTypeOK
<1>1. GscInv => SearchConsoleTypeOK
  BY GscTypeOK
<1>2. OwnInv => OwnershipTypeOK
  BY DEF OwnInv, OwnTypes, OwnershipTypeOK, WorkState, RowState
<1>3. ConfInv => ConfigFileTypeOK
  BY DEF ConfInv, ConfTypes, ConfigFileTypeOK, WriterState, Editing
<1>4. LifeInv => LifecycleTypeOK
  BY DEF LifeInv
<1>5. TxInv => StoreTxTypeOK
  BY DEF TxInv
<1>6. ReadInv => ReadSurfaceTypeOK
  BY ReadTypeOK
<1>7. ASSUME SearchConsoleTypeOK, OwnershipTypeOK, ConfigFileTypeOK, LifecycleTypeOK, StoreTxTypeOK,
             DeliveryTypeOK, ReadSurfaceTypeOK
      PROVE  SuiteTypeOK
  BY <1>7 DEF SuiteTypeOK
<1> QED
  BY <1>1, <1>2, <1>3, <1>4, <1>5, <1>6, <1>7, SuiteOfComponents, GscInvariant, OwnInit, OwnStep, ConfInit,
     ConfStep, LifeInit, LifeStep, TxInit, TxStep, ReadInit, ReadStep, TypeCorrect, PTL
     DEF OwnershipSpec, ConfigFileSpec, LifecycleSpec, StoreTxSpec, ReadSurfaceSpec
=============================================================================
