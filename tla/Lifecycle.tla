----------------------------- MODULE Lifecycle ------------------------------
(***************************************************************************)
(* The life of the daemon: runDaemon of internal/cli/run.go, the control   *)
(* server of internal/control, the metrics listener of internal/obs and    *)
(* the loop of internal/supervisor.                                        *)
(*                                                                         *)
(* runDaemon opens the store, starts the goroutines of the pipeline, the   *)
(* timers and the two listeners, waits until its context is cancelled and  *)
(* takes everything down again, in an order that is meant to leave the     *)
(* store to the checkpoint.  The goroutines leave when the context is      *)
(* cancelled; a listener only leaves when its server is shut down.  Two    *)
(* waits of the teardown give up: that for the requests, which run under   *)
(* contexts of their own, after five seconds, and that of gocron for its   *)
(* jobs, after its stop timeout.  runDaemon ignores both errors and goes   *)
(* on: what it waited for runs on beside the checkpoint and the close.     *)
(***************************************************************************)
EXTENDS FiniteSets

CONSTANTS
  Routines,  \* the goroutines of pipelineWG that are tied to the context
  OneShot,   \* those among them that do their work once
  Requests   \* requests that the control server serves at one time

ASSUME LifecycleAssumption == OneShot \subseteq Routines

VARIABLES
  stage,     \* where runDaemon is
  wanted,    \* the listeners that the configuration asks for
  cancelled, \* the context of the daemon
  store,
  routine,
  timers,    \* the gocron scheduler and its jobs that use the store
  listener,
  shutDown,  \* the servers on which Shutdown has been called
  request,
  abandoned, \* history: what the teardown gave up waiting for
  late       \* history: who used the store after the checkpoint

lifeVars == <<stage, wanted, cancelled, store, routine, timers, listener, shutDown, request, abandoned, late>>

Servers == {"metrics", "control"}

LifecycleTypeOK ==
  /\ stage \in {"load", "open", "build", "sync", "spawn", "timers", "metrics", "metrics grace",
                "control", "control grace", "run", "stop control", "drain control",
                "stop metrics", "stop timers", "join", "checkpoint", "close", "returned"}
  /\ wanted \subseteq Servers
  /\ cancelled \in BOOLEAN
  /\ store \in {"none", "open", "checkpointed", "closed"}
  /\ routine \in [Routines -> {"none", "idle", "busy", "gone"}]
  /\ timers \in {"none", "idle", "busy", "left"}
  /\ listener \in [Servers -> {"none", "starting", "serving", "refused", "gone"}]
  /\ shutDown \subseteq Servers
  /\ request \in [Requests -> {"none", "call", "shutdown"}]
  /\ abandoned \subseteq Requests \cup {"timers"}
  /\ late \subseteq Routines \cup {"timers"} \cup Requests

LifecycleInit ==
  /\ stage = "load"
  /\ wanted \in SUBSET Servers
  /\ cancelled = FALSE
  /\ store = "none"
  /\ routine = [r \in Routines |-> "none"]
  /\ timers = "none"
  /\ listener = [s \in Servers |-> "none"]
  /\ shutDown = {}
  /\ request = [q \in Requests |-> "none"]
  /\ abandoned = {}
  /\ late = {}

\* Who uses the store once it has been checkpointed is late.
UseStore(who) == late' = IF store = "open" THEN late ELSE late \cup {who}

-----------------------------------------------------------------------------
(* The start.                                                              *)
Proceed(from, to) == stage = from /\ stage' = to

LoadConfiguration ==
  /\ Proceed("load", "open") \/ Proceed("load", "returned")
  /\ UNCHANGED <<wanted, cancelled, store, routine, timers, listener, shutDown, request, abandoned, late>>

OpenStore ==
  /\ \/ Proceed("open", "build") /\ store' = "open"
     \/ Proceed("open", "returned") /\ UNCHANGED store
  /\ UNCHANGED <<wanted, cancelled, routine, timers, listener, shutDown, request, abandoned, late>>

\* A notifier that is not configured well ends the start.
BuildStack ==
  /\ Proceed("build", "sync") \/ Proceed("build", "close")
  /\ UNCHANGED <<wanted, cancelled, store, routine, timers, listener, shutDown, request, abandoned, late>>

\* The first synchronisation may fail: the daemon starts all the same.
SyncSites ==
  /\ Proceed("sync", "spawn")
  /\ UNCHANGED <<wanted, cancelled, store, routine, timers, listener, shutDown, request, abandoned, late>>

SpawnPipeline ==
  /\ Proceed("spawn", "timers")
  /\ routine' = [r \in Routines |-> "busy"]
  /\ UNCHANGED <<wanted, cancelled, store, timers, listener, shutDown, request, abandoned, late>>

\* Without gocron the daemon runs without its sweeps.
StartTimers ==
  /\ Proceed("timers", "metrics")
  /\ timers' \in {"none", "idle"}
  /\ UNCHANGED <<wanted, cancelled, store, routine, listener, shutDown, request, abandoned, late>>

GraceOf == [metrics |-> "metrics grace", control |-> "control grace"]

StartListener(s, next) ==
  /\ IF s \in wanted
     THEN Proceed(s, GraceOf[s]) /\ listener' = [listener EXCEPT ![s] = "starting"]
     ELSE Proceed(s, next) /\ UNCHANGED listener
  /\ UNCHANGED <<wanted, cancelled, store, routine, timers, shutDown, request, abandoned, late>>

\* The start waits a moment for the listener to be refused its address.
GraceOver(s, next) ==
  /\ Proceed(GraceOf[s], next)
  /\ UNCHANGED <<wanted, cancelled, store, routine, timers, listener, shutDown, request, abandoned, late>>

\* Refused in time: everything that has been started is taken down.
BindFails(s, teardown) ==
  /\ listener[s] = "refused"
  /\ ~cancelled
  /\ Proceed(GraceOf[s], teardown)
  /\ cancelled' = TRUE
  /\ UNCHANGED <<wanted, store, routine, timers, listener, shutDown, request, abandoned, late>>

StartMetrics == StartListener("metrics", "control") \/ GraceOver("metrics", "control")
MetricsBindFails == BindFails("metrics", "stop timers")
StartControl == StartListener("control", "run") \/ GraceOver("control", "run")
ControlBindFails_MetricsLeft == BindFails("control", "stop timers")

ControlBindFails == BindFails("control", "stop metrics")

-----------------------------------------------------------------------------
(* The goroutines of the pipeline and the timers.                          *)
Work(r) ==
  /\ routine[r] = "idle"
  /\ ~cancelled
  /\ routine' = [routine EXCEPT ![r] = "busy"]
  /\ UNCHANGED <<stage, wanted, cancelled, store, timers, listener, shutDown, request, abandoned, late>>

\* The last use of the store of a piece of work.
Finish(r) ==
  /\ routine[r] = "busy"
  /\ routine' = [routine EXCEPT ![r] = IF r \in OneShot THEN "gone" ELSE "idle"]
  /\ UseStore(r)
  /\ UNCHANGED <<stage, wanted, cancelled, store, timers, listener, shutDown, request, abandoned>>

Leave(r) ==
  /\ routine[r] = "idle"
  /\ cancelled
  /\ routine' = [routine EXCEPT ![r] = "gone"]
  /\ UNCHANGED <<stage, wanted, cancelled, store, timers, listener, shutDown, request, abandoned, late>>

\* gocron starts jobs until its Shutdown; a job that it left behind ends when it likes.
StartJob ==
  /\ timers = "idle"
  /\ timers' = "busy"
  /\ UNCHANGED <<stage, wanted, cancelled, store, routine, listener, shutDown, request, abandoned, late>>

FinishJob ==
  /\ \/ timers = "busy" /\ timers' = "idle"
     \/ timers = "left" /\ timers' = "none"
  /\ UseStore("timers")
  /\ UNCHANGED <<stage, wanted, cancelled, store, routine, listener, shutDown, request, abandoned>>

-----------------------------------------------------------------------------
(* The listeners and the requests.                                         *)
Listen(s) ==
  /\ listener[s] = "starting"
  /\ s \notin shutDown
  /\ \E result \in {"serving", "refused"} : listener' = [listener EXCEPT ![s] = result]
  /\ UNCHANGED <<stage, wanted, cancelled, store, routine, timers, shutDown, request, abandoned, late>>

\* Serve returns as soon as Shutdown is called, with requests under way or not.
StopServing(s) ==
  /\ listener[s] \in {"starting", "serving"}
  /\ s \in shutDown
  /\ listener' = [listener EXCEPT ![s] = "gone"]
  /\ UNCHANGED <<stage, wanted, cancelled, store, routine, timers, shutDown, request, abandoned, late>>

Accept(q, kind) ==
  /\ listener["control"] = "serving"
  /\ "control" \notin shutDown
  /\ request[q] = "none"
  /\ request' = [request EXCEPT ![q] = kind]
  /\ UNCHANGED <<stage, wanted, cancelled, store, routine, timers, listener, shutDown, abandoned, late>>

Reply(q, kind) == request[q] = kind /\ request' = [request EXCEPT ![q] = "none"]

\* A hook uses the store until it replies; a check of a proof of ownership is saved
\* after up to fifteen seconds of HTTP.
ReplyCall(q) ==
  /\ Reply(q, "call")
  /\ UseStore(q)
  /\ UNCHANGED <<stage, wanted, cancelled, store, routine, timers, listener, shutDown, abandoned>>

\* The reply is on its way before the context is cancelled.
ReplyShutdown(q) ==
  /\ Reply(q, "shutdown")
  /\ cancelled' = TRUE
  /\ UNCHANGED <<stage, wanted, store, routine, timers, listener, shutDown, abandoned, late>>

Signal ==
  /\ ~cancelled
  /\ cancelled' = TRUE
  /\ UNCHANGED <<stage, wanted, store, routine, timers, listener, shutDown, request, abandoned, late>>

-----------------------------------------------------------------------------
(* The end.                                                                *)
RunLoop ==
  /\ cancelled
  /\ Proceed("run", "stop control")
  /\ UNCHANGED <<wanted, cancelled, store, routine, timers, listener, shutDown, request, abandoned, late>>

StopControl ==
  /\ Proceed("stop control", "drain control")
  /\ shutDown' = shutDown \cup {"control"}
  /\ UNCHANGED <<wanted, cancelled, store, routine, timers, listener, request, abandoned, late>>

Drain(served) ==
  /\ Proceed("drain control", "stop metrics")
  /\ abandoned' = abandoned \cup served
  /\ UNCHANGED <<wanted, cancelled, store, routine, timers, listener, shutDown, request, late>>

Served == {q \in Requests : request[q] # "none"}

DrainControl_AtOnce == Drain({})

DrainControl == Served = {} /\ Drain({})
DrainControlTimesOut == Served # {} /\ Drain(Served)

\* A scrape reads the registry only.
StopMetrics ==
  /\ Proceed("stop metrics", "stop timers")
  /\ shutDown' = shutDown \cup {"metrics"}
  /\ UNCHANGED <<wanted, cancelled, store, routine, timers, listener, request, abandoned, late>>

\* gocron waits for its jobs, which run under the cancelled context, but not for ever.
StopTimers ==
  /\ timers # "busy"
  /\ Proceed("stop timers", "join")
  /\ timers' = "none"
  /\ UNCHANGED <<wanted, cancelled, store, routine, listener, shutDown, request, abandoned, late>>

StopTimersTimesOut ==
  /\ timers = "busy"
  /\ Proceed("stop timers", "join")
  /\ timers' = "left"
  /\ abandoned' = abandoned \cup {"timers"}
  /\ UNCHANGED <<wanted, cancelled, store, routine, listener, shutDown, request, late>>

Join ==
  /\ \A r \in Routines : routine[r] = "gone"
  /\ \A s \in Servers : listener[s] \in {"none", "refused", "gone"}
  /\ Proceed("join", "checkpoint")
  /\ UNCHANGED <<wanted, cancelled, store, routine, timers, listener, shutDown, request, abandoned, late>>

Checkpoint ==
  /\ Proceed("checkpoint", "close")
  /\ store' = "checkpointed"
  /\ UNCHANGED <<wanted, cancelled, routine, timers, listener, shutDown, request, abandoned, late>>

Close ==
  /\ Proceed("close", "returned")
  /\ store' = "closed"
  /\ UNCHANGED <<wanted, cancelled, routine, timers, listener, shutDown, request, abandoned, late>>

\* The process ends with runDaemon.
LifecycleNext ==
  /\ stage # "returned"
  /\ \/ LoadConfiguration \/ OpenStore \/ BuildStack \/ SyncSites \/ SpawnPipeline \/ StartTimers
     \/ StartMetrics \/ MetricsBindFails \/ StartControl \/ ControlBindFails
     \/ \E r \in Routines : Work(r) \/ Finish(r) \/ Leave(r)
     \/ StartJob \/ FinishJob
     \/ \E s \in Servers : Listen(s) \/ StopServing(s)
     \/ \E q \in Requests :
          \/ \E kind \in {"call", "shutdown"} : Accept(q, kind)
          \/ ReplyCall(q) \/ ReplyShutdown(q)
     \/ Signal
     \/ RunLoop \/ StopControl \/ DrainControl \/ DrainControlTimesOut \/ StopMetrics
     \/ StopTimers \/ StopTimersTimesOut \/ Join
     \/ Checkpoint \/ Close

LifecycleSpec == LifecycleInit /\ [][LifecycleNext]_lifeVars

-----------------------------------------------------------------------------
(* Properties.                                                             *)

\* Whenever runDaemon waits for something that was started, that thing has been told
\* to end: pipelineWG.Wait cannot wait for ever, whichever listener was refused and
\* whenever the context was cancelled.
JoinReturns ==
  stage = "join" =>
    /\ cancelled
    /\ \A s \in Servers : listener[s] \in {"starting", "serving"} => s \in shutDown

\* Only what the teardown gave up waiting for uses the store after its checkpoint: no
\* crawl, no goroutine that was joined, no job and no request that ended in time.  The
\* request and the job that outlive their timeouts do, whatever request it is.
StoreLeftAlone == late \subseteq abandoned

\* The order of the teardown: whatever is waited for has been told to end before, and
\* has ended before the store is checkpointed, unless its wait timed out.
TeardownInOrder == JoinReturns /\ StoreLeftAlone
=============================================================================
