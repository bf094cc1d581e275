----------------------------- MODULE MCLiveness -----------------------------
(***************************************************************************)
(* For TLC: that the incident pipeline and the politeness gate get on with *)
(* what they have begun.  A behaviour is about one of the two, its focus,  *)
(* and the other stays in its initial state.  What is fair in the initial  *)
(* state of a part is fair only when the behaviour is about it.            *)
(***************************************************************************)
EXTENDS IncidentPipeline, Frontier

VARIABLE focus

PipelineFairness ==
  /\ \A w \in Workers : WF_vars(Work(w)) /\ SF_vars(Acquire(w))
  /\ WF_vars(focus = "pipeline" /\ SweepRead)
  /\ \A id \in Ids : SF_vars(SweepClose(id))
  /\ WF_vars(focus = "pipeline" /\ Tick)

GateFairness ==
  /\ WF_frontierVars(focus = "frontier" /\ FrontierTick)
  /\ \A w \in Crawls : /\ WF_frontierVars(CrawlStep(w))
                       /\ SF_frontierVars(Enter(w))
                       /\ SF_frontierVars(TakeSlot(w))

LiveInit ==
  /\ Init
  /\ FrontierInit
  /\ focus \in {"pipeline", "frontier"}

LiveNext ==
  /\ UNCHANGED focus
  /\ \/ focus = "pipeline" /\ Next /\ UNCHANGED frontierVars
     \/ focus = "frontier" /\ FrontierNext /\ UNCHANGED vars

LiveSpec ==
  /\ LiveInit
  /\ [][LiveNext]_<<focus, vars, frontierVars>>
  /\ PipelineFairness
  /\ GateFairness
=============================================================================
