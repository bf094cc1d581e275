------------------------ MODULE MCIncidentPipeline ------------------------
(***************************************************************************)
(* IncidentPipeline for TLC.  Workers and pages are interchangeable: no    *)
(* definition tells one from another, so the safety run is reduced by      *)
(* symmetry (the liveness run is not).  "faulted" is history: whether a    *)
(* store error or a crash has happened.                                    *)
(***************************************************************************)
EXTENDS IncidentPipeline, TLC

VARIABLE faulted

FaultStep == SweepError \/ Crash \/ \E w \in Workers : StoreError(w)

TrackedInit == Init /\ faulted = FALSE

TrackedSpec ==
  /\ TrackedInit
  /\ [][Next /\ faulted' = (faulted \/ FaultStep)]_<<vars, faulted>>

Symmetry == Permutations(Workers) \cup Permutations(URLs)

\* The pipeline implements the board, and until the first fault it does so
\* without an operation that is cut short.
ImplementsWholeBoard ==
  /\ ImplementsBoard
  /\ [][~faulted' => Board!Whole \/ UNCHANGED Board!boardVars]_<<vars, faulted>>
=============================================================================
