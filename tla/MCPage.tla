------------------------------- MODULE MCPage -------------------------------
(***************************************************************************)
(* For TLC: the crawl of one page, from the fetch to its alerts, and the   *)
(* politeness gate of its host.  A behaviour is about one of the two, its  *)
(* focus, and the other stays in its initial state.                        *)
(*                                                                         *)
(* ManyPages, which the site serves at one address, has every status,      *)
(* directive and canonical link next to each other.  A behaviour with a    *)
(* fault is followed as long as the site keeps to FewPages: the constraint *)
(* FewWhenFaulty bounds the state space.  The crawls of the host are       *)
(* interchangeable, and every property treats them alike.                  *)
(***************************************************************************)
EXTENDS PageMonitor, Frontier, TLC

VARIABLE focus

P(status, robots, canonical) == [status |-> status, robots |-> robots, canonical |-> canonical]

ManyPages == {P(200, "none", "self"), P(200, "snippet", "self"), P(200, "noindex", "self"),
              P(200, "none", "away"), P(200, "none", "none"), P(301, "none", "self"),
              P(404, "none", "none"), P(500, "noindex", "self")}

FewPages == {P(200, "none", "self"), P(200, "noindex", "self"), P(404, "none", "none"),
             P(500, "noindex", "self")}

FewWhenFaulty ==
  faults > 0 => {snap, new, old, etag} \subseteq FewPages \cup {NoPage, BlockPage}

Symmetry == Permutations(Crawls)

Nothing == {}
Deep == {P(200, "none", "away"), P(404, "none", "none")}

SuiteInit ==
  /\ focus \in {"page", "frontier"}
  /\ Init
  /\ FrontierInit

SuiteNext ==
  /\ UNCHANGED focus
  /\ \/ focus = "page" /\ Next /\ UNCHANGED frontierVars
     \/ focus = "frontier" /\ FrontierNext /\ UNCHANGED vars

SuiteSpec == SuiteInit /\ [][SuiteNext]_<<focus, vars, frontierVars>>

\* One of the two alone.
PageOnly == SuiteInit /\ focus = "page" /\ [][SuiteNext]_<<focus, vars, frontierVars>>
FrontierOnly == SuiteInit /\ focus = "frontier" /\ [][SuiteNext]_<<focus, vars, frontierVars>>

SuiteTypeOK == TypeOK /\ FrontierTypeOK
=============================================================================
