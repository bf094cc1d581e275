------------------------------ MODULE MCDaemon ------------------------------
(***************************************************************************)
(* For TLC: the daily Search Console job; the sites, their proofs of       *)
(* ownership and their rates; the writers of config.yaml; the start and    *)
(* the end of the daemon; the transactions of the store; the throttle and  *)
(* digest that its alerts go through; and the calls that ask it.  A        *)
(* behaviour is about one of them, its focus, and the others stay in their *)
(* initial states.                                                         *)
(*                                                                         *)
(* FewMoves bounds the state space: at most three of the moves that        *)
(* Ownership allows from outside, one crawl once Search Console had an     *)
(* error, and nothing after what excuses the loss of an edit.  FewAtOnce   *)
(* does: flushes of the digest overlap while the clock of the throttle,    *)
(* which they do not look at, stands still, and a call with a malformed    *)
(* input meets one change or failure.                                      *)
(***************************************************************************)
EXTENDS SearchConsole, Ownership, ConfigFile, Lifecycle, StoreTx, Delivery, ReadSurface

VARIABLE focus

McPages == {"p", "q"}
McImportance == [p |-> 2, q |-> 1]
McGoogleStates == {[index |-> "indexed", canonical |-> "same"], [index |-> "excluded", canonical |-> "other"],
                   [index |-> "unclear", canonical |-> "none"]}

FewMoves ==
  /\ used.edits + used.reloads + used.checks + used.changes + used.troubles <= 3
  /\ troubles > 0 => crawls <= 1
  /\ ~excused

FewAtOnce ==
  /\ clock > 0 => Cardinality({f \in Flushers : fpc[f] # "idle"}) <= 1
  /\ call.flaw # "none" => turns + readFaults <= 1

\* The parts a behaviour is not about begin in one state.
SuiteInit ==
  /\ focus \in {"gsc", "ownership", "config", "life", "store", "delivery", "reads"}
  /\ SearchConsoleInit /\ (focus # "gsc" => \A p, q \in Pages : google[p] = google[q])
  /\ OwnershipInit /\ (focus # "ownership" => config = {} /\ row = [s \in Domains |-> NoRow])
  /\ ConfigFileInit /\ (focus # "config" => file = Blank)
  /\ LifecycleInit /\ (focus # "life" => wanted = {})
  /\ StoreTxInit
  /\ DeliveryInit
  /\ ReadSurfaceInit /\ (focus # "reads" => stored = {})

SuiteNext ==
  /\ UNCHANGED focus
  /\ \/ /\ focus = "gsc" /\ SearchConsoleNext
        /\ UNCHANGED <<ownVars, configVars, lifeVars, txVars, deliveryVars, readVars>>
     \/ /\ focus = "ownership" /\ OwnershipNext
        /\ UNCHANGED <<gscVars, configVars, lifeVars, txVars, deliveryVars, readVars>>
     \/ /\ focus = "config" /\ ConfigFileNext
        /\ UNCHANGED <<gscVars, ownVars, lifeVars, txVars, deliveryVars, readVars>>
     \/ /\ focus = "life" /\ LifecycleNext
        /\ UNCHANGED <<gscVars, ownVars, configVars, txVars, deliveryVars, readVars>>
     \/ /\ focus = "store" /\ StoreTxNext
        /\ UNCHANGED <<gscVars, ownVars, configVars, lifeVars, deliveryVars, readVars>>
     \/ /\ focus = "delivery" /\ DeliveryNext
        /\ UNCHANGED <<gscVars, ownVars, configVars, lifeVars, txVars, readVars>>
     \/ /\ focus = "reads" /\ ReadSurfaceNext
        /\ UNCHANGED <<gscVars, ownVars, configVars, lifeVars, txVars, deliveryVars>>

SuiteVars == <<focus, gscVars, ownVars, configVars, lifeVars, txVars, deliveryVars, readVars>>

SuiteSpec == SuiteInit /\ [][SuiteNext]_SuiteVars

OwnershipOnly == SuiteSpec /\ focus = "ownership"
ConfigOnly == SuiteSpec /\ focus = "config"

SuiteTypeOK ==
  /\ SearchConsoleTypeOK /\ OwnershipTypeOK /\ ConfigFileTypeOK /\ LifecycleTypeOK
  /\ StoreTxTypeOK /\ DeliveryTypeOK /\ ReadSurfaceTypeOK
=============================================================================
