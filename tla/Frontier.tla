------------------------------ MODULE Frontier ------------------------------
(***************************************************************************)
(* The politeness gate of one host: internal/frontier/frontier.go as       *)
(* Crawler.CrawlOne uses it.  A crawl waits while crawling is paused, then *)
(* for one of the host's slots, then for the rate limiter; it reports how  *)
(* the fetch went, which moves the adaptive throttle, and releases the     *)
(* slot.  Meanwhile the supervisor changes the base rate of the host.      *)
(*                                                                         *)
(* The limiter is golang.org/x/time/rate with a burst of one token.  A     *)
(* reservation takes a token, into debt if need be, and acts when the debt *)
(* is paid off at the rate of that moment.  Raising the interval keeps the *)
(* limiter; lowering the base replaces it by a fresh one, and the crawls   *)
(* parked on the old one try again.  Limiters are numbered; those below    *)
(* gen have been replaced, and their rerate channel is closed.             *)
(*                                                                         *)
(* Time is relative: tokens grow and waits shrink with each tick, so there *)
(* is no clock to bound.  A goroutine whose timer fires runs within the    *)
(* tick.  Bounds: MaxGen (limiters), MaxThrottle (16 in the code, with     *)
(* steps of 1.5 and 0.9; here it doubles and halves).                      *)
(*                                                                         *)
(* A definition named X_Y is X with the defect Y: the checks put it in the *)
(* place of X to show that a property can fail.                            *)
(***************************************************************************)
EXTENDS Integers, FiniteSets

CONSTANTS
  Crawls,      \* the goroutines of the scheduler
  Slots,        \* PerHostConcurrency
  Bases,        \* the base intervals SetHostRate can ask for
  Default,      \* Options.PerHostRate
  Delays,       \* the Crawl-delays robots.txt can advertise; 0 is none
  Token,        \* one token, in units that every interval divides
  MaxThrottle,
  MaxGen

ASSUME FrontierAssumption ==
  /\ Slots \in Nat \ {0}
  /\ Bases \subseteq Nat \ {0}
  /\ Default \in Bases
  /\ Delays \subseteq Nat
  /\ Token \in Nat \ {0}
  /\ {MaxThrottle, MaxGen} \subseteq Nat \ {0}
  /\ \E b \in Bases : \A c \in Bases : c <= b
  /\ Delays # {} => \E f \in Delays : \A d \in Delays : d <= f

VARIABLES
  paused,    \* the global kill switch
  stopping,  \* the context of the daemon is done
  base,      \* hostState.baseEvery
  throttle,  \* hostState.throttle
  floor,     \* hostState.robotsFloor
  gen,       \* the number of the current limiter
  lims,      \* the limiters: interval and tokens
  at,        \* where each crawl is
  ref,       \* the limiter a crawl waits on
  left,      \* the ticks until its reservation acts
  steady,    \* pastRequests: the reservations made at the present rate
  lastOne,   \* pastRequests: whether the last request was one of those
  since      \* pastRequests: the ticks since the last request, up to Slowest

rates == <<base, throttle, floor>>
limVars == <<gen, lims>>
slotVars == <<at, ref, left>>
pastRequests == <<steady, lastOne, since>>
frontierVars == <<paused, stopping, rates, limVars, slotVars, pastRequests>>

-----------------------------------------------------------------------------
Larger(a, b) == IF a > b THEN a ELSE b
Smaller(a, b) == IF a < b THEN a ELSE b

\* The slowest interval, and the longest wait: a limiter that was raised while
\* crawls were parked lets them go before their debt is paid.
Slowest == LET asked == {b * MaxThrottle : b \in Bases} \cup Delays
           IN CHOOSE e \in asked : \A f \in asked : f <= e
Every   == 1..Slowest
Longest == Slots * Slowest * Slowest

\* The unit that tokens are counted in is one the slowest rate earns in whole numbers.
ASSUME TokenAssumption == Token % Slowest = 0

effectiveEvery(b, t, f) == Larger(b * t, f)

Full(every) == [every |-> every, tokens |-> Token]

\* The crawls that hold a slot.
Holding == {w \in Crawls : at[w] \notin {"idle", "entry", "slot"}}

\* The ticks a debt takes, rounded up.
Wait(tokens, every) == (Larger(0, -tokens) * every + Token - 1) \div Token

FrontierInit ==
  /\ paused = FALSE
  /\ stopping = FALSE
  /\ base = Default
  /\ throttle = 1
  /\ floor = 0
  /\ gen = 1
  /\ lims = [g \in 1..MaxGen |-> Full(Default)]
  /\ at = [w \in Crawls |-> "idle"]
  /\ ref = [w \in Crawls |-> 1]
  /\ left = [w \in Crawls |-> 0]
  /\ steady = {}
  /\ lastOne = FALSE
  /\ since = Slowest

(***************************************************************************)
(* The rate.                                                               *)
(***************************************************************************)
\* SetLimit: the rate of what is still to come; reservations keep their time.
SetLimit(every) ==
  /\ lims' = [lims EXCEPT ![gen].every = every]
  /\ IF every = lims[gen].every THEN UNCHANGED <<steady, lastOne>>
                                ELSE steady' = {} /\ lastOne' = FALSE
  /\ UNCHANGED <<gen, since>>

\* A lower interval comes with a new limiter, which has a token at once.
applyEffectiveLimit(every) ==
  IF every < lims[gen].every
  THEN /\ gen < MaxGen
       /\ gen' = gen + 1
       /\ lims' = [lims EXCEPT ![gen + 1] = Full(every)]
       /\ steady' = {}
       /\ lastOne' = FALSE
       /\ UNCHANGED since
  ELSE SetLimit(every)

SetHostRate(b) ==
  /\ base' = b
  /\ applyEffectiveLimit(effectiveEvery(b, throttle, floor))
  /\ UNCHANGED <<paused, stopping, throttle, floor, slotVars>>

SetPaused ==
  /\ paused' = ~paused
  /\ UNCHANGED <<stopping, rates, limVars, slotVars, pastRequests>>

StopDaemon ==
  /\ stopping' = TRUE
  /\ UNCHANGED <<paused, rates, limVars, slotVars, pastRequests>>

(***************************************************************************)
(* A crawl.  CrawlOne raises the floor to the delay robots.txt advertises  *)
(* (SetMinInterval) before it asks for a slot.                             *)
(***************************************************************************)
MoveTo(w, step) == at' = [at EXCEPT ![w] = step]

BeginCrawl(w, delay) ==
  /\ at[w] = "idle"
  /\ ~stopping
  /\ floor' = Larger(floor, delay)
  /\ IF delay > 0 THEN SetLimit(effectiveEvery(base, throttle, floor'))
                  ELSE UNCHANGED <<limVars, pastRequests>>
  /\ MoveTo(w, "entry")
  /\ UNCHANGED <<paused, stopping, base, throttle, ref, left>>

\* The pause is looked at on entry only.
Enter(w) ==
  /\ at[w] = "entry"
  /\ ~paused
  /\ MoveTo(w, "slot")
  /\ UNCHANGED <<paused, stopping, rates, limVars, ref, left, pastRequests>>

TakeSlot(w) ==
  /\ at[w] = "slot"
  /\ Cardinality(Holding) < Slots
  /\ MoveTo(w, "ready")
  /\ UNCHANGED <<paused, stopping, rates, limVars, ref, left, pastRequests>>

TakeLimiter_First(w) ==
  /\ at[w] = "ready"
  /\ ref' = [ref EXCEPT ![w] = 1]
  /\ MoveTo(w, "reserve")
  /\ UNCHANGED <<paused, stopping, rates, limVars, left, pastRequests>>

\* waitHost takes the limiter under the lock and waits on it without.
TakeLimiter(w) ==
  /\ at[w] = "ready"
  /\ ref' = [ref EXCEPT ![w] = gen]
  /\ MoveTo(w, "reserve")
  /\ UNCHANGED <<paused, stopping, rates, limVars, left, pastRequests>>

\* The request is made.
Granted(w, counts) ==
  /\ MoveTo(w, "fetch")
  /\ since' = 0
  /\ lastOne' = counts
  /\ steady' = steady \ {w}

\* Limiter.Wait: a token is there, or the crawl parks.  A context that is done by
\* then makes no reservation.
Reserve_Free(w) ==
  LET lim == lims[ref[w]]
  IN /\ at[w] = "reserve"
     /\ ~stopping
     /\ IF lim.tokens >= 0
        THEN Granted(w, ref[w] = gen) /\ UNCHANGED left
        ELSE /\ MoveTo(w, "parked")
             /\ left' = [left EXCEPT ![w] = Wait(lim.tokens - Token, lim.every)]
             /\ steady' = IF ref[w] = gen THEN steady \cup {w} ELSE steady
             /\ UNCHANGED <<lastOne, since>>
     /\ lims' = [lims EXCEPT ![ref[w]].tokens = @ - Token]
     /\ UNCHANGED <<paused, stopping, rates, gen, ref>>

Reserve(w) ==
  LET lim == lims[ref[w]]
  IN /\ at[w] = "reserve"
     /\ ~stopping
     /\ IF lim.tokens >= Token
        THEN Granted(w, ref[w] = gen) /\ UNCHANGED left
        ELSE /\ MoveTo(w, "parked")
             /\ left' = [left EXCEPT ![w] = Wait(lim.tokens - Token, lim.every)]
             /\ steady' = IF ref[w] = gen THEN steady \cup {w} ELSE steady
             /\ UNCHANGED <<lastOne, since>>
     /\ lims' = [lims EXCEPT ![ref[w]].tokens = @ - Token]
     /\ UNCHANGED <<paused, stopping, rates, gen, ref>>

Wake(w) ==
  /\ at[w] = "parked"
  /\ left[w] = 0
  /\ Granted(w, w \in steady)
  /\ UNCHANGED <<paused, stopping, rates, limVars, ref, left>>

\* The rerate channel is closed: back to the limiter that is current now.  The
\* cancelled reservation gives its token back if it was the last.
Retry(w) ==
  /\ at[w] \in {"reserve", "parked"}
  /\ ref[w] < gen
  /\ lims' = IF /\ at[w] = "parked"
                /\ \A v \in Crawls : at[v] = "parked" /\ ref[v] = ref[w] => left[v] <= left[w]
             THEN [lims EXCEPT ![ref[w]].tokens = Smaller(Token, @ + Token)]
             ELSE lims
  /\ MoveTo(w, "ready")
  /\ left' = [left EXCEPT ![w] = 0]
  /\ UNCHANGED <<paused, stopping, rates, gen, ref, pastRequests>>

Abandon_NotPaused(w) ==
  /\ stopping
  /\ at[w] \in {"slot", "ready", "reserve", "parked"}
  /\ MoveTo(w, "idle")
  /\ left' = [left EXCEPT ![w] = 0]
  /\ steady' = steady \ {w}
  /\ UNCHANGED <<paused, stopping, rates, limVars, ref, lastOne, since>>

\* The context of the daemon is done: a slot, if there is one, is released.
Abandon(w) ==
  /\ stopping
  /\ at[w] \in {"entry", "slot", "ready", "reserve", "parked"}
  /\ MoveTo(w, "idle")
  /\ left' = [left EXCEPT ![w] = 0]
  /\ steady' = steady \ {w}
  /\ UNCHANGED <<paused, stopping, rates, limVars, ref, lastOne, since>>

\* A fetch that is slow or fails slows the host down, another speeds it up.
Report(w, bad) ==
  /\ at[w] = "fetch"
  /\ throttle' = IF bad THEN Smaller(MaxThrottle, throttle * 2) ELSE Larger(1, throttle \div 2)
  /\ SetLimit(effectiveEvery(base, throttle', floor))
  /\ MoveTo(w, "process")
  /\ UNCHANGED <<paused, stopping, base, floor, ref, left>>

Release(w) ==
  /\ at[w] = "process"
  /\ MoveTo(w, "idle")
  /\ UNCHANGED <<paused, stopping, rates, limVars, ref, left, pastRequests>>

FrontierTick_NoBurst ==
  /\ \A w \in Crawls : at[w] = "parked" => left[w] > 0
  /\ left' = [w \in Crawls |-> IF at[w] = "parked" THEN left[w] - 1 ELSE left[w]]
  /\ lims' = [g \in 1..MaxGen |-> [lims[g] EXCEPT !.tokens = @ + Token \div lims[g].every]]
  /\ since' = Smaller(Slowest, since + 1)
  /\ UNCHANGED <<paused, stopping, rates, gen, at, ref, steady, lastOne>>

FrontierTick ==
  /\ \A w \in Crawls : at[w] = "parked" => left[w] > 0
  /\ left' = [w \in Crawls |-> IF at[w] = "parked" THEN left[w] - 1 ELSE left[w]]
  /\ lims' = [g \in 1..MaxGen |->
                [lims[g] EXCEPT !.tokens = Smaller(Token, @ + Token \div lims[g].every)]]
  /\ since' = Smaller(Slowest, since + 1)
  /\ UNCHANGED <<paused, stopping, rates, gen, at, ref, steady, lastOne>>

-----------------------------------------------------------------------------
CrawlStep(w) ==
  \/ Enter(w)
  \/ TakeSlot(w)
  \/ TakeLimiter(w)
  \/ Reserve(w)
  \/ Wake(w)
  \/ Retry(w)
  \/ Abandon(w)
  \/ \E bad \in BOOLEAN : Report(w, bad)
  \/ Release(w)

FrontierNext ==
  \/ \E b \in Bases : SetHostRate(b)
  \/ SetPaused
  \/ StopDaemon
  \/ \E w \in Crawls, delay \in Delays : BeginCrawl(w, delay)
  \/ \E w \in Crawls : CrawlStep(w)
  \/ FrontierTick

FrontierSpec == FrontierInit /\ [][FrontierNext]_frontierVars

\* Time passes and goroutines run, the poll of the pause flag sees that it is
\* clear if it is clear again and again, and a channel serves its senders in order.
FrontierFairness ==
  /\ WF_frontierVars(FrontierTick)
  /\ \A w \in Crawls : WF_frontierVars(CrawlStep(w)) /\ SF_frontierVars(Enter(w)) /\ SF_frontierVars(TakeSlot(w))

FrontierFairSpec == FrontierSpec /\ FrontierFairness

-----------------------------------------------------------------------------
\* The types; a limiter holds one token at most, and what it owes is bounded.
FrontierTypeOK ==
  /\ {paused, stopping, lastOne} \subseteq BOOLEAN
  /\ base \in Bases
  /\ throttle \in 1..MaxThrottle
  /\ floor \in Delays \cup {0}
  /\ gen \in 1..MaxGen
  /\ lims \in [1..MaxGen -> [every : Every, tokens : (-Slots * Slowest * Token)..Token]]
  /\ at \in [Crawls -> {"idle", "entry", "slot", "ready", "reserve", "parked", "fetch", "process"}]
  /\ ref \in [Crawls -> 1..MaxGen]
  /\ left \in [Crawls -> 0..Longest]
  /\ steady \subseteq Crawls
  /\ since \in 0..Slowest

Requested(w) == at[w] # "fetch" /\ at'[w] = "fetch"

\* While the rate of a host stays the same, its requests are an interval apart,
\* whichever crawls make them and whatever was parked when the rate changed.
SteadySpacing ==
  [][\A w \in Crawls : Requested(w) /\ lastOne /\ lastOne' => since >= lims[gen].every]_frontierVars

\* Unless crawling is paused for good, a crawl that asks for the host gets it, or
\* the daemon stops: retries after rate changes neither spin nor starve
\* ("this loops at most once per concurrent lower and cannot spin", waitHost).
AllGranted ==
  \A w \in Crawls : []<>~paused => (at[w] = "entry" ~> at[w] \in {"fetch", "idle"})

\* A daemon that stops is not held by a crawl that is paused, queued or parked.
ShutdownDrains == stopping ~> \A w \in Crawls : at[w] = "idle"

\* What CrawlOne says of a Crawl-delay: "Acquire blocks at least that long between
\* requests".  A fresh limiter has a token at once.
FloorRespected == [][\A w \in Crawls : Requested(w) => since >= floor]_frontierVars
=============================================================================
