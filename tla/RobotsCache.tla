---------------------------- MODULE RobotsCache ----------------------------
(***************************************************************************)
(* The robots.txt of one origin.  RobotsCache (internal/frontier/robots.go)*)
(* answers the crawls: an answer that has not expired is shared; else one  *)
(* crawl fetches the file and the others wait until it has stored the      *)
(* answer, and look again.                                                 *)
(*                                                                         *)
(* A file either lets a crawl in or keeps it out.  Time counts ticks; an   *)
(* answer is dated from the moment its fetch began, which takes FetchTime  *)
(* ticks at most, so that an error may have expired when it is stored.     *)
(* Bound: Change acts only while changes < MaxChanges.                     *)
(*                                                                         *)
(* A definition named X_Y is X with the defect Y: the checks put it in the *)
(* place of X to show that a property can fail.                            *)
(***************************************************************************)
EXTENDS Integers, FiniteSets

CONSTANTS
  Askers,        \* the crawls of pages of this origin
  TTL,           \* how long rules are kept, 5 minutes
  NegativeTTL,   \* how long an error is, 20 seconds
  FetchTime,     \* the timeout of the client, 30 seconds: longer than NegativeTTL
  MaxChanges,
  Nothing        \* no answer

ASSUME RobotsAssumption ==
  /\ {TTL, NegativeTTL, FetchTime} \subseteq Nat \ {0}
  /\ NegativeTTL <= TTL
  /\ FetchTime <= TTL
  /\ MaxChanges \in Nat
  /\ Nothing \notin Askers \cup {"allow", "forbid", "missing", "error", "down"}
  /\ Nothing \notin [file : {"allow", "forbid", "missing", "error", "down"}, left : Nat]

VARIABLES
  served,    \* what the site answers to a request for robots.txt, once it is known
  servedFor, \* history: the ticks it has answered so, up to TTL + 1
  answer,    \* the cached entry
  leader,    \* the crawl that is fetching, the in-flight marker
  asker,     \* where each crawl is
  got,       \* what the leader has read
  age,       \* the ticks since its fetch began
  changes    \* how often the site has changed its answer

siteVars == <<served, servedFor, changes>>
cacheVars == <<answer, leader, got, age>>
robotsVars == <<siteVars, cacheVars, asker>>

-----------------------------------------------------------------------------
\* The answers: rules that allow or forbid (2xx), no file (4xx), a server error
\* (5xx) and no answer at all.
Answers == {"allow", "forbid", "missing", "error", "down"}

\* fetchEntry: an error of the server forbids everything, all else without rules
\* allows everything, and neither is kept for long.
Allows(a) == a \in {"allow", "missing", "down"}

Lifetime(a) == IF a \in {"allow", "forbid"} THEN TTL ELSE NegativeTTL

\* What is left of the lifetime of an answer that has just been read.
Entry(a) == [file |-> a, left |-> IF age < Lifetime(a) THEN Lifetime(a) - age ELSE 0]

Fresh == answer # Nothing /\ answer.left > 0

RobotsInit ==
  /\ served = Nothing
  /\ servedFor = TTL + 1
  /\ answer = Nothing
  /\ leader = Nothing
  /\ asker = [w \in Askers |-> "idle"]
  /\ got = Nothing
  /\ age = 0
  /\ changes = 0

Becomes(w, state) == asker' = [asker EXCEPT ![w] = state]

(***************************************************************************)
(* A crawl asks: Allowed and entryFor.                                     *)
(***************************************************************************)
Ask(w) ==
  /\ asker[w] = "idle"
  /\ served # Nothing
  /\ Becomes(w, "ask")
  /\ UNCHANGED <<siteVars, cacheVars>>

\* Under the mutex: a fresh answer is taken,
TakeAnswer_Stale(w) ==
  /\ asker[w] \in {"ask", "waiting"}
  /\ leader = Nothing \/ asker[w] = "ask"
  /\ answer # Nothing
  /\ Becomes(w, IF Allows(answer.file) THEN "in" ELSE "out")
  /\ UNCHANGED <<siteVars, cacheVars>>

TakeAnswer(w) ==
  /\ asker[w] = "ask"
  /\ Fresh
  /\ Becomes(w, IF Allows(answer.file) THEN "in" ELSE "out")
  /\ UNCHANGED <<siteVars, cacheVars>>

\* or another crawl is fetching and this one waits for it,
AwaitLeader(w) ==
  /\ asker[w] = "ask"
  /\ ~Fresh
  /\ leader # Nothing
  /\ Becomes(w, "waiting")
  /\ UNCHANGED <<siteVars, cacheVars>>

\* or it fetches the file itself, out of the mutex.
Lead(w) ==
  /\ asker[w] = "ask"
  /\ ~Fresh
  /\ leader = Nothing
  /\ leader' = w
  /\ Becomes(w, "fetching")
  /\ age' = 0
  /\ UNCHANGED <<siteVars, answer, got>>

Raw(w) ==
  /\ asker[w] = "fetching"
  /\ Becomes(w, "storing")
  /\ got' = served
  /\ UNCHANGED <<siteVars, answer, leader, age>>

Store_NoWake(w) ==
  /\ asker[w] = "storing"
  /\ answer' = Entry(got)
  /\ leader' = Nothing
  /\ got' = Nothing
  /\ Becomes(w, IF Allows(got) THEN "in" ELSE "out")
  /\ UNCHANGED <<siteVars, age>>

\* The answer is stored, the marker goes and the waiters look again.
Store(w) ==
  /\ asker[w] = "storing"
  /\ answer' = Entry(got)
  /\ leader' = Nothing
  /\ got' = Nothing
  /\ asker' = [v \in Askers |-> IF v = w THEN (IF Allows(got) THEN "in" ELSE "out")
                                ELSE IF asker[v] = "waiting" THEN "ask" ELSE asker[v]]
  /\ UNCHANGED <<siteVars, age>>

Proceed(w) ==
  /\ asker[w] \in {"in", "out"}
  /\ Becomes(w, "idle")
  /\ UNCHANGED <<siteVars, cacheVars>>

(***************************************************************************)
(* The site and the clock.                                                 *)
(***************************************************************************)
Change(a) ==
  /\ changes < MaxChanges
  /\ a # served
  /\ served' = a
  /\ servedFor' = 0
  /\ changes' = changes + 1
  /\ UNCHANGED <<cacheVars, asker>>

\* Only a fetch takes time, and that one is timed out.
TimePasses ==
  /\ \A w \in Askers : asker[w] \in {"idle", "fetching", "storing", "waiting"}
  /\ leader # Nothing => age < FetchTime
  /\ servedFor' = IF servedFor > TTL THEN servedFor ELSE servedFor + 1
  /\ answer' = IF Fresh THEN [answer EXCEPT !.left = @ - 1] ELSE answer
  /\ age' = IF leader # Nothing THEN age + 1 ELSE 0
  /\ UNCHANGED <<served, changes, leader, got, asker>>

-----------------------------------------------------------------------------
AskStep(w) ==
  \/ TakeAnswer(w)
  \/ AwaitLeader(w)
  \/ Lead(w)
  \/ Raw(w)
  \/ Store(w)
  \/ Proceed(w)

RobotsNext ==
  \/ \E w \in Askers : Ask(w) \/ AskStep(w)
  \/ \E a \in Answers : Change(a)
  \/ TimePasses

\* A goroutine that has begun goes on; one that wakes again and again to look is at some
\* time the first at the mutex; and time passes.
RobotsFairness ==
  /\ \A w \in Askers : WF_robotsVars(AskStep(w)) /\ SF_robotsVars(Lead(w))
  /\ WF_robotsVars(TimePasses)

RobotsSpec == RobotsInit /\ [][RobotsNext]_robotsVars /\ RobotsFairness

-----------------------------------------------------------------------------
\* The types of the variables.
RobotsTypeOK ==
  /\ served \in Answers \cup {Nothing}
  /\ servedFor \in 0..(TTL + 1)
  /\ answer # Nothing => answer.file \in Answers /\ answer.left \in 0..TTL
  /\ leader \in Askers \cup {Nothing}
  /\ asker \in [Askers -> {"idle", "ask", "waiting", "fetching", "storing", "in", "out"}]
  /\ got \in Answers \cup {Nothing}
  /\ age \in 0..FetchTime

Decides(w) == asker[w] \notin {"in", "out"} /\ asker'[w] \in {"in", "out"}

\* A verdict is no older than the answer it rests on may be, whoever fetched the
\* file and whatever it had answered before: a site that has forbidden crawling for
\* the lifetime of cached rules is not crawled; and "a transient 503 doesn't pin the
\* host into disallow-all": once the site has recovered for NegativeTTL, or for as long as
\* the fetch of the error may have taken, no crawl is turned away because of the error.
VerdictIsFresh ==
  [][\A w \in Askers : Decides(w) =>
       /\ served = "forbid" /\ servedFor > TTL => asker'[w] = "out"
       /\ asker'[w] = "out" /\ servedFor > NegativeTTL /\ servedFor > FetchTime =>
            answer'.file = "forbid" \/ served = "error"]_robotsVars

\* A crawl that waits for another one's fetch is woken and gets an answer.
AskersServed == \A w \in Askers : asker[w] = "ask" ~> asker[w] = "idle"
=============================================================================
