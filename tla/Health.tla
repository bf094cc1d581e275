------------------------------- MODULE Health -------------------------------
(***************************************************************************)
(* The health score of a scope, a site or one of its segments, and its     *)
(* trend (internal/store/health.go).  A score is computed from two reads,  *)
(* the pages and then the open issues, and stored by a third transaction   *)
(* when it differs from the latest point; crawls, admissions, a            *)
(* re-segmentation and the operator change what is read in between, and    *)
(* the recomputes of several crawls overlap.                               *)
(*                                                                         *)
(* Importance stands for the points a page can lose.  Bounds: MaxMoves     *)
(* changes of the site, MaxPoints points, MaxHealthClock.                  *)
(***************************************************************************)
EXTENDS Integers, FiniteSets

CONSTANTS
  ScorePages,      \* pages that may come into the scope
  Importances,     \* capPoints: the points a page can lose
  HealthRules,     \* rules, with the impact points of their issues
  Impact,
  Scorers,         \* the recomputes that may be under way
  MaxMoves, MaxPoints, MaxHealthClock

ASSUME HealthAssumption ==
  /\ IsFiniteSet(ScorePages) /\ IsFiniteSet(HealthRules)
  /\ Importances \subseteq Nat
  /\ Impact \in [HealthRules -> Nat]
  /\ {MaxMoves, MaxPoints, MaxHealthClock} \subseteq Nat

VARIABLES
  scope,      \* the pages of the scope
  importance, \* urls.importance, as capPoints has it
  processed,  \* the pages with a last_checked
  openIssues, \* open issues, as pairs of a page and a rule
  points,     \* health_scores of the scope
  scorer,     \* what each recompute has read
  moves, healthClock

healthVars == <<scope, importance, processed, openIssues, points, scorer, moves, healthClock>>

-----------------------------------------------------------------------------
NotScoring == [pc |-> "idle", now |-> 0, caps |-> <<>>, pages |-> 0, masses |-> <<>>]

HealthInit ==
  /\ scope = {}
  /\ importance = [p \in ScorePages |-> 0]
  /\ processed = {}
  /\ openIssues = {}
  /\ points = {}
  /\ scorer = [w \in Scorers |-> NotScoring]
  /\ moves = 0
  /\ healthClock = 0

HealthTypeOK ==
  /\ scope \subseteq ScorePages
  /\ importance \in [ScorePages -> Importances \cup {0}]
  /\ processed \subseteq ScorePages
  /\ openIssues \subseteq ScorePages \X HealthRules
  /\ points \subseteq [id : 1..MaxPoints, at : 0..MaxHealthClock, impact : Nat, max : Nat,
                       pages : 0..Cardinality(ScorePages)]
  /\ \A w \in Scorers : scorer[w].pc \in {"idle", "pages", "issues", "insert"}
  /\ moves \in 0..MaxMoves
  /\ healthClock \in 0..MaxHealthClock

\* The points 1, 2, ... f[x] of each x in D: there are as many as f sums up to over D.
PointsOf(D, f) == UNION {{x} \X (1..f[x]) : x \in D}
Total(D, f) == Cardinality(PointsOf(D, f))

\* What a recompute reads: the caps of the pages, and the mass of the issues of each
\* page that has any.
Caps == [p \in scope |-> importance[p]]
Mass(p) == Total({r \in HealthRules : <<p, r>> \in openIssues}, Impact)
Masses == [p \in {p \in scope : Mass(p) > 0} |-> Mass(p)]

\* A page whose cap was not read with it can lose nothing.
CapOf(caps, p) == IF p \in DOMAIN caps THEN caps[p] ELSE 0
Deficit_Uncapped(caps, m, p) == m
Deficit(caps, m, p) == IF m < CapOf(caps, p) THEN m ELSE CapOf(caps, p)

Deficits(s) == [p \in DOMAIN s.masses |-> Deficit(s.caps, s.masses[p], p)]
ImpactMass(s) == Total(DOMAIN s.masses, Deficits(s))
MaxMass(s) == Total(DOMAIN s.caps, s.caps)
RequiredCoverage(known) == (known + 1) \div 2
Defined(s) == MaxMass(s) > 0 /\ s.pages >= RequiredCoverage(Cardinality(DOMAIN s.caps))

\* ORDER BY computed_at DESC, id DESC LIMIT 1
LatestPoint == {q \in points : \A o \in points : q.at > o.at \/ (q.at = o.at /\ q.id >= o.id)}

-----------------------------------------------------------------------------
Move == moves < MaxMoves /\ moves' = moves + 1

\* A page is admitted, or upserted again, with the importance it comes with.
UpsertURL(p) ==
  /\ Move
  /\ \E i \in Importances : importance' = [importance EXCEPT ![p] = i]
  /\ scope' = scope \cup {p}
  /\ UNCHANGED <<processed, openIssues, points, scorer, healthClock>>

\* The site is segmented anew.
LeaveScope(p) ==
  /\ Move
  /\ p \in scope
  /\ scope' = scope \ {p}
  /\ UNCHANGED <<importance, processed, openIssues, points, scorer, healthClock>>

\* A crawl of a page writes its issues one by one, and then last_checked.
UpsertIssue(p, r) ==
  /\ Move
  /\ openIssues' = openIssues \cup {<<p, r>>}
  /\ UNCHANGED <<scope, importance, processed, points, scorer, healthClock>>

UpdateURLSchedule(p) ==
  /\ Move
  /\ processed' = processed \cup {p}
  /\ UNCHANGED <<scope, importance, openIssues, points, scorer, healthClock>>

\* A crawl closes an issue, or the operator ignores it.
IssueCloses(p, r) ==
  /\ Move
  /\ <<p, r>> \in openIssues
  /\ openIssues' = openIssues \ {<<p, r>>}
  /\ UNCHANGED <<scope, importance, processed, points, scorer, healthClock>>

\* The time is taken before the reads.
RecordHealthScores(w) ==
  /\ scorer[w].pc = "idle"
  /\ scorer' = [scorer EXCEPT ![w] = [NotScoring EXCEPT !.pc = "pages", !.now = healthClock]]
  /\ UNCHANGED <<scope, importance, processed, openIssues, points, moves, healthClock>>

ScopeURLs(w) ==
  /\ scorer[w].pc = "pages"
  /\ scorer' = [scorer EXCEPT ![w].pc = "issues", ![w].caps = Caps,
                              ![w].pages = Cardinality(scope \cap processed)]
  /\ UNCHANGED <<scope, importance, processed, openIssues, points, moves, healthClock>>

\* What is not defined is not stored.
ScopeOpenIssues(w) ==
  /\ scorer[w].pc = "issues"
  /\ scorer' = [scorer EXCEPT ![w] = IF Defined(@) THEN [@ EXCEPT !.pc = "insert", !.masses = Masses]
                                     ELSE NotScoring]
  /\ UNCHANGED <<scope, importance, processed, openIssues, points, moves, healthClock>>

Same(q, s) == q.impact = ImpactMass(s) /\ q.max = MaxMass(s) /\ q.pages = s.pages

InsertHealthScoreIfChanged(w) ==
  /\ scorer[w].pc = "insert"
  /\ LET s == scorer[w]
         point == [id |-> Cardinality(points) + 1, at |-> s.now, impact |-> ImpactMass(s),
                   max |-> MaxMass(s), pages |-> s.pages]
     IN \/ \E q \in LatestPoint : Same(q, s) /\ UNCHANGED points
        \/ /\ \A q \in LatestPoint : ~Same(q, s)
           /\ Cardinality(points) < MaxPoints
           /\ points' = points \cup {point}
  /\ scorer' = [scorer EXCEPT ![w] = NotScoring]
  /\ UNCHANGED <<scope, importance, processed, openIssues, moves, healthClock>>

\* One of its three statements fails: the recompute is given up and logged.
ScoringFails(w) ==
  /\ scorer[w].pc # "idle"
  /\ scorer' = [scorer EXCEPT ![w] = NotScoring]
  /\ UNCHANGED <<scope, importance, processed, openIssues, points, moves, healthClock>>

HealthTick ==
  /\ healthClock < MaxHealthClock
  /\ healthClock' = healthClock + 1
  /\ UNCHANGED <<scope, importance, processed, openIssues, points, scorer, moves>>

HealthNext ==
  \/ \E p \in ScorePages : \/ UpsertURL(p) \/ LeaveScope(p) \/ UpdateURLSchedule(p)
                           \/ \E r \in HealthRules : UpsertIssue(p, r) \/ IssueCloses(p, r)
  \/ \E w \in Scorers : \/ RecordHealthScores(w) \/ ScopeURLs(w) \/ ScopeOpenIssues(w)
                        \/ InsertHealthScoreIfChanged(w) \/ ScoringFails(w)
  \/ HealthTick

HealthSpec == HealthInit /\ [][HealthNext]_healthVars

-----------------------------------------------------------------------------
(* A stored score is one: between nothing lost and everything lost, of a scope
   with something to lose, whatever changed between the two reads it was computed
   from (health.go:245). *)
ScoreInRange ==
  \A q \in points : q.max > 0 /\ q.impact \in 0..q.max /\ q.pages > 0
=============================================================================
