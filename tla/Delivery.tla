------------------------------ MODULE Delivery ------------------------------
(***************************************************************************)
(* What becomes of a notification once its incident is saved: the          *)
(* maybeDispatch of internal/alerts/pipeline.go, the hourly throttle of    *)
(* throttle.go, the digest buffer and DigestFlush of                       *)
(* internal/supervisor/wiring.go.                                          *)
(*                                                                         *)
(* Crawl workers ask the throttle, which lets at most Cap alerts that are  *)
(* not critical pass to one recipient in any hour; the others go to a      *)
(* buffer that forgets the oldest when it is full.  A timer flushes the    *)
(* buffer, one alert at a time; a flush that takes longer than the period  *)
(* of the timer runs along with the next.  The throttle and the buffer     *)
(* have a mutex each, so a call of either is one step.  A send may fail.   *)
(*                                                                         *)
(* Bounds: MaxTime (clock ticks), MaxAlerts.                               *)
(*                                                                         *)
(* A definition named X_Y is X with the defect Y: the checks put it in the *)
(* place of X to show that a property can fail.                            *)
(***************************************************************************)
EXTENDS Naturals, Sequences, FiniteSets

CONSTANTS
  Workers,     \* goroutines that dispatch
  Flushers,    \* runs of the digest job
  Keys,        \* throttle keys: the channel an alert is routed to
  Cap,         \* Caps.HourlyCap; 0 is no limit
  Hour,        \* in ticks
  MaxPending,  \* digestBuffer.cap()
  MaxTime,
  MaxAlerts

ASSUME DeliveryAssumption ==
  /\ Cap \in Nat
  /\ Hour \in Nat \ {0}
  /\ MaxPending \in Nat \ {0}
  /\ MaxTime \in Nat
  /\ MaxAlerts \in Nat

VARIABLES
  clock,     \* the time the throttle reads, inside its mutex
  begun,     \* how many alerts have asked the throttle; also the id of the last
  stopping,  \* the context of the daemon is done
  sends,     \* throttle.counts: the sends kept for each key
  pc,        \* where each worker is
  hand,      \* the alert it takes to the buffer
  buffer,    \* digestBuffer.pending
  dropped,   \* digestBuffer.dropped
  fpc,       \* where each flush is
  admitted,  \* history: what the throttle let pass, and when
  refused,   \* history: what it did not
  added,     \* history: all that went to the buffer, in order
  popped,    \* history: how many a flush has taken out
  reported   \* history: how many losses the flushes have reported

workerVars == <<pc, hand>>
digestVars == <<buffer, dropped, fpc>>
throttleHistory == <<admitted, refused>>
digestHistory == <<added, popped, reported>>
deliveryVars == <<clock, begun, stopping, sends, workerVars, digestVars, throttleHistory, digestHistory>>

-----------------------------------------------------------------------------
Time  == 0..MaxTime
Alert == 1..MaxAlerts
NoAlert == 0
Asked == [id : Alert, key : Keys, at : Time]

DeliveryInit ==
  /\ clock = 0
  /\ begun = 0
  /\ stopping = FALSE
  /\ sends = [k \in Keys |-> {}]
  /\ pc = [w \in Workers |-> "idle"]
  /\ hand = [w \in Workers |-> NoAlert]
  /\ buffer = <<>>
  /\ dropped = 0
  /\ fpc = [f \in Flushers |-> "idle"]
  /\ admitted = {}
  /\ refused = {}
  /\ added = <<>>
  /\ popped = 0
  /\ reported = 0

Tick ==
  /\ clock < MaxTime
  /\ clock' = clock + 1
  /\ UNCHANGED <<begun, stopping, sends, workerVars, digestVars, throttleHistory, digestHistory>>

Stop ==
  /\ stopping' = TRUE
  /\ UNCHANGED <<clock, begun, sends, workerVars, digestVars, throttleHistory, digestHistory>>

(***************************************************************************)
(* maybeDispatch: throttle.allow, then Dispatch or digestBuffer.Add.       *)
(***************************************************************************)
\* A critical alert passes and does not count; so does any alert without a cap.
Bypass(w) ==
  /\ pc[w] = "idle"
  /\ pc' = [pc EXCEPT ![w] = "send"]
  /\ UNCHANGED <<clock, begun, stopping, sends, hand, digestVars, throttleHistory, digestHistory>>

\* The sends of the trailing hour; one that is exactly an hour old is not.
Kept(key) == {s \in sends[key] : s.at + Hour > clock}

\* The alert that asks the throttle now.
Now(key) == [id |-> begun + 1, key |-> key, at |-> clock]

AskThrottle ==
  /\ Cap > 0
  /\ begun < MaxAlerts
  /\ begun' = begun + 1

AdmitAlert_OffByOne(w, key) ==
  /\ pc[w] = "idle"
  /\ AskThrottle
  /\ Cardinality(Kept(key)) <= Cap
  /\ sends' = [sends EXCEPT ![key] = Kept(key) \cup {Now(key)}]
  /\ admitted' = admitted \cup {Now(key)}
  /\ pc' = [pc EXCEPT ![w] = "send"]
  /\ UNCHANGED <<clock, stopping, hand, digestVars, refused, digestHistory>>

AdmitAlert(w, key) ==
  /\ pc[w] = "idle"
  /\ AskThrottle
  /\ Cardinality(Kept(key)) < Cap
  /\ sends' = [sends EXCEPT ![key] = Kept(key) \cup {Now(key)}]
  /\ admitted' = admitted \cup {Now(key)}
  /\ pc' = [pc EXCEPT ![w] = "send"]
  /\ UNCHANGED <<clock, stopping, hand, digestVars, refused, digestHistory>>

Refuse(w, key) ==
  /\ pc[w] = "idle"
  /\ AskThrottle
  /\ Cardinality(Kept(key)) >= Cap
  /\ sends' = [sends EXCEPT ![key] = Kept(key)]
  /\ refused' = refused \cup {Now(key)}
  /\ pc' = [pc EXCEPT ![w] = "digest"]
  /\ hand' = [hand EXCEPT ![w] = begun + 1]
  /\ UNCHANGED <<clock, stopping, digestVars, admitted, digestHistory>>

\* Dispatch: the alert is sent, or the error goes to the crawl; either way this
\* was its one attempt.
Send(w) ==
  /\ pc[w] = "send"
  /\ pc' = [pc EXCEPT ![w] = "idle"]
  /\ UNCHANGED <<clock, begun, stopping, sends, hand, digestVars, throttleHistory, digestHistory>>

Excess_TooFew == IF Len(buffer) > MaxPending THEN Len(buffer) - MaxPending ELSE 0

\* How many alerts must leave the buffer for one more to fit.
Excess == IF Len(buffer) >= MaxPending THEN Len(buffer) - MaxPending + 1 ELSE 0

\* digestBuffer.Add: the oldest are dropped, and counted.
Add_DropsNewest(w) ==
  /\ pc[w] = "digest"
  /\ buffer' = Append(SubSeq(buffer, 1, Len(buffer) - Excess), hand[w])
  /\ dropped' = dropped + Excess
  /\ added' = Append(added, hand[w])
  /\ pc' = [pc EXCEPT ![w] = "idle"]
  /\ hand' = [hand EXCEPT ![w] = NoAlert]
  /\ UNCHANGED <<clock, begun, stopping, sends, fpc, throttleHistory, popped, reported>>

Add(w) ==
  /\ pc[w] = "digest"
  /\ buffer' = Append(SubSeq(buffer, Excess + 1, Len(buffer)), hand[w])
  /\ dropped' = dropped + Excess
  /\ added' = Append(added, hand[w])
  /\ pc' = [pc EXCEPT ![w] = "idle"]
  /\ hand' = [hand EXCEPT ![w] = NoAlert]
  /\ UNCHANGED <<clock, begun, stopping, sends, fpc, throttleHistory, popped, reported>>

(***************************************************************************)
(* DigestFlush.  The context is looked at before the buffer is, at the     *)
(* start and before each alert; the daemon may stop in between.            *)
(***************************************************************************)
FlushStart(f) ==
  /\ fpc[f] = "idle"
  /\ ~stopping
  /\ fpc' = [fpc EXCEPT ![f] = "count"]
  /\ UNCHANGED <<clock, begun, stopping, sends, workerVars, buffer, dropped, throttleHistory, digestHistory>>

TakeDropped(f) ==
  /\ fpc[f] = "count"
  /\ reported' = reported + dropped
  /\ dropped' = 0
  /\ fpc' = [fpc EXCEPT ![f] = "loop"]
  /\ UNCHANGED <<clock, begun, stopping, sends, workerVars, buffer, throttleHistory, added, popped>>

FlushCheck(f) ==
  /\ fpc[f] = "loop"
  /\ ~stopping
  /\ fpc' = [fpc EXCEPT ![f] = "take"]
  /\ UNCHANGED <<clock, begun, stopping, sends, workerVars, buffer, dropped, throttleHistory, digestHistory>>

PopFront(f) ==
  /\ fpc[f] = "take"
  /\ buffer # <<>>
  /\ buffer' = Tail(buffer)
  /\ popped' = popped + 1
  /\ fpc' = [fpc EXCEPT ![f] = "send"]
  /\ UNCHANGED <<clock, begun, stopping, sends, workerVars, dropped, throttleHistory, added, reported>>

\* A failed send is logged, and the flush goes on.
FlushSend(f) ==
  /\ fpc[f] = "send"
  /\ fpc' = [fpc EXCEPT ![f] = "loop"]
  /\ UNCHANGED <<clock, begun, stopping, sends, workerVars, buffer, dropped, throttleHistory, digestHistory>>

FlushEnd(f) ==
  /\ \/ fpc[f] = "loop" /\ stopping
     \/ fpc[f] = "take" /\ buffer = <<>>
  /\ fpc' = [fpc EXCEPT ![f] = "idle"]
  /\ UNCHANGED <<clock, begun, stopping, sends, workerVars, buffer, dropped, throttleHistory, digestHistory>>

-----------------------------------------------------------------------------
Flush(f) ==
  \/ FlushStart(f) \/ TakeDropped(f)
  \/ FlushCheck(f) \/ PopFront(f) \/ FlushSend(f) \/ FlushEnd(f)

DeliveryNext ==
  \/ Tick
  \/ Stop
  \/ \E w \in Workers, key \in Keys : AdmitAlert(w, key) \/ Refuse(w, key)
  \/ \E w \in Workers : Bypass(w) \/ Send(w) \/ Add(w)
  \/ \E f \in Flushers : Flush(f)

DeliverySpec == DeliveryInit /\ [][DeliveryNext]_deliveryVars

-----------------------------------------------------------------------------
DeliveryTypeOK ==
  /\ clock \in Time
  /\ begun \in 0..MaxAlerts
  /\ stopping \in BOOLEAN
  /\ sends \in [Keys -> SUBSET Asked]
  /\ pc \in [Workers -> {"idle", "send", "digest"}]
  /\ hand \in [Workers -> Alert \cup {NoAlert}]
  /\ \A w \in Workers : pc[w] = "digest" <=> hand[w] # NoAlert
  /\ buffer \in Seq(Alert)
  /\ Len(buffer) <= MaxPending
  /\ dropped \in Nat
  /\ fpc \in [Flushers -> {"idle", "count", "loop", "take", "send"}]
  /\ admitted \in SUBSET Asked
  /\ refused \in SUBSET Asked
  /\ added \in Seq(Alert)
  /\ popped \in Nat
  /\ reported \in Nat

\* What the throttle let pass to a recipient in the hour that ends at t.
InHour(key, t) == {a \in admitted : a.key = key /\ a.at <= t /\ t < a.at + Hour}

\* The cap holds over every hour, not only over the hours of a clock ("the sliding
\* window bounds the rate over every rolling hour", throttle).
RealtimeCap == Cap > 0 => \A key \in Keys, t \in Time : Cardinality(InHour(key, t)) <= Cap

\* The throttle holds nothing back that it could let pass: an alert is refused only
\* when the hour that ends with it is full.
RefusedOnlyWhenFull == \A a \in refused : Cardinality(InHour(a.key, a.at)) = Cap

\* Whatever the order of additions, overflows and flushes that overlap, the buffer
\* holds the newest alerts in the order they came: neither a flush nor an overflow
\* takes an alert that is newer than one it leaves.
BufferIsNewest == buffer = SubSeq(added, Len(added) - Len(buffer) + 1, Len(added))

\* Each alert that went to the buffer is there, or a flush has taken it, or its
\* loss is counted and reported once (takeDropped).
LossesCounted == Len(added) = Len(buffer) + popped + dropped + reported

\* The throttle is exact: it lets no more than the cap pass in any hour, and holds
\* back nothing while there is room in the hour.
HourlyCapExact == RealtimeCap /\ RefusedOnlyWhenFull

\* The digest accounts for every alert that was put off, however its additions,
\* overflows and flushes overlap: the newest are kept, and each loss is told once.
DigestAccounted == BufferIsNewest /\ LossesCounted
=============================================================================
