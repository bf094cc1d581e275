--------------------------- MODULE DeliveryProofs ---------------------------
(***************************************************************************)
(* Proofs about Delivery, for any cap, any number of workers, recipients   *)
(* and flushes: the hourly cap holds over every hour and refuses nothing   *)
(* it could let pass; the digest buffer keeps the newest alerts, and no     *)
(* loss goes uncounted.                                                     *)
(***************************************************************************)
EXTENDS Delivery, FiniteSetTheorems, SequenceTheorems, TLAPS

\* The throttle keeps exactly what the cap is about: what it has let pass to a
\* recipient, as long as it is less than an hour old; and time does not go back.
KeptRight ==
  /\ \A a \in admitted \cup refused : a.at <= clock
  /\ \A k \in Keys : IsFiniteSet(sends[k])
  /\ \A k \in Keys : \A s \in sends[k] : s \in admitted /\ s.key = k
  /\ \A a \in admitted : a.at + Hour > clock => a \in sends[a.key]

WithinCap ==
  Cap > 0 => \A k \in Keys, t \in Time : IsFiniteSet(InHour(k, t)) /\ Cardinality(InHour(k, t)) <= Cap

CapInv == DeliveryTypeOK /\ KeptRight /\ WithinCap /\ RefusedOnlyWhenFull

-----------------------------------------------------------------------------
\* The initial state has the types.
LEMMA InitTypeOK == DeliveryInit => DeliveryTypeOK
<1> SUFFICES ASSUME DeliveryInit PROVE DeliveryTypeOK
  OBVIOUS
<1>1. clock \in Time /\ begun \in 0..MaxAlerts
  BY DeliveryAssumption DEF DeliveryInit, Time
<1>2. sends \in [Keys -> SUBSET Asked]
  BY DEF DeliveryInit
<1>3. buffer \in Seq(Alert) /\ Len(buffer) = 0 /\ added \in Seq(Alert)
  BY DEF DeliveryInit
<1>4. Len(buffer) <= MaxPending
  BY <1>3, DeliveryAssumption
<1>5. /\ pc \in [Workers -> {"idle", "send", "digest"}]
      /\ hand \in [Workers -> Alert \cup {NoAlert}]
      /\ \A w \in Workers : pc[w] = "digest" <=> hand[w] # NoAlert
  BY DEF DeliveryInit
<1>6. fpc \in [Flushers -> {"idle", "count", "loop", "take", "send"}] /\ stopping \in BOOLEAN
  BY DEF DeliveryInit
<1> QED
  BY <1>1, <1>2, <1>3, <1>4, <1>5, <1>6 DEF DeliveryInit, DeliveryTypeOK

\* An addition to the buffer leaves at most MaxPending alerts in it.
LEMMA AddFits ==
  ASSUME buffer \in Seq(Alert), Len(buffer) <= MaxPending, NEW a \in Alert
  PROVE  LET b == Append(SubSeq(buffer, Excess + 1, Len(buffer)), a) IN
         /\ Excess \in Nat
         /\ Excess <= Len(buffer)
         /\ b \in Seq(Alert)
         /\ Len(b) = Len(buffer) - Excess + 1
         /\ Len(b) <= MaxPending
<1> DEFINE rest == SubSeq(buffer, Excess + 1, Len(buffer))
<1>1. Excess \in Nat /\ Excess <= Len(buffer) /\ Len(buffer) - Excess + 1 <= MaxPending
  BY DeliveryAssumption DEF Excess
<1>2. rest \in Seq(Alert) /\ Len(rest) = Len(buffer) - Excess
  BY <1>1
<1>3. Append(rest, a) \in Seq(Alert) /\ Len(Append(rest, a)) = Len(rest) + 1
  BY <1>2
<1> QED
  BY <1>1, <1>2, <1>3

\* Every action keeps the types.
LEMMA TypeStep == DeliveryTypeOK /\ [DeliveryNext]_deliveryVars => DeliveryTypeOK'
<1> SUFFICES ASSUME DeliveryTypeOK, [DeliveryNext]_deliveryVars PROVE DeliveryTypeOK'
  OBVIOUS
<1> USE DEF DeliveryTypeOK, throttleHistory, digestHistory, workerVars, digestVars
<1>0. /\ MaxTime \in Nat /\ MaxAlerts \in Nat /\ Cap \in Nat /\ Hour \in Nat /\ MaxPending \in Nat
  BY DeliveryAssumption
<1>1. CASE Tick
  BY <1>0, <1>1 DEF Tick, Time
<1>2. CASE Stop
  BY <1>2 DEF Stop
<1>3. ASSUME NEW w \in Workers, NEW k \in Keys, AdmitAlert(w, k) \/ Refuse(w, k) PROVE DeliveryTypeOK'
  <2>1. Now(k) \in Asked /\ begun + 1 \in Alert /\ begun' \in 0..MaxAlerts
    BY <1>0, <1>3 DEF AdmitAlert, Refuse, AskThrottle, Now, Asked, Alert
  <2>2. Kept(k) \in SUBSET Asked
    BY DEF Kept
  <2>3. CASE AdmitAlert(w, k)
    BY <2>1, <2>2, <2>3 DEF AdmitAlert, AskThrottle
  <2>4. CASE Refuse(w, k)
    BY <1>0, <2>1, <2>2, <2>4 DEF Refuse, AskThrottle, Alert, NoAlert
  <2> QED
    BY <1>3, <2>3, <2>4
<1>4. ASSUME NEW w \in Workers, Bypass(w) \/ Send(w) PROVE DeliveryTypeOK'
  BY <1>4 DEF Bypass, Send
<1>5. ASSUME NEW w \in Workers, Add(w) PROVE DeliveryTypeOK'
  <2>0. hand[w] \in Alert
    BY <1>5 DEF Add
  <2>1. /\ buffer' \in Seq(Alert) /\ Len(buffer') <= MaxPending /\ dropped' \in Nat
    BY <1>5, <2>0, AddFits DEF Add
  <2>2. added' \in Seq(Alert)
    BY <1>5, <2>0 DEF Add
  <2> QED
    BY <1>5, <2>1, <2>2 DEF Add
<1>6. ASSUME NEW f \in Flushers, Flush(f) PROVE DeliveryTypeOK'
  <2>1. CASE FlushStart(f) \/ FlushCheck(f) \/ FlushSend(f) \/ FlushEnd(f)
    BY <2>1 DEF FlushStart, FlushCheck, FlushSend, FlushEnd
  <2>2. CASE TakeDropped(f)
    BY <2>2 DEF TakeDropped
  <2>3. CASE PopFront(f)
    BY <1>0, <2>3 DEF PopFront
  <2> QED
    BY <1>6, <2>1, <2>2, <2>3 DEF Flush
<1>7. CASE UNCHANGED deliveryVars
  BY <1>7 DEF deliveryVars
<1> QED
  BY <1>1, <1>2, <1>3, <1>4, <1>5, <1>6, <1>7 DEF DeliveryNext

-----------------------------------------------------------------------------
\* What the throttle has kept of a recipient is what it let pass to it in the
\* hour that ends now.
LEMMA KeptIsInHour ==
  ASSUME DeliveryTypeOK, KeptRight, NEW k \in Keys
  PROVE  Kept(k) = InHour(k, clock)
BY DEF Kept, InHour, KeptRight, DeliveryTypeOK, Asked, Time

\* The cap: one step per action, of which only AdmitAlert lets anything pass.
LEMMA CapStep == CapInv /\ [DeliveryNext]_deliveryVars => CapInv'
<1> SUFFICES ASSUME CapInv, [DeliveryNext]_deliveryVars PROVE CapInv'
  OBVIOUS
<1>t. DeliveryTypeOK /\ DeliveryTypeOK'
  BY TypeStep DEF CapInv
<1>0. Hour \in Nat \ {0} /\ Cap \in Nat /\ MaxTime \in Nat /\ clock \in Time
  BY <1>t, DeliveryAssumption DEF DeliveryTypeOK
<1>1. CASE Tick
  <2>1. KeptRight'
    BY <1>0, <1>1, <1>t DEF Tick, CapInv, KeptRight, throttleHistory, DeliveryTypeOK, Asked, Time
  <2>2. WithinCap' /\ RefusedOnlyWhenFull'
    BY <1>1 DEF Tick, CapInv, WithinCap, RefusedOnlyWhenFull, InHour, throttleHistory
  <2> QED
    BY <1>t, <2>1, <2>2 DEF CapInv
<1>2. ASSUME NEW w \in Workers, NEW k \in Keys, AdmitAlert(w, k) PROVE CapInv'
  <2>1. /\ clock' = clock
        /\ admitted' = admitted \cup {Now(k)} /\ refused' = refused
        /\ sends' = [sends EXCEPT ![k] = Kept(k) \cup {Now(k)}]
        /\ Now(k).at = clock /\ Now(k).key = k
    BY <1>2 DEF AdmitAlert, Now
  <2>2. IsFiniteSet(Kept(k)) /\ Cardinality(Kept(k)) \in Nat
    BY FS_Subset, FS_CardinalityType DEF Kept, CapInv, KeptRight
  <2>3. /\ IsFiniteSet(Kept(k) \cup {Now(k)})
        /\ Cardinality(Kept(k) \cup {Now(k)}) <= Cap
    <3>1. Cardinality(Kept(k)) + 1 <= Cap
      BY <1>0, <1>2, <2>2 DEF AdmitAlert
    <3>2. /\ IsFiniteSet(Kept(k) \cup {Now(k)})
          /\ Cardinality(Kept(k) \cup {Now(k)}) \in {Cardinality(Kept(k)), Cardinality(Kept(k)) + 1}
      BY <2>2, FS_AddElement
    <3> QED
      BY <1>0, <2>2, <3>1, <3>2
  <2>4. KeptRight'
    <3>1. \A a \in admitted' \cup refused' : a.at <= clock'
      BY <1>0, <2>1 DEF CapInv, KeptRight, Time
    <3>2. \A q \in Keys : IsFiniteSet(sends'[q])
      BY <1>t, <2>1, <2>3 DEF CapInv, KeptRight, DeliveryTypeOK
    <3>3. \A q \in Keys : \A s \in sends'[q] : s \in admitted' /\ s.key = q
      BY <1>t, <2>1 DEF CapInv, KeptRight, DeliveryTypeOK, Kept
    <3>4. ASSUME NEW a \in admitted', a.at + Hour > clock' PROVE a \in sends'[a.key]
      <4>1. CASE a = Now(k)
        BY <1>t, <2>1, <4>1 DEF DeliveryTypeOK
      <4>2. CASE a \in admitted
        <5>1. a \in sends[a.key] /\ a.key \in Keys
          BY <1>t, <2>1, <3>4, <4>2 DEF CapInv, KeptRight, DeliveryTypeOK, Asked
        <5> QED
          BY <1>t, <2>1, <3>4, <5>1 DEF DeliveryTypeOK, Kept
      <4> QED
        BY <2>1, <4>1, <4>2
    <3> QED
      BY <3>1, <3>2, <3>3, <3>4 DEF KeptRight
  <2>5. ASSUME NEW q \in Keys, NEW t \in Time, ~(q = k /\ clock <= t)
        PROVE  InHour(q, t)' = InHour(q, t)
    BY <1>0, <2>1, <2>5 DEF InHour, Time
  <2>6. ASSUME NEW t \in Time, clock <= t
        PROVE  IsFiniteSet(InHour(k, t)') /\ Cardinality(InHour(k, t)') <= Cap
    <3>1. InHour(k, t)' \subseteq Kept(k) \cup {Now(k)}
      <4>1. SUFFICES ASSUME NEW a \in admitted, a.key = k, t < a.at + Hour PROVE a \in Kept(k)
        BY <2>1 DEF InHour
      <4>2. a.at \in Nat /\ clock < a.at + Hour
        BY <1>0, <1>t, <2>6, <4>1 DEF DeliveryTypeOK, Asked, Time
      <4> QED
        BY <1>0, <4>1, <4>2 DEF CapInv, KeptRight, Kept
    <3>2. /\ IsFiniteSet(InHour(k, t)')
          /\ Cardinality(InHour(k, t)') <= Cardinality(Kept(k) \cup {Now(k)})
      BY <2>3, <3>1, FS_Subset
    <3>3. Cardinality(InHour(k, t)') \in Nat /\ Cardinality(Kept(k) \cup {Now(k)}) \in Nat
      BY <2>3, <3>2, FS_CardinalityType
    <3> QED
      BY <1>0, <2>3, <3>2, <3>3
  <2>7. WithinCap'
    BY <2>5, <2>6 DEF CapInv, WithinCap
  <2>8. RefusedOnlyWhenFull'
    <3>1. SUFFICES ASSUME NEW a \in refused PROVE InHour(a.key, a.at)' = InHour(a.key, a.at)
      BY <2>1 DEF CapInv, RefusedOnlyWhenFull
    <3>2. a.key \in Keys /\ a.at \in Time /\ a.at <= clock
      BY <1>t DEF DeliveryTypeOK, Asked, CapInv, KeptRight
    <3>3. ~(a.key = k /\ clock <= a.at)
      <4>1. SUFFICES ASSUME a.key = k, clock <= a.at PROVE FALSE
        OBVIOUS
      <4>2. a.at = clock
        BY <1>0, <3>2, <4>1 DEF Time
      <4>3. Cardinality(Kept(k)) = Cap
        BY <1>t, <4>1, <4>2, KeptIsInHour DEF CapInv, RefusedOnlyWhenFull
      <4> QED
        BY <1>0, <1>2, <4>3 DEF AdmitAlert
    <3> QED
      BY <2>5, <3>2, <3>3
  <2> QED
    BY <1>t, <2>4, <2>7, <2>8 DEF CapInv
<1>3. ASSUME NEW w \in Workers, NEW k \in Keys, Refuse(w, k) PROVE CapInv'
  <2>1. /\ clock' = clock /\ admitted' = admitted
        /\ refused' = refused \cup {Now(k)}
        /\ sends' = [sends EXCEPT ![k] = Kept(k)]
        /\ Now(k).at = clock /\ Now(k).key = k
    BY <1>3 DEF Refuse, Now
  <2>2. IsFiniteSet(Kept(k)) /\ Cardinality(Kept(k)) \in Nat
    BY FS_Subset, FS_CardinalityType DEF Kept, CapInv, KeptRight
  <2>3. KeptRight'
    <3>1. \A a \in admitted' \cup refused' : a.at <= clock'
      BY <1>0, <2>1 DEF CapInv, KeptRight, Time
    <3>2. \A q \in Keys : IsFiniteSet(sends'[q]) /\ sends'[q] \subseteq sends[q]
      BY <1>t, <2>1, <2>2 DEF CapInv, KeptRight, DeliveryTypeOK, Kept
    <3>3. ASSUME NEW a \in admitted', a.at + Hour > clock' PROVE a \in sends'[a.key]
      <4>1. a \in sends[a.key] /\ a.key \in Keys
        BY <1>t, <2>1, <3>3 DEF CapInv, KeptRight, DeliveryTypeOK, Asked
      <4> QED
        BY <1>t, <2>1, <3>3, <4>1 DEF DeliveryTypeOK, Kept
    <3> QED
      BY <2>1, <3>1, <3>2, <3>3 DEF CapInv, KeptRight
  <2>4. WithinCap'
    BY <2>1 DEF CapInv, WithinCap, InHour
  <2>5. Cardinality(InHour(k, clock)) = Cap
    <3>1. Cap > 0 /\ Cardinality(Kept(k)) >= Cap
      BY <1>3 DEF Refuse, AskThrottle
    <3> QED
      BY <1>0, <1>t, <2>2, <3>1, KeptIsInHour DEF CapInv, WithinCap
  <2>6. RefusedOnlyWhenFull'
    BY <2>1, <2>5 DEF CapInv, RefusedOnlyWhenFull, InHour
  <2> QED
    BY <1>t, <2>3, <2>4, <2>6 DEF CapInv
<1>4. CASE UNCHANGED <<clock, sends, admitted, refused>>
  BY <1>t, <1>4 DEF CapInv, KeptRight, WithinCap, RefusedOnlyWhenFull, InHour
<1>5. CASE \/ Stop
           \/ \E w \in Workers : Bypass(w) \/ Send(w) \/ Add(w)
           \/ \E f \in Flushers : Flush(f)
           \/ UNCHANGED deliveryVars
  <2>1. UNCHANGED <<clock, sends, admitted, refused>>
    BY <1>5 DEF Stop, Bypass, Send, Add, Flush, FlushStart, TakeDropped, FlushCheck, PopFront,
                FlushSend, FlushEnd, deliveryVars, throttleHistory
  <2> QED
    BY <1>4, <2>1
<1> QED
  BY <1>1, <1>2, <1>3, <1>5 DEF DeliveryNext

\* The types hold in every state.
THEOREM TypeCorrect == DeliverySpec => []DeliveryTypeOK
<1> QED
  BY InitTypeOK, TypeStep, PTL DEF DeliverySpec

\* The throttle starts with nothing sent and nothing refused.
LEMMA InitCap == DeliveryInit => CapInv
<1> SUFFICES ASSUME DeliveryInit PROVE CapInv
  OBVIOUS
<1>1. \A k \in Keys, t \in Time : InHour(k, t) = {}
  BY DEF DeliveryInit, InHour
<1>2. IsFiniteSet({}) /\ Cardinality({}) = 0 /\ Cap \in Nat
  BY FS_EmptySet, DeliveryAssumption
<1>3. KeptRight
  BY <1>2 DEF DeliveryInit, KeptRight
<1>4. WithinCap
  BY <1>1, <1>2 DEF WithinCap
<1>5. RefusedOnlyWhenFull
  BY DEF DeliveryInit, RefusedOnlyWhenFull
<1> QED
  BY <1>3, <1>4, <1>5, InitTypeOK DEF CapInv

\* The hourly cap: whatever the workers do, and over every hour, no more than Cap
\* alerts that are not critical pass to a recipient.
THEOREM RealtimeCapCorrect == DeliverySpec => []RealtimeCap
<1>1. CapInv => RealtimeCap
  BY DEF CapInv, WithinCap, RealtimeCap
<1> QED
  BY <1>1, InitCap, CapStep, PTL DEF DeliverySpec

\* And it is not stricter than that: an alert is refused only when Cap alerts have
\* passed to its recipient in the hour that ends with it.
THEOREM RefusedOnlyWhenFullCorrect == DeliverySpec => []RefusedOnlyWhenFull
<1>1. CapInv => RefusedOnlyWhenFull
  BY DEF CapInv
<1> QED
  BY <1>1, InitCap, CapStep, PTL DEF DeliverySpec

-----------------------------------------------------------------------------
\* The buffer is the tail of what was added, place by place; and every alert
\* added is in it, taken, or a loss that is counted.
Newest(i) == added[Len(added) - Len(buffer) + i]

BufferInv ==
  /\ DeliveryTypeOK
  /\ Len(buffer) <= Len(added)
  /\ \A i \in 1..Len(buffer) : buffer[i] = Newest(i)
  /\ LossesCounted

\* The buffer: only Add and PopFront change it, and only Add adds.
LEMMA BufferStep == BufferInv /\ [DeliveryNext]_deliveryVars => BufferInv'
<1> SUFFICES ASSUME BufferInv, [DeliveryNext]_deliveryVars PROVE BufferInv'
  OBVIOUS
<1>t. DeliveryTypeOK /\ DeliveryTypeOK'
  BY TypeStep DEF BufferInv
<1>n. /\ Len(buffer) \in Nat /\ Len(added) \in Nat /\ Len(buffer) <= Len(added)
      /\ dropped \in Nat /\ popped \in Nat /\ reported \in Nat
      /\ Len(added) = Len(buffer) + popped + dropped + reported
  BY <1>t DEF BufferInv, LossesCounted, DeliveryTypeOK
<1>1. ASSUME NEW w \in Workers, Add(w) PROVE BufferInv'
  <2> DEFINE rest == SubSeq(buffer, Excess + 1, Len(buffer))
  <2>1. hand[w] \in Alert
    BY <1>1, <1>t DEF Add, DeliveryTypeOK
  <2>2. /\ Excess \in Nat /\ Excess <= Len(buffer)
        /\ buffer' = Append(rest, hand[w])
        /\ Len(buffer') = Len(buffer) - Excess + 1
    BY <1>1, <1>t, <2>1, AddFits DEF Add, DeliveryTypeOK
  <2>3. /\ added' = Append(added, hand[w])
        /\ Len(added') = Len(added) + 1
        /\ added'[Len(added) + 1] = hand[w]
        /\ \A j \in 1..Len(added) : added'[j] = added[j]
    BY <1>1, <1>t, <2>1 DEF Add, DeliveryTypeOK
  <2>n. \E e \in Nat : /\ e = Excess /\ e <= Len(buffer)
                       /\ Len(buffer') = Len(buffer) - e + 1
                       /\ Len(added') = Len(added) + 1
    BY <2>2, <2>3
  <2>4. rest \in Seq(Alert) /\ Len(rest) = Len(buffer) - Excess
    BY <1>t, <2>2 DEF DeliveryTypeOK
  <2>5. \A i \in 1..Len(rest) : rest[i] = buffer[Excess + i]
    BY <1>t, <2>2, <2>4 DEF DeliveryTypeOK
  <2>6. ASSUME NEW i \in 1..Len(buffer') PROVE buffer'[i] = Newest(i)'
    <3>1. CASE i = Len(buffer) - Excess + 1
      <4>1. buffer'[i] = hand[w]
        BY <2>1, <2>2, <2>4, <3>1
      <4>2. Len(added') - Len(buffer') + i = Len(added) + 1
        BY <1>n, <2>n, <3>1
      <4> QED
        BY <2>3, <4>1, <4>2 DEF Newest
    <3>2. CASE i \in 1..Len(rest)
      <4>1. buffer'[i] = rest[i]
        BY <2>1, <2>2, <2>4, <3>2
      <4>2. Excess + i \in 1..Len(buffer)
        BY <1>t, <2>2, <2>4, <3>2 DEF DeliveryTypeOK
      <4>3. Len(added') - Len(buffer') + i = Len(added) - Len(buffer) + (Excess + i)
        BY <1>n, <2>n, <2>4, <3>2
      <4>4. Len(added) - Len(buffer) + (Excess + i) \in 1..Len(added)
        BY <1>t, <4>2 DEF BufferInv, DeliveryTypeOK
      <4> QED
        BY <2>3, <2>5, <3>2, <4>1, <4>2, <4>3, <4>4 DEF BufferInv, Newest
    <3> QED
      BY <1>n, <2>2, <2>4, <2>6, <3>1, <3>2
  <2>7. Len(buffer') <= Len(added')
    BY <1>t, <2>2, <2>3 DEF BufferInv, DeliveryTypeOK
  <2>8. LossesCounted'
    <3>1. dropped' = dropped + Excess /\ popped' = popped /\ reported' = reported
      BY <1>1 DEF Add
    <3> QED
      BY <1>n, <2>n, <3>1 DEF LossesCounted
  <2> QED
    BY <1>t, <2>6, <2>7, <2>8 DEF BufferInv
<1>2. ASSUME NEW f \in Flushers, PopFront(f) PROVE BufferInv'
  <2>1. /\ buffer # <<>> /\ buffer' = Tail(buffer) /\ added' = added
        /\ Len(buffer) > 0 /\ Len(buffer') = Len(buffer) - 1
        /\ \A i \in 1..Len(buffer') : buffer'[i] = buffer[i + 1]
    BY <1>2, <1>t DEF PopFront, digestHistory, DeliveryTypeOK
  <2>2. ASSUME NEW i \in 1..Len(buffer') PROVE buffer'[i] = Newest(i)'
    <3>1. i + 1 \in 1..Len(buffer)
      BY <1>t, <2>1 DEF DeliveryTypeOK
    <3>2. Len(added') - Len(buffer') + i = Len(added) - Len(buffer) + (i + 1)
      BY <1>t, <2>1 DEF DeliveryTypeOK
    <3> QED
      BY <2>1, <3>1, <3>2 DEF BufferInv, Newest
  <2>3. Len(buffer') <= Len(added') /\ LossesCounted'
    <3>1. popped' = popped + 1 /\ dropped' = dropped /\ reported' = reported
      BY <1>2 DEF PopFront
    <3> QED
      BY <1>n, <2>1, <3>1 DEF LossesCounted
  <2> QED
    BY <1>t, <2>2, <2>3 DEF BufferInv
<1>3. ASSUME NEW f \in Flushers, TakeDropped(f) PROVE BufferInv'
  <2>1. /\ buffer' = buffer /\ added' = added /\ popped' = popped
        /\ dropped' = 0 /\ reported' = reported + dropped
    BY <1>3 DEF TakeDropped
  <2>2. LossesCounted'
    BY <1>n, <2>1 DEF LossesCounted
  <2> QED
    BY <1>t, <2>1, <2>2 DEF BufferInv, Newest
<1>4. CASE UNCHANGED <<buffer, dropped, digestHistory>>
  BY <1>t, <1>4 DEF BufferInv, LossesCounted, Newest, digestHistory
<1>5. CASE \/ Tick \/ Stop
           \/ \E w \in Workers, k \in Keys : AdmitAlert(w, k) \/ Refuse(w, k)
           \/ \E w \in Workers : Bypass(w) \/ Send(w)
           \/ \E f \in Flushers : FlushStart(f) \/ FlushCheck(f) \/ FlushSend(f) \/ FlushEnd(f)
           \/ UNCHANGED deliveryVars
  <2>1. UNCHANGED <<buffer, dropped, digestHistory>>
    BY <1>5 DEF Tick, Stop, AdmitAlert, Refuse, Bypass, Send, FlushStart, FlushCheck, FlushSend,
                FlushEnd, deliveryVars, digestVars, digestHistory
  <2> QED
    BY <1>4, <2>1
<1> QED
  BY <1>1, <1>2, <1>3, <1>5 DEF DeliveryNext, Flush

\* The buffer starts empty.
LEMMA InitBuffer == DeliveryInit => BufferInv
BY InitTypeOK DEF DeliveryInit, BufferInv, LossesCounted

\* The digest loses only alerts that are older than all it keeps: whatever the
\* order of additions and flushes, the buffer holds the newest of those added.
THEOREM BufferIsNewestCorrect == DeliverySpec => []BufferIsNewest
<1>1. BufferInv => BufferIsNewest
  <2> SUFFICES ASSUME BufferInv PROVE BufferIsNewest
    OBVIOUS
  <2> DEFINE newest == SubSeq(added, Len(added) - Len(buffer) + 1, Len(added))
  <2>1. /\ buffer \in Seq(Alert) /\ added \in Seq(Alert)
        /\ Len(buffer) \in Nat /\ Len(added) \in Nat /\ Len(buffer) <= Len(added)
    BY DEF BufferInv, DeliveryTypeOK
  <2>2. newest \in Seq(Alert) /\ Len(newest) = Len(buffer)
    BY <2>1
  <2>3. \A i \in 1..Len(buffer) : newest[i] = added[Len(added) - Len(buffer) + i]
    BY <2>1, <2>2
  <2>4. \A i \in 1..Len(buffer) : buffer[i] = newest[i]
    BY <2>3 DEF BufferInv, Newest
  <2> QED
    BY <2>1, <2>2, <2>4, SeqEqual DEF BufferIsNewest
<1> QED
  BY <1>1, InitBuffer, BufferStep, PTL DEF DeliverySpec

\* No loss is missed and none is reported twice, however many flushes overlap.
THEOREM LossesCountedCorrect == DeliverySpec => []LossesCounted
<1>1. BufferInv => LossesCounted
  BY DEF BufferInv
<1> QED
  BY <1>1, InitBuffer, BufferStep, PTL DEF DeliverySpec

\* What the run checks of the throttle: it lets pass all that the cap allows in
\* each hour, and no more.
THEOREM HourlyCapCorrect == DeliverySpec => []HourlyCapExact
<1>1. RealtimeCap /\ RefusedOnlyWhenFull => HourlyCapExact
  BY DEF HourlyCapExact
<1> QED
  BY <1>1, RealtimeCapCorrect, RefusedOnlyWhenFullCorrect, PTL

\* What the run checks of the digest: only the oldest alerts are lost, and each
\* loss is counted.
THEOREM DigestAccountedCorrect == DeliverySpec => []DigestAccounted
<1>1. BufferIsNewest /\ LossesCounted => DigestAccounted
  BY DEF DigestAccounted
<1> QED
  BY <1>1, BufferIsNewestCorrect, LossesCountedCorrect, PTL
=============================================================================
