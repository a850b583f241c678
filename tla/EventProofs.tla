----------------------------- MODULE EventProofs -----------------------------
(***************************************************************************)
(* Proofs about Alerting and EventStore, for every number of keys, every   *)
(* window, limit and channel, every bus and every batch.                   *)
(***************************************************************************)
EXTENDS Alerting, EventStore, TLAPS

----------------------------------------------------------------------------
(* Alerting                                                                *)

LEMMA OlderType ==
    ASSUME NEW max \in Nat, NEW age \in 0..max
    PROVE  Older(age, max) \in 0..max
  BY SMT DEF Older

LEMMA OlderMonotone ==
    ASSUME NEW max \in Nat, NEW a \in 0..max, NEW b \in 0..max, a <= b
    PROVE  Older(a, max) <= Older(b, max)
  BY SMT DEF Older

LEMMA RefreshedType ==
    ASSUME window \in [count : 0..RateLimit, age : WindowAges]
    PROVE  Refreshed \in [count : 0..RateLimit, age : WindowAges]
  BY AlertingAssumption, SMT DEF Refreshed, WindowAges

LEMMA PushedType ==
    ASSUME sent \in [1..Remembered -> WindowAges]
    PROVE  Pushed \in [1..Remembered -> WindowAges]
  <1>1. 0 \in WindowAges /\ Remembered \in Nat
    BY AlertingAssumption, SMT DEF WindowAges, Remembered
  <1>2. ASSUME NEW i \in 1..Remembered, i # 1 PROVE sent[i - 1] \in WindowAges
    BY <1>1, <1>2, SMT
  <1> QED BY <1>1, <1>2, SMT DEF Pushed

LEMMA AlertTypeInit == Init => TypeOK
  BY AlertingAssumption, SMT DEF Init, TypeOK, Old, WindowAges, Event

LEMMA AlertTypeStep == TypeOK /\ [Next]_vars => TypeOK'
  <1> SUFFICES ASSUME TypeOK, [Next]_vars PROVE TypeOK'
    OBVIOUS
  <1> USE AlertingAssumption
  <1>1. ASSUME NEW e \in Event, Emit(e) PROVE TypeOK'
    BY <1>1, SMT DEF TypeOK, Emit
  <1>2. ASSUME NEW e \in Event, ProcessEvent(e), queue' \in Seq(Event), Len(queue') <= ChannelSize
        PROVE  TypeOK'
    <2>1. e.key \in Keys /\ Refreshed \in [count : 0..RateLimit, age : WindowAges]
      BY RefreshedType, SMT DEF TypeOK, Event
    <2>2. CASE Ignore(e)
      BY <1>2, <2>2, SMT DEF TypeOK, Ignore
    <2>3. CASE Throttle(e)
      BY <1>2, <2>1, <2>3, SMT DEF TypeOK, Throttle
    <2>4. CASE Dispatch(e) /\ ~(Refreshed.count >= RateLimit)
      <3> HIDE DEF Refreshed
      <3>1. window' \in [count : 0..RateLimit, age : WindowAges]
        BY <2>1, <2>4, SMT DEF Dispatch
      <3>2. current' \in Keys \cup {Idle} /\ dedup' \in [Keys -> 0..DedupWindow]
            /\ last' \in [Keys -> 0..DedupWindow]
        BY <2>1, <2>4, SMT DEF Dispatch, TypeOK
      <3>3. sent' \in [1..Remembered -> WindowAges]
        BY <2>4, PushedType, SMT DEF Dispatch, TypeOK
      <3> QED BY <1>2, <3>1, <3>2, <3>3 DEF TypeOK
    <2> QED BY <1>2, <2>2, <2>3, <2>4 DEF ProcessEvent
  <1>3. CASE Take
    <2>1. queue # <<>> /\ queue' = Tail(queue) /\ ProcessEvent(Head(queue))
      BY <1>3 DEF Take
    <2>2. Head(queue) \in Event /\ Tail(queue) \in Seq(Event) /\ Len(Tail(queue)) <= ChannelSize
      BY <2>1, SMT DEF TypeOK
    <2> QED BY <1>2, <2>1, <2>2
  <1>4. CASE DispatchEnd
    BY <1>4, SMT DEF TypeOK, DispatchEnd
  <1>5. CASE CleanupDedupCache
    <2>1. dedup' \in [Keys -> 0..DedupWindow]
      BY <1>5, SMT DEF TypeOK, CleanupDedupCache, Old
    <2> QED BY <1>5, <2>1, SMT DEF TypeOK, CleanupDedupCache
  <1>6. CASE Tick
    <2>1. dedup' \in [Keys -> 0..DedupWindow] /\ last' \in [Keys -> 0..DedupWindow]
      BY <1>6, OlderType, SMT DEF TypeOK, Tick
    <2>2. window' \in [count : 0..RateLimit, age : WindowAges]
      <3>1. window.age \in 0..(RateWindow + 1) /\ RateWindow + 1 \in Nat
        BY SMT DEF TypeOK, WindowAges
      <3>2. Older(window.age, RateWindow + 1) \in WindowAges
        BY <3>1, OlderType DEF WindowAges
      <3>3. window \in [count : 0..RateLimit, age : WindowAges]
        BY DEF TypeOK
      <3>4. window' = [window EXCEPT !.age = Older(window.age, RateWindow + 1)]
        BY <1>6 DEF Tick
      <3> HIDE AlertingAssumption
      <3> QED BY <3>2, <3>3, <3>4
    <2>3. sent' \in [1..Remembered -> WindowAges]
      <3>1. RateWindow + 1 \in Nat
        BY SMT
      <3>2. ASSUME NEW i \in 1..Remembered PROVE Older(sent[i], RateWindow + 1) \in WindowAges
        BY <3>1, OlderType DEF TypeOK, WindowAges
      <3>3. sent' = [i \in 1..Remembered |-> Older(sent[i], RateWindow + 1)]
        BY <1>6 DEF Tick
      <3> HIDE AlertingAssumption
      <3> QED BY <3>2, <3>3
    <2> QED BY <1>6, <2>1, <2>2, <2>3, SMT DEF TypeOK, Tick
  <1>7. CASE UNCHANGED vars
    BY <1>7, SMT DEF TypeOK, vars
  <1> QED BY <1>1, <1>3, <1>4, <1>5, <1>6, <1>7 DEF Next

\* The counter of the rate window never passes the limit and the channel never holds
\* more than its size, for every limit and size.
THEOREM AlertTypeCorrect == Spec => []TypeOK
  BY AlertTypeInit, AlertTypeStep, PTL DEF Spec

\* The alerts counted in the current window are the last ones; the one before them
\* is as old as the window at least, and the RateLimit before that one fill the
\* window before.
WindowKnows ==
    /\ \A i, j \in 1..Remembered : i <= j => sent[i] <= sent[j]
    /\ sent[window.count + 1] >= window.age
    /\ sent[window.count + RateLimit + 1] > RateWindow

\* What the proofs use of the sizes and the ages
LEMMA SentFacts ==
    ASSUME TypeOK
    PROVE  /\ Remembered \in Nat /\ RateWindow \in Nat /\ RateLimit \in Nat
           /\ Remembered = 2 * RateLimit + 1
           /\ window.count \in 0..RateLimit /\ window.age \in 0..(RateWindow + 1)
           /\ \A i \in 1..Remembered : sent[i] \in 0..(RateWindow + 1)
  BY AlertingAssumption, SMT DEF TypeOK, WindowAges, Remembered

\* A window that is over is begun anew with a count of zero.
LEMMA WindowRestarts ==
    ASSUME TypeOK, WindowKnows
    PROVE  /\ Refreshed.count \in 0..RateLimit /\ Refreshed.age \in 0..(RateWindow + 1)
           /\ sent[Refreshed.count + 1] >= Refreshed.age
           /\ sent[Refreshed.count + RateLimit + 1] > RateWindow
  <1>1. CASE window.age > RateWindow
    <2>1. Refreshed.count = 0 /\ Refreshed.age = 0
      BY <1>1 DEF Refreshed
    <2>2. /\ window.count + 1 \in 1..Remembered /\ RateLimit + 1 \in 1..Remembered
          /\ window.count + 1 <= RateLimit + 1 /\ 1 \in 1..Remembered
      BY SentFacts, SMT
    <2>3. sent[RateLimit + 1] >= sent[window.count + 1]
      BY <2>2, SentFacts, SMT DEF WindowKnows
    <2>4. sent[RateLimit + 1] > RateWindow /\ sent[1] >= 0
      BY <1>1, <2>2, <2>3, SentFacts, SMT DEF WindowKnows
    <2> QED BY <2>1, <2>4, SentFacts, SMT
  <1>2. CASE ~(window.age > RateWindow)
    BY <1>2, SentFacts DEF Refreshed, WindowKnows
  <1> QED BY <1>1, <1>2

LEMMA WindowDispatch ==
    ASSUME TypeOK, WindowKnows, NEW e \in Event, Dispatch(e), ~(Refreshed.count >= RateLimit)
    PROVE  WindowKnows'
  <1> DEFINE n == Refreshed.count
  <1>1. /\ window'.count = n + 1 /\ window'.age = Refreshed.age
        /\ sent' = [i \in 1..Remembered |-> IF i = 1 THEN 0 ELSE sent[i - 1]]
    <2>1. Refreshed \in [count : 0..RateLimit, age : WindowAges]
      BY RefreshedType DEF TypeOK
    <2> HIDE DEF n
    <2>2. window' = [Refreshed EXCEPT !.count = Refreshed.count + 1] /\ sent' = Pushed
      BY DEF Dispatch
    <2>3. window'.count = Refreshed.count + 1 /\ window'.age = Refreshed.age
      BY <2>1, <2>2
    <2> QED BY <2>2, <2>3 DEF Pushed, n
  <1>2. /\ n \in 0..RateLimit /\ n < RateLimit
        /\ sent[n + 1] >= Refreshed.age /\ sent[n + RateLimit + 1] > RateWindow
    BY WindowRestarts, SentFacts, SMT
  <1> HIDE DEF n
  <1>3. ASSUME NEW i \in 1..Remembered, NEW j \in 1..Remembered, i <= j
        PROVE  sent'[i] <= sent'[j]
    <2>1. CASE i = 1
      <3>1. j # 1 => j - 1 \in 1..Remembered
        BY SentFacts, SMT
      <3> QED BY <1>1, <2>1, <3>1, SentFacts, SMT
    <2>2. CASE i # 1
      <3>1. i - 1 \in 1..Remembered /\ j - 1 \in 1..Remembered /\ i - 1 <= j - 1 /\ j # 1
        BY <1>3, <2>2, SentFacts, SMT
      <3> QED BY <1>1, <2>2, <3>1 DEF WindowKnows
    <2> QED BY <2>1, <2>2
  <1>4. sent'[(n + 1) + 1] = sent[n + 1]
    <2>1. (n + 1) + 1 \in 1..Remembered /\ (n + 1) + 1 # 1 /\ ((n + 1) + 1) - 1 = n + 1
      BY <1>2, SentFacts, SMT
    <2> QED BY <1>1, <2>1
  <1>5. sent'[(n + 1) + RateLimit + 1] = sent[n + RateLimit + 1]
    <2>1. /\ (n + 1) + RateLimit + 1 \in 1..Remembered /\ (n + 1) + RateLimit + 1 # 1
          /\ ((n + 1) + RateLimit + 1) - 1 = n + RateLimit + 1
      BY <1>2, SentFacts, SMT
    <2> QED BY <1>1, <2>1
  <1>6. Remembered' = Remembered
    BY DEF Remembered
  <1> QED BY <1>1, <1>2, <1>3, <1>4, <1>5, <1>6 DEF WindowKnows

LEMMA WindowTick == ASSUME TypeOK, WindowKnows, Tick PROVE WindowKnows'
  <1> DEFINE top == RateWindow + 1
  <1>1. /\ sent' = [i \in 1..Remembered |-> Older(sent[i], top)]
        /\ window'.count = window.count /\ window'.age = Older(window.age, top)
    <2>1. window \in [count : 0..RateLimit, age : WindowAges]
      BY DEF TypeOK
    <2> QED BY <2>1 DEF Tick
  <1>2. /\ window.count + 1 \in 1..Remembered /\ window.count + RateLimit + 1 \in 1..Remembered
        /\ top \in Nat
    BY SentFacts, SMT
  <1> HIDE DEF top
  <1>3. ASSUME NEW i \in 1..Remembered, NEW j \in 1..Remembered, i <= j
        PROVE  sent'[i] <= sent'[j]
    BY <1>1, <1>2, <1>3, SentFacts, OlderMonotone DEF WindowKnows, top
  <1>4. sent'[window.count + 1] >= window'.age
    <2>1. /\ sent[window.count + 1] \in 0..top /\ window.age \in 0..top
          /\ window.age <= sent[window.count + 1]
      BY <1>2, SentFacts DEF WindowKnows, top
    <2>2. Older(window.age, top) <= Older(sent[window.count + 1], top)
      BY <1>2, <2>1, OlderMonotone
    <2>3. Older(window.age, top) \in 0..top /\ Older(sent[window.count + 1], top) \in 0..top
      BY <1>2, <2>1, OlderType
    <2> QED BY <1>1, <1>2, <2>2, <2>3
  <1>5. sent'[window.count + RateLimit + 1] > RateWindow
    <2>1. sent[window.count + RateLimit + 1] = top
      BY <1>2, SentFacts, SMT DEF WindowKnows, top
    <2>2. Older(top, top) = top
      BY <1>2, SMT DEF Older
    <2> QED BY <1>1, <1>2, <2>1, <2>2, SentFacts, SMT DEF top
  <1>6. Remembered' = Remembered
    BY DEF Remembered
  <1> QED BY <1>1, <1>3, <1>4, <1>5, <1>6 DEF WindowKnows

LEMMA WindowStep == TypeOK /\ WindowKnows /\ [Next]_vars => WindowKnows'
  <1> SUFFICES ASSUME TypeOK, WindowKnows, [Next]_vars PROVE WindowKnows'
    OBVIOUS
  <1>1. ASSUME UNCHANGED <<window, sent>> PROVE WindowKnows'
    BY <1>1 DEF WindowKnows, Remembered
  <1>2. ASSUME NEW e \in Event, ProcessEvent(e) PROVE WindowKnows'
    <2>1. CASE Ignore(e)
      BY <1>1, <2>1 DEF Ignore
    <2>2. CASE Throttle(e)
      <3>1. window' = Refreshed /\ sent' = sent
        BY <2>2 DEF Throttle
      <3> QED BY <3>1, WindowRestarts DEF WindowKnows, Remembered
    <2>3. CASE Dispatch(e) /\ ~(Refreshed.count >= RateLimit)
      BY <2>3, WindowDispatch
    <2> QED BY <1>2, <2>1, <2>2, <2>3 DEF ProcessEvent
  <1>3. CASE Take
    <2>1. queue # <<>> /\ ProcessEvent(Head(queue))
      BY <1>3 DEF Take
    <2>2. Head(queue) \in Event
      BY <2>1, SMT DEF TypeOK
    <2> QED BY <1>2, <2>1, <2>2
  <1>4. CASE Tick
    BY <1>4, WindowTick
  <1>5. CASE (\E e \in Event : Emit(e)) \/ DispatchEnd \/ CleanupDedupCache \/ UNCHANGED vars
    BY <1>1, <1>5 DEF Emit, DispatchEnd, CleanupDedupCache, vars
  <1> QED BY <1>3, <1>4, <1>5 DEF Next

LEMMA WindowInit == Init => WindowKnows
  <1> SUFFICES ASSUME Init PROVE WindowKnows
    OBVIOUS
  <1>1. \A i \in 1..Remembered : sent[i] = RateWindow + 1
    BY DEF Init
  <1>2. 0 + 1 \in 1..Remembered /\ 0 + RateLimit + 1 \in 1..Remembered
    BY AlertingAssumption, SMT DEF Remembered
  <1>3. window.count = 0 /\ window.age = 0
    BY DEF Init
  <1> QED BY <1>1, <1>2, <1>3, AlertingAssumption, SMT DEF WindowKnows

\* A BURST OF ALERTS IS AT MOST TWICE THE LIMIT, for every limit, every length of the
\* window and every stream of events.
THEOREM AlertRateIsBounded == Spec => []RateBounded
  <1>1. ASSUME TypeOK, WindowKnows PROVE RateBounded
    <2>1. /\ window.count + RateLimit + 1 \in 1..Remembered /\ Remembered \in 1..Remembered
          /\ window.count + RateLimit + 1 <= Remembered
      BY <1>1, SentFacts, SMT
    <2>2. sent[window.count + RateLimit + 1] <= sent[Remembered]
      BY <1>1, <2>1 DEF WindowKnows
    <2> QED BY <1>1, <2>1, <2>2, SentFacts, SMT DEF WindowKnows, RateBounded
  <1> QED BY <1>1, AlertTypeInit, AlertTypeStep, WindowInit, WindowStep, PTL DEF Spec

\* The cache knows of every alert: its entry is no older than the last alert.
CacheIsYounger == \A k \in Keys : dedup[k] <= last[k]

LEMMA CacheInit == Init => CacheIsYounger
  <1>1. Init => \A k \in Keys : dedup[k] = DedupWindow /\ last[k] = DedupWindow
    BY DEF Init, Old
  <1>2. DedupWindow <= DedupWindow
    BY AlertingAssumption, SMT
  <1> QED BY <1>1, <1>2, Zenon DEF CacheIsYounger

LEMMA CacheStep == TypeOK /\ CacheIsYounger /\ [Next]_vars => CacheIsYounger'
  <1> SUFFICES ASSUME TypeOK, CacheIsYounger, [Next]_vars, NEW k \in Keys
               PROVE  (dedup[k] <= last[k])'
    BY DEF CacheIsYounger
  <1> USE AlertingAssumption
  <1>0. dedup \in [Keys -> 0..DedupWindow] /\ last \in [Keys -> 0..DedupWindow] /\ dedup[k] <= last[k]
    BY DEF TypeOK, CacheIsYounger
  <1>1. CASE UNCHANGED <<dedup, last>>
    BY <1>0, <1>1
  <1>2. ASSUME NEW e \in Event, Throttle(e) \/ Dispatch(e) PROVE (dedup[k] <= last[k])'
    BY <1>0, <1>2, SMT DEF Throttle, Dispatch, Event
  <1>3. CASE CleanupDedupCache
    BY <1>0, <1>3, SMT DEF CleanupDedupCache, Retained, Old
  <1>4. CASE Tick
    BY <1>0, <1>4, OlderMonotone, SMT DEF Tick
  <1>5. CASE Take
    <2>1. Head(queue) \in Event /\ ProcessEvent(Head(queue))
      BY <1>5, SMT DEF TypeOK, Take
    <2> QED BY <2>1, <1>1, <1>2 DEF ProcessEvent, Ignore
  <1> QED BY <1>1, <1>3, <1>4, <1>5 DEF Next, Emit, DispatchEnd, vars

LEMMA NoDuplicateStep ==
    ASSUME TypeOK, CacheIsYounger, [Next]_vars, NEW k \in Keys, current = Idle, current' = k
    PROVE  last[k] >= DedupWindow
  <1> USE AlertingAssumption
  <1>1. Take
    BY DEF Next, Emit, DispatchEnd, CleanupDedupCache, Tick, vars
  <1>2. Head(queue) \in Event /\ ProcessEvent(Head(queue))
    BY <1>1, SMT DEF TypeOK, Take
  <1>3. Dispatch(Head(queue)) /\ ~Duplicate(Head(queue).key)
    BY <1>2 DEF ProcessEvent, Ignore, Throttle
  <1>4. Head(queue).key = k
    BY <1>3 DEF Dispatch
  <1> QED BY <1>3, <1>4, SMT DEF Duplicate, CacheIsYounger, TypeOK

\* Two alerts with the same key are at least DedupWindow apart: the cache, written
\* before the rate limit and swept in between, never forgets an alert too early.
THEOREM AlertsAreApart == Spec => NoDuplicateAlert
  <1>1. TypeOK /\ CacheIsYounger /\ [Next]_vars
        => [\A k \in Keys : current = Idle /\ current' = k => last[k] >= DedupWindow]_vars
    BY NoDuplicateStep
  <1> QED BY <1>1, AlertTypeInit, AlertTypeStep, CacheInit, CacheStep, PTL DEF Spec, NoDuplicateAlert

----------------------------------------------------------------------------
(* EventStore                                                              *)

\* What the browser's counters stand for: its position is not past the bus.
ClientRecord == [on : BOOLEAN, start : Nat, at : Nat, got : Nat, missed : Nat]

Accounted ==
    /\ 1 <= client.start /\ client.start <= client.at /\ client.at <= Len(log) + 1
    /\ client.got + client.missed = client.at - client.start

ClientInv ==
    /\ log \in Seq(Levels) /\ client \in ClientRecord
    /\ client.on => Accounted

LEMMA ClientStep == ClientInv /\ [EventNext]_eventVars => ClientInv'
  <1> SUFFICES ASSUME ClientInv, [EventNext]_eventVars PROVE ClientInv'
    OBVIOUS
  <1>0. log \in Seq(Levels) /\ client \in ClientRecord
    BY DEF ClientInv
  <1>1. CASE UNCHANGED <<log, client>>
    BY <1>1 DEF ClientInv, Accounted
  <1>2. ASSUME NEW level \in Levels, SendToBus(level) PROVE ClientInv'
    <2>1. log' = Append(log, level) /\ client' = client
      BY <1>2 DEF SendToBus
    <2>2. Accounted => Accounted'
      BY <1>0, <2>1, SMT DEF Accounted, ClientRecord
    <2> QED BY <1>0, <2>1, <2>2 DEF ClientInv
  <1>3. CASE Connect
    <2>1. client' = [on |-> TRUE, start |-> Len(log) + 1, at |-> Len(log) + 1, got |-> 0, missed |-> 0]
          /\ log' = log
      BY <1>3 DEF Connect
    <2>2. client' \in ClientRecord
      BY <1>0, <2>1, SMT DEF ClientRecord
    <2>3. Accounted'
      BY <1>0, <2>1, SMT DEF Accounted
    <2> QED BY <1>0, <2>1, <2>2, <2>3 DEF ClientInv
  <1>4. CASE log' = log /\ client' = NoClient
    <2>1. client' \in ClientRecord /\ ~client'.on
      BY <1>4, SMT DEF ClientRecord, NoClient
    <2> QED BY <1>0, <1>4, <2>1 DEF ClientInv
  <1>5. CASE Stream
    <2>0. client.on /\ client.at <= Len(log) /\ log' = log
      BY <1>5 DEF Stream
    <2>a. Accounted
      BY <2>0 DEF ClientInv
    <2>b. client.start \in Nat /\ client.at \in Nat /\ client.got \in Nat /\ client.missed \in Nat
      BY <1>0 DEF ClientRecord
    <2>1. Oldest \in Nat /\ Oldest <= Len(log)
      BY EventAssumption, <1>0, <2>0, <2>a, <2>b, SMT DEF Oldest, Accounted
    <2>2. CASE client.at < Oldest
      <3> DEFINE m == client.missed + (Oldest - client.at)
      <3>1. m \in Nat /\ client.got + m = Oldest - client.start /\ client.start <= Oldest
        <4>1. client.start <= client.at /\ client.got + client.missed = client.at - client.start
          BY <2>a DEF Accounted
        <4>2. client.missed + (Oldest - client.at) \in Nat
          BY <2>1, <2>b, <2>2
        <4>3. client.got + (client.missed + (Oldest - client.at)) = Oldest - client.start
          <5>1. \A o \in Nat : client.got + (client.missed + (o - client.at)) = o - client.start
            BY <2>b, <4>1, SMT
          <5> QED BY <2>1, <5>1, Zenon
        <4>4. client.start <= Oldest
          BY <2>1, <2>b, <2>2, <4>1
        <4> QED BY <4>2, <4>3, <4>4
      <3>2. client' = [client EXCEPT !.at = Oldest, !.missed = m]
        BY <1>5, <2>2 DEF Stream
      <3> HIDE DEF m
      <3>3. client' \in ClientRecord /\ client'.start = client.start /\ client'.at = Oldest
            /\ client'.got = client.got /\ client'.missed = m
        BY <1>0, <2>1, <3>1, <3>2 DEF ClientRecord
      <3> QED BY <1>0, <2>0, <2>1, <2>a, <3>1, <3>3 DEF ClientInv, Accounted
    <2>3. CASE ~(client.at < Oldest)
      <3> DEFINE p == client.at + 1
                 g == client.got + 1
      <3>1. p \in Nat /\ g \in Nat /\ g + client.missed = p - client.start
            /\ client.start <= p /\ p <= Len(log) + 1
        <4>1. client.start <= client.at /\ client.got + client.missed = client.at - client.start
          BY <2>a DEF Accounted
        <4>2. p \in Nat /\ g \in Nat /\ client.start <= p /\ p <= Len(log) + 1
          BY <1>0, <2>0, <2>b, <4>1, SMT
        <4>3. g + client.missed = p - client.start
          BY <2>b, <4>1, SMT
        <4> QED BY <4>2, <4>3
      <3>2. client' = [client EXCEPT !.at = p, !.got = g]
        BY <1>5, <2>3 DEF Stream
      <3> HIDE DEF p, g
      <3>3. client' \in ClientRecord /\ client'.start = client.start /\ client'.at = p
            /\ client'.got = g /\ client'.missed = client.missed
        BY <1>0, <3>1, <3>2 DEF ClientRecord
      <3>4. Accounted'
        BY <2>0, <2>a, <3>1, <3>3 DEF Accounted
      <3> QED BY <1>0, <2>0, <3>3, <3>4 DEF ClientInv
    <2> QED BY <2>2, <2>3
  <1> QED
    BY <1>1, <1>2, <1>3, <1>4, <1>5
    DEF EventNext, eventVars, Receive, FlushTimer, PruneOldEvents, Disconnect, RestartDaemon, Subscribe

\* What a browser has shown and what its lag messages have counted are all the events
\* since it connected, for every size of the bus.
THEOREM StreamAccounts == EventSpec => []ClientAccounts
  <1>1. EventInit => ClientInv
    BY SMT DEF EventInit, ClientInv, ClientRecord, NoClient
  <1>2. ClientInv => ClientAccounts
    BY DEF ClientInv, Accounted, ClientAccounts
  <1> QED BY <1>1, <1>2, ClientStep, PTL DEF EventSpec

----------------------------------------------------------------------------
(* The events table.                                                       *)

\* What insertion does to a table: the kept events are added behind the rows, in
\* order.
LEMMA InsertedEffect ==
    ASSUME NEW t, IsTable(t), Rising(t.rows),
           NEW ev \in Seq(Events), Rising(ev), NEW kept \in SUBSET DOMAIN ev,
           \A m \in Stored(t), n \in Range(ev) : m < n
    PROVE  /\ IsTable(Inserted(t, ev, kept))
           /\ Rising(Inserted(t, ev, kept).rows)
           /\ Stored(Inserted(t, ev, kept)) = Stored(t) \cup {ev[k] : k \in kept}
  <1> DEFINE u == Inserted(t, ev, kept)
             new == {t.last + k : k \in kept}
             rows == [i \in DOMAIN t.rows \cup new |->
                         IF i \in DOMAIN t.rows THEN t.rows[i] ELSE ev[i - t.last]]
  <1>1. u = [last |-> t.last + Len(ev), rows |-> rows] /\ u.last = t.last + Len(ev) /\ u.rows = rows
    BY DEF Inserted
  <1>2. /\ t.last \in Nat /\ Len(ev) \in Nat /\ DOMAIN ev = 1..Len(ev)
        /\ DOMAIN t.rows \subseteq 1..t.last /\ t.rows \in [DOMAIN t.rows -> Events]
    BY DEF IsTable
  <1>3. ASSUME NEW i \in new
        PROVE  /\ i \notin DOMAIN t.rows /\ i \in 1..(t.last + Len(ev)) /\ i > t.last
               /\ i - t.last \in kept /\ i - t.last \in 1..Len(ev) /\ rows[i] = ev[i - t.last]
    <2>1. PICK k \in kept : i = t.last + k
      OBVIOUS
    <2>2. k \in 1..Len(ev)
      BY <1>2
    <2>3. i > t.last /\ i \in 1..(t.last + Len(ev)) /\ i - t.last = k
      BY <1>2, <2>1, <2>2
    <2>4. i \notin DOMAIN t.rows
      BY <1>2, <2>3
    <2> QED BY <2>2, <2>3, <2>4
  <1>4. ASSUME NEW i \in DOMAIN t.rows
        PROVE  rows[i] = t.rows[i] /\ i \in 1..t.last /\ rows[i] \in Events
    BY <1>2
  <1>5. DOMAIN rows = DOMAIN t.rows \cup new
    OBVIOUS
  <1>6. ASSUME NEW i \in new PROVE rows[i] \in Events
    BY <1>2, <1>3
  <1>7. IsTable(u)
    <2>1. DOMAIN rows \subseteq 1..(t.last + Len(ev)) /\ t.last + Len(ev) \in Nat
      BY <1>2, <1>3, <1>4, <1>5
    <2>2. rows \in [DOMAIN rows -> Events]
      BY <1>4, <1>5, <1>6
    <2> HIDE DEF u, rows
    <2> QED BY <1>1, <2>1, <2>2 DEF IsTable
  <1>8. Rising(rows)
    <2> SUFFICES ASSUME NEW i \in DOMAIN rows, NEW j \in DOMAIN rows, i < j PROVE rows[i] < rows[j]
      BY DEF Rising
    <2>1. CASE i \in DOMAIN t.rows /\ j \in DOMAIN t.rows
      BY <1>4, <2>1 DEF Rising
    <2>2. CASE i \in DOMAIN t.rows /\ j \in new
      <3>1. t.rows[i] \in Stored(t) /\ ev[j - t.last] \in Range(ev)
        BY <1>2, <1>3, <2>2 DEF Stored, Range
      <3> QED BY <1>3, <1>4, <2>2, <3>1
    <2>3. CASE i \in new /\ j \in DOMAIN t.rows
      BY <1>2, <1>3, <1>4, <2>3
    <2>4. CASE i \in new /\ j \in new
      <3>1. i - t.last < j - t.last
        BY <1>2, <1>3, <2>4
      <3> QED BY <1>2, <1>3, <2>4, <3>1 DEF Rising
    <2> QED BY <1>5, <2>1, <2>2, <2>3, <2>4
  <1>9. Range(rows) = Stored(t) \cup {ev[k] : k \in kept}
    <2>1. ASSUME NEW i \in DOMAIN rows PROVE rows[i] \in Stored(t) \cup {ev[k] : k \in kept}
      BY <1>3, <1>4, <1>5 DEF Stored, Range
    <2>2. ASSUME NEW i \in DOMAIN t.rows PROVE t.rows[i] \in Range(rows)
      BY <1>4, <1>5 DEF Range
    <2>3. ASSUME NEW k \in kept PROVE ev[k] \in Range(rows)
      <3>1. t.last + k \in new /\ (t.last + k) - t.last = k
        BY <1>2
      <3>2. rows[t.last + k] = ev[k] /\ t.last + k \in DOMAIN rows
        BY <1>3, <1>5, <3>1
      <3> HIDE DEF rows
      <3> QED BY <3>2 DEF Range
    <2> HIDE DEF rows
    <2>4. Range(rows) \subseteq Stored(t) \cup {ev[k] : k \in kept}
      BY <2>1 DEF Range
    <2>5. Stored(t) \subseteq Range(rows)
      BY <2>2 DEF Stored, Range
    <2> QED BY <2>3, <2>4, <2>5
  <1> HIDE DEF rows, u
  <1>10. Rising(u.rows) /\ Stored(u) = Stored(t) \cup {ev[k] : k \in kept}
    BY <1>1, <1>8, <1>9 DEF Stored
  <1> QED BY <1>7, <1>10 DEF u

\* What pruning does to a table.
LEMMA WithoutEffect ==
    ASSUME NEW t, IsTable(t), Rising(t.rows), NEW old
    PROVE  /\ IsTable(Without(t, old))
           /\ Rising(Without(t, old).rows)
           /\ Stored(Without(t, old)) = Stored(t) \ old
  <1> DEFINE u == Without(t, old)
             ids == {i \in DOMAIN t.rows : t.rows[i] \notin old}
             rows == [i \in ids |-> t.rows[i]]
  <1>1. u = [last |-> t.last, rows |-> rows]
    <2>1. t = [last |-> t.last, rows |-> t.rows]
      BY DEF IsTable
    <2>2. u = [t EXCEPT !.rows = rows]
      BY DEF Without, Restrict
    <2> HIDE DEF u, rows
    <2> QED BY <2>1, <2>2
  <1>2. t.last \in Nat /\ t.rows \in [DOMAIN t.rows -> Events] /\ DOMAIN t.rows \subseteq 1..t.last
    BY DEF IsTable
  <1>3. rows \in [ids -> Events] /\ DOMAIN rows = ids /\ ids \subseteq 1..t.last
    BY <1>2
  <1>4. Rising(rows)
    BY <1>3 DEF Rising
  <1>5. Range(rows) = Stored(t) \ old
    BY DEF Range, Stored
  <1> HIDE DEF u, rows, ids
  <1>6. u.rows = rows /\ u.last = t.last
    BY <1>1
  <1>7. IsTable(u)
    BY <1>1, <1>2, <1>3, <1>6 DEF IsTable
  <1> QED BY <1>4, <1>5, <1>6, <1>7 DEF u, Stored

\* The rows and the batch hold severe events the writer has passed, in order; what is
\* lost it has passed as well.
Behind ==
    /\ \A n \in Stored(conn) \cup Stored(disk) \cup Range(batch) : Severe(n) /\ n < next
    /\ \A n \in lost : n < next

Ordered ==
    /\ Rising(conn.rows) /\ Rising(disk.rows) /\ Rising(batch)
    /\ \A m \in Stored(conn) \cup Stored(disk), n \in Range(batch) : m < n

\* What was lost is nowhere, not even in the rows on disk that a restart brings back.
LostIsGone == (Stored(conn) \cup Stored(disk) \cup Range(batch)) \cap lost = {}

Kept ==
    \A n \in 1..(next - 1) :
        Severe(n) => n \in Stored(conn) \cup Range(batch) \cup lost \cup pruned

\* The inductive invariant
StoreInv ==
    /\ EventTypeOK /\ Behind /\ Ordered /\ LostIsGone /\ Kept
    /\ ~open => conn = disk

\* Whatever the outcome of a transaction, its events are in the table or lost, behind
\* the rows there were; the committed table is as it was, or the new one.
LEMMA BatchEffect ==
    ASSUME StoreInv, NEW ev \in Seq(Events), Rising(ev),
           \A m \in Stored(conn) \cup Stored(disk), n \in Range(ev) : m < n,
           Range(ev) \cap lost = {},
           BatchInsertEvents(ev)
    PROVE  /\ batch' = <<>> /\ open' \in BOOLEAN
           /\ IsTable(conn') /\ IsTable(disk')
           /\ Rising(conn'.rows) /\ Rising(disk'.rows)
           /\ Stored(conn) \subseteq Stored(conn') /\ lost \subseteq lost'
           /\ Stored(conn') \subseteq Stored(conn) \cup Range(ev)
           /\ Stored(conn') \cup Stored(disk') \cup lost'
                  \subseteq Stored(conn) \cup Stored(disk) \cup lost \cup Range(ev)
           /\ lost' \subseteq lost \cup Range(ev)
           /\ Range(ev) \subseteq Stored(conn') \cup lost'
           /\ (Stored(conn') \cup Stored(disk')) \cap lost' = {}
           /\ ~open' => conn' = disk'
  <1>1. /\ IsTable(conn) /\ IsTable(disk) /\ Rising(conn.rows) /\ Rising(disk.rows)
        /\ open \in BOOLEAN /\ (Stored(conn) \cup Stored(disk)) \cap lost = {}
        /\ ~open => conn = disk
    BY DEF StoreInv, EventTypeOK, Ordered, LostIsGone
  <1>0. Events \subseteq Nat
    BY DEF Events, StoreInv, EventTypeOK
  <1>2. ASSUME NEW n \in Stored(conn) \cup Stored(disk) PROVE n \notin Range(ev)
    <2>1. n \in Nat
      BY <1>0, <1>1 DEF IsTable, Stored, Range
    <2> QED BY <2>1
  <1>3. CASE lost' = lost \cup Range(ev) /\ UNCHANGED <<disk, conn, open>>
    BY <1>1, <1>2, <1>3 DEF BatchInsertEvents
  <1>4. ASSUME NEW kept \in SUBSET DOMAIN ev, ~open,
               conn' = Inserted(conn, ev, kept),
               lost' = lost \cup {ev[k] : k \in DOMAIN ev \ kept},
               (disk' = conn' /\ open' = FALSE) \/ (disk' = disk /\ open' = TRUE)
        PROVE  /\ open' \in BOOLEAN
               /\ IsTable(conn') /\ IsTable(disk')
               /\ Rising(conn'.rows) /\ Rising(disk'.rows)
               /\ Stored(conn) \subseteq Stored(conn') /\ lost \subseteq lost'
               /\ Stored(conn') \subseteq Stored(conn) \cup Range(ev)
               /\ Stored(conn') \cup Stored(disk') \cup lost'
                      \subseteq Stored(conn) \cup Stored(disk) \cup lost \cup Range(ev)
               /\ lost' \subseteq lost \cup Range(ev)
               /\ Range(ev) \subseteq Stored(conn') \cup lost'
               /\ (Stored(conn') \cup Stored(disk')) \cap lost' = {}
               /\ ~open' => conn' = disk'
    <2>1. /\ IsTable(conn') /\ Rising(conn'.rows)
          /\ Stored(conn') = Stored(conn) \cup {ev[k] : k \in kept}
      BY <1>1, <1>4, InsertedEffect
    <2>2. {ev[k] : k \in kept} \cup {ev[k] : k \in DOMAIN ev \ kept} = Range(ev)
      BY DEF Range
    <2>3. {ev[k] : k \in kept} \cap {ev[k] : k \in DOMAIN ev \ kept} = {}
      <3>1. ASSUME NEW j \in DOMAIN ev, NEW k \in DOMAIN ev, ev[j] = ev[k] PROVE j = k
        <4>1. Len(ev) \in Nat /\ DOMAIN ev = 1..Len(ev) /\ ev[j] \in Events /\ ev[k] \in Events
          OBVIOUS
        <4>2. ev[j] \in Nat /\ ev[k] \in Nat
          BY <1>0, <4>1, Zenon
        <4>3. j \in Int /\ k \in Int
          BY <4>1
        <4> QED BY <3>1, <4>2, <4>3 DEF Rising
      <3> QED BY <3>1
    <2> DEFINE A == {ev[k] : k \in kept}
               B == {ev[k] : k \in DOMAIN ev \ kept}
    <2> HIDE DEF A, B
    <2>4. A \subseteq Range(ev) /\ B \subseteq Range(ev) /\ A \cap B = {} /\ Range(ev) = A \cup B
      BY <2>2, <2>3 DEF A, B
    <2>5. Stored(conn') = Stored(conn) \cup A /\ lost' = lost \cup B
      BY <1>4, <2>1 DEF A, B
    <2>6. Stored(disk') = Stored(conn') \/ Stored(disk') = Stored(disk)
      BY <1>4
    <2>7. IsTable(disk') /\ Rising(disk'.rows)
      <3>1. CASE disk' = conn'
        BY <2>1, <3>1
      <3>2. CASE disk' = disk
        BY <1>1, <3>2 DEF IsTable
      <3> QED BY <1>4, <3>1, <3>2
    <2>8. (Stored(conn') \cup Stored(disk')) \cap lost' = {}
      BY <1>1, <1>2, <2>4, <2>5, <2>6
    <2> QED BY <1>4, <2>1, <2>4, <2>5, <2>6, <2>7, <2>8
  <1> QED BY <1>3, <1>4 DEF BatchInsertEvents

\* A full batch is stored, and the position moves on.
LEMMA StoreFlush ==
    ASSUME StoreInv, ClientInv', NEW ev \in Seq(Events), Rising(ev),
           \A m \in Stored(conn) \cup Stored(disk), n \in Range(ev) : m < n,
           Range(ev) \cap lost = {},
           BatchInsertEvents(ev), UNCHANGED <<log, listening, pruned>>,
           next' \in {next, next + 1}, next' <= Len(log) + 1,
           \A n \in Range(ev) : Severe(n) /\ n < next',
           Range(batch) \subseteq Range(ev),
           next' = next + 1 => ~Severe(next) \/ next \in Range(ev)
    PROVE  StoreInv'
  <1>1. /\ batch' = <<>> /\ open' \in BOOLEAN
        /\ IsTable(conn') /\ IsTable(disk')
        /\ Rising(conn'.rows) /\ Rising(disk'.rows)
        /\ Stored(conn) \subseteq Stored(conn') /\ lost \subseteq lost'
        /\ Stored(conn') \cup Stored(disk') \cup lost'
               \subseteq Stored(conn) \cup Stored(disk) \cup lost \cup Range(ev)
        /\ lost' \subseteq lost \cup Range(ev)
        /\ Range(ev) \subseteq Stored(conn') \cup lost'
        /\ (Stored(conn') \cup Stored(disk')) \cap lost' = {}
        /\ ~open' => conn' = disk'
    BY BatchEffect
  <1>2. /\ log' = log /\ pruned' = pruned /\ Events' = Events /\ next \in 1..(Len(log) + 1)
        /\ next' \in 1..(Len(log) + 1) /\ log \in Seq(Levels) /\ Len(log) <= MaxEvents
        /\ lost \subseteq Events /\ pruned \subseteq Events
        /\ next \in Nat /\ next' \in Nat /\ next <= next' /\ listening' \in BOOLEAN
    BY DEF StoreInv, EventTypeOK, Events
  <1>3. Range(batch') = {} /\ Rising(batch') /\ batch' \in Seq(Events) /\ Len(batch') < BatchSize
    BY <1>1, EventAssumption DEF Range, Rising
  <1>4. Range(ev) \subseteq Events
    BY DEF Range
  <1>5. EventTypeOK'
    <2>1. client' \in [on : BOOLEAN, start : Nat, at : Nat, got : Nat, missed : Nat]
      BY DEF ClientInv, ClientRecord
    <2>2. IsTable(conn)' /\ IsTable(disk)'
      BY <1>1, <1>2 DEF IsTable
    <2>3. lost' \subseteq Events
      BY <1>1, <1>2, <1>4
    <2> QED BY <1>1, <1>2, <1>3, <2>1, <2>2, <2>3 DEF EventTypeOK
  <1>6. Behind'
    <2>1. ASSUME NEW n \in Stored(conn) \cup Stored(disk) \cup lost PROVE n < next'
      <3>1. n < next /\ n \in Nat
        BY <1>2 DEF StoreInv, Behind, EventTypeOK, IsTable, Stored, Range, Events
      <3> QED BY <1>2, <3>1
    <2>2. ASSUME NEW n \in Stored(conn') \cup Stored(disk') PROVE Severe(n)
      <3>1. n \notin lost' /\ lost \subseteq lost'
        BY <1>1
      <3>2. n \in Stored(conn) \cup Stored(disk) \cup Range(ev)
        BY <1>1, <3>1
      <3> QED BY <3>2 DEF StoreInv, Behind
    <2>3. ASSUME NEW n \in Stored(conn') \cup Stored(disk') \cup lost' PROVE n < next'
      BY <1>1, <2>1
    <2> QED BY <1>2, <1>3, <2>2, <2>3 DEF Behind, Severe
  <1>7. Ordered'
    BY <1>1, <1>3 DEF Ordered
  <1>8. LostIsGone'
    BY <1>1, <1>3 DEF LostIsGone
  <1>9. Kept'
    <2> SUFFICES ASSUME NEW n \in 1..(next' - 1), Severe(n)
                 PROVE  n \in Stored(conn') \cup lost' \cup pruned
      BY <1>2 DEF Kept, Severe
    <2>1. CASE n \in 1..(next - 1)
      BY <1>1, <2>1 DEF StoreInv, Kept
    <2>2. CASE n \notin 1..(next - 1)
      <3>1. n \in Nat /\ 1 <= n /\ n < next'
        <4>1. \A x \in Nat : \A y \in 1..(x - 1) : y \in Nat /\ 1 <= y /\ y < x
          OBVIOUS
        <4> QED BY <1>2, <4>1, Zenon
      <3>2. ~(n < next)
        BY <1>2, <2>2, <3>1
      <3>3. next' = next + 1 /\ n = next
        BY <1>2, <3>1, <3>2
      <3> QED BY <1>1, <3>3
    <2> QED BY <2>1, <2>2
  <1> QED BY <1>1, <1>5, <1>6, <1>7, <1>8, <1>9 DEF StoreInv

\* What the steps rely on
LEMMA StoreFacts ==
    ASSUME StoreInv
    PROVE  /\ log \in Seq(Levels) /\ Len(log) \in Nat /\ Len(log) <= MaxEvents
           /\ Events = 1..Len(log)
           /\ next \in Nat /\ 1 <= next /\ next <= Len(log) + 1
           /\ batch \in Seq(Events) /\ Len(batch) < BatchSize
           /\ IsTable(conn) /\ IsTable(disk)
           /\ Stored(conn) \subseteq Events /\ Stored(disk) \subseteq Events
           /\ Range(batch) \subseteq Events
           /\ lost \subseteq Events /\ pruned \subseteq Events
  <1>1. batch \in Seq(Events) /\ Range(batch) \subseteq Events
    BY DEF StoreInv, EventTypeOK, Range
  <1>2. IsTable(conn) /\ IsTable(disk) /\ Stored(conn) \subseteq Events /\ Stored(disk) \subseteq Events
    BY DEF StoreInv, EventTypeOK, IsTable, Stored, Range
  <1>3. log \in Seq(Levels) /\ Len(log) \in Nat /\ Len(log) <= MaxEvents /\ next \in 1..(Len(log) + 1)
    BY DEF StoreInv, EventTypeOK
  <1>4. next \in Nat /\ 1 <= next /\ next <= Len(log) + 1
    BY <1>3
  <1> QED BY <1>1, <1>2, <1>3, <1>4 DEF StoreInv, EventTypeOK, Events

\* A lag takes the writer to an event that is on the bus.
LEMMA OldestIsThere == ASSUME StoreInv PROVE Oldest \in Nat /\ Oldest <= Len(log) + 1
  BY StoreFacts, EventAssumption DEF Oldest

\* An event that is appended to the batch is newer than all the batch and the tables
\* hold, and not lost yet.
LEMMA Appended ==
    ASSUME StoreInv, next <= Len(log), Severe(next)
    PROVE  /\ Append(batch, next) \in Seq(Events)
           /\ Rising(Append(batch, next))
           /\ Range(Append(batch, next)) = Range(batch) \cup {next}
           /\ \A m \in Stored(conn) \cup Stored(disk), n \in Range(Append(batch, next)) : m < n
           /\ Range(Append(batch, next)) \cap lost = {}
           /\ \A n \in Range(Append(batch, next)) : Severe(n) /\ n < next + 1
  <1> DEFINE ev == Append(batch, next)
  <1>1. next \in Events
    BY StoreFacts
  <1>2. ev \in Seq(Events)
    BY <1>1, StoreFacts
  <1>3. DOMAIN ev = DOMAIN batch \cup {Len(batch) + 1} /\ Len(batch) \in Nat
        /\ DOMAIN batch = 1..Len(batch)
    BY StoreFacts
  <1>4. /\ \A k \in DOMAIN batch : ev[k] = batch[k] /\ k < Len(batch) + 1
        /\ ev[Len(batch) + 1] = next
    BY StoreFacts
  <1> HIDE DEF ev
  <1>5. Range(ev) = Range(batch) \cup {next}
    BY <1>3, <1>4 DEF Range
  <1>6. \A n \in Stored(conn) \cup Stored(disk) \cup Range(batch) : Severe(n) /\ n < next
    BY DEF StoreInv, Behind
  <1>7. Rising(ev)
    <2> SUFFICES ASSUME NEW i \in DOMAIN ev, NEW j \in DOMAIN ev, i < j PROVE ev[i] < ev[j]
      BY DEF Rising
    <2>1. CASE j \in DOMAIN batch
      <3>1. i \in DOMAIN batch
        BY <1>3, <2>1
      <3> QED BY <1>4, <2>1, <3>1 DEF StoreInv, Ordered, Rising
    <2>2. CASE j = Len(batch) + 1
      <3>1. i \in DOMAIN batch
        BY <1>3, <2>2
      <3>2. batch[i] \in Range(batch)
        BY <3>1 DEF Range
      <3> QED BY <1>4, <1>6, <2>2, <3>1, <3>2
    <2> QED BY <1>3, <2>1, <2>2
  <1>8. \A m \in Stored(conn) \cup Stored(disk), n \in Range(ev) : m < n
    BY <1>5, <1>6 DEF StoreInv, Ordered
  <1>9. Range(ev) \cap lost = {}
    <2>1. next \notin lost
      BY StoreFacts DEF StoreInv, Behind
    <2> QED BY <1>5, <2>1 DEF StoreInv, LostIsGone
  <1>10. \A n \in Range(ev) : Severe(n) /\ n < next + 1
    <2>1. \A n \in Range(batch) : n < next + 1
      BY <1>6, StoreFacts
    <2> QED BY <1>5, <1>6, <2>1, StoreFacts
  <1> QED BY <1>2, <1>5, <1>7, <1>8, <1>9, <1>10 DEF ev

\* A new event changes nothing for the ones before it.
LEMMA StoreSend ==
    ASSUME StoreInv, ClientInv', NEW level \in Levels, SendToBus(level)
    PROVE  StoreInv'
  <1>1. /\ log' = Append(log, level) /\ Len(log) < MaxEvents
        /\ UNCHANGED <<next, batch, disk, conn, open, listening, lost, pruned>>
    BY DEF SendToBus
  <1>2. /\ log' \in Seq(Levels) /\ Len(log') = Len(log) + 1 /\ Len(log') <= MaxEvents
        /\ \A n \in Events : log'[n] = log[n]
    BY <1>1, StoreFacts, EventAssumption
  <1>3. Events' = 1..Len(log') /\ Events \subseteq Events'
    BY <1>2, StoreFacts DEF Events
  <1>4. \A n \in Events : Severe(n)' <=> Severe(n)
    BY <1>2 DEF Severe
  <1>5. EventTypeOK'
    <2>1. next' \in 1..(Len(log') + 1)
      BY <1>1, <1>2, StoreFacts
    <2>2. batch' \in Seq(Events')
      <3>1. \A k \in 1..Len(batch) : batch[k] \in Events'
        BY <1>3, StoreFacts
      <3> QED BY <1>1, <3>1, StoreFacts
    <2>3. IsTable(conn)' /\ IsTable(disk)'
      <3>1. /\ conn.rows \in [DOMAIN conn.rows -> Events']
            /\ disk.rows \in [DOMAIN disk.rows -> Events']
        BY <1>3, StoreFacts DEF IsTable
      <3> QED BY <1>1, <3>1, StoreFacts DEF IsTable
    <2>4. client' \in [on : BOOLEAN, start : Nat, at : Nat, got : Nat, missed : Nat]
      BY DEF ClientInv, ClientRecord
    <2> QED BY <1>1, <1>2, <1>3, <2>1, <2>2, <2>3, <2>4 DEF StoreInv, EventTypeOK
  <1>6. Behind'
    BY <1>1, <1>4, StoreFacts DEF StoreInv, Behind
  <1>7. Ordered' /\ LostIsGone'
    BY <1>1 DEF StoreInv, Ordered, LostIsGone
  <1>8. Kept'
    <2>1. \A n \in 1..(next - 1) : n \in Events
      BY StoreFacts
    <2> QED BY <1>1, <1>4, <2>1 DEF StoreInv, Kept
  <1> QED BY <1>1, <1>5, <1>6, <1>7, <1>8 DEF StoreInv

\* A lag: what the writer has missed is lost.
LEMMA StoreSkip ==
    ASSUME StoreInv, ClientInv', NEW at \in Nat, next <= at, at <= Len(log) + 1, SkipTo(at),
           UNCHANGED <<log, pruned>>, listening' \in BOOLEAN
    PROVE  StoreInv'
  <1>1. /\ next' = at /\ lost' = lost \cup {n \in next..(at - 1) : Severe(n)}
        /\ UNCHANGED <<batch, disk, conn, open, log, pruned>>
    BY DEF SkipTo
  <1>2. at \in Nat /\ at <= Len(log) + 1 /\ next <= at
    OBVIOUS
  <1> DEFINE missed == {n \in next..(at - 1) : Severe(n)}
  <1>3. /\ missed \subseteq Events
        /\ \A n \in missed : n < at /\ ~(n < next)
    BY <1>2, StoreFacts
  <1>4. ASSUME NEW n \in 1..(at - 1), Severe(n) PROVE n \in 1..(next - 1) \/ n \in missed
    BY <1>2, <1>4, StoreFacts
  <1> HIDE DEF missed
  <1>5. lost' = lost \cup missed /\ Events' = Events
    BY <1>1 DEF missed, Events
  <1>6. EventTypeOK'
    <2>1. next' \in 1..(Len(log) + 1)
      BY <1>1, <1>2, StoreFacts
    <2>2. IsTable(conn)' /\ IsTable(disk)'
      BY <1>1, <1>5, StoreFacts DEF IsTable
    <2>3. client' \in [on : BOOLEAN, start : Nat, at : Nat, got : Nat, missed : Nat]
      BY DEF ClientInv, ClientRecord
    <2> QED BY <1>1, <1>3, <1>5, <2>1, <2>2, <2>3 DEF StoreInv, EventTypeOK
  <1>7. Behind'
    <2>1. ASSUME NEW n \in Stored(conn) \cup Stored(disk) \cup Range(batch) \cup lost
          PROVE  n < at
      <3>1. n < next /\ n \in Nat
        BY StoreFacts DEF StoreInv, Behind
      <3> QED BY <1>2, <3>1, StoreFacts
    <2>2. \A n \in lost' : n < at
      BY <1>3, <1>5, <2>1
    <2> QED BY <1>1, <2>1, <2>2 DEF StoreInv, Behind, Severe
  <1>8. Ordered'
    BY <1>1 DEF StoreInv, Ordered
  <1>9. LostIsGone'
    BY <1>1, <1>3, <1>5 DEF StoreInv, Behind, LostIsGone
  <1>10. Kept'
    BY <1>1, <1>4, <1>5 DEF StoreInv, Kept, Severe
  <1> QED BY <1>1, <1>6, <1>7, <1>8, <1>9, <1>10 DEF StoreInv

\* The event is passed over, put into the batch, or stored with it.
LEMMA StoreGather ==
    ASSUME StoreInv, ClientInv', next <= Len(log), Gather, UNCHANGED <<log, listening, pruned>>
    PROVE  StoreInv'
  <1>0. next' = next + 1 /\ next \in Nat /\ Len(log) \in Nat
    BY StoreFacts DEF Gather
  <1>1. ASSUME UNCHANGED <<disk, conn, open, lost>>,
               batch' = batch \/ (Severe(next) /\ batch' = Append(batch, next)),
               Len(batch') < BatchSize, ~Severe(next) \/ next \in Range(batch')
        PROVE  StoreInv'
    <2>1. /\ batch' \in Seq(Events) /\ Rising(batch') /\ Range(batch) \subseteq Range(batch')
          /\ \A m \in Stored(conn) \cup Stored(disk), n \in Range(batch') : m < n
          /\ Range(batch') \cap lost = {}
          /\ \A n \in Range(batch') : Severe(n) /\ n < next + 1
      <3>1. CASE batch' = batch
        <4>1. \A n \in Range(batch) : Severe(n) /\ n < next /\ n \in Nat
          BY StoreFacts DEF StoreInv, Behind
        <4>2. \A n \in Range(batch) : n < next + 1
          BY <1>0, <4>1
        <4> QED BY <3>1, <4>1, <4>2, StoreFacts DEF StoreInv, Ordered, LostIsGone
      <3>2. CASE Severe(next) /\ batch' = Append(batch, next)
        BY <3>2, Appended
      <3> QED BY <1>1, <3>1, <3>2
    <2>2. Events' = Events /\ log' = log
      BY DEF Events
    <2>3. EventTypeOK'
      <3>1. next' \in 1..(Len(log) + 1)
        BY <1>0, StoreFacts
      <3>2. IsTable(conn)' /\ IsTable(disk)'
        BY <1>1, <2>2, StoreFacts DEF IsTable
      <3>3. client' \in [on : BOOLEAN, start : Nat, at : Nat, got : Nat, missed : Nat]
        BY DEF ClientInv, ClientRecord
      <3> QED BY <1>1, <2>1, <2>2, <3>1, <3>2, <3>3 DEF StoreInv, EventTypeOK
    <2>4. Behind'
      <3>1. ASSUME NEW n \in Stored(conn) \cup Stored(disk) \cup lost PROVE n < next + 1
        <4>1. n < next /\ n \in Nat
          BY StoreFacts DEF StoreInv, Behind
        <4> QED BY <1>0, <4>1
      <3> QED BY <1>0, <1>1, <2>1, <2>2, <3>1 DEF StoreInv, Behind, Severe
    <2>5. Ordered' /\ LostIsGone'
      BY <1>1, <2>1 DEF StoreInv, Ordered, LostIsGone
    <2>6. Kept'
      <3> SUFFICES ASSUME NEW n \in 1..next, Severe(n)
                   PROVE  n \in Stored(conn) \cup Range(batch') \cup lost \cup pruned
        BY <1>0, <1>1, <2>2 DEF Kept, Severe
      <3>1. CASE n = next
        BY <1>1, <3>1
      <3>2. CASE n # next
        <4>1. n \in 1..(next - 1)
          BY <1>0, <3>2
        <4> QED BY <2>1, <4>1 DEF StoreInv, Kept
      <3> QED BY <3>1, <3>2
    <2> QED BY <1>1, <2>3, <2>4, <2>5, <2>6 DEF StoreInv
  <1>2. CASE ~Severe(next) /\ UNCHANGED <<batch, disk, conn, open, lost>>
    BY <1>1, <1>2, StoreFacts
  <1>3. CASE /\ Severe(next) /\ Len(batch) + 1 < BatchSize
             /\ batch' = Append(batch, next) /\ UNCHANGED <<disk, conn, open, lost>>
    <2>1. Len(batch') < BatchSize
      BY <1>3, StoreFacts
    <2>2. next \in Range(batch')
      BY <1>3, Appended
    <2> QED BY <1>1, <1>3, <2>1, <2>2
  <1>4. CASE Severe(next) /\ BatchInsertEvents(Append(batch, next))
    <2> DEFINE ev == Append(batch, next)
    <2>1. /\ ev \in Seq(Events) /\ Rising(ev) /\ Range(ev) = Range(batch) \cup {next}
          /\ \A m \in Stored(conn) \cup Stored(disk), n \in Range(ev) : m < n
          /\ Range(ev) \cap lost = {}
          /\ \A n \in Range(ev) : Severe(n) /\ n < next + 1
      BY <1>4, Appended
    <2>2. BatchInsertEvents(ev)
      BY <1>4
    <2> HIDE DEF ev
    <2>3. next' \in {next, next + 1} /\ next' <= Len(log) + 1
      BY <1>0
    <2> QED BY <1>0, <2>1, <2>2, <2>3, StoreFlush
  <1> QED BY <1>2, <1>3, <1>4 DEF Gather

LEMMA StoreTimer == ASSUME StoreInv, ClientInv', FlushTimer PROVE StoreInv'
  <1>1. BatchInsertEvents(batch) /\ UNCHANGED <<log, next, listening, pruned>>
    BY DEF FlushTimer
  <1>2. /\ batch \in Seq(Events) /\ Rising(batch)
        /\ \A m \in Stored(conn) \cup Stored(disk), n \in Range(batch) : m < n
        /\ Range(batch) \cap lost = {}
        /\ \A n \in Range(batch) : Severe(n) /\ n < next
    BY StoreFacts DEF StoreInv, Ordered, LostIsGone, Behind
  <1>3. next' \in {next, next + 1} /\ next' <= Len(log) + 1 /\ next' # next + 1
    BY <1>1, StoreFacts
  <1> QED BY <1>1, <1>2, <1>3, StoreFlush

\* Pruning takes rows away, on disk as well unless a transaction is open.
LEMMA StorePrune ==
    ASSUME StoreInv, ClientInv', NEW old \in SUBSET Stored(conn), PruneOldEvents(old)
    PROVE  StoreInv'
  <1>1. /\ conn' = Without(conn, old) /\ disk' = (IF open THEN disk ELSE conn')
        /\ pruned' = pruned \cup old
        /\ UNCHANGED <<log, next, batch, open, listening, lost>>
    BY DEF PruneOldEvents
  <1>2. IsTable(conn') /\ Rising(conn'.rows) /\ Stored(conn') = Stored(conn) \ old
    BY <1>1, StoreFacts, WithoutEffect DEF StoreInv, Ordered
  <1>3. /\ IsTable(disk') /\ Rising(disk'.rows)
        /\ Stored(disk') \subseteq Stored(conn) \cup Stored(disk)
    <2>1. CASE open
      BY <1>1, <2>1, StoreFacts DEF StoreInv, Ordered, IsTable
    <2>2. CASE ~open
      BY <1>1, <1>2, <2>2
    <2> QED BY <2>1, <2>2
  <1>4. Events' = Events /\ log' = log
    BY <1>1 DEF Events
  <1>5. EventTypeOK'
    <2>1. IsTable(conn)' /\ IsTable(disk)'
      BY <1>2, <1>3, <1>4 DEF IsTable
    <2>2. client' \in [on : BOOLEAN, start : Nat, at : Nat, got : Nat, missed : Nat]
      BY DEF ClientInv, ClientRecord
    <2>3. pruned' \subseteq Events
      BY <1>1, StoreFacts
    <2> QED BY <1>1, <1>4, <2>1, <2>2, <2>3 DEF StoreInv, EventTypeOK
  <1>6. Behind' /\ Ordered' /\ LostIsGone'
    BY <1>1, <1>2, <1>3 DEF StoreInv, Behind, Ordered, LostIsGone, Severe
  <1>7. Kept'
    BY <1>1, <1>2 DEF StoreInv, Kept, Severe
  <1>8. ~open' => conn' = disk'
    BY <1>1
  <1> QED BY <1>5, <1>6, <1>7, <1>8 DEF StoreInv

\* A restart brings back what is on disk and loses the rest.
LEMMA StoreRestart == ASSUME StoreInv, ClientInv', RestartDaemon PROVE StoreInv'
  <1> DEFINE unread == {n \in next..Len(log) : Severe(n)}
  <1>1. /\ next' = Len(log) + 1 /\ batch' = <<>> /\ conn' = disk /\ open' = FALSE
        /\ lost' = lost \cup Range(batch) \cup (Stored(conn) \ Stored(disk)) \cup unread
        /\ listening' \in BOOLEAN /\ UNCHANGED <<log, disk, pruned>>
    BY DEF RestartDaemon
  <1>2. /\ unread \subseteq Events
        /\ \A n \in Events : Severe(n) => n \in 1..(next - 1) \/ n \in unread
        /\ \A n \in unread : ~(n < next)
    BY StoreFacts
  <1> HIDE DEF unread
  <1>3. Range(batch') = {} /\ Rising(batch') /\ batch' \in Seq(Events) /\ Len(batch') < BatchSize
    BY <1>1, EventAssumption DEF Range, Rising
  <1>4. Events' = Events /\ Events = 1..Len(log)
    BY <1>1, StoreFacts DEF Events
  <1>5. lost' \subseteq Events
    BY <1>1, <1>2, StoreFacts
  <1>6. EventTypeOK'
    <2>1. next' \in 1..(Len(log) + 1)
      BY <1>1, StoreFacts
    <2>2. IsTable(conn)' /\ IsTable(disk)'
      BY <1>1, <1>4, StoreFacts DEF IsTable
    <2>3. client' \in [on : BOOLEAN, start : Nat, at : Nat, got : Nat, missed : Nat]
      BY DEF ClientInv, ClientRecord
    <2> QED BY <1>1, <1>3, <1>4, <1>5, <2>1, <2>2, <2>3 DEF StoreInv, EventTypeOK
  <1>7. Behind'
    <2>1. \A n \in Events : n < Len(log) + 1
      BY <1>4, StoreFacts
    <2> QED BY <1>1, <1>3, <1>5, <2>1, StoreFacts DEF StoreInv, Behind, Severe
  <1>8. Ordered'
    BY <1>1, <1>3 DEF StoreInv, Ordered
  <1>9. LostIsGone'
    <2>1. ASSUME NEW n \in Stored(disk) PROVE n \notin lost'
      <3>1. n \notin lost /\ n < next
        BY DEF StoreInv, LostIsGone, Behind
      <3>2. n \notin Range(batch)
        <4>1. n \in Nat
          BY StoreFacts
        <4> QED BY <4>1 DEF StoreInv, Ordered
      <3> QED BY <1>1, <1>2, <3>1, <3>2
    <2> QED BY <1>1, <1>3, <2>1 DEF LostIsGone
  <1>10. Kept'
    <2> SUFFICES ASSUME NEW n \in Events, Severe(n)
                 PROVE  n \in Stored(disk) \cup lost' \cup pruned
      BY <1>1, <1>4, StoreFacts DEF Kept, Severe
    <2> QED BY <1>1, <1>2 DEF StoreInv, Kept
  <1> QED BY <1>1, <1>6, <1>7, <1>8, <1>9, <1>10 DEF StoreInv

\* Everything the browser does, and stuttering
LEMMA StoreUntouched ==
    ASSUME StoreInv, ClientInv', UNCHANGED <<log, next, batch, disk, conn, open, lost, pruned>>, listening' \in BOOLEAN
    PROVE  StoreInv'
  <1>1. Events' = Events
    BY DEF Events
  <1>2. IsTable(conn)' /\ IsTable(disk)'
    BY <1>1, StoreFacts DEF IsTable
  <1>3. client' \in [on : BOOLEAN, start : Nat, at : Nat, got : Nat, missed : Nat]
    BY DEF ClientInv, ClientRecord
  <1>4. EventTypeOK'
    BY <1>1, <1>2, <1>3 DEF StoreInv, EventTypeOK
  <1> QED BY <1>4 DEF StoreInv, Behind, Ordered, LostIsGone, Kept, Severe

LEMMA StoreStep == StoreInv /\ ClientInv' /\ [EventNext]_eventVars => StoreInv'
  <1> SUFFICES ASSUME StoreInv, ClientInv', [EventNext]_eventVars PROVE StoreInv'
    OBVIOUS
  <1>1. CASE \E level \in Levels : SendToBus(level)
    BY <1>1, StoreSend
  <1>2. CASE Receive
    <2>1. CASE next < Oldest
      <3>1. SkipTo(Oldest) /\ UNCHANGED <<log, listening, pruned>> /\ listening \in BOOLEAN
        BY <1>2, <2>1 DEF Receive, Skip, StoreInv, EventTypeOK
      <3> QED BY <2>1, <3>1, OldestIsThere, StoreFacts, StoreSkip
    <2> QED BY <1>2, <2>1, StoreGather DEF Receive
  <1>3. CASE FlushTimer
    BY <1>3, StoreTimer
  <1>4. CASE \E old \in SUBSET Stored(conn) : PruneOldEvents(old)
    BY <1>4, StorePrune
  <1>5. CASE Connect \/ Disconnect \/ Stream \/ UNCHANGED eventVars
    BY <1>5, StoreUntouched DEF Connect, Disconnect, Stream, eventVars, StoreInv, EventTypeOK
  <1>6. CASE RestartDaemon
    BY <1>6, StoreRestart
  <1>7. CASE Subscribe
    <2>1. Len(log) + 1 \in Nat /\ next <= Len(log) + 1
      BY StoreFacts
    <2> QED BY <1>7, <2>1, StoreSkip DEF Subscribe
  <1> QED BY <1>1, <1>2, <1>3, <1>4, <1>5, <1>6, <1>7 DEF EventNext

LEMMA StoreInit == EventInit => StoreInv /\ ClientInv
  <1> SUFFICES ASSUME EventInit PROVE StoreInv /\ ClientInv
    OBVIOUS
  <1>1. ClientInv
    BY SMT DEF EventInit, ClientInv, ClientRecord, NoClient
  <1>2. /\ log = <<>> /\ next = 1 /\ batch = <<>> /\ disk = EmptyTable /\ conn = EmptyTable
        /\ open = FALSE /\ listening = FALSE /\ lost = {} /\ pruned = {} /\ Len(log) = 0
    BY DEF EventInit
  <1>3. /\ EmptyTable = [last |-> EmptyTable.last, rows |-> EmptyTable.rows]
        /\ EmptyTable.last = 0 /\ EmptyTable.rows = <<>> /\ DOMAIN EmptyTable.rows = {}
    BY DEF EmptyTable
  <1>4. IsTable(EmptyTable) /\ Rising(EmptyTable.rows) /\ Stored(EmptyTable) = {}
    <2>1. EmptyTable.rows \in [DOMAIN EmptyTable.rows -> Events]
      BY <1>3
    <2> QED BY <1>3, <2>1 DEF IsTable, Rising, Stored, Range
  <1>5. batch \in Seq(Events) /\ Range(batch) = {} /\ Rising(batch) /\ Len(batch) < BatchSize
    BY <1>2, EventAssumption DEF Range, Rising
  <1>6. EventTypeOK
    <2>1. log \in Seq(Levels) /\ Len(log) <= MaxEvents /\ next \in 1..(Len(log) + 1)
      BY <1>2, EventAssumption
    <2>2. client \in [on : BOOLEAN, start : Nat, at : Nat, got : Nat, missed : Nat]
      BY <1>1 DEF ClientInv, ClientRecord
    <2> QED BY <1>2, <1>4, <1>5, <2>1, <2>2 DEF EventTypeOK
  <1>7. Behind /\ Ordered /\ LostIsGone /\ Kept
    BY <1>2, <1>4, <1>5 DEF Behind, Ordered, LostIsGone, Kept
  <1> QED BY <1>1, <1>2, <1>6, <1>7 DEF StoreInv

LEMMA StoreHolds == EventSpec => []StoreInv
  BY StoreInit, StoreStep, ClientStep, PTL DEF EventSpec

\* Positions, batches and tables keep their types: the batch never reaches its size,
\* and no row has an id that was not given.
THEOREM EventTypeCorrect == EventSpec => []EventTypeOK
  <1>1. StoreInv => EventTypeOK
    BY DEF StoreInv
  <1> QED BY <1>1, StoreHolds, PTL

\* THE EVENT LIST IS IN ORDER, without repetitions, for every bus, every batch, every
\* stream of events and whatever fails.
THEOREM EventListIsInOrder == EventSpec => []RowsInOrder
  <1>1. StoreInv => RowsInOrder
    BY DEF StoreInv, Ordered, Behind, RowsInOrder
  <1> QED BY <1>1, StoreHolds, PTL

\* NO EVENT VANISHES without being counted as lost or pruned, and none that is lost
\* is in the table.
THEOREM EventsAreAccountedFor == EventSpec => []NothingVanishes
  <1>1. StoreInv => NothingVanishes
    BY DEF StoreInv, Kept, LostIsGone, NothingVanishes
  <1> QED BY <1>1, StoreHolds, PTL
----------------------------------------------------------------------------
(* The store implements EventLedger.                                       *)

\* What was pruned the writer has passed, and it was stored before what waits now.
PrunedIsPassed ==
    \A n \in pruned : n < next /\ \A m \in Range(batch) : n < m

\* Events are pruned from the table, behind which everything else waits.
LEMMA PrunedStep ==
    ASSUME StoreInv, StoreInv', PrunedIsPassed, [EventNext]_eventVars
    PROVE  PrunedIsPassed'
  <1>1. /\ \A n \in pruned : n \in Nat /\ n < next /\ n <= Len(log)
        /\ next \in Nat /\ Len(log) \in Nat
    BY StoreFacts DEF PrunedIsPassed
  <1>2. ASSUME pruned' = pruned, next' >= next, next' \in Nat,
               \A m \in Range(batch') : m \in Range(batch) \/ m = next
        PROVE  PrunedIsPassed'
    BY <1>1, <1>2 DEF PrunedIsPassed
  <1>3. ASSUME NEW ev, BatchInsertEvents(ev) PROVE Range(batch') = {}
    BY <1>3 DEF BatchInsertEvents, Range
  <1>4. CASE Receive
    <2>1. CASE next < Oldest
      <3>1. next' = Oldest /\ Oldest \in Nat /\ batch' = batch
        BY <1>4, <2>1, OldestIsThere DEF Receive, Skip, SkipTo
      <3> QED BY <1>1, <1>2, <1>4, <2>1, <3>1 DEF Receive
    <2>2. CASE ~(next < Oldest)
      <3>1. Gather /\ pruned' = pruned /\ next <= Len(log)
        BY <1>4, <2>2 DEF Receive
      <3>2. next' = next + 1
        BY <3>1 DEF Gather
      <3>3. \/ batch' = batch
            \/ Severe(next) /\ batch' = Append(batch, next)
            \/ BatchInsertEvents(Append(batch, next))
        BY <3>1 DEF Gather
      <3>4. \A m \in Range(batch') : m \in Range(batch) \/ m = next
        <4>1. CASE batch' = batch
          BY <4>1
        <4>2. CASE Severe(next) /\ batch' = Append(batch, next)
          BY <3>1, <4>2, Appended
        <4>3. CASE BatchInsertEvents(Append(batch, next))
          BY <1>3, <4>3
        <4> QED BY <3>3, <4>1, <4>2, <4>3
      <3> QED BY <1>1, <1>2, <3>1, <3>2, <3>4
    <2> QED BY <2>1, <2>2
  <1>5. CASE FlushTimer
    BY <1>1, <1>2, <1>3, <1>5 DEF FlushTimer
  <1>6. ASSUME NEW old \in SUBSET Stored(conn), PruneOldEvents(old) PROVE PrunedIsPassed'
    <2>1. \A n \in Stored(conn) : n < next /\ \A m \in Range(batch) : n < m
      BY DEF StoreInv, Behind, Ordered
    <2> QED BY <1>6, <2>1 DEF PruneOldEvents, PrunedIsPassed
  <1>7. CASE RestartDaemon
    <2>1. next' = Len(log) + 1 /\ Range(batch') = {} /\ pruned' = pruned
      BY <1>7 DEF RestartDaemon, Range
    <2>2. next' >= next /\ next' \in Nat
      BY <1>1, <2>1, StoreFacts
    <2> QED BY <1>2, <2>1, <2>2
  <1>8. CASE \/ \E level \in Levels : SendToBus(level)
             \/ Connect \/ Disconnect \/ Stream \/ UNCHANGED eventVars
    BY <1>1, <1>2, <1>8 DEF SendToBus, Connect, Disconnect, Stream, eventVars
  <1>9. CASE Subscribe
    <2>1. next' = Len(log) + 1 /\ batch' = batch /\ pruned' = pruned
      BY <1>9 DEF Subscribe, SkipTo
    <2>2. next' >= next /\ next' \in Nat
      BY <1>1, <2>1, StoreFacts
    <2> QED BY <1>2, <2>1, <2>2
  <1> QED BY <1>4, <1>5, <1>6, <1>7, <1>8, <1>9 DEF EventNext

\* Of an event on the bus that is severe enough: what each fate means.
LEMMA FateMeans ==
    ASSUME StoreInv
    PROVE  \A n \in 1..MaxEvents :
              /\ EventFate[n] = FateOf(n)
              /\ FateOf(n) = "coming" <=> n \notin Events
              /\ FateOf(n) = "stored" <=> n \in Stored(conn)
              /\ FateOf(n) = "pruned" => n \in pruned
              /\ FateOf(n) = "waiting" <=>
                    n \in Events /\ Severe(n) /\ n \notin lost \cup Stored(conn) \cup pruned
  <1>1. \A n \in Stored(conn) : n \in Events /\ Severe(n) /\ n \notin lost
    BY StoreFacts DEF StoreInv, Behind, LostIsGone
  <1> SUFFICES ASSUME NEW n \in 1..MaxEvents
               PROVE  /\ FateOf(n) = "coming" <=> n \notin Events
                      /\ FateOf(n) = "stored" <=> n \in Stored(conn)
                      /\ FateOf(n) = "pruned" => n \in pruned
                      /\ FateOf(n) = "waiting" <=>
                            n \in Events /\ Severe(n) /\ n \notin lost \cup Stored(conn) \cup pruned
    BY DEF EventFate
  <1>2. FateOf(n) = "coming" <=> n \notin Events
    BY DEF FateOf
  <1>3. FateOf(n) = "stored" <=> n \in Stored(conn)
    BY <1>1 DEF FateOf
  <1>4. FateOf(n) = "pruned" => n \in pruned
    BY DEF FateOf
  <1>5. FateOf(n) = "waiting" <=>
            n \in Events /\ Severe(n) /\ n \notin lost \cup Stored(conn) \cup pruned
    BY DEF FateOf
  <1> QED BY <1>2, <1>3, <1>4, <1>5

\* An event that waits is in the batch, or the writer has not received it yet.
LEMMA WaitingIsAhead ==
    ASSUME StoreInv, NEW n \in Events, Severe(n), n \notin lost \cup Stored(conn) \cup pruned
    PROVE  n \in Range(batch) \/ (n \in Nat /\ next <= n)
  <1>1. n \in Nat /\ 1 <= n /\ next \in Nat
    BY StoreFacts
  <1>2. CASE n < next
    <2>1. n \in 1..(next - 1)
      BY <1>1, <1>2
    <2> QED BY <2>1 DEF StoreInv, Kept
  <1>3. CASE ~(n < next)
    BY <1>1, <1>3
  <1> QED BY <1>2, <1>3

\* A step that leaves bus and table alone leaves the fates alone.
LEMMA FatesStay == UNCHANGED <<log, conn, lost, pruned>> => EventFate' = EventFate
  BY DEF EventFate, FateOf, Events, Severe

\* The event that is sent is the first of those to come.
LEMMA LedgerSend ==
    ASSUME StoreInv, NEW level \in Levels, SendToBus(level)
    PROVE  \E n \in 1..MaxEvents : Ledger!Sent(n)
  <1> DEFINE n == Len(log) + 1
             what == IF level >= Threshold THEN "waiting" ELSE "ignored"
  <1>1. /\ log' = Append(log, level) /\ Len(log) < MaxEvents
        /\ conn' = conn /\ lost' = lost /\ pruned' = pruned
    BY DEF SendToBus
  <1>2. /\ log \in Seq(Levels) /\ Len(log) \in Nat /\ Events = 1..Len(log)
        /\ lost \subseteq Events /\ Stored(conn) \subseteq Events /\ pruned \subseteq Events
    BY StoreFacts
  <1>3. n \in 1..MaxEvents /\ n \notin Events
    BY <1>1, <1>2, EventAssumption
  <1>4. /\ Events' = Events \cup {n} /\ log'[n] = level
        /\ \A m \in Events : log'[m] = log[m]
    BY <1>1, <1>2, EventAssumption DEF Events
  <1>5. \A m \in 1..MaxEvents \ Events : n <= m
    BY <1>2, EventAssumption
  <1> HIDE DEF n
  <1>6. \A m \in Events : Severe(m)' <=> Severe(m)
    BY <1>4 DEF Severe
  <1>7. ASSUME NEW m \in 1..MaxEvents
        PROVE  FateOf(m)' = IF m \in {n} THEN what ELSE EventFate[m]
    <2>1. CASE m = n
      <3>1. Severe(m)' <=> level >= Threshold
        BY <1>4, <2>1 DEF Severe
      <3>2. m \in Events' /\ m \notin lost' /\ m \notin Stored(conn)' /\ m \notin pruned'
        BY <1>1, <1>2, <1>3, <1>4, <2>1
      <3> QED BY <2>1, <3>1, <3>2 DEF FateOf
    <2>2. CASE m # n
      <3>1. FateOf(m)' = FateOf(m)
        BY <1>1, <1>4, <1>6, <2>2 DEF FateOf
      <3> QED BY <2>2, <3>1 DEF EventFate
    <2> QED BY <2>1, <2>2
  <1>8. EventFate' = [m \in 1..MaxEvents |-> IF m \in {n} THEN what ELSE EventFate[m]]
    BY <1>7 DEF EventFate
  <1>9. what \in {"waiting", "ignored"}
    OBVIOUS
  <1> HIDE DEF what
  <1>10. EventFate[n] = "coming" /\ \A m \in 1..MaxEvents : EventFate[m] = "coming" => n <= m
    BY <1>3, <1>5, FateMeans
  <1> QED BY <1>3, <1>8, <1>9, <1>10 DEF Ledger!Sent, Ledger!Met, Ledger!These

\* What a lag, or a late subscription, skips was waiting.
LEMMA LedgerSkip ==
    ASSUME StoreInv, PrunedIsPassed, NEW at \in Nat, next <= at, at <= Len(log) + 1, SkipTo(at),
           UNCHANGED <<log, pruned>>
    PROVE  \E events \in SUBSET Ledger!These("waiting") : Ledger!Overtaken(events)
  <1> DEFINE missed == {n \in next..(at - 1) : Severe(n)}
  <1>1. /\ lost' = lost \cup missed /\ conn' = conn /\ log' = log /\ pruned' = pruned
        /\ Events' = Events
    BY DEF SkipTo, Events
  <1>2. /\ next \in Nat /\ 1 <= next /\ Len(log) \in Nat /\ Len(log) <= MaxEvents /\ Events = 1..Len(log)
        /\ at \in Nat /\ at <= Len(log) + 1
    BY StoreFacts, EventAssumption
  <1>3. \A n \in missed : n \in Nat /\ ~(n < next) /\ n \in Events /\ Severe(n) /\ n \in 1..MaxEvents
    BY <1>2, EventAssumption
  <1> HIDE DEF missed
  <1>4. \A n \in missed : n \notin lost \cup Stored(conn) \cup pruned
    BY <1>3 DEF StoreInv, Behind, PrunedIsPassed
  <1>5. missed \in SUBSET Ledger!These("waiting")
    BY <1>3, <1>4, FateMeans DEF Ledger!These
  <1>6. ASSUME NEW n \in 1..MaxEvents
        PROVE  FateOf(n)' = IF n \in missed THEN "lost" ELSE EventFate[n]
    <2>1. Severe(n)' <=> Severe(n)
      BY <1>1 DEF Severe
    <2>2. CASE n \in missed
      BY <1>1, <1>3, <2>1, <2>2 DEF FateOf
    <2>3. CASE n \notin missed
      BY <1>1, <2>1, <2>3 DEF FateOf, EventFate
    <2> QED BY <2>2, <2>3
  <1>7. EventFate' = [n \in 1..MaxEvents |-> IF n \in missed THEN "lost" ELSE EventFate[n]]
    BY <1>6 DEF EventFate
  <1> QED BY <1>5, <1>7 DEF Ledger!Overtaken, Ledger!Met

\* A batch that is stored: its events were waiting, before all others that wait and
\* behind all that is in the table, or was.
LEMMA LedgerWrite ==
    ASSUME StoreInv, PrunedIsPassed, NEW ev \in Seq(Events), Rising(ev),
           \A m \in Stored(conn) \cup Stored(disk), n \in Range(ev) : m < n,
           Range(ev) \cap lost = {},
           BatchInsertEvents(ev), UNCHANGED <<log, pruned>>,
           \A n \in Range(ev) : Severe(n) /\ n \in Range(batch) \cup {next},
           Range(batch) \subseteq Range(ev),
           next \in Range(ev) \/ Range(ev) = Range(batch)
    PROVE  \E events \in SUBSET Ledger!These("waiting") :
              \E kept \in SUBSET events : Ledger!Written(events, kept)
  <1> DEFINE E == Range(ev)
             K == E \cap Stored(conn')
  <1>1. /\ Stored(conn) \subseteq Stored(conn') /\ lost \subseteq lost'
        /\ Stored(conn') \subseteq Stored(conn) \cup E
        /\ lost' \subseteq lost \cup E
        /\ E \subseteq Stored(conn') \cup lost'
        /\ Stored(conn') \cap lost' = {}
        /\ log' = log /\ pruned' = pruned /\ Events' = Events
    BY BatchEffect DEF Events
  <1>2. E \subseteq Events /\ \A n \in E : Severe(n) /\ (n \in Range(batch) \/ n = next)
    BY DEF Range
  <1>3. /\ \A m \in Stored(conn), n \in E : m < n
        /\ E \cap lost = {}
        /\ Range(batch) \subseteq E
        /\ next \in E \/ E = Range(batch)
    OBVIOUS
  <1> HIDE DEF E
  <1>4. /\ next \in Nat /\ Events = 1..Len(log) /\ Len(log) \in Nat /\ Len(log) <= MaxEvents
        /\ Stored(conn) \subseteq Events /\ pruned \subseteq Events /\ MaxEvents \in Nat
        /\ Events \subseteq 1..MaxEvents /\ Events \subseteq Nat
    BY StoreFacts, EventAssumption
  <1>5. \A m \in pruned, n \in E : m < n
    BY <1>2 DEF PrunedIsPassed
  <1>6. \A n \in E : n \notin lost \cup Stored(conn) \cup pruned
    BY <1>2, <1>3, <1>4, <1>5
  <1>7. E \in SUBSET Ledger!These("waiting")
    BY <1>2, <1>4, <1>6, FateMeans DEF Ledger!These
  <1>8. ASSUME NEW m \in E, NEW n \in Ledger!These("waiting") \ E PROVE m < n
    <2>1. n \in Events /\ Severe(n) /\ n \notin lost \cup Stored(conn) \cup pruned
      BY FateMeans DEF Ledger!These
    <2>2. n \notin Range(batch)
      BY <1>3
    <2>3. n \in Nat /\ next <= n
      BY <2>1, <2>2, WaitingIsAhead
    <2>4. CASE m \in Range(batch)
      <3>1. m < next /\ m \in Nat
        BY <1>2, <1>4, <2>4 DEF StoreInv, Behind
      <3> QED BY <1>4, <2>3, <3>1
    <2>5. CASE m = next
      <3>1. n # next
        BY <2>5
      <3> QED BY <1>4, <2>3, <2>5, <3>1
    <2> QED BY <1>2, <2>4, <2>5
  <1>9. ASSUME NEW m \in Ledger!These("stored") \cup Ledger!These("pruned"), NEW n \in E PROVE m < n
    <2>1. m \in Stored(conn) \cup pruned
      BY FateMeans DEF Ledger!These
    <2> QED BY <1>3, <1>5, <2>1
  <1>10. ASSUME NEW n \in 1..MaxEvents
         PROVE  FateOf(n)' = IF n \in K THEN "stored" ELSE IF n \in E THEN "lost" ELSE EventFate[n]
    <2>1. Severe(n)' <=> Severe(n)
      BY <1>1 DEF Severe
    <2>2. CASE n \in K
      BY <1>1, <1>2, <2>1, <2>2 DEF FateOf
    <2>3. CASE n \in E \ K
      BY <1>1, <1>2, <2>1, <2>3 DEF FateOf
    <2>4. CASE n \notin E
      <3>1. n \in lost' <=> n \in lost
        BY <1>1, <2>4
      <3>2. n \in Stored(conn)' <=> n \in Stored(conn)
        BY <1>1, <2>4
      <3> QED BY <1>1, <2>1, <2>4, <3>1, <3>2 DEF FateOf, EventFate
    <2> QED BY <2>2, <2>3, <2>4
  <1>11. K \in SUBSET E
    OBVIOUS
  <1> HIDE DEF K
  <1>12. EventFate' = [n \in 1..MaxEvents |-> IF n \in K THEN "stored"
                                             ELSE IF n \in E THEN "lost" ELSE EventFate[n]]
    BY <1>10 DEF EventFate
  <1>13. Ledger!Written(E, K)
    BY <1>7, <1>8, <1>9, <1>11, <1>12 DEF Ledger!Written
  <1> QED BY <1>7, <1>11, <1>13

\* Receiving an event loses it, stores a batch, or changes no fate.
LEMMA LedgerReceive ==
    ASSUME StoreInv, PrunedIsPassed, Receive
    PROVE  Ledger!LedgerNext \/ EventFate' = EventFate
  <1>1. CASE next < Oldest
    <2>1. SkipTo(Oldest) /\ UNCHANGED <<log, pruned>>
      BY <1>1 DEF Receive, Skip
    <2> QED BY <1>1, <2>1, OldestIsThere, StoreFacts, LedgerSkip DEF Ledger!LedgerNext
  <1>2. CASE ~(next < Oldest)
    <2>1. Gather /\ UNCHANGED <<log, pruned>> /\ next <= Len(log)
      BY <1>2 DEF Receive
    <2>2. CASE Severe(next) /\ BatchInsertEvents(Append(batch, next))
      <3> DEFINE ev == Append(batch, next)
      <3>1. /\ ev \in Seq(Events) /\ Rising(ev) /\ Range(ev) = Range(batch) \cup {next}
            /\ \A m \in Stored(conn) \cup Stored(disk), n \in Range(ev) : m < n
            /\ Range(ev) \cap lost = {}
            /\ \A n \in Range(ev) : Severe(n)
        BY <2>1, <2>2, Appended
      <3>2. BatchInsertEvents(ev)
        BY <2>2
      <3> HIDE DEF ev
      <3>3. \E events \in SUBSET Ledger!These("waiting") :
               \E kept \in SUBSET events : Ledger!Written(events, kept)
        BY <2>1, <3>1, <3>2, LedgerWrite
      <3> QED BY <3>3 DEF Ledger!LedgerNext
    <2>3. CASE UNCHANGED <<conn, lost>>
      BY <2>1, <2>3, FatesStay
    <2> QED BY <2>1, <2>2, <2>3 DEF Gather
  <1> QED BY <1>1, <1>2

\* The timer stores the batch.
LEMMA LedgerTimer ==
    ASSUME StoreInv, PrunedIsPassed, FlushTimer
    PROVE  Ledger!LedgerNext
  <1>1. BatchInsertEvents(batch) /\ UNCHANGED <<log, next, pruned>>
    BY DEF FlushTimer
  <1>2. /\ batch \in Seq(Events) /\ Rising(batch)
        /\ \A m \in Stored(conn) \cup Stored(disk), n \in Range(batch) : m < n
        /\ Range(batch) \cap lost = {}
        /\ \A n \in Range(batch) : Severe(n)
    BY StoreFacts DEF StoreInv, Ordered, LostIsGone, Behind
  <1>3. \E events \in SUBSET Ledger!These("waiting") :
           \E kept \in SUBSET events : Ledger!Written(events, kept)
    BY <1>1, <1>2, LedgerWrite
  <1> QED BY <1>3 DEF Ledger!LedgerNext

\* Pruned events were stored.
LEMMA LedgerPrune ==
    ASSUME StoreInv, NEW old \in SUBSET Stored(conn), PruneOldEvents(old)
    PROVE  \E events \in SUBSET Ledger!These("stored") : Ledger!Aged(events)
  <1>1. /\ conn' = Without(conn, old) /\ pruned' = pruned \cup old
        /\ log' = log /\ lost' = lost /\ Events' = Events
    BY DEF PruneOldEvents, Events
  <1>2. Stored(conn') = Stored(conn) \ old
    BY <1>1, StoreFacts, WithoutEffect DEF StoreInv, Ordered
  <1>3. /\ \A n \in old : n \in Events /\ Severe(n) /\ n \notin lost
        /\ Events \subseteq 1..MaxEvents
    BY StoreFacts, EventAssumption DEF StoreInv, Behind, LostIsGone
  <1>4. old \in SUBSET Ledger!These("stored")
    BY <1>3, FateMeans DEF Ledger!These
  <1>5. ASSUME NEW n \in 1..MaxEvents
        PROVE  FateOf(n)' = IF n \in old THEN "pruned" ELSE EventFate[n]
    <2>1. Severe(n)' <=> Severe(n)
      BY <1>1 DEF Severe
    <2>2. CASE n \in old
      BY <1>1, <1>2, <1>3, <2>1, <2>2 DEF FateOf
    <2>3. CASE n \notin old
      BY <1>1, <1>2, <2>1, <2>3 DEF FateOf, EventFate
    <2> QED BY <2>2, <2>3
  <1>6. EventFate' = [n \in 1..MaxEvents |-> IF n \in old THEN "pruned" ELSE EventFate[n]]
    BY <1>5 DEF EventFate
  <1> QED BY <1>4, <1>6 DEF Ledger!Aged, Ledger!Met

\* A restart: what waits, and what only the connection had, is lost; what only the
\* connection had pruned is stored again.
LEMMA LedgerRestart ==
    ASSUME StoreInv, StoreInv', PrunedIsPassed, RestartDaemon
    PROVE  \E undone \in SUBSET Ledger!These("stored"), back \in SUBSET Ledger!These("pruned") :
              Ledger!Restarted(undone, back)
  <1> DEFINE unread == {n \in next..Len(log) : Severe(n)}
             undone == Stored(conn) \ Stored(disk)
             back == Stored(disk) \cap Ledger!These("pruned")
  <1>1. /\ conn' = disk /\ log' = log /\ pruned' = pruned /\ Events' = Events
        /\ lost' = lost \cup Range(batch) \cup undone \cup unread
    BY DEF RestartDaemon, Events
  <1>2. /\ next \in Nat /\ Len(log) \in Nat /\ Events = 1..Len(log) /\ Events \subseteq 1..MaxEvents
        /\ Stored(conn) \subseteq Events /\ Stored(disk) \subseteq Events
    BY StoreFacts, EventAssumption
  <1>3. /\ \A n \in Events : Severe(n) /\ next <= n => n \in unread
        /\ \A n \in unread : n \in Nat /\ ~(n < next)
    BY <1>2
  <1>4. \A n \in Stored(disk) : n \notin lost' /\ Severe(n) /\ n \in Events
    BY <1>1, <1>2 DEF StoreInv, LostIsGone, Behind
  <1>5. \A n \in Stored(conn) : n \notin lost /\ Severe(n) /\ n \in Events
    BY <1>2 DEF StoreInv, LostIsGone, Behind
  <1>6. undone \in SUBSET Ledger!These("stored")
    BY <1>2, FateMeans DEF Ledger!These
  <1> HIDE DEF unread
  <1>7. ASSUME NEW n \in 1..MaxEvents
        PROVE  FateOf(n)' = IF n \in Ledger!These("waiting") \cup undone THEN "lost"
                            ELSE IF n \in back THEN "stored" ELSE EventFate[n]
    <2>1. Severe(n)' <=> Severe(n)
      BY <1>1 DEF Severe
    <2>2. Stored(conn)' = Stored(disk)
      BY <1>1
    <2>3. CASE n \in Ledger!These("waiting")
      <3>1. n \in Events /\ Severe(n) /\ n \notin lost \cup Stored(conn) \cup pruned
        BY <2>3, FateMeans DEF Ledger!These
      <3>2. n \in lost'
        BY <1>1, <1>3, <3>1, WaitingIsAhead
      <3> QED BY <1>1, <2>1, <2>3, <3>1, <3>2 DEF FateOf
    <2>4. CASE n \in undone
      BY <1>1, <1>5, <2>1, <2>4 DEF FateOf
    <2>5. CASE n \in back
      <3>1. n \in Stored(disk) /\ n \notin Ledger!These("waiting") \cup undone
        BY <2>5 DEF Ledger!These
      <3> QED BY <1>1, <1>4, <2>1, <2>2, <2>5, <3>1 DEF FateOf
    <2>6. CASE n \notin Ledger!These("waiting") \cup undone \cup back
      <3>1. FateOf(n) # "waiting" /\ EventFate[n] = FateOf(n)
        BY <2>6, FateMeans DEF Ledger!These
      <3>2. CASE n \notin Events \/ ~Severe(n)
        BY <1>1, <2>1, <2>6, <3>1, <3>2 DEF FateOf
      <3>3. CASE n \in Events /\ Severe(n) /\ n \in lost
        BY <1>1, <2>1, <2>6, <3>1, <3>3 DEF FateOf
      <3>4. CASE n \in Events /\ Severe(n) /\ n \notin lost /\ n \in Stored(conn)
        <4>1. n \in Stored(disk)
          BY <2>6, <3>4
        <4> QED BY <1>1, <1>4, <2>1, <2>2, <2>6, <3>1, <3>4, <4>1 DEF FateOf
      <3>5. CASE n \in Events /\ Severe(n) /\ n \notin lost /\ n \notin Stored(conn)
        <4>1. FateOf(n) = "pruned" /\ n \in pruned
          BY <3>1, <3>5 DEF FateOf
        <4>2. n \notin Stored(disk)
          BY <2>6, <3>1, <4>1 DEF Ledger!These
        <4>3. n \notin Range(batch) /\ n \notin unread
          <5>1. n \in Nat /\ n < next
            BY <1>2, <3>5, <4>1 DEF PrunedIsPassed
          <5> QED BY <1>3, <4>1, <5>1 DEF PrunedIsPassed
        <4>4. n \notin lost'
          BY <1>1, <3>5, <4>3
        <4>5. FateOf(n)' = "pruned"
          BY <1>1, <2>1, <2>2, <3>5, <4>1, <4>2, <4>4 DEF FateOf
        <4> QED BY <2>6, <3>1, <4>1, <4>5
      <3> QED BY <3>2, <3>3, <3>4, <3>5
    <2> QED BY <2>3, <2>4, <2>5, <2>6
  <1> HIDE DEF undone, back
  <1>8. EventFate' = [n \in 1..MaxEvents |->
                         IF n \in Ledger!These("waiting") \cup undone THEN "lost"
                         ELSE IF n \in back THEN "stored" ELSE EventFate[n]]
    BY <1>7 DEF EventFate
  <1>9. back \in SUBSET Ledger!These("pruned")
    BY DEF back
  <1>10. Ledger!Restarted(undone, back)
    BY <1>6, <1>8, <1>9 DEF Ledger!Restarted
  <1> QED BY <1>6, <1>9, <1>10

\* THE EVENT LIST KEEPS ITS PROMISES: initial states map to initial states, and every
\* step of bus, writer, pruning and restarts to the step of the ledger it stands for, or
\* to none, for every number of events and every way the database fails.
THEOREM StoreImplementsLedger == EventSpec => ImplementsEventLedger
  <1>1. EventInit => PrunedIsPassed /\ Ledger!LedgerInit
    BY DEF EventInit, PrunedIsPassed, Ledger!LedgerInit, EventFate, FateOf, Events
  <1>2. /\ StoreInv /\ StoreInv' /\ PrunedIsPassed /\ [EventNext]_eventVars
        => PrunedIsPassed' /\ [Ledger!LedgerNext]_EventFate
    <2> SUFFICES ASSUME StoreInv, StoreInv', PrunedIsPassed, [EventNext]_eventVars
                 PROVE  PrunedIsPassed' /\ (Ledger!LedgerNext \/ EventFate' = EventFate)
      OBVIOUS
    <2>1. PrunedIsPassed'
      BY PrunedStep
    <2>2. CASE \E level \in Levels : SendToBus(level)
      BY <2>1, <2>2, LedgerSend DEF Ledger!LedgerNext
    <2>3. CASE Receive
      BY <2>1, <2>3, LedgerReceive
    <2>4. CASE FlushTimer
      BY <2>1, <2>4, LedgerTimer
    <2>5. CASE \E old \in SUBSET Stored(conn) : PruneOldEvents(old)
      BY <2>1, <2>5, LedgerPrune DEF Ledger!LedgerNext
    <2>6. CASE RestartDaemon
      BY <2>1, <2>6, LedgerRestart DEF Ledger!LedgerNext
    <2>7. CASE Connect \/ Disconnect \/ Stream \/ UNCHANGED eventVars
      BY <2>1, <2>7, FatesStay DEF Connect, Disconnect, Stream, eventVars
    <2>8. CASE Subscribe
      <3>1. Len(log) + 1 \in Nat /\ next <= Len(log) + 1
        BY StoreFacts
      <3>2. \E events \in SUBSET Ledger!These("waiting") : Ledger!Overtaken(events)
        BY <2>8, <3>1, LedgerSkip DEF Subscribe
      <3> QED BY <2>1, <3>2 DEF Ledger!LedgerNext
    <2>9. Ledger!LedgerNext \/ EventFate' = EventFate
      BY <2>2, <2>3, <2>4, <2>5, <2>6, <2>7, <2>8 DEF EventNext
    <2> QED BY <2>1, <2>9
  <1> QED BY <1>1, <1>2, StoreHolds, PTL DEF EventSpec, ImplementsEventLedger, Ledger!LedgerSpec

\* An event has one turn: what is lost or passed over stays so, and what has been in the
\* table never waits again.
OneTurn ==
    \A n \in 1..MaxEvents :
        /\ EventFate[n] \in {"lost", "ignored"} => EventFate'[n] = EventFate[n]
        /\ EventFate[n] \in {"stored", "pruned"} => EventFate'[n] \in {"stored", "pruned", "lost"}
        /\ EventFate[n] = "waiting" => EventFate'[n] \in {"waiting", "stored", "lost"}

\* Each step of the ledger leaves every event its turn.
LEMMA LedgerTurns == Ledger!LedgerNext => OneTurn
  <1>1. ASSUME NEW n \in 1..MaxEvents, Ledger!Sent(n) PROVE OneTurn
    BY <1>1 DEF OneTurn, Ledger!Sent, Ledger!Met, Ledger!These
  <1>2. ASSUME NEW events, Ledger!Overtaken(events) PROVE OneTurn
    BY <1>2 DEF OneTurn, Ledger!Overtaken, Ledger!Met, Ledger!These
  <1>3. ASSUME NEW events, NEW kept, Ledger!Written(events, kept) PROVE OneTurn
    BY <1>3 DEF OneTurn, Ledger!Written, Ledger!These
  <1>4. ASSUME NEW events, Ledger!Aged(events) PROVE OneTurn
    BY <1>4 DEF OneTurn, Ledger!Aged, Ledger!Met, Ledger!These
  <1>5. ASSUME NEW undone, NEW back, Ledger!Restarted(undone, back) PROVE OneTurn
    BY <1>5 DEF OneTurn, Ledger!Restarted, Ledger!These
  <1> QED BY <1>1, <1>2, <1>3, <1>4, <1>5 DEF Ledger!LedgerNext

\* NOTHING LOST COMES BACK: no step of the bus, the writer, the pruning task or a restart
\* gives an event a second turn (main.rs 513-583).
THEOREM LostForGood == EventSpec => [][OneTurn]_EventFate
  <1>1. [Ledger!LedgerNext]_EventFate => [OneTurn]_EventFate
    BY LedgerTurns
  <1> QED BY <1>1, StoreImplementsLedger, PTL DEF ImplementsEventLedger, Ledger!LedgerSpec

=============================================================================
