------------------------------ MODULE Alerting ------------------------------
(***************************************************************************)
(* AlertSender and AlertManager.  Event readers queue what they report,    *)
(* without waiting, in a channel of fixed size.  One task takes the events *)
(* one by one, drops those below the configured severity, those that       *)
(* repeat an event of the last DedupWindow and those beyond the limit of   *)
(* the current rate window, and waits for the outputs to accept the rest.  *)
(*                                                                         *)
(* An instant is kept as its age in ticks, up to the largest age the code  *)
(* tells apart.                                                            *)
(***************************************************************************)
EXTENDS Naturals, Sequences

CONSTANTS
    Keys,         \* dedup_key: agent, type, path and action of an event
    Idle,
    Severities,   \* of the events that occur
    MinSeverity,  \* min_severity
    DedupWindow,  \* dedup_window_seconds, in ticks
    RateWindow,   \* the 60 seconds of the rate window, in ticks
    RateLimit,    \* rate_limit_per_minute
    ChannelSize   \* of the channel, 4096 in the code

ASSUME AlertingAssumption ==
    /\ Idle \notin Keys
    /\ Severities \subseteq Nat /\ MinSeverity \in Nat
    /\ DedupWindow \in Nat /\ RateWindow \in Nat
    /\ RateLimit \in Nat /\ ChannelSize \in Nat

VARIABLES
    queue,    \* the channel
    current,  \* the key of the event the outputs are working on, or Idle
    dedup,    \* dedup_cache: age of the entry of each key
    window,   \* rate_window: alerts counted, and age of the window
    last,     \* history: age of the last alert of each key
    sent      \* history: age of the last alert, of the one before it, and so on

vars == <<queue, current, dedup, window, last, sent>>

\* The age of an entry that is not there, and of one too old to matter
Old == DedupWindow

Event == [key : Keys, severity : Severities]

\* A window that is older than RateWindow is replaced
WindowAges == 0..(RateWindow + 1)

\* As many alerts are remembered as two windows can hold, and one more.
Remembered == 2 * RateLimit + 1

\* The alerts sent so far, and one that is sent now
Pushed == [i \in 1..Remembered |-> IF i = 1 THEN 0 ELSE sent[i - 1]]

\* Mutant: the event is queued although the channel is full
EmitUnbounded(e) ==
    /\ queue' = Append(queue, e)
    /\ UNCHANGED <<current, dedup, window, last, sent>>

\* AlertSender::send: metrics and the event bus are served first; an event that
\* does not fit into the channel is dropped
Emit(e) ==
    /\ queue' = IF Len(queue) < ChannelSize THEN Append(queue, e) ELSE queue
    /\ UNCHANGED <<current, dedup, window, last, sent>>

Duplicate(k) == dedup[k] < DedupWindow

Refreshed == IF window.age > RateWindow THEN [count |-> 0, age |-> 0] ELSE window

\* Dropped below the severity, or as a repetition: the entry keeps its age
Ignore(e) == UNCHANGED <<current, dedup, window, last, sent>>

\* Entered in the cache, and then beyond the limit
Throttle(e) ==
    /\ dedup' = [dedup EXCEPT ![e.key] = 0]
    /\ window' = Refreshed
    /\ UNCHANGED <<current, last, sent>>

\* Mutant: an alert is not counted in the window
DispatchUncounted(e) ==
    /\ dedup' = [dedup EXCEPT ![e.key] = 0]
    /\ window' = Refreshed
    /\ current' = e.key
    /\ last' = [last EXCEPT ![e.key] = 0]
    /\ sent' = Pushed

Dispatch(e) ==
    /\ dedup' = [dedup EXCEPT ![e.key] = 0]
    /\ window' = [Refreshed EXCEPT !.count = @ + 1]
    /\ current' = e.key
    /\ last' = [last EXCEPT ![e.key] = 0]
    /\ sent' = Pushed

\* Mutant: a repetition renews the entry it is compared with
ProcessRenewing(e) ==
    IF e.severity < MinSeverity THEN Ignore(e)
    ELSE IF Duplicate(e.key)
         THEN dedup' = [dedup EXCEPT ![e.key] = 0] /\ UNCHANGED <<current, window, last, sent>>
    ELSE IF Refreshed.count >= RateLimit THEN Throttle(e)
    ELSE Dispatch(e)

\* Mutant: the cache is consulted but never written
ProcessUncached(e) ==
    IF e.severity < MinSeverity \/ Duplicate(e.key) THEN Ignore(e)
    ELSE IF Refreshed.count >= RateLimit THEN Throttle(e)
    ELSE /\ window' = [Refreshed EXCEPT !.count = @ + 1]
         /\ current' = e.key
         /\ last' = [last EXCEPT ![e.key] = 0]
         /\ sent' = Pushed
         /\ UNCHANGED dedup

ProcessEvent(e) ==
    IF e.severity < MinSeverity \/ Duplicate(e.key) THEN Ignore(e)
    ELSE IF Refreshed.count >= RateLimit THEN Throttle(e)
    ELSE Dispatch(e)

Take ==
    /\ current = Idle /\ queue # <<>>
    /\ queue' = Tail(queue)
    /\ ProcessEvent(Head(queue))

\* The outputs have answered, failed or timed out
DispatchEnd ==
    /\ current # Idle
    /\ current' = Idle
    /\ UNCHANGED <<queue, dedup, window, last, sent>>

Retained(age) == age < DedupWindow

CleanupDedupCache ==
    /\ current = Idle
    /\ dedup' = [k \in Keys |-> IF Retained(dedup[k]) THEN dedup[k] ELSE Old]
    /\ UNCHANGED <<queue, current, window, last, sent>>

Older(age, max) == IF age < max THEN age + 1 ELSE max

Tick ==
    /\ dedup' = [k \in Keys |-> Older(dedup[k], DedupWindow)]
    /\ window' = [window EXCEPT !.age = Older(@, RateWindow + 1)]
    /\ last' = [k \in Keys |-> Older(last[k], DedupWindow)]
    /\ sent' = [i \in 1..Remembered |-> Older(sent[i], RateWindow + 1)]
    /\ UNCHANGED <<queue, current>>

Init ==
    /\ queue = <<>> /\ current = Idle
    /\ dedup = [k \in Keys |-> Old]
    /\ window = [count |-> 0, age |-> 0]
    /\ last = [k \in Keys |-> DedupWindow]
    /\ sent = [i \in 1..Remembered |-> RateWindow + 1]

Next ==
    \/ \E e \in Event : Emit(e)
    \/ Take \/ DispatchEnd \/ CleanupDedupCache
    \/ Tick

\* The manager's loop takes what is there, every output gives up after some time,
\* and time passes
Spec == Init /\ [][Next]_vars /\ WF_vars(Take) /\ WF_vars(DispatchEnd) /\ WF_vars(Tick)

----------------------------------------------------------------------------
(* Properties.                                                             *)

TypeOK ==
    /\ queue \in Seq(Event) /\ Len(queue) <= ChannelSize
    /\ current \in Keys \cup {Idle}
    /\ dedup \in [Keys -> 0..DedupWindow]
    /\ window \in [count : 0..RateLimit, age : WindowAges]
    /\ last \in [Keys -> 0..DedupWindow]
    /\ sent \in [1..Remembered -> WindowAges]

\* Two alerts with the same key are at least DedupWindow apart, although the cache
\* is swept in between and outputs take their time (alerting/mod.rs 312-334, 447-455).
NoDuplicateAlert ==
    [][\A k \in Keys : current = Idle /\ current' = k => last[k] >= DedupWindow]_vars

\* No span as long as the rate window sees more than twice the limit: windows are
\* not aligned with the minute, so a burst may straddle two of them, but never three.
\* The alert before twice the limit of them is older (alerting/mod.rs 324-333).
RateBounded == sent[Remembered] > RateWindow

\* A key whose events keep coming does not fall silent: it is alerted again and
\* again, unless the limit is reached again and again (alerting/mod.rs 312-336).
Asks(k) == queue # <<>> /\ Head(queue).key = k /\ Head(queue).severity >= MinSeverity

LimitReached == window.count >= RateLimit /\ window.age <= RateWindow

NoKeyFallsSilent ==
    \A k \in Keys : []<>Asks(k) => []<>(last[k] < DedupWindow) \/ []<>LimitReached
=============================================================================
