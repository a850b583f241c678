----------------------------- MODULE IpcProofs -----------------------------
(***************************************************************************)
(* What stands before the permission workflow in the daemon, for any       *)
(* limits, periods, agents and clients.                                    *)
(*                                                                         *)
(* Part 1: the rate limiter and the risk levels under every stream of      *)
(* requests and decisions.  That the fixed windows of check() bound what   *)
(* any sliding window can see follows from one invariant per window: the   *)
(* requests counted in the current window and the PerMinute before them    *)
(* tell how old the one before these is.                                   *)
(*                                                                         *)
(* Part 2: the socket.  Requests that wait for a person leave a slot for   *)
(* the decision, because what is listed fits the limits of the agents.     *)
(***************************************************************************)
EXTENDS RequestStream, IpcServer, LimiterProofs, FiniteSetTheorems, FunctionTheorems

-----------------------------------------------------------------------------
(* Part 1: the rate limiter.                                               *)

\* What the recorded times are bounded by.
LEMMA SpanFacts ==
    /\ Span \in Nat /\ Minute <= Span /\ Hour <= Span
    /\ Longest \in Nat /\ Span <= Longest
    /\ MaxCooldown <= Longest /\ ResourceCooldown <= Longest
    /\ Remembered \in Nat
    /\ 2 * PerMinute + 1 \in 1 .. Remembered /\ 2 * PerHour + 1 \in 1 .. Remembered
BY LimitsAssumption DEF Span, Longest, Remembered, Max2

LEMMA StreamInit == ASSUME Init PROVE TypeOK
<1>1. EntryOf(NewLimiter) \in Limiter
  BY NewLimiterType, EntryType
<1> QED BY <1>1, SpanFacts DEF Init, TypeOK

LEMMA StreamStep == ASSUME TypeOK, [Next]_vars PROVE TypeOK'
<1>0. /\ l \in Limiter
      /\ asked \in [1 .. Remembered -> 0 .. Span]
      /\ quiet \in 0 .. Longest
      /\ 0 \in 0 .. Longest
  BY SpanFacts DEF TypeOK
<1>1. ASSUME NEW r \in Resources, Ask(r) PROVE TypeOK'
  <2>1. l' \in Limiter
    BY <1>0, <1>1, RefreshedType, RecordRequestType DEF Ask
  <2>2. asked' \in [1 .. Remembered -> 0 .. Span]
    <3>1. ASSUME NEW k \in 1 .. Remembered
          PROVE  (IF k = 1 THEN 0 ELSE asked[k - 1]) \in 0 .. Span
      BY <1>0, SpanFacts
    <3> QED BY <1>1, <3>1 DEF Ask
  <2> QED BY <1>0, <1>1, <2>1, <2>2 DEF Ask, TypeOK
<1>2. ASSUME NEW r \in Resources, Limited(r) PROVE TypeOK'
  BY <1>0, <1>2, RefreshedType DEF Limited, TypeOK
<1>3. ASSUME NEW r \in Resources, AskAutoDenied(r) PROVE TypeOK'
  BY <1>0, <1>3, RecordRequestType, RecordDenialType DEF AskAutoDenied, TypeOK
<1>4. ASSUME AskAutoApproved PROVE TypeOK'
  BY <1>0, <1>4, RecordRequestType, RecordApprovalType DEF AskAutoApproved, TypeOK
<1>5. ASSUME NEW r \in Resources, Denied(r) PROVE TypeOK'
  BY <1>0, <1>5, RecordDenialType DEF Denied, TypeOK
<1>6. ASSUME Approved PROVE TypeOK'
  BY <1>0, <1>6, RecordApprovalType DEF Approved, TypeOK
<1>7. ASSUME Tick PROVE TypeOK'
  <2>1. l' \in Limiter
    BY <1>0, <1>7, AgeLimiterType DEF Tick
  <2>2. asked' \in [1 .. Remembered -> 0 .. Span]
    <3>1. ASSUME NEW k \in 1 .. Remembered PROVE Least(asked[k] + 1, Span) \in 0 .. Span
      BY <1>0, SpanFacts DEF Least
    <3> QED BY <1>7, <3>1 DEF Tick
  <2>3. quiet' \in 0 .. Longest
    BY <1>0, <1>7, SpanFacts DEF Tick, Least
  <2> QED BY <2>1, <2>2, <2>3 DEF TypeOK
<1>8. ASSUME UNCHANGED vars PROVE TypeOK'
  BY <1>0, <1>8 DEF vars, TypeOK
<1> QED BY <1>1, <1>2, <1>3, <1>4, <1>5, <1>6, <1>7, <1>8 DEF Next

\* The limiter, the ages of the last requests and the quiet time keep their
\* types for any limits, periods and resources.
THEOREM StreamTypeCorrect == Spec => []TypeOK
BY StreamInit, StreamStep, PTL DEF Spec

-----------------------------------------------------------------------------
(* The windows.                                                            *)

\* Of the requests counted in a window c are in `asked`; the one before them
\* is older than the window, and the one `max` further back older than a
\* whole period.
Window(s, count, age, max, period) ==
    \E c \in 0 .. max : c <= count /\ s[c + 1] >= age /\ s[c + max + 1] >= period

\* A request is older than the ones made after it.
Older(s) == \A j, k \in 1 .. Remembered : j <= k => s[j] <= s[k]

\* The inductive invariant
BurstInv ==
    /\ TypeOK
    /\ Older(asked)
    /\ Window(asked, l.minuteCount, l.minuteAge, PerMinute, Minute)
    /\ Window(asked, l.hourCount, l.hourAge, PerHour, Hour)

\* The ages asked about: of requests, up to the longer period
Ages == [1 .. Remembered -> 0 .. Span]

\* The two limits, with the two periods
Limits == {<<PerMinute, Minute>>, <<PerHour, Hour>>}

LEMMA LimitsFacts ==
    ASSUME NEW max, NEW period, <<max, period>> \in Limits
    PROVE  /\ max \in Nat /\ period \in Nat /\ period <= Span
           /\ 2 * max + 1 \in 1 .. Remembered
BY LimitsAssumption, SpanFacts DEF Limits

\* A window that is over is begun anew: it counts nothing, and the requests
\* of the one before are all the last period can hold.
LEMMA WindowRestarts ==
    ASSUME NEW s \in Ages, Older(s), NEW max, NEW period, <<max, period>> \in Limits, NEW n \in Nat, NEW g \in 0 .. period,
           Window(s, n, g, max, period)
    PROVE  Window(s, IF g >= period THEN 0 ELSE n, IF g >= period THEN 0 ELSE g, max, period)
<1>1. CASE g >= period
  <2>1. PICK c \in 0 .. max : s[c + 1] >= g
    BY DEF Window
  <2>2. c + 1 \in 1 .. Remembered /\ max + 1 \in 1 .. Remembered /\ c + 1 <= max + 1
    BY LimitsFacts, SpanFacts
  <2>3. s[max + 1] >= period
    <3>1. s[c + 1] \in Nat /\ s[max + 1] \in Nat /\ s[c + 1] <= s[max + 1]
      BY <2>2, SpanFacts DEF Older, Ages
    <3> QED BY <3>1, <2>1, <1>1, LimitsFacts
  <2>4. s[1] >= 0
    BY SpanFacts DEF Ages
  <2>5. 0 \in 0 .. max /\ 0 <= 0 /\ s[0 + 1] >= 0 /\ s[0 + max + 1] >= period
    BY <2>3, <2>4, LimitsFacts
  <2> QED BY <1>1, <2>5, Zenon DEF Window
<1>2. CASE ~(g >= period)
  BY <1>2
<1> QED BY <1>1, <1>2

\* A request that passes the check is counted and remembered.
LEMMA WindowGrows ==
    ASSUME NEW s \in Ages, NEW z, NEW max, NEW period, <<max, period>> \in Limits, NEW n \in Nat, NEW g \in 0 .. period,
           Window(s, n, g, max, period), n < max,
           z = [k \in 1 .. Remembered |-> IF k = 1 THEN 0 ELSE s[k - 1]]
    PROVE  Window(z, n + 1, g, max, period)
<1>1. PICK c \in 0 .. max : c <= n /\ s[c + 1] >= g /\ s[c + max + 1] >= period
  BY DEF Window
<1>2. c + 1 \in 0 .. max /\ c + 1 <= n + 1
  BY <1>1, LimitsFacts
<1>3. z[(c + 1) + 1] = s[c + 1]
  <2>1. (c + 1) + 1 \in 1 .. Remembered /\ (c + 1) + 1 # 1 /\ ((c + 1) + 1) - 1 = c + 1
    BY <1>2, LimitsFacts, SpanFacts
  <2> QED BY <2>1
<1>4. z[(c + 1) + max + 1] = s[c + max + 1]
  <2>1. (c + 1) + max + 1 \in 1 .. Remembered
    <3>1. max \in Nat /\ 2 * max + 1 <= Remembered /\ Remembered \in Nat
      BY LimitsFacts, SpanFacts
    <3>2. c \in Nat /\ c + 1 <= max
      BY <1>2, <3>1
    <3> QED BY <3>1, <3>2
  <2>2. (c + 1) + max + 1 # 1 /\ ((c + 1) + max + 1) - 1 = c + max + 1
    BY <1>2, LimitsFacts
  <2> QED BY <2>1, <2>2
<1>5. z[(c + 1) + 1] >= g /\ z[(c + 1) + max + 1] >= period
  BY <1>1, <1>3, <1>4
<1> QED BY <1>2, <1>5 DEF Window

\* A request that is only counted
LEMMA WindowCounts ==
    ASSUME NEW s, NEW max, NEW period, <<max, period>> \in Limits, NEW n \in Nat, NEW g,
           Window(s, n, g, max, period)
    PROVE  Window(s, n + 1, g, max, period)
<1>1. PICK c \in 0 .. max : c <= n /\ s[c + 1] >= g /\ s[c + max + 1] >= period
  BY DEF Window
<1>2. c <= n + 1
  BY <1>1, LimitsFacts
<1> QED BY <1>1, <1>2 DEF Window

\* Time passes for the window and for the requests alike.
LEMMA WindowAges ==
    ASSUME NEW s \in Ages, NEW z, NEW max, NEW period, <<max, period>> \in Limits, NEW n, NEW g \in 0 .. period,
           NEW h \in {g, Least(g + 1, period)},
           Window(s, n, g, max, period),
           z = [k \in 1 .. Remembered |-> Least(s[k] + 1, Span)]
    PROVE  Window(z, n, h, max, period)
<1>1. PICK c \in 0 .. max : c <= n /\ s[c + 1] >= g /\ s[c + max + 1] >= period
  BY DEF Window
<1>2. c + 1 \in 1 .. Remembered /\ c + max + 1 \in 1 .. Remembered
  BY <1>1, LimitsFacts, SpanFacts
<1>3. z[c + 1] = Least(s[c + 1] + 1, Span) /\ s[c + 1] \in 0 .. Span
  BY <1>2 DEF Ages
<1>4. z[c + max + 1] = Least(s[c + max + 1] + 1, Span) /\ s[c + max + 1] \in 0 .. Span
  BY <1>2 DEF Ages
<1>5. ASSUME NEW u \in Nat, u >= g PROVE Least(u + 1, Span) >= h
  BY <1>5, LimitsFacts, SpanFacts DEF Least
<1>6. ASSUME NEW u \in Nat, u >= period PROVE Least(u + 1, Span) >= period
  BY <1>6, LimitsFacts, SpanFacts DEF Least
<1>7. z[c + 1] >= h
  BY <1>1, <1>3, <1>5, SpanFacts
<1>8. z[c + max + 1] >= period
  BY <1>1, <1>4, <1>6, SpanFacts
<1> QED BY <1>1, <1>7, <1>8 DEF Window

\* The order of the ages is kept by a new request and by a tick.
LEMMA OlderKept ==
    ASSUME NEW s \in Ages, Older(s)
    PROVE  /\ Older([k \in 1 .. Remembered |-> IF k = 1 THEN 0 ELSE s[k - 1]])
           /\ Older([k \in 1 .. Remembered |-> Least(s[k] + 1, Span)])
<1>1. ASSUME NEW j \in 1 .. Remembered, NEW k \in 1 .. Remembered, j <= k
      PROVE  (IF j = 1 THEN 0 ELSE s[j - 1]) <= (IF k = 1 THEN 0 ELSE s[k - 1])
  <2>1. CASE j = 1
    BY <2>1, SpanFacts DEF Ages
  <2>2. CASE j # 1
    <3>1. j - 1 \in 1 .. Remembered /\ k - 1 \in 1 .. Remembered /\ j - 1 <= k - 1 /\ k # 1
      BY <1>1, <2>2, SpanFacts
    <3> QED BY <2>2, <3>1 DEF Older
  <2> QED BY <2>1, <2>2
<1>2. ASSUME NEW j \in 1 .. Remembered, NEW k \in 1 .. Remembered, j <= k
      PROVE  Least(s[j] + 1, Span) <= Least(s[k] + 1, Span)
  <2>1. s[j] \in Nat /\ s[k] \in Nat /\ s[j] <= s[k]
    BY <1>2, SpanFacts DEF Older, Ages
  <2> QED BY <2>1, SpanFacts DEF Least
<1> QED BY <1>1, <1>2 DEF Older

\* What each method leaves in the fields of a limiter.
LEMMA RefreshedFields ==
    ASSUME NEW m \in Limiter
    PROVE  /\ Refreshed(m).minuteCount = IF m.minuteAge >= Minute THEN 0 ELSE m.minuteCount
           /\ Refreshed(m).minuteAge = IF m.minuteAge >= Minute THEN 0 ELSE m.minuteAge
           /\ Refreshed(m).hourCount = IF m.hourAge >= Hour THEN 0 ELSE m.hourCount
           /\ Refreshed(m).hourAge = IF m.hourAge >= Hour THEN 0 ELSE m.hourAge
           /\ Refreshed(m).denials = m.denials
           /\ Refreshed(m).denialAge = m.denialAge
           /\ Refreshed(m).deniedAge = m.deniedAge
BY DEF Refreshed, Limiter

LEMMA RecordFields ==
    ASSUME NEW m \in Limiter, NEW r \in Resources
    PROVE  /\ RecordRequest(m).minuteCount = m.minuteCount + 1
           /\ RecordRequest(m).hourCount = m.hourCount + 1
           /\ RecordRequest(m).minuteAge = m.minuteAge
           /\ RecordRequest(m).hourAge = m.hourAge
           /\ RecordDenial(m, r).minuteCount = m.minuteCount
           /\ RecordDenial(m, r).hourCount = m.hourCount
           /\ RecordDenial(m, r).minuteAge = m.minuteAge
           /\ RecordDenial(m, r).hourAge = m.hourAge
           /\ RecordApproval(m).minuteCount = m.minuteCount
           /\ RecordApproval(m).hourCount = m.hourCount
           /\ RecordApproval(m).minuteAge = m.minuteAge
           /\ RecordApproval(m).hourAge = m.hourAge
           /\ RecordApproval(m).denialAge = m.denialAge
           /\ RecordApproval(m).deniedAge = m.deniedAge
<1>1. /\ RecordRequest(m).minuteCount = m.minuteCount + 1
      /\ RecordRequest(m).hourCount = m.hourCount + 1
      /\ RecordRequest(m).minuteAge = m.minuteAge
      /\ RecordRequest(m).hourAge = m.hourAge
  BY DEF RecordRequest, Limiter
<1>2. /\ RecordDenial(m, r).minuteCount = m.minuteCount
      /\ RecordDenial(m, r).hourCount = m.hourCount
      /\ RecordDenial(m, r).minuteAge = m.minuteAge
      /\ RecordDenial(m, r).hourAge = m.hourAge
  BY DEF RecordDenial, Limiter
<1>3. /\ RecordApproval(m).minuteCount = m.minuteCount
      /\ RecordApproval(m).hourCount = m.hourCount
      /\ RecordApproval(m).minuteAge = m.minuteAge
      /\ RecordApproval(m).hourAge = m.hourAge
      /\ RecordApproval(m).denialAge = m.denialAge
      /\ RecordApproval(m).deniedAge = m.deniedAge
  BY DEF RecordApproval, Limiter
<1> QED BY <1>1, <1>2, <1>3

LEMMA AgeFields ==
    ASSUME NEW m \in Limiter
    PROVE  /\ AgeLimiter(m).minuteCount = m.minuteCount
           /\ AgeLimiter(m).hourCount = m.hourCount
           /\ AgeLimiter(m).minuteAge \in {m.minuteAge, Least(m.minuteAge + 1, Minute)}
           /\ AgeLimiter(m).hourAge \in {m.hourAge, Least(m.hourAge + 1, Hour)}
BY DEF AgeLimiter, Limiter

\* A refresh of the limiter restarts the windows that are over.
LEMMA RefreshedWindows ==
    ASSUME BurstInv
    PROVE  /\ Window(asked, Refreshed(l).minuteCount, Refreshed(l).minuteAge, PerMinute, Minute)
           /\ Window(asked, Refreshed(l).hourCount, Refreshed(l).hourAge, PerHour, Hour)
<1>1. /\ asked \in Ages /\ l \in Limiter
      /\ <<PerMinute, Minute>> \in Limits /\ <<PerHour, Hour>> \in Limits
  BY DEF BurstInv, TypeOK, Ages, Limits
<1>2. Window(asked, IF l.minuteAge >= Minute THEN 0 ELSE l.minuteCount,
                    IF l.minuteAge >= Minute THEN 0 ELSE l.minuteAge, PerMinute, Minute)
  BY <1>1, LimiterFields, WindowRestarts DEF BurstInv
<1>3. Window(asked, IF l.hourAge >= Hour THEN 0 ELSE l.hourCount,
                    IF l.hourAge >= Hour THEN 0 ELSE l.hourAge, PerHour, Hour)
  BY <1>1, LimiterFields, WindowRestarts DEF BurstInv
<1> QED BY <1>1, <1>2, <1>3, RefreshedFields

\* A request is recorded in a limiter that may be asked for more.
LEMMA AskedWindows ==
    ASSUME BurstInv, NEW r \in Resources, Ask(r)
    PROVE  /\ Window(asked', l'.minuteCount, l'.minuteAge, PerMinute, Minute)
           /\ Window(asked', l'.hourCount, l'.hourAge, PerHour, Hour)
<1> DEFINE m == Refreshed(l)
<1>1. /\ asked \in Ages /\ l \in Limiter
      /\ <<PerMinute, Minute>> \in Limits /\ <<PerHour, Hour>> \in Limits
  BY DEF BurstInv, TypeOK, Ages, Limits
<1>2. m \in Limiter
  BY <1>1, RefreshedType
<1>3. /\ Window(asked, m.minuteCount, m.minuteAge, PerMinute, Minute)
      /\ Window(asked, m.hourCount, m.hourAge, PerHour, Hour)
  BY RefreshedWindows
<1>4. /\ l' = RecordRequest(m)
      /\ asked' = [k \in 1 .. Remembered |-> IF k = 1 THEN 0 ELSE asked[k - 1]]
      /\ ~Blocked(m, r)
  BY DEF Ask
<1> HIDE DEF m
<1>5. /\ m.minuteCount \in Nat /\ m.hourCount \in Nat
      /\ m.minuteAge \in 0 .. Minute /\ m.hourAge \in 0 .. Hour
  BY <1>2, LimiterFields
<1>6. m.minuteCount < PerMinute /\ m.hourCount < PerHour
  BY <1>4, <1>5, LimitsAssumption DEF Blocked
<1>7. Window(asked', m.minuteCount + 1, m.minuteAge, PerMinute, Minute)
  BY <1>1, <1>3, <1>4, <1>5, <1>6, WindowGrows
<1>8. Window(asked', m.hourCount + 1, m.hourAge, PerHour, Hour)
  BY <1>1, <1>3, <1>4, <1>5, <1>6, WindowGrows
<1> QED BY <1>2, <1>4, <1>7, <1>8, RecordFields

LEMMA BurstStep == ASSUME BurstInv, [Next]_vars PROVE BurstInv'
<1>1. TypeOK'
  BY StreamStep DEF BurstInv
<1>2. /\ asked \in Ages /\ l \in Limiter
      /\ <<PerMinute, Minute>> \in Limits /\ <<PerHour, Hour>> \in Limits
      /\ Older(asked)
      /\ Window(asked, l.minuteCount, l.minuteAge, PerMinute, Minute)
      /\ Window(asked, l.hourCount, l.hourAge, PerHour, Hour)
      /\ l.minuteCount \in Nat /\ l.hourCount \in Nat
      /\ l.minuteAge \in 0 .. Minute /\ l.hourAge \in 0 .. Hour
  BY LimiterFields DEF BurstInv, TypeOK, Ages, Limits
<1> DEFINE Windows == /\ Window(asked, l.minuteCount, l.minuteAge, PerMinute, Minute)
                      /\ Window(asked, l.hourCount, l.hourAge, PerHour, Hour)
<1>3. Older(asked)' /\ Windows'
  <2>1. ASSUME NEW r \in Resources, Ask(r) PROVE Older(asked)' /\ Windows'
    BY <1>2, <2>1, AskedWindows, OlderKept DEF Ask
  <2>2. ASSUME NEW r \in Resources, Limited(r) PROVE Older(asked)' /\ Windows'
    BY <1>2, <2>2, RefreshedWindows DEF Limited
  <2>3. ASSUME /\ l'.minuteAge = l.minuteAge /\ l'.hourAge = l.hourAge
               /\ l'.minuteCount = l.minuteCount + 1 /\ l'.hourCount = l.hourCount + 1
               /\ UNCHANGED asked
        PROVE  Older(asked)' /\ Windows'
    BY <1>2, <2>3, WindowCounts
  <2>4. ASSUME NEW r \in Resources, AskAutoDenied(r) PROVE Older(asked)' /\ Windows'
    <3>1. RecordRequest(l) \in Limiter
      BY <1>2, RecordRequestType
    <3> QED BY <1>2, <2>3, <2>4, <3>1, RecordFields DEF AskAutoDenied
  <2>5. ASSUME AskAutoApproved PROVE Older(asked)' /\ Windows'
    <3>1. RecordRequest(l) \in Limiter
      BY <1>2, RecordRequestType
    <3>2. /\ l'.minuteAge = l.minuteAge /\ l'.hourAge = l.hourAge
          /\ l'.minuteCount = l.minuteCount + 1 /\ l'.hourCount = l.hourCount + 1
      BY <1>2, <2>5, <3>1 DEF AskAutoApproved, RecordRequest, RecordApproval, Limiter
    <3> QED BY <2>3, <2>5, <3>2 DEF AskAutoApproved
  <2>6. ASSUME NEW r \in Resources, Denied(r) PROVE Older(asked)' /\ Windows'
    BY <1>2, <2>6, RecordFields DEF Denied
  <2>7. ASSUME Approved PROVE Older(asked)' /\ Windows'
    BY <1>2, <2>7 DEF Approved, RecordApproval, Limiter
  <2>8. ASSUME Tick PROVE Older(asked)' /\ Windows'
    <3>1. l' = AgeLimiter(l)
          /\ asked' = [k \in 1 .. Remembered |-> Least(asked[k] + 1, Span)]
      BY <2>8 DEF Tick
    <3>2. /\ l'.minuteCount = l.minuteCount /\ l'.hourCount = l.hourCount
          /\ l'.minuteAge \in {l.minuteAge, Least(l.minuteAge + 1, Minute)}
          /\ l'.hourAge \in {l.hourAge, Least(l.hourAge + 1, Hour)}
      BY <1>2, <3>1, AgeFields
    <3>3. Older(asked')
      BY <1>2, <3>1, OlderKept
    <3>4. Window(asked', l.minuteCount, l'.minuteAge, PerMinute, Minute)
      BY <1>2, <3>1, <3>2, WindowAges
    <3>5. Window(asked', l.hourCount, l'.hourAge, PerHour, Hour)
      BY <1>2, <3>1, <3>2, WindowAges
    <3> QED BY <3>2, <3>3, <3>4, <3>5
  <2>9. ASSUME UNCHANGED vars PROVE Older(asked)' /\ Windows'
    BY <1>2, <2>9 DEF vars
  <2> QED BY <2>1, <2>2, <2>4, <2>5, <2>6, <2>7, <2>8, <2>9 DEF Next
<1> QED BY <1>1, <1>3 DEF BurstInv

LEMMA BurstInit == ASSUME Init PROVE BurstInv
<1>1. TypeOK
  BY StreamInit
<1>2. asked \in Ages /\ \A k \in 1 .. Remembered : asked[k] = Span
  BY SpanFacts DEF Init, Ages
<1>3. Older(asked)
  BY <1>2, SpanFacts DEF Older
<1>4. l.minuteCount = 0 /\ l.hourCount = 0 /\ l.minuteAge = 0 /\ l.hourAge = 0
  BY DEF Init, EntryOf, NewLimiter
<1>5. ASSUME NEW max, NEW period, <<max, period>> \in Limits PROVE Window(asked, 0, 0, max, period)
  <2>1. 0 + 1 \in 1 .. Remembered /\ 0 + max + 1 \in 1 .. Remembered /\ 0 \in 0 .. max
    BY <1>5, LimitsFacts, SpanFacts
  <2>2. asked[0 + 1] >= 0 /\ asked[0 + max + 1] >= period
    BY <1>2, <1>5, <2>1, LimitsFacts, SpanFacts
  <2>3. 0 <= 0
    OBVIOUS
  <2> QED BY <2>1, <2>2, <2>3, Zenon DEF Window
<1> QED BY <1>1, <1>3, <1>4, <1>5 DEF BurstInv, Limits

\* Twice the limit is all that a period can hold.
LEMMA BurstBound == ASSUME BurstInv PROVE BurstBounded
<1>1. asked \in Ages /\ <<PerMinute, Minute>> \in Limits /\ <<PerHour, Hour>> \in Limits
  BY DEF BurstInv, TypeOK, Ages, Limits
<1>2. ASSUME NEW max, NEW period, <<max, period>> \in Limits, NEW n, NEW g,
             Window(asked, n, g, max, period)
      PROVE  asked[2 * max + 1] >= period
  <2>1. PICK c \in 0 .. max : asked[c + max + 1] >= period
    BY <1>2 DEF Window
  <2>2. /\ c + max + 1 \in 1 .. Remembered /\ 2 * max + 1 \in 1 .. Remembered
        /\ c + max + 1 <= 2 * max + 1
    BY <1>2, LimitsFacts, SpanFacts
  <2>3. asked[c + max + 1] \in Nat /\ asked[2 * max + 1] \in Nat
        /\ asked[c + max + 1] <= asked[2 * max + 1]
    BY <1>1, <2>2, SpanFacts DEF BurstInv, Older, Ages
  <2> QED BY <1>2, <2>1, <2>3, LimitsFacts
<1>3. asked[2 * PerMinute + 1] >= Minute
  BY <1>1, <1>2 DEF BurstInv
<1>4. asked[2 * PerHour + 1] >= Hour
  BY <1>1, <1>2 DEF BurstInv
<1> QED BY <1>3, <1>4 DEF BurstBounded

\* PEOPLE ARE ASKED AT MOST TWICE THE LIMIT in any minute and in any hour,
\* for any limits and any stream of requests, refusals and decisions.
THEOREM BurstsAreBounded == Spec => []BurstBounded
BY BurstInit, BurstStep, BurstBound, PTL DEF Spec

-----------------------------------------------------------------------------
(* The lockout.                                                            *)

\* Each thing that can block is as old as the silence, or is not there.
\* This is inductive because a refused check never makes anything younger.
Silent(m, q) ==
    /\ m.used
    /\ m.minuteCount = 0 \/ m.minuteAge >= Least(q, Minute)
    /\ m.hourCount = 0 \/ m.hourAge >= Least(q, Hour)
    /\ m.denialAge >= Least(q, MaxCooldown)
    /\ \A r \in Resources : m.deniedAge[r] >= Least(q, ResourceCooldown)

QuietInv == TypeOK /\ Silent(l, quiet)

\* Nothing is younger than a silence that has just begun.
LEMMA SilentFromZero == ASSUME NEW m \in Limiter, m.used PROVE Silent(m, 0)
<1>1. \A n \in Nat : Least(0, n) = 0
  BY DEF Least
<1>2. /\ m.minuteAge \in Nat /\ m.hourAge \in Nat /\ m.denialAge \in Nat
      /\ \A r \in Resources : m.deniedAge[r] \in Nat
  BY LimiterFields, LimitsAssumption
<1> QED BY <1>1, <1>2, LimitsAssumption DEF Silent

\* An entry is never dropped.
LEMMA StillUsed ==
    ASSUME NEW m \in Limiter, m.used, NEW r \in Resources
    PROVE  /\ Refreshed(m).used
           /\ RecordRequest(m).used
           /\ RecordDenial(m, r).used
           /\ RecordApproval(m).used
BY DEF Refreshed, RecordRequest, RecordDenial, RecordApproval, Limiter

LEMMA QuietStep == ASSUME QuietInv, [Next]_vars PROVE QuietInv'
<1>1. TypeOK' /\ TypeOK
  BY StreamStep DEF QuietInv
<1>2. l \in Limiter /\ l.used /\ quiet \in Nat
  BY SpanFacts DEF QuietInv, Silent, TypeOK
<1>3. ASSUME NEW r \in Resources, Ask(r) PROVE QuietInv'
  <2>1. l'.used /\ quiet' = 0
    BY <1>2, <1>3, RefreshedType, StillUsed DEF Ask
  <2> QED BY <1>1, <2>1, SilentFromZero DEF QuietInv, TypeOK
<1>4. ASSUME NEW r \in Resources, Limited(r) PROVE QuietInv'
  <2>1. l' = Refreshed(l) /\ quiet' = quiet
    BY <1>4 DEF Limited
  <2>2. /\ l'.minuteCount = 0 \/ (l'.minuteCount = l.minuteCount /\ l'.minuteAge = l.minuteAge)
        /\ l'.hourCount = 0 \/ (l'.hourCount = l.hourCount /\ l'.hourAge = l.hourAge)
        /\ l'.denialAge = l.denialAge /\ l'.deniedAge = l.deniedAge /\ l'.used
    BY <1>2, <1>4, <2>1, RefreshedFields, StillUsed
  <2> QED BY <1>1, <2>1, <2>2 DEF QuietInv, Silent
<1>5. ASSUME NEW r \in Resources, AskAutoDenied(r) PROVE QuietInv'
  <2>1. l'.used /\ quiet' = 0
    BY <1>2, <1>5, RecordRequestType, StillUsed DEF AskAutoDenied
  <2> QED BY <1>1, <2>1, SilentFromZero DEF QuietInv, TypeOK
<1>6. ASSUME AskAutoApproved PROVE QuietInv'
  <2>1. l'.used /\ quiet' = 0
    BY <1>2, <1>6 DEF AskAutoApproved, RecordRequest, RecordApproval, Limiter
  <2> QED BY <1>1, <2>1, SilentFromZero DEF QuietInv, TypeOK
<1>7. ASSUME NEW r \in Resources, Denied(r) PROVE QuietInv'
  <2>1. l'.used /\ quiet' = 0
    BY <1>2, <1>7, StillUsed DEF Denied
  <2> QED BY <1>1, <2>1, SilentFromZero DEF QuietInv, TypeOK
<1>8. ASSUME Approved PROVE QuietInv'
  <2>1. /\ l'.minuteCount = l.minuteCount /\ l'.minuteAge = l.minuteAge
        /\ l'.hourCount = l.hourCount /\ l'.hourAge = l.hourAge
        /\ l'.denialAge = l.denialAge /\ l'.deniedAge = l.deniedAge
        /\ l'.used = l.used /\ quiet' = quiet
    BY <1>2, <1>8 DEF Approved, RecordApproval, Limiter
  <2> QED BY <1>1, <2>1 DEF QuietInv, Silent
<1>9. ASSUME Tick PROVE QuietInv'
  <2>1. l' = AgeLimiter(l) /\ quiet' = Least(quiet + 1, Longest)
    BY <1>9 DEF Tick
  <2>2. /\ l'.minuteCount = l.minuteCount /\ l'.minuteAge = Least(l.minuteAge + 1, Minute)
        /\ l'.hourCount = l.hourCount /\ l'.hourAge = Least(l.hourAge + 1, Hour)
        /\ l'.denialAge = Least(l.denialAge + 1, MaxCooldown)
        /\ l'.used
        /\ l'.deniedAge = [r \in Resources |-> Least(l.deniedAge[r] + 1, ResourceCooldown)]
    BY <1>2, <2>1 DEF AgeLimiter, Limiter
  <2>3. ASSUME NEW n \in Nat, NEW g \in Nat, n <= Longest, g >= Least(quiet, n)
        PROVE  Least(g + 1, n) >= Least(quiet', n)
    BY <1>2, <2>1, <2>3, SpanFacts DEF Least
  <2>4. Minute <= Longest /\ Hour <= Longest /\ MaxCooldown <= Longest /\ ResourceCooldown <= Longest
    BY SpanFacts, LimitsAssumption
  <2>5. /\ l.minuteAge \in Nat /\ l.hourAge \in Nat /\ l.denialAge \in Nat
        /\ \A r \in Resources : l.deniedAge[r] \in Nat
    BY <1>2, LimiterFields, LimitsAssumption
  <2>6. l'.minuteCount = 0 \/ l'.minuteAge >= Least(quiet', Minute)
    BY <2>2, <2>3, <2>4, <2>5, LimitsAssumption DEF QuietInv, Silent
  <2>7. l'.hourCount = 0 \/ l'.hourAge >= Least(quiet', Hour)
    BY <2>2, <2>3, <2>4, <2>5, LimitsAssumption DEF QuietInv, Silent
  <2>8. l'.denialAge >= Least(quiet', MaxCooldown)
    BY <2>2, <2>3, <2>4, <2>5, LimitsAssumption DEF QuietInv, Silent
  <2>9. \A r \in Resources : l'.deniedAge[r] >= Least(quiet', ResourceCooldown)
    BY <2>2, <2>3, <2>4, <2>5, LimitsAssumption DEF QuietInv, Silent
  <2> QED BY <1>1, <2>2, <2>6, <2>7, <2>8, <2>9 DEF QuietInv, Silent
<1>10. ASSUME UNCHANGED vars PROVE QuietInv'
  BY <1>1, <1>10 DEF vars, QuietInv, Silent
<1> QED BY <1>3, <1>4, <1>5, <1>6, <1>7, <1>8, <1>9, <1>10 DEF Next

LEMMA QuietInit == ASSUME Init PROVE QuietInv
<1>1. l.used /\ quiet = 0
  BY DEF Init, EntryOf, NewLimiter
<1> QED BY <1>1, StreamInit, SilentFromZero DEF QuietInv, TypeOK

\* After the longest of the periods nothing blocks any more.
LEMMA QuietUnblocks == ASSUME QuietInv PROVE LockoutEnds
<1> SUFFICES ASSUME PerMinute > 0, PerHour > 0, quiet >= Longest, NEW r \in Resources
             PROVE  ~Blocked(Refreshed(l), r)
  BY DEF LockoutEnds
<1>1. l \in Limiter /\ quiet \in Nat
  BY SpanFacts DEF QuietInv, Silent, TypeOK
<1>2. \A n \in Nat : n <= Longest => Least(quiet, n) = n
  BY <1>1, SpanFacts DEF Least
<1>3. Minute <= Longest /\ Hour <= Longest /\ MaxCooldown <= Longest /\ ResourceCooldown <= Longest
  BY SpanFacts, LimitsAssumption
<1>4. Refreshed(l).minuteCount < PerMinute
  BY <1>1, <1>2, <1>3, RefreshedFields, LimiterFields, LimitsAssumption DEF QuietInv, Silent
<1>5. Refreshed(l).hourCount < PerHour
  BY <1>1, <1>2, <1>3, RefreshedFields, LimiterFields, LimitsAssumption DEF QuietInv, Silent
<1>6. Refreshed(l).denialAge >= Cooldown(Refreshed(l).denials)
  <2>1. Refreshed(l).denialAge = l.denialAge /\ Refreshed(l).denials \in Nat
    BY <1>1, RefreshedFields, LimiterFields
  <2>2. l.denialAge >= MaxCooldown /\ l.denialAge \in Nat
    BY <1>1, <1>2, <1>3, LimiterFields, LimitsAssumption DEF QuietInv, Silent
  <2> QED BY <2>1, <2>2, CooldownCapped, LimitsAssumption
<1>7. Refreshed(l).deniedAge[r] >= ResourceCooldown
  BY <1>1, <1>2, <1>3, RefreshedFields, LimitsAssumption DEF QuietInv, Silent
<1>8. /\ Refreshed(l).minuteCount \in Nat /\ Refreshed(l).hourCount \in Nat
      /\ Refreshed(l).denialAge \in Nat /\ Cooldown(Refreshed(l).denials) \in Nat
      /\ Refreshed(l).deniedAge[r] \in Nat
  BY <1>1, RefreshedType, LimiterFields, CooldownCapped, LimitsAssumption
<1> QED BY <1>4, <1>5, <1>6, <1>7, <1>8, LimitsAssumption DEF Blocked

\* NO LOCKOUT IS PERMANENT, for any limits, periods and cooldowns: an agent
\* of which nothing was recorded for the longest of them may ask again.
THEOREM LockoutsEnd == Spec => []LockoutEnds
BY QuietInit, QuietStep, QuietUnblocks, PTL DEF Spec

-----------------------------------------------------------------------------
(* Risk.                                                                   *)

\* Every request has a score.
LEMMA ScoreIsNat ==
    ASSUME NEW class \in PathClasses, NEW risky \in BOOLEAN
    PROVE  BaseScore(class) \in Nat /\ ExecScore(class, risky) \in Nat
<1>1. BaseScore(class) \in {90, 60, 10, 25}
  BY DEF BaseScore, PathClasses
<1>2. (BaseScore(class) * 3) \div 2 \in Nat
  BY <1>1
<1> QED BY <1>1, <1>2 DEF ExecScore, Max2

\* Above 100 a score says no more than 100 does.
Capped(score) == Min2(score, 100)

\* Denials never lower a score, once it is capped.
LEMMA DenialsRaise ==
    ASSUME NEW s \in Nat, NEW d \in Nat, NEW e \in Nat, d <= e
    PROVE  /\ AfterDenials(s, d) \in Nat /\ AfterDenials(s, e) \in Nat
           /\ Capped(AfterDenials(s, d)) <= Capped(AfterDenials(s, e))
BY DEF AfterDenials, Capped, Min2

\* Requests within the hour never lower a score, once it is capped.
LEMMA RateRaises ==
    ASSUME NEW s \in Nat, NEW u \in Nat, Capped(s) <= Capped(u),
           NEW m \in Nat, NEW n \in Nat, m <= n
    PROVE  /\ AfterRate(s, m) \in Nat /\ AfterRate(u, n) \in Nat
           /\ Capped(AfterRate(s, m)) <= Capped(AfterRate(u, n))
<1>1. (s * 13) \div 10 \in Nat /\ (u * 13) \div 10 \in Nat /\ (u * 13) \div 10 >= u
  OBVIOUS
<1>2. CASE n <= 5
  BY <1>2 DEF AfterRate, Capped, Min2
<1>3. CASE n > 5 /\ m <= 5
  BY <1>1, <1>3 DEF AfterRate, Capped, Min2
<1>4. CASE m > 5
  <2>1. s <= u => (s * 13) \div 10 <= (u * 13) \div 10
    OBVIOUS
  <2>2. u >= 100 => (u * 13) \div 10 >= 100
    BY <1>1
  <2> QED BY <1>1, <1>4, <2>1, <2>2 DEF AfterRate, Capped, Min2
<1> QED BY <1>2, <1>3, <1>4

\* A higher score is not of a lower level.
LEMMA LevelsAscend ==
    ASSUME NEW s \in Nat, NEW u \in Nat, Capped(s) <= Capped(u)
    PROVE  /\ LevelIndex(s) \in 1 .. 4 /\ LevelIndex(u) \in 1 .. 4
           /\ LevelIndex(s) <= LevelIndex(u)
<1> DEFINE Of(x) == IF x <= 25 THEN 1 ELSE IF x <= 50 THEN 2 ELSE IF x <= 75 THEN 3 ELSE 4
<1>1. ASSUME NEW x \in Nat PROVE LevelIndex(x) = Of(x)
  <2>1. CASE x <= 25
    BY <2>1 DEF LevelIndex
  <2>2. CASE x > 25 /\ x <= 50
    BY <2>2 DEF LevelIndex
  <2>3. CASE x > 50 /\ x <= 75
    BY <2>3 DEF LevelIndex
  <2>4. CASE x > 75
    BY <2>4 DEF LevelIndex
  <2> QED BY <2>1, <2>2, <2>3, <2>4
<1> QED BY <1>1 DEF Capped, Min2

\* Neither does a more suspicious justification lower it.
LEMMA BumpsAscend ==
    ASSUME NEW a \in 1 .. 4, NEW b \in 1 .. 4, a <= b, NEW i \in Nat, NEW j \in Nat, i <= j
    PROVE  Bumped(a, i) <= Bumped(b, j)
BY DEF Bumped, Bump, Min2

\* No two histories, one an extension of the other, are graded the wrong way
\* round.  Scores do fall (135 for a program, 100 once it was denied), but
\* not below the ceiling, so levels do not.
LEMMA RiskAscends == Falling = {}
<1> SUFFICES ASSUME NEW g \in Histories, NEW h \in Histories, Grows(g, h),
                    NEW q \in Asked, NEW i \in Scores, NEW j \in Scores, i <= j
             PROVE  ~(Level(q, g, i) > Level(q, h, j))
  <2>1. ASSUME NEW x \in Falling PROVE FALSE
    BY <2>1 DEF Falling
  <2> QED BY <2>1
<1> DEFINE s == IF q.exec THEN ExecScore(q.class, q.risky) ELSE BaseScore(q.class)
<1>1. s \in Nat
  BY ScoreIsNat DEF Asked
<1>2. g[1] \in Nat /\ h[1] \in Nat /\ g[2] \in Nat /\ h[2] \in Nat /\ g[1] <= h[1] /\ g[2] <= h[2]
  BY DEF Histories, Grows
<1>3. i \in Nat /\ j \in Nat
  BY DEF Scores
<1> DEFINE u(d) == AfterDenials(s, d)
           lower == AfterRate(u(g[1]), g[2])
           upper == AfterRate(u(h[1]), h[2])
<1>4. Level(q, g, i) = Bumped(LevelIndex(lower), i) /\ Level(q, h, j) = Bumped(LevelIndex(upper), j)
  BY DEF Level, RiskIndex, Score
<1> HIDE DEF s
<1>5. u(g[1]) \in Nat /\ u(h[1]) \in Nat /\ Capped(u(g[1])) <= Capped(u(h[1]))
  BY <1>1, <1>2, DenialsRaise
<1> HIDE DEF u
<1>6. lower \in Nat /\ upper \in Nat /\ Capped(lower) <= Capped(upper)
  BY <1>2, <1>5, RateRaises
<1> HIDE DEF lower, upper
<1>7. /\ LevelIndex(lower) \in 1 .. 4 /\ LevelIndex(upper) \in 1 .. 4
      /\ LevelIndex(lower) <= LevelIndex(upper)
  BY <1>6, LevelsAscend
<1>8. Bumped(LevelIndex(lower), i) <= Bumped(LevelIndex(upper), j)
  BY <1>3, <1>7, BumpsAscend
<1>9. Bumped(LevelIndex(lower), i) \in Nat /\ Bumped(LevelIndex(upper), j) \in Nat
  BY <1>3, <1>7 DEF Bumped, Bump, Min2
<1> QED BY <1>4, <1>8, <1>9

\* THE RISK LEVEL OF A REQUEST NEVER FALLS when its agent is denied, asks
\* more often or gives a more suspicious justification.
THEOREM RiskNeverFalls == Spec => RiskIsMonotone
<1>1. [Next]_vars => [<<History, History'>> \notin Falling]_l
  BY RiskAscends
<1> QED BY <1>1, PTL DEF Spec, RiskIsMonotone

-----------------------------------------------------------------------------
(* Part 2: the socket.                                                     *)

Places == {"closed", "length", "body", "process", "waiting", "reply", "sending"}

ServerTypeOK ==
    /\ conn \in [Clients -> Places]
    /\ message \in [Clients -> Messages \cup {NoMessage}]
    /\ pending \subseteq Clients

\* What is listed is the request of an agent, and its connection waits.
ListedIsWaiting ==
    \A c \in pending :
        conn[c] = "waiting" /\ message[c].op = "request" /\ message[c].agent \in Agents

\* The inductive invariant
ServerInv == ServerTypeOK /\ ListedIsWaiting /\ PendingBounded

\* A step that takes requests off the list, and changes no message of the
\* others, keeps the lists bounded.
LEMMA ListsShrink ==
    ASSUME ServerTypeOK, PendingBounded, pending' \subseteq pending,
           \A c \in pending' : message'[c] = message[c]
    PROVE  PendingBounded'
<1> SUFFICES ASSUME NEW a \in Agents PROVE Cardinality(PendingOf(a)') <= MaxPending
  BY DEF PendingBounded
<1>1. IsFiniteSet(PendingOf(a)) /\ PendingOf(a)' \subseteq PendingOf(a)
  <2>1. PendingOf(a) \subseteq Clients
    BY DEF PendingOf, ServerTypeOK
  <2> QED BY <2>1, FS_Subset, ServerAssumption DEF PendingOf
<1>2. /\ Cardinality(PendingOf(a)') <= Cardinality(PendingOf(a))
      /\ IsFiniteSet(PendingOf(a)')
  BY <1>1, FS_Subset
<1>3. Cardinality(PendingOf(a)') \in Nat /\ Cardinality(PendingOf(a)) \in Nat
  BY <1>1, <1>2, FS_CardinalityType
<1> QED BY <1>2, <1>3, ServerAssumption DEF PendingBounded

\* The connections at work: of a client that is not listed afterwards, of
\* whom nothing else changes than what its task does.
LEMMA OthersStay ==
    ASSUME ServerInv, NEW c \in Clients, c \notin pending', pending' \subseteq pending,
           NEW where \in Places, NEW m \in Messages \cup {NoMessage},
           conn' = [conn EXCEPT ![c] = where],
           message' = [message EXCEPT ![c] = m] \/ message' = message
    PROVE  ServerInv'
<1> USE DEF ServerInv
<1>1. ServerTypeOK'
  BY DEF ServerTypeOK
<1>2. \A x \in pending' : x # c /\ x \in Clients /\ conn'[x] = conn[x] /\ message'[x] = message[x]
  BY DEF ServerTypeOK
<1>3. ListedIsWaiting'
  BY <1>2 DEF ListedIsWaiting
<1>4. PendingBounded'
  BY <1>2, ListsShrink
<1> QED BY <1>1, <1>3, <1>4

\* A request is listed only below the limit of its agent.
LEMMA EnqueueKeeps == ASSUME ServerInv, NEW c \in Clients, Enqueue(c) PROVE ServerInv'
<1> USE DEF ServerInv
<1>1. /\ conn[c] = "process" /\ message[c].op = "request" /\ message[c].agent \in Agents
      /\ ~ TooManyPending(message[c].agent)
      /\ conn' = [conn EXCEPT ![c] = "waiting"]
      /\ pending' = pending \cup {c} /\ message' = message
  BY DEF Enqueue, Process, Goto
<1>2. c \notin pending
  BY <1>1 DEF ListedIsWaiting
<1>3. ServerTypeOK'
  BY <1>1 DEF ServerTypeOK, Places
<1>4. ListedIsWaiting'
  BY <1>1, <1>2 DEF ListedIsWaiting, ServerTypeOK
<1>5. ASSUME NEW a \in Agents PROVE Cardinality(PendingOf(a)') <= MaxPending
  <2>1. IsFiniteSet(PendingOf(a))
    <3>1. PendingOf(a) \subseteq Clients
      BY DEF PendingOf, ServerTypeOK
    <3> QED BY <3>1, FS_Subset, ServerAssumption
  <2>2. Cardinality(PendingOf(a)) \in Nat /\ MaxPending \in Nat
    BY <2>1, FS_CardinalityType, ServerAssumption
  <2>3. CASE message[c].agent = a
    <3>1. PendingOf(a)' = PendingOf(a) \cup {c} /\ c \notin PendingOf(a)
      BY <1>1, <1>2, <2>3 DEF PendingOf
    <3>2. Cardinality(PendingOf(a) \cup {c}) = Cardinality(PendingOf(a)) + 1
      BY <2>1, <3>1, FS_AddElement
    <3>3. ~(Cardinality(PendingOf(a)) >= MaxPending)
      BY <1>1, <2>3 DEF TooManyPending
    <3>4. Cardinality(PendingOf(a)') = Cardinality(PendingOf(a)) + 1
      BY <3>1, <3>2
    <3> QED BY <2>2, <3>3, <3>4
  <2>4. CASE message[c].agent # a
    <3>1. PendingOf(a)' = PendingOf(a)
      BY <1>1, <2>4 DEF PendingOf
    <3> QED BY <3>1 DEF PendingBounded
  <2> QED BY <2>3, <2>4
<1> QED BY <1>3, <1>4, <1>5 DEF PendingBounded

LEMMA ServerInvStep == ASSUME ServerInv, [ServerNext]_serverVars PROVE ServerInv'
<1> USE DEF ServerInv
<1>0. /\ NoMessage \in Messages \cup {NoMessage}
      /\ \A c \in pending : conn[c] = "waiting"
      /\ \A c \in Clients : message[c] \in Messages \cup {NoMessage}
  BY DEF ListedIsWaiting, ServerTypeOK
<1>1. ASSUME NEW c \in Clients, Accept(c) PROVE ServerInv'
  BY <1>0, <1>1, OthersStay DEF Accept, Goto, Places
<1>2. ASSUME NEW c \in Clients, ReadLength(c) \/ Invalid(c) PROVE ServerInv'
  BY <1>0, <1>2, OthersStay DEF ReadLength, Invalid, Goto, Places
<1>3. ASSUME NEW c \in Clients, ReadFails(c) \/ ReadTimesOut(c) \/ Reply(c) \/ PeerReads(c)
      PROVE  ServerInv'
  BY <1>0, <1>3, OthersStay DEF ReadFails, ReadTimesOut, Reply, PeerReads, End, Goto, Places
<1>4. ASSUME NEW c \in Clients, NEW m \in Messages, ReadBody(c, m) PROVE ServerInv'
  BY <1>0, <1>4, OthersStay DEF ReadBody, Goto, Places
<1>5. ASSUME NEW c \in Clients, Dismiss(c) \/ ProcessOther(c) PROVE ServerInv'
  BY <1>0, <1>5, OthersStay DEF Dismiss, ProcessOther, Process, Goto, Places
<1>6. ASSUME NEW c \in Clients, Enqueue(c) PROVE ServerInv'
  BY <1>6, EnqueueKeeps
<1>7. ASSUME NEW c \in Clients, Decide(c) PROVE ServerInv'
  <2>1. /\ conn[c] = "process" /\ conn' = [conn EXCEPT ![c] = "reply"]
        /\ message' = message /\ pending' = pending \ {message[c].of}
    BY <1>7 DEF Decide, Process, Goto
  <2> QED BY <1>0, <2>1, OthersStay DEF Places
<1>8. ASSUME NEW c \in Clients, DashboardDecides(c) PROVE ServerInv'
  <2>1. pending' = pending \ {c} /\ UNCHANGED <<conn, message>>
    BY <1>8 DEF DashboardDecides
  <2>2. ServerTypeOK' /\ ListedIsWaiting'
    BY <2>1 DEF ServerTypeOK, ListedIsWaiting
  <2>3. PendingBounded'
    BY <2>1, ListsShrink
  <2> QED BY <2>2, <2>3
<1>9. ASSUME NEW c \in Clients, Answered(c) \/ TimedOut(c) PROVE ServerInv'
  <2>1. /\ conn' = [conn EXCEPT ![c] = "reply"] /\ message' = message
        /\ c \notin pending' /\ pending' \subseteq pending
    BY <1>9 DEF Answered, TimedOut, Goto
  <2> QED BY <1>0, <2>1, OthersStay DEF Places
<1>10. CASE UNCHANGED serverVars
  BY <1>10 DEF serverVars, ServerTypeOK, ListedIsWaiting, PendingBounded, PendingOf
<1> QED BY <1>1, <1>2, <1>3, <1>4, <1>5, <1>6, <1>7, <1>8, <1>9, <1>10 DEF ServerNext, Step

LEMMA ServerInvInit == ASSUME ServerInit PROVE ServerInv
<1>1. ServerTypeOK /\ ListedIsWaiting
  BY DEF ServerInit, ServerTypeOK, ListedIsWaiting, Places
<1>2. \A a \in Agents : PendingOf(a) = {}
  BY DEF ServerInit, PendingOf
<1>3. Cardinality({}) = 0 /\ 0 <= MaxPending
  BY FS_EmptySet, ServerAssumption
<1>4. PendingBounded
  BY <1>2, <1>3 DEF PendingBounded
<1> QED BY <1>1, <1>4 DEF ServerInv

\* Requests listed for an agent can be numbered up to its limit, and the
\* numbers tell the requests of an agent apart.
LEMMA Numbering ==
    ASSUME ServerInv, NEW a \in Agents
    PROVE  \E f \in [PendingOf(a) -> 1 .. MaxPending] :
               \A x, y \in PendingOf(a) : f[x] = f[y] => x = y
<1> USE DEF ServerInv
<1> DEFINE n == Cardinality(PendingOf(a))
<1>1. IsFiniteSet(PendingOf(a))
  <2>1. PendingOf(a) \subseteq Clients
    BY DEF PendingOf, ServerTypeOK
  <2> QED BY <2>1, FS_Subset, ServerAssumption
<1>2. n \in Nat /\ ExistsBijection(1 .. n, PendingOf(a))
  BY <1>1, FS_CardinalityType
<1>3. n <= MaxPending /\ MaxPending \in Nat
  BY ServerAssumption DEF PendingBounded
<1>4. ExistsBijection(PendingOf(a), 1 .. n)
  BY <1>2, Fun_ExistsBijSymmetric
<1>5. PICK f : f \in Bijection(PendingOf(a), 1 .. n)
  BY <1>4 DEF ExistsBijection
<1>6. f \in [PendingOf(a) -> 1 .. n] /\ \A x, y \in PendingOf(a) : f[x] = f[y] => x = y
  BY <1>5 DEF Bijection, Injection, IsInjective
<1>7. 1 .. n \subseteq 1 .. MaxPending
  BY <1>2, <1>3
<1>8. f \in [PendingOf(a) -> 1 .. MaxPending]
  BY <1>6, <1>7
<1> QED BY <1>6, <1>8

\* All lists together are no longer than the limits of the agents add up to.
LEMMA ListedInAll ==
    ASSUME ServerInv
    PROVE  IsFiniteSet(pending) /\ Cardinality(pending) <= Cardinality(Agents) * MaxPending
<1> DEFINE S == Agents \X (1 .. MaxPending)
           number == [a \in Agents |->
                         CHOOSE f \in [PendingOf(a) -> 1 .. MaxPending] :
                             \A x, y \in PendingOf(a) : f[x] = f[y] => x = y]
           seat == [c \in pending |-> <<message[c].agent, number[message[c].agent][c]>>]
<1>1. \A a \in Agents : /\ number[a] \in [PendingOf(a) -> 1 .. MaxPending]
                        /\ \A x, y \in PendingOf(a) : number[a][x] = number[a][y] => x = y
  BY Numbering
<1> HIDE DEF number
<1>2. \A c \in pending : message[c].agent \in Agents /\ c \in PendingOf(message[c].agent)
  BY DEF ServerInv, ListedIsWaiting, PendingOf
<1>3. seat \in [pending -> S]
  BY <1>1, <1>2
<1>4. \A x, y \in pending : seat[x] = seat[y] => x = y
  BY <1>1, <1>2
<1> HIDE DEF seat
<1>5. seat \in Injection(pending, S)
  BY <1>3, <1>4, Fun_IsInj
<1>6. IsFiniteSet(1 .. MaxPending) /\ Cardinality(1 .. MaxPending) = MaxPending
  <2>1. MaxPending \in Int /\ 1 \in Int
    BY ServerAssumption
  <2>2. IsFiniteSet(1 .. MaxPending)
         /\ Cardinality(1 .. MaxPending) = IF 1 > MaxPending THEN 0 ELSE MaxPending - 1 + 1
    BY <2>1, FS_Interval
  <2> QED BY <2>2, ServerAssumption
<1>7. IsFiniteSet(S) /\ Cardinality(S) = Cardinality(Agents) * Cardinality(1 .. MaxPending)
  BY <1>6, FS_Product, ServerAssumption
<1> HIDE DEF S
<1>8. IsFiniteSet(pending) /\ Cardinality(pending) <= Cardinality(S)
  BY <1>5, <1>7, FS_Injection
<1> QED BY <1>6, <1>7, <1>8

\* PendingBounded, for every number of clients and agents and every limit: the check of
\* max_pending_per_agent holds against any requests, decisions and timeouts.
THEOREM ListsAreBounded == ServerSpec => []PendingBounded
<1>1. ServerInv => PendingBounded
  BY DEF ServerInv
<1> QED BY <1>1, ServerInvInit, ServerInvStep, PTL DEF ServerSpec

\* RoomForDecisions, for every number of agents, limit and number of
\* connections: if the limits of the agents add up to less than
\* MAX_IPC_CONNECTIONS, waiting requests leave a slot for a decision.
THEOREM DecisionsFindRoom == ServerSpec => []RoomForDecisions
<1>1. ServerInv => RoomForDecisions
  <2> SUFFICES ASSUME ServerInv, Cardinality(Agents) * MaxPending < MaxConnections
               PROVE  Cardinality(Waiting \cap pending) < MaxConnections
    BY DEF RoomForDecisions
  <2>1. IsFiniteSet(pending) /\ Cardinality(pending) <= Cardinality(Agents) * MaxPending
    BY ListedInAll
  <2>2. /\ IsFiniteSet(Waiting \cap pending)
        /\ Cardinality(Waiting \cap pending) <= Cardinality(pending)
    BY <2>1, FS_Subset
  <2>3. /\ Cardinality(Waiting \cap pending) \in Nat /\ Cardinality(pending) \in Nat
        /\ Cardinality(Agents) \in Nat
    BY <2>1, <2>2, FS_CardinalityType, ServerAssumption
  <2>4. Cardinality(Agents) * MaxPending \in Nat
    BY <2>3, ServerAssumption
  <2> QED BY <2>1, <2>2, <2>3, <2>4, ServerAssumption
<1> QED BY <1>1, ServerInvInit, ServerInvStep, PTL DEF ServerSpec
=============================================================================
