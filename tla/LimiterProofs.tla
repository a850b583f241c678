--------------------------- MODULE LimiterProofs ---------------------------
(***************************************************************************)
(* The methods of AgentRateLimit, for any limits and periods: each gives a *)
(* limiter, and the cooldown is capped.  What uses a limiter, the request  *)
(* stream and the permission workflow, is proved from these lemmas.        *)
(***************************************************************************)
EXTENDS RateLimit, TLAPS

\* A smaller of two numbers is a number, and is below both.
LEMMA LeastFacts ==
    ASSUME NEW m \in Nat, NEW n \in Nat
    PROVE  /\ Least(m, n) \in Nat
           /\ Least(m, n) <= m /\ Least(m, n) <= n
           /\ Least(m, n) = m \/ Least(m, n) = n
BY DEF Least

\* The shift of the cooldown is a number.
LEMMA ShiftIsNat == ASSUME NEW k \in 0 .. 8 PROVE 2 ^ k \in Nat
<1>1. k = 0 \/ k = 1 \/ k = 2 \/ k = 3 \/ k = 4 \/ k = 5 \/ k = 6 \/ k = 7 \/ k = 8
  OBVIOUS
<1>2. 2 ^ 0 \in Nat /\ 2 ^ 1 \in Nat /\ 2 ^ 2 \in Nat /\ 2 ^ 3 \in Nat /\ 2 ^ 4 \in Nat
  OBVIOUS
<1>3. 2 ^ 5 \in Nat /\ 2 ^ 6 \in Nat /\ 2 ^ 7 \in Nat /\ 2 ^ 8 \in Nat
  OBVIOUS
<1> QED BY <1>1, <1>2, <1>3, Zenon

\* However many denials in a row, the cooldown is capped.
LEMMA CooldownCapped ==
    ASSUME NEW n \in Nat
    PROVE  Cooldown(n) \in Nat /\ Cooldown(n) <= MaxCooldown
<1>1. CASE n = 0
  BY <1>1, LimitsAssumption DEF Cooldown
<1>2. CASE n # 0
  <2>1. n - 1 \in Nat
    BY <1>2
  <2> DEFINE k == Least(n - 1, 8)
  <2>2. k \in 0 .. 8
    BY <2>1 DEF Least
  <2>3. 2 ^ k \in Nat
    BY <2>2, ShiftIsNat
  <2> DEFINE x == DenyCooldown * 2 ^ k
  <2>4. x \in Nat
    <3> HIDE DEF k
    <3> QED BY <2>3, LimitsAssumption
  <2>5. Cooldown(n) = Least(x, MaxCooldown)
    BY <1>2 DEF Cooldown
  <2> HIDE DEF x
  <2> QED BY <2>4, <2>5, LeastFacts, LimitsAssumption
<1> QED BY <1>1, <1>2

-----------------------------------------------------------------------------
(* The type of the limiter.                                                *)

\* Each method of AgentRateLimit gives a limiter.
LEMMA LimiterFields ==
    ASSUME NEW m \in Limiter
    PROVE  /\ m.minuteCount \in Nat /\ m.hourCount \in Nat /\ m.denials \in Nat
           /\ m.minuteAge \in 0 .. Minute /\ m.hourAge \in 0 .. Hour
           /\ m.denialAge \in 0 .. MaxCooldown
           /\ m.deniedAge \in [Resources -> 0 .. ResourceCooldown]
BY DEF Limiter

LEMMA RefreshedType == ASSUME NEW m \in Limiter PROVE Refreshed(m) \in Limiter
<1> DEFINE mc == IF m.minuteAge >= Minute THEN 0 ELSE m.minuteCount
           ma == IF m.minuteAge >= Minute THEN 0 ELSE m.minuteAge
           hc == IF m.hourAge >= Hour THEN 0 ELSE m.hourCount
           ha == IF m.hourAge >= Hour THEN 0 ELSE m.hourAge
<1>1. mc \in Nat /\ ma \in 0 .. Minute
  BY LimiterFields, LimitsAssumption
<1>2. hc \in Nat /\ ha \in 0 .. Hour
  BY LimiterFields, LimitsAssumption
<1>3. Refreshed(m) = [m EXCEPT !.minuteCount = mc, !.minuteAge = ma,
                               !.hourCount = hc, !.hourAge = ha]
  BY DEF Refreshed
<1> HIDE DEF mc, ma, hc, ha
<1> QED BY <1>1, <1>2, <1>3, Zenon DEF Limiter

LEMMA RecordRequestType == ASSUME NEW m \in Limiter PROVE RecordRequest(m) \in Limiter
<1> DEFINE mc == m.minuteCount + 1
           hc == m.hourCount + 1
<1>1. mc \in Nat /\ hc \in Nat
  BY LimiterFields
<1>2. RecordRequest(m) = [m EXCEPT !.minuteCount = mc, !.hourCount = hc]
  BY DEF RecordRequest
<1> HIDE DEF mc, hc
<1> QED BY <1>1, <1>2, Zenon DEF Limiter

LEMMA RecordDenialType ==
    ASSUME NEW m \in Limiter, NEW r \in Resources
    PROVE  RecordDenial(m, r) \in Limiter
<1> DEFINE d == m.denials + 1
           f == [m.deniedAge EXCEPT ![r] = 0]
<1>1. d \in Nat /\ 0 \in 0 .. MaxCooldown
  BY LimiterFields, LimitsAssumption
<1>2. f \in [Resources -> 0 .. ResourceCooldown]
  BY LimiterFields, LimitsAssumption
<1>3. RecordDenial(m, r) = [m EXCEPT !.denials = d, !.denialAge = 0, !.deniedAge = f]
  BY DEF RecordDenial
<1> HIDE DEF d, f
<1> QED BY <1>1, <1>2, <1>3, Zenon DEF Limiter

LEMMA RecordApprovalType == ASSUME NEW m \in Limiter PROVE RecordApproval(m) \in Limiter
BY DEF RecordApproval, Limiter

LEMMA AgeLimiterType == ASSUME NEW m \in Limiter PROVE AgeLimiter(m) \in Limiter
<1> DEFINE ma == Least(m.minuteAge + 1, Minute)
           ha == Least(m.hourAge + 1, Hour)
           da == Least(m.denialAge + 1, MaxCooldown)
           f == [s \in Resources |-> Least(m.deniedAge[s] + 1, ResourceCooldown)]
<1>1. ma \in 0 .. Minute /\ ha \in 0 .. Hour /\ da \in 0 .. MaxCooldown
  BY LimiterFields, LimitsAssumption DEF Least
<1>2. f \in [Resources -> 0 .. ResourceCooldown]
  BY LimiterFields, LimitsAssumption DEF Least
<1>3. AgeLimiter(m) = IF ~m.used THEN m
                      ELSE [m EXCEPT !.minuteAge = ma, !.hourAge = ha, !.denialAge = da,
                                     !.deniedAge = f]
  BY DEF AgeLimiter
<1> HIDE DEF ma, ha, da, f
<1>4. [m EXCEPT !.minuteAge = ma, !.hourAge = ha, !.denialAge = da, !.deniedAge = f] \in Limiter
  BY <1>1, <1>2, Zenon DEF Limiter
<1> QED BY <1>3, <1>4

\* A new limiter is one, and so is the entry made of it.
LEMMA NewLimiterType == NewLimiter \in Limiter
BY LimitsAssumption DEF NewLimiter, Limiter

LEMMA EntryType == ASSUME NEW m \in Limiter PROVE EntryOf(m) \in Limiter
BY DEF EntryOf, Limiter
=============================================================================
