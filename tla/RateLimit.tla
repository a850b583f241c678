----------------------------- MODULE RateLimit -----------------------------
(***************************************************************************)
(* The per-agent rate limiter of permission requests: AgentRateLimit.      *)
(*                                                                         *)
(* A limiter is a record; each method of the code is an operator from the  *)
(* limiter before the call to the limiter after it.  An Instant is         *)
(* represented by its age in ticks, which stops growing once no comparison *)
(* of the code can tell it from an older one: `elapsed >= 60` is then      *)
(* minuteAge = Minute.  "Never" and "long ago" are the same for the code,  *)
(* so a denial that never happened has the greatest age.                   *)
(***************************************************************************)
EXTENDS Naturals

CONSTANTS
    Resources,         \* resource paths
    PerMinute,         \* rate_limit_per_minute
    PerHour,           \* rate_limit_per_hour
    DenyCooldown,      \* deny_cooldown_secs
    Minute,            \* 60 seconds, in ticks
    Hour,              \* 3600 seconds, in ticks
    ResourceCooldown,  \* 300 seconds, in ticks
    MaxCooldown        \* 600 seconds, in ticks

ASSUME LimitsAssumption ==
    /\ PerMinute \in Nat /\ PerHour \in Nat /\ DenyCooldown \in Nat
    /\ Minute \in Nat /\ Hour \in Nat
    /\ ResourceCooldown \in Nat /\ MaxCooldown \in Nat

\* `used` says that the agent has an entry in the rate_limits map.
Limiter ==
    [used        : BOOLEAN,
     minuteCount : Nat,
     hourCount   : Nat,
     minuteAge   : 0 .. Minute,
     hourAge     : 0 .. Hour,
     denials     : Nat,
     denialAge   : 0 .. MaxCooldown,
     deniedAge   : [Resources -> 0 .. ResourceCooldown]]

NewLimiter ==
    [used        |-> FALSE,
     minuteCount |-> 0,
     hourCount   |-> 0,
     minuteAge   |-> 0,
     hourAge     |-> 0,
     denials     |-> 0,
     denialAge   |-> MaxCooldown,
     deniedAge   |-> [r \in Resources |-> ResourceCooldown]]

\* entry(agent).or_insert_with(AgentRateLimit::new)
EntryOf(l) == [l EXCEPT !.used = TRUE]

\* The two fixed windows: each restarts at the first check after it is over.
Refreshed(l) ==
    [l EXCEPT !.minuteCount = IF l.minuteAge >= Minute THEN 0 ELSE @,
              !.minuteAge   = IF l.minuteAge >= Minute THEN 0 ELSE @,
              !.hourCount   = IF l.hourAge >= Hour THEN 0 ELSE @,
              !.hourAge     = IF l.hourAge >= Hour THEN 0 ELSE @]

Least(m, n) == IF m <= n THEN m ELSE n

\* Mutant: the result is not capped
CooldownUncapped(denials) == IF denials = 0 THEN 0 ELSE DenyCooldown * 2 ^ Least(denials - 1, 8)

\* deny_cooldown_secs * 2^(denials - 1), the shift and the result capped
Cooldown(denials) ==
    IF denials = 0 THEN 0
    ELSE Least(DenyCooldown * 2 ^ Least(denials - 1, 8), MaxCooldown)

\* Mutant: the limit is compared with > instead of >=
BlockedOffByOne(l, r) ==
    \/ l.minuteCount > PerMinute
    \/ l.hourCount > PerHour
    \/ l.denialAge < Cooldown(l.denials)
    \/ l.deniedAge[r] < ResourceCooldown

\* check(): the reasons to refuse, on a limiter whose windows are refreshed
Blocked(l, r) ==
    \/ l.minuteCount >= PerMinute
    \/ l.hourCount >= PerHour
    \/ l.denialAge < Cooldown(l.denials)
    \/ l.deniedAge[r] < ResourceCooldown

RecordRequest(l) == [l EXCEPT !.minuteCount = @ + 1, !.hourCount = @ + 1]

RecordDenial(l, r) ==
    [l EXCEPT !.denials = @ + 1, !.denialAge = 0, !.deniedAge[r] = 0]

RecordApproval(l) == [l EXCEPT !.denials = 0]

\* One tick of the clock, for an agent that has an entry
AgeLimiter(l) ==
    IF ~l.used THEN l
    ELSE [l EXCEPT !.minuteAge = Least(@ + 1, Minute),
                   !.hourAge   = Least(@ + 1, Hour),
                   !.denialAge = Least(@ + 1, MaxCooldown),
                   !.deniedAge = [r \in Resources |->
                                     Least(l.deniedAge[r] + 1, ResourceCooldown)]]
=============================================================================
