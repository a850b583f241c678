--------------------------- MODULE RequestStream ---------------------------
(***************************************************************************)
(* One agent's rate limiter driven by an endless stream of requests and    *)
(* decisions, in every order the handlers can produce.  Ages make the      *)
(* state finite without a time horizon.                                    *)
(*                                                                         *)
(* The history that classify_risk looks at is part of the limiter, so the  *)
(* same behaviours show what every request's risk would be as it grows.    *)
(***************************************************************************)
EXTENDS RateLimit, Risk

CONSTANTS
    MaxCount,    \* bound on the minute's counter (model only)
    MaxHourly,   \* bound on the hour's counter (model only)
    MaxDenials   \* bound on consecutive denials (model only)

ASSUME StreamAssumption == MaxCount \in Nat /\ MaxHourly \in Nat /\ MaxDenials \in Nat

VARIABLES
    l,      \* the limiter
    asked,  \* history: age of the last request that reached a person, of the
            \* one before it, and so on
    quiet   \* history: ticks since a request or a denial was last recorded

vars == <<l, asked, quiet>>

\* Ages of `asked` and of `quiet` stop growing here.
Span == Max2(Minute, Hour)
Longest == Max2(Span, Max2(MaxCooldown, ResourceCooldown))

Remembered == 2 * Max2(PerMinute, PerHour) + 1

TypeOK ==
    /\ l \in Limiter
    /\ asked \in [1 .. Remembered -> 0 .. Span]
    /\ quiet \in 0 .. Longest

Init ==
    /\ l = EntryOf(NewLimiter)
    /\ asked = [k \in 1 .. Remembered |-> Span]
    /\ quiet = 0

\* A request that needs a decision: checked, then queued
Ask(r) ==
    /\ ~Blocked(Refreshed(l), r)
    /\ l' = RecordRequest(Refreshed(l))
    /\ asked' = [k \in 1 .. Remembered |-> IF k = 1 THEN 0 ELSE asked[k - 1]]
    /\ quiet' = 0

\* The same, refused by the check, which refreshes the windows all the same
Limited(r) ==
    /\ Blocked(Refreshed(l), r)
    /\ l' = Refreshed(l)
    /\ UNCHANGED <<asked, quiet>>

\* A request for a path that is auto-denied or auto-approved is counted
\* without a check.
AskAutoDenied(r) ==
    /\ l.minuteCount < MaxCount /\ l.hourCount < MaxHourly /\ l.denials < MaxDenials
    /\ l' = RecordDenial(RecordRequest(l), r)
    /\ quiet' = 0
    /\ UNCHANGED asked

AskAutoApproved ==
    /\ l.minuteCount < MaxCount /\ l.hourCount < MaxHourly
    /\ l' = RecordApproval(RecordRequest(l))
    /\ quiet' = 0
    /\ UNCHANGED asked

\* Decisions and timeouts of requests queued at any earlier time
Denied(r) ==
    /\ l.denials < MaxDenials
    /\ l' = RecordDenial(l, r)
    /\ quiet' = 0
    /\ UNCHANGED asked

Approved ==
    /\ l' = RecordApproval(l)
    /\ UNCHANGED <<asked, quiet>>

Tick ==
    /\ l' = AgeLimiter(l)
    /\ asked' = [k \in 1 .. Remembered |-> Least(asked[k] + 1, Span)]
    /\ quiet' = Least(quiet + 1, Longest)

Next ==
    \/ \E r \in Resources : Ask(r)
    \/ \E r \in Resources : Limited(r)
    \/ \E r \in Resources : AskAutoDenied(r)
    \/ AskAutoApproved
    \/ \E r \in Resources : Denied(r)
    \/ Approved
    \/ Tick

Spec == Init /\ [][Next]_vars

-----------------------------------------------------------------------------

\* The windows of check() are fixed, not sliding, and a refused check may
\* restart one: still, in any minute people see at most twice
\* rate_limit_per_minute requests of an agent, and in any hour at most twice
\* rate_limit_per_hour: the one before these is older.
BurstBounded ==
    /\ asked[2 * PerMinute + 1] >= Minute
    /\ asked[2 * PerHour + 1] >= Hour

\* No lockout is permanent: whatever requests and denials led here, an agent
\* of which nothing is recorded for the longest of the periods may ask for
\* anything again, even if it has tried all the while and was refused.
LockoutEnds ==
    PerMinute > 0 /\ PerHour > 0 /\ quiet >= Longest
        => \A r \in Resources : ~Blocked(Refreshed(l), r)

-----------------------------------------------------------------------------
(* Risk.                                                                   *)

\* Suspicion scores of each step of the bump
Scores == {0, 3, 8}

\* Every sort of request; only a program can be a risky one
Asked == {q \in [class : PathClasses, exec : BOOLEAN, risky : BOOLEAN] : q.risky => q.exec}

\* A history: consecutive denials and requests within the hour
Histories == (0 .. MaxDenials) \X (0 .. MaxHourly)

History == <<l.denials, l.hourCount>>

Level(q, h, j) == RiskIndex(q.class, q.exec, q.risky, h[1], h[2], j)

Grows(g, h) == g[1] <= h[1] /\ g[2] <= h[2]

\* The pairs of histories between which a request's level falls, whatever
\* justifications are given
Falling ==
    {x \in {<<g, h>> : g, h \in Histories} :
        /\ Grows(x[1], x[2])
        /\ \E q \in Asked, i, j \in Scores : i <= j /\ Level(q, x[1], i) > Level(q, x[2], j)}

\* A denial, another request within the hour and a more suspicious
\* justification never lower the risk level of a request, in spite of the
\* integer division and of the ceiling of 100 that may sit below an exec
\* score of 135.
RiskIsMonotone == [][<<History, History'>> \notin Falling]_l
=============================================================================
