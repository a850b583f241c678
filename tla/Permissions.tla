---------------------------- MODULE Permissions ----------------------------
(***************************************************************************)
(* The permission request workflow of the daemon: an agent asks for a      *)
(* resource over the IPC socket, a person approves or denies it from the   *)
(* dashboard or from guardian-ctl, or the request times out.               *)
(*                                                                         *)
(* handle_request_permission holds the IpcState mutex twice: once to vet   *)
(* and queue the request, and, after waiting on a oneshot channel with a   *)
(* timeout, once more to settle it.  Between the two every other handler   *)
(* may run: approvals and denials (resolve_permission), other requests,    *)
(* grants, the cleanup task, changes of configuration, a restart.          *)
(*                                                                         *)
(* The module composes the rate limiter (RateLimit), the risk levels that  *)
(* set the timeout (Risk) and the grants an approval creates (TempGrants). *)
(***************************************************************************)
EXTENDS TempGrants, RateLimit, Risk, TLC

CONSTANTS
    Tasks,           \* request_permission calls, one connection each
    MaxPending,      \* max_pending_per_agent
    MaxHistory,      \* MAX_RESOLVED_HISTORY
    MaxGrantTotal,   \* max_grant_total_secs, in ticks
    Day,             \* the accumulator's window of 86400 seconds, in ticks
    AutoDeny,        \* paths matched by an auto_deny rule
    AutoApprove,     \* paths matched by an auto_approve rule
    ClassOf,         \* [Paths -> PathClasses]
    RiskyExecs,      \* commands on the list of risky executables
    Justifications,  \* suspicion scores of the justifications agents give
    Timeout,         \* [RiskLevels -> ticks]
    MaxBoots         \* bound on daemon starts (model only)

ASSUME PermAssumption ==
    /\ Resources = Paths
    /\ Agents # {} /\ Paths # {}
    /\ IsFiniteSet(Tasks)
    /\ MaxPending \in Nat /\ MaxHistory \in Nat /\ MaxGrantTotal \in Nat
    /\ Day \in Nat \ {0} /\ MaxBoots \in Nat
    /\ AutoDeny \subseteq Paths /\ AutoApprove \subseteq Paths
    /\ ClassOf \in [Paths -> PathClasses]
    /\ RiskyExecs \subseteq ExecPaths
    /\ Justifications \subseteq Nat
    /\ Timeout \in [RiskLevels -> Nat]

VARIABLES
    boot,       \* how many times the daemon was started (history)
    dashboard,  \* permission_bus and event_db are Some
    task,       \* the state of each handler
    chan,       \* the oneshot channel of each queued request
    pending,    \* pending_permissions: the tasks whose request is listed
    nextId,     \* next_permission_id
    resolved,   \* resolved_permissions, oldest first
    audit,      \* rows handed to the permission_audit table of the database
    limit,      \* rate_limits
    accum       \* grant_accumulator, by agent and resource

permVars == <<boot, dashboard, task, chan, pending, nextId, resolved, audit, limit, accum>>

vars == <<boot, dashboard, task, chan, pending, nextId, resolved, audit, limit, accum,
          grantVars>>

\* pc: "idle", "waiting" on the channel, "late" between the timer and the
\* lock, "done".  left: ticks until the timer fires.  reply: what the agent
\* was told.
TaskRecord ==
    [pc    : {"idle", "waiting", "late", "done"},
     agent : Agents,
     path  : Paths,
     id    : Nat,
     left  : Nat,
     reply : {"none", "error", "refused", "autodenied", "autoapproved", "limited",
              "approved", "denied", "timeout", "lost"}]

IdleTask ==
    [pc |-> "idle", agent |-> CHOOSE a \in Agents : TRUE, path |-> CHOOSE p \in Paths : TRUE,
     id |-> 0, left |-> 0, reply |-> "none"]

\* An entry of the audit table or of the history; `human` tells the entries
\* of queued requests from the ones answered on the spot.
Entry == [boot : Nat, id : Nat, agent : Agents, path : Paths, approved : BOOLEAN, human : BOOLEAN]

\* The entries of the accumulator for an agent and a resource, by the total
\* of their seconds: at n < Day of the ones at most n ticks old, at Day of
\* all that are not yet pruned.  `granted` is the part that was approved,
\* which the code does not keep (history).
Seconds == [0 .. Day -> Nat]

Account == [asked : Seconds, granted : Seconds]

NoSeconds == [n \in 0 .. Day |-> 0]

PermTypeOK ==
    /\ GrantTypeOK
    /\ boot \in Nat
    /\ dashboard \in BOOLEAN
    /\ task \in [Tasks -> TaskRecord]
    /\ chan \in [Tasks -> {"empty", "approved", "denied"}]
    /\ pending \subseteq Tasks
    /\ nextId \in Nat
    /\ resolved \in Seq(Entry)
    /\ audit \in Seq(Entry)
    /\ limit \in [Agents -> Limiter]
    /\ accum \in [Agents \X Paths -> Account]

PermInit ==
    /\ GrantInit
    /\ boot = 1
    /\ dashboard \in BOOLEAN
    /\ task = [t \in Tasks |-> IdleTask]
    /\ chan = [t \in Tasks |-> "empty"]
    /\ pending = {}
    /\ nextId = 1
    /\ resolved = <<>>
    /\ audit = <<>>
    /\ limit = [a \in Agents |-> NewLimiter]
    /\ accum = [x \in Agents \X Paths |-> [asked |-> NoSeconds, granted |-> NoSeconds]]

-----------------------------------------------------------------------------
(* The first critical section of handle_request_permission.                *)

PendingOf(a) == {t \in pending : task[t].agent = a}

TooManyPending(a) == Cardinality(PendingOf(a)) >= MaxPending

Idle(t) == task[t].pc = "idle"

Answer(t, a, p, what) ==
    task' = [task EXCEPT ![t] = [IdleTask EXCEPT !.pc = "done", !.agent = a, !.path = p,
                                                 !.reply = what]]

EntryFor(i, a, p, ok, byHuman) ==
    [boot |-> boot, id |-> i, agent |-> a, path |-> p, approved |-> ok, human |-> byHuman]

\* An audit row under the next id, for a request that is never queued
AuditAtOnce(a, p, ok) ==
    /\ audit' = Append(audit, EntryFor(nextId, a, p, ok, FALSE))
    /\ nextId' = nextId + 1

\* Unknown agent; no dashboard to ask; too many requests of the agent
\* already pending.  Nothing is recorded.
Refuse(t, a, p) ==
    /\ Idle(t)
    /\ \/ ~AgentExists(a) /\ Answer(t, a, p, "error")
       \/ /\ AgentExists(a)
          /\ ~dashboard \/ TooManyPending(a)
          /\ Answer(t, a, p, "refused")
    /\ UNCHANGED <<grantVars, boot, dashboard, chan, pending, nextId, resolved, audit,
                   limit, accum>>

Admitted(t, a) == Idle(t) /\ AgentExists(a) /\ dashboard /\ ~TooManyPending(a)

AutoDenied(t, a, p) ==
    /\ Admitted(t, a)
    /\ p \in AutoDeny
    /\ limit' = [limit EXCEPT ![a] = RecordDenial(RecordRequest(EntryOf(@)), p)]
    /\ AuditAtOnce(a, p, FALSE)
    /\ Answer(t, a, p, "autodenied")
    /\ UNCHANGED <<grantVars, boot, dashboard, chan, pending, resolved, accum>>

\* The reply carries a duration, but no grant is created.
AutoApproved(t, a, p) ==
    /\ Admitted(t, a)
    /\ p \in AutoApprove \ AutoDeny
    /\ limit' = [limit EXCEPT ![a] = RecordApproval(RecordRequest(EntryOf(@)))]
    /\ AuditAtOnce(a, p, TRUE)
    /\ Answer(t, a, p, "autoapproved")
    /\ UNCHANGED <<grantVars, boot, dashboard, chan, pending, resolved, accum>>

NeedsDecision(t, a, p) == Admitted(t, a) /\ p \notin AutoDeny \cup AutoApprove

RateLimited(t, a, p) ==
    /\ NeedsDecision(t, a, p)
    /\ LET l == Refreshed(EntryOf(limit[a])) IN
           /\ Blocked(l, p)
           /\ limit' = [limit EXCEPT ![a] = l]
    /\ AuditAtOnce(a, p, FALSE)
    /\ Answer(t, a, p, "limited")
    /\ UNCHANGED <<grantVars, boot, dashboard, chan, pending, resolved, accum>>

\* classify_risk sees the limiter before this request is recorded in it.
TimeoutFor(l, p, j) ==
    Timeout[RiskOf(ClassOf[p], p \in ExecPaths, p \in RiskyExecs, l.denials, l.hourCount, j)]

Enqueue(t, a, p, j) ==
    /\ NeedsDecision(t, a, p)
    /\ LET l == Refreshed(EntryOf(limit[a])) IN
           /\ ~Blocked(l, p)
           /\ limit' = [limit EXCEPT ![a] = RecordRequest(l)]
           /\ task' = [task EXCEPT ![t] = [pc |-> "waiting", agent |-> a, path |-> p,
                                           id |-> nextId, left |-> TimeoutFor(l, p, j),
                                           reply |-> "none"]]
    /\ nextId' = nextId + 1
    /\ pending' = pending \cup {t}
    /\ UNCHANGED <<grantVars, boot, dashboard, chan, resolved, audit, accum>>

-----------------------------------------------------------------------------
(* resolve_permission.                                                     *)

\* Mutant: the oldest entry is dropped one too early
TrimmedShort(s) ==
    IF Len(s) >= MaxHistory THEN SubSeq(s, 2, Len(s)) ELSE s

\* push_back, then pop_front while the history is too long
Trimmed(s) ==
    IF Len(s) > MaxHistory THEN SubSeq(s, Len(s) - MaxHistory + 1, Len(s)) ELSE s

Record(t, ok) ==
    LET e == EntryFor(task[t].id, task[t].agent, task[t].path, ok, TRUE) IN
        /\ resolved' = Trimmed(Append(resolved, e))
        /\ audit' = Append(audit, e)

\* retain: entries of a day and more are pruned
Recent(f) == [n \in 0 .. Day |-> f[Least(n, Day - 1)]]

Plus(f, d) == [n \in 0 .. Day |-> f[n] + d]

\* A tick later; what is a day old stays until it is pruned.
Aged(f) == [n \in 0 .. Day |-> IF n = Day THEN f[Day] ELSE IF n = 0 THEN 0 ELSE f[n - 1]]

\* Mutant: only the new grant is compared with the limit
WithinTotalAlone(a, p, d) == d <= MaxGrantTotal

\* record_and_check: the seconds asked for count even if they are refused.
WithinTotal(a, p, d) == accum[<<a, p>>].asked[Day - 1] + d <= MaxGrantTotal

Accumulate(a, p, d, ok) ==
    accum' = [accum EXCEPT ![<<a, p>>] =
                 [asked   |-> Plus(Recent(@.asked), d),
                  granted |-> Plus(Recent(@.granted), IF ok THEN d ELSE 0)]]

\* Mutant: the decision is broadcast to every handler that waits
SendToAll(t, what) ==
    chan' = [s \in Tasks |-> IF task[s].pc = "waiting" THEN what ELSE chan[s]]

\* The decision reaches the handler only while it waits on the channel; a
\* send to a handler whose timer has fired is lost.
Send(t, what) ==
    chan' = IF task[t].pc = "waiting" THEN [chan EXCEPT ![t] = what] ELSE chan

\* An approval within the total: the grant is installed
Approve(t, d) ==
    LET a == task[t].agent
        p == task[t].path
    IN  /\ t \in pending
        /\ WithinTotal(a, p, d)
        /\ pending' = pending \ {t}
        /\ Accumulate(a, p, d, TRUE)
        /\ Send(t, "approved")
        /\ InstallGrant(a, p, d)
        /\ limit' = [limit EXCEPT ![a] = RecordApproval(EntryOf(@))]
        /\ Record(t, TRUE)
        /\ UNCHANGED <<enforceMode, registered, fileVars, boot, dashboard, task, nextId>>

\* An approval beyond the total is turned into a denial
ApproveOverridden(t, d) ==
    LET a == task[t].agent
        p == task[t].path
    IN  /\ t \in pending
        /\ ~WithinTotal(a, p, d)
        /\ pending' = pending \ {t}
        /\ Accumulate(a, p, d, FALSE)
        /\ Send(t, "denied")
        /\ limit' = [limit EXCEPT ![a] = RecordDenial(EntryOf(@), p)]
        /\ Record(t, FALSE)
        /\ UNCHANGED <<grantVars, boot, dashboard, task, nextId>>

Deny(t) ==
    LET a == task[t].agent
        p == task[t].path
    IN  /\ t \in pending
        /\ pending' = pending \ {t}
        /\ Send(t, "denied")
        /\ limit' = [limit EXCEPT ![a] = RecordDenial(EntryOf(@), p)]
        /\ Record(t, FALSE)
        /\ UNCHANGED <<grantVars, boot, dashboard, task, nextId, accum>>

-----------------------------------------------------------------------------
(* The second half of handle_request_permission.                           *)

Done(t, what) == task' = [task EXCEPT ![t].pc = "done", ![t].reply = what]

\* tokio polls the channel before the timer, so the timer wins only while
\* the channel is empty.
TimerDue(t) == task[t].pc = "waiting" /\ task[t].left = 0 /\ chan[t] = "empty"

TimerFires(t) ==
    /\ TimerDue(t)
    /\ task' = [task EXCEPT ![t].pc = "late"]
    /\ UNCHANGED <<grantVars, boot, dashboard, chan, pending, nextId, resolved, audit,
                   limit, accum>>

\* The decision is received; the limiter records it, once more.
Answered(t) ==
    LET a == task[t].agent
        p == task[t].path
    IN  /\ task[t].pc = "waiting"
        /\ chan[t] # "empty"
        /\ limit' = [limit EXCEPT ![a] = IF chan[t] = "approved"
                                         THEN RecordApproval(EntryOf(@))
                                         ELSE RecordDenial(EntryOf(@), p)]
        /\ Done(t, chan[t])
        /\ UNCHANGED <<grantVars, boot, dashboard, chan, pending, nextId, resolved, audit, accum>>

\* Mutant: the timed-out request is left on the list
NotRemoved(t) == pending

Removed(t) == pending \ {t}

\* Mutant: a timeout is recorded without looking for the request
ListedAlways(t) == TRUE

Listed(t) == t \in pending

\* The timed-out handler has the lock: if nobody resolved the request in
\* the meantime it is removed and recorded; the agent is told no either way.
TimedOut(t) ==
    LET a == task[t].agent
        p == task[t].path
    IN  /\ task[t].pc = "late"
        /\ limit' = [limit EXCEPT ![a] = RecordDenial(EntryOf(@), p)]
        /\ IF Listed(t) THEN Record(t, FALSE) ELSE UNCHANGED <<resolved, audit>>
        /\ pending' = Removed(t)
        /\ Done(t, "timeout")
        /\ UNCHANGED <<grantVars, boot, dashboard, chan, nextId, accum>>

-----------------------------------------------------------------------------

\* The hourly cleanup of the accumulator
CleanupAccumulator ==
    /\ accum' = [x \in DOMAIN accum |-> [asked   |-> Recent(accum[x].asked),
                                        granted |-> Recent(accum[x].granted)]]
    /\ UNCHANGED <<grantVars, boot, dashboard, task, chan, pending, nextId, resolved, audit,
                   limit>>

\* The daemon is stopped and started: connections break, memory is lost,
\* ids start again at 1, the audit table stays.
Restart ==
    /\ boot < MaxBoots
    /\ boot' = boot + 1
    /\ dashboard' \in BOOLEAN
    /\ task' = [t \in Tasks |-> IF task[t].pc \in {"waiting", "late"}
                                THEN [task[t] EXCEPT !.pc = "done", !.reply = "lost"]
                                ELSE task[t]]
    /\ chan' = [t \in Tasks |-> "empty"]
    /\ pending' = {}
    /\ nextId' = 1
    /\ resolved' = <<>>
    /\ limit' = [a \in Agents |-> NewLimiter]
    /\ accum' = [x \in DOMAIN accum |-> [asked |-> NoSeconds, granted |-> NoSeconds]]
    /\ RestartGrants
    /\ UNCHANGED audit

\* Mutant: the timer is armed anew each time the handler is polled
AgeTaskRearmed(r) == r

\* Mutant: the time left is not kept from going below zero
AgeTaskBelowZero(r) == [r EXCEPT !.left = @ - 1]

AgeTask(r) == [r EXCEPT !.left = IF @ = 0 THEN 0 ELSE @ - 1]

Tick ==
    /\ TickGrants
    /\ task' = [t \in Tasks |-> AgeTask(task[t])]
    /\ limit' = [a \in Agents |-> AgeLimiter(limit[a])]
    /\ accum' = [x \in DOMAIN accum |-> [asked   |-> Aged(accum[x].asked),
                                        granted |-> Aged(accum[x].granted)]]
    /\ UNCHANGED <<boot, dashboard, chan, pending, nextId, resolved, audit>>

PermNext ==
    \/ \E t \in Tasks, a \in Agents, p \in Paths : Refuse(t, a, p)
    \/ \E t \in Tasks, a \in Agents, p \in Paths : AutoDenied(t, a, p)
    \/ \E t \in Tasks, a \in Agents, p \in Paths : AutoApproved(t, a, p)
    \/ \E t \in Tasks, a \in Agents, p \in Paths : RateLimited(t, a, p)
    \/ \E t \in Tasks, a \in Agents, p \in Paths, j \in Justifications : Enqueue(t, a, p, j)
    \/ \E t \in Tasks, d \in Durations : Approve(t, d)
    \/ \E t \in Tasks, d \in Durations : ApproveOverridden(t, d)
    \/ \E t \in Tasks : Deny(t)
    \/ \E t \in Tasks : TimerFires(t)
    \/ \E t \in Tasks : Answered(t)
    \/ \E t \in Tasks : TimedOut(t)
    \/ CleanupAccumulator
    \/ GrantStep /\ UNCHANGED permVars
    \/ Restart
    \/ Tick

\* The clock advances, the runtime polls a handler that can go on and the
\* mutex is fair.  Nothing is assumed of people, agents or restarts.
PermSpec ==
    /\ PermInit
    /\ [][PermNext]_vars
    /\ WF_vars(Tick)
    /\ \A t \in Tasks : WF_vars(TimerFires(t)) /\ WF_vars(Answered(t)) /\ WF_vars(TimedOut(t))

-----------------------------------------------------------------------------
(* What the workflow guarantees.                                           *)

\* No request is orphaned in the gap between the two critical sections: a
\* listed request always has a handler that will still settle it, and a
\* handler that waits has either its request on the list, where a person
\* can find it, or a decision in its channel.
NoOrphans ==
    \A t \in Tasks :
        /\ t \in pending => task[t].pc \in {"waiting", "late"}
        /\ task[t].pc = "waiting" => (t \in pending <=> chan[t] = "empty")

\* max_pending_per_agent holds for every agent however requests, timeouts
\* and decisions interleave.
PendingBounded == \A a \in Agents : Cardinality(PendingOf(a)) <= MaxPending

\* One life of the daemon settles a request id at most once: a decision, a
\* late decision and the timeout never both write the audit trail.
SettledOnce ==
    \A i, j \in DOMAIN audit :
        audit[i].boot = audit[j].boot /\ audit[i].id = audit[j].id => i = j

\* A row of the audit trail that a person or a timer decided in this life of the daemon
Decision(j) == audit[j].human /\ audit[j].boot = boot

\* The history the dashboard shows is the newest MaxHistory decisions of
\* the audit trail, in order: `row` places each entry in the trail, and a
\* decision of this life of the daemon is missing only if the history is
\* full of later ones (resolve_permission and the timeout branch).
HistoryMatchesAudit ==
    /\ Len(resolved) <= MaxHistory
    /\ \E row \in [DOMAIN resolved -> DOMAIN audit] :
           /\ \A k, l \in DOMAIN resolved : k < l => row[k] < row[l]
           /\ \A k \in DOMAIN resolved : audit[row[k]] = resolved[k] /\ Decision(row[k])
           /\ \A j \in DOMAIN audit : Decision(j) =>
                  \/ \E k \in DOMAIN resolved : row[k] = j
                  \/ Len(resolved) = MaxHistory /\ \A k \in DOMAIN resolved : j < row[k]

\* What the agent is told after a decision is what the audit trail says of
\* its request: no other request's decision, and no override, is mixed up.
AnswerMatchesAudit ==
    \A t \in Tasks : task[t].reply \in {"approved", "denied"} =>
        \E i \in DOMAIN audit :
            /\ audit[i].id = task[t].id
            /\ audit[i].agent = task[t].agent
            /\ audit[i].path = task[t].path
            /\ audit[i].approved <=> task[t].reply = "approved"

\* The seconds approved for an agent and a resource within a day stay
\* within max_grant_total_secs.
BudgetRespected == \A x \in DOMAIN accum : accum[x].granted[Day - 1] <= MaxGrantTotal

\* How a queued request that is off the list was settled in this life of
\* the daemon: the channel says so, or, if the handler no longer listens,
\* the audit trail.
ApprovedInTrail(i) ==
    \E k \in DOMAIN audit : audit[k].boot = boot /\ audit[k].id = i /\ audit[k].approved

Settlement(t) ==
    IF task[t].pc = "waiting" THEN chan[t]
    ELSE IF ApprovedInTrail(task[t].id) THEN "approved" ELSE "denied"

StateOf(t) ==
    IF task[t].pc = "idle" THEN "new"
    ELSE IF task[t].pc = "done" THEN "closed"
    ELSE IF t \in pending THEN "open" ELSE Settlement(t)

AnswerOf(t) ==
    IF task[t].reply \in {"none", "lost"} THEN "none"
    ELSE IF task[t].reply \in {"approved", "autoapproved"} THEN "yes" ELSE "no"

LedgerState == [t \in Tasks |-> StateOf(t)]

LedgerAnswer == [t \in Tasks |-> AnswerOf(t)]

Ledger == INSTANCE RequestLedger
              WITH Requests <- Tasks, state <- LedgerState, answer <- LedgerAnswer

\* The workflow implements the ledger: with all its interleavings of two
\* critical sections, decisions, timeouts and restarts, each request is
\* settled once and answered once, yes only to a request that was approved.
ImplementsLedger == Ledger!LedgerSpec

\* Every request that is queued is answered, by a person or by the timeout.
EveryRequestAnswered ==
    \A t \in Tasks : task[t].pc = "waiting" ~> task[t].pc = "done"

-----------------------------------------------------------------------------
(* What the documentation says of it.                                      *)

\* docs/phase_6_implementation.md: a timeout is fail-secure, so a request
\* whose agent was told it timed out is not approved behind its back.
TimeoutIsFailSecure ==
    \A t \in Tasks : task[t].reply = "timeout" =>
        ~\E i \in DOMAIN audit : audit[i].id = task[t].id /\ audit[i].human /\ audit[i].approved

\* docs/phase_7_implementation.md: the cooldown is the one of the number of
\* requests denied.
CooldownMatchesDenials ==
    \A a \in Agents :
        Cooldown(limit[a].denials)
            <= Cooldown(Cardinality({i \in DOMAIN audit : audit[i].agent = a /\ ~audit[i].approved}))

\* docs/phase_7_implementation.md: auto-approved requests do not consume
\* the rate limit, so an agent that makes no others is never limited.
AutoApprovalIsFree ==
    \A t \in Tasks : task[t].reply = "limited" =>
        \E u \in Tasks : /\ task[u].agent = task[t].agent
                         /\ task[u].pc # "idle"
                         /\ task[u].reply \notin {"autoapproved", "limited"}

\* docs/phase_7_implementation.md: an auto-approved resource is granted.
AutoApprovalGrants ==
    [][\A t \in Tasks :
          task[t].reply = "none" /\ task'[t].reply = "autoapproved" =>
              \E g \in grants' : g.agent = task'[t].agent /\ g.path = task'[t].path]_vars
=============================================================================
