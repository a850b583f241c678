# Guardian Shell: a verification project

Guardian Shell watches AI agents and enforces policies on them. An eBPF program judges what an
agent's processes do, a daemon (`guardian`) loads the policies, answers permission requests,
hands out temporary grants and serves a dashboard, a launcher (`guardian-launch`) starts agents
in cgroups, and a command line tool (`guardian-ctl`) talks to the daemon. This directory holds
TLA+ models of the parts that keep state and interact, the TLC runs that check them on small
instances, and TLAPS proofs of the central invariants for every value of the constants.

Paths below are relative to `src/`. `PROJECT.json` maps every definition to the lines it stands
for and lists the hazards the properties are aimed at.

## 1. Inventory

| Part | State | Operations | Model |
|---|---|---|---|
| Permission requests (`guardian/src/ipc.rs`, `permissions.rs`) | `pending_permissions`, `resolved_permissions`, `next_permission_id`, `rate_limits`, `grant_accumulator`, one oneshot channel per request, the audit table | `handle_request_permission`, `resolve_permission`, timeout | `Permissions` |
| Rate limiter (`permissions.rs`) | two windows, consecutive denials, last denial per resource | `check`, `record_request`, `record_denial`, `record_approval` | `RateLimit` |
| Risk classification (`permissions.rs`) | none | `classify_risk`, justification score | `Risk` |
| Temporary grants (`ipc.rs`, `dashboard/routes/api.rs`) | `grants`, the kernel's allow maps, exec rules in the configuration | `handle_grant_access`, `grant_access`, approval, expiry sweep | `TempGrants` |
| Configuration store (`api.rs`, `config.rs`, `ipc.rs`, `main.rs`) | `IpcState.config`, `config.toml` | create, delete, register, update policy, update alerts, exec grants and expiry, reload, start | `ConfigStore` |
| Kernel hooks (`guardian-ebpf/src/main.rs`) | rule maps, `PENDING_*_DENY` maps, per-CPU overflow slots, the scratch buffer | ten traced calls, six LSM hooks | `KernelHooks` |
| Agent registry and launcher (`ipc.rs`, `api.rs`, `guardian-launch/src/main.rs`) | `IpcState.agents`, the cgroup maps, cgroup directories | register, stop, delete, cleanup sweep, launch | `AgentRegistry` |
| Process identity by comm and pid (`guardian-ebpf`, `main.rs`) | `WATCHED_COMMS`, `WATCHED_TGIDS`, `ENFORCE_TGIDS`, `CHILD_PIDS` | fork, exit, `/proc` rescan, start | `ProcessTracking` |
| Policy evaluation in userspace, event processing (`config.rs`, `main.rs`) | a copy of the configuration per reader, `comm_cache` | `process_*_event`, `check_*_policy`, `normalize_path`, and their counterparts in the kernel | `PolicyEval` |
| Alerting (`alerting/`) | bounded channel, deduplication cache, rate window | `AlertSender::send`, `AlertManager::process_event`, sweep of the cache | `Alerting` |
| Event database and live events (`dashboard/db.rs`, `sse.rs`, `main.rs`) | SQLite, broadcast channels, the writer's batch | batch insert, prune, stream | `EventStore` |
| IPC server (`ipc.rs`) | 64 connection slots | accept, read with timeout, dispatch | `IpcServer` |
| Launcher sandbox (`guardian-launch`) | none after exec | Landlock rules, seccomp filter, privileges | not modelled: a straight line of library calls |
| Dashboard pages, `guardian-ctl`, shared types, `xtask` | none of their own | render, send, declare, build | not modelled |

**How they interact.** One tokio mutex guards `IpcState`; every handler of the socket, of the
dashboard and the cleanup task takes it. The hard behaviour is where something happens *outside*
it: a permission handler waits on a channel between two critical sections; `update_alerts` writes
a snapshot after unlocking; a reload reads the file before locking; exec grants and their expiry
change the configuration without a write; launchers, agents and the
kernel's programs run on their own and share only the BPF maps and the cgroup file system with
the daemon. Every permission request holds a connection while it waits, and the decision it waits
for may come through another one. Events flow one way: tracepoint, perf buffer, event reader, then
the channel of the alert manager and the bus of the database writer and the browsers, none of
which may make the reader wait. The fork and exit tracepoints, the `/proc` rescan and the start of
the daemon fill and empty the same process maps. A policy is evaluated twice, in the kernel and by
the reader of the event. In the kernel, the tracepoint that can read a path cannot block, and the LSM hook that
can block cannot read the path, so a verdict travels through a map while the thread may be
preempted, moved or leave the call.

**What makes each part correct.** No request is lost, answered with someone else's decision or
settled twice, and all are answered; no access outlives its grant; what is saved is what is in
memory, and it loads again; a denied call does not take effect, and a verdict is not spent on
other calls, unless the pending map was full and its slot was lost; an agent stays watched until it has ended, and is forgotten then, and so do the
processes it starts, under whatever name; both evaluators give one verdict where both have the rules to; alerts are neither
repeated nor silenced for longer than configured; what the event list shows is in order and its
gaps are accounted for; every connection ends whose peer reads its answer; limits hold at their edges.

## 2. Modules

| Module | Contents |
|---|---|
| `RateLimit` | `AgentRateLimit` as operators from record to record. Instants are ages that stop growing where no comparison can tell them apart, so runs have no time horizon. |
| `RequestStream` | EXTENDS `RateLimit` and `Risk`: one limiter under an endless stream of requests and decisions, with the ages of the last requests that reached a person. |
| `Risk` | The integer scoring. Which pattern a path matches is an input class. |
| `TempGrants` | Grants, allow maps, and the exec section of the configuration in memory and on disk. A path ending in `/**` is a prefix key, others exact keys; keys keep 256 bytes, so paths may share one. The copies that a reload has read and an update of the alerts has cloned are state of their own. |
| `Permissions` | EXTENDS the three above. A *task* is one `request_permission` call: `idle`, `waiting` on its channel, `late` between timer and lock, `done`. The list of grant times and durations of an agent and a path is kept as running totals by age, for what was asked and what was granted: all that `record_and_check` uses is the sum of the entries younger than a day. |
| `RequestLedger` | What the workflow promises of each request: asked, settled at most once, answered at most once, and yes only if it was approved. `Permissions` maps its state to it with `LedgerState` and `LedgerAnswer`. |
| `KernelHooks` | Threads, CPUs, calls, the pending maps and slots, how far the scratch buffer is still filled, and where each thread's last verdict is held. |
| `ConfigStore` | Handlers as jobs with program counters, the mutex, the file as `Truncated`, `Whole(c)` or `Garbage`; exec grants and their expiry as critical sections without a write. |
| `AgentRegistry` | Launchers, cgroups, registrations, kernel maps and the sweep's progress. |
| `PolicyEval` | Both evaluators as operators over a configuration: normalisation, patterns and agent lookup of the daemon; the shared rule maps, symlink alternates, default actions and skipped calls of the kernel. A path is the sequence of segments `split('/')` makes of it. |
| `ProcessTracking` | EXTENDS `PolicyEval`: tasks with process id, name and cgroup, and the maps that say which are watched and enforced. |
| `Alerting` | The channel, the deduplication cache and the rate window, on ages. |
| `EventStore` | The bus, the batching writer, the table as committed and as the connection sees it, pruning and one browser. A table is the last id it gave and a function from ids to events. |
| `EventLedger` | What the event list promises of each event: stored in its turn or lost, and never back once lost. `EventStore` maps its state to it with `EventFate`. |
| `IpcServer` | Connections with their slots, and the requests among them that wait. |
| `MC*` | The instances for TLC. |
| `LimiterProofs` | Types and bounds of the limiter's methods, for the two modules that use them. |
| `IpcProofs` | `RequestStream` and `IpcServer`. |
| `PermissionsProofs` | `TempGrants` (part 1), `Permissions` (parts 2 and 3) and its refinement of `RequestLedger` (part 4). |
| `ProcessTrackingProofs`, `EventProofs` | The first covers `PolicyEval` too, the second `Alerting`, `EventStore` and its refinement of `EventLedger`. |
| `KernelHooksProofs`, `ConfigStoreProofs`, `AgentRegistryProofs` | One component each. |

Operators whose comment begins with "Mutant:" are deliberate variations of the definition that
follows them. No specification uses them; they show that a property notices such a mistake.

### State and actions against the code

* **Permissions.** `Refuse`, `AutoDenied`, `AutoApproved`, `RateLimited` and `Enqueue` are the exits
  of the first critical section in the order of its tests. `Approve`, `ApproveOverridden` (the
  accumulated seconds exceed the limit) and `Deny` are `resolve_permission`. `Answered` and
  `TimedOut` are the two arms after the wait; `TimerFires` is the moment the channel's receiver is
  dropped, after which a decision is lost. `audit` is what is handed to the database.
* **TempGrants.** `InstallGrant` is the part `handle_grant_access`, `grant_access` and `resolve_permission`
  share. `ExpireGrants` is the second half of `cgroup_cleanup_task`. Handlers that hold the mutex are one step
  each. `ReadConfig` and `ReloadConfig` are the two parts of a reload, before and under the mutex;
  `CloneForAlerts` and `WriteAlerts` those of an update of the alerts, under and after it. A policy
  form reads its file back, which changes something only when an alert copy was written in between.
  How the steps of one write interleave with another's is the subject of `ConfigStore`. `savedRules`
  is history: what the file has ever allowed.
* **KernelHooks.** `Enter` is the tracepoint of a call, with the arguments it managed to read.
  `Block`, `Pass` and `Return` are the hooks; `FailEarly` is any error before the next hook;
  `Migrate` is the scheduler. `held` is history: a verdict is in the map, in the slot of the CPU its
  thread is on, or `lost`, once another thread takes that slot or its thread leaves that CPU.
* **ConfigStore.** `Open` and `Write` are the two halves of `std::fs::write`. `WriteFails` is an error
  in either. `Written` gives `Garbage` when a writer finds text that another has put there meanwhile. `GrantExec` and `ExpireExec` are the
  parts of a grant and of the sweep that touch the configuration; how many grants there are and when
  they end is left to `TempGrants`. `Saved` is what `write_config_toml` leaves of a configuration: no
  permissions section, no `fail_closed` that is read again, and of a policy what is read back from
  between unescaped quotes (`Rendered`). `Reread` is the end of `update_policy`.
* **AgentRegistry.** A launch is a launcher, its cgroup and the cgroup's id. `SweepLook` reads
  `cgroup.procs` of one agent, `SweepClean` is `cleanup_agent` for one found empty; launchers move
  between them. The map removals and the `rmdir` of one cleanup are one step: no other daemon handler
  can see between them, and a launcher that joins before the `rmdir` makes it fail as one that
  joined before the step does.
* **Permissions and RequestLedger.** `Enqueue` is `Ask`, the other exits of the first critical
  section are `Dismiss`, a decision on the list is `Settle`, `Answered` is `Close`, and `TimedOut` is
  `Expire` if nobody has decided and `Close` with no if somebody has. A restart is `LoseAll`. All
  other steps leave the ledger as it is.
* **ProcessTracking.** `Fork` and `Clone` both run `sched_process_fork`, which enters the new id in
  `CHILD_PIDS` and `WATCHED_TGIDS`; `Exit` and the threads an `Exec` ends run `sched_process_exit`,
  which removes the *process* from `CHILD_PIDS` and leaves the other maps. `Rescan` is one step: its
  entries go into the watch map before the enforce map, it never removes any, and entries of
  processes that have ended meanwhile stay anyway, so that slower scans reach no other maps. Ids are
  used again; an exec is refused by `PolicyEval`'s exec rules, for a dynamic linker on its `argv[1]`.
* **PolicyEval.** `KernelAllows` is what a tracepoint of a watched and enforced process looks up; what
  then happens to the verdict is the subject of `KernelHooks`. `Ways` are the ways a call is made that
  the tracepoints treat apart: truncated paths, which are denied unseen, opens with `O_PATH` and
  arguments that cannot be read, which are not judged, and a linker whose `argv[1]` is missing, or
  shorter than the linker's path, whose tail then spoils the exact key. `ReportedAction` is the action of the
  alert an event reader makes. Both go by the configuration of the daemon's start, the kernel's
  allow maps by the grants in force besides.
* **Alerting.** `Emit` is the `try_send` of `AlertSender`. `Take` is `process_event` up to the wait for
  the outputs, `DispatchEnd` its end; the manager takes nothing in between. `last` and `sends` are
  history.
* **EventStore.** After a start the event readers send before the writer subscribes (`Subscribe`,
  `listening`); events sent until then pass it by. `Receive` is `recv` with its two outcomes, an event or a lag. `BatchInsertEvents`
  has the outcomes of BEGIN, of each INSERT and of COMMIT; SQLite may undo a transaction whose
  COMMIT fails or leave it open, and an open one keeps the next from beginning. Rows may be pruned
  in any order, because readers stamp events before they send them.
* **EventStore and EventLedger.** `SendToBus` is `Sent`, `Skip` is `Overtaken`, a `Gather` or
  `FlushTimer` that runs `BatchInsertEvents` is `Written`, with the events the database took as `kept`.
  `PruneOldEvents` is `Aged`, `RestartDaemon` is `Restarted`. All other steps leave the ledger as it
  is. What was pruned inside a transaction that was left open comes back when the daemon restarts, and
  what was stored in it is lost then.
* **IpcServer.** A connection is `closed`, reading (`length`, `body`), at `process`, `waiting`, at
  `reply` with a short answer, which the socket's buffer takes at once, or `sending` a long one, which
  ends when its peer has read it or hangs up (`PeerReads`). What a request or a decision changes besides is the subject of `Permissions`; the moment
  between timer and lock, which is distinguished there, is one with `TimedOut` here.

## 3. Runs

All states of every passing run are explored. Symmetry is used only in runs of invariants.

| Run | Bounds | What it shows |
|---|---|---|
| `TempGrants` | 1 agent, a directory, a file the configuration allows, two long paths with one key, two commands, maps of one entry, two grants of 0 or 2 ticks, one copy outside the mutex at a time | Types, `NoLingeringFileAccess`, `StrayRulesWereSaved`, and `ExpiredGrantRevoked` (liveness). Two grants suffice to share a key, to meet a full map and to expire in either order; one copy to carry a rule past the sweep and past later saves. `NoLingeringFileAccess` is about access that stays; access taken too early is `GrantHonoured`, below. |
| `RateLimit` | 2 resources, limits 1 and 2, windows of 2 and 5 ticks, cooldown up to 4; at most 3 requests a minute, 6 an hour and 4 denials, which passes the thresholds of the risk score (any denial, more than 5 requests) and the cap of the cooldown | Endless streams of requests and decisions. `BurstBounded`: of the requests people saw, the one before the last two limits' worth is older than the window. `LockoutEnds`: when nothing was recorded for the longest period, nothing is blocked. `RiskIsMonotone`: no step lowers the risk of any request. The types are a theorem and not part of the run. |
| `Permissions` | 2 requests on an ordinary, an auto-denied and an auto-approved path that may both be pending, history of one, all periods of one tick but the day of two, a grant total of one tick, one restart, no stale copies of the configuration | `NoOrphans`, `SettledOnce`, `HistoryMatchesAudit`, `AnswerMatchesAudit` and `BudgetRespected`, with direct grants and configuration changes between any two steps; `ImplementsLedger` (the refinement of `RequestLedger`) and `EveryRequestAnswered` (liveness), where two decisions, two timers and two approvals cross. `HistoryMatchesAudit` asks for an increasing placement of the history's entries in the trail. `AnswerMatchesAudit` speaks of decisions; timeouts are `TimeoutIsFailSecure`, below. The limit of pending requests is checked in `IpcServer` and proved for both modules. |
| `KernelHooks` | 2 threads on one CPU of two that may both move, maps of one entry; opens of a long path, unlinks of a short one | `OnlyLostVerdictsPass`: a denied call takes effect only if its verdict was lost from a slot. `OneBlockPerDenial`: the entries a thread has left are never more than its verdicts that have not blocked a call (`owed`, history, up to `MostEntries`), although entries of calls that fail early stay. `OnlyLostPrefixesPass`, with paths read over longer ones. A map of one entry is full as soon as one thread is between tracepoint and hook or has left an entry, so that the slots are taken, displaced and left behind. |
| `ConfigStore` | 2 handlers, 1 name, 2 policies, one of which loses itself in quoting, 2 commands, alert settings that do not load | `SerialSavesMatch` with all handlers, exec grants and their expiry, failed writes, crashes and repairs. Memory and file may differ in commands granted since the start (`SameExec`), in what `Saved` leaves out, and in nothing else. It is about handlers that the mutex orders; those that overlap an update of the alerts or a reload are `SavesMatch`, below. The theorem covers any number of names and commands. |
| `AgentRegistry` | 3 launches under 2 names, maps of 2 entries | `WatchedUntilEnded` with sweeps, stops, deletions and restarts, and `EndedIsForgotten` (liveness). Three launches are a name used twice beside another. |
| `Monitoring` | 3 ids, 2 names, one of them an agent's, maps of 2 entries; 3 agents with every kind of rule in the shared maps, files of up to 3 segments, programs, a dynamic linker, ports, a grant; all spellings of up to 4 segments of `""`, `.`, `..` and two names | `TreeStaysWatched`, `EnforcedIsWatched`, `NamedIsEnforced` (liveness); `VerdictsAgree` on plain calls, and `SpellingHidesNothing` against a definition of what `..` means, with some spellings through `/proc/<pid>/root`, by the daemon's evaluator and for a path as text: a relative one is taken from `/`, whatever the directory of the process. These two depend on the tasks only through their names. The dynamic linker and the denied program bear one name, so that the names stay two; processes under the names of further agents, cut ones among them, are left to the theorem. Three ids are a process with a thread beside another, or three generations, of which the maps cannot hold all; ids are used again without end. |
| `Alerting` | 3 keys, channel of 2, one alert per window of 2 ticks, deduplication over 3 | `NoDuplicateAlert`, `RateBounded` (of the alerts sent, the one before the last two limits' worth is older than the window) and `NoKeyFallsSilent` (liveness). A window shorter than the deduplication lets a throttled event suppress its repetitions. |
| `EventStore` | 4 events of 2 severities, bus of 2, batches of 2 | `RowsInOrder`, `NothingVanishes`, `ClientAccounts`, `ImplementsEventLedger` (the refinement of `EventLedger`) and `EventuallySettled` (liveness), with both ways a COMMIT may fail and events before the writer subscribes. Four events overtake a receiver and fill two batches. |
| `IpcServer` | 4 clients, 3 slots, an agent with 2 pending requests, a name nobody knows | `EveryConnectionEnds` (liveness; a connection whose peer never reads a long answer is the exception), `PendingBounded` and `RoomForDecisions`, which speaks of slots that waiting requests take, not of those of silent peers. |

`connect`, `link`, `rename`, programs and opens with `O_PATH` take the same path through `KernelHooks`
as the calls of the run; no run enters them, the theorems of section 4 cover them. Two runs are
expected to fail: each checks a sentence of the repository against the code, and TLC's trace is a
behaviour of the code that contradicts it. The findings in `PROJECT.json` quote the sentences.

| Run | Sentence | What happens |
|---|---|---|
| `LaunchRace` | only an empty agent is cleaned up | A sweep between registration and joining leaves it unwatched. |
| `SlotRace` | the overflow slot is race-free, because tracepoint and hook run on one CPU (`guardian-ebpf/src/main.rs:229-230`; `DeniedNeverPasses`) | The map is full. Another thread of the CPU is denied and takes the slot, or the thread moves to another CPU before its hook: the call passes. |

### Other statements that do not hold

The modules define these formulas as well, each after a sentence of the repository. TLC refutes
each of them when it takes the place of the invariants of the configuration named (`GrantOnlyAdds`,
`AutoApprovalGrants`, `PolicyRoundTrips` and `MapsCleanedUp`: of its temporal properties). They are
kept as formulas and not as runs: the runs above are those that take most actors and after which an
agent runs unwatched or a denied call passes, while most of these are visible in one or two handlers.

| Formula (configuration) | Sentence | What happens |
|---|---|---|
| `TimeoutIsFailSecure` (`Permissions`) | auto-deny on timeout is fail-secure (`docs/phase_6_implementation.md:612`) | Approved between the timer and the lock: the agent is told no, the grant is made. |
| `GrantHonoured` (`TempGrants`) | a grant lasts for its duration | Another grant on the same key expires and removes it. |
| `ExecRuleRemoved` (`TempGrants`) | the command leaves the list on expiry | The rule was saved meanwhile and is reloaded. `StrayRulesWereSaved` is the part that holds. |
| `GrantOnlyAdds` (`TempGrants`) | a grant adds a command | The missing exec policy is created with default deny. |
| `CooldownMatchesDenials` (`Permissions`, with `MaxCooldown = 1`) | 30 s after one denial | One denial is recorded twice. |
| `AutoApprovalIsFree` (`Permissions`) | auto-approval uses no budget | It is counted in the windows. |
| `AutoApprovalGrants` (`Permissions`) | the resource is granted | No grant is made. |
| `SavesMatch` (`ConfigStore`) | changes are persisted (`USAGE.md:1617`) | `update_alerts` writes its snapshot over a newer file. |
| `NoFalseBlock` (`KernelHooks`) | no entry poisons a later call | A denied call that fails with ENOENT leaves one. |
| `DeniedByPolicyNeverPasses` (`KernelHooks`) | a denied target is blocked | A short path read over a longer one misses its exact key. `OnlyLostPrefixesPass` is the part that holds. |
| `StartsAgain` (`ConfigStore`) | it survives restarts | A stop between truncation and write leaves an empty file. |
| `QuietFileLoads` (`ConfigStore`) | no agents is a warning | A file without agents, with alert settings that do not validate, or with a policy that quoting breaks, does not load. |
| `PolicyRoundTrips` (`ConfigStore`) | reading back is consistent | The permissions section and `fail_closed` are lost, and what stands between quotes is not escaped. |
| `MapsCleanedUp` (`AgentRegistry`) | the maps are cleaned up | A registration overwritten under its name never is. |
| `DeletedIsStopped` (`AgentRegistry`) | a running agent is stopped first | It gets no signal. |

Further differences between sentences and code that reading for the models brought up, without a
formula of their own:

* The base score of `Risk` is 25, which the code classifies as low; `docs/phase_7_implementation.md:294`
  calls it medium.
* A child of an agent identified by name is watched after an exec, but enforced only if a rescan
  came between fork and exec; its denied calls are reported as blocked all the same (`USAGE.md:843`,
  `docs/guardian-shell-pm-security-report.md:414`).
* A reload, a SIGHUP or an update from the dashboard changes `IpcState.config` and neither the
  kernel's maps nor the configuration of the event readers (`USAGE.md:1034`, `1196`, `2701`;
  `ARCHITECTURE.md:400` "rebuild maps").
* Readers of file and exec events report a denial in strict mode as "Deny", although it is blocked.
* A pattern that ends in `/*` means nothing to the kernel; names longer than 15 bytes are found by
  neither the rescan nor the readers; an event from a cgroup is judged by the first agent's policy;
  in the kernel the rules of all agents apply to each. A network default that is neither `allow` nor
  `deny` is not refused (`config.rs:458-470`), taken for `allow` by the kernel's map (`main.rs:1100`)
  and for `deny` by the daemon (`config.rs:689`). A truncated path is denied by the kernel unseen;
  opens with `O_PATH`, connects to port 0 and linkers without a readable `argv[1]` are not judged
  by it; a short `argv[1]` misses exact rules. `PolicyEval` models these, and `Plain` excludes them.
* An event that the rate window drops has entered the deduplication cache and silences its
  repetitions; a minute may see twice the limit of alerts (`config.rs:50`, `53`).
* The lag message of the permission stream always says 1; that of the event stream says how many.
* A COMMIT that fails and leaves its transaction open keeps everything after it, audit rows too,
  from being stored until the daemon is restarted.
* `normalize_path` is applied twice to a path, and each time takes one `/proc/<pid>/root` away; of three
  inside one another the last stays in place. `Hidden` leaves such paths out.
* After a restart, processes that descend from an agent under another name are not watched.

### Fairness

* `TempGrants`: weak fairness of the sweep (an interval timer, a fair mutex) and of the clock.
* `Permissions`: weak fairness of the clock and of `TimerFires`, `Answered` and `TimedOut`, the steps
  of a handler the runtime has been woken for. Nothing is assumed of people.
* `AgentRegistry`: weak fairness of the steps of the sweep. Nothing is assumed of launchers, which
  may hang or be killed anywhere, or of agents.
* `ProcessTracking`: weak fairness of the rescan, which runs on a timer.
* `Alerting`: weak fairness of the manager's loop, of the end of a dispatch (the network outputs have
  timeouts; the JSON log, `json_log.rs:136-152`, is a write to a local file, which is assumed to end)
  and of the clock.
* `EventStore`: weak fairness of the daemon's start up to the writer's subscription, of the writer's
  loop and of its 500 ms timer. Nothing is assumed of
  browsers or of the database.
* `IpcServer`: weak fairness of each connection's task, which includes the time limits of its two
  reads and of the wait. Nothing is assumed of peers and people: a message need never arrive, and an
  answer longer than the socket's buffer need never be read, since writes have no time limit
  (`ipc.rs:269-285`). So `PeerReads` is not fair, and `EveryConnectionEnds` allows for `sending`.
* `RequestStream`, `KernelHooks` and `ConfigStore` have only safety properties
  and no fairness. `LockoutEnds` is an invariant: an agent left alone for the longest
  period is no longer blocked.

## 4. Proofs

All theorems hold for every value of the constants that satisfies the named assumptions: finite
sets of tasks, threads and launches, natural numbers for limits, and the types of the rule tables.

| Theorem | Inductive invariant, and why it is needed |
|---|---|
| `NoAccessOutlivesItsGrant`, `GrantTypeCorrect` | `GrantInv` adds `MonitorsOnly`: the sweep touches the maps only in enforce mode, so they must be empty otherwise. |
| `OnlySavedRulesStay` | `StrayRulesWereSaved` with `GrantTypeOK` and the same of every copy: what a reload has read is in `savedRules`, and what an update of the alerts writes enters it. |
| `NoRequestIsOrphaned`, `PendingIsBounded`, `RequestsAreSettledOnce` | `ReqInv`: the three need each other and `IdsInOrder`. A request is settled once because listed requests have different ids below `nextId` and none of them is in the audit trail of this boot. |
| `ApprovalsLeaveNoAccess` | `GrantInv` again, with the lemmas of part 1: each step of the composition is a grant step, an installation or none. |
| `VerdictsAreCarriedOut` | `HookInv`: the entry of a denied call that is not `lost` is where its next hook will look (`EntryWaits`). For maps of every size, one entry or none included, and threads that move as they like. |
| `ReachableVerdictsHold` | The same invariant, and that nothing is ever `lost`, under the hypothesis `EntriesAreReachable`: the maps hold all threads, or each thread has a CPU to itself and stays there. It states when the sentence of `guardian-ebpf/src/main.rs:230` is true; `SlotRace` shows that it is not true in general. |
| `PrefixRulesNeverMiss` | `PrefixVerdict`: below a denied directory the verdict is the one a clean buffer would give; with `VerdictsAreCarriedOut` such a call is blocked unless its verdict was lost. |
| `VerdictsAreSpentOnce` | `SpentInv` adds that no slot is used while the map holds all threads (`SlotsUnused`); the counter's cap `MostEntries` is then what one thread can have at most. For maps of every size and threads that move as they like: an insert adds at most one entry to its thread, a hook that finds one takes one away (`InsertCounts`, `ConsumeCounts`). |
| `SavesStayInStep`, `StoreTypeCorrect` | `StoreInv`: who holds the mutex (`LockHeld`), that a handler nothing overlaps is alone (`Alone`), and what the file holds at each of its steps (`InFlight`). A grant or an expiry that comes between two steps of a handler changes memory in commands of `granted` only, which `Same` does not compare. |
| `AgentsStayWatched`, `RegistryTypeCorrect` | `RegistryInv`: an acknowledged launch is in the maps until it has ended, and a sweep under way still means the launches it looked at (`SweepIsCurrent`), because the mutex keeps their names from being registered again. |
| `PermTypeCorrect`, `HistoryIsTheEndOfTheTrail`, `AgentsAreToldWhatIsRecorded`, `GrantsStayInBudget` | `PermInv`: `ReqInv` and `GrantInv`; the types of the rest; that every decision in a channel or told to an agent is in the trail (`DecisionsInTrail`); and `AccountsInBudget`: at every age no more is granted than was asked, the totals grow with age, and the day's is within the limit, which time keeps as it moves the window over them. |
| `WorkflowImplementsLedger` | `LedgerInv` adds to `ReqInv` that active requests have different ids below `nextId` and no answer before they are done: initial states map to initial states, and each step of `Permissions` to the ledger's step named in section 2 or to none. |
| `AnswersStand` | An action property proved of the ledger and carried over by the refinement: no answer is taken back or given twice, what a person has settled is not settled another way, and what was denied is never answered yes. `LedgerClosed`: only closed requests have answers. |
| `DescendantsStayWatched`, `EnforcedStaysWatched`, `TypeCorrect` (`ProcessTracking`) | `TrackingInv`: a process forked by a watched one is in `WATCHED_TGIDS`, from which nothing is removed, or the map is full and stays so; an id in `ENFORCE_TGIDS` is in `WATCHED_TGIDS`, or that is full. |
| `EvaluatorsAgree` | No invariant of the tasks is needed: `OneVerdict` holds for every name, from lemmas that compare the lookups of the two evaluators list by list. It is about plain calls as section 3 lists them; for the others the evaluators differ. |
| `NormalizeIsResolved`, `SpellingNeverHides` | The invariant of the loop of `normalize_path`: after `j` segments the stack holds, in order, those of the first `j` that no `..` among them undoes. `Normalize` is a recursive function over the segments; the induction shows that the set of lengths for which this holds is all of `Nat` (`NatSetInduction`), since tlapm cannot instantiate the operator parameter of the library's induction theorems. So a path of any length is judged as the one it stands for. |
| `AlertsAreApart`, `AlertTypeCorrect` | `CacheIsYounger`: the cache entry of a key is never older than its last alert. |
| `StreamAccounts` | `ClientInv`: a browser's position lies between its start and the end of the bus. |
| `AlertRateIsBounded` | `WindowKnows`: the alert before the ones counted in the current window is at least as old as the window, and the one `RateLimit` before that is older than a whole period. |
| `EventTypeCorrect`, `EventListIsInOrder`, `EventsAreAccountedFor` | `StoreInv`: the three need each other, for both the committed table and the connection's. Rows and batch lie before `next` (`Behind`), every row before the batch (`Ordered`), and what is lost is in neither, not even in the rows a restart brings back (`LostIsGone`). |
| `StoreImplementsLedger`, `LostForGood` | `StoreInv` and that only what the writer has passed is pruned (`PrunedIsPassed`): every step is the ledger's step named in section 2 or none. `LostForGood` is an action property carried over from it: no event waits a second time, and none that was lost or not severe enough is ever stored. |
| `BurstsAreBounded`, `StreamTypeCorrect` | `BurstInv`: for each window, the same as `WindowKnows` for alerts. Requests that are auto-decided are counted but not shown, so that the number shown is only bounded by the counter. |
| `LockoutsEnd` | `QuietInv`: everything that can block is as old as the silence (`Silent`), which is inductive because a refused check makes nothing younger but an empty window; and no cooldown is longer than the longest period (`CooldownCapped`). |
| `RiskNeverFalls` | None: levels are monotone in each of the three inputs for all scores (`RiskAscends`). Scores themselves are not, since an exec score may lie above the ceiling that a denial brings in. |
| `ListsAreBounded`, `DecisionsFindRoom` | `ServerInv`: listed requests wait, and each agent's are at most `MaxPending`. An injection of the listed requests into agents and numbers up to `MaxPending` bounds them all together. |

Every safety property and both refinements of the runs that pass are theorems, for the systems of
their runs. Only model-checked are the
seven liveness properties (`ExpiredGrantRevoked`, `EveryRequestAnswered`, `EndedIsForgotten`,
`NamedIsEnforced`, `EveryConnectionEnds`, `NoKeyFallsSilent`, `EventuallySettled`), which need fairness
and ENABLED and so are out of the provers' reach. The types of `EventStore` and `RequestStream` are
theorems only.

## 5. What the models leave out

* The in-memory database that stands in for one that does not open (`main.rs:489-499`): such a life of
  the daemon is one that starts with an empty table, and the rows of the file are back at the next
  start. An alert manager that is restarted, which loses its cache: `NoDuplicateAlert` is about one life
  of the daemon.
* A failing insert into the audit table, which the code logs and passes over; the stream of
  permission events to the dashboard; the severity and the text of events; the outputs of alerts.
* Patterns within a segment, which no rule supports; symbolic links other than those of a merged
  `/usr`; rule maps that overflow while they are loaded; perf buffers that lose events, beyond the
  fact that the loss changes nothing else.
* `rename`, `unlink` and `link` calls without `at`, which have no tracepoint; `fail_mode_for_cgroup`,
  which is only used when a tracepoint returns an error, and none does so after a verdict.
* What overlapping writers leave in a file, beyond "one of them, or text that is neither".
* Names, commands and alert settings that do not survive the quoting of the TOML writer. For policies
  `Rendered` says what is read back.
* `FAIL_CLOSED_CGROUPS` is modelled, with the fact that a cleanup leaves its entry there.
* The real clock: a tick is any unit, and constants keep only the order of the code's periods.

## 6. Plan

All parts that keep state have a module. Two are left in part, as section 5 says: rule maps that
overflow while they are loaded, and the audit table with the stream of permission events. Every
safety property of the runs is proved. A further refinement would be what `TempGrants` promises of
each key, as an abstract specification of its own.

### Not modelled

The launcher's sandbox is a sequence of library calls without state of its own. The dashboard's
pages render state that the other parts own. `guardian-ctl` sends one message and prints the answer.
The shared types are declarations, and `xtask` runs the build.
