---------------------------- MODULE ConfigStore ----------------------------
(***************************************************************************)
(* How the daemon keeps config.toml and its configuration in memory        *)
(* together.                                                               *)
(*                                                                         *)
(* The configuration lives in IpcState, behind a mutex.  Handlers change   *)
(* it there and write the whole file with write_config_toml, which opens   *)
(* and truncates the file and then writes it: two steps, each of which may *)
(* fail.  Creating, deleting and registering an agent and updating a       *)
(* policy hold the mutex throughout; updating the alerts writes a snapshot *)
(* after releasing it, and a reload reads the file before taking it.       *)
(* Temporary exec grants and their expiry change the configuration in      *)
(* memory under the mutex and write nothing.  Handlers run on several      *)
(* worker threads, so their steps interleave.                              *)
(***************************************************************************)
EXTENDS Naturals, FiniteSets

CONSTANTS
    Tasks,          \* handlers that may be under way at once
    NoTask,         \* the mutex is free
    Names,          \* names of agents
    Policies,       \* policies an operator writes, without the exec section
    DefaultPolicy,  \* the policy of default_cgroup_config
    Rendered,       \* what is read back of a policy written between bare quotes
    Commands,       \* commands of exec rules
    Alerts,         \* values of the [alerting] section
    BadPolicies,    \* policies that do not load again
    BadAlerts,      \* alerting sections that do not load again
    Ops             \* the handlers in use

OpNames == {"create", "delete", "register", "policy", "alerts", "reload"}

ASSUME StoreAssumption ==
    /\ NoTask \notin Tasks
    /\ Names # {} /\ Alerts # {}
    /\ DefaultPolicy \in Policies
    /\ BadPolicies \subseteq Policies \ {DefaultPolicy}
    /\ Rendered \in [Policies -> Policies]
    /\ Rendered[DefaultPolicy] = DefaultPolicy
    /\ BadAlerts \subseteq Alerts /\ BadAlerts # Alerts
    /\ Ops \subseteq OpNames

VARIABLES
    up,         \* the daemon runs
    mem,        \* IpcState.config
    file,       \* config.toml
    lock,       \* who holds the mutex of IpcState
    job,        \* the state of each handler
    granted,    \* the exec grants made since the daemon started (history)
    failed,     \* a write failed since the daemon started, and nothing undid it (history)
    overlapped  \* a handler ran while another was outside the mutex (history)

storeVars == <<up, mem, file, lock, job, granted, failed, overlapped>>

\* exec_policy: absent, or present with the commands it allows
ExecSections == {{}} \cup {{R} : R \in SUBSET Commands}

AgentConfig == [policy : Policies, exec : ExecSections, failClosed : BOOLEAN]

\* permissions: whether there is a [permissions] section
Config ==
    [agents : UNION {[D -> AgentConfig] : D \in SUBSET Names},
     alerts : Alerts, permissions : BOOLEAN]

Whole(c) == [state |-> "whole", conf |-> {c}]
Truncated == [state |-> "empty", conf |-> {}]
Garbage == [state |-> "garbage", conf |-> {}]

\* pc: "idle"; "open" and "write", the steps of write_config_toml; "reread"
\* the file that was written; "install" the configuration that was read.
Job ==
    [pc   : {"idle", "open", "write", "reread", "install"},
     op   : OpNames \cup {"none"},
     snap : SUBSET Config,
     name : SUBSET Names]

IdleJob == [pc |-> "idle", op |-> "none", snap |-> {}, name |-> {}]

StoreTypeOK ==
    /\ up \in BOOLEAN
    /\ mem \in Config
    /\ file \in {Truncated, Garbage} \/ \E c \in file.conf : c \in Config /\ file = Whole(c)
    /\ lock \in Tasks \cup {NoTask}
    /\ job \in [Tasks -> Job]
    /\ granted \in SUBSET (Names \X Commands)
    /\ failed \in BOOLEAN /\ overlapped \in BOOLEAN

-----------------------------------------------------------------------------

\* What write_config_toml puts in the file.  It knows nothing of the
\* [permissions] section, its fail_closed line comes after a table header of
\* the agent, where nobody reads it, and it puts strings between quotes
\* without escaping them.
Saved(c) ==
    [agents |-> [n \in DOMAIN c.agents |->
                    [c.agents[n] EXCEPT !.policy = Rendered[@], !.failClosed = FALSE]],
     alerts |-> c.alerts, permissions |-> FALSE]

\* load_config succeeds: the file parses, it has at least one agent (the
\* `agents` key has no default) and it passes validate_config.
Loads(f) ==
    \E c \in f.conf :
        /\ DOMAIN c.agents # {}
        /\ \A n \in DOMAIN c.agents : c.agents[n].policy \notin BadPolicies
        /\ c.alerts \notin BadAlerts

\* What the file may hold once c is written from its start: the tail of a
\* longer text written by someone else since it was truncated stays.
Written(f, c) == IF f \in {Truncated, Whole(c)} THEN {Whole(c)} ELSE {Whole(c), Garbage}

StoreInit ==
    /\ up = TRUE
    /\ mem \in {c \in Config : Loads(Whole(c))}
    /\ file = Whole(mem)
    /\ lock = NoTask
    /\ job = [t \in Tasks |-> IdleJob]
    /\ granted = {}
    /\ failed = FALSE
    /\ overlapped = FALSE

Idle(t) == job[t].pc = "idle"

Quiet == \A t \in Tasks : Idle(t)

\* A handler that works outside the mutex: anything else that runs
\* meanwhile may see or leave a stale configuration.
OutsideLock(t) == ~Idle(t) /\ job[t].op \in {"alerts", "reload"}

NoteOverlap(op) ==
    overlapped' = (\/ overlapped
                   \/ op \in {"alerts", "reload"} /\ ~Quiet
                   \/ \E s \in Tasks : OutsideLock(s))

\* Who holds the mutex once a handler has taken it.
Taken(t) == t

\* The handler takes the mutex, changes the configuration to c and goes on
\* to write it.
Begin(t, op, c, n) ==
    /\ up /\ op \in Ops
    /\ Idle(t)
    /\ lock = NoTask
    /\ lock' = Taken(t)
    /\ mem' = c
    /\ job' = [job EXCEPT ![t] = [pc |-> "open", op |-> op, snap |-> {Saved(c)}, name |-> n]]
    /\ NoteOverlap(op)
    /\ UNCHANGED <<up, file, granted, failed>>

WithAgents(c, f) == [agents |-> f, alerts |-> c.alerts, permissions |-> c.permissions]

WithAgent(c, n, a) ==
    WithAgents(c, [m \in DOMAIN c.agents \cup {n} |-> IF m = n THEN a ELSE c.agents[m]])

WithoutAgents(c, N) == WithAgents(c, [m \in DOMAIN c.agents \ N |-> c.agents[m]])

CreateAgent(t, n, pol, x) ==
    /\ n \notin DOMAIN mem.agents
    /\ Begin(t, "create",
             WithAgent(mem, n, [policy |-> pol, exec |-> x, failClosed |-> FALSE]), {n})

DeleteAgent(t, n) ==
    /\ n \in DOMAIN mem.agents
    /\ Begin(t, "delete", WithoutAgents(mem, {n}), {n})

\* default_cgroup_config; its commands are apart from those of grants
DefaultAgent == [policy |-> DefaultPolicy, exec |-> {{}}, failClosed |-> FALSE]

\* The part of handle_register that concerns the configuration
Register(t, n) ==
    /\ n \notin DOMAIN mem.agents
    /\ Begin(t, "register", WithAgent(mem, n, DefaultAgent), {n})

\* A form without an exec policy (x = {}) leaves the agent's.
UpdatePolicy(t, n, pol, x) ==
    /\ n \in DOMAIN mem.agents
    /\ Begin(t, "policy",
             WithAgent(mem, n, [mem.agents[n] EXCEPT !.policy = pol,
                                                     !.exec = IF x = {} THEN @ ELSE x]), {n})

\* update_alerts releases the mutex before it writes.
UpdateAlerts(t, v) ==
    /\ up /\ "alerts" \in Ops
    /\ Idle(t)
    /\ lock = NoTask
    /\ mem' = [mem EXCEPT !.alerts = v]
    /\ job' = [job EXCEPT ![t] = [pc |-> "open", op |-> "alerts", snap |-> {Saved(mem')}, name |-> {}]]
    /\ NoteOverlap("alerts")
    /\ UNCHANGED <<up, file, lock, granted, failed>>

-----------------------------------------------------------------------------
(* Temporary exec grants: one critical section each, and no write.         *)

WithExec(c, n, x) == WithAgent(c, n, [c.agents[n] EXCEPT !.exec = x])

\* A grant, by the CLI, the dashboard or an approval, adds the command to
\* the agent's exec policy, which it creates if there is none.
GrantExec(n, cmd) ==
    /\ up
    /\ lock = NoTask
    /\ mem' = IF n \in DOMAIN mem.agents
              THEN WithExec(mem, n, {(UNION mem.agents[n].exec) \cup {cmd}})
              ELSE mem
    /\ granted' = granted \cup {<<n, cmd>>}
    /\ UNCHANGED <<up, file, lock, job, failed, overlapped>>

\* The sweep drops a grant and takes its command from the agent there is
\* then.  How many grants there are and when they end is left to TempGrants.
ExpireExec(n, cmd) ==
    /\ up
    /\ lock = NoTask
    /\ <<n, cmd>> \in granted
    /\ n \in DOMAIN mem.agents
    /\ mem' = WithExec(mem, n, {R \ {cmd} : R \in mem.agents[n].exec})
    /\ UNCHANGED <<up, file, lock, job, granted, failed, overlapped>>

-----------------------------------------------------------------------------
(* write_config_toml, and what the handlers do after it.                   *)

Released(t) == IF lock = t THEN NoTask ELSE lock

Finish(t) ==
    /\ job' = [job EXCEPT ![t] = IdleJob]
    /\ lock' = Released(t)

\* Mutant: a failed creation is not undone
RolledBackNot(t) == mem

\* Only create_agent undoes its change when the write fails.
RolledBack(t) ==
    IF job[t].op = "create" THEN WithoutAgents(mem, job[t].name) ELSE mem

Open(t) ==
    /\ job[t].pc = "open"
    /\ file' = Truncated
    /\ job' = [job EXCEPT ![t].pc = "write"]
    /\ UNCHANGED <<up, mem, lock, granted, failed, overlapped>>

\* update_policy reads the file back; the others are done.
Write(t) ==
    /\ job[t].pc = "write"
    /\ \E c \in job[t].snap : file' \in Written(file, c)
    /\ IF job[t].op = "policy"
       THEN job' = [job EXCEPT ![t].pc = "reread"] /\ UNCHANGED lock
       ELSE Finish(t)
    /\ UNCHANGED <<up, mem, granted, failed, overlapped>>

\* The open or the write fails; what was cut or written so far stays.
WriteFails(t) ==
    /\ \/ job[t].pc = "open" /\ UNCHANGED file
       \/ job[t].pc = "write" /\ file' \in {file, Garbage}
    /\ mem' = RolledBack(t)
    /\ Finish(t)
    /\ failed' = (failed \/ job[t].op # "create" \/ job[t].pc = "write")
    /\ UNCHANGED <<up, granted, overlapped>>

\* The end of update_policy, still under the mutex
Reread(t) ==
    /\ job[t].pc = "reread"
    /\ mem' \in IF Loads(file) THEN file.conf ELSE {mem}
    /\ Finish(t)
    /\ UNCHANGED <<up, file, granted, failed, overlapped>>

\* SIGHUP and the dashboard's reload: load_config runs before the lock; an
\* error leaves everything as it is.
StartReload(t) ==
    /\ up /\ "reload" \in Ops
    /\ Idle(t)
    /\ Loads(file)
    /\ job' = [job EXCEPT ![t] = [pc |-> "install", op |-> "reload", snap |-> file.conf, name |-> {}]]
    /\ NoteOverlap("reload")
    /\ UNCHANGED <<up, mem, file, lock, granted, failed>>

InstallReload(t) ==
    /\ job[t].pc = "install"
    /\ lock = NoTask
    /\ mem' \in job[t].snap
    /\ Finish(t)
    /\ UNCHANGED <<up, file, granted, failed, overlapped>>

-----------------------------------------------------------------------------

\* The daemon stops, in the middle of whatever it does.
Crash ==
    /\ up
    /\ up' = FALSE
    /\ lock' = NoTask
    /\ job' = [t \in Tasks |-> IdleJob]
    /\ UNCHANGED <<mem, file, granted, failed, overlapped>>

\* main: without a configuration that loads the daemon does not start.
Start ==
    /\ ~up
    /\ Loads(file)
    /\ up' = TRUE
    /\ mem' \in file.conf
    /\ granted' = {}
    /\ failed' = FALSE
    /\ overlapped' = FALSE
    /\ UNCHANGED <<file, lock, job>>

\* The operator writes a file that loads.
Repair ==
    /\ ~up /\ ~Loads(file)
    /\ \E c \in {d \in Config : Loads(Whole(d))} : file' = Whole(c)
    /\ UNCHANGED <<up, mem, lock, job, granted, failed, overlapped>>

StoreNext ==
    \/ \E t \in Tasks, n \in Names, pol \in Policies, x \in ExecSections :
           CreateAgent(t, n, pol, x)
    \/ \E t \in Tasks, n \in Names : DeleteAgent(t, n)
    \/ \E t \in Tasks, n \in Names : Register(t, n)
    \/ \E t \in Tasks, n \in Names, pol \in Policies, x \in ExecSections :
           UpdatePolicy(t, n, pol, x)
    \/ \E t \in Tasks, v \in Alerts : UpdateAlerts(t, v)
    \/ \E n \in Names, cmd \in Commands : GrantExec(n, cmd)
    \/ \E n \in Names, cmd \in Commands : ExpireExec(n, cmd)
    \/ \E t \in Tasks : Open(t)
    \/ \E t \in Tasks : Write(t)
    \/ \E t \in Tasks : WriteFails(t)
    \/ \E t \in Tasks : Reread(t)
    \/ \E t \in Tasks : StartReload(t)
    \/ \E t \in Tasks : InstallReload(t)
    \/ Crash
    \/ Start
    \/ Repair

StoreSpec == StoreInit /\ [][StoreNext]_storeVars

-----------------------------------------------------------------------------

GrantedTo(G, n) == {cmd \in Commands : <<n, cmd>> \in G}

\* Two exec sections of agent n that differ at most in commands the grants
\* G gave it, or in a section that one of them created
SameExec(G, n, x, y) ==
    \/ x = y
    \/ GrantedTo(G, n) # {} /\ (UNION x) \ GrantedTo(G, n) = (UNION y) \ GrantedTo(G, n)

\* Two configurations with the same content, the grants G apart
Same(G, c, d) ==
    /\ DOMAIN c.agents = DOMAIN d.agents
    /\ \A n \in DOMAIN c.agents :
          /\ c.agents[n].policy = d.agents[n].policy
          /\ c.agents[n].failClosed = d.agents[n].failClosed
          /\ SameExec(G, n, c.agents[n].exec, d.agents[n].exec)
    /\ c.alerts = d.alerts
    /\ c.permissions = d.permissions

\* c is d, or what is left of d once it is saved.
AsSaved(c, d) == Same(granted, c, d) \/ Same(granted, c, Saved(d))

\* The file holds memory, or what is left of it once it is saved.
InStep == \E c \in file.conf : AsSaved(c, mem)

\* Handlers that the mutex orders leave the file and memory in step,
\* whatever their order, whatever is granted and expires meanwhile, and
\* wherever the daemon was stopped before: no agent, no policy and no exec
\* rule, those granted since it started apart, is in one but not in the
\* other, unless a write failed.  A creation that could not be written
\* leaves no trace either.
SerialSavesMatch == up /\ Quiet /\ ~failed /\ ~overlapped => InStep

\* USAGE.md: changes of the configuration are persisted; handlers that run
\* together do not overwrite each other's.
SavesMatch == up /\ Quiet /\ ~failed => InStep

\* After saves that succeeded the daemon can start again.
QuietFileLoads == up /\ Quiet /\ ~failed /\ ~overlapped => Loads(file)

\* A daemon stopped at any moment, with no write having failed, can start.
StartsAgain == ~up /\ ~failed => Loads(file)

\* update_policy reads the file back "to ensure round-trip consistency":
\* what it reads is what memory held.
PolicyRoundTrips ==
    [][\A t \in Tasks : Reread(t) /\ Loads(file) /\ ~overlapped => mem' = mem]_storeVars
=============================================================================
