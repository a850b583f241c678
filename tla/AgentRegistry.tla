--------------------------- MODULE AgentRegistry ---------------------------
(***************************************************************************)
(* How guardian-launch and the daemon hand an agent over to cgroup         *)
(* monitoring, and how the daemon lets go of it.                           *)
(*                                                                         *)
(* The launcher makes a cgroup of its own, asks the daemon to register it, *)
(* waits for the answer, moves itself into the cgroup and becomes the      *)
(* agent.  The daemon keeps one registration per name, puts the cgroup id  *)
(* into the kernel's maps and, every five seconds, drops the agents whose  *)
(* cgroup has no process.  The mutex of IpcState orders the daemon's       *)
(* handlers; nothing orders them with the launchers and the agents'        *)
(* processes, which run on their own.                                      *)
(*                                                                         *)
(* A launch stands for its launcher process, its cgroup and the cgroup's   *)
(* id: the directory is named after the launcher's pid.                    *)
(***************************************************************************)
EXTENDS Naturals, FiniteSets

CONSTANTS
    Launches,
    NoLaunch,
    Names,       \* names of agents
    NameOf,      \* [Launches -> Names]: several launches may share a name
    Enforce,     \* the daemon runs in enforce mode
    FailClosed,  \* names configured with fail_closed
    Capacity,    \* max_entries of each of the cgroup maps
    MaxProcs,    \* bound on the processes of a cgroup (model only)
    Ops          \* which of "stop", "delete" and "restart" happen

ASSUME RegistryAssumption ==
    /\ IsFiniteSet(Launches)
    /\ NoLaunch \notin Launches
    /\ NameOf \in [Launches -> Names]
    /\ Enforce \in BOOLEAN
    /\ FailClosed \subseteq Names
    /\ Capacity \in Nat /\ MaxProcs \in Nat
    /\ Ops \subseteq {"stop", "delete", "restart"}

VARIABLES
    pc,         \* where each launcher is
    dirs,       \* the cgroup directories that exist
    procs,      \* the number of processes in each cgroup
    inbox,      \* registration requests on their way to the daemon
    reply,      \* the daemon's answer to each launcher
    agents,     \* IpcState.agents: the registered launch of each name
    watched,    \* keys of WATCHED_CGROUPS
    enforced,   \* keys of ENFORCE_CGROUPS and CGROUP_DEFAULT_ACTION
    closed,     \* keys of FAIL_CLOSED_CGROUPS
    sweep,      \* progress of cgroup_cleanup_task
    signalled,  \* launches whose processes were sent SIGTERM
    ended       \* history: why the daemon stopped watching a launch

launchVars == <<pc, dirs, procs, inbox>>
mapVars == <<agents, watched, enforced, closed>>

vars == <<pc, dirs, procs, inbox, reply, agents, watched, enforced, closed, sweep,
          signalled, ended>>

SweepOff == [on |-> FALSE, todo |-> {}, empty |-> {}]

TypeOK ==
    /\ pc \in [Launches -> {"start", "made", "asked", "joining", "inside", "running", "gone"}]
    /\ dirs \subseteq Launches
    /\ procs \in [Launches -> Nat]
    /\ inbox \subseteq Launches
    /\ reply \in [Launches -> {"none", "ack", "error"}]
    /\ agents \in [Names -> Launches \cup {NoLaunch}]
    /\ watched \subseteq Launches
    /\ enforced \subseteq Launches
    /\ closed \subseteq Launches
    /\ sweep \in [on : BOOLEAN, todo : SUBSET Names, empty : SUBSET Names]
    /\ signalled \subseteq Launches
    /\ ended \in [Launches -> {"no", "empty", "stopped", "deleted", "restart"}]

Init ==
    /\ pc = [l \in Launches |-> "start"]
    /\ dirs = {}
    /\ procs = [l \in Launches |-> 0]
    /\ inbox = {}
    /\ reply = [l \in Launches |-> "none"]
    /\ agents = [n \in Names |-> NoLaunch]
    /\ watched = {}
    /\ enforced = {}
    /\ closed = {}
    /\ sweep = SweepOff
    /\ signalled = {}
    /\ ended = [l \in Launches |-> "no"]

-----------------------------------------------------------------------------
(* The launcher.                                                           *)

Goto(l, where) == pc' = [pc EXCEPT ![l] = where]

\* create_cgroup, the limits and get_cgroup_id
MakeCgroup(l) ==
    /\ pc[l] = "start"
    /\ Goto(l, "made")
    /\ dirs' = dirs \cup {l}
    /\ UNCHANGED <<procs, inbox, reply, mapVars, sweep, signalled, ended>>

\* register_with_daemon: the request is sent
Ask(l) ==
    /\ pc[l] = "made"
    /\ Goto(l, "asked")
    /\ inbox' = inbox \cup {l}
    /\ UNCHANGED <<dirs, procs, reply, mapVars, sweep, signalled, ended>>

\* Mutant: the launcher goes on even if the daemon refused
AcknowledgedAny(l) ==
    /\ pc[l] = "asked"
    /\ reply[l] # "none"
    /\ Goto(l, "joining")
    /\ UNCHANGED <<dirs, procs, inbox, reply, mapVars, sweep, signalled, ended>>

Acknowledged(l) ==
    /\ pc[l] = "asked"
    /\ reply[l] = "ack"
    /\ Goto(l, "joining")
    /\ UNCHANGED <<dirs, procs, inbox, reply, mapVars, sweep, signalled, ended>>

\* The daemon refused, cannot be reached, or has not answered within five
\* seconds: the launcher removes its directory and exits.  A request that
\* was sent stays on its way.
GiveUp(l) ==
    /\ pc[l] = "made" \/ (pc[l] = "asked" /\ reply[l] # "ack")
    /\ Goto(l, "gone")
    /\ dirs' = dirs \ {l}
    /\ UNCHANGED <<procs, inbox, reply, mapVars, sweep, signalled, ended>>

\* move_to_cgroup, which fails if the directory is no longer there
Join(l) ==
    /\ pc[l] = "joining"
    /\ IF l \in dirs
       THEN Goto(l, "inside") /\ procs' = [procs EXCEPT ![l] = 1]
       ELSE Goto(l, "gone") /\ UNCHANGED procs
    /\ UNCHANGED <<dirs, inbox, reply, mapVars, sweep, signalled, ended>>

\* The sandbox is set up and the launcher becomes the agent
Exec(l) ==
    /\ pc[l] = "inside"
    /\ Goto(l, "running")
    /\ UNCHANGED <<dirs, procs, inbox, reply, mapVars, sweep, signalled, ended>>

Fork(l) ==
    /\ pc[l] = "running"
    /\ procs[l] \in 1 .. MaxProcs - 1
    /\ procs' = [procs EXCEPT ![l] = @ + 1]
    /\ UNCHANGED <<pc, dirs, inbox, reply, mapVars, sweep, signalled, ended>>

\* A process of the cgroup ends: the launcher, when a step after it joined
\* fails (its directory cannot be removed while it is in it), or the agent.
ProcExit(l) ==
    /\ procs[l] > 0
    /\ procs' = [procs EXCEPT ![l] = @ - 1]
    /\ pc' = IF procs[l] = 1 THEN [pc EXCEPT ![l] = "gone"] ELSE pc
    /\ UNCHANGED <<dirs, inbox, reply, mapVars, sweep, signalled, ended>>

\* The launcher is killed before it joined and leaves its directory behind
Killed(l) ==
    /\ pc[l] \in {"made", "asked", "joining"}
    /\ Goto(l, "gone")
    /\ UNCHANGED <<dirs, procs, inbox, reply, mapVars, sweep, signalled, ended>>

-----------------------------------------------------------------------------
(* The daemon.                                                             *)

\* cgroup_cleanup_task holds the mutex for the whole of a sweep.
Locked == sweep.on

\* handle_register, once the agent has a configuration (see ConfigStore).
\* The maps have the same size and `enforced` is part of `watched`, so only
\* the first insertion, and the one into FAIL_CLOSED_CGROUPS, can fail.  An
\* earlier registration under the same name is overwritten.
Register(l) ==
    /\ l \in inbox
    /\ ~Locked
    /\ inbox' = inbox \ {l}
    /\ IF l \in watched \/ Cardinality(watched) < Capacity
       THEN /\ watched' = watched \cup {l}
            /\ enforced' = IF Enforce THEN enforced \cup {l} ELSE enforced
            /\ closed' = IF NameOf[l] \in FailClosed /\ Cardinality(closed) < Capacity
                         THEN closed \cup {l} ELSE closed
            /\ agents' = [agents EXCEPT ![NameOf[l]] = l]
            /\ reply' = [reply EXCEPT ![l] = "ack"]
       ELSE /\ reply' = [reply EXCEPT ![l] = "error"]
            /\ UNCHANGED mapVars
    /\ UNCHANGED <<pc, dirs, procs, sweep, signalled, ended>>

\* cleanup_agent: FAIL_CLOSED_CGROUPS is left alone; the directory goes only
\* if no process is in it.
CleanUp(n, why) ==
    LET l == agents[n] IN
    /\ agents' = [agents EXCEPT ![n] = NoLaunch]
    /\ watched' = watched \ {l}
    /\ enforced' = enforced \ {l}
    /\ dirs' = IF procs[l] = 0 THEN dirs \ {l} ELSE dirs
    /\ ended' = [ended EXCEPT ![l] = why]
    /\ UNCHANGED closed

\* stop_agent, from guardian-ctl and from the dashboard
StopAgent(n) ==
    /\ "stop" \in Ops
    /\ ~Locked
    /\ agents[n] # NoLaunch
    /\ signalled' = signalled \cup {agents[n]}
    /\ CleanUp(n, "stopped")
    /\ UNCHANGED <<pc, procs, inbox, reply, sweep>>

\* delete_agent cleans up a running agent, without a signal
DeleteAgent(n) ==
    /\ "delete" \in Ops
    /\ ~Locked
    /\ agents[n] # NoLaunch
    /\ CleanUp(n, "deleted")
    /\ UNCHANGED <<pc, procs, inbox, reply, sweep, signalled>>

\* Mutant: a cgroup whose processes cannot be read is not empty
NoProcessesReadable(l) == l \in dirs /\ procs[l] = 0

\* count_cgroup_processes = 0, which is also the answer for a directory that
\* is not there.
NoProcesses(l) == procs[l] = 0

SweepStart ==
    /\ ~Locked
    /\ sweep' = [on |-> TRUE, todo |-> {n \in Names : agents[n] # NoLaunch}, empty |-> {}]
    /\ UNCHANGED <<launchVars, reply, mapVars, signalled, ended>>

\* The cgroup of one registered agent is looked at.  `ended` notes here what
\* the sweep is going to do.
SweepLook(n) ==
    LET l == agents[n] IN
    /\ sweep.on /\ n \in sweep.todo
    /\ sweep' = [sweep EXCEPT !.todo = @ \ {n},
                              !.empty = IF NoProcesses(l) THEN @ \cup {n} ELSE @]
    /\ ended' = IF NoProcesses(l) THEN [ended EXCEPT ![l] = "empty"] ELSE ended
    /\ UNCHANGED <<launchVars, reply, mapVars, signalled>>

\* Then each agent found empty is cleaned up, whatever has joined it since.
SweepClean(n) ==
    /\ sweep.on /\ sweep.todo = {} /\ n \in sweep.empty
    /\ CleanUp(n, "empty")
    /\ sweep' = [sweep EXCEPT !.empty = @ \ {n}]
    /\ UNCHANGED <<pc, procs, inbox, reply, signalled>>

SweepEnd ==
    /\ sweep.on /\ sweep.todo = {} /\ sweep.empty = {}
    /\ sweep' = SweepOff
    /\ UNCHANGED <<launchVars, reply, mapVars, signalled, ended>>

\* The daemon is stopped and started: the maps are new and empty, requests
\* under way are lost, running agents are not looked for.
Restart ==
    /\ "restart" \in Ops
    /\ inbox' = {}
    /\ agents' = [n \in Names |-> NoLaunch]
    /\ watched' = {}
    /\ enforced' = {}
    /\ closed' = {}
    /\ sweep' = SweepOff
    /\ ended' = [l \in Launches |-> IF l \in watched THEN "restart" ELSE ended[l]]
    /\ UNCHANGED <<pc, dirs, procs, reply, signalled>>

Next ==
    \/ \E l \in Launches : MakeCgroup(l)
    \/ \E l \in Launches : Ask(l)
    \/ \E l \in Launches : Acknowledged(l)
    \/ \E l \in Launches : GiveUp(l)
    \/ \E l \in Launches : Join(l)
    \/ \E l \in Launches : Exec(l)
    \/ \E l \in Launches : Fork(l)
    \/ \E l \in Launches : ProcExit(l)
    \/ \E l \in Launches : Killed(l)
    \/ \E l \in Launches : Register(l)
    \/ \E n \in Names : StopAgent(n)
    \/ \E n \in Names : DeleteAgent(n)
    \/ SweepStart
    \/ \E n \in Names : SweepLook(n)
    \/ \E n \in Names : SweepClean(n)
    \/ SweepEnd
    \/ Restart

\* The interval timer of the cleanup task fires again and again, the mutex
\* is fair, and a sweep that has begun goes on.  Nothing is assumed of
\* launchers, agents or people.
Spec ==
    /\ Init
    /\ [][Next]_vars
    /\ WF_vars(SweepStart)
    /\ \A n \in Names : WF_vars(SweepLook(n)) /\ WF_vars(SweepClean(n))
    /\ WF_vars(SweepEnd)

-----------------------------------------------------------------------------

\* An agent's processes are watched, and in enforce mode enforced, until
\* its own cgroup was found empty, it was stopped or deleted, or the daemon
\* restarted.  Another launch under the same name, registered, swept or
\* stopped at any moment, never takes its monitoring away.
WatchedUntilEnded ==
    \A l \in Launches : procs[l] > 0 /\ ended[l] = "no" =>
        l \in watched /\ (Enforce => l \in enforced)

\* The cleanup task lets go of every registered agent that has ended, also
\* when its launcher removed the directory or registered too late.
EndedIsForgotten ==
    \A l \in Launches :
        (agents[NameOf[l]] = l /\ pc[l] = "gone") ~> (agents[NameOf[l]] # l)

-----------------------------------------------------------------------------
(* What the documentation says of it.                                      *)

\* docs/phase_3_implementation.md: the agent that exec starts is monitored
\* through WATCHED_CGROUPS; only an agent all of whose processes have exited
\* is cleaned up.
RunningIsWatched ==
    \A l \in Launches : pc[l] = "running" /\ ended[l] \in {"no", "empty"} => l \in watched

\* USAGE.md: when the agent exits, the daemon cleans up the BPF maps.
MapsCleanedUp == \A l \in Launches : (pc[l] = "gone") ~> (l \notin watched)

\* The comment in delete_agent: a running agent is stopped first.
DeletedIsStopped ==
    \A l \in Launches : ended[l] = "deleted" /\ procs[l] > 0 => l \in signalled
=============================================================================
