-------------------------- MODULE ProcessTracking --------------------------
(***************************************************************************)
(* How the daemon and its tracepoints follow the processes of agents that  *)
(* are identified by name, and what that means for their calls.            *)
(*                                                                         *)
(* A task is watched when its comm is an agent's, when its process is in   *)
(* WATCHED_TGIDS or CHILD_PIDS, or when it runs in a registered cgroup; it *)
(* is enforced by its comm, by ENFORCE_TGIDS or by its cgroup.  The fork   *)
(* tracepoint enters the children of watched processes, the daemon looks   *)
(* through /proc from time to time, and the exit tracepoint removes        *)
(* CHILD_PIDS entries only.  Threads and processes draw their ids from one *)
(* space, ids are used again, and a task changes its comm by prctl or by   *)
(* running another program.                                                *)
(***************************************************************************)
EXTENDS PolicyEval

CONSTANTS
    Ids,         \* the process and thread ids of the system
    NoTask,
    MaxEntries,  \* of CHILD_PIDS, WATCHED_TGIDS and ENFORCE_TGIDS
    Programs,    \* the paths passed to execve
    Targets,     \* the files, programs and ports of other calls, by kind
    Grants,      \* the rules temporary grants may add to the allow maps
    Spellings    \* ways of writing a path

\* cg is 0 or the agent in whose registered cgroup the task runs
Task == [tgid : Ids, comm : Names, cg : DOMAIN Agents \cup {0}, alive : BOOLEAN]

ASSUME TrackingAssumption ==
    /\ IsFiniteSet(Ids)
    /\ NoTask \notin Task
    /\ MaxEntries \in Nat
    /\ DOMAIN Targets \subseteq Kinds
    /\ Spellings \subseteq Seq(STRING)
    /\ \A p \in Programs : CommKey(Last(p)) \in Names

VARIABLES
    task,      \* the task of each id
    watched,   \* keys of WATCHED_TGIDS
    children,  \* keys of CHILD_PIDS
    enforced,  \* keys of ENFORCE_TGIDS
    inherits   \* history: the processes forked by a watched process

vars == <<task, watched, children, enforced, inherits>>

Present(t) == task[t] # NoTask
Live(t) == Present(t) /\ task[t].alive
Members(p) == {t \in Ids : Live(t) /\ task[t].tgid = p}

IsWatched(t) ==
    \/ task[t].cg # 0
    \/ task[t].comm \in WatchedComms
    \/ task[t].tgid \in watched \cup children

IsEnforcing(t) ==
    \/ Enforcing /\ task[t].cg # 0
    \/ task[t].comm \in EnforceComms
    \/ task[t].tgid \in enforced

\* What the tracepoint of execve takes for the program: of a dynamic linker
\* its argv[1]; <<>> stands for one that cannot be read, or is not there
Judged(prog, arg) == IF prog \in Linkers /\ arg # <<>> THEN arg ELSE prog

ExecWay(prog, arg) ==
    IF prog \notin Linkers THEN "usual"
    ELSE IF arg = <<>> THEN "bare_linker"
    ELSE IF Shorter(arg, prog) THEN "linked_short" ELSE "linked"

\* A program is denied by the tracepoint of execve and refused by its hook
ExecBlocked(t, prog, arg) ==
    /\ IsWatched(t) /\ IsEnforcing(t)
    /\ ~ KernelAllows("exec", ExecWay(prog, arg), Judged(prog, arg), task[t].comm, task[t].cg, {})

Full(map) == Cardinality(map) >= MaxEntries

\* A key that is there is updated; a new one needs room
Insert(map, k) == IF k \in map \/ ~ Full(map) THEN map \cup {k} ELSE map

----------------------------------------------------------------------------
(* Tasks come, go and change.                                              *)

\* A process of somebody else's, or one that guardian-launch has put into the
\* registered cgroup of an agent
Start(id, comm, cg) ==
    /\ ~ Present(id)
    /\ cg = 0 \/ cg \in DOMAIN Agents \ CommAgents
    /\ task' = [task EXCEPT ![id] = [tgid |-> id, comm |-> comm, cg |-> cg, alive |-> TRUE]]
    /\ UNCHANGED <<watched, children, enforced, inherits>>

\* Mutant: a child of a process that goes by an agent's name is left to its name
ForkUnlessNamed(t, id) ==
    IF IsWatched(t) /\ task[t].comm \notin WatchedComms
    THEN children' = Insert(children, id) /\ watched' = Insert(watched, id)
    ELSE UNCHANGED <<children, watched>>

\* sched_process_fork, which also runs for a new thread and then enters its id
ForkTrack(t, id) ==
    IF IsWatched(t)
    THEN children' = Insert(children, id) /\ watched' = Insert(watched, id)
    ELSE UNCHANGED <<children, watched>>

Fork(t, id) ==
    /\ Live(t) /\ ~ Present(id)
    /\ task' = [task EXCEPT ![id] = [task[t] EXCEPT !.tgid = id]]
    /\ ForkTrack(t, id)
    /\ inherits' = IF IsWatched(t) THEN inherits \cup {id} ELSE inherits
    /\ UNCHANGED <<enforced>>

Clone(t, id) ==
    /\ Live(t) /\ ~ Present(id)
    /\ task' = [task EXCEPT ![id] = task[t]]
    /\ ForkTrack(t, id)
    /\ UNCHANGED <<enforced, inherits>>

\* prctl(PR_SET_NAME)
Rename(t, comm) ==
    /\ Live(t)
    /\ task' = [task EXCEPT ![t].comm = comm]
    /\ UNCHANGED <<watched, children, enforced, inherits>>

\* sched_process_exit, for every task that ends
ExitTrack(p) == children' = children \ {p} /\ UNCHANGED watched

\* A program that is not refused: the other tasks of the process end, and the
\* caller goes on under the id and the comm of the process
Exec(t, prog, arg) ==
    LET p == task[t].tgid
        new == [task[t] EXCEPT !.comm = CommKey(Last(prog))]
    IN  /\ Live(t) /\ ~ ExecBlocked(t, prog, arg)
        /\ prog \in Linkers \/ arg = <<>>
        /\ task' = [i \in Ids |-> IF i = p THEN new
                                  ELSE IF i = t \/ i \in Members(p) THEN NoTask ELSE task[i]]
        /\ IF Members(p) = {t} THEN UNCHANGED <<children, watched>> ELSE ExitTrack(p)
        /\ UNCHANGED <<enforced, inherits>>

\* The id of a process is free when its last task has ended
Exit(t) ==
    LET p == task[t].tgid
        last == Members(p) = {t}
    IN  /\ Live(t)
        /\ task' = [i \in Ids |-> IF (last /\ i = p) \/ (i = t /\ t # p) THEN NoTask
                                  ELSE IF i = t THEN [task[t] EXCEPT !.alive = FALSE]
                                  ELSE task[i]]
        /\ ExitTrack(p)
        /\ inherits' = IF last THEN inherits \ {p} ELSE inherits
        /\ UNCHANGED <<enforced>>

----------------------------------------------------------------------------
(* The daemon.                                                             *)

\* find_pids_by_name compares the cut comm in /proc with the name in full
AgentNames == {ProcessName(Agents[i]) : i \in CommAgents}
Found == {p \in Ids : Present(p) /\ task[p].tgid = p /\ task[p].comm \in AgentNames}

\* Outcomes of entering these keys one by one, in the order of the directory
InsertAll(map, keys) ==
    IF Cardinality(map \cup keys) <= MaxEntries THEN {map \cup keys}
    ELSE {m \in SUBSET (map \cup keys) : map \subseteq m /\ Cardinality(m) = MaxEntries}

\* Mutant: the scan leaves alone what is watched already
RescanSkipsWatched ==
    /\ UNCHANGED <<task, children, inherits>>
    /\ watched' \in InsertAll(watched, Found)
    /\ enforced' \in InsertAll(enforced, Found \ watched)

\* Mutant: the scan enters what it finds into ENFORCE_TGIDS only
RescanEnforcesOnly ==
    /\ enforced' \in InsertAll(enforced, Found)
    /\ UNCHANGED <<task, watched, children, inherits>>

Rescan ==
    /\ UNCHANGED <<task, children, inherits>>
    /\ watched' \in InsertAll(watched, Found)
    /\ IF Enforcing THEN enforced' \in InsertAll(enforced, Found) ELSE UNCHANGED enforced

\* The daemon stops and starts: its maps are new and empty, and no cgroup is
\* registered.  It does not come up if the processes it finds do not fit.
Restart ==
    /\ Cardinality(Found) <= MaxEntries
    /\ watched' = Found
    /\ enforced' = IF Enforcing THEN Found ELSE {}
    /\ children' = {} /\ inherits' = {}
    /\ task' = [i \in Ids |-> IF Present(i) THEN [task[i] EXCEPT !.cg = 0] ELSE NoTask]

Init ==
    /\ task = [i \in Ids |-> NoTask]
    /\ watched = {} /\ children = {} /\ enforced = {} /\ inherits = {}

Next ==
    \/ \E id \in Ids, comm \in Names, cg \in DOMAIN Agents \cup {0} : Start(id, comm, cg)
    \/ \E t, id \in Ids : Fork(t, id) \/ Clone(t, id)
    \/ \E t \in Ids, comm \in Names : Rename(t, comm)
    \/ \E t \in Ids, prog \in Programs, arg \in Programs \cup {<<>>} : Exec(t, prog, arg)
    \/ \E t \in Ids : Exit(t)
    \/ Rescan \/ Restart

\* The scan runs on a timer for as long as the daemon does
Spec == Init /\ [][Next]_vars /\ WF_vars(Rescan)

----------------------------------------------------------------------------
(* Properties.                                                             *)

TypeOK ==
    /\ task \in [Ids -> Task \cup {NoTask}]
    /\ watched \subseteq Ids /\ children \subseteq Ids /\ enforced \subseteq Ids
    /\ inherits \subseteq Ids

\* A process that a watched process has forked stays watched whatever it runs or
\* calls itself, and whichever of its threads ends first (ebpf main.rs 882-917),
\* as long as WATCHED_TGIDS has had room.
TreeStaysWatched ==
    \A t \in Ids : Live(t) /\ task[t].tgid \in inherits => IsWatched(t) \/ Full(watched)

\* No task is enforced without being watched: the tracepoints test the first only
\* after the second, so its denials would be lost (main.rs 636-648, ebpf main.rs
\* 506-552).  The exception is again a full WATCHED_TGIDS.
EnforcedIsWatched ==
    \A t \in Ids : Live(t) /\ IsEnforcing(t) => IsWatched(t) \/ Full(watched)

\* The names under which a plain call is judged in one way by the kernel and in
\* another by the daemon
Disputed ==
    {call.comm : call \in
        {call \in UNION {[kind : {kind}, how : Ways[kind], target : Targets[kind], comm : Names,
                          granted : SUBSET Grants] : kind \in DOMAIN Targets} :
            /\ Plain(call.kind, call.how, call.comm, call.target, call.granted)
            /\ ~ (KernelAllows(call.kind, call.how, call.target, call.comm, 0, call.granted)
                     <=> ReportedAction(call.kind, call.comm, call.target) = "Allow")}}

\* Two evaluators, one verdict: a process outside the cgroups can make no plain call
\* that the kernel (ebpf main.rs 354-475), by the maps the daemon has filled (main.rs
\* 840-1125), lets through and the daemon, by its event, reports as denied, or the other
\* way round (config.rs 619-690, main.rs 1481-1717), whatever it has renamed itself to
\* and whichever grants are in force.  Plain says which calls this is not true of.
VerdictsAgree ==
    \A t \in Ids : Live(t) /\ IsEnforcing(t) /\ task[t].cg = 0 => task[t].comm \notin Disputed

\* The names under which a spelling is judged otherwise than the path it stands for.
\* The daemon normalises a path twice, so of /proc/<pid>/root inside /proc/<pid>/root
\* inside such a path it sees no end.
Hidden ==
    {e.comm : e \in
        {e \in [path : {raw \in Spellings : /\ ~ ThroughProcRoot(raw)
                                            /\ ~ ThroughProcRoot(Normalize(Resolved(raw)))},
                comm : Names] :
            ReportedAction("file", e.comm, e.path)
                # ReportedAction("file", e.comm, Resolved(e.path))}}

\* The daemon judges a path, however it is written with "..", "." and empty segments
\* anywhere, as the path it stands for (config.rs 561-613), also when it leads into
\* /proc/<pid>/root.  What a path stands for is its meaning as text: a relative path is
\* taken to start at "/", as the daemon takes it, wherever the process is, and symbolic
\* links are not followed.
SpellingHidesNothing ==
    \A t \in Ids : Live(t) /\ IsWatched(t) => task[t].comm \notin Hidden

\* Again and again the scan catches up (main.rs 612-650): every process that goes by
\* an agent's name is in ENFORCE_TGIDS, unless the map is full, however processes come
\* and change their names between two scans.
NamedIsEnforced ==
    []<>(Enforcing => \A p \in Found : p \in enforced \/ Full(enforced))
=============================================================================
