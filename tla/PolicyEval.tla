----------------------------- MODULE PolicyEval -----------------------------
(***************************************************************************)
(* The two evaluators of an agent's policy.  The kernel looks a call up in *)
(* hash maps and prefix tries that the daemon fills once, at its start,    *)
(* with the rules of all agents, and goes by the text the program passed.  *)
(* The daemon reads the event of the same call, finds an agent by the name *)
(* of the process, normalises the path and matches that agent's own        *)
(* patterns; what it finds becomes the severity and the action of an alert.*)
(*                                                                         *)
(* A path is what split('/') makes of it: "/a/b" is <<"", "a", "b">>, "/"  *)
(* is <<"", "">>, and a relative path does not start with "".  A pattern   *)
(* is "p/**" (tree), "p/*" (level) or p itself (exact).                    *)
(***************************************************************************)
EXTENDS Naturals, FiniteSets, SequencesExt

CONSTANTS
    Agents,      \* the agents of the configuration, in the order of the file
    Mode,        \* global.mode: "monitor", "enforce" or "strict"
    CommKey(_),  \* a process name cut to the 15 bytes of a comm
    PidNames,    \* the path segments that are made of digits
    MemfdNames,  \* the path segments that start with "memfd:"
    OnDisk,      \* the paths that exist when the rules are loaded
    Linkers,     \* the paths of DYNAMIC_LINKERS
    Shorter(_, _),  \* the text of the first path is shorter than that of the second
    Names        \* what a process may call itself

Kinds == {"file", "exec", "net"}

\* validate_config wants "allow" or "deny" of file and exec policies; of a
\* network policy it looks at nothing, so its default may be any word.
ASSUME PolicyAssumption ==
    /\ DOMAIN Agents \subseteq Nat \ {0} /\ 1 \in DOMAIN Agents
    /\ \A i \in DOMAIN Agents :
          /\ Agents[i].file.default \in {"allow", "deny"}
          /\ Agents[i].exec.default \in {"allow", "deny", "unset"}

\* exec_policy or network_policy left out of the file
NoPolicy == [default |-> "unset", allow |-> {}, deny |-> {}, read_only |-> {}]

\* The daemon takes any other word for "deny", a policy left out for "allow" ...
DefaultAllows(policy) == policy.default \in {"allow", "unset"}

\* ... and enters any other word into the kernel's maps as "allow".
EntersAllow(policy) == policy.default # "deny"

Enforcing == Mode \in {"enforce", "strict"}

EffectiveIdentity(a) ==
    IF a.identity # "unset" THEN a.identity
    ELSE IF a.process_name # "unset" THEN "comm" ELSE "cgroup"

ProcessName(a) == IF a.process_name # "unset" THEN a.process_name ELSE a.name

CommAgents == {i \in DOMAIN Agents : EffectiveIdentity(Agents[i]) = "comm"}

\* The keys of WATCHED_COMMS and, when the daemon enforces, of ENFORCE_COMMS
WatchedComms == {CommKey(ProcessName(Agents[i])) : i \in CommAgents}
EnforceComms == IF Enforcing THEN WatchedComms ELSE {}

----------------------------------------------------------------------------
(* Normalisation of a path by the daemon.                                  *)

Root == <<"", "">>

\* /proc/self/root and /proc/<pid>/root, with nothing but digits, or with
\* nothing at all, for the pid
ThroughProcRoot(raw) ==
    /\ Len(raw) >= 4
    /\ raw[1] = "" /\ raw[2] = "proc" /\ raw[4] = "root"
    /\ raw[3] \in PidNames \cup {"self", ""}

\* Mutant: ".." is dropped, like ".", instead of undoing the segment before it
IgnoreDotDot(stack, seg) == IF seg \in {"", ".", ".."} THEN stack ELSE Append(stack, seg)

Walk(stack, seg) ==
    IF seg \in {"", "."} THEN stack
    ELSE IF seg = ".." THEN IF stack = <<>> THEN stack ELSE Front(stack)
    ELSE Append(stack, seg)

\* The names that are left after each number of segments
Stack(segments) ==
    LET stack[i \in 0..Len(segments)] ==
            IF i = 0 THEN <<>> ELSE Walk(stack[i - 1], segments[i])
    IN  stack

Normalize(raw) ==
    LET stripped == IF ThroughProcRoot(raw) THEN SubSeq(raw, 5, Len(raw)) ELSE raw
        names == Stack(stripped)[Len(stripped)]
    IN  IF names = <<>> THEN Root ELSE <<"">> \o names

----------------------------------------------------------------------------
(* The daemon's evaluation of an event.                                    *)

Under(p, path) == IsStrictPrefix(p, path)

PathMatches(path, pat) ==
    IF pat.kind = "tree" THEN path = pat.path \/ Under(pat.path, path)
    ELSE IF pat.kind = "level" THEN Under(pat.path, path) /\ Len(path) = Len(pat.path) + 1
    ELSE path = pat.path

Matched(path, patterns) == \E pat \in patterns : PathMatches(path, pat)

\* check_file_policy and check_exec_policy; an exec policy has no read_only
CheckPolicy(policy, path) ==
    LET p == Normalize(path)
    IN  /\ ~ Matched(p, policy.deny)
        /\ \/ Matched(p, policy.allow)
           \/ Matched(p, policy.read_only)
           \/ DefaultAllows(policy)

CheckNetworkPolicy(policy, port) ==
    /\ port \notin policy.deny
    /\ port \in policy.allow \/ DefaultAllows(policy)

Listed(comm) == \E i \in CommAgents : ProcessName(Agents[i]) = comm

\* comm_cache holds the last agent of a name; any other comm is taken for the
\* first agent
FindAgent(comm) ==
    IF Listed(comm)
    THEN CHOOSE i \in CommAgents :
            /\ ProcessName(Agents[i]) = comm
            /\ \A j \in CommAgents : ProcessName(Agents[j]) = comm => j <= i
    ELSE 1

UserAllows(kind, comm, target) ==
    LET policy == Agents[FindAgent(comm)][kind]
    IN  IF kind = "net" THEN CheckNetworkPolicy(policy, target)
        ELSE CheckPolicy(policy, Normalize(target))

\* The action of the alert.  Of the file and exec readers only mode "enforce"
\* counts as enforcing, of the network reader "strict" does too.
ReportedAction(kind, comm, target) ==
    IF UserAllows(kind, comm, target) THEN "Allow"
    ELSE IF Mode = "enforce" \/ (Mode = "strict" /\ kind = "net") THEN "Blocked"
    ELSE "Deny"
----------------------------------------------------------------------------
(* The maps the kernel reads, as the daemon fills them at its start.       *)

BinDirs == {<<"", "usr", "bin">>, <<"", "bin">>, <<"", "usr", "sbin">>, <<"", "sbin">>,
            <<"", "usr", "local", "bin">>}

LibDirs == {<<"", "usr", "lib">>, <<"", "usr", "lib64">>, <<"", "lib">>, <<"", "lib64">>}

\* /usr/lib and /lib stand for each other, and so do the lib64 directories
OtherLib(d) == IF Len(d) = 3 THEN <<"", d[3]>> ELSE <<"", "usr", d[2]>>

\* The other paths of a program or a library on a merged-usr system
SymlinkAlternates(p) ==
    IF \E d \in BinDirs : Under(d, p)
    THEN ({Append(d, Last(p)) : d \in BinDirs} \cap OnDisk) \ {p}
    ELSE {OtherLib(d) \o SubSeq(p, Len(d) + 1, Len(p)) :
             d \in {d \in LibDirs : Under(d, p) /\ OtherLib(d) \in OnDisk}}

\* The text a pattern is stored under: "/*" means nothing to the kernel
StoredPath(pat) == IF pat.kind = "level" THEN Append(pat.path, "*") ELSE pat.path

Alternates(pat) ==
    {[kind |-> IF pat.kind = "tree" THEN "tree" ELSE "exact", path |-> p] :
        p \in SymlinkAlternates(StoredPath(pat))}

\* Mutant: "p/**" is loaded as a prefix only, without p itself
PrefixOnly(raw, pat) ==
    IF pat.kind = "tree" THEN Under(pat.path, raw) ELSE raw = StoredPath(pat)

\* A lookup in the exact map and in the prefix trie a pattern was entered in
KeyMatches(raw, pat) ==
    IF pat.kind = "tree" THEN raw = pat.path \/ Under(pat.path, raw)
    ELSE raw = StoredPath(pat)

Hit(raw, patterns) == \E pat \in patterns : KeyMatches(raw, pat)

\* The rules of all agents share the maps
AllAgents == [kind \in Kinds |-> [list \in {"deny", "allow", "read_only"} |->
                 UNION {Agents[i][kind][list] : i \in DOMAIN Agents}]]

AlternateDeny == [kind \in {"file", "exec"} |-> UNION {Alternates(pat) : pat \in AllAgents[kind].deny}]

LoadedDeny == [kind \in {"file", "exec"} |-> AllAgents[kind].deny \cup AlternateDeny[kind]]

\* Programs run from memory are denied to everyone
IsMemfd(kind, raw) ==
    kind = "exec" /\ Len(raw) >= 2 /\ raw[1] = "" /\ raw[2] \in MemfdNames

\* DEFAULT_ACTION, EXEC_DEFAULT_ACTION and NET_DEFAULT_ACTION: the last agent
\* that is entered under a comm decides; a comm without an entry is allowed
Entered(kind, comm) ==
    {i \in CommAgents : /\ CommKey(ProcessName(Agents[i])) = comm
                        /\ Agents[i][kind].default # "unset"}

CommDefaultAllows(kind, comm) ==
    \A i \in Entered(kind, comm) :
        (\A j \in Entered(kind, comm) : j <= i) => EntersAllow(Agents[i][kind])

\* Only CGROUP_DEFAULT_ACTION is ever filled; cg is 0 outside every registered
\* cgroup and the number of the cgroup's agent inside one
KernelDefaultAllows(kind, comm, cg) ==
    IF kind = "file" /\ cg # 0 THEN EntersAllow(Agents[cg].file)
    ELSE CommDefaultAllows(kind, comm)

\* How a call is made.  "linked": a dynamic linker is run, and the target is
\* its argv[1]; "linked_short": the same with an argv[1] shorter than the
\* linker's path; "bare_linker": argv[1] is missing, empty or unreadable.
Ways == [file |-> {"usual", "truncated", "o_path", "unreadable"},
         exec |-> {"usual", "linked", "linked_short", "bare_linker", "unreadable"},
         net |-> {"usual"}]

\* The tracepoint evaluates nothing, so nothing is denied.
Skipped(kind, how, target) ==
    \/ how \in {"o_path", "unreadable", "bare_linker"}
    \/ kind = "net" /\ target = 0

\* argv[1] is read over the linker's path.  If it is shorter, the rest of that
\* path stays in the buffer, which is then no key of an exact map.
KeyHit(how, raw, patterns) ==
    IF how = "linked_short"
    THEN \E pat \in patterns : pat.kind = "tree" /\ Under(pat.path, raw)
    ELSE Hit(raw, patterns)

\* evaluate_policy, evaluate_exec_policy and evaluate_net_policy; granted are
\* the rules temporary grants have added to the allow maps
MapsAllow(kind, how, target, comm, cg, granted) ==
    IF kind = "net"
    THEN /\ target \notin AllAgents["net"].deny
         /\ target \in AllAgents["net"].allow \/ KernelDefaultAllows("net", comm, cg)
    ELSE /\ ~ KeyHit(how, target, LoadedDeny[kind]) /\ ~ IsMemfd(kind, target)
         /\ \/ KeyHit(how, target, AllAgents[kind].read_only)
            \/ KeyHit(how, target, AllAgents[kind].allow)
            \/ kind = "file" /\ Hit(target, granted)
            \/ KernelDefaultAllows(kind, comm, cg)

\* The tracepoints of open, execve and connect, for an enforced process: a
\* path that did not fit the buffer is denied unseen
KernelAllows(kind, how, target, comm, cg, granted) ==
    \/ Skipped(kind, how, target)
    \/ how # "truncated" /\ MapsAllow(kind, how, target, comm, cg, granted)

----------------------------------------------------------------------------
(* What the evaluators are compared by.                                    *)

\* In the kernel, a rule other than those of agent a applies to the target: a rule
\* of another agent, one made up for a merged-usr system, the one for programs in
\* memory or that of a temporary grant
OthersApply(kind, a, target, granted) ==
    IF kind = "net"
    THEN \E i \in DOMAIN Agents \ {a} : target \in Agents[i].net.deny \cup Agents[i].net.allow
    ELSE \/ \E i \in DOMAIN Agents \ {a}, list \in {"deny", "allow", "read_only"} :
               Hit(target, Agents[i][kind][list])
         \/ Hit(target, AlternateDeny[kind])
         \/ IsMemfd(kind, target)
         \/ kind = "file" /\ Hit(target, granted)

\* A "/*" rule of the agent covers the target, or is spelled like it
LevelApplies(kind, a, target) ==
    kind # "net" /\ \E list \in {"deny", "allow", "read_only"} :
        \E pat \in Agents[a][kind][list] :
            pat.kind = "level" /\ (PathMatches(target, pat) \/ KeyMatches(target, pat))

\* A call of a process outside the cgroups that both evaluators judge by the
\* same rules: it bears the name of one agent, only this agent's rules speak of
\* it, its path is as clean as normalize_path leaves it and was read in full,
\* and the agent's network default, if it comes to that, is a word both know.
\* The kernel judges other calls otherwise: it denies a truncated path, leaves
\* O_PATH opens, port 0 and a linker without argv[1] alone, and misses exact
\* rules for a short argv[1].
Plain(kind, how, comm, target, granted) ==
    LET a == FindAgent(comm)
    IN  /\ how \in {"usual", "linked"}
        /\ a \in CommAgents
        /\ \A i \in CommAgents : CommKey(ProcessName(Agents[i])) = comm <=> i = a
        /\ IF kind = "net"
           THEN target # 0 /\ Agents[a].net.default \in {"allow", "deny", "unset"}
           ELSE Normalize(Normalize(target)) = target
        /\ ~ OthersApply(kind, a, target, granted)
        /\ ~ LevelApplies(kind, a, target)

\* The names, and the ".."s, of a path between two of its segments
NamesIn(raw, i, j) == {k \in (i + 1)..j : raw[k] \notin {"", ".", ".."}}
UpsIn(raw, i, j) == {k \in (i + 1)..j : raw[k] = ".."}

\* What the first n segments of a path mean: a segment is left exactly if it is a
\* name that no later ".." undoes
Kept(raw, n) ==
    {i \in 1..n : /\ raw[i] \notin {"", ".", ".."}
                  /\ \A j \in i..n : Cardinality(UpsIn(raw, i, j)) <= Cardinality(NamesIn(raw, i, j))}

\* The numbers of a finite set in their order
Ascending(S) ==
    [k \in 1..Cardinality(S) |-> CHOOSE x \in S : Cardinality({y \in S : y < x}) = k - 1]

Resolved(raw) ==
    LET kept == Ascending(Kept(raw, Len(raw)))
    IN  IF kept = <<>> THEN Root ELSE <<"">> \o [k \in DOMAIN kept |-> raw[kept[k]]]
=============================================================================
