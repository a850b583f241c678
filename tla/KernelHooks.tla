---------------------------- MODULE KernelHooks ----------------------------
(***************************************************************************)
(* Kernel-side enforcement of the eBPF programs.                           *)
(*                                                                         *)
(* A system call of an enforced process is judged when it enters the       *)
(* kernel, by a tracepoint that sees the path or the port but cannot       *)
(* block; a verdict "deny" is left in a PENDING_*_DENY map under the       *)
(* thread's id, or, when that map is full, in the one slot per CPU of its  *)
(* overflow array.  The LSM hook the same call reaches later consumes the  *)
(* entry and fails the call.  Between the two the thread may be preempted, *)
(* moved to another CPU, or leave the call with an error that no hook      *)
(* sees.                                                                   *)
(*                                                                         *)
(* A path, a command or a port is a target; a rule list is the set of      *)
(* targets it matches.                                                     *)
(***************************************************************************)
EXTENDS Naturals, FiniteSets

CONSTANTS
    Threads,     \* the threads (pid_tgid) of watched processes
    Enforced,    \* those of them whose agent is in enforce mode
    Cpus,
    Home,        \* [Threads -> Cpus]: the CPU each thread starts on
    Movable,     \* the threads the scheduler may move to another CPU
    Targets,     \* paths, commands and ports
    Length,      \* [Targets -> Nat]: length as read; 0 for what is never
                 \* judged (the empty path, port 0, another address family)
    MaxLength,   \* MAX_FILENAME_LEN - 1: a path this long was truncated
    LinkerLength,\* length of the dynamic linker's path
    Lists,       \* [RuleLists -> SUBSET Targets]
    DefaultAllow,\* [{"file", "exec", "net"} -> BOOLEAN]
    Calls,       \* the system calls the threads make
    Capacity     \* max_entries of a PENDING_*_DENY map

ExactLists == {"DENY_EXACT", "READONLY_EXACT", "ALLOW_EXACT",
               "EXEC_DENY_EXACT", "EXEC_ALLOW_EXACT"}

PrefixLists == {"DENY_PREFIXES", "READONLY_PREFIXES", "ALLOW_PREFIXES",
                "EXEC_DENY_PREFIXES", "EXEC_ALLOW_PREFIXES"}

PortLists == {"NET_DENY_PORTS", "NET_ALLOW_PORTS"}

RuleLists == ExactLists \cup PrefixLists \cup PortLists

\* One pending map, one overflow array and one LSM hook of each kind
Hooks == {"file", "exec", "net", "rename", "unlink", "link"}

\* The traced calls: opath is an open with O_PATH, linker an execve of the
\* dynamic linker, execfd an execveat with AT_EMPTY_PATH, rmdir an unlinkat
\* with AT_REMOVEDIR
Kinds == {"open", "opath", "exec", "linker", "execfd", "connect",
          "rename", "unlink", "rmdir", "link"}

\* What the tracepoint has to read from user memory
Arguments(kind) == {"target"} \cup (IF kind = "rename" THEN {"dest"} ELSE {})
                              \cup (IF kind = "opath" THEN {"flags"} ELSE {})

ASSUME HooksAssumption ==
    /\ IsFiniteSet(Threads) /\ IsFiniteSet(Cpus)
    /\ Enforced \subseteq Threads
    /\ Home \in [Threads -> Cpus]
    /\ Movable \subseteq Threads
    /\ Calls \subseteq [kind : Kinds, target : Targets, dest : Targets]
    /\ Length \in [Targets -> Nat]
    /\ MaxLength \in Nat /\ LinkerLength \in Nat /\ Capacity \in Nat
    /\ Lists \in [RuleLists -> SUBSET Targets]
    /\ DefaultAllow \in [{"file", "exec", "net"} -> BOOLEAN]

VARIABLES
    cpu,      \* the CPU each thread runs on
    thread,   \* where each thread is in its current or last call
    pend,     \* the keys of each PENDING_*_DENY map
    slot,     \* the overflow slot of each map on each CPU, empty or one thread
    residue,  \* extent of what EVENT_BUF.filename still holds, per CPU
    owed,     \* history: verdicts against each thread that have not blocked a call yet,
              \* per map and up to MostEntries
    held      \* history: where the last verdict against each thread is held

vars == <<cpu, thread, pend, slot, residue, owed, held>>

\* A verdict is in the map, in the slot of the CPU its thread is on, or lost: in a slot
\* that another thread has taken since, or on a CPU that its thread has left since.
Places == {"map", "slot", "lost"}

ThreadRecord ==
    [in     : BOOLEAN,               \* inside a call
     call   : Calls,
     denied : BOOLEAN,               \* the tracepoint's verdict
     policy : BOOLEAN,               \* history: its verdict, had EVENT_BUF been cleared
     at     : Hooks \cup {"end"},    \* the next LSM hook
     result : {"none", "passed", "blocked", "failed"}]

\* The most entries a thread can have for one hook: one in the map and, if that may be
\* full, one in the slot of each CPU
MostEntries == IF Cardinality(Threads) <= Capacity THEN 1 ELSE 1 + Cardinality(Cpus)

TypeOK ==
    /\ cpu \in [Threads -> Cpus]
    /\ thread \in [Threads -> ThreadRecord]
    /\ pend \in [Hooks -> SUBSET Threads]
    /\ slot \in [Hooks -> [Cpus -> SUBSET Threads]]
    /\ residue \in [Cpus -> Nat]
    /\ owed \in [Hooks -> [Threads -> 0..MostEntries]]
    /\ held \in [Threads -> Places]

Init ==
    /\ cpu = Home
    /\ \E c \in Calls :
           thread = [t \in Threads |->
                        [in |-> FALSE, call |-> c, denied |-> FALSE, policy |-> FALSE,
                         at |-> "end", result |-> "none"]]
    /\ pend = [h \in Hooks |-> {}]
    /\ slot = [h \in Hooks |-> [c \in Cpus |-> {}]]
    /\ residue = [c \in Cpus |-> 0]
    /\ owed = [h \in Hooks |-> [t \in Threads |-> 0]]
    /\ held = [t \in Threads |-> "map"]

-----------------------------------------------------------------------------
(* Policy evaluation.  An exact rule is found only if the whole buffer is   *)
(* compared clean (`exact`): bytes left over behind a shorter path spoil    *)
(* the key, while the longest-prefix lookup is given the length.            *)

\* Mutant: the prefix lookup is given the whole buffer, too
HitWholeBuffer(list, p, exact) == p \in Lists[list] /\ exact

Hit(list, p, exact) == p \in Lists[list] /\ (list \in ExactLists => exact)

EvaluatePolicy(p, exact) ==
    /\ ~Hit("DENY_EXACT", p, exact)
    /\ ~Hit("DENY_PREFIXES", p, exact)
    /\ \/ \E l \in {"READONLY_EXACT", "READONLY_PREFIXES", "ALLOW_EXACT", "ALLOW_PREFIXES"} :
              Hit(l, p, exact)
       \/ DefaultAllow["file"]

IsReadonly(p, exact) == Hit("READONLY_EXACT", p, exact) \/ Hit("READONLY_PREFIXES", p, exact)

EvaluateExecPolicy(p, exact) ==
    /\ ~Hit("EXEC_DENY_EXACT", p, exact)
    /\ ~Hit("EXEC_DENY_PREFIXES", p, exact)
    /\ \/ Hit("EXEC_ALLOW_EXACT", p, exact)
       \/ Hit("EXEC_ALLOW_PREFIXES", p, exact)
       \/ DefaultAllow["exec"]

EvaluateNetPolicy(p) ==
    /\ ~Hit("NET_DENY_PORTS", p, TRUE)
    /\ Hit("NET_ALLOW_PORTS", p, TRUE) \/ DefaultAllow["net"]

\* A destructive operation on a path read into a buffer
Destructible(p, exact) == ~IsReadonly(p, exact) /\ EvaluatePolicy(p, exact)

\* Reading a path of length n over `old` bytes: its terminator clears one
\* byte behind it, anything further stays.
Over(old, n) == IF old > n + 1 THEN old ELSE n

\* The verdict of the tracepoint of a call, given the arguments it could
\* read and the extent of what EVENT_BUF held; rename, unlink and link read
\* over it, the others clear the buffer first.
Denies(c, read, old) ==
    LET p == c.target
        q == c.dest
        clean == old <= Length[p] + 1
        judged == "target" \in read /\ Length[p] > 0
        open == judged /\ (Length[p] >= MaxLength \/ ~EvaluatePolicy(p, TRUE))
    IN  CASE c.kind = "open"    -> open
          [] c.kind = "opath"   -> open /\ "flags" \notin read
          [] c.kind = "exec"    -> judged /\ ~EvaluateExecPolicy(p, TRUE)
          [] c.kind = "linker"  -> judged /\ ~EvaluateExecPolicy(p, LinkerLength <= Length[p] + 1)
          [] c.kind = "execfd"  -> TRUE
          [] c.kind = "connect" -> judged /\ ~EvaluateNetPolicy(p)
          [] c.kind \in {"unlink", "rmdir", "link"} -> judged /\ ~Destructible(p, clean)
          [] c.kind = "rename"  ->
                 \/ judged /\ ~Destructible(p, clean)
                 \/ /\ "dest" \in read /\ Length[q] > 0
                    /\ LET left == IF "target" \in read THEN Over(old, Length[p]) ELSE 0
                       IN  ~EvaluatePolicy(q, left <= Length[q] + 1)

\* The pending map a tracepoint writes to
MapOf(kind) ==
    CASE kind \in {"open", "opath"} -> "file"
      [] kind \in {"exec", "linker", "execfd"} -> "exec"
      [] kind = "connect" -> "net"
      [] kind = "rename" -> "rename"
      [] kind \in {"unlink", "rmdir"} -> "unlink"
      [] kind = "link" -> "link"

\* The hooks a call passes: an O_PATH open and the removal of a directory
\* pass none of these, an exec opens the binary before bprm_check_security.
FirstHook(kind) ==
    CASE kind \in {"opath", "rmdir"} -> "end"
      [] kind \in {"exec", "linker", "execfd"} -> "file"
      [] OTHER -> MapOf(kind)

NextHook(kind, h) == IF h = MapOf(kind) THEN "end" ELSE MapOf(kind)

-----------------------------------------------------------------------------

\* What the tracepoint leaves in EVENT_BUF.  A failed read clears the
\* buffer; a rename stops at a denied source.
ResidueAfter(c, read, old) ==
    LET first == IF "target" \in read THEN Over(old, Length[c.target]) ELSE 0
        second == IF "dest" \in read THEN Over(first, Length[c.dest]) ELSE 0
    IN  CASE c.kind \in {"open", "opath"} -> IF "target" \in read THEN Length[c.target] ELSE 0
          [] c.kind \in {"unlink", "rmdir", "link"} -> first
          [] c.kind = "rename" -> IF Denies(c, read \ {"dest"}, old) THEN first ELSE second
          [] OTHER -> old

\* pending_insert_with_overflow
Insert(h, t) ==
    IF t \in pend[h] \/ Cardinality(pend[h]) < Capacity
    THEN pend' = [pend EXCEPT ![h] = @ \cup {t}] /\ slot' = slot
    ELSE slot' = [slot EXCEPT ![h][cpu[t]] = {t}] /\ pend' = pend

\* The map has no room for another entry of this thread.
Full(h, t) == t \notin pend[h] /\ Cardinality(pend[h]) >= Capacity

\* Another thread's verdict for the same hook is in the slot that t's is about to take.
Displaces(h, t, s) ==
    /\ Full(h, t)
    /\ held[s] = "slot" /\ cpu[s] = cpu[t] /\ MapOf(thread[s].call.kind) = h

NoteHeld(h, t) ==
    held' = [s \in Threads |->
                IF s = t THEN IF Full(h, t) THEN "slot" ELSE "map"
                ELSE IF Displaces(h, t, s) THEN "lost" ELSE held[s]]

\* The sys_enter tracepoint of a call, able to read `read` of its arguments
Enter(t, c, read) ==
    LET old == residue[cpu[t]]
        deny == t \in Enforced /\ Denies(c, read, old)
    IN  /\ ~thread[t].in
        /\ thread' = [thread EXCEPT ![t] =
                         [in |-> TRUE, call |-> c, denied |-> deny,
                          policy |-> t \in Enforced /\ Denies(c, read, 0),
                          at |-> FirstHook(c.kind), result |-> "none"]]
        /\ IF deny THEN Insert(MapOf(c.kind), t) ELSE UNCHANGED <<pend, slot>>
        /\ IF deny THEN NoteHeld(MapOf(c.kind), t) ELSE UNCHANGED held
        /\ owed' = IF deny
                   THEN [owed EXCEPT ![MapOf(c.kind)][t] = IF @ < MostEntries THEN @ + 1 ELSE @]
                   ELSE owed
        /\ residue' = IF t \in Enforced \/ c.kind \in {"open", "opath"}
                      THEN [residue EXCEPT ![cpu[t]] = ResidueAfter(c, read, old)] ELSE residue
        /\ UNCHANGED cpu

\* Mutant: the hook looks the entry up but leaves it there
ConsumeKeeps(h, t) == UNCHANGED <<pend, slot>>

\* pending_check_and_consume, when it finds an entry: the map first
Consume(h, t) ==
    IF t \in pend[h]
    THEN pend' = [pend EXCEPT ![h] = @ \ {t}] /\ slot' = slot
    ELSE slot' = [slot EXCEPT ![h][cpu[t]] = {}] /\ pend' = pend

\* Mutant: the hook does not look into the overflow slot
IsPendingInMap(h, t) == t \in pend[h]

IsPending(h, t) == t \in pend[h] \/ t \in slot[h][cpu[t]]

\* The next LSM hook of the call finds an entry: the call fails
Block(t) ==
    LET h == thread[t].at IN
    /\ thread[t].in
    /\ h # "end"
    /\ IsPending(h, t)
    /\ Consume(h, t)
    /\ owed' = [owed EXCEPT ![h][t] = IF @ > 0 THEN @ - 1 ELSE @]
    /\ thread' = [thread EXCEPT ![t].in = FALSE, ![t].result = "blocked"]
    /\ UNCHANGED <<cpu, residue, held>>

\* It finds none: the call goes on to its next hook
Pass(t) ==
    LET h == thread[t].at IN
    /\ thread[t].in
    /\ h # "end"
    /\ ~IsPending(h, t)
    /\ thread' = [thread EXCEPT ![t].at = NextHook(thread[t].call.kind, h)]
    /\ UNCHANGED <<cpu, pend, slot, residue, owed, held>>

\* The call is past its last hook and takes effect
Return(t) ==
    /\ thread[t].in
    /\ thread[t].at = "end"
    /\ thread' = [thread EXCEPT ![t].in = FALSE, ![t].result = "passed"]
    /\ UNCHANGED <<cpu, pend, slot, residue, owed, held>>

\* The call fails before its next hook: no such file, permission bits, a
\* bad descriptor.  Nothing clears the pending entry.
FailEarly(t) ==
    /\ thread[t].in
    /\ thread[t].at # "end"
    /\ thread' = [thread EXCEPT ![t].in = FALSE, ![t].result = "failed"]
    /\ UNCHANGED <<cpu, pend, slot, residue, owed, held>>

\* The scheduler moves a thread
Migrate(t, c) ==
    /\ t \in Movable
    /\ c # cpu[t]
    /\ cpu' = [cpu EXCEPT ![t] = c]
    /\ held' = [held EXCEPT ![t] = IF @ = "slot" THEN "lost" ELSE @]
    /\ UNCHANGED <<thread, pend, slot, residue, owed>>

Next ==
    \/ \E t \in Threads, c \in Calls : \E read \in SUBSET Arguments(c.kind) : Enter(t, c, read)
    \/ \E t \in Threads : Block(t)
    \/ \E t \in Threads : Pass(t)
    \/ \E t \in Threads : Return(t)
    \/ \E t \in Threads : FailEarly(t)
    \/ \E t \in Threads, c \in Cpus : Migrate(t, c)

Spec == Init /\ [][Next]_vars

-----------------------------------------------------------------------------

\* A call that the tracepoint denied and that reaches an LSM hook takes effect in one way
\* only: the pending map was full, so that its verdict went to the slot of the CPU, and
\* before the hook another thread took that slot or the thread left that CPU.  Neither
\* preemption, nor entries that other calls left behind, nor a map that fills up later
\* let a denied call through.
OnlyLostVerdictsPass ==
    \A t \in Threads :
        thread[t].denied /\ FirstHook(thread[t].call.kind) # "end" /\ thread[t].result = "passed"
        => held[t] = "lost"

\* The entries of a thread that wait for a hook
Entries(h, t) ==
    Cardinality({c \in Cpus : t \in slot[h][c]}) + (IF t \in pend[h] THEN 1 ELSE 0)

\* A verdict blocks at most one call: the entries a thread has left behind, in the map
\* or in the slots of the CPUs it has been on, are never more than its verdicts that
\* have not blocked anything, however often the map overflows and its calls fail early.
OneBlockPerDenial ==
    \A h \in Hooks, t \in Threads : Entries(h, t) <= owed[h][t]

\* What other threads left in EVENT_BUF never makes a prefix rule miss: a call on a path
\* below a denied directory, which the tracepoint could read, takes effect only if its
\* verdict was lost from a slot.  (An exact rule may miss, see below.)
OnlyLostPrefixesPass ==
    \A t \in Threads :
        LET c == thread[t].call IN
        /\ thread[t].policy /\ thread[t].result = "passed"
        /\ c.kind \in {"open", "unlink", "link"}
        /\ c.target \in Lists["DENY_PREFIXES"]
        => thread[t].denied /\ held[t] = "lost"

\* What the comment on the overflow arrays says (ebpf main.rs 227-231): with them "the LSM
\* hook will still deny access even when the map is full", and since tracepoint and hook
\* run on one CPU "this is race-free".
DeniedNeverPasses ==
    \A t \in Threads :
        thread[t].denied /\ FirstHook(thread[t].call.kind) # "end" => thread[t].result # "passed"

\* What the comment on the O_PATH check and docs/phase_11 want: no entry
\* stays behind to block a later call that the policy allows.
NoFalseBlock == \A t \in Threads : thread[t].result = "blocked" => thread[t].denied

\* What the comments on the rename, unlink and link tracepoints say: a call
\* on a path that the rules deny, and that the tracepoint could read, is
\* blocked.
DeniedByPolicyNeverPasses ==
    \A t \in Threads :
        thread[t].policy /\ FirstHook(thread[t].call.kind) # "end" => thread[t].result # "passed"
=============================================================================
