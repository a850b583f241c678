----------------------- MODULE ProcessTrackingProofs -----------------------
(***************************************************************************)
(* Proofs about ProcessTracking and PolicyEval, for every set of ids,      *)
(* every size of the maps and every configuration: the descendants of a    *)
(* watched process stay watched, what is enforced is watched, the two      *)
(* evaluators of the policy agree on plain calls, and a path is judged as  *)
(* the one it means.                                                       *)
(***************************************************************************)
EXTENDS ProcessTracking, FiniteSetTheorems, FunctionTheorems, SequenceTheorems, TLAPS

----------------------------------------------------------------------------
(* The maps.                                                               *)

\* A map that is full stays full while entries are only added to it.
LEMMA FullStays ==
    ASSUME NEW m \in SUBSET Ids, NEW n \in SUBSET Ids, m \subseteq n, Full(m)
    PROVE  Full(n)
<1>1. IsFiniteSet(n)
  BY FS_Subset, TrackingAssumption
<1>2. Cardinality(m) <= Cardinality(n)
  BY <1>1, FS_Subset
<1>3. Cardinality(m) \in Nat /\ Cardinality(n) \in Nat
  BY <1>1, FS_Subset, FS_CardinalityType
<1> QED
  BY <1>2, <1>3, TrackingAssumption DEF Full

\* Entering a key (BPF map insert) keeps the others, and fails only in a full map.
LEMMA InsertFacts ==
    ASSUME NEW m \in SUBSET Ids, NEW k \in Ids
    PROVE  /\ Insert(m, k) \in SUBSET Ids
           /\ m \subseteq Insert(m, k)
           /\ k \in Insert(m, k) \/ Full(Insert(m, k))
  BY DEF Insert

\* So does entering the ids a scan has found, in whatever order.
LEMMA InsertAllFacts ==
    ASSUME NEW m \in SUBSET Ids, NEW keys \in SUBSET Ids, NEW n \in InsertAll(m, keys)
    PROVE  /\ n \in SUBSET Ids
           /\ m \subseteq n
           /\ n \subseteq m \cup keys
           /\ keys \subseteq n \/ Full(n)
<1>1. CASE Cardinality(m \cup keys) <= MaxEntries
  BY <1>1 DEF InsertAll
<1>2. CASE ~ (Cardinality(m \cup keys) <= MaxEntries)
  <2>1. n \subseteq m \cup keys /\ m \subseteq n /\ Cardinality(n) = MaxEntries
    BY <1>2 DEF InsertAll
  <2> QED
    BY <2>1, TrackingAssumption DEF Full
<1> QED
  BY <1>1, <1>2

----------------------------------------------------------------------------
(* Types.                                                                  *)

\* A task that is there is a task record, also with a field replaced.
LEMMA TaskRecord ==
    ASSUME NEW r \in Task
    PROVE  /\ \A p \in Ids : [r EXCEPT !.tgid = p] \in Task
           /\ \A c \in Names : [r EXCEPT !.comm = c] \in Task
           /\ [r EXCEPT !.alive = FALSE] \in Task
           /\ [r EXCEPT !.cg = 0] \in Task
           /\ r.tgid \in Ids
  BY DEF Task

\* Every step of a task or of the daemon keeps the types.
LEMMA TypeStep ==
    ASSUME TypeOK, [Next]_vars
    PROVE  TypeOK'
<1>0. /\ task \in [Ids -> Task \cup {NoTask}]
      /\ watched \in SUBSET Ids /\ children \in SUBSET Ids /\ enforced \in SUBSET Ids
      /\ inherits \subseteq Ids
  BY DEF TypeOK
<1>t. \A t \in Ids : Present(t) => task[t] \in Task
  BY <1>0 DEF Present
<1>f. Found \in SUBSET Ids
  BY DEF Found
<1>1. ASSUME NEW id \in Ids, NEW comm \in Names, NEW cg \in DOMAIN Agents \cup {0},
             Start(id, comm, cg)
      PROVE  TypeOK'
  <2> DEFINE new == [tgid |-> id, comm |-> comm, cg |-> cg, alive |-> TRUE]
  <2>1. new \in Task
    BY DEF Task
  <2>2. task' = [task EXCEPT ![id] = new] /\ UNCHANGED <<watched, children, enforced, inherits>>
    BY <1>1 DEF Start
  <2> HIDE DEF new
  <2>3. task' \in [Ids -> Task \cup {NoTask}]
    BY <1>0, <2>1, <2>2
  <2> QED
    BY <2>2, <2>3 DEF TypeOK
<1>2. ASSUME NEW t \in Ids, NEW id \in Ids, Fork(t, id) \/ Clone(t, id)
      PROVE  TypeOK'
  <2> DEFINE new == IF Fork(t, id) THEN [task[t] EXCEPT !.tgid = id] ELSE task[t]
  <2>1. new \in Task
    BY <1>2, <1>t, TaskRecord DEF Fork, Clone, Live
  <2>2. task' = [task EXCEPT ![id] = new] /\ ForkTrack(t, id) /\ enforced' = enforced
    BY <1>2 DEF Fork, Clone
  <2> HIDE DEF new
  <2>3. task' \in [Ids -> Task \cup {NoTask}]
    BY <1>0, <2>1, <2>2
  <2>4. watched' \subseteq Ids /\ children' \subseteq Ids
    BY <2>2, <1>0 DEF ForkTrack, Insert
  <2>5. inherits' \subseteq Ids
    BY <1>2, <1>0 DEF Fork, Clone
  <2> QED
    BY <2>2, <2>3, <2>4, <2>5, <1>0 DEF TypeOK
<1>3. ASSUME NEW t \in Ids, NEW comm \in Names, Rename(t, comm)
      PROVE  TypeOK'
  <2> DEFINE new == [task[t] EXCEPT !.comm = comm]
  <2>1. new \in Task
    BY <1>3, <1>t, TaskRecord DEF Rename, Live
  <2>2. task' = [task EXCEPT ![t] = new] /\ UNCHANGED <<watched, children, enforced, inherits>>
    BY <1>3 DEF Rename
  <2> HIDE DEF new
  <2>3. task' \in [Ids -> Task \cup {NoTask}]
    BY <1>0, <2>1, <2>2
  <2> QED
    BY <2>2, <2>3 DEF TypeOK
<1>4. ASSUME NEW t \in Ids, NEW prog \in Programs, NEW arg, Exec(t, prog, arg)
      PROVE  TypeOK'
  <2> DEFINE p == task[t].tgid
  <2> DEFINE new == [task[t] EXCEPT !.comm = CommKey(Last(prog))]
  <2>1. new \in Task
    BY <1>4, <1>t, TaskRecord, TrackingAssumption DEF Exec, Live
  <2>2. task' = [i \in Ids |-> IF i = p THEN new
                               ELSE IF i = t \/ i \in Members(p) THEN NoTask ELSE task[i]]
    BY <1>4 DEF Exec
  <2> HIDE DEF new, p
  <2>3. task' \in [Ids -> Task \cup {NoTask}]
    BY <1>0, <2>1, <2>2
  <2>4. /\ watched' = watched /\ children' \subseteq children
        /\ enforced' = enforced /\ inherits' = inherits
    BY <1>4 DEF Exec, ExitTrack
  <2> QED
    BY <2>3, <2>4, <1>0 DEF TypeOK
<1>5. ASSUME NEW t \in Ids, Exit(t)
      PROVE  TypeOK'
  <2> DEFINE p == task[t].tgid
  <2> DEFINE last == Members(p) = {t}
  <2> DEFINE new == [task[t] EXCEPT !.alive = FALSE]
  <2>1. new \in Task
    BY <1>5, <1>t, TaskRecord DEF Exit, Live
  <2>2. task' = [i \in Ids |-> IF (last /\ i = p) \/ (i = t /\ t # p) THEN NoTask
                               ELSE IF i = t THEN new ELSE task[i]]
    BY <1>5 DEF Exit
  <2> HIDE DEF new, last, p
  <2>3. task' \in [Ids -> Task \cup {NoTask}]
    BY <1>0, <2>1, <2>2
  <2>4. /\ watched' = watched /\ children' \subseteq children
        /\ enforced' = enforced /\ inherits' \subseteq inherits
    BY <1>5 DEF Exit, ExitTrack
  <2> QED
    BY <2>3, <2>4, <1>0 DEF TypeOK
<1>6. CASE Rescan
  <2>1. task' = task /\ children' = children /\ inherits' = inherits
    BY <1>6 DEF Rescan
  <2>2. watched' \in SUBSET Ids
    BY <1>6, <1>0, <1>f, InsertAllFacts DEF Rescan
  <2>3. enforced' \in SUBSET Ids
    BY <1>6, <1>0, <1>f, InsertAllFacts DEF Rescan
  <2> QED
    BY <2>1, <2>2, <2>3, <1>0 DEF TypeOK
<1>7. CASE Restart
  <2>1. \A i \in Ids : Present(i) => [task[i] EXCEPT !.cg = 0] \in Task
    BY <1>t, TaskRecord
  <2>2. task' = [i \in Ids |-> IF Present(i) THEN [task[i] EXCEPT !.cg = 0] ELSE NoTask]
    BY <1>7 DEF Restart
  <2>3. task' \in [Ids -> Task \cup {NoTask}]
    BY <2>1, <2>2
  <2>4. watched' = Found /\ enforced' \subseteq Found /\ children' = {} /\ inherits' = {}
    BY <1>7 DEF Restart
  <2> QED
    BY <2>3, <2>4, <1>f DEF TypeOK
<1>8. CASE UNCHANGED vars
  BY <1>8 DEF TypeOK, vars
<1> QED
  BY <1>1, <1>2, <1>3, <1>4, <1>5, <1>6, <1>7, <1>8 DEF Next

\* Types are kept.
THEOREM TypeCorrect == Spec => []TypeOK
<1>1. Init => TypeOK
  BY DEF Init, TypeOK
<1>2. TypeOK /\ [Next]_vars => TypeOK'
  BY TypeStep
<1> QED
  BY <1>1, <1>2, PTL DEF Spec

----------------------------------------------------------------------------
(* Watching and enforcing.                                                 *)

\* The inductive invariant.  Neither property is inductive: a task may take a new
\* comm at any time, so what has to be carried along is that its process is in
\* WATCHED_TGIDS, the map that nothing but a restart empties.
TrackingInv ==
    /\ watched \subseteq Ids /\ enforced \subseteq Ids /\ inherits \subseteq Ids
    /\ inherits \subseteq watched \/ Full(watched)
    /\ enforced \subseteq watched \/ Full(watched)

\* The fork tracepoint enters the child of a watched task.
LEMMA ForkTrackFacts ==
    ASSUME NEW t \in Ids, NEW id \in Ids, watched \subseteq Ids, ForkTrack(t, id)
    PROVE  /\ watched' \subseteq Ids /\ watched \subseteq watched'
           /\ IsWatched(t) => id \in watched' \/ Full(watched')
           /\ Full(watched) => Full(watched')
<1>1. /\ watched' \subseteq Ids /\ watched \subseteq watched'
      /\ IsWatched(t) => id \in watched' \/ Full(watched')
  <2>1. CASE IsWatched(t)
    <3>1. watched' = Insert(watched, id)
      BY <2>1 DEF ForkTrack
    <3> QED
      BY <3>1, InsertFacts
  <2>2. CASE ~ IsWatched(t)
    BY <2>2 DEF ForkTrack
  <2> QED
    BY <2>1, <2>2
<1>2. Full(watched) => Full(watched')
  BY <1>1, FullStays
<1> QED
  BY <1>1, <1>2

\* What the fork and the exit tracepoints, the scan and a restart do to the maps
\* preserves the invariant.
LEMMA TrackingStep ==
    ASSUME TrackingInv, [Next]_vars
    PROVE  TrackingInv'
<1>0. watched \subseteq Ids /\ enforced \subseteq Ids /\ inherits \subseteq Ids
  BY DEF TrackingInv
<1>f. Found \in SUBSET Ids
  BY DEF Found
<1>1. ASSUME NEW id \in Ids, NEW comm \in Names, NEW cg \in DOMAIN Agents \cup {0},
             Start(id, comm, cg)
      PROVE  TrackingInv'
  BY <1>1 DEF Start, TrackingInv, Full
<1>2. ASSUME NEW t \in Ids, NEW id \in Ids, Fork(t, id)
      PROVE  TrackingInv'
  <2>1. ForkTrack(t, id) /\ enforced' = enforced
    BY <1>2 DEF Fork
  <2>2. /\ watched' \subseteq Ids /\ watched \subseteq watched'
        /\ IsWatched(t) => id \in watched' \/ Full(watched')
        /\ Full(watched) => Full(watched')
    BY <2>1, <1>0, ForkTrackFacts
  <2>3. inherits' = IF IsWatched(t) THEN inherits \cup {id} ELSE inherits
    BY <1>2 DEF Fork
  <2>4. inherits' \subseteq Ids
    BY <2>3, <1>0
  <2>5. inherits' \subseteq watched' \/ Full(watched')
    BY <2>2, <2>3 DEF TrackingInv
  <2>6. enforced' \subseteq watched' \/ Full(watched')
    BY <2>1, <2>2 DEF TrackingInv
  <2> QED
    BY <2>1, <2>2, <2>4, <2>5, <2>6, <1>0 DEF TrackingInv, Full
<1>3. ASSUME NEW t \in Ids, NEW id \in Ids, Clone(t, id)
      PROVE  TrackingInv'
  <2>1. ForkTrack(t, id) /\ enforced' = enforced /\ inherits' = inherits
    BY <1>3 DEF Clone
  <2>2. /\ watched' \subseteq Ids /\ watched \subseteq watched'
        /\ Full(watched) => Full(watched')
    BY <2>1, <1>0, ForkTrackFacts
  <2> QED
    BY <2>1, <2>2 DEF TrackingInv, Full
<1>4. ASSUME NEW t \in Ids, NEW comm \in Names, Rename(t, comm)
      PROVE  TrackingInv'
  BY <1>4 DEF Rename, TrackingInv, Full
<1>5. ASSUME NEW t \in Ids, NEW prog \in Programs, NEW arg, Exec(t, prog, arg)
      PROVE  TrackingInv'
  <2>1. watched' = watched /\ enforced' = enforced /\ inherits' = inherits
    BY <1>5 DEF Exec, ExitTrack
  <2> QED
    BY <2>1 DEF TrackingInv, Full
<1>6. ASSUME NEW t \in Ids, Exit(t)
      PROVE  TrackingInv'
  <2>1. watched' = watched /\ enforced' = enforced /\ inherits' \subseteq inherits
    BY <1>6 DEF Exit, ExitTrack
  <2> QED
    BY <2>1 DEF TrackingInv, Full
<1>7. CASE Rescan
  <2>1. watched' \in InsertAll(watched, Found) /\ inherits' = inherits
    BY <1>7 DEF Rescan
  <2>2. /\ watched' \in SUBSET Ids /\ watched \subseteq watched'
        /\ Found \subseteq watched' \/ Full(watched')
    BY <2>1, <1>0, <1>f, InsertAllFacts
  <2>3. enforced' \subseteq Ids /\ enforced' \subseteq enforced \cup Found
    <3>1. CASE Enforcing
      <4>1. enforced' \in InsertAll(enforced, Found)
        BY <1>7, <3>1 DEF Rescan
      <4> QED
        BY <4>1, <1>0, <1>f, InsertAllFacts
    <3>2. CASE ~ Enforcing
      BY <1>7, <3>2, <1>0 DEF Rescan
    <3> QED
      BY <3>1, <3>2
  <2>4. Full(watched) => Full(watched')
    BY <2>2, <1>0, FullStays
  <2>5. inherits' \subseteq watched' \/ Full(watched')
    BY <2>1, <2>2, <2>4 DEF TrackingInv
  <2>6. enforced' \subseteq watched' \/ Full(watched')
    BY <2>2, <2>3, <2>4 DEF TrackingInv
  <2> QED
    BY <2>1, <2>2, <2>3, <2>5, <2>6, <1>0 DEF TrackingInv, Full
<1>8. CASE Restart
  <2>1. watched' = Found /\ enforced' \subseteq Found /\ inherits' = {}
    BY <1>8 DEF Restart
  <2> QED
    BY <2>1, <1>f DEF TrackingInv
<1>9. CASE UNCHANGED vars
  BY <1>9 DEF TrackingInv, vars, Full
<1> QED
  BY <1>1, <1>2, <1>3, <1>4, <1>5, <1>6, <1>7, <1>8, <1>9 DEF Next

\* Every reachable state satisfies the invariant.
LEMMA TrackingInvariant == Spec => []TrackingInv
<1>1. Init => TrackingInv
  BY DEF Init, TrackingInv
<1>2. TrackingInv /\ [Next]_vars => TrackingInv'
  BY TrackingStep
<1> QED
  BY <1>1, <1>2, PTL DEF Spec

\* A process that a watched process has forked stays watched whatever it runs, calls
\* itself or loses of its threads, until WATCHED_TGIDS is full.
THEOREM DescendantsStayWatched == Spec => []TreeStaysWatched
<1>1. TrackingInv => TreeStaysWatched
  BY DEF TrackingInv, TreeStaysWatched, IsWatched
<1> QED
  BY <1>1, TrackingInvariant, PTL

\* A task that is enforced, by its comm, by its process or by its cgroup, is watched,
\* until WATCHED_TGIDS is full: no denial is lost for want of an event.
THEOREM EnforcedStaysWatched == Spec => []EnforcedIsWatched
<1>1. TrackingInv => EnforcedIsWatched
  BY DEF TrackingInv, EnforcedIsWatched, IsWatched, IsEnforcing, EnforceComms
<1> QED
  BY <1>1, TrackingInvariant, PTL

----------------------------------------------------------------------------
(* The two evaluators.                                                     *)

\* On a path that no "/*" rule is about, a key in the kernel's maps matches what the
\* daemon's pattern matches.
LEMMA KeyIsPattern ==
    ASSUME NEW path, NEW pat, pat.kind = "level" => ~ PathMatches(path, pat) /\ ~ KeyMatches(path, pat)
    PROVE  KeyMatches(path, pat) <=> PathMatches(path, pat)
  BY DEF KeyMatches, PathMatches, StoredPath

\* Of the rules of one list that all agents have loaded, only those of agent a apply.
LEMMA OwnRules ==
    ASSUME NEW kind \in {"file", "exec"}, NEW list \in {"deny", "allow", "read_only"},
           NEW a \in DOMAIN Agents, NEW target, NEW granted,
           ~ OthersApply(kind, a, target, granted), ~ LevelApplies(kind, a, target)
    PROVE  Hit(target, AllAgents[kind][list]) <=> Matched(target, Agents[a][kind][list])
<1>1. \A i \in DOMAIN Agents \ {a} : ~ Hit(target, Agents[i][kind][list])
  BY DEF OthersApply
<1>2. \A pat \in Agents[a][kind][list] :
          pat.kind = "level" => ~ PathMatches(target, pat) /\ ~ KeyMatches(target, pat)
  BY DEF LevelApplies
<1>3. Hit(target, Agents[a][kind][list]) <=> Matched(target, Agents[a][kind][list])
  BY <1>2, KeyIsPattern DEF Hit, Matched
<1>4. AllAgents[kind][list] = UNION {Agents[i][kind][list] : i \in DOMAIN Agents}
  BY DEF AllAgents, Kinds
<1>5. Hit(target, AllAgents[kind][list]) <=>
          \E i \in DOMAIN Agents : Hit(target, Agents[i][kind][list])
  BY <1>4 DEF Hit
<1> QED
  BY <1>1, <1>3, <1>5

\* The default entered under the comm of a single agent is that agent's default.
LEMMA OwnDefault ==
    ASSUME NEW kind \in Kinds, NEW comm, NEW a \in CommAgents,
           \A i \in CommAgents : CommKey(ProcessName(Agents[i])) = comm <=> i = a
    PROVE  KernelDefaultAllows(kind, comm, 0) <=> EntersAllow(Agents[a][kind])
<1>0. a \in Nat
  BY PolicyAssumption DEF CommAgents
<1>1. CASE Agents[a][kind].default = "unset"
  <2>1. Entered(kind, comm) = {}
    BY <1>1 DEF Entered
  <2> QED
    BY <1>1, <2>1 DEF KernelDefaultAllows, CommDefaultAllows, EntersAllow
<1>2. CASE Agents[a][kind].default # "unset"
  <2>1. Entered(kind, comm) = {a}
    BY <1>2 DEF Entered
  <2>2. CommDefaultAllows(kind, comm) <=> EntersAllow(Agents[a][kind])
    BY <2>1, <1>0 DEF CommDefaultAllows
  <2> QED
    BY <2>2 DEF KernelDefaultAllows
<1> QED
  BY <1>1, <1>2

\* For files and programs.
LEMMA PathVerdict ==
    ASSUME NEW kind \in {"file", "exec"}, NEW comm, NEW target, NEW granted,
           NEW how, Plain(kind, how, comm, target, granted)
    PROVE  KernelAllows(kind, how, target, comm, 0, granted) <=> UserAllows(kind, comm, target)
<1> DEFINE a == FindAgent(comm)
<1> DEFINE policy == Agents[a][kind]
<1>1. /\ a \in CommAgents
      /\ \A i \in CommAgents : CommKey(ProcessName(Agents[i])) = comm <=> i = a
      /\ Normalize(Normalize(target)) = target
      /\ ~ OthersApply(kind, a, target, granted)
      /\ ~ LevelApplies(kind, a, target)
      /\ how \in {"usual", "linked"}
  BY DEF Plain
<1>2. a \in DOMAIN Agents
  BY <1>1 DEF CommAgents
<1> HIDE DEF a
<1>3. Hit(target, AllAgents[kind]["deny"]) <=> Matched(target, policy["deny"])
  BY <1>1, <1>2, OwnRules
<1>4. Hit(target, AllAgents[kind]["allow"]) <=> Matched(target, policy["allow"])
  BY <1>1, <1>2, OwnRules
<1>5. Hit(target, AllAgents[kind]["read_only"]) <=> Matched(target, policy["read_only"])
  BY <1>1, <1>2, OwnRules
<1>6. /\ ~ Hit(target, AlternateDeny[kind])
      /\ ~ IsMemfd(kind, target)
      /\ ~ (kind = "file" /\ Hit(target, granted))
  BY <1>1 DEF OthersApply
<1>7. Hit(target, LoadedDeny[kind]) <=> Hit(target, AllAgents[kind]["deny"])
  <2>1. LoadedDeny[kind] = AllAgents[kind]["deny"] \cup AlternateDeny[kind]
    BY DEF LoadedDeny
  <2> QED
    BY <2>1, <1>6 DEF Hit
<1>8. KernelDefaultAllows(kind, comm, 0) <=> DefaultAllows(policy)
  <2>1. policy.default \in {"allow", "deny", "unset"}
    BY <1>2, PolicyAssumption
  <2>2. EntersAllow(policy) <=> DefaultAllows(policy)
    BY <2>1 DEF EntersAllow, DefaultAllows
  <2> QED
    BY <1>1, <2>2, OwnDefault DEF Kinds
<1>9. UserAllows(kind, comm, target) <=>
          /\ ~ Matched(target, policy["deny"])
          /\ \/ Matched(target, policy["allow"])
             \/ Matched(target, policy["read_only"])
             \/ DefaultAllows(policy)
  <2>1. UserAllows(kind, comm, target) <=> CheckPolicy(policy, Normalize(target))
    BY DEF UserAllows, a
  <2> QED
    BY <2>1, <1>1 DEF CheckPolicy
<1>10. KernelAllows(kind, how, target, comm, 0, granted) <=>
          /\ ~ Hit(target, LoadedDeny[kind]) /\ ~ IsMemfd(kind, target)
          /\ \/ Hit(target, AllAgents[kind]["read_only"])
             \/ Hit(target, AllAgents[kind]["allow"])
             \/ kind = "file" /\ Hit(target, granted)
             \/ KernelDefaultAllows(kind, comm, 0)
  BY <1>1 DEF KernelAllows, Skipped, MapsAllow, KeyHit
<1> QED
  BY <1>3, <1>4, <1>5, <1>6, <1>7, <1>8, <1>9, <1>10

\* For ports.
LEMMA PortVerdict ==
    ASSUME NEW comm, NEW port, NEW granted, NEW how, Plain("net", how, comm, port, granted)
    PROVE  KernelAllows("net", how, port, comm, 0, granted) <=> UserAllows("net", comm, port)
<1> DEFINE a == FindAgent(comm)
<1>1. /\ a \in CommAgents
      /\ \A i \in CommAgents : CommKey(ProcessName(Agents[i])) = comm <=> i = a
      /\ ~ OthersApply("net", a, port, granted)
      /\ how \in {"usual", "linked"} /\ port # 0
      /\ Agents[a]["net"].default \in {"allow", "deny", "unset"}
  BY DEF Plain
<1>2. a \in DOMAIN Agents
  BY <1>1 DEF CommAgents
<1> HIDE DEF a
<1>3. \A i \in DOMAIN Agents \ {a} :
          port \notin Agents[i]["net"]["deny"] /\ port \notin Agents[i]["net"]["allow"]
  BY <1>1 DEF OthersApply
<1>4. /\ port \in AllAgents["net"]["deny"] <=> port \in Agents[a]["net"]["deny"]
      /\ port \in AllAgents["net"]["allow"] <=> port \in Agents[a]["net"]["allow"]
  BY <1>2, <1>3 DEF AllAgents, Kinds
<1>5. KernelDefaultAllows("net", comm, 0) <=> DefaultAllows(Agents[a]["net"])
  <2>1. EntersAllow(Agents[a]["net"]) <=> DefaultAllows(Agents[a]["net"])
    BY <1>1 DEF EntersAllow, DefaultAllows
  <2> QED
    BY <1>1, <2>1, OwnDefault DEF Kinds
<1>6. UserAllows("net", comm, port) <=> CheckNetworkPolicy(Agents[a]["net"], port)
  BY DEF UserAllows, a
<1> QED
  BY <1>1, <1>4, <1>5, <1>6 DEF CheckNetworkPolicy, KernelAllows, Skipped, MapsAllow

\* Kernel and daemon give one verdict on a plain call.
LEMMA OneVerdict ==
    ASSUME NEW kind \in Kinds, NEW comm, NEW target, NEW granted,
           NEW how, Plain(kind, how, comm, target, granted)
    PROVE  KernelAllows(kind, how, target, comm, 0, granted)
               <=> ReportedAction(kind, comm, target) = "Allow"
<1>1. UserAllows(kind, comm, target) <=> ReportedAction(kind, comm, target) = "Allow"
  BY DEF ReportedAction
<1>2. kind \in {"file", "exec"} \/ kind = "net"
  BY DEF Kinds
<1>3. KernelAllows(kind, how, target, comm, 0, granted) <=> UserAllows(kind, comm, target)
  BY <1>2, PathVerdict, PortVerdict
<1> QED
  BY <1>1, <1>3

LEMMA NothingDisputed == Disputed = {}
<1> SUFFICES ASSUME NEW kind \in DOMAIN Targets, NEW target \in Targets[kind],
                    NEW how \in Ways[kind], NEW comm \in Names, NEW granted \in SUBSET Grants,
                    Plain(kind, how, comm, target, granted)
             PROVE  KernelAllows(kind, how, target, comm, 0, granted)
                        <=> ReportedAction(kind, comm, target) = "Allow"
  BY DEF Disputed
<1>1. kind \in Kinds
  BY TrackingAssumption
<1> QED
  BY <1>1, OneVerdict

\* In every configuration that validate_config accepts, whatever names its processes take
\* and whichever grants are in force, the kernel lets a plain call through exactly when
\* the daemon, evaluating its event, reports it as allowed.  It is a fact about the two
\* evaluators, the same in every state; Plain names the calls it does not cover.
THEOREM EvaluatorsAgree == Spec => []VerdictsAgree
<1>1. VerdictsAgree
  BY NothingDisputed DEF VerdictsAgree
<1> QED
  BY <1>1, PTL

----------------------------------------------------------------------------
(* The paths: by induction over its length, what is left on the stack of   *)
(* normalize_path is what the path means.                                  *)

\* A non-empty set of numbers has a least one.
LEMMA LeastOf ==
    ASSUME NEW T \in SUBSET Nat, T # {}
    PROVE  \E x \in T : \A y \in T : x <= y
<1> DEFINE below == {0..x : x \in T}
           R == StrictSubsetOrdering(Nat)
<1>1. \A x \in Nat : 0..x \in FiniteSubsetsOf(Nat)
  <2> TAKE x \in Nat
  <2>1. IsFiniteSet(0..x)  BY FS_Interval
  <2>2. 0..x \in SUBSET Nat  OBVIOUS
  <2> QED BY <2>1, <2>2 DEF FiniteSubsetsOf
<1>2. below \subseteq FiniteSubsetsOf(Nat) /\ below # {}
  BY <1>1
<1>3. IsWellFoundedOn(R, FiniteSubsetsOf(Nat))
  BY FS_StrictSubsetOrderingWellFounded
<1>4. PICK S \in below : \A U \in below : ~ (<<U, S>> \in R)
  <2> HIDE DEF below, R
  <2> QED BY <1>2, <1>3, WFMin
<1>5. PICK x \in T : S = 0..x
  BY <1>4
<1>6. ASSUME NEW y \in T, ~ (x <= y) PROVE FALSE
  <2>1. 0..y \in below  OBVIOUS
  <2>2. 0..y \subseteq 0..x /\ x \in 0..x /\ x \notin 0..y
    BY <1>6
  <2>3. <<0..y, 0..x>> \in R
    BY <2>2 DEF StrictSubsetOrdering
  <2> QED BY <1>4, <1>5, <2>1, <2>3
<1> QED BY <1>6

\* Induction over the numbers, as a fact about a set: tlapm cannot instantiate the
\* operator parameter of the induction theorems of the library.
LEMMA NatSetInduction ==
    ASSUME NEW T, 0 \in T, \A n \in Nat : n \in T => n + 1 \in T
    PROVE  Nat \subseteq T
<1> SUFFICES ASSUME Nat \ T # {} PROVE FALSE
  OBVIOUS
<1>1. PICK x \in Nat \ T : \A y \in Nat \ T : x <= y
  BY LeastOf
<1>2. x # 0 /\ x - 1 \in Nat /\ x - 1 \in T
  BY <1>1
<1> QED BY <1>1, <1>2

\* The recursion of Stack is well founded: every prefix of a path has its names.
LEMMA StackDefined ==
    ASSUME NEW n \in Nat, NEW segments, Len(segments) = n
    PROVE  /\ Stack(segments)[0] = <<>>
           /\ \A i \in 1..n : Stack(segments)[i] = Walk(Stack(segments)[i - 1], segments[i])
<1> DEFINE Def(st, m) == st = [i \in 0..m |-> IF i = 0 THEN <<>> ELSE Walk(st[i - 1], segments[i])]
           T == {m \in Nat : \E st : Def(st, m)}
<1>1. 0 \in T
  <2>1. Def([i \in 0..0 |-> <<>>], 0)
    OBVIOUS
  <2> QED BY <2>1
<1>2. ASSUME NEW m \in Nat, m \in T PROVE m + 1 \in T
  <2>1. PICK st : Def(st, m)
    BY <1>2
  <2> DEFINE nx == [i \in 0..(m + 1) |-> IF i <= m THEN st[i] ELSE Walk(st[m], segments[m + 1])]
  <2>2. \A i \in 0..(m + 1) : nx[i] = IF i = 0 THEN <<>> ELSE Walk(nx[i - 1], segments[i])
    <3> TAKE i \in 0..(m + 1)
    <3>1. CASE i = 0
      BY <2>1, <3>1
    <3>2. CASE i \in 1..m
      <4>1. nx[i] = st[i] /\ nx[i - 1] = st[i - 1]
        BY <3>2
      <4>2. st[i] = Walk(st[i - 1], segments[i])
        <5> HIDE DEF nx
        <5> QED BY <2>1, <3>2
      <4> QED BY <3>2, <4>1, <4>2
    <3>3. CASE i = m + 1
      <4>1. nx[i] = Walk(st[m], segments[m + 1]) /\ nx[i - 1] = st[m]
        BY <3>3
      <4> HIDE DEF nx
      <4> QED BY <3>3, <4>1
    <3> QED BY <3>1, <3>2, <3>3
  <2>3. Def(nx, m + 1)
    <3>1. nx = [i \in 0..(m + 1) |-> nx[i]]
      OBVIOUS
    <3> HIDE DEF nx
    <3> QED BY <2>2, <3>1
  <2> HIDE DEF Def, nx
  <2> QED BY <2>3
<1>3. n \in T
  <2> HIDE DEF T
  <2> QED BY <1>1, <1>2, NatSetInduction
<1>4. \E st : Def(st, n)
  BY <1>3
<1>5. Def(Stack(segments), n)
  BY <1>4 DEF Stack
<1> QED BY <1>5

\* A segment that is the name of a file or a directory.
Named(seg) == seg \notin {"", ".", ".."}

\* One more segment counts as a name or as a ".." of the section it ends.
LEMMA SectionGrows ==
    ASSUME NEW raw, NEW j \in Nat, NEW i \in 0..j
    PROVE  LET names(m) == Cardinality(NamesIn(raw, i, m))
               ups(m) == Cardinality(UpsIn(raw, i, m))
           IN  /\ names(j) \in Nat /\ ups(j) \in Nat
               /\ names(j + 1) = IF Named(raw[j + 1]) THEN names(j) + 1 ELSE names(j)
               /\ ups(j + 1) = IF raw[j + 1] = ".." THEN ups(j) + 1 ELSE ups(j)
<1>1. IsFiniteSet((i + 1)..j)
  BY FS_Interval
<1>2. /\ NamesIn(raw, i, j) \in SUBSET ((i + 1)..j)
      /\ UpsIn(raw, i, j) \in SUBSET ((i + 1)..j)
  BY DEF NamesIn, UpsIn
<1>3. IsFiniteSet(NamesIn(raw, i, j)) /\ IsFiniteSet(UpsIn(raw, i, j))
  BY <1>1, <1>2, FS_Subset
<1>4. (i + 1)..(j + 1) = ((i + 1)..j) \cup {j + 1} /\ j + 1 \notin (i + 1)..j
  OBVIOUS
<1>5. /\ NamesIn(raw, i, j + 1) = IF Named(raw[j + 1]) THEN NamesIn(raw, i, j) \cup {j + 1}
                                                       ELSE NamesIn(raw, i, j)
      /\ UpsIn(raw, i, j + 1) = IF raw[j + 1] = ".." THEN UpsIn(raw, i, j) \cup {j + 1}
                                                     ELSE UpsIn(raw, i, j)
  BY <1>4 DEF NamesIn, UpsIn, Named
<1>6. /\ Cardinality(NamesIn(raw, i, j) \cup {j + 1}) = Cardinality(NamesIn(raw, i, j)) + 1
      /\ Cardinality(UpsIn(raw, i, j) \cup {j + 1}) = Cardinality(UpsIn(raw, i, j)) + 1
  BY <1>2, <1>3, <1>4, FS_AddElement
<1>7. Cardinality(NamesIn(raw, i, j)) \in Nat /\ Cardinality(UpsIn(raw, i, j)) \in Nat
  BY <1>3, FS_CardinalityType
<1> QED BY <1>5, <1>6, <1>7

\* A section without segments has none.
LEMMA SectionEmpty ==
    ASSUME NEW raw, NEW i \in Nat
    PROVE  Cardinality(NamesIn(raw, i, i)) = 0 /\ Cardinality(UpsIn(raw, i, i)) = 0
<1>1. \A k \in (i + 1)..i : FALSE
  OBVIOUS
<1>2. NamesIn(raw, i, i) = {} /\ UpsIn(raw, i, i) = {}
  BY <1>1 DEF NamesIn, UpsIn
<1> QED BY <1>2, FS_EmptySet

\* What one more segment adds to the segments that are left, and what it takes away.
LEMMA KeptStep ==
    ASSUME NEW raw, NEW j \in Nat
    PROVE  Kept(raw, j + 1) =
              {i \in Kept(raw, j) : Cardinality(UpsIn(raw, i, j + 1)) <= Cardinality(NamesIn(raw, i, j + 1))}
              \cup {i \in {j + 1} : Named(raw[j + 1])}
<1> DEFINE Below(i, m) == Cardinality(UpsIn(raw, i, m)) <= Cardinality(NamesIn(raw, i, m))
<1>1. \A n \in Nat : Kept(raw, n) = {i \in 1..n : Named(raw[i]) /\ \A m \in i..n : Below(i, m)}
  BY DEF Kept, Named
<1>2. Below(j + 1, j + 1)
  BY SectionEmpty
<1> HIDE DEF Below
<1>3. 1..(j + 1) = 1..j \cup {j + 1} /\ (j + 1)..(j + 1) = {j + 1}
  OBVIOUS
<1>4. \A i \in 1..j : i..(j + 1) = i..j \cup {j + 1}
  OBVIOUS
<1>5. ASSUME NEW i \in 1..j
      PROVE  i \in Kept(raw, j + 1) <=> i \in Kept(raw, j) /\ Below(i, j + 1)
  <2>1. (\A m \in i..(j + 1) : Below(i, m)) <=> (\A m \in i..j : Below(i, m)) /\ Below(i, j + 1)
    BY <1>4
  <2>2. i \in 1..(j + 1)
    OBVIOUS
  <2> QED BY <1>1, <2>1, <2>2
<1>6. j + 1 \in Kept(raw, j + 1) <=> Named(raw[j + 1])
  BY <1>1, <1>2, <1>3
<1>7. Kept(raw, j + 1) \subseteq 1..j \cup {j + 1} /\ Kept(raw, j) \subseteq 1..j
  BY <1>1, <1>3
<1>8. \A i \in Kept(raw, j + 1) : i \in {i_1 \in Kept(raw, j) : Below(i_1, j + 1)}
                                        \cup {i_1 \in {j + 1} : Named(raw[j + 1])}
  BY <1>5, <1>6, <1>7
<1>9. \A i \in {i_1 \in Kept(raw, j) : Below(i_1, j + 1)} \cup {i_1 \in {j + 1} : Named(raw[j + 1])} :
         i \in Kept(raw, j + 1)
  BY <1>5, <1>6, <1>7
<1> QED BY <1>8, <1>9 DEF Below

\* Every kept segment has counted no more ".."s than names after it.
LEMMA KeptCounts ==
    ASSUME NEW raw, NEW j \in Nat, NEW i \in Kept(raw, j)
    PROVE  i \in 1..j /\ Cardinality(UpsIn(raw, i, j)) <= Cardinality(NamesIn(raw, i, j))
<1>1. /\ i \in 1..j
      /\ \A m \in i..j : Cardinality(UpsIn(raw, i, m)) <= Cardinality(NamesIn(raw, i, m))
  BY Zenon DEF Kept
<1>2. j \in i..j
  BY <1>1
<1> QED BY <1>1, <1>2

\* at lists, in their order, the kept ones of the first j segments: st is what they
\* say, and after each of them come as many more as it has names not undone.
Spots(raw, j, st, at) ==
    /\ at \in [1..Len(st) -> 1..j]
    /\ \A k, l \in 1..Len(st) : k < l => at[k] < at[l]
    /\ Kept(raw, j) = {at[k] : k \in 1..Len(st)}
    /\ \A k \in 1..Len(st) : st[k] = raw[at[k]]
    /\ \A k \in 1..Len(st) :
          Cardinality(NamesIn(raw, at[k], j)) = Cardinality(UpsIn(raw, at[k], j)) + Len(st) - k

\* One turn of the loop of normalize_path keeps its stack in step with the kept segments.
LEMMA SpotsStep ==
    ASSUME NEW X, NEW raw, NEW j \in Nat, raw[j + 1] \in X,
           NEW st \in Seq(X), NEW at, Spots(raw, j, st, at)
    PROVE  /\ Walk(st, raw[j + 1]) \in Seq(X)
           /\ \E nx : Spots(raw, j + 1, Walk(st, raw[j + 1]), nx)
<1> DEFINE seg == raw[j + 1]
           names(i, m) == Cardinality(NamesIn(raw, i, m))
           ups(i, m) == Cardinality(UpsIn(raw, i, m))
<1>1. /\ at \in [1..Len(st) -> 1..j]
      /\ \A k, l \in 1..Len(st) : k < l => at[k] < at[l]
      /\ Kept(raw, j) = {at[k] : k \in 1..Len(st)}
      /\ \A k \in 1..Len(st) : st[k] = raw[at[k]]
      /\ \A k \in 1..Len(st) : names(at[k], j) = ups(at[k], j) + Len(st) - k
  BY DEF Spots
<1>2. \A i \in 1..j : /\ names(i, j) \in Nat /\ ups(i, j) \in Nat
                      /\ names(i, j + 1) = IF Named(seg) THEN names(i, j) + 1 ELSE names(i, j)
                      /\ ups(i, j + 1) = IF seg = ".." THEN ups(i, j) + 1 ELSE ups(i, j)
  <2>1. \A i \in 1..j : i \in 0..j
    OBVIOUS
  <2> QED BY <2>1, SectionGrows
<1>3. Kept(raw, j + 1) = {i \in Kept(raw, j) : ups(i, j + 1) <= names(i, j + 1)}
                            \cup {i \in {j + 1} : Named(seg)}
  BY KeptStep
<1>4. Len(st) \in Nat
  OBVIOUS
<1>5. \A k \in 1..Len(st) : at[k] \in 1..j
  BY <1>1
<1>6. names(j + 1, j + 1) = 0 /\ ups(j + 1, j + 1) = 0
  BY SectionEmpty
<1> HIDE DEF names, ups
<1>7. CASE seg \in {"", "."} \/ (seg = ".." /\ st = <<>>)
  <2>1. Walk(st, seg) = st /\ ~ Named(seg)
    BY <1>7 DEF Walk, Named
  <2>2. \A k \in 1..Len(st) : names(at[k], j + 1) = names(at[k], j) /\ ups(at[k], j + 1) = ups(at[k], j)
    <3>1. CASE seg = ".." /\ st = <<>>
      <4>1. \A k \in 1..Len(st) : FALSE
        BY <3>1
      <4> QED BY <4>1
    <3>2. CASE seg # ".."
      BY <1>2, <1>5, <2>1, <3>2
    <3> QED BY <1>7, <3>1, <3>2
  <2>3. Kept(raw, j + 1) = {at[k] : k \in 1..Len(st)}
    <3>1. \A k \in 1..Len(st) : ups(at[k], j + 1) <= names(at[k], j + 1)
      BY <1>1, <1>2, <1>5, <2>2
    <3> QED BY <1>1, <1>3, <2>1, <3>1
  <2>4. at \in [1..Len(st) -> 1..(j + 1)]
    BY <1>1
  <2>5. Spots(raw, j + 1, st, at)
    BY <1>1, <2>2, <2>3, <2>4 DEF Spots, names, ups
  <2> QED BY <2>1, <2>5
<1>8. CASE seg = ".." /\ st # <<>>
  <2> DEFINE len == Len(st) - 1
             fst == SubSeq(st, 1, len)
             nx == [k \in 1..len |-> at[k]]
  <2>1. Walk(st, seg) = fst /\ ~ Named(seg)
    BY <1>8 DEF Walk, Named, Front
  <2>2. len \in Nat /\ fst \in Seq(X) /\ Len(fst) = len /\ \A k \in 1..len : fst[k] = st[k]
    <3>1. Len(st) # 0
      BY <1>8
    <3>2. len \in Nat /\ len <= Len(st)
      BY <1>4, <3>1
    <3>3. fst \in Seq(X) /\ Len(fst) = len
      <4>1. \A k \in 1..len : st[k] \in X
        BY <1>4, <3>2
      <4>2. 1 \in Int /\ len \in Int /\ len = IF 1 <= len THEN len - 1 + 1 ELSE 0
        <5> HIDE DEF len
        <5> QED BY <3>2
      <4> HIDE DEF len
      <4> QED BY <4>1, <4>2, SubSeqProperties
    <3>4. \A k \in 1..len : fst[k] = st[k]
      BY <3>2
    <3> QED BY <3>2, <3>3, <3>4
  <2>3. \A k \in 1..Len(st) : names(at[k], j + 1) = names(at[k], j) /\ ups(at[k], j + 1) = ups(at[k], j) + 1
    BY <1>2, <1>5, <1>8, <2>1
  <2>4. \A k \in 1..Len(st) : ups(at[k], j + 1) <= names(at[k], j + 1) <=> k \in 1..len
    BY <1>1, <1>2, <1>4, <1>5, <2>3
  <2>5. 1..len \subseteq 1..Len(st)
    BY <1>4
  <2>6. \A k \in 1..len : nx[k] = at[k]
    OBVIOUS
  <2>7. nx \in [1..len -> 1..(j + 1)]
    BY <1>5, <2>5
  <2> HIDE DEF len, fst, nx
  <2>8. Kept(raw, j + 1) = {nx[k] : k \in 1..len}
    BY <1>1, <1>3, <2>1, <2>4, <2>5, <2>6
  <2>9. \A k \in 1..len : names(nx[k], j + 1) = ups(nx[k], j + 1) + len - k
    <3> TAKE k \in 1..len
    <3>1. k \in 1..Len(st) /\ nx[k] = at[k]
      BY <2>5, <2>6
    <3>2. names(at[k], j) = ups(at[k], j) + Len(st) - k /\ ups(at[k], j) \in Nat
      BY <1>1, <1>2, <1>5, <3>1
    <3>3. names(at[k], j + 1) = names(at[k], j) /\ ups(at[k], j + 1) = ups(at[k], j) + 1
      BY <2>3, <3>1
    <3> QED BY <1>4, <3>1, <3>2, <3>3 DEF len
  <2>10. Spots(raw, j + 1, fst, nx)
    BY <1>1, <2>2, <2>5, <2>6, <2>7, <2>8, <2>9 DEF Spots, names, ups
  <2> QED BY <2>1, <2>2, <2>10
<1>9. CASE seg \notin {"", ".", ".."}
  <2> DEFINE len == Len(st) + 1
             more == Append(st, seg)
             nx == [k \in 1..len |-> IF k = len THEN j + 1 ELSE at[k]]
  <2>1. Walk(st, seg) = more /\ Named(seg) /\ seg # ".."
    BY <1>9 DEF Walk, Named
  <2>2. /\ len \in Nat /\ more \in Seq(X) /\ Len(more) = len
        /\ \A k \in 1..Len(st) : more[k] = st[k]
        /\ more[len] = seg
    BY <1>4
  <2>3. \A k \in 1..Len(st) : names(at[k], j + 1) = names(at[k], j) + 1 /\ ups(at[k], j + 1) = ups(at[k], j)
    BY <1>2, <1>5, <2>1
  <2>4. \A k \in 1..Len(st) : ups(at[k], j + 1) <= names(at[k], j + 1)
    BY <1>1, <1>2, <1>4, <1>5, <2>3
  <2>5. 1..len = 1..Len(st) \cup {len} /\ \A k \in 1..Len(st) : k < len
    BY <1>4
  <2>6. nx[len] = j + 1 /\ \A k \in 1..Len(st) : nx[k] = at[k]
    BY <1>4
  <2>7. nx \in [1..len -> 1..(j + 1)]
    BY <1>5, <2>5
  <2> HIDE DEF len, more, nx
  <2>8. Kept(raw, j + 1) = {nx[k] : k \in 1..len}
    <3>1. Kept(raw, j + 1) = {at[k] : k \in 1..Len(st)} \cup {j + 1}
      BY <1>1, <1>3, <2>1, <2>4
    <3> QED BY <2>5, <2>6, <3>1
  <2>9. \A k \in 1..len : names(nx[k], j + 1) = ups(nx[k], j + 1) + len - k
    <3>1. ASSUME NEW k \in 1..Len(st) PROVE names(nx[k], j + 1) = ups(nx[k], j + 1) + len - k
      <4>1. names(at[k], j) = ups(at[k], j) + Len(st) - k /\ ups(at[k], j) \in Nat
        BY <1>1, <1>2, <1>5
      <4>2. names(nx[k], j + 1) = names(at[k], j) + 1 /\ ups(nx[k], j + 1) = ups(at[k], j)
        BY <2>3, <2>6
      <4> QED BY <1>4, <4>1, <4>2 DEF len
    <3>2. names(nx[len], j + 1) = ups(nx[len], j + 1) + len - len
      BY <1>6, <2>2, <2>6
    <3> QED BY <2>5, <3>1, <3>2
  <2>10. \A k, l \in 1..len : k < l => nx[k] < nx[l]
    <3>1. ASSUME NEW k \in 1..len, NEW l \in 1..len, k < l PROVE nx[k] < nx[l]
      <4>1. k \in 1..Len(st)
        BY <1>4, <3>1 DEF len
      <4>2. CASE l \in 1..Len(st)
        BY <1>1, <2>6, <3>1, <4>1, <4>2
      <4>3. CASE l = len
        BY <1>5, <2>6, <4>1, <4>3
      <4> QED BY <2>5, <4>2, <4>3
    <3> QED BY <3>1
  <2>11. \A k \in 1..len : more[k] = raw[nx[k]]
    BY <1>1, <2>2, <2>5, <2>6
  <2>12. Spots(raw, j + 1, more, nx)
    BY <2>2, <2>7, <2>8, <2>9, <2>10, <2>11 DEF Spots, names, ups
  <2> QED BY <2>1, <2>2, <2>12
<1> QED BY <1>7, <1>8, <1>9

\* So the stack holds what is left of the path, whatever its length.
LEMMA StackSpots ==
    ASSUME NEW X, NEW raw \in Seq(X)
    PROVE  \A j \in 0..Len(raw) : /\ Stack(raw)[j] \in Seq(X)
                                  /\ \E at : Spots(raw, j, Stack(raw)[j], at)
<1> DEFINE Good(j) == Stack(raw)[j] \in Seq(X) /\ \E at : Spots(raw, j, Stack(raw)[j], at)
           T == {j \in Nat : j <= Len(raw) => Good(j)}
<1>1. Len(raw) \in Nat /\ \A i \in 1..Len(raw) : raw[i] \in X
  OBVIOUS
<1>2. /\ Stack(raw)[0] = <<>>
      /\ \A i \in 1..Len(raw) : Stack(raw)[i] = Walk(Stack(raw)[i - 1], raw[i])
  BY <1>1, StackDefined
<1>3. 0 \in T
  <2>1. \A k \in 1..0 : FALSE
    OBVIOUS
  <2>2. Kept(raw, 0) = {}
    BY <2>1 DEF Kept
  <2>3. Spots(raw, 0, <<>>, <<>>)
    BY <2>1, <2>2 DEF Spots
  <2>4. <<>> \in Seq(X)
    OBVIOUS
  <2>5. Good(0)
    <3>1. \E at : Spots(raw, 0, <<>>, at)
      BY <2>3
    <3> QED BY <1>2, <2>4, <3>1
  <2> HIDE DEF Good
  <2> QED BY <2>5
<1>4. ASSUME NEW j \in Nat, j \in T PROVE j + 1 \in T
  <2>1. CASE j + 1 <= Len(raw)
    <3>1. Good(j) /\ j + 1 \in 1..Len(raw)
      BY <1>1, <1>4, <2>1
    <3>2. Stack(raw)[j + 1] = Walk(Stack(raw)[j], raw[j + 1]) /\ raw[j + 1] \in X
      BY <1>1, <1>2, <3>1
    <3>3. PICK at : Spots(raw, j, Stack(raw)[j], at)
      BY <3>1
    <3>4. Good(j + 1)
      BY <3>1, <3>2, <3>3, SpotsStep
    <3> QED BY <3>4
  <2>2. CASE ~ (j + 1 <= Len(raw))
    BY <2>2
  <2> QED BY <2>1, <2>2
<1>5. Nat \subseteq T
  <2> HIDE DEF T
  <2> QED BY <1>3, <1>4, NatSetInduction
<1> QED BY <1>1, <1>5

\* There is one way to list numbers in their order.
LEMMA AscendingIs ==
    ASSUME NEW n \in Nat, NEW S \in SUBSET Nat, NEW at \in [1..n -> S],
           \A k, l \in 1..n : k < l => at[k] < at[l],
           S = {at[k] : k \in 1..n}
    PROVE  Ascending(S) = at
<1> DEFINE Less(x) == {y \in S : y < x}
<1>1. \A k, l \in 1..n : at[k] \in Nat /\ (at[l] < at[k] <=> l < k)
  <2> TAKE k \in 1..n, l \in 1..n
  <2>1. at[k] \in Nat /\ at[l] \in Nat
    OBVIOUS
  <2>2. k < l \/ l < k \/ k = l
    OBVIOUS
  <2> QED BY <2>1, <2>2
<1>2. ASSUME NEW m \in 0..n, NEW U \in SUBSET S, U = {at[k] : k \in 1..m}
      PROVE  Cardinality(U) = m
  <2> DEFINE f == [k \in 1..m |-> at[k]]
  <2>1. 1..m \subseteq 1..n
    OBVIOUS
  <2>2. f \in [1..m -> U]
    BY <1>2
  <2>3. \A k, l \in 1..m : f[k] = f[l] => k = l
    <3> TAKE k \in 1..m, l \in 1..m
    <3>1. f[k] = at[k] /\ f[l] = at[l]
      OBVIOUS
    <3>2. k \in 1..n /\ l \in 1..n
      BY <2>1
    <3>3. k < l \/ l < k \/ k = l
      OBVIOUS
    <3> HIDE DEF f
    <3>4. ~ (at[k] < at[l]) /\ ~ (at[l] < at[k]) => k = l
      BY <1>1, <3>2, <3>3
    <3> QED BY <1>1, <3>1, <3>2, <3>4
  <2>4. \A u \in U : \E k \in 1..m : f[k] = u
    BY <1>2
  <2>5. f \in Bijection(1..m, U)
    <3> HIDE DEF f
    <3> QED BY <2>2, <2>3, <2>4, Fun_IsBij
  <2>6. ExistsBijection(1..m, U)
    BY <2>5 DEF ExistsBijection
  <2> QED BY <2>6, FS_CountingElements
<1>3. Cardinality(S) = n
  BY <1>2
<1>4. ASSUME NEW k \in 1..n PROVE Cardinality(Less(at[k])) = k - 1
  <2>1. k - 1 \in 0..n /\ \A l \in 1..n : l \in 1..(k - 1) <=> l < k
    OBVIOUS
  <2>2. Less(at[k]) = {at[l] : l \in 1..(k - 1)}
    <3>1. ASSUME NEW y \in Less(at[k]) PROVE y \in {at[l] : l \in 1..(k - 1)}
      <4>1. PICK l \in 1..n : y = at[l]
        OBVIOUS
      <4> QED BY <1>1, <2>1, <4>1
    <3>2. ASSUME NEW l \in 1..(k - 1) PROVE at[l] \in Less(at[k])
      <4>1. l \in 1..n /\ l < k
        OBVIOUS
      <4> QED BY <1>1, <4>1
    <3> QED BY <3>1, <3>2
  <2> QED BY <1>2, <2>1, <2>2
<1> HIDE DEF Less
<1>5. ASSUME NEW k \in 1..n PROVE (CHOOSE x \in S : Cardinality(Less(x)) = k - 1) = at[k]
  <2>1. at[k] \in S /\ Cardinality(Less(at[k])) = k - 1
    BY <1>4
  <2>2. \A x \in S : Cardinality(Less(x)) = k - 1 => x = at[k]
    <3> TAKE x \in S
    <3>1. PICK l \in 1..n : x = at[l]
      OBVIOUS
    <3>2. Cardinality(Less(x)) = l - 1
      BY <1>4, <3>1
    <3> QED BY <3>1, <3>2
  <2> QED BY <2>1, <2>2
<1>6. Ascending(S) = [k \in 1..n |-> CHOOSE x \in S : Cardinality(Less(x)) = k - 1]
  BY <1>3 DEF Ascending, Less
<1> QED BY <1>5, <1>6

\* normalize_path leaves of a path what the path means.
LEMMA StackIsKept ==
    ASSUME NEW X, NEW raw \in Seq(X)
    PROVE  LET st == Stack(raw)[Len(raw)]
               kept == Ascending(Kept(raw, Len(raw)))
           IN  /\ st \in Seq(X)
               /\ kept \in [1..Len(st) -> Kept(raw, Len(raw))]
               /\ \A k \in 1..Len(st) : st[k] = raw[kept[k]] /\ Named(st[k])
<1> DEFINE n == Len(raw)
           st == Stack(raw)[n]
<1>1. n \in Nat
  OBVIOUS
<1>2. st \in Seq(X) /\ \E at : Spots(raw, n, st, at)
  BY <1>1, StackSpots
<1>3. PICK at : Spots(raw, n, st, at)
  BY <1>2
<1> HIDE DEF n, st
<1>4. Len(st) \in Nat
  BY <1>2
<1>5. /\ at \in [1..Len(st) -> 1..n]
      /\ \A k, l \in 1..Len(st) : k < l => at[k] < at[l]
      /\ Kept(raw, n) = {at[k] : k \in 1..Len(st)}
      /\ \A k \in 1..Len(st) : st[k] = raw[at[k]]
  BY <1>3 DEF Spots
<1>6. Kept(raw, n) \in SUBSET Nat /\ at \in [1..Len(st) -> Kept(raw, n)]
  BY <1>5
<1>7. Ascending(Kept(raw, n)) = at
  BY <1>4, <1>5, <1>6, AscendingIs
<1>8. \A i \in Kept(raw, n) : Named(raw[i])
  BY DEF Kept, Named
<1> QED BY <1>2, <1>5, <1>6, <1>7, <1>8 DEF n, st

\* normalize_path (config.rs 561-613) computes what a path means, whatever its length:
\* the names that no later ".." undoes, in their order.
THEOREM NormalizeIsResolved ==
    ASSUME NEW X, NEW raw \in Seq(X), ~ ThroughProcRoot(raw)
    PROVE  Normalize(raw) = Resolved(raw)
<1> DEFINE st == Stack(raw)[Len(raw)]
           kept == Ascending(Kept(raw, Len(raw)))
           named == [k \in DOMAIN kept |-> raw[kept[k]]]
<1>1. /\ st \in Seq(X)
      /\ kept \in [1..Len(st) -> Kept(raw, Len(raw))]
      /\ \A k \in 1..Len(st) : st[k] = raw[kept[k]]
  BY StackIsKept
<1>2. Normalize(raw) = IF st = <<>> THEN Root ELSE <<"">> \o st
  BY DEF Normalize
<1>3. Resolved(raw) = IF kept = <<>> THEN Root ELSE <<"">> \o named
  BY DEF Resolved
<1> HIDE DEF st, kept
<1>4. named = [k \in 1..Len(st) |-> st[k]]
  BY <1>1
<1>5. st = [k \in 1..Len(st) |-> st[k]]
  <2>1. st \in [1..Len(st) -> X]
    BY <1>1, LenProperties
  <2> QED BY <2>1
<1>6. st = <<>> <=> kept = <<>>
  <2>1. DOMAIN kept = 1..Len(st) /\ DOMAIN st = 1..Len(st)
    BY <1>1
  <2>2. \A f : f = <<>> => DOMAIN f = {}
    OBVIOUS
  <2>3. 1..Len(st) = {} => Len(st) = 0
    BY <1>1
  <2>4. Len(st) = 0 => st = <<>>
    BY <1>1
  <2>5. Len(st) = 0 => kept = <<>>
    BY <1>1
  <2> QED BY <2>1, <2>2, <2>3, <2>4, <2>5
<1>7. named = st
  BY <1>4, <1>5
<1> HIDE DEF named
<1>8. CASE st = <<>>
  <2>1. Normalize(raw) = Root
    BY <1>2, <1>8
  <2>2. Resolved(raw) = Root
    BY <1>3, <1>6, <1>8
  <2> QED BY <2>1, <2>2
<1>9. CASE st # <<>>
  <2>1. Normalize(raw) = <<"">> \o st
    BY <1>2, <1>9, Zenon
  <2>2. Resolved(raw) = <<"">> \o named
    BY <1>3, <1>6, <1>9, Zenon
  <2> QED BY <1>7, <2>1, <2>2, Zenon
<1> QED BY <1>8, <1>9

\* A segment before a path makes it one segment longer.
LEMMA OneMore ==
    \A X, e : \A names \in Seq(X) :
        /\ <<e>> \o names \in Seq(X \cup {e})
        /\ Len(<<e>> \o names) = Len(names) + 1
        /\ (<<e>> \o names)[1] = e
        /\ \A k \in 1..Len(names) : (<<e>> \o names)[k + 1] = names[k]
<1> TAKE X, e
<1> TAKE names \in Seq(X)
<1>1. names \in Seq(X \cup {e}) /\ <<e>> \in Seq(X \cup {e})
  OBVIOUS
<1>2. Len(<<e>>) = 1 /\ <<e>>[1] = e /\ Len(names) \in Nat
  OBVIOUS
<1>3. /\ <<e>> \o names \in Seq(X \cup {e})
      /\ Len(<<e>> \o names) = 1 + Len(names)
      /\ \A i \in 1..(1 + Len(names)) :
            (<<e>> \o names)[i] = IF i <= 1 THEN <<e>>[i] ELSE names[i - 1]
  BY <1>1, <1>2, ConcatProperties
<1>4. (<<e>> \o names)[1] = e
  BY <1>2, <1>3
<1>5. \A k \in 1..Len(names) : (<<e>> \o names)[k + 1] = names[k]
  BY <1>2, <1>3
<1> QED BY <1>2, <1>3, <1>4, <1>5

\* The same for the empty segment an absolute path starts with.
LEMMA EmptyFirst ==
    ASSUME NEW X, NEW names \in Seq(X)
    PROVE  /\ Len(<<"">> \o names) = Len(names) + 1
           /\ (<<"">> \o names)[1] = ""
           /\ \A k \in 1..Len(names) : (<<"">> \o names)[k + 1] = names[k]
<1>1. Len(<<"">> \o names) = Len(names) + 1 /\ (<<"">> \o names)[1] = ""
  BY OneMore, Zenon
<1>2. ASSUME NEW k \in 1..Len(names) PROVE (<<"">> \o names)[k + 1] = names[k]
  <2>1. \A e : (<<e>> \o names)[k + 1] = names[k]
    BY OneMore, SMT
  <2> QED BY <2>1, Zenon
<1> QED BY <1>1, <1>2, Zenon

\* The stack of a path that is an empty segment and names holds these names.
LEMMA StackOfNames ==
    ASSUME NEW X, NEW names \in Seq(X), \A k \in 1..Len(names) : Named(names[k]),
           NEW path, Len(path) = Len(names) + 1, Walk(<<>>, path[1]) = <<>>,
           \A k \in 1..Len(names) : path[k + 1] = names[k]
    PROVE  Stack(path)[Len(path)] = names
<1> DEFINE st == Stack(path)
           n == Len(names)
           T == {j \in Nat : j <= n => st[j + 1] = SubSeq(names, 1, j)}
<1>1. n \in Nat
  OBVIOUS
<1>2. st[0] = <<>> /\ \A i \in 1..(n + 1) : st[i] = Walk(st[i - 1], path[i])
  BY <1>1, StackDefined
<1>3. \A j \in 1..n : Named(names[j]) /\ path[j + 1] = names[j]
  OBVIOUS
<1> HIDE DEF st
<1>4. 0 \in T
  <2>1. 1 \in 1..(n + 1)
    BY <1>1
  <2>2. st[1] = Walk(st[0], path[1])
    BY <1>2, <2>1
  <2>3. st[1] = <<>>
    BY <1>2, <2>2
  <2>4. SubSeq(names, 1, 0) = <<>>
    BY SubSeqEmpty
  <2>5. 0 <= n => st[0 + 1] = SubSeq(names, 1, 0)
    <3>1. 0 + 1 = 1
      OBVIOUS
    <3> QED BY <2>3, <2>4, <3>1, Zenon
  <2> QED BY <2>5
<1>5. ASSUME NEW j \in Nat, j \in T PROVE j + 1 \in T
  <2>1. CASE j + 1 <= n
    <3>1. st[j + 1] = SubSeq(names, 1, j)
      BY <1>1, <1>5, <2>1
    <3>2. j + 2 \in 1..(n + 1) /\ j + 1 \in 1..n /\ (j + 2) - 1 = j + 1 /\ (j + 1) + 1 = j + 2
      BY <1>1, <2>1
    <3>3. st[j + 2] = Walk(st[j + 1], path[j + 2])
      BY <1>2, <3>2
    <3>4. path[j + 2] = names[j + 1] /\ Named(names[j + 1])
      BY <1>3, <3>2
    <3>5. st[j + 2] = Append(SubSeq(names, 1, j), names[j + 1])
      BY <3>1, <3>3, <3>4 DEF Walk, Named
    <3>6. Append(SubSeq(names, 1, j), names[j + 1]) = SubSeq(names, 1, j + 1)
      BY <3>2
    <3>7. st[(j + 1) + 1] = SubSeq(names, 1, j + 1)
      BY <3>2, <3>5, <3>6
    <3> QED BY <3>7
  <2>2. CASE ~ (j + 1 <= n)
    BY <2>2
  <2> QED BY <2>1, <2>2
<1>6. n \in T
  <2> HIDE DEF T
  <2> QED BY <1>1, <1>4, <1>5, NatSetInduction
<1>7. st[n + 1] = SubSeq(names, 1, n)
  BY <1>1, <1>6
<1>8. SubSeq(names, 1, n) = names
  BY SubSeqFull
<1> QED BY <1>7, <1>8 DEF st

\* The root of the file system has no names.
LEMMA StackOfRoot == Stack(Root)[Len(Root)] = <<>>
<1>1. Len(Root) = 2 /\ Root[1] = "" /\ Root[2] = ""
  BY DEF Root
<1>2. Stack(Root)[0] = <<>> /\ \A i \in 1..2 : Stack(Root)[i] = Walk(Stack(Root)[i - 1], Root[i])
  BY <1>1, StackDefined
<1>3. Walk(<<>>, "") = <<>>
  BY DEF Walk
<1>4. 1 \in 1..2 /\ 2 \in 1..2 /\ 1 - 1 = 0 /\ 2 - 1 = 1
  OBVIOUS
<1>5. Stack(Root)[1] = <<>>
  BY <1>1, <1>2, <1>3, <1>4, Zenon
<1>6. Stack(Root)[2] = <<>>
  BY <1>1, <1>2, <1>3, <1>4, <1>5, Zenon
<1> QED BY <1>1, <1>6, Zenon

\* A path put together from names only stays as it is.
LEMMA CleanStays ==
    ASSUME NEW X, NEW names \in Seq(X), \A k \in 1..Len(names) : Named(names[k]),
           NEW path, path = IF names = <<>> THEN Root ELSE <<"">> \o names,
           ~ ThroughProcRoot(path)
    PROVE  Normalize(path) = path
<1>1. Normalize(path) = IF Stack(path)[Len(path)] = <<>> THEN Root ELSE <<"">> \o Stack(path)[Len(path)]
  BY Zenon DEF Normalize
<1>2. Walk(<<>>, "") = <<>>
  BY DEF Walk
<1>3. Stack(path)[Len(path)] = names
  <2>1. CASE names = <<>>
    <3>1. Stack(Root)[Len(Root)] = <<>>
      BY StackOfRoot
    <3> QED BY <2>1, <3>1, Zenon
  <2>2. CASE names # <<>>
    <3>1. path = <<"">> \o names
      BY <2>2, Zenon
    <3>2. /\ Len(<<"">> \o names) = Len(names) + 1
          /\ (<<"">> \o names)[1] = ""
          /\ \A k \in 1..Len(names) : (<<"">> \o names)[k + 1] = names[k]
      BY EmptyFirst, Zenon
    <3>3. Len(path) = Len(names) + 1 /\ Walk(<<>>, path[1]) = <<>>
      BY <1>2, <3>1, <3>2, Zenon
    <3>4. \A k \in 1..Len(names) : path[k + 1] = names[k]
      BY <3>1, <3>2, Zenon
    <3> QED BY <3>3, <3>4, StackOfNames, Zenon
  <2> QED BY <2>1, <2>2
<1> QED BY <1>1, <1>3, Zenon

\* What the daemon makes of a path outside /proc/<pid>/root, it leaves as it is.
LEMMA NormalizedStays ==
    ASSUME NEW X, NEW raw \in Seq(X), ~ ThroughProcRoot(Normalize(raw))
    PROVE  Normalize(Normalize(raw)) = Normalize(raw)
<1> DEFINE stripped == IF ThroughProcRoot(raw) THEN SubSeq(raw, 5, Len(raw)) ELSE raw
           names == Stack(stripped)[Len(stripped)]
<1>1. stripped \in Seq(X)
  <2>1. Len(raw) \in Nat /\ \A i \in 5..Len(raw) : raw[i] \in X
    OBVIOUS
  <2>2. SubSeq(raw, 5, Len(raw)) \in Seq(X)
    BY <2>1, SubSeqProperties
  <2> QED BY <2>2
<1>2. Normalize(raw) = IF names = <<>> THEN Root ELSE <<"">> \o names
  BY Zenon DEF Normalize
<1> HIDE DEF stripped
<1>3. names \in Seq(X) /\ \A k \in 1..Len(names) : Named(names[k])
  BY <1>1, StackIsKept, Zenon
<1> HIDE DEF names
<1> QED BY <1>2, <1>3, CleanStays, Zenon

\* What normalize_path returns is a path.
LEMMA NormalizeType ==
    ASSUME NEW X, NEW raw \in Seq(X)
    PROVE  Normalize(raw) \in Seq(X \cup {""})
<1> DEFINE stripped == IF ThroughProcRoot(raw) THEN SubSeq(raw, 5, Len(raw)) ELSE raw
           names == Stack(stripped)[Len(stripped)]
<1>1. stripped \in Seq(X)
  <2>1. Len(raw) \in Nat /\ \A i \in 5..Len(raw) : raw[i] \in X
    OBVIOUS
  <2>2. SubSeq(raw, 5, Len(raw)) \in Seq(X)
    BY <2>1, SubSeqProperties
  <2> QED BY <2>2
<1>2. Normalize(raw) = IF names = <<>> THEN Root ELSE <<"">> \o names
  BY Zenon DEF Normalize
<1> HIDE DEF stripped
<1>3. names \in Seq(X)
  BY <1>1, StackIsKept, Zenon
<1> HIDE DEF names
<1>4. Root \in Seq(X \cup {""})
  BY DEF Root
<1>5. <<"">> \o names \in Seq(X \cup {""})
  <2>1. \A e : <<e>> \o names \in Seq(X \cup {e})
    BY <1>3, OneMore, SMT
  <2> QED BY <2>1, Zenon
<1> QED BY <1>2, <1>4, <1>5, Zenon

\* The daemon judges a spelling as it judges the path it stands for.
LEMMA SpellingJudged ==
    ASSUME NEW X, NEW raw \in Seq(X), ~ ThroughProcRoot(raw),
           ~ ThroughProcRoot(Normalize(Resolved(raw))), NEW comm
    PROVE  ReportedAction("file", comm, raw) = ReportedAction("file", comm, Resolved(raw))
<1>1. Normalize(raw) = Resolved(raw)
  BY NormalizeIsResolved, Zenon
<1>2. Resolved(raw) \in Seq(X \cup {""})
  BY <1>1, NormalizeType, Zenon
<1>3. Normalize(Normalize(Resolved(raw))) = Normalize(Resolved(raw))
  BY <1>2, NormalizedStays, Zenon
<1>4. \A policy : CheckPolicy(policy, Normalize(raw)) <=> CheckPolicy(policy, Normalize(Resolved(raw)))
  BY <1>1, <1>3, Zenon DEF CheckPolicy
<1>5. UserAllows("file", comm, raw) <=> UserAllows("file", comm, Resolved(raw))
  <2>1. "file" # "net"
    OBVIOUS
  <2> QED BY <1>4, <2>1, Zenon DEF UserAllows
<1> QED BY <1>5, Zenon DEF ReportedAction

\* SpellingHidesNothing: the daemon judges every way of writing a path as the path it
\* stands for (normalize_path, config.rs 561-613), for every configuration and paths of
\* every length.
THEOREM SpellingNeverHides == Spec => []SpellingHidesNothing
<1>1. Spellings \subseteq Seq(STRING)
  BY TrackingAssumption
<1>2. ASSUME NEW e \in [path : {raw \in Spellings : /\ ~ ThroughProcRoot(raw)
                                                   /\ ~ ThroughProcRoot(Normalize(Resolved(raw)))},
                        comm : Names]
      PROVE  ReportedAction("file", e.comm, e.path) = ReportedAction("file", e.comm, Resolved(e.path))
  <2>1. e.path \in Seq(STRING) /\ ~ ThroughProcRoot(e.path) /\ ~ ThroughProcRoot(Normalize(Resolved(e.path)))
    BY <1>1
  <2> QED BY <2>1, SpellingJudged, Zenon
<1>3. Hidden = {}
  BY <1>2 DEF Hidden
<1>4. SpellingHidesNothing
  BY <1>3 DEF SpellingHidesNothing
<1> QED BY <1>4, PTL
=============================================================================
