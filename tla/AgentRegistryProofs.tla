------------------------ MODULE AgentRegistryProofs ------------------------
(***************************************************************************)
(* An agent stays watched until the daemon has let go of that very launch, *)
(* for any number of launches, names and cgroups.                          *)
(***************************************************************************)
EXTENDS AgentRegistry, TLAPS

\* Only a launcher that has joined its cgroup has processes in it, and it
\* joined with an answer of the daemon.
JoinedWithAnswer ==
    \A l \in Launches :
        /\ procs[l] > 0 => pc[l] \in {"inside", "running"}
        /\ pc[l] \in {"joining", "inside", "running"} => reply[l] = "ack"

\* A launch sends one request, which is answered once.
AskedOnce ==
    \A l \in Launches :
        /\ l \in inbox => reply[l] = "none"
        /\ pc[l] \in {"start", "made"} => l \notin inbox /\ reply[l] = "none"

\* A launch the daemon acknowledged is in the maps until it has ended.
AnsweredIsWatched ==
    \A l \in Launches : reply[l] = "ack" /\ ended[l] = "no" =>
        l \in watched /\ (Enforce => l \in enforced)

\* A sweep under way still means the launches it has looked at: the mutex
\* keeps their names from being registered again.
SweepIsCurrent ==
    /\ ~sweep.on => sweep.todo = {} /\ sweep.empty = {}
    /\ \A n \in sweep.todo \cup sweep.empty : agents[n] \in Launches
    /\ \A n \in sweep.empty : ended[agents[n]] # "no"

\* The inductive invariant
RegistryInv ==
    TypeOK /\ JoinedWithAnswer /\ AskedOnce /\ AnsweredIsWatched /\ SweepIsCurrent

-----------------------------------------------------------------------------

LEMMA InitEstablishes == Init => RegistryInv
BY RegistryAssumption
   DEF Init, RegistryInv, TypeOK, JoinedWithAnswer, AskedOnce, AnsweredIsWatched,
       SweepIsCurrent, SweepOff

\* What cleaning up after one name does to the registration and the maps
LEMMA CleanUpKeepsTypes ==
    ASSUME TypeOK, NEW n \in Names, agents[n] \in Launches,
           NEW why \in {"empty", "stopped", "deleted"}, CleanUp(n, why)
    PROVE  /\ dirs' \subseteq Launches
           /\ agents' \in [Names -> Launches \cup {NoLaunch}]
           /\ watched' \subseteq Launches /\ enforced' \subseteq Launches
           /\ closed' \subseteq Launches
           /\ ended' \in [Launches -> {"no", "empty", "stopped", "deleted", "restart"}]
BY DEF TypeOK, CleanUp

\* Cleaning up takes one launch out of the maps, and notes its end.
LEMMA CleanUpKeepsOthers ==
    ASSUME RegistryInv, NEW n \in Names, agents[n] \in Launches,
           NEW why \in {"empty", "stopped", "deleted"}, CleanUp(n, why), UNCHANGED reply
    PROVE  AnsweredIsWatched'
<1> SUFFICES ASSUME NEW l \in Launches, reply[l] = "ack", ended'[l] = "no"
             PROVE  l \in watched' /\ (Enforce => l \in enforced')
  BY DEF AnsweredIsWatched
<1>1. l # agents[n] /\ ended[l] = "no"
  BY DEF CleanUp, RegistryInv, TypeOK
<1> QED BY <1>1 DEF CleanUp, RegistryInv, AnsweredIsWatched

-----------------------------------------------------------------------------

\* The steps of launchers and processes leave the daemon's state alone.
LEMMA LauncherSteps ==
    ASSUME RegistryInv, NEW l \in Launches,
           \/ MakeCgroup(l) \/ Ask(l) \/ Acknowledged(l) \/ GiveUp(l) \/ Join(l)
           \/ Exec(l) \/ Fork(l) \/ ProcExit(l) \/ Killed(l)
    PROVE  RegistryInv'
<1> USE DEF RegistryInv
<1>1. UNCHANGED <<reply, agents, watched, enforced, closed, sweep, signalled, ended>>
  BY DEF MakeCgroup, Ask, Acknowledged, GiveUp, Join, Exec, Fork, ProcExit, Killed, mapVars
<1>2. AnsweredIsWatched' /\ SweepIsCurrent'
  BY <1>1 DEF AnsweredIsWatched, SweepIsCurrent
<1>3. TypeOK'
  BY <1>1 DEF TypeOK, MakeCgroup, Ask, Acknowledged, GiveUp, Join, Exec, Fork, ProcExit, Killed,
              Goto
<1>4. JoinedWithAnswer'
  <2> SUFFICES ASSUME NEW k \in Launches
               PROVE  /\ procs'[k] > 0 => pc'[k] \in {"inside", "running"}
                      /\ pc'[k] \in {"joining", "inside", "running"} => reply'[k] = "ack"
    BY DEF JoinedWithAnswer
  <2>1. CASE k # l
    BY <1>1, <2>1 DEF TypeOK, JoinedWithAnswer, MakeCgroup, Ask, Acknowledged, GiveUp, Join,
                      Exec, Fork, ProcExit, Killed, Goto
  <2>2. CASE k = l
    BY <1>1, <2>2 DEF TypeOK, JoinedWithAnswer, MakeCgroup, Ask, Acknowledged, GiveUp, Join,
                      Exec, Fork, ProcExit, Killed, Goto
  <2> QED BY <2>1, <2>2
<1>5. AskedOnce'
  BY <1>1 DEF TypeOK, AskedOnce, MakeCgroup, Ask, Acknowledged, GiveUp, Join, Exec, Fork,
              ProcExit, Killed, Goto
<1> QED BY <1>2, <1>3, <1>4, <1>5

\* A registration happens only while no sweep is under way.
LEMMA RegisterStep ==
    ASSUME RegistryInv, NEW l \in Launches, Register(l)
    PROVE  RegistryInv'
<1> USE DEF RegistryInv
<1>1. NameOf[l] \in Names
  BY RegistryAssumption
<1>2. TypeOK'
  BY <1>1 DEF TypeOK, Register, mapVars
<1>3. JoinedWithAnswer'
  <2>1. ASSUME NEW k \in Launches, k # l PROVE reply'[k] = reply[k]
    BY <2>1 DEF Register, TypeOK
  <2>2. pc' = pc /\ procs' = procs
    BY DEF Register
  <2>3. pc[l] \notin {"joining", "inside", "running"}
    BY DEF JoinedWithAnswer, AskedOnce, Register
  <2> QED BY <2>1, <2>2, <2>3 DEF JoinedWithAnswer, TypeOK
<1>4. AnsweredIsWatched'
  BY DEF AnsweredIsWatched, Register, TypeOK, mapVars
<1>5. SweepIsCurrent'
  BY DEF SweepIsCurrent, Register, Locked
<1>6. AskedOnce'
  BY DEF AskedOnce, Register, TypeOK
<1> QED BY <1>2, <1>3, <1>4, <1>5, <1>6

\* Stopping and deleting an agent happen only while no sweep is under way.
LEMMA StopStep ==
    ASSUME RegistryInv, NEW n \in Names, StopAgent(n) \/ DeleteAgent(n)
    PROVE  RegistryInv'
<1> USE DEF RegistryInv
<1>1. agents[n] \in Launches
  BY DEF StopAgent, DeleteAgent, TypeOK
<1>2. PICK why \in {"stopped", "deleted"} : CleanUp(n, why)
  BY DEF StopAgent, DeleteAgent
<1>3. UNCHANGED <<pc, procs, inbox, reply, sweep>>
  BY DEF StopAgent, DeleteAgent
<1>4. AnsweredIsWatched'
  BY <1>1, <1>2, <1>3, CleanUpKeepsOthers
<1>5. TypeOK'
  <2>1. signalled' \subseteq Launches
    BY <1>1 DEF StopAgent, DeleteAgent, TypeOK
  <2> QED BY <1>1, <1>2, <1>3, <2>1, CleanUpKeepsTypes DEF TypeOK
<1>6. JoinedWithAnswer' /\ AskedOnce'
  BY <1>3 DEF JoinedWithAnswer, AskedOnce
<1>7. SweepIsCurrent'
  BY <1>3 DEF SweepIsCurrent, StopAgent, DeleteAgent, Locked
<1> QED BY <1>4, <1>5, <1>6, <1>7

\* A step of the cleanup task
LEMMA SweepStep ==
    ASSUME RegistryInv,
           \/ SweepStart \/ SweepEnd
           \/ \E n \in Names : SweepLook(n) \/ SweepClean(n)
    PROVE  RegistryInv'
<1> USE DEF RegistryInv
<1>1. UNCHANGED <<pc, procs, inbox, reply, signalled>>
  BY DEF SweepStart, SweepEnd, SweepLook, SweepClean, launchVars
<1>2. JoinedWithAnswer' /\ AskedOnce'
  BY <1>1 DEF JoinedWithAnswer, AskedOnce
<1>3. CASE SweepStart \/ SweepEnd
  <2>1. TypeOK'
    <3>1. UNCHANGED <<dirs, agents, watched, enforced, closed, ended>>
      BY <1>3 DEF SweepStart, SweepEnd, launchVars, mapVars
    <3>2. ASSUME NEW S \in SUBSET Names, NEW b \in BOOLEAN
          PROVE  [on |-> b, todo |-> S, empty |-> {}]
                     \in [on : BOOLEAN, todo : SUBSET Names, empty : SUBSET Names]
      OBVIOUS
    <3>3. sweep' \in [on : BOOLEAN, todo : SUBSET Names, empty : SUBSET Names]
      <4>1. CASE SweepStart
        <5> DEFINE S == {n \in Names : agents[n] # NoLaunch}
        <5>1. S \in SUBSET Names
          OBVIOUS
        <5>2. sweep' = [on |-> TRUE, todo |-> S, empty |-> {}]
          BY <4>1 DEF SweepStart
        <5> HIDE DEF S
        <5> QED BY <3>2, <5>1, <5>2
      <4>2. CASE SweepEnd
        BY <3>2, <4>2 DEF SweepEnd, SweepOff
      <4> QED BY <1>3, <4>1, <4>2
    <3> QED BY <1>1, <3>1, <3>3 DEF TypeOK
  <2>2. AnsweredIsWatched'
    BY <1>3 DEF AnsweredIsWatched, SweepStart, SweepEnd, launchVars, mapVars
  <2>3. SweepIsCurrent'
    BY <1>3 DEF TypeOK, SweepIsCurrent, SweepStart, SweepEnd, SweepOff, launchVars, mapVars
  <2> QED BY <1>2, <2>1, <2>2, <2>3
<1>4. ASSUME NEW n \in Names, SweepLook(n) PROVE RegistryInv'
  <2>1. agents[n] \in Launches
    BY <1>4 DEF SweepLook, SweepIsCurrent
  <2>2. UNCHANGED <<dirs, agents, watched, enforced, closed>>
    BY <1>4 DEF SweepLook, launchVars, mapVars
  <2>3. /\ sweep' \in [on : BOOLEAN, todo : SUBSET Names, empty : SUBSET Names]
        /\ sweep'.on = sweep.on /\ sweep'.todo = sweep.todo \ {n}
        /\ sweep'.empty = IF NoProcesses(agents[n]) THEN sweep.empty \cup {n} ELSE sweep.empty
    BY <1>4 DEF SweepLook, TypeOK
  <2>4. /\ ended' \in [Launches -> {"no", "empty", "stopped", "deleted", "restart"}]
        /\ \A l \in Launches : ended'[l] = "no" => ended[l] = "no"
        /\ NoProcesses(agents[n]) => ended'[agents[n]] # "no"
    BY <1>4, <2>1 DEF SweepLook, TypeOK
  <2>5. TypeOK'
    BY <1>1, <2>2, <2>3, <2>4 DEF TypeOK
  <2>6. AnsweredIsWatched'
    BY <1>1, <2>2, <2>4 DEF AnsweredIsWatched
  <2>7. SweepIsCurrent'
    BY <1>4, <2>1, <2>2, <2>3, <2>4 DEF SweepIsCurrent, SweepLook
  <2> QED BY <1>2, <2>5, <2>6, <2>7
<1>5. ASSUME NEW n \in Names, SweepClean(n) PROVE RegistryInv'
  <2>1. agents[n] \in Launches /\ CleanUp(n, "empty")
    BY <1>5 DEF SweepClean, SweepIsCurrent
  <2>2. AnsweredIsWatched'
    BY <1>1, <2>1, CleanUpKeepsOthers
  <2>3. /\ sweep' \in [on : BOOLEAN, todo : SUBSET Names, empty : SUBSET Names]
        /\ sweep'.on /\ sweep'.todo = {} /\ sweep'.empty = sweep.empty \ {n}
    BY <1>5 DEF SweepClean, TypeOK
  <2>4. TypeOK'
    BY <1>1, <2>1, <2>3, CleanUpKeepsTypes DEF TypeOK
  <2>5. SweepIsCurrent'
    <3> SUFFICES ASSUME NEW m \in sweep.empty \ {n}
                 PROVE  agents'[m] \in Launches /\ ended'[agents'[m]] # "no"
      BY <2>3 DEF SweepIsCurrent
    <3>1. agents[m] \in Launches /\ ended[agents[m]] # "no" /\ m \in Names
      BY DEF SweepIsCurrent, TypeOK
    <3> QED BY <2>1, <3>1 DEF CleanUp, TypeOK
  <2> QED BY <1>2, <2>2, <2>4, <2>5
<1> QED BY <1>3, <1>4, <1>5

\* A restart ends every launch that was watched.
LEMMA RestartStep == ASSUME RegistryInv, Restart PROVE RegistryInv'
<1> USE DEF RegistryInv
<1>1. TypeOK'
  BY DEF TypeOK, Restart, SweepOff
<1>2. JoinedWithAnswer' /\ AskedOnce'
  BY DEF JoinedWithAnswer, AskedOnce, Restart
<1>3. AnsweredIsWatched'
  BY DEF AnsweredIsWatched, Restart
<1>4. SweepIsCurrent'
  BY DEF SweepIsCurrent, Restart, SweepOff
<1> QED BY <1>1, <1>2, <1>3, <1>4

LEMMA NextPreserves == RegistryInv /\ [Next]_vars => RegistryInv'
<1> SUFFICES ASSUME RegistryInv, [Next]_vars PROVE RegistryInv'
  OBVIOUS
<1>1. CASE UNCHANGED vars
  BY <1>1 DEF RegistryInv, TypeOK, JoinedWithAnswer, AskedOnce, AnsweredIsWatched,
              SweepIsCurrent, vars
<1>2. CASE Next
  BY <1>2, LauncherSteps, RegisterStep, StopStep, SweepStep, RestartStep DEF Next
<1> QED BY <1>1, <1>2

LEMMA InvariantHolds == Spec => []RegistryInv
BY InitEstablishes, NextPreserves, PTL DEF Spec

\* The maps, the registrations and the state of every launcher keep their
\* types in every interleaving of launchers, handlers and sweeps.
THEOREM RegistryTypeCorrect == Spec => []TypeOK
<1>1. RegistryInv => TypeOK
  BY DEF RegistryInv
<1> QED BY <1>1, InvariantHolds, PTL

\* However many agents are launched under one name, and whenever the cleanup
\* task runs, the processes of a launch are watched and enforced until the
\* daemon has let go of that launch itself.
THEOREM AgentsStayWatched == Spec => []WatchedUntilEnded
<1>1. RegistryInv => WatchedUntilEnded
  BY DEF RegistryInv, JoinedWithAnswer, AnsweredIsWatched, WatchedUntilEnded
<1> QED BY <1>1, InvariantHolds, PTL
=============================================================================
