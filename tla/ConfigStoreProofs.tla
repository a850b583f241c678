------------------------- MODULE ConfigStoreProofs -------------------------
(***************************************************************************)
(* The mutex keeps config.toml and the configuration in memory in step,    *)
(* for any number of handlers, agents, policies and exec grants.  The      *)
(* invariant has to say what every step of a save has achieved so far, up  *)
(* to the grants made and expired meanwhile, and that a handler outside    *)
(* the mutex, as long as nothing overlaps it, is alone.                    *)
(***************************************************************************)
EXTENDS ConfigStore, TLAPS

Unlocked == {"alerts", "reload"}

\* The mutex is held exactly by the handler that is in its critical section.
LockHeld ==
    \A t \in Tasks :
        /\ lock = t <=> ~Idle(t) /\ job[t].op \notin Unlocked
        /\ Idle(t) <=> job[t].op = "none"

DownIsQuiet == ~up => Quiet

Alone == ~overlapped => \A s, t \in Tasks : ~Idle(s) /\ ~Idle(t) => s = t

\* What the file holds at each step of a handler that nothing overlaps
InFlight ==
    ~overlapped =>
        \A t \in Tasks :
            /\ job[t].pc \in {"open", "write"} =>
                   \E c \in Config : job[t].snap = {c} /\ Same(granted, c, Saved(mem))
            /\ job[t].pc = "write" => file = Truncated
            /\ job[t].pc = "reread" =>
                   \E c \in Config : file = Whole(c) /\ Same(granted, c, Saved(mem))
            /\ job[t].pc = "install" => job[t].snap = file.conf
            /\ job[t].pc = "open" /\ job[t].op = "create" /\ ~failed =>
                   \E c \in file.conf : AsSaved(c, RolledBack(t))

\* The inductive invariant
StoreInv == StoreTypeOK /\ LockHeld /\ DownIsQuiet /\ Alone /\ InFlight /\ SerialSavesMatch

-----------------------------------------------------------------------------
(* Configurations.                                                         *)

\* A configuration is made of its three sections.
LEMMA ConfigParts ==
    ASSUME NEW c \in Config
    PROVE  /\ c = [agents |-> c.agents, alerts |-> c.alerts, permissions |-> c.permissions]
           /\ DOMAIN c.agents \in SUBSET Names
           /\ c.agents \in [DOMAIN c.agents -> AgentConfig]
           /\ c.alerts \in Alerts /\ c.permissions \in BOOLEAN
BY DEF Config

LEMMA ConfigOf ==
    ASSUME NEW D \in SUBSET Names, NEW f \in [D -> AgentConfig], NEW v \in Alerts,
           NEW b \in BOOLEAN
    PROVE  [agents |-> f, alerts |-> v, permissions |-> b] \in Config
BY DEF Config

\* What is written is a configuration, and what each of its fields is.
LEMMA SavedParts ==
    ASSUME NEW c \in Config
    PROVE  /\ Saved(c) \in Config
           /\ DOMAIN Saved(c).agents = DOMAIN c.agents
           /\ \A n \in DOMAIN c.agents :
                 /\ Saved(c).agents[n].policy = Rendered[c.agents[n].policy]
                 /\ Saved(c).agents[n].failClosed = FALSE
                 /\ Saved(c).agents[n].exec = c.agents[n].exec
           /\ Saved(c).alerts = c.alerts /\ Saved(c).permissions = FALSE
<1> DEFINE D == DOMAIN c.agents
           f == [n \in D |-> [c.agents[n] EXCEPT !.policy = Rendered[@], !.failClosed = FALSE]]
           s == [agents |-> f, alerts |-> c.alerts, permissions |-> FALSE]
<1>1. /\ D \in SUBSET Names
      /\ c.agents \in [D -> AgentConfig]
      /\ c.alerts \in Alerts
  BY ConfigParts
<1>2. Saved(c) = s
  BY DEF Saved
<1>3. ASSUME NEW n \in D
      PROVE  /\ f[n] \in AgentConfig
             /\ f[n].policy = Rendered[c.agents[n].policy]
             /\ f[n].failClosed = FALSE
             /\ f[n].exec = c.agents[n].exec
  <2>1. c.agents[n] \in AgentConfig
    BY <1>1
  <2>2. Rendered[c.agents[n].policy] \in Policies
    BY <2>1, StoreAssumption DEF AgentConfig
  <2> QED BY <2>1, <2>2 DEF AgentConfig
<1>4. f \in [D -> AgentConfig] /\ DOMAIN f = D
  BY <1>3
<1>5. s \in Config
  BY <1>1, <1>4, ConfigOf
<1>6. /\ DOMAIN s.agents = D
      /\ \A n \in D : s.agents[n] = f[n]
      /\ s.alerts = c.alerts /\ s.permissions = FALSE
  BY <1>4
<1> HIDE DEF f, s
<1> QED BY <1>2, <1>3, <1>5, <1>6

\* Same is an equivalence, and more grants make it no finer.
LEMMA SameSelf == ASSUME NEW G, NEW c PROVE Same(G, c, c)
BY DEF Same, SameExec

LEMMA SameBack == ASSUME NEW G, NEW c, NEW d, Same(G, c, d) PROVE Same(G, d, c)
BY DEF Same, SameExec

LEMMA SameOn ==
    ASSUME NEW G, NEW b, NEW c, NEW d, Same(G, b, c), Same(G, c, d) PROVE Same(G, b, d)
BY DEF Same, SameExec

LEMMA SameMore ==
    ASSUME NEW G, NEW H, G \subseteq H, NEW c, NEW d, Same(G, c, d) PROVE Same(H, c, d)
<1>1. ASSUME NEW n, NEW x, NEW y, SameExec(G, n, x, y) PROVE SameExec(H, n, x, y)
  <2>1. CASE x = y
    BY <2>1 DEF SameExec
  <2>2. CASE x # y
    <3> DEFINE g == GrantedTo(G, n)
               h == GrantedTo(H, n)
               X == UNION x
               Y == UNION y
    <3>1. g # {} /\ X \ g = Y \ g
      BY <1>1, <2>2 DEF SameExec
    <3>2. g \subseteq h
      BY DEF GrantedTo
    <3> HIDE DEF g, h, X, Y
    <3>3. h # {} /\ X \ h = Y \ h
      BY <3>1, <3>2
    <3> QED BY <3>3 DEF SameExec, h, X, Y
  <2> QED BY <2>1, <2>2
<1> QED BY <1>1 DEF Same

\* What is saved of two configurations with the same content has the same content.
LEMMA SameSaved ==
    ASSUME NEW G, NEW c \in Config, NEW d \in Config, Same(G, c, d)
    PROVE  Same(G, Saved(c), Saved(d))
<1>1. \A n \in DOMAIN c.agents : SameExec(G, n, c.agents[n].exec, d.agents[n].exec)
  BY DEF Same
<1>2. /\ DOMAIN c.agents = DOMAIN d.agents /\ c.alerts = d.alerts
      /\ \A n \in DOMAIN c.agents : c.agents[n].policy = d.agents[n].policy
  BY DEF Same
<1>3. \A n \in DOMAIN c.agents :
         SameExec(G, n, Saved(c).agents[n].exec, Saved(d).agents[n].exec)
  BY <1>1, <1>2, SavedParts
<1>4. ASSUME NEW n \in DOMAIN c.agents
      PROVE  /\ Saved(c).agents[n].policy = Saved(d).agents[n].policy
             /\ Saved(c).agents[n].failClosed = Saved(d).agents[n].failClosed
  <2>1. /\ Saved(c).agents[n].policy = Rendered[c.agents[n].policy]
        /\ Saved(c).agents[n].failClosed = FALSE
    BY SavedParts
  <2>2. n \in DOMAIN d.agents
    BY <1>2
  <2>3. /\ Saved(d).agents[n].policy = Rendered[d.agents[n].policy]
        /\ Saved(d).agents[n].failClosed = FALSE
    BY <2>2, SavedParts
  <2> QED BY <1>2, <2>1, <2>3
<1>5. /\ DOMAIN Saved(c).agents = DOMAIN c.agents
      /\ DOMAIN Saved(c).agents = DOMAIN Saved(d).agents
      /\ Saved(c).alerts = Saved(d).alerts
      /\ Saved(c).permissions = Saved(d).permissions
  BY <1>2, SavedParts
<1> QED BY <1>3, <1>4, <1>5 DEF Same

\* Adding, replacing and removing agents give configurations; removing the
\* agent that was added gives the configuration there was.
LEMMA AgentOps ==
    ASSUME NEW c \in Config, NEW n \in Names, NEW a \in AgentConfig
    PROVE  /\ WithAgent(c, n, a) \in Config
           /\ \A N \in SUBSET Names : WithoutAgents(c, N) \in Config
           /\ n \notin DOMAIN c.agents => WithoutAgents(WithAgent(c, n, a), {n}) = c
<1> DEFINE D == DOMAIN c.agents
           f == [m \in D \cup {n} |-> IF m = n THEN a ELSE c.agents[m]]
           w == [agents |-> f, alerts |-> c.alerts, permissions |-> c.permissions]
<1>1. /\ c = [agents |-> c.agents, alerts |-> c.alerts, permissions |-> c.permissions]
      /\ D \in SUBSET Names
      /\ c.agents \in [D -> AgentConfig]
      /\ c.alerts \in Alerts /\ c.permissions \in BOOLEAN
  BY ConfigParts
<1>2. WithAgent(c, n, a) = w
  BY <1>1 DEF WithAgent, WithAgents
<1>3. D \cup {n} \in SUBSET Names /\ f \in [D \cup {n} -> AgentConfig]
  BY <1>1
<1>4. w \in Config
  BY <1>1, <1>3, ConfigOf
<1>5. ASSUME NEW N \in SUBSET Names PROVE WithoutAgents(c, N) \in Config
  <2> DEFINE g == [m \in D \ N |-> c.agents[m]]
  <2>1. D \ N \in SUBSET Names /\ g \in [D \ N -> AgentConfig]
    BY <1>1
  <2>2. WithoutAgents(c, N) = [agents |-> g, alerts |-> c.alerts, permissions |-> c.permissions]
    BY <1>1 DEF WithoutAgents, WithAgents
  <2> QED BY <1>1, <2>1, <2>2, ConfigOf
<1>6. ASSUME n \notin D PROVE WithoutAgents(w, {n}) = c
  <2>1. DOMAIN f \ {n} = D /\ [m \in D |-> f[m]] = c.agents
    BY <1>1, <1>6
  <2>2. WithoutAgents(w, {n}) = [agents |-> [m \in DOMAIN f \ {n} |-> f[m]],
                                 alerts |-> c.alerts, permissions |-> c.permissions]
    BY DEF WithoutAgents, WithAgents
  <2> QED BY <1>1, <2>1, <2>2
<1> QED BY <1>2, <1>4, <1>5, <1>6

\* An agent whose exec section changes in commands granted to it only
LEMMA ExecOps ==
    ASSUME NEW c \in Config, NEW n \in DOMAIN c.agents, NEW x \in ExecSections, NEW G,
           SameExec(G, n, x, c.agents[n].exec)
    PROVE  WithExec(c, n, x) \in Config /\ Same(G, WithExec(c, n, x), c)
<1> DEFINE a == [c.agents[n] EXCEPT !.exec = x]
           D == DOMAIN c.agents
           f == [m \in D \cup {n} |-> IF m = n THEN a ELSE c.agents[m]]
<1>1. n \in Names /\ c.agents \in [D -> AgentConfig]
  BY ConfigParts
<1>2. /\ a \in AgentConfig
      /\ a.policy = c.agents[n].policy /\ a.failClosed = c.agents[n].failClosed
      /\ a.exec = x
  BY <1>1 DEF AgentConfig
<1>3. WithExec(c, n, x) = WithAgent(c, n, a)
  BY DEF WithExec
<1>4. WithExec(c, n, x) \in Config
  BY <1>1, <1>2, <1>3, AgentOps
<1>5. WithAgent(c, n, a) = [agents |-> f, alerts |-> c.alerts, permissions |-> c.permissions]
  BY DEF WithAgent, WithAgents
<1> HIDE DEF a
<1>6. DOMAIN f = D /\ \A m \in D : f[m] = IF m = n THEN a ELSE c.agents[m]
  BY <1>1
<1>7. Same(G, [agents |-> f, alerts |-> c.alerts, permissions |-> c.permissions], c)
  <2> HIDE DEF f
  <2>1. \A m \in D : SameExec(G, m, c.agents[m].exec, c.agents[m].exec)
    BY DEF SameExec
  <2> QED BY <1>2, <1>6, <2>1 DEF Same
<1> QED BY <1>3, <1>4, <1>5, <1>7

\* A file holds at most one configuration.
LEMMA FileHolds ==
    ASSUME StoreTypeOK
    PROVE  file.conf \subseteq Config /\ \A c \in file.conf : file = Whole(c) /\ file.conf = {c}
BY DEF StoreTypeOK, Truncated, Garbage, Whole

-----------------------------------------------------------------------------
(* The inductive step.                                                     *)

\* Nothing runs outside the mutex and nobody holds it: nothing runs.
LEMMA FreeIsQuiet ==
    ASSUME LockHeld, lock = NoTask, \A s \in Tasks : ~OutsideLock(s)
    PROVE  Quiet
BY StoreAssumption DEF LockHeld, Quiet, OutsideLock, Unlocked

\* The handlers that keep the mutex: they start from a configuration that
\* is in step with the file.
LEMMA BeginStep ==
    ASSUME StoreInv, NEW t \in Tasks, NEW op \in OpNames \ Unlocked, NEW c \in Config,
           NEW N \in SUBSET Names, Begin(t, op, c, N),
           op = "create" => WithoutAgents(c, N) = mem
    PROVE  StoreInv'
<1> USE DEF StoreInv
<1> DEFINE new == [pc |-> "open", op |-> op, snap |-> {Saved(c)}, name |-> N]
<1>1. /\ up /\ Idle(t) /\ lock = NoTask /\ lock' = t /\ mem' = c
      /\ job' = [job EXCEPT ![t] = new]
      /\ NoteOverlap(op)
      /\ UNCHANGED <<up, file, granted, failed>>
  BY DEF Begin, Taken
<1>2. new \in Job /\ new.pc = "open" /\ new.op = op /\ new.snap = {Saved(c)} /\ new.name = N
  BY SavedParts DEF Job
<1> HIDE DEF new
<1>3. /\ job' \in [Tasks -> Job] /\ job'[t] = new
      /\ \A s \in Tasks \ {t} : job'[s] = job[s]
  BY <1>1, <1>2 DEF StoreTypeOK
<1>4. StoreTypeOK'
  BY <1>1, <1>3 DEF StoreTypeOK, NoteOverlap
<1>5. \A s \in Tasks : s # t => (Idle(s) \/ job[s].op \in Unlocked)
  BY <1>1, StoreAssumption DEF LockHeld
<1>6. LockHeld'
  BY <1>1, <1>2, <1>3, <1>5, StoreAssumption DEF LockHeld, Idle, OpNames
<1>7. DownIsQuiet'
  BY <1>1 DEF DownIsQuiet
<1>8. ~Quiet'
  BY <1>2, <1>3 DEF Quiet, Idle
<1>9. CASE overlapped'
  BY <1>4, <1>6, <1>7, <1>8, <1>9 DEF Alone, InFlight, SerialSavesMatch
<1>10. CASE ~overlapped'
  <2>1. ~overlapped /\ Quiet
    BY <1>1, <1>10, FreeIsQuiet DEF NoteOverlap
  <2>2. Alone'
    BY <1>3, <2>1 DEF Alone, Quiet, Idle
  <2>3. ~failed => \E d \in file.conf : AsSaved(d, mem)
    BY <1>1, <2>1 DEF SerialSavesMatch, InStep
  <2>4. op = "create" => RolledBack(t)' = mem
    BY <1>1, <1>2, <1>3 DEF RolledBack
  <2>5. job'[t].op = "create" /\ ~failed' => (\E d \in file.conf : AsSaved(d, RolledBack(t)))'
    BY <1>1, <1>2, <1>3, <2>3, <2>4 DEF AsSaved
  <2>6. Saved(c) \in Config /\ Same(granted', Saved(c), Saved(mem'))
    BY <1>1, SavedParts, SameSelf
  <2>7. InFlight'
    BY <1>1, <1>2, <1>3, <2>1, <2>5, <2>6 DEF InFlight, Quiet, Idle
  <2> QED BY <1>4, <1>6, <1>7, <1>8, <2>2, <2>7 DEF SerialSavesMatch
<1> QED BY <1>9, <1>10

\* Updating the alerts: as above, without the mutex
LEMMA AlertsStep ==
    ASSUME StoreInv, NEW t \in Tasks, NEW v \in Alerts, UpdateAlerts(t, v) PROVE StoreInv'
<1> USE DEF StoreInv
<1> DEFINE new == [pc |-> "open", op |-> "alerts", snap |-> {Saved(mem')}, name |-> {}]
<1>1. /\ up /\ Idle(t) /\ lock = NoTask
      /\ mem' = [mem EXCEPT !.alerts = v]
      /\ job' = [job EXCEPT ![t] = new]
      /\ NoteOverlap("alerts")
      /\ UNCHANGED <<up, file, lock, granted, failed>>
  BY DEF UpdateAlerts
<1>2. mem' \in Config
  BY <1>1 DEF StoreTypeOK, Config
<1>3. new \in Job /\ new.pc = "open" /\ new.op = "alerts" /\ new.snap = {Saved(mem')}
  BY <1>2, SavedParts DEF Job, OpNames
<1> HIDE DEF new
<1>4. /\ job' \in [Tasks -> Job] /\ job'[t] = new
      /\ \A s \in Tasks \ {t} : job'[s] = job[s]
  BY <1>1, <1>3 DEF StoreTypeOK
<1>5. StoreTypeOK'
  BY <1>1, <1>2, <1>4 DEF StoreTypeOK, NoteOverlap
<1>6. LockHeld'
  BY <1>1, <1>3, <1>4, StoreAssumption DEF LockHeld, Idle, Unlocked
<1>7. DownIsQuiet' /\ ~Quiet'
  BY <1>1, <1>3, <1>4 DEF DownIsQuiet, Quiet, Idle
<1>8. CASE overlapped'
  BY <1>5, <1>6, <1>7, <1>8 DEF Alone, InFlight, SerialSavesMatch
<1>9. CASE ~overlapped'
  <2>1. ~overlapped /\ Quiet
    BY <1>1, <1>9 DEF NoteOverlap
  <2>2. Alone'
    BY <1>4, <2>1 DEF Alone, Quiet, Idle
  <2>3. Saved(mem') \in Config /\ Same(granted', Saved(mem'), Saved(mem'))
    BY <1>2, SavedParts, SameSelf
  <2>4. job'[t].op # "create"
    BY <1>4 DEF new
  <2>5. InFlight'
    BY <1>1, <1>3, <1>4, <2>1, <2>3, <2>4 DEF InFlight, Quiet, Idle
  <2> QED BY <1>5, <1>6, <1>7, <2>2, <2>5 DEF SerialSavesMatch
<1> QED BY <1>8, <1>9

\* A grant or an expiry, while nobody holds the mutex: memory keeps its
\* content, the grants apart.
LEMMA ExecStep ==
    ASSUME StoreInv, lock = NoTask, mem' \in Config, granted' \in SUBSET (Names \X Commands),
           granted \subseteq granted', Same(granted', mem', mem),
           UNCHANGED <<up, file, lock, job, failed, overlapped>>
    PROVE  StoreInv'
<1> USE DEF StoreInv
<1>1. StoreTypeOK'
  BY DEF StoreTypeOK
<1>2. LockHeld' /\ DownIsQuiet' /\ Alone'
  BY DEF LockHeld, DownIsQuiet, Alone, Quiet, Idle
<1>3. mem \in Config /\ Same(granted', mem, mem') /\ Same(granted', Saved(mem), Saved(mem'))
  BY SameBack, SameSaved DEF StoreTypeOK
<1>4. ASSUME NEW c, Same(granted, c, Saved(mem)) PROVE Same(granted', c, Saved(mem'))
  BY <1>3, <1>4, SameMore, SameOn
<1>5. ASSUME NEW c, AsSaved(c, mem) PROVE AsSaved(c, mem)'
  <2>1. CASE Same(granted, c, mem)
    BY <1>3, <2>1, SameMore, SameOn DEF AsSaved
  <2>2. CASE Same(granted, c, Saved(mem))
    BY <1>4, <2>2 DEF AsSaved
  <2> QED BY <1>5, <2>1, <2>2 DEF AsSaved
<1>6. \A t \in Tasks : job[t].pc = "open" => job[t].op # "create"
  BY StoreAssumption DEF LockHeld, Idle, Unlocked
<1>7. InFlight'
  BY <1>4, <1>6 DEF InFlight
<1>8. SerialSavesMatch'
  BY <1>5 DEF SerialSavesMatch, InStep, Quiet, Idle
<1> QED BY <1>1, <1>2, <1>7, <1>8

\* A grant adds a command that is granted from now on.
LEMMA GrantStep ==
    ASSUME StoreInv, NEW n \in Names, NEW cmd \in Commands, GrantExec(n, cmd)
    PROVE  StoreInv'
<1> DEFINE x == mem.agents[n].exec
           y == {(UNION x) \cup {cmd}}
<1>1. /\ lock = NoTask /\ granted' = granted \cup {<<n, cmd>>}
      /\ UNCHANGED <<up, file, lock, job, failed, overlapped>>
      /\ mem' = IF n \in DOMAIN mem.agents THEN WithExec(mem, n, y) ELSE mem
  BY DEF GrantExec
<1>2. mem \in Config /\ granted' \in SUBSET (Names \X Commands) /\ granted \subseteq granted'
  BY <1>1 DEF StoreInv, StoreTypeOK
<1>3. CASE n \in DOMAIN mem.agents
  <2>1. x \in ExecSections
    BY <1>2, <1>3, ConfigParts DEF AgentConfig
  <2>2. UNION x \subseteq Commands
    BY <2>1 DEF ExecSections
  <2>3. y \in ExecSections /\ UNION y = (UNION x) \cup {cmd}
    BY <2>2 DEF ExecSections
  <2>4. cmd \in GrantedTo(granted', n)
    BY <1>1 DEF GrantedTo
  <2>5. ((UNION x) \cup {cmd}) \ GrantedTo(granted', n) = (UNION x) \ GrantedTo(granted', n)
    BY <2>4
  <2>6. SameExec(granted', n, y, x)
    BY <2>3, <2>4, <2>5 DEF SameExec
  <2>7. mem' \in Config /\ Same(granted', mem', mem)
    BY <1>1, <1>2, <1>3, <2>3, <2>6, ExecOps
  <2> QED BY <1>1, <1>2, <2>7, ExecStep
<1>4. CASE n \notin DOMAIN mem.agents
  BY <1>1, <1>2, <1>4, ExecStep, SameSelf
<1> QED BY <1>3, <1>4

\* An expiry takes away a command that was granted.
LEMMA ExpireStep ==
    ASSUME StoreInv, NEW n \in Names, NEW cmd \in Commands, ExpireExec(n, cmd)
    PROVE  StoreInv'
<1> DEFINE x == mem.agents[n].exec
           y == {R \ {cmd} : R \in x}
<1>1. /\ lock = NoTask /\ <<n, cmd>> \in granted /\ n \in DOMAIN mem.agents
      /\ mem' = WithExec(mem, n, y)
      /\ UNCHANGED <<up, file, lock, job, granted, failed, overlapped>>
  BY DEF ExpireExec
<1>2. mem \in Config /\ granted' \in SUBSET (Names \X Commands)
  BY <1>1 DEF StoreInv, StoreTypeOK
<1>3. x \in ExecSections
  BY <1>1, <1>2, ConfigParts DEF AgentConfig
<1>4. y \in ExecSections /\ UNION y = (UNION x) \ {cmd}
  <2>1. CASE x = {}
    BY <2>1 DEF ExecSections
  <2>2. CASE x # {}
    <3>1. PICK R \in SUBSET Commands : x = {R}
      BY <1>3, <2>2 DEF ExecSections
    <3>2. y = {R \ {cmd}} /\ UNION x = R /\ R \ {cmd} \in SUBSET Commands
      BY <3>1
    <3>3. UNION y = R \ {cmd}
      BY <3>2
    <3> QED BY <3>2, <3>3 DEF ExecSections
  <2> QED BY <2>1, <2>2
<1>5. cmd \in GrantedTo(granted', n)
  BY <1>1 DEF GrantedTo
<1>6. ((UNION x) \ {cmd}) \ GrantedTo(granted', n) = (UNION x) \ GrantedTo(granted', n)
  BY <1>5
<1>7. SameExec(granted', n, y, x)
  BY <1>4, <1>5, <1>6 DEF SameExec
<1> HIDE DEF x, y
<1>8. mem' \in Config /\ Same(granted', mem', mem)
  BY <1>1, <1>2, <1>4, <1>7, ExecOps DEF x
<1> QED BY <1>1, <1>2, <1>8, ExecStep

\* The file is opened.
LEMMA OpenStep == ASSUME StoreInv, NEW t \in Tasks, Open(t) PROVE StoreInv'
<1> USE DEF StoreInv
<1>1. /\ job[t].pc = "open" /\ file' = Truncated
      /\ job' = [job EXCEPT ![t].pc = "write"]
      /\ UNCHANGED <<up, mem, lock, granted, failed, overlapped>>
  BY DEF Open
<1>2. /\ job' \in [Tasks -> Job]
      /\ job'[t].pc = "write" /\ job'[t].op = job[t].op /\ job'[t].snap = job[t].snap
      /\ \A s \in Tasks \ {t} : job'[s] = job[s]
  BY <1>1 DEF StoreTypeOK, Job
<1>3. StoreTypeOK'
  BY <1>1, <1>2 DEF StoreTypeOK
<1>4. LockHeld' /\ DownIsQuiet' /\ Alone' /\ ~Quiet'
  BY <1>1, <1>2 DEF LockHeld, DownIsQuiet, Alone, Quiet, Idle
<1>5. InFlight'
  BY <1>1, <1>2 DEF InFlight, Alone, Idle
<1> QED BY <1>3, <1>4, <1>5 DEF SerialSavesMatch

FileTypeOK == file \in {Truncated, Garbage} \/ \E c \in file.conf : c \in Config /\ file = Whole(c)

\* A handler ends: if nothing overlapped it, nothing runs any more, so all
\* that is left to show is that the file and memory are in step.
LEMMA FinishStep ==
    ASSUME StoreInv, NEW t \in Tasks, ~Idle(t), Finish(t), mem' \in Config, FileTypeOK',
           failed' \in BOOLEAN, UNCHANGED <<up, granted, overlapped>>,
           ~overlapped /\ ~failed' => InStep'
    PROVE  StoreInv'
<1> USE DEF StoreInv
<1>1. /\ job' = [job EXCEPT ![t] = IdleJob]
      /\ lock' = IF lock = t THEN NoTask ELSE lock
  BY DEF Finish, Released
<1>2. IdleJob \in Job /\ IdleJob.pc = "idle" /\ IdleJob.op = "none"
  BY DEF IdleJob, Job
<1>3. /\ job' \in [Tasks -> Job] /\ job'[t] = IdleJob
      /\ \A s \in Tasks \ {t} : job'[s] = job[s]
  BY <1>1, <1>2 DEF StoreTypeOK
<1>4. StoreTypeOK'
  BY <1>1, <1>3 DEF StoreTypeOK, FileTypeOK
<1>5. LockHeld'
  <2> SUFFICES ASSUME NEW s \in Tasks
               PROVE  (/\ lock = s <=> ~Idle(s) /\ job[s].op \notin Unlocked
                       /\ Idle(s) <=> job[s].op = "none")'
    BY DEF LockHeld
  <2>1. CASE s = t
    BY <1>1, <1>2, <1>3, <2>1, StoreAssumption DEF Idle, Unlocked
  <2>2. CASE s # t
    <3>1. lock' = s <=> lock = s
      BY <1>1, <2>2, StoreAssumption
    <3>2. job'[s] = job[s]
      BY <1>3, <2>2
    <3> QED BY <3>1, <3>2 DEF LockHeld, Idle
  <2> QED BY <2>1, <2>2
<1>6. DownIsQuiet'
  BY <1>2, <1>3 DEF DownIsQuiet, Quiet, Idle
<1>7. ~overlapped => Quiet'
  BY <1>2, <1>3 DEF Alone, Quiet, Idle
<1>8. Alone' /\ InFlight'
  BY <1>7 DEF Alone, InFlight, Quiet, Idle
<1> QED BY <1>4, <1>5, <1>6, <1>8 DEF SerialSavesMatch

\* The file is written in full.
LEMMA WriteStep == ASSUME StoreInv, NEW t \in Tasks, Write(t) PROVE StoreInv'
<1> USE DEF StoreInv
<1>1. /\ job[t].pc = "write"
      /\ UNCHANGED <<up, mem, granted, failed, overlapped>>
  BY DEF Write
<1>2. PICK c \in job[t].snap : file' \in Written(file, c)
  BY DEF Write
<1>3. c \in Config
  BY <1>2 DEF StoreTypeOK, Job
<1>4. FileTypeOK'
  BY <1>2, <1>3 DEF FileTypeOK, Written, Whole, Garbage
<1>5. ~overlapped => file' = Whole(c) /\ Same(granted, c, Saved(mem))
  BY <1>1, <1>2 DEF InFlight, Written
<1>6. ~overlapped => InStep'
  BY <1>1, <1>5 DEF InStep, AsSaved, Whole
<1>7. ~Idle(t)
  BY <1>1 DEF Idle
<1>8. CASE job[t].op # "policy"
  <2>1. Finish(t)
    BY <1>8 DEF Write
  <2> QED BY <1>1, <1>4, <1>6, <1>7, <2>1, FinishStep DEF StoreTypeOK
<1>9. CASE job[t].op = "policy"
  <2>1. job' = [job EXCEPT ![t].pc = "reread"] /\ UNCHANGED lock
    BY <1>9 DEF Write
  <2>2. /\ job' \in [Tasks -> Job]
        /\ job'[t].pc = "reread" /\ job'[t].op = job[t].op
        /\ \A s \in Tasks \ {t} : job'[s] = job[s]
    BY <2>1 DEF StoreTypeOK, Job
  <2>3. StoreTypeOK'
    BY <1>1, <1>4, <2>1, <2>2 DEF StoreTypeOK, FileTypeOK
  <2>4. LockHeld' /\ DownIsQuiet' /\ Alone' /\ ~Quiet'
    BY <1>1, <2>1, <2>2 DEF LockHeld, DownIsQuiet, Alone, Quiet, Idle
  <2>5. InFlight'
    BY <1>1, <1>3, <1>5, <1>7, <2>2 DEF InFlight, Alone, Idle
  <2> QED BY <2>3, <2>4, <2>5 DEF SerialSavesMatch
<1> QED BY <1>8, <1>9

\* The write fails: a creation that did not get as far as truncating the
\* file is undone, everything else is noted as a failure.
LEMMA WriteFailsStep == ASSUME StoreInv, NEW t \in Tasks, WriteFails(t) PROVE StoreInv'
<1> USE DEF StoreInv
<1>1. /\ mem' = RolledBack(t)
      /\ Finish(t)
      /\ failed' = (failed \/ job[t].op # "create" \/ job[t].pc = "write")
      /\ UNCHANGED <<up, granted, overlapped>>
      /\ job[t].pc \in {"open", "write"}
      /\ file' \in {file, Garbage}
      /\ job[t].pc = "open" => file' = file
  BY DEF WriteFails
<1>2. mem' \in Config
  <2>1. DefaultAgent \in AgentConfig
    BY StoreAssumption DEF DefaultAgent, AgentConfig, ExecSections
  <2>2. PICK n \in Names : TRUE
    BY StoreAssumption
  <2>3. mem \in Config
    BY DEF StoreTypeOK
  <2>4. \A N \in SUBSET Names : WithoutAgents(mem, N) \in Config
    BY <2>1, <2>2, <2>3, AgentOps
  <2> QED BY <1>1, <2>4 DEF RolledBack, StoreTypeOK, Job
<1>3. FileTypeOK'
  BY <1>1 DEF StoreTypeOK, FileTypeOK
<1>4. ~overlapped /\ ~failed' => InStep'
  BY <1>1 DEF InFlight, InStep, AsSaved
<1>5. ~Idle(t) /\ failed' \in BOOLEAN
  BY <1>1 DEF Idle, StoreTypeOK
<1> QED BY <1>1, <1>2, <1>3, <1>4, <1>5, FinishStep

\* update_policy reads the file back, or fails to.
LEMMA RereadStep == ASSUME StoreInv, NEW t \in Tasks, Reread(t) PROVE StoreInv'
<1> USE DEF StoreInv
<1>1. /\ job[t].pc = "reread" /\ Finish(t)
      /\ mem' = mem \/ mem' \in file.conf
      /\ UNCHANGED <<up, file, granted, failed, overlapped>>
  BY DEF Reread
<1>2. mem' \in Config
  BY <1>1, FileHolds DEF StoreTypeOK
<1>3. ASSUME ~overlapped PROVE InStep'
  <2>1. PICK c \in Config : file = Whole(c) /\ Same(granted, c, Saved(mem))
    BY <1>1, <1>3 DEF InFlight
  <2>2. file'.conf = {c} /\ (mem' = mem \/ mem' = c)
    BY <1>1, <2>1 DEF Whole
  <2>3. Same(granted', c, c)
    BY SameSelf
  <2> QED BY <1>1, <2>1, <2>2, <2>3 DEF InStep, AsSaved
<1>4. ~Idle(t)
  BY <1>1 DEF Idle
<1>5. FileTypeOK'
  BY <1>1 DEF StoreTypeOK, FileTypeOK
<1> QED BY <1>1, <1>2, <1>3, <1>4, <1>5, FinishStep DEF StoreTypeOK

\* A reload installs what it read.
LEMMA InstallStep == ASSUME StoreInv, NEW t \in Tasks, InstallReload(t) PROVE StoreInv'
<1> USE DEF StoreInv
<1>1. /\ job[t].pc = "install" /\ Finish(t) /\ mem' \in job[t].snap
      /\ UNCHANGED <<up, file, granted, failed, overlapped>>
  BY DEF InstallReload
<1>2. mem' \in Config
  BY <1>1 DEF StoreTypeOK, Job
<1>3. ~overlapped => InStep'
  BY <1>1, SameSelf DEF InFlight, InStep, AsSaved
<1>4. ~Idle(t)
  BY <1>1 DEF Idle
<1>5. FileTypeOK'
  BY <1>1 DEF StoreTypeOK, FileTypeOK
<1> QED BY <1>1, <1>2, <1>3, <1>4, <1>5, FinishStep DEF StoreTypeOK

\* A reload reads the file.
LEMMA StartReloadStep == ASSUME StoreInv, NEW t \in Tasks, StartReload(t) PROVE StoreInv'
<1> USE DEF StoreInv
<1> DEFINE new == [pc |-> "install", op |-> "reload", snap |-> file.conf, name |-> {}]
<1>1. /\ up /\ Idle(t) /\ job' = [job EXCEPT ![t] = new] /\ NoteOverlap("reload")
      /\ UNCHANGED <<up, mem, file, lock, granted, failed>>
  BY DEF StartReload
<1>2. new \in Job /\ new.pc = "install" /\ new.op = "reload" /\ new.snap = file.conf
  BY FileHolds DEF Job, OpNames
<1> HIDE DEF new
<1>3. /\ job' \in [Tasks -> Job] /\ job'[t] = new
      /\ \A s \in Tasks \ {t} : job'[s] = job[s]
  BY <1>1, <1>2 DEF StoreTypeOK
<1>4. StoreTypeOK'
  BY <1>1, <1>3 DEF StoreTypeOK, NoteOverlap
<1>5. LockHeld'
  BY <1>1, <1>2, <1>3 DEF LockHeld, Idle, Unlocked
<1>6. DownIsQuiet' /\ ~Quiet'
  BY <1>1, <1>2, <1>3 DEF DownIsQuiet, Quiet, Idle
<1>7. ~overlapped' => ~overlapped /\ Quiet
  BY <1>1 DEF NoteOverlap
<1>8. Alone'
  BY <1>3, <1>7 DEF Alone, Quiet, Idle
<1>9. InFlight'
  BY <1>1, <1>2, <1>3, <1>7 DEF InFlight, Quiet, Idle
<1> QED BY <1>4, <1>5, <1>6, <1>8, <1>9 DEF SerialSavesMatch

-----------------------------------------------------------------------------

LEMMA StoreInvInit == ASSUME StoreInit PROVE StoreInv
<1> USE DEF StoreInit
<1>1. IdleJob \in Job /\ IdleJob.pc = "idle" /\ IdleJob.op = "none"
  BY DEF IdleJob, Job
<1>2. StoreTypeOK
  BY <1>1 DEF StoreTypeOK, Whole
<1>3. Quiet /\ LockHeld /\ DownIsQuiet
  BY <1>1, StoreAssumption DEF Quiet, LockHeld, DownIsQuiet, Idle
<1>4. Alone /\ InFlight
  BY <1>1 DEF Alone, InFlight, Idle
<1>5. SerialSavesMatch
  BY SameSelf DEF SerialSavesMatch, InStep, AsSaved, Whole
<1> QED BY <1>2, <1>3, <1>4, <1>5 DEF StoreInv

LEMMA StoreInvStep == ASSUME StoreInv, [StoreNext]_storeVars PROVE StoreInv'
<1>a. \A pol \in Policies, x \in ExecSections :
         [policy |-> pol, exec |-> x, failClosed |-> FALSE] \in AgentConfig
  BY DEF AgentConfig
<1>c. DefaultAgent \in AgentConfig
  BY StoreAssumption DEF DefaultAgent, AgentConfig, ExecSections
<1>b. mem \in Config
  BY DEF StoreInv, StoreTypeOK
<1>1. ASSUME NEW t \in Tasks, NEW n \in Names, NEW pol \in Policies, NEW x \in ExecSections,
             CreateAgent(t, n, pol, x)
      PROVE  StoreInv'
  <2> DEFINE c == WithAgent(mem, n, [policy |-> pol, exec |-> x, failClosed |-> FALSE])
  <2>1. c \in Config /\ (n \notin DOMAIN mem.agents => WithoutAgents(c, {n}) = mem)
    BY <1>a, <1>b, AgentOps
  <2>2. n \notin DOMAIN mem.agents /\ Begin(t, "create", c, {n})
    BY <1>1 DEF CreateAgent
  <2> HIDE DEF c
  <2> QED BY <2>1, <2>2, BeginStep DEF OpNames, Unlocked
<1>2. ASSUME NEW t \in Tasks, NEW n \in Names, DeleteAgent(t, n) PROVE StoreInv'
  <2> DEFINE c == WithoutAgents(mem, {n})
  <2>1. c \in Config
    BY <1>b, <1>c, AgentOps
  <2>2. Begin(t, "delete", c, {n})
    BY <1>2 DEF DeleteAgent
  <2> HIDE DEF c
  <2> QED BY <2>1, <2>2, BeginStep DEF OpNames, Unlocked
<1>3. ASSUME NEW t \in Tasks, NEW n \in Names, Register(t, n) PROVE StoreInv'
  <2> DEFINE c == WithAgent(mem, n, DefaultAgent)
  <2>1. c \in Config
    BY <1>b, <1>c, AgentOps
  <2>2. Begin(t, "register", c, {n})
    BY <1>3 DEF Register
  <2> HIDE DEF c
  <2> QED BY <2>1, <2>2, BeginStep DEF OpNames, Unlocked
<1>4. ASSUME NEW t \in Tasks, NEW n \in Names, NEW pol \in Policies, NEW x \in ExecSections,
             UpdatePolicy(t, n, pol, x)
      PROVE  StoreInv'
  <2> DEFINE a == [mem.agents[n] EXCEPT !.policy = pol, !.exec = IF x = {} THEN @ ELSE x]
             c == WithAgent(mem, n, a)
  <2>1. n \in DOMAIN mem.agents /\ Begin(t, "policy", c, {n})
    BY <1>4 DEF UpdatePolicy
  <2>2. a \in AgentConfig
    <3>1. mem.agents[n] \in AgentConfig
      BY <1>b, <2>1, ConfigParts
    <3> QED BY <3>1 DEF AgentConfig
  <2>3. c \in Config
    <3> HIDE DEF a
    <3> QED BY <1>b, <2>2, AgentOps
  <2> HIDE DEF c
  <2> QED BY <2>1, <2>3, BeginStep DEF OpNames, Unlocked
<1>5. ASSUME Crash PROVE StoreInv'
  <2>1. /\ ~up' /\ lock' = NoTask /\ job' = [t \in Tasks |-> IdleJob]
        /\ UNCHANGED <<mem, file, granted, failed, overlapped>>
    BY <1>5 DEF Crash
  <2>2. IdleJob \in Job /\ IdleJob.pc = "idle" /\ IdleJob.op = "none"
    BY DEF IdleJob, Job
  <2>3. StoreTypeOK'
    BY <1>5, <2>1, <2>2 DEF StoreInv, StoreTypeOK, Crash
  <2>4. LockHeld' /\ DownIsQuiet' /\ Alone' /\ InFlight'
    BY <2>1, <2>2, StoreAssumption DEF LockHeld, DownIsQuiet, Alone, InFlight, Quiet, Idle
  <2> QED BY <2>1, <2>3, <2>4 DEF StoreInv, SerialSavesMatch
<1>6. ASSUME Start PROVE StoreInv'
  <2>1. /\ ~up /\ up' /\ mem' \in file.conf /\ granted' = {}
        /\ failed' = FALSE /\ overlapped' = FALSE
        /\ UNCHANGED <<file, lock, job>>
    BY <1>6 DEF Start
  <2>2. StoreTypeOK'
    BY <1>6, <2>1, FileHolds DEF StoreInv, StoreTypeOK, Start
  <2>3. Quiet /\ LockHeld
    BY <2>1 DEF StoreInv, DownIsQuiet
  <2>4. LockHeld' /\ DownIsQuiet' /\ Alone' /\ InFlight'
    BY <2>1, <2>3 DEF LockHeld, DownIsQuiet, Alone, InFlight, Quiet, Idle
  <2>5. InStep'
    BY <2>1, SameSelf DEF InStep, AsSaved
  <2> QED BY <2>2, <2>4, <2>5 DEF StoreInv, SerialSavesMatch
<1>7. ASSUME Repair PROVE StoreInv'
  <2>1. /\ ~up /\ UNCHANGED <<up, mem, lock, job, granted, failed, overlapped>>
        /\ \E c \in Config : file' = Whole(c)
    BY <1>7 DEF Repair
  <2>2. StoreTypeOK'
    <3>1. PICK c \in Config : file' = Whole(c)
      BY <2>1
    <3>2. c \in file'.conf
      BY <3>1 DEF Whole
    <3> QED BY <2>1, <3>1, <3>2 DEF StoreInv, StoreTypeOK
  <2>3. Quiet
    BY <2>1 DEF StoreInv, DownIsQuiet
  <2>4. LockHeld' /\ DownIsQuiet' /\ Alone' /\ InFlight'
    BY <2>1, <2>3 DEF StoreInv, LockHeld, DownIsQuiet, Alone, InFlight, Quiet, Idle
  <2> QED BY <2>1, <2>2, <2>4 DEF StoreInv, SerialSavesMatch
<1>8. ASSUME UNCHANGED storeVars PROVE StoreInv'
  BY <1>8 DEF storeVars, StoreInv, StoreTypeOK, LockHeld, DownIsQuiet, Alone, InFlight, Quiet,
              Idle, SerialSavesMatch, InStep, AsSaved, RolledBack
<1> QED
  BY <1>1, <1>2, <1>3, <1>4, <1>5, <1>6, <1>7, <1>8, AlertsStep, GrantStep, ExpireStep,
     OpenStep, WriteStep,
     WriteFailsStep, RereadStep, StartReloadStep, InstallStep
     DEF StoreNext

LEMMA StoreInvariant == StoreSpec => []StoreInv
BY StoreInvInit, StoreInvStep, PTL DEF StoreSpec

\* THE TYPES of the configuration, the file and the handlers.
THEOREM StoreTypeCorrect == StoreSpec => []StoreTypeOK
<1>1. StoreInv => StoreTypeOK
  BY DEF StoreInv
<1> QED BY <1>1, StoreInvariant, PTL

\* SerialSavesMatch, for any number of handlers, agents and exec grants,
\* across crashes and failed writes: saves that the mutex orders keep file
\* and memory in step.
THEOREM SavesStayInStep == StoreSpec => []SerialSavesMatch
<1>1. StoreInv => SerialSavesMatch
  BY DEF StoreInv
<1> QED BY <1>1, StoreInvariant, PTL
=============================================================================
