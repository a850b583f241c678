----------------------------- MODULE TempGrants -----------------------------
(***************************************************************************)
(* Temporary access grants of the guardian daemon.                         *)
(*                                                                         *)
(* A grant lets one agent reach one path for a number of seconds.  A file  *)
(* grant is an entry of the kernel's ALLOW_EXACT or ALLOW_PREFIXES map; an *)
(* exec grant is a rule of the agent's exec policy in the configuration    *)
(* the daemon holds in memory, which other handlers write to config.toml   *)
(* and read back.  The handlers run under the one mutex of IpcState, so    *)
(* each of them is one action, but for two: a reload reads the file before *)
(* it takes the mutex, and an update of the alerts writes the file after   *)
(* it has released it.                                                     *)
(*                                                                         *)
(* Time is relative: a grant carries the ticks it has left, and            *)
(* `now >= expires_at` of the code is ttl = 0 here.                        *)
(***************************************************************************)
EXTENDS Naturals, FiniteSets

CONSTANTS
    Agents,            \* names of agents
    FilePaths,         \* paths asked for as file access
    ExecPaths,         \* commands asked for as exec access
    PrefixPaths,       \* the file paths that end in "/**"
    KeyBytes,          \* [FilePaths -> bytes]: the 256 bytes kept of a path
    StaticKeys,        \* allow entries loaded from the configuration at start
    AllowCapacity,     \* max_entries of each of the two allow maps
    OperatorPolicies,  \* exec policies an operator writes for an agent
    DefaultExecPolicy, \* exec policy of an auto-created agent
    Durations,         \* grant durations, in ticks
    MaxGrants,         \* bound on outstanding grants (model only)
    MaxSnapshots       \* bound on the copies kept outside the mutex (model only)

VARIABLES
    enforceMode,  \* policy_maps is Some only when the daemon enforces
    registered,   \* IpcState.agents: agents running in a cgroup
    conf,         \* exec policies of IpcState.config.agents, by name
    disk,         \* the same section of config.toml
    grants,       \* IpcState.grants
    allowMap,     \* keys present in ALLOW_EXACT and ALLOW_PREFIXES
    reading,      \* what reloads have read and not yet installed
    writing,      \* what updates of the alerts have cloned and not yet written
    savedRules    \* the agents and commands that config.toml has ever allowed (history)

fileVars == <<disk, reading, writing, savedRules>>

grantVars == <<enforceMode, registered, conf, grants, allowMap, fileVars>>

Paths == FilePaths \cup ExecPaths

NoPolicy == [present |-> FALSE, default |-> "allow", allow |-> {}]

Policies == [present : BOOLEAN, default : {"allow", "deny"}, allow : SUBSET ExecPaths]

\* The key a file path is stored under, and the map it goes to: a "/**"
\* path is a prefix in the LPM trie, any other an exact key; both are cut
\* to a fixed number of bytes, so two paths may share a key.
KeyOf(p) == <<IF p \in PrefixPaths THEN "prefix" ELSE "exact", KeyBytes[p]>>

AllKeys == {KeyOf(p) : p \in FilePaths} \cup StaticKeys

Configs == UNION {[D -> Policies] : D \in SUBSET Agents}

ASSUME DurationsAssumption ==
    Durations # {} /\ IsFiniteSet(Durations) /\ Durations \subseteq Nat

ASSUME PathsAssumption ==
    /\ FilePaths \cap ExecPaths = {}
    /\ PrefixPaths \subseteq FilePaths

ASSUME PoliciesAssumption ==
    OperatorPolicies \subseteq Policies /\ DefaultExecPolicy \in Policies

\* The commands a configuration allows, each with its agent
Rules(c) == UNION {{a} \X c[a].allow : a \in DOMAIN c}

Grant == [agent : Agents, path : Paths, ttl : Nat]

GrantTypeOK ==
    /\ enforceMode \in BOOLEAN
    /\ registered \subseteq Agents
    /\ conf \in Configs
    /\ disk \in Configs
    /\ grants \subseteq Grant
    /\ allowMap \subseteq AllKeys
    /\ reading \subseteq Configs
    /\ writing \subseteq Configs
    /\ savedRules \subseteq Agents \X ExecPaths

\* The daemon starts with the policy maps it loaded from the configuration,
\* and only when it enforces.
LoadedKeys(enforcing) == IF enforcing THEN StaticKeys ELSE {}

GrantInit ==
    /\ enforceMode \in BOOLEAN
    /\ registered = {}
    /\ \E D \in SUBSET Agents \ {{}} : disk \in [D -> OperatorPolicies]
    /\ conf = disk
    /\ grants = {}
    /\ allowMap = LoadedKeys(enforceMode)
    /\ reading = {}
    /\ writing = {}
    /\ savedRules = Rules(disk)

-----------------------------------------------------------------------------

\* The agent is known: running in a cgroup, or named in the configuration.
AgentExists(a) == a \in registered \/ a \in DOMAIN conf

\* Insertion of a new key fails when its map is full; the handlers log the
\* error and go on.
MapFull(k) == Cardinality({x \in allowMap : x[1] = k[1]}) >= AllowCapacity

InsertKey(k) ==
    IF enforceMode /\ (k \in allowMap \/ ~MapFull(k))
    THEN allowMap \cup {k}
    ELSE allowMap

\* exec_policy.get_or_insert({default: "deny"}), then push if absent
AddExecRule(a, p) ==
    [conf EXCEPT ![a].default = IF conf[a].present THEN @ ELSE "deny",
                 ![a].present = TRUE,
                 ![a].allow = @ \cup {p}]

\* The part shared by the three places that create a grant: the key or the
\* rule is added, and the grant is recorded whether or not that succeeded.
InstallGrant(a, p, d) ==
    /\ Cardinality(grants) < MaxGrants
    /\ grants' = grants \cup {[agent |-> a, path |-> p, ttl |-> d]}
    /\ IF p \in ExecPaths
       THEN /\ conf' = IF a \in DOMAIN conf THEN AddExecRule(a, p) ELSE conf
            /\ UNCHANGED allowMap
       ELSE /\ allowMap' = InsertKey(KeyOf(p))
            /\ UNCHANGED conf

\* `guardian-ctl grant` and the dashboard's Grant button
GrantAccess(a, p, d) ==
    /\ AgentExists(a)
    /\ InstallGrant(a, p, d)
    /\ UNCHANGED <<enforceMode, registered, fileVars>>

\* Mutant: `now > expires_at` in a clock that stops at the deadline, so no
\* grant is ever due.
NeverDue == {g \in grants : g.ttl < 0}

Expired == {g \in grants : g.ttl = 0}

\* Mutant: the sweep drops a grant but only removes exact keys.
ExpiredKeysExactOnly ==
    {KeyOf(g.path) : g \in {h \in Expired : h.path \in FilePaths \ PrefixPaths}}

ExpiredKeys == {KeyOf(g.path) : g \in {h \in Expired : h.path \in FilePaths}}

\* Mutant: the sweep looks for the rule only in agents that are running
ExpiredRulesRunning(a) ==
    {g.path : g \in {h \in Expired : h.agent = a /\ a \in registered /\ h.path \in ExecPaths}}

ExpiredRules(a) == {g.path : g \in {h \in Expired : h.agent = a /\ h.path \in ExecPaths}}

\* The second half of cgroup_cleanup_task: every expired grant is dropped
\* and its key or rule removed, whoever else relies on the same key or rule.
ExpireGrants ==
    /\ Expired # {}
    /\ grants' = grants \ Expired
    /\ allowMap' = IF enforceMode THEN allowMap \ ExpiredKeys ELSE allowMap
    /\ conf' = [a \in DOMAIN conf |->
                   [conf[a] EXCEPT !.allow = @ \ ExpiredRules(a)]]
    /\ UNCHANGED <<enforceMode, registered, fileVars>>

-----------------------------------------------------------------------------
(* The handlers that read and write config.toml; how the steps of one      *)
(* write interleave with another is the subject of ConfigStore.            *)

\* write_config_toml: the whole configuration is written, temporary exec
\* rules included, or the write fails and the file keeps its old content.
WriteConfig(c) ==
    /\ disk' \in {c, disk}
    /\ savedRules' = savedRules \cup Rules(disk')

With(c, a, pol) == [b \in DOMAIN c \cup {a} |-> IF b = a THEN pol ELSE c[b]]

Without(c, a) == [b \in DOMAIN c \ {a} |-> c[b]]

\* load_config refuses a file without agents
Loadable(c) == DOMAIN c # {}

\* The launcher registers an agent; an unknown one gets a default
\* configuration, which is persisted at once, even if WATCHED_CGROUPS then
\* turns out to be full and the registration is refused.
Register(a) ==
    /\ registered' \in {registered \cup {a}, registered}
    /\ IF a \in DOMAIN conf
       THEN UNCHANGED <<conf, disk, savedRules>>
       ELSE /\ conf' = With(conf, a, DefaultExecPolicy)
            /\ WriteConfig(conf')
    /\ UNCHANGED <<enforceMode, grants, allowMap, reading, writing>>

\* stop_agent, and the cleanup of an agent whose cgroup is empty
Unregister(a) ==
    /\ a \in registered
    /\ registered' = registered \ {a}
    /\ UNCHANGED <<enforceMode, conf, grants, allowMap, fileVars>>

\* create_agent: a failed write is undone in memory, and so changes nothing
CreateAgent(a, pol) ==
    /\ a \notin DOMAIN conf
    /\ conf' = With(conf, a, pol)
    /\ WriteConfig(conf')
    /\ disk' = conf'
    /\ UNCHANGED <<enforceMode, registered, grants, allowMap, reading, writing>>

\* delete_agent: the agent is cleaned up and removed, whether or not the
\* write succeeds; its grants are left to expire
DeleteAgent(a) ==
    /\ a \in DOMAIN conf
    /\ registered' = registered \ {a}
    /\ conf' = Without(conf, a)
    /\ WriteConfig(conf')
    /\ UNCHANGED <<enforceMode, grants, allowMap, reading, writing>>

\* A copy is used up, unless another handler keeps the same one.
UsedUp(copies, c) == {copies, copies \ {c}}

\* update_policy: the exec section is replaced, or created, only if the form
\* has one.  Reading the file back changes nothing here, unless an update of
\* the alerts has written its copy over the file in between.
UpdatePolicy(a, pol) ==
    /\ a \in DOMAIN conf
    /\ \/ /\ conf' \in {[conf EXCEPT ![a] = [pol EXCEPT !.present = TRUE]], conf}
          /\ WriteConfig(conf')
          /\ UNCHANGED writing
       \/ \E c \in writing : /\ Loadable(c)
                             /\ conf' = c
                             /\ WriteConfig(c) /\ disk' = c
                             /\ writing' \in UsedUp(writing, c)
    /\ UNCHANGED <<enforceMode, registered, grants, allowMap, reading>>

\* Another copy may be kept outside the mutex.
RoomForSnapshot == Cardinality(reading) + Cardinality(writing) < MaxSnapshots

\* update_alerts changes nothing here; it clones the configuration,
\* releases the mutex and then writes the clone.
CloneForAlerts ==
    /\ RoomForSnapshot
    /\ writing' = writing \cup {conf}
    /\ UNCHANGED <<enforceMode, registered, conf, grants, allowMap, disk, reading, savedRules>>

WriteAlerts(c) ==
    /\ c \in writing
    /\ writing' \in UsedUp(writing, c)
    /\ WriteConfig(c)
    /\ UNCHANGED <<enforceMode, registered, conf, grants, allowMap, reading>>

\* SIGHUP and the dashboard's reload button: load_config runs before the
\* mutex is taken, and what it read is installed whatever happened since.
ReadConfig ==
    /\ Loadable(disk)
    /\ RoomForSnapshot
    /\ reading' = reading \cup {disk}
    /\ UNCHANGED <<enforceMode, registered, conf, grants, allowMap, disk, writing, savedRules>>

ReloadConfig(c) ==
    /\ c \in reading
    /\ reading' \in UsedUp(reading, c)
    /\ conf' = c
    /\ UNCHANGED <<enforceMode, registered, grants, allowMap, disk, writing, savedRules>>

\* The daemon is stopped and started: only the file survives.
RestartGrants ==
    /\ Loadable(disk)
    /\ enforceMode' \in BOOLEAN
    /\ registered' = {}
    /\ conf' = disk
    /\ grants' = {}
    /\ allowMap' = LoadedKeys(enforceMode')
    /\ reading' = {}
    /\ writing' = {}
    /\ UNCHANGED <<disk, savedRules>>

\* Mutant: the time left is not kept from going below zero
AgeGrantsBelowZero == grants' = {[g EXCEPT !.ttl = @ - 1] : g \in grants}

\* A tick of the clock
AgeGrants == grants' = {[g EXCEPT !.ttl = IF @ = 0 THEN 0 ELSE @ - 1] : g \in grants}

TickGrants == AgeGrants /\ UNCHANGED <<enforceMode, registered, conf, allowMap, fileVars>>

\* Everything but the clock and a restart
GrantStep ==
    \/ \E a \in Agents, p \in Paths, d \in Durations : GrantAccess(a, p, d)
    \/ ExpireGrants
    \/ \E a \in Agents : Register(a)
    \/ \E a \in Agents : Unregister(a)
    \/ \E a \in Agents : DeleteAgent(a)
    \/ \E a \in Agents, pol \in OperatorPolicies : CreateAgent(a, pol)
    \/ \E a \in Agents, pol \in OperatorPolicies : UpdatePolicy(a, pol)
    \/ CloneForAlerts
    \/ \E c \in writing : WriteAlerts(c)
    \/ ReadConfig
    \/ \E c \in reading : ReloadConfig(c)

GrantNext ==
    \/ GrantStep
    \/ RestartGrants
    \/ TickGrants

\* The cleanup task wakes every five seconds and the clock does not stop.
GrantSpec ==
    /\ GrantInit
    /\ [][GrantNext]_grantVars
    /\ WF_grantVars(ExpireGrants)
    /\ WF_grantVars(TickGrants)

-----------------------------------------------------------------------------

\* No file access outlives its grant: every key in the kernel's allow maps
\* comes from the configuration or from a grant not yet swept by
\* cgroup_cleanup_task, across overlapping grants, full maps, agents that
\* are deleted and daemon restarts.
NoLingeringFileAccess ==
    \A k \in allowMap :
        k \in StaticKeys \/ \E g \in grants : g.path \in FilePaths /\ KeyOf(g.path) = k

\* Once the clock has passed expires_at, the cleanup task takes the access
\* away even if the daemon is busy with other handlers.
ExpiredGrantRevoked ==
    \A p \in FilePaths : KeyOf(p) \notin StaticKeys =>
        ((\E g \in grants : g.path = p /\ g.ttl = 0) ~> KeyOf(p) \notin allowMap)

\* The rules that do not come from a grant
OperatorRules == UNION {pol.allow : pol \in OperatorPolicies \cup {DefaultExecPolicy}}

\* A temporary exec rule outlives its grant in memory only by way of
\* config.toml: a rule that neither an operator nor a grant in force accounts
\* for is one that was once written to the file for that agent.  Neither the
\* sweep nor a reload or a save that works with an old copy leaves behind a
\* rule that was only ever in memory, whichever agents and grants share a
\* command.
StrayRulesWereSaved ==
    \A a \in DOMAIN conf : \A p \in conf[a].allow :
        \/ p \in OperatorRules
        \/ \E g \in grants : g.agent = a /\ g.path = p
        \/ <<a, p>> \in savedRules

-----------------------------------------------------------------------------
(* What the documentation says of it.                                      *)

\* What USAGE.md promises: a file grant lasts for the duration asked for.
GrantHonoured ==
    enforceMode =>
        \A g \in grants : g.path \in FilePaths /\ g.ttl > 0 => KeyOf(g.path) \in allowMap

\* What USAGE.md promises: after expiry the command leaves the allow list,
\* unless an operator wrote the rule.
ExecRuleRemoved ==
    \A a \in DOMAIN conf : \A p \in conf[a].allow :
        p \in OperatorRules \/ \E g \in grants : g.agent = a /\ g.path = p

\* What USAGE.md promises: an exec grant adds a command to what the agent
\* may run, so neither the grant nor its expiry makes the default stricter.
GrantOnlyAdds ==
    [][\A a \in DOMAIN conf \cap DOMAIN conf' :
           grants' # grants /\ conf[a].default = "allow" => conf'[a].default = "allow"]_grantVars
=============================================================================
