------------------------- MODULE PermissionsProofs -------------------------
(***************************************************************************)
(* Temporary grants and the permission workflow that gives them, for any   *)
(* number of requests, agents and resources.                               *)
(*                                                                         *)
(* Part 1 is about TempGrants alone: no file access outlives its grant.    *)
(* That is not inductive: the sweep leaves the allow maps alone when the   *)
(* daemon only monitors, so one has to know that they are empty then.      *)
(*                                                                         *)
(* Part 2 is about Permissions: no request is orphaned between the two     *)
(* critical sections of its handler, the number of pending requests of an  *)
(* agent is bounded, a request is settled at most once, and the grants     *)
(* keep what part 1 says.                                                  *)
(*                                                                         *)
(* Part 3 adds what the workflow counts, records and tells: the history is *)
(* the end of the audit trail, the agent is told what the trail says, and  *)
(* the approvals of a day stay within their total.  For the last one, an   *)
(* account has to be in budget at every age, since time moves the window   *)
(* over all of them.                                                       *)
(*                                                                         *)
(* Part 4: the workflow implements the ledger of requests.                 *)
(***************************************************************************)
EXTENDS Permissions, LimiterProofs, FiniteSetTheorems, SequenceTheorems

-----------------------------------------------------------------------------
(* Part 1: TempGrants.                                                     *)

\* A daemon that only monitors loads no policy maps and inserts no key.
MonitorsOnly == ~enforceMode => allowMap = {}

\* The inductive invariant
GrantInv == GrantTypeOK /\ MonitorsOnly /\ NoLingeringFileAccess

-----------------------------------------------------------------------------

\* A map of policies by agent is a configuration.
LEMMA ConfigIntro ==
    ASSUME NEW D \in SUBSET Agents, NEW c \in [D -> Policies]
    PROVE  c \in Configs /\ DOMAIN c = D
BY DEF Configs

\* A configuration maps the agents it names to policies.
LEMMA ConfigElim ==
    ASSUME NEW c \in Configs
    PROVE  DOMAIN c \in SUBSET Agents /\ c \in [DOMAIN c -> Policies]
BY DEF Configs

\* Replacing, adding and removing the policy of an agent give configurations.
LEMMA ConfigOps ==
    ASSUME NEW c \in Configs, NEW a \in Agents, NEW pol \in Policies
    PROVE  /\ With(c, a, pol) \in Configs
           /\ Without(c, a) \in Configs
           /\ [c EXCEPT ![a] = pol] \in Configs
<1>1. DOMAIN c \in SUBSET Agents /\ c \in [DOMAIN c -> Policies]
  BY ConfigElim
<1>2. With(c, a, pol) \in [DOMAIN c \cup {a} -> Policies]
  BY <1>1 DEF With
<1>3. Without(c, a) \in [DOMAIN c \ {a} -> Policies]
  BY <1>1 DEF Without
<1>4. [c EXCEPT ![a] = pol] \in [DOMAIN c -> Policies]
  BY <1>1
<1> QED BY <1>1, <1>2, <1>3, <1>4, ConfigIntro

\* What a configuration allows, by agent and command.
LEMMA RulesType ==
    ASSUME NEW c \in Configs
    PROVE  Rules(c) \subseteq Agents \X ExecPaths
<1>1. DOMAIN c \in SUBSET Agents /\ \A a \in DOMAIN c : c[a].allow \subseteq ExecPaths
  BY ConfigElim DEF Policies
<1> QED BY <1>1 DEF Rules

\* Each rule of a configuration is in the set of its rules.
LEMMA RulesHold ==
    ASSUME NEW c, NEW a \in DOMAIN c, NEW p \in c[a].allow
    PROVE  <<a, p>> \in Rules(c)
BY DEF Rules

\* Installing a grant gives a configuration, adds at most the key of the
\* granted path, and none when the daemon only monitors.
LEMMA InstallEffect ==
    ASSUME GrantTypeOK, NEW a \in Agents, NEW p \in Paths, NEW d \in Durations,
           InstallGrant(a, p, d)
    PROVE  /\ conf' \in Configs
           /\ grants' = grants \cup {[agent |-> a, path |-> p, ttl |-> d]}
           /\ grants' \subseteq Grant
           /\ \/ allowMap' = allowMap
              \/ p \in FilePaths /\ enforceMode /\ allowMap' = allowMap \cup {KeyOf(p)}
<1>1. conf' \in Configs
  <2>1. CASE conf' = conf
    BY <2>1 DEF GrantTypeOK
  <2>2. CASE a \in DOMAIN conf /\ p \in ExecPaths /\ conf' = AddExecRule(a, p)
    <3>1. conf \in [DOMAIN conf -> Policies] /\ DOMAIN conf \in SUBSET Agents
      BY ConfigElim DEF GrantTypeOK
    <3>2. conf[a] \in Policies
      BY <2>2, <3>1
    <3>3. AddExecRule(a, p) \in [DOMAIN conf -> Policies]
      BY <2>2, <3>1, <3>2 DEF AddExecRule, Policies
    <3> QED BY <2>2, <3>1, <3>3, ConfigIntro
  <2> QED BY <2>1, <2>2 DEF InstallGrant
<1>2. [agent |-> a, path |-> p, ttl |-> d] \in Grant
  BY DurationsAssumption DEF Grant
<1>3. \/ allowMap' = allowMap
      \/ p \in FilePaths /\ enforceMode /\ allowMap' = allowMap \cup {KeyOf(p)}
  BY DEF InstallGrant, InsertKey, Paths
<1> QED BY <1>1, <1>2, <1>3 DEF InstallGrant, GrantTypeOK

\* A sweep removes exactly the grants that are due; rules are only removed
\* from the configuration, keys only from the maps.
LEMMA ExpireEffect ==
    ASSUME GrantTypeOK, ExpireGrants
    PROVE  /\ conf' \in Configs
           /\ grants' = grants \ Expired
           /\ grants' \subseteq Grant
           /\ allowMap' \subseteq allowMap
           /\ enforceMode => allowMap' = allowMap \ ExpiredKeys
<1>1. conf \in [DOMAIN conf -> Policies] /\ DOMAIN conf \in SUBSET Agents
  BY ConfigElim DEF GrantTypeOK
<1>2. \A a \in DOMAIN conf : [conf[a] EXCEPT !.allow = @ \ ExpiredRules(a)] \in Policies
  BY <1>1 DEF Policies
<1>3. conf' \in [DOMAIN conf -> Policies]
  BY <1>2 DEF ExpireGrants
<1> QED BY <1>1, <1>3, ConfigIntro DEF ExpireGrants, GrantTypeOK

\* Ageing keeps every grant, with the same agent and path.
LEMMA AgeEffect ==
    ASSUME GrantTypeOK, AgeGrants
    PROVE  /\ grants' \subseteq Grant
           /\ \A g \in grants : \E h \in grants' : h.agent = g.agent /\ h.path = g.path
<1>1. ASSUME NEW g \in grants
      PROVE  /\ [g EXCEPT !.ttl = IF @ = 0 THEN 0 ELSE @ - 1] \in Grant
             /\ [g EXCEPT !.ttl = IF @ = 0 THEN 0 ELSE @ - 1].path = g.path
             /\ [g EXCEPT !.ttl = IF @ = 0 THEN 0 ELSE @ - 1].agent = g.agent
  BY DEF GrantTypeOK, Grant
<1>2. grants' = {[g EXCEPT !.ttl = IF @ = 0 THEN 0 ELSE @ - 1] : g \in grants}
  BY DEF AgeGrants
<1>3. grants' \subseteq Grant
  BY <1>1, <1>2
<1>4. \A g \in grants : \E h \in grants' : h.agent = g.agent /\ h.path = g.path
  BY <1>1, <1>2
<1> QED BY <1>3, <1>4

\* Installing a grant, by an operator or by an approval, keeps the invariant.
LEMMA InstallKeepsInv ==
    ASSUME GrantInv, NEW a \in Agents, NEW p \in Paths, NEW d \in Durations,
           InstallGrant(a, p, d), UNCHANGED <<enforceMode, registered, fileVars>>
    PROVE  GrantInv'
<1> DEFINE new == [agent |-> a, path |-> p, ttl |-> d]
<1> USE DEF GrantInv
<1>1. /\ conf' \in Configs
      /\ grants' = grants \cup {new}
      /\ grants' \subseteq Grant
      /\ \/ allowMap' = allowMap
         \/ p \in FilePaths /\ enforceMode /\ allowMap' = allowMap \cup {KeyOf(p)}
  BY InstallEffect
<1>2. GrantTypeOK'
  BY <1>1 DEF GrantTypeOK, AllKeys, fileVars
<1>3. MonitorsOnly'
  BY <1>1 DEF MonitorsOnly
<1>4. NoLingeringFileAccess'
  <2>1. new \in grants' /\ new.path = p
    BY <1>1
  <2> QED BY <1>1, <2>1 DEF NoLingeringFileAccess
<1> QED BY <1>2, <1>3, <1>4

-----------------------------------------------------------------------------

\* The inductive step, action by action.
LEMMA GrantInvStep == GrantInv /\ [GrantNext]_grantVars => GrantInv'
<1> SUFFICES ASSUME GrantInv, [GrantNext]_grantVars PROVE GrantInv'
  OBVIOUS
<1> USE DEF GrantInv
<1>0. GrantTypeOK /\ conf \in Configs /\ disk \in Configs
  BY DEF GrantTypeOK
<1>p. \A pol \in OperatorPolicies \cup {DefaultExecPolicy} :
         pol \in Policies /\ [pol EXCEPT !.present = TRUE] \in Policies
  BY PoliciesAssumption DEF Policies
<1>k. ASSUME UNCHANGED <<enforceMode, grants, allowMap>>
      PROVE  MonitorsOnly' /\ NoLingeringFileAccess'
  BY <1>k DEF MonitorsOnly, NoLingeringFileAccess
<1>1. ASSUME NEW a \in Agents, NEW p \in Paths, NEW d \in Durations, GrantAccess(a, p, d)
      PROVE  GrantInv'
  BY <1>1, InstallKeepsInv DEF GrantAccess
<1>2. ASSUME ExpireGrants PROVE GrantInv'
  <2>1. /\ conf' \in Configs
        /\ grants' = grants \ Expired
        /\ grants' \subseteq Grant
        /\ allowMap' \subseteq allowMap
        /\ enforceMode => allowMap' = allowMap \ ExpiredKeys
    BY <1>2, ExpireEffect
  <2>2. UNCHANGED <<enforceMode, registered, fileVars>>
    BY <1>2 DEF ExpireGrants
  <2>3. GrantTypeOK'
    BY <2>1, <2>2 DEF GrantTypeOK, fileVars
  <2>4. MonitorsOnly'
    BY <2>1, <2>2 DEF MonitorsOnly
  <2>5. NoLingeringFileAccess'
    <3>1. CASE ~enforceMode
      BY <2>1, <3>1 DEF MonitorsOnly, NoLingeringFileAccess
    <3>2. CASE enforceMode
      <4> SUFFICES ASSUME NEW k \in allowMap', k \notin StaticKeys
                   PROVE  \E g \in grants' : g.path \in FilePaths /\ KeyOf(g.path) = k
        BY DEF NoLingeringFileAccess
      <4>1. PICK g \in grants : g.path \in FilePaths /\ KeyOf(g.path) = k
        BY <2>1 DEF NoLingeringFileAccess
      <4>2. k \notin ExpiredKeys
        BY <2>1, <3>2
      <4>3. g \notin Expired
        BY <4>1, <4>2 DEF ExpiredKeys
      <4> QED BY <2>1, <4>1, <4>3
    <3> QED BY <3>1, <3>2
  <2> QED BY <2>3, <2>4, <2>5
<1>f. ASSUME UNCHANGED <<enforceMode, grants, allowMap>>, conf' \in Configs,
             registered' \subseteq Agents, UNCHANGED <<disk, savedRules>> \/
                 \E c \in Configs : WriteConfig(c),
             reading' \subseteq reading \cup {disk}, writing' \subseteq writing \cup {conf}
      PROVE  GrantInv'
  <2>1. disk' \in Configs /\ savedRules' \subseteq Agents \X ExecPaths
    <3>1. CASE UNCHANGED <<disk, savedRules>>
      BY <1>0, <3>1 DEF GrantTypeOK
    <3>2. ASSUME NEW c \in Configs, WriteConfig(c)
          PROVE  disk' \in Configs /\ savedRules' \subseteq Agents \X ExecPaths
      <4>1. disk' \in Configs
        BY <1>0, <3>2 DEF WriteConfig
      <4> QED BY <3>2, <4>1, RulesType DEF WriteConfig, GrantTypeOK
    <3> QED BY <1>f, <3>1, <3>2
  <2> QED BY <1>0, <1>f, <1>k, <2>1 DEF GrantTypeOK
<1>u. \A copies, c : \A x \in UsedUp(copies, c) : x \subseteq copies
  BY DEF UsedUp
<1>3. ASSUME NEW a \in Agents, Register(a) PROVE GrantInv'
  <2>1. CASE a \in DOMAIN conf
    BY <1>0, <1>3, <1>f, <2>1 DEF Register, GrantTypeOK
  <2>2. CASE a \notin DOMAIN conf
    <3>1. conf' \in Configs /\ WriteConfig(conf')
      BY <1>0, <1>3, <1>p, <2>2, ConfigOps DEF Register
    <3> QED BY <1>3, <1>f, <3>1 DEF Register, GrantTypeOK
  <2> QED BY <2>1, <2>2
<1>4. ASSUME NEW a \in Agents, Unregister(a) PROVE GrantInv'
  BY <1>0, <1>4, <1>f DEF Unregister, GrantTypeOK, fileVars
<1>5. ASSUME NEW a \in Agents, DeleteAgent(a) PROVE GrantInv'
  <2>1. conf' \in Configs /\ WriteConfig(conf')
    BY <1>0, <1>5, <1>p, ConfigOps DEF DeleteAgent
  <2> QED BY <1>5, <1>f, <2>1 DEF DeleteAgent, GrantTypeOK
<1>6. ASSUME NEW a \in Agents, NEW pol \in OperatorPolicies, CreateAgent(a, pol)
      PROVE  GrantInv'
  <2>1. conf' \in Configs /\ WriteConfig(conf')
    BY <1>0, <1>6, <1>p, ConfigOps DEF CreateAgent
  <2> QED BY <1>6, <1>f, <2>1 DEF CreateAgent, GrantTypeOK
<1>7. ASSUME NEW a \in Agents, NEW pol \in OperatorPolicies, UpdatePolicy(a, pol)
      PROVE  GrantInv'
  <2>1. conf' \in Configs /\ WriteConfig(conf') /\ writing' \subseteq writing
    <3>1. CASE /\ conf' \in {[conf EXCEPT ![a] = [pol EXCEPT !.present = TRUE]], conf}
               /\ WriteConfig(conf')
               /\ UNCHANGED writing
      <4>1. [pol EXCEPT !.present = TRUE] \in Policies
        BY <1>p
      <4>2. [conf EXCEPT ![a] = [pol EXCEPT !.present = TRUE]] \in Configs
        BY <1>0, <4>1, ConfigOps
      <4> QED BY <1>0, <3>1, <4>2
    <3>2. ASSUME NEW c \in writing, conf' = c, WriteConfig(c), writing' \in UsedUp(writing, c)
          PROVE  conf' \in Configs /\ WriteConfig(conf') /\ writing' \subseteq writing
      BY <1>0, <1>u, <3>2 DEF GrantTypeOK
    <3> QED BY <1>7, <3>1, <3>2 DEF UpdatePolicy
  <2> QED BY <1>7, <1>f, <2>1 DEF UpdatePolicy, GrantTypeOK
<1>8. ASSUME CloneForAlerts PROVE GrantInv'
  BY <1>0, <1>8, <1>f DEF CloneForAlerts, GrantTypeOK
<1>81. ASSUME NEW c \in writing, WriteAlerts(c) PROVE GrantInv'
  <2>1. c \in Configs /\ writing' \subseteq writing
    BY <1>0, <1>81, <1>u DEF WriteAlerts, GrantTypeOK
  <2> QED BY <1>0, <1>81, <1>f, <2>1 DEF WriteAlerts, GrantTypeOK
<1>9. ASSUME ReadConfig PROVE GrantInv'
  BY <1>0, <1>9, <1>f DEF ReadConfig, GrantTypeOK
<1>91. ASSUME NEW c \in reading, ReloadConfig(c) PROVE GrantInv'
  <2>1. c \in Configs /\ reading' \subseteq reading
    BY <1>0, <1>91, <1>u DEF ReloadConfig, GrantTypeOK
  <2> QED BY <1>91, <1>f, <2>1 DEF ReloadConfig, GrantTypeOK
<1>10. ASSUME RestartGrants PROVE GrantInv'
  BY <1>10 DEF RestartGrants, LoadedKeys, GrantTypeOK, AllKeys, MonitorsOnly, NoLingeringFileAccess
<1>11. ASSUME TickGrants PROVE GrantInv'
  <2>1. AgeGrants /\ UNCHANGED <<enforceMode, registered, conf, allowMap, fileVars>>
    BY <1>11 DEF TickGrants
  <2>2. grants' \subseteq Grant /\ \A g \in grants : \E h \in grants' : h.path = g.path
    BY <2>1, AgeEffect
  <2>3. NoLingeringFileAccess'
    BY <2>1, <2>2 DEF NoLingeringFileAccess
  <2> QED BY <2>1, <2>2, <2>3 DEF GrantTypeOK, MonitorsOnly, fileVars
<1>12. ASSUME UNCHANGED grantVars PROVE GrantInv'
  BY <1>12, <1>k DEF grantVars, fileVars, GrantTypeOK
<1> QED
  BY <1>1, <1>2, <1>3, <1>4, <1>5, <1>6, <1>7, <1>8, <1>81, <1>9, <1>91, <1>10, <1>11, <1>12
     DEF GrantNext, GrantStep

\* The initial states satisfy the invariant.
LEMMA GrantInvInit == GrantInit => GrantInv
<1> SUFFICES ASSUME GrantInit PROVE GrantInv
  OBVIOUS
<1>1. PICK D \in SUBSET Agents : disk \in [D -> OperatorPolicies]
  BY DEF GrantInit
<1>2. disk \in [D -> Policies]
  BY <1>1, PoliciesAssumption
<1>3. disk \in Configs
  BY <1>2, ConfigIntro
<1> QED
  BY <1>3, RulesType DEF GrantInit, GrantInv, GrantTypeOK, LoadedKeys, AllKeys, MonitorsOnly,
                         NoLingeringFileAccess

-----------------------------------------------------------------------------

\* What the file holds, and what reloads have read from it, was written to it.
ReadIsSaved == \A c \in {disk} \cup reading : Rules(c) \subseteq savedRules

\* The inductive invariant behind StrayRulesWereSaved
StrayInv == StrayRulesWereSaved /\ ReadIsSaved

\* A step that leaves the grants alone keeps StrayRulesWereSaved if each rule
\* it leaves in memory is the operator's, was there before for the same
\* agent, or has been saved.
LEMMA RulesKept ==
    ASSUME StrayRulesWereSaved, grants' = grants, savedRules \subseteq savedRules',
           \A b \in DOMAIN conf' : \A q \in conf'[b].allow :
               \/ q \in OperatorRules
               \/ b \in DOMAIN conf /\ q \in conf[b].allow
               \/ <<b, q>> \in savedRules'
    PROVE  StrayRulesWereSaved'
BY DEF StrayRulesWereSaved, OperatorRules

\* Writing the file, or leaving it, and forgetting what was read keep ReadIsSaved.
LEMMA FileKept ==
    ASSUME ReadIsSaved, UNCHANGED <<disk, savedRules>> \/ \E c : WriteConfig(c),
           reading' \subseteq reading \cup {disk}
    PROVE  ReadIsSaved' /\ savedRules \subseteq savedRules'
<1>1. CASE UNCHANGED <<disk, savedRules>>
  BY <1>1 DEF ReadIsSaved
<1>2. ASSUME NEW c, WriteConfig(c) PROVE ReadIsSaved' /\ savedRules \subseteq savedRules'
  <2>1. savedRules' = savedRules \cup Rules(disk')
    BY <1>2 DEF WriteConfig
  <2> QED BY <2>1 DEF ReadIsSaved
<1> QED BY <1>1, <1>2

\* The inductive step of StrayInv, action by action.
LEMMA StrayRulesStep == GrantTypeOK /\ StrayInv /\ [GrantNext]_grantVars => StrayInv'
<1> SUFFICES ASSUME GrantTypeOK, StrayInv, [GrantNext]_grantVars
             PROVE  StrayInv'
  OBVIOUS
<1> USE DEF StrayInv
<1>0. conf \in [DOMAIN conf -> Policies]
  BY ConfigElim DEF GrantTypeOK
<1>p. /\ \A pol \in OperatorPolicies \cup {DefaultExecPolicy} : pol.allow \subseteq OperatorRules
      /\ \A pol \in OperatorPolicies : [pol EXCEPT !.present = TRUE].allow = pol.allow
  BY PoliciesAssumption DEF OperatorRules, Policies
<1>w. ASSUME NEW a \in Agents, NEW pol, pol.allow \subseteq OperatorRules,
             NEW b \in DOMAIN With(conf, a, pol), NEW q \in With(conf, a, pol)[b].allow
      PROVE  q \in OperatorRules \/ (b \in DOMAIN conf /\ q \in conf[b].allow)
  BY <1>w DEF With
<1>u. \A copies, c : \A x \in UsedUp(copies, c) : x \subseteq copies
  BY DEF UsedUp
<1>s. ASSUME UNCHANGED <<conf, grants>>, UNCHANGED <<disk, savedRules>> \/ \E c : WriteConfig(c),
             reading' \subseteq reading \cup {disk}
      PROVE  StrayInv'
  BY <1>s, FileKept, RulesKept
<1>1. ASSUME NEW a \in Agents, NEW p \in Paths, NEW d \in Durations, GrantAccess(a, p, d)
      PROVE  StrayInv'
  <2> DEFINE new == [agent |-> a, path |-> p, ttl |-> d]
  <2>1. grants' = grants \cup {new} /\ UNCHANGED fileVars
    BY <1>1 DEF GrantAccess, InstallGrant
  <2>2. new \in grants' /\ new.agent = a /\ new.path = p
    BY <2>1
  <2>3. ASSUME NEW b \in DOMAIN conf', NEW q \in conf'[b].allow
        PROVE  b \in DOMAIN conf /\ (q \in conf[b].allow \/ (b = a /\ q = p))
    <3>1. CASE conf' = conf
      BY <2>3, <3>1
    <3>2. CASE a \in DOMAIN conf /\ conf' = AddExecRule(a, p)
      <4>1. conf[a] \in Policies
        BY <1>0, <3>2
      <4> QED BY <1>0, <2>3, <3>2, <4>1 DEF AddExecRule, Policies
    <3> QED BY <1>1, <3>1, <3>2 DEF GrantAccess, InstallGrant
  <2> HIDE DEF new
  <2>4. StrayRulesWereSaved'
    BY <2>1, <2>2, <2>3 DEF StrayRulesWereSaved, OperatorRules, fileVars
  <2> QED BY <2>1, <2>4 DEF ReadIsSaved, fileVars
<1>2. ASSUME ExpireGrants PROVE StrayInv'
  <2>1. grants' = grants \ Expired /\ UNCHANGED fileVars /\ DOMAIN conf' = DOMAIN conf
    BY <1>2 DEF ExpireGrants
  <2>2. \A b \in DOMAIN conf : conf'[b].allow = conf[b].allow \ ExpiredRules(b)
    BY <1>0, <1>2 DEF ExpireGrants, Policies
  <2>3. ASSUME NEW b \in DOMAIN conf, NEW q \in conf[b].allow \ ExpiredRules(b),
               NEW g \in grants, g.agent = b, g.path = q, q \in ExecPaths
        PROVE  g \notin Expired
    BY <2>3 DEF ExpiredRules
  <2>4. \A b \in DOMAIN conf : conf[b].allow \subseteq ExecPaths
    BY <1>0 DEF Policies
  <2>5. StrayRulesWereSaved'
    BY <2>1, <2>2, <2>3, <2>4 DEF StrayRulesWereSaved, OperatorRules, fileVars
  <2> QED BY <2>1, <2>5 DEF ReadIsSaved, fileVars
<1>3. ASSUME NEW a \in Agents, Register(a) PROVE StrayInv'
  <2>1. CASE a \in DOMAIN conf
    BY <1>3, <1>s, <2>1 DEF Register
  <2>2. CASE a \notin DOMAIN conf
    <3>1. ReadIsSaved' /\ savedRules \subseteq savedRules'
      BY <1>3, <2>2, FileKept DEF Register
    <3> QED BY <1>3, <1>p, <1>w, <2>2, <3>1, RulesKept DEF Register
  <2> QED BY <2>1, <2>2
<1>4. ASSUME NEW a \in Agents, Unregister(a) PROVE StrayInv'
  BY <1>4, <1>s DEF Unregister, fileVars
<1>5. ASSUME NEW a \in Agents, DeleteAgent(a) PROVE StrayInv'
  <2>1. ReadIsSaved' /\ savedRules \subseteq savedRules'
    BY <1>5, FileKept DEF DeleteAgent
  <2> QED BY <1>5, <2>1, RulesKept DEF DeleteAgent, Without
<1>6. ASSUME NEW a \in Agents, NEW pol \in OperatorPolicies, CreateAgent(a, pol)
      PROVE  StrayInv'
  <2>1. ReadIsSaved' /\ savedRules \subseteq savedRules'
    BY <1>6, FileKept DEF CreateAgent
  <2> QED BY <1>6, <1>p, <1>w, <2>1, RulesKept DEF CreateAgent
<1>7. ASSUME NEW a \in Agents, NEW pol \in OperatorPolicies, UpdatePolicy(a, pol)
      PROVE  StrayInv'
  <2>1. ReadIsSaved' /\ savedRules \subseteq savedRules' /\ grants' = grants
    BY <1>7, FileKept DEF UpdatePolicy
  <2>2. ASSUME NEW b \in DOMAIN conf', NEW q \in conf'[b].allow
        PROVE  \/ q \in OperatorRules
               \/ b \in DOMAIN conf /\ q \in conf[b].allow
               \/ <<b, q>> \in savedRules'
    <3>1. CASE conf' = conf
      BY <2>2, <3>1
    <3>2. CASE a \in DOMAIN conf /\ conf' = [conf EXCEPT ![a] = [pol EXCEPT !.present = TRUE]]
      <4>1. CASE b = a
        <5>1. q \in [pol EXCEPT !.present = TRUE].allow
          BY <1>0, <2>2, <3>2, <4>1
        <5> QED BY <1>p, <5>1
      <4>2. CASE b # a
        BY <1>0, <2>2, <3>2, <4>2
      <4> QED BY <4>1, <4>2
    <3>3. CASE disk' = conf' /\ \E c : WriteConfig(c)
      <4>1. <<b, q>> \in Rules(conf')
        BY <2>2, RulesHold
      <4> QED BY <3>3, <4>1 DEF WriteConfig
    <3> QED BY <1>7, <3>1, <3>2, <3>3 DEF UpdatePolicy
  <2> QED BY <2>1, <2>2, RulesKept
<1>8. ASSUME CloneForAlerts PROVE StrayInv'
  BY <1>8, <1>s DEF CloneForAlerts
<1>81. ASSUME NEW c \in writing, WriteAlerts(c) PROVE StrayInv'
  BY <1>81, <1>s DEF WriteAlerts
<1>9. ASSUME ReadConfig PROVE StrayInv'
  BY <1>9, <1>s DEF ReadConfig
<1>91. ASSUME NEW c \in reading, ReloadConfig(c) PROVE StrayInv'
  <2>1. ReadIsSaved' /\ savedRules' = savedRules
    BY <1>91, <1>u, FileKept DEF ReloadConfig
  <2>2. conf' = c /\ grants' = grants
    BY <1>91 DEF ReloadConfig
  <2>3. \A b \in DOMAIN c : \A q \in c[b].allow : <<b, q>> \in savedRules
    BY RulesHold DEF ReadIsSaved
  <2> QED BY <2>1, <2>2, <2>3, RulesKept
<1>10. ASSUME RestartGrants PROVE StrayInv'
  <2>1. conf' = disk /\ UNCHANGED <<disk, savedRules>> /\ reading' = {}
    BY <1>10 DEF RestartGrants
  <2>2. \A b \in DOMAIN disk : \A q \in disk[b].allow : <<b, q>> \in savedRules
    BY RulesHold DEF ReadIsSaved
  <2>3. StrayRulesWereSaved'
    <3>1. \A b \in DOMAIN conf' : \A q \in conf'[b].allow : <<b, q>> \in savedRules'
      BY <2>1, <2>2
    <3> QED BY <3>1 DEF StrayRulesWereSaved
  <2> QED BY <2>1, <2>3 DEF ReadIsSaved
<1>11. ASSUME TickGrants PROVE StrayInv'
  <2>1. AgeGrants /\ conf' = conf /\ UNCHANGED <<disk, reading, savedRules>>
    BY <1>11 DEF TickGrants, fileVars
  <2>2. \A g \in grants : \E h \in grants' : h.agent = g.agent /\ h.path = g.path
    BY <2>1, AgeEffect
  <2>3. StrayRulesWereSaved'
    <3>1. ASSUME NEW b \in DOMAIN conf, NEW q \in conf[b].allow
          PROVE  \/ q \in OperatorRules
                 \/ \E g \in grants' : g.agent = b /\ g.path = q
                 \/ <<b, q>> \in savedRules
      BY <2>2 DEF StrayRulesWereSaved
    <3> QED BY <2>1, <3>1 DEF StrayRulesWereSaved, OperatorRules
  <2> QED BY <2>1, <2>3 DEF ReadIsSaved
<1>12. ASSUME UNCHANGED grantVars PROVE StrayInv'
  BY <1>12, <1>s DEF grantVars, fileVars
<1> QED
  BY <1>1, <1>2, <1>3, <1>4, <1>5, <1>6, <1>7, <1>8, <1>81, <1>9, <1>91, <1>10, <1>11, <1>12
     DEF GrantNext, GrantStep

-----------------------------------------------------------------------------

\* THE TYPES of the daemon's configuration, grants and allow maps.
THEOREM GrantTypeCorrect == GrantSpec => []GrantTypeOK
<1>1. GrantInv => GrantTypeOK
  BY DEF GrantInv
<1> QED BY <1>1, GrantInvInit, GrantInvStep, PTL DEF GrantSpec

\* NO LINGERING ACCESS: a key in the kernel's allow maps is always accounted
\* for by the configuration or by a grant that is still recorded and will be
\* swept, whatever the agents, the paths, the map sizes and the durations.
THEOREM NoAccessOutlivesItsGrant == GrantSpec => []NoLingeringFileAccess
<1>1. GrantInv => NoLingeringFileAccess
  BY DEF GrantInv
<1> QED BY <1>1, GrantInvInit, GrantInvStep, PTL DEF GrantSpec

\* RULES THE SWEEP MISSES are only those that a write of config.toml has
\* made permanent at some time: a rule that was never written goes with its
\* grant, although reloads and updates of the alerts work with old copies,
\* whatever the agents, the commands, the policies and the durations.
THEOREM OnlySavedRulesStay == GrantSpec => []StrayRulesWereSaved
<1>1. GrantInit => StrayInv
  <2> SUFFICES ASSUME GrantInit PROVE StrayInv
    OBVIOUS
  <2>1. conf = disk /\ savedRules = Rules(disk) /\ reading = {}
    BY DEF GrantInit
  <2>2. StrayRulesWereSaved
    BY <2>1, RulesHold DEF StrayRulesWereSaved
  <2> QED BY <2>1, <2>2 DEF StrayInv, ReadIsSaved
<1>2. GrantInv => GrantTypeOK
  BY DEF GrantInv
<1>3. StrayInv => StrayRulesWereSaved
  BY DEF StrayInv
<1> QED BY <1>1, <1>2, <1>3, GrantInvInit, GrantInvStep, StrayRulesStep, PTL DEF GrantSpec

-----------------------------------------------------------------------------
(* Part 2: Permissions.                                                    *)

\* The part of the state that the argument is about
ReqTypeOK ==
    /\ task \in [Tasks -> TaskRecord]
    /\ chan \in [Tasks -> {"empty", "approved", "denied"}]
    /\ pending \subseteq Tasks
    /\ boot \in Nat
    /\ nextId \in Nat
    /\ audit \in Seq(Entry)

\* A request that is not yet made has received nothing.
FreshChannels == \A t \in Tasks : task[t].pc = "idle" => chan[t] = "empty"

\* Ids given out by this daemon are below nextId, listed requests have
\* different ids, and none of them is in the audit trail yet.
IdsInOrder ==
    /\ \A t \in pending : task[t].id < nextId
    /\ \A s, t \in pending : task[s].id = task[t].id => s = t
    /\ \A i \in DOMAIN audit : audit[i].boot <= boot
    /\ \A i \in DOMAIN audit : audit[i].boot = boot =>
           audit[i].id < nextId /\ \A t \in pending : task[t].id # audit[i].id

\* The inductive invariant
ReqInv ==
    ReqTypeOK /\ NoOrphans /\ FreshChannels /\ PendingBounded /\ IdsInOrder /\ SettledOnce

-----------------------------------------------------------------------------
(* The steps, by what they do to this part of the state.                   *)

\* A request is answered on the spot, with or without an audit row.
AnsweredAtOnce ==
    /\ \E t \in Tasks, a \in Agents, p \in Paths :
           /\ Idle(t)
           /\ \E what \in {"error", "refused", "autodenied", "autoapproved", "limited"} :
                  Answer(t, a, p, what)
           /\ UNCHANGED <<audit, nextId>> \/ \E ok \in BOOLEAN : AuditAtOnce(a, p, ok)
    /\ UNCHANGED <<boot, chan, pending, resolved>>

\* A person decides.
Decided(t) ==
    /\ t \in pending
    /\ pending' = pending \ {t}
    /\ \E ok \in BOOLEAN : Record(t, ok) /\ Send(t, IF ok THEN "approved" ELSE "denied")
    /\ UNCHANGED <<boot, task, nextId>>

\* Every step is one of these.
LEMMA StepKinds ==
    ASSUME [PermNext]_vars
    PROVE  \/ AnsweredAtOnce
           \/ \E t \in Tasks, a \in Agents, p \in Paths, j \in Justifications : Enqueue(t, a, p, j)
           \/ \E t \in Tasks : Decided(t)
           \/ \E t \in Tasks : TimerFires(t) \/ Answered(t) \/ TimedOut(t)
           \/ Restart
           \/ Tick
           \/ UNCHANGED <<boot, task, chan, pending, nextId, resolved, audit>>
<1>1. ASSUME NEW t \in Tasks, NEW a \in Agents, NEW p \in Paths, Refuse(t, a, p)
      PROVE  AnsweredAtOnce
  BY <1>1 DEF Refuse, AnsweredAtOnce
<1>2. ASSUME NEW t \in Tasks, NEW a \in Agents, NEW p \in Paths, AutoDenied(t, a, p)
      PROVE  AnsweredAtOnce
  BY <1>2 DEF AutoDenied, Admitted, AnsweredAtOnce
<1>3. ASSUME NEW t \in Tasks, NEW a \in Agents, NEW p \in Paths, AutoApproved(t, a, p)
      PROVE  AnsweredAtOnce
  BY <1>3 DEF AutoApproved, Admitted, AnsweredAtOnce
<1>4. ASSUME NEW t \in Tasks, NEW a \in Agents, NEW p \in Paths, RateLimited(t, a, p)
      PROVE  AnsweredAtOnce
  BY <1>4 DEF RateLimited, NeedsDecision, Admitted, AnsweredAtOnce
<1>5. ASSUME NEW t \in Tasks, NEW d \in Durations,
             Approve(t, d) \/ ApproveOverridden(t, d)
      PROVE  Decided(t)
  <2>1. CASE Approve(t, d)
    BY <2>1 DEF Approve, Decided
  <2>2. CASE ApproveOverridden(t, d)
    BY <2>2 DEF ApproveOverridden, Decided
  <2> QED BY <1>5, <2>1, <2>2
<1>6. ASSUME NEW t \in Tasks, Deny(t)
      PROVE  Decided(t)
  BY <1>6 DEF Deny, Decided
<1>7. CleanupAccumulator \/ (GrantStep /\ UNCHANGED permVars) \/ UNCHANGED vars
         => UNCHANGED <<boot, task, chan, pending, nextId, resolved, audit>>
  BY DEF CleanupAccumulator, permVars, vars
<1> QED BY <1>1, <1>2, <1>3, <1>4, <1>5, <1>6, <1>7 DEF PermNext

\* classify_risk always gives one of the four levels, so there is a timeout.
LEMMA TimeoutIsNat ==
    ASSUME NEW l, NEW p \in Paths, NEW j
    PROVE  TimeoutFor(l, p, j) \in Nat
<1> DEFINE c == ClassOf[p]
           x == p \in ExecPaths
           r == p \in RiskyExecs
<1>1. BaseScore(c) \in Nat
  BY PermAssumption DEF BaseScore, PathClasses
<1>2. ExecScore(c, r) \in Nat
  BY <1>1 DEF ExecScore, Max2
<1>3. \A s \in Nat : AfterDenials(s, l.denials) \in Nat
  BY DEF AfterDenials, Min2
<1>4. \A s \in Nat : AfterRate(s, l.hourCount) \in Nat
  BY DEF AfterRate, Min2
<1>5. Score(c, x, r, l.denials, l.hourCount) \in Nat
  BY <1>1, <1>2, <1>3, <1>4 DEF Score
<1>6. \A s \in Nat : LevelIndex(s) \in 1 .. 4
  BY DEF LevelIndex
<1>7. \A i \in 1 .. 4 : Bumped(i, j) \in 1 .. 4
  BY DEF Bumped, Bump, Min2
<1>8. RiskIndex(c, x, r, l.denials, l.hourCount, j) \in 1 .. 4
  BY <1>5, <1>6, <1>7 DEF RiskIndex
<1>9. \A i \in 1 .. 4 : Levels[i] \in RiskLevels
  BY DEF Levels, RiskLevels
<1>10. RiskOf(c, x, r, l.denials, l.hourCount, j) \in RiskLevels
  BY <1>8, <1>9 DEF RiskOf
<1> QED BY <1>10, PermAssumption DEF TimeoutFor

\* The record of a request that was answered on the spot is well formed.
LEMMA IdleTaskType == IdleTask \in TaskRecord
BY PermAssumption DEF IdleTask, TaskRecord

\* What an appended audit row changes: every row but the last is as before.
LEMMA AuditRow ==
    ASSUME audit \in Seq(Entry), NEW e \in Entry, audit' = Append(audit, e)
    PROVE  /\ audit' \in Seq(Entry)
           /\ \A i \in DOMAIN audit' : \/ i \in DOMAIN audit /\ audit'[i] = audit[i]
                                       \/ i = Len(audit) + 1 /\ audit'[i] = e
BY AppendProperties

\* Rows that are new to this life of the daemon keep the trail in order.
LEMMA FreshRow ==
    ASSUME ReqTypeOK, IdsInOrder, SettledOnce, NEW e \in Entry, audit' = Append(audit, e),
           e.boot = boot, \A i \in DOMAIN audit : audit[i].boot = boot => audit[i].id # e.id
    PROVE  SettledOnce'
<1>1. \A i \in DOMAIN audit' : \/ i \in DOMAIN audit /\ audit'[i] = audit[i]
                               \/ i = Len(audit) + 1 /\ audit'[i] = e
  BY AuditRow DEF ReqTypeOK
<1> QED BY <1>1 DEF SettledOnce

-----------------------------------------------------------------------------
(* The inductive step, one lemma for each kind of step.                    *)

\* Answering on the spot touches no listed request, and a row it writes is
\* under a new id.
LEMMA AtOnceStep == ASSUME ReqInv, AnsweredAtOnce PROVE ReqInv'
<1> USE DEF ReqInv
<1>1. PICK t \in Tasks, a \in Agents, p \in Paths :
         /\ Idle(t)
         /\ \E what \in {"error", "refused", "autodenied", "autoapproved", "limited"} :
                Answer(t, a, p, what)
         /\ UNCHANGED <<audit, nextId>> \/ \E ok \in BOOLEAN : AuditAtOnce(a, p, ok)
  BY DEF AnsweredAtOnce
<1>2. UNCHANGED <<boot, chan, pending>>
  BY DEF AnsweredAtOnce
<1>3. /\ task' \in [Tasks -> TaskRecord]
      /\ task'[t].pc = "done"
      /\ \A s \in Tasks \ {t} : task'[s] = task[s]
  <2>1. PICK what \in {"error", "refused", "autodenied", "autoapproved", "limited"} :
           Answer(t, a, p, what)
    BY <1>1
  <2>2. [IdleTask EXCEPT !.pc = "done", !.agent = a, !.path = p, !.reply = what] \in TaskRecord
    BY IdleTaskType DEF TaskRecord
  <2>3. [IdleTask EXCEPT !.pc = "done", !.agent = a, !.path = p, !.reply = what].pc = "done"
    BY IdleTaskType DEF TaskRecord
  <2> QED BY <2>1, <2>2, <2>3 DEF Answer, ReqTypeOK
<1>4. t \notin pending
  BY <1>1 DEF Idle, NoOrphans
<1>5. NoOrphans' /\ FreshChannels'
  BY <1>2, <1>3, <1>4 DEF NoOrphans, FreshChannels
<1>6. PendingBounded'
  <2>1. \A b \in Agents : PendingOf(b)' = PendingOf(b)
    BY <1>2, <1>3, <1>4 DEF PendingOf, ReqTypeOK
  <2> QED BY <2>1 DEF PendingBounded
<1>7. CASE UNCHANGED <<audit, nextId>>
  <2>1. ReqTypeOK'
    BY <1>2, <1>3, <1>7 DEF ReqTypeOK
  <2>2. IdsInOrder' /\ SettledOnce'
    BY <1>2, <1>3, <1>4, <1>7 DEF IdsInOrder, SettledOnce, ReqTypeOK
  <2> QED BY <1>5, <1>6, <2>1, <2>2
<1>8. ASSUME NEW ok \in BOOLEAN, AuditAtOnce(a, p, ok) PROVE ReqInv'
  <2> DEFINE e == EntryFor(nextId, a, p, ok, FALSE)
  <2>1. audit' = Append(audit, e) /\ nextId' = nextId + 1
    BY <1>8 DEF AuditAtOnce
  <2>2. e \in Entry /\ e.boot = boot /\ e.id = nextId
    BY DEF EntryFor, Entry, ReqTypeOK
  <2> HIDE DEF e
  <2>3. /\ audit' \in Seq(Entry)
        /\ \A i \in DOMAIN audit' : \/ i \in DOMAIN audit /\ audit'[i] = audit[i]
                                    \/ i = Len(audit) + 1 /\ audit'[i] = e
    BY <2>1, <2>2, AuditRow DEF ReqTypeOK
  <2>4. ReqTypeOK'
    BY <1>2, <1>3, <2>1, <2>3 DEF ReqTypeOK
  <2>5. \A i \in DOMAIN audit : audit[i] \in Entry
    BY DEF ReqTypeOK
  <2>6. SettledOnce'
    BY <2>1, <2>2, <2>5, FreshRow DEF IdsInOrder, Entry, ReqTypeOK
  <2>7. \A s \in pending : task'[s] = task[s] /\ task[s].id \in Nat
    BY <1>3, <1>4 DEF ReqTypeOK, TaskRecord
  <2>8. IdsInOrder'
    BY <1>2, <2>1, <2>2, <2>3, <2>5, <2>7 DEF IdsInOrder, Entry, ReqTypeOK
  <2> QED BY <1>5, <1>6, <2>4, <2>6, <2>8
<1> QED BY <1>1, <1>7, <1>8

\* Queueing is admitted only below the limit, under a new id.
LEMMA EnqueueStep ==
    ASSUME ReqInv, NEW t \in Tasks, NEW a \in Agents, NEW p \in Paths, NEW j, Enqueue(t, a, p, j)
    PROVE  ReqInv'
<1> USE DEF ReqInv
<1>1. /\ Idle(t) /\ ~TooManyPending(a)
      /\ pending' = pending \cup {t}
      /\ nextId' = nextId + 1
      /\ UNCHANGED <<boot, chan, audit>>
  BY DEF Enqueue, NeedsDecision, Admitted
<1>2. t \notin pending /\ chan[t] = "empty"
  BY <1>1 DEF Idle, NoOrphans, FreshChannels
<1>3. /\ task' \in [Tasks -> TaskRecord]
      /\ task'[t].pc = "waiting" /\ task'[t].agent = a /\ task'[t].id = nextId
      /\ \A s \in Tasks \ {t} : task'[s] = task[s]
  <2> DEFINE l == Refreshed(EntryOf(limit[a]))
             r == [pc |-> "waiting", agent |-> a, path |-> p, id |-> nextId,
                   left |-> TimeoutFor(l, p, j), reply |-> "none"]
  <2>1. task' = [task EXCEPT ![t] = r]
    BY DEF Enqueue
  <2>2. r \in TaskRecord
    <3>1. TimeoutFor(l, p, j) \in Nat
      BY TimeoutIsNat
    <3> HIDE DEF l
    <3> QED BY <3>1 DEF TaskRecord, ReqTypeOK
  <2>3. r.pc = "waiting" /\ r.agent = a /\ r.id = nextId
    OBVIOUS
  <2> HIDE DEF r
  <2> QED BY <2>1, <2>2, <2>3 DEF ReqTypeOK
<1>4. ReqTypeOK'
  BY <1>1, <1>3 DEF ReqTypeOK
<1>5. NoOrphans' /\ FreshChannels'
  BY <1>1, <1>2, <1>3 DEF NoOrphans, FreshChannels
<1>6. PendingBounded'
  <2> SUFFICES ASSUME NEW b \in Agents
               PROVE  Cardinality(PendingOf(b)') <= MaxPending
    BY DEF PendingBounded
  <2>1. IsFiniteSet(PendingOf(b))
    BY PermAssumption, FS_Subset DEF PendingOf, ReqTypeOK
  <2>2. CASE b = a
    <3>1. PendingOf(b)' = PendingOf(b) \cup {t}
      BY <1>1, <1>3, <2>2 DEF PendingOf, ReqTypeOK
    <3>2. Cardinality(PendingOf(b) \cup {t}) = Cardinality(PendingOf(b)) + 1
      <4>1. t \notin PendingOf(b)
        BY <1>2 DEF PendingOf
      <4> QED BY <2>1, <4>1, FS_AddElement
    <3>3. Cardinality(PendingOf(b)) \in Nat
      BY <2>1, FS_CardinalityType
    <3>4. Cardinality(PendingOf(b)) < MaxPending
      BY <1>1, <2>2, <3>3, PermAssumption DEF TooManyPending
    <3>5. Cardinality(PendingOf(b)') = Cardinality(PendingOf(b)) + 1
      BY <3>1, <3>2
    <3> QED BY <3>3, <3>4, <3>5, PermAssumption
  <2>3. CASE b # a
    <3>1. PendingOf(b)' = PendingOf(b)
      BY <1>1, <1>2, <1>3, <2>3 DEF PendingOf, ReqTypeOK
    <3> QED BY <3>1 DEF PendingBounded
  <2> QED BY <2>2, <2>3
<1>7. \A i \in DOMAIN audit : audit[i] \in Entry
  BY DEF ReqTypeOK
<1>8. \A s \in pending : s # t /\ task'[s] = task[s] /\ task[s].id \in Nat
  BY <1>2, <1>3 DEF ReqTypeOK, TaskRecord
<1>9. IdsInOrder'
  BY <1>1, <1>3, <1>7, <1>8 DEF IdsInOrder, Entry, ReqTypeOK
<1>10. SettledOnce'
  BY <1>1 DEF SettledOnce
<1> QED BY <1>4, <1>5, <1>6, <1>9, <1>10

\* The list of pending requests only gets shorter.
LEMMA PendingShrinks ==
    ASSUME ReqTypeOK, PendingBounded, pending' \subseteq pending,
           \A s \in Tasks : task'[s].agent = task[s].agent
    PROVE  PendingBounded'
<1> SUFFICES ASSUME NEW b \in Agents
             PROVE  Cardinality(PendingOf(b)') <= MaxPending
  BY DEF PendingBounded
<1>1. IsFiniteSet(PendingOf(b))
  BY PermAssumption, FS_Subset DEF PendingOf, ReqTypeOK
<1>2. PendingOf(b)' \subseteq PendingOf(b)
  BY DEF PendingOf, ReqTypeOK
<1>3. /\ Cardinality(PendingOf(b)') <= Cardinality(PendingOf(b))
      /\ IsFiniteSet(PendingOf(b)')
  BY <1>1, <1>2, FS_Subset
<1>4. Cardinality(PendingOf(b)') \in Nat /\ Cardinality(PendingOf(b)) \in Nat
  BY <1>1, <1>3, FS_CardinalityType
<1> QED BY <1>3, <1>4, PermAssumption DEF PendingBounded

\* A listed request is recorded and leaves the list in the same step, so
\* its id is in the trail once.
LEMMA RecordKeepsOrder ==
    ASSUME ReqInv, NEW t \in pending, NEW ok \in BOOLEAN, Record(t, ok),
           pending' = pending \ {t}, UNCHANGED <<boot, nextId>>,
           \A s \in Tasks : task'[s].id = task[s].id
    PROVE  audit' \in Seq(Entry) /\ IdsInOrder' /\ SettledOnce'
<1> USE DEF ReqInv
<1> DEFINE e == EntryFor(task[t].id, task[t].agent, task[t].path, ok, TRUE)
<1>1. audit' = Append(audit, e)
  BY DEF Record
<1>2. e \in Entry /\ e.boot = boot /\ e.id = task[t].id
  BY DEF EntryFor, Entry, ReqTypeOK, TaskRecord
<1> HIDE DEF e
<1>3. /\ audit' \in Seq(Entry)
      /\ \A i \in DOMAIN audit' : \/ i \in DOMAIN audit /\ audit'[i] = audit[i]
                                  \/ i = Len(audit) + 1 /\ audit'[i] = e
  BY <1>1, <1>2, AuditRow DEF ReqTypeOK
<1>4. SettledOnce'
  BY <1>1, <1>2, FreshRow DEF IdsInOrder
<1>5. IdsInOrder'
  <2>1. /\ \A s \in pending' : s \in pending /\ s # t
        /\ \A s \in pending : task'[s].id = task[s].id
    BY DEF ReqTypeOK
  <2>2. /\ \A s \in pending' : task'[s].id < nextId'
        /\ \A r, s \in pending' : task'[r].id = task'[s].id => r = s
        /\ \A s \in pending' : task'[s].id # e.id
    BY <1>2, <2>1 DEF IdsInOrder
  <2>3. ASSUME NEW i \in DOMAIN audit'
        PROVE  /\ audit'[i].boot <= boot'
               /\ audit'[i].boot = boot' =>
                      audit'[i].id < nextId' /\ \A s \in pending' : task'[s].id # audit'[i].id
    <3>1. CASE i \in DOMAIN audit /\ audit'[i] = audit[i]
      BY <2>1, <3>1 DEF IdsInOrder
    <3>2. CASE audit'[i] = e
      BY <1>2, <2>2, <3>2 DEF IdsInOrder, ReqTypeOK
    <3> QED BY <1>3, <3>1, <3>2
  <2> QED BY <2>2, <2>3 DEF IdsInOrder
<1> QED BY <1>3, <1>4, <1>5

\* A decision takes the request off the list and into the channel.
LEMMA DecidedStep == ASSUME ReqInv, NEW t \in Tasks, Decided(t) PROVE ReqInv'
<1> USE DEF ReqInv
<1>1. /\ t \in pending
      /\ pending' = pending \ {t}
      /\ UNCHANGED <<boot, task, nextId>>
  BY DEF Decided
<1>2. PICK ok \in BOOLEAN : Record(t, ok) /\ Send(t, IF ok THEN "approved" ELSE "denied")
  BY DEF Decided
<1>3. PICK what \in {"approved", "denied"} : Send(t, what)
  BY <1>2
<1>4. audit' \in Seq(Entry) /\ IdsInOrder' /\ SettledOnce'
  BY <1>1, <1>2, RecordKeepsOrder
<1>5. PendingBounded'
  BY <1>1, PendingShrinks
<1>6. /\ chan' \in [Tasks -> {"empty", "approved", "denied"}]
      /\ \A s \in Tasks \ {t} : chan'[s] = chan[s]
      /\ task[t].pc = "waiting" => chan'[t] # "empty"
  BY <1>3 DEF Send, ReqTypeOK
<1>7. NoOrphans' /\ FreshChannels'
  BY <1>1, <1>6 DEF NoOrphans, FreshChannels
<1>8. ReqTypeOK'
  BY <1>1, <1>4, <1>6 DEF ReqTypeOK
<1> QED BY <1>4, <1>5, <1>7, <1>8

\* The handler's own steps after the wait
LEMMA HandlerStep ==
    ASSUME ReqInv, NEW t \in Tasks, TimerFires(t) \/ Answered(t) \/ TimedOut(t)
    PROVE  ReqInv'
<1> USE DEF ReqInv
<1>1. /\ task' \in [Tasks -> TaskRecord]
      /\ \A s \in Tasks : task'[s].id = task[s].id /\ task'[s].agent = task[s].agent
      /\ \A s \in Tasks \ {t} : task'[s] = task[s]
      /\ TimerFires(t) => task'[t].pc = "late"
      /\ Answered(t) \/ TimedOut(t) => task'[t].pc = "done"
  <2>1. CASE TimerFires(t)
    <3>1. task' = [task EXCEPT ![t].pc = "late"] /\ task[t].pc = "waiting"
      BY <2>1 DEF TimerFires, TimerDue
    <3>2. ~Answered(t) /\ ~TimedOut(t)
      BY <2>1, <3>1 DEF TimerFires, TimerDue, Answered, TimedOut
    <3> QED BY <3>1, <3>2 DEF TaskRecord, ReqTypeOK
  <2>2. CASE Answered(t) \/ TimedOut(t)
    <3>1. PICK what \in {"approved", "denied", "timeout"} :
             task' = [task EXCEPT ![t].pc = "done", ![t].reply = what]
      BY <2>2 DEF Answered, TimedOut, Done, ReqTypeOK
    <3>2. ~TimerFires(t)
      BY <2>2 DEF TimerFires, TimerDue, Answered, TimedOut
    <3> DEFINE r == [task[t] EXCEPT !.pc = "done", !.reply = what]
    <3>3. task[t] \in TaskRecord /\ task' = [task EXCEPT ![t] = r]
      BY <3>1 DEF ReqTypeOK
    <3>4. r \in TaskRecord /\ r.pc = "done" /\ r.id = task[t].id /\ r.agent = task[t].agent
      BY <3>3 DEF TaskRecord
    <3> HIDE DEF r
    <3> QED BY <3>2, <3>3, <3>4 DEF ReqTypeOK
  <2> QED BY <2>1, <2>2
<1>2. UNCHANGED <<boot, chan, nextId>>
  BY DEF TimerFires, Answered, TimedOut
<1>3. CASE TimerFires(t) \/ Answered(t)
  <2>1. UNCHANGED <<pending, audit>>
    BY <1>3 DEF TimerFires, Answered
  <2>2. NoOrphans' /\ FreshChannels'
    BY <1>1, <1>2, <1>3, <2>1 DEF NoOrphans, FreshChannels, TimerFires, TimerDue, Answered
  <2>3. PendingBounded'
    BY <1>1, <2>1, PendingShrinks
  <2>4. IdsInOrder' /\ SettledOnce' /\ ReqTypeOK'
    BY <1>1, <1>2, <2>1 DEF IdsInOrder, SettledOnce, ReqTypeOK
  <2> QED BY <2>2, <2>3, <2>4
<1>4. CASE TimedOut(t)
  <2>1. pending' = pending \ {t}
    BY <1>4 DEF TimedOut, Removed
  <2>2. NoOrphans' /\ FreshChannels'
    BY <1>1, <1>2, <1>4, <2>1 DEF NoOrphans, FreshChannels
  <2>3. PendingBounded'
    BY <1>1, <2>1, PendingShrinks
  <2>4. CASE t \in pending
    <3>1. Record(t, FALSE)
      BY <1>4, <2>4 DEF TimedOut, Listed
    <3>2. audit' \in Seq(Entry) /\ IdsInOrder' /\ SettledOnce'
      BY <1>1, <1>2, <2>1, <2>4, <3>1, RecordKeepsOrder
    <3> QED BY <1>1, <1>2, <2>1, <2>2, <2>3, <3>2 DEF ReqTypeOK
  <2>5. CASE t \notin pending
    <3>1. UNCHANGED <<audit, pending>>
      BY <1>4, <2>1, <2>5 DEF TimedOut, Listed
    <3>2. IdsInOrder' /\ SettledOnce' /\ ReqTypeOK'
      BY <1>1, <1>2, <3>1 DEF IdsInOrder, SettledOnce, ReqTypeOK
    <3> QED BY <2>2, <2>3, <3>2
  <2> QED BY <2>4, <2>5
<1> QED BY <1>3, <1>4

\* A restart empties the list; the ids start again, in a new life.
LEMMA RestartStep == ASSUME ReqInv, Restart PROVE ReqInv'
<1> USE DEF ReqInv
<1>1. /\ boot' = boot + 1
      /\ chan' = [s \in Tasks |-> "empty"]
      /\ pending' = {}
      /\ nextId' = 1
      /\ audit' = audit
  BY DEF Restart
<1>2. /\ task' \in [Tasks -> TaskRecord]
      /\ \A s \in Tasks : task'[s].pc \in {"idle", "done"} /\ task'[s].agent = task[s].agent
  <2> DEFINE lost(r) == [r EXCEPT !.pc = "done", !.reply = "lost"]
  <2>1. task' = [s \in Tasks |-> IF task[s].pc \in {"waiting", "late"}
                                 THEN lost(task[s]) ELSE task[s]]
    BY DEF Restart
  <2>2. \A r \in TaskRecord :
           /\ lost(r) \in TaskRecord /\ lost(r).pc = "done" /\ lost(r).agent = r.agent
           /\ r.pc \in {"idle", "waiting", "late", "done"}
    BY DEF TaskRecord
  <2> HIDE DEF lost
  <2> QED BY <2>1, <2>2 DEF ReqTypeOK
<1>3. ReqTypeOK' /\ NoOrphans' /\ FreshChannels'
  BY <1>1, <1>2 DEF ReqTypeOK, NoOrphans, FreshChannels
<1>4. PendingBounded'
  BY <1>1, <1>2, PendingShrinks
<1>5. \A i \in DOMAIN audit : audit[i].boot \in Nat
  <2>1. \A i \in DOMAIN audit : audit[i] \in Entry
    BY DEF ReqTypeOK
  <2> QED BY <2>1 DEF Entry
<1>6. IdsInOrder' /\ SettledOnce'
  BY <1>1, <1>5 DEF IdsInOrder, SettledOnce, ReqTypeOK
<1> QED BY <1>3, <1>4, <1>6

\* The clock moves timers only.
LEMMA TickStep == ASSUME ReqInv, Tick PROVE ReqInv'
<1> USE DEF ReqInv
<1>1. UNCHANGED <<boot, chan, pending, nextId, audit>>
  BY DEF Tick
<1>2. /\ task' \in [Tasks -> TaskRecord]
      /\ \A s \in Tasks : /\ task'[s].pc = task[s].pc
                          /\ task'[s].id = task[s].id
                          /\ task'[s].agent = task[s].agent
  <2>1. task' = [s \in Tasks |-> AgeTask(task[s])]
    BY DEF Tick
  <2>2. \A r \in TaskRecord : /\ AgeTask(r) \in TaskRecord
                              /\ AgeTask(r).pc = r.pc
                              /\ AgeTask(r).id = r.id
                              /\ AgeTask(r).agent = r.agent
    BY DEF AgeTask, TaskRecord
  <2> QED BY <2>1, <2>2 DEF ReqTypeOK
<1>3. ReqTypeOK' /\ NoOrphans' /\ FreshChannels'
  BY <1>1, <1>2 DEF ReqTypeOK, NoOrphans, FreshChannels
<1>4. PendingBounded'
  BY <1>1, <1>2, PendingShrinks
<1>5. IdsInOrder' /\ SettledOnce'
  BY <1>1, <1>2 DEF IdsInOrder, SettledOnce, ReqTypeOK
<1> QED BY <1>3, <1>4, <1>5

-----------------------------------------------------------------------------

LEMMA ReqInvInit == ASSUME PermInit PROVE ReqInv
<1> USE DEF PermInit
<1>1. ReqTypeOK
  BY IdleTaskType DEF ReqTypeOK
<1>2. \A t \in Tasks : task[t].pc = "idle"
  BY DEF IdleTask
<1>3. NoOrphans /\ FreshChannels
  BY <1>2 DEF NoOrphans, FreshChannels
<1>4. PendingBounded
  <2>1. \A b \in Agents : PendingOf(b) = {}
    BY DEF PendingOf
  <2>2. Cardinality({}) = 0 /\ 0 <= MaxPending
    BY FS_EmptySet, PermAssumption
  <2>3. \A b \in Agents : Cardinality(PendingOf(b)) = Cardinality({})
    BY <2>1
  <2> QED BY <2>2, <2>3 DEF PendingBounded
<1>5. IdsInOrder /\ SettledOnce
  BY DEF IdsInOrder, SettledOnce
<1> QED BY <1>1, <1>3, <1>4, <1>5 DEF ReqInv

LEMMA ReqInvStep == ASSUME ReqInv, [PermNext]_vars PROVE ReqInv'
<1>1. CASE UNCHANGED <<boot, task, chan, pending, nextId, resolved, audit>>
  BY <1>1 DEF ReqInv, ReqTypeOK, NoOrphans, FreshChannels, PendingBounded, PendingOf,
              IdsInOrder, SettledOnce
<1> QED BY <1>1, StepKinds, AtOnceStep, EnqueueStep, DecidedStep, HandlerStep, RestartStep,
           TickStep

LEMMA RequestsAreInOrder == PermSpec => []ReqInv
BY ReqInvInit, ReqInvStep, PTL DEF PermSpec

\* NoOrphans, for any number of concurrent requests: in the gap between the
\* two critical sections of handle_request_permission no request is lost.
THEOREM NoRequestIsOrphaned == PermSpec => []NoOrphans
<1>1. ReqInv => NoOrphans
  BY DEF ReqInv
<1> QED BY <1>1, RequestsAreInOrder, PTL

\* PendingBounded, for every value of max_pending_per_agent.
THEOREM PendingIsBounded == PermSpec => []PendingBounded
<1>1. ReqInv => PendingBounded
  BY DEF ReqInv
<1> QED BY <1>1, RequestsAreInOrder, PTL

\* SettledOnce, for any number of requests and restarts: decision, late
\* decision and timeout never both reach the audit trail.
THEOREM RequestsAreSettledOnce == PermSpec => []SettledOnce
<1>1. ReqInv => SettledOnce
  BY DEF ReqInv
<1> QED BY <1>1, RequestsAreInOrder, PTL

-----------------------------------------------------------------------------
(* The grants, now with approvals among the steps that create them.        *)

LEMMA PermKeepsGrants == ASSUME ReqInv, GrantInv, [PermNext]_vars PROVE GrantInv'
<1>1. ASSUME NEW t \in Tasks, NEW d \in Durations, Approve(t, d) PROVE GrantInv'
  <2>1. task[t].agent \in Agents /\ task[t].path \in Paths
    BY DEF ReqInv, ReqTypeOK, TaskRecord
  <2>2. /\ InstallGrant(task[t].agent, task[t].path, d)
        /\ UNCHANGED <<enforceMode, registered, fileVars>>
    BY <1>1 DEF Approve
  <2> QED BY <2>1, <2>2, InstallKeepsInv
<1>2. ASSUME GrantStep \/ RestartGrants \/ TickGrants \/ UNCHANGED grantVars PROVE GrantInv'
  BY <1>2, GrantInvStep DEF GrantNext
<1>3. ASSUME NEW t \in Tasks, NEW a \in Agents, NEW p \in Paths,
             \/ Refuse(t, a, p) \/ AutoDenied(t, a, p) \/ AutoApproved(t, a, p)
             \/ RateLimited(t, a, p)
      PROVE  UNCHANGED grantVars
  BY <1>3 DEF Refuse, AutoDenied, AutoApproved, RateLimited
<1>4. ASSUME NEW t \in Tasks, NEW a \in Agents, NEW p \in Paths, NEW j \in Justifications,
             Enqueue(t, a, p, j)
      PROVE  UNCHANGED grantVars
  BY <1>4 DEF Enqueue
<1>5. ASSUME NEW t \in Tasks, NEW d \in Durations, ApproveOverridden(t, d)
      PROVE  UNCHANGED grantVars
  BY <1>5 DEF ApproveOverridden
<1>6. ASSUME NEW t \in Tasks, Deny(t) \/ TimerFires(t) \/ Answered(t) \/ TimedOut(t)
      PROVE  UNCHANGED grantVars
  BY <1>6 DEF Deny, TimerFires, Answered, TimedOut
<1>7. CleanupAccumulator \/ UNCHANGED vars => UNCHANGED grantVars
  BY DEF CleanupAccumulator, vars
<1>8. (Restart => RestartGrants) /\ (Tick => TickGrants)
  BY DEF Restart, Tick
<1> QED BY <1>1, <1>2, <1>3, <1>4, <1>5, <1>6, <1>7, <1>8 DEF PermNext

\* NoLingeringFileAccess holds for the whole workflow: approvals, like
\* grants made by hand, leave no key behind in the kernel's allow maps.
THEOREM ApprovalsLeaveNoAccess == PermSpec => []NoLingeringFileAccess
<1>1. PermInit => GrantInv
  BY GrantInvInit DEF PermInit
<1>2. GrantInv => NoLingeringFileAccess
  BY DEF GrantInv
<1> QED BY <1>1, <1>2, PermKeepsGrants, RequestsAreInOrder, PTL DEF PermSpec

-----------------------------------------------------------------------------
(* Part 3: what is counted, recorded and told.                             *)

\* The part of the state that part 2 leaves out
RestTypeOK ==
    /\ dashboard \in BOOLEAN
    /\ resolved \in Seq(Entry)
    /\ limit \in [Agents -> Limiter]
    /\ accum \in [Agents \X Paths -> Account]

\* How the trail speaks of a request
InTrail(t, what) ==
    \E i \in DOMAIN audit :
        /\ audit[i].id = task[t].id
        /\ audit[i].agent = task[t].agent
        /\ audit[i].path = task[t].path
        /\ audit[i].approved <=> what = "approved"

\* A decision is in the trail from the moment it is in the channel, and
\* stays there once the agent has it.
DecisionsInTrail ==
    \A t \in Tasks, what \in {"approved", "denied"} :
        chan[t] = what \/ task[t].reply = what => InTrail(t, what)

\* In one account: of what was asked for a part was approved, what is older
\* adds to what is newer, and the approvals of a day are within the total.
InBudget(c) ==
    /\ \A n \in 0 .. Day : c.granted[n] <= c.asked[n]
    /\ \A m, n \in 0 .. Day : m <= n => c.granted[m] <= c.granted[n]
    /\ c.granted[Day - 1] <= MaxGrantTotal

AccountsInBudget == \A x \in Agents \X Paths : InBudget(accum[x])

-----------------------------------------------------------------------------
(* The limiter.                                                            *)

\* Requests, decisions and the clock leave a limiter for every agent.
LEMMA LimitStep ==
    ASSUME ReqTypeOK, limit \in [Agents -> Limiter], [PermNext]_vars
    PROVE  limit' \in [Agents -> Limiter]
<1>0. /\ \A a \in Agents : limit[a] \in Limiter /\ EntryOf(limit[a]) \in Limiter
      /\ \A t \in Tasks : task[t].agent \in Agents /\ task[t].path \in Resources
      /\ Paths = Resources
  <2>1. \A t \in Tasks : task[t] \in TaskRecord
    BY DEF ReqTypeOK
  <2>2. \A t \in Tasks : task[t].agent \in Agents /\ task[t].path \in Paths
    BY <2>1 DEF TaskRecord
  <2> QED BY <2>2, EntryType, PermAssumption
<1>1. ASSUME NEW a \in Agents, NEW m \in Limiter, limit' = [limit EXCEPT ![a] = m]
      PROVE  limit' \in [Agents -> Limiter]
  BY <1>1
<1>2. ASSUME NEW t \in Tasks, NEW a \in Agents, NEW p \in Paths, AutoDenied(t, a, p)
      PROVE  limit' \in [Agents -> Limiter]
  <2>1. RecordDenial(RecordRequest(EntryOf(limit[a])), p) \in Limiter
    BY <1>0, RecordRequestType, RecordDenialType
  <2>2. limit' = [limit EXCEPT ![a] = RecordDenial(RecordRequest(EntryOf(limit[a])), p)]
    BY <1>2 DEF AutoDenied
  <2> QED BY <1>1, <2>1, <2>2
<1>3. ASSUME NEW t \in Tasks, NEW a \in Agents, NEW p \in Paths, AutoApproved(t, a, p)
      PROVE  limit' \in [Agents -> Limiter]
  <2>1. RecordApproval(RecordRequest(EntryOf(limit[a]))) \in Limiter
    BY <1>0, RecordRequestType, RecordApprovalType
  <2>2. limit' = [limit EXCEPT ![a] = RecordApproval(RecordRequest(EntryOf(limit[a])))]
    BY <1>3 DEF AutoApproved
  <2> QED BY <1>1, <2>1, <2>2
<1>4. ASSUME NEW t \in Tasks, NEW a \in Agents, NEW p \in Paths,
             RateLimited(t, a, p) \/ \E j \in Justifications : Enqueue(t, a, p, j)
      PROVE  limit' \in [Agents -> Limiter]
  <2> DEFINE m == Refreshed(EntryOf(limit[a]))
  <2>1. m \in Limiter /\ RecordRequest(m) \in Limiter
    BY <1>0, RefreshedType, RecordRequestType
  <2>2. limit' = [limit EXCEPT ![a] = m] \/ limit' = [limit EXCEPT ![a] = RecordRequest(m)]
    BY <1>4 DEF RateLimited, Enqueue
  <2> HIDE DEF m
  <2> QED BY <1>1, <2>1, <2>2
<1>5. ASSUME NEW t \in Tasks,
             \/ \E d \in Durations : Approve(t, d) \/ ApproveOverridden(t, d)
             \/ Deny(t) \/ Answered(t) \/ TimedOut(t)
      PROVE  limit' \in [Agents -> Limiter]
  <2> DEFINE a == task[t].agent
             yes == RecordApproval(EntryOf(limit[a]))
             no == RecordDenial(EntryOf(limit[a]), task[t].path)
  <2>1. yes \in Limiter /\ no \in Limiter /\ a \in Agents
    BY <1>0, RecordDenialType, RecordApprovalType
  <2>2. limit' = [limit EXCEPT ![a] = yes] \/ limit' = [limit EXCEPT ![a] = no]
    BY <1>5 DEF Approve, ApproveOverridden, Deny, Answered, TimedOut
  <2> HIDE DEF a, yes, no
  <2> QED BY <1>1, <2>1, <2>2
<1>6. CASE Restart
  BY <1>6, NewLimiterType DEF Restart
<1>7. CASE Tick
  BY <1>0, <1>7, AgeLimiterType DEF Tick
<1>8. ASSUME \/ \E t \in Tasks, a \in Agents, p \in Paths : Refuse(t, a, p)
             \/ \E t \in Tasks : TimerFires(t)
             \/ CleanupAccumulator
             \/ UNCHANGED permVars
             \/ UNCHANGED vars
      PROVE  limit' \in [Agents -> Limiter]
  BY <1>8 DEF Refuse, TimerFires, CleanupAccumulator, permVars, vars
<1> QED BY <1>2, <1>3, <1>4, <1>5, <1>6, <1>7, <1>8 DEF PermNext

-----------------------------------------------------------------------------
(* The accumulator.                                                        *)

\* The totals of an account that is pruned, grows or ages are totals.
LEMMA SecondsOps ==
    ASSUME NEW f \in Seconds, NEW d \in Nat
    PROVE  Recent(f) \in Seconds /\ Plus(f, d) \in Seconds /\ Aged(f) \in Seconds
<1>1. \A n \in 0 .. Day : f[n] \in Nat
  BY DEF Seconds
<1>2. ASSUME NEW n \in 0 .. Day PROVE f[Least(n, Day - 1)] \in Nat
  <2>1. Least(n, Day - 1) \in 0 .. Day
    BY PermAssumption DEF Least
  <2> QED BY <1>1, <2>1
<1>3. ASSUME NEW n \in 0 .. Day PROVE f[n] + d \in Nat
  BY <1>1
<1>4. ASSUME NEW n \in 0 .. Day
      PROVE  (IF n = Day THEN f[Day] ELSE IF n = 0 THEN 0 ELSE f[n - 1]) \in Nat
  <2>1. Day \in 0 .. Day /\ (n # 0 => n - 1 \in 0 .. Day)
    BY PermAssumption
  <2> QED BY <1>1, <2>1
<1>5. Recent(f) \in Seconds
  BY <1>2 DEF Recent, Seconds
<1>6. Plus(f, d) \in Seconds
  BY <1>3 DEF Plus, Seconds
<1>7. Aged(f) \in Seconds
  BY <1>4 DEF Aged, Seconds
<1> QED BY <1>5, <1>6, <1>7

LEMMA EmptyInBudget ==
    /\ [asked |-> NoSeconds, granted |-> NoSeconds] \in Account
    /\ InBudget([asked |-> NoSeconds, granted |-> NoSeconds])
<1> DEFINE e == [asked |-> NoSeconds, granted |-> NoSeconds]
<1>1. NoSeconds \in Seconds
  BY DEF NoSeconds, Seconds
<1>2. e \in Account
  BY <1>1 DEF Account
<1>3. \A n \in 0 .. Day : e.asked[n] = 0 /\ e.granted[n] = 0
  BY DEF NoSeconds
<1>4. Day - 1 \in 0 .. Day
  BY PermAssumption
<1> HIDE DEF e
<1>5. InBudget(e)
  BY <1>3, <1>4, PermAssumption DEF InBudget
<1> QED BY <1>2, <1>5 DEF e

\* Pruning keeps an account in its budget.
LEMMA PruneBudget ==
    ASSUME NEW c \in Account, InBudget(c)
    PROVE  /\ [asked |-> Recent(c.asked), granted |-> Recent(c.granted)] \in Account
           /\ InBudget([asked |-> Recent(c.asked), granted |-> Recent(c.granted)])
<1>1. c.asked \in Seconds /\ c.granted \in Seconds
  BY DEF Account
<1> DEFINE e == [asked |-> Recent(c.asked), granted |-> Recent(c.granted)]
<1>2. e \in Account
  BY <1>1, SecondsOps DEF Account
<1>3. \A n \in 0 .. Day : Least(n, Day - 1) \in 0 .. Day
  BY PermAssumption DEF Least
<1>4. \A m, n \in 0 .. Day : m <= n => Least(m, Day - 1) <= Least(n, Day - 1)
  BY PermAssumption DEF Least
<1>5. \A n \in 0 .. Day : /\ e.asked[n] = c.asked[Least(n, Day - 1)]
                          /\ e.granted[n] = c.granted[Least(n, Day - 1)]
  BY DEF Recent
<1>6. Day - 1 \in 0 .. Day /\ Least(Day - 1, Day - 1) = Day - 1
  BY PermAssumption DEF Least
<1> HIDE DEF e
<1>7. InBudget(e)
  BY <1>3, <1>4, <1>5, <1>6 DEF InBudget
<1> QED BY <1>2, <1>7 DEF e

\* So does time.
LEMMA AgeBudget ==
    ASSUME NEW c \in Account, InBudget(c)
    PROVE  /\ [asked |-> Aged(c.asked), granted |-> Aged(c.granted)] \in Account
           /\ InBudget([asked |-> Aged(c.asked), granted |-> Aged(c.granted)])
<1>1. /\ c.asked \in [0 .. Day -> Nat] /\ c.granted \in [0 .. Day -> Nat]
      /\ Day \in Nat \ {0}
  BY PermAssumption DEF Account, Seconds
<1> DEFINE e == [asked |-> Aged(c.asked), granted |-> Aged(c.granted)]
<1>2. e \in Account
  BY <1>1, SecondsOps DEF Account, Seconds
<1>3. \A n \in 0 .. Day :
         /\ e.asked[n] = IF n = Day THEN c.asked[Day] ELSE IF n = 0 THEN 0 ELSE c.asked[n - 1]
         /\ e.granted[n] = IF n = Day THEN c.granted[Day]
                           ELSE IF n = 0 THEN 0 ELSE c.granted[n - 1]
  BY DEF Aged
<1> HIDE DEF e
<1>4. \A n \in 0 .. Day : n # 0 => n - 1 \in 0 .. Day
  BY <1>1
<1>5. Day \in 0 .. Day /\ Day - 1 \in 0 .. Day /\ Day - 1 # Day
  BY <1>1
<1>6. ASSUME NEW n \in 0 .. Day PROVE e.granted[n] <= e.asked[n]
  <2>1. CASE n = Day
    BY <1>3, <1>5, <2>1 DEF InBudget
  <2>2. CASE n # Day /\ n = 0
    BY <1>3, <2>2
  <2>3. CASE n # Day /\ n # 0
    BY <1>3, <1>4, <2>3 DEF InBudget
  <2> QED BY <2>1, <2>2, <2>3
<1>7. ASSUME NEW m \in 0 .. Day, NEW n \in 0 .. Day, m <= n
      PROVE  e.granted[m] <= e.granted[n]
  <2>1. \A k \in 0 .. Day : c.granted[k] \in Nat
    BY <1>1
  <2>2. CASE m = n
    <3>1. e.granted \in [0 .. Day -> Nat]
      BY <1>2 DEF Account, Seconds
    <3>2. e.granted[n] \in Nat
      BY <3>1
    <3> QED BY <2>2, <3>2
  <2>3. CASE m # n /\ m = 0
    BY <1>3, <1>4, <1>5, <2>1, <2>3
  <2>4. CASE m # n /\ m # 0 /\ n = Day
    <3>1. m - 1 \in 0 .. Day /\ m - 1 <= Day /\ m # Day
      BY <1>1, <2>4
    <3> QED BY <1>3, <1>5, <2>4, <3>1 DEF InBudget
  <2>5. CASE m # n /\ m # 0 /\ n # Day
    <3>1. m - 1 \in 0 .. Day /\ n - 1 \in 0 .. Day /\ m - 1 <= n - 1 /\ m # Day /\ n # 0
      BY <1>1, <1>7, <2>5
    <3> QED BY <1>3, <2>5, <3>1 DEF InBudget
  <2> QED BY <2>2, <2>3, <2>4, <2>5
<1>8. e.granted[Day - 1] <= MaxGrantTotal
  <2>1. CASE Day = 1
    BY <1>3, <1>5, <2>1, PermAssumption
  <2>2. CASE Day # 1
    <3>1. Day - 1 - 1 \in 0 .. Day /\ Day - 1 - 1 <= Day - 1 /\ Day - 1 # 0
      BY <1>1, <2>2
    <3>2. e.granted[Day - 1] = c.granted[Day - 1 - 1]
      BY <1>3, <1>5, <3>1
    <3>3. c.granted[Day - 1 - 1] <= c.granted[Day - 1] /\ c.granted[Day - 1] <= MaxGrantTotal
      BY <1>5, <3>1 DEF InBudget
    <3> QED BY <1>1, <1>5, <3>1, <3>2, <3>3, PermAssumption
  <2> QED BY <2>1, <2>2
<1>9. InBudget(e)
  BY <1>6, <1>7, <1>8 DEF InBudget
<1> QED BY <1>2, <1>9 DEF e

\* An entry is added: if it is approved, the whole of the day was within the
\* total together with it.
LEMMA SpendBudget ==
    ASSUME NEW c \in Account, InBudget(c), NEW d \in Nat, NEW g \in {0, d},
           g = 0 \/ c.asked[Day - 1] + d <= MaxGrantTotal
    PROVE  /\ [asked |-> Plus(Recent(c.asked), d), granted |-> Plus(Recent(c.granted), g)]
                  \in Account
           /\ InBudget([asked |-> Plus(Recent(c.asked), d),
                        granted |-> Plus(Recent(c.granted), g)])
<1> DEFINE p == [asked |-> Recent(c.asked), granted |-> Recent(c.granted)]
           e == [asked |-> Plus(p.asked, d), granted |-> Plus(p.granted, g)]
<1>1. p \in Account /\ InBudget(p)
  BY PruneBudget
<1>2. Day - 1 \in 0 .. Day /\ Least(Day - 1, Day - 1) = Day - 1
  BY PermAssumption DEF Least
<1>3. p.granted[Day - 1] = c.granted[Day - 1]
  BY <1>2 DEF Recent
<1>4. c.granted[Day - 1] <= c.asked[Day - 1] /\ c.granted[Day - 1] <= MaxGrantTotal
  BY <1>2 DEF InBudget
<1>5. c.granted[Day - 1] \in Nat /\ c.asked[Day - 1] \in Nat /\ g \in Nat
  <2>1. c.granted \in [0 .. Day -> Nat] /\ c.asked \in [0 .. Day -> Nat]
    BY DEF Account, Seconds
  <2>2. g \in Nat
    OBVIOUS
  <2> QED BY <1>2, <2>1, <2>2
<1>6. c.granted[Day - 1] + g <= MaxGrantTotal
  BY <1>4, <1>5, PermAssumption
<1>7. e = [asked |-> Plus(Recent(c.asked), d), granted |-> Plus(Recent(c.granted), g)]
  OBVIOUS
<1> HIDE DEF p
<1>8. p.asked \in Seconds /\ p.granted \in Seconds
  BY <1>1 DEF Account
<1>9. e \in Account
  BY <1>5, <1>8, SecondsOps DEF Account
<1>10. \A n \in 0 .. Day : /\ e.asked[n] = p.asked[n] + d
                           /\ e.granted[n] = p.granted[n] + g
                           /\ p.asked[n] \in Nat /\ p.granted[n] \in Nat
  BY <1>8 DEF Plus, Seconds
<1> HIDE DEF e
<1>11. \A n \in 0 .. Day : e.granted[n] <= e.asked[n]
  BY <1>1, <1>5, <1>10 DEF InBudget
<1>12. \A m, n \in 0 .. Day : m <= n => e.granted[m] <= e.granted[n]
  BY <1>1, <1>5, <1>10 DEF InBudget
<1>13. e.granted[Day - 1] <= MaxGrantTotal
  BY <1>2, <1>3, <1>6, <1>10
<1> QED BY <1>7, <1>9, <1>11, <1>12, <1>13 DEF InBudget

\* Only approvals, the cleanup and time touch the accounts.
LEMMA AccountStep ==
    ASSUME ReqTypeOK, accum \in [Agents \X Paths -> Account], AccountsInBudget, [PermNext]_vars
    PROVE  accum' \in [Agents \X Paths -> Account] /\ AccountsInBudget'
<1> DEFINE X == Agents \X Paths
<1>0. \A x \in X : accum[x] \in Account /\ InBudget(accum[x])
  BY DEF AccountsInBudget
<1>1. ASSUME NEW b, b \in [X -> Account], \A x \in X : InBudget(b[x]), accum' = b
      PROVE  accum' \in [Agents \X Paths -> Account] /\ AccountsInBudget'
  BY <1>1 DEF AccountsInBudget
<1>2. ASSUME NEW t \in Tasks, NEW d \in Durations, Approve(t, d) \/ ApproveOverridden(t, d)
      PROVE  accum' \in [Agents \X Paths -> Account] /\ AccountsInBudget'
  <2>1. task[t].agent \in Agents /\ task[t].path \in Paths
    BY DEF ReqTypeOK, TaskRecord
  <2> DEFINE a == task[t].agent
             p == task[t].path
             x == <<a, p>>
             c == accum[x]
  <2>2. PICK ok \in BOOLEAN : Accumulate(a, p, d, ok) /\ (ok => WithinTotal(a, p, d))
    BY <1>2 DEF Approve, ApproveOverridden
  <2> DEFINE g == IF ok THEN d ELSE 0
             e == [asked |-> Plus(Recent(c.asked), d), granted |-> Plus(Recent(c.granted), g)]
  <2>3. x \in X /\ c \in Account /\ InBudget(c)
    BY <1>0, <2>1
  <2>4. d \in Nat /\ g \in {0, d}
    BY DurationsAssumption
  <2>5. g = 0 \/ c.asked[Day - 1] + d <= MaxGrantTotal
    BY <2>2 DEF WithinTotal
  <2>6. e \in Account /\ InBudget(e)
    <3> HIDE DEF c, g
    <3> QED BY <2>3, <2>4, <2>5, SpendBudget
  <2>7. accum' = [accum EXCEPT ![x] = e]
    BY <2>2 DEF Accumulate
  <2> HIDE DEF e, x
  <2>8. [accum EXCEPT ![x] = e] \in [X -> Account]
    BY <2>6
  <2>9. \A y \in X : InBudget([accum EXCEPT ![x] = e][y])
    BY <1>0, <2>3, <2>6
  <2> QED BY <1>1, <2>7, <2>8, <2>9
<1>3. CASE CleanupAccumulator
  <2> DEFINE b == [x \in X |-> [asked |-> Recent(accum[x].asked),
                                granted |-> Recent(accum[x].granted)]]
  <2>1. accum' = b
    BY <1>3 DEF CleanupAccumulator
  <2>2. b \in [X -> Account] /\ \A x \in X : InBudget(b[x])
    BY <1>0, PruneBudget
  <2> QED BY <1>1, <2>1, <2>2
<1>4. CASE Tick
  <2> DEFINE b == [x \in X |-> [asked |-> Aged(accum[x].asked),
                                granted |-> Aged(accum[x].granted)]]
  <2>1. accum' = b
    BY <1>4 DEF Tick
  <2>2. b \in [X -> Account] /\ \A x \in X : InBudget(b[x])
    BY <1>0, AgeBudget
  <2> QED BY <1>1, <2>1, <2>2
<1>5. CASE Restart
  <2> DEFINE b == [x \in X |-> [asked |-> NoSeconds, granted |-> NoSeconds]]
  <2>1. accum' = b
    BY <1>5 DEF Restart
  <2>2. b \in [X -> Account] /\ \A x \in X : InBudget(b[x])
    BY EmptyInBudget
  <2> QED BY <1>1, <2>1, <2>2
<1>6. ASSUME UNCHANGED accum
      PROVE  accum' \in [Agents \X Paths -> Account] /\ AccountsInBudget'
  BY <1>0, <1>6 DEF AccountsInBudget
<1>7. ASSUME NEW t \in Tasks, NEW a \in Agents, NEW p \in Paths,
             \/ Refuse(t, a, p) \/ AutoDenied(t, a, p) \/ AutoApproved(t, a, p)
             \/ RateLimited(t, a, p)
      PROVE  UNCHANGED accum
  BY <1>7 DEF Refuse, AutoDenied, AutoApproved, RateLimited
<1>8. ASSUME NEW t \in Tasks, NEW a \in Agents, NEW p \in Paths, NEW j \in Justifications,
             Enqueue(t, a, p, j)
      PROVE  UNCHANGED accum
  BY <1>8 DEF Enqueue
<1>9. ASSUME NEW t \in Tasks, Deny(t) \/ TimerFires(t) \/ Answered(t) \/ TimedOut(t)
      PROVE  UNCHANGED accum
  BY <1>9 DEF Deny, TimerFires, Answered, TimedOut
<1>10. UNCHANGED permVars \/ UNCHANGED vars => UNCHANGED accum
  BY DEF permVars, vars
<1> QED BY <1>2, <1>3, <1>4, <1>5, <1>6, <1>7, <1>8, <1>9, <1>10 DEF PermNext

-----------------------------------------------------------------------------
(* The history.                                                            *)

\* HistoryMatchesAudit of any history s, trail u and life b
Made(u, b, j) == u[j].human /\ u[j].boot = b

Places(row, s, u, b) ==
    /\ row \in [DOMAIN s -> DOMAIN u]
    /\ \A k, l \in DOMAIN s : k < l => row[k] < row[l]
    /\ \A k \in DOMAIN s : u[row[k]] = s[k] /\ Made(u, b, row[k])
    /\ \A j \in DOMAIN u : Made(u, b, j) =>
           \/ \E k \in DOMAIN s : row[k] = j
           \/ Len(s) = MaxHistory /\ \A k \in DOMAIN s : j < row[k]

IsHistory(s, u, b) == Len(s) <= MaxHistory /\ \E row : Places(row, s, u, b)

LEMMA HistoryForm ==
    /\ HistoryMatchesAudit <=> IsHistory(resolved, audit, boot)
    /\ HistoryMatchesAudit' <=> IsHistory(resolved', audit', boot')
BY DEF HistoryMatchesAudit, IsHistory, Places, Decision, Made

\* A row that is no decision leaves the history as it is.
LEMMA HistoryKept ==
    ASSUME NEW u \in Seq(Entry), NEW s \in Seq(Entry), NEW b, IsHistory(s, u, b),
           NEW e \in Entry, ~e.human
    PROVE  IsHistory(s, Append(u, e), b)
<1> DEFINE w == Append(u, e)
<1>1. PICK row : Places(row, s, u, b)
  BY DEF IsHistory
<1>2. /\ \A j \in DOMAIN u : j \in DOMAIN w /\ w[j] = u[j]
      /\ \A j \in DOMAIN w : j \in DOMAIN u \/ w[j] = e
  BY AppendProperties
<1> HIDE DEF w
<1>3. \A j \in DOMAIN w : Made(w, b, j) => j \in DOMAIN u /\ Made(u, b, j)
  BY <1>2 DEF Made
<1>4. \A k \in DOMAIN s : row[k] \in DOMAIN u
  BY <1>1 DEF Places
<1>5. row \in [DOMAIN s -> DOMAIN w]
  BY <1>1, <1>2 DEF Places
<1>6. \A k \in DOMAIN s : w[row[k]] = s[k] /\ Made(w, b, row[k])
  BY <1>1, <1>2, <1>4 DEF Places, Made
<1>7. Places(row, s, w, b)
  BY <1>1, <1>3, <1>5, <1>6 DEF Places
<1> QED BY <1>7 DEF IsHistory, w

\* A decision is added to both; the oldest entry goes once the history is
\* full.
LEMMA HistoryGrows ==
    ASSUME NEW u \in Seq(Entry), NEW s \in Seq(Entry), NEW b, IsHistory(s, u, b),
           NEW e \in Entry, e.human, e.boot = b
    PROVE  /\ Trimmed(Append(s, e)) \in Seq(Entry)
           /\ IsHistory(Trimmed(Append(s, e)), Append(u, e), b)
<1> DEFINE n == Len(s)
           z == Len(u) + 1
           r == Append(s, e)
           w == Append(u, e)
<1>1. PICK row : Places(row, s, u, b)
  BY DEF IsHistory
<1>2. n \in Nat /\ n <= MaxHistory /\ MaxHistory \in Nat
  BY PermAssumption DEF IsHistory
<1>3. /\ w \in Seq(Entry) /\ z \in Nat /\ DOMAIN u = 1 .. (z - 1) /\ DOMAIN w = 1 .. z
      /\ w[z] = e /\ \A j \in DOMAIN u : w[j] = u[j]
  BY AppendProperties
<1>4. /\ r \in Seq(Entry) /\ Len(r) = n + 1
      /\ DOMAIN r = 1 .. (n + 1) /\ DOMAIN s = 1 .. n
      /\ r[n + 1] = e /\ \A k \in 1 .. n : r[k] = s[k]
  BY AppendProperties
<1>5. /\ \A j \in DOMAIN u : j \in DOMAIN w /\ j < z
      /\ z \in DOMAIN w
      /\ \A j \in DOMAIN w : j \in DOMAIN u \/ j = z
  BY <1>3
<1>6. Made(w, b, z) /\ \A j \in DOMAIN u : Made(w, b, j) <=> Made(u, b, j)
  BY <1>3 DEF Made
<1>7. /\ \A k \in 1 .. n : row[k] \in DOMAIN u /\ u[row[k]] = s[k] /\ Made(u, b, row[k])
      /\ \A k, l \in 1 .. n : k < l => row[k] < row[l]
  BY <1>1, <1>4 DEF Places
<1>8. \A j \in DOMAIN u : Made(u, b, j) =>
         (\E k \in 1 .. n : row[k] = j) \/ (n = MaxHistory /\ \A k \in 1 .. n : j < row[k])
  BY <1>1, <1>4 DEF Places
<1>9. /\ \A k \in 1 .. (n + 1) : k = n + 1 \/ k \in 1 .. n
      /\ n + 1 \in 1 .. (n + 1)
      /\ \A k \in 1 .. n : k \in 1 .. (n + 1) /\ k # n + 1 /\ k + 1 \in 1 .. (n + 1)
      /\ \A k \in 1 .. n : k = n \/ k + 1 \in 1 .. n
      /\ \A k \in 1 .. n : k = 1 \/ (k - 1 \in 1 .. n /\ (k - 1) + 1 = k)
  BY <1>2
<1> DEFINE longer == [k \in 1 .. (n + 1) |-> IF k = n + 1 THEN z ELSE row[k]]
<1> HIDE DEF n, z, r, w
<1>10. longer[n + 1] = z /\ \A k \in 1 .. n : longer[k] = row[k]
  BY <1>9
<1>11. longer \in [1 .. (n + 1) -> DOMAIN w]
  BY <1>5, <1>7, <1>9
<1> HIDE DEF longer
<1>12. \A k, l \in 1 .. (n + 1) : k < l => longer[k] < longer[l]
  <2> SUFFICES ASSUME NEW k \in 1 .. (n + 1), NEW l \in 1 .. (n + 1), k < l
               PROVE  longer[k] < longer[l]
    OBVIOUS
  <2>1. k \in 1 .. n
    BY <1>2
  <2>2. CASE l = n + 1
    BY <1>5, <1>7, <1>10, <2>1, <2>2
  <2>3. CASE l \in 1 .. n
    BY <1>7, <1>10, <2>1, <2>3
  <2> QED BY <1>9, <2>2, <2>3
<1>13. \A k \in 1 .. (n + 1) : w[longer[k]] = r[k] /\ Made(w, b, longer[k])
  <2> SUFFICES ASSUME NEW k \in 1 .. (n + 1)
               PROVE  w[longer[k]] = r[k] /\ Made(w, b, longer[k])
    OBVIOUS
  <2>1. CASE k = n + 1
    BY <1>3, <1>4, <1>6, <1>10, <2>1
  <2>2. CASE k \in 1 .. n
    BY <1>3, <1>4, <1>6, <1>7, <1>10, <2>2
  <2> QED BY <1>9, <2>1, <2>2
<1>14. CASE n < MaxHistory
  <2>1. Trimmed(r) = r /\ Len(r) <= MaxHistory
    BY <1>2, <1>4, <1>14 DEF Trimmed
  <2>2. ASSUME NEW j \in DOMAIN w, Made(w, b, j)
        PROVE  \E k \in 1 .. (n + 1) : longer[k] = j
    <3>1. CASE j = z
      BY <1>9, <1>10, <3>1
    <3>2. CASE j \in DOMAIN u
      <4>1. PICK k \in 1 .. n : row[k] = j
        BY <1>2, <1>6, <1>8, <1>14, <2>2, <3>2
      <4> QED BY <1>9, <1>10, <4>1
    <3> QED BY <1>5, <3>1, <3>2
  <2>3. Places(longer, r, w, b)
    BY <1>4, <1>11, <1>12, <1>13, <2>2 DEF Places
  <2> QED BY <1>4, <2>1, <2>3 DEF IsHistory, r, w
<1>15. CASE n = MaxHistory
  <2> DEFINE q == SubSeq(r, 2, n + 1)
             later == [k \in 1 .. n |-> longer[k + 1]]
  <2>1. Trimmed(r) = q
    BY <1>2, <1>4, <1>15 DEF Trimmed
  <2>2. /\ q \in Seq(Entry) /\ Len(q) = n /\ DOMAIN q = 1 .. n
        /\ \A k \in 1 .. n : q[k] = r[k + 1]
    BY <1>2, <1>4
  <2>3. later \in [1 .. n -> DOMAIN w] /\ \A k \in 1 .. n : later[k] = longer[k + 1]
    BY <1>9, <1>11
  <2> HIDE DEF later, q
  <2>4. \A k, l \in 1 .. n : k < l => later[k] < later[l]
    <3> SUFFICES ASSUME NEW k \in 1 .. n, NEW l \in 1 .. n, k < l PROVE later[k] < later[l]
      OBVIOUS
    <3>1. k + 1 < l + 1 /\ k + 1 \in 1 .. (n + 1) /\ l + 1 \in 1 .. (n + 1)
      BY <1>2
    <3> QED BY <1>12, <2>3, <3>1
  <2>5. ASSUME NEW k \in 1 .. n PROVE w[later[k]] = q[k] /\ Made(w, b, later[k])
    <3>1. k + 1 \in 1 .. (n + 1)
      BY <1>9
    <3>2. w[longer[k + 1]] = r[k + 1] /\ Made(w, b, longer[k + 1])
      BY <1>13, <3>1
    <3> QED BY <2>2, <2>3, <3>2
  <2>6. ASSUME NEW j \in DOMAIN w, Made(w, b, j)
        PROVE  (\E k \in 1 .. n : later[k] = j) \/ \A k \in 1 .. n : j < later[k]
    <3>1. CASE j = z
      <4>1. CASE n = 0
        BY <4>1
      <4>2. CASE n # 0
        <5>1. n \in 1 .. n
          BY <1>2, <4>2
        <5> QED BY <1>10, <2>3, <3>1, <5>1
      <4> QED BY <4>1, <4>2
    <3>2. ASSUME NEW k \in 1 .. n, row[k] = j
          PROVE  (\E l \in 1 .. n : later[l] = j) \/ \A l \in 1 .. n : j < later[l]
      <4>1. longer[k] = j
        BY <1>10, <3>2
      <4>2. CASE k = 1
        <5>1. \A l \in 1 .. n : 1 < l + 1 /\ l + 1 \in 1 .. (n + 1) /\ 1 \in 1 .. (n + 1)
          BY <1>2
        <5>2. \A l \in 1 .. n : longer[1] < longer[l + 1]
          BY <1>12, <5>1
        <5> QED BY <2>3, <4>1, <4>2, <5>2
      <4>3. CASE k - 1 \in 1 .. n /\ (k - 1) + 1 = k
        <5>1. later[k - 1] = j
          BY <2>3, <4>1, <4>3
        <5> QED BY <4>3, <5>1
      <4> QED BY <1>9, <4>2, <4>3
    <3>3. ASSUME j \in DOMAIN u, \A k \in 1 .. n : j < row[k], NEW k \in 1 .. n
          PROVE  j < later[k]
      <4>1. CASE k + 1 \in 1 .. n
        BY <1>10, <2>3, <3>3, <4>1
      <4>2. CASE k = n
        BY <1>5, <1>10, <2>3, <3>3, <4>2
      <4> QED BY <1>9, <4>1, <4>2
    <3>4. j \in DOMAIN u => Made(u, b, j)
      BY <1>6, <2>6
    <3> QED BY <1>5, <1>8, <3>1, <3>2, <3>3, <3>4
  <2>7. Places(later, q, w, b)
    BY <1>15, <2>2, <2>3, <2>4, <2>5, <2>6 DEF Places
  <2> QED BY <1>2, <2>1, <2>2, <2>7 DEF IsHistory, r, w
<1>16. n < MaxHistory \/ n = MaxHistory
  BY <1>2
<1> QED BY <1>14, <1>15, <1>16

\* Every step keeps the history, decisions and timeouts by adding to it.
LEMMA HistoryStep ==
    ASSUME ReqInv, resolved \in Seq(Entry), HistoryMatchesAudit, [PermNext]_vars
    PROVE  resolved' \in Seq(Entry) /\ HistoryMatchesAudit'
<1>0. ReqTypeOK /\ audit \in Seq(Entry) /\ IsHistory(resolved, audit, boot)
  BY HistoryForm DEF ReqInv, ReqTypeOK
<1>1. ASSUME NEW t \in Tasks, NEW ok \in BOOLEAN, Record(t, ok), UNCHANGED boot
      PROVE  resolved' \in Seq(Entry) /\ HistoryMatchesAudit'
  <2> DEFINE e == EntryFor(task[t].id, task[t].agent, task[t].path, ok, TRUE)
  <2>1. resolved' = Trimmed(Append(resolved, e)) /\ audit' = Append(audit, e)
    BY <1>1 DEF Record
  <2>2. e \in Entry /\ e.human /\ e.boot = boot
    BY <1>0 DEF EntryFor, Entry, ReqTypeOK, TaskRecord
  <2> HIDE DEF e
  <2>3. resolved' \in Seq(Entry) /\ IsHistory(resolved', audit', boot)
    BY <1>0, <2>1, <2>2, HistoryGrows
  <2> QED BY <1>1, <2>3, HistoryForm
<1>2. ASSUME UNCHANGED <<boot, resolved, audit>>
      PROVE  resolved' \in Seq(Entry) /\ HistoryMatchesAudit'
  BY <1>0, <1>2, HistoryForm
<1>3. CASE AnsweredAtOnce
  <2>1. UNCHANGED <<boot, resolved>>
    BY <1>3 DEF AnsweredAtOnce
  <2>2. PICK a \in Agents, p \in Paths :
           audit' = audit \/ \E ok \in BOOLEAN : AuditAtOnce(a, p, ok)
    BY <1>3 DEF AnsweredAtOnce
  <2>3. ASSUME NEW ok \in BOOLEAN, AuditAtOnce(a, p, ok) PROVE HistoryMatchesAudit'
    <3> DEFINE e == EntryFor(nextId, a, p, ok, FALSE)
    <3>1. audit' = Append(audit, e)
      BY <2>3 DEF AuditAtOnce
    <3>2. e \in Entry /\ ~e.human
      BY <1>0 DEF EntryFor, Entry, ReqTypeOK
    <3> HIDE DEF e
    <3>3. IsHistory(resolved, audit', boot)
      BY <1>0, <3>1, <3>2, HistoryKept
    <3> QED BY <2>1, <3>3, HistoryForm
  <2> QED BY <1>2, <2>1, <2>2, <2>3
<1>4. ASSUME NEW t \in Tasks, NEW a \in Agents, NEW p \in Paths, NEW j, Enqueue(t, a, p, j)
      PROVE  UNCHANGED <<boot, resolved, audit>>
  BY <1>4 DEF Enqueue
<1>5. ASSUME NEW t \in Tasks, Decided(t)
      PROVE  resolved' \in Seq(Entry) /\ HistoryMatchesAudit'
  BY <1>1, <1>5 DEF Decided
<1>6. ASSUME NEW t \in Tasks, TimerFires(t) \/ Answered(t) \/ TimedOut(t)
      PROVE  resolved' \in Seq(Entry) /\ HistoryMatchesAudit'
  <2>1. CASE TimerFires(t) \/ Answered(t)
    BY <1>2, <2>1 DEF TimerFires, Answered
  <2>2. CASE TimedOut(t)
    <3>1. UNCHANGED boot /\ (Record(t, FALSE) \/ UNCHANGED <<resolved, audit>>)
      BY <2>2 DEF TimedOut
    <3> QED BY <1>1, <1>2, <3>1
  <2> QED BY <1>6, <2>1, <2>2
<1>7. CASE Restart
  <2>1. resolved' = <<>> /\ audit' = audit /\ boot' = boot + 1
    BY <1>7 DEF Restart
  <2>2. ASSUME NEW j \in DOMAIN audit PROVE audit[j].boot # boot + 1
    <3>1. audit[j].boot <= boot /\ audit[j] \in Entry /\ boot \in Nat
      BY DEF ReqInv, ReqTypeOK, IdsInOrder
    <3>2. audit[j].boot \in Nat
      BY <3>1 DEF Entry
    <3> QED BY <3>1, <3>2
  <2>3. <<>> \in Seq(Entry) /\ Len(<<>>) = 0 /\ DOMAIN <<>> = {}
    OBVIOUS
  <2> DEFINE nowhere == [k \in {} |-> 0]
  <2>4. nowhere \in [{} -> DOMAIN audit]
    OBVIOUS
  <2>5. Places(nowhere, <<>>, audit, boot + 1)
    BY <2>2, <2>3, <2>4 DEF Places, Made
  <2>6. IsHistory(<<>>, audit, boot + 1)
    BY <2>3, <2>5, PermAssumption DEF IsHistory
  <2> QED BY <2>1, <2>3, <2>6, HistoryForm
<1>8. CASE Tick
  BY <1>2, <1>8 DEF Tick
<1>9. CASE UNCHANGED <<boot, task, chan, pending, nextId, resolved, audit>>
  BY <1>2, <1>9
<1> QED BY <1>2, <1>3, <1>4, <1>5, <1>6, <1>7, <1>8, <1>9, StepKinds

-----------------------------------------------------------------------------
(* The answers.                                                            *)

\* What the trail says of a request it goes on saying.
LEMMA TrailStays ==
    ASSUME ReqTypeOK, NEW t \in Tasks, NEW what, InTrail(t, what),
           \/ audit' = audit
           \/ \E e \in Entry : audit' = Append(audit, e),
           task'[t].id = task[t].id, task'[t].agent = task[t].agent, task'[t].path = task[t].path
    PROVE  InTrail(t, what)'
<1>1. \A j \in DOMAIN audit : j \in DOMAIN audit' /\ audit'[j] = audit[j]
  BY AppendProperties DEF ReqTypeOK
<1> QED BY <1>1 DEF InTrail

\* Every step keeps what was decided in the trail.
LEMMA AnswerStep ==
    ASSUME ReqInv, DecisionsInTrail, [PermNext]_vars
    PROVE  DecisionsInTrail'
<1>0. /\ ReqTypeOK
      /\ \A t \in Tasks : task[t] \in TaskRecord
  BY DEF ReqInv, ReqTypeOK
<1> DEFINE words == {"approved", "denied"}
\* A request that gets no decision in the step, and keeps what it asked for
<1>1. ASSUME NEW t \in Tasks, NEW what \in words,
             chan'[t] = what => chan[t] = what,
             task'[t].reply = what => chan[t] = what \/ task[t].reply = what,
             task'[t].id = task[t].id, task'[t].agent = task[t].agent,
             task'[t].path = task[t].path,
             \/ audit' = audit
             \/ \E e \in Entry : audit' = Append(audit, e)
      PROVE  chan'[t] = what \/ task'[t].reply = what => InTrail(t, what)'
  <2>1. chan'[t] = what \/ task'[t].reply = what => InTrail(t, what)
    BY <1>1 DEF DecisionsInTrail
  <2> QED BY <1>0, <1>1, <2>1, TrailStays
<1>2. CASE AnsweredAtOnce
  <2>1. PICK t \in Tasks, a \in Agents, p \in Paths :
           /\ Idle(t)
           /\ \E what \in {"error", "refused", "autodenied", "autoapproved", "limited"} :
                  Answer(t, a, p, what)
           /\ UNCHANGED <<audit, nextId>> \/ \E ok \in BOOLEAN : AuditAtOnce(a, p, ok)
    BY <1>2 DEF AnsweredAtOnce
  <2>2. UNCHANGED <<boot, chan>>
    BY <1>2 DEF AnsweredAtOnce
  <2>3. audit' = audit \/ \E e \in Entry : audit' = Append(audit, e)
    <3>1. ASSUME NEW ok \in BOOLEAN, AuditAtOnce(a, p, ok)
          PROVE  \E e \in Entry : audit' = Append(audit, e)
      <4>1. EntryFor(nextId, a, p, ok, FALSE) \in Entry
        BY <1>0 DEF EntryFor, Entry, ReqTypeOK
      <4> QED BY <3>1, <4>1 DEF AuditAtOnce
    <3> QED BY <2>1, <3>1
  <2>4. PICK what \in {"error", "refused", "autodenied", "autoapproved", "limited"} :
           Answer(t, a, p, what)
    BY <2>1
  <2> DEFINE r == [IdleTask EXCEPT !.pc = "done", !.agent = a, !.path = p, !.reply = what]
  <2>5. r.reply = what /\ task' = [task EXCEPT ![t] = r]
    BY <2>4, IdleTaskType DEF TaskRecord, Answer
  <2> HIDE DEF r
  <2>6. task'[t].reply \notin words /\ \A s \in Tasks \ {t} : task'[s] = task[s]
    BY <1>0, <2>5 DEF ReqTypeOK
  <2>7. chan[t] \notin words
    BY <2>1 DEF ReqInv, FreshChannels, Idle
  <2>8. ASSUME NEW s \in Tasks, NEW w \in words
        PROVE  chan'[s] = w \/ task'[s].reply = w => InTrail(s, w)'
    <3>1. CASE s = t
      BY <2>2, <2>6, <2>7, <3>1
    <3>2. CASE s # t
      BY <1>1, <2>2, <2>3, <2>6, <3>2
    <3> QED BY <3>1, <3>2
  <2> QED BY <2>8 DEF DecisionsInTrail
<1>3. ASSUME NEW t \in Tasks, NEW a \in Agents, NEW p \in Paths, NEW j, Enqueue(t, a, p, j)
      PROVE  DecisionsInTrail'
  <2> DEFINE r == [pc |-> "waiting", agent |-> a, path |-> p, id |-> nextId,
                   left |-> TimeoutFor(Refreshed(EntryOf(limit[a])), p, j), reply |-> "none"]
  <2>1. Idle(t) /\ task' = [task EXCEPT ![t] = r] /\ UNCHANGED <<chan, audit>>
    BY <1>3 DEF Enqueue, NeedsDecision, Admitted
  <2>2. r.reply \notin words
    OBVIOUS
  <2> HIDE DEF r
  <2>3. task'[t].reply \notin words /\ \A s \in Tasks \ {t} : task'[s] = task[s]
    BY <1>0, <2>1, <2>2 DEF ReqTypeOK
  <2>4. chan[t] \notin words
    BY <2>1 DEF ReqInv, FreshChannels, Idle
  <2>5. ASSUME NEW s \in Tasks, NEW w \in words
        PROVE  chan'[s] = w \/ task'[s].reply = w => InTrail(s, w)'
    <3>1. CASE s = t
      BY <2>1, <2>3, <2>4, <3>1
    <3>2. CASE s # t
      BY <1>1, <2>1, <2>3, <3>2
    <3> QED BY <3>1, <3>2
  <2> QED BY <2>5 DEF DecisionsInTrail
<1>4. ASSUME NEW t \in Tasks, NEW ok \in BOOLEAN, Record(t, ok)
      PROVE  \E e \in Entry : /\ audit' = Append(audit, e)
                              /\ e.id = task[t].id /\ e.agent = task[t].agent
                              /\ e.path = task[t].path /\ e.approved = ok
  <2> DEFINE e == EntryFor(task[t].id, task[t].agent, task[t].path, ok, TRUE)
  <2>1. audit' = Append(audit, e)
    BY <1>4 DEF Record
  <2>2. /\ e \in Entry /\ e.id = task[t].id /\ e.agent = task[t].agent
        /\ e.path = task[t].path /\ e.approved = ok
    BY <1>0 DEF EntryFor, Entry, ReqTypeOK, TaskRecord
  <2> HIDE DEF e
  <2> QED BY <2>1, <2>2
<1>5. ASSUME NEW t \in Tasks, Decided(t) PROVE DecisionsInTrail'
  <2>1. PICK ok \in BOOLEAN : Record(t, ok) /\ Send(t, IF ok THEN "approved" ELSE "denied")
    BY <1>5 DEF Decided
  <2>2. UNCHANGED task
    BY <1>5 DEF Decided
  <2>3. PICK e \in Entry : /\ audit' = Append(audit, e)
                          /\ e.id = task[t].id /\ e.agent = task[t].agent
                          /\ e.path = task[t].path /\ e.approved = ok
    BY <1>4, <2>1
  <2>4. /\ \A s \in Tasks \ {t} : chan'[s] = chan[s]
        /\ chan'[t] = chan[t] \/ chan'[t] = IF ok THEN "approved" ELSE "denied"
    BY <1>0, <2>1 DEF Send, ReqTypeOK
  <2>5. InTrail(t, IF ok THEN "approved" ELSE "denied")'
    <3>1. Len(audit) + 1 \in DOMAIN audit' /\ audit'[Len(audit) + 1] = e
      BY <1>0, <2>3, AppendProperties DEF ReqTypeOK
    <3> QED BY <2>2, <2>3, <3>1 DEF InTrail
  <2>6. ASSUME NEW s \in Tasks, NEW w \in words
        PROVE  chan'[s] = w \/ task'[s].reply = w => InTrail(s, w)'
    <3>1. CASE s = t /\ w = IF ok THEN "approved" ELSE "denied"
      BY <2>5, <3>1
    <3>2. CASE ~(s = t /\ w = IF ok THEN "approved" ELSE "denied")
      <4>1. chan'[s] = w => chan[s] = w
        BY <2>4, <3>2
      <4> QED BY <1>1, <2>2, <2>3, <4>1
    <3> QED BY <3>1, <3>2
  <2> QED BY <2>6 DEF DecisionsInTrail
<1>6. ASSUME NEW t \in Tasks, TimerFires(t) \/ Answered(t) \/ TimedOut(t)
      PROVE  DecisionsInTrail'
  <2>1. chan' = chan
    BY <1>6 DEF TimerFires, Answered, TimedOut
  <2>2. audit' = audit \/ \E e \in Entry : audit' = Append(audit, e)
    <3>1. audit' = audit \/ Record(t, FALSE)
      BY <1>6 DEF TimerFires, Answered, TimedOut
    <3> QED BY <1>4, <3>1
  <2>3. \/ task' = [task EXCEPT ![t].pc = "late"]
        \/ \E what \in {chan[t], "timeout"} :
               task' = [task EXCEPT ![t].pc = "done", ![t].reply = what]
    BY <1>6 DEF TimerFires, Answered, TimedOut, Done
  <2>4. /\ \A s \in Tasks \ {t} : task'[s] = task[s]
        /\ task'[t].id = task[t].id /\ task'[t].agent = task[t].agent
        /\ task'[t].path = task[t].path
        /\ task'[t].reply \in {task[t].reply, chan[t], "timeout"}
    BY <1>0, <2>3 DEF ReqTypeOK, TaskRecord
  <2>5. ASSUME NEW s \in Tasks, NEW w \in words
        PROVE  chan'[s] = w \/ task'[s].reply = w => InTrail(s, w)'
    <3>1. CASE s = t
      BY <1>1, <2>1, <2>2, <2>4, <3>1
    <3>2. CASE s # t
      BY <1>1, <2>1, <2>2, <2>4, <3>2
    <3> QED BY <3>1, <3>2
  <2> QED BY <2>5 DEF DecisionsInTrail
<1>7. CASE Restart
  <2>1. audit' = audit /\ \A s \in Tasks : chan'[s] \notin words
    BY <1>7 DEF Restart
  <2>2. \A s \in Tasks : task'[s] = IF task[s].pc \in {"waiting", "late"}
                                    THEN [task[s] EXCEPT !.pc = "done", !.reply = "lost"]
                                    ELSE task[s]
    BY <1>7 DEF Restart
  <2>3. \A s \in Tasks : /\ task'[s].id = task[s].id /\ task'[s].agent = task[s].agent
                         /\ task'[s].path = task[s].path
                         /\ task'[s].reply \in {"lost", task[s].reply}
    BY <1>0, <2>2 DEF TaskRecord
  <2>4. ASSUME NEW s \in Tasks, NEW w \in words
        PROVE  chan'[s] = w \/ task'[s].reply = w => InTrail(s, w)'
    BY <1>1, <2>1, <2>3
  <2> QED BY <2>4 DEF DecisionsInTrail
<1>8. CASE Tick
  <2>1. UNCHANGED <<chan, audit>> /\ \A s \in Tasks : task'[s] = AgeTask(task[s])
    BY <1>8 DEF Tick
  <2>2. \A r \in TaskRecord : /\ AgeTask(r).id = r.id /\ AgeTask(r).agent = r.agent
                              /\ AgeTask(r).path = r.path /\ AgeTask(r).reply = r.reply
    BY DEF AgeTask, TaskRecord
  <2>3. ASSUME NEW s \in Tasks, NEW w \in words
        PROVE  chan'[s] = w \/ task'[s].reply = w => InTrail(s, w)'
    BY <1>0, <1>1, <2>1, <2>2
  <2> QED BY <2>3 DEF DecisionsInTrail
<1>9. CASE UNCHANGED <<boot, task, chan, pending, nextId, resolved, audit>>
  <2>1. ASSUME NEW s \in Tasks, NEW w \in words
        PROVE  chan'[s] = w \/ task'[s].reply = w => InTrail(s, w)'
    BY <1>1, <1>9
  <2> QED BY <2>1 DEF DecisionsInTrail
<1> QED BY <1>2, <1>3, <1>5, <1>6, <1>7, <1>8, <1>9, StepKinds

-----------------------------------------------------------------------------

\* The inductive invariant of the whole workflow
PermInv ==
    /\ ReqInv
    /\ GrantInv
    /\ RestTypeOK
    /\ DecisionsInTrail
    /\ HistoryMatchesAudit
    /\ AccountsInBudget

LEMMA PermInvInit == ASSUME PermInit PROVE PermInv
<1> USE DEF PermInit
<1>1. ReqInv /\ GrantInv
  BY ReqInvInit, GrantInvInit
<1>2. RestTypeOK
  <2>1. limit \in [Agents -> Limiter]
    BY NewLimiterType
  <2>2. accum \in [Agents \X Paths -> Account]
    BY EmptyInBudget
  <2> QED BY <2>1, <2>2 DEF RestTypeOK
<1>3. AccountsInBudget
  BY EmptyInBudget DEF AccountsInBudget
<1>4. DecisionsInTrail
  <2>1. \A t \in Tasks : task[t].reply = "none"
    BY DEF IdleTask
  <2> QED BY <2>1 DEF DecisionsInTrail
<1>5. HistoryMatchesAudit
  <2>1. <<>> \in Seq(Entry) /\ Len(<<>>) = 0 /\ DOMAIN <<>> = {}
    OBVIOUS
  <2> DEFINE nowhere == [k \in {} |-> 0]
  <2>2. nowhere \in [{} -> {}]
    OBVIOUS
  <2>3. Places(nowhere, <<>>, <<>>, boot)
    BY <2>1, <2>2 DEF Places
  <2>4. IsHistory(<<>>, <<>>, boot)
    BY <2>1, <2>3, PermAssumption DEF IsHistory
  <2> QED BY <2>4, HistoryForm
<1> QED BY <1>1, <1>2, <1>3, <1>4, <1>5 DEF PermInv

LEMMA PermInvStep == ASSUME PermInv, [PermNext]_vars PROVE PermInv'
<1> USE DEF PermInv
<1>1. ReqInv' /\ GrantInv'
  BY ReqInvStep, PermKeepsGrants
<1>2. ReqTypeOK
  BY DEF ReqInv
<1>3. limit' \in [Agents -> Limiter]
  BY <1>2, LimitStep DEF RestTypeOK
<1>4. accum' \in [Agents \X Paths -> Account] /\ AccountsInBudget'
  BY <1>2, AccountStep DEF RestTypeOK
<1>5. resolved' \in Seq(Entry) /\ HistoryMatchesAudit'
  BY HistoryStep DEF RestTypeOK
<1>6. dashboard' \in BOOLEAN
  <2>1. Restart => dashboard' \in BOOLEAN
    BY DEF Restart
  <2>2. ASSUME NEW t \in Tasks, NEW a \in Agents, NEW p \in Paths,
               \/ Refuse(t, a, p) \/ AutoDenied(t, a, p) \/ AutoApproved(t, a, p)
               \/ RateLimited(t, a, p)
        PROVE  UNCHANGED dashboard
    BY <2>2 DEF Refuse, AutoDenied, AutoApproved, RateLimited
  <2>3. ASSUME NEW t \in Tasks, NEW a \in Agents, NEW p \in Paths, NEW j \in Justifications,
               Enqueue(t, a, p, j)
        PROVE  UNCHANGED dashboard
    BY <2>3 DEF Enqueue
  <2>4. ASSUME NEW t \in Tasks, NEW d \in Durations, Approve(t, d) \/ ApproveOverridden(t, d)
        PROVE  UNCHANGED dashboard
    BY <2>4 DEF Approve, ApproveOverridden
  <2>5. ASSUME NEW t \in Tasks, Deny(t) \/ TimerFires(t) \/ Answered(t) \/ TimedOut(t)
        PROVE  UNCHANGED dashboard
    BY <2>5 DEF Deny, TimerFires, Answered, TimedOut
  <2>6. CleanupAccumulator \/ Tick \/ UNCHANGED permVars \/ UNCHANGED vars => UNCHANGED dashboard
    BY DEF CleanupAccumulator, Tick, permVars, vars
  <2> QED BY <2>1, <2>2, <2>3, <2>4, <2>5, <2>6 DEF PermNext, RestTypeOK
<1>7. DecisionsInTrail'
  BY AnswerStep
<1> QED BY <1>1, <1>3, <1>4, <1>5, <1>6, <1>7 DEF RestTypeOK

LEMMA PermInvHolds == PermSpec => []PermInv
BY PermInvInit, PermInvStep, PTL DEF PermSpec

\* PermTypeOK: every request, channel, limiter, account and row is well
\* formed, for any number of requests, agents and resources.
THEOREM PermTypeCorrect == PermSpec => []PermTypeOK
<1>1. PermInv => PermTypeOK
  BY DEF PermInv, ReqInv, ReqTypeOK, RestTypeOK, GrantInv, PermTypeOK
<1> QED BY <1>1, PermInvHolds, PTL

\* HistoryMatchesAudit, for every length of the history: what the dashboard
\* shows as resolved is the end of what the database keeps.
THEOREM HistoryIsTheEndOfTheTrail == PermSpec => []HistoryMatchesAudit
<1>1. PermInv => HistoryMatchesAudit
  BY DEF PermInv
<1> QED BY <1>1, PermInvHolds, PTL

\* AnswerMatchesAudit: resolve_permission and the waiting handler never mix
\* up two requests, and an override reaches agent and trail alike.
THEOREM AgentsAreToldWhatIsRecorded == PermSpec => []AnswerMatchesAudit
<1>1. PermInv => AnswerMatchesAudit
  BY DEF PermInv, DecisionsInTrail, InTrail, AnswerMatchesAudit
<1> QED BY <1>1, PermInvHolds, PTL

\* BudgetRespected: record_and_check keeps the approvals of a day within
\* max_grant_total_secs, for every total, duration and length of the day.
THEOREM GrantsStayInBudget == PermSpec => []BudgetRespected
<1>1. PermInv => BudgetRespected
  BY DEF PermInv, RestTypeOK, AccountsInBudget, InBudget, BudgetRespected
<1> QED BY <1>1, PermInvHolds, PTL

-----------------------------------------------------------------------------
(* Part 4: the workflow implements the ledger of requests.                 *)

Active(t) == task[t].pc \in {"waiting", "late"}

\* Requests under way have different ids, all given out by this daemon, and
\* nothing was said to their agents yet.
ActiveInOrder ==
    /\ \A t \in Tasks : Active(t) => task[t].id < nextId
    /\ \A s, t \in Tasks : Active(s) /\ Active(t) /\ task[s].id = task[t].id => s = t
    /\ \A t \in Tasks : task[t].pc # "done" => task[t].reply = "none"

\* The inductive invariant of the refinement
LedgerInv == ReqInv /\ ActiveInOrder

-----------------------------------------------------------------------------
(* The invariant.                                                          *)

LEMMA ActiveInit == ASSUME PermInit PROVE ActiveInOrder
<1>1. \A t \in Tasks : task[t].pc = "idle" /\ task[t].reply = "none"
  BY DEF PermInit, IdleTask
<1> QED BY <1>1 DEF ActiveInOrder, Active

\* Where no request becomes active and the answers stay with the handlers
\* that are done, the order is kept.
LEMMA ActiveKept ==
    ASSUME ActiveInOrder, ReqTypeOK, nextId' \in Nat, nextId <= nextId',
           \A s \in Tasks : /\ task'[s].id = task[s].id \/ ~Active(s)'
                            /\ Active(s)' => Active(s)
                            /\ task'[s].pc # "done" => task'[s].reply = "none"
    PROVE  ActiveInOrder'
<1>1. \A s \in Tasks : task[s].id \in Nat
  BY DEF ReqTypeOK, TaskRecord
<1>2. nextId \in Nat
  BY DEF ReqTypeOK
<1> QED BY <1>1, <1>2 DEF ActiveInOrder

LEMMA ActiveStep == ASSUME LedgerInv, [PermNext]_vars PROVE ActiveInOrder'
<1> USE DEF LedgerInv
<1>0. nextId \in Nat /\ ReqTypeOK
  BY DEF ReqInv, ReqTypeOK
<1>1. CASE AnsweredAtOnce
  <2>1. PICK t \in Tasks, a \in Agents, p \in Paths :
           /\ \E what \in {"error", "refused", "autodenied", "autoapproved", "limited"} :
                  Answer(t, a, p, what)
           /\ UNCHANGED <<audit, nextId>> \/ \E ok \in BOOLEAN : AuditAtOnce(a, p, ok)
    BY <1>1 DEF AnsweredAtOnce
  <2>2. nextId' \in Nat /\ nextId <= nextId'
    <3>1. nextId' = nextId \/ nextId' = nextId + 1
      BY <2>1 DEF AuditAtOnce
    <3> QED BY <1>0, <3>1
  <2>3. PICK what \in {"error", "refused", "autodenied", "autoapproved", "limited"} :
           Answer(t, a, p, what)
    BY <2>1
  <2> DEFINE r == [IdleTask EXCEPT !.pc = "done", !.agent = a, !.path = p, !.reply = what]
  <2>4. r.pc = "done"
    BY IdleTaskType DEF TaskRecord
  <2>5. task' = [task EXCEPT ![t] = r]
    BY <2>3 DEF Answer
  <2> HIDE DEF r
  <2>6. task'[t].pc = "done" /\ \A s \in Tasks \ {t} : task'[s] = task[s]
    BY <1>0, <2>4, <2>5 DEF ReqTypeOK
  <2> QED BY <1>0, <2>2, <2>6, ActiveKept DEF Active, ActiveInOrder
<1>2. ASSUME NEW t \in Tasks, NEW a \in Agents, NEW p \in Paths, NEW j \in Justifications,
             Enqueue(t, a, p, j)
      PROVE  ActiveInOrder'
  <2> DEFINE r == [pc |-> "waiting", agent |-> a, path |-> p, id |-> nextId,
                   left |-> TimeoutFor(Refreshed(EntryOf(limit[a])), p, j), reply |-> "none"]
  <2>1. task' = [task EXCEPT ![t] = r] /\ nextId' = nextId + 1
    BY <1>2 DEF Enqueue
  <2>2. r.id = nextId /\ r.reply = "none" /\ r.pc = "waiting"
    OBVIOUS
  <2> HIDE DEF r
  <2>3. /\ task'[t].id = nextId /\ task'[t].reply = "none"
        /\ \A s \in Tasks \ {t} : task'[s] = task[s]
    BY <1>0, <2>1, <2>2 DEF ReqTypeOK
  <2>4. \A s \in Tasks : task[s].id \in Nat
    BY <1>0 DEF ReqTypeOK, TaskRecord
  <2>5. \A s \in Tasks : Active(s)' => s = t \/ (Active(s) /\ task'[s].id = task[s].id)
    BY <2>3 DEF Active
  <2>6. \A s \in Tasks : Active(s)' => task'[s].id < nextId'
    BY <1>0, <2>1, <2>3, <2>4, <2>5 DEF ActiveInOrder
  <2>7. \A s \in Tasks : Active(s)' /\ s # t => task'[s].id < task'[t].id
    BY <1>0, <2>3, <2>4, <2>5 DEF ActiveInOrder
  <2>8. ASSUME NEW s \in Tasks, NEW u \in Tasks, Active(s)', Active(u)', task'[s].id = task'[u].id
        PROVE  s = u
    <3>1. \A q \in Tasks : task'[q].id \in Nat
      BY <1>0, <2>3, <2>4
    <3>2. CASE s = t \/ u = t
      BY <2>7, <2>8, <3>1, <3>2
    <3>3. CASE s # t /\ u # t
      BY <2>3, <2>5, <2>8, <3>3 DEF ActiveInOrder
    <3> QED BY <3>2, <3>3
  <2>9. \A s \in Tasks : task'[s].pc # "done" => task'[s].reply = "none"
    BY <2>3 DEF ActiveInOrder
  <2> QED BY <2>6, <2>8, <2>9 DEF ActiveInOrder
<1>3. ASSUME NEW t \in Tasks, Decided(t) PROVE ActiveInOrder'
  BY <1>3 DEF Decided, ActiveInOrder, Active
<1>4. ASSUME NEW t \in Tasks, TimerFires(t) \/ Answered(t) \/ TimedOut(t) PROVE ActiveInOrder'
  <2>1. nextId' = nextId
    BY <1>4 DEF TimerFires, Answered, TimedOut
  <2>2. \/ /\ task' = [task EXCEPT ![t].pc = "late"]
           /\ task[t].pc = "waiting"
        \/ \E what : task' = [task EXCEPT ![t].pc = "done", ![t].reply = what]
    BY <1>4 DEF TimerFires, TimerDue, Answered, TimedOut, Done
  <2>3. /\ \A s \in Tasks \ {t} : task'[s] = task[s]
        /\ task'[t].id = task[t].id
        /\ task'[t].pc = "done" \/ (Active(t) /\ task'[t].reply = task[t].reply)
    BY <1>0, <2>2 DEF ReqTypeOK, TaskRecord, Active
  <2> QED BY <1>0, <2>1, <2>3, ActiveKept DEF Active, ActiveInOrder
<1>5. CASE Restart
  <2>1. \A s \in Tasks : task'[s] = IF Active(s)
                                    THEN [task[s] EXCEPT !.pc = "done", !.reply = "lost"]
                                    ELSE task[s]
    BY <1>5 DEF Restart, Active
  <2>2. \A s \in Tasks : task'[s].pc = "done" \/ (~Active(s) /\ task'[s] = task[s])
    BY <1>0, <2>1 DEF ReqTypeOK, TaskRecord
  <2> QED BY <2>2 DEF ActiveInOrder, Active
<1>6. CASE Tick
  <2>1. \A s \in Tasks : /\ task'[s].pc = task[s].pc
                         /\ task'[s].id = task[s].id
                         /\ task'[s].reply = task[s].reply
    <3>1. \A s \in Tasks : task'[s] = AgeTask(task[s])
      BY <1>6 DEF Tick
    <3>2. \A r \in TaskRecord : /\ AgeTask(r).pc = r.pc
                                /\ AgeTask(r).id = r.id
                                /\ AgeTask(r).reply = r.reply
      BY DEF AgeTask, TaskRecord
    <3> QED BY <1>0, <3>1, <3>2 DEF ReqTypeOK
  <2>2. nextId' = nextId
    BY <1>6 DEF Tick
  <2> QED BY <2>1, <2>2 DEF ActiveInOrder, Active
<1>7. CASE UNCHANGED <<boot, task, chan, pending, nextId, resolved, audit>>
  BY <1>7 DEF ActiveInOrder, Active
<1> QED BY <1>1, <1>2, <1>3, <1>4, <1>5, <1>6, <1>7, StepKinds

LEMMA LedgerInvHolds == PermSpec => []LedgerInv
<1>1. PermInit => LedgerInv
  BY ReqInvInit, ActiveInit DEF LedgerInv
<1>2. LedgerInv /\ [PermNext]_vars => LedgerInv'
  BY ReqInvStep, ActiveStep DEF LedgerInv
<1> QED BY <1>1, <1>2, PTL DEF PermSpec

-----------------------------------------------------------------------------
(* What the steps do to the ledger.                                        *)

\* A step that moves one request and leaves the others alone, seen from the
\* ledger.
LEMMA OneMoves ==
    ASSUME NEW t \in Tasks, NEW x, NEW y,
           \A u \in Tasks \ {t} : StateOf(u)' = StateOf(u) /\ AnswerOf(u)' = AnswerOf(u),
           StateOf(t)' = x, AnswerOf(t)' = y
    PROVE  /\ LedgerState' = [LedgerState EXCEPT ![t] = x]
           /\ LedgerAnswer' = [LedgerAnswer EXCEPT ![t] = y]
BY DEF LedgerState, LedgerAnswer

LEMMA NoneMoves ==
    ASSUME \A u \in Tasks : StateOf(u)' = StateOf(u) /\ AnswerOf(u)' = AnswerOf(u)
    PROVE  LedgerState' = LedgerState /\ LedgerAnswer' = LedgerAnswer
BY DEF LedgerState, LedgerAnswer

\* A row under another id says nothing of request i; the first row under its
\* id says how it was settled.
LEMMA TrailRow ==
    ASSUME ReqTypeOK, NEW e \in Entry, audit' = Append(audit, e), UNCHANGED boot,
           e.boot = boot, NEW i
    PROVE  /\ e.id # i => (ApprovedInTrail(i)' <=> ApprovedInTrail(i))
           /\ e.id = i /\ ~ApprovedInTrail(i) => (ApprovedInTrail(i)' <=> e.approved)
<1>1. /\ \A k \in DOMAIN audit' : (k \in DOMAIN audit /\ audit'[k] = audit[k])
                                     \/ (k = Len(audit) + 1 /\ audit'[k] = e)
      /\ \A k \in DOMAIN audit : k \in DOMAIN audit' /\ audit'[k] = audit[k]
      /\ Len(audit) + 1 \in DOMAIN audit' /\ audit'[Len(audit) + 1] = e
  BY AppendProperties DEF ReqTypeOK
<1>2. ASSUME e.id # i PROVE ApprovedInTrail(i)' <=> ApprovedInTrail(i)
  BY <1>1, <1>2 DEF ApprovedInTrail
<1>3. ASSUME e.id = i, ~ApprovedInTrail(i) PROVE ApprovedInTrail(i)' <=> e.approved
  <2>1. ApprovedInTrail(i)' => e.approved
    BY <1>1, <1>3 DEF ApprovedInTrail
  <2>2. e.approved => ApprovedInTrail(i)'
    BY <1>1, <1>3 DEF ApprovedInTrail
  <2> QED BY <2>1, <2>2
<1> QED BY <1>2, <1>3

\* A request whose handler, channel and place on the list stay as they are
\* keeps its state, unless a row is written about it.
LEMMA Untouched ==
    ASSUME ReqTypeOK, NEW u \in Tasks, UNCHANGED boot, chan'[u] = chan[u],
           task'[u].pc = task[u].pc, task'[u].id = task[u].id, task'[u].reply = task[u].reply,
           u \in pending' <=> u \in pending,
           Active(u) /\ u \notin pending =>
               \A i : i = task[u].id => (ApprovedInTrail(i)' <=> ApprovedInTrail(i))
    PROVE  StateOf(u)' = StateOf(u) /\ AnswerOf(u)' = AnswerOf(u)
<1>1. AnswerOf(u)' = AnswerOf(u)
  BY DEF AnswerOf
<1>2. CASE Active(u) /\ u \notin pending
  <2>1. PICK i : i = task[u].id
    OBVIOUS
  <2>2. ApprovedInTrail(i)' <=> ApprovedInTrail(i)
    BY <1>2, <2>1
  <2>3. Settlement(u)' = Settlement(u)
    BY <2>1, <2>2 DEF Settlement, ApprovedInTrail
  <2> QED BY <1>1, <1>2, <2>3 DEF StateOf
<1>3. CASE ~(Active(u) /\ u \notin pending)
  <2>1. task[u].pc \in {"idle", "waiting", "late", "done"}
    BY DEF ReqTypeOK, TaskRecord
  <2> QED BY <1>1, <1>3, <2>1 DEF StateOf, Active
<1> QED BY <1>1, <1>2, <1>3

LEMMA TrailSame ==
    ASSUME UNCHANGED <<audit, boot>>, NEW i
    PROVE  ApprovedInTrail(i)' <=> ApprovedInTrail(i)
BY DEF ApprovedInTrail

\* A request that is answered on the spot is dismissed.
LEMMA AtOnceIsDismiss ==
    ASSUME LedgerInv, AnsweredAtOnce
    PROVE  \E t \in Tasks, what \in {"yes", "no"} : Ledger!Dismiss(t, what)
<1> USE DEF LedgerInv
<1>0. ReqTypeOK /\ nextId \in Nat
  BY DEF ReqInv, ReqTypeOK
<1>1. PICK t \in Tasks, a \in Agents, p \in Paths :
         /\ Idle(t)
         /\ \E what \in {"error", "refused", "autodenied", "autoapproved", "limited"} :
                Answer(t, a, p, what)
         /\ UNCHANGED <<audit, nextId>> \/ \E ok \in BOOLEAN : AuditAtOnce(a, p, ok)
  BY DEF AnsweredAtOnce
<1>2. UNCHANGED <<boot, chan, pending>>
  BY DEF AnsweredAtOnce
<1>3. PICK what \in {"error", "refused", "autodenied", "autoapproved", "limited"} :
         Answer(t, a, p, what)
  BY <1>1
<1> DEFINE r == [IdleTask EXCEPT !.pc = "done", !.agent = a, !.path = p, !.reply = what]
<1>4. r.pc = "done" /\ r.reply = what
  BY IdleTaskType DEF TaskRecord
<1>5. task' = [task EXCEPT ![t] = r]
  BY <1>3 DEF Answer
<1> HIDE DEF r
<1>6. /\ task'[t].pc = "done" /\ task'[t].reply = what
      /\ \A u \in Tasks \ {t} : task'[u] = task[u]
  BY <1>0, <1>4, <1>5 DEF ReqTypeOK
<1>7. ASSUME NEW u \in Tasks, Active(u), NEW i, i = task[u].id
      PROVE  ApprovedInTrail(i)' <=> ApprovedInTrail(i)
  <2>1. CASE UNCHANGED <<audit, nextId>>
    BY <1>2, <2>1, TrailSame
  <2>2. ASSUME NEW ok \in BOOLEAN, AuditAtOnce(a, p, ok)
        PROVE  ApprovedInTrail(i)' <=> ApprovedInTrail(i)
    <3> DEFINE e == EntryFor(nextId, a, p, ok, FALSE)
    <3>1. audit' = Append(audit, e)
      BY <2>2 DEF AuditAtOnce
    <3>2. e \in Entry /\ e.boot = boot /\ e.id = nextId
      BY <1>0 DEF EntryFor, Entry, ReqTypeOK
    <3> HIDE DEF e
    <3>3. i < nextId /\ i \in Nat
      BY <1>0, <1>7 DEF ActiveInOrder, ReqTypeOK, TaskRecord
    <3> QED BY <1>0, <1>2, <3>1, <3>2, <3>3, TrailRow
  <2> QED BY <1>1, <2>1, <2>2
<1>8. \A u \in Tasks \ {t} : StateOf(u)' = StateOf(u) /\ AnswerOf(u)' = AnswerOf(u)
  BY <1>0, <1>2, <1>6, <1>7, Untouched
<1>9. StateOf(t) = "new" /\ StateOf(t)' = "closed"
  BY <1>1, <1>6 DEF StateOf, Idle
<1>10. AnswerOf(t)' \in {"yes", "no"}
  BY <1>6 DEF AnswerOf
<1>11. /\ LedgerState' = [LedgerState EXCEPT ![t] = "closed"]
       /\ LedgerAnswer' = [LedgerAnswer EXCEPT ![t] = AnswerOf(t)']
  BY <1>8, <1>9, OneMoves
<1>12. LedgerState[t] = "new"
  BY <1>9 DEF LedgerState
<1> QED BY <1>10, <1>11, <1>12 DEF Ledger!Dismiss

\* Queueing a request opens it.
LEMMA EnqueueIsAsk ==
    ASSUME LedgerInv, NEW t \in Tasks, NEW a \in Agents, NEW p \in Paths, NEW j,
           Enqueue(t, a, p, j)
    PROVE  Ledger!Ask(t)
<1> USE DEF LedgerInv
<1>0. ReqTypeOK
  BY DEF ReqInv
<1> DEFINE r == [pc |-> "waiting", agent |-> a, path |-> p, id |-> nextId,
                 left |-> TimeoutFor(Refreshed(EntryOf(limit[a])), p, j), reply |-> "none"]
<1>1. /\ Idle(t)
      /\ task' = [task EXCEPT ![t] = r]
      /\ pending' = pending \cup {t}
      /\ UNCHANGED <<boot, chan, audit>>
  BY DEF Enqueue, NeedsDecision, Admitted
<1>2. r.pc = "waiting" /\ r.reply = "none"
  OBVIOUS
<1> HIDE DEF r
<1>3. /\ task'[t].pc = "waiting" /\ task'[t].reply = "none"
      /\ \A u \in Tasks \ {t} : task'[u] = task[u]
  BY <1>0, <1>1, <1>2 DEF ReqTypeOK
<1>4. \A u \in Tasks \ {t} : StateOf(u)' = StateOf(u) /\ AnswerOf(u)' = AnswerOf(u)
  BY <1>0, <1>1, <1>3, TrailSame, Untouched
<1>5. StateOf(t) = "new" /\ StateOf(t)' = "open"
  BY <1>1, <1>3 DEF StateOf, Idle
<1>6. AnswerOf(t)' = AnswerOf(t)
  <2>1. task[t].reply = "none"
    BY <1>1 DEF ActiveInOrder, Idle
  <2> QED BY <1>3, <2>1 DEF AnswerOf
<1>7. LedgerState' = [LedgerState EXCEPT ![t] = "open"] /\ LedgerState[t] = "new"
  BY <1>4, <1>5, OneMoves DEF LedgerState
<1>8. LedgerAnswer' = LedgerAnswer
  BY <1>4, <1>6 DEF LedgerAnswer
<1> QED BY <1>7, <1>8 DEF Ledger!Ask

\* The row written about a listed request changes what the trail says of no
\* other request under way, and is the first about this one.
LEMMA RowIsItsOwn ==
    ASSUME LedgerInv, NEW t \in pending, NEW ok \in BOOLEAN, Record(t, ok), UNCHANGED boot
    PROVE  /\ \A u \in Tasks \ {t} : Active(u) =>
                  \A i : i = task[u].id => (ApprovedInTrail(i)' <=> ApprovedInTrail(i))
           /\ \A i : i = task[t].id => (ApprovedInTrail(i)' <=> ok)
<1> USE DEF LedgerInv
<1>0. ReqTypeOK /\ t \in Tasks /\ Active(t)
  BY DEF ReqInv, ReqTypeOK, NoOrphans, Active
<1> DEFINE e == EntryFor(task[t].id, task[t].agent, task[t].path, ok, TRUE)
<1>1. audit' = Append(audit, e)
  BY DEF Record
<1>2. e \in Entry /\ e.boot = boot /\ e.id = task[t].id /\ e.approved = ok
  BY <1>0 DEF EntryFor, Entry, ReqTypeOK, TaskRecord
<1> HIDE DEF e
<1>3. ASSUME NEW u \in Tasks, u # t, Active(u), NEW i, i = task[u].id
      PROVE  ApprovedInTrail(i)' <=> ApprovedInTrail(i)
  <2>1. e.id # i
    BY <1>0, <1>2, <1>3 DEF ActiveInOrder
  <2> QED BY <1>0, <1>1, <1>2, <2>1, TrailRow
<1>4. ASSUME NEW i, i = task[t].id
      PROVE  ApprovedInTrail(i)' <=> ok
  <2>1. ~ApprovedInTrail(i)
    BY <1>4 DEF ApprovedInTrail, ReqInv, IdsInOrder
  <2> QED BY <1>0, <1>1, <1>2, <1>4, <2>1, TrailRow
<1> QED BY <1>3, <1>4

\* A person's decision settles the request, whether or not its handler
\* still listens.
LEMMA DecidedIsSettle ==
    ASSUME LedgerInv, NEW t \in Tasks, Decided(t)
    PROVE  \E how \in {"approved", "denied"} : Ledger!Settle(t, how)
<1> USE DEF LedgerInv
<1>0. ReqTypeOK
  BY DEF ReqInv
<1>1. /\ t \in pending
      /\ pending' = pending \ {t}
      /\ UNCHANGED <<boot, task, nextId>>
  BY DEF Decided
<1>2. PICK ok \in BOOLEAN : Record(t, ok) /\ Send(t, IF ok THEN "approved" ELSE "denied")
  BY DEF Decided
<1>3. PICK what \in {"approved", "denied"} : Send(t, what)
  BY <1>2
<1>4. /\ \A u \in Tasks \ {t} : chan'[u] = chan[u]
      /\ task[t].pc = "waiting" => chan'[t] = what
  BY <1>0, <1>3 DEF Send, ReqTypeOK
<1>5. \A u \in Tasks \ {t} : StateOf(u)' = StateOf(u) /\ AnswerOf(u)' = AnswerOf(u)
  BY <1>0, <1>1, <1>2, <1>4, RowIsItsOwn, Untouched
<1>6. task[t].pc \in {"waiting", "late"}
  BY <1>1 DEF ReqInv, NoOrphans
<1>7. StateOf(t) = "open"
  BY <1>1, <1>6 DEF StateOf
<1>8. StateOf(t)' \in {"approved", "denied"}
  <2>1. StateOf(t)' = Settlement(t)'
    BY <1>1, <1>6 DEF StateOf
  <2>2. CASE task[t].pc = "waiting"
    BY <1>1, <1>4, <2>1, <2>2 DEF Settlement
  <2>3. CASE task[t].pc # "waiting"
    BY <1>1, <2>1, <2>3 DEF Settlement
  <2> QED BY <2>2, <2>3
<1>9. AnswerOf(t)' = AnswerOf(t)
  BY <1>1 DEF AnswerOf
<1>10. LedgerState' = [LedgerState EXCEPT ![t] = StateOf(t)'] /\ LedgerState[t] = "open"
  BY <1>5, <1>7, OneMoves DEF LedgerState
<1>11. LedgerAnswer' = LedgerAnswer
  BY <1>5, <1>9 DEF LedgerAnswer
<1> QED BY <1>8, <1>10, <1>11 DEF Ledger!Settle

\* The handler's steps after the wait: the timer alone changes nothing the
\* ledger sees, an answer closes a settled request, a timeout closes one
\* that is open, or settled in the meantime, with a no.
LEMMA HandlerCloses ==
    ASSUME LedgerInv, NEW t \in Tasks, TimerFires(t) \/ Answered(t) \/ TimedOut(t)
    PROVE  \/ \E what \in {"yes", "no"} : Ledger!Close(t, what)
           \/ Ledger!Expire(t)
           \/ UNCHANGED Ledger!ledgerVars
<1> USE DEF LedgerInv
<1>0. ReqTypeOK
  BY DEF ReqInv
<1>1. UNCHANGED <<boot, chan, nextId>>
  BY DEF TimerFires, Answered, TimedOut
<1>2. ASSUME TimerFires(t) PROVE UNCHANGED Ledger!ledgerVars
  <2>1. /\ TimerDue(t)
        /\ task' = [task EXCEPT ![t].pc = "late"]
        /\ UNCHANGED <<pending, audit>>
    BY <1>2 DEF TimerFires
  <2>2. /\ \A u \in Tasks \ {t} : task'[u] = task[u]
        /\ task'[t].pc = "late" /\ task'[t].reply = task[t].reply
    BY <1>0, <2>1 DEF ReqTypeOK, TaskRecord
  <2>3. t \in pending /\ task[t].pc = "waiting"
    BY <2>1 DEF ReqInv, NoOrphans, TimerDue
  <2>4. StateOf(t)' = StateOf(t) /\ AnswerOf(t)' = AnswerOf(t)
    BY <2>1, <2>2, <2>3 DEF StateOf, AnswerOf
  <2>5. \A u \in Tasks \ {t} : StateOf(u)' = StateOf(u) /\ AnswerOf(u)' = AnswerOf(u)
    BY <1>0, <1>1, <2>1, <2>2, TrailSame, Untouched
  <2> QED BY <2>4, <2>5, NoneMoves DEF Ledger!ledgerVars
<1>3. ASSUME NEW what \in {"approved", "denied", "timeout"}, Done(t, what)
      PROVE  /\ \A u \in Tasks \ {t} : task'[u] = task[u]
             /\ StateOf(t)' = "closed"
             /\ AnswerOf(t)' = IF what = "approved" THEN "yes" ELSE "no"
  <2>1. /\ \A u \in Tasks \ {t} : task'[u] = task[u]
        /\ task'[t].pc = "done" /\ task'[t].reply = what
    BY <1>0, <1>3 DEF Done, ReqTypeOK, TaskRecord
  <2> QED BY <2>1 DEF StateOf, AnswerOf
<1>4. ASSUME Answered(t) PROVE \E what \in {"yes", "no"} : Ledger!Close(t, what)
  <2>1. /\ task[t].pc = "waiting" /\ chan[t] \in {"approved", "denied"}
        /\ Done(t, chan[t])
        /\ UNCHANGED <<pending, audit>>
    BY <1>0, <1>4 DEF Answered, ReqTypeOK
  <2>2. t \notin pending
    BY <2>1 DEF ReqInv, NoOrphans
  <2>3. StateOf(t) = chan[t]
    BY <2>1, <2>2 DEF StateOf, Settlement
  <2>4. \A u \in Tasks \ {t} : StateOf(u)' = StateOf(u) /\ AnswerOf(u)' = AnswerOf(u)
    BY <1>0, <1>1, <1>3, <2>1, TrailSame, Untouched
  <2>5. PICK y \in {"yes", "no"} : y = AnswerOf(t)' /\ (y = "yes" => chan[t] = "approved")
    BY <1>3, <2>1
  <2>6. /\ LedgerState' = [LedgerState EXCEPT ![t] = "closed"]
        /\ LedgerAnswer' = [LedgerAnswer EXCEPT ![t] = y]
    BY <1>3, <2>1, <2>4, <2>5, OneMoves
  <2>7. LedgerState[t] = chan[t]
    BY <2>3 DEF LedgerState
  <2> QED BY <2>1, <2>5, <2>6, <2>7 DEF Ledger!Close
<1>5. ASSUME TimedOut(t) PROVE Ledger!Close(t, "no") \/ Ledger!Expire(t)
  <2>1. /\ task[t].pc = "late" /\ Done(t, "timeout")
        /\ pending' = pending \ {t}
        /\ IF t \in pending THEN Record(t, FALSE) ELSE UNCHANGED <<resolved, audit>>
    BY <1>5 DEF TimedOut, Removed, Listed
  <2>2. \A u \in Tasks \ {t} : StateOf(u)' = StateOf(u) /\ AnswerOf(u)' = AnswerOf(u)
    <3>1. CASE t \in pending
      BY <1>0, <1>1, <1>3, <2>1, <3>1, RowIsItsOwn, Untouched
    <3>2. CASE t \notin pending
      BY <1>0, <1>1, <1>3, <2>1, <3>2, TrailSame, Untouched
    <3> QED BY <3>1, <3>2
  <2>3. /\ LedgerState' = [LedgerState EXCEPT ![t] = "closed"]
        /\ LedgerAnswer' = [LedgerAnswer EXCEPT ![t] = "no"]
    BY <1>3, <2>1, <2>2, OneMoves
  <2>4. StateOf(t) \in {"open", "approved", "denied"}
    BY <2>1 DEF StateOf, Settlement
  <2>5. LedgerState[t] \in {"open", "approved", "denied"}
    BY <2>4 DEF LedgerState
  <2> QED BY <2>3, <2>5 DEF Ledger!Close, Ledger!Expire
<1> QED BY <1>2, <1>4, <1>5

\* A restart closes what is under way, unanswered.
LEMMA RestartLoses == ASSUME LedgerInv, Restart PROVE Ledger!LoseAll
<1> USE DEF LedgerInv
<1>0. ReqTypeOK
  BY DEF ReqInv
<1>1. ASSUME NEW u \in Tasks
      PROVE  /\ StateOf(u)' = IF StateOf(u) = "new" THEN "new" ELSE "closed"
             /\ AnswerOf(u)' = AnswerOf(u)
  <2>1. task[u] \in TaskRecord
    BY <1>0 DEF ReqTypeOK
  <2>2. task[u].pc \in {"idle", "waiting", "late", "done"}
    BY <2>1 DEF TaskRecord
  <2>3. CASE Active(u)
    <3>1. task'[u] = [task[u] EXCEPT !.pc = "done", !.reply = "lost"]
      BY <2>3 DEF Restart, Active
    <3>2. task'[u].pc = "done" /\ task'[u].reply = "lost"
      BY <2>1, <3>1 DEF TaskRecord
    <3>3. task[u].reply = "none"
      BY <2>3 DEF Active, ActiveInOrder
    <3>4. StateOf(u) # "new"
      <4>1. chan[u] # "new"
        BY <1>0 DEF ReqTypeOK
      <4> QED BY <2>3, <4>1 DEF StateOf, Settlement, Active
    <3>5. StateOf(u)' = "closed" /\ AnswerOf(u)' = AnswerOf(u)
      BY <3>2, <3>3 DEF StateOf, AnswerOf
    <3> QED BY <3>4, <3>5
  <2>4. CASE ~Active(u)
    <3>1. task'[u] = task[u]
      BY <2>4 DEF Restart, Active
    <3> QED BY <2>2, <2>4, <3>1 DEF StateOf, AnswerOf, Active
  <2> QED BY <2>3, <2>4
<1> QED BY <1>1 DEF Ledger!LoseAll, LedgerState, LedgerAnswer

\* The clock, and what happens to grants and rules, is no business of the
\* ledger.
LEMMA TickIsSilent == ASSUME LedgerInv, Tick PROVE UNCHANGED Ledger!ledgerVars
<1>0. ReqTypeOK
  BY DEF LedgerInv, ReqInv
<1>1. UNCHANGED <<boot, chan, pending, audit>>
  BY DEF Tick
<1>2. \A u \in Tasks : /\ task'[u].pc = task[u].pc
                       /\ task'[u].id = task[u].id
                       /\ task'[u].reply = task[u].reply
  <2>1. \A u \in Tasks : task'[u] = AgeTask(task[u])
    BY DEF Tick
  <2>2. \A r \in TaskRecord : /\ AgeTask(r).pc = r.pc
                              /\ AgeTask(r).id = r.id
                              /\ AgeTask(r).reply = r.reply
    BY DEF AgeTask, TaskRecord
  <2> QED BY <1>0, <2>1, <2>2 DEF ReqTypeOK
<1>3. \A u \in Tasks : StateOf(u)' = StateOf(u) /\ AnswerOf(u)' = AnswerOf(u)
  BY <1>0, <1>1, <1>2, TrailSame, Untouched
<1> QED BY <1>3, NoneMoves DEF Ledger!ledgerVars

LEMMA LedgerStep ==
    ASSUME LedgerInv, [PermNext]_vars
    PROVE  [Ledger!LedgerNext]_(Ledger!ledgerVars)
<1>1. CASE UNCHANGED <<boot, task, chan, pending, nextId, resolved, audit>>
  <2>1. ReqTypeOK
    BY DEF LedgerInv, ReqInv
  <2>2. \A u \in Tasks : StateOf(u)' = StateOf(u) /\ AnswerOf(u)' = AnswerOf(u)
    BY <1>1, <2>1, TrailSame, Untouched
  <2> QED BY <2>2, NoneMoves DEF Ledger!ledgerVars
<1>2. CASE AnsweredAtOnce
  BY <1>2, AtOnceIsDismiss DEF Ledger!LedgerNext
<1>3. ASSUME NEW t \in Tasks, NEW a \in Agents, NEW p \in Paths, NEW j \in Justifications,
             Enqueue(t, a, p, j)
      PROVE  Ledger!LedgerNext
  BY <1>3, EnqueueIsAsk DEF Ledger!LedgerNext
<1>4. ASSUME NEW t \in Tasks, Decided(t) PROVE Ledger!LedgerNext
  BY <1>4, DecidedIsSettle DEF Ledger!LedgerNext
<1>5. ASSUME NEW t \in Tasks, TimerFires(t) \/ Answered(t) \/ TimedOut(t)
      PROVE  Ledger!LedgerNext \/ UNCHANGED Ledger!ledgerVars
  BY <1>5, HandlerCloses DEF Ledger!LedgerNext
<1>6. CASE Restart
  BY <1>6, RestartLoses DEF Ledger!LedgerNext
<1>7. CASE Tick
  BY <1>7, TickIsSilent
<1> QED BY <1>1, <1>2, <1>3, <1>4, <1>5, <1>6, <1>7, StepKinds

\* ImplementsLedger: handle_request_permission and resolve_permission, with
\* their two critical sections, channels, timers and restarts, implement
\* the life cycle of the ledger, for any number of concurrent requests.
THEOREM WorkflowImplementsLedger == PermSpec => ImplementsLedger
<1>1. PermInit => Ledger!LedgerInit
  <2> SUFFICES ASSUME PermInit PROVE Ledger!LedgerInit
    OBVIOUS
  <2>1. \A t \in Tasks : task[t].pc = "idle" /\ task[t].reply = "none"
    BY DEF PermInit, IdleTask
  <2> QED BY <2>1 DEF Ledger!LedgerInit, LedgerState, LedgerAnswer, StateOf, AnswerOf
<1>2. LedgerInv /\ [PermNext]_vars => [Ledger!LedgerNext]_(Ledger!ledgerVars)
  BY LedgerStep
<1> QED BY <1>1, <1>2, LedgerInvHolds, PTL DEF PermSpec, ImplementsLedger, Ledger!LedgerSpec

\* What the agent of a request has been told is never taken back or told again, and a
\* request that a person has settled is not settled another way.
AnswerStands ==
    \A t \in Tasks :
        /\ LedgerAnswer[t] # "none" => LedgerAnswer'[t] = LedgerAnswer[t]
        /\ LedgerState[t] \in {"approved", "denied"} => LedgerState'[t] \in {LedgerState[t], "closed"}
        /\ LedgerState[t] = "denied" => LedgerAnswer'[t] # "yes"

\* In the ledger only closed requests have been answered.
LedgerClosed ==
    /\ Ledger!LedgerTypeOK
    /\ \A t \in Tasks : LedgerAnswer[t] # "none" => LedgerState[t] = "closed"

\* Each step of the ledger closes what it answers and leaves the answers there are.
LEMMA LedgerAnswers == LedgerClosed /\ Ledger!LedgerNext => LedgerClosed' /\ AnswerStands
<1> SUFFICES ASSUME LedgerClosed, Ledger!LedgerNext PROVE LedgerClosed' /\ AnswerStands
  OBVIOUS
<1>1. /\ LedgerState \in [Tasks -> {"new", "open", "approved", "denied", "closed"}]
      /\ LedgerAnswer \in [Tasks -> {"none", "yes", "no"}]
      /\ \A t \in Tasks : LedgerAnswer[t] # "none" => LedgerState[t] = "closed"
  BY DEF LedgerClosed, Ledger!LedgerTypeOK
<1>2. ASSUME NEW t \in Tasks, Ledger!Ask(t) PROVE LedgerClosed' /\ AnswerStands
  BY <1>1, <1>2 DEF Ledger!Ask, LedgerClosed, AnswerStands, Ledger!LedgerTypeOK
<1>3. ASSUME NEW t \in Tasks, NEW what \in {"yes", "no"}, Ledger!Dismiss(t, what)
      PROVE  LedgerClosed' /\ AnswerStands
  BY <1>1, <1>3 DEF Ledger!Dismiss, LedgerClosed, AnswerStands, Ledger!LedgerTypeOK
<1>4. ASSUME NEW t \in Tasks, NEW how \in {"approved", "denied"}, Ledger!Settle(t, how)
      PROVE  LedgerClosed' /\ AnswerStands
  BY <1>1, <1>4 DEF Ledger!Settle, LedgerClosed, AnswerStands, Ledger!LedgerTypeOK
<1>5. ASSUME NEW t \in Tasks, NEW what \in {"yes", "no"}, Ledger!Close(t, what)
      PROVE  LedgerClosed' /\ AnswerStands
  BY <1>1, <1>5 DEF Ledger!Close, LedgerClosed, AnswerStands, Ledger!LedgerTypeOK
<1>6. ASSUME NEW t \in Tasks, Ledger!Expire(t) PROVE LedgerClosed' /\ AnswerStands
  BY <1>1, <1>6 DEF Ledger!Expire, LedgerClosed, AnswerStands, Ledger!LedgerTypeOK
<1>7. CASE Ledger!LoseAll
  BY <1>1, <1>7 DEF Ledger!LoseAll, LedgerClosed, AnswerStands, Ledger!LedgerTypeOK
<1> QED BY <1>2, <1>3, <1>4, <1>5, <1>6, <1>7 DEF Ledger!LedgerNext

\* ANSWERS STAND: whatever other requests, decisions, timers and restarts do, no request
\* is answered twice, and none that a person has denied is answered yes.
THEOREM AnswersStand == PermSpec => [][AnswerStands]_(Ledger!ledgerVars)
<1>1. Ledger!LedgerInit => LedgerClosed
  BY DEF Ledger!LedgerInit, LedgerClosed, Ledger!LedgerTypeOK
<1>2. LedgerClosed /\ [Ledger!LedgerNext]_(Ledger!ledgerVars)
      => LedgerClosed' /\ [AnswerStands]_(Ledger!ledgerVars)
  <2>1. LedgerClosed /\ UNCHANGED Ledger!ledgerVars => LedgerClosed'
    BY DEF LedgerClosed, Ledger!LedgerTypeOK, Ledger!ledgerVars
  <2> QED BY <2>1, LedgerAnswers
<1> QED BY <1>1, <1>2, WorkflowImplementsLedger, PTL DEF ImplementsLedger, Ledger!LedgerSpec

=============================================================================
