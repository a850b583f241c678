------------------------- MODULE KernelHooksProofs -------------------------
(***************************************************************************)
(* A verdict of a tracepoint is carried out, for any number of threads,    *)
(* CPUs, rules and calls and for pending maps of every size, unless it is  *)
(* lost from an overflow slot; and none is lost if the maps hold all       *)
(* threads, or if every thread is alone on its CPU and stays there.        *)
(***************************************************************************)
EXTENDS KernelHooks, FiniteSetTheorems, TLAPS

Hooked(kind) == FirstHook(kind) # "end"

\* A slot holds one thread at most.
OneInSlot == \A h \in Hooks, c \in Cpus : \A s, t \in slot[h][c] : s = t

\* A denied call under way, whose verdict is not lost, still has a hook to pass, and its
\* entry is where that hook will look.
EntryWaitsFor(t) ==
    thread[t].in /\ thread[t].denied /\ Hooked(thread[t].call.kind) /\ held[t] # "lost"
    => /\ thread[t].at # "end"
       /\ held[t] = "map" => t \in pend[MapOf(thread[t].call.kind)]
       /\ held[t] = "slot" => t \in slot[MapOf(thread[t].call.kind)][cpu[t]]

EntryWaits == \A t \in Threads : EntryWaitsFor(t)

\* The inductive invariant
HookInv == TypeOK /\ OneInSlot /\ EntryWaits /\ OnlyLostVerdictsPass

\* The conditions under which no slot is ever taken from a thread or left by it
EntriesAreReachable ==
    \/ Cardinality(Threads) <= Capacity
    \/ /\ Movable = {}
       /\ \A s, t \in Threads : Home[s] = Home[t] => s = t

\* Under them, threads that never move are where they started, and nothing is lost.
NothingIsLost ==
    /\ Movable = {} => cpu = Home
    /\ \A t \in Threads : held[t] # "lost"
    /\ Cardinality(Threads) <= Capacity => \A t \in Threads : held[t] = "map"

-----------------------------------------------------------------------------

\* The maps and the hooks of every kind of call exist.
LEMMA KindsHaveHooks ==
    ASSUME NEW k \in Kinds
    PROVE  /\ MapOf(k) \in Hooks
           /\ FirstHook(k) \in Hooks \cup {"end"}
           /\ \A h : NextHook(k, h) \in {MapOf(k), "end"}
BY DEF Kinds, MapOf, FirstHook, NextHook, Hooks

\* What a tracepoint leaves in the buffer is again an extent.
LEMMA ResidueIsNat ==
    ASSUME NEW c \in Calls, NEW read, NEW old \in Nat
    PROVE  ResidueAfter(c, read, old) \in Nat
<1>1. c.kind \in Kinds /\ Length[c.target] \in Nat /\ Length[c.dest] \in Nat
  BY HooksAssumption
<1> QED BY <1>1 DEF ResidueAfter, Over

\* A map that can hold every thread is never too full for another one.
LEMMA RoomForAll ==
    ASSUME Cardinality(Threads) <= Capacity,
           NEW S \in SUBSET Threads, NEW t \in Threads, t \notin S
    PROVE  Cardinality(S) < Capacity
<1>1. IsFiniteSet(Threads) /\ Capacity \in Nat
  BY HooksAssumption
<1>2. Cardinality(S) \in Nat /\ Cardinality(Threads) \in Nat
  BY <1>1, FS_Subset, FS_CardinalityType
<1>3. Cardinality(S) <= Cardinality(Threads) /\ Cardinality(S) # Cardinality(Threads)
  BY <1>1, FS_Subset
<1> QED BY <1>1, <1>2, <1>3

\* Inserting an entry keeps the types; the entry is then in the map, or in the slot if the
\* map was full.
LEMMA InsertEffect ==
    ASSUME TypeOK, NEW h \in Hooks, NEW t \in Threads, Insert(h, t)
    PROVE  /\ pend' \in [Hooks -> SUBSET Threads]
           /\ slot' \in [Hooks -> [Cpus -> SUBSET Threads]]
           /\ Full(h, t) => slot'[h][cpu[t]] = {t}
           /\ ~Full(h, t) => t \in pend'[h] /\ slot' = slot
           /\ \A g \in Hooks : pend[g] \subseteq pend'[g]
           /\ \A g \in Hooks, c \in Cpus : g # h \/ c # cpu[t] => slot'[g][c] = slot[g][c]
<1>1. pend[h] \in SUBSET Threads /\ cpu[t] \in Cpus
  BY DEF TypeOK
<1>2. CASE t \in pend[h] \/ Cardinality(pend[h]) < Capacity
  <2>1. pend' = [pend EXCEPT ![h] = @ \cup {t}] /\ slot' = slot
    BY <1>2 DEF Insert
  <2>2. pend' \in [Hooks -> SUBSET Threads] /\ slot' \in [Hooks -> [Cpus -> SUBSET Threads]]
    BY <2>1 DEF TypeOK
  <2>3. t \in pend'[h] /\ \A g \in Hooks : pend[g] \subseteq pend'[g]
    BY <2>1 DEF TypeOK
  <2>4. ~Full(h, t)
    <3>1. CASE t \in pend[h]
      BY <3>1 DEF Full
    <3>2. CASE t \notin pend[h]
      <4>1. IsFiniteSet(pend[h])
        BY <1>1, FS_Subset, HooksAssumption
      <4>2. Cardinality(pend[h]) \in Nat /\ Capacity \in Nat
        BY <4>1, FS_CardinalityType, HooksAssumption
      <4> QED BY <1>2, <3>2, <4>2 DEF Full
    <3> QED BY <3>1, <3>2
  <2> QED BY <2>1, <2>2, <2>3, <2>4
<1>3. CASE ~(t \in pend[h] \/ Cardinality(pend[h]) < Capacity)
  <2>1. slot' = [slot EXCEPT ![h][cpu[t]] = {t}] /\ pend' = pend
    BY <1>3 DEF Insert
  <2>2. slot' \in [Hooks -> [Cpus -> SUBSET Threads]] /\ slot'[h][cpu[t]] = {t}
    BY <1>1, <2>1 DEF TypeOK
  <2>3. \A g \in Hooks, c \in Cpus : g # h \/ c # cpu[t] => slot'[g][c] = slot[g][c]
    BY <1>1, <2>1 DEF TypeOK
  <2>4. Full(h, t)
    <3>1. IsFiniteSet(pend[h])
      BY <1>1, FS_Subset, HooksAssumption
    <3>2. Cardinality(pend[h]) \in Nat /\ Capacity \in Nat
      BY <3>1, FS_CardinalityType, HooksAssumption
    <3> QED BY <1>3, <3>2 DEF Full
  <2> QED BY <2>1, <2>2, <2>3, <2>4 DEF TypeOK
<1> QED BY <1>2, <1>3

\* A map that can hold every thread is never full.
LEMMA NeverFull ==
    ASSUME TypeOK, Cardinality(Threads) <= Capacity, NEW h \in Hooks, NEW t \in Threads
    PROVE  ~Full(h, t)
<1>1. pend[h] \in SUBSET Threads
  BY DEF TypeOK
<1>2. t \notin pend[h] => Cardinality(pend[h]) < Capacity
  BY <1>1, RoomForAll
<1>3. Cardinality(pend[h]) \in Nat /\ Capacity \in Nat
  <2>1. IsFiniteSet(pend[h])
    BY <1>1, FS_Subset, HooksAssumption
  <2> QED BY <2>1, FS_CardinalityType, HooksAssumption
<1> QED BY <1>2, <1>3 DEF Full

\* Consuming an entry touches nothing of the threads on other CPUs.
LEMMA ConsumeEffect ==
    ASSUME TypeOK, NEW h \in Hooks, NEW t \in Threads, Consume(h, t)
    PROVE  /\ pend' \in [Hooks -> SUBSET Threads]
           /\ slot' \in [Hooks -> [Cpus -> SUBSET Threads]]
           /\ \A g \in Hooks : pend[g] \ {t} \subseteq pend'[g] /\ pend'[g] \subseteq pend[g]
           /\ \A g \in Hooks, c \in Cpus : c # cpu[t] => slot'[g][c] = slot[g][c]
           /\ \A g \in Hooks, c \in Cpus : slot'[g][c] \subseteq slot[g][c]
<1>1. cpu[t] \in Cpus
  BY DEF TypeOK
<1>2. CASE t \in pend[h]
  <2>1. pend' = [pend EXCEPT ![h] = @ \ {t}] /\ slot' = slot
    BY <1>2 DEF Consume
  <2> QED BY <2>1 DEF TypeOK
<1>3. CASE t \notin pend[h]
  <2>1. slot' = [slot EXCEPT ![h][cpu[t]] = {}] /\ pend' = pend
    BY <1>3 DEF Consume
  <2>2. slot' \in [Hooks -> [Cpus -> SUBSET Threads]]
    BY <1>1, <2>1 DEF TypeOK
  <2>3. \A g \in Hooks, c \in Cpus : c # cpu[t] => slot'[g][c] = slot[g][c]
    BY <1>1, <2>1 DEF TypeOK
  <2>4. \A g \in Hooks, c \in Cpus : slot'[g][c] \subseteq slot[g][c]
    BY <1>1, <2>1 DEF TypeOK
  <2> QED BY <2>1, <2>2, <2>3, <2>4 DEF TypeOK
<1> QED BY <1>2, <1>3

-----------------------------------------------------------------------------

\* A thread has at least one place for an entry.
LEMMA MostEntriesType == MostEntries \in Nat \ {0}
<1>1. Cardinality(Cpus) \in Nat
  BY HooksAssumption, FS_CardinalityType
<1> QED BY <1>1 DEF MostEntries

\* The steps of a call replace the record of its thread by another one.
LEMMA RecordReplaced ==
    ASSUME TypeOK, NEW t \in Threads, NEW r \in ThreadRecord,
           thread' = [thread EXCEPT ![t] = r]
    PROVE  thread' \in [Threads -> ThreadRecord]
<1>1. thread \in [Threads -> ThreadRecord]
  BY DEF TypeOK
<1> QED BY <1>1

\* A call ends by leaving the kernel with a result, and passes a hook by
\* moving on to the next; either keeps the record's type.
LEMMA RecordUpdated ==
    ASSUME NEW r \in ThreadRecord, NEW h \in Hooks \cup {"end"},
           NEW res \in {"passed", "blocked", "failed"}
    PROVE  /\ [r EXCEPT !.in = FALSE, !.result = res] \in ThreadRecord
           /\ [r EXCEPT !.at = h] \in ThreadRecord
<1>1. [r EXCEPT !.in = FALSE, !.result = res] \in ThreadRecord
  BY DEF ThreadRecord
<1>2. [r EXCEPT !.at = h] \in ThreadRecord
  BY DEF ThreadRecord
<1> QED BY <1>1, <1>2

\* A count replaced by another one keeps the type of the counts.
LEMMA OwedReplaced ==
    ASSUME TypeOK, NEW h \in Hooks, NEW t \in Threads, NEW n \in 0..MostEntries,
           owed' = [owed EXCEPT ![h][t] = n]
    PROVE  owed' \in [Hooks -> [Threads -> 0..MostEntries]]
<1> DEFINE N == 0..MostEntries
<1>1. owed \in [Hooks -> [Threads -> N]] /\ n \in N
  BY DEF TypeOK
<1> HIDE DEF N
<1>2. [owed[h] EXCEPT ![t] = n] \in [Threads -> N]
  BY <1>1
<1>3. owed' = [owed EXCEPT ![h] = [owed[h] EXCEPT ![t] = n]]
  BY <1>1
<1>4. owed' \in [Hooks -> [Threads -> N]]
  BY <1>1, <1>2, <1>3
<1> QED BY <1>4 DEF N

\* The types hold at the start.
LEMMA InitType ==
    ASSUME Init, thread \in [Threads -> ThreadRecord]
    PROVE  TypeOK
<1>1. owed \in [Hooks -> [Threads -> 0..MostEntries]]
  <2>1. 0 \in 0..MostEntries
    BY MostEntriesType
  <2> QED BY <2>1 DEF Init
<1> QED BY <1>1, HooksAssumption DEF Init, TypeOK, Places

\* Every step keeps the types: the first half of the inductive step, needed
\* by all the theorems below.
LEMMA TypeStep == TypeOK /\ [Next]_vars => TypeOK'
<1> SUFFICES ASSUME TypeOK, [Next]_vars PROVE TypeOK'
  OBVIOUS
<1> USE DEF TypeOK
<1>1. ASSUME NEW t \in Threads, NEW c \in Calls, NEW read \in SUBSET Arguments(c.kind),
             Enter(t, c, read)
      PROVE  TypeOK'
  <2>1. c.kind \in Kinds
    BY HooksAssumption
  <2>2. MapOf(c.kind) \in Hooks /\ FirstHook(c.kind) \in Hooks \cup {"end"}
    BY <2>1, KindsHaveHooks
  <2>3. thread' \in [Threads -> ThreadRecord]
    <3> DEFINE deny == t \in Enforced /\ Denies(c, read, residue[cpu[t]])
               policy == t \in Enforced /\ Denies(c, read, 0)
               r == [in |-> TRUE, call |-> c, denied |-> deny, policy |-> policy,
                     at |-> FirstHook(c.kind), result |-> "none"]
    <3>1. thread' = [thread EXCEPT ![t] = r]
      BY <1>1 DEF Enter
    <3>2. deny \in BOOLEAN /\ policy \in BOOLEAN
      OBVIOUS
    <3>3. r \in ThreadRecord
      <4> HIDE DEF deny, policy
      <4> QED BY <2>2, <3>2 DEF ThreadRecord
    <3> HIDE DEF r
    <3> QED BY <3>1, <3>3, RecordReplaced
  <2>4. pend' \in [Hooks -> SUBSET Threads] /\ slot' \in [Hooks -> [Cpus -> SUBSET Threads]]
    <3>1. Insert(MapOf(c.kind), t) \/ UNCHANGED <<pend, slot>>
      BY <1>1 DEF Enter
    <3> QED BY <2>2, <3>1, InsertEffect
  <2>5. owed' \in [Hooks -> [Threads -> 0..MostEntries]]
    <3> DEFINE o == owed[MapOf(c.kind)][t]
               n == IF o < MostEntries THEN o + 1 ELSE o
    <3>1. n \in 0..MostEntries
      <4>1. o \in 0..MostEntries
        BY <2>2
      <4> QED BY <4>1, MostEntriesType
    <3>2. owed' = owed \/ owed' = [owed EXCEPT ![MapOf(c.kind)][t] = n]
      BY <1>1 DEF Enter
    <3> HIDE DEF n
    <3> QED BY <2>2, <3>1, <3>2, OwedReplaced
  <2>6. residue' \in [Cpus -> Nat]
    <3>1. cpu[t] \in Cpus /\ residue[cpu[t]] \in Nat
      OBVIOUS
    <3>2. ResidueAfter(c, read, residue[cpu[t]]) \in Nat
      BY <3>1, ResidueIsNat
    <3> QED BY <1>1, <3>1, <3>2 DEF Enter
  <2>7. held' \in [Threads -> Places]
    BY <1>1 DEF Enter, NoteHeld, Places
  <2> QED BY <1>1, <2>3, <2>4, <2>5, <2>6, <2>7 DEF Enter
<1>2. ASSUME NEW t \in Threads, Block(t) PROVE TypeOK'
  <2>1. thread[t].at \in Hooks
    BY <1>2 DEF Block, ThreadRecord
  <2>2. pend' \in [Hooks -> SUBSET Threads] /\ slot' \in [Hooks -> [Cpus -> SUBSET Threads]]
    BY <1>2, <2>1, ConsumeEffect DEF Block
  <2>3. thread' \in [Threads -> ThreadRecord]
    <3> DEFINE r == [thread[t] EXCEPT !.in = FALSE, !.result = "blocked"]
    <3>1. thread' = [thread EXCEPT ![t] = r]
      BY <1>2 DEF Block
    <3>2. r \in ThreadRecord
      BY RecordUpdated
    <3> HIDE DEF r
    <3> QED BY <3>1, <3>2, RecordReplaced
  <2>4. owed' \in [Hooks -> [Threads -> 0..MostEntries]]
    <3> DEFINE o == owed[thread[t].at][t]
               n == IF o > 0 THEN o - 1 ELSE o
    <3>1. n \in 0..MostEntries
      <4>1. o \in 0..MostEntries
        BY <2>1
      <4> QED BY <4>1, MostEntriesType
    <3>2. owed' = [owed EXCEPT ![thread[t].at][t] = n]
      BY <1>2 DEF Block
    <3> HIDE DEF n
    <3> QED BY <2>1, <3>1, <3>2, OwedReplaced
  <2> QED BY <1>2, <2>2, <2>3, <2>4 DEF Block
<1>3. ASSUME NEW t \in Threads, Pass(t) PROVE TypeOK'
  <2>1. thread[t].call.kind \in Kinds
    BY HooksAssumption DEF ThreadRecord
  <2>2. NextHook(thread[t].call.kind, thread[t].at) \in Hooks \cup {"end"}
    BY <2>1, KindsHaveHooks
  <2>3. thread' \in [Threads -> ThreadRecord]
    <3> DEFINE r == [thread[t] EXCEPT !.at = NextHook(thread[t].call.kind, thread[t].at)]
    <3>1. thread' = [thread EXCEPT ![t] = r]
      BY <1>3 DEF Pass
    <3>2. r \in ThreadRecord
      BY <2>2, RecordUpdated
    <3> HIDE DEF r
    <3> QED BY <3>1, <3>2, RecordReplaced
  <2> QED BY <1>3, <2>3 DEF Pass
<1>4. ASSUME NEW t \in Threads, Return(t) PROVE TypeOK'
  <2>1. thread' \in [Threads -> ThreadRecord]
    <3> DEFINE r == [thread[t] EXCEPT !.in = FALSE, !.result = "passed"]
    <3>1. thread' = [thread EXCEPT ![t] = r]
      BY <1>4 DEF Return
    <3>2. r \in ThreadRecord
      BY RecordUpdated
    <3> HIDE DEF r
    <3> QED BY <3>1, <3>2, RecordReplaced
  <2> QED BY <1>4, <2>1 DEF Return
<1>5. ASSUME NEW t \in Threads, FailEarly(t) PROVE TypeOK'
  <2>1. thread' \in [Threads -> ThreadRecord]
    <3> DEFINE r == [thread[t] EXCEPT !.in = FALSE, !.result = "failed"]
    <3>1. thread' = [thread EXCEPT ![t] = r]
      BY <1>5 DEF FailEarly
    <3>2. r \in ThreadRecord
      BY RecordUpdated
    <3> HIDE DEF r
    <3> QED BY <3>1, <3>2, RecordReplaced
  <2> QED BY <1>5, <2>1 DEF FailEarly
<1>6. ASSUME NEW t \in Threads, NEW c \in Cpus, Migrate(t, c) PROVE TypeOK'
  <2>1. held' \in [Threads -> Places]
    BY <1>6 DEF Migrate, Places
  <2> QED BY <1>6, <2>1 DEF Migrate
<1>7. CASE UNCHANGED vars
  BY <1>7 DEF vars
<1> QED BY <1>1, <1>2, <1>3, <1>4, <1>5, <1>6, <1>7 DEF Next

\* THE TYPES: the pending maps, the overflow slots and the state of every
\* call stay what the programs declare them to be.
THEOREM TypeCorrect == Spec => []TypeOK
<1>1. Init => TypeOK
  <2> SUFFICES ASSUME Init PROVE TypeOK
    OBVIOUS
  <2>1. thread \in [Threads -> ThreadRecord]
    BY DEF Init, ThreadRecord
  <2> QED BY <2>1, InitType
<1> QED BY <1>1, TypeStep, PTL DEF Spec

-----------------------------------------------------------------------------

\* A step that leaves a thread, its CPU and its entries alone keeps what the
\* invariant says of the thread.
LEMMA EntryKept ==
    ASSUME TypeOK, NEW s \in Threads, EntryWaitsFor(s),
           thread'[s] = thread[s], cpu'[s] = cpu[s], held'[s] \in {held[s], "lost"},
           \A g \in Hooks : s \in pend[g] => s \in pend'[g],
           held'[s] = "slot" =>
               LET h == MapOf(thread[s].call.kind)
               IN  s \in slot[h][cpu[s]] => s \in slot'[h][cpu[s]]
    PROVE  EntryWaitsFor(s)'
<1>1. thread[s].call.kind \in Kinds
  BY HooksAssumption DEF TypeOK, ThreadRecord
<1>2. MapOf(thread[s].call.kind) \in Hooks
  BY <1>1, KindsHaveHooks
<1> QED BY <1>2 DEF EntryWaitsFor

\* The inductive step: no step takes away the entry of a denied call that is under way
\* without losing it from a slot, and none lets a call through whose verdict is held.
LEMMA HookStep ==
    ASSUME HookInv, [Next]_vars
    PROVE  HookInv'
<1> USE DEF HookInv
<1>0. TypeOK'
  BY TypeStep
<1>b. \A s \in Threads : cpu[s] \in Cpus
  BY DEF TypeOK
<1>1. ASSUME NEW t \in Threads, NEW c \in Calls, NEW read \in SUBSET Arguments(c.kind),
             Enter(t, c, read)
      PROVE  OneInSlot' /\ EntryWaits' /\ OnlyLostVerdictsPass'
  <2> DEFINE h == MapOf(c.kind)
  <2>1. c.kind \in Kinds /\ h \in Hooks
    BY HooksAssumption, KindsHaveHooks
  <2>2. cpu' = cpu /\ \A s \in Threads \ {t} : thread'[s] = thread[s]
    BY <1>1 DEF Enter, TypeOK
  <2>3. /\ thread'[t].call = c /\ thread'[t].result = "none"
        /\ thread'[t].at = FirstHook(c.kind)
        /\ IF thread'[t].denied THEN Insert(h, t) /\ NoteHeld(h, t)
                                ELSE UNCHANGED <<pend, slot, held>>
    BY <1>1 DEF Enter, TypeOK
  <2> HIDE DEF h
  <2>4. CASE UNCHANGED <<pend, slot, held>> /\ ~thread'[t].denied
    <3>1. OneInSlot'
      BY <2>4 DEF OneInSlot
    <3>2. ASSUME NEW s \in Threads, s # t PROVE EntryWaitsFor(s)'
      BY <2>2, <2>4, <3>2, EntryKept DEF EntryWaits
    <3>3. EntryWaitsFor(t)'
      BY <2>4 DEF EntryWaitsFor
    <3>4. OnlyLostVerdictsPass'
      BY <2>2, <2>3, <2>4 DEF OnlyLostVerdictsPass
    <3> QED BY <3>1, <3>2, <3>3, <3>4 DEF EntryWaits
  <2>5. CASE Insert(h, t) /\ NoteHeld(h, t)
    <3>1. /\ Full(h, t) => slot'[h][cpu[t]] = {t}
          /\ ~Full(h, t) => t \in pend'[h] /\ slot' = slot
          /\ \A g \in Hooks : pend[g] \subseteq pend'[g]
          /\ \A g \in Hooks, d \in Cpus : g # h \/ d # cpu[t] => slot'[g][d] = slot[g][d]
      BY <2>1, <2>5, InsertEffect
    <3>2. \A s \in Threads :
             held'[s] = IF s = t THEN IF Full(h, t) THEN "slot" ELSE "map"
                        ELSE IF Displaces(h, t, s) THEN "lost" ELSE held[s]
      BY <2>5 DEF NoteHeld
    <3>3. OneInSlot'
      BY <3>1 DEF OneInSlot
    <3>4. ASSUME NEW s \in Threads, s # t PROVE EntryWaitsFor(s)'
      <4> DEFINE g == MapOf(thread[s].call.kind)
      <4>1. g \in Hooks
        BY HooksAssumption, KindsHaveHooks DEF TypeOK, ThreadRecord
      <4>2. held'[s] = "slot" => (s \in slot[g][cpu[s]] => s \in slot'[g][cpu[s]])
        <5> SUFFICES ASSUME held'[s] = "slot", s \in slot[g][cpu[s]]
                     PROVE  s \in slot'[g][cpu[s]]
          OBVIOUS
        <5>1. held[s] = "slot" /\ ~Displaces(h, t, s)
          BY <3>2, <3>4
        <5>2. ~Full(h, t) \/ g # h \/ cpu[s] # cpu[t]
          BY <5>1 DEF Displaces
        <5> QED BY <1>b, <3>1, <4>1, <5>2
      <4>3. held'[s] \in {held[s], "lost"}
        BY <3>2, <3>4
      <4> QED BY <2>2, <3>1, <3>4, <4>2, <4>3, EntryKept DEF EntryWaits
    <3>5. EntryWaitsFor(t)'
      BY <2>2, <2>3, <3>1, <3>2 DEF EntryWaitsFor, Hooked, h
    <3>6. OnlyLostVerdictsPass'
      BY <2>2, <2>3, <3>2 DEF OnlyLostVerdictsPass
    <3> QED BY <3>3, <3>4, <3>5, <3>6 DEF EntryWaits
  <2> QED BY <2>3, <2>4, <2>5
<1>2. ASSUME NEW t \in Threads, Block(t)
      PROVE  OneInSlot' /\ EntryWaits' /\ OnlyLostVerdictsPass'
  <2> DEFINE h == thread[t].at
  <2>1. h \in Hooks /\ Consume(h, t) /\ IsPending(h, t)
    BY <1>2 DEF Block, TypeOK, ThreadRecord
  <2>2. cpu' = cpu /\ held' = held /\ \A s \in Threads \ {t} : thread'[s] = thread[s]
    BY <1>2 DEF Block, TypeOK
  <2>3. ~thread'[t].in /\ thread'[t].result = "blocked"
    BY <1>2 DEF Block, TypeOK, ThreadRecord
  <2> HIDE DEF h
  <2>4. \A g \in Hooks, c \in Cpus :
           \A s \in Threads : s # t /\ s \in slot[g][c] => s \in slot'[g][c]
    <3> SUFFICES ASSUME NEW g \in Hooks, NEW c \in Cpus, NEW s \in Threads, s # t, s \in slot[g][c]
                 PROVE  s \in slot'[g][c]
      OBVIOUS
    <3>1. CASE t \in pend[h]
      BY <2>1, <3>1 DEF Consume
    <3>2. CASE t \notin pend[h]
      <4>1. slot' = [slot EXCEPT ![h][cpu[t]] = {}] /\ t \in slot[h][cpu[t]]
        BY <2>1, <3>2 DEF Consume, IsPending
      <4>2. g # h \/ c # cpu[t]
        BY <1>b, <2>1, <4>1 DEF OneInSlot
      <4> QED BY <1>b, <2>1, <4>1, <4>2 DEF TypeOK
    <3> QED BY <3>1, <3>2
  <2>5. OneInSlot'
    BY <2>1, ConsumeEffect DEF OneInSlot
  <2>6. ASSUME NEW s \in Threads, s # t PROVE EntryWaitsFor(s)'
    <3>1. \A g \in Hooks : s \in pend[g] => s \in pend'[g]
      BY <2>1, <2>6, ConsumeEffect
    <3>2. MapOf(thread[s].call.kind) \in Hooks
      BY HooksAssumption, KindsHaveHooks DEF TypeOK, ThreadRecord
    <3> QED BY <1>b, <2>2, <2>4, <2>6, <3>1, <3>2, EntryKept DEF EntryWaits
  <2>7. EntryWaitsFor(t)'
    BY <2>3 DEF EntryWaitsFor
  <2>8. OnlyLostVerdictsPass'
    BY <2>2, <2>3 DEF OnlyLostVerdictsPass
  <2> QED BY <2>5, <2>6, <2>7, <2>8 DEF EntryWaits
<1>3. ASSUME NEW t \in Threads, Pass(t)
      PROVE  OneInSlot' /\ EntryWaits' /\ OnlyLostVerdictsPass'
  <2> DEFINE k == thread[t].call.kind
  <2>1. k \in Kinds /\ MapOf(k) \in Hooks
    BY HooksAssumption, KindsHaveHooks DEF TypeOK, ThreadRecord
  <2>2. /\ cpu' = cpu /\ UNCHANGED <<pend, slot, held>>
        /\ \A s \in Threads \ {t} : thread'[s] = thread[s]
    BY <1>3 DEF Pass, TypeOK
  <2>3. /\ thread'[t].call = thread[t].call /\ thread'[t].result = thread[t].result
        /\ thread'[t].in = thread[t].in /\ thread'[t].denied = thread[t].denied
        /\ thread'[t].at = NextHook(k, thread[t].at)
    BY <1>3 DEF Pass, TypeOK, ThreadRecord
  <2>4. ASSUME NEW s \in Threads, s # t PROVE EntryWaitsFor(s)'
    BY <2>2, <2>4, EntryKept DEF EntryWaits
  <2>5. EntryWaitsFor(t)'
    <3> SUFFICES ASSUME thread[t].in, thread[t].denied, Hooked(k), held[t] # "lost"
                 PROVE  /\ thread'[t].at # "end"
                        /\ held[t] = "map" => t \in pend[MapOf(k)]
                        /\ held[t] = "slot" => t \in slot[MapOf(k)][cpu[t]]
      BY <2>2, <2>3 DEF EntryWaitsFor
    <3>1. /\ held[t] = "map" => t \in pend[MapOf(k)]
          /\ held[t] = "slot" => t \in slot[MapOf(k)][cpu[t]]
          /\ thread[t].at # "end"
      BY DEF EntryWaits, EntryWaitsFor
    <3>2. held[t] \in {"map", "slot"}
      BY DEF TypeOK, Places
    <3>3. thread[t].at # MapOf(k)
      BY <1>3, <3>1, <3>2 DEF Pass, IsPending
    <3> QED BY <2>1, <2>3, <3>1, <3>3 DEF NextHook, Hooks
  <2>6. OnlyLostVerdictsPass'
    BY <2>2, <2>3 DEF OnlyLostVerdictsPass
  <2> QED BY <2>2, <2>4, <2>5, <2>6 DEF OneInSlot, EntryWaits
<1>4. ASSUME NEW t \in Threads, Return(t)
      PROVE  OneInSlot' /\ EntryWaits' /\ OnlyLostVerdictsPass'
  <2>1. /\ cpu' = cpu /\ UNCHANGED <<pend, slot, held>>
        /\ \A s \in Threads \ {t} : thread'[s] = thread[s]
    BY <1>4 DEF Return, TypeOK
  <2>2. ~thread'[t].in /\ thread'[t].call = thread[t].call /\ thread'[t].denied = thread[t].denied
    BY <1>4 DEF Return, TypeOK, ThreadRecord
  <2>3. thread[t].denied /\ Hooked(thread[t].call.kind) => held[t] = "lost"
    BY <1>4 DEF Return, EntryWaits, EntryWaitsFor
  <2>4. ASSUME NEW s \in Threads, s # t PROVE EntryWaitsFor(s)'
    BY <2>1, <2>4, EntryKept DEF EntryWaits
  <2>5. EntryWaitsFor(t)'
    BY <2>2 DEF EntryWaitsFor
  <2>6. OnlyLostVerdictsPass'
    BY <2>1, <2>2, <2>3 DEF OnlyLostVerdictsPass, Hooked
  <2> QED BY <2>1, <2>4, <2>5, <2>6 DEF OneInSlot, EntryWaits
<1>5. ASSUME NEW t \in Threads, FailEarly(t)
      PROVE  OneInSlot' /\ EntryWaits' /\ OnlyLostVerdictsPass'
  <2>1. /\ cpu' = cpu /\ UNCHANGED <<pend, slot, held>>
        /\ \A s \in Threads \ {t} : thread'[s] = thread[s]
    BY <1>5 DEF FailEarly, TypeOK
  <2>2. ~thread'[t].in /\ thread'[t].result = "failed"
    BY <1>5 DEF FailEarly, TypeOK, ThreadRecord
  <2>3. ASSUME NEW s \in Threads, s # t PROVE EntryWaitsFor(s)'
    BY <2>1, <2>3, EntryKept DEF EntryWaits
  <2>4. EntryWaitsFor(t)'
    BY <2>2 DEF EntryWaitsFor
  <2>5. OnlyLostVerdictsPass'
    BY <2>1, <2>2 DEF OnlyLostVerdictsPass
  <2> QED BY <2>1, <2>3, <2>4, <2>5 DEF OneInSlot, EntryWaits
<1>6. ASSUME NEW t \in Threads, NEW c \in Cpus, Migrate(t, c)
      PROVE  OneInSlot' /\ EntryWaits' /\ OnlyLostVerdictsPass'
  <2>1. /\ UNCHANGED <<thread, pend, slot>>
        /\ held'[t] = IF held[t] = "slot" THEN "lost" ELSE held[t]
        /\ \A s \in Threads \ {t} : cpu'[s] = cpu[s] /\ held'[s] = held[s]
    BY <1>6 DEF Migrate, TypeOK
  <2>2. EntryWaitsFor(t)'
    BY <2>1 DEF EntryWaits, EntryWaitsFor
  <2>3. ASSUME NEW s \in Threads, s # t PROVE EntryWaitsFor(s)'
    BY <2>1, <2>3, EntryKept DEF EntryWaits
  <2>4. OnlyLostVerdictsPass'
    BY <2>1 DEF OnlyLostVerdictsPass
  <2> QED BY <2>1, <2>2, <2>3, <2>4 DEF OneInSlot, EntryWaits
<1>7. CASE UNCHANGED vars
  BY <1>0, <1>7 DEF vars, OneInSlot, EntryWaits, EntryWaitsFor, OnlyLostVerdictsPass
<1> QED BY <1>0, <1>1, <1>2, <1>3, <1>4, <1>5, <1>6, <1>7 DEF Next

\* EVERY VERDICT THAT IS NOT LOST IS CARRIED OUT: a call that a tracepoint denied and that
\* reaches an LSM hook takes effect only if the pending map was full and the slot its
\* verdict went to was taken by another thread or left behind on another CPU, for maps of
\* every size and threads that move as they like.
THEOREM VerdictsAreCarriedOut == Spec => []OnlyLostVerdictsPass
<1>1. Init => HookInv
  <2> SUFFICES ASSUME Init PROVE HookInv
    OBVIOUS
  <2>1. thread \in [Threads -> ThreadRecord]
    BY DEF Init, ThreadRecord
  <2>2. TypeOK
    BY <2>1, InitType
  <2>3. \A t \in Threads : ~thread[t].in /\ ~thread[t].denied
    BY DEF Init
  <2> QED BY <2>2, <2>3 DEF Init, HookInv, OneInSlot, EntryWaits, EntryWaitsFor, OnlyLostVerdictsPass
<1>2. HookInv /\ [Next]_vars => HookInv'
  BY HookStep
<1>3. HookInv => OnlyLostVerdictsPass
  BY DEF HookInv
<1> QED BY <1>1, <1>2, <1>3, PTL DEF Spec

\* Where the maps hold all threads, or threads alone on a CPU stay there, no step loses a
\* verdict.
LEMMA NothingIsLostStep ==
    ASSUME EntriesAreReachable, TypeOK, NothingIsLost, [Next]_vars
    PROVE  NothingIsLost'
<1>1. ASSUME NEW t \in Threads, NEW c \in Calls, NEW read \in SUBSET Arguments(c.kind),
             Enter(t, c, read)
      PROVE  NothingIsLost'
  <2> DEFINE h == MapOf(c.kind)
  <2>1. h \in Hooks
    BY HooksAssumption, KindsHaveHooks
  <2>2. cpu' = cpu /\ (held' = held \/ NoteHeld(h, t))
    BY <1>1 DEF Enter
  <2> HIDE DEF h
  <2>3. ASSUME NEW s \in Threads, s # t PROVE ~Displaces(h, t, s)
    BY <2>1, <2>3, NeverFull DEF Displaces, EntriesAreReachable, NothingIsLost
  <2>4. Cardinality(Threads) <= Capacity => ~Full(h, t)
    BY <2>1, NeverFull
  <2> QED BY <2>2, <2>3, <2>4 DEF NothingIsLost, NoteHeld
<1>2. ASSUME NEW t \in Threads, NEW c \in Cpus, Migrate(t, c) PROVE NothingIsLost'
  <2>1. Movable # {} /\ Cardinality(Threads) <= Capacity
    BY <1>2 DEF Migrate, EntriesAreReachable
  <2>2. held' = held
    <3>1. held[t] = "map"
      BY <2>1 DEF NothingIsLost
    <3> QED BY <1>2, <3>1 DEF Migrate, TypeOK
  <2> QED BY <2>1, <2>2 DEF NothingIsLost
<1>3. ASSUME UNCHANGED <<cpu, held>> PROVE NothingIsLost'
  BY <1>3 DEF NothingIsLost
<1>4. \/ \E t \in Threads, c \in Calls : \E read \in SUBSET Arguments(c.kind) : Enter(t, c, read)
      \/ \E t \in Threads, c \in Cpus : Migrate(t, c)
      \/ UNCHANGED <<cpu, held>>
  BY DEF Next, vars, Block, Pass, Return, FailEarly
<1> QED BY <1>1, <1>2, <1>3, <1>4

\* WHAT THE COMMENT ON THE SLOTS SAYS, WHERE IT HOLDS: if the pending maps can hold every
\* thread, or each thread stays alone on its CPU, no denied call that reaches an LSM hook
\* takes effect (ebpf main.rs 227-231).
THEOREM ReachableVerdictsHold ==
    ASSUME EntriesAreReachable
    PROVE  Spec => []DeniedNeverPasses
<1>1. Init => NothingIsLost
  BY DEF Init, NothingIsLost
<1>2. OnlyLostVerdictsPass /\ NothingIsLost => DeniedNeverPasses
  BY DEF OnlyLostVerdictsPass, NothingIsLost, DeniedNeverPasses
<1> QED BY <1>1, <1>2, NothingIsLostStep, TypeCorrect, VerdictsAreCarriedOut, PTL DEF Spec

-----------------------------------------------------------------------------

\* The CPUs whose slots, of a row of the overflow array, hold the thread
Holders(row, t) == {c \in Cpus : t \in row[c]}

\* The entries of the thread in such a row and in a pending map
Placed(row, map, t) == Cardinality(Holders(row, t)) + (IF t \in map THEN 1 ELSE 0)

\* Where the maps hold all threads, the slots are never used.
SlotsUnused == Cardinality(Threads) <= Capacity => \A h \in Hooks, c \in Cpus : slot[h][c] = {}

SpentInv == TypeOK /\ SlotsUnused /\ OneBlockPerDenial

\* Entries are counted, before a step and after it, by what is placed.
LEMMA EntriesArePlaced ==
    ASSUME NEW h \in Hooks, NEW t \in Threads
    PROVE  /\ Entries(h, t) = Placed(slot[h], pend[h], t)
           /\ Entries(h, t)' = Placed(slot'[h], pend'[h], t)
BY DEF Entries, Placed, Holders

\* The slots that hold a thread are finitely many.
LEMMA HoldersType ==
    ASSUME NEW row, NEW t
    PROVE  /\ IsFiniteSet(Holders(row, t))
           /\ Cardinality(Holders(row, t)) \in Nat
           /\ Cardinality(Cpus) \in Nat
           /\ Cardinality(Holders(row, t)) <= Cardinality(Cpus)
<1>1. IsFiniteSet(Cpus) /\ Holders(row, t) \in SUBSET Cpus
  BY HooksAssumption DEF Holders
<1>2. IsFiniteSet(Holders(row, t)) /\ Cardinality(Holders(row, t)) <= Cardinality(Cpus)
  BY <1>1, FS_Subset
<1>3. Cardinality(Holders(row, t)) \in Nat /\ Cardinality(Cpus) \in Nat
  BY <1>1, <1>2, FS_CardinalityType
<1> QED BY <1>2, <1>3

\* An empty row holds nobody.
LEMMA NoHolders ==
    ASSUME NEW row, NEW t, \A c \in Cpus : row[c] = {}
    PROVE  Cardinality(Holders(row, t)) = 0
<1>1. Holders(row, t) = {}
  BY DEF Holders
<1> QED BY <1>1, FS_EmptySet

\* A thread never has more entries than there are places for them.
LEMMA PlacedBound ==
    ASSUME NEW row, NEW map, NEW t,
           Cardinality(Threads) <= Capacity => \A c \in Cpus : row[c] = {}
    PROVE  Placed(row, map, t) \in 0..MostEntries
<1> DEFINE n == Cardinality(Holders(row, t))
           k == Cardinality(Cpus)
<1>1. n \in Nat /\ k \in Nat /\ n <= k
  BY HoldersType
<1>2. Cardinality(Threads) <= Capacity => n = 0
  BY NoHolders
<1>3. Placed(row, map, t) = n + (IF t \in map THEN 1 ELSE 0)
  BY DEF Placed
<1>4. MostEntries = IF Cardinality(Threads) <= Capacity THEN 1 ELSE 1 + k
  BY DEF MostEntries
<1> HIDE DEF n, k
<1>5. CASE Cardinality(Threads) <= Capacity
  BY <1>2, <1>3, <1>4, <1>5
<1>6. CASE ~ (Cardinality(Threads) <= Capacity)
  BY <1>1, <1>3, <1>4, <1>6
<1> QED BY <1>5, <1>6

\* What is placed is counted by a number.
LEMMA PlacedType == \A row, map, t : Placed(row, map, t) \in Nat
BY HoldersType DEF Placed

\* A map without the thread has no more entries of it, a map with it at most one more.
LEMMA PlacedInMap ==
    ASSUME NEW row, NEW map, NEW map2, NEW t, t \in map2 => t \in map
    PROVE  /\ Placed(row, map, t) \in Nat /\ Placed(row, map2, t) \in Nat
           /\ Placed(row, map2, t) <= Placed(row, map, t)
           /\ Placed(row, map \cup {t}, t) <= Placed(row, map, t) + 1
<1> DEFINE n == Cardinality(Holders(row, t))
<1>1. n \in Nat
  BY HoldersType
<1>2. \A m : Placed(row, m, t) = n + (IF t \in m THEN 1 ELSE 0)
  BY DEF Placed
<1>3. t \in map \cup {t}
  OBVIOUS
<1> HIDE DEF n
<1> QED BY <1>1, <1>2, <1>3

\* An entry taken out of the map is one less.
LEMMA PlacedTakenAway ==
    ASSUME NEW row, NEW map, NEW map2, NEW t, t \in map, t \notin map2
    PROVE  Placed(row, map2, t) = Placed(row, map, t) - 1
BY HoldersType DEF Placed

\* A row whose slots hold the thread only where another row's do has no more entries.
LEMMA PlacedInFewer ==
    ASSUME NEW row, NEW row2, NEW map, NEW t,
           \A c \in Cpus : t \in row2[c] => t \in row[c]
    PROVE  /\ Placed(row2, map, t) <= Placed(row, map, t)
           /\ \A d \in Cpus : t \in row[d] /\ t \notin row2[d]
                              => Placed(row2, map, t) <= Placed(row, map, t) - 1
<1>1. /\ IsFiniteSet(Holders(row, t)) /\ Cardinality(Holders(row, t)) \in Nat
      /\ Cardinality(Holders(row2, t)) \in Nat
  BY HoldersType
<1>2. Holders(row2, t) \in SUBSET Holders(row, t)
  BY DEF Holders
<1>3. Cardinality(Holders(row2, t)) <= Cardinality(Holders(row, t))
  BY <1>1, <1>2, FS_Subset
<1>4. Placed(row2, map, t) <= Placed(row, map, t)
  BY <1>1, <1>3 DEF Placed
<1>5. ASSUME NEW d \in Cpus, t \in row[d], t \notin row2[d]
      PROVE  Placed(row2, map, t) <= Placed(row, map, t) - 1
  <2>1. Holders(row2, t) # Holders(row, t)
    BY <1>5 DEF Holders
  <2>2. Cardinality(Holders(row2, t)) # Cardinality(Holders(row, t))
    BY <1>1, <1>2, <2>1, FS_Subset
  <2> QED BY <1>1, <1>3, <2>2 DEF Placed
<1> QED BY <1>4, <1>5

\* A row with one more slot that holds the thread has at most one more entry.
LEMMA PlacedInOneMore ==
    ASSUME NEW row, NEW row2, NEW map, NEW t, NEW d \in Cpus,
           \A c \in Cpus : t \in row2[c] => t \in row[c] \/ c = d
    PROVE  Placed(row2, map, t) <= Placed(row, map, t) + 1
<1>1. /\ IsFiniteSet(Holders(row, t)) /\ Cardinality(Holders(row, t)) \in Nat
      /\ Cardinality(Holders(row2, t)) \in Nat
  BY HoldersType
<1>2. Holders(row2, t) \in SUBSET (Holders(row, t) \cup {d})
  BY DEF Holders
<1>3. /\ IsFiniteSet(Holders(row, t) \cup {d})
      /\ \/ Cardinality(Holders(row, t) \cup {d}) = Cardinality(Holders(row, t))
         \/ Cardinality(Holders(row, t) \cup {d}) = Cardinality(Holders(row, t)) + 1
  BY <1>1, FS_AddElement
<1>4. Cardinality(Holders(row2, t)) <= Cardinality(Holders(row, t) \cup {d})
  BY <1>2, <1>3, FS_Subset
<1> QED BY <1>1, <1>3, <1>4 DEF Placed

\* Inserting adds at most one entry, to the thread it is made for.
LEMMA InsertCounts ==
    ASSUME TypeOK, NEW h \in Hooks, NEW t \in Threads, Insert(h, t),
           NEW g \in Hooks, NEW s \in Threads
    PROVE  /\ g = h /\ s = t => Entries(g, s)' <= Entries(g, s) + 1
           /\ ~ (g = h /\ s = t) => Entries(g, s)' <= Entries(g, s)
<1>1. cpu[t] \in Cpus
  BY DEF TypeOK
<1>2. CASE pend' = [pend EXCEPT ![h] = @ \cup {t}] /\ slot' = slot
  <2>1. g = h /\ s = t => pend'[g] = pend[g] \cup {s}
    BY <1>2 DEF TypeOK
  <2>2. ~ (g = h /\ s = t) => (s \in pend'[g] => s \in pend[g])
    BY <1>2 DEF TypeOK
  <2>3. g = h /\ s = t => Placed(slot[g], pend'[g], s) <= Placed(slot[g], pend[g], s) + 1
    BY <2>1, PlacedInMap
  <2>4. ~ (g = h /\ s = t) => Placed(slot[g], pend'[g], s) <= Placed(slot[g], pend[g], s)
    BY <2>2, PlacedInMap
  <2> QED BY <1>2, <2>3, <2>4, EntriesArePlaced
<1>3. CASE slot' = [slot EXCEPT ![h][cpu[t]] = {t}] /\ pend' = pend
  <2>1. \A c \in Cpus : slot'[g][c] = IF g = h /\ c = cpu[t] THEN {t} ELSE slot[g][c]
    BY <1>1, <1>3 DEF TypeOK
  <2>2. \A c \in Cpus : s \in slot'[g][c] => s \in slot[g][c] \/ c = cpu[t]
    BY <2>1
  <2>3. ~ (g = h /\ s = t) => \A c \in Cpus : s \in slot'[g][c] => s \in slot[g][c]
    BY <2>1
  <2>4. Placed(slot'[g], pend[g], s) <= Placed(slot[g], pend[g], s) + 1
    BY <1>1, <2>2, PlacedInOneMore
  <2>5. ~ (g = h /\ s = t) => Placed(slot'[g], pend[g], s) <= Placed(slot[g], pend[g], s)
    BY <2>3, PlacedInFewer
  <2> QED BY <1>3, <2>4, <2>5, EntriesArePlaced
<1> QED BY <1>2, <1>3 DEF Insert

\* A hook that finds an entry takes one away from its thread, and adds none.
LEMMA ConsumeCounts ==
    ASSUME TypeOK, NEW h \in Hooks, NEW t \in Threads, IsPending(h, t), Consume(h, t),
           NEW g \in Hooks, NEW s \in Threads
    PROVE  /\ g = h /\ s = t => Entries(g, s)' <= Entries(g, s) - 1
           /\ Entries(g, s)' <= Entries(g, s)
<1>1. cpu[t] \in Cpus
  BY DEF TypeOK
<1>2. CASE t \in pend[h]
  <2>1. pend' = [pend EXCEPT ![h] = @ \ {t}] /\ slot' = slot
    BY <1>2 DEF Consume
  <2>2. /\ s \in pend'[g] => s \in pend[g]
        /\ g = h /\ s = t => s \in pend[g] /\ s \notin pend'[g]
    BY <1>2, <2>1 DEF TypeOK
  <2>3. /\ Placed(slot[g], pend[g], s) \in Nat
        /\ Placed(slot[g], pend'[g], s) <= Placed(slot[g], pend[g], s)
        /\ g = h /\ s = t
           => Placed(slot[g], pend'[g], s) = Placed(slot[g], pend[g], s) - 1
    <3>1. Placed(slot[g], pend[g], s) \in Nat
      BY PlacedType
    <3>2. Placed(slot[g], pend'[g], s) <= Placed(slot[g], pend[g], s)
      BY <2>2, PlacedInMap
    <3>3. ASSUME g = h, s = t
          PROVE  Placed(slot[g], pend'[g], s) = Placed(slot[g], pend[g], s) - 1
      <4>1. s \in pend[g] /\ s \notin pend'[g]
        BY <2>2, <3>3
      <4> QED BY <4>1, PlacedTakenAway
    <3> QED BY <3>1, <3>2, <3>3
  <2> QED BY <2>1, <2>3, EntriesArePlaced
<1>3. CASE t \notin pend[h]
  <2>1. slot' = [slot EXCEPT ![h][cpu[t]] = {}] /\ pend' = pend /\ t \in slot[h][cpu[t]]
    BY <1>3 DEF Consume, IsPending
  <2>2. \A c \in Cpus : slot'[g][c] = IF g = h /\ c = cpu[t] THEN {} ELSE slot[g][c]
    BY <1>1, <2>1 DEF TypeOK
  <2>3. /\ \A c \in Cpus : s \in slot'[g][c] => s \in slot[g][c]
        /\ g = h /\ s = t => s \in slot[g][cpu[t]] /\ s \notin slot'[g][cpu[t]]
    BY <1>1, <2>1, <2>2
  <2>4. /\ Placed(slot'[g], pend[g], s) <= Placed(slot[g], pend[g], s)
        /\ g = h /\ s = t
           => Placed(slot'[g], pend[g], s) <= Placed(slot[g], pend[g], s) - 1
    BY <1>1, <2>3, PlacedInFewer
  <2> QED BY <2>1, <2>4, EntriesArePlaced
<1> QED BY <1>2, <1>3

\* The inductive step of the theorem below.
LEMMA SpentStep ==
    ASSUME SpentInv, [Next]_vars
    PROVE  SpentInv'
<1>0. TypeOK /\ TypeOK'
  BY TypeStep DEF SpentInv
<1>e. \A g \in Hooks, s \in Threads :
         /\ Entries(g, s) \in Nat /\ Entries(g, s)' \in Nat
         /\ Entries(g, s) <= owed[g][s]
         /\ owed[g][s] \in 0..MostEntries /\ MostEntries \in Nat \ {0}
  <2> SUFFICES ASSUME NEW g \in Hooks, NEW s \in Threads
               PROVE  /\ Entries(g, s) \in Nat /\ Entries(g, s)' \in Nat
                      /\ Entries(g, s) <= owed[g][s]
                      /\ owed[g][s] \in 0..MostEntries /\ MostEntries \in Nat \ {0}
    OBVIOUS
  <2>1. Entries(g, s) \in Nat /\ Entries(g, s)' \in Nat
    BY EntriesArePlaced, PlacedType
  <2>2. Entries(g, s) <= owed[g][s]
    BY DEF SpentInv, OneBlockPerDenial
  <2>3. owed[g][s] \in 0..MostEntries
    BY <1>0 DEF TypeOK
  <2> QED BY <2>1, <2>2, <2>3, MostEntriesType
<1>1. ASSUME NEW t \in Threads, NEW c \in Calls, NEW read \in SUBSET Arguments(c.kind),
             Enter(t, c, read)
      PROVE  SpentInv'
  <2> DEFINE h == MapOf(c.kind)
  <2>1. h \in Hooks
    BY HooksAssumption, KindsHaveHooks
  <2>2. CASE UNCHANGED <<pend, slot, owed>>
    BY <1>0, <2>2 DEF SpentInv, SlotsUnused, OneBlockPerDenial, Entries
  <2>3. CASE /\ Insert(h, t)
             /\ owed' = [owed EXCEPT ![h][t] = IF @ < MostEntries THEN @ + 1 ELSE @]
    <3>1. Cardinality(Threads) <= Capacity => slot' = slot
      BY <1>0, <2>1, <2>3, InsertEffect, NeverFull
    <3>2. ASSUME NEW g \in Hooks, NEW s \in Threads PROVE Entries(g, s)' <= owed'[g][s]
      <4>1. CASE g = h /\ s = t
        <5>1. owed'[g][s] = IF owed[g][s] < MostEntries THEN owed[g][s] + 1 ELSE owed[g][s]
          BY <1>0, <2>1, <2>3, <4>1 DEF TypeOK
        <5>2. Entries(g, s)' <= Entries(g, s) + 1
          BY <1>0, <2>1, <2>3, <4>1, InsertCounts
        <5>3. Entries(g, s)' <= MostEntries
          <6>1. Cardinality(Threads) <= Capacity => \A d \in Cpus : slot'[g][d] = {}
            BY <3>1 DEF SpentInv, SlotsUnused
          <6>2. Placed(slot'[g], pend'[g], s) \in 0..MostEntries
            BY <6>1, PlacedBound
          <6> QED BY <1>e, <6>2, EntriesArePlaced
        <5> QED BY <1>e, <5>1, <5>2, <5>3
      <4>2. CASE ~ (g = h /\ s = t)
        <5>1. owed'[g][s] = owed[g][s]
          BY <1>0, <2>1, <2>3, <4>2 DEF TypeOK
        <5>2. Entries(g, s)' <= Entries(g, s)
          BY <1>0, <1>e, <2>1, <2>3, <4>2, InsertCounts
        <5> QED BY <1>e, <5>1, <5>2
      <4> QED BY <4>1, <4>2
    <3> QED BY <1>0, <3>1, <3>2 DEF SpentInv, SlotsUnused, OneBlockPerDenial
  <2> QED BY <1>1, <2>2, <2>3 DEF Enter
<1>2. ASSUME NEW t \in Threads, Block(t) PROVE SpentInv'
  <2> DEFINE h == thread[t].at
  <2>1. /\ h \in Hooks /\ Consume(h, t) /\ IsPending(h, t)
        /\ owed' = [owed EXCEPT ![h][t] = IF @ > 0 THEN @ - 1 ELSE @]
    BY <1>0, <1>2 DEF Block, TypeOK, ThreadRecord
  <2> HIDE DEF h
  <2>2. Cardinality(Threads) <= Capacity => \A g \in Hooks, c \in Cpus : slot'[g][c] = {}
    BY <1>0, <2>1, ConsumeEffect DEF SpentInv, SlotsUnused
  <2>3. ASSUME NEW g \in Hooks, NEW s \in Threads PROVE Entries(g, s)' <= owed'[g][s]
    <3>1. CASE g = h /\ s = t
      <4>1. owed'[g][s] = IF owed[g][s] > 0 THEN owed[g][s] - 1 ELSE owed[g][s]
        BY <1>0, <2>1, <3>1 DEF TypeOK
      <4>2. Entries(g, s)' <= Entries(g, s) - 1
        BY <1>0, <2>1, <3>1, ConsumeCounts
      <4> QED BY <1>e, <4>1, <4>2
    <3>2. CASE ~ (g = h /\ s = t)
      <4>1. owed'[g][s] = owed[g][s]
        BY <1>0, <2>1, <3>2 DEF TypeOK
      <4>2. Entries(g, s)' <= Entries(g, s)
        BY <1>0, <1>e, <2>1, <3>2, ConsumeCounts
      <4> QED BY <1>e, <4>1, <4>2
    <3> QED BY <3>1, <3>2
  <2> QED BY <1>0, <2>2, <2>3 DEF SpentInv, SlotsUnused, OneBlockPerDenial
<1>3. ASSUME UNCHANGED <<pend, slot, owed>> PROVE SpentInv'
  BY <1>0, <1>3 DEF SpentInv, SlotsUnused, OneBlockPerDenial, Entries
<1>4. \/ \E t \in Threads, c \in Calls : \E read \in SUBSET Arguments(c.kind) : Enter(t, c, read)
      \/ \E t \in Threads : Block(t)
      \/ UNCHANGED <<pend, slot, owed>>
  BY DEF Next, vars, Pass, Return, FailEarly, Migrate
<1> QED BY <1>1, <1>2, <1>3, <1>4

\* A VERDICT IS SPENT ONCE: an entry left by a call that failed early blocks at most
\* one later call, for maps of every size and threads that move as they like.
THEOREM VerdictsAreSpentOnce == Spec => []OneBlockPerDenial
<1>1. Init => SpentInv
  <2> SUFFICES ASSUME Init PROVE SpentInv
    OBVIOUS
  <2>1. thread \in [Threads -> ThreadRecord]
    BY DEF Init, ThreadRecord
  <2>2. TypeOK
    BY <2>1, InitType
  <2>3. \A h \in Hooks, c \in Cpus : slot[h][c] = {}
    BY DEF Init
  <2>4. ASSUME NEW h \in Hooks, NEW t \in Threads PROVE Entries(h, t) = 0
    <3>1. \A c \in Cpus : slot[h][c] = {}
      BY <2>3
    <3>2. Cardinality(Holders(slot[h], t)) = 0
      BY <3>1, NoHolders
    <3>3. t \notin pend[h]
      BY DEF Init
    <3>4. Placed(slot[h], pend[h], t) = 0
      BY <3>2, <3>3 DEF Placed
    <3> QED BY <3>4, EntriesArePlaced
  <2>5. \A h \in Hooks, t \in Threads : owed[h][t] = 0
    BY DEF Init
  <2> QED BY <2>2, <2>3, <2>4, <2>5 DEF SpentInv, SlotsUnused, OneBlockPerDenial
<1>2. SpentInv /\ [Next]_vars => SpentInv'
  BY SpentStep
<1>3. SpentInv => OneBlockPerDenial
  BY DEF SpentInv
<1> QED BY <1>1, <1>2, <1>3, PTL DEF Spec

-----------------------------------------------------------------------------

\* The calls OnlyLostPrefixesPass is about, and what their tracepoint
\* makes of them.
UnderDeniedPrefix(c) == c.kind \in {"open", "unlink", "link"} /\ c.target \in Lists["DENY_PREFIXES"]

PrefixVerdict ==
    \A t \in Threads : thread[t].policy /\ UnderDeniedPrefix(thread[t].call) => thread[t].denied

\* The verdict on a path below a denied directory does not depend on what
\* the buffer held before.
LEMMA PrefixVerdictIsClean ==
    ASSUME NEW c \in Calls, NEW read, NEW old \in Nat,
           UnderDeniedPrefix(c), Denies(c, read, 0)
    PROVE  Denies(c, read, old)
<1>1. ~Destructible(c.target, old <= Length[c.target] + 1)
  BY DEF UnderDeniedPrefix, Destructible, EvaluatePolicy, Hit, ExactLists
<1>2. CASE c.kind = "open"
  BY <1>2 DEF Denies
<1>3. CASE c.kind \in {"unlink", "link"}
  <2>1. "target" \in read /\ Length[c.target] > 0
    BY <1>3 DEF Denies
  <2>2. Denies(c, read, old) <=>
            "target" \in read /\ Length[c.target] > 0
            /\ ~Destructible(c.target, old <= Length[c.target] + 1)
    BY <1>3, Zenon DEF Denies
  <2> QED BY <1>1, <2>1, <2>2
<1> QED BY <1>2, <1>3 DEF UnderDeniedPrefix

\* The inductive step of the theorem below.
LEMMA PrefixVerdictStep ==
    ASSUME TypeOK, PrefixVerdict, [Next]_vars
    PROVE  PrefixVerdict'
<1>1. ASSUME NEW t \in Threads, NEW c \in Calls, NEW read \in SUBSET Arguments(c.kind),
             Enter(t, c, read)
      PROVE  PrefixVerdict'
  <2>1. residue[cpu[t]] \in Nat
    BY DEF TypeOK
  <2>2. \A s \in Threads \ {t} : thread'[s] = thread[s]
    BY <1>1 DEF Enter, TypeOK
  <2>3. /\ thread'[t].call = c
        /\ thread'[t].policy = (t \in Enforced /\ Denies(c, read, 0))
        /\ thread'[t].denied = (t \in Enforced /\ Denies(c, read, residue[cpu[t]]))
    BY <1>1 DEF Enter, TypeOK
  <2>4. thread'[t].policy /\ UnderDeniedPrefix(c) => thread'[t].denied
    BY <2>1, <2>3, PrefixVerdictIsClean
  <2> QED BY <2>2, <2>3, <2>4 DEF PrefixVerdict, UnderDeniedPrefix
<1>2. ASSUME \A s \in Threads : /\ thread'[s].call = thread[s].call
                                /\ thread'[s].policy = thread[s].policy
                                /\ thread'[s].denied = thread[s].denied
      PROVE  PrefixVerdict'
  BY <1>2 DEF PrefixVerdict, UnderDeniedPrefix
<1>3. ASSUME NEW t \in Threads, Block(t) \/ Pass(t) \/ Return(t) \/ FailEarly(t)
      PROVE  PrefixVerdict'
  <2>1. PICK r : thread' = [thread EXCEPT ![t] = r] /\ r.call = thread[t].call
                 /\ r.policy = thread[t].policy /\ r.denied = thread[t].denied
    BY <1>3 DEF Block, Pass, Return, FailEarly, TypeOK, ThreadRecord
  <2> QED BY <1>2, <2>1 DEF TypeOK
<1>4. CASE \E t \in Threads, c \in Cpus : Migrate(t, c)
  BY <1>2, <1>4 DEF Migrate
<1>5. CASE UNCHANGED vars
  BY <1>2, <1>5 DEF vars
<1> QED BY <1>1, <1>3, <1>4, <1>5 DEF Next

\* PREFIX RULES NEVER MISS: an open, unlink or link of a path below a denied directory,
\* read by its tracepoint, is denied whatever other calls left in the buffer of the CPU,
\* and takes effect only if its verdict is lost from a slot.
THEOREM PrefixRulesNeverMiss == Spec => []OnlyLostPrefixesPass
<1>1. Init => PrefixVerdict
  BY DEF Init, PrefixVerdict
<1>2. PrefixVerdict /\ OnlyLostVerdictsPass => OnlyLostPrefixesPass
  BY DEF PrefixVerdict, OnlyLostVerdictsPass, OnlyLostPrefixesPass, UnderDeniedPrefix,
         FirstHook, MapOf
<1> QED BY <1>1, <1>2, TypeCorrect, VerdictsAreCarriedOut, PrefixVerdictStep, PTL DEF Spec
=============================================================================
