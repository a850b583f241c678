---------------------------- MODULE EventLedger ----------------------------
(***************************************************************************)
(* What the event list promises of every event, without bus, batch,        *)
(* positions, row ids and transactions: events are stored in the order in  *)
(* which they were sent, behind all that was stored before; one that is    *)
(* not stored when its turn comes is lost, and what is lost never comes    *)
(* back.  Age takes stored events away, for good unless the daemon         *)
(* restarts before this is committed.                                      *)
(***************************************************************************)
EXTENDS Naturals

CONSTANT Numbers   \* an event is its number in the order of sending

VARIABLE fate

Fates == {"coming", "ignored", "waiting", "stored", "pruned", "lost"}

LedgerTypeOK == fate \in [Numbers -> Fates]

These(what) == {n \in Numbers : fate[n] = what}

\* The fates, after some events have met another one
Met(events, what) == [n \in Numbers |-> IF n \in events THEN what ELSE fate[n]]

LedgerInit == fate = [n \in Numbers |-> "coming"]

\* The next event is sent; one that is not severe enough is not stored
Sent(n) ==
    /\ fate[n] = "coming"
    /\ \A m \in These("coming") : n <= m
    /\ \E what \in {"waiting", "ignored"} : fate' = Met({n}, what)

\* The bus has overtaken the writer
Overtaken(events) ==
    /\ events \subseteq These("waiting")
    /\ fate' = Met(events, "lost")

\* The oldest of the waiting events are stored, as far as the database takes them
Written(events, kept) ==
    /\ events \subseteq These("waiting") /\ kept \subseteq events
    /\ \A m \in events, n \in These("waiting") \ events : m < n
    /\ \A m \in These("stored") \cup These("pruned"), n \in events : m < n
    /\ fate' = [n \in Numbers |-> IF n \in kept THEN "stored"
                                  ELSE IF n \in events THEN "lost" ELSE fate[n]]

Aged(events) ==
    /\ events \subseteq These("stored")
    /\ fate' = Met(events, "pruned")

\* The daemon ends and starts again: what waits is lost, with what a transaction that
\* was never committed had stored; what it had pruned is back
Restarted(undone, back) ==
    /\ undone \subseteq These("stored") /\ back \subseteq These("pruned")
    /\ fate' = [n \in Numbers |-> IF n \in These("waiting") \cup undone THEN "lost"
                                  ELSE IF n \in back THEN "stored" ELSE fate[n]]

LedgerNext ==
    \/ \E n \in Numbers : Sent(n)
    \/ \E events \in SUBSET These("waiting") : Overtaken(events)
    \/ \E events \in SUBSET These("waiting") : \E kept \in SUBSET events : Written(events, kept)
    \/ \E events \in SUBSET These("stored") : Aged(events)
    \/ \E undone \in SUBSET These("stored"), back \in SUBSET These("pruned") :
           Restarted(undone, back)

LedgerSpec == LedgerInit /\ [][LedgerNext]_fate
=============================================================================
