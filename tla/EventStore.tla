----------------------------- MODULE EventStore -----------------------------
(***************************************************************************)
(* The event bus, the task that writes its events to the database, the     *)
(* daily pruning and a browser that follows the live stream.               *)
(*                                                                         *)
(* The bus keeps the last BusSize events; a receiver that is further       *)
(* behind is told how many it missed and continues with the oldest one.    *)
(* The writer gathers what is severe enough and stores it in one           *)
(* transaction, when the batch is full or the timer fires.  All of the     *)
(* daemon shares one connection: a transaction that could not be committed *)
(* may stay open on it, and then no other can begin.                       *)
(***************************************************************************)
EXTENDS Naturals, Sequences, SequencesExt, FiniteSets

CONSTANTS
    Levels,     \* severities of the events that occur
    Threshold,  \* db_min_severity
    BusSize,    \* capacity of the broadcast channel, 8192 in the code
    BatchSize,  \* events that are flushed at once, 200 in the code
    MaxEvents,  \* bound: events that occur
    Faults      \* how COMMIT may fail: "undone", "leftOpen"

ASSUME EventAssumption ==
    /\ Levels \subseteq Nat /\ Threshold \in Nat
    /\ BusSize \in Nat \ {0} /\ BatchSize \in Nat \ {0} /\ MaxEvents \in Nat
    /\ Faults \subseteq {"undone", "leftOpen"}

VARIABLES
    log,     \* severities of the events sent so far; an event is its number
    next,    \* the event the writer receives next
    batch,   \* events that wait to be stored
    disk,    \* the committed events table
    conn,    \* the table as the connection sees it
    open,    \* a transaction is left open on the connection
    listening,  \* the writer has subscribed to the bus since the daemon started
    client,  \* the stream of one browser
    lost,    \* history: events the writer missed or could not store
    pruned   \* history: events deleted because of their age

eventVars == <<log, next, batch, disk, conn, open, listening, client, lost, pruned>>

Events == 1..Len(log)

Severe(n) == log[n] >= Threshold

\* The oldest event that is still on the bus
Oldest == IF Len(log) > BusSize THEN Len(log) - BusSize + 1 ELSE 1

\* The events table: the last id given to a row, and the event of each row.  Ids are
\* AUTOINCREMENT: never given twice.
EmptyTable == [last |-> 0, rows |-> <<>>]

Stored(table) == Range(table.rows)

\* The rows of the events at some places of a batch, behind those of a table.  A row
\* that was not inserted leaves its id unused: what matters is the order of the ids.
Inserted(table, events, kept) ==
    [last |-> table.last + Len(events),
     rows |-> [i \in DOMAIN table.rows \cup {table.last + k : k \in kept} |->
                  IF i \in DOMAIN table.rows THEN table.rows[i] ELSE events[i - table.last]]]

\* The rows of a table without some events
Without(table, events) ==
    [table EXCEPT !.rows = Restrict(@, {i \in DOMAIN @ : @[i] \notin events})]

NoClient == [on |-> FALSE, start |-> 1, at |-> 1, got |-> 0, missed |-> 0]

\* AlertSender::send, the part that concerns the bus: never waits
SendToBus(level) ==
    /\ Len(log) < MaxEvents
    /\ log' = Append(log, level)
    /\ UNCHANGED <<next, batch, disk, conn, open, listening, client, lost, pruned>>

\* Mutant: the batch is stored from its end
StoreReversed(events) ==
    /\ batch' = <<>>
    /\ conn' = Inserted(conn, Reverse(events), DOMAIN events) /\ disk' = conn'
    /\ UNCHANGED <<open, lost>>

\* Mutant: a transaction that is in the way is rolled back, with the rows it had
RollBackOpen(events) ==
    /\ batch' = <<>>
    /\ IF open
       THEN /\ conn' = disk /\ open' = FALSE /\ UNCHANGED disk
            /\ lost' = lost \cup Range(events) \cup (Stored(conn) \ Stored(disk))
       ELSE \E kept \in SUBSET DOMAIN events :
               LET table == Inserted(conn, events, kept) IN
               /\ conn' = table
               /\ lost' = lost \cup {events[k] : k \in DOMAIN events \ kept}
               /\ \/ disk' = table /\ open' = FALSE
                  \/ disk' = disk /\ open' = TRUE

\* batch_insert_events: whatever the outcome, the batch is gone.  BEGIN fails while a
\* transaction is open; an INSERT that fails is passed over; a failed COMMIT has
\* undone the transaction, or leaves it open with its rows
BatchInsertEvents(events) ==
    /\ batch' = <<>>
    /\ \/ /\ open
          /\ lost' = lost \cup Range(events)
          /\ UNCHANGED <<disk, conn, open>>
       \/ \E kept \in SUBSET DOMAIN events :
            LET table == Inserted(conn, events, kept)
                passed == {events[k] : k \in DOMAIN events \ kept}
            IN
            /\ ~open
            /\ \/ /\ conn' = table /\ disk' = table /\ open' = FALSE
                  /\ lost' = lost \cup passed
               \/ /\ "undone" \in Faults
                  /\ lost' = lost \cup Range(events)
                  /\ UNCHANGED <<disk, conn, open>>
               \/ /\ "leftOpen" \in Faults
                  /\ conn' = table /\ open' = TRUE
                  /\ lost' = lost \cup passed
                  /\ UNCHANGED disk

\* Mutant: the receiver continues behind the newest event
SkipToNewest ==
    /\ next' = Len(log)
    /\ lost' = lost \cup {n \in next..(Oldest - 1) : Severe(n)}
    /\ UNCHANGED <<batch, disk, conn, open>>

\* The writer goes on at a later event
SkipTo(n) ==
    /\ next' = n
    /\ lost' = lost \cup {m \in next..(n - 1) : Severe(m)}
    /\ UNCHANGED <<batch, disk, conn, open>>

\* db_rx.recv() returns Lagged
Skip == SkipTo(Oldest)

\* event_bus_tx.subscribe(), once the readers of the kernel's events have been running
\* for a while: what they have sent by then reaches nobody
Subscribe ==
    /\ ~listening /\ listening' = TRUE
    /\ SkipTo(Len(log) + 1)
    /\ UNCHANGED <<log, client, pruned>>

\* db_rx.recv() returns an event
Gather ==
    /\ next' = next + 1
    /\ \/ ~Severe(next) /\ UNCHANGED <<batch, disk, conn, open, lost>>
       \/ /\ Severe(next) /\ Len(batch) + 1 < BatchSize
          /\ batch' = Append(batch, next)
          /\ UNCHANGED <<disk, conn, open, lost>>
       \/ /\ Severe(next) /\ Len(batch) + 1 >= BatchSize
          /\ BatchInsertEvents(Append(batch, next))

Receive ==
    /\ listening /\ next <= Len(log)
    /\ IF next < Oldest THEN Skip ELSE Gather
    /\ UNCHANGED <<log, listening, client, pruned>>

\* Mutant: the timer only serves a batch of several events
FlushTimerIfSeveral ==
    /\ Len(batch) > 1
    /\ BatchInsertEvents(batch)
    /\ UNCHANGED <<log, next, listening, client, pruned>>

FlushTimer ==
    /\ batch # <<>>
    /\ BatchInsertEvents(batch)
    /\ UNCHANGED <<log, next, listening, client, pruned>>

\* prune_old_events.  Event readers stamp their events before they send them, each in
\* its own task: the rows before the cutoff need not be the first ones, so any will do
PruneOldEvents(old) ==
    /\ listening /\ old # {}
    /\ conn' = Without(conn, old)
    /\ disk' = IF open THEN disk ELSE conn'
    /\ pruned' = pruned \cup old
    /\ UNCHANGED <<log, next, batch, open, listening, client, lost>>

Connect ==
    /\ listening /\ ~client.on
    /\ client' = [on |-> TRUE, start |-> Len(log) + 1, at |-> Len(log) + 1, got |-> 0, missed |-> 0]
    /\ UNCHANGED <<log, next, batch, disk, conn, open, listening, lost, pruned>>

Disconnect ==
    /\ client.on /\ client' = NoClient
    /\ UNCHANGED <<log, next, batch, disk, conn, open, listening, lost, pruned>>

\* Mutant: a lag message that always says one
StreamLagOne ==
    /\ client.on /\ client.at <= Len(log)
    /\ client' = IF client.at < Oldest
                 THEN [client EXCEPT !.at = Oldest, !.missed = @ + 1]
                 ELSE [client EXCEPT !.at = @ + 1, !.got = @ + 1]
    /\ UNCHANGED <<log, next, batch, disk, conn, open, listening, lost, pruned>>

\* event_stream: an event, or a lag message with the number of events missed
Stream ==
    /\ client.on /\ client.at <= Len(log)
    /\ client' = IF client.at < Oldest
                 THEN [client EXCEPT !.at = Oldest, !.missed = @ + (Oldest - client.at)]
                 ELSE [client EXCEPT !.at = @ + 1, !.got = @ + 1]
    /\ UNCHANGED <<log, next, batch, disk, conn, open, listening, lost, pruned>>

\* The daemon ends and starts again: bus, batch and connection are new, and the
\* readers run before the writer
RestartDaemon ==
    /\ next' = Len(log) + 1 /\ batch' = <<>>
    /\ conn' = disk /\ open' = FALSE /\ listening' = FALSE /\ client' = NoClient
    /\ lost' = lost \cup Range(batch) \cup (Stored(conn) \ Stored(disk))
                    \cup {n \in next..Len(log) : Severe(n)}
    /\ UNCHANGED <<log, disk, pruned>>

EventInit ==
    /\ log = <<>> /\ next = 1 /\ batch = <<>> /\ disk = EmptyTable /\ conn = EmptyTable
    /\ open = FALSE /\ listening = FALSE /\ client = NoClient /\ lost = {} /\ pruned = {}

EventNext ==
    \/ \E level \in Levels : SendToBus(level)
    \/ Subscribe
    \/ Receive \/ FlushTimer
    \/ \E old \in SUBSET Stored(conn) : PruneOldEvents(old)
    \/ Connect \/ Disconnect \/ Stream
    \/ RestartDaemon

\* The start of the daemon goes on until the writer listens, its loop takes what the
\* bus has, and its timer fires every 500 ms
EventSpec ==
    /\ EventInit /\ [][EventNext]_eventVars
    /\ WF_eventVars(Subscribe)
    /\ WF_eventVars(Receive) /\ WF_eventVars(FlushTimer)

----------------------------------------------------------------------------
(* Properties.                                                             *)

\* A row for each of some events, with ids that were given
IsTable(t) ==
    /\ t = [last |-> t.last, rows |-> t.rows]
    /\ t.last \in Nat
    /\ t.rows \in [DOMAIN t.rows -> Events] /\ DOMAIN t.rows \subseteq 1..t.last

EventTypeOK ==
    /\ log \in Seq(Levels) /\ Len(log) <= MaxEvents
    /\ next \in 1..(Len(log) + 1)
    /\ batch \in Seq(Events) /\ Len(batch) < BatchSize
    /\ IsTable(disk) /\ IsTable(conn)
    /\ open \in BOOLEAN /\ listening \in BOOLEAN
    /\ client \in [on : BOOLEAN, start : Nat, at : Nat, got : Nat, missed : Nat]
    /\ lost \subseteq Events /\ pruned \subseteq Events

Rising(s) == \A i, j \in DOMAIN s : i < j => s[i] < s[j]

\* The event list, which is sorted by row id, shows every event at most once and in
\* the order in which the events were sent, whatever lag, failed inserts, failed
\* commits, pruning and restarts have done to it; what waits in the batch comes after
\* it (db.rs 161-192, main.rs 513-566).
RowsInOrder ==
    /\ Rising(conn.rows) /\ Rising(disk.rows) /\ Rising(batch)
    /\ \A m \in Stored(conn), n \in Range(batch) : m < n
    /\ \A n \in Stored(conn) \cup Range(batch) : Severe(n) /\ n < next

\* An event that is severe enough and that the writer has passed is in the table or
\* in the batch, or lost or pruned: a lag, a failed insert, a failed transaction, a
\* restart, a start in which the writer does not listen yet and age are the only gaps in
\* the event list (main.rs 444-583).
NothingVanishes ==
    /\ \A n \in 1..(next - 1) :
          Severe(n) => n \in Stored(conn) \cup Range(batch) \cup lost \cup pruned
    /\ (Stored(conn) \cup Range(batch)) \cap lost = {}
    /\ ~open => conn = disk

\* The events a browser has shown and the ones its lag messages have counted are all
\* the events since it connected (sse.rs 10-50).
ClientAccounts ==
    client.on => client.got + client.missed = client.at - client.start

\* What has become of an event.  One that was pruned is back if a restart undoes the
\* transaction it was pruned in.
FateOf(n) ==
    IF n \notin Events THEN "coming"
    ELSE IF ~Severe(n) THEN "ignored"
    ELSE IF n \in lost THEN "lost"
    ELSE IF n \in Stored(conn) THEN "stored"
    ELSE IF n \in pruned THEN "pruned" ELSE "waiting"

EventFate == [n \in 1..MaxEvents |-> FateOf(n)]

Ledger == INSTANCE EventLedger WITH Numbers <- 1..MaxEvents, fate <- EventFate

\* The event list keeps the promises of EventLedger: events are stored in the order in
\* which they were sent, each is stored or lost when its turn comes, and what is lost
\* never comes back, whatever lags, failed transactions, pruning and restarts do to the
\* table (main.rs 513-583, db.rs 161-229).
ImplementsEventLedger == Ledger!LedgerSpec

\* Every event that is severe enough is in the end in the table, lost or pruned: the
\* batch never waits for another event to fill it (main.rs 556-563).
EventuallySettled ==
    \A n \in 1..MaxEvents :
        (n \in Events /\ Severe(n)) ~> (n \in Stored(conn) \cup lost \cup pruned)
=============================================================================
