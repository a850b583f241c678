----------------------------- MODULE IpcServer -----------------------------
(***************************************************************************)
(* The daemon's socket: connections, the semaphore that limits them, and   *)
(* what each of them waits for.  A connection is one task and carries one  *)
(* message.  A permission request keeps its slot until somebody decides,   *)
(* through another connection or through the dashboard, or until its time  *)
(* is up.  Reads have a time limit, writes have none: an answer that does  *)
(* not fit the buffer of the socket keeps its slot until the peer reads    *)
(* it.  What requests and decisions do is the subject of Permissions; here *)
(* they only come and go.                                                  *)
(***************************************************************************)
EXTENDS Naturals, FiniteSets

CONSTANTS
    Clients,         \* processes that may connect, each once at a time
    Agents,          \* the agents the daemon knows
    Strangers,       \* agent names it does not know
    MaxConnections,  \* MAX_IPC_CONNECTIONS, 64 in the code
    MaxPending       \* max_pending_per_agent

ASSUME ServerAssumption ==
    /\ IsFiniteSet(Clients) /\ IsFiniteSet(Agents) /\ Agents \cap Strangers = {}
    /\ MaxConnections \in Nat \ {0} /\ MaxPending \in Nat

VARIABLES
    conn,    \* where the connection of each client stands
    message, \* what it has sent
    pending  \* pending_permissions: the clients whose requests are listed

serverVars == <<conn, message, pending>>

\* "request" stands for a permission request of an agent, "decide" for an approval
\* or a denial, "other" for what is answered at once
Messages == [op : {"request"}, agent : Agents \cup Strangers]
                \cup [op : {"decide"}, of : Clients] \cup [op : {"other"}]

NoMessage == [op |-> "none"]

InUse == {c \in Clients : conn[c] # "closed"}
Waiting == {c \in Clients : conn[c] = "waiting"}
PendingOf(a) == {c \in pending : message[c].agent = a}

Goto(c, where) == conn' = [conn EXCEPT ![c] = where]

----------------------------------------------------------------------------
(* start_ipc_server and handle_connection.                                 *)

\* accept: a peer that is not root, and one for whom there is no permit, is dropped
Accept(c) ==
    /\ conn[c] = "closed" /\ Cardinality(InUse) < MaxConnections
    /\ Goto(c, "length")
    /\ UNCHANGED <<message, pending>>

\* The task ends and drops its permit
End(c) ==
    /\ Goto(c, "closed")
    /\ message' = [message EXCEPT ![c] = NoMessage]

\* The four bytes of the length have arrived, and announce no more than is allowed
ReadLength(c) ==
    /\ conn[c] = "length"
    /\ Goto(c, "body")
    /\ UNCHANGED <<message, pending>>

\* The peer hangs up, announces too much, or sends what is no request
ReadFails(c) ==
    /\ conn[c] \in {"length", "body"}
    /\ End(c) /\ UNCHANGED pending

\* Mutant: only the first of the two reads has a time limit
ReadTimesOutOnce(c) ==
    /\ conn[c] = "length"
    /\ End(c) /\ UNCHANGED pending

\* IPC_READ_TIMEOUT, for each of the two reads
ReadTimesOut(c) ==
    /\ conn[c] \in {"length", "body"}
    /\ End(c) /\ UNCHANGED pending

\* A request that validate_request objects to is answered, not processed
Invalid(c) ==
    /\ conn[c] = "body"
    /\ Goto(c, "reply")
    /\ UNCHANGED <<message, pending>>

ReadBody(c, m) ==
    /\ conn[c] = "body"
    /\ Goto(c, "process")
    /\ message' = [message EXCEPT ![c] = m]
    /\ UNCHANGED pending

\* A short answer goes to the buffer of the socket at once, or the peer is gone
Reply(c) ==
    /\ conn[c] = "reply"
    /\ End(c) /\ UNCHANGED pending

\* A long answer is written as the peer reads it, or hangs up; it need do neither
PeerReads(c) ==
    /\ conn[c] = "sending"
    /\ End(c) /\ UNCHANGED pending

----------------------------------------------------------------------------
(* process_request.                                                        *)

Process(c, op) == conn[c] = "process" /\ message[c].op = op

\* Mutant: one request more than the limit is let in
TooManyPendingOffByOne(a) == Cardinality(PendingOf(a)) > MaxPending

TooManyPending(a) == Cardinality(PendingOf(a)) >= MaxPending

\* Requests of strangers, requests beyond the limit, and those a rule or the rate
\* limiter settles are answered at once
Dismiss(c) ==
    /\ Process(c, "request")
    /\ Goto(c, "reply")
    /\ UNCHANGED <<message, pending>>

Enqueue(c) ==
    /\ Process(c, "request") /\ message[c].agent \in Agents
    /\ ~ TooManyPending(message[c].agent)
    /\ Goto(c, "waiting") /\ pending' = pending \cup {c}
    /\ UNCHANGED message

\* handle_approve_permission and handle_deny_permission: what is listed is settled,
\* anything else is an error, and both are answered
Decide(c) ==
    /\ Process(c, "decide")
    /\ Goto(c, "reply") /\ pending' = pending \ {message[c].of}
    /\ UNCHANGED message

\* The same, by the dashboard
DashboardDecides(c) ==
    /\ c \in pending
    /\ pending' = pending \ {c}
    /\ UNCHANGED <<conn, message>>

\* The lists of agents, grants and requests have no limit to their length.
ProcessOther(c) ==
    /\ Process(c, "other")
    /\ Goto(c, "reply") \/ Goto(c, "sending")
    /\ UNCHANGED <<message, pending>>

\* The handler receives its decision
Answered(c) ==
    /\ c \in Waiting \ pending
    /\ Goto(c, "reply")
    /\ UNCHANGED <<message, pending>>

\* Nobody has decided in time
TimedOut(c) ==
    /\ c \in Waiting \cap pending
    /\ Goto(c, "reply") /\ pending' = pending \ {c}
    /\ UNCHANGED message

ServerInit ==
    /\ conn = [c \in Clients |-> "closed"]
    /\ message = [c \in Clients |-> NoMessage]
    /\ pending = {}

\* Every step of a connection's task after it was accepted that does not depend on
\* its peer
Step(c) ==
    \/ ReadTimesOut(c) \/ Reply(c)
    \/ Dismiss(c) \/ Enqueue(c) \/ Decide(c) \/ ProcessOther(c)
    \/ Answered(c) \/ TimedOut(c)

ServerNext ==
    \E c \in Clients :
        \/ Accept(c) \/ ReadLength(c) \/ ReadFails(c) \/ Invalid(c)
        \/ \E m \in Messages : ReadBody(c, m)
        \/ PeerReads(c)
        \/ DashboardDecides(c)
        \/ Step(c)

\* Nothing is assumed of peers and people: timers fire, and the tasks that are ready
\* run
ServerSpec ==
    /\ ServerInit /\ [][ServerNext]_serverVars
    /\ \A c \in Clients : WF_serverVars(Step(c))

----------------------------------------------------------------------------
(* Properties.                                                             *)

\* Requests that wait for a person never take up all slots, so that a decision by
\* guardian-ctl finds one as soon as the others have been served, provided that the
\* agents' limits add up to less than MAX_IPC_CONNECTIONS (ipc.rs 209, 847-851).
RoomForDecisions ==
    Cardinality(Agents) * MaxPending < MaxConnections
        => Cardinality(Waiting \cap pending) < MaxConnections

\* No agent has more requests listed than max_pending_per_agent, however many of them
\* arrive at once, are decided by either way or time out (ipc.rs 845-860).
PendingBounded == \A a \in Agents : Cardinality(PendingOf(a)) <= MaxPending

\* Every connection ends and gives back its slot, whether or not anybody decides, and
\* whatever its peer sends or fails to send, unless the peer never reads an answer too
\* long for the buffer of the socket: only reads have a time limit (ipc.rs 232-287).
EveryConnectionEnds ==
    \A c \in Clients : []<>(conn[c] = "closed") \/ <>[](conn[c] = "sending")
=============================================================================
