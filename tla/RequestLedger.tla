--------------------------- MODULE RequestLedger ---------------------------
(***************************************************************************)
(* What the permission workflow promises of every request, without its     *)
(* channels, timers, lists and locks: a request is asked, settled at most  *)
(* once, and its agent is answered at most once.  The agent is told yes    *)
(* only if its own request was approved; it may be told no of a request    *)
(* that was approved (the answer came too late).                           *)
(***************************************************************************)
CONSTANT Requests

VARIABLES
    state,   \* "new", "open" until it is settled, "closed" once answered
    answer   \* "none", "yes" or "no": what the agent was told

ledgerVars == <<state, answer>>

LedgerTypeOK ==
    /\ state \in [Requests -> {"new", "open", "approved", "denied", "closed"}]
    /\ answer \in [Requests -> {"none", "yes", "no"}]

LedgerInit ==
    /\ state = [r \in Requests |-> "new"]
    /\ answer = [r \in Requests |-> "none"]

Ask(r) ==
    /\ state[r] = "new"
    /\ state' = [state EXCEPT ![r] = "open"]
    /\ UNCHANGED answer

\* A rule or a limit answers at once
Dismiss(r, what) ==
    /\ state[r] = "new"
    /\ state' = [state EXCEPT ![r] = "closed"]
    /\ answer' = [answer EXCEPT ![r] = what]

\* A person decides
Settle(r, how) ==
    /\ state[r] = "open"
    /\ state' = [state EXCEPT ![r] = how]
    /\ UNCHANGED answer

\* The agent is told; no is always safe
Close(r, what) ==
    /\ state[r] \in {"approved", "denied"}
    /\ what = "yes" => state[r] = "approved"
    /\ state' = [state EXCEPT ![r] = "closed"]
    /\ answer' = [answer EXCEPT ![r] = what]

\* Nobody decided in time
Expire(r) ==
    /\ state[r] = "open"
    /\ state' = [state EXCEPT ![r] = "closed"]
    /\ answer' = [answer EXCEPT ![r] = "no"]

\* The daemon stops: what is under way is never answered
LoseAll ==
    /\ state' = [r \in Requests |-> IF state[r] = "new" THEN "new" ELSE "closed"]
    /\ UNCHANGED answer

LedgerNext ==
    \/ \E r \in Requests : Ask(r)
    \/ \E r \in Requests, what \in {"yes", "no"} : Dismiss(r, what)
    \/ \E r \in Requests, how \in {"approved", "denied"} : Settle(r, how)
    \/ \E r \in Requests, what \in {"yes", "no"} : Close(r, what)
    \/ \E r \in Requests : Expire(r)
    \/ LoseAll

LedgerSpec == LedgerInit /\ [][LedgerNext]_ledgerVars
=============================================================================
