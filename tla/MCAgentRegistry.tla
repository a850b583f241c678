-------------------------- MODULE MCAgentRegistry --------------------------
(* Instances of AgentRegistry: launches that share one name.               *)
EXTENDS AgentRegistry

CONSTANTS l1, l2, l3, n1, n2

OneName == [l \in Launches |-> n1]

\* l3 has a name of its own
TwoNames == [l \in Launches |-> IF l = l3 THEN n2 ELSE n1]
=============================================================================
