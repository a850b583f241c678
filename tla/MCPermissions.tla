--------------------------- MODULE MCPermissions ---------------------------
(* A small instance of Permissions: two requests of one agent, for an       *)
(* ordinary file, for a path that is always denied and for one that is      *)
(* always approved.  The three paths share their stored bytes, and updates  *)
(* write the policy agents have: keys and policies are TempGrants' concern. *)
EXTENDS Permissions

CONSTANTS a1, doc, key, tmp, t1, t2

MCAgents == {a1}
MCFilePaths == {doc, key, tmp}
MCExecPaths == {}
MCPrefixPaths == {}
MCKeyBytes == [p \in FilePaths |-> doc]
MCStaticKeys == {}
MCDefaultExecPolicy == [NoPolicy EXCEPT !.present = TRUE]
MCOperatorPolicies == {MCDefaultExecPolicy}
MCAutoDeny == {key}
MCAutoApprove == {tmp}
MCClassOf == [p \in FilePaths |-> IF p = key THEN "critical" ELSE "other"]
MCTimeout == [r \in RiskLevels |-> IF r = "low" THEN 1 ELSE 2]
=============================================================================
