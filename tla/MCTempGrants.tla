--------------------------- MODULE MCTempGrants ---------------------------
(* A small instance of TempGrants: one agent; a directory, a file that the *)
(* configuration allows and two long paths that share their stored bytes;  *)
(* and a command that only grants allow.                                   *)
EXTENDS TempGrants, TLC

CONSTANTS a1, dir, file, long1, long2, cmd, dirBytes, fileBytes, longBytes

MCAgents == {a1}
MCFilePaths == {dir, file, long1, long2}
MCExecPaths == {cmd}
MCPrefixPaths == {dir}
MCKeyBytes == (dir :> dirBytes) @@ (file :> fileBytes) @@
              (long1 :> longBytes) @@ (long2 :> longBytes)
MCStaticKeys == {<<"exact", fileBytes>>}
MCOperatorPolicies == {NoPolicy}
MCDefaultExecPolicy == [present |-> TRUE, default |-> "allow", allow |-> {}]
=============================================================================
