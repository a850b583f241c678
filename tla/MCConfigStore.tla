--------------------------- MODULE MCConfigStore ---------------------------
(* Small instances of ConfigStore for TLC.                                 *)
EXTENDS ConfigStore, TLC

CONSTANTS t1, t2, n1, default, odd, cmd, tool, quiet, broken

\* An odd policy has an escape in it, which reads back as something else.
AfterQuoting == [p \in Policies |-> default]

Symmetry == Permutations(Tasks) \cup Permutations(Commands)
=============================================================================
