--------------------------- MODULE MCKernelHooks ---------------------------
(* Instances of KernelHooks: one rule of each sort, and one call on each.  *)
EXTENDS KernelHooks, TLC

CONSTANTS t1, t2, c1, c2

MCTargets == {"key", "safe", "vault", "manual", "notes", "sh", "smtp"}

\* "key", "safe" and "notes" are short enough to leave bytes of "manual" behind them;
\* "vault" is as long as a truncated path
MCLength == [p \in MCTargets |->
                CASE p \in {"key", "safe", "notes"} -> 2 [] p = "manual" -> 4 [] p = "vault" -> 5 [] OTHER -> 3]

MCLists == [l \in RuleLists |->
               CASE l = "DENY_EXACT"         -> {"key"}
                 [] l = "DENY_PREFIXES"      -> {"safe", "vault"}
                 [] l = "READONLY_PREFIXES"  -> {"manual"}
                 [] l = "ALLOW_EXACT"        -> {"notes"}
                 [] l = "EXEC_DENY_EXACT"    -> {"sh"}
                 [] l = "EXEC_ALLOW_EXACT"   -> {"notes"}
                 [] l = "NET_DENY_PORTS"     -> {"smtp"}
                 [] OTHER                    -> {}]

MCDefaultAllow == [k \in {"file", "exec", "net"} |-> k # "exec"]

Call(k, p) == [kind |-> k, target |-> p, dest |-> p]

\* An allowed open of a long path, and an unlink of a denied path that may be read over it
MCCalls == {Call("open", "manual"), Call("unlink", "safe")}

Symmetry == Permutations(Threads)

Together == [t \in Threads |-> c1]
=============================================================================
