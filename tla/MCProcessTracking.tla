------------------------- MODULE MCProcessTracking -------------------------
(* Three ids under a small configuration whose agents get into each        *)
(* other's way, and paths spelled in every way up to a length.             *)
EXTENDS ProcessTracking, TLC

CONSTANTS p1, p2, p3

Tree(p) == [kind |-> "tree", path |-> p]
Level(p) == [kind |-> "level", path |-> p]
Exact(p) == [kind |-> "exact", path |-> p]
Rules(default, allow, deny, read_only) ==
    [default |-> default, allow |-> allow, deny |-> deny, read_only |-> read_only]

\* An agent by a short name, one by a name that is cut, and one in a cgroup
MCAgents ==
    <<[name |-> "coder", identity |-> "unset", process_name |-> "coder",
       file |-> Rules("deny", {Tree(<<"", "a">>)}, {Tree(<<"", "a", "b">>), Level(<<"", "c">>)},
                      {Exact(<<"", "c">>)}),
       exec |-> Rules("allow", {}, {Exact(<<"", "usr", "bin", "ld">>)}, {}),
       net |-> Rules("deny", {443}, {25}, {})],
      [name |-> "assistant-nightly", identity |-> "comm", process_name |-> "unset",
       file |-> Rules("allow", {}, {Exact(<<"", "d">>)}, {}),
       exec |-> NoPolicy, net |-> Rules("Deny", {}, {}, {})],
      [name |-> "boxed", identity |-> "unset", process_name |-> "unset",
       file |-> Rules("deny", {Tree(<<"", "d">>)}, {}, {}),
       exec |-> NoPolicy, net |-> Rules("allow", {}, {80}, {})]>>

MCCommKey(name) == IF name = "assistant-nightly" THEN "assistant-night" ELSE name

\* The dynamic linker and the denied program are given one short name
MCNames == {"coder", "ld"}
MCOnDisk == {<<"", "bin", "ld">>, <<"", "usr", "bin", "ld">>}
MCPrograms == {<<"", "usr", "bin", "ld">>, <<"", "bin", "ld">>, <<"", "opt", "coder">>,
               <<"", "lib64", "ld">>}
MCLinkers == {<<"", "lib64", "ld">>}
MCShorter(p, q) == q = <<"", "lib64", "ld">> /\ p = <<"", "bin", "ld">>

\* Every spelling of up to four segments, and a few longer ones
MCSpellings ==
    {<<"">> \o q : q \in UNION {[1..n -> {"", ".", "..", "a", "b"}] : n \in 1..4}}
        \cup {<<"c", "..", "a">>, <<"", "a", "x", ".", "..", "..", "d">>,
              <<"", "a", "..", "proc", "7", "root", "a", ".", "b">>,
              <<"", "", "proc", "self", "root", "proc", "7", "root", "c">>,
              <<"", ".", "proc", "7", "root", "proc", "7", "root", "proc", "7", "root", "c">>}

\* Every file of up to three segments: some under a "/*" rule, a rule of another
\* agent or a grant, some not spelled cleanly
MCTargets == [kind \in Kinds |->
                 CASE kind = "file" -> {<<"">> \o q : q \in UNION {
                                           [1..n -> {"", "..", "a", "b", "c", "d"}] : n \in 1..3}}
                                       \cup {<<"", "proc", "7", "root", "a", "b">>}
                   [] kind = "exec" -> MCPrograms \cup {<<"", "memfd:x">>}
                   [] kind = "net" -> {0, 22, 25, 80, 443}]

MCGrants == {Tree(<<"", "a", "b">>)}
=============================================================================
