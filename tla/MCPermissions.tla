--------------------------- MODULE MCPermissions ---------------------------
(***************************************************************************)
(* Requests and rules for TLC: two files of one directory and one outside  *)
(* it, a write without a path, a command, the same with an argument inside *)
(* a compound command, and one whose tokens cannot be read; a rule that    *)
(* denies a directory and two that allow bash.                             *)
(***************************************************************************)
EXTENDS Permissions

Req(tool, paths, tokens, simple) ==
    [mode |-> "agent", tool |-> tool, paths |-> paths, tokens |-> tokens,
     simple |-> simple]
Rule(tool, d, prefix, tokens) ==
    [mode |-> "agent", tool |-> tool, decision |-> d, prefix |-> prefix,
     tokens |-> tokens, enabled |-> TRUE]

Ax == <<"a", "x">>
Ay == <<"a", "y">>

MCRequests ==
    {Req("write", {Ax}, <<>>, TRUE), Req("write", {Ay}, <<>>, TRUE),
     Req("apply_patch", {Ax, Ay}, <<>>, TRUE),
     Req("apply_patch", {Ax, <<"b">>}, <<>>, TRUE),
     Req("bash", {}, <<"t">>, TRUE), Req("bash", {}, <<"t", "o">>, FALSE),
     Req("write", {}, <<>>, TRUE), Req("bash", {}, <<>>, TRUE)}

MCSpecs ==
    {Rule("write", "deny", <<"a">>, <<>>), Rule("bash", "allow", <<>>, <<"t">>),
     Rule("bash", "allow", <<>>, <<>>)}
=============================================================================
