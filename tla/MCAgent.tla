------------------------------ MODULE MCAgent ------------------------------
(***************************************************************************)
(* A turn of the agent loop for TLC: a mutation followed by two parallel   *)
(* reads.  A budget of four calls covers one such turn, and of a second    *)
(* the mutation alone.                                                     *)
(***************************************************************************)
EXTENDS AgentLoop

MCCallLists == {<<"write", "read", "read">>}
=============================================================================
