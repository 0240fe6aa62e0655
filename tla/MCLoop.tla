------------------------------- MODULE MCLoop -------------------------------
(***************************************************************************)
(* The agent runtime for TLC: the loop, its permissions, its record of     *)
(* what it has read, and its compaction, one of them in each behaviour.    *)
(* They meet only at their interfaces: the loop takes any outcome of a     *)
(* call, and each of the others any sequence of calls.                     *)
(***************************************************************************)
EXTENDS MCAgent, MCPermissions, MCGuards, Compaction

VARIABLE part

loopVars == <<agentVars, permVars, guardVars, compVars, part>>

MCInit ==
    /\ part \in {"loop", "permissions", "files", "compaction"}
    /\ AgentInit /\ PermInit /\ GuardInit /\ CompInit
    /\ part # "permissions" => session = [policy |-> "prompt", network |-> FALSE]
    /\ part # "compaction" => hist = Prefix

MCNext ==
    /\ UNCHANGED part
    /\ \/ part = "loop" /\ AgentNext /\ UNCHANGED <<permVars, guardVars, compVars>>
       \/ part = "permissions" /\ PermNext /\ UNCHANGED <<agentVars, guardVars, compVars>>
       \/ part = "files" /\ GuardNext /\ UNCHANGED <<agentVars, permVars, compVars>>
       \/ part = "compaction" /\ CompNext /\ UNCHANGED <<agentVars, permVars, guardVars>>

MCSpec == MCInit /\ [][MCNext]_loopVars
=============================================================================
