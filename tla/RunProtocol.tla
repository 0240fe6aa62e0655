---------------------------- MODULE RunProtocol ----------------------------
(***************************************************************************)
(* What the gateway promises about its runs, whatever happens to the       *)
(* provider, the executor, the desktop or the gateway itself: a run is     *)
(* created once, is worked on, pauses only where it can be taken up again, *)
(* and ends at most once and for good.  One step may concern several runs  *)
(* (a restart).  Modules GatewayRuns and AgentLoop implement it.           *)
(***************************************************************************)
CONSTANT Runs

VARIABLES
    state,      \* of each run: "none", "created", "started", "paused" or how
                \* it ended
    safe        \* whether its snapshot is a safe point to resume from

protocolVars == <<state, safe>>

Ended == {"completed", "failed", "cancelled"}
Open(r) == state[r] \notin Ended \cup {"none"}

ProtocolInit ==
    /\ state = [r \in Runs |-> "none"]
    /\ safe = [r \in Runs |-> FALSE]

Create(r) == state[r] = "none" /\ state'[r] = "created"

\* Work on a run: its first turn, a resumed one, a snapshot on the way.
Work(r) == Open(r) /\ state'[r] = "started"

\* A pause keeps a point to resume from.
Pause(r) == Open(r) /\ state'[r] = "paused" /\ safe'[r]

\* Only a run that is being worked on completes; any run may fail or be
\* cancelled.
End(r) ==
    /\ Open(r)
    /\ state'[r] \in Ended
    /\ state'[r] = "completed" => state[r] = "started"

Unchanged(r) == state'[r] = state[r] /\ safe'[r] = safe[r]

ProtocolNext ==
    \A r \in Runs :
        Create(r) \/ Work(r) \/ Pause(r) \/ End(r) \/ Unchanged(r)

ProtocolSpec == ProtocolInit /\ [][ProtocolNext]_protocolVars
=============================================================================
