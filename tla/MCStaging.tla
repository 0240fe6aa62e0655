----------------------------- MODULE MCStaging -----------------------------
(***************************************************************************)
(* Staging for TLC: as the executor keeps it, and as the desktop's review  *)
(* pane shows, checks and publishes it, one of them in each behaviour. The *)
(* pane sees the executor's operations as single steps.                    *)
(***************************************************************************)
EXTENDS Staging, Review

CONSTANTS c1, c2

VARIABLE part

InExecutor(A) == part = "executor" /\ A /\ UNCHANGED <<reviewVars, part>>
InPane(A) == part = "pane" /\ A /\ UNCHANGED <<vars, part>>

\* Path 1 exists on the host at first and path 2 does not: both an update or
\* delete and a create are possible from the start.
MCInit ==
    /\ part \in {"executor", "pane"} /\ StagingInit /\ ReviewInit
    /\ written = [p \in Paths |-> IF p = 1 THEN <<c1>> ELSE <<Absent>>]

MCNext == InExecutor(Next) \/ InPane(ReviewNext)

MCSpec == MCInit /\ [][MCNext]_<<vars, reviewVars, part>>
=============================================================================
