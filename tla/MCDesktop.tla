----------------------------- MODULE MCDesktop -----------------------------
(***************************************************************************)
(* The desktop for TLC: runs with their conversations on screen, the       *)
(* database of conversations, and the Docker runtime, one of them in each  *)
(* behaviour. Each has its own small model of what it asks of another (a   *)
(* run is active; the workspace is ready).                                 *)
(***************************************************************************)
EXTENDS Generation, Runtime, Conversations

VARIABLE part

desktopVars == <<genVars, runtimeVars, storeVars, part>>

InRuns(A) == part = "runs" /\ A /\ UNCHANGED <<runtimeVars, storeVars, part>>
InRuntime(A) == part = "runtime" /\ A /\ UNCHANGED <<genVars, storeVars, part>>
InStore(A) == part = "store" /\ A /\ UNCHANGED <<genVars, runtimeVars, part>>

\* Only the part a behaviour is about starts in more than one state.
MCInit ==
    /\ part \in {"runs", "runtime", "store"}
    /\ GenerationInit /\ RuntimeInit /\ StoreInit
    /\ current = "a"
    /\ part # "store" => last = 0

MCNext ==
    \/ InRuns(GenerationNext) \/ InRuntime(RuntimeNext)
    \/ InStore(StoreNext)

\* The fairness of GenerationSpec and of RuntimeSpec.
MCSpec ==
    /\ MCInit /\ [][MCNext]_desktopVars
    /\ WF_desktopVars(InRuns(Slot))
    /\ WF_desktopVars(InRuntime(Booting)) /\ WF_desktopVars(InRuntime(TimesOut))
    /\ WF_desktopVars(InRuntime(~aborted /\ Deliver))
    /\ WF_desktopVars(InRuntime(~aborted /\ ProbeArrives))
    /\ WF_desktopVars(InRuntime(Poll))
    /\ WF_desktopVars(InRuntime(~aborted /\ agentRun /\ RunStartsOrEnds))
=============================================================================
