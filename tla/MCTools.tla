------------------------------ MODULE MCTools ------------------------------
(***************************************************************************)
(* The long-running parts behind a run, for TLC: commands with their       *)
(* checkpoints in the executor and the runner, the nested agent of         *)
(* investigate_repository, and the gateway's turns with the provider, one  *)
(* of them in each behaviour.                                              *)
(***************************************************************************)
EXTENDS Commands, Investigation, ModelTurns

VARIABLE part

toolVars == <<cmdVars, invVars, turnVars, part>>

InCommands(A) == part = "commands" /\ A /\ UNCHANGED <<invVars, turnVars, part>>
InInvestigation(A) == part = "investigation" /\ A /\ UNCHANGED <<cmdVars, turnVars, part>>
InTurns(A) == part = "turns" /\ A /\ UNCHANGED <<cmdVars, invVars, part>>

\* Only the part a behaviour is about starts in more than one state.
MCInit ==
    /\ part \in {"commands", "investigation", "turns"}
    /\ CommandsInit /\ InvInit /\ TurnsInit
    /\ part # "turns" => effort = 0

MCNext == InCommands(CommandsNext) \/ InInvestigation(InvNext) \/ InTurns(TurnsNext)

\* The fairness of the three specifications.
MCSpec ==
    /\ MCInit /\ [][MCNext]_toolVars
    /\ \A s \in Slots : WF_toolVars(InCommands(CommandStep(s)))
    /\ WF_toolVars(InCommands(RunnerStep))
    /\ WF_toolVars(InInvestigation(InvStep))
    /\ WF_toolVars(InTurns(ProviderStep))

\* Whatever a run waits for ends: a command, an investigation, a turn of the provider.
AllWorkEnds == CommandsEnd /\ InvestigationAnswers /\ TurnsEnd
=============================================================================
