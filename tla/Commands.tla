------------------------------ MODULE Commands ------------------------------
(***************************************************************************)
(* Commands on the staging tree: the bash tool of a run and the declared   *)
(* checks, the checkpoints they and the other mutations take, and the      *)
(* runner that executes one command at a time in a container of its own    *)
(* (executor/tools/bash.py, executor/checkpoints.py, ExecutorService       *)
(* run_check and discard, runner/server.py, runner/process.py).            *)
(*                                                                         *)
(* The tree is the set of changes it holds; a change is who made it and a  *)
(* number.  The executor runs on an event loop: a step is what it does     *)
(* between two awaits.  The processes of a command run beside it.          *)
(***************************************************************************)
EXTENDS Naturals, Sequences, FiniteSets, SequencesExt

CONSTANTS
    Keep,           \* checkpoints retained (DEFAULT_MAX_CHECKPOINTS)
    MaxStored,      \* byte budget of the checkpoint store, in changes
    MaxWrites,      \* bound: mutations by file tools
    MaxRuns,        \* bound: times each command is started
    MaxFaults       \* bound: executor crashes, lost runners, discards

ASSUME CommandBounds ==
    Keep \in Nat \ {0} /\ MaxStored \in Nat /\ MaxWrites \in Nat
    /\ MaxRuns \in Nat /\ MaxFaults \in Nat

VARIABLES
    tree,       \* staging: the changes it holds
    points,     \* checkpoints, oldest first: owner and tree
    objects,    \* the object store: changes whose content is kept
    cmds,       \* the executor's side of the two commands
    runner,     \* the runner: active command and its processes
    acked,      \* changes reported to a run as made
    raced,      \* changes made while a check was under way
    gone,       \* changes the user discarded
    made        \* counters: writes, runs of each command, faults

cmdVars == <<tree, points, objects, cmds, runner, acked, raced, gone, made>>

Slots == {"bash", "check"}
Idle == [pc |-> "idle", id |-> 0, cancelled |-> FALSE]
Free == [active |-> "none", id |-> 0, state |-> "idle", exit |-> "ok", left |-> FALSE]

-----------------------------------------------------------------------------
(* Checkpoints.                                                            *)

Stored(ps) == UNION {ps[i].tree : i \in DOMAIN ps}

\* _prune: the newest are kept, then the oldest go until the store fits.
Pruned(ps) ==
    LET newest == SubSeq(ps, IF Len(ps) > Keep THEN Len(ps) - Keep + 1 ELSE 1, Len(ps))
        fits == {i \in DOMAIN newest :
                   Cardinality(Stored(SubSeq(newest, i, Len(newest)))) <= MaxStored}
    IN  IF fits = {} THEN <<>> ELSE SubSeq(newest, Min(fits), Len(newest))

PrunedObjectsCurrent(ps) == ps[Len(ps)].tree

\* The objects that stay: those a retained checkpoint refers to.
PrunedObjects(ps) == Stored(ps)

\* create_checkpoint, which fails when even this one alone does not fit.
CanCheckpoint == Cardinality(tree) <= MaxStored
Checkpoint(owner) ==
    /\ CanCheckpoint
    /\ points' = Pruned(Append(points, [owner |-> owner, tree |-> tree]))
    /\ objects' = PrunedObjects(points')

\* restore_checkpoint: it raises, and changes nothing, when the checkpoint or
\* an object of a file to bring back is gone.
Point(owner) == {i \in DOMAIN points : points[i].owner = owner}

Restored(owner, t) ==
    IF Point(owner) = {} THEN t
    ELSE LET p == points[CHOOSE i \in Point(owner) : TRUE]
         IN  IF p.tree \ t \subseteq objects THEN p.tree ELSE t

-----------------------------------------------------------------------------
(* File tools: checkpoint, mutate, or fail and restore, in one step.       *)

CheckUnderWay == cmds["check"].pc # "idle"
Race(c) == raced' = IF CheckUnderWay THEN raced \cup {c} ELSE raced

Write(ok) ==
    LET c == <<"tool", made.writes + 1>>
    IN  /\ cmds["bash"].pc = "idle"     \* the calls of a run are sequential
        /\ made.writes < MaxWrites
        /\ made' = [made EXCEPT !.writes = @ + 1]
        /\ Checkpoint(c)
        /\ IF ok THEN tree' = tree \cup {c} /\ acked' = acked \cup {c} /\ Race(c)
           ELSE UNCHANGED <<tree, acked, raced>>
        /\ UNCHANGED <<cmds, runner, gone>>

-----------------------------------------------------------------------------
(* The executor's side of a command.                                       *)

Id(s) == <<s, cmds[s].id>>

\* BashRunner.run up to the request to the runner; run_check calls it.
Send(s) ==
    /\ cmds[s].pc = "idle" /\ made[s] < MaxRuns
    /\ made' = [made EXCEPT ![s] = @ + 1]
    /\ Checkpoint(<<s, made'[s]>>)
    /\ cmds' = [cmds EXCEPT ![s] = [Idle EXCEPT !.pc = "sent", !.id = made'[s]]]
    /\ UNCHANGED <<tree, runner, acked, raced, gone>>

\* The command is over for the executor: restored or kept.
Finish(s, t) == tree' = t /\ cmds' = [cmds EXCEPT ![s] = Idle]

\* RunnerServer._run: one command at a time.
Accept(s) ==
    /\ cmds[s].pc = "sent" /\ runner.active = "none"
    /\ runner' = [Free EXCEPT !.active = s, !.id = cmds[s].id, !.state = "starting"]
    /\ cmds' = [cmds EXCEPT ![s].pc = "running"]
    /\ UNCHANGED <<tree, points, objects, acked, raced, gone, made>>

Busy(s) ==
    /\ cmds[s].pc = "sent" /\ runner.active # "none"
    /\ Finish(s, Restored(Id(s), tree))
    /\ UNCHANGED <<points, objects, runner, acked, raced, gone, made>>

\* Cancelling: the executor notes it; the runner kills the group only when it
\* knows the pid.
Cancel ==
    /\ cmds["bash"].pc \in {"sent", "running"} /\ ~cmds["bash"].cancelled
    /\ cmds' = [cmds EXCEPT !["bash"].cancelled = TRUE]
    /\ runner' = IF runner.active = "bash" /\ runner.id = cmds["bash"].id
                    /\ runner.state = "running"
                 THEN [runner EXCEPT !.state = "killed", !.exit = "failed"]
                 ELSE runner
    /\ UNCHANGED <<tree, points, objects, acked, raced, gone, made>>

\* What happens to the tree when the result arrives: a check is always
\* restored; bash when it timed out, was cancelled or failed.
Kept(s) == s = "bash" /\ ~cmds[s].cancelled /\ runner.exit \in {"ok", "kept"}

Result(s) ==
    /\ cmds[s].pc = "running" /\ runner.active = s /\ runner.id = cmds[s].id
    /\ runner.state = "ended"
    /\ Finish(s, IF Kept(s) THEN tree ELSE Restored(Id(s), tree))
    /\ acked' = IF Kept(s) THEN acked \cup {c \in tree : c[1] = "bash"
                                              /\ c[2] = cmds[s].id}
                ELSE acked
    /\ runner' = [runner EXCEPT !.state = "sweeping"]
    /\ UNCHANGED <<points, objects, raced, gone, made>>

-----------------------------------------------------------------------------
(* The runner's side.                                                      *)

\* run_process: the group is started and its pid reported.
Spawn ==
    /\ runner.state = "starting"
    /\ runner' = [runner EXCEPT !.state = "running"]
    /\ UNCHANGED <<tree, points, objects, cmds, acked, raced, gone, made>>

\* A process of the command writes a file; after the command has ended, one
\* that left its group may.
ProcessWrites ==
    LET c == <<runner.active, runner.id>>
    IN  /\ \/ runner.state \in {"running", "killed"}
           \/ runner.state \in {"ended", "sweeping"} /\ runner.left
        /\ tree' = tree \cup {c} /\ Race(c)
        /\ UNCHANGED <<points, objects, cmds, runner, acked, gone, made>>

\* The command ends, or its timeout kills it: exit 0, a failure that is rolled
\* back, one that is kept (rollback_on_failure is off), or a timeout.
Ends(exit, left) ==
    /\ runner.state \in {"running", "killed"}
    /\ runner.state = "killed" => exit = "failed"
    /\ runner' = [runner EXCEPT !.state = "ended", !.exit = exit, !.left = left]
    /\ UNCHANGED <<tree, points, objects, cmds, acked, raced, gone, made>>

\* The command's result has no reader (the executor died or gave up).
Unread ==
    /\ runner.state = "ended"
    /\ \A s \in Slots : ~(cmds[s].pc = "running" /\ runner.active = s
                          /\ runner.id = cmds[s].id)
    /\ runner' = [runner EXCEPT !.state = "sweeping"]
    /\ UNCHANGED <<tree, points, objects, cmds, acked, raced, gone, made>>

SweepKeepsActive ==
    /\ runner.state = "sweeping"
    /\ runner' = [runner EXCEPT !.state = "idle", !.left = FALSE]
    /\ UNCHANGED <<tree, points, objects, cmds, acked, raced, gone, made>>

\* The finally of _run: what the command left is swept, and the runner free.
Sweep ==
    /\ runner.state = "sweeping"
    /\ runner' = Free
    /\ UNCHANGED <<tree, points, objects, cmds, acked, raced, gone, made>>

-----------------------------------------------------------------------------
(* Faults, and the user's discard, which nothing holds back.               *)

Fault == made.faults < MaxFaults /\ made' = [made EXCEPT !.faults = @ + 1]

\* The runner's container dies with its processes.
RunnerLost(s) ==
    /\ Fault /\ cmds[s].pc = "running"
    /\ Finish(s, Restored(Id(s), tree))
    /\ runner' = Free
    /\ UNCHANGED <<points, objects, acked, raced, gone>>

\* The executor dies: nothing is restored, and the command goes on.
ExecutorDies ==
    /\ Fault
    /\ cmds' = [s \in Slots |-> Idle]
    /\ UNCHANGED <<tree, points, objects, runner, acked, raced, gone>>

Discard ==
    /\ Fault
    /\ gone' = gone \cup tree /\ tree' = {} /\ acked' = {}
    /\ points' = <<>> /\ objects' = {}
    /\ UNCHANGED <<cmds, runner, raced>>

-----------------------------------------------------------------------------

CommandsInit ==
    /\ tree = {} /\ points = <<>> /\ objects = {}
    /\ cmds = [s \in Slots |-> Idle] /\ runner = Free
    /\ acked = {} /\ raced = {} /\ gone = {}
    /\ made = [writes |-> 0, bash |-> 0, check |-> 0, faults |-> 0]

CommandStep(s) == Accept(s) \/ Busy(s) \/ Result(s)
RunnerStep ==
    \/ Spawn \/ Unread \/ Sweep
    \/ \E exit \in {"ok", "failed", "kept", "timed_out"}, left \in BOOLEAN :
          Ends(exit, left)

CommandsNext ==
    \/ \E ok \in BOOLEAN : Write(ok)
    \/ Cancel \/ ProcessWrites \/ RunnerStep
    \/ \E s \in Slots : Send(s) \/ CommandStep(s) \/ RunnerLost(s)
    \/ ExecutorDies \/ Discard

\* The event loop goes on, and a command ends by its timeout at the latest.
CommandsSpec ==
    /\ CommandsInit /\ [][CommandsNext]_cmdVars
    /\ \A s \in Slots : WF_cmdVars(CommandStep(s))
    /\ WF_cmdVars(RunnerStep)

-----------------------------------------------------------------------------

\* Every retained checkpoint can be restored: the objects it refers to are
\* there, whichever checkpoints were pruned and however they share content.
PointsComplete == Stored(points) \subseteq objects

\* What was reported to a run as done stays in staging until it is discarded,
\* through rollbacks, failed commands, crashes and cancellations: unless a
\* declared check was under way when it was written.
AckedStays == acked \ raced \subseteq tree

\* What the user discarded does not come back: no command that was under way
\* restores it.  (A command that is still running may write its file again.)
DiscardIsFinal ==
    \A c \in tree \cap gone : c[1] \in Slots

\* Neither a rollback nor pruning nor a discard takes away what was reported
\* as done, or brings back what was given up.
CommandsKeepWork == PointsComplete /\ AckedStays /\ DiscardIsFinal

\* A command ends and the runner is free again, whatever is cancelled, refused
\* or lost.
CommandsEnd ==
    /\ \A s \in Slots : cmds[s].pc \in {"sent", "running"} ~> cmds[s].pc = "idle"
    /\ runner.active # "none" ~> runner.active = "none"

\* Work reported as done stays in staging, whatever checks are run: "a check
\* never changes what would be published" (docs/PUBLICATION.md).
ChecksKeepWork == acked \subseteq tree
=============================================================================
