----------------------------- MODULE AgentLoop -----------------------------
(***************************************************************************)
(* The agent loop of one run (AgentRuntime): model turns, the groups of    *)
(* tool calls each turn asks for, approvals, compaction of the history,    *)
(* the budget with its wind-down, and the snapshots a later run resumes    *)
(* from.  The executor's staging tree is the sequence of mutations it has  *)
(* applied.  When a compaction is due is module Compaction, what a rule    *)
(* allows is module Permissions.                                           *)
(*                                                                         *)
(* The loop gives way only where it awaits the provider, the executor or   *)
(* an approval; `loop.pc` names that point.                                *)
(***************************************************************************)
EXTENDS Naturals, Sequences, FiniteSets, SequencesExt

CONSTANTS
    MaxIterations, MaxToolCalls,    \* the budget profile's limits
    MaxParallel,    \* MAX_PARALLEL_TOOL_CALLS
    NoProgress,     \* NO_PROGRESS_TURNS
    CallLists,      \* the tool calls one turn of the model may ask for
    MaxRounds,      \* bound: times the run is started or resumed
    MaxEvents       \* bound: gateway crashes, failures of the executor and
                    \* steering messages

ASSUME LoopLimits ==
    /\ MaxIterations \in Nat \ {0, 1} /\ MaxToolCalls \in Nat \ {0}
    /\ MaxParallel \in Nat \ {0} /\ NoProgress \in Nat \ {0}
ASSUME LoopBounds == MaxRounds \in Nat /\ MaxEvents \in Nat
ASSUME CallListsAreCalls == CallLists \subseteq Seq({"read", "write"}) \ {<<>>}

VARIABLES
    run,        \* the journal's row: state, why it paused, snapshot
    loop,       \* the coroutine
    budget,     \* RunBudget: iterations, tool calls, and time with cost
    flight,     \* tool calls handed out: what became of each
    staging,    \* the executor's staging tree: mutations in order
    orphans,    \* mutations asked of the executor whose caller is gone
    count       \* rounds, faults, steering, and turns paid for on this budget

agentVars == <<run, loop, budget, flight, staging, orphans, count>>

-----------------------------------------------------------------------------
(* Messages.                                                               *)

User == [role |-> "user", calls |-> <<>>, id |-> <<>>, text |-> "note", at |-> 0]
Assistant(calls) == [User EXCEPT !.role = "assistant", !.calls = calls]
\* A tool message; `at` is how much of staging its result shows.
Tool(id, text, at) ==
    [User EXCEPT !.role = "tool", !.id = id, !.text = text, !.at = at]

\* Tools: reads of the workspace and mutations.  (The gateway's own tools
\* answer at once and are left out.)
ParallelSafe(c) == c.tool = "read"
Mutates(c) == c.tool = "write"

FirstGroupAll(calls) == calls

\* tool_call_groups: consecutive reads run together, every other call alone.
\* This is the first group of the calls that are left.
FirstGroup(calls) ==
    LET joins(i) == ParallelSafe(calls[i]) /\ ParallelSafe(calls[i - 1])
    IN  SubSeq(calls, 1, Min({n \in DOMAIN calls : n = Len(calls) \/ ~joins(n + 1)}))

\* The newest assistant message (0: none), and which of its calls have no
\* result.
Newest(ms) ==
    Max({0} \cup {i \in DOMAIN ms : ms[i].role = "assistant"})
Unanswered(ms) ==
    LET a == Newest(ms)
    IN  IF a = 0 THEN {}
        ELSE {k \in DOMAIN ms[a].calls :
                \A i \in (a + 1)..Len(ms) :
                   ms[i].role = "tool" => ms[i].id # ms[a].calls[k].id}

\* _fill_missing_results: a result for each of them, in call order.
FillMissing(ms) ==
    LET open == Unanswered(ms)
        nth(j) == CHOOSE k \in open : Cardinality({m \in open : m <= k}) = j
    IN  ms \o [j \in 1..Cardinality(open) |->
                 Tool(ms[Newest(ms)].calls[nth(j)].id, "not_executed", 0)]

\* recent_exchanges, for any room: the cut is at a user or assistant message.
RecentExchanges(ms) ==
    {SubSeq(ms, i, Len(ms)) : i \in {i \in DOMAIN ms : ms[i].role # "tool"}}

\* compact_agent_context, for any size: old exchanges go whole, oldest first,
\* and the last few messages stay.
KeepRecent == 4
DropOldest(ms) ==
    {SubSeq(ms, i, Len(ms)) :
        i \in {i \in DOMAIN ms : ms[i].role # "tool"
                 /\ \A k \in 1..(i - 1) :
                      ms[k].role # "tool" => k <= Max({0, Len(ms) - KeepRecent})}}

\* _maybe_compact: the prefix, a handoff written by the model or built by the
\* gateway, and the history that is kept.  (The prefix never changes and is
\* left out.)
Compacted(ms) ==
    {<<User>> \o kept : kept \in RecentExchanges(ms) \cup DropOldest(ms)}

-----------------------------------------------------------------------------
(* The budget: `rest` is the wall time and the cost together.              *)

Fresh == [iter |-> 0, calls |-> 0, rest |-> "fine"]
Later(b) == {[b EXCEPT !.rest = r] :
               r \in CASE b.rest = "fine" -> {"fine", "reserve", "over"}
                       [] b.rest = "reserve" -> {"reserve", "over"}
                       [] OTHER -> {"over"}}

\* RunBudget.check
Exceeded(b) ==
    b.iter > MaxIterations \/ b.calls > MaxToolCalls \/ b.rest = "over"

WindDownLate(b, between) ==
    \/ between /\ b.iter >= MaxIterations
    \/ b.calls >= MaxToolCalls
    \/ b.rest # "fine"

\* RunBudget.wind_down_reason; one iteration is kept for the summary.
WindDownReason(b, between) ==
    \/ between /\ MaxIterations - b.iter <= 1
    \/ b.calls >= MaxToolCalls
    \/ b.rest # "fine"

-----------------------------------------------------------------------------
(* Where the run stands.                                                   *)

Ended == {"completed", "failed", "cancelled"}
NoLoop == [pc |-> "none", msgs |-> <<>>, rest |-> <<>>, turn |-> 0,
           idle |-> 0, empty |-> FALSE, progressed |-> FALSE,
           mutated |-> FALSE, why |-> "budget"]
NoSnapshot == [msgs |-> <<>>, budget |-> Fresh]
Live == loop.pc # "none"

AgentInit ==
    /\ run = [state |-> "none", safe |-> FALSE, why |-> "none",
              snap |-> NoSnapshot, offered |-> FALSE]
    /\ loop = NoLoop /\ budget = Fresh /\ flight = <<>>
    /\ staging = <<>> /\ orphans = {}
    /\ count = [rounds |-> 0, faults |-> 0, steers |-> 0, paid |-> 0]

\* _save_snapshot, and _fail, run.paused, run.completed in the journal.
Saved(ms, b, safe) == [run EXCEPT !.snap = [msgs |-> ms, budget |-> b],
                                  !.safe = safe]
PausedAt(ms, b, why) == [Saved(ms, b, TRUE) EXCEPT !.state = "paused",
                                                  !.why = why]
Stops == /\ loop' = [NoLoop EXCEPT !.turn = loop.turn]
         /\ flight' = <<>> /\ budget' = Fresh

\* The run ends and its task with it.  Mutations the executor still works on
\* are orphans; reads of a parallel group go on (nothing awaits them).
EndRun(state) ==
    /\ run' = [run EXCEPT !.state = state]
    /\ Stops
    /\ orphans' = orphans \cup {flight[i].call.id : i \in
          {i \in DOMAIN flight : Mutates(flight[i].call)
                                 /\ flight[i].at = "asked"}}
    /\ UNCHANGED staging

Goto(pc, ms) == loop' = [loop EXCEPT !.pc = pc, !.msgs = ms]

-----------------------------------------------------------------------------
(* run(): start and resume.                                                *)

\* A resumed run has its snapshot's history; the budget is a new one when the
\* budget was why it paused.
StartRun ==
    /\ ~Live /\ run.state = "none"
    /\ run' = [Saved(<<User, User>>, Fresh, TRUE) EXCEPT !.state = "started"]
    /\ loop' = [NoLoop EXCEPT !.pc = "top", !.msgs = <<User, User>>]
    /\ budget' = Fresh
    /\ count' = [count EXCEPT !.rounds = @ + 1]
    /\ UNCHANGED <<flight, staging, orphans>>

BudgetOnResume(why, b) == IF why = "budget" THEN Fresh ELSE b

ResumeRun ==
    LET b == BudgetOnResume(run.why, run.snap.budget)
        ms == Append(run.snap.msgs, User)
    IN  /\ ~Live /\ run.state = "paused" /\ run.safe
        /\ count.rounds < MaxRounds
        /\ ~Exceeded(b)         \* restore raises, and the run stays paused
        /\ run' = [Saved(ms, b, TRUE) EXCEPT !.state = "started"]
        /\ loop' = [NoLoop EXCEPT !.pc = "top", !.msgs = ms,
                                  !.turn = loop.turn]
        /\ budget' = b
        /\ count' = [count EXCEPT !.rounds = @ + 1,
                       !.paid = IF run.why = "budget" THEN 0 ELSE @]
        /\ UNCHANGED <<flight, staging, orphans>>

-----------------------------------------------------------------------------
(* The top of the loop.                                                    *)

\* The pause the user asked for at some time since the last turn.
PauseHere ==
    /\ loop.pc = "top"
    /\ run' = PausedAt(loop.msgs, budget, "user.requested") /\ Stops
    /\ UNCHANGED <<staging, orphans, count>>

\* A compaction is due.
CompactStart ==
    /\ loop.pc = "top" /\ Len(loop.msgs) > KeepRecent
    /\ Goto("compact", loop.msgs)
    /\ UNCHANGED <<run, budget, flight, staging, orphans, count>>

\* A turn is paid for, unless only the reserve is left: then the summary.
NextTurn(ms, b) ==
    IF WindDownReason(b, TRUE)
    THEN /\ loop' = [loop EXCEPT !.pc = "summary", !.msgs = ms, !.why = "budget"]
         /\ budget' = b /\ UNCHANGED count
    ELSE /\ loop' = [loop EXCEPT !.pc = "turn", !.msgs = ms]
         /\ budget' = [b EXCEPT !.iter = @ + 1]
         /\ count' = [count EXCEPT !.paid = @ + 1]

TurnStart ==
    /\ loop.pc = "top"
    /\ NextTurn(loop.msgs, budget)
    /\ UNCHANGED <<run, flight, staging, orphans>>

\* A steering message, or a note of the loop, joins the history.
Steered ==
    /\ loop.pc = "top" /\ count.faults + count.steers < MaxEvents
    /\ Goto("top", Append(loop.msgs, User))
    /\ count' = [count EXCEPT !.steers = @ + 1]
    /\ UNCHANGED <<run, budget, flight, staging, orphans>>

\* The BudgetExceededError branch: no further paid turn.
Overspent(ms, b) ==
    /\ run' = PausedAt(Append(FillMissing(ms), Assistant(<<>>)), b, "budget")
    /\ Stops /\ UNCHANGED <<staging, orphans, count>>

CompactEnd ==
    /\ loop.pc = "compact"
    /\ \E b \in Later(budget), ms \in Compacted(loop.msgs) :
          IF Exceeded(b) THEN Overspent(loop.msgs, b)
          ELSE NextTurn(ms, b) /\ UNCHANGED <<run, flight, staging, orphans>>

-----------------------------------------------------------------------------
(* A model turn.                                                           *)

TurnFails ==
    /\ loop.pc = "turn"
    /\ \/ EndRun("failed") /\ UNCHANGED count
       \/ /\ run' = PausedAt(loop.msgs, budget, "provider_error") /\ Stops
          /\ UNCHANGED <<staging, orphans, count>>

\* The reply's calls, with ids of their own.
Ids(tools) ==
    [i \in DOMAIN tools |-> [tool |-> tools[i], id |-> <<loop.turn + 1, i>>]]

ReplyEmpty ==
    /\ loop.pc = "turn" /\ ~Exceeded(budget)
    /\ IF loop.empty
       THEN run' = PausedAt(loop.msgs, budget, "empty_reply") /\ Stops
       ELSE /\ loop' = [loop EXCEPT !.pc = "top", !.empty = TRUE,
                                    !.msgs = Append(@, User)]
            /\ UNCHANGED <<run, budget, flight>>
    /\ UNCHANGED <<staging, orphans, count>>

ReplyFinal ==
    /\ loop.pc = "turn" /\ ~Exceeded(budget)
    /\ IF loop.mutated
       THEN /\ run' = Saved(Append(loop.msgs, Assistant(<<>>)), budget, FALSE)
            /\ Goto("offer", Append(loop.msgs, Assistant(<<>>)))
            /\ UNCHANGED <<budget, flight>>
       ELSE /\ run' = [Saved(Append(loop.msgs, Assistant(<<>>)), budget, FALSE)
                         EXCEPT !.state = "completed"]
            /\ Stops
    /\ UNCHANGED <<staging, orphans, count>>

ReplyCalls(tools) ==
    /\ loop.pc = "turn" /\ ~Exceeded(budget)
    /\ loop' = [loop EXCEPT !.pc = "tools", !.empty = FALSE,
                  !.progressed = FALSE, !.turn = @ + 1,
                  !.msgs = Append(@, Assistant(Ids(tools))),
                  !.rest = Ids(tools)]
    /\ UNCHANGED <<run, budget, flight, staging, orphans, count>>

\* The provider's answer is counted first; time passed with it.
TurnLate ==
    /\ loop.pc = "turn"
    /\ \E b \in Later(budget) \ {budget} :
          IF Exceeded(b) THEN Overspent(loop.msgs, b)
          ELSE budget' = b /\ UNCHANGED <<run, loop, flight, staging, orphans, count>>

\* _offer_publish: the manifest is announced and the run completes.
Offer ==
    /\ loop.pc = "offer"
    /\ \/ /\ run' = [run EXCEPT !.state = "completed", !.offered = TRUE]
          /\ Stops /\ UNCHANGED <<staging, orphans, count>>
       \/ EndRun("failed") /\ UNCHANGED count

-----------------------------------------------------------------------------
(* Tool calls.                                                             *)

\* The next group, unless the budget does not cover it.
GroupStart ==
    LET g == FirstGroup(loop.rest)
        short == WindDownReason(budget, FALSE)
                 \/ MaxToolCalls - budget.calls < Len(g)
    IN  /\ loop.pc = "tools" /\ loop.rest # <<>> /\ flight = <<>>
        /\ IF short
           THEN /\ loop' = [loop EXCEPT !.pc = "summary", !.rest = <<>>,
                              !.why = "budget", !.msgs = FillMissing(@)]
                /\ UNCHANGED <<flight, budget>>
           ELSE /\ flight' = [i \in DOMAIN g |-> [call |-> g[i], at |-> "queued",
                                                  text |-> "none", seen |-> 0]]
                /\ budget' = [budget EXCEPT !.calls = @ + Len(g)]
                /\ loop' = [loop EXCEPT !.rest = SubSeq(@, Len(g) + 1, Len(@))]
        /\ UNCHANGED <<run, staging, orphans, count>>

Asked == {i \in DOMAIN flight : flight[i].at \in {"asked", "applied"}}

\* _execute_tool_call: a mutation may be refused without running (invalid,
\* cut off, denied by a rule or the user); the rest is sent to the executor.
Answer(i, text) == flight' = [flight EXCEPT ![i].at = "done", ![i].text = text]

CallBegins(i) ==
    /\ loop.pc = "tools" /\ i \in DOMAIN flight /\ flight[i].at = "queued"
    /\ Cardinality(Asked) < MaxParallel
    /\ \/ Mutates(flight[i].call) /\ Answer(i, "refused")
       \/ flight' = [flight EXCEPT ![i].at = "asked"]
    /\ UNCHANGED <<run, loop, budget, staging, orphans, count>>

\* The executor does it.
Execute(i) ==
    LET c == flight[i].call
    IN  /\ i \in DOMAIN flight /\ flight[i].at = "asked"
        /\ staging' = IF Mutates(c) THEN Append(staging, c.id) ELSE staging
        /\ flight' = [flight EXCEPT ![i].at = "applied",
                                    ![i].seen = Len(staging')]
        /\ UNCHANGED <<run, loop, budget, orphans, count>>

\* The result reaches the loop; results count as progress unless repeated.
CallReturns(i) ==
    /\ loop.pc = "tools" /\ i \in DOMAIN flight /\ flight[i].at = "applied"
    /\ Answer(i, IF Mutates(flight[i].call) THEN "result" ELSE "shown")
    /\ \E new \in BOOLEAN :
          /\ Mutates(flight[i].call) => new
          /\ loop' = [loop EXCEPT !.progressed = @ \/ new,
                        !.mutated = @ \/ Mutates(flight[i].call)]
    /\ UNCHANGED <<run, budget, staging, orphans, count>>

\* All calls of the group are answered, which took time: their results join
\* in call order.
GroupEnds ==
    /\ loop.pc = "tools" /\ flight # <<>>
    /\ \A i \in DOMAIN flight : flight[i].at = "done"
    /\ loop' = [loop EXCEPT !.msgs = @ \o
         [i \in DOMAIN flight |->
            Tool(flight[i].call.id, flight[i].text, flight[i].seen)]]
    /\ flight' = <<>> /\ budget' \in Later(budget)
    /\ UNCHANGED <<run, staging, orphans, count>>

TurnEnds ==
    LET idle == IF loop.progressed THEN 0 ELSE loop.idle + 1
    IN  /\ loop.pc = "tools" /\ loop.rest = <<>> /\ flight = <<>>
        /\ run' = Saved(loop.msgs, budget, TRUE)
        /\ loop' = [loop EXCEPT !.idle = idle, !.why = "no_progress",
                      !.pc = IF idle >= NoProgress THEN "summary" ELSE "top"]
        /\ UNCHANGED <<budget, flight, staging, orphans, count>>

CallFailsSoftly(i) ==
    /\ loop.pc = "tools" /\ i \in DOMAIN flight /\ flight[i].at = "asked"
    /\ count.faults + count.steers < MaxEvents /\ count' = [count EXCEPT !.faults = @ + 1]
    /\ orphans' = orphans \cup (IF Mutates(flight[i].call)
                                THEN {flight[i].call.id} ELSE {})
    /\ Answer(i, "refused")
    /\ UNCHANGED <<run, loop, budget, staging>>

\* An executor call fails (connection, timeout), or an approval expires: the
\* run fails, the other calls of the group are not awaited.
CallFails(i) ==
    /\ loop.pc = "tools" /\ i \in DOMAIN flight /\ flight[i].at = "asked"
    /\ count.faults + count.steers < MaxEvents /\ count' = [count EXCEPT !.faults = @ + 1]
    /\ run' = [run EXCEPT !.state = "failed"]
    /\ loop' = [NoLoop EXCEPT !.turn = loop.turn] /\ budget' = Fresh
    /\ orphans' = orphans \cup (IF Mutates(flight[i].call)
                                THEN {flight[i].call.id} ELSE {})
    /\ flight' = [flight EXCEPT ![i].at = "done"]
    /\ UNCHANGED staging

\* What such a group still does: start, run, and journal its results.
LateCall(i) ==
    /\ ~Live /\ i \in DOMAIN flight
    /\ \/ /\ flight[i].at = "queued" /\ Cardinality(Asked) < MaxParallel
          /\ flight' = [flight EXCEPT ![i].at = "asked"]
       \/ flight[i].at = "applied" /\ flight' = [flight EXCEPT ![i].at = "done"]
    /\ UNCHANGED <<run, loop, budget, staging, orphans, count>>

OrphanApplied(id) ==
    /\ id \in orphans
    /\ orphans' = orphans \ {id}
    /\ staging' \in {staging, Append(staging, id)}
    /\ UNCHANGED <<run, loop, budget, flight, count>>

-----------------------------------------------------------------------------
(* The wind-down, and how a run is stopped from outside.                   *)

\* _wind_down: the summary turn cannot call tools; without a summary the
\* gateway writes its own line.
WindDown ==
    /\ loop.pc = "summary"
    /\ \E b \in Later(budget), text \in {<<User, Assistant(<<>>)>>,
                                         <<Assistant(<<>>)>>} :
          run' = PausedAt(loop.msgs \o text, b, loop.why)
    /\ Stops
    /\ count' = [count EXCEPT !.paid = @ + (IF loop.why = "budget" THEN 1 ELSE 0)]
    /\ UNCHANGED <<staging, orphans>>

Cancel == Live /\ EndRun("cancelled") /\ UNCHANGED count

GatewayDiesAnywhere ==
    /\ Live /\ count.faults + count.steers < MaxEvents
    /\ run' = [run EXCEPT !.state = "paused", !.why = "gateway.restarted"]
    /\ Stops
    /\ count' = [count EXCEPT !.faults = @ + 1]
    /\ UNCHANGED <<staging, orphans>>

\* The gateway dies; at its next start a run whose snapshot is safe is paused
\* there, any other has failed (recover_interrupted_runs).
GatewayDies ==
    /\ Live /\ count.faults + count.steers < MaxEvents
    /\ run' = IF run.safe THEN [run EXCEPT !.state = "paused",
                                           !.why = "gateway.restarted"]
              ELSE [run EXCEPT !.state = "failed"]
    /\ Stops
    /\ orphans' = orphans \cup {flight[i].call.id : i \in
          {i \in DOMAIN flight : Mutates(flight[i].call)
                                 /\ flight[i].at = "asked"}}
    /\ count' = [count EXCEPT !.faults = @ + 1]
    /\ UNCHANGED staging

-----------------------------------------------------------------------------

AgentNext ==
    \/ StartRun \/ ResumeRun \/ PauseHere \/ CompactStart \/ TurnStart \/ Steered
    \/ CompactEnd \/ TurnFails \/ ReplyEmpty \/ ReplyFinal \/ TurnLate
    \/ \E tools \in CallLists : ReplyCalls(tools)
    \/ Offer \/ GroupStart \/ GroupEnds \/ TurnEnds
    \/ \E i \in DOMAIN flight :
          CallBegins(i) \/ Execute(i) \/ CallReturns(i) \/ CallFails(i)
          \/ LateCall(i)
    \/ \E id \in orphans : OrphanApplied(id)
    \/ WindDown \/ Cancel \/ GatewayDies

AgentSpec == AgentInit /\ [][AgentNext]_agentVars

-----------------------------------------------------------------------------

\* A history a provider accepts: each assistant message is followed directly
\* by one result for each of its calls, in call order, and no result stands
\* anywhere else.
ValidHistory(ms) ==
    /\ \A a \in DOMAIN ms : ms[a].calls # <<>> =>
          \A k \in DOMAIN ms[a].calls :
             /\ a + k <= Len(ms)
             /\ ms[a + k].role = "tool" /\ ms[a + k].id = ms[a].calls[k].id
    /\ \A t \in DOMAIN ms : ms[t].role = "tool" =>
          \E a \in 1..(t - 1) : t - a \in DOMAIN ms[a].calls

\* Every prompt that is sent and every snapshot a run can be resumed from is
\* such a history, however the turn before was cut short.
HistoryValid ==
    /\ loop.pc \in {"top", "turn", "compact", "summary"}
       => ValidHistory(loop.msgs)
    /\ run.safe => ValidHistory(run.snap.msgs)

\* What the model is told agrees with staging: a mutation reported as refused
\* or not executed was not applied, one reported as done was.
ReportsTrue ==
    \A ms \in {loop.msgs, run.snap.msgs} : \A i \in DOMAIN ms :
        ms[i].role = "tool" /\ ms[i].text \in {"refused", "not_executed"}
        => ~ \E k \in DOMAIN staging : staging[k] = ms[i].id

\* The calls of one turn take effect in call order, and a read shows exactly
\* the mutations that come before it.
CallsInOrder ==
    \A i \in DOMAIN loop.msgs : LET m == loop.msgs[i] IN
        m.role = "tool" /\ m.text = "shown"
        => \A k \in DOMAIN staging : staging[k][1] = m.id[1] =>
              (k <= m.at) = (staging[k][2] <= m.id[2])

\* What the model is told of its calls is complete, true and in order, through
\* failures, budgets that run out, pauses, crashes and resumes.
CallsAreAnswered == HistoryValid /\ ReportsTrue /\ CallsInOrder

\* After the run has ended nothing new changes staging: the reads of its last
\* group may still run, a mutation only when it was already asked for.
OnlyReadsFollowTheEnd ==
    [][run.state \in Ended /\ staging' # staging
       => Last(staging') \in orphans]_agentVars

\* Pausing and resuming buys no turns: a budget pays for at most its
\* iterations, the summary included; each crash hides at most the turns since
\* the last snapshot, of which there are two at most.
BudgetHolds == count.paid <= MaxIterations + 2 * count.faults

\* The loop keeps the run protocol: RunProtocol for one run.
Protocol ==
    INSTANCE RunProtocol WITH Runs <- {1},
        state <- [r \in {1} |-> run.state],
        safe <- [r \in {1} |-> run.safe]
LoopKeepsProtocol == [][\/ Protocol!ProtocolNext
                        \/ run.state = "none" /\ run'.state = "started"]_agentVars
=============================================================================
