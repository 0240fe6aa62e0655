--------------------------- MODULE Investigation ---------------------------
(***************************************************************************)
(* The investigate_repository tool: a nested read-only model loop with a   *)
(* budget of its own (RepositoryInvestigation).  It explores while it can  *)
(* still pay for a last turn without tools, which writes the summary; the  *)
(* parent run is charged for every turn and always gets an answer.         *)
(***************************************************************************)
EXTENDS Naturals, FiniteSets

CONSTANTS
    ParentCost,         \* what the parent run can still spend
    ParentIterations, ParentToolCalls,
    MaxChildIterations, MaxChildToolCalls,  \* INVESTIGATION_MAX_...
    MinCost,            \* INVESTIGATION_MIN_COST
    MaxTurnCost,        \* bound: what one provider call may cost
    MaxCallsPerTurn     \* bound: tool calls of one turn

ASSUME InvestigationCosts ==
    /\ ParentCost \in Nat /\ MinCost \in Nat \ {0} /\ MaxTurnCost \in Nat
    /\ ParentIterations \in Nat /\ ParentToolCalls \in Nat
    /\ MaxChildIterations \in Nat /\ MaxChildToolCalls \in Nat
    /\ MaxCallsPerTurn \in Nat

VARIABLES
    child,      \* the child's RunBudget, its last turn's cost, its evidence
    nested,     \* the nested loop: where it is, calls without a result yet
    spent,      \* what the parent was charged
    answer      \* the tool result: none, or what kind and why

invVars == <<child, nested, spent, answer>>

Smaller(a, b) == IF a <= b THEN a ELSE b
Minus(a, b) == IF a >= b THEN a - b ELSE 0

\* _child_budget: capped, and at most half of what the parent has left.
ChildLimits ==
    [iterations |-> Smaller(ParentIterations, MaxChildIterations),
     calls |-> Smaller(ParentToolCalls, MaxChildToolCalls),
     cost |-> ParentCost \div 2]

NoAnswer == [kind |-> "none", why |-> "none"]

InvInit ==
    /\ child = [iterations |-> 0, calls |-> 0, cost |-> 0, last |-> 0,
                wall |-> "room", full |-> FALSE, evidence |-> FALSE]
    /\ nested = [at |-> "idle", open |-> 0, why |-> "none", error |-> FALSE]
    /\ spent = 0 /\ answer = NoAnswer

Answered(kind, why) ==
    /\ answer' = [kind |-> kind, why |-> why]
    /\ nested' = [nested EXCEPT !.at = "done", !.open = 0]

\* The run calls the tool (_investigate_repository).
InvCalled ==
    /\ nested.at = "idle" /\ nested' = [nested EXCEPT !.at = "start"]
    /\ UNCHANGED <<child, spent, answer>>

\* run() before the loop: bad arguments fail, a parent that cannot fund a
\* nested loop refuses.
InvBegin ==
    /\ nested.at = "start"
    /\ IF ParentCost < 2 * MinCost THEN Answered("refused", "none")
       ELSE \/ Answered("failed", "none")
            \/ nested' = [nested EXCEPT !.at = "explore"] /\ UNCHANGED answer
    /\ UNCHANGED <<child, spent>>

LastIterationSpent(left) == left = 0

\* One iteration is kept for the summary.
LastIteration(left) == left <= 1

\* _stop_cause: what forbids more exploration.  Within a turn its iteration
\* is spent and only the limits count; before a turn the summary's iteration,
\* the cost of a turn like the last one and its wall time are kept back.
StopCauses(last, reserve) ==
    LET left(f) == Minus(ChildLimits[f], child[f])
    IN  {c \in {"tool_calls", "iterations", "cost", "wall_time", "evidence_limit"} :
           CASE c = "tool_calls" -> left("calls") <= 1
             [] c = "iterations" -> reserve /\ LastIteration(left("iterations"))
             [] c = "cost" -> \/ left("cost") = 0
                              \/ reserve /\ left("cost") <= 2 * last
             [] c = "wall_time" -> child.wall # "room"
             [] OTHER -> child.full}

\* The loop of _investigate.
Explore ==
    LET stop == StopCauses(child.last, TRUE)
    IN  /\ nested.at = "explore"
        /\ IF stop # {}
           THEN /\ \E why \in stop :
                      nested' = [nested EXCEPT !.at = "synthesis", !.why = why]
                /\ UNCHANGED child
           ELSE /\ nested' = [nested EXCEPT !.at = "turn"]
                /\ child' = [child EXCEPT !.iterations = @ + 1]
        /\ UNCHANGED <<spent, answer>>

\* _turn: a paid reply is charged to the child and to the parent; time passes.
Charge(cost) ==
    /\ \E w \in (IF child.wall = "room" THEN {"room", "reserve"} ELSE {child.wall}) :
          child' = [child EXCEPT !.cost = @ + cost, !.last = cost, !.wall = w]
    /\ spent' = spent + cost

ExploreReply(cost, calls) ==
    /\ nested.at = "turn"
    /\ Charge(cost)
    /\ IF calls > 0
       THEN nested' = [nested EXCEPT !.at = "tools", !.open = calls] /\ UNCHANGED answer
       ELSE \/ Answered("report", "none")
            \/ nested' = [nested EXCEPT !.at = "synthesis", !.why = "empty_answer"]
               /\ UNCHANGED answer

\* Retries are over: without evidence the tool fails, else it still tries the
\* summary.
ExploreFails ==
    /\ nested.at = "turn"
    /\ IF child.evidence
       THEN /\ nested' = [nested EXCEPT !.at = "synthesis",
                            !.why = "provider_error", !.error = TRUE]
            /\ UNCHANGED answer
       ELSE Answered("failed", "provider_error")
    /\ UNCHANGED <<child, spent>>

\* The result of a call that exploration has no room for any more.
NotExecuted(why) == [nested EXCEPT !.open = @ - 1, !.why = why]

\* One call of the turn: answered as not executed once exploration has to
\* stop, else refused, skipped, run or failed (_tool_call): always a result.
NestedCall ==
    LET stop == IF nested.why # "none" THEN {nested.why} ELSE StopCauses(0, FALSE)
    IN  /\ nested.at = "tools" /\ nested.open > 0
        /\ IF stop # {}
           THEN (\E why \in stop : nested' = NotExecuted(why)) /\ UNCHANGED child
           ELSE \E ok \in BOOLEAN, full \in BOOLEAN :
                /\ nested' = [nested EXCEPT !.open = @ - 1]
                /\ child' = [child EXCEPT !.calls = @ + 1,
                               !.evidence = @ \/ ok, !.full = @ \/ full]
        /\ UNCHANGED <<spent, answer>>

CallsDone ==
    /\ nested.at = "tools" /\ nested.open = 0
    /\ nested' = [nested EXCEPT !.at = IF nested.why = "none" THEN "explore"
                                       ELSE "synthesis"]
    /\ UNCHANGED <<child, spent, answer>>

\* _synthesize: the last turn has no tools; an empty or failed one is replaced
\* by a digest of the evidence.
Synthesize(cost) ==
    /\ nested.at = "synthesis"
    /\ child' = [child EXCEPT !.iterations = @ + 1, !.cost = @ + cost]
    /\ spent' = spent + cost
    /\ Answered("report", nested.why) \/ Answered("digest", nested.why)

SynthesisFails ==
    /\ nested.at = "synthesis"
    /\ child' = [child EXCEPT !.iterations = @ + 1]
    /\ IF child.evidence \/ nested.error THEN Answered("digest", nested.why)
       ELSE Answered("failed", "provider_error")
    /\ UNCHANGED spent

InvStep ==
    \/ InvBegin \/ Explore \/ ExploreFails \/ NestedCall \/ CallsDone
    \/ \E cost \in 0..MaxTurnCost :
          Synthesize(cost)
          \/ \E calls \in 0..MaxCallsPerTurn : ExploreReply(cost, calls)
    \/ SynthesisFails

InvNext == InvCalled \/ InvStep

\* The provider, the executor and the event loop answer or time out.
InvSpec == InvInit /\ [][InvNext]_invVars /\ WF_invVars(InvStep)

-----------------------------------------------------------------------------

\* No provider call, and no summary, is asked for while a call of the nested
\* history lacks its result.
NestedHistoryComplete ==
    nested.at \in {"explore", "turn", "synthesis"} => nested.open = 0

\* The summary is always paid for by the child: exploration leaves it its
\* iteration, and never takes the last tool call.
SynthesisFunded ==
    /\ ChildLimits.iterations > 0
       => child.iterations <= ChildLimits.iterations
    /\ ChildLimits.calls > 0 => child.calls < ChildLimits.calls

\* The parent is overspent by at most two turns, less the half of its budget
\* that is not the child's.
ParentOverspendBounded ==
    spent <= (ParentCost \div 2) + 2 * MaxTurnCost

\* The nested loop always has what its summary needs: a complete history and
\* its own means, at a bounded cost to the parent.
InvestigationPays == NestedHistoryComplete /\ SynthesisFunded /\ ParentOverspendBounded

\* The tool answers, whatever the provider and the executor do.
InvestigationAnswers == nested.at = "start" ~> answer.kind # "none"
=============================================================================
