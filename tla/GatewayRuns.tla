---------------------------- MODULE GatewayRuns ----------------------------
(***************************************************************************)
(* The gateway's runs: GatewayService (one asyncio task per run), the      *)
(* SQLite journal behind it, the approvals a run waits for, and the        *)
(* desktop's GatewayClient that starts, follows, stops and resumes runs    *)
(* over HTTP.                                                              *)
(*                                                                         *)
(* The gateway is one event loop: a task gives way only where it awaits    *)
(* the provider, the executor or an approval, so every action below is the *)
(* code from one such point to the next, and `task[r].pc` names the point. *)
(* What happens inside an agent loop (messages, tool groups, compaction)   *)
(* is module AgentLoop; here a loop is its suspension points, the          *)
(* snapshots it saves and how it ends.                                     *)
(***************************************************************************)
EXTENDS Naturals, Sequences, FiniteSets

CONSTANTS
    Runs,           \* run ids
    MaxEvents,      \* max_events_per_run: events of a run the journal keeps
    Limit,          \* the budget, in model turns; its reserve is one turn
    AskBudget,      \* the profile needs approval once per session
    ChatAttempts,   \* CHAT_STREAM_ATTEMPTS
    MaxIds,         \* bound: events of one run that a chat's text adds to
    MaxFaults,      \* bound: crashes, dropped connections and lost calls
    MaxTasks        \* bound: tasks one run is worked on by (resumes)

ASSUME RunsAreNamed == "none" \notin Runs
ASSUME JournalKeepsSome == MaxEvents \in Nat \ {0}
ASSUME LimitIsTurns == Limit \in Nat /\ Limit >= 2
ASSUME AskBudgetIsBoolean == AskBudget \in BOOLEAN
ASSUME AttemptsPositive == ChatAttempts \in Nat \ {0}
ASSUME GatewayBounds == MaxIds \in Nat /\ MaxTasks \in Nat /\ MaxFaults \in Nat

VARIABLES
    journal,    \* the runs, events and run_snapshots tables
    task,       \* _tasks, _pause_events and the state of each run's coroutine
    up,         \* the gateway serves
    key,        \* a provider key is configured
    approved,   \* _approved_budget_sessions (one session)
    cancels,    \* cancel calls awaiting the executor: the task they captured
    client,     \* the desktop's event stream and the calls it has in flight
    faults      \* faults so far (bound)

vars == <<journal, task, up, key, approved, cancels, client, faults>>

-----------------------------------------------------------------------------
(* The journal.                                                            *)

Terminal == {"completed", "failed", "cancelled"}
Starts == {"started", "resumed"}
\* run.paused events, by the reason in their payload.
Pauses == {"budget", "user.requested", "provider_error", "empty_reply",
           "no_progress", "gateway.restarted"}
\* Other events that the journal or the stream could confuse with these; the
\* narration, usage and tool events of an agent's turns are left out.
Notes == {"created", "approval", "text", "manifest"}
Events == Terminal \cup Starts \cup Pauses \cup Notes

\* A row of the runs table with its retained events (`log`; `cut` older ones
\* were pruned) and its snapshot (`saved` is the budget used in it).
NoRun == [mode |-> "none", state |-> "none", log |-> <<>>, cut |-> 0,
          safe |-> FALSE, saved |-> 0]

LastId(j) == j.cut + Len(j.log)

\* JournalStore.is_terminal
IsTerminal(j) == j.log # <<>> /\ j.log[Len(j.log)] \in Terminal

StateAfter(e, s) ==
    CASE e \in Starts -> "started"
      [] e \in Pauses -> "paused"
      [] e \in Terminal -> e
      [] OTHER -> s

\* _prune_run drops the oldest events beyond the limit.
Prune(j) ==
    LET over == Len(j.log) - MaxEvents
    IN  IF over <= 0 THEN j
        ELSE [j EXCEPT !.log = SubSeq(@, over + 1, Len(@)), !.cut = @ + over]

\* JournalStore.append
Log(j, e) ==
    Prune([j EXCEPT !.log = Append(@, e), !.state = StateAfter(e, @)])

Save(j, used, safe) == [j EXCEPT !.saved = used, !.safe = safe]

\* GatewayService._pause_reason: the newest pause since the run was last
\* worked on, among the retained events.
PauseReason(j) ==
    LET marks == {i \in DOMAIN j.log : j.log[i] \in Starts \cup Pauses}
        last == CHOOSE i \in marks : \A k \in marks : k <= i
    IN  IF marks # {} /\ j.log[last] \in Pauses THEN j.log[last] ELSE "none"

Resumable(j) == j.state = "paused" /\ j.safe

\* create_run, run.created and the first snapshot of an agent's run.  Ended
\* runs beyond max_runs, which create_run drops, are not modelled: a run that
\* is open or followed by the desktop is never among them.
Created(mode) ==
    Log([NoRun EXCEPT !.mode = mode, !.state = "created",
                      !.safe = (mode = "agent")], "created")

-----------------------------------------------------------------------------
(* Tasks.                                                                  *)

\* Where the coroutine of a run is suspended: about to start, awaiting a
\* budget approval, the executor's status, a handoff summary, a model turn, a
\* tool, a tool approval, the wind-down summary or the publish manifest, or
\* streaming a chat; "dead" is a task that ended and was left in _tasks.
NoTask == [pc |-> "none", used |-> 0, resumed |-> FALSE, fresh |-> TRUE,
           pause |-> FALSE, cancel |-> FALSE, empty |-> FALSE, mutated |-> FALSE,
           why |-> "budget", answer |-> "none", gen |-> 0]

Running(r) == task[r].pc \notin {"none", "dead"}

\* The budget: past its hard limit, or down to the reserve that pays for the
\* summary.  Time passes and calls cost while a task waits, so any wait may
\* end past the limit.
Over(used) == used > Limit
Spent(used) == used + 1 >= Limit
OrLate(used) == {used, Limit + 1}

NewTask(g, j, resumed, fresh) ==
    [NoTask EXCEPT !.pc = "start", !.gen = g, !.resumed = resumed,
                   !.fresh = fresh, !.used = IF fresh THEN 0 ELSE j.saved]

\* Where a step leaves a run: its row and its task.
At(j, t) == [j |-> j, t |-> t]

\* _forget_run, in the finally of _run_agent and _run_chat.
Gone(t) == [NoTask EXCEPT !.gen = t.gen]

EndsWith(j, t, e) == At(Log(j, e), Gone(t))
PausesWith(j, t, e) == EndsWith(Save(j, t.used, TRUE), t, e)

\* After the pause check and the compaction at the top of the loop: a budget
\* down to its reserve goes to the summary, any other to the next turn.
ToTurn(j, t) ==
    IF Spent(t.used)
    THEN At(j, [t EXCEPT !.pc = "summary", !.why = "budget"])
    ELSE At(j, [t EXCEPT !.pc = "turn", !.used = @ + 1])

\* _agent_loop from its top to the next wait.
LoopTop(j, t) ==
    IF t.pause THEN {PausesWith(j, t, "user.requested")}
    ELSE {ToTurn(j, t), At(j, [t EXCEPT !.pc = "compact"])}

\* The handler of BudgetExceededError: pause without another paid turn.
Overspent(j, t) == PausesWith(j, t, "budget")

\* A turn with a final answer: the snapshot can no longer be resumed, staged
\* changes are offered for publication, the run completes.
Answered(j, t) ==
    IF t.mutated
    THEN At(Save(j, t.used, FALSE), [t EXCEPT !.pc = "offer"])
    ELSE EndsWith(Save(j, t.used, FALSE), t, "completed")

\* A turn whose tool results are in: saved, and on to the next one unless
\* nothing was new for several turns.
TurnDone(j, t) ==
    LET s == Save(j, t.used, TRUE)
    IN  LoopTop(s, t) \cup {At(s, [t EXCEPT !.pc = "summary",
                                            !.why = "no_progress"])}

\* The reply of the model.
Replied(j, t) ==
    IF Over(t.used) THEN {Overspent(j, t)}
    ELSE {Answered(j, t)}
         \cup (IF t.empty THEN {PausesWith(j, t, "empty_reply")}
               ELSE LoopTop(j, [t EXCEPT !.empty = TRUE]))
         \cup {At(j, [t EXCEPT !.pc = p, !.empty = FALSE])
                 : p \in {"tool", "ask"}}

\* The first step of _run_agent.  RunBudget.restore raises before the try of
\* AgentRuntime.run, so a saved budget past its limit ends the task there.
AgentBegins(j, t) ==
    IF ~t.fresh /\ Over(t.used) THEN {At(j, Gone(t))}
    ELSE IF AskBudget /\ ~approved
         THEN {At(Log(j, "approval"), [t EXCEPT !.pc = "approve"])}
    ELSE {At(j, [t EXCEPT !.pc = "status"])}

\* _run_agent and _run_chat; without a key the task is left in _tasks.
Begins(j, t) ==
    IF ~key THEN {At(Log(j, "failed"), [Gone(t) EXCEPT !.pc = "dead"])}
    ELSE IF j.mode = "agent" THEN AgentBegins(j, t)
    ELSE {At(Log(j, "started"), [t EXCEPT !.pc = "chat"])}

\* _run_chat: text arrives, or the provider's stream ends or fails.
Chatted(j, t) ==
    {EndsWith(j, t, IF t.cancel THEN "cancelled" ELSE "completed"),
     EndsWith(j, t, "failed")}
    \cup (IF LastId(j) < MaxIds THEN {At(Log(j, "text"), t)} ELSE {})

StatusReadUnlogged(j, t) ==
    {EndsWith(j, t, "failed")}
    \cup LoopTop(Save(IF t.resumed THEN j ELSE Log(j, "started"),
                      t.used, TRUE), t)

\* AgentRuntime.run from the executor's status to the loop.
StatusRead(j, t) ==
    {EndsWith(j, t, "failed")}
    \cup LoopTop(Save(Log(j, IF t.resumed THEN "resumed" ELSE "started"),
                      t.used, TRUE), t)

\* _maybe_compact
Compacted(j, t) ==
    {IF Over(u) THEN Overspent(j, [t EXCEPT !.used = u])
     ELSE ToTurn(j, [t EXCEPT !.used = u]) : u \in OrLate(t.used)}

\* _model_turn: an error that cannot be retried, one that outlived its
\* retries, or a reply.
TurnEnds(j, t) ==
    {EndsWith(j, t, "failed")}
    \cup UNION {{PausesWith(j, [t EXCEPT !.used = u], "provider_error")}
                \cup Replied(j, [t EXCEPT !.used = u]) : u \in OrLate(t.used)}

\* The tools of a turn: the executor is out of reach, the budget runs down
\* between two groups, or all results are in.
ToolsEnd(j, t) ==
    {EndsWith(j, t, "failed")}
    \cup {At(j, [t EXCEPT !.pc = "summary", !.why = "budget", !.used = u])
            : u \in {Limit, Limit + 1}}
    \cup UNION {UNION {TurnDone(j, [t EXCEPT !.used = u, !.mutated = b])
                         : b \in {t.mutated, TRUE}} : u \in OrLate(t.used)}

\* _wind_down
WoundDown(j, t) ==
    {PausesWith(j, [t EXCEPT !.used = u], t.why) : u \in OrLate(t.used)}

\* _offer_publish and the end of the run.
Offered(j, t) ==
    {EndsWith(j, t, "failed"), EndsWith(Log(j, "manifest"), t, "completed")}

Step(j, t) ==
    CASE t.pc = "start" -> Begins(j, t)
      [] t.pc = "chat" -> Chatted(j, t)
      [] t.pc = "status" -> StatusRead(j, t)
      [] t.pc = "compact" -> Compacted(j, t)
      [] t.pc = "turn" -> TurnEnds(j, t)
      [] t.pc = "tool" -> ToolsEnd(j, t)
      [] t.pc = "summary" -> WoundDown(j, t)
      [] t.pc = "offer" -> Offered(j, t)
      [] OTHER -> {}

\* The task of r goes on from where it waited.
TaskStep(r) ==
    /\ up
    /\ \E x \in Step(journal[r], task[r]) :
          /\ journal' = [journal EXCEPT ![r] = x.j]
          /\ task' = [task EXCEPT ![r] = x.t]
    /\ UNCHANGED <<up, key, approved, cancels, client, faults>>

-----------------------------------------------------------------------------
(* Approvals.                                                              *)

Asking(r) == task[r].pc \in {"approve", "ask"}

\* ApprovalCoordinator.resolve: the waiter's future is done and not read yet.
Resolve(r, answer) ==
    /\ up /\ Asking(r) /\ task[r].answer = "none"
    /\ task' = [task EXCEPT ![r].answer = answer]
    /\ UNCHANGED <<journal, up, key, approved, cancels, client, faults>>

\* What a decision makes of a run: a budget or a tool is allowed, the budget
\* is refused, or the refusal is the result of the tool.
Decision(j, t, answer) ==
    IF t.pc = "approve"
    THEN IF answer = "allow" THEN {At(j, [t EXCEPT !.pc = "status"])}
         ELSE {EndsWith(j, t, "failed")}
    ELSE IF answer = "allow" THEN {At(j, [t EXCEPT !.pc = "tool"])}
         ELSE TurnDone(j, t)

\* The waiter reads the decision.
Decided(r) ==
    LET t == task[r]
    IN  /\ up /\ Asking(r) /\ t.answer # "none"
        /\ \E x \in Decision(journal[r], [t EXCEPT !.answer = "none"], t.answer) :
              /\ journal' = [journal EXCEPT ![r] = x.j]
              /\ task' = [task EXCEPT ![r] = x.t]
        /\ approved' = (approved \/ (t.pc = "approve" /\ t.answer = "allow"))
        /\ UNCHANGED <<up, key, cancels, client, faults>>

\* The deadline of the wait passes, even when a decision came just before:
\* wait_for then discards it.  The run fails.
Expire(r) ==
    /\ up /\ Asking(r)
    /\ journal' = [journal EXCEPT ![r] = Log(Log(@, "approval"), "failed")]
    /\ task' = [task EXCEPT ![r] = Gone(@)]
    /\ UNCHANGED <<up, key, approved, cancels, client, faults>>

-----------------------------------------------------------------------------
(* Cancel, pause, resume, start.                                           *)

\* GatewayService.cancel up to its wait for the executor: it holds on to the
\* task that works on the run now, if any.
CancelArrives(r) ==
    /\ up /\ r \in client.cancelling
    /\ client' = [client EXCEPT !.cancelling = @ \ {r}]
    /\ cancels' = IF Running(r) /\ task[r].pc # "start"
                  THEN cancels \cup {<<r, task[r].gen>>} ELSE cancels
    /\ task' = IF Running(r) THEN [task EXCEPT ![r].cancel = TRUE] ELSE task
    /\ UNCHANGED <<journal, up, key, approved, faults>>

CancelAfterEnd(r, g) ==
    /\ up /\ <<r, g>> \in cancels
    /\ cancels' = cancels \ {<<r, g>>}
    /\ journal' = [journal EXCEPT ![r] = Log(@, "cancelled")]
    /\ task' = [task EXCEPT ![r] = Gone(@)]
    /\ UNCHANGED <<up, key, approved, client, faults>>

CancelNewest(r, g) ==
    /\ up /\ <<r, g>> \in cancels
    /\ cancels' = cancels \ {<<r, g>>}
    /\ IF Running(r)
       THEN /\ journal' = [journal EXCEPT ![r] =
                             IF IsTerminal(@) THEN @ ELSE Log(@, "cancelled")]
            /\ task' = [task EXCEPT ![r] = Gone(@)]
       ELSE UNCHANGED <<journal, task>>
    /\ UNCHANGED <<up, key, approved, client, faults>>

\* task.cancel(), unless that task is done: CancelledError at its wait.
CancelTask(r, g) ==
    /\ up /\ <<r, g>> \in cancels
    /\ cancels' = cancels \ {<<r, g>>}
    /\ IF Running(r) /\ task[r].gen = g
       THEN /\ journal' = [journal EXCEPT ![r] =
                             IF IsTerminal(@) THEN @ ELSE Log(@, "cancelled")]
            /\ task' = [task EXCEPT ![r] = Gone(@)]
       ELSE UNCHANGED <<journal, task>>
    /\ UNCHANGED <<up, key, approved, client, faults>>

\* GatewayService.pause: the loop looks at the request between turns.
Pause(r) ==
    /\ up /\ Running(r) /\ journal[r].mode = "agent" /\ ~task[r].pause
    /\ task' = [task EXCEPT ![r].pause = TRUE]
    /\ UNCHANGED <<journal, up, key, approved, cancels, client, faults>>

\* resume_agent: accepted for a paused run at a safe point, with a fresh
\* budget exactly when the pause was the budget's.
CanResume(r, new) ==
    /\ up /\ key /\ task[r].pc = "none"
    /\ Resumable(journal[r])
    /\ new <=> PauseReason(journal[r]) = "budget"

Idle == client.run = "none"

FollowFromStart(r, after) ==
    [client EXCEPT !.run = r, !.cursor = 0, !.conn = "fresh",
                   !.batch = <<>>, !.tries = 1, !.stop = FALSE,
                   !.sent = FALSE]

Follow(r, after) ==
    [client EXCEPT !.run = r, !.cursor = after, !.conn = "fresh",
                   !.batch = <<>>, !.tries = 1, !.stop = FALSE,
                   !.sent = FALSE]

\* The client's resume_agent and _resume_run: the stream starts after the
\* newest event there is before the task runs.
Resume(r, new) ==
    /\ Idle /\ CanResume(r, new) /\ task[r].gen < MaxTasks
    /\ task' = [task EXCEPT
                  ![r] = NewTask(@.gen + 1, journal[r], TRUE, new)]
    /\ client' = Follow(r, LastId(journal[r]))
    /\ UNCHANGED <<journal, up, key, approved, cancels, faults>>

\* A run is created and started, and the desktop follows it from the start
\* (stream_chat, stream_agent).
StartRun(r, mode) ==
    /\ Idle /\ up /\ key
    /\ journal[r].mode = "none" /\ task[r].gen = 0
    /\ journal' = [journal EXCEPT ![r] = Created(mode)]
    /\ task' = [task EXCEPT ![r] = NewTask(1, NoRun, FALSE, TRUE)]
    /\ client' = Follow(r, 0)
    /\ UNCHANGED <<up, key, approved, cancels, faults>>

StartChat(r) == StartRun(r, "chat")
StartAgent(r) == StartRun(r, "agent")

Fault == faults < MaxFaults /\ faults' = faults + 1

\* configure_client_key; clear_client_key counts as a fault.
SetKey ==
    /\ up /\ key' = ~key
    /\ IF key THEN Fault ELSE UNCHANGED faults
    /\ UNCHANGED <<journal, task, up, approved, cancels, client>>

-----------------------------------------------------------------------------
(* The gateway stops and starts.                                           *)

Dropped == [client EXCEPT !.conn = IF Idle THEN "none" ELSE "lost",
                          !.batch = <<>>]

Stopped ==
    /\ Fault
    /\ up' = FALSE /\ key' = FALSE /\ approved' = FALSE /\ cancels' = {}
    /\ task' = [r \in Runs |-> Gone(task[r])]
    /\ client' = Dropped

Crash == up /\ Stopped /\ UNCHANGED journal

\* GatewayService.close: tasks get a second to reach the pause they are asked
\* for (their own steps), then are cancelled.
Close ==
    /\ up /\ Stopped
    /\ journal' = [r \in Runs |->
                     IF Running(r) /\ ~IsTerminal(journal[r])
                     THEN Log(journal[r], "cancelled") ELSE journal[r]]

\* __init__ and recover_interrupted_runs; the desktop sets the key again.
Recovered(j) ==
    IF j.mode = "none" \/ j.state \in Terminal THEN j
    ELSE Log(j, IF j.mode = "agent" /\ j.safe THEN "gateway.restarted"
                ELSE "failed")

Boot ==
    /\ ~up /\ up' = TRUE /\ key' = TRUE
    /\ journal' = [r \in Runs |-> Recovered(journal[r])]
    /\ UNCHANGED <<task, approved, cancels, client, faults>>

-----------------------------------------------------------------------------
(* The desktop's stream: GatewayService.events on one side, stream_chat or *)
(* _stream_agent_events on the other.                                      *)

NoClient ==
    [run |-> "none", cursor |-> 0, conn |-> "none", batch |-> <<>>,
     tries |-> 0, stop |-> FALSE, sent |-> FALSE, saw |-> "none",
     last |-> "none", cancelling |-> {}]

Mode == journal[client.run].mode

\* The worker is done; `saw` is the event it ended on, if it ended on one.
Done(c, saw) ==
    [NoClient EXCEPT !.cancelling = c.cancelling, !.saw = saw, !.last = c.run]

\* events_after(run_id, cursor)
After(j, cursor) ==
    LET from == IF cursor > j.cut THEN cursor ELSE j.cut
    IN  [i \in 1..(LastId(j) - from) |->
            [id |-> from + i, e |-> j.log[from + i - j.cut]]]

ConnectFromStart ==
    /\ up /\ ~Idle /\ client.conn = "fresh"
    /\ client' = [client EXCEPT !.conn = "open",
                     !.batch = After(journal[client.run], 0)]
    /\ UNCHANGED <<journal, task, up, key, approved, cancels, faults>>

\* A connection is answered.  stream_chat records the run again, so a stop
\* may be sent again.
Connect ==
    /\ up /\ ~Idle /\ client.conn = "fresh"
    /\ client' = [client EXCEPT !.conn = "open",
                     !.batch = After(journal[client.run], client.cursor),
                     !.sent = @ /\ Mode = "agent"]
    /\ UNCHANGED <<journal, task, up, key, approved, cancels, faults>>

RefillOnce ==
    LET j == journal[client.run]
    IN  /\ up /\ client.conn = "open" /\ client.batch = <<>>
        /\ client' = IF IsTerminal(j) THEN [client EXCEPT !.conn = "none"]
                     ELSE [client EXCEPT !.batch = After(j, client.cursor)]
        /\ UNCHANGED <<journal, task, up, key, approved, cancels, faults>>

\* The generator of an open stream, all it had fetched being sent: it ends
\* when the run is over and else waits for more.  A chat's worker takes the
\* end of the stream for the end of the run; an agent's worker connects
\* again until it has seen the run rest.
Refill ==
    LET j == journal[client.run]
    IN  /\ up /\ client.conn = "open" /\ client.batch = <<>>
        /\ IF IsTerminal(j)
           THEN client' = IF Mode = "chat" THEN Done(client, "none")
                          ELSE [client EXCEPT !.conn = "fresh"]
           ELSE /\ LastId(j) > client.cursor
                /\ client' = [client EXCEPT !.batch = After(j, client.cursor)]
        /\ UNCHANGED <<journal, task, up, key, approved, cancels, faults>>

Rests == Terminal \cup Pauses

\* One event reaches the worker.
Deliver ==
    LET x == Head(client.batch)
        stopped == client.stop /\ ~client.sent /\ Mode = "chat"
        c == [client EXCEPT !.cursor = x.id, !.batch = Tail(@),
                !.sent = @ \/ stopped,
                !.cancelling = IF stopped THEN @ \cup {client.run} ELSE @]
    IN  /\ client.conn = "open" /\ client.batch # <<>>
        /\ client' = IF x.e \in Rests THEN Done(c, x.e) ELSE c
        /\ UNCHANGED <<journal, task, up, key, approved, cancels, faults>>

\* The connection drops (or the gateway did): a stopped agent's worker is
\* done, an agent's worker connects again, a chat's worker a few times.
Drop ==
    /\ client.conn \in {"fresh", "open"} /\ Fault
    /\ client' = Dropped
    /\ UNCHANGED <<journal, task, up, key, approved, cancels>>

GivesUp ==
    \/ Mode # "chat" /\ client.stop
    \/ Mode = "chat" /\ client.tries >= ChatAttempts

Reconnect ==
    /\ client.conn = "lost"
    /\ client' = IF GivesUp THEN Done(client, "none")
                 ELSE [client EXCEPT !.conn = "fresh",
                         !.tries = IF Mode = "chat" THEN @ + 1 ELSE @]
    /\ UNCHANGED <<journal, task, up, key, approved, cancels, faults>>

\* Nothing listens while the gateway is down.
Refused ==
    /\ ~up /\ client.conn = "fresh"
    /\ client' = Dropped
    /\ UNCHANGED <<journal, task, up, key, approved, cancels, faults>>

\* Stop: the cancel is sent once, from a thread of its own, and may be lost.
Stop ==
    /\ ~Idle /\ ~client.stop
    /\ client' = [client EXCEPT !.stop = TRUE, !.sent = TRUE,
                     !.cancelling = @ \cup {client.run}]
    /\ UNCHANGED <<journal, task, up, key, approved, cancels, faults>>

CancelLost(r) ==
    /\ r \in client.cancelling /\ (Fault \/ (~up /\ UNCHANGED faults))
    /\ client' = [client EXCEPT !.cancelling = @ \ {r}]
    /\ UNCHANGED <<journal, task, up, key, approved, cancels>>

-----------------------------------------------------------------------------

Init ==
    /\ journal = [r \in Runs |-> NoRun]
    /\ task = [r \in Runs |-> NoTask]
    /\ up = TRUE /\ key = TRUE /\ approved = FALSE
    /\ cancels = {} /\ faults = 0
    /\ client = NoClient

Next ==
    \/ \E r \in Runs :
          \/ TaskStep(r) \/ Decided(r) \/ Expire(r) \/ Pause(r)
          \/ \E a \in {"allow", "deny"} : Resolve(r, a)
          \/ CancelArrives(r) \/ CancelLost(r)
          \/ \E g \in 1..MaxTasks : CancelTask(r, g)
          \/ \E new \in BOOLEAN : Resume(r, new)
          \/ StartChat(r) \/ StartAgent(r)
    \/ SetKey \/ Crash \/ Close \/ Boot
    \/ Connect \/ Refill \/ Deliver \/ Drop \/ Reconnect
    \/ Refused \/ Stop

\* Provider and executor calls return (both have timeouts), an approval is
\* decided or reaches its deadline, the runtime manager starts a gateway that
\* went down, and the worker thread reads its stream.
Fairness ==
    /\ \A r \in Runs : WF_vars(TaskStep(r) \/ Decided(r) \/ Expire(r))
    /\ WF_vars(Boot) /\ WF_vars(Connect \/ Refill \/ Deliver \/ Reconnect)

Spec == Init /\ [][Next]_vars /\ Fairness

-----------------------------------------------------------------------------

\* Once a run has ended nothing is journalled for it any more, whatever
\* cancel, pause, timeout or shutdown races its end: its newest event stays
\* the one that says how it ended.  (Of the events modelled here: parallel
\* reads still in flight may follow a failed run, see AgentLoop.)
EndIsFinal ==
    [][\A r \in Runs : IsTerminal(journal[r]) =>
          journal'[r] = journal[r]]_vars

\* While the gateway serves, a run that nothing works on is at rest: it has
\* ended or is paused at a point it can be resumed from.  Restarts, cancels
\* and expired approvals leave no run in between.
IdleRunsRest ==
    up => \A r \in Runs :
        journal[r].mode # "none" /\ ~Running(r)
        => IsTerminal(journal[r]) \/ Resumable(journal[r])

\* The row of a run says what its retained events say: it is paused exactly
\* when a pause is the newest event about the run's state.
RowMatchesEvents ==
    \A r \in Runs :
        /\ PauseReason(journal[r]) # "none" /\ ~IsTerminal(journal[r])
           => journal[r].state = "paused"
        /\ (\E i \in DOMAIN journal[r].log : journal[r].log[i] \in Starts)
           /\ PauseReason(journal[r]) = "none" /\ ~IsTerminal(journal[r])
           => journal[r].state = "started"

\* The events a worker gets are in order, without repetition, and complete up
\* to what the journal pruned, over any number of reconnects.
StreamInOrder ==
    [][client.run # "none" /\ client'.run = client.run
       /\ client'.cursor # client.cursor
       => /\ client'.cursor > client.cursor
          /\ \A i \in (client.cursor + 1)..(client'.cursor - 1) :
                i <= journal[client.run].cut]_vars

\* A worker that ended on an event of its run ended because the run rests: no
\* task works on it (a replayed pause never ends a worker whose run goes on).
EndMeansRest ==
    Idle /\ client.saw # "none" => ~Running(client.last)

\* A stop cancels the task it was meant for: a run that was resumed since is
\* not cancelled by a call the gateway had taken up before.
CancelHitsItsTask ==
    [][\A r \in Runs :
         /\ up' /\ Running(r) /\ journal'[r] # journal[r]
         /\ journal'[r].state = "cancelled"
         => task[r].cancel \/ <<r, task[r].gen>> \in cancels]_vars

\* A run that looks at rest is: to the service (no task), to a reader of the
\* journal (its row and events), and to the worker that followed it.
RestIsReal == IdleRunsRest /\ RowMatchesEvents /\ EndMeansRest

\* Work on a run comes to rest.
Settles == \A r \in Runs : Running(r) ~> ~Running(r)

\* A run's end or pause reaches the worker that follows it.
RestIsSeen ==
    \A r \in Runs :
        (client.run = r /\ ~Running(r) /\ LastId(journal[r]) > client.cursor)
        ~> client.run # r

\* Every run comes to rest, and the desktop finds out.
RestIsReached == Settles /\ RestIsSeen

\* Every run keeps the abstract protocol: journal rows and snapshots, as the
\* handlers, the tasks, a shutdown and the recovery after a crash write them,
\* implement RunProtocol.
Protocol ==
    INSTANCE RunProtocol WITH state <- [r \in Runs |-> journal[r].state],
                              safe <- [r \in Runs |-> journal[r].safe]
KeepsProtocol == Protocol!ProtocolSpec

\* A paused run whose saved budget is used up can be continued with another
\* budget (docs/LIMITS.md, and the docstring of resume_agent).
SpentRunContinues ==
    \A r \in Runs :
        up /\ ~Running(r) /\ Resumable(journal[r]) /\ Over(journal[r].saved)
        => PauseReason(journal[r]) = "budget"
=============================================================================
