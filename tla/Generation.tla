----------------------------- MODULE Generation -----------------------------
(***************************************************************************)
(* The desktop's side of a run: the conversation it belongs to, the worker *)
(* thread that reads its stream, the messages queued behind it, and the    *)
(* approval tier it is given (GenerationService, GenerationController,     *)
(* ConversationService, the stream workers).                               *)
(*                                                                         *)
(* Everything but the workers runs on the user-interface thread: a step is *)
(* one slot, timer or click.  A worker emits its signals in order; each is *)
(* handled by a slot some time later.                                      *)
(***************************************************************************)
EXTENDS Naturals, Sequences, FiniteSets, SequencesExt

CONSTANTS
    Convs,          \* conversations
    MaxRunsStarted, \* bound: runs started
    MaxClicks,      \* bound: other things the user does
    MaxQueued       \* bound: messages waiting

ASSUME GenerationBounds ==
    MaxRunsStarted \in Nat /\ MaxClicks \in Nat /\ MaxQueued \in Nat

VARIABLES
    exists,     \* conversations in the database
    current,    \* the one shown
    workers,    \* worker threads, by number: home, kind, tier, stage
    active,     \* GenerationService.worker: its number, 0 for none
    state,      \* GenerationController.state: conversation, text, cancel
    queue,      \* pending_inputs: the conversation each was typed in
    timer,      \* queued inputs taken out and about to be sent
    dialogs,    \* the confirmation on the screen, if any
    tier,       \* the session's approval tier, and whether the user trusts it
    publishing, \* a staged publication is under way
    saved,      \* answers in the database: conversation and worker
    doubled,    \* workers that were alive together with another one
    refused,    \* a queued message could not be started
    clicks

genVars == <<exists, current, workers, active, state, queue, timer, dialogs,
             tier, publishing, saved, doubled, refused, clicks>>

Generating == active # 0
Alive == {w \in DOMAIN workers : workers[w].stage # "gone"}
NoState == [conv |-> "none", text |-> {}, cancel |-> FALSE]

\* The confirmation dialog is modal: nothing else is clicked while it is open.
Click == dialogs = {} /\ clicks < MaxClicks /\ clicks' = clicks + 1

-----------------------------------------------------------------------------
(* Starting a run.                                                         *)

\* start_generation and _attach: begin() replaces the state, the new worker
\* the old one.  Nothing here asks whether a run is active.
Begin(conv, auto) ==
    /\ Len(workers) < MaxRunsStarted
    /\ workers' = Append(workers, [home |-> conv, auto |-> auto, stage |-> "streaming"])
    /\ active' = Len(workers) + 1
    /\ state' = [NoState EXCEPT !.conv = conv]
    /\ doubled' = IF Alive = {} THEN doubled
                  ELSE doubled \cup Alive \cup {Len(workers) + 1}

\* start_user_turn: the message joins the conversation shown; without a key or
\* a connection nothing is started, and the text is gone.
StartUserTurn ==
    \/ Begin(current, tier.auto) /\ UNCHANGED refused
    \/ refused' = TRUE /\ UNCHANGED <<workers, active, state, doubled>>

\* send_message: queued behind a run, in front of the others when it steers.
Send ==
    /\ ~publishing /\ Click
    /\ IF Generating
       THEN /\ Len(queue) < MaxQueued
            /\ queue' \in {Append(queue, current), <<current>> \o queue}
            /\ UNCHANGED <<workers, active, state, doubled, refused>>
       ELSE StartUserTurn /\ UNCHANGED queue
    /\ UNCHANGED <<exists, current, timer, dialogs, tier, publishing, saved>>

\* edit_message and regenerate_message, and resume_run, which drops the tiers.
Rerun ==
    /\ ~Generating /\ Click
    /\ Begin(current, tier.auto)
    /\ UNCHANGED <<exists, current, queue, timer, dialogs, tier, publishing, saved,
                   refused>>

Resume ==
    /\ ~Generating /\ Click
    /\ Begin(current, FALSE)
    /\ tier' = [auto |-> FALSE, trusted |-> FALSE]
    /\ UNCHANGED <<exists, current, queue, timer, dialogs, publishing, saved,
                   refused>>

-----------------------------------------------------------------------------
(* Signals of a worker.                                                    *)

\* The text it collected is flushed when its stream ends.
OnChunk(w) ==
    /\ workers[w].stage = "streaming"
    /\ workers' = [workers EXCEPT ![w].stage = "flushed"]
    /\ state' = [state EXCEPT !.text = @ \cup {w}]
    /\ UNCHANGED <<exists, current, active, queue, timer, dialogs, tier,
                   publishing, saved, doubled, refused, clicks>>

\* save_assistant: one message in the conversation of the state; a deleted
\* conversation cannot take it.
Saves == IF state.conv \in exists THEN {<<state.conv, w>> : w \in state.text}
         ELSE {}
AutoRun == Generating /\ workers[active].auto

AutoAfterCancelOnly(bad) == IF state.cancel /\ AutoRun THEN FALSE ELSE tier.auto
AutoAfter(bad) == IF bad /\ AutoRun THEN FALSE ELSE tier.auto

\* on_stream_complete and on_stream_error
OnEnd(w, failed) ==
    LET bad == failed \/ state.cancel
    IN  /\ workers[w].stage = "flushed"
        /\ workers' = [workers EXCEPT ![w].stage = "ended"]
        /\ saved' = saved \cup Saves
        /\ state' = [state EXCEPT !.text = {}]
        /\ tier' = [tier EXCEPT !.auto = AutoAfter(bad),
                      !.trusted = @ /\ ~(bad /\ workers[w].auto)]
        /\ UNCHANGED <<exists, current, active, queue, timer, dialogs,
                       publishing, doubled, refused, clicks>>

\* continue_queued_input: the next message goes out by a timer.
ContinueQueued ==
    /\ timer' = IF queue = <<>> THEN timer ELSE Append(timer, Head(queue))
    /\ queue' = IF queue = <<>> THEN queue ELSE Tail(queue)

OnWorkerFinishedWaits(w) ==
    /\ workers[w].stage = "ended"
    /\ workers' = [workers EXCEPT ![w].stage = "gone"]
    /\ active' = 0
    /\ IF publishing \/ dialogs # {} THEN UNCHANGED <<queue, timer>>
       ELSE ContinueQueued
    /\ UNCHANGED <<exists, current, state, dialogs, tier, publishing, saved,
                   doubled, refused, clicks>>

\* on_worker_finished: whichever worker it was, none is active now.
OnWorkerFinished(w) ==
    /\ workers[w].stage = "ended"
    /\ workers' = [workers EXCEPT ![w].stage = "gone"]
    /\ active' = 0
    /\ IF publishing THEN UNCHANGED <<queue, timer>> ELSE ContinueQueued
    /\ UNCHANGED <<exists, current, state, dialogs, tier, publishing, saved,
                   doubled, refused, clicks>>

TimerFires ==
    /\ timer # <<>> /\ timer' = Tail(timer)
    /\ StartUserTurn
    /\ UNCHANGED <<exists, current, queue, dialogs, tier, publishing, saved, clicks>>

Stop ==
    /\ Generating /\ ~state.cancel /\ Click
    /\ state' = [state EXCEPT !.cancel = TRUE]
    /\ UNCHANGED <<exists, current, workers, active, queue, timer, dialogs,
                   tier, publishing, saved, doubled,
                   refused>>

-----------------------------------------------------------------------------
(* The publication of a run's staged changes.                              *)

PublishStarts ==
    /\ ~publishing /\ Click
    /\ publishing' = TRUE
    /\ UNCHANGED <<exists, current, workers, active, state, queue, timer,
                   dialogs, tier, saved, doubled,
                   refused>>

\* _on_publication_finished
PublishEnds ==
    /\ publishing /\ publishing' = FALSE
    /\ IF Generating THEN UNCHANGED <<queue, timer>> ELSE ContinueQueued
    /\ UNCHANGED <<exists, current, workers, active, state, dialogs, tier,
                   saved, doubled, refused, clicks>>

-----------------------------------------------------------------------------
(* Conversations, and dialogs that are answered later.                     *)

SelectUnguarded(c) ==
    /\ c \in exists /\ Click
    /\ current' = c /\ state' = [state EXCEPT !.conv = c]
    /\ UNCHANGED <<exists, workers, active, queue, timer, dialogs, tier,
                   publishing, saved, doubled,
                   refused>>

\* select, fork and new_conversation: not during a run.
Select(c) ==
    /\ ~Generating /\ c \in exists /\ Click
    /\ current' = c
    /\ UNCHANGED <<exists, workers, active, state, queue, timer, dialogs, tier,
                   publishing, saved, doubled,
                   refused>>

\* set_search: the first hit is shown when the conversation shown is no hit.
Search(c) ==
    /\ c \in exists /\ Click
    /\ current' = c
    /\ UNCHANGED <<exists, workers, active, state, queue, timer, dialogs, tier,
                   publishing, saved, doubled,
                   refused>>

\* A dialog: a prompt command (/name), the deletion of the conversation shown
\* (not during a run), or Auto (not during a run or a publication).
Ask(d) ==
    /\ Click
    /\ d.what # "command" => ~Generating
    /\ d.what = "auto" => ~publishing
    /\ d.what = "delete" => d.conv = current
    /\ dialogs' = {d}
    /\ UNCHANGED <<exists, current, workers, active, state, queue, timer, tier,
                   publishing, saved, doubled,
                   refused>>

\* resolveConfirmation: the callback runs, whatever has happened since.
AcceptDialog(d) ==
    /\ d \in dialogs /\ dialogs' = {}
    /\ CASE d.what = "command" ->
              /\ StartUserTurn /\ UNCHANGED <<exists, current, tier>>
         [] d.what = "delete" ->
              /\ exists' = exists \ {d.conv} /\ exists' # {}
              /\ current' \in exists'
              /\ UNCHANGED <<workers, active, state, doubled, refused, tier>>
         [] d.what = "auto" ->
              /\ tier' = [auto |-> TRUE, trusted |-> TRUE]
              /\ UNCHANGED <<exists, current, workers, active, state, doubled,
                             refused>>
    /\ UNCHANGED <<queue, timer, publishing, saved, clicks>>

Decline ==
    /\ dialogs # {} /\ dialogs' = {}
    /\ UNCHANGED <<exists, current, workers, active, state, queue, timer, tier,
                   publishing, saved, doubled, refused, clicks>>

\* Auto is switched off, or the workspace changes (not during a run).
LeaveAuto ==
    /\ tier.auto /\ Click
    /\ tier' = [auto |-> FALSE, trusted |-> FALSE]
    /\ UNCHANGED <<exists, current, workers, active, state, queue, timer,
                   dialogs, publishing, saved, doubled,
                   refused>>

-----------------------------------------------------------------------------

GenerationInit ==
    /\ exists = Convs /\ current \in Convs
    /\ workers = <<>> /\ active = 0 /\ state = NoState
    /\ queue = <<>> /\ timer = <<>> /\ dialogs = {}
    /\ tier = [auto |-> FALSE, trusted |-> FALSE]
    /\ publishing = FALSE /\ saved = {} /\ clicks = 0
    /\ doubled = {} /\ refused = FALSE

Questions == {[what |-> "command", conv |-> "none"], [what |-> "auto", conv |-> "none"]}
             \cup {[what |-> "delete", conv |-> c] : c \in Convs}

Slot ==
    \/ \E w \in DOMAIN workers :
          OnChunk(w) \/ OnWorkerFinished(w) \/ \E f \in BOOLEAN : OnEnd(w, f)
    \/ TimerFires \/ PublishEnds

GenerationNext ==
    \/ Slot \/ Send \/ Rerun \/ Resume \/ Stop \/ PublishStarts \/ LeaveAuto
    \/ Decline
    \/ \E c \in Convs : Select(c) \/ Search(c)
    \/ \E d \in Questions : Ask(d) \/ AcceptDialog(d)

\* Streams end, publications end, and the event loop handles what is posted.
GenerationSpec ==
    GenerationInit /\ [][GenerationNext]_genVars /\ WF_genVars(Slot)

-----------------------------------------------------------------------------

\* An answer is saved in the conversation its run was started in, whatever was
\* selected, searched, deleted or published meanwhile: unless another run was
\* started beside it.
AnswersLandHome ==
    \A s \in saved : s[1] = workers[s[2]].home \/ s[2] \in doubled

\* No answer is lost: when a worker has ended its text is in the database,
\* unless its conversation was deleted or another run was started beside it.
AnswersAreSaved ==
    \A w \in DOMAIN workers :
        workers[w].stage \in {"ended", "gone"}
        => \/ <<workers[w].home, w>> \in saved
           \/ workers[w].home \notin exists \/ w \in doubled

\* Every answer is in the database, in the conversation it belongs to.
AnswersArrive == AnswersLandHome /\ AnswersAreSaved

\* Auto is on only while the user's last word on it stands: a run of Auto that
\* failed or was stopped, a resumed run and a change of workspace end it, and
\* no queued message brings it back.  (With two workers alive the wrong one
\* may be asked whether it was a run of Auto.)
AutoIsTrusted == tier.auto => tier.trusted \/ doubled # {}

\* What is queued is sent, or taken out and refused for want of a key or a
\* connection: runs and publications end in either order, and the last of them
\* sends the next message.
QueueDrains == queue # <<>> ~> (queue = <<>> \/ refused)

\* A stream never lands in another conversation than its own (the comment of
\* ConversationService).
StreamsLandHome == \A s \in saved : s[1] = workers[s[2]].home
=============================================================================
