---------------------------- MODULE ModelTurns ----------------------------
(***************************************************************************)
(* The gateway's conversation with the provider (src/server/openrouter):   *)
(* an agent turn with its retries and its clamped reasoning effort         *)
(* (_model_turn of the runtime), its stream assembled from fragments that  *)
(* arrive in any order, the live text journalled on the way; and a chat    *)
(* stream, which is never retried.                                         *)
(*                                                                         *)
(* The provider is external: it may answer with an error or a plain body,  *)
(* stream any part of the reply it has decided on, break off, or fall      *)
(* silent until a timeout. A reply is a number of text chunks and a number *)
(* of tool calls of FragmentsPerCall fragments each.                       *)
(***************************************************************************)
EXTENDS Integers, Sequences, FiniteSets, SequencesExt

CONSTANTS
    Attempts,           \* PROVIDER_ATTEMPTS
    FragmentsPerCall,
    MaxCalls,           \* tool calls of a reply
    MaxText,            \* text chunks of a reply
    StreamMax,          \* STREAM_MAX_CHARS, in chunks
    MaxTurns            \* turns of the run

ASSUME ModelTurnsAssumption ==
    /\ Attempts \in Nat \ {0} /\ FragmentsPerCall \in Nat \ {0} /\ StreamMax \in Nat \ {0}
    /\ MaxCalls \in Nat /\ MaxText \in Nat

VARIABLES
    turn,       \* [at, kind, attempt, stepped]: the call under way
    effort,     \* state.effort: the reasoning level of the run, higher is more
    wire,       \* what the provider sent on this attempt: [text, frags, done, numbered, open]
    parts,      \* _StreamedTurn: [text, calls, received]
    deltas,     \* _DeltaJournal: [buffer, sent]
    live,       \* the turn's journalled text: the attempt and number of each chunk
    turns       \* turns started

turnVars == <<turn, effort, wire, parts, deltas, live, turns>>

Rest == {"idle", "returned", "failed", "cancelled"}
NoWire == [text |-> 0, frags |-> <<>>, done |-> FALSE, numbered |-> TRUE, open |-> FALSE]
\* _StreamedTurn.__init__
NoParts == [text |-> <<>>, calls |-> <<>>, received |-> FALSE]
NoDeltas == [buffer |-> <<>>, sent |-> 0]
-----------------------------------------------------------------------------
(***************************************************************************)
(* Assembling a reply.                                                     *)
(***************************************************************************)
\* _merge_call for each call of a chunk: its fragment is appended to the entry at[k], which
\* is made when there is none.  (Here no two calls of a chunk have the same entry.)
Merged(calls, chunk, at) ==
    [e \in DOMAIN calls \cup {at[k] : k \in DOMAIN chunk} |->
        LET old == IF e \in DOMAIN calls THEN calls[e] ELSE <<>>
        IN IF \E k \in DOMAIN chunk : at[k] = e
           THEN Append(old, chunk[CHOOSE k \in DOMAIN chunk : at[k] = e].frag)
           ELSE old]

\* The entry of the fragment's index, or of its position in the chunk when the provider does
\* not number its calls.
MergePositions(calls, chunk) == Merged(calls, chunk, [k \in DOMAIN chunk |-> k])
MergeCalls(calls, chunk) ==
    Merged(calls, chunk, [k \in DOMAIN chunk |-> IF wire.numbered THEN chunk[k].call ELSE k])

\* turn(): the calls by ascending index.
Assembled ==
    LET entries == DOMAIN parts.calls
        place(e) == Cardinality({d \in entries : d <= e})
    IN [k \in 1..Cardinality(entries) |-> parts.calls[CHOOSE e \in entries : place(e) = k]]

\* _DeltaJournal.flush: the buffer, as far as the cap still allows.
Flush(d, shown) ==
    LET room == IF StreamMax > d.sent THEN StreamMax - d.sent ELSE 0
        out == SubSeq(d.buffer, 1, IF Len(d.buffer) < room THEN Len(d.buffer) ELSE room)
    IN [deltas |-> [buffer |-> <<>>, sent |-> d.sent + Len(out)], live |-> shown \o out]

\* _DeltaJournal.__call__: buffered, and journalled when enough has gathered or enough time
\* has passed (now is TRUE).
Delta(chunk, now) ==
    IF deltas.sent >= StreamMax THEN UNCHANGED <<deltas, live>>
    ELSE LET d == [deltas EXCEPT !.buffer = Append(@, chunk)]
             flushed == IF now THEN Flush(d, live) ELSE [deltas |-> d, live |-> live]
         IN deltas' = flushed.deltas /\ live' = flushed.live
-----------------------------------------------------------------------------
(***************************************************************************)
(* Attempts.                                                               *)
(***************************************************************************)
\* The top of _model_turn's loop: a new _DeltaJournal and a new stream for every attempt.
Attempt(kind, n, stepped) ==
    /\ turn' = [at |-> "sent", kind |-> kind, attempt |-> n, stepped |-> stepped]
    /\ wire' = NoWire /\ parts' = NoParts /\ deltas' = NoDeltas

AskTurn(kind) ==
    /\ turn.at \in Rest /\ turn.at # "cancelled" /\ turns < MaxTurns
    /\ turns' = turns + 1 /\ live' = <<>>
    /\ Attempt(kind, 1, FALSE)
    /\ UNCHANGED effort

TurnBecomes(at) == turn' = [turn EXCEPT !.at = at]

\* The except branch of _model_turn for an error that is not about the effort: raised when
\* it is not retryable or was the last attempt, else model.retry and the wait. A chat
\* stream raises it.
Raise(retryable) ==
    /\ TurnBecomes(IF retryable /\ turn.kind = "agent" /\ turn.attempt # Attempts
            THEN "waiting" ELSE "failed")
    /\ UNCHANGED <<effort, wire, parts, deltas, live, turns>>

\* The wait between two attempts is over.
Retry ==
    /\ turn.at = "waiting"
    /\ Attempt("agent", turn.attempt + 1, turn.stepped)
    /\ UNCHANGED <<effort, live, turns>>

\* A 400 that names the effort: once per turn one level lower, for the rest of the run.
EffortRejected ==
    /\ turn.at = "sent" /\ turn.kind = "agent" /\ effort > 0
    /\ IF effort > 1 /\ ~turn.stepped /\ turn.attempt < Attempts
       THEN /\ effort' = effort - 1
            /\ Attempt("agent", turn.attempt + 1, TRUE)
            /\ UNCHANGED <<live, turns>>
       ELSE Raise(FALSE)

\* Every other status above 400, and a connection that fails.
Refused(retryable) == turn.at = "sent" /\ Raise(retryable)

\* A plain JSON body: the whole reply at once (_turn_from_body); without a message it is an
\* error, retryable when the body says so.
Body(reply) ==
    /\ turn.at = "sent" /\ turn.kind = "agent"
    /\ wire' = [NoWire EXCEPT !.done = TRUE, !.text = reply.text,
                              !.frags = [k \in 1..reply.calls |-> [call |-> k, frag |-> 1]]]
    /\ parts' = [text |-> [k \in 1..reply.text |-> <<turn.attempt, k>>],
                 calls |-> [k \in 1..reply.calls |-> <<1>>], received |-> TRUE]
    /\ TurnBecomes("returned")
    /\ UNCHANGED <<effort, deltas, live, turns>>

Opens(numbered) ==
    /\ turn.at = "sent" /\ TurnBecomes("streaming")
    /\ wire' = [wire EXCEPT !.numbered = numbered, !.open = TRUE]
    /\ UNCHANGED <<effort, parts, deltas, live, turns>>
-----------------------------------------------------------------------------
(***************************************************************************)
(* The stream.                                                             *)
(***************************************************************************)
Streaming == turn.at = "streaming" /\ ~wire.done

\* _StreamedTurn.add of a text chunk, and on_delta; a chat run journals every chunk.
TextChunk(now) ==
    /\ Streaming /\ wire.text < MaxText
    /\ wire' = [wire EXCEPT !.text = @ + 1]
    /\ LET chunk == <<turn.attempt, wire.text + 1>>
       IN /\ parts' = [parts EXCEPT !.text = Append(@, chunk), !.received = TRUE]
          /\ IF turn.kind = "agent" THEN Delta(chunk, now)
             ELSE live' = Append(live, chunk) /\ UNCHANGED deltas
    /\ UNCHANGED <<turn, effort, turns>>

SentOf(c) == {k \in DOMAIN wire.frags : wire.frags[k].call = c}

\* A provider that numbers its calls sends the next fragment of any of them; one that does
\* not sends them all, whole, in one chunk.
Chunks ==
    IF wire.numbered
    THEN {<<[call |-> c, frag |-> Cardinality(SentOf(c)) + 1]>> : c \in
            {c \in 1..MaxCalls : /\ Cardinality(SentOf(c)) < FragmentsPerCall
                                 /\ \A d \in 1..c - 1 : SentOf(d) # {}}}
    ELSE IF wire.frags # <<>> THEN {}
    ELSE {[k \in 1..n |-> [call |-> k, frag |-> 1]] : n \in 1..MaxCalls}

CallChunk(chunk) ==
    /\ Streaming /\ turn.kind = "agent"
    /\ wire' = [wire EXCEPT !.frags = @ \o chunk]
    /\ parts' = [parts EXCEPT !.calls = MergeCalls(@, chunk), !.received = TRUE]
    /\ UNCHANGED <<turn, effort, deltas, live, turns>>

\* An error chunk, the idle timeout, the turn's ceiling, a broken connection. The error chunk
\* and the timeouts of an agent turn are retryable; a chat stream has no timeout.
StreamFails == turn.at = "streaming" /\ Raise(TRUE)

\* The end of the lines after [DONE], or without it. An agent turn takes what arrived, if a
\* message did; a chat stream raises provider.incomplete_stream unless it was done.
StreamEnds(done) ==
    /\ turn.at = "streaming"
    /\ IF IF turn.kind = "agent" THEN parts.received ELSE done
       THEN /\ wire' = [wire EXCEPT !.done = done]
            /\ TurnBecomes("returned")
            /\ LET flushed == Flush(deltas, live)
               IN IF turn.kind = "agent"
                  THEN deltas' = flushed.deltas /\ live' = flushed.live
                  ELSE UNCHANGED <<deltas, live>>
            /\ UNCHANGED <<effort, parts, turns>>
       ELSE Raise(TRUE)

\* The run is cancelled: the task's cancellation closes the stream.
CancelTurn ==
    /\ turn.at \notin Rest /\ TurnBecomes("cancelled")
    /\ UNCHANGED <<effort, wire, parts, deltas, live, turns>>
-----------------------------------------------------------------------------
TurnsInit ==
    /\ turn = [at |-> "idle", kind |-> "agent", attempt |-> 0, stepped |-> FALSE]
    /\ effort \in 0..3 /\ wire = NoWire /\ parts = NoParts /\ deltas = NoDeltas
    /\ live = <<>> /\ turns = 0

\* What comes of a request and of a silent stream in bounded time: httpx's connect timeout,
\* the idle timeout and the ceiling of the turn see to it.
ProviderStep ==
    \/ Retry \/ EffortRejected \/ StreamFails
    \/ \E retryable \in BOOLEAN : Refused(retryable)
    \/ \E reply \in [text : 0..MaxText, calls : 0..MaxCalls] : Body(reply)
    \/ \E numbered \in BOOLEAN : Opens(numbered)
    \/ \E now \in BOOLEAN : TextChunk(now)
    \/ \E chunk \in Chunks : CallChunk(chunk)
    \/ \E done \in BOOLEAN : StreamEnds(done)

TurnsNext ==
    \/ ProviderStep \/ CancelTurn
    \/ \E kind \in {"agent", "chat"} : AskTurn(kind)

TurnsSpec == TurnsInit /\ [][TurnsNext]_turnVars /\ WF_turnVars(ProviderStep)
-----------------------------------------------------------------------------
(***************************************************************************)
(* Properties.                                                             *)
(***************************************************************************)
\* What a returned turn holds is what the provider sent on its last attempt and nothing else:
\* every call's fragments joined in order (the provider numbers them as it sends them), one
\* entry per call in the provider's order, and the text, however the fragments interleaved and
\* however many attempts came before.
TurnIsOneAttempt ==
    turn.at = "returned" =>
        LET ncalls == Cardinality({wire.frags[k].call : k \in DOMAIN wire.frags})
        IN /\ Assembled = [c \in 1..ncalls |-> [k \in 1..Cardinality(SentOf(c)) |-> k]]
           /\ parts.text = [k \in 1..wire.text |-> <<turn.attempt, k>>]

\* The live text of a streamed turn ends with the text of the attempt that was returned, up to
\* the cap: nothing of it stays in the buffer (_DeltaJournal, flush after agent_turn).
LiveTextEndsWithTurn ==
    turn.at = "returned" /\ wire.open =>
        \E n \in 0..Len(live) :
           /\ n <= Len(parts.text) /\ (n < Len(parts.text) => n >= StreamMax)
           /\ \A k \in 1..Len(live) - n : live[k][1] # turn.attempt
           /\ \A k \in 1..n : live[Len(live) - n + k] = parts.text[k]

\* A chat answer is complete only after the provider said so; a stream that breaks off is an
\* error (provider.incomplete_stream), never a short answer.
ChatIsWhole == turn.at = "returned" /\ turn.kind = "chat" => wire.done

\* No turn asks more than PROVIDER_ATTEMPTS times, the step down in effort included, and no
\* turn waits for an attempt it may not make.
AttemptsAreBounded ==
    /\ turn.attempt <= Attempts
    /\ turn.at = "waiting" => turn.attempt < Attempts

\* A turn that returns is one whole answer of the provider, shown as it is, after a bounded
\* number of attempts.
TurnsAreWhole == TurnIsOneAttempt /\ LiveTextEndsWithTurn /\ ChatIsWhole /\ AttemptsAreBounded

\* Every turn ends, by an answer, an error or a cancellation.
TurnsEnd == turn.at = "sent" ~> turn.at \in Rest
=============================================================================
