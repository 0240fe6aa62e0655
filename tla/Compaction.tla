---------------------------- MODULE Compaction -----------------------------
(***************************************************************************)
(* When the agent loop compacts its history: the high-water mark, the      *)
(* floor a run learns from a compaction that could not get below it, and   *)
(* the estimate of the next prompt (AgentRuntime._maybe_compact and the    *)
(* functions it uses).  Sizes are in thousands of tokens.                  *)
(***************************************************************************)
EXTENDS Naturals

CONSTANTS
    Window,         \* context_limit_tokens
    MaxOutput,      \* the profile's max_output_tokens
    Threshold,      \* compaction_threshold_tokens, or the working-set cap
    Prefix,         \* the leading system messages
    Schema,         \* the tool schemas
    MaxOverhead,    \* bound: what a provider counts beyond the local estimate
    Growths,        \* what one turn may add to the history
    Handoffs        \* what a compaction may leave besides the prefix

ASSUME SizesAreNat ==
    /\ Window \in Nat /\ MaxOutput \in Nat /\ Threshold \in Nat
    /\ Prefix \in Nat /\ Schema \in Nat /\ MaxOverhead \in Nat
    /\ Growths \subseteq Nat /\ Handoffs \subseteq Nat

VARIABLES
    hist,       \* estimate_message_tokens(messages)
    prompt,     \* _prompt_overhead, _last_prompt_tokens and what came since
    learned,    \* _compaction_floor
    step,       \* "check", "turn" (a prompt is out), "failed"
    again       \* since the last compaction: growth, and the mark it left

compVars == <<hist, prompt, learned, step, again>>

-----------------------------------------------------------------------------

GrowthReserve == 32     \* TURN_GROWTH_RESERVE_TOKENS
MinHighWater == 4       \* MIN_HIGH_WATER_TOKENS
ExchangeReserve == 2    \* EXCHANGE_RESERVE_TOKENS
Hysteresis == 2         \* COMPACTION_HYSTERESIS_TOKENS
RequestReserve == 1     \* COMPACTION_REQUEST_RESERVE_TOKENS
Margin == 2             \* PROMPT_ESTIMATE_MARGIN_TOKENS

AtLeast(a, b) == IF a >= b THEN a ELSE b
AtMost(a, b) == IF a <= b THEN a ELSE b

\* The room left by one full output and one large result; none on a window
\* that cannot hold both.
Capacity == IF Window >= MaxOutput + GrowthReserve
            THEN Window - MaxOutput - GrowthReserve ELSE 0

\* _mark_room
MarkRoom == AtMost((Window * 9) \div 10, Capacity)

\* _high_water
HighWater ==
    AtLeast(MinHighWater,
            AtMost(Threshold, AtMost((Window * 3) \div 4, Capacity)))

\* effective_high_water, which raises when the mark is beyond the room.
Effective(floor) ==
    AtLeast(HighWater, AtLeast(Prefix + ExchangeReserve + Hysteresis, floor))

\* _trigger_tokens
Trigger(mark) ==
    AtLeast(MinHighWater, IF mark >= RequestReserve THEN mark - RequestReserve ELSE 0)

\* _prompt_estimate
Estimate(h, p) ==
    LET local == h + Schema + p.overhead + Margin
    IN  IF p.last = 0 THEN local ELSE AtLeast(local, p.last + p.since)

\* The next floor: recorded only when the compacted prompt is still at the
\* base mark and a mark above it fits the window.
LearnPlain(after) ==
    IF after >= Trigger(Effective(0)) /\ after + Hysteresis <= MarkRoom
    THEN after + Hysteresis ELSE 0

Learn(after) ==
    LET floor == after + RequestReserve + Hysteresis
    IN  IF after >= Trigger(Effective(0)) /\ floor <= MarkRoom THEN floor ELSE 0

-----------------------------------------------------------------------------

\* How a compaction ends: it raises the mark, is below the base mark, or has
\* to leave the prompt above every mark that fits the window.
MarkLeft(after) ==
    IF Learn(after) > 0 THEN "floor"
    ELSE IF after < Trigger(Effective(0)) THEN "base" ELSE "none"

\* The mark is computed at the start of the run and at every check.
CompInit ==
    /\ hist \in {Prefix + g : g \in Growths}
    /\ prompt = [overhead |-> 0, last |-> 0, since |-> 0]
    /\ learned = 0
    /\ step = IF Effective(0) > MarkRoom THEN "failed" ELSE "check"
    /\ again = [grown |-> 0, left |-> "none"]

Check ==
    /\ step = "check"
    /\ IF Effective(learned) > MarkRoom
       THEN step' = "failed" /\ UNCHANGED <<hist, prompt, learned, again>>
       ELSE /\ Estimate(hist, prompt) < Trigger(Effective(learned))
            /\ step' = "turn" /\ UNCHANGED <<hist, prompt, learned, again>>

\* A compaction: the handoff and the newest exchanges, or the deterministic
\* one; past the hard ceiling the result is bounded once more.
Compact ==
    /\ step = "check" /\ Effective(learned) <= MarkRoom
    /\ Estimate(hist, prompt) >= Trigger(Effective(learned))
    /\ \E kept \in Handoffs :
         LET raw == AtMost(Prefix + kept, hist)
             h == IF raw > (Window * 9) \div 10
                  THEN AtLeast(Prefix, AtMost(raw, (Window * 8) \div 10)) ELSE raw
             p == [prompt EXCEPT !.last = 0, !.since = 0]
             after == Estimate(h, p)
         IN /\ hist' = h /\ prompt' = p
            /\ learned' = Learn(after)
            /\ again' = [grown |-> 0, left |-> MarkLeft(after)]
    /\ step' = "turn"

\* _observe_prompt, then the reply and the results of its calls join.
Turn ==
    /\ step = "turn"
    /\ \E over \in prompt.overhead..MaxOverhead, g \in Growths :
         /\ hist' = hist + g
         /\ prompt' = [overhead |-> over, since |-> g,
                       last |-> hist + Schema + over]
         /\ again' = [again EXCEPT
                        !.grown = AtMost(Hysteresis,
                                         @ + g + (over - prompt.overhead))]
         /\ hist' <= Window
    /\ step' = "check" /\ UNCHANGED learned

CompNext == Check \/ Compact \/ Turn
CompSpec == CompInit /\ [][CompNext]_compVars

-----------------------------------------------------------------------------

\* A run whose mark fitted at its start never fails for its fixed context
\* later: a learned floor always fits the window.
FloorFits == step = "failed" => Effective(0) > MarkRoom

\* A step that compacts.
Compacts ==
    step = "check" /\ step' = "turn" /\ Estimate(hist, prompt) >= Trigger(Effective(learned))

\* After a compaction that raised the mark there is no other before the prompt
\* has grown by the hysteresis; after one that fitted the base mark, none
\* before it has grown at all.
Promised == CASE again.left = "floor" -> Hysteresis
              [] again.left = "base" -> 1
              [] OTHER -> 0
NoThrash == [][Compacts => again.grown >= Promised]_compVars

\* The hysteresis keeps a compacted context below the trigger, so that the
\* next turn does not compact again (docs/CONTEXT_COMPACTION_LIMITS_PLAN.md);
\* a turn that adds more than the hysteresis, and a window without room for a
\* higher mark, excepted.
NextTurnKeepsPrompt ==
    [][Compacts /\ again.left # "none" => again.grown >= Hysteresis]_compVars

\* A prompt that is sent without a compaction leaves room for a full output
\* and a large result.
PromptLeavesRoom ==
    [][step = "check" /\ step' = "turn"
       /\ Estimate(hist, prompt) < Trigger(Effective(learned))
       => Estimate(hist, prompt) + MaxOutput + GrowthReserve <= Window]_compVars

\* Compaction comes to an end and leaves the next turn its room.
CompactionSettles == []FloorFits /\ NoThrash /\ PromptLeavesRoom
=============================================================================
