---------------------------- MODULE LoopProofs -----------------------------
(***************************************************************************)
(* Proofs about the agent runtime: when the loop compacts its history      *)
(* (Compaction), the budget, the history and the end of a run (AgentLoop), *)
(* and who may run a tool (Permissions).                                   *)
(***************************************************************************)
EXTENDS Compaction, Permissions, AgentLoop, FiniteSetTheorems, SequenceTheorems,
        WellFoundedInduction, TLAPS

-----------------------------------------------------------------------------
(***************************************************************************)
(* Compaction: the marks.                                                  *)
(***************************************************************************)

\* What the code's min and max return, on sizes.
LEMMA BoundsAreSizes ==
    /\ \A a, b \in Nat : /\ AtLeast(a, b) \in Nat /\ AtMost(a, b) \in Nat
                         /\ AtLeast(a, b) >= a /\ AtLeast(a, b) >= b
                         /\ AtLeast(a, b) = a \/ AtLeast(a, b) = b
                         /\ AtMost(a, b) <= a /\ AtMost(a, b) <= b
                         /\ AtMost(a, b) = a \/ AtMost(a, b) = b
BY DEF AtLeast, AtMost

\* The room of a mark (_mark_room): a size, within the capacity.
LEMMA RoomIsASize ==
    /\ Capacity \in Nat /\ MarkRoom \in Nat /\ MarkRoom <= Capacity
    /\ Capacity > 0 => Capacity + MaxOutput + GrowthReserve = Window
<1>1. Capacity \in Nat /\ (Capacity > 0 => Capacity + MaxOutput + GrowthReserve = Window)
  BY SizesAreNat DEF Capacity, GrowthReserve
<1>2. (Window * 9) \div 10 \in Nat
  BY SizesAreNat
<1> QED BY <1>1, <1>2, BoundsAreSizes DEF MarkRoom

\* The mark (_high_water, effective_high_water): a size that a floor raises,
\* and that never lies below the learned floor or the smallest mark.
LEMMA MarkIsASize ==
    ASSUME NEW floor \in Nat
    PROVE  /\ Effective(floor) \in Nat /\ Effective(0) \in Nat
           /\ MinHighWater <= Effective(0) /\ Effective(0) <= Effective(floor)
           /\ floor <= Effective(floor)
           /\ Effective(floor) = Effective(0) \/ Effective(floor) = floor
<1>1. HighWater \in Nat /\ MinHighWater <= HighWater
  <2>1. (Window * 3) \div 4 \in Nat /\ MinHighWater \in Nat
    BY SizesAreNat DEF MinHighWater
  <2>2. AtMost((Window * 3) \div 4, Capacity) \in Nat
    BY <2>1, RoomIsASize, BoundsAreSizes
  <2>3. AtMost(Threshold, AtMost((Window * 3) \div 4, Capacity)) \in Nat
    BY <2>2, SizesAreNat, BoundsAreSizes
  <2> QED BY <2>1, <2>3, BoundsAreSizes DEF HighWater
<1>2. Prefix + ExchangeReserve + Hysteresis \in Nat
  BY SizesAreNat DEF ExchangeReserve, Hysteresis
<1>3. MinHighWater \in Nat
  BY DEF MinHighWater
<1> HIDE DEF HighWater
<1> QED BY <1>1, <1>2, <1>3 DEF Effective, AtLeast

\* The trigger of a mark (_trigger_tokens): at most one request below it, and
\* never above it once the mark is at least the smallest.
LEMMA TriggerBelowMark ==
    ASSUME NEW a \in Nat, NEW b \in Nat, a <= b, MinHighWater <= a
    PROVE  /\ Trigger(a) \in Nat /\ Trigger(b) \in Nat
           /\ Trigger(a) <= Trigger(b) /\ Trigger(b) <= b
           /\ b <= Trigger(b) + RequestReserve
BY DEF Trigger, AtLeast, MinHighWater, RequestReserve

-----------------------------------------------------------------------------
(***************************************************************************)
(* Compaction: the invariant.                                              *)
(***************************************************************************)

PromptType == [overhead : Nat, last : Nat, since : Nat]
AgainType == [grown : Nat, left : {"floor", "base", "none"}]

CompTypeOK ==
    /\ hist \in Nat /\ prompt \in PromptType /\ learned \in Nat
    /\ step \in {"check", "turn", "failed"}
    /\ again \in AgainType

\* The provider's count of the last prompt and what joined since is never more
\* than the local estimate: the overhead that was measured is in both.
Local == hist + Schema + prompt.overhead + Margin
LastWithinLocal == prompt.last + prompt.since <= hist + Schema + prompt.overhead

\* A learned floor fits the window.
LearnedFits == learned <= MarkRoom

\* Until the prompt has grown by what the last compaction promised, the
\* estimate is that much below the trigger.
RoomIsKept ==
    again.grown < Promised
    => Local + Promised <= Trigger(Effective(learned)) + again.grown

CompInv == CompTypeOK /\ LastWithinLocal /\ LearnedFits /\ FloorFits /\ RoomIsKept

\* The estimate of the next prompt is the local one.
LEMMA EstimateIsLocal ==
    ASSUME CompTypeOK, LastWithinLocal
    PROVE  Estimate(hist, prompt) = Local /\ Local \in Nat
BY SizesAreNat DEF Estimate, Local, AtLeast, CompTypeOK, PromptType, LastWithinLocal, Margin

\* What a compaction learns: nothing, or the request reserve and the
\* hysteresis above the compacted prompt, within the window.
LEMMA LearnedFloor ==
    ASSUME NEW after \in Nat
    PROVE  /\ Learn(after) \in Nat /\ Learn(after) <= MarkRoom
           /\ Learn(after) > 0 => Learn(after) = after + RequestReserve + Hysteresis
BY RoomIsASize DEF Learn, RequestReserve, Hysteresis

\* A compaction leaves the estimate below the new trigger by what it promises.
LEMMA PromiseIsMade ==
    ASSUME NEW after \in Nat
    PROVE  /\ MarkLeft(after) = "floor" => after + Hysteresis <= Trigger(Effective(Learn(after)))
           /\ MarkLeft(after) = "base" => after + 1 <= Trigger(Effective(Learn(after)))
           /\ MarkLeft(after) \in {"floor", "base", "none"}
<1> DEFINE floor == Learn(after)
<1>1. /\ floor \in Nat /\ Effective(0) \in Nat /\ Effective(floor) \in Nat
      /\ MinHighWater <= Effective(0) /\ Effective(0) <= Effective(floor)
      /\ floor <= Effective(floor)
  BY LearnedFloor, MarkIsASize
<1>2. /\ Trigger(Effective(0)) \in Nat /\ Trigger(Effective(floor)) \in Nat
      /\ Trigger(Effective(0)) <= Trigger(Effective(floor))
      /\ Effective(floor) <= Trigger(Effective(floor)) + RequestReserve
  BY <1>1, TriggerBelowMark
<1>3. CASE floor > 0
  <2>1. floor = after + RequestReserve + Hysteresis /\ MarkLeft(after) = "floor"
    BY <1>3, LearnedFloor DEF MarkLeft
  <2>2. after + Hysteresis <= Trigger(Effective(floor))
    <3> HIDE DEF floor
    <3> QED BY <1>1, <1>2, <2>1 DEF RequestReserve, Hysteresis
  <2> QED BY <2>1, <2>2
<1>4. CASE ~(floor > 0)
  <2>1. MarkLeft(after) = (IF after < Trigger(Effective(0)) THEN "base" ELSE "none")
    BY <1>4 DEF MarkLeft
  <2>2. after < Trigger(Effective(0)) => after + 1 <= Trigger(Effective(floor))
    <3> HIDE DEF floor
    <3> QED BY <1>1, <1>2
  <2> QED BY <2>1, <2>2
<1> QED BY <1>3, <1>4

\* The invariant holds at first and is kept by every step.
LEMMA CompInitInv == CompInit => CompInv
<1> SUFFICES ASSUME CompInit PROVE CompInv
  OBVIOUS
<1>1. hist \in Nat
  BY SizesAreNat DEF CompInit
<1>2. CompTypeOK
  BY <1>1 DEF CompInit, CompTypeOK, PromptType, AgainType
<1>3. LastWithinLocal
  BY <1>1, SizesAreNat DEF CompInit, LastWithinLocal
<1>4. LearnedFits
  BY RoomIsASize DEF CompInit, LearnedFits
<1>5. FloorFits
  BY DEF CompInit, FloorFits
<1>6. RoomIsKept
  BY DEF CompInit, RoomIsKept, Promised
<1> QED BY <1>2, <1>3, <1>4, <1>5, <1>6 DEF CompInv

LEMMA CompNextInv ==
    ASSUME CompInv, [CompNext]_compVars
    PROVE  CompInv'
<1>a. /\ CompTypeOK /\ LastWithinLocal /\ LearnedFits /\ FloorFits /\ RoomIsKept
      /\ hist \in Nat /\ prompt \in PromptType /\ learned \in Nat /\ again \in AgainType
  BY DEF CompInv, CompTypeOK
<1>b. /\ prompt.overhead \in Nat /\ prompt.last \in Nat /\ prompt.since \in Nat
      /\ again.grown \in Nat
  BY <1>a DEF PromptType, AgainType
<1>1. CASE Check
  <2>1. /\ UNCHANGED <<hist, prompt, learned, again>> /\ step' \in {"turn", "failed"}
        /\ step' = "failed" => Effective(learned) > MarkRoom
    BY <1>1 DEF Check
  <2>2. step' = "failed" => Effective(0) > MarkRoom
    BY <1>a, <2>1, MarkIsASize, RoomIsASize DEF LearnedFits
  <2> QED BY <1>a, <2>1, <2>2
      DEF CompInv, CompTypeOK, LastWithinLocal, LearnedFits, FloorFits, RoomIsKept, Local, Promised
<1>2. CASE Compact
  <2>1. PICK h, p, after :
          /\ h \in Nat /\ p = [prompt EXCEPT !.last = 0, !.since = 0]
          /\ after = Estimate(h, p)
          /\ hist' = h /\ prompt' = p /\ learned' = Learn(after)
          /\ again' = [grown |-> 0, left |-> MarkLeft(after)]
    <3>1. \A kept \in Handoffs : AtMost(Prefix + kept, hist) \in Nat
      <4>1. \A kept \in Handoffs : Prefix + kept \in Nat
        BY SizesAreNat
      <4> QED BY <1>a, <4>1 DEF AtMost
    <3>2. (Window * 8) \div 10 \in Nat /\ (Window * 9) \div 10 \in Nat
      BY SizesAreNat
    <3>3. \A raw \in Nat :
             (IF raw > (Window * 9) \div 10
              THEN AtLeast(Prefix, AtMost(raw, (Window * 8) \div 10)) ELSE raw) \in Nat
      BY <3>2, SizesAreNat, BoundsAreSizes
    <3> QED BY <1>2, <3>1, <3>3 DEF Compact
  <2>2. p \in PromptType /\ p.last = 0 /\ p.since = 0 /\ p.overhead = prompt.overhead
    BY <1>a, <2>1 DEF PromptType
  <2>3. after = h + Schema + prompt.overhead + Margin /\ after \in Nat
    BY <1>b, <2>1, <2>2, SizesAreNat DEF Estimate, Margin
  <2>4. /\ step' = "turn"
        /\ Local' = after
    BY <1>2, <2>1, <2>2, <2>3 DEF Compact, Local
  <2>5. /\ learned' \in Nat /\ LearnedFits'
    BY <2>1, <2>3, LearnedFloor, RoomIsASize DEF LearnedFits, MarkRoom, Capacity
  <2>6. CompTypeOK'
    BY <2>1, <2>2, <2>3, <2>4, <2>5, PromiseIsMade DEF CompTypeOK, AgainType
  <2>7. LastWithinLocal' /\ FloorFits'
    BY <1>b, <2>1, <2>2, <2>4, SizesAreNat DEF LastWithinLocal, FloorFits
  <2>8. RoomIsKept'
    <3>1. /\ again'.grown = 0 /\ again'.left = MarkLeft(after)
          /\ Trigger(Effective(learned))' = Trigger(Effective(Learn(after)))
      BY <2>1 DEF Trigger, Effective, AtLeast, HighWater, AtMost, Capacity
    <3>2. Promised' = CASE MarkLeft(after) = "floor" -> Hysteresis
                        [] MarkLeft(after) = "base" -> 1
                        [] OTHER -> 0
      BY <3>1 DEF Promised
    <3>3. Promised' # 0 => after + Promised' <= Trigger(Effective(Learn(after)))
      BY <2>3, <3>2, PromiseIsMade
    <3>4. /\ after + Promised' \in Nat /\ Promised' \in Nat
      BY <2>3, <3>2 DEF Hysteresis
    <3>5. Trigger(Effective(Learn(after))) \in Nat
      BY <2>3, LearnedFloor, MarkIsASize, TriggerBelowMark
    <3> QED BY <2>4, <3>1, <3>3, <3>4, <3>5 DEF RoomIsKept
  <2> QED BY <2>5, <2>6, <2>7, <2>8 DEF CompInv
<1>3. CASE Turn
  <2>1. PICK over \in prompt.overhead..MaxOverhead, g \in Growths :
          /\ hist' = hist + g
          /\ prompt' = [overhead |-> over, since |-> g, last |-> hist + Schema + over]
          /\ again' = [again EXCEPT
                         !.grown = AtMost(Hysteresis, @ + g + (over - prompt.overhead))]
    BY <1>3 DEF Turn
  <2>2. /\ over \in Nat /\ g \in Nat /\ prompt.overhead <= over
        /\ step = "turn" /\ step' = "check" /\ learned' = learned
    BY <1>3, <1>b, <2>1, SizesAreNat DEF Turn
  <2>3. /\ again'.grown = AtMost(Hysteresis, again.grown + g + (over - prompt.overhead))
        /\ again'.left = again.left
    BY <1>a, <2>1 DEF AgainType
  <2>4. again.grown + g + (over - prompt.overhead) \in Nat /\ Hysteresis \in Nat
    BY <1>b, <2>2 DEF Hysteresis
  <2>5. again'.grown \in Nat
    BY <2>3, <2>4, BoundsAreSizes
  <2>6. CompTypeOK'
    BY <1>a, <2>1, <2>2, <2>5, SizesAreNat DEF CompTypeOK, PromptType, AgainType
  <2>7. LastWithinLocal' /\ LearnedFits' /\ FloorFits'
    BY <1>a, <1>b, <2>1, <2>2, SizesAreNat, RoomIsASize
       DEF LastWithinLocal, LearnedFits, FloorFits, MarkRoom, Capacity
  <2>8. RoomIsKept'
    <3> SUFFICES ASSUME again'.grown < Promised'
                 PROVE  (Local + Promised <= Trigger(Effective(learned)) + again.grown)'
      BY DEF RoomIsKept
    <3>1. Promised' = Promised /\ Promised \in Nat /\ Promised <= Hysteresis
      BY <2>3 DEF Promised, Hysteresis
    <3>2. again'.grown = again.grown + g + (over - prompt.overhead)
      BY <2>3, <2>4, <3>1 DEF AtMost
    <3>3. again.grown < Promised
      BY <1>b, <2>2, <3>1, <3>2
    <3>4. Local + Promised <= Trigger(Effective(learned)) + again.grown
      BY <1>a, <3>3 DEF RoomIsKept
    <3>5. /\ Local' = hist + g + Schema + over + Margin
          /\ Local = hist + Schema + prompt.overhead + Margin
      BY <2>1 DEF Local
    <3>6. Trigger(Effective(learned))' = Trigger(Effective(learned))
          /\ Trigger(Effective(learned)) \in Nat
      <4>1. Trigger(Effective(learned))' = Trigger(Effective(learned))
        BY ONLY <2>2 DEF Trigger, Effective, AtLeast, HighWater, AtMost, Capacity
      <4>2. learned \in Nat
        BY <1>a DEF CompTypeOK
      <4>3. Effective(learned) \in Nat /\ MinHighWater <= Effective(learned)
        BY ONLY <4>2, MarkIsASize DEF MinHighWater
      <4>4. Trigger(Effective(learned)) \in Nat
        BY ONLY <4>3, TriggerBelowMark
      <4> QED BY ONLY <4>1, <4>4
    <3>7. /\ hist \in Nat /\ g \in Nat /\ over \in Nat /\ prompt.overhead \in Nat
          /\ Schema \in Nat /\ Margin \in Nat /\ again.grown \in Nat
      BY <1>a, <1>b, <2>2, SizesAreNat DEF Margin
    <3>8. Local + g + (over - prompt.overhead) = Local' /\ Local \in Nat /\ Local' \in Nat
      BY ONLY <3>5, <3>7
    <3>9. /\ Local' + Promised <= Trigger(Effective(learned)) + again'.grown
      BY ONLY <3>1, <3>2, <3>4, <3>6, <3>7, <3>8
    <3> QED BY ONLY <3>1, <3>6, <3>9
  <2> QED BY <2>6, <2>7, <2>8 DEF CompInv
<1>4. CASE UNCHANGED compVars
  BY <1>4, <1>a DEF compVars, CompInv, CompTypeOK, LastWithinLocal, LearnedFits, FloorFits,
                    RoomIsKept, Local, Promised
<1> QED BY <1>1, <1>2, <1>3, <1>4 DEF CompNext

\* A step that compacts leaves room as promised: the estimate had reached the
\* trigger, so the prompt had grown by the promise of the compaction before.
LEMMA CompactsAfterGrowth ==
    ASSUME CompInv, Compacts
    PROVE  again.grown >= Promised
<1>1. again.grown \in Nat /\ Promised \in Nat
  BY DEF CompInv, CompTypeOK, AgainType, Promised, Hysteresis
<1>2. CASE again.grown < Promised
  <2>1. Local + Promised <= Trigger(Effective(learned)) + again.grown
    BY <1>2 DEF CompInv, RoomIsKept
  <2>2. Local >= Trigger(Effective(learned)) /\ Local \in Nat
    BY EstimateIsLocal DEF CompInv, Compacts
  <2>3. Trigger(Effective(learned)) \in Nat
    BY MarkIsASize, TriggerBelowMark DEF CompInv, CompTypeOK
  <2> QED BY <1>1, <1>2, <2>1, <2>2, <2>3
<1> QED BY <1>1, <1>2

\* A prompt sent without a compaction is below the mark, and the mark leaves a
\* full output and a large result their room in the window.
LEMMA PromptBelowMark ==
    ASSUME CompInv, CompNext, step = "check", step' = "turn",
           Estimate(hist, prompt) < Trigger(Effective(learned))
    PROVE  Estimate(hist, prompt) + MaxOutput + GrowthReserve <= Window
<1>1. learned \in Nat /\ Estimate(hist, prompt) \in Nat
  BY EstimateIsLocal DEF CompInv, CompTypeOK
<1>2. /\ Effective(learned) \in Nat /\ Effective(0) \in Nat
      /\ MinHighWater <= Effective(0) /\ Effective(0) <= Effective(learned)
  BY <1>1, MarkIsASize
<1>3. Trigger(Effective(learned)) <= Effective(learned) /\ Trigger(Effective(learned)) \in Nat
  BY <1>2, TriggerBelowMark
<1>4. Effective(learned) <= MarkRoom
  <2>1. CASE Check
    BY <1>2, <2>1, RoomIsASize DEF Check
  <2>2. CASE Compact
    BY <2>2 DEF Compact
  <2>3. CASE Turn
    BY <2>3 DEF Turn
  <2> QED BY <2>1, <2>2, <2>3 DEF CompNext
<1>5. Capacity > 0
  BY <1>2, <1>4, RoomIsASize DEF MinHighWater
<1> QED BY <1>1, <1>2, <1>3, <1>4, <1>5, RoomIsASize, SizesAreNat DEF GrowthReserve

\* Compaction comes to an end and leaves the next turn its room: a run never
\* fails for a floor it has learned, it does not compact again before the
\* prompt has grown as promised, and a prompt that is sent as it is leaves
\* room for a full output and a large result (AgentRuntime._maybe_compact).
THEOREM CompactionIsDone == CompSpec => CompactionSettles
<1>1. CompInv => FloorFits
  BY DEF CompInv
<1>2. CompInv /\ [CompNext]_compVars => [Compacts => again.grown >= Promised]_compVars
  BY CompactsAfterGrowth
<1>3. CompInv /\ [CompNext]_compVars
      => [step = "check" /\ step' = "turn"
          /\ Estimate(hist, prompt) < Trigger(Effective(learned))
          => Estimate(hist, prompt) + MaxOutput + GrowthReserve <= Window]_compVars
  BY PromptBelowMark
<1>4. CompInv /\ [CompNext]_compVars => CompInv'
  BY CompNextInv
<1> QED BY <1>1, <1>2, <1>3, <1>4, CompInitInv, PTL
        DEF CompSpec, CompactionSettles, NoThrash, PromptLeavesRoom

-----------------------------------------------------------------------------
(***************************************************************************)
(* AgentLoop: facts about its operators.                                   *)
(***************************************************************************)

\* Every non-empty set of numbers has a least one.
LEMMA LeastExists ==
    ASSUME NEW S, S \subseteq Nat, S # {}
    PROVE  Min(S) \in S /\ \A x \in S : Min(S) <= x
<1> DEFINE R == {p \in Nat \X Nat : p[1] < p[2]}
<1>1. IsWellFoundedOn(OpToRel(<, Nat), Nat)
  BY NatLessThanWellFounded
<1>2. OpToRel(<, Nat) = R
  BY DEF OpToRel
<1>3. IsWellFoundedOn(R, Nat)
  BY <1>1, <1>2
<1>4. PICK x \in S : \A y \in S : ~(<<y, x>> \in R)
  <2> HIDE DEF R
  <2> QED BY <1>3, WFMin
<1>5. ASSUME NEW y \in S PROVE x <= y
  <2>1. x \in Nat /\ y \in Nat
    OBVIOUS
  <2>2. y < x => <<y, x>> \in R
    BY <2>1
  <2> QED BY <1>4, <2>1, <2>2
<1> QED BY <1>5 DEF Min

\* A set of numbers up to n has a greatest one: the least distance to n.
LEMMA GreatestExists ==
    ASSUME NEW n \in Nat, NEW S, S \subseteq 0..n, S # {}
    PROVE  Max(S) \in S /\ \A x \in S : Max(S) >= x
<1> DEFINE T == {n - x : x \in S}
<1>1. T \subseteq Nat /\ T # {}
  <2>1. \A x \in S : n - x \in Nat
    OBVIOUS
  <2> QED BY <2>1
<1>2. Min(T) \in T /\ \A t \in T : Min(T) <= t
  <2> HIDE DEF T
  <2> QED BY <1>1, LeastExists
<1>3. PICK x \in S : Min(T) = n - x
  BY <1>2
<1>4. \A y \in S : n - x <= n - y
  BY <1>2, <1>3
<1>5. \A y \in S : x >= y
  BY <1>4
<1> QED BY <1>5 DEF Max

\* The first group of the calls that are left (tool_call_groups): it is not
\* empty, they start with it, and unless it is a single call it reads only.
LEMMA FirstGroupIsAPrefix ==
    ASSUME NEW C, NEW calls \in Seq(C), calls # <<>>
    PROVE  \E n \in 1..Len(calls) :
              /\ FirstGroup(calls) = SubSeq(calls, 1, n)
              /\ n > 1 => \A i \in 1..n : ParallelSafe(calls[i])
<1> DEFINE joins(i) == ParallelSafe(calls[i]) /\ ParallelSafe(calls[i - 1])
           E == {n \in DOMAIN calls : n = Len(calls) \/ ~joins(n + 1)}
<1>1. DOMAIN calls = 1..Len(calls) /\ Len(calls) \in Nat /\ Len(calls) > 0
  OBVIOUS
<1>2. E \subseteq Nat /\ E # {}
  <2>1. Len(calls) \in E
    BY <1>1
  <2> QED BY <1>1, <2>1
<1>3. Min(E) \in E /\ \A x \in E : Min(E) <= x
  <2> HIDE DEF E
  <2> QED BY <1>2, LeastExists
<1>4. Min(E) \in 1..Len(calls) /\ FirstGroup(calls) = SubSeq(calls, 1, Min(E))
  <2>1. FirstGroup(calls) = SubSeq(calls, 1, Min(E))
    BY DEF FirstGroup
  <2>2. Min(E) \in DOMAIN calls
    BY <1>3
  <2> QED BY <1>1, <2>1, <2>2
<1>5. ASSUME NEW i \in 1..Min(E), Min(E) > 1 PROVE ParallelSafe(calls[i])
  <2>1. \A j \in 1..(Min(E) - 1) : joins(j + 1)
    <3> SUFFICES ASSUME NEW j \in 1..(Min(E) - 1) PROVE joins(j + 1)
      OBVIOUS
    <3>1. j \in DOMAIN calls /\ j \in Nat /\ Min(E) \in Nat /\ ~(Min(E) <= j)
      BY <1>1, <1>4
    <3>2. j \notin E
      <4> HIDE DEF E
      <4> QED BY <1>3, <3>1
    <3> QED BY <3>1, <3>2
  <2>2. CASE i < Min(E)
    <3>1. i \in 1..(Min(E) - 1) /\ (i + 1) - 1 = i
      BY <1>4, <2>2
    <3>2. joins(i + 1)
      BY <2>1, <3>1
    <3> QED BY <3>1, <3>2
  <2>3. CASE i = Min(E)
    <3>1. i - 1 \in 1..(Min(E) - 1) /\ (i - 1) + 1 = i
      BY <1>4, <1>5, <2>3
    <3>2. joins(i)
      BY <2>1, <3>1
    <3> QED BY <3>2
  <2> QED BY <1>4, <2>2, <2>3
<1> HIDE DEF E
<1> QED BY <1>4, <1>5

-----------------------------------------------------------------------------
(***************************************************************************)
(* AgentLoop: messages and histories.                                      *)
(***************************************************************************)
CallId == Nat \X Nat
CallType == [tool : {"read", "write"}, id : CallId]
MessageType ==
    [role : {"user", "assistant", "tool"}, calls : Seq(CallType),
     id : CallId \cup {<<>>},
     text : {"note", "not_executed", "refused", "result", "shown", "none"}, at : Nat]
Messages == Seq(MessageType)

\* The history with a result for each call it owes.
Completed(ms, owed) ==
    ms \o [i \in DOMAIN owed |-> Tool(owed[i].id, "not_executed", 0)]

\* Only assistants ask for calls, and a message numbers its calls; results
\* name a call.
WellNumbered(ms) ==
    \A i \in DOMAIN ms :
        /\ ms[i].calls # <<>> => ms[i].role = "assistant"
        /\ \A k \in DOMAIN ms[i].calls : ms[i].calls[k].id[2] = k
        /\ ms[i].role = "tool" => ms[i].id \in CallId

\* The three kinds of messages.
LEMMA MessagesAre ==
    /\ User \in MessageType /\ User.role = "user" /\ User.calls = <<>>
    /\ \A calls \in Seq(CallType) :
          /\ Assistant(calls) \in MessageType
          /\ Assistant(calls).role = "assistant" /\ Assistant(calls).calls = calls
    /\ \A id \in CallId, text \in {"none", "not_executed", "refused", "result", "shown"}, at \in Nat :
          /\ Tool(id, text, at) \in MessageType
          /\ Tool(id, text, at).role = "tool" /\ Tool(id, text, at).calls = <<>>
          /\ Tool(id, text, at).id = id /\ Tool(id, text, at).text = text
          /\ Tool(id, text, at).at = at
<1>1. <<>> \in Seq(CallType)
  OBVIOUS
<1>2. /\ User \in MessageType /\ User.role = "user" /\ User.calls = <<>>
  BY <1>1 DEF User, MessageType
<1>3. ASSUME NEW calls \in Seq(CallType)
      PROVE  /\ Assistant(calls) \in MessageType
             /\ Assistant(calls).role = "assistant" /\ Assistant(calls).calls = calls
  BY DEF Assistant, User, MessageType
<1>4. ASSUME NEW id \in CallId,
             NEW text \in {"none", "not_executed", "refused", "result", "shown"}, NEW at \in Nat
      PROVE  /\ Tool(id, text, at) \in MessageType
             /\ Tool(id, text, at).role = "tool" /\ Tool(id, text, at).calls = <<>>
             /\ Tool(id, text, at).id = id /\ Tool(id, text, at).text = text
             /\ Tool(id, text, at).at = at
  BY <1>1 DEF Tool, User, MessageType
<1> QED BY <1>2, <1>3, <1>4

\* The result of a call that is not made.
LEMMA NotExecutedIs ==
    ASSUME NEW id \in CallId
    PROVE  /\ Tool(id, "not_executed", 0) \in MessageType
           /\ Tool(id, "not_executed", 0).role = "tool"
           /\ Tool(id, "not_executed", 0).calls = <<>>
           /\ Tool(id, "not_executed", 0).id = id
           /\ Tool(id, "not_executed", 0).text = "not_executed"
<1>1. <<>> \in Seq(CallType)
  OBVIOUS
<1> QED BY <1>1 DEF Tool, User, MessageType

\* The completed history: the history, then one result for each owed call.
LEMMA CompletedIs ==
    ASSUME NEW ms \in Messages, NEW owed \in Seq(CallType)
    PROVE  /\ Completed(ms, owed) \in Messages
           /\ Len(Completed(ms, owed)) = Len(ms) + Len(owed)
           /\ \A i \in 1..Len(ms) : Completed(ms, owed)[i] = ms[i]
           /\ \A i \in 1..Len(owed) :
                 Completed(ms, owed)[Len(ms) + i] = Tool(owed[i].id, "not_executed", 0)
<1> DEFINE res == [i \in DOMAIN owed |-> Tool(owed[i].id, "not_executed", 0)]
<1>1. DOMAIN owed = 1..Len(owed) /\ Len(owed) \in Nat
  OBVIOUS
<1>2. \A i \in 1..Len(owed) : owed[i].id \in CallId
  <2>1. \A i \in 1..Len(owed) : owed[i] \in CallType
    BY <1>1, ElementOfSeq
  <2>2. \A c \in CallType : c.id \in CallId
    BY DEF CallType
  <2> QED BY <2>1, <2>2
<1>3. \A i \in 1..Len(owed) : Tool(owed[i].id, "not_executed", 0) \in MessageType
  BY <1>2, MessagesAre
<1>4. res \in [1..Len(owed) -> MessageType]
  BY <1>1, <1>3
<1>5. res \in Seq(MessageType) /\ Len(res) = Len(owed)
  BY <1>1, <1>4, IsASeq
<1>6. \A i \in 1..Len(owed) : res[i] = Tool(owed[i].id, "not_executed", 0)
  BY <1>1
<1> HIDE DEF res
<1>7. Completed(ms, owed) = ms \o res
  BY DEF Completed, res
<1>8. ms \in Seq(MessageType) /\ Len(ms) \in Nat
  BY DEF Messages
<1>9. /\ ms \o res \in Seq(MessageType) /\ Len(ms \o res) = Len(ms) + Len(res)
      /\ \A i \in 1..(Len(ms) + Len(res)) :
            (ms \o res)[i] = IF i <= Len(ms) THEN ms[i] ELSE res[i - Len(ms)]
  BY <1>5, <1>8, ConcatProperties
<1>10. \A i \in 1..Len(owed) : Len(ms) + i \in 1..(Len(ms) + Len(res)) /\ ~(Len(ms) + i <= Len(ms))
                                 /\ (Len(ms) + i) - Len(ms) = i
  BY <1>1, <1>5, <1>8
<1>11. \A i \in 1..Len(ms) : i \in 1..(Len(ms) + Len(res)) /\ i <= Len(ms)
  BY <1>1, <1>5, <1>8
<1> QED BY <1>5, <1>6, <1>7, <1>9, <1>10, <1>11 DEF Messages

\* A complete history owes nothing.
LEMMA CompletedOwesNothing ==
    ASSUME NEW ms \in Messages
    PROVE  Completed(ms, <<>>) = ms
<1>1. Completed(ms, <<>>) \in Messages /\ Len(Completed(ms, <<>>)) = Len(ms)
      /\ \A i \in 1..Len(ms) : Completed(ms, <<>>)[i] = ms[i]
  <2>1. ASSUME NEW owed \in Seq(CallType), Len(owed) = 0
        PROVE  /\ Completed(ms, owed) \in Messages /\ Len(Completed(ms, owed)) = Len(ms)
               /\ \A i \in 1..Len(ms) : Completed(ms, owed)[i] = ms[i]
    <3>1. Len(ms) \in Nat
      BY DEF Messages
    <3>2. Completed(ms, owed) \in Messages
      BY CompletedIs
    <3>3. Len(Completed(ms, owed)) = Len(ms) + Len(owed)
      BY CompletedIs
    <3>4. \A i \in 1..Len(ms) : Completed(ms, owed)[i] = ms[i]
      BY CompletedIs
    <3> QED BY <2>1, <3>1, <3>2, <3>3, <3>4
  <2>2. <<>> \in Seq(CallType) /\ Len(<<>>) = 0
    OBVIOUS
  <2> QED BY <2>1, <2>2
<1>2. Completed(ms, <<>>) \in Seq(MessageType) /\ ms \in Seq(MessageType)
  BY <1>1 DEF Messages
<1> QED BY <1>1, <1>2, SeqEqual

\* Whether a history is valid depends on roles, ids and calls only.
LEMMA ValidBySameShape ==
    ASSUME NEW one \in Messages, NEW two \in Messages, ValidHistory(one), Len(one) = Len(two),
           \A i \in 1..Len(one) : /\ one[i].role = two[i].role /\ one[i].id = two[i].id
                                  /\ one[i].calls = two[i].calls
    PROVE  ValidHistory(two)
<1>1. DOMAIN one = 1..Len(one) /\ DOMAIN two = 1..Len(one) /\ Len(one) \in Nat
  BY DEF Messages
<1>2. ASSUME NEW a \in DOMAIN two, two[a].calls # <<>>, NEW k \in DOMAIN two[a].calls
      PROVE  /\ a + k <= Len(two)
             /\ two[a + k].role = "tool" /\ two[a + k].id = two[a].calls[k].id
  <2>1. /\ one[a].calls = two[a].calls /\ one[a].calls # <<>>
        /\ a + k <= Len(one) /\ one[a + k].role = "tool" /\ one[a + k].id = one[a].calls[k].id
    BY <1>1, <1>2 DEF ValidHistory
  <2>2. k \in Nat /\ a \in Nat /\ k >= 1
    <3>1. two[a] \in MessageType
      BY <1>1, ElementOfSeq DEF Messages
    <3>2. two[a].calls \in Seq(CallType)
      BY <3>1 DEF MessageType
    <3> QED BY <1>1, <1>2, <3>2
  <2>3. a + k \in 1..Len(one)
    BY <1>1, <2>1, <2>2
  <2> QED BY <2>1, <2>3
<1>3. ASSUME NEW t \in DOMAIN two, two[t].role = "tool"
      PROVE  \E a \in 1..(t - 1) : t - a \in DOMAIN two[a].calls
  <2>1. PICK a \in 1..(t - 1) : t - a \in DOMAIN one[a].calls
    BY <1>1, <1>3 DEF ValidHistory
  <2>2. a \in 1..Len(one)
    BY <1>1, <2>1
  <2> QED BY <2>1, <2>2
<1> QED BY <1>2, <1>3 DEF ValidHistory

\* What a valid history says of one message.
LEMMA ElementIs ==
    ASSUME NEW ms \in Messages, NEW i \in DOMAIN ms
    PROVE  /\ i \in 1..Len(ms) /\ i \in Nat /\ Len(ms) \in Nat
           /\ ms[i] \in MessageType /\ ms[i].calls \in Seq(CallType)
           /\ DOMAIN ms[i].calls = 1..Len(ms[i].calls) /\ Len(ms[i].calls) \in Nat
<1>1. /\ i \in 1..Len(ms) /\ i \in Nat /\ Len(ms) \in Nat
  BY DEF Messages
<1>2. ms[i] \in MessageType
  BY <1>1, ElementOfSeq DEF Messages
<1>3. ms[i].calls \in Seq(CallType)
  BY <1>2 DEF MessageType
<1>4. DOMAIN ms[i].calls = 1..Len(ms[i].calls) /\ Len(ms[i].calls) \in Nat
  BY <1>3
<1> QED BY <1>1, <1>2, <1>3, <1>4

\* A message that neither calls nor answers may always be appended.
LEMMA ValidAppendPlain ==
    ASSUME NEW ms \in Messages, ValidHistory(ms),
           NEW m \in MessageType, m.role # "tool", m.calls = <<>>
    PROVE  ValidHistory(Append(ms, m)) /\ Append(ms, m) \in Messages
<1> DEFINE new == Append(ms, m)
<1>1. /\ new \in Messages /\ Len(new) = Len(ms) + 1 /\ DOMAIN new = 1..(Len(ms) + 1)
      /\ \A i \in 1..Len(ms) : new[i] = ms[i]
      /\ new[Len(ms) + 1] = m /\ Len(ms) \in Nat /\ DOMAIN ms = 1..Len(ms)
  BY AppendProperties DEF Messages
<1> HIDE DEF new
<1>2. ASSUME NEW a \in DOMAIN new, new[a].calls # <<>>, NEW k \in DOMAIN new[a].calls
      PROVE  /\ a + k <= Len(new)
             /\ new[a + k].role = "tool" /\ new[a + k].id = new[a].calls[k].id
  <2>1. a \in 1..Len(ms) /\ new[a] = ms[a]
    BY <1>1, <1>2
  <2>2. /\ a + k <= Len(ms) /\ ms[a + k].role = "tool" /\ ms[a + k].id = ms[a].calls[k].id
    BY <1>1, <1>2, <2>1 DEF ValidHistory
  <2>3. k \in Nat /\ k >= 1 /\ a \in Nat
    BY <1>1, <1>2, <2>1, ElementIs
  <2>4. a + k \in 1..Len(ms)
    BY <1>1, <2>2, <2>3
  <2> QED BY <1>1, <2>1, <2>2, <2>4
<1>3. ASSUME NEW t \in DOMAIN new, new[t].role = "tool"
      PROVE  \E a \in 1..(t - 1) : t - a \in DOMAIN new[a].calls
  <2>1. t \in 1..Len(ms) /\ new[t] = ms[t]
    BY <1>1, <1>3
  <2>2. PICK a \in 1..(t - 1) : t - a \in DOMAIN ms[a].calls
    BY <1>1, <1>3, <2>1 DEF ValidHistory
  <2>3. a \in 1..Len(ms)
    BY <1>1, <2>1
  <2> QED BY <1>1, <2>2, <2>3
<1>4. ValidHistory(new)
  BY <1>2, <1>3 DEF ValidHistory
<1> QED BY <1>1, <1>4 DEF new

\* A turn's calls join a valid history, and with them the results they will
\* have.
LEMMA ValidCallsJoin ==
    ASSUME NEW ms \in Messages, ValidHistory(ms),
           NEW calls \in Seq(CallType), calls # <<>>
    PROVE  ValidHistory(Completed(Append(ms, Assistant(calls)), calls))
<1> DEFINE turn == Append(ms, Assistant(calls))
           new == Completed(turn, calls)
           n == Len(ms)
           w == Len(calls)
<1>1. /\ Assistant(calls) \in MessageType /\ Assistant(calls).role = "assistant"
      /\ Assistant(calls).calls = calls
  BY MessagesAre
<1>2. /\ turn \in Messages /\ Len(turn) = n + 1 /\ n \in Nat /\ DOMAIN ms = 1..n
      /\ \A i \in 1..n : turn[i] = ms[i]
      /\ turn[n + 1] = Assistant(calls)
  BY <1>1, AppendProperties DEF Messages
<1>3. w \in Nat /\ DOMAIN calls = 1..w /\ \A i \in 1..w : calls[i].id \in CallId
  <2>1. w \in Nat /\ DOMAIN calls = 1..w
    OBVIOUS
  <2>2. \A i \in 1..w : calls[i] \in CallType
    BY ElementOfSeq
  <2> QED BY <2>1, <2>2 DEF CallType
<1> HIDE DEF turn
<1>4. /\ new \in Messages /\ Len(new) = n + 1 + w
      /\ \A i \in 1..(n + 1) : new[i] = turn[i]
      /\ \A i \in 1..w : new[n + 1 + i] = Tool(calls[i].id, "not_executed", 0)
  <2>1. new \in Messages
    BY <1>2, CompletedIs
  <2>2. Len(new) = Len(turn) + Len(calls)
    BY <1>2, CompletedIs
  <2>3. \A i \in 1..Len(turn) : new[i] = turn[i]
    BY <1>2, CompletedIs
  <2>4. \A i \in 1..Len(calls) : new[Len(turn) + i] = Tool(calls[i].id, "not_executed", 0)
    BY <1>2, CompletedIs
  <2> HIDE DEF new
  <2> QED BY <1>2, <1>3, <2>1, <2>2, <2>3, <2>4
<1> HIDE DEF new
<1>5. DOMAIN new = 1..(n + 1 + w)
  BY <1>4 DEF Messages
<1>6. \A i \in 1..w : /\ new[n + 1 + i].role = "tool" /\ new[n + 1 + i].calls = <<>>
                      /\ new[n + 1 + i].id = calls[i].id
  <2> SUFFICES ASSUME NEW i \in 1..w
               PROVE  /\ new[n + 1 + i].role = "tool" /\ new[n + 1 + i].calls = <<>>
                      /\ new[n + 1 + i].id = calls[i].id
    OBVIOUS
  <2>1. new[n + 1 + i] = Tool(calls[i].id, "not_executed", 0) /\ calls[i].id \in CallId
    BY <1>3, <1>4
  <2>2. ASSUME NEW id \in CallId
        PROVE  /\ Tool(id, "not_executed", 0).role = "tool"
               /\ Tool(id, "not_executed", 0).calls = <<>>
               /\ Tool(id, "not_executed", 0).id = id
    BY NotExecutedIs
  <2> QED BY <2>1, <2>2
<1>7. /\ \A i \in 1..n : new[i] = ms[i]
      /\ new[n + 1] = Assistant(calls)
  BY <1>2, <1>4
<1> HIDE DEF n, w
<1>8. ASSUME NEW i \in DOMAIN new, i > n + 1
      PROVE  new[i].role = "tool" /\ new[i].calls = <<>> /\ i - (n + 1) \in 1..w
  <2>1. i - (n + 1) \in 1..w /\ n + 1 + (i - (n + 1)) = i
    BY <1>2, <1>3, <1>5, <1>8
  <2> QED BY <1>6, <2>1
<1>9. ASSUME NEW a \in DOMAIN new, new[a].calls # <<>>, NEW k \in DOMAIN new[a].calls
      PROVE  /\ a + k <= Len(new)
             /\ new[a + k].role = "tool" /\ new[a + k].id = new[a].calls[k].id
  <2>1. a \in 1..(n + 1)
    BY <1>2, <1>3, <1>5, <1>8, <1>9
  <2>2. CASE a = n + 1
    <3>1. new[a].calls = calls /\ k \in 1..w /\ k \in Nat
      BY <1>1, <1>3, <1>7, <1>9, <2>2
    <3>2. a + k <= n + 1 + w
      BY <1>2, <1>3, <2>2, <3>1
    <3>3. new[a + k].role = "tool" /\ new[a + k].id = calls[k].id
      BY <1>6, <2>2, <3>1
    <3> QED BY <1>4, <3>1, <3>2, <3>3
  <2>3. CASE a # n + 1
    <3>1. a \in 1..n /\ a \in DOMAIN ms /\ new[a] = ms[a]
      BY <1>2, <1>7, <2>1, <2>3
    <3>2. /\ a + k <= Len(ms) /\ ms[a + k].role = "tool" /\ ms[a + k].id = ms[a].calls[k].id
      BY <1>9, <3>1 DEF ValidHistory
    <3>3. k \in Nat /\ k >= 1 /\ a \in Nat
      BY <1>9, <3>1, ElementIs
    <3>4. a + k \in 1..n
      BY <1>2, <3>2, <3>3 DEF n
    <3> QED BY <1>2, <1>3, <1>4, <1>7, <3>1, <3>2, <3>3, <3>4
  <2> QED BY <2>2, <2>3
<1>10. ASSUME NEW t \in DOMAIN new, new[t].role = "tool"
       PROVE  \E a \in 1..(t - 1) : t - a \in DOMAIN new[a].calls
  <2>1. CASE t > n + 1
    <3>1. /\ t - (n + 1) \in 1..w /\ n + 1 \in 1..(t - 1)
          /\ DOMAIN new[n + 1].calls = 1..w
      BY <1>1, <1>2, <1>3, <1>5, <1>7, <1>8, <2>1
    <3> QED BY <3>1
  <2>2. CASE ~(t > n + 1)
    <3>1. t \in 1..n /\ new[t] = ms[t] /\ t \in DOMAIN ms
      BY <1>1, <1>2, <1>5, <1>7, <1>10, <2>2
    <3>2. PICK a \in 1..(t - 1) : t - a \in DOMAIN ms[a].calls
      BY <1>10, <3>1 DEF ValidHistory
    <3>3. a \in 1..n
      BY <1>2, <3>1
    <3> QED BY <1>7, <3>2, <3>3
  <2> QED BY <2>1, <2>2
<1>11. ValidHistory(new)
  BY <1>9, <1>10 DEF ValidHistory
<1> QED BY <1>11 DEF new, turn

\* A history cut at a message that is no result, behind a handoff: the results
\* that are kept keep the message that asked for them (recent_exchanges,
\* compact_agent_context).
LEMMA ValidSuffix ==
    ASSUME NEW ms \in Messages, ValidHistory(ms),
           NEW cut \in DOMAIN ms, ms[cut].role # "tool"
    PROVE  /\ <<User>> \o SubSeq(ms, cut, Len(ms)) \in Messages
           /\ ValidHistory(<<User>> \o SubSeq(ms, cut, Len(ms)))
<1> DEFINE kept == SubSeq(ms, cut, Len(ms))
           new == <<User>> \o kept
           n == Len(ms)
<1>1. /\ n \in Nat /\ DOMAIN ms = 1..n /\ cut \in 1..n /\ \A i \in 1..n : ms[i] \in MessageType
  BY ElementOfSeq DEF Messages
<1>2. /\ kept \in Seq(MessageType) /\ Len(kept) = n - cut + 1
      /\ \A i \in 1..(n - cut + 1) : kept[i] = ms[cut + i - 1]
  <2>1. cut \in Int /\ n \in Int /\ (\A i \in cut..n : ms[i] \in MessageType) /\ cut <= n
    BY <1>1
  <2> QED BY <2>1, SubSeqProperties
<1>3. /\ User \in MessageType /\ User.role = "user" /\ User.calls = <<>>
  BY MessagesAre
<1> HIDE DEF kept
<1>4. <<User>> \in Seq(MessageType) /\ Len(<<User>>) = 1 /\ <<User>>[1] = User
  BY <1>3
<1>5. /\ new \in Seq(MessageType) /\ Len(new) = 1 + Len(kept)
      /\ \A i \in 1..(1 + Len(kept)) : new[i] = IF i <= 1 THEN <<User>>[i] ELSE kept[i - 1]
  BY <1>2, <1>4, ConcatProperties
<1> HIDE DEF new, n
<1>6. /\ Len(new) = n - cut + 2 /\ DOMAIN new = 1..(n - cut + 2) /\ new[1] = User
      /\ new \in Messages
  BY <1>1, <1>2, <1>4, <1>5 DEF Messages
<1>7. ASSUME NEW i \in 2..(n - cut + 2)
      PROVE  new[i] = ms[cut + i - 2] /\ cut + i - 2 \in 1..n /\ cut + i - 2 \in DOMAIN ms
  <2>1. i - 1 \in 1..(n - cut + 1) /\ cut + (i - 1) - 1 = cut + i - 2 /\ cut + i - 2 \in 1..n
    BY <1>1
  <2>2. i \in 1..(1 + Len(kept)) /\ ~(i <= 1)
    BY <1>1, <1>2
  <2>3. new[i] = kept[i - 1]
    BY <1>5, <2>2
  <2>4. kept[i - 1] = ms[cut + (i - 1) - 1]
    BY <1>2, <2>1
  <2> QED BY <1>1, <2>1, <2>3, <2>4
<1>8. ASSUME NEW a \in DOMAIN new, new[a].calls # <<>>, NEW k \in DOMAIN new[a].calls
      PROVE  /\ a + k <= Len(new)
             /\ new[a + k].role = "tool" /\ new[a + k].id = new[a].calls[k].id
  <2>1. a \in 2..(n - cut + 2)
    BY <1>1, <1>3, <1>6, <1>8
  <2> DEFINE b == cut + a - 2
  <2>2. new[a] = ms[b] /\ b \in 1..n /\ b \in DOMAIN ms
    BY <1>7, <2>1
  <2>3. /\ b + k <= n /\ ms[b + k].role = "tool" /\ ms[b + k].id = ms[b].calls[k].id
    BY <1>8, <2>2 DEF ValidHistory, n
  <2>4. k \in Nat /\ k >= 1
    BY <1>8, <2>2, ElementIs
  <2>5. a + k \in 2..(n - cut + 2) /\ cut + (a + k) - 2 = b + k
    BY <1>1, <2>1, <2>3, <2>4
  <2>6. new[a + k] = ms[cut + (a + k) - 2]
    BY <1>7, <2>5
  <2> QED BY <1>6, <2>2, <2>3, <2>5, <2>6
<1>9. ASSUME NEW t \in DOMAIN new, new[t].role = "tool"
      PROVE  \E a \in 1..(t - 1) : t - a \in DOMAIN new[a].calls
  <2>1. t \in 2..(n - cut + 2)
    BY <1>1, <1>3, <1>6, <1>9
  <2> DEFINE u == cut + t - 2
  <2>2. new[t] = ms[u] /\ u \in 1..n /\ u \in DOMAIN ms
    BY <1>7, <2>1
  <2>3. PICK b \in 1..(u - 1) : u - b \in DOMAIN ms[b].calls
    BY <1>9, <2>2 DEF ValidHistory
  <2>4. b \in DOMAIN ms /\ b \in Nat
    BY <1>1, <2>2, <2>3
  <2>5. DOMAIN ms[b].calls = 1..Len(ms[b].calls) /\ Len(ms[b].calls) \in Nat
    BY <2>4, ElementIs
  <2>6. cut <= b
    <3> SUFFICES ASSUME b < cut PROVE FALSE
      BY <1>1, <2>4
    <3>0. /\ t \in Nat /\ t >= 2 /\ cut \in Nat /\ b \in Nat /\ u = cut + t - 2 /\ b < cut
          /\ u - b \in 1..Len(ms[b].calls) /\ Len(ms[b].calls) \in Nat
      BY <1>1, <2>1, <2>3, <2>4, <2>5
    <3>a. cut - b \in 1..Len(ms[b].calls) /\ b + (cut - b) = cut
      <4> DEFINE len == Len(ms[b].calls)
      <4>1. len \in Nat /\ u - b \in Int /\ u - b <= len
        BY ONLY <3>0
      <4> HIDE DEF u, len
      <4>2. cut - b <= u - b /\ cut - b >= 1 /\ cut - b \in Int
        BY ONLY <3>0
      <4>3. cut - b <= len
        BY ONLY <4>1, <4>2
      <4>4. b + (cut - b) = cut
        BY ONLY <3>0
      <4>5. cut - b \in 1..len
        BY ONLY <4>1, <4>2, <4>3
      <4> QED BY ONLY <4>4, <4>5 DEF len
    <3>1. cut - b \in DOMAIN ms[b].calls /\ b + (cut - b) = cut
      BY ONLY <2>5, <3>a
    <3>2. ms[b].calls # <<>>
      BY <3>1
    <3>3. ms[b + (cut - b)].role = "tool"
      BY <2>4, <3>1, <3>2 DEF ValidHistory
    <3> QED BY <3>1, <3>3
  <2> DEFINE a == b - cut + 2
  <2>7. a \in 2..(n - cut + 2) /\ a \in 1..(t - 1) /\ t - a = u - b /\ cut + a - 2 = b
    <3>1. /\ n \in Nat /\ cut \in Nat /\ t \in Nat /\ b \in Nat /\ u \in Nat
          /\ u = cut + t - 2 /\ u <= n /\ b < u /\ cut <= b /\ a = b - cut + 2
      BY <1>1, <2>1, <2>2, <2>3, <2>4, <2>6
    <3> QED BY ONLY <3>1
  <2>8. new[a] = ms[b]
    BY <1>7, <2>7
  <2> QED BY <2>3, <2>7, <2>8
<1>10. ValidHistory(new)
  BY <1>8, <1>9 DEF ValidHistory
<1> QED BY <1>6, <1>10 DEF new, kept, n

\* The newest assistant message: 0 when there is none, else a position that
\* none of the later messages is one.
LEMMA NewestIs ==
    ASSUME NEW ms \in Messages
    PROVE  /\ Newest(ms) \in 0..Len(ms)
           /\ Newest(ms) # 0 => ms[Newest(ms)].role = "assistant"
           /\ \A i \in DOMAIN ms : ms[i].role = "assistant" => i <= Newest(ms)
<1> DEFINE S == {0} \cup {i \in DOMAIN ms : ms[i].role = "assistant"}
<1>1. Len(ms) \in Nat /\ DOMAIN ms = 1..Len(ms)
  BY DEF Messages
<1>2. S \subseteq 0..Len(ms) /\ S # {}
  BY <1>1
<1>3. Max(S) \in S /\ \A x \in S : Max(S) >= x
  <2> HIDE DEF S
  <2> QED BY <1>1, <1>2, GreatestExists
<1>4. Newest(ms) = Max(S)
  BY DEF Newest
<1>5. \A i \in DOMAIN ms : ms[i].role = "assistant" => i \in S
  OBVIOUS
<1>6. Newest(ms) \in 0..Len(ms)
  BY <1>2, <1>3, <1>4
<1>7. Newest(ms) # 0 => ms[Newest(ms)].role = "assistant"
  BY <1>3, <1>4
<1>8. ASSUME NEW i \in DOMAIN ms, ms[i].role = "assistant" PROVE i <= Newest(ms)
  <2>1. Max(S) >= i
    <3> HIDE DEF S
    <3> QED BY <1>3, <1>5, <1>8
  <2>2. Newest(ms) >= i /\ i \in Nat /\ Newest(ms) \in Nat
    BY <1>1, <1>4, <1>6, <2>1
  <2> QED BY <2>2
<1> QED BY <1>6, <1>7, <1>8

\* The j-th number of a set.
NthOf(open, j) == CHOOSE k \in open : Cardinality({x \in open : x <= k}) = j

\* The calls after the first m have no result: as many as are left, and the
\* j-th of them is the call m + j.
LEMMA NthOfRest ==
    ASSUME NEW m \in Nat, NEW w \in Nat, NEW open, open = (m + 1)..(m + w)
    PROVE  /\ Cardinality(open) = w
           /\ \A j \in 1..w : NthOf(open, j) = m + j
<1>1. \A k \in open : {x \in open : x <= k} = (m + 1)..k /\ k \in Nat /\ m + 1 <= k
  OBVIOUS
<1>2. \A k \in open : Cardinality((m + 1)..k) = k - m
  <2> SUFFICES ASSUME NEW k \in open PROVE Cardinality((m + 1)..k) = k - m
    OBVIOUS
  <2>1. Cardinality((m + 1)..k) = IF m + 1 > k THEN 0 ELSE k - (m + 1) + 1
    <3>1. m + 1 \in Int /\ k \in Int
      BY <1>1
    <3> QED BY <3>1, FS_Interval
  <2> QED BY <1>1, <2>1
<1>3. \A k \in open : Cardinality({x \in open : x <= k}) = k - m
  BY <1>1, <1>2
<1>4. ASSUME NEW j \in 1..w
      PROVE  NthOf(open, j) = m + j
  <2> DEFINE P(k) == Cardinality({x \in open : x <= k}) = j
  <2>1. m + j \in open /\ P(m + j)
    BY <1>3
  <2>2. \A k \in open : P(k) => k = m + j
    BY <1>1, <1>3
  <2> HIDE DEF P
  <2>3. (CHOOSE k \in open : P(k)) = m + j
    BY <2>1, <2>2
  <2> QED BY <2>3 DEF P, NthOf
<1>5. Cardinality(open) = w
  <2>1. m + 1 \in Int /\ m + w \in Int
    OBVIOUS
  <2>2. Cardinality((m + 1)..(m + w)) = IF m + 1 > m + w THEN 0 ELSE (m + w) - (m + 1) + 1
    BY <2>1, FS_Interval
  <2> QED BY <2>2
<1> QED BY <1>4, <1>5

\* What is owed is what is filled in (_fill_missing_results): the results the
\* newest assistant message lacks are those of the calls not answered yet, in
\* call order.
LEMMA FillMissingCompletes ==
    ASSUME NEW ms \in Messages, NEW owed \in Seq(CallType), WellNumbered(ms),
           ValidHistory(Completed(ms, owed))
    PROVE  FillMissing(ms) = Completed(ms, owed)
<1> DEFINE full == Completed(ms, owed)
           n == Len(ms)
           w == Len(owed)
           a == Newest(ms)
           calls == ms[a].calls
           open == Unanswered(ms)
           nth(j) == NthOf(open, j)
<1>1. /\ n \in Nat /\ DOMAIN ms = 1..n /\ w \in Nat /\ DOMAIN owed = 1..w
  BY DEF Messages
<1>2. full \in Messages
  BY CompletedIs
<1>3. Len(full) = n + w
  BY CompletedIs
<1>4. \A i \in 1..n : full[i] = ms[i]
  BY CompletedIs
<1>5. \A i \in 1..w : full[n + i] = Tool(owed[i].id, "not_executed", 0)
  BY CompletedIs
<1>6. \A i \in 1..w : owed[i].id \in CallId
  <2>1. \A i \in 1..w : owed[i] \in CallType
    BY ElementOfSeq
  <2> QED BY <2>1 DEF CallType
<1>7. \A i \in 1..w : /\ full[n + i].role = "tool" /\ full[n + i].calls = <<>>
                      /\ full[n + i].id = owed[i].id
  BY <1>5, <1>6, NotExecutedIs
<1>8. a \in 0..n /\ (a # 0 => ms[a].role = "assistant")
      /\ \A i \in DOMAIN ms : ms[i].role = "assistant" => i <= a
  BY NewestIs
<1>9. FillMissing(ms) = ms \o [j \in 1..Cardinality(open) |->
                                 Tool(ms[a].calls[nth(j)].id, "not_executed", 0)]
  BY DEF FillMissing, NthOf
<1>10. full = ms \o [j \in 1..w |-> Tool(owed[j].id, "not_executed", 0)]
  BY <1>1 DEF Completed
<1>v. ValidHistory(full)
  OBVIOUS
<1> HIDE DEF full, n, w
<1>11. DOMAIN full = 1..(n + w)
  BY <1>2, <1>3 DEF Messages
<1>12. \* who asks for the result at t
       ASSUME NEW t \in 1..(n + w), full[t].role = "tool"
       PROVE  \E b \in 1..a : /\ b < t /\ b \in DOMAIN ms /\ ms[b].calls # <<>>
                              /\ t - b \in 1..Len(ms[b].calls)
  <2>1. PICK b \in 1..(t - 1) : t - b \in DOMAIN full[b].calls
    BY <1>v, <1>11, <1>12 DEF ValidHistory
  <2>2. b \in 1..n
    <3> SUFFICES ASSUME b > n PROVE FALSE
      BY <1>1, <2>1
    <3>1. b - n \in 1..w /\ n + (b - n) = b
      BY <1>1, <2>1
    <3>2. full[b].calls = <<>>
      BY <1>7, <3>1
    <3> QED BY <2>1, <3>2
  <2>3. full[b] = ms[b] /\ b \in DOMAIN ms /\ ms[b].calls # <<>>
    BY <1>1, <1>4, <2>1, <2>2
  <2>4. ms[b].role = "assistant"
    BY <2>3 DEF WellNumbered
  <2>5. b <= a
    BY <1>8, <2>3, <2>4
  <2>6. DOMAIN ms[b].calls = 1..Len(ms[b].calls)
    BY <2>3, ElementIs
  <2>7. b \in 1..a /\ b < t
    BY <1>1, <1>8, <2>1, <2>5
  <2> QED BY <2>1, <2>3, <2>6, <2>7
<1>13. \* the calls of an assistant message and their results
       ASSUME NEW b \in DOMAIN ms, NEW k \in 1..Len(ms[b].calls)
       PROVE  /\ b + k <= n + w /\ b + k \in Nat
              /\ full[b + k].role = "tool" /\ full[b + k].id = ms[b].calls[k].id
  <2>1. /\ DOMAIN ms[b].calls = 1..Len(ms[b].calls) /\ Len(ms[b].calls) \in Nat /\ b \in Nat
        /\ full[b] = ms[b] /\ b \in DOMAIN full
    BY <1>1, <1>4, <1>11, ElementIs
  <2>2. k \in DOMAIN full[b].calls /\ full[b].calls # <<>>
    BY <1>13, <2>1
  <2>3. b + k <= Len(full) /\ full[b + k].role = "tool" /\ full[b + k].id = full[b].calls[k].id
    BY <1>v, <2>1, <2>2 DEF ValidHistory
  <2> QED BY <1>3, <2>1, <2>3
<1>14. CASE a = 0
  <2>1. w = 0
    <3> SUFFICES ASSUME w # 0 PROVE FALSE
      OBVIOUS
    <3>1. n + 1 \in 1..(n + w) /\ full[n + 1].role = "tool"
      BY <1>1, <1>7
    <3>2. \E b \in 1..a : b < n + 1
      BY <1>12, <3>1
    <3> QED BY <1>14, <3>2
  <2>2. open = {}
    BY <1>14 DEF Unanswered
  <2>3. Cardinality(open) = 0
    BY <2>2, FS_EmptySet
  <2>4. [j \in 1..Cardinality(open) |-> Tool(ms[a].calls[nth(j)].id, "not_executed", 0)]
        = [j \in 1..w |-> Tool(owed[j].id, "not_executed", 0)]
    BY <2>1, <2>3
  <2> QED BY <1>9, <1>10, <2>4 DEF full
<1>15. CASE a # 0
  <2>1. a \in DOMAIN ms /\ a \in Nat /\ a >= 1
    BY <1>1, <1>8, <1>15
  <2>2. DOMAIN calls = 1..Len(calls) /\ Len(calls) \in Nat
    BY <2>1, ElementIs
  <2>3. \A k \in 1..Len(calls) : calls[k].id[2] = k
    BY <2>1, <2>2 DEF WellNumbered
  <2>4. open = {k \in 1..Len(calls) :
                  \A i \in (a + 1)..n : ms[i].role = "tool" => ms[i].id # calls[k].id}
    BY <1>15, <2>2 DEF Unanswered, n
  <2>5. \A k \in 1..Len(calls) : a + k <= n => k \notin open
    <3> SUFFICES ASSUME NEW k \in 1..Len(calls), a + k <= n PROVE k \notin open
      OBVIOUS
    <3>1. a + k \in (a + 1)..n /\ a + k \in 1..n
      BY <1>1, <2>1, <2>2
    <3>2. full[a + k].role = "tool" /\ full[a + k].id = calls[k].id
      BY <1>13, <2>1
    <3>3. ms[a + k].role = "tool" /\ ms[a + k].id = calls[k].id
      BY <1>4, <3>1, <3>2
    <3> QED BY <2>4, <3>1, <3>3
  <2>6. CASE w = 0
    <3>1. \A k \in 1..Len(calls) : a + k <= n
      BY <1>1, <1>13, <2>1, <2>6
    <3>2. open = {}
      BY <2>4, <2>5, <3>1
    <3>3. Cardinality(open) = 0
      BY <3>2, FS_EmptySet
    <3>4. [j \in 1..Cardinality(open) |-> Tool(ms[a].calls[nth(j)].id, "not_executed", 0)]
          = [j \in 1..w |-> Tool(owed[j].id, "not_executed", 0)]
      BY <2>6, <3>3
    <3> QED BY <1>9, <1>10, <3>4 DEF full
  <2>7. CASE w # 0
    <3>1. n + w \in 1..(n + w) /\ full[n + w].role = "tool"
      <4>1. w \in 1..w
        BY <1>1, <2>7
      <4> QED BY <1>1, <1>7, <4>1
    <3>2. PICK b \in 1..a : /\ b < n + w /\ b \in DOMAIN ms
                            /\ (n + w) - b \in 1..Len(ms[b].calls)
      BY <1>12, <3>1
    <3>3. b = a
      <4> SUFFICES ASSUME b # a PROVE FALSE
        OBVIOUS
      <4>1. a - b \in 1..Len(ms[b].calls) /\ b + (a - b) = a
        <5>1. Len(ms[b].calls) \in Nat /\ b \in Nat
          BY <3>2, ElementIs
        <5>2. a <= n + w /\ b < a
          BY <1>1, <1>8, <3>2
        <5>3. /\ (n + w) - b \in 1..Len(ms[b].calls) /\ n + w \in Nat /\ a \in Nat
          BY <1>1, <2>1, <3>2
        <5> QED BY ONLY <5>1, <5>2, <5>3
      <4>2. full[a].role = "tool"
        BY <1>13, <3>2, <4>1
      <4>3. full[a] = ms[a]
        BY <1>1, <1>4, <2>1
      <4> QED BY <1>8, <1>15, <4>2, <4>3
    <3>4. a + Len(calls) = n + w
      <4>1. (n + w) - a \in 1..Len(calls)
        BY <3>2, <3>3
      <4>2. Len(calls) \in 1..Len(calls)
        BY <2>2, <4>1
      <4>3. a + Len(calls) <= n + w
        BY <1>13, <2>1, <4>2
      <4> QED BY <1>1, <2>1, <2>2, <4>1, <4>3
    <3> DEFINE m == n - a
    <3>5. m \in Nat /\ Len(calls) = m + w /\ a + m = n
      <4>1. /\ a \in Nat /\ n \in Nat /\ w \in Nat /\ Len(calls) \in Nat /\ a <= n
            /\ a + Len(calls) = n + w
        BY <1>1, <1>8, <2>1, <2>2, <3>4
      <4> DEFINE len == Len(calls)
      <4>2. len \in Nat /\ a + len = n + w
        BY ONLY <4>1
      <4> HIDE DEF len
      <4>3. m \in Nat /\ a + m = n
        BY ONLY <4>1
      <4>4. len = m + w
        BY ONLY <4>1, <4>2
      <4> QED BY ONLY <4>3, <4>4 DEF len
    <3>6. open = (m + 1)..(m + w)
      <4>1. ASSUME NEW k \in 1..Len(calls), k > m, NEW i \in (a + 1)..n, ms[i].role = "tool"
            PROVE  ms[i].id # calls[k].id
        <5>1. i - a \in 1..m /\ i - a \in 1..Len(calls) /\ a + (i - a) = i /\ i - a # k
              /\ i \in 1..n
          <6>1. /\ a \in Nat /\ a >= 1 /\ n \in Nat /\ m \in Nat /\ w \in Nat /\ a + m = n
                /\ Len(calls) = m + w /\ k \in Nat /\ k > m /\ i \in Nat /\ i >= a + 1 /\ i <= n
            BY <1>1, <2>1, <2>2, <3>5, <4>1
          <6> DEFINE len == Len(calls)
          <6>2. len = m + w
            BY ONLY <6>1
          <6> HIDE DEF m, len
          <6>3. i - a >= 1 /\ i - a <= m /\ i - a \in Int /\ a + (i - a) = i
            BY ONLY <6>1
          <6>4. i - a # k /\ i - a <= len /\ len \in Nat
            BY ONLY <6>1, <6>2, <6>3
          <6>5. i - a \in 1..m /\ i - a \in 1..len /\ i \in 1..n
            BY ONLY <6>1, <6>3, <6>4
          <6> QED BY ONLY <6>3, <6>4, <6>5 DEF len
        <5>2. full[i].id = calls[i - a].id
          BY <1>13, <2>1, <5>1
        <5>3. ms[i].id = calls[i - a].id
          BY <1>4, <5>1, <5>2
        <5>4. ms[i].id[2] = i - a /\ calls[k].id[2] = k
          BY <2>3, <5>1, <5>3
        <5> QED BY <5>1, <5>4
      <4>2. \A k \in 1..Len(calls) : k > m <=> k \in open
        <5>1. \A k \in 1..Len(calls) : k > m => k \in open
          BY <2>4, <4>1
        <5>2. \A k \in 1..Len(calls) : ~(k > m) => a + k <= n
          BY <2>1, <2>2, <3>5
        <5> QED BY <2>5, <5>1, <5>2
      <4>3. open \subseteq 1..Len(calls)
        BY <2>4
      <4> HIDE DEF m, open
      <4>4. \A k \in (m + 1)..(m + w) : k \in 1..Len(calls) /\ k > m
        BY <1>1, <3>5
      <4>5. \A k \in 1..Len(calls) : k > m => k \in (m + 1)..(m + w)
        BY <1>1, <3>5
      <4> QED BY <4>2, <4>3, <4>4, <4>5
    <3>7. /\ Cardinality(open) = w
          /\ \A j \in 1..w : nth(j) = m + j
      <4> HIDE DEF m, open
      <4>1. Cardinality(open) = w
        BY <1>1, <3>5, <3>6, NthOfRest
      <4>2. ASSUME NEW j \in 1..w PROVE nth(j) = m + j
        BY <1>1, <3>5, <3>6, NthOfRest
      <4> HIDE DEF nth
      <4> QED BY <4>1, <4>2
    <3>8. ASSUME NEW j \in 1..w PROVE calls[m + j].id = owed[j].id
      <4>1. m + j \in 1..Len(calls) /\ a + (m + j) = n + j
        <5>1. /\ m \in Nat /\ w \in Nat /\ j \in Nat /\ j >= 1 /\ j <= w /\ a \in Nat
              /\ Len(calls) = m + w /\ a + m = n
          BY <1>1, <2>1, <3>5
        <5> HIDE DEF m
        <5> QED BY ONLY <5>1
      <4>2. full[n + j].id = calls[m + j].id
        BY <1>13, <2>1, <4>1
      <4> QED BY <1>7, <4>2
    <3>9. \A j \in 1..w : Tool(ms[a].calls[nth(j)].id, "not_executed", 0)
                          = Tool(owed[j].id, "not_executed", 0)
      BY <3>7, <3>8
    <3>10. [j \in 1..Cardinality(open) |-> Tool(ms[a].calls[nth(j)].id, "not_executed", 0)]
           = [j \in 1..w |-> Tool(owed[j].id, "not_executed", 0)]
      <4> HIDE DEF nth
      <4> QED BY <3>7, <3>9
    <3> QED BY <1>9, <1>10, <3>10 DEF full
  <2> QED BY <2>6, <2>7
<1> QED BY <1>14, <1>15

-----------------------------------------------------------------------------
(***************************************************************************)
(* AgentLoop: the invariant.                                               *)
(***************************************************************************)
BudgetType == [iter : Nat, calls : Nat, rest : {"fine", "reserve", "over"}]
SnapshotType == [msgs : Messages, budget : BudgetType]
RunType ==
    [state : {"none", "started", "paused", "completed", "failed", "cancelled"},
     safe : BOOLEAN,
     why : {"none", "user.requested", "budget", "provider_error", "empty_reply",
            "no_progress", "gateway.restarted"},
     snap : SnapshotType, offered : BOOLEAN]
LoopType ==
    [pc : {"none", "top", "compact", "turn", "tools", "offer", "summary"},
     msgs : Messages, rest : Seq(CallType), turn : Nat, idle : Nat,
     empty : BOOLEAN, progressed : BOOLEAN, mutated : BOOLEAN,
     why : {"budget", "no_progress"}]
FlightType ==
    [call : CallType, at : {"queued", "asked", "applied", "done"},
     text : {"none", "refused", "result", "shown"}, seen : Nat]
CountType == [rounds : Nat, faults : Nat, steers : Nat, paid : Nat]

AgentTypeOK ==
    /\ run \in RunType /\ loop \in LoopType /\ budget \in BudgetType
    /\ flight \in Seq(FlightType) /\ staging \in Seq(CallId)
    /\ orphans \in SUBSET CallId /\ count \in CountType

\* The journal and the coroutine agree; tool calls are out only while the loop
\* is at its tools, and after the run has failed; then only reads are left.
LoopStands ==
    /\ Live <=> run.state = "started"
    /\ run.state = "paused" => run.safe
    /\ run.state = "none" => loop.turn = 0
    /\ Live => (run.safe <=> loop.pc # "offer")
    /\ flight # <<>> => loop.pc = "tools" \/ run.state = "failed"
    /\ loop.pc # "tools" => loop.rest = <<>>
    /\ ~Live => loop.msgs = <<>>
    /\ ~Live => \A i \in DOMAIN flight : Mutates(flight[i].call) => flight[i].at = "done"
    /\ \A i, j \in DOMAIN flight : Mutates(flight[i].call) => i = j

\* How many turns the last snapshot may be behind.
Behind == CASE loop.pc \in {"top", "compact"} -> IF loop.empty THEN 1 ELSE 0
            [] loop.pc = "turn" -> IF loop.empty THEN 2 ELSE 1
            [] loop.pc \in {"tools", "summary"} -> 2
            [] OTHER -> 0

\* What was paid for is on the budget, but for what crashes have hidden.
BudgetKept ==
    /\ budget.iter < MaxIterations /\ run.snap.budget.iter < MaxIterations
    /\ run.state = "none" => count.paid = 0
    /\ Live => /\ count.paid <= budget.iter + 2 * count.faults
               /\ budget.iter <= run.snap.budget.iter + Behind
    /\ run.state = "paused" /\ run.why # "budget"
       => count.paid <= run.snap.budget.iter + 2 * count.faults
    /\ BudgetHolds

\* The messages that ask for a call or answer one.
Talk(ms) == {m \in Range(ms) : m.role = "tool" \/ m.calls # <<>>}
Said == Talk(loop.msgs) \cup Talk(run.snap.msgs)

\* The calls whose results the history still owes.
AtTools == loop.pc = "tools"
FlightCalls == [i \in DOMAIN flight |-> flight[i].call]
Owed == IF AtTools THEN FlightCalls \o loop.rest ELSE <<>>

HistoryKept ==
    /\ ValidHistory(Completed(loop.msgs, Owed))
    /\ run.safe => ValidHistory(run.snap.msgs)

\* Ids are numbered by turn and call; those of the calls at hand are of this
\* turn, in order.
IdsKept ==
    /\ \A m \in Said : /\ m.calls # <<>> => m.role = "assistant"
                       /\ \A k \in DOMAIN m.calls : m.calls[k].id[2] = k
                       /\ m.role = "tool" => m.id \in CallId /\ m.id[1] <= loop.turn
    /\ AtTools => \A m \in Talk(run.snap.msgs) : m.role = "tool" => m.id[1] < loop.turn
    /\ \A id \in orphans : id[1] <= loop.turn
    /\ \A k \in DOMAIN staging : staging[k][1] <= loop.turn
    /\ \A i \in DOMAIN Owed : /\ Owed[i].id[1] = loop.turn
                              /\ \A j \in DOMAIN Owed : i < j => Owed[i].id[2] < Owed[j].id[2]

\* The calls at hand that have not been carried out.
Pending(i) == flight[i].at \in {"queued", "asked"}
ToCome ==
    IF AtTools
    THEN {flight[i].call.id : i \in {i \in DOMAIN flight : Pending(i)}} \cup {c.id : c \in Range(loop.rest)}
    ELSE {}
MayBeStaged == Range(staging) \cup orphans \cup ToCome

NotDone == {"refused", "not_executed"}
ReportsKept ==
    /\ \A m \in Said : m.role = "tool" /\ m.text \in NotDone => m.id \notin MayBeStaged
    /\ AtTools => \A i \in DOMAIN flight : flight[i].at = "done" /\ flight[i].text = "refused"
                      => flight[i].call.id \notin MayBeStaged
    /\ ToCome \cap (Range(staging) \cup orphans) = {}

\* The read `id` that showed the first `at` mutations came after exactly those
\* mutations of its turn.
ShownInOrder(id, at) ==
    /\ at <= Len(staging)
    /\ \A k \in DOMAIN staging : staging[k][1] = id[1] => (k <= at <=> staging[k][2] <= id[2])
Shows(i) ==
    \/ flight[i].at = "applied" /\ ~Mutates(flight[i].call)
    \/ flight[i].at = "done" /\ flight[i].text = "shown"
OrderKept ==
    /\ \A m \in Said : m.role = "tool" /\ m.text = "shown"
          => /\ ShownInOrder(m.id, m.at)
             /\ \A id \in orphans : id[1] # m.id[1]
             /\ \A id \in ToCome : id[1] = m.id[1] => m.id[2] < id[2]
    /\ AtTools => /\ \A i \in DOMAIN flight : Shows(i) => ShownInOrder(flight[i].call.id, flight[i].seen)
                  /\ \A id \in orphans : id[1] # loop.turn
    /\ \A k \in DOMAIN staging, id \in ToCome : staging[k][1] = loop.turn => staging[k][2] < id[2]

AgentInv ==
    /\ AgentTypeOK /\ LoopStands /\ BudgetKept
    /\ HistoryKept /\ IdsKept /\ ReportsKept /\ OrderKept

\* What the steps make of the run's row, of the coroutine and of the budget.
LEMMA SavedIs ==
    ASSUME run \in RunType, NEW ms \in Messages, NEW b \in BudgetType, NEW safe \in BOOLEAN
    PROVE  /\ Saved(ms, b, safe) \in RunType
           /\ Saved(ms, b, safe).state = run.state /\ Saved(ms, b, safe).safe = safe
           /\ Saved(ms, b, safe).why = run.why /\ Saved(ms, b, safe).offered = run.offered
           /\ Saved(ms, b, safe).snap.msgs = ms /\ Saved(ms, b, safe).snap.budget = b
BY DEF Saved, RunType, SnapshotType

\* The same of a pause.
LEMMA PausedIs ==
    ASSUME run \in RunType, NEW ms \in Messages, NEW b \in BudgetType,
           NEW why \in {"user.requested", "budget", "provider_error", "empty_reply",
                        "no_progress", "gateway.restarted"}
    PROVE  /\ PausedAt(ms, b, why) \in RunType
           /\ PausedAt(ms, b, why).state = "paused" /\ PausedAt(ms, b, why).safe
           /\ PausedAt(ms, b, why).why = why
           /\ PausedAt(ms, b, why).snap.msgs = ms /\ PausedAt(ms, b, why).snap.budget = b
BY DEF PausedAt, Saved, RunType, SnapshotType

\* A budget that has paid for nothing.
LEMMA FreshIs == Fresh \in BudgetType /\ Fresh.iter = 0
BY DEF Fresh, BudgetType

\* The coroutine of a run that is not worked on.
LEMMA NoLoopIs ==
    ASSUME NEW turn \in Nat
    PROVE  LET l == [NoLoop EXCEPT !.turn = turn] IN
           /\ l \in LoopType /\ l.pc = "none" /\ l.msgs = <<>> /\ l.rest = <<>> /\ l.turn = turn
<1>1. <<>> \in Messages /\ <<>> \in Seq(CallType)
  BY DEF Messages
<1> QED BY <1>1 DEF NoLoop, LoopType

\* A run that stops leaves nothing in flight.
LEMMA StopsIs ==
    ASSUME loop \in LoopType, Stops
    PROVE  /\ loop' \in LoopType /\ loop'.pc = "none" /\ loop'.msgs = <<>> /\ loop'.rest = <<>>
           /\ loop'.turn = loop.turn
           /\ flight' = <<>> /\ budget' = Fresh
<1>1. loop.turn \in Nat
  BY DEF LoopType
<1> QED BY <1>1, NoLoopIs DEF Stops

\* Time and cost only go one way, and pay for no turn.
LEMMA LaterIs ==
    ASSUME NEW b \in BudgetType, NEW c \in Later(b)
    PROVE  c \in BudgetType /\ c.iter = b.iter
<1>1. PICK r \in {"fine", "reserve", "over"} : c = [b EXCEPT !.rest = r]
  BY DEF Later, BudgetType
<1> QED BY <1>1 DEF BudgetType

\* The calls at hand are calls.
LEMMA OwedAreCalls ==
    ASSUME AgentTypeOK
    PROVE  /\ FlightCalls \in Seq(CallType) /\ Len(FlightCalls) = Len(flight)
           /\ DOMAIN flight = 1..Len(flight) /\ Len(flight) \in Nat
           /\ \A i \in 1..Len(flight) : /\ flight[i] \in FlightType /\ flight[i].call \in CallType
                                        /\ FlightCalls[i] = flight[i].call
           /\ loop.rest \in Seq(CallType) /\ Owed \in Seq(CallType)
<1>1. flight \in Seq(FlightType) /\ loop.rest \in Seq(CallType)
  BY DEF AgentTypeOK, LoopType
<1>2. /\ DOMAIN flight = 1..Len(flight) /\ Len(flight) \in Nat
      /\ \A i \in 1..Len(flight) : flight[i] \in FlightType
  BY <1>1, ElementOfSeq
<1>3. \A i \in 1..Len(flight) : flight[i].call \in CallType
  BY <1>2 DEF FlightType
<1>4. FlightCalls \in [1..Len(flight) -> CallType]
  BY <1>2, <1>3 DEF FlightCalls
<1>5. FlightCalls \in Seq(CallType) /\ Len(FlightCalls) = Len(flight)
  BY <1>2, <1>4, IsASeq
<1>6. \A i \in 1..Len(flight) : FlightCalls[i] = flight[i].call
  BY <1>2 DEF FlightCalls
<1>7. Owed \in Seq(CallType)
  BY <1>1, <1>5, ConcatProperties DEF Owed
<1> QED BY <1>1, <1>2, <1>3, <1>5, <1>6, <1>7

\* The histories of the run are histories, and number their calls.
LEMMA HistoriesAre ==
    ASSUME AgentTypeOK, IdsKept
    PROVE  /\ loop.msgs \in Messages /\ run.snap.msgs \in Messages
           /\ run.snap.budget \in BudgetType /\ WellNumbered(loop.msgs)
<1>1. /\ loop.msgs \in Messages /\ run.snap.msgs \in Messages
      /\ run.snap.budget \in BudgetType
  BY DEF AgentTypeOK, LoopType, RunType, SnapshotType
<1>2. ASSUME NEW i \in DOMAIN loop.msgs
      PROVE  /\ loop.msgs[i].calls # <<>> => loop.msgs[i].role = "assistant"
             /\ \A k \in DOMAIN loop.msgs[i].calls : loop.msgs[i].calls[k].id[2] = k
             /\ loop.msgs[i].role = "tool" => loop.msgs[i].id \in CallId
  <2>1. loop.msgs[i] \in Range(loop.msgs)
    BY DEF Range
  <2>2. CASE loop.msgs[i].role = "tool" \/ loop.msgs[i].calls # <<>>
    <3>1. loop.msgs[i] \in Said
      BY <2>1, <2>2 DEF Said, Talk
    <3> QED BY <3>1 DEF IdsKept
  <2>3. CASE ~(loop.msgs[i].role = "tool" \/ loop.msgs[i].calls # <<>>)
    <3>1. DOMAIN loop.msgs[i].calls = {}
      BY <2>3
    <3> QED BY <2>3, <3>1
  <2> QED BY <2>2, <2>3
<1> QED BY <1>1, <1>2 DEF WellNumbered

\* Between the tools the history is complete and filling it in changes
\* nothing; with no call out, filling it in answers the calls that are left.
LEMMA HistoryStands ==
    ASSUME AgentTypeOK, LoopStands, HistoryKept, IdsKept
    PROVE  /\ loop.pc # "tools" => /\ ValidHistory(loop.msgs)
                                   /\ FillMissing(loop.msgs) = loop.msgs
           /\ loop.pc = "tools" /\ flight = <<>>
              => /\ FillMissing(loop.msgs) = Completed(loop.msgs, loop.rest)
                 /\ ValidHistory(Completed(loop.msgs, loop.rest))
                 /\ loop.rest = <<>> => ValidHistory(loop.msgs)
<1>1. loop.msgs \in Messages /\ WellNumbered(loop.msgs)
  BY HistoriesAre
<1>2. Owed \in Seq(CallType) /\ loop.rest \in Seq(CallType)
  BY OwedAreCalls
<1>3. ValidHistory(Completed(loop.msgs, Owed))
  BY DEF HistoryKept
<1>4. FillMissing(loop.msgs) = Completed(loop.msgs, Owed)
  BY <1>1, <1>2, <1>3, FillMissingCompletes
<1>5. Completed(loop.msgs, <<>>) = loop.msgs
  BY <1>1, CompletedOwesNothing
<1>6. loop.pc # "tools" => Owed = <<>>
  BY DEF Owed, AtTools
<1>7. ASSUME loop.pc = "tools", flight = <<>> PROVE Owed = loop.rest
  <2>1. FlightCalls = <<>>
    BY <1>7, OwedAreCalls, EmptySeq
  <2>2. Owed = <<>> \o loop.rest
    BY <1>7, <2>1 DEF Owed, AtTools
  <2> QED BY <1>2, <2>2, ConcatEmptySeq
<1>8. ASSUME loop.pc # "tools"
      PROVE  ValidHistory(loop.msgs) /\ FillMissing(loop.msgs) = loop.msgs
  BY <1>3, <1>4, <1>5, <1>6, <1>8
<1>9. ASSUME loop.pc = "tools", flight = <<>>
      PROVE  /\ FillMissing(loop.msgs) = Completed(loop.msgs, loop.rest)
             /\ ValidHistory(Completed(loop.msgs, loop.rest))
             /\ loop.rest = <<>> => ValidHistory(loop.msgs)
  BY <1>3, <1>4, <1>5, <1>7, <1>9
<1> QED BY <1>8, <1>9

\* The ids of a reply's calls are new and numbered in order.
LEMMA IdsAre ==
    ASSUME loop \in LoopType, NEW tools \in CallLists
    PROVE  /\ Ids(tools) \in Seq(CallType) /\ Ids(tools) # <<>>
           /\ DOMAIN Ids(tools) = 1..Len(Ids(tools))
           /\ \A i \in DOMAIN Ids(tools) : /\ Ids(tools)[i].id = <<loop.turn + 1, i>>
                                           /\ Ids(tools)[i].id[1] = loop.turn + 1
                                           /\ Ids(tools)[i].id[2] = i
<1>1. tools \in Seq({"read", "write"}) /\ tools # <<>>
  BY CallListsAreCalls
<1>2. /\ Len(tools) \in Nat /\ Len(tools) > 0 /\ DOMAIN tools = 1..Len(tools)
      /\ \A i \in 1..Len(tools) : tools[i] \in {"read", "write"}
  BY <1>1, ElementOfSeq
<1>3. loop.turn + 1 \in Nat
  BY DEF LoopType
<1>4. Ids(tools) \in [1..Len(tools) -> CallType]
  BY <1>2, <1>3 DEF Ids, CallType, CallId
<1>5. Ids(tools) \in Seq(CallType) /\ Len(Ids(tools)) = Len(tools)
  BY <1>2, <1>4, IsASeq
<1>6. DOMAIN Ids(tools) = 1..Len(Ids(tools)) /\ Ids(tools) # <<>>
  BY <1>2, <1>5, EmptySeq
<1>7. \A i \in 1..Len(tools) : Ids(tools)[i].id = <<loop.turn + 1, i>>
  BY <1>2 DEF Ids
<1>8. \A i \in 1..Len(tools) : Ids(tools)[i].id[1] = loop.turn + 1 /\ Ids(tools)[i].id[2] = i
  BY <1>7
<1> QED BY <1>5, <1>6, <1>7, <1>8

\* A group and what is left after it are the calls there were; a mutation is a
\* group of its own.
LEMMA GroupIs ==
    ASSUME NEW calls \in Seq(CallType), calls # <<>>,
           NEW g, g = FirstGroup(calls),
           NEW left, left = SubSeq(calls, Len(g) + 1, Len(calls))
    PROVE  /\ g \in Seq(CallType) /\ left \in Seq(CallType) /\ g \o left = calls
           /\ Len(g) \in Nat /\ Len(g) > 0 /\ DOMAIN g = 1..Len(g)
           /\ \A i, j \in DOMAIN g : Mutates(g[i]) => i = j
<1>1. PICK n \in 1..Len(calls) : /\ g = SubSeq(calls, 1, n)
                                 /\ n > 1 => \A i \in 1..n : ParallelSafe(calls[i])
  BY FirstGroupIsAPrefix
<1>2. Len(calls) \in Nat /\ n \in Nat /\ n >= 1 /\ n <= Len(calls)
      /\ \A i \in 1..Len(calls) : calls[i] \in CallType
  BY <1>1, ElementOfSeq
<1>3. /\ g \in Seq(CallType) /\ Len(g) = n /\ \A i \in 1..n : g[i] = calls[i]
  <2>1. 1 \in Int /\ n \in Int /\ (\A i \in 1..n : calls[i] \in CallType) /\ 1 <= n /\ n - 1 + 1 = n
        /\ \A i \in 1..n : 1 + i - 1 = i
    BY <1>2
  <2> QED BY <1>1, <2>1, SubSeqProperties
<1>4. /\ left \in Seq(CallType)
      /\ Len(left) = IF n + 1 <= Len(calls) THEN Len(calls) - (n + 1) + 1 ELSE 0
      /\ \A i \in 1..(Len(calls) - (n + 1) + 1) : left[i] = calls[(n + 1) + i - 1]
  <2>1. n + 1 \in Int /\ Len(calls) \in Int /\ \A i \in (n + 1)..Len(calls) : calls[i] \in CallType
    BY <1>2
  <2>2. left = SubSeq(calls, n + 1, Len(calls))
    BY <1>3
  <2> QED BY <2>1, <2>2, SubSeqProperties
<1>5. g \o left = calls
  <2>1. 1 \in 1..(Len(calls) + 1) /\ n \in (1 - 1)..Len(calls) /\ Len(calls) \in n..Len(calls)
    BY <1>2
  <2>2. SubSeq(calls, 1, n) \o SubSeq(calls, n + 1, Len(calls)) = SubSeq(calls, 1, Len(calls))
    BY <2>1, ConcatAdjacentSubSeq
  <2>3. SubSeq(calls, 1, Len(calls)) = calls
    BY SubSeqFull
  <2> QED BY <1>1, <1>3, <2>2, <2>3
<1>6. DOMAIN g = 1..n
  BY <1>3
<1>7. ASSUME NEW i \in DOMAIN g, NEW j \in DOMAIN g, Mutates(g[i]) PROVE i = j
  <2>1. CASE n = 1
    BY <1>6, <1>7, <2>1
  <2>2. CASE n # 1
    <3>1. ParallelSafe(g[i])
      BY <1>1, <1>2, <1>3, <1>6, <1>7, <2>2
    <3> QED BY <1>7, <3>1 DEF ParallelSafe, Mutates
  <2> QED BY <2>1, <2>2
<1>8. Len(g) \in Nat /\ Len(g) > 0 /\ DOMAIN g = 1..Len(g)
  BY <1>2, <1>3, <1>6
<1>9. \A i, j \in DOMAIN g : Mutates(g[i]) => i = j
  BY <1>7
<1> QED BY <1>3, <1>4, <1>5, <1>8, <1>9

\* The calls of two lists are those of the list they make.
LEMMA CallsOfBoth ==
    ASSUME NEW a \in Seq(CallType), NEW b \in Seq(CallType)
    PROVE  \A c \in Range(a) \cup Range(b) : c \in Range(a \o b)
<1>1. /\ Len(a) \in Nat /\ Len(b) \in Nat /\ DOMAIN a = 1..Len(a) /\ DOMAIN b = 1..Len(b)
      /\ a \o b \in Seq(CallType) /\ DOMAIN (a \o b) = 1..(Len(a) + Len(b))
      /\ \A i \in 1..(Len(a) + Len(b)) :
            (a \o b)[i] = IF i <= Len(a) THEN a[i] ELSE b[i - Len(a)]
  BY ConcatProperties
<1> DEFINE both == a \o b
<1> HIDE DEF both
<1>2. ASSUME NEW i \in DOMAIN a PROVE a[i] \in Range(a \o b)
  <2>1. i \in DOMAIN both /\ both[i] = a[i]
    BY <1>1 DEF both
  <2>2. a[i] \in Range(both)
    BY <2>1 DEF Range
  <2> QED BY <2>2 DEF both
<1>3. ASSUME NEW i \in DOMAIN b PROVE b[i] \in Range(a \o b)
  <2>1. /\ Len(a) + i \in 1..(Len(a) + Len(b)) /\ ~(Len(a) + i <= Len(a))
        /\ (Len(a) + i) - Len(a) = i
    BY <1>1
  <2>2. Len(a) + i \in DOMAIN both /\ both[Len(a) + i] = b[i]
    BY <1>1, <2>1 DEF both
  <2>3. b[i] \in Range(both)
    BY <2>2 DEF Range
  <2> QED BY <2>3 DEF both
<1> QED BY <1>2, <1>3 DEF Range

\* What a message adds to the talk of calls.
LEMMA TalkAppends ==
    ASSUME NEW ms \in Messages, NEW m \in MessageType
    PROVE  /\ Append(ms, m) \in Messages
           /\ Talk(Append(ms, m)) \subseteq Talk(ms) \cup {m}
           /\ m.role # "tool" /\ m.calls = <<>> => Talk(Append(ms, m)) \subseteq Talk(ms)
<1> DEFINE new == Append(ms, m)
<1>1. /\ new \in Messages /\ DOMAIN new = 1..(Len(ms) + 1) /\ Len(ms) \in Nat
      /\ DOMAIN ms = 1..Len(ms)
      /\ \A i \in 1..Len(ms) : new[i] = ms[i]
      /\ new[Len(ms) + 1] = m
  BY AppendProperties DEF Messages
<1> HIDE DEF new
<1>2. ASSUME NEW x \in Range(new) PROVE x \in Range(ms) \cup {m}
  <2>1. PICK i \in DOMAIN new : x = new[i]
    BY DEF Range
  <2>2. i \in 1..Len(ms) \/ i = Len(ms) + 1
    BY <1>1, <2>1
  <2> QED BY <1>1, <2>1, <2>2 DEF Range
<1> QED BY <1>1, <1>2 DEF Talk, new

\* A compacted history is a history, as valid, that says nothing new of calls.
LEMMA CompactedIs ==
    ASSUME NEW ms \in Messages, ValidHistory(ms), NEW new \in Compacted(ms)
    PROVE  new \in Messages /\ ValidHistory(new) /\ Talk(new) \subseteq Talk(ms)
<1>1. PICK kept \in RecentExchanges(ms) \cup DropOldest(ms) : new = <<User>> \o kept
  BY DEF Compacted
<1>2. PICK i \in DOMAIN ms : ms[i].role # "tool" /\ kept = SubSeq(ms, i, Len(ms))
  BY <1>1 DEF RecentExchanges, DropOldest
<1>3. new \in Messages /\ ValidHistory(new)
  BY <1>1, <1>2, ValidSuffix
<1>4. /\ Len(ms) \in Nat /\ DOMAIN ms = 1..Len(ms) /\ i \in 1..Len(ms)
      /\ \A j \in 1..Len(ms) : ms[j] \in MessageType
  BY <1>2, ElementOfSeq DEF Messages
<1>5. /\ kept \in Seq(MessageType) /\ Len(kept) = Len(ms) - i + 1
      /\ \A j \in 1..(Len(ms) - i + 1) : kept[j] = ms[i + j - 1]
  <2>1. i \in Int /\ Len(ms) \in Int /\ (\A j \in i..Len(ms) : ms[j] \in MessageType) /\ i <= Len(ms)
    BY <1>4
  <2> QED BY <1>2, <2>1, SubSeqProperties
<1>6. User \in MessageType /\ User.role = "user" /\ User.calls = <<>>
  BY MessagesAre
<1>7. <<User>> \in Seq(MessageType) /\ Len(<<User>>) = 1 /\ <<User>>[1] = User
  BY <1>6
<1>8. /\ Len(new) = 1 + Len(kept)
      /\ \A j \in 1..(1 + Len(kept)) : new[j] = IF j <= 1 THEN <<User>>[j] ELSE kept[j - 1]
  BY <1>1, <1>5, <1>7, ConcatProperties
<1>9. ASSUME NEW x \in Range(new) PROVE x = User \/ x \in Range(ms)
  <2>1. PICK j \in DOMAIN new : x = new[j]
    BY DEF Range
  <2>2. j \in 1..(1 + Len(kept)) /\ j \in Nat /\ Len(kept) \in Nat
    BY <1>3, <1>5, <1>8, <2>1 DEF Messages
  <2>3. CASE j <= 1
    <3>1. j = 1
      BY <2>2, <2>3
    <3> QED BY <1>7, <1>8, <2>1, <2>2, <3>1
  <2>4. CASE ~(j <= 1)
    <3>1. j - 1 \in 1..(Len(ms) - i + 1) /\ i + (j - 1) - 1 \in 1..Len(ms)
      BY <1>4, <1>5, <2>2, <2>4
    <3>2. x = ms[i + (j - 1) - 1]
      BY <1>5, <1>8, <2>1, <2>2, <2>4, <3>1
    <3> QED BY <1>4, <3>1, <3>2 DEF Range
  <2> QED BY <2>3, <2>4
<1> QED BY <1>3, <1>6, <1>9 DEF Talk

\* The mutations a run leaves with the executor when its task is gone.
LeftBehind ==
    {flight[i].call.id : i \in {i \in DOMAIN flight : Mutates(flight[i].call)
                                                      /\ flight[i].at = "asked"}}

\* They were still to be carried out.
LEMMA LeftBehindIs ==
    ASSUME AgentTypeOK
    PROVE  /\ LeftBehind \subseteq CallId
           /\ AtTools => LeftBehind \subseteq ToCome
           /\ flight = <<>> => LeftBehind = {}
<1>1. \A i \in DOMAIN flight : flight[i].call.id \in CallId
  <2>1. \A i \in DOMAIN flight : flight[i].call \in CallType
    BY OwedAreCalls
  <2> QED BY <2>1 DEF CallType
<1>2. flight = <<>> => DOMAIN flight = {}
  OBVIOUS
<1> QED BY <1>1, <1>2 DEF LeftBehind, ToCome, Pending

\* One call of the group changes.
LEMMA CallChanges ==
    ASSUME AgentTypeOK, NEW i \in DOMAIN flight, NEW e \in FlightType,
           flight' = [flight EXCEPT ![i] = e]
    PROVE  /\ flight' \in Seq(FlightType) /\ DOMAIN flight' = DOMAIN flight
           /\ flight'[i] = e
           /\ \A j \in DOMAIN flight : j # i => flight'[j] = flight[j]
<1>1. flight \in Seq(FlightType) /\ DOMAIN flight = 1..Len(flight) /\ i \in 1..Len(flight)
  BY OwedAreCalls DEF AgentTypeOK
<1>2. /\ flight' \in Seq(FlightType) /\ Len(flight') = Len(flight)
      /\ \A j \in 1..Len(flight) : flight'[j] = IF j = i THEN e ELSE flight[j]
  BY <1>1, ExceptSeq
<1>3. DOMAIN flight' = 1..Len(flight')
  BY <1>2
<1> QED BY <1>1, <1>2, <1>3

\* A step of one call leaves the others and what is called alone.
CallStep(i) ==
    /\ flight' \in Seq(FlightType) /\ DOMAIN flight' = DOMAIN flight
    /\ flight'[i].call = flight[i].call
    /\ \A j \in DOMAIN flight : j # i => flight'[j] = flight[j]

\* What each handler of a call does to it (_execute_tool_call and the group it
\* runs in).
LEMMA CallBeginsIs ==
    ASSUME AgentTypeOK, NEW i \in DOMAIN flight, CallBegins(i)
    PROVE  /\ CallStep(i) /\ flight[i].at = "queued"
           /\ \/ /\ Mutates(flight[i].call)
                 /\ flight'[i].at = "done" /\ flight'[i].text = "refused"
              \/ flight'[i].at = "asked"
<1>1. flight[i] \in FlightType /\ flight[i].at = "queued"
  BY OwedAreCalls DEF CallBegins
<1>2. CASE Mutates(flight[i].call) /\ Answer(i, "refused")
  <2> DEFINE e == [flight[i] EXCEPT !.at = "done", !.text = "refused"]
  <2>1. e \in FlightType /\ e.call = flight[i].call /\ e.at = "done" /\ e.text = "refused"
    BY <1>1 DEF FlightType
  <2>2. flight' = [flight EXCEPT ![i] = e]
    BY <1>2 DEF Answer
  <2> HIDE DEF e
  <2> QED BY <1>1, <1>2, <2>1, <2>2, CallChanges DEF CallStep
<1>3. CASE flight' = [flight EXCEPT ![i].at = "asked"]
  <2> DEFINE e == [flight[i] EXCEPT !.at = "asked"]
  <2>1. e \in FlightType /\ e.call = flight[i].call /\ e.at = "asked"
    BY <1>1 DEF FlightType
  <2>2. flight' = [flight EXCEPT ![i] = e]
    BY <1>3
  <2> HIDE DEF e
  <2> QED BY <1>1, <2>1, <2>2, CallChanges DEF CallStep
<1> QED BY <1>2, <1>3 DEF CallBegins

\* The executor carries a call out.
LEMMA ExecuteIs ==
    ASSUME AgentTypeOK, NEW i \in DOMAIN flight, Execute(i)
    PROVE  /\ CallStep(i) /\ flight[i].at = "asked"
           /\ flight'[i].at = "applied" /\ flight'[i].seen = Len(staging')
           /\ staging' \in Seq(CallId)
           /\ Mutates(flight[i].call) => staging' = Append(staging, flight[i].call.id)
           /\ ~Mutates(flight[i].call) => staging' = staging
<1>1. flight[i] \in FlightType /\ flight[i].at = "asked" /\ staging \in Seq(CallId)
  BY OwedAreCalls DEF Execute, AgentTypeOK
<1>2. flight[i].call.id \in CallId
  <2>1. flight[i].call \in CallType
    BY OwedAreCalls
  <2> QED BY <2>1 DEF CallType
<1>3. /\ Mutates(flight[i].call) => staging' = Append(staging, flight[i].call.id)
      /\ ~Mutates(flight[i].call) => staging' = staging
  BY DEF Execute
<1>4. staging' \in Seq(CallId)
  BY <1>1, <1>2, <1>3, AppendProperties
<1>5. Len(staging') \in Nat
  BY <1>4
<1> DEFINE e == [flight[i] EXCEPT !.at = "applied", !.seen = Len(staging')]
<1>6. e \in FlightType /\ e.call = flight[i].call /\ e.at = "applied" /\ e.seen = Len(staging')
  BY <1>1, <1>5 DEF FlightType
<1>7. flight' = [flight EXCEPT ![i] = e]
  BY DEF Execute
<1> HIDE DEF e
<1>8. CallStep(i) /\ flight'[i] = e
  BY <1>6, <1>7, CallChanges DEF CallStep
<1> QED BY <1>1, <1>3, <1>4, <1>6, <1>8

\* The result of a call reaches the loop.
LEMMA CallReturnsIs ==
    ASSUME AgentTypeOK, NEW i \in DOMAIN flight, CallReturns(i)
    PROVE  /\ CallStep(i) /\ flight[i].at = "applied"
           /\ flight'[i].at = "done" /\ flight'[i].seen = flight[i].seen
           /\ flight'[i].text = IF Mutates(flight[i].call) THEN "result" ELSE "shown"
           /\ loop' \in LoopType /\ loop'.pc = "tools" /\ loop'.msgs = loop.msgs
           /\ loop'.rest = loop.rest /\ loop'.turn = loop.turn /\ loop'.empty = loop.empty
<1>1. flight[i] \in FlightType /\ flight[i].at = "applied"
  BY OwedAreCalls DEF CallReturns
<1> DEFINE text == IF Mutates(flight[i].call) THEN "result" ELSE "shown"
           e == [flight[i] EXCEPT !.at = "done", !.text = text]
<1>2. e \in FlightType /\ e.call = flight[i].call /\ e.at = "done" /\ e.text = text
      /\ e.seen = flight[i].seen
  BY <1>1 DEF FlightType
<1>3. flight' = [flight EXCEPT ![i] = e]
  BY DEF CallReturns, Answer
<1> HIDE DEF e
<1>4. CallStep(i) /\ flight'[i] = e
  BY <1>2, <1>3, CallChanges DEF CallStep
<1>5. loop \in LoopType /\ loop.pc = "tools"
  BY DEF AgentTypeOK, CallReturns
<1>6. PICK new \in BOOLEAN :
         loop' = [loop EXCEPT !.progressed = @ \/ new,
                    !.mutated = @ \/ Mutates(flight[i].call)]
  BY DEF CallReturns
<1>7. (loop.progressed \/ new) \in BOOLEAN /\ (loop.mutated \/ Mutates(flight[i].call)) \in BOOLEAN
  BY Zenon
<1>8. /\ loop' \in LoopType /\ loop'.pc = "tools" /\ loop'.msgs = loop.msgs
      /\ loop'.rest = loop.rest /\ loop'.turn = loop.turn /\ loop'.empty = loop.empty
  BY <1>5, <1>6, <1>7 DEF LoopType
<1> QED BY <1>1, <1>2, <1>4, <1>8

\* A call fails and the run with it.
LEMMA CallFailsIs ==
    ASSUME AgentTypeOK, NEW i \in DOMAIN flight, CallFails(i)
    PROVE  /\ CallStep(i) /\ flight[i].at = "asked" /\ flight'[i].at = "done"
           /\ run' \in RunType /\ run'.state = "failed" /\ run'.snap = run.snap
           /\ run'.safe = run.safe
           /\ loop' \in LoopType /\ loop'.pc = "none" /\ loop'.msgs = <<>>
           /\ loop'.rest = <<>> /\ loop'.turn = loop.turn
           /\ AtTools /\ orphans' \subseteq orphans \cup ToCome /\ orphans' \subseteq CallId
<1>1. /\ flight[i] \in FlightType /\ flight[i].at = "asked" /\ flight[i].call \in CallType
      /\ orphans \subseteq CallId
  BY OwedAreCalls DEF CallFails, AgentTypeOK
<1> DEFINE e == [flight[i] EXCEPT !.at = "done"]
<1>2. e \in FlightType /\ e.call = flight[i].call /\ e.at = "done"
  BY <1>1 DEF FlightType
<1>3. flight' = [flight EXCEPT ![i] = e]
  BY DEF CallFails
<1> HIDE DEF e
<1>4. CallStep(i) /\ flight'[i] = e
  BY <1>2, <1>3, CallChanges DEF CallStep
<1>5. /\ run' \in RunType /\ run'.state = "failed" /\ run'.snap = run.snap
      /\ run'.safe = run.safe
  BY DEF CallFails, AgentTypeOK, RunType
<1>6. /\ loop' \in LoopType /\ loop'.pc = "none" /\ loop'.msgs = <<>>
      /\ loop'.rest = <<>> /\ loop'.turn = loop.turn
  <2>1. loop.turn \in Nat
    BY DEF AgentTypeOK, LoopType
  <2> QED BY <2>1, NoLoopIs DEF CallFails
<1>7. AtTools /\ flight[i].call.id \in ToCome /\ flight[i].call.id \in CallId
  BY <1>1 DEF CallFails, AtTools, ToCome, Pending, CallType
<1>8. orphans' \subseteq orphans \cup {flight[i].call.id}
  BY DEF CallFails
<1> QED BY <1>1, <1>2, <1>4, <1>5, <1>6, <1>7, <1>8

\* A read of a group whose run has failed goes on.
LEMMA LateCallIs ==
    ASSUME AgentTypeOK, NEW i \in DOMAIN flight, LateCall(i)
    PROVE  /\ CallStep(i) /\ ~Live /\ flight[i].at # "done"
           /\ UNCHANGED <<run, loop, budget, staging, orphans, count>>
<1>1. flight[i] \in FlightType
  BY OwedAreCalls
<1>2. CASE flight[i].at = "queued" /\ flight' = [flight EXCEPT ![i].at = "asked"]
  <2> DEFINE e == [flight[i] EXCEPT !.at = "asked"]
  <2>1. e \in FlightType /\ e.call = flight[i].call
    BY <1>1 DEF FlightType
  <2>2. flight' = [flight EXCEPT ![i] = e]
    BY <1>2
  <2> HIDE DEF e
  <2> QED BY <1>2, <2>1, <2>2, CallChanges DEF CallStep, LateCall
<1>3. CASE flight[i].at = "applied" /\ flight' = [flight EXCEPT ![i].at = "done"]
  <2> DEFINE e == [flight[i] EXCEPT !.at = "done"]
  <2>1. e \in FlightType /\ e.call = flight[i].call
    BY <1>1 DEF FlightType
  <2>2. flight' = [flight EXCEPT ![i] = e]
    BY <1>3
  <2> HIDE DEF e
  <2> QED BY <1>3, <2>1, <2>2, CallChanges DEF CallStep, LateCall
<1> QED BY <1>2, <1>3 DEF LateCall

-----------------------------------------------------------------------------
(***************************************************************************)
(* AgentLoop: the steps that answer no call.                               *)
(***************************************************************************)

\* A step that leaves the tools, or does not touch them: nothing is said of
\* calls but what was said before, and what was still to be done is dropped or
\* left with the executor.
Quiet ==
    /\ loop'.pc # "tools" /\ loop'.turn = loop.turn /\ staging' = staging
    /\ \/ orphans' = orphans /\ Said' \subseteq Said
       \/ AtTools /\ orphans' \subseteq orphans \cup ToCome
          /\ Said' \subseteq Talk(run.snap.msgs)
    /\ ValidHistory(loop'.msgs)
    /\ run'.safe => ValidHistory(run'.snap.msgs)

\* What is owed: the calls that are out, then those that are left.
LEMMA OwedIs ==
    ASSUME AgentTypeOK, AtTools
    PROVE  /\ Len(Owed) = Len(flight) + Len(loop.rest)
           /\ DOMAIN Owed = 1..(Len(flight) + Len(loop.rest))
           /\ \A i \in 1..Len(flight) : i \in DOMAIN Owed /\ Owed[i] = flight[i].call
           /\ \A k \in 1..Len(loop.rest) : /\ Len(flight) + k \in DOMAIN Owed
                                            /\ Owed[Len(flight) + k] = loop.rest[k]
           /\ Len(flight) \in Nat /\ DOMAIN flight = 1..Len(flight)
           /\ Len(loop.rest) \in Nat /\ DOMAIN loop.rest = 1..Len(loop.rest)
<1> DEFINE f == FlightCalls
           r == loop.rest
<1>1. /\ f \in Seq(CallType) /\ Len(f) = Len(flight) /\ Len(flight) \in Nat
      /\ DOMAIN flight = 1..Len(flight)
      /\ \A i \in 1..Len(flight) : f[i] = flight[i].call
      /\ r \in Seq(CallType)
  BY OwedAreCalls
<1>2. Owed = f \o r
  BY DEF Owed
<1> HIDE DEF f, r
<1>3. /\ f \o r \in Seq(CallType) /\ Len(f \o r) = Len(f) + Len(r)
      /\ \A i \in 1..(Len(f) + Len(r)) :
            (f \o r)[i] = IF i <= Len(f) THEN f[i] ELSE r[i - Len(f)]
  BY <1>1, ConcatProperties
<1>4. Len(r) \in Nat /\ DOMAIN r = 1..Len(r)
  BY <1>1
<1>5. /\ Len(Owed) = Len(flight) + Len(r)
      /\ DOMAIN Owed = 1..(Len(flight) + Len(r))
  BY <1>1, <1>2, <1>3
<1>6. ASSUME NEW i \in 1..Len(flight)
      PROVE  i \in DOMAIN Owed /\ Owed[i] = flight[i].call
  BY <1>1, <1>2, <1>3, <1>4, <1>5
<1>7. ASSUME NEW k \in 1..Len(r)
      PROVE  Len(flight) + k \in DOMAIN Owed /\ Owed[Len(flight) + k] = r[k]
  <2>1. /\ Len(flight) + k \in 1..(Len(f) + Len(r)) /\ ~(Len(flight) + k <= Len(f))
        /\ (Len(flight) + k) - Len(f) = k
    BY <1>1, <1>4
  <2> QED BY <1>1, <1>2, <1>3, <1>5, <2>1
<1> QED BY <1>1, <1>4, <1>5, <1>6, <1>7 DEF r

\* What is still to come is owed, and so is of this turn.
LEMMA ToComeIsOwed ==
    ASSUME AgentTypeOK, NEW id \in ToCome
    PROVE  AtTools /\ \E i \in DOMAIN Owed : id = Owed[i].id
<1>1. AtTools
  BY DEF ToCome
<1>2. CASE \E i \in DOMAIN flight : id = flight[i].call.id
  BY <1>1, <1>2, OwedIs
<1>3. CASE \E c \in Range(loop.rest) : id = c.id
  <2>1. PICK k \in DOMAIN loop.rest : id = loop.rest[k].id
    BY <1>3 DEF Range
  <2> QED BY <1>1, <2>1, OwedIs
<1> QED BY <1>1, <1>2, <1>3 DEF ToCome

\* Such a step keeps what is said of the calls.
LEMMA QuietKeeps ==
    ASSUME AgentInv, AgentTypeOK', Quiet
    PROVE  HistoryKept' /\ IdsKept' /\ ReportsKept' /\ OrderKept'
<1>1. ~AtTools' /\ Owed' = <<>> /\ ToCome' = {} /\ DOMAIN Owed' = {}
  BY DEF Quiet, AtTools, Owed, ToCome
<1>2. HistoryKept'
  <2>1. loop'.msgs \in Messages
    BY DEF AgentTypeOK, LoopType
  <2>2. Completed(loop'.msgs, <<>>) = loop'.msgs
    BY <2>1, CompletedOwesNothing
  <2> QED BY <1>1, <2>2 DEF Quiet, HistoryKept
<1>3. Said' \subseteq Said
  BY DEF Quiet, Said
<1>4. orphans' \subseteq orphans \cup ToCome
  BY DEF Quiet
<1>5. \A id \in ToCome : id[1] = loop.turn
  <2>1. AgentTypeOK /\ \A i \in DOMAIN Owed : Owed[i].id[1] = loop.turn
    BY DEF AgentInv, IdsKept
  <2> QED BY <2>1, ToComeIsOwed
<1>6. IdsKept'
  <2>1. \A m \in Said' : /\ m.calls # <<>> => m.role = "assistant"
                         /\ \A k \in DOMAIN m.calls : m.calls[k].id[2] = k
                         /\ m.role = "tool" => m.id \in CallId /\ m.id[1] <= loop'.turn
    BY <1>3 DEF AgentInv, IdsKept, Quiet
  <2>2. \A id \in orphans' : id[1] <= loop'.turn
    <3>1. loop.turn \in Nat
      BY DEF AgentInv, AgentTypeOK, LoopType
    <3> QED BY <1>4, <1>5, <3>1 DEF AgentInv, IdsKept, Quiet
  <2>3. \A k \in DOMAIN staging' : staging'[k][1] <= loop'.turn
    BY DEF AgentInv, IdsKept, Quiet
  <2> QED BY <1>1, <2>1, <2>2, <2>3 DEF IdsKept
<1>7. ReportsKept'
  <2>1. MayBeStaged' \subseteq MayBeStaged
    BY <1>1, <1>4 DEF MayBeStaged, Quiet
  <2> QED BY <1>1, <1>3, <2>1 DEF AgentInv, ReportsKept
<1>8. OrderKept'
  <2>1. ASSUME NEW m \in Said', m.role = "tool", m.text = "shown"
        PROVE  ShownInOrder(m.id, m.at)' /\ \A id \in orphans' : id[1] # m.id[1]
    <3>1. ShownInOrder(m.id, m.at) /\ \A id \in orphans : id[1] # m.id[1]
      BY <1>3, <2>1 DEF AgentInv, OrderKept
    <3>2. ShownInOrder(m.id, m.at)'
      BY <3>1 DEF ShownInOrder, Quiet
    <3>3. CASE orphans' = orphans
      BY <3>1, <3>2, <3>3
    <3>4. CASE AtTools /\ Said' \subseteq Talk(run.snap.msgs)
      <4>1. m.id[1] < loop.turn
        BY <2>1, <3>4 DEF AgentInv, IdsKept
      <4>2. loop.turn \in Nat /\ m.id[1] \in Nat
        BY <1>3, <2>1 DEF AgentInv, AgentTypeOK, LoopType, IdsKept, CallId
      <4>3. m.id[1] # loop.turn
        BY <4>1, <4>2
      <4> QED BY <1>4, <1>5, <3>1, <3>2, <4>3
    <3> QED BY <3>3, <3>4 DEF Quiet
  <2> QED BY <1>1, <2>1 DEF OrderKept
<1> QED BY <1>2, <1>6, <1>7, <1>8

\* What the run's types say of its parts.
LEMMA PartsAre ==
    ASSUME AgentTypeOK
    PROVE  /\ run \in RunType /\ loop \in LoopType /\ budget \in BudgetType
           /\ loop.msgs \in Messages /\ loop.turn \in Nat /\ loop.rest \in Seq(CallType)
           /\ loop.empty \in BOOLEAN
           /\ run.snap.msgs \in Messages /\ run.snap.budget \in BudgetType
           /\ run.safe \in BOOLEAN
           /\ orphans \subseteq CallId /\ staging \in Seq(CallId)
           /\ budget.iter \in Nat /\ run.snap.budget.iter \in Nat
           /\ count \in CountType /\ count.rounds \in Nat /\ count.faults \in Nat
           /\ count.steers \in Nat /\ count.paid \in Nat
BY DEF AgentTypeOK, RunType, LoopType, BudgetType, SnapshotType, CountType

\* A run that ends by failing or by being cancelled.
LEMMA EndRunIs ==
    ASSUME AgentTypeOK, NEW state \in {"failed", "cancelled"}, EndRun(state)
    PROVE  /\ run' \in RunType /\ run'.state = state /\ run'.safe = run.safe
           /\ run'.snap = run.snap
           /\ orphans' = orphans \cup LeftBehind /\ orphans' \subseteq CallId
           /\ Stops /\ staging' = staging
<1>1. /\ run' \in RunType /\ run'.state = state /\ run'.safe = run.safe
      /\ run'.snap = run.snap
  BY DEF EndRun, AgentTypeOK, RunType
<1>2. orphans' = orphans \cup LeftBehind
  BY DEF EndRun, LeftBehind
<1>3. orphans' \subseteq CallId
  BY <1>2, LeftBehindIs, PartsAre
<1> QED BY <1>1, <1>2, <1>3 DEF EndRun

\* Where the coroutine goes when nothing else of it changes.
LEMMA GotoIs ==
    ASSUME AgentTypeOK, NEW pc \in {"top", "compact", "offer"}, NEW ms \in Messages,
           Goto(pc, ms)
    PROVE  /\ loop' \in LoopType /\ loop'.pc = pc /\ loop'.msgs = ms
           /\ loop'.rest = loop.rest /\ loop'.turn = loop.turn /\ loop'.empty = loop.empty
BY DEF Goto, AgentTypeOK, LoopType

\* A turn is paid for while one more is left for the summary.
LEMMA NextTurnIs ==
    ASSUME AgentTypeOK, NEW ms \in Messages, NEW b \in BudgetType, b.iter < MaxIterations,
           NextTurn(ms, b)
    PROVE  /\ loop' \in LoopType /\ loop'.msgs = ms
           /\ loop'.rest = loop.rest /\ loop'.turn = loop.turn /\ loop'.empty = loop.empty
           /\ budget' \in BudgetType /\ count' \in CountType
           /\ count'.faults = count.faults
           /\ \/ loop'.pc = "summary" /\ budget'.iter = b.iter /\ count'.paid = count.paid
              \/ /\ loop'.pc = "turn" /\ budget'.iter = b.iter + 1
                 /\ count'.paid = count.paid + 1 /\ b.iter + 1 < MaxIterations
<1>1. loop \in LoopType /\ count \in CountType /\ b.iter \in Nat /\ MaxIterations \in Nat
  BY LoopLimits DEF AgentTypeOK, BudgetType
<1>2. CASE WindDownReason(b, TRUE)
  <2>1. /\ loop' = [loop EXCEPT !.pc = "summary", !.msgs = ms, !.why = "budget"]
        /\ budget' = b /\ count' = count
    BY <1>2 DEF NextTurn
  <2>2. /\ loop' \in LoopType /\ loop'.msgs = ms /\ loop'.pc = "summary"
        /\ loop'.rest = loop.rest /\ loop'.turn = loop.turn /\ loop'.empty = loop.empty
    BY <1>1, <2>1 DEF LoopType
  <2> QED BY <1>1, <2>1, <2>2
<1>3. CASE ~WindDownReason(b, TRUE)
  <2>1. /\ loop' = [loop EXCEPT !.pc = "turn", !.msgs = ms]
        /\ budget' = [b EXCEPT !.iter = @ + 1]
        /\ count' = [count EXCEPT !.paid = @ + 1]
    BY <1>3 DEF NextTurn
  <2>2. b.iter + 1 < MaxIterations
    BY <1>1, <1>3 DEF WindDownReason
  <2>3. /\ loop' \in LoopType /\ loop'.msgs = ms /\ loop'.pc = "turn"
        /\ loop'.rest = loop.rest /\ loop'.turn = loop.turn /\ loop'.empty = loop.empty
    BY <1>1, <2>1 DEF LoopType
  <2>4. budget' \in BudgetType /\ budget'.iter = b.iter + 1
    BY <1>1, <2>1 DEF BudgetType
  <2>5. count' \in CountType /\ count'.faults = count.faults /\ count'.paid = count.paid + 1
    BY <1>1, <2>1 DEF CountType
  <2> QED BY <2>2, <2>3, <2>4, <2>5
<1> QED BY <1>2, <1>3

\* A run whose budget is spent is left where it can be taken up.
LEMMA OverspentIs ==
    ASSUME AgentTypeOK, NEW ms \in Messages, ValidHistory(ms), FillMissing(ms) = ms,
           NEW b \in BudgetType, Overspent(ms, b)
    PROVE  /\ run' \in RunType /\ run'.state = "paused" /\ run'.safe /\ run'.why = "budget"
           /\ run'.snap.budget = b /\ run'.snap.msgs \in Messages
           /\ ValidHistory(run'.snap.msgs) /\ Talk(run'.snap.msgs) \subseteq Talk(ms)
           /\ Stops /\ UNCHANGED <<staging, orphans, count>>
<1> DEFINE m == Assistant(<<>>)
           new == Append(ms, m)
<1>1. m \in MessageType /\ m.role = "assistant" /\ m.calls = <<>>
  <2>1. <<>> \in Seq(CallType)
    OBVIOUS
  <2> QED BY ONLY <2>1 DEF Assistant, User, MessageType
<1> HIDE DEF m
<1>2. new \in Messages /\ ValidHistory(new)
  BY <1>1, ValidAppendPlain
<1>3. Talk(new) \subseteq Talk(ms)
  BY <1>1, TalkAppends
<1>4. run' = PausedAt(new, b, "budget")
  BY DEF Overspent, m
<1>5. run \in RunType
  BY PartsAre
<1> HIDE DEF new
<1>6. /\ run' \in RunType /\ run'.state = "paused" /\ run'.safe /\ run'.why = "budget"
      /\ run'.snap.budget = b /\ run'.snap.msgs = new
  BY <1>2, <1>4, <1>5, PausedIs
<1> QED BY <1>2, <1>3, <1>6 DEF Overspent

\* A run that stops stands.
LEMMA StoppedStands ==
    ASSUME AgentTypeOK, Stops, run'.state \in {"paused", "completed", "failed", "cancelled"},
           run'.state = "paused" => run'.safe
    PROVE  LoopStands'
<1>1. /\ loop'.pc = "none" /\ loop'.msgs = <<>> /\ loop'.rest = <<>> /\ flight' = <<>>
  BY PartsAre, StopsIs
<1>2. DOMAIN flight' = {}
  BY <1>1
<1> QED BY <1>1, <1>2 DEF LoopStands, Live

\* What a run that stops has paid for.
LEMMA StoppedPays ==
    ASSUME AgentTypeOK, Stops, run'.state # "none", run'.snap.budget.iter < MaxIterations,
           run'.state = "paused" /\ run'.why # "budget"
              => count'.paid <= run'.snap.budget.iter + 2 * count'.faults,
           BudgetHolds'
    PROVE  BudgetKept'
<1>1. loop'.pc = "none" /\ budget' = Fresh
  BY PartsAre, StopsIs
<1>2. budget'.iter < MaxIterations
  BY <1>1, FreshIs, LoopLimits
<1> QED BY <1>1, <1>2 DEF BudgetKept, Live

\* A history without messages.
LEMMA NoMessages == Talk(<<>>) = {} /\ ValidHistory(<<>>)
BY DEF Talk, Range, ValidHistory

\* What is kept by a step that answers no call.
QuietStep == AgentTypeOK' /\ LoopStands' /\ BudgetKept' /\ Quiet

\* A run that stops keeps what is said of its calls.
LEMMA StoppedKeeps ==
    ASSUME AgentInv, Live, Stops, run' \in RunType, count' \in CountType, staging' = staging,
           run'.state \in {"paused", "completed", "failed", "cancelled"},
           run'.state = "paused" => run'.safe,
           run'.safe => ValidHistory(run'.snap.msgs),
           \/ orphans' = orphans /\ Talk(run'.snap.msgs) \subseteq Said
           \/ orphans' = orphans \cup LeftBehind /\ run'.snap = run.snap,
           run'.snap.budget.iter < MaxIterations,
           run'.state = "paused" /\ run'.why # "budget"
              => count'.paid <= run'.snap.budget.iter + 2 * count'.faults,
           BudgetHolds'
    PROVE  QuietStep
<1>1. AgentTypeOK /\ LoopStands
  BY DEF AgentInv
<1>2. /\ loop' \in LoopType /\ loop'.pc = "none" /\ loop'.msgs = <<>> /\ loop'.rest = <<>>
      /\ loop'.turn = loop.turn /\ flight' = <<>> /\ budget' = Fresh
  BY <1>1, PartsAre, StopsIs
<1>3. LeftBehind \subseteq CallId /\ (AtTools => LeftBehind \subseteq ToCome)
      /\ (~AtTools => LeftBehind = {})
  <2>1. ~AtTools => flight = <<>>
    BY <1>1 DEF LoopStands, AtTools
  <2> QED BY <1>1, <2>1, LeftBehindIs
<1>4. AgentTypeOK'
  <2>1. orphans' \subseteq CallId /\ staging' \in Seq(CallId)
    BY <1>1, <1>3, PartsAre
  <2>2. flight' \in Seq(FlightType)
    BY <1>2
  <2> QED BY <1>2, <2>1, <2>2, FreshIs DEF AgentTypeOK
<1>5. Said' = Talk(run'.snap.msgs)
  BY <1>2, NoMessages DEF Said
<1>6. Talk(run.snap.msgs) \subseteq Said
  BY DEF Said
<1>7. Quiet
  <2>1. \/ orphans' = orphans /\ Said' \subseteq Said
        \/ AtTools /\ orphans' \subseteq orphans \cup ToCome
           /\ Said' \subseteq Talk(run.snap.msgs)
    BY <1>3, <1>5, <1>6
  <2> QED BY <1>2, <2>1, NoMessages DEF Quiet
<1>8. LoopStands'
  BY <1>1, StoppedStands
<1>9. BudgetKept'
  BY <1>1, StoppedPays
<1> QED BY <1>4, <1>7, <1>8, <1>9 DEF QuietStep

\* What a live run may count on.
LEMMA LiveRun ==
    ASSUME AgentInv, Live
    PROVE  /\ AgentTypeOK /\ LoopStands /\ BudgetKept /\ HistoryKept /\ IdsKept
           /\ run.state = "started"
           /\ budget.iter < MaxIterations /\ run.snap.budget.iter < MaxIterations
           /\ count.paid <= budget.iter + 2 * count.faults
           /\ budget.iter <= run.snap.budget.iter + Behind
           /\ BudgetHolds
           /\ loop.pc # "tools" => /\ ValidHistory(loop.msgs) /\ flight = <<>> /\ loop.rest = <<>>
                                   /\ FillMissing(loop.msgs) = loop.msgs
           /\ run.safe => ValidHistory(run.snap.msgs)
           /\ Talk(loop.msgs) \subseteq Said /\ Talk(run.snap.msgs) \subseteq Said
<1>1. AgentTypeOK /\ LoopStands /\ BudgetKept /\ HistoryKept /\ IdsKept
  BY DEF AgentInv
<1>2. run.state = "started" /\ (loop.pc # "tools" => flight = <<>> /\ loop.rest = <<>>)
  BY <1>1 DEF LoopStands
<1>3. /\ budget.iter < MaxIterations /\ run.snap.budget.iter < MaxIterations
      /\ count.paid <= budget.iter + 2 * count.faults
      /\ budget.iter <= run.snap.budget.iter + Behind /\ BudgetHolds
  BY <1>1 DEF BudgetKept
<1>4. loop.pc # "tools" => ValidHistory(loop.msgs) /\ FillMissing(loop.msgs) = loop.msgs
  BY <1>1, HistoryStands
<1> QED BY <1>1, <1>2, <1>3, <1>4 DEF HistoryKept, Said

\* The pause between two turns.
LEMMA PauseHereKeeps ==
    ASSUME AgentInv, PauseHere PROVE QuietStep
<1>1. Live /\ loop.pc = "top"
  BY DEF PauseHere, Live
<1>2. run' = PausedAt(loop.msgs, budget, "user.requested")
  BY DEF PauseHere
<1>3. /\ run' \in RunType /\ run'.state = "paused" /\ run'.safe /\ run'.why = "user.requested"
      /\ run'.snap.msgs = loop.msgs /\ run'.snap.budget = budget
  BY <1>1, <1>2, LiveRun, PartsAre, PausedIs
<1>4. Stops /\ UNCHANGED <<staging, orphans, count>>
  BY DEF PauseHere
<1>5. /\ count' \in CountType /\ BudgetHolds'
      /\ count'.paid <= budget.iter + 2 * count'.faults
  BY <1>1, <1>4, LiveRun, PartsAre DEF BudgetHolds
<1> QED BY <1>1, <1>3, <1>4, <1>5, LiveRun, StoppedKeeps

\* A model turn that fails.
LEMMA TurnFailsKeeps ==
    ASSUME AgentInv, TurnFails PROVE QuietStep
<1>1. Live /\ loop.pc = "turn" /\ count' = count
  BY DEF TurnFails, Live
<1>2. /\ count' \in CountType /\ BudgetHolds'
      /\ count'.paid <= budget.iter + 2 * count'.faults
  BY <1>1, LiveRun, PartsAre DEF BudgetHolds
<1>3. CASE EndRun("failed")
  <2>1. /\ run' \in RunType /\ run'.state = "failed" /\ run'.safe = run.safe
        /\ run'.snap = run.snap /\ orphans' = orphans \cup LeftBehind
        /\ Stops /\ staging' = staging
    BY <1>1, <1>3, LiveRun, EndRunIs
  <2> QED BY <1>1, <1>2, <2>1, LiveRun, StoppedKeeps
<1>4. CASE run' = PausedAt(loop.msgs, budget, "provider_error") /\ Stops
           /\ UNCHANGED <<staging, orphans, count>>
  <2>1. /\ run' \in RunType /\ run'.state = "paused" /\ run'.safe
        /\ run'.snap.msgs = loop.msgs /\ run'.snap.budget = budget
    BY <1>1, <1>4, LiveRun, PartsAre, PausedIs
  <2> QED BY <1>1, <1>2, <1>4, <2>1, LiveRun, StoppedKeeps
<1> QED BY <1>3, <1>4 DEF TurnFails

\* The run is cancelled.
LEMMA CancelKeeps ==
    ASSUME AgentInv, Cancel PROVE QuietStep
<1>1. Live /\ count' = count /\ EndRun("cancelled")
  BY DEF Cancel
<1>2. /\ count' \in CountType /\ BudgetHolds'
  BY <1>1, LiveRun, PartsAre DEF BudgetHolds
<1>3. /\ run' \in RunType /\ run'.state = "cancelled" /\ run'.safe = run.safe
      /\ run'.snap = run.snap /\ orphans' = orphans \cup LeftBehind
      /\ Stops /\ staging' = staging
  BY <1>1, LiveRun, EndRunIs
<1> QED BY <1>1, <1>2, <1>3, LiveRun, StoppedKeeps

\* The gateway dies: the turns since the last snapshot are not on its budget.
LEMMA GatewayDiesKeeps ==
    ASSUME AgentInv, GatewayDies PROVE QuietStep
<1>1. Live /\ Stops /\ staging' = staging /\ orphans' = orphans \cup LeftBehind
  BY DEF GatewayDies, LeftBehind
<1>2. /\ AgentTypeOK /\ run.state = "started"
  BY <1>1, LiveRun
<1>3. /\ run' \in RunType /\ run'.snap = run.snap /\ run'.safe = run.safe
      /\ run'.state \in {"paused", "failed"} /\ (run'.state = "paused" => run'.safe)
  BY <1>2 DEF GatewayDies, AgentTypeOK, RunType
<1>4. count' \in CountType /\ count'.faults = count.faults + 1 /\ count'.paid = count.paid
  <2>1. count' = [count EXCEPT !.faults = @ + 1]
    BY DEF GatewayDies
  <2>2. count \in CountType
    BY <1>2, PartsAre
  <2> QED BY ONLY <2>1, <2>2 DEF CountType
<1>5. Behind <= 2 /\ Behind \in Nat
  BY DEF Behind
<1>6. count'.paid <= run'.snap.budget.iter + 2 * count'.faults
  <2>1. /\ count.paid <= budget.iter + 2 * count.faults
        /\ budget.iter <= run.snap.budget.iter + Behind
    BY <1>1, LiveRun
  <2>2. /\ count.paid \in Nat /\ count.faults \in Nat /\ budget.iter \in Nat
        /\ run.snap.budget.iter \in Nat
    BY <1>2, PartsAre
  <2>3. count.paid <= run.snap.budget.iter + 2 * (count.faults + 1)
    BY <1>5, <2>1, <2>2
  <2> QED BY <1>3, <1>4, <2>3
<1>7. BudgetHolds'
  BY <1>1, <1>2, <1>4, LiveRun, PartsAre, LoopLimits DEF BudgetHolds
<1> QED BY <1>1, <1>2, <1>3, <1>4, <1>6, <1>7, LiveRun, StoppedKeeps

\* A run that goes on, or is taken up, keeps what is said of its calls.
LEMMA GoesOnKeeps ==
    ASSUME AgentInv, flight = <<>>, UNCHANGED <<flight, staging, orphans>>,
           run' \in RunType, loop' \in LoopType, budget' \in BudgetType, count' \in CountType,
           loop'.pc \in {"top", "compact", "turn", "offer", "summary"},
           loop'.rest = <<>>, loop'.turn = loop.turn,
           run'.state = "started", run'.safe <=> loop'.pc # "offer",
           ValidHistory(loop'.msgs), Talk(loop'.msgs) \subseteq Said,
           Talk(run'.snap.msgs) \subseteq Said,
           run'.safe => ValidHistory(run'.snap.msgs),
           budget'.iter < MaxIterations, run'.snap.budget.iter < MaxIterations,
           count'.paid <= budget'.iter + 2 * count'.faults,
           budget'.iter <= run'.snap.budget.iter + Behind'
    PROVE  QuietStep
<1>1. AgentTypeOK'
  <2>1. flight' \in Seq(FlightType)
    OBVIOUS
  <2>2. staging' \in Seq(CallId) /\ orphans' \subseteq CallId
    BY PartsAre DEF AgentInv
  <2> QED BY <2>1, <2>2 DEF AgentTypeOK
<1>2. LoopStands'
  <2>1. DOMAIN flight' = {} /\ flight' = <<>>
    OBVIOUS
  <2> QED BY <2>1 DEF LoopStands, Live
<1>3. BudgetKept'
  <2>1. /\ count'.paid \in Nat /\ budget'.iter \in Nat /\ count'.faults \in Nat
        /\ MaxIterations \in Nat
    BY LoopLimits DEF CountType, BudgetType
  <2>2. count'.paid <= MaxIterations + 2 * count'.faults
    BY <2>1
  <2> QED BY <2>2 DEF BudgetKept, BudgetHolds
<1>4. Quiet
  <2>1. Said' \subseteq Said
    BY DEF Said
  <2> QED BY <2>1 DEF Quiet
<1> QED BY <1>1, <1>2, <1>3, <1>4 DEF QuietStep

\* The first history of a run.
LEMMA FirstHistory ==
    /\ <<User, User>> \in Messages /\ ValidHistory(<<User, User>>)
    /\ Talk(<<User, User>>) = {}
<1>1. User \in MessageType /\ User.role = "user" /\ User.calls = <<>>
  BY MessagesAre
<1>2. <<User, User>> \in Messages /\ <<User>> \in Messages /\ <<>> \in Messages
  BY <1>1 DEF Messages
<1>3. ASSUME NEW m PROVE Append(<<>>, m) = <<m>> /\ Append(<<m>>, m) = <<m, m>>
  <2>1. /\ <<>> \in Seq({m}) /\ <<m>> \in Seq({m}) /\ <<m, m>> \in Seq({m})
        /\ Len(<<>>) = 0 /\ Len(<<m>>) = 1 /\ Len(<<m, m>>) = 2
        /\ <<m>>[1] = m /\ <<m, m>>[1] = m /\ <<m, m>>[2] = m
    OBVIOUS
  <2>2. ASSUME NEW s \in Seq({m})
        PROVE  /\ Append(s, m) \in Seq({m}) /\ Len(Append(s, m)) = Len(s) + 1
               /\ \A i \in 1..(Len(s) + 1) : Append(s, m)[i] = m
    <3>1. \A i \in 1..Len(s) : s[i] = m
      BY ElementOfSeq
    <3> QED BY <3>1, AppendProperties
  <2>3. Append(<<>>, m) = <<m>>
    BY <2>1, <2>2, SeqEqual
  <2>4. Append(<<m>>, m) = <<m, m>>
    <3>1. /\ Append(<<m>>, m) \in Seq({m}) /\ Len(Append(<<m>>, m)) = 2
          /\ \A i \in 1..2 : Append(<<m>>, m)[i] = m
      BY <2>1, <2>2
    <3>2. \A i \in 1..2 : <<m, m>>[i] = m
      OBVIOUS
    <3> QED BY <2>1, <3>1, <3>2, SeqEqual
  <2> QED BY <2>3, <2>4
<1>4. ValidHistory(<<User, User>>)
  <2>1. ASSUME NEW ms \in Messages, ValidHistory(ms) PROVE ValidHistory(Append(ms, User))
    BY <1>1, <2>1, ValidAppendPlain
  <2> QED BY <1>2, <1>3, <2>1, NoMessages
<1>5. Talk(<<User, User>>) = {}
  <2>1. \A x \in Range(<<User, User>>) : x = User
    BY DEF Range
  <2> QED BY <1>1, <2>1 DEF Talk
<1> QED BY <1>2, <1>4, <1>5

\* The run starts.
LEMMA StartRunKeeps ==
    ASSUME AgentInv, StartRun PROVE QuietStep
<1>1. /\ run.state = "none" /\ ~Live /\ UNCHANGED <<flight, staging, orphans>>
      /\ run' = [Saved(<<User, User>>, Fresh, TRUE) EXCEPT !.state = "started"]
      /\ loop' = [NoLoop EXCEPT !.pc = "top", !.msgs = <<User, User>>]
      /\ budget' = Fresh /\ count' = [count EXCEPT !.rounds = @ + 1]
  BY DEF StartRun
<1>2. AgentTypeOK /\ LoopStands /\ BudgetKept
  BY DEF AgentInv
<1>3. flight = <<>> /\ loop.turn = 0
  BY <1>1, <1>2 DEF LoopStands, Live
<1> DEFINE ms == <<User, User>>
<1>4. ms \in Messages /\ ValidHistory(ms) /\ Talk(ms) = {}
  BY FirstHistory
<1>m. /\ run' = [Saved(ms, Fresh, TRUE) EXCEPT !.state = "started"]
      /\ loop' = [NoLoop EXCEPT !.pc = "top", !.msgs = ms]
  BY <1>1
<1> HIDE DEF ms
<1>5. /\ run' \in RunType /\ run'.state = "started" /\ run'.safe
      /\ run'.snap.msgs = ms /\ run'.snap.budget = Fresh
  <2>1. /\ Saved(ms, Fresh, TRUE) \in RunType /\ Saved(ms, Fresh, TRUE).safe = TRUE
        /\ Saved(ms, Fresh, TRUE).snap.msgs = ms /\ Saved(ms, Fresh, TRUE).snap.budget = Fresh
    <3>1. run \in RunType /\ Fresh \in BudgetType /\ TRUE \in BOOLEAN
      BY <1>2, FreshIs DEF AgentTypeOK
    <3> HIDE DEF Fresh
    <3>2. Saved(ms, Fresh, TRUE) \in RunType /\ Saved(ms, Fresh, TRUE).safe = TRUE
      BY ONLY <1>4, <3>1, SavedIs
    <3>3. Saved(ms, Fresh, TRUE).snap.msgs = ms /\ Saved(ms, Fresh, TRUE).snap.budget = Fresh
      BY ONLY <3>1 DEF Saved, RunType
    <3> QED BY <3>2, <3>3
  <2> QED BY <1>m, <2>1 DEF RunType
<1>6. /\ loop' \in LoopType /\ loop'.pc = "top" /\ loop'.msgs = ms
      /\ loop'.rest = <<>> /\ loop'.turn = 0 /\ loop'.empty = FALSE
  <2>1. <<>> \in Seq(CallType)
    OBVIOUS
  <2> QED BY <1>m, <1>4, <2>1 DEF NoLoop, LoopType
<1>7. /\ count' \in CountType /\ count'.paid = count.paid /\ count'.faults = count.faults
  BY <1>1, <1>2 DEF AgentTypeOK, CountType
<1>8. count.paid = 0
  BY <1>1, <1>2 DEF BudgetKept
<1>9. Behind' = 0
  BY <1>6 DEF Behind
<1>10. /\ budget' \in BudgetType /\ budget'.iter = 0 /\ 0 < MaxIterations
       /\ count'.paid <= budget'.iter + 2 * count'.faults
  <2>1. budget' \in BudgetType /\ budget'.iter = 0
    BY <1>1, FreshIs
  <2>2. 0 < MaxIterations
    BY LoopLimits
  <2>3. count.faults \in Nat
    BY <1>2, PartsAre
  <2>4. count'.paid <= budget'.iter + 2 * count'.faults
    BY ONLY <1>7, <1>8, <2>1, <2>3
  <2> QED BY <2>1, <2>2, <2>4
<1>11. /\ ValidHistory(loop'.msgs) /\ Talk(loop'.msgs) \subseteq Said
       /\ Talk(run'.snap.msgs) \subseteq Said /\ ValidHistory(run'.snap.msgs)
  BY <1>4, <1>5, <1>6
<1>12. /\ run'.safe <=> loop'.pc # "offer"
       /\ run'.snap.budget.iter < MaxIterations /\ loop'.turn = loop.turn
       /\ budget'.iter <= run'.snap.budget.iter + Behind'
  <2>1. run'.snap.budget.iter = 0 /\ budget'.iter = 0 /\ Behind' = 0 /\ 0 < MaxIterations
    BY <1>5, <1>9, <1>10, FreshIs
  <2>2. budget'.iter <= run'.snap.budget.iter + Behind'
    BY <2>1
  <2>3. run'.safe <=> loop'.pc # "offer"
    BY <1>5, <1>6
  <2> QED BY <1>3, <1>6, <2>1, <2>2, <2>3
<1> QED BY <1>1, <1>3, <1>5, <1>6, <1>7, <1>10, <1>11, <1>12, GoesOnKeeps

\* A message that is no talk of calls joins a history.
LEMMA PlainJoins ==
    ASSUME NEW ms \in Messages, ValidHistory(ms),
           NEW m \in {User, Assistant(<<>>)}
    PROVE  /\ Append(ms, m) \in Messages /\ ValidHistory(Append(ms, m))
           /\ Talk(Append(ms, m)) \subseteq Talk(ms)
<1>1. m \in MessageType /\ m.role # "tool" /\ m.calls = <<>>
  <2>1. <<>> \in Seq(CallType)
    OBVIOUS
  <2>2. User \in MessageType /\ User.role = "user" /\ User.calls = <<>>
    BY MessagesAre
  <2>3. /\ Assistant(<<>>) \in MessageType /\ Assistant(<<>>).role = "assistant"
        /\ Assistant(<<>>).calls = <<>>
    BY <2>1 DEF Assistant, User, MessageType
  <2>4. m = User \/ m = Assistant(<<>>)
    OBVIOUS
  <2> QED BY <2>2, <2>3, <2>4
<1>2. Append(ms, m) \in Messages /\ ValidHistory(Append(ms, m))
  BY <1>1, ValidAppendPlain
<1>3. Talk(Append(ms, m)) \subseteq Talk(ms)
  BY <1>1, TalkAppends
<1> QED BY <1>2, <1>3

\* The run is taken up: what its snapshot paid for stays paid for, unless the
\* budget was why it stopped.
LEMMA ResumeRunKeeps ==
    ASSUME AgentInv, ResumeRun PROVE QuietStep
<1> DEFINE b == BudgetOnResume(run.why, run.snap.budget)
           ms == Append(run.snap.msgs, User)
<1>1. /\ run.state = "paused" /\ run.safe /\ ~Live /\ UNCHANGED <<flight, staging, orphans>>
      /\ run' = [Saved(ms, b, TRUE) EXCEPT !.state = "started"]
      /\ loop' = [NoLoop EXCEPT !.pc = "top", !.msgs = ms, !.turn = loop.turn]
      /\ budget' = b
      /\ count' = [count EXCEPT !.rounds = @ + 1,
                     !.paid = IF run.why = "budget" THEN 0 ELSE @]
  BY DEF ResumeRun
<1>2. /\ AgentTypeOK /\ LoopStands /\ BudgetKept /\ ValidHistory(run.snap.msgs)
  BY <1>1 DEF AgentInv, HistoryKept
<1>3. flight = <<>>
  BY <1>1, <1>2 DEF LoopStands, Live
<1>4. ms \in Messages /\ ValidHistory(ms) /\ Talk(ms) \subseteq Said
  <2>1. run.snap.msgs \in Messages
    BY <1>2, PartsAre
  <2>2. ms \in Messages /\ ValidHistory(ms) /\ Talk(ms) \subseteq Talk(run.snap.msgs)
    BY <1>2, <2>1, PlainJoins
  <2> QED BY <2>2 DEF Said
<1>5. /\ run.why = "budget" => b = Fresh
      /\ run.why # "budget" => b = run.snap.budget
  BY DEF BudgetOnResume
<1>6. b \in BudgetType /\ b.iter \in Nat /\ b.iter < MaxIterations
  <2>1. CASE run.why = "budget"
    BY <1>5, <2>1, FreshIs, LoopLimits
  <2>2. CASE run.why # "budget"
    BY <1>2, <1>5, <2>2, PartsAre DEF BudgetKept
  <2> QED BY <2>1, <2>2
<1>7. /\ count' \in CountType /\ count'.faults = count.faults
      /\ count'.paid = IF run.why = "budget" THEN 0 ELSE count.paid
  <2>1. count \in CountType
    BY <1>2, PartsAre
  <2>2. count' = [count EXCEPT !.rounds = @ + 1,
                    !.paid = IF run.why = "budget" THEN 0 ELSE @]
    BY <1>1
  <2>3. count'.faults = count.faults
    BY <2>1, <2>2 DEF CountType
  <2>4. count'.paid = IF run.why = "budget" THEN 0 ELSE count.paid
    BY <2>1, <2>2 DEF CountType
  <2>5. count' \in CountType
    <3> DEFINE one == [count EXCEPT !.rounds = @ + 1]
               n == IF run.why = "budget" THEN 0 ELSE count.paid
    <3>1. one \in CountType
      BY <2>1 DEF CountType
    <3>2. n \in Nat
      BY <1>2, PartsAre
    <3>3. count' = [one EXCEPT !.paid = n]
      BY <2>2
    <3> HIDE DEF one, n
    <3> QED BY <3>1, <3>2, <3>3 DEF CountType
  <2> QED BY <2>3, <2>4, <2>5
<1>8. count'.paid <= b.iter + 2 * count'.faults
  <2>1. count.faults \in Nat
    BY <1>2, PartsAre
  <2>2. CASE run.why = "budget"
    BY <1>6, <1>7, <2>1, <2>2
  <2>3. CASE run.why # "budget"
    <3>1. count.paid <= run.snap.budget.iter + 2 * count.faults
      BY <1>1, <1>2, <2>3 DEF BudgetKept
    <3> QED BY <1>5, <1>7, <2>3, <3>1
  <2> QED BY <2>2, <2>3
<1> HIDE DEF b, ms
<1>9. /\ run' \in RunType /\ run'.state = "started" /\ run'.safe
      /\ run'.snap.msgs = ms /\ run'.snap.budget = b
  <2>1. run \in RunType /\ TRUE \in BOOLEAN
    BY <1>2, PartsAre
  <2>2. /\ Saved(ms, b, TRUE) \in RunType /\ Saved(ms, b, TRUE).safe = TRUE
        /\ Saved(ms, b, TRUE).snap.msgs = ms /\ Saved(ms, b, TRUE).snap.budget = b
    <3>1. Saved(ms, b, TRUE) \in RunType /\ Saved(ms, b, TRUE).safe = TRUE
      BY ONLY <1>4, <1>6, <2>1, SavedIs
    <3>2. Saved(ms, b, TRUE).snap.msgs = ms /\ Saved(ms, b, TRUE).snap.budget = b
      BY ONLY <2>1 DEF Saved, RunType
    <3> QED BY <3>1, <3>2
  <2>3. run' = [Saved(ms, b, TRUE) EXCEPT !.state = "started"]
    BY <1>1
  <2> QED BY <2>2, <2>3 DEF RunType
<1>10. /\ loop' \in LoopType /\ loop'.pc = "top" /\ loop'.msgs = ms
       /\ loop'.rest = <<>> /\ loop'.turn = loop.turn /\ loop'.empty = FALSE
  <2>1. <<>> \in Seq(CallType) /\ loop.turn \in Nat
    BY <1>2, PartsAre
  <2> QED BY <1>1, <1>4, <2>1 DEF NoLoop, LoopType
<1>11. Behind' = 0
  BY <1>10 DEF Behind
<1>12. /\ budget' = b /\ budget'.iter <= run'.snap.budget.iter + Behind'
       /\ run'.safe <=> loop'.pc # "offer"
  <2>1. budget' = b
    BY <1>1
  <2>2. budget'.iter <= run'.snap.budget.iter + Behind'
    BY <1>6, <1>9, <1>11, <2>1
  <2>3. run'.safe <=> loop'.pc # "offer"
    BY <1>9, <1>10
  <2> QED BY <2>1, <2>2, <2>3
<1> QED BY <1>1, <1>3, <1>4, <1>6, <1>7, <1>8, <1>9, <1>10, <1>12, GoesOnKeeps

\* A live run between its tools.
LEMMA BetweenTools ==
    ASSUME AgentInv, loop.pc \in {"top", "compact", "turn", "summary", "offer"}
    PROVE  /\ Live /\ AgentTypeOK /\ LoopStands /\ BudgetKept
           /\ run \in RunType /\ run.state = "started" /\ run.safe = (loop.pc # "offer")
           /\ flight = <<>> /\ loop.rest = <<>>
           /\ loop.msgs \in Messages /\ ValidHistory(loop.msgs)
           /\ FillMissing(loop.msgs) = loop.msgs
           /\ Talk(loop.msgs) \subseteq Said /\ Talk(run.snap.msgs) \subseteq Said
           /\ run.safe => ValidHistory(run.snap.msgs)
           /\ budget \in BudgetType /\ count \in CountType
           /\ budget.iter \in Nat /\ run.snap.budget.iter \in Nat
           /\ count.paid \in Nat /\ count.faults \in Nat
           /\ budget.iter < MaxIterations /\ run.snap.budget.iter < MaxIterations
           /\ count.paid <= budget.iter + 2 * count.faults
           /\ budget.iter <= run.snap.budget.iter + Behind
           /\ BudgetHolds
<1>1. Live
  BY DEF Live
<1>2. AgentTypeOK
  BY DEF AgentInv
<1>3. run.safe = (loop.pc # "offer")
  <2>1. run.safe \in BOOLEAN
    BY <1>2, PartsAre
  <2>2. run.safe <=> loop.pc # "offer"
    BY <1>1 DEF AgentInv, LoopStands
  <2> QED BY <2>1, <2>2
<1>4. /\ LoopStands /\ BudgetKept /\ run.state = "started"
      /\ budget.iter < MaxIterations /\ run.snap.budget.iter < MaxIterations
      /\ count.paid <= budget.iter + 2 * count.faults
      /\ budget.iter <= run.snap.budget.iter + Behind /\ BudgetHolds
  BY <1>1, LiveRun
<1>5. /\ flight = <<>> /\ loop.rest = <<>> /\ ValidHistory(loop.msgs)
      /\ FillMissing(loop.msgs) = loop.msgs
      /\ run.safe => ValidHistory(run.snap.msgs)
      /\ Talk(loop.msgs) \subseteq Said /\ Talk(run.snap.msgs) \subseteq Said
  BY <1>1, LiveRun
<1>6. /\ run \in RunType /\ loop.msgs \in Messages
      /\ budget \in BudgetType /\ count \in CountType
      /\ budget.iter \in Nat /\ run.snap.budget.iter \in Nat
      /\ count.paid \in Nat /\ count.faults \in Nat
  BY <1>2, PartsAre
<1> QED BY <1>1, <1>2, <1>3, <1>4, <1>5, <1>6

\* A compaction starts.
LEMMA CompactStartKeeps ==
    ASSUME AgentInv, CompactStart PROVE QuietStep
<1>1. loop.pc = "top" /\ Goto("compact", loop.msgs)
      /\ UNCHANGED <<run, budget, flight, staging, orphans, count>>
  BY DEF CompactStart
<1>2. /\ loop' \in LoopType /\ loop'.pc = "compact" /\ loop'.msgs = loop.msgs
      /\ loop'.rest = loop.rest /\ loop'.turn = loop.turn /\ loop'.empty = loop.empty
  BY <1>1, BetweenTools, GotoIs
<1>3. Behind' = Behind
  BY <1>1, <1>2 DEF Behind
<1> QED BY <1>1, <1>2, <1>3, BetweenTools, GoesOnKeeps

\* A steering message joins the history.
LEMMA SteeredKeeps ==
    ASSUME AgentInv, Steered PROVE QuietStep
<1> DEFINE ms == Append(loop.msgs, User)
<1>1. loop.pc = "top" /\ Goto("top", ms)
      /\ UNCHANGED <<run, budget, flight, staging, orphans>>
      /\ count' = [count EXCEPT !.steers = @ + 1]
  BY DEF Steered
<1>2. ms \in Messages /\ ValidHistory(ms) /\ Talk(ms) \subseteq Talk(loop.msgs)
  BY <1>1, BetweenTools, PlainJoins
<1> HIDE DEF ms
<1>3. /\ loop' \in LoopType /\ loop'.pc = "top" /\ loop'.msgs = ms
      /\ loop'.rest = loop.rest /\ loop'.turn = loop.turn /\ loop'.empty = loop.empty
  BY <1>1, <1>2, BetweenTools, GotoIs
<1>4. Behind' = Behind
  BY <1>1, <1>3 DEF Behind
<1>5. count' \in CountType /\ count'.paid = count.paid /\ count'.faults = count.faults
  <2>1. count \in CountType
    BY <1>1, BetweenTools
  <2> QED BY <1>1, <2>1 DEF CountType
<1> QED BY <1>1, <1>2, <1>3, <1>4, <1>5, BetweenTools, GoesOnKeeps

\* The next turn starts, or the summary that ends the run.
LEMMA NextTurnKeeps ==
    ASSUME AgentInv, loop.pc \in {"top", "compact"}, NEW ms \in Messages, ValidHistory(ms),
           Talk(ms) \subseteq Said, NEW b \in BudgetType, b.iter = budget.iter,
           NextTurn(ms, b), UNCHANGED <<run, flight, staging, orphans>>
    PROVE  QuietStep
<1>1. /\ AgentTypeOK /\ loop.empty \in BOOLEAN /\ b.iter < MaxIterations
  BY BetweenTools, PartsAre DEF AgentInv
<1>2. /\ loop' \in LoopType /\ loop'.msgs = ms
      /\ loop'.rest = loop.rest /\ loop'.turn = loop.turn /\ loop'.empty = loop.empty
      /\ budget' \in BudgetType /\ count' \in CountType
      /\ count'.faults = count.faults
  BY <1>1, NextTurnIs
<1>3. \/ loop'.pc = "summary" /\ budget'.iter = b.iter /\ count'.paid = count.paid
      \/ /\ loop'.pc = "turn" /\ budget'.iter = b.iter + 1
         /\ count'.paid = count.paid + 1 /\ b.iter + 1 < MaxIterations
  BY <1>1, NextTurnIs
<1>4. /\ flight = <<>> /\ loop.rest = <<>> /\ run \in RunType /\ run.state = "started"
      /\ run.safe = TRUE
      /\ ValidHistory(run.snap.msgs) /\ Talk(run.snap.msgs) \subseteq Said
      /\ budget.iter \in Nat /\ run.snap.budget.iter \in Nat
      /\ count.paid \in Nat /\ count.faults \in Nat
      /\ budget.iter < MaxIterations /\ run.snap.budget.iter < MaxIterations
      /\ count.paid <= budget.iter + 2 * count.faults
      /\ budget.iter <= run.snap.budget.iter + Behind
  BY BetweenTools
<1>5. Behind = IF loop.empty THEN 1 ELSE 0
  BY DEF Behind
<1>6. /\ loop'.pc = "turn" => Behind' = IF loop.empty THEN 2 ELSE 1
      /\ loop'.pc = "summary" => Behind' = 2
  BY <1>2 DEF Behind
<1>7. /\ budget'.iter < MaxIterations
      /\ count'.paid <= budget'.iter + 2 * count'.faults
  BY <1>1, <1>2, <1>3, <1>4
<1>8. budget'.iter <= run.snap.budget.iter + Behind'
  <2>1. CASE loop.empty
    BY <1>3, <1>4, <1>5, <1>6, <2>1
  <2>2. CASE ~loop.empty
    BY <1>3, <1>4, <1>5, <1>6, <2>2
  <2> QED BY <2>1, <2>2
<1>9. /\ run' = run /\ run'.state = "started" /\ run'.safe <=> loop'.pc # "offer"
      /\ loop'.pc \in {"top", "compact", "turn", "offer", "summary"}
  BY <1>3, <1>4
<1> QED BY <1>2, <1>4, <1>7, <1>8, <1>9, GoesOnKeeps

\* A turn starts.
LEMMA TurnStartKeeps ==
    ASSUME AgentInv, TurnStart PROVE QuietStep
<1>1. loop.pc = "top" /\ NextTurn(loop.msgs, budget)
      /\ UNCHANGED <<run, flight, staging, orphans>>
  BY DEF TurnStart
<1> QED BY <1>1, BetweenTools, NextTurnKeeps

\* The run's budget is spent.
LEMMA OverspentKeeps ==
    ASSUME AgentInv, loop.pc \in {"compact", "turn"}, NEW b \in BudgetType,
           b.iter = budget.iter, Overspent(loop.msgs, b)
    PROVE  QuietStep
<1>1. /\ AgentTypeOK /\ Live /\ loop.msgs \in Messages /\ ValidHistory(loop.msgs)
      /\ FillMissing(loop.msgs) = loop.msgs
      /\ budget.iter < MaxIterations /\ BudgetHolds /\ count \in CountType
      /\ Talk(loop.msgs) \subseteq Said
  BY BetweenTools
<1>2. /\ run' \in RunType /\ run'.state = "paused" /\ run'.safe /\ run'.why = "budget"
      /\ run'.snap.budget = b
      /\ ValidHistory(run'.snap.msgs) /\ Talk(run'.snap.msgs) \subseteq Talk(loop.msgs)
      /\ Stops /\ UNCHANGED <<staging, orphans, count>>
  BY <1>1, OverspentIs
<1>3. BudgetHolds'
  BY <1>1, <1>2 DEF BudgetHolds
<1> QED BY <1>1, <1>2, <1>3, StoppedKeeps

\* A compaction ends.
LEMMA CompactEndKeeps ==
    ASSUME AgentInv, CompactEnd PROVE QuietStep
<1>1. loop.pc = "compact"
  BY DEF CompactEnd
<1>2. PICK b \in Later(budget), ms \in Compacted(loop.msgs) :
         IF Exceeded(b) THEN Overspent(loop.msgs, b)
         ELSE NextTurn(ms, b) /\ UNCHANGED <<run, flight, staging, orphans>>
  BY DEF CompactEnd
<1>3. /\ budget \in BudgetType /\ loop.msgs \in Messages /\ ValidHistory(loop.msgs)
      /\ Talk(loop.msgs) \subseteq Said
  BY <1>1, BetweenTools
<1>4. b \in BudgetType /\ b.iter = budget.iter
  BY <1>2, <1>3, LaterIs
<1>5. ms \in Messages /\ ValidHistory(ms) /\ Talk(ms) \subseteq Talk(loop.msgs)
  BY <1>2, <1>3, CompactedIs
<1>6. CASE Exceeded(b)
  BY <1>1, <1>2, <1>4, <1>6, OverspentKeeps
<1>7. CASE ~Exceeded(b)
  BY <1>1, <1>2, <1>3, <1>4, <1>5, <1>7, NextTurnKeeps
<1> QED BY <1>6, <1>7

\* A turn takes its time.
LEMMA TurnLateKeeps ==
    ASSUME AgentInv, TurnLate PROVE QuietStep
<1>1. loop.pc = "turn"
  BY DEF TurnLate
<1>2. PICK b \in Later(budget) :
         IF Exceeded(b) THEN Overspent(loop.msgs, b)
         ELSE budget' = b /\ UNCHANGED <<run, loop, flight, staging, orphans, count>>
  BY DEF TurnLate
<1>3. budget \in BudgetType
  BY <1>1, BetweenTools
<1>4. b \in BudgetType /\ b.iter = budget.iter
  BY <1>2, <1>3, LaterIs
<1>5. CASE Exceeded(b)
  BY <1>1, <1>2, <1>4, <1>5, OverspentKeeps
<1>6. CASE ~Exceeded(b)
  <2>1. budget' = b /\ UNCHANGED <<run, loop, flight, staging, orphans, count>>
    BY <1>2, <1>6
  <2>2. Behind' = Behind
    BY <2>1 DEF Behind
  <2>3. loop \in LoopType
    BY <1>1, BetweenTools, PartsAre
  <2> QED BY <1>1, <1>4, <2>1, <2>2, <2>3, BetweenTools, GoesOnKeeps
<1> QED BY <1>5, <1>6

\* A reply that says nothing: tried once more, then the run pauses.
LEMMA ReplyEmptyKeeps ==
    ASSUME AgentInv, ReplyEmpty PROVE QuietStep
<1>1. loop.pc = "turn" /\ UNCHANGED <<staging, orphans, count>>
  BY DEF ReplyEmpty
<1>2. /\ AgentTypeOK /\ Live /\ loop \in LoopType /\ loop.msgs \in Messages
  BY <1>1, BetweenTools, PartsAre
<1>3. CASE loop.empty
  <2>1. run' = PausedAt(loop.msgs, budget, "empty_reply") /\ Stops
    BY <1>3 DEF ReplyEmpty
  <2>2. /\ run' \in RunType /\ run'.state = "paused" /\ run'.safe
        /\ run'.snap.msgs = loop.msgs /\ run'.snap.budget = budget
    BY <1>1, <2>1, BetweenTools, PausedIs
  <2>3. BudgetHolds' /\ count' \in CountType
        /\ count'.paid <= budget.iter + 2 * count'.faults
    BY <1>1, BetweenTools DEF BudgetHolds
  <2> QED BY <1>1, <1>2, <2>1, <2>2, <2>3, BetweenTools, StoppedKeeps
<1>4. CASE ~loop.empty
  <2> DEFINE ms == Append(loop.msgs, User)
  <2>1. /\ loop' = [loop EXCEPT !.pc = "top", !.empty = TRUE, !.msgs = ms]
        /\ UNCHANGED <<run, budget, flight>>
    BY <1>4 DEF ReplyEmpty
  <2>2. ms \in Messages /\ ValidHistory(ms) /\ Talk(ms) \subseteq Talk(loop.msgs)
    BY <1>1, BetweenTools, PlainJoins
  <2> HIDE DEF ms
  <2>3. /\ loop' \in LoopType /\ loop'.pc = "top" /\ loop'.msgs = ms /\ loop'.empty = TRUE
        /\ loop'.rest = loop.rest /\ loop'.turn = loop.turn
    BY <1>2, <2>1, <2>2 DEF LoopType
  <2>4. Behind' = Behind
    BY <1>1, <1>4, <2>3 DEF Behind
  <2>5. run'.safe <=> loop'.pc # "offer"
    BY <1>1, <2>1, <2>3, BetweenTools
  <2> QED BY <1>1, <2>1, <2>2, <2>3, <2>4, <2>5, BetweenTools, GoesOnKeeps
<1> QED BY <1>3, <1>4

\* A final answer: the run completes, after the offer to publish if there is
\* something to publish.
LEMMA ReplyFinalKeeps ==
    ASSUME AgentInv, ReplyFinal PROVE QuietStep
<1> DEFINE ms == Append(loop.msgs, Assistant(<<>>))
           saved == Saved(ms, budget, FALSE)
<1>1. loop.pc = "turn" /\ UNCHANGED <<staging, orphans, count>>
  BY DEF ReplyFinal
<1>2. ms \in Messages /\ ValidHistory(ms) /\ Talk(ms) \subseteq Talk(loop.msgs)
  BY <1>1, BetweenTools, PlainJoins
<1>3. /\ saved \in RunType /\ saved.state = run.state /\ saved.safe = FALSE
      /\ saved.snap.msgs = ms /\ saved.snap.budget = budget
  BY <1>1, <1>2, BetweenTools, SavedIs
<1>4. CASE loop.mutated
  <2>1. run' = saved /\ Goto("offer", ms) /\ UNCHANGED <<budget, flight>>
    BY <1>4 DEF ReplyFinal
  <2> HIDE DEF ms, saved
  <2>2. /\ loop' \in LoopType /\ loop'.pc = "offer" /\ loop'.msgs = ms
        /\ loop'.rest = loop.rest /\ loop'.turn = loop.turn
    BY <1>1, <1>2, <2>1, BetweenTools, GotoIs
  <2>3. Behind' = 0
    BY <2>2 DEF Behind
  <2>4. /\ budget'.iter <= run'.snap.budget.iter + Behind'
        /\ run'.snap.budget.iter < MaxIterations
    BY <1>1, <1>3, <2>1, <2>3, BetweenTools
  <2>5. run' \in RunType /\ run'.state = "started" /\ ~run'.safe
    BY <1>1, <1>3, <2>1, BetweenTools
  <2> QED BY <1>1, <1>2, <1>3, <2>1, <2>2, <2>4, <2>5, BetweenTools, GoesOnKeeps
<1>5. CASE ~loop.mutated
  <2>1. run' = [saved EXCEPT !.state = "completed"] /\ Stops
    BY <1>5 DEF ReplyFinal
  <2> HIDE DEF ms, saved
  <2>2. /\ run' \in RunType /\ run'.state = "completed" /\ ~run'.safe
        /\ run'.snap.msgs = ms /\ run'.snap.budget = budget
    BY <1>3, <2>1 DEF RunType
  <2>3. BudgetHolds' /\ count' \in CountType
    BY <1>1, BetweenTools DEF BudgetHolds
  <2> QED BY <1>1, <1>2, <2>1, <2>2, <2>3, BetweenTools, StoppedKeeps
<1> QED BY <1>4, <1>5

\* The offer to publish ends the run.
LEMMA OfferKeeps ==
    ASSUME AgentInv, Offer PROVE QuietStep
<1>1. loop.pc = "offer" /\ count' = count
  BY DEF Offer
<1>2. BudgetHolds' /\ count' \in CountType
  BY <1>1, BetweenTools DEF BudgetHolds
<1>3. AgentTypeOK /\ Live /\ run \in RunType /\ run.safe = FALSE
  BY <1>1, BetweenTools
<1>4. CASE EndRun("failed")
  <2>1. /\ run' \in RunType /\ run'.state = "failed" /\ run'.safe = run.safe
        /\ run'.snap = run.snap /\ orphans' = orphans \cup LeftBehind
        /\ Stops /\ staging' = staging
    BY <1>3, <1>4, EndRunIs
  <2> QED BY <1>1, <1>2, <1>3, <2>1, BetweenTools, StoppedKeeps
<1>5. CASE run' = [run EXCEPT !.state = "completed", !.offered = TRUE]
           /\ Stops /\ UNCHANGED <<staging, orphans, count>>
  <2>1. /\ run' \in RunType /\ run'.state = "completed" /\ run'.safe = FALSE
        /\ run'.snap = run.snap
    BY <1>3, <1>5 DEF RunType
  <2> QED BY <1>1, <1>2, <1>3, <1>5, <2>1, BetweenTools, StoppedKeeps
<1> QED BY <1>4, <1>5 DEF Offer

\* Two sequences of one element each.
LEMMA PairIsConcat ==
    ASSUME NEW a, NEW b PROVE <<a>> \o <<b>> = <<a, b>>
<1> DEFINE both == <<a>> \o <<b>>
<1>1. /\ <<a>> \in Seq({a, b}) /\ <<b>> \in Seq({a, b}) /\ <<a, b>> \in Seq({a, b})
      /\ Len(<<a>>) = 1 /\ Len(<<b>>) = 1 /\ Len(<<a, b>>) = 2
      /\ <<a>>[1] = a /\ <<b>>[1] = b /\ <<a, b>>[1] = a /\ <<a, b>>[2] = b
  OBVIOUS
<1>2. /\ both \in Seq({a, b}) /\ Len(both) = Len(<<a>>) + Len(<<b>>)
      /\ \A i \in 1..(Len(<<a>>) + Len(<<b>>)) :
            both[i] = IF i <= Len(<<a>>) THEN <<a>>[i] ELSE <<b>>[i - Len(<<a>>)]
  BY <1>1, ConcatProperties
<1> HIDE DEF both
<1>3. Len(both) = 2 /\ both[1] = a /\ both[2] = b
  BY <1>1, <1>2
<1>4. \A i \in 1..2 : both[i] = <<a, b>>[i]
  <2>1. \A i \in 1..2 : i = 1 \/ i = 2
    OBVIOUS
  <2> QED BY <1>1, <1>3, <2>1
<1> QED BY <1>1, <1>2, <1>3, <1>4, SeqEqual DEF both

\* The summary of a run whose budget, or progress, is at its end.
LEMMA WindDownKeeps ==
    ASSUME AgentInv, WindDown PROVE QuietStep
<1>1. loop.pc = "summary" /\ Stops /\ UNCHANGED <<staging, orphans>>
      /\ count' = [count EXCEPT !.paid = @ + (IF loop.why = "budget" THEN 1 ELSE 0)]
  BY DEF WindDown
<1>2. PICK b \in Later(budget), text \in {<<User, Assistant(<<>>)>>, <<Assistant(<<>>)>>} :
         run' = PausedAt(loop.msgs \o text, b, loop.why)
  BY DEF WindDown
<1>3. /\ AgentTypeOK /\ Live /\ budget \in BudgetType /\ loop.msgs \in Messages
      /\ ValidHistory(loop.msgs) /\ run \in RunType /\ Talk(loop.msgs) \subseteq Said
  BY <1>1, BetweenTools
<1>4. b \in BudgetType /\ b.iter = budget.iter
  BY <1>2, <1>3, LaterIs
<1>5. loop.why \in {"budget", "no_progress"}
  BY <1>3 DEF AgentTypeOK, LoopType
<1> DEFINE ms == loop.msgs \o text
           closing == Assistant(<<>>)
<1>6. ms \in Messages /\ ValidHistory(ms) /\ Talk(ms) \subseteq Talk(loop.msgs)
  <2>1. ASSUME NEW m \in {User, closing}, NEW h \in Messages, ValidHistory(h)
        PROVE  /\ Append(h, m) \in Messages /\ ValidHistory(Append(h, m))
               /\ Talk(Append(h, m)) \subseteq Talk(h) /\ Append(h, m) = h \o <<m>>
    <3>1. m \in MessageType /\ h \in Seq(MessageType)
      <4>1. <<>> \in Seq(CallType)
        OBVIOUS
      <4>2. closing \in MessageType
        BY <4>1, MessagesAre
      <4>3. User \in MessageType
        BY MessagesAre
      <4> QED BY <4>2, <4>3 DEF Messages
    <3>2. Append(h, m) = h \o <<m>>
      BY <3>1, AppendIsConcat
    <3> QED BY <2>1, <3>2, PlainJoins
  <2> HIDE DEF closing
  <2>2. CASE text = <<closing>>
    BY <1>3, <2>1, <2>2
  <2>3. CASE text = <<User, closing>>
    <3>1. loop.msgs \o <<User>> \in Messages /\ ValidHistory(loop.msgs \o <<User>>)
          /\ Talk(loop.msgs \o <<User>>) \subseteq Talk(loop.msgs)
      BY <1>3, <2>1
    <3>2. (loop.msgs \o <<User>>) \o <<closing>> = loop.msgs \o text
      <4>1. <<User>> \o <<closing>> = <<User, closing>>
        BY PairIsConcat
      <4>2. <<User>> \in Seq({User, closing} \cup MessageType)
            /\ <<closing>> \in Seq({User, closing} \cup MessageType)
        OBVIOUS
      <4>3. loop.msgs \in Seq({User, closing} \cup MessageType)
        BY <1>3, SeqMonotonic DEF Messages
      <4> QED BY <2>3, <4>1, <4>2, <4>3, ConcatAssociative
    <3>3. /\ (loop.msgs \o <<User>>) \o <<closing>> \in Messages
          /\ ValidHistory((loop.msgs \o <<User>>) \o <<closing>>)
          /\ Talk((loop.msgs \o <<User>>) \o <<closing>>) \subseteq Talk(loop.msgs \o <<User>>)
      BY <2>1, <3>1
    <3> QED BY <3>1, <3>2, <3>3
  <2> QED BY <2>2, <2>3 DEF closing
<1> HIDE DEF ms
<1>7. /\ run' \in RunType /\ run'.state = "paused" /\ run'.safe /\ run'.why = loop.why
      /\ run'.snap.msgs = ms /\ run'.snap.budget = b
  <2>1. run' = PausedAt(ms, b, loop.why)
    BY <1>2 DEF ms
  <2> QED BY <1>3, <1>4, <1>5, <1>6, <2>1, PausedIs
<1>8. /\ count' \in CountType /\ count'.faults = count.faults
      /\ count'.paid = count.paid + (IF loop.why = "budget" THEN 1 ELSE 0)
  <2> DEFINE price == IF loop.why = "budget" THEN 1 ELSE 0
  <2>1. count' = [count EXCEPT !.paid = @ + price] /\ price \in Nat
    BY <1>1
  <2>2. count \in CountType
    BY <1>3, PartsAre
  <2> HIDE DEF price
  <2>3. count' \in CountType /\ count'.faults = count.faults /\ count'.paid = count.paid + price
    BY ONLY <2>1, <2>2 DEF CountType
  <2> QED BY <2>3 DEF price
<1>9. /\ count.paid <= budget.iter + 2 * count.faults /\ budget.iter < MaxIterations
      /\ count.paid \in Nat /\ count.faults \in Nat /\ budget.iter \in Nat
  BY <1>1, BetweenTools
<1>10. BudgetHolds'
  <2>1. count'.paid <= MaxIterations + 2 * count'.faults
    BY <1>8, <1>9, LoopLimits
  <2> QED BY <2>1 DEF BudgetHolds
<1>11. run'.why # "budget" => count'.paid <= run'.snap.budget.iter + 2 * count'.faults
  BY <1>4, <1>7, <1>8, <1>9
<1>12. run'.snap.budget.iter < MaxIterations
  BY <1>4, <1>7, <1>9
<1> QED BY <1>1, <1>3, <1>6, <1>7, <1>8, <1>10, <1>11, <1>12, StoppedKeeps

\* A turn ends: its calls are answered and the snapshot is safe.
LEMMA TurnEndsKeeps ==
    ASSUME AgentInv, TurnEnds PROVE QuietStep
<1> DEFINE idle == IF loop.progressed THEN 0 ELSE loop.idle + 1
           pc == IF idle >= NoProgress THEN "summary" ELSE "top"
<1>1. /\ loop.pc = "tools" /\ loop.rest = <<>> /\ flight = <<>>
      /\ run' = Saved(loop.msgs, budget, TRUE)
      /\ UNCHANGED <<budget, flight, staging, orphans, count>>
  BY DEF TurnEnds
<1>2. loop' = [loop EXCEPT !.idle = idle, !.why = "no_progress", !.pc = pc]
  BY DEF TurnEnds
<1>3. Live
  BY <1>1 DEF Live
<1>4. /\ AgentTypeOK /\ LoopStands /\ HistoryKept /\ IdsKept /\ run.state = "started"
      /\ budget.iter < MaxIterations /\ count.paid <= budget.iter + 2 * count.faults
      /\ Talk(loop.msgs) \subseteq Said
  BY <1>3, LiveRun
<1>5. ValidHistory(loop.msgs)
  BY <1>1, <1>4, HistoryStands
<1>6. /\ loop \in LoopType /\ run \in RunType /\ budget \in BudgetType /\ count \in CountType
      /\ loop.msgs \in Messages /\ budget.iter \in Nat
  BY <1>4, PartsAre
<1>7. idle \in Nat
  BY <1>6 DEF LoopType
<1>8. pc \in {"summary", "top"}
  OBVIOUS
<1> HIDE DEF idle, pc
<1>9. /\ loop' \in LoopType /\ loop'.pc = pc /\ loop'.msgs = loop.msgs
      /\ loop'.rest = loop.rest /\ loop'.turn = loop.turn
  BY <1>2, <1>6, <1>7, <1>8 DEF LoopType
<1>10. /\ run' \in RunType /\ run'.state = run.state /\ run'.safe = TRUE
       /\ run'.snap.msgs = loop.msgs /\ run'.snap.budget = budget
  <2>1. TRUE \in BOOLEAN
    OBVIOUS
  <2>2. Saved(loop.msgs, budget, TRUE) \in RunType
    BY ONLY <1>6, <2>1, SavedIs
  <2>3. /\ Saved(loop.msgs, budget, TRUE).state = run.state
        /\ Saved(loop.msgs, budget, TRUE).safe = TRUE
    BY ONLY <1>6 DEF Saved, RunType
  <2>4. /\ Saved(loop.msgs, budget, TRUE).snap.msgs = loop.msgs
        /\ Saved(loop.msgs, budget, TRUE).snap.budget = budget
    BY ONLY <1>6 DEF Saved, RunType
  <2> QED BY ONLY <1>1, <2>2, <2>3, <2>4
<1>11. Behind' \in Nat
  BY DEF Behind
<1>12. budget'.iter <= run'.snap.budget.iter + Behind'
  <2>1. budget'.iter = budget.iter
    BY <1>1
  <2>2. run'.snap.budget.iter = budget.iter
    BY <1>10
  <2> QED BY <1>6, <1>11, <2>1, <2>2
<1>13. /\ run'.state = "started" /\ run'.safe <=> loop'.pc # "offer"
       /\ loop'.pc \in {"top", "compact", "turn", "offer", "summary"}
       /\ Talk(loop'.msgs) \subseteq Said /\ Talk(run'.snap.msgs) \subseteq Said
       /\ ValidHistory(loop'.msgs) /\ ValidHistory(run'.snap.msgs)
       /\ run'.snap.budget.iter < MaxIterations
  <2>1. run'.safe <=> loop'.pc # "offer"
    BY <1>8, <1>9, <1>10
  <2>2. loop'.pc \in {"top", "compact", "turn", "offer", "summary"}
    BY <1>8, <1>9
  <2>3. loop'.msgs = loop.msgs /\ run'.snap.msgs = loop.msgs /\ run'.snap.budget = budget
        /\ run'.state = "started"
    BY <1>4, <1>9, <1>10
  <2> QED BY <1>4, <1>5, <2>1, <2>2, <2>3
<1> QED BY <1>1, <1>4, <1>6, <1>9, <1>10, <1>12, <1>13, GoesOnKeeps

\* A call fails: what is left of its group only reads.
LEMMA CallFailsKeeps ==
    ASSUME AgentInv, NEW i \in DOMAIN flight, CallFails(i) PROVE QuietStep
<1>1. AgentTypeOK /\ LoopStands
  BY DEF AgentInv
<1>2. /\ CallStep(i) /\ flight'[i].at = "done"
      /\ run' \in RunType /\ run'.state = "failed" /\ run'.snap = run.snap
      /\ run'.safe = run.safe
      /\ loop' \in LoopType /\ loop'.pc = "none" /\ loop'.msgs = <<>>
      /\ loop'.rest = <<>> /\ loop'.turn = loop.turn
      /\ AtTools /\ orphans' \subseteq orphans \cup ToCome /\ orphans' \subseteq CallId
  BY <1>1, CallFailsIs
<1>3. budget' = Fresh /\ staging' = staging /\ count' = [count EXCEPT !.faults = @ + 1]
  BY DEF CallFails
<1>4. count' \in CountType /\ count'.faults = count.faults + 1 /\ count'.paid = count.paid
  BY <1>1, <1>3 DEF AgentTypeOK, CountType
<1>5. Live /\ loop.pc = "tools"
  BY <1>2 DEF Live, AtTools
<1>6. AgentTypeOK'
  <2>1. staging \in Seq(CallId)
    BY <1>1, PartsAre
  <2> QED BY <1>2, <1>3, <1>4, <2>1, FreshIs DEF AgentTypeOK, CallStep
<1>7. LoopStands'
  <2>1. \A j \in DOMAIN flight' : flight'[j].call = flight[j].call
    BY <1>2 DEF CallStep
  <2>2. \A j, k \in DOMAIN flight' : Mutates(flight'[j].call) => j = k
    BY <1>1, <1>2, <2>1 DEF LoopStands, CallStep
  <2>3. \A j \in DOMAIN flight' : Mutates(flight'[j].call) => flight'[j].at = "done"
    BY <1>2, <2>2 DEF CallStep
  <2> QED BY <1>2, <2>2, <2>3 DEF LoopStands, Live
<1>8. BudgetKept'
  <2>1. BudgetHolds /\ run.snap.budget.iter < MaxIterations
    BY <1>5, LiveRun
  <2>2. count.paid \in Nat /\ count.faults \in Nat
    BY <1>1, PartsAre
  <2>3. BudgetHolds'
    BY <1>4, <2>1, <2>2, LoopLimits DEF BudgetHolds
  <2>4. budget'.iter < MaxIterations
    BY <1>3, FreshIs, LoopLimits
  <2> QED BY <1>2, <2>1, <2>3, <2>4 DEF BudgetKept, Live
<1>9. Quiet
  <2>1. Said' = Talk(run.snap.msgs)
    BY <1>2, NoMessages DEF Said
  <2>2. run.safe => ValidHistory(run.snap.msgs)
    BY <1>5, LiveRun
  <2> QED BY <1>2, <1>3, <2>1, <2>2, NoMessages DEF Quiet
<1> QED BY <1>6, <1>7, <1>8, <1>9 DEF QuietStep

\* The reads of a group whose run has failed go on.
LEMMA LateCallKeeps ==
    ASSUME AgentInv, NEW i \in DOMAIN flight, LateCall(i) PROVE QuietStep
<1>1. AgentTypeOK /\ LoopStands /\ BudgetKept /\ HistoryKept
  BY DEF AgentInv
<1>2. /\ CallStep(i) /\ ~Live /\ flight[i].at # "done"
      /\ UNCHANGED <<run, loop, budget, staging, orphans, count>>
  BY <1>1, LateCallIs
<1>3. AgentTypeOK'
  BY <1>1, <1>2 DEF AgentTypeOK, CallStep
<1>4. LoopStands'
  <2>1. \A j \in DOMAIN flight' : flight'[j].call = flight[j].call
    BY <1>2 DEF CallStep
  <2>2. \A j, k \in DOMAIN flight' : Mutates(flight'[j].call) => j = k
    BY <1>1, <1>2, <2>1 DEF LoopStands, CallStep
  <2>3. ~Mutates(flight[i].call)
    BY <1>1, <1>2 DEF LoopStands
  <2>4. \A j \in DOMAIN flight' : Mutates(flight'[j].call) => flight'[j].at = "done"
    BY <1>1, <1>2, <2>1, <2>3 DEF LoopStands, CallStep
  <2>5. flight # <<>>
    OBVIOUS
  <2> QED BY <1>1, <1>2, <2>2, <2>4, <2>5 DEF LoopStands, Live
<1>5. BudgetKept'
  BY <1>1, <1>2 DEF BudgetKept, Behind, Live, BudgetHolds
<1>6. Quiet
  <2>1. Said' = Said
    BY <1>2 DEF Said
  <2>2. loop.msgs = <<>> /\ loop.pc # "tools"
    BY <1>1, <1>2 DEF LoopStands, Live
  <2> QED BY <1>1, <1>2, <2>1, <2>2, NoMessages DEF Quiet, HistoryKept
<1> QED BY <1>3, <1>4, <1>5, <1>6 DEF QuietStep

-----------------------------------------------------------------------------
(***************************************************************************)
(* AgentLoop: the steps of the tools.                                      *)
(***************************************************************************)

\* Tool calls cost no turn.
LEMMA ToolsPayNothing ==
    ASSUME AgentInv, Live, UNCHANGED <<run, count>>, budget'.iter = budget.iter,
           loop'.pc \in {"tools", "summary"}
    PROVE  BudgetKept'
<1>1. /\ budget.iter < MaxIterations /\ run.snap.budget.iter < MaxIterations
      /\ count.paid <= budget.iter + 2 * count.faults
      /\ budget.iter <= run.snap.budget.iter + Behind
      /\ BudgetHolds /\ run.state = "started" /\ AgentTypeOK
  BY LiveRun
<1>2. Behind' = 2
  BY DEF Behind
<1>3. Behind \in Nat /\ Behind <= 2
  BY DEF Behind
<1>4. budget.iter \in Nat /\ run.snap.budget.iter \in Nat
  BY <1>1, PartsAre
<1>5. budget'.iter <= run'.snap.budget.iter + Behind'
  <2>1. budget.iter <= run.snap.budget.iter + 2
    BY <1>1, <1>3, <1>4
  <2> QED BY <1>2, <2>1
<1>6. BudgetHolds'
  BY <1>1 DEF BudgetHolds
<1> QED BY <1>1, <1>5, <1>6 DEF BudgetKept

\* What is said of calls is of this turn or an earlier one.
LEMMA SaidIsOld ==
    ASSUME AgentInv
    PROVE  /\ loop.turn \in Nat
           /\ \A m \in Said : m.role = "tool" => m.id \in CallId /\ m.id[1] \in Nat
                                                 /\ m.id[1] <= loop.turn
           /\ \A id \in orphans : id \in CallId /\ id[1] \in Nat /\ id[1] <= loop.turn
           /\ \A k \in DOMAIN staging : staging[k] \in CallId /\ staging[k][1] \in Nat
                                        /\ staging[k][1] <= loop.turn
           /\ \A id \in Range(staging) : id \in CallId /\ id[1] <= loop.turn
           /\ \A id \in ToCome : id[1] = loop.turn
<1>1. AgentTypeOK /\ IdsKept
  BY DEF AgentInv
<1>2. loop.turn \in Nat /\ orphans \subseteq CallId /\ staging \in Seq(CallId)
  BY <1>1, PartsAre
<1>3. \A k \in DOMAIN staging : staging[k] \in CallId
  BY <1>2, ElementOfSeq
<1>4. \A id \in CallId : id[1] \in Nat
  BY DEF CallId
<1>5. \A id \in ToCome : id[1] = loop.turn
  <2>1. \A i \in DOMAIN Owed : Owed[i].id[1] = loop.turn
    BY <1>1 DEF IdsKept
  <2> QED BY <1>1, <2>1, ToComeIsOwed
<1>6. \A m \in Said : m.role = "tool" => m.id \in CallId /\ m.id[1] <= loop.turn
  BY <1>1 DEF IdsKept
<1>7. \A id \in orphans : id[1] <= loop.turn
  BY <1>1 DEF IdsKept
<1>8. \A k \in DOMAIN staging : staging[k][1] <= loop.turn
  BY <1>1 DEF IdsKept
<1>9. \A id \in Range(staging) : id \in CallId /\ id[1] <= loop.turn
  BY <1>3, <1>8 DEF Range
<1> QED BY <1>2, <1>3, <1>4, <1>5, <1>6, <1>7, <1>8, <1>9

\* The model asks for calls.
LEMMA ReplyCallsKeeps ==
    ASSUME AgentInv, NEW tools \in CallLists, ReplyCalls(tools) PROVE AgentInv'
<1> DEFINE ids == Ids(tools)
           m == Assistant(ids)
           ms == Append(loop.msgs, m)
<1>1. loop.pc = "turn" /\ UNCHANGED <<run, budget, flight, staging, orphans, count>>
  BY DEF ReplyCalls
<1>2. loop' = [loop EXCEPT !.pc = "tools", !.empty = FALSE, !.progressed = FALSE,
                 !.turn = @ + 1, !.msgs = ms, !.rest = ids]
  BY DEF ReplyCalls
<1>3. /\ AgentTypeOK /\ LoopStands /\ IdsKept /\ ReportsKept /\ OrderKept
  BY DEF AgentInv
<1>4. /\ Live /\ flight = <<>> /\ loop.msgs \in Messages /\ ValidHistory(loop.msgs)
      /\ run.state = "started" /\ run.safe = TRUE /\ ValidHistory(run.snap.msgs)
  BY <1>1, BetweenTools
<1>5. loop \in LoopType /\ loop.turn \in Nat
  BY <1>3, PartsAre
<1>6. /\ ids \in Seq(CallType) /\ ids # <<>> /\ DOMAIN ids = 1..Len(ids)
      /\ \A i \in DOMAIN ids : ids[i].id[1] = loop.turn + 1 /\ ids[i].id[2] = i
  BY <1>5, IdsAre
<1> HIDE DEF ids
<1>7. m \in MessageType /\ m.role = "assistant" /\ m.calls = ids
  BY <1>6, MessagesAre
<1>8. ms \in Messages /\ Talk(ms) \subseteq Talk(loop.msgs) \cup {m}
  BY <1>4, <1>7, TalkAppends
<1>9. ValidHistory(Completed(ms, ids))
  BY <1>4, <1>6, ValidCallsJoin
<1> HIDE DEF m, ms
<1>10. /\ loop' \in LoopType /\ loop'.pc = "tools" /\ loop'.msgs = ms /\ loop'.rest = ids
       /\ loop'.turn = loop.turn + 1
  <2> DEFINE one == [loop EXCEPT !.pc = "tools", !.empty = FALSE, !.progressed = FALSE]
  <2>1. one \in LoopType /\ one.pc = "tools" /\ one.turn = loop.turn
    BY <1>5 DEF LoopType
  <2>2. loop' = [one EXCEPT !.turn = @ + 1, !.msgs = ms, !.rest = ids]
    BY <1>2
  <2> HIDE DEF one
  <2>3. one.turn + 1 \in Nat /\ ids \in Seq(CallType) /\ ms \in Messages
    BY <1>5, <1>6, <1>8, <2>1
  <2> QED BY <2>1, <2>2, <2>3 DEF LoopType
<1>11. /\ AtTools' /\ Live' /\ ToCome' = {c.id : c \in Range(ids)} /\ Owed' = ids
  <2>1. FlightCalls' = <<>>
    BY <1>1, <1>4 DEF FlightCalls
  <2>2. Owed' = <<>> \o ids
    BY <1>10, <2>1 DEF Owed, AtTools
  <2>3. Owed' = ids
    BY <1>6, <2>2, ConcatEmptySeq
  <2>4. DOMAIN flight' = {}
    BY <1>1, <1>4
  <2> QED BY <1>10, <2>3, <2>4 DEF AtTools, Live, ToCome
<1>12. \A id \in ToCome' : id[1] = loop.turn + 1
  BY <1>6, <1>11 DEF Range
<1>13. Said' \subseteq Said \cup {m}
  BY <1>1, <1>8, <1>10 DEF Said
<1>14. AgentTypeOK'
  BY <1>1, <1>3, <1>10 DEF AgentTypeOK
<1>15. LoopStands'
  <2>1. DOMAIN flight' = {} /\ flight' = <<>>
    BY <1>1, <1>4
  <2> QED BY <1>1, <1>4, <1>10, <1>11, <2>1 DEF LoopStands, Live
<1>16. BudgetKept'
  BY <1>1, <1>4, <1>10, ToolsPayNothing
<1>17. HistoryKept'
  BY <1>1, <1>4, <1>9, <1>10, <1>11 DEF HistoryKept
<1>18. IdsKept'
  <2>1. \A x \in Said' : /\ x.calls # <<>> => x.role = "assistant"
                         /\ \A k \in DOMAIN x.calls : x.calls[k].id[2] = k
                         /\ x.role = "tool" => x.id \in CallId /\ x.id[1] <= loop'.turn
    <3> SUFFICES ASSUME NEW x \in Said'
                 PROVE  /\ x.calls # <<>> => x.role = "assistant"
                        /\ \A k \in DOMAIN x.calls : x.calls[k].id[2] = k
                        /\ x.role = "tool" => x.id \in CallId /\ x.id[1] <= loop'.turn
      OBVIOUS
    <3>1. CASE x = m
      BY <1>6, <1>7, <3>1
    <3>2. CASE x \in Said
      <4>1. /\ x.calls # <<>> => x.role = "assistant"
            /\ \A k \in DOMAIN x.calls : x.calls[k].id[2] = k
        BY <1>3, <3>2 DEF IdsKept
      <4>2. x.role = "tool" => x.id \in CallId /\ x.id[1] <= loop'.turn
        BY <1>5, <1>10, <3>2, SaidIsOld
      <4> QED BY <4>1, <4>2
    <3> QED BY <1>13, <3>1, <3>2
  <2>2. \A x \in Talk(run'.snap.msgs) : x.role = "tool" => x.id[1] < loop'.turn
    <3>1. \A x \in Talk(run'.snap.msgs) : x \in Said
      BY <1>1 DEF Said
    <3> QED BY <1>5, <1>10, <3>1, SaidIsOld
  <2>3. \A id \in orphans' : id[1] <= loop'.turn
    BY <1>1, <1>5, <1>10, SaidIsOld
  <2>4. \A k \in DOMAIN staging' : staging'[k][1] <= loop'.turn
    BY <1>1, <1>5, <1>10, SaidIsOld
  <2>5. \A i \in DOMAIN Owed' : /\ Owed'[i].id[1] = loop'.turn
                                /\ \A j \in DOMAIN Owed' : i < j => Owed'[i].id[2] < Owed'[j].id[2]
    BY <1>6, <1>10, <1>11
  <2> QED BY <2>1, <2>2, <2>3, <2>4, <2>5 DEF IdsKept
<1>19. ReportsKept'
  <2>1. \A id \in ToCome' : id \notin Range(staging) \cup orphans
    BY <1>5, <1>12, SaidIsOld
  <2>2. ASSUME NEW x \in Said', x.role = "tool", x.text \in NotDone
        PROVE  x.id \notin MayBeStaged'
    <3>1. x \in Said
      BY <1>7, <1>13, <2>2
    <3>2. x.id \notin Range(staging) \cup orphans
      BY <1>3, <2>2, <3>1 DEF ReportsKept, MayBeStaged
    <3>3. x.id \notin ToCome'
      BY <1>5, <1>12, <2>2, <3>1, SaidIsOld
    <3> QED BY <1>1, <3>2, <3>3 DEF MayBeStaged
  <2>3. DOMAIN flight' = {}
    BY <1>1, <1>4
  <2> QED BY <1>1, <2>1, <2>2, <2>3 DEF ReportsKept
<1>20. OrderKept'
  <2>1. ASSUME NEW x \in Said', x.role = "tool", x.text = "shown"
        PROVE  /\ ShownInOrder(x.id, x.at)'
               /\ \A id \in orphans' : id[1] # x.id[1]
               /\ \A id \in ToCome' : id[1] = x.id[1] => x.id[2] < id[2]
    <3>1. x \in Said
      BY <1>7, <1>13, <2>1
    <3>2. ShownInOrder(x.id, x.at) /\ \A id \in orphans : id[1] # x.id[1]
      BY <1>3, <2>1, <3>1 DEF OrderKept
    <3>3. ShownInOrder(x.id, x.at)'
      BY <1>1, <3>2 DEF ShownInOrder
    <3>4. \A id \in ToCome' : id[1] # x.id[1]
      BY <1>5, <1>12, <2>1, <3>1, SaidIsOld
    <3> QED BY <1>1, <3>2, <3>3, <3>4
  <2>2. DOMAIN flight' = {}
    BY <1>1, <1>4
  <2>3. \A id \in orphans' : id[1] # loop'.turn
    BY <1>1, <1>5, <1>10, SaidIsOld
  <2>4. \A k \in DOMAIN staging' : staging'[k][1] # loop'.turn
    BY <1>1, <1>5, <1>10, SaidIsOld
  <2> QED BY <2>1, <2>2, <2>3, <2>4 DEF OrderKept
<1> QED BY <1>14, <1>15, <1>16, <1>17, <1>18, <1>19, <1>20 DEF AgentInv

\* A step of the tools that says nothing yet keeps what is said of the calls.
LEMMA ToolsKeep ==
    ASSUME AgentInv, AtTools, AtTools', UNCHANGED <<run, staging, orphans, count>>,
           loop'.msgs = loop.msgs, loop'.turn = loop.turn, budget'.iter = budget.iter,
           Owed' = Owed, ToCome' \subseteq ToCome, AgentTypeOK', LoopStands',
           \A i \in DOMAIN flight' : flight'[i].at = "done" /\ flight'[i].text = "refused"
               => flight'[i].call.id \notin MayBeStaged',
           \A i \in DOMAIN flight' : Shows(i)'
               => ShownInOrder(flight'[i].call.id, flight'[i].seen)
    PROVE  AgentInv'
<1>1. HistoryKept /\ IdsKept /\ ReportsKept /\ OrderKept /\ Live
  BY DEF AgentInv, Live, AtTools
<1>2. Said' = Said
  BY DEF Said
<1>3. BudgetKept'
  BY <1>1, ToolsPayNothing DEF AtTools
<1>4. HistoryKept'
  BY <1>1 DEF HistoryKept
<1>5. IdsKept'
  BY <1>1, <1>2 DEF IdsKept
<1>6. MayBeStaged' \subseteq MayBeStaged
  BY DEF MayBeStaged
<1>7. ReportsKept'
  BY <1>1, <1>2, <1>6 DEF ReportsKept
<1>8. \A id, at : ShownInOrder(id, at)' <=> ShownInOrder(id, at)
  BY DEF ShownInOrder
<1>9. OrderKept'
  <2>1. \A m \in Said' : m.role = "tool" /\ m.text = "shown"
          => /\ ShownInOrder(m.id, m.at)'
             /\ \A id \in orphans' : id[1] # m.id[1]
             /\ \A id \in ToCome' : id[1] = m.id[1] => m.id[2] < id[2]
    BY <1>1, <1>2, <1>8 DEF OrderKept
  <2>2. \A i \in DOMAIN flight' : Shows(i)' => ShownInOrder(flight[i].call.id, flight[i].seen)'
    BY <1>8
  <2>3. \A id \in orphans' : id[1] # loop'.turn
    BY <1>1 DEF OrderKept
  <2>4. \A k \in DOMAIN staging', id \in ToCome' :
           staging'[k][1] = loop'.turn => staging'[k][2] < id[2]
    BY <1>1 DEF OrderKept
  <2> QED BY <2>1, <2>2, <2>3, <2>4 DEF OrderKept
<1> QED BY <1>3, <1>4, <1>5, <1>7, <1>9 DEF AgentInv

\* What a turn's results add to the talk of calls.
LEMMA TalkJoins ==
    ASSUME NEW ms \in Messages, NEW res \in Messages
    PROVE  Talk(ms \o res) \subseteq Talk(ms) \cup Range(res)
<1> DEFINE new == ms \o res
<1>1. /\ ms \in Seq(MessageType) /\ res \in Seq(MessageType)
      /\ Len(ms) \in Nat /\ Len(res) \in Nat
      /\ DOMAIN ms = 1..Len(ms) /\ DOMAIN res = 1..Len(res)
  BY DEF Messages
<1>2. /\ new \in Seq(MessageType) /\ Len(new) = Len(ms) + Len(res)
      /\ \A i \in 1..(Len(ms) + Len(res)) :
            new[i] = IF i <= Len(ms) THEN ms[i] ELSE res[i - Len(ms)]
  BY <1>1, ConcatProperties
<1> HIDE DEF new
<1>3. ASSUME NEW i \in DOMAIN new PROVE new[i] \in Range(ms) \cup Range(res)
  <2>1. i \in 1..(Len(ms) + Len(res))
    BY <1>2
  <2>2. CASE i <= Len(ms)
    <3>1. i \in DOMAIN ms /\ new[i] = ms[i]
      BY <1>1, <1>2, <2>1, <2>2
    <3> QED BY <3>1 DEF Range
  <2>3. CASE ~(i <= Len(ms))
    <3>1. i - Len(ms) \in DOMAIN res /\ new[i] = res[i - Len(ms)]
      BY <1>1, <1>2, <2>1, <2>3
    <3> QED BY <3>1 DEF Range
  <2> QED BY <2>2, <2>3
<1>4. \A x \in Range(new) : x \in Range(ms) \cup Range(res)
  BY <1>3 DEF Range
<1> QED BY <1>4 DEF Talk, new

\* The next group is handed out, or the calls that are left are answered
\* without being made.
LEMMA GroupStartKeeps ==
    ASSUME AgentInv, GroupStart PROVE AgentInv'
<1> DEFINE g == FirstGroup(loop.rest)
           left == SubSeq(loop.rest, Len(g) + 1, Len(loop.rest))
           short == \/ WindDownReason(budget, FALSE)
                    \/ MaxToolCalls - budget.calls < Len(g)
<1>1. /\ loop.pc = "tools" /\ loop.rest # <<>> /\ flight = <<>>
      /\ UNCHANGED <<run, staging, orphans, count>>
  BY DEF GroupStart
<1>2. AgentTypeOK /\ LoopStands /\ HistoryKept /\ IdsKept /\ ReportsKept /\ OrderKept
  BY DEF AgentInv
<1>3. Live /\ AtTools /\ run.state = "started"
  BY <1>1, LiveRun DEF Live, AtTools
<1>4. /\ loop \in LoopType /\ loop.msgs \in Messages /\ loop.rest \in Seq(CallType)
      /\ budget \in BudgetType
  BY <1>2, PartsAre
<1>5. /\ g \in Seq(CallType) /\ left \in Seq(CallType) /\ g \o left = loop.rest
      /\ Len(g) \in Nat /\ Len(g) > 0 /\ DOMAIN g = 1..Len(g)
      /\ \A i, j \in DOMAIN g : Mutates(g[i]) => i = j
      /\ \A c \in Range(g) \cup Range(left) : c \in Range(loop.rest)
  <2>1. loop.rest \in Seq(CallType) /\ loop.rest # <<>>
    BY <1>1, <1>4
  <2>2. g = FirstGroup(loop.rest) /\ left = SubSeq(loop.rest, Len(g) + 1, Len(loop.rest))
    OBVIOUS
  <2> HIDE DEF g, left
  <2>3. g \in Seq(CallType)
    BY ONLY <2>1, <2>2, GroupIs
  <2>4. left \in Seq(CallType)
    BY ONLY <2>1, <2>2, GroupIs
  <2>5. g \o left = loop.rest
    BY ONLY <2>1, <2>2, GroupIs
  <2>6. Len(g) \in Nat
    BY ONLY <2>1, <2>2, GroupIs
  <2>7. Len(g) > 0
    BY ONLY <2>1, <2>2, GroupIs
  <2>8. DOMAIN g = 1..Len(g)
    BY ONLY <2>1, <2>2, GroupIs
  <2>9. \A i, j \in DOMAIN g : Mutates(g[i]) => i = j
    BY ONLY <2>1, <2>2, GroupIs
  <2>10. \A c \in Range(g) \cup Range(left) : c \in Range(loop.rest)
    BY <2>3, <2>4, <2>5, CallsOfBoth
  <2> QED BY <2>3, <2>4, <2>5, <2>6, <2>7, <2>8, <2>9, <2>10
<1>6. DOMAIN flight = {}
  BY <1>1
<1>7. Owed = loop.rest /\ ToCome = {c.id : c \in Range(loop.rest)}
  <2>1. FlightCalls = <<>>
    BY <1>6 DEF FlightCalls
  <2>2. Owed = <<>> \o loop.rest
    BY <1>3, <2>1 DEF Owed
  <2>3. Owed = loop.rest
    BY <1>4, <2>2, ConcatEmptySeq
  <2> QED BY <1>3, <1>6, <2>3 DEF ToCome
<1>8. CASE short
  <2> DEFINE ms == Completed(loop.msgs, loop.rest)
             res == [i \in DOMAIN loop.rest |-> Tool(loop.rest[i].id, "not_executed", 0)]
  <2>1. /\ loop' = [loop EXCEPT !.pc = "summary", !.rest = <<>>, !.why = "budget",
                      !.msgs = FillMissing(loop.msgs)]
        /\ UNCHANGED <<flight, budget>>
    BY <1>8, <1>4 DEF GroupStart
  <2>2. FillMissing(loop.msgs) = ms /\ ValidHistory(ms)
    BY <1>1, <1>2, HistoryStands
  <2>3. ms \in Messages
    BY <1>4, CompletedIs
  <2>4. \A c \in Range(loop.rest) : c.id \in CallId /\ c.id[1] = loop.turn
    <3>1. \A i \in DOMAIN loop.rest : loop.rest[i].id[1] = loop.turn
      BY <1>2, <1>7 DEF IdsKept
    <3>2. \A i \in DOMAIN loop.rest : loop.rest[i] \in CallType
      BY <1>4, ElementOfSeq
    <3> QED BY <3>1, <3>2 DEF Range, CallType
  <2>5. \A i \in DOMAIN loop.rest : Tool(loop.rest[i].id, "not_executed", 0) \in MessageType
    BY <2>4, NotExecutedIs DEF Range
  <2>6. res \in Messages
    <3>1. DOMAIN loop.rest = 1..Len(loop.rest) /\ Len(loop.rest) \in Nat
      BY <1>4
    <3>2. res \in [1..Len(loop.rest) -> MessageType]
      BY <2>5, <3>1
    <3> QED BY <3>1, <3>2, IsASeq DEF Messages
  <2>7. Talk(ms) \subseteq Talk(loop.msgs) \cup Range(res)
    <3>1. ms = loop.msgs \o res
      BY DEF Completed
    <3> HIDE DEF res
    <3> QED BY <1>4, <2>6, <3>1, TalkJoins
  <2>8. \A x \in Range(res) : \E c \in Range(loop.rest) :
           x = Tool(c.id, "not_executed", 0)
    BY DEF Range
  <2>9. \A x \in Range(res) : /\ x.role = "tool" /\ x.calls = <<>> /\ x.text = "not_executed"
                              /\ \E c \in Range(loop.rest) : x.id = c.id
    BY <2>4, <2>8, NotExecutedIs
  <2> HIDE DEF ms, res
  <2>10. /\ loop' \in LoopType /\ loop'.pc = "summary" /\ loop'.rest = <<>>
         /\ loop'.msgs = ms /\ loop'.turn = loop.turn
    <3>1. <<>> \in Seq(CallType)
      OBVIOUS
    <3> QED BY <1>4, <2>1, <2>2, <2>3, <3>1 DEF LoopType
  <2>11. ~AtTools' /\ Live' /\ Owed' = <<>> /\ ToCome' = {} /\ DOMAIN Owed' = {}
    BY <2>10 DEF AtTools, Live, Owed, ToCome
  <2>12. Said' \subseteq Said \cup Range(res)
    BY <1>1, <2>7, <2>10 DEF Said
  <2>13. AgentTypeOK'
    BY <1>1, <1>2, <2>1, <2>10 DEF AgentTypeOK
  <2>14. LoopStands'
    <3>1. run.safe
      BY <1>1, <1>2, <1>3 DEF LoopStands
    <3> QED BY <1>1, <1>3, <1>6, <2>1, <2>10, <2>11, <3>1 DEF LoopStands
  <2>15. BudgetKept'
    BY <1>1, <1>3, <2>1, <2>10, ToolsPayNothing
  <2>16. HistoryKept'
    <3>1. Completed(ms, <<>>) = ms
      BY <2>3, CompletedOwesNothing
    <3> QED BY <1>1, <1>2, <2>2, <2>10, <2>11, <3>1 DEF HistoryKept
  <2>17. IdsKept'
    <3>1. \A x \in Said' : /\ x.calls # <<>> => x.role = "assistant"
                           /\ \A k \in DOMAIN x.calls : x.calls[k].id[2] = k
                           /\ x.role = "tool" => x.id \in CallId /\ x.id[1] <= loop'.turn
      <4> SUFFICES ASSUME NEW x \in Said'
                   PROVE  /\ x.calls # <<>> => x.role = "assistant"
                          /\ \A k \in DOMAIN x.calls : x.calls[k].id[2] = k
                          /\ x.role = "tool" => x.id \in CallId /\ x.id[1] <= loop'.turn
        OBVIOUS
      <4>1. CASE x \in Said
        BY <1>2, <2>10, <4>1 DEF IdsKept
      <4>2. CASE x \in Range(res)
        <5>1. x.calls = <<>> /\ x.id \in CallId /\ x.id[1] = loop.turn /\ loop.turn \in Nat
          BY <1>2, <2>4, <2>9, <4>2, PartsAre
        <5>2. DOMAIN x.calls = {}
          BY <5>1
        <5> QED BY <2>10, <5>1, <5>2
      <4> QED BY <2>12, <4>1, <4>2
    <3>2. /\ \A id \in orphans' : id[1] <= loop'.turn
          /\ \A k \in DOMAIN staging' : staging'[k][1] <= loop'.turn
      BY <1>1, <1>2, <2>10 DEF IdsKept
    <3> QED BY <2>11, <3>1, <3>2 DEF IdsKept
  <2>18. ReportsKept'
    <3>1. MayBeStaged' = Range(staging) \cup orphans /\ MayBeStaged' \subseteq MayBeStaged
      BY <1>1, <2>11 DEF MayBeStaged
    <3>2. \A c \in Range(loop.rest) : c.id \notin MayBeStaged'
      BY <1>2, <1>7, <3>1 DEF ReportsKept
    <3>3. ASSUME NEW x \in Said', x.role = "tool", x.text \in NotDone
          PROVE  x.id \notin MayBeStaged'
      <4>1. CASE x \in Said
        BY <1>2, <3>1, <3>3, <4>1 DEF ReportsKept
      <4>2. CASE x \in Range(res)
        BY <2>9, <3>2, <4>2
      <4> QED BY <2>12, <4>1, <4>2
    <3> QED BY <2>11, <3>3 DEF ReportsKept
  <2>19. OrderKept'
    <3>1. ASSUME NEW x \in Said', x.role = "tool", x.text = "shown"
          PROVE  ShownInOrder(x.id, x.at)' /\ \A id \in orphans' : id[1] # x.id[1]
      <4>1. x \in Said
        BY <2>9, <2>12, <3>1
      <4> QED BY <1>1, <1>2, <3>1, <4>1 DEF OrderKept, ShownInOrder
    <3> QED BY <2>11, <3>1 DEF OrderKept
  <2> QED BY <2>13, <2>14, <2>15, <2>16, <2>17, <2>18, <2>19 DEF AgentInv
<1>9. CASE ~short
  <2>1. /\ flight' = [i \in DOMAIN g |-> [call |-> g[i], at |-> "queued",
                                         text |-> "none", seen |-> 0]]
        /\ budget' = [budget EXCEPT !.calls = @ + Len(g)]
        /\ loop' = [loop EXCEPT !.rest = left]
    BY <1>4, <1>9 DEF GroupStart
  <2> HIDE DEF left, g
  <2>2. /\ loop' \in LoopType /\ loop'.pc = "tools" /\ loop'.rest = left
        /\ loop'.msgs = loop.msgs /\ loop'.turn = loop.turn
    <3>1. loop \in LoopType /\ left \in Seq(CallType) /\ loop.pc = "tools"
      BY <1>1, <1>4, <1>5
    <3>2. loop' = [loop EXCEPT !.rest = left]
      BY <2>1
    <3> QED BY <3>1, <3>2 DEF LoopType
  <2>3. budget' \in BudgetType /\ budget'.iter = budget.iter
    <3>1. budget \in BudgetType /\ Len(g) \in Nat
      BY <1>4, <1>5
    <3>2. budget' = [budget EXCEPT !.calls = @ + Len(g)]
      BY <2>1
    <3> QED BY <3>1, <3>2 DEF BudgetType
  <2>4. \A i \in 1..Len(g) : g[i] \in CallType
    BY <1>5, ElementOfSeq
  <2>5. flight' \in Seq(FlightType)
    <3>1. \A i \in 1..Len(g) : [call |-> g[i], at |-> "queued", text |-> "none", seen |-> 0] \in FlightType
      BY <2>4 DEF FlightType
    <3>2. flight' \in [1..Len(g) -> FlightType]
      BY <1>5, <2>1, <3>1
    <3> QED BY <1>5, <3>2, IsASeq
  <2>6. DOMAIN flight' = DOMAIN g
        /\ \A i \in DOMAIN g : flight'[i].call = g[i] /\ flight'[i].at = "queued"
    BY <2>1
  <2>7. FlightCalls' = g
    <3>1. FlightCalls' = [i \in DOMAIN g |-> g[i]]
      BY <2>6 DEF FlightCalls
    <3>2. g = [i \in DOMAIN g |-> g[i]]
      BY <1>5
    <3> QED BY <3>1, <3>2
  <2>8. AtTools' /\ Live' /\ Owed' = Owed
    BY <1>5, <1>7, <2>2, <2>7 DEF AtTools, Live, Owed
  <2>9. ToCome' \subseteq ToCome
    <3>1. \A i \in DOMAIN flight' : flight'[i].call \in Range(loop.rest)
      BY <1>5, <2>6 DEF Range
    <3>2. \A c \in Range(loop'.rest) : c \in Range(loop.rest)
      BY <1>5, <2>2
    <3> QED BY <1>7, <2>8, <3>1, <3>2 DEF ToCome
  <2>10. AgentTypeOK'
    BY <1>1, <1>2, <2>2, <2>3, <2>5 DEF AgentTypeOK
  <2>11. LoopStands'
    <3>1. run.safe
      BY <1>1, <1>2, <1>3 DEF LoopStands
    <3>2. \A i, j \in DOMAIN flight' : Mutates(flight'[i].call) => i = j
      BY <1>5, <2>6
    <3> QED BY <1>1, <1>3, <2>2, <2>8, <3>1, <3>2 DEF LoopStands
  <2>12. \A i \in DOMAIN flight' : flight'[i].at # "done" /\ ~Shows(i)'
    BY <2>6 DEF Shows
  <2> QED BY <1>1, <1>3, <2>2, <2>3, <2>8, <2>9, <2>10, <2>11, <2>12, ToolsKeep
<1> QED BY <1>8, <1>9

\* The ids of the calls at hand grow: first the calls that are out, then those
\* that are left.
LEMMA OwedGrow ==
    ASSUME AgentInv, AtTools
    PROVE  /\ \A i, j \in DOMAIN flight :
                 /\ flight[i].call.id[2] \in Nat /\ flight[i].call.id[1] = loop.turn
                 /\ i < j => flight[i].call.id[2] < flight[j].call.id[2]
                 /\ i # j => flight[i].call.id # flight[j].call.id
           /\ \A i \in DOMAIN flight, c \in Range(loop.rest) :
                 /\ flight[i].call.id[2] < c.id[2] /\ flight[i].call.id # c.id
<1>1. AgentTypeOK
  BY DEF AgentInv
<1>2. /\ DOMAIN flight = 1..Len(flight) /\ Len(flight) \in Nat
      /\ DOMAIN loop.rest = 1..Len(loop.rest) /\ Len(loop.rest) \in Nat
      /\ \A i \in 1..Len(flight) : i \in DOMAIN Owed /\ Owed[i] = flight[i].call
      /\ \A k \in 1..Len(loop.rest) : /\ Len(flight) + k \in DOMAIN Owed
                                       /\ Owed[Len(flight) + k] = loop.rest[k]
  BY <1>1, OwedIs
<1>3. \A i, j \in DOMAIN Owed : i < j => Owed[i].id[2] < Owed[j].id[2]
  BY DEF AgentInv, IdsKept
<1>4. \A i \in DOMAIN Owed : Owed[i].id[1] = loop.turn
  BY DEF AgentInv, IdsKept
<1>5. \A i \in DOMAIN flight : flight[i].call.id[2] \in Nat
  <2>1. \A i \in DOMAIN flight : flight[i].call \in CallType
    BY <1>1, OwedAreCalls
  <2> QED BY <2>1 DEF CallType, CallId
<1>6. \A i, j \in DOMAIN flight : i < j => flight[i].call.id[2] < flight[j].call.id[2]
  BY <1>2, <1>3
<1>7. \A i, j \in DOMAIN flight : i # j => flight[i].call.id # flight[j].call.id
  <2>1. \A i, j \in DOMAIN flight : i # j => i < j \/ j < i
    BY <1>2
  <2> QED BY <1>5, <1>6, <2>1
<1>8. ASSUME NEW i \in DOMAIN flight, NEW c \in Range(loop.rest)
      PROVE  flight[i].call.id[2] < c.id[2] /\ flight[i].call.id # c.id
  <2>1. PICK k \in DOMAIN loop.rest : c = loop.rest[k]
    BY DEF Range
  <2>2. i \in Nat /\ k \in Nat /\ i <= Len(flight) /\ k >= 1
    BY <1>2
  <2>3. i < Len(flight) + k
    BY <1>2, <2>2
  <2>4. flight[i].call.id[2] < c.id[2]
    BY <1>2, <1>3, <2>1, <2>3
  <2> QED BY <1>5, <2>4
<1>9. \A i \in DOMAIN flight : flight[i].call.id[1] = loop.turn
  BY <1>2, <1>4
<1> QED BY <1>5, <1>6, <1>7, <1>8, <1>9

\* One call of the group goes on: the same calls are owed, and none that was
\* done is to come.
LEMMA CallStepIs ==
    ASSUME AgentInv, AtTools, NEW i \in DOMAIN flight, CallStep(i),
           loop'.pc = "tools", loop'.rest = loop.rest,
           Pending(i)' => Pending(i)
    PROVE  /\ AtTools' /\ Live' /\ Owed' = Owed /\ ToCome' \subseteq ToCome
           /\ ~Pending(i)' => flight[i].call.id \notin ToCome'
           /\ \A j \in DOMAIN flight : flight'[j].call = flight[j].call
           /\ \A j, k \in DOMAIN flight' : Mutates(flight'[j].call) => j = k
<1>1. AtTools' /\ Live'
  BY DEF AtTools, Live
<1>2. /\ DOMAIN flight' = DOMAIN flight
      /\ \A j \in DOMAIN flight : flight'[j].call = flight[j].call
      /\ \A j \in DOMAIN flight : j # i => flight'[j] = flight[j]
  BY DEF CallStep
<1>3. FlightCalls' = FlightCalls
  BY <1>2 DEF FlightCalls
<1>4. Owed' = Owed
  BY <1>1, <1>3 DEF Owed
<1>5. \A j \in DOMAIN flight : Pending(j)' => Pending(j)
  BY <1>2 DEF Pending
<1>6. ToCome' = {flight[j].call.id : j \in {j \in DOMAIN flight : Pending(j)'}}
                \cup {c.id : c \in Range(loop.rest)}
  BY <1>1, <1>2 DEF ToCome
<1>7. ToCome' \subseteq ToCome
  BY <1>5, <1>6 DEF ToCome
<1>8. ~Pending(i)' => flight[i].call.id \notin ToCome'
  <2>1. \A j \in DOMAIN flight : j # i => flight[i].call.id # flight[j].call.id
    BY OwedGrow
  <2>2. \A c \in Range(loop.rest) : flight[i].call.id # c.id
    BY OwedGrow
  <2> QED BY <1>6, <2>1, <2>2
<1>9. \A j, k \in DOMAIN flight' : Mutates(flight'[j].call) => j = k
  BY <1>2 DEF AgentInv, LoopStands
<1> QED BY <1>1, <1>2, <1>4, <1>7, <1>8, <1>9

\* The loop at its tools stays as it stands.
LEMMA ToolsStand ==
    ASSUME AgentInv, AtTools, run' = run, loop'.pc = "tools", loop'.turn = loop.turn,
           \A j, k \in DOMAIN flight' : Mutates(flight'[j].call) => j = k
    PROVE  LoopStands'
<1>1. Live /\ Live' /\ run.state = "started" /\ LoopStands
  BY LiveRun DEF AgentInv, AtTools, Live
<1>2. run.safe
  BY <1>1 DEF LoopStands, AtTools
<1> QED BY <1>1, <1>2 DEF LoopStands

\* A call begins, or is refused.
LEMMA CallBeginsKeeps ==
    ASSUME AgentInv, NEW i \in DOMAIN flight, CallBegins(i) PROVE AgentInv'
<1>1. AgentTypeOK /\ ReportsKept /\ OrderKept
  BY DEF AgentInv
<1>2. AtTools /\ UNCHANGED <<run, loop, budget, staging, orphans, count>>
  BY DEF CallBegins, AtTools
<1>3. /\ CallStep(i) /\ flight[i].at = "queued"
      /\ \/ flight'[i].at = "done" /\ flight'[i].text = "refused"
         \/ flight'[i].at = "asked"
  BY <1>1, CallBeginsIs
<1>4. Pending(i)
  BY <1>3 DEF Pending
<1>5. loop'.pc = "tools" /\ loop'.rest = loop.rest /\ loop'.turn = loop.turn
  BY <1>2 DEF AtTools
<1>6. /\ AtTools' /\ Live' /\ Owed' = Owed /\ ToCome' \subseteq ToCome
      /\ ~Pending(i)' => flight[i].call.id \notin ToCome'
      /\ \A j \in DOMAIN flight : flight'[j].call = flight[j].call
      /\ \A j, k \in DOMAIN flight' : Mutates(flight'[j].call) => j = k
  BY <1>2, <1>3, <1>4, <1>5, CallStepIs
<1>7. AgentTypeOK'
  BY <1>1, <1>2, <1>3 DEF AgentTypeOK, CallStep
<1>8. LoopStands'
  BY <1>2, <1>5, <1>6, ToolsStand
<1>9. MayBeStaged' \subseteq MayBeStaged
  BY <1>2, <1>6 DEF MayBeStaged
<1>10. ASSUME NEW j \in DOMAIN flight', flight'[j].at = "done", flight'[j].text = "refused"
       PROVE  flight'[j].call.id \notin MayBeStaged'
  <2>1. CASE j = i
    <3>1. ~Pending(i)'
      BY <1>10, <2>1 DEF Pending
    <3>2. flight[i].call.id \in ToCome
      BY <1>2, <1>4 DEF ToCome
    <3>3. flight[i].call.id \notin Range(staging) \cup orphans
      BY <1>1, <3>2 DEF ReportsKept
    <3> QED BY <1>2, <1>6, <2>1, <3>1, <3>3 DEF MayBeStaged
  <2>2. CASE j # i
    <3>1. j \in DOMAIN flight /\ flight'[j] = flight[j]
      BY <1>3, <2>2 DEF CallStep
    <3> QED BY <1>1, <1>2, <1>9, <1>10, <3>1 DEF ReportsKept
  <2> QED BY <2>1, <2>2
<1>11. ASSUME NEW j \in DOMAIN flight', Shows(j)'
       PROVE  ShownInOrder(flight'[j].call.id, flight'[j].seen)
  <2>1. j # i
    BY <1>3, <1>11 DEF Shows
  <2>2. j \in DOMAIN flight /\ flight'[j] = flight[j]
    BY <1>3, <2>1 DEF CallStep
  <2>3. Shows(j)
    BY <1>11, <2>2 DEF Shows
  <2> QED BY <1>1, <1>2, <2>2, <2>3 DEF OrderKept
<1> QED BY <1>2, <1>5, <1>6, <1>7, <1>8, <1>10, <1>11, ToolsKeep

\* The result of a call reaches the loop.
LEMMA CallReturnsKeeps ==
    ASSUME AgentInv, NEW i \in DOMAIN flight, CallReturns(i) PROVE AgentInv'
<1>1. AgentTypeOK /\ ReportsKept /\ OrderKept
  BY DEF AgentInv
<1>2. AtTools /\ UNCHANGED <<run, budget, staging, orphans, count>>
  BY DEF CallReturns, AtTools
<1>3. /\ CallStep(i) /\ flight[i].at = "applied"
      /\ flight'[i].at = "done" /\ flight'[i].seen = flight[i].seen
      /\ flight'[i].text = IF Mutates(flight[i].call) THEN "result" ELSE "shown"
      /\ loop' \in LoopType /\ loop'.pc = "tools" /\ loop'.msgs = loop.msgs
      /\ loop'.rest = loop.rest /\ loop'.turn = loop.turn
  BY <1>1, CallReturnsIs
<1>4. ~Pending(i)'
  BY <1>3 DEF Pending
<1>5. /\ AtTools' /\ Live' /\ Owed' = Owed /\ ToCome' \subseteq ToCome
      /\ \A j \in DOMAIN flight : flight'[j].call = flight[j].call
      /\ \A j, k \in DOMAIN flight' : Mutates(flight'[j].call) => j = k
  BY <1>2, <1>3, <1>4, CallStepIs
<1>6. AgentTypeOK'
  BY <1>1, <1>2, <1>3 DEF AgentTypeOK, CallStep
<1>7. LoopStands'
  BY <1>2, <1>3, <1>5, ToolsStand
<1>8. MayBeStaged' \subseteq MayBeStaged
  BY <1>2, <1>5 DEF MayBeStaged
<1>9. ASSUME NEW j \in DOMAIN flight', flight'[j].at = "done", flight'[j].text = "refused"
      PROVE  flight'[j].call.id \notin MayBeStaged'
  <2>1. j # i
    BY <1>3, <1>9
  <2>2. j \in DOMAIN flight /\ flight'[j] = flight[j]
    BY <1>3, <2>1 DEF CallStep
  <2> QED BY <1>1, <1>2, <1>8, <1>9, <2>2 DEF ReportsKept
<1>10. ASSUME NEW j \in DOMAIN flight', Shows(j)'
       PROVE  ShownInOrder(flight'[j].call.id, flight'[j].seen)
  <2>1. CASE j = i
    <3>1. ~Mutates(flight[i].call)
      BY <1>3, <1>10, <2>1 DEF Shows
    <3>2. Shows(i)
      BY <1>3, <3>1 DEF Shows
    <3> QED BY <1>1, <1>2, <1>3, <1>5, <2>1, <3>2 DEF OrderKept
  <2>2. CASE j # i
    <3>1. j \in DOMAIN flight /\ flight'[j] = flight[j]
      BY <1>3, <2>2 DEF CallStep
    <3>2. Shows(j)
      BY <1>10, <3>1 DEF Shows
    <3> QED BY <1>1, <1>2, <3>1, <3>2 DEF OrderKept
  <2> QED BY <2>1, <2>2
<1> QED BY <1>2, <1>3, <1>5, <1>6, <1>7, <1>9, <1>10, ToolsKeep

\* One more mutation is applied.
LEMMA StagingGrows ==
    ASSUME staging \in Seq(CallId), NEW id \in CallId, staging' = Append(staging, id)
    PROVE  /\ staging' \in Seq(CallId) /\ Len(staging') = Len(staging) + 1
           /\ Len(staging) \in Nat /\ DOMAIN staging = 1..Len(staging)
           /\ DOMAIN staging' = 1..(Len(staging) + 1)
           /\ \A k \in DOMAIN staging : staging'[k] = staging[k]
           /\ staging'[Len(staging) + 1] = id
           /\ \A k \in DOMAIN staging' : k \in DOMAIN staging \/ k = Len(staging) + 1
           /\ \A x \in Range(staging') : x \in Range(staging) \/ x = id
<1>1. /\ staging' \in Seq(CallId) /\ Len(staging') = Len(staging) + 1
      /\ Len(staging) \in Nat /\ DOMAIN staging = 1..Len(staging)
      /\ DOMAIN staging' = 1..(Len(staging) + 1)
      /\ \A k \in DOMAIN staging : staging'[k] = staging[k]
      /\ staging'[Len(staging) + 1] = id
  BY AppendProperties
<1>2. \A k \in DOMAIN staging' : k \in DOMAIN staging \/ k = Len(staging) + 1
  BY <1>1
<1>3. \A x \in Range(staging') : x \in Range(staging) \/ x = id
  BY <1>1, <1>2 DEF Range
<1> QED BY <1>1, <1>2, <1>3

\* What a read has shown stays true when a mutation of another turn, or of a
\* later call, is applied.
LEMMA ShownStays ==
    ASSUME staging \in Seq(CallId), NEW id \in CallId, staging' = Append(staging, id),
           NEW shown \in CallId, NEW at \in Nat, ShownInOrder(shown, at),
           id[1] = shown[1] => shown[2] < id[2]
    PROVE  ShownInOrder(shown, at)'
<1>1. /\ Len(staging') = Len(staging) + 1 /\ Len(staging) \in Nat
      /\ \A k \in DOMAIN staging : staging'[k] = staging[k]
      /\ staging'[Len(staging) + 1] = id
      /\ \A k \in DOMAIN staging' : k \in DOMAIN staging \/ k = Len(staging) + 1
  BY StagingGrows
<1>2. /\ at <= Len(staging)
      /\ \A k \in DOMAIN staging : staging[k][1] = shown[1]
            => (k <= at <=> staging[k][2] <= shown[2])
  BY DEF ShownInOrder
<1>3. at <= Len(staging')
  BY <1>1, <1>2
<1>4. ASSUME NEW k \in DOMAIN staging', staging'[k][1] = shown[1]
      PROVE  k <= at <=> staging'[k][2] <= shown[2]
  <2>1. CASE k \in DOMAIN staging
    BY <1>1, <1>2, <1>4, <2>1
  <2>2. CASE k = Len(staging) + 1
    <3>1. ~(k <= at)
      BY <1>1, <1>2, <2>2
    <3>2. shown[2] < id[2] /\ staging'[k] = id
      BY <1>1, <1>4, <2>2
    <3>3. id[2] \in Nat /\ shown[2] \in Nat
      BY DEF CallId
    <3> QED BY <3>1, <3>2, <3>3
  <2> QED BY <1>1, <2>1, <2>2
<1> QED BY <1>3, <1>4 DEF ShownInOrder

\* What is said of calls is said by messages, their results number staging.
LEMMA SaidAre ==
    ASSUME AgentInv, NEW m \in Said
    PROVE  m \in MessageType /\ m.at \in Nat
<1>1. loop.msgs \in Messages /\ run.snap.msgs \in Messages
  BY HistoriesAre DEF AgentInv
<1>2. \A i \in DOMAIN loop.msgs : loop.msgs[i] \in MessageType
  BY <1>1, ElementIs
<1>3. \A i \in DOMAIN run.snap.msgs : run.snap.msgs[i] \in MessageType
  BY <1>1, ElementIs
<1>4. m \in MessageType
  BY <1>2, <1>3 DEF Said, Talk, Range
<1> QED BY <1>4 DEF MessageType

\* The executor carries a mutation out.
LEMMA MutationKeeps ==
    ASSUME AgentInv, NEW i \in DOMAIN flight, Execute(i), AtTools, Mutates(flight[i].call)
    PROVE  AgentInv'
<1> DEFINE id == flight[i].call.id
<1>1. AgentTypeOK /\ LoopStands /\ HistoryKept /\ IdsKept /\ ReportsKept /\ OrderKept
  BY DEF AgentInv
<1>2. UNCHANGED <<run, loop, budget, orphans, count>>
  BY DEF Execute
<1>3. /\ CallStep(i) /\ flight[i].at = "asked" /\ flight'[i].at = "applied"
      /\ staging' \in Seq(CallId) /\ staging' = Append(staging, id)
  BY <1>1, ExecuteIs
<1>4. DOMAIN flight = {i} /\ DOMAIN flight' = {i}
  BY <1>1, <1>3 DEF LoopStands, CallStep
<1>5. id \in CallId /\ id[1] \in Nat /\ id[2] \in Nat
  <2>1. flight[i].call \in CallType
    BY <1>1, OwedAreCalls
  <2> QED BY <2>1 DEF CallType, CallId
<1>6. Pending(i) /\ ~Pending(i)' /\ id \in ToCome /\ id[1] = loop.turn
  <2>1. Pending(i) /\ ~Pending(i)'
    BY <1>3 DEF Pending
  <2>2. id \in ToCome
    BY <2>1 DEF ToCome
  <2> QED BY <2>1, <2>2, SaidIsOld
<1>7. loop'.pc = "tools" /\ loop'.rest = loop.rest /\ loop'.turn = loop.turn
  BY <1>2 DEF AtTools
<1>8. /\ AtTools' /\ Live' /\ Owed' = Owed /\ ToCome' \subseteq ToCome
      /\ id \notin ToCome'
      /\ \A j \in DOMAIN flight : flight'[j].call = flight[j].call
      /\ \A j, k \in DOMAIN flight' : Mutates(flight'[j].call) => j = k
  BY <1>3, <1>6, <1>7, CallStepIs
<1> HIDE DEF id
<1>9. staging \in Seq(CallId)
  BY <1>1, PartsAre
<1>10. /\ \A k \in DOMAIN staging : staging'[k] = staging[k]
       /\ staging'[Len(staging) + 1] = id
       /\ \A k \in DOMAIN staging' : k \in DOMAIN staging \/ k = Len(staging) + 1
       /\ \A x \in Range(staging') : x \in Range(staging) \/ x = id
  BY <1>3, <1>5, <1>9, StagingGrows
<1>11. Said' = Said
  BY <1>2 DEF Said
<1>12. AgentTypeOK'
  BY <1>1, <1>2, <1>3 DEF AgentTypeOK, CallStep
<1>13. LoopStands'
  BY <1>2, <1>7, <1>8, ToolsStand
<1>14. BudgetKept'
  <2>1. Live /\ budget'.iter = budget.iter /\ UNCHANGED <<run, count>>
    BY <1>2 DEF AtTools, Live
  <2> QED BY <1>7, <2>1, ToolsPayNothing
<1>15. HistoryKept'
  BY <1>1, <1>2, <1>8 DEF HistoryKept
<1>16. IdsKept'
  <2>1. \A k \in DOMAIN staging' : staging'[k][1] <= loop'.turn
    <3>1. id[1] <= loop.turn
      BY <1>5, <1>6
    <3> QED BY <1>1, <1>2, <1>10, <3>1 DEF IdsKept
  <2> QED BY <1>1, <1>2, <1>8, <1>11, <2>1 DEF IdsKept
<1>17. ReportsKept'
  <2>1. \A x \in MayBeStaged' : x \in MayBeStaged
    BY <1>2, <1>6, <1>8, <1>10 DEF MayBeStaged
  <2>2. \A m \in Said' : m.role = "tool" /\ m.text \in NotDone => m.id \notin MayBeStaged'
    BY <1>1, <1>11, <2>1 DEF ReportsKept
  <2>3. \A j \in DOMAIN flight' : flight'[j].at # "done"
    BY <1>3, <1>4
  <2>4. ToCome' \cap (Range(staging') \cup orphans') = {}
    <3>1. \A x \in ToCome' : x \in ToCome /\ x # id
      BY <1>8
    <3>2. \A x \in ToCome' : x \notin Range(staging) /\ x \notin orphans
      BY <1>1, <3>1 DEF ReportsKept
    <3> QED BY <1>2, <1>10, <3>1, <3>2
  <2> QED BY <2>2, <2>3, <2>4 DEF ReportsKept
<1>18. OrderKept'
  <2>1. ASSUME NEW m \in Said', m.role = "tool", m.text = "shown"
        PROVE  /\ ShownInOrder(m.id, m.at)'
               /\ \A x \in orphans' : x[1] # m.id[1]
               /\ \A x \in ToCome' : x[1] = m.id[1] => m.id[2] < x[2]
    <3>1. /\ ShownInOrder(m.id, m.at)
          /\ \A x \in orphans : x[1] # m.id[1]
          /\ \A x \in ToCome : x[1] = m.id[1] => m.id[2] < x[2]
      BY <1>1, <1>11, <2>1 DEF OrderKept
    <3>2. m.id \in CallId /\ m.at \in Nat
      BY <1>11, <2>1, SaidIsOld, SaidAre
    <3>3. id[1] = m.id[1] => m.id[2] < id[2]
      BY <1>6, <3>1
    <3>4. ShownInOrder(m.id, m.at)'
      BY <1>3, <1>5, <1>9, <3>1, <3>2, <3>3, ShownStays
    <3> QED BY <1>2, <1>8, <3>1, <3>4
  <2>2. \A j \in DOMAIN flight' : ~Shows(j)'
    <3>1. Mutates(flight'[i].call)
      BY <1>3 DEF CallStep
    <3> QED BY <1>3, <1>4, <3>1 DEF Shows
  <2>3. \A x \in orphans' : x[1] # loop'.turn
    BY <1>1, <1>2 DEF OrderKept
  <2>4. ASSUME NEW k \in DOMAIN staging', NEW x \in ToCome', staging'[k][1] = loop'.turn
        PROVE  staging'[k][2] < x[2]
    <3>1. CASE k \in DOMAIN staging
      BY <1>1, <1>2, <1>8, <1>10, <2>4, <3>1 DEF OrderKept
    <3>2. CASE k = Len(staging) + 1
      <4>1. \A j \in DOMAIN flight' : ~Pending(j)'
        BY <1>4, <1>6
      <4>2. PICK c \in Range(loop.rest) : x = c.id
        BY <1>2, <2>4, <4>1 DEF ToCome
      <4>3. id[2] < c.id[2]
        BY <4>2, OwedGrow DEF id
      <4> QED BY <1>10, <3>2, <4>2, <4>3
    <3> QED BY <1>10, <3>1, <3>2
  <2> QED BY <1>8, <2>1, <2>2, <2>3, <2>4 DEF OrderKept
<1> QED BY <1>12, <1>13, <1>14, <1>15, <1>16, <1>17, <1>18 DEF AgentInv

\* The executor carries out a read the loop waits for.
LEMMA ReadKeeps ==
    ASSUME AgentInv, NEW i \in DOMAIN flight, Execute(i), AtTools, ~Mutates(flight[i].call)
    PROVE  AgentInv'
<1>1. AgentTypeOK /\ ReportsKept /\ OrderKept
  BY DEF AgentInv
<1>2. UNCHANGED <<run, loop, budget, orphans, count>>
  BY DEF Execute
<1>3. /\ CallStep(i) /\ flight[i].at = "asked" /\ flight'[i].at = "applied"
      /\ flight'[i].seen = Len(staging') /\ staging' = staging
  BY <1>1, ExecuteIs
<1>4. Pending(i) /\ ~Pending(i)' /\ flight[i].call.id \in ToCome
  <2>1. Pending(i) /\ ~Pending(i)'
    BY <1>3 DEF Pending
  <2> QED BY <2>1 DEF ToCome
<1>5. loop'.pc = "tools" /\ loop'.rest = loop.rest /\ loop'.turn = loop.turn
      /\ loop'.msgs = loop.msgs
  BY <1>2 DEF AtTools
<1>6. /\ AtTools' /\ Live' /\ Owed' = Owed /\ ToCome' \subseteq ToCome
      /\ \A j \in DOMAIN flight : flight'[j].call = flight[j].call
      /\ \A j, k \in DOMAIN flight' : Mutates(flight'[j].call) => j = k
  BY <1>3, <1>4, <1>5, CallStepIs
<1>7. AgentTypeOK'
  BY <1>1, <1>2, <1>3 DEF AgentTypeOK, CallStep
<1>8. LoopStands'
  BY <1>2, <1>5, <1>6, ToolsStand
<1>9. MayBeStaged' \subseteq MayBeStaged
  BY <1>2, <1>3, <1>6 DEF MayBeStaged
<1>10. ASSUME NEW j \in DOMAIN flight', flight'[j].at = "done", flight'[j].text = "refused"
       PROVE  flight'[j].call.id \notin MayBeStaged'
  <2>1. j # i
    BY <1>3, <1>10
  <2>2. j \in DOMAIN flight /\ flight'[j] = flight[j]
    BY <1>3, <2>1 DEF CallStep
  <2> QED BY <1>1, <1>9, <1>10, <2>2 DEF ReportsKept
<1>11. ASSUME NEW j \in DOMAIN flight', Shows(j)'
       PROVE  ShownInOrder(flight'[j].call.id, flight'[j].seen)
  <2>1. CASE j = i
    <3>1. staging \in Seq(CallId) /\ Len(staging) \in Nat /\ DOMAIN staging = 1..Len(staging)
      BY <1>1, PartsAre
    <3>2. flight[i].call.id[1] = loop.turn /\ flight[i].call.id[2] \in Nat
      BY OwedGrow
    <3>3. \A k \in DOMAIN staging : staging[k][1] = loop.turn
            => staging[k][2] < flight[i].call.id[2]
      BY <1>1, <1>4 DEF OrderKept
    <3>4. \A k \in DOMAIN staging : staging[k][2] \in Nat /\ k <= Len(staging)
      <4>1. \A k \in DOMAIN staging : staging[k] \in CallId
        BY <3>1, ElementOfSeq
      <4> QED BY <3>1, <4>1 DEF CallId
    <3>5. \A k \in DOMAIN staging : staging[k][1] = flight[i].call.id[1]
            => (k <= Len(staging) <=> staging[k][2] <= flight[i].call.id[2])
      BY <3>2, <3>3, <3>4
    <3>6. ShownInOrder(flight[i].call.id, Len(staging))
      BY <3>1, <3>5 DEF ShownInOrder
    <3> QED BY <1>3, <1>6, <2>1, <3>6
  <2>2. CASE j # i
    <3>1. j \in DOMAIN flight /\ flight'[j] = flight[j]
      BY <1>3, <2>2 DEF CallStep
    <3>2. Shows(j)
      BY <1>11, <3>1 DEF Shows
    <3> QED BY <1>1, <3>1, <3>2 DEF OrderKept
  <2> QED BY <2>1, <2>2
<1>12. budget'.iter = budget.iter /\ UNCHANGED <<run, staging, orphans, count>>
  BY <1>2, <1>3
<1> QED BY <1>5, <1>6, <1>7, <1>8, <1>10, <1>11, <1>12, ToolsKeep

\* The executor carries out a read of a run that has failed.
LEMMA LateReadKeeps ==
    ASSUME AgentInv, NEW i \in DOMAIN flight, Execute(i), ~AtTools PROVE QuietStep
<1>1. AgentTypeOK /\ LoopStands /\ BudgetKept /\ HistoryKept
  BY DEF AgentInv
<1>2. UNCHANGED <<run, loop, budget, orphans, count>> /\ flight # <<>>
  BY DEF Execute
<1>3. ~Live
  BY <1>1, <1>2 DEF LoopStands, AtTools, Live
<1>4. CallStep(i) /\ flight[i].at = "asked" /\ (~Mutates(flight[i].call) => staging' = staging)
  BY <1>1, ExecuteIs
<1>5. ~Mutates(flight[i].call) /\ staging' = staging
  BY <1>1, <1>3, <1>4 DEF LoopStands
<1>6. AgentTypeOK'
  BY <1>1, <1>2, <1>4, <1>5 DEF AgentTypeOK, CallStep
<1>7. LoopStands'
  <2>1. \A j \in DOMAIN flight' : flight'[j].call = flight[j].call
    BY <1>4 DEF CallStep
  <2>2. \A j, k \in DOMAIN flight' : Mutates(flight'[j].call) => j = k
    BY <1>1, <1>4, <2>1 DEF LoopStands, CallStep
  <2>3. \A j \in DOMAIN flight' : Mutates(flight'[j].call) => flight'[j].at = "done"
    BY <1>1, <1>3, <1>4, <1>5, <2>1 DEF LoopStands, CallStep
  <2> QED BY <1>1, <1>2, <1>3, <2>2, <2>3 DEF LoopStands, Live
<1>8. BudgetKept'
  BY <1>1, <1>2 DEF BudgetKept, Behind, Live, BudgetHolds
<1>9. Quiet
  <2>1. Said' = Said
    BY <1>2 DEF Said
  <2>2. loop.msgs = <<>> /\ loop.pc # "tools"
    BY <1>1, <1>3 DEF LoopStands, Live
  <2> QED BY <1>1, <1>2, <1>5, <2>1, <2>2, NoMessages DEF Quiet, HistoryKept
<1> QED BY <1>6, <1>7, <1>8, <1>9 DEF QuietStep

\* A mutation whose caller is gone is carried out after all, or never.
LEMMA OrphanAppliedKeeps ==
    ASSUME AgentInv, NEW id \in orphans, OrphanApplied(id) PROVE AgentInv'
<1>1. AgentTypeOK /\ LoopStands /\ BudgetKept /\ HistoryKept /\ IdsKept /\ ReportsKept /\ OrderKept
  BY DEF AgentInv
<1>2. /\ UNCHANGED <<run, loop, budget, flight, count>>
      /\ orphans' = orphans \ {id} /\ staging' \in {staging, Append(staging, id)}
  BY DEF OrphanApplied
<1>3. id \in CallId /\ id[1] \in Nat /\ id[1] <= loop.turn /\ loop.turn \in Nat
  BY SaidIsOld
<1>4. staging \in Seq(CallId)
  BY <1>1, PartsAre
<1>5. AtTools' = AtTools /\ Owed' = Owed /\ ToCome' = ToCome /\ Said' = Said
  BY <1>2 DEF AtTools, Owed, FlightCalls, ToCome, Pending, Said
<1>6. AgentTypeOK'
  <2>1. staging' \in Seq(CallId)
    BY <1>2, <1>3, <1>4, AppendProperties
  <2> QED BY <1>1, <1>2, <2>1 DEF AgentTypeOK
<1>7. LoopStands'
  BY <1>1, <1>2 DEF LoopStands, Live
<1>8. BudgetKept'
  BY <1>1, <1>2 DEF BudgetKept, Behind, Live, BudgetHolds
<1>9. HistoryKept'
  BY <1>1, <1>2, <1>5 DEF HistoryKept
<1>10. CASE staging' = staging
  <2>1. IdsKept'
    BY <1>1, <1>2, <1>5, <1>10 DEF IdsKept
  <2>2. MayBeStaged' \subseteq MayBeStaged
    BY <1>2, <1>5, <1>10 DEF MayBeStaged
  <2>3. ReportsKept'
    BY <1>1, <1>2, <1>5, <1>10, <2>2 DEF ReportsKept
  <2>4. OrderKept'
    <3>1. \A shown, at : ShownInOrder(shown, at)' <=> ShownInOrder(shown, at)
      BY <1>10 DEF ShownInOrder
    <3>2. \A j \in DOMAIN flight : Shows(j)' <=> Shows(j)
      BY <1>2 DEF Shows
    <3> QED BY <1>1, <1>2, <1>5, <1>10, <3>1, <3>2 DEF OrderKept
  <2> QED BY <1>6, <1>7, <1>8, <1>9, <2>1, <2>3, <2>4 DEF AgentInv
<1>11. CASE staging' = Append(staging, id)
  <2>1. /\ \A k \in DOMAIN staging : staging'[k] = staging[k]
        /\ staging'[Len(staging) + 1] = id
        /\ \A k \in DOMAIN staging' : k \in DOMAIN staging \/ k = Len(staging) + 1
        /\ \A x \in Range(staging') : x \in Range(staging) \/ x = id
    BY <1>3, <1>4, <1>11, StagingGrows
  <2>2. IdsKept'
    <3>1. \A k \in DOMAIN staging' : staging'[k][1] <= loop'.turn
      BY <1>1, <1>2, <1>3, <2>1 DEF IdsKept
    <3> QED BY <1>1, <1>2, <1>5, <3>1 DEF IdsKept
  <2>3. ReportsKept'
    <3>1. \A x \in MayBeStaged' : x \in MayBeStaged
      BY <1>2, <1>5, <2>1 DEF MayBeStaged
    <3>2. \A x \in Range(staging') \cup orphans' : x \in Range(staging) \cup orphans
      BY <1>2, <2>1
    <3>3. ToCome' \cap (Range(staging') \cup orphans') = {}
      BY <1>1, <1>5, <3>2 DEF ReportsKept
    <3>4. \A m \in Said' : m.role = "tool" /\ m.text \in NotDone => m.id \notin MayBeStaged'
      BY <1>1, <1>5, <3>1 DEF ReportsKept
    <3>5. AtTools' => \A j \in DOMAIN flight' :
             flight'[j].at = "done" /\ flight'[j].text = "refused"
             => flight'[j].call.id \notin MayBeStaged'
      BY <1>1, <1>2, <1>5, <3>1 DEF ReportsKept
    <3> QED BY <3>3, <3>4, <3>5 DEF ReportsKept
  <2>4. OrderKept'
    <3>1. ASSUME NEW m \in Said', m.role = "tool", m.text = "shown"
          PROVE  /\ ShownInOrder(m.id, m.at)'
                 /\ \A x \in orphans' : x[1] # m.id[1]
                 /\ \A x \in ToCome' : x[1] = m.id[1] => m.id[2] < x[2]
      <4>1. /\ ShownInOrder(m.id, m.at)
            /\ \A x \in orphans : x[1] # m.id[1]
            /\ \A x \in ToCome : x[1] = m.id[1] => m.id[2] < x[2]
        BY <1>1, <1>5, <3>1 DEF OrderKept
      <4>2. m.id \in CallId /\ m.at \in Nat
        BY <1>5, <3>1, SaidIsOld, SaidAre
      <4>3. ShownInOrder(m.id, m.at)'
        BY <1>3, <1>4, <1>11, <4>1, <4>2, ShownStays
      <4> QED BY <1>2, <1>5, <4>1, <4>3
    <3>2. ASSUME AtTools', NEW j \in DOMAIN flight', Shows(j)'
          PROVE  ShownInOrder(flight[j].call.id, flight[j].seen)'
      <4>1. AtTools /\ j \in DOMAIN flight /\ Shows(j)
        BY <1>2, <1>5, <3>2 DEF Shows
      <4>2. ShownInOrder(flight[j].call.id, flight[j].seen)
        BY <1>1, <4>1 DEF OrderKept
      <4>3. flight[j].call \in CallType /\ flight[j] \in FlightType
        BY <1>1, <4>1, OwedAreCalls
      <4>4. flight[j].call.id \in CallId /\ flight[j].seen \in Nat
        BY <4>3 DEF CallType, FlightType
      <4>5. flight[j].call.id[1] = loop.turn /\ id[1] # loop.turn
        BY <1>1, <4>1, OwedGrow DEF OrderKept
      <4>6. ShownInOrder(flight[j].call.id, flight[j].seen) /\ id[1] # flight[j].call.id[1]
        BY <4>2, <4>5
      <4>7. \A shown \in CallId, at \in Nat :
               ShownInOrder(shown, at) /\ id[1] # shown[1] => ShownInOrder(shown, at)'
        BY <1>3, <1>4, <1>11, ShownStays
      <4>8. flight' = flight
        BY <1>2
      <4> QED BY <4>4, <4>6, <4>7, <4>8
    <3>3. ASSUME AtTools' PROVE \A x \in orphans' : x[1] # loop'.turn
      BY <1>1, <1>2, <1>5, <3>3 DEF OrderKept
    <3>4. ASSUME NEW k \in DOMAIN staging', NEW x \in ToCome', staging'[k][1] = loop'.turn
          PROVE  staging'[k][2] < x[2]
      <4>1. AtTools
        BY <1>5, <3>4 DEF ToCome
      <4>2. id[1] # loop.turn
        BY <1>1, <4>1 DEF OrderKept
      <4>3. k \in DOMAIN staging /\ staging'[k] = staging[k]
        BY <1>2, <2>1, <3>4, <4>2
      <4> QED BY <1>1, <1>2, <1>5, <3>4, <4>3 DEF OrderKept
    <3> QED BY <3>1, <3>2, <3>3, <3>4 DEF OrderKept
  <2> QED BY <1>6, <1>7, <1>8, <1>9, <2>2, <2>3, <2>4 DEF AgentInv
<1> QED BY <1>2, <1>10, <1>11

\* The results that join the history are those it was to be completed with.
LEMMA ValidResultsJoin ==
    ASSUME NEW ms \in Messages, NEW res \in Messages,
           NEW done \in Seq(CallType), NEW left \in Seq(CallType),
           Len(res) = Len(done),
           \A i \in 1..Len(done) : /\ res[i].role = "tool" /\ res[i].id = done[i].id
                                   /\ res[i].calls = <<>>,
           ValidHistory(Completed(ms, done \o left))
    PROVE  ms \o res \in Messages /\ ValidHistory(Completed(ms \o res, left))
<1> DEFINE owed == done \o left
           new == ms \o res
           one == Completed(ms, owed)
           two == Completed(new, left)
<1>1. /\ Len(ms) \in Nat /\ Len(res) \in Nat /\ Len(done) \in Nat /\ Len(left) \in Nat
      /\ ms \in Seq(MessageType) /\ res \in Seq(MessageType)
  BY DEF Messages
<1>2. /\ owed \in Seq(CallType) /\ Len(owed) = Len(done) + Len(left)
      /\ \A i \in 1..(Len(done) + Len(left)) :
            owed[i] = IF i <= Len(done) THEN done[i] ELSE left[i - Len(done)]
  BY ConcatProperties
<1>3. /\ new \in Seq(MessageType) /\ Len(new) = Len(ms) + Len(res)
      /\ \A i \in 1..(Len(ms) + Len(res)) :
            new[i] = IF i <= Len(ms) THEN ms[i] ELSE res[i - Len(ms)]
  BY ONLY <1>1, ConcatProperties
<1>4. new \in Messages
  BY <1>3 DEF Messages
<1> HIDE DEF owed, new
<1>5. /\ one \in Messages /\ Len(one) = Len(ms) + Len(owed)
      /\ \A i \in 1..Len(ms) : one[i] = ms[i]
      /\ \A i \in 1..Len(owed) : one[Len(ms) + i] = Tool(owed[i].id, "not_executed", 0)
  BY <1>2, CompletedIs
<1>6. /\ two \in Messages /\ Len(two) = Len(new) + Len(left)
      /\ \A i \in 1..Len(new) : two[i] = new[i]
      /\ \A i \in 1..Len(left) : two[Len(new) + i] = Tool(left[i].id, "not_executed", 0)
  BY <1>4, CompletedIs
<1>7. ValidHistory(one)
  BY DEF owed
<1> HIDE DEF one, two
<1>8. Len(one) = Len(two)
  BY <1>1, <1>2, <1>3, <1>5, <1>6
<1>9. \A c \in CallType : /\ Tool(c.id, "not_executed", 0).role = "tool"
                          /\ Tool(c.id, "not_executed", 0).calls = <<>>
                          /\ Tool(c.id, "not_executed", 0).id = c.id
  <2>1. \A c \in CallType : c.id \in CallId
    BY DEF CallType
  <2> QED BY <2>1, NotExecutedIs
<1>10. ASSUME NEW i \in 1..Len(one)
       PROVE  /\ one[i].role = two[i].role /\ one[i].id = two[i].id
              /\ one[i].calls = two[i].calls
  <2>1. i \in Nat /\ i >= 1 /\ i <= Len(ms) + Len(done) + Len(left)
    BY <1>1, <1>2, <1>5
  <2>2. CASE i <= Len(ms)
    <3>1. i \in 1..Len(ms) /\ i \in 1..Len(new) /\ i \in 1..(Len(ms) + Len(res))
      BY <1>1, <1>3, <2>1, <2>2
    <3>2. one[i] = ms[i] /\ two[i] = new[i] /\ new[i] = ms[i]
      BY <1>3, <1>5, <1>6, <2>2, <3>1
    <3> QED BY <3>2
  <2>3. CASE ~(i <= Len(ms)) /\ i <= Len(ms) + Len(done)
    <3> DEFINE j == i - Len(ms)
    <3>1. /\ j \in 1..Len(done) /\ j \in 1..Len(owed) /\ i = Len(ms) + j
          /\ i \in 1..Len(new) /\ i \in 1..(Len(ms) + Len(res))
          /\ j \in 1..(Len(done) + Len(left)) /\ j <= Len(done)
      <4>1. Len(owed) = Len(done) + Len(left) /\ Len(new) = Len(ms) + Len(done)
            /\ Len(ms) + Len(res) = Len(ms) + Len(done)
        BY <1>2, <1>3
      <4>2. /\ j \in 1..Len(done) /\ i = Len(ms) + j /\ i \in 1..(Len(ms) + Len(done))
            /\ j \in 1..(Len(done) + Len(left)) /\ j <= Len(done)
        BY <1>1, <2>1, <2>3
      <4> QED BY <4>1, <4>2
    <3>2. owed[j] = done[j] /\ done[j] \in CallType
      <4>1. done[j] \in CallType
        BY <3>1, ElementOfSeq
      <4> QED BY <1>2, <3>1, <4>1
    <3>3. two[i] = res[j]
      BY <1>3, <1>6, <2>3, <3>1
    <3> HIDE DEF j
    <3>4. one[i] = Tool(done[j].id, "not_executed", 0)
      BY <1>5, <3>1, <3>2
    <3> QED BY <1>9, <3>1, <3>2, <3>3, <3>4
  <2>4. CASE ~(i <= Len(ms) + Len(done))
    <3> DEFINE j == i - Len(ms)
               k == i - (Len(ms) + Len(done))
    <3>1. /\ k \in 1..Len(left) /\ i = Len(new) + k
          /\ j \in 1..Len(owed) /\ i = Len(ms) + j
          /\ j \in 1..(Len(done) + Len(left)) /\ ~(j <= Len(done)) /\ j - Len(done) = k
      BY <1>1, <1>2, <1>3, <2>1, <2>4
    <3> HIDE DEF j, k
    <3>2. owed[j] = left[k] /\ left[k] \in CallType
      <4>1. left[k] \in CallType
        BY <3>1, ElementOfSeq
      <4> QED BY <1>2, <3>1, <4>1
    <3>3. one[i] = Tool(left[k].id, "not_executed", 0)
      BY <1>5, <3>1, <3>2
    <3>4. two[i] = Tool(left[k].id, "not_executed", 0)
      BY <1>6, <3>1
    <3> QED BY <3>3, <3>4
  <2> QED BY <2>2, <2>3, <2>4
<1>11. ValidHistory(two)
  BY <1>5, <1>6, <1>7, <1>8, <1>10, ValidBySameShape
<1> QED BY <1>4, <1>11 DEF new, two

\* The result of a call that was made.
LEMMA ResultIs ==
    ASSUME NEW id \in CallId, NEW text \in {"none", "not_executed", "refused", "result", "shown"}, NEW at \in Nat
    PROVE  /\ Tool(id, text, at) \in MessageType
           /\ Tool(id, text, at).role = "tool" /\ Tool(id, text, at).calls = <<>>
           /\ Tool(id, text, at).id = id /\ Tool(id, text, at).text = text
           /\ Tool(id, text, at).at = at
<1>1. <<>> \in Seq(CallType)
  OBVIOUS
<1> QED BY <1>1 DEF Tool, User, MessageType

\* All calls of the group are answered and their results join the history.
LEMMA GroupEndsKeeps ==
    ASSUME AgentInv, GroupEnds PROVE AgentInv'
<1> DEFINE res == [i \in DOMAIN flight |->
                      Tool(flight[i].call.id, flight[i].text, flight[i].seen)]
           ms == loop.msgs \o res
<1>1. AgentTypeOK /\ LoopStands /\ HistoryKept /\ IdsKept /\ ReportsKept /\ OrderKept
  BY DEF AgentInv
<1>2. /\ AtTools /\ UNCHANGED <<run, staging, orphans, count>>
      /\ flight' = <<>> /\ budget' \in Later(budget)
      /\ \A i \in DOMAIN flight : flight[i].at = "done"
      /\ loop' = [loop EXCEPT !.msgs = ms]
  BY DEF GroupEnds, AtTools
<1>3. /\ FlightCalls \in Seq(CallType) /\ Len(FlightCalls) = Len(flight)
      /\ DOMAIN flight = 1..Len(flight) /\ Len(flight) \in Nat
      /\ \A i \in 1..Len(flight) : /\ flight[i] \in FlightType /\ flight[i].call \in CallType
                                   /\ FlightCalls[i] = flight[i].call
      /\ loop.rest \in Seq(CallType)
  BY <1>1, OwedAreCalls
<1>4. loop.msgs \in Messages /\ loop \in LoopType /\ budget \in BudgetType /\ loop.turn \in Nat
  BY <1>1, PartsAre
<1>5. ASSUME NEW i \in DOMAIN flight
      PROVE  /\ res[i] \in MessageType /\ res[i].role = "tool" /\ res[i].calls = <<>>
             /\ res[i].id = flight[i].call.id /\ res[i].text = flight[i].text
             /\ res[i].at = flight[i].seen
  <2>1. /\ flight[i].call.id \in CallId /\ flight[i].seen \in Nat
        /\ flight[i].text \in {"none", "refused", "result", "shown"}
    <3>1. flight[i] \in FlightType /\ flight[i].call \in CallType
      BY <1>3
    <3> QED BY <3>1 DEF FlightType, CallType
  <2>2. res[i] = Tool(flight[i].call.id, flight[i].text, flight[i].seen)
    OBVIOUS
  <2> HIDE DEF res
  <2> DEFINE id == flight[i].call.id
             text == flight[i].text
             at == flight[i].seen
  <2>3. /\ id \in CallId /\ at \in Nat /\ text \in {"none", "refused", "result", "shown"}
        /\ res[i] = Tool(id, text, at)
    BY <2>1, <2>2
  <2> HIDE DEF id, text, at
  <2>4. /\ res[i] \in MessageType /\ res[i].role = "tool" /\ res[i].calls = <<>>
        /\ res[i].id = id /\ res[i].text = text /\ res[i].at = at
    BY ONLY <2>3, ResultIs
  <2> QED BY <2>4 DEF id, text, at
<1>6. /\ res \in Messages /\ Len(res) = Len(flight)
      /\ \A i \in DOMAIN flight :
            /\ res[i].role = "tool" /\ res[i].calls = <<>>
            /\ res[i].id = flight[i].call.id /\ res[i].text = flight[i].text
            /\ res[i].at = flight[i].seen
  <2>1. res \in [1..Len(flight) -> MessageType]
    BY <1>3, <1>5
  <2>2. res \in Seq(MessageType) /\ Len(res) = Len(flight)
    BY <1>3, <2>1, IsASeq
  <2> QED BY <1>5, <2>2 DEF Messages
<1>7. DOMAIN res = DOMAIN flight
  OBVIOUS
<1> HIDE DEF res
<1>8. \A x \in Range(res) : \E i \in DOMAIN flight :
         /\ x.role = "tool" /\ x.calls = <<>>
         /\ x.id = flight[i].call.id /\ x.text = flight[i].text /\ x.at = flight[i].seen
  BY <1>6, <1>7 DEF Range
<1>9. ms \in Messages /\ ValidHistory(Completed(ms, loop.rest))
  <2>1. ValidHistory(Completed(loop.msgs, FlightCalls \o loop.rest))
    BY <1>1, <1>2 DEF HistoryKept, Owed
  <2>2. Len(res) = Len(FlightCalls)
    BY <1>3, <1>6
  <2>3. \A i \in 1..Len(FlightCalls) :
           /\ res[i].role = "tool" /\ res[i].id = FlightCalls[i].id /\ res[i].calls = <<>>
    BY <1>3, <1>6
  <2> QED BY <1>3, <1>4, <1>6, <2>1, <2>2, <2>3, ValidResultsJoin
<1>10. Talk(ms) \subseteq Talk(loop.msgs) \cup Range(res)
  BY <1>4, <1>6, TalkJoins
<1> HIDE DEF ms
<1>11. /\ loop' \in LoopType /\ loop'.pc = "tools" /\ loop'.rest = loop.rest
       /\ loop'.msgs = ms /\ loop'.turn = loop.turn
  BY <1>2, <1>4, <1>9 DEF LoopType, AtTools
<1>12. DOMAIN flight' = {} /\ flight' = <<>>
  BY <1>2
<1>13. /\ AtTools' /\ Live /\ Owed' = loop.rest
       /\ ToCome = {c.id : c \in Range(loop.rest)} /\ ToCome' = ToCome
  <2>1. FlightCalls' = <<>>
    BY <1>12 DEF FlightCalls
  <2>2. Owed' = <<>> \o loop.rest
    BY <1>11, <2>1 DEF Owed, AtTools
  <2>3. Owed' = loop.rest
    BY <1>3, <2>2, ConcatEmptySeq
  <2>4. \A i \in DOMAIN flight : ~Pending(i)
    BY <1>2 DEF Pending
  <2>5. ToCome = {c.id : c \in Range(loop.rest)}
    BY <1>2, <2>4 DEF ToCome
  <2> QED BY <1>2, <1>11, <1>12, <2>3, <2>5 DEF AtTools, ToCome, Live
<1>14. Said' \subseteq Said \cup Range(res)
  BY <1>2, <1>10, <1>11 DEF Said
<1>15. budget' \in BudgetType /\ budget'.iter = budget.iter
  BY <1>2, <1>4, LaterIs
<1>16. AgentTypeOK'
  BY <1>1, <1>2, <1>11, <1>12, <1>15 DEF AgentTypeOK
<1>17. LoopStands'
  BY <1>2, <1>11, <1>12, ToolsStand
<1>18. BudgetKept'
  BY <1>2, <1>11, <1>13, <1>15, ToolsPayNothing
<1>19. HistoryKept'
  BY <1>1, <1>2, <1>9, <1>11, <1>13 DEF HistoryKept
<1>20. \A i \in DOMAIN flight :
          /\ flight[i].call.id \in CallId /\ flight[i].call.id[1] = loop.turn
          /\ \A c \in Range(loop.rest) : flight[i].call.id[2] < c.id[2]
  <2>1. \A i \in DOMAIN flight : flight[i].call.id \in CallId
    BY <1>3 DEF CallType
  <2> QED BY <1>2, <2>1, OwedGrow
<1>21. IdsKept'
  <2>1. ASSUME NEW x \in Said'
        PROVE  /\ x.calls # <<>> => x.role = "assistant"
               /\ \A k \in DOMAIN x.calls : x.calls[k].id[2] = k
               /\ x.role = "tool" => x.id \in CallId /\ x.id[1] <= loop'.turn
    <3>1. CASE x \in Said
      BY <1>1, <1>11, <3>1 DEF IdsKept
    <3>2. CASE x \in Range(res)
      <4>1. x.calls = <<>> /\ x.id \in CallId /\ x.id[1] = loop.turn
        BY <1>8, <1>20, <3>2
      <4>2. DOMAIN x.calls = {}
        BY <4>1
      <4> QED BY <1>4, <1>11, <4>1, <4>2
    <3> QED BY <1>14, <2>1, <3>1, <3>2
  <2>2. /\ \A x \in Talk(run'.snap.msgs) : x.role = "tool" => x.id[1] < loop'.turn
        /\ \A id \in orphans' : id[1] <= loop'.turn
        /\ \A k \in DOMAIN staging' : staging'[k][1] <= loop'.turn
    BY <1>1, <1>2, <1>11 DEF IdsKept
  <2>3. \A k \in DOMAIN Owed' : /\ Owed'[k].id[1] = loop'.turn
                                /\ \A j \in DOMAIN Owed' : k < j => Owed'[k].id[2] < Owed'[j].id[2]
    <3>1. /\ Len(loop.rest) \in Nat /\ DOMAIN loop.rest = 1..Len(loop.rest)
          /\ \A k \in 1..Len(loop.rest) : /\ Len(flight) + k \in DOMAIN Owed
                                           /\ Owed[Len(flight) + k] = loop.rest[k]
      BY <1>1, <1>2, OwedIs
    <3>2. \A k, j \in 1..Len(loop.rest) : k < j => Len(flight) + k < Len(flight) + j
      BY <1>3, <3>1
    <3>3. \A k \in DOMAIN Owed : /\ Owed[k].id[1] = loop.turn
                                 /\ \A j \in DOMAIN Owed : k < j => Owed[k].id[2] < Owed[j].id[2]
      BY <1>1 DEF IdsKept
    <3>4. \A k \in 1..Len(loop.rest) : loop.rest[k].id[1] = loop.turn
      BY <3>1, <3>3
    <3>5. \A k, j \in 1..Len(loop.rest) : k < j => loop.rest[k].id[2] < loop.rest[j].id[2]
      BY <3>1, <3>2, <3>3
    <3> QED BY <1>11, <1>13, <3>1, <3>4, <3>5
  <2> QED BY <2>1, <2>2, <2>3 DEF IdsKept
<1>22. ReportsKept'
  <2>1. MayBeStaged' = MayBeStaged
    BY <1>2, <1>13 DEF MayBeStaged
  <2>2. ASSUME NEW x \in Said', x.role = "tool", x.text \in NotDone
        PROVE  x.id \notin MayBeStaged'
    <3>1. CASE x \in Said
      BY <1>1, <2>1, <2>2, <3>1 DEF ReportsKept
    <3>2. CASE x \in Range(res)
      <4>1. PICK i \in DOMAIN flight : x.id = flight[i].call.id /\ x.text = flight[i].text
        BY <1>8, <3>2
      <4>2. flight[i].text = "refused"
        BY <1>3, <2>2, <4>1 DEF FlightType, NotDone
      <4> QED BY <1>1, <1>2, <2>1, <4>1, <4>2 DEF ReportsKept
    <3> QED BY <1>14, <2>2, <3>1, <3>2
  <2>3. ToCome' \cap (Range(staging') \cup orphans') = {}
    BY <1>1, <1>2, <1>13 DEF ReportsKept
  <2> QED BY <1>12, <2>2, <2>3 DEF ReportsKept
<1>23. OrderKept'
  <2>1. \A id, at : ShownInOrder(id, at)' <=> ShownInOrder(id, at)
    BY <1>2 DEF ShownInOrder
  <2>2. ASSUME NEW x \in Said', x.role = "tool", x.text = "shown"
        PROVE  /\ ShownInOrder(x.id, x.at)
               /\ \A id \in orphans' : id[1] # x.id[1]
               /\ \A id \in ToCome' : id[1] = x.id[1] => x.id[2] < id[2]
    <3>1. CASE x \in Said
      BY <1>1, <1>2, <1>13, <2>2, <3>1 DEF OrderKept
    <3>2. CASE x \in Range(res)
      <4>1. PICK i \in DOMAIN flight : /\ x.id = flight[i].call.id /\ x.text = flight[i].text
                                       /\ x.at = flight[i].seen
        BY <1>8, <3>2
      <4>2. Shows(i)
        BY <1>2, <2>2, <4>1 DEF Shows
      <4>3. ShownInOrder(x.id, x.at)
        BY <1>1, <1>2, <4>1, <4>2 DEF OrderKept
      <4>4. \A id \in orphans' : id[1] # x.id[1]
        BY <1>1, <1>2, <1>20, <4>1 DEF OrderKept
      <4>5. \A id \in ToCome' : x.id[2] < id[2]
        BY <1>13, <1>20, <4>1
      <4> QED BY <4>3, <4>4, <4>5
    <3> QED BY <1>14, <2>2, <3>1, <3>2
  <2>3. \A id \in orphans' : id[1] # loop'.turn
    BY <1>1, <1>2, <1>11 DEF OrderKept
  <2>4. \A k \in DOMAIN staging', id \in ToCome' :
           staging'[k][1] = loop'.turn => staging'[k][2] < id[2]
    BY <1>1, <1>2, <1>11, <1>13 DEF OrderKept
  <2> QED BY <1>12, <2>1, <2>2, <2>3, <2>4 DEF OrderKept
<1> QED BY <1>16, <1>17, <1>18, <1>19, <1>21, <1>22, <1>23 DEF AgentInv

\* The invariant holds before the run has begun.
LEMMA AgentInitInv == AgentInit => AgentInv
<1> SUFFICES ASSUME AgentInit PROVE AgentInv
  OBVIOUS
<1>1. /\ run = [state |-> "none", safe |-> FALSE, why |-> "none",
                snap |-> NoSnapshot, offered |-> FALSE]
      /\ loop = NoLoop /\ budget = Fresh /\ flight = <<>>
      /\ staging = <<>> /\ orphans = {}
      /\ count = [rounds |-> 0, faults |-> 0, steers |-> 0, paid |-> 0]
  BY DEF AgentInit
<1>2. <<>> \in Messages /\ <<>> \in Seq(CallType)
  BY DEF Messages
<1>3. /\ loop \in LoopType /\ loop.pc = "none" /\ loop.msgs = <<>> /\ loop.rest = <<>>
      /\ loop.turn = 0
  BY <1>1, <1>2 DEF NoLoop, LoopType
<1>4. NoSnapshot \in SnapshotType /\ NoSnapshot.msgs = <<>> /\ NoSnapshot.budget = Fresh
  BY <1>2, FreshIs DEF NoSnapshot, SnapshotType
<1>5. /\ run \in RunType /\ run.state = "none" /\ run.safe = FALSE /\ run.snap = NoSnapshot
  BY <1>1, <1>4 DEF RunType
<1>6. count \in CountType /\ count.paid = 0 /\ count.faults = 0
  BY <1>1 DEF CountType
<1>7. AgentTypeOK
  BY <1>1, <1>3, <1>5, <1>6, FreshIs DEF AgentTypeOK
<1>8. LoopStands
  BY <1>1, <1>3, <1>5 DEF LoopStands, Live
<1>9. BudgetKept
  BY <1>1, <1>3, <1>4, <1>5, <1>6, FreshIs, LoopLimits DEF BudgetKept, Live, BudgetHolds
<1>10. /\ ~AtTools /\ Said = {} /\ Owed = <<>> /\ DOMAIN Owed = {} /\ ToCome = {}
  BY <1>3, <1>4, <1>5, NoMessages DEF AtTools, Said, Owed, ToCome
<1>11. HistoryKept
  BY <1>2, <1>3, <1>5, <1>10, CompletedOwesNothing, NoMessages DEF HistoryKept
<1>12. IdsKept /\ ReportsKept /\ OrderKept
  BY <1>1, <1>10 DEF IdsKept, ReportsKept, OrderKept
<1> QED BY <1>7, <1>8, <1>9, <1>11, <1>12 DEF AgentInv

-----------------------------------------------------------------------------
(***************************************************************************)
(* AgentLoop: the theorems.                                                *)
(***************************************************************************)

\* A step that answers no call keeps the invariant.
LEMMA QuietStepKeeps ==
    ASSUME AgentInv, QuietStep PROVE AgentInv' /\ staging' = staging
BY QuietKeeps DEF QuietStep, AgentInv, Quiet

\* A call of the group goes on, is carried out or fails.
LEMMA CallKeeps ==
    ASSUME AgentInv, NEW i \in DOMAIN flight,
           CallBegins(i) \/ Execute(i) \/ CallReturns(i) \/ CallFails(i) \/ LateCall(i)
    PROVE  AgentInv'
<1>1. CASE CallBegins(i)
  BY <1>1, CallBeginsKeeps
<1>2. CASE Execute(i)
  <2>1. CASE ~AtTools
    BY <1>2, <2>1, LateReadKeeps, QuietStepKeeps
  <2>2. CASE AtTools /\ Mutates(flight[i].call)
    BY <1>2, <2>2, MutationKeeps
  <2>3. CASE AtTools /\ ~Mutates(flight[i].call)
    BY <1>2, <2>3, ReadKeeps
  <2> QED BY <2>1, <2>2, <2>3
<1>3. CASE CallReturns(i)
  BY <1>3, CallReturnsKeeps
<1>4. CASE CallFails(i)
  BY <1>4, CallFailsKeeps, QuietStepKeeps
<1>5. CASE LateCall(i)
  BY <1>5, LateCallKeeps, QuietStepKeeps
<1> QED BY <1>1, <1>2, <1>3, <1>4, <1>5

\* The steps of the loop outside its tools.
Plainly ==
    \/ StartRun \/ ResumeRun \/ PauseHere \/ CompactStart \/ TurnStart \/ Steered
    \/ CompactEnd \/ TurnFails \/ ReplyEmpty \/ ReplyFinal \/ TurnLate
    \/ Offer \/ TurnEnds \/ WindDown \/ Cancel \/ GatewayDies

\* They answer no call.
LEMMA PlainlyKeeps ==
    ASSUME AgentInv, Plainly PROVE QuietStep
<1>1. CASE StartRun
  BY <1>1, StartRunKeeps
<1>2. CASE ResumeRun
  BY <1>2, ResumeRunKeeps
<1>3. CASE PauseHere
  BY <1>3, PauseHereKeeps
<1>4. CASE CompactStart
  BY <1>4, CompactStartKeeps
<1>5. CASE TurnStart
  BY <1>5, TurnStartKeeps
<1>6. CASE Steered
  BY <1>6, SteeredKeeps
<1>7. CASE CompactEnd
  BY <1>7, CompactEndKeeps
<1>8. CASE TurnFails
  BY <1>8, TurnFailsKeeps
<1>9. CASE ReplyEmpty
  BY <1>9, ReplyEmptyKeeps
<1>10. CASE ReplyFinal
  BY <1>10, ReplyFinalKeeps
<1>11. CASE TurnLate
  BY <1>11, TurnLateKeeps
<1>12. CASE Offer
  BY <1>12, OfferKeeps
<1>13. CASE TurnEnds
  BY <1>13, TurnEndsKeeps
<1>14. CASE WindDown
  BY <1>14, WindDownKeeps
<1>15. CASE Cancel
  BY <1>15, CancelKeeps
<1>16. CASE GatewayDies
  BY <1>16, GatewayDiesKeeps
<1> QED BY <1>1, <1>2, <1>3, <1>4, <1>5, <1>6, <1>7, <1>8, <1>9, <1>10, <1>11, <1>12,
           <1>13, <1>14, <1>15, <1>16 DEF Plainly

\* The invariant is a matter of the variables alone.
LEMMA AgentStutters ==
    ASSUME AgentInv, UNCHANGED agentVars PROVE AgentInv'
<1>1. UNCHANGED <<run, loop, budget, flight, staging, orphans, count>>
  BY DEF agentVars
<1>2. AgentTypeOK' /\ LoopStands' /\ BudgetKept'
  BY <1>1 DEF AgentInv, AgentTypeOK, LoopStands, Live, BudgetKept, BudgetHolds, Behind
<1>3. Said' = Said /\ Owed' = Owed /\ AtTools' = AtTools /\ ToCome' = ToCome
  BY <1>1 DEF Said, Owed, FlightCalls, AtTools, ToCome, Pending
<1>4. HistoryKept' /\ IdsKept'
  BY <1>1, <1>3 DEF AgentInv, HistoryKept, IdsKept
<1>5. MayBeStaged' = MayBeStaged
  BY <1>1, <1>3 DEF MayBeStaged
<1>6. ReportsKept'
  BY <1>1, <1>3, <1>5 DEF AgentInv, ReportsKept
<1>7. OrderKept'
  <2>1. \A id, at : ShownInOrder(id, at)' <=> ShownInOrder(id, at)
    BY <1>1 DEF ShownInOrder
  <2>2. \A i \in DOMAIN flight : Shows(i)' <=> Shows(i)
    BY <1>1 DEF Shows
  <2> QED BY <1>1, <1>3, <2>1, <2>2 DEF AgentInv, OrderKept
<1> QED BY <1>2, <1>4, <1>6, <1>7 DEF AgentInv

\* Every step of the loop keeps the invariant.
LEMMA AgentNextInv ==
    ASSUME AgentInv, [AgentNext]_agentVars PROVE AgentInv'
<1>1. CASE Plainly
  BY <1>1, PlainlyKeeps, QuietStepKeeps
<1>2. CASE \E tools \in CallLists : ReplyCalls(tools)
  BY <1>2, ReplyCallsKeeps
<1>3. CASE GroupStart
  BY <1>3, GroupStartKeeps
<1>4. CASE GroupEnds
  BY <1>4, GroupEndsKeeps
<1>5. CASE \E i \in DOMAIN flight :
              CallBegins(i) \/ Execute(i) \/ CallReturns(i) \/ CallFails(i) \/ LateCall(i)
  BY <1>5, CallKeeps
<1>6. CASE \E id \in orphans : OrphanApplied(id)
  BY <1>6, OrphanAppliedKeeps
<1>7. CASE UNCHANGED agentVars
  BY <1>7, AgentStutters
<1> QED BY <1>1, <1>2, <1>3, <1>4, <1>5, <1>6, <1>7 DEF AgentNext, Plainly

\* The journal, the coroutine, the budget, the history and staging agree in
\* every state the agent loop reaches (AgentRuntime.run and what it awaits).
THEOREM AgentInvariant == AgentSpec => []AgentInv
<1>1. AgentInv /\ [AgentNext]_agentVars => AgentInv'
  BY AgentNextInv
<1> QED BY <1>1, AgentInitInv, PTL DEF AgentSpec

\* Pausing and resuming a run buys it no model turns beyond its budget, but
\* for those a crash of the gateway has hidden (RunBudget, _save_snapshot,
\* restore).
THEOREM BudgetPaysForAll == AgentSpec => []BudgetHolds
<1>1. AgentInv => BudgetHolds
  BY DEF AgentInv, BudgetKept
<1> QED BY <1>1, AgentInvariant, PTL

\* Whatever cuts a turn short, each call the model made has its result, no
\* result denies a mutation that staging has, and the calls of a turn take
\* effect in order (_execute_tool_calls, _fill_missing_results).
THEOREM CallsHaveTrueAnswers == AgentSpec => []CallsAreAnswered
<1>1. ASSUME AgentInv PROVE CallsAreAnswered
  <2>1. AgentTypeOK /\ HistoryKept /\ IdsKept /\ ReportsKept /\ OrderKept
    BY <1>1 DEF AgentInv
  <2>2. HistoryValid
    <3>1. ASSUME loop.pc \in {"top", "turn", "compact", "summary"}
          PROVE  ValidHistory(loop.msgs)
      BY <1>1, <3>1, BetweenTools
    <3> QED BY <2>1, <3>1 DEF HistoryValid, HistoryKept
  <2>3. ReportsTrue
    <3> SUFFICES ASSUME NEW ms \in {loop.msgs, run.snap.msgs}, NEW i \in DOMAIN ms,
                        ms[i].role = "tool", ms[i].text \in {"refused", "not_executed"},
                        NEW k \in DOMAIN staging, staging[k] = ms[i].id
                 PROVE  FALSE
      BY DEF ReportsTrue
    <3>1. ms[i] \in Range(ms)
      BY DEF Range
    <3>2. ms[i] \in Said
      BY <3>1 DEF Said, Talk
    <3>3. ms[i].id \in MayBeStaged
      BY DEF MayBeStaged, Range
    <3> QED BY <2>1, <3>2, <3>3 DEF ReportsKept, NotDone
  <2>4. CallsInOrder
    <3> SUFFICES ASSUME NEW i \in DOMAIN loop.msgs, loop.msgs[i].role = "tool",
                        loop.msgs[i].text = "shown",
                        NEW k \in DOMAIN staging, staging[k][1] = loop.msgs[i].id[1]
                 PROVE  (k <= loop.msgs[i].at) = (staging[k][2] <= loop.msgs[i].id[2])
      BY DEF CallsInOrder
    <3>1. loop.msgs[i] \in Range(loop.msgs)
      BY DEF Range
    <3>2. loop.msgs[i] \in Said
      BY <3>1 DEF Said, Talk
    <3>3. k <= loop.msgs[i].at <=> staging[k][2] <= loop.msgs[i].id[2]
      BY <2>1, <3>2 DEF OrderKept, ShownInOrder
    <3> QED BY <3>3
  <2> QED BY <2>2, <2>3, <2>4 DEF CallsAreAnswered
<1>2. AgentInv => CallsAreAnswered
  BY <1>1
<1> QED BY <1>2, AgentInvariant, PTL

\* Once a run has ended, the only mutation that may still reach staging is one
\* the executor was asked for before (the reads of the last group go on).
THEOREM NothingNewFollowsTheEnd == AgentSpec => OnlyReadsFollowTheEnd
<1>1. ASSUME AgentInv, [AgentNext]_agentVars, run.state \in Ended, staging' # staging
      PROVE  Last(staging') \in orphans
  <2>1. ~Live /\ LoopStands /\ AgentTypeOK
    BY <1>1 DEF AgentInv, LoopStands, Ended
  <2>2. ~Plainly
    BY <1>1, PlainlyKeeps, QuietStepKeeps
  <2>3. ASSUME NEW i \in DOMAIN flight,
               CallBegins(i) \/ Execute(i) \/ CallReturns(i) \/ CallFails(i) \/ LateCall(i)
        PROVE  FALSE
    <3>1. ~Execute(i)
      <4>1. SUFFICES ASSUME Execute(i) PROVE FALSE
        OBVIOUS
      <4>2. ~AtTools
        BY <2>1 DEF AtTools, Live
      <4> QED BY <1>1, <4>1, <4>2, LateReadKeeps, QuietStepKeeps
    <3> QED BY <1>1, <2>3, <3>1 DEF CallBegins, CallReturns, CallFails, LateCall
  <2>4. PICK id \in orphans : OrphanApplied(id)
    BY <1>1, <2>2, <2>3
       DEF AgentNext, Plainly, ReplyCalls, GroupStart, GroupEnds, agentVars
  <2>5. staging' = Append(staging, id)
    BY <1>1, <2>4 DEF OrphanApplied
  <2>6. staging \in Seq(CallId) /\ id \in CallId
    BY <2>1 DEF AgentTypeOK
  <2>7. staging'[Len(staging')] = id
    BY <2>5, <2>6, StagingGrows
  <2> QED BY <2>7 DEF Last
<1>2. AgentInv /\ [AgentNext]_agentVars
      => [run.state \in Ended /\ staging' # staging => Last(staging') \in orphans]_agentVars
  BY <1>1
<1> QED BY <1>2, AgentInvariant, PTL DEF AgentSpec, OnlyReadsFollowTheEnd

\* A pause, whatever it saves, is a pause.
LEMMA PauseIsAPause ==
    ASSUME run \in RunType, NEW ms, NEW b
    PROVE  \A why : PausedAt(ms, b, why).state = "paused"
BY DEF PausedAt, Saved, RunType

\* A run that is not worked on is only started or resumed, and one that is
\* worked on never becomes new again.
LEMMA RowMoves ==
    ASSUME AgentInv, [AgentNext]_agentVars
    PROVE  \/ run' = run
           \/ Live /\ run'.state # "none"
           \/ ~Live /\ run.state = "none" /\ run'.state = "started"
           \/ ~Live /\ run.state = "paused" /\ run'.state = "started"
<1>1. run \in RunType
  BY DEF AgentInv, AgentTypeOK
<1>2. CASE StartRun
  <2>1. run' = [Saved(<<User, User>>, Fresh, TRUE) EXCEPT !.state = "started"]
        /\ ~Live /\ run.state = "none"
    BY <1>2 DEF StartRun
  <2>2. run'.state = "started"
    BY <1>1, <2>1 DEF Saved, RunType
  <2> QED BY <2>1, <2>2
<1>3. CASE ResumeRun
  <2> DEFINE ms == Append(run.snap.msgs, User)
             b == BudgetOnResume(run.why, run.snap.budget)
  <2>1. run' = [Saved(ms, b, TRUE) EXCEPT !.state = "started"]
        /\ ~Live /\ run.state = "paused"
    BY <1>3 DEF ResumeRun
  <2> HIDE DEF ms, b
  <2>2. run'.state = "started"
    BY <1>1, <2>1 DEF Saved, RunType
  <2> QED BY <2>1, <2>2
<1>4. CASE PauseHere \/ ReplyEmpty \/ WindDown \/ TurnFails
  <2>1. Live
    BY <1>4 DEF PauseHere, ReplyEmpty, WindDown, TurnFails, Live
  <2>2. run' = run \/ run'.state = "paused" \/ run' = [run EXCEPT !.state = "failed"]
    <3>1. CASE PauseHere
      BY <1>1, <3>1, PauseIsAPause DEF PauseHere
    <3>2. CASE ReplyEmpty
      <4>1. run' = run \/ run' = PausedAt(loop.msgs, budget, "empty_reply")
        BY <3>2 DEF ReplyEmpty
      <4> QED BY <1>1, <4>1, PauseIsAPause
    <3>3. CASE WindDown
      <4>1. \E b, ms, why : run' = PausedAt(ms, b, why)
        BY <3>3 DEF WindDown
      <4> QED BY <1>1, <4>1, PauseIsAPause
    <3>4. CASE TurnFails
      <4>1. \/ run' = PausedAt(loop.msgs, budget, "provider_error")
            \/ run' = [run EXCEPT !.state = "failed"]
        BY <3>4 DEF TurnFails, EndRun
      <4> QED BY <1>1, <4>1, PauseIsAPause
    <3> QED BY <1>4, <3>1, <3>2, <3>3, <3>4
  <2> QED BY <1>1, <2>1, <2>2 DEF RunType
<1>5. CASE CompactEnd \/ TurnLate
  <2>1. Live
    BY <1>5 DEF CompactEnd, TurnLate, Live
  <2>2. run' = run \/ run'.state = "paused"
    BY <1>1, <1>5, PauseIsAPause DEF CompactEnd, TurnLate, Overspent
  <2> QED BY <2>1, <2>2
<1>6. CASE ReplyFinal \/ TurnEnds
  <2>1. Live
    BY <1>6 DEF ReplyFinal, TurnEnds, Live
  <2>2. run'.state = run.state \/ run'.state = "completed"
    <3>1. CASE ReplyFinal
      <4> DEFINE ms == Append(loop.msgs, Assistant(<<>>))
      <4>1. \/ run' = Saved(ms, budget, FALSE)
            \/ run' = [Saved(ms, budget, FALSE) EXCEPT !.state = "completed"]
        BY <3>1 DEF ReplyFinal
      <4> HIDE DEF ms
      <4>2. run'.state = run.state \/ run'.state = "completed"
        BY ONLY <1>1, <4>1 DEF Saved, RunType
      <4> QED BY <4>2
    <3>2. CASE TurnEnds
      <4> DEFINE ms == loop.msgs
      <4>1. run' = Saved(ms, budget, TRUE)
        BY <3>2 DEF TurnEnds
      <4> HIDE DEF ms
      <4>2. run'.state = run.state
        BY ONLY <1>1, <4>1 DEF Saved, RunType
      <4> QED BY <4>2
    <3> QED BY <1>6, <3>1, <3>2
  <2>3. run.state = "started"
    BY <2>1, LiveRun
  <2> QED BY <2>1, <2>2, <2>3
<1>7. CASE Offer \/ Cancel \/ GatewayDies \/ \E i \in DOMAIN flight : CallFails(i)
  <2>1. Live
    BY <1>7 DEF Offer, Cancel, GatewayDies, CallFails, Live
  <2>2. run'.state \in {"completed", "failed", "cancelled", "paused"}
    BY <1>1, <1>7 DEF Offer, Cancel, GatewayDies, CallFails, EndRun, RunType
  <2> QED BY <2>1, <2>2
<1>8. CASE CompactStart \/ TurnStart \/ Steered \/ GroupStart \/ GroupEnds
  BY <1>8 DEF CompactStart, TurnStart, Steered, GroupStart, GroupEnds
<1>9. CASE \E tools \in CallLists : ReplyCalls(tools)
  BY <1>9 DEF ReplyCalls
<1>10. CASE \E i \in DOMAIN flight :
               CallBegins(i) \/ Execute(i) \/ CallReturns(i) \/ LateCall(i)
  BY <1>10 DEF CallBegins, Execute, CallReturns, LateCall
<1>11. CASE \E id \in orphans : OrphanApplied(id)
  BY <1>11 DEF OrphanApplied
<1>12. CASE UNCHANGED agentVars
  BY <1>12 DEF agentVars
<1> QED BY <1>2, <1>3, <1>4, <1>5, <1>6, <1>7, <1>8, <1>9, <1>10, <1>11, <1>12 DEF AgentNext

\* The loop keeps the promise RunProtocol states, also when the gateway dies:
\* a run pauses only where it can be taken up again, completes only while it
\* is worked on, and ends for good.
THEOREM LoopImplementsProtocol == AgentSpec => LoopKeepsProtocol
<1>1. ASSUME AgentInv, AgentInv', [AgentNext]_agentVars
      PROVE  \/ Protocol!ProtocolNext
             \/ run.state = "none" /\ run'.state = "started"
  <2>1. /\ run \in RunType /\ run' \in RunType /\ LoopStands /\ LoopStands'
    BY <1>1 DEF AgentInv, AgentTypeOK
  <2>2. CASE run' = run
    BY <2>2 DEF Protocol!ProtocolNext, Protocol!Unchanged
  <2>3. CASE Live /\ run'.state # "none"
    <3>1. run.state = "started"
      BY <2>1, <2>3 DEF LoopStands
    <3>2. Protocol!Open(1)
      BY <3>1 DEF Protocol!Open, Protocol!Ended
    <3>3. CASE run'.state = "started"
      BY <3>2, <3>3 DEF Protocol!ProtocolNext, Protocol!Work
    <3>4. CASE run'.state = "paused"
      <4>1. run'.safe
        BY <2>1, <3>4 DEF LoopStands
      <4> QED BY <3>2, <3>4, <4>1 DEF Protocol!ProtocolNext, Protocol!Pause
    <3>5. CASE run'.state \in {"completed", "failed", "cancelled"}
      BY <3>1, <3>2, <3>5 DEF Protocol!ProtocolNext, Protocol!End, Protocol!Ended
    <3> QED BY <2>1, <2>3, <3>3, <3>4, <3>5 DEF RunType
  <2>4. CASE run.state = "paused" /\ run'.state = "started"
    BY <2>4 DEF Protocol!ProtocolNext, Protocol!Work, Protocol!Open, Protocol!Ended
  <2> QED BY <1>1, <2>2, <2>3, <2>4, RowMoves
<1>2. AgentInv /\ AgentInv' /\ [AgentNext]_agentVars
      => [\/ Protocol!ProtocolNext
          \/ run.state = "none" /\ run'.state = "started"]_agentVars
  BY <1>1
<1> QED BY <1>2, AgentInvariant, PTL DEF AgentSpec, LoopKeepsProtocol

-----------------------------------------------------------------------------
(***************************************************************************)
(* Permissions: the invariant.                                             *)
(***************************************************************************)
RowType ==
    [mode : {"plan", "agent"}, tool : STRING, prefix : Seq(STRING),
     tokens : Seq(STRING), enabled : BOOLEAN]

\* A grant is a rule the user made, or a request allowed for the run or for good.
GrantType ==
    [what : {"rule"}, id : Nat \ {0}, rule : Specs]
    \cup [what : {"saved"}, id : Nat \ {0}, req : Requests]
    \cup [what : {"run"}, id : {0}, req : Requests]

PermTypeOK ==
    /\ table \in Seq(RowType) /\ asking \subseteq Requests
    /\ session \in [policy : {"prompt", "sandbox", "auto"}, network : BOOLEAN]
    /\ grants \subseteq GrantType
    /\ \A g \in grants : g.id # 0 => g.id \in DOMAIN table
    /\ last \subseteq [req : Requests, out : {"allow", "deny"}, asked : BOOLEAN]

\* A rule allows what a grant agreed to.
Grants(g, rule) ==
    LET agreed == IF g.what = "rule" THEN g.rule ELSE RuleFor(g.req, "allow")
    IN  /\ rule.mode = agreed.mode /\ rule.tool = agreed.tool
        /\ rule.prefix = agreed.prefix /\ rule.tokens = agreed.tokens

\* Each row, and each rule of the run, is there because the user agreed to it.
RowsAreAgreed == \A i \in DOMAIN table : \E g \in grants : g.id = i /\ Grants(g, table[i])
RunRulesAreAgreed ==
    /\ \A r \in runRules : \E g \in grants : g.what = "run" /\ r = RuleFor(g.req, "allow")
    /\ \A g \in grants : g.what = "run" => RuleFor(g.req, "allow") \in runRules

PermInv == PermTypeOK /\ RowsAreAgreed /\ RunRulesAreAgreed /\ ApprovalsAreExact

-----------------------------------------------------------------------------
(***************************************************************************)
(* Permissions: prefixes and scopes.                                       *)
(***************************************************************************)

\* A prefix agrees with a path on the components it has.
LEMMA PrefixIs ==
    ASSUME NEW S, NEW s \in Seq(S), NEW t \in Seq(S)
    PROVE  IsPrefix(s, t) <=> Len(s) <= Len(t) /\ \A i \in 1..Len(s) : s[i] = t[i]
<1>1. Len(s) \in Nat /\ Len(t) \in Nat
  BY LenProperties
<1>2. SubSeq(s, 1, Len(s)) = s
  BY SubSeqFull
<1>3. ASSUME Len(s) <= Len(t)
      PROVE  SubSeq(t, 1, Len(s)) = s <=> \A i \in 1..Len(s) : s[i] = t[i]
  <2> DEFINE u == SubSeq(t, 1, Len(s))
  <2>1. \A i \in 1..Len(s) : t[i] \in S
    BY <1>1, <1>3, ElementOfSeq
  <2>2. u \in Seq(S) /\ Len(u) = Len(s) /\ \A i \in 1..Len(s) : u[i] = t[i]
    BY <1>1, <1>3, <2>1
  <2> HIDE DEF u
  <2>3. (\A i \in 1..Len(s) : u[i] = s[i]) => u = s
    BY <2>2, SeqEqual
  <2>4. u = s <=> \A i \in 1..Len(s) : s[i] = t[i]
    BY <2>2, <2>3
  <2> QED BY <2>4 DEF u
<1> QED BY <1>2, <1>3 DEF IsPrefix

\* Nothing is a prefix of everything, and everything of itself.
LEMMA PrefixBasics ==
    ASSUME NEW S, NEW s \in Seq(S)
    PROVE  IsPrefix(<<>>, s) /\ IsPrefix(s, s)
<1>1. Len(s) \in Nat /\ <<>> \in Seq(S) /\ Len(<<>>) = 0
  BY LenProperties
<1>2. IsPrefix(<<>>, s)
  <2>1. \A i \in 1..Len(<<>>) : FALSE
    BY <1>1
  <2>2. Len(<<>>) <= Len(s)
    BY <1>1
  <2> QED BY ONLY <1>1, <2>1, <2>2, s \in Seq(S), PrefixIs
<1>3. IsPrefix(s, s)
  BY <1>1, PrefixIs
<1> QED BY <1>2, <1>3

\* Of two prefixes of one path the shorter is a prefix of the longer, and a
\* prefix of a prefix is a prefix.
LEMMA PrefixesNest ==
    ASSUME NEW S, NEW r \in Seq(S), NEW s \in Seq(S), NEW t \in Seq(S), IsPrefix(s, t)
    PROVE  /\ IsPrefix(r, t) /\ Len(r) <= Len(s) => IsPrefix(r, s)
           /\ IsPrefix(r, s) => IsPrefix(r, t)
<1>1. Len(r) \in Nat /\ Len(s) \in Nat /\ Len(t) \in Nat
  BY LenProperties
<1>2. Len(s) <= Len(t) /\ \A i \in 1..Len(s) : s[i] = t[i]
  BY PrefixIs
<1>3. ASSUME IsPrefix(r, t), Len(r) <= Len(s)
      PROVE  IsPrefix(r, s)
  <2>1. \A i \in 1..Len(r) : r[i] = t[i]
    BY <1>3, PrefixIs
  <2>2. \A i \in 1..Len(r) : i \in 1..Len(s)
    BY <1>1, <1>3
  <2>3. \A i \in 1..Len(r) : r[i] = s[i]
    BY <1>2, <2>1, <2>2
  <2> QED BY <1>3, <2>3, PrefixIs
<1>4. ASSUME IsPrefix(r, s)
      PROVE  IsPrefix(r, t)
  <2>1. Len(r) <= Len(s) /\ \A i \in 1..Len(r) : r[i] = s[i]
    BY <1>4, PrefixIs
  <2>2. \A i \in 1..Len(r) : i \in 1..Len(s)
    BY <1>1, <2>1
  <2>3. Len(r) <= Len(t) /\ \A i \in 1..Len(r) : r[i] = t[i]
    BY <1>1, <1>2, <2>1, <2>2
  <2> QED BY <2>3, PrefixIs
<1> QED BY <1>3, <1>4

\* The directory of a path is a prefix of it.
LEMMA FrontIsAbove ==
    ASSUME NEW S, NEW p \in Seq(S), p # <<>>
    PROVE  /\ Front(p) \in Seq(S) /\ IsPrefix(Front(p), p)
           /\ \A d \in Prefixes(Front(p)) : d \in Seq(S) /\ IsPrefix(d, Front(p))
           /\ <<>> \in Prefixes(Front(p))
<1>1. Len(p) \in Nat /\ Len(p) # 0
  BY LenProperties, EmptySeq
<1>2. ASSUME NEW q \in Seq(S), NEW n \in 0..Len(q)
      PROVE  SubSeq(q, 1, n) \in Seq(S) /\ IsPrefix(SubSeq(q, 1, n), q)
  <2> DEFINE u == SubSeq(q, 1, n)
  <2>1. Len(q) \in Nat /\ n \in Nat /\ n <= Len(q)
    BY LenProperties
  <2>2. \A i \in 1..n : q[i] \in S
    BY <2>1, ElementOfSeq
  <2>3. u \in Seq(S) /\ Len(u) = n /\ \A i \in 1..n : u[i] = q[i]
    BY <2>1, <2>2
  <2> HIDE DEF u
  <2>4. IsPrefix(u, q)
    BY <2>1, <2>3, PrefixIs
  <2> QED BY <2>3, <2>4 DEF u
<1>3. Front(p) \in Seq(S) /\ IsPrefix(Front(p), p)
  <2>1. Len(p) - 1 \in 0..Len(p)
    BY <1>1
  <2> QED BY <1>2, <2>1 DEF Front
<1>4. ASSUME NEW d \in Prefixes(Front(p))
      PROVE  d \in Seq(S) /\ IsPrefix(d, Front(p))
  BY <1>2, <1>3 DEF Prefixes
<1>5. <<>> \in Prefixes(Front(p))
  <2>1. 0 \in 0..Len(Front(p))
    BY <1>3, LenProperties
  <2>2. SubSeq(Front(p), 1, 0) = <<>>
    BY <1>3, SubSeqEmpty
  <2> QED BY <2>1, <2>2 DEF Prefixes
<1> QED BY <1>3, <1>4, <1>5

\* What the requests are.
LEMMA RequestIs ==
    ASSUME NEW q \in Requests
    PROVE  /\ q.mode \in {"plan", "agent"} /\ q.tokens \in Seq(STRING)
           /\ q.simple \in BOOLEAN /\ q.paths \subseteq Seq(STRING)
           /\ \A p \in q.paths : p # <<>>
           /\ q.tool = "bash" => q.paths = {}
           /\ q.tool # "bash" => q.tokens = <<>>
           /\ q.tool # "apply_patch" => \A o, p \in q.paths : o = p
BY RequestsAreTyped

\* The scope of a rule (rule_scope): the file that a request names, or the
\* deepest directory that all files of a patch are in.
LEMMA ScopeIs ==
    ASSUME NEW q \in Requests
    PROVE  /\ RuleScope(q) \in Seq(STRING)
           /\ q.paths = {} => RuleScope(q) = <<>>
           /\ q.paths # {} /\ q.tool # "apply_patch" => RuleScope(q) \in q.paths
           /\ q.paths # {} /\ q.tool = "apply_patch" =>
                 /\ RuleScope(q) \in SharedDirectories(q.paths)
                 /\ \A d \in SharedDirectories(q.paths) : Len(d) <= Len(RuleScope(q))
<1>1. CASE q.paths = {}
  BY <1>1 DEF RuleScope
<1>2. CASE q.paths # {} /\ q.tool # "apply_patch"
  <2>1. RuleScope(q) = CHOOSE p \in q.paths : TRUE
    BY <1>2 DEF RuleScope
  <2>2. (CHOOSE p \in q.paths : TRUE) \in q.paths
    BY <1>2
  <2> QED BY <1>2, <2>1, <2>2, RequestIs
<1>3. CASE q.paths # {} /\ q.tool = "apply_patch"
  <2> DEFINE D == SharedDirectories(q.paths)
  <2>1. PICK o \in q.paths : TRUE
    BY <1>3
  <2>2. \A p \in q.paths : p \in Seq(STRING) /\ p # <<>>
    BY RequestIs
  <2>3. <<>> \in D
    <3>1. \A p \in q.paths : IsPrefix(<<>>, Front(p)) /\ <<>> \in Prefixes(Front(p))
      BY <2>2, FrontIsAbove, PrefixBasics
    <3> QED BY <2>1, <3>1 DEF SharedDirectories
  <2>4. \A d \in D : d \in Seq(STRING)
    BY <2>2, FrontIsAbove DEF SharedDirectories
  <2>5. Len(Front(o)) \in Nat
    BY <2>2, FrontIsAbove, LenProperties
  <2>6. \A d \in D : Len(d) \in 0..Len(Front(o))
    <3>1. \A d \in D : Len(d) \in Nat
      BY <2>4, LenProperties
    <3>2. \A d \in D : Len(d) <= Len(Front(o))
      BY DEF SharedDirectories, IsPrefix
    <3> QED BY <2>5, <3>1, <3>2
  <2> HIDE DEF D
  <2> DEFINE L == {Len(d) : d \in D}
  <2>7. L \subseteq 0..Len(Front(o)) /\ L # {}
    BY <2>3, <2>6
  <2>8. PICK m \in L : \A l \in L : l <= m
    <3> HIDE DEF L
    <3>1. Max(L) \in L /\ \A x \in L : Max(L) >= x
      BY <2>5, <2>7, GreatestExists
    <3>2. \A x \in L : x \in Nat
      BY <2>7
    <3> QED BY <3>1, <3>2
  <2>9. \E d \in D : \A e \in D : Len(e) <= Len(d)
    BY <2>8
  <2> DEFINE best == CHOOSE d \in D : \A e \in D : Len(e) <= Len(d)
  <2>10. best \in D /\ \A e \in D : Len(e) <= Len(best)
    BY <2>9
  <2>11. RuleScope(q) = best
    BY <1>3 DEF RuleScope, D
  <2> HIDE DEF best
  <2>12. RuleScope(q) \in D /\ \A e \in D : Len(e) <= Len(RuleScope(q))
    BY <2>10, <2>11
  <2> QED BY <1>3, <2>4, <2>12 DEF D
<1> QED BY <1>1, <1>2, <1>3

\* A rule made of a request covers the request.
LEMMA RuleCoversItsRequest ==
    ASSUME NEW q \in Requests, q.tool = "bash" => q.simple /\ q.tokens # <<>>
    PROVE  Matches(RuleFor(q, "allow"), q)
<1> DEFINE scope == RuleScope(q)
<1>1. scope # <<>> => q.paths # {} /\ \A p \in q.paths : IsPrefix(scope, p)
  <2> SUFFICES ASSUME scope # <<>>, NEW p \in q.paths
               PROVE  IsPrefix(scope, p)
    BY ScopeIs
  <2>1. p \in Seq(STRING) /\ p # <<>> /\ scope \in Seq(STRING)
    BY RequestIs, ScopeIs
  <2>2. CASE q.tool # "apply_patch"
    <3>1. scope = p
      BY <2>2, RequestIs, ScopeIs
    <3> QED BY <2>1, <3>1, PrefixBasics
  <2>3. CASE q.tool = "apply_patch"
    <3>1. IsPrefix(scope, Front(p))
      BY <2>3, ScopeIs DEF SharedDirectories
    <3>2. Front(p) \in Seq(STRING) /\ IsPrefix(Front(p), p)
      BY <2>1, FrontIsAbove
    <3> QED BY <2>1, <3>1, <3>2, PrefixesNest
  <2> QED BY <2>2, <2>3
<1>2. q.tokens # <<>> => q.tool = "bash" /\ IsPrefix(q.tokens, q.tokens)
  BY RequestIs, PrefixBasics
<1> HIDE DEF scope
<1> DEFINE rule == RuleFor(q, "allow")
<1>3. /\ rule.enabled = TRUE /\ rule.mode = q.mode /\ rule.tool = q.tool
      /\ rule.prefix = scope /\ rule.tokens = q.tokens /\ rule.decision = "allow"
  BY DEF RuleFor, scope
<1> HIDE DEF rule
<1>4. Matches(rule, q)
  BY <1>1, <1>2, <1>3 DEF Matches
<1> QED BY <1>4 DEF rule

\* A rule that matches and was agreed to: what the user agreed to covers the
\* request.
LEMMA AgreedRuleCovers ==
    ASSUME NEW q \in Requests, NEW g \in GrantType, NEW rule,
           Grants(g, rule), Matches(rule, q), rule.decision = "allow",
           g.id # 0 => table[g.id].enabled
    PROVE  Covers(g, q)
<1> DEFINE agreed == IF g.what = "rule" THEN g.rule ELSE RuleFor(g.req, "allow")
<1>1. /\ rule.mode = agreed.mode /\ rule.tool = agreed.tool
      /\ rule.prefix = agreed.prefix /\ rule.tokens = agreed.tokens
  BY DEF Grants
<1>2. /\ rule.mode = q.mode /\ rule.tool = q.tool
      /\ rule.prefix # <<>> => \A p \in q.paths : IsPrefix(rule.prefix, p)
      /\ q.tool = "bash" => IsPrefix(rule.tokens, q.tokens) /\ q.simple
  BY DEF Matches
<1>3. \A p \in q.paths : p \in Seq(STRING) /\ IsPrefix(<<>>, p)
  BY RequestIs, PrefixBasics
<1>4. \A p \in q.paths : IsPrefix(rule.prefix, p)
  BY <1>2, <1>3
<1>5. CASE g.what = "rule"
  <2>1. /\ g.rule.tool = q.tool /\ g.rule.mode = q.mode
        /\ g.rule.prefix = rule.prefix /\ g.rule.tokens = rule.tokens
    BY <1>1, <1>2, <1>5
  <2> QED BY <1>2, <1>4, <1>5, <2>1 DEF Covers
<1>6. CASE g.what # "rule"
  <2>1. g.req \in Requests
    BY <1>6 DEF GrantType
  <2>2. /\ g.req.tool = q.tool /\ g.req.mode = q.mode
        /\ RuleScope(g.req) = rule.prefix /\ g.req.tokens = rule.tokens
    BY <1>1, <1>2, <1>6 DEF RuleFor
  <2>3. ASSUME NEW p \in q.paths, q.tool = "write", NEW o \in g.req.paths
        PROVE  IsPrefix(o, p)
    <3>1. RuleScope(g.req) = o
      BY <2>1, <2>2, <2>3, RequestIs, ScopeIs
    <3> QED BY <1>4, <2>2, <3>1
  <2>4. ASSUME NEW p \in q.paths, q.tool = "apply_patch",
               NEW d \in SharedDirectories(g.req.paths)
        PROVE  IsPrefix(d, p)
    <3>1. PICK o \in g.req.paths : d \in Prefixes(Front(o)) /\ IsPrefix(d, Front(o))
      BY DEF SharedDirectories
    <3>2. o \in Seq(STRING) /\ o # <<>>
      BY <2>1, RequestIs
    <3>3. Front(o) \in Seq(STRING) /\ d \in Seq(STRING)
      BY <3>1, <3>2, FrontIsAbove
    <3> DEFINE scope == RuleScope(g.req)
    <3>4. scope \in Seq(STRING)
      BY <2>1, ScopeIs
    <3>5. scope \in SharedDirectories(g.req.paths) /\ Len(d) <= Len(scope)
      BY <2>1, <2>2, <2>4, ScopeIs
    <3>6. IsPrefix(scope, Front(o))
      BY <3>5 DEF SharedDirectories
    <3>7. IsPrefix(scope, p) /\ p \in Seq(STRING)
      BY <1>3, <1>4, <2>2
    <3> HIDE DEF scope
    <3>8. IsPrefix(d, scope)
      BY <3>1, <3>3, <3>4, <3>5, <3>6, PrefixesNest
    <3> QED BY <3>3, <3>4, <3>7, <3>8, PrefixesNest
  <2> QED BY <1>2, <1>6, <2>2, <2>3, <2>4 DEF Covers
<1> QED BY <1>5, <1>6

\* Every rule there is allows, and was agreed to by a grant that is in force.
LEMMA RulesAreAgreed ==
    ASSUME PermTypeOK, RowsAreAgreed, RunRulesAreAgreed, NEW r \in Rules
    PROVE  /\ r.decision = "allow"
           /\ \E g \in grants : Grants(g, r) /\ (g.id # 0 => table[g.id].enabled)
<1>1. CASE r \in runRules
  <2>1. PICK g \in grants : g.what = "run" /\ r = RuleFor(g.req, "allow")
    BY <1>1 DEF RunRulesAreAgreed
  <2>2. g.id = 0
    BY <2>1 DEF PermTypeOK, GrantType
  <2>3. Grants(g, r)
    BY <2>1 DEF Grants
  <2>4. r.decision = "allow"
    BY <2>1 DEF RuleFor
  <2> QED BY <2>2, <2>3, <2>4
<1>2. CASE r \notin runRules
  <2>1. PICK i \in DOMAIN table : table[i].enabled /\ r = Loaded(table[i])
    BY <1>2 DEF Rules
  <2>2. PICK g \in grants : g.id = i /\ Grants(g, table[i])
    BY DEF RowsAreAgreed
  <2>3. /\ r.mode = table[i].mode /\ r.tool = table[i].tool
        /\ r.prefix = table[i].prefix /\ r.tokens = table[i].tokens
        /\ r.decision = "allow"
    BY <2>1 DEF Loaded
  <2>4. Grants(g, r)
    BY <2>2, <2>3 DEF Grants
  <2> QED BY <2>1, <2>2, <2>3, <2>4
<1> QED BY <1>1, <1>2

\* The decision without a question (resolve_permission, apply_approval_policy).
LEMMA DecisionIs ==
    ASSUME NEW q \in Requests, \A r \in Rules : r.decision = "allow"
    PROVE  LET d == ApplyApprovalPolicy(ResolvePermission(q, Rules), q, session)
               hit == \E r \in Rules : Matches(r, q)
           IN  /\ d \in {"allow", "ask", "deny"}
               /\ d = "ask" => ~hit
               /\ d = "allow" /\ q.tool \in MutationTools =>
                     /\ q.mode = "agent"
                     /\ \/ hit
                        \/ /\ session.policy # "prompt"
                           /\ ~(q.tool = "bash" /\ session.network)
<1> DEFINE hits == {r \in Rules : Matches(r, q)}
           d0 == ResolvePermission(q, Rules)
<1>1. q.mode \in {"plan", "agent"}
  BY RequestIs
<1>2. (~ \E r \in hits : r.decision = "deny") /\ (~ \E r \in hits : r.decision = "ask")
  OBVIOUS
<1>3. hits # {} <=> \E r \in Rules : Matches(r, q)
  OBVIOUS
<1>4. \/ d0 = "deny"
      \/ d0 = "allow" /\ (hits # {} \/ q.tool \in ReadTools)
         /\ ~(q.mode = "plan" /\ q.tool \in MutationTools)
      \/ d0 = "ask" /\ hits = {}
         /\ ~(q.mode = "plan" /\ q.tool \in MutationTools)
  <2>1. CASE q.mode = "plan" /\ q.tool \in MutationTools
    BY <2>1 DEF ResolvePermission
  <2>2. CASE ~(q.mode = "plan" /\ q.tool \in MutationTools)
             /\ q.tool \notin ReadTools \cup MutationTools
    BY <2>2 DEF ResolvePermission
  <2>3. CASE ~(q.mode = "plan" /\ q.tool \in MutationTools)
             /\ q.tool \in ReadTools \cup MutationTools
    BY <1>2, <2>3 DEF ResolvePermission
  <2> QED BY <2>1, <2>2, <2>3
<1>5. q.tool \in MutationTools => q.tool \notin ReadTools
  BY DEF MutationTools, ReadTools
<1> HIDE DEF hits, d0
<1> DEFINE d == ApplyApprovalPolicy(d0, q, session)
<1>6. /\ d \in {"allow", "ask", "deny"}
      /\ d = "ask" => d0 = "ask"
      /\ d = "allow" => \/ d0 = "allow"
                        \/ /\ d0 = "ask" /\ q.mode = "agent" /\ session.policy # "prompt"
                           /\ ~(q.tool = "bash" /\ session.network)
  BY <1>4 DEF ApplyApprovalPolicy
<1> HIDE DEF d
<1>7. /\ d \in {"allow", "ask", "deny"}
      /\ d = "ask" => ~ \E r \in Rules : Matches(r, q)
      /\ d = "allow" /\ q.tool \in MutationTools =>
            /\ q.mode = "agent"
            /\ \/ \E r \in Rules : Matches(r, q)
               \/ session.policy # "prompt" /\ ~(q.tool = "bash" /\ session.network)
  BY <1>1, <1>3, <1>4, <1>5, <1>6
<1> QED BY <1>7 DEF d, d0

-----------------------------------------------------------------------------
(***************************************************************************)
(* Permissions: the steps.                                                 *)
(***************************************************************************)

LEMMA PermInitInv == PermInit => PermInv
BY EmptySeq DEF PermInit, PermInv, PermTypeOK, RowsAreAgreed, RunRulesAreAgreed,
                ApprovalsAreExact, UnaskedIsCovered, NotAskedTwice

\* What was covered stays covered while no row of the table is switched.
LEMMA CoveredStays ==
    ASSUME PermInv, session' = session, grants \subseteq grants', last' = last,
           \A i \in DOMAIN table : i \in DOMAIN table' /\ table'[i] = table[i]
    PROVE  UnaskedIsCovered'
<1>1. ASSUME NEW g \in grants, NEW q, Covers(g, q)
      PROVE  Covers(g, q)'
  <2>1. g.id # 0 => table'[g.id] = table[g.id]
    BY DEF PermInv, PermTypeOK
  <2> QED BY <1>1, <2>1 DEF Covers
<1>2. UnaskedIsCovered
  BY DEF PermInv, ApprovalsAreExact
<1> QED BY <1>1, <1>2 DEF UnaskedIsCovered

\* A row appended for a new grant.
LEMMA RowIsAppended ==
    ASSUME PermInv, NEW row \in RowType, NEW g, table' = Append(table, row),
           grants' = grants \cup {g}, g.id = Len(table) + 1, Grants(g, row)
    PROVE  /\ table' \in Seq(RowType) /\ RowsAreAgreed'
           /\ \A h \in grants' : h.id # 0 => h.id \in DOMAIN table'
           /\ \A i \in DOMAIN table : i \in DOMAIN table' /\ table'[i] = table[i]
           /\ g.id \in Nat \ {0}
<1>1. table \in Seq(RowType)
  BY DEF PermInv, PermTypeOK
<1>2. Len(table) \in Nat /\ DOMAIN table = 1..Len(table)
  BY <1>1, LenProperties
<1>3. table' \in Seq(RowType) /\ Len(table') = Len(table) + 1
  BY <1>1, AppendProperties
<1>4. DOMAIN table' = 1..(Len(table) + 1)
  BY <1>3, LenProperties
<1>5. /\ \A i \in 1..Len(table) : table'[i] = table[i]
      /\ table'[Len(table) + 1] = row
  BY <1>1, <1>2, AppendProperties
<1>6. \A i \in DOMAIN table : i \in DOMAIN table' /\ table'[i] = table[i]
  BY <1>2, <1>4, <1>5
<1>7. \A h \in grants' : h.id # 0 => h.id \in DOMAIN table'
  <2>1. Len(table) + 1 \in DOMAIN table'
    BY <1>2, <1>4
  <2>2. \A h \in grants : h.id # 0 => h.id \in DOMAIN table
    BY DEF PermInv, PermTypeOK
  <2> QED BY <1>6, <2>1, <2>2
<1>8. ASSUME NEW i \in DOMAIN table'
      PROVE  \E h \in grants' : h.id = i /\ Grants(h, table'[i])
  <2>1. CASE i \in DOMAIN table
    <3>1. PICK h \in grants : h.id = i /\ Grants(h, table[i])
      BY <2>1 DEF PermInv, RowsAreAgreed
    <3> QED BY <1>6, <2>1, <3>1
  <2>2. CASE i \notin DOMAIN table
    <3>1. i = Len(table) + 1
      BY <1>2, <1>4, <2>2
    <3> QED BY <1>5, <3>1
  <2> QED BY <2>1, <2>2
<1>9. RowsAreAgreed'
  BY <1>8 DEF RowsAreAgreed, Grants
<1> QED BY <1>2, <1>3, <1>6, <1>7, <1>9

LEMMA CreateRuleKeeps ==
    ASSUME PermInv, NEW spec \in Specs, CreateRule(spec)
    PROVE  PermInv'
<1> DEFINE g == [what |-> "rule", id |-> Len(table) + 1, rule |-> spec]
           row == Row(spec)
<1>1. /\ table' = Append(table, row) /\ grants' = grants \cup {g}
      /\ runRules' = runRules /\ session' = session /\ asking' = asking /\ last' = last
  BY DEF CreateRule
<1>2. row \in RowType
  BY SpecsAreTyped DEF Row, RowType
<1>3. Grants(g, row) /\ g.id = Len(table) + 1 /\ g.what = "rule" /\ g.rule \in Specs
  BY DEF Grants, Row
<1>4. g = [what |-> g.what, id |-> g.id, rule |-> g.rule]
  OBVIOUS
<1> HIDE DEF g, row
<1>5. /\ table' \in Seq(RowType) /\ RowsAreAgreed'
      /\ \A h \in grants' : h.id # 0 => h.id \in DOMAIN table'
      /\ \A i \in DOMAIN table : i \in DOMAIN table' /\ table'[i] = table[i]
      /\ g.id \in Nat \ {0}
  BY <1>1, <1>2, <1>3, RowIsAppended
<1>6. g \in GrantType
  BY <1>3, <1>4, <1>5 DEF GrantType
<1>7. PermTypeOK'
  BY <1>1, <1>5, <1>6 DEF PermInv, PermTypeOK
<1>8. RunRulesAreAgreed'
  BY <1>1, <1>3 DEF PermInv, RunRulesAreAgreed
<1>9. UnaskedIsCovered'
  BY <1>1, <1>5, CoveredStays
<1>10. NotAskedTwice'
  BY <1>1, <1>3 DEF PermInv, ApprovalsAreExact, NotAskedTwice
<1> QED BY <1>5, <1>7, <1>8, <1>9, <1>10 DEF PermInv, ApprovalsAreExact

LEMMA SetRuleEnabledKeeps ==
    ASSUME PermInv, NEW i \in DOMAIN table, NEW enabled \in BOOLEAN,
           SetRuleEnabled(i, enabled)
    PROVE  PermInv'
<1>1. /\ table' = [table EXCEPT ![i].enabled = enabled] /\ last' = {}
      /\ runRules' = runRules /\ session' = session /\ asking' = asking
      /\ grants' = grants
  BY DEF SetRuleEnabled
<1>2. table \in Seq(RowType)
  BY DEF PermInv, PermTypeOK
<1> DEFINE row == [table[i] EXCEPT !.enabled = enabled]
<1>3. table[i] \in RowType
  BY <1>2, ElementOfSeq, LenProperties
<1>4. row \in RowType
  BY <1>3 DEF RowType
<1>5. /\ row.mode = table[i].mode /\ row.tool = table[i].tool
      /\ row.prefix = table[i].prefix /\ row.tokens = table[i].tokens
  BY <1>3 DEF RowType
<1>6. table' = [table EXCEPT ![i] = row]
  BY <1>1, <1>2
<1> HIDE DEF row
<1>7. /\ table' \in Seq(RowType) /\ DOMAIN table' = DOMAIN table
      /\ table'[i] = row /\ \A j \in DOMAIN table : j # i => table'[j] = table[j]
  BY <1>2, <1>4, <1>6, ExceptSeq, LenProperties
<1>8. \A g \in grants, j \in DOMAIN table : Grants(g, table[j]) => Grants(g, table'[j])
  <2> SUFFICES ASSUME NEW g \in grants, NEW j \in DOMAIN table, Grants(g, table[j])
               PROVE  Grants(g, table'[j])
    OBVIOUS
  <2>1. CASE j = i
    BY <1>5, <1>7, <2>1 DEF Grants
  <2>2. CASE j # i
    BY <1>7, <2>2
  <2> QED BY <2>1, <2>2
<1>9. RowsAreAgreed'
  BY <1>1, <1>7, <1>8 DEF PermInv, RowsAreAgreed, Grants
<1>10. PermTypeOK'
  BY <1>1, <1>7 DEF PermInv, PermTypeOK
<1>11. RunRulesAreAgreed' /\ UnaskedIsCovered' /\ NotAskedTwice'
  BY <1>1 DEF PermInv, ApprovalsAreExact, RunRulesAreAgreed, UnaskedIsCovered,
              NotAskedTwice
<1> QED BY <1>9, <1>10, <1>11 DEF PermInv, ApprovalsAreExact

LEMMA RunEndsKeeps ==
    ASSUME PermInv, RunEnds
    PROVE  PermInv'
<1>1. /\ table' = table /\ last' = {} /\ runRules' = {} /\ asking = {} /\ asking' = {}
      /\ session' \in [policy : {"prompt", "sandbox", "auto"}, network : BOOLEAN]
      /\ grants' = {g \in grants : g.what # "run"}
  BY DEF RunEnds
<1>2. PermTypeOK'
  BY <1>1 DEF PermInv, PermTypeOK
<1>3. RowsAreAgreed'
  <2>1. ASSUME NEW i \in DOMAIN table
        PROVE  \E g \in grants' : g.id = i /\ Grants(g, table[i])
    <3>1. PICK g \in grants : g.id = i /\ Grants(g, table[i])
      BY DEF PermInv, RowsAreAgreed
    <3>2. i # 0
      BY LenProperties DEF PermInv, PermTypeOK
    <3>3. g.what # "run"
      BY <3>1, <3>2 DEF PermInv, PermTypeOK, GrantType
    <3> QED BY <1>1, <3>1, <3>3
  <2> QED BY <1>1, <2>1 DEF RowsAreAgreed, Grants
<1>4. RunRulesAreAgreed' /\ UnaskedIsCovered' /\ NotAskedTwice'
  BY <1>1 DEF RunRulesAreAgreed, UnaskedIsCovered, NotAskedTwice
<1> QED BY <1>2, <1>3, <1>4 DEF PermInv, ApprovalsAreExact

LEMMA CallKeepsRules ==
    ASSUME PermInv, NEW q \in Requests, Call(q)
    PROVE  PermInv'
<1> DEFINE d == ApplyApprovalPolicy(ResolvePermission(q, Rules), q, session)
<1>1. /\ asking = {} /\ table' = table /\ runRules' = runRules /\ session' = session
      /\ grants' = grants
  BY DEF Call
<1>2. \/ d = "ask" /\ asking' = {q} /\ last' = last
      \/ /\ d # "ask" /\ last' = {[req |-> q, out |-> d, asked |-> FALSE]}
         /\ asking' = asking
  BY DEF Call
<1>3. \A r \in Rules : /\ r.decision = "allow"
                       /\ \E g \in grants : Grants(g, r)
                                            /\ (g.id # 0 => table[g.id].enabled)
  BY RulesAreAgreed DEF PermInv
<1>4. /\ d \in {"allow", "ask", "deny"}
      /\ d = "ask" => ~ \E r \in Rules : Matches(r, q)
      /\ d = "allow" /\ q.tool \in MutationTools =>
            /\ q.mode = "agent"
            /\ \/ \E r \in Rules : Matches(r, q)
               \/ session.policy # "prompt" /\ ~(q.tool = "bash" /\ session.network)
  BY <1>3, DecisionIs
<1> HIDE DEF d
<1>5. RowsAreAgreed' /\ RunRulesAreAgreed'
  BY <1>1 DEF PermInv, RowsAreAgreed, RunRulesAreAgreed, Grants
<1>6. CASE d = "ask"
  <2>1. PermTypeOK'
    BY <1>1, <1>2, <1>6 DEF PermInv, PermTypeOK
  <2>2. UnaskedIsCovered'
    BY <1>1, <1>2, <1>6, CoveredStays
  <2>3. ASSUME q.tool = "bash" => q.simple /\ q.tokens # <<>>,
               NEW g \in grants, g.what = "run", g.req = q
        PROVE  FALSE
    <3>1. RuleFor(q, "allow") \in Rules
      BY <2>3 DEF PermInv, RunRulesAreAgreed, Rules
    <3>2. Matches(RuleFor(q, "allow"), q)
      BY <2>3, RuleCoversItsRequest
    <3> QED BY <1>4, <1>6, <3>1, <3>2
  <2>4. NotAskedTwice'
    BY <1>1, <1>2, <1>6, <2>3 DEF NotAskedTwice
  <2> QED BY <1>5, <2>1, <2>2, <2>4 DEF PermInv, ApprovalsAreExact
<1>7. CASE d # "ask"
  <2> DEFINE x == [req |-> q, out |-> d, asked |-> FALSE]
  <2>1. last' = {x} /\ asking' = {} /\ d \in {"allow", "deny"}
    BY <1>1, <1>2, <1>4, <1>7
  <2>2. x \in [req : Requests, out : {"allow", "deny"}, asked : BOOLEAN]
    BY <2>1
  <2>3. PermTypeOK'
    BY <1>1, <2>1, <2>2 DEF PermInv, PermTypeOK
  <2>4. NotAskedTwice'
    BY <2>1 DEF NotAskedTwice
  <2>5. ASSUME NEW r \in Rules, Matches(r, q)
        PROVE  \E g \in grants : Covers(g, q)
    <3>1. PICK g \in grants : Grants(g, r) /\ (g.id # 0 => table[g.id].enabled)
      BY <1>3
    <3>2. g \in GrantType
      BY DEF PermInv, PermTypeOK
    <3>3. Covers(g, q)
      BY <1>3, <2>5, <3>1, <3>2, AgreedRuleCovers
    <3> QED BY <3>3
  <2>6. ASSUME d = "allow", q.tool \in MutationTools
        PROVE  /\ q.mode = "agent"
               /\ \/ session.policy # "prompt" /\ ~(q.tool = "bash" /\ session.network)
                  \/ \E g \in grants : Covers(g, q)
    BY <1>4, <2>5, <2>6
  <2>7. x.req = q /\ x.out = d
    OBVIOUS
  <2> HIDE DEF x
  <2>8. UnaskedIsCovered'
    BY <1>1, <2>1, <2>6, <2>7 DEF UnaskedIsCovered, Covers
  <2> QED BY <1>5, <2>3, <2>4, <2>8 DEF PermInv, ApprovalsAreExact
<1> QED BY <1>6, <1>7

\* A rule made of a request is a row, and what the request agreed to.
LEMMA RuleForIs ==
    ASSUME NEW q \in Requests
    PROVE  /\ Row(RuleFor(q, "allow")) \in RowType
           /\ \A g : g.what # "rule" /\ g.req = q =>
                 Grants(g, Row(RuleFor(q, "allow")))
<1>1. q.mode \in {"plan", "agent"} /\ q.tool \in STRING /\ q.tokens \in Seq(STRING)
  BY RequestsAreTyped
<1>2. RuleScope(q) \in Seq(STRING)
  BY ScopeIs
<1> QED BY <1>1, <1>2 DEF Row, RuleFor, RowType, Grants

LEMMA DecideKeeps ==
    ASSUME PermInv, NEW q \in Requests,
           NEW answer \in {"deny", "allow_once", "allow_run", "allow_rule"},
           Decide(q, answer)
    PROVE  PermInv'
<1> DEFINE rule == RuleFor(q, "allow")
           x == [req |-> q, out |-> IF answer = "deny" THEN "deny" ELSE "allow",
                 asked |-> TRUE]
<1>1. asking' = {} /\ last' = {x} /\ session' = session
  BY DEF Decide
<1>2. x \in [req : Requests, out : {"allow", "deny"}, asked : BOOLEAN] /\ x.asked = TRUE
  OBVIOUS
<1> HIDE DEF x
<1>3. UnaskedIsCovered' /\ NotAskedTwice'
  BY <1>1, <1>2 DEF UnaskedIsCovered, NotAskedTwice
<1>4. CASE answer \in {"deny", "allow_once"}
  <2>1. table' = table /\ runRules' = runRules /\ grants' = grants
    BY <1>4 DEF Decide
  <2>2. PermTypeOK' /\ RowsAreAgreed' /\ RunRulesAreAgreed'
    BY <1>1, <1>2, <2>1 DEF PermInv, PermTypeOK, RowsAreAgreed, RunRulesAreAgreed, Grants
  <2> QED BY <1>3, <2>2 DEF PermInv, ApprovalsAreExact
<1>5. CASE answer = "allow_run"
  <2> DEFINE g == [what |-> "run", id |-> 0, req |-> q]
  <2>1. table' = table /\ runRules' = runRules \cup {rule} /\ grants' = grants \cup {g}
    BY <1>5 DEF Decide
  <2>2. g \in GrantType /\ g.what = "run" /\ g.id = 0 /\ g.req = q
    BY DEF GrantType
  <2> HIDE DEF g, rule
  <2>3. PermTypeOK'
    BY <1>1, <1>2, <2>1, <2>2 DEF PermInv, PermTypeOK
  <2>4. RowsAreAgreed'
    BY <2>1 DEF PermInv, RowsAreAgreed, Grants
  <2>5. RunRulesAreAgreed'
    BY <2>1, <2>2 DEF PermInv, RunRulesAreAgreed, rule
  <2> QED BY <1>3, <2>3, <2>4, <2>5 DEF PermInv, ApprovalsAreExact
<1>6. CASE answer = "allow_rule"
  <2> DEFINE g == [what |-> "saved", id |-> Len(table'), req |-> q]
             row == Row(rule)
  <2>1. table' = Append(table, row) /\ runRules' = runRules /\ grants' = grants \cup {g}
    BY <1>6 DEF Decide
  <2>2. table \in Seq(RowType)
    BY DEF PermInv, PermTypeOK
  <2>3. row \in RowType /\ Grants(g, row)
    BY RuleForIs
  <2>4. Len(table') = Len(table) + 1
    <3> HIDE DEF row
    <3> QED BY <2>1, <2>2, <2>3, AppendProperties
  <2>5. g.what = "saved" /\ g.id = Len(table) + 1 /\ g.req = q
    BY <2>4
  <2>6. g = [what |-> g.what, id |-> g.id, req |-> g.req]
    OBVIOUS
  <2> HIDE DEF g, row, rule
  <2>7. /\ table' \in Seq(RowType) /\ RowsAreAgreed'
        /\ \A h \in grants' : h.id # 0 => h.id \in DOMAIN table'
        /\ \A i \in DOMAIN table : i \in DOMAIN table' /\ table'[i] = table[i]
        /\ g.id \in Nat \ {0}
    BY <2>1, <2>3, <2>5, RowIsAppended
  <2>8. g \in GrantType
    BY <2>5, <2>6, <2>7 DEF GrantType
  <2>9. PermTypeOK'
    BY <1>1, <1>2, <2>1, <2>7, <2>8 DEF PermInv, PermTypeOK
  <2>10. RunRulesAreAgreed'
    BY <2>1, <2>5 DEF PermInv, RunRulesAreAgreed
  <2> QED BY <1>3, <2>7, <2>9, <2>10 DEF PermInv, ApprovalsAreExact
<1> QED BY <1>4, <1>5, <1>6

\* A mutation runs unasked only where the session's policy lets it or something
\* the user agreed to, and that is still in force, covers it; and who allowed a
\* request for the run is not asked about it again (AgentRuntime._permission,
\* resolve_approval, PermissionRule.matches).
THEOREM NobodyIsBypassed == PermSpec => []ApprovalsAreExact
<1>1. PermInv /\ [PermNext]_permVars => PermInv'
  <2> SUFFICES ASSUME PermInv, [PermNext]_permVars
               PROVE  PermInv'
    OBVIOUS
  <2>1. ASSUME NEW spec \in Specs, CreateRule(spec)
        PROVE  PermInv'
    BY <2>1, CreateRuleKeeps
  <2>2. ASSUME NEW i \in DOMAIN table, NEW e \in BOOLEAN, SetRuleEnabled(i, e)
        PROVE  PermInv'
    BY <2>2, SetRuleEnabledKeeps
  <2>3. CASE RunEnds
    BY <2>3, RunEndsKeeps
  <2>4. ASSUME NEW q \in Requests, Call(q)
        PROVE  PermInv'
    BY <2>4, CallKeepsRules
  <2>5. ASSUME NEW q \in Requests, NEW a \in {"deny", "allow_once", "allow_run", "allow_rule"},
               Decide(q, a)
        PROVE  PermInv'
    BY <2>5, DecideKeeps
  <2>6. CASE UNCHANGED permVars
    BY <2>6 DEF permVars, PermInv, PermTypeOK, RowsAreAgreed, RunRulesAreAgreed, Grants,
                ApprovalsAreExact, UnaskedIsCovered, NotAskedTwice, Covers
  <2> QED BY <2>1, <2>2, <2>3, <2>4, <2>5, <2>6 DEF PermNext
<1>2. PermInv => ApprovalsAreExact
  BY DEF PermInv
<1> QED BY <1>1, <1>2, PermInitInv, PTL DEF PermSpec
=============================================================================
