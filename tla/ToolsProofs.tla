---------------------------- MODULE ToolsProofs ----------------------------
(***************************************************************************)
(* Proofs about modules Commands, Investigation, GuardedWrites and         *)
(* ModelTurns: what commands, checks, rollbacks and discards do to work    *)
(* that was reported as done, what a nested investigation costs, what a    *)
(* run may replace unread, and what a turn with the provider returns, for  *)
(* every budget, bound, file, reply and interleaving.                      *)
(***************************************************************************)
EXTENDS Commands, Investigation, GuardedWrites, ModelTurns, FiniteSetTheorems, SequenceTheorems,
        WellFoundedInduction, TLAPS

(***************************************************************************)
(* Commands: the invariant.                                                *)
(***************************************************************************)
Changes == (Slots \cup {"tool"}) \X Nat

PointType == [owner : Changes, tree : SUBSET Changes]

CommandType == [pc : {"idle", "sent", "running"}, id : Nat, cancelled : BOOLEAN]

RunnerType ==
    [active : Slots \cup {"none"}, id : Nat,
     state : {"idle", "starting", "running", "killed", "ended", "sweeping"},
     exit : {"ok", "failed", "kept", "timed_out"}, left : BOOLEAN]

CommandsTypeOK ==
    /\ tree \in SUBSET Changes
    /\ points \in Seq(PointType)
    /\ cmds \in [Slots -> CommandType]
    /\ runner \in RunnerType
    /\ acked \in SUBSET Changes /\ raced \in SUBSET Changes /\ gone \in SUBSET Changes
    /\ made \in [writes : Nat, bash : Nat, check : Nat, faults : Nat]

\* Processes belong to a command; tool changes and the checkpoints of commands
\* are numbered as they are made.
NamesAreUsed ==
    /\ runner.state # "idle" => runner.active \in Slots
    /\ \A c \in tree \cup gone \cup Stored(points) : c[1] = "tool" => c[2] <= made.writes
    /\ \A i \in DOMAIN points, s \in Slots :
          points[i].owner[1] = s => points[i].owner[2] <= made[s]

\* The trees a command under way may still be rolled back to.
LiveTrees(s) ==
    {points[i].tree : i \in {i \in DOMAIN points :
                               cmds[s].pc # "idle" /\ points[i].owner = Id(s)}}

\* Rolling back loses nothing that was reported as done outside a check: the
\* run waits while its command runs, so what its checkpoint holds is in staging
\* still, and whatever came after a check's checkpoint raced with that check.
RollbacksKeep ==
    /\ \A s \in Slots : \A t \in LiveTrees(s) : acked \ raced \subseteq t
    /\ \A b \in LiveTrees("bash") : b \subseteq tree \cup raced
    /\ \A k \in LiveTrees("check") : tree \subseteq k \cup raced
    /\ \A b \in LiveTrees("bash"), k \in LiveTrees("check") : b \subseteq k \cup raced

\* No checkpoint brings back what was discarded.
PointsForget == \A c \in Stored(points) \cap gone : c[1] \in Slots

CommandsInv ==
    /\ CommandsTypeOK /\ NamesAreUsed /\ RollbacksKeep /\ PointsForget
    /\ CommandsKeepWork

-----------------------------------------------------------------------------
(* Facts about the operators of Commands.                                  *)

\* A non-empty set of positions has a first one: what lies before the others
\* is a well-founded family of finite sets.
LEMMA FirstOf ==
    ASSUME NEW n \in Nat, NEW M, M \subseteq 1..n, M # {}
    PROVE  Min(M) \in M
<1> DEFINE Before(m) == {k \in M : k < m}
           F == {Before(m) : m \in M}
<1>1. IsFiniteSet(M) /\ M \subseteq Nat
  <2>1. 1 \in Int /\ n \in Int /\ M \in SUBSET (1..n)
    OBVIOUS
  <2>2. IsFiniteSet(1..n)
    BY <2>1, FS_Interval
  <2>3. IsFiniteSet(M)
    BY <2>1, <2>2, FS_Subset
  <2> QED BY <2>3
<1>2. F \subseteq FiniteSubsetsOf(M)
  <2>1. \A m \in M : Before(m) \in SUBSET M
    OBVIOUS
  <2> QED BY <1>1, <2>1, FS_FiniteSubsetsOfFinite
<1>3. F # {}
  OBVIOUS
<1>4. PICK s \in F : \A t \in F : ~(<<t, s>> \in StrictSubsetOrdering(M))
  BY <1>2, <1>3, FS_StrictSubsetOrderingWellFounded, WFMin
<1>5. PICK m \in M : s = Before(m)
  OBVIOUS
<1>6. ASSUME NEW k \in M, k < m PROVE FALSE
  <2>1. Before(k) \subseteq s
    <3>1. \A i \in M : i < k => i < m
      BY <1>1, <1>6
    <3> QED BY <1>5, <3>1
  <2>2. k \notin Before(k)
    BY <1>1
  <2>3. k \in s /\ Before(k) \in F
    BY <1>5, <1>6
  <2>4. s \in SUBSET M /\ Before(k) \in SUBSET M
    BY <1>5
  <2>5. <<Before(k), s>> \in StrictSubsetOrdering(M)
    BY <2>1, <2>2, <2>3, <2>4 DEF StrictSubsetOrdering
  <2> QED BY <1>4, <2>3, <2>5
<1>7. \A k \in M : m <= k
  BY <1>1, <1>6
<1> QED BY <1>5, <1>7 DEF Min

\* The end of a sequence from a position on.
LEMMA TailFacts ==
    ASSUME NEW S, NEW ps \in Seq(S), NEW a \in 1..(Len(ps) + 1)
    PROVE  LET q == SubSeq(ps, a, Len(ps))
           IN  /\ q \in Seq(S)
               /\ \A i \in DOMAIN q : \E k \in DOMAIN ps : q[i] = ps[k]
<1> DEFINE q == SubSeq(ps, a, Len(ps))
<1>1. Len(ps) \in Nat /\ DOMAIN ps = 1..Len(ps) /\ \A k \in 1..Len(ps) : ps[k] \in S
  OBVIOUS
<1>2. /\ q = [i \in 1..(Len(ps) - a + 1) |-> ps[a + i - 1]]
      /\ Len(ps) - a + 1 \in Nat
  BY <1>1
<1>3. \A i \in 1..(Len(ps) - a + 1) : a + i - 1 \in 1..Len(ps)
  BY <1>1
<1> HIDE DEF q
<1>4. q \in [1..(Len(ps) - a + 1) -> S]
  BY <1>1, <1>2, <1>3
<1>5. q \in Seq(S) /\ DOMAIN q = 1..(Len(ps) - a + 1)
  BY <1>2, <1>4
<1>6. \A i \in DOMAIN q : \E k \in DOMAIN ps : q[i] = ps[k]
  BY <1>1, <1>2, <1>3, <1>5
<1> QED BY <1>5, <1>6 DEF q

\* _prune only drops checkpoints.
LEMMA PrunedFacts ==
    ASSUME NEW S, NEW ps \in Seq(S)
    PROVE  /\ Pruned(ps) \in Seq(S)
           /\ \A i \in DOMAIN Pruned(ps) : \E k \in DOMAIN ps : Pruned(ps)[i] = ps[k]
<1> DEFINE a == IF Len(ps) > Keep THEN Len(ps) - Keep + 1 ELSE 1
           newest == SubSeq(ps, a, Len(ps))
           fits == {i \in DOMAIN newest :
                      Cardinality(Stored(SubSeq(newest, i, Len(newest)))) <= MaxStored}
           fit == IF fits = {} THEN <<>> ELSE SubSeq(newest, Min(fits), Len(newest))
<1>0. Pruned(ps) = fit
  BY DEF Pruned
<1>1. a \in 1..(Len(ps) + 1)
  <2>1. Keep \in Nat /\ Keep >= 1 /\ Len(ps) \in Nat
    BY CommandBounds
  <2> QED BY <2>1
<1> HIDE DEF a
<1>2. newest \in Seq(S) /\ \A i \in DOMAIN newest : \E k \in DOMAIN ps : newest[i] = ps[k]
  BY <1>1, TailFacts
<1> HIDE DEF newest
<1>3. fits \subseteq 1..Len(newest) /\ Len(newest) \in Nat
  BY <1>2
<1>4. fits # {} => Min(fits) \in fits
  <2> HIDE DEF fits
  <2> QED BY <1>3, FirstOf
<1>5. fits # {} => Min(fits) \in 1..(Len(newest) + 1)
  <2> HIDE DEF fits
  <2>1. \A l \in Nat : \A m \in 1..l : m \in 1..(l + 1)
    OBVIOUS
  <2>2. fits # {} => Min(fits) \in 1..Len(newest)
    BY <1>3, <1>4
  <2> QED BY <1>3, <2>1, <2>2
<1> HIDE DEF fits
<1>6. CASE fits = {}
  <2>1. fit = <<>> /\ DOMAIN fit = {}
    BY <1>6
  <2> HIDE DEF fit
  <2> QED BY <1>0, <2>1
<1>7. CASE fits # {}
  <2>1. fit = SubSeq(newest, Min(fits), Len(newest))
    BY <1>7
  <2> HIDE DEF fit
  <2>2. /\ fit \in Seq(S)
        /\ \A i \in DOMAIN fit : \E k \in DOMAIN newest : fit[i] = newest[k]
    BY <1>2, <1>5, <1>7, <2>1, TailFacts
  <2> QED BY <1>0, <1>2, <2>2
<1> QED BY <1>6, <1>7

\* create_checkpoint keeps the staged tree, next to checkpoints that were there.
LEMMA CheckpointFacts ==
    ASSUME CommandsTypeOK, NEW owner \in Changes, Checkpoint(owner)
    PROVE  /\ points' \in Seq(PointType)
           /\ \A i \in DOMAIN points' :
                 \/ \E k \in DOMAIN points : points'[i] = points[k]
                 \/ points'[i] = [owner |-> owner, tree |-> tree]
           /\ Stored(points') \subseteq objects'
<1> DEFINE new == [owner |-> owner, tree |-> tree]
           ps == Append(points, new)
<1>0. points' = Pruned(ps) /\ objects' = Stored(points')
  BY DEF Checkpoint, PrunedObjects
<1>1. new \in PointType /\ points \in Seq(PointType)
  BY DEF CommandsTypeOK, PointType
<1> HIDE DEF new
<1>2. /\ ps \in Seq(PointType) /\ DOMAIN ps = 1..(Len(points) + 1)
      /\ \A k \in DOMAIN ps : (k \in DOMAIN points /\ ps[k] = points[k]) \/ ps[k] = new
  <2>1. Len(points) \in Nat /\ DOMAIN points = 1..Len(points)
    BY <1>1
  <2>2. /\ ps \in Seq(PointType) /\ Len(ps) = Len(points) + 1
        /\ \A k \in 1..Len(points) : ps[k] = points[k]
        /\ ps[Len(points) + 1] = new
    BY <1>1
  <2> HIDE DEF ps
  <2>3. DOMAIN ps = 1..(Len(points) + 1)
    BY <2>1, <2>2
  <2>4. \A k \in 1..(Len(points) + 1) : k \in 1..Len(points) \/ k = Len(points) + 1
    BY <2>1
  <2> QED BY <2>1, <2>2, <2>3, <2>4
<1> HIDE DEF ps
<1>4. /\ points' \in Seq(PointType)
      /\ \A i \in DOMAIN points' : \E k \in DOMAIN ps : points'[i] = ps[k]
  BY <1>0, <1>2, PrunedFacts
<1>5. \A i \in DOMAIN points' :
         (\E k \in DOMAIN points : points'[i] = points[k]) \/ points'[i] = new
  BY <1>2, <1>4
<1> QED BY <1>0, <1>4, <1>5 DEF new

-----------------------------------------------------------------------------
(* The steps of Commands.                                                  *)

\* The slots, apart from one another and from the file tools.
LEMMA SlotsAre == Slots = {"bash", "check"} /\ "tool" \notin Slots
BY DEF Slots

\* The trees of checkpoints hold changes.
LEMMA StoredType ==
    ASSUME CommandsTypeOK
    PROVE  Stored(points) \subseteq Changes
<1> SUFFICES ASSUME NEW c \in Stored(points) PROVE c \in Changes
  OBVIOUS
<1>1. PICK i \in DOMAIN points : c \in points[i].tree
  BY DEF Stored
<1>2. points[i] \in PointType
  BY <1>1 DEF CommandsTypeOK
<1> QED BY <1>1, <1>2 DEF PointType

\* A checkpoint that was just taken: what may be rolled back to was there, or
\* is the tree of the command that took it.
LEMMA CheckpointStored ==
    ASSUME CommandsTypeOK, NEW owner \in Changes, Checkpoint(owner)
    PROVE  Stored(points') \subseteq Stored(points) \cup tree
<1> SUFFICES ASSUME NEW c \in Stored(points') PROVE c \in Stored(points) \cup tree
  OBVIOUS
<1>1. PICK i \in DOMAIN points' : c \in points'[i].tree
  BY DEF Stored
<1>2. CASE \E k \in DOMAIN points : points'[i] = points[k]
  BY <1>1, <1>2 DEF Stored
<1>3. CASE points'[i] = [owner |-> owner, tree |-> tree]
  BY <1>1, <1>3
<1> QED BY <1>2, <1>3, CheckpointFacts

\* Nothing that a rollback could bring back or lose is added to.
LEMMA RollbacksStep ==
    ASSUME RollbacksKeep,
           \A s \in Slots : LiveTrees(s)' \subseteq LiveTrees(s),
           acked' \ raced' \subseteq acked \ raced,
           raced \subseteq raced', tree \subseteq tree',
           LiveTrees("check")' # {} => tree' \subseteq tree \cup raced'
    PROVE  RollbacksKeep'
<1>1. \A s \in Slots : \A t \in LiveTrees(s)' : acked' \ raced' \subseteq t
  BY DEF RollbacksKeep
<1>2. LiveTrees("bash")' \subseteq LiveTrees("bash")
      /\ LiveTrees("check")' \subseteq LiveTrees("check")
  BY SlotsAre
<1>3. \A b \in LiveTrees("bash")' : b \subseteq tree' \cup raced'
  BY <1>2 DEF RollbacksKeep
<1>4. \A k \in LiveTrees("check")' : tree' \subseteq k \cup raced'
  BY <1>2 DEF RollbacksKeep
<1>5. \A b \in LiveTrees("bash")', k \in LiveTrees("check")' : b \subseteq k \cup raced'
  BY <1>2 DEF RollbacksKeep
<1> QED BY <1>1, <1>3, <1>4, <1>5 DEF RollbacksKeep

\* A step that leaves the checkpoints and the trees alone, starts no command
\* and reports nothing.
LEMMA TreesSame ==
    ASSUME CommandsInv, CommandsTypeOK',
           UNCHANGED <<tree, points, objects, acked, raced, gone>>,
           made'.writes = made.writes, \A s \in Slots : made'[s] = made[s],
           runner'.state # "idle" => runner'.active \in Slots,
           \A s \in Slots : cmds'[s].pc # "idle" =>
               cmds[s].pc # "idle" /\ cmds'[s].id = cmds[s].id
    PROVE  CommandsInv'
<1>1. \A s \in Slots : LiveTrees(s)' \subseteq LiveTrees(s)
  BY DEF LiveTrees, Id
<1>2. RollbacksKeep'
  BY <1>1, RollbacksStep DEF CommandsInv
<1>3. NamesAreUsed' /\ PointsForget'
  BY DEF CommandsInv, NamesAreUsed, PointsForget, Stored
<1>4. CommandsKeepWork'
  BY DEF CommandsInv, CommandsKeepWork, PointsComplete, AckedStays, DiscardIsFinal, Stored
<1> QED BY <1>2, <1>3, <1>4 DEF CommandsInv

\* What restore_checkpoint leaves: the tree of a checkpoint, or no change.
LEMMA RestoredFacts ==
    ASSUME CommandsInv, NEW s \in Slots, cmds[s].pc # "idle"
    PROVE  Restored(Id(s), tree) = tree \/ Restored(Id(s), tree) \in LiveTrees(s)
<1>1. CASE Point(Id(s)) = {}
  BY <1>1 DEF Restored
<1>2. CASE Point(Id(s)) # {}
  <2> DEFINE i == CHOOSE i \in Point(Id(s)) : TRUE
  <2>1. i \in Point(Id(s))
    BY <1>2
  <2> HIDE DEF i
  <2>2. points[i].tree \in LiveTrees(s)
    BY <2>1 DEF Point, LiveTrees
  <2>3. Restored(Id(s), tree) = tree \/ Restored(Id(s), tree) = points[i].tree
    BY <1>2 DEF Restored, i
  <2> QED BY <2>2, <2>3
<1> QED BY <1>1, <1>2

\* A tree that may be rolled back to belongs to a checkpoint.
LEMMA LiveIsStored ==
    ASSUME CommandsInv, NEW s \in Slots, NEW t \in LiveTrees(s)
    PROVE  t \subseteq Stored(points) /\ t \subseteq Changes
<1>1. PICK i \in DOMAIN points : t = points[i].tree
  BY DEF LiveTrees
<1>2. points[i] \in PointType
  BY <1>1 DEF CommandsInv, CommandsTypeOK
<1> QED BY <1>1, <1>2 DEF Stored, PointType

\* A command is over for the executor and its checkpoint was restored.
LEMMA FinishKeeps ==
    ASSUME CommandsInv, NEW s \in Slots, cmds[s].pc # "idle",
           Finish(s, Restored(Id(s), tree)), CommandsTypeOK',
           UNCHANGED <<points, objects, acked, raced, gone>>,
           made'.writes = made.writes, \A r \in Slots : made'[r] = made[r],
           runner'.state # "idle" => runner'.active \in Slots
    PROVE  CommandsInv'
<1> DEFINE t == Restored(Id(s), tree)
<1>1. t = tree \/ t \in LiveTrees(s)
  BY RestoredFacts
<1>2. tree' = t /\ cmds' = [cmds EXCEPT ![s] = Idle]
  BY DEF Finish
<1> HIDE DEF t
<1>3. cmds'[s].pc = "idle" /\ \A r \in Slots \ {s} : cmds'[r] = cmds[r]
  BY <1>2 DEF CommandsInv, CommandsTypeOK, Idle
<1>4. LiveTrees(s)' = {} /\ \A r \in Slots \ {s} : LiveTrees(r)' = LiveTrees(r)
  BY <1>3 DEF LiveTrees, Id
<1>5. AckedStays'
  BY <1>1, <1>2 DEF CommandsInv, RollbacksKeep, CommandsKeepWork, AckedStays
<1>6. t \subseteq tree \cup Stored(points)
  BY <1>1, LiveIsStored
<1>7. NamesAreUsed' /\ PointsForget'
  BY <1>2, <1>6 DEF CommandsInv, NamesAreUsed, PointsForget, Stored
<1>8. DiscardIsFinal' /\ PointsComplete'
  BY <1>2, <1>6
     DEF CommandsInv, CommandsKeepWork, DiscardIsFinal, PointsForget, PointsComplete, Stored
<1>9. RollbacksKeep'
  <2>1. CASE s = "bash"
    <3>1. LiveTrees("bash")' = {} /\ LiveTrees("check")' = LiveTrees("check")
      BY <1>4, <2>1, SlotsAre
    <3>2. \A k \in LiveTrees("check") : t \subseteq k \cup raced
      BY <1>1, <2>1 DEF CommandsInv, RollbacksKeep
    <3>3. \A k \in LiveTrees("check") : acked \ raced \subseteq k
      BY SlotsAre DEF CommandsInv, RollbacksKeep
    <3> QED BY <1>2, <3>1, <3>2, <3>3, SlotsAre DEF RollbacksKeep
  <2>2. CASE s = "check"
    <3>1. LiveTrees("check")' = {} /\ LiveTrees("bash")' = LiveTrees("bash")
      BY <1>4, <2>2, SlotsAre
    <3>2. \A b \in LiveTrees("bash") : b \subseteq t \cup raced
      BY <1>1, <2>2 DEF CommandsInv, RollbacksKeep
    <3>3. \A b \in LiveTrees("bash") : acked \ raced \subseteq b
      BY SlotsAre DEF CommandsInv, RollbacksKeep
    <3> QED BY <1>2, <3>1, <3>2, <3>3, SlotsAre DEF RollbacksKeep
  <2> QED BY <2>1, <2>2, SlotsAre
<1> QED BY <1>5, <1>7, <1>8, <1>9 DEF CommandsInv, CommandsKeepWork

\* A runner without a command.
LEMMA FreeType == Free \in RunnerType /\ Free.state = "idle"
BY DEF Free, RunnerType

\* The counters count.
LEMMA MadeFacts ==
    ASSUME CommandsTypeOK, NEW s \in Slots, made' = [made EXCEPT ![s] = @ + 1]
    PROVE  /\ made' \in [writes : Nat, bash : Nat, check : Nat, faults : Nat]
           /\ made'[s] = made[s] + 1 /\ made[s] \in Nat /\ made'[s] \in Nat
           /\ made'.writes = made.writes
           /\ \A r \in Slots \ {s} : made'[r] = made[r]
<1>1. made.writes \in Nat /\ made.bash \in Nat /\ made.check \in Nat /\ made.faults \in Nat
  BY DEF CommandsTypeOK
<1>2. CASE s = "bash"
  <2>1. made' = [made EXCEPT !["bash"] = made.bash + 1]
    BY <1>2
  <2>2. /\ made' \in [writes : Nat, bash : Nat, check : Nat, faults : Nat]
        /\ made'["bash"] = made["bash"] + 1
        /\ made'.writes = made.writes /\ made'["check"] = made["check"]
    BY <1>1, <2>1 DEF CommandsTypeOK
  <2> QED BY <1>1, <1>2, <2>2, SlotsAre
<1>3. CASE s = "check"
  <2>1. made' = [made EXCEPT !["check"] = made.check + 1]
    BY <1>3
  <2>2. /\ made' \in [writes : Nat, bash : Nat, check : Nat, faults : Nat]
        /\ made'["check"] = made["check"] + 1
        /\ made'.writes = made.writes /\ made'["bash"] = made["bash"]
    BY <1>1, <2>1 DEF CommandsTypeOK
  <2> QED BY <1>1, <1>3, <2>2, SlotsAre
<1> QED BY <1>2, <1>3, SlotsAre

\* At first there is nothing to lose.
LEMMA CommandsStart == CommandsInit => CommandsInv
<1> SUFFICES ASSUME CommandsInit PROVE CommandsInv
  OBVIOUS
<1>1. points = <<>> /\ DOMAIN points = {} /\ Stored(points) = {}
  BY DEF CommandsInit, Stored
<1>2. CommandsTypeOK
  BY <1>1, FreeType DEF CommandsInit, CommandsTypeOK, CommandType, Idle
<1>3. \A s \in Slots : LiveTrees(s) = {}
  BY <1>1 DEF LiveTrees
<1>4. RollbacksKeep
  BY <1>3, SlotsAre DEF RollbacksKeep
<1> QED
  BY <1>1, <1>2, <1>4
     DEF CommandsInit, CommandsInv, NamesAreUsed, PointsForget, CommandsKeepWork,
         PointsComplete, AckedStays, DiscardIsFinal, Free

\* A mutation by a file tool of the run.
LEMMA WriteKeeps ==
    ASSUME CommandsInv, NEW ok \in BOOLEAN, Write(ok)
    PROVE  CommandsInv'
<1> DEFINE c == <<"tool", made.writes + 1>>
<1>1. /\ CommandsTypeOK /\ made.writes \in Nat
      /\ made' = [made EXCEPT !.writes = @ + 1]
      /\ cmds["bash"].pc = "idle"
      /\ cmds' = cmds /\ runner' = runner /\ gone' = gone
  BY DEF Write, CommandsInv, CommandsTypeOK
<1>2. c \in Changes /\ c[1] = "tool" /\ c[2] = made.writes + 1
  BY <1>1 DEF Changes
<1>3. Checkpoint(c)
  BY DEF Write
<1>4. \/ tree' = tree \cup {c} /\ acked' = acked \cup {c} /\ Race(c)
      \/ UNCHANGED <<tree, acked, raced>>
  BY DEF Write
<1> HIDE DEF c
<1>5. /\ points' \in Seq(PointType)
      /\ \A i \in DOMAIN points' :
            \/ \E k \in DOMAIN points : points'[i] = points[k]
            \/ points'[i] = [owner |-> c, tree |-> tree]
      /\ Stored(points') \subseteq objects'
      /\ Stored(points') \subseteq Stored(points) \cup tree
  BY <1>1, <1>2, <1>3, CheckpointFacts, CheckpointStored
<1>6. /\ made' \in [writes : Nat, bash : Nat, check : Nat, faults : Nat]
      /\ made'.writes = made.writes + 1
      /\ made'["bash"] = made["bash"] /\ made'["check"] = made["check"]
  BY <1>1 DEF CommandsTypeOK
<1>7. \A s \in Slots : made'[s] = made[s]
  BY <1>6, SlotsAre
<1>8. CommandsTypeOK'
  BY <1>1, <1>2, <1>4, <1>5, <1>6 DEF CommandsTypeOK, Race
<1>9. \A s \in Slots : LiveTrees(s)' \subseteq LiveTrees(s)
  <2> SUFFICES ASSUME NEW s \in Slots, NEW i \in DOMAIN points', cmds[s].pc # "idle",
                      points'[i].owner = Id(s)
               PROVE  points'[i].tree \in LiveTrees(s)
    BY <1>1 DEF LiveTrees, Id
  <2>1. points'[i] # [owner |-> c, tree |-> tree]
    BY <1>2, SlotsAre DEF Id
  <2>2. PICK k \in DOMAIN points : points'[i] = points[k]
    BY <1>5, <2>1
  <2> QED BY <2>2 DEF LiveTrees
<1>10. RollbacksKeep'
  <2>1. CASE CheckUnderWay \/ UNCHANGED <<tree, acked, raced>>
    <3>1. /\ acked' \ raced' \subseteq acked \ raced
          /\ raced \subseteq raced' /\ tree \subseteq tree'
          /\ tree' \subseteq tree \cup raced'
      BY <1>4, <2>1 DEF Race
    <3> QED BY <1>9, <3>1, RollbacksStep DEF CommandsInv
  <2>2. CASE ~CheckUnderWay
    <3>1. LiveTrees("bash") = {} /\ LiveTrees("check") = {}
      BY <1>1, <2>2 DEF LiveTrees, CheckUnderWay
    <3>2. LiveTrees("bash")' = {} /\ LiveTrees("check")' = {}
      BY <1>9, <3>1, SlotsAre
    <3> QED BY <3>2, SlotsAre DEF RollbacksKeep
  <2> QED BY <2>1, <2>2
<1>11. NamesAreUsed'
  <2>1. \A d \in tree \cup gone \cup Stored(points) :
            d[1] = "tool" => d[2] <= made.writes /\ d[2] \in Nat
    <3>1. \A d \in tree \cup gone \cup Stored(points) : d \in Changes
      BY <1>1, StoredType DEF CommandsTypeOK
    <3> QED BY <3>1 DEF CommandsInv, NamesAreUsed, Changes
  <2>2. \A d \in tree' \cup gone' \cup Stored(points') :
            d \in tree \cup gone \cup Stored(points) \/ d = c
    BY <1>1, <1>4, <1>5
  <2>3. \A d \in tree' \cup gone' \cup Stored(points') :
            d[1] = "tool" => d[2] <= made'.writes
    BY <1>1, <1>2, <1>6, <2>1, <2>2
  <2>4. \A i \in DOMAIN points', s \in Slots :
            points'[i].owner[1] = s => points'[i].owner[2] <= made'[s]
    <3> SUFFICES ASSUME NEW i \in DOMAIN points', NEW s \in Slots,
                        points'[i].owner[1] = s
                 PROVE  points'[i].owner[2] <= made[s]
      BY <1>7
    <3>1. points'[i] # [owner |-> c, tree |-> tree]
      BY <1>2, SlotsAre
    <3> QED BY <1>5, <3>1 DEF CommandsInv, NamesAreUsed
  <2> QED BY <1>1, <2>3, <2>4 DEF CommandsInv, NamesAreUsed
<1>12. c \notin gone
  BY <1>1, <1>2 DEF CommandsInv, NamesAreUsed
<1>13. PointsForget' /\ CommandsKeepWork'
  BY <1>1, <1>4, <1>5, <1>12
     DEF CommandsInv, PointsForget, CommandsKeepWork, PointsComplete, AckedStays,
         DiscardIsFinal, Race
<1> QED BY <1>8, <1>10, <1>11, <1>13 DEF CommandsInv

\* A command is sent to the runner, its checkpoint taken.
LEMMA SendKeeps ==
    ASSUME CommandsInv, NEW s \in Slots, Send(s)
    PROVE  CommandsInv'
<1> DEFINE n == made'[s]
           c == <<s, n>>
<1>1. /\ CommandsTypeOK /\ made' = [made EXCEPT ![s] = @ + 1]
      /\ cmds[s].pc = "idle" /\ Checkpoint(c)
      /\ cmds' = [cmds EXCEPT ![s] = [Idle EXCEPT !.pc = "sent", !.id = n]]
      /\ tree' = tree /\ runner' = runner /\ acked' = acked /\ raced' = raced
      /\ gone' = gone
  BY DEF Send, CommandsInv
<1>2. /\ made' \in [writes : Nat, bash : Nat, check : Nat, faults : Nat]
      /\ n = made[s] + 1 /\ made[s] \in Nat /\ n \in Nat
      /\ made'.writes = made.writes
      /\ \A r \in Slots \ {s} : made'[r] = made[r]
  BY <1>1, MadeFacts
<1> HIDE DEF n
<1>3. c \in Changes /\ c[1] = s /\ c[2] = n
  BY <1>2 DEF Changes
<1>4. /\ cmds'[s] = [pc |-> "sent", id |-> n, cancelled |-> FALSE]
      /\ \A r \in Slots \ {s} : cmds'[r] = cmds[r]
  BY <1>1 DEF CommandsTypeOK, Idle
<1>5. /\ points' \in Seq(PointType)
      /\ \A i \in DOMAIN points' :
            \/ \E k \in DOMAIN points : points'[i] = points[k]
            \/ points'[i] = [owner |-> c, tree |-> tree]
      /\ Stored(points') \subseteq objects'
      /\ Stored(points') \subseteq Stored(points) \cup tree
  BY <1>1, <1>3, CheckpointFacts, CheckpointStored
<1>6. cmds' \in [Slots -> CommandType]
  BY <1>1, <1>2, <1>4 DEF CommandsTypeOK, Idle, CommandType
<1>7. CommandsTypeOK'
  BY <1>1, <1>2, <1>5, <1>6 DEF CommandsTypeOK
<1>8. \A k \in DOMAIN points : points[k].owner # c
  <2> SUFFICES ASSUME NEW k \in DOMAIN points, points[k].owner = c PROVE FALSE
    OBVIOUS
  <2>1. n <= made[s]
    BY <1>3 DEF CommandsInv, NamesAreUsed
  <2> QED BY <1>2, <2>1
<1>9. LiveTrees(s)' \subseteq {tree}
  <2> SUFFICES ASSUME NEW i \in DOMAIN points', points'[i].owner = Id(s)'
               PROVE  points'[i].tree = tree
    BY DEF LiveTrees
  <2>1. points'[i].owner = c
    BY <1>4 DEF Id
  <2>2. points'[i] = [owner |-> c, tree |-> tree]
    BY <1>5, <1>8, <2>1
  <2> QED BY <2>2
<1>10. \A r \in Slots \ {s} : LiveTrees(r)' \subseteq LiveTrees(r)
  <2> SUFFICES ASSUME NEW r \in Slots \ {s}, NEW i \in DOMAIN points', cmds[r].pc # "idle",
                      points'[i].owner = Id(r)
               PROVE  points'[i].tree \in LiveTrees(r)
    BY <1>4 DEF LiveTrees, Id
  <2>1. points'[i] # [owner |-> c, tree |-> tree]
    BY <1>3 DEF Id
  <2>2. PICK k \in DOMAIN points : points'[i] = points[k]
    BY <1>5, <2>1
  <2> QED BY <2>2 DEF LiveTrees
<1>11. RollbacksKeep'
  <2>0. acked \ raced \subseteq tree /\ RollbacksKeep
    BY DEF CommandsInv, CommandsKeepWork, AckedStays
  <2>1. \A r \in Slots : \A t \in LiveTrees(r)' : acked' \ raced' \subseteq t
    BY <1>1, <1>9, <1>10, <2>0 DEF RollbacksKeep
  <2>2. CASE s = "bash"
    <3>1. LiveTrees("bash")' \subseteq {tree} /\ LiveTrees("check")' \subseteq LiveTrees("check")
      BY <1>9, <1>10, <2>2, SlotsAre
    <3> QED BY <1>1, <2>0, <2>1, <3>1 DEF RollbacksKeep
  <2>3. CASE s = "check"
    <3>1. LiveTrees("check")' \subseteq {tree} /\ LiveTrees("bash")' \subseteq LiveTrees("bash")
      BY <1>9, <1>10, <2>3, SlotsAre
    <3> QED BY <1>1, <2>0, <2>1, <3>1 DEF RollbacksKeep
  <2> QED BY <2>2, <2>3, SlotsAre
<1>12. NamesAreUsed'
  <2>1. \A d \in tree' \cup gone' \cup Stored(points') :
            d[1] = "tool" => d[2] <= made'.writes
    BY <1>1, <1>2, <1>5 DEF CommandsInv, NamesAreUsed
  <2>2. \A i \in DOMAIN points', r \in Slots :
            points'[i].owner[1] = r => points'[i].owner[2] <= made'[r]
    <3> SUFFICES ASSUME NEW i \in DOMAIN points', NEW r \in Slots,
                        points'[i].owner[1] = r
                 PROVE  points'[i].owner[2] <= made'[r]
      OBVIOUS
    <3>1. CASE points'[i] = [owner |-> c, tree |-> tree]
      <4>1. r = s /\ points'[i].owner[2] = n /\ n <= n
        BY <1>2, <1>3, <3>1
      <4> QED BY <4>1 DEF n
    <3>2. CASE points'[i] # [owner |-> c, tree |-> tree]
      <4>1. PICK k \in DOMAIN points : points'[i] = points[k]
        BY <1>5, <3>2
      <4>2. points[k] \in PointType
        BY <1>1, <4>1 DEF CommandsTypeOK
      <4>3. points[k].owner[2] \in Nat /\ points[k].owner[2] <= made[r]
        BY <4>1, <4>2 DEF CommandsInv, NamesAreUsed, PointType, Changes
      <4>4. made[s] <= made'[s] /\ made'[s] \in Nat
        BY <1>2 DEF n
      <4>5. CASE r = s
        <5>1. \A x, y, z \in Nat : x <= y /\ y <= z => x <= z
          OBVIOUS
        <5> QED BY <1>2, <4>1, <4>3, <4>4, <4>5, <5>1
      <4>6. CASE r # s
        BY <1>2, <4>1, <4>3, <4>6
      <4> QED BY <4>5, <4>6
    <3> QED BY <3>1, <3>2
  <2> QED BY <1>1, <2>1, <2>2 DEF CommandsInv, NamesAreUsed
<1>13. PointsForget' /\ CommandsKeepWork'
  BY <1>1, <1>5
     DEF CommandsInv, PointsForget, CommandsKeepWork, PointsComplete, AckedStays,
         DiscardIsFinal
<1> QED BY <1>7, <1>11, <1>12, <1>13 DEF CommandsInv

\* A command's result arrives: its work is kept and reported, or rolled back.
LEMMA ResultKeeps ==
    ASSUME CommandsInv, NEW s \in Slots, Result(s)
    PROVE  CommandsInv'
<1>1. /\ CommandsTypeOK /\ cmds[s].pc # "idle"
      /\ runner' = [runner EXCEPT !.state = "sweeping"]
      /\ runner.active = s
      /\ UNCHANGED <<points, objects, raced, gone, made>>
  BY DEF Result, CommandsInv
<1>2. CommandsTypeOK'
  <2>1. tree' = tree \/ tree' \in LiveTrees(s)
    BY <1>1, RestoredFacts DEF Result, Finish
  <2>2. tree' \in SUBSET Changes
    BY <1>1, <2>1, LiveIsStored DEF CommandsTypeOK
  <2>3. acked' \subseteq acked \cup tree
    BY DEF Result
  <2>4. cmds' = [cmds EXCEPT ![s] = Idle]
    BY DEF Result, Finish
  <2>5. cmds' \in [Slots -> CommandType]
    BY <1>1, <2>4 DEF CommandsTypeOK, Idle, CommandType
  <2>6. runner' \in RunnerType
    BY <1>1 DEF CommandsTypeOK, RunnerType
  <2> QED BY <1>1, <2>2, <2>3, <2>5, <2>6 DEF CommandsTypeOK
<1>3. runner'.active \in Slots
  BY <1>1 DEF CommandsTypeOK
<1>4. CASE Kept(s)
  <2>1. /\ s = "bash" /\ tree' = tree /\ cmds' = [cmds EXCEPT !["bash"] = Idle]
        /\ acked \subseteq acked' /\ acked' \subseteq acked \cup tree
    BY <1>4 DEF Result, Finish, Kept
  <2>2. cmds'["bash"].pc = "idle" /\ cmds'["check"] = cmds["check"]
    BY <1>1, <2>1, SlotsAre DEF CommandsTypeOK, Idle
  <2>3. LiveTrees("bash")' = {} /\ LiveTrees("check")' = LiveTrees("check")
    BY <1>1, <2>2 DEF LiveTrees, Id
  <2>4. \A t \in LiveTrees("check") : acked' \ raced \subseteq t
    BY <2>1, SlotsAre DEF CommandsInv, RollbacksKeep
  <2>5. RollbacksKeep'
    BY <1>1, <2>1, <2>3, <2>4, SlotsAre DEF CommandsInv, RollbacksKeep
  <2>6. NamesAreUsed' /\ PointsForget'
    BY <1>1, <1>3, <2>1 DEF CommandsInv, NamesAreUsed, PointsForget
  <2>7. CommandsKeepWork'
    BY <1>1, <2>1
       DEF CommandsInv, CommandsKeepWork, PointsComplete, AckedStays, DiscardIsFinal
  <2> QED BY <1>2, <2>5, <2>6, <2>7 DEF CommandsInv
<1>5. CASE ~Kept(s)
  <2>1. Finish(s, Restored(Id(s), tree)) /\ acked' = acked
    BY <1>5 DEF Result
  <2> QED BY <1>1, <1>2, <1>3, <2>1, FinishKeeps
<1> QED BY <1>4, <1>5

\* A command that is refused, or whose runner is lost, is rolled back.
LEMMA LostKeeps ==
    ASSUME CommandsInv, NEW s \in Slots, Busy(s) \/ RunnerLost(s)
    PROVE  CommandsInv'
<1>1. /\ CommandsTypeOK /\ cmds[s].pc # "idle"
      /\ Finish(s, Restored(Id(s), tree))
      /\ UNCHANGED <<points, objects, acked, raced, gone>>
      /\ runner' = runner \/ runner' = Free
      /\ made' = made \/ made' = [made EXCEPT !.faults = @ + 1]
  BY DEF Busy, RunnerLost, Fault, CommandsInv
<1>2. /\ made' \in [writes : Nat, bash : Nat, check : Nat, faults : Nat]
      /\ made'.writes = made.writes
      /\ made'["bash"] = made["bash"] /\ made'["check"] = made["check"]
  BY <1>1 DEF CommandsTypeOK
<1>3. tree' \in SUBSET Changes
  <2>1. tree' = tree \/ tree' \in LiveTrees(s)
    BY <1>1, RestoredFacts DEF Finish
  <2> QED BY <1>1, <2>1, LiveIsStored DEF CommandsTypeOK
<1>4. cmds' \in [Slots -> CommandType]
  BY <1>1 DEF CommandsTypeOK, Idle, Finish, CommandType
<1>5. CommandsTypeOK'
  BY <1>1, <1>2, <1>3, <1>4, FreeType DEF CommandsTypeOK
<1>6. runner'.state # "idle" => runner'.active \in Slots
  BY <1>1 DEF CommandsInv, NamesAreUsed, Free
<1>7. \A r \in Slots : made'[r] = made[r]
  BY <1>2, SlotsAre
<1> QED BY <1>1, <1>2, <1>5, <1>6, <1>7, FinishKeeps

\* A process of a command writes a file.
LEMMA ProcessKeeps ==
    ASSUME CommandsInv, ProcessWrites
    PROVE  CommandsInv'
<1> DEFINE c == <<runner.active, runner.id>>
<1>1. /\ CommandsTypeOK /\ runner.state # "idle"
      /\ tree' = tree \cup {c} /\ Race(c)
      /\ UNCHANGED <<points, objects, cmds, runner, acked, gone, made>>
  BY DEF ProcessWrites, CommandsInv
<1>2. c \in Changes /\ c[1] \in Slots
  BY <1>1 DEF CommandsInv, NamesAreUsed, CommandsTypeOK, RunnerType, Changes
<1> HIDE DEF c
<1>3. CommandsTypeOK'
  BY <1>1, <1>2 DEF CommandsTypeOK, Race
<1>4. \A s \in Slots : LiveTrees(s)' = LiveTrees(s)
  BY <1>1 DEF LiveTrees, Id
<1>5. LiveTrees("check")' # {} => CheckUnderWay
  BY <1>1, <1>4, SlotsAre DEF LiveTrees, CheckUnderWay
<1>6. RollbacksKeep'
  <2>1. /\ acked' \ raced' \subseteq acked \ raced
        /\ raced \subseteq raced' /\ tree \subseteq tree'
        /\ LiveTrees("check")' # {} => tree' \subseteq tree \cup raced'
    BY <1>1, <1>5 DEF Race
  <2> QED BY <1>4, <2>1, RollbacksStep DEF CommandsInv
<1>7. NamesAreUsed' /\ PointsForget'
  BY <1>1, <1>2, SlotsAre DEF CommandsInv, NamesAreUsed, PointsForget, Race
<1>8. CommandsKeepWork'
  BY <1>1, <1>2
     DEF CommandsInv, CommandsKeepWork, PointsComplete, AckedStays, DiscardIsFinal, Race
<1> QED BY <1>3, <1>6, <1>7, <1>8 DEF CommandsInv

\* The user discards everything staged.
LEMMA DiscardKeeps ==
    ASSUME CommandsInv, Discard
    PROVE  CommandsInv'
<1>1. /\ CommandsTypeOK /\ made' = [made EXCEPT !.faults = @ + 1]
      /\ gone' = gone \cup tree /\ tree' = {} /\ acked' = {}
      /\ points' = <<>> /\ objects' = {}
      /\ UNCHANGED <<cmds, runner, raced>>
  BY DEF Discard, Fault, CommandsInv
<1>2. /\ made' \in [writes : Nat, bash : Nat, check : Nat, faults : Nat]
      /\ made'.writes = made.writes
  BY <1>1 DEF CommandsTypeOK
<1>3. points' \in Seq(PointType) /\ DOMAIN points' = {} /\ Stored(points') = {}
  BY <1>1 DEF Stored
<1>4. CommandsTypeOK'
  BY <1>1, <1>2, <1>3 DEF CommandsTypeOK
<1>5. \A s \in Slots : LiveTrees(s)' = {}
  BY <1>3 DEF LiveTrees
<1>6. RollbacksKeep'
  BY <1>5, SlotsAre DEF RollbacksKeep
<1>7. NamesAreUsed' /\ PointsForget'
  BY <1>1, <1>2, <1>3 DEF CommandsInv, NamesAreUsed, PointsForget
<1>8. CommandsKeepWork'
  BY <1>1, <1>3 DEF CommandsKeepWork, PointsComplete, AckedStays, DiscardIsFinal
<1> QED BY <1>4, <1>6, <1>7, <1>8 DEF CommandsInv

\* A step of the runner or of the executor that touches neither staging nor a
\* checkpoint.
LEMMA QuietKeeps ==
    ASSUME CommandsInv,
           RunnerStep \/ Cancel \/ ExecutorDies \/ UNCHANGED cmdVars
           \/ \E s \in Slots : Accept(s)
    PROVE  CommandsInv'
<1>0. CommandsTypeOK /\ NamesAreUsed
  BY DEF CommandsInv
<1>1. CASE RunnerStep \/ UNCHANGED cmdVars
  <2>1. UNCHANGED <<tree, points, objects, cmds, acked, raced, gone, made>>
    BY <1>1 DEF RunnerStep, Spawn, Unread, Sweep, Ends, cmdVars
  <2>2. /\ runner' \in RunnerType
        /\ runner'.state # "idle" => runner'.active \in Slots
    <3>1. ASSUME NEW exit \in {"ok", "failed", "kept", "timed_out"}, NEW left \in BOOLEAN,
                 Ends(exit, left)
          PROVE  /\ runner' \in RunnerType
                 /\ runner'.state # "idle" => runner'.active \in Slots
      BY <1>0, <3>1 DEF Ends, CommandsTypeOK, NamesAreUsed, RunnerType
    <3>2. CASE Sweep
      BY <3>2, FreeType DEF Sweep
    <3>3. CASE Spawn \/ Unread \/ UNCHANGED runner
      BY <1>0, <3>3 DEF Spawn, Unread, CommandsTypeOK, NamesAreUsed, RunnerType
    <3> QED BY <1>1, <3>1, <3>2, <3>3 DEF RunnerStep, cmdVars
  <2>3. CommandsTypeOK'
    BY <1>0, <2>1, <2>2 DEF CommandsTypeOK
  <2> QED BY <2>1, <2>2, <2>3, TreesSame
<1>2. CASE Cancel
  <2>1. /\ UNCHANGED <<tree, points, objects, acked, raced, gone, made>>
        /\ cmds' = [cmds EXCEPT !["bash"].cancelled = TRUE]
        /\ \/ runner' = runner
           \/ /\ runner.state = "running"
              /\ runner' = [runner EXCEPT !.state = "killed", !.exit = "failed"]
    BY <1>2 DEF Cancel
  <2>2. runner'.state # "idle" => runner'.active \in Slots
    BY <1>0, <2>1 DEF CommandsTypeOK, RunnerType, NamesAreUsed
  <2>3. /\ cmds' \in [Slots -> CommandType]
        /\ \A s \in Slots : cmds'[s].pc = cmds[s].pc /\ cmds'[s].id = cmds[s].id
    <3>1. cmds \in [Slots -> CommandType] /\ "bash" \in Slots
      BY <1>0, SlotsAre DEF CommandsTypeOK
    <3>2. cmds["bash"] \in CommandType
      BY <3>1
    <3>3. [cmds["bash"] EXCEPT !.cancelled = TRUE] \in CommandType
      BY <3>2 DEF CommandType
    <3>4. cmds' = [cmds EXCEPT !["bash"] = [cmds["bash"] EXCEPT !.cancelled = TRUE]]
      BY <2>1
    <3>5. /\ cmds'["bash"] = [cmds["bash"] EXCEPT !.cancelled = TRUE]
          /\ \A s \in Slots \ {"bash"} : cmds'[s] = cmds[s]
      BY <3>1, <3>4
    <3>6. cmds'["bash"].pc = cmds["bash"].pc /\ cmds'["bash"].id = cmds["bash"].id
      BY <3>2, <3>5 DEF CommandType
    <3> QED BY <3>1, <3>3, <3>4, <3>5, <3>6
  <2>a. runner' \in RunnerType
    BY <1>0, <2>1 DEF CommandsTypeOK, RunnerType
  <2>4. CommandsTypeOK'
    BY <1>0, <2>1, <2>3, <2>a DEF CommandsTypeOK
  <2> QED BY <2>1, <2>2, <2>3, <2>4, TreesSame
<1>3. CASE ExecutorDies
  <2>1. /\ UNCHANGED <<tree, points, objects, runner, acked, raced, gone>>
        /\ made' = [made EXCEPT !.faults = @ + 1]
        /\ cmds' = [s \in Slots |-> Idle]
    BY <1>3 DEF ExecutorDies, Fault
  <2>2. /\ made' \in [writes : Nat, bash : Nat, check : Nat, faults : Nat]
        /\ made'.writes = made.writes
        /\ made'["bash"] = made["bash"] /\ made'["check"] = made["check"]
    BY <1>0, <2>1 DEF CommandsTypeOK
  <2>3. \A s \in Slots : made'[s] = made[s] /\ cmds'[s].pc = "idle"
    BY <2>1, <2>2, SlotsAre DEF Idle
  <2>4. CommandsTypeOK'
    BY <1>0, <2>1, <2>2 DEF CommandsTypeOK, CommandType, Idle
  <2> QED BY <1>0, <2>1, <2>2, <2>3, <2>4, TreesSame DEF NamesAreUsed
<1>4. ASSUME NEW s \in Slots, Accept(s) PROVE CommandsInv'
  <2>1. /\ UNCHANGED <<tree, points, objects, acked, raced, gone, made>>
        /\ cmds[s].pc = "sent"
        /\ cmds' = [cmds EXCEPT ![s].pc = "running"]
        /\ runner' = [Free EXCEPT !.active = s, !.id = cmds[s].id, !.state = "starting"]
    BY <1>4 DEF Accept
  <2>2. /\ cmds' \in [Slots -> CommandType]
        /\ \A r \in Slots : /\ cmds'[r].id = cmds[r].id
                            /\ cmds'[r].pc # "idle" => cmds[r].pc # "idle"
    BY <1>0, <2>1 DEF CommandsTypeOK, CommandType
  <2>3. cmds[s].id \in Nat
    BY <1>0 DEF CommandsTypeOK, CommandType
  <2>4. runner' = [active |-> s, id |-> cmds[s].id, state |-> "starting", exit |-> "ok",
                   left |-> FALSE]
    BY <2>1 DEF Free
  <2>5. runner' \in RunnerType /\ runner'.active \in Slots
    BY <2>3, <2>4 DEF RunnerType
  <2>6. CommandsTypeOK'
    BY <1>0, <2>1, <2>2, <2>5 DEF CommandsTypeOK
  <2> QED BY <2>1, <2>2, <2>5, <2>6, TreesSame
<1> QED BY <1>1, <1>2, <1>3, <1>4

\* No step of a tool, a command, a check, the runner, a fault or the user loses
\* work that was reported as done, breaks a checkpoint or brings back what was
\* discarded: but for work that a declared check ran beside.
THEOREM CommandsKeep == CommandsSpec => []CommandsKeepWork
<1>1. CommandsInit => CommandsInv
  BY CommandsStart
<1>2. CommandsInv /\ [CommandsNext]_cmdVars => CommandsInv'
  <2> SUFFICES ASSUME CommandsInv, [CommandsNext]_cmdVars PROVE CommandsInv'
    OBVIOUS
  <2>1. ASSUME NEW ok \in BOOLEAN, Write(ok) PROVE CommandsInv'
    BY <2>1, WriteKeeps
  <2>2. ASSUME NEW s \in Slots, Send(s) PROVE CommandsInv'
    BY <2>2, SendKeeps
  <2>3. ASSUME NEW s \in Slots, CommandStep(s) \/ RunnerLost(s) PROVE CommandsInv'
    BY <2>3, ResultKeeps, LostKeeps, QuietKeeps DEF CommandStep
  <2>4. CASE ProcessWrites
    BY <2>4, ProcessKeeps
  <2>5. CASE Discard
    BY <2>5, DiscardKeeps
  <2>6. CASE RunnerStep \/ Cancel \/ ExecutorDies \/ UNCHANGED cmdVars
    BY <2>6, QuietKeeps
  <2> QED BY <2>1, <2>2, <2>3, <2>4, <2>5, <2>6 DEF CommandsNext
<1>3. CommandsInv => CommandsKeepWork
  BY DEF CommandsInv
<1>4. CommandsSpec => CommandsInit /\ [][CommandsNext]_cmdVars
  BY PTL DEF CommandsSpec
<1> QED BY <1>1, <1>2, <1>3, <1>4, PTL

-----------------------------------------------------------------------------
(***************************************************************************)
(* Investigation: the invariant.                                           *)
(***************************************************************************)
ChildType ==
    [iterations : Nat, calls : Nat, cost : Nat, last : Nat,
     wall : {"room", "reserve"}, full : BOOLEAN, evidence : BOOLEAN]

NestedType ==
    [at : {"idle", "start", "explore", "turn", "tools", "synthesis", "done"},
     open : Nat,
     why : {"none", "tool_calls", "iterations", "cost", "wall_time",
            "evidence_limit", "empty_answer", "provider_error"},
     error : BOOLEAN]

InvTypeOK ==
    /\ child \in ChildType
    /\ nested \in NestedType
    /\ spent \in Nat

\* Calls are open only between a reply and the end of its calls.
HistoryWhole == nested.at # "tools" => nested.open = 0

\* An iteration is left for the summary until it is written.
IterationKept ==
    ChildLimits.iterations > 0 =>
        /\ child.iterations <= ChildLimits.iterations
        /\ nested.at # "done" => child.iterations < ChildLimits.iterations

\* The last tool call is never made.
CallKept == ChildLimits.calls > 0 => child.calls < ChildLimits.calls

\* A turn is asked for only while the child's cost has room for it, so what it
\* exceeds its limit by is one turn, and one more for the summary.
CostKept ==
    /\ spent = child.cost
    /\ nested.at \in {"idle", "start"} => spent = 0
    /\ nested.at = "turn" => spent < ChildLimits.cost
    /\ nested.at \in {"explore", "tools", "synthesis"} =>
           spent <= ChildLimits.cost + MaxTurnCost
    /\ spent <= ChildLimits.cost + 2 * MaxTurnCost

InvestigationInv == InvTypeOK /\ HistoryWhole /\ IterationKept /\ CallKept /\ CostKept

\* The child's limits are numbers, whatever the parent has left.
LEMMA LimitsAre ==
    /\ ChildLimits.iterations \in Nat /\ ChildLimits.calls \in Nat
    /\ ChildLimits.cost \in Nat /\ ChildLimits.cost = ParentCost \div 2
    /\ MaxTurnCost \in Nat /\ MaxCallsPerTurn \in Nat
<1>1. ParentCost \div 2 \in Nat
  BY InvestigationCosts
<1> QED BY <1>1, InvestigationCosts DEF ChildLimits, Smaller

\* _stop_cause finds nothing: another call, another turn and another paid
\* reply are within the child's own limits.
LEMMA NothingStops ==
    ASSUME InvTypeOK, NEW last \in Nat, NEW reserve \in BOOLEAN,
           StopCauses(last, reserve) = {}
    PROVE  /\ child.calls + 1 < ChildLimits.calls
           /\ reserve => child.iterations + 1 < ChildLimits.iterations
           /\ child.cost < ChildLimits.cost
<1> DEFINE left(f) == Minus(ChildLimits[f], child[f])
           causes == {"tool_calls", "iterations", "cost", "wall_time", "evidence_limit"}
           says(c) ==
             CASE c = "tool_calls" -> left("calls") <= 1
               [] c = "iterations" -> reserve /\ LastIteration(left("iterations"))
               [] c = "cost" -> \/ left("cost") = 0
                                \/ reserve /\ left("cost") <= 2 * last
               [] c = "wall_time" -> child.wall # "room"
               [] OTHER -> child.full
<1>1. \A c \in causes : ~says(c)
  <2>1. {c \in causes : says(c)} = {}
    BY DEF StopCauses
  <2> HIDE DEF says
  <2> QED BY <2>1
<1>2. ~says("tool_calls") /\ ~says("iterations") /\ ~says("cost")
  <2> HIDE DEF says
  <2> QED BY <1>1
<1>3. ~(left("calls") <= 1)
  BY <1>2
<1>4. reserve => ~LastIteration(left("iterations"))
  BY <1>2
<1>5. left("cost") # 0
  BY <1>2
<1>6. /\ left("calls") = Minus(ChildLimits.calls, child.calls)
      /\ left("iterations") = Minus(ChildLimits.iterations, child.iterations)
      /\ left("cost") = Minus(ChildLimits.cost, child.cost)
  OBVIOUS
<1>7. child.calls \in Nat /\ child.iterations \in Nat /\ child.cost \in Nat
  BY DEF InvTypeOK, ChildType, NestedType
<1> HIDE DEF left
<1>8. \A a, b \in Nat : ~(Minus(a, b) <= 1) => b + 1 < a
  BY DEF Minus
<1>9. \A a, b \in Nat : Minus(a, b) # 0 => b < a
  BY DEF Minus
<1>10. child.calls + 1 < ChildLimits.calls
  BY <1>3, <1>6, <1>7, <1>8, LimitsAre
<1>11. reserve => child.iterations + 1 < ChildLimits.iterations
  BY <1>4, <1>6, <1>7, <1>8, LimitsAre DEF LastIteration
<1>12. child.cost < ChildLimits.cost
  BY <1>5, <1>6, <1>7, <1>9, LimitsAre
<1> QED BY <1>10, <1>11, <1>12

\* At first nothing was spent.
LEMMA InvestigationStart == InvInit => InvestigationInv
<1> SUFFICES ASSUME InvInit PROVE InvestigationInv
  OBVIOUS
<1> QED
  BY LimitsAre
     DEF InvInit, InvestigationInv, InvTypeOK, ChildType, NestedType, HistoryWhole,
         IterationKept, CallKept, CostKept

\* Every step of the nested loop keeps its history and its means.
LEMMA InvestigationStep == InvestigationInv /\ [InvNext]_invVars => InvestigationInv'
<1> SUFFICES ASSUME InvestigationInv, [InvNext]_invVars PROVE InvestigationInv'
  OBVIOUS
<1> DEFINE I == ChildLimits.iterations
           K == ChildLimits.calls
           C == ChildLimits.cost
<1>a. I \in Nat /\ K \in Nat /\ C \in Nat /\ MaxTurnCost \in Nat /\ MaxCallsPerTurn \in Nat
  BY LimitsAre
<1>b. /\ InvTypeOK /\ HistoryWhole
      /\ I > 0 => child.iterations <= I /\ (nested.at # "done" => child.iterations < I)
      /\ K > 0 => child.calls < K
      /\ spent = child.cost
      /\ nested.at \in {"idle", "start"} => spent = 0
      /\ nested.at = "turn" => spent < C
      /\ nested.at \in {"explore", "tools", "synthesis"} => spent <= C + MaxTurnCost
      /\ spent <= C + 2 * MaxTurnCost
  BY DEF InvestigationInv, IterationKept, CallKept, CostKept
<1>c. /\ child.iterations \in Nat /\ child.calls \in Nat /\ child.cost \in Nat /\ spent \in Nat
      /\ nested.open \in Nat
  BY <1>b DEF InvTypeOK, ChildType, NestedType
<1> HIDE DEF I, K, C
<1>d. ASSUME InvTypeOK', HistoryWhole',
             I > 0 => child'.iterations <= I /\ (nested'.at # "done" => child'.iterations < I),
             K > 0 => child'.calls < K,
             spent' = child'.cost,
             nested'.at \in {"idle", "start"} => spent' = 0,
             nested'.at = "turn" => spent' < C,
             nested'.at \in {"explore", "tools", "synthesis"} => spent' <= C + MaxTurnCost,
             spent' <= C + 2 * MaxTurnCost
      PROVE  InvestigationInv'
  BY <1>d DEF InvestigationInv, IterationKept, CallKept, CostKept, I, K, C
<1>e. /\ 0 <= C + MaxTurnCost /\ 0 <= C + 2 * MaxTurnCost
      /\ spent < C => spent <= C + MaxTurnCost /\ spent <= C + 2 * MaxTurnCost
  BY <1>a, <1>c
<1>1. CASE UNCHANGED <<child, spent>> /\ nested'.at \notin {"idle", "start", "turn", "explore"}
           /\ (nested'.at \in {"tools", "synthesis"} =>
                  nested.at \in {"explore", "turn", "tools", "synthesis"})
           /\ (nested'.at # "done" => nested.at # "done")
           /\ InvTypeOK' /\ HistoryWhole'
  BY <1>1, <1>b, <1>d, <1>e
<1>2. CASE InvCalled
  <2>1. InvTypeOK' /\ HistoryWhole' /\ nested.at = "idle" /\ nested'.at = "start"
    BY <1>2, <1>b DEF InvCalled, InvTypeOK, ChildType, NestedType, HistoryWhole
  <2> QED BY <1>2, <1>b, <1>d, <1>e, <2>1 DEF InvCalled
<1>3. CASE InvBegin
  <2>1. /\ InvTypeOK' /\ HistoryWhole' /\ nested.at = "start"
        /\ nested'.at \in {"explore", "done"}
    BY <1>3, <1>b DEF InvBegin, Answered, InvTypeOK, ChildType, NestedType, HistoryWhole
  <2> QED BY <1>3, <1>b, <1>d, <1>e, <2>1 DEF InvBegin
<1>4. CASE Explore
  <2>0. nested.at = "explore" /\ spent' = spent
    BY <1>4 DEF Explore
  <2>1. CASE StopCauses(child.last, TRUE) # {}
    <3>1. PICK why \in StopCauses(child.last, TRUE) :
             nested' = [nested EXCEPT !.at = "synthesis", !.why = why]
      BY <1>4, <2>1 DEF Explore
    <3>2. why \in {"tool_calls", "iterations", "cost", "wall_time", "evidence_limit"}
      BY <3>1 DEF StopCauses
    <3>3. /\ InvTypeOK' /\ HistoryWhole' /\ nested'.at = "synthesis" /\ child' = child
      BY <1>4, <1>b, <2>0, <2>1, <3>1, <3>2 DEF Explore, InvTypeOK, ChildType, NestedType, HistoryWhole
    <3> QED BY <1>1, <2>0, <3>3
  <2>2. CASE StopCauses(child.last, TRUE) = {}
    <3>1. /\ nested' = [nested EXCEPT !.at = "turn"]
          /\ child' = [child EXCEPT !.iterations = @ + 1]
      BY <1>4, <2>2 DEF Explore
    <3>2. child.last \in Nat
      BY <1>b DEF InvTypeOK, ChildType, NestedType
    <3>3. child.iterations + 1 < I /\ child.cost < C
      BY <1>b, <2>2, <3>2, NothingStops DEF I, C
    <3>4. InvTypeOK' /\ HistoryWhole' /\ nested'.at = "turn"
      BY <1>b, <2>0, <3>1 DEF InvTypeOK, ChildType, NestedType, HistoryWhole
    <3>5. /\ child'.iterations = child.iterations + 1 /\ child'.calls = child.calls
          /\ child'.cost = child.cost
      BY <1>b, <3>1 DEF InvTypeOK, ChildType, NestedType
    <3>6. child'.iterations <= I
      BY <1>a, <1>c, <3>3, <3>5
    <3> QED BY <1>b, <1>d, <1>e, <2>0, <3>3, <3>4, <3>5, <3>6
  <2> QED BY <2>1, <2>2
<1>5. ASSUME NEW cost \in 0..MaxTurnCost, NEW calls \in 0..MaxCallsPerTurn,
             ExploreReply(cost, calls)
      PROVE  InvestigationInv'
  <2>1. /\ nested.at = "turn" /\ cost \in Nat /\ cost <= MaxTurnCost /\ calls \in Nat
        /\ spent' = spent + cost
    BY <1>5, <1>a DEF ExploreReply, Charge
  <2>2. PICK w \in {"room", "reserve"} :
           child' = [child EXCEPT !.cost = @ + cost, !.last = cost, !.wall = w]
    <3>1. \E w \in (IF child.wall = "room" THEN {"room", "reserve"} ELSE {child.wall}) :
             child' = [child EXCEPT !.cost = @ + cost, !.last = cost, !.wall = w]
      BY <1>5 DEF ExploreReply, Charge
    <3>2. child.wall \in {"room", "reserve"}
      BY <1>b DEF InvTypeOK, ChildType
    <3>3. (IF child.wall = "room" THEN {"room", "reserve"} ELSE {child.wall})
             \subseteq {"room", "reserve"}
      BY <3>2
    <3> QED BY <3>1, <3>3
  <2>3. /\ nested'.at \in {"tools", "synthesis", "done"}
        /\ nested'.at # "tools" => nested'.open = 0
        /\ nested' \in NestedType
    BY <1>5, <1>b, <2>1 DEF ExploreReply, Answered, InvTypeOK, ChildType, NestedType, HistoryWhole
  <2>4. /\ child'.iterations = child.iterations /\ child'.calls = child.calls
        /\ child'.cost = child.cost + cost /\ child' \in ChildType
    <3>1. child \in ChildType /\ child.cost + cost \in Nat
      BY <1>b, <1>c, <2>1 DEF InvTypeOK
    <3> QED BY <2>1, <2>2, <3>1 DEF ChildType
  <2>5. spent + cost \in Nat /\ spent + cost <= C + MaxTurnCost
        /\ spent + cost <= C + 2 * MaxTurnCost
    BY <1>a, <1>b, <1>c, <2>1
  <2>6. InvTypeOK' /\ HistoryWhole'
    BY <2>1, <2>3, <2>4, <2>5 DEF InvTypeOK, ChildType, NestedType, HistoryWhole
  <2> QED BY <1>b, <1>d, <2>1, <2>3, <2>4, <2>5, <2>6
<1>6. CASE ExploreFails
  <2>1. /\ InvTypeOK' /\ HistoryWhole' /\ nested.at = "turn"
        /\ nested'.at \in {"synthesis", "done"}
    BY <1>6, <1>b DEF ExploreFails, Answered, InvTypeOK, ChildType, NestedType, HistoryWhole
  <2> QED BY <1>1, <1>6, <2>1 DEF ExploreFails
<1>7. CASE NestedCall
  <2> DEFINE stop == IF nested.why # "none" THEN {nested.why} ELSE StopCauses(0, FALSE)
  <2>0. nested.at = "tools" /\ nested.open > 0 /\ spent' = spent
    BY <1>7 DEF NestedCall
  <2>1. CASE stop # {}
    <3>1. PICK why \in stop : nested' = NotExecuted(why)
      BY <1>7, <2>1 DEF NestedCall
    <3>2. why \in {"none", "tool_calls", "iterations", "cost", "wall_time",
                   "evidence_limit", "empty_answer", "provider_error"}
      BY <1>b, <3>1 DEF InvTypeOK, NestedType, StopCauses
    <3>3. /\ InvTypeOK' /\ HistoryWhole' /\ nested'.at = "tools" /\ child' = child
      <4>1. nested.open - 1 \in Nat
        BY <1>c, <2>0
      <4>2. child' = child
        BY <1>7, <2>1 DEF NestedCall
      <4> QED
        BY <1>b, <2>0, <3>1, <3>2, <4>1, <4>2 DEF NotExecuted, InvTypeOK, ChildType, NestedType, HistoryWhole
    <3> QED BY <1>1, <2>0, <3>3
  <2>2. CASE stop = {}
    <3>1. PICK ok \in BOOLEAN, full \in BOOLEAN :
             /\ nested' = [nested EXCEPT !.open = @ - 1]
             /\ child' = [child EXCEPT !.calls = @ + 1,
                            !.evidence = @ \/ ok, !.full = @ \/ full]
      BY <1>7, <2>2 DEF NestedCall
    <3>2. StopCauses(0, FALSE) = {}
      BY <2>2
    <3>3. child.calls + 1 < K
      BY <1>b, <3>2, NothingStops DEF K
    <3>4. nested.open - 1 \in Nat
      BY <1>c, <2>0
    <3>5. InvTypeOK' /\ HistoryWhole' /\ nested'.at = "tools"
      <4>1. child \in ChildType /\ nested \in NestedType /\ child.calls + 1 \in Nat
        BY <1>b, <1>c DEF InvTypeOK
      <4>2. child' \in ChildType
        BY <3>1, <4>1 DEF ChildType
      <4>3. nested' \in NestedType /\ nested'.at = "tools"
        BY <2>0, <3>1, <3>4, <4>1 DEF NestedType
      <4> QED BY <1>b, <2>0, <4>2, <4>3 DEF InvTypeOK, HistoryWhole
    <3>6. /\ child'.iterations = child.iterations /\ child'.calls = child.calls + 1
          /\ child'.cost = child.cost
      BY <1>b, <3>1 DEF InvTypeOK, ChildType, NestedType
    <3> QED BY <1>b, <1>d, <2>0, <3>3, <3>5, <3>6
  <2> QED BY <2>1, <2>2
<1>8. CASE CallsDone
  <2>1. /\ InvTypeOK' /\ HistoryWhole' /\ nested.at = "tools"
        /\ nested'.at \in {"explore", "synthesis"}
    BY <1>8, <1>b DEF CallsDone, InvTypeOK, ChildType, NestedType, HistoryWhole
  <2> QED BY <1>8, <1>b, <1>d, <2>1 DEF CallsDone
<1>9. ASSUME NEW cost \in 0..MaxTurnCost, Synthesize(cost) PROVE InvestigationInv'
  <2>1. /\ nested.at = "synthesis" /\ cost \in Nat /\ cost <= MaxTurnCost
        /\ child' = [child EXCEPT !.iterations = @ + 1, !.cost = @ + cost]
        /\ spent' = spent + cost
        /\ nested' = [nested EXCEPT !.at = "done", !.open = 0]
    BY <1>9, <1>a DEF Synthesize, Answered
  <2>2. /\ child'.iterations = child.iterations + 1 /\ child'.calls = child.calls
        /\ child'.cost = child.cost + cost
    BY <1>b, <2>1 DEF InvTypeOK, ChildType, NestedType
  <2>3. /\ spent + cost \in Nat /\ spent + cost <= C + 2 * MaxTurnCost
        /\ I > 0 => child.iterations + 1 <= I
    BY <1>a, <1>b, <1>c, <2>1
  <2>4. InvTypeOK' /\ HistoryWhole' /\ nested'.at = "done"
    <3>1. /\ child \in ChildType /\ nested \in NestedType
          /\ child.iterations + 1 \in Nat /\ child.cost + cost \in Nat
      BY <1>b, <1>c, <2>1 DEF InvTypeOK
    <3>2. child' \in ChildType
      BY <2>1, <3>1 DEF ChildType
    <3>3. nested' \in NestedType /\ nested'.at = "done" /\ nested'.open = 0
      BY <2>1, <3>1 DEF NestedType
    <3> QED BY <1>b, <2>1, <2>3, <3>2, <3>3 DEF InvTypeOK, HistoryWhole
  <2> QED BY <1>b, <1>d, <2>1, <2>2, <2>3, <2>4
<1>10. CASE SynthesisFails
  <2>1. /\ nested.at = "synthesis"
        /\ child' = [child EXCEPT !.iterations = @ + 1]
        /\ spent' = spent
        /\ nested' = [nested EXCEPT !.at = "done", !.open = 0]
    BY <1>10 DEF SynthesisFails, Answered
  <2>2. /\ child'.iterations = child.iterations + 1 /\ child'.calls = child.calls
        /\ child'.cost = child.cost
    BY <1>b, <2>1 DEF InvTypeOK, ChildType, NestedType
  <2>3. I > 0 => child.iterations + 1 <= I
    BY <1>a, <1>b, <1>c, <2>1
  <2>4. InvTypeOK' /\ HistoryWhole' /\ nested'.at = "done"
    <3>1. /\ child \in ChildType /\ nested \in NestedType
          /\ child.iterations + 1 \in Nat
      BY <1>b, <1>c, <2>1 DEF InvTypeOK
    <3>2. child' \in ChildType
      BY <2>1, <3>1 DEF ChildType
    <3>3. nested' \in NestedType /\ nested'.at = "done" /\ nested'.open = 0
      BY <2>1, <3>1 DEF NestedType
    <3> QED BY <1>b, <2>1, <3>2, <3>3 DEF InvTypeOK, HistoryWhole
  <2> QED BY <1>b, <1>d, <2>1, <2>2, <2>3, <2>4
<1>11. CASE UNCHANGED invVars
  <2>1. InvTypeOK' /\ HistoryWhole' /\ child' = child /\ nested' = nested /\ spent' = spent
    BY <1>11, <1>b DEF invVars, InvTypeOK, ChildType, NestedType, HistoryWhole
  <2> QED BY <1>b, <1>d, <2>1
<1> QED
  BY <1>2, <1>3, <1>4, <1>5, <1>6, <1>7, <1>8, <1>9, <1>10, <1>11 DEF InvNext, InvStep

\* Whatever the provider answers and the tools cost, the nested loop never asks
\* for a turn on a torn history, keeps what its summary needs, and overspends
\* the parent's half by at most two turns.
THEOREM InvestigationPaysItsWay == InvSpec => []InvestigationPays
<1>1. InvInit => InvestigationInv
  BY InvestigationStart
<1>2. InvestigationInv /\ [InvNext]_invVars => InvestigationInv'
  BY InvestigationStep
<1>3. InvestigationInv => InvestigationPays
  BY LimitsAre
     DEF InvestigationInv, HistoryWhole, IterationKept, CallKept, CostKept,
         InvestigationPays, NestedHistoryComplete, SynthesisFunded, ParentOverspendBounded
<1>4. InvSpec => InvInit /\ [][InvNext]_invVars
  BY PTL DEF InvSpec
<1> QED BY <1>1, <1>2, <1>3, <1>4, PTL

(***************************************************************************)
(* GuardedWrites                                                           *)
(***************************************************************************)

SeenFile == [hash : Seq(Nat), covered : SUBSET Nat, complete : BOOLEAN]

GuardTypeOK ==
    /\ content \in [Files -> Seq(Nat)] /\ fresh \in Nat
    /\ seen \in [Files -> SeenFile]

\* The positions of a file that a run has seen: it was shown the byte, or the
\* byte stood between two others and these are known too.
Earned(c, covered, S, P) ==
    /\ covered \subseteq DOMAIN c
    /\ \A p \in covered :
          \/ c[p] \in S
          \/ c[p] \in P /\ {p - 1, p + 1} \cap DOMAIN c \subseteq covered

\* The bytes that stand between two known ones.
Passed(c, known) ==
    {c[p] : p \in {p \in DOMAIN c : /\ {p - 1, p + 1} \subseteq DOMAIN c
                                  /\ {c[p - 1], c[p + 1]} \subseteq known}}

\* A record whose ranges are earned, and which is complete only with all.
Honest(r, S, P) ==
    /\ Earned(r.hash, r.covered, S, P)
    /\ r.complete => r.covered = DOMAIN r.hash

GuardInv == GuardTypeOK /\ \A f \in Files : Honest(seen[f], shown, passed)

LEMMA HonestGrows ==
    ASSUME NEW r \in SeenFile, NEW S, NEW P, NEW S2, NEW P2, Honest(r, S, P),
           S \subseteq S2, P \subseteq P2
    PROVE  Honest(r, S2, P2)
  BY DEF Honest, Earned

\* A file known whole, one of which nothing is known, and none.
LEMMA PlainRecords ==
    ASSUME NEW c \in Seq(Nat), NEW S, NEW P
    PROVE  /\ Unknown \in SeenFile /\ Honest(Unknown, S, P)
           /\ Part(c) \in SeenFile /\ Honest(Part(c), S, P)
           /\ Whole(c) \in SeenFile
           /\ Range(c) \subseteq S \cup P => Honest(Whole(c), S, P)
<1>1. DOMAIN c \subseteq Nat /\ DOMAIN c = 1..Len(c) /\ Len(c) \in Nat /\ <<0>> \in Seq(Nat)
      /\ c = <<>> => DOMAIN c = {}
  OBVIOUS
<1>2. Unknown \in SeenFile /\ Honest(Unknown, S, P)
  BY <1>1 DEF Unknown, Absent, SeenFile, Honest, Earned
<1>3. Part(c) \in SeenFile /\ Honest(Part(c), S, P)
  <2>1. Part(c).hash = c /\ Part(c).covered = {}
    BY DEF Part
  <2>4. Part(c).complete => DOMAIN c = {}
    <3>1. Part(c).complete => c = <<>>
      BY DEF Part
    <3> QED BY <1>1, <3>1
  <2>2. Part(c) \in SeenFile
    BY DEF Part, SeenFile
  <2>3. Honest(Part(c), S, P)
    BY <2>1, <2>4 DEF Honest, Earned
  <2> QED BY <2>2, <2>3
<1>4. Whole(c) \in SeenFile
  BY <1>1 DEF Whole, SeenFile
<1>5. ASSUME Range(c) \subseteq S \cup P PROVE Honest(Whole(c), S, P)
  BY <1>1, <1>5 DEF Whole, Honest, Earned, Range
<1> QED BY <1>2, <1>3, <1>4, <1>5

\* What joining a range to the covered ones makes known: the byte between two
\* ranges stands between two bytes that were shown, for it would be known if
\* one of them had only been passed.
LEMMA MergeIsEarned ==
    ASSUME NEW c \in Seq(Nat), NEW covered, NEW S, NEW P, NEW more,
           NEW first \in Nat, NEW last \in Nat, first >= 1, last <= Len(c),
           covered \subseteq DOMAIN c,
           \A p \in covered :
              \/ c[p] \in S
              \/ c[p] \in P /\ {p - 1, p + 1} \cap DOMAIN c \subseteq covered \cup (first..last),
           \A p \in first..last : c[p] \in more
    PROVE  /\ MergeCoverage(covered, first, last, Len(c)) \subseteq DOMAIN c
           /\ Earned(c, MergeCoverage(covered, first, last, Len(c)), S \cup more,
                     P \cup Passed(c, S \cup more))
<1> DEFINE all == covered \cup (first..last)
           gap == {p \in 1..Len(c) : p - 1 \in all /\ p + 1 \in all}
           Q == P \cup Passed(c, S \cup more)
<1>1. MergeCoverage(covered, first, last, Len(c)) = all \cup gap
  BY DEF MergeCoverage
<1>2. DOMAIN c = 1..Len(c) /\ Len(c) \in Nat /\ covered \subseteq DOMAIN c
  OBVIOUS
<1>3. all \subseteq DOMAIN c /\ gap \subseteq DOMAIN c
  BY <1>2
<1>4. ASSUME NEW p \in covered
      PROVE  c[p] \in S \cup more \/ (c[p] \in Q /\ {p - 1, p + 1} \cap DOMAIN c \subseteq all \cup gap)
  OBVIOUS
<1>5. ASSUME NEW p \in gap, p \notin all
      PROVE  c[p] \in Q /\ {p - 1, p + 1} \subseteq all
  <2>1. p \in DOMAIN c /\ p \in Nat /\ p - 1 \in all /\ p + 1 \in all /\ p \notin covered
    BY <1>2, <1>5
  <2>2. ASSUME NEW q \in all, q = p - 1 \/ q = p + 1 PROVE c[q] \in S \cup more
    <3>1. CASE q \in first..last
      BY <3>1
    <3>2. CASE q \in covered
      <4>1. p \in {q - 1, q + 1}
        BY <2>1, <2>2
      <4>2. c[q] \in S
        BY <1>5, <2>1, <3>2, <4>1
      <4> QED BY <4>2
    <3> QED BY <3>1, <3>2
  <2>3. c[p - 1] \in S \cup more /\ c[p + 1] \in S \cup more
    BY <2>1, <2>2
  <2>4. {p - 1, p + 1} \subseteq DOMAIN c
    BY <2>1, <1>3
  <2>5. c[p] \in Q
    BY <2>1, <2>3, <2>4 DEF Passed
  <2> QED BY <2>1, <2>5
<1>6. Earned(c, all \cup gap, S \cup more, Q)
  <2> SUFFICES ASSUME NEW p \in all \cup gap
               PROVE  \/ c[p] \in S \cup more
                      \/ c[p] \in Q /\ {p - 1, p + 1} \cap DOMAIN c \subseteq all \cup gap
    BY <1>3 DEF Earned
  <2>1. CASE p \in covered
    BY <2>1, <1>4
  <2>2. CASE p \in first..last
    BY <2>2
  <2>3. CASE p \in gap /\ p \notin all
    BY <2>3, <1>5
  <2> QED BY <2>1, <2>2, <2>3
<1> QED
  <2> HIDE DEF all, gap, Q
  <2>1. all \cup gap \subseteq DOMAIN c
    BY <1>3
  <2> QED BY <1>1, <1>6, <2>1 DEF Q

\* An edit brings its own bytes and leaves the others.
LEMMA EditedFacts ==
    ASSUME NEW old \in Seq(Nat), NEW bytes \in Seq(Nat), NEW byte, byte \in Range(old)
    PROVE  /\ Edited(old, bytes, byte) \in Seq(Nat)
           /\ Range(Edited(old, bytes, byte)) \subseteq Range(old) \cup Range(bytes)
<1> DEFINE i == CHOOSE i \in DOMAIN old : old[i] = byte
           a == SubSeq(old, 1, i - 1)
           z == SubSeq(old, i + 1, Len(old))
<1>1. i \in DOMAIN old /\ DOMAIN old = 1..Len(old) /\ Len(old) \in Nat
  BY DEF Range
<1>2. Edited(old, bytes, byte) = a \o bytes \o z
  BY DEF Edited
<1>3. i \in 1..Len(old)
  BY <1>1
<1> HIDE DEF i
<1>4. a \in Seq(Nat) /\ Len(a) = i - 1 /\ \A k \in 1..Len(a) : a[k] = old[k]
  BY <1>1, <1>3
<1>5. z \in Seq(Nat) /\ Len(z) = Len(old) - i /\ \A k \in 1..Len(z) : z[k] = old[i + k]
  <2>1. i + 1 \in Int /\ Len(old) \in Int /\ (\A k \in (i + 1)..Len(old) : old[k] \in Nat)
    BY <1>1, <1>3, ElementOfSeq
  <2>2. Len(z) = (IF i + 1 <= Len(old) THEN Len(old) - (i + 1) + 1 ELSE 0) /\ z \in Seq(Nat)
        /\ \A k \in 1..(Len(old) - (i + 1) + 1) : z[k] = old[(i + 1) + k - 1]
    BY <2>1, SubSeqProperties
  <2>3. \A k \in Int : (i + 1) + k - 1 = i + k
    BY <1>3
  <2>4. Len(z) = Len(old) - i /\ Len(old) - (i + 1) + 1 = Len(old) - i
    BY <1>1, <1>3, <2>2
  <2> HIDE DEF z
  <2>5. ASSUME NEW k \in 1..Len(z) PROVE z[k] = old[i + k]
    <3>1. k \in Int /\ k \in 1..(Len(old) - (i + 1) + 1)
      BY <2>4
    <3> QED BY <2>2, <2>3, <3>1
  <2> QED BY <2>2, <2>4, <2>5
<1> HIDE DEF a, z
<1>6. Range(a) \subseteq Range(old) /\ Range(z) \subseteq Range(old)
  <2>1. DOMAIN a = 1..(i - 1) /\ DOMAIN z = 1..(Len(old) - i)
    BY <1>4, <1>5
  <2>2. \A k \in DOMAIN a : k \in DOMAIN old /\ a[k] = old[k]
    BY <1>1, <1>3, <1>4, <2>1
  <2>3. \A k \in DOMAIN z : i + k \in DOMAIN old /\ z[k] = old[i + k]
    <3>1. \A k \in 1..(Len(old) - i) : i + k \in DOMAIN old
      BY <1>1, <1>3
    <3> QED BY <1>5, <2>1, <3>1
  <2> QED BY <2>2, <2>3 DEF Range
<1>7. \A s, t \in Seq(Nat) : s \o t \in Seq(Nat) /\ Range(s \o t) \subseteq Range(s) \cup Range(t)
  <2> SUFFICES ASSUME NEW s \in Seq(Nat), NEW t \in Seq(Nat)
               PROVE  s \o t \in Seq(Nat) /\ Range(s \o t) \subseteq Range(s) \cup Range(t)
    OBVIOUS
  <2>1. s \o t \in Seq(Nat) /\ Len(s \o t) = Len(s) + Len(t)
        /\ \A k \in 1..(Len(s) + Len(t)) : (s \o t)[k] = IF k <= Len(s) THEN s[k] ELSE t[k - Len(s)]
    OBVIOUS
  <2>2. ASSUME NEW k \in DOMAIN (s \o t) PROVE (s \o t)[k] \in Range(s) \cup Range(t)
    <3>1. k \in 1..(Len(s) + Len(t)) /\ Len(s) \in Nat /\ Len(t) \in Nat
      BY <2>1
    <3>2. CASE k <= Len(s)
      BY <2>1, <3>1, <3>2 DEF Range
    <3>3. CASE ~(k <= Len(s))
      <4>1. k - Len(s) \in DOMAIN t
        BY <3>1, <3>3
      <4> QED BY <2>1, <3>1, <3>3, <4>1 DEF Range
    <3> QED BY <3>2, <3>3
  <2> QED BY <2>1, <2>2 DEF Range
<1>8. a \o bytes \in Seq(Nat) /\ Range(a \o bytes) \subseteq Range(a) \cup Range(bytes)
  BY <1>4, <1>7
<1>9. (a \o bytes) \o z \in Seq(Nat) /\ Range((a \o bytes) \o z) \subseteq Range(a \o bytes) \cup Range(z)
  BY <1>5, <1>7, <1>8
<1> QED BY <1>2, <1>6, <1>8, <1>9

\* After an operation of a patch, or one like it, the record stays honest: only
\* a file known whole is still so after an edit, and a write is known whole.
LEMMA ObservedIsHonest ==
    ASSUME NEW r \in SeenFile, NEW S, NEW P, Honest(r, S, P),
           NEW old \in Seq(Nat), NEW bytes \in Seq(Nat), NEW byte,
           NEW op \in {"edit", "replace", "delete"}, op = "edit" => byte \in Range(old)
    PROVE  /\ FileAfter(op, old, bytes, byte) \in Seq(Nat)
           /\ Observed(r, op, old, FileAfter(op, old, bytes, byte)) \in SeenFile
           /\ Honest(Observed(r, op, old, FileAfter(op, old, bytes, byte)), S \cup Range(bytes), P)
<1>1. CASE op = "delete"
  <2>1. <<0>> \in Seq(Nat)
    OBVIOUS
  <2> QED BY <1>1, <2>1, PlainRecords DEF FileAfter, Observed, Absent
<1>2. CASE op = "replace"
  <2>1. FileAfter(op, old, bytes, byte) = bytes
    BY <1>2 DEF FileAfter, Written
  <2>2. Observed(r, op, old, bytes) = Whole(bytes)
    BY <1>2 DEF Observed
  <2>3. Range(bytes) \subseteq (S \cup Range(bytes)) \cup P
    OBVIOUS
  <2> QED BY <2>1, <2>2, <2>3, PlainRecords
<1>3. CASE op = "edit"
  <2> DEFINE new == Edited(old, bytes, byte)
  <2>1. FileAfter(op, old, bytes, byte) = new /\ Observed(r, op, old, new) = AfterEdit(r, old, new)
    BY <1>3 DEF FileAfter, Observed
  <2>2. new \in Seq(Nat) /\ Range(new) \subseteq Range(old) \cup Range(bytes)
    BY <1>3, EditedFacts
  <2> HIDE DEF new
  <2>3. CASE r.complete /\ r.hash = old
    <3>1. \A p \in DOMAIN old : old[p] \in S \cup P
      BY <2>3 DEF Honest, Earned
    <3>2. Range(old) \subseteq S \cup P
      BY <3>1 DEF Range
    <3>3. Range(new) \subseteq (S \cup Range(bytes)) \cup P
      BY <2>2, <3>2
    <3>4. AfterEdit(r, old, new) = Whole(new)
      BY <2>3 DEF AfterEdit
    <3> QED BY <2>1, <2>2, <3>3, <3>4, PlainRecords
  <2>4. CASE ~(r.complete /\ r.hash = old)
    <3>1. AfterEdit(r, old, new) = Part(new)
      BY <2>4 DEF AfterEdit
    <3> QED BY <2>1, <2>2, <3>1, PlainRecords
  <2> QED BY <2>3, <2>4
<1> QED BY <1>1, <1>2, <1>3

\* An append shows the run its own bytes, after the ones it knew.
LEMMA AppendIsHonest ==
    ASSUME NEW r \in SeenFile, NEW S, NEW P, Honest(r, S, P),
           NEW old \in Seq(Nat), NEW bytes \in Seq(Nat),
           NEW more, Range(bytes) \subseteq more
    PROVE  /\ old \o bytes \in Seq(Nat)
           /\ AfterAppend(r, old, old \o bytes) \in SeenFile
           /\ Honest(AfterAppend(r, old, old \o bytes), S \cup more,
                     P \cup Passed(old \o bytes, S \cup more))
<1> DEFINE new == old \o bytes
           known == r # Unknown /\ r.hash = old
           cov == IF known THEN r.covered ELSE {}
           a == AfterAppend(r, old, new)
           first == Len(old) + 1
           last == Len(new)
           Q == P \cup Passed(new, S \cup more)
<1>1. /\ new \in Seq(Nat) /\ Len(old) \in Nat /\ Len(bytes) \in Nat
      /\ Len(new) = Len(old) + Len(bytes)
      /\ \A k \in 1..(Len(old) + Len(bytes)) :
            new[k] = IF k <= Len(old) THEN old[k] ELSE bytes[k - Len(old)]
      /\ DOMAIN old = 1..Len(old) /\ DOMAIN bytes = 1..Len(bytes) /\ DOMAIN new = 1..Len(new)
  OBVIOUS
<1>2. /\ a.hash = new /\ a.covered = MergeCoverage(cov, first, last, Len(new))
      /\ a.complete => known /\ r.complete
      /\ a = [hash |-> new, covered |-> MergeCoverage(cov, first, last, Len(new)),
              complete |-> known /\ r.complete]
  BY DEF AfterAppend
<1>3. /\ cov \subseteq DOMAIN new /\ cov \subseteq DOMAIN old
      /\ \A p \in cov :
            \/ new[p] \in S
            \/ new[p] \in P /\ {p - 1, p + 1} \cap DOMAIN new \subseteq cov \cup (first..last)
  <2>1. CASE ~known
    <3>1. cov = {}
      BY <2>1
    <3> QED BY <3>1
  <2>2. CASE known
    <3>1. cov = r.covered /\ Earned(old, cov, S, P)
      BY <2>2 DEF Honest
    <3> HIDE DEF cov
    <3>2. cov \subseteq DOMAIN old /\ \A p \in cov : new[p] = old[p] /\ p \in DOMAIN new
      BY <1>1, <3>1 DEF Earned
    <3>3. \A q \in DOMAIN new : q \in DOMAIN old \/ q \in first..last
      BY <1>1
    <3>4. ASSUME NEW p \in cov
          PROVE  \/ new[p] \in S
                 \/ new[p] \in P /\ {p - 1, p + 1} \cap DOMAIN new \subseteq cov \cup (first..last)
      <4>1. old[p] \in S \/ (old[p] \in P /\ {p - 1, p + 1} \cap DOMAIN old \subseteq cov)
        BY <3>1 DEF Earned
      <4>2. new[p] = old[p]
        BY <3>2
      <4> HIDE DEF new, first, last
      <4> QED BY <4>1, <4>2, <3>3
    <3> HIDE DEF new, first, last, cov
    <3> QED BY <3>2, <3>4
  <2> QED BY <2>1, <2>2
<1>4. \A p \in first..last : new[p] \in more
  <2> SUFFICES ASSUME NEW p \in first..last PROVE new[p] \in more
    OBVIOUS
  <2>1. p - Len(old) \in DOMAIN bytes /\ new[p] = bytes[p - Len(old)]
    BY <1>1
  <2> QED BY <2>1 DEF Range
<1>5. first \in Nat /\ last \in Nat /\ first >= 1 /\ last <= Len(new)
  BY <1>1
<1> HIDE DEF new, cov, first, last
<1>6. a.covered \subseteq DOMAIN new /\ Earned(new, a.covered, S \cup more, Q)
  <2> DEFINE mc == MergeCoverage(cov, first, last, Len(new))
  <2>1. mc \subseteq DOMAIN new /\ Earned(new, mc, S \cup more, Q)
    BY <1>1, <1>3, <1>4, <1>5, MergeIsEarned
  <2>2. a.covered = mc
    BY <1>2
  <2> HIDE DEF mc, Q, a
  <2> QED BY <2>1, <2>2
<1>7. a.complete => a.covered = DOMAIN new
  <2> SUFFICES ASSUME a.complete PROVE DOMAIN new \subseteq a.covered
    BY <1>6
  <2>1. cov = DOMAIN old
    BY <1>2 DEF cov, Honest
  <2>2. DOMAIN new \subseteq cov \cup (first..last)
    BY <1>1, <2>1 DEF first, last
  <2> QED BY <1>2, <2>2 DEF MergeCoverage
<1>8. a \in SeenFile
  <2>1. MergeCoverage(cov, first, last, Len(new)) \in SUBSET Nat
    BY <1>1, <1>2, <1>6
  <2>2. (known /\ r.complete) \in BOOLEAN
    BY DEF SeenFile
  <2> HIDE DEF a, known
  <2> QED BY <1>1, <1>2, <2>1, <2>2 DEF SeenFile
<1>9. Honest(a, S \cup more, Q)
  BY <1>2, <1>6, <1>7 DEF Honest
<1> QED BY <1>1, <1>8, <1>9 DEF new
LEMMA LeastExists ==
    ASSUME NEW S, S \subseteq Nat, S # {}
    PROVE  Min(S) \in S /\ \A x \in S : Min(S) <= x
<1> DEFINE R == {p \in Nat \X Nat : p[1] < p[2]}
<1>1. IsWellFoundedOn(OpToRel(<, Nat), Nat)
  BY NatLessThanWellFounded
<1>2. OpToRel(<, Nat) = R
  BY DEF OpToRel
<1>3. IsWellFoundedOn(R, Nat)
  BY <1>1, <1>2
<1>4. PICK x \in S : \A y \in S : ~(<<y, x>> \in R)
  <2> HIDE DEF R
  <2> QED BY <1>3, WFMin
<1>5. ASSUME NEW y \in S PROVE x <= y
  <2>1. x \in Nat /\ y \in Nat
    OBVIOUS
  <2>2. y < x => <<y, x>> \in R
    BY <2>1
  <2> QED BY <1>4, <2>1, <2>2
<1> QED BY <1>5 DEF Min


\* The steps of a patch are a function that exists: one more operation extends
\* the states of the operations before.
Outcome == {"ok", "conflict", "shrink", "missing", "no_match"}

PatchStep(ops, f, byte, i, s) ==
    LET b == <<fresh + i>>
        v == Verdict(ops[i], s.file, ExecutorArguments(f, ops, {})[i], b, TRUE, byte)
        new == FileAfter(ops[i], s.file, b, byte)
    IN  IF s.out # "ok" THEN s
        ELSE IF v # "ok" THEN OperationFailed(s, v)
        ELSE [file |-> new, out |-> "ok", rec |-> Observed(s.rec, ops[i], s.file, new)]

LEMMA PatchStatesFollow ==
    ASSUME NEW ops \in Patches, NEW f \in Files, NEW byte
    PROVE  /\ PatchStates(ops, f, byte)[0] = [file |-> content[f], rec |-> seen[f], out |-> "ok"]
           /\ \A i \in 1..Len(ops) :
                 PatchStates(ops, f, byte)[i] = PatchStep(ops, f, byte, i, PatchStates(ops, f, byte)[i - 1])
<1> DEFINE base == [file |-> content[f], rec |-> seen[f], out |-> "ok"]
           Step(i, s) == PatchStep(ops, f, byte, i, s)
           Eq(n, g) == g = [i \in 0..n |-> IF i = 0 THEN base ELSE Step(i, g[i - 1])]
           Missing == {n \in Nat : ~ \E g : Eq(n, g)}
<1>1. Len(ops) \in Nat
  BY GuardBounds
<1>2. PatchStates(ops, f, byte) = CHOOSE g : Eq(Len(ops), g)
  BY DEF PatchStates, PatchStep
<1> HIDE DEF base, Step
<1>3. Missing = {}
  <2> SUFFICES ASSUME Missing # {} PROVE FALSE
    OBVIOUS
  <2> DEFINE n == Min(Missing)
  <2>1. n \in Missing /\ \A x \in Missing : n <= x
    <3>1. Missing \subseteq Nat
      OBVIOUS
    <3> HIDE DEF Missing
    <3> QED BY <3>1, LeastExists
  <2> HIDE DEF n
  <2>2. n \in Nat /\ ~ \E g : Eq(n, g)
    BY <2>1
  <2>3. CASE n = 0
    <3> DEFINE g == [i \in 0..0 |-> base]
    <3>1. g = [i \in 0..n |-> IF i = 0 THEN base ELSE Step(i, g[i - 1])]
      BY <2>3
    <3> QED BY <2>2, <3>1
  <2>4. CASE n # 0
    <3>1. n - 1 \in Nat /\ ~(n <= n - 1)
      BY <2>2, <2>4
    <3>2. n - 1 \notin Missing
      <4> HIDE DEF Missing
      <4> QED BY <2>1, <3>1
    <3>3. PICK g : Eq(n - 1, g)
      BY <3>1, <3>2
    <3> DEFINE h == [i \in 0..n |-> IF i < n THEN g[i] ELSE Step(n, g[n - 1])]
               k == [i \in 0..n |-> IF i = 0 THEN base ELSE Step(i, h[i - 1])]
    <3>4. ASSUME NEW i \in 0..n PROVE h[i] = k[i]
      <4>0. i \in Nat /\ i <= n
        BY <2>2
      <4>1. CASE i = 0
        <5>1. 0 < n /\ 0 \in 0..(n - 1) /\ 0 \in 0..n
          BY <2>2, <2>4
        <5>2. g[0] = base
          BY <3>3, <5>1
        <5> QED BY <4>1, <5>1, <5>2
      <4>2. CASE i # 0 /\ i < n
        <5>1. i \in 0..(n - 1) /\ i - 1 \in 0..n /\ i - 1 < n
          BY <2>2, <4>0, <4>2
        <5>2. g[i] = Step(i, g[i - 1])
          BY <3>3, <4>2, <5>1
        <5>3. h[i] = g[i] /\ h[i - 1] = g[i - 1]
          BY <4>2, <5>1
        <5>4. k[i] = Step(i, h[i - 1])
          BY <4>2
        <5> QED BY <5>2, <5>3, <5>4
      <4>3. CASE i # 0 /\ ~(i < n)
        <5>1. i = n /\ i - 1 \in 0..n /\ i - 1 < n
          BY <2>2, <4>0, <4>3
        <5>2. h[i] = Step(n, g[n - 1]) /\ h[i - 1] = g[n - 1]
          BY <5>1
        <5>4. k[i] = Step(i, h[i - 1])
          BY <4>3
        <5> QED BY <5>1, <5>2, <5>4
      <4> QED BY <4>1, <4>2, <4>3
    <3>5. h = k
      BY <3>4
    <3> QED BY <2>2, <3>5
  <2> QED BY <2>3, <2>4
<1>4. Eq(Len(ops), PatchStates(ops, f, byte))
  <2>1. \E g : Eq(Len(ops), g)
    BY <1>1, <1>3
  <2> HIDE DEF Eq
  <2> QED BY <1>2, <2>1
<1> DEFINE st == PatchStates(ops, f, byte)
<1> HIDE DEF st
<1>5. st = [i \in 0..Len(ops) |-> IF i = 0 THEN base ELSE Step(i, st[i - 1])]
  BY <1>4 DEF st
<1>6. 0 \in 0..Len(ops) /\ \A i \in 1..Len(ops) : i \in 0..Len(ops) /\ i # 0
  BY <1>1
<1>7. st[0] = base /\ \A i \in 1..Len(ops) : st[i] = Step(i, st[i - 1])
  BY <1>5, <1>6
<1> QED BY <1>7 DEF st, base, Step

LEMMA VerdictFacts ==
    ASSUME NEW op, NEW old, NEW expected, NEW new, NEW drops \in BOOLEAN, NEW byte
    PROVE  /\ Verdict(op, old, expected, new, drops, byte) \in Outcome
           /\ Verdict(op, old, expected, new, drops, byte) = "ok" =>
                 /\ op = "edit" => byte \in Range(old)
                 /\ \A h \in expected : h = old
                 /\ op = "replace" => expected # {} \/ ~Shrinks(old, new, drops)
<1>1. /\ WriteVerdict(op, old, expected, new, drops) \in Outcome
      /\ WriteVerdict(op, old, expected, new, drops) = "ok" =>
           /\ ~HashConflict(expected, old)
           /\ op = "replace" => expected # {} \/ ~Shrinks(old, new, drops)
  BY DEF WriteVerdict, Outcome
<1>2. /\ EditVerdict(old, expected, byte) \in Outcome
      /\ EditVerdict(old, expected, byte) = "ok" => byte \in Range(old) /\ ~HashConflict(expected, old)
  BY DEF EditVerdict, Outcome
<1>3. /\ DeleteVerdict(old, expected) \in Outcome
      /\ DeleteVerdict(old, expected) = "ok" => ~HashConflict(expected, old)
  BY DEF DeleteVerdict, Outcome
<1>4. ~HashConflict(expected, old) => \A h \in expected : h = old
  BY DEF HashConflict
<1> DEFINE v == Verdict(op, old, expected, new, drops, byte)
<1>5. CASE op = "edit"
  <2>1. v = EditVerdict(old, expected, byte)
    BY <1>5 DEF Verdict
  <2> QED BY <1>2, <1>4, <1>5, <2>1
<1>6. CASE op = "delete"
  <2>1. v = DeleteVerdict(old, expected)
    BY <1>6 DEF Verdict
  <2> QED BY <1>3, <1>4, <1>6, <2>1
<1>7. CASE op # "edit" /\ op # "delete"
  <2>1. v = WriteVerdict(op, old, expected, new, drops)
    BY <1>7 DEF Verdict
  <2> QED BY <1>1, <1>4, <1>7, <2>1
<1> QED BY <1>5, <1>6, <1>7

LEMMA BytesFacts ==
    ASSUME GuardTypeOK, NEW n \in Nat
    PROVE  Bytes(n) \in Seq(Nat) /\ Range(Bytes(n)) = {fresh + i : i \in 1..n}
<1>1. fresh \in Nat /\ \A i \in 1..n : fresh + i \in Nat
  BY DEF GuardTypeOK
<1>2. Bytes(n) \in Seq(Nat)
  BY <1>1 DEF Bytes
<1>3. Range(Bytes(n)) = {fresh + i : i \in 1..n}
  BY DEF Bytes, Range
<1> QED BY <1>2, <1>3

\* Through a patch the record is honest about the file so far.
LEMMA PatchIsHonest ==
    ASSUME GuardInv, NEW ops \in Patches, NEW f \in Files, NEW byte, NEW i \in 0..Len(ops)
    PROVE  LET s == PatchStates(ops, f, byte)[i]
           IN  /\ s \in [file : Seq(Nat), rec : SeenFile, out : Outcome]
               /\ Honest(s.rec, shown \cup {fresh + j : j \in 1..i}, passed)
<1> DEFINE st == PatchStates(ops, f, byte)
           State == [file : Seq(Nat), rec : SeenFile, out : Outcome]
           Known(n) == shown \cup {fresh + j : j \in 1..n}
           Bad == {n \in 0..Len(ops) : ~(st[n] \in State /\ Honest(st[n].rec, Known(n), passed))}
<1>1. Len(ops) \in Nat /\ \A k \in 1..Len(ops) : ops[k] \in {"edit", "replace", "delete"}
  BY GuardBounds
<1>2. st[0] = [file |-> content[f], rec |-> seen[f], out |-> "ok"]
      /\ \A k \in 1..Len(ops) : st[k] = PatchStep(ops, f, byte, k, st[k - 1])
  BY PatchStatesFollow
<1> HIDE DEF st
<1>3. content[f] \in Seq(Nat) /\ seen[f] \in SeenFile /\ Honest(seen[f], shown, passed) /\ fresh \in Nat
  BY DEF GuardInv, GuardTypeOK
<1>4. 0 \notin Bad
  <2>1. st[0] \in State /\ st[0].rec = seen[f]
    BY <1>2, <1>3 DEF Outcome
  <2>2. Honest(seen[f], Known(0), passed)
    BY <1>3, HonestGrows
  <2> QED BY <2>1, <2>2
<1>5. ASSUME NEW k \in 1..Len(ops), st[k - 1] \in State, Honest(st[k - 1].rec, Known(k - 1), passed)
      PROVE  st[k] \in State /\ Honest(st[k].rec, Known(k), passed)
  <2> DEFINE s == st[k - 1]
             b == <<fresh + k>>
             v == Verdict(ops[k], s.file, ExecutorArguments(f, ops, {})[k], b, TRUE, byte)
             new == FileAfter(ops[k], s.file, b, byte)
             rec == Observed(s.rec, ops[k], s.file, new)
  <2>1. k \in Nat /\ Known(k - 1) \subseteq Known(k) /\ fresh + k \in Known(k) /\ b \in Seq(Nat)
        /\ Range(b) \subseteq Known(k)
    <3>1. k \in Nat /\ fresh + k \in Nat /\ 1..(k - 1) \subseteq 1..k /\ k \in 1..k
      BY <1>1, <1>3
    <3>2. b \in Seq(Nat) /\ Range(b) = {fresh + k}
      BY <3>1 DEF Range
    <3> QED BY <3>1, <3>2
  <2>2. st[k] = IF s.out # "ok" THEN s ELSE IF v # "ok" THEN OperationFailed(s, v)
                ELSE [file |-> new, out |-> "ok", rec |-> rec]
    BY <1>2 DEF PatchStep
  <2>3. s.file \in Seq(Nat) /\ s.rec \in SeenFile /\ Honest(s.rec, Known(k - 1), passed)
    BY <1>5
  <2>4. Honest(s.rec, Known(k), passed)
    BY <2>1, <2>3, HonestGrows
  <2>5. v \in Outcome /\ (v = "ok" /\ ops[k] = "edit" => byte \in Range(s.file))
    <3> DEFINE V(op, old, e, n) == Verdict(op, old, e, n, TRUE, byte)
    <3>1. \A op, old, e, n :
            /\ V(op, old, e, n) \in Outcome
            /\ V(op, old, e, n) = "ok" /\ op = "edit" => byte \in Range(old)
      BY VerdictFacts
    <3>2. v = V(ops[k], s.file, ExecutorArguments(f, ops, {})[k], b)
      OBVIOUS
    <3> HIDE DEF V, s, b, v
    <3> QED BY <3>1, <3>2
  <2>6. CASE s.out # "ok"
    BY <1>5, <2>2, <2>4, <2>6
  <2>7. CASE s.out = "ok" /\ v # "ok"
    <3>1. st[k] = [s EXCEPT !.out = v]
      BY <2>2, <2>7 DEF OperationFailed
    <3> HIDE DEF v, s
    <3>2. s \in State
      BY <1>5 DEF s
    <3>3. st[k] \in State /\ st[k].rec = s.rec
      BY <3>1, <3>2, <2>5
    <3> QED BY <2>4, <3>3
  <2>8. CASE s.out = "ok" /\ v = "ok"
    <3>1. st[k] = [file |-> new, out |-> "ok", rec |-> rec]
      BY <2>2, <2>8
    <3>2. ops[k] \in {"edit", "replace", "delete"} /\ (ops[k] = "edit" => byte \in Range(s.file))
      BY <1>1, <2>5, <2>8
    <3>3. new \in Seq(Nat) /\ rec \in SeenFile /\ Honest(rec, Known(k - 1) \cup Range(b), passed)
      BY <2>1, <2>3, <3>2, ObservedIsHonest
    <3> HIDE DEF new, rec, s, v
    <3>4. Known(k - 1) \cup Range(b) \subseteq Known(k)
      BY <2>1
    <3>5. Honest(rec, Known(k), passed)
      <4> HIDE DEF Known
      <4> QED BY <3>3, <3>4, HonestGrows
    <3>6. st[k] \in State /\ st[k].rec = rec
      BY <3>1, <3>3 DEF Outcome
    <3> QED BY <3>5, <3>6
  <2> QED BY <2>6, <2>7, <2>8
<1>6. Bad = {}
  <2> SUFFICES ASSUME Bad # {} PROVE FALSE
    OBVIOUS
  <2> DEFINE n == Min(Bad)
  <2>1. n \in Bad /\ \A x \in Bad : n <= x
    <3>1. Bad \subseteq Nat
      BY <1>1
    <3> HIDE DEF Bad
    <3> QED BY <3>1, LeastExists
  <2> HIDE DEF n
  <2>2. n \in 1..Len(ops) /\ n - 1 \in 0..Len(ops) /\ ~(n <= n - 1)
    <3>1. n \in 0..Len(ops) /\ n # 0
      <4>1. n \in 0..Len(ops)
        BY <2>1
      <4>2. n # 0
        <5> HIDE DEF Bad
        <5> QED BY <1>4, <2>1
      <4> QED BY <4>1, <4>2
    <3> QED BY <3>1, <1>1
  <2>3. n - 1 \notin Bad
    <3> HIDE DEF Bad
    <3> QED BY <2>1, <2>2
  <2>4. st[n - 1] \in State /\ Honest(st[n - 1].rec, Known(n - 1), passed)
    BY <2>2, <2>3
  <2>5. st[n] \in State /\ Honest(st[n].rec, Known(n), passed)
    <3> HIDE DEF State, Known
    <3> QED BY <1>5, <2>2, <2>4
  <2> QED BY <2>1, <2>5
<1>7. i \notin Bad
  BY <1>6
<1> QED BY <1>7 DEF st

\* A step about one file: the others' records stay, and what is known grows.
LEMMA OneFileKeeps ==
    ASSUME GuardInv, NEW f \in Files, NEW r \in SeenFile,
           content' \in [Files -> Seq(Nat)], fresh' \in Nat,
           seen' = [seen EXCEPT ![f] = r], Honest(r, shown', passed'),
           shown \subseteq shown', passed \subseteq passed'
    PROVE  GuardInv'
<1>1. seen \in [Files -> SeenFile]
  BY DEF GuardInv, GuardTypeOK
<1>2. seen' \in [Files -> SeenFile]
  BY <1>1
<1>3. ASSUME NEW g \in Files PROVE Honest(seen'[g], shown', passed')
  <2>1. CASE g = f
    BY <1>1, <2>1
  <2>2. CASE g # f
    <3>1. seen'[g] = seen[g] /\ seen[g] \in SeenFile /\ Honest(seen[g], shown, passed)
      BY <1>1, <2>2 DEF GuardInv
    <3> QED BY <3>1, HonestGrows
  <2> QED BY <2>1, <2>2
<1> QED BY <1>2, <1>3 DEF GuardInv, GuardTypeOK

LEMMA LearnsFacts ==
    ASSUME NEW c, NEW more, Learns(c, more)
    PROVE  /\ shown' = shown \cup more /\ passed' = passed \cup Passed(c, shown \cup more)
           /\ shown \subseteq shown' /\ passed \subseteq passed'
<1>1. shown' = shown \cup more /\ passed' = passed \cup Passed(c, shown \cup more)
  BY DEF Learns, Passed
<1> QED BY <1>1

LEMMA ReadKeeps ==
    ASSUME GuardInv, NEW f \in Files, NEW first \in 1..MaxBytes, NEW last \in 1..MaxBytes,
           Read(f, first, last)
    PROVE  GuardInv'
<1> DEFINE c == content[f]
           r == RecordFor(f)
           cov == MergeCoverage(r.covered, first, last, Len(c))
           more == {c[p] : p \in first..last}
           new == [hash |-> c, covered |-> cov, complete |-> CoverageComplete(cov, Len(c))]
<1>1. /\ last <= Len(c) /\ Learns(c, more) /\ seen' = [seen EXCEPT ![f] = new]
      /\ content' = content /\ fresh' = fresh
  BY DEF Read
<1>2. first \in Nat /\ last \in Nat /\ first >= 1
  BY GuardBounds
<1>3. /\ content \in [Files -> Seq(Nat)] /\ fresh \in Nat
      /\ c \in Seq(Nat) /\ DOMAIN c = 1..Len(c) /\ Len(c) \in Nat
      /\ seen[f] \in SeenFile /\ Honest(seen[f], shown, passed)
  BY DEF GuardInv, GuardTypeOK
<1>4. Earned(c, r.covered, shown, passed)
  <2>1. CASE r = Part(c)
    BY <2>1, <1>3, PlainRecords DEF Honest, Part
  <2>2. CASE r = seen[f] /\ seen[f].hash = c
    BY <2>2, <1>3 DEF Honest
  <2> QED BY <2>1, <2>2 DEF RecordFor
<1>5. shown' = shown \cup more /\ passed' = passed \cup Passed(c, shown \cup more)
      /\ shown \subseteq shown' /\ passed \subseteq passed'
  BY <1>1, LearnsFacts
<1>6. cov \subseteq DOMAIN c /\ Earned(c, cov, shown \cup more, passed \cup Passed(c, shown \cup more))
  <2>1. /\ r.covered \subseteq DOMAIN c
        /\ \A p \in r.covered :
              \/ c[p] \in shown
              \/ c[p] \in passed /\ {p - 1, p + 1} \cap DOMAIN c \subseteq r.covered \cup (first..last)
    BY <1>4 DEF Earned
  <2>2. \A p \in first..last : c[p] \in more
    OBVIOUS
  <2> HIDE DEF c, r, more
  <2> QED BY <1>1, <1>2, <1>3, <2>1, <2>2, MergeIsEarned
<1>7. new \in SeenFile /\ Honest(new, shown', passed')
  <2>1. new.hash = c /\ new.covered = cov /\ (new.complete => cov = 1..Len(c))
    BY DEF CoverageComplete
  <2>2. new \in SeenFile
    <3>1. cov \in SUBSET Nat /\ CoverageComplete(cov, Len(c)) \in BOOLEAN
      BY <1>3, <1>6 DEF CoverageComplete
    <3> HIDE DEF c, cov
    <3> QED BY <1>3, <3>1 DEF SeenFile
  <2> HIDE DEF new, c, cov, more
  <2> QED BY <1>3, <1>5, <1>6, <2>1, <2>2 DEF Honest
<1> QED
  <2> HIDE DEF new, c, more
  <2> QED BY <1>1, <1>3, <1>5, <1>7, OneFileKeeps

LEMMA MutateKeeps ==
    ASSUME GuardInv, NEW op \in {"replace", "append", "edit"}, NEW f \in Files, NEW n \in Nat,
           NEW given, NEW drops \in BOOLEAN, NEW byte, Mutate(op, f, n, given, drops, byte)
    PROVE  GuardInv'
<1> DEFINE old == content[f]
           expected == ExecutorArguments(f, <<op>>, given)[1]
           new == FileAfter(op, old, Bytes(n), byte)
           verdict == Verdict(op, old, expected, Bytes(n), drops, byte)
           rec == Observed(seen[f], op, old, new)
           more == Range(Bytes(n)) \cup (IF op = "edit" THEN {byte} ELSE {})
<1>1. /\ content \in [Files -> Seq(Nat)] /\ fresh \in Nat /\ old \in Seq(Nat)
      /\ seen \in [Files -> SeenFile] /\ seen[f] \in SeenFile /\ Honest(seen[f], shown, passed)
  BY DEF GuardInv, GuardTypeOK
<1>2. Bytes(n) \in Seq(Nat)
  BY BytesFacts DEF GuardInv
<1>3. CASE verdict # "ok"
  <2>1. /\ content' = content /\ fresh' = fresh /\ shown' = shown /\ passed' = passed
        /\ \/ seen' = [seen EXCEPT ![f] = Unknown]
           \/ seen' = [seen EXCEPT ![f] = seen[f]]
    BY <1>3 DEF Mutate
  <2>2. Unknown \in SeenFile /\ Honest(Unknown, shown, passed)
    BY <1>1, PlainRecords
  <2> HIDE DEF old
  <2> QED BY <1>1, <2>1, <2>2, OneFileKeeps
<1>4. CASE verdict = "ok"
  <2>1. /\ content' = [content EXCEPT ![f] = new] /\ seen' = [seen EXCEPT ![f] = rec]
        /\ fresh' = fresh + n /\ Learns(new, more)
    BY <1>4 DEF Mutate
  <2>2. /\ shown' = shown \cup more /\ passed' = passed \cup Passed(new, shown \cup more)
        /\ shown \subseteq shown' /\ passed \subseteq passed'
    BY <2>1, LearnsFacts
  <2>3. Range(Bytes(n)) \subseteq more
    OBVIOUS
  <2>4. new \in Seq(Nat) /\ rec \in SeenFile /\ Honest(rec, shown', passed')
    <3>1. CASE op \in {"edit", "replace"}
      <4>1. op = "edit" => byte \in Range(old)
        BY <1>4, VerdictFacts
      <4>2. new \in Seq(Nat) /\ rec \in SeenFile /\ Honest(rec, shown \cup Range(Bytes(n)), passed)
        BY <1>1, <1>2, <3>1, <4>1, ObservedIsHonest
      <4>3. shown \cup Range(Bytes(n)) \subseteq shown'
        BY <2>2, <2>3
      <4> HIDE DEF new, rec
      <4> QED BY <2>2, <4>2, <4>3, HonestGrows
    <3>2. CASE op = "append" /\ old # Absent
      <4>1. new = old \o Bytes(n) /\ rec = AfterAppend(seen[f], old, new)
        BY <3>2 DEF FileAfter, Written, Observed
      <4> HIDE DEF old, more, rec, new
      <4>2. new \in Seq(Nat) /\ rec \in SeenFile
            /\ Honest(rec, shown \cup more, passed \cup Passed(new, shown \cup more))
        BY <1>1, <1>2, <2>3, <4>1, AppendIsHonest
      <4> QED BY <2>2, <4>2
    <3>3. CASE op = "append" /\ old = Absent
      <4>1. new = Bytes(n) /\ rec = Whole(new)
        BY <3>3 DEF FileAfter, Written, Observed
      <4>2. Range(new) \subseteq shown' \cup passed'
        BY <2>2, <2>3, <4>1
      <4> HIDE DEF rec, new
      <4> QED BY <1>2, <4>1, <4>2, PlainRecords
    <3> QED BY <3>1, <3>2, <3>3
  <2>5. content' \in [Files -> Seq(Nat)] /\ fresh' \in Nat
    <3> HIDE DEF new
    <3> QED BY <1>1, <2>1, <2>4
  <2> HIDE DEF new, rec, more, old
  <2> QED BY <2>1, <2>2, <2>4, <2>5, OneFileKeeps
<1> QED BY <1>3, <1>4

LEMMA PatchKeeps ==
    ASSUME GuardInv, NEW ops \in Patches, NEW f \in Files, NEW byte, Patch(ops, f, byte)
    PROVE  GuardInv'
<1> DEFINE end == PatchStates(ops, f, byte)[Len(ops)]
           more == Range(Bytes(Len(ops))) \cup (IF "edit" \in Range(ops) THEN {byte} ELSE {})
<1>1. /\ content \in [Files -> Seq(Nat)] /\ fresh \in Nat
      /\ seen \in [Files -> SeenFile] /\ seen[f] \in SeenFile /\ Honest(seen[f], shown, passed)
  BY DEF GuardInv, GuardTypeOK
<1>2. Len(ops) \in Nat /\ Len(ops) \in 0..Len(ops)
  BY GuardBounds
<1>3. /\ end.file \in Seq(Nat) /\ end.rec \in SeenFile
      /\ Honest(end.rec, shown \cup {fresh + j : j \in 1..Len(ops)}, passed)
  <2>1. /\ end \in [file : Seq(Nat), rec : SeenFile, out : Outcome]
        /\ Honest(end.rec, shown \cup {fresh + j : j \in 1..Len(ops)}, passed)
    BY <1>2, PatchIsHonest
  <2> HIDE DEF end
  <2> QED BY <2>1
<1>4. CASE end.out # "ok"
  <2>1. /\ content' = content /\ fresh' = fresh /\ shown' = shown /\ passed' = passed
        /\ \/ seen' = [seen EXCEPT ![f] = Unknown]
           \/ seen' = [seen EXCEPT ![f] = seen[f]]
    BY <1>4 DEF Patch
  <2>2. Unknown \in SeenFile /\ Honest(Unknown, shown, passed)
    <3>1. <<>> \in Seq(Nat)
      OBVIOUS
    <3> QED BY <3>1, PlainRecords
  <2> QED BY <1>1, <2>1, <2>2, OneFileKeeps
<1>5. CASE end.out = "ok"
  <2>1. /\ content' = [content EXCEPT ![f] = end.file] /\ seen' = [seen EXCEPT ![f] = end.rec]
        /\ fresh' = fresh + Len(ops) /\ Learns(end.file, more)
    BY <1>5 DEF Patch
  <2> HIDE DEF end
  <2>2. /\ shown' = shown \cup more /\ shown \subseteq shown' /\ passed \subseteq passed'
    BY <2>1, LearnsFacts
  <2>3. shown \cup {fresh + j : j \in 1..Len(ops)} \subseteq shown'
    <3>1. Range(Bytes(Len(ops))) = {fresh + j : j \in 1..Len(ops)}
      BY <1>2, BytesFacts DEF GuardInv
    <3> QED BY <2>2, <3>1
  <2>4. Honest(end.rec, shown', passed')
    BY <1>3, <2>2, <2>3, HonestGrows
  <2>5. content' \in [Files -> Seq(Nat)] /\ fresh' \in Nat
    BY <1>1, <1>2, <1>3, <2>1
  <2> HIDE DEF more
  <2> QED BY <1>3, <2>1, <2>2, <2>4, <2>5, OneFileKeeps
<1> QED BY <1>4, <1>5

\* What happens to a file behind the run's back leaves a file, and a record is
\* about what was seen, not about what is there.
LEMMA BehindKeeps ==
    ASSUME GuardInv, NEW f \in Files, Bash(f) \/ Outside(f)
    PROVE  GuardInv'
<1>1. /\ content \in [Files -> Seq(Nat)] /\ fresh \in Nat /\ content[f] \in Seq(Nat)
      /\ seen \in [Files -> SeenFile]
      /\ \A g \in Files : Honest(seen[g], shown, passed)
  BY DEF GuardInv, GuardTypeOK
<1> DEFINE d == content[f]
<1>2. PICK i \in DOMAIN d, b \in {<<>>, <<fresh + 1>>} :
         content' = [content EXCEPT ![f] = SubSeq(d, 1, i - 1) \o b \o SubSeq(d, i + 1, Len(d))]
  BY DEF Bash, Outside, Tampered
<1> DEFINE c == SubSeq(d, 1, i - 1) \o b \o SubSeq(d, i + 1, Len(d))
<1>3. c \in Seq(Nat)
  <2>1. d \in Seq(Nat) /\ fresh + 1 \in Nat
    BY <1>1
  <2> HIDE DEF d
  <2>2. i \in 1..Len(d) /\ Len(d) \in Nat
    BY <2>1
  <2>3. b \in Seq(Nat)
    <3>1. b = <<>> \/ b = <<fresh + 1>>
      OBVIOUS
    <3>2. <<>> \in Seq(Nat) /\ <<fresh + 1>> \in Seq(Nat)
      BY <2>1
    <3> QED BY <3>1, <3>2
  <2>4. SubSeq(d, 1, i - 1) \in Seq(Nat)
    BY <2>1, <2>2
  <2>5. SubSeq(d, i + 1, Len(d)) \in Seq(Nat)
    <3>1. i + 1 \in Int /\ Len(d) \in Int /\ \A k \in (i + 1)..Len(d) : d[k] \in Nat
      BY <2>1, <2>2, ElementOfSeq
    <3> QED BY <3>1, SubSeqProperties
  <2>6. \A s, t \in Seq(Nat) : s \o t \in Seq(Nat)
    OBVIOUS
  <2> QED BY <2>3, <2>4, <2>5, <2>6
<1> HIDE DEF c
<1>4. content' \in [Files -> Seq(Nat)]
  <2>1. content' = [content EXCEPT ![f] = c]
    BY <1>2 DEF c
  <2> QED BY <1>1, <1>3, <2>1
<1>5. /\ fresh' = fresh + 1 /\ shown' = shown /\ passed' = passed
      /\ \/ seen' = [g \in Files |-> Unknown]
         \/ seen' = seen
  BY DEF Bash, Outside
<1>6. Unknown \in SeenFile /\ Honest(Unknown, shown, passed)
  BY <1>1, PlainRecords
<1>7. seen' \in [Files -> SeenFile] /\ \A g \in Files : Honest(seen'[g], shown, passed)
  BY <1>1, <1>5, <1>6
<1> QED BY <1>1, <1>4, <1>5, <1>7 DEF GuardInv, GuardTypeOK

LEMMA GuardStarts == GuardInit => GuardInv
<1> SUFFICES ASSUME GuardInit PROVE GuardInv
  OBVIOUS
<1>1. Unknown \in SeenFile /\ Honest(Unknown, shown, passed)
  <2>1. <<>> \in Seq(Nat)
    OBVIOUS
  <2> QED BY <2>1, PlainRecords
<1>2. content \in [Files -> Seq(Nat)] /\ fresh \in Nat
  BY GuardBounds DEF GuardInit
<1>3. seen \in [Files -> SeenFile] /\ \A f \in Files : Honest(seen[f], shown, passed)
  BY <1>1 DEF GuardInit
<1> QED BY <1>2, <1>3 DEF GuardInv, GuardTypeOK

LEMMA GuardKeeps == GuardInv /\ [GuardNext]_guardVars => GuardInv'
<1> SUFFICES ASSUME GuardInv, [GuardNext]_guardVars PROVE GuardInv'
  OBVIOUS
<1>1. ASSUME NEW f \in Files, NEW i \in 1..MaxBytes, NEW j \in 1..MaxBytes, Read(f, i, j)
      PROVE  GuardInv'
  BY <1>1, ReadKeeps
<1>2. ASSUME NEW f \in Files, NEW n \in Sizes, NEW given, NEW lines \in BOOLEAN,
             Mutate("replace", f, n, given, lines, 0) \/ Mutate("append", f, n, given, FALSE, 0)
      PROVE  GuardInv'
  <2>1. n \in Nat
    BY GuardBounds
  <2> QED BY <1>2, <2>1, MutateKeeps
<1>3. ASSUME NEW f \in Files, NEW n \in {0, 1}, NEW byte, Mutate("edit", f, n, {}, FALSE, byte)
      PROVE  GuardInv'
  BY <1>3, MutateKeeps
<1>4. ASSUME NEW f \in Files, NEW ops \in Patches, NEW byte, Patch(ops, f, byte)
      PROVE  GuardInv'
  BY <1>4, PatchKeeps
<1>5. ASSUME NEW f \in Files, Bash(f) \/ Outside(f) PROVE GuardInv'
  BY <1>5, BehindKeeps
<1>6. CASE NewRun
  <2>1. /\ content' = content /\ fresh' = fresh /\ shown' = {} /\ passed' = {}
        /\ seen' = [f \in Files |-> Unknown]
    BY <1>6 DEF NewRun
  <2>2. Unknown \in SeenFile /\ Honest(Unknown, {}, {})
    <3>1. <<>> \in Seq(Nat)
      OBVIOUS
    <3> QED BY <3>1, PlainRecords
  <2>3. content \in [Files -> Seq(Nat)] /\ fresh \in Nat
    BY DEF GuardInv, GuardTypeOK
  <2>4. seen' \in [Files -> SeenFile] /\ \A f \in Files : Honest(seen'[f], shown', passed')
    BY <2>1, <2>2
  <2> QED BY <2>1, <2>3, <2>4 DEF GuardInv, GuardTypeOK
<1>7. CASE UNCHANGED guardVars
  <2>1. content' = content /\ fresh' = fresh /\ seen' = seen /\ shown' = shown /\ passed' = passed
    BY <1>7 DEF guardVars
  <2> QED BY <2>1 DEF GuardInv, GuardTypeOK
<1> QED BY <1>1, <1>2, <1>3, <1>4, <1>5, <1>6, <1>7 DEF GuardNext

\* A complete record covers the whole file.
LEMMA CompleteIsEarned ==
    ASSUME GuardInv, NEW f \in Files, seen[f].complete, seen[f].hash = content[f]
    PROVE  Range(content[f]) \subseteq shown \cup passed
<1>1. seen[f].covered = DOMAIN content[f] /\ Earned(content[f], seen[f].covered, shown, passed)
  BY DEF GuardInv, Honest
<1>2. \A p \in DOMAIN content[f] : content[f][p] \in shown \cup passed
  BY <1>1 DEF Earned
<1> QED BY <1>2 DEF Range

LEMMA MutateDid ==
    ASSUME NEW op, NEW f, NEW n, NEW given, NEW drops, NEW byte,
           Mutate(op, f, n, given, drops, byte)
    PROVE  /\ did'.file = f
           /\ given # {} => did'.kind = "named"
           /\ op = "replace" /\ ~drops /\ given = {} => did'.kind = "reflow"
           /\ op # "replace" /\ given = {} => did'.kind = op
<1> DEFINE kind == IF given # {} THEN "named" ELSE IF op = "replace" /\ ~drops THEN "reflow" ELSE op
<1>1. \E out : did' = Did(kind, f, out)
  BY DEF Mutate
<1>2. did'.file = f /\ did'.kind = kind
  BY <1>1 DEF Did
<1> QED BY <1>2

\* A replacement that got past guard_shrink without a hash of the run's own was
\* confirmed by a complete record of the file as it was.
LEMMA ReplacementIsConfirmed ==
    ASSUME GuardInv, NEW f \in Files, NEW n \in Nat,
           Mutate("replace", f, n, {}, TRUE, 0), did'.out = "ok",
           Exists(f), Len(content[f]) >= GuardedSize, 2 * Len(content'[f]) < Len(content[f])
    PROVE  Range(content[f]) \subseteq shown \cup passed
<1> DEFINE old == content[f]
           expected == ExecutorArguments(f, <<"replace">>, {})[1]
           verdict == Verdict("replace", old, expected, Bytes(n), TRUE, 0)
<1>1. did' = Did("replace", f, verdict)
  BY DEF Mutate
<1>2. verdict = "ok"
  BY <1>1 DEF Did
<1>3. content' = [content EXCEPT ![f] = Bytes(n)]
  BY <1>2 DEF Mutate, FileAfter, Written
<1>4. content'[f] = Bytes(n)
  BY <1>3 DEF GuardInv, GuardTypeOK
<1>5. Shrinks(old, Bytes(n), TRUE)
  BY <1>4 DEF Shrinks, Exists
<1>6. expected = Filled(seen[f], "replace")
  BY DEF ExecutorArguments
<1>7. expected # {} /\ \A h \in expected : h = old
  <2> HIDE DEF expected, old
  <2> QED BY <1>2, <1>5, VerdictFacts
<1>8. seen[f].complete /\ expected = {seen[f].hash}
  BY <1>6, <1>7 DEF Filled
<1> QED BY <1>7, <1>8, CompleteIsEarned

LEMMA GuardHolds == GuardSpec => []GuardInv
  BY GuardStarts, GuardKeeps, PTL DEF GuardSpec

\* Neither a read, an edit, an append, a patch nor a change behind the run's back
\* makes a record complete that was not earned (_observe_files), and no
\* replacement drops most of a file the run has not read (guard_shrink with the
\* hash of _fill_expected_hash).
THEOREM NothingUnreadIsDropped == GuardSpec => ReadsGuardWrites
<1>1. GuardInv => CoverageHonest
  BY CompleteIsEarned DEF CoverageHonest
<1>2. GuardInv /\ [GuardNext]_guardVars => [DropsOnlySeen]_guardVars
  <2> SUFFICES ASSUME GuardInv, GuardNext, NEW f \in Files,
                      did'.kind = "replace", did'.file = f, did'.out = "ok",
                      Exists(f), Len(content[f]) >= GuardedSize,
                      2 * Len(content'[f]) < Len(content[f])
               PROVE  Range(content[f]) \subseteq shown \cup passed
    BY DEF DropsOnlySeen
  <2>1. ASSUME NEW g \in Files, NEW n \in Sizes, NEW given, NEW lines \in BOOLEAN,
               Mutate("replace", g, n, given, lines, 0)
        PROVE  g = f /\ given = {} /\ lines = TRUE /\ n \in Nat
    BY <2>1, GuardBounds, MutateDid
  <2>2. \A g \in Files : \A n, given, byte : ~Mutate("append", g, n, given, FALSE, byte)
    BY MutateDid
  <2>3. \A g \in Files : \A n, byte : ~Mutate("edit", g, n, {}, FALSE, byte)
    BY MutateDid
  <2>4. \A g \in Files : \A i, j : ~Read(g, i, j)
    BY DEF Read, Did
  <2>5. \A g \in Files : \A ops, byte : ~Patch(ops, g, byte)
    BY DEF Patch, Did
  <2>6. \A g \in Files : ~Bash(g) /\ ~Outside(g)
    BY DEF Bash, Outside, Did
  <2>7. ~NewRun
    BY DEF NewRun, Did
  <2>8. PICK g \in Files, n \in Sizes, lines \in BOOLEAN :
           \E given : Mutate("replace", g, n, given, lines, 0)
    BY <2>2, <2>3, <2>4, <2>5, <2>6, <2>7 DEF GuardNext
  <2>9. Mutate("replace", f, n, {}, TRUE, 0) /\ n \in Nat
    BY <2>1, <2>8
  <2> QED BY <2>9, ReplacementIsConfirmed
<1>3. CoverageHonest' /\ [DropsOnlySeen]_guardVars => [CoverageHonest' /\ DropsOnlySeen]_guardVars
  OBVIOUS
<1> QED BY <1>1, <1>2, <1>3, GuardHolds, PTL DEF ReadsGuardWrites, GuardSpec
-----------------------------------------------------------------------------
(***************************************************************************)
(* ModelTurns: the text.                                                   *)
(***************************************************************************)

Chunk == Nat \X Nat
Fragment == [call : Nat, frag : Nat]

\* The last n journalled chunks are the first n of the text, and all before
\* them are of earlier attempts.
LiveEndsWith(text, n, lv, attempt) ==
    /\ n <= Len(lv) /\ n <= Len(text)
    /\ \A k \in 1..Len(lv) - n : lv[k][1] < attempt
    /\ \A k \in 1..n : lv[Len(lv) - n + k] = text[k]

\* The buffer is what was not journalled, until the cap is reached.
BufferIsRest(text, d) ==
    /\ d.sent <= StreamMax
    /\ d.sent = StreamMax => d.buffer = <<>>
    /\ d.sent < StreamMax =>
          /\ Len(text) = d.sent + Len(d.buffer)
          /\ \A k \in 1..Len(d.buffer) : d.buffer[k] = text[d.sent + k]

LEMMA FlushFacts ==
    ASSUME NEW d \in [buffer : Seq(Chunk), sent : Nat], NEW lv \in Seq(Chunk)
    PROVE  \E m \in 0..Len(d.buffer) :
              /\ m = IF StreamMax > d.sent
                     THEN (IF Len(d.buffer) < StreamMax - d.sent THEN Len(d.buffer) ELSE StreamMax - d.sent)
                     ELSE 0
              /\ Flush(d, lv).deltas = [buffer |-> <<>>, sent |-> d.sent + m]
              /\ Flush(d, lv).deltas \in [buffer : Seq(Chunk), sent : Nat]
              /\ Flush(d, lv).live \in Seq(Chunk) /\ Len(Flush(d, lv).live) = Len(lv) + m
              /\ \A k \in 1..Len(lv) : Flush(d, lv).live[k] = lv[k]
              /\ \A k \in 1..m : Flush(d, lv).live[Len(lv) + k] = d.buffer[k]
<1> DEFINE room == IF StreamMax > d.sent THEN StreamMax - d.sent ELSE 0
           m == IF Len(d.buffer) < room THEN Len(d.buffer) ELSE room
           out == SubSeq(d.buffer, 1, m)
<1>1. d.buffer \in Seq(Chunk) /\ d.sent \in Nat /\ StreamMax \in Nat /\ Len(d.buffer) \in Nat /\ Len(lv) \in Nat
  BY ModelTurnsAssumption
<1>2. room \in Nat /\ m \in 0..Len(d.buffer)
  BY <1>1
<1>3. Flush(d, lv).deltas = [buffer |-> <<>>, sent |-> d.sent + Len(out)] /\ Flush(d, lv).live = lv \o out
  BY DEF Flush
<1>4. m = IF StreamMax > d.sent
          THEN (IF Len(d.buffer) < StreamMax - d.sent THEN Len(d.buffer) ELSE StreamMax - d.sent)
          ELSE 0
  BY <1>1
<1> HIDE DEF room, m
<1>5. out \in Seq(Chunk) /\ Len(out) = m /\ \A k \in 1..m : out[k] = d.buffer[k]
  BY <1>1, <1>2
<1> HIDE DEF out
<1>6. /\ lv \o out \in Seq(Chunk) /\ Len(lv \o out) = Len(lv) + m
      /\ \A k \in 1..Len(lv) : (lv \o out)[k] = lv[k]
      /\ \A k \in 1..m : (lv \o out)[Len(lv) + k] = out[k]
  <2>1. /\ lv \o out \in Seq(Chunk) /\ Len(lv \o out) = Len(lv) + Len(out)
        /\ \A k \in 1..(Len(lv) + Len(out)) : (lv \o out)[k] = IF k <= Len(lv) THEN lv[k] ELSE out[k - Len(lv)]
    BY <1>5, ConcatProperties
  <2>2. \A k \in 1..Len(lv) : k \in 1..(Len(lv) + Len(out)) /\ k <= Len(lv)
    BY <1>1, <1>2, <1>5
  <2>3. \A k \in 1..m : Len(lv) + k \in 1..(Len(lv) + Len(out)) /\ ~(Len(lv) + k <= Len(lv))
                        /\ Len(lv) + k - Len(lv) = k
    BY <1>1, <1>2, <1>5
  <2> DEFINE joined == lv \o out
  <2> HIDE DEF joined
  <2>4. /\ joined \in Seq(Chunk) /\ Len(joined) = Len(lv) + Len(out)
        /\ \A k \in 1..(Len(lv) + Len(out)) : joined[k] = IF k <= Len(lv) THEN lv[k] ELSE out[k - Len(lv)]
    BY <2>1 DEF joined
  <2>5. \A k \in 1..Len(lv) : joined[k] = lv[k]
    BY <2>2, <2>4
  <2>6. \A k \in 1..m : joined[Len(lv) + k] = out[k]
    BY <2>3, <2>4
  <2> QED BY <1>5, <2>4, <2>5, <2>6 DEF joined
<1>7. [buffer |-> <<>>, sent |-> d.sent + m] \in [buffer : Seq(Chunk), sent : Nat]
  <2>1. d.sent + m \in Nat /\ <<>> \in Seq(Chunk)
    BY <1>1, <1>2, EmptySeq
  <2> QED BY <2>1
<1> m \in 0..Len(d.buffer)
  BY <1>2
<1> DEFINE f == Flush(d, lv)
<1>8. f.deltas = [buffer |-> <<>>, sent |-> d.sent + m] /\ f.deltas \in [buffer : Seq(Chunk), sent : Nat]
  BY <1>3, <1>5, <1>7
<1>9. /\ f.live \in Seq(Chunk) /\ Len(f.live) = Len(lv) + m
      /\ \A k \in 1..Len(lv) : f.live[k] = lv[k]
      /\ \A k \in 1..m : f.live[Len(lv) + k] = d.buffer[k]
  BY <1>3, <1>5, <1>6
<1> WITNESS m \in 0..Len(d.buffer)
<1> HIDE DEF f
<1> QED BY <1>4, <1>8, <1>9 DEF f

\* Flushing moves the front of the buffer to the journal.
LEMMA FlushKeeps ==
    ASSUME NEW d \in [buffer : Seq(Chunk), sent : Nat], NEW lv \in Seq(Chunk), NEW text \in Seq(Chunk),
           NEW attempt \in Nat,
           LiveEndsWith(text, d.sent, lv, attempt), BufferIsRest(text, d)
    PROVE  LET f == Flush(d, lv)
           IN  /\ f.deltas \in [buffer : Seq(Chunk), sent : Nat] /\ f.live \in Seq(Chunk)
               /\ LiveEndsWith(text, f.deltas.sent, f.live, attempt) /\ BufferIsRest(text, f.deltas)
               /\ f.deltas.buffer = <<>>
<1> DEFINE df == Flush(d, lv).deltas
           lf == Flush(d, lv).live
<1>1. PICK m \in 0..Len(d.buffer) :
              /\ m = IF StreamMax > d.sent
                     THEN (IF Len(d.buffer) < StreamMax - d.sent THEN Len(d.buffer) ELSE StreamMax - d.sent)
                     ELSE 0
              /\ df = [buffer |-> <<>>, sent |-> d.sent + m]
              /\ df \in [buffer : Seq(Chunk), sent : Nat]
              /\ lf \in Seq(Chunk) /\ Len(lf) = Len(lv) + m
              /\ \A k \in 1..Len(lv) : lf[k] = lv[k]
              /\ \A k \in 1..m : lf[Len(lv) + k] = d.buffer[k]
  BY FlushFacts
<1> HIDE DEF df, lf
<1>2. d.sent \in Nat /\ d.buffer \in Seq(Chunk) /\ Len(d.buffer) \in Nat /\ Len(lv) \in Nat /\ Len(text) \in Nat
      /\ m \in Nat /\ StreamMax \in Nat /\ df.sent = d.sent + m /\ df.buffer = <<>>
  BY <1>1, ModelTurnsAssumption
<1> DEFINE s == d.sent
           b == d.buffer
<1>3. CASE m = 0
  <2>1. Len(lf) = Len(lv) /\ df.sent = s /\ \A k \in 1..Len(lv) : lf[k] = lv[k]
    <3>1. Len(lf) = Len(lv) + m /\ \A k \in 1..Len(lv) : lf[k] = lv[k]
      BY <1>1
    <3>2. Len(lv) \in Nat /\ s \in Nat /\ df.sent = s + m
      BY <1>2
    <3> QED BY <1>3, <3>1, <3>2
  <2>2. LiveEndsWith(text, df.sent, lf, attempt)
    <3>1. \A k \in 1..s : Len(lv) - s + k \in 1..Len(lv)
      BY <1>2 DEF LiveEndsWith
    <3>2. \A k \in 1..(Len(lv) - s) : k \in 1..Len(lv)
      BY <1>2 DEF LiveEndsWith
    <3> QED BY <2>1, <3>1, <3>2 DEF LiveEndsWith
  <2>3. s < StreamMax => b = <<>> /\ Len(b) = 0
    BY <1>1, <1>2, <1>3
  <2>4. BufferIsRest(text, df)
    BY <1>2, <2>1, <2>3 DEF BufferIsRest
  <2> QED BY <1>1, <1>2, <2>2, <2>4 DEF df, lf
<1>4. CASE m # 0
  <2>1. /\ s < StreamMax /\ Len(text) = s + Len(b) /\ m <= Len(b) /\ m >= 1 /\ s + m <= StreamMax
        /\ (s + m < StreamMax => m = Len(b))
    <3>1. StreamMax > s
      BY <1>1, <1>4
    <3>2. Len(text) = s + Len(b)
      BY <3>1 DEF BufferIsRest
    <3>3. m = IF Len(b) < StreamMax - s THEN Len(b) ELSE StreamMax - s
      BY <1>1, <3>1
    <3> HIDE DEF s, b
    <3>4. s \in Nat /\ Len(b) \in Nat
      BY <1>2 DEF s, b
    <3> QED BY <1>2, <1>4, <3>1, <3>2, <3>3, <3>4
  <2>2. \A k \in 1..Len(b) : b[k] = text[s + k]
    BY <2>1 DEF BufferIsRest
  <2>3. /\ s <= Len(lv) /\ \A k \in 1..Len(lv) - s : lv[k][1] < attempt
    BY DEF LiveEndsWith
  <2>4. \A k \in 1..s : lv[Len(lv) - s + k] = text[k]
    BY DEF LiveEndsWith
  <2>5. Len(lf) - df.sent = Len(lv) - s /\ Len(lf) - (s + m) = Len(lv) - s
    BY <1>1, <1>2
  <2>6. ASSUME NEW k \in 1..Len(lv) - s PROVE lf[k][1] < attempt
    <3>1. k \in 1..Len(lv)
      BY <1>2, <2>3
    <3> QED BY <1>1, <2>3, <3>1
  <2>7. ASSUME NEW k \in 1..(s + m) PROVE lf[Len(lv) - s + k] = text[k]
    <3>1. CASE k <= s
      <4>1. k \in 1..s /\ Len(lv) - s + k \in 1..Len(lv)
        BY <1>2, <2>3, <3>1
      <4> QED BY <1>1, <2>4, <4>1
    <3>2. CASE ~(k <= s)
      <4>1. k - s \in 1..m /\ k - s \in 1..Len(b) /\ Len(lv) - s + k = Len(lv) + (k - s) /\ s + (k - s) = k
        BY <1>2, <2>1, <3>2
      <4> QED BY <1>1, <2>2, <4>1
    <3> QED BY <3>1, <3>2
  <2>8. LiveEndsWith(text, df.sent, lf, attempt)
    <3>1. s + m <= Len(lf) /\ s + m <= Len(text)
      <4>1. Len(lf) = Len(lv) + m
        BY <1>1
      <4> HIDE DEF s, b
      <4>2. s \in Nat /\ Len(b) \in Nat
        BY <1>2 DEF s, b
      <4> QED BY <1>2, <2>1, <2>3, <4>1, <4>2
    <3>2. \A k \in 1..Len(lf) - (s + m) : lf[k][1] < attempt
      BY <2>5, <2>6
    <3>3. \A k \in 1..(s + m) : lf[Len(lf) - (s + m) + k] = text[k]
      BY <2>5, <2>7
    <3>4. df.sent = s + m
      BY <1>2
    <3> HIDE DEF s
    <3>5. LiveEndsWith(text, s + m, lf, attempt)
      BY <3>1, <3>2, <3>3 DEF LiveEndsWith
    <3> QED BY <3>4, <3>5
  <2>9. BufferIsRest(text, df)
    <3>1. Len(<<>>) = 0 /\ df.buffer = <<>>
      BY <1>2
    <3>2. df.sent < StreamMax => Len(text) = df.sent
      BY <1>2, <2>1
    <3> QED BY <1>2, <2>1, <3>1, <3>2 DEF BufferIsRest
  <2> QED BY <1>1, <1>2, <2>8, <2>9 DEF df, lf
<1> QED BY <1>3, <1>4

LEMMA ChunkAppended ==
    ASSUME NEW s \in Seq(Chunk), NEW x \in Chunk
    PROVE  /\ Append(s, x) \in Seq(Chunk) /\ Len(s) \in Nat /\ Len(Append(s, x)) = Len(s) + 1
           /\ Append(s, x)[Len(s) + 1] = x
           /\ \A k \in 1..Len(s) : Append(s, x)[k] = s[k]
BY AppendProperties, LenProperties

\* One more chunk of the text waits in the buffer, or is past the cap.
LEMMA BufferGrows ==
    ASSUME NEW d \in [buffer : Seq(Chunk), sent : Nat], NEW lv \in Seq(Chunk), NEW text \in Seq(Chunk),
           NEW attempt \in Nat, NEW x \in Chunk,
           LiveEndsWith(text, d.sent, lv, attempt), BufferIsRest(text, d)
    PROVE  /\ LiveEndsWith(Append(text, x), d.sent, lv, attempt)
           /\ d.sent >= StreamMax => BufferIsRest(Append(text, x), d)
           /\ d.sent < StreamMax =>
                 /\ [d EXCEPT !.buffer = Append(@, x)] \in [buffer : Seq(Chunk), sent : Nat]
                 /\ BufferIsRest(Append(text, x), [d EXCEPT !.buffer = Append(@, x)])
<1> DEFINE t == Append(text, x)
           b == d.buffer
           e == [d EXCEPT !.buffer = Append(@, x)]
           c == Append(b, x)
<1>1. /\ b \in Seq(Chunk) /\ d.sent \in Nat /\ Len(b) \in Nat /\ Len(text) \in Nat /\ Len(lv) \in Nat
      /\ StreamMax \in Nat
  BY ModelTurnsAssumption
<1>2. t \in Seq(Chunk) /\ Len(t) = Len(text) + 1 /\ t[Len(text) + 1] = x
      /\ \A k \in 1..Len(text) : t[k] = text[k]
  BY ChunkAppended
<1>3. c \in Seq(Chunk) /\ Len(c) = Len(b) + 1 /\ c[Len(b) + 1] = x /\ \A k \in 1..Len(b) : c[k] = b[k]
  BY <1>1, ChunkAppended
<1>4. e.sent = d.sent /\ e.buffer = c /\ e \in [buffer : Seq(Chunk), sent : Nat]
  BY <1>1, <1>3
<1> HIDE DEF t, c, e, b
<1>5. LiveEndsWith(t, d.sent, lv, attempt)
  <2>1. d.sent <= Len(t) /\ \A k \in 1..d.sent : k \in 1..Len(text)
    BY <1>1, <1>2 DEF LiveEndsWith
  <2> QED BY <1>2, <2>1 DEF LiveEndsWith
<1>6. ASSUME d.sent >= StreamMax PROVE BufferIsRest(t, d)
  BY <1>1, <1>6 DEF BufferIsRest
<1>7. ASSUME d.sent < StreamMax PROVE BufferIsRest(t, e)
  <2>1. Len(text) = d.sent + Len(b) /\ \A k \in 1..Len(b) : b[k] = text[d.sent + k]
    BY <1>7 DEF BufferIsRest, b
  <2>2. Len(t) = e.sent + Len(c) /\ d.sent <= StreamMax /\ d.sent # StreamMax
    <3>1. /\ Len(t) = Len(text) + 1 /\ Len(c) = Len(b) + 1 /\ e.sent = d.sent
          /\ Len(text) = d.sent + Len(b)
      BY <1>2, <1>3, <1>4, <2>1
    <3>2. d.sent \in Nat /\ Len(b) \in Nat /\ StreamMax \in Nat
      BY <1>1
    <3> QED BY <1>7, <3>1, <3>2
  <2>3. ASSUME NEW k \in 1..Len(c) PROVE c[k] = t[d.sent + k]
    <3>1. CASE k = Len(b) + 1
      <4>1. d.sent + k = Len(text) + 1
        BY <1>1, <2>1, <3>1
      <4> QED BY <1>2, <1>3, <3>1, <4>1
    <3>2. CASE k # Len(b) + 1
      <4>1. k \in 1..Len(b) /\ d.sent + k \in 1..Len(text)
        BY <1>1, <1>3, <2>1, <3>2
      <4> QED BY <1>2, <1>3, <2>1, <4>1
    <3> QED BY <3>1, <3>2
  <2> QED BY <1>4, <2>2, <2>3 DEF BufferIsRest
<1> QED BY <1>4, <1>5, <1>6, <1>7 DEF t, e

\* A chat's text is journalled chunk by chunk.
LEMMA ChatGrows ==
    ASSUME NEW lv \in Seq(Chunk), NEW text \in Seq(Chunk), NEW attempt \in Nat, NEW x \in Chunk,
           LiveEndsWith(text, Len(text), lv, attempt)
    PROVE  LiveEndsWith(Append(text, x), Len(Append(text, x)), Append(lv, x), attempt)
<1> DEFINE t == Append(text, x)
           l == Append(lv, x)
<1>1. /\ Len(text) \in Nat /\ Len(lv) \in Nat
      /\ Len(t) = Len(text) + 1 /\ t[Len(text) + 1] = x /\ \A k \in 1..Len(text) : t[k] = text[k]
      /\ Len(l) = Len(lv) + 1 /\ l[Len(lv) + 1] = x /\ \A k \in 1..Len(lv) : l[k] = lv[k]
  BY ChunkAppended
<1>2. /\ Len(text) <= Len(lv) /\ \A k \in 1..Len(lv) - Len(text) : lv[k][1] < attempt
  BY DEF LiveEndsWith
<1>3. \A k \in 1..Len(text) : lv[Len(lv) - Len(text) + k] = text[k]
  BY DEF LiveEndsWith
<1> HIDE DEF t, l
<1>4. Len(l) - Len(t) = Len(lv) - Len(text) /\ Len(t) <= Len(l)
  BY <1>1, <1>2
<1>5. ASSUME NEW k \in 1..Len(lv) - Len(text) PROVE l[k][1] < attempt
  <2>1. k \in 1..Len(lv)
    BY <1>1, <1>2
  <2> QED BY <1>1, <1>2, <2>1
<1>6. ASSUME NEW k \in 1..Len(t) PROVE l[Len(lv) - Len(text) + k] = t[k]
  <2>1. CASE k = Len(text) + 1
    <3>1. Len(lv) - Len(text) + k = Len(lv) + 1
      BY <1>1, <2>1
    <3> QED BY <1>1, <2>1, <3>1
  <2>2. CASE k # Len(text) + 1
    <3>1. k \in 1..Len(text) /\ Len(lv) - Len(text) + k \in 1..Len(lv)
      BY <1>1, <1>2, <2>2
    <3> QED BY <1>1, <1>3, <3>1
  <2> QED BY <2>1, <2>2
<1>7. LiveEndsWith(t, Len(t), l, attempt)
  <2>1. Len(t) <= Len(t)
    BY <1>1
  <2> QED BY <1>4, <1>5, <1>6, <2>1 DEF LiveEndsWith
<1> QED BY <1>7 DEF t, l

\* At the next attempt what is journalled is all of earlier ones.
LEMMA NextAttempt ==
    ASSUME NEW lv \in Seq(Chunk), NEW text \in Seq(Chunk), NEW attempt \in Nat, NEW n \in Nat,
           \A k \in 1..Len(text) : text[k][1] = attempt, LiveEndsWith(text, n, lv, attempt)
    PROVE  LiveEndsWith(<<>>, 0, lv, attempt + 1)
<1>1. Len(lv) \in Nat /\ Len(text) \in Nat /\ n <= Len(lv) /\ n <= Len(text) /\ \A k \in 1..Len(lv) : lv[k][1] \in Nat
  <2>1. \A k \in 1..Len(lv) : lv[k] \in Chunk
    OBVIOUS
  <2> QED BY <2>1 DEF LiveEndsWith, Chunk
<1>2. ASSUME NEW k \in 1..Len(lv) PROVE lv[k][1] < attempt + 1
  <2>1. CASE k <= Len(lv) - n
    <3>1. k \in 1..Len(lv) - n
      BY <1>1, <2>1
    <3>2. lv[k][1] < attempt
      BY <3>1 DEF LiveEndsWith
    <3> QED BY <1>1, <3>2
  <2>2. CASE ~(k <= Len(lv) - n)
    <3> DEFINE i == k - (Len(lv) - n)
    <3>1. i \in 1..n /\ i \in 1..Len(text) /\ Len(lv) - n + i = k
      BY <1>1, <2>2
    <3> HIDE DEF i
    <3>2. lv[k] = text[i] /\ text[i][1] = attempt
      BY <3>1 DEF LiveEndsWith
    <3>3. lv[k][1] = attempt
      BY <3>2
    <3> QED BY <3>3
  <2> QED BY <2>1, <2>2
<1>3. Len(<<>>) = 0 /\ 0 <= Len(lv) /\ Len(lv) - 0 = Len(lv)
  BY <1>1
<1> QED BY <1>2, <1>3 DEF LiveEndsWith

(***************************************************************************)
(* ModelTurns: the calls.                                                  *)
(***************************************************************************)

Sent(frags, c) == {k \in DOMAIN frags : frags[k].call = c}

\* The entries are the calls sent so far, each with the fragments sent of it in order.
Joined(frags, calls) ==
    /\ {frags[k].call : k \in DOMAIN frags} = 1..Len(calls)
    /\ \A c \in 1..Len(calls) : calls[c] = [k \in 1..Cardinality(Sent(frags, c)) |-> k]

LEMMA SentIsFinite ==
    ASSUME NEW frags \in Seq(Fragment), NEW c
    PROVE  IsFiniteSet(Sent(frags, c)) /\ Cardinality(Sent(frags, c)) \in Nat
<1>1. Len(frags) \in Nat /\ DOMAIN frags = 1..Len(frags)
  OBVIOUS
<1>2. IsFiniteSet(1..Len(frags))
  BY <1>1, FS_Interval
<1>3. Sent(frags, c) \subseteq 1..Len(frags)
  BY <1>1 DEF Sent
<1> QED BY <1>2, <1>3, FS_Subset, FS_CardinalityType

\* A table over 1..n is a sequence.
LEMMA TableIsSequence ==
    ASSUME NEW S, NEW n \in Nat, NEW f, f = [e \in 1..n |-> f[e]], \A e \in 1..n : f[e] \in S
    PROVE  f \in Seq(S) /\ Len(f) = n
<1>1. f \in [1..n -> S]
  OBVIOUS
<1> QED BY <1>1, SeqDef, LenProperties

\* The next fragment of a numbered call, of one of the calls or of the next one.
LEMMA FragmentIsJoined ==
    ASSUME NEW frags \in Seq(Fragment), NEW calls \in Seq(Seq(Nat)), Joined(frags, calls),
           NEW c \in 1..(Len(calls) + 1), NEW chunk \in Seq(Fragment), NEW at,
           chunk = <<[call |-> c, frag |-> Cardinality(Sent(frags, c)) + 1]>>,
           at = [k \in DOMAIN chunk |-> c]
    PROVE  /\ frags \o chunk \in Seq(Fragment)
           /\ Merged(calls, chunk, at) \in Seq(Seq(Nat))
           /\ Joined(frags \o chunk, Merged(calls, chunk, at))
<1> DEFINE n == Len(calls)
           l == Len(frags)
           g == frags \o chunk
           M == Merged(calls, chunk, at)
           size(e) == Cardinality(Sent(frags, e))
           m == IF c = n + 1 THEN n + 1 ELSE n
<1>1. n \in Nat /\ l \in Nat /\ m \in Nat /\ DOMAIN calls = 1..n /\ DOMAIN frags = 1..l /\ c \in Nat
  OBVIOUS
<1>2. /\ DOMAIN chunk = {1} /\ Len(chunk) = 1 /\ chunk[1].call = c /\ chunk[1].frag = size(c) + 1
      /\ at[1] = c
  <2>1. Len(chunk) = 1 /\ DOMAIN chunk = 1..1 /\ 1..1 = {1}
    OBVIOUS
  <2>2. chunk[1] = [call |-> c, frag |-> size(c) + 1]
    OBVIOUS
  <2> QED BY <2>1, <2>2
<1>3. /\ g \in Seq(Fragment) /\ Len(g) = l + 1 /\ g[l + 1] = chunk[1] /\ DOMAIN g = 1..(l + 1)
      /\ \A k \in 1..l : g[k] = frags[k]
  BY <1>1, <1>2
<1>4. \A e : size(e) \in Nat /\ IsFiniteSet(Sent(frags, e))
  BY SentIsFinite
<1> HIDE DEF g, size
<1>5. /\ \A e : e # c => Sent(g, e) = Sent(frags, e)
      /\ Sent(g, c) = Sent(frags, c) \cup {l + 1} /\ l + 1 \notin Sent(frags, c)
  BY <1>1, <1>2, <1>3 DEF Sent
<1>6. /\ Cardinality(Sent(g, c)) = size(c) + 1
      /\ \A e : e # c => Cardinality(Sent(g, e)) = size(e)
  BY <1>4, <1>5, FS_AddElement DEF size
<1>7. {frags[k].call : k \in 1..l} = 1..n /\ \A e \in 1..n : calls[e] = [k \in 1..size(e) |-> k]
  BY <1>1 DEF Joined, size
<1>8. 1..n \cup {c} = 1..m
  BY <1>1
<1>9. {g[k].call : k \in DOMAIN g} = 1..m
  <2>1. \A k \in 1..(l + 1) : k = l + 1 \/ k \in 1..l
    BY <1>1
  <2>2. \A k \in 1..l : k \in 1..(l + 1)
    BY <1>1
  <2>3. l + 1 \in 1..(l + 1)
    BY <1>1
  <2>4. {g[k].call : k \in 1..(l + 1)} = {frags[k].call : k \in 1..l} \cup {c}
    <3>1. (\A k \in 1..l : g[k].call = frags[k].call) /\ g[l + 1].call = c
      BY <1>2, <1>3
    <3> HIDE DEF l
    <3> DEFINE all == {g[k].call : k \in 1..(l + 1)}
               before == {frags[k].call : k \in 1..l}
    <3>2. \A e \in all : e \in before \cup {c}
      <4> SUFFICES ASSUME NEW k \in 1..(l + 1) PROVE g[k].call \in before \cup {c}
        OBVIOUS
      <4> QED BY <2>1, <3>1
    <3>3. \A e \in before : e \in all
      <4> SUFFICES ASSUME NEW k \in 1..l PROVE frags[k].call \in all
        OBVIOUS
      <4>1. frags[k].call = g[k].call /\ k \in 1..(l + 1)
        BY <2>2, <3>1
      <4> QED BY <4>1
    <3>4. c \in all
      BY <2>3, <3>1
    <3> HIDE DEF all, before
    <3>5. all = before \cup {c}
      BY <3>2, <3>3, <3>4
    <3> QED BY <3>5 DEF all, before
  <2>5. {g[k].call : k \in DOMAIN g} = {g[k].call : k \in 1..(l + 1)}
    BY <1>3
  <2> HIDE DEF m, n, l
  <2> QED BY <1>7, <1>8, <2>4, <2>5
<1>10. {at[k] : k \in DOMAIN chunk} = {c} /\ (CHOOSE k \in DOMAIN chunk : at[k] = c) = 1
       /\ \A e : (\E k \in DOMAIN chunk : at[k] = e) <=> e = c
  BY <1>2
<1>11. M = [e \in 1..m |-> IF e = c THEN Append(IF e \in 1..n THEN calls[e] ELSE <<>>, size(c) + 1)
                           ELSE IF e \in 1..n THEN calls[e] ELSE <<>>]
  <2> DEFINE Old(e) == IF e \in DOMAIN calls THEN calls[e] ELSE <<>>
             New(e) == IF \E k \in DOMAIN chunk : at[k] = e
                       THEN Append(Old(e), chunk[CHOOSE k \in DOMAIN chunk : at[k] = e].frag)
                       ELSE Old(e)
             Put(e) == IF e = c THEN Append(IF e \in 1..n THEN calls[e] ELSE <<>>, size(c) + 1)
                       ELSE IF e \in 1..n THEN calls[e] ELSE <<>>
  <2>1. M = [e \in DOMAIN calls \cup {at[k] : k \in DOMAIN chunk} |-> New(e)]
    BY DEF Merged
  <2>2. \A e : Old(e) = IF e \in 1..n THEN calls[e] ELSE <<>>
    BY <1>1
  <2> HIDE DEF Old
  <2>3. ASSUME NEW e PROVE New(e) = Put(e)
    <3>1. CASE e = c
      BY <1>2, <1>10, <2>2, <3>1
    <3>2. CASE e # c
      BY <1>10, <2>2, <3>2
    <3> QED BY <3>1, <3>2
  <2> HIDE DEF New, Put, M
  <2>4. DOMAIN calls \cup {at[k] : k \in DOMAIN chunk} = 1..m
    BY <1>1, <1>8, <1>10
  <2>5. M = [e \in 1..m |-> Put(e)]
    BY <2>1, <2>3, <2>4
  <2> QED BY <2>5 DEF Put
<1> HIDE DEF M
<1>12. ASSUME NEW e \in 1..m PROVE M[e] = [k \in 1..Cardinality(Sent(g, e)) |-> k]
  <2>1. CASE e # c
    <3>1. e \in 1..n
      BY <1>1, <2>1
    <3> QED BY <1>6, <1>7, <1>11, <2>1, <3>1
  <2>2. CASE e = c
    <3> DEFINE old == IF c \in 1..n THEN calls[c] ELSE <<>>
    <3>1. M[c] = Append(old, size(c) + 1)
      BY <1>11, <2>2
    <3>2. old = [k \in 1..size(c) |-> k]
      <4>1. CASE c \in 1..n
        BY <1>7, <4>1
      <4>2. CASE c \notin 1..n
        <5>1. Sent(frags, c) = {}
          BY <1>1, <1>7, <4>2 DEF Sent
        <5>2. size(c) = 0
          BY <5>1, FS_EmptySet DEF size
        <5>3. 1..0 = {} /\ <<>> = [k \in {} |-> k]
          OBVIOUS
        <5> QED BY <4>2, <5>2, <5>3
      <4> QED BY <4>1, <4>2
    <3> HIDE DEF old
    <3>3. old \in Seq(Nat) /\ Len(old) = size(c) /\ size(c) \in Nat
      <4>1. size(c) \in Nat
        BY <1>4
      <4> QED BY <3>2, <4>1
    <3>4. Append(old, size(c) + 1) = [k \in 1..(size(c) + 1) |-> k]
      BY <3>2, <3>3
    <3> QED BY <1>6, <2>2, <3>1, <3>4
  <2> QED BY <2>1, <2>2
<1>13. \A e \in 1..m : M[e] \in Seq(Nat)
  <2>1. ASSUME NEW e \in 1..m PROVE M[e] \in Seq(Nat)
    <3>1. Cardinality(Sent(g, e)) \in Nat
      BY <1>3, SentIsFinite
    <3> DEFINE f == [k \in 1..Cardinality(Sent(g, e)) |-> k]
    <3>2. f = [k \in 1..Cardinality(Sent(g, e)) |-> f[k]]
          /\ \A k \in 1..Cardinality(Sent(g, e)) : f[k] \in Nat
      BY <3>1
    <3> HIDE DEF f
    <3>3. f \in Seq(Nat)
      BY <3>1, <3>2, TableIsSequence
    <3> QED BY <1>12, <3>3 DEF f
  <2> QED BY <2>1
<1>14. M \in Seq(Seq(Nat)) /\ Len(M) = m
  <2>1. M = [e \in 1..m |-> M[e]]
    BY <1>11
  <2> HIDE DEF m
  <2> QED BY <1>1, <1>13, <2>1, TableIsSequence
<1>15. Joined(g, M)
  BY <1>9, <1>12, <1>14 DEF Joined
<1> QED BY <1>3, <1>14, <1>15 DEF g, M


\* What a call of one fragment holds.
LEMMA OneFragment ==
    ASSUME NEW frags \in Seq(Fragment), NEW n \in Nat, Len(frags) = n,
           \A k \in 1..n : frags[k].call = k
    PROVE  /\ {frags[k].call : k \in DOMAIN frags} = 1..n
           /\ \A e \in 1..n : Cardinality(Sent(frags, e)) = 1
<1>1. DOMAIN frags = 1..n
  OBVIOUS
<1>2. {frags[k].call : k \in DOMAIN frags} = {frags[k].call : k \in 1..n}
  BY <1>1
<1>3. {frags[k].call : k \in 1..n} = 1..n
  OBVIOUS
<1>4. ASSUME NEW e \in 1..n PROVE Cardinality(Sent(frags, e)) = 1
  <2>1. Sent(frags, e) = {e}
    BY <1>1 DEF Sent
  <2> QED BY <2>1, FS_Singleton
<1> QED BY <1>2, <1>3, <1>4

\* Calls that are not numbered come in one chunk, each whole, and are told apart by position.
LEMMA ChunkIsJoined ==
    ASSUME NEW calls \in Seq(Seq(Nat)), Joined(<<>>, calls), NEW n \in Nat,
           NEW chunk \in Seq(Fragment), chunk = [k \in 1..n |-> [call |-> k, frag |-> 1]],
           NEW at, at = [k \in DOMAIN chunk |-> k]
    PROVE  /\ Merged(calls, chunk, at) \in Seq(Seq(Nat))
           /\ Joined(<<>> \o chunk, Merged(calls, chunk, at))
<1> DEFINE M == Merged(calls, chunk, at)
<1>1. DOMAIN chunk = 1..n /\ Len(chunk) = n /\ <<>> \o chunk = chunk
      /\ \A k \in 1..n : chunk[k].call = k /\ chunk[k].frag = 1
  <2>1. DOMAIN chunk = 1..n /\ Len(chunk) = n /\ \A k \in 1..n : chunk[k].call = k /\ chunk[k].frag = 1
    OBVIOUS
  <2> QED BY <2>1, ConcatEmptySeq
<1>2. DOMAIN calls = {}
  <2>1. {<<>>[k].call : k \in DOMAIN <<>>} = {}
    OBVIOUS
  <2>2. 1..Len(calls) = {} /\ DOMAIN calls = 1..Len(calls)
    BY <2>1 DEF Joined
  <2> QED BY <2>2
<1>3. /\ at = [k \in 1..n |-> k] /\ {at[k] : k \in DOMAIN chunk} = 1..n
      /\ \A e \in 1..n : (\E k \in DOMAIN chunk : at[k] = e)
                         /\ (CHOOSE k \in DOMAIN chunk : at[k] = e) = e
  <2>1. at = [k \in 1..n |-> k]
    BY <1>1
  <2>2. {at[k] : k \in DOMAIN chunk} = {at[k] : k \in 1..n}
    BY <1>1
  <2>3. {at[k] : k \in 1..n} = 1..n
    BY <2>1
  <2>4. \A e \in 1..n : (\E k \in DOMAIN chunk : at[k] = e)
    BY <1>1, <2>1
  <2>5. ASSUME NEW e \in 1..n PROVE (CHOOSE k \in DOMAIN chunk : at[k] = e) = e
    <3>1. \A k \in DOMAIN chunk : at[k] = e => k = e
      BY <1>1, <2>1
    <3> QED BY <2>4, <3>1
  <2> QED BY <2>1, <2>2, <2>3, <2>4, <2>5
<1>4. M = [e \in 1..n |-> <<1>>]
  <2> DEFINE Old(e) == IF e \in DOMAIN calls THEN calls[e] ELSE <<>>
             New(e) == IF \E k \in DOMAIN chunk : at[k] = e
                       THEN Append(Old(e), chunk[CHOOSE k \in DOMAIN chunk : at[k] = e].frag)
                       ELSE Old(e)
  <2>1. M = [e \in DOMAIN calls \cup {at[k] : k \in DOMAIN chunk} |-> New(e)]
    BY DEF Merged
  <2>2. \A e : Old(e) = <<>>
    BY <1>2
  <2> HIDE DEF Old
  <2>3. ASSUME NEW e \in 1..n PROVE New(e) = <<1>>
    <3>1. New(e) = Append(<<>>, chunk[e].frag)
      BY <1>3, <2>2
    <3>2. Append(<<>>, 1) = <<1>>
      OBVIOUS
    <3> QED BY <1>1, <3>1, <3>2
  <2> HIDE DEF New, M
  <2>4. DOMAIN calls \cup {at[k] : k \in DOMAIN chunk} = 1..n
    BY <1>2, <1>3
  <2> QED BY <2>1, <2>3, <2>4
<1> HIDE DEF M
<1>5. M \in Seq(Seq(Nat)) /\ Len(M) = n
  <2>1. M = [e \in 1..n |-> M[e]] /\ \A e \in 1..n : M[e] \in Seq(Nat)
    BY <1>4
  <2> QED BY <2>1, TableIsSequence
<1>6. ASSUME NEW e \in 1..n PROVE M[e] = [k \in 1..Cardinality(Sent(chunk, e)) |-> k]
  <2>1. Cardinality(Sent(chunk, e)) = 1
    <3>1. Len(chunk) = n /\ \A k \in 1..n : chunk[k].call = k
      BY <1>1
    <3>2. \A i \in 1..n : Cardinality(Sent(chunk, i)) = 1
      BY <3>1, OneFragment
    <3> QED BY <3>2
  <2>2. <<1>> = [k \in 1..1 |-> k]
    OBVIOUS
  <2> QED BY <1>4, <2>1, <2>2
<1>7. {chunk[k].call : k \in DOMAIN chunk} = 1..n
  BY <1>1, OneFragment
<1>8. Joined(chunk, M)
  BY <1>5, <1>6, <1>7 DEF Joined
<1> QED BY <1>1, <1>5, <1>8 DEF M

\* The entries by ascending index are the entries.
LEMMA AssembledIsJoined ==
    ASSUME parts.calls \in Seq(Seq(Nat)), wire.frags \in Seq(Fragment), Joined(wire.frags, parts.calls)
    PROVE  LET ncalls == Cardinality({wire.frags[k].call : k \in DOMAIN wire.frags})
           IN  Assembled = [c \in 1..ncalls |-> [k \in 1..Cardinality(SentOf(c)) |-> k]]
<1> DEFINE n == Len(parts.calls)
           place(e) == Cardinality({d \in DOMAIN parts.calls : d <= e})
           size(c) == Cardinality(Sent(wire.frags, c))
<1>1. n \in Nat /\ DOMAIN parts.calls = 1..n
  OBVIOUS
<1>2. Cardinality(1..n) = n
  BY <1>1, FS_Interval
<1>3. ASSUME NEW e \in 1..n PROVE place(e) = e
  <2>1. {d \in DOMAIN parts.calls : d <= e} = 1..e
    BY <1>1
  <2>2. Cardinality(1..e) = e
    BY <1>1, FS_Interval
  <2> QED BY <2>1, <2>2
<1>4. Cardinality(DOMAIN parts.calls) = n
  BY <1>1, <1>2
<1> DEFINE first(k) == CHOOSE e \in DOMAIN parts.calls : place(e) = k
<1>5. Assembled = [k \in 1..Cardinality(DOMAIN parts.calls) |-> parts.calls[first(k)]]
  BY DEF Assembled
<1> HIDE DEF place
<1>6. ASSUME NEW k \in 1..n PROVE first(k) = k
  <2>1. k \in DOMAIN parts.calls /\ place(k) = k
    BY <1>1, <1>3
  <2>2. \A e \in DOMAIN parts.calls : place(e) = k => e = k
    BY <1>1, <1>3
  <2> QED BY <2>1, <2>2
<1>7. {wire.frags[k].call : k \in DOMAIN wire.frags} = 1..n
      /\ \A c \in 1..n : parts.calls[c] = [k \in 1..size(c) |-> k]
  BY DEF Joined
<1>8. \A c : SentOf(c) = Sent(wire.frags, c)
  BY DEF SentOf, Sent
<1> HIDE DEF n, first, size
<1>9. Assembled = [k \in 1..n |-> [i \in 1..size(k) |-> i]]
  BY <1>4, <1>5, <1>6, <1>7
<1>10. Assembled = [c \in 1..n |-> [k \in 1..Cardinality(SentOf(c)) |-> k]]
  BY <1>8, <1>9 DEF size
<1> QED BY <1>2, <1>7, <1>10


(***************************************************************************)
(* ModelTurns: the invariant.                                              *)
(***************************************************************************)

Turn == [at : {"idle", "sent", "streaming", "waiting", "returned", "failed", "cancelled"},
         kind : {"agent", "chat"}, attempt : Nat, stepped : BOOLEAN]
Wire == [text : Nat, frags : Seq(Fragment), done : BOOLEAN, numbered : BOOLEAN, open : BOOLEAN]
Parts == [text : Seq(Chunk), calls : Seq(Seq(Nat)), received : BOOLEAN]
Deltas == [buffer : Seq(Chunk), sent : Nat]

TurnTypeOK ==
    /\ turn \in Turn /\ wire \in Wire /\ parts \in Parts /\ deltas \in Deltas
    /\ live \in Seq(Chunk)

\* The text of the stream is what the provider sent on this attempt.
TextIsSent(p, w, n) ==
    Len(p.text) = w.text /\ \A k \in 1..w.text : p.text[k] = <<n, k>>

\* What is journalled ends with what arrived on this attempt, but for the buffer.
LiveFollows(kind, text, d, lv, n) ==
    IF kind = "agent" THEN LiveEndsWith(text, d.sent, lv, n) /\ BufferIsRest(text, d)
    ELSE LiveEndsWith(text, Len(text), lv, n)

TurnInv ==
    /\ TurnTypeOK
    /\ TextIsSent(parts, wire, turn.attempt)
    /\ Joined(wire.frags, parts.calls)
    /\ turn.at \in {"sent", "streaming", "waiting"} \/ (turn.at = "returned" /\ wire.open) =>
          LiveFollows(turn.kind, parts.text, deltas, live, turn.attempt)
    /\ turn.at = "returned" /\ wire.open /\ turn.kind = "agent" => deltas.buffer = <<>>
    /\ turn.at = "waiting" => turn.kind = "agent"
    /\ ChatIsWhole
    /\ AttemptsAreBounded


\* An attempt begins with nothing received, after all that was journalled before it.
LEMMA AttemptHolds ==
    ASSUME NEW kind \in {"agent", "chat"}, NEW n \in Nat, NEW stepped \in BOOLEAN,
           Attempt(kind, n, stepped), live' \in Seq(Chunk), n <= Attempts,
           LiveEndsWith(<<>>, 0, live', n)
    PROVE  TurnInv'
<1>1. turn' = [at |-> "sent", kind |-> kind, attempt |-> n, stepped |-> stepped]
      /\ wire' = NoWire /\ parts' = NoParts /\ deltas' = NoDeltas
  BY DEF Attempt
<1>2. /\ turn'.at = "sent" /\ turn'.kind = kind /\ turn'.attempt = n /\ turn' \in Turn
  BY <1>1 DEF Turn
<1>3. /\ wire'.text = 0 /\ wire'.frags = <<>> /\ wire' \in Wire
  BY <1>1 DEF NoWire, Wire
<1>4. /\ parts'.text = <<>> /\ parts'.calls = <<>> /\ parts' \in Parts
  BY <1>1 DEF NoParts, Parts
<1>5. /\ deltas'.sent = 0 /\ deltas'.buffer = <<>> /\ deltas' \in Deltas
  BY <1>1 DEF NoDeltas, Deltas
<1>6. TextIsSent(parts', wire', turn'.attempt)
  BY <1>3, <1>4 DEF TextIsSent
<1>7. Joined(wire'.frags, parts'.calls)
  <2>1. Len(<<>>) = 0 /\ 1..0 = {} /\ DOMAIN <<>> = {}
    OBVIOUS
  <2> QED BY <1>3, <1>4, <2>1 DEF Joined
<1>8. BufferIsRest(parts'.text, deltas')
  <2>1. Len(<<>>) = 0 /\ StreamMax \in Nat /\ StreamMax # 0
    BY ModelTurnsAssumption
  <2> QED BY <1>4, <1>5, <2>1 DEF BufferIsRest
<1>9. LiveFollows(turn'.kind, parts'.text, deltas', live', turn'.attempt)
  <2>1. Len(<<>>) = 0
    OBVIOUS
  <2> QED BY <1>2, <1>4, <1>5, <1>8, <2>1 DEF LiveFollows
<1>10. TurnTypeOK'
  BY <1>2, <1>3, <1>4, <1>5 DEF TurnTypeOK
<1>11. AttemptsAreBounded' /\ ChatIsWhole'
  BY <1>2 DEF AttemptsAreBounded, ChatIsWhole
<1> QED BY <1>2, <1>6, <1>7, <1>9, <1>10, <1>11 DEF TurnInv

LEMMA InitHolds == TurnsInit => TurnInv
<1> SUFFICES ASSUME TurnsInit PROVE TurnInv
  OBVIOUS
<1>1. turn.at = "idle" /\ turn.attempt = 0 /\ turn \in Turn
  BY DEF TurnsInit, Turn
<1>2. wire = NoWire /\ wire.text = 0 /\ wire.frags = <<>> /\ wire \in Wire
  BY DEF TurnsInit, NoWire, Wire
<1>3. parts.text = <<>> /\ parts.calls = <<>> /\ parts \in Parts
  BY DEF TurnsInit, NoParts, Parts
<1>4. deltas \in Deltas /\ live \in Seq(Chunk)
  BY DEF TurnsInit, NoDeltas, Deltas
<1>5. Joined(wire.frags, parts.calls)
  <2>1. Len(<<>>) = 0 /\ 1..0 = {} /\ DOMAIN <<>> = {}
    OBVIOUS
  <2> QED BY <1>2, <1>3, <2>1 DEF Joined
<1>6. TextIsSent(parts, wire, turn.attempt)
  BY <1>2, <1>3 DEF TextIsSent
<1>7. 0 <= Attempts
  BY ModelTurnsAssumption
<1> QED BY <1>1, <1>2, <1>3, <1>4, <1>5, <1>6, <1>7
       DEF TurnInv, TurnTypeOK, ChatIsWhole, AttemptsAreBounded

LEMMA AskHolds ==
    ASSUME NEW kind \in {"agent", "chat"}, AskTurn(kind)
    PROVE  TurnInv'
<1>1. live' = <<>> /\ Attempt(kind, 1, FALSE)
  BY DEF AskTurn
<1>2. LiveEndsWith(<<>>, 0, <<>>, 1)
  <2>1. Len(<<>>) = 0
    OBVIOUS
  <2> QED BY <2>1 DEF LiveEndsWith
<1>3. live' \in Seq(Chunk) /\ 1 <= Attempts
  BY <1>1, ModelTurnsAssumption
<1> QED BY <1>1, <1>2, <1>3, AttemptHolds

\* The next attempt at the same turn keeps what was journalled.
LEMMA AgainHolds ==
    ASSUME TurnInv, turn.at \in {"sent", "waiting"}, turn.kind = "agent", turn.attempt < Attempts,
           NEW stepped \in BOOLEAN, Attempt("agent", turn.attempt + 1, stepped), live' = live
    PROVE  TurnInv'
<1>1. /\ turn.attempt \in Nat /\ live \in Seq(Chunk) /\ parts.text \in Seq(Chunk) /\ deltas.sent \in Nat
      /\ wire.text \in Nat
  BY DEF TurnInv, TurnTypeOK, Turn, Parts, Deltas, Wire
<1>2. LiveEndsWith(parts.text, deltas.sent, live, turn.attempt)
  BY DEF TurnInv, LiveFollows
<1>3. \A k \in 1..Len(parts.text) : parts.text[k][1] = turn.attempt
  BY DEF TurnInv, TextIsSent
<1>4. LiveEndsWith(<<>>, 0, live, turn.attempt + 1)
  BY <1>1, <1>2, <1>3, NextAttempt
<1>5. turn.attempt + 1 \in Nat /\ turn.attempt + 1 <= Attempts
  BY <1>1, ModelTurnsAssumption
<1> QED BY <1>1, <1>4, <1>5, AttemptHolds

LEMMA RaiseHolds ==
    ASSUME TurnInv, turn.at \in {"sent", "streaming"}, NEW retryable \in BOOLEAN, Raise(retryable)
    PROVE  TurnInv'
<1> DEFINE to == IF retryable /\ turn.kind = "agent" /\ turn.attempt # Attempts THEN "waiting" ELSE "failed"
<1>1. turn' = [turn EXCEPT !.at = to] /\ UNCHANGED <<wire, parts, deltas, live>>
  BY DEF Raise, TurnBecomes
<1>2. turn \in Turn /\ to \in {"waiting", "failed"}
  BY DEF TurnInv, TurnTypeOK
<1>3. /\ to = "waiting" => turn.kind = "agent" /\ turn.attempt # Attempts
  OBVIOUS
<1> HIDE DEF to
<1>4. turn'.at = to /\ turn'.kind = turn.kind /\ turn'.attempt = turn.attempt /\ turn' \in Turn
  BY <1>1, <1>2 DEF Turn
<1>5. /\ turn.attempt <= Attempts /\ turn.attempt \in Nat /\ Attempts \in Nat
  BY <1>2, ModelTurnsAssumption DEF TurnInv, AttemptsAreBounded, Turn
<1>6. AttemptsAreBounded' /\ ChatIsWhole'
  BY <1>1, <1>2, <1>3, <1>4, <1>5 DEF AttemptsAreBounded, ChatIsWhole
<1>7. LiveFollows(turn.kind, parts.text, deltas, live, turn.attempt)
  BY DEF TurnInv
<1>8. TurnTypeOK'
  BY <1>1, <1>4 DEF TurnInv, TurnTypeOK
<1> QED BY <1>1, <1>2, <1>3, <1>4, <1>6, <1>7, <1>8 DEF TurnInv

LEMMA BodyHolds ==
    ASSUME TurnInv, NEW reply \in [text : 0..MaxText, calls : 0..MaxCalls], Body(reply)
    PROVE  TurnInv'
<1> DEFINE t == [k \in 1..reply.text |-> <<turn.attempt, k>>]
           f == [k \in 1..reply.calls |-> [call |-> k, frag |-> 1]]
           c == [k \in 1..reply.calls |-> <<1>>]
<1>1. /\ turn' = [turn EXCEPT !.at = "returned"] /\ turn.kind = "agent"
      /\ wire' = [NoWire EXCEPT !.done = TRUE, !.text = reply.text, !.frags = f]
      /\ parts' = [text |-> t, calls |-> c, received |-> TRUE]
      /\ UNCHANGED <<deltas, live>>
  BY DEF Body, TurnBecomes
<1>2. /\ reply.text \in Nat /\ reply.calls \in Nat /\ turn \in Turn /\ turn.attempt \in Nat
      /\ deltas \in Deltas /\ live \in Seq(Chunk)
  BY ModelTurnsAssumption DEF TurnInv, TurnTypeOK, Turn
<1>3. t \in Seq(Chunk) /\ Len(t) = reply.text /\ \A k \in 1..reply.text : t[k] = <<turn.attempt, k>>
  <2>1. t = [k \in 1..reply.text |-> t[k]] /\ \A k \in 1..reply.text : t[k] = <<turn.attempt, k>>
    OBVIOUS
  <2>2. \A k \in 1..reply.text : t[k] \in Chunk
    BY <1>2, <2>1 DEF Chunk
  <2> HIDE DEF t
  <2> QED BY <1>2, <2>1, <2>2, TableIsSequence
<1>4. f \in Seq(Fragment) /\ Len(f) = reply.calls /\ \A k \in 1..reply.calls : f[k].call = k
  <2>1. f = [k \in 1..reply.calls |-> f[k]] /\ \A k \in 1..reply.calls : f[k] = [call |-> k, frag |-> 1]
    OBVIOUS
  <2>2. \A k \in 1..reply.calls : f[k] \in Fragment /\ f[k].call = k
    BY <1>2, <2>1 DEF Fragment
  <2> HIDE DEF f
  <2> QED BY <1>2, <2>1, <2>2, TableIsSequence
<1>5. c \in Seq(Seq(Nat)) /\ Len(c) = reply.calls /\ \A k \in 1..reply.calls : c[k] = <<1>>
  <2>1. c = [k \in 1..reply.calls |-> c[k]] /\ \A k \in 1..reply.calls : c[k] = <<1>>
    OBVIOUS
  <2>2. \A k \in 1..reply.calls : c[k] \in Seq(Nat)
    BY <2>1
  <2> HIDE DEF c
  <2> QED BY <1>2, <2>1, <2>2, TableIsSequence
<1> HIDE DEF t, f, c
<1>6. /\ turn'.at = "returned" /\ turn'.kind = "agent" /\ turn'.attempt = turn.attempt /\ turn' \in Turn
  BY <1>1, <1>2 DEF Turn
<1>7. /\ wire'.text = reply.text /\ wire'.frags = f /\ wire'.open = FALSE /\ wire' \in Wire
  BY <1>1, <1>2, <1>4 DEF NoWire, Wire
<1>8. /\ parts'.text = t /\ parts'.calls = c /\ parts' \in Parts
  BY <1>1, <1>3, <1>5 DEF Parts
<1>9. Joined(f, c)
  <2>1. /\ {f[k].call : k \in DOMAIN f} = 1..reply.calls
        /\ \A e \in 1..reply.calls : Cardinality(Sent(f, e)) = 1
    BY <1>2, <1>4, OneFragment
  <2>2. <<1>> = [k \in 1..1 |-> k]
    OBVIOUS
  <2> QED BY <1>5, <2>1, <2>2 DEF Joined
<1>10. TextIsSent(parts', wire', turn'.attempt)
  BY <1>3, <1>6, <1>7, <1>8 DEF TextIsSent
<1>11. AttemptsAreBounded' /\ ChatIsWhole'
  BY <1>6 DEF TurnInv, AttemptsAreBounded, ChatIsWhole
<1>12. TurnTypeOK'
  BY <1>1, <1>2, <1>6, <1>7, <1>8 DEF TurnTypeOK
<1> QED BY <1>6, <1>7, <1>8, <1>9, <1>10, <1>11, <1>12 DEF TurnInv

LEMMA OpensHolds ==
    ASSUME TurnInv, NEW numbered \in BOOLEAN, Opens(numbered)
    PROVE  TurnInv'
<1>1. /\ turn' = [turn EXCEPT !.at = "streaming"] /\ turn.at = "sent"
      /\ wire' = [wire EXCEPT !.numbered = numbered, !.open = TRUE]
      /\ UNCHANGED <<parts, deltas, live>>
  BY DEF Opens, TurnBecomes
<1>2. turn \in Turn /\ wire \in Wire
  BY DEF TurnInv, TurnTypeOK
<1>3. turn'.at = "streaming" /\ turn'.kind = turn.kind /\ turn'.attempt = turn.attempt /\ turn' \in Turn
  BY <1>1, <1>2 DEF Turn
<1>4. wire'.text = wire.text /\ wire'.frags = wire.frags /\ wire' \in Wire
  BY <1>1, <1>2 DEF Wire
<1>5. TextIsSent(parts', wire', turn'.attempt)
  BY <1>1, <1>3, <1>4 DEF TurnInv, TextIsSent
<1>6. AttemptsAreBounded' /\ ChatIsWhole'
  BY <1>3 DEF TurnInv, AttemptsAreBounded, ChatIsWhole
<1>7. LiveFollows(turn.kind, parts.text, deltas, live, turn.attempt)
  BY <1>1 DEF TurnInv
<1>8. TurnTypeOK'
  BY <1>1, <1>3, <1>4 DEF TurnInv, TurnTypeOK
<1> QED BY <1>1, <1>3, <1>4, <1>5, <1>6, <1>7, <1>8 DEF TurnInv

LEMMA CancelHolds ==
    ASSUME TurnInv, CancelTurn
    PROVE  TurnInv'
<1>1. turn' = [turn EXCEPT !.at = "cancelled"] /\ UNCHANGED <<wire, parts, deltas, live>>
  BY DEF CancelTurn, TurnBecomes
<1>2. turn \in Turn
  BY DEF TurnInv, TurnTypeOK
<1>3. turn'.at = "cancelled" /\ turn'.attempt = turn.attempt /\ turn' \in Turn
  BY <1>1, <1>2 DEF Turn
<1>4. AttemptsAreBounded' /\ ChatIsWhole'
  BY <1>3 DEF TurnInv, AttemptsAreBounded, ChatIsWhole
<1> QED BY <1>1, <1>3, <1>4 DEF TurnInv, TurnTypeOK


\* What is received and what is journalled of a chunk of text.
LEMMA TextHolds ==
    ASSUME TurnInv, NEW now \in BOOLEAN, TextChunk(now)
    PROVE  TurnInv'
<1> DEFINE x == <<turn.attempt, wire.text + 1>>
           t == Append(parts.text, x)
<1>1. /\ turn.at = "streaming" /\ UNCHANGED turn
      /\ wire' = [wire EXCEPT !.text = @ + 1]
      /\ parts' = [parts EXCEPT !.text = t, !.received = TRUE]
      /\ IF turn.kind = "agent" THEN Delta(x, now) ELSE live' = Append(live, x) /\ UNCHANGED deltas
  BY DEF TextChunk, Streaming
<1>2. /\ turn \in Turn /\ turn.attempt \in Nat /\ wire \in Wire /\ wire.text \in Nat /\ parts \in Parts
      /\ parts.text \in Seq(Chunk) /\ parts.calls \in Seq(Seq(Nat))
      /\ deltas \in [buffer : Seq(Chunk), sent : Nat] /\ live \in Seq(Chunk)
  BY DEF TurnInv, TurnTypeOK, Turn, Wire, Parts, Deltas
<1>3. x \in Chunk
  BY <1>2 DEF Chunk
<1>4. Len(parts.text) = wire.text /\ \A k \in 1..wire.text : parts.text[k] = <<turn.attempt, k>>
  BY DEF TurnInv, TextIsSent
<1> DEFINE old == parts.text
<1>5. t \in Seq(Chunk) /\ Len(t) = wire.text + 1 /\ t[wire.text + 1] = x /\ \A k \in 1..wire.text : t[k] = old[k]
  <2>1. /\ t \in Seq(Chunk) /\ Len(t) = Len(old) + 1 /\ t[Len(old) + 1] = x
        /\ \A k \in 1..Len(old) : t[k] = old[k]
    BY <1>2, <1>3, ChunkAppended
  <2>2. Len(old) = wire.text
    BY <1>4
  <2> HIDE DEF x, t, old
  <2>3. Len(t) = wire.text + 1 /\ t[wire.text + 1] = x
    BY <2>1, <2>2
  <2>4. \A k \in 1..wire.text : t[k] = old[k]
    BY <2>1, <2>2
  <2> QED BY <2>1, <2>3, <2>4
<1> HIDE DEF x, t
<1>6. wire'.text = wire.text + 1 /\ wire'.frags = wire.frags /\ wire' \in Wire
  <2>1. wire' = [wire EXCEPT !.text = wire.text + 1]
    BY <1>1
  <2>2. wire \in Wire /\ wire.text + 1 \in Nat
    BY <1>2
  <2> QED BY <2>1, <2>2 DEF Wire
<1>7. parts'.text = t /\ parts'.calls = parts.calls /\ parts' \in Parts
  BY <1>1, <1>2, <1>5 DEF Parts
<1>8. TextIsSent(parts', wire', turn.attempt)
  <2>1. ASSUME NEW k \in 1..(wire.text + 1) PROVE t[k] = <<turn.attempt, k>>
    <3>1. CASE k = wire.text + 1
      BY <1>5, <3>1 DEF x
    <3>2. CASE k # wire.text + 1
      <4>1. k \in 1..wire.text
        BY <1>2, <3>2
      <4> QED BY <1>4, <1>5, <4>1
    <3> QED BY <3>1, <3>2
  <2> QED BY <1>5, <1>6, <1>7, <2>1 DEF TextIsSent
<1>9. LiveFollows(turn.kind, old, deltas, live, turn.attempt)
  BY <1>1 DEF TurnInv
<1>10. /\ deltas' \in Deltas /\ live' \in Seq(Chunk)
       /\ LiveFollows(turn.kind, t, deltas', live', turn.attempt)
  <2>1. CASE turn.kind # "agent"
    <3>1. live' = Append(live, x) /\ deltas' = deltas
      BY <1>1, <2>1
    <3>2. LiveEndsWith(old, Len(old), live, turn.attempt)
      BY <1>9, <2>1 DEF LiveFollows
    <3> HIDE DEF old
    <3>3. LiveEndsWith(Append(old, x), Len(Append(old, x)), Append(live, x), turn.attempt)
      BY <1>2, <1>3, <3>2, ChatGrows DEF old
    <3>4. LiveEndsWith(t, Len(t), live', turn.attempt)
      BY <3>1, <3>3 DEF t, old
    <3> QED BY <1>2, <1>3, <2>1, <3>1, <3>4 DEF LiveFollows, Deltas
  <2>2. CASE turn.kind = "agent"
    <3> DEFINE d == [deltas EXCEPT !.buffer = Append(@, x)]
    <3>1. LiveEndsWith(old, deltas.sent, live, turn.attempt) /\ BufferIsRest(old, deltas)
      BY <1>9, <2>2 DEF LiveFollows
    <3>2. /\ LiveEndsWith(t, deltas.sent, live, turn.attempt)
          /\ deltas.sent >= StreamMax => BufferIsRest(t, deltas)
          /\ deltas.sent < StreamMax => d \in [buffer : Seq(Chunk), sent : Nat] /\ BufferIsRest(t, d)
      BY <1>2, <1>3, <3>1, BufferGrows DEF t
    <3>3. d.sent = deltas.sent
      BY <1>2
    <3>4. Delta(x, now) /\ deltas.sent \in Nat /\ StreamMax \in Nat
      BY <1>1, <1>2, <2>2, ModelTurnsAssumption
    <3>5. CASE deltas.sent >= StreamMax
      <4>1. deltas' = deltas /\ live' = live
        BY <3>4, <3>5 DEF Delta
      <4> QED BY <1>2, <2>2, <3>2, <3>5, <4>1 DEF LiveFollows, Deltas
    <3>6. CASE ~(deltas.sent >= StreamMax)
      <4>1. CASE now
        <5>1. deltas' = Flush(d, live).deltas /\ live' = Flush(d, live).live
          BY <3>4, <3>6, <4>1 DEF Delta
        <5>2. d \in [buffer : Seq(Chunk), sent : Nat] /\ BufferIsRest(t, d)
              /\ LiveEndsWith(t, d.sent, live, turn.attempt)
          BY <3>2, <3>3, <3>4, <3>6
        <5> HIDE DEF d
        <5>3. /\ deltas' \in [buffer : Seq(Chunk), sent : Nat] /\ live' \in Seq(Chunk)
              /\ LiveEndsWith(t, deltas'.sent, live', turn.attempt) /\ BufferIsRest(t, deltas')
          BY <1>2, <1>5, <5>1, <5>2, FlushKeeps
        <5> QED BY <2>2, <5>3 DEF LiveFollows, Deltas
      <4>2. CASE ~now
        <5>1. deltas' = d /\ live' = live
          BY <3>4, <3>6, <4>2 DEF Delta
        <5>2. d \in Deltas /\ BufferIsRest(t, d) /\ LiveEndsWith(t, d.sent, live, turn.attempt)
          BY <3>2, <3>3, <3>4, <3>6 DEF Deltas
        <5> HIDE DEF d
        <5> QED BY <1>2, <2>2, <5>1, <5>2 DEF LiveFollows
      <4> QED BY <4>1, <4>2
    <3> QED BY <3>5, <3>6
  <2> QED BY <2>1, <2>2
<1>11. TurnTypeOK'
  BY <1>1, <1>2, <1>6, <1>7, <1>10 DEF TurnTypeOK
<1>12. Joined(wire'.frags, parts'.calls)
  BY <1>6, <1>7 DEF TurnInv
<1>13. AttemptsAreBounded' /\ ChatIsWhole'
  BY <1>1 DEF TurnInv, AttemptsAreBounded, ChatIsWhole
<1> QED BY <1>1, <1>7, <1>8, <1>10, <1>11, <1>12, <1>13 DEF TurnInv

\* However the calls are told apart, a chunk of them is joined to what arrived before.
LEMMA CallsHold ==
    ASSUME TurnInv, NEW chunk \in Chunks, CallChunk(chunk)
    PROVE  TurnInv'
<1> DEFINE at == [k \in DOMAIN chunk |-> IF wire.numbered THEN chunk[k].call ELSE k]
           M == Merged(parts.calls, chunk, at)
           g == wire.frags \o chunk
<1>1. /\ turn.at = "streaming" /\ UNCHANGED <<turn, deltas, live>>
      /\ wire' = [wire EXCEPT !.frags = g]
      /\ parts' = [parts EXCEPT !.calls = M, !.received = TRUE]
  BY DEF CallChunk, Streaming, MergeCalls
<1>2. /\ turn \in Turn /\ wire \in Wire /\ parts \in Parts
      /\ wire.frags \in Seq(Fragment) /\ parts.calls \in Seq(Seq(Nat))
      /\ Joined(wire.frags, parts.calls)
  BY DEF TurnInv, TurnTypeOK, Wire, Parts
<1>3. g \in Seq(Fragment) /\ M \in Seq(Seq(Nat)) /\ Joined(g, M)
  <2>1. CASE wire.numbered
    <3>1. PICK c \in 1..MaxCalls :
             /\ \A d \in 1..c - 1 : SentOf(d) # {}
             /\ chunk = <<[call |-> c, frag |-> Cardinality(SentOf(c)) + 1]>>
      BY <2>1 DEF Chunks
    <3>2. \A e : SentOf(e) = Sent(wire.frags, e)
      BY DEF SentOf, Sent
    <3>3. c \in 1..(Len(parts.calls) + 1)
      <4> SUFFICES ASSUME ~(c <= Len(parts.calls) + 1) PROVE FALSE
        BY <1>2, ModelTurnsAssumption
      <4> DEFINE d == Len(parts.calls) + 1
      <4>1. d \in 1..c - 1 /\ d \notin 1..Len(parts.calls)
        BY <1>2, ModelTurnsAssumption
      <4>2. Sent(wire.frags, d) # {}
        BY <3>1, <3>2, <4>1
      <4> HIDE DEF d
      <4>3. d \in {wire.frags[k].call : k \in DOMAIN wire.frags}
        BY <4>2 DEF Sent
      <4> QED BY <1>2, <4>1, <4>3 DEF Joined
    <3>4. Cardinality(Sent(wire.frags, c)) \in Nat /\ c \in Nat
      BY <1>2, SentIsFinite, ModelTurnsAssumption
    <3>5. chunk = <<[call |-> c, frag |-> Cardinality(Sent(wire.frags, c)) + 1]>>
      BY <3>1, <3>2
    <3>6. chunk \in Seq(Fragment) /\ DOMAIN chunk = 1..1 /\ chunk[1].call = c
      <4>1. [call |-> c, frag |-> Cardinality(Sent(wire.frags, c)) + 1] \in Fragment
        BY <3>4 DEF Fragment
      <4> QED BY <3>5, <4>1
    <3>7. at = [k \in DOMAIN chunk |-> c]
      <4>1. \A k \in DOMAIN chunk : k = 1
        BY <3>6
      <4> QED BY <2>1, <3>6, <4>1
    <3> HIDE DEF at
    <3> QED BY <1>2, <3>3, <3>5, <3>6, <3>7, FragmentIsJoined
  <2>2. CASE ~wire.numbered
    <3>1. PICK n \in 1..MaxCalls : chunk = [k \in 1..n |-> [call |-> k, frag |-> 1]]
      BY <2>2 DEF Chunks
    <3>2. wire.frags = <<>>
      BY <2>2 DEF Chunks
    <3>3. n \in Nat
      BY ModelTurnsAssumption
    <3>4. chunk \in Seq(Fragment)
      <4>1. chunk = [k \in 1..n |-> chunk[k]] /\ \A k \in 1..n : chunk[k] \in Fragment
        BY <3>1, <3>3 DEF Fragment
      <4> QED BY <3>3, <4>1, TableIsSequence
    <3>5. at = [k \in DOMAIN chunk |-> k]
      BY <2>2
    <3>6. Joined(<<>>, parts.calls)
      BY <1>2, <3>2
    <3> HIDE DEF at
    <3>7. M \in Seq(Seq(Nat)) /\ Joined(<<>> \o chunk, M)
      BY <1>2, <3>1, <3>3, <3>4, <3>5, <3>6, ChunkIsJoined
    <3>8. g \in Seq(Fragment)
      BY <1>2, <3>4
    <3> QED BY <3>2, <3>7, <3>8
  <2> QED BY <2>1, <2>2
<1> HIDE DEF M, g, at
<1>4. wire'.text = wire.text /\ wire'.frags = g /\ wire' \in Wire
  BY <1>1, <1>2, <1>3 DEF Wire
<1>5. parts'.text = parts.text /\ parts'.calls = M /\ parts' \in Parts
  BY <1>1, <1>2, <1>3 DEF Parts
<1>6. TextIsSent(parts', wire', turn'.attempt)
  BY <1>1, <1>4, <1>5 DEF TurnInv, TextIsSent
<1>7. LiveFollows(turn'.kind, parts'.text, deltas', live', turn'.attempt)
  BY <1>1, <1>5 DEF TurnInv
<1>8. AttemptsAreBounded' /\ ChatIsWhole'
  BY <1>1 DEF TurnInv, AttemptsAreBounded, ChatIsWhole
<1>9. TurnTypeOK'
  BY <1>1, <1>4, <1>5 DEF TurnInv, TurnTypeOK
<1> QED BY <1>1, <1>3, <1>4, <1>5, <1>6, <1>7, <1>8, <1>9 DEF TurnInv

\* At the end of an agent's stream the buffer is journalled.
LEMMA EndHolds ==
    ASSUME TurnInv, NEW done \in BOOLEAN, StreamEnds(done)
    PROVE  TurnInv'
<1>1. CASE ~(IF turn.kind = "agent" THEN parts.received ELSE done)
  BY <1>1, RaiseHolds DEF StreamEnds
<1>2. CASE IF turn.kind = "agent" THEN parts.received ELSE done
  <2> DEFINE f == Flush(deltas, live)
  <2>1. /\ turn.at = "streaming" /\ turn' = [turn EXCEPT !.at = "returned"]
        /\ wire' = [wire EXCEPT !.done = done] /\ UNCHANGED parts
        /\ turn.kind = "agent" => deltas' = f.deltas /\ live' = f.live
        /\ turn.kind # "agent" => UNCHANGED <<deltas, live>> /\ done = TRUE
    BY <1>2 DEF StreamEnds, TurnBecomes
  <2>2. /\ turn \in Turn /\ turn.attempt \in Nat /\ wire \in Wire /\ parts.text \in Seq(Chunk)
        /\ deltas \in [buffer : Seq(Chunk), sent : Nat] /\ live \in Seq(Chunk)
    BY DEF TurnInv, TurnTypeOK, Turn, Parts, Deltas
  <2>3. turn'.at = "returned" /\ turn'.kind = turn.kind /\ turn'.attempt = turn.attempt /\ turn' \in Turn
    BY <2>1, <2>2 DEF Turn
  <2>4. wire'.text = wire.text /\ wire'.frags = wire.frags /\ wire'.done = done /\ wire' \in Wire
    BY <2>1, <2>2 DEF Wire
  <2>5. TextIsSent(parts', wire', turn'.attempt)
    BY <2>1, <2>3, <2>4 DEF TurnInv, TextIsSent
  <2>6. Joined(wire'.frags, parts'.calls)
    BY <2>1, <2>4 DEF TurnInv
  <2>7. LiveFollows(turn.kind, parts.text, deltas, live, turn.attempt)
    BY <2>1 DEF TurnInv
  <2>8. /\ deltas' \in Deltas /\ live' \in Seq(Chunk)
        /\ LiveFollows(turn.kind, parts.text, deltas', live', turn.attempt)
        /\ turn.kind = "agent" => deltas'.buffer = <<>>
    <3>1. CASE turn.kind = "agent"
      <4>1. LiveEndsWith(parts.text, deltas.sent, live, turn.attempt) /\ BufferIsRest(parts.text, deltas)
        BY <2>7, <3>1 DEF LiveFollows
      <4>2. /\ deltas' \in [buffer : Seq(Chunk), sent : Nat] /\ live' \in Seq(Chunk)
            /\ LiveEndsWith(parts.text, deltas'.sent, live', turn.attempt)
            /\ BufferIsRest(parts.text, deltas') /\ deltas'.buffer = <<>>
        BY <2>1, <2>2, <3>1, <4>1, FlushKeeps
      <4> QED BY <3>1, <4>2 DEF LiveFollows, Deltas
    <3>2. CASE turn.kind # "agent"
      BY <2>1, <2>2, <2>7, <3>2 DEF Deltas
    <3> QED BY <3>1, <3>2
  <2> HIDE DEF f
  <2>9. AttemptsAreBounded' /\ ChatIsWhole'
    BY <2>1, <2>3, <2>4 DEF TurnInv, AttemptsAreBounded, ChatIsWhole
  <2>10. TurnTypeOK'
    BY <2>1, <2>3, <2>4, <2>8 DEF TurnInv, TurnTypeOK
  <2> QED BY <2>1, <2>3, <2>5, <2>6, <2>8, <2>9, <2>10 DEF TurnInv
<1> QED BY <1>1, <1>2

LEMMA TurnStepHolds == TurnInv /\ [TurnsNext]_turnVars => TurnInv'
<1> SUFFICES ASSUME TurnInv, [TurnsNext]_turnVars PROVE TurnInv'
  OBVIOUS
<1>1. turn.attempt \in Nat /\ Attempts \in Nat /\ turn.stepped \in BOOLEAN
  BY ModelTurnsAssumption DEF TurnInv, TurnTypeOK, Turn
<1>2. CASE UNCHANGED turnVars
  <2>1. UNCHANGED <<turn, wire, parts, deltas, live>>
    BY <1>2 DEF turnVars
  <2>2. ChatIsWhole' /\ AttemptsAreBounded' /\ TurnTypeOK'
    BY <2>1 DEF TurnInv, TurnTypeOK, ChatIsWhole, AttemptsAreBounded
  <2> QED BY <2>1, <2>2 DEF TurnInv
<1>3. CASE CancelTurn
  BY <1>3, CancelHolds
<1>4. CASE \E kind \in {"agent", "chat"} : AskTurn(kind)
  BY <1>4, AskHolds
<1>5. CASE Retry
  <2>1. turn.kind = "agent" /\ turn.attempt < Attempts /\ turn.at = "waiting"
    BY <1>5 DEF Retry, TurnInv, AttemptsAreBounded
  <2> QED BY <1>1, <1>5, <2>1, AgainHolds DEF Retry
<1>6. CASE EffortRejected
  <2>1. turn.at = "sent" /\ turn.kind = "agent"
    BY <1>6 DEF EffortRejected
  <2>2. CASE effort > 1 /\ ~turn.stepped /\ turn.attempt < Attempts
    BY <1>6, <2>1, <2>2, AgainHolds DEF EffortRejected
  <2>3. CASE ~(effort > 1 /\ ~turn.stepped /\ turn.attempt < Attempts)
    BY <1>6, <2>1, <2>3, RaiseHolds DEF EffortRejected
  <2> QED BY <2>2, <2>3
<1>7. CASE StreamFails
  BY <1>7, RaiseHolds DEF StreamFails
<1>8. CASE \E retryable \in BOOLEAN : Refused(retryable)
  BY <1>8, RaiseHolds DEF Refused
<1>9. CASE \E reply \in [text : 0..MaxText, calls : 0..MaxCalls] : Body(reply)
  BY <1>9, BodyHolds
<1>10. CASE \E numbered \in BOOLEAN : Opens(numbered)
  BY <1>10, OpensHolds
<1>11. CASE \E now \in BOOLEAN : TextChunk(now)
  BY <1>11, TextHolds
<1>12. CASE \E chunk \in Chunks : CallChunk(chunk)
  BY <1>12, CallsHold
<1>13. CASE \E done \in BOOLEAN : StreamEnds(done)
  BY <1>13, EndHolds
<1> QED BY <1>2, <1>3, <1>4, <1>5, <1>6, <1>7, <1>8, <1>9, <1>10, <1>11, <1>12, <1>13
       DEF TurnsNext, ProviderStep

LEMMA TurnInvIsEnough == TurnInv => TurnsAreWhole
<1> SUFFICES ASSUME TurnInv PROVE TurnsAreWhole
  OBVIOUS
<1>1. /\ wire \in Wire /\ wire.frags \in Seq(Fragment) /\ wire.text \in Nat /\ turn \in Turn
      /\ turn.attempt \in Nat /\ parts.text \in Seq(Chunk) /\ parts.calls \in Seq(Seq(Nat))
      /\ deltas.sent \in Nat /\ live \in Seq(Chunk) /\ Joined(wire.frags, parts.calls)
  BY DEF TurnInv, TurnTypeOK, Wire, Turn, Parts, Deltas
<1>2. TurnIsOneAttempt
  <2>1. parts.text = [k \in 1..wire.text |-> <<turn.attempt, k>>]
    <3>1. Len(parts.text) = wire.text /\ \A k \in 1..wire.text : parts.text[k] = <<turn.attempt, k>>
      BY DEF TurnInv, TextIsSent
    <3> DEFINE t == parts.text
    <3>2. t = [k \in 1..Len(t) |-> t[k]]
      BY <1>1
    <3> QED BY <3>1, <3>2
  <2> QED BY <1>1, <2>1, AssembledIsJoined DEF TurnIsOneAttempt
<1>3. LiveTextEndsWithTurn
  <2> SUFFICES ASSUME turn.at = "returned", wire.open
               PROVE  \E n \in 0..Len(live) :
                         /\ n <= Len(parts.text) /\ (n < Len(parts.text) => n >= StreamMax)
                         /\ \A k \in 1..Len(live) - n : live[k][1] # turn.attempt
                         /\ \A k \in 1..n : live[Len(live) - n + k] = parts.text[k]
    BY DEF LiveTextEndsWithTurn
  <2>1. PICK n \in Nat : LiveEndsWith(parts.text, n, live, turn.attempt)
                         /\ (n < Len(parts.text) => n >= StreamMax)
    <3>1. LiveFollows(turn.kind, parts.text, deltas, live, turn.attempt)
      BY DEF TurnInv
    <3>2. CASE turn.kind = "agent"
      <4>1. /\ LiveEndsWith(parts.text, deltas.sent, live, turn.attempt)
            /\ BufferIsRest(parts.text, deltas) /\ deltas.buffer = <<>>
        BY <3>1, <3>2 DEF TurnInv, LiveFollows
      <4>2. Len(<<>>) = 0 /\ StreamMax \in Nat
        BY ModelTurnsAssumption
      <4>3. deltas.sent < StreamMax => Len(parts.text) = deltas.sent
        BY <1>1, <4>1, <4>2 DEF BufferIsRest
      <4> QED BY <1>1, <4>1, <4>2, <4>3
    <3>3. CASE turn.kind # "agent"
      <4>1. LiveEndsWith(parts.text, Len(parts.text), live, turn.attempt)
        BY <3>1, <3>3 DEF LiveFollows
      <4>2. Len(parts.text) \in Nat
        BY <1>1
      <4> QED BY <4>1, <4>2
    <3> QED BY <3>2, <3>3
  <2>2. n \in 0..Len(live) /\ n <= Len(parts.text) /\ Len(live) \in Nat
    BY <1>1, <2>1 DEF LiveEndsWith
  <2>3. ASSUME NEW k \in 1..Len(live) - n PROVE live[k][1] # turn.attempt
    BY <1>1, <2>1 DEF LiveEndsWith
  <2>4. \A k \in 1..n : live[Len(live) - n + k] = parts.text[k]
    BY <2>1 DEF LiveEndsWith
  <2> QED BY <2>1, <2>2, <2>3, <2>4
<1> QED BY <1>2, <1>3 DEF TurnInv, TurnsAreWhole

\* What a turn returns is what the provider sent on its last attempt, joined in order however
\* its fragments came and were numbered; the live text ends with it, up to the cap; a chat is
\* returned only when the provider ended it; and no turn asks too often (_model_turn,
\* _StreamedTurn, _DeltaJournal).
THEOREM ReturnedTurnsAreWhole == TurnsSpec => []TurnsAreWhole
<1>1. TurnsInit => TurnInv
  BY InitHolds
<1>2. TurnInv /\ [TurnsNext]_turnVars => TurnInv'
  BY TurnStepHolds
<1>3. TurnInv => TurnsAreWhole
  BY TurnInvIsEnough
<1> QED BY <1>1, <1>2, <1>3, PTL DEF TurnsSpec

=============================================================================
