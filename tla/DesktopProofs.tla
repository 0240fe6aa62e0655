---------------------------- MODULE DesktopProofs ----------------------------
(***************************************************************************)
(* Proofs about the desktop's modules: a run's answer reaches the          *)
(* conversation it was started in (Generation), the runtime's policy and   *)
(* setup stay with their workspace (Runtime), nothing is published past    *)
(* the user's choice or the required check (Review), and conversations     *)
(* stay trees that no later action, restart or file changes                *)
(* (Conversations); for every set of conversations, workspaces and files   *)
(* and every bound.                                                        *)
(***************************************************************************)
EXTENDS Generation, Runtime, Review, Conversations, FiniteSetTheorems, SequenceTheorems,
    WellFoundedInduction, TLAPS

(***************************************************************************)
(* Generation                                                              *)
(***************************************************************************)

\* A worker thread; its stage is what its last signal was.
Worker == [home : Convs, auto : BOOLEAN,
           stage : {"streaming", "flushed", "ended", "gone"}]

\* The conversation of the state is none before the first run.
GenTypeOK ==
    /\ exists \subseteq Convs /\ current \in Convs
    /\ workers \in Seq(Worker)
    /\ active \in Nat
    /\ state \in [conv : Convs \cup {"none"}, text : SUBSET (DOMAIN workers), cancel : BOOLEAN]
    /\ saved \subseteq Convs \X DOMAIN workers
    /\ queue \in Seq(Convs) /\ timer \in Seq(Convs)
    /\ tier \in [auto : BOOLEAN, trusted : BOOLEAN]
    /\ publishing \in BOOLEAN /\ refused \in BOOLEAN

\* The active worker is alive; and one that was never alive beside another is
\* alone, is the active one, and is the one the state is about.
SoleWorker ==
    /\ active # 0 => active \in Alive
    /\ \A w \in Alive \ doubled :
          /\ Alive = {w} /\ active = w
          /\ state.conv = workers[w].home
          /\ workers[w].stage = "flushed" => w \in state.text

\* Text that waits to be saved is that of a worker whose stream has ended and
\* whose end has not been handled, unless workers were mixed up.
TextIsItsOwn ==
    \A w \in state.text : w \in doubled \/ workers[w].stage = "flushed"

GenerationInv ==
    GenTypeOK /\ SoleWorker /\ TextIsItsOwn /\ AnswersArrive /\ AutoIsTrusted

\* What a step on the workers and the state leaves true.
RunsInv ==
    /\ workers \in Seq(Worker) /\ active \in Nat
    /\ state \in [conv : Convs \cup {"none"}, text : SUBSET (DOMAIN workers), cancel : BOOLEAN]
    /\ exists \subseteq Convs /\ saved \subseteq Convs \X DOMAIN workers
    /\ SoleWorker /\ TextIsItsOwn /\ AnswersArrive

LEMMA WorkerFacts ==
    ASSUME workers \in Seq(Worker), NEW w \in DOMAIN workers
    PROVE  /\ w \in Nat /\ w # 0 /\ w <= Len(workers) /\ workers[w] \in Worker
           /\ workers[w].stage \in {"streaming", "flushed", "ended", "gone"}
<1>1. DOMAIN workers = 1..Len(workers) /\ Len(workers) \in Nat
  OBVIOUS
<1>2. workers[w] \in Worker
  BY <1>1, ElementOfSeq
<1> QED
  BY <1>1, <1>2 DEF Worker

\* Appending a worker leaves the others what they are.
LEMMA Appended ==
    ASSUME workers \in Seq(Worker), NEW row \in Worker,
           workers' = Append(workers, row)
    PROVE  /\ workers' \in Seq(Worker)
           /\ DOMAIN workers' = DOMAIN workers \cup {Len(workers) + 1}
           /\ Len(workers) + 1 \notin DOMAIN workers
           /\ workers'[Len(workers) + 1] = row
           /\ \A w \in DOMAIN workers : workers'[w] = workers[w]
  OBVIOUS

\* A run is started: the new worker is alone, or all that are alive are doubled.
LEMMA BeginKeeps ==
    ASSUME RunsInv, NEW conv \in Convs, NEW auto \in BOOLEAN, Begin(conv, auto),
           UNCHANGED <<exists, saved>>
    PROVE  RunsInv'
<1> DEFINE row == [home |-> conv, auto |-> auto, stage |-> "streaming"]
           n == Len(workers) + 1
<1>1. row \in Worker /\ row.home = conv /\ row.stage = "streaming"
  BY DEF Worker
<1>2. workers \in Seq(Worker) /\ n \in Nat /\ n # 0
  BY DEF RunsInv
<1>3. workers' = Append(workers, row) /\ active' = n /\ state' = [NoState EXCEPT !.conv = conv]
      /\ doubled' = IF Alive = {} THEN doubled ELSE doubled \cup Alive \cup {n}
  BY DEF Begin
<1> HIDE DEF row
<1>4. /\ workers' \in Seq(Worker)
      /\ DOMAIN workers' = DOMAIN workers \cup {n}
      /\ n \notin DOMAIN workers
      /\ workers'[n] = row
      /\ \A w \in DOMAIN workers : workers'[w] = workers[w]
  BY <1>1, <1>2, <1>3, Appended
<1> HIDE DEF n
<1>5. Alive' = Alive \cup {n} /\ Alive \subseteq DOMAIN workers
  BY <1>1, <1>4 DEF Alive
<1>6. state' \in [conv : Convs \cup {"none"}, text : SUBSET (DOMAIN workers'), cancel : BOOLEAN]
      /\ state'.conv = conv /\ state'.text = {}
  BY <1>3 DEF NoState
<1>7. SoleWorker'
  <2>1. (active # 0 => active \in Alive)'
    BY <1>3, <1>5
  <2>2. ASSUME NEW w \in Alive' \ doubled'
        PROVE  /\ Alive' = {w} /\ active' = w
               /\ state'.conv = workers'[w].home
               /\ workers'[w].stage = "flushed" => w \in state'.text
    <3>1. Alive = {} /\ w = n
      BY <1>3, <1>5
    <3> QED
      BY <3>1, <1>1, <1>3, <1>4, <1>5, <1>6
  <2> QED
    BY <2>1, <2>2 DEF SoleWorker
<1>8. TextIsItsOwn'
  BY <1>6 DEF TextIsItsOwn
<1>9. AnswersLandHome'
  <2> SUFFICES ASSUME NEW s \in saved
               PROVE  s[1] = workers'[s[2]].home \/ s[2] \in doubled'
    BY DEF AnswersLandHome
  <2>1. s[2] \in DOMAIN workers /\ (s[1] = workers[s[2]].home \/ s[2] \in doubled)
    BY DEF RunsInv, AnswersArrive, AnswersLandHome
  <2> QED
    BY <2>1, <1>3, <1>4
<1>10. AnswersAreSaved'
  <2> SUFFICES ASSUME NEW w \in DOMAIN workers', workers'[w].stage \in {"ended", "gone"}
               PROVE  \/ <<workers'[w].home, w>> \in saved
                      \/ workers'[w].home \notin exists \/ w \in doubled'
    BY DEF AnswersAreSaved
  <2>1. w # n
    BY <1>1, <1>4
  <2>2. w \in DOMAIN workers /\ workers'[w] = workers[w]
    BY <2>1, <1>4
  <2>3. <<workers[w].home, w>> \in saved \/ workers[w].home \notin exists \/ w \in doubled
    BY <2>2 DEF RunsInv, AnswersArrive, AnswersAreSaved
  <2> QED
    BY <2>2, <2>3, <1>3
<1>11. saved' \subseteq Convs \X DOMAIN workers'
  BY <1>4 DEF RunsInv
<1> QED
  BY <1>2, <1>3, <1>4, <1>6, <1>7, <1>8, <1>9, <1>10, <1>11 DEF RunsInv, AnswersArrive

\* A worker goes on to another stage: the others are what they were.
LEMMA Staged ==
    ASSUME workers \in Seq(Worker), NEW w \in DOMAIN workers,
           NEW to \in {"flushed", "ended", "gone"},
           workers' = [workers EXCEPT ![w].stage = to]
    PROVE  /\ workers' \in Seq(Worker) /\ DOMAIN workers' = DOMAIN workers
           /\ workers'[w].stage = to
           /\ \A x \in DOMAIN workers : workers'[x].home = workers[x].home
           /\ \A x \in DOMAIN workers : x # w => workers'[x] = workers[x]
<1> DEFINE row == [workers[w] EXCEPT !.stage = to]
<1>1. workers[w] \in Worker
  BY ElementOfSeq
<1>2. row \in Worker /\ row.stage = to /\ row.home = workers[w].home
  BY <1>1 DEF Worker
<1>3. workers' = [workers EXCEPT ![w] = row]
  OBVIOUS
<1> HIDE DEF row
<1>4. workers' \in Seq(Worker) /\ DOMAIN workers' = DOMAIN workers
      /\ \A x \in DOMAIN workers : workers'[x] = IF x = w THEN row ELSE workers[x]
  BY <1>2, <1>3
<1> QED
  BY <1>2, <1>4

\* The stream of a worker ends and its text is flushed.
LEMMA ChunkKeeps ==
    ASSUME RunsInv, NEW w \in DOMAIN workers, OnChunk(w)
    PROVE  RunsInv'
<1>1. workers[w].stage = "streaming" /\ workers' = [workers EXCEPT ![w].stage = "flushed"]
      /\ state' = [state EXCEPT !.text = @ \cup {w}]
      /\ UNCHANGED <<exists, active, saved, doubled>>
  BY DEF OnChunk
<1>2. workers \in Seq(Worker)
      /\ state \in [conv : Convs \cup {"none"}, text : SUBSET (DOMAIN workers), cancel : BOOLEAN]
  BY DEF RunsInv
<1>3. /\ workers' \in Seq(Worker) /\ DOMAIN workers' = DOMAIN workers
      /\ workers'[w].stage = "flushed"
      /\ \A x \in DOMAIN workers : workers'[x].home = workers[x].home
      /\ \A x \in DOMAIN workers : x # w => workers'[x] = workers[x]
  BY <1>1, <1>2, Staged
<1>4. state'.text = state.text \cup {w} /\ state'.conv = state.conv
      /\ state' \in [conv : Convs \cup {"none"}, text : SUBSET (DOMAIN workers), cancel : BOOLEAN]
  BY <1>1, <1>2
<1>5. Alive' = Alive
  BY <1>1, <1>3 DEF Alive
<1>6. SoleWorker'
  <2>1. SoleWorker /\ Alive \subseteq DOMAIN workers
    BY DEF RunsInv, Alive
  <2> QED
    BY <2>1, <1>1, <1>3, <1>4, <1>5 DEF SoleWorker
<1>7. TextIsItsOwn'
  <2>1. \A x \in state.text : x \in doubled \/ workers[x].stage = "flushed"
    BY DEF RunsInv, TextIsItsOwn
  <2> QED
    BY <2>1, <1>1, <1>2, <1>3, <1>4 DEF TextIsItsOwn
<1>8. AnswersArrive'
  <2>1. AnswersLandHome /\ AnswersAreSaved /\ saved \subseteq Convs \X DOMAIN workers
    BY DEF RunsInv, AnswersArrive
  <2>2. AnswersLandHome'
    BY <2>1, <1>1, <1>3 DEF AnswersLandHome
  <2>3. AnswersAreSaved'
    BY <2>1, <1>1, <1>3 DEF AnswersAreSaved
  <2> QED
    BY <2>2, <2>3 DEF AnswersArrive
<1> QED
  BY <1>1, <1>3, <1>4, <1>6, <1>7, <1>8 DEF RunsInv

\* The end of a stream is handled: what was flushed is saved in the
\* conversation of the state.
LEMMA EndKeeps ==
    ASSUME RunsInv, NEW w \in DOMAIN workers, NEW failed \in BOOLEAN, OnEnd(w, failed)
    PROVE  RunsInv'
<1>1. workers[w].stage = "flushed" /\ workers' = [workers EXCEPT ![w].stage = "ended"]
      /\ saved' = saved \cup Saves /\ state' = [state EXCEPT !.text = {}]
      /\ UNCHANGED <<exists, active, doubled>>
  BY DEF OnEnd
<1>2. workers \in Seq(Worker) /\ exists \subseteq Convs
      /\ state \in [conv : Convs \cup {"none"}, text : SUBSET (DOMAIN workers), cancel : BOOLEAN]
  BY DEF RunsInv
<1>3. /\ workers' \in Seq(Worker) /\ DOMAIN workers' = DOMAIN workers
      /\ workers'[w].stage = "ended"
      /\ \A x \in DOMAIN workers : workers'[x].home = workers[x].home
      /\ \A x \in DOMAIN workers : x # w => workers'[x] = workers[x]
  BY <1>1, <1>2, Staged
<1>4. state'.text = {} /\ state'.conv = state.conv
      /\ state' \in [conv : Convs \cup {"none"}, text : SUBSET (DOMAIN workers), cancel : BOOLEAN]
  BY <1>1, <1>2
<1>5. Alive' = Alive /\ Alive \subseteq DOMAIN workers /\ w \in Alive
  BY <1>1, <1>3 DEF Alive
<1>6. SoleWorker
  BY DEF RunsInv
<1>7. SoleWorker'
  BY <1>1, <1>3, <1>4, <1>5, <1>6 DEF SoleWorker
<1>8. TextIsItsOwn'
  BY <1>4 DEF TextIsItsOwn
<1>9. Saves \subseteq Convs \X DOMAIN workers
  BY <1>2 DEF Saves
<1>10. \A x \in state.text : x \in doubled \/ workers[x].home = state.conv
  <2> SUFFICES ASSUME NEW x \in state.text, x \notin doubled
               PROVE  workers[x].home = state.conv
    OBVIOUS
  <2>1. x \in DOMAIN workers /\ workers[x].stage = "flushed"
    BY <1>2 DEF RunsInv, TextIsItsOwn
  <2>2. x \in Alive \ doubled
    BY <2>1 DEF Alive
  <2> QED
    BY <2>2, <1>6 DEF SoleWorker
<1>11. AnswersLandHome'
  <2> SUFFICES ASSUME NEW s \in saved'
               PROVE  s[1] = workers'[s[2]].home \/ s[2] \in doubled
    BY <1>1 DEF AnswersLandHome
  <2>1. CASE s \in saved
    BY <2>1, <1>1, <1>3 DEF RunsInv, AnswersArrive, AnswersLandHome
  <2>2. CASE s \in Saves
    <3>1. PICK x \in state.text : s = <<state.conv, x>>
      BY <2>2 DEF Saves
    <3>2. s[1] = state.conv /\ s[2] = x /\ x \in DOMAIN workers
      BY <3>1, <1>2
    <3> QED
      BY <3>2, <1>3, <1>10
  <2> QED
    BY <2>1, <2>2, <1>1
<1>12. AnswersAreSaved'
  <2> SUFFICES ASSUME NEW x \in DOMAIN workers, workers'[x].stage \in {"ended", "gone"}
               PROVE  \/ <<workers[x].home, x>> \in saved'
                      \/ workers[x].home \notin exists \/ x \in doubled
    BY <1>1, <1>3 DEF AnswersAreSaved
  <2>1. CASE x # w
    BY <2>1, <1>1, <1>3 DEF RunsInv, AnswersArrive, AnswersAreSaved
  <2>2. CASE x = w /\ w \notin doubled
    <3>1. w \in Alive \ doubled
      BY <2>2, <1>1 DEF Alive
    <3>2. state.conv = workers[w].home /\ w \in state.text
      BY <3>1, <1>1, <1>6 DEF SoleWorker
    <3> QED
      BY <3>2, <2>2, <1>1 DEF Saves
  <2> QED
    BY <2>1, <2>2
<1>13. saved' \subseteq Convs \X DOMAIN workers'
  BY <1>1, <1>3, <1>9 DEF RunsInv
<1>14. active' \in Nat /\ exists' \subseteq Convs
  BY <1>1, <1>2 DEF RunsInv
<1> QED
  BY <1>3, <1>4, <1>7, <1>8, <1>11, <1>12, <1>13, <1>14 DEF RunsInv, AnswersArrive

\* A worker's thread is finished: no worker is active, whichever it was.
LEMMA FinishedKeeps ==
    ASSUME RunsInv, NEW w \in DOMAIN workers, OnWorkerFinished(w)
    PROVE  RunsInv'
<1>1. workers[w].stage = "ended" /\ workers' = [workers EXCEPT ![w].stage = "gone"]
      /\ active' = 0 /\ UNCHANGED <<exists, state, saved, doubled>>
  BY DEF OnWorkerFinished
<1>2. workers \in Seq(Worker)
      /\ state \in [conv : Convs \cup {"none"}, text : SUBSET (DOMAIN workers), cancel : BOOLEAN]
  BY DEF RunsInv
<1>3. /\ workers' \in Seq(Worker) /\ DOMAIN workers' = DOMAIN workers
      /\ workers'[w].stage = "gone"
      /\ \A x \in DOMAIN workers : workers'[x].home = workers[x].home
      /\ \A x \in DOMAIN workers : x # w => workers'[x] = workers[x]
  BY <1>1, <1>2, Staged
<1>4. Alive' = Alive \ {w} /\ w \in Alive
  BY <1>1, <1>3 DEF Alive
<1>5. SoleWorker'
  <2>1. \A x \in Alive \ doubled : Alive = {x}
    BY DEF RunsInv, SoleWorker
  <2>2. Alive' \ doubled' = {}
    BY <2>1, <1>1, <1>4
  <2> QED
    BY <2>2, <1>1 DEF SoleWorker
<1>6. TextIsItsOwn'
  <2>1. \A x \in state.text : x \in DOMAIN workers
                               /\ (x \in doubled \/ workers[x].stage = "flushed")
    BY <1>2 DEF RunsInv, TextIsItsOwn
  <2> QED
    BY <2>1, <1>1, <1>3 DEF TextIsItsOwn
<1>7. AnswersLandHome'
  BY <1>1, <1>3 DEF RunsInv, AnswersArrive, AnswersLandHome
<1>8. AnswersAreSaved'
  BY <1>1, <1>3 DEF RunsInv, AnswersArrive, AnswersAreSaved
<1>9. exists' \subseteq Convs /\ saved' \subseteq Convs \X DOMAIN workers'
  BY <1>1, <1>3 DEF RunsInv
<1>10. state' \in [conv : Convs \cup {"none"}, text : SUBSET (DOMAIN workers'), cancel : BOOLEAN]
  BY <1>1, <1>2, <1>3
<1> QED
  BY <1>1, <1>3, <1>5, <1>6, <1>7, <1>8, <1>9, <1>10 DEF RunsInv, AnswersArrive

\* Nothing happens to the workers; conversations may be deleted, and a run may
\* be asked to stop.
LEMMA IdleKeeps ==
    ASSUME RunsInv, UNCHANGED <<workers, active, saved, doubled>>,
           exists' \subseteq exists,
           state' = state \/ state' = [state EXCEPT !.cancel = TRUE]
    PROVE  RunsInv'
<1>1. /\ state' \in [conv : Convs \cup {"none"}, text : SUBSET (DOMAIN workers), cancel : BOOLEAN]
      /\ state'.conv = state.conv /\ state'.text = state.text
  BY DEF RunsInv
<1>2. Alive' = Alive
  BY DEF Alive
<1>3. SoleWorker'
  BY <1>1, <1>2 DEF RunsInv, SoleWorker
<1>4. TextIsItsOwn'
  BY <1>1 DEF RunsInv, TextIsItsOwn
<1>5. AnswersArrive'
  BY DEF RunsInv, AnswersArrive, AnswersLandHome, AnswersAreSaved
<1> QED
  BY <1>1, <1>3, <1>4, <1>5 DEF RunsInv

\* The auto tier is only read and given up with the workers; the end of a run of
\* Auto that failed or was stopped gives it up, as the active worker is it.
LEMMA EndKeepsTrust ==
    ASSUME RunsInv, tier \in [auto : BOOLEAN, trusted : BOOLEAN], AutoIsTrusted,
           NEW w \in DOMAIN workers, NEW failed \in BOOLEAN, OnEnd(w, failed)
    PROVE  tier' \in [auto : BOOLEAN, trusted : BOOLEAN] /\ AutoIsTrusted'
<1> DEFINE bad == failed \/ state.cancel
<1>1. workers[w].stage = "flushed" /\ UNCHANGED doubled
      /\ tier' = [tier EXCEPT !.auto = AutoAfter(bad),
                              !.trusted = @ /\ ~(bad /\ workers[w].auto)]
  BY DEF OnEnd
<1>2. workers[w] \in Worker /\ w # 0
  BY WorkerFacts DEF RunsInv
<1>3. state.cancel \in BOOLEAN
  BY DEF RunsInv
<1>4. AutoAfter(bad) \in BOOLEAN
  BY DEF AutoAfter
<1>5. tier' \in [auto : BOOLEAN, trusted : BOOLEAN]
  BY <1>1, <1>4
<1>6. ASSUME tier'.auto, doubled = {} PROVE tier'.trusted
  <2>1. w \in Alive \ doubled
    BY <1>1, <1>6 DEF Alive
  <2>2. active = w
    BY <2>1 DEF RunsInv, SoleWorker
  <2>3. workers[w].auto \in BOOLEAN /\ active # 0
    BY <2>2, <1>2 DEF Worker
  <2>4. tier'.auto = AutoAfter(bad) /\ tier'.trusted = (tier.trusted /\ ~(bad /\ workers[w].auto))
    BY <1>1
  <2>5. AutoAfter(bad) = IF bad /\ workers[w].auto THEN FALSE ELSE tier.auto
    BY <2>2, <2>3 DEF AutoAfter, AutoRun, Generating
  <2>6. tier.auto /\ ~(bad /\ workers[w].auto)
    BY <1>6, <2>4, <2>5
  <2> QED
    BY <1>6, <2>4, <2>6 DEF AutoIsTrusted
<1> QED
  BY <1>1, <1>5, <1>6 DEF AutoIsTrusted

LEMMA GenerationSplit ==
    GenerationInv <=>
        /\ RunsInv /\ AutoIsTrusted /\ tier \in [auto : BOOLEAN, trusted : BOOLEAN]
        /\ current \in Convs
        /\ queue \in Seq(Convs) /\ timer \in Seq(Convs)
        /\ publishing \in BOOLEAN /\ refused \in BOOLEAN
  BY DEF GenerationInv, GenTypeOK, RunsInv

LEMMA GenerationStarts == GenerationInit => GenerationInv
<1> SUFFICES ASSUME GenerationInit PROVE GenerationInv
  OBVIOUS
<1>1. workers = <<>> /\ active = 0 /\ state = NoState /\ exists = Convs /\ current \in Convs
      /\ saved = {} /\ tier = [auto |-> FALSE, trusted |-> FALSE]
      /\ queue = <<>> /\ timer = <<>> /\ publishing = FALSE /\ refused = FALSE
  BY DEF GenerationInit
<1>2. DOMAIN workers = {} /\ Alive = {}
  BY <1>1 DEF Alive
<1>3. GenTypeOK
  <2>1. workers \in Seq(Worker) /\ queue \in Seq(Convs) /\ timer \in Seq(Convs)
    BY ONLY <1>1
  <2>2. state \in [conv : Convs \cup {"none"}, text : SUBSET (DOMAIN workers), cancel : BOOLEAN]
    BY <1>1, <1>2 DEF NoState
  <2> QED
    BY <1>1, <2>1, <2>2 DEF GenTypeOK
<1>4. SoleWorker /\ TextIsItsOwn
  BY <1>1, <1>2 DEF SoleWorker, TextIsItsOwn, NoState
<1>5. AnswersArrive /\ AutoIsTrusted
  BY <1>1, <1>2 DEF AnswersArrive, AnswersLandHome, AnswersAreSaved, AutoIsTrusted
<1> QED
  BY <1>3, <1>4, <1>5 DEF GenerationInv

\* A message goes out, or is refused.
LEMMA TurnKeeps ==
    ASSUME RunsInv, current \in Convs, tier \in [auto : BOOLEAN, trusted : BOOLEAN],
           refused \in BOOLEAN,
           AutoIsTrusted, StartUserTurn, UNCHANGED <<exists, saved, tier>>
    PROVE  RunsInv' /\ AutoIsTrusted' /\ refused' \in BOOLEAN
<1>1. CASE Begin(current, tier.auto) /\ UNCHANGED refused
  <2>1. RunsInv'
    BY <1>1, BeginKeeps
  <2>2. doubled' = {} => doubled = {}
    BY <1>1 DEF Begin
  <2> QED
    BY <1>1, <2>1, <2>2 DEF AutoIsTrusted
<1>2. CASE refused' = TRUE /\ UNCHANGED <<workers, active, state, doubled>>
  BY <1>2, IdleKeeps DEF AutoIsTrusted
<1> QED
  BY <1>1, <1>2 DEF StartUserTurn

\* What is queued and taken out again stays a sequence of conversations.
LEMMA QueueFacts ==
    ASSUME NEW S, NEW q \in Seq(S), NEW r \in Seq(S), NEW c \in S
    PROVE  /\ Append(q, c) \in Seq(S) /\ <<c>> \o q \in Seq(S)
           /\ q # <<>> => Tail(q) \in Seq(S) /\ Append(r, Head(q)) \in Seq(S)
<1>1. q # <<>> => Head(q) \in S /\ Tail(q) \in Seq(S)
  OBVIOUS
<1>2. <<c>> \in Seq(S)
  OBVIOUS
<1> QED
  BY <1>1, <1>2, AppendProperties, ConcatProperties

LEMMA ContinueKeeps ==
    ASSUME queue \in Seq(Convs), timer \in Seq(Convs), current \in Convs,
           ContinueQueued \/ UNCHANGED <<queue, timer>>
    PROVE  queue' \in Seq(Convs) /\ timer' \in Seq(Convs)
<1>1. CASE UNCHANGED <<queue, timer>>
  BY <1>1
<1>2. CASE ContinueQueued
  <2>1. CASE queue = <<>>
    BY <1>2, <2>1 DEF ContinueQueued
  <2>2. CASE queue # <<>>
    <3>1. queue' = Tail(queue) /\ timer' = Append(timer, Head(queue))
      BY <1>2, <2>2 DEF ContinueQueued
    <3> QED
      BY <3>1, <2>2, QueueFacts
  <2> QED
    BY <2>1, <2>2
<1> QED
  BY <1>1, <1>2

\* Every slot and every click keeps what is claimed of the runs.
LEMMA GenerationKeeps == GenerationInv /\ [GenerationNext]_genVars => GenerationInv'
<1> SUFFICES ASSUME GenerationInv, [GenerationNext]_genVars PROVE GenerationInv'
  OBVIOUS
<1>1. /\ RunsInv /\ AutoIsTrusted /\ tier \in [auto : BOOLEAN, trusted : BOOLEAN]
      /\ current \in Convs /\ queue \in Seq(Convs) /\ timer \in Seq(Convs)
      /\ publishing \in BOOLEAN /\ refused \in BOOLEAN
  BY GenerationSplit
<1>2. exists \subseteq Convs
  BY <1>1 DEF RunsInv
<1>3. /\ tier.auto \in BOOLEAN
      /\ queue # <<>> => Head(queue) \in Convs /\ Tail(queue) \in Seq(Convs)
      /\ timer # <<>> => Tail(timer) \in Seq(Convs)
  BY <1>1
<1> DEFINE Rest == /\ AutoIsTrusted /\ tier \in [auto : BOOLEAN, trusted : BOOLEAN]
                   /\ current \in Convs /\ queue \in Seq(Convs) /\ timer \in Seq(Convs)
                   /\ publishing \in BOOLEAN /\ refused \in BOOLEAN
<1>4. Rest
  BY <1>1
<1> SUFFICES RunsInv' /\ Rest'
  <2>1. (RunsInv /\ Rest => GenerationInv)'
    BY GenerationSplit, PTL
  <2> QED
    BY <2>1
<1>5. CASE UNCHANGED genVars
  <2>1. RunsInv'
    BY <1>1, <1>5, IdleKeeps DEF genVars
  <2> QED
    BY <1>4, <1>5, <2>1 DEF genVars, AutoIsTrusted
<1>6. ASSUME NEW w \in DOMAIN workers, OnChunk(w) PROVE RunsInv' /\ Rest'
  <2>1. RunsInv'
    BY <1>1, <1>6, ChunkKeeps
  <2> QED
    BY <1>4, <1>6, <2>1 DEF OnChunk, AutoIsTrusted
<1>7. ASSUME NEW w \in DOMAIN workers, OnWorkerFinished(w) PROVE RunsInv' /\ Rest'
  <2>1. RunsInv'
    BY <1>1, <1>7, FinishedKeeps
  <2>2. queue' \in Seq(Convs) /\ timer' \in Seq(Convs)
    BY <1>1, <1>7, ContinueKeeps DEF OnWorkerFinished
  <2> QED
    BY <1>4, <1>7, <2>1, <2>2 DEF OnWorkerFinished, AutoIsTrusted
<1>8. ASSUME NEW w \in DOMAIN workers, NEW f \in BOOLEAN, OnEnd(w, f) PROVE RunsInv' /\ Rest'
  <2>1. RunsInv'
    BY <1>1, <1>8, EndKeeps
  <2>2. tier' \in [auto : BOOLEAN, trusted : BOOLEAN] /\ AutoIsTrusted'
    BY <1>1, <1>8, EndKeepsTrust
  <2> QED
    BY <1>4, <1>8, <2>1, <2>2 DEF OnEnd
<1>9. CASE TimerFires
  <2>1. RunsInv' /\ AutoIsTrusted' /\ refused' \in BOOLEAN
    BY <1>1, <1>9, TurnKeeps DEF TimerFires
  <2> QED
    BY <1>3, <1>4, <1>9, <2>1 DEF TimerFires
<1>10. CASE PublishEnds
  <2>1. RunsInv'
    BY <1>1, <1>10, IdleKeeps DEF PublishEnds
  <2>2. queue' \in Seq(Convs) /\ timer' \in Seq(Convs)
    BY <1>1, <1>10, ContinueKeeps DEF PublishEnds
  <2> QED
    BY <1>4, <1>10, <2>1, <2>2 DEF PublishEnds, AutoIsTrusted
<1>11. CASE Send
  <2>1. CASE Generating
    <3>1. /\ queue' \in {Append(queue, current), <<current>> \o queue}
          /\ UNCHANGED <<exists, current, workers, active, state, timer, tier, publishing,
                         saved, doubled, refused>>
      BY <1>11, <2>1 DEF Send
    <3>2. RunsInv'
      BY <1>1, <3>1, IdleKeeps
    <3>3. queue \in Seq(Convs) /\ timer \in Seq(Convs) /\ current \in Convs
      BY <1>1
    <3>4. Append(queue, current) \in Seq(Convs) /\ <<current>> \o queue \in Seq(Convs)
      BY <3>3, QueueFacts
    <3>5. queue' \in Seq(Convs)
      BY <3>1, <3>4
    <3> QED
      BY <1>4, <3>1, <3>2, <3>5 DEF AutoIsTrusted
  <2>2. CASE ~Generating
    <3>1. RunsInv' /\ AutoIsTrusted' /\ refused' \in BOOLEAN
      BY <1>1, <1>11, <2>2, TurnKeeps DEF Send
    <3> QED
      BY <1>4, <1>11, <2>2, <3>1 DEF Send
  <2> QED
    BY <2>1, <2>2
<1>12. CASE Rerun
  <2>1. RunsInv'
    BY <1>1, <1>3, <1>12, BeginKeeps DEF Rerun
  <2>2. doubled' = {} => doubled = {}
    BY <1>12 DEF Rerun, Begin
  <2> QED
    BY <1>4, <1>12, <2>1, <2>2 DEF Rerun, AutoIsTrusted
<1>13. CASE Resume
  <2>1. RunsInv'
    BY <1>1, <1>13, BeginKeeps DEF Resume
  <2> QED
    BY <1>4, <1>13, <2>1 DEF Resume, AutoIsTrusted
<1>14. CASE Stop
  <2>1. RunsInv'
    BY <1>1, <1>14, IdleKeeps DEF Stop
  <2> QED
    BY <1>4, <1>14, <2>1 DEF Stop, AutoIsTrusted
<1>15. CASE PublishStarts
  <2>1. RunsInv'
    BY <1>1, <1>15, IdleKeeps DEF PublishStarts
  <2> QED
    BY <1>4, <1>15, <2>1 DEF PublishStarts, AutoIsTrusted
<1>16. CASE LeaveAuto
  <2>1. RunsInv'
    BY <1>1, <1>16, IdleKeeps DEF LeaveAuto
  <2> QED
    BY <1>4, <1>16, <2>1 DEF LeaveAuto, AutoIsTrusted
<1>17. CASE Decline
  <2>1. RunsInv'
    BY <1>1, <1>17, IdleKeeps DEF Decline
  <2> QED
    BY <1>4, <1>17, <2>1 DEF Decline, AutoIsTrusted
<1>18. ASSUME NEW c \in Convs, Select(c) \/ Search(c) PROVE RunsInv' /\ Rest'
  <2>1. RunsInv'
    BY <1>1, <1>18, IdleKeeps DEF Select, Search
  <2> QED
    BY <1>4, <1>18, <2>1 DEF Select, Search, AutoIsTrusted
<1>19. ASSUME NEW d \in Questions, Ask(d) PROVE RunsInv' /\ Rest'
  <2>1. RunsInv'
    BY <1>1, <1>19, IdleKeeps DEF Ask
  <2> QED
    BY <1>4, <1>19, <2>1 DEF Ask, AutoIsTrusted
<1>20. ASSUME NEW d \in Questions, AcceptDialog(d) PROVE RunsInv' /\ Rest'
  <2>1. d.what \in {"command", "delete", "auto"}
    BY DEF Questions
  <2>2. CASE d.what = "command"
    <3>1. StartUserTurn /\ UNCHANGED <<exists, current, tier, queue, timer, publishing, saved>>
      BY <1>20, <2>2 DEF AcceptDialog
    <3>2. RunsInv' /\ AutoIsTrusted' /\ refused' \in BOOLEAN
      BY <1>1, <3>1, TurnKeeps
    <3> QED
      BY <1>4, <3>1, <3>2
  <2>3. CASE d.what = "delete"
    <3>1. /\ exists' = exists \ {d.conv} /\ current' \in exists'
          /\ UNCHANGED <<workers, active, state, doubled, refused, tier, queue, timer,
                         publishing, saved>>
      BY <1>20, <2>3 DEF AcceptDialog
    <3>2. RunsInv'
      BY <1>1, <3>1, IdleKeeps
    <3> QED
      BY <1>2, <1>4, <3>1, <3>2 DEF AutoIsTrusted
  <2>4. CASE d.what = "auto"
    <3>1. /\ tier' = [auto |-> TRUE, trusted |-> TRUE]
          /\ UNCHANGED <<exists, current, workers, active, state, doubled, refused, queue,
                         timer, publishing, saved>>
      BY <1>20, <2>4 DEF AcceptDialog
    <3>2. RunsInv'
      BY <1>1, <3>1, IdleKeeps
    <3> QED
      BY <1>4, <3>1, <3>2 DEF AutoIsTrusted
  <2> QED
    BY <2>1, <2>2, <2>3, <2>4
<1> HIDE DEF Rest
<1> QED
  BY <1>5, <1>6, <1>7, <1>8, <1>9, <1>10, <1>11, <1>12, <1>13, <1>14, <1>15, <1>16, <1>17,
     <1>18, <1>19, <1>20 DEF GenerationNext, Slot

LEMMA GenerationHolds == GenerationSpec => []GenerationInv
  BY GenerationStarts, GenerationKeeps, PTL DEF GenerationSpec

\* Every answer is saved in the conversation its run was started in,
\* whatever is selected, searched, deleted or published meanwhile
\* (GenerationController's and ConversationService's handling of a stream's
\* end), unless two workers were alive together.
THEOREM EveryAnswerArrives == GenerationSpec => []AnswersArrive
  BY GenerationHolds, PTL DEF GenerationInv

\* The session is in the Auto tier only while the user's confirmation of it
\* stands: a run of Auto that failed or was stopped, a resumed run and a change
\* of workspace end it (GenerationController's ends of a stream, resume_run).
THEOREM AutoStaysTrusted == GenerationSpec => []AutoIsTrusted
  BY GenerationHolds, PTL DEF GenerationInv

(***************************************************************************)
(* Runtime                                                                 *)
(***************************************************************************)

Boot == [ws : Folders, net : {"none", "registries"},
         step : {"new", "down", "up", "wait", "ended", "stopped"}]

PostedSignal == [sig : {"progress", "ready", "failed", "finished", "installed"}, by : Nat]

BootTypeOK ==
    /\ boots \in Seq(Boot) /\ posted \in Seq(PostedSignal)
    /\ boot \in {0} \cup DOMAIN boots /\ session \in {0} \cup DOMAIN boots
    /\ live \in {0} \cup DOMAIN boots
    /\ svc \in [state : {"closed", "busy", "ready", "failed"}, target : Folders \cup {Nothing},
                served : Folders \cup {Nothing}]

RuntimeTypeOK ==
    /\ sel \in Folders /\ netMode \in {"none", "registries"}
    /\ BootTypeOK
    /\ probe \in [out : BOOLEAN, served : Folders \cup {Nothing}, again : BOOLEAN]
    /\ leaving \in Folders \cup {Nothing}
    /\ prompt \in [what : {"registries", "policy", "setup", Nothing},
                   ws : Folders \cup {Nothing}, policy : {"closed", "open", Nothing}]
    /\ prompt.what = "policy" => prompt.policy # Nothing
    /\ policyFile \in [Folders -> {"closed", "open"}]
    /\ policyOn \in [Folders -> {"closed", "open"}]
    /\ crossed \in BOOLEAN /\ aborted \in BOOLEAN

\* All runtime workers have ended but the manager's, which restarts the
\* runtime for the workspace the service waits for.
OneBoot == \A b \in DOMAIN boots : Over(b) \/ (b = boot /\ boots[b].ws = svc.target)

\* A worker's "ready" is delivered before anything posted later, while the
\* service is still busy: its first progress was delivered before that.
ReadyWhileBusy ==
    /\ \A i \in DOMAIN posted :
          posted[i].sig = "ready" => i = 1 /\ svc.state = "busy" /\ posted[i].by \in DOMAIN boots
    /\ \A b \in DOMAIN boots :
          ~Over(b) /\ boots[b].step # "new" =>
              /\ \A i \in DOMAIN posted : posted[i].sig \in {"progress", "installed"}
              /\ svc.state = "busy" \/ \E i \in DOMAIN posted : posted[i].sig = "progress"

\* The session of a ready service is of the workspace it serves.
SessionAtTarget ==
    /\ svc.state = "ready" /\ session # 0 => boots[session].ws = svc.target
    /\ svc.state # "closed" => svc.target = sel

\* While the setup is offered the workspace stays selected, and whatever
\* becomes ready is its runtime.
SetupOffered ==
    prompt.what = "setup" =>
        /\ leaving = Nothing
        /\ session # 0 => boots[session].ws = sel
        /\ \A i \in DOMAIN posted : posted[i].sig = "ready" => boots[posted[i].by].ws = sel

\* Registry access was asked for in the workspace whose policy allows it.
RegistriesAsked ==
    prompt.what = "registries" => policyOn[sel] = "open" \/ crossed

\* Nothing has happened before the app starts.
NothingYet ==
    svc.state = "closed" =>
        /\ boots = <<>> /\ posted = <<>> /\ live = 0 /\ ~probe.out
        /\ prompt = NoPrompt /\ setup = NoSetup /\ ~aborted

\* Qt's abort ends everything: the workers' part only matters before.
RuntimeInv ==
    /\ RuntimeTypeOK /\ RegistriesAllowed /\ RegistriesAsked
    /\ setup.ws = setup.at /\ NothingYet
    /\ ~aborted => OneBoot /\ ReadyWhileBusy /\ SessionAtTarget /\ SetupOffered

-----------------------------------------------------------------------------
(* Signals and workers.                                                    *)

LEMMA BootFacts ==
    ASSUME BootTypeOK, NEW b \in DOMAIN boots
    PROVE  /\ b \in Nat /\ b # 0 /\ boots[b] \in Boot /\ boots[b].ws \in Folders
           /\ DOMAIN boots = 1..Len(boots)
<1>1. boots \in Seq(Boot)
  BY DEF BootTypeOK
<1>2. boots[b] \in Boot
  BY <1>1, ElementOfSeq
<1> QED
  BY <1>1, <1>2 DEF Boot

\* What is posted comes after what was.
LEMMA PostFacts ==
    ASSUME NEW S, NEW old \in Seq(S), NEW added \in Seq(S), NEW all, all = old \o added
    PROVE  /\ all \in Seq(S)
           /\ \A i \in DOMAIN old : i \in DOMAIN all /\ all[i] = old[i]
           /\ \A i \in DOMAIN all : i \in DOMAIN old \/
                 \E k \in DOMAIN added : i = Len(old) + k /\ all[i] = added[k]
<1>1. /\ all \in Seq(S) /\ Len(all) = Len(old) + Len(added)
      /\ \A i \in 1..(Len(old) + Len(added)) :
            all[i] = IF i <= Len(old) THEN old[i] ELSE added[i - Len(old)]
  BY ConcatProperties
<1>2. DOMAIN all = 1..Len(all) /\ DOMAIN old = 1..Len(old) /\ DOMAIN added = 1..Len(added)
      /\ Len(old) \in Nat /\ Len(added) \in Nat
  BY <1>1
<1>3. ASSUME NEW i \in DOMAIN all, i \notin DOMAIN old
      PROVE  \E k \in DOMAIN added : i = Len(old) + k /\ all[i] = added[k]
  <2>1. i - Len(old) \in DOMAIN added /\ i = Len(old) + (i - Len(old)) /\ ~(i <= Len(old))
        /\ i \in 1..(Len(old) + Len(added))
    BY <1>1, <1>2, <1>3
  <2> QED
    BY <2>1, <1>1
<1> QED
  BY <1>1, <1>2, <1>3

LEMMA TailFacts ==
    ASSUME NEW S, NEW s \in Seq(S), s # <<>>
    PROVE  /\ Head(s) = s[1] /\ Head(s) \in S /\ 1 \in DOMAIN s /\ Tail(s) \in Seq(S)
           /\ \A i \in DOMAIN Tail(s) : i + 1 \in DOMAIN s /\ Tail(s)[i] = s[i + 1] /\ i + 1 # 1
           /\ \A i \in DOMAIN s : i # 1 => i - 1 \in DOMAIN Tail(s) /\ Tail(s)[i - 1] = s[i]
<1>1. Len(s) \in Nat /\ Len(s) >= 1 /\ DOMAIN s = 1..Len(s)
  BY EmptySeq
<1>2. Head(s) = s[1] /\ s[1] \in S
  BY <1>1, ElementOfSeq
<1>3. Tail(s) \in Seq(S) /\ Len(Tail(s)) = Len(s) - 1
      /\ \A i \in 1..Len(Tail(s)) : Tail(s)[i] = s[i + 1]
  BY HeadTailProperties
<1>4. DOMAIN Tail(s) = 1..(Len(s) - 1)
  BY <1>3
<1> QED
  BY <1>1, <1>2, <1>3, <1>4

LEMMA SignalFacts ==
    ASSUME BootTypeOK
    PROVE  /\ \A i \in DOMAIN posted :
                 posted[i] \in PostedSignal /\ i \in Nat /\ i >= 1
           /\ <<>> \in Seq(PostedSignal)
<1>1. posted \in Seq(PostedSignal)
  BY DEF BootTypeOK
<1> QED
  BY <1>1, ElementOfSeq

\* A signal that is posted comes last.
LEMMA PostedLast ==
    ASSUME BootTypeOK, NEW e \in PostedSignal, Post(<<e>>)
    PROVE  /\ posted' \in Seq(PostedSignal)
           /\ \A i \in DOMAIN posted : i \in DOMAIN posted' /\ posted'[i] = posted[i]
           /\ \A i \in DOMAIN posted' : i \in DOMAIN posted \/ posted'[i] = e
<1>1. posted \in Seq(PostedSignal) /\ <<e>> \in Seq(PostedSignal) /\ posted' = posted \o <<e>>
      /\ DOMAIN <<e>> = {1} /\ <<e>>[1] = e
  BY DEF Post, BootTypeOK
<1> QED
  BY <1>1, PostFacts

\* RuntimeManager.ensure: the worker in its way is stopped, the new one is the
\* manager's, and no session is kept.
LEMMA EnsureKeeps ==
    ASSUME BootTypeOK, OneBoot, ReadyWhileBusy, NEW w \in Folders,
           NEW n \in {"none", "registries"}, Ensure(w, n),
           svc' \in [state : {"closed", "busy", "ready", "failed"}, target : Folders \cup {Nothing},
                     served : Folders \cup {Nothing}],
           svc'.target = w, svc'.state = "busy" \/ svc'.state = svc.state
    PROVE  BootTypeOK' /\ OneBoot' /\ ReadyWhileBusy' /\ session' = 0 /\ boots' # <<>>
<1> DEFINE new == Len(boots) + 1
           row == [ws |-> w, net |-> n, step |-> "new"]
           old == boot # 0 /\ ~Over(boot)
           stop == [b \in DOMAIN boots |->
                      IF old /\ b = boot THEN [boots[b] EXCEPT !.step = "stopped"] ELSE boots[b]]
<1>1. /\ boots' = Append(stop, row) /\ boot' = new /\ session' = 0 /\ live' = live
      /\ Post(IF old THEN <<[sig |-> "finished", by |-> boot]>> ELSE <<>>)
  BY DEF Ensure
<1>2. boots \in Seq(Boot) /\ posted \in Seq(PostedSignal) /\ boot \in {0} \cup DOMAIN boots
      /\ live \in {0} \cup DOMAIN boots
  BY DEF BootTypeOK
<1>3. Len(boots) \in Nat /\ DOMAIN boots = 1..Len(boots) /\ \A b \in DOMAIN boots : boots[b] \in Boot
  BY <1>2, ElementOfSeq
<1>4. row \in Boot /\ row.step = "new" /\ row.ws = w
  BY DEF Boot
<1>5. \A b \in DOMAIN boots :
         /\ stop[b] \in Boot
         /\ stop[b] = boots[b] \/ stop[b].step = "stopped"
         /\ b = boot /\ ~Over(b) => stop[b].step = "stopped"
  <2> SUFFICES ASSUME NEW b \in DOMAIN boots
               PROVE  /\ stop[b] \in Boot
                      /\ stop[b] = boots[b] \/ stop[b].step = "stopped"
                      /\ b = boot /\ ~Over(b) => stop[b].step = "stopped"
    OBVIOUS
  <2>1. boots[b] \in Boot /\ b # 0
    BY <1>3
  <2>2. [boots[b] EXCEPT !.step = "stopped"] \in Boot
        /\ [boots[b] EXCEPT !.step = "stopped"].step = "stopped"
    BY <2>1 DEF Boot
  <2> QED
    BY <2>1, <2>2
<1>6. stop \in Seq(Boot) /\ Len(stop) = Len(boots)
  BY <1>3, <1>5
<1> HIDE DEF stop, row
<1>7. boots' \in Seq(Boot) /\ DOMAIN boots' = DOMAIN boots \cup {new} /\ new \notin DOMAIN boots
      /\ new # 0 /\ boots'[new] = row /\ \A b \in DOMAIN boots : boots'[b] = stop[b]
  BY <1>1, <1>3, <1>4, <1>6
<1> HIDE DEF new
<1>8. /\ posted' \in Seq(PostedSignal)
      /\ \A i \in DOMAIN posted' : \/ i \in DOMAIN posted /\ posted'[i] = posted[i]
                                  \/ posted'[i].sig = "finished"
  <2>1. CASE old
    <3>1. [sig |-> "finished", by |-> boot] \in PostedSignal
      BY <1>2, <1>3 DEF PostedSignal
    <3>2. Post(<<[sig |-> "finished", by |-> boot]>>)
      BY <1>1, <2>1
    <3> QED
      BY <3>1, <3>2, PostedLast
  <2>2. CASE ~old
    BY <1>1, <1>2, <2>2 DEF Post
  <2> QED
    BY <2>1, <2>2
<1>9. BootTypeOK'
  BY <1>1, <1>2, <1>7, <1>8 DEF BootTypeOK
<1>10. \A b \in DOMAIN boots : boots'[b].step \in {"ended", "stopped"}
  <2> SUFFICES ASSUME NEW b \in DOMAIN boots PROVE boots'[b].step \in {"ended", "stopped"}
    OBVIOUS
  <2>1. Over(b) \/ b = boot
    BY DEF OneBoot
  <2> QED
    BY <2>1, <1>5, <1>7 DEF Over
<1>11. OneBoot'
  BY <1>1, <1>4, <1>7, <1>10 DEF OneBoot, Over
<1>12. ReadyWhileBusy'
  <2>1. \A i \in DOMAIN posted' : posted'[i].sig = "ready" =>
           i = 1 /\ svc'.state = "busy" /\ posted'[i].by \in DOMAIN boots'
    BY <1>7, <1>8 DEF ReadyWhileBusy
  <2>2. \A b \in DOMAIN boots' :
           boots'[b].step \in {"ended", "stopped"} \/ boots'[b].step = "new"
    BY <1>4, <1>7, <1>10
  <2> QED
    BY <2>1, <2>2 DEF ReadyWhileBusy, Over
<1> QED
  BY <1>1, <1>4, <1>7, <1>9, <1>11, <1>12

\* A worker takes its next step.
LEMMA StepTaken ==
    ASSUME BootTypeOK, NEW b \in DOMAIN boots, NEW to \in {"down", "up", "wait", "ended"},
           boots' = [boots EXCEPT ![b].step = to]
    PROVE  /\ boots' \in Seq(Boot) /\ DOMAIN boots' = DOMAIN boots
           /\ boots'[b].step = to
           /\ \A c \in DOMAIN boots : boots'[c].ws = boots[c].ws
           /\ \A c \in DOMAIN boots : c # b => boots'[c] = boots[c]
<1> DEFINE row == [boots[b] EXCEPT !.step = to]
<1>1. boots[b] \in Boot /\ boots \in Seq(Boot)
  BY BootFacts DEF BootTypeOK
<1>2. row \in Boot /\ row.step = to /\ row.ws = boots[b].ws
  BY <1>1 DEF Boot
<1>3. boots' = [boots EXCEPT ![b] = row]
  OBVIOUS
<1> HIDE DEF row
<1>4. boots' \in Seq(Boot) /\ DOMAIN boots' = DOMAIN boots
      /\ \A x \in DOMAIN boots : boots'[x] = IF x = b THEN row ELSE boots[x]
  BY <1>1, <1>2, <1>3
<1> QED
  BY <1>2, <1>4

\* The last step, or a failure: the outcome is posted, then that it finished.
LEMMA EndedKeeps ==
    ASSUME BootTypeOK, OneBoot, ReadyWhileBusy, NEW b \in DOMAIN boots, ~Over(b),
           Caught, boots' = [boots EXCEPT ![b].step = "ended"],
           NEW s \in {"ready", "failed"}, s = "ready" => boots[b].step = "wait",
           Post(<<Signal(s, b), Signal("finished", b)>>),
           UNCHANGED <<svc, boot, session, live>>
    PROVE  /\ BootTypeOK' /\ OneBoot' /\ ReadyWhileBusy'
           /\ \A i \in DOMAIN posted' : posted'[i].sig = "ready" => posted'[i].by = b
<1>1. /\ boots' \in Seq(Boot) /\ DOMAIN boots' = DOMAIN boots
      /\ boots'[b].step = "ended"
      /\ \A c \in DOMAIN boots : boots'[c].ws = boots[c].ws
      /\ \A c \in DOMAIN boots : c # b => boots'[c] = boots[c]
  BY StepTaken
<1>2. b \in Nat
  BY BootFacts
<1>3. posted' = <<Signal(s, b), Signal("finished", b)>>
  <2>1. <<Signal(s, b), Signal("finished", b)>> \in Seq(PostedSignal)
    <3>1. Signal(s, b) \in PostedSignal /\ Signal("finished", b) \in PostedSignal
      BY <1>2 DEF Signal, PostedSignal
    <3> HIDE DEF Signal
    <3> QED
      BY <3>1
  <2> HIDE DEF Signal
  <2> QED
    BY <2>1, ConcatEmptySeq DEF Post, Caught
<1>4. /\ posted' \in Seq(PostedSignal) /\ DOMAIN posted' = {1, 2}
      /\ posted'[1].sig = s /\ posted'[1].by = b /\ posted'[2].sig = "finished"
  <2>1. Signal(s, b) \in PostedSignal /\ Signal("finished", b) \in PostedSignal
        /\ Signal(s, b).sig = s /\ Signal(s, b).by = b /\ Signal("finished", b).sig = "finished"
    BY <1>2 DEF Signal, PostedSignal
  <2> HIDE DEF Signal
  <2> QED
    BY <1>3, <2>1
<1>5. BootTypeOK'
  BY <1>1, <1>4 DEF BootTypeOK
<1>6. OneBoot'
  BY <1>1 DEF OneBoot, Over
<1>7. s = "ready" => svc.state = "busy"
  BY DEF ReadyWhileBusy, Caught
<1>8. \A c \in DOMAIN boots' : Over(c)'
  BY <1>1 DEF OneBoot, Over
<1>9. ReadyWhileBusy'
  BY <1>1, <1>4, <1>7, <1>8 DEF ReadyWhileBusy
<1> QED
  BY <1>4, <1>5, <1>6, <1>9

LEMMA BootStepKeeps ==
    ASSUME BootTypeOK, OneBoot, ReadyWhileBusy, NEW b \in DOMAIN boots, BootStep(b)
    PROVE  /\ BootTypeOK' /\ OneBoot' /\ ReadyWhileBusy' /\ ~Over(b)
           /\ DOMAIN boots' = DOMAIN boots
           /\ \A c \in DOMAIN boots : boots'[c].ws = boots[c].ws
           /\ \A i \in DOMAIN posted' : posted'[i].sig = "ready" => posted'[i].by = b
<1>1. Caught /\ UNCHANGED <<svc, boot, session>> /\ ~Over(b)
  BY DEF BootStep, uiVars, Over
<1>2. b \in Nat /\ DOMAIN posted = {} /\ Signal("progress", b) \in PostedSignal
      /\ Signal("progress", b).sig = "progress"
  BY <1>1, BootFacts DEF Caught, Signal, PostedSignal
<1>3. svc.state = "busy" \/ boots[b].step = "new"
  BY <1>1, <1>2 DEF ReadyWhileBusy
<1>4. ASSUME NEW to \in {"down", "up", "wait"}, boots' = [boots EXCEPT ![b].step = to],
             live' \in {live, 0, b},
             \/ Post(<<Signal("progress", b)>>)
             \/ UNCHANGED posted /\ svc.state = "busy"
      PROVE  /\ BootTypeOK' /\ OneBoot' /\ ReadyWhileBusy'
             /\ DOMAIN boots' = DOMAIN boots
             /\ \A c \in DOMAIN boots : boots'[c].ws = boots[c].ws
             /\ \A i \in DOMAIN posted' : posted'[i].sig # "ready"
  <2>1. /\ boots' \in Seq(Boot) /\ DOMAIN boots' = DOMAIN boots
        /\ boots'[b].step = to
        /\ \A c \in DOMAIN boots : boots'[c].ws = boots[c].ws
        /\ \A c \in DOMAIN boots : c # b => boots'[c] = boots[c]
    BY <1>4, StepTaken
  <2>2. /\ posted' \in Seq(PostedSignal)
        /\ \A i \in DOMAIN posted' : posted'[i].sig = "progress"
        /\ svc.state = "busy" \/ \E i \in DOMAIN posted' : posted'[i].sig = "progress"
    <3>1. CASE Post(<<Signal("progress", b)>>)
      <4> HIDE DEF Signal
      <4>1. posted' = <<Signal("progress", b)>>
        BY <3>1, <1>1, <1>2, ConcatEmptySeq DEF Post, Caught
      <4> QED
        BY <4>1, <1>2
    <3>2. CASE UNCHANGED posted /\ svc.state = "busy"
      BY <3>2, <1>2 DEF BootTypeOK
    <3> QED
      BY <3>1, <3>2, <1>4
  <2>3. BootTypeOK'
    BY <1>1, <1>4, <2>1, <2>2 DEF BootTypeOK
  <2>4. OneBoot'
    BY <1>1, <2>1 DEF OneBoot, Over
  <2>5. ReadyWhileBusy'
    BY <1>1, <2>2 DEF ReadyWhileBusy
  <2> QED
    BY <2>1, <2>2, <2>3, <2>4, <2>5
<1>5. CASE boots[b].step = "wait" /\ boots' = [boots EXCEPT ![b].step = "ended"]
           /\ Post(<<Signal("ready", b), Signal("finished", b)>>) /\ UNCHANGED live
  <2>1. /\ BootTypeOK' /\ OneBoot' /\ ReadyWhileBusy'
        /\ \A i \in DOMAIN posted' : posted'[i].sig = "ready" => posted'[i].by = b
    BY <1>1, <1>5, EndedKeeps
  <2> QED
    BY <1>1, <1>5, <2>1, StepTaken
<1>6. \/ boots' = [boots EXCEPT ![b].step = "down"] /\ Post(<<Signal("progress", b)>>) /\ UNCHANGED live
      \/ boots' = [boots EXCEPT ![b].step = "up"] /\ live' = 0 /\ UNCHANGED posted
         /\ boots[b].step = "down"
      \/ boots' = [boots EXCEPT ![b].step = "wait"] /\ live' = b /\ Post(<<Signal("progress", b)>>)
      \/ boots[b].step = "wait" /\ boots' = [boots EXCEPT ![b].step = "ended"]
         /\ Post(<<Signal("ready", b), Signal("finished", b)>>) /\ UNCHANGED live
  BY DEF BootStep
<1> QED
  BY <1>1, <1>3, <1>4, <1>5, <1>6

\* Signals are handled in order: what comes later is what was posted.
LEMMA DeliveredKeeps ==
    ASSUME BootTypeOK, OneBoot, ReadyWhileBusy, posted # <<>>, posted' = Tail(posted),
           UNCHANGED <<boots, live>>,
           NEW e, e = Head(posted), boot' \in {boot, 0}, session' \in {session, e.by},
           session' # session => e.sig = "ready",
           boot' # boot => e.sig = "finished" /\ (boot = 0 \/ Over(boot)),
           svc' \in [state : {"closed", "busy", "ready", "failed"}, target : Folders \cup {Nothing},
                     served : Folders \cup {Nothing}],
           svc'.target = svc.target,
           e.sig = "progress" => svc'.state = "busy",
           e.sig \in {"finished", "installed"} => svc' = svc
    PROVE  /\ BootTypeOK' /\ OneBoot' /\ ReadyWhileBusy'
           /\ e \in PostedSignal /\ e = posted[1]
           /\ \A i \in DOMAIN posted' : posted'[i].sig # "ready"
<1>1. posted \in Seq(PostedSignal)
  BY DEF BootTypeOK
<1>2. /\ e = posted[1] /\ e \in PostedSignal /\ 1 \in DOMAIN posted /\ posted' \in Seq(PostedSignal)
      /\ \A i \in DOMAIN posted' : i + 1 \in DOMAIN posted /\ posted'[i] = posted[i + 1] /\ i + 1 # 1
      /\ \A i \in DOMAIN posted : i # 1 => i - 1 \in DOMAIN posted' /\ posted'[i - 1] = posted[i]
  BY <1>1, TailFacts
<1>3. BootTypeOK'
  BY <1>2 DEF BootTypeOK, ReadyWhileBusy
<1>4. OneBoot'
  BY DEF OneBoot, Over
<1>5. \A i \in DOMAIN posted' : posted'[i].sig # "ready"
  BY <1>2 DEF ReadyWhileBusy
<1>6. ASSUME NEW b \in DOMAIN boots, ~Over(b), boots[b].step # "new"
      PROVE  /\ \A i \in DOMAIN posted' : posted'[i].sig \in {"progress", "installed"}
             /\ svc'.state = "busy" \/ \E i \in DOMAIN posted' : posted'[i].sig = "progress"
  <2>1. /\ \A i \in DOMAIN posted : posted[i].sig \in {"progress", "installed"}
        /\ svc.state = "busy" \/ \E i \in DOMAIN posted : posted[i].sig = "progress"
    BY <1>6 DEF ReadyWhileBusy
  <2>2. CASE e.sig = "progress"
    BY <2>1, <2>2, <1>2
  <2>3. CASE e.sig = "installed"
    <3>1. svc' = svc /\ \A i \in DOMAIN posted' : posted'[i].sig \in {"progress", "installed"}
      BY <2>1, <2>3, <1>2
    <3>2. ASSUME NEW i \in DOMAIN posted, posted[i].sig = "progress"
          PROVE  \E k \in DOMAIN posted' : posted'[k].sig = "progress"
      <4>1. i # 1
        BY <2>3, <3>2, <1>2
      <4> QED
        BY <3>2, <4>1, <1>2
    <3> QED
      BY <2>1, <3>1, <3>2
  <2> QED
    BY <2>1, <2>2, <2>3, <1>2
<1>7. ReadyWhileBusy'
  BY <1>5, <1>6 DEF ReadyWhileBusy, Over
<1> QED
  BY <1>2, <1>3, <1>4, <1>5, <1>7

-----------------------------------------------------------------------------
(* The steps of the runtime.                                               *)

\* The workers' part of the invariant.
WorkersInv == BootTypeOK /\ OneBoot /\ ReadyWhileBusy /\ SessionAtTarget /\ SetupOffered

\* The rest of it.
PolicyInv ==
    /\ sel \in Folders /\ netMode \in {"none", "registries"}
    /\ probe \in [out : BOOLEAN, served : Folders \cup {Nothing}, again : BOOLEAN]
    /\ leaving \in Folders \cup {Nothing}
    /\ prompt \in [what : {"registries", "policy", "setup", Nothing},
                   ws : Folders \cup {Nothing}, policy : {"closed", "open", Nothing}]
    /\ prompt.what = "policy" => prompt.policy # Nothing
    /\ policyFile \in [Folders -> {"closed", "open"}]
    /\ policyOn \in [Folders -> {"closed", "open"}]
    /\ crossed \in BOOLEAN
    /\ RegistriesAllowed /\ RegistriesAsked

LEMMA RuntimeSplit ==
    RuntimeInv <=> /\ BootTypeOK /\ PolicyInv /\ setup.ws = setup.at /\ NothingYet
                   /\ aborted \in BOOLEAN
                   /\ ~aborted => WorkersInv
  BY DEF RuntimeInv, RuntimeTypeOK, PolicyInv, WorkersInv

LEMMA RuntimeStarts == RuntimeInit => RuntimeInv
<1> SUFFICES ASSUME RuntimeInit PROVE RuntimeInv
  OBVIOUS
<1>1. /\ sel = Saved /\ netMode = "none"
      /\ svc = [state |-> "closed", target |-> Nothing, served |-> Nothing]
      /\ boots = <<>> /\ boot = 0 /\ session = 0 /\ posted = <<>> /\ live = 0
      /\ probe = NoProbe /\ leaving = Nothing /\ prompt = NoPrompt
      /\ policyFile = [w \in Folders |-> "closed"]
      /\ policyOn = [w \in Folders |-> IF w \in OpenFolders THEN "open" ELSE "closed"]
      /\ setup = NoSetup /\ crossed = FALSE /\ aborted = FALSE
  BY DEF RuntimeInit
<1>2. DOMAIN boots = {} /\ DOMAIN posted = {}
  BY <1>1
<1>3. BootTypeOK
  BY <1>1, <1>2 DEF BootTypeOK
<1>4. PolicyInv
  BY <1>1, RuntimeBounds DEF PolicyInv, NoProbe, NoPrompt, Nothing, RegistriesAllowed, RegistriesAsked
<1>5. setup.ws = setup.at /\ NothingYet
  BY <1>1 DEF NoSetup, NothingYet, NoProbe
<1>6. WorkersInv
  BY <1>1, <1>2, <1>3
     DEF WorkersInv, OneBoot, ReadyWhileBusy, SessionAtTarget, SetupOffered, NoPrompt, Nothing
<1> QED
  BY <1>1, <1>3, <1>4, <1>5, <1>6, RuntimeSplit

\* The runtime is restarted while no setup is offered, or with the prompt's
\* answer: the session is dropped, and with it what it was of.
LEMMA RestartKeeps ==
    ASSUME WorkersInv, NEW w \in Folders, NEW n \in {"none", "registries"}, Ensure(w, n),
           svc' \in [state : {"closed", "busy", "ready", "failed"}, target : Folders \cup {Nothing},
                     served : Folders \cup {Nothing}],
           svc'.target = w, svc'.state = "busy" \/ svc'.state = svc.state,
           sel' = w, prompt'.what # "setup"
    PROVE  WorkersInv' /\ BootTypeOK' /\ boots' # <<>> /\ setup' = NoSetup
<1>1. BootTypeOK' /\ OneBoot' /\ ReadyWhileBusy' /\ session' = 0 /\ boots' # <<>>
  BY EnsureKeeps DEF WorkersInv
<1>2. SessionAtTarget' /\ SetupOffered'
  BY <1>1 DEF SessionAtTarget, SetupOffered
<1> QED
  BY <1>1, <1>2 DEF WorkersInv, Ensure

\* Nothing about the workers changes, nor the workspace.
LEMMA WorkersSame ==
    ASSUME WorkersInv, UNCHANGED <<sel, boots, boot, session, posted>>, live' \in {live, 0},
           svc' \in [state : {"closed", "busy", "ready", "failed"}, target : Folders \cup {Nothing},
                     served : Folders \cup {Nothing}],
           svc'.state = svc.state, svc'.target = svc.target,
           prompt'.what = "setup" =>
               \/ UNCHANGED <<prompt, leaving>>
               \/ svc.state = "ready" /\ leaving' = Nothing
    PROVE  WorkersInv'
<1>1. BootTypeOK' /\ OneBoot' /\ ReadyWhileBusy' /\ SessionAtTarget'
  <2>1. BootTypeOK'
    BY DEF WorkersInv, BootTypeOK
  <2>2. OneBoot'
    BY DEF WorkersInv, OneBoot, Over
  <2>3. ReadyWhileBusy'
    BY DEF WorkersInv, ReadyWhileBusy, Over
  <2>4. SessionAtTarget'
    BY DEF WorkersInv, SessionAtTarget
  <2> QED
    BY <2>1, <2>2, <2>3, <2>4
<1>2. SetupOffered'
  <2> SUFFICES ASSUME prompt'.what = "setup" PROVE SetupOffered'
    BY DEF SetupOffered
  <2>1. CASE UNCHANGED <<prompt, leaving>>
    BY <2>1 DEF WorkersInv, SetupOffered
  <2>2. CASE svc.state = "ready" /\ leaving' = Nothing
    <3>1. session # 0 => boots[session].ws = sel
      BY <2>2 DEF WorkersInv, SessionAtTarget
    <3>2. \A i \in DOMAIN posted : posted[i].sig # "ready"
      BY <2>2 DEF WorkersInv, ReadyWhileBusy
    <3> QED
      BY <2>2, <3>1, <3>2 DEF SetupOffered
  <2> QED
    BY <2>1, <2>2
<1> QED
  BY <1>1, <1>2 DEF WorkersInv

\* Nothing about the workspace, its network mode, the policy and the prompt changes.
LEMMA PolicySame ==
    ASSUME PolicyInv, UNCHANGED <<sel, netMode, probe, leaving, prompt, policyFile, policyOn, crossed>>
    PROVE  PolicyInv'
  BY DEF PolicyInv, RegistriesAllowed, RegistriesAsked

\* A worker's step or failure: while a setup is offered, the worker is of the
\* workspace that is selected.
LEMMA WorkerKeeps ==
    ASSUME WorkersInv, NEW b \in DOMAIN boots, ~Over(b), BootTypeOK' /\ OneBoot' /\ ReadyWhileBusy',
           DOMAIN boots' = DOMAIN boots, \A c \in DOMAIN boots : boots'[c].ws = boots[c].ws,
           \A i \in DOMAIN posted' : posted'[i].sig = "ready" => posted'[i].by = b,
           UNCHANGED <<sel, svc, session, prompt, leaving>>, svc.state # "closed"
    PROVE  WorkersInv'
<1>1. boots[b].ws = sel
  BY DEF WorkersInv, OneBoot, SessionAtTarget
<1>2. session \in {0} \cup DOMAIN boots
  BY DEF WorkersInv, BootTypeOK
<1>3. SessionAtTarget'
  BY <1>2 DEF WorkersInv, SessionAtTarget
<1>4. SetupOffered'
  BY <1>1, <1>2 DEF WorkersInv, SetupOffered
<1> QED
  BY <1>3, <1>4 DEF WorkersInv

\* A signal is delivered: an old worker's "ready" makes no service ready, and
\* none is delivered while a setup is offered but that of the workspace's own.
LEMMA DeliverKeeps ==
    ASSUME WorkersInv, PolicyInv, Deliver, svc.state # "closed", aborted \in BOOLEAN
    PROVE  /\ BootTypeOK' /\ PolicyInv' /\ UNCHANGED setup /\ aborted' \in BOOLEAN
           /\ svc'.state # "closed"
           /\ ~aborted' => WorkersInv'
<1> DEFINE e == Head(posted)
<1>1. /\ posted # <<>> /\ posted' = Tail(posted)
      /\ UNCHANGED <<sel, netMode, leaving, prompt, crossed, boots, live, policyFile, policyOn, setup>>
  BY DEF Deliver
<1>2. BootTypeOK /\ OneBoot /\ ReadyWhileBusy /\ SessionAtTarget /\ SetupOffered
  BY DEF WorkersInv
<1>3. e = posted[1] /\ e \in PostedSignal /\ 1 \in DOMAIN posted
  BY <1>1, <1>2, TailFacts DEF BootTypeOK
<1>4. svc \in [state : {"closed", "busy", "ready", "failed"}, target : Folders \cup {Nothing},
               served : Folders \cup {Nothing}]
  BY <1>2 DEF BootTypeOK
<1>5. \/ /\ e.sig = "progress" /\ svc' = [svc EXCEPT !.state = "busy", !.served = Nothing]
         /\ UNCHANGED <<boot, session, probe, aborted>>
      \/ /\ e.sig = "ready" /\ OnReady(e.by) /\ UNCHANGED <<boot, aborted>>
      \/ /\ e.sig = "failed" /\ svc' = [svc EXCEPT !.state = "failed", !.served = Nothing]
         /\ UNCHANGED <<boot, session, probe, aborted>>
      \/ e.sig = "finished" /\ OnFinished /\ UNCHANGED <<svc, session, probe>>
      \/ e.sig = "installed" /\ UNCHANGED <<svc, boot, session, probe, aborted>>
  BY DEF Deliver, OnFailed
<1> HIDE DEF e
<1>6. ASSUME NEW to \in {"busy", "failed"}, e.sig \in {"progress", "failed"},
             e.sig = "progress" => to = "busy",
             svc' = [svc EXCEPT !.state = to, !.served = Nothing],
             UNCHANGED <<boot, session, probe>>
      PROVE  WorkersInv' /\ PolicyInv' /\ svc'.state # "closed"
  <2>1. /\ svc' \in [state : {"closed", "busy", "ready", "failed"}, target : Folders \cup {Nothing},
                      served : Folders \cup {Nothing}]
        /\ svc'.state = to /\ svc'.target = svc.target
    BY <1>4, <1>6
  <2>2. /\ BootTypeOK' /\ OneBoot' /\ ReadyWhileBusy'
        /\ \A i \in DOMAIN posted' : posted'[i].sig # "ready"
    BY <1>1, <1>2, <1>6, <2>1, DeliveredKeeps DEF e
  <2>3. SessionAtTarget'
    BY <1>1, <1>2, <2>1 DEF SessionAtTarget
  <2>4. SetupOffered'
    BY <1>1, <1>2, <1>6, <2>2 DEF SetupOffered
  <2>5. PolicyInv'
    BY <1>1, <1>6, PolicySame
  <2> QED
    BY <2>1, <2>2, <2>3, <2>4, <2>5 DEF WorkersInv
<1>7. ASSUME e.sig = "ready", OnReady(e.by), UNCHANGED boot
      PROVE  WorkersInv' /\ PolicyInv' /\ svc'.state # "closed"
  <2>1. svc.state = "busy" /\ e.by \in DOMAIN boots
    BY <1>2, <1>3, <1>7 DEF ReadyWhileBusy
  <2>2. /\ svc' \in [state : {"closed", "busy", "ready", "failed"}, target : Folders \cup {Nothing},
                      served : Folders \cup {Nothing}]
        /\ svc'.state \in {"busy", "ready"} /\ svc'.target = svc.target
        /\ svc'.state = "ready" => boots[e.by].ws = svc.target
        /\ session' = e.by
        /\ probe' = probe \/ probe' = [probe EXCEPT !.again = @ \/ probe.out]
    BY <1>4, <1>7, <2>1 DEF OnReady
  <2>3. /\ BootTypeOK' /\ OneBoot' /\ ReadyWhileBusy'
        /\ \A i \in DOMAIN posted' : posted'[i].sig # "ready"
    BY <1>1, <1>2, <1>7, <2>2, DeliveredKeeps DEF e
  <2>4. SessionAtTarget'
    BY <1>1, <1>2, <2>2 DEF SessionAtTarget
  <2>5. SetupOffered'
    BY <1>1, <1>2, <1>3, <1>7, <2>2, <2>3 DEF SetupOffered
  <2>6. probe' \in [out : BOOLEAN, served : Folders \cup {Nothing}, again : BOOLEAN]
    BY <2>2 DEF PolicyInv
  <2>7. PolicyInv'
    BY <1>1, <2>6 DEF PolicyInv, RegistriesAllowed, RegistriesAsked
  <2> QED
    BY <2>2, <2>3, <2>4, <2>5, <2>7 DEF WorkersInv
<1>8. ASSUME e.sig \in {"finished", "installed"}, UNCHANGED <<svc, session, probe>>,
             boot' \in {boot, 0},
             boot' # boot => e.sig = "finished" /\ (boot = 0 \/ Over(boot))
      PROVE  WorkersInv' /\ PolicyInv' /\ svc'.state # "closed"
  <2>2. /\ BootTypeOK' /\ OneBoot' /\ ReadyWhileBusy'
        /\ \A i \in DOMAIN posted' : posted'[i].sig # "ready"
    BY <1>1, <1>2, <1>4, <1>8, DeliveredKeeps DEF e
  <2>3. SessionAtTarget'
    BY <1>1, <1>2, <1>8 DEF SessionAtTarget
  <2>4. SetupOffered'
    BY <1>1, <1>2, <1>8, <2>2 DEF SetupOffered
  <2>5. PolicyInv'
    BY <1>1, <1>8, PolicySame
  <2> QED
    BY <1>8, <2>2, <2>3, <2>4, <2>5 DEF WorkersInv
<1>9. ASSUME e.sig = "finished", OnFinished, UNCHANGED <<svc, session, probe>>
      PROVE  /\ BootTypeOK' /\ PolicyInv' /\ svc'.state # "closed"
             /\ aborted' \in BOOLEAN /\ (~aborted' => WorkersInv')
  <2>1. boot' = 0 /\ aborted' = (boot # 0 /\ ~Over(boot))
    BY <1>9 DEF OnFinished
  <2>2. BootTypeOK'
    <3>1. posted' \in Seq(PostedSignal)
      BY <1>1, <1>2, TailFacts DEF BootTypeOK
    <3> QED
      BY <1>1, <1>2, <1>9, <2>1, <3>1 DEF BootTypeOK
  <2>3. PolicyInv'
    BY <1>1, <1>9, PolicySame
  <2>4. ~aborted' => WorkersInv'
    BY <1>8, <1>9, <2>1
  <2> QED
    BY <1>9, <2>1, <2>2, <2>3, <2>4
<1>10. WorkersInv' => BootTypeOK'
  BY DEF WorkersInv
<1>11. CASE e.sig = "progress" /\ svc' = [svc EXCEPT !.state = "busy", !.served = Nothing]
            /\ UNCHANGED <<boot, session, probe, aborted>>
  BY <1>1, <1>6, <1>10, <1>11
<1>12. CASE e.sig = "failed" /\ svc' = [svc EXCEPT !.state = "failed", !.served = Nothing]
            /\ UNCHANGED <<boot, session, probe, aborted>>
  BY <1>1, <1>6, <1>10, <1>12
<1>13. CASE e.sig = "ready" /\ OnReady(e.by) /\ UNCHANGED <<boot, aborted>>
  BY <1>1, <1>7, <1>10, <1>13
<1>14. CASE e.sig = "finished" /\ OnFinished /\ UNCHANGED <<svc, session, probe>>
  BY <1>1, <1>9, <1>14
<1>15. CASE e.sig = "installed" /\ UNCHANGED <<svc, boot, session, probe, aborted>>
  BY <1>1, <1>8, <1>10, <1>15
<1> QED
  BY <1>5, <1>11, <1>12, <1>13, <1>14, <1>15

\* select_workspace: the network mode falls back, and a dialog that is open is
\* one that was crossed.
LEMMA SelectKeeps ==
    ASSUME WorkersInv, PolicyInv, NEW w \in Folders, SelectWorkspace(w),
           prompt.what # "setup", UNCHANGED <<probe, prompt, policyFile, policyOn>>,
           leaving' \in {leaving, Nothing}
    PROVE  WorkersInv' /\ PolicyInv' /\ svc'.state # "closed" /\ setup'.ws = setup'.at
<1>1. /\ sel' = w /\ netMode' = "none" /\ Ensure(w, "none")
      /\ svc' = [state |-> "busy", target |-> w, served |-> Nothing]
      /\ crossed' = (crossed \/ (prompt # NoPrompt /\ w # sel))
  BY DEF SelectWorkspace
<1>2. WorkersInv' /\ setup' = NoSetup
  <2>1. svc' \in [state : {"closed", "busy", "ready", "failed"}, target : Folders \cup {Nothing},
                  served : Folders \cup {Nothing}]
        /\ svc'.target = w /\ svc'.state = "busy"
    BY <1>1
  <2> QED
    BY <1>1, <2>1, RestartKeeps
<1>3. RegistriesAllowed' /\ RegistriesAsked'
  <2>1. prompt.what = "registries" => prompt # NoPrompt
    BY DEF NoPrompt, Nothing
  <2>2. w = sel \/ prompt = NoPrompt \/ crossed'
    BY <1>1
  <2> QED
    BY <1>1, <2>1, <2>2 DEF PolicyInv, RegistriesAllowed, RegistriesAsked
<1>4. PolicyInv'
  BY <1>1, <1>3 DEF PolicyInv
<1> QED
  BY <1>1, <1>2, <1>4 DEF NoSetup

\* retry, and the restarts for the policy and for registry access: the
\* workspace stays.
LEMMA RetryKeeps ==
    ASSUME WorkersInv, PolicyInv, netMode' \in {"none", "registries"}, Restart, UNCHANGED sel,
           prompt'.what # "setup", svc.state # "closed"
    PROVE  WorkersInv' /\ svc'.state # "closed" /\ setup'.ws = setup'.at
<1>1. svc' = [svc EXCEPT !.target = sel] /\ Ensure(sel, netMode') /\ sel \in Folders
  BY DEF Restart, PolicyInv
<1>2. /\ svc' \in [state : {"closed", "busy", "ready", "failed"}, target : Folders \cup {Nothing},
                  served : Folders \cup {Nothing}]
      /\ svc'.target = sel /\ svc'.state = svc.state
  BY <1>1 DEF WorkersInv, BootTypeOK
<1>3. WorkersInv' /\ setup' = NoSetup
  <2> DEFINE n == netMode'
  <2>1. n \in {"none", "registries"} /\ Ensure(sel, n)
    BY <1>1
  <2> HIDE DEF n
  <2> QED
    BY <1>1, <1>2, <2>1, RestartKeeps
<1> QED
  BY <1>2, <1>3 DEF NoSetup

\* The health poll reads what the containers serve.
LEMMA ReadingFacts ==
    ASSUME BootTypeOK
    PROVE  Reading \in [out : BOOLEAN, served : Folders \cup {Nothing}, again : BOOLEAN]
<1>1. live # 0 => boots[live].ws \in Folders
  BY BootFacts DEF BootTypeOK
<1> QED
  BY <1>1 DEF Reading, NoProbe

\* Steps of the machine.
LEMMA MachineKeeps ==
    ASSUME RuntimeInv, ~aborted, svc.state # "closed",
           \/ \E b \in DOMAIN boots : BootStep(b) \/ BootFails(b)
           \/ Deliver \/ ProbeArrives \/ SetupEnds \/ ContainersDie \/ CheckGateway
    PROVE  RuntimeInv'
<1>1. BootTypeOK /\ PolicyInv /\ setup.ws = setup.at /\ WorkersInv
  BY RuntimeSplit
<1> SUFFICES /\ BootTypeOK' /\ PolicyInv' /\ setup'.ws = setup'.at /\ svc'.state # "closed"
             /\ aborted' \in BOOLEAN /\ (~aborted' => WorkersInv')
  <2>1. (svc.state # "closed" => NothingYet)'
    BY DEF NothingYet
  <2>2. (BootTypeOK /\ PolicyInv /\ setup.ws = setup.at /\ NothingYet /\ aborted \in BOOLEAN
           /\ (~aborted => WorkersInv) => RuntimeInv)'
    BY RuntimeSplit, PTL
  <2> QED
    BY <2>1, <2>2
<1>2. svc \in [state : {"closed", "busy", "ready", "failed"}, target : Folders \cup {Nothing},
               served : Folders \cup {Nothing}]
  BY <1>1 DEF BootTypeOK
<1>3. (WorkersInv => BootTypeOK)'
  BY DEF WorkersInv
<1>4. aborted \in BOOLEAN
  BY RuntimeSplit
<1>5. ASSUME NEW b \in DOMAIN boots, BootStep(b)
      PROVE  WorkersInv' /\ PolicyInv' /\ UNCHANGED <<setup, svc, aborted>>
  <2>1. UNCHANGED <<sel, netMode, svc, leaving, prompt, crossed, session, policyFile, policyOn,
                   setup, probe, aborted>>
    BY <1>5 DEF BootStep, uiVars, policyVars
  <2>2. /\ BootTypeOK' /\ OneBoot' /\ ReadyWhileBusy' /\ ~Over(b)
        /\ DOMAIN boots' = DOMAIN boots
        /\ \A c \in DOMAIN boots : boots'[c].ws = boots[c].ws
        /\ \A i \in DOMAIN posted' : posted'[i].sig = "ready" => posted'[i].by = b
    BY <1>1, <1>5, BootStepKeeps DEF WorkersInv
  <2>3. WorkersInv'
    BY <1>1, <2>1, <2>2, WorkerKeeps
  <2> QED
    BY <1>1, <2>1, <2>3, PolicySame
<1>6. ASSUME NEW b \in DOMAIN boots, BootFails(b)
      PROVE  WorkersInv' /\ PolicyInv' /\ UNCHANGED <<setup, svc, aborted>>
  <2>1. UNCHANGED <<sel, netMode, svc, leaving, prompt, crossed, boot, session, live, policyFile, policyOn,
                   setup, probe, aborted>>
    BY <1>6 DEF BootFails, uiVars, policyVars
  <2>2. Caught /\ ~Over(b) /\ boots' = [boots EXCEPT ![b].step = "ended"]
        /\ Post(<<Signal("failed", b), Signal("finished", b)>>)
    BY <1>6 DEF BootFails
  <2>3. /\ BootTypeOK' /\ OneBoot' /\ ReadyWhileBusy'
        /\ \A i \in DOMAIN posted' : posted'[i].sig = "ready" => posted'[i].by = b
    BY <1>1, <2>1, <2>2, EndedKeeps DEF WorkersInv
  <2>4. DOMAIN boots' = DOMAIN boots /\ \A c \in DOMAIN boots : boots'[c].ws = boots[c].ws
    BY <1>1, <2>2, StepTaken
  <2>5. WorkersInv'
    BY <1>1, <2>1, <2>2, <2>3, <2>4, WorkerKeeps
  <2> QED
    BY <1>1, <2>1, <2>5, PolicySame
<1>7. CASE Deliver
  BY <1>1, <1>4, <1>7, DeliverKeeps
<1>8. ASSUME ProbeArrives
      PROVE  WorkersInv' /\ PolicyInv' /\ UNCHANGED <<setup, aborted>> /\ svc'.state # "closed"
  <2>1. /\ probe' \in {Reading, NoProbe}
        /\ svc' = IF svc.state = "busy" THEN svc
                  ELSE [svc EXCEPT !.served = HealthAfter(probe.served)]
        /\ UNCHANGED <<sel, netMode, leaving, crossed, bootVars, policyVars, posted, aborted>>
        /\ \/ UNCHANGED prompt
           \/ /\ svc'.state = "ready" /\ leaving = Nothing
              /\ prompt' = [what |-> "setup", ws |-> sel, policy |-> Nothing]
    BY <1>8 DEF ProbeArrives, MayOfferSetup
  <2>2. /\ svc' \in [state : {"closed", "busy", "ready", "failed"}, target : Folders \cup {Nothing},
                      served : Folders \cup {Nothing}]
        /\ svc'.state = svc.state /\ svc'.target = svc.target
    <3>1. probe.served \in Folders \cup {Nothing}
      BY <1>1 DEF PolicyInv
    <3> QED
      BY <1>2, <2>1, <3>1 DEF HealthAfter
  <2>3. WorkersInv'
    BY <1>1, <2>1, <2>2, WorkersSame DEF bootVars
  <2>4. probe' \in [out : BOOLEAN, served : Folders \cup {Nothing}, again : BOOLEAN]
    <3>1. Reading \in [out : BOOLEAN, served : Folders \cup {Nothing}, again : BOOLEAN]
      BY <1>1, ReadingFacts
    <3>2. NoProbe \in [out : BOOLEAN, served : Folders \cup {Nothing}, again : BOOLEAN]
      BY DEF NoProbe
    <3> QED
      BY <2>1, <3>1, <3>2
  <2>5. /\ prompt' \in [what : {"registries", "policy", "setup", Nothing},
                        ws : Folders \cup {Nothing}, policy : {"closed", "open", Nothing}]
        /\ prompt'.what \in {"policy", "registries"} => prompt' = prompt
    BY <1>1, <2>1 DEF PolicyInv
  <2>6. PolicyInv'
    BY <1>1, <2>1, <2>4, <2>5 DEF PolicyInv, RegistriesAllowed, RegistriesAsked, policyVars
  <2> QED
    BY <2>1, <2>2, <2>3, <2>6 DEF policyVars
<1>9. ASSUME SetupEnds
      PROVE  WorkersInv' /\ PolicyInv' /\ setup' = NoSetup /\ UNCHANGED <<svc, aborted>>
  <2>1. /\ setup' = NoSetup
        /\ Post(<<Signal("installed", 0)>>) \/ UNCHANGED posted
        /\ UNCHANGED <<sel, netMode, svc, leaving, prompt, crossed, boots, boot, session, live,
                       policyFile, policyOn, probe, aborted>>
    BY <1>9 DEF SetupEnds, uiVars, bootVars
  <2>2. CASE UNCHANGED posted
    BY <1>1, <1>2, <2>1, <2>2, WorkersSame, PolicySame
  <2>3. CASE Post(<<Signal("installed", 0)>>)
    <3>1. Signal("installed", 0) \in PostedSignal /\ Signal("installed", 0).sig = "installed"
      BY DEF Signal, PostedSignal
    <3>2. /\ posted' \in Seq(PostedSignal)
          /\ \A i \in DOMAIN posted : i \in DOMAIN posted' /\ posted'[i] = posted[i]
          /\ \A i \in DOMAIN posted' : i \in DOMAIN posted \/ posted'[i].sig = "installed"
      <4> HIDE DEF Signal
      <4> QED
        BY <1>1, <2>3, <3>1, PostedLast
    <3>3. BootTypeOK' /\ OneBoot' /\ SessionAtTarget'
      BY <1>1, <2>1, <3>2 DEF WorkersInv, BootTypeOK, OneBoot, Over, SessionAtTarget
    <3>4. ReadyWhileBusy'
      <4>1. ReadyWhileBusy
        BY <1>1 DEF WorkersInv
      <4> QED
        BY <2>1, <3>2, <4>1 DEF ReadyWhileBusy, Over
    <3>5. SetupOffered'
      BY <1>1, <2>1, <3>2 DEF WorkersInv, SetupOffered
    <3> QED
      BY <1>1, <2>1, <3>3, <3>4, <3>5, PolicySame DEF WorkersInv
  <2> QED
    BY <2>1, <2>2, <2>3
<1>10. ASSUME ContainersDie \/ CheckGateway
       PROVE  WorkersInv' /\ PolicyInv' /\ UNCHANGED <<setup, svc, aborted>>
  <2>1. /\ live' \in {live, 0} /\ probe' \in {probe, Reading}
        /\ UNCHANGED <<sel, netMode, svc, leaving, prompt, crossed, boots, boot, session, posted,
                       policyFile, policyOn, setup, aborted>>
    BY <1>10 DEF ContainersDie, CheckGateway, uiVars, bootVars, policyVars
  <2>2. WorkersInv'
    BY <1>1, <1>2, <2>1, WorkersSame
  <2>3. probe' \in [out : BOOLEAN, served : Folders \cup {Nothing}, again : BOOLEAN]
    BY <1>1, <2>1, ReadingFacts DEF PolicyInv
  <2>4. PolicyInv'
    BY <1>1, <2>1, <2>3 DEF PolicyInv, RegistriesAllowed, RegistriesAsked
  <2> QED
    BY <2>1, <2>2, <2>4
<1> QED
  BY <1>1, <1>3, <1>4, <1>5, <1>6, <1>7, <1>8, <1>9, <1>10 DEF NoSetup

\* The user's steps; most of them are slots that change one thing.
LEMMA UserKeeps ==
    ASSUME RuntimeInv, User
    PROVE  RuntimeInv'
<1>1. /\ BootTypeOK /\ PolicyInv /\ setup.ws = setup.at /\ WorkersInv /\ ~aborted
      /\ svc.state # "closed" /\ aborted \in BOOLEAN
  BY RuntimeSplit DEF User
<1> SUFFICES WorkersInv' /\ PolicyInv' /\ setup'.ws = setup'.at /\ svc'.state # "closed"
             /\ UNCHANGED aborted
  <2>1. (svc.state # "closed" => NothingYet)' /\ (WorkersInv => BootTypeOK)'
    BY DEF NothingYet, WorkersInv
  <2>2. (BootTypeOK /\ PolicyInv /\ setup.ws = setup.at /\ NothingYet /\ aborted \in BOOLEAN
           /\ (~aborted => WorkersInv) => RuntimeInv)'
    BY RuntimeSplit, PTL
  <2> QED
    BY <1>1, <2>1, <2>2
<1>2. svc \in [state : {"closed", "busy", "ready", "failed"}, target : Folders \cup {Nothing},
               served : Folders \cup {Nothing}]
  BY <1>1 DEF BootTypeOK
<1>3. (prompt = NoPrompt => prompt.what \notin {"setup", "registries"})
      /\ NoPrompt \in [what : {"registries", "policy", "setup", Nothing},
                   ws : Folders \cup {Nothing}, policy : {"closed", "open", Nothing}]
  BY DEF NoPrompt, Nothing
<1>4. (leaving # Nothing => prompt.what # "setup") /\ sel \in Folders
      /\ leaving \in Folders \cup {Nothing} /\ netMode \in {"none", "registries"}
  BY <1>1 DEF WorkersInv, SetupOffered, PolicyInv
<1>5. ASSUME NEW w \in Folders, UserSelects(w)
      PROVE  WorkersInv' /\ PolicyInv' /\ setup'.ws = setup'.at /\ svc'.state # "closed"
             /\ UNCHANGED aborted
  <2>1. prompt = NoPrompt /\ UNCHANGED <<prompt, probe, policyFile, policyOn, aborted>>
    BY <1>5 DEF UserSelects, Act
  <2>2. CASE SelectWorkspace(w) /\ UNCHANGED leaving
    BY <1>1, <1>3, <2>1, <2>2, SelectKeeps
  <2>3. CASE leaving' = w /\ UNCHANGED <<sel, netMode, svc, crossed, bootVars, setup, posted>>
    <3>1. WorkersInv'
      BY <1>1, <1>2, <1>3, <2>1, <2>3, WorkersSame DEF bootVars
    <3>2. PolicyInv'
      BY <1>1, <2>1, <2>3 DEF PolicyInv, RegistriesAllowed, RegistriesAsked
    <3> QED
      BY <1>1, <2>1, <2>3, <3>1, <3>2
  <2> QED
    BY <1>5, <2>2, <2>3 DEF UserSelects
<1>6. CASE Leave
  <2>1. /\ leaving # Nothing /\ leaving' = Nothing
        /\ UNCHANGED <<prompt, probe, policyFile, policyOn, aborted>>
    BY <1>6 DEF Leave
  <2>2. CASE SelectWorkspace(leaving)
    BY <1>1, <1>4, <2>1, <2>2, SelectKeeps
  <2>3. CASE UNCHANGED <<sel, netMode, svc, crossed, bootVars, setup, posted>>
    <3>1. WorkersInv'
      BY <1>1, <1>2, <1>4, <2>1, <2>3, WorkersSame DEF bootVars
    <3>2. PolicyInv'
      BY <1>1, <2>1, <2>3 DEF PolicyInv, RegistriesAllowed, RegistriesAsked
    <3> QED
      BY <1>1, <2>1, <2>3, <3>1, <3>2
  <2> QED
    BY <1>6, <2>2, <2>3 DEF Leave
<1>7. CASE UserRestarts
  <2>1. /\ prompt = NoPrompt /\ netMode' \in {netMode, "none"} /\ Restart
        /\ UNCHANGED <<sel, leaving, prompt, crossed, policyFile, policyOn, probe, aborted>>
    BY <1>7 DEF UserRestarts, Act
  <2>2. WorkersInv' /\ svc'.state # "closed" /\ setup'.ws = setup'.at
    <3>1. netMode' \in {"none", "registries"} /\ prompt'.what # "setup"
      BY <1>3, <1>4, <2>1
    <3> QED
      BY <1>1, <2>1, <3>1, RetryKeeps
  <2>3. PolicyInv'
    BY <1>1, <2>1 DEF PolicyInv, RegistriesAllowed, RegistriesAsked
  <2> QED
    BY <2>1, <2>2, <2>3
<1>8. ASSUME RunStartsOrEnds \/ HostChanges
      PROVE  WorkersInv' /\ PolicyInv' /\ setup'.ws = setup'.at /\ svc'.state # "closed"
             /\ UNCHANGED aborted
  <2>1. UNCHANGED <<sel, netMode, svc, leaving, prompt, crossed, boots, boot, session, live, policyOn,
                   setup, posted, probe, aborted>>
    BY <1>8 DEF RunStartsOrEnds, HostChanges, Act, uiVars, bootVars, policyVars
  <2>2. policyFile' \in [Folders -> {"closed", "open"}]
    BY <1>1, <1>8 DEF RunStartsOrEnds, HostChanges, policyVars, PolicyInv
  <2>3. WorkersInv'
    BY <1>1, <1>2, <2>1, WorkersSame
  <2>4. PolicyInv'
    BY <1>1, <2>1, <2>2 DEF PolicyInv, RegistriesAllowed, RegistriesAsked
  <2> QED
    BY <1>1, <2>1, <2>3, <2>4
<1>9. CASE UserDeclines
  <2>1. /\ prompt' = NoPrompt
        /\ UNCHANGED <<sel, netMode, svc, leaving, crossed, boots, boot, session, live, policyOn,
                       policyFile, setup, posted, probe, aborted>>
    BY <1>9 DEF UserDeclines, Answer, bootVars, policyVars
  <2>2. WorkersInv'
    BY <1>1, <1>2, <2>1, WorkersSame DEF NoPrompt, Nothing
  <2>3. PolicyInv'
    BY <1>1, <1>3, <2>1 DEF PolicyInv, RegistriesAllowed, RegistriesAsked, NoPrompt, Nothing
  <2> QED
    BY <1>1, <2>1, <2>2, <2>3
<1>10. ASSUME NEW what \in {"registries", "policy", "setup"}, UserAsks(what)
       PROVE  WorkersInv' /\ PolicyInv' /\ setup'.ws = setup'.at /\ svc'.state # "closed"
              /\ UNCHANGED aborted
  <2>1. /\ prompt' = [what |-> what, ws |-> sel,
                      policy |-> IF what = "policy" THEN policyFile[sel] ELSE Nothing]
        /\ MayAsk(what)
        /\ UNCHANGED <<sel, netMode, svc, leaving, crossed, boots, boot, session, live, policyOn,
                       policyFile, setup, posted, probe, aborted>>
    BY <1>10 DEF UserAsks, bootVars, policyVars
  <2>2. policyFile[sel] \in {"closed", "open"}
    BY <1>1 DEF PolicyInv
  <2>3. /\ prompt' \in [what : {"registries", "policy", "setup", Nothing},
                        ws : Folders \cup {Nothing}, policy : {"closed", "open", Nothing}]
        /\ prompt'.what = what
        /\ prompt'.what = "policy" => prompt'.policy # Nothing
    BY <1>4, <2>1, <2>2 DEF Nothing
  <2>4. WorkersInv'
    <3>1. what = "setup" => svc.state = "ready" /\ leaving = Nothing
      BY <2>1 DEF MayAsk, MayRequestSetup, WorkspaceReady
    <3> QED
      BY <1>1, <1>2, <2>1, <2>3, <3>1, WorkersSame
  <2>5. what = "registries" => policyOn[sel] = "open"
    BY <2>1 DEF MayAsk
  <2>6. PolicyInv'
    BY <1>1, <2>1, <2>3, <2>5 DEF PolicyInv, RegistriesAllowed, RegistriesAsked
  <2> QED
    BY <1>1, <2>1, <2>4, <2>6
<1>11. CASE AcceptRegistries
  <2>1. /\ prompt.what = "registries" /\ prompt' = NoPrompt /\ netMode' = "registries"
        /\ UNCHANGED <<sel, leaving, crossed, policyFile, policyOn, probe, aborted>>
        /\ UNCHANGED <<svc, boots, boot, session, live, setup, posted>> \/ Restart
    BY <1>11 DEF AcceptRegistries, Answer, bootVars
  <2>2. PolicyInv'
    BY <1>1, <1>3, <2>1 DEF PolicyInv, RegistriesAllowed, RegistriesAsked, NoPrompt, Nothing
  <2>3. prompt'.what # "setup" /\ netMode' \in {"none", "registries"}
    BY <2>1 DEF NoPrompt, Nothing
  <2>4. CASE Restart
    BY <1>1, <2>1, <2>2, <2>3, <2>4, RetryKeeps
  <2>5. CASE UNCHANGED <<svc, boots, boot, session, live, setup, posted>>
    <3>1. WorkersInv'
      BY <1>1, <1>2, <2>1, <2>3, <2>5, WorkersSame
    <3> QED
      BY <1>1, <2>1, <2>2, <2>5, <3>1
  <2> QED
    BY <2>1, <2>4, <2>5
<1>12. CASE AcceptPolicy
  <2>1. /\ prompt.what = "policy" /\ prompt' = NoPrompt
        /\ UNCHANGED <<sel, leaving, crossed, policyFile, probe, aborted>>
        /\ UNCHANGED <<svc, boots, boot, session, live, setup, posted>> \/ Restart
        /\ \/ UNCHANGED <<policyOn, netMode>>
           \/ /\ policyOn' = [policyOn EXCEPT ![sel] = prompt.policy]
              /\ netMode' = IF prompt.policy = "open" THEN netMode ELSE "none"
    BY <1>12 DEF AcceptPolicy, Answer, bootVars
  <2>2. /\ policyOn' \in [Folders -> {"closed", "open"}] /\ netMode' \in {"none", "registries"}
        /\ netMode' = "registries" => netMode = "registries"
        /\ netMode' = "registries" => policyOn' = policyOn \/ policyOn'[sel] = "open"
    <3>1. prompt.policy \in {"closed", "open"} /\ policyOn \in [Folders -> {"closed", "open"}]
      BY <1>1, <2>1 DEF PolicyInv, Nothing
    <3> QED
      BY <1>4, <2>1, <3>1
  <2>3. PolicyInv'
    BY <1>1, <1>3, <2>1, <2>2 DEF PolicyInv, RegistriesAllowed, RegistriesAsked, NoPrompt, Nothing
  <2>4. prompt'.what # "setup"
    BY <2>1 DEF NoPrompt, Nothing
  <2>5. CASE Restart
    BY <1>1, <2>1, <2>2, <2>3, <2>4, <2>5, RetryKeeps
  <2>6. CASE UNCHANGED <<svc, boots, boot, session, live, setup, posted>>
    <3>1. WorkersInv'
      BY <1>1, <1>2, <2>1, <2>4, <2>6, WorkersSame
    <3> QED
      BY <1>1, <2>1, <2>3, <2>6, <3>1
  <2> QED
    BY <2>1, <2>5, <2>6
<1>13. CASE AcceptSetup
  <2>1. /\ prompt.what = "setup" /\ prompt' = NoPrompt /\ setup' = RunSetup
        /\ UNCHANGED <<sel, netMode, svc, leaving, crossed, boots, boot, session, live, policyFile,
                       policyOn, posted, probe, aborted>>
    BY <1>13 DEF AcceptSetup, Answer, bootVars
  <2>2. setup'.ws = setup'.at
    <3>1. session # 0 => boots[session].ws = sel
      BY <1>1, <2>1 DEF WorkersInv, SetupOffered
    <3> QED
      BY <1>1, <2>1, <3>1 DEF RunSetup
  <2>3. WorkersInv'
    BY <1>1, <1>2, <2>1, WorkersSame DEF NoPrompt, Nothing
  <2>4. PolicyInv'
    BY <1>1, <1>3, <2>1 DEF PolicyInv, RegistriesAllowed, RegistriesAsked, NoPrompt, Nothing
  <2> QED
    BY <1>1, <2>1, <2>2, <2>3, <2>4
<1> QED
  BY <1>5, <1>6, <1>7, <1>8, <1>9, <1>10, <1>11, <1>12, <1>13 DEF User

\* __init__ and start: the saved workspace.
LEMMA AppStartsKeeps == ASSUME RuntimeInv, AppStarts PROVE RuntimeInv'
<1>1. /\ PolicyInv /\ WorkersInv /\ ~aborted /\ prompt = NoPrompt /\ aborted \in BOOLEAN
  BY RuntimeSplit DEF AppStarts, NothingYet
<1>2. /\ svc' = [state |-> "busy", target |-> sel, served |-> Nothing] /\ Ensure(sel, netMode)
      /\ UNCHANGED <<sel, netMode, leaving, prompt, crossed, policyFile, policyOn, probe, aborted>>
      /\ sel \in Folders /\ netMode \in {"none", "registries"}
  BY <1>1 DEF AppStarts, PolicyInv
<1>3. svc' \in [state : {"closed", "busy", "ready", "failed"}, target : Folders \cup {Nothing},
                served : Folders \cup {Nothing}]
      /\ svc'.target = sel /\ svc'.state = "busy"
  BY <1>2
<1>4. WorkersInv' /\ BootTypeOK' /\ setup' = NoSetup
  BY <1>1, <1>2, <1>3, RestartKeeps DEF NoPrompt, Nothing
<1>5. PolicyInv'
  BY <1>1, <1>2, PolicySame
<1>6. (svc.state # "closed" => NothingYet)'
  BY DEF NothingYet
<1>7. (BootTypeOK /\ PolicyInv /\ setup.ws = setup.at /\ NothingYet /\ aborted \in BOOLEAN
           /\ (~aborted => WorkersInv) => RuntimeInv)'
  BY RuntimeSplit, PTL
<1> QED
  BY <1>1, <1>2, <1>3, <1>4, <1>5, <1>6, <1>7 DEF NoSetup

LEMMA RuntimeKeeps == RuntimeInv /\ [RuntimeNext]_runtimeVars => RuntimeInv'
<1> SUFFICES ASSUME RuntimeInv, [RuntimeNext]_runtimeVars PROVE RuntimeInv'
  OBVIOUS
<1>1. BootTypeOK /\ NothingYet /\ setup.ws = setup.at
  BY RuntimeSplit
<1>2. CASE UNCHANGED runtimeVars
  BY <1>2 DEF runtimeVars, uiVars, bootVars, policyVars, RuntimeInv, RuntimeTypeOK, BootTypeOK,
              RegistriesAllowed, RegistriesAsked, NothingYet, OneBoot, Over, ReadyWhileBusy,
              SessionAtTarget, SetupOffered
<1>3. ASSUME ~aborted,
             \/ \E b \in DOMAIN boots : BootStep(b) \/ BootFails(b)
             \/ Deliver \/ ProbeArrives \/ SetupEnds \/ ContainersDie
      PROVE  RuntimeInv'
  <2>1. svc.state # "closed"
    <3> SUFFICES ASSUME svc.state = "closed" PROVE FALSE
      OBVIOUS
    <3>1. boots = <<>> /\ posted = <<>> /\ live = 0 /\ ~probe.out /\ setup = NoSetup
      BY <1>1 DEF NothingYet
    <3>2. DOMAIN boots = {}
      BY <3>1
    <3> QED
      BY <1>3, <3>1, <3>2 DEF Deliver, ProbeArrives, SetupEnds, ContainersDie
  <2> QED
    BY <1>3, <2>1, MachineKeeps
<1>4. CASE Machine
  BY <1>3, <1>4 DEF Machine, Booting
<1>5. CASE Faults
  BY <1>3, <1>5 DEF Faults
<1>6. CASE Poll
  BY <1>6, MachineKeeps DEF Poll
<1> QED
  BY <1>2, <1>4, <1>5, <1>6, AppStartsKeeps, UserKeeps DEF RuntimeNext

LEMMA RuntimeHolds == RuntimeSpec => []RuntimeInv
  BY RuntimeStarts, RuntimeKeeps, PTL DEF RuntimeSpec

\* What a policy allows stays with its workspace, and a setup runs in the
\* volumes of the workspace whose manifests it is given, whatever is selected,
\* asked or becomes ready late (RuntimeService, RuntimeManager, PolicyService).
THEOREM RuntimeStaysHome == RuntimeSpec => []RuntimeAtHome
<1>1. RuntimeInv => RuntimeAtHome
  BY DEF RuntimeInv, RuntimeAtHome, SetupAtHome
<1> QED
  BY <1>1, RuntimeHolds, PTL

(***************************************************************************)
(* Review                                                                  *)
(***************************************************************************)

Contents == [PaneFiles -> {0, 1}]
Batch == UNION {[S -> {0, 1}] : S \in SUBSET PaneFiles}

ReviewTypeOK ==
    /\ stagedFiles \in Contents /\ basis \in Contents
    /\ agent \in {"none", "asks", "auto"}
    /\ command \in {1, 2}
    /\ result \in [ok : BOOLEAN, fingerprint : Contents \cup {<<>>}, command : {0, 1, 2}]
    /\ check \in [at : {"none", "sent", "begun", "run", "done"}, before : Contents \cup {<<>>},
                  ran : Contents \cup {<<>>}, command : {0, 1, 2}]
    /\ check.at \in {"begun", "run"} => check.before \in Contents
    /\ check.at = "run" => check.ran \in Contents
    /\ pub \in [at : {"none", "verify", "write"}, auto : BOOLEAN, files : Batch \cup {<<>>},
                raced : BOOLEAN]

\* An Auto publication that was not raced has no check beside it, and its
\* manifest is what is staged, until it is verified; then the recorded result
\* is about that manifest.
AutoUnraced ==
    pub.at # "none" /\ pub.auto /\ ~pub.raced =>
        /\ check.at = "none"
        /\ pub.at = "verify" => \A f \in DOMAIN pub.files : pub.files[f] = stagedFiles[f]

\* Only an Auto publication is verified, and not an empty one.
AutoManifest ==
    /\ pub.at = "verify" => pub.auto /\ DOMAIN pub.files # {}
    /\ pub.at # "none" => pub.files \in Batch

\* A publish request never asks for a file that was pending and not chosen.
ChoiceKept ==
    /\ ask.at \in {"sent", "confirm"} => ask.paths \cap ask.seen \subseteq ask.chosen
    /\ ask.at = "confirm" => ask.files \subseteq ask.paths
    /\ ask.files \subseteq PaneFiles

ReviewInv ==
    ReviewTypeOK /\ AutoUnraced /\ AutoManifest /\ ChoiceKept /\ AutoIsVerifiedUnlessRaced

\* The check and the publication as they are kept: what a step on one of them
\* has to keep.
PubType ==
    pub \in [at : {"none", "verify", "write"}, auto : BOOLEAN, files : Batch \cup {<<>>},
            raced : BOOLEAN]
CheckType ==
    /\ check \in [at : {"none", "sent", "begun", "run", "done"}, before : Contents \cup {<<>>},
                  ran : Contents \cup {<<>>}, command : {0, 1, 2}]
    /\ check.at \in {"begun", "run"} => check.before \in Contents
    /\ check.at = "run" => check.ran \in Contents
ResultType ==
    result \in [ok : BOOLEAN, fingerprint : Contents \cup {<<>>}, command : {0, 1, 2}]

\* What Auto is held to: with its manifest, the check and the recorded result.
AutoInv == PubType /\ AutoUnraced /\ AutoManifest /\ AutoIsVerifiedUnlessRaced

LEMMA ReviewSplit ==
    ReviewInv <=>
        /\ stagedFiles \in Contents /\ basis \in Contents
        /\ agent \in {"none", "asks", "auto"} /\ command \in {1, 2}
        /\ ResultType /\ CheckType /\ AutoInv /\ ChoiceKept
  BY DEF ReviewInv, ReviewTypeOK, PubType, CheckType, ResultType, AutoInv

LEMMA ReviewStarts == ReviewInit => ReviewInv
<1> SUFFICES ASSUME ReviewInit PROVE ReviewInv
  OBVIOUS
<1>1. /\ stagedFiles \in Contents /\ basis \in Contents /\ agent = "none" /\ command = 1
      /\ result = NoResult /\ check = NoCheck /\ ask = NoAsk /\ pub = NoPub
  BY DEF ReviewInit, Contents
<1>2. ResultType /\ CheckType /\ PubType
  BY <1>1 DEF ResultType, CheckType, PubType, NoResult, NoCheck, NoPub
<1>3. AutoUnraced /\ AutoManifest /\ AutoIsVerifiedUnlessRaced
  BY <1>1 DEF AutoUnraced, AutoManifest, AutoIsVerifiedUnlessRaced, NoPub
<1>4. ChoiceKept
  BY <1>1 DEF ChoiceKept, NoAsk
<1> QED
  BY <1>1, <1>2, <1>3, <1>4, ReviewSplit DEF AutoInv

\* Staging is changed: the publication is raced by it, or nothing changed.
LEMMA RacingKeeps ==
    ASSUME AutoInv, Racing(stagedFiles'),
           \/ UNCHANGED <<result, check>>
           \/ check.at # "none"
    PROVE  AutoInv'
<1>1. pub' = [pub EXCEPT !.raced = \/ @
                                 \/ /\ stagedFiles' # stagedFiles
                                    /\ pub.at # "none" \/ check.at # "none"]
  BY DEF Racing
<1>2. PubType /\ AutoUnraced /\ AutoManifest /\ AutoIsVerifiedUnlessRaced
  BY DEF AutoInv
<1>3. /\ PubType' /\ pub'.at = pub.at /\ pub'.auto = pub.auto /\ pub'.files = pub.files
      /\ ~pub'.raced => ~pub.raced
      /\ ~pub'.raced /\ pub.at # "none" => stagedFiles' = stagedFiles
  BY <1>1, <1>2 DEF PubType
<1>4. AutoManifest'
  BY <1>2, <1>3 DEF AutoManifest
<1>5. ASSUME pub'.at # "none", pub'.auto, ~pub'.raced
      PROVE  check.at = "none" /\ UNCHANGED <<result, check, stagedFiles>>
  BY <1>2, <1>3, <1>5 DEF AutoUnraced
<1>6. AutoUnraced'
  BY <1>2, <1>3, <1>5 DEF AutoUnraced
<1>7. AutoIsVerifiedUnlessRaced'
  BY <1>2, <1>3, <1>5 DEF AutoIsVerifiedUnlessRaced
<1> QED
  BY <1>3, <1>4, <1>6, <1>7 DEF AutoInv

\* What Auto is held to does not change; the check may only go on.
LEMMA AutoSame ==
    ASSUME AutoInv, UNCHANGED <<pub, result, stagedFiles>>,
           check.at = "none" => check'.at = "none" \/ pub.at = "none"
    PROVE  AutoInv'
<1>1. PubType' /\ AutoManifest' /\ AutoIsVerifiedUnlessRaced'
  BY DEF AutoInv, PubType, AutoManifest, AutoIsVerifiedUnlessRaced
<1>2. AutoUnraced'
  BY DEF AutoInv, AutoUnraced
<1> QED
  BY <1>1, <1>2 DEF AutoInv

LEMMA BatchOf ==
    ASSUME stagedFiles \in Contents, NEW S \in SUBSET PaneFiles
    PROVE  /\ [f \in S |-> stagedFiles[f]] \in Batch
           /\ DOMAIN [f \in S |-> stagedFiles[f]] = S
  BY DEF Batch, Contents

\* A run of Auto ends, and its manifest is what is staged.
LEMMA AgentFinishesKeeps ==
    ASSUME ReviewInv, AgentFinishes
    PROVE  AutoInv' /\ agent' = "none"
<1>1. AutoInv /\ stagedFiles \in Contents
  BY ReviewSplit
<1>2. agent' = "none" /\ UNCHANGED <<stagedFiles, result, check>>
  BY DEF AgentFinishes
<1> DEFINE batch == [f \in Unpublished |-> stagedFiles[f]]
           started == [at |-> "verify", auto |-> TRUE, raced |-> check.at # "none", files |-> batch]
<1>3. pub' = pub \/ (pub' = started /\ Unpublished # {})
  BY DEF AgentFinishes
<1>4. CASE pub' = pub
  BY <1>1, <1>2, <1>4, AutoSame
<1>5. CASE pub' = started /\ Unpublished # {}
  <2>1. batch \in Batch /\ DOMAIN batch = Unpublished /\ \A f \in Unpublished : batch[f] = stagedFiles[f]
    BY <1>1, BatchOf DEF Unpublished
  <2> HIDE DEF batch
  <2>2. /\ pub'.at = "verify" /\ pub'.auto = TRUE /\ pub'.files = batch
        /\ ~pub'.raced => check.at = "none"
        /\ PubType'
    <3>1. CASE check.at = "none"
      BY <1>5, <2>1, <3>1 DEF PubType
    <3>2. CASE check.at # "none"
      <4>1. pub' = [at |-> "verify", auto |-> TRUE, raced |-> TRUE, files |-> batch]
        BY <1>5, <3>2
      <4> QED
        BY <4>1, <2>1 DEF PubType
    <3> QED
      BY <3>1, <3>2
  <2>3. AutoManifest' /\ AutoIsVerifiedUnlessRaced'
    BY <1>5, <2>1, <2>2 DEF AutoManifest, AutoIsVerifiedUnlessRaced
  <2>4. AutoUnraced'
    <3>1. \A f \in DOMAIN pub'.files : pub'.files[f] = stagedFiles'[f]
      BY <1>2, <2>1, <2>2
    <3>2. ~pub'.raced => check'.at = "none"
      BY <1>2, <2>2
    <3> QED
      BY <3>1, <3>2 DEF AutoUnraced
  <2> QED
    BY <1>2, <2>2, <2>3, <2>4 DEF AutoInv
<1> QED
  BY <1>2, <1>3, <1>4, <1>5

\* The publication passes _verify_checks: the result is about the snapshot its
\* manifest was taken from.
LEMMA VerifyKeeps ==
    ASSUME ReviewInv, VerifyChecks
    PROVE  AutoInv'
<1>1. AutoInv /\ stagedFiles \in Contents
  BY ReviewSplit
<1>2. PubType /\ AutoUnraced /\ AutoManifest
  BY <1>1 DEF AutoInv
<1>3. pub.at = "verify" /\ UNCHANGED <<stagedFiles, result, check>>
      /\ pub' = IF result.ok /\ Current THEN [pub EXCEPT !.at = "write"] ELSE NoPub
  BY DEF VerifyChecks
<1>4. CASE result.ok /\ Current
  <2>1. pub' = [pub EXCEPT !.at = "write"]
    BY <1>3, <1>4
  <2>2. PubType' /\ pub'.at = "write" /\ pub'.auto = pub.auto /\ pub'.raced = pub.raced
        /\ pub'.files = pub.files
    BY <1>2, <2>1 DEF PubType
  <2>3. AutoManifest' /\ AutoUnraced'
    BY <1>2, <1>3, <2>2 DEF AutoManifest, AutoUnraced
  <2>4. AutoIsVerifiedUnlessRaced'
    <3> SUFFICES ASSUME ~pub.raced
                 PROVE  /\ result.ok /\ result.fingerprint # <<>>
                        /\ \A f \in DOMAIN pub.files : result.fingerprint[f] = pub.files[f]
      BY <1>3, <2>2 DEF AutoIsVerifiedUnlessRaced
    <3>1. result.ok /\ result.fingerprint = stagedFiles
      BY <1>4 DEF Current, Fingerprint
    <3>2. \A f \in DOMAIN pub.files : pub.files[f] = stagedFiles[f]
      BY <1>2, <1>3 DEF AutoUnraced, AutoManifest
    <3>3. DOMAIN stagedFiles # {}
      <4>1. PICK S \in SUBSET PaneFiles : pub.files \in [S -> {0, 1}]
        BY <1>2, <1>3 DEF AutoManifest, Batch
      <4> QED
        BY <1>1, <1>2, <1>3, <4>1 DEF AutoManifest, Contents
    <3>4. stagedFiles # <<>>
      BY <3>3
    <3> QED
      BY <3>1, <3>2, <3>4
  <2> QED
    BY <2>2, <2>3, <2>4 DEF AutoInv
<1>5. CASE ~(result.ok /\ Current)
  <2>1. pub' = NoPub
    BY <1>3, <1>5
  <2> QED
    BY <2>1 DEF AutoInv, PubType, AutoManifest, AutoUnraced, AutoIsVerifiedUnlessRaced, NoPub
<1> QED
  BY <1>4, <1>5

\* The steps of the worker threads and the gateway.
LEMMA WorkersStepKeeps ==
    ASSUME ReviewInv, WorkersStep
    PROVE  ReviewInv'
<1>1. /\ stagedFiles \in Contents /\ basis \in Contents
      /\ agent \in {"none", "asks", "auto"} /\ command \in {1, 2}
      /\ ResultType /\ CheckType /\ AutoInv /\ ChoiceKept
  BY ReviewSplit
<1>2. PubType /\ AutoUnraced /\ AutoManifest
  BY <1>1 DEF AutoInv
<1> DEFINE Rest ==
        /\ stagedFiles \in Contents /\ basis \in Contents
        /\ agent \in {"none", "asks", "auto"} /\ command \in {1, 2}
        /\ ResultType /\ CheckType /\ ChoiceKept
<1> SUFFICES AutoInv' /\ Rest'
  <2>1. (AutoInv /\ Rest => ReviewInv)'
    BY ReviewSplit, PTL
  <2> QED
    BY <2>1
<1>3. Rest
  BY <1>1
<1>4. ASSUME OnReviewed \/ DiscardFinished \/ \E ok \in BOOLEAN : ReviewAnswers(ok)
      PROVE  AutoInv' /\ Rest'
  <2>1. UNCHANGED <<stagedFiles, basis, agent, command, result, check, ask, pub>>
    BY <1>4 DEF OnReviewed, DiscardFinished, ReviewAnswers
  <2>2. AutoInv'
    BY <1>1, <2>1, AutoSame
  <2> QED
    BY <1>3, <2>1, <2>2 DEF ResultType, CheckType, ChoiceKept
<1>5. CASE PublicationAnswers
  <2>1. /\ UNCHANGED <<stagedFiles, basis, agent, command, result, check, pub>>
        /\ ask.at = "sent"
        /\ \/ ask' = NoAsk
           \/ ask' = [ask EXCEPT !.at = "confirm", !.files = Unpublished \cap ask.paths]
    BY <1>5 DEF PublicationAnswers
  <2>2. AutoInv'
    BY <1>1, <2>1, AutoSame
  <2>3. ChoiceKept'
    <3>1. CASE ask' = NoAsk
      BY <3>1 DEF ChoiceKept, NoAsk
    <3>2. CASE ask' = [ask EXCEPT !.at = "confirm", !.files = Unpublished \cap ask.paths]
      BY <1>1, <2>1, <3>2 DEF ChoiceKept, Unpublished
    <3> QED
      BY <2>1, <3>1, <3>2
  <2> QED
    BY <1>3, <2>1, <2>2, <2>3 DEF ResultType, CheckType
<1>6. CASE CheckBegins \/ CheckRuns \/ CheckFinished
  <2>1. /\ UNCHANGED <<stagedFiles, basis, agent, command, result, ask, pub>>
        /\ check.at # "none"
    BY <1>6 DEF CheckBegins, CheckRuns, CheckFinished
  <2>2. AutoInv'
    BY <1>1, <2>1, AutoSame
  <2>3. CheckType'
    <3>1. CASE CheckBegins
      <4>1. CASE check' = [check EXCEPT !.at = "done"]
        BY <1>1, <4>1 DEF CheckType
      <4>2. CASE check' = [at |-> "begun", before |-> stagedFiles, ran |-> <<>>, command |-> command]
        BY <1>1, <4>2 DEF CheckType
      <4> QED
        BY <3>1, <4>1, <4>2 DEF CheckBegins, Fingerprint
    <3>2. CASE CheckRuns
      <4>1. check.at = "begun" /\ check' = [check EXCEPT !.at = "run", !.ran = stagedFiles]
        BY <3>2 DEF CheckRuns
      <4> QED
        BY <1>1, <4>1 DEF CheckType
    <3>3. CASE CheckFinished
      <4>1. check' = NoCheck
        BY <3>3 DEF CheckFinished
      <4> QED
        BY <4>1 DEF CheckType, NoCheck
    <3> QED
      BY <1>6, <3>1, <3>2, <3>3
  <2> QED
    BY <1>3, <2>1, <2>2, <2>3 DEF ResultType, ChoiceKept
<1>7. ASSUME NEW outcome \in {"passed", "failed", "error"}, CheckEnds(outcome)
      PROVE  AutoInv' /\ Rest'
  <2>1. /\ check.at = "run" /\ check' = [check EXCEPT !.at = "done"]
        /\ UNCHANGED <<basis, agent, command, ask>>
        /\ \/ UNCHANGED <<stagedFiles, result, pub>>
           \/ /\ stagedFiles' = check.ran /\ Racing(stagedFiles')
              /\ result' = Recorded(outcome = "passed")
    BY <1>7 DEF CheckEnds
  <2>2. CheckType' /\ check'.at = "done" /\ check.ran \in Contents /\ check.before \in Contents
        /\ check.command \in {0, 1, 2}
    BY <1>1, <2>1 DEF CheckType
  <2>3. CASE UNCHANGED <<stagedFiles, result, pub>>
    <3>1. AutoInv'
      BY <1>1, <2>1, <2>3, AutoSame
    <3> QED
      BY <1>3, <2>1, <2>2, <2>3, <3>1 DEF ResultType, ChoiceKept
  <2>4. CASE /\ stagedFiles' = check.ran /\ Racing(stagedFiles')
             /\ result' = Recorded(outcome = "passed")
    <3>1. ResultType'
      <4>1. CASE outcome = "passed"
        <5>1. result' = [ok |-> TRUE, fingerprint |-> check.before, command |-> check.command]
          BY <2>4, <4>1 DEF Recorded
        <5> QED
          BY <2>2, <5>1 DEF ResultType
      <4>2. CASE outcome # "passed"
        <5>1. result' = [ok |-> FALSE, fingerprint |-> check.before, command |-> check.command]
          BY <2>4, <4>2 DEF Recorded
        <5> QED
          BY <2>2, <5>1 DEF ResultType
      <4> QED
        BY <4>1, <4>2
    <3>2. AutoInv'
      BY <1>1, <2>1, <2>4, RacingKeeps
    <3> QED
      BY <1>3, <2>1, <2>2, <2>4, <3>1, <3>2 DEF ChoiceKept
  <2> QED
    BY <2>1, <2>3, <2>4
<1>8. ASSUME NEW ok \in BOOLEAN, DiscardAnswers(ok)
      PROVE  AutoInv' /\ Rest'
  <2>1. /\ stagedFiles' \in {basis, stagedFiles} /\ Racing(stagedFiles')
        /\ UNCHANGED <<basis, agent, command, result, check, ask>>
    BY <1>8 DEF DiscardAnswers
  <2>2. AutoInv'
    BY <1>1, <2>1, RacingKeeps
  <2> QED
    BY <1>3, <2>1, <2>2 DEF ResultType, CheckType, ChoiceKept
<1>9. CASE VerifyChecks
  <2>1. UNCHANGED <<stagedFiles, basis, agent, command, result, check, ask>>
    BY <1>9 DEF VerifyChecks
  <2>2. AutoInv'
    BY <1>9, VerifyKeeps
  <2> QED
    BY <1>3, <2>1, <2>2 DEF ResultType, CheckType, ChoiceKept
<1>10. ASSUME NEW ok \in BOOLEAN, PublicationDone(ok)
       PROVE  AutoInv' /\ Rest'
  <2>1. /\ pub.at = "write" /\ pub' = NoPub
        /\ UNCHANGED <<stagedFiles, agent, command, result, check, ask>>
        /\ \/ basis' = basis
           \/ basis' = [f \in PaneFiles |-> IF f \in DOMAIN pub.files THEN pub.files[f]
                                           ELSE basis[f]]
    BY <1>10 DEF PublicationDone
  <2>2. AutoInv'
    BY <2>1 DEF AutoInv, PubType, AutoManifest, AutoUnraced, AutoIsVerifiedUnlessRaced, NoPub
  <2>3. basis' \in Contents
    <3>1. PICK S \in SUBSET PaneFiles : pub.files \in [S -> {0, 1}]
      BY <1>2, <2>1 DEF AutoManifest, Batch
    <3>2. \A f \in DOMAIN pub.files : pub.files[f] \in {0, 1}
      BY <3>1
    <3> QED
      BY <1>1, <2>1, <3>2 DEF Contents
  <2> QED
    BY <1>3, <2>1, <2>2, <2>3 DEF ResultType, CheckType, ChoiceKept
<1> HIDE DEF Rest
<1> QED
  BY <1>4, <1>5, <1>6, <1>7, <1>8, <1>9, <1>10 DEF WorkersStep

\* The user's clicks, the agent and the policy.
LEMMA ReviewKeeps == ReviewInv /\ [ReviewNext]_reviewVars => ReviewInv'
<1> SUFFICES ASSUME ReviewInv, [ReviewNext]_reviewVars PROVE ReviewInv'
  OBVIOUS
<1>1. /\ stagedFiles \in Contents /\ basis \in Contents
      /\ agent \in {"none", "asks", "auto"} /\ command \in {1, 2}
      /\ ResultType /\ CheckType /\ AutoInv /\ ChoiceKept
  BY ReviewSplit
<1> DEFINE Rest ==
        /\ stagedFiles \in Contents /\ basis \in Contents
        /\ agent \in {"none", "asks", "auto"} /\ command \in {1, 2}
        /\ ResultType /\ CheckType /\ ChoiceKept
<1>2. (AutoInv /\ Rest => ReviewInv)'
  BY ReviewSplit, PTL
<1>3. ASSUME \/ OpenReview \/ PaneClick \/ RequestDiscard \/ PolicyConfirmed
             \/ UNCHANGED reviewVars
             \/ \E kind \in {"asks", "auto"} : AgentStarts(kind)
             \/ \E accept \in BOOLEAN : ResolveDiscard(accept)
      PROVE  AutoInv' /\ Rest'
  <2>1. /\ UNCHANGED <<stagedFiles, basis, result, check, ask, pub>>
        /\ agent' \in {"none", "asks", "auto"} /\ command' \in {1, 2}
    BY <1>1, <1>3 DEF OpenReview, PaneClick, OnPane, RequestDiscard, PolicyConfirmed, AgentStarts,
                      ResolveDiscard, reviewVars
  <2>2. AutoInv'
    BY <1>1, <2>1, AutoSame
  <2>3. ResultType' /\ CheckType' /\ ChoiceKept'
    BY <1>1, <2>1 DEF ResultType, CheckType, ChoiceKept
  <2> QED
    BY <1>1, <1>2, <2>1, <2>2, <2>3
<1>4. CASE AgentFinishes
  <2>1. UNCHANGED <<stagedFiles, basis, command, result, check, ask>>
    BY <1>4 DEF AgentFinishes
  <2>2. AutoInv' /\ agent' = "none"
    BY <1>4, AgentFinishesKeeps
  <2>3. ResultType' /\ CheckType' /\ ChoiceKept'
    BY <1>1, <2>1 DEF ResultType, CheckType, ChoiceKept
  <2> QED
    BY <1>1, <1>2, <2>1, <2>2, <2>3
<1>5. ASSUME NEW f \in PaneFiles, NEW content \in {0, 1}, AgentEdits(f, content)
      PROVE  AutoInv' /\ Rest'
  <2>1. /\ stagedFiles' = [stagedFiles EXCEPT ![f] = content] /\ Racing(stagedFiles')
        /\ UNCHANGED <<basis, agent, command, result, check, ask>>
    BY <1>5 DEF AgentEdits
  <2>2. AutoInv'
    BY <1>1, <2>1, RacingKeeps
  <2>3. stagedFiles' \in Contents
    BY <1>1, <2>1 DEF Contents
  <2>4. ResultType' /\ CheckType' /\ ChoiceKept'
    BY <1>1, <2>1 DEF ResultType, CheckType, ChoiceKept
  <2> QED
    BY <1>1, <1>2, <2>1, <2>2, <2>3, <2>4
<1>6. CASE PublishSelection
  <2> DEFINE chosen == pane.selected \cap pane.listed
  <2>1. /\ UNCHANGED <<stagedFiles, basis, agent, command, result, check, pub>>
        /\ ask' = [at |-> "sent", paths |-> PathsOf(chosen), chosen |-> chosen,
                  seen |-> pane.pending, files |-> {}]
    BY <1>6 DEF PublishSelection, paneVars
  <2>2. AutoInv'
    BY <1>1, <2>1, AutoSame
  <2>3. ChoiceKept'
    BY <2>1 DEF ChoiceKept, PathsOf
  <2>4. ResultType' /\ CheckType'
    BY <1>1, <2>1 DEF ResultType, CheckType
  <2> QED
    BY <1>1, <1>2, <2>1, <2>2, <2>3, <2>4
<1>7. CASE RunCheck
  <2>1. /\ UNCHANGED <<stagedFiles, basis, agent, command, result, ask, pub>>
        /\ pub.at = "none" /\ check' = [NoCheck EXCEPT !.at = "sent"]
    BY <1>7 DEF RunCheck, PaneBusy
  <2>2. AutoInv'
    BY <1>1, <2>1, AutoSame
  <2>3. CheckType'
    BY <2>1 DEF CheckType, NoCheck
  <2>4. ResultType' /\ ChoiceKept'
    BY <1>1, <2>1 DEF ResultType, ChoiceKept
  <2> QED
    BY <1>1, <1>2, <2>1, <2>2, <2>3, <2>4
<1>8. ASSUME NEW accept \in BOOLEAN, Confirmed(accept)
      PROVE  AutoInv' /\ Rest'
  <2> DEFINE batch == [f \in ask.files |-> stagedFiles[f]]
  <2>1. /\ UNCHANGED <<stagedFiles, basis, agent, command, result, check>>
        /\ ask' = NoAsk
        /\ \/ pub' = pub
           \/ pub' = [at |-> "write", auto |-> FALSE, files |-> batch, raced |-> FALSE]
    BY <1>8 DEF Confirmed
  <2>2. AutoInv'
    <3>1. CASE pub' = pub
      BY <1>1, <2>1, <3>1, AutoSame
    <3>2. CASE pub' = [at |-> "write", auto |-> FALSE, files |-> batch, raced |-> FALSE]
      <4>1. batch \in Batch
        BY <1>1, BatchOf DEF ChoiceKept
      <4> HIDE DEF batch
      <4> QED
        BY <3>2, <4>1
           DEF AutoInv, PubType, AutoManifest, AutoUnraced, AutoIsVerifiedUnlessRaced
    <3> QED
      BY <2>1, <3>1, <3>2
  <2>3. ChoiceKept'
    BY <2>1 DEF ChoiceKept, NoAsk
  <2>4. ResultType' /\ CheckType'
    BY <1>1, <2>1 DEF ResultType, CheckType
  <2> QED
    BY <1>1, <1>2, <2>1, <2>2, <2>3, <2>4
<1> HIDE DEF Rest
<1> QED
  BY <1>2, <1>3, <1>4, <1>5, <1>6, <1>7, <1>8, WorkersStepKeeps DEF ReviewNext

LEMMA ReviewHolds == ReviewSpec => []ReviewInv
  BY ReviewStarts, ReviewKeeps, PTL DEF ReviewSpec

\* Nothing is published past the user's word: an Auto publication writes what
\* the required check passed on (_verify_checks), unless staging was changed
\* beside it, and "Publish selected" asks for no pending file the user left
\* out (publish_selection), whatever reviews arrive meanwhile.
THEOREM NothingUnreviewed == ReviewSpec => []OnlyReviewedIsPublished
<1>1. ReviewInv => OnlyReviewedIsPublished
  BY DEF ReviewInv, OnlyReviewedIsPublished, OnlyChosenIsAsked, ChoiceKept
<1> QED
  BY <1>1, ReviewHolds, PTL

(***************************************************************************)
(* Conversations: walks.                                                   *)
(***************************************************************************)
LEMMA LeastExists ==
    ASSUME NEW S, S \subseteq Nat, S # {}
    PROVE  Min(S) \in S /\ \A x \in S : Min(S) <= x
<1> DEFINE R == {p \in Nat \X Nat : p[1] < p[2]}
<1>1. IsWellFoundedOn(OpToRel(<, Nat), Nat)
  BY NatLessThanWellFounded
<1>2. OpToRel(<, Nat) = R
  BY DEF OpToRel
<1>3. IsWellFoundedOn(R, Nat)
  BY <1>1, <1>2
<1>4. PICK x \in S : \A y \in S : ~(<<y, x>> \in R)
  <2> HIDE DEF R
  <2> QED BY <1>3, WFMin
<1>5. ASSUME NEW y \in S PROVE x <= y
  <2>1. x \in Nat /\ y \in Nat
    OBVIOUS
  <2>2. y < x => <<y, x>> \in R
    BY <2>1
  <2> QED BY <1>4, <2>1, <2>2
<1> QED BY <1>5 DEF Min

LEMMA AllNaturals ==
    ASSUME NEW S, S \subseteq Nat, 0 \in S, \A n \in S : n + 1 \in S
    PROVE  S = Nat
<1> SUFFICES ASSUME Nat \ S # {} PROVE FALSE
  OBVIOUS
<1> DEFINE m == Min(Nat \ S)
<1>1. m \in Nat /\ m \notin S /\ \A n \in Nat \ S : m <= n
  BY LeastExists
<1> HIDE DEF m
<1>2. m # 0 /\ m - 1 \in Nat
  BY <1>1
<1>3. m - 1 \in S
  BY <1>1, <1>2
<1>4. (m - 1) + 1 = m
  BY <1>1
<1> QED BY <1>1, <1>3, <1>4

Iterates(S, x, g, f) == f \in [Nat -> S] /\ f[0] = x /\ \A n \in Nat : f[n + 1] = g[n][f[n]]

\* What is defined step by step exists.
LEMMA IterationExists ==
    ASSUME NEW S, NEW x, x \in S, NEW g, g \in [Nat -> [S -> S]]
    PROVE  \E f : Iterates(S, x, g, f)
<1> DEFINE Approx(n, h) ==
              h \in [0..n -> S] /\ h[0] = x /\ \A k \in 0..n : k < n => h[k + 1] = g[k][h[k]]
<1>1. \A n \in Nat : \E h : Approx(n, h)
  <2> DEFINE N == {n \in Nat : \E h : Approx(n, h)}
  <2>1. 0 \in N
    <3> DEFINE h == [k \in 0..0 |-> x]
    <3>1. h \in [0..0 -> S] /\ h[0] = x /\ \A k \in 0..0 : ~(k < 0)
      OBVIOUS
    <3>2. Approx(0, h)
      BY <3>1
    <3> QED BY <3>2
  <2>2. ASSUME NEW n \in N PROVE n + 1 \in N
    <3>1. n \in Nat
      OBVIOUS
    <3>2. PICK h : Approx(n, h)
      OBVIOUS
    <3> DEFINE i == [k \in 0..(n + 1) |-> IF k <= n THEN h[k] ELSE g[n][h[n]]]
    <3>3. h[n] \in S /\ g[n] \in [S -> S] /\ g[n][h[n]] \in S
      BY <3>1, <3>2
    <3>4. i \in [0..(n + 1) -> S]
      <4>1. ASSUME NEW k \in 0..(n + 1), k <= n PROVE h[k] \in S
        <5>1. k \in 0..n
          BY <3>1, <4>1
        <5> QED BY <3>2, <5>1
      <4> QED BY <3>3, <4>1
    <3>5. i[0] = x
      BY <3>1, <3>2
    <3>6. ASSUME NEW k \in 0..(n + 1), k < n + 1 PROVE i[k + 1] = g[k][i[k]]
      <4>1. k \in 0..n /\ i[k] = h[k] /\ k + 1 \in 0..(n + 1)
        BY <3>1, <3>6
      <4>2. CASE k = n
        <5>1. i[k + 1] = g[n][h[n]]
          BY <3>1, <4>1, <4>2
        <5> QED BY <4>1, <4>2, <5>1
      <4>3. CASE k # n
        <5>1. k < n /\ k + 1 <= n
          BY <3>1, <4>1, <4>3
        <5>2. i[k + 1] = h[k + 1]
          BY <4>1, <5>1
        <5>3. h[k + 1] = g[k][h[k]]
          BY <3>2, <4>1, <5>1
        <5> HIDE DEF i
        <5> QED BY <4>1, <5>2, <5>3
      <4> QED BY <4>2, <4>3
    <3> HIDE DEF i
    <3>7. Approx(n + 1, i)
      BY <3>4, <3>5, <3>6
    <3> HIDE DEF Approx
    <3> QED BY <3>1, <3>7
  <2> HIDE DEF Approx
  <2>3. N = Nat
    <3>1. N \subseteq Nat
      OBVIOUS
    <3> HIDE DEF N
    <3> QED BY <2>1, <2>2, <3>1, AllNaturals
  <2> QED BY <2>3
<1>2. ASSUME NEW n \in Nat, NEW m \in Nat, n <= m, NEW h, NEW i, Approx(n, h), Approx(m, i)
      PROVE  \A k \in 0..n : h[k] = i[k]
  <2> DEFINE N == {k \in Nat : k <= n => h[k] = i[k]}
  <2>1. 0 \in N
    BY <1>2
  <2>2. ASSUME NEW k \in N PROVE k + 1 \in N
    <3> SUFFICES ASSUME k + 1 <= n PROVE h[k + 1] = i[k + 1]
      OBVIOUS
    <3>1. k \in Nat /\ k \in 0..n /\ k \in 0..m /\ k < n /\ k < m
      BY <1>2
    <3>2. h[k] = i[k]
      BY <3>1
    <3>3. h[k + 1] = g[k][h[k]] /\ i[k + 1] = g[k][i[k]]
      BY <1>2, <3>1
    <3> QED BY <3>2, <3>3
  <2>3. N = Nat
    <3>1. N \subseteq Nat
      OBVIOUS
    <3> HIDE DEF N
    <3> QED BY <2>1, <2>2, <3>1, AllNaturals
  <2> QED BY <2>3
<1> DEFINE a(n) == CHOOSE h : Approx(n, h)
           f == [n \in Nat |-> a(n)[n]]
<1>3. \A n \in Nat : Approx(n, a(n))
  BY <1>1
<1> HIDE DEF a
<1>4. f \in [Nat -> S]
  <2>1. ASSUME NEW n \in Nat PROVE a(n)[n] \in S
    <3>1. a(n) \in [0..n -> S] /\ n \in 0..n
      BY <1>3
    <3> QED BY <3>1
  <2> QED BY <2>1
<1>5. f[0] = x
  BY <1>3
<1>6. ASSUME NEW n \in Nat PROVE f[n + 1] = g[n][f[n]]
  <2>1. Approx(n, a(n)) /\ Approx(n + 1, a(n + 1)) /\ n + 1 \in Nat /\ n <= n + 1
    BY <1>3
  <2>2. n \in 0..n /\ n \in 0..(n + 1) /\ n < n + 1
    OBVIOUS
  <2>3. a(n)[n] = a(n + 1)[n]
    <3> HIDE DEF Approx
    <3> QED BY <1>2, <2>1, <2>2
  <2>4. a(n + 1)[n + 1] = g[n][a(n + 1)[n]]
    BY <2>1, <2>2
  <2> QED BY <2>1, <2>3, <2>4
<1> HIDE DEF f
<1>7. Iterates(S, x, g, f)
  BY <1>4, <1>5, <1>6 DEF Iterates
<1> QED BY <1>7

\* A walk goes one step further at a time.
LEMMA WalkFacts ==
    ASSUME NEW D, NEW T, NEW up \in [D -> T], NEW x
    PROVE  LET at == Walk(up, x)
           IN  at[0] = x /\ \A n \in Nat : at[n + 1] = IF at[n] \in D THEN up[at[n]] ELSE at[n]
<1> DEFINE S == D \cup T \cup {x}
           g == [n \in Nat |-> [y \in S |-> IF y \in D THEN up[y] ELSE y]]
<1>1. g \in [Nat -> [S -> S]] /\ x \in S
  OBVIOUS
<1>2. PICK f \in [Nat -> S] : f[0] = x /\ \A n \in Nat : f[n + 1] = g[n][f[n]]
  <2> HIDE DEF g, S
  <2>1. PICK f : Iterates(S, x, g, f)
    BY <1>1, IterationExists
  <2> QED BY <2>1 DEF Iterates
<1> DEFINE Def(h) == [n \in Nat |-> IF n = 0 THEN x
                                    ELSE IF h[n - 1] \in DOMAIN up THEN up[h[n - 1]] ELSE h[n - 1]]
<1>3. f = Def(f)
  <2>1. ASSUME NEW n \in Nat, n # 0
        PROVE  f[n] = IF f[n - 1] \in DOMAIN up THEN up[f[n - 1]] ELSE f[n - 1]
    <3>1. n - 1 \in Nat /\ (n - 1) + 1 = n
      BY <2>1
    <3>2. f[n] = g[n - 1][f[n - 1]] /\ f[n - 1] \in S
      BY <1>2, <3>1
    <3> QED BY <3>1, <3>2
  <2>2. f = [n \in Nat |-> f[n]]
    BY <1>2
  <2> QED BY <1>2, <2>1, <2>2
<1>4. Walk(up, x) = Def(Walk(up, x))
  <2>1. Walk(up, x) = CHOOSE h : h = Def(h)
    BY DEF Walk
  <2> HIDE DEF Def
  <2> QED BY <1>3, <2>1
<1> DEFINE at == Walk(up, x)
<1>5. at[0] = x
  BY <1>4
<1>6. ASSUME NEW n \in Nat PROVE at[n + 1] = IF at[n] \in D THEN up[at[n]] ELSE at[n]
  <2>1. n + 1 \in Nat /\ n + 1 # 0 /\ (n + 1) - 1 = n
    OBVIOUS
  <2>2. DOMAIN up = D
    OBVIOUS
  <2> HIDE DEF at
  <2>3. at = Def(at)
    BY <1>4 DEF at
  <2> QED BY <2>1, <2>2, <2>3
<1> QED BY <1>5, <1>6

\* What a walk met: it starts above nothing of the domain, and each is above the next.
IsClimb(up, x, s) ==
    /\ s \in Seq(DOMAIN up)
    /\ s = <<>> <=> x \notin DOMAIN up
    /\ s # <<>> => s[Len(s)] = x /\ up[s[1]] \notin DOMAIN up
    /\ \A k \in 1..Len(s) : k < Len(s) => s[k] = up[s[k + 1]]

LEMMA ClimbDistinct ==
    ASSUME NEW D, NEW T, NEW up \in [D -> T], NEW x, NEW s, IsClimb(up, x, s),
           NEW a \in 1..Len(s), NEW b \in 1..Len(s), s[a] = s[b]
    PROVE  a = b
<1>1. s \in Seq(D) /\ DOMAIN up = D /\ Len(s) \in Nat /\ \A k \in 1..Len(s) : s[k] \in D
  BY DEF IsClimb
<1> DEFINE N == {m \in Nat : m \in 1..Len(s) /\ \E n \in 1..Len(s) : m < n /\ s[m] = s[n]}
<1>2. N = {}
  <2> SUFFICES ASSUME N # {} PROVE FALSE
    OBVIOUS
  <2> DEFINE m == Min(N)
  <2>1. m \in N /\ \A k \in N : m <= k
    <3>1. N \subseteq Nat
      OBVIOUS
    <3> HIDE DEF N
    <3> QED BY <3>1, LeastExists
  <2> HIDE DEF m
  <2>2. PICK n \in 1..Len(s) : m < n /\ s[m] = s[n]
    BY <2>1
  <2>3. m \in Nat /\ m \in 1..Len(s) /\ n - 1 \in 1..Len(s) /\ n - 1 < Len(s) /\ (n - 1) + 1 = n
    BY <1>1, <2>1, <2>2
  <2>4. s[n - 1] = up[s[n]] /\ s[n - 1] \in D
    BY <1>1, <2>3 DEF IsClimb
  <2>5. CASE m = 1
    <3>1. up[s[1]] \notin D
      BY <1>1, <2>3 DEF IsClimb
    <3> QED BY <2>2, <2>4, <2>5, <3>1
  <2>6. CASE m # 1
    <3>1. m - 1 \in 1..Len(s) /\ m - 1 < Len(s) /\ (m - 1) + 1 = m /\ m - 1 < n - 1 /\ m - 1 \in Nat /\ ~(m <= m - 1)
      BY <1>1, <2>2, <2>3, <2>6
    <3>2. s[m - 1] = up[s[m]]
      BY <3>1 DEF IsClimb
    <3>3. s[m - 1] = s[n - 1]
      BY <2>2, <2>4, <3>2
    <3>4. m - 1 \in N
      BY <2>3, <3>1, <3>3
    <3> QED BY <2>1, <3>1, <3>4
  <2> QED BY <2>5, <2>6
<1> SUFFICES ASSUME a # b PROVE FALSE
  OBVIOUS
<1>3. a < b \/ b < a
  BY <1>1
<1>4. a \in N \/ b \in N
  <2>1. a \in Nat /\ b \in Nat
    BY <1>1
  <2>2. CASE a < b
    BY <2>1, <2>2
  <2>3. CASE b < a
    BY <2>1, <2>3
  <2> QED BY <1>3, <2>2, <2>3
<1> QED BY <1>2, <1>4

LEMMA ClimbBounded ==
    ASSUME NEW D, IsFiniteSet(D), NEW T, NEW up \in [D -> T], NEW x, NEW s, IsClimb(up, x, s)
    PROVE  Len(s) \in Nat /\ Cardinality(D) \in Nat /\ Len(s) <= Cardinality(D)
<1>1. s \in Seq(D) /\ Len(s) \in Nat /\ s \in [1..Len(s) -> D]
  BY LenProperties DEF IsClimb
<1>2. \A a, b \in 1..Len(s) : s[a] = s[b] => a = b
  BY ClimbDistinct
<1>3. s \in Injection(1..Len(s), D)
  BY <1>1, <1>2 DEF Injection, IsInjective
<1>4. Cardinality(1..Len(s)) <= Cardinality(D)
  BY <1>3, FS_Injection
<1>5. Cardinality(1..Len(s)) = Len(s)
  <2> DEFINE n == Len(s)
  <2>1. n \in Nat
    BY <1>1
  <2> HIDE DEF n
  <2>2. 1 \in Int /\ n \in Int /\ n - 1 + 1 = n /\ (1 <= n \/ n = 0)
    BY ONLY <2>1
  <2>3. Cardinality(1..n) = n
    BY ONLY <2>2, FS_Interval
  <2> QED BY <2>3 DEF n
<1> QED BY <1>1, <1>4, <1>5, FS_CardinalityType

\* A walk that leaves the domain of up climbs what it met on the way.
LEMMA ClimbFound ==
    ASSUME NEW D, IsFiniteSet(D), NEW T, NEW up \in [D -> T], NEW x, NEW s, IsClimb(up, x, s)
    PROVE  Climb(up, x) = s
<1> DEFINE at == Walk(up, x)
           N == Cardinality(D)
           n == Len(s)
           out == {m \in 0..Cardinality(DOMAIN up) : at[m] \notin DOMAIN up}
<1>1. DOMAIN up = D /\ n \in Nat /\ N \in Nat /\ n <= N /\ s \in Seq(D)
      /\ (n = 0 <=> s = <<>>)
  <2>1. DOMAIN up = D /\ s \in Seq(D)
    BY DEF IsClimb
  <2>2. n \in Nat /\ N \in Nat /\ n <= N
    BY ClimbBounded
  <2> QED BY <2>1, <2>2, EmptySeq
<1>2. at[0] = x /\ \A m \in Nat : at[m + 1] = IF at[m] \in D THEN up[at[m]] ELSE at[m]
  BY WalkFacts
<1>3. Climb(up, x) = IF out = {} THEN Rejected ELSE [k \in 1..Min(out) |-> at[Min(out) - k]]
  BY DEF Climb
<1> HIDE DEF at
<1>4. \A m \in Nat : m < n => at[m] = s[n - m]
  <2> DEFINE M == {m \in Nat : m < n => at[m] = s[n - m]}
  <2>1. 0 \in M
    <3>1. 0 < n => s[n] = x /\ n - 0 = n
      BY <1>1 DEF IsClimb
    <3> QED BY <1>2, <3>1
  <2>2. ASSUME NEW m \in M PROVE m + 1 \in M
    <3> SUFFICES ASSUME m + 1 < n PROVE at[m + 1] = s[n - (m + 1)]
      OBVIOUS
    <3>1. m \in Nat /\ m < n /\ n - m \in 1..n /\ n - (m + 1) \in 1..n /\ n - (m + 1) < n
          /\ (n - (m + 1)) + 1 = n - m
      BY <1>1
    <3>2. at[m] = s[n - m] /\ s[n - m] \in D
      BY <1>1, <3>1
    <3>3. s[n - (m + 1)] = up[s[n - m]]
      BY <3>1 DEF IsClimb
    <3> QED BY <1>2, <3>1, <3>2, <3>3
  <2>3. M \subseteq Nat
    OBVIOUS
  <2> HIDE DEF M
  <2>4. M = Nat
    BY <2>1, <2>2, <2>3, AllNaturals
  <2> QED BY <2>4 DEF M
<1>5. \A m \in Nat : m < n => at[m] \in D
  <2> SUFFICES ASSUME NEW m \in Nat, m < n PROVE at[m] \in D
    OBVIOUS
  <2>1. n - m \in 1..n
    BY <1>1
  <2> QED BY <1>1, <1>4, <2>1
<1>6. at[n] \notin D
  <2>1. CASE n = 0
    BY <1>1, <1>2, <2>1 DEF IsClimb
  <2>2. CASE n # 0
    <3>1. n - 1 \in Nat /\ n - 1 < n /\ (n - 1) + 1 = n /\ n - (n - 1) = 1
      BY <1>1, <2>2
    <3>2. at[n - 1] = s[1] /\ at[n - 1] \in D
      BY <1>4, <1>5, <3>1
    <3>3. at[n] = up[s[1]]
      BY <1>2, <3>1, <3>2
    <3>4. up[s[1]] \notin D
      BY <1>1, <2>2 DEF IsClimb
    <3> QED BY <3>3, <3>4
  <2> QED BY <2>1, <2>2
<1>7. n \in out /\ \A m \in out : n <= m
  <2>1. \A m \in Nat : ~(m < n) => n <= m
    BY <1>1
  <2> QED BY <1>1, <1>5, <1>6, <2>1
<1>8. out \subseteq Nat
  BY <1>1
<1> HIDE DEF out
<1>9. Min(out) = n
  <2>1. Min(out) \in out /\ \A m \in out : Min(out) <= m
    BY <1>7, <1>8, LeastExists
  <2>2. n \in Nat /\ n <= Min(out) /\ Min(out) <= n /\ Min(out) \in Nat
    BY <1>1, <1>7, <1>8, <2>1
  <2> HIDE DEF n
  <2> QED BY <2>2
<1>10. Climb(up, x) = [k \in 1..n |-> at[n - k]]
  BY <1>3, <1>7, <1>9
<1>11. ASSUME NEW k \in 1..n PROVE at[n - k] = s[k]
  <2>1. n - k \in Nat /\ n - k < n /\ n - (n - k) = k
    BY <1>1
  <2> QED BY <1>4, <2>1
<1>12. s = [k \in 1..n |-> s[k]]
  BY <1>1
<1> HIDE DEF n
<1> QED BY <1>10, <1>11, <1>12

\* A walk that is not rejected is one.
LEMMA ClimbIs ==
    ASSUME NEW D, IsFiniteSet(D), NEW T, NEW up \in [D -> T], NEW x, Climb(up, x) # Rejected
    PROVE  IsClimb(up, x, Climb(up, x))
<1> DEFINE at == Walk(up, x)
           out == {m \in 0..Cardinality(DOMAIN up) : at[m] \notin DOMAIN up}
           n == Min(out)
           s == [k \in 1..n |-> at[n - k]]
<1>1. DOMAIN up = D /\ Cardinality(D) \in Nat
  BY FS_CardinalityType
<1>2. at[0] = x /\ \A m \in Nat : at[m + 1] = IF at[m] \in D THEN up[at[m]] ELSE at[m]
  BY WalkFacts
<1>3. out # {} /\ Climb(up, x) = s
  BY DEF Climb
<1> HIDE DEF at
<1>4. out \subseteq Nat
  BY <1>1
<1>5. n \in out /\ \A m \in out : n <= m
  <2> HIDE DEF out
  <2> QED BY <1>3, <1>4, LeastExists
<1>6. n \in Nat /\ at[n] \notin D /\ n <= Cardinality(D)
  BY <1>1, <1>5
<1>7. ASSUME NEW m \in Nat, m < n PROVE at[m] \in D
  <2>1. m \in 0..Cardinality(D) /\ ~(n <= m)
    BY <1>1, <1>6, <1>7
  <2>2. m \notin out
    BY <1>5, <2>1
  <2> QED BY <1>1, <2>1, <2>2
<1> HIDE DEF n, out
<1>8. ASSUME NEW k \in 1..n PROVE s[k] = at[n - k] /\ s[k] \in D
  <2>1. n - k \in Nat /\ n - k < n
    BY <1>6
  <2> QED BY <1>7, <2>1
<1>9. s \in Seq(D) /\ Len(s) = n
  <2>1. s = [k \in 1..n |-> s[k]]
    OBVIOUS
  <2>2. s \in [1..n -> D]
    BY <1>8
  <2> HIDE DEF s
  <2> QED BY <1>6, <2>2, SeqDef, LenProperties
<1> HIDE DEF s
<1>10. s = <<>> <=> x \notin D
  <2>1. CASE n = 0
    BY <1>2, <1>6, <1>9, <2>1
  <2>2. CASE n # 0
    <3>1. 0 < n
      BY <1>6, <2>2
    <3> QED BY <1>2, <1>7, <1>9, <3>1
  <2> QED BY <2>1, <2>2
<1>11. ASSUME s # <<>> PROVE s[Len(s)] = x /\ up[s[1]] \notin D
  <2>1. n # 0
    BY <1>9, <1>11
  <2>2. n \in 1..n /\ 1 \in 1..n /\ n - n = 0 /\ n - 1 \in Nat /\ (n - 1) + 1 = n /\ n - 1 < n
    BY <1>6, <2>1
  <2>3. s[n] = x
    BY <1>2, <1>8, <2>2
  <2>4. s[1] = at[n - 1] /\ at[n - 1] \in D
    BY <1>7, <1>8, <2>2
  <2>5. at[n] = up[s[1]]
    BY <1>2, <2>2, <2>4
  <2> QED BY <1>6, <1>9, <2>3, <2>5
<1>12. ASSUME NEW k \in 1..Len(s), k < Len(s) PROVE s[k] = up[s[k + 1]]
  <2>1. k \in 1..n /\ k + 1 \in 1..n /\ n - (k + 1) \in Nat /\ (n - (k + 1)) + 1 = n - k
    BY <1>6, <1>9, <1>12
  <2>2. s[k + 1] = at[n - (k + 1)] /\ s[k + 1] \in D /\ s[k] = at[n - k]
    BY <1>8, <2>1
  <2> QED BY <1>2, <2>1, <2>2
<1> QED BY <1>1, <1>3, <1>9, <1>10, <1>11, <1>12 DEF IsClimb

\* One step further down.
LEMMA ClimbMore ==
    ASSUME NEW D, NEW T, NEW up \in [D -> T], NEW x \in D, NEW s, IsClimb(up, up[x], s)
    PROVE  IsClimb(up, x, Append(s, x))
<1> DEFINE t == Append(s, x)
           n == Len(s)
<1>1. s \in Seq(D) /\ DOMAIN up = D
  BY DEF IsClimb
<1>2. /\ t \in Seq(D) /\ t # <<>> /\ n \in Nat /\ Len(t) = n + 1 /\ t[n + 1] = x
      /\ \A k \in 1..n : t[k] = s[k]
  BY <1>1, AppendProperties, LenProperties
<1>3. n = 0 <=> s = <<>>
  BY <1>1, EmptySeq
<1> HIDE DEF t
<1>4. up[t[1]] \notin D
  <2>1. CASE s = <<>>
    <3>1. up[x] \notin D
      BY <1>1, <2>1 DEF IsClimb
    <3> QED BY <1>2, <1>3, <2>1, <3>1
  <2>2. CASE s # <<>>
    <3>1. 1 \in 1..n /\ up[s[1]] \notin D
      BY <1>1, <1>2, <1>3, <2>2 DEF IsClimb
    <3> QED BY <1>2, <3>1
  <2> QED BY <2>1, <2>2
<1>5. ASSUME NEW k \in 1..Len(t), k < Len(t) PROVE t[k] = up[t[k + 1]]
  <2>1. k \in 1..n /\ t[k] = s[k]
    BY <1>2, <1>5
  <2>2. CASE k = n
    <3>1. s # <<>> /\ s[n] = up[x]
      BY <1>1, <1>3, <2>1, <2>2 DEF IsClimb
    <3>2. t[k + 1] = x
      BY <1>2, <2>2
    <3> QED BY <2>1, <2>2, <3>1, <3>2
  <2>3. CASE k # n
    <3>1. k < n /\ k + 1 \in 1..n
      BY <1>2, <2>1, <2>3
    <3>2. s[k] = up[s[k + 1]]
      BY <2>1, <3>1 DEF IsClimb
    <3> QED BY <1>2, <2>1, <3>1, <3>2
  <2> QED BY <2>2, <2>3
<1> QED BY <1>1, <1>2, <1>4, <1>5 DEF IsClimb, t

\* Where no step is possible nothing is met.
LEMMA ClimbNowhere ==
    ASSUME NEW D, NEW T, NEW up \in [D -> T], NEW x, x \notin D
    PROVE  IsClimb(up, x, <<>>)
<1>1. <<>> \in Seq(D) /\ Len(<<>>) = 0 /\ DOMAIN up = D
  BY EmptySeq
<1> QED BY <1>1 DEF IsClimb

-----------------------------------------------------------------------------
(***************************************************************************)
(* Conversations: forests.                                                 *)
(***************************************************************************)

MessageType == [conv : Nat, parent : Nat, role : {"user", "assistant"}, text : Nat]

\* Messages by id, of any number of conversations, each below an older one of its own.
Messages(ms) ==
    /\ DOMAIN ms \subseteq Nat \ {0} /\ IsFiniteSet(DOMAIN ms)
    /\ ms \in [DOMAIN ms -> MessageType]
    /\ \A i \in DOMAIN ms :
          ms[i].parent # NoId => ms[i].parent \in Of(ms, ms[i].conv) /\ ms[i].parent < i

Parents(ms, c) == [j \in Of(ms, c) |-> ms[j].parent]

LEMMA ParentsType ==
    ASSUME NEW ms, Messages(ms), NEW c
    PROVE  /\ Parents(ms, c) \in [Of(ms, c) -> Nat] /\ IsFiniteSet(Of(ms, c))
           /\ Of(ms, c) \subseteq Nat \ {0} /\ Of(ms, c) \subseteq DOMAIN ms
           /\ \A i \in Of(ms, c) : /\ ms[i].conv = c /\ ms[i] \in MessageType /\ ms[i].parent \in Nat
                                   /\ Parents(ms, c)[i] = ms[i].parent
                                   /\ ms[i].parent # NoId => ms[i].parent \in Of(ms, c) /\ ms[i].parent < i
<1>1. \A i \in DOMAIN ms : ms[i] \in MessageType
  BY DEF Messages
<1>2. \A i \in Of(ms, c) : i \in DOMAIN ms /\ ms[i].conv = c
  BY DEF Of
<1>3. IsFiniteSet(Of(ms, c))
  BY <1>2, FS_Subset DEF Messages
<1>4. \A i \in Of(ms, c) : ms[i].parent \in Nat
  BY <1>1, <1>2 DEF MessageType
<1> QED BY <1>1, <1>2, <1>3, <1>4 DEF Messages, Parents

\* Every branch reaches a root.
LEMMA BranchIs ==
    ASSUME NEW ms, Messages(ms), NEW c, NEW i \in Nat
    PROVE  IsClimb(Parents(ms, c), i, BranchTo(ms, c, i))
<1> DEFINE D == Of(ms, c)
           up == Parents(ms, c)
           N == {j \in Nat : ~ \E s : IsClimb(up, j, s)}
<1>1. /\ up \in [D -> Nat] /\ IsFiniteSet(D) /\ D \subseteq Nat \ {0}
      /\ \A j \in D : up[j] \in Nat /\ (up[j] # NoId => up[j] \in D /\ up[j] < j)
  BY ParentsType
<1>2. N = {}
  <2> SUFFICES ASSUME N # {} PROVE FALSE
    OBVIOUS
  <2> DEFINE m == Min(N)
  <2>1. m \in N /\ \A k \in N : m <= k
    <3>1. N \subseteq Nat
      OBVIOUS
    <3> HIDE DEF N
    <3> QED BY <3>1, LeastExists
  <2> HIDE DEF m, up, D
  <2>2. m \in D
    <3> SUFFICES ASSUME m \notin D PROVE FALSE
      OBVIOUS
    <3>1. IsClimb(up, m, <<>>)
      BY <1>1, ClimbNowhere
    <3> QED BY <2>1, <3>1
  <2>3. \E s : IsClimb(up, up[m], s)
    <3>1. CASE up[m] = NoId
      <4>1. up[m] \notin D
        BY <1>1, <3>1 DEF NoId
      <4> QED BY <1>1, <4>1, ClimbNowhere
    <3>2. CASE up[m] # NoId
      <4>1. up[m] \in Nat /\ up[m] < m /\ m \in Nat
        BY <1>1, <2>2, <3>2
      <4>2. ~(m <= up[m])
        BY <4>1
      <4>3. up[m] \notin N
        BY <2>1, <4>2
      <4> QED BY <4>1, <4>3
    <3> QED BY <3>1, <3>2
  <2>4. PICK s : IsClimb(up, up[m], s)
    BY <2>3
  <2>5. IsClimb(up, m, Append(s, m))
    BY <1>1, <2>2, <2>4, ClimbMore
  <2> QED BY <2>1, <2>5
<1>3. PICK s : IsClimb(up, i, s)
  BY <1>2
<1>4. BranchTo(ms, c, i) = Climb(up, i)
  BY DEF BranchTo, Parents
<1> HIDE DEF up, D
<1>5. Climb(up, i) = s
  BY <1>1, <1>3, ClimbFound
<1> QED BY <1>3, <1>4, <1>5 DEF up

LEMMA BranchFacts ==
    ASSUME NEW ms, Messages(ms), NEW c, NEW i \in Nat
    PROVE  LET s == BranchTo(ms, c, i)
           IN  /\ s \in Seq(Of(ms, c)) /\ Len(s) \in Nat
               /\ s = <<>> <=> i \notin Of(ms, c)
               /\ i \in Of(ms, c) =>
                     /\ Len(s) >= 1 /\ s[Len(s)] = i /\ ms[s[1]].parent = NoId
                     /\ s = Append(BranchTo(ms, c, ms[i].parent), i)
               /\ \A k \in 1..Len(s) : k < Len(s) => s[k] = ms[s[k + 1]].parent
               /\ \A j, k \in 1..Len(s) : s[j] = s[k] => j = k
<1> DEFINE s == BranchTo(ms, c, i)
           D == Of(ms, c)
           up == Parents(ms, c)
<1>1. /\ up \in [D -> Nat] /\ IsFiniteSet(D) /\ D \subseteq Nat \ {0} /\ DOMAIN up = D
      /\ \A j \in D : up[j] = ms[j].parent /\ up[j] \in Nat /\ (up[j] # NoId => up[j] \in D)
  BY ParentsType DEF Parents
<1>2. IsClimb(up, i, s)
  BY BranchIs
<1>3. s \in Seq(D) /\ Len(s) \in Nat /\ (s # <<>> => Len(s) >= 1) /\ \A k \in 1..Len(s) : s[k] \in D
  <2>1. s \in Seq(D)
    BY <1>1, <1>2 DEF IsClimb
  <2> HIDE DEF s, D
  <2>2. Len(s) \in Nat /\ (s # <<>> => Len(s) \in Nat \ {0})
    BY <2>1, EmptySeq, LenProperties
  <2> QED BY <2>1, <2>2
<1>4. \A j, k \in 1..Len(s) : s[j] = s[k] => j = k
  <2> HIDE DEF s, up, D
  <2>1. up \in [D -> Nat]
    BY <1>1
  <2>2. ASSUME NEW j \in 1..Len(s), NEW k \in 1..Len(s), s[j] = s[k] PROVE j = k
    BY <1>2, <2>1, <2>2, ClimbDistinct
  <2> QED BY <2>2
<1>5. ASSUME i \in D
      PROVE  /\ Len(s) >= 1 /\ s[Len(s)] = i /\ ms[s[1]].parent = NoId
             /\ s = Append(BranchTo(ms, c, ms[i].parent), i)
  <2>1. s # <<>> /\ s[Len(s)] = i /\ up[s[1]] \notin D
    BY <1>1, <1>2, <1>5 DEF IsClimb
  <2>2. 1 \in 1..Len(s)
    <3> HIDE DEF s, up, D
    <3> QED BY <1>3, <2>1
  <2>3. s[1] \in D
    BY <1>3, <2>2
  <2>4. ms[s[1]].parent = NoId
    BY <1>1, <2>1, <2>3
  <2> DEFINE t == BranchTo(ms, c, ms[i].parent)
  <2>5. IsClimb(up, up[i], t)
    BY <1>1, <1>5, BranchIs
  <2>6. s = Climb(up, i)
    BY DEF BranchTo, Parents
  <2> HIDE DEF up, D, t, s
  <2>7. IsClimb(up, i, Append(t, i))
    BY <1>1, <1>5, <2>5, ClimbMore
  <2>8. Climb(up, i) = Append(t, i)
    BY <1>1, <2>7, ClimbFound
  <2> QED BY <1>3, <2>1, <2>4, <2>6, <2>8 DEF t
<1>6. ASSUME NEW k \in 1..Len(s), k < Len(s) PROVE s[k] = ms[s[k + 1]].parent
  <2>1. s[k] = up[s[k + 1]]
    BY <1>2, <1>6 DEF IsClimb
  <2>2. k + 1 \in 1..Len(s)
    BY <1>3, <1>6
  <2>3. s[k + 1] \in D
    BY <1>3, <2>2
  <2> QED BY <1>1, <2>1, <2>3
<1>7. s = <<>> <=> i \notin D
  BY <1>1, <1>2 DEF IsClimb
<1> QED BY <1>3, <1>4, <1>5, <1>6, <1>7

\* What is said of a conversation depends on its own messages only.
LEMMA SameConversation ==
    ASSUME NEW ms, NEW ns, NEW c, Of(ns, c) = Of(ms, c), \A i \in Of(ms, c) : ns[i] = ms[i]
    PROVE  /\ \A i : BranchTo(ns, c, i) = BranchTo(ms, c, i)
           /\ \A i : Children(ns, c, i) = Children(ms, c, i)
<1>1. [j \in Of(ns, c) |-> ns[j].parent] = [j \in Of(ms, c) |-> ms[j].parent]
  OBVIOUS
<1> QED BY <1>1 DEF BranchTo, Children

Conversation == [leaf : Nat, whole : BOOLEAN]

\* ForestAtHome, with types.
Home(ms, cs) ==
    /\ Messages(ms)
    /\ cs \in [DOMAIN cs -> Conversation] /\ DOMAIN cs \subseteq Nat \ {0}
    /\ \A i \in DOMAIN ms : ms[i].conv \in DOMAIN cs
    /\ \A c \in DOMAIN cs : cs[c].leaf # NoId => cs[c].leaf \in Of(ms, c)

LEMMA Grown ==
    ASSUME NEW ms, NEW cs, Home(ms, cs), NEW ns, NEW ds, NEW new,
           new \subseteq Nat \ {0}, IsFiniteSet(new),
           ns \in [DOMAIN ms \cup new -> MessageType],
           \A i \in DOMAIN ms : ns[i] = ms[i],
           \A i \in new : /\ ns[i].conv \in DOMAIN ds
                          /\ ns[i].parent # NoId => /\ ns[i].parent \in Of(ns, ns[i].conv)
                                                    /\ ns[i].parent < i,
           ds \in [DOMAIN ds -> Conversation], DOMAIN ds \subseteq Nat \ {0},
           DOMAIN cs \subseteq DOMAIN ds,
           \A c \in DOMAIN ds : ds[c].leaf # NoId => ds[c].leaf \in Of(ns, c)
    PROVE  Home(ns, ds)
<1>1. DOMAIN ns = DOMAIN ms \cup new
  OBVIOUS
<1>2. DOMAIN ms \subseteq Nat \ {0} /\ IsFiniteSet(DOMAIN ms)
  BY DEF Home, Messages
<1>3. IsFiniteSet(DOMAIN ns)
  <2>1. IsFiniteSet(DOMAIN ms \cup new)
    <3> HIDE DEF Home
    <3> QED BY ONLY <1>2, IsFiniteSet(new), FS_Union
  <2> QED BY <1>1, <2>1
<1>4. ASSUME NEW i \in DOMAIN ns
      PROVE  /\ ns[i].conv \in DOMAIN ds
             /\ ns[i].parent # NoId => ns[i].parent \in Of(ns, ns[i].conv) /\ ns[i].parent < i
  <2>1. CASE i \in new
    BY <2>1
  <2>2. CASE i \in DOMAIN ms
    <3>1. ns[i] = ms[i] /\ ms[i].conv \in DOMAIN cs
      BY <2>2 DEF Home
    <3>2. ASSUME ms[i].parent # NoId
          PROVE  ms[i].parent \in Of(ns, ms[i].conv) /\ ms[i].parent < i
      <4>1. ms[i].parent \in Of(ms, ms[i].conv) /\ ms[i].parent < i
        BY <2>2, <3>2 DEF Home, Messages
      <4> QED BY <1>1, <4>1 DEF Of
    <3> QED BY <3>1, <3>2
  <2> QED BY <1>1, <2>1, <2>2
<1>5. Messages(ns)
  BY <1>1, <1>2, <1>3, <1>4 DEF Messages
<1> QED BY <1>4, <1>5 DEF Home

-----------------------------------------------------------------------------
\* An order of some of the entries: each once, its parent before it.
IsOrder(order, up) ==
    /\ order \in Seq(DOMAIN up)
    /\ \A j, k \in 1..Len(order) : order[j] = order[k] => j = k
    /\ \A k \in 1..Len(order) : \/ up[order[k]] = NoId
                                \/ \E m \in 1..Len(order) : m < k /\ up[order[k]] = order[m]

LEMMA NewIdFacts ==
    ASSUME NEW up, NEW order, IsOrder(order, up), NoId \notin DOMAIN up, last \in Nat
    PROVE  /\ Len(order) \in Nat /\ DOMAIN order = 1..Len(order)
           /\ \A k \in 1..Len(order) : NewId(order, order[k]) = last + k /\ order[k] \in DOMAIN up
           /\ \A i : (\A k \in 1..Len(order) : order[k] # i) => NewId(order, i) = NoId
           /\ NewId(order, NoId) = NoId
           /\ \A k \in 1..Len(order) :
                 \/ up[order[k]] = NoId /\ NewId(order, up[order[k]]) = NoId
                 \/ \E m \in 1..Len(order) : /\ m < k /\ up[order[k]] = order[m]
                                             /\ NewId(order, up[order[k]]) = last + m
<1>1. /\ Len(order) \in Nat /\ DOMAIN order = 1..Len(order) /\ order \in [1..Len(order) -> DOMAIN up]
  BY LenProperties DEF IsOrder
<1>2. ASSUME NEW k \in 1..Len(order) PROVE NewId(order, order[k]) = last + k
  <2>1. (CHOOSE m \in DOMAIN order : order[m] = order[k]) = k
    BY <1>1, <1>2 DEF IsOrder
  <2> QED BY <1>1, <2>1 DEF NewId
<1>3. ASSUME NEW i, \A k \in 1..Len(order) : order[k] # i PROVE NewId(order, i) = NoId
  BY <1>1, <1>3 DEF NewId
<1>4. NewId(order, NoId) = NoId
  BY <1>1, <1>3
<1>5. ASSUME NEW k \in 1..Len(order)
      PROVE  \/ up[order[k]] = NoId /\ NewId(order, up[order[k]]) = NoId
             \/ \E m \in 1..Len(order) : /\ m < k /\ up[order[k]] = order[m]
                                         /\ NewId(order, up[order[k]]) = last + m
  <2>1. CASE up[order[k]] = NoId
    BY <1>4, <2>1
  <2>2. CASE up[order[k]] # NoId
    <3>1. PICK m \in 1..Len(order) : m < k /\ up[order[k]] = order[m]
      BY <2>2 DEF IsOrder
    <3> QED BY <1>2, <3>1
  <2> QED BY <2>1, <2>2
<1> QED BY <1>1, <1>2, <1>3, <1>4, <1>5

LEMMA CreatedHolds ==
    ASSUME Home(msgs, convs), last \in Nat, made \in Nat,
           DOMAIN msgs \subseteq 1..last, DOMAIN convs \subseteq 1..made,
           NEW new \in Seq(MessageType), NEW leaf \in Nat, NEW whole \in BOOLEAN,
           CreatedWith(new, leaf, whole),
           \A k \in 1..Len(new) :
              /\ new[k].conv = made + 1
              /\ \/ new[k].parent = NoId
                 \/ \E m \in 1..Len(new) : m < k /\ new[k].parent = last + m,
           leaf = NoId \/ \E k \in 1..Len(new) : leaf = last + k
    PROVE  /\ made' = made + 1 /\ last' = last + Len(new) /\ made' \in Nat /\ last' \in Nat
           /\ DOMAIN msgs' \subseteq 1..last' /\ DOMAIN convs' \subseteq 1..made'
           /\ DOMAIN msgs' = DOMAIN msgs \cup (last + 1 .. last + Len(new))
           /\ \A i \in DOMAIN msgs : msgs'[i] = msgs[i]
           /\ \A k \in 1..Len(new) : last + k \in DOMAIN msgs' /\ msgs'[last + k] = new[k]
           /\ DOMAIN convs' = DOMAIN convs \cup {made + 1}
           /\ \A c \in DOMAIN convs : convs'[c] = convs[c]
           /\ convs'[made + 1] = [leaf |-> leaf, whole |-> whole]
           /\ Of(msgs', made + 1) = last + 1 .. last + Len(new)
           /\ \A c \in DOMAIN convs : Of(msgs', c) = Of(msgs, c)
           /\ Home(msgs', convs')
<1> DEFINE N == Len(new)
           ids == last + 1 .. last + N
           more == [i \in ids |-> new[i - last]]
           conv == [leaf |-> leaf, whole |-> whole]
<1>1. N \in Nat /\ \A k \in 1..N : new[k] \in MessageType
  BY LenProperties
<1>2. /\ made' = made + 1 /\ last' = last + N /\ msgs' = With(msgs, more)
      /\ convs' = With(convs, [c \in {made + 1} |-> conv])
  BY DEF CreatedWith
<1>3. /\ DOMAIN msgs' = DOMAIN msgs \cup ids
      /\ \A i \in DOMAIN msgs' : msgs'[i] = IF i \in DOMAIN msgs THEN msgs[i] ELSE more[i]
      /\ msgs' = [i \in DOMAIN msgs' |-> msgs'[i]]
  BY <1>2 DEF With
<1>4. /\ DOMAIN convs' = DOMAIN convs \cup {made + 1}
      /\ \A i \in DOMAIN convs' : convs'[i] = IF i \in DOMAIN convs THEN convs[i] ELSE conv
      /\ convs' = [i \in DOMAIN convs' |-> convs'[i]]
  BY <1>2 DEF With
<1> HIDE DEF more, conv
<1>5. \A i \in ids : i \notin DOMAIN msgs /\ i - last \in 1..N /\ i \in Nat \ {0} /\ last + (i - last) = i
  BY <1>1
<1>6. \A k \in 1..N : last + k \in ids /\ (last + k) - last = k
  BY <1>1
<1>7. \A i \in ids : msgs'[i] = new[i - last] /\ i \in DOMAIN msgs'
  BY <1>3, <1>5 DEF more
<1>8. \A k \in 1..N : last + k \in DOMAIN msgs' /\ msgs'[last + k] = new[k]
  BY <1>6, <1>7
<1>9. \A i \in DOMAIN msgs : msgs'[i] = msgs[i] /\ i \in DOMAIN msgs'
  BY <1>3
<1>10. made + 1 \notin DOMAIN convs /\ convs'[made + 1] = conv /\ \A c \in DOMAIN convs : convs'[c] = convs[c]
  BY <1>4
<1>11. \A i \in DOMAIN msgs : msgs[i].conv \in DOMAIN convs
  BY DEF Home
<1>12. Of(msgs', made + 1) = ids
  <2>1. ASSUME NEW i \in Of(msgs', made + 1) PROVE i \in ids
    <3>1. i \in DOMAIN msgs' /\ msgs'[i].conv = made + 1
      BY DEF Of
    <3> QED BY <1>3, <1>9, <1>10, <1>11, <3>1
  <2>2. ASSUME NEW i \in ids PROVE i \in Of(msgs', made + 1)
    <3>1. i - last \in 1..N /\ msgs'[i] = new[i - last] /\ i \in DOMAIN msgs'
      BY <1>5, <1>7
    <3> QED BY <3>1 DEF Of
  <2> QED BY <2>1, <2>2
<1>13. ASSUME NEW c \in DOMAIN convs PROVE Of(msgs', c) = Of(msgs, c)
  <2>1. ASSUME NEW i \in Of(msgs', c) PROVE i \in Of(msgs, c)
    <3>1. i \in DOMAIN msgs' /\ msgs'[i].conv = c /\ c # made + 1
      BY <1>10 DEF Of
    <3>2. i \notin ids
      BY <1>12, <3>1 DEF Of
    <3> QED BY <1>3, <1>9, <3>1, <3>2 DEF Of
  <2>2. ASSUME NEW i \in Of(msgs, c) PROVE i \in Of(msgs', c)
    BY <1>9 DEF Of
  <2> QED BY <2>1, <2>2
<1>14. \A i \in DOMAIN msgs : msgs[i] \in MessageType
  BY DEF Home, Messages
<1>15. msgs' \in [DOMAIN msgs \cup ids -> MessageType]
  <2>1. ASSUME NEW i \in DOMAIN msgs' PROVE msgs'[i] \in MessageType
    <3>1. CASE i \in DOMAIN msgs
      BY <1>9, <1>14, <3>1
    <3>2. CASE i \in ids
      BY <1>1, <1>5, <1>7, <3>2
    <3> QED BY <1>3, <3>1, <3>2
  <2> HIDE DEF ids
  <2> QED BY <1>3, <2>1
<1>16. convs' \in [DOMAIN convs' -> Conversation] /\ DOMAIN convs' \subseteq Nat \ {0}
  <2>1. conv \in Conversation
    BY DEF conv, Conversation
  <2>2. \A c \in DOMAIN convs : convs[c] \in Conversation /\ c \in Nat \ {0}
    BY DEF Home
  <2> QED BY <1>4, <1>10, <2>1, <2>2
<1>17. ASSUME NEW c \in DOMAIN convs', convs'[c].leaf # NoId PROVE convs'[c].leaf \in Of(msgs', c)
  <2>1. CASE c \in DOMAIN convs
    BY <1>10, <1>13, <1>17, <2>1 DEF Home
  <2>2. CASE c = made + 1
    <3>1. convs'[c].leaf = leaf
      BY <1>10, <2>2 DEF conv
    <3>2. leaf \in ids
      BY <1>6, <1>17, <3>1
    <3> QED BY <1>12, <2>2, <3>1, <3>2
  <2> QED BY <1>4, <2>1, <2>2
<1>18. ASSUME NEW i \in ids
       PROVE  /\ msgs'[i].conv = made + 1
              /\ msgs'[i].parent # NoId => msgs'[i].parent \in ids /\ msgs'[i].parent < i
  <2> DEFINE k == i - last
  <2>1. k \in 1..N /\ msgs'[i] = new[k] /\ last + k = i
    BY <1>5, <1>7
  <2> HIDE DEF k
  <2>2. ASSUME new[k].parent # NoId PROVE new[k].parent \in ids /\ new[k].parent < i
    <3>1. PICK m \in 1..N : m < k /\ new[k].parent = last + m
      BY <2>1, <2>2
    <3> QED BY <1>1, <1>6, <2>1, <3>1
  <2> QED BY <2>1, <2>2
<1>19. IsFiniteSet(ids) /\ ids \subseteq Nat \ {0}
  <2>1. last + 1 \in Int /\ last + N \in Int
    BY <1>1
  <2>2. IsFiniteSet(ids)
    BY <2>1, FS_Interval
  <2> QED BY <1>5, <2>2
<1> HIDE DEF ids
<1>20. Home(msgs', convs')
  <2> DEFINE ns == msgs'
             ds == convs'
  <2>1. /\ ns \in [DOMAIN msgs \cup ids -> MessageType] /\ \A i \in DOMAIN msgs : ns[i] = msgs[i]
        /\ ds \in [DOMAIN ds -> Conversation] /\ DOMAIN ds \subseteq Nat \ {0}
        /\ DOMAIN convs \subseteq DOMAIN ds
        /\ \A c \in DOMAIN ds : ds[c].leaf # NoId => ds[c].leaf \in Of(ns, c)
    BY <1>4, <1>9, <1>15, <1>16, <1>17
  <2>2. \A i \in ids : /\ ns[i].conv \in DOMAIN ds
                       /\ ns[i].parent # NoId => ns[i].parent \in Of(ns, ns[i].conv) /\ ns[i].parent < i
    BY <1>4, <1>12, <1>18
  <2>3. IsFiniteSet(ids) /\ ids \subseteq Nat \ {0}
    BY <1>19
  <2> HIDE DEF ns, ds
  <2>4. Home(ns, ds)
    BY ONLY Home(msgs, convs), <2>1, <2>2, <2>3, Grown
  <2> QED BY <2>4 DEF ns, ds
<1>21. DOMAIN msgs' \subseteq 1..last'
  BY <1>1, <1>2, <1>3 DEF ids
<1>22. DOMAIN convs' \subseteq 1..made'
  BY <1>2, <1>4
<1>23. made' \in Nat /\ last' \in Nat
  BY <1>1, <1>2
<1>24. /\ DOMAIN msgs' = DOMAIN msgs \cup (last + 1 .. last + Len(new))
       /\ convs'[made + 1] = [leaf |-> leaf, whole |-> whole]
       /\ Of(msgs', made + 1) = last + 1 .. last + Len(new)
  BY <1>3, <1>10, <1>12 DEF conv, ids
<1> QED BY <1>2, <1>4, <1>8, <1>9, <1>10, <1>13, <1>20, <1>21, <1>22, <1>23, <1>24

\* A branch, as far as it goes, is an order.
LEMMA PrefixIsOrder ==
    ASSUME NEW ms, Messages(ms), NEW c, NEW i \in Nat, NEW n \in 0..Len(BranchTo(ms, c, i))
    PROVE  LET b == BranchTo(ms, c, i)
               s == SubSeq(b, 1, n)
           IN  /\ IsOrder(s, Parents(ms, c)) /\ Len(s) = n
               /\ \A k \in 1..n : s[k] = b[k] /\ b[k] \in Of(ms, c)
               /\ \A k \in 1..n : k # 1 => ms[s[k]].parent = s[k - 1]
               /\ n >= 1 => ms[s[1]].parent = NoId
<1> DEFINE b == BranchTo(ms, c, i)
           s == SubSeq(b, 1, n)
           D == Of(ms, c)
<1>1. /\ b \in Seq(D) /\ Len(b) \in Nat /\ (i \notin D => b = <<>>)
      /\ i \in D => ms[b[1]].parent = NoId
      /\ \A k \in 1..Len(b) : k < Len(b) => b[k] = ms[b[k + 1]].parent
      /\ \A j, k \in 1..Len(b) : b[j] = b[k] => j = k
  BY BranchFacts
<1>2. DOMAIN Parents(ms, c) = D /\ \A j \in D : Parents(ms, c)[j] = ms[j].parent
  BY DEF Parents
<1> HIDE DEF D, b
<1>3. n \in Nat /\ n <= Len(b) /\ \A k \in 1..n : k \in 1..Len(b)
  BY <1>1 DEF b
<1>4. s \in Seq(D) /\ Len(s) = n /\ \A k \in 1..n : s[k] = b[k] /\ b[k] \in D
  <2>1. \A k \in 1..Len(b) : b[k] \in D
    BY <1>1
  <2>2. \A k \in 1..n : b[k] \in D
    BY <1>3, <2>1
  <2>3. /\ s \in Seq(D) /\ Len(s) = IF 1 <= n THEN n - 1 + 1 ELSE 0
        /\ \A k \in 1..n - 1 + 1 : s[k] = b[1 + k - 1]
    BY <1>3, <2>2, SubSeqProperties
  <2> HIDE DEF s
  <2>4. \A k \in 1..n : s[k] = b[k]
    <3> SUFFICES ASSUME NEW k \in 1..n PROVE s[k] = b[k]
      OBVIOUS
    <3>1. k \in 1..n - 1 + 1 /\ 1 + k - 1 = k
      BY <1>3
    <3> QED BY <2>3, <3>1
  <2>5. Len(s) = n
    BY <1>3, <2>3
  <2> QED BY <2>2, <2>3, <2>4, <2>5
<1> HIDE DEF s
<1>5. ASSUME NEW k \in 1..n, k # 1 PROVE ms[s[k]].parent = s[k - 1] /\ k - 1 \in 1..n
  <2>1. k - 1 \in 1..n /\ k - 1 < Len(b) /\ (k - 1) + 1 = k /\ k - 1 \in 1..Len(b)
    BY <1>3, <1>5
  <2>2. b[k - 1] = ms[b[k]].parent
    BY <1>1, <2>1
  <2> QED BY <1>4, <2>1, <2>2
<1>6. ASSUME n >= 1 PROVE ms[s[1]].parent = NoId
  <2>1. 1 \in 1..n /\ 1 \in 1..Len(b)
    BY <1>3, <1>6
  <2>2. i \in D
    BY <1>1, <2>1, EmptySeq
  <2> QED BY <1>1, <1>4, <2>1, <2>2
<1>7. \A j, k \in 1..n : s[j] = s[k] => j = k
  BY <1>1, <1>3, <1>4
<1>8. ASSUME NEW k \in 1..n
      PROVE  \/ Parents(ms, c)[s[k]] = NoId
             \/ \E m \in 1..n : m < k /\ Parents(ms, c)[s[k]] = s[m]
  <2>1. Parents(ms, c)[s[k]] = ms[s[k]].parent
    BY <1>2, <1>4
  <2>2. CASE k = 1
    BY <1>3, <1>6, <2>1, <2>2
  <2>3. CASE k # 1
    <3>1. k - 1 < k
      OBVIOUS
    <3> QED BY <1>5, <2>1, <2>3, <3>1
  <2> QED BY <2>2, <2>3
<1>9. IsOrder(s, Parents(ms, c))
  BY <1>2, <1>4, <1>7, <1>8 DEF IsOrder
<1> QED BY <1>4, <1>5, <1>6, <1>9 DEF s, b, D

\* Copies of messages of c, under the copies of their parents.
AreCopies(new, order, c) ==
    /\ new \in Seq(MessageType) /\ Len(new) = Len(order) /\ Len(order) \in Nat
    /\ \A k \in 1..Len(order) :
          /\ order[k] \in Of(msgs, c)
          /\ NewId(order, order[k]) = last + k
          /\ new[k].conv = made + 1 /\ new[k].role = msgs[order[k]].role
          /\ new[k].text = msgs[order[k]].text
          /\ new[k].parent = NewId(order, msgs[order[k]].parent)
          /\ \/ msgs[order[k]].parent = NoId /\ new[k].parent = NoId
             \/ \E m \in 1..Len(order) : /\ m < k /\ msgs[order[k]].parent = order[m]
                                         /\ new[k].parent = last + m

\* The copies of an order.
LEMMA CopiesFacts ==
    ASSUME Messages(msgs), last \in Nat, made \in Nat, NEW c, NEW order,
           IsOrder(order, Parents(msgs, c)), NEW new, new = Copies(order)
    PROVE  AreCopies(new, order, c)
<1> DEFINE D == Of(msgs, c)
           up == Parents(msgs, c)
           L == Len(order)
<1>1. /\ D \subseteq Nat \ {0} /\ DOMAIN up = D
      /\ \A j \in D : msgs[j] \in MessageType /\ msgs[j].parent \in Nat /\ up[j] = msgs[j].parent
  BY ParentsType DEF Parents
<1>2. NoId \notin DOMAIN up
  BY <1>1 DEF NoId
<1> HIDE DEF up, D
<1>3. /\ L \in Nat /\ DOMAIN order = 1..L
      /\ \A k \in 1..L : NewId(order, order[k]) = last + k /\ order[k] \in D
      /\ \A k \in 1..L :
            \/ up[order[k]] = NoId /\ NewId(order, up[order[k]]) = NoId
            \/ \E m \in 1..L : /\ m < k /\ up[order[k]] = order[m]
                               /\ NewId(order, up[order[k]]) = last + m
  <2>1. IsOrder(order, up)
    BY DEF up
  <2> HIDE DEF L
  <2> QED BY <1>1, <1>2, <2>1, NewIdFacts DEF L
<1> HIDE DEF L
<1>4. new = [k \in 1..L |-> Message(made + 1, NewId(order, msgs[order[k]].parent), msgs[order[k]].role,
                                    msgs[order[k]].text)]
  BY <1>3 DEF Copies
<1>5. ASSUME NEW k \in 1..L
      PROVE  /\ new[k].conv = made + 1 /\ new[k].role = msgs[order[k]].role
             /\ new[k].text = msgs[order[k]].text
             /\ new[k].parent = NewId(order, msgs[order[k]].parent)
             /\ \/ msgs[order[k]].parent = NoId /\ new[k].parent = NoId
                \/ \E m \in 1..L : /\ m < k /\ msgs[order[k]].parent = order[m]
                                   /\ new[k].parent = last + m
             /\ new[k] \in MessageType
  <2>1. /\ new[k].conv = made + 1 /\ new[k].role = msgs[order[k]].role
        /\ new[k].text = msgs[order[k]].text
        /\ new[k].parent = NewId(order, msgs[order[k]].parent)
        /\ new[k] = [conv |-> new[k].conv, parent |-> new[k].parent, role |-> new[k].role,
                     text |-> new[k].text]
    BY <1>4 DEF Message
  <2>2. order[k] \in D /\ up[order[k]] = msgs[order[k]].parent /\ msgs[order[k]] \in MessageType
    BY <1>1, <1>3
  <2>3. \/ msgs[order[k]].parent = NoId /\ new[k].parent = NoId
        \/ \E m \in 1..L : /\ m < k /\ msgs[order[k]].parent = order[m]
                           /\ new[k].parent = last + m
    BY <1>3, <2>1, <2>2
  <2>4. new[k].parent \in Nat
    BY <1>3, <2>3 DEF NoId
  <2>5. new[k] \in MessageType
    BY <2>1, <2>2, <2>4 DEF MessageType
  <2> QED BY <2>1, <2>3, <2>5
<1>6. new \in Seq(MessageType) /\ Len(new) = L
  <2>1. new \in [1..L -> MessageType]
    BY <1>4, <1>5
  <2> QED BY <1>3, <2>1, SeqDef, LenProperties
<1> QED BY <1>3, <1>5, <1>6 DEF D, L, AreCopies

LEMMA RecentFacts ==
    ASSUME NEW S, NEW path \in Seq(S)
    PROVE  LET covered == SubSeq(path, 1, Len(path) - Len(Recent(path)))
           IN  /\ Recent(path) \in Seq(S) /\ covered \in Seq(S)
               /\ covered \o Recent(path) = path
               /\ path # <<>> => Recent(path) # <<>>
<1> DEFINE L == Len(path)
           m == Max({1, (MaxContext * 6) \div 10})
<1>1. L \in Nat /\ \A k \in 1..L : path[k] \in S
  BY LenProperties
<1>2. SubSeq(path, 1, 0) = <<>> /\ <<>> \o path = path /\ <<>> \in Seq(S)
  BY SubSeqEmpty, ConcatEmptySeq, EmptySeq
<1>3. CASE L <= MaxContext
  <2>1. Recent(path) = path
    BY <1>3 DEF Recent
  <2>2. L - L = 0
    BY <1>1
  <2> QED BY <1>2, <2>1, <2>2
<1>4. CASE ~(L <= MaxContext)
  <2>1. MaxContext \in Nat
    BY StoreAssumption
  <2>2. (MaxContext * 6) \div 10 \in Nat /\ (MaxContext * 6) \div 10 <= MaxContext
    BY <2>1
  <2>3. m \in {1, (MaxContext * 6) \div 10} /\ m \in Nat \ {0} /\ m <= L
    <3>1. \A x, y \in Nat : Max({x, y}) \in {x, y} /\ Max({x, y}) >= x
      <4> SUFFICES ASSUME NEW x \in Nat, NEW y \in Nat PROVE Max({x, y}) \in {x, y} /\ Max({x, y}) >= x
        OBVIOUS
      <4>1. \E z \in {x, y} : \A w \in {x, y} : z >= w
        <5>1. CASE x >= y
          BY <5>1
        <5>2. CASE ~(x >= y)
          <6>1. y >= x /\ y >= y
            BY <5>2
          <6> QED BY <6>1
        <5> QED BY <5>1, <5>2
      <4> QED BY <4>1 DEF Max
    <3> HIDE DEF L
    <3>2. Max({1, (MaxContext * 6) \div 10}) \in {1, (MaxContext * 6) \div 10}
          /\ Max({1, (MaxContext * 6) \div 10}) >= 1
      BY <2>2, <3>1
    <3> HIDE DEF m
    <3>3. m \in {1, (MaxContext * 6) \div 10} /\ m >= 1
      BY <3>2 DEF m
    <3> QED BY <1>1, <1>4, <2>1, <2>2, <3>3
  <2> HIDE DEF m
  <2>4. Recent(path) = SubSeq(path, L - m + 1, L)
    BY <1>4 DEF Recent, m
  <2> HIDE DEF L
  <2>5. L - m + 1 \in Int /\ L \in Int /\ L - m + 1 <= L /\ L - m + 1 >= 1
    BY <1>1, <2>3
  <2>6. Recent(path) \in Seq(S) /\ Len(Recent(path)) = m
    <3>1. \A k \in (L - m + 1)..L : path[k] \in S
      BY <1>1, <2>5
    <3>2. /\ SubSeq(path, L - m + 1, L) \in Seq(S)
          /\ Len(SubSeq(path, L - m + 1, L)) = IF L - m + 1 <= L THEN L - (L - m + 1) + 1 ELSE 0
      BY <2>5, <3>1, SubSeqProperties
    <3>3. L - (L - m + 1) + 1 = m
      BY <1>1, <2>3
    <3> QED BY <2>4, <2>5, <3>2, <3>3
  <2>7. Recent(path) # <<>>
    BY <2>3, <2>6, EmptySeq
  <2>8. SubSeq(path, 1, L - m) \in Seq(S)
    <3>1. L - m \in Int /\ \A k \in 1..L - m : path[k] \in S
      BY <1>1, <2>3
    <3> QED BY <3>1, SubSeqProperties
  <2>9. SubSeq(path, 1, L - m) \o SubSeq(path, L - m + 1, L) = path
    <3>1. 1 \in 1..L + 1 /\ L - m \in (1 - 1)..L /\ L \in (L - m)..L
      BY <1>1, <2>3
    <3>2. SubSeq(path, 1, L - m) \o SubSeq(path, L - m + 1, L) = SubSeq(path, 1, L)
      BY <3>1, ConcatAdjacentSubSeq DEF L
    <3>3. SubSeq(path, 1, L) = path
      BY SubSeqFull DEF L
    <3> QED BY <3>2, <3>3
  <2> QED BY <2>4, <2>6, <2>7, <2>8, <2>9 DEF L
<1> QED BY <1>3, <1>4

-----------------------------------------------------------------------------
(***************************************************************************)
(* Conversations: the invariant.                                           *)
(***************************************************************************)
\* What hangs below the same message has the same role.
SameRoles(ms, c) ==
    \A i, j \in Of(ms, c) : ms[i].parent = ms[j].parent => ms[i].role = ms[j].role

Sound(ms, cs, c) == Children(ms, c, cs[c].leaf) = {} /\ SameRoles(ms, c)

StoreTypeOK ==
    /\ db \in [at : {"closed", "migrated", "open"}, version : {0, 1, 4}]
    /\ last \in Nat /\ made \in Nat
    /\ DOMAIN msgs \subseteq 1..last /\ DOMAIN convs \subseteq 1..made
    /\ gen \in [conv : Nat, parent : Nat, prompt : Seq(Nat), covered : Seq(Nat),
                resumed : BOOLEAN]

SchemaOK ==
    /\ db.at = "open" => db.version = 4
    /\ db.at = "migrated" => db.version < 2
    /\ db.at # "open" => gen = NoGeneration
    /\ db.version < 2 => \A i \in DOMAIN msgs : msgs[i].role = "user"

\* In a conversation that was not cut short nothing hangs below the active leaf, and what
\* hangs below one message is all questions or all answers.
RolesOK ==
    db.version = 4 \/ db.at = "migrated" =>
        \A c \in DOMAIN convs : convs[c].whole => Sound(msgs, convs, c)

\* The message a generation answers is there as long as its conversation is, and nobody but
\* the model has answered it.
GenOK ==
    gen # NoGeneration =>
        /\ gen.conv \in 1..made
        /\ gen.conv \in DOMAIN convs =>
              /\ gen.parent # NoId => gen.parent \in Of(msgs, gen.conv)
              /\ convs[gen.conv].whole =>
                    \A j \in Children(msgs, gen.conv, gen.parent) : msgs[j].role = "assistant"

StoreInv == StoreTypeOK /\ Home(msgs, convs) /\ SchemaOK /\ RolesOK /\ GenOK /\ PromptIsBranch

LEMMA SoundSame ==
    ASSUME NEW ms, NEW ns, NEW cs, NEW ds, NEW c, Of(ns, c) = Of(ms, c),
           \A i \in Of(ms, c) : ns[i] = ms[i], ds[c] = cs[c], Sound(ms, cs, c)
    PROVE  Sound(ns, ds, c)
<1>1. Children(ns, c, ds[c].leaf) = Children(ms, c, cs[c].leaf)
  BY SameConversation
<1>2. SameRoles(ns, c)
  BY DEF SameRoles, Sound
<1> QED BY <1>1, <1>2 DEF Sound

\* A generation that goes on does not notice what is done to other conversations.
LEMMA GenerationGoesOn ==
    ASSUME GenOK, PromptIsBranch, made \in Nat, made' \in Nat, made <= made',
           \/ gen' = NoGeneration
           \/ /\ gen' = gen
              /\ gen # NoGeneration /\ gen.conv \in DOMAIN convs' =>
                    /\ gen.conv \in DOMAIN convs /\ convs'[gen.conv] = convs[gen.conv]
                    /\ Of(msgs', gen.conv) = Of(msgs, gen.conv)
                    /\ \A i \in Of(msgs, gen.conv) : msgs'[i] = msgs[i]
    PROVE  GenOK' /\ PromptIsBranch'
<1>1. CASE gen' = NoGeneration
  BY <1>1 DEF GenOK, PromptIsBranch
<1>2. CASE gen' # NoGeneration
  <2> DEFINE c == gen.conv
  <2>1. gen' = gen /\ gen # NoGeneration /\ gen'.conv = gen.conv /\ c \in 1..made'
    BY <1>2 DEF GenOK
  <2>2. ASSUME c \in DOMAIN convs'
        PROVE  /\ c \in DOMAIN convs /\ convs'[c] = convs[c] /\ Of(msgs', c) = Of(msgs, c)
               /\ \A i \in Of(msgs, c) : msgs'[i] = msgs[i]
               /\ Children(msgs', c, gen.parent) = Children(msgs, c, gen.parent)
               /\ BranchTo(msgs', c, gen.parent) = BranchTo(msgs, c, gen.parent)
    <3>1. /\ c \in DOMAIN convs /\ convs'[c] = convs[c] /\ Of(msgs', c) = Of(msgs, c)
          /\ \A i \in Of(msgs, c) : msgs'[i] = msgs[i]
      BY <2>1, <2>2
    <3> QED BY <3>1, SameConversation
  <2>3. GenOK'
    <3> SUFFICES ASSUME c \in DOMAIN convs'
                 PROVE  /\ gen.parent # NoId => gen.parent \in Of(msgs', c)
                        /\ convs'[c].whole =>
                              \A j \in Children(msgs', c, gen.parent) : msgs'[j].role = "assistant"
      BY <2>1 DEF GenOK
    <3>1. \A j \in Children(msgs, c, gen.parent) : j \in Of(msgs, c)
      BY DEF Children
    <3> QED BY <2>1, <2>2, <3>1 DEF GenOK
  <2>4. PromptIsBranch'
    <3> SUFFICES ASSUME ~gen.resumed, c \in DOMAIN convs'
                 PROVE  /\ gen.covered \o gen.prompt =
                               IF gen.parent = NoId THEN <<>> ELSE BranchTo(msgs', c, gen.parent)
                        /\ gen.parent # NoId => gen.prompt # <<>>
      BY <2>1 DEF PromptIsBranch
    <3> QED BY <2>1, <2>2 DEF PromptIsBranch
  <2> QED BY <2>3, <2>4
<1> QED BY <1>1, <1>2

LEMMA CreatedKeeps ==
    ASSUME StoreInv, Up, gen = NoGeneration,
           NEW new \in Seq(MessageType), NEW leaf \in Nat, NEW whole \in BOOLEAN,
           CreatedWith(new, leaf, whole),
           \A k \in 1..Len(new) :
              /\ new[k].conv = made + 1
              /\ \/ new[k].parent = NoId
                 \/ \E m \in 1..Len(new) : m < k /\ new[k].parent = last + m,
           leaf = NoId \/ \E k \in 1..Len(new) : leaf = last + k,
           whole => /\ \A k \in 1..Len(new) : new[k].parent # leaf
                    /\ \A j, k \in 1..Len(new) :
                          new[j].parent = new[k].parent => new[j].role = new[k].role,
           UNCHANGED <<db, gen>> \/ ProcessEnds
    PROVE  StoreInv'
<1> DEFINE N == Len(new)
           d == made + 1
<1>1. Home(msgs, convs) /\ last \in Nat /\ made \in Nat /\ N \in Nat
      /\ DOMAIN msgs \subseteq 1..last /\ DOMAIN convs \subseteq 1..made
  BY LenProperties DEF StoreInv, StoreTypeOK
<1>2. /\ made' = made + 1 /\ last' = last + Len(new) /\ made' \in Nat /\ last' \in Nat
      /\ DOMAIN msgs' \subseteq 1..last' /\ DOMAIN convs' \subseteq 1..made'
      /\ \A i \in DOMAIN msgs : msgs'[i] = msgs[i]
      /\ \A k \in 1..Len(new) : last + k \in DOMAIN msgs' /\ msgs'[last + k] = new[k]
      /\ DOMAIN convs' = DOMAIN convs \cup {made + 1}
      /\ \A c \in DOMAIN convs : convs'[c] = convs[c]
      /\ convs'[made + 1] = [leaf |-> leaf, whole |-> whole]
      /\ Of(msgs', made + 1) = last + 1 .. last + Len(new)
      /\ \A c \in DOMAIN convs : Of(msgs', c) = Of(msgs, c)
      /\ Home(msgs', convs')
  <2>1. /\ \A k \in 1..Len(new) :
              /\ new[k].conv = made + 1
              /\ \/ new[k].parent = NoId
                 \/ \E m \in 1..Len(new) : m < k /\ new[k].parent = last + m
        /\ leaf = NoId \/ \E k \in 1..Len(new) : leaf = last + k
        /\ new \in Seq(MessageType) /\ leaf \in Nat /\ whole \in BOOLEAN
        /\ CreatedWith(new, leaf, whole)
    OBVIOUS
  <2>2. /\ Home(msgs, convs) /\ last \in Nat /\ made \in Nat
        /\ DOMAIN msgs \subseteq 1..last /\ DOMAIN convs \subseteq 1..made
    BY <1>1
  <2> QED BY ONLY <2>1, <2>2, CreatedHolds
<1>3. /\ db.version = 4 /\ gen' = NoGeneration /\ db'.version = 4 /\ db'.at \in {"open", "closed"}
      /\ db' \in [at : {"closed", "migrated", "open"}, version : {0, 1, 4}]
  BY DEF Up, ProcessEnds, StoreInv, StoreTypeOK, SchemaOK
<1>4. StoreTypeOK'
  <2>1. gen' = gen
    BY <1>3
  <2> QED BY <1>2, <1>3, <2>1 DEF StoreInv, StoreTypeOK
<1>5. SchemaOK'
  BY <1>3 DEF SchemaOK
<1>6. ASSUME NEW c \in DOMAIN convs', convs'[c].whole PROVE Sound(msgs', convs', c)
  <2>1. CASE c \in DOMAIN convs
    <3>1. Sound(msgs, convs, c)
      BY <1>2, <1>3, <1>6, <2>1 DEF StoreInv, RolesOK
    <3>2. \A i \in Of(msgs, c) : i \in DOMAIN msgs
      BY DEF Of
    <3> QED BY <1>2, <2>1, <3>1, <3>2, SoundSame
  <2>2. CASE c = made + 1
    <3>1. whole /\ convs'[c].leaf = leaf
      BY <1>2, <1>6, <2>2
    <3>2. \A i \in Of(msgs', c) : i - last \in 1..N /\ msgs'[i] = new[i - last]
      <4> SUFFICES ASSUME NEW i \in Of(msgs', c) PROVE i - last \in 1..N /\ msgs'[i] = new[i - last]
        OBVIOUS
      <4>1. i - last \in 1..N /\ last + (i - last) = i
        BY <1>1, <1>2, <2>2
      <4> QED BY <1>2, <4>1
    <3>3. Children(msgs', c, leaf) = {}
      BY <3>1, <3>2 DEF Children
    <3>4. SameRoles(msgs', c)
      BY <3>1, <3>2 DEF SameRoles
    <3> QED BY <3>1, <3>3, <3>4 DEF Sound
  <2> QED BY <1>2, <2>1, <2>2
<1>7. RolesOK'
  BY <1>6 DEF RolesOK
<1>8. GenOK' /\ PromptIsBranch'
  <2>1. made <= made'
    BY <1>1, <1>2
  <2> QED BY <1>1, <1>2, <1>3, <2>1, GenerationGoesOn DEF StoreInv
<1> QED BY <1>2, <1>4, <1>5, <1>7, <1>8 DEF StoreInv

LEMMA NewConversationKeeps == ASSUME StoreInv, NewConversation PROVE StoreInv'
<1>1. Up /\ gen = NoGeneration /\ CreatedWith(<<>>, NoId, TRUE) /\ UNCHANGED <<db, gen>>
  BY DEF NewConversation, Busy
<1> DEFINE new == <<>>
<1>2. new \in Seq(MessageType) /\ NoId \in Nat /\ \A k \in 1..Len(new) : FALSE
  BY EmptySeq DEF NoId
<1>3. CreatedWith(new, NoId, TRUE)
  BY <1>1
<1> HIDE DEF new
<1> QED BY <1>1, <1>2, <1>3, CreatedKeeps

LEMMA ForkKeeps ==
    ASSUME StoreInv, NEW c \in DOMAIN convs, Fork(c) PROVE StoreInv'
<1>1. /\ Up /\ gen = NoGeneration
      /\ \E k \in 0..Len(Branch(c)) :
            /\ CreatedWith(Copies(SubSeq(Branch(c), 1, k)), IF k = 0 THEN NoId ELSE last + k, TRUE)
            /\ UNCHANGED <<db, gen>> \/ ProcessEnds
  BY DEF Fork, Busy
<1>2. Messages(msgs) /\ last \in Nat /\ made \in Nat /\ convs[c].leaf \in Nat
  BY DEF StoreInv, StoreTypeOK, Home, Conversation
<1>3. \E i \in Nat : Branch(c) = BranchTo(msgs, c, i)
  <2>1. CASE convs[c].leaf # NoId
    BY <1>2, <2>1 DEF Branch
  <2>2. CASE convs[c].leaf = NoId
    <3>1. NoId \notin Of(msgs, c) /\ NoId \in Nat
      BY <1>2, ParentsType DEF NoId
    <3>2. BranchTo(msgs, c, NoId) = <<>>
      BY <1>2, <3>1, BranchFacts
    <3> QED BY <2>2, <3>1, <3>2 DEF Branch
  <2> QED BY <2>1, <2>2
<1>4. PICK i \in Nat : Branch(c) = BranchTo(msgs, c, i)
  BY <1>3
<1>5. PICK n \in 0..Len(BranchTo(msgs, c, i)) :
            /\ CreatedWith(Copies(SubSeq(BranchTo(msgs, c, i), 1, n)),
                           IF n = 0 THEN NoId ELSE last + n, TRUE)
            /\ UNCHANGED <<db, gen>> \/ ProcessEnds
  BY <1>1, <1>4
<1> DEFINE s == SubSeq(BranchTo(msgs, c, i), 1, n)
           new == Copies(s)
           leaf == IF n = 0 THEN NoId ELSE last + n
<1> HIDE DEF new, leaf
<1>6. /\ IsOrder(s, Parents(msgs, c)) /\ Len(s) = n
      /\ \A k \in 1..n : k # 1 => msgs[s[k]].parent = s[k - 1]
      /\ n >= 1 => msgs[s[1]].parent = NoId
  <2>1. n \in 0..Len(BranchTo(msgs, c, i))
    OBVIOUS
  <2>2. Messages(msgs)
    BY <1>2
  <2> DEFINE branch == BranchTo(msgs, c, i)
  <2>3. /\ IsOrder(SubSeq(branch, 1, n), Parents(msgs, c)) /\ Len(SubSeq(branch, 1, n)) = n
        /\ \A k \in 1..n : SubSeq(branch, 1, n)[k] = branch[k] /\ branch[k] \in Of(msgs, c)
        /\ \A k \in 1..n : k # 1 => msgs[SubSeq(branch, 1, n)[k]].parent = SubSeq(branch, 1, n)[k - 1]
        /\ n >= 1 => msgs[SubSeq(branch, 1, n)[1]].parent = NoId
    BY ONLY <2>1, <2>2, PrefixIsOrder, i \in Nat
  <2> QED BY ONLY <2>3
<1> HIDE DEF s
<1>7. /\ new \in Seq(MessageType) /\ Len(new) = n /\ n \in Nat
      /\ \A k \in 1..n :
            /\ NewId(s, s[k]) = last + k
            /\ new[k].conv = made + 1
            /\ new[k].parent = NewId(s, msgs[s[k]].parent)
            /\ \/ msgs[s[k]].parent = NoId /\ new[k].parent = NoId
               \/ \E m \in 1..n : /\ m < k /\ msgs[s[k]].parent = s[m]
                                  /\ new[k].parent = last + m
  <2>1. IsOrder(s, Parents(msgs, c))
    BY <1>6
  <2>2. Len(s) = n
    BY <1>6
  <2>3. new = Copies(s)
    BY DEF new
  <2>4. Messages(msgs) /\ last \in Nat /\ made \in Nat
    BY <1>2
  <2>5. AreCopies(new, s, c)
    BY ONLY <2>1, <2>3, <2>4, CopiesFacts
  <2> QED BY ONLY <2>2, <2>5 DEF AreCopies
<1>8. ASSUME NEW k \in 1..n PROVE new[k].parent = IF k = 1 THEN NoId ELSE last + (k - 1)
  <2>1. CASE k = 1
    <3>1. msgs[s[1]].parent = NoId /\ 1 \in 1..n
      BY <1>6, <1>7, <1>8, <2>1
    <3>2. \A m \in 1..n : ~(m < k)
      BY <1>7, <2>1
    <3> QED BY <1>7, <1>8, <2>1, <3>1, <3>2
  <2>2. CASE k # 1
    <3>1. k - 1 \in 1..n
      BY <1>7, <1>8, <2>2
    <3>2. new[k].parent = NewId(s, s[k - 1])
      BY <1>6, <1>7, <1>8, <2>2
    <3> QED BY <1>7, <2>2, <3>1, <3>2
  <2> QED BY <2>1, <2>2
<1>9. /\ \A k \in 1..n : new[k].parent # leaf
      /\ \A j, k \in 1..n : new[j].parent = new[k].parent => j = k
      /\ leaf \in Nat /\ (leaf = NoId \/ \E k \in 1..n : leaf = last + k)
  <2>1. ASSUME NEW k \in 1..n PROVE new[k].parent # leaf
    <3>1. leaf = last + n /\ k <= n /\ k >= 1 /\ k \in Nat /\ n \in Nat /\ last \in Nat
      BY <1>2, <1>7, <2>1 DEF leaf
    <3>2. new[k].parent = IF k = 1 THEN 0 ELSE last + (k - 1)
      BY <1>8 DEF NoId
    <3> QED BY ONLY <3>1, <3>2
  <2>2. ASSUME NEW j \in 1..n, NEW k \in 1..n, new[j].parent = new[k].parent PROVE j = k
    <3>1. /\ new[k].parent = IF k = 1 THEN 0 ELSE last + (k - 1)
          /\ new[j].parent = IF j = 1 THEN 0 ELSE last + (j - 1)
      BY <1>8 DEF NoId
    <3>2. last \in Nat /\ j \in Nat /\ k \in Nat /\ j >= 1 /\ k >= 1
      BY <1>2, <1>7
    <3> QED BY ONLY <2>2, <3>1, <3>2
  <2>3. leaf \in Nat
    BY <1>2, <1>7 DEF NoId, leaf
  <2>4. leaf = NoId \/ \E k \in 1..n : leaf = last + k
    <3>1. CASE n = 0
      BY <3>1 DEF leaf
    <3>2. CASE n # 0
      <4>1. n \in 1..n /\ leaf = last + n
        BY <1>7, <3>2 DEF leaf
      <4> QED BY <4>1
    <3> QED BY <3>1, <3>2
  <2> QED BY <2>1, <2>2, <2>3, <2>4
<1>10. CreatedWith(new, leaf, TRUE) /\ (UNCHANGED <<db, gen>> \/ ProcessEnds)
  BY <1>5 DEF new, s, leaf
<1>11. /\ \A k \in 1..Len(new) :
              /\ new[k].conv = made + 1
              /\ \/ new[k].parent = NoId
                 \/ \E m \in 1..Len(new) : m < k /\ new[k].parent = last + m
       /\ leaf = NoId \/ \E k \in 1..Len(new) : leaf = last + k
       /\ \A k \in 1..Len(new) : new[k].parent # leaf
       /\ \A j, k \in 1..Len(new) : new[j].parent = new[k].parent => new[j].role = new[k].role
  BY <1>7, <1>9
<1> QED BY <1>1, <1>7, <1>9, <1>10, <1>11, CreatedKeeps

LEMMA AddedHolds ==
    ASSUME Home(msgs, convs), last \in Nat, made \in Nat,
           DOMAIN msgs \subseteq 1..last, DOMAIN convs \subseteq 1..made,
           NEW c, NEW p, NEW role \in {"user", "assistant"}, CanAdd(c, p), Added(c, p, role)
    PROVE  /\ last' = last + 1 /\ last' \in Nat /\ c \in DOMAIN convs
           /\ DOMAIN msgs' \subseteq 1..last' /\ DOMAIN convs' = DOMAIN convs
           /\ \A i \in DOMAIN msgs : msgs'[i] = msgs[i] /\ i \in DOMAIN msgs'
           /\ last + 1 \in DOMAIN msgs' /\ msgs'[last + 1] = Message(c, p, role, last + 1)
           /\ convs'[c] = [convs[c] EXCEPT !.leaf = last + 1]
           /\ convs'[c].leaf = last + 1 /\ convs'[c].whole = convs[c].whole
           /\ \A d \in DOMAIN convs \ {c} : convs'[d] = convs[d] /\ Of(msgs', d) = Of(msgs, d)
           /\ Of(msgs', c) = Of(msgs, c) \cup {last + 1}
           /\ Children(msgs', c, last + 1) = {}
           /\ Home(msgs', convs')
<1> DEFINE id == last + 1
           m == Message(c, p, role, id)
<1>1. /\ c \in DOMAIN convs /\ (p = NoId \/ p \in Of(msgs, c))
      /\ msgs' = With(msgs, [i \in {id} |-> Message(c, p, role, i)])
      /\ convs' = [convs EXCEPT ![c].leaf = id] /\ last' = id
  BY DEF CanAdd, Added
<1>2. /\ id \in Nat \ {0} /\ id \notin DOMAIN msgs /\ \A i \in DOMAIN msgs : i < id
      /\ c \in Nat \ {0} /\ convs \in [DOMAIN convs -> Conversation] /\ convs[c] \in Conversation
      /\ DOMAIN convs \subseteq Nat \ {0}
  BY <1>1 DEF Home
<1>3. p \in Nat /\ p < id
  BY <1>1, <1>2 DEF Of, NoId
<1>4. m \in MessageType /\ m.conv = c /\ m.parent = p
  BY <1>2, <1>3 DEF Message, MessageType
<1>5. /\ DOMAIN msgs' = DOMAIN msgs \cup {id} /\ msgs'[id] = m
      /\ \A i \in DOMAIN msgs : msgs'[i] = msgs[i] /\ i \in DOMAIN msgs'
      /\ msgs' = [i \in DOMAIN msgs' |-> msgs'[i]]
  BY <1>1, <1>2 DEF With
<1> HIDE DEF m
<1>6. \A i \in DOMAIN msgs : msgs[i] \in MessageType
  BY DEF Home, Messages
<1>7. msgs' \in [DOMAIN msgs \cup {id} -> MessageType]
  BY <1>4, <1>5, <1>6
<1>8. /\ DOMAIN convs' = DOMAIN convs /\ convs'[c] = [convs[c] EXCEPT !.leaf = id]
      /\ \A d \in DOMAIN convs : d # c => convs'[d] = convs[d]
  BY <1>1, <1>2
<1>9. /\ convs'[c].leaf = id /\ convs'[c].whole = convs[c].whole
      /\ convs' \in [DOMAIN convs' -> Conversation]
  BY <1>1, <1>2, <1>8 DEF Conversation
<1>10. Of(msgs', c) = Of(msgs, c) \cup {id}
  BY <1>4, <1>5 DEF Of
<1>11. ASSUME NEW d, d # c PROVE Of(msgs', d) = Of(msgs, d)
  BY <1>4, <1>5, <1>11 DEF Of
<1>12. Home(msgs', convs')
  <2>1. IsFiniteSet({id}) /\ {id} \subseteq Nat \ {0}
    BY <1>2, FS_Singleton
  <2>2. \A i \in {id} : /\ msgs'[i].conv \in DOMAIN convs'
                        /\ msgs'[i].parent # NoId => /\ msgs'[i].parent \in Of(msgs', msgs'[i].conv)
                                                     /\ msgs'[i].parent < i
    BY <1>1, <1>3, <1>4, <1>5, <1>8, <1>10
  <2>3. \A d \in DOMAIN convs' : convs'[d].leaf # NoId => convs'[d].leaf \in Of(msgs', d)
    BY <1>8, <1>9, <1>10, <1>11 DEF Home
  <2> HIDE DEF id
  <2>4. DOMAIN convs' \subseteq Nat \ {0} /\ DOMAIN convs \subseteq DOMAIN convs'
    BY <1>2, <1>8
  <2> QED BY <1>5, <1>7, <1>9, <2>1, <2>2, <2>3, <2>4, Grown
<1>13. Children(msgs', c, id) = {}
  <2> SUFFICES ASSUME NEW j \in Of(msgs', c), msgs'[j].parent = id PROVE FALSE
    BY DEF Children
  <2>1. CASE j = id
    BY <1>2, <1>3, <1>4, <1>5, <2>1
  <2>2. CASE j # id
    <3>1. j \in DOMAIN msgs /\ msgs[j].parent = id
      BY <1>5, <2>2 DEF Of
    <3>2. msgs[j].parent # NoId => msgs[j].parent \in DOMAIN msgs
      BY <3>1 DEF Home, Messages, Of
    <3> QED BY <1>2, <3>1, <3>2 DEF NoId
  <2> QED BY <2>1, <2>2
<1>14. DOMAIN msgs' \subseteq 1..last'
  BY <1>1, <1>5
<1> QED BY <1>1, <1>2, <1>5, <1>8, <1>9, <1>10, <1>11, <1>12, <1>13, <1>14 DEF m

LEMMA AddedKeeps ==
    ASSUME StoreInv, Up, NEW c, NEW p, NEW role \in {"user", "assistant"},
           CanAdd(c, p), Added(c, p, role), UNCHANGED <<db, made>>,
           convs[c].whole => \A j \in Children(msgs, c, p) : msgs[j].role = role,
           gen' \in [conv : Nat, parent : Nat, prompt : Seq(Nat), covered : Seq(Nat),
                     resumed : BOOLEAN]
    PROVE  StoreTypeOK' /\ Home(msgs', convs') /\ SchemaOK' /\ RolesOK'
<1>1. /\ Home(msgs, convs) /\ last \in Nat /\ made \in Nat
      /\ DOMAIN msgs \subseteq 1..last /\ DOMAIN convs \subseteq 1..made
      /\ db.at = "open" /\ db.version = 4
  BY DEF StoreInv, StoreTypeOK, Up, SchemaOK
<1>2. /\ last' = last + 1 /\ last' \in Nat /\ c \in DOMAIN convs
      /\ DOMAIN msgs' \subseteq 1..last' /\ DOMAIN convs' = DOMAIN convs
      /\ \A i \in DOMAIN msgs : msgs'[i] = msgs[i] /\ i \in DOMAIN msgs'
      /\ last + 1 \in DOMAIN msgs' /\ msgs'[last + 1] = Message(c, p, role, last + 1)
      /\ convs'[c].leaf = last + 1 /\ convs'[c].whole = convs[c].whole
      /\ \A d \in DOMAIN convs \ {c} : convs'[d] = convs[d] /\ Of(msgs', d) = Of(msgs, d)
      /\ Of(msgs', c) = Of(msgs, c) \cup {last + 1}
      /\ Children(msgs', c, last + 1) = {}
      /\ Home(msgs', convs')
  <2>1. CanAdd(c, p) /\ Added(c, p, role) /\ role \in {"user", "assistant"}
    OBVIOUS
  <2>2. /\ last' = last + 1 /\ last' \in Nat /\ c \in DOMAIN convs
        /\ DOMAIN msgs' \subseteq 1..last' /\ DOMAIN convs' = DOMAIN convs
    BY ONLY <1>1, <2>1, AddedHolds
  <2>3. \A i \in DOMAIN msgs : msgs'[i] = msgs[i] /\ i \in DOMAIN msgs'
    BY ONLY <1>1, <2>1, AddedHolds
  <2>4. last + 1 \in DOMAIN msgs' /\ msgs'[last + 1] = Message(c, p, role, last + 1)
    BY ONLY <1>1, <2>1, AddedHolds
  <2>5. convs'[c].leaf = last + 1 /\ convs'[c].whole = convs[c].whole
    BY ONLY <1>1, <2>1, AddedHolds
  <2>6. \A d \in DOMAIN convs \ {c} : convs'[d] = convs[d] /\ Of(msgs', d) = Of(msgs, d)
    BY ONLY <1>1, <2>1, AddedHolds
  <2>7. /\ Of(msgs', c) = Of(msgs, c) \cup {last + 1}
        /\ Children(msgs', c, last + 1) = {}
        /\ Home(msgs', convs')
    BY ONLY <1>1, <2>1, AddedHolds
  <2> QED BY <2>2, <2>3, <2>4, <2>5, <2>6, <2>7
<1>3. StoreTypeOK'
  BY <1>1, <1>2 DEF StoreInv, StoreTypeOK
<1>4. SchemaOK'
  BY <1>1 DEF SchemaOK
<1>5. ASSUME NEW d \in DOMAIN convs', convs'[d].whole PROVE Sound(msgs', convs', d)
  <2>1. Sound(msgs, convs, d)
    BY <1>1, <1>2, <1>5 DEF StoreInv, RolesOK
  <2>2. CASE d # c
    <3>1. \A i \in Of(msgs, d) : i \in DOMAIN msgs
      BY DEF Of
    <3> QED BY <1>2, <2>1, <2>2, <3>1, SoundSame
  <2>3. CASE d = c
    <3>1. msgs'[last + 1].parent = p /\ msgs'[last + 1].role = role
      BY <1>2 DEF Message
    <3>2. \A i \in Of(msgs, c) : msgs'[i] = msgs[i]
      BY <1>2 DEF Of
    <3>3. \A i \in Of(msgs, c) : msgs[i].parent = p => msgs[i].role = role
      BY <1>2, <1>5, <2>3 DEF Children
    <3>4. SameRoles(msgs', c)
      <4> SUFFICES ASSUME NEW i \in Of(msgs', c), NEW j \in Of(msgs', c),
                          msgs'[i].parent = msgs'[j].parent
                   PROVE  msgs'[i].role = msgs'[j].role
        BY DEF SameRoles
      <4>1. CASE i \in Of(msgs, c) /\ j \in Of(msgs, c)
        <5>1. SameRoles(msgs, c) /\ msgs'[i] = msgs[i] /\ msgs'[j] = msgs[j]
          BY <2>1, <2>3, <3>2, <4>1 DEF Sound
        <5> QED BY <4>1, <5>1 DEF SameRoles
      <4>2. CASE i = last + 1
        BY <1>2, <3>1, <3>2, <3>3, <4>2
      <4>3. CASE j = last + 1
        BY <1>2, <3>1, <3>2, <3>3, <4>3
      <4> QED BY <1>2, <4>1, <4>2, <4>3
    <3> QED BY <1>2, <2>3, <3>4 DEF Sound
  <2> QED BY <2>2, <2>3
<1>6. RolesOK'
  BY <1>5 DEF RolesOK
<1> QED BY <1>2, <1>3, <1>4, <1>6

LEMMA TurnBegins ==
    ASSUME NEW c \in Nat \ {0}, NEW p \in Nat, NEW path \in Seq(Nat), BeginTurn(c, p, path)
    PROVE  /\ gen' \in [conv : Nat, parent : Nat, prompt : Seq(Nat), covered : Seq(Nat),
                        resumed : BOOLEAN]
           /\ gen' # NoGeneration /\ gen'.conv = c /\ gen'.parent = p /\ gen'.resumed = FALSE
           /\ gen'.covered \o gen'.prompt = path
           /\ path # <<>> => gen'.prompt # <<>>
<1> DEFINE covered == SubSeq(path, 1, Len(path) - Len(Recent(path)))
<1>1. /\ Recent(path) \in Seq(Nat) /\ covered \in Seq(Nat)
      /\ covered \o Recent(path) = path
      /\ path # <<>> => Recent(path) # <<>>
  BY RecentFacts
<1>2. gen' = [conv |-> c, parent |-> p, resumed |-> FALSE, prompt |-> Recent(path),
              covered |-> covered]
  BY DEF BeginTurn
<1> HIDE DEF covered
<1> QED BY <1>1, <1>2 DEF NoGeneration, NoId

\* A question, asked below p or instead of what is there.
LEMMA QuestionKeeps ==
    ASSUME StoreInv, Up, NEW c, NEW p, CanAdd(c, p), Added(c, p, "user"), UNCHANGED <<db, made>>,
           BeginTurn(c, last', BranchTo(msgs', c, last')),
           convs[c].whole => \A j \in Children(msgs, c, p) : msgs[j].role = "user"
    PROVE  StoreInv'
<1> DEFINE path == BranchTo(msgs', c, last')
<1>1. /\ Home(msgs, convs) /\ last \in Nat /\ made \in Nat /\ made' = made
      /\ DOMAIN msgs \subseteq 1..last /\ DOMAIN convs \subseteq 1..made
  BY DEF StoreInv, StoreTypeOK
<1>2. "user" \in {"user", "assistant"}
  OBVIOUS
<1>3. /\ last' = last + 1 /\ last' \in Nat /\ c \in DOMAIN convs
      /\ Of(msgs', c) = Of(msgs, c) \cup {last + 1}
      /\ Children(msgs', c, last + 1) = {}
      /\ Home(msgs', convs')
  BY <1>1, <1>2, AddedHolds
<1>4. /\ path \in Seq(Of(msgs', c)) /\ path # <<>> /\ Of(msgs', c) \subseteq Nat \ {0}
  <2>1. Messages(msgs')
    BY <1>3 DEF Home
  <2>2. path \in Seq(Of(msgs', c)) /\ (path = <<>> <=> last' \notin Of(msgs', c))
    BY <1>3, <2>1, BranchFacts
  <2>3. Of(msgs', c) \subseteq Nat \ {0}
    BY <2>1, ParentsType
  <2> QED BY <1>3, <2>2, <2>3
<1> HIDE DEF path
<1>5. path \in Seq(Nat)
  <2>1. Of(msgs', c) \subseteq Nat
    BY <1>4
  <2> QED BY <1>4, <2>1, SeqMonotonic
<1>6. c \in Nat \ {0} /\ c \in 1..made
  BY <1>1, <1>3
<1>7. /\ gen' \in [conv : Nat, parent : Nat, prompt : Seq(Nat), covered : Seq(Nat),
                        resumed : BOOLEAN]
      /\ gen' # NoGeneration /\ gen'.conv = c /\ gen'.parent = last' /\ gen'.resumed = FALSE
      /\ gen'.covered \o gen'.prompt = path
      /\ path # <<>> => gen'.prompt # <<>>
  BY <1>3, <1>5, <1>6, TurnBegins DEF path
<1>8. StoreTypeOK' /\ Home(msgs', convs') /\ SchemaOK' /\ RolesOK'
  BY <1>2, <1>7, AddedKeeps
<1>9. GenOK'
  BY <1>1, <1>3, <1>6, <1>7 DEF GenOK
<1>10. PromptIsBranch'
  <2>1. gen'.covered \o gen'.prompt =
             IF gen'.parent = NoId THEN <<>> ELSE BranchTo(msgs', gen'.conv, gen'.parent)
    BY <1>1, <1>3, <1>7 DEF path, NoId
  <2> QED BY <1>4, <1>7, <2>1 DEF PromptIsBranch
<1> QED BY <1>8, <1>9, <1>10 DEF StoreInv

LEMMA UserTurnKeeps == ASSUME StoreInv, NEW c \in DOMAIN convs, UserTurn(c) PROVE StoreInv'
<1>1. ASSUME convs[c].whole PROVE Children(msgs, c, convs[c].leaf) = {}
  BY <1>1 DEF StoreInv, SchemaOK, RolesOK, UserTurn, Up, Sound
<1>2. /\ Up /\ CanAdd(c, convs[c].leaf) /\ Added(c, convs[c].leaf, "user")
      /\ BeginTurn(c, last', BranchTo(msgs', c, last')) /\ UNCHANGED <<db, made>>
  BY DEF UserTurn
<1> QED BY <1>1, <1>2, QuestionKeeps

LEMMA EditMessageKeeps == ASSUME StoreInv, NEW i \in DOMAIN msgs, EditMessage(i) PROVE StoreInv'
<1> DEFINE c == msgs[i].conv
           p == msgs[i].parent
<1>1. /\ Up /\ msgs[i].role = "user" /\ CanAdd(c, p) /\ Added(c, p, "user")
      /\ BeginTurn(c, last', BranchTo(msgs', c, last')) /\ UNCHANGED <<db, made>>
  BY DEF EditMessage
<1>2. c \in DOMAIN convs /\ i \in Of(msgs, c)
  BY <1>1 DEF CanAdd, Of
<1>3. ASSUME convs[c].whole, NEW j \in Children(msgs, c, p) PROVE msgs[j].role = "user"
  <2>1. SameRoles(msgs, c)
    BY <1>1, <1>2, <1>3 DEF StoreInv, SchemaOK, RolesOK, Up, Sound
  <2>2. j \in Of(msgs, c) /\ msgs[j].parent = msgs[i].parent
    BY <1>3 DEF Children
  <2> QED BY <1>1, <1>2, <2>1, <2>2 DEF SameRoles
<1> HIDE DEF c, p
<1> QED BY <1>1, <1>3, QuestionKeeps

LEMMA StreamEndsKeeps == ASSUME StoreInv, NEW text, StreamEnds(text) PROVE StoreInv'
<1> DEFINE c == gen.conv
           p == gen.parent
<1>1. /\ Up /\ gen # NoGeneration /\ gen' = NoGeneration /\ UNCHANGED <<db, made>>
      /\ IF text /\ c \in DOMAIN convs
         THEN CanAdd(c, p) /\ Added(c, p, "assistant")
         ELSE UNCHANGED <<msgs, convs, last>>
  BY DEF StreamEnds, Busy
<1>2. NoGeneration \in [conv : Nat, parent : Nat, prompt : Seq(Nat), covered : Seq(Nat),
                        resumed : BOOLEAN]
  BY EmptySeq DEF NoGeneration, NoId
<1>3. GenOK' /\ PromptIsBranch'
  BY <1>1 DEF GenOK, PromptIsBranch
<1>4. StoreTypeOK' /\ Home(msgs', convs') /\ SchemaOK' /\ RolesOK'
  <2>1. CASE text /\ c \in DOMAIN convs
    <3>1. CanAdd(c, p) /\ Added(c, p, "assistant") /\ "assistant" \in {"user", "assistant"}
      BY <1>1, <2>1
    <3>2. convs[c].whole => \A j \in Children(msgs, c, p) : msgs[j].role = "assistant"
      BY <1>1, <2>1 DEF StoreInv, GenOK
    <3> HIDE DEF c, p
    <3> QED BY <1>1, <1>2, <3>1, <3>2, AddedKeeps
  <2>2. CASE ~(text /\ c \in DOMAIN convs)
    <3>1. UNCHANGED <<msgs, convs, last, db, made>> /\ gen' = NoGeneration
      BY <1>1, <2>2
    <3>2. StoreTypeOK' /\ Home(msgs', convs')
      BY <1>2, <3>1 DEF StoreInv, StoreTypeOK
    <3>3. SchemaOK'
      BY <3>1 DEF StoreInv, SchemaOK
    <3>4. RolesOK'
      BY <3>1 DEF StoreInv, RolesOK
    <3> QED BY <3>2, <3>3, <3>4
  <2> QED BY <2>1, <2>2
<1> QED BY <1>3, <1>4 DEF StoreInv

\* An action that only begins a generation.
LEMMA BegunKeeps ==
    ASSUME StoreInv, Up, UNCHANGED <<db, dataVars>>,
           gen' \in [conv : Nat, parent : Nat, prompt : Seq(Nat), covered : Seq(Nat),
                     resumed : BOOLEAN],
           GenOK', PromptIsBranch'
    PROVE  StoreInv'
<1>1. UNCHANGED <<db, msgs, convs, last, made>> /\ db.at = "open"
  BY DEF dataVars, Up
<1>2. StoreTypeOK' /\ Home(msgs', convs')
  BY <1>1 DEF StoreInv, StoreTypeOK
<1>3. SchemaOK'
  BY <1>1 DEF StoreInv, SchemaOK
<1>4. RolesOK'
  BY <1>1 DEF StoreInv, RolesOK
<1> QED BY <1>2, <1>3, <1>4 DEF StoreInv

LEMMA RegenerateKeeps == ASSUME StoreInv, NEW i \in DOMAIN msgs, RegenerateMessage(i) PROVE StoreInv'
<1> DEFINE c == msgs[i].conv
           p == msgs[i].parent
           path == IF p = NoId THEN <<>> ELSE BranchTo(msgs, c, p)
<1>1. /\ Up /\ msgs[i].role = "assistant" /\ BeginTurn(c, p, path) /\ UNCHANGED <<db, dataVars>>
  BY DEF RegenerateMessage
<1>2. Messages(msgs) /\ c \in DOMAIN convs /\ i \in Of(msgs, c) /\ DOMAIN convs \subseteq 1..made
      /\ made \in Nat
  BY DEF StoreInv, StoreTypeOK, Home, Of
<1>3. /\ c \in Nat \ {0} /\ p \in Nat /\ (p # NoId => p \in Of(msgs, c))
      /\ Of(msgs, c) \subseteq Nat \ {0}
  BY <1>2, ParentsType
<1>4. path \in Seq(Nat) /\ (p # NoId => path # <<>>)
  <2>1. CASE p = NoId
    BY <2>1, EmptySeq
  <2>2. CASE p # NoId
    <3>1. BranchTo(msgs, c, p) \in Seq(Of(msgs, c)) /\ BranchTo(msgs, c, p) # <<>>
      BY <1>2, <1>3, <2>2, BranchFacts
    <3>2. BranchTo(msgs, c, p) \in Seq(Nat)
      <4>1. Of(msgs, c) \subseteq Nat
        BY <1>3
      <4> HIDE DEF c, p
      <4> QED BY <3>1, <4>1, SeqMonotonic
    <3> QED BY <2>2, <3>1, <3>2
  <2> QED BY <2>1, <2>2
<1> HIDE DEF path, c, p
<1>5. /\ gen' \in [conv : Nat, parent : Nat, prompt : Seq(Nat), covered : Seq(Nat),
                   resumed : BOOLEAN]
      /\ gen' # NoGeneration /\ gen'.conv = c /\ gen'.parent = p /\ gen'.resumed = FALSE
      /\ gen'.covered \o gen'.prompt = path
      /\ path # <<>> => gen'.prompt # <<>>
  BY <1>1, <1>3, <1>4, TurnBegins
<1>6. UNCHANGED <<msgs, convs, made>>
  BY <1>1 DEF dataVars
<1>7. ASSUME convs[c].whole, NEW j \in Children(msgs, c, p) PROVE msgs[j].role = "assistant"
  <2>1. SameRoles(msgs, c)
    BY <1>1, <1>2, <1>7 DEF StoreInv, SchemaOK, RolesOK, Up, Sound
  <2>2. j \in Of(msgs, c) /\ msgs[j].parent = msgs[i].parent
    BY <1>7 DEF Children, p
  <2> QED BY <1>1, <1>2, <2>1, <2>2 DEF SameRoles
<1>8. GenOK'
  BY <1>2, <1>3, <1>5, <1>6, <1>7 DEF GenOK
<1>9. PromptIsBranch'
  <2>1. gen'.covered \o gen'.prompt =
             IF gen'.parent = NoId THEN <<>> ELSE BranchTo(msgs', gen'.conv, gen'.parent)
    BY <1>5, <1>6 DEF path
  <2> QED BY <1>4, <1>5, <2>1 DEF PromptIsBranch
<1> QED BY <1>1, <1>5, <1>8, <1>9, BegunKeeps

LEMMA ResumeRunKeeps == ASSUME StoreInv, NEW c \in DOMAIN convs, ResumeRun(c) PROVE StoreInv'
<1> DEFINE p == convs[c].leaf
<1>1. /\ Up /\ UNCHANGED <<db, dataVars>>
      /\ gen' = [NoGeneration EXCEPT !.conv = c, !.parent = p, !.resumed = TRUE]
  BY DEF ResumeRun
<1>2. c \in 1..made /\ made \in Nat /\ p \in Nat /\ (p # NoId => p \in Of(msgs, c))
  BY DEF StoreInv, StoreTypeOK, Home, Conversation
<1>3. ASSUME convs[c].whole PROVE Children(msgs, c, p) = {}
  BY <1>1, <1>3 DEF StoreInv, SchemaOK, RolesOK, Up, Sound
<1> HIDE DEF p
<1>4. gen' = [conv |-> c, parent |-> p, prompt |-> <<>>, covered |-> <<>>, resumed |-> TRUE]
  BY <1>1 DEF NoGeneration
<1>5. gen' \in [conv : Nat, parent : Nat, prompt : Seq(Nat), covered : Seq(Nat),
                resumed : BOOLEAN]
  BY <1>2, <1>4, EmptySeq
<1>6. gen'.conv = c /\ gen'.parent = p /\ gen'.resumed = TRUE
  BY <1>4
<1>7. GenOK'
  BY <1>1, <1>2, <1>3, <1>6 DEF GenOK, dataVars
<1>8. PromptIsBranch'
  BY <1>6 DEF PromptIsBranch
<1> QED BY <1>1, <1>5, <1>7, <1>8, BegunKeeps

LEMMA GreatestExists ==
    ASSUME NEW n \in Nat, NEW S, S \subseteq 0..n, S # {}
    PROVE  Max(S) \in S /\ \A x \in S : x <= Max(S)
<1> DEFINE R == {n - x : x \in S}
           m == Min(R)
<1>1. \A x \in S : x \in Nat /\ x <= n /\ n - x \in Nat
  OBVIOUS
<1>2. R \subseteq Nat /\ R # {}
  BY <1>1
<1>3. m \in R /\ \A y \in R : m <= y
  <2> HIDE DEF R
  <2> QED BY <1>2, LeastExists
<1> HIDE DEF m
<1>4. PICK z \in S : m = n - z
  BY <1>3
<1>5. ASSUME NEW x \in S PROVE z >= x
  <2>1. m <= n - x
    BY <1>3
  <2> QED BY <1>1, <1>4, <2>1
<1>6. Max(S) \in S /\ \A x \in S : Max(S) >= x
  BY <1>5 DEF Max
<1>7. ASSUME NEW x \in S PROVE x <= Max(S)
  BY <1>1, <1>6
<1> QED BY <1>6, <1>7

\* Under every message there is a newest one without children.
LEMMA NewestLeafFacts ==
    ASSUME NEW n \in Nat, NEW ms, Messages(ms), DOMAIN ms \subseteq 1..n, NEW j \in DOMAIN ms
    PROVE  LET c == ms[j].conv
               l == NewestLeaf(ms, j)
           IN  l \in Of(ms, c) /\ Children(ms, c, l) = {} /\ j \in ToSet(BranchTo(ms, c, l))
<1> DEFINE c == ms[j].conv
           On(k) == j \in ToSet(BranchTo(ms, c, k))
           below == {k \in Of(ms, c) : On(k)}
           leaves == {k \in Of(ms, c) : Children(ms, c, k) = {} /\ On(k)}
           m == Max(below)
<1>1. Of(ms, c) \subseteq Nat \ {0} /\ Of(ms, c) \subseteq 1..n /\ j \in Of(ms, c)
  <2>1. Of(ms, c) \subseteq Nat \ {0}
    BY ParentsType
  <2> QED BY <2>1 DEF Of
<1>2. ASSUME NEW k \in Of(ms, c)
      PROVE  LET b == BranchTo(ms, c, k)
             IN  /\ DOMAIN b = 1..Len(b) /\ Len(b) \in Nat /\ Len(b) >= 1 /\ b[Len(b)] = k
                 /\ b = Append(BranchTo(ms, c, ms[k].parent), k)
  <2>1. k \in Nat
    BY <1>1
  <2>2. /\ BranchTo(ms, c, k) \in Seq(Of(ms, c)) /\ Len(BranchTo(ms, c, k)) >= 1
        /\ BranchTo(ms, c, k)[Len(BranchTo(ms, c, k))] = k
        /\ BranchTo(ms, c, k) = Append(BranchTo(ms, c, ms[k].parent), k)
    BY <2>1, BranchFacts
  <2> HIDE DEF c
  <2> QED BY <2>2, LenProperties
<1>3. On(j)
  <2> DEFINE b == BranchTo(ms, c, j)
  <2>1. Len(b) \in DOMAIN b /\ b[Len(b)] = j
    BY <1>1, <1>2
  <2> HIDE DEF b
  <2>2. j \in ToSet(b)
    BY <2>1 DEF ToSet
  <2> QED BY <2>2 DEF b
<1>4. m \in below /\ \A x \in below : x <= m
  <2>1. below \subseteq 0..n /\ below # {}
    BY <1>1, <1>3
  <2> HIDE DEF below
  <2> QED BY <2>1, GreatestExists
<1> HIDE DEF m
<1>5. Children(ms, c, m) = {}
  <2> SUFFICES ASSUME NEW k \in Children(ms, c, m) PROVE FALSE
    OBVIOUS
  <2> DEFINE b == BranchTo(ms, c, m)
             d == BranchTo(ms, c, k)
  <2>1. k \in Of(ms, c) /\ ms[k].parent = m /\ m \in Nat \ {0} /\ k \in Nat
    BY <1>1, <1>4 DEF Children
  <2>2. m < k
    <3>1. ms[k].parent # NoId => ms[k].parent < k
      BY <2>1, ParentsType
    <3> QED BY <2>1, <3>1 DEF NoId
  <2>3. d = Append(b, k) /\ b \in Seq(Of(ms, c))
    <3>1. m \in Nat
      BY <2>1
    <3> QED BY <1>2, <2>1, <3>1, BranchFacts
  <2>4. PICK a \in DOMAIN b : b[a] = j
    BY <1>4 DEF ToSet
  <2> HIDE DEF b, c, d
  <2>5. a \in DOMAIN d /\ d[a] = j
    <3>1. Len(b) \in Nat /\ DOMAIN b = 1..Len(b)
      BY <2>3, LenProperties
    <3>2. /\ d \in Seq(Of(ms, c)) /\ Len(d) = Len(b) + 1
          /\ \A x \in 1..Len(b) : d[x] = b[x]
      BY <2>1, <2>3, AppendProperties
    <3>3. DOMAIN d = 1..Len(d)
      BY <3>2, LenProperties
    <3> QED BY <2>4, <3>1, <3>2, <3>3
  <2>6. j \in ToSet(d)
    BY <2>5 DEF ToSet
  <2>7. k \in below
    BY <2>1, <2>6 DEF d
  <2> QED BY <1>4, <2>1, <2>2, <2>7
<1>6. leaves \subseteq 0..n /\ leaves # {}
  BY <1>1, <1>4, <1>5
<1>7. NewestLeaf(ms, j) = Max(leaves)
  BY DEF NewestLeaf
<1> HIDE DEF leaves
<1>8. Max(leaves) \in leaves
  BY <1>6, GreatestExists
<1> QED BY <1>7, <1>8 DEF leaves

LEMMA NavigateKeeps == ASSUME StoreInv, NEW i \in DOMAIN msgs, NavigateBranch(i) PROVE StoreInv'
<1> DEFINE c == msgs[i].conv
<1>1. /\ Up /\ gen = NoGeneration /\ UNCHANGED <<db, msgs, last, made, gen>>
      /\ \E j \in Siblings(msgs, i) : convs' = [convs EXCEPT ![c].leaf = NewestLeaf(msgs, j)]
  BY DEF NavigateBranch, Busy
<1>2. PICK j \in Siblings(msgs, i) : convs' = [convs EXCEPT ![c].leaf = NewestLeaf(msgs, j)]
  BY <1>1
<1> DEFINE l == NewestLeaf(msgs, j)
<1>3. /\ Messages(msgs) /\ c \in DOMAIN convs /\ convs \in [DOMAIN convs -> Conversation]
      /\ last \in Nat /\ DOMAIN msgs \subseteq 1..last
  BY DEF StoreInv, StoreTypeOK, Home
<1>4. j \in DOMAIN msgs /\ msgs[j].conv = c
  BY DEF Siblings, Children, Of
<1>5. l \in Of(msgs, c) /\ Children(msgs, c, l) = {}
  BY <1>3, <1>4, NewestLeafFacts
<1> HIDE DEF l
<1>6. l \in Nat
  BY <1>3, <1>5 DEF Of
<1>7. /\ DOMAIN convs' = DOMAIN convs /\ convs' \in [DOMAIN convs' -> Conversation]
      /\ convs'[c].leaf = l /\ convs'[c].whole = convs[c].whole
      /\ \A d \in DOMAIN convs \ {c} : convs'[d] = convs[d]
  <2>1. convs[c] \in Conversation
    BY <1>3
  <2> HIDE DEF c
  <2> QED BY <1>2, <1>3, <1>6, <2>1 DEF Conversation, l
<1>8. Home(msgs', convs')
  BY <1>1, <1>5, <1>7 DEF StoreInv, Home
<1>9. StoreTypeOK'
  BY <1>1, <1>7 DEF StoreInv, StoreTypeOK
<1>10. SchemaOK'
  BY <1>1 DEF StoreInv, SchemaOK
<1>11. RolesOK'
  <2> SUFFICES ASSUME NEW d \in DOMAIN convs', convs'[d].whole PROVE Sound(msgs', convs', d)
    BY DEF RolesOK
  <2>1. Sound(msgs, convs, d)
    <3>1. d \in DOMAIN convs /\ convs[d].whole
      BY <1>7
    <3> QED BY <1>1, <3>1 DEF StoreInv, SchemaOK, RolesOK, Up
  <2>2. CASE d = c
    BY <1>1, <1>5, <1>7, <2>1, <2>2 DEF Sound
  <2>3. CASE d # c
    BY <1>1, <1>7, <2>1, <2>3 DEF Sound
  <2> QED BY <2>2, <2>3
<1>12. GenOK' /\ PromptIsBranch'
  BY <1>1 DEF GenOK, PromptIsBranch
<1> QED BY <1>8, <1>9, <1>10, <1>11, <1>12 DEF StoreInv

LEMMA DeleteKeeps == ASSUME StoreInv, NEW c \in DOMAIN convs, DeleteConversation(c) PROVE StoreInv'
<1>1. /\ Up /\ UNCHANGED <<db, last, made, gen>>
      /\ convs' = [d \in DOMAIN convs \ {c} |-> convs[d]]
      /\ msgs' = [i \in DOMAIN msgs \ Of(msgs, c) |-> msgs[i]]
  BY DEF DeleteConversation
<1>2. Home(msgs, convs) /\ Messages(msgs) /\ made \in Nat
  BY DEF StoreInv, StoreTypeOK, Home
<1>3. /\ DOMAIN convs' = DOMAIN convs \ {c} /\ \A d \in DOMAIN convs' : convs'[d] = convs[d]
      /\ DOMAIN msgs' = DOMAIN msgs \ Of(msgs, c) /\ \A i \in DOMAIN msgs' : msgs'[i] = msgs[i]
  BY <1>1
<1>4. ASSUME NEW d, d # c PROVE Of(msgs', d) = Of(msgs, d)
  BY <1>3, <1>4 DEF Of
<1>5. \A i \in DOMAIN msgs' : i \in DOMAIN msgs /\ msgs[i].conv # c
  BY <1>3 DEF Of
<1>6. Messages(msgs')
  <2>1. IsFiniteSet(DOMAIN msgs') /\ DOMAIN msgs' \subseteq Nat \ {0}
    BY <1>2, <1>3, FS_Subset DEF Messages
  <2>2. msgs' \in [DOMAIN msgs' -> MessageType]
    <3>1. \A i \in DOMAIN msgs' : msgs[i] \in MessageType
      BY <1>2, <1>5 DEF Messages
    <3> QED BY <1>1, <1>3, <3>1
  <2>3. ASSUME NEW i \in DOMAIN msgs', msgs'[i].parent # NoId
        PROVE  msgs'[i].parent \in Of(msgs', msgs'[i].conv) /\ msgs'[i].parent < i
    <3>1. msgs'[i] = msgs[i] /\ i \in DOMAIN msgs /\ msgs[i].conv # c
      BY <1>3, <1>5
    <3>2. msgs[i].parent \in Of(msgs, msgs[i].conv) /\ msgs[i].parent < i
      BY <1>2, <2>3, <3>1 DEF Messages
    <3> QED BY <1>4, <3>1, <3>2
  <2> QED BY <2>1, <2>2, <2>3 DEF Messages
<1>7. Home(msgs', convs')
  <2>1. convs' \in [DOMAIN convs' -> Conversation] /\ DOMAIN convs' \subseteq Nat \ {0}
    <3>1. \A d \in DOMAIN convs' : convs[d] \in Conversation /\ d \in Nat \ {0}
      BY <1>2, <1>3 DEF Home
    <3> QED BY <1>1, <1>3, <3>1
  <2>2. \A i \in DOMAIN msgs' : msgs'[i].conv \in DOMAIN convs'
    BY <1>2, <1>3, <1>5 DEF Home
  <2>3. \A d \in DOMAIN convs' : convs'[d].leaf # NoId => convs'[d].leaf \in Of(msgs', d)
    BY <1>2, <1>3, <1>4 DEF Home
  <2> QED BY <1>6, <2>1, <2>2, <2>3 DEF Home
<1>8. StoreTypeOK'
  BY <1>1, <1>3 DEF StoreInv, StoreTypeOK
<1>9. SchemaOK'
  BY <1>1, <1>3 DEF StoreInv, SchemaOK
<1>10. RolesOK'
  <2> SUFFICES ASSUME NEW d \in DOMAIN convs', convs'[d].whole PROVE Sound(msgs', convs', d)
    BY DEF RolesOK
  <2>1. d \in DOMAIN convs /\ d # c /\ convs'[d] = convs[d]
    BY <1>3
  <2>2. Sound(msgs, convs, d)
    BY <1>1, <2>1 DEF StoreInv, SchemaOK, RolesOK, Up
  <2>3. \A i \in Of(msgs, d) : msgs'[i] = msgs[i]
    BY <1>3, <1>4, <2>1 DEF Of
  <2> QED BY <1>4, <2>1, <2>2, <2>3, SoundSame
<1>11. GenOK' /\ PromptIsBranch'
  <2>1. ASSUME gen.conv \in DOMAIN convs'
        PROVE  /\ gen.conv \in DOMAIN convs /\ convs'[gen.conv] = convs[gen.conv]
               /\ Of(msgs', gen.conv) = Of(msgs, gen.conv)
               /\ \A i \in Of(msgs, gen.conv) : msgs'[i] = msgs[i]
    <3>1. gen.conv # c /\ Of(msgs', gen.conv) = Of(msgs, gen.conv)
      BY <1>3, <1>4, <2>1
    <3>2. \A i \in Of(msgs, gen.conv) : i \in DOMAIN msgs'
      BY <3>1 DEF Of
    <3> QED BY <1>3, <2>1, <3>1, <3>2
  <2>2. gen' = gen /\ made' = made /\ made <= made'
    BY <1>1, <1>2
  <2> QED BY <1>2, <2>1, <2>2, GenerationGoesOn DEF StoreInv
<1> QED BY <1>7, <1>8, <1>9, <1>10, <1>11 DEF StoreInv

LEMMA OpensKeeps == ASSUME StoreInv, Opens PROVE StoreInv'
<1>1. /\ db.at = IF db.version < 2 THEN "migrated" ELSE "closed"
      /\ db' = [at |-> "open", version |-> 4] /\ UNCHANGED <<msgs, convs, last, made, gen>>
  BY DEF Opens, dataVars
<1>2. db.version \in {0, 1, 4} /\ gen = NoGeneration
  BY <1>1 DEF StoreInv, StoreTypeOK, SchemaOK
<1>3. StoreTypeOK' /\ Home(msgs', convs')
  BY <1>1 DEF StoreInv, StoreTypeOK
<1>4. SchemaOK'
  BY <1>1 DEF SchemaOK
<1>5. RolesOK'
  BY <1>1, <1>2 DEF StoreInv, RolesOK
<1>6. GenOK' /\ PromptIsBranch'
  BY <1>1, <1>2 DEF GenOK, PromptIsBranch
<1> QED BY <1>3, <1>4, <1>5, <1>6 DEF StoreInv

LEMMA DiesKeeps == ASSUME StoreInv, Dies PROVE StoreInv'
<1>1. /\ db' = [db EXCEPT !.at = "closed"] /\ gen' = NoGeneration
      /\ UNCHANGED <<msgs, convs, last, made>>
  BY DEF Dies, ProcessEnds, dataVars
<1>2. db \in [at : {"closed", "migrated", "open"}, version : {0, 1, 4}]
  BY DEF StoreInv, StoreTypeOK
<1>3. db'.at = "closed" /\ db'.version = db.version
      /\ db' \in [at : {"closed", "migrated", "open"}, version : {0, 1, 4}]
  BY <1>1, <1>2
<1>4. NoGeneration \in [conv : Nat, parent : Nat, prompt : Seq(Nat), covered : Seq(Nat),
                        resumed : BOOLEAN]
  BY EmptySeq DEF NoGeneration, NoId
<1>5. StoreTypeOK' /\ Home(msgs', convs')
  BY <1>1, <1>3, <1>4 DEF StoreInv, StoreTypeOK
<1>6. SchemaOK'
  BY <1>1, <1>3 DEF StoreInv, SchemaOK
<1>7. RolesOK'
  BY <1>1, <1>3 DEF StoreInv, RolesOK
<1>8. GenOK' /\ PromptIsBranch'
  BY <1>1 DEF GenOK, PromptIsBranch
<1> QED BY <1>5, <1>6, <1>7, <1>8 DEF StoreInv

LEMMA MigrateKeeps == ASSUME StoreInv, Migrate PROVE StoreInv'
<1>1. /\ db.at = "closed" /\ db.version < 2 /\ db' = [db EXCEPT !.at = "migrated"]
      /\ msgs' = [i \in DOMAIN msgs |-> [msgs[i] EXCEPT !.parent = ChainedParent(i)]]
      /\ convs' = [c \in DOMAIN convs |->
                     [convs[c] EXCEPT !.leaf = IF Of(msgs, c) = {} THEN NoId ELSE Max(Of(msgs, c))]]
      /\ UNCHANGED <<last, made, gen>>
  BY DEF Migrate, Chained
<1>2. /\ Home(msgs, convs) /\ Messages(msgs) /\ last \in Nat /\ DOMAIN msgs \subseteq 1..last
      /\ db \in [at : {"closed", "migrated", "open"}, version : {0, 1, 4}]
      /\ gen = NoGeneration /\ \A i \in DOMAIN msgs : msgs[i].role = "user"
  BY <1>1 DEF StoreInv, StoreTypeOK, SchemaOK, Home
<1>3. ASSUME NEW i \in DOMAIN msgs
      PROVE  /\ ChainedParent(i) \in Nat
             /\ ChainedParent(i) # NoId =>
                   ChainedParent(i) \in Of(msgs, msgs[i].conv) /\ ChainedParent(i) < i
             /\ \A j \in Of(msgs, msgs[i].conv) : j < i => j <= ChainedParent(i)
  <2> DEFINE older == {j \in Of(msgs, msgs[i].conv) : j < i}
  <2>1. ChainedParent(i) = IF older = {} THEN NoId ELSE Max(older)
    BY DEF ChainedParent
  <2>2. CASE older = {}
    BY <2>1, <2>2 DEF NoId
  <2>3. CASE older # {}
    <3>1. older \subseteq 0..last
      BY <1>2 DEF Of
    <3>2. Max(older) \in older /\ \A x \in older : x <= Max(older)
      <4> HIDE DEF older
      <4> QED BY <1>2, <2>3, <3>1, GreatestExists
    <3>3. ChainedParent(i) = Max(older)
      BY <2>1, <2>3
    <3>4. Max(older) \in Nat
      BY <3>1, <3>2
    <3> QED BY <3>2, <3>3, <3>4
  <2> QED BY <2>2, <2>3
<1>4. ASSUME NEW i \in DOMAIN msgs
      PROVE  /\ msgs'[i].conv = msgs[i].conv /\ msgs'[i].role = "user"
             /\ msgs'[i].parent = ChainedParent(i) /\ msgs'[i] \in MessageType
  <2>1. msgs[i] \in MessageType /\ msgs[i].role = "user"
    BY <1>2 DEF Messages
  <2>2. msgs'[i] = [msgs[i] EXCEPT !.parent = ChainedParent(i)]
    BY <1>1
  <2> QED BY <1>3, <2>1, <2>2 DEF MessageType
<1>5. DOMAIN msgs' = DOMAIN msgs /\ \A c : Of(msgs', c) = Of(msgs, c)
  <2>1. DOMAIN msgs' = DOMAIN msgs
    BY <1>1
  <2> QED BY <1>4, <2>1 DEF Of
<1>6. Messages(msgs')
  <2>1. msgs' \in [DOMAIN msgs' -> MessageType]
    BY <1>1, <1>4, <1>5
  <2>2. IsFiniteSet(DOMAIN msgs') /\ DOMAIN msgs' \subseteq Nat \ {0}
    BY <1>2, <1>5 DEF Messages
  <2>3. ASSUME NEW i \in DOMAIN msgs', msgs'[i].parent # NoId
        PROVE  msgs'[i].parent \in Of(msgs', msgs'[i].conv) /\ msgs'[i].parent < i
    BY <1>3, <1>4, <1>5, <2>3
  <2> QED BY <2>1, <2>2, <2>3 DEF Messages
<1>7. ASSUME NEW c \in DOMAIN convs
      PROVE  /\ convs'[c].whole = convs[c].whole /\ convs'[c] \in Conversation
             /\ Of(msgs, c) = {} => convs'[c].leaf = NoId
             /\ Of(msgs, c) # {} => /\ convs'[c].leaf \in Of(msgs, c)
                                    /\ \A j \in Of(msgs, c) : j <= convs'[c].leaf
  <2> DEFINE l == IF Of(msgs, c) = {} THEN NoId ELSE Max(Of(msgs, c))
  <2>1. convs[c] \in Conversation /\ convs'[c] = [convs[c] EXCEPT !.leaf = l]
    BY <1>1, <1>2 DEF Home
  <2>2. /\ l \in Nat /\ (Of(msgs, c) = {} => l = NoId)
        /\ Of(msgs, c) # {} => l \in Of(msgs, c) /\ \A j \in Of(msgs, c) : j <= l
    <3>1. CASE Of(msgs, c) = {}
      BY <3>1 DEF NoId
    <3>2. CASE Of(msgs, c) # {}
      <4>1. Of(msgs, c) \subseteq 0..last
        BY <1>2 DEF Of
      <4>2. Max(Of(msgs, c)) \in Of(msgs, c) /\ \A j \in Of(msgs, c) : j <= Max(Of(msgs, c))
        BY <1>2, <3>2, <4>1, GreatestExists
      <4>3. Max(Of(msgs, c)) \in Nat
        BY <4>1, <4>2
      <4> QED BY <3>2, <4>2, <4>3
    <3> QED BY <3>1, <3>2
  <2> HIDE DEF l
  <2>3. convs'[c].leaf = l /\ convs'[c].whole = convs[c].whole /\ convs'[c] \in Conversation
    BY <2>1, <2>2 DEF Conversation
  <2> QED BY <2>2, <2>3
<1>8. DOMAIN convs' = DOMAIN convs
  BY <1>1
<1>9. Home(msgs', convs')
  <2>1. convs' \in [DOMAIN convs' -> Conversation]
    BY <1>1, <1>7, <1>8
  <2>2. \A i \in DOMAIN msgs' : msgs'[i].conv \in DOMAIN convs'
    BY <1>2, <1>4, <1>5, <1>8 DEF Home
  <2>3. \A c \in DOMAIN convs' : convs'[c].leaf # NoId => convs'[c].leaf \in Of(msgs', c)
    BY <1>5, <1>7, <1>8
  <2> QED BY <1>2, <1>6, <1>8, <2>1, <2>2, <2>3 DEF Home
<1>10. /\ db'.at = "migrated" /\ db'.version = db.version
       /\ db' \in [at : {"closed", "migrated", "open"}, version : {0, 1, 4}]
  BY <1>1, <1>2
<1>11. StoreTypeOK'
  BY <1>1, <1>5, <1>8, <1>10 DEF StoreInv, StoreTypeOK
<1>12. SchemaOK'
  BY <1>1, <1>2, <1>4, <1>5, <1>10 DEF SchemaOK
<1>13. RolesOK'
  <2> SUFFICES ASSUME NEW c \in DOMAIN convs' PROVE Sound(msgs', convs', c)
    BY DEF RolesOK
  <2>1. SameRoles(msgs', c)
    <3>1. \A i \in Of(msgs', c) : msgs'[i].role = "user"
      BY <1>4, <1>5 DEF Of
    <3> QED BY <3>1 DEF SameRoles
  <2>2. ASSUME NEW j \in Children(msgs', c, convs'[c].leaf) PROVE FALSE
    <3>1. j \in Of(msgs, c) /\ j \in DOMAIN msgs /\ msgs[j].conv = c /\ msgs'[j].parent = convs'[c].leaf
      BY <1>5 DEF Children, Of
    <3>2. ChainedParent(j) = convs'[c].leaf /\ convs'[c].leaf \in Of(msgs, c) /\ j <= convs'[c].leaf
      BY <1>4, <1>7, <1>8, <3>1
    <3>3. convs'[c].leaf # NoId /\ convs'[c].leaf \in Nat /\ j \in Nat
      BY <1>2, <3>1, <3>2 DEF Of, NoId
    <3>4. ChainedParent(j) < j
      BY <1>3, <3>1, <3>2, <3>3
    <3> QED BY <3>2, <3>3, <3>4
  <2> QED BY <2>1, <2>2 DEF Sound
<1>14. GenOK' /\ PromptIsBranch'
  BY <1>1, <1>2 DEF GenOK, PromptIsBranch
<1> QED BY <1>9, <1>11, <1>12, <1>13, <1>14 DEF StoreInv

-----------------------------------------------------------------------------
(***************************************************************************)
(* Conversations: files.                                                   *)
(***************************************************************************)
Entry == [id : Nat \ {0}, parent : Nat]

FileUp(file) == [j \in Ids(file) |-> ParentIn(file, j)]

\* Every entry leads to a root.
AllClimb(file) ==
    \A i \in Ids(file) : \E s : IsClimb(FileUp(file), i, s) /\ FileUp(file)[s[1]] = NoId

LEMMA FileFacts ==
    ASSUME NEW file \in Seq(Entry)
    PROVE  /\ Len(file) \in Nat /\ DOMAIN file = 1..Len(file)
           /\ Ids(file) \subseteq Nat \ {0} /\ IsFiniteSet(Ids(file)) /\ NoId \notin Ids(file)
           /\ \A k \in 1..Len(file) : file[k].id \in Ids(file)
           /\ \A i \in Ids(file) : ParentIn(file, i) \in Nat
           /\ DOMAIN FileUp(file) = Ids(file) /\ FileUp(file) \in [Ids(file) -> Nat]
           /\ \A i \in Ids(file) : FileUp(file)[i] = ParentIn(file, i)
<1>1. /\ Len(file) \in Nat /\ DOMAIN file = 1..Len(file)
      /\ \A k \in 1..Len(file) : file[k] \in Entry
  BY LenProperties
<1>2. /\ \A k \in 1..Len(file) : file[k].id \in Ids(file)
      /\ \A i \in Ids(file) : \E k \in 1..Len(file) : i = file[k].id
  BY <1>1 DEF Ids
<1>3. Ids(file) \subseteq Nat \ {0}
  BY <1>1, <1>2 DEF Entry
<1>4. IsFiniteSet(Ids(file))
  <2> DEFINE f == [k \in 1..Len(file) |-> file[k].id]
  <2>1. f \in Surjection(1..Len(file), Ids(file))
    BY <1>2 DEF Surjection
  <2>2. IsFiniteSet(1..Len(file))
    BY <1>1, FS_Interval
  <2> HIDE DEF f
  <2> QED BY <2>1, <2>2, FS_Surjection
<1>5. ASSUME NEW i \in Ids(file) PROVE ParentIn(file, i) \in Nat
  <2>1. PICK k \in 1..Len(file) : i = file[k].id
    BY <1>2
  <2>2. file[k] \in ToSet(file)
    BY <1>1 DEF ToSet
  <2>3. (CHOOSE e \in ToSet(file) : e.id = i) \in ToSet(file)
    BY <2>1, <2>2
  <2>4. \A e \in ToSet(file) : e \in Entry
    BY <1>1 DEF ToSet
  <2> QED BY <2>3, <2>4 DEF ParentIn, Entry
<1> QED BY <1>1, <1>2, <1>3, <1>4, <1>5 DEF FileUp, NoId

LEMMA ChainType ==
    ASSUME NEW file \in Seq(Entry), NEW i, NEW placed
    PROVE  ChainUp(file, i, placed) \in Seq(Nat)
<1> DEFINE ids == Ids(file)
           rest == [j \in ids \ placed |-> ParentIn(file, j)]
           climb == Climb(rest, i)
<1>1. ids \subseteq Nat \ {0} /\ IsFiniteSet(ids) /\ \A j \in ids : ParentIn(file, j) \in Nat
  BY FileFacts
<1>2. rest \in [ids \ placed -> Nat] /\ DOMAIN rest = ids \ placed /\ IsFiniteSet(ids \ placed)
  <2>1. IsFiniteSet(ids \ placed)
    <3>1. ids \ placed \subseteq ids
      OBVIOUS
    <3> HIDE DEF ids
    <3> QED BY <1>1, <3>1, FS_Subset
  <2> QED BY <1>1, <2>1
<1>3. ChainUp(file, i, placed) \in {Rejected, climb}
  BY DEF ChainUp
<1> HIDE DEF climb, rest, ids
<1>4. climb # Rejected => IsClimb(rest, i, climb)
  BY <1>2, ClimbIs DEF climb
<1>5. Rejected \in Seq(Nat)
  BY DEF Rejected, NoId
<1>6. ASSUME climb # Rejected PROVE climb \in Seq(Nat)
  <2>1. climb \in Seq(ids \ placed) /\ ids \ placed \subseteq Nat
    BY <1>1, <1>2, <1>4, <1>6 DEF IsClimb
  <2> QED BY <2>1, SeqMonotonic
<1> QED BY <1>3, <1>5, <1>6

\* One more chain below an order.
LEMMA ChainFacts ==
    ASSUME NEW file \in Seq(Entry), NEW o, IsOrder(o, FileUp(file)), NEW i \in Ids(file)
    PROVE  LET chain == ChainUp(file, i, ToSet(o))
           IN  /\ AllClimb(file) => chain # Rejected
               /\ chain # Rejected => /\ IsOrder(o \o chain, FileUp(file))
                                      /\ ToSet(o) \subseteq ToSet(o \o chain)
                                      /\ i \in ToSet(o \o chain)
<1> DEFINE ids == Ids(file)
           up == FileUp(file)
           placed == ToSet(o)
           rest == [j \in ids \ placed |-> ParentIn(file, j)]
           climb == Climb(rest, i)
           chain == ChainUp(file, i, placed)
           n == Len(o)
<1>1. /\ ids \subseteq Nat \ {0} /\ IsFiniteSet(ids) /\ NoId \notin ids
      /\ DOMAIN up = ids /\ up \in [ids -> Nat]
      /\ \A j \in ids : up[j] = ParentIn(file, j) /\ ParentIn(file, j) \in Nat
  BY FileFacts
<1>2. /\ rest \in [ids \ placed -> Nat] /\ DOMAIN rest = ids \ placed /\ IsFiniteSet(ids \ placed)
      /\ \A j \in ids \ placed : rest[j] = up[j]
  <2>1. IsFiniteSet(ids \ placed)
    <3>1. ids \ placed \subseteq ids
      OBVIOUS
    <3> HIDE DEF ids, placed
    <3> QED BY <1>1, <3>1, FS_Subset
  <2> QED BY <1>1, <2>1
<1>3. chain = IF climb # <<>> /\ climb # Rejected
                 /\ ParentIn(file, climb[1]) \notin placed \cup {NoId}
              THEN Rejected ELSE climb
  BY DEF ChainUp
<1>4. /\ o \in Seq(ids) /\ n \in Nat /\ DOMAIN o = 1..n /\ \A k \in 1..n : o[k] \in ids
      /\ \A j, k \in 1..n : o[j] = o[k] => j = k
      /\ \A k \in 1..n : \/ up[o[k]] = NoId
                         \/ \E m \in 1..n : m < k /\ up[o[k]] = o[m]
  <2>1. o \in Seq(ids)
    BY <1>1 DEF IsOrder
  <2> HIDE DEF ids, up
  <2>2. n \in Nat /\ DOMAIN o = 1..n /\ \A k \in 1..n : o[k] \in ids
    BY <2>1, LenProperties
  <2> QED BY <2>1, <2>2 DEF IsOrder, up
<1>5. \A x : x \in placed <=> \E k \in 1..n : o[k] = x
  BY <1>4 DEF ToSet
<1> HIDE DEF chain, climb, rest, placed, up, ids, n
<1>7. climb # Rejected => IsClimb(rest, i, climb)
  BY <1>2, ClimbIs DEF climb
<1>9. ASSUME chain # Rejected
      PROVE  IsOrder(o \o chain, up) /\ placed \subseteq ToSet(o \o chain) /\ i \in ToSet(o \o chain)
  <2> DEFINE l == Len(chain)
             both == o \o chain
  <2>1. /\ chain = climb /\ climb # Rejected
        /\ chain # <<>> => ParentIn(file, chain[1]) \in placed \cup {NoId}
    BY <1>3, <1>9
  <2>2. IsClimb(rest, i, chain)
    BY <1>7, <2>1
  <2>3. chain \in Seq(ids \ placed) /\ (chain = <<>> <=> i \notin ids \ placed)
    BY <1>2, <2>2 DEF IsClimb
  <2>4. l \in Nat /\ DOMAIN chain = 1..l /\ \A k \in 1..l : chain[k] \in ids \ placed
    BY <2>3, LenProperties
  <2>5. \A j, k \in 1..l : chain[j] = chain[k] => j = k
    <3> HIDE DEF both
    <3>1. ASSUME NEW j \in 1..l, NEW k \in 1..l, chain[j] = chain[k] PROVE j = k
      <4>1. rest \in [ids \ placed -> Nat]
        BY <1>2
      <4> QED BY ONLY <2>2, <3>1, <4>1, j \in 1..l, k \in 1..l, ClimbDistinct
    <3> QED BY <3>1
  <2>6. chain # <<>> <=> l >= 1
    BY <2>3, EmptySeq
  <2>7. chain \in Seq(ids)
    BY <2>3, SeqMonotonic
  <2>8. /\ both \in Seq(ids) /\ Len(both) = n + l /\ DOMAIN both = 1..n + l
        /\ \A k \in 1..n : both[k] = o[k]
        /\ \A k \in 1..l : both[n + k] = chain[k]
    <3>1. /\ both \in Seq(ids) /\ Len(both) = n + l
          /\ \A k \in 1..n + l : both[k] = IF k <= n THEN o[k] ELSE chain[k - n]
      BY <1>4, <2>7, ConcatProperties DEF n
    <3>2. DOMAIN both = 1..Len(both)
      BY <3>1, LenProperties
    <3> HIDE DEF both, l
    <3>3. \A k \in 1..n : k \in 1..n + l /\ k <= n
      BY <1>4, <2>4
    <3>4. \A k \in 1..l : n + k \in 1..n + l /\ ~(n + k <= n) /\ (n + k) - n = k
      BY <1>4, <2>4
    <3> QED BY <3>1, <3>2, <3>3, <3>4
  <2> HIDE DEF both, l
  <2>9. \A k \in 1..n + l : k \in 1..n \/ (k - n \in 1..l /\ n + (k - n) = k /\ k > n)
    BY <1>4, <2>4
  <2>10. placed \subseteq ToSet(both)
    <3> SUFFICES ASSUME NEW x \in placed PROVE x \in ToSet(both)
      OBVIOUS
    <3>1. PICK k \in 1..n : o[k] = x
      BY <1>5
    <3>2. k \in 1..n + l /\ both[k] = x
      BY <1>4, <2>4, <2>8, <3>1
    <3> QED BY <2>8, <3>2 DEF ToSet
  <2>11. i \in ToSet(both)
    <3>1. CASE i \in placed
      BY <2>10, <3>1
    <3>2. CASE i \notin placed
      <4>1. chain # <<>>
        BY <2>3, <3>2 DEF ids
      <4>2. chain[l] = i /\ l \in 1..l
        BY <2>2, <2>4, <2>6, <4>1 DEF IsClimb, l
      <4>3. n + l \in 1..n + l /\ both[n + l] = i
        BY <1>4, <2>4, <2>8, <4>2
      <4> QED BY <2>8, <4>3 DEF ToSet
    <3> QED BY <3>1, <3>2
  <2>12. ASSUME NEW j \in 1..n + l, NEW k \in 1..n + l, both[j] = both[k] PROVE j = k
    <3>1. CASE j \in 1..n /\ k \in 1..n
      BY <1>4, <2>8, <2>12, <3>1
    <3>2. CASE j \in 1..n /\ k \notin 1..n
      <4>1. both[j] \in placed /\ both[k] \notin placed
        <5>1. k - n \in 1..l /\ both[k] = chain[k - n]
          BY <2>8, <2>9, <3>2
        <5> QED BY <1>5, <2>4, <2>8, <3>2, <5>1
      <4> QED BY <2>12, <4>1
    <3>3. CASE j \notin 1..n /\ k \in 1..n
      <4>1. both[k] \in placed /\ both[j] \notin placed
        <5>1. j - n \in 1..l /\ both[j] = chain[j - n]
          BY <2>8, <2>9, <3>3
        <5> QED BY <1>5, <2>4, <2>8, <3>3, <5>1
      <4> QED BY <2>12, <4>1
    <3>4. CASE j \notin 1..n /\ k \notin 1..n
      <4>1. j - n \in 1..l /\ both[j] = chain[j - n] /\ k - n \in 1..l /\ both[k] = chain[k - n]
            /\ n + (j - n) = j /\ n + (k - n) = k
        BY <2>8, <2>9, <3>4
      <4>2. j - n = k - n
        BY <2>5, <2>12, <4>1
      <4> QED BY <4>1, <4>2
    <3> QED BY <3>1, <3>2, <3>3, <3>4
  <2>13. ASSUME NEW k \in 1..n + l
         PROVE  \/ up[both[k]] = NoId
                \/ \E m \in 1..n + l : m < k /\ up[both[k]] = both[m]
    <3>1. CASE k \in 1..n
      <4>1. both[k] = o[k]
        BY <2>8, <3>1
      <4>2. CASE up[o[k]] # NoId
        <5>1. PICK m \in 1..n : m < k /\ up[o[k]] = o[m]
          BY <1>4, <3>1, <4>2
        <5>2. m \in 1..n + l /\ both[m] = o[m]
          BY <1>4, <2>4, <2>8, <5>1
        <5> QED BY <4>1, <5>1, <5>2
      <4> QED BY <4>1, <4>2
    <3>2. CASE k \notin 1..n
      <4> DEFINE a == k - n
      <4>1. a \in 1..l /\ both[k] = chain[a] /\ k = n + a /\ chain[a] \in ids \ placed
        BY <2>4, <2>8, <2>9, <3>2
      <4> HIDE DEF a
      <4>2. up[both[k]] = rest[chain[a]] /\ up[both[k]] = ParentIn(file, chain[a])
        BY <1>1, <1>2, <4>1
      <4>3. CASE a = 1
        <5>1. up[both[k]] \in placed \cup {NoId}
          BY <2>1, <2>4, <2>6, <4>1, <4>2, <4>3
        <5>2. CASE up[both[k]] \in placed
          <6>1. PICK m \in 1..n : o[m] = up[both[k]]
            BY <1>5, <5>2
          <6>2. m \in 1..n + l /\ both[m] = o[m] /\ m < k
            BY <1>4, <2>4, <2>8, <4>1, <6>1
          <6> QED BY <6>1, <6>2
        <5> QED BY <5>1, <5>2
      <4>4. CASE a # 1
        <5>1. a - 1 \in 1..l /\ a - 1 < l /\ (a - 1) + 1 = a
          BY <2>4, <4>1, <4>4
        <5>2. chain[a - 1] = rest[chain[a]]
          <6>1. \A b \in 1..Len(chain) : b < Len(chain) => chain[b] = rest[chain[b + 1]]
            BY <2>2 DEF IsClimb
          <6>2. chain[a - 1] = rest[chain[(a - 1) + 1]]
            BY <5>1, <6>1 DEF l
          <6> QED BY <5>1, <6>2
        <5>3. n + (a - 1) \in 1..n + l /\ n + (a - 1) < k /\ both[n + (a - 1)] = chain[a - 1]
          BY <1>4, <2>4, <2>8, <4>1, <5>1
        <5> QED BY <4>2, <5>2, <5>3
      <4> QED BY <4>3, <4>4
    <3> QED BY <3>1, <3>2
  <2>14. IsOrder(both, up)
    BY <1>1, <2>8, <2>12, <2>13 DEF IsOrder
  <2> QED BY <2>10, <2>11, <2>14 DEF both
<1>10. ASSUME AllClimb(file) PROVE chain # Rejected
  <2>1. PICK s : IsClimb(up, i, s) /\ up[s[1]] = NoId
    BY <1>10 DEF AllClimb, up, ids
  <2> DEFINE l == Len(s)
             marked == {m \in 1..l : s[m] \in placed}
             m == IF marked = {} THEN 0 ELSE Max(marked)
             t == SubSeq(s, m + 1, l)
  <2>2. /\ s \in Seq(ids) /\ s # <<>> /\ s[l] = i /\ l \in Nat \ {0}
        /\ \A k \in 1..l : s[k] \in ids
        /\ \A k \in 1..l : k < l => s[k] = up[s[k + 1]]
    <3>1. s \in Seq(ids) /\ i \in ids
      BY <1>1, <2>1 DEF IsClimb, ids
    <3>2. s # <<>>
      BY <1>1, <2>1, <3>1 DEF IsClimb
    <3>3. l \in Nat \ {0} /\ \A k \in 1..l : s[k] \in ids
      BY <3>1, <3>2, EmptySeq, LenProperties
    <3> QED BY <2>1, <3>1, <3>2, <3>3 DEF IsClimb
  <2> HIDE DEF l
  <2>3. /\ m \in 0..l /\ (m # 0 => s[m] \in placed)
        /\ \A k \in 1..l : k > m => s[k] \notin placed
    <3>1. CASE marked = {}
      BY <2>2, <3>1
    <3>2. CASE marked # {}
      <4>1. marked \subseteq 0..l
        BY <2>2
      <4>2. Max(marked) \in marked /\ \A k \in marked : k <= Max(marked)
        <5> HIDE DEF marked
        <5> QED BY <2>2, <3>2, <4>1, GreatestExists
      <4>3. m = Max(marked)
        BY <3>2
      <4> HIDE DEF m
      <4>4. m \in 1..l /\ s[m] \in placed
        BY <4>2, <4>3
      <4>5. ASSUME NEW k \in 1..l, k > m PROVE s[k] \notin placed
        <5>1. k \in marked => k <= m
          BY <4>2, <4>3
        <5> QED BY <2>2, <4>4, <4>5, <5>1
      <4> QED BY <2>2, <4>4, <4>5
    <3> QED BY <3>1, <3>2
  <2> HIDE DEF m
  <2>4. /\ t \in Seq(ids \ placed) /\ Len(t) = l - m
        /\ \A k \in 1..l - m : t[k] = s[m + k]
    <3>1. m + 1 \in Int /\ l \in Int /\ m \in Nat /\ m <= l
      BY <2>2, <2>3
    <3>2. \A k \in (m + 1)..l : s[k] \in ids \ placed
      BY <2>2, <2>3, <3>1
    <3>3. /\ t \in Seq(ids \ placed)
          /\ Len(t) = IF m + 1 <= l THEN l - (m + 1) + 1 ELSE 0
          /\ \A k \in 1..l - (m + 1) + 1 : t[k] = s[m + 1 + k - 1]
      BY <3>1, <3>2, SubSeqProperties
    <3> HIDE DEF t
    <3>4. Len(t) = l - m /\ l - (m + 1) + 1 = l - m
      BY <2>2, <3>1, <3>3
    <3>5. \A k \in 1..l - m : m + 1 + k - 1 = m + k
      BY <2>2, <3>1
    <3> QED BY <3>3, <3>4, <3>5
  <2> HIDE DEF t
  <2>5. t = <<>> <=> m = l
    <3>1. t = <<>> <=> Len(t) = 0
      BY <2>4, EmptySeq
    <3> QED BY <2>2, <2>3, <2>4, <3>1
  <2>6. t = <<>> <=> i \notin ids \ placed
    <3>1. i \in ids
      BY DEF ids
    <3>2. CASE m = l
      BY <2>2, <2>3, <2>5, <3>2
    <3>3. CASE m # l
      <4>1. l \in 1..l /\ l > m
        BY <2>2, <2>3, <3>3
      <4> QED BY <2>2, <2>3, <2>5, <3>1, <3>3, <4>1
    <3> QED BY <3>2, <3>3
  <2>7. ASSUME t # <<>>
        PROVE  /\ t[Len(t)] = i /\ rest[t[1]] \notin ids \ placed
               /\ t[1] \in ids /\ ParentIn(file, t[1]) \in placed \cup {NoId}
    <3>1. m < l /\ 1 \in 1..l - m /\ l - m \in 1..l - m /\ m + (l - m) = l /\ m + 1 \in 1..l
      BY <2>2, <2>3, <2>5, <2>7
    <3>2. t[Len(t)] = i
      BY <2>2, <2>4, <3>1
    <3>3. t[1] = s[m + 1] /\ t[1] \in ids \ placed
      BY <2>2, <2>3, <2>4, <3>1
    <3>4. up[s[m + 1]] \in placed \cup {NoId}
      <4>1. CASE m = 0
        BY <2>1, <4>1
      <4>2. CASE m # 0
        <5>1. m \in 1..l
          BY <2>2, <2>3, <4>2
        <5>2. s[m] = up[s[m + 1]] /\ s[m] \in placed
          BY <2>2, <2>3, <3>1, <4>2, <5>1
        <5> QED BY <5>2
      <4> QED BY <4>1, <4>2
    <3>5. rest[t[1]] = up[s[m + 1]] /\ ParentIn(file, t[1]) = up[s[m + 1]]
      <4> HIDE DEF rest, ids, placed, up
      <4>1. rest[t[1]] = up[t[1]]
        BY ONLY <1>2, <3>3
      <4>2. up[t[1]] = ParentIn(file, t[1])
        BY ONLY <1>1, <3>3
      <4> QED BY <3>3, <4>1, <4>2
    <3>6. NoId \notin ids \ placed
      BY <1>1
    <3>7. rest[t[1]] \notin ids \ placed
      BY <3>4, <3>5, <3>6
    <3> QED BY <3>2, <3>3, <3>4, <3>5, <3>7
  <2>8. ASSUME NEW k \in 1..Len(t), k < Len(t) PROVE t[k] = rest[t[k + 1]]
    <3>1. /\ k \in 1..l - m /\ k + 1 \in 1..l - m /\ m + k \in 1..l /\ m + k < l
          /\ m + (k + 1) = (m + k) + 1
      BY <2>2, <2>3, <2>4, <2>8
    <3>2. t[k] = s[m + k] /\ t[k + 1] = s[(m + k) + 1] /\ t[k + 1] \in ids \ placed
      <4>1. t[k] = s[m + k] /\ t[k + 1] = s[m + (k + 1)]
        BY <2>4, <3>1
      <4>2. t[k + 1] \in ids \ placed
        BY <2>4, <3>1
      <4> QED BY <3>1, <4>1, <4>2
    <3>3. s[m + k] = up[s[(m + k) + 1]]
      BY <2>2, <3>1
    <3> QED BY <1>2, <3>2, <3>3
  <2>9. IsClimb(rest, i, t)
    BY <1>2, <2>4, <2>6, <2>7, <2>8 DEF IsClimb
  <2>10. climb = t
    BY <1>2, <2>9, ClimbFound DEF climb
  <2>11. t # Rejected
    <3> SUFFICES ASSUME t = Rejected PROVE FALSE
      OBVIOUS
    <3>1. t # <<>> /\ t[1] = NoId
      BY DEF Rejected
    <3> QED BY <1>1, <2>7, <3>1
  <2>12. chain = t
    BY <1>3, <2>7, <2>10
  <2> QED BY <2>11, <2>12
<1> QED BY <1>9, <1>10 DEF chain, placed, up

LEMMA PlacedFacts ==
    ASSUME NEW file \in Seq(Entry)
    PROVE  LET order == Placed(file)
           IN  /\ order[0] = <<>>
               /\ \A n \in 1..Len(file) :
                     LET chain == ChainUp(file, file[n].id, ToSet(order[n - 1]))
                     IN  order[n] = IF Rejected \in {order[n - 1], chain} THEN Rejected
                                    ELSE order[n - 1] \o chain
<1> DEFINE L == Len(file)
           Chain(n, o) == ChainUp(file, file[n].id, ToSet(o))
           After(n, o) == IF Rejected \in {o, Chain(n, o)} THEN Rejected ELSE o \o Chain(n, o)
           g == [n \in Nat |-> [o \in Seq(Nat) |-> After(n + 1, o)]]
           Def(h) == [n \in 0..L |-> IF n = 0 THEN <<>> ELSE After(n, h[n - 1])]
<1>1. L \in Nat /\ <<>> \in Seq(Nat) /\ Rejected \in Seq(Nat)
  BY EmptySeq, LenProperties DEF Rejected, NoId
<1>2. \A n \in Nat : \A o \in Seq(Nat) : After(n, o) \in Seq(Nat)
  <2> SUFFICES ASSUME NEW n \in Nat, NEW o \in Seq(Nat) PROVE After(n, o) \in Seq(Nat)
    OBVIOUS
  <2>1. Chain(n, o) \in Seq(Nat)
    BY ChainType
  <2> HIDE DEF Chain
  <2>2. o \o Chain(n, o) \in Seq(Nat)
    BY <2>1, ConcatProperties
  <2> QED BY <1>1, <2>2
<1> HIDE DEF Chain, After
<1>3. g \in [Nat -> [Seq(Nat) -> Seq(Nat)]]
  BY <1>2
<1>4. PICK f \in [Nat -> Seq(Nat)] : f[0] = <<>> /\ \A n \in Nat : f[n + 1] = g[n][f[n]]
  <2> DEFINE S == Seq(Nat)
             x == <<>>
  <2>1. g \in [Nat -> [S -> S]] /\ x \in S
    BY <1>1, <1>3
  <2> HIDE DEF g, S, x, Def
  <2>2. PICK f : Iterates(S, x, g, f)
    BY <2>1, IterationExists
  <2> QED BY <2>2 DEF S, x, Iterates
<1> DEFINE h == [n \in 0..L |-> f[n]]
<1>5. h = Def(h)
  <2>1. ASSUME NEW n \in 0..L, n # 0 PROVE f[n] = After(n, h[n - 1])
    <3>1. n - 1 \in Nat /\ n - 1 \in 0..L /\ (n - 1) + 1 = n
      BY <1>1, <2>1
    <3>2. f[n] = g[n - 1][f[n - 1]] /\ f[n - 1] \in Seq(Nat)
      BY <1>4, <3>1
    <3> QED BY <3>1, <3>2
  <2>2. \A n \in 0..L : h[n] = IF n = 0 THEN <<>> ELSE After(n, h[n - 1])
    BY <1>4, <2>1
  <2>3. h = [n \in 0..L |-> h[n]]
    OBVIOUS
  <2> HIDE DEF h
  <2> QED BY <2>2, <2>3
<1>6. Placed(file) = Def(Placed(file))
  <2>1. Placed(file) = CHOOSE p : p = Def(p)
    BY DEF Placed, After, Chain
  <2> HIDE DEF Def, h
  <2> QED BY <1>5, <2>1
<1> DEFINE order == Placed(file)
<1>7. order[0] = <<>>
  <2>1. 0 \in 0..L
    BY <1>1
  <2> HIDE DEF order
  <2>2. order = Def(order)
    BY <1>6 DEF order
  <2> HIDE DEF After
  <2> QED BY <2>1, <2>2
<1>8. ASSUME NEW n \in 1..L PROVE order[n] = After(n, order[n - 1])
  <2>1. n \in 0..L /\ n # 0
    BY <1>1
  <2> HIDE DEF order
  <2>2. order = Def(order)
    BY <1>6 DEF order
  <2> QED BY <2>1, <2>2
<1> QED BY <1>7, <1>8 DEF After, Chain

\* What is accepted is placed once each, below its parent; and nothing is refused that leads
\* to a root.
LEMMA ParentsFirstFacts ==
    ASSUME NEW file \in Seq(Entry)
    PROVE  LET order == ParentsFirst(file)
           IN  /\ order # Rejected =>
                     /\ Cardinality(Ids(file)) = Len(file)
                     /\ IsOrder(order, FileUp(file))
                     /\ ToSet(order) = Ids(file) /\ Len(order) = Len(file)
               /\ Cardinality(Ids(file)) = Len(file) /\ AllClimb(file) => order # Rejected
<1> DEFINE L == Len(file)
           ids == Ids(file)
           up == FileUp(file)
           at == Placed(file)
           Good(n) == /\ IsOrder(at[n], up)
                      /\ \A k \in 1..n : file[k].id \in ToSet(at[n])
           N == {n \in Nat : n <= L => /\ at[n] # Rejected => Good(n)
                                       /\ AllClimb(file) => at[n] # Rejected}
<1>1. /\ L \in Nat /\ DOMAIN file = 1..L
      /\ ids \subseteq Nat \ {0} /\ IsFiniteSet(ids) /\ NoId \notin ids
      /\ \A k \in 1..L : file[k].id \in ids
      /\ DOMAIN up = ids
  BY FileFacts
<1>2. /\ at[0] = <<>>
      /\ \A n \in 1..L :
            LET chain == ChainUp(file, file[n].id, ToSet(at[n - 1]))
            IN  at[n] = IF Rejected \in {at[n - 1], chain} THEN Rejected ELSE at[n - 1] \o chain
  BY PlacedFacts
<1> HIDE DEF at
<1>3. 0 \in N
  <2>1. IsOrder(<<>>, up)
    BY EmptySeq DEF IsOrder
  <2>2. <<>> # Rejected
    BY DEF Rejected
  <2> QED BY <1>2, <2>1, <2>2
<1>4. ASSUME NEW n \in N PROVE n + 1 \in N
  <2> SUFFICES ASSUME n + 1 <= L
               PROVE  /\ at[n + 1] # Rejected => Good(n + 1)
                      /\ AllClimb(file) => at[n + 1] # Rejected
    OBVIOUS
  <2> DEFINE chain == ChainUp(file, file[n + 1].id, ToSet(at[n]))
  <2>1. n \in Nat /\ n <= L /\ n + 1 \in 1..L /\ (n + 1) - 1 = n
    <3>1. n \in Nat /\ L \in Nat /\ n + 1 <= L
      BY <1>1
    <3> HIDE DEF N, L
    <3> QED BY ONLY <3>1
  <2>2. at[n + 1] = IF Rejected \in {at[n], chain} THEN Rejected ELSE at[n] \o chain
    BY <1>2, <2>1
  <2>3. (at[n] # Rejected => Good(n)) /\ (AllClimb(file) => at[n] # Rejected)
    BY <2>1
  <2>4. file[n + 1].id \in ids
    BY <1>1, <2>1
  <2>5. ASSUME at[n] # Rejected
        PROVE  /\ AllClimb(file) => chain # Rejected
               /\ chain # Rejected => /\ IsOrder(at[n] \o chain, up)
                                      /\ ToSet(at[n]) \subseteq ToSet(at[n] \o chain)
                                      /\ file[n + 1].id \in ToSet(at[n] \o chain)
    <3>1. IsOrder(at[n], FileUp(file)) /\ file[n + 1].id \in Ids(file)
      BY <2>3, <2>4, <2>5
    <3> HIDE DEF Good, N
    <3> QED BY <3>1, ChainFacts
  <2> HIDE DEF chain
  <2>6. ASSUME at[n + 1] # Rejected PROVE Good(n + 1)
    <3>1. at[n] # Rejected /\ chain # Rejected /\ at[n + 1] = at[n] \o chain
      BY <2>2, <2>6
    <3>2. IsOrder(at[n + 1], up) /\ ToSet(at[n]) \subseteq ToSet(at[n + 1])
          /\ file[n + 1].id \in ToSet(at[n + 1])
      BY <2>5, <3>1
    <3>3. ASSUME NEW k \in 1..n + 1 PROVE file[k].id \in ToSet(at[n + 1])
      <4>1. k = n + 1 \/ k \in 1..n
        BY <2>1
      <4> QED BY <2>3, <3>1, <3>2, <4>1
    <3> QED BY <3>2, <3>3
  <2>7. ASSUME AllClimb(file) PROVE at[n + 1] # Rejected
    <3>1. at[n] # Rejected /\ chain # Rejected /\ at[n + 1] = at[n] \o chain
      BY <2>2, <2>3, <2>5, <2>7
    <3>2. file[n + 1].id \in ToSet(at[n + 1]) /\ file[n + 1].id # NoId
      BY <1>1, <2>4, <2>5, <3>1
    <3>3. ToSet(Rejected) = {NoId}
      BY DEF ToSet, Rejected
    <3> QED BY <3>2, <3>3
  <2> QED BY <2>6, <2>7
<1>5. N = Nat
  <2>1. N \subseteq Nat
    OBVIOUS
  <2> HIDE DEF N
  <2> QED BY <1>3, <1>4, <2>1, AllNaturals
<1>6. (at[L] # Rejected => Good(L)) /\ (AllClimb(file) => at[L] # Rejected)
  BY <1>1, <1>5
<1> HIDE DEF N
<1>7. ParentsFirst(file) = IF Cardinality(ids) # L THEN Rejected ELSE at[L]
  BY DEF ParentsFirst, at
<1>8. ASSUME ParentsFirst(file) # Rejected
      PROVE  /\ Cardinality(ids) = L /\ IsOrder(at[L], up) /\ ParentsFirst(file) = at[L]
             /\ ToSet(at[L]) = ids /\ Len(at[L]) = L
  <2> DEFINE o == at[L]
             m == Len(o)
  <2>1. Cardinality(ids) = L /\ ParentsFirst(file) = o /\ Good(L)
    BY <1>6, <1>7, <1>8
  <2>2. o \in Seq(ids) /\ \A j, k \in 1..Len(o) : o[j] = o[k] => j = k
    BY <1>1, <2>1 DEF IsOrder
  <2> HIDE DEF o, ids
  <2>3. m \in Nat /\ DOMAIN o = 1..m /\ o \in [1..m -> ids] /\ \A k \in 1..m : o[k] \in ids
    BY <2>2, LenProperties
  <2>4. ASSUME NEW i \in ids PROVE i \in ToSet(o)
    <3>1. PICK k \in 1..L : i = file[k].id
      BY <1>1, <2>4 DEF Ids, ids
    <3> QED BY <2>1, <3>1 DEF o
  <2>5. ToSet(o) = ids
    <3>1. \A x \in ToSet(o) : x \in ids
      BY <2>3 DEF ToSet
    <3> QED BY <2>4, <3>1
  <2>6. o \in Surjection(1..m, ids) /\ o \in Injection(1..m, ids)
    <3>1. \A i \in ids : \E k \in 1..m : o[k] = i
      BY <2>3, <2>5 DEF ToSet
    <3> QED BY <2>2, <2>3, <3>1 DEF Surjection, Injection, IsInjective
  <2>7. IsFiniteSet(1..m) /\ Cardinality(1..m) = m
    <3>1. m \in Nat
      BY <2>3
    <3> HIDE DEF m
    <3> QED BY ONLY <3>1, FS_Interval
  <2>8. Cardinality(ids) = m
    BY <2>6, <2>7, FS_Surjection
  <2> QED BY <2>1, <2>5, <2>8 DEF o
<1> QED BY <1>6, <1>7, <1>8

\* What can be ordered leads to a root.
LEMMA OrderClimbs ==
    ASSUME NEW file \in Seq(Entry), NEW o, IsOrder(o, FileUp(file)), ToSet(o) = Ids(file)
    PROVE  AllClimb(file)
<1> DEFINE ids == Ids(file)
           up == FileUp(file)
           Climbs(i) == \E s : IsClimb(up, i, s) /\ up[s[1]] = NoId
           N == {k \in 1..Len(o) : ~Climbs(o[k])}
<1>1. DOMAIN up = ids /\ up \in [ids -> Nat] /\ NoId \notin ids
  BY FileFacts
<1>2. Len(o) \in Nat /\ DOMAIN o = 1..Len(o) /\ \A k \in 1..Len(o) : o[k] \in ids
  <2>1. o \in Seq(ids)
    BY <1>1 DEF IsOrder
  <2> HIDE DEF ids
  <2> QED BY <2>1, LenProperties
<1>3. N = {}
  <2> SUFFICES ASSUME N # {} PROVE FALSE
    OBVIOUS
  <2> DEFINE k == Min(N)
  <2>1. k \in N /\ \A m \in N : k <= m
    <3>1. N \subseteq Nat
      BY <1>2
    <3> HIDE DEF N
    <3> QED BY <3>1, LeastExists
  <2> HIDE DEF k
  <2>2. k \in 1..Len(o) /\ o[k] \in ids
    BY <1>2, <2>1
  <2> HIDE DEF up, ids
  <2>3. CASE up[o[k]] = NoId
    <3>1. IsClimb(up, up[o[k]], <<>>)
      BY <1>1, <2>3, ClimbNowhere
    <3>2. IsClimb(up, o[k], Append(<<>>, o[k]))
      BY <1>1, <2>2, <3>1, ClimbMore
    <3>3. Append(<<>>, o[k])[1] = o[k]
      OBVIOUS
    <3>4. Climbs(o[k])
      BY <2>3, <3>2, <3>3
    <3> QED BY <2>1, <3>4
  <2>4. CASE up[o[k]] # NoId
    <3>1. PICK m \in 1..Len(o) : m < k /\ up[o[k]] = o[m]
      BY <2>2, <2>4 DEF IsOrder, up
    <3>2. m \notin N
      BY <1>2, <2>1, <2>2, <3>1
    <3>3. PICK s : IsClimb(up, o[m], s) /\ up[s[1]] = NoId
      BY <3>1, <3>2
    <3>4. o[m] \in ids /\ s \in Seq(ids) /\ s # <<>>
      BY <1>1, <1>2, <3>1, <3>3 DEF IsClimb
    <3>5. IsClimb(up, o[k], Append(s, o[k]))
      BY <1>1, <2>2, <3>1, <3>3, ClimbMore
    <3>6. Append(s, o[k])[1] = s[1]
      <4>1. Len(s) \in Nat \ {0}
        BY <3>4, EmptySeq
      <4> QED BY <2>2, <3>4, <4>1, AppendProperties
    <3>7. Climbs(o[k])
      BY <3>3, <3>5, <3>6
    <3> QED BY <2>1, <3>7
  <2> QED BY <2>3, <2>4
<1>4. ASSUME NEW i \in ids PROVE Climbs(i)
  <2>1. PICK k \in 1..Len(o) : i = o[k]
    BY <1>2, <1>4 DEF ToSet
  <2> QED BY <1>3, <2>1
<1> QED BY <1>4 DEF AllClimb

\* A climb is a sequence of parents that leads to a root.
LEMMA TreesClimb ==
    ASSUME NEW file \in Seq(Entry), Cardinality(Ids(file)) = Len(file)
    PROVE  AllClimb(file) <=>
              \A i \in Ids(file) : \E n \in 1..Len(file) : \E up \in [1..n -> Ids(file)] :
                        /\ up[1] = i /\ ParentIn(file, up[n]) = NoId
                        /\ \A k \in 1..n - 1 : up[k + 1] = ParentIn(file, up[k])
<1> DEFINE ids == Ids(file)
           par == FileUp(file)
           Leads(i, n, up) == /\ up[1] = i /\ ParentIn(file, up[n]) = NoId
                              /\ \A k \in 1..n - 1 : up[k + 1] = ParentIn(file, up[k])
<1>1. /\ DOMAIN par = ids /\ par \in [ids -> Nat] /\ NoId \notin ids /\ IsFiniteSet(ids)
      /\ \A i \in ids : par[i] = ParentIn(file, i)
  BY FileFacts
<1> HIDE DEF par, ids
<1>2. ASSUME NEW i \in ids, NEW s, IsClimb(par, i, s), par[s[1]] = NoId
      PROVE  \E n \in 1..Len(file) : \E up \in [1..n -> ids] : Leads(i, n, up)
  <2> DEFINE n == Len(s)
             up == [k \in 1..n |-> s[n + 1 - k]]
  <2>1. /\ s \in Seq(ids) /\ s # <<>> /\ s[n] = i
        /\ \A k \in 1..n : k < n => s[k] = par[s[k + 1]]
    BY <1>1, <1>2 DEF IsClimb
  <2>2. n \in Nat \ {0} /\ \A k \in 1..n : s[k] \in ids
    BY <2>1, EmptySeq, LenProperties
  <2>3. n <= Len(file)
    <3>1. Len(s) <= Cardinality(ids)
      BY <1>1, <1>2, ClimbBounded
    <3> QED BY <3>1 DEF ids
  <2> HIDE DEF n
  <2>4. \A k \in 1..n : n + 1 - k \in 1..n
    BY <2>2
  <2>5. up \in [1..n -> ids]
    BY <2>2, <2>4
  <2>6. 1 \in 1..n /\ n \in 1..n /\ n + 1 - 1 = n /\ n + 1 - n = 1
    BY <2>2
  <2>7. up[1] = i /\ up[n] = s[1] /\ s[1] \in ids
    BY <2>1, <2>2, <2>6
  <2>8. ParentIn(file, up[n]) = NoId
    BY <1>1, <1>2, <2>7
  <2>9. ASSUME NEW k \in 1..n - 1 PROVE up[k + 1] = ParentIn(file, up[k])
    <3>1. /\ k \in 1..n /\ k + 1 \in 1..n /\ n - k \in 1..n /\ n - k < n
          /\ n + 1 - (k + 1) = n - k /\ n + 1 - k = (n - k) + 1
      BY <2>2
    <3>2. up[k + 1] = s[n - k] /\ up[k] = s[(n - k) + 1] /\ s[(n - k) + 1] \in ids
      <4>1. up[k + 1] = s[n + 1 - (k + 1)] /\ up[k] = s[n + 1 - k]
        BY <3>1
      <4>2. (n - k) + 1 \in 1..n
        BY <2>4, <3>1
      <4> QED BY <2>2, <3>1, <4>1, <4>2
    <3>3. s[n - k] = par[s[(n - k) + 1]]
      BY <2>1, <3>1
    <3> QED BY <1>1, <3>2, <3>3
  <2> HIDE DEF up
  <2>10. Leads(i, n, up)
    BY <2>7, <2>8, <2>9
  <2>11. n \in 1..Len(file)
    <3>1. Len(file) \in Nat
      BY LenProperties
    <3> QED BY <2>2, <2>3, <3>1
  <2> QED BY <2>5, <2>10, <2>11
<1>3. ASSUME NEW i \in ids, NEW n \in 1..Len(file), NEW up \in [1..n -> ids], Leads(i, n, up)
      PROVE  \E s : IsClimb(par, i, s) /\ par[s[1]] = NoId
  <2> DEFINE s == [k \in 1..n |-> up[n + 1 - k]]
  <2>1. n \in Nat \ {0} /\ \A k \in 1..n : n + 1 - k \in 1..n
    <3>1. Len(file) \in Nat
      BY LenProperties
    <3> QED BY <3>1
  <2>2. s \in [1..n -> ids]
    BY <2>1
  <2>3. s \in Seq(ids) /\ Len(s) = n
    BY <2>1, <2>2, SeqDef, LenProperties
  <2>4. s # <<>>
    BY <2>1, <2>3, EmptySeq
  <2>5. 1 \in 1..n /\ n \in 1..n /\ n + 1 - 1 = n /\ n + 1 - n = 1
    BY <2>1
  <2>6. s[n] = i /\ s[1] = up[n] /\ up[n] \in ids
    BY <1>3, <2>5
  <2>7. par[s[1]] = NoId
    BY <1>1, <1>3, <2>6
  <2>8. ASSUME NEW k \in 1..n, k < n PROVE s[k] = par[s[k + 1]]
    <3>1. /\ k + 1 \in 1..n /\ n - k \in 1..n - 1 /\ n - k \in 1..n
          /\ n + 1 - (k + 1) = n - k /\ n + 1 - k = (n - k) + 1
      BY <2>1, <2>8
    <3>2. s[k + 1] = up[n - k] /\ s[k] = up[(n - k) + 1] /\ up[n - k] \in ids
      <4>1. s[k + 1] = up[n + 1 - (k + 1)] /\ s[k] = up[n + 1 - k]
        BY <3>1
      <4> QED BY <3>1, <4>1
    <3>3. up[(n - k) + 1] = ParentIn(file, up[n - k])
      BY <1>3, <3>1
    <3> QED BY <1>1, <3>2, <3>3
  <2> HIDE DEF s
  <2>9. IsClimb(par, i, s)
    BY <1>1, <2>3, <2>4, <2>6, <2>7, <2>8 DEF IsClimb
  <2> QED BY <2>7, <2>9
<1>4. AllClimb(file) <=> \A i \in ids : \E s : IsClimb(par, i, s) /\ par[s[1]] = NoId
  BY DEF AllClimb, par, ids
<1> QED BY <1>2, <1>3, <1>4 DEF ids

\* The last file read is one made elsewhere, in the order it was given.
ReadOK == read.file # <<>> => read.file \in Files /\ read.order = ParentsFirst(read.file)

LEMMA FilesAreEntries == ASSUME NEW file \in Files PROVE file \in Seq(Entry)
<1>1. PICK n \in 1..FileLength : file \in [1..n -> [id : 1..FileLength, parent : 0..FileLength]]
  BY DEF Files
<1>2. FileLength \in Nat /\ n \in Nat
  BY StoreAssumption
<1>3. [id : 1..FileLength, parent : 0..FileLength] \subseteq Entry
  BY <1>2 DEF Entry
<1>4. file \in [1..n -> Entry]
  BY <1>1, <1>3
<1> QED BY <1>2, <1>4, SeqDef

LEMMA ReadIsTree == ASSUME ReadOK PROVE OnlyTreesAreImported
<1> DEFINE file == read.file
           order == read.order
           tree == /\ Cardinality(Ids(file)) = Len(file)
                   /\ \A i \in Ids(file) : \E n \in 1..Len(file) : \E up \in [1..n -> Ids(file)] :
                        /\ up[1] = i /\ ParentIn(file, up[n]) = NoId
                        /\ \A k \in 1..n - 1 : up[k + 1] = ParentIn(file, up[k])
<1> SUFFICES ASSUME file # <<>>
             PROVE  /\ (order # Rejected) <=> tree
                    /\ tree => /\ ToSet(order) = Ids(file) /\ Len(order) = Len(file)
                               /\ \A k \in DOMAIN order :
                                     ParentIn(file, order[k]) \in
                                        {NoId} \cup ToSet(SubSeq(order, 1, k - 1))
  BY DEF OnlyTreesAreImported
<1>1. file \in Seq(Entry) /\ order = ParentsFirst(file)
  BY FilesAreEntries DEF ReadOK
<1> HIDE DEF file, order
<1>2. /\ order # Rejected =>
            /\ Cardinality(Ids(file)) = Len(file) /\ IsOrder(order, FileUp(file))
            /\ ToSet(order) = Ids(file) /\ Len(order) = Len(file)
      /\ Cardinality(Ids(file)) = Len(file) /\ AllClimb(file) => order # Rejected
  BY <1>1, ParentsFirstFacts
<1>3. Cardinality(Ids(file)) = Len(file) => (AllClimb(file) <=> tree)
  BY <1>1, TreesClimb
<1>4. tree => Cardinality(Ids(file)) = Len(file)
  OBVIOUS
<1> HIDE DEF tree
<1>5. order # Rejected => AllClimb(file)
  BY <1>1, <1>2, OrderClimbs
<1>6. (order # Rejected) <=> tree
  BY <1>2, <1>3, <1>4, <1>5
<1>7. ASSUME tree, NEW k \in DOMAIN order
      PROVE  ParentIn(file, order[k]) \in {NoId} \cup ToSet(SubSeq(order, 1, k - 1))
  <2>1. IsOrder(order, FileUp(file))
    BY <1>2, <1>6, <1>7
  <2>2. /\ DOMAIN FileUp(file) = Ids(file)
        /\ \A i \in Ids(file) : FileUp(file)[i] = ParentIn(file, i)
    BY <1>1, FileFacts
  <2>3. /\ order \in Seq(Ids(file)) /\ Len(order) \in Nat /\ k \in 1..Len(order)
        /\ \A m \in 1..Len(order) : order[m] \in Ids(file)
    <3>1. order \in Seq(Ids(file))
      BY <2>1, <2>2 DEF IsOrder
    <3> QED BY <1>7, <3>1, LenProperties
  <2>4. FileUp(file)[order[k]] = ParentIn(file, order[k])
    BY <2>2, <2>3
  <2>5. CASE ParentIn(file, order[k]) # NoId
    <3>1. PICK m \in 1..Len(order) : m < k /\ ParentIn(file, order[k]) = order[m]
      BY <2>1, <2>3, <2>4, <2>5 DEF IsOrder
    <3> DEFINE s == SubSeq(order, 1, k - 1)
    <3>2. /\ s \in Seq(Ids(file)) /\ Len(s) = IF 1 <= k - 1 THEN k - 1 - 1 + 1 ELSE 0
          /\ \A j \in 1..k - 1 - 1 + 1 : s[j] = order[1 + j - 1]
      <4>1. 1 \in Int /\ k - 1 \in Int /\ \A j \in 1..k - 1 : order[j] \in Ids(file)
        BY <2>3
      <4> QED BY <4>1, SubSeqProperties
    <3>3. DOMAIN s = 1..Len(s)
      BY <3>2, LenProperties
    <3> HIDE DEF s
    <3>4. m \in 1..k - 1 - 1 + 1 /\ 1 + m - 1 = m /\ m \in DOMAIN s
      BY <2>3, <3>1, <3>2, <3>3
    <3>5. s[m] = order[m]
      BY <3>2, <3>4
    <3>6. order[m] \in ToSet(s)
      BY <3>4, <3>5 DEF ToSet
    <3> QED BY <3>1, <3>6 DEF s
  <2> QED BY <2>5
<1> QED BY <1>2, <1>6, <1>7

\* An export lists every message of the conversation once.
LEMMA ExportedFacts ==
    ASSUME Messages(msgs), NEW c
    PROVE  /\ Exported(c) \in Seq(Entry) /\ Len(Exported(c)) = Cardinality(Of(msgs, c))
           /\ Ids(Exported(c)) = Of(msgs, c)
           /\ FileUp(Exported(c)) = Parents(msgs, c)
<1> DEFINE ids == Of(msgs, c)
           N == Cardinality(ids)
           upto(i) == {j \in ids : j <= i}
           rank == [i \in ids |-> Cardinality(upto(i))]
           nth(k) == CHOOSE i \in ids : Cardinality(upto(i)) = k
           file == Exported(c)
<1>1. /\ ids \subseteq Nat \ {0} /\ IsFiniteSet(ids)
      /\ \A i \in ids : msgs[i].parent \in Nat /\ Parents(msgs, c)[i] = msgs[i].parent
  BY ParentsType
<1>2. file = [k \in 1..N |-> [id |-> nth(k), parent |-> msgs[nth(k)].parent]]
  BY DEF Exported
<1> HIDE DEF ids, file
<1>3. N \in Nat
  BY <1>1, FS_CardinalityType
<1>4. ASSUME NEW i \in ids PROVE i \in upto(i) /\ upto(i) \subseteq ids
  <2>1. i \in Nat
    BY <1>1
  <2>2. i <= i
    BY ONLY <2>1
  <2> QED BY <2>2
<1>5. ASSUME NEW i \in ids PROVE rank[i] \in 1..N /\ IsFiniteSet(upto(i))
  <2>1. IsFiniteSet(upto(i)) /\ Cardinality(upto(i)) <= N
    <3>1. upto(i) \subseteq ids
      BY <1>4
    <3> HIDE DEF upto
    <3> QED BY <1>1, <3>1, FS_Subset
  <2>2. Cardinality(upto(i)) \in Nat /\ Cardinality(upto(i)) # 0
    <3>1. i \in upto(i)
      BY <1>4
    <3> HIDE DEF upto
    <3> QED BY <2>1, <3>1, FS_CardinalityType, FS_EmptySet
  <2> HIDE DEF upto, N
  <2> QED BY <1>3, <2>1, <2>2
<1>6. ASSUME NEW i \in ids, NEW j \in ids, i < j PROVE rank[i] # rank[j]
  <2>1. upto(i) \subseteq upto(j) /\ j \notin upto(i) /\ j \in upto(j)
    <3>1. \A x \in ids : x <= i => x <= j
      BY <1>1, <1>6
    <3>2. ~(j <= i) /\ j <= j
      BY <1>1, <1>6
    <3> QED BY <3>1, <3>2
  <2>2. IsFiniteSet(upto(j))
    BY <1>5
  <2> HIDE DEF upto
  <2>3. Cardinality(upto(i)) # Cardinality(upto(j))
    BY <2>1, <2>2, FS_Subset
  <2> QED BY <2>3
<1>7. \A i, j \in ids : rank[i] = rank[j] => i = j
  <2> SUFFICES ASSUME NEW i \in ids, NEW j \in ids, i # j PROVE rank[i] # rank[j]
    OBVIOUS
  <2>1. i < j \/ j < i
    BY <1>1
  <2> HIDE DEF rank
  <2> QED BY <1>6, <2>1
<1>9. rank \in Injection(ids, 1..N)
  <2>1. rank \in [ids -> 1..N]
    <3>1. \A i \in ids : Cardinality(upto(i)) \in 1..N
      BY <1>5
    <3> QED BY <3>1
  <2> HIDE DEF rank
  <2> QED BY <1>7, <2>1 DEF Injection, IsInjective
<1>10. rank \in Surjection(ids, 1..N)
  <2>1. IsFiniteSet(1..N) /\ Cardinality(1..N) = N
    <3> HIDE DEF N
    <3> QED BY <1>3, FS_Interval
  <2> HIDE DEF rank
  <2> QED BY <1>9, <2>1, FS_Injection
<1>11. ASSUME NEW k \in 1..N PROVE nth(k) \in ids /\ rank[nth(k)] = k
  <2>1. \E i \in ids : Cardinality(upto(i)) = k
    <3>1. \E i \in ids : rank[i] = k
      BY <1>10 DEF Surjection
    <3> QED BY <3>1
  <2> HIDE DEF upto
  <2> QED BY <2>1
<1>12. ASSUME NEW i \in ids PROVE rank[i] \in 1..N /\ nth(rank[i]) = i
  <2> DEFINE k == rank[i]
  <2>1. k \in 1..N
    BY <1>5
  <2> HIDE DEF k
  <2>2. nth(k) \in ids /\ rank[nth(k)] = k
    BY <1>11, <2>1
  <2> HIDE DEF nth, rank
  <2> QED BY <1>7, <2>1, <2>2 DEF k
<1> HIDE DEF nth, rank, N, upto
<1>13. ASSUME NEW k \in 1..N
       PROVE  /\ file[k] = [id |-> nth(k), parent |-> msgs[nth(k)].parent] /\ file[k] \in Entry
              /\ file[k].id = nth(k) /\ nth(k) \in ids /\ file[k].parent = msgs[nth(k)].parent
  <2>1. nth(k) \in ids /\ nth(k) \in Nat \ {0} /\ msgs[nth(k)].parent \in Nat
    BY <1>1, <1>11
  <2> QED BY <1>2, <2>1 DEF Entry
<1>14. file \in Seq(Entry) /\ Len(file) = N /\ DOMAIN file = 1..N
  <2>1. file \in [1..N -> Entry]
    BY <1>2, <1>13
  <2> QED BY <1>3, <2>1, SeqDef, LenProperties
<1>15. Ids(file) = ids
  <2>1. ASSUME NEW i \in Ids(file) PROVE i \in ids
    BY <1>13, <1>14 DEF Ids
  <2>2. ASSUME NEW i \in ids PROVE i \in Ids(file)
    <3>1. rank[i] \in 1..N /\ file[rank[i]].id = i
      BY <1>12, <1>13
    <3> QED BY <1>14, <3>1 DEF Ids
  <2> QED BY <2>1, <2>2
<1>16. ASSUME NEW i \in ids PROVE ParentIn(file, i) = msgs[i].parent
  <2> DEFINE e == CHOOSE e \in ToSet(file) : e.id = i
  <2>1. file[rank[i]] \in ToSet(file) /\ file[rank[i]].id = i
    BY <1>12, <1>13, <1>14 DEF ToSet
  <2>2. e \in ToSet(file) /\ e.id = i
    BY <2>1
  <2> HIDE DEF e
  <2>3. PICK k \in 1..N : e = file[k]
    BY <1>14, <2>2 DEF ToSet
  <2>4. e.parent = msgs[i].parent
    BY <1>13, <2>2, <2>3
  <2> QED BY <2>4 DEF ParentIn, e
<1>17. FileUp(file) = Parents(msgs, c)
  BY <1>15, <1>16 DEF FileUp, Parents, ids
<1> QED BY <1>14, <1>15, <1>17 DEF ids, N, file

\* An export can always be imported.
LEMMA ExportIsAccepted ==
    ASSUME Messages(msgs), NEW c
    PROVE  LET order == ParentsFirst(Exported(c))
           IN  /\ order # Rejected /\ IsOrder(order, Parents(msgs, c))
               /\ ToSet(order) = Of(msgs, c)
<1> DEFINE file == Exported(c)
<1>1. /\ file \in Seq(Entry) /\ Len(file) = Cardinality(Of(msgs, c))
      /\ Ids(file) = Of(msgs, c) /\ FileUp(file) = Parents(msgs, c)
  BY ExportedFacts
<1> HIDE DEF file
<1>2. AllClimb(file)
  <2> SUFFICES ASSUME NEW i \in Of(msgs, c)
               PROVE  \E s : IsClimb(Parents(msgs, c), i, s) /\ Parents(msgs, c)[s[1]] = NoId
    BY <1>1 DEF AllClimb
  <2> DEFINE s == BranchTo(msgs, c, i)
  <2>1. i \in Nat
    BY ParentsType
  <2>2. IsClimb(Parents(msgs, c), i, s)
    BY <2>1, BranchIs
  <2>3. /\ s \in Seq(Of(msgs, c)) /\ s # <<>> /\ msgs[s[1]].parent = NoId
    BY <2>1, BranchFacts
  <2> HIDE DEF s
  <2>4. s[1] \in Of(msgs, c)
    <3>1. 1 \in 1..Len(s)
      BY <2>3, EmptySeq
    <3> QED BY <2>3, <3>1
  <2>5. Parents(msgs, c)[s[1]] = NoId
    BY <2>3, <2>4, ParentsType
  <2> QED BY <2>2, <2>5
<1>3. Cardinality(Ids(file)) = Len(file)
  BY <1>1
<1>4. /\ ParentsFirst(file) # Rejected /\ IsOrder(ParentsFirst(file), FileUp(file))
      /\ ToSet(ParentsFirst(file)) = Ids(file)
  BY <1>1, <1>2, <1>3, ParentsFirstFacts
<1> QED BY <1>1, <1>4 DEF file

\* Which copy is the leaf of an imported conversation.
LEMMA ImportedLeafFacts ==
    ASSUME Messages(msgs), last \in Nat, NEW c, NEW order, NEW leaf \in Nat,
           IsOrder(order, Parents(msgs, c)), ToSet(order) = Of(msgs, c),
           leaf # NoId => leaf \in Of(msgs, c)
    PROVE  /\ ImportedLeaf(order, leaf) \in Nat
           /\ leaf # NoId => \E m \in 1..Len(order) :
                                order[m] = leaf /\ ImportedLeaf(order, leaf) = last + m
           /\ \/ ImportedLeaf(order, leaf) = NoId /\ order = <<>>
              \/ \E m \in 1..Len(order) : ImportedLeaf(order, leaf) = last + m
<1> DEFINE up == Parents(msgs, c)
           L == Len(order)
<1>1. DOMAIN up = Of(msgs, c) /\ NoId \notin DOMAIN up
  BY ParentsType DEF Parents, NoId
<1>2. /\ L \in Nat /\ DOMAIN order = 1..L
      /\ \A k \in 1..L : NewId(order, order[k]) = last + k
      /\ NewId(order, NoId) = NoId
  <2>1. IsOrder(order, up)
    OBVIOUS
  <2> HIDE DEF up
  <2> QED BY <1>1, <2>1, NewIdFacts
<1>3. CASE leaf # NoId
  <2>1. PICK m \in 1..L : order[m] = leaf
    BY <1>2, <1>3 DEF ToSet
  <2>2. NewId(order, leaf) = last + m /\ last + m # NoId /\ last + m \in Nat
    BY <1>2, <2>1 DEF NoId
  <2>3. ImportedLeaf(order, leaf) = last + m
    BY <2>2 DEF ImportedLeaf
  <2> QED BY <1>3, <2>1, <2>2, <2>3
<1>4. CASE leaf = NoId
  <2>1. ImportedLeaf(order, leaf) = IF order = <<>> THEN NoId ELSE last + L
    BY <1>2, <1>4 DEF ImportedLeaf
  <2>2. CASE order = <<>>
    BY <1>4, <2>1, <2>2 DEF NoId
  <2>3. CASE order # <<>>
    <3>1. L \in 1..L
      <4>1. order \in Seq(DOMAIN up)
        BY DEF IsOrder
      <4> HIDE DEF up
      <4>2. L # 0
        BY <2>3, <4>1, EmptySeq
      <4> QED BY <1>2, <4>2
    <3> QED BY <1>2, <1>4, <2>1, <2>3, <3>1
  <2> QED BY <2>2, <2>3
<1> QED BY <1>3, <1>4

LEMMA ImportExportKeeps == ASSUME StoreInv, NEW c \in DOMAIN convs, ImportExport(c) PROVE StoreInv'
<1> DEFINE order == ParentsFirst(Exported(c))
           old == convs[c].leaf
           new == Copies(order)
           leaf == ImportedLeaf(order, old)
           L == Len(order)
<1>1. /\ Up /\ gen = NoGeneration
      /\ \/ CreatedWith(new, leaf, convs[c].whole) /\ UNCHANGED <<db, gen>>
         \/ \E k \in 0..L : CreatedWith(SubSeq(new, 1, k), NoId, FALSE) /\ ProcessEnds
  BY DEF ImportExport, Busy
<1>2. /\ Messages(msgs) /\ last \in Nat /\ made \in Nat /\ old \in Nat /\ convs[c].whole \in BOOLEAN
      /\ old # NoId => old \in Of(msgs, c)
      /\ convs[c].whole => Sound(msgs, convs, c)
  BY <1>1 DEF StoreInv, StoreTypeOK, Home, Conversation, Up, SchemaOK, RolesOK
<1>3. IsOrder(order, Parents(msgs, c)) /\ ToSet(order) = Of(msgs, c)
  BY <1>2, ExportIsAccepted
<1> HIDE DEF order, old
<1>4. /\ leaf \in Nat
      /\ old # NoId => \E m \in 1..L : order[m] = old /\ leaf = last + m
      /\ \/ leaf = NoId /\ order = <<>>
         \/ \E m \in 1..L : leaf = last + m
  BY <1>2, <1>3, ImportedLeafFacts
<1>5. /\ new \in Seq(MessageType) /\ Len(new) = L /\ L \in Nat
      /\ \A k \in 1..L :
            /\ order[k] \in Of(msgs, c)
            /\ NewId(order, order[k]) = last + k
            /\ new[k].conv = made + 1 /\ new[k].role = msgs[order[k]].role
            /\ new[k].text = msgs[order[k]].text
            /\ new[k].parent = NewId(order, msgs[order[k]].parent)
            /\ \/ msgs[order[k]].parent = NoId /\ new[k].parent = NoId
               \/ \E m \in 1..L : /\ m < k /\ msgs[order[k]].parent = order[m]
                                  /\ new[k].parent = last + m
  <2>1. Messages(msgs) /\ last \in Nat /\ made \in Nat
    BY <1>2
  <2>2. new = Copies(order) /\ L = Len(order)
    OBVIOUS
  <2> HIDE DEF new, L
  <2>3. AreCopies(new, order, c)
    BY ONLY <1>3, <2>1, <2>2, CopiesFacts
  <2> QED BY ONLY <2>2, <2>3 DEF AreCopies
<1> HIDE DEF new, leaf, L
<1>6. CASE CreatedWith(new, leaf, convs[c].whole) /\ UNCHANGED <<db, gen>>
  <2>1. leaf = NoId \/ \E k \in 1..L : leaf = last + k
    BY <1>4
  <2>2. ASSUME convs[c].whole, NEW j \in 1..L, NEW k \in 1..L, new[j].parent = new[k].parent
        PROVE  new[j].role = new[k].role
    <3>1. msgs[order[j]].parent = msgs[order[k]].parent
      <4>1. CASE new[k].parent = NoId
        <5>1. \A m \in 1..L : last + m # NoId
          BY <1>2, <1>5 DEF NoId
        <5> QED BY <1>5, <2>2, <4>1, <5>1
      <4>2. CASE new[k].parent # NoId
        <5>1. PICK m \in 1..L : msgs[order[k]].parent = order[m] /\ new[k].parent = last + m
          BY <1>5, <4>2
        <5>2. PICK n \in 1..L : msgs[order[j]].parent = order[n] /\ new[j].parent = last + n
          BY <1>5, <2>2, <4>2
        <5>3. m = n
          BY <1>2, <1>5, <2>2, <5>1, <5>2
        <5> QED BY <5>1, <5>2, <5>3
      <4> QED BY <4>1, <4>2
    <3>2. SameRoles(msgs, c)
      BY <1>2, <2>2 DEF Sound
    <3>3. /\ order[j] \in Of(msgs, c) /\ order[k] \in Of(msgs, c)
          /\ new[j].role = msgs[order[j]].role /\ new[k].role = msgs[order[k]].role
      BY <1>5
    <3>4. msgs[order[j]].role = msgs[order[k]].role
      BY <3>1, <3>2, <3>3 DEF SameRoles
    <3> QED BY <3>3, <3>4
  <2>3. ASSUME convs[c].whole, NEW k \in 1..L PROVE new[k].parent # leaf
    <3>1. Children(msgs, c, old) = {}
      BY <1>2, <2>3 DEF Sound, old
    <3>2. old # NoId
      <4> SUFFICES ASSUME old = NoId PROVE FALSE
        OBVIOUS
      <4> DEFINE b == BranchTo(msgs, c, order[k])
      <4>1. order[k] \in Of(msgs, c) /\ order[k] \in Nat
        BY <1>2, <1>5, ParentsType
      <4>2. /\ b \in Seq(Of(msgs, c)) /\ Len(b) \in Nat /\ Len(b) >= 1 /\ msgs[b[1]].parent = NoId
        BY <1>2, <4>1, BranchFacts
      <4> HIDE DEF b
      <4>3. b[1] \in Of(msgs, c)
        BY <4>2
      <4> QED BY <3>1, <4>2, <4>3 DEF Children
    <3>3. PICK m \in 1..L : order[m] = old /\ leaf = last + m
      BY <1>4, <3>2
    <3> SUFFICES ASSUME new[k].parent = leaf PROVE FALSE
      OBVIOUS
    <3>4. new[k].parent # NoId
      BY <1>2, <1>5, <3>3 DEF NoId
    <3>5. PICK n \in 1..L : msgs[order[k]].parent = order[n] /\ new[k].parent = last + n
      BY <1>5, <3>4
    <3>6. n = m
      BY <1>2, <1>5, <3>3, <3>5
    <3>7. msgs[order[k]].parent = old /\ order[k] \in Of(msgs, c)
      BY <1>5, <3>3, <3>5, <3>6
    <3> QED BY <3>1, <3>7 DEF Children
  <2> DEFINE whole == convs[c].whole
  <2>4. whole \in BOOLEAN /\ CreatedWith(new, leaf, whole)
    BY <1>2, <1>6
  <2>5. /\ \A k \in 1..Len(new) :
              /\ new[k].conv = made + 1
              /\ \/ new[k].parent = NoId
                 \/ \E m \in 1..Len(new) : m < k /\ new[k].parent = last + m
        /\ leaf = NoId \/ \E k \in 1..Len(new) : leaf = last + k
        /\ whole => /\ \A k \in 1..Len(new) : new[k].parent # leaf
                    /\ \A j, k \in 1..Len(new) :
                          new[j].parent = new[k].parent => new[j].role = new[k].role
    BY <1>5, <2>1, <2>2, <2>3
  <2> HIDE DEF whole
  <2>6. Up /\ gen = NoGeneration /\ new \in Seq(MessageType) /\ leaf \in Nat /\ UNCHANGED <<db, gen>>
    BY <1>1, <1>4, <1>5, <1>6
  <2> QED BY ONLY StoreInv, <2>4, <2>5, <2>6, CreatedKeeps
<1>7. ASSUME NEW n \in 0..L, CreatedWith(SubSeq(new, 1, n), NoId, FALSE), ProcessEnds
      PROVE  StoreInv'
  <2> DEFINE s == SubSeq(new, 1, n)
             none == NoId
             whole == FALSE
  <2>1. \A k \in 1..n : k \in 1..L
    BY <1>5
  <2>2. \A k \in 1..n : new[k] \in MessageType
    BY <1>5, <2>1
  <2>3. /\ s \in Seq(MessageType) /\ Len(s) = IF 1 <= n THEN n - 1 + 1 ELSE 0
        /\ \A k \in 1..n - 1 + 1 : s[k] = new[1 + k - 1]
    <3>1. 1 \in Int /\ n \in Int
      BY <1>5
    <3> QED BY <2>2, <3>1, SubSeqProperties
  <2>4. CreatedWith(s, none, whole) /\ none \in Nat /\ whole \in BOOLEAN
    BY <1>7 DEF NoId
  <2> HIDE DEF s
  <2>5. Len(s) = n /\ n \in Nat
    BY <1>5, <2>3
  <2>6. \A k \in 1..n : s[k] = new[k]
    <3> SUFFICES ASSUME NEW k \in 1..n PROVE s[k] = new[k]
      OBVIOUS
    <3>1. k \in 1..n - 1 + 1 /\ 1 + k - 1 = k
      BY <2>5
    <3> QED BY <2>3, <3>1
  <2>7. ASSUME NEW k \in 1..Len(s)
        PROVE  /\ s[k].conv = made + 1
               /\ \/ s[k].parent = none
                  \/ \E m \in 1..Len(s) : m < k /\ s[k].parent = last + m
    <3>1. k \in 1..n /\ k \in 1..L /\ s[k] = new[k]
      BY <2>1, <2>5, <2>6
    <3>2. CASE new[k].parent = NoId
      BY <1>5, <3>1, <3>2
    <3>3. CASE new[k].parent # NoId
      <4>1. PICK m \in 1..L : m < k /\ new[k].parent = last + m
        BY <1>5, <3>1, <3>3
      <4>2. m \in 1..Len(s)
        BY <2>5, <3>1, <4>1
      <4> QED BY <1>5, <3>1, <4>1, <4>2
    <3> QED BY <3>2, <3>3
  <2>8. none = NoId /\ ~whole
    OBVIOUS
  <2> HIDE DEF none, whole
  <2>9. Up /\ gen = NoGeneration /\ (UNCHANGED <<db, gen>> \/ ProcessEnds)
    BY <1>1, <1>7
  <2> QED BY ONLY StoreInv, <2>3, <2>4, <2>7, <2>8, <2>9, CreatedKeeps
<1> QED BY <1>1, <1>6, <1>7

LEMMA ImportFileKeeps ==
    ASSUME StoreInv, ReadOK, NEW file \in Files, ImportFile(file) PROVE StoreInv' /\ ReadOK'
<1> DEFINE order == ParentsFirst(file)
           L == Len(order)
           new == [k \in DOMAIN order |->
                Message(1, NewId(order, ParentIn(file, order[k])), "user", last + k)]
           leaf == ImportedLeaf(order, NoId)
           whole == TRUE
<1>1. /\ Up /\ made = 0 /\ UNCHANGED <<db, gen>> /\ read' = [file |-> file, order |-> order]
      /\ IF order = Rejected THEN UNCHANGED <<msgs, convs, last, made>>
         ELSE CreatedWith(new, leaf, whole)
  BY DEF ImportFile
<1>2. ReadOK'
  BY <1>1 DEF ReadOK
<1>3. last \in Nat /\ file \in Seq(Entry)
  BY FilesAreEntries DEF StoreInv, StoreTypeOK
<1>4. CASE order = Rejected
  <2>1. UNCHANGED <<db, msgs, convs, last, made, gen>>
    BY <1>1, <1>4
  <2>2. StoreInv'
    BY <2>1 DEF StoreInv, StoreTypeOK, SchemaOK, RolesOK, GenOK, PromptIsBranch
  <2> QED BY <1>2, <2>2
<1>5. CASE order # Rejected
  <2>1. gen = NoGeneration
    <3>1. \A c : c \notin 1..made
      BY <1>1
    <3> QED BY <3>1 DEF StoreInv, GenOK
  <2>2. IsOrder(order, FileUp(file))
    BY <1>3, <1>5, ParentsFirstFacts
  <2>3. /\ DOMAIN FileUp(file) = Ids(file) /\ NoId \notin Ids(file)
        /\ \A i \in Ids(file) : FileUp(file)[i] = ParentIn(file, i)
    BY <1>3, FileFacts
  <2> HIDE DEF order
  <2> DEFINE up == FileUp(file)
  <2>4. /\ L \in Nat /\ DOMAIN order = 1..L
        /\ \A k \in 1..L : order[k] \in Ids(file)
        /\ NewId(order, NoId) = NoId
        /\ \A k \in 1..L :
              \/ up[order[k]] = NoId /\ NewId(order, up[order[k]]) = NoId
              \/ \E m \in 1..L : /\ m < k /\ up[order[k]] = order[m]
                                 /\ NewId(order, up[order[k]]) = last + m
    <3>1. IsOrder(order, up) /\ DOMAIN up = Ids(file) /\ NoId \notin DOMAIN up
      BY <2>2, <2>3
    <3> HIDE DEF up
    <3> QED BY <1>3, <3>1, NewIdFacts
  <2> HIDE DEF L
  <2>5. new = [k \in 1..L |->
                Message(1, NewId(order, ParentIn(file, order[k])), "user", last + k)]
    BY <2>4
  <2> HIDE DEF new
  <2>6. ASSUME NEW k \in 1..L
        PROVE  /\ new[k].conv = made + 1 /\ new[k].role = "user" /\ new[k] \in MessageType
               /\ \/ new[k].parent = NoId
                  \/ \E m \in 1..L : m < k /\ new[k].parent = last + m
    <3>1. new[k] = [conv |-> 1, parent |-> NewId(order, up[order[k]]), role |-> "user",
                    text |-> last + k]
      BY <2>3, <2>4, <2>5 DEF Message
    <3> DEFINE p == NewId(order, up[order[k]])
    <3>2. p = NoId \/ \E m \in 1..L : m < k /\ p = last + m
      BY <2>4
    <3> HIDE DEF p
    <3>3. p \in Nat /\ last + k \in Nat
      BY <1>3, <2>4, <3>2 DEF NoId
    <3>4. new[k] = [conv |-> 1, parent |-> p, role |-> "user", text |-> last + k]
      BY <3>1 DEF p
    <3>5. new[k].conv = 1 /\ new[k].role = "user" /\ new[k].parent = p /\ new[k] \in MessageType
      BY <3>3, <3>4 DEF MessageType
    <3> QED BY <1>1, <3>2, <3>5
  <2>7. new \in Seq(MessageType) /\ Len(new) = L
    <3>1. new \in [1..L -> MessageType]
      BY <2>5, <2>6
    <3> QED BY <2>4, <3>1, SeqDef, LenProperties
  <2>8. leaf = IF order = <<>> THEN NoId ELSE last + L
    BY <2>4 DEF ImportedLeaf, L
  <2>9. order = <<>> <=> L = 0
    <3>1. order \in Seq(Ids(file))
      BY <2>2, <2>3 DEF IsOrder
    <3> QED BY <3>1, EmptySeq DEF L
  <2> HIDE DEF leaf
  <2>10. leaf \in Nat /\ (leaf = NoId \/ \E k \in 1..L : leaf = last + k)
         /\ \A k \in 1..L : leaf = last + L
    <3>1. CASE L = 0
      BY <2>8, <2>9, <3>1 DEF NoId
    <3>2. CASE L # 0
      <4>1. L \in 1..L /\ leaf = last + L
        BY <2>4, <2>8, <2>9, <3>2
      <4> QED BY <1>3, <2>4, <4>1
    <3> QED BY <3>1, <3>2
  <2>11. ASSUME NEW k \in 1..L PROVE new[k].parent # leaf
    <3>1. leaf = last + L /\ k <= L /\ L >= 1
      BY <2>4, <2>10
    <3>2. CASE new[k].parent = NoId
      BY <1>3, <2>4, <3>1, <3>2 DEF NoId
    <3>3. CASE \E m \in 1..L : m < k /\ new[k].parent = last + m
      BY <1>3, <2>4, <3>1, <3>3
    <3> QED BY <2>6, <3>2, <3>3
  <2>12. /\ \A k \in 1..Len(new) :
              /\ new[k].conv = made + 1
              /\ \/ new[k].parent = NoId
                 \/ \E m \in 1..Len(new) : m < k /\ new[k].parent = last + m
         /\ leaf = NoId \/ \E k \in 1..Len(new) : leaf = last + k
         /\ whole => /\ \A k \in 1..Len(new) : new[k].parent # leaf
                     /\ \A j, k \in 1..Len(new) :
                          new[j].parent = new[k].parent => new[j].role = new[k].role
    BY <2>6, <2>7, <2>10, <2>11
  <2>13. /\ whole \in BOOLEAN /\ CreatedWith(new, leaf, whole) /\ UNCHANGED <<db, gen>>
         /\ Up /\ gen = NoGeneration /\ new \in Seq(MessageType) /\ leaf \in Nat
    BY <1>1, <1>5, <2>1, <2>7, <2>10 DEF new, leaf, order
  <2> HIDE DEF whole
  <2>14. StoreInv'
    BY ONLY StoreInv, <2>12, <2>13, CreatedKeeps
  <2> QED BY <1>2, <2>14
<1> QED BY <1>4, <1>5

LEMMA StoreStarts == StoreInit => StoreInv /\ ReadOK
<1> SUFFICES ASSUME StoreInit PROVE StoreInv /\ ReadOK
  OBVIOUS
<1>1. gen = NoGeneration /\ read = NoRead
  BY DEF StoreInit
<1>2. ReadOK
  BY <1>1 DEF ReadOK, NoRead
<1>3. /\ gen \in [conv : Nat, parent : Nat, prompt : Seq(Nat), covered : Seq(Nat), resumed : BOOLEAN]
      /\ GenOK /\ PromptIsBranch
  BY <1>1, EmptySeq DEF NoGeneration, NoId, GenOK, PromptIsBranch
<1>4. CASE db = [at |-> "closed", version |-> 0] /\ msgs = <<>> /\ convs = <<>> /\ last = 0 /\ made = 0
  <2>1. DOMAIN msgs = {} /\ DOMAIN convs = {}
    BY <1>4
  <2>2. IsFiniteSet({})
    BY FS_EmptySet
  <2>3. msgs \in [{} -> MessageType] /\ convs \in [{} -> Conversation]
    BY <1>4
  <2>4. Home(msgs, convs)
    BY <2>1, <2>2, <2>3 DEF Home, Messages
  <2>5. StoreTypeOK
    BY <1>3, <1>4, <2>1 DEF StoreTypeOK
  <2>6. SchemaOK /\ RolesOK
    BY <1>1, <1>4, <2>1 DEF SchemaOK, RolesOK
  <2> QED BY <1>2, <1>3, <2>4, <2>5, <2>6 DEF StoreInv
<1>5. CASE db = Flat.db /\ msgs = Flat.msgs /\ convs = Flat.convs /\ last = 3 /\ made = 2
  <2>1. /\ db = [at |-> "closed", version |-> 1]
        /\ msgs = [i \in 1..3 |-> Message(1 + (i % 2), NoId, "user", i)]
        /\ convs = [c \in 1..2 |-> [leaf |-> NoId, whole |-> TRUE]]
    BY <1>5 DEF Flat
  <2>2. \A i \in 1..3 : /\ msgs[i].conv \in 1..2 /\ msgs[i].parent = NoId /\ msgs[i].role = "user"
                        /\ msgs[i] \in MessageType
    <3> SUFFICES ASSUME NEW i \in 1..3
                 PROVE  /\ msgs[i].conv \in 1..2 /\ msgs[i].parent = NoId /\ msgs[i].role = "user"
                        /\ msgs[i] \in MessageType
      OBVIOUS
    <3>1. msgs[i] = [conv |-> 1 + (i % 2), parent |-> NoId, role |-> "user", text |-> i]
      BY <2>1 DEF Message
    <3>2. 1 + (i % 2) \in 1..2
      OBVIOUS
    <3> QED BY <3>1, <3>2 DEF MessageType, NoId
  <2>3. DOMAIN msgs = 1..3 /\ DOMAIN convs = 1..2 /\ IsFiniteSet(1..3)
    <3>1. 1 \in Int /\ 3 \in Int
      OBVIOUS
    <3>2. IsFiniteSet(1..3)
      BY ONLY <3>1, FS_Interval
    <3> QED BY <2>1, <3>2
  <2>4. msgs \in [1..3 -> MessageType] /\ convs \in [1..2 -> Conversation]
    <3>1. msgs \in [1..3 -> MessageType]
      BY <2>1, <2>2
    <3>2. [leaf |-> NoId, whole |-> TRUE] \in Conversation
      BY DEF NoId, Conversation
    <3> QED BY <2>1, <3>1, <3>2
  <2>5. Home(msgs, convs)
    BY <2>1, <2>2, <2>3, <2>4 DEF Home, Messages
  <2>6. StoreTypeOK
    BY <1>3, <1>5, <2>1, <2>3 DEF StoreTypeOK
  <2>7. SchemaOK /\ RolesOK
    BY <1>1, <2>1, <2>2, <2>3 DEF SchemaOK, RolesOK
  <2> QED BY <1>2, <1>3, <2>5, <2>6, <2>7 DEF StoreInv
<1> QED BY <1>4, <1>5 DEF StoreInit

LEMMA StoreKeeps ==
    ASSUME StoreInv, ReadOK, [StoreNext]_storeVars PROVE StoreInv' /\ ReadOK'
<1>1. CASE StoreStep /\ read' = NoRead
  <2>1. ReadOK'
    BY <1>1 DEF ReadOK, NoRead
  <2>2. StoreStep
    BY <1>1
  <2>3. CASE Migrate
    BY <2>1, <2>3, MigrateKeeps
  <2>4. CASE Opens
    BY <2>1, <2>4, OpensKeeps
  <2>5. CASE Dies
    BY <2>1, <2>5, DiesKeeps
  <2>6. CASE NewConversation
    BY <2>1, <2>6, NewConversationKeeps
  <2>7. ASSUME NEW c \in DOMAIN convs, OnConversation(c) PROVE StoreInv'
    BY <2>7, ForkKeeps, DeleteKeeps, UserTurnKeeps, ImportExportKeeps, ResumeRunKeeps
       DEF OnConversation
  <2>8. ASSUME NEW i \in DOMAIN msgs, OnMessage(i) PROVE StoreInv'
    BY <2>8, NavigateKeeps, EditMessageKeeps, RegenerateKeeps DEF OnMessage
  <2>9. ASSUME NEW text \in BOOLEAN, StreamEnds(text) PROVE StoreInv'
    BY <2>9, StreamEndsKeeps
  <2> QED BY <2>1, <2>2, <2>3, <2>4, <2>5, <2>6, <2>7, <2>8, <2>9 DEF StoreStep
<1>2. ASSUME NEW file \in Files, ImportFile(file) PROVE StoreInv' /\ ReadOK'
  BY <1>2, ImportFileKeeps
<1>3. CASE UNCHANGED storeVars
  <2>1. UNCHANGED <<db, msgs, convs, last, made, gen, read>>
    BY <1>3 DEF storeVars
  <2> QED BY <2>1 DEF StoreInv, StoreTypeOK, SchemaOK, RolesOK, GenOK, PromptIsBranch, ReadOK
<1> QED BY <1>1, <1>2, <1>3 DEF StoreNext

\* What is on a branch, and what hangs below it there.
LEMMA OnBranch ==
    ASSUME NEW ms, Messages(ms), NEW c, NEW l \in Of(ms, c), NEW p \in ToSet(BranchTo(ms, c, l))
    PROVE  /\ p \in Of(ms, c) /\ l \in ToSet(BranchTo(ms, c, l))
           /\ p # l => \E j \in ToSet(BranchTo(ms, c, l)) : j \in Of(ms, c) /\ ms[j].parent = p
<1> DEFINE b == BranchTo(ms, c, l)
<1>1. l \in Nat
  BY ParentsType
<1>2. /\ b \in Seq(Of(ms, c)) /\ Len(b) \in Nat /\ Len(b) >= 1 /\ b[Len(b)] = l
      /\ \A k \in 1..Len(b) : k < Len(b) => b[k] = ms[b[k + 1]].parent
  BY <1>1, BranchFacts
<1> HIDE DEF b
<1>3. DOMAIN b = 1..Len(b) /\ \A k \in 1..Len(b) : b[k] \in Of(ms, c) /\ b[k] \in ToSet(b)
  BY <1>2, LenProperties DEF ToSet
<1>4. PICK k \in 1..Len(b) : p = b[k]
  BY <1>3 DEF ToSet, b
<1>5. Len(b) \in 1..Len(b)
  BY <1>2
<1>6. ASSUME p # l PROVE \E j \in ToSet(b) : j \in Of(ms, c) /\ ms[j].parent = p
  <2>1. k < Len(b) /\ k + 1 \in 1..Len(b)
    BY <1>2, <1>4, <1>6
  <2>2. b[k + 1] \in ToSet(b) /\ b[k + 1] \in Of(ms, c) /\ ms[b[k + 1]].parent = p
    BY <1>2, <1>3, <1>4, <2>1
  <2> QED BY <2>2
<1> QED BY <1>2, <1>3, <1>4, <1>5, <1>6 DEF b

LEMMA EveryBranchIsShown == ASSUME StoreInv PROVE NoBranchIsLost
<1> SUFFICES ASSUME NEW c \in DOMAIN convs, Up, convs[c].whole, convs[c].leaf # NoId,
                    NEW leaves \in SUBSET Of(msgs, c), convs[c].leaf \in leaves,
                    Navigable(c, leaves)
             PROVE  \A i \in Of(msgs, c) : \E l \in leaves : i \in ToSet(BranchTo(msgs, c, l))
  BY DEF NoBranchIsLost
<1> DEFINE On(i, l) == i \in ToSet(BranchTo(msgs, c, l))
           N == {i \in Of(msgs, c) : \A l \in leaves : ~On(i, l)}
           m == Min(N)
           p == msgs[m].parent
<1>1. /\ Messages(msgs) /\ SameRoles(msgs, c) /\ last \in Nat /\ DOMAIN msgs \subseteq 1..last
  BY DEF StoreInv, StoreTypeOK, Home, Up, SchemaOK, RolesOK, Sound
<1>2. /\ Of(msgs, c) \subseteq Nat \ {0} /\ Of(msgs, c) \subseteq DOMAIN msgs
      /\ \A i \in Of(msgs, c) :
            /\ msgs[i].conv = c
            /\ msgs[i].parent # NoId => msgs[i].parent \in Of(msgs, c) /\ msgs[i].parent < i
  BY <1>1, ParentsType
<1> SUFFICES ASSUME N # {} PROVE FALSE
  OBVIOUS
<1>3. m \in N /\ \A k \in N : m <= k
  <2>1. N \subseteq Nat
    BY <1>2
  <2> HIDE DEF N
  <2> QED BY <2>1, LeastExists
<1>4. m \in Of(msgs, c) /\ m \in Nat /\ \A l \in leaves : ~On(m, l)
  BY <1>2, <1>3
<1> HIDE DEF m
<1>5. ASSUME NEW l \in leaves, NEW j \in Of(msgs, c), On(j, l) PROVE msgs[j].parent # p
  <2> SUFFICES ASSUME msgs[j].parent = p PROVE FALSE
    OBVIOUS
  <2>1. msgs[m].role = msgs[j].role /\ msgs[j].conv = c
    BY <1>1, <1>2, <1>4 DEF SameRoles
  <2>2. m \in Siblings(msgs, j)
    BY <1>4, <2>1 DEF Siblings, Children
  <2>3. NewestLeaf(msgs, m) \in leaves
    BY <1>5, <2>2 DEF Navigable
  <2>4. m \in DOMAIN msgs /\ msgs[m].conv = c
    BY <1>2, <1>4
  <2>5. m \in ToSet(BranchTo(msgs, c, NewestLeaf(msgs, m)))
    BY <1>1, <2>4, NewestLeafFacts
  <2> QED BY <1>4, <2>3, <2>5
<1>6. CASE p = NoId
  <2> DEFINE l == convs[c].leaf
             b == BranchTo(msgs, c, l)
  <2>1. l \in Of(msgs, c) /\ l \in Nat
    BY <1>2
  <2>2. b \in Seq(Of(msgs, c)) /\ Len(b) \in Nat /\ Len(b) >= 1 /\ msgs[b[1]].parent = NoId
    BY <1>1, <2>1, BranchFacts
  <2> HIDE DEF b
  <2>3. b[1] \in Of(msgs, c) /\ b[1] \in ToSet(b)
    <3>1. 1 \in DOMAIN b /\ 1 \in 1..Len(b)
      BY <2>2, LenProperties
    <3> QED BY <2>2, <3>1 DEF ToSet
  <2> QED BY <1>5, <1>6, <2>2, <2>3 DEF b
<1>7. CASE p # NoId
  <2>1. p \in Of(msgs, c) /\ p < m /\ p \in DOMAIN msgs /\ msgs[p].conv = c /\ p \in Nat
    BY <1>2, <1>4, <1>7
  <2>2. p \notin N
    BY <1>3, <1>4, <2>1
  <2>3. PICK l \in leaves : On(p, l)
    BY <2>1, <2>2
  <2>4. l \in Of(msgs, c)
    OBVIOUS
  <2>5. CASE p # l
    <3>1. \E j \in ToSet(BranchTo(msgs, c, l)) : j \in Of(msgs, c) /\ msgs[j].parent = p
      BY <1>1, <2>3, <2>4, <2>5, OnBranch
    <3> QED BY <1>5, <3>1
  <2>6. CASE p = l
    <3> DEFINE n == NewestLeaf(msgs, p)
    <3>1. p \in Siblings(msgs, p)
      BY <2>1 DEF Siblings, Children
    <3>2. n \in leaves
      BY <2>3, <3>1 DEF Navigable
    <3>3. n \in Of(msgs, c) /\ Children(msgs, c, n) = {} /\ p \in ToSet(BranchTo(msgs, c, n))
      BY <1>1, <2>1, NewestLeafFacts
    <3> HIDE DEF n
    <3>4. p # n
      BY <1>4, <3>3 DEF Children
    <3>5. \E j \in ToSet(BranchTo(msgs, c, n)) : j \in Of(msgs, c) /\ msgs[j].parent = p
      BY <1>1, <3>3, <3>4, OnBranch
    <3> QED BY <1>5, <3>2, <3>5
  <2> QED BY <2>5, <2>6
<1> QED BY <1>6, <1>7

LEMMA StoreInvIsSound == StoreInv /\ ReadOK => TreesAreSound
<1> SUFFICES ASSUME StoreInv, ReadOK PROVE TreesAreSound
  OBVIOUS
<1>1. ForestAtHome
  BY DEF StoreInv, Home, Messages, ForestAtHome
<1> QED BY <1>1, EveryBranchIsShown, ReadIsTree DEF StoreInv, TreesAreSound

\* The messages of every conversation stay a tree whose branches are what is submitted, can
\* all be shown, and are the only thing an import accepts, however large the conversations
\* and files: list_branch_to never stops early, and the sibling arrows lose no branch.
THEOREM TreesStaySound == StoreSpec => []TreesAreSound
<1> DEFINE Inv == StoreInv /\ ReadOK
<1>1. StoreInit => Inv
  BY StoreStarts
<1>2. Inv /\ [StoreNext]_storeVars => Inv'
  BY StoreKeeps
<1>3. Inv => TreesAreSound
  BY StoreInvIsSound
<1> QED BY <1>1, <1>2, <1>3, PTL DEF StoreSpec

-----------------------------------------------------------------------------
(***************************************************************************)
(* Conversations: copies and history.                                      *)
(***************************************************************************)
\* The branch of a copy is the copy of the branch.
LEMMA BranchIsCopied ==
    ASSUME Messages(msgs), last \in Nat, made \in Nat, NEW c, NEW order,
           IsOrder(order, Parents(msgs, c)), ToSet(order) = Of(msgs, c),
           NEW ns, Messages(ns), NEW d, Of(ns, d) = last + 1 .. last + Len(order),
           \A m \in 1..Len(order) : ns[last + m] = Copies(order)[m],
           NEW k \in 1..Len(order)
    PROVE  Texts(ns, BranchTo(ns, d, last + k)) = Texts(msgs, BranchTo(msgs, c, order[k]))
<1> DEFINE L == Len(order)
           new == Copies(order)
           D == Of(msgs, c)
           E == Of(ns, d)
           b == BranchTo(msgs, c, order[k])
           up == Parents(ns, d)
           s == [j \in 1..Len(b) |-> NewId(order, b[j])]
<1>1. /\ L \in Nat
      /\ \A m \in 1..L :
            /\ order[m] \in D /\ NewId(order, order[m]) = last + m
            /\ new[m].role = msgs[order[m]].role /\ new[m].text = msgs[order[m]].text
            /\ new[m].parent = NewId(order, msgs[order[m]].parent)
            /\ \/ msgs[order[m]].parent = NoId /\ new[m].parent = NoId
               \/ \E n \in 1..L : msgs[order[m]].parent = order[n]
  <2>1. /\ Messages(msgs) /\ last \in Nat /\ made \in Nat /\ IsOrder(order, Parents(msgs, c))
        /\ new = Copies(order) /\ L = Len(order)
    OBVIOUS
  <2> HIDE DEF new, L
  <2>2. AreCopies(new, order, c)
    BY ONLY <2>1, CopiesFacts
  <2> QED BY ONLY <2>1, <2>2 DEF AreCopies, D
<1>2. \A m \in 1..L : ns[last + m] = new[m] /\ last + m \in E
  BY <1>1
<1>3. D \subseteq Nat \ {0}
  BY ParentsType
<1>4. E \subseteq Nat \ {0} /\ up \in [E -> Nat] /\ IsFiniteSet(E) /\ DOMAIN up = E
      /\ \A i \in E : up[i] = ns[i].parent
  BY ParentsType DEF Parents
<1>5. order[k] \in D /\ order[k] \in Nat
  BY <1>1, <1>3
<1>6. /\ b \in Seq(D) /\ Len(b) \in Nat /\ Len(b) >= 1 /\ b[Len(b)] = order[k]
      /\ msgs[b[1]].parent = NoId
      /\ \A j \in 1..Len(b) : j < Len(b) => b[j] = msgs[b[j + 1]].parent
  BY <1>5, BranchFacts
<1>7. \A i \in D : \E m \in 1..L : order[m] = i
  <2>1. order \in Seq(D)
    BY ParentsType DEF IsOrder, Parents
  <2>2. DOMAIN order = 1..L
    BY <2>1, LenProperties
  <2> QED BY <2>2 DEF ToSet
<1>8. s = [j \in 1..Len(b) |-> NewId(order, b[j])]
  OBVIOUS
<1>9. BranchTo(ns, d, last + k) = Climb(up, last + k)
  BY DEF BranchTo, Parents
<1>10. DOMAIN b = 1..Len(b) /\ \A j \in 1..Len(b) : b[j] \in D
  BY <1>6, LenProperties
<1> HIDE DEF L, new, D, E, up, s, b
<1>11. ASSUME NEW j \in 1..Len(b)
       PROVE  \E m \in 1..L : b[j] = order[m] /\ s[j] = last + m /\ s[j] \in E /\ ns[s[j]] = new[m]
  <2>1. PICK m \in 1..L : order[m] = b[j]
    BY <1>7, <1>10
  <2>2. s[j] = last + m
    BY <1>1, <1>8, <2>1
  <2> QED BY <1>2, <2>1, <2>2
<1>12. s \in Seq(E) /\ Len(s) = Len(b) /\ DOMAIN s = 1..Len(b)
  <2> DEFINE n == Len(b)
  <2>1. s \in [1..n -> E] /\ n \in Nat
    BY <1>6, <1>8, <1>11
  <2> HIDE DEF n
  <2>2. s \in Seq(E)
    BY <2>1, SeqDef
  <2>3. Len(s) = n /\ DOMAIN s = 1..n
    BY <2>1, <2>2, LenProperties
  <2> QED BY <2>2, <2>3 DEF n
<1>13. s # <<>> /\ last + k \in E
  <2>1. k \in 1..L
    BY DEF L
  <2> QED BY <1>2, <1>6, <1>12, <2>1, EmptySeq
<1>14. s[Len(s)] = last + k
  <2>1. Len(b) \in 1..Len(b) /\ k \in 1..L
    BY <1>6 DEF L
  <2> QED BY <1>1, <1>6, <1>8, <1>12, <2>1
<1>15. up[s[1]] \notin E
  <2>1. 1 \in 1..Len(b)
    BY <1>6
  <2>2. PICK m \in 1..L : b[1] = order[m] /\ s[1] \in E /\ ns[s[1]] = new[m]
    BY <1>11, <2>1
  <2>3. \A n \in 1..L : order[n] # NoId
    BY <1>1, <1>3 DEF NoId
  <2>4. \/ msgs[order[m]].parent = NoId /\ new[m].parent = NoId
        \/ \E n \in 1..L : msgs[order[m]].parent = order[n]
    BY <1>1
  <2>6. msgs[order[m]].parent = NoId
    BY <1>6, <2>2
  <2>7. new[m].parent = NoId
    BY <2>3, <2>4, <2>6
  <2>5. up[s[1]] = NoId
    BY <1>4, <2>2, <2>7
  <2> QED BY <1>4, <2>5 DEF NoId
<1>16. ASSUME NEW j \in 1..Len(s), j < Len(s) PROVE s[j] = up[s[j + 1]]
  <2>1. j \in 1..Len(b) /\ j < Len(b) /\ j + 1 \in 1..Len(b)
    BY <1>6, <1>12, <1>16
  <2>2. PICK m \in 1..L : b[j + 1] = order[m] /\ s[j + 1] \in E /\ ns[s[j + 1]] = new[m]
    BY <1>11, <2>1
  <2>5. new[m].parent = NewId(order, msgs[order[m]].parent)
    BY <1>1
  <2>6. up[s[j + 1]] = new[m].parent
    BY <1>4, <2>2
  <2>3. up[s[j + 1]] = NewId(order, msgs[b[j + 1]].parent)
    BY <2>2, <2>5, <2>6
  <2>4. b[j] = msgs[b[j + 1]].parent
    BY <1>6, <2>1
  <2> QED BY <1>8, <2>1, <2>3, <2>4
<1>17. IsClimb(up, last + k, s)
  BY <1>4, <1>12, <1>13, <1>14, <1>15, <1>16 DEF IsClimb
<1>18. Climb(up, last + k) = s
  BY <1>4, <1>17, ClimbFound
<1>19. ASSUME NEW j \in 1..Len(b)
       PROVE  ns[s[j]].role = msgs[b[j]].role /\ ns[s[j]].text = msgs[b[j]].text
  <2>1. PICK m \in 1..L : b[j] = order[m] /\ ns[s[j]] = new[m]
    BY <1>11
  <2>2. new[m].role = msgs[order[m]].role /\ new[m].text = msgs[order[m]].text
    BY <1>1
  <2> QED BY <2>1, <2>2
<1>20. Texts(ns, s) = Texts(msgs, b)
  BY <1>10, <1>12, <1>19 DEF Texts
<1> QED BY <1>9, <1>18, <1>20 DEF b, up

LEMMA ImportFaithful ==
    ASSUME StoreInv, NEW c \in DOMAIN convs, ImportExport(c), db'.at = "open"
    PROVE  LET new == made'
               paths(ms, d) == {Texts(ms, BranchTo(ms, d, i)) : i \in Of(ms, d)}
           IN /\ paths(msgs', new) = paths(msgs, c)
              /\ convs[c].leaf # NoId =>
                   Texts(msgs', BranchTo(msgs', new, convs'[new].leaf)) = Texts(msgs, Branch(c))
<1> DEFINE order == ParentsFirst(Exported(c))
           old == convs[c].leaf
           new == Copies(order)
           leaf == ImportedLeaf(order, old)
           whole == convs[c].whole
           L == Len(order)
<1>1. CreatedWith(new, leaf, whole)
  <2>1. \/ CreatedWith(new, leaf, whole) /\ UNCHANGED <<db, gen>>
        \/ ProcessEnds
    BY DEF ImportExport
  <2>2. ~ProcessEnds
    BY DEF ProcessEnds, StoreInv, StoreTypeOK
  <2> QED BY <2>1, <2>2
<1>2. /\ Messages(msgs) /\ last \in Nat /\ made \in Nat /\ old \in Nat /\ whole \in BOOLEAN
      /\ Home(msgs, convs) /\ DOMAIN msgs \subseteq 1..last /\ DOMAIN convs \subseteq 1..made
      /\ old # NoId => old \in Of(msgs, c)
  BY DEF StoreInv, StoreTypeOK, Home, Conversation
<1>3. IsOrder(order, Parents(msgs, c)) /\ ToSet(order) = Of(msgs, c)
  BY <1>2, ExportIsAccepted
<1>4. old # NoId => Branch(c) = BranchTo(msgs, c, old)
  BY DEF Branch
<1> HIDE DEF order, old
<1>5. /\ leaf \in Nat
      /\ old # NoId => \E m \in 1..L : order[m] = old /\ leaf = last + m
      /\ \/ leaf = NoId /\ order = <<>>
         \/ \E m \in 1..L : leaf = last + m
  BY <1>2, <1>3, ImportedLeafFacts
<1>6. /\ new \in Seq(MessageType) /\ Len(new) = L /\ L \in Nat
      /\ \A k \in 1..L :
            /\ order[k] \in Of(msgs, c)
            /\ NewId(order, order[k]) = last + k
            /\ new[k].conv = made + 1 /\ new[k].role = msgs[order[k]].role
            /\ new[k].text = msgs[order[k]].text
            /\ new[k].parent = NewId(order, msgs[order[k]].parent)
            /\ \/ msgs[order[k]].parent = NoId /\ new[k].parent = NoId
               \/ \E m \in 1..L : /\ m < k /\ msgs[order[k]].parent = order[m]
                                  /\ new[k].parent = last + m
  <2>1. Messages(msgs) /\ last \in Nat /\ made \in Nat
    BY <1>2
  <2>2. new = Copies(order) /\ L = Len(order)
    OBVIOUS
  <2> HIDE DEF new, L
  <2>3. AreCopies(new, order, c)
    BY ONLY <1>3, <2>1, <2>2, CopiesFacts
  <2> QED BY ONLY <2>2, <2>3 DEF AreCopies
<1> HIDE DEF new, leaf, whole, L
<1>7. /\ \A k \in 1..Len(new) :
            /\ new[k].conv = made + 1
            /\ \/ new[k].parent = NoId
               \/ \E m \in 1..Len(new) : m < k /\ new[k].parent = last + m
      /\ leaf = NoId \/ \E k \in 1..Len(new) : leaf = last + k
  BY <1>5, <1>6
<1>8. /\ made' = made + 1
      /\ \A k \in 1..Len(new) : last + k \in DOMAIN msgs' /\ msgs'[last + k] = new[k]
      /\ convs'[made + 1] = [leaf |-> leaf, whole |-> whole]
      /\ Of(msgs', made + 1) = last + 1 .. last + Len(new)
      /\ Home(msgs', convs')
  <2>1. new \in Seq(MessageType) /\ leaf \in Nat
    BY <1>5, <1>6
  <2> QED BY ONLY <1>1, <1>2, <1>7, <2>1, CreatedHolds
<1> DEFINE d == made + 1
           Copy(i) == Texts(msgs', BranchTo(msgs', d, i))
           Original(i) == Texts(msgs, BranchTo(msgs, c, i))
<1>9. ASSUME NEW k \in 1..L PROVE Copy(last + k) = Original(order[k])
  <2>1. /\ Messages(msgs') /\ Of(msgs', d) = last + 1 .. last + Len(order)
        /\ \A m \in 1..Len(order) : msgs'[last + m] = Copies(order)[m]
        /\ k \in 1..Len(order)
    BY <1>6, <1>8 DEF Home, L, new
  <2> HIDE DEF d
  <2> DEFINE ns == msgs'
  <2>2. /\ Messages(ns) /\ Of(ns, d) = last + 1 .. last + Len(order)
        /\ \A m \in 1..Len(order) : ns[last + m] = Copies(order)[m]
    BY <2>1
  <2> HIDE DEF ns
  <2>3. Texts(ns, BranchTo(ns, d, last + k)) = Texts(msgs, BranchTo(msgs, c, order[k]))
    BY ONLY <1>2, <1>3, <2>1, <2>2, BranchIsCopied
  <2> QED BY <2>3 DEF ns
<1>10. Of(msgs', d) = last + 1 .. last + L
  BY <1>6, <1>8
<1>11. \A i \in Of(msgs', d) : \E k \in 1..L : i = last + k
  <2> SUFFICES ASSUME NEW i \in Of(msgs', d) PROVE \E k \in 1..L : i = last + k
    OBVIOUS
  <2>1. i - last \in 1..L /\ i = last + (i - last)
    BY <1>2, <1>6, <1>10
  <2> QED BY <2>1
<1>12. \A k \in 1..L : last + k \in Of(msgs', d) /\ order[k] \in Of(msgs, c)
  <2>1. \A k \in 1..L : last + k \in Of(msgs', d)
    BY <1>2, <1>6, <1>10
  <2>2. \A k \in 1..L : order[k] \in Of(msgs, c)
    BY <1>6
  <2> QED BY <2>1, <2>2
<1>13. \A i \in Of(msgs, c) : \E k \in 1..L : i = order[k]
  <2>1. order \in Seq(Of(msgs, c))
    BY <1>3 DEF IsOrder, Parents
  <2>2. DOMAIN order = 1..L
    BY <2>1, LenProperties DEF L
  <2> QED BY <1>3, <2>2 DEF ToSet
<1> HIDE DEF Copy, Original
<1>14. {Copy(i) : i \in Of(msgs', d)} = {Original(i) : i \in Of(msgs, c)}
  <2>1. \A i \in Of(msgs', d) : \E j \in Of(msgs, c) : Copy(i) = Original(j)
    BY <1>9, <1>11, <1>12
  <2>2. \A j \in Of(msgs, c) : \E i \in Of(msgs', d) : Copy(i) = Original(j)
    BY <1>9, <1>12, <1>13
  <2> HIDE DEF d
  <2> QED BY <2>1, <2>2
<1>15. ASSUME old # NoId
       PROVE  Texts(msgs', BranchTo(msgs', d, convs'[d].leaf)) = Texts(msgs, Branch(c))
  <2>1. PICK m \in 1..L : order[m] = old /\ leaf = last + m
    BY <1>5, <1>15
  <2>2. convs'[d].leaf = last + m
    BY <1>8, <2>1
  <2>3. Copy(last + m) = Original(old)
    BY <1>9, <2>1
  <2> QED BY <1>4, <1>15, <2>2, <2>3 DEF Copy, Original
<1> QED BY <1>8, <1>14, <1>15 DEF Copy, Original, old

LEMMA HistoryKept ==
    ASSUME StoreNext, db.version = 4, NEW i \in DOMAIN msgs
    PROVE  \/ i \in DOMAIN msgs' /\ msgs'[i] = msgs[i]
           \/ msgs[i].conv \notin DOMAIN convs'
<1> DEFINE Stays == i \in DOMAIN msgs' /\ msgs'[i] = msgs[i]
           Goes == msgs[i].conv \notin DOMAIN convs'
<1> SUFFICES Stays \/ Goes
  OBVIOUS
<1>1. ASSUME NEW more, msgs' = With(msgs, more) PROVE Stays
  BY <1>1 DEF With
<1>2. \A new, leaf, whole : CreatedWith(new, leaf, whole) => Stays
  BY <1>1 DEF CreatedWith
<1>3. \A c, p, role : Added(c, p, role) => Stays
  BY <1>1 DEF Added
<1> HIDE DEF Stays, Goes
<1>4. ASSUME UNCHANGED msgs PROVE Stays
  BY <1>4 DEF Stays
<1>5. ASSUME NEW c, OnConversation(c) PROVE Stays \/ Goes
  <2>1. CASE Fork(c)
    BY <1>2, <2>1 DEF Fork
  <2>2. CASE DeleteConversation(c)
    BY <2>2 DEF DeleteConversation, Stays, Goes, Of
  <2>3. CASE UserTurn(c)
    BY <1>3, <2>3 DEF UserTurn
  <2>4. CASE ImportExport(c)
    BY <1>2, <2>4 DEF ImportExport
  <2>5. CASE ResumeRun(c)
    BY <1>4, <2>5 DEF ResumeRun, dataVars
  <2> QED BY <1>5, <2>1, <2>2, <2>3, <2>4, <2>5 DEF OnConversation
<1>6. ASSUME NEW j, OnMessage(j) PROVE Stays
  <2>1. CASE NavigateBranch(j)
    BY <1>4, <2>1 DEF NavigateBranch
  <2>2. CASE EditMessage(j)
    BY <1>3, <2>2 DEF EditMessage
  <2>3. CASE RegenerateMessage(j)
    BY <1>4, <2>3 DEF RegenerateMessage, dataVars
  <2> QED BY <1>6, <2>1, <2>2, <2>3 DEF OnMessage
<1>7. ASSUME NEW text, StreamEnds(text) PROVE Stays
  <2>1. Added(gen.conv, gen.parent, "assistant") \/ UNCHANGED msgs
    BY <1>7 DEF StreamEnds
  <2> QED BY <1>3, <1>4, <2>1
<1>8. ASSUME NEW file, ImportFile(file) PROVE Stays
  <2>1. UNCHANGED msgs \/ \E new, leaf : CreatedWith(new, leaf, TRUE)
    BY <1>8 DEF ImportFile
  <2> QED BY <1>2, <1>4, <2>1
<1>9. CASE Migrate
  BY <1>9 DEF Migrate
<1>10. CASE Opens \/ Dies
  BY <1>4, <1>10 DEF Opens, Dies, dataVars
<1>11. CASE NewConversation
  BY <1>2, <1>11 DEF NewConversation
<1> QED BY <1>5, <1>6, <1>7, <1>8, <1>9, <1>10, <1>11 DEF StoreNext, StoreStep, Stays, Goes

\* Nothing a conversation says is changed or lost by a later action, by an upgrade that dies
\* and runs again, or on the way through a file: an exported conversation is imported with
\* the same paths of texts and roles and the same branch on screen, whatever its shape.
THEOREM HistoryOutlivesEverything == StoreSpec => HistorySurvives
<1> DEFINE Inv == StoreInv /\ ReadOK
<1>1. StoreInit => Inv
  BY StoreStarts
<1>2. Inv /\ [StoreNext]_storeVars => Inv'
  BY StoreKeeps
<1>3. [StoreNext]_storeVars =>
        [db.version = 4 =>
            \A i \in DOMAIN msgs :
                \/ i \in DOMAIN msgs' /\ msgs'[i] = msgs[i]
                \/ msgs[i].conv \notin DOMAIN convs']_storeVars
  BY HistoryKept
<1>4. Inv =>
        [\A c \in DOMAIN convs : made' > made /\ ImportExport(c) /\ db'.at = "open" =>
            LET new == made'
                paths(ms, d) == {Texts(ms, BranchTo(ms, d, i)) : i \in Of(ms, d)}
            IN /\ paths(msgs', new) = paths(msgs, c)
               /\ convs[c].leaf # NoId =>
                    Texts(msgs', BranchTo(msgs', new, convs'[new].leaf)) = Texts(msgs, Branch(c))
        ]_storeVars
  BY ImportFaithful
<1> HIDE DEF Inv
<1> QED BY <1>1, <1>2, <1>3, <1>4, PTL DEF StoreSpec, HistorySurvives, HistoryIsKept, ImportIsFaithful
=============================================================================
