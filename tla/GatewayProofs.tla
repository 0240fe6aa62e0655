---------------------------- MODULE GatewayProofs ----------------------------
(***************************************************************************)
(* Proofs about module GatewayRuns, for every set of runs and every bound: *)
(* the journal and the tasks agree about every run, an end is final, rest  *)
(* is real, a cancel hits its task, a stream is in order, and the journal  *)
(* implements RunProtocol.                                                 *)
(*                                                                         *)
(* Steps are described in two layers.  A handler works on one run: what it *)
(* makes of the run's row and task is a value, and the lemmas about it     *)
(* speak of such values (Sound, Outcome).  The theorems then go through    *)
(* the actions once, each of which replaces the rows and tasks of some     *)
(* runs by such outcomes.                                                  *)
(***************************************************************************)
EXTENDS GatewayRuns, SequenceTheorems, FiniteSetTheorems, TLAPS

States == {"none", "created", "started", "paused"} \cup Terminal
Points == {"none", "start", "chat", "status", "compact", "turn", "tool", "ask",
           "approve", "summary", "offer", "dead"}
\* Where the task is past run.started or run.resumed.
Working == {"chat", "compact", "turn", "tool", "ask", "summary", "offer"}

JournalType ==
    [mode : {"none", "chat", "agent"}, state : States, log : Seq(Events),
     cut : Nat, safe : BOOLEAN, saved : Nat]

TaskType ==
    [pc : Points, used : Nat, resumed : BOOLEAN, fresh : BOOLEAN,
     pause : BOOLEAN, cancel : BOOLEAN, empty : BOOLEAN, mutated : BOOLEAN,
     why : Pauses, answer : {"none", "allow", "deny"}, gen : Nat]

Active(t) == t.pc \notin {"none", "dead"}
Rested(j) == IsTerminal(j) \/ Resumable(j)

\* The newest retained event about the run's state, at i, is what the row says.
NewestMark(j, i) ==
    /\ i \in DOMAIN j.log /\ j.log[i] \in Starts \cup Pauses
    /\ \A k \in DOMAIN j.log : k > i => j.log[k] \notin Starts \cup Pauses
RowSaysMark(j) ==
    \A i \in DOMAIN j.log :
        NewestMark(j, i) /\ ~IsTerminal(j) => j.state = StateAfter(j.log[i], j.state)

\* A row and a task that belong together.
Sound(j, t) ==
    /\ j \in JournalType /\ t \in TaskType
    /\ j.mode = "none" <=> j.state = "none"
    /\ j.mode = "none" => j.log = <<>> /\ ~Active(t)
    /\ IsTerminal(j) <=> j.state \in Terminal
    /\ RowSaysMark(j)
    /\ Active(t) => j.state \notin Terminal
    /\ t.pc \in Working => j.state = "started"
    /\ t.pc = "start" /\ ~t.fresh => Resumable(j)

-----------------------------------------------------------------------------
(* The journal's operations.                                               *)

\* j2 comes after j: events may be pruned and added, none is changed.
Extends(j, j2) ==
    /\ j2.mode = j.mode
    /\ j.cut <= j2.cut /\ LastId(j) <= LastId(j2)
    /\ \A i \in DOMAIN j2.log :
          j2.cut + i <= LastId(j) =>
             /\ j2.cut + i - j.cut \in DOMAIN j.log
             /\ j2.log[i] = j.log[j2.cut + i - j.cut]

\* No event that came since j ends or pauses the run.
Quiet(j, j2) ==
    \A i \in DOMAIN j2.log : j2.cut + i > LastId(j) => j2.log[i] \notin Rests

\* An event leaves the row in one of its states.
LEMMA StateAfterFacts ==
    ASSUME NEW e \in Events, NEW s \in States
    PROVE  /\ StateAfter(e, s) \in States
           /\ e \in Starts => StateAfter(e, s) = "started"
           /\ e \in Pauses => StateAfter(e, s) = "paused"
           /\ e \in Terminal => StateAfter(e, s) = e
           /\ e \in Notes => StateAfter(e, s) = s
BY DEF StateAfter, States, Events, Starts, Pauses, Terminal, Notes

\* append keeps the newest events, the new one among them.
LEMMA LogFacts ==
    ASSUME NEW j \in JournalType, NEW e \in Events
    PROVE  /\ Log(j, e) \in JournalType
           /\ Log(j, e).mode = j.mode /\ Log(j, e).safe = j.safe
           /\ Log(j, e).saved = j.saved
           /\ Log(j, e).state = StateAfter(e, j.state)
           /\ Log(j, e).log # <<>>
           /\ Log(j, e).log[Len(Log(j, e).log)] = e
           /\ LastId(Log(j, e)) = LastId(j) + 1
           /\ Extends(j, Log(j, e))
           /\ e \notin Rests => Quiet(j, Log(j, e))
<1> DEFINE a == [j EXCEPT !.log = Append(@, e), !.state = StateAfter(e, @)]
           over == Len(a.log) - MaxEvents
<1>1. /\ a \in JournalType /\ a.log = Append(j.log, e) /\ a.cut = j.cut
      /\ a.mode = j.mode /\ a.safe = j.safe /\ a.saved = j.saved
      /\ a.state = StateAfter(e, j.state)
  <2>1. StateAfter(e, j.state) \in States
    BY StateAfterFacts DEF JournalType
  <2>2. Append(j.log, e) \in Seq(Events)
    BY DEF JournalType
  <2> QED BY <2>1, <2>2 DEF JournalType
<1>2. /\ j.log \in Seq(Events) /\ j.cut \in Nat /\ Len(j.log) \in Nat
      /\ DOMAIN j.log = 1..Len(j.log) /\ Len(a.log) = Len(j.log) + 1
      /\ DOMAIN a.log = 1..(Len(j.log) + 1)
      /\ \A i \in 1..(Len(j.log) + 1) :
            a.log[i] = IF i <= Len(j.log) THEN j.log[i] ELSE e
  BY <1>1 DEF JournalType
<1>3. MaxEvents \in Nat /\ MaxEvents > 0
  BY JournalKeepsSome
<1> HIDE DEF a
<1>4. CASE over <= 0
  <2>1. Log(j, e) = a
    BY <1>4 DEF Log, Prune, a
  <2>2. a.log # <<>> /\ a.log[Len(a.log)] = e
    BY <1>2
  <2>3. LastId(a) = LastId(j) + 1
    BY <1>1, <1>2 DEF LastId
  <2>4. Extends(j, a)
    BY <1>1, <1>2 DEF LastId, Extends
  <2>5. e \notin Rests => Quiet(j, a)
    BY <1>1, <1>2 DEF LastId, Quiet
  <2> HIDE DEF over
  <2> QED BY ONLY <1>1, <2>1, <2>2, <2>3, <2>4, <2>5
<1>5. CASE over > 0
  <2> DEFINE l == SubSeq(a.log, over + 1, Len(a.log))
             p == [a EXCEPT !.log = l, !.cut = a.cut + over]
  <2> HIDE DEF l
  <2>1. Log(j, e) = p
    BY <1>5, <1>1, <1>2, <1>3 DEF Log, Prune, a, l
  <2>2. over \in 1..Len(j.log)
    BY <1>5, <1>2, <1>3
  <2> HIDE DEF over
  <2>3. /\ l \in Seq(Events) /\ Len(l) = Len(a.log) - over
        /\ \A i \in 1..Len(l) : l[i] = a.log[i + over]
    <3>1. \A i \in (over + 1)..Len(a.log) : a.log[i] \in Events
      BY <1>1, <1>2, <2>2 DEF JournalType
    <3>2. over + 1 \in Int /\ Len(a.log) \in Int
      BY <1>2, <2>2
    <3>3. /\ l \in Seq(Events)
          /\ Len(l) = IF over + 1 <= Len(a.log) THEN Len(a.log) - (over + 1) + 1 ELSE 0
          /\ \A i \in 1..(Len(a.log) - (over + 1) + 1) : l[i] = a.log[over + 1 + i - 1]
      BY <3>1, <3>2, SubSeqProperties DEF l
    <3>4. Len(l) = Len(a.log) - over
      BY <3>3, <2>2, <1>2
    <3>5. \A i \in 1..Len(l) : over + 1 + i - 1 = i + over
      BY <3>4, <2>2, <1>2
    <3> QED BY <3>2, <3>3, <3>4, <3>5, <2>2, <1>2
  <2>4. /\ p \in JournalType /\ p.log = l /\ p.cut = j.cut + over
        /\ p.mode = j.mode /\ p.safe = j.safe
        /\ p.saved = j.saved /\ p.state = StateAfter(e, j.state)
    <3>1. a.cut + over \in Nat
      BY <1>1, <1>2, <2>2
    <3> QED BY <1>1, <2>3, <3>1 DEF JournalType
  <2> HIDE DEF p
  <2>5. Len(l) \in Nat /\ Len(l) > 0 /\ DOMAIN l = 1..Len(l)
    BY <2>2, <2>3, <1>2
  <2>6. l[Len(l)] = e /\ l # <<>>
    BY <2>2, <2>3, <2>5, <1>2
  <2>7. LastId(p) = LastId(j) + 1
    <3>1. j.cut \in Nat /\ Len(j.log) \in Nat /\ over \in Nat
      BY <1>2, <2>2
    <3>2. Len(l) = Len(j.log) + 1 - over
      BY <3>1, <1>2, <2>3
    <3>3. p.cut + Len(p.log) = j.cut + over + (Len(j.log) + 1 - over)
      BY <2>4, <3>2
    <3> QED BY <3>1, <3>3 DEF LastId
  <2>8. \A i \in 1..Len(l) : l[i] = IF i + over <= Len(j.log) THEN j.log[i + over] ELSE e
    BY <1>2, <2>2, <2>3, <2>5
  <2>9. \A i \in 1..Len(l) : p.cut + i <= LastId(j) <=> i + over <= Len(j.log)
    BY <1>2, <2>2, <2>4, <2>5 DEF LastId
  <2>10. Extends(j, p)
    <3>1. \A i \in 1..Len(l) : p.cut + i - j.cut = i + over
      BY <1>2, <2>2, <2>4, <2>5
    <3>2. j.cut <= p.cut /\ LastId(j) <= LastId(p)
      BY <1>2, <2>2, <2>4, <2>7 DEF LastId
    <3>3. ASSUME NEW i \in 1..Len(l), p.cut + i <= LastId(j)
          PROVE  /\ p.cut + i - j.cut \in DOMAIN j.log
                 /\ l[i] = j.log[p.cut + i - j.cut]
      <4>1. i + over <= Len(j.log) /\ p.cut + i - j.cut = i + over
        BY <3>1, <3>3, <2>9
      <4>2. i + over \in 1..Len(j.log)
        BY <4>1, <2>2, <2>5, <1>2
      <4> QED BY <4>1, <4>2, <2>8, <1>2
    <3> QED BY <2>4, <2>5, <3>2, <3>3 DEF Extends
  <2>11. e \notin Rests => Quiet(j, p)
    BY <1>2, <2>2, <2>4, <2>5, <2>8, <2>9 DEF LastId, Quiet
  <2> QED BY <2>1, <2>4, <2>6, <2>7, <2>10, <2>11
<1> QED BY <1>4, <1>5, <1>2, <1>3

\* save_snapshot leaves the events and the state alone.
LEMMA SaveFacts ==
    ASSUME NEW j \in JournalType, NEW used \in Nat, NEW safe \in BOOLEAN
    PROVE  /\ Save(j, used, safe) \in JournalType
           /\ Save(j, used, safe).mode = j.mode
           /\ Save(j, used, safe).state = j.state
           /\ Save(j, used, safe).log = j.log /\ Save(j, used, safe).cut = j.cut
           /\ Save(j, used, safe).safe = safe /\ Save(j, used, safe).saved = used
BY DEF Save, JournalType

\* The types of a row's parts.
LEMMA RowTypes ==
    ASSUME NEW j \in JournalType
    PROVE  /\ j.cut \in Nat /\ Len(j.log) \in Nat /\ LastId(j) \in Nat
           /\ LastId(j) = j.cut + Len(j.log)
           /\ j.log \in Seq(Events) /\ DOMAIN j.log = 1..Len(j.log)
           /\ \A i \in DOMAIN j.log : j.log[i] \in Events
           /\ j.state \in States /\ j.mode \in {"none", "chat", "agent"}
BY DEF JournalType, LastId

\* What comes after j is transitive, and so is being quiet.
LEMMA ExtendsTwice ==
    ASSUME NEW j \in JournalType, NEW j1 \in JournalType, NEW j2 \in JournalType,
           Extends(j, j1), Extends(j1, j2)
    PROVE  /\ Extends(j, j2)
           /\ Quiet(j, j1) /\ Quiet(j1, j2) => Quiet(j, j2)
<1>0. /\ j.cut \in Nat /\ j1.cut \in Nat /\ j2.cut \in Nat
      /\ LastId(j) \in Nat /\ LastId(j1) \in Nat /\ LastId(j2) \in Nat
      /\ DOMAIN j1.log \subseteq Nat /\ DOMAIN j2.log \subseteq Nat
  BY RowTypes
<1>1. j.cut <= j2.cut /\ LastId(j) <= LastId(j2) /\ j2.mode = j.mode
  BY <1>0 DEF Extends
<1>2. ASSUME NEW i \in DOMAIN j2.log, j2.cut + i <= LastId(j1)
      PROVE  /\ j2.cut + i - j1.cut \in DOMAIN j1.log
             /\ j2.log[i] = j1.log[j2.cut + i - j1.cut]
             /\ j1.cut + (j2.cut + i - j1.cut) = j2.cut + i
  BY <1>0, <1>2 DEF Extends
<1>3. ASSUME NEW i \in DOMAIN j2.log, j2.cut + i <= LastId(j)
      PROVE  /\ j2.cut + i - j.cut \in DOMAIN j.log
             /\ j2.log[i] = j.log[j2.cut + i - j.cut]
  <2> DEFINE k == j2.cut + i - j1.cut
  <2>1. k \in DOMAIN j1.log /\ j2.log[i] = j1.log[k] /\ j1.cut + k = j2.cut + i
    <3>1. j2.cut + i <= LastId(j1)
      BY <1>0, <1>3 DEF Extends
    <3> QED BY <1>2, <3>1
  <2> HIDE DEF k
  <2>2. j1.cut + k <= LastId(j)
    BY <1>3, <2>1
  <2>3. j1.cut + k - j.cut \in DOMAIN j.log /\ j1.log[k] = j.log[j1.cut + k - j.cut]
    BY <2>1, <2>2 DEF Extends
  <2>4. j1.cut \in Nat /\ k \in Nat /\ j2.cut \in Nat /\ i \in Nat /\ j.cut \in Nat
    BY <1>0, <2>1
  <2> QED BY <2>1, <2>3, <2>4
<1>4. ASSUME Quiet(j, j1), Quiet(j1, j2), NEW i \in DOMAIN j2.log,
             j2.cut + i > LastId(j)
      PROVE  j2.log[i] \notin Rests
  <2>1. CASE j2.cut + i > LastId(j1)
    BY <1>4, <2>1 DEF Quiet
  <2>2. CASE j2.cut + i <= LastId(j1)
    <3> DEFINE k == j2.cut + i - j1.cut
    <3>1. k \in DOMAIN j1.log /\ j2.log[i] = j1.log[k] /\ j1.cut + k = j2.cut + i
      BY <1>2, <2>2 DEF k
    <3> HIDE DEF k
    <3>2. j1.cut + k > LastId(j)
      BY <1>0, <1>4, <3>1
    <3> QED BY <1>4, <3>1, <3>2 DEF Quiet
  <2> QED BY <1>0, <2>1, <2>2
<1> QED BY <1>1, <1>3, <1>4 DEF Extends, Quiet

\* A row comes after itself, and after a row with the same events.
LEMMA ExtendsSame ==
    ASSUME NEW j \in JournalType, NEW j2 \in JournalType,
           j2.mode = j.mode, j2.log = j.log, j2.cut = j.cut
    PROVE  Extends(j, j2) /\ Quiet(j, j2)
<1> USE RowTypes
<1>1. LastId(j2) = LastId(j)
  BY DEF LastId
<1>2. \A i \in DOMAIN j.log : j.cut + i - j.cut = i /\ j.cut + i <= LastId(j)
  BY DEF LastId
<1> QED BY <1>1, <1>2 DEF Extends, Quiet

\* The place in a log of lead lc that is place n in one of lead jc.
LEMMA Aligned ==
    ASSUME NEW jc \in Nat, NEW lc \in Nat, NEW jl \in Nat, NEW ll \in Nat,
           NEW n \in Nat, NEW i \in Nat, i >= 1, n <= jl, n > lc + i - jc,
           lc + ll = jc + jl + 1
    PROVE  /\ n + jc - lc \in 1..ll /\ n + jc - lc > i
           /\ lc + (n + jc - lc) <= jc + jl /\ lc + (n + jc - lc) - jc = n
OBVIOUS

\* An event about the run's state is what the row says afterwards; any other
\* leaves the newest such event where it was.
LEMMA RowFollowsLog ==
    ASSUME NEW j \in JournalType, NEW e \in Events, RowSaysMark(j), ~IsTerminal(j)
    PROVE  RowSaysMark(Log(j, e)) /\ (IsTerminal(Log(j, e)) <=> e \in Terminal)
<1> DEFINE l == Log(j, e)
<1>1. /\ l \in JournalType /\ l.log # <<>> /\ l.log[Len(l.log)] = e
      /\ l.state = StateAfter(e, j.state) /\ Extends(j, l)
      /\ LastId(l) = LastId(j) + 1
  BY LogFacts
<1> HIDE DEF l
<1>2. /\ j.cut \in Nat /\ Len(j.log) \in Nat /\ DOMAIN j.log = 1..Len(j.log)
      /\ l.cut \in Nat /\ Len(l.log) \in Nat /\ DOMAIN l.log = 1..Len(l.log)
      /\ LastId(l) = l.cut + Len(l.log) /\ LastId(j) = j.cut + Len(j.log)
      /\ j.state \in States
  BY <1>1, RowTypes
<1>3. Len(l.log) \in DOMAIN l.log
  BY <1>1, <1>2, EmptySeq DEF JournalType
<1>4. IsTerminal(l) <=> e \in Terminal
  BY <1>1 DEF IsTerminal
<1>5. ASSUME NEW i \in DOMAIN l.log, NewestMark(l, i), ~IsTerminal(l)
      PROVE  l.state = StateAfter(l.log[i], l.state)
  <2>1. CASE e \in Starts \cup Pauses
    <3>1. i = Len(l.log)
      <4>1. ~(Len(l.log) > i)
        BY ONLY <1>1, <1>3, <1>5, <2>1 DEF NewestMark
      <4>2. i \in 1..Len(l.log) /\ Len(l.log) \in Nat
        BY ONLY <1>2, i \in DOMAIN l.log
      <4> QED BY ONLY <4>1, <4>2
    <3> QED BY <1>1, <3>1, <2>1 DEF StateAfter
  <2>2. CASE e \in Notes
    <3> DEFINE k == l.cut + i - j.cut
    <3>1. e \notin Starts \cup Pauses
      BY <2>2 DEF Notes, Starts, Pauses
    <3>2. i < Len(l.log)
      BY <1>1, <1>2, <1>5, <3>1 DEF NewestMark
    <3>3. l.cut + i <= LastId(j)
      BY <1>1, <1>2, <3>2
    <3>4. k \in DOMAIN j.log /\ l.log[i] = j.log[k]
      BY <1>1, <3>3 DEF Extends
    <3>5. ASSUME NEW n \in DOMAIN j.log, n > k PROVE j.log[n] \notin Starts \cup Pauses
      <4> DEFINE m == n + j.cut - l.cut
      <4>a. i \in Nat /\ n \in Nat /\ i >= 1 /\ n <= Len(j.log)
        BY <1>2, <1>5, <3>5
      <4>d. n > l.cut + i - j.cut
        BY <3>5
      <4>b. /\ j.cut \in Nat /\ l.cut \in Nat /\ Len(l.log) \in Nat /\ Len(j.log) \in Nat
            /\ l.cut + Len(l.log) = j.cut + Len(j.log) + 1
        BY <1>1, <1>2
      <4>c. m \in 1..Len(l.log) /\ m > i /\ l.cut + m <= j.cut + Len(j.log)
            /\ l.cut + m - j.cut = n
        <5> DEFINE jc == j.cut  lc == l.cut  jl == Len(j.log)  ll == Len(l.log)
        <5>1. /\ jc \in Nat /\ lc \in Nat /\ jl \in Nat /\ ll \in Nat /\ n \in Nat
              /\ i \in Nat /\ i >= 1 /\ n <= jl /\ n > lc + i - jc
              /\ lc + ll = jc + jl + 1
          BY ONLY <4>a, <4>b, <4>d
        <5> HIDE DEF jc, lc, jl, ll
        <5>2. /\ n + jc - lc \in 1..ll /\ n + jc - lc > i
              /\ lc + (n + jc - lc) <= jc + jl /\ lc + (n + jc - lc) - jc = n
          BY ONLY <5>1, Aligned
        <5> QED BY ONLY <5>2 DEF jc, lc, jl, ll
      <4>1. m \in DOMAIN l.log /\ m > i /\ l.cut + m <= LastId(j) /\ l.cut + m - j.cut = n
        BY ONLY <1>2, <4>c
      <4> HIDE DEF m
      <4>2. l.log[m] = j.log[n]
        BY <1>1, <4>1 DEF Extends
      <4> QED BY <1>5, <4>1, <4>2 DEF NewestMark
    <3>6. NewestMark(j, k)
      BY <1>5, <3>4, <3>5 DEF NewestMark
    <3>7. j.state = StateAfter(j.log[k], j.state)
      BY <3>4, <3>6 DEF RowSaysMark
    <3> QED BY <1>1, <1>2, <2>2, <3>4, <3>7, StateAfterFacts
  <2> QED BY <1>4, <1>5, <2>1, <2>2 DEF Events
<1> QED BY <1>4, <1>5 DEF RowSaysMark, l

-----------------------------------------------------------------------------
(* What a step makes of one run.                                           *)

\* j1 is reached from the row j of a run that is worked on by logging nothing
\* that ends or pauses it.
Upto(j, j1) ==
    /\ j \in JournalType /\ j1 \in JournalType
    /\ j1.mode # "none" /\ j.state \notin Terminal \cup {"none"}
    /\ j1.state \notin Terminal \cup {"none"} /\ ~IsTerminal(j1) /\ RowSaysMark(j1)
    /\ Extends(j, j1) /\ Quiet(j, j1)
    /\ j1.state = "started" \/ j1.state = j.state

\* t1 is t but for what it waits for.
SameTask(t, t1) ==
    t \in TaskType /\ t1 \in TaskType /\ t1.gen = t.gen /\ t1.cancel = t.cancel

\* The moves RunProtocol allows from a run that is worked on.
Moves(j, j2) ==
    \/ j2.state = "started"
    \/ j2.state = "paused" /\ j2.safe
    \/ j2.state \in Terminal /\ (j2.state = "completed" => j.state = "started")
    \/ j2.state = j.state /\ j2.safe = j.safe

\* The row and the task a step may leave behind: a task that goes on has
\* logged no rest, one that is over has brought its run to rest.
Outcome(j, t, x) ==
    /\ Sound(x.j, x.t) /\ Extends(j, x.j) /\ Moves(j, x.j)
    /\ x.t.gen = t.gen
    /\ Active(x.t) => Quiet(j, x.j) /\ x.t.pc # "start"
    /\ ~Active(x.t) => Rested(x.j)
    /\ x.j.state = "cancelled" => t.cancel

\* The row of a run with an active task.
LEMMA UptoSelf ==
    ASSUME NEW j, NEW t, Sound(j, t), Active(t)
    PROVE  Upto(j, j)
BY ExtendsSame DEF Sound, Upto

\* A snapshot on the way.
LEMMA UptoSave ==
    ASSUME NEW j, NEW j1, Upto(j, j1), NEW used \in Nat, NEW safe \in BOOLEAN
    PROVE  /\ Upto(j, Save(j1, used, safe))
           /\ Save(j1, used, safe).state = j1.state
           /\ Save(j1, used, safe).mode = j1.mode
<1> DEFINE s == Save(j1, used, safe)
<1>1. /\ s \in JournalType /\ s.mode = j1.mode /\ s.state = j1.state
      /\ s.log = j1.log /\ s.cut = j1.cut
  BY SaveFacts DEF Upto
<1> HIDE DEF s
<1>2. Extends(j1, s) /\ Quiet(j1, s)
  BY <1>1, ExtendsSame DEF Upto
<1>3. Extends(j, s) /\ Quiet(j, s)
  BY <1>1, <1>2, ExtendsTwice DEF Upto
<1>4. RowSaysMark(s) /\ ~IsTerminal(s)
  BY <1>1 DEF Upto, RowSaysMark, NewestMark, IsTerminal
<1> QED BY <1>1, <1>3, <1>4 DEF Upto, s

\* An event that neither ends nor pauses the run.
LEMMA UptoLog ==
    ASSUME NEW j, NEW j1, Upto(j, j1), NEW e \in Starts \cup Notes
    PROVE  /\ Upto(j, Log(j1, e))
           /\ e \in Starts => Log(j1, e).state = "started"
           /\ e \in Notes => Log(j1, e).state = j1.state /\ Log(j1, e).safe = j1.safe
           /\ Log(j1, e).mode = j1.mode
<1> DEFINE l == Log(j1, e)
<1>1. e \in Events /\ e \notin Rests /\ e \notin Terminal
  BY DEF Events, Rests, Starts, Notes, Terminal, Pauses
<1>2. /\ l \in JournalType /\ l.mode = j1.mode /\ l.state = StateAfter(e, j1.state)
      /\ Extends(j1, l) /\ Quiet(j1, l) /\ l.safe = j1.safe
  BY <1>1, LogFacts DEF Upto
<1>3. RowSaysMark(l) /\ ~IsTerminal(l)
  BY <1>1, RowFollowsLog DEF Upto
<1>4. /\ e \in Starts => l.state = "started"
      /\ e \in Notes => l.state = j1.state
  BY <1>1, <1>2, StateAfterFacts, RowTypes DEF Upto
<1> HIDE DEF l
<1>5. Extends(j, l) /\ Quiet(j, l)
  BY <1>2, ExtendsTwice DEF Upto
<1>6. "started" \notin Terminal \cup {"none"}
  BY DEF Terminal
<1> QED BY <1>2, <1>3, <1>4, <1>5, <1>6 DEF Upto, l

\* _forget_run leaves no task.
LEMMA GoneFacts ==
    ASSUME NEW t \in TaskType
    PROVE  /\ Gone(t) \in TaskType /\ Gone(t).gen = t.gen
           /\ ~Active(Gone(t)) /\ Gone(t).pc = "none"
BY DEF Gone, NoTask, TaskType, Points, Active, Pauses

\* A run that ends, and whose task is over.
LEMMA EndsLeaving ==
    ASSUME NEW j, NEW j1, NEW t, NEW g \in TaskType, Upto(j, j1),
           g.gen = t.gen, ~Active(g),
           NEW e \in Terminal, e = "completed" => j.state = "started",
           e = "cancelled" => t.cancel
    PROVE  Outcome(j, t, At(Log(j1, e), g))
<1> DEFINE l == Log(j1, e)
<1>1. e \in Events /\ e \notin Notes /\ e # "none"
  BY DEF Events, Terminal, Notes
<1>2. /\ l \in JournalType /\ l.mode = j1.mode /\ l.state = StateAfter(e, j1.state)
      /\ Extends(j1, l)
  BY <1>1, LogFacts DEF Upto
<1>3. RowSaysMark(l) /\ IsTerminal(l)
  BY <1>1, RowFollowsLog DEF Upto
<1>4. l.state = e
  BY <1>1, <1>2, StateAfterFacts, RowTypes DEF Upto
<1>5. g.pc \notin Working /\ g.pc # "start"
  BY DEF Active, Working, TaskType, Points
<1> HIDE DEF l
<1>6. Extends(j, l)
  BY <1>2, ExtendsTwice DEF Upto
<1>7. Sound(l, g)
  BY <1>1, <1>2, <1>3, <1>4, <1>5 DEF Sound, Upto
<1>8. Moves(j, l) /\ Rested(l)
  BY <1>3, <1>4 DEF Moves, Rested
<1> QED BY <1>4, <1>6, <1>7, <1>8 DEF Outcome, At, l

\* A run that ends in the finally of its coroutine.
LEMMA EndsFacts ==
    ASSUME NEW j, NEW j1, NEW t, NEW t1, Upto(j, j1), SameTask(t, t1),
           NEW e \in Terminal, e = "completed" => j.state = "started",
           e = "cancelled" => t.cancel
    PROVE  Outcome(j, t, EndsWith(j1, t1, e))
<1>1. Gone(t1) \in TaskType /\ Gone(t1).gen = t.gen /\ ~Active(Gone(t1))
  BY GoneFacts DEF SameTask
<1> QED BY <1>1, EndsLeaving DEF EndsWith

\* A run that pauses keeps a point to resume from.
LEMMA PausesFacts ==
    ASSUME NEW j, NEW j1, NEW t, NEW t1, Upto(j, j1), SameTask(t, t1), NEW e \in Pauses
    PROVE  Outcome(j, t, PausesWith(j1, t1, e))
<1> DEFINE s == Save(j1, t1.used, TRUE)  l == Log(s, e)  g == Gone(t1)
<1>1. e \in Events /\ e \notin Terminal
  BY DEF Events, Terminal, Pauses
<1>2. t1.used \in Nat
  BY DEF SameTask, TaskType
<1>3. Upto(j, s) /\ s.mode = j1.mode
  BY <1>2, UptoSave
<1>12. s.safe = TRUE
  BY <1>2, SaveFacts DEF Upto
<1>4. g \in TaskType /\ g.gen = t.gen /\ ~Active(g) /\ g.pc = "none"
  BY GoneFacts DEF SameTask
<1> HIDE DEF s, g
<1>5. /\ l \in JournalType /\ l.mode = s.mode /\ l.safe = s.safe
      /\ l.state = StateAfter(e, s.state) /\ Extends(s, l)
  BY <1>1, <1>3, LogFacts DEF Upto
<1>6. RowSaysMark(l) /\ ~IsTerminal(l)
  BY <1>1, <1>3, RowFollowsLog DEF Upto
<1>7. l.state = "paused"
  BY <1>1, <1>3, <1>5, StateAfterFacts, RowTypes DEF Upto
<1> HIDE DEF l
<1>8. Extends(j, l)
  BY <1>3, <1>5, ExtendsTwice DEF Upto
<1>9. "paused" \notin Terminal /\ "paused" # "none" /\ "paused" # "cancelled"
  BY DEF Terminal
<1>10. Sound(l, g)
  BY <1>3, <1>4, <1>5, <1>6, <1>7, <1>9 DEF Sound, Upto, Working
<1>11. Moves(j, l) /\ Rested(l)
  BY <1>3, <1>12, <1>5, <1>7 DEF Moves, Rested, Resumable
<1> QED BY <1>4, <1>7, <1>8, <1>9, <1>10, <1>11
        DEF Outcome, PausesWith, EndsWith, At, l, s, g

\* A task that goes on to its next wait.
LEMMA GoesOnFacts ==
    ASSUME NEW j, NEW j1, NEW t, NEW t2, Upto(j, j1), SameTask(t, t2),
           Active(t2), t2.pc # "start",
           t2.pc \in Working => j1.state = "started",
           j1.state = "started" \/ j1.safe = j.safe
    PROVE  Outcome(j, t, At(j1, t2))
<1>1. Sound(j1, t2)
  BY DEF Sound, Upto, SameTask, IsTerminal
<1>2. Moves(j, j1)
  BY DEF Moves, Upto
<1>3. j1.state # "cancelled"
  BY DEF Upto, Terminal
<1> QED BY <1>1, <1>2, <1>3 DEF Outcome, At, Upto, SameTask

-----------------------------------------------------------------------------
(* The handlers of a run: every step of its task is an Outcome.            *)

\* j1 is the row of a run whose task t, now t1, is at work.
AtWork(j, t, j1, t1) ==
    Upto(j, j1) /\ SameTask(t, t1) /\ j1.state = "started"

\* What a task carries from one wait to the next.
LEMMA TaskParts ==
    ASSUME NEW t \in TaskType, NEW u \in Nat, NEW p \in Points, NEW w \in Pauses,
           NEW b \in BOOLEAN
    PROVE  /\ SameTask(t, [t EXCEPT !.used = u])
           /\ SameTask(t, [t EXCEPT !.used = u, !.mutated = b])
           /\ SameTask(t, [t EXCEPT !.empty = b])
           /\ SameTask(t, [t EXCEPT !.pc = p, !.empty = b])
           /\ SameTask(t, [t EXCEPT !.pc = p, !.used = u])
           /\ SameTask(t, [t EXCEPT !.pc = p, !.why = w])
           /\ SameTask(t, [t EXCEPT !.pc = p, !.why = w, !.used = u])
           /\ SameTask(t, [t EXCEPT !.pc = p])
           /\ SameTask(t, [t EXCEPT !.answer = "none"])
BY DEF SameTask, TaskType

\* SameTask composes.
LEMMA SameTaskTwice ==
    ASSUME NEW t, NEW t1, NEW t2, SameTask(t, t1), SameTask(t1, t2)
    PROVE  SameTask(t, t2)
BY DEF SameTask

\* A run at work goes on waiting at p.
LEMMA WaitsAt ==
    ASSUME NEW j, NEW t, NEW j1, NEW t1, NEW t2, NEW p \in Working,
           AtWork(j, t, j1, t1), SameTask(t1, t2), t2.pc = p
    PROVE  Outcome(j, t, At(j1, t2))
<1>1. SameTask(t, t2)
  BY SameTaskTwice DEF AtWork
<1>2. Active(t2) /\ t2.pc # "start"
  BY DEF Active, Working
<1> QED BY <1>1, <1>2, GoesOnFacts DEF AtWork

\* To the next turn, or to the summary when the budget is down to its reserve.
LEMMA ToTurnOutcome ==
    ASSUME NEW j, NEW t, NEW j1, NEW t1, AtWork(j, t, j1, t1)
    PROVE  Outcome(j, t, ToTurn(j1, t1))
<1>1. t1 \in TaskType /\ t1.used \in Nat /\ t1.used + 1 \in Nat
  BY DEF AtWork, SameTask, TaskType
<1> DEFINE s == [t1 EXCEPT !.pc = "summary", !.why = "budget"]
           n == [t1 EXCEPT !.pc = "turn", !.used = @ + 1]
<1>2. "budget" \in Pauses /\ "summary" \in Points /\ "turn" \in Points
  BY DEF Pauses, Points
<1>3. SameTask(t1, s) /\ s.pc = "summary"
  BY <1>1, <1>2 DEF SameTask, TaskType
<1>4. SameTask(t1, n) /\ n.pc = "turn"
  BY <1>1, <1>2 DEF SameTask, TaskType
<1> HIDE DEF s, n
<1>5. "summary" \in Working /\ "turn" \in Working
  BY DEF Working
<1>6. Outcome(j, t, At(j1, s)) /\ Outcome(j, t, At(j1, n))
  BY <1>3, <1>4, <1>5, WaitsAt
<1> QED BY <1>6 DEF ToTurn, s, n

\* The top of the loop: the pause that was asked for, compaction or a turn.
LEMMA LoopTopOutcome ==
    ASSUME NEW j, NEW t, NEW j1, NEW t1, AtWork(j, t, j1, t1),
           NEW x \in LoopTop(j1, t1)
    PROVE  Outcome(j, t, x)
<1> DEFINE c == [t1 EXCEPT !.pc = "compact"]
<1>1. SameTask(t1, c) /\ c.pc = "compact"
  BY DEF SameTask, TaskType, AtWork, Points
<1> HIDE DEF c
<1>2. Outcome(j, t, At(j1, c))
  BY <1>1, WaitsAt DEF Working
<1>3. Outcome(j, t, ToTurn(j1, t1))
  BY ToTurnOutcome
<1>4. Outcome(j, t, PausesWith(j1, t1, "user.requested"))
  BY PausesFacts DEF AtWork, Pauses
<1> QED BY <1>2, <1>3, <1>4 DEF LoopTop, c

\* A task that spent its budget pauses.
LEMMA OverspentOutcome ==
    ASSUME NEW j, NEW t, NEW j1, NEW t1, AtWork(j, t, j1, t1)
    PROVE  Outcome(j, t, Overspent(j1, t1))
BY PausesFacts DEF AtWork, Pauses, Overspent

\* A snapshot of a run at work.
LEMMA SaveAtWork ==
    ASSUME NEW j, NEW t, NEW j1, NEW t1, AtWork(j, t, j1, t1), NEW safe \in BOOLEAN
    PROVE  AtWork(j, t, Save(j1, t1.used, safe), t1)
<1>1. t1.used \in Nat
  BY DEF AtWork, SameTask, TaskType
<1>2. Upto(j, Save(j1, t1.used, safe)) /\ Save(j1, t1.used, safe).state = j1.state
  BY <1>1, UptoSave DEF AtWork
<1> QED BY <1>2 DEF AtWork

\* A final answer: publication is offered or the run completes.
LEMMA AnsweredOutcome ==
    ASSUME NEW j, NEW t, NEW j1, NEW t1, AtWork(j, t, j1, t1), j.state = "started"
    PROVE  Outcome(j, t, Answered(j1, t1))
<1> DEFINE s == Save(j1, t1.used, FALSE)  o == [t1 EXCEPT !.pc = "offer"]
<1>1. AtWork(j, t, s, t1)
  BY SaveAtWork
<1>2. SameTask(t1, o) /\ o.pc = "offer"
  BY DEF SameTask, TaskType, AtWork, Points
<1> HIDE DEF s, o
<1>3. Outcome(j, t, At(s, o))
  BY <1>1, <1>2, WaitsAt DEF Working
<1>4. Outcome(j, t, EndsWith(s, t1, "completed"))
  <2>1. "completed" \in Terminal /\ "completed" # "cancelled"
    BY DEF Terminal
  <2> QED BY <1>1, <2>1, EndsFacts DEF AtWork
<1> QED BY <1>3, <1>4 DEF Answered, s, o

\* A turn whose results are in.
LEMMA TurnDoneOutcome ==
    ASSUME NEW j, NEW t, NEW j1, NEW t1, AtWork(j, t, j1, t1),
           NEW x \in TurnDone(j1, t1)
    PROVE  Outcome(j, t, x)
<1> DEFINE s == Save(j1, t1.used, TRUE)
           w == [t1 EXCEPT !.pc = "summary", !.why = "no_progress"]
<1>1. AtWork(j, t, s, t1)
  BY SaveAtWork
<1>2. SameTask(t1, w) /\ w.pc = "summary"
  BY DEF SameTask, TaskType, AtWork, Points, Pauses
<1>5. x \in LoopTop(s, t1) \/ x = At(s, w)
  BY DEF TurnDone
<1> HIDE DEF s, w
<1>3. Outcome(j, t, At(s, w))
  BY <1>1, <1>2, WaitsAt DEF Working
<1>4. x \in LoopTop(s, t1) => Outcome(j, t, x)
  BY <1>1, LoopTopOutcome
<1> QED BY <1>3, <1>4, <1>5

\* The reply of the model.
LEMMA RepliedOutcome ==
    ASSUME NEW j, NEW t, NEW j1, NEW t1, AtWork(j, t, j1, t1), j.state = "started",
           NEW x \in Replied(j1, t1)
    PROVE  Outcome(j, t, x)
<1> DEFINE e == [t1 EXCEPT !.empty = TRUE]
           W(p) == [t1 EXCEPT !.pc = p, !.empty = FALSE]
<1>1. SameTask(t1, e)
  BY DEF SameTask, TaskType, AtWork
<1>2. \A p \in {"tool", "ask"} : SameTask(t1, W(p)) /\ W(p).pc = p /\ p \in Working
  BY DEF SameTask, TaskType, AtWork, Points, Working
<1>3. \/ x = Overspent(j1, t1) \/ x = Answered(j1, t1)
      \/ x = PausesWith(j1, t1, "empty_reply")
      \/ x \in LoopTop(j1, e)
      \/ \E p \in {"tool", "ask"} : x = At(j1, W(p))
  BY DEF Replied
<1> HIDE DEF e, W
<1>4. AtWork(j, t, j1, e)
  BY <1>1, SameTaskTwice DEF AtWork
<1>5. x \in LoopTop(j1, e) => Outcome(j, t, x)
  BY <1>4, LoopTopOutcome
<1>6. ASSUME NEW p \in {"tool", "ask"} PROVE Outcome(j, t, At(j1, W(p)))
  BY <1>2, WaitsAt
<1>7. Outcome(j, t, PausesWith(j1, t1, "empty_reply"))
  BY PausesFacts DEF AtWork, Pauses
<1> QED BY <1>3, <1>5, <1>6, <1>7, OverspentOutcome, AnsweredOutcome

\* A run whose task is between run.started (or run.resumed) and its end.
LEMMA SoundAtWork ==
    ASSUME NEW j, NEW t, Sound(j, t), t.pc \in Working
    PROVE  AtWork(j, t, j, t)
<1>1. Active(t)
  BY DEF Active, Working
<1> QED BY <1>1, UptoSelf DEF AtWork, SameTask, Sound

\* A wait in which calls cost and time passes.
LEMMA WaitCosts ==
    ASSUME NEW j, NEW t, NEW j1, NEW t1, AtWork(j, t, j1, t1),
           NEW u \in OrLate(t1.used), NEW b \in BOOLEAN
    PROVE  /\ AtWork(j, t, j1, [t1 EXCEPT !.used = u])
           /\ AtWork(j, t, j1, [t1 EXCEPT !.used = u, !.mutated = b])
<1>1. t1 \in TaskType /\ u \in Nat
  BY LimitIsTurns DEF AtWork, SameTask, TaskType, OrLate
<1>2. SameTask(t1, [t1 EXCEPT !.used = u])
  BY <1>1 DEF SameTask, TaskType
<1>3. SameTask(t1, [t1 EXCEPT !.used = u, !.mutated = b])
  BY <1>1 DEF SameTask, TaskType
<1> QED BY <1>2, <1>3, SameTaskTwice DEF AtWork

\* An event on the way of a run at work.
LEMMA FailedAndCompleted ==
    /\ "failed" \in Terminal /\ "completed" \in Terminal /\ "cancelled" \in Terminal
    /\ "failed" # "completed" /\ "failed" # "cancelled" /\ "completed" # "cancelled"
BY DEF Terminal

\* A chat streams its text and ends.
LEMMA ChattedOutcome ==
    ASSUME NEW j, NEW t, Sound(j, t), t.pc = "chat", NEW x \in Chatted(j, t)
    PROVE  Outcome(j, t, x)
<1>1. AtWork(j, t, j, t)
  BY SoundAtWork DEF Working
<1>2. j.state = "started"
  BY <1>1 DEF AtWork
<1>3. Outcome(j, t, EndsWith(j, t, "failed"))
  BY <1>1, FailedAndCompleted, EndsFacts DEF AtWork
<1>4. t.cancel => Outcome(j, t, EndsWith(j, t, "cancelled"))
  BY <1>1, FailedAndCompleted, EndsFacts DEF AtWork
<1>5. Outcome(j, t, EndsWith(j, t, "completed"))
  BY <1>1, <1>2, FailedAndCompleted, EndsFacts DEF AtWork
<1>6. Outcome(j, t, At(Log(j, "text"), t))
  <2>1. "text" \in Notes
    BY DEF Notes
  <2>2. Upto(j, Log(j, "text")) /\ Log(j, "text").state = "started"
    BY <1>1, <1>2, <2>1, UptoLog DEF AtWork
  <2>3. AtWork(j, t, Log(j, "text"), t)
    BY <1>1, <2>2 DEF AtWork
  <2>4. SameTask(t, t) /\ "chat" \in Working
    BY <1>1 DEF AtWork, Working
  <2> QED BY <2>3, <2>4, WaitsAt
<1> QED BY <1>3, <1>4, <1>5, <1>6 DEF Chatted

\* The executor's status is in: the run is started or resumed.
LEMMA StatusReadOutcome ==
    ASSUME NEW j, NEW t, Sound(j, t), t.pc = "status", NEW x \in StatusRead(j, t)
    PROVE  Outcome(j, t, x)
<1>1. Upto(j, j) /\ SameTask(t, t)
  BY UptoSelf DEF Active, Sound, SameTask
<1>2. Outcome(j, t, EndsWith(j, t, "failed"))
  BY <1>1, FailedAndCompleted, EndsFacts
<1> DEFINE e == IF t.resumed THEN "resumed" ELSE "started"
           l == Log(j, e)  s == Save(l, t.used, TRUE)
<1>3. e \in Starts
  BY DEF Starts
<1>4. x = EndsWith(j, t, "failed") \/ x \in LoopTop(s, t)
  BY DEF StatusRead
<1> HIDE DEF e
<1>5. Upto(j, l) /\ l.state = "started"
  BY <1>1, <1>3, UptoLog
<1> HIDE DEF l
<1>6. AtWork(j, t, l, t)
  BY <1>1, <1>5 DEF AtWork
<1>7. AtWork(j, t, s, t)
  BY <1>6, SaveAtWork
<1> HIDE DEF s
<1> QED BY <1>2, <1>4, <1>7, LoopTopOutcome

\* The handoff summary is written.
LEMMA CompactedOutcome ==
    ASSUME NEW j, NEW t, Sound(j, t), t.pc = "compact", NEW x \in Compacted(j, t)
    PROVE  Outcome(j, t, x)
<1>1. AtWork(j, t, j, t)
  BY SoundAtWork DEF Working
<1>2. PICK u \in OrLate(t.used) :
        x = IF Over(u) THEN Overspent(j, [t EXCEPT !.used = u])
            ELSE ToTurn(j, [t EXCEPT !.used = u])
  BY DEF Compacted
<1>3. AtWork(j, t, j, [t EXCEPT !.used = u])
  BY <1>1, WaitCosts
<1> QED BY <1>2, <1>3, OverspentOutcome, ToTurnOutcome

\* A model turn ends.
LEMMA TurnEndsOutcome ==
    ASSUME NEW j, NEW t, Sound(j, t), t.pc = "turn", NEW x \in TurnEnds(j, t)
    PROVE  Outcome(j, t, x)
<1>1. AtWork(j, t, j, t)
  BY SoundAtWork DEF Working
<1>2. CASE x = EndsWith(j, t, "failed")
  BY <1>1, <1>2, FailedAndCompleted, EndsFacts DEF AtWork
<1>3. ASSUME NEW u \in OrLate(t.used),
             x = PausesWith(j, [t EXCEPT !.used = u], "provider_error")
             \/ x \in Replied(j, [t EXCEPT !.used = u])
      PROVE  Outcome(j, t, x)
  <2>1. AtWork(j, t, j, [t EXCEPT !.used = u])
    BY <1>1, WaitCosts
  <2>2. "provider_error" \in Pauses
    BY DEF Pauses
  <2>3. Outcome(j, t, PausesWith(j, [t EXCEPT !.used = u], "provider_error"))
    BY <2>1, <2>2, PausesFacts DEF AtWork
  <2>4. j.state = "started"
    BY <1>1 DEF AtWork
  <2> QED BY <1>3, <2>1, <2>3, <2>4, RepliedOutcome
<1> QED BY <1>2, <1>3 DEF TurnEnds

\* The tools of a turn are done.
LEMMA ToolsEndOutcome ==
    ASSUME NEW j, NEW t, Sound(j, t), t.pc = "tool", NEW x \in ToolsEnd(j, t)
    PROVE  Outcome(j, t, x)
<1>1. AtWork(j, t, j, t) /\ t \in TaskType
  BY SoundAtWork DEF Working, Sound
<1>2. CASE x = EndsWith(j, t, "failed")
  BY <1>1, <1>2, FailedAndCompleted, EndsFacts DEF AtWork
<1>3. ASSUME NEW u \in {Limit, Limit + 1},
             x = At(j, [t EXCEPT !.pc = "summary", !.why = "budget", !.used = u])
      PROVE  Outcome(j, t, x)
  <2> DEFINE s == [t EXCEPT !.pc = "summary", !.why = "budget", !.used = u]
  <2>1. u \in Nat
    BY LimitIsTurns
  <2>2. SameTask(t, s) /\ s.pc = "summary"
    BY <1>1, <2>1 DEF SameTask, TaskType, Points, Pauses
  <2> HIDE DEF s
  <2>3. Outcome(j, t, At(j, s))
    BY <1>1, <2>2, WaitsAt DEF Working
  <2> QED BY <1>3, <2>3 DEF s
<1>4. ASSUME NEW u \in OrLate(t.used), NEW b \in {t.mutated, TRUE},
             x \in TurnDone(j, [t EXCEPT !.used = u, !.mutated = b])
      PROVE  Outcome(j, t, x)
  <2>1. b \in BOOLEAN
    BY <1>1 DEF TaskType
  <2>2. AtWork(j, t, j, [t EXCEPT !.used = u, !.mutated = b])
    BY <1>1, <2>1, WaitCosts
  <2> QED BY <1>4, <2>2, TurnDoneOutcome
<1>5. \/ x = EndsWith(j, t, "failed")
      \/ \E u \in {Limit, Limit + 1} :
            x = At(j, [t EXCEPT !.pc = "summary", !.why = "budget", !.used = u])
      \/ \E u \in OrLate(t.used) : \E b \in {t.mutated, TRUE} :
            x \in TurnDone(j, [t EXCEPT !.used = u, !.mutated = b])
  BY DEF ToolsEnd
<1> QED BY <1>2, <1>3, <1>4, <1>5

\* The wind-down's summary is written.
LEMMA WoundDownOutcome ==
    ASSUME NEW j, NEW t, Sound(j, t), t.pc = "summary", NEW x \in WoundDown(j, t)
    PROVE  Outcome(j, t, x)
<1>1. AtWork(j, t, j, t) /\ t.why \in Pauses
  BY SoundAtWork DEF Working, Sound, TaskType
<1>2. PICK u \in OrLate(t.used) : x = PausesWith(j, [t EXCEPT !.used = u], t.why)
  BY DEF WoundDown
<1>3. AtWork(j, t, j, [t EXCEPT !.used = u])
  BY <1>1, WaitCosts
<1> QED BY <1>1, <1>2, <1>3, PausesFacts DEF AtWork

\* Publication is offered, the run completes.
LEMMA OfferedOutcome ==
    ASSUME NEW j, NEW t, Sound(j, t), t.pc = "offer", NEW x \in Offered(j, t)
    PROVE  Outcome(j, t, x)
<1>1. AtWork(j, t, j, t)
  BY SoundAtWork DEF Working
<1>2. Outcome(j, t, EndsWith(j, t, "failed"))
  BY <1>1, FailedAndCompleted, EndsFacts DEF AtWork
<1>3. Upto(j, Log(j, "manifest"))
  <2>1. "manifest" \in Notes
    BY DEF Notes
  <2> QED BY <1>1, <2>1, UptoLog DEF AtWork
<1>4. Outcome(j, t, EndsWith(Log(j, "manifest"), t, "completed"))
  BY <1>1, <1>3, FailedAndCompleted, EndsFacts DEF AtWork
<1> QED BY <1>2, <1>4 DEF Offered

\* A task that starts: it may find no key, ask for the budget, or find its
\* saved budget used up.
LEMMA BeginsOutcome ==
    ASSUME NEW j, NEW t, Sound(j, t), t.pc = "start", NEW x \in Begins(j, t)
    PROVE  Outcome(j, t, x)
<1>1. Upto(j, j) /\ SameTask(t, t) /\ t \in TaskType
  BY UptoSelf DEF Active, Sound, SameTask
<1>2. ASSUME NEW p \in {"approve", "status", "chat"}
      PROVE  /\ SameTask(t, [t EXCEPT !.pc = p])
             /\ Active([t EXCEPT !.pc = p]) /\ [t EXCEPT !.pc = p].pc = p
  BY <1>1 DEF SameTask, TaskType, Points, Active
<1>3. CASE x = At(Log(j, "failed"), [Gone(t) EXCEPT !.pc = "dead"])
  <2> DEFINE g == [Gone(t) EXCEPT !.pc = "dead"]
  <2>1. g \in TaskType /\ g.gen = t.gen /\ ~Active(g)
    BY <1>1 DEF Gone, NoTask, TaskType, Points, Active, Pauses
  <2> HIDE DEF g
  <2>2. Outcome(j, t, At(Log(j, "failed"), g))
    BY <1>1, <2>1, FailedAndCompleted, EndsLeaving
  <2> QED BY <1>3, <2>2 DEF g
<1>4. CASE x = At(Log(j, "started"), [t EXCEPT !.pc = "chat"])
  <2>1. Upto(j, Log(j, "started")) /\ Log(j, "started").state = "started"
    BY <1>1, UptoLog DEF Starts
  <2> QED BY <1>2, <1>4, <2>1, GoesOnFacts
<1>5. CASE ~t.fresh /\ x = At(j, Gone(t))
  <2>1. Gone(t) \in TaskType /\ Gone(t).gen = t.gen /\ ~Active(Gone(t)) /\ Gone(t).pc = "none"
    BY <1>1, GoneFacts
  <2>2. Resumable(j)
    BY <1>5 DEF Sound
  <2>3. Sound(j, Gone(t))
    BY <2>1 DEF Sound, Working
  <2>4. Extends(j, j) /\ Moves(j, j) /\ j.state # "cancelled"
    BY <1>1 DEF Upto, Moves, Terminal
  <2> QED BY <1>5, <2>1, <2>2, <2>3, <2>4 DEF Outcome, At, Rested
<1>6. CASE x = At(Log(j, "approval"), [t EXCEPT !.pc = "approve"])
  <2>1. "approval" \in Notes
    BY DEF Notes
  <2>2. /\ Upto(j, Log(j, "approval"))
        /\ Log(j, "approval").safe = j.safe
    BY <1>1, <2>1, UptoLog
  <2> QED BY <1>2, <1>6, <2>2, GoesOnFacts DEF Working
<1>7. CASE x = At(j, [t EXCEPT !.pc = "status"])
  BY <1>1, <1>2, <1>7, GoesOnFacts DEF Working
<1> QED BY <1>3, <1>4, <1>5, <1>6, <1>7 DEF Begins, AgentBegins

\* Whatever a task waited for, its next step is an outcome.
LEMMA StepOutcome ==
    ASSUME NEW j, NEW t, Sound(j, t), NEW x \in Step(j, t)
    PROVE  Active(t) /\ Outcome(j, t, x)
<1>1. Active(t)
  BY DEF Step, Active
<1> QED BY <1>1, BeginsOutcome, ChattedOutcome, StatusReadOutcome, CompactedOutcome,
        TurnEndsOutcome, ToolsEndOutcome, WoundDownOutcome, OfferedOutcome DEF Step

\* A decision that is read takes the task on, or ends its run.
LEMMA AnswerOutcome ==
    ASSUME NEW j, NEW t, NEW answer, Sound(j, t), t.pc \in {"approve", "ask"},
           NEW x \in Decision(j, [t EXCEPT !.answer = "none"], answer)
    PROVE  Outcome(j, t, x)
<1> DEFINE n == [t EXCEPT !.answer = "none"]
<1>1. n \in TaskType /\ n.pc = t.pc /\ SameTask(t, n)
  BY DEF Sound, TaskType, SameTask
<1>2. Upto(j, j)
  BY UptoSelf DEF Active
<1>3. t.pc = "ask" => AtWork(j, t, j, n)
  BY <1>1, SoundAtWork DEF AtWork, Working
<1> HIDE DEF n
<1>4. ASSUME NEW p \in {"status", "tool"}
      PROVE  SameTask(n, [n EXCEPT !.pc = p]) /\ [n EXCEPT !.pc = p].pc = p
  BY <1>1 DEF SameTask, TaskType, Points
<1>5. CASE t.pc = "approve" /\ x = At(j, [n EXCEPT !.pc = "status"])
  <2> DEFINE m == [n EXCEPT !.pc = "status"]
  <2>1. SameTask(t, m) /\ m.pc = "status"
    BY <1>1, <1>4, SameTaskTwice
  <2> HIDE DEF m
  <2>2. Outcome(j, t, At(j, m))
    BY <1>2, <2>1, GoesOnFacts DEF Active, Working
  <2> QED BY <1>5, <2>2 DEF m
<1>6. CASE x = EndsWith(j, n, "failed")
  BY <1>1, <1>2, <1>6, FailedAndCompleted, EndsFacts
<1>7. CASE t.pc = "ask" /\ x = At(j, [n EXCEPT !.pc = "tool"])
  <2>1. SameTask(n, [n EXCEPT !.pc = "tool"]) /\ [n EXCEPT !.pc = "tool"].pc = "tool"
    BY <1>4
  <2>2. "tool" \in Working
    BY DEF Working
  <2> QED BY <1>3, <1>7, <2>1, <2>2, WaitsAt
<1>8. CASE t.pc = "ask" /\ x \in TurnDone(j, n)
  BY <1>3, <1>8, TurnDoneOutcome
<1>9. x \in Decision(j, n, answer)
  BY DEF n
<1>10. CASE t.pc = "approve"
  <2>1. \/ x = At(j, [n EXCEPT !.pc = "status"])
        \/ x = EndsWith(j, n, "failed")
    BY <1>1, <1>9, <1>10 DEF Decision
  <2> QED BY <1>5, <1>6, <1>10, <2>1
<1>11. CASE t.pc = "ask"
  <2>1. \/ x = At(j, [n EXCEPT !.pc = "tool"])
        \/ x \in TurnDone(j, n)
    BY <1>1, <1>9, <1>11 DEF Decision
  <2> QED BY <1>7, <1>8, <1>11, <2>1
<1> QED BY <1>10, <1>11

\* A wait for an approval that passes its deadline fails the run.
LEMMA ExpireOutcome ==
    ASSUME NEW j, NEW t, Sound(j, t), t.pc \in {"approve", "ask"}
    PROVE  Outcome(j, t, At(Log(Log(j, "approval"), "failed"), Gone(t)))
<1>1. Upto(j, j) /\ t \in TaskType
  BY UptoSelf DEF Active, Sound
<1>2. Upto(j, Log(j, "approval"))
  BY <1>1, UptoLog DEF Notes
<1>3. Gone(t) \in TaskType /\ Gone(t).gen = t.gen /\ ~Active(Gone(t))
  BY <1>1, GoneFacts
<1> QED BY <1>2, <1>3, FailedAndCompleted, EndsLeaving

\* A task that a cancel or the shutdown stops.
LEMMA CancelOutcome ==
    ASSUME NEW j, NEW t, Sound(j, t), Active(t)
    PROVE  /\ ~IsTerminal(j)
           /\ Outcome(j, [t EXCEPT !.cancel = TRUE], At(Log(j, "cancelled"), Gone(t)))
<1> DEFINE c == [t EXCEPT !.cancel = TRUE]
<1>1. Upto(j, j) /\ t \in TaskType
  BY UptoSelf DEF Active, Sound
<1>2. Gone(t) \in TaskType /\ Gone(t).gen = t.gen /\ ~Active(Gone(t))
  BY <1>1, GoneFacts
<1>3. c.gen = t.gen /\ c.cancel = TRUE
  BY <1>1 DEF TaskType
<1> HIDE DEF c
<1>4. Outcome(j, c, At(Log(j, "cancelled"), Gone(t)))
  BY <1>1, <1>2, <1>3, FailedAndCompleted, EndsLeaving
<1> QED BY <1>1, <1>4 DEF Upto, c

-----------------------------------------------------------------------------
(* The invariant: runs, tasks and the desktop's stream together.           *)

ClientType ==
    [run : Runs \cup {"none"}, cursor : Nat,
     conn : {"none", "fresh", "open", "lost"}, batch : Seq([id : Nat, e : Events]),
     tries : Nat, stop : BOOLEAN, sent : BOOLEAN, saw : Rests \cup {"none"},
     last : Runs \cup {"none"}, cancelling : SUBSET Runs]

\* What a worker c that follows the run of row j has fetched comes next, in
\* order, up to what was pruned before it was fetched.
Fetched(j, c) ==
    /\ j.mode # "none" /\ c.cursor <= LastId(j)
    /\ \A i \in DOMAIN c.batch : c.batch[i].id = c.batch[1].id + (i - 1)
    /\ c.batch # <<>> =>
          /\ c.batch[1].id > c.cursor
          /\ c.batch[1].id + (Len(c.batch) - 1) <= LastId(j)
          /\ \A n \in (c.cursor + 1)..(c.batch[1].id - 1) : n <= j.cut

\* No event the worker has yet to see ends or pauses the run.
NoRestAhead(j, c) ==
    /\ \A i \in DOMAIN c.batch : c.batch[i].e \notin Rests
    /\ \A i \in DOMAIN j.log : j.cut + i > c.cursor => j.log[i] \notin Rests

\* The rows J, the tasks T and the worker c belong together.
RunsOK(J, T, u) ==
    /\ J \in [Runs -> JournalType] /\ T \in [Runs -> TaskType]
    /\ \A r \in Runs : Sound(J[r], T[r])
    /\ \A r \in Runs : u /\ J[r].mode # "none" /\ ~Active(T[r]) => Rested(J[r])
    /\ \A r \in Runs : ~u => ~Active(T[r])
ClientOK(J, T, c) ==
    /\ c \in ClientType
    /\ c.run = "none" =>
          /\ c.conn = "none"
          /\ c.saw # "none" => c.last \in Runs /\ ~Active(T[c.last])
    /\ c.run # "none" =>
          /\ Fetched(J[c.run], c)
          /\ Active(T[c.run]) => NoRestAhead(J[c.run], c)

TypeOK ==
    /\ journal \in [Runs -> JournalType] /\ task \in [Runs -> TaskType]
    /\ up \in BOOLEAN /\ key \in BOOLEAN /\ approved \in BOOLEAN
    /\ cancels \in SUBSET (Runs \X Nat) /\ client \in ClientType /\ faults \in Nat

GatewayInv ==
    TypeOK /\ RunsOK(journal, task, up) /\ ClientOK(journal, task, client)

\* What a worker fetched stays in order when the journal goes on.
LEMMA FetchedKept ==
    ASSUME NEW j \in JournalType, NEW j2 \in JournalType, NEW c \in ClientType,
           Fetched(j, c), Extends(j, j2)
    PROVE  Fetched(j2, c)
<1>1. /\ j.cut \in Nat /\ j2.cut \in Nat /\ LastId(j) \in Nat /\ LastId(j2) \in Nat
      /\ j.cut <= j2.cut /\ LastId(j) <= LastId(j2) /\ j2.mode = j.mode
  BY RowTypes DEF Extends
<1>2. c.cursor \in Nat /\ c.batch \in Seq([id : Nat, e : Events])
  BY DEF ClientType
<1>3. c.cursor <= LastId(j2)
  BY <1>1, <1>2 DEF Fetched
<1>4. ASSUME c.batch # <<>>
      PROVE  /\ c.batch[1].id + (Len(c.batch) - 1) <= LastId(j2)
             /\ \A n \in (c.cursor + 1)..(c.batch[1].id - 1) : n <= j2.cut
  <2>1. Len(c.batch) \in Nat \ {0}
    BY <1>2, <1>4, EmptySeq
  <2>2. c.batch[1].id \in Nat
    <3>1. 1 \in 1..Len(c.batch)
      BY <2>1
    <3>2. c.batch[1] \in [id : Nat, e : Events]
      BY <1>2, <3>1, ElementOfSeq
    <3> QED BY <3>2
  <2>3. /\ c.batch[1].id + (Len(c.batch) - 1) <= LastId(j)
        /\ \A n \in (c.cursor + 1)..(c.batch[1].id - 1) : n <= j.cut
    BY <1>4 DEF Fetched
  <2>4. c.batch[1].id + (Len(c.batch) - 1) <= LastId(j2)
    BY <1>1, <2>1, <2>2, <2>3
  <2>5. ASSUME NEW n \in (c.cursor + 1)..(c.batch[1].id - 1) PROVE n <= j2.cut
    <3>1. n <= j.cut
      BY ONLY <2>3, <2>5
    <3>2. n \in Int
      BY ONLY <1>2, <2>2, <2>5
    <3> QED BY ONLY <1>1, <3>1, <3>2
  <2> QED BY <2>4, <2>5
<1> QED BY <1>1, <1>3, <1>4 DEF Fetched

\* A quiet journal leaves no rest ahead of a worker.
LEMMA NoRestAheadKept ==
    ASSUME NEW j \in JournalType, NEW j2 \in JournalType, NEW c \in ClientType,
           Fetched(j, c), NoRestAhead(j, c), Extends(j, j2), Quiet(j, j2)
    PROVE  NoRestAhead(j2, c)
<1>1. ASSUME NEW i \in DOMAIN j2.log, j2.cut + i > c.cursor
      PROVE  j2.log[i] \notin Rests
  <2>1. CASE j2.cut + i > LastId(j)
    BY <2>1 DEF Quiet
  <2>2. CASE j2.cut + i <= LastId(j)
    <3> DEFINE k == j2.cut + i - j.cut
    <3>1. k \in DOMAIN j.log /\ j2.log[i] = j.log[k]
      BY <2>2 DEF Extends
    <3>2. j.cut + k = j2.cut + i
      <4>1. j.cut \in Nat /\ j2.cut \in Nat /\ i \in Nat
        BY RowTypes
      <4> QED BY <4>1
    <3> HIDE DEF k
    <3> QED BY <1>1, <3>1, <3>2 DEF NoRestAhead
  <2>3. j2.cut + i \in Nat /\ LastId(j) \in Nat
    BY RowTypes
  <2> QED BY <2>1, <2>2, <2>3
<1> QED BY <1>1 DEF NoRestAhead

\* A step of the task of one run, by its own doing or by a cancel.
LEMMA OneRunKeeps ==
    ASSUME NEW J, NEW T, NEW c, NEW r \in Runs, NEW t0, NEW x,
           RunsOK(J, T, TRUE), ClientOK(J, T, c), Active(T[r]),
           Outcome(J[r], t0, x)
    PROVE  /\ RunsOK([J EXCEPT ![r] = x.j], [T EXCEPT ![r] = x.t], TRUE)
           /\ ClientOK([J EXCEPT ![r] = x.j], [T EXCEPT ![r] = x.t], c)
<1> DEFINE J2 == [J EXCEPT ![r] = x.j]  T2 == [T EXCEPT ![r] = x.t]
<1>1. J \in [Runs -> JournalType] /\ T \in [Runs -> TaskType]
  BY DEF RunsOK
<1>2. x.j \in JournalType /\ x.t \in TaskType
  BY DEF Outcome, Sound
<1>3. /\ J2 \in [Runs -> JournalType] /\ T2 \in [Runs -> TaskType]
      /\ J2[r] = x.j /\ T2[r] = x.t
      /\ \A q \in Runs \ {r} : J2[q] = J[q] /\ T2[q] = T[q]
  BY <1>1, <1>2
<1> HIDE DEF J2, T2
<1>4. RunsOK(J2, T2, TRUE)
  BY <1>3 DEF RunsOK, Outcome
<1>5. ClientOK(J2, T2, c)
  <2>1. c \in ClientType /\ c.run \in Runs \cup {"none"}
    BY DEF ClientOK, ClientType
  <2>2. CASE c.run = "none"
    <3>1. c.saw # "none" => c.last \in Runs /\ ~Active(T2[c.last])
      BY <1>3, <2>2 DEF ClientOK
    <3> QED BY <2>1, <2>2, <3>1 DEF ClientOK
  <2>3. CASE c.run = r
    <3>1. J[r] \in JournalType /\ Fetched(J[r], c) /\ NoRestAhead(J[r], c)
      BY <1>1, <2>3, RunsAreNamed DEF ClientOK
    <3>2. Fetched(J2[r], c)
      BY <1>2, <1>3, <2>1, <3>1, FetchedKept DEF Outcome
    <3>3. Active(T2[r]) => NoRestAhead(J2[r], c)
      BY <1>2, <1>3, <2>1, <3>1, NoRestAheadKept DEF Outcome
    <3> QED BY <2>1, <2>3, <3>2, <3>3, RunsAreNamed DEF ClientOK
  <2>4. CASE c.run \in Runs \ {r}
    BY <1>3, <2>1, <2>4, RunsAreNamed DEF ClientOK
  <2> QED BY <2>1, <2>2, <2>3, <2>4
<1> QED BY <1>4, <1>5 DEF J2, T2

\* A request that a task will look at later.
LEMMA RequestKeeps ==
    ASSUME NEW J, NEW T, NEW u, NEW c, NEW r \in Runs, NEW t,
           RunsOK(J, T, u), ClientOK(J, T, c),
           t \in TaskType, t.pc = T[r].pc, t.fresh = T[r].fresh
    PROVE  RunsOK(J, [T EXCEPT ![r] = t], u) /\ ClientOK(J, [T EXCEPT ![r] = t], c)
<1> DEFINE T2 == [T EXCEPT ![r] = t]
<1>1. /\ T2 \in [Runs -> TaskType] /\ T2[r] = t
      /\ \A q \in Runs \ {r} : T2[q] = T[q]
  BY DEF RunsOK
<1> HIDE DEF T2
<1>2. \A q \in Runs : Active(T2[q]) <=> Active(T[q])
  BY <1>1 DEF Active
<1>3. Sound(J[r], t)
  BY DEF RunsOK, Sound, Active
<1>4. \A q \in Runs : Sound(J[q], T2[q])
  BY <1>1, <1>3 DEF RunsOK
<1>5. RunsOK(J, T2, u)
  BY <1>1, <1>2, <1>4 DEF RunsOK
<1>6. ClientOK(J, T2, c)
  BY <1>2 DEF ClientOK, ClientType
<1> QED BY <1>5, <1>6 DEF T2

\* The worker's record changes, but not what it follows and has fetched.
LEMMA ClientKeeps ==
    ASSUME NEW J, NEW T, NEW c, NEW d \in ClientType, ClientOK(J, T, c),
           d.run = c.run, d.cursor = c.cursor, d.saw = c.saw, d.last = c.last,
           d.batch = c.batch \/ d.batch = <<>>,
           c.run = "none" => d.conn = "none"
    PROVE  ClientOK(J, T, d)
<1>1. ASSUME Fetched(J[c.run], c) PROVE Fetched(J[c.run], d)
  BY <1>1 DEF Fetched
<1>2. ASSUME NoRestAhead(J[c.run], c) PROVE NoRestAhead(J[c.run], d)
  BY <1>2 DEF NoRestAhead
<1> QED BY <1>1, <1>2 DEF ClientOK

\* events_after returns the retained events beyond the cursor, in order.
LEMMA AfterFacts ==
    ASSUME NEW j \in JournalType, NEW cursor \in Nat, cursor <= LastId(j)
    PROVE  \E from \in Nat :
              /\ from >= cursor /\ from >= j.cut /\ from <= LastId(j)
              /\ from = cursor \/ from = j.cut
              /\ After(j, cursor) \in Seq([id : Nat, e : Events])
              /\ DOMAIN After(j, cursor) = 1..(LastId(j) - from)
              /\ Len(After(j, cursor)) = LastId(j) - from
              /\ \A i \in 1..(LastId(j) - from) :
                    /\ After(j, cursor)[i].id = from + i
                    /\ After(j, cursor)[i].e = j.log[from + i - j.cut]
                    /\ from + i - j.cut \in DOMAIN j.log
<1> DEFINE from == IF cursor > j.cut THEN cursor ELSE j.cut
           n == LastId(j) - from
           b == [i \in 1..n |-> [id |-> from + i, e |-> j.log[from + i - j.cut]]]
<1>1. /\ j.cut \in Nat /\ Len(j.log) \in Nat /\ LastId(j) = j.cut + Len(j.log)
      /\ DOMAIN j.log = 1..Len(j.log) /\ \A i \in DOMAIN j.log : j.log[i] \in Events
  BY RowTypes
<1>2. After(j, cursor) = b
  BY DEF After
<1>3. from \in Nat /\ from >= cursor /\ from >= j.cut /\ from <= LastId(j)
  BY <1>1
<1>4. from = cursor \/ from = j.cut
  OBVIOUS
<1> HIDE DEF from
<1>5. n \in Nat
  BY <1>1, <1>3
<1>6. ASSUME NEW i \in 1..n
      PROVE  from + i - j.cut \in DOMAIN j.log /\ from + i \in Nat
  BY <1>1, <1>3, <1>6
<1> HIDE DEF n
<1>7. b \in [1..n -> [id : Nat, e : Events]]
  BY <1>1, <1>6
<1>8. b \in Seq([id : Nat, e : Events]) /\ Len(b) = n /\ DOMAIN b = 1..n
  <2>1. b \in Seq([id : Nat, e : Events])
    BY <1>5, <1>7, SeqDef
  <2>2. DOMAIN b = 1..n
    OBVIOUS
  <2> QED BY <1>5, <2>1, <2>2
<1>9. \A i \in 1..n : b[i].id = from + i /\ b[i].e = j.log[from + i - j.cut]
  OBVIOUS
<1> HIDE DEF b
<1> QED BY <1>2, <1>3, <1>4, <1>6, <1>8, <1>9 DEF n

\* A worker that fetches what came after its cursor.
LEMMA FetchKeeps ==
    ASSUME NEW J, NEW T, NEW u, NEW c, NEW d, RunsOK(J, T, u), ClientOK(J, T, c),
           c.run # "none",
           d \in [run : Runs \cup {"none"}, cursor : Nat,
                  conn : {"none", "fresh", "open", "lost"},
                  batch : {After(J[c.run], c.cursor)}, tries : Nat, stop : BOOLEAN,
                  sent : BOOLEAN, saw : Rests \cup {"none"},
                  last : Runs \cup {"none"}, cancelling : SUBSET Runs],
           d.run = c.run, d.cursor = c.cursor
    PROVE  ClientOK(J, T, d)
<1> DEFINE j == J[c.run]  b == After(j, c.cursor)
<1>1. /\ j \in JournalType /\ c.cursor \in Nat /\ c.cursor <= LastId(j)
      /\ j.mode # "none" /\ c.run \in Runs
      /\ Active(T[c.run]) => NoRestAhead(j, c)
  BY DEF RunsOK, ClientOK, ClientType, Fetched
<1> HIDE DEF j
<1>2. PICK from \in Nat :
              /\ from >= c.cursor /\ from >= j.cut /\ from <= LastId(j)
              /\ from = c.cursor \/ from = j.cut
              /\ b \in Seq([id : Nat, e : Events])
              /\ DOMAIN b = 1..(LastId(j) - from)
              /\ Len(b) = LastId(j) - from
              /\ \A i \in 1..(LastId(j) - from) :
                    /\ b[i].id = from + i
                    /\ b[i].e = j.log[from + i - j.cut]
                    /\ from + i - j.cut \in DOMAIN j.log
  BY <1>1, AfterFacts
<1>3. d.batch = b
  BY DEF j
<1> HIDE DEF b
<1>4. d \in ClientType
  BY <1>2, <1>3 DEF ClientType
<1>5. LastId(j) \in Nat /\ j.cut \in Nat
  BY <1>1, RowTypes
<1>6. Fetched(j, d)
  <2>1. ASSUME NEW i \in DOMAIN b PROVE b[i].id = b[1].id + (i - 1)
    <3>1. i \in 1..(LastId(j) - from) /\ i \in Nat /\ from \in Nat
      BY <1>2, <1>5
    <3>2. 1 \in 1..(LastId(j) - from)
      BY ONLY <1>5, <3>1
    <3>3. b[i].id = from + i /\ b[1].id = from + 1
      BY <1>2, <3>1, <3>2
    <3> QED BY ONLY <3>1, <3>3
  <2>2. ASSUME b # <<>>
        PROVE  /\ b[1].id > c.cursor /\ b[1].id + (Len(b) - 1) <= LastId(j)
               /\ \A n \in (c.cursor + 1)..(b[1].id - 1) : n <= j.cut
    <3>1. LastId(j) - from > 0
      BY <1>2, <1>5, <2>2, EmptySeq
    <3>2. b[1].id = from + 1
      BY <1>2, <1>5, <3>1
    <3>3. b[1].id > c.cursor
      BY <1>1, <1>2, <3>2
    <3>4. b[1].id + (Len(b) - 1) <= LastId(j)
      BY <1>2, <1>5, <3>2
    <3>5. \A n \in (c.cursor + 1)..(b[1].id - 1) : n <= j.cut
      BY <1>1, <1>2, <1>5, <3>2
    <3> QED BY <3>3, <3>4, <3>5
  <2> QED BY <1>1, <1>3, <2>1, <2>2 DEF Fetched
<1>7. ASSUME NoRestAhead(j, c) PROVE NoRestAhead(j, d)
  <2>1. ASSUME NEW i \in DOMAIN b PROVE b[i].e \notin Rests
    <3> DEFINE k == from + i - j.cut
    <3>1. b[i].e = j.log[k] /\ k \in DOMAIN j.log
      BY <1>2, <2>1
    <3>2. j.cut + k > c.cursor
      <4>1. i \in Nat /\ i >= 1
        BY <1>2, <1>5, <2>1
      <4>2. from \in Nat /\ from >= c.cursor /\ c.cursor \in Nat /\ j.cut \in Nat
        BY <1>1, <1>2, <1>5
      <4> QED BY ONLY <4>1, <4>2
    <3> HIDE DEF k
    <3> QED BY <1>7, <3>1, <3>2 DEF NoRestAhead
  <2> QED BY <1>3, <1>7, <2>1 DEF NoRestAhead
<1> QED BY <1>1, <1>4, <1>6, <1>7 DEF ClientOK, j

\* The next event reaches the worker: it is the next that was not pruned.
LEMMA DeliverFacts ==
    ASSUME NEW j \in JournalType, NEW c \in ClientType, NEW d,
           Fetched(j, c), c.batch # <<>>,
           d.cursor = Head(c.batch).id, d.batch = Tail(c.batch)
    PROVE  /\ Head(c.batch) \in [id : Nat, e : Events] /\ Head(c.batch) = c.batch[1]
           /\ d.batch \in Seq([id : Nat, e : Events])
           /\ Fetched(j, d)
           /\ NoRestAhead(j, c) => NoRestAhead(j, d) /\ Head(c.batch).e \notin Rests
           /\ d.cursor > c.cursor
           /\ \A n \in (c.cursor + 1)..(d.cursor - 1) : n <= j.cut
<1> DEFINE b == c.batch  S == [id : Nat, e : Events]
<1>1. b \in Seq(S) /\ c.cursor \in Nat /\ LastId(j) \in Nat /\ j.cut \in Nat
  BY RowTypes DEF ClientType
<1>2. Len(b) \in Nat \ {0} /\ DOMAIN b = 1..Len(b) /\ Head(b) = b[1]
  BY <1>1, EmptySeq, LenProperties
<1>3. b[1] \in S /\ b[1].id \in Nat
  <2>1. 1 \in 1..Len(b)
    BY <1>2
  <2>2. b[1] \in S
    BY <1>1, <2>1, ElementOfSeq
  <2> QED BY <2>2
<1>4. /\ Tail(b) \in Seq(S) /\ Len(Tail(b)) = Len(b) - 1
      /\ DOMAIN Tail(b) = 1..(Len(b) - 1)
      /\ \A i \in 1..(Len(b) - 1) : Tail(b)[i] = b[i + 1]
  <2>1. /\ Tail(b) \in Seq(S) /\ Len(Tail(b)) = Len(b) - 1
        /\ \A i \in 1..Len(Tail(b)) : Tail(b)[i] = b[i + 1]
    BY <1>1, HeadTailProperties
  <2> QED BY <2>1, LenProperties
<1>5. /\ \A i \in 1..Len(b) : b[i].id = b[1].id + (i - 1)
      /\ b[1].id > c.cursor /\ b[1].id + (Len(b) - 1) <= LastId(j)
      /\ \A n \in (c.cursor + 1)..(b[1].id - 1) : n <= j.cut
      /\ j.mode # "none"
  BY <1>2 DEF Fetched
<1> DEFINE l == Tail(b)
<1>6. l = d.batch /\ d.cursor = b[1].id
  BY <1>2
<1> HIDE DEF l
<1>7. \A i \in 1..(Len(b) - 1) : l[i] = b[i + 1] /\ l[i].id = b[1].id + i
  <2>1. ASSUME NEW i \in 1..(Len(b) - 1) PROVE l[i] = b[i + 1] /\ l[i].id = b[1].id + i
    <3>1. i + 1 \in 1..Len(b) /\ (i + 1) - 1 = i
      BY <1>2
    <3>2. l[i] = b[i + 1]
      BY <1>4 DEF l
    <3> QED BY <1>5, <3>1, <3>2
  <2> QED BY <2>1
<1>8. Fetched(j, d)
  <2>1. d.cursor <= LastId(j)
    BY <1>1, <1>2, <1>3, <1>5, <1>6
  <2>2. ASSUME NEW i \in DOMAIN l PROVE l[i].id = l[1].id + (i - 1)
    <3>1. i \in 1..(Len(b) - 1) /\ 1 \in 1..(Len(b) - 1)
      BY <1>2, <1>4, <2>2 DEF l
    <3>2. l[i].id = b[1].id + i /\ l[1].id = b[1].id + 1
      BY <1>7, <3>1
    <3> QED BY <1>3, <3>1, <3>2
  <2>3. ASSUME l # <<>>
        PROVE  /\ l[1].id > d.cursor /\ l[1].id + (Len(l) - 1) <= LastId(j)
               /\ \A n \in (d.cursor + 1)..(l[1].id - 1) : n <= j.cut
    <3>1. Len(l) = Len(b) - 1
      BY <1>4 DEF l
    <3>8. Len(b) \in Nat
      BY <1>2
    <3>10. Len(l) \in Nat \ {0}
      BY <1>4, <2>3, EmptySeq DEF l
    <3>11. \A m, n \in Nat : m = n - 1 /\ m # 0 => n - 1 >= 1
      OBVIOUS
    <3>12. Len(l) \in Nat /\ Len(l) # 0
      BY <3>10
    <3>9. Len(b) - 1 >= 1
      BY <3>1, <3>8, <3>11, <3>12
    <3>2. 1 \in 1..(Len(b) - 1)
      BY <3>8, <3>9
    <3>3. l[1].id = b[1].id + 1
      BY <1>7, <3>2
    <3>7. b[1].id \in Nat /\ d.cursor = b[1].id /\ Len(b) \in Nat /\ LastId(j) \in Nat
          /\ b[1].id + (Len(b) - 1) <= LastId(j) /\ Len(l) = Len(b) - 1
      BY <1>1, <1>2, <1>3, <1>5, <1>6, <3>1
    <3>4. l[1].id > d.cursor
      BY <3>3, <3>7
    <3>5. l[1].id + (Len(l) - 1) <= LastId(j)
      BY <3>3, <3>7
    <3>6. \A n \in (d.cursor + 1)..(l[1].id - 1) : n <= j.cut
      BY <3>3, <3>7
    <3> QED BY <3>4, <3>5, <3>6
  <2> QED BY <1>5, <1>6, <2>1, <2>2, <2>3 DEF Fetched
<1>9. ASSUME NoRestAhead(j, c)
      PROVE  NoRestAhead(j, d) /\ Head(b).e \notin Rests
  <2>1. \A i \in 1..Len(b) : b[i].e \notin Rests
    BY <1>2, <1>9 DEF NoRestAhead
  <2>2. \A i \in DOMAIN l : l[i].e \notin Rests
    BY <1>2, <1>4, <1>7, <2>1 DEF l
  <2>3. \A i \in DOMAIN j.log : j.cut + i > d.cursor => j.log[i] \notin Rests
    <3>1. \A i \in DOMAIN j.log : j.cut + i > d.cursor => j.cut + i > c.cursor
      <4>1. DOMAIN j.log \subseteq Nat
        BY RowTypes
      <4>2. /\ d.cursor > c.cursor /\ d.cursor \in Nat /\ c.cursor \in Nat
            /\ j.cut \in Nat
        BY <1>1, <1>3, <1>5, <1>6
      <4> QED BY ONLY <4>1, <4>2
    <3> QED BY <1>9, <3>1 DEF NoRestAhead
  <2>4. 1 \in 1..Len(b)
    BY <1>2
  <2> QED BY <1>2, <1>6, <2>1, <2>2, <2>3, <2>4 DEF NoRestAhead
<1> QED BY <1>2, <1>3, <1>4, <1>5, <1>6, <1>8, <1>9 DEF l

\* Rows that go on, quietly where a task goes on, keep the worker in step.
LEMMA JournalGoesOn ==
    ASSUME NEW J \in [Runs -> JournalType], NEW J2 \in [Runs -> JournalType],
           NEW T, NEW T2, NEW c, ClientOK(J, T, c),
           \A q \in Runs : Extends(J[q], J2[q]),
           \A q \in Runs : Active(T2[q]) => Active(T[q]) /\ Quiet(J[q], J2[q])
    PROVE  ClientOK(J2, T2, c)
<1>1. c \in ClientType /\ c.run \in Runs \cup {"none"}
  BY DEF ClientOK, ClientType
<1>2. CASE c.run = "none"
  BY <1>1, <1>2 DEF ClientOK
<1>3. CASE c.run \in Runs
  <2>1. Fetched(J[c.run], c) /\ J[c.run] \in JournalType /\ J2[c.run] \in JournalType
    BY <1>3, RunsAreNamed DEF ClientOK
  <2>2. Fetched(J2[c.run], c)
    BY <1>1, <1>3, <2>1, FetchedKept
  <2>3. Active(T2[c.run]) => NoRestAhead(J2[c.run], c)
    <3>1. Active(T2[c.run]) => NoRestAhead(J[c.run], c)
      BY <1>3, RunsAreNamed DEF ClientOK
    <3> QED BY <1>1, <1>3, <2>1, <3>1, NoRestAheadKept
  <2> QED BY <1>1, <1>3, <2>2, <2>3, RunsAreNamed DEF ClientOK
<1> QED BY <1>1, <1>2, <1>3

\* A run whose task is gone is as sound as before.
LEMMA GoneSound ==
    ASSUME NEW j, NEW t, Sound(j, t)
    PROVE  Sound(j, Gone(t)) /\ ~Active(Gone(t))
<1>1. Gone(t) \in TaskType /\ ~Active(Gone(t)) /\ Gone(t).pc = "none"
  BY GoneFacts DEF Sound
<1> QED BY <1>1 DEF Sound, Working

\* The gateway goes down: no task is left, the runs that were at work may
\* have been cancelled.
LEMMA StoppedKeeps ==
    ASSUME NEW J, NEW T, NEW c, NEW J2, RunsOK(J, T, TRUE), ClientOK(J, T, c),
           J2 = J \/ J2 = [r \in Runs |-> IF Active(T[r]) /\ ~IsTerminal(J[r])
                                        THEN Log(J[r], "cancelled") ELSE J[r]]
    PROVE  /\ RunsOK(J2, [r \in Runs |-> Gone(T[r])], FALSE)
           /\ ClientOK(J2, [r \in Runs |-> Gone(T[r])], c)
           /\ \A r \in Runs :
                 \/ J2[r] = J[r]
                 \/ J[r].state \notin Terminal \cup {"none"} /\ Moves(J[r], J2[r])
<1> DEFINE T2 == [r \in Runs |-> Gone(T[r])]
<1>1. J \in [Runs -> JournalType] /\ T \in [Runs -> TaskType]
  BY DEF RunsOK
<1>2. \A r \in Runs : J2[r] = J[r] \/ (Active(T[r]) /\ J2[r] = Log(J[r], "cancelled"))
  <2>1. CASE J2 = J
    BY <2>1
  <2>2. CASE J2 # J
    <3>1. J2 = [r \in Runs |-> IF Active(T[r]) /\ ~IsTerminal(J[r])
                              THEN Log(J[r], "cancelled") ELSE J[r]]
      BY <2>2
    <3> QED BY <3>1
  <2> QED BY <2>1, <2>2
<1>3. J2 = [r \in Runs |-> J2[r]]
  BY <1>1
<1>4. \A r \in Runs : T2[r] = Gone(T[r])
  OBVIOUS
<1> HIDE DEF T2
<1>5. ASSUME NEW r \in Runs
      PROVE  /\ Sound(J2[r], T2[r]) /\ ~Active(T2[r]) /\ Extends(J[r], J2[r])
             /\ \/ J2[r] = J[r]
                \/ J[r].state \notin Terminal \cup {"none"} /\ Moves(J[r], J2[r])
  <2>1. Sound(J[r], T[r]) /\ J[r] \in JournalType
    BY <1>1 DEF RunsOK
  <2>2. CASE J2[r] = J[r]
    BY <1>4, <2>1, <2>2, GoneSound, ExtendsSame
  <2>3. CASE Active(T[r]) /\ J2[r] = Log(J[r], "cancelled")
    <3>1. Outcome(J[r], [T[r] EXCEPT !.cancel = TRUE], At(Log(J[r], "cancelled"), Gone(T[r])))
      BY <2>1, <2>3, CancelOutcome
    <3>2. Sound(J2[r], Gone(T[r])) /\ Extends(J[r], J2[r]) /\ Moves(J[r], J2[r])
      BY <2>3, <3>1 DEF Outcome, At
    <3>3. J[r].state \notin Terminal \cup {"none"}
      BY <2>1, <2>3 DEF Sound
    <3> QED BY <1>4, <2>1, <3>2, <3>3, GoneSound
  <2> QED BY <1>2, <2>2, <2>3
<1>6. /\ J2 \in [Runs -> JournalType]
      /\ \A r \in Runs : T2[r] \in TaskType
  BY <1>3, <1>5 DEF Sound
<1>7. T2 \in [Runs -> TaskType]
  BY <1>6 DEF T2
<1>8. RunsOK(J2, T2, FALSE)
  BY <1>5, <1>6, <1>7 DEF RunsOK
<1>9. ClientOK(J2, T2, c)
  BY <1>1, <1>5, <1>6, JournalGoesOn
<1> QED BY <1>5, <1>8, <1>9 DEF T2

\* What a restart makes of a run that nothing works on.
LEMMA RecoveredFacts ==
    ASSUME NEW j, NEW t, Sound(j, t), ~Active(t)
    PROVE  /\ Sound(Recovered(j), t) /\ Extends(j, Recovered(j))
           /\ j.mode # "none" => Rested(Recovered(j))
           /\ \/ Recovered(j) = j
              \/ j.state \notin Terminal \cup {"none"} /\ Moves(j, Recovered(j))
<1>1. j \in JournalType /\ t \in TaskType
  BY DEF Sound
<1>2. CASE j.mode = "none" \/ j.state \in Terminal
  BY <1>1, <1>2, ExtendsSame DEF Recovered, Sound, Rested
<1>3. CASE ~(j.mode = "none" \/ j.state \in Terminal)
  <2> DEFINE e == IF j.mode = "agent" /\ j.safe THEN "gateway.restarted" ELSE "failed"
             l == Log(j, e)
  <2>1. Recovered(j) = l
    BY <1>3 DEF Recovered
  <2>a. e = "failed" \/ (e = "gateway.restarted" /\ j.safe)
    OBVIOUS
  <2>b. /\ "gateway.restarted" \in Pauses /\ "gateway.restarted" \notin Notes
        /\ "failed" \notin Notes
    BY DEF Pauses, Notes
  <2>2. e \in Events /\ e \notin Notes /\ (e = "failed" \/ (e \in Pauses /\ j.safe))
    BY <2>a, <2>b, FailedAndCompleted DEF Events
  <2> HIDE DEF e
  <2>3. /\ l \in JournalType /\ l.mode = j.mode /\ l.safe = j.safe
        /\ l.state = StateAfter(e, j.state) /\ Extends(j, l)
    BY <1>1, <2>2, LogFacts
  <2>4. RowSaysMark(l) /\ (IsTerminal(l) <=> e \in Terminal)
    BY <1>1, <1>3, <2>2, RowFollowsLog DEF Sound
  <2>5. t.pc \notin Working /\ t.pc # "start"
    BY <1>1 DEF Active, Working
  <2> HIDE DEF l
  <2>6. CASE e = "failed"
    <3>1. l.state = "failed" /\ IsTerminal(l)
      BY <1>1, <2>2, <2>3, <2>4, <2>6, StateAfterFacts, RowTypes, FailedAndCompleted
    <3>2. Sound(l, t)
      BY <1>1, <1>3, <2>3, <2>4, <2>5, <3>1, FailedAndCompleted DEF Sound
    <3>3. Moves(j, l)
      BY <3>1, FailedAndCompleted DEF Moves
    <3> QED BY <1>3, <2>1, <2>3, <3>1, <3>2, <3>3 DEF Rested, Sound
  <2>7. CASE e \in Pauses /\ j.safe
    <3>1. e \notin Terminal
      BY <2>7 DEF Terminal, Pauses
    <3>2. l.state = "paused" /\ ~IsTerminal(l)
      BY <1>1, <2>2, <2>3, <2>4, <2>7, <3>1, StateAfterFacts, RowTypes
    <3>3. "paused" \notin Terminal \cup {"none"}
      BY DEF Terminal
    <3>4. Sound(l, t)
      BY <1>1, <1>3, <2>3, <2>4, <2>5, <3>2, <3>3 DEF Sound
    <3>5. Moves(j, l) /\ Rested(l)
      BY <2>3, <2>7, <3>2 DEF Moves, Rested, Resumable
    <3> QED BY <1>3, <2>1, <2>3, <3>4, <3>5 DEF Sound
  <2> QED BY <2>2, <2>6, <2>7
<1> QED BY <1>2, <1>3

\* The gateway is back: every run has ended or can be resumed.
LEMMA BootKeeps ==
    ASSUME NEW J, NEW T, NEW c, RunsOK(J, T, FALSE), ClientOK(J, T, c)
    PROVE  /\ RunsOK([r \in Runs |-> Recovered(J[r])], T, TRUE)
           /\ ClientOK([r \in Runs |-> Recovered(J[r])], T, c)
           /\ \A r \in Runs :
                 \/ Recovered(J[r]) = J[r]
                 \/ /\ J[r].state \notin Terminal \cup {"none"}
                    /\ Moves(J[r], Recovered(J[r]))
<1> DEFINE J2 == [r \in Runs |-> Recovered(J[r])]
<1>1. J \in [Runs -> JournalType] /\ T \in [Runs -> TaskType]
      /\ \A r \in Runs : Sound(J[r], T[r]) /\ ~Active(T[r])
  BY DEF RunsOK
<1>2. \A r \in Runs :
        /\ Sound(Recovered(J[r]), T[r]) /\ Extends(J[r], Recovered(J[r]))
        /\ J[r].mode # "none" => Rested(Recovered(J[r]))
        /\ \/ Recovered(J[r]) = J[r]
           \/ J[r].state \notin Terminal \cup {"none"} /\ Moves(J[r], Recovered(J[r]))
  BY <1>1, RecoveredFacts
<1>3. J2 \in [Runs -> JournalType] /\ \A r \in Runs : J2[r] = Recovered(J[r])
  BY <1>2 DEF Sound
<1> HIDE DEF J2
<1>4. \A r \in Runs : J2[r].mode = J[r].mode
  BY <1>2, <1>3 DEF Extends
<1>5. RunsOK(J2, T, TRUE)
  BY <1>1, <1>2, <1>3, <1>4 DEF RunsOK
<1>6. ClientOK(J2, T, c)
  BY <1>1, <1>2, <1>3, JournalGoesOn
<1> QED BY <1>2, <1>5, <1>6 DEF J2

\* A new task is sound.
LEMMA NewTaskFacts ==
    ASSUME NEW g \in Nat, NEW j \in JournalType, NEW resumed \in BOOLEAN,
           NEW fresh \in BOOLEAN
    PROVE  /\ NewTask(g, j, resumed, fresh) \in TaskType
           /\ NewTask(g, j, resumed, fresh).pc = "start"
           /\ NewTask(g, j, resumed, fresh).fresh = fresh
BY DEF NewTask, NoTask, TaskType, JournalType, Points, Pauses

\* A run that is resumed is followed from its newest event.
LEMMA ResumeKeeps ==
    ASSUME NEW J, NEW T, NEW c, NEW r \in Runs, NEW new \in BOOLEAN, NEW d,
           RunsOK(J, T, TRUE), ClientOK(J, T, c), Resumable(J[r]),
           d \in ClientType, d.run = r, d.cursor = LastId(J[r]), d.batch = <<>>
    PROVE  LET T2 == [T EXCEPT ![r] = NewTask(T[r].gen + 1, J[r], TRUE, new)]
           IN  RunsOK(J, T2, TRUE) /\ ClientOK(J, T2, d)
<1> DEFINE n == NewTask(T[r].gen + 1, J[r], TRUE, new)  T2 == [T EXCEPT ![r] = n]
<1>1. /\ J \in [Runs -> JournalType] /\ T \in [Runs -> TaskType]
      /\ J[r] \in JournalType /\ T[r].gen + 1 \in Nat
  BY DEF RunsOK, TaskType
<1>2. n \in TaskType /\ n.pc = "start"
  BY <1>1, NewTaskFacts
<1> HIDE DEF n
<1>3. T2 \in [Runs -> TaskType] /\ T2[r] = n /\ \A q \in Runs \ {r} : T2[q] = T[q]
  BY <1>1, <1>2
<1> HIDE DEF T2
<1>4. J[r].state = "paused" /\ J[r].mode # "none"
  <2>1. Sound(J[r], T[r])
    BY DEF RunsOK
  <2> QED BY <2>1 DEF Sound, Resumable
<1>5. "paused" \notin Terminal /\ Active(n) /\ n.pc \notin Working
  BY <1>2 DEF Terminal, Active, Working
<1>6. Sound(J[r], n)
  <2>1. Sound(J[r], T[r])
    BY DEF RunsOK
  <2> QED BY <1>2, <1>4, <1>5, <2>1 DEF Sound
<1>7. RunsOK(J, T2, TRUE)
  <2>1. \A q \in Runs : Sound(J[q], T2[q])
    BY <1>3, <1>6 DEF RunsOK
  <2>2. \A q \in Runs : J[q].mode # "none" /\ ~Active(T2[q]) => Rested(J[q])
    BY <1>3, <1>5 DEF RunsOK
  <2> QED BY <1>1, <1>3, <2>1, <2>2 DEF RunsOK
<1>8. Fetched(J[r], d)
  <2>1. LastId(J[r]) \in Nat /\ DOMAIN <<>> = {}
    BY <1>1, RowTypes
  <2> QED BY <1>4, <2>1 DEF Fetched
<1>9. NoRestAhead(J[r], d)
  <2>1. \A i \in DOMAIN J[r].log : ~(J[r].cut + i > LastId(J[r]))
    <3>1. /\ J[r].cut \in Nat /\ Len(J[r].log) \in Nat
          /\ LastId(J[r]) = J[r].cut + Len(J[r].log)
          /\ DOMAIN J[r].log = 1..Len(J[r].log)
      BY <1>1, RowTypes
    <3> QED BY <3>1
  <2>2. DOMAIN <<>> = {}
    OBVIOUS
  <2> QED BY <2>1, <2>2 DEF NoRestAhead
<1> QED BY <1>7, <1>8, <1>9, RunsAreNamed DEF ClientOK, n, T2

\* A run that is created is followed from its start.
LEMMA StartKeeps ==
    ASSUME NEW J, NEW T, NEW c, NEW r \in Runs, NEW mode \in {"chat", "agent"}, NEW d,
           RunsOK(J, T, TRUE), ClientOK(J, T, c), J[r].mode = "none",
           d \in ClientType, d.run = r, d.cursor = 0, d.batch = <<>>
    PROVE  LET J2 == [J EXCEPT ![r] = Created(mode)]
               T2 == [T EXCEPT ![r] = NewTask(1, NoRun, FALSE, TRUE)]
           IN  RunsOK(J2, T2, TRUE) /\ ClientOK(J2, T2, d) /\ J2[r].state = "created"
<1> DEFINE n == NewTask(1, NoRun, FALSE, TRUE)
           b == [NoRun EXCEPT !.mode = mode, !.state = "created", !.safe = (mode = "agent")]
           l == Log(b, "created")
           J2 == [J EXCEPT ![r] = l]  T2 == [T EXCEPT ![r] = n]
<1>1. J \in [Runs -> JournalType] /\ T \in [Runs -> TaskType]
  BY DEF RunsOK
<1>2. NoRun \in JournalType /\ b \in JournalType /\ b.log = <<>> /\ b.cut = 0
      /\ b.mode = mode /\ b.state = "created"
  <2>1. <<>> \in Seq(Events)
    BY EmptySeq
  <2>2. NoRun \in JournalType
    BY <2>1 DEF NoRun, JournalType, States
  <2>3. NoRun.log = <<>> /\ NoRun.cut = 0
    BY DEF NoRun
  <2>4. (mode = "agent") \in BOOLEAN /\ "created" \in States
    BY DEF States
  <2>5. /\ b \in JournalType /\ b.log = NoRun.log /\ b.cut = NoRun.cut
        /\ b.mode = mode /\ b.state = "created"
    BY <2>2, <2>4 DEF JournalType
  <2> QED BY <2>2, <2>3, <2>5
<1>3. Created(mode) = l
  BY DEF Created
<1> HIDE DEF b
<1>4. n \in TaskType /\ n.pc = "start" /\ n.fresh = TRUE
  BY <1>2, NewTaskFacts
<1>5. "created" \in Events /\ "created" \in Notes /\ "created" \notin Rests
      /\ "created" \notin Terminal
  BY DEF Events, Notes, Rests, Terminal, Pauses
<1>6. /\ l \in JournalType /\ l.mode = mode /\ l.state = "created"
      /\ Quiet(b, l) /\ LastId(l) \in Nat
  <2>1. /\ l \in JournalType /\ l.mode = b.mode /\ l.state = StateAfter("created", b.state)
        /\ Quiet(b, l)
    BY ONLY <1>2, <1>5, LogFacts
  <2>2. b.state \in States
    BY ONLY <1>2, RowTypes
  <2>3. StateAfter("created", b.state) = b.state
    BY ONLY <1>5, <2>2, StateAfterFacts
  <2>4. LastId(l) \in Nat
    BY ONLY <2>1, RowTypes
  <2> QED BY <1>2, <2>1, <2>3, <2>4
<1>7. RowSaysMark(l) /\ ~IsTerminal(l)
  <2>1. RowSaysMark(b) /\ ~IsTerminal(b)
    BY <1>2 DEF RowSaysMark, IsTerminal
  <2> QED BY <1>2, <1>5, <2>1, RowFollowsLog
<1> HIDE DEF n, l
<1>8. /\ T2 \in [Runs -> TaskType] /\ T2[r] = n /\ \A q \in Runs \ {r} : T2[q] = T[q]
      /\ J2 \in [Runs -> JournalType] /\ J2[r] = l /\ \A q \in Runs \ {r} : J2[q] = J[q]
  BY <1>1, <1>4, <1>6
<1> HIDE DEF J2, T2
<1>9. Active(n) /\ n.pc \notin Working
  BY <1>4 DEF Active, Working
<1>10. Sound(l, n)
  BY <1>4, <1>5, <1>6, <1>7, <1>9 DEF Sound
<1>11. RunsOK(J2, T2, TRUE)
  BY <1>8, <1>9, <1>10 DEF RunsOK
<1>12. Fetched(l, d)
  <2>1. DOMAIN <<>> = {}
    OBVIOUS
  <2> QED BY <1>6, <2>1 DEF Fetched
<1>13. NoRestAhead(l, d)
  <2>1. LastId(b) = 0 /\ DOMAIN <<>> = {}
    BY <1>2 DEF LastId
  <2> QED BY <1>6, <2>1 DEF NoRestAhead, Quiet
<1> QED BY <1>3, <1>6, <1>8, <1>11, <1>12, <1>13, RunsAreNamed DEF ClientOK, n, T2, J2

-----------------------------------------------------------------------------
(* The steps of the specification.                                         *)

\* What a step does to the row of a run.
RowStep(q) ==
    \/ journal'[q] = journal[q]
    \/ journal[q].mode = "none" /\ journal'[q].state = "created"
    \/ /\ journal[q].state \notin Terminal \cup {"none"}
       /\ Moves(journal[q], journal'[q])
       /\ up' /\ Active(task[q]) /\ journal'[q].state = "cancelled"
          => task[q].cancel \/ <<q, task[q].gen>> \in cancels

\* The invariant after a step, and what the step does to the rows.
Kept ==
    /\ RunsOK(journal', task', up') /\ ClientOK(journal', task', client')
    /\ \A q \in Runs : RowStep(q)

\* A step of one run whose task is at work.
LEMMA OneRunStep ==
    ASSUME NEW r \in Runs, NEW t0, NEW x, GatewayInv, up = TRUE,
           Active(task[r]), Outcome(journal[r], t0, x),
           t0.cancel => task[r].cancel \/ <<r, task[r].gen>> \in cancels,
           journal' = [journal EXCEPT ![r] = x.j], task' = [task EXCEPT ![r] = x.t],
           up' = up, client' = client
    PROVE  Kept
<1>1. RunsOK(journal, task, TRUE) /\ ClientOK(journal, task, client)
  BY DEF GatewayInv
<1>2. RunsOK(journal', task', up') /\ ClientOK(journal', task', client')
  BY <1>1, OneRunKeeps
<1>3. journal \in [Runs -> JournalType] /\ Sound(journal[r], task[r])
  BY <1>1 DEF RunsOK
<1>4. journal[r].state \notin Terminal \cup {"none"}
  BY <1>3 DEF Sound
<1>5. /\ journal'[r] = x.j
      /\ \A q \in Runs \ {r} : journal'[q] = journal[q]
  BY <1>3
<1>6. RowStep(r)
  BY <1>4, <1>5 DEF RowStep, Outcome
<1>7. \A q \in Runs \ {r} : RowStep(q)
  BY <1>5 DEF RowStep
<1> QED BY <1>2, <1>6, <1>7 DEF Kept

\* A step that changes no row, but requests something of a task or nothing.
LEMMA ClientStep ==
    ASSUME journal' = journal, task' = task, up' = up, GatewayInv,
           ClientOK(journal, task, client')
    PROVE  Kept
BY DEF Kept, GatewayInv, RowStep

\* The task of a run goes on, reads a decision or gives up waiting for one.
LEMMA WorkKeeps ==
    ASSUME NEW r \in Runs, GatewayInv, TaskStep(r) \/ Decided(r) \/ Expire(r)
    PROVE  Kept
<1>1. up = TRUE /\ up' = up /\ client' = client
  BY DEF TaskStep, Decided, Expire, GatewayInv, TypeOK
<1>2. Sound(journal[r], task[r]) /\ journal \in [Runs -> JournalType]
      /\ task \in [Runs -> TaskType]
  BY DEF GatewayInv, RunsOK
<1>3. \E x : /\ Active(task[r]) /\ Outcome(journal[r], task[r], x)
             /\ journal' = [journal EXCEPT ![r] = x.j]
             /\ task' = [task EXCEPT ![r] = x.t]
  <2>1. CASE TaskStep(r)
    BY <1>2, <2>1, StepOutcome DEF TaskStep
  <2>2. CASE Decided(r)
    <3>1. PICK x \in Decision(journal[r], [task[r] EXCEPT !.answer = "none"],
                              task[r].answer) :
             /\ journal' = [journal EXCEPT ![r] = x.j]
             /\ task' = [task EXCEPT ![r] = x.t]
      BY <2>2 DEF Decided
    <3>2. task[r].pc \in {"approve", "ask"} /\ Active(task[r])
      BY <2>2 DEF Decided, Asking, Active
    <3>3. Outcome(journal[r], task[r], x)
      BY <1>2, <3>2, AnswerOutcome
    <3> QED BY <3>1, <3>2, <3>3
  <2>3. CASE Expire(r)
    <3> DEFINE x == At(Log(Log(journal[r], "approval"), "failed"), Gone(task[r]))
    <3>1. task[r].pc \in {"approve", "ask"} /\ Active(task[r])
      BY <2>3 DEF Expire, Asking, Active
    <3>2. Outcome(journal[r], task[r], x)
      BY <1>2, <3>1, ExpireOutcome
    <3>3. /\ journal' = [journal EXCEPT ![r] = x.j]
          /\ task' = [task EXCEPT ![r] = x.t]
      BY <1>2, <2>3 DEF Expire, At
    <3> QED BY <3>1, <3>2, <3>3
  <2> QED BY <2>1, <2>2, <2>3
<1> QED BY <1>1, <1>3, OneRunStep

\* A cancel that reaches its task.
LEMMA CancelTaskKeeps ==
    ASSUME NEW r \in Runs, NEW g, GatewayInv, CancelTask(r, g)
    PROVE  Kept
<1>1. up = TRUE /\ up' = up /\ client' = client /\ <<r, g>> \in cancels
  BY DEF CancelTask, GatewayInv, TypeOK
<1>2. Sound(journal[r], task[r]) /\ journal \in [Runs -> JournalType]
      /\ task \in [Runs -> TaskType]
  BY DEF GatewayInv, RunsOK
<1>3. CASE Running(r) /\ task[r].gen = g
  <2> DEFINE x == At(Log(journal[r], "cancelled"), Gone(task[r]))
             t0 == [task[r] EXCEPT !.cancel = TRUE]
  <2>1. Active(task[r])
    BY <1>3 DEF Running, Active
  <2>2. ~IsTerminal(journal[r]) /\ Outcome(journal[r], t0, x)
    BY <1>2, <2>1, CancelOutcome
  <2>3. /\ journal' = [journal EXCEPT ![r] = x.j]
        /\ task' = [task EXCEPT ![r] = x.t]
    BY <1>2, <1>3, <2>2 DEF CancelTask, At
  <2> HIDE DEF x, t0
  <2> QED BY <1>1, <1>3, <2>1, <2>2, <2>3, OneRunStep
<1>4. CASE ~(Running(r) /\ task[r].gen = g)
  <2>1. journal' = journal /\ task' = task
    BY <1>4 DEF CancelTask
  <2>2. ClientOK(journal, task, client')
    BY <1>1 DEF GatewayInv
  <2> QED BY <1>1, <2>1, <2>2, ClientStep
<1> QED BY <1>3, <1>4

\* A request that a task looks at later.
LEMMA RequestStep ==
    ASSUME NEW r \in Runs, NEW t \in TaskType, GatewayInv,
           t.pc = task[r].pc, t.fresh = task[r].fresh,
           journal' = journal, up' = up, task' = [task EXCEPT ![r] = t],
           ClientOK(journal, task, client')
    PROVE  Kept
<1>1. RunsOK(journal, task, up)
  BY DEF GatewayInv
<1>2. RunsOK(journal', task', up') /\ ClientOK(journal', task', client')
  BY <1>1, RequestKeeps
<1> QED BY <1>2 DEF Kept, RowStep

\* Stop, pause and the answer to an approval reach the gateway.
LEMMA RequestsKeep ==
    ASSUME NEW r \in Runs, NEW a \in {"allow", "deny"}, GatewayInv,
           Pause(r) \/ Resolve(r, a) \/ CancelArrives(r)
    PROVE  Kept
<1>1. /\ task \in [Runs -> TaskType] /\ task[r] \in TaskType
      /\ ClientOK(journal, task, client) /\ client \in ClientType
  BY DEF GatewayInv, RunsOK, ClientOK
<1>2. CASE Pause(r)
  <2> DEFINE t == [task[r] EXCEPT !.pause = TRUE]
  <2>1. t \in TaskType /\ t.pc = task[r].pc /\ t.fresh = task[r].fresh
    BY <1>1 DEF TaskType
  <2>2. journal' = journal /\ up' = up /\ task' = [task EXCEPT ![r] = t] /\ client' = client
    BY <1>1, <1>2 DEF Pause
  <2> HIDE DEF t
  <2> QED BY <1>1, <2>1, <2>2, RequestStep
<1>3. CASE Resolve(r, a)
  <2> DEFINE t == [task[r] EXCEPT !.answer = a]
  <2>1. t \in TaskType /\ t.pc = task[r].pc /\ t.fresh = task[r].fresh
    BY <1>1 DEF TaskType
  <2>2. journal' = journal /\ up' = up /\ task' = [task EXCEPT ![r] = t] /\ client' = client
    BY <1>1, <1>3 DEF Resolve
  <2> HIDE DEF t
  <2> QED BY <1>1, <2>1, <2>2, RequestStep
<1>4. CASE CancelArrives(r)
  <2>1. client' = [client EXCEPT !.cancelling = @ \ {r}]
    BY <1>4 DEF CancelArrives
  <2>2. /\ client' \in ClientType /\ client'.run = client.run
        /\ client'.cursor = client.cursor /\ client'.saw = client.saw
        /\ client'.last = client.last /\ client'.batch = client.batch
        /\ client'.conn = client.conn
    BY <1>1, <2>1 DEF ClientType
  <2>3. client.run = "none" => client.conn = "none"
    BY <1>1 DEF ClientOK
  <2>4. ClientOK(journal, task, client')
    BY <1>1, <2>2, <2>3, ClientKeeps
  <2>5. journal' = journal /\ up' = up
    BY <1>4 DEF CancelArrives
  <2>6. CASE Running(r)
    <3> DEFINE t == [task[r] EXCEPT !.cancel = TRUE]
    <3>1. t \in TaskType /\ t.pc = task[r].pc /\ t.fresh = task[r].fresh
      BY <1>1 DEF TaskType
    <3>2. task' = [task EXCEPT ![r] = t]
      BY <1>1, <1>4, <2>6 DEF CancelArrives
    <3> HIDE DEF t
    <3> QED BY <2>4, <2>5, <3>1, <3>2, RequestStep
  <2>7. CASE ~Running(r)
    <3>1. task' = task
      BY <1>4, <2>7 DEF CancelArrives
    <3> QED BY <2>4, <2>5, <3>1, ClientStep
  <2> QED BY <2>6, <2>7
<1> QED BY <1>2, <1>3, <1>4

\* A run is taken up again, and followed from its newest event.
LEMMA ResumeStep ==
    ASSUME NEW r \in Runs, NEW new \in BOOLEAN, GatewayInv, Resume(r, new)
    PROVE  Kept
<1>1. /\ RunsOK(journal, task, TRUE) /\ ClientOK(journal, task, client)
      /\ client \in ClientType /\ journal[r] \in JournalType
      /\ up = TRUE /\ up' = up /\ journal' = journal
  BY DEF GatewayInv, TypeOK, Resume, CanResume
<1>2. /\ Resumable(journal[r])
      /\ task' = [task EXCEPT ![r] = NewTask(task[r].gen + 1, journal[r], TRUE, new)]
      /\ client' = Follow(r, LastId(journal[r]))
  BY DEF Resume, CanResume, GatewayInv, TypeOK
<1>3. /\ client' \in ClientType /\ client'.run = r
      /\ client'.cursor = LastId(journal[r]) /\ client'.batch = <<>>
  <2>1. LastId(journal[r]) \in Nat /\ <<>> \in Seq([id : Nat, e : Events])
    BY <1>1, RowTypes, EmptySeq
  <2> QED BY <1>1, <1>2, <2>1 DEF Follow, ClientType
<1>4. RunsOK(journal', task', up') /\ ClientOK(journal', task', client')
  BY <1>1, <1>2, <1>3, ResumeKeeps
<1> QED BY <1>1, <1>4 DEF Kept, RowStep

\* A run is created, and followed from its start.
LEMMA StartStep ==
    ASSUME NEW r \in Runs, NEW mode \in {"chat", "agent"}, GatewayInv, StartRun(r, mode)
    PROVE  Kept
<1>1. /\ RunsOK(journal, task, TRUE) /\ ClientOK(journal, task, client)
      /\ client \in ClientType /\ journal \in [Runs -> JournalType]
      /\ up = TRUE /\ up' = up /\ journal[r].mode = "none"
  BY DEF GatewayInv, TypeOK, StartRun
<1>2. /\ journal' = [journal EXCEPT ![r] = Created(mode)]
      /\ task' = [task EXCEPT ![r] = NewTask(1, NoRun, FALSE, TRUE)]
      /\ client' = Follow(r, 0)
  BY DEF StartRun
<1>3. /\ client' \in ClientType /\ client'.run = r
      /\ client'.cursor = 0 /\ client'.batch = <<>>
  <2>1. <<>> \in Seq([id : Nat, e : Events])
    BY EmptySeq
  <2> QED BY <1>1, <1>2, <2>1 DEF Follow, ClientType
<1>4. /\ RunsOK(journal', task', up') /\ ClientOK(journal', task', client')
      /\ journal'[r].state = "created"
  BY <1>1, <1>2, <1>3, StartKeeps
<1>5. \A q \in Runs \ {r} : journal'[q] = journal[q]
  BY <1>1, <1>2
<1> QED BY <1>1, <1>4, <1>5 DEF Kept, RowStep

\* The gateway goes down, orderly or not.
LEMMA StopStep ==
    ASSUME GatewayInv, Crash \/ Close
    PROVE  Kept
<1>1. /\ RunsOK(journal, task, TRUE) /\ ClientOK(journal, task, client)
      /\ client \in ClientType /\ journal \in [Runs -> JournalType]
      /\ up' = FALSE /\ client' = Dropped /\ task' = [r \in Runs |-> Gone(task[r])]
  BY DEF GatewayInv, TypeOK, Crash, Close, Stopped
<1>2. journal' = journal \/ journal' = [r \in Runs |->
                                          IF Active(task[r]) /\ ~IsTerminal(journal[r])
                                          THEN Log(journal[r], "cancelled")
                                          ELSE journal[r]]
  BY DEF Crash, Close, Running, Active
<1>3. /\ RunsOK(journal', task', FALSE) /\ ClientOK(journal', task', client)
      /\ \A r \in Runs :
            \/ journal'[r] = journal[r]
            \/ /\ journal[r].state \notin Terminal \cup {"none"}
               /\ Moves(journal[r], journal'[r])
  BY <1>1, <1>2, StoppedKeeps
<1>4. /\ client' \in ClientType /\ client'.run = client.run
      /\ client'.cursor = client.cursor /\ client'.saw = client.saw
      /\ client'.last = client.last /\ client'.batch = <<>>
      /\ client.run = "none" => client'.conn = "none"
  <2>1. <<>> \in Seq([id : Nat, e : Events])
    BY EmptySeq
  <2> QED BY <1>1, <2>1 DEF Dropped, Idle, ClientType
<1>5. ClientOK(journal', task', client')
  BY <1>3, <1>4, ClientKeeps
<1> QED BY <1>1, <1>3, <1>5 DEF Kept, RowStep

\* The gateway comes back.
LEMMA BootStep ==
    ASSUME GatewayInv, Boot
    PROVE  Kept
<1>1. /\ RunsOK(journal, task, FALSE) /\ ClientOK(journal, task, client)
      /\ up' = TRUE /\ client' = client /\ task' = task
      /\ journal' = [r \in Runs |-> Recovered(journal[r])]
      /\ \A r \in Runs : ~Active(task[r])
  BY DEF GatewayInv, TypeOK, Boot, RunsOK
<1>2. /\ RunsOK(journal', task', TRUE) /\ ClientOK(journal', task', client)
      /\ \A r \in Runs :
            \/ Recovered(journal[r]) = journal[r]
            \/ /\ journal[r].state \notin Terminal \cup {"none"}
               /\ Moves(journal[r], Recovered(journal[r]))
  BY <1>1, BootKeeps
<1>3. \A r \in Runs : journal'[r] = Recovered(journal[r])
  BY <1>1
<1> QED BY <1>1, <1>2, <1>3 DEF Kept, RowStep

\* A worker that is done follows nothing.
LEMMA DoneKeeps ==
    ASSUME NEW J, NEW T, NEW c \in ClientType, NEW saw \in Rests \cup {"none"},
           saw # "none" => c.run \in Runs /\ ~Active(T[c.run])
    PROVE  ClientOK(J, T, Done(c, saw))
<1> DEFINE d == Done(c, saw)
<1>1. <<>> \in Seq([id : Nat, e : Events])
  BY EmptySeq
<1>2. d \in ClientType /\ d.run = "none" /\ d.conn = "none" /\ d.saw = saw /\ d.last = c.run
  BY <1>1 DEF Done, NoClient, ClientType
<1> HIDE DEF d
<1> QED BY <1>2 DEF ClientOK, d

\* The worker's connection is answered, sends more, or brings an event.
LEMMA StreamStep ==
    ASSUME GatewayInv, Connect \/ Refill \/ Deliver
    PROVE  Kept
<1>1. /\ RunsOK(journal, task, up) /\ ClientOK(journal, task, client)
      /\ client \in ClientType /\ journal \in [Runs -> JournalType]
  BY DEF GatewayInv, RunsOK, ClientOK
<1>2. journal' = journal /\ task' = task /\ up' = up
  BY DEF Connect, Refill, Deliver
<1>3. client.run # "none" /\ client.run \in Runs
  BY <1>1 DEF Connect, Refill, Deliver, Idle, ClientOK, ClientType
<1> DEFINE j == journal[client.run]
<1>4. CASE Connect
  <2>1. client' = [client EXCEPT !.conn = "open",
                       !.batch = After(j, client.cursor),
                       !.sent = @ /\ Mode = "agent"]
    BY <1>4 DEF Connect
  <2>2. ClientOK(journal, task, client')
    <3> DEFINE k == client.sent /\ Mode = "agent"
               b == After(j, client.cursor)
    <3>1. k \in BOOLEAN /\ b \in {After(j, client.cursor)}
      OBVIOUS
    <3>2. client' = [client EXCEPT !.conn = "open", !.batch = b, !.sent = k]
      BY <2>1
    <3> HIDE DEF k
    <3>3. /\ client' \in
                [run : Runs \cup {"none"}, cursor : Nat,
                 conn : {"none", "fresh", "open", "lost"},
                 batch : {After(j, client.cursor)}, tries : Nat, stop : BOOLEAN,
                 sent : BOOLEAN, saw : Rests \cup {"none"},
                 last : Runs \cup {"none"}, cancelling : SUBSET Runs]
          /\ client'.run = client.run /\ client'.cursor = client.cursor
      BY <1>1, <3>1, <3>2 DEF ClientType
    <3> QED BY <1>1, <1>3, <3>3, FetchKeeps
  <2> QED BY <1>2, <2>2, ClientStep
<1>5. CASE Refill
  <2>1. CASE IsTerminal(j) /\ Mode = "chat"
    <3>1. client' = Done(client, "none")
      BY <1>5, <2>1 DEF Refill
    <3> QED BY <1>1, <1>2, <3>1, DoneKeeps, ClientStep
  <2>2. CASE IsTerminal(j) /\ Mode # "chat"
    <3>1. client' = [client EXCEPT !.conn = "fresh"]
      BY <1>5, <2>2 DEF Refill
    <3>2. /\ client' \in ClientType /\ client'.run = client.run
          /\ client'.cursor = client.cursor /\ client'.saw = client.saw
          /\ client'.last = client.last /\ client'.batch = client.batch
      BY <1>1, <3>1 DEF ClientType
    <3> QED BY <1>1, <1>2, <1>3, <3>2, ClientKeeps, ClientStep
  <2>3. CASE ~IsTerminal(j)
    <3>1. client' = [client EXCEPT !.batch = After(j, client.cursor)]
      BY <1>5, <2>3 DEF Refill
    <3>2. ClientOK(journal, task, client')
      BY <1>1, <1>3, <3>1, FetchKeeps DEF ClientType
    <3> QED BY <1>2, <3>2, ClientStep
  <2> QED BY <2>1, <2>2, <2>3
<1>6. CASE Deliver
  <2> DEFINE e == Head(client.batch)
             stopped == client.stop /\ ~client.sent /\ Mode = "chat"
             d == [client EXCEPT !.cursor = e.id, !.batch = Tail(@),
                      !.sent = @ \/ stopped,
                      !.cancelling = IF stopped THEN @ \cup {client.run} ELSE @]
  <2>1. client.batch # <<>> /\ client' = IF e.e \in Rests THEN Done(d, e.e) ELSE d
    BY <1>6 DEF Deliver
  <2>2. /\ d.cursor = e.id /\ d.batch = Tail(client.batch) /\ d.run = client.run
        /\ d.saw = client.saw /\ d.last = client.last /\ d.conn = client.conn
    BY <1>1 DEF ClientType
  <2>3. Fetched(j, client) /\ j \in JournalType
    BY <1>1, <1>3 DEF ClientOK
  <2>4. /\ e \in [id : Nat, e : Events] /\ d.batch \in Seq([id : Nat, e : Events])
        /\ Fetched(j, d)
        /\ NoRestAhead(j, client) => NoRestAhead(j, d) /\ e.e \notin Rests
    <3> HIDE DEF d
    <3> QED BY <1>1, <2>1, <2>2, <2>3, DeliverFacts
  <2>5. d \in ClientType
    <3>1. (client.sent \/ stopped) \in BOOLEAN
      OBVIOUS
    <3>2. (IF stopped THEN client.cancelling \cup {client.run} ELSE client.cancelling)
          \in SUBSET Runs
      BY <1>1, <1>3 DEF ClientType
    <3>3. e.id \in Nat /\ Tail(client.batch) \in Seq([id : Nat, e : Events])
      BY <2>2, <2>4
    <3> HIDE DEF stopped, e
    <3> QED BY <1>1, <3>1, <3>2, <3>3 DEF ClientType
  <2>6. Active(task[client.run]) => NoRestAhead(j, client)
    BY <1>1, <1>3 DEF ClientOK
  <2> HIDE DEF d, e
  <2>7. CASE e.e \in Rests
    <3>1. ~Active(task[client.run])
      BY <2>4, <2>6, <2>7
    <3>2. ClientOK(journal, task, Done(d, e.e))
      BY <1>3, <2>2, <2>5, <2>7, <3>1, DoneKeeps
    <3> QED BY <1>2, <2>1, <2>7, <3>2, ClientStep
  <2>8. CASE e.e \notin Rests
    <3>1. ClientOK(journal, task, d)
      BY <1>3, <2>2, <2>4, <2>5, <2>6 DEF ClientOK
    <3> QED BY <1>2, <2>1, <2>8, <3>1, ClientStep
  <2> QED BY <2>7, <2>8
<1> QED BY <1>4, <1>5, <1>6

\* The worker's connection drops, is refused or tried again; a stop is sent
\* or lost; the key comes and goes.
LEMMA ConnectionStep ==
    ASSUME GatewayInv,
           \/ Drop \/ Reconnect \/ Refused \/ Stop \/ SetKey
           \/ \E r \in Runs : CancelLost(r)
    PROVE  Kept
<1>1. /\ RunsOK(journal, task, up) /\ ClientOK(journal, task, client)
      /\ client \in ClientType
  BY DEF GatewayInv, ClientOK
<1>2. journal' = journal /\ task' = task /\ up' = up
  BY DEF Drop, Reconnect, Refused, Stop, SetKey, CancelLost
<1>3. client.run = "none" => client.conn = "none"
  BY <1>1 DEF ClientOK
<1>4. <<>> \in Seq([id : Nat, e : Events])
  BY EmptySeq
<1> DEFINE Same(d) ==
              /\ d \in ClientType /\ d.run = client.run /\ d.cursor = client.cursor
              /\ d.saw = client.saw /\ d.last = client.last
              /\ d.batch = client.batch \/ d.batch = <<>>
              /\ client.run = "none" => d.conn = "none"
<1>5. Same(client') => Kept
  BY <1>1, <1>2, ClientKeeps, ClientStep
<1>6. CASE Drop \/ Refused
  <2>1. client' = Dropped
    BY <1>6 DEF Drop, Refused
  <2>2. Same(Dropped)
    BY <1>1, <1>4 DEF Dropped, Idle, ClientType
  <2> QED BY <1>5, <2>1, <2>2
<1>7. CASE Reconnect
  <2>1. CASE client' = Done(client, "none")
    BY <1>1, <1>2, <2>1, DoneKeeps, ClientStep
  <2>2. CASE client' = [client EXCEPT !.conn = "fresh",
                           !.tries = IF Mode = "chat" THEN @ + 1 ELSE @]
    <3>1. client.run # "none"
      BY <1>3, <1>7 DEF Reconnect
    <3>2. (IF Mode = "chat" THEN client.tries + 1 ELSE client.tries) \in Nat
      BY <1>1 DEF ClientType
    <3>3. Same(client')
      BY <1>1, <2>2, <3>1, <3>2 DEF ClientType
    <3> QED BY <1>5, <3>3
  <2> QED BY <1>7, <2>1, <2>2 DEF Reconnect
<1>8. CASE Stop
  <2>1. client.run \in Runs
    BY <1>1, <1>8 DEF Stop, Idle, ClientType
  <2>2. Same(client')
    BY <1>1, <1>3, <1>8, <2>1 DEF Stop, ClientType
  <2> QED BY <1>5, <2>2
<1>9. CASE SetKey
  <2>1. client' = client
    BY <1>9 DEF SetKey
  <2> QED BY <1>1, <1>2, <2>1, ClientStep
<1>10. ASSUME NEW r \in Runs, CancelLost(r) PROVE Kept
  <2>1. Same(client')
    BY <1>1, <1>3, <1>10 DEF CancelLost, ClientType
  <2> QED BY <1>5, <2>1
<1> QED BY <1>6, <1>7, <1>8, <1>9, <1>10

\* The parts of the state that the runs and the stream leave alone.
LEMMA RestTyped ==
    ASSUME GatewayInv, Next, Kept
    PROVE  TypeOK'
<1>1. /\ journal' \in [Runs -> JournalType] /\ task' \in [Runs -> TaskType]
      /\ client' \in ClientType
  BY DEF Kept, RunsOK, ClientOK
<1>2. /\ up \in BOOLEAN /\ key \in BOOLEAN /\ approved \in BOOLEAN
      /\ cancels \in SUBSET (Runs \X Nat) /\ faults \in Nat
  BY DEF GatewayInv, TypeOK
<1>3. \A r \in Runs : task[r].gen \in Nat
  BY DEF GatewayInv, TypeOK, TaskType
<1> DEFINE Others == /\ up' \in BOOLEAN /\ key' \in BOOLEAN /\ approved' \in BOOLEAN
                     /\ cancels' \in SUBSET (Runs \X Nat) /\ faults' \in Nat
<1>4. ASSUME NEW r \in Runs,
             \/ TaskStep(r) \/ Decided(r) \/ Expire(r) \/ Pause(r)
             \/ \E a \in {"allow", "deny"} : Resolve(r, a)
      PROVE  Others
  BY <1>2, <1>4 DEF TaskStep, Decided, Expire, Pause, Resolve
<1>5. ASSUME NEW r \in Runs, CancelArrives(r) PROVE Others
  <2>1. cancels' \in SUBSET (Runs \X Nat)
    BY <1>2, <1>3, <1>5 DEF CancelArrives
  <2> QED BY <1>2, <1>5, <2>1 DEF CancelArrives
<1>6. ASSUME NEW r \in Runs, NEW g, CancelTask(r, g) PROVE Others
  BY <1>2, <1>6 DEF CancelTask
<1>7. ASSUME NEW r \in Runs,
             \/ CancelLost(r) \/ \E new \in BOOLEAN : Resume(r, new)
             \/ StartChat(r) \/ StartAgent(r)
      PROVE  Others
  <2>1. CASE CancelLost(r)
    BY <1>2, <2>1 DEF CancelLost, Fault
  <2>2. CASE ~CancelLost(r)
    BY <1>2, <1>7, <2>2 DEF Resume, StartChat, StartAgent, StartRun
  <2> QED BY <2>1, <2>2
<1>8. ASSUME SetKey \/ Crash \/ Close \/ Boot PROVE Others
  <2>1. CASE SetKey
    <3>1. faults' \in Nat
      BY <1>2, <2>1 DEF SetKey, Fault
    <3>2. key' \in BOOLEAN
      BY <2>1 DEF SetKey
    <3> QED BY <1>2, <2>1, <3>1, <3>2 DEF SetKey
  <2>2. CASE Stopped
    <3>1. /\ up' = FALSE /\ key' = FALSE /\ approved' = FALSE /\ cancels' = {}
          /\ faults' = faults + 1
      BY <2>2 DEF Stopped, Fault
    <3>2. cancels' \in SUBSET (Runs \X Nat)
      BY <3>1
    <3>3. faults' \in Nat
      BY <1>2, <3>1
    <3>4. up' \in BOOLEAN /\ key' \in BOOLEAN /\ approved' \in BOOLEAN
      BY <3>1
    <3> QED BY <3>2, <3>3, <3>4
  <2>3. CASE Boot
    BY <1>2, <2>3 DEF Boot
  <2> QED BY <1>8, <2>1, <2>2, <2>3 DEF Crash, Close
<1>9. ASSUME Connect \/ Refill \/ Deliver \/ Drop \/ Reconnect \/ Refused \/ Stop
      PROVE  Others
  BY <1>2, <1>9 DEF Connect, Refill, Deliver, Drop, Reconnect, Refused, Stop, Fault
<1>10. Others
  BY <1>4, <1>5, <1>6, <1>7, <1>8, <1>9 DEF Next
<1> QED BY <1>1, <1>10 DEF TypeOK

\* Every step keeps the invariant, and does to a row what a handler may.
LEMMA NextKeeps ==
    ASSUME GatewayInv, [Next]_vars
    PROVE  GatewayInv' /\ \A q \in Runs : RowStep(q)
<1>1. CASE Next
  <2>1. Kept
    <3>1. ASSUME NEW r \in Runs, TaskStep(r) \/ Decided(r) \/ Expire(r) PROVE Kept
      BY <3>1, WorkKeeps
    <3>2. ASSUME NEW r \in Runs, NEW a \in {"allow", "deny"},
                 Pause(r) \/ Resolve(r, a) \/ CancelArrives(r)
          PROVE  Kept
      BY <3>2, RequestsKeep
    <3>3. ASSUME NEW r \in Runs, NEW g, CancelTask(r, g) PROVE Kept
      BY <3>3, CancelTaskKeeps
    <3>4. ASSUME NEW r \in Runs, NEW new \in BOOLEAN, Resume(r, new) PROVE Kept
      BY <3>4, ResumeStep
    <3>5. ASSUME NEW r \in Runs, StartChat(r) \/ StartAgent(r) PROVE Kept
      BY <3>5, StartStep DEF StartChat, StartAgent
    <3> QED BY <1>1, <3>1, <3>2, <3>3, <3>4, <3>5, StopStep, BootStep, StreamStep,
               ConnectionStep DEF Next
  <2>2. TypeOK'
    BY <1>1, <2>1, RestTyped
  <2> QED BY <2>1, <2>2 DEF Kept, GatewayInv
<1>2. CASE UNCHANGED vars
  <2>1. \A q \in Runs : RowStep(q)
    BY <1>2 DEF vars, RowStep
  <2>2. GatewayInv'
    BY <1>2 DEF vars, GatewayInv, TypeOK, RunsOK, ClientOK
  <2> QED BY <2>1, <2>2
<1> QED BY <1>1, <1>2

\* The gateway starts with no runs.
LEMMA InitInv ==
    ASSUME Init
    PROVE  GatewayInv
<1>1. <<>> \in Seq(Events) /\ <<>> \in Seq([id : Nat, e : Events])
  BY EmptySeq
<1>2. NoRun \in JournalType
  BY <1>1 DEF NoRun, JournalType, States
<1>3. NoTask \in TaskType /\ ~Active(NoTask) /\ NoTask.pc = "none"
  BY DEF NoTask, TaskType, Active, Points, Pauses
<1>4. NoClient \in ClientType /\ NoClient.run = "none" /\ NoClient.conn = "none"
      /\ NoClient.saw = "none"
  BY <1>1 DEF NoClient, ClientType
<1>5. /\ NoRun.mode = "none" /\ NoRun.state = "none" /\ NoRun.log = <<>>
  BY DEF NoRun
<1>6. Sound(NoRun, NoTask)
  <2>1. "none" \notin Terminal
    BY DEF Terminal
  <2> QED BY <1>2, <1>3, <1>5, <2>1 DEF Sound, IsTerminal, RowSaysMark, Working
<1>7. RunsOK(journal, task, up)
  BY <1>2, <1>3, <1>5, <1>6 DEF Init, RunsOK
<1>8. ClientOK(journal, task, client)
  BY <1>4 DEF Init, ClientOK
<1>9. TypeOK
  BY <1>2, <1>3, <1>4 DEF Init, TypeOK
<1> QED BY <1>7, <1>8, <1>9 DEF GatewayInv

\* The journal, the tasks and the desktop's worker agree about every run,
\* whatever calls, ends, crashes and restarts race.
THEOREM GatewayInvariant == Spec => []GatewayInv
<1>1. Init => GatewayInv
  BY InitInv
<1>2. GatewayInv /\ [Next]_vars => GatewayInv'
  BY NextKeeps
<1> QED BY <1>1, <1>2, PTL DEF Spec

-----------------------------------------------------------------------------
(* What follows from it.                                                   *)

\* A set of positions has a last one: among the sets of those beyond one of
\* its members, a smallest one is empty.
LEMMA LastPosition ==
    ASSUME NEW n \in Nat, NEW M, M \subseteq 1..n, M # {}
    PROVE  \E m \in M : \A k \in M : k <= m
<1> DEFINE Beyond(m) == {k \in M : k > m}
           F == {Beyond(m) : m \in M}
<1>1. IsFiniteSet(1..n)
  <2>1. 1 \in Int /\ n \in Int
    OBVIOUS
  <2> QED BY <2>1, FS_Interval
<1>2. IsFiniteSet(M) /\ M \subseteq Nat
  <2>1. M \in SUBSET (1..n)
    OBVIOUS
  <2>2. IsFiniteSet(M)
    BY <1>1, <2>1, FS_Subset
  <2> QED BY <2>2
<1>3. F \subseteq FiniteSubsetsOf(M)
  <2>1. \A m \in M : Beyond(m) \in SUBSET M
    OBVIOUS
  <2> QED BY <1>2, <2>1, FS_FiniteSubsetsOfFinite
<1>4. F # {}
  OBVIOUS
<1>5. PICK s \in F : \A t \in F : ~(<<t, s>> \in StrictSubsetOrdering(M))
  BY <1>3, <1>4, FS_StrictSubsetOrderingWellFounded, WFMin
<1>6. PICK m \in M : s = Beyond(m)
  OBVIOUS
<1>7. ASSUME NEW k \in M, k > m PROVE FALSE
  <2>4. Beyond(k) \subseteq s
    <3>1. \A i \in M : i > k => i > m
      BY <1>2, <1>7
    <3> QED BY <1>6, <3>1
  <2>5. k \notin Beyond(k)
    BY <1>2
  <2>1. Beyond(k) \subseteq s /\ k \in s /\ k \notin Beyond(k) /\ Beyond(k) \in F
    BY <1>6, <1>7, <2>4, <2>5
  <2>2. s \in SUBSET M /\ Beyond(k) \in SUBSET M
    BY <1>6
  <2>3. <<Beyond(k), s>> \in StrictSubsetOrdering(M)
    BY <2>1, <2>2 DEF StrictSubsetOrdering
  <2> QED BY <1>5, <2>1, <2>3
<1> QED BY <1>2, <1>7

\* The reason of a pause, as the service reads it from the retained events, is
\* what the row says.
LEMMA ReasonIsState ==
    ASSUME NEW j, NEW t, Sound(j, t), ~IsTerminal(j)
    PROVE  /\ PauseReason(j) # "none" => j.state = "paused"
           /\ (\E i \in DOMAIN j.log : j.log[i] \in Starts) /\ PauseReason(j) = "none"
              => j.state = "started"
<1> DEFINE marks == {i \in DOMAIN j.log : j.log[i] \in Starts \cup Pauses}
           last == CHOOSE i \in marks : \A k \in marks : k <= i
<1>1. j \in JournalType /\ RowSaysMark(j)
  BY DEF Sound
<1>2. /\ Len(j.log) \in Nat /\ DOMAIN j.log = 1..Len(j.log)
      /\ \A i \in DOMAIN j.log : j.log[i] \in Events
  BY <1>1, RowTypes
<1>3. ASSUME marks # {}
      PROVE  last \in marks /\ \A k \in marks : k <= last
  <2>1. marks \subseteq 1..Len(j.log)
    BY <1>2
  <2> HIDE DEF marks
  <2>2. \E m \in marks : \A k \in marks : k <= m
    BY <1>2, <1>3, <2>1, LastPosition
  <2> QED BY <2>2
<1>4. PauseReason(j) = IF marks # {} /\ j.log[last] \in Pauses THEN j.log[last] ELSE "none"
  BY DEF PauseReason
<1>5. "none" \notin Pauses /\ Starts \cap Pauses = {}
  BY DEF Pauses, Starts
<1> HIDE DEF last
<1>6. ASSUME marks # {}
      PROVE  j.state = StateAfter(j.log[last], j.state)
             /\ j.log[last] \in Starts \cup Pauses
  <2>1. last \in DOMAIN j.log /\ j.log[last] \in Starts \cup Pauses
    BY <1>3, <1>6
  <2>2. \A k \in DOMAIN j.log : k > last => j.log[k] \notin Starts \cup Pauses
    <3>1. \A k \in DOMAIN j.log : k > last => k \notin marks
      <4> HIDE DEF marks
      <4>1. \A k \in DOMAIN j.log : k \in Nat
        BY <1>2
      <4> QED BY <1>3, <1>6, <2>1, <4>1
    <3> QED BY <3>1
  <2>3. NewestMark(j, last)
    BY <2>1, <2>2 DEF NewestMark
  <2> QED BY <1>1, <2>1, <2>3 DEF RowSaysMark
<1>7. ASSUME PauseReason(j) # "none" PROVE j.state = "paused"
  <2>1. marks # {} /\ j.log[last] \in Pauses
    BY <1>4, <1>7
  <2> HIDE DEF marks
  <2>2. j.state = StateAfter(j.log[last], j.state)
    BY <1>6, <2>1
  <2>3. j.log[last] \in Events /\ j.state \in States
    <3>1. Pauses \subseteq Events
      BY DEF Events
    <3> QED BY <1>1, <2>1, <3>1, RowTypes
  <2> QED BY <2>1, <2>2, <2>3, StateAfterFacts
<1>8. ASSUME NEW i \in DOMAIN j.log, j.log[i] \in Starts, PauseReason(j) = "none"
      PROVE  j.state = "started"
  <2>1. marks # {}
    BY <1>8
  <2> HIDE DEF marks
  <2>2. j.log[last] \in Starts
    BY <1>4, <1>5, <1>6, <1>8, <2>1
  <2>3. j.log[last] \in Events /\ j.state \in States
    <3>1. Starts \subseteq Events
      BY DEF Events
    <3> QED BY <1>1, <2>2, <3>1, RowTypes
  <2>4. j.state = StateAfter(j.log[last], j.state)
    BY <1>6, <2>1
  <2> QED BY <2>2, <2>3, <2>4, StateAfterFacts
<1> QED BY <1>7, <1>8

\* A run that looks at rest to the service, to a reader of its row and events
\* or to the worker that followed it is at rest: nothing works on it, and it
\* has ended or can be resumed.
THEOREM RunsRest == Spec => []RestIsReal
<1>1. GatewayInv => RestIsReal
  <2> SUFFICES ASSUME GatewayInv PROVE RestIsReal
    OBVIOUS
  <2>1. RunsOK(journal, task, up) /\ ClientOK(journal, task, client)
    BY DEF GatewayInv
  <2>2. \A r \in Runs : Running(r) <=> Active(task[r])
    BY DEF Running, Active
  <2>3. IdleRunsRest
    BY <2>1, <2>2 DEF IdleRunsRest, RunsOK, Rested
  <2>4. RowMatchesEvents
    BY <2>1, ReasonIsState DEF RowMatchesEvents, RunsOK
  <2>5. EndMeansRest
    BY <2>1, <2>2 DEF EndMeansRest, Idle, ClientOK
  <2> QED BY <2>3, <2>4, <2>5 DEF RestIsReal
<1> QED BY <1>1, GatewayInvariant, PTL

\* A run that has ended stays as it ended, whatever races its end.
THEOREM EndsForGood == Spec => EndIsFinal
<1>1. GatewayInv /\ [Next]_vars =>
        [\A r \in Runs : IsTerminal(journal[r]) => journal'[r] = journal[r]]_vars
  <2> SUFFICES ASSUME GatewayInv, [Next]_vars, NEW r \in Runs, IsTerminal(journal[r])
               PROVE  journal'[r] = journal[r]
    OBVIOUS
  <2>1. RowStep(r) /\ Sound(journal[r], task[r])
    BY NextKeeps DEF GatewayInv, RunsOK
  <2>2. journal[r].state \in Terminal /\ journal[r].mode # "none"
    BY <2>1 DEF Sound, IsTerminal
  <2> QED BY <2>1, <2>2 DEF RowStep
<1> QED BY <1>1, GatewayInvariant, PTL DEF Spec, EndIsFinal

\* A cancel stops the task it was meant for, and no task that works on the run
\* since.
THEOREM CancelsHit == Spec => CancelHitsItsTask
<1> DEFINE Hits == \A r \in Runs :
         /\ up' /\ Running(r) /\ journal'[r] # journal[r]
         /\ journal'[r].state = "cancelled"
         => task[r].cancel \/ <<r, task[r].gen>> \in cancels
<1>1. GatewayInv /\ [Next]_vars => Hits
  <2> SUFFICES ASSUME GatewayInv, [Next]_vars, NEW r \in Runs,
                      up', Running(r), journal'[r] # journal[r],
                      journal'[r].state = "cancelled"
               PROVE  task[r].cancel \/ <<r, task[r].gen>> \in cancels
    OBVIOUS
  <2>1. RowStep(r)
    BY NextKeeps
  <2>2. Active(task[r])
    BY DEF Running, Active
  <2> QED BY <2>1, <2>2 DEF RowStep
<1> QED BY <1>1, GatewayInvariant, PTL DEF Spec, CancelHitsItsTask

\* What a worker is told next is the next event there is, up to what the
\* journal pruned, however often it connected again.
THEOREM StreamsAreInOrder == Spec => StreamInOrder
<1> DEFINE Ordered ==
       client.run # "none" /\ client'.run = client.run
       /\ client'.cursor # client.cursor
       => /\ client'.cursor > client.cursor
          /\ \A i \in (client.cursor + 1)..(client'.cursor - 1) :
                i <= journal[client.run].cut
<1>1. GatewayInv /\ [Next]_vars => Ordered
  <2> SUFFICES ASSUME GatewayInv, Next, client.run # "none", client'.run = client.run,
                      client'.cursor # client.cursor
               PROVE  /\ client'.cursor > client.cursor
                      /\ \A i \in (client.cursor + 1)..(client'.cursor - 1) :
                            i <= journal[client.run].cut
    BY DEF vars
  <2>1. /\ client \in ClientType /\ client.run \in Runs
        /\ journal[client.run] \in JournalType /\ Fetched(journal[client.run], client)
    BY DEF GatewayInv, ClientOK, RunsOK, ClientType
  <2>2. \A saw : Done(client, saw).run = "none"
    BY DEF Done, NoClient
  <2>3. Deliver
    <3>1. ASSUME NEW r \in Runs, TaskStep(r) \/ Decided(r) \/ Expire(r) \/ Pause(r)
          PROVE  FALSE
      BY <3>1 DEF TaskStep, Decided, Expire, Pause
    <3>2. ASSUME NEW r \in Runs, \E a \in {"allow", "deny"} : Resolve(r, a)
          PROVE  FALSE
      BY <3>2 DEF Resolve
    <3>3. ASSUME NEW r \in Runs, CancelArrives(r) \/ CancelLost(r) PROVE FALSE
      BY <2>1, <3>3 DEF CancelArrives, CancelLost, ClientType
    <3>4. ASSUME NEW r \in Runs, NEW g, CancelTask(r, g) PROVE FALSE
      BY <3>4 DEF CancelTask
    <3>5. ASSUME NEW r \in Runs, NEW new, Resume(r, new) PROVE FALSE
      BY <3>5 DEF Resume, Idle
    <3>6. ASSUME NEW r \in Runs, StartChat(r) \/ StartAgent(r) PROVE FALSE
      BY <3>6 DEF StartChat, StartAgent, StartRun, Idle
    <3>7. ASSUME SetKey \/ Boot PROVE FALSE
      BY <3>7 DEF SetKey, Boot
    <3>8. ASSUME Crash \/ Close \/ Drop \/ Refused PROVE FALSE
      <4>1. client' = Dropped
        BY <3>8 DEF Crash, Close, Stopped, Drop, Refused
      <4> QED BY <2>1, <4>1 DEF Dropped, ClientType
    <3>9. ASSUME Connect \/ Stop PROVE FALSE
      BY <2>1, <3>9 DEF Connect, Stop, ClientType
    <3>10. ASSUME Refill PROVE FALSE
      <4>1. \/ client' = Done(client, "none") \/ client' = [client EXCEPT !.conn = "fresh"]
            \/ \E b : client' = [client EXCEPT !.batch = b]
        BY <3>10 DEF Refill
      <4>2. CASE client' = Done(client, "none")
        <5>1. client.run # "none"
          OBVIOUS
        <5> QED BY ONLY <2>2, <4>2, <5>1, client'.run = client.run
      <4>3. CASE client' = [client EXCEPT !.conn = "fresh"]
        <5>1. client'.cursor = client.cursor
          BY ONLY <2>1, <4>3 DEF ClientType
        <5> QED BY <5>1
      <4>4. ASSUME NEW b, client' = [client EXCEPT !.batch = b] PROVE FALSE
        <5>1. client'.cursor = client.cursor
          BY ONLY <2>1, <4>4 DEF ClientType
        <5> QED BY <5>1
      <4> QED BY ONLY <4>1, <4>2, <4>3, <4>4
    <3>11. ASSUME Reconnect PROVE FALSE
      <4>1. \/ client' = Done(client, "none")
            \/ \E n : client' = [client EXCEPT !.conn = "fresh", !.tries = n]
        BY <3>11 DEF Reconnect
      <4>2. CASE client' = Done(client, "none")
        <5>1. client.run # "none"
          OBVIOUS
        <5> QED BY ONLY <2>2, <4>2, <5>1, client'.run = client.run
      <4>3. ASSUME NEW n, client' = [client EXCEPT !.conn = "fresh", !.tries = n]
            PROVE  FALSE
        <5>1. client'.cursor = client.cursor
          BY ONLY <2>1, <4>3 DEF ClientType
        <5> QED BY <5>1
      <4> QED BY ONLY <4>1, <4>2, <4>3
    <3> QED BY <3>1, <3>2, <3>3, <3>4, <3>5, <3>6, <3>7, <3>8, <3>9, <3>10, <3>11
            DEF Next
  <2>4. client.batch # <<>> /\ client'.cursor = Head(client.batch).id
    <3> DEFINE stopped == client.stop /\ ~client.sent /\ Mode = "chat"
               d == [client EXCEPT !.cursor = Head(client.batch).id, !.batch = Tail(@),
                        !.sent = @ \/ stopped,
                        !.cancelling = IF stopped THEN @ \cup {client.run} ELSE @]
    <3>1. /\ client.batch # <<>>
          /\ client' = IF Head(client.batch).e \in Rests
                       THEN Done(d, Head(client.batch).e) ELSE d
      BY <2>3 DEF Deliver
    <3>2. d.cursor = Head(client.batch).id
      BY <2>1 DEF ClientType
    <3>3. Done(d, Head(client.batch).e).run = "none"
      BY DEF Done, NoClient
    <3> HIDE DEF d
    <3> QED BY <3>1, <3>2, <3>3
  <2> DEFINE d == [cursor |-> client'.cursor, batch |-> Tail(client.batch)]
  <2>5. d.cursor = client'.cursor /\ d.batch = Tail(client.batch)
    OBVIOUS
  <2> HIDE DEF d
  <2> QED BY <2>1, <2>4, <2>5, DeliverFacts
<1> QED BY <1>1, GatewayInvariant, PTL DEF Spec, StreamInOrder

\* The journal, as tasks, cancels, a shutdown and the recovery after a crash
\* write it, implements RunProtocol: a run is created once, pauses only at a
\* safe point, and ends once and for good.
THEOREM JournalKeepsProtocol == Spec => KeepsProtocol
<1>1. Init => Protocol!ProtocolInit
  BY DEF Init, Protocol!ProtocolInit, NoRun
<1>2. GatewayInv /\ [Next]_vars => [Protocol!ProtocolNext]_(Protocol!protocolVars)
  <2> SUFFICES ASSUME GatewayInv, [Next]_vars, NEW r \in Runs
               PROVE  \/ Protocol!Create(r) \/ Protocol!Work(r) \/ Protocol!Pause(r)
                      \/ Protocol!End(r) \/ Protocol!Unchanged(r)
    BY DEF Protocol!ProtocolNext
  <2>1. RowStep(r) /\ Sound(journal[r], task[r])
    BY NextKeeps DEF GatewayInv, RunsOK
  <2>2. CASE journal'[r] = journal[r]
    BY <2>2 DEF Protocol!Unchanged
  <2>3. CASE journal[r].mode = "none" /\ journal'[r].state = "created"
    BY <2>1, <2>3 DEF Protocol!Create, Sound
  <2>4. CASE journal[r].state \notin Terminal \cup {"none"} /\ Moves(journal[r], journal'[r])
    <3>1. Protocol!Open(r)
      BY <2>4 DEF Protocol!Open, Protocol!Ended, Terminal
    <3> QED BY <2>4, <3>1
            DEF Moves, Protocol!Work, Protocol!Pause, Protocol!End, Protocol!Unchanged,
                Protocol!Ended, Terminal
  <2> QED BY <2>1, <2>2, <2>3, <2>4 DEF RowStep
<1> QED BY <1>1, <1>2, GatewayInvariant, PTL DEF Spec, KeepsProtocol, Protocol!ProtocolSpec
=============================================================================
