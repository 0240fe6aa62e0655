--------------------------- MODULE StagingProofs ---------------------------
(***************************************************************************)
(* Proofs about modules Workspace and Staging, for every set of paths and  *)
(* contents and every value of the bounds.                                 *)
(***************************************************************************)
EXTENDS Staging, TLAPS

-----------------------------------------------------------------------------
(* The host workspace: writing a file keeps it well typed and only adds to  *)
(* the versions a path has had.                                            *)

\* The version on disk is one the path has had.
LEMMA HostIsPast ==
    ASSUME WorkspaceTypeOK, NEW p \in Paths
    PROVE  Host(p) \in HostPast(p) /\ Host(p) \in Entry
BY DEF WorkspaceTypeOK, Host, HostPast

\* The workspace starts with one version of each path.
LEMMA WorkspaceTypeInit == WorkspaceInit => WorkspaceTypeOK
<1> SUFFICES ASSUME WorkspaceInit PROVE WorkspaceTypeOK
  OBVIOUS
<1>1. written \in [Paths -> {<<e>> : e \in Entry}] /\ stamp = [p \in Paths |-> 1]
  BY DEF WorkspaceInit
<1>2. ASSUME NEW p \in Paths
      PROVE  written[p] \in Seq(Entry) /\ Len(written[p]) = 1 /\ stamp[p] = 1
  <2>1. PICK e \in Entry : written[p] = <<e>>
    BY <1>1
  <2> QED BY <1>1, <2>1
<1>3. written \in [Paths -> Seq(Entry)]
  <2>1. written = [p \in Paths |-> written[p]]
    BY <1>1
  <2> QED BY <1>2, <2>1
<1>4. stamp \in [Paths -> Nat \ {0}]
  BY <1>1
<1>5. ASSUME NEW p \in Paths PROVE stamp[p] <= Len(written[p])
  <2>1. stamp[p] = 1 /\ Len(written[p]) = 1
    BY <1>2
  <2> QED BY <2>1
<1> QED BY <1>3, <1>4, <1>5 DEF WorkspaceTypeOK

\* HostPut (a publication, a rollback or a user's save) forgets no version,
\* and the content it writes is then on the host.
LEMMA HostPutFacts ==
    ASSUME WorkspaceTypeOK,
           NEW new, DOMAIN new \subseteq Paths,
           \A p \in DOMAIN new : new[p] \in Entry,
           HostPut(new)
    PROVE  /\ WorkspaceTypeOK'
           /\ \A p \in Paths : HostPast(p) \subseteq HostPast(p)'
           /\ \A p \in DOMAIN new : Host(p)' = new[p]
           /\ \A p \in Paths \ DOMAIN new : Host(p)' = Host(p)
<1>1. ASSUME NEW p \in DOMAIN new
      PROVE  /\ written'[p] = Append(written[p], new[p])
             /\ stamp'[p] = Len(written[p]) + 1
  BY <1>1 DEF HostPut
<1>2. ASSUME NEW p \in Paths, p \notin DOMAIN new
      PROVE  written'[p] = written[p] /\ stamp'[p] = stamp[p]
  BY <1>2 DEF HostPut
<1>3. ASSUME NEW p \in DOMAIN new
      PROVE  /\ Append(written[p], new[p]) \in Seq(Entry)
             /\ Len(Append(written[p], new[p])) = Len(written[p]) + 1
             /\ \A i \in 1..Len(written[p]) :
                    Append(written[p], new[p])[i] = written[p][i]
             /\ Append(written[p], new[p])[Len(written[p]) + 1] = new[p]
             /\ Len(written[p]) \in Nat
  BY <1>3 DEF WorkspaceTypeOK
<1>4. WorkspaceTypeOK'
  BY <1>1, <1>2, <1>3 DEF WorkspaceTypeOK, HostPut
<1>5. ASSUME NEW p \in Paths
      PROVE  HostPast(p) \subseteq HostPast(p)'
  <2>1. CASE p \in DOMAIN new
    BY <1>1, <1>3, <2>1 DEF HostPast
  <2>2. CASE p \notin DOMAIN new
    BY <1>2, <2>2 DEF HostPast
  <2> QED BY <2>1, <2>2
<1>6. \A p \in DOMAIN new : Host(p)' = new[p]
  BY <1>1, <1>3 DEF Host
<1>7. \A p \in Paths \ DOMAIN new : Host(p)' = Host(p)
  BY <1>2 DEF Host
<1> QED BY <1>4, <1>5, <1>6, <1>7

\* The user's save of a file forgets no version.
LEMMA UserEditFacts ==
    ASSUME WorkspaceTypeOK, NEW p \in Paths, NEW e \in Entry, UserEdit(p, e)
    PROVE  /\ WorkspaceTypeOK'
           /\ \A q \in Paths : HostPast(q) \subseteq HostPast(q)'
BY HostPutFacts DEF UserEdit

\* Nor does the user's restore of an old version.
LEMMA UserRestoreFacts ==
    ASSUME WorkspaceTypeOK, NEW p \in Paths, NEW i \in 1..Len(written[p]),
           UserRestore(p, i)
    PROVE  /\ WorkspaceTypeOK'
           /\ \A q \in Paths : HostPast(q) \subseteq HostPast(q)'
BY DEF UserRestore, WorkspaceTypeOK, HostPast

-----------------------------------------------------------------------------
(* The operators of rebase keep the tables it builds well typed, and touch  *)
(* the entry of their own path only.                                       *)

\* rebase's adopt() moves the baseline entry of p to the host version seen.
LEMMA AdoptFacts ==
    ASSUME NEW j \in JobType, NEW p \in Paths
    PROVE  /\ Adopt(j, p) \in JobType
           /\ Adopt(j, p).base = [j.base EXCEPT ![p] = j.host[p]]
           /\ Adopt(j, p).active = j.active /\ Adopt(j, p).boot = j.boot
           /\ Adopt(j, p).host = j.host /\ Adopt(j, p).id = j.id
           /\ Adopt(j, p).todo = j.todo /\ Adopt(j, p).changed = j.changed
           /\ Adopt(j, p).conf = j.conf
BY DEF Adopt, JobType, Map

\* Settling a path marks the baseline as changed and leaves it alone.
LEMMA SettledFacts ==
    ASSUME NEW j \in JobType, NEW p \in Paths
    PROVE  /\ Settled(j, p) \in JobType
           /\ Settled(j, p).changed
           /\ Settled(j, p).active = j.active /\ Settled(j, p).boot = j.boot
           /\ Settled(j, p).host = j.host /\ Settled(j, p).id = j.id
           /\ Settled(j, p).todo = j.todo /\ Settled(j, p).base = j.base
BY DEF Settled, JobType, Map

\* Recording a conflict leaves the baseline and its id alone.
LEMMA HoldBackFacts ==
    ASSUME NEW j \in JobType, NEW p \in Paths
    PROVE  /\ HoldBack(j, p) \in JobType
           /\ HoldBack(j, p).active = j.active /\ HoldBack(j, p).boot = j.boot
           /\ HoldBack(j, p).host = j.host /\ HoldBack(j, p).id = j.id
           /\ HoldBack(j, p).todo = j.todo
           /\ HoldBack(j, p).changed = j.changed
           /\ HoldBack(j, p).base = j.base
BY DEF HoldBack, JobType, Map

\* A path the host did not change keeps its baseline entry; only a conflict
\* resolved that way marks the baseline as changed.
LEMMA UnmovedFacts ==
    ASSUME NEW j \in JobType, NEW p \in Paths
    PROVE  /\ Unmoved(j, p) \in JobType
           /\ ~Unmoved(j, p).changed => ~j.changed
           /\ Unmoved(j, p).active = j.active /\ Unmoved(j, p).boot = j.boot
           /\ Unmoved(j, p).host = j.host /\ Unmoved(j, p).id = j.id
           /\ Unmoved(j, p).todo = j.todo /\ Unmoved(j, p).base = j.base
BY DEF Unmoved, Settled, JobType, Map

\* Ending the visit of a path touches the rest of the loop's path set only.
LEMMA VisitedFacts ==
    ASSUME NEW j \in JobType, NEW p \in Paths
    PROVE  /\ Visited(j, p) \in JobType
           /\ Visited(j, p).active = j.active /\ Visited(j, p).boot = j.boot
           /\ Visited(j, p).host = j.host /\ Visited(j, p).id = j.id
           /\ Visited(j, p).changed = j.changed /\ Visited(j, p).conf = j.conf
           /\ Visited(j, p).base = j.base
BY DEF Visited, JobType, Map

\* Adopt, then settle: what the branches that move the baseline do.
LEMMA AdoptSettledFacts ==
    ASSUME NEW j \in JobType, NEW p \in Paths
    PROVE  LET t == Settled(Adopt(j, p), p)
           IN  /\ t \in JobType
               /\ t.changed
               /\ t.active = j.active /\ t.boot = j.boot /\ t.host = j.host
               /\ t.id = j.id /\ t.todo = j.todo
               /\ \A q \in Paths : t.base[q] \in {j.base[q], j.host[q]}
<1> DEFINE a == Adopt(j, p)
           t == Settled(a, p)
<1>1. a \in JobType /\ a.base = [j.base EXCEPT ![p] = j.host[p]]
      /\ a.active = j.active /\ a.boot = j.boot /\ a.host = j.host
      /\ a.id = j.id /\ a.todo = j.todo
  BY AdoptFacts
<1>2. \A q \in Paths : a.base[q] \in {j.base[q], j.host[q]}
  BY <1>1 DEF JobType, Map
<1> HIDE DEF a
<1>3. t \in JobType /\ t.changed
      /\ t.active = a.active /\ t.boot = a.boot /\ t.host = a.host
      /\ t.id = a.id /\ t.todo = a.todo /\ t.base = a.base
  BY <1>1, SettledFacts
<1> HIDE DEF t
<1>4. /\ t \in JobType /\ t.changed
      /\ t.active = j.active /\ t.boot = j.boot /\ t.host = j.host
      /\ t.id = j.id /\ t.todo = j.todo
      /\ \A q \in Paths : t.base[q] \in {j.base[q], j.host[q]}
  BY <1>1, <1>2, <1>3
<1> QED BY <1>4 DEF a, t

\* A path that needs no copy: each baseline entry stays or becomes the host
\* version seen, and it stays unless the rebase counts as having changed.
LEMMA NotedFacts ==
    ASSUME NEW j \in JobType, NEW p \in Paths
    PROVE  /\ Noted(j, p) \in JobType
           /\ Noted(j, p).active = j.active /\ Noted(j, p).boot = j.boot
           /\ Noted(j, p).host = j.host /\ Noted(j, p).id = j.id
           /\ Noted(j, p).todo = j.todo
           /\ \A q \in Paths : Noted(j, p).base[q] \in {j.base[q], j.host[q]}
           /\ ~Noted(j, p).changed => Noted(j, p).base = j.base /\ ~j.changed
<1>1. CASE Branch(j, p) \in {"keep", "same"}
  <2>1. Noted(j, p) = Settled(Adopt(j, p), p)
    BY <1>1 DEF Noted
  <2> QED BY <2>1, AdoptSettledFacts
<1>2. CASE Branch(j, p) = "unmoved"
  <2>1. Noted(j, p) = Unmoved(j, p)
    BY <1>2 DEF Noted
  <2> QED BY <2>1, UnmovedFacts
<1>3. CASE Branch(j, p) \notin {"keep", "same", "unmoved"}
  <2>1. Noted(j, p) = HoldBack(j, p)
    BY <1>3 DEF Noted
  <2> QED BY <2>1, HoldBackFacts
<1> QED BY <1>1, <1>2, <1>3

\* The same once the visit ends: a path of the loop that needs no copy.
LEMMA VisitedNotedFacts ==
    ASSUME NEW j \in JobType, NEW p \in Paths
    PROVE  LET v == Visited(Noted(j, p), p)
           IN  /\ v \in JobType
               /\ v.active = j.active /\ v.boot = j.boot /\ v.host = j.host
               /\ v.id = j.id
               /\ \A q \in Paths : v.base[q] \in {j.base[q], j.host[q]}
               /\ ~v.changed => v.base = j.base /\ ~j.changed
<1> DEFINE n == Noted(j, p)
<1>1. /\ n \in JobType
      /\ n.active = j.active /\ n.boot = j.boot /\ n.host = j.host /\ n.id = j.id
      /\ \A q \in Paths : n.base[q] \in {j.base[q], j.host[q]}
      /\ ~n.changed => n.base = j.base /\ ~j.changed
  BY NotedFacts
<1> HIDE DEF n
<1>2. Visited(n, p).base = n.base /\ Visited(n, p).changed = n.changed
  BY <1>1, VisitedFacts
<1>3. /\ Visited(n, p) \in JobType
      /\ Visited(n, p).active = n.active /\ Visited(n, p).boot = n.boot
      /\ Visited(n, p).host = n.host /\ Visited(n, p).id = n.id
  BY <1>1, VisitedFacts
<1> QED BY <1>1, <1>2, <1>3 DEF n

\* A path whose host version was installed into staging.
LEMMA VisitedSettledFacts ==
    ASSUME NEW j \in JobType, NEW p \in Paths
    PROVE  LET v == Visited(Settled(Adopt(j, p), p), p)
           IN  /\ v \in JobType
               /\ v.active = j.active /\ v.boot = j.boot /\ v.host = j.host
               /\ v.id = j.id
               /\ \A q \in Paths : v.base[q] \in {j.base[q], j.host[q]}
               /\ v.changed
<1> DEFINE t == Settled(Adopt(j, p), p)
<1>1. /\ t \in JobType /\ t.changed
      /\ t.active = j.active /\ t.boot = j.boot /\ t.host = j.host /\ t.id = j.id
      /\ \A q \in Paths : t.base[q] \in {j.base[q], j.host[q]}
  BY AdoptSettledFacts
<1> HIDE DEF t
<1>2. Visited(t, p).base = t.base /\ Visited(t, p).changed = t.changed
  BY <1>1, VisitedFacts
<1>3. /\ Visited(t, p) \in JobType
      /\ Visited(t, p).active = t.active /\ Visited(t, p).boot = t.boot
      /\ Visited(t, p).host = t.host /\ Visited(t, p).id = t.id
  BY <1>1, VisitedFacts
<1> QED BY <1>1, <1>2, <1>3 DEF t

\* A path whose installation failed and which became a conflict.
LEMMA VisitedHoldBackFacts ==
    ASSUME NEW j \in JobType, NEW p \in Paths
    PROVE  LET v == Visited(HoldBack(j, p), p)
           IN  /\ v \in JobType
               /\ v.active = j.active /\ v.boot = j.boot /\ v.host = j.host
               /\ v.id = j.id /\ v.changed = j.changed /\ v.base = j.base
<1>1. HoldBack(j, p) \in JobType
  BY HoldBackFacts
<1> QED BY <1>1, HoldBackFacts, VisitedFacts

\* No rebase in progress is a well-typed job.
LEMMA NoJobType == NoJob \in JobType
BY DEF NoJob, JobType, Map, Const, Entry

\* rebase starts from the baseline it was given, and sees of each host file
\* either its content or the baseline's entry (a signature that still matches).
LEMMA ScanFacts ==
    ASSUME TypeOK, NEW s \in SnapshotType, NEW c \in SUBSET Paths,
           NEW keep \in SUBSET Paths, NEW take \in SUBSET Paths, NEW boot \in BOOLEAN
    PROVE  /\ Scan(keep, take, boot, s, c) \in JobType
           /\ Scan(keep, take, boot, s, c).id = s.id
           /\ Scan(keep, take, boot, s, c).base = s.base
           /\ \A p \in Paths :
                Scan(keep, take, boot, s, c).host[p] \in {s.base[p], Host(p)}
<1>1. \A p \in Paths : SeenHost(s, p) \in {s.base[p], Host(p)} /\ SeenHost(s, p) \in Entry
  BY HostIsPast DEF SeenHost, TypeOK, SnapshotType, Map
<1>2. stamp \in Map(Nat) /\ work \in Map(Entry)
  BY DEF TypeOK, WorkspaceTypeOK, Map
<1> QED BY <1>1, <1>2 DEF Scan, JobType, SnapshotType, Map

\* The seeded snapshot is the host as it is now.
LEMMA SeedFacts ==
    ASSUME TypeOK, NEW id \in Nat
    PROVE  /\ SeedSnapshot(id) \in SnapshotType
           /\ \A p \in Paths : SeedSnapshot(id).base[p] = Host(p)
           /\ [p \in Paths |-> Host(p)] \in Map(Entry)
<1>1. \A p \in Paths : Host(p) \in Entry /\ stamp[p] \in Nat
  BY HostIsPast DEF TypeOK, WorkspaceTypeOK
<1> QED BY <1>1 DEF SeedSnapshot, SnapshotType, Map

\* StateStore.save writes a well-typed baseline.
LEMMA SaveType ==
    ASSUME NEW s \in SnapshotType, NEW c \in SUBSET Paths
    PROVE  Save(s, c) \in SavedType
BY DEF Save, SavedType, SnapshotType

\* The manifest of a selection of paths is well typed.
LEMMA ManifestOfType ==
    ASSUME TypeOK, NEW S \in SUBSET Paths
    PROVE  ManifestOf(S) \in ManifestType
<1>1. [p \in S |-> [base |-> snap.base[p], staged |-> work[p]]] \in [S -> Op]
  BY DEF TypeOK, SnapshotType, Map, Op
<1>2. snap.id \in Nat
  BY DEF TypeOK, SnapshotType
<1> QED BY <1>1, <1>2 DEF ManifestOf, ManifestType

\* A manifest's operations are on workspace paths, with entries on both sides.
LEMMA ManifestFacts ==
    ASSUME NEW m \in ManifestType
    PROVE  /\ m.id \in Nat
           /\ DOMAIN m.ops \subseteq Paths
           /\ \A p \in DOMAIN m.ops : m.ops[p].base \in Entry /\ m.ops[p].staged \in Entry
<1>1. m.id \in Nat /\ m.ops \in UNION {[S -> Op] : S \in SUBSET Paths}
  BY DEF ManifestType
<1>2. PICK S \in SUBSET Paths : m.ops \in [S -> Op]
  BY <1>1
<1> QED BY <1>1, <1>2 DEF Op

-----------------------------------------------------------------------------
(* Type correctness.                                                       *)

\* A freshly seeded executor is well typed.
LEMMA TypeInit == StagingInit => TypeOK
<1> SUFFICES ASSUME StagingInit PROVE TypeOK
  OBVIOUS
<1>1. WorkspaceTypeOK
  BY WorkspaceTypeInit DEF StagingInit
<1>2. \A p \in Paths : Host(p) \in Entry /\ stamp[p] \in Nat
  BY <1>1, HostIsPast DEF WorkspaceTypeOK
<1>3. SeedSnapshot(0) \in SnapshotType
  BY <1>2 DEF SeedSnapshot, SnapshotType, Map
<1>4. Save(SeedSnapshot(0), {}) \in SavedType
  BY <1>3, SaveType
<1> QED BY <1>1, <1>2, <1>3, <1>4, NoJobType
        DEF StagingInit, TypeOK, Map, Const, ExecStates

\* Seeding, for discard and for a fresh start.
LEMMA SeedType ==
    ASSUME TypeOK, Seed
    PROVE  /\ work' \in Map(Entry) /\ snap' \in SnapshotType
           /\ conflicts' \in SUBSET Paths /\ saved' \in SavedType
           /\ nextId' \in Nat /\ toolWrote' \in Map(SUBSET Entry)
<1>1. snap' \in SnapshotType /\ work' \in Map(Entry) /\ nextId' \in Nat
  BY SeedFacts DEF Seed, TypeOK
<1>2. saved' \in SavedType
  BY <1>1, SaveType DEF Seed
<1> QED BY <1>1, <1>2 DEF Seed, Map, Const

\* Every handler, every step of a rebase and every crash keeps the types.
LEMMA TypeStep == TypeOK /\ [Next]_vars => TypeOK'
<1> SUFFICES ASSUME TypeOK, [Next]_vars PROVE TypeOK'
  OBVIOUS
<1> USE DEF deskVars, memVars, wsVars
<1>1. CASE UserStep
  <2>1. WorkspaceTypeOK'
    BY <1>1, UserEditFacts, UserRestoreFacts DEF UserStep, TypeOK
  <2> QED BY <1>1, <2>1 DEF UserStep, TypeOK, stagingVars
<1>2. CASE ToolStep
  <2>1. PICK p \in Paths, e \in Entry : ToolWrite(p, e)
    BY <1>2 DEF ToolStep
  <2>2. job' \in JobType
    BY <2>1 DEF ToolWrite, TypeOK, JobType
  <2>3. work' \in Map(Entry) /\ toolWrote' \in Map(SUBSET Entry)
    BY <2>1 DEF ToolWrite, TypeOK, Map
  <2> QED BY <2>1, <2>2, <2>3 DEF ToolWrite, TypeOK, WorkspaceTypeOK
<1>3. CASE DesktopStep
  <2>1. ASSUME NEW sel \in SUBSET Paths, Manifest(sel) PROVE TypeOK'
    <3>1. ManifestOf(FirstBatch(sel)) \in ManifestType
      BY ManifestOfType DEF FirstBatch
    <3> QED BY <2>1, <3>1 DEF Manifest, TypeOK, stagingVars, WorkspaceTypeOK
  <2>2. ASSUME NEW m \in offers, Decline(m) PROVE TypeOK'
    BY <2>2 DEF Decline, TypeOK, stagingVars, WorkspaceTypeOK
  <2>3. ASSUME NEW m \in offers, HostPublish(m) PROVE TypeOK'
    <3>1. m \in ManifestType
      BY DEF TypeOK
    <3>2. WorkspaceTypeOK'
      <4> DEFINE new == [p \in DOMAIN m.ops |-> m.ops[p].staged]
      <4>1. HostPut(new)
        BY <2>3 DEF HostPublish
      <4>2. DOMAIN new \subseteq Paths /\ \A p \in DOMAIN new : new[p] \in Entry
        BY <3>1, ManifestFacts
      <4> HIDE DEF new
      <4> QED BY <4>1, <4>2, HostPutFacts DEF TypeOK
    <3> QED BY <2>3, <3>1, <3>2 DEF HostPublish, TypeOK, stagingVars
  <2>4. ASSUME NEW m \in receipts, MarkPublished(m) PROVE TypeOK'
    <3>1. snap' \in SnapshotType
      <4>1. AdvancedBase(m) \in Map(Entry)
        BY DEF AdvancedBase, TypeOK, Map, SnapshotType
      <4> QED BY <2>4, <4>1 DEF MarkPublished, TypeOK, SnapshotType
    <3>2. saved' \in SavedType
      BY <2>4, <3>1, SaveType DEF MarkPublished, TypeOK
    <3> QED BY <2>4, <3>1, <3>2 DEF MarkPublished, TypeOK, WorkspaceTypeOK
  <2>5. ASSUME NEW m \in receipts, MarkFails(m) PROVE TypeOK'
    BY <2>5 DEF MarkFails, TypeOK, stagingVars, WorkspaceTypeOK
  <2> QED BY <1>3, <2>1, <2>2, <2>3, <2>4, <2>5 DEF DesktopStep
<1>4. CASE RebaseStep
  <2>1. ASSUME NEW keep \in SUBSET Paths, NEW take \in SUBSET Paths,
               RebaseStart(keep, take)
        PROVE  TypeOK'
    <3>1. job' \in JobType
      BY <2>1, ScanFacts DEF RebaseStart, TypeOK
    <3> QED BY <2>1, <3>1 DEF RebaseStart, TypeOK, WorkspaceTypeOK
  <2>2. ASSUME NEW p \in Paths, RebaseInstall(p) PROVE TypeOK'
    <3>1. job' \in JobType
      BY <2>2, VisitedSettledFacts DEF RebaseInstall, TypeOK
    <3>2. work' \in Map(Entry)
      BY <2>2 DEF RebaseInstall, TypeOK, Map, JobType
    <3> QED BY <2>2, <3>1, <3>2 DEF RebaseInstall, Visit, TypeOK, WorkspaceTypeOK
  <2>3. ASSUME NEW p \in Paths, RebaseInstallFails(p) PROVE TypeOK'
    <3>1. job' \in JobType
      BY <2>3, VisitedHoldBackFacts DEF RebaseInstallFails, TypeOK
    <3> QED BY <2>3, <3>1 DEF RebaseInstallFails, Visit, TypeOK, WorkspaceTypeOK
  <2>4. ASSUME NEW p \in Paths, RebaseAborts(p) PROVE TypeOK'
    BY <2>4, NoJobType DEF RebaseAborts, Visit, TypeOK, WorkspaceTypeOK
  <2>5. ASSUME NEW p \in Paths, RebaseNote(p) PROVE TypeOK'
    <3>1. job' \in JobType
      BY <2>5, VisitedNotedFacts DEF RebaseNote, TypeOK
    <3> QED BY <2>5, <3>1 DEF RebaseNote, Visit, TypeOK, WorkspaceTypeOK
  <2>6. CASE RebaseCommit
    <3>1. snap' \in SnapshotType /\ conflicts' \in SUBSET Paths /\ nextId' \in Nat
      BY <2>6 DEF RebaseCommit, CommitId, TypeOK, SnapshotType, JobType
    <3>2. saved' \in SavedType
      BY <2>6, <3>1, SaveType DEF RebaseCommit, TypeOK
    <3> QED BY <2>6, <3>1, <3>2, NoJobType
            DEF RebaseCommit, TypeOK, WorkspaceTypeOK, ExecStates
  <2>7. CASE RebaseVerifyFails
    BY <2>7, NoJobType DEF RebaseVerifyFails, TypeOK, WorkspaceTypeOK, ExecStates
  <2> QED BY <1>4, <2>1, <2>2, <2>3, <2>4, <2>5, <2>6, <2>7 DEF RebaseStep
<1>5. CASE DiscardStep
  <2>1. CASE DiscardClear
    BY <2>1 DEF DiscardClear, TypeOK, WorkspaceTypeOK, ExecStates, Map, Const, Entry
  <2>2. CASE DiscardForget
    <3>1. NoBaseline \in SavedType
      BY DEF NoBaseline, SavedType, Map, Const, Entry
    <3> QED BY <2>2, <3>1 DEF DiscardForget, TypeOK, WorkspaceTypeOK, ExecStates
  <2>3. CASE DiscardSeed
    BY <2>3, SeedType DEF DiscardSeed, TypeOK, WorkspaceTypeOK, ExecStates
  <2>4. ASSUME NEW S \in SUBSET Paths, DiscardClearFails(S) PROVE TypeOK'
    BY <2>4 DEF DiscardClearFails, TypeOK, WorkspaceTypeOK, ExecStates, Map, Entry
  <2>5. ASSUME NEW S \in SUBSET Paths, DiscardSeedFails(S) PROVE TypeOK'
    <3>1. \A p \in Paths : Host(p) \in Entry
      BY HostIsPast DEF TypeOK
    <3> QED BY <2>5, <3>1 DEF DiscardSeedFails, TypeOK, WorkspaceTypeOK, ExecStates, Map
  <2> QED BY <1>5, <2>1, <2>2, <2>3, <2>4, <2>5 DEF DiscardStep
<1>6. CASE ProcessStep
  <2>1. CASE Crash
    BY <2>1, NoJobType DEF Crash, TypeOK, WorkspaceTypeOK, ExecStates
  <2>2. CASE StartResume
    <3>1. snap' \in SnapshotType /\ conflicts' \in SUBSET Paths
      BY <2>2 DEF StartResume, TypeOK, SnapshotType, SavedType
    <3>2. job' \in JobType
      BY <2>2, <3>1, ScanFacts DEF StartResume, TypeOK, SavedType
    <3> QED BY <2>2, <3>1, <3>2 DEF StartResume, TypeOK, WorkspaceTypeOK, ExecStates
  <2>3. CASE StartFresh
    BY <2>3, SeedType DEF StartFresh, TypeOK, WorkspaceTypeOK, ExecStates
  <2> QED BY <1>6, <2>1, <2>2, <2>3 DEF ProcessStep
<1>7. CASE UNCHANGED vars
  BY <1>7 DEF vars, stagingVars, TypeOK, WorkspaceTypeOK
<1> QED BY <1>1, <1>2, <1>3, <1>4, <1>5, <1>6, <1>7 DEF Next

\* The executor's and the desktop's state stays well typed, whatever the
\* paths, the contents and the bounds.
THEOREM TypeCorrect == Spec => []TypeOK
<1>1. StagingInit => TypeOK
  BY TypeInit
<1>2. TypeOK /\ [Next]_vars => TypeOK'
  BY TypeStep
<1> QED BY <1>1, <1>2, PTL DEF Spec

-----------------------------------------------------------------------------
(* Where the baseline comes from.                                          *)

\* A step that leaves the workspace alone leaves every path's versions alone.
LEMMA PastSame ==
    ASSUME UNCHANGED wsVars, NEW p \in Paths
    PROVE  HostPast(p)' = HostPast(p) /\ Host(p)' = Host(p)
BY DEF wsVars, HostPast, Host

\* The parts of BaselineSources, for a step that says what it does to each.
LEMMA SourcesKept ==
    ASSUME BaselineSources,
           \A p \in Paths : HostPast(p) \subseteq HostPast(p)',
           TypeOK,
           \A p \in Paths : snap'.base[p] \in HostPast(p)',
           saved'.present => \A p \in Paths : saved'.base[p] \in HostPast(p)',
           job'.active => \A p \in Paths : job'.base[p] \in HostPast(p)'
                                           /\ job'.host[p] \in HostPast(p)',
           \A m \in receipts' : m \in receipts \/
               \A p \in DOMAIN m.ops : m.ops[p].staged \in HostPast(p)'
    PROVE  BaselineSources'
<1>1. ASSUME NEW m \in receipts', NEW p \in DOMAIN m.ops
      PROVE  m.ops[p].staged \in HostPast(p)'
  <2>1. CASE m \in receipts
    <3>1. p \in Paths
      BY <2>1, ManifestFacts DEF TypeOK
    <3> QED BY <2>1, <3>1 DEF BaselineSources
  <2>2. CASE m \notin receipts
    BY <2>2
  <2> QED BY <2>1, <2>2
<1>2. BaselineWasOnHost'
  BY DEF BaselineWasOnHost
<1> QED BY <1>1, <1>2 DEF BaselineSources

\* At first the baseline is the host.
LEMMA SourcesInit == StagingInit => BaselineSources
<1> SUFFICES ASSUME StagingInit PROVE BaselineSources
  OBVIOUS
<1>1. TypeOK
  BY TypeInit
<1>2. \A p \in Paths : Host(p) \in HostPast(p)
  BY <1>1, HostIsPast DEF TypeOK
<1>3. \A p \in Paths : snap.base[p] = Host(p) /\ saved.base[p] = Host(p)
  BY DEF StagingInit, SeedSnapshot, Save
<1>4. ~job.active /\ receipts = {}
  BY DEF StagingInit, NoJob
<1> QED BY <1>2, <1>3, <1>4 DEF BaselineSources, BaselineWasOnHost

\* Every step keeps the baselines, the scan of a running rebase and the
\* receipts of publications among the versions the host has had.
LEMMA SourcesStep == TypeOK /\ BaselineSources /\ [Next]_vars => BaselineSources'
<1> SUFFICES ASSUME TypeOK, BaselineSources, [Next]_vars PROVE BaselineSources'
  OBVIOUS
<1> USE DEF deskVars, memVars
<1>a. /\ \A p \in Paths : snap.base[p] \in HostPast(p)
      /\ saved.present => \A p \in Paths : saved.base[p] \in HostPast(p)
      /\ job.active => \A p \in Paths : job.base[p] \in HostPast(p)
                                        /\ job.host[p] \in HostPast(p)
  BY DEF BaselineSources, BaselineWasOnHost
<1>b. \A p \in Paths : Host(p) \in HostPast(p)
  BY HostIsPast DEF TypeOK
<1>1. CASE UserStep
  <2>1. \A p \in Paths : HostPast(p) \subseteq HostPast(p)'
    BY <1>1, UserEditFacts, UserRestoreFacts DEF UserStep, TypeOK
  <2> QED BY <1>1, <1>a, <2>1, SourcesKept DEF UserStep, stagingVars
<1>2. CASE ToolStep
  <2>1. PICK p \in Paths, e \in Entry : ToolWrite(p, e)
    BY <1>2 DEF ToolStep
  <2>2. job'.active = job.active /\ job'.base = job.base /\ job'.host = job.host
    BY <2>1 DEF ToolWrite, TypeOK, JobType
  <2> QED BY <1>a, <2>1, <2>2, PastSame, SourcesKept DEF ToolWrite
<1>3. CASE DesktopStep
  <2>1. ASSUME NEW sel \in SUBSET Paths, Manifest(sel) PROVE BaselineSources'
    BY <1>a, <2>1, PastSame, SourcesKept DEF Manifest, stagingVars
  <2>2. ASSUME NEW m \in offers, Decline(m) PROVE BaselineSources'
    BY <1>a, <2>2, PastSame, SourcesKept DEF Decline, stagingVars
  <2>3. ASSUME NEW m \in offers, HostPublish(m) PROVE BaselineSources'
    <3> DEFINE new == [p \in DOMAIN m.ops |-> m.ops[p].staged]
    <3>1. HostPut(new)
      BY <2>3 DEF HostPublish
    <3>2. DOMAIN new \subseteq Paths /\ \A p \in DOMAIN new : new[p] \in Entry
      BY ManifestFacts DEF TypeOK
    <3>3. DOMAIN new = DOMAIN m.ops /\ \A p \in DOMAIN new : new[p] = m.ops[p].staged
      OBVIOUS
    <3> HIDE DEF new
    <3>4. /\ WorkspaceTypeOK'
          /\ \A p \in Paths : HostPast(p) \subseteq HostPast(p)'
          /\ \A p \in DOMAIN m.ops : Host(p)' = m.ops[p].staged
      BY <3>1, <3>2, <3>3, HostPutFacts DEF TypeOK
    <3>5. \A p \in DOMAIN m.ops : m.ops[p].staged \in HostPast(p)'
      <4>1. \A p \in Paths : Host(p)' \in HostPast(p)'
        BY <3>4 DEF Host, HostPast, WorkspaceTypeOK
      <4> QED BY <3>2, <3>3, <3>4, <4>1
    <3>6. receipts' = receipts \cup {m} /\ UNCHANGED stagingVars
      BY <2>3 DEF HostPublish
    <3> QED BY <1>a, <3>4, <3>5, <3>6, SourcesKept DEF stagingVars
  <2>4. ASSUME NEW m \in receipts, MarkPublished(m) PROVE BaselineSources'
    <3>1. \A p \in DOMAIN m.ops : work[p] \in HostPast(p)
      BY <2>4 DEF MarkPublished, StagedMatches, BaselineSources
    <3>2. \A p \in Paths : AdvancedBase(m)[p] \in HostPast(p)
      BY <1>a, <3>1 DEF AdvancedBase
    <3>3. snap'.base = AdvancedBase(m) /\ saved'.base = AdvancedBase(m)
      BY <2>4 DEF MarkPublished, Save
    <3> QED BY <1>a, <2>4, <3>2, <3>3, PastSame, SourcesKept DEF MarkPublished
  <2>5. ASSUME NEW m \in receipts, MarkFails(m) PROVE BaselineSources'
    BY <1>a, <2>5, PastSame, SourcesKept DEF MarkFails, stagingVars
  <2> QED BY <1>3, <2>1, <2>2, <2>3, <2>4, <2>5 DEF DesktopStep
<1>4. CASE RebaseStep
  <2>a. ~NoJob.active
    BY DEF NoJob
  <2>1. ASSUME NEW keep \in SUBSET Paths, NEW take \in SUBSET Paths,
               RebaseStart(keep, take)
        PROVE  BaselineSources'
    <3>1. \A p \in Paths : job'.base[p] \in HostPast(p) /\ job'.host[p] \in HostPast(p)
      <4>1. snap \in SnapshotType /\ conflicts \in SUBSET Paths
        BY DEF TypeOK
      <4>2. /\ job'.base = snap.base
            /\ \A p \in Paths : job'.host[p] \in {snap.base[p], Host(p)}
        <5>1. job' = Scan(keep, take, FALSE, snap, conflicts)
          BY <2>1 DEF RebaseStart
        <5> HIDE DEF memVars, deskVars
        <5>2. TypeOK /\ keep \in SUBSET Paths /\ take \in SUBSET Paths /\ FALSE \in BOOLEAN
          OBVIOUS
        <5> DEFINE s == snap  c == conflicts
        <5>3. s \in SnapshotType /\ c \in SUBSET Paths
          BY <4>1
        <5> HIDE DEF s, c
        <5>4. /\ Scan(keep, take, FALSE, s, c).base = s.base
              /\ Scan(keep, take, FALSE, s, c).host = [p \in Paths |-> SeenHost(s, p)]
          BY ONLY DEF Scan
        <5>5. \A p \in Paths : SeenHost(s, p) \in {s.base[p], Host(p)}
          BY ONLY DEF SeenHost
        <5> QED BY ONLY <5>1, <5>4, <5>5 DEF s, c
      <4> QED BY <1>a, <1>b, <4>2
    <3> QED BY <1>a, <2>1, <3>1, PastSame, SourcesKept DEF RebaseStart
  <2>2. ASSUME NEW p \in Paths, RebaseInstall(p) PROVE BaselineSources'
    <3>1. /\ job'.active = job.active /\ job'.host = job.host
          /\ \A q \in Paths : job'.base[q] \in {job.base[q], job.host[q]}
      BY <2>2, VisitedSettledFacts DEF RebaseInstall, TypeOK
    <3> QED BY <1>a, <2>2, <3>1, PastSame, SourcesKept DEF RebaseInstall, Visit
  <2>3. ASSUME NEW p \in Paths, RebaseInstallFails(p) PROVE BaselineSources'
    <3>1. job'.active = job.active /\ job'.host = job.host /\ job'.base = job.base
      BY <2>3, VisitedHoldBackFacts DEF RebaseInstallFails, TypeOK
    <3> QED BY <1>a, <2>3, <3>1, PastSame, SourcesKept DEF RebaseInstallFails, Visit
  <2>4. ASSUME NEW p \in Paths, RebaseAborts(p) PROVE BaselineSources'
    BY <1>a, <2>a, <2>4, PastSame, SourcesKept DEF RebaseAborts, Visit
  <2>5. ASSUME NEW p \in Paths, RebaseNote(p) PROVE BaselineSources'
    <3>1. /\ job'.active = job.active /\ job'.host = job.host
          /\ \A q \in Paths : job'.base[q] \in {job.base[q], job.host[q]}
      BY <2>5, VisitedNotedFacts DEF RebaseNote, TypeOK
    <3> QED BY <1>a, <2>5, <3>1, PastSame, SourcesKept DEF RebaseNote, Visit
  <2>6. CASE RebaseCommit
    <3>1. snap'.base = job.base /\ (saved' = saved \/ saved'.base = job.base)
      BY <2>6 DEF RebaseCommit, Save
    <3> QED BY <1>a, <2>a, <2>6, <3>1, PastSame, SourcesKept DEF RebaseCommit
  <2>7. CASE RebaseVerifyFails
    BY <1>a, <2>a, <2>7, PastSame, SourcesKept DEF RebaseVerifyFails
  <2> QED BY <1>4, <2>1, <2>2, <2>3, <2>4, <2>5, <2>6, <2>7 DEF RebaseStep
<1>5. CASE DiscardStep
  <2>1. CASE DiscardClear
    BY <1>a, <2>1, PastSame, SourcesKept DEF DiscardClear
  <2>2. CASE DiscardForget
    BY <1>a, <2>2, PastSame, SourcesKept DEF DiscardForget, NoBaseline
  <2>3. CASE DiscardSeed
    <3>1. \A p \in Paths : snap'.base[p] = Host(p) /\ saved'.base[p] = Host(p)
      BY <2>3 DEF DiscardSeed, Seed, SeedSnapshot, Save
    <3> QED BY <1>a, <1>b, <2>3, <3>1, PastSame, SourcesKept DEF DiscardSeed
  <2>4. ASSUME NEW S \in SUBSET Paths, DiscardClearFails(S) PROVE BaselineSources'
    BY <1>a, <2>4, PastSame, SourcesKept DEF DiscardClearFails
  <2>5. ASSUME NEW S \in SUBSET Paths, DiscardSeedFails(S) PROVE BaselineSources'
    BY <1>a, <2>5, PastSame, SourcesKept DEF DiscardSeedFails
  <2> QED BY <1>5, <2>1, <2>2, <2>3, <2>4, <2>5 DEF DiscardStep
<1>6. CASE ProcessStep
  <2>1. CASE Crash
    BY <1>a, <2>1, PastSame, SourcesKept DEF Crash, NoJob
  <2>2. CASE StartResume
    <3>1. snap' \in SnapshotType /\ snap'.base = saved.base
      BY <2>2 DEF StartResume, TypeOK, SnapshotType, SavedType
    <3>2. \A p \in Paths : job'.base[p] \in HostPast(p) /\ job'.host[p] \in HostPast(p)
      <4>1. saved.conf \in SUBSET Paths
        BY DEF TypeOK, SavedType
      <4>2. \A p \in Paths : saved.base[p] \in HostPast(p)
        BY <1>a, <2>2 DEF StartResume
      <4>3. /\ job'.base = snap'.base
            /\ \A p \in Paths : job'.host[p] \in {snap'.base[p], Host(p)}
        BY <2>2, <3>1, <4>1, ScanFacts DEF StartResume
      <4> QED BY <1>b, <3>1, <4>2, <4>3
    <3> QED BY <1>a, <2>2, <3>1, <3>2, PastSame, SourcesKept DEF StartResume
  <2>3. CASE StartFresh
    <3>1. \A p \in Paths : snap'.base[p] = Host(p) /\ saved'.base[p] = Host(p)
      BY <2>3 DEF StartFresh, Seed, SeedSnapshot, Save
    <3> QED BY <1>a, <1>b, <2>3, <3>1, PastSame, SourcesKept DEF StartFresh
  <2> QED BY <1>6, <2>1, <2>2, <2>3 DEF ProcessStep
<1>7. CASE UNCHANGED vars
  BY <1>a, <1>7, PastSame, SourcesKept DEF vars, stagingVars
<1> QED BY <1>1, <1>2, <1>3, <1>4, <1>5, <1>6, <1>7 DEF Next

\* The baseline never names a file version the host did not have: absorbing
\* host changes, publishing, crashing and restarting in any order included.
THEOREM BaselineComesFromHost == Spec => []BaselineWasOnHost
<1>1. StagingInit => TypeOK /\ BaselineSources
  BY TypeInit, SourcesInit
<1>2. TypeOK /\ BaselineSources /\ [Next]_vars => (TypeOK /\ BaselineSources)'
  BY TypeStep, SourcesStep
<1>3. BaselineSources => BaselineWasOnHost
  BY DEF BaselineSources
<1> QED BY <1>1, <1>2, <1>3, PTL DEF Spec

-----------------------------------------------------------------------------
(* What is on the state volume.                                            *)

\* Every step leaves the saved baseline's id and the saved conflicts current.
LEMMA SavedStep == TypeOK /\ SavedIsCurrent /\ [Next]_vars => SavedIsCurrent'
<1> SUFFICES ASSUME TypeOK, SavedIsCurrent, [Next]_vars PROVE SavedIsCurrent'
  OBVIOUS
<1> USE DEF SavedIsCurrent, deskVars, memVars
<1>a. ~NoJob.active
  BY DEF NoJob
<1>1. CASE UserStep
  BY <1>1 DEF UserStep, stagingVars
<1>2. CASE ToolStep
  BY <1>2 DEF ToolStep, ToolWrite
<1>3. CASE DesktopStep
  <2>1. ASSUME NEW m \in receipts, MarkPublished(m) PROVE SavedIsCurrent'
    BY <2>1 DEF MarkPublished, Save
  <2> QED BY <1>3, <2>1
          DEF DesktopStep, Manifest, Decline, HostPublish, MarkFails, stagingVars
<1>4. CASE RebaseStep
  <2>1. ASSUME NEW keep \in SUBSET Paths, NEW take \in SUBSET Paths,
               RebaseStart(keep, take)
        PROVE  SavedIsCurrent'
    BY <2>1 DEF RebaseStart
  <2>2. ASSUME NEW p \in Paths,
               \/ RebaseInstall(p) \/ RebaseInstallFails(p)
               \/ RebaseAborts(p) \/ RebaseNote(p)
        PROVE  SavedIsCurrent'
    BY <2>2 DEF RebaseInstall, RebaseInstallFails, RebaseAborts, RebaseNote, Visit
  <2>3. CASE RebaseCommit
    <3>1. /\ exec' = "serving" \/ exec' = exec
          /\ exec # "down" /\ torn' = torn /\ exec \in ExecStates
      BY <2>3 DEF RebaseCommit, TypeOK
    <3>2. CASE NeedsSave(job)
      <4>1. saved'.present /\ saved'.id = snap'.id /\ saved'.conf = conflicts'
        BY <2>3, <3>2 DEF RebaseCommit, Save
      <4> QED BY <3>1, <4>1 DEF ExecStates
    <3>3. CASE ~NeedsSave(job)
      <4>1. saved' = saved /\ snap'.id = snap.id /\ conflicts' = conflicts
        BY <2>3, <3>3 DEF RebaseCommit, NeedsSave
      <4> QED BY <3>1, <4>1 DEF ExecStates
    <3> QED BY <3>2, <3>3
  <2>4. CASE RebaseVerifyFails
    BY <1>a, <2>4 DEF RebaseVerifyFails
  <2> QED BY <1>4, <2>1, <2>2, <2>3, <2>4 DEF RebaseStep
<1>5. CASE DiscardStep
  <2>1. CASE DiscardSeed
    BY <2>1 DEF DiscardSeed, Seed, Save
  <2>2. ASSUME NEW S \in SUBSET Paths, DiscardClearFails(S) \/ DiscardSeedFails(S)
        PROVE  SavedIsCurrent'
    BY <2>2 DEF DiscardClearFails, DiscardSeedFails
  <2> QED BY <1>5, <2>1, <2>2 DEF DiscardStep, DiscardClear, DiscardForget
<1>6. CASE ProcessStep
  <2>1. CASE Crash
    BY <1>a, <2>1 DEF Crash
  <2>2. CASE StartResume
    BY <2>2 DEF StartResume
  <2>3. CASE StartFresh
    BY <2>3 DEF StartFresh, Seed, Save
  <2> QED BY <1>6, <2>1, <2>2, <2>3 DEF ProcessStep
<1>7. CASE UNCHANGED vars
  BY <1>7 DEF vars, stagingVars
<1> QED BY <1>1, <1>2, <1>3, <1>4, <1>5, <1>6, <1>7 DEF Next

-----------------------------------------------------------------------------
(* Snapshot ids.                                                           *)

\* A step that leaves the baselines and the ids alone, and in which the
\* desktop gets no new manifest, keeps the ids in agreement.
LEMMA IdsKept ==
    ASSUME IdsAgree,
           snap' = snap, saved' = saved, nextId' = nextId,
           offers' \cup receipts' \subseteq offers \cup receipts,
           job'.active /\ ~job'.changed =>
               job.active /\ ~job.changed /\ job'.id = job.id /\ job'.base = job.base
    PROVE  IdsAgree'
BY DEF IdsAgree, Agrees

\* A step that names a new baseline nextId, and saves it, keeps them too.
LEMMA IdsRenewed ==
    ASSUME TypeOK, IdsAgree,
           snap'.id = nextId, saved'.id = nextId, saved'.base = snap'.base,
           nextId' = nextId + 1,
           offers' \cup receipts' \subseteq offers \cup receipts,
           job'.active /\ ~job'.changed =>
               job.active /\ ~job.changed /\ job'.id = job.id /\ job'.base = job.base
    PROVE  IdsAgree'
<1>1. nextId \in Nat /\ \A m \in offers \cup receipts : m.id \in Nat /\ m.id < nextId
  BY ManifestFacts DEF TypeOK, IdsAgree
<1>2. \A m \in offers' \cup receipts' : m.id < nextId' /\ m.id # nextId
  BY <1>1
<1>3. snap'.id < nextId' /\ saved'.id < nextId'
  BY <1>1
<1>4. ASSUME job'.active, ~job'.changed
      PROVE  /\ job'.id < nextId' /\ job'.id # nextId
             /\ \A m \in offers' \cup receipts' : Agrees(m, job'.id, job'.base)
  <2>1. job.id < nextId /\ job.id \in Nat
    BY <1>4 DEF IdsAgree, TypeOK, JobType
  <2>2. \A m \in offers \cup receipts : Agrees(m, job.id, job.base)
    BY <1>4 DEF IdsAgree
  <2> QED BY <1>1, <1>4, <2>1, <2>2
<1> QED BY <1>2, <1>3, <1>4 DEF IdsAgree, Agrees

\* At first there is one baseline, saved, and no manifest.
LEMMA IdsInit == StagingInit => IdsAgree
<1> SUFFICES ASSUME StagingInit PROVE IdsAgree
  OBVIOUS
<1>1. snap.id = 0 /\ saved.id = 0 /\ saved.base = snap.base /\ nextId = 1
  BY DEF StagingInit, SeedSnapshot, Save
<1>2. offers \cup receipts = {} /\ ~job.active
  BY DEF StagingInit, NoJob
<1> QED BY <1>1, <1>2 DEF IdsAgree

\* Every step keeps one baseline per id: a rebase that changed its baseline
\* takes a fresh id, and so do a publication and a seed.
LEMMA IdsStep == TypeOK /\ IdsAgree /\ [Next]_vars => IdsAgree'
<1> SUFFICES ASSUME TypeOK, IdsAgree, [Next]_vars PROVE IdsAgree'
  OBVIOUS
<1> USE DEF deskVars, memVars
<1>a. ~NoJob.active
  BY DEF NoJob
<1>1. CASE UserStep
  BY <1>1, IdsKept DEF UserStep, stagingVars
<1>2. CASE ToolStep
  <2>1. PICK p \in Paths, e \in Entry : ToolWrite(p, e)
    BY <1>2 DEF ToolStep
  <2>2. /\ job'.active = job.active /\ job'.changed = job.changed
        /\ job'.id = job.id /\ job'.base = job.base
    BY <2>1 DEF ToolWrite, TypeOK, JobType
  <2> QED BY <2>1, <2>2, IdsKept DEF ToolWrite
<1>3. CASE DesktopStep
  <2>1. ASSUME NEW sel \in SUBSET Paths, Manifest(sel) PROVE IdsAgree'
    <3>1. PICK m : /\ m.id = snap.id
                   /\ \A p \in DOMAIN m.ops : m.ops[p].base = snap.base[p]
                   /\ offers' = offers \cup {m}
      <4>1. LET m == ManifestOf(FirstBatch(sel))
            IN  /\ m.id = snap.id
                /\ \A p \in DOMAIN m.ops : m.ops[p].base = snap.base[p]
        BY DEF ManifestOf
      <4> QED BY <2>1, <4>1 DEF Manifest
    <3>2. UNCHANGED <<snap, saved, nextId, job, receipts>>
      BY <2>1 DEF Manifest, stagingVars
    <3>3. Agrees(m, snap.id, snap.base) /\ m.id < nextId
      BY <3>1 DEF Agrees, IdsAgree
    <3>4. saved.present => Agrees(m, saved.id, saved.base)
      BY <3>1 DEF Agrees, IdsAgree
    <3>5. job.active /\ ~job.changed => Agrees(m, job.id, job.base)
      BY <3>1 DEF Agrees, IdsAgree
    <3> QED BY <3>1, <3>2, <3>3, <3>4, <3>5 DEF IdsAgree
  <2>2. ASSUME NEW m \in offers, Decline(m) PROVE IdsAgree'
    BY <2>2, IdsKept DEF Decline, stagingVars
  <2>3. ASSUME NEW m \in offers, HostPublish(m) PROVE IdsAgree'
    BY <2>3, IdsKept DEF HostPublish, stagingVars
  <2>4. ASSUME NEW m \in receipts, MarkPublished(m) PROVE IdsAgree'
    <3>1. /\ snap'.id = nextId /\ saved'.id = nextId /\ saved'.base = snap'.base
          /\ nextId' = nextId + 1 /\ job' = job
          /\ offers' \cup receipts' \subseteq offers \cup receipts
      BY <2>4 DEF MarkPublished, Save
    <3> QED BY <3>1, IdsRenewed
  <2>5. ASSUME NEW m \in receipts, MarkFails(m) PROVE IdsAgree'
    BY <2>5, IdsKept DEF MarkFails, stagingVars
  <2> QED BY <1>3, <2>1, <2>2, <2>3, <2>4, <2>5 DEF DesktopStep
<1>4. CASE RebaseStep
  <2>1. ASSUME NEW keep \in SUBSET Paths, NEW take \in SUBSET Paths,
               RebaseStart(keep, take)
        PROVE  IdsAgree'
    <3>1. job'.id = snap.id /\ job'.base = snap.base
      BY <2>1 DEF RebaseStart, Scan
    <3>2. UNCHANGED <<snap, saved, nextId, offers, receipts>>
      BY <2>1 DEF RebaseStart
    <3> QED BY <3>1, <3>2 DEF IdsAgree
  <2>2. ASSUME NEW p \in Paths, RebaseInstall(p) PROVE IdsAgree'
    <3>1. job'.changed
      BY <2>2, VisitedSettledFacts DEF RebaseInstall, TypeOK
    <3> QED BY <2>2, <3>1, IdsKept DEF RebaseInstall, Visit
  <2>3. ASSUME NEW p \in Paths, RebaseInstallFails(p) PROVE IdsAgree'
    <3>1. /\ job'.active = job.active /\ job'.id = job.id
          /\ job'.changed = job.changed /\ job'.base = job.base
      BY <2>3, VisitedHoldBackFacts DEF RebaseInstallFails, TypeOK
    <3> QED BY <2>3, <3>1, IdsKept DEF RebaseInstallFails, Visit
  <2>4. ASSUME NEW p \in Paths, RebaseAborts(p) PROVE IdsAgree'
    BY <1>a, <2>4, IdsKept DEF RebaseAborts, Visit
  <2>5. ASSUME NEW p \in Paths, RebaseNote(p) PROVE IdsAgree'
    <3>1. /\ job'.active = job.active /\ job'.id = job.id
          /\ ~job'.changed => job'.base = job.base /\ ~job.changed
      BY <2>5, VisitedNotedFacts DEF RebaseNote, TypeOK
    <3> QED BY <2>5, <3>1, IdsKept DEF RebaseNote, Visit
  <2>6. CASE RebaseCommit
    <3>1. CASE job.changed
      <4>1. snap'.id = nextId /\ nextId' = nextId + 1 /\ job' = NoJob
            /\ offers' = offers /\ receipts' = receipts
        BY <2>6, <3>1 DEF RebaseCommit, CommitId
      <4>2. NeedsSave(job)
        <5>1. CommitId(job) = nextId
          BY <3>1 DEF CommitId
        <5>2. snap.id < nextId /\ snap.id \in Nat /\ nextId \in Nat
          BY DEF IdsAgree, TypeOK, SnapshotType
        <5> QED BY <5>1, <5>2 DEF NeedsSave
      <4>3. saved'.id = nextId /\ saved'.base = snap'.base
        BY <2>6, <4>1, <4>2 DEF RebaseCommit, Save
      <4> QED BY <1>a, <4>1, <4>3, IdsRenewed
    <3>2. CASE ~job.changed
      <4>1. /\ snap'.id = job.id /\ snap'.base = job.base /\ nextId' = nextId
            /\ job' = NoJob /\ offers' = offers /\ receipts' = receipts
            /\ \/ saved' = saved
               \/ saved'.id = job.id /\ saved'.base = job.base
        BY <2>6, <3>2 DEF RebaseCommit, CommitId, Save
      <4>2. /\ job.id < nextId
            /\ saved.present /\ job.id = saved.id => job.base = saved.base
            /\ \A m \in offers \cup receipts : Agrees(m, job.id, job.base)
        BY <2>6, <3>2 DEF RebaseCommit, IdsAgree
      <4> QED BY <1>a, <4>1, <4>2 DEF IdsAgree
    <3> QED BY <3>1, <3>2
  <2>7. CASE RebaseVerifyFails
    BY <1>a, <2>7, IdsKept DEF RebaseVerifyFails
  <2> QED BY <1>4, <2>1, <2>2, <2>3, <2>4, <2>5, <2>6, <2>7 DEF RebaseStep
<1>5. CASE DiscardStep
  <2>1. CASE DiscardClear
    BY <2>1, IdsKept DEF DiscardClear
  <2>2. CASE DiscardForget
    <3>1. ~saved'.present /\ UNCHANGED <<snap, nextId, job, offers, receipts>>
      BY <2>2 DEF DiscardForget, NoBaseline
    <3> QED BY <3>1 DEF IdsAgree
  <2>3. CASE DiscardSeed
    <3>1. /\ snap'.id = nextId /\ saved'.id = nextId /\ saved'.base = snap'.base
          /\ nextId' = nextId + 1 /\ UNCHANGED <<job, offers, receipts>>
      BY <2>3 DEF DiscardSeed, Seed, SeedSnapshot, Save
    <3> QED BY <3>1, IdsRenewed
  <2>4. ASSUME NEW S \in SUBSET Paths, DiscardClearFails(S) PROVE IdsAgree'
    BY <2>4, IdsKept DEF DiscardClearFails
  <2>5. ASSUME NEW S \in SUBSET Paths, DiscardSeedFails(S) PROVE IdsAgree'
    BY <2>5, IdsKept DEF DiscardSeedFails
  <2> QED BY <1>5, <2>1, <2>2, <2>3, <2>4, <2>5 DEF DiscardStep
<1>6. CASE ProcessStep
  <2>1. CASE Crash
    BY <1>a, <2>1, IdsKept DEF Crash
  <2>2. CASE StartResume
    <3>1. /\ snap'.id = saved.id /\ snap'.base = saved.base
          /\ job'.id = saved.id /\ job'.base = saved.base
          /\ UNCHANGED <<saved, nextId, offers, receipts>>
          /\ saved.present
      BY <2>2 DEF StartResume, Scan
    <3> QED BY <3>1 DEF IdsAgree
  <2>3. CASE StartFresh
    <3>1. /\ snap'.id = nextId /\ saved'.id = nextId /\ saved'.base = snap'.base
          /\ nextId' = nextId + 1 /\ UNCHANGED <<job, offers, receipts>>
      BY <2>3 DEF StartFresh, Seed, SeedSnapshot, Save
    <3> QED BY <3>1, IdsRenewed
  <2> QED BY <1>6, <2>1, <2>2, <2>3 DEF ProcessStep
<1>7. CASE UNCHANGED vars
  BY <1>7, IdsKept DEF vars, stagingVars
<1> QED BY <1>1, <1>2, <1>3, <1>4, <1>5, <1>6, <1>7 DEF Next

\* The check mark_published makes, that the manifest names the current
\* snapshot id, is enough: whatever rebases, publications, discards, crashes
\* and restarts came between, the baseline it then advances is the one the
\* manifest was made from.
THEOREM SnapshotIdIsEnough == Spec => []IdNamesBaseline
<1>1. StagingInit => TypeOK /\ IdsAgree
  BY TypeInit, IdsInit
<1>2. TypeOK /\ IdsAgree /\ [Next]_vars => (TypeOK /\ IdsAgree)'
  BY TypeStep, IdsStep
<1>3. IdsAgree => IdNamesBaseline
  BY DEF IdsAgree, Agrees, IdNamesBaseline
<1> QED BY <1>1, <1>2, <1>3, PTL DEF Spec

\* A crash of an idle executor loses nothing: the baseline and the conflicts
\* on the state volume are the ones in memory.
THEOREM IdleStateIsDurable == Spec => []DurableWhenIdle
<1>1. StagingInit => TypeOK /\ IdsAgree /\ SavedIsCurrent
  <2>1. StagingInit => SavedIsCurrent
    BY DEF StagingInit, SavedIsCurrent, Save, SeedSnapshot
  <2> QED BY <2>1, TypeInit, IdsInit
<1>2. TypeOK /\ IdsAgree /\ SavedIsCurrent /\ [Next]_vars
      => (TypeOK /\ IdsAgree /\ SavedIsCurrent)'
  BY TypeStep, IdsStep, SavedStep
<1>3. IdsAgree /\ SavedIsCurrent => DurableWhenIdle
  BY DEF IdsAgree, SavedIsCurrent, DurableWhenIdle
<1> QED BY <1>1, <1>2, <1>3, PTL DEF Spec

-----------------------------------------------------------------------------
(* What staging holds.                                                     *)

\* Every step leaves in staging what a tool wrote or what the host had: what a
\* rebase installs was seen on the host, and a seed copies the host.
LEMMA NothingInventedStep ==
    TypeOK /\ BaselineSources /\ SavedIsCurrent /\ NothingInvented /\ [Next]_vars
    => NothingInvented'
<1> SUFFICES ASSUME TypeOK, BaselineSources, SavedIsCurrent, NothingInvented, [Next]_vars
             PROVE  NothingInvented'
  OBVIOUS
<1> USE DEF deskVars, memVars
<1>a. \A p \in Paths : HostPast(p) \subseteq HostPast(p)'
  <2>1. CASE UserStep
    BY <2>1, UserEditFacts, UserRestoreFacts DEF UserStep, TypeOK
  <2>2. ASSUME NEW m \in offers, HostPublish(m) PROVE \A p \in Paths : HostPast(p) \subseteq HostPast(p)'
    <3>1. m \in ManifestType
      BY DEF TypeOK
    <3>2. DOMAIN m.ops \subseteq Paths /\ \A p \in DOMAIN m.ops : m.ops[p].staged \in Entry
      BY <3>1, ManifestFacts
    <3> DEFINE new == [p \in DOMAIN m.ops |-> m.ops[p].staged]
    <3>3. HostPut(new) /\ DOMAIN new \subseteq Paths /\ \A p \in DOMAIN new : new[p] \in Entry
      BY <2>2, <3>2 DEF HostPublish
    <3> HIDE DEF new
    <3> QED BY <3>3, HostPutFacts DEF TypeOK
  <2>3. CASE UNCHANGED written
    BY <2>3 DEF HostPast
  <2> QED
    BY <2>1, <2>2, <2>3
       DEF Next, ToolStep, ToolWrite, DesktopStep, Manifest, Decline, MarkPublished,
           MarkFails, RebaseStep, RebaseStart, RebaseInstall, RebaseInstallFails,
           RebaseAborts, RebaseNote, Visit, RebaseCommit, RebaseVerifyFails, DiscardStep,
           DiscardClear, DiscardForget, DiscardSeed, DiscardClearFails, DiscardSeedFails,
           ProcessStep, Crash, StartResume, StartFresh, vars, wsVars, stagingVars
<1>b. CASE UNCHANGED <<work, toolWrote, torn>>
  BY <1>a, <1>b DEF NothingInvented
<1>c. CASE torn'
  BY <1>c DEF NothingInvented
<1>1. ASSUME NEW p \in Paths, NEW e \in Entry, ToolWrite(p, e) PROVE NothingInvented'
  BY <1>1, <1>a DEF ToolWrite, NothingInvented, TypeOK, Map
<1>2. ASSUME NEW p \in Paths, RebaseInstall(p) PROVE NothingInvented'
  <2>1. job.host[p] \in HostPast(p)'
    BY <1>2, <1>a DEF RebaseInstall, Visit, BaselineSources
  <2> QED BY <1>2, <1>a, <2>1 DEF RebaseInstall, Visit, NothingInvented, TypeOK, Map
<1>3. CASE DiscardSeed \/ StartFresh
  <2>1. work' = [p \in Paths |-> Host(p)] /\ \A p \in Paths : Host(p) \in HostPast(p)
    BY <1>3, HostIsPast DEF DiscardSeed, StartFresh, Seed, TypeOK
  <2> QED BY <1>a, <2>1 DEF NothingInvented
<1>4. ASSUME NEW done \in SUBSET Paths, DiscardSeedFails(done) PROVE NothingInvented'
  BY <1>4, <1>c DEF DiscardSeedFails, SavedIsCurrent
<1> QED
  BY <1>b, <1>c, <1>1, <1>2, <1>3, <1>4
     DEF Next, UserStep, ToolStep, DesktopStep, Manifest, Decline, HostPublish,
         MarkPublished, MarkFails, RebaseStep, RebaseStart, RebaseInstallFails,
         RebaseAborts, RebaseNote, Visit, RebaseCommit, RebaseVerifyFails, DiscardStep,
         DiscardClear, DiscardForget, DiscardClearFails, ProcessStep, Crash, StartResume,
         vars, stagingVars

\* Nothing in staging was made up: unless a discard is half done, each file is
\* as a tool wrote it since the last seed or as the host had it once.
THEOREM StagingIsSourced == Spec => []NothingInvented
<1>1. StagingInit => TypeOK /\ BaselineSources /\ SavedIsCurrent /\ NothingInvented
  <2>1. StagingInit => SavedIsCurrent
    BY DEF StagingInit, SavedIsCurrent, Save, SeedSnapshot
  <2>2. StagingInit => NothingInvented
    BY TypeInit, HostIsPast DEF StagingInit, NothingInvented, TypeOK
  <2> QED BY <2>1, <2>2, TypeInit, SourcesInit
<1>2. TypeOK /\ BaselineSources /\ SavedIsCurrent /\ NothingInvented /\ [Next]_vars
      => (TypeOK /\ BaselineSources /\ SavedIsCurrent /\ NothingInvented)'
  BY TypeStep, SourcesStep, SavedStep, NothingInventedStep
<1> QED BY <1>1, <1>2, PTL DEF Spec

-----------------------------------------------------------------------------
(* What a rebase accounts for, and what it costs.                          *)

\* A path whose visit is over has the host version that was seen as its
\* baseline, or is a conflict.
VisitsSettle ==
    job.active =>
        \A p \in Paths \ job.todo : job.base[p] = job.host[p] \/ p \in job.conf

\* A path the loop has still to visit: the staged file is in the baseline, or
\* it is as the scan saw it, and the loop compares it with the baseline's entry.
StillStaged(p) ==
    \/ snap.base[p] = work[p]
    \/ job.staged[p] = work[p] /\ job.base[p] = snap.base[p]

UnvisitedKept ==
    job.active /\ ~torn => \A p \in job.todo \ job.raced : StillStaged(p)

\* Only a discard forgets the saved baseline.
SeedIsSaved == torn \/ saved.present

RebaseInv == VisitsSettle /\ UnvisitedKept /\ SeedIsSaved

\* k is the rebase j after the visit of path p: the rest of the loop, and the
\* tables' entries of the other paths, are as they were.
AfterVisit(j, k, p) ==
    /\ k \in JobType
    /\ k.active = j.active /\ k.host = j.host /\ k.staged = j.staged
    /\ k.raced = j.raced /\ k.take = j.take
    /\ k.todo = j.todo \ {p}
    /\ \A q \in Paths \ {p} :
          k.base[q] = j.base[q] /\ (q \in k.conf <=> q \in j.conf)
    /\ k.base[p] = k.host[p] \/ p \in k.conf

\* A path the host won, or on which both sides agree: the baseline moves.
LEMMA SettledVisit ==
    ASSUME NEW j \in JobType, NEW p \in Paths
    PROVE  AfterVisit(j, Visited(Settled(Adopt(j, p), p), p), p)
<1> DEFINE a == Adopt(j, p)
           s == Settled(a, p)
           v == Visited(s, p)
<1>1. /\ a \in JobType /\ a.base = [j.base EXCEPT ![p] = j.host[p]]
      /\ a.active = j.active /\ a.host = j.host /\ a.todo = j.todo
      /\ a.conf = j.conf /\ a.staged = j.staged /\ a.raced = j.raced
      /\ a.take = j.take
  BY DEF Adopt, JobType, Map
<1> HIDE DEF a
<1>2. /\ s \in JobType /\ s.base = a.base
      /\ s.active = a.active /\ s.host = a.host /\ s.todo = a.todo
      /\ s.conf = a.conf \ {p} /\ s.staged = a.staged /\ s.raced = a.raced
      /\ s.take = a.take
  BY <1>1 DEF Settled, JobType, Map
<1> HIDE DEF s
<1>3. /\ v \in JobType /\ v.base = s.base
      /\ v.active = s.active /\ v.host = s.host /\ v.todo = s.todo \ {p}
      /\ v.conf = s.conf /\ v.staged = s.staged /\ v.raced = s.raced
      /\ v.take = s.take
  BY <1>2 DEF Visited, JobType, Map
<1> HIDE DEF v
<1>4. AfterVisit(j, v, p)
  BY <1>1, <1>2, <1>3 DEF AfterVisit, JobType, Map
<1> QED BY <1>4 DEF v, s, a

\* A path held back: it is a conflict.
LEMMA HeldVisit ==
    ASSUME NEW j \in JobType, NEW p \in Paths
    PROVE  AfterVisit(j, Visited(HoldBack(j, p), p), p)
<1> DEFINE h == HoldBack(j, p)
           v == Visited(h, p)
<1>1. /\ h \in JobType /\ h.base = j.base
      /\ h.active = j.active /\ h.host = j.host /\ h.todo = j.todo
      /\ h.conf = j.conf \cup {p} /\ h.staged = j.staged /\ h.raced = j.raced
      /\ h.take = j.take
  BY DEF HoldBack, JobType, Map
<1> HIDE DEF h
<1>2. /\ v \in JobType /\ v.base = h.base
      /\ v.active = h.active /\ v.host = h.host /\ v.todo = h.todo \ {p}
      /\ v.conf = h.conf /\ v.staged = h.staged /\ v.raced = h.raced
      /\ v.take = h.take
  BY <1>1 DEF Visited, JobType, Map
<1> HIDE DEF v
<1>3. AfterVisit(j, v, p)
  BY <1>1, <1>2 DEF AfterVisit
<1> QED BY <1>3 DEF v, h

\* A path the host did not change: its baseline entry is the version seen.
LEMMA UnmovedVisit ==
    ASSUME NEW j \in JobType, NEW p \in Paths, j.host[p] = j.base[p]
    PROVE  AfterVisit(j, Visited(Unmoved(j, p), p), p)
<1> DEFINE u == Unmoved(j, p)
           v == Visited(u, p)
           s == IF j.host[p] = Absent THEN j ELSE [j EXCEPT !.sigs[p] = j.at[p]]
<1>1. /\ s \in JobType /\ s.base = j.base
      /\ s.active = j.active /\ s.host = j.host /\ s.todo = j.todo
      /\ s.conf = j.conf /\ s.staged = j.staged /\ s.raced = j.raced
      /\ s.take = j.take
  BY DEF JobType, Map
<1>2. u = IF p \in j.conf THEN Settled(s, p) ELSE s
  BY DEF Unmoved
<1> HIDE DEF s, u
<1>3. /\ u \in JobType /\ u.base = j.base
      /\ u.active = j.active /\ u.host = j.host /\ u.todo = j.todo
      /\ u.conf = j.conf \ {p} /\ u.staged = j.staged /\ u.raced = j.raced
      /\ u.take = j.take
  BY <1>1, <1>2 DEF Settled, JobType
<1>4. /\ v \in JobType /\ v.base = u.base
      /\ v.active = u.active /\ v.host = u.host /\ v.todo = u.todo \ {p}
      /\ v.conf = u.conf /\ v.staged = u.staged /\ v.raced = u.raced
      /\ v.take = u.take
  BY <1>3 DEF Visited, JobType
<1> HIDE DEF v
<1>5. AfterVisit(j, v, p)
  BY <1>3, <1>4 DEF AfterVisit
<1> QED BY <1>5 DEF v, u

\* A path that needs no copy.
LEMMA NotedVisit ==
    ASSUME NEW j \in JobType, NEW p \in Paths
    PROVE  AfterVisit(j, Visited(Noted(j, p), p), p)
<1>1. CASE Branch(j, p) \in {"keep", "same"}
  <2>1. Noted(j, p) = Settled(Adopt(j, p), p)
    BY <1>1 DEF Noted
  <2> QED BY <2>1, SettledVisit
<1>2. CASE Branch(j, p) = "unmoved"
  <2>1. Noted(j, p) = Unmoved(j, p)
    BY <1>2 DEF Noted
  <2>2. j.host[p] = j.base[p]
    BY <1>2 DEF Branch
  <2> QED BY <2>1, <2>2, UnmovedVisit
<1>3. CASE Branch(j, p) \notin {"keep", "same", "unmoved"}
  <2>1. Noted(j, p) = HoldBack(j, p)
    BY <1>3 DEF Noted
  <2> QED BY <2>1, HeldVisit
<1> QED BY <1>1, <1>2, <1>3

\* The visit of one path, whatever it copies into staging there.
LEMMA VisitKeeps ==
    ASSUME TypeOK, RebaseInv, NEW p \in Paths, Visit(p),
           AfterVisit(job, job', p),
           work' \in Map(Entry), \A q \in Paths \ {p} : work'[q] = work[q]
    PROVE  RebaseInv'
<1>1. VisitsSettle'
  BY DEF Visit, RebaseInv, VisitsSettle, AfterVisit
<1>2. UnvisitedKept'
  <2> SUFFICES ASSUME job'.active, ~torn', NEW q \in job'.todo \ job'.raced
               PROVE  StillStaged(q)'
    BY DEF UnvisitedKept
  <2>1. q \in job.todo \ job.raced /\ q # p /\ q \in Paths /\ job.active /\ ~torn
    BY DEF AfterVisit, Visit, TypeOK, JobType, memVars
  <2>2. StillStaged(q)
    BY <2>1 DEF RebaseInv, UnvisitedKept
  <2> QED BY <2>1, <2>2 DEF StillStaged, AfterVisit, Visit, memVars
<1>3. SeedIsSaved'
  BY DEF RebaseInv, SeedIsSaved, Visit
<1> QED BY <1>1, <1>2, <1>3 DEF RebaseInv

\* rebase starts with every staged file as it is, and leaves out of its loop
\* only paths that neither the host nor the baseline has.
LEMMA ScanKeeps ==
    ASSUME TypeOK, NEW keep \in SUBSET Paths, NEW take \in SUBSET Paths,
           NEW boot \in BOOLEAN, NEW s \in SnapshotType, NEW c \in SUBSET Paths
    PROVE  LET j == Scan(keep, take, boot, s, c)
           IN  /\ \A p \in Paths \ j.todo : j.base[p] = j.host[p]
               /\ \A p \in Paths : j.staged[p] = work[p] /\ j.base[p] = s.base[p]
               /\ j.todo \subseteq Paths
<1>1. \A p \in Paths : Host(p) = Absent => SeenHost(s, p) = Absent
  BY DEF SeenHost
<1> QED BY <1>1 DEF Scan

\* A step of the desktop, a tool or the user while a rebase may be running.
LEMMA RebaseInvStep ==
    TypeOK /\ SavedIsCurrent /\ RebaseInv /\ [Next]_vars => RebaseInv'
<1> SUFFICES ASSUME TypeOK, SavedIsCurrent, RebaseInv, [Next]_vars PROVE RebaseInv'
  OBVIOUS
<1> USE DEF deskVars, memVars
<1>a. ~NoJob.active
  BY DEF NoJob
<1>b. job \in JobType /\ job.todo \subseteq Paths /\ job.raced \subseteq Paths
  BY DEF TypeOK, JobType
<1>c. CASE UNCHANGED <<work, snap, saved, job, torn>>
  BY <1>c DEF RebaseInv, VisitsSettle, UnvisitedKept, StillStaged, SeedIsSaved
<1>d. CASE ~job'.active /\ SeedIsSaved'
  BY <1>d DEF RebaseInv, VisitsSettle, UnvisitedKept
<1>e. CASE job' = job /\ torn'
  BY <1>e DEF RebaseInv, VisitsSettle, UnvisitedKept, SeedIsSaved
<1>1. CASE UserStep
  BY <1>1, <1>c DEF UserStep, stagingVars
<1>2. CASE ToolStep
  <2>1. PICK p \in Paths, e \in Entry : ToolWrite(p, e)
    BY <1>2 DEF ToolStep
  <2>2. CASE job.active
    <3>1. job' = [job EXCEPT !.raced = @ \cup {p}]
      BY <2>1, <2>2 DEF ToolWrite
    <3>2. /\ job'.active = job.active /\ job'.todo = job.todo
          /\ job'.raced = job.raced \cup {p} /\ job'.base = job.base
          /\ job'.host = job.host /\ job'.conf = job.conf
          /\ job'.staged = job.staged
      BY <1>b, <3>1 DEF JobType
    <3>3. VisitsSettle' /\ SeedIsSaved'
      BY <2>1, <3>2 DEF ToolWrite, RebaseInv, VisitsSettle, SeedIsSaved
    <3>4. UnvisitedKept'
      <4> SUFFICES ASSUME ~torn', NEW q \in job'.todo \ job'.raced
                   PROVE  StillStaged(q)'
        BY DEF UnvisitedKept
      <4>1. q \in job.todo \ job.raced /\ q # p /\ q \in Paths /\ ~torn
        BY <1>b, <2>1, <3>2 DEF ToolWrite
      <4>2. StillStaged(q) /\ work'[q] = work[q] /\ snap' = snap
        BY <2>1, <2>2, <4>1 DEF ToolWrite, RebaseInv, UnvisitedKept, TypeOK, Map
      <4> QED BY <3>2, <4>2 DEF StillStaged
    <3> QED BY <3>3, <3>4 DEF RebaseInv
  <2>3. CASE ~job.active
    BY <1>d, <2>1, <2>3 DEF ToolWrite, RebaseInv, SeedIsSaved
  <2> QED BY <2>2, <2>3
<1>3. CASE DesktopStep
  <2>1. ASSUME NEW m \in receipts, MarkPublished(m) PROVE RebaseInv'
    <3>1. /\ job' = job /\ work' = work /\ torn' = torn
          /\ snap'.base = AdvancedBase(m) /\ saved'.present
      BY <2>1 DEF MarkPublished, Save
    <3>2. \A p \in Paths : StillStaged(p) => StillStaged(p)'
      BY <3>1 DEF StillStaged, AdvancedBase
    <3> QED BY <1>b, <3>1, <3>2
            DEF RebaseInv, VisitsSettle, UnvisitedKept, SeedIsSaved
  <2> QED BY <1>3, <1>c, <2>1
          DEF DesktopStep, Manifest, Decline, HostPublish, MarkFails, stagingVars
<1>4. CASE RebaseStep
  <2>1. ASSUME NEW keep \in SUBSET Paths, NEW take \in SUBSET Paths,
               RebaseStart(keep, take)
        PROVE  RebaseInv'
    <3>1. job' = Scan(keep, take, FALSE, snap, conflicts) /\ work' = work /\ snap' = snap
      BY <2>1 DEF RebaseStart
    <3>2. snap \in SnapshotType /\ conflicts \in SUBSET Paths
      BY DEF TypeOK
    <3> DEFINE j == Scan(keep, take, FALSE, snap, conflicts)
    <3>a. /\ \A p \in Paths \ j.todo : j.base[p] = j.host[p]
          /\ \A p \in Paths : /\ j.staged[p] = work[p]
                              /\ j.base[p] = snap.base[p]
          /\ j.todo \subseteq Paths
      BY <3>2, FALSE \in BOOLEAN, ScanKeeps, Zenon
    <3>3. /\ \A p \in Paths \ job'.todo : job'.base[p] = job'.host[p]
          /\ \A p \in Paths : job'.staged[p] = work[p] /\ job'.base[p] = snap.base[p]
          /\ job'.todo \subseteq Paths
      BY <3>1, <3>a, Zenon
    <3> QED BY <2>1, <3>1, <3>3
            DEF RebaseStart, RebaseInv, VisitsSettle, UnvisitedKept, StillStaged, SeedIsSaved
  <2>2. ASSUME NEW p \in Paths, RebaseInstall(p) PROVE RebaseInv'
    <3>1. AfterVisit(job, job', p)
      BY <1>b, <2>2, SettledVisit DEF RebaseInstall
    <3>2. work' \in Map(Entry) /\ \A q \in Paths \ {p} : work'[q] = work[q]
      BY <2>2 DEF RebaseInstall, TypeOK, Map, JobType
    <3> QED BY <2>2, <3>1, <3>2, VisitKeeps DEF RebaseInstall
  <2>3. ASSUME NEW p \in Paths, RebaseInstallFails(p) PROVE RebaseInv'
    <3>1. AfterVisit(job, job', p)
      BY <1>b, <2>3, HeldVisit DEF RebaseInstallFails
    <3> QED BY <2>3, <3>1, VisitKeeps DEF RebaseInstallFails, TypeOK
  <2>4. ASSUME NEW p \in Paths, RebaseNote(p) PROVE RebaseInv'
    <3>1. AfterVisit(job, job', p)
      BY <1>b, <2>4, NotedVisit DEF RebaseNote
    <3> QED BY <2>4, <3>1, VisitKeeps DEF RebaseNote, TypeOK
  <2>5. ASSUME NEW p \in Paths, RebaseAborts(p) PROVE RebaseInv'
    BY <1>a, <1>d, <2>5 DEF RebaseAborts, Visit, RebaseInv, SeedIsSaved
  <2>6. CASE RebaseCommit
    <3>1. SeedIsSaved'
      BY <2>6 DEF RebaseCommit, Save, RebaseInv, SeedIsSaved
    <3> QED BY <1>a, <1>d, <2>6, <3>1 DEF RebaseCommit
  <2>7. CASE RebaseVerifyFails
    BY <1>a, <1>d, <2>7 DEF RebaseVerifyFails, RebaseInv, SeedIsSaved
  <2> QED BY <1>4, <2>1, <2>2, <2>3, <2>4, <2>5, <2>6, <2>7 DEF RebaseStep
<1>5. CASE DiscardStep
  <2>1. CASE DiscardSeed
    <3>1. /\ job' = job /\ saved'.present
          /\ \A p \in Paths : snap'.base[p] = work'[p]
      BY <2>1 DEF DiscardSeed, Seed, Save, SeedSnapshot
    <3> QED BY <1>b, <3>1
            DEF RebaseInv, VisitsSettle, UnvisitedKept, StillStaged, SeedIsSaved
  <2>2. ASSUME NEW S \in SUBSET Paths, DiscardClearFails(S) \/ DiscardSeedFails(S)
        PROVE  RebaseInv'
    BY <1>e, <2>2 DEF DiscardClearFails, DiscardSeedFails, SavedIsCurrent
  <2> QED BY <1>5, <1>e, <2>1, <2>2
          DEF DiscardStep, DiscardClear, DiscardForget, SavedIsCurrent
<1>6. CASE ProcessStep
  <2>1. CASE Crash
    BY <1>a, <1>d, <2>1 DEF Crash, RebaseInv, SeedIsSaved
  <2>2. CASE StartResume
    <3>1. snap' \in SnapshotType /\ saved.conf \in SUBSET Paths
      BY <2>2 DEF StartResume, TypeOK, SnapshotType, SavedType
    <3>2. job' = Scan({}, {}, TRUE, snap', saved.conf) /\ work' = work
      BY <2>2 DEF StartResume
    <3> DEFINE j == Scan({}, {}, TRUE, snap', saved.conf)
    <3>a. /\ \A p \in Paths \ j.todo : j.base[p] = j.host[p]
          /\ \A p \in Paths : /\ j.staged[p] = work[p]
                              /\ j.base[p] = snap'.base[p]
          /\ j.todo \subseteq Paths
      BY <3>1, TRUE \in BOOLEAN, {} \in SUBSET Paths, ScanKeeps, Zenon
    <3>3. /\ \A p \in Paths \ job'.todo : job'.base[p] = job'.host[p]
          /\ \A p \in Paths : job'.staged[p] = work[p] /\ job'.base[p] = snap'.base[p]
          /\ job'.todo \subseteq Paths
      BY <3>2, <3>a, Zenon
    <3> QED BY <2>2, <3>2, <3>3
            DEF StartResume, RebaseInv, VisitsSettle, UnvisitedKept, StillStaged, SeedIsSaved
  <2>3. CASE StartFresh
    BY <1>d, <2>3 DEF StartFresh, Seed, Save, SavedIsCurrent, SeedIsSaved
  <2> QED BY <1>6, <2>1, <2>2, <2>3 DEF ProcessStep
<1>7. CASE UNCHANGED vars
  BY <1>7, <1>c DEF vars, stagingVars
<1> QED BY <1>1, <1>2, <1>3, <1>4, <1>5, <1>6, <1>7 DEF Next

\* A step of a rebase accounts for every host file it saw.
LEMMA SettlesStep ==
    ASSUME RebaseInv, NEW p \in Paths, RebaseCommit, job.host[p] = Host(p)
    PROVE  snap'.base[p] = Host(p) \/ p \in conflicts'
<1>1. job.active /\ p \notin job.todo
  BY DEF RebaseCommit
<1>2. job.base[p] = job.host[p] \/ p \in job.conf
  BY <1>1 DEF RebaseInv, VisitsSettle
<1> QED BY <1>2 DEF RebaseCommit

\* A step that changes a staged file with work of its own is a tool's, a
\* discard's, or brings the host version the user asked for; a rebase absorbs a
\* host change only where staging is still what the scan compared.
LEMMA StagedWorkStep ==
    ASSUME TypeOK, SavedIsCurrent, RebaseInv, [Next]_vars, NEW p \in Paths,
           work[p] # snap.base[p], ~torn, p \notin job.raced, work'[p] # work[p]
    PROVE  (\E e \in Entry : ToolWrite(p, e)) \/ torn' \/ p \in job.take
<1> USE DEF deskVars, memVars
<1>1. ~UNCHANGED work
  OBVIOUS
<1>2. CASE ToolStep
  <2>1. PICK q \in Paths, e \in Entry : ToolWrite(q, e)
    BY <1>2 DEF ToolStep
  <2>2. q = p
    BY <2>1 DEF ToolWrite, TypeOK, Map
  <2> QED BY <2>1, <2>2
<1>3. ASSUME NEW q \in Paths, RebaseInstall(q) PROVE p \in job.take
  <2>1. q = p
    BY <1>3 DEF RebaseInstall, TypeOK, Map
  <2>2. job.active /\ p \in job.todo
    BY <1>3, <2>1 DEF RebaseInstall, Visit, IsNext
  <2>3. job.staged[p] = work[p] /\ job.base[p] = snap.base[p]
    BY <2>2 DEF RebaseInv, UnvisitedKept, StillStaged
  <2>4. Branch(job, p) # "absorb"
    BY <2>3 DEF Branch
  <2> QED BY <1>3, <2>1, <2>4 DEF RebaseInstall, Branch
<1>4. CASE DiscardStep
  BY <1>1, <1>4
     DEF DiscardStep, DiscardClear, DiscardForget, DiscardSeed, DiscardClearFails,
         DiscardSeedFails, SavedIsCurrent
<1>5. CASE StartFresh
  BY <1>5 DEF StartFresh, RebaseInv, SeedIsSaved
<1> QED
  BY <1>1, <1>2, <1>3, <1>4, <1>5
     DEF Next, UserStep, DesktopStep, Manifest, Decline, HostPublish, MarkPublished,
         MarkFails, RebaseStep, RebaseStart, RebaseInstallFails, RebaseAborts,
         RebaseNote, Visit, RebaseCommit, RebaseVerifyFails, ProcessStep, Crash,
         StartResume, vars, stagingVars

\* A rebase leaves no host file it saw unaccounted for, and outside the race
\* with a tool no rebase, crash or discard silently replaces staged work.
THEOREM RebaseSafe == Spec => RebaseIsSafe
<1> DEFINE Inv == TypeOK /\ SavedIsCurrent /\ RebaseInv
           Settles ==
             \A p \in Paths :
               /\ RebaseCommit
               /\ stamp[p] = job.at[p] /\ job.host[p] = Host(p)
               => snap'.base[p] = Host(p) \/ p \in conflicts'
           Keeps ==
             \A p \in Paths :
               /\ work[p] # snap.base[p] /\ work[p] \in toolWrote[p] /\ ~torn
               /\ p \notin job.raced
               /\ work'[p] # work[p]
               => \/ \E e \in Entry : ToolWrite(p, e)
                  \/ torn'
                  \/ p \in job.take
<1>1. StagingInit => Inv
  <2>1. StagingInit => SavedIsCurrent
    BY DEF StagingInit, SavedIsCurrent, Save, SeedSnapshot
  <2>2. StagingInit => RebaseInv
    BY DEF StagingInit, RebaseInv, VisitsSettle, UnvisitedKept, SeedIsSaved, Save, NoJob
  <2> QED BY <2>1, <2>2, TypeInit
<1>2. Inv /\ [Next]_vars => Inv'
  BY TypeStep, SavedStep, RebaseInvStep
<1>3. Inv /\ [Next]_vars => Settles
  BY SettlesStep
<1>4. Inv /\ [Next]_vars => Keeps
  BY StagedWorkStep
<1>5. Spec => [][Settles]_vars /\ [][Keeps]_vars
  <2> HIDE DEF Inv, Settles, Keeps
  <2> QED BY <1>1, <1>2, <1>3, <1>4, PTL DEF Spec
<1> QED BY <1>5 DEF RebaseIsSafe, RebaseSettlesSeen, StagedWorkKeptUnlessRaced
=============================================================================
