---------------------- MODULE PublicationServiceProofs ----------------------
(***************************************************************************)
(* Proofs about module PublicationService: a staged change is published    *)
(* once, batches follow one another only on success, and the ledger says   *)
(* what happened, for every set of files, every batch size and every       *)
(* interleaving of the worker thread with the slots and the user.          *)
(***************************************************************************)
EXTENDS PublicationService, FiniteSetTheorems, TLAPS

(***************************************************************************)
(* The invariant.  A manifest may outlive the baseline it was made from in *)
(* four places: on screen, in the worker, fetched as the following batch   *)
(* and queued as the next one.                                             *)
(***************************************************************************)

\* Versions of some of the files.
VersionMap == UNION {[S -> Nat] : S \in SUBSET Files}

\* A manifest: numbered from 1, with a version for each of its files.
Manifest ==
    {m \in [pub : Nat, i : Nat, n : Int, sel : SUBSET Files, ver : VersionMap] :
        m.i # 0}

Entries ==
    [pub : Nat, i : Nat, ver : VersionMap,
     status : {"published", "failed", "baseline_failed"}]

WorkerType ==
    [phase : {"none", "write", "mark", "fetch", "failed", "complete", "finish"},
     m : Manifest \cup {None}, auto : BOOLEAN, paths : SUBSET Files,
     following : Manifest \cup {None}, error : BOOLEAN]

PubTypeOK ==
    /\ pend \subseteq Files
    /\ base \in [Files -> Nat]
    /\ host \in [Files -> Nat]
    /\ auto \in BOOLEAN
    /\ paths \subseteq Files
    /\ request \in [open : BOOLEAN, sel : SUBSET Files]
    /\ dialog \in Manifest \cup {None}
    /\ worker \in WorkerType
    /\ worker.phase # "none" => worker.m \in Manifest
    /\ next \in [m : Manifest \cup {None}, auto : BOOLEAN]
    /\ ledger \subseteq Entries
    /\ nextPub \in Nat

\* A manifest names versions the baseline had; where the baseline has not
\* moved since, the change is still pending.
Held(m, P, b) == \A f \in FilesOf(m) : m.ver[f] <= b[f] /\ (m.ver[f] = b[f] => f \in P)

\* Batch k of publication p is in the ledger as published.
Published(p, k, L) == \E e \in L : e.pub = p /\ e.i = k /\ e.status = "published"

\* What holds of a manifest wherever it is kept: its id is taken, its versions
\* are the baseline's or older, and the earlier batches were published.
Sound(m, P, b, L, id) ==
    /\ m.pub < id
    /\ Held(m, P, b)
    /\ \A k \in 1..(m.i - 1) : Published(m.pub, k, L)

\* The batch the worker has written is one ahead of the baseline.
WrittenAhead ==
    worker.phase = "mark" =>
        \A f \in FilesOf(worker.m) :
            /\ host[f] = worker.m.ver[f] + 1 /\ base[f] = worker.m.ver[f]
            /\ f \in pend

\* Two manifests are of different publications, except that a failed batch is
\* back on screen, and the next one queued, before their worker is gone: what
\* is recorded as published is never recorded again as failed.
OneOfEachPub ==
    /\ worker.phase \notin {"none", "finish"} /\ dialog # None =>
           dialog.pub # worker.m.pub
    /\ next.m # None /\ dialog # None => dialog.pub # next.m.pub
    /\ next # NoNext => worker.phase = "finish" /\ next.m # None
    /\ worker.phase \in {"none", "write", "mark", "fetch", "failed"} =>
           worker.following = None
    /\ worker.following # None => worker.following.pub = worker.m.pub

\* Each manifest that is kept is sound, and a next batch is only fetched when
\* this one is in the ledger as published.
KeptSound ==
    /\ dialog # None => Sound(dialog, pend, base, ledger, nextPub)
    /\ worker.phase # "none" => Sound(worker.m, pend, base, ledger, nextPub)
    /\ worker.following # None => Sound(worker.following, pend, base, ledger, nextPub)
    /\ next.m # None => Sound(next.m, pend, base, ledger, nextPub)
    /\ worker.phase = "fetch" => Published(worker.m.pub, worker.m.i, ledger)

PublicationInv ==
    /\ PubTypeOK /\ LedgerTruthful /\ NotPublishedTwice
    /\ WrittenAhead /\ OneOfEachPub /\ KeptSound

-----------------------------------------------------------------------------
(* Facts about manifests and the ledger.                                   *)

\* The versions of a manifest are versions of files.
LEMMA MapFacts ==
    ASSUME NEW v \in VersionMap
    PROVE  DOMAIN v \subseteq Files /\ \A f \in DOMAIN v : v[f] \in Nat
<1>1. PICK S \in SUBSET Files : v \in [S -> Nat]
  BY DEF VersionMap
<1> QED BY <1>1

\* The fields of a manifest; the empty one is not a manifest.
LEMMA ManifestFacts ==
    ASSUME NEW m \in Manifest
    PROVE  /\ m.pub \in Nat /\ m.i \in Nat /\ m.i # 0 /\ m.i >= 1 /\ m.n \in Int
           /\ m.sel \subseteq Files /\ m.ver \in VersionMap /\ m # None
           /\ FilesOf(m) \subseteq Files /\ \A f \in FilesOf(m) : m.ver[f] \in Nat
<1>1. m.pub \in Nat /\ m.i \in Nat /\ m.i # 0 /\ m.n \in Int
      /\ m.sel \subseteq Files /\ m.ver \in VersionMap
  BY DEF Manifest
<1>2. None.i = 0
  BY DEF None
<1> QED BY <1>1, <1>2, MapFacts DEF FilesOf

\* The manifest of batch i over pending files is a manifest, and it holds the
\* baseline's versions.
LEMMA BatchFacts ==
    ASSUME PubTypeOK, NEW pub \in Nat, NEW i \in Nat, i # 0,
           NEW S \in SUBSET pend, NEW sel \in SUBSET Files
    PROVE  /\ BatchOf(pub, i, S, sel) \in Manifest
           /\ BatchOf(pub, i, S, sel).pub = pub
           /\ BatchOf(pub, i, S, sel).i = i
           /\ Held(BatchOf(pub, i, S, sel), pend, base)
<1> DEFINE m == BatchOf(pub, i, S, sel)
<1>a. S \subseteq Files /\ FirstBatch(S) \subseteq S
  BY DEF PubTypeOK, FirstBatch
<1>b. \A f \in Files : base[f] \in Nat
  BY DEF PubTypeOK
<1>c. Batches(S) \in Int
  <2>1. IsFiniteSet(S)
    BY <1>a, FS_Subset, FilesAreOrdered
  <2>2. Cardinality(S) \in Nat
    BY <2>1, FS_CardinalityType
  <2>3. BatchSize \in Int /\ BatchSize > 0
    BY BatchSizePositive
  <2> QED BY <2>2, <2>3 DEF Batches
<1>d. i - 1 + Batches(S) \in Int
  BY <1>c
<1>1. [f \in FirstBatch(S) |-> base[f]] \in [FirstBatch(S) -> Nat]
  BY <1>a, <1>b
<1>2. [f \in FirstBatch(S) |-> base[f]] \in VersionMap
  BY <1>a, <1>1 DEF VersionMap
<1>3. m \in Manifest
  BY <1>d, <1>2 DEF BatchOf, Manifest
<1>4. Held(m, pend, base)
  BY <1>a, <1>b DEF Held, FilesOf, BatchOf
<1> QED BY <1>3, <1>4 DEF BatchOf

\* A sound manifest stays sound when ids are only added, versions only grow,
\* a pending change settles only with a new version, and the ledger keeps the
\* published batches before it.
LEMMA StaysSound ==
    ASSUME NEW m \in Manifest,
           NEW P, NEW b \in [Files -> Nat], NEW L, NEW id \in Nat,
           NEW P2, NEW b2 \in [Files -> Nat], NEW L2, NEW id2 \in Nat,
           Sound(m, P, b, L, id), id <= id2,
           \A f \in Files : b[f] <= b2[f],
           \A f \in Files : (b2[f] = b[f] /\ f \in P) => f \in P2,
           \A k \in 1..(m.i - 1) : Published(m.pub, k, L) => Published(m.pub, k, L2)
    PROVE  Sound(m, P2, b2, L2, id2)
<1>1. m.pub < id2
  <2>1. m.pub \in Nat /\ m.pub < id
    BY ManifestFacts DEF Sound
  <2> QED BY <2>1
<1>2. Held(m, P2, b2)
  <2> SUFFICES ASSUME NEW f \in FilesOf(m)
               PROVE  m.ver[f] <= b2[f] /\ (m.ver[f] = b2[f] => f \in P2)
    BY DEF Held
  <2>1. f \in Files /\ m.ver[f] \in Nat /\ b[f] \in Nat /\ b2[f] \in Nat
    BY ManifestFacts
  <2>2. m.ver[f] <= b[f] /\ (m.ver[f] = b[f] => f \in P)
    BY DEF Sound, Held
  <2>3. b[f] <= b2[f] /\ ((b2[f] = b[f] /\ f \in P) => f \in P2)
    BY <2>1
  <2> QED BY <2>1, <2>2, <2>3
<1>3. \A k \in 1..(m.i - 1) : Published(m.pub, k, L2)
  BY DEF Sound
<1> QED BY <1>1, <1>2, <1>3 DEF Sound

\* Recording a batch keeps the entries of every other batch, adds entries of
\* the right type, and adds only this one.
LEMMA RecordFacts ==
    ASSUME PubTypeOK, NEW m \in Manifest,
           NEW status \in {"published", "failed", "baseline_failed"}
    PROVE  /\ Recorded(m, status) \subseteq Entries
           /\ \A e \in ledger : (e.pub # m.pub \/ e.i # m.i) => e \in Recorded(m, status)
           /\ \A e \in Recorded(m, status) :
                  e \in ledger \/ (e.ver = m.ver /\ e.status = status)
<1>1. ledger \subseteq Entries
  BY DEF PubTypeOK
<1>2. [pub |-> m.pub, i |-> m.i, ver |-> m.ver, status |-> status] \in Entries
  BY ManifestFacts DEF Entries
<1> QED BY <1>1, <1>2 DEF Recorded

\* So recording batch i of a publication keeps what was published of the
\* others and of the earlier batches.
LEMMA RecordKeeps ==
    ASSUME PubTypeOK, NEW m \in Manifest,
           NEW status \in {"published", "failed", "baseline_failed"},
           NEW p, NEW k, p # m.pub \/ k # m.i, Published(p, k, ledger)
    PROVE  Published(p, k, Recorded(m, status))
BY RecordFacts DEF Published

\* A batch of several is in the ledger once it is recorded as published.
LEMMA RecordPublishes ==
    ASSUME NEW m, m.n > 1
    PROVE  Published(m.pub, m.i, Recorded(m, "published"))
<1> DEFINE e == [pub |-> m.pub, i |-> m.i, ver |-> m.ver, status |-> "published"]
<1>1. e \in Recorded(m, "published")
  BY DEF Recorded
<1> QED BY <1>1 DEF Published

-----------------------------------------------------------------------------
(* Types.                                                                  *)

\* Nothing is staged, asked or published at first.
LEMMA PublicationInvInit == Init => PublicationInv
<1> SUFFICES ASSUME Init PROVE PublicationInv
  OBVIOUS
<1>1. base \in [Files -> Nat] /\ \A f \in Files : base[f] = 0 /\ host[f] = 0
  BY DEF Init
<1>2. PubTypeOK
  BY <1>1 DEF Init, PubTypeOK, NoRequest, NoWorker, NoNext, WorkerType
<1>3. LedgerTruthful /\ NotPublishedTwice
  BY <1>1 DEF Init, LedgerTruthful, NotPublishedTwice
<1>4. WrittenAhead /\ OneOfEachPub /\ KeptSound
  BY DEF Init, WrittenAhead, OneOfEachPub, KeptSound, NoWorker, NoNext
<1> QED BY <1>2, <1>3, <1>4 DEF PublicationInv

\* Whether it starts the batch, asks first or finds a worker busy, start
\* keeps the types.
LEMMA StartTypes ==
    ASSUME PubTypeOK, NEW m \in Manifest, NEW isAuto \in BOOLEAN,
           NEW busy \in BOOLEAN, NEW shown \in Manifest \cup {None},
           Start(m, isAuto, busy, shown)
    PROVE  /\ auto' \in BOOLEAN
           /\ dialog' \in Manifest \cup {None}
           /\ worker' \in WorkerType
           /\ worker'.phase # "none" => worker'.m \in Manifest
<1>1. worker \in WorkerType /\ (worker.phase # "none" => worker.m \in Manifest)
      /\ auto \in BOOLEAN /\ paths \subseteq Files
  BY DEF PubTypeOK
<1>2. CASE UNCHANGED worker /\ dialog' = shown /\ auto' = (auto /\ ~isAuto)
  BY <1>1, <1>2
<1>3. CASE dialog' = m /\ worker' = NoWorker /\ UNCHANGED auto
  BY <1>1, <1>3 DEF NoWorker, WorkerType
<1>4. CASE /\ dialog' = shown /\ UNCHANGED auto
           /\ worker' = [NoWorker EXCEPT !.phase = "write", !.m = m,
                                         !.auto = isAuto, !.paths = paths]
  BY <1>1, <1>4 DEF NoWorker, WorkerType
<1> QED BY <1>2, <1>3, <1>4 DEF Start

\* Every step keeps the types.
LEMMA PublicationTypes == PubTypeOK /\ OneOfEachPub /\ [Next]_vars => PubTypeOK'
<1> SUFFICES ASSUME PubTypeOK, OneOfEachPub, [Next]_vars PROVE PubTypeOK'
  OBVIOUS
<1> USE DEF executorVars, serviceVars
<1>a. /\ pend \subseteq Files /\ base \in [Files -> Nat] /\ host \in [Files -> Nat]
      /\ auto \in BOOLEAN /\ paths \subseteq Files
      /\ request \in [open : BOOLEAN, sel : SUBSET Files]
      /\ dialog \in Manifest \cup {None} /\ worker \in WorkerType
      /\ worker.phase # "none" => worker.m \in Manifest
      /\ next \in [m : Manifest \cup {None}, auto : BOOLEAN]
      /\ ledger \subseteq Entries /\ nextPub \in Nat
  BY DEF PubTypeOK
<1>b. Files \in SUBSET Files /\ {} \in SUBSET Files /\ nextPub + 1 \in Nat
  BY <1>a
<1>1. ASSUME NEW f \in Files, Change(f) PROVE PubTypeOK'
  BY <1>a, <1>1 DEF Change, PubTypeOK
<1>2. ASSUME Absorb PROVE PubTypeOK'
  BY <1>a, <1>2 DEF Absorb, PubTypeOK
<1>3. ASSUME NEW sel \in SUBSET Files, PublishStaged(sel) PROVE PubTypeOK'
  BY <1>a, <1>3 DEF PublishStaged, PubTypeOK
<1>4. ASSUME StagedPublication PROVE PubTypeOK'
  <2>1. pend \cap request.sel \in SUBSET pend /\ request.sel \in SUBSET Files
    BY <1>a
  <2>2. BatchOf(nextPub, 1, pend \cap request.sel, request.sel) \in Manifest
    BY <2>1, <1>a, BatchFacts
  <2>3. dialog' \in Manifest \cup {None} /\ nextPub' \in Nat
    BY <2>2, <1>a, <1>b, <1>4 DEF StagedPublication
  <2>4. request' \in [open : BOOLEAN, sel : SUBSET Files]
    BY <1>4 DEF StagedPublication, NoRequest
  <2> QED BY <2>3, <2>4, <1>a, <1>4 DEF StagedPublication, PubTypeOK
<1>5. ASSUME RequestFails PROVE PubTypeOK'
  BY <1>a, <1>5 DEF RequestFails, NoRequest, PubTypeOK
<1>6. ASSUME NEW autoRun \in BOOLEAN, HandleManifest(autoRun) PROVE PubTypeOK'
  <2> DEFINE m == BatchOf(nextPub, 1, pend, Files)
  <2>1. m \in Manifest
    BY <1>a, <1>b, BatchFacts
  <2> HIDE DEF m
  <2>2. /\ auto' \in BOOLEAN /\ dialog' \in Manifest \cup {None}
        /\ worker' \in WorkerType
        /\ worker'.phase # "none" => worker'.m \in Manifest
    <3>1. CASE autoRun /\ auto /\ Start(m, TRUE, Publishing, dialog)
      <4>1. Publishing \in BOOLEAN
        BY DEF Publishing
      <4>2. TRUE \in BOOLEAN
        OBVIOUS
      <4>3. PubTypeOK /\ dialog \in Manifest \cup {None}
        BY <1>a
      <4> QED BY ONLY <2>1, <3>1, <4>1, <4>2, <4>3, StartTypes
    <3>2. CASE UNCHANGED <<auto, dialog, worker>>
      BY <3>2, <1>a
    <3>3. CASE dialog' = m /\ UNCHANGED <<auto, worker>>
      BY <3>3, <2>1, <1>a
    <3> QED BY <3>1, <3>2, <3>3, <1>6 DEF HandleManifest, m
  <2>3. nextPub' \in Nat /\ UNCHANGED <<pend, base, host, paths, request, next, ledger>>
    BY <1>6, <1>b DEF HandleManifest
  <2> QED BY <2>2, <2>3, <1>a DEF PubTypeOK
<1>7. ASSUME Accept PROVE PubTypeOK'
  <2>1. dialog \in Manifest /\ Start(dialog, FALSE, Publishing, None)
    BY <1>7, <1>a DEF Accept
  <2>2. Publishing \in BOOLEAN /\ None \in Manifest \cup {None}
    BY DEF Publishing
  <2>3. /\ auto' \in BOOLEAN /\ dialog' \in Manifest \cup {None}
        /\ worker' \in WorkerType
        /\ worker'.phase # "none" => worker'.m \in Manifest
    BY <2>1, <2>2, StartTypes
  <2>4. UNCHANGED <<pend, base, host, paths, request, next, ledger, nextPub>>
    BY <1>7 DEF Accept
  <2> QED BY <2>3, <2>4, <1>a DEF PubTypeOK
<1>8. ASSUME Dismiss PROVE PubTypeOK'
  BY <1>a, <1>8 DEF Dismiss, PubTypeOK
<1>9. ASSUME SwitchAuto PROVE PubTypeOK'
  BY <1>a, <1>9 DEF SwitchAuto, PubTypeOK
<1>10. ASSUME BatchWritten PROVE PubTypeOK'
  <2>1. host' \in [Files -> Nat]
    BY <1>a, <1>10 DEF BatchWritten
  <2>2. worker' \in WorkerType /\ worker'.m = worker.m /\ worker.phase # "none"
    BY <1>a, <1>10 DEF BatchWritten, WorkerType
  <2> QED BY <2>1, <2>2, <1>a, <1>10 DEF BatchWritten, PubTypeOK
<1>11. ASSUME BatchFails PROVE PubTypeOK'
  <2>1. worker' \in WorkerType /\ worker'.m = worker.m /\ worker.phase # "none"
    BY <1>a, <1>11 DEF BatchFails, WorkerType
  <2>2. ledger' \subseteq Entries
    BY <1>a, <1>11, <2>1, RecordFacts DEF BatchFails
  <2> QED BY <2>1, <2>2, <1>a, <1>11 DEF BatchFails, PubTypeOK
<1>12. ASSUME BatchMarked PROVE PubTypeOK'
  <2>1. worker' \in WorkerType /\ worker'.m = worker.m /\ worker.phase # "none"
    BY <1>a, <1>12 DEF BatchMarked, WorkerType
  <2>2. ledger' \subseteq Entries
    BY <1>a, <1>12, <2>1, RecordFacts DEF BatchMarked
  <2>3. pend' \subseteq Files /\ base' \in [Files -> Nat]
    BY <1>a, <1>12 DEF BatchMarked
  <2> QED BY <2>1, <2>2, <2>3, <1>a, <1>12 DEF BatchMarked, PubTypeOK
<1>13. ASSUME MarkRefused PROVE PubTypeOK'
  <2>1. worker' \in WorkerType /\ worker'.m = worker.m /\ worker.phase # "none"
    BY <1>a, <1>13 DEF MarkRefused, WorkerType
  <2>2. ledger' \subseteq Entries
    BY <1>a, <1>13, <2>1, RecordFacts DEF MarkRefused
  <2> QED BY <2>1, <2>2, <1>a, <1>13 DEF MarkRefused, PubTypeOK
<1>14. ASSUME FetchNext PROVE PubTypeOK'
  <2>1. worker.m \in Manifest /\ worker.paths \subseteq Files
    BY <1>a, <1>14 DEF FetchNext, WorkerType
  <2>2. PublicationBatch(worker.m, worker.paths) \in Manifest \cup {None}
    <3> DEFINE S == pend \cap worker.paths
    <3>1. /\ worker.m.pub \in Nat /\ worker.m.i + 1 \in Nat /\ worker.m.i + 1 # 0
          /\ worker.m.sel \in SUBSET Files /\ S \in SUBSET pend
      BY <2>1, ManifestFacts
    <3> HIDE DEF S
    <3>2. BatchOf(worker.m.pub, worker.m.i + 1, S, worker.m.sel) \in Manifest
      BY <3>1, BatchFacts
    <3> QED BY <3>2 DEF PublicationBatch, S
  <2>3. worker' \in WorkerType /\ worker'.m = worker.m
    BY <2>2, <1>a, <1>14 DEF FetchNext, WorkerType
  <2> QED BY <2>1, <2>3, <1>a, <1>14 DEF FetchNext, PubTypeOK
<1>15. ASSUME FetchFails PROVE PubTypeOK'
  <2>1. worker' \in WorkerType /\ worker'.m = worker.m /\ worker.phase # "none"
    BY <1>a, <1>15 DEF FetchFails, WorkerType
  <2> QED BY <2>1, <1>a, <1>15 DEF FetchFails, PubTypeOK
<1>16. ASSUME OnComplete PROVE PubTypeOK'
  <2>1. worker' \in WorkerType /\ worker'.m = worker.m /\ worker.phase # "none"
    BY <1>a, <1>16 DEF OnComplete, WorkerType
  <2>2. worker.following \in Manifest \cup {None} /\ worker.auto \in BOOLEAN
    BY <1>a DEF WorkerType
  <2>3. next' \in [m : Manifest \cup {None}, auto : BOOLEAN]
    BY <2>2, <1>a, <1>16 DEF OnComplete
  <2>4. auto' \in BOOLEAN
    BY <1>16 DEF OnComplete
  <2> QED BY <2>1, <2>3, <2>4, <1>a, <1>16 DEF OnComplete, PubTypeOK
<1>17. ASSUME OnFailed PROVE PubTypeOK'
  <2>1. worker' \in WorkerType /\ worker'.m = worker.m /\ worker.phase # "none"
    BY <1>a, <1>17 DEF OnFailed, WorkerType
  <2>2. dialog' \in Manifest \cup {None} /\ auto' \in BOOLEAN
    BY <2>1, <1>a, <1>17 DEF OnFailed
  <2> QED BY <2>1, <2>2, <1>a, <1>17 DEF OnFailed, PubTypeOK
<1>18. ASSUME OnFinished PROVE PubTypeOK'
  <2>1. NoWorker \in WorkerType /\ NoWorker.phase = "none"
    BY DEF NoWorker, WorkerType
  <2> QED BY <2>1, <1>a, <1>b, <1>18 DEF OnFinished, PubTypeOK
<1>19. ASSUME OnFinishedContinue PROVE PubTypeOK'
  <2>0. next.m \in Manifest
    BY <1>19, <1>a DEF OnFinishedContinue, OneOfEachPub
  <2>1. NoWorker \in WorkerType /\ NoWorker.phase = "none"
        /\ NoNext \in [m : Manifest \cup {None}, auto : BOOLEAN]
    BY DEF NoWorker, WorkerType, NoNext
  <2>2. /\ auto' \in BOOLEAN /\ dialog' \in Manifest \cup {None}
        /\ worker' \in WorkerType
        /\ worker'.phase # "none" => worker'.m \in Manifest
    <3>1. CASE Start(next.m, TRUE, FALSE, dialog)
      BY <3>1, <2>0, <1>a, StartTypes
    <3>2. CASE dialog' = next.m /\ worker' = NoWorker /\ UNCHANGED auto
      BY <3>2, <2>0, <2>1, <1>a
    <3> QED BY <3>1, <3>2, <1>19 DEF OnFinishedContinue
  <2>3. UNCHANGED <<pend, base, host, paths, request, ledger, nextPub>> /\ next' = NoNext
    BY <1>19 DEF OnFinishedContinue
  <2> QED BY <2>1, <2>2, <2>3, <1>a DEF PubTypeOK
<1>20. CASE UNCHANGED vars
  BY <1>a, <1>20 DEF vars, PubTypeOK
<1> QED
  BY <1>1, <1>2, <1>3, <1>4, <1>5, <1>6, <1>7, <1>8, <1>9, <1>10, <1>11, <1>12,
     <1>13, <1>14, <1>15, <1>16, <1>17, <1>18, <1>19, <1>20
     DEF Next, WorkerStep, SlotStep

-----------------------------------------------------------------------------
(* Steps that leave the executor, the host and the ledger alone.           *)

\* Such a step keeps the ledger true and every manifest sound.
LEMMA WorldKept ==
    ASSUME PublicationInv, PubTypeOK', UNCHANGED <<pend, base, host, ledger>>,
           nextPub <= nextPub'
    PROVE  /\ LedgerTruthful' /\ NotPublishedTwice'
           /\ \A m \in Manifest : Sound(m, pend, base, ledger, nextPub)
                                  => Sound(m, pend', base', ledger', nextPub')
<1>1. base \in [Files -> Nat] /\ nextPub \in Nat
  BY DEF PublicationInv, PubTypeOK
<1>2. base' \in [Files -> Nat] /\ nextPub' \in Nat
  BY DEF PubTypeOK
<1>3. LedgerTruthful' /\ NotPublishedTwice'
  BY DEF PublicationInv, LedgerTruthful, NotPublishedTwice
<1>4. \A f \in Files : base[f] <= base'[f]
  BY <1>1
<1>5. ASSUME NEW m \in Manifest, Sound(m, pend, base, ledger, nextPub)
      PROVE  Sound(m, pend', base', ledger', nextPub')
  BY <1>1, <1>2, <1>4, <1>5, StaysSound
<1> QED BY <1>3, <1>5

\* A step that leaves the manifests where they are keeps what holds of them,
\* when it keeps them sound and keeps what the ledger has as published.
LEMMA ManifestsKept ==
    ASSUME PublicationInv, PubTypeOK', UNCHANGED <<worker, dialog, next>>,
           UNCHANGED ledger,
           \A m \in Manifest : Sound(m, pend, base, ledger, nextPub)
                               => Sound(m, pend', base', ledger', nextPub')
    PROVE  OneOfEachPub' /\ KeptSound'
<1>1. PubTypeOK /\ OneOfEachPub /\ KeptSound
  BY DEF PublicationInv
<1>2. /\ dialog \in Manifest \cup {None} /\ next.m \in Manifest \cup {None}
      /\ worker.following \in Manifest \cup {None}
      /\ worker.phase # "none" => worker.m \in Manifest
  BY <1>1 DEF PubTypeOK, WorkerType
<1>3. OneOfEachPub'
  BY <1>1 DEF OneOfEachPub
<1>4. KeptSound'
  BY <1>1, <1>2 DEF KeptSound
<1> QED BY <1>3, <1>4

\* start with a sound manifest of a publication that is not on screen keeps
\* what holds of the manifests, whichever way it goes.
LEMMA StartKeeps ==
    ASSUME PublicationInv, PubTypeOK', UNCHANGED <<pend, base, host, ledger>>,
           nextPub <= nextPub',
           NEW m \in Manifest, Sound(m, pend', base', ledger', nextPub'),
           NEW isAuto \in BOOLEAN, NEW busy \in BOOLEAN, NEW shown \in {dialog, None},
           shown # None => shown.pub # m.pub,
           Start(m, isAuto, busy, shown),
           busy => UNCHANGED next, ~busy => next' = NoNext
    PROVE  WrittenAhead' /\ OneOfEachPub' /\ KeptSound'
<1>0. PubTypeOK /\ WrittenAhead /\ OneOfEachPub /\ KeptSound
  BY DEF PublicationInv
<1>a. \A k \in Manifest : Sound(k, pend, base, ledger, nextPub)
                          => Sound(k, pend', base', ledger', nextPub')
  BY WorldKept
<1>b. /\ dialog \in Manifest \cup {None} /\ next.m \in Manifest \cup {None}
      /\ worker.following \in Manifest \cup {None}
      /\ worker.phase # "none" => worker.m \in Manifest
  BY <1>0 DEF PubTypeOK, WorkerType
<1>c. shown # None => shown = dialog /\ Sound(shown, pend', base', ledger', nextPub')
  BY <1>0, <1>a, <1>b DEF KeptSound
<1>d. NoNext.m = None
  BY DEF NoNext
<1>1. CASE busy /\ UNCHANGED worker /\ dialog' = shown
  <2>1. WrittenAhead'
    BY <1>0, <1>1 DEF WrittenAhead
  <2>2. OneOfEachPub'
    BY <1>0, <1>1 DEF OneOfEachPub
  <2>3. KeptSound'
    BY <1>0, <1>1, <1>a, <1>b, <1>c DEF KeptSound
  <2> QED BY <2>1, <2>2, <2>3
<1>2. CASE ~busy /\ dialog' = m /\ worker' = NoWorker
  <2>1. WrittenAhead' /\ OneOfEachPub'
    BY <1>2, <1>d DEF WrittenAhead, OneOfEachPub, NoWorker
  <2>2. KeptSound'
    BY <1>2, <1>d DEF KeptSound, NoWorker
  <2> QED BY <2>1, <2>2
<1>3. CASE /\ ~busy /\ dialog' = shown
           /\ worker' = [NoWorker EXCEPT !.phase = "write", !.m = m,
                                         !.auto = isAuto, !.paths = paths]
  <2>1. worker'.phase = "write" /\ worker'.m = m /\ worker'.following = None
    BY <1>3 DEF NoWorker
  <2>2. WrittenAhead'
    BY <2>1 DEF WrittenAhead
  <2>3. OneOfEachPub'
    BY <2>1, <1>3, <1>d DEF OneOfEachPub
  <2>4. KeptSound'
    BY <2>1, <1>3, <1>c, <1>d DEF KeptSound
  <2> QED BY <2>2, <2>3, <2>4
<1> QED BY <1>1, <1>2, <1>3 DEF Start

-----------------------------------------------------------------------------
(* The executor, the agent and the user.                                   *)

\* A change made in staging only adds to what is pending.
LEMMA ChangeKeeps ==
    ASSUME PublicationInv, PubTypeOK', NEW f \in Files, Change(f)
    PROVE  PublicationInv'
<1>0. PubTypeOK /\ LedgerTruthful /\ NotPublishedTwice /\ WrittenAhead
  BY DEF PublicationInv
<1>1. base \in [Files -> Nat] /\ nextPub \in Nat
  BY <1>0 DEF PubTypeOK
<1>2. /\ pend' = pend \cup {f}
      /\ UNCHANGED <<base, host, dialog, next, worker, ledger, nextPub>>
  BY DEF Change, serviceVars
<1>3. \A g \in Files : base[g] <= base'[g]
  BY <1>1, <1>2
<1>4. \A m \in Manifest : Sound(m, pend, base, ledger, nextPub)
                          => Sound(m, pend', base', ledger', nextPub')
  <2> SUFFICES ASSUME NEW m \in Manifest, Sound(m, pend, base, ledger, nextPub)
               PROVE  Sound(m, pend', base', ledger', nextPub')
    OBVIOUS
  <2>1. nextPub <= nextPub' /\ base' \in [Files -> Nat] /\ nextPub' \in Nat
    BY <1>1, <1>2
  <2> QED BY <1>1, <1>2, <1>3, <2>1, StaysSound
<1>5. OneOfEachPub' /\ KeptSound'
  BY <1>2, <1>4, ManifestsKept
<1>6. LedgerTruthful' /\ NotPublishedTwice' /\ WrittenAhead'
  BY <1>0, <1>2 DEF LedgerTruthful, NotPublishedTwice, WrittenAhead
<1> QED BY <1>5, <1>6 DEF PublicationInv

\* A rebase that absorbs published files raises their version in the baseline
\* to the host's, which settles them.
LEMMA AbsorbKeeps ==
    ASSUME PublicationInv, PubTypeOK', Absorb
    PROVE  PublicationInv'
<1>0. PubTypeOK /\ LedgerTruthful /\ NotPublishedTwice
  BY DEF PublicationInv
<1>1. /\ base \in [Files -> Nat] /\ host \in [Files -> Nat] /\ nextPub \in Nat
      /\ pend \subseteq Files /\ ledger \subseteq Entries
  BY <1>0 DEF PubTypeOK
<1>2. /\ pend' = {f \in pend : host[f] = base[f]} /\ base' = host
      /\ UNCHANGED <<host, dialog, next, worker, ledger, nextPub>>
      /\ worker.phase = "none"
  BY DEF Absorb, serviceVars, Publishing
<1>3. \A f \in Files : base[f] <= host[f]
  BY <1>0 DEF NotPublishedTwice
<1>4. ASSUME NEW m \in Manifest, Sound(m, pend, base, ledger, nextPub)
      PROVE  Sound(m, pend', base', ledger', nextPub')
  <2>1. \A f \in Files : base[f] <= base'[f]
    BY <1>2, <1>3
  <2>2. \A f \in Files : (base'[f] = base[f] /\ f \in pend) => f \in pend'
    BY <1>2
  <2>3. nextPub <= nextPub' /\ base' \in [Files -> Nat] /\ nextPub' \in Nat
    BY <1>1, <1>2
  <2> QED BY <1>1, <1>2, <1>4, <2>1, <2>2, <2>3, StaysSound
<1>5. OneOfEachPub' /\ KeptSound'
  BY <1>2, <1>4, ManifestsKept
<1>6. LedgerTruthful'
  <2> SUFFICES ASSUME NEW e \in ledger, e.status = "published", NEW f \in DOMAIN e.ver
               PROVE  host[f] > e.ver[f] /\ host[f] >= host[f]
    BY <1>2 DEF LedgerTruthful
  <2>1. base[f] > e.ver[f]
    BY <1>0 DEF LedgerTruthful
  <2>2. e.ver \in VersionMap
    BY <1>1 DEF Entries
  <2>3. f \in Files /\ e.ver[f] \in Nat
    BY <2>2, MapFacts
  <2>4. base[f] \in Nat /\ host[f] \in Nat /\ base[f] <= host[f]
    BY <1>1, <1>3, <2>3
  <2> QED BY <2>1, <2>3, <2>4
<1>7. NotPublishedTwice'
  BY <1>1, <1>2 DEF NotPublishedTwice
<1>8. WrittenAhead'
  BY <1>2 DEF WrittenAhead
<1> QED BY <1>5, <1>6, <1>7, <1>8 DEF PublicationInv

\* The gateway answers a publish request, or an agent run ends, with a fresh
\* publication over what is pending.
LEMMA FreshBatch ==
    ASSUME PublicationInv, PubTypeOK', UNCHANGED <<pend, base, host, ledger>>,
           nextPub' = nextPub + 1, NEW S \in SUBSET pend, NEW sel \in SUBSET Files
    PROVE  /\ BatchOf(nextPub, 1, S, sel) \in Manifest
           /\ BatchOf(nextPub, 1, S, sel).pub = nextPub
           /\ Sound(BatchOf(nextPub, 1, S, sel), pend', base', ledger', nextPub')
           /\ dialog # None => dialog.pub # nextPub
           /\ worker.phase # "none" => worker.m.pub # nextPub
           /\ next.m # None => next.m.pub # nextPub
<1> DEFINE m == BatchOf(nextPub, 1, S, sel)
<1>0. PubTypeOK /\ KeptSound
  BY DEF PublicationInv
<1>1. nextPub \in Nat
  BY <1>0 DEF PubTypeOK
<1>2. m \in Manifest /\ m.pub = nextPub /\ m.i = 1 /\ Held(m, pend, base)
  BY <1>0, <1>1, BatchFacts
<1> HIDE DEF m
<1>3. nextPub < nextPub' /\ 1..(1 - 1) = {}
  BY <1>1
<1>4. Sound(m, pend', base', ledger', nextPub')
  BY <1>2, <1>3 DEF Sound
<1>5. /\ dialog # None => dialog \in Manifest /\ dialog.pub < nextPub
      /\ worker.phase # "none" => worker.m \in Manifest /\ worker.m.pub < nextPub
      /\ next.m # None => next.m \in Manifest /\ next.m.pub < nextPub
  BY <1>0 DEF KeptSound, Sound, PubTypeOK
<1>6. /\ dialog # None => dialog.pub # nextPub
      /\ worker.phase # "none" => worker.m.pub # nextPub
      /\ next.m # None => next.m.pub # nextPub
  BY <1>1, <1>5, ManifestFacts
<1> QED BY <1>2, <1>4, <1>6 DEF m

\* A manifest of a fresh publication comes on screen.
LEMMA ShownKeeps ==
    ASSUME PublicationInv, PubTypeOK', UNCHANGED <<pend, base, host, ledger>>,
           nextPub' = nextPub + 1, UNCHANGED <<worker, next>>,
           NEW S \in SUBSET pend, NEW sel \in SUBSET Files,
           dialog' = BatchOf(nextPub, 1, S, sel)
    PROVE  PublicationInv'
<1>0. PubTypeOK /\ WrittenAhead /\ OneOfEachPub /\ KeptSound
  BY DEF PublicationInv
<1>1. nextPub \in Nat /\ nextPub <= nextPub'
  BY <1>0 DEF PubTypeOK
<1>2. /\ LedgerTruthful' /\ NotPublishedTwice'
      /\ \A m \in Manifest : Sound(m, pend, base, ledger, nextPub)
                             => Sound(m, pend', base', ledger', nextPub')
  BY <1>1, WorldKept
<1>3. /\ dialog' \in Manifest /\ dialog'.pub = nextPub
      /\ Sound(dialog', pend', base', ledger', nextPub')
      /\ worker.phase # "none" => worker.m.pub # nextPub
      /\ next.m # None => next.m.pub # nextPub
  BY FreshBatch
<1>4. WrittenAhead'
  BY <1>0 DEF WrittenAhead
<1>5. OneOfEachPub'
  BY <1>0, <1>3 DEF OneOfEachPub
<1>6. /\ next.m \in Manifest \cup {None} /\ worker.following \in Manifest \cup {None}
      /\ worker.phase # "none" => worker.m \in Manifest
  BY <1>0 DEF PubTypeOK, WorkerType
<1>7. KeptSound'
  BY <1>0, <1>2, <1>3, <1>6 DEF KeptSound
<1> QED BY <1>2, <1>4, <1>5, <1>7 DEF PublicationInv

\* Asking for a publication, losing the request and the Auto switch touch no
\* manifest; dismissing one only forgets it.
LEMMA AskingKeeps ==
    ASSUME PublicationInv, PubTypeOK',
           UNCHANGED <<pend, base, host, ledger, nextPub, worker, next>>,
           dialog' = dialog \/ dialog' = None
    PROVE  PublicationInv'
<1>0. PubTypeOK /\ WrittenAhead /\ OneOfEachPub /\ KeptSound
  BY DEF PublicationInv
<1>1. nextPub <= nextPub'
  BY <1>0 DEF PubTypeOK
<1>2. LedgerTruthful' /\ NotPublishedTwice'
  BY <1>1, WorldKept
<1>3. WrittenAhead' /\ OneOfEachPub'
  BY <1>0 DEF WrittenAhead, OneOfEachPub
<1>4. KeptSound'
  BY <1>0 DEF KeptSound
<1> QED BY <1>2, <1>3, <1>4 DEF PublicationInv

\* The answer to a publish request.
LEMMA AnswerKeeps ==
    ASSUME PublicationInv, PubTypeOK', StagedPublication
    PROVE  PublicationInv'
<1> DEFINE S == pend \cap request.sel
<1>0. UNCHANGED <<pend, base, host, ledger, worker, next>>
  BY DEF StagedPublication, executorVars
<1>1. S \in SUBSET pend /\ request.sel \in SUBSET Files
  BY DEF PublicationInv, PubTypeOK
<1>2. CASE dialog' = BatchOf(nextPub, 1, S, request.sel) /\ nextPub' = nextPub + 1
  <2> HIDE DEF S
  <2> QED BY <1>0, <1>1, <1>2, ShownKeeps
<1>3. CASE UNCHANGED <<dialog, nextPub>>
  BY <1>0, <1>3, AskingKeeps
<1> QED BY <1>2, <1>3 DEF StagedPublication

\* An agent run ends with a manifest: published, shown or blocked.
LEMMA ManifestArrives ==
    ASSUME PublicationInv, PubTypeOK', NEW autoRun \in BOOLEAN, HandleManifest(autoRun)
    PROVE  PublicationInv'
<1> DEFINE m == BatchOf(nextPub, 1, pend, Files)
<1>0. /\ UNCHANGED <<pend, base, host, ledger, next>> /\ nextPub' = nextPub + 1
      /\ PubTypeOK /\ OneOfEachPub /\ WrittenAhead /\ KeptSound
  BY DEF HandleManifest, executorVars, PublicationInv
<1>1. pend \in SUBSET pend /\ Files \in SUBSET Files
  OBVIOUS
<1>2. /\ m \in Manifest /\ m.pub = nextPub
      /\ Sound(m, pend', base', ledger', nextPub')
      /\ dialog # None => dialog.pub # nextPub
  BY <1>0, <1>1, FreshBatch
<1>3. nextPub <= nextPub' /\ nextPub \in Nat
  BY <1>0 DEF PubTypeOK
<1>4. CASE Start(m, TRUE, Publishing, dialog)
  <2> HIDE DEF m
  <2>1. ~Publishing => next' = NoNext
    BY <1>0 DEF OneOfEachPub, Publishing
  <2>2. Publishing \in BOOLEAN /\ dialog \in {dialog, None}
    BY DEF Publishing
  <2>3. WrittenAhead' /\ OneOfEachPub' /\ KeptSound'
    BY <1>0, <1>2, <1>3, <1>4, <2>1, <2>2, StartKeeps
  <2>4. LedgerTruthful' /\ NotPublishedTwice'
    BY <1>0, <1>3, WorldKept
  <2> QED BY <2>3, <2>4 DEF PublicationInv
<1>5. CASE UNCHANGED <<auto, dialog, worker>>
  <2>1. \A k \in Manifest : Sound(k, pend, base, ledger, nextPub)
                            => Sound(k, pend', base', ledger', nextPub')
    BY <1>0, <1>3, WorldKept
  <2>2. OneOfEachPub' /\ KeptSound'
    BY <1>0, <1>5, <2>1, ManifestsKept
  <2>3. LedgerTruthful' /\ NotPublishedTwice'
    BY <1>0, <1>3, WorldKept
  <2>4. WrittenAhead'
    BY <1>0, <1>5 DEF WrittenAhead
  <2> QED BY <2>2, <2>3, <2>4 DEF PublicationInv
<1>6. CASE dialog' = m /\ UNCHANGED <<auto, worker>>
  BY <1>0, <1>1, <1>6, ShownKeeps
<1> QED BY <1>4, <1>5, <1>6 DEF HandleManifest

\* The user confirms the publication on screen.
LEMMA AcceptKeeps ==
    ASSUME PublicationInv, PubTypeOK', Accept
    PROVE  PublicationInv'
<1>0. /\ UNCHANGED <<pend, base, host, ledger, next, nextPub>>
      /\ dialog # None /\ Start(dialog, FALSE, Publishing, None)
      /\ PubTypeOK /\ OneOfEachPub /\ KeptSound
  BY DEF Accept, executorVars, PublicationInv
<1>1. dialog \in Manifest /\ nextPub <= nextPub' /\ nextPub \in Nat
  BY <1>0 DEF PubTypeOK
<1>2. Sound(dialog, pend', base', ledger', nextPub')
  BY <1>0, <1>1, WorldKept DEF KeptSound
<1>3. Publishing \in BOOLEAN /\ None \in {dialog, None}
      /\ (Publishing => UNCHANGED next) /\ (~Publishing => next' = NoNext)
  BY <1>0 DEF Publishing, OneOfEachPub
<1>4. WrittenAhead' /\ OneOfEachPub' /\ KeptSound'
  BY <1>0, <1>1, <1>2, <1>3, StartKeeps
<1>5. LedgerTruthful' /\ NotPublishedTwice'
  BY <1>0, <1>1, WorldKept
<1> QED BY <1>4, <1>5 DEF PublicationInv

-----------------------------------------------------------------------------
(* The worker thread.                                                      *)

\* broker.publish writes a batch whose base is on the host.  Its files were
\* not ahead of the baseline before, and they are still pending.
LEMMA WriteKeeps ==
    ASSUME PublicationInv, PubTypeOK', BatchWritten
    PROVE  PublicationInv'
<1> DEFINE m == worker.m
<1>0. /\ PubTypeOK /\ LedgerTruthful /\ NotPublishedTwice /\ OneOfEachPub
      /\ KeptSound /\ worker.phase = "write"
  BY DEF PublicationInv, BatchWritten
<1>1. /\ base \in [Files -> Nat] /\ host \in [Files -> Nat] /\ worker \in WorkerType
      /\ m \in Manifest /\ nextPub \in Nat
  BY <1>0 DEF PubTypeOK
<1>2. /\ UNCHANGED <<pend, base, dialog, next, ledger, nextPub>>
      /\ worker' = [worker EXCEPT !.phase = "mark"]
      /\ \A f \in Files : host'[f] = IF f \in FilesOf(m) THEN host[f] + 1 ELSE host[f]
      /\ \A f \in FilesOf(m) : host[f] = m.ver[f]
  BY DEF BatchWritten, BaseMatches, serviceVars
<1>3. /\ worker'.phase = "mark" /\ worker'.m = m
      /\ worker'.following = worker.following
  BY <1>1, <1>2 DEF WorkerType
<1>4. ASSUME NEW f \in FilesOf(m)
      PROVE  base[f] = m.ver[f] /\ host[f] = m.ver[f] /\ f \in pend
  <2>1. f \in Files /\ m.ver[f] \in Nat /\ base[f] \in Nat
    BY <1>1, ManifestFacts
  <2>2. m.ver[f] <= base[f] /\ (m.ver[f] = base[f] => f \in pend)
    BY <1>0 DEF KeptSound, Sound, Held
  <2>3. base[f] <= host[f] /\ host[f] = m.ver[f]
    BY <1>0, <1>2, <2>1 DEF NotPublishedTwice
  <2> QED BY <2>1, <2>2, <2>3
<1> HIDE DEF m
<1>5. LedgerTruthful'
  <2> SUFFICES ASSUME NEW e \in ledger, e.status = "published", NEW f \in DOMAIN e.ver
               PROVE  base[f] > e.ver[f] /\ host'[f] >= base[f]
    BY <1>2 DEF LedgerTruthful
  <2>1. base[f] > e.ver[f] /\ host[f] >= base[f]
    BY <1>0 DEF LedgerTruthful
  <2>2. f \in Files
    BY <1>0, MapFacts DEF PubTypeOK, Entries
  <2>3. base[f] \in Nat /\ host[f] \in Nat
    BY <1>1, <2>2
  <2>4. host'[f] = host[f] \/ host'[f] = host[f] + 1
    BY <1>2, <2>2
  <2> QED BY <2>1, <2>3, <2>4
<1>6. NotPublishedTwice'
  <2> SUFFICES ASSUME NEW f \in Files
               PROVE  /\ base[f] <= host'[f] /\ host'[f] <= base[f] + 1
                      /\ base[f] # host'[f] => f \in pend
    BY <1>2 DEF NotPublishedTwice
  <2>1. base[f] \in Nat /\ host[f] \in Nat
    BY <1>1
  <2>2. CASE f \in FilesOf(m)
    <3>1. base[f] = host[f] /\ f \in pend /\ host'[f] = host[f] + 1
      BY <1>2, <1>4, <2>2
    <3> QED BY <2>1, <3>1
  <2>3. CASE f \notin FilesOf(m)
    <3>1. host'[f] = host[f]
      BY <1>2, <2>3
    <3> QED BY <3>1, <1>0 DEF NotPublishedTwice
  <2> QED BY <2>2, <2>3
<1>7. WrittenAhead'
  <2> SUFFICES ASSUME NEW f \in FilesOf(m)
               PROVE  host'[f] = m.ver[f] + 1 /\ base[f] = m.ver[f] /\ f \in pend
    BY <1>2, <1>3 DEF WrittenAhead
  <2>1. f \in Files
    BY <1>1, ManifestFacts
  <2> QED BY <2>1, <1>2, <1>4
<1>8. OneOfEachPub'
  BY <1>0, <1>2, <1>3 DEF OneOfEachPub, m
<1>9. KeptSound'
  BY <1>0, <1>2, <1>3 DEF KeptSound, m
<1> QED BY <1>5, <1>6, <1>7, <1>8, <1>9 DEF PublicationInv

\* Recording the worker's batch, whatever the status, keeps every other
\* manifest sound, and the batch's own: what is replaced is this batch's entry.
LEMMA RecordingKeepsSound ==
    ASSUME PublicationInv, PubTypeOK', worker.phase \in {"write", "mark"},
           NEW status \in {"published", "failed", "baseline_failed"},
           ledger' = Recorded(worker.m, status), nextPub' = nextPub,
           \A f \in Files : base[f] <= base'[f],
           \A f \in Files : (base'[f] = base[f] /\ f \in pend) => f \in pend'
    PROVE  /\ dialog # None => Sound(dialog, pend', base', ledger', nextPub')
           /\ Sound(worker.m, pend', base', ledger', nextPub')
<1>0. PubTypeOK /\ OneOfEachPub /\ KeptSound
  BY DEF PublicationInv
<1>1. /\ base \in [Files -> Nat] /\ nextPub \in Nat /\ worker.m \in Manifest
      /\ dialog \in Manifest \cup {None} /\ nextPub <= nextPub'
  BY <1>0 DEF PubTypeOK
<1>2. base' \in [Files -> Nat] /\ nextPub' \in Nat
  BY DEF PubTypeOK
<1>3. dialog # None => dialog.pub # worker.m.pub
  BY <1>0 DEF OneOfEachPub
<1>4. ASSUME dialog # None PROVE Sound(dialog, pend', base', ledger', nextPub')
  <2>1. dialog \in Manifest /\ Sound(dialog, pend, base, ledger, nextPub)
    BY <1>0, <1>1, <1>4 DEF KeptSound
  <2>2. \A k \in 1..(dialog.i - 1) :
            Published(dialog.pub, k, ledger) => Published(dialog.pub, k, ledger')
    BY <1>0, <1>1, <1>3, <1>4, RecordKeeps
  <2> QED BY <1>1, <1>2, <2>1, <2>2, StaysSound
<1>5. Sound(worker.m, pend', base', ledger', nextPub')
  <2>1. Sound(worker.m, pend, base, ledger, nextPub)
    BY <1>0 DEF KeptSound
  <2>2. \A k \in 1..(worker.m.i - 1) : k # worker.m.i
    BY <1>1, ManifestFacts
  <2>3. \A k \in 1..(worker.m.i - 1) :
            Published(worker.m.pub, k, ledger) => Published(worker.m.pub, k, ledger')
    BY <1>0, <1>1, <2>2, RecordKeeps
  <2> QED BY <1>1, <1>2, <2>1, <2>3, StaysSound
<1> QED BY <1>4, <1>5

\* A batch that failed, or whose baseline advance was refused, is recorded as
\* such and publishes nothing.
LEMMA FailureKeeps ==
    ASSUME PublicationInv, PubTypeOK', UNCHANGED <<pend, base, host, dialog, next, nextPub>>,
           worker.phase \in {"write", "mark"},
           NEW status \in {"failed", "baseline_failed"},
           ledger' = Recorded(worker.m, status),
           worker'.m = worker.m, worker'.following = None,
           worker'.phase \in {"failed", "complete"}
    PROVE  PublicationInv'
<1>0. PubTypeOK /\ LedgerTruthful /\ NotPublishedTwice /\ OneOfEachPub /\ KeptSound
  BY DEF PublicationInv
<1>1. base \in [Files -> Nat] /\ worker.m \in Manifest /\ ledger \subseteq Entries
  BY <1>0 DEF PubTypeOK
<1>2. /\ dialog # None => Sound(dialog, pend', base', ledger', nextPub')
      /\ Sound(worker.m, pend', base', ledger', nextPub')
  <2>1. \A f \in Files : base[f] <= base'[f]
    BY <1>1
  <2> QED BY <2>1, RecordingKeepsSound
<1>3. next = NoNext /\ NoNext.m = None
  BY <1>0 DEF OneOfEachPub, NoNext
<1>4. LedgerTruthful'
  <2> SUFFICES ASSUME NEW e \in ledger', e.status = "published", NEW f \in DOMAIN e.ver
               PROVE  base[f] > e.ver[f] /\ host[f] >= base[f]
    BY DEF LedgerTruthful
  <2>1. e \in ledger
    BY <1>0, <1>1, RecordFacts
  <2> QED BY <2>1, <1>0 DEF LedgerTruthful
<1>5. NotPublishedTwice' /\ WrittenAhead'
  BY <1>0 DEF NotPublishedTwice, WrittenAhead
<1>6. OneOfEachPub'
  BY <1>0, <1>3 DEF OneOfEachPub
<1>7. KeptSound'
  BY <1>2, <1>3 DEF KeptSound
<1> QED BY <1>4, <1>5, <1>6, <1>7 DEF PublicationInv

\* The baseline advances to the written versions: the batch's changes are
\* settled, and the ledger may say so.
LEMMA MarkKeeps ==
    ASSUME PublicationInv, PubTypeOK', BatchMarked
    PROVE  PublicationInv'
<1> DEFINE m == worker.m
<1>0. /\ PubTypeOK /\ LedgerTruthful /\ NotPublishedTwice /\ WrittenAhead
      /\ OneOfEachPub /\ KeptSound /\ worker.phase = "mark"
  BY DEF PublicationInv, BatchMarked
<1>1. /\ base \in [Files -> Nat] /\ host \in [Files -> Nat] /\ worker \in WorkerType
      /\ m \in Manifest /\ nextPub \in Nat /\ ledger \subseteq Entries
  BY <1>0 DEF PubTypeOK
<1>2. /\ UNCHANGED <<host, dialog, next, nextPub>>
      /\ pend' = pend \ FilesOf(m)
      /\ ledger' = Recorded(m, "published")
      /\ worker' = [worker EXCEPT !.phase = IF m.i < m.n THEN "fetch" ELSE "complete"]
      /\ \A f \in Files : base'[f] = IF f \in FilesOf(m) THEN host[f] ELSE base[f]
  BY DEF BatchMarked, serviceVars
<1>3. /\ worker'.phase = (IF m.i < m.n THEN "fetch" ELSE "complete")
      /\ worker'.m = m /\ worker'.following = None
  BY <1>0, <1>1, <1>2 DEF WorkerType, OneOfEachPub
<1>4. ASSUME NEW f \in FilesOf(m)
      PROVE  /\ f \in Files /\ m.ver[f] \in Nat
             /\ host[f] = m.ver[f] + 1 /\ base[f] = m.ver[f] /\ f \in pend
  BY <1>0, <1>1, ManifestFacts DEF WrittenAhead
<1> HIDE DEF m
<1>5. \A f \in Files : base[f] <= base'[f]
  <2> SUFFICES ASSUME NEW f \in Files PROVE base[f] <= base'[f]
    OBVIOUS
  <2>1. base[f] \in Nat /\ host[f] \in Nat /\ base[f] <= host[f]
    BY <1>0, <1>1 DEF NotPublishedTwice
  <2> QED BY <2>1, <1>2
<1>6. \A f \in Files : (base'[f] = base[f] /\ f \in pend) => f \in pend'
  <2> SUFFICES ASSUME NEW f \in FilesOf(m) PROVE base'[f] # base[f]
    BY <1>2
  <2>1. base'[f] = m.ver[f] + 1 /\ base[f] = m.ver[f] /\ m.ver[f] \in Nat
    BY <1>2, <1>4
  <2> QED BY <2>1
<1>7. /\ dialog # None => Sound(dialog, pend', base', ledger', nextPub')
      /\ Sound(m, pend', base', ledger', nextPub')
  BY <1>0, <1>2, <1>5, <1>6, RecordingKeepsSound DEF m
<1>8. next = NoNext /\ NoNext.m = None
  BY <1>0 DEF OneOfEachPub, NoNext
<1>9. LedgerTruthful'
  <2> SUFFICES ASSUME NEW e \in ledger', e.status = "published", NEW f \in DOMAIN e.ver
               PROVE  base'[f] > e.ver[f] /\ host[f] >= base'[f]
    BY <1>2 DEF LedgerTruthful
  <2>1. e \in Entries
    BY <1>0, <1>1, <1>2, RecordFacts
  <2>2. f \in Files /\ e.ver[f] \in Nat
    BY <2>1, MapFacts DEF Entries
  <2>3. base[f] \in Nat /\ base'[f] \in Nat /\ host[f] \in Nat /\ base[f] <= base'[f]
    BY <1>1, <1>2, <1>5, <2>2
  <2>4. base'[f] > e.ver[f]
    <3>1. CASE e \in ledger
      <4>1. base[f] > e.ver[f]
        BY <3>1, <1>0 DEF LedgerTruthful
      <4> QED BY <4>1, <2>2, <2>3
    <3>2. CASE e.ver = m.ver
      <4>1. f \in FilesOf(m)
        BY <3>2 DEF FilesOf
      <4>2. base'[f] = m.ver[f] + 1 /\ m.ver[f] \in Nat
        BY <4>1, <1>2, <1>4
      <4> QED BY <4>2, <3>2
    <3> QED BY <3>1, <3>2, <1>0, <1>1, <1>2, RecordFacts
  <2>5. host[f] >= base'[f]
    <3>1. base[f] <= host[f]
      BY <1>0, <2>2 DEF NotPublishedTwice
    <3> QED BY <3>1, <2>2, <2>3, <1>2
  <2> QED BY <2>4, <2>5
<1>10. NotPublishedTwice'
  <2> SUFFICES ASSUME NEW f \in Files
               PROVE  /\ base'[f] <= host[f] /\ host[f] <= base'[f] + 1
                      /\ base'[f] # host[f] => f \in pend'
    BY <1>2 DEF NotPublishedTwice
  <2>1. base[f] \in Nat /\ host[f] \in Nat
    BY <1>1
  <2>2. CASE f \in FilesOf(m)
    <3>1. base'[f] = host[f]
      BY <1>2, <2>2
    <3> QED BY <2>1, <3>1
  <2>3. CASE f \notin FilesOf(m)
    <3>1. base'[f] = base[f] /\ (f \in pend => f \in pend')
      BY <1>2, <2>3
    <3> QED BY <3>1, <1>0 DEF NotPublishedTwice
  <2> QED BY <2>2, <2>3
<1>11. WrittenAhead'
  BY <1>3 DEF WrittenAhead
<1>12. OneOfEachPub'
  BY <1>0, <1>2, <1>3, <1>8 DEF OneOfEachPub, m
<1>13. worker'.phase = "fetch" => Published(m.pub, m.i, ledger')
  <2> SUFFICES ASSUME m.i < m.n PROVE Published(m.pub, m.i, ledger')
    BY <1>3
  <2>1. m.n > 1
    BY <1>1, ManifestFacts
  <2> QED BY <2>1, <1>2, RecordPublishes
<1>14. KeptSound'
  BY <1>2, <1>3, <1>7, <1>8, <1>13 DEF KeptSound
<1> QED BY <1>9, <1>10, <1>11, <1>12, <1>14 DEF PublicationInv

\* The next batch is made from what is still pending, after this one was
\* recorded as published.
LEMMA FetchKeeps ==
    ASSUME PublicationInv, PubTypeOK', FetchNext \/ FetchFails
    PROVE  PublicationInv'
<1> DEFINE m == worker.m
<1>0. /\ PubTypeOK /\ OneOfEachPub /\ KeptSound /\ worker.phase = "fetch"
      /\ UNCHANGED <<pend, base, host, dialog, next, ledger, nextPub>>
  BY DEF PublicationInv, FetchNext, FetchFails, executorVars, serviceVars
<1>1. worker \in WorkerType /\ m \in Manifest /\ nextPub \in Nat /\ nextPub <= nextPub'
  BY <1>0 DEF PubTypeOK
<1>2. LedgerTruthful' /\ NotPublishedTwice'
  BY <1>0, <1>1, WorldKept
<1>3. /\ worker'.phase = "complete" /\ worker'.m = m
      /\ worker'.following \in {None, PublicationBatch(m, worker.paths)}
  BY <1>0, <1>1 DEF FetchNext, FetchFails, WorkerType, OneOfEachPub
<1> HIDE DEF m
<1>4. ASSUME worker'.following # None
      PROVE  /\ worker'.following.pub = m.pub
             /\ Sound(worker'.following, pend, base, ledger, nextPub)
  <2> DEFINE S == pend \cap worker.paths
             b == BatchOf(m.pub, m.i + 1, S, m.sel)
  <2>1. worker'.following = b
    BY <1>3, <1>4 DEF PublicationBatch
  <2>2. /\ m.pub \in Nat /\ m.i \in Nat /\ m.i + 1 \in Nat /\ m.i + 1 # 0
        /\ m.sel \in SUBSET Files /\ S \in SUBSET pend
    BY <1>1, ManifestFacts
  <2>3. b.pub = m.pub /\ b.i = m.i + 1 /\ Held(b, pend, base)
    <3> HIDE DEF S
    <3> QED BY <1>0, <2>2, BatchFacts
  <2> HIDE DEF b
  <2>4. m.pub < nextPub /\ Published(m.pub, m.i, ledger)
        /\ \A k \in 1..(m.i - 1) : Published(m.pub, k, ledger)
    BY <1>0 DEF KeptSound, Sound, m
  <2>5. \A k \in 1..(b.i - 1) : k \in 1..(m.i - 1) \/ k = m.i
    BY <2>2, <2>3
  <2> QED BY <2>1, <2>3, <2>4, <2>5 DEF Sound
<1>5. WrittenAhead'
  BY <1>3 DEF WrittenAhead
<1>6. next = NoNext /\ NoNext.m = None
  BY <1>0 DEF OneOfEachPub, NoNext
<1>7. OneOfEachPub'
  BY <1>0, <1>3, <1>4, <1>6 DEF OneOfEachPub, m
<1>8. KeptSound'
  BY <1>0, <1>3, <1>4, <1>6 DEF KeptSound, m
<1> QED BY <1>2, <1>5, <1>7, <1>8 DEF PublicationInv

-----------------------------------------------------------------------------
(* Slots of the main thread.                                               *)

\* The end of the worker queues the batch it fetched, offers a failed batch
\* again or forgets the worker; the executor and the ledger are left alone.
LEMMA SlotKeeps ==
    ASSUME PublicationInv, PubTypeOK', SlotStep
    PROVE  PublicationInv'
<1>0. /\ PubTypeOK /\ WrittenAhead /\ OneOfEachPub /\ KeptSound
      /\ UNCHANGED <<pend, base, host, ledger, nextPub>>
  BY DEF PublicationInv, SlotStep, OnComplete, OnFailed, OnFinished,
         OnFinishedContinue, executorVars
<1>1. /\ worker \in WorkerType /\ nextPub \in Nat /\ nextPub <= nextPub'
      /\ dialog \in Manifest \cup {None} /\ next.m \in Manifest \cup {None}
  BY <1>0 DEF PubTypeOK
<1>2. LedgerTruthful' /\ NotPublishedTwice'
  BY <1>0, <1>1, WorldKept
<1>3. NoNext.m = None
  BY DEF NoNext
<1>4. CASE OnComplete
  <2>1. /\ worker.phase = "complete" /\ worker'.phase = "finish"
        /\ worker'.m = worker.m /\ worker'.following = worker.following
        /\ UNCHANGED dialog /\ next = NoNext
    BY <1>0, <1>1, <1>4 DEF OnComplete, WorkerType, OneOfEachPub
  <2>2. next' = IF worker.following = None THEN NoNext
                ELSE [m |-> worker.following, auto |-> worker.auto /\ auto]
    BY <1>4, <2>1 DEF OnComplete
  <2>3. WrittenAhead'
    BY <2>1 DEF WrittenAhead
  <2>4. OneOfEachPub'
    BY <1>0, <1>3, <2>1, <2>2 DEF OneOfEachPub
  <2>5. KeptSound'
    BY <1>0, <1>3, <2>1, <2>2 DEF KeptSound
  <2> QED BY <1>2, <2>3, <2>4, <2>5 DEF PublicationInv
<1>5. CASE OnFailed
  <2>1. /\ worker.phase = "failed" /\ worker'.phase = "finish"
        /\ worker'.m = worker.m /\ worker'.following = None
        /\ dialog' \in {dialog, worker.m} /\ next = NoNext /\ UNCHANGED next
    BY <1>0, <1>1, <1>5 DEF OnFailed, WorkerType, OneOfEachPub
  <2>2. WrittenAhead' /\ OneOfEachPub'
    BY <1>3, <2>1 DEF WrittenAhead, OneOfEachPub
  <2>3. KeptSound'
    BY <1>0, <1>3, <2>1 DEF KeptSound
  <2> QED BY <1>2, <2>2, <2>3 DEF PublicationInv
<1>6. CASE OnFinished
  <2>1. worker' = NoWorker /\ UNCHANGED <<dialog, next>> /\ next = NoNext
    BY <1>6 DEF OnFinished
  <2>2. WrittenAhead' /\ OneOfEachPub'
    BY <1>3, <2>1 DEF WrittenAhead, OneOfEachPub, NoWorker
  <2>3. KeptSound'
    BY <1>0, <1>3, <2>1 DEF KeptSound, NoWorker
  <2> QED BY <1>2, <2>2, <2>3 DEF PublicationInv
<1>7. CASE OnFinishedContinue
  <2>1. next' = NoNext /\ next.m # None /\ next.m \in Manifest
    BY <1>0, <1>1, <1>7 DEF OnFinishedContinue, OneOfEachPub
  <2>2. Sound(next.m, pend', base', ledger', nextPub')
    BY <1>0, <2>1 DEF KeptSound
  <2>3. dialog # None => dialog.pub # next.m.pub
    BY <1>0, <2>1 DEF OneOfEachPub
  <2>4. WrittenAhead' /\ OneOfEachPub' /\ KeptSound'
    <3>1. CASE Start(next.m, TRUE, FALSE, dialog)
      BY <1>0, <1>1, <2>1, <2>2, <2>3, <3>1, StartKeeps
    <3>2. CASE dialog' = next.m /\ worker' = NoWorker
      <4>1. WrittenAhead' /\ OneOfEachPub'
        BY <1>3, <2>1, <3>2 DEF WrittenAhead, OneOfEachPub, NoWorker
      <4>2. KeptSound'
        BY <1>3, <2>1, <2>2, <3>2 DEF KeptSound, NoWorker
      <4> QED BY <4>1, <4>2
    <3> QED BY <1>7, <3>1, <3>2 DEF OnFinishedContinue
  <2> QED BY <1>2, <2>4 DEF PublicationInv
<1> QED BY <1>4, <1>5, <1>6, <1>7 DEF SlotStep

-----------------------------------------------------------------------------
(* Theorems.                                                               *)

\* Every step keeps the invariant.
LEMMA PublicationInvStep == PublicationInv /\ [Next]_vars => PublicationInv'
<1> SUFFICES ASSUME PublicationInv, [Next]_vars PROVE PublicationInv'
  OBVIOUS
<1>0. PubTypeOK'
  BY PublicationTypes DEF PublicationInv
<1>1. ASSUME NEW f \in Files, Change(f) PROVE PublicationInv'
  BY <1>0, <1>1, ChangeKeeps
<1>2. ASSUME Absorb PROVE PublicationInv'
  BY <1>0, <1>2, AbsorbKeeps
<1>3. ASSUME NEW sel \in SUBSET Files, PublishStaged(sel) PROVE PublicationInv'
  BY <1>0, <1>3, AskingKeeps DEF PublishStaged, executorVars
<1>4. ASSUME StagedPublication PROVE PublicationInv'
  BY <1>0, <1>4, AnswerKeeps
<1>5. CASE RequestFails \/ Dismiss \/ SwitchAuto \/ UNCHANGED vars
  BY <1>0, <1>5, AskingKeeps
     DEF RequestFails, Dismiss, SwitchAuto, vars, executorVars, serviceVars
<1>6. ASSUME NEW autoRun \in BOOLEAN, HandleManifest(autoRun) PROVE PublicationInv'
  BY <1>0, <1>6, ManifestArrives
<1>7. ASSUME Accept PROVE PublicationInv'
  BY <1>0, <1>7, AcceptKeeps
<1>8. ASSUME BatchWritten PROVE PublicationInv'
  BY <1>0, <1>8, WriteKeeps
<1>9. ASSUME BatchFails \/ MarkRefused PROVE PublicationInv'
  <2>1. PubTypeOK /\ OneOfEachPub
    BY DEF PublicationInv
  <2>2. worker \in WorkerType
    BY <2>1 DEF PubTypeOK
  <2>3. worker.phase \in {"write", "mark"} /\ worker.following = None
    BY <1>9, <2>1 DEF BatchFails, MarkRefused, OneOfEachPub
  <2>4. /\ worker'.m = worker.m /\ worker'.following = None
        /\ worker'.phase \in {"failed", "complete"}
    BY <1>9, <2>2, <2>3 DEF BatchFails, MarkRefused, WorkerType
  <2>5. UNCHANGED <<pend, base, host, dialog, next, nextPub>>
    BY <1>9 DEF BatchFails, MarkRefused, executorVars, serviceVars
  <2>6. \/ ledger' = Recorded(worker.m, "failed")
        \/ ledger' = Recorded(worker.m, "baseline_failed")
    BY <1>9 DEF BatchFails, MarkRefused
  <2> QED BY <1>0, <2>3, <2>4, <2>5, <2>6, FailureKeeps
<1>10. ASSUME BatchMarked PROVE PublicationInv'
  BY <1>0, <1>10, MarkKeeps
<1>11. ASSUME FetchNext \/ FetchFails PROVE PublicationInv'
  BY <1>0, <1>11, FetchKeeps
<1>12. ASSUME SlotStep PROVE PublicationInv'
  BY <1>0, <1>12, SlotKeeps
<1> QED
  BY <1>1, <1>2, <1>3, <1>4, <1>5, <1>6, <1>7, <1>8, <1>9, <1>10, <1>11, <1>12
     DEF Next, WorkerStep

\* The invariant says that the batches are in order: the worker's manifest is
\* sound.
LEMMA SoundIsInOrder == PublicationInv => PublicationIsExact
<1> SUFFICES ASSUME PublicationInv PROVE BatchesInOrder
  BY DEF PublicationIsExact, PublicationInv
<1>1. worker.phase = "write" => Sound(worker.m, pend, base, ledger, nextPub)
  BY DEF PublicationInv, KeptSound
<1> QED BY <1>1 DEF BatchesInOrder, Sound, Published

\* Whatever is asked, confirmed, retried, dismissed or lost in between: what
\* the ledger calls published is on the host and in the baseline, the host is
\* at most one publication ahead of the baseline and only at pending files,
\* and a batch is only written after the earlier ones of its publication.
THEOREM PublicationExact == Spec => []PublicationIsExact
<1>1. Spec => []PublicationInv
  BY PublicationInvInit, PublicationInvStep, PTL DEF Spec
<1> QED BY <1>1, SoundIsInOrder, PTL
=============================================================================
