------------------------- MODULE PublicationProofs -------------------------
(***************************************************************************)
(* Proofs about module Broker: what a batch that ended did to the host, for *)
(* every manifest, every interleaving with the user's edits and every       *)
(* failure of a write or of a restore; and about module Publication, where  *)
(* batches, rebases, tools, crashes and the user's edits run side by side.  *)
(***************************************************************************)
EXTENDS Publication, StagingProofs

-----------------------------------------------------------------------------
(* Module Broker.                                                          *)

\* Putting one file touches that file only.
LEMMA PutOne ==
    ASSUME WorkspaceTypeOK, NEW p \in Paths, NEW e \in Entry,
           HostPut([q \in {p} |-> e])
    PROVE  /\ WorkspaceTypeOK'
           /\ Host(p)' = e
           /\ \A q \in Paths \ {p} : Host(q)' = Host(q) /\ written'[q] = written[q]
<1> DEFINE new == [q \in {p} |-> e]
<1>1. DOMAIN new = {p} /\ new[p] = e /\ HostPut(new)
  OBVIOUS
<1>2. \A q \in Paths \ {p} : written'[q] = written[q]
  BY <1>1 DEF HostPut
<1> HIDE DEF new
<1>3. DOMAIN new \subseteq Paths /\ \A q \in DOMAIN new : new[q] \in Entry
  BY <1>1
<1>4. /\ WorkspaceTypeOK' /\ \A q \in DOMAIN new : Host(q)' = new[q]
      /\ \A q \in Paths \ DOMAIN new : Host(q)' = Host(q)
  BY <1>1, <1>3, HostPutFacts
<1> QED BY <1>1, <1>2, <1>4

\* The lowest operation left is unique.
LEMMA LowestUnique ==
    ASSUME NEW S \in SUBSET Paths, NEW p \in S, NEW q \in S,
           Lowest(S, p), Lowest(S, q)
    PROVE  p = q
BY PathsAreOrdered DEF Lowest

-----------------------------------------------------------------------------
(* Types.                                                                  *)

\* The broker starts with no batch.
LEMMA BrokerTypeInit == BrokerInit => BrokerTypeOK
<1> SUFFICES ASSUME WorkspaceInit, BatchInit PROVE BrokerTypeOK
  BY DEF BrokerInit
<1>1. WorkspaceTypeOK
  BY WorkspaceTypeInit
<1>2. NoManifest \in ManifestType
  <2>1. [p \in {} |-> {}] \in [{} -> Op]
    OBVIOUS
  <2> QED BY <2>1 DEF NoManifest, ManifestType
<1>3. NoBatch \in BatchType
  BY <1>2 DEF NoBatch, BatchType, Phases, Entry
<1> QED BY <1>1, <1>3 DEF BatchInit, BrokerTypeOK

\* The operation in hand is one of the manifest's, so what is written is an
\* entry, and so is what a restore puts back.
LEMMA OpInHand ==
    ASSUME BrokerTypeOK, BatchProgress, NEW p \in Paths
    PROVE  /\ Lowest(batch.todo, p) => p \in Ops
           /\ Highest(batch.undo, p) => p \in Ops
           /\ p \in Ops => batch.m.ops[p].staged \in Entry
           /\ batch.rec[p] \in Entry
BY ManifestFacts DEF BrokerTypeOK, BatchType, BatchProgress, Ops, Lowest, Highest

\* A batch is entered with a well-typed manifest, nothing of it done.
LEMMA StartBatch ==
    ASSUME BrokerTypeOK, NEW m \in ManifestType, BatchStart(m)
    PROVE  /\ BrokerTypeOK' /\ BatchProgress'
           /\ batch'.m = m /\ batch'.phase = "check" /\ batch'.touched = {}
<1>1. DOMAIN m.ops \subseteq Paths
  BY ManifestFacts
<1>2. /\ batch' = [NoBatch EXCEPT !.phase = "check", !.m = m, !.todo = DOMAIN m.ops]
      /\ edited' = {} /\ batches' = batches + 1 /\ UNCHANGED wsVars
  BY DEF BatchStart
<1>3. batch' \in BatchType
  BY <1>1, <1>2 DEF NoBatch, BatchType, Phases, Entry
<1>4. BrokerTypeOK'
  BY <1>2, <1>3 DEF BrokerTypeOK, WorkspaceTypeOK, wsVars
<1>5. /\ batch'.phase = "check" /\ batch'.m = m /\ batch'.todo = DOMAIN m.ops
      /\ batch'.touched = {} /\ batch'.undo = {}
  BY <1>2 DEF NoBatch
<1>6. BatchProgress'
  BY <1>5 DEF BatchProgress, Ops
<1> QED BY <1>4, <1>5, <1>6

\* Every step of a batch, a crash and the user's edits keep the types.
LEMMA BrokerTypeStep ==
    BrokerTypeOK /\ BatchProgress /\ [BrokerNext]_bvars => BrokerTypeOK'
<1> SUFFICES ASSUME BrokerTypeOK, BatchProgress, [BrokerNext]_bvars
             PROVE  BrokerTypeOK'
  OBVIOUS
<1>a. batch \in BatchType /\ edited \subseteq Paths /\ batches \in Nat /\ WorkspaceTypeOK
  BY DEF BrokerTypeOK
<1>b. \A p \in Paths : Host(p) \in Entry
  BY <1>a, HostIsPast
<1>c. UNCHANGED wsVars => WorkspaceTypeOK'
  BY <1>a DEF wsVars, WorkspaceTypeOK
<1>d. Fail(batch) \in BatchType
  BY <1>a DEF Fail, BatchType, Phases
<1>1. ASSUME NEW m \in AnyManifest, BatchStart(m) PROVE BrokerTypeOK'
  <2>1. m \in ManifestType
    BY DEF AnyManifest, ManifestType
  <2> QED BY <1>1, <2>1, StartBatch
<1>2. ASSUME NEW p \in Paths, OpCheck(p) PROVE BrokerTypeOK'
  <2>1. batch' \in BatchType
    BY <1>2, <1>a, <1>b DEF OpCheck, BatchType, Phases
  <2> QED BY <1>2, <1>a, <1>c, <2>1 DEF OpCheck, BrokerTypeOK
<1>3. ASSUME NEW p \in Paths, OpRefused(p) PROVE BrokerTypeOK'
  BY <1>3, <1>a, <1>c, <1>d DEF OpRefused, BrokerTypeOK
<1>4. ASSUME NEW p \in Paths, OpWrite(p) PROVE BrokerTypeOK'
  <2>1. batch' \in BatchType
    BY <1>4, <1>a DEF OpWrite, BatchType, Phases
  <2>2. WorkspaceTypeOK'
    BY <1>4, <1>a, OpInHand, PutOne DEF OpWrite
  <2> QED BY <1>4, <1>a, <2>1, <2>2 DEF OpWrite, BrokerTypeOK
<1>5. ASSUME NEW p \in Paths, OpWriteFails(p) PROVE BrokerTypeOK'
  <2>1. WorkspaceTypeOK'
    BY <1>5, <1>a, <1>c, OpInHand, PutOne DEF OpWriteFails
  <2> QED BY <1>5, <1>a, <1>d, <2>1 DEF OpWriteFails, BrokerTypeOK
<1>6. ASSUME NEW p \in Paths, Restore(p) PROVE BrokerTypeOK'
  <2>1. batch' \in BatchType
    BY <1>6, <1>a DEF Restore, BatchType, Phases
  <2>2. WorkspaceTypeOK'
    BY <1>6, <1>a, <1>c, OpInHand, PutOne DEF Restore
  <2> QED BY <1>6, <1>a, <2>1, <2>2 DEF Restore, BrokerTypeOK
<1>7. ASSUME NEW p \in Paths, RestoreFails(p) PROVE BrokerTypeOK'
  <2>1. batch' \in BatchType
    BY <1>7, <1>a DEF RestoreFails, BatchType, Phases
  <2> QED BY <1>7, <1>a, <1>c, <2>1 DEF RestoreFails, BrokerTypeOK
<1>8. CASE BatchDone \/ RollbackDone \/ DesktopCrash
  <2>1. batch' \in BatchType
    BY <1>8, <1>a DEF BatchDone, RollbackDone, DesktopCrash, BatchType, Phases
  <2> QED BY <1>8, <1>a, <1>c, <2>1 DEF BatchDone, RollbackDone, DesktopCrash, BrokerTypeOK
<1>9. CASE BatchRecordFails
  BY <1>9, <1>a, <1>c, <1>d DEF BatchRecordFails, BrokerTypeOK
<1>10. ASSUME NEW p \in Paths, NEW e \in Entry, BrokerUserEdit(p, e)
       PROVE  BrokerTypeOK'
  BY <1>10, <1>a, UserEditFacts DEF BrokerUserEdit, BrokerTypeOK
<1>11. CASE UNCHANGED bvars
  BY <1>11, <1>a, <1>c DEF bvars, brokerVars, BrokerTypeOK
<1> QED BY <1>1, <1>2, <1>3, <1>4, <1>5, <1>6, <1>7, <1>8, <1>9, <1>10, <1>11
        DEF BrokerNext, BrokerStep

-----------------------------------------------------------------------------
(* The course of a batch.                                                  *)

\* At first there is no batch.
LEMMA ProgressInit == BrokerInit => BatchProgress
BY DEF BrokerInit, BatchInit, NoBatch, NoManifest, BatchProgress, Ops

\* A failure: everything touched is to be restored.
LEMMA FailProgress ==
    ASSUME BrokerTypeOK, BatchProgress, batch' = Fail(batch)
    PROVE  BatchProgress'
<1>1. /\ batch'.phase = "rollback" /\ batch'.undo = batch.touched
      /\ batch'.m = batch.m /\ batch'.todo = batch.todo
      /\ batch'.touched = batch.touched /\ batch'.rec = batch.rec
  BY DEF Fail, BrokerTypeOK, BatchType
<1> QED BY <1>1 DEF BatchProgress, Ops

\* Every step keeps the account of which files are written and restored.
LEMMA ProgressStep ==
    BrokerTypeOK /\ BatchProgress /\ [BrokerNext]_bvars => BatchProgress'
<1> SUFFICES ASSUME BrokerTypeOK, BatchProgress, [BrokerNext]_bvars
             PROVE  BatchProgress'
  OBVIOUS
<1>a. /\ batch \in BatchType /\ edited \subseteq Paths /\ WorkspaceTypeOK
      /\ Ops \subseteq Paths /\ batch.todo \subseteq Paths /\ batch.touched \subseteq Paths
  BY ManifestFacts DEF BrokerTypeOK, BatchType, Ops
<1>b. UNCHANGED wsVars => \A p \in Paths : Host(p)' = Host(p)
  BY DEF wsVars, Host
<1>1. ASSUME NEW m \in AnyManifest, BatchStart(m) PROVE BatchProgress'
  <2>1. m \in ManifestType
    BY DEF AnyManifest, ManifestType
  <2> QED BY <1>1, <2>1, StartBatch
<1>2. ASSUME NEW p \in Paths, OpCheck(p) PROVE BatchProgress'
  <2>1. /\ batch.phase = "check" /\ Lowest(batch.todo, p)
        /\ Host(p) = batch.m.ops[p].base
        /\ batch'.phase = "write" /\ batch'.touched = batch.touched \cup {p}
        /\ batch'.rec = [batch.rec EXCEPT ![p] = Host(p)]
        /\ batch'.m = batch.m /\ batch'.todo = batch.todo /\ batch'.undo = batch.undo
        /\ edited' = edited /\ UNCHANGED wsVars
    BY <1>2, <1>a DEF OpCheck, BatchType
  <2>2. \A q \in Paths : batch'.rec[q] = IF q = p THEN Host(p) ELSE batch.rec[q]
    BY <2>1, <1>a DEF BatchType
  <2>3. \A q \in Paths : Lowest(batch.todo, q) => q = p
    BY <2>1, <1>a, LowestUnique DEF Lowest
  <2>4. p \in batch.todo
    BY <2>1 DEF Lowest
  <2> QED BY <1>a, <1>b, <2>1, <2>2, <2>3, <2>4 DEF BatchProgress, Ops
<1>3. ASSUME NEW p \in Paths, OpRefused(p) PROVE BatchProgress'
  BY <1>3, FailProgress DEF OpRefused
<1>4. ASSUME NEW p \in Paths, OpWrite(p) PROVE BatchProgress'
  <2>1. /\ batch.phase = "write" /\ Lowest(batch.todo, p)
        /\ batch'.phase = "check" /\ batch'.todo = batch.todo \ {p}
        /\ batch'.m = batch.m /\ batch'.touched = batch.touched
        /\ batch'.rec = batch.rec /\ batch'.undo = batch.undo
        /\ edited' = edited
    BY <1>4, <1>a DEF OpWrite, BatchType
  <2>2. /\ Host(p)' = batch.m.ops[p].staged
        /\ \A q \in Paths \ {p} : Host(q)' = Host(q)
    BY <1>4, <1>a, OpInHand, PutOne DEF OpWrite
  <2>3. p \in batch.touched
    BY <2>1 DEF BatchProgress
  <2> QED BY <1>a, <2>1, <2>2, <2>3 DEF BatchProgress, Ops
<1>5. ASSUME NEW p \in Paths, OpWriteFails(p) PROVE BatchProgress'
  BY <1>5, FailProgress DEF OpWriteFails
<1>6. ASSUME NEW p \in Paths, Restore(p) PROVE BatchProgress'
  <2>1. /\ batch.phase = "rollback" /\ p \in batch.undo
        /\ batch'.phase = "rollback" /\ batch'.undo = batch.undo \ {p}
        /\ batch'.m = batch.m /\ batch'.touched = batch.touched
        /\ batch'.rec = batch.rec /\ batch'.todo = batch.todo
        /\ batch'.errors = batch.errors /\ edited' = edited
    BY <1>6, <1>a DEF Restore, BatchType, Highest
  <2>2. /\ Host(p)' = batch.rec[p]
        /\ \A q \in Paths \ {p} : Host(q)' = Host(q)
    BY <1>6, <1>a, <1>b, OpInHand, PutOne DEF Restore
  <2>3. batch.rec[p] = batch.m.ops[p].base
    BY <2>1 DEF BatchProgress
  <2> QED BY <1>a, <2>1, <2>2, <2>3 DEF BatchProgress, Ops
<1>7. ASSUME NEW p \in Paths, RestoreFails(p) PROVE BatchProgress'
  <2>1. /\ batch.phase = "rollback"
        /\ batch'.phase = "rollback" /\ batch'.undo = batch.undo \ {p}
        /\ batch'.m = batch.m /\ batch'.touched = batch.touched
        /\ batch'.rec = batch.rec /\ batch'.todo = batch.todo
        /\ batch'.errors = batch.errors \cup {p} /\ edited' = edited
        /\ UNCHANGED wsVars
    BY <1>7, <1>a DEF RestoreFails, BatchType
  <2> QED BY <1>a, <1>b, <2>1 DEF BatchProgress, Ops
<1>8. CASE BatchDone \/ RollbackDone \/ DesktopCrash
  <2>1. /\ batch'.undo = batch.undo
        /\ batch'.m = batch.m /\ batch'.touched = batch.touched
        /\ batch'.rec = batch.rec /\ batch'.todo = batch.todo
        /\ batch'.errors = batch.errors /\ edited' = edited
        /\ UNCHANGED wsVars
    BY <1>8, <1>a DEF BatchDone, RollbackDone, DesktopCrash, BatchType
  <2>2. \/ batch.phase = "check" /\ batch.todo = {} /\ batch'.phase = "done"
        \/ batch.phase = "rollback" /\ batch.undo = {} /\ batch'.phase = "failed"
        \/ batch'.phase = "crashed"
    BY <1>8, <1>a DEF BatchDone, RollbackDone, DesktopCrash, BatchType
  <2> QED BY <1>a, <1>b, <2>1, <2>2 DEF BatchProgress, Ops
<1>9. CASE BatchRecordFails
  BY <1>9, FailProgress DEF BatchRecordFails
<1>10. ASSUME NEW p \in Paths, NEW e \in Entry, BrokerUserEdit(p, e)
       PROVE  BatchProgress'
  <2>1. \A q \in Paths \ {p} : Host(q)' = Host(q)
    BY <1>10, <1>a, PutOne DEF BrokerUserEdit, UserEdit
  <2>2. /\ batch' = batch /\ edited \subseteq edited'
        /\ p \in batch.touched => p \in edited'
    BY <1>10 DEF BrokerUserEdit
  <2> QED BY <1>a, <2>1, <2>2 DEF BatchProgress, Ops
<1>11. CASE UNCHANGED bvars
  <2>1. batch' = batch /\ edited' = edited /\ UNCHANGED wsVars
    BY <1>11 DEF bvars, brokerVars
  <2> QED BY <1>a, <1>b, <2>1 DEF BatchProgress, Ops
<1> QED BY <1>1, <1>2, <1>3, <1>4, <1>5, <1>6, <1>7, <1>8, <1>9, <1>10, <1>11
        DEF BrokerNext, BrokerStep

\* The account of a batch holds in every state the broker can reach.
THEOREM BatchProgressInvariant == BrokerSpec => [](BrokerTypeOK /\ BatchProgress)
<1>1. BrokerInit => BrokerTypeOK /\ BatchProgress
  BY BrokerTypeInit, ProgressInit
<1>2. BrokerTypeOK /\ BatchProgress /\ [BrokerNext]_bvars
      => (BrokerTypeOK /\ BatchProgress)'
  BY BrokerTypeStep, ProgressStep
<1> QED BY <1>1, <1>2, PTL DEF BrokerSpec

\* publish() is all or nothing as far as it can tell: when it raises, every
\* file it touched and could restore has its reviewed base again.
THEOREM FailureIsUndone == BrokerSpec => []FailedBatchUndone
<1>1. BrokerTypeOK /\ BatchProgress => FailedBatchUndone
  BY ManifestFacts DEF BrokerTypeOK, BatchType, BatchProgress, FailedBatchUndone
<1> QED BY <1>1, BatchProgressInvariant, PTL

\* When publish() returns, every operation of the batch is on the host.
THEOREM SuccessIsPublished == BrokerSpec => []DoneBatchPublished
<1>1. BrokerTypeOK /\ BatchProgress => DoneBatchPublished
  BY DEF BatchProgress, DoneBatchPublished
<1> QED BY <1>1, BatchProgressInvariant, PTL

\* Nothing is replaced without its recovery copy.
THEOREM ReplacedHasCopy == BrokerSpec => ReplacedIsCopied
<1>1. ASSUME BrokerTypeOK, BatchProgress, NEW p \in Paths,
             BrokerStep, batch.phase # "rollback",
             written'[p] # written[p], p \notin edited
      PROVE  p \in batch'.touched /\ batch.rec[p] = Host(p)
  <2>1. PICK q \in Paths : OpWrite(q) \/ OpWriteFails(q)
    BY <1>1 DEF BrokerStep, OpCheck, OpRefused, Restore, RestoreFails, BatchDone,
                BatchRecordFails, RollbackDone, wsVars
  <2>2. p = q
    BY <1>1, <2>1, OpInHand, PutOne DEF OpWrite, OpWriteFails, BrokerTypeOK, wsVars
  <2>3. batch.phase = "write" /\ Lowest(batch.todo, p)
    BY <2>1, <2>2 DEF OpWrite, OpWriteFails
  <2>4. p \in batch.touched /\ batch.rec[p] = Host(p)
    BY <1>1, <2>3 DEF BatchProgress
  <2>5. batch'.touched = batch.touched
    BY <1>1, <2>1 DEF OpWrite, OpWriteFails, Fail, BrokerTypeOK, BatchType
  <2> QED BY <2>4, <2>5
<1>2. BrokerTypeOK /\ BatchProgress =>
      [\A p \in Paths :
         /\ BrokerStep /\ batch.phase # "rollback"
         /\ written'[p] # written[p]
         /\ p \notin edited
         => p \in batch'.touched /\ batch.rec[p] = Host(p)]_bvars
  BY <1>1
<1> QED BY <1>2, BatchProgressInvariant, PTL DEF ReplacedIsCopied

-----------------------------------------------------------------------------
(* Module Publication: the executor, the broker and the user side by side.  *)

\* The paths a conflict may be blamed on, and the batches somebody holds.
Blamed == userWrote \cup clash
InHand == offers \cup receipts \cup IF Running THEN {batch.m} ELSE {}

\* The batch in hand has begun to write p and may still restore it.
Writing(p) == Running /\ p \in batch.touched

\* One baseline: nobody discards, so the saved one is that in memory, and a
\* rebase which has changed nothing builds on it unless it has got a new id.
OneBaseline ==
    /\ exec \in {"serving", "resuming", "down"}
    /\ exec = "down" => ~job.active
    /\ saved.present /\ saved.id = snap.id /\ saved.base = snap.base
    /\ saved.conf = conflicts
    /\ snap.id < nextId
    /\ job.active => job.id < nextId
    /\ job.active /\ ~job.changed /\ job.id = snap.id => job.base = snap.base

\* Nothing but blamed paths is a conflict or can be resolved.
BlameKept ==
    /\ edited \subseteq userWrote
    /\ conflicts \subseteq Blamed
    /\ job.conf \subseteq Blamed /\ job.keep \subseteq Blamed /\ job.take \subseteq Blamed

\* The worker sends its receipt before another batch is begun.
OneAtATime == Running => receipts = {}

\* What a rebase in progress makes of an unblamed path: the table it builds has
\* the host's version unless staging has it, also after a rollback; and the
\* loop will find the host unmoved, or equal to staging for as long as it runs.
JobKnows(p) ==
    /\ Host(p) \in {job.base[p], work[p]}
    /\ Writing(p) => batch.rec[p] = job.base[p]
    /\ p \in job.todo =>
          \/ job.host[p] = job.base[p]
          \/ /\ job.host[p] = job.staged[p] /\ job.host[p] = work[p]
             /\ Host(p) = work[p] /\ ~Writing(p)

\* An unblamed path: the baseline has the host's version unless staging has it,
\* also after a rollback; whoever holds a manifest holds what is staged.
Known(p) ==
    /\ Host(p) \in {snap.base[p], work[p]}
    /\ Writing(p) => batch.rec[p] = snap.base[p]
    /\ \A m \in InHand : p \in DOMAIN m.ops =>
          m.ops[p].staged = work[p] /\ m.ops[p].base # m.ops[p].staged
    /\ \A m \in receipts : p \in DOMAIN m.ops => Host(p) = work[p]
    /\ job.active => JobKnows(p)

PubTypes == TypeOK /\ BrokerTypeOK /\ BatchProgress
BlameInv == BlameKept /\ OneAtATime /\ \A p \in Paths \ Blamed : Known(p)
PubInv == PubTypes /\ OneBaseline /\ BlameInv

\* Every step but those of the broker, the desktop's worker and its crash is
\* one of module Staging's; and every step is none or one of the broker's.
LEMMA StagingSide ==
    ASSUME PubManifest \/ PubReceipt \/ PubTool \/ PubRebase \/ PubProcess \/ PubUser
    PROVE  Next
BY DEF PubManifest, PubReceipt, PubTool, PubRebase, PubProcess, PubUser, BrokerUserEdit,
       Next, DesktopStep, ToolStep, ProcessStep, UserStep

LEMMA BrokerSide ==
    ASSUME \/ PubManifest \/ PubReceipt \/ PubTool \/ PubRebase \/ PubProcess
           \/ PubUser \/ Publish \/ PubDesktopCrash
    PROVE  [BrokerNext]_bvars
<1>1. ASSUME NEW p \in Paths, NEW e \in Entry, ToolWrite(p, e) PROVE UNCHANGED wsVars
  BY <1>1 DEF ToolWrite
<1>2. RebaseStep => UNCHANGED wsVars
  <2>1. ASSUME NEW p \in Paths, Visit(p) PROVE UNCHANGED wsVars
    BY <2>1 DEF Visit
  <2> QED BY <2>1
          DEF RebaseStep, RebaseStart, RebaseInstall, RebaseInstallFails, RebaseAborts,
              RebaseNote, RebaseCommit, RebaseVerifyFails
<1>3. CASE PubManifest
  BY <1>3 DEF PubManifest, Manifest, bvars
<1>4. CASE PubReceipt
  BY <1>4 DEF PubReceipt, Decline, MarkPublished, MarkFails, bvars
<1>5. CASE PubTool
  BY <1>1, <1>5 DEF PubTool, bvars
<1>6. CASE PubRebase
  BY <1>2, <1>6 DEF PubRebase, bvars
<1>7. CASE PubProcess
  BY <1>7 DEF PubProcess, Crash, StartResume, bvars
<1>8. CASE PubUser \/ Publish
  BY <1>8 DEF PubUser, Publish, BrokerNext
<1>9. CASE PubDesktopCrash
  BY <1>9 DEF PubDesktopCrash, BrokerNext, bvars
<1> QED BY <1>3, <1>4, <1>5, <1>6, <1>7, <1>8, <1>9

\* The types, and the broker's account of its batch, are kept by every step.
LEMMA PubTypesStep ==
    ASSUME PubTypes, OneBaseline, PubNext
    PROVE  PubTypes'
<1>1. TypeOK /\ BrokerTypeOK /\ BatchProgress
  BY DEF PubTypes
<1>2. BrokerTypeOK' /\ BatchProgress'
  <2>1. CASE [BrokerNext]_bvars
    BY <1>1, <2>1, BrokerTypeStep, ProgressStep
  <2>2. ASSUME NEW m \in offers, Approve(m) PROVE BrokerTypeOK' /\ BatchProgress'
    <3>1. m \in ManifestType /\ BatchStart(m)
      BY <1>1, <2>2 DEF TypeOK, Approve
    <3> QED BY <1>1, <3>1, StartBatch
  <2> QED BY <2>1, <2>2, BrokerSide DEF PubNext
<1>3. TypeOK'
  <2>1. CASE Next
    BY <1>1, <2>1, TypeStep
  <2>2. ASSUME UNCHANGED stagingVars, offers' \subseteq ManifestType,
               receipts' \subseteq ManifestType
        PROVE  TypeOK'
    BY <1>1, <1>2, <2>2 DEF TypeOK, BrokerTypeOK, stagingVars, memVars
  <2>3. ASSUME NEW m \in offers, Approve(m) PROVE TypeOK'
    BY <1>1, <2>2, <2>3 DEF Approve, TypeOK
  <2>4. CASE Publish
    <3>1. batch.m \in ManifestType
      BY <1>1 DEF BrokerTypeOK, BatchType
    <3> QED BY <1>1, <2>2, <2>4, <3>1 DEF Publish, TypeOK
  <2>5. CASE PubDesktopCrash
    BY <1>1, <2>2, <2>5 DEF PubDesktopCrash, TypeOK
  <2> QED BY <2>1, <2>3, <2>4, <2>5, StagingSide DEF PubNext
<1> QED BY <1>2, <1>3 DEF PubTypes

\* The visit of a path by the loop of a rebase, for what is not blamed: j's
\* resolutions stay, and its conflicts grow by a path that it held back.
LEMMA QuietVisit ==
    ASSUME NEW j \in JobType, NEW p \in Paths
    PROVE  /\ LET k == Visited(Settled(Adopt(j, p), p), p)
              IN  k.keep = j.keep /\ k.take = j.take /\ k.conf \subseteq j.conf
           /\ LET k == Visited(HoldBack(j, p), p)
              IN  k.keep = j.keep /\ k.take = j.take /\ k.conf \subseteq j.conf \cup {p}
           /\ LET k == Visited(Noted(j, p), p)
              IN  /\ k.keep = j.keep /\ k.take = j.take
                  /\ k.conf \subseteq j.conf \cup {p}
                  /\ Branch(j, p) \in {"keep", "same", "unmoved"} => k.conf \subseteq j.conf
BY DEF Visited, Noted, Settled, Adopt, HoldBack, Unmoved, JobType, Map

\* Each change of the baseline in memory is saved, under an id that no rebase
\* in progress builds on.
LEMMA OneBaselineStep ==
    ASSUME PubTypes, OneBaseline, PubNext
    PROVE  OneBaseline'
<1>1. /\ job \in JobType /\ snap \in SnapshotType /\ nextId \in Nat /\ saved \in SavedType
      /\ job.id \in Nat /\ snap.id \in Nat
  BY DEF PubTypes, TypeOK, JobType, SnapshotType
<1>2. ~NoJob.active
  BY DEF NoJob
<1>3. ASSUME UNCHANGED <<snap, conflicts, saved, nextId, exec>>,
             \/ UNCHANGED <<job.active, job.id, job.base, job.changed>>
             \/ /\ job'.active = job.active /\ job'.id = job.id
                /\ ~job'.changed => job'.base = job.base /\ ~job.changed
             \/ ~job'.active
      PROVE  OneBaseline'
  BY <1>3 DEF OneBaseline
<1>4. ASSUME UNCHANGED stagingVars PROVE OneBaseline'
  BY <1>4 DEF OneBaseline, stagingVars, memVars
<1>5. CASE PubManifest \/ (\E m \in offers : Approve(m)) \/ Publish \/ PubUser
           \/ PubDesktopCrash
  BY <1>4, <1>5 DEF PubManifest, Manifest, Approve, Publish, PubUser, PubDesktopCrash
<1>6. CASE PubReceipt
  <2>1. ASSUME NEW m \in receipts, MarkPublished(m) PROVE OneBaseline'
    <3>1. /\ snap'.id = nextId /\ nextId' = nextId + 1
          /\ saved'.present /\ saved'.id = nextId /\ saved'.base = snap'.base
          /\ saved'.conf = conflicts
          /\ UNCHANGED <<conflicts, job, exec>>
      BY <2>1 DEF MarkPublished, Save
    <3>2. nextId < nextId' /\ (job.active => job.id < nextId' /\ job.id # nextId)
      BY <1>1, <3>1 DEF OneBaseline
    <3> QED BY <3>1, <3>2 DEF OneBaseline
  <2> QED BY <1>4, <1>6, <2>1 DEF PubReceipt, Decline, MarkFails
<1>7. CASE PubTool
  <2>1. PICK p \in Paths, e \in Entry : ToolWrite(p, e)
    BY <1>7 DEF PubTool
  <2>2. /\ UNCHANGED <<snap, conflicts, saved, nextId, exec>>
        /\ job' = IF job.active THEN [job EXCEPT !.raced = @ \cup {p}] ELSE job
    BY <2>1 DEF ToolWrite, memVars
  <2>3. UNCHANGED <<job.active, job.id, job.base, job.changed>>
    BY <1>1, <2>2 DEF JobType
  <2> QED BY <1>3, <2>2, <2>3
<1>8. CASE PubRebase
  <2>1. ASSUME NEW keep \in SUBSET Paths, NEW take \in SUBSET Paths,
               RebaseStart(keep, take)
        PROVE  OneBaseline'
    <3>1. /\ UNCHANGED <<snap, conflicts, saved, nextId, exec>>
          /\ job'.id = snap.id /\ job'.base = snap.base /\ exec # "down"
      BY <2>1 DEF RebaseStart, Scan, memVars
    <3> QED BY <3>1 DEF OneBaseline
  <2>2. ASSUME NEW p \in Paths, RebaseInstall(p) \/ RebaseInstallFails(p) \/ RebaseNote(p)
        PROVE  OneBaseline'
    <3>1. UNCHANGED <<snap, conflicts, saved, nextId, exec>>
      BY <2>2 DEF RebaseInstall, RebaseInstallFails, RebaseNote, Visit, memVars
    <3>2. CASE RebaseInstall(p)
      <4>1. job' = Visited(Settled(Adopt(job, p), p), p)
        BY <3>2 DEF RebaseInstall
      <4> QED BY <1>1, <1>3, <3>1, <4>1, VisitedSettledFacts
    <3>3. CASE RebaseInstallFails(p)
      <4>1. job' = Visited(HoldBack(job, p), p)
        BY <3>3 DEF RebaseInstallFails
      <4> QED BY <1>1, <1>3, <3>1, <4>1, VisitedHoldBackFacts
    <3>4. CASE RebaseNote(p)
      <4>1. job' = Visited(Noted(job, p), p)
        BY <3>4 DEF RebaseNote
      <4> QED BY <1>1, <1>3, <3>1, <4>1, VisitedNotedFacts
    <3> QED BY <2>2, <3>2, <3>3, <3>4
  <2>3. ASSUME NEW p \in Paths, RebaseAborts(p) PROVE OneBaseline'
    BY <1>2, <1>3, <2>3 DEF RebaseAborts, Visit, memVars
  <2>4. CASE RebaseCommit
    <3>1. /\ job.active /\ job' = NoJob
          /\ snap'.id = CommitId(job) /\ snap'.base = job.base /\ conflicts' = job.conf
          /\ nextId' = IF job.changed THEN nextId + 1 ELSE nextId
          /\ exec' = IF job.boot THEN "serving" ELSE exec
          /\ saved' = IF NeedsSave(job) THEN Save(snap', job.conf) ELSE saved
      BY <2>4 DEF RebaseCommit
    <3>2. snap'.id < nextId' /\ exec' \in {"serving", "resuming", "down"}
      BY <1>1, <3>1 DEF OneBaseline, CommitId
    <3>3. saved'.present /\ saved'.id = snap'.id /\ saved'.base = snap'.base
          /\ saved'.conf = conflicts'
      <4>1. CASE NeedsSave(job)
        BY <3>1, <4>1 DEF Save
      <4>2. CASE ~NeedsSave(job)
        <5>1. saved' = saved /\ CommitId(job) = snap.id /\ job.conf = conflicts
          BY <3>1, <4>2 DEF NeedsSave
        <5>2. snap.id < nextId
          BY DEF OneBaseline
        <5>3. ~job.changed /\ job.id = snap.id
          BY <1>1, <5>1, <5>2 DEF CommitId
        <5> QED BY <3>1, <5>1, <5>3 DEF OneBaseline
      <4> QED BY <4>1, <4>2
    <3> QED BY <1>2, <3>1, <3>2, <3>3 DEF OneBaseline
  <2>5. CASE RebaseVerifyFails
    BY <1>2, <2>5 DEF RebaseVerifyFails, OneBaseline, memVars
  <2> QED BY <1>8, <2>1, <2>2, <2>3, <2>4, <2>5 DEF PubRebase, RebaseStep
<1>9. CASE PubProcess
  <2>1. CASE Crash
    BY <1>2, <2>1 DEF Crash, OneBaseline, memVars
  <2>2. CASE StartResume
    <3>1. /\ snap'.id = saved.id /\ snap'.base = saved.base /\ conflicts' = saved.conf
          /\ job'.id = snap'.id /\ job'.base = snap'.base /\ exec' = "resuming"
          /\ UNCHANGED <<saved, nextId>>
      BY <2>2 DEF StartResume, Scan
    <3> QED BY <3>1 DEF OneBaseline
  <2> QED BY <1>9, <2>1, <2>2 DEF PubProcess
<1> QED BY <1>5, <1>6, <1>7, <1>8, <1>9 DEF PubNext

\* A path stays known in a step that leaves its two copies, the baseline and
\* the batch alone and hands out no manifest with it, when the rebase in
\* progress is over, not yet at p, or left p where it is.
LEMMA KnownKept ==
    ASSUME NEW p \in Paths, Known(p),
           Host(p)' = Host(p), work'[p] = work[p], snap'.base[p] = snap.base[p],
           batch' = batch,
           \A m \in offers' : p \in DOMAIN m.ops => m \in offers,
           receipts' \subseteq receipts,
           \/ ~job'.active
           \/ /\ UNCHANGED <<job.active, job.base[p], job.host[p], job.staged[p]>>
              /\ p \in job'.todo => p \in job.todo
    PROVE  Known(p)'
<1>1. Writing(p)' <=> Writing(p)
  BY DEF Writing, Running
<1>2. \A m \in InHand' : p \in DOMAIN m.ops => m \in InHand
  BY DEF InHand, Running
<1>3. job'.active => JobKnows(p)'
  BY <1>1 DEF Known, JobKnows
<1> QED BY <1>1, <1>2, <1>3 DEF Known

\* What one step of the broker may do to a path that is known.
LEMMA BatchMoves ==
    ASSUME PubTypes, BrokerStep, NEW p \in Paths, Known(p)
    PROVE  /\ batch'.m = batch.m /\ Running /\ edited' = edited
           /\ Host(p)' \in {Host(p), work[p]} \/ (Writing(p) /\ Host(p)' = batch.rec[p])
           /\ Writing(p)' =>
                \/ Writing(p) /\ batch'.rec[p] = batch.rec[p]
                \/ /\ batch'.rec[p] = Host(p) /\ Host(p)' = Host(p)
                   /\ Host(p) # work[p]
<1>1. /\ batch \in BatchType /\ WorkspaceTypeOK /\ BrokerTypeOK /\ BatchProgress
      /\ batch.touched \cup batch.todo \subseteq Ops /\ batch.undo \subseteq batch.touched
  BY DEF PubTypes, BrokerTypeOK, BatchProgress
<1>2. UNCHANGED wsVars => Host(p)' = Host(p)
  BY PastSame
<1>3. Running /\ p \in Ops => /\ batch.m.ops[p].staged = work[p]
                              /\ batch.m.ops[p].base # work[p]
  <2>1. Running => batch.m \in InHand
    BY DEF InHand
  <2> QED BY <2>1 DEF Known, Ops
<1>4. ASSUME NEW q \in Paths, OpCheck(q)
      PROVE  /\ batch'.m = batch.m /\ Running /\ edited' = edited
             /\ Host(p)' = Host(p)
             /\ Writing(p)' =>
                  \/ Writing(p) /\ batch'.rec[p] = batch.rec[p]
                  \/ batch'.rec[p] = Host(p) /\ Host(p) # work[p]
  <2>1. /\ batch.phase = "check" /\ q \in batch.todo /\ Host(q) = batch.m.ops[q].base
        /\ batch'.m = batch.m /\ batch'.touched = batch.touched \cup {q}
        /\ batch'.rec = [batch.rec EXCEPT ![q] = Host(q)]
        /\ edited' = edited /\ UNCHANGED wsVars
    BY <1>1, <1>4 DEF OpCheck, BatchType, Lowest
  <2>2. Running
    BY <2>1 DEF Running
  <2>3. batch.rec \in [Paths -> Entry]
    BY <1>1 DEF BatchType
  <2>4. CASE p = q
    <3>1. p \in Ops
      BY <1>1, <2>1, <2>4
    <3>2. Host(p) # work[p]
      BY <1>3, <2>1, <2>2, <2>4, <3>1
    <3>3. batch'.rec[p] = Host(p)
      BY <2>1, <2>3, <2>4
    <3> QED BY <1>2, <2>1, <2>2, <3>2, <3>3
  <2>5. CASE p # q
    <3>1. batch'.rec[p] = batch.rec[p]
      BY <2>1, <2>3, <2>5
    <3>2. Writing(p)' => Writing(p)
      BY <2>1, <2>2, <2>5 DEF Writing
    <3> QED BY <1>2, <2>1, <2>2, <3>1, <3>2
  <2> QED BY <2>4, <2>5
<1>5. ASSUME NEW q \in Paths, OpWrite(q) \/ OpWriteFails(q)
      PROVE  /\ batch'.m = batch.m /\ Running /\ edited' = edited
             /\ Host(p)' \in {Host(p), work[p]}
             /\ batch'.touched = batch.touched /\ batch'.rec = batch.rec
  <2>1. /\ batch.phase = "write" /\ q \in batch.todo
        /\ UNCHANGED wsVars \/ HostPut([r \in {q} |-> batch.m.ops[q].staged])
        /\ batch'.m = batch.m /\ edited' = edited
        /\ batch'.touched = batch.touched /\ batch'.rec = batch.rec
    BY <1>1, <1>5 DEF OpWrite, OpWriteFails, Fail, BatchType, Lowest
  <2>2. Running
    BY <2>1 DEF Running
  <2>3. q \in Ops /\ batch.m.ops[q].staged \in Entry
    BY <1>1, <1>5, OpInHand DEF OpWrite, OpWriteFails
  <2>4. CASE HostPut([r \in {q} |-> batch.m.ops[q].staged])
    <3>1. /\ Host(q)' = batch.m.ops[q].staged
          /\ \A r \in Paths \ {q} : Host(r)' = Host(r)
      BY <1>1, <2>3, <2>4, PutOne
    <3> QED BY <1>3, <2>1, <2>2, <2>3, <3>1
  <2> QED BY <1>2, <2>1, <2>2, <2>4
<1>6. ASSUME NEW q \in Paths, Restore(q)
      PROVE  /\ batch'.m = batch.m /\ Running /\ edited' = edited
             /\ Host(p)' = Host(p) \/ (Writing(p) /\ Host(p)' = batch.rec[p])
             /\ batch'.touched = batch.touched /\ batch'.rec = batch.rec
  <2>1. /\ batch.phase = "rollback" /\ q \in batch.undo
        /\ UNCHANGED wsVars \/ HostPut([r \in {q} |-> batch.rec[q]])
        /\ batch'.m = batch.m /\ edited' = edited
        /\ batch'.touched = batch.touched /\ batch'.rec = batch.rec
    BY <1>1, <1>6 DEF Restore, BatchType, Highest
  <2>2. Running
    BY <2>1 DEF Running
  <2>3. CASE HostPut([r \in {q} |-> batch.rec[q]])
    <3>1. /\ Host(q)' = batch.rec[q]
          /\ \A r \in Paths \ {q} : Host(r)' = Host(r)
      BY <1>1, <2>3, OpInHand, PutOne
    <3>2. q \in batch.touched
      BY <1>1, <2>1
    <3> QED BY <2>1, <2>2, <3>1, <3>2 DEF Writing
  <2> QED BY <1>2, <2>1, <2>2, <2>3
<1>7. ASSUME \/ \E q \in Paths : OpRefused(q) \/ RestoreFails(q)
             \/ BatchDone \/ BatchRecordFails \/ RollbackDone
      PROVE  /\ batch'.m = batch.m /\ Running /\ edited' = edited
             /\ Host(p)' = Host(p)
             /\ batch'.touched = batch.touched /\ batch'.rec = batch.rec
  <2>1. /\ batch.phase \in {"check", "rollback"} /\ UNCHANGED <<wsVars, edited>>
        /\ batch'.m = batch.m /\ batch'.touched = batch.touched /\ batch'.rec = batch.rec
    BY <1>1, <1>7 DEF OpRefused, RestoreFails, BatchDone, BatchRecordFails, RollbackDone,
                      Fail, BatchType
  <2> QED BY <1>2, <2>1 DEF Running
<1>8. ASSUME Running, batch'.touched = batch.touched, Writing(p)' PROVE Writing(p)
  BY <1>8 DEF Writing
<1> QED BY <1>4, <1>5, <1>6, <1>7, <1>8 DEF BrokerStep

\* What is known of a path survives a step of the broker, unless the user wrote
\* it after it was checked; at the end of a batch its receipt is true.
LEMMA BatchKeepsKnown ==
    ASSUME PubTypes, PubTypes', OneAtATime, Publish, NEW p \in Paths, Known(p),
           p \notin edited
    PROVE  Known(p)' /\ OneAtATime'
<1>1. /\ BrokerStep /\ UNCHANGED <<stagingVars, offers, pubVars>>
      /\ receipts' = IF batch'.phase = "done" /\ Running
                     THEN receipts \cup {batch.m} ELSE receipts
  BY DEF Publish
<1>2. /\ work' = work /\ snap' = snap /\ job' = job
  BY <1>1 DEF stagingVars, memVars
<1>3. /\ batch'.m = batch.m /\ Running /\ edited' = edited
      /\ Host(p)' \in {Host(p), work[p]} \/ (Writing(p) /\ Host(p)' = batch.rec[p])
      /\ Writing(p)' =>
           \/ Writing(p) /\ batch'.rec[p] = batch.rec[p]
           \/ /\ batch'.rec[p] = Host(p) /\ Host(p)' = Host(p)
              /\ Host(p) # work[p]
  BY <1>1, BatchMoves
<1>4. receipts = {}
  BY <1>3 DEF OneAtATime
<1>5. OneAtATime'
  BY <1>1, <1>4 DEF OneAtATime, Running
<1>6. \A m \in InHand' : m \in InHand
  BY <1>1, <1>3 DEF InHand
<1>7. ASSUME NEW m \in receipts', p \in DOMAIN m.ops PROVE Host(p)' = work'[p]
  <2>1. batch'.phase = "done" /\ m = batch'.m
    BY <1>1, <1>3, <1>4, <1>7
  <2>2. BatchProgress'
    BY DEF PubTypes
  <2>3. p \in Ops' \ edited'
    BY <1>3, <1>7, <2>1 DEF Ops
  <2>4. Host(p)' = batch'.m.ops[p].staged
    BY <2>1, <2>2, <2>3 DEF BatchProgress
  <2>5. m \in InHand
    BY <1>6, <1>7 DEF InHand
  <2> QED BY <1>2, <1>7, <2>1, <2>4, <2>5 DEF Known
<1>8. ASSUME job.active PROVE JobKnows(p)'
  <2>1. JobKnows(p)
    BY <1>8 DEF Known
  <2> QED BY <1>2, <1>3, <2>1 DEF JobKnows
<1>9. /\ Host(p)' \in {snap.base[p], work[p]}
      /\ Writing(p)' => batch'.rec[p] = snap.base[p]
  BY <1>3 DEF Known
<1> QED BY <1>2, <1>5, <1>6, <1>7, <1>8, <1>9 DEF Known

\* A tool's write blames its path unless staging, baseline and host go together.
LEMMA ToolKeepsKnown ==
    ASSUME PubTypes, NEW q \in Paths, NEW e \in Entry, ToolWrite(q, e),
           clash' = IF q \in Held \/ Behind(q) THEN clash \cup {q} ELSE clash,
           UNCHANGED <<brokerVars, userWrote>>,
           NEW p \in Paths, p \notin Blamed', Known(p)
    PROVE  Known(p)'
<1>1. /\ work \in [Paths -> Entry] /\ job \in JobType
      /\ batch.touched \subseteq Ops
  BY DEF PubTypes, TypeOK, Map, BatchProgress
<1>2. /\ work' = [work EXCEPT ![q] = e]
      /\ job' = IF job.active THEN [job EXCEPT !.raced = @ \cup {q}] ELSE job
      /\ UNCHANGED <<wsVars, snap, offers, receipts, batch>>
  BY DEF ToolWrite, memVars, deskVars, brokerVars
<1>3. UNCHANGED <<job.active, job.base, job.host, job.staged, job.todo>>
  BY <1>1, <1>2 DEF JobType
<1>4. Host(p)' = Host(p)
  BY <1>2, PastSame
<1>5. CASE p # q
  <2>1. work'[p] = work[p]
    BY <1>1, <1>2, <1>5
  <2> QED BY <1>2, <1>3, <1>4, <2>1, KnownKept
<1>6. CASE p = q
  <2>1. p \notin Held /\ ~Behind(p)
    BY <1>6 DEF Blamed
  <2>2. ~Writing(p) /\ \A m \in InHand : p \notin DOMAIN m.ops
    BY <1>1, <2>1 DEF Writing, InHand, Held, Ops
  <2>3. Host(p) = snap.base[p] /\ (job.active => Host(p) = job.base[p])
    BY <2>1 DEF Behind
  <2>4. ~Writing(p)' /\ InHand' = InHand
    BY <1>2, <2>2 DEF Writing, InHand, Running
  <2>5. ASSUME job.active PROVE JobKnows(p)'
    <3>1. JobKnows(p)
      BY <2>5 DEF Known
    <3>2. p \in job.todo => job.host[p] = job.base[p]
      BY <2>3, <2>5, <3>1 DEF JobKnows
    <3> QED BY <1>3, <1>4, <2>3, <2>4, <2>5, <3>2 DEF JobKnows
  <2>6. receipts' \subseteq InHand
    BY <1>2 DEF InHand
  <2> QED BY <1>2, <1>3, <1>4, <2>2, <2>3, <2>4, <2>5, <2>6 DEF Known
<1> QED BY <1>5, <1>6

\* A rebase begins while no batch is being written, and from the baseline.
LEMMA ScanKnows ==
    ASSUME PubTypes, NEW s \in SnapshotType, NEW c \in SUBSET Paths,
           NEW keep \in SUBSET Paths, NEW take \in SUBSET Paths, NEW boot \in BOOLEAN,
           job' = Scan(keep, take, boot, s, c), ~Running, s.base = snap.base,
           UNCHANGED <<wsVars, work, brokerVars, deskVars>>, snap'.base = snap.base,
           NEW p \in Paths, Known(p)
    PROVE  Known(p)'
<1>1. /\ job'.host[p] \in {snap.base[p], Host(p)}
      /\ job'.base = snap.base /\ job'.staged[p] = work[p]
  <2>1. TypeOK
    BY DEF PubTypes
  <2>2. \A q \in Paths : Scan(keep, take, boot, s, c).host[q] \in {s.base[q], Host(q)}
    BY <2>1, ScanFacts
  <2>3. /\ Scan(keep, take, boot, s, c).base = s.base
        /\ Scan(keep, take, boot, s, c).staged = work
    BY DEF Scan
  <2> QED BY <2>2, <2>3
<1>2. Host(p)' = Host(p)
  BY PastSame
<1>3. ~Writing(p)' /\ ~Writing(p) /\ InHand' = InHand /\ receipts' = receipts
  BY DEF Writing, InHand, Running, brokerVars, deskVars
<1>4. JobKnows(p)'
  BY <1>1, <1>2, <1>3 DEF Known, JobKnows
<1> QED BY <1>2, <1>3, <1>4 DEF Known

\* The loop of a rebase finds a known path where the host has not moved, or
\* equal on both sides: nothing is copied there and no conflict noted.
LEMMA QuietBranch ==
    ASSUME BlameKept, NEW p \in Paths, p \notin Blamed, Known(p), Visit(p)
    PROVE  /\ Branch(job, p) \in {"unmoved", "same"}
           /\ Branch(job, p) = "same" => job.host[p] = work[p] /\ Host(p) = work[p] /\ ~Writing(p)
<1>1. job.active /\ p \in job.todo
  BY DEF Visit, IsNext
<1>2. p \notin job.take /\ p \notin job.keep
  BY DEF BlameKept
<1>3. \/ job.host[p] = job.base[p]
      \/ /\ job.host[p] = job.staged[p] /\ job.host[p] = work[p]
         /\ Host(p) = work[p] /\ ~Writing(p)
  BY <1>1 DEF Known, JobKnows
<1> QED BY <1>2, <1>3 DEF Branch

\* No step of a rebase makes a known path unknown or a conflict.
LEMMA RebaseKeepsKnown ==
    ASSUME PubTypes, OneBaseline, BlameKept, \A p \in Paths \ Blamed : Known(p), PubRebase
    PROVE  BlameKept' /\ \A p \in Paths \ Blamed : Known(p)'
<1>1. /\ TypeOK /\ job \in JobType /\ snap \in SnapshotType /\ conflicts \in SUBSET Paths
      /\ job.todo \subseteq Paths /\ work \in [Paths -> Entry]
  BY DEF PubTypes, TypeOK, JobType, Map
<1>2. /\ RebaseStep /\ UNCHANGED <<brokerVars, pubVars>>
      /\ batch' = batch /\ edited' = edited /\ Blamed' = Blamed /\ userWrote' = userWrote
      /\ job.active \/ (~Running /\ receipts = {})
  BY DEF PubRebase, brokerVars, pubVars, Blamed, Publishing
<1>3. ~NoJob.active /\ NoJob.conf = {} /\ NoJob.keep = {} /\ NoJob.take = {}
  BY DEF NoJob
<1>4. /\ edited \subseteq userWrote /\ conflicts \subseteq Blamed
      /\ job.conf \subseteq Blamed /\ job.keep \subseteq Blamed /\ job.take \subseteq Blamed
  BY DEF BlameKept
<1>5. ASSUME UNCHANGED <<wsVars, work, snap, conflicts, deskVars>>, job' = NoJob
      PROVE  BlameKept' /\ \A p \in Paths \ Blamed : Known(p)'
  <2>1. BlameKept'
    BY <1>2, <1>3, <1>4, <1>5 DEF BlameKept
  <2>2. ASSUME NEW p \in Paths \ Blamed PROVE Known(p)'
    <3>1. Host(p)' = Host(p) /\ offers' = offers /\ receipts' = receipts
      BY <1>5, PastSame DEF deskVars
    <3> QED BY <1>2, <1>3, <1>5, <3>1, KnownKept
  <2> QED BY <2>1, <2>2
<1>6. ASSUME NEW keep \in SUBSET Paths, NEW take \in SUBSET Paths, RebaseStart(keep, take)
      PROVE  BlameKept' /\ \A p \in Paths \ Blamed : Known(p)'
  <2>1. /\ ~job.active /\ keep \cup take \subseteq conflicts
        /\ job' = Scan(keep, take, FALSE, snap, conflicts)
        /\ UNCHANGED <<wsVars, work, snap, conflicts, deskVars>>
    BY <1>6 DEF RebaseStart, memVars
  <2>2. job'.conf = conflicts /\ job'.keep = keep /\ job'.take = take
    BY <2>1 DEF Scan
  <2>3. BlameKept'
    BY <1>2, <1>4, <2>1, <2>2 DEF BlameKept
  <2>4. ~Running /\ snap'.base = snap.base
    BY <1>2, <2>1
  <2>5. ASSUME NEW p \in Paths \ Blamed PROVE Known(p)'
    BY <1>1, <1>2, <2>1, <2>4, ScanKnows
  <2> QED BY <2>3, <2>5
<1>7. ASSUME NEW q \in Paths, Visit(q), AfterVisit(job, job', q),
             job'.keep = job.keep, job'.take = job.take, job'.conf \subseteq Blamed,
             \A p \in Paths \ {q} : work'[p] = work[p],
             q \in Paths \ Blamed =>
                 /\ work'[q] = work[q]
                 /\ job'.base[q] \in {job.base[q], work[q]}
                 /\ job'.base[q] # job.base[q] => Host(q) = work[q] /\ ~Writing(q)
      PROVE  BlameKept' /\ \A p \in Paths \ Blamed : Known(p)'
  <2>1. /\ job.active /\ job'.active /\ UNCHANGED <<wsVars, snap, conflicts, offers, receipts>>
        /\ q \notin job'.todo /\ job'.todo \subseteq job.todo
        /\ job'.host = job.host /\ job'.staged = job.staged
        /\ \A p \in Paths \ {q} : job'.base[p] = job.base[p]
    BY <1>7 DEF Visit, AfterVisit, memVars, deskVars
  <2>2. BlameKept'
    BY <1>2, <1>4, <1>7, <2>1 DEF BlameKept
  <2>3. ASSUME NEW p \in Paths \ Blamed PROVE Known(p)'
    <3>1. Host(p)' = Host(p)
      BY <2>1, PastSame
    <3>2. CASE p # q
      BY <1>2, <1>7, <2>1, <3>1, <3>2, KnownKept
    <3>3. CASE p = q
      <4>1. Known(p) /\ work'[p] = work[p]
        BY <1>7, <3>3
      <4>2. (Writing(p)' <=> Writing(p)) /\ InHand' = InHand
        BY <1>2, <2>1 DEF Writing, Running, InHand
      <4>3. JobKnows(p)'
        <5>1. JobKnows(p)
          BY <2>1, <4>1 DEF Known
        <5>2. /\ Host(p) \in {job'.base[p], work[p]}
              /\ Writing(p) => batch.rec[p] = job'.base[p]
          BY <1>7, <3>3, <5>1 DEF JobKnows
        <5> QED BY <1>2, <2>1, <3>1, <3>3, <4>1, <4>2, <5>2 DEF JobKnows
      <4> QED BY <1>2, <2>1, <3>1, <4>1, <4>2, <4>3 DEF Known
    <3> QED BY <3>2, <3>3
  <2> QED BY <2>2, <2>3
<1>8. ASSUME NEW q \in Paths, RebaseInstall(q)
      PROVE  BlameKept' /\ \A p \in Paths \ Blamed : Known(p)'
  <2>1. /\ Visit(q) /\ job' = Visited(Settled(Adopt(job, q), q), q)
        /\ Branch(job, q) \in {"take", "absorb"}
        /\ work' = [work EXCEPT ![q] = job.host[q]]
    BY <1>8 DEF RebaseInstall
  <2>2. q \in Blamed
    BY <2>1, QuietBranch
  <2>3. AfterVisit(job, job', q)
    BY <1>1, <2>1, SettledVisit
  <2>4. job'.keep = job.keep /\ job'.take = job.take /\ job'.conf \subseteq job.conf
    BY <1>1, <2>1, QuietVisit
  <2>5. \A p \in Paths \ {q} : work'[p] = work[p]
    BY <1>1, <2>1
  <2> QED BY <1>4, <1>7, <2>1, <2>2, <2>3, <2>4, <2>5
<1>9. ASSUME NEW q \in Paths, RebaseInstallFails(q)
      PROVE  BlameKept' /\ \A p \in Paths \ Blamed : Known(p)'
  <2>1. /\ Visit(q) /\ job' = Visited(HoldBack(job, q), q)
        /\ Branch(job, q) = "absorb" /\ work' = work
    BY <1>9 DEF RebaseInstallFails
  <2>2. q \in Blamed
    BY <2>1, QuietBranch
  <2>3. AfterVisit(job, job', q)
    BY <1>1, <2>1, HeldVisit
  <2>4. job'.keep = job.keep /\ job'.take = job.take /\ job'.conf \subseteq job.conf \cup {q}
    BY <1>1, <2>1, QuietVisit
  <2> QED BY <1>4, <1>7, <2>1, <2>2, <2>3, <2>4
<1>10. ASSUME NEW q \in Paths, RebaseNote(q)
       PROVE  BlameKept' /\ \A p \in Paths \ Blamed : Known(p)'
  <2>1. Visit(q) /\ job' = Visited(Noted(job, q), q) /\ work' = work
    BY <1>10 DEF RebaseNote
  <2>2. AfterVisit(job, job', q)
    BY <1>1, <2>1, NotedVisit
  <2>3. /\ job'.keep = job.keep /\ job'.take = job.take
        /\ job'.conf \subseteq job.conf \cup {q}
        /\ Branch(job, q) \in {"keep", "same", "unmoved"} => job'.conf \subseteq job.conf
    BY <1>1, <2>1, QuietVisit
  <2>4. CASE q \in Blamed
    BY <1>4, <1>7, <2>1, <2>2, <2>3, <2>4
  <2>5. CASE q \notin Blamed
    <3>1. /\ Branch(job, q) \in {"unmoved", "same"}
          /\ Branch(job, q) = "same" =>
                 job.host[q] = work[q] /\ Host(q) = work[q] /\ ~Writing(q)
      BY <2>1, <2>5, QuietBranch
    <3>2. Branch(job, q) = "unmoved" => job.host[q] = job.base[q]
      BY DEF Branch
    <3>3. job'.base[q] \in {job.base[q], job.host[q]}
      BY <1>1, <2>1, VisitedNotedFacts
    <3>4. /\ job'.base[q] \in {job.base[q], work[q]}
          /\ job'.base[q] # job.base[q] => Host(q) = work[q] /\ ~Writing(q)
      BY <3>1, <3>2, <3>3
    <3> QED BY <1>4, <1>7, <2>1, <2>2, <2>3, <3>1, <3>4
  <2> QED BY <2>4, <2>5
<1>11. ASSUME NEW q \in Paths, RebaseAborts(q)
       PROVE  BlameKept' /\ \A p \in Paths \ Blamed : Known(p)'
  BY <1>5, <1>11 DEF RebaseAborts, Visit, memVars
<1>12. CASE RebaseVerifyFails
  BY <1>5, <1>12 DEF RebaseVerifyFails, memVars
<1>13. CASE RebaseCommit
  <2>1. /\ job.active /\ job' = NoJob /\ snap'.base = job.base /\ conflicts' = job.conf
        /\ UNCHANGED <<wsVars, work, offers, receipts>>
    BY <1>13 DEF RebaseCommit, deskVars
  <2>2. BlameKept'
    BY <1>2, <1>3, <1>4, <2>1 DEF BlameKept
  <2>3. ASSUME NEW p \in Paths \ Blamed PROVE Known(p)'
    <3>1. Known(p) /\ JobKnows(p) /\ Host(p)' = Host(p)
      BY <2>1, PastSame DEF Known
    <3>2. (Writing(p)' <=> Writing(p)) /\ InHand' = InHand
      BY <1>2, <2>1 DEF Writing, Running, InHand
    <3> QED BY <1>2, <1>3, <2>1, <3>1, <3>2 DEF Known, JobKnows
  <2> QED BY <2>2, <2>3
<1> QED BY <1>2, <1>6, <1>8, <1>9, <1>10, <1>11, <1>12, <1>13 DEF RebaseStep

\* Every step keeps all of this, provided the executor does not restart while
\* a batch is being written.
LEMMA PubStep ==
    ASSUME ~RestartsInBatch
    PROVE  PubInv /\ [PubNext]_allVars => PubInv'
<1> SUFFICES ASSUME PubInv, [PubNext]_allVars PROVE PubInv'
  OBVIOUS
<1>1. /\ PubTypes /\ OneBaseline /\ BlameKept /\ OneAtATime
      /\ \A p \in Paths \ Blamed : Known(p)
  BY DEF PubInv, BlameInv
<1>2. CASE UNCHANGED allVars
  <2>1. /\ UNCHANGED <<wsVars, stagingVars, deskVars, brokerVars, pubVars>>
    BY <1>2 DEF allVars
  <2>2. PubTypes' /\ OneBaseline' /\ BlameKept' /\ OneAtATime' /\ Blamed' = Blamed
    BY <1>1, <2>1 DEF PubTypes, TypeOK, WorkspaceTypeOK, BrokerTypeOK, BatchProgress, Ops,
                      Host, OneBaseline, BlameKept, OneAtATime, Blamed, Running, wsVars,
                      stagingVars, memVars, deskVars, brokerVars, pubVars
  <2>3. ASSUME NEW p \in Paths \ Blamed PROVE Known(p)'
    <3>1. Host(p)' = Host(p)
      BY <2>1, PastSame
    <3> QED BY <1>1, <2>1, <3>1, KnownKept DEF stagingVars, memVars, deskVars, brokerVars
  <2> QED BY <2>2, <2>3 DEF PubInv, BlameInv
<1> SUFFICES ASSUME PubNext PROVE PubInv'
  BY <1>2
<1>3. PubTypes' /\ OneBaseline'
  BY <1>1, PubTypesStep, OneBaselineStep
<1> SUFFICES BlameKept' /\ OneAtATime' /\ \A p \in Paths \ Blamed' : Known(p)'
  BY <1>3 DEF PubInv, BlameInv
<1>4. UNCHANGED <<edited, userWrote, clash, conflicts, job>> => BlameKept' /\ Blamed' = Blamed
  BY <1>1 DEF BlameKept, Blamed
<1>5. CASE PubManifest
  <2>1. PICK sel \in SUBSET Paths : Manifest(sel)
    BY <1>5 DEF PubManifest
  <2>2. /\ ~Running /\ UNCHANGED <<stagingVars, brokerVars, pubVars, wsVars, receipts>>
        /\ sel \subseteq Pending /\ offers' = offers \cup {ManifestOf(FirstBatch(sel))}
    BY <1>5, <2>1 DEF PubManifest, Manifest, Publishing
  <2>3. BlameKept' /\ OneAtATime' /\ Blamed' = Blamed
    BY <1>1, <1>4, <2>2 DEF OneAtATime, Running, stagingVars, memVars, brokerVars, pubVars
  <2>4. ASSUME NEW p \in Paths \ Blamed PROVE Known(p)'
    <3> DEFINE mf == ManifestOf(FirstBatch(sel))
    <3>1. ASSUME p \in DOMAIN mf.ops
          PROVE  mf.ops[p].staged = work[p] /\ mf.ops[p].base # mf.ops[p].staged
      <4>1. p \in FirstBatch(sel) /\ mf.ops[p] = [base |-> snap.base[p], staged |-> work[p]]
        BY <3>1 DEF ManifestOf
      <4>2. work[p] # snap.base[p]
        BY <2>2, <4>1 DEF FirstBatch, Pending
      <4> QED BY <4>1, <4>2
    <3>2. /\ work' = work /\ snap' = snap /\ job' = job /\ batch' = batch /\ Host(p)' = Host(p)
      BY <2>2, PastSame DEF stagingVars, memVars, brokerVars
    <3> HIDE DEF mf
    <3>3. \A m \in InHand' : m \in InHand \/ m = mf
      BY <2>2, <3>2 DEF InHand, Running, mf
    <3>4. Writing(p)' <=> Writing(p)
      BY <3>2 DEF Writing, Running
    <3>5. job.active => JobKnows(p)'
      BY <1>1, <3>2, <3>4 DEF Known, JobKnows
    <3> QED BY <1>1, <2>2, <3>1, <3>2, <3>3, <3>4, <3>5 DEF Known
  <2> QED BY <2>3, <2>4
<1>6. ASSUME NEW m \in offers, Approve(m)
      PROVE  BlameKept' /\ OneAtATime' /\ \A p \in Paths \ Blamed' : Known(p)'
  <2>1. /\ ~Running /\ receipts = {} /\ BatchStart(m) /\ offers' = offers \ {m}
        /\ UNCHANGED <<stagingVars, receipts, pubVars>>
    BY <1>6 DEF Approve, Publishing
  <2>2. /\ m \in ManifestType /\ BrokerTypeOK
    BY <1>1 DEF PubTypes, TypeOK
  <2>3. batch'.m = m /\ batch'.touched = {} /\ edited' = {} /\ UNCHANGED wsVars
    BY <2>1, <2>2, StartBatch DEF BatchStart
  <2>4. BlameKept' /\ OneAtATime' /\ Blamed' = Blamed
    BY <1>1, <2>1, <2>3 DEF BlameKept, OneAtATime, Blamed, stagingVars, memVars, pubVars
  <2>5. ASSUME NEW p \in Paths \ Blamed PROVE Known(p)'
    <3>1. /\ work' = work /\ snap' = snap /\ job' = job /\ Host(p)' = Host(p)
          /\ receipts' = {}
      BY <2>1, <2>3, PastSame DEF stagingVars, memVars
    <3>2. \A n \in InHand' : n \in InHand
      BY <2>1, <2>3 DEF InHand
    <3>3. ~Writing(p)'
      BY <2>3 DEF Writing
    <3>4. job.active => JobKnows(p)'
      BY <1>1, <3>1, <3>3 DEF Known, JobKnows
    <3> QED BY <1>1, <3>1, <3>2, <3>3, <3>4 DEF Known
  <2> QED BY <2>4, <2>5
<1>7. CASE Publish
  <2>1. UNCHANGED <<stagingVars, pubVars>> /\ BrokerStep
    BY <1>7 DEF Publish
  <2>2. \A p \in Paths \ Blamed : p \notin edited
    BY <1>1 DEF BlameKept, Blamed
  <2>3. \A p \in Paths \ Blamed : Known(p)' /\ OneAtATime'
    BY <1>1, <1>3, <1>7, <2>2, BatchKeepsKnown
  <2>4. edited' = edited /\ (batch'.phase = "done" /\ Running' => FALSE)
    BY <2>1 DEF BrokerStep, OpCheck, OpRefused, OpWrite, OpWriteFails, Restore,
                RestoreFails, BatchDone, BatchRecordFails, RollbackDone, Running
  <2>5. OneAtATime'
    BY <1>1, <1>7, <2>1 DEF Publish, OneAtATime, Running, BrokerStep, OpCheck, OpRefused,
                OpWrite, OpWriteFails, Restore, RestoreFails, BatchDone,
                BatchRecordFails, RollbackDone
  <2>6. BlameKept' /\ Blamed' = Blamed
    BY <1>4, <2>1, <2>4 DEF stagingVars, memVars, pubVars
  <2> QED BY <2>3, <2>5, <2>6
<1>8. CASE PubReceipt
  <2>1. /\ UNCHANGED <<brokerVars, pubVars, wsVars, work, conflicts, job>>
        /\ offers' \subseteq offers /\ receipts' \subseteq receipts
    BY <1>8 DEF PubReceipt, Decline, MarkPublished, MarkFails, stagingVars, memVars
  <2>2. BlameKept' /\ OneAtATime' /\ Blamed' = Blamed
    BY <1>1, <1>4, <2>1 DEF OneAtATime, Running, brokerVars, pubVars
  <2>3. ASSUME NEW p \in Paths \ Blamed PROVE Known(p)'
    <3>1. Host(p)' = Host(p) /\ batch' = batch
      BY <2>1, PastSame DEF brokerVars
    <3>2. CASE snap'.base[p] = snap.base[p]
      BY <1>1, <2>1, <3>1, <3>2, KnownKept
    <3>3. ASSUME NEW m \in receipts, MarkPublished(m), p \in DOMAIN m.ops PROVE Known(p)'
      <4>1. ~Running /\ snap'.base[p] = work[p]
        BY <1>1, <3>3 DEF OneAtATime, MarkPublished, AdvancedBase
      <4>2. Host(p) = work[p]
        BY <1>1, <3>3 DEF Known
      <4>3. ~Writing(p)' /\ \A n \in InHand' : n \in InHand
        BY <2>1, <3>1, <4>1 DEF Writing, InHand, Running
      <4>4. job.active => JobKnows(p)'
        BY <1>1, <2>1, <3>1, <4>2, <4>3 DEF Known, JobKnows
      <4> QED BY <1>1, <2>1, <3>1, <4>1, <4>2, <4>3, <4>4 DEF Known
    <3>4. ASSUME NEW m \in receipts, MarkPublished(m), p \notin DOMAIN m.ops
          PROVE  snap'.base[p] = snap.base[p]
      BY <3>4 DEF MarkPublished, AdvancedBase
    <3> QED BY <1>8, <3>2, <3>3, <3>4 DEF PubReceipt, Decline, MarkFails, stagingVars, memVars
  <2> QED BY <2>2, <2>3
<1>9. CASE PubTool
  <2>1. PICK q \in Paths, e \in Entry :
            /\ ToolWrite(q, e)
            /\ clash' = IF q \in Held \/ Behind(q) THEN clash \cup {q} ELSE clash
    BY <1>9 DEF PubTool
  <2>2. /\ UNCHANGED <<brokerVars, userWrote>> /\ Blamed \subseteq Blamed'
        /\ edited' = edited /\ batch' = batch
    BY <1>9, <2>1 DEF PubTool, Blamed, brokerVars
  <2>3. /\ conflicts' = conflicts /\ receipts' = receipts
        /\ job'.conf = job.conf /\ job'.keep = job.keep /\ job'.take = job.take
    <3>1. job \in JobType
      BY <1>1 DEF PubTypes, TypeOK
    <3> QED BY <2>1, <3>1 DEF ToolWrite, memVars, deskVars, JobType
  <2>4. BlameKept' /\ OneAtATime'
    BY <1>1, <2>2, <2>3 DEF BlameKept, OneAtATime, Running
  <2>5. ASSUME NEW p \in Paths \ Blamed' PROVE Known(p)'
    <3>1. Known(p)
      BY <1>1, <2>2
    <3> QED BY <1>1, <2>1, <2>2, <3>1, ToolKeepsKnown
  <2> QED BY <2>4, <2>5
<1>10. CASE PubRebase
  <2>1. UNCHANGED <<brokerVars, pubVars, receipts>>
    BY <1>10 DEF PubRebase, RebaseStep, RebaseStart, RebaseInstall, RebaseInstallFails,
                 RebaseAborts, RebaseNote, Visit, RebaseCommit, RebaseVerifyFails, deskVars
  <2>2. OneAtATime' /\ Blamed' = Blamed
    BY <1>1, <2>1 DEF OneAtATime, Running, Blamed, brokerVars, pubVars
  <2> QED BY <1>1, <1>10, <2>2, RebaseKeepsKnown
<1>11. CASE PubProcess
  <2>1. UNCHANGED <<brokerVars, pubVars, wsVars, work, deskVars>>
    BY <1>11 DEF PubProcess, Crash, StartResume
  <2>2. /\ OneAtATime' /\ Blamed' = Blamed /\ batch' = batch /\ edited' = edited
        /\ userWrote' = userWrote
    BY <1>1, <2>1 DEF OneAtATime, Running, Blamed, brokerVars, pubVars, deskVars
  <2>3. CASE Crash
    <3>1. job' = NoJob /\ conflicts' = conflicts /\ snap' = snap
      BY <2>3 DEF Crash, memVars
    <3>2. BlameKept' /\ ~job'.active
      BY <1>1, <2>2, <3>1 DEF BlameKept, NoJob
    <3>3. ASSUME NEW p \in Paths \ Blamed PROVE Known(p)'
      <4>1. Host(p)' = Host(p)
        BY <2>1, PastSame
      <4> QED BY <1>1, <2>1, <2>2, <3>1, <3>2, <4>1, KnownKept DEF deskVars
    <3> QED BY <2>2, <3>2, <3>3
  <2>4. CASE StartResume
    <3>1. /\ exec = "down" /\ conflicts' = saved.conf /\ snap'.base = saved.base
          /\ job' = Scan({}, {}, TRUE, snap', saved.conf)
      BY <2>4 DEF StartResume
    <3>2. /\ ~Running /\ conflicts' = conflicts /\ snap'.base = snap.base
      BY <1>1, <1>11, <3>1 DEF PubProcess, OneBaseline
    <3>3. snap' \in SnapshotType /\ saved.conf \in SUBSET Paths
      BY <1>1, <1>3 DEF PubTypes, TypeOK, SavedType
    <3>4. job'.conf = saved.conf /\ job'.keep = {} /\ job'.take = {}
      BY <3>1 DEF Scan
    <3>5. BlameKept'
      BY <1>1, <2>2, <3>1, <3>2, <3>4 DEF BlameKept
    <3>6. ASSUME NEW p \in Paths \ Blamed PROVE Known(p)'
      <4>1. {} \in SUBSET Paths /\ TRUE \in BOOLEAN
        OBVIOUS
      <4> QED BY <1>1, <2>1, <3>1, <3>2, <3>3, <4>1, ScanKnows
    <3> QED BY <2>2, <3>5, <3>6
  <2> QED BY <1>11, <2>3, <2>4 DEF PubProcess
<1>12. CASE PubUser
  <2>1. PICK q \in Paths, e \in Entry :
            BrokerUserEdit(q, e) /\ userWrote' = userWrote \cup {q}
    BY <1>12 DEF PubUser
  <2>2. /\ UNCHANGED <<stagingVars, deskVars, clash>> /\ batch' = batch
        /\ edited' \subseteq edited \cup {q}
    BY <1>12, <2>1 DEF PubUser, BrokerUserEdit
  <2>3. BlameKept' /\ OneAtATime'
    BY <1>1, <2>1, <2>2 DEF BlameKept, Blamed, OneAtATime, Running, stagingVars, memVars, deskVars
  <2>4. ASSUME NEW p \in Paths \ Blamed' PROVE Known(p)'
    <3>1. p # q /\ p \notin Blamed
      BY <2>1, <2>2 DEF Blamed
    <3>2. Host(p)' = Host(p)
      BY <1>1, <2>1, <3>1, PutOne DEF BrokerUserEdit, UserEdit, PubTypes, TypeOK
    <3> QED BY <1>1, <2>2, <3>1, <3>2, KnownKept DEF stagingVars, memVars, deskVars
  <2> QED BY <2>3, <2>4
<1>13. CASE PubDesktopCrash
  <2>1. /\ offers' = {} /\ receipts' = {} /\ UNCHANGED <<stagingVars, pubVars, wsVars, edited>>
        /\ ~Running'
    BY <1>1, <1>13 DEF PubDesktopCrash, DesktopCrash, Running, brokerVars, PubTypes,
                       BrokerTypeOK, BatchType
  <2>2. BlameKept' /\ OneAtATime' /\ Blamed' = Blamed
    BY <1>4, <2>1 DEF OneAtATime, stagingVars, memVars, pubVars
  <2>3. ASSUME NEW p \in Paths \ Blamed PROVE Known(p)'
    <3>1. Host(p)' = Host(p) /\ work' = work /\ snap' = snap /\ job' = job
      BY <2>1, PastSame DEF stagingVars, memVars
    <3>2. ~Writing(p)' /\ InHand' = {}
      BY <2>1 DEF Writing, InHand
    <3>3. job.active => JobKnows(p)'
      BY <1>1, <3>1, <3>2 DEF Known, JobKnows
    <3> QED BY <1>1, <2>1, <3>1, <3>2, <3>3 DEF Known
  <2> QED BY <2>2, <2>3
<1> QED BY <1>5, <1>6, <1>7, <1>8, <1>9, <1>10, <1>11, <1>12, <1>13 DEF PubNext

\* A seeded executor and a desktop without a batch.
LEMMA PubStart == PubInit => PubInv
<1> SUFFICES ASSUME PubInit PROVE PubInv
  OBVIOUS
<1>1. StagingInit /\ BatchInit /\ userWrote = {} /\ clash = {}
  BY DEF PubInit
<1>2. PubTypes
  BY <1>1, TypeInit, BrokerTypeInit, ProgressInit DEF PubTypes, StagingInit, BrokerInit
<1>3. /\ snap = SeedSnapshot(0) /\ saved = Save(SeedSnapshot(0), {}) /\ nextId = 1
      /\ exec = "serving" /\ job = NoJob /\ conflicts = {} /\ offers = {} /\ receipts = {}
      /\ edited = {} /\ ~Running
  BY <1>1 DEF StagingInit, BatchInit, NoBatch, Running
<1>4. OneBaseline
  BY <1>3 DEF OneBaseline, SeedSnapshot, Save, NoJob
<1>5. BlameKept /\ OneAtATime
  BY <1>3 DEF BlameKept, OneAtATime, NoJob
<1>6. ASSUME NEW p \in Paths PROVE Known(p)
  <2>1. Host(p) = snap.base[p] /\ ~Writing(p) /\ InHand = {} /\ ~job.active
    BY <1>3 DEF SeedSnapshot, Writing, InHand, NoJob
  <2> QED BY <1>3, <2>1 DEF Known
<1> QED BY <1>2, <1>4, <1>5, <1>6 DEF PubInv, BlameInv

\* Publications, their failures, rollbacks, lost receipts and interruptions
\* leave no conflict of their own: for every number of batches, manifests and
\* restarts of the executor outside a batch, and every rebase beside them.
THEOREM ConflictsAreCaused ==
    ASSUME ~RestartsInBatch
    PROVE  PubSpec => []ConflictHasCause
<1>1. PubInit => PubInv
  BY PubStart
<1>2. PubInv /\ [PubNext]_allVars => PubInv'
  BY PubStep
<1>3. PubInv => ConflictHasCause
  BY DEF PubInv, BlameInv, BlameKept, Blamed, ConflictHasCause
<1> QED BY <1>1, <1>2, <1>3, PTL DEF PubSpec

\* Nor do they take staged work: outside the circumstances a conflict could be
\* blamed on, only a tool changes a staged file.
THEOREM WorkIsKept ==
    ASSUME ~RestartsInBatch
    PROVE  PubSpec => WorkFollowsUser
<1> DEFINE Follows ==
             \A p \in Paths :
               /\ work[p] \in toolWrote[p]
               /\ p \notin userWrote \cup clash
               /\ work'[p] # work[p]
               => (\E e \in Entry : ToolWrite(p, e)) \/ p \in job.take
<1>1. PubInit => PubInv
  BY PubStart
<1>2. PubInv /\ [PubNext]_allVars => PubInv'
  BY PubStep
<1>3. ASSUME PubInv, [PubNext]_allVars, NEW p \in Paths, p \notin Blamed, work'[p] # work[p]
      PROVE  \E e \in Entry : ToolWrite(p, e)
  <2>1. work \in [Paths -> Entry] /\ BlameKept /\ Known(p)
    BY <1>3 DEF PubInv, PubTypes, TypeOK, Map, BlameInv
  <2>2. CASE PubTool
    <3>1. PICK q \in Paths, e \in Entry : ToolWrite(q, e)
      BY <2>2 DEF PubTool
    <3>2. q = p
      BY <1>3, <2>1, <3>1 DEF ToolWrite
    <3> QED BY <3>1, <3>2
  <2>3. ASSUME NEW q \in Paths, RebaseInstall(q) PROVE FALSE
    <3>1. q = p /\ Visit(q) /\ Branch(job, q) \in {"take", "absorb"}
      BY <1>3, <2>1, <2>3 DEF RebaseInstall
    <3> QED BY <1>3, <2>1, <3>1, QuietBranch
  <2> QED
    BY <1>3, <2>2, <2>3
       DEF PubNext, PubManifest, Manifest, Approve, Publish, PubReceipt, Decline,
           MarkPublished, MarkFails, PubRebase, RebaseStep, RebaseStart,
           RebaseInstallFails, RebaseAborts, RebaseNote, RebaseCommit,
           RebaseVerifyFails, PubProcess, Crash, StartResume, PubUser,
           PubDesktopCrash, allVars, stagingVars
<1>4. PubInv /\ [PubNext]_allVars => Follows
  BY <1>3 DEF Blamed
<1>5. PubSpec => [][Follows]_allVars
  BY <1>1, <1>2, <1>4, PTL DEF PubSpec
<1> QED BY <1>5 DEF WorkFollowsUser
=============================================================================
