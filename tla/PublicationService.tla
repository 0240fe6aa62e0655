------------------------- MODULE PublicationService -------------------------
(***************************************************************************)
(* The desktop's StagingPublicationService and PublicationWorker: asking   *)
(* for a publication (all staged work, or the files selected in the review *)
(* pane), confirming it, publishing it batch by batch, retrying a failed   *)
(* batch, and the ledger of batch outcomes.                                *)
(*                                                                         *)
(* The main thread runs slots one at a time; the worker thread writes the  *)
(* batch, asks for the baseline advance and fetches the next batch, and    *)
(* every slot and user action may fall between those steps.  The executor  *)
(* is reduced to the set of pending files and a version per file: a file   *)
(* may be written when the host still has the version the manifest was     *)
(* built on (module Broker), and a baseline advance settles the files of   *)
(* its receipt or is refused (module Staging).                             *)
(***************************************************************************)
EXTENDS Naturals, FiniteSets

CONSTANTS
    Files,          \* files of the workspace; numbers, for their path order
    Flagged,        \* files whose change needs confirmation even in Auto mode
    BatchSize,      \* PUBLISH_BATCH_MAX_OPERATIONS
    MaxPubs,        \* bound: publications started
    MaxVersions     \* bound: publications of one file; the agent then rests

ASSUME FilesAreOrdered == Files \subseteq Nat /\ IsFiniteSet(Files)
ASSUME FlaggedAreFiles == Flagged \subseteq Files
ASSUME BatchSizePositive == BatchSize \in Nat \ {0}
ASSUME ServiceBounds == MaxPubs \in Nat /\ MaxVersions \in Nat

VARIABLES
    pend,       \* executor: files with a publishable staged change
    base,       \* executor: version of each file in the baseline
    host,       \* version of each file on the host
    auto,       \* generation.auto_mode
    paths,      \* publication_paths; Files stands for None, no restriction
    request,    \* the publish request in flight (action_worker)
    dialog,     \* the confirmation on screen
    worker,     \* publication_worker and active_publication
    next,       \* next_publication
    ledger,     \* PublicationLedger: the recorded batches
    nextPub     \* the next fresh publication id

executorVars == <<pend, base, host>>
serviceVars == <<auto, paths, request, dialog, next>>
vars == <<executorVars, serviceVars, worker, ledger, nextPub>>

-----------------------------------------------------------------------------
(* Manifests.                                                              *)

\* A batch: the publication's id, its number and the batches expected, and
\* the base version of each file in it.  `sel` is the selection the whole
\* publication was asked for (history only).
Batches(S) == (Cardinality(S) + BatchSize - 1) \div BatchSize

FirstBatch(S) == {f \in S : Cardinality({g \in S : g < f}) < BatchSize}

\* ExecutorService.manifest for batch i over the pending files in sel.
BatchOf(pub, i, S, sel) ==
    [pub |-> pub, i |-> i, n |-> i - 1 + Batches(S), sel |-> sel,
     ver |-> [f \in FirstBatch(S) |-> base[f]]]

FilesOf(m) == DOMAIN m.ver

None == [pub |-> 0, i |-> 0, n |-> 0, sel |-> {}, ver |-> [f \in {} |-> 0]]

NoRequest == [open |-> FALSE, sel |-> {}]
NoWorker == [phase |-> "none", m |-> None, auto |-> FALSE, paths |-> {},
             following |-> None, error |-> FALSE]
NoNext == [m |-> None, auto |-> FALSE]

Publishing == worker.phase # "none"

Init ==
    /\ pend = {}
    /\ base = [f \in Files |-> 0]
    /\ host = base
    /\ auto = FALSE
    /\ paths = Files
    /\ request = NoRequest
    /\ dialog = None
    /\ worker = NoWorker
    /\ next = NoNext
    /\ ledger = {}
    /\ nextPub = 1

-----------------------------------------------------------------------------
(* The executor and the agent.                                             *)

\* A tool changes a file in staging that had no change pending.
Change(f) ==
    /\ f \notin pend
    /\ base[f] < MaxVersions
    /\ pend' = pend \cup {f}
    /\ UNCHANGED <<base, host, serviceVars, worker, ledger, nextPub>>

\* A rebase absorbs files already on the host whose baseline advance failed.
Absorb ==
    /\ \E f \in Files : host[f] # base[f]
    /\ ~Publishing /\ ~request.open
    /\ pend' = {f \in pend : host[f] = base[f]}
    /\ base' = host
    /\ UNCHANGED <<host, serviceVars, worker, ledger, nextPub>>

-----------------------------------------------------------------------------
(* Asking and confirming.                                                  *)

\* start_publication: refused while a worker is set, turned into a
\* confirmation when Auto meets a flagged file, started otherwise.  `shown` is
\* what stays on screen when nothing has to be confirmed.
NeedsConfirmation(m, isAuto) == isAuto /\ FilesOf(m) \cap Flagged # {}

Start(m, isAuto, busy, shown) ==
    \/ /\ busy
       /\ auto' = (auto /\ ~isAuto)
       /\ dialog' = shown
       /\ UNCHANGED worker
    \/ /\ ~busy
       /\ NeedsConfirmation(m, isAuto)
       /\ dialog' = m
       /\ worker' = NoWorker
       /\ UNCHANGED auto
    \/ /\ ~busy
       /\ ~NeedsConfirmation(m, isAuto)
       /\ dialog' = shown
       /\ worker' = [NoWorker EXCEPT !.phase = "write", !.m = m,
                                     !.auto = isAuto, !.paths = paths]
       /\ UNCHANGED auto

Idle == ~Publishing /\ ~request.open /\ dialog = None

\* publish_staged, for all staged work or for a selection of the review pane.
\* The buttons are disabled while a request or a publication is in flight.
PublishStaged(sel) ==
    /\ Idle
    /\ nextPub <= MaxPubs
    /\ sel # {}
    /\ paths' = sel
    /\ request' = [open |-> TRUE, sel |-> sel]
    /\ UNCHANGED <<executorVars, auto, dialog, next, worker, ledger, nextPub>>

\* The gateway answers with the first batch; a selection naming a file that
\* is no longer pending is an error, an empty manifest only a status line.
StagedPublication ==
    /\ request.open
    /\ LET S == pend \cap request.sel
           known == request.sel = Files \/ request.sel \subseteq pend
       IN  IF S # {} /\ known
           THEN /\ dialog' = BatchOf(nextPub, 1, S, request.sel)
                /\ nextPub' = nextPub + 1
           ELSE UNCHANGED <<dialog, nextPub>>
    /\ request' = NoRequest
    /\ UNCHANGED <<executorVars, auto, paths, next, worker, ledger>>

\* The request fails (a run is active, the gateway is gone).
RequestFails ==
    /\ request.open
    /\ request' = NoRequest
    /\ UNCHANGED <<executorVars, auto, paths, dialog, next, worker, ledger, nextPub>>

\* An agent run ends and announces the first batch of all pending changes.  A
\* run started in Auto publishes only if Auto is still on; otherwise it is
\* blocked, and any other run asks for confirmation.
HandleManifest(autoRun) ==
    /\ pend # {}
    /\ nextPub <= MaxPubs
    /\ nextPub' = nextPub + 1
    /\ LET m == BatchOf(nextPub, 1, pend, Files)
       IN  \/ autoRun /\ auto /\ Start(m, TRUE, Publishing, dialog)
           \/ autoRun /\ ~auto /\ UNCHANGED <<auto, dialog, worker>>
           \/ ~autoRun /\ dialog' = m /\ UNCHANGED <<auto, worker>>
    /\ UNCHANGED <<executorVars, paths, request, next, ledger>>

Accept ==
    /\ dialog # None
    /\ Start(dialog, FALSE, Publishing, None)
    /\ UNCHANGED <<executorVars, paths, request, next, ledger, nextPub>>

\* The dialog has no decline action.
Dismiss ==
    /\ dialog # None
    /\ dialog' = None
    /\ UNCHANGED <<executorVars, auto, paths, request, next, worker, ledger, nextPub>>

\* The Auto switch, disabled while staging is busy.
SwitchAuto ==
    /\ Idle
    /\ auto' = ~auto
    /\ UNCHANGED <<executorVars, paths, request, dialog, next, worker, ledger, nextPub>>

-----------------------------------------------------------------------------
(* The worker thread.                                                      *)

\* PublicationLedger.record: the batch's entry is replaced; publications of
\* one batch are not recorded.
Recorded(m, status) ==
    IF m.n > 1
    THEN {e \in ledger : e.pub # m.pub \/ e.i # m.i}
         \cup {[pub |-> m.pub, i |-> m.i, ver |-> m.ver, status |-> status]}
    ELSE ledger

\* Mutant of BaseMatches: the broker does not look at the host's version.
BaseUnchecked(m) == TRUE

BaseMatches(m) == \A f \in FilesOf(m) : host[f] = m.ver[f]

\* broker.publish: the batch is on the host.
BatchWritten ==
    /\ worker.phase = "write"
    /\ BaseMatches(worker.m)
    /\ host' = [f \in Files |-> IF f \in FilesOf(worker.m)
                                THEN host[f] + 1 ELSE host[f]]
    /\ worker' = [worker EXCEPT !.phase = "mark"]
    /\ UNCHANGED <<pend, base, serviceVars, ledger, nextPub>>

\* The broker refuses or rolls back, or a required check has not passed.
BatchFails ==
    /\ worker.phase = "write"
    /\ ledger' = Recorded(worker.m, "failed")
    /\ worker' = [worker EXCEPT !.phase = "failed"]
    /\ UNCHANGED <<executorVars, serviceVars, nextPub>>

\* mark_staging_published succeeds and the outcome is recorded.
BatchMarked ==
    /\ worker.phase = "mark"
    /\ pend' = pend \ FilesOf(worker.m)
    /\ base' = [f \in Files |-> IF f \in FilesOf(worker.m) THEN host[f] ELSE base[f]]
    /\ ledger' = Recorded(worker.m, "published")
    /\ worker' = [worker EXCEPT !.phase = IF worker.m.i < worker.m.n
                                          THEN "fetch" ELSE "complete"]
    /\ UNCHANGED <<host, serviceVars, nextPub>>

\* mark_staging_published fails: reseed_error, and no further batch.
MarkRefused ==
    /\ worker.phase = "mark"
    /\ ledger' = Recorded(worker.m, "baseline_failed")
    /\ worker' = [worker EXCEPT !.phase = "complete", !.error = TRUE]
    /\ UNCHANGED <<executorVars, serviceVars, nextPub>>

\* GatewayService.publication_batch: from the changes still pending.
PublicationBatch(m, sel) ==
    LET S == pend \cap sel
    IN  IF S = {} THEN None ELSE BatchOf(m.pub, m.i + 1, S, m.sel)

\* next_publication_batch with the worker's own copy of the selection.
FetchNext ==
    /\ worker.phase = "fetch"
    /\ worker' = [worker EXCEPT
                    !.phase = "complete",
                    !.following = PublicationBatch(worker.m, worker.paths)]
    /\ UNCHANGED <<executorVars, serviceVars, ledger, nextPub>>

FetchFails ==
    /\ worker.phase = "fetch"
    /\ worker' = [worker EXCEPT !.phase = "complete", !.error = TRUE]
    /\ UNCHANGED <<executorVars, serviceVars, ledger, nextPub>>

-----------------------------------------------------------------------------
(* Slots of the main thread.                                               *)

\* _on_publication_complete
OnComplete ==
    /\ worker.phase = "complete"
    /\ auto' = (auto /\ ~worker.error)
    /\ next' = IF worker.following = None THEN next
               ELSE [m |-> worker.following, auto |-> worker.auto /\ auto]
    /\ worker' = [worker EXCEPT !.phase = "finish"]
    /\ UNCHANGED <<executorVars, paths, request, dialog, ledger, nextPub>>

\* _on_publication_failed: a batch of several is offered again.
OnFailed ==
    /\ worker.phase = "failed"
    /\ auto' = FALSE
    /\ dialog' = IF worker.m.n > 1 THEN worker.m ELSE dialog
    /\ worker' = [worker EXCEPT !.phase = "finish"]
    /\ UNCHANGED <<executorVars, paths, request, next, ledger, nextPub>>

\* _on_publication_finished with no batch queued: the selection is forgotten.
OnFinished ==
    /\ worker.phase = "finish"
    /\ next = NoNext
    /\ paths' = Files
    /\ worker' = NoWorker
    /\ UNCHANGED <<executorVars, auto, request, dialog, next, ledger, nextPub>>

\* Mutant of OnFinishedContinue: the queue is not emptied.
OnFinishedRepeats ==
    /\ worker.phase = "finish"
    /\ next # NoNext
    /\ IF next.auto THEN Start(next.m, TRUE, FALSE, dialog)
       ELSE dialog' = next.m /\ worker' = NoWorker /\ UNCHANGED auto
    /\ UNCHANGED <<executorVars, paths, request, next, ledger, nextPub>>

\* _on_publication_finished with the next batch queued.
OnFinishedContinue ==
    /\ worker.phase = "finish"
    /\ next # NoNext
    /\ next' = NoNext
    /\ IF next.auto THEN Start(next.m, TRUE, FALSE, dialog)
       ELSE dialog' = next.m /\ worker' = NoWorker /\ UNCHANGED auto
    /\ UNCHANGED <<executorVars, paths, request, ledger, nextPub>>

WorkerStep ==
    \/ BatchWritten \/ BatchFails \/ BatchMarked \/ MarkRefused
    \/ FetchNext \/ FetchFails

SlotStep == OnComplete \/ OnFailed \/ OnFinished \/ OnFinishedContinue

Next ==
    \/ \E f \in Files : Change(f)
    \/ Absorb
    \/ \E sel \in SUBSET Files : PublishStaged(sel)
    \/ StagedPublication \/ RequestFails
    \/ \E autoRun \in BOOLEAN : HandleManifest(autoRun)
    \/ Accept \/ Dismiss \/ SwitchAuto
    \/ WorkerStep
    \/ SlotStep

Spec == Init /\ [][Next]_vars

\* The worker thread and the event loop keep running.
FairSpec == Spec /\ WF_vars(WorkerStep) /\ WF_vars(SlotStep)

-----------------------------------------------------------------------------
(* Properties.                                                             *)

\* What the ledger reports as published is on the host and in the baseline.
LedgerTruthful ==
    \A e \in ledger : e.status = "published" =>
        \A f \in DOMAIN e.ver : base[f] > e.ver[f] /\ host[f] >= base[f]

\* A file is never published twice for one staged change: whatever dialogs
\* are accepted, retried or left behind, and whatever advances are lost, the
\* host is at most one publication ahead of the baseline, and only at files
\* whose change is still pending.
NotPublishedTwice ==
    \A f \in Files :
        /\ base[f] <= host[f] /\ host[f] <= base[f] + 1
        /\ base[f] # host[f] => f \in pend

\* The batches of a publication are numbered without gaps: a batch is only
\* written when every earlier batch of the publication was published.
BatchesInOrder ==
    worker.phase = "write" =>
        \A k \in 1..(worker.m.i - 1) :
            \E e \in ledger : /\ e.pub = worker.m.pub /\ e.i = k
                              /\ e.status = "published"

\* Each change is published once and in order, and the ledger says so.
PublicationIsExact == LedgerTruthful /\ NotPublishedTwice /\ BatchesInOrder

\* Later batches of a partial publication stay within the same selection.
SelectionKept ==
    worker.phase # "none" => FilesOf(worker.m) \subseteq worker.m.sel

\* A publication comes to an end, whatever fails on the way, so that the next
\* one can start and queued messages are sent on.
PublicationEnds == worker.phase # "none" ~> worker.phase = "none"
=============================================================================
