---------------------------- MODULE Publication ----------------------------
(***************************************************************************)
(* Publication end to end: the executor (module Staging), the broker       *)
(* writing an approved batch file by file (module Broker), the desktop     *)
(* worker that runs the broker and then asks for the baseline advance, the *)
(* user's editors, and crashes of the desktop and of the executor.         *)
(*                                                                         *)
(* The desktop holds one confirmation dialog at a time and it is modal:    *)
(* a rebase cannot be asked for while it is open, nor while a batch is     *)
(* being written.  Nothing keeps tools from running then, nor the executor *)
(* from restarting, which rebases before it serves.  Discard is left to    *)
(* module Staging.                                                         *)
(***************************************************************************)
EXTENDS Staging, Broker

CONSTANT RestartsInBatch   \* whether the executor may restart during a batch

ASSUME RestartsInBatchIsBoolean == RestartsInBatch \in BOOLEAN

VARIABLES
    userWrote,  \* history: host paths the user wrote
    clash       \* history: paths a tool wrote while the desktop held a
                \* manifest that names them, or while the host version was
                \* not the baseline's (`Behind`)

pubVars == <<userWrote, clash>>
allVars == <<wsVars, stagingVars, deskVars, brokerVars, pubVars>>

\* PublicationWorker is running.
Publishing == Running \/ receipts # {}

\* Paths of the manifests the desktop holds or is writing.
Held ==
    UNION ({DOMAIN m.ops : m \in offers \cup receipts}
           \cup {IF Running THEN Ops ELSE {}})

\* The host version of p is not the baseline's, or not the one of the baseline
\* that a rebase is about to put in its place.
Behind(p) == Host(p) # snap.base[p] \/ (job.active /\ Host(p) # job.base[p])

PubInit == StagingInit /\ BatchInit /\ userWrote = {} /\ clash = {}

\* The user accepts: start_publication, and the worker enters the broker.
Approve(m) ==
    /\ m \in offers
    /\ ~Publishing
    /\ BatchStart(m)
    /\ offers' = offers \ {m}
    /\ UNCHANGED <<stagingVars, receipts, pubVars>>

\* The broker works on the batch; once it returns, the worker sends the
\* receipt to the executor.
Publish ==
    /\ BrokerStep
    /\ receipts' = IF batch'.phase = "done" /\ Running
                   THEN receipts \cup {batch.m} ELSE receipts
    /\ UNCHANGED <<stagingVars, offers, pubVars>>

PubManifest ==
    /\ ~Publishing
    /\ \E sel \in SUBSET Paths : Manifest(sel)
    /\ UNCHANGED <<brokerVars, pubVars>>

PubReceipt ==
    /\ \/ \E m \in offers : Decline(m)
       \/ \E m \in receipts : MarkPublished(m) \/ MarkFails(m)
    /\ UNCHANGED <<brokerVars, pubVars>>

PubTool ==
    /\ \E p \in Paths, e \in Entry :
          /\ ToolWrite(p, e)
          /\ clash' = IF p \in Held \/ Behind(p)
                      THEN clash \cup {p} ELSE clash
    /\ UNCHANGED <<brokerVars, userWrote>>

PubRebase ==
    /\ RebaseStep
    /\ job.active \/ (offers = {} /\ ~Publishing)
    /\ UNCHANGED <<brokerVars, pubVars>>

PubProcess ==
    /\ Crash \/ StartResume
    /\ exec = "down" => RestartsInBatch \/ ~Running
    /\ UNCHANGED <<brokerVars, pubVars>>

PubUser ==
    /\ \E p \in Paths, e \in Entry :
          BrokerUserEdit(p, e) /\ userWrote' = userWrote \cup {p}
    /\ UNCHANGED <<stagingVars, deskVars, clash>>

\* The desktop dies: its dialog and the receipt it had not sent are gone.
PubDesktopCrash ==
    /\ \/ DesktopCrash
       \/ ~Running /\ UNCHANGED <<wsVars, brokerVars>>
    /\ Publishing
    /\ offers' = {} /\ receipts' = {}
    /\ UNCHANGED <<stagingVars, pubVars>>

PubNext ==
    \/ PubManifest \/ (\E m \in offers : Approve(m)) \/ Publish \/ PubReceipt
    \/ PubTool \/ PubRebase \/ PubProcess \/ PubUser
    \/ PubDesktopCrash

PubSpec == PubInit /\ [][PubNext]_allVars

-----------------------------------------------------------------------------

\* A conflict has a cause outside the publication itself: the user wrote the
\* host file, or a tool wrote the staged file while a manifest naming it was
\* with the desktop, or after a published version whose baseline advance was
\* lost or is about to be undone by a rebase that began before it.  Failed,
\* rolled back and interrupted batches by themselves leave none.
ConflictHasCause == conflicts \subseteq userWrote \cup clash

\* What a tool wrote into staging is changed only by a tool or by the user
\* taking the host version, as long as the user does not write the host file
\* and no tool writes the file in the circumstances of `clash`: neither a
\* publication nor its failure, its rollback or the loss of its receipt costs
\* staged work, whatever rebases run beside it.
WorkFollowsUser ==
    [][\A p \in Paths :
         /\ work[p] \in toolWrote[p]
         /\ p \notin userWrote \cup clash
         /\ work'[p] # work[p]
         => (\E e \in Entry : ToolWrite(p, e)) \/ p \in job.take]_allVars

\* A baseline that has the host's version of a file keeps it through the end
\* of a rebase.  (Not so: mark_published may advance the baseline while a
\* rebase that saw the file before the publication is running, and rebase()
\* then assigns the baseline it built from the old one.  A tool that changes
\* the file back makes the next rebase take the change for the host's.)
RebaseKeepsAdvance ==
    [][\A p \in Paths :
         RebaseCommit /\ snap.base[p] = Host(p) => snap'.base[p] = Host(p)]_allVars
=============================================================================
