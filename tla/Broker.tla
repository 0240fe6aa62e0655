------------------------------- MODULE Broker -------------------------------
(***************************************************************************)
(* WorkspaceBroker.publish: the desktop writes one approved batch to the   *)
(* host workspace, file by file in path order.  Each file is checked       *)
(* against the reviewed base and copied to the batch's recovery directory, *)
(* then written; any failure rolls the touched files back, newest first.   *)
(* The user's editors write the same files at any time, any write may      *)
(* fail, and the desktop process may die between any two steps.            *)
(***************************************************************************)
EXTENDS Workspace, FiniteSets

CONSTANT MaxBatches     \* bound: batches the broker is given

ASSUME MaxBatchesIsNat == MaxBatches \in Nat

VARIABLES
    batch,      \* the batch in hand, or the last one
    edited,     \* history: paths the user wrote since the batch checked them
    batches     \* batches started so far

brokerVars == <<batch, edited, batches>>

Phases == {"idle", "check", "write", "rollback", "done", "failed", "crashed"}

\* m: the manifest; todo: operations left; touched: paths whose recovery copy
\* exists and whose write was begun; rec: the copies; errors: rollback_errors.
BatchType ==
    [phase : Phases, m : ManifestType, todo : SUBSET Paths,
     touched : SUBSET Paths, rec : [Paths -> Entry], undo : SUBSET Paths,
     errors : SUBSET Paths]

NoManifest == [id |-> 0, ops |-> [p \in {} |-> {}]]

NoBatch ==
    [phase |-> "idle", m |-> NoManifest, todo |-> {}, touched |-> {},
     rec |-> [p \in Paths |-> Absent], undo |-> {}, errors |-> {}]

BatchInit == batch = NoBatch /\ edited = {} /\ batches = 0

BrokerInit == WorkspaceInit /\ BatchInit

Ops == DOMAIN batch.m.ops
Running == batch.phase \in {"check", "write", "rollback"}

Lowest(S, p) == p \in S /\ \A q \in S : p <= q
Highest(S, p) == p \in S /\ \A q \in S : q <= p

\* publish() is entered with a manifest whose exact paths were approved.
BatchStart(m) ==
    /\ ~Running
    /\ batches < MaxBatches
    /\ batch' = [NoBatch EXCEPT !.phase = "check", !.m = m, !.todo = DOMAIN m.ops]
    /\ edited' = {}
    /\ batches' = batches + 1
    /\ UNCHANGED wsVars

\* Mutant of Fail: the operation that failed is not among the files to restore.
FailSkipsLast(b) ==
    [b EXCEPT !.phase = "rollback", !.undo = b.touched \ b.todo]

\* The exception handler: restore every touched file.
Fail(b) == [b EXCEPT !.phase = "rollback", !.undo = b.touched]

\* Mutant of OpCheck: no recovery copy is taken.
OpCheckNoCopy(p) ==
    /\ batch.phase = "check"
    /\ Lowest(batch.todo, p)
    /\ Host(p) = batch.m.ops[p].base
    /\ batch' = [batch EXCEPT !.phase = "write", !.touched = @ \cup {p}]
    /\ UNCHANGED <<wsVars, edited, batches>>

\* The next operation finds the reviewed base on the host; its recovery copy
\* is taken and the path counts as touched before anything is written.
OpCheck(p) ==
    /\ batch.phase = "check"
    /\ Lowest(batch.todo, p)
    /\ Host(p) = batch.m.ops[p].base
    /\ batch' = [batch EXCEPT !.phase = "write",
                              !.touched = @ \cup {p},
                              !.rec[p] = Host(p)]
    /\ UNCHANGED <<wsVars, edited, batches>>

\* Mutant of OpRefused: the operation is skipped.
OpRefusedSkips(p) ==
    /\ batch.phase = "check"
    /\ Lowest(batch.todo, p)
    /\ batch' = [batch EXCEPT !.todo = @ \ {p}]
    /\ UNCHANGED <<wsVars, edited, batches>>

\* "Host file changed after review", an unsafe target, or no recovery copy.
OpRefused(p) ==
    /\ batch.phase = "check"
    /\ Lowest(batch.todo, p)
    /\ batch' = Fail(batch)
    /\ UNCHANGED <<wsVars, edited, batches>>

\* The file is replaced or removed, and verified.
OpWrite(p) ==
    /\ batch.phase = "write"
    /\ Lowest(batch.todo, p)
    /\ batch.m.ops[p].staged # Absent \/ Host(p) # Absent
    /\ HostPut([q \in {p} |-> batch.m.ops[p].staged])
    /\ batch' = [batch EXCEPT !.phase = "check", !.todo = @ \ {p}]
    /\ UNCHANGED <<edited, batches>>

\* The write raises, before the file was replaced or after (a mode that
\* cannot be set, a file that changed again before it was verified).
OpWriteFails(p) ==
    /\ batch.phase = "write"
    /\ Lowest(batch.todo, p)
    /\ \/ UNCHANGED wsVars
       \/ /\ batch.m.ops[p].staged # Absent
          /\ HostPut([q \in {p} |-> batch.m.ops[p].staged])
    /\ batch' = Fail(batch)
    /\ UNCHANGED <<edited, batches>>

\* Every operation completed and manifest.json is written.
BatchDone ==
    /\ batch.phase = "check"
    /\ batch.todo = {}
    /\ batch' = [batch EXCEPT !.phase = "done"]
    /\ UNCHANGED <<wsVars, edited, batches>>

\* manifest.json cannot be written: the whole batch is rolled back.
BatchRecordFails ==
    /\ batch.phase = "check"
    /\ batch.todo = {}
    /\ batch' = Fail(batch)
    /\ UNCHANGED <<wsVars, edited, batches>>

\* Mutant of Restore: every touched file is removed.
RestoreDeletes(p) ==
    /\ batch.phase = "rollback"
    /\ Highest(batch.undo, p)
    /\ HostPut([q \in {p} |-> Absent])
    /\ batch' = [batch EXCEPT !.undo = @ \ {p}]
    /\ UNCHANGED <<edited, batches>>

\* _restore_touched: the recovery copy is written back, or a created file is
\* removed, whatever the host file holds now.
Restore(p) ==
    /\ batch.phase = "rollback"
    /\ Highest(batch.undo, p)
    /\ IF Host(p) = batch.rec[p] /\ batch.rec[p] = Absent
       THEN UNCHANGED wsVars
       ELSE HostPut([q \in {p} |-> batch.rec[p]])
    /\ batch' = [batch EXCEPT !.undo = @ \ {p}]
    /\ UNCHANGED <<edited, batches>>

RestoreFails(p) ==
    /\ batch.phase = "rollback"
    /\ Highest(batch.undo, p)
    /\ batch' = [batch EXCEPT !.undo = @ \ {p}, !.errors = @ \cup {p}]
    /\ UNCHANGED <<wsVars, edited, batches>>

\* partial.json is written and BrokerError raised.
RollbackDone ==
    /\ batch.phase = "rollback"
    /\ batch.undo = {}
    /\ batch' = [batch EXCEPT !.phase = "failed"]
    /\ UNCHANGED <<wsVars, edited, batches>>

\* The desktop process dies: nothing is rolled back, the recovery copies stay.
DesktopCrash ==
    /\ Running
    /\ batch' = [batch EXCEPT !.phase = "crashed"]
    /\ UNCHANGED <<wsVars, edited, batches>>

\* The user writes a host file.
BrokerUserEdit(p, e) ==
    /\ UserEdit(p, e)
    /\ edited' = IF p \in batch.touched THEN edited \cup {p} ELSE edited
    /\ UNCHANGED <<batch, batches>>

BrokerStep ==
    \/ \E p \in Paths : \/ OpCheck(p) \/ OpRefused(p)
                        \/ OpWrite(p) \/ OpWriteFails(p)
                        \/ Restore(p) \/ RestoreFails(p)
    \/ BatchDone \/ BatchRecordFails \/ RollbackDone

\* A manifest the executor may have built: every operation changes its file.
AnyManifest ==
    {m \in [id : {0}, ops : UNION {[S -> Op] : S \in SUBSET Paths \ {{}}}] :
        \A p \in DOMAIN m.ops : m.ops[p].base # m.ops[p].staged}

BrokerNext ==
    \/ \E m \in AnyManifest : BatchStart(m)
    \/ BrokerStep
    \/ DesktopCrash
    \/ \E p \in Paths, e \in Entry : BrokerUserEdit(p, e)

bvars == <<wsVars, brokerVars>>

BrokerSpec == BrokerInit /\ [][BrokerNext]_bvars

\* The desktop's worker thread runs on until publish() returns or raises.
FairBrokerSpec == BrokerSpec /\ WF_bvars(BrokerStep)

-----------------------------------------------------------------------------

\* The broker's state is well typed.
BrokerTypeOK ==
    /\ WorkspaceTypeOK
    /\ batch \in BatchType
    /\ edited \subseteq Paths
    /\ batches \in Nat

\* A batch that failed is all undone: every file it touched and could restore
\* has its reviewed base again, unless the user wrote it in the meantime.
FailedBatchUndone ==
    batch.phase = "failed" =>
        \A p \in batch.touched \ (batch.errors \cup edited) :
            Host(p) = batch.m.ops[p].base

\* A batch reported as published is all there: every operation's staged entry
\* reached its file, unless the user wrote it since.
DoneBatchPublished ==
    batch.phase = "done" =>
        \A p \in Ops \ edited : Host(p) = batch.m.ops[p].staged

\* What a write replaces is in the recovery directory, unless the user wrote
\* the file after it was copied.
ReplacedIsCopied ==
    [][\A p \in Paths :
         /\ BrokerStep /\ batch.phase # "rollback"
         /\ written'[p] # written[p]
         /\ p \notin edited
         => p \in batch'.touched /\ batch.rec[p] = Host(p)]_bvars

\* What makes these inductive.  Every recovery copy is the reviewed base; until
\* a failure, each operation is either still to do or touched and its file is
\* written; the operation being written has its copy; from a failure on, each
\* touched file is restored, still to restore, or reported.  All of it leaves
\* aside the files the user wrote after they were checked.
BatchProgress ==
    /\ batch.touched \cup batch.todo \subseteq Ops
    /\ batch.undo \subseteq batch.touched
    /\ \A p \in batch.touched : batch.rec[p] = batch.m.ops[p].base
    /\ batch.phase \in {"check", "write", "done"} =>
          /\ batch.touched \cup batch.todo = Ops
          /\ \A p \in batch.touched \ (batch.todo \cup edited) :
                Host(p) = batch.m.ops[p].staged
    /\ batch.phase = "write" =>
          \A p \in Paths : Lowest(batch.todo, p) =>
              /\ p \in batch.touched
              /\ p \notin edited => Host(p) = batch.rec[p]
    /\ batch.phase = "done" => batch.todo = {}
    /\ batch.phase \in {"rollback", "failed"} =>
          \A p \in batch.touched \ (batch.undo \cup batch.errors \cup edited) :
              Host(p) = batch.m.ops[p].base
    /\ batch.phase = "failed" => batch.undo = {}

\* The broker never replaces what the user saved after it checked the file:
\* neither its write, after the check, nor a rollback, after the write.
BrokerSparesEdits ==
    [][\A p \in Paths :
         BrokerStep /\ written'[p] # written[p] => p \notin edited]_bvars

\* When no batch is being written the host holds all of the last one or none
\* of it, leaving aside files the user wrote and files reported as not
\* restored.
NotHalfPublished ==
    LET quiet == Ops \ (edited \cup batch.errors)
    IN  ~Running =>
            \/ \A p \in quiet : Host(p) = batch.m.ops[p].staged
            \/ \A p \in quiet \cap batch.touched : Host(p) = batch.m.ops[p].base

\* publish() returns or raises, unless the desktop dies.
BatchEnds == Running ~> ~Running
=============================================================================
