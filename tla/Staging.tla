------------------------------ MODULE Staging ------------------------------
(***************************************************************************)
(* The executor's control plane over persistent staging: the staged copy   *)
(* of the workspace (work volume), the publication baseline and the open   *)
(* conflicts (in memory, and saved on the state volume), the rebase that   *)
(* brings host changes into staging, manifests, the baseline advance after *)
(* a publication, discard, and crash and restart of the executor.          *)
(*                                                                         *)
(* Handlers that run inline on the executor's event loop are one action.   *)
(* Rebase runs in a worker thread (asyncio.to_thread), so its scan, each   *)
(* path of its loop and its final assignment are separate actions and      *)
(* every other handler may run between them.  Discard is inline, but it    *)
(* writes two volumes in turn, so a crash may fall between its steps.      *)
(* A tool call is one step here; the desktop's write of an approved batch  *)
(* to the host is one step here and is taken apart in module Broker.       *)
(***************************************************************************)
EXTENDS Workspace, FiniteSets

CONSTANTS
    NeverPublish,   \* paths matching the policy's never_publish globs
    MaxOps,         \* PUBLISH_BATCH_MAX_OPERATIONS
    MaxIds,         \* bound: no rebase, discard or start after this many ids
    MaxOffers,      \* bound: manifests held by the desktop at one time
    IoErrors,       \* whether the executor's file operations may just fail
    Restores        \* whether the user puts old versions back, times kept

ASSUME NeverPublishArePaths == NeverPublish \subseteq Paths
ASSUME MaxOpsPositive == MaxOps \in Nat \ {0}
ASSUME StagingBounds == MaxIds \in Nat /\ MaxOffers \in Nat
ASSUME SwitchesAreBoolean == Restores \in BOOLEAN /\ IoErrors \in BOOLEAN

VARIABLES
    work,       \* staged entry of each path (the work volume)
    snap,       \* self.snapshot: id, base entries, recorded host signatures
    conflicts,  \* self.conflicts: paths withheld from publication
    saved,      \* baseline.json on the state volume
    nextId,     \* the next fresh snapshot id (uuid4)
    job,        \* the rebase in progress
    exec,       \* what the executor process is doing
    torn,       \* a discard has emptied staging and not yet reseeded it
    toolWrote,  \* history: entries tools wrote at each path since the last seed
    offers,     \* manifests the desktop holds, not yet published
    receipts    \* manifests whose batch is on the host, baseline not advanced

memVars == <<snap, conflicts>>
stagingVars ==
    <<work, snap, conflicts, saved, nextId, job, exec, torn, toolWrote>>
deskVars == <<offers, receipts>>
vars == <<wsVars, stagingVars, deskVars>>

Map(S) == [Paths -> S]
Const(x) == [p \in Paths |-> x]

\* Snapshot (hashes and modes are `base`; source_signatures are `sigs`,
\* 0 where none is recorded).
SnapshotType == [id : Nat, base : Map(Entry), sigs : Map(Nat)]

SavedType ==
    [present : BOOLEAN, id : Nat, base : Map(Entry), sigs : Map(Nat),
     conf : SUBSET Paths]

\* A rebase: the user's resolutions, what host_files and visible_files saw,
\* and the tables it is building; `at` is the host version each path had at
\* the scan and `raced` the paths a tool wrote after it (both history only).
JobType ==
    [active : BOOLEAN, boot : BOOLEAN, keep : SUBSET Paths, take : SUBSET Paths,
     host : Map(Entry), at : Map(Nat), staged : Map(Entry), todo : SUBSET Paths,
     id : Nat, base : Map(Entry), sigs : Map(Nat), conf : SUBSET Paths,
     changed : BOOLEAN, raced : SUBSET Paths]

NoJob ==
    [active |-> FALSE, boot |-> FALSE, keep |-> {}, take |-> {},
     host |-> Const(Absent), at |-> Const(0), staged |-> Const(Absent),
     todo |-> {}, id |-> 0, base |-> Const(Absent), sigs |-> Const(0),
     conf |-> {}, changed |-> FALSE, raced |-> {}]

NoBaseline ==
    [present |-> FALSE, id |-> 0, base |-> Const(Absent), sigs |-> Const(0),
     conf |-> {}]

ExecStates == {"serving", "cleared", "forgotten", "down", "resuming"}

-----------------------------------------------------------------------------
(* Seeding: staging and the baseline both take the host as it is now.      *)

SeedSnapshot(id) ==
    [id |-> id,
     base |-> [p \in Paths |-> Host(p)],
     sigs |-> [p \in Paths |-> IF Host(p) = Absent THEN 0 ELSE stamp[p]]]

\* StateStore.save
Save(s, c) ==
    [present |-> TRUE, id |-> s.id, base |-> s.base, sigs |-> s.sigs, conf |-> c]

\* seed_staging, conflicts cleared, baseline saved.
Seed ==
    /\ nextId' = nextId + 1
    /\ work' = [p \in Paths |-> Host(p)]
    /\ snap' = SeedSnapshot(nextId)
    /\ conflicts' = {}
    /\ saved' = Save(snap', {})
    /\ toolWrote' = Const({})

StagingInit ==
    /\ WorkspaceInit
    /\ work = [p \in Paths |-> Host(p)]
    /\ snap = SeedSnapshot(0)
    /\ conflicts = {}
    /\ saved = Save(SeedSnapshot(0), {})
    /\ nextId = 1
    /\ job = NoJob
    /\ exec = "serving"
    /\ torn = FALSE
    /\ toolWrote = Const({})
    /\ offers = {}
    /\ receipts = {}

-----------------------------------------------------------------------------
(* Tools (write, edit, apply_patch): change one staged file.  A call that  *)
(* fails restores its checkpoint and changes nothing.                      *)

ToolWrite(p, e) ==
    /\ exec = "serving"
    /\ e # work[p]
    /\ work' = [work EXCEPT ![p] = e]
    /\ toolWrote' = [toolWrote EXCEPT ![p] = @ \cup {e}]
    /\ job' = IF job.active THEN [job EXCEPT !.raced = @ \cup {p}] ELSE job
    /\ UNCHANGED <<wsVars, memVars, saved, nextId, exec, torn, deskVars>>

-----------------------------------------------------------------------------
(* Manifests and the baseline advance.                                     *)

\* workspace_changes minus conflicts and never_publish globs
Pending ==
    {p \in Paths : /\ work[p] # snap.base[p]
                   /\ p \notin conflicts
                   /\ p \notin NeverPublish}

\* The first batch of publication_batches: the longest prefix, in path order,
\* that the limit allows (the operation limit stands for the byte limit too).
FirstBatch(S) == {p \in S : Cardinality({q \in S : q < p}) < MaxOps}

ManifestOf(S) ==
    [id |-> snap.id,
     ops |-> [p \in S |-> [base |-> snap.base[p], staged |-> work[p]]]]

\* ExecutorService.manifest for a first batch; an empty one is dropped by the
\* desktop ("Nothing to publish").
Manifest(sel) ==
    /\ exec = "serving"
    /\ sel \subseteq Pending
    /\ sel # {}
    /\ Cardinality(offers \cup receipts) < MaxOffers
    /\ offers' = offers \cup {ManifestOf(FirstBatch(sel))}
    /\ UNCHANGED <<wsVars, stagingVars, receipts>>

\* The user declines the confirmation.
Decline(m) ==
    /\ m \in offers
    /\ offers' = offers \ {m}
    /\ UNCHANGED <<wsVars, stagingVars, receipts>>

\* The desktop broker writes an approved batch: every file still has the
\* base entry the manifest names, or nothing is written.
HostPublish(m) ==
    /\ m \in offers
    /\ \A p \in DOMAIN m.ops : /\ Host(p) = m.ops[p].base
                               /\ Len(written[p]) < MaxWrites
    /\ HostPut([p \in DOMAIN m.ops |-> m.ops[p].staged])
    /\ offers' = offers \ {m}
    /\ receipts' = receipts \cup {m}
    /\ UNCHANGED stagingVars

\* advance_published_staging requires every operation to match staging still.
StagedMatches(m) == \A p \in DOMAIN m.ops : work[p] = m.ops[p].staged

\* Mutant of AdvancedBase: the baseline advances for every staged file.
AdvanceAll(m) == work

AdvancedBase(m) ==
    [p \in Paths |-> IF p \in DOMAIN m.ops THEN work[p] ELSE snap.base[p]]

\* mark_published: accepted, the baseline moves for exactly the published
\* paths and gets a new id; the recorded host signatures and the conflicts
\* are left as they were.
MarkPublished(m) ==
    /\ exec = "serving"
    /\ m \in receipts
    /\ m.id = snap.id
    /\ StagedMatches(m)
    /\ nextId < MaxIds
    /\ nextId' = nextId + 1
    /\ snap' = [id |-> nextId, base |-> AdvancedBase(m), sigs |-> snap.sigs]
    /\ saved' = Save(snap', conflicts)
    /\ receipts' = receipts \ {m}
    /\ UNCHANGED <<wsVars, work, conflicts, job, exec, torn, toolWrote, offers>>

\* mark_published: refused as stale, or because staging moved on; or the call
\* is lost.  The desktop gives the receipt up (reseed_error).
MarkFails(m) ==
    /\ m \in receipts
    /\ receipts' = receipts \ {m}
    /\ UNCHANGED <<wsVars, stagingVars, offers>>

-----------------------------------------------------------------------------
(* Rebase.                                                                 *)

\* host_files: the digest recorded in baseline s is reused while the file's
\* signature is the recorded one.
SeenHost(s, p) ==
    IF Host(p) # Absent /\ s.sigs[p] = stamp[p] /\ s.base[p] # Absent
    THEN s.base[p]
    ELSE Host(p)

\* The scan of rebase(): host and staged files, working copies of the tables,
\* and the paths the loop will visit.
Scan(keep, take, boot, s, c) ==
    [active |-> TRUE, boot |-> boot, keep |-> keep, take |-> take,
     host |-> [p \in Paths |-> SeenHost(s, p)],
     at |-> stamp, staged |-> work,
     todo |-> {p \in Paths : Host(p) # Absent \/ s.base[p] # Absent \/ p \in c},
     id |-> s.id, base |-> s.base, sigs |-> s.sigs, conf |-> c,
     changed |-> FALSE, raced |-> {}]

\* POST /v1/staging/rebase; resolutions must name current conflicts, each
\* with one choice.
RebaseStart(keep, take) ==
    /\ exec = "serving"
    /\ ~job.active
    /\ nextId < MaxIds
    /\ keep \cup take \subseteq conflicts
    /\ keep \cap take = {}
    /\ job' = Scan(keep, take, FALSE, snap, conflicts)
    /\ UNCHANGED <<wsVars, work, memVars, saved, nextId, exec, torn, toolWrote,
                   deskVars>>

\* Mutants of Adopt: the digest stored as the signature; the staged version
\* adopted instead of the host's.
AdoptDigestAsSig(j, p) ==
    [j EXCEPT !.base[p] = j.host[p], !.sigs[p] = j.host[p]]
AdoptStaged(j, p) ==
    [j EXCEPT !.base[p] = j.staged[p],
              !.sigs[p] = IF j.host[p] = Absent THEN 0 ELSE j.at[p]]

\* rebase's adopt(): the baseline of p becomes the host version seen.
Adopt(j, p) ==
    [j EXCEPT !.base[p] = j.host[p],
              !.sigs[p] = IF j.host[p] = Absent THEN 0 ELSE j.at[p]]

\* The path is settled: no longer a conflict, and the baseline gets a new id.
Settled(j, p) == [j EXCEPT !.conf = @ \ {p}, !.changed = TRUE]

\* Mutant of HoldBack: the conflict is not recorded.
HoldBackSilently(j, p) == j

\* The conflict is recorded; staging and the baseline keep their versions.
HoldBack(j, p) == [j EXCEPT !.conf = @ \cup {p}]

\* The host did not change p: its signature is refreshed, and a conflict
\* recorded earlier is resolved.
Unmoved(j, p) ==
    LET s == IF j.host[p] = Absent THEN j ELSE [j EXCEPT !.sigs[p] = j.at[p]]
    IN  IF p \in j.conf THEN Settled(s, p) ELSE s

\* Mutant of Branch: a file changed on both sides is absorbed.
BranchHostWins(j, p) ==
    IF p \in j.take THEN "take"
    ELSE IF p \in j.keep THEN "keep"
    ELSE IF j.host[p] = j.base[p] THEN "unmoved"
    ELSE IF j.staged[p] = j.host[p] THEN "same"
    ELSE "absorb"

\* Which branch of the loop p takes.
Branch(j, p) ==
    IF p \in j.take THEN "take"
    ELSE IF p \in j.keep THEN "keep"
    ELSE IF j.host[p] = j.base[p] THEN "unmoved"
    ELSE IF j.staged[p] = j.host[p] THEN "same"
    ELSE IF j.staged[p] = j.base[p] THEN "absorb"
    ELSE "conflict"

\* _install copies the host file into staging and checks that it still has
\* the digest the scan saw; an I/O error or a link in staging fails it too.
InstallMatches(j, p) == j.host[p] = Absent \/ Host(p) = j.host[p]
InstallFails(j, p) == IoErrors \/ ~InstallMatches(j, p)

IsNext(j, p) == p \in j.todo /\ \A q \in j.todo : p <= q
Visited(j, p) == [j EXCEPT !.todo = @ \ {p}]

Visit(p) ==
    /\ job.active
    /\ IsNext(job, p)
    /\ UNCHANGED <<wsVars, memVars, saved, nextId, exec, torn, toolWrote, deskVars>>

\* A path whose host version is installed into staging.
RebaseInstall(p) ==
    /\ Visit(p)
    /\ Branch(job, p) \in {"take", "absorb"}
    /\ InstallMatches(job, p)
    /\ work' = [work EXCEPT ![p] = job.host[p]]
    /\ job' = Visited(Settled(Adopt(job, p), p), p)

\* _install fails while absorbing: the path becomes a conflict.
RebaseInstallFails(p) ==
    /\ Visit(p)
    /\ Branch(job, p) = "absorb"
    /\ InstallFails(job, p)
    /\ job' = Visited(HoldBack(job, p), p)
    /\ UNCHANGED work

\* _install fails while taking the host version: the whole rebase fails, and
\* what it installed so far stays in staging.
RebaseAborts(p) ==
    /\ Visit(p)
    /\ Branch(job, p) = "take"
    /\ InstallFails(job, p)
    /\ job' = NoJob
    /\ UNCHANGED work

\* A path that needs no copy: both sides agree or the user keeps the staged
\* version, the host did not move, or the two sides differ.
Noted(j, p) ==
    CASE Branch(j, p) \in {"keep", "same"} -> Settled(Adopt(j, p), p)
      [] Branch(j, p) = "unmoved" -> Unmoved(j, p)
      [] OTHER -> HoldBack(j, p)

RebaseNote(p) ==
    /\ Visit(p)
    /\ Branch(job, p) \notin {"take", "absorb"}
    /\ job' = Visited(Noted(job, p), p)
    /\ UNCHANGED work

\* Mutant of CommitId: the baseline changes under its old id.
CommitOldId(j) == j.id

\* A rebase that absorbed or resolved something names a new baseline.
CommitId(j) == IF j.changed THEN nextId ELSE j.id

\* Mutant of NeedsSave: a change of the conflicts alone is not saved.
NeedsSaveIdOnly(j) == CommitId(j) # snap.id

\* ExecutorService.rebase saves when the id or the conflicts changed.
NeedsSave(j) == CommitId(j) # snap.id \/ j.conf # conflicts

\* The rebase ends: the snapshot and the conflicts are replaced by the tables
\* it built, and saved.  At boot the executor then starts to serve.
RebaseCommit ==
    /\ job.active
    /\ job.todo = {}
    /\ nextId' = IF job.changed THEN nextId + 1 ELSE nextId
    /\ snap' = [id |-> CommitId(job), base |-> job.base, sigs |-> job.sigs]
    /\ conflicts' = job.conf
    /\ saved' = IF NeedsSave(job) THEN Save(snap', job.conf) ELSE saved
    /\ exec' = IF job.boot THEN "serving" ELSE exec
    /\ job' = NoJob
    /\ UNCHANGED <<wsVars, work, torn, toolWrote, deskVars>>

\* The closing scan of staging finds it over a limit or cannot read it: the
\* handler fails, or at boot the executor does not come up.
RebaseVerifyFails ==
    /\ IoErrors
    /\ job.active
    /\ job.todo = {}
    /\ job.changed
    /\ job' = NoJob
    /\ exec' = IF job.boot THEN "down" ELSE exec
    /\ UNCHANGED <<wsVars, work, memVars, saved, nextId, torn, toolWrote, deskVars>>

-----------------------------------------------------------------------------
(* Discard: staging is emptied, the saved baseline forgotten, staging       *)
(* reseeded from the host.                                                 *)

DiscardClear ==
    /\ exec = "serving"
    /\ nextId < MaxIds
    /\ work' = Const(Absent)
    /\ torn' = TRUE
    /\ exec' = "cleared"
    /\ UNCHANGED <<wsVars, memVars, saved, nextId, job, toolWrote, deskVars>>

\* clear_staging raises part way: 409, and the executor keeps serving.
DiscardClearFails(gone) ==
    /\ IoErrors
    /\ exec = "serving"
    /\ gone # {}
    /\ work' = [p \in Paths |-> IF p \in gone THEN Absent ELSE work[p]]
    /\ torn' = TRUE
    /\ UNCHANGED <<wsVars, memVars, saved, nextId, job, exec, toolWrote, deskVars>>

DiscardForget ==
    /\ exec = "cleared"
    /\ saved' = NoBaseline
    /\ exec' = "forgotten"
    /\ UNCHANGED <<wsVars, work, memVars, nextId, job, torn, toolWrote, deskVars>>

DiscardSeed ==
    /\ exec = "forgotten"
    /\ Seed
    /\ torn' = FALSE
    /\ exec' = "serving"
    /\ UNCHANGED <<wsVars, job, deskVars>>

\* seed_staging raises part way (an unsupported host file, a limit): the
\* handler answers 409 and the executor keeps serving with what was copied.
DiscardSeedFails(done) ==
    /\ exec = "forgotten"
    /\ done # Paths
    /\ work' = [p \in Paths |-> IF p \in done THEN Host(p) ELSE work[p]]
    /\ exec' = "serving"
    /\ UNCHANGED <<wsVars, memVars, saved, nextId, job, torn, toolWrote, deskVars>>

-----------------------------------------------------------------------------
(* Crash and start of the executor.                                        *)

Crash ==
    /\ exec # "down"
    /\ exec' = "down"
    /\ job' = NoJob
    /\ UNCHANGED <<wsVars, work, memVars, saved, nextId, torn, toolWrote, deskVars>>

\* A saved baseline and a work volume: load it and rebase before serving.
StartResume ==
    /\ exec = "down"
    /\ saved.present
    /\ nextId < MaxIds
    /\ snap' = [id |-> saved.id, base |-> saved.base, sigs |-> saved.sigs]
    /\ conflicts' = saved.conf
    /\ job' = Scan({}, {}, TRUE, snap', saved.conf)
    /\ exec' = "resuming"
    /\ UNCHANGED <<wsVars, work, saved, nextId, torn, toolWrote, deskVars>>

\* Mutant of StartFresh: the work volume is reseeded without being cleared.
StartFreshUncleared ==
    /\ exec = "down"
    /\ ~saved.present
    /\ nextId < MaxIds
    /\ nextId' = nextId + 1
    /\ work' = [p \in Paths |-> IF Host(p) = Absent THEN work[p] ELSE Host(p)]
    /\ snap' = SeedSnapshot(nextId)
    /\ conflicts' = {}
    /\ saved' = Save(snap', {})
    /\ toolWrote' = Const({})
    /\ torn' = FALSE
    /\ exec' = "serving"
    /\ UNCHANGED <<wsVars, job, deskVars>>

\* No saved baseline: whatever the work volume holds is dropped.
StartFresh ==
    /\ exec = "down"
    /\ ~saved.present
    /\ nextId < MaxIds
    /\ Seed
    /\ torn' = FALSE
    /\ exec' = "serving"
    /\ UNCHANGED <<wsVars, job, deskVars>>

-----------------------------------------------------------------------------

UserStep ==
    /\ \/ \E p \in Paths, e \in Entry : UserEdit(p, e)
       \/ Restores /\ \E p \in Paths : \E i \in 1..Len(written[p]) : UserRestore(p, i)
    /\ UNCHANGED <<stagingVars, deskVars>>

ToolStep == \E p \in Paths, e \in Entry : ToolWrite(p, e)

DesktopStep ==
    \/ \E sel \in SUBSET Paths : Manifest(sel)
    \/ \E m \in offers : Decline(m) \/ HostPublish(m)
    \/ \E m \in receipts : MarkPublished(m) \/ MarkFails(m)

RebaseStep ==
    \/ \E keep, take \in SUBSET Paths : RebaseStart(keep, take)
    \/ \E p \in Paths : \/ RebaseInstall(p) \/ RebaseInstallFails(p)
                        \/ RebaseAborts(p) \/ RebaseNote(p)
    \/ RebaseCommit \/ RebaseVerifyFails

DiscardStep ==
    \/ DiscardClear \/ DiscardForget \/ DiscardSeed
    \/ \E S \in SUBSET Paths : DiscardClearFails(S) \/ DiscardSeedFails(S)

ProcessStep == Crash \/ StartResume \/ StartFresh

Next ==
    \/ UserStep \/ ToolStep \/ DesktopStep
    \/ RebaseStep \/ DiscardStep \/ ProcessStep

Spec == StagingInit /\ [][Next]_vars

-----------------------------------------------------------------------------
(* Properties.                                                             *)

\* The executor's state is well typed; a rebase at boot is the only thing an
\* executor that does not serve yet is doing.
TypeOK ==
    /\ WorkspaceTypeOK
    /\ work \in Map(Entry)
    /\ snap \in SnapshotType
    /\ conflicts \in SUBSET Paths
    /\ saved \in SavedType
    /\ nextId \in Nat
    /\ job \in JobType
    /\ exec \in ExecStates
    /\ torn \in BOOLEAN
    /\ toolWrote \in Map(SUBSET Entry)
    /\ offers \subseteq ManifestType
    /\ receipts \subseteq ManifestType

\* The baseline, in memory, saved or being built by a rebase, never names a
\* file version that the host did not have at some time: it is only ever
\* copied from the host, or advanced to content a publication put there.
BaselineWasOnHost ==
    \A p \in Paths :
        /\ snap.base[p] \in HostPast(p)
        /\ saved.present => saved.base[p] \in HostPast(p)
        /\ job.active => job.base[p] \in HostPast(p)

\* Staging holds only what a tool wrote since the last seed or what the host
\* had at some time, unless a discard was cut short between emptying staging
\* and reseeding it.
NothingInvented ==
    \/ torn
    \/ \A p \in Paths : work[p] \in toolWrote[p] \cup HostPast(p)

\* A snapshot id names one baseline: a manifest that mark_published would
\* accept as current replaces exactly the baseline's own entries.
IdNamesBaseline ==
    \A m \in offers \cup receipts :
        m.id = snap.id => \A p \in DOMAIN m.ops : m.ops[p].base = snap.base[p]

\* Whenever the executor is idle, a crash loses neither baseline nor
\* conflicts: the state volume holds what is in memory.
DurableWhenIdle ==
    exec = "serving" /\ ~job.active /\ ~torn =>
        /\ saved.present
        /\ saved.id = snap.id
        /\ saved.base = snap.base
        /\ saved.conf = conflicts

\* The strengthenings of the last three that are inductive.  What a rebase saw
\* on the host, and what a receipt says was published, was on the host too.
BaselineSources ==
    /\ BaselineWasOnHost
    /\ job.active => \A p \in Paths : job.host[p] \in HostPast(p)
    /\ \A m \in receipts : \A p \in DOMAIN m.ops : m.ops[p].staged \in HostPast(p)

\* The baselines in memory, saved and in a rebase that has changed nothing yet
\* agree with one another and with every manifest where they have one id, and
\* no id is used before it is handed out.
Agrees(m, id, base) ==
    m.id = id => \A p \in DOMAIN m.ops : m.ops[p].base = base[p]

IdsAgree ==
    /\ snap.id < nextId
    /\ \A m \in offers \cup receipts :
          m.id < nextId /\ Agrees(m, snap.id, snap.base)
    /\ saved.present =>
          /\ saved.id < nextId
          /\ saved.id = snap.id => saved.base = snap.base
          /\ \A m \in offers \cup receipts : Agrees(m, saved.id, saved.base)
    /\ job.active /\ ~job.changed =>
          /\ job.id < nextId
          /\ job.id = snap.id => job.base = snap.base
          /\ saved.present /\ job.id = saved.id => job.base = saved.base
          /\ \A m \in offers \cup receipts : Agrees(m, job.id, job.base)

\* The state volume is up to date whenever staging is whole and the executor
\* is up, a discard in progress is marked as such, and no rebase outlives the
\* process.
SavedIsCurrent ==
    /\ exec \in {"serving", "resuming"} /\ ~torn =>
          saved.present /\ saved.id = snap.id /\ saved.conf = conflicts
    /\ exec \in {"cleared", "forgotten"} => torn
    /\ exec = "down" => ~job.active

\* A finished rebase accounts for every host file that did not change since
\* its scan: it is in the baseline, or the path is listed as a conflict.
RebaseFindsDrift ==
    [][\A p \in Paths :
         /\ RebaseCommit
         /\ stamp[p] = job.at[p]
         => snap'.base[p] = Host(p) \/ p \in conflicts']_vars

\* The same for the host files whose version the scan told right, that is,
\* leaving aside a recorded signature that belongs to another version.
RebaseSettlesSeen ==
    [][\A p \in Paths :
         /\ RebaseCommit
         /\ stamp[p] = job.at[p] /\ job.host[p] = Host(p)
         => snap'.base[p] = Host(p) \/ p \in conflicts']_vars

\* Staged work that is not in the baseline yet is removed only by a tool, by
\* discard, or by the user taking the host version of that file.
StagedWorkKept ==
    [][\A p \in Paths :
         /\ work[p] # snap.base[p] /\ work[p] \in toolWrote[p] /\ ~torn
         /\ work'[p] # work[p]
         => \/ \E e \in Entry : ToolWrite(p, e)
            \/ torn'
            \/ p \in job.take]_vars

\* The same, leaving aside files a tool wrote while a rebase was running.
StagedWorkKeptUnlessRaced ==
    [][\A p \in Paths :
         /\ work[p] # snap.base[p] /\ work[p] \in toolWrote[p] /\ ~torn
         /\ p \notin job.raced
         /\ work'[p] # work[p]
         => \/ \E e \in Entry : ToolWrite(p, e)
            \/ torn'
            \/ p \in job.take]_vars

\* A rebase accounts for every host file it saw and costs no staged work.
RebaseIsSafe == RebaseSettlesSeen /\ StagedWorkKeptUnlessRaced

\* Discarding never adds a change of its own, whatever interrupts it: what a
\* serving executor holds in staging was written by a tool or was on the host.
DiscardAddsNothing ==
    \A p \in Paths : exec = "serving" => work[p] \in toolWrote[p] \cup HostPast(p)
=============================================================================
