------------------------------ MODULE Runtime ------------------------------
(***************************************************************************)
(* The desktop's Docker runtime: the selected workspace and its network    *)
(* mode (RuntimeService), the thread that restarts the containers and the  *)
(* one that installs dependencies (RuntimeManager, RuntimeWorker,          *)
(* SetupWorker), the health poll, and the workspace policy (PolicyService).*)
(*                                                                         *)
(* Slots run on the user-interface thread.  Worker threads post signals,   *)
(* which are delivered in order, some time later.  The app manages the     *)
(* runtime itself ("automatic"); the confirmation dialog is modal.         *)
(***************************************************************************)
EXTENDS Naturals, Sequences, FiniteSets

CONSTANTS
    Folders,      \* workspaces
    Saved,        \* the one selected when the app starts
    OpenFolders,  \* those whose confirmed policy allows registry access
    MaxBoots,     \* bound: restarts of the runtime
    MaxActs,      \* bound: things the user does
    MaxHostEdits  \* bound: edits of manifests and policies, and Docker failures

ASSUME RuntimeBounds ==
    /\ MaxBoots \in Nat /\ MaxActs \in Nat /\ MaxHostEdits \in Nat
    /\ Saved \in Folders /\ OpenFolders \subseteq Folders

VARIABLES
    sel,        \* RuntimeService.workspace_path
    netMode,    \* RuntimeService.network_mode
    svc,        \* its state, target_identity, and the workspace last_status serves
    boots,      \* RuntimeWorkers by number: workspace, network mode, step
    boot,       \* RuntimeManager.worker: its number, 0 for none
    session,    \* RuntimeManager.session: number of the boot that made it, or 0
    posted,     \* signals on their way to the user-interface thread
    live,       \* containers in Docker: number of the boot that started them, or 0
    probe,      \* the health worker, and whether a recheck was asked for
    agentRun,   \* a run is active (GenerationService.running)
    leaving,    \* guard_leave: the workspace to switch to once staging is inspected
    prompt,     \* the confirmation dialog
    policyFile, \* the policy on the host
    policyOn,   \* the confirmed policy
    manifests,  \* version of the dependency manifests on the host
    recorded,   \* the version setup_digest stands for, 0 for never
    installed,  \* versions installed, by workspace
    setup,      \* the setup worker
    crossed,    \* a dialog was open while the workspace changed
    aborted,    \* a QThread was destroyed while it ran: Qt ends the process
    acts, hostEdits

uiVars == <<sel, netMode, svc, agentRun, leaving, prompt, crossed>>
bootVars == <<boots, boot, session, live>>
policyVars == <<policyFile, policyOn, manifests, recorded, installed, setup>>
runtimeVars == <<uiVars, bootVars, policyVars, posted, probe, aborted, acts, hostEdits>>

Nothing == "none"
NoPrompt == [what |-> Nothing, ws |-> Nothing, policy |-> Nothing]
NoProbe == [out |-> FALSE, served |-> Nothing, again |-> FALSE]
NoSetup == [ws |-> Nothing, at |-> Nothing, saw |-> 0]

Over(b) == boots[b].step \in {"ended", "stopped"}
Post(signals) == posted' = posted \o signals

\* workspace_ready
WorkspaceReady == svc.state = "ready" /\ sel # Nothing /\ svc.served = sel
\* The session token file names the newest boot that wrote one.
TokenFile == LET S == {b \in DOMAIN boots : boots[b].step # "new"}
             IN  IF S = {} THEN 0 ELSE CHOOSE b \in S : \A c \in S : c <= b

-----------------------------------------------------------------------------
(* RuntimeManager.ensure                                                   *)

\* stop_worker and stop_setup: both threads are asked to stop and waited for,
\* then terminated.  The last signal of the old one is `finished`.
Ensure(w, n) ==
    LET old == boot # 0 /\ ~Over(boot)
        new == Len(boots) + 1
    IN  /\ Len(boots) < MaxBoots
        /\ boots' = Append([b \in DOMAIN boots |->
                              IF old /\ b = boot THEN [boots[b] EXCEPT !.step = "stopped"]
                              ELSE boots[b]],
                           [ws |-> w, net |-> n, step |-> "new"])
        /\ boot' = new /\ session' = 0
        /\ Post(IF old THEN <<[sig |-> "finished", by |-> boot]>> ELSE <<>>)
        /\ setup' = NoSetup
        /\ UNCHANGED live

\* select_workspace
SelectWorkspace(w) ==
    /\ sel' = w /\ netMode' = "none"
    /\ svc' = [state |-> "busy", target |-> w, served |-> Nothing]
    /\ crossed' = (crossed \/ (prompt # NoPrompt /\ w # sel))
    /\ Ensure(w, "none")

\* retry: the state only changes with the worker's first progress signal.
Restart ==
    /\ svc' = [svc EXCEPT !.target = sel]
    /\ Ensure(sel, netMode')

-----------------------------------------------------------------------------
(* RuntimeWorker.run: one step per Docker command.                         *)

Signal(s, b) == [sig |-> s, by |-> b]
\* A Docker command takes seconds, the delivery of a signal milliseconds: no
\* command ends before the signals posted earlier have arrived.
Caught == posted = <<>>

BootStep(b) ==
    /\ Caught
    /\ LET to(step) == boots' = [boots EXCEPT ![b].step = step]
       IN  \/ /\ boots[b].step = "new" /\ to("down")
              /\ Post(<<Signal("progress", b)>>) /\ UNCHANGED live
           \/ /\ boots[b].step = "down" /\ to("up")
              /\ live' = 0 /\ UNCHANGED posted
           \/ /\ boots[b].step = "up" /\ to("wait")
              /\ live' = b /\ Post(<<Signal("progress", b)>>)
           \/ /\ boots[b].step = "wait" /\ to("ended")
              /\ live = b
              /\ Post(<<Signal("ready", b), Signal("finished", b)>>) /\ UNCHANGED live
    /\ UNCHANGED <<uiVars, boot, session, policyVars, probe, aborted, acts, hostEdits>>

\* A command fails, or the gateway does not answer for the workspace in time.
BootFails(b) ==
    /\ Caught /\ ~Over(b)
    /\ boots' = [boots EXCEPT ![b].step = "ended"]
    /\ Post(<<Signal("failed", b), Signal("finished", b)>>)
    /\ UNCHANGED <<uiVars, boot, session, live, policyVars, probe, aborted, acts, hostEdits>>

\* Docker Desktop quits, or the containers are stopped by hand.
ContainersDie ==
    /\ live # 0 /\ live' = 0
    /\ hostEdits < MaxHostEdits /\ hostEdits' = hostEdits + 1
    /\ UNCHANGED <<uiVars, boots, boot, session, policyVars, posted, probe, aborted, acts>>

-----------------------------------------------------------------------------
(* Signals arrive.                                                         *)

\* check_gateway, by the timer or when asked: the gateway answers with the
\* workspace it serves, if it accepts the token of the session file.
Reading == [NoProbe EXCEPT !.out = TRUE,
              !.served = IF live # 0 /\ live = TokenFile THEN boots[live].ws ELSE Nothing]

CheckGateway ==
    /\ Caught /\ ~probe.out /\ probe' = Reading
    /\ UNCHANGED <<uiVars, bootVars, policyVars, posted, aborted, acts, hostEdits>>

HealthAfterFirst(served) == IF svc.served # Nothing THEN svc.served ELSE served
HealthAfter(served) == served

\* setup_plan: the manifests are not those of the last setup that succeeded.
SetupNeeded == recorded[sel] # manifests[sel]
\* offer_setup; once it was offered for these manifests, it may not be again.
MayOfferSetup == ~agentRun /\ leaving = Nothing /\ setup = NoSetup /\ SetupNeeded

\* apply_health: not while the runtime is being restarted.  A ready workspace
\* with dependencies to install is offered the setup.
ProbeArrives ==
    /\ probe.out
    /\ probe' = IF probe.again THEN Reading ELSE NoProbe
    /\ svc' = IF svc.state = "busy" THEN svc
              ELSE [svc EXCEPT !.served = HealthAfter(probe.served)]
    /\ \/ UNCHANGED prompt
       \/ /\ svc'.state = "ready" /\ svc'.served = sel /\ MayOfferSetup
          /\ prompt' = [what |-> "setup", ws |-> sel, policy |-> Nothing]
    /\ UNCHANGED <<sel, netMode, agentRun, leaving, crossed, bootVars, policyVars,
                   posted, aborted, acts, hostEdits>>

\* _setup_finished of PolicyService: whichever workspace is selected now.
RecordSetup == recorded' = [recorded EXCEPT ![sel] = manifests[sel]]

\* RuntimeManager._ready keeps the session whatever its target; the service
\* looks at the target.
OnReady(b) ==
    /\ session' = b
    /\ IF boots[b].ws = svc.target
       THEN /\ svc' = [svc EXCEPT !.state = "ready", !.served = Nothing]
            /\ probe' = [probe EXCEPT !.again = @ \/ probe.out]
       ELSE UNCHANGED <<svc, probe>>

\* RuntimeManager._failed
OnFailed == svc' = [svc EXCEPT !.state = "failed", !.served = Nothing]

\* RuntimeManager._finished deletes the manager's worker, whichever finished.
OnFinished == aborted' = (boot # 0 /\ ~Over(boot)) /\ boot' = 0

Deliver ==
    /\ posted # <<>> /\ posted' = Tail(posted)
    /\ LET e == Head(posted)
       IN  \/ /\ e.sig = "progress"
              /\ svc' = [svc EXCEPT !.state = "busy", !.served = Nothing]
              /\ UNCHANGED <<boot, session, probe, recorded, aborted>>
           \/ /\ e.sig = "ready" /\ OnReady(e.by)
              /\ UNCHANGED <<boot, recorded, aborted>>
           \/ /\ e.sig = "failed" /\ OnFailed
              /\ UNCHANGED <<boot, session, probe, recorded, aborted>>
           \/ /\ e.sig = "finished" /\ OnFinished
              /\ UNCHANGED <<svc, session, probe, recorded>>
           \/ /\ e.sig = "installed" /\ RecordSetup
              /\ UNCHANGED <<svc, boot, session, probe, aborted>>
    /\ UNCHANGED <<sel, netMode, agentRun, leaving, prompt, crossed, boots, live,
                   policyFile, policyOn, manifests, installed, setup, acts,
                   hostEdits>>

-----------------------------------------------------------------------------
(* The user.  Everything but answering waits for the dialog to close.      *)

Act == prompt = NoPrompt /\ acts < MaxActs /\ acts' = acts + 1
Answer == prompt # NoPrompt /\ prompt' = NoPrompt /\ UNCHANGED acts

\* selectWorkspace: refused during a run or a staging request; another
\* workspace waits until the staged changes of a ready one are inspected.
UserSelects(w) ==
    /\ Act /\ ~agentRun /\ leaving = Nothing
    /\ IF w = sel \/ ~WorkspaceReady
       THEN SelectWorkspace(w) /\ UNCHANGED leaving
       ELSE leaving' = w /\ UNCHANGED <<sel, netMode, svc, crossed, bootVars, setup, posted>>
    /\ UNCHANGED <<agentRun, prompt, policyFile, policyOn, manifests, recorded,
                   installed, probe, aborted, hostEdits>>

\* resolve_leave: nothing is asked again; or the user stays.
Leave ==
    /\ leaving # Nothing /\ leaving' = Nothing
    /\ \/ SelectWorkspace(leaving)
       \/ UNCHANGED <<sel, netMode, svc, crossed, bootVars, setup, posted>>
    /\ UNCHANGED <<agentRun, prompt, policyFile, policyOn, manifests, recorded,
                   installed, probe, aborted, acts, hostEdits>>

\* Retry is offered after a failure; Registries is switched off when idle.
UserRestarts ==
    /\ Act /\ sel # Nothing
    /\ \/ svc.state = "failed" /\ UNCHANGED netMode
       \/ netMode = "registries" /\ ~agentRun /\ netMode' = "none"
    /\ Restart
    /\ UNCHANGED <<sel, agentRun, leaving, prompt, crossed, policyFile, policyOn,
                   manifests, recorded, installed, probe, aborted, hostEdits>>

RunStartsOrEnds ==
    /\ \/ ~agentRun /\ WorkspaceReady /\ agentRun' = TRUE /\ Act
       \/ agentRun /\ agentRun' = FALSE /\ UNCHANGED acts
    /\ UNCHANGED <<sel, netMode, svc, leaving, prompt, crossed, bootVars, policyVars,
                   posted, probe, aborted, hostEdits>>

MayAskSoon(what) ==
    CASE what = "registries" -> ~agentRun /\ policyOn[sel] = "open"
      [] what = "policy"     -> policyFile[sel] # policyOn[sel]
      [] what = "setup"      -> ~agentRun /\ leaving = Nothing /\ setup = NoSetup

\* request_setup: a ready workspace and nothing under way.
MayRequestSetup ==
    WorkspaceReady /\ ~agentRun /\ leaving = Nothing /\ setup = NoSetup

\* request_registry_access, request_confirm and request_setup: what is asked,
\* and when it may be.
MayAsk(what) ==
    CASE what = "registries" -> ~agentRun /\ policyOn[sel] = "open"
      [] what = "policy"     -> policyFile[sel] # policyOn[sel]
      [] what = "setup"      -> MayRequestSetup

UserAsks(what) ==
    /\ Act /\ sel # Nothing /\ MayAsk(what)
    /\ prompt' = [what |-> what, ws |-> sel,
                  policy |-> IF what = "policy" THEN policyFile[sel] ELSE Nothing]
    /\ UNCHANGED <<sel, netMode, svc, agentRun, leaving, crossed, bootVars, policyVars,
                   posted, probe, aborted, hostEdits>>

UserDeclines ==
    /\ Answer
    /\ UNCHANGED <<sel, netMode, svc, agentRun, leaving, crossed, bootVars, policyVars,
                   posted, probe, aborted, hostEdits>>

AcceptRegistries ==
    /\ prompt.what = "registries" /\ Answer
    /\ netMode' = "registries"
    /\ IF netMode = "registries" THEN UNCHANGED <<svc, bootVars, setup, posted>>
       ELSE Restart
    /\ UNCHANGED <<sel, agentRun, leaving, crossed, policyFile, policyOn, manifests,
                   recorded, installed, probe, aborted, hostEdits>>

\* PolicyService._apply and restart_for_policy: the file is read again; losing
\* registry access, or a change of a runtime field, restarts an idle runtime.
AcceptPolicy ==
    /\ prompt.what = "policy" /\ Answer
    /\ IF policyFile[sel] # prompt.policy
       THEN UNCHANGED <<policyOn, netMode, svc, bootVars, setup, posted>>
       ELSE /\ policyOn' = [policyOn EXCEPT ![sel] = prompt.policy]
            /\ netMode' = IF prompt.policy = "open" THEN netMode ELSE "none"
            /\ \/ ~agentRun /\ leaving = Nothing /\ Restart
               \/ /\ netMode' = netMode \/ agentRun \/ leaving # Nothing
                  /\ UNCHANGED <<svc, bootVars, setup, posted>>
    /\ UNCHANGED <<sel, agentRun, leaving, crossed, policyFile, manifests, recorded,
                   installed, probe, aborted, hostEdits>>

\* RuntimeManager.run_setup, in the volumes of the session and with the
\* manifests of the workspace that is selected.
RunSetup ==
    IF setup # NoSetup \/ session = 0 THEN setup
    ELSE [ws |-> boots[session].ws, at |-> sel, saw |-> manifests[sel]]

AcceptSetup ==
    /\ prompt.what = "setup" /\ Answer
    /\ setup' = RunSetup
    /\ UNCHANGED <<sel, netMode, svc, agentRun, leaving, crossed, bootVars, policyFile,
                   policyOn, manifests, recorded, installed, posted, probe, aborted,
                   hostEdits>>

SetupEnds ==
    /\ setup # NoSetup /\ setup' = NoSetup
    /\ \/ /\ installed' = installed \cup {<<setup.at, setup.saw>>}
          /\ Post(<<Signal("installed", 0)>>)
       \/ UNCHANGED <<installed, posted>>
    /\ UNCHANGED <<uiVars, bootVars, policyFile, policyOn, manifests, recorded, probe,
                   aborted, acts, hostEdits>>

\* The user, or a publication, changes the manifests or the policy.
HostChanges ==
    /\ hostEdits < MaxHostEdits /\ hostEdits' = hostEdits + 1
    /\ \E w \in Folders :
          \/ manifests' = [manifests EXCEPT ![w] = @ + 1] /\ UNCHANGED policyFile
          \/ /\ \E p \in {"closed", "open"} : policyFile' = [policyFile EXCEPT ![w] = p]
             /\ UNCHANGED manifests
    /\ UNCHANGED <<uiVars, bootVars, policyOn, recorded, installed, setup, posted,
                   probe, aborted, acts>>

-----------------------------------------------------------------------------

\* The app is closed, a workspace saved in its settings.
RuntimeInit ==
    /\ sel = Saved /\ netMode = "none"
    /\ svc = [state |-> "closed", target |-> Nothing, served |-> Nothing]
    /\ boots = <<>> /\ boot = 0 /\ session = 0 /\ posted = <<>> /\ live = 0
    /\ probe = NoProbe /\ agentRun = FALSE /\ leaving = Nothing /\ prompt = NoPrompt
    /\ policyFile = [w \in Folders |-> "closed"]
    /\ policyOn = [w \in Folders |-> IF w \in OpenFolders THEN "open" ELSE "closed"]
    /\ manifests = [w \in Folders |-> 1] /\ recorded = [w \in Folders |-> 0]
    /\ installed = {} /\ setup = NoSetup /\ crossed = FALSE /\ aborted = FALSE
    /\ acts = 0 /\ hostEdits = 0

\* __init__, start and _start_for_saved_workspace
AppStarts ==
    /\ svc.state = "closed"
    /\ svc' = [state |-> "busy", target |-> sel, served |-> Nothing]
    /\ Ensure(sel, netMode)
    /\ UNCHANGED <<sel, netMode, agentRun, leaving, prompt, crossed, policyFile, policyOn,
                   manifests, recorded, installed, probe, aborted, acts, hostEdits>>

Booting == ~aborted /\ \E b \in DOMAIN boots : BootStep(b)
TimesOut == ~aborted /\ \E b \in DOMAIN boots :
               boots[b].step = "wait" /\ live # b /\ BootFails(b)

Machine == Booting \/ (~aborted /\ (Deliver \/ ProbeArrives \/ SetupEnds))

Faults ==
    /\ ~aborted
    /\ \/ \E b \in DOMAIN boots : BootFails(b)
       \/ ContainersDie

User ==
    /\ ~aborted /\ svc.state # "closed"
    /\ \/ \E w \in Folders : UserSelects(w)
       \/ Leave \/ UserRestarts \/ RunStartsOrEnds \/ UserDeclines
       \/ \E what \in {"registries", "policy", "setup"} : UserAsks(what)
       \/ AcceptRegistries \/ AcceptPolicy \/ AcceptSetup \/ HostChanges

Poll == ~aborted /\ svc.state # "closed" /\ CheckGateway

RuntimeNext == AppStarts \/ Machine \/ Faults \/ User \/ Poll

\* Docker commands end or time out, the event loop runs, the timer fires, and
\* a run does not last for ever.
RuntimeSpec ==
    /\ RuntimeInit /\ [][RuntimeNext]_runtimeVars
    /\ WF_runtimeVars(Booting) /\ WF_runtimeVars(TimesOut)
    /\ WF_runtimeVars(~aborted /\ Deliver) /\ WF_runtimeVars(~aborted /\ ProbeArrives)
    /\ WF_runtimeVars(Poll)
    /\ WF_runtimeVars(~aborted /\ agentRun /\ RunStartsOrEnds)

-----------------------------------------------------------------------------

\* Registry access is only ever on in a workspace whose confirmed policy allows
\* it: switching the workspace or confirming a policy without it takes it away.
\* (Unless the workspace changed under an open dialog.)
RegistriesAllowed ==
    netMode = "registries" => policyOn[sel] = "open" \/ crossed

\* A setup runs in the volumes of the workspace whose manifests it is given:
\* the session kept for it is never another workspace's, whichever runtime
\* became ready late.
SetupAtHome == setup # NoSetup => setup.ws = setup.at

\* What a workspace's policy allows, and what a setup installs, stays with that
\* workspace, whatever is switched while workers, probes and dialogs are open.
RuntimeAtHome == RegistriesAllowed /\ SetupAtHome

\* Preparing the runtime ends, ready or failed, whatever was selected meanwhile
\* (or in Qt's abort, when a finished thread's signal met its successor).
RuntimeSettles == svc.state = "busy" ~> svc.state # "busy" \/ aborted

\* A workspace shown as ready whose containers are gone, or serve another one,
\* is found out by the health poll.
LostRuntimeIsSeen ==
    (WorkspaceReady /\ (live = 0 \/ boots[live].ws # sel))
    ~> \/ ~WorkspaceReady \/ aborted
       \/ live # 0 /\ boots[live].ws = sel

\* The service's view of the runtime converges to what Docker runs.
RuntimeConverges == RuntimeSettles /\ LostRuntimeIsSeen

\* Confirming a policy without registry access restarts the runtime without it
\* (docs/EGRESS.md).
RegistriesEnd ==
    (live # 0 /\ boots[live].net = "registries" /\ policyOn[boots[live].ws] # "open")
    ~> \/ aborted \/ live = 0 \/ boots[live].net = "none"
       \/ policyOn[boots[live].ws] = "open"

\* A setup is on record for a version of the manifests only if that version was
\* installed there.
SetupRecordTrue ==
    \A w \in Folders : recorded[w] # 0 => <<w, recorded[w]>> \in installed
=============================================================================
