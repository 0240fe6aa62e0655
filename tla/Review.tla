------------------------------- MODULE Review -------------------------------
(***************************************************************************)
(* The desktop's review pane and declared checks                           *)
(* (src/src/desktop/staging_publication.py, with the gateway's staging     *)
(* requests behind it): reviews that arrive late, the selection kept       *)
(* across them, checks tied to the fingerprint of staging, discards        *)
(* confirmed after the fact, and an Auto publication that has to find its  *)
(* required check passed. How a batch is confirmed, written and continued  *)
(* is PublicationService's subject.                                        *)
(*                                                                         *)
(* A file's content is a number; the fingerprint of staging is its         *)
(* contents. One check is declared and required.                           *)
(***************************************************************************)
EXTENDS Integers, FiniteSets

CONSTANTS
    PaneFiles,      \* files of the workspace, numbers for their order
    MaxListed,      \* max_results of a review
    MaxAgentRuns,   \* runs started
    MaxRequests     \* checks, reviews, discards and publish requests

VARIABLES
    stagedFiles,       \* staging: file -> content
    basis,      \* the baseline: file -> content
    agent,      \* the active run: "none", "asks" or "auto"
    command,    \* the check's command in the confirmed policy
    result,     \* the gateway's recorded check result
    check,      \* check_worker and its request
    review,     \* review_worker and its request
    pane,       \* review_data and review_selection
    ask,        \* action_worker: a publish request of the pane
    drop,       \* discard_worker: "none", "asked" (the dialog), "sent", "done"
    pub,        \* the publication worker
    spent       \* [runs, requests]: counters of the bounds

paneVars == <<pane, review>>
reviewVars == <<stagedFiles, basis, agent, command, result, check, paneVars, ask, drop, pub, spent>>

\* staged_fingerprint: the identity of what is staged.
Fingerprint == stagedFiles
Unpublished == {f \in PaneFiles : stagedFiles[f] # basis[f]}
NoResult == [ok |-> FALSE, fingerprint |-> <<>>, command |-> 0]
NoCheck == [at |-> "none", before |-> <<>>, ran |-> <<>>, command |-> 0]
NoReview == [at |-> "none", listed |-> {}, pending |-> {}]
ClosedPane == [open |-> FALSE, listed |-> {}, pending |-> {}, selected |-> {}]
NoAsk == [at |-> "none", paths |-> {}, chosen |-> {}, seen |-> {}, files |-> {}]
\* raced: staging was changed under the check or the publication it is used for.
NoPub == [at |-> "none", auto |-> FALSE, files |-> <<>>, raced |-> FALSE]

Requests == /\ spent.requests < MaxRequests
            /\ spent' = [spent EXCEPT !.requests = @ + 1]

\* Staging is changed: what a check or an Auto publication under way had read is not what
\* is there now.
Racing(changed) ==
    pub' = [pub EXCEPT !.raced = \/ @
                                 \/ /\ changed # stagedFiles
                                    /\ pub.at # "none" \/ check.at # "none"]

PaneBusy == check.at # "none" \/ ask.at = "sent" \/ drop \in {"sent", "done"} \/ pub.at # "none"
-----------------------------------------------------------------------------
(***************************************************************************)
(* Runs and the policy.                                                    *)
(***************************************************************************)
\* send_message is refused only while a publication runs; the gateway refuses an Auto run on
\* staging that is not clean.
AgentStarts(kind) ==
    /\ agent = "none" /\ pub.at = "none" /\ spent.runs < MaxAgentRuns
    /\ kind = "auto" => Unpublished = {}
    /\ agent' = kind /\ spent' = [spent EXCEPT !.runs = @ + 1]
    /\ UNCHANGED <<stagedFiles, basis, command, result, check, paneVars, ask, drop, pub>>

AgentEdits(f, content) ==
    /\ agent # "none"
    /\ stagedFiles' = [stagedFiles EXCEPT ![f] = content] /\ Racing(stagedFiles')
    /\ UNCHANGED <<basis, agent, command, result, check, paneVars, ask, drop, spent>>

\* The run ends; an Auto run's manifest starts a publication at once (handle_manifest).
AgentFinishes ==
    /\ agent # "none" /\ agent' = "none"
    /\ pub' = IF agent = "auto" /\ Unpublished # {} /\ pub.at = "none"
              THEN [at |-> "verify", auto |-> TRUE, raced |-> check.at # "none",
                    files |-> [f \in Unpublished |-> stagedFiles[f]]]
              ELSE pub
    /\ UNCHANGED <<stagedFiles, basis, command, result, check, paneVars, ask, drop, spent>>

\* The user confirms a policy with another command for the check.
PolicyConfirmed ==
    /\ command = 1 /\ command' = 2
    /\ UNCHANGED <<stagedFiles, basis, agent, result, check, paneVars, ask, drop, pub, spent>>
-----------------------------------------------------------------------------
(***************************************************************************)
(* Reviews.                                                                *)
(***************************************************************************)
\* open_review as the refresh after a check or a publication: nothing while a review is
\* under way.
Refreshed == IF pane.open /\ review.at = "none" THEN [NoReview EXCEPT !.at = "sent"] ELSE review

\* open_review from its buttons, which are disabled while staging is busy (Main.qml).
OpenReview ==
    /\ review.at = "none" /\ ~PaneBusy /\ Requests
    /\ review' = [NoReview EXCEPT !.at = "sent"]
    /\ UNCHANGED <<stagedFiles, basis, agent, command, result, check, pane, ask, drop, pub>>

\* review in the executor: the first changes, by path.
Listed == {f \in Unpublished : Cardinality({g \in Unpublished : g < f}) < MaxListed}

\* review_staging in the gateway; or an error.
ReviewAnswers(ok) ==
    /\ review.at = "sent"
    /\ review' = IF ok THEN [at |-> "read", pending |-> Unpublished, listed |-> Listed]
                 ELSE NoReview
    /\ UNCHANGED <<stagedFiles, basis, agent, command, result, check, pane, ask, drop, pub, spent>>

\* _on_reviewed: the user's choices are kept, files that are new are selected.
OnReviewed ==
    /\ review.at = "read" /\ review' = NoReview
    /\ pane' = [open |-> TRUE, listed |-> review.listed, pending |-> review.pending,
                selected |-> IF pane.open
                             THEN (pane.selected \cap review.listed)
                                    \cup (review.listed \ pane.listed)
                             ELSE review.listed]
    /\ UNCHANGED <<stagedFiles, basis, agent, command, result, check, ask, drop, pub, spent>>

\* close_review, set_review_selected, set_review_all.
OnPane(selected, open) ==
    /\ pane.open
    /\ pane' = IF open THEN [pane EXCEPT !.selected = selected] ELSE ClosedPane
    /\ UNCHANGED <<stagedFiles, basis, agent, command, result, check, review, ask, drop, pub,
                   spent>>

PaneClick ==
    \/ OnPane({}, FALSE)
    \/ \E selected \in {{}, pane.listed} : OnPane(selected, TRUE)
    \/ \E f \in pane.listed : OnPane((pane.selected \ {f}) \cup ({f} \ pane.selected), TRUE)
-----------------------------------------------------------------------------
(***************************************************************************)
(* Publishing the selection.                                               *)
(***************************************************************************)
\* The paths of publish_selection: none (every file) when all of a complete review is
\* selected.
PathsOf(chosen) ==
    IF chosen = pane.listed /\ pane.listed = pane.pending THEN PaneFiles ELSE chosen

PublishSelection ==
    /\ agent = "none" /\ ~PaneBusy /\ ask.at = "none" /\ Requests
    /\ LET chosen == pane.selected \cap pane.listed
       IN /\ chosen # {}
          /\ ask' = [at |-> "sent", paths |-> PathsOf(chosen), chosen |-> chosen,
                     seen |-> pane.pending, files |-> {}]
    /\ UNCHANGED <<stagedFiles, basis, agent, command, result, check, paneVars, drop, pub>>

\* staged_publication: refused while a run is active or when a selected file has no change;
\* then confirm_publication, or nothing to publish.
PublicationAnswers ==
    /\ ask.at = "sent"
    /\ ask' = IF agent = "none" /\ Unpublished \cap ask.paths # {}
                    /\ (ask.paths = PaneFiles \/ ask.paths \subseteq Unpublished)
              THEN [ask EXCEPT !.at = "confirm", !.files = Unpublished \cap ask.paths]
              ELSE NoAsk
    /\ UNCHANGED <<stagedFiles, basis, agent, command, result, check, paneVars, drop, pub, spent>>

\* The confirmation is accepted, when no publication is running, or dismissed.
Confirmed(accept) ==
    /\ ask.at = "confirm" /\ ask' = NoAsk
    /\ pub' = IF accept /\ pub.at = "none"
              THEN [at |-> "write", auto |-> FALSE, files |-> [f \in ask.files |-> stagedFiles[f]],
                    raced |-> FALSE]
              ELSE pub
    /\ UNCHANGED <<stagedFiles, basis, agent, command, result, check, paneVars, drop, spent>>
-----------------------------------------------------------------------------
(***************************************************************************)
(* Checks.                                                                 *)
(***************************************************************************)
RunCheck ==
    /\ ~PaneBusy /\ agent = "none" /\ Requests
    /\ check' = [NoCheck EXCEPT !.at = "sent"]
    /\ UNCHANGED <<stagedFiles, basis, agent, command, result, paneVars, ask, drop, pub>>

\* run_check in the gateway, refused while a run is active, and the fingerprint the executor
\* takes first.
CheckBegins ==
    /\ check.at = "sent"
    /\ check' = IF agent # "none" THEN [check EXCEPT !.at = "done"]
                ELSE [at |-> "begun", before |-> Fingerprint, ran |-> <<>>, command |-> command]
    /\ UNCHANGED <<stagedFiles, basis, agent, command, result, paneVars, ask, drop, pub, spent>>

\* Its checkpoint, then the command.
CheckRuns ==
    /\ check.at = "begun" /\ check' = [check EXCEPT !.at = "run", !.ran = stagedFiles]
    /\ UNCHANGED <<stagedFiles, basis, agent, command, result, paneVars, ask, drop, pub, spent>>

\* save_check_result: the latest result, with the fingerprint and the command it ran with.
Recorded(ok) == [ok |-> ok, fingerprint |-> check.before, command |-> check.command]

\* The checkpoint is restored and the result recorded; or the request fails.
CheckEnds(outcome) ==
    /\ check.at = "run" /\ check' = [check EXCEPT !.at = "done"]
    /\ IF outcome = "error" THEN UNCHANGED <<stagedFiles, result, pub>>
       ELSE /\ stagedFiles' = check.ran /\ Racing(stagedFiles')
            /\ result' = Recorded(outcome = "passed")
    /\ UNCHANGED <<basis, agent, command, paneVars, ask, drop, spent>>

\* _on_check_finished
CheckFinished ==
    /\ check.at = "done" /\ check' = NoCheck /\ review' = Refreshed
    /\ UNCHANGED <<stagedFiles, basis, agent, command, result, pane, ask, drop, pub, spent>>

\* check_results: a result counts for the fingerprint and the command it ran with.
CurrentForCommand == result.command = command
Current == result.fingerprint = Fingerprint /\ result.command = command
-----------------------------------------------------------------------------
(***************************************************************************)
(* Discarding, and the publication.                                        *)
(***************************************************************************)
\* request_discard: its guards hold when the dialog is opened, not when it is accepted.
RequestDiscard ==
    /\ drop = "none" /\ agent = "none" /\ ~PaneBusy /\ Requests /\ drop' = "asked"
    /\ UNCHANGED <<stagedFiles, basis, agent, command, result, check, paneVars, ask, pub>>

ResolveDiscard(accept) ==
    /\ drop = "asked" /\ drop' = IF accept THEN "sent" ELSE "none"
    /\ UNCHANGED <<stagedFiles, basis, agent, command, result, check, paneVars, ask, pub, spent>>

DiscardAnswers(ok) ==
    /\ drop = "sent" /\ drop' = "done"
    /\ stagedFiles' = IF ok THEN basis ELSE stagedFiles
    /\ Racing(stagedFiles')
    /\ UNCHANGED <<basis, agent, command, result, check, paneVars, ask, spent>>

\* _on_discard_finished
DiscardFinished ==
    /\ drop = "done" /\ drop' = "none"
    /\ UNCHANGED <<stagedFiles, basis, agent, command, result, check, paneVars, ask, pub, spent>>

\* _verify_checks, for Auto: the review is read again.
VerifyChecks ==
    /\ pub.at = "verify"
    /\ pub' = IF result.ok /\ Current THEN [pub EXCEPT !.at = "write"] ELSE NoPub
    /\ review' = IF result.ok /\ Current THEN review ELSE Refreshed
    /\ UNCHANGED <<stagedFiles, basis, agent, command, result, check, pane, ask, drop, spent>>

\* The batch is on the host and in the baseline, or failed; _on_publication_finished.
PublicationDone(ok) ==
    /\ pub.at = "write" /\ pub' = NoPub /\ review' = Refreshed
    /\ basis' = IF ok THEN [f \in PaneFiles |-> IF f \in DOMAIN pub.files THEN pub.files[f]
                                                ELSE basis[f]]
                ELSE basis
    /\ UNCHANGED <<stagedFiles, agent, command, result, check, pane, ask, drop, spent>>
-----------------------------------------------------------------------------
ReviewInit ==
    /\ stagedFiles = [f \in PaneFiles |-> 0] /\ basis = stagedFiles
    /\ agent = "none" /\ command = 1 /\ result = NoResult /\ check = NoCheck
    /\ review = NoReview /\ pane = ClosedPane /\ ask = NoAsk /\ drop = "none" /\ pub = NoPub
    /\ spent = [runs |-> 0, requests |-> 0]

\* The worker threads, the gateway's answers and the slots of the event loop.
WorkersStep ==
    \/ OnReviewed \/ PublicationAnswers \/ CheckBegins \/ CheckRuns \/ CheckFinished
    \/ DiscardFinished \/ VerifyChecks
    \/ \E ok \in BOOLEAN : ReviewAnswers(ok) \/ DiscardAnswers(ok) \/ PublicationDone(ok)
    \/ \E outcome \in {"passed", "failed", "error"} : CheckEnds(outcome)

ReviewNext ==
    \/ WorkersStep \/ AgentFinishes \/ PolicyConfirmed
    \/ \E kind \in {"asks", "auto"} : AgentStarts(kind)
    \/ \E f \in PaneFiles, content \in {0, 1} : AgentEdits(f, content)
    \/ OpenReview \/ PaneClick \/ PublishSelection \/ RunCheck \/ RequestDiscard
    \/ \E accept \in BOOLEAN : Confirmed(accept) \/ ResolveDiscard(accept)

ReviewSpec == ReviewInit /\ [][ReviewNext]_reviewVars
-----------------------------------------------------------------------------
(***************************************************************************)
(* Properties.                                                             *)
(***************************************************************************)
\* An Auto publication writes only what the required check, with the policy's command, has
\* passed on: the manifest's contents are those of the snapshot in the recorded result,
\* unless staging was changed under a check or between the manifest and its verification.
AutoIsVerifiedUnlessRaced ==
    pub.at = "write" /\ pub.auto /\ ~pub.raced =>
        /\ result.ok /\ result.fingerprint # <<>>
        /\ \A f \in DOMAIN pub.files : result.fingerprint[f] = pub.files[f]

\* The same, whatever races: "refuse an unattended publication whose required checks have
\* not passed against the staged snapshot being published" (_verify_checks).
AutoIsVerified ==
    pub.at = "write" /\ pub.auto =>
        \A f \in DOMAIN pub.files : result.fingerprint[f] = pub.files[f]

\* A change that was pending when the pane was loaded and is not among the files the user
\* chose is not in the manifest "Publish selected" asks for, truncated list or not.
OnlyChosenIsAsked == ask.at = "confirm" => ask.files \cap ask.seen \subseteq ask.chosen

\* Nothing at all but the chosen files is in it: "a manifest of exactly the selected paths"
\* (docs/PUBLICATION.md).
ExactlyChosenIsAsked == ask.at = "confirm" => ask.files \subseteq ask.chosen

\* Nothing is published past the user's word on it: neither the required check nor the
\* selection in the pane is got round by what happens meanwhile.
OnlyReviewedIsPublished == AutoIsVerifiedUnlessRaced /\ OnlyChosenIsAsked
=============================================================================
