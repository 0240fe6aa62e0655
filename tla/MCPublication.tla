--------------------------- MODULE MCPublication ---------------------------
(***************************************************************************)
(* Small instances of Publication for TLC, with two paths.  A behaviour is *)
(* either the composition with the broker's steps, or Staging alone, where *)
(* a publication is one step and the user also puts old versions back.     *)
(***************************************************************************)
EXTENDS Publication

CONSTANTS c1, c2

VARIABLE part

\* Path 1 exists on the host at first and path 2 does not.  Staging alone does
\* not record what the user writes: any file may be the user's.
MCInit ==
    /\ part \in {"publication", "staging"}
    /\ StagingInit /\ BatchInit /\ clash = {}
    /\ userWrote = IF part = "staging" THEN Paths ELSE {}
    /\ written = [p \in Paths |-> IF p = 1 THEN <<c1>> ELSE <<Absent>>]

\* Tools write at most one entry to each path; beside the broker either the
\* user writes one file once, or tools write a second entry to path 1.
Rewritten == \E p \in Paths : Cardinality(toolWrote[p]) > 1

FewWrites ==
    \A p \in Paths :
        \/ Cardinality(toolWrote'[p]) <= 1
        \/ part = "publication" /\ p = 1 /\ userWrote = {} /\ Cardinality(toolWrote'[p]) = 2

PublicationStep ==
    \/ PubManifest \/ (\E m \in offers : Approve(m)) \/ Publish \/ PubReceipt
    \/ PubRebase \/ PubProcess \/ PubDesktopCrash
    \/ PubUser /\ userWrote = {} /\ ~Rewritten
    \/ PubTool /\ FewWrites

StagingStep ==
    /\ \/ UserStep \/ DesktopStep \/ RebaseStep \/ Crash \/ StartResume
       \/ ToolStep /\ FewWrites
    /\ UNCHANGED <<brokerVars, pubVars>>

MCNext ==
    /\ UNCHANGED part
    /\ \/ part = "publication" /\ PublicationStep
       \/ part = "staging" /\ StagingStep

MCSpec == MCInit /\ [][MCNext]_<<allVars, part>>
=============================================================================
