----------------------------- MODULE Workspace -----------------------------
(***************************************************************************)
(* The selected host workspace: the only state that the user's own editors *)
(* and the desktop's publication broker both write and that the executor   *)
(* only reads (its bind mount is read-only).                               *)
(*                                                                         *)
(* A file is an entry: Absent, or a member of Contents standing for its    *)
(* sha256 digest (the mode, compared next to the digest, is left out).     *)
(* Every version a path ever had is kept in `written`, and `stamp` says    *)
(* which of them is on disk now.  The index doubles as the file's          *)
(* (size, mtime) signature: a new write gets a signature never seen        *)
(* before, and putting an old version back with its times preserved        *)
(* (cp -p, rsync -a, tar) brings its old signature back.                   *)
(***************************************************************************)
EXTENDS Naturals, Sequences

CONSTANTS
    Paths,      \* relative paths; their order is the code's path order
    Contents,   \* the sha256 digests a file can have
    Absent,     \* the entry of a file that does not exist
    MaxWrites   \* bound: versions of one host path

ASSUME PathsAreOrdered == Paths \subseteq Nat
ASSUME AbsentIsNoContent == Absent \notin Contents
ASSUME MaxWritesIsNat == MaxWrites \in Nat

VARIABLES
    written,    \* written[p]: every entry host path p has had, oldest first
    stamp       \* stamp[p]: index in written[p] of the version on disk

wsVars == <<written, stamp>>

Entry == Contents \cup {Absent}

\* PublishManifest: the snapshot it was built from and, per path, the base
\* entry the operation replaces and the staged entry it writes (an operation
\* with base Absent is a create, one with staged Absent a delete).
Op == [base : Entry, staged : Entry]
ManifestType == [id : Nat, ops : UNION {[S -> Op] : S \in SUBSET Paths}]

Host(p) == written[p][stamp[p]]

\* The entries host path p has had at some time.
HostPast(p) == {written[p][i] : i \in 1..Len(written[p])}

WorkspaceTypeOK ==
    /\ written \in [Paths -> Seq(Entry)]
    /\ stamp \in [Paths -> Nat \ {0}]
    /\ \A p \in Paths : stamp[p] <= Len(written[p])

WorkspaceInit ==
    /\ written \in [Paths -> {<<e>> : e \in Entry}]
    /\ stamp = [p \in Paths |-> 1]

\* Put new content on the host at every path of new's domain (each path gets
\* a fresh signature).
HostPut(new) ==
    /\ written' = [p \in Paths |-> IF p \in DOMAIN new
                                   THEN Append(written[p], new[p])
                                   ELSE written[p]]
    /\ stamp' = [p \in Paths |-> IF p \in DOMAIN new
                                 THEN Len(written[p]) + 1
                                 ELSE stamp[p]]

\* The user saves, creates or deletes a file of the workspace.
UserEdit(p, e) ==
    /\ Len(written[p]) < MaxWrites
    /\ e # Host(p)
    /\ HostPut([q \in {p} |-> e])

\* The user puts back an earlier version of a file with its times preserved.
UserRestore(p, i) ==
    /\ i \in 1..Len(written[p])
    /\ i # stamp[p]
    /\ written[p][i] # Absent
    /\ stamp' = [stamp EXCEPT ![p] = i]
    /\ UNCHANGED written
=============================================================================
