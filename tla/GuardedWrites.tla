--------------------------- MODULE GuardedWrites ---------------------------
(***************************************************************************)
(* How the gateway and the executor keep a run from destroying text it has *)
(* not read.  The gateway records, per file, the hash and the bytes a run  *)
(* has seen, and adds that hash to the run's mutations; the executor       *)
(* refuses a mutation whose hash is stale, and an unconfirmed replacement  *)
(* that drops most of a file (AgentRuntime._observe_files,                 *)
(* _executor_arguments; executor/tools/write.py, edit.py, apply_patch.py). *)
(*                                                                         *)
(* Every byte ever written has a number of its own, so a file is a         *)
(* sequence of bytes without repetition, and its hash is that sequence.    *)
(***************************************************************************)
EXTENDS Naturals, Sequences, FiniteSets, SequencesExt

CONSTANTS
    Files,
    GuardedSize,    \* the size from which guard_shrink looks at a file
    Initial,        \* the bytes each file holds at first
    Sizes,          \* how many bytes a write may bring
    MaxBytes,       \* bound: bytes ever written
    Patches         \* patches: sequences of operations without their bytes

\* A patch's writes are replacements: "an append cannot hide inside it".
ASSUME GuardBounds ==
    /\ GuardedSize \in Nat /\ Initial \in Nat /\ MaxBytes \in Nat /\ Sizes \subseteq Nat
    /\ Patches \subseteq Seq({"edit", "replace", "delete"})

VARIABLES
    content,    \* staging: the bytes of each file, Absent if there is none
    fresh,      \* bytes used so far
    seen,       \* SeenFile of each file of this run, or Unknown
    shown,      \* the bytes this run was shown or wrote itself
    passed,     \* bytes that stood alone between two such bytes
    did         \* the last call: what it was and what came of it

guardVars == <<content, fresh, seen, shown, passed, did>>

Absent == <<0>>
Unknown == [hash |-> Absent, covered |-> {}, complete |-> FALSE]
Whole(c) == [hash |-> c, covered |-> DOMAIN c, complete |-> TRUE]
Part(c) == [hash |-> c, covered |-> {}, complete |-> c = <<>>]
Exists(f) == content[f] # Absent
Bytes(n) == [i \in 1..n |-> fresh + i]

-----------------------------------------------------------------------------
(* The gateway's record.                                                   *)

\* _merge_coverage: ranges one byte apart are joined.
MergeCoverage(covered, first, last, size) ==
    LET all == covered \cup (first..last)
    IN  all \cup {p \in 1..size : p - 1 \in all /\ p + 1 \in all}

\* _coverage_complete
CoverageComplete(covered, size) == covered = 1..size

\* _fill_expected_hash: a replacement is confirmed by a complete record only,
\* anything else by a known hash.
Filled(record, kind) ==
    IF record = Unknown \/ (kind = "replace" /\ ~record.complete) THEN {}
    ELSE {record.hash}

AfterEditUnread(record, old, new) ==
    IF record.hash = old THEN Whole(new) ELSE Part(new)

\* _observe_files after an edit of `old` that made `new`.
AfterEdit(record, old, new) ==
    IF record.complete /\ record.hash = old THEN Whole(new) ELSE Part(new)

\* _observe_files after a write that appended.
AfterAppend(record, old, new) ==
    LET known == record # Unknown /\ record.hash = old
    IN  [hash |-> new,
         covered |-> MergeCoverage(IF known THEN record.covered ELSE {},
                                   Len(old) + 1, Len(new), Len(new)),
         complete |-> known /\ record.complete]

\* _observe_files after one operation on a file.
Observed(record, op, old, new) ==
    CASE op = "delete" -> Unknown
      [] op = "edit" -> AfterEdit(record, old, new)
      [] op = "append" /\ old # Absent -> AfterAppend(record, old, new)
      [] OTHER -> Whole(new)

-----------------------------------------------------------------------------
(* The executor's checks.                                                  *)

\* guard_shrink, for a replacement that also drops most lines or does not.
Shrinks(old, new, dropsLines) ==
    /\ old # Absent /\ dropsLines
    /\ Len(old) >= GuardedSize /\ 2 * Len(new) < Len(old)

\* check_expected_sha256
HashConflict(expected, old) == \E h \in expected : h # old

\* prepare_write: the code of the failure, or "ok".
WriteVerdict(op, old, expected, new, dropsLines) ==
    IF HashConflict(expected, old) THEN "conflict"
    ELSE IF op = "replace" /\ expected = {} /\ Shrinks(old, new, dropsLines)
         THEN "shrink"
    ELSE "ok"

\* prepare_edit, and the match apply_edit insists on: the edit names a byte
\* that must be in the file.
EditVerdict(old, expected, byte) ==
    IF old = Absent THEN "missing"
    ELSE IF HashConflict(expected, old) THEN "conflict"
    ELSE IF byte \notin Range(old) THEN "no_match"
    ELSE "ok"

\* _delete
DeleteVerdict(old, expected) ==
    IF old = Absent THEN "missing"
    ELSE IF HashConflict(expected, old) THEN "conflict"
    ELSE "ok"

\* _apply_one, or the tool called by itself.
Verdict(op, old, expected, new, dropsLines, byte) ==
    CASE op = "edit" -> EditVerdict(old, expected, byte)
      [] op = "delete" -> DeleteVerdict(old, expected)
      [] OTHER -> WriteVerdict(op, old, expected, new, dropsLines)

\* commit_write: an append to no file writes it.
Written(op, old, bytes) ==
    IF op = "append" /\ old # Absent THEN old \o bytes ELSE bytes

\* apply_edit: a byte is replaced or removed.
Edited(old, bytes, byte) ==
    LET i == CHOOSE i \in DOMAIN old : old[i] = byte
    IN  SubSeq(old, 1, i - 1) \o bytes \o SubSeq(old, i + 1, Len(old))

\* The file a successful operation leaves.
FileAfter(op, old, bytes, byte) ==
    CASE op = "edit" -> Edited(old, bytes, byte)
      [] op = "delete" -> Absent
      [] OTHER -> Written(op, old, bytes)

-----------------------------------------------------------------------------
(* Calls of the run.                                                       *)

Did(kind, f, out) == [kind |-> kind, file |-> f, out |-> out]
\* The bytes a run knows after it was shown or wrote more.
Learns(c, more) ==
    /\ shown' = shown \cup more
    /\ passed' = passed \cup
          {c[p] : p \in {p \in DOMAIN c : {p - 1, p + 1} \subseteq DOMAIN c
                           /\ {c[p - 1], c[p + 1]} \subseteq shown \cup more}}

\* The record a read starts from: a new one when the hash is another.
RecordFor(f) ==
    IF seen[f] = Unknown \/ seen[f].hash # content[f] THEN Part(content[f])
    ELSE seen[f]

Read(f, first, last) ==
    /\ Exists(f) /\ first <= last /\ last <= Len(content[f])
    /\ LET r == RecordFor(f)
           covered == MergeCoverage(r.covered, first, last, Len(content[f]))
       IN  seen' = [seen EXCEPT ![f] =
             [hash |-> content[f], covered |-> covered,
              complete |-> CoverageComplete(covered, Len(content[f]))]]
    /\ Learns(content[f], {content[f][p] : p \in first..last})
    /\ did' = Did("read", f, "ok")
    /\ UNCHANGED <<content, fresh>>

\* _executor_arguments: the hash the run names for an operation, else the
\* one the gateway last saw.  Those of a patch are all filled in before its
\* first operation runs.
ExecutorArguments(f, ops, given) ==
    [i \in DOMAIN ops |-> IF given # {} THEN given ELSE Filled(seen[f], ops[i])]

\* One write or edit.  A conflict drops the record.
Mutate(op, f, n, given, dropsLines, byte) ==
    LET old == content[f]
        expected == ExecutorArguments(f, <<op>>, given)[1]
        new == FileAfter(op, old, Bytes(n), byte)
        verdict == Verdict(op, old, expected, Bytes(n), dropsLines, byte)
    IN  /\ fresh + n <= MaxBytes
        /\ did' = Did(IF given # {} THEN "named"
                      ELSE IF op = "replace" /\ ~dropsLines THEN "reflow"
                      ELSE op, f, verdict)
        /\ IF verdict = "ok"
           THEN /\ content' = [content EXCEPT ![f] = new]
                /\ seen' = [seen EXCEPT ![f] = Observed(@, op, old, new)]
                /\ fresh' = fresh + n
                /\ Learns(new, Range(Bytes(n))
                               \cup (IF op = "edit" THEN {byte} ELSE {}))
           ELSE /\ seen' = [seen EXCEPT ![f] = IF verdict = "conflict"
                                               THEN Unknown ELSE @]
                /\ UNCHANGED <<content, fresh, shown, passed>>

\* _operation_failed: the patch fails with the code of its cause, and the
\* operations after it are not reached.
OperationFailed(s, verdict) == [s EXCEPT !.out = verdict]

\* The file, the record of it and the code after each operation of a patch.
\* (All operations of a patch are on one file here.)
PatchStates(ops, f, byte) ==
    LET expected == ExecutorArguments(f, ops, {})
        state[i \in 0..Len(ops)] ==
            IF i = 0 THEN [file |-> content[f], rec |-> seen[f], out |-> "ok"]
            ELSE LET s == state[i - 1]
                     b == <<fresh + i>>
                     v == Verdict(ops[i], s.file, expected[i], b, TRUE, byte)
                     new == FileAfter(ops[i], s.file, b, byte)
                 IN  IF s.out # "ok" THEN s
                     ELSE IF v # "ok" THEN OperationFailed(s, v)
                     ELSE [file |-> new, out |-> "ok",
                           rec |-> Observed(s.rec, ops[i], s.file, new)]
    IN state

\* apply_patch on the file f; a failure restores the checkpoint.
Patch(ops, f, byte) ==
    LET end == PatchStates(ops, f, byte)[Len(ops)]
    IN  /\ fresh + Len(ops) <= MaxBytes
        /\ did' = Did("patch", f, end.out)
        /\ IF end.out = "ok"
           THEN /\ content' = [content EXCEPT ![f] = end.file]
                /\ seen' = [seen EXCEPT ![f] = end.rec]
                /\ fresh' = fresh + Len(ops)
                /\ Learns(end.file, Range(Bytes(Len(ops)))
                     \cup (IF "edit" \in Range(ops) THEN {byte} ELSE {}))
           ELSE /\ seen' = [seen EXCEPT ![f] = IF end.out = "conflict"
                                               THEN Unknown ELSE @]
                /\ UNCHANGED <<content, fresh, shown, passed>>

\* What changes a file behind the run's back: a byte lost, gained or both.
Tampered(f) ==
    \E i \in DOMAIN content[f], b \in {<<>>, <<fresh + 1>>} :
        content' = [content EXCEPT ![f] = SubSeq(@, 1, i - 1) \o b \o SubSeq(@, i + 1, Len(@))]

\* A command that is kept: the run forgets what it saw of every file.
Bash(f) ==
    /\ Exists(f) /\ fresh < MaxBytes
    /\ Tampered(f)
    /\ fresh' = fresh + 1 /\ did' = Did("bash", f, "ok")
    /\ seen' = [g \in Files |-> Unknown]
    /\ UNCHANGED <<shown, passed>>

\* A rebase, a declared check or a discard that overlaps the run.
Outside(f) ==
    /\ Exists(f) /\ fresh < MaxBytes
    /\ Tampered(f)
    /\ fresh' = fresh + 1 /\ did' = Did("outside", f, "ok")
    /\ UNCHANGED <<seen, shown, passed>>

\* A run starts, or is resumed: it has seen nothing.
NewRun ==
    /\ seen' = [f \in Files |-> Unknown]
    /\ shown' = {} /\ passed' = {}
    /\ did' = Did("start", CHOOSE f \in Files : TRUE, "ok")
    /\ UNCHANGED <<content, fresh>>

-----------------------------------------------------------------------------

GuardInit ==
    /\ content = [f \in Files |-> [i \in 1..Initial |-> i]]
    /\ fresh = Initial
    /\ seen = [f \in Files |-> Unknown]
    /\ shown = {} /\ passed = {}
    /\ did = Did("start", CHOOSE f \in Files : TRUE, "ok")

GuardNext ==
    \/ \E f \in Files :
          \/ \E i, j \in 1..MaxBytes : Read(f, i, j)
          \/ \E n \in Sizes, given \in {{}, {seen[f].hash}}, lines \in BOOLEAN :
                \/ Mutate("replace", f, n, given, lines, 0)
                \/ Mutate("append", f, n, given, FALSE, 0)
          \/ \E n \in {0, 1}, byte \in 1..fresh : Mutate("edit", f, n, {}, FALSE, byte)
          \/ \E ops \in Patches, byte \in 1..(fresh + 1) : Patch(ops, f, byte)
          \/ Bash(f) \/ Outside(f)
    \/ NewRun

GuardSpec == GuardInit /\ [][GuardNext]_guardVars

-----------------------------------------------------------------------------

\* A complete record of the file as it is was earned: this run was shown or
\* wrote every byte, but for bytes that stood alone between two such bytes
\* (the line breaks that line-range reads leave out), whatever reads, edits,
\* appends, patches and changes from outside came between.
CoverageHonest ==
    \A f \in Files :
        seen[f] # Unknown /\ seen[f].complete /\ seen[f].hash = content[f]
        => Range(content[f]) \subseteq shown \cup passed

\* A replacement that drops most of a guarded file's bytes and lines, with no
\* hash named by the run, only destroys what the run has seen.
DropsOnlySeen ==
    \A f \in Files :
        /\ did'.kind = "replace" /\ did'.file = f /\ did'.out = "ok"
        /\ Exists(f) /\ Len(content[f]) >= GuardedSize
        /\ 2 * Len(content'[f]) < Len(content[f])
        => Range(content[f]) \subseteq shown \cup passed

\* No step of a run destroys what the run has not read: the record of what it
\* saw, empty at first, is earned in every state a step reaches, and the
\* executor's guard makes a large replacement depend on it.
ReadsGuardWrites == [][CoverageHonest' /\ DropsOnlySeen]_guardVars

\* A conflict means that staging changed since the run last saw the file
\* (docs/TOOLS.md: the operations of a patch run in order, each against the
\* state left by the one before).
ConflictMeansStale ==
    [][did'.kind \in {"replace", "append", "edit", "patch"} /\ did'.out = "conflict"
       => content[did'.file] # seen[did'.file].hash]_guardVars
=============================================================================
