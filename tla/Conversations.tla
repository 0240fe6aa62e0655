--------------------------- MODULE Conversations ---------------------------
(***************************************************************************)
(* The desktop's conversation database (src/src/storage.py): conversations *)
(* as forests of messages with one active leaf, the operations of the      *)
(* controllers on them, import and export, the migration of a flat         *)
(* database, and the death of the process between two commits. The rows of *)
(* runs and their events are kept for display only and are left out.       *)
(*                                                                         *)
(* A message's text is abstracted to the number of the message it was      *)
(* first written as, so that copies can be compared. Which conversation is *)
(* on screen is Generation's subject: here the user may act on any of them.*)
(***************************************************************************)
EXTENDS Integers, Sequences, FiniteSets, SequencesExt, FiniteSetsExt

CONSTANTS
    MaxMessages,    \* messages ever written
    MaxConvs,       \* conversations ever created
    MaxContext,     \* messages a prompt has room for before it is compacted
    FileLength      \* entries of an imported file made elsewhere

ASSUME StoreAssumption == MaxContext \in Nat /\ FileLength \in Nat

VARIABLES
    db,         \* [at, version]: the process, and the schema version on disk
    msgs,       \* message id -> [conv, parent, role, text]
    convs,      \* conversation id -> [leaf, whole]
    last,       \* the highest message id ever used (AUTOINCREMENT)
    made,       \* conversations ever created
    gen,        \* GenerationState: conversation, parent, and the submitted context
    read        \* the last file import_json read from elsewhere, and its order

storeVars == <<db, msgs, convs, last, made, gen, read>>
dataVars == <<msgs, convs, last, made>>

NoId == 0
Rejected == <<NoId>>
NoRead == [file |-> <<>>, order |-> <<>>]
NoGeneration == [conv |-> NoId, parent |-> NoId, prompt |-> <<>>, covered |-> <<>>,
                 resumed |-> FALSE]
-----------------------------------------------------------------------------
(***************************************************************************)
(* Reading the forest.                                                     *)
(***************************************************************************)
Of(ms, c) == {i \in DOMAIN ms : ms[i].conv = c}
Children(ms, c, p) == {i \in Of(ms, c) : ms[i].parent = p}

\* Where n steps along up lead from x; a walk that has left the domain of up stays there.
Walk(up, x) ==
    LET at[n \in Nat] ==
            IF n = 0 THEN x
            ELSE LET y == at[n - 1] IN IF y \in DOMAIN up THEN up[y] ELSE y
    IN at

\* What the walk meets before it leaves the domain of up, the last of it first; Rejected when
\* it runs in a circle.
Climb(up, x) ==
    LET at == Walk(up, x)
        out == {n \in 0..Cardinality(DOMAIN up) : at[n] \notin DOMAIN up}
    IN IF out = {} THEN Rejected ELSE [k \in 1..Min(out) |-> at[Min(out) - k]]

\* list_branch_to: from the message up while the parent is a message of the same
\* conversation, then reversed.
BranchTo(ms, c, i) == Climb([j \in Of(ms, c) |-> ms[j].parent], i)

\* siblings: the messages of the same conversation, parent and role.
Siblings(ms, i) == {j \in Children(ms, ms[i].conv, ms[i].parent) : ms[j].role = ms[i].role}

\* activate_branch_from: the newest message without children at or below i.
NewestLeafItself(ms, i) == i
NewestLeaf(ms, i) ==
    LET c == ms[i].conv
    IN Max({j \in Of(ms, c) : /\ Children(ms, c, j) = {}
                              /\ i \in ToSet(BranchTo(ms, c, j))})

\* compact_messages over messages of equal size: the newest that fit in 60% of the
\* limit, at least one, when they do not all fit.
Recent(path) ==
    IF Len(path) <= MaxContext THEN path
    ELSE SubSeq(path, Len(path) - Max({1, (MaxContext * 6) \div 10}) + 1, Len(path))
-----------------------------------------------------------------------------
(***************************************************************************)
(* Writing it.                                                             *)
(***************************************************************************)
Message(c, p, role, text) == [conv |-> c, parent |-> p, role |-> role, text |-> text]

\* The rows of a table, and some more.
With(rows, more) == [id \in DOMAIN rows \cup DOMAIN more |->
                        IF id \in DOMAIN rows THEN rows[id] ELSE more[id]]

\* add_message, activated: the parent must be a message of the conversation.
CanAdd(c, p) ==
    /\ last < MaxMessages
    /\ c \in DOMAIN convs
    /\ p = NoId \/ p \in Of(msgs, c)

Added(c, p, role) ==
    /\ msgs' = With(msgs, [i \in {last + 1} |-> Message(c, p, role, i)])
    /\ convs' = [convs EXCEPT ![c].leaf = last + 1]
    /\ last' = last + 1

\* create_conversation, with whatever its creator then copies into it.
CreatedWith(new, leaf, whole) ==
    /\ made < MaxConvs /\ last + Len(new) <= MaxMessages
    /\ made' = made + 1
    /\ msgs' = With(msgs, [i \in last + 1 .. last + Len(new) |-> new[i - last]])
    /\ last' = last + Len(new)
    /\ convs' = With(convs, [c \in {made + 1} |-> [leaf |-> leaf, whole |-> whole]])

\* GenerationController.prepare and begin: the whole branch is the context, its older
\* part replaced by a summary when it is too long. The queue is Generation's.
BeginTurn(c, p, path) ==
    gen' = [conv |-> c, parent |-> p, resumed |-> FALSE,
            prompt |-> Recent(path),
            covered |-> SubSeq(path, 1, Len(path) - Len(Recent(path)))]

Up == db.at = "open"
Busy == gen # NoGeneration
-----------------------------------------------------------------------------
(***************************************************************************)
(* Opening and losing the database.                                        *)
(***************************************************************************)
\* _migrate_v1_to_v2: each conversation's messages chained in id order.
ChainedParent(i) == LET older == {j \in Of(msgs, msgs[i].conv) : j < i}
                    IN IF older = {} THEN NoId ELSE Max(older)
Chained ==
    /\ msgs' = [i \in DOMAIN msgs |-> [msgs[i] EXCEPT !.parent = ChainedParent(i)]]
    /\ convs' = [c \in DOMAIN convs |->
                    [convs[c] EXCEPT !.leaf = IF Of(msgs, c) = {} THEN NoId
                                              ELSE Max(Of(msgs, c))]]

\* migrate, as far as the commit of the upgrade: only for a database below version 2.
MigrateAlways ==
    /\ db.at = "closed"
    /\ db' = [db EXCEPT !.at = "migrated", !.version = 1]
    /\ Chained
    /\ UNCHANGED <<last, made, gen>>
Migrate ==
    /\ db.at = "closed" /\ db.version < 2
    /\ db' = [db EXCEPT !.at = "migrated"]
    /\ Chained
    /\ UNCHANGED <<last, made, gen>>

\* The rest of migrate: the tables every version shares, then the version.
Opens ==
    /\ db.at = IF db.version < 2 THEN "migrated" ELSE "closed"
    /\ db' = [at |-> "open", version |-> 4]
    /\ UNCHANGED <<dataVars, gen>>

ProcessEnds ==
    /\ db' = [db EXCEPT !.at = "closed"]
    /\ gen' = NoGeneration

Dies ==
    /\ db.at # "closed" /\ ProcessEnds
    /\ UNCHANGED dataVars
-----------------------------------------------------------------------------
(***************************************************************************)
(* Conversations: new, fork, delete, branch navigation.                    *)
(***************************************************************************)
NewConversation ==
    /\ Up /\ ~Busy
    /\ CreatedWith(<<>>, NoId, TRUE)
    /\ UNCHANGED <<db, gen>>

\* The copies of a sequence of messages, each under the copy of its own parent.
NewId(order, i) == IF \E k \in DOMAIN order : order[k] = i
                   THEN last + (CHOOSE k \in DOMAIN order : order[k] = i) ELSE NoId
Copies(order) == [k \in DOMAIN order |->
    Message(made + 1, NewId(order, msgs[order[k]].parent), msgs[order[k]].role,
            msgs[order[k]].text)]

Branch(c) == IF convs[c].leaf = NoId THEN <<>> ELSE BranchTo(msgs, c, convs[c].leaf)

\* ConversationController.fork: the active branch, message by message, each activated;
\* a process that dies on the way leaves the copies made so far.
Fork(c) ==
    /\ Up /\ ~Busy
    /\ \E k \in 0..Len(Branch(c)) :
        LET copied == SubSeq(Branch(c), 1, k)
        IN /\ CreatedWith(Copies(copied), IF k = 0 THEN NoId ELSE last + k, TRUE)
           /\ IF k = Len(Branch(c))
              THEN UNCHANGED <<db, gen>>
              ELSE ProcessEnds

\* delete_conversation, from a confirmation that may be accepted while a run is active;
\* the schema cascades to its messages.
DeleteConversation(c) ==
    /\ Up
    /\ convs' = [d \in DOMAIN convs \ {c} |-> convs[d]]
    /\ msgs' = [i \in DOMAIN msgs \ Of(msgs, c) |-> msgs[i]]
    /\ UNCHANGED <<db, last, made, gen>>

\* navigate_branch: to the previous or next sibling of a message by id, at its newest leaf.
NavigateBranch(i) ==
    /\ Up /\ ~Busy
    /\ \E j \in Siblings(msgs, i) \ {i} :
         /\ \A k \in Siblings(msgs, i) : ~(i < k /\ k < j) /\ ~(j < k /\ k < i)
         /\ convs' = [convs EXCEPT ![msgs[i].conv].leaf = NewestLeaf(msgs, j)]
    /\ UNCHANGED <<db, msgs, last, made, gen>>
-----------------------------------------------------------------------------
(***************************************************************************)
(* Turns.                                                                  *)
(***************************************************************************)
\* start_user_turn: add_user_turn under the active leaf, then the generation.
UserTurn(c) ==
    /\ Up /\ ~Busy /\ CanAdd(c, convs[c].leaf)
    /\ Added(c, convs[c].leaf, "user")
    /\ BeginTurn(c, last', BranchTo(msgs', c, last'))
    /\ UNCHANGED <<db, made>>

\* edit_message: a sibling of the user message, then the generation.
EditMessage(i) ==
    /\ Up /\ ~Busy /\ msgs[i].role = "user"
    /\ LET c == msgs[i].conv
       IN /\ CanAdd(c, msgs[i].parent)
          /\ Added(c, msgs[i].parent, "user")
          /\ BeginTurn(c, last', BranchTo(msgs', c, last'))
    /\ UNCHANGED <<db, made>>

\* regenerate_message: another answer under the parent of an answer, from the branch
\* that leads to that parent.
RegenerateMessage(i) ==
    /\ Up /\ ~Busy /\ msgs[i].role = "assistant"
    /\ LET p == msgs[i].parent
       IN BeginTurn(msgs[i].conv, p,
                IF p = NoId THEN <<>> ELSE BranchTo(msgs, msgs[i].conv, p))
    /\ UNCHANGED <<db, dataVars>>

\* resume_run: a paused run continues under the active leaf of the conversation on
\* screen; the gateway has the context.
ResumeRun(c) ==
    /\ Up /\ ~Busy /\ last > 0
    /\ gen' = [NoGeneration EXCEPT !.conv = c, !.parent = convs[c].leaf, !.resumed = TRUE]
    /\ UNCHANGED <<db, dataVars>>

\* on_stream_complete and on_stream_error, then on_worker_finished: save_assistant under the
\* generation's parent, or nothing when there is no text. add_message raises when the
\* conversation is gone.
StreamEnds(text) ==
    /\ Up /\ Busy
    /\ gen' = NoGeneration
    /\ IF text /\ gen.conv \in DOMAIN convs
       THEN CanAdd(gen.conv, gen.parent) /\ Added(gen.conv, gen.parent, "assistant")
       ELSE UNCHANGED <<msgs, convs, last>>
    /\ UNCHANGED <<db, made>>
-----------------------------------------------------------------------------
(***************************************************************************)
(* Import and export.                                                      *)
(***************************************************************************)
Ids(file) == {file[k].id : k \in DOMAIN file}
ParentIn(file, i) == (CHOOSE e \in ToSet(file) : e.id = i).parent

\* One chain of _parents_first: up from an entry to a root or to one already placed.
ChainUp(file, i, placed) ==
    LET chain == Climb([j \in Ids(file) \ placed |-> ParentIn(file, j)], i)
    IN IF chain # <<>> /\ chain # Rejected /\ ParentIn(file, chain[1]) \notin placed \cup {NoId}
       THEN Rejected ELSE chain

\* _parents_first: unique ids, then every chain, its parents before its entry.
Placed(file) ==
    LET order[n \in 0..Len(file)] ==
            IF n = 0 THEN <<>>
            ELSE LET before == order[n - 1]
                     chain == ChainUp(file, file[n].id, ToSet(before))
                 IN IF Rejected \in {before, chain} THEN Rejected ELSE before \o chain
    IN order
ParentsFirst(file) ==
    IF Cardinality(Ids(file)) # Len(file) THEN Rejected ELSE Placed(file)[Len(file)]

\* export_json: every message of the conversation, by id.
Exported(c) ==
    LET ids == Of(msgs, c)
        nth(k) == CHOOSE i \in ids : Cardinality({j \in ids : j <= i}) = k
    IN [k \in 1..Cardinality(ids) |-> [id |-> nth(k), parent |-> msgs[nth(k)].parent]]

\* import_json's active leaf: the exported one, or else the last message written.
ImportedLeaf(order, leaf) ==
    IF NewId(order, leaf) # NoId THEN NewId(order, leaf)
    ELSE IF order = <<>> THEN NoId ELSE last + Len(order)

\* import_json of an export of c: the messages without activating them, then the leaf.
\* Each is a commit of its own: a process that dies among them leaves a conversation
\* without a leaf.
ImportExport(c) ==
    /\ Up /\ ~Busy
    /\ LET order == ParentsFirst(Exported(c))
       IN \/ /\ CreatedWith(Copies(order), ImportedLeaf(order, convs[c].leaf), convs[c].whole)
             /\ UNCHANGED <<db, gen>>
          \/ \E k \in 0..Len(order) :
                /\ CreatedWith(SubSeq(Copies(order), 1, k), NoId, FALSE)
                /\ ProcessEnds

\* Files made elsewhere: any entries, in any order, with any parents.
Files == UNION {[1..n -> [id : 1..FileLength, parent : 0..FileLength]] : n \in 1..FileLength}

\* import_json of such a file, in a database without conversations.
ImportFile(file) ==
    /\ Up /\ made = 0 /\ read = NoRead
    /\ LET order == ParentsFirst(file)
           written == [k \in DOMAIN order |->
                Message(1, NewId(order, ParentIn(file, order[k])), "user", last + k)]
       IN /\ read' = [file |-> file, order |-> order]
          /\ IF order = Rejected THEN UNCHANGED <<msgs, convs, last, made>>
             ELSE CreatedWith(written, ImportedLeaf(order, NoId), TRUE)
    /\ UNCHANGED <<db, gen>>
-----------------------------------------------------------------------------
\* A version 1 database: two conversations whose messages alternate, no tree yet.
Flat == [db |-> [at |-> "closed", version |-> 1],
         msgs |-> [i \in 1..3 |-> Message(1 + (i % 2), NoId, "user", i)],
         convs |-> [c \in 1..2 |-> [leaf |-> NoId, whole |-> TRUE]]]

StoreInit ==
    /\ gen = NoGeneration /\ read = NoRead
    /\ \/ /\ db = [at |-> "closed", version |-> 0]
          /\ msgs = <<>> /\ convs = <<>> /\ last = 0 /\ made = 0
       \/ /\ db = Flat.db /\ msgs = Flat.msgs /\ convs = Flat.convs
          /\ last = 3 /\ made = 2

OnConversation(c) ==
    \/ Fork(c) \/ DeleteConversation(c) \/ UserTurn(c) \/ ImportExport(c) \/ ResumeRun(c)

OnMessage(i) == NavigateBranch(i) \/ EditMessage(i) \/ RegenerateMessage(i)

StoreStep ==
    \/ Migrate \/ Opens \/ Dies \/ NewConversation
    \/ \E c \in DOMAIN convs : OnConversation(c)
    \/ \E i \in DOMAIN msgs : OnMessage(i)
    \/ \E text \in BOOLEAN : StreamEnds(text)

StoreNext ==
    \/ StoreStep /\ read' = NoRead
    \/ \E file \in Files : ImportFile(file)

StoreSpec == StoreInit /\ [][StoreNext]_storeVars
-----------------------------------------------------------------------------
(***************************************************************************)
(* Properties.                                                             *)
(***************************************************************************)
\* Every reference stays inside its conversation and points at an older message: no walk
\* up a branch can stop early or run in a circle (list_branch_to), and
\* delete_conversation never removes a message that another conversation refers to.
ForestAtHome ==
    db.at = "open" =>
        /\ \A i \in DOMAIN msgs : LET p == msgs[i].parent IN
              /\ msgs[i].conv \in DOMAIN convs
              /\ p # NoId => p \in Of(msgs, msgs[i].conv) /\ p < i
        /\ \A c \in DOMAIN convs : convs[c].leaf # NoId => convs[c].leaf \in Of(msgs, c)

\* What is submitted for a turn, with what its compaction summarises, is the branch that
\* leads to the message being answered, and that message itself is never summarised.
PromptIsBranch ==
    gen # NoGeneration /\ ~gen.resumed /\ gen.conv \in DOMAIN convs =>
        /\ gen.covered \o gen.prompt =
                IF gen.parent = NoId THEN <<>> ELSE BranchTo(msgs, gen.conv, gen.parent)
        /\ gen.parent # NoId => gen.prompt # <<>>

\* A set of leaves that navigate_branch does not lead out of, sibling by sibling.
Navigable(c, leaves) ==
    \A l \in leaves : \A i \in ToSet(BranchTo(msgs, c, l)) :
        \A j \in Siblings(msgs, i) : NewestLeaf(msgs, j) \in leaves

\* No message of a conversation is out of reach: from the branch on screen the sibling
\* arrows lead to every branch, whatever was edited, regenerated, resumed, forked or
\* imported. (A conversation cut short by a crash during its import is excepted, and so are
\* its copies.)
NoBranchIsLost ==
    \A c \in DOMAIN convs :
        Up /\ convs[c].whole /\ convs[c].leaf # NoId =>
            \A leaves \in SUBSET Of(msgs, c) :
                convs[c].leaf \in leaves /\ Navigable(c, leaves) =>
                    \A i \in Of(msgs, c) : \E l \in leaves : i \in ToSet(BranchTo(msgs, c, l))

\* A file is imported exactly when its ids are unique and every entry leads to a root, and
\* then each entry is written once, after its parent.
OnlyTreesAreImported ==
    LET file == read.file
        \* the entries some sequence of parents leads from to a root
        tree == /\ Cardinality(Ids(file)) = Len(file)
                /\ \A i \in Ids(file) : \E n \in 1..Len(file) : \E up \in [1..n -> Ids(file)] :
                        /\ up[1] = i /\ ParentIn(file, up[n]) = NoId
                        /\ \A k \in 1..n - 1 : up[k + 1] = ParentIn(file, up[k])
    IN file # <<>> =>
        /\ (read.order # Rejected) <=> tree
        /\ tree => /\ ToSet(read.order) = Ids(file) /\ Len(read.order) = Len(file)
                   /\ \A k \in DOMAIN read.order :
                        ParentIn(file, read.order[k]) \in
                            {NoId} \cup ToSet(SubSeq(read.order, 1, k - 1))

\* The messages of every conversation are a tree whose branches are what is submitted, can
\* all be shown, and are the only thing an import accepts.
TreesAreSound == ForestAtHome /\ PromptIsBranch /\ NoBranchIsLost /\ OnlyTreesAreImported

\* What a message says, and what it answers, is never rewritten by a later action or by a
\* restart, once a flat database has been upgraded; messages go only with their conversation.
HistoryIsKept ==
    [][db.version = 4 =>
        \A i \in DOMAIN msgs :
            \/ i \in DOMAIN msgs' /\ msgs'[i] = msgs[i]
            \/ msgs[i].conv \notin DOMAIN convs']_storeVars

Texts(ms, path) == [k \in DOMAIN path |-> <<ms[path[k]].role, ms[path[k]].text>>]

\* A conversation imported from an export is the exported one: the same paths of texts and
\* roles, and the same branch on screen.
ImportIsFaithful ==
    [][\A c \in DOMAIN convs : made' > made /\ ImportExport(c) /\ db'.at = "open" =>
        LET new == made'
            paths(ms, d) == {Texts(ms, BranchTo(ms, d, i)) : i \in Of(ms, d)}
        IN /\ paths(msgs', new) = paths(msgs, c)
           /\ convs[c].leaf # NoId =>
                Texts(msgs', BranchTo(msgs', new, convs'[new].leaf)) = Texts(msgs, Branch(c))
      ]_storeVars

\* No message is changed or lost by what is done later, by an upgrade that dies and runs
\* again, or by going through a file.
HistorySurvives == HistoryIsKept /\ ImportIsFaithful
=============================================================================
