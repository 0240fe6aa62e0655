---------------------------- MODULE Permissions ----------------------------
(***************************************************************************)
(* Who may run a tool: saved rules in the journal, rules an approval adds  *)
(* for the rest of a run, the session's approval policy, and the question  *)
(* put to the user when these leave it open (shared/permissions.py and     *)
(* AgentRuntime._permission, with the rule table of JournalStore).         *)
(*                                                                         *)
(* A path is the sequence of its components, so a prefix of a path is a    *)
(* directory above it, and a rule's prefix <<>> is a rule without one.  A  *)
(* command is its shell tokens, none if they cannot be read, and whether   *)
(* it is one simple command.  paths = {} stands for a write whose path is  *)
(* empty, which no schema forbids, or a patch with a path that is refused. *)
(***************************************************************************)
EXTENDS Naturals, Sequences, FiniteSets, SequencesExt

CONSTANTS
    Requests,   \* tool requests: mode, tool, paths, tokens, simple
    Specs,      \* rules the rules screen may ask for
    MaxRules,   \* bound: saved rules
    MaxGrants   \* bound: approvals the user gives for more than one call

ASSUME RuleBounds == MaxRules \in Nat /\ MaxGrants \in Nat
\* Only a patch names several paths; a command names none (request_paths).
ASSUME RequestsAreTyped ==
    /\ Requests \subseteq [mode : {"plan", "agent"}, tool : STRING,
                          paths : SUBSET (Seq(STRING) \ {<<>>}),
                          tokens : Seq(STRING), simple : BOOLEAN]
    /\ \A q \in Requests :
          /\ IF q.tool = "bash" THEN q.paths = {} ELSE q.tokens = <<>>
          /\ q.tool # "apply_patch" => \A o, p \in q.paths : o = p
ASSUME SpecsAreTyped ==
    Specs \subseteq [mode : {"plan", "agent"}, tool : STRING,
                    decision : {"allow", "ask", "deny"}, prefix : Seq(STRING),
                    tokens : Seq(STRING), enabled : BOOLEAN]

VARIABLES
    table,      \* permission_rules: rows, by rule id
    runRules,   \* _run_rules of the current run
    session,    \* the run's approval policy and whether the runner has network
    asking,     \* the request the user is asked about
    last,       \* the last decision: request, outcome, whether it was asked
    grants      \* what the user has agreed to: requests and rules

permVars == <<table, runRules, session, asking, last, grants>>

-----------------------------------------------------------------------------
(* Rules.                                                                  *)

ReadTools == {"read"}
MutationTools == {"write", "apply_patch", "bash"}

\* PermissionRule.matches.  A rule of several paths needs all in scope; one
\* for bash that allows or asks covers a single simple command.
Matches(rule, q) ==
    /\ rule.enabled /\ rule.mode = q.mode /\ rule.tool = q.tool
    /\ rule.prefix # <<>> =>
          q.paths # {} /\ \A p \in q.paths : IsPrefix(rule.prefix, p)
    /\ q.tool = "bash" /\ rule.tokens = <<>> => rule.decision = "deny"
    /\ rule.tokens # <<>> =>
          /\ q.tool = "bash" /\ IsPrefix(rule.tokens, q.tokens)
          /\ rule.decision = "deny" \/ q.simple

\* The directories that all paths are in.
SharedDirectories(paths) ==
    {d \in UNION {Prefixes(Front(p)) : p \in paths} :
        \A p \in paths : IsPrefix(d, Front(p))}

\* rule_scope: the path itself, or the deepest directory shared by all paths
\* of a patch.
RuleScope(q) ==
    IF q.paths = {} THEN <<>>
    ELSE IF q.tool # "apply_patch" THEN CHOOSE p \in q.paths : TRUE
    ELSE LET shared == SharedDirectories(q.paths)
         IN  CHOOSE d \in shared : \A e \in shared : Len(e) <= Len(d)

\* rule_for_request and _run_rule_for_request
RuleFor(q, decision) ==
    [decision |-> decision, mode |-> q.mode, tool |-> q.tool,
     prefix |-> RuleScope(q), tokens |-> q.tokens, enabled |-> TRUE]

\* resolve_permission: DENY before ASK before the narrowest rule that allows.
ResolvePermission(q, rules) ==
    LET hits == {r \in rules : Matches(r, q)}
        says(d) == \E r \in hits : r.decision = d
    IN  CASE q.mode = "plan" /\ q.tool \in MutationTools -> "deny"
          [] q.tool \notin ReadTools \cup MutationTools -> "deny"
          [] OTHER -> IF says("deny") THEN "deny"
                      ELSE IF says("ask") THEN "ask"
                      ELSE IF hits # {} \/ q.tool \in ReadTools THEN "allow"
                      ELSE "ask"

\* apply_approval_policy
ApplyApprovalPolicy(decision, q, s) ==
    IF decision # "ask" \/ q.mode # "agent" THEN decision
    ELSE IF q.tool = "bash" /\ s.network THEN "ask"
    ELSE IF s.policy = "auto" THEN "allow"
    ELSE IF s.policy = "sandbox" /\ q.tool \in MutationTools THEN "allow"
    ELSE "ask"

-----------------------------------------------------------------------------
(* The rule table.                                                         *)

\* save_permission_rule stores every column but the decision, and
\* permission_rules reads each row back as one that allows.
Row(rule) == [mode |-> rule.mode, tool |-> rule.tool, prefix |-> rule.prefix,
              tokens |-> rule.tokens, enabled |-> rule.enabled]
Loaded(row) == [decision |-> "allow", mode |-> row.mode, tool |-> row.tool,
                prefix |-> row.prefix, tokens |-> row.tokens,
                enabled |-> row.enabled]

Rules == {Loaded(table[i]) : i \in {i \in DOMAIN table : table[i].enabled}}
         \cup runRules

\* new_permission_rule: a bash rule is scoped by its command, and one that
\* allows or asks must name it; no other rule takes a command.
ValidSpec(spec) ==
    /\ spec.tool = "bash" => spec.prefix = <<>>
    /\ spec.tool # "bash" => spec.tokens = <<>>
    /\ spec.tool = "bash" /\ spec.tokens = <<>> => spec.decision = "deny"

CreateRule(spec) ==
    /\ Len(table) < MaxRules /\ ValidSpec(spec)
    /\ table' = Append(table, Row(spec))
    /\ grants' = grants \cup {[what |-> "rule", id |-> Len(table) + 1, rule |-> spec]}
    /\ UNCHANGED <<runRules, session, asking, last>>

\* Enabled, disabled, or deleted: a deleted rule is one never enabled again.
SetRuleEnabled(i, enabled) ==
    /\ i \in DOMAIN table /\ table[i].enabled # enabled
    /\ table' = [table EXCEPT ![i].enabled = enabled]
    /\ last' = {}
    /\ UNCHANGED <<runRules, session, asking, grants>>

\* The rules of a run are gone with it.
RunEndsKept ==
    /\ asking = {}
    /\ session' \in [policy : {"prompt", "sandbox", "auto"}, network : BOOLEAN]
    /\ grants' = {g \in grants : g.what # "run"}
    /\ last' = {}
    /\ UNCHANGED <<table, runRules, asking>>

RunEnds ==
    /\ asking = {}
    /\ session' \in [policy : {"prompt", "sandbox", "auto"}, network : BOOLEAN]
    /\ runRules' = {} /\ grants' = {g \in grants : g.what # "run"}
    /\ last' = {}
    /\ UNCHANGED <<table, asking>>

-----------------------------------------------------------------------------
(* A call.                                                                 *)

\* _permission up to the approval it waits for.
Call(q) ==
    LET d == ApplyApprovalPolicy(ResolvePermission(q, Rules), q, session)
    IN  /\ asking = {}
        /\ IF d = "ask" THEN asking' = {q} /\ UNCHANGED last
           ELSE last' = {[req |-> q, out |-> d, asked |-> FALSE]}
                /\ UNCHANGED asking
        /\ UNCHANGED <<table, runRules, session, grants>>

\* JournalStore.rule_for_request: a rule for all runs needs, for bash, a command
\* with an executable.
MayBecomeRule(q) == q.tool = "bash" => q.tokens # <<>>

\* resolve_approval and what the waiter does with the answer.
Decide(q, answer) ==
    /\ asking = {q} /\ asking' = {}
    /\ answer \in {"allow_run", "allow_rule"} =>
          Cardinality(grants) < MaxGrants
    /\ last' = {[req |-> q, out |-> IF answer = "deny" THEN "deny" ELSE "allow",
                 asked |-> TRUE]}
    /\ answer = "allow_rule" =>
          Len(table) < MaxRules /\ MayBecomeRule(q)
    /\ table' = IF answer = "allow_rule" THEN Append(table, Row(RuleFor(q, "allow")))
                ELSE table
    /\ runRules' = runRules \cup (IF answer = "allow_run" THEN {RuleFor(q, "allow")}
                                  ELSE {})
    /\ grants' = grants \cup
          (CASE answer = "allow_run" -> {[what |-> "run", id |-> 0, req |-> q]}
             [] answer = "allow_rule" -> {[what |-> "saved", id |-> Len(table'),
                                           req |-> q]}
             [] OTHER -> {})
    /\ UNCHANGED session

-----------------------------------------------------------------------------

PermInit ==
    /\ table = <<>> /\ runRules = {} /\ asking = {} /\ last = {} /\ grants = {}
    /\ session \in [policy : {"prompt", "sandbox"}, network : BOOLEAN]

PermNext ==
    \/ \E spec \in Specs : CreateRule(spec)
    \/ \E i \in DOMAIN table, e \in BOOLEAN : SetRuleEnabled(i, e)
    \/ RunEnds
    \/ \E q \in Requests :
          \/ Call(q)
          \/ \E a \in {"deny", "allow_once", "allow_run", "allow_rule"} :
                Decide(q, a)

PermSpec == PermInit /\ [][PermNext]_permVars

-----------------------------------------------------------------------------

\* What the user agreed to covers a request: an approval of a request for the
\* same tool covers every request whose files are in the directories all files
\* of the approved one were in (for a single file, that file and below; one
\* without a path covers every file), and for bash the same command with
\* further arguments; a rule, what it names.
Covers(g, q) ==
    /\ g.id # 0 => table[g.id].enabled
    /\ IF g.what = "rule"
       THEN /\ g.rule.tool = q.tool /\ g.rule.mode = q.mode
            /\ \A p \in q.paths : IsPrefix(g.rule.prefix, p)
            /\ q.tool = "bash" => IsPrefix(g.rule.tokens, q.tokens) /\ q.simple
       ELSE /\ g.req.tool = q.tool /\ g.req.mode = q.mode
            /\ q.tool = "bash" => IsPrefix(g.req.tokens, q.tokens) /\ q.simple
            /\ \A p \in q.paths :
                  /\ q.tool = "write" => \A o \in g.req.paths : IsPrefix(o, p)
                  /\ q.tool = "apply_patch" =>
                        \A d \in SharedDirectories(g.req.paths) : IsPrefix(d, p)

\* A mutation runs without a question only when the policy of the session lets
\* it, the runner being cut off for bash, or when something the user agreed to
\* covers it that is still in force: in this run, or a saved rule that is on.
\* (A saved rule counts whatever decision it was made with; see DenyWins.)
UnaskedIsCovered ==
    \A x \in last :
        x.out = "allow" /\ ~x.asked /\ x.req.tool \in MutationTools
        => /\ x.req.mode = "agent"
           /\ \/ session.policy # "prompt" /\ ~(x.req.tool = "bash" /\ session.network)
              \/ \E g \in grants : Covers(g, x.req)

\* Agreeing to a request for the rest of a run is enough: the same request is
\* not asked about again in that run (a compound command is, by design, and so
\* is one whose tokens cannot be read).
NotAskedTwice ==
    \A q \in asking : (q.tool = "bash" => q.simple /\ q.tokens # <<>>)
        => ~ \E g \in grants : g.what = "run" /\ g.req = q

\* The user is asked what the rules leave open, and asked once.
ApprovalsAreExact == UnaskedIsCovered /\ NotAskedTwice

\* A saved rule that denies a tool denies it (docs/TOOLS.md).
DenyWins ==
    \A x \in last : x.out = "allow" =>
        ~ \E g \in grants : /\ g.what = "rule" /\ g.rule.decision = "deny"
                            /\ table[g.id].enabled /\ Matches(g.rule, x.req)

\* Agreeing to a write for the rest of a run, or for good, covers no other
\* file: "Single-path tools scope to their path" (rule_scope's docstring).
WritesScopeToTheirPath ==
    \A x \in last :
        x.out = "allow" /\ ~x.asked /\ x.req.tool = "write"
        => \/ session.policy # "prompt"
           \/ \E g \in grants :
                /\ Covers(g, x.req)
                /\ g.what # "rule" => \A p \in x.req.paths :
                                        \E o \in g.req.paths : IsPrefix(o, p)
=============================================================================
