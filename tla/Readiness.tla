----------------------------- MODULE Readiness -----------------------------
(***************************************************************************)
(* src/src/readiness.rs: what the merge-readiness audit concludes from a   *)
(* snapshot of a repository's rules, of its sampled pull requests and of   *)
(* the workflows that produced their checks.                               *)
(*                                                                         *)
(* A snapshot is a record                                                  *)
(*   gaps       the surfaces that were not collected completely            *)
(*   policy     branch_protected, pull_request_rule, merge_queue_rule and  *)
(*              the required checks [context, app], app None if unpinned   *)
(*   pulls      a sequence [id, complete, checks, statuses, runs] of       *)
(*              sampled pull requests                                      *)
(*   workflows  a set [id, path, state, definition]                        *)
(***************************************************************************)
EXTENDS WorkflowTrigger

\* GITHUB_ACTIONS_APP_ID
Actions == "actions"

Members(list) == {list[i] : i \in DOMAIN list}

PullsOf(s) == Members(s.pulls)

\* validate_snapshot
ValidReadiness(s) ==
    /\ \A v, w \in s.workflows : v # w => v.id # w.id /\ v.path # w.path
    /\ s.gaps = {} => \A w \in s.workflows : w.state = "active" => w.definition # None
    /\ \A i, j \in DOMAIN s.pulls : i # j => s.pulls[i].id # s.pulls[j].id
    /\ s.gaps = {} => \A p \in PullsOf(s) : p.complete

-----------------------------------------------------------------------------
(* context_evidence: who published a context on the sampled heads.         *)

ChecksOf(p, context) == {c \in Members(p.checks) : c.name = context}
StatusesOf(p, context) == {t \in Members(p.statuses) : t.context = context}

Seen(p, context) == ChecksOf(p, context) # {} \/ StatusesOf(p, context) # {}
Observed(s, context) == \E p \in PullsOf(s) : Seen(p, context)

Producers(s, context) ==
    UNION {{<<"app", c.app>> : c \in {d \in ChecksOf(p, context) : d.app # None}}
           \cup {<<"status", t.creator>> : t \in {u \in StatusesOf(p, context) : u.creator # None}}
              : p \in PullsOf(s)}

\* The workflow run of a check suite: a later one in the list replaces an
\* earlier one.
RunOf(p, suite) ==
    LET at == {i \in DOMAIN p.runs : p.runs[i].suite = suite}
    IN  IF at = {} THEN None ELSE p.runs[CHOOSE i \in at : \A j \in at : j <= i]

ActionsChecks(s, context) ==
    UNION {{[pull |-> p, check |-> c] : c \in {d \in ChecksOf(p, context) : d.app = Actions}}
              : p \in PullsOf(s)}

Mapped(a) == RunOf(a.pull, a.check.suite) # None

\* github_actions_runs: the workflows, by identifier and path.
ActionsRuns(s, context) ==
    {[id |-> RunOf(a.pull, a.check.suite).workflow, path |-> RunOf(a.pull, a.check.suite).path]
        : a \in {b \in ActionsChecks(s, context) : Mapped(b)}}

-----------------------------------------------------------------------------
(* evaluate_merge_readiness                                                *)

Note(code, context, path) == [code |-> code, context |-> context, path |-> path]
PullNote(code, context, pull) == [code |-> code, context |-> context, pull |-> pull]

\* What the rules ask of one context.
Expected(s, context) == {r.app : r \in {q \in s.policy.required : q.context = context}} \ {None}
Unpinned(s, context) == \E r \in s.policy.required : r.context = context /\ r.app = None
ActionsCanSatisfy(s, context) == Unpinned(s, context) \/ Actions \in Expected(s, context)

\* An app is expected on this head, the context is there, and the app is not.
SourceDiffers(p, context, expected) ==
    /\ Seen(p, context)
    /\ \E app \in expected : \A c \in ChecksOf(p, context) : c.app # app

SourceUnknown(p, context) ==
    \/ ~p.complete
    \/ StatusesOf(p, context) # {}
    \/ \E c \in ChecksOf(p, context) : c.app = None

\* The workflow's trigger on an event, as parse_workflow_definition reads it,
\* has path filters.
PathFiltered(definition) ==
    \E event \in {"pull_request", "pull_request_target", "merge_group"} :
        definition[event] # None /\ (definition[event].paths # <<>> \/ definition[event].pathsIgnore # <<>>)

WorkflowById(s, id) == {w \in s.workflows : w.id = id}
KnownWorkflows(s, runs) ==
    {w \in s.workflows : w.definition # None /\ \E r \in runs : r.id = w.id}

ContextFindings(s, context) ==
    LET runs == ActionsRuns(s, context)
        read == IF ActionsCanSatisfy(s, context) THEN KnownWorkflows(s, runs) ELSE {}
    IN  {Note(code, context, None) : code \in
           (IF Unpinned(s, context) THEN {"required_check_source_unpinned"} ELSE {}) \cup
           (IF \/ Unpinned(s, context) /\ Cardinality(Producers(s, context)) > 1
               \/ ActionsCanSatisfy(s, context) /\ Cardinality(runs) > 1
            THEN {"required_check_source_ambiguous"} ELSE {}) \cup
           (IF \E p \in PullsOf(s) : /\ SourceDiffers(p, context, Expected(s, context))
                                     /\ ~SourceUnknown(p, context)
            THEN {"required_check_source_mismatch"} ELSE {})}
        \cup {Note("merge_group_trigger_missing", context, w.path) : w \in
                 {v \in read : s.policy.queue /\ v.definition["merge_group"] = None}}
        \cup {Note("path_filtered_required_workflow", context, w.path) : w \in
                 {v \in read : PathFiltered(v.definition)}}

ContextUnknowns(s, context) ==
    LET runs   == ActionsRuns(s, context)
        traced == ActionsCanSatisfy(s, context) /\ Observed(s, context)
    IN  {PullNote("required_check_missing_on_sampled_head", context, p.id) : p \in
            {q \in PullsOf(s) : Observed(s, context) /\ q.complete /\ ~Seen(q, context)}}
        \cup {PullNote("required_check_source_unresolved", context, p.id) : p \in
            {q \in PullsOf(s) : SourceDiffers(q, context, Expected(s, context)) /\ SourceUnknown(q, context)}}
        \cup {Note(code, context, None) : code \in
           (IF ~Observed(s, context) THEN {"required_check_never_observed"} ELSE {}) \cup
           (IF Expected(s, context) \ {Actions} # {} /\ s.policy.queue
            THEN {"external_merge_group_support_unobserved"} ELSE {}) \cup
           (IF traced /\ (runs = {} \/ \E a \in ActionsChecks(s, context) : ~Mapped(a))
            THEN {"workflow_mapping_unavailable"} ELSE {})}
        \cup {Note("workflow_definition_unavailable", context, r.path) : r \in
            {q \in runs : traced /\ \A w \in WorkflowById(s, q.id) : w.definition = None}}

Contexts(s) == {r.context : r \in s.policy.required}

\* The default branch has no observed gate, although its policy was read.
BranchUnprotected(s) ==
    /\ s.gaps \cap {"repository", "effective_rules"} = {}
    /\ ~s.policy.protected /\ ~s.policy.pull /\ s.policy.required = {}

Findings(s) ==
    (IF BranchUnprotected(s) THEN {Note("default_branch_unprotected", None, None)} ELSE {})
    \cup UNION {ContextFindings(s, c) : c \in Contexts(s)}

Unknowns(s) ==
    (IF s.gaps # {} THEN {Note("collection_incomplete", None, None)} ELSE {})
    \cup UNION {ContextUnknowns(s, c) : c \in Contexts(s)}

AuditVerdict(s) ==
    IF Findings(s) # {} THEN "action_required"
    ELSE IF s.gaps # {} \/ Unknowns(s) # {} THEN "inconclusive"
    ELSE "no_observed_risk"

\* MergeReadinessAudit, or an error
EvaluateMergeReadiness(s) ==
    IF ValidReadiness(s)
    THEN [kind |-> "audit", verdict |-> AuditVerdict(s), findings |-> Findings(s),
          unknowns |-> Unknowns(s), snapshot |-> s]
    ELSE [kind |-> "error"]
=============================================================================
