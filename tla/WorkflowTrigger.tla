--------------------------- MODULE WorkflowTrigger ---------------------------
(***************************************************************************)
(* src/src/doctor_workflow.rs: why a required check of a GitHub Actions    *)
(* workflow is missing.  Names and patterns are sequences of one-character *)
(* strings, because the filters match them by character; a pattern is      *)
(* [neg, glob], neg being the leading "!".                                 *)
(***************************************************************************)
EXTENDS Integers, Sequences, FiniteSets

CONSTANT None

-----------------------------------------------------------------------------
(* The filters.                                                            *)

\* The star that starts at position i: how many characters it takes, and
\* whether it crosses "/".
Star(p, i) ==
    IF i < Len(p) /\ p[i + 1] = "*"
    THEN [width |-> IF i + 1 < Len(p) /\ p[i + 2] = "/" THEN 3 ELSE 2, deep |-> TRUE]
    ELSE [width |-> 1, deep |-> FALSE]

\* glob_matches and glob_matches_at: the memo is the function itself, over
\* what is left of the pattern and of the value.
GlobMatches(p, v) ==
    LET at[k \in (0..Len(p)) \X (0..Len(v))] ==
            LET i == Len(p) - k[1] + 1
                j == Len(v) - k[2] + 1
            IN  IF k[1] = 0 THEN k[2] = 0
                ELSE IF p[i] = "*"
                THEN \/ at[<<k[1] - Star(p, i).width, k[2]>>]
                     \/ /\ k[2] > 0
                        /\ Star(p, i).deep \/ v[j] # "/"
                        /\ at[<<k[1], k[2] - 1>>]
                ELSE /\ k[2] > 0
                     /\ (p[i] = "?" /\ v[j] # "/") \/ p[i] = v[j]
                     /\ at[<<k[1] - 1, k[2] - 1>>]
    IN  at[<<Len(p), Len(v)>>]

\* supported_pattern
SupportedPattern(p) ==
    /\ p # <<>>
    /\ \A i \in DOMAIN p : p[i] \notin {"[", "]", "+", "{", "}", "\\"}

\* ordered_path_selected: the last pattern that matches decides.
OrderedPathSelected(patterns, value) ==
    LET hits == {i \in DOMAIN patterns : GlobMatches(patterns[i].glob, value)}
    IN  \E i \in hits : ~patterns[i].neg /\ \A j \in hits : j <= i

FiltersUnsupported(includes, ignores) ==
    \/ \E i \in DOMAIN ignores : ignores[i].neg
    \/ \E i \in DOMAIN includes : ~SupportedPattern(includes[i].glob)
    \/ \E i \in DOMAIN ignores : ~SupportedPattern(ignores[i].glob)

Ignored(ignores, value) == \E i \in DOMAIN ignores : GlobMatches(ignores[i].glob, value)

\* evaluate_ref_filters
EvaluateRefFilters(includes, ignores, value) ==
    IF FiltersUnsupported(includes, ignores) THEN "unknown"
    ELSE IF \/ includes # <<>> /\ ~OrderedPathSelected(includes, value)
            \/ Ignored(ignores, value)
    THEN "excluded" ELSE "included"

\* evaluate_path_filters; paths is the set of changed paths.
EvaluatePathFilters(includes, ignores, paths) ==
    IF paths = {} \/ FiltersUnsupported(includes, ignores) THEN "unknown"
    ELSE IF \/ includes # <<>> /\ \A v \in paths : ~OrderedPathSelected(includes, v)
            \/ ignores # <<>> /\ \A v \in paths : Ignored(ignores, v)
    THEN "excluded" ELSE "included"

-----------------------------------------------------------------------------
(* The classification.                                                     *)

Diagnosis(cause, confidence, fix) ==
    [cause |-> cause, confidence |-> confidence, fix |-> fix]

Unknown(fix) == Diagnosis("workflow_trigger_unknown", "uncertain", fix)

Produced == Diagnosis("none", "certain", "none")

JobsOf(workflows) == UNION {w.jobs : w \in workflows}

\* matching_jobs
MatchingJobs(input) ==
    {<<w, j>> \in input.workflows \X JobsOf(input.workflows) :
        j \in w.jobs /\ j.static /\ j.name = input.context}

\* has_observed_run
HasObservedRun(input, workflow, event) ==
    \E r \in input.runs : r.path = workflow.path /\ r.event = event

\* The run of the workflow for the pull request's head.
PullRequestRuns(input, workflow) ==
    IF input.target = "merge_group" THEN {}
    ELSE {r \in input.runs : r.path = workflow.path /\ r.event = "pull_request"}

\* validate_input: what relates two fields.
ValidInput(input) ==
    /\ input.target = "pull_request_head" <=> input.sha = input.head
    /\ input.changed.total >= Cardinality(input.changed.paths)
    /\ IF input.changed.limit THEN input.changed.total > 300
       ELSE input.changed.complete =>
                input.changed.total = Cardinality(input.changed.paths)
    /\ input.app = "github_actions" => input.capability = "not_applicable"
    /\ \A w \in input.workflows :
         /\ w.syntax = "invalid" => w.jobs = {}
         /\ w.pr # None => /\ w.pr.branches = <<>> \/ w.pr.branchesIgnore = <<>>
                           /\ w.pr.paths = <<>> \/ w.pr.pathsIgnore = <<>>
    /\ \A r \in input.runs : r.status = "completed" <=> r.conclusion # None

\* classify_third_party
ClassifyThirdParty(input) ==
    IF input.capability = "unsupported_merge_group" /\ input.target = "merge_group"
    THEN Diagnosis("provider_did_not_emit_merge_group_status", "high",
                   "replace_or_ungate_unsupported_provider")
    ELSE IF "provider_webhook_delivery_unavailable" \in input.gaps
    THEN Diagnosis("provider_runtime_delivery_gap", "uncertain",
                   "inspect_provider_webhook_delivery")
    ELSE Unknown("inspect_provider")

\* No job has the required name.
ClassifyUnmatched(input) ==
    LET current == {<<w, j>> \in input.workflows \X JobsOf(input.workflows) :
                       /\ j \in w.jobs /\ j.static
                       /\ w.state = "active" /\ w.syntax = "valid"}
        event   == IF input.target = "merge_group" THEN "merge_group" ELSE "pull_request"
    IN  IF /\ Cardinality(current) = 1
           /\ input.context \in input.historical
           /\ \E c \in current : HasObservedRun(input, c[1], event)
        THEN Diagnosis("required_context_not_produced", "high", "synchronize_required_context")
        ELSE Unknown("collect_workflow_definitions")

\* The filters of the pull_request trigger, when no run was observed.
ClassifyUnobserved(input, trigger) ==
    LET defaults == {"opened", "reopened", "synchronize"}
        active   == input.last \in (IF trigger.types = {} THEN defaults ELSE trigger.types)
        branch   == EvaluateRefFilters(trigger.branches, trigger.branchesIgnore, input.baseRef)
        filtered == trigger.paths # <<>> \/ trigger.pathsIgnore # <<>>
        paths    == EvaluatePathFilters(trigger.paths, trigger.pathsIgnore, input.changed.paths)
    IN  CASE input.last = "not_applicable" /\ trigger.types # {} -> Unknown("collect_activity")
          [] OTHER ->
        CASE input.last # "not_applicable" /\ ~active ->
               IF input.last # "synchronize" THEN Unknown("collect_activity")
               ELSE Diagnosis("workflow_activity_excludes_synchronize", "certain",
                              "add_pull_request_synchronize")
          [] OTHER ->
        CASE branch = "excluded" -> Diagnosis("workflow_branch_filter_excluded", "certain",
                                              "align_required_base_branch_filter")
          [] branch = "unknown"  -> Unknown("inspect_branch_filter")
          [] OTHER ->
        CASE input.changed.limit -> Unknown("inspect_github_filter_evaluation")
          [] ~input.changed.limit /\ filtered /\ ~input.changed.complete ->
               Unknown("collect_changed_files")
          [] OTHER ->
        CASE paths = "excluded" -> Diagnosis("workflow_path_filter_excluded", "certain",
                                             "move_required_filter_inside_workflow")
          [] paths = "unknown"  -> Unknown("inspect_path_filter")
          [] OTHER ->
             IF input.fork /\ "fork_approval_policy_unavailable" \in input.gaps
             THEN Diagnosis("fork_approval_possible", "uncertain", "inspect_fork_approval_policy")
             ELSE Unknown("inspect_workflow_delivery")

\* classify_workflow_trigger, for the one active job with the required name.
ClassifyJob(input, workflow, job) ==
    LET observed == PullRequestRuns(input, workflow)
        first    == CHOOSE r \in observed : \A q \in observed : r.id <= q.id
        approval == \E r \in input.runs : /\ r.path = workflow.path
                                          /\ r.conclusion = "action_required"
    IN  CASE input.fork /\ approval ->
               Diagnosis("fork_approval_required", "certain", "approve_fork_workflow")
          [] OTHER ->
        CASE /\ input.target = "pull_request_head" /\ input.mergeable = "conflicting"
             /\ workflow.pr # None /\ observed = {} ->
               Diagnosis("pull_request_merge_conflict", "certain", "resolve_merge_conflict")
          [] OTHER ->
        CASE input.target = "merge_group" ->
               IF ~workflow.mergeGroup
               THEN Diagnosis("merge_group_trigger_missing", "certain", "add_merge_group_trigger")
               ELSE IF HasObservedRun(input, workflow, "merge_group") THEN Produced
               ELSE Unknown("inspect_merge_group_delivery")
          [] OTHER ->
        CASE observed = {} ->
               IF workflow.pr = None
               THEN Diagnosis("pull_request_trigger_missing", "certain",
                              "add_pull_request_trigger")
               ELSE ClassifyUnobserved(input, workflow.pr)
          [] OTHER ->
             IF job.condition # "always" /\ first.conclusion # "skipped"
             THEN Unknown("inspect_job_condition")
             ELSE Produced

\* classify_workflow_trigger, up to the choice of the job.
ClassifyWorkflowTrigger(input) ==
    LET matching == MatchingJobs(input)
        active   == {m \in matching : m[1].state = "active"}
        chosen   == CHOOSE m \in active : TRUE
    IN  CASE input.app = "third_party" -> ClassifyThirdParty(input)
          [] OTHER ->
        CASE \E w \in input.workflows, r \in input.runs :
               /\ w.syntax = "invalid" /\ r.path = w.path
               /\ r.status = "completed" /\ r.conclusion = "startup_failure" ->
               Diagnosis("workflow_definition_invalid", "certain", "repair_workflow_syntax")
          [] OTHER ->
        CASE /\ "dynamic_job_name" \in input.gaps
             /\ \E j \in JobsOf(input.workflows) : ~j.static ->
               Unknown("collect_expanded_job_names")
          [] OTHER ->
        CASE /\ "reusable_workflow_definition_unavailable" \in input.gaps
             /\ \E j \in JobsOf(input.workflows) : j.reusable ->
               Unknown("collect_reusable_workflow_definition")
          [] OTHER ->
        CASE matching = {} -> ClassifyUnmatched(input)
          [] matching # {} /\ active = {} ->
               Diagnosis("workflow_disabled", "certain", "enable_workflow")
          [] OTHER ->
             IF Cardinality(active) > 1
             THEN Diagnosis("duplicate_job_name_ambiguous", "certain",
                            "make_required_job_names_unique")
             ELSE ClassifyJob(input, chosen[1], chosen[2])

-----------------------------------------------------------------------------
(* What a pattern means, without an algorithm: the pattern is cut into     *)
(* tokens, and the value into as many pieces, each matched by its token.   *)

TokenEnds(p) ==
    {f \in SUBSET (0..Len(p)) :
        /\ {0, Len(p)} \subseteq f
        /\ \A i \in f \ {Len(p)} :
             LET next == i + IF p[i + 1] = "*" THEN Star(p, i + 1).width ELSE 1
             IN  /\ next \in f
                 /\ \A k \in (i + 1)..(next - 1) : k \notin f}

PieceMatches(p, i, piece) ==
    LET deep == Star(p, i).deep
    IN  IF p[i] = "*" THEN deep \/ \A k \in DOMAIN piece : piece[k] # "/"
        ELSE Len(piece) = 1 /\ (piece[1] = p[i] \/ (p[i] = "?" /\ piece[1] # "/"))

MatchesByPieces(p, v) ==
    \E ends \in TokenEnds(p) :
      \E cut \in [ends -> 0..Len(v)] :
         /\ cut[0] = 0 /\ cut[Len(p)] = Len(v)
         /\ \A i, k \in ends : i < k => cut[i] <= cut[k]
         /\ \A i \in ends \ {Len(p)} :
              LET n == CHOOSE k \in ends : k > i /\ \A l \in ends : l > i => k <= l
              IN  PieceMatches(p, i + 1, SubSeq(v, cut[i] + 1, cut[n]))
=============================================================================
