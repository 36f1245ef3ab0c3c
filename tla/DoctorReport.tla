---------------------------- MODULE DoctorReport ----------------------------
(***************************************************************************)
(* What the pull request doctor concludes from a snapshot: the diagnoses,  *)
(* the verdict and the actions of src/src/doctor.rs, and the choice of the *)
(* commit that is evaluated in src/src/doctor_candidate.rs.                *)
(*                                                                         *)
(* A snapshot holds sets: checks of [id, name, app, status, conclusion],   *)
(* statuses of [id, context, state], requirements of [context, app] keys,  *)
(* and gaps of [surface, code].  URLs, slugs and texts are left out.       *)
(***************************************************************************)
EXTENDS WorkflowTrigger

\* check_state
CheckState(check) ==
    CASE check.status \in {"queued", "in_progress", "requested", "pending", "waiting"}
             -> "pending"
      [] check.status = "completed" /\ check.conclusion \in {"success", "neutral", "skipped"}
             -> "satisfied"
      [] check.status = "completed" /\ check.conclusion \in
             {"failure", "cancelled", "timed_out", "action_required",
              "startup_failure", "stale"}
             -> "failed"
      [] OTHER -> "unknown"

\* commit_status_state
CommitStatusState(status) ==
    CASE status.state = "success"             -> "satisfied"
      [] status.state = "pending"             -> "pending"
      [] status.state \in {"error", "failure"} -> "failed"
      [] OTHER                                -> "unknown"

\* aggregate_signal_states
AggregateSignalStates(states) ==
    CASE "failed" \in states  -> "failed"
      [] "failed" \notin states /\ "pending" \in states -> "pending"
      [] states = {"satisfied"} -> "satisfied"
      [] OTHER -> "unknown"

\* status_from_signal
StatusFromSignal(state) == IF state = "unknown" THEN "source_unknown" ELSE state

\* signal_collection_incomplete
SignalsIncomplete(gaps) ==
    \E g \in gaps : g.surface \in {"check_runs", "commit_statuses"}

\* The signals of a requirement: matching_checks and matching_statuses.
MatchingChecks(snap, key) == {c \in snap.checks : c.name = key.context}
MatchingStatuses(snap, key) == {s \in snap.statuses : s.context = key.context}

Signal(checks, statuses) ==
    AggregateSignalStates({CheckState(c) : c \in checks}
                          \cup {CommitStatusState(s) : s \in statuses})

\* diagnose_requirement, a requirement that names the app it expects.
DiagnoseBound(snap, key) ==
    LET checks     == MatchingChecks(snap, key)
        statuses   == MatchingStatuses(snap, key)
        expected   == {c \in checks : c.app = key.app}
        signal     == Signal(expected, statuses)
        incomplete == SignalsIncomplete(snap.gaps)
    IN  IF expected # {}
        THEN IF signal = "satisfied" /\ (incomplete \/ statuses # {})
             THEN "source_unknown"
             ELSE StatusFromSignal(signal)
        ELSE IF incomplete \/ statuses # {} \/ \E c \in checks : c.app = None
        THEN "source_unknown"
        ELSE IF checks # {} THEN "source_mismatch" ELSE "missing"

\* diagnose_requirement, a requirement that any producer may satisfy.
DiagnoseUnbound(snap, key) ==
    LET checks     == MatchingChecks(snap, key)
        statuses   == MatchingStatuses(snap, key)
        apps       == {c.app : c \in checks} \ {None}
        signal     == Signal(checks, statuses)
        incomplete == SignalsIncomplete(snap.gaps)
    IN  IF checks = {} /\ statuses = {}
        THEN IF incomplete THEN "source_unknown" ELSE "missing"
        ELSE IF signal \notin {"failed", "pending"}
                /\ (Cardinality(apps) > 1 \/ (signal = "satisfied" /\ incomplete))
        THEN "source_unknown"
        ELSE StatusFromSignal(signal)

DiagnoseRequirement(snap, key) ==
    IF key.app # None THEN DiagnoseBound(snap, key) ELSE DiagnoseUnbound(snap, key)

\* action_for
ActionFor(status) ==
    CASE status = "pending"         -> "wait_for_check"
      [] status = "failed"          -> "inspect_failed_check"
      [] status = "missing"         -> "restore_required_check"
      [] status = "source_mismatch" -> "fix_required_check_source"
      [] status = "source_unknown"  -> "resolve_source_identity"

\* action_is_safe_for_provisional_target
SafeForProvisional(code) ==
    code \in {"wait_for_check", "inspect_failed_check", "resolve_source_identity"}

\* evaluate_pull_request_doctor_with_signal_sha: diagnoses and verdict.
Verdict(snap, diagnoses) ==
    LET statuses == {diagnoses[k] : k \in DOMAIN diagnoses}
    IN  CASE \E g \in snap.gaps : g.surface = "target" -> "inconclusive"
          [] OTHER ->
             IF statuses \cap {"pending", "failed", "missing", "source_mismatch"} # {}
             THEN "checks_blocked"
             ELSE IF snap.gaps # {} \/ "source_unknown" \in statuses
             THEN "inconclusive"
             ELSE "checks_clear"

\* The actions of the same function.
NextActions(snap, diagnoses) ==
    LET all  == {ActionFor(diagnoses[k]) : k \in
                   {d \in DOMAIN diagnoses : diagnoses[d] # "satisfied"}}
        kept == IF \E g \in snap.gaps : g.surface = "target"
                THEN {a \in all : SafeForProvisional(a)}
                ELSE all
    IN  kept \cup IF snap.gaps # {} THEN {"complete_collection"} ELSE {}

\* validate_evaluation_target
ValidEvaluationTarget(target) ==
    LET e == target.evaluation
    IN  CASE e.kind = "pr_head" ->
                 e.sha = target.head /\ e.base = None /\ e.entry = None
          [] e.kind = "test_merge" ->
                 /\ e.sha \notin {target.head, target.base}
                 /\ e.base = target.base
                 /\ e.entry = None
          [] e.kind = "merge_group" ->
                 /\ e.sha # target.head
                 /\ e.base \notin {None, e.sha}
                 /\ e.entry # None

\* validate_snapshot and validate_snapshot_v2: what relates two fields; the
\* formats and lengths of single fields are not modelled.
ValidSnapshot(snap) ==
    /\ snap.complete <=> snap.gaps = {}
    /\ \A c, d \in snap.checks : c.id = d.id => c = d
    /\ \A s, t \in snap.statuses : s.id = t.id => s = t
    /\ ValidEvaluationTarget(snap.target)
    /\ snap.signal = snap.target.evaluation.sha

\* evaluate_pull_request_doctor_v2
EvaluateV2(snap) ==
    LET diagnoses == [k \in snap.requirements |-> DiagnoseRequirement(snap, k)]
        selected  == snap.target.evaluation.resolution = "selected"
        actions   == NextActions(snap, diagnoses)
    IN  [diagnoses |-> diagnoses,
         verdict   |-> IF selected THEN Verdict(snap, diagnoses) ELSE "inconclusive",
         supported |-> /\ selected
                       /\ snap.complete
                       /\ \A g \in snap.gaps : g.surface # "target",
         actions   |-> IF selected THEN actions
                       ELSE {a \in actions : SafeForProvisional(a)}
                            \cup {"complete_collection"}]

\* The requirements whose absence is investigated.
Eligible(snap, report) ==
    IF snap.target.evaluation.kind \in {"pr_head", "merge_group"}
    THEN {k \in DOMAIN report.diagnoses : report.diagnoses[k] = "missing" /\ k.app # None}
    ELSE {}

\* validate_workflow_collection: the inventory and the probes.
ValidProbes(snap, coll) ==
    /\ coll.inventory # None => coll.sha = snap.signal
    /\ \A p, q \in coll.probes : (p.sha = q.sha \/ p.kind = q.kind) => p = q
    /\ \A p \in coll.probes :
         /\ p.sha # snap.signal
         /\ p.kind = "base" => p.sha = snap.target.base
         /\ p.kind = "head" => p.sha = snap.target.head
         /\ p.kind = "test_merge" => p.sha \notin {snap.target.head, snap.target.base}

\* Its statuses: what each of them promises.
ValidCollectionStatus(coll) ==
    LET items == coll.items
    IN  CASE coll.status = "not_applicable" ->
                 /\ coll.calls = 0 /\ coll.inventory = None /\ coll.probes = {}
                 /\ coll.gaps = {} /\ DOMAIN items = {}
          [] coll.status = "complete" ->
                 /\ coll.calls > 0 /\ coll.inventory # None /\ coll.gaps = {}
                 /\ DOMAIN items # {}
                 /\ \A k \in DOMAIN items : items[k].input # None
          [] coll.status = "partial" -> coll.gaps # {} /\ DOMAIN items # {}

\* Its investigations: an input is backed by a producer and by the inventory.
ValidInvestigation(snap, coll, k) ==
    LET item     == coll.items[k]
        producer == item.producer
        input    == item.input
        keyed    == \E g \in coll.gaps : g.key = k
    IN  /\ k.app # None
        /\ producer # None =>
             /\ producer.sha \in {p.sha : p \in coll.probes}
             /\ snap.target.evaluation.kind = "pr_head" => producer.sha = snap.target.base
             /\ producer.app = k.app
        /\ input = None <=> keyed
        /\ input # None =>
             /\ producer # None
             /\ input.context = k.context
             /\ input.sha = snap.signal
             /\ input.head = snap.target.head
             /\ IF snap.target.evaluation.kind = "pr_head"
                THEN \/ \E r \in input.runs : r.event = "pull_request"
                     \/ input.changed.complete /\ ~input.changed.limit
                ELSE ~input.changed.complete /\ input.changed.total = 0
             /\ \A w \in input.workflows : w.path = producer.path /\ w.state = "active"
             /\ \A r \in input.runs : r.path = producer.path
             /\ \A f \in coll.inventory, j \in JobsOf(coll.inventory) :
                  j \in f.jobs => /\ j.static /\ ~j.reusable
                                 /\ (j.name = k.context => f.path = producer.path)
             /\ ValidInput(input)

\* validate_workflow_collection
ValidWorkflowCollection(snap, coll, report) ==
    /\ ValidProbes(snap, coll)
    /\ ValidCollectionStatus(coll)
    /\ DOMAIN coll.items = Eligible(snap, report)
    /\ \A k \in DOMAIN coll.items : ValidInvestigation(snap, coll, k)
    /\ \A g \in coll.gaps : g.key \in DOMAIN coll.items
    /\ (DOMAIN coll.items # {} /\ coll.status # "partial") =>
         \E p \in coll.probes : p.kind = IF snap.target.evaluation.kind = "pr_head"
                                        THEN "base" ELSE "head"

\* The causes evaluate_pull_request_doctor_v3 is prepared to report.
SupportedCause(kind, cause) ==
    \/ cause \in {"fork_approval_required", "none", "workflow_trigger_unknown"}
    \/ kind = "merge_group" /\ cause = "merge_group_trigger_missing"
    \/ kind = "pr_head" /\ cause \in {"pull_request_trigger_missing",
             "workflow_branch_filter_excluded", "workflow_path_filter_excluded"}

\* evaluate_pull_request_doctor_v3: "invalid" when a validation fails.
EvaluateV3(snap, coll) ==
    LET report == EvaluateV2(snap)
        causes == [k \in DOMAIN coll.items |->
                     IF coll.items[k].input = None THEN None
                     ELSE ClassifyWorkflowTrigger(coll.items[k].input)]
    IN  IF /\ ValidSnapshot(snap)
           /\ ValidWorkflowCollection(snap, coll, report)
           /\ \A k \in DOMAIN causes : causes[k] # None =>
                SupportedCause(snap.target.evaluation.kind, causes[k].cause)
        THEN [kind |-> "report", report |-> report, causes |-> causes]
        ELSE [kind |-> "invalid"]

-----------------------------------------------------------------------------
(* doctor_candidate.rs: which commit GitHub evaluates.                     *)

\* validate_target and validate_queue_entry
ValidTarget(t) ==
    /\ t.open
    /\ t.base # t.head
    /\ t.potential # t.head
    /\ t.inQueue => t.queueOn
    /\ t.entry # None => /\ t.inQueue
                         /\ t.entry.base # t.entry.head
                         /\ t.entry.head # t.head

\* observed_signal
ObservedSignal(s) == s.checks > 0 \/ s.statuses > 0

\* unresolved
Unresolved(status, reason) ==
    [status |-> status, kind |-> None, sha |-> None, base |-> None, entry |-> None,
     reason |-> reason]

\* selected
SelectedAs(kind, sha, base, entry, reason) ==
    [status |-> "selected", kind |-> kind, sha |-> sha, base |-> base,
     entry |-> entry, reason |-> reason]

\* select_candidate; signals is the set of [sha, checks, statuses, complete].
SelectCandidate(before, after, signals) ==
    LET merge == {s \in signals : s.sha = after.potential}
    IN  CASE before # after -> Unresolved("retry", "target_drift")
          [] OTHER ->
             CASE after.inQueue /\ after.entry = None ->
                      Unresolved("inconclusive", "queue_entry_unavailable")
               [] after.inQueue /\ after.entry # None ->
                      SelectedAs("merge_group", after.entry.head, after.entry.base,
                                 after.entry.id, "queue_entry_candidate")
               [] ~after.inQueue /\ after.potential = None ->
                      Unresolved("inconclusive", "potential_merge_unavailable")
               [] ~after.inQueue /\ after.potential # None ->
                      IF \E s \in merge : ObservedSignal(s)
                      THEN SelectedAs("test_merge", after.potential, after.base, None,
                                      "test_merge_signal")
                      ELSE IF \E s \in merge : s.complete
                      THEN SelectedAs("pr_head", after.head, None, None, "test_merge_empty")
                      ELSE Unresolved("inconclusive", "signal_surface_gap")
=============================================================================
