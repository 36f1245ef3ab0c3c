------------------------------- MODULE Audit -------------------------------
(***************************************************************************)
(* collect_merge_readiness_snapshot of src/src/readiness_audit.rs and the  *)
(* readiness-audit command of src/src/main.rs.  It shares ApiBudget, and   *)
(* so the variables and the page loop, with DoctorCollection; unlike the   *)
(* doctor it reads every surface once.                                     *)
(*                                                                         *)
(* gh is the repository: rulesets, rules, protected (branches), classic    *)
(* (classic protection exists), pulls (most recently updated first),       *)
(* checks, statuses and runs by commit, workflows, head (of the default    *)
(* branch) and files (the workflow files by commit).                       *)
(***************************************************************************)
EXTENDS DoctorCollection, Readiness

CONSTANTS
    DefaultBranch,      \* its name
    PullLimit,          \* pull_request_limit
    DefaultPageSize     \* how many rules GitHub serves when per_page is not given

ASSUME AuditAssumption == PullLimit \in Nat \ {0} /\ DefaultPageSize \in Nat \ {0}

\* What has been read.  todo is the pull requests, then the workflows, that
\* remain to be looked at.
Audit0 == [head |-> None, rules |-> {}, protected |-> FALSE, gaps |-> {}, todo |-> <<>>,
           pulls |-> <<>>, ids |-> {}, workflows |-> {}]

\* add_gap
WithGap(w, surface, gap) == [w EXCEPT !.gaps = @ \cup IF gap = {} THEN {} ELSE {surface}]

-----------------------------------------------------------------------------
(* The branch policy.                                                      *)

AuditRepository ==
    pc = "a_repository" /\ \E answer \in Answers("repository") :
       /\ Request(answer)
       /\ IF answer = Refused THEN Abort ELSE Continue("a_reference", work)

\* The head of the default branch: its workflow files will be read.
AuditReference ==
    pc = "a_reference" /\ \E answer \in Answers(gh.head) :
       /\ Request(answer)
       /\ IF answer = Refused THEN Abort ELSE Continue("a_rulesets", [work EXCEPT !.head = answer])

\* collect_rulesets, which name the rules
AuditRulesets ==
    pc = "a_rulesets" /\ \E answer \in Answers(gh.rulesets) :
       LET Done(c) == Continue("a_rules", WithGap(work, "rulesets", c.gap))
       IN  /\ Request(answer)
           /\ PageStep(IF answer = Refused THEN FailedPage(cursor)
                       ELSE RulesetsPage(cursor, answer), Done)

\* One request, without a page.
ServedRules(rules) ==
    SubSeq(rules, 1, IF Len(rules) < DefaultPageSize THEN Len(rules) ELSE DefaultPageSize)

\* collect_effective_rules
AuditRules ==
    pc = "a_rules" /\ \E answer \in Answers(ServedRules(gh.rules)) :
       /\ Request(answer)
       /\ Continue("a_branches",
              IF answer = Refused THEN WithGap(work, "effective_rules", {"http"})
              ELSE [work EXCEPT !.rules = Elements(answer)])

\* required_checks_from_rules: the rules ask for checks, so pull requests are
\* sampled.
RequiredChecks(rules) ==
    {[context |-> r.context, app |-> r.app] : r \in
        {q \in rules : q.kind = "required_status_checks"}}

AfterPolicy(w) == IF RequiredChecks(w.rules) = {} THEN "a_report" ELSE "a_pulls"

\* collect_branch_protection: the protected branches, until the default one.
AuditBranches ==
    pc = "a_branches" /\ \E answer \in Answers(gh.protected) :
       LET Done(c) ==
             LET w == WithGap(work, "repository", c.gap)
             IN  IF answer # Refused /\ DefaultBranch \in IdsOf(c.items)
                 THEN Continue("a_protection", w) ELSE Continue(AfterPolicy(w), w)
       IN  /\ Request(answer)
           /\ PageStep(IF answer = Refused THEN FailedPage(cursor)
                       ELSE BranchesPage(cursor, answer, DefaultBranch), Done)

\* Its second part.  The checks of a classic protection are not encoded, so
\* every answer is a gap.
AuditProtection ==
    pc = "a_protection" /\ \E answer \in Answers(gh.classic) :
       LET w == WithGap(work, "effective_rules", {"classic"})
       IN  /\ Request(answer)
           /\ Continue(AfterPolicy(w), [w EXCEPT !.protected = answer = TRUE])

-----------------------------------------------------------------------------
(* collect_pull_observations                                               *)

Sampled(pull) == [id |-> pull.id, head |-> pull.head, complete |-> TRUE,
                  checks |-> <<>>, statuses |-> <<>>, runs |-> <<>>]

\* relevant_workflow_ids
RelevantWorkflowIds(contexts, pulls) ==
    {RunOf(p, c.suite).workflow : <<p, c>> \in
        UNION {{<<p, c>> : c \in {d \in Members(p.checks) :
                                     d.name \in contexts /\ RunOf(p, d.suite) # None}} : p \in pulls}}

\* The next pull request, or the workflows of those that have been read
\* (collect_relevant_workflows).
NextPull(w) ==
    LET contexts == {r.context : r \in RequiredChecks(w.rules)}
        ids      == RelevantWorkflowIds(contexts, Elements(w.pulls))
    IN  IF w.todo # <<>> THEN Continue("a_checks", w)
        ELSE Continue(IF ids = {} THEN "a_report" ELSE "a_inventory", [w EXCEPT !.ids = ids])

AuditPulls ==
    pc = "a_pulls" /\ \E answer \in Answers(gh.pulls) :
       LET Done(c) == NextPull([WithGap(work, "pull_requests", c.gap) EXCEPT !.todo = c.items])
       IN  /\ Request(answer)
           /\ PageStep(IF answer = Refused THEN FailedPage(cursor)
                       ELSE PullsPage(cursor, answer, PullLimit), Done)

Head1 == work.todo[1].head

\* A surface of the pull request that is being read; a gap makes it partial.
\* An incomplete list would still pass for a complete one.
TakeSilently(w, surface, field, c) ==
    [w EXCEPT !.pulls[Len(w.pulls)] = [@ EXCEPT ![field] = c.items]]
Take(w, surface, field, c) ==
    [WithGap(w, surface, c.gap) EXCEPT
        !.pulls[Len(w.pulls)] = [w.pulls[Len(w.pulls)] EXCEPT
             ![field] = c.items, !.complete = w.pulls[Len(w.pulls)].complete /\ c.gap = {}]]

AuditChecks ==
    pc = "a_checks" /\ \E answer \in Answers(gh.checks[Head1]) :
       LET Done(c) == Continue("a_statuses",
                        Take([work EXCEPT !.pulls = Append(@, Sampled(work.todo[1]))],
                             "check_runs", "checks", c))
       IN  /\ Request(answer)
           /\ PageStep(IF answer = Refused THEN FailedPage(cursor)
                       ELSE AuditCheckRunsPage(cursor, answer), Done)

AuditStatuses ==
    pc = "a_statuses" /\ \E answer \in Answers(gh.statuses[Head1]) :
       LET Done(c) == Continue("a_runs", Take(work, "commit_statuses", "statuses", c))
       IN  /\ Request(answer)
           /\ PageStep(IF answer = Refused THEN FailedPage(cursor)
                       ELSE AuditStatusesPage(cursor, answer), Done)

AuditRuns ==
    pc = "a_runs" /\ \E answer \in Answers(gh.runs[Head1]) :
       LET Done(c) == NextPull([Take(work, "workflow_runs", "runs", c) EXCEPT !.todo = Tail(@)])
       IN  /\ Request(answer)
           /\ PageStep(IF answer = Refused THEN FailedPage(cursor)
                       ELSE AuditWorkflowRunsPage(cursor, answer), Done)

-----------------------------------------------------------------------------
(* collect_relevant_workflows                                              *)

\* The inventory, of which the relevant workflows are taken one by one.
AuditInventory ==
    pc = "a_inventory" /\ \E answer \in Answers(gh.workflows) :
       LET Done(c) == Continue("a_workflow",
                        [WithGap(work, "workflows", c.gap) EXCEPT
                            !.todo = SelectSeq(c.items, LAMBDA w : w.id \in work.ids)])
       IN  /\ Request(answer)
           /\ PageStep(IF answer = Refused THEN FailedPage(cursor)
                       ELSE InventoryPage(cursor, answer), Done)

\* parse_workflow_definition: on is None for a file that cannot be decoded,
\* and else the events it names with the parameters of their triggers.
ParseWorkflowDefinition(on) ==
    [event \in {"pull_request", "pull_request_target", "merge_group"} |->
        IF event \in DOMAIN on THEN on[event] ELSE None]

Described(workflow, definition) ==
    [id |-> workflow.id, path |-> workflow.path, state |-> workflow.state,
     definition |-> definition]

\* An active workflow's file at the head that was read at first; the file may
\* not be there.
FileAt(sha, path) == {f \in gh.files[sha] : f.path = path}

AuditDefinition ==
    /\ pc = "a_workflow" /\ work.todo # <<>>
    /\ work.todo[1].state = "active"
    /\ \E file \in Answers(FileAt(work.head, work.todo[1].path)) :
          LET on == IF file \in {Refused, {}} THEN None ELSE (CHOOSE f \in file : TRUE).on
              w  == [work EXCEPT !.todo = Tail(@),
                       !.workflows = @ \cup {Described(work.todo[1],
                           IF on = None THEN None ELSE ParseWorkflowDefinition(on))}]
          IN  /\ Request(file)
              /\ Continue("a_workflow",
                     IF on = None THEN WithGap(w, "workflow_definitions", {"definition"}) ELSE w)

\* A disabled workflow is listed without its file.
AuditDisabled ==
    /\ outcome = None
    /\ pc = "a_workflow" /\ work.todo # <<>>
    /\ work.todo[1].state # "active"
    /\ Continue("a_workflow",
           [work EXCEPT !.todo = Tail(@), !.workflows = @ \cup {Described(work.todo[1], None)}])
    /\ UNCHANGED <<gh, seen, changes, faults, requests>>

-----------------------------------------------------------------------------

\* MergeReadinessSnapshot
ReadinessSnapshot(w) ==
    [gaps      |-> w.gaps,
     policy    |-> [protected |-> w.protected,
                    pull      |-> \E r \in w.rules : r.kind = "pull_request",
                    queue     |-> \E r \in w.rules : r.kind = "merge_queue",
                    required  |-> RequiredChecks(w.rules)],
     pulls     |-> w.pulls,
     workflows |-> w.workflows]

AuditReport ==
    /\ outcome = None
    /\ pc \in {"a_report", "a_workflow"}
    /\ pc = "a_workflow" => work.todo = <<>>
    /\ outcome' = EvaluateMergeReadiness(ReadinessSnapshot(work))
    /\ pc' = "done"
    /\ UNCHANGED <<gh, seen, changes, faults, requests, cursor, work, inv, snaps, invs>>

\* GitHub, external: a check is started again and moves to the front; a pull
\* request is updated; a check is required; the branch gets classic protection.
RestartCheck ==
    \E sha \in DOMAIN gh.checks : \E n \in DOMAIN gh.checks[sha] :
       LET old == gh.checks[sha][n]
       IN  Changed([gh EXCEPT !.checks[sha] =
               <<[old EXCEPT !.id = NewId]>> \o SelectSeq(@, LAMBDA c : c # old)])

UpdatePull ==
    \E n \in DOMAIN gh.pulls \ {1} :
       LET old == gh.pulls[n]
       IN  Changed([gh EXCEPT !.pulls = <<old>> \o SelectSeq(@, LAMBDA p : p # old)])

SwapProtection ==
    Changed([gh EXCEPT !.rules = <<>>, !.protected = <<[id |-> DefaultBranch]>>, !.classic = TRUE])

AuditInit ==
    /\ gh \in StartStates
    /\ seen = {gh}
    /\ changes = 0
    /\ faults = 0
    /\ requests = 0
    /\ pc = "a_repository"
    /\ cursor = Cursor0
    /\ work = Audit0
    /\ inv = Inv0({})
    /\ snaps = <<>>
    /\ invs = <<>>
    /\ outcome = None

Auditor ==
    \/ AuditRepository \/ AuditReference \/ AuditRulesets \/ AuditRules
    \/ AuditBranches \/ AuditProtection
    \/ AuditPulls \/ AuditChecks \/ AuditStatuses \/ AuditRuns
    \/ AuditInventory \/ AuditDefinition \/ AuditDisabled \/ AuditReport
    \/ OverBudget

Repository == RestartCheck \/ UpdatePull \/ SwapProtection

AuditNext == Auditor \/ Repository

AuditSpec == AuditInit /\ [][AuditNext]_vars

-----------------------------------------------------------------------------
(* Properties.                                                             *)

\* The repository as it is has a gate, and every check it requires is pinned
\* to an app that reported it on every pull request of the sample; one that
\* comes from Actions is traced to one active workflow that no path filter
\* and no missing trigger keeps from running.
SampleOf(g) ==
    LET eligible == SelectSeq(g.pulls, LAMBDA p : p.state \in {"open", "merged"})
    IN  {eligible[i] : i \in {j \in DOMAIN eligible : j <= PullLimit}}

WorkflowsBehind(g, context) ==
    {r.workflow : r \in UNION {
        {q \in Elements(g.runs[p.head]) : \E c \in Elements(g.checks[p.head]) :
             c.name = context /\ c.app = Actions /\ c.suite = q.suite} : p \in SampleOf(g)}}

CanRun(g, id, queue) ==
    \E w \in Elements(g.workflows) :
       /\ w.id = id /\ w.state = "active"
       /\ \E f \in g.files[g.head] :
             /\ f.path = w.path /\ f.on # None
             /\ \A event \in DOMAIN f.on : f.on[event] = [paths |-> <<>>, pathsIgnore |-> <<>>]
             /\ queue => "merge_group" \in DOMAIN f.on

Gated(g) ==
    LET rules    == Elements(g.rules)
        required == RequiredChecks(rules)
        queue    == \E r \in rules : r.kind = "merge_queue"
    IN  /\ required # {} \/ \E r \in rules : r.kind = "pull_request"
        /\ \A r \in required :
             /\ r.app # None /\ SampleOf(g) # {}
             /\ \A p \in SampleOf(g) : \E c \in Elements(g.checks[p.head]) :
                   c.name = r.context /\ c.app = r.app
             /\ r.app = Actions =>
                   /\ Cardinality(WorkflowsBehind(g, r.context)) = 1
                   /\ \A id \in WorkflowsBehind(g, r.context) : CanRun(g, id, queue)
             /\ r.app # Actions => ~queue

Clean == outcome # None /\ outcome.kind = "audit" /\ outcome.verdict = "no_observed_risk"

\* "No observed risk" is earned: lists of several pages, refused requests,
\* files that cannot be read and runs that cannot be joined never end in it
\* unless the repository has its gates in order; and when the repository
\* changes meanwhile, every required check was at some instant reported by
\* its app on every sampled head.
CleanIsEarned ==
    Clean =>
        /\ changes = 0 => Gated(gh)
        /\ \A r \in outcome.snapshot.policy.required :
             \A p \in Elements(outcome.snapshot.pulls) : \E g \in seen :
                \E c \in Elements(g.checks[p.head]) : c.name = r.context /\ c.app = r.app

=============================================================================
