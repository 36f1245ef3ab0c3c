-------------------------- MODULE DoctorCollection --------------------------
(***************************************************************************)
(* collect_pull_request_doctor_snapshot_v3 of src/src/readiness_audit.rs:  *)
(* the doctor reads a pull request through many API calls, page by page,   *)
(* while the pull request goes on living.  A snapshot is read three times  *)
(* and the investigation of missing checks twice, and only answers that    *)
(* agree are reported.                                                     *)
(*                                                                         *)
(* GitHub is external: gh is what it would answer now, and the actions of  *)
(* the second half change it between any two calls.  seen is a history     *)
(* variable, every state GitHub had since the doctor began.                *)
(***************************************************************************)
EXTENDS DoctorReport, Pages

CONSTANTS
    Definitions,    \* Definitions[sha]: the workflow files of a commit
    StartStates,    \* what GitHub may look like when the doctor begins
    Branch,         \* the base branch, a sequence of characters
    OtherPulls,     \* pull requests a push may turn the pull request into
    MaxFiles,       \* MAX_GITHUB_PATH_FILTER_FILES
    MaxRequests,    \* MAX_READINESS_API_REQUESTS
    MaxDisturbances \* bound: changes of GitHub and refused requests during a collection

VARIABLES
    gh,         \* GitHub
    seen,       \* history: the states of gh so far
    changes,    \* changes made to gh
    faults,     \* requests refused
    requests,   \* ApiBudget.requests
    pc,         \* the next call
    cursor,     \* the page loop in progress
    work,       \* the snapshot in progress
    inv,        \* the investigation in progress
    snaps,      \* finished snapshots
    invs,       \* finished investigations
    outcome     \* None, an error or the report

github == <<gh, seen, changes>>
doctor == <<faults, requests, pc, cursor, work, inv, snaps, invs, outcome>>
vars == <<gh, seen, changes, faults, requests, pc, cursor, work, inv, snaps, invs, outcome>>

Refused == None

Elements(list) == {list[i] : i \in DOMAIN list}

Gap(surface, code) == [surface |-> surface, code |-> code]

\* What a snapshot pass has read so far.
Work0 == [pull |-> None, obs |-> None, policy |-> None, rules |-> {}, classic |-> {},
          policyGaps |-> {}, todo |-> <<>>, signals |-> <<>>, evaluation |-> None, gaps |-> {}]

-----------------------------------------------------------------------------
(* One API call.                                                           *)

\* ApiBudget::get and ApiBudget::graphql: one request more, refused or not.
Request(answer) ==
    /\ outcome = None
    /\ requests < MaxRequests
    /\ requests' = requests + 1
    /\ faults' = IF answer = Refused THEN faults + 1 ELSE faults
    /\ UNCHANGED github

Answers(value) == {value} \cup IF changes + faults < MaxDisturbances THEN {Refused} ELSE {}

\* The call that would exceed the budget fails the whole collection.
OverBudget ==
    /\ outcome = None
    /\ pc # "done"
    /\ requests = MaxRequests
    /\ outcome' = [kind |-> "error"]
    /\ UNCHANGED <<gh, seen, changes, faults, requests, pc, cursor, work, inv, snaps, invs>>

\* A failed ensure!
Abort == /\ outcome' = [kind |-> "error"]
         /\ UNCHANGED <<pc, cursor, work, inv, snaps, invs>>

Continue(next, w) == /\ pc' = next
                     /\ work' = w
                     /\ cursor' = Cursor0
                     /\ UNCHANGED <<inv, snaps, invs, outcome>>

\* The page loop turns, or ends and hands its cursor to Done.
PageStep(c, Done(_)) ==
    IF c.error THEN Abort
    ELSE IF c.done THEN Done(c)
    ELSE /\ cursor' = c
         /\ UNCHANGED <<pc, work, inv, snaps, invs, outcome>>

-----------------------------------------------------------------------------
(* collect_pull_request_doctor_snapshot_with_budget                        *)

\* The pull request, which must be open (validate_doctor_pull).
ReadPull ==
    pc = "pull" /\ \E answer \in Answers(gh.pull) :
       /\ Request(answer)
       /\ IF answer = Refused THEN Abort
          ELSE IF ~answer.open THEN Abort
          ELSE Continue("repository", [work EXCEPT !.pull = answer])

ReadRepository ==
    pc = "repository" /\ \E answer \in Answers("repository") :
       /\ Request(answer)
       /\ IF answer = Refused THEN Abort ELSE Continue("candidate", work)

\* What GraphQL says of the candidate commit, and when it contradicts the
\* pull request that was read before (collect_doctor_candidate_observation).
Observation(g) == [open |-> g.pull.open, base |-> g.pull.base, head |-> g.pull.head,
                   merge |-> g.pull.merge, queueOn |-> g.queue.on, inQueue |-> g.queue.in, entry |-> g.queue.entry]

Contradicts(obs, pull) ==
    \/ ~obs.open \/ obs.base # pull.base \/ obs.head # pull.head
    \/ obs.merge # None /\ pull.merge # None /\ obs.merge # pull.merge
    \/ obs.entry # None /\ ~obs.inQueue
    \/ obs.inQueue /\ ~obs.queueOn
    \/ /\ obs.entry # None
       /\ obs.entry.head \in {pull.head, obs.entry.base}

ReadCandidate ==
    pc = "candidate" /\ \E answer \in Answers(Observation(gh)) :
       /\ Request(answer)
       /\ IF answer = Refused
          THEN Continue("rules", [work EXCEPT !.gaps = @ \cup {Gap("target", "graphql")}])
          ELSE IF Contradicts(answer, work.pull) THEN Abort
          ELSE Continue("rules", [work EXCEPT !.obs = answer])

\* collect_doctor_effective_requirements
ReadRules ==
    pc = "rules" /\ \E answer \in Answers(gh.rules) :
       LET Done(c) == Continue("branch",
               [work EXCEPT !.rules = Elements(c.items),
                            !.policyGaps = @ \cup
                               {Gap("requirements", g) : g \in c.gap} \cup
                               IF answer = Refused THEN {Gap("target", "rules")} ELSE {}])
       IN  /\ Request(answer)
           /\ PageStep(IF answer = Refused THEN FailedPage(cursor)
                       ELSE RulesPage(cursor, answer), Done)

\* collect_doctor_classic_requirements: is the branch protected?
ReadBranch ==
    pc = "branch" /\ \E answer \in Answers(gh.classic.protected) :
       /\ Request(answer)
       /\ IF answer = FALSE THEN Continue("policy", work)
          ELSE Continue("protection",
                   [work EXCEPT !.policyGaps = @ \cup
                       IF answer = Refused THEN {Gap("requirements", "branch")} ELSE {}])

\* Its second call: the checks of the classic protection.
ReadProtection ==
    pc = "protection" /\ \E answer \in Answers(gh.classic.checks) :
       /\ Request(answer)
       /\ Continue("policy",
              IF answer = Refused
              THEN [work EXCEPT !.policyGaps = @ \cup {Gap("requirements", "protection")}]
              ELSE [work EXCEPT !.classic = answer])

\* collect_doctor_policy_snapshot
Policy(w) == [queue     |-> \E r \in w.rules : r.kind = "merge_queue",
              workflows |-> \E r \in w.rules : r.kind = "workflows",
              keys      |-> w.classic \cup
                            {[context |-> r.context, app |-> r.app] : r \in
                                {q \in w.rules : q.kind = "required_status_checks"}},
              gaps      |-> w.policyGaps]

\* The potential merge commit: GraphQL's, or else the pull request's.
TestMerge(pull, obs) == IF obs # None /\ obs.merge # None THEN obs.merge ELSE pull.merge

\* The commits whose signals are read.
SignalShas(w) ==
    LET merge == TestMerge(w.pull, w.obs)
    IN  IF w.obs # None /\ w.obs.entry # None THEN <<w.obs.entry.head>>
        ELSE IF w.obs # None /\ w.obs.inQueue THEN <<w.pull.head>>
        ELSE <<w.pull.head>> \o
             IF merge \in {None, w.pull.head} THEN <<>> ELSE <<merge>>

\* What the target gaps of the policy and the candidate are.
TargetGaps(w, policy) ==
    LET merge == TestMerge(w.pull, w.obs)
    IN  {Gap("target", code) : code \in
           (IF policy.workflows THEN {"required_workflows"} ELSE {}) \cup
           (IF policy.queue /\ w.obs = None THEN {"queue_unknown"} ELSE {}) \cup
           (IF w.obs # None /\ w.obs.inQueue THEN {"queue"} ELSE {}) \cup
           (IF ~(w.obs # None /\ w.obs.inQueue) /\ merge \in {None, w.pull.head}
            THEN {"no_test_merge"} ELSE {})}

\* The first policy is kept; the second must be the same.
NeverDrifts(w, policy) == FALSE
Drifted(w, policy) == w.policy # None /\ policy # w.policy

-----------------------------------------------------------------------------
(* The signals of a commit.                                                *)

\* The gaps of the test merge are gaps of the target, not of the signals.
SignalGaps(w, surface, gap) ==
    {IF w.todo[1] = w.pull.head \/ (w.obs # None /\ w.obs.inQueue)
     THEN Gap(surface, g) ELSE Gap("target", "probe") : g \in gap}

ReadCheckRuns ==
    pc = "checks" /\ \E answer \in Answers(gh.checks[work.todo[1]]) :
       LET Done(c) == Continue("statuses",
               [work EXCEPT !.gaps = @ \cup SignalGaps(work, "check_runs", c.gap),
                            !.signals = @ \o <<[sha |-> work.todo[1], checks |-> Len(c.items),
                                               statuses |-> 0, complete |-> c.gap = {},
                                               of |-> [checks |-> Elements(c.items), statuses |-> {}]]>>])
       IN  /\ Request(answer)
           /\ PageStep(IF answer = Refused THEN FailedPage(cursor)
                       ELSE CheckRunsPage(cursor, answer), Done)

ReadStatuses ==
    pc = "statuses" /\ \E answer \in Answers(gh.statuses[work.todo[1]]) :
       LET n == Len(work.signals)
           Done(c) == Continue(IF Len(work.todo) = 1 THEN "reread_pull" ELSE "checks",
               [work EXCEPT !.todo = Tail(@),
                            !.gaps = @ \cup SignalGaps(work, "commit_statuses", c.gap),
                            !.signals[n].statuses = Len(c.items),
                            !.signals[n].complete = @ /\ c.gap = {},
                            !.signals[n].of.statuses = Elements(c.items)])
       IN  /\ Request(answer)
           /\ PageStep(IF answer = Refused THEN FailedPage(cursor)
                       ELSE StatusesPage(cursor, answer), Done)

-----------------------------------------------------------------------------
(* The evaluated commit, and the second look at everything.                *)

\* The evaluation target the signals lead to.
Evaluation(w) ==
    LET probed == Len(w.signals) = 2
        Target(kind, resolution, sha, base, entry) ==
            [kind |-> kind, resolution |-> resolution, sha |-> sha, base |-> base,
             entry |-> entry]
    IN  CASE w.obs # None /\ w.obs.entry # None ->
               Target("merge_group", "provisional", w.obs.entry.head, w.obs.entry.base,
                      w.obs.entry.id)
          [] probed /\ ObservedSignal(w.signals[2]) ->
               Target("test_merge", "selected", w.signals[2].sha, w.pull.base, None)
          [] OTHER ->
               Target("pr_head",
                      IF probed /\ w.signals[2].complete THEN "selected" ELSE "provisional",
                      w.pull.head, None, None)

\* candidate_target_identity
TargetIdentity(pull, obs, policy) ==
    LET merge == TestMerge(pull, obs)
    IN  [open      |-> pull.open,
         base      |-> pull.base,
         head      |-> pull.head,
         queueOn   |-> policy.queue \/ (obs # None /\ obs.queueOn),
         inQueue   |-> obs # None /\ obs.inQueue,
         potential |-> IF merge = pull.head THEN None ELSE merge,
         entry     |-> IF obs = None THEN None ELSE obs.entry]

\* The pull request must not have changed in any field.
RereadPull ==
    pc = "reread_pull" /\ \E answer \in Answers(gh.pull) :
       /\ Request(answer)
       /\ IF answer = Refused THEN Abort
          ELSE IF answer # work.pull THEN Abort ELSE Continue("reread_candidate", work)

\* select_candidate must agree with the target the signals led to.
Agrees(selection, e) ==
    CASE selection.status = "retry"        -> FALSE
      [] selection.status = "inconclusive" -> e.resolution = "provisional"
      [] selection.status = "selected"     ->
             /\ selection.kind = e.kind /\ selection.sha = e.sha
             /\ selection.base = e.base /\ selection.entry = e.entry

RereadCandidate ==
    pc = "reread_candidate" /\ \E answer \in Answers(Observation(gh)) :
       LET obs    == IF answer = Refused THEN None ELSE answer
           e      == IF None \in {obs, work.obs}
                     THEN [Evaluation(work) EXCEPT !.resolution = "provisional"]
                     ELSE Evaluation(work)
           before == TargetIdentity(work.pull, work.obs, work.policy)
           after  == TargetIdentity(work.pull, obs, work.policy)
           signals == {[sha |-> s.sha, checks |-> s.checks, statuses |-> s.statuses,
                        complete |-> s.complete] : s \in Elements(work.signals)}
       IN  /\ Request(answer)
           /\ IF \/ obs # None /\ Contradicts(obs, work.pull)
                 \/ ~ValidTarget(before) \/ ~ValidTarget(after)
                 \/ ~Agrees(SelectCandidate(before, after, signals), e)
              THEN Abort
              ELSE Continue("rules",
                     [work EXCEPT !.evaluation = e, !.rules = {}, !.classic = {},
                                  !.policyGaps = {},
                                  !.gaps = @ \cup IF obs = None THEN {Gap("target", "graphql"), Gap("target", "final")}
                                                  ELSE {}])

\* PullRequestDoctorSnapshotV2
Snapshot(w) ==
    LET of == (CHOOSE s \in Elements(w.signals) : s.sha = w.evaluation.sha).of
    IN  [target       |-> [base |-> w.pull.base, head |-> w.pull.head,
                           evaluation |-> w.evaluation],
         signal       |-> w.evaluation.sha,
         complete     |-> w.gaps = {},
         gaps         |-> w.gaps,
         requirements |-> w.policy.keys,
         checks       |-> of.checks,
         statuses     |-> of.statuses]

-----------------------------------------------------------------------------
(* collect_doctor_workflow_investigations                                  *)

Collection0(keys) ==
    [status |-> "partial", calls |-> 0, sha |-> None, inventory |-> None, probes |-> {},
     gaps |-> {}, items |-> [k \in keys |-> [producer |-> None, input |-> None]]]

\* not_applicable_workflow_collection
NotApplicable == [Collection0({}) EXCEPT !.status = "not_applicable"]

\* The variables of an investigation; todo is the keys not yet looked at.
Inv0(keys) ==
    [coll |-> Collection0(keys), todo |-> keys, pull |-> None, runs |-> <<>>,
     files |-> None, probes |-> {}, whole |-> TRUE, matching |-> {}, links |-> {},
     cache |-> {}, failed |-> FALSE]

KeyGap(keys, code) == {[key |-> k, code |-> code] : k \in keys}

Keys == DOMAIN inv.coll.items
Key == CHOOSE k \in inv.todo : TRUE
Target == snaps[Len(snaps)].target
SignalSha == snaps[Len(snaps)].signal

Investigate(next, i) == /\ pc' = next
                        /\ inv' = [i EXCEPT !.coll.calls = @ + 1]
                        /\ cursor' = Cursor0
                        /\ UNCHANGED <<work, snaps, invs, outcome>>

\* expected_workflow_probes
ExpectedProbes(pull, e) ==
    CASE e.kind = "pr_head" ->
             {p \in {[kind |-> "base", sha |-> pull.base]} : p.sha # e.sha}
      [] e.kind = "merge_group" ->
             {p \in {[kind |-> "test_merge", sha |-> pull.merge]} :
                 p.sha \notin {None, e.sha, pull.head, pull.base}}
             \cup {p \in {[kind |-> "head", sha |-> pull.head]} : p.sha # e.sha}
      [] e.kind = "test_merge" -> {}

\* The pull request must still be the one of the snapshot.
InvestigatePull ==
    pc = "i_pull" /\ \E answer \in Answers(gh.pull) :
       LET probes == ExpectedProbes(answer, Target.evaluation)
       IN  /\ Request(answer)
           /\ IF answer = Refused
              THEN Investigate("i_end", [inv EXCEPT !.coll.gaps = KeyGap(Keys, "pull")])
              ELSE IF ~answer.open \/ answer.base # Target.base \/ answer.head # Target.head
              THEN Abort
              ELSE Investigate("i_inventory",
                     [inv EXCEPT !.pull = answer, !.coll.probes = probes,
                                 !.todo = IF probes = {} THEN {} ELSE inv.todo,
                                 !.coll.gaps = IF probes = {} THEN KeyGap(Keys, "no_probe") ELSE {}])

\* collect_doctor_workflow_inventory: the files of the evaluated commit, all
\* of them parsed or none (parse_doctor_workflow_definition).
InvestigateInventory ==
    pc = "i_inventory" /\ \E answer \in Answers(Definitions[SignalSha]) :
       /\ Request(answer)
       /\ Investigate("i_runs",
             IF answer = Refused
             THEN [inv EXCEPT !.coll.gaps = @ \cup KeyGap(Keys, "inventory")]
             ELSE [inv EXCEPT !.coll.inventory = answer, !.coll.sha = SignalSha])

\* Whether the changed files have to be listed.
FilesListed(i) == Target.evaluation.kind = "pr_head" /\ i.pull.files \in 1..MaxFiles

NoFiles == [complete |-> TRUE, limit |-> FALSE, paths |-> {}, total |-> 0]

AfterRuns(i) ==
    IF Target.evaluation.kind = "pr_head" /\ i.pull.files = 0
    THEN [i EXCEPT !.files = NoFiles] ELSE i

NextKey(i) == IF i.todo = {} THEN "i_final" ELSE "i_producers"

\* The workflow runs of the evaluated commit.
InvestigateRuns ==
    pc = "i_runs" /\ \E answer \in Answers(gh.runs[SignalSha]) :
       LET Done(c) ==
             LET i == AfterRuns([inv EXCEPT !.runs = c.items,
                                   !.coll.gaps = @ \cup IF c.gap = {} THEN {} ELSE KeyGap(Keys, "runs"),
                                   !.whole = c.gap = {}])
             IN  Investigate(IF FilesListed(i) THEN "i_files" ELSE NextKey(i),
                             [i EXCEPT !.probes = i.coll.probes])
       IN  /\ Request(answer)
           /\ PageStep(IF answer = Refused THEN FailedPage(cursor)
                       ELSE WorkflowRunsPage(cursor, answer), Done)

\* collect_doctor_changed_files
InvestigateFiles ==
    pc = "i_files" /\ \E answer \in Answers(gh.files) :
       LET Done(c) ==
             Investigate(NextKey(inv),
               IF c.gap # {} THEN inv
               ELSE [inv EXCEPT !.files = [complete |-> TRUE, limit |-> FALSE,
                                           paths |-> IdsOf(c.items), total |-> Len(c.items)]])
       IN  /\ Request(answer)
           /\ PageStep(IF answer = Refused THEN FailedPage(cursor)
                       ELSE ChangedFilesPage(cursor, answer, inv.pull.files), Done)

\* The next key, with nothing kept of the last one but its result.
NextItem(i) == [i EXCEPT !.todo = i.todo \ {Key}, !.probes = i.coll.probes,
                         !.matching = {}, !.links = {}, !.failed = FALSE]

GiveUp(i, code) == NextItem([i EXCEPT !.coll.gaps = @ \cup KeyGap({Key}, code)])

\* Which checks of a probed commit the required check was produced by.
InvestigateProducers ==
    LET probe == CHOOSE p \in inv.probes : \A q \in inv.probes : p.kind = "test_merge" \/ q = p
        named == SelectSeq(gh.checks[probe.sha],
                           LAMBDA c : c.name = Key.context /\ c.app = Key.app)
    IN  pc = "i_producers" /\ \E answer \in Answers(named) :
          LET Done(c) ==
                LET left == inv.probes \ {probe}
                    i == [inv EXCEPT !.probes = left,
                            !.failed = @ \/ c.gap # {},
                            !.coll.gaps = @ \cup IF c.gap = {} THEN {} ELSE KeyGap({Key}, "producers"),
                            !.matching = @ \cup {[sha |-> probe.sha, check |-> k] : k \in
                                            {k \in Elements(c.items) : k.app = "actions"}}]
                    next == CASE left # {}      -> i
                              [] left = {} /\ i.failed -> NextItem(i)
                              [] OTHER -> IF i.matching = {} THEN GiveUp(i, "no_producer")
                                          ELSE IF \E m \in i.matching : m.check.suite = None
                                          THEN GiveUp(i, "no_suite") ELSE i
                IN  Investigate(IF left # {} THEN "i_producers"
                                ELSE IF next.todo = inv.todo THEN "i_links" ELSE NextKey(next), next)
          IN  /\ Request(answer)
              /\ PageStep(IF answer = Refused THEN FailedPage(cursor)
                          ELSE ProducerPage(cursor, answer), Done)

\* The run of a check suite and its jobs, or why they are not known.  A job
\* of a run is a check of its suite.
SuiteLookup(m) ==
    LET runs == WorkflowRunsPage(Cursor0, SelectSeq(gh.runs[m.sha], LAMBDA r : r.suite = m.check.suite))
        jobs == WorkflowJobsPage(Cursor0, SelectSeq(gh.checks[m.sha], LAMBDA c : c.suite = m.check.suite))
    IN  [sha |-> m.sha, suite |-> m.check.suite,
         run |-> IF Len(runs.items) # 1 THEN None ELSE runs.items[1],
         jobs |-> Elements(jobs.items)]

\* One producing check is followed to its run; lookups are cached.
InvestigateLinks ==
    LET m      == CHOOSE m \in inv.matching : TRUE
        cached == {l \in inv.cache : l.sha = m.sha /\ l.suite = m.check.suite}
        Refusal == [sha |-> m.sha, suite |-> m.check.suite, run |-> None, jobs |-> {}]
    IN  pc = "i_links" /\ \E answer \in IF cached # {} THEN cached ELSE Answers(SuiteLookup(m)) :
          LET found == IF answer = Refused THEN Refusal ELSE answer
              job   == {j \in found.jobs : j.id = m.check.id /\ j.name = m.check.name}
              good  == found.run # None /\ Cardinality(job) = 1
              i     == [inv EXCEPT !.matching = @ \ {m}, !.cache = @ \cup {found},
                          !.links = @ \cup IF good THEN {[sha |-> m.sha, check |-> m.check, run |-> found.run]} ELSE {},
                          !.failed = @ \/ ~good,
                          !.coll.gaps = @ \cup IF good THEN {} ELSE KeyGap({Key}, "run_lookup")]
              next  == CASE i.matching # {} -> i
                         [] i.matching = {} /\ i.failed -> NextItem(i)
                         [] OTHER -> IF Cardinality({l.run.workflow : l \in i.links}) # 1
                                     THEN GiveUp(i, "ambiguous_workflow") ELSE i
          IN  /\ Request(answer)
              /\ Investigate(IF i.matching # {} THEN "i_links"
                             ELSE IF next.todo = inv.todo THEN "i_workflow" ELSE NextKey(next), next)

\* What the runs of the evaluated commit say about the workflow.
TargetRuns(i, wf) ==
    {r \in Elements(i.runs) : r.workflow = wf.id /\ r.event \in {"pull_request", "merge_group"}}

\* DoctorWorkflowTriggerInput
Input(i, wf, file, changed) ==
    [changed |-> changed, gaps |-> {}, app |-> "github_actions",
     historical |-> {Key.context}, last |-> "not_applicable",
     capability |-> "not_applicable", baseRef |-> Branch, fork |-> i.pull.fork,
     head |-> i.pull.head, mergeable |-> "unknown", context |-> Key.context,
     runs |-> TargetRuns(i, wf),
     target |-> IF Target.evaluation.kind = "pr_head" THEN "pull_request_head" ELSE "merge_group",
     sha |-> SignalSha,
     workflows |-> {[path |-> file.path, jobs |-> file.jobs, pr |-> file.pr, mergeGroup |-> file.mergeGroup,
                     state |-> wf.state, syntax |-> "valid"]}]

\* Everything that keeps a producer from becoming an input, in the code's
\* order; {} when there is nothing.
Obstacle(i, wf) ==
    LET file  == {f \in i.coll.inventory : f.path = wf.path}
        all   == JobsOf(i.coll.inventory)
        named == {<<f, j>> \in i.coll.inventory \X all : j \in f.jobs /\ j.name = Key.context}
        event == IF Target.evaluation.kind = "pr_head" THEN "pull_request" ELSE "merge_group"
        exact == \E r \in TargetRuns(i, wf) : r.event = event
    IN  CASE wf.state # "active"       -> {"workflow_disabled"}
          [] OTHER ->
        CASE i.coll.inventory = None   -> {"inventory"}
          [] OTHER ->
        CASE file = {}                 -> {"not_in_inventory"}
          [] \E j \in all : ~j.static \/ j.reusable -> {"dynamic_job"}
          [] OTHER ->
        CASE Cardinality(named) # 1 \/ \E n \in named : n[1].path # wf.path -> {"ambiguous_job"}
          [] i.pull.fork = None        -> {"head_repository"}
          [] OTHER ->
        CASE /\ event = "merge_group" /\ exact
             /\ \A f \in file : ~f.mergeGroup -> {"trigger_contradicts_run"}
          [] \E r \in TargetRuns(i, wf) : r.path # wf.path -> {"path_mismatch"}
          [] ~i.whole                  -> {"runs"}
          [] event = "pull_request" /\ i.files = None /\ ~exact -> {"changed_files"}
          [] OTHER -> {}

\* The files the trigger's filters are evaluated on.
ChangedFor(i, wf) ==
    IF Target.evaluation.kind = "pr_head"
    THEN IF i.files # None THEN i.files
         ELSE [complete |-> FALSE, limit |-> i.pull.files > MaxFiles, paths |-> {},
               total |-> i.pull.files]
    ELSE [NoFiles EXCEPT !.complete = FALSE]

\* The workflow itself, and then the input of the classification.
InvestigateWorkflow ==
    LET link == CHOOSE l \in inv.links : TRUE
    IN  pc = "i_workflow" /\ \E answer \in Answers(gh.workflow) :
          LET wf       == answer
              producer == [sha |-> link.sha, app |-> link.check.app, path |-> wf.path]
              obstacle == Obstacle(inv, wf)
              with     == [inv EXCEPT !.coll.items[Key].producer = producer]
              next     ==
                IF answer = Refused THEN GiveUp(inv, "workflow")
                ELSE IF \E l \in inv.links : l.run.path # wf.path THEN GiveUp(inv, "workflow_path")
                ELSE IF obstacle # {} THEN GiveUp(with, CHOOSE o \in obstacle : TRUE)
                ELSE NextItem([with EXCEPT !.coll.items[Key].input =
                        Input(inv, wf, CHOOSE f \in inv.coll.inventory : f.path = wf.path,
                              ChangedFor(inv, wf))])
          IN  /\ Request(answer)
              /\ Investigate(NextKey(next), next)

\* The pull request once more: it must not have changed meanwhile.
InvestigateFinalPull ==
    pc = "i_final" /\ \E answer \in Answers(gh.pull) :
       /\ Request(answer)
       /\ IF answer # inv.pull THEN Abort ELSE Investigate("i_end", inv)

\* DoctorWorkflowCollection
Collected(coll) ==
    [coll EXCEPT !.status =
        IF coll.gaps = {} /\ \A k \in DOMAIN coll.items : coll.items[k].input # None
        THEN "complete" ELSE "partial"]

-----------------------------------------------------------------------------
(* collect_pull_request_doctor_snapshot_v3: snapshot, investigation,       *)
(* snapshot, investigation, snapshot.                                      *)

Report(snap, coll) == /\ outcome' = EvaluateV3(snap, coll)
                      /\ pc' = "done"
                      /\ UNCHANGED <<cursor, work, inv>>

\* doctor_snapshot_semantics_equal and doctor_workflow_semantics_equal: all
\* but the counts of the calls.
AnySnapshots(list) == TRUE
SameSnapshots(list) == \A i, j \in DOMAIN list : list[i] = list[j]
SameCollections(list) ==
    \A i, j \in DOMAIN list : [list[i] EXCEPT !.calls = 0] = [list[j] EXCEPT !.calls = 0]

\* The initial policy is kept and the signals are read; with the second one
\* a snapshot is complete.
SettlePolicy ==
    LET policy == Policy(work)
        taken  == Append(snaps, Snapshot(work))
        keys   == Eligible(Snapshot(work), EvaluateV2(Snapshot(work)))
    IN  /\ outcome = None
        /\ pc = "policy"
        /\ UNCHANGED <<gh, seen, changes, faults, requests, invs>>
        /\ IF work.policy = None
           THEN /\ work' = [work EXCEPT !.policy = policy, !.todo = SignalShas(work),
                              !.gaps = @ \cup policy.gaps \cup TargetGaps(work, policy)]
                /\ pc' = "checks"
                /\ UNCHANGED <<cursor, inv, snaps, outcome>>
           ELSE IF Drifted(work, policy) \/ ~SameSnapshots(taken)
           THEN /\ outcome' = [kind |-> "error"]
                /\ UNCHANGED <<pc, cursor, work, inv, snaps>>
           ELSE /\ snaps' = taken
                /\ CASE Len(taken) = 1 /\ keys = {} -> Report(taken[1], NotApplicable)
                     [] Len(taken) = 3 -> Report(taken[3], invs[2])
                     [] OTHER -> /\ inv' = Inv0(keys)
                                 /\ pc' = "i_pull"
                                 /\ work' = Work0
                                 /\ UNCHANGED <<cursor, outcome>>

EndInvestigation ==
    LET taken == Append(invs, Collected(inv.coll))
    IN  /\ outcome = None
        /\ pc = "i_end"
        /\ UNCHANGED <<gh, seen, changes, faults, requests, snaps, cursor, work, inv>>
        /\ IF SameCollections(taken)
           THEN invs' = taken /\ pc' = "pull" /\ UNCHANGED outcome
           ELSE outcome' = [kind |-> "error"] /\ UNCHANGED <<invs, pc>>

-----------------------------------------------------------------------------
(* GitHub, external.                                                       *)

Changed(g) ==
    /\ outcome = None
    /\ changes + faults < MaxDisturbances
    /\ gh' = g
    /\ seen' = seen \cup {g}
    /\ changes' = changes + 1
    /\ UNCHANGED doctor

NewId == 100 + changes

\* The author pushes, or the base moves, or the pull request is closed.
PushHead == \E p \in OtherPulls : /\ p.pull # gh.pull
                                  /\ Changed([gh EXCEPT !.pull = p.pull, !.files = p.files])

\* A check run is started again: a new run, first in the list.
RerunCheck ==
    \E sha \in DOMAIN gh.checks : \E n \in DOMAIN gh.checks[sha] :
       LET list == gh.checks[sha]
           old  == list[n]
       IN  /\ old.status = "completed"
           /\ Changed([gh EXCEPT !.checks[sha] =
                  <<[old EXCEPT !.id = NewId, !.status = "queued", !.conclusion = None]>>
                  \o SelectSeq(list, LAMBDA c : c # old)])

FinishCheck ==
    \E sha \in DOMAIN gh.checks : \E n \in DOMAIN gh.checks[sha], verdict \in {"success", "failure"} :
       /\ gh.checks[sha][n].status = "queued"
       /\ Changed([gh EXCEPT !.checks[sha][n].status = "completed",
                             !.checks[sha][n].conclusion = verdict])

\* A commit status is posted: it replaces the older one of its context.
PostStatus ==
    \E sha \in DOMAIN gh.statuses : \E n \in DOMAIN gh.statuses[sha], state \in {"success", "failure"} :
       Changed([gh EXCEPT !.statuses[sha] =
           <<[id |-> NewId, context |-> gh.statuses[sha][n].context, state |-> state]>> \o @])

\* The workflow starts for a commit: a run and its check appear.
StartWorkflow ==
    \E sha \in DOMAIN gh.runs : \E key \in {r \in Elements(gh.rules) : r.kind = "required_status_checks"} :
       /\ gh.runs[sha] = <<>>
       /\ Changed([gh EXCEPT
             !.runs[sha] = <<[id |-> NewId, suite |-> NewId, workflow |-> gh.workflow.id,
                              path |-> gh.workflow.path, event |-> "pull_request",
                              status |-> "queued", conclusion |-> None]>>,
             !.checks[sha] = <<[id |-> NewId, name |-> key.context, app |-> key.app, suite |-> NewId,
                                status |-> "queued", conclusion |-> None]>> \o @])

\* An administrator drops a rule, or disables the workflow.
DropRule == \E n \in DOMAIN gh.rules :
    Changed([gh EXCEPT !.rules = SelectSeq(@, LAMBDA r : r # gh.rules[n])])

ToggleWorkflow ==
    Changed([gh EXCEPT !.workflow.state = IF @ = "active" THEN "disabled_manually" ELSE "active"])

\* The pull request leaves the merge queue.
Dequeue == /\ gh.queue.in
           /\ Changed([gh EXCEPT !.queue.in = FALSE, !.queue.entry = None])

-----------------------------------------------------------------------------

Init ==
    /\ gh \in StartStates
    /\ seen = {gh}
    /\ changes = 0
    /\ faults = 0
    /\ requests = 0
    /\ pc = "pull"
    /\ cursor = Cursor0
    /\ work = Work0
    /\ inv = Inv0({})
    /\ snaps = <<>>
    /\ invs = <<>>
    /\ outcome = None

Doctor ==
    \/ ReadPull \/ ReadRepository \/ ReadCandidate
    \/ ReadRules \/ ReadBranch \/ ReadProtection \/ SettlePolicy
    \/ ReadCheckRuns \/ ReadStatuses
    \/ RereadPull \/ RereadCandidate
    \/ InvestigatePull \/ InvestigateInventory \/ InvestigateRuns \/ InvestigateFiles
    \/ InvestigateProducers \/ InvestigateLinks \/ InvestigateWorkflow
    \/ InvestigateFinalPull \/ EndInvestigation
    \/ OverBudget

GitHub == \/ PushHead \/ RerunCheck \/ FinishCheck \/ PostStatus \/ StartWorkflow
          \/ DropRule \/ ToggleWorkflow \/ Dequeue

Next == Doctor \/ GitHub

Spec == Init /\ [][Next]_vars

-----------------------------------------------------------------------------
(* Properties.                                                             *)

\* The commit statuses in force: the newest of each context.
InForce(list) ==
    {list[i] : i \in {j \in DOMAIN list : \A k \in 1..j - 1 : list[k].context # list[j].context}}

\* What a snapshot of the evaluated commit would hold if it were taken in one
\* instant.
Instant(g, sha) == [checks |-> Elements(g.checks[sha]), statuses |-> InForce(g.statuses[sha]),
                    gaps |-> {}]

RequiredIn(g) ==
    (IF g.classic.protected THEN g.classic.checks ELSE {}) \cup
    {[context |-> r.context, app |-> r.app] : r \in
        {q \in Elements(g.rules) : q.kind = "required_status_checks"}}

Reported == outcome # None /\ outcome.kind = "report"
Final == snaps[Len(snaps)]

SatisfiedAt(g, k) == DiagnoseRequirement(Instant(g, Final.signal), k) = "satisfied"

\* The signals of a required check, and those of them that are in order.
SignalsOf(snap, k) == MatchingChecks(snap, k) \cup MatchingStatuses(snap, k)
InOrder(snap, k) == {c \in MatchingChecks(snap, k) : CheckState(c) = "satisfied"} \cup
                    {t \in MatchingStatuses(snap, k) : CommitStatusState(t) = "satisfied"}

\* The context had several signals at once: check runs on different pages, or
\* check runs and a commit status, which are read by different calls.
SeveralSignals(k) == \E g \in seen : Cardinality(SignalsOf(Instant(g, Final.signal), k)) > 1

\* Every signal that was read was in force and in order at an instant of its
\* own, and one that stood all the time was in order.
SatisfiedPiecewise(k) ==
    LET At(g) == Instant(g, Final.signal)
    IN  /\ SignalsOf(Final, k) # {}
        /\ \A x \in SignalsOf(Final, k) : \E g \in seen : x \in InOrder(At(g), k)
        /\ \A g \in seen : \A x \in SignalsOf(At(g), k) \ InOrder(At(g), k) :
               \E h \in seen : x \notin SignalsOf(At(h), k)

\* A report that says "checks clear" (exit code 0) was true: the pull request
\* had this base and head, its rules required just these checks, and each of
\* them was satisfied on the evaluated commit, at some instant since the
\* command began - whatever changed between its many calls.  When nothing is
\* missing only one snapshot is taken, so that a check with several signals
\* need not have been satisfied at one instant: a check run may start again
\* after it was read, before the commit status that had failed is mended.
\* Then each signal was in order at an instant of its own.
ClearWasEarned ==
    (Reported /\ outcome.report.verdict = "checks_clear") =>
        /\ \E g \in seen : g.pull.base = Final.target.base /\ g.pull.head = Final.target.head
        /\ \E g \in seen : RequiredIn(g) = Final.requirements
        /\ \A k \in Final.requirements :
               \/ \E g \in seen : SatisfiedAt(g, k)
               \/ SeveralSignals(k) /\ SatisfiedPiecewise(k)

\* Pages miss nothing: lists grow and are reordered between two pages, and a
\* snapshot that reports no gap still has a check run of every name, and a
\* status of every context, that the commit had all along.  (Its checks need
\* not have been in these states at one instant.)
PagesMissNothing ==
    \A i \in DOMAIN snaps :
        LET s == snaps[i]
            Whole(surface) == \A g \in s.gaps : g.surface \notin {surface, "target"}
            Names(g)    == {c.name : c \in Elements(g.checks[s.signal])}
            Contexts(g) == {t.context : t \in Elements(g.statuses[s.signal])}
        IN  /\ Whole("check_runs") =>
                   \A name \in UNION {Names(g) : g \in seen} :
                       (\A g \in seen : name \in Names(g)) =>
                           name \in {c.name : c \in s.checks}
            /\ Whole("commit_statuses") =>
                   \A context \in UNION {Contexts(g) : g \in seen} :
                       (\A g \in seen : context \in Contexts(g)) =>
                           context \in {t.context : t \in s.statuses}

\* The collector never produces a snapshot or a workflow collection that the
\* evaluator's own validation refuses: validate_workflow_collection relates
\* fields that were read at different times.
OwnEvidenceValidates == outcome # None => outcome.kind # "invalid"

\* The path patterns of a trigger, by the reference definition of a glob.
SomePathTriggers(g, file) ==
    \E f \in Elements(g.files) : \E i \in DOMAIN file.pr.paths :
        MatchesByPieces(file.pr.paths[i].glob, f.id)

\* A check is only blamed on a workflow's trigger when, at some instant, the
\* workflow had no run on the evaluated commit and its trigger could not have
\* started one: no changed file passes its paths, or no such trigger.
ExclusionsHold ==
    Reported => \A k \in DOMAIN outcome.causes :
        LET cause == outcome.causes[k]
            event == IF Final.target.evaluation.kind = "pr_head" THEN "pull_request" ELSE "merge_group"
            path  == invs[2].items[k].producer.path
            file  == CHOOSE f \in Definitions[Final.signal] : f.path = path
        IN  (cause # None /\ cause.cause \in {"workflow_path_filter_excluded",
                                "pull_request_trigger_missing", "merge_group_trigger_missing"}) =>
            \E g \in seen :
              /\ \A r \in Elements(g.runs[Final.signal]) : r.path # path \/ r.event # event
              /\ CASE cause.cause = "workflow_path_filter_excluded" -> ~SomePathTriggers(g, file)
                   [] cause.cause = "pull_request_trigger_missing"  -> file.pr = None
                   [] cause.cause = "merge_group_trigger_missing"   -> ~file.mergeGroup

\* What a report says was true: a clear verdict was earned, up to what is read
\* of a check with several signals, and a cause that is blamed on a trigger was
\* one, whatever changed between the calls.
ReportWasTrue == ClearWasEarned /\ ExclusionsHold

\* What the collector hands to the evaluator is complete and consistent, though
\* it was read page by page and field by field while everything moved.
EvidenceHolds == PagesMissNothing /\ OwnEvidenceValidates
=============================================================================
