------------------------------ MODULE MCDoctor ------------------------------
(***************************************************************************)
(* Instances of DoctorCollection and of Audit.  A start state of the       *)
(* doctor is a pull request with the commits base, head and merge (the     *)
(* test merge), one workflow and at most two required checks.  One of the  *)
(* audit is a repository with two or three pull requests.                  *)
(***************************************************************************)
EXTENDS Audit

Shas == {"base", "head", "merge", "head2", "group"}

MCBranch == <<"m">>

Job == [name |-> "ci", static |-> TRUE, reusable |-> FALSE, condition |-> "always"]

\* A pull_request trigger with the path filter "s*".
Filter == [branches |-> <<>>, branchesIgnore |-> <<>>,
           paths |-> <<[neg |-> FALSE, glob |-> <<"s", "*">>]>>, pathsIgnore |-> <<>>,
           types |-> {}]

File(pr) == [path |-> "ci.yml", jobs |-> {Job}, pr |-> pr, mergeGroup |-> FALSE]

MCDefinitions ==
    [sha \in Shas |-> IF sha = "head2" THEN {File(None)}
                      ELSE IF sha = "group" THEN {File(Filter)} ELSE {File(Filter)}]

Check(id, name, app, conclusion) ==
    [id |-> id, name |-> name, app |-> app, suite |-> id,
     status |-> IF conclusion = None THEN "queued" ELSE "completed", conclusion |-> conclusion]

Run(id) == [id |-> id, suite |-> id, workflow |-> 7, path |-> "ci.yml", event |-> "pull_request",
            status |-> "completed", conclusion |-> "success"]

Status(id, context, state) == [id |-> id, context |-> context, state |-> state]

Required(context, app) == [id |-> 1, kind |-> "required_status_checks", context |-> context, app |-> app]

Pull(head, merge, files) == [open |-> TRUE, base |-> "base", head |-> head, merge |-> merge,
                             files |-> files, fork |-> FALSE]

DocsFiles == <<[id |-> <<"d">>], [id |-> <<"e">>]>>
SourceFile == <<[id |-> <<"s">>]>>

MCOtherPulls == {[pull |-> Pull("head2", None, 1), files |-> SourceFile],
                 [pull |-> Pull("head", "merge", 2), files |-> DocsFiles],
                 [pull |-> [Pull("head", "merge", 2) EXCEPT !.open = FALSE], files |-> DocsFiles]}

NoQueue == [on |-> FALSE, in |-> FALSE, entry |-> None]

Idle == [pull     |-> Pull("head", "merge", 2),
         files    |-> DocsFiles,
         queue    |-> NoQueue,
         rules    |-> <<Required("ci", "actions")>>,
         classic  |-> [protected |-> FALSE, checks |-> {}],
         checks   |-> [sha \in Shas |-> <<>>],
         statuses |-> [sha \in Shas |-> <<>>],
         runs     |-> [sha \in Shas |-> <<>>],
         workflow |-> [id |-> 7, path |-> "ci.yml", state |-> "active"]]

\* All green: the app's check and a status that anybody may post.
Green == [Idle EXCEPT
    !.rules    = <<Required("ci", "actions"), Required("lint", None)>>,
    !.checks["head"] = <<Check(3, "ci", "actions", "success"), Check(2, "other", "actions", "success"),
                         Check(1, "more", "actions", "success")>>,
    !.statuses["head"] = <<Status(6, "old", "success"), Status(5, "lint", "success"),
                           Status(4, "lint", "failure")>>]

\* The check is missing on the head, because of the path filter.
Missing == [Idle EXCEPT
    !.checks["base"] = <<Check(1, "ci", "actions", "success")>>,
    !.runs["base"]   = <<Run(1)>>]

\* Queued: the merge group is evaluated, and the workflow does not know it.
Queued == [Missing EXCEPT
    !.queue = [on |-> TRUE, in |-> TRUE, entry |-> [id |-> "e", base |-> "base", head |-> "group"]],
    !.classic = [protected |-> TRUE, checks |-> {[context |-> "ci", app |-> "actions"]}],
    !.checks["head"] = <<Check(2, "ci", "actions", "success")>>,
    !.runs["head"]   = <<Run(2)>>]

\* The test merge has signals of its own.
Merged == [Idle EXCEPT
    !.checks["merge"] = <<Check(1, "ci", "actions", "success")>>,
    !.checks["head"]  = <<Check(2, "ci", "actions", "failure")>>]

\* The workflow is slow: the third changed file will start it.
Slow == [Missing EXCEPT !.pull = Pull("head", "merge", 3),
                        !.files = <<[id |-> <<"d">>], [id |-> <<"e">>], [id |-> <<"s">>]>>]

\* The required check is the last of the list, and runs.
Long == [Idle EXCEPT
    !.checks["head"] = <<Check(4, "a", "actions", "success"), Check(3, "b", "actions", "success"),
                         Check(2, "ci", "actions", None)>>]

\* Required checks with several signals: a check run and a status, a status
\* that a check run may join, and two check runs on different pages.
Twin == [Idle EXCEPT
    !.rules = <<Required("lint", None)>>,
    !.checks["head"] = <<Check(2, "lint", "actions", "success")>>,
    !.statuses["head"] = <<Status(1, "lint", "failure")>>]

Lone == [Twin EXCEPT !.checks["head"] = <<>>]

Pair == [Long EXCEPT !.checks["head"][1] = Check(4, "ci", "actions", "success")]

\* Green but for the rule on the second page.
Guarded == [Green EXCEPT !.rules = <<Required("ci", "actions"), Required("lint", None),
                                     Required("gate", None)>>]

-----------------------------------------------------------------------------
(* Repositories for the audit.                                             *)

Unfiltered == [paths |-> <<>>, pathsIgnore |-> <<>>]
OnBoth == [event \in {"pull_request", "merge_group"} |-> Unfiltered]
OnPull == [event \in {"pull_request"} |-> Unfiltered]

Produced2(id, workflow) == [id |-> id, suite |-> id, workflow |-> workflow, path |-> "ci.yml"]

Sample(id, state, head) == [id |-> id, state |-> state, head |-> head]

\* Two sampled pull requests whose check "ci" is on the second page.
Tidy ==
    [head      |-> "base",
     rulesets  |-> <<[id |-> 1]>>,
     rules     |-> <<Required("ci", "actions"), [Required("-", None) EXCEPT !.kind = "pull_request"]>>,
     protected |-> <<[id |-> "x"]>>,
     classic   |-> FALSE,
     pulls     |-> <<Sample(1, "open", "head"), Sample(2, "closed", "base"), Sample(3, "merged", "head2")>>,
     checks    |-> [sha \in Shas |-> <<Check(3, "a", "actions", "success"), Check(2, "b", "bot", "success"),
                                       Check(1, "ci", "actions", "success")>>],
     statuses  |-> [sha \in Shas |-> <<>>],
     runs      |-> [sha \in Shas |-> <<Produced2(3, 8), Produced2(2, 8), Produced2(1, 7)>>],
     workflows |-> <<[id |-> 8, path |-> "b.yml", state |-> "active"],
                     [id |-> 9, path |-> "c.yml", state |-> "active"],
                     [id |-> 7, path |-> "ci.yml", state |-> "active"]>>,
     files     |-> [sha \in Shas |-> {[path |-> "ci.yml", on |-> OnBoth]}]]

\* The second pull request has the check from two workflows.
Twofold == [Tidy EXCEPT !.checks["head2"] = <<Check(1, "ci", "actions", "success"), Check(4, "b", "bot", "success"),
                                              Check(2, "ci", "actions", "success")>>]

\* Classic protection, found on the second page of branches.
Classic == [Tidy EXCEPT !.rules = <<>>, !.classic = TRUE,
                        !.protected = <<[id |-> "x"], [id |-> "y"], [id |-> "main"]>>]

\* The queue's candidates do not start the workflow.
Queue == [Tidy EXCEPT !.rules[2].kind = "merge_queue",
                      !.files["base"] = {[path |-> "ci.yml", on |-> OnPull]}]

\* An external app, which on the second head is a status only.
External == [Tidy EXCEPT !.rules[1] = Required("b", "bot"),
                         !.checks["head2"] = <<Check(1, "a", "actions", "success")>>,
                         !.statuses["head2"] = <<[id |-> 6, context |-> "x", creator |-> "u"],
                                                 [id |-> 5, context |-> "y", creator |-> "u"],
                                                 [id |-> 4, context |-> "b", creator |-> "u"]>>]

\* The workflow is disabled, and on one head the suite has no run.
Disabled == [Tidy EXCEPT !.workflows[3].state = "disabled_manually",
                         !.runs["head2"] = <<Produced2(3, 8)>>]

\* A file that cannot be decoded; a check that anybody may report.
Garbled == [Tidy EXCEPT !.files["base"] = {[path |-> "ci.yml", on |-> None]}]
Anybody == [Tidy EXCEPT !.rules[1] = Required("ci", None)]

Repositories == {Tidy, Twofold, Classic, Queue, External, Disabled, Garbled, Anybody}

-----------------------------------------------------------------------------

MCStartStates == {Green, Missing, Queued, Merged, Slow, Long, Twin, Lone, Pair, Guarded}
                 \cup Repositories

\* Which of the two commands runs.
Audits == "rulesets" \in DOMAIN gh

MCInit == \/ Init /\ ~Audits
          \/ AuditInit /\ Audits

MCNext == \/ ~Audits /\ Next
          \/ Audits /\ AuditNext

MCSpec == MCInit /\ [][MCNext]_vars
=============================================================================
