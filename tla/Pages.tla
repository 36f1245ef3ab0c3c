------------------------------- MODULE Pages -------------------------------
(***************************************************************************)
(* The paginated reads of src/src/readiness_audit.rs.  Each operator takes *)
(* a cursor and the remote list as it is when the next page is served, and *)
(* is the body of one turn of the page loop of the function it names: what *)
(* is kept, what is reported as a gap, and when the loop ends.             *)
(*                                                                         *)
(* The remote list may change between two pages; that is what the counts   *)
(* and the identifiers the loops compare are for.                          *)
(***************************************************************************)
EXTENDS Integers, Sequences, FiniteSets

CONSTANTS
    PageSize,   \* PAGE_SIZE
    MaxPages    \* MAX_PAGES

ASSUME PagesAssumption == PageSize \in Nat \ {0} /\ MaxPages \in Nat \ {0}

\* The variables of a page loop.  totals is expected_total once it is known, gap is why the list may be incomplete,
\* error is a failed ensure!.
Cursor0 == [items |-> <<>>, ids |-> {}, totals |-> {}, page |-> 1,
            gap |-> {}, done |-> FALSE, error |-> FALSE]

\* One page as GitHub serves it.
PageOf(list, n) ==
    SubSeq(list, (n - 1) * PageSize + 1,
           IF n * PageSize < Len(list) THEN n * PageSize ELSE Len(list))

\* has_next_page: the Link header names another page.
HasNext(list, n) == n * PageSize < Len(list)

IdsOf(page) == {page[i].id : i \in DOMAIN page}

\* A page whose request did not succeed ends the loop with a gap.
FailedPage(c) == [c EXCEPT !.gap = @ \cup {"http"}, !.done = TRUE]

\* The loop goes on with the next page, or ends for one of these reasons.
Turn(c, items, page, ends, gap) ==
    LET last == c.page = MaxPages
    IN  [c EXCEPT !.items = items,
                  !.ids = c.ids \cup IdsOf(page),
                  !.page = c.page + 1,
                  !.gap = c.gap \cup gap \cup
                          IF last /\ ~ends THEN {"pages"} ELSE {},
                  !.done = ends \/ last]

NewIn(c, page) == SelectSeq(page, LAMBDA item : item.id \notin c.ids)

\* A page that shows an item again has been shifted by a change.
Repeated(c, page) == IF IdsOf(page) \cap c.ids # {} THEN {"duplicate"} ELSE {}

-----------------------------------------------------------------------------
(* The reads of the pull request doctor.                                   *)

\* collect_doctor_check_runs
CheckRunsPage(c, list) ==
    LET page  == PageOf(list, c.page)
        items == c.items \o NewIn(c, page)
        more  == Len(items) > Len(list)
        short == Len(items) < Len(list) /\ Len(page) < PageSize
    IN  IF ~(c.totals \subseteq {Len(list)})
        THEN [c EXCEPT !.gap = @ \cup {"total_changed"}, !.done = TRUE]
        ELSE [Turn(c, items, page, Len(items) >= Len(list) \/ short,
                   Repeated(c, page) \cup
                   (IF more \/ short THEN {"count"} ELSE {}))
                EXCEPT !.totals = {Len(list)}]

\* collect_doctor_statuses: newest first, so the first of a context wins.
StatusesPage(c, list) ==
    LET page  == PageOf(list, c.page)
        fresh == NewIn(c, page)
        new   == SelectSeq(fresh, LAMBDA s :
                     \A i \in DOMAIN c.items : c.items[i].context # s.context)
        first == SelectSeq(new, LAMBDA s :
                     \A i, j \in DOMAIN new :
                         (new[j] = s /\ i < j) => new[i].context # s.context)
    IN  Turn(c, c.items \o first, page,
             ~HasNext(list, c.page) \/ page = <<>>,
             Repeated(c, page) \cup
             (IF HasNext(list, c.page) /\ page = <<>> THEN {"empty"} ELSE {}))

\* collect_doctor_effective_requirements: one page of rules.
RulesPage(c, list) ==
    LET page == PageOf(list, c.page)
    IN  Turn(c, c.items \o page, page,
             ~HasNext(list, c.page) \/ page = <<>>,
             IF HasNext(list, c.page) /\ page = <<>> THEN {"empty"} ELSE {})

\* collect_doctor_producer_check_runs
ProducerPage(c, list) ==
    LET page  == PageOf(list, c.page)
        items == c.items \o page
        wrong == \/ Len(items) > Len(list)
                 \/ Len(items) < Len(list) /\ Len(page) < PageSize
    IN  IF ~(c.totals \subseteq {Len(list)}) \/ IdsOf(page) \cap c.ids # {}
        THEN [c EXCEPT !.gap = @ \cup {"changed"}, !.done = TRUE]
        ELSE [Turn(c, items, page, Len(items) = Len(list) \/ wrong,
                   IF wrong THEN {"count"} ELSE {})
                EXCEPT !.totals = {Len(list)}]

\* collect_doctor_workflow_runs: as above, but a run served twice is an error.
WorkflowRunsPage(c, list) ==
    IF c.totals \subseteq {Len(list)} /\ IdsOf(PageOf(list, c.page)) \cap c.ids # {}
    THEN [c EXCEPT !.error = TRUE, !.done = TRUE]
    ELSE ProducerPage(c, list)

\* collect_doctor_workflow_jobs
WorkflowJobsPage(c, list) == WorkflowRunsPage(c, list)

\* collect_doctor_changed_files: expected is what the pull request declared;
\* MaxFiles is MAX_GITHUB_PATH_FILTER_FILES.
ChangedFilesPage(c, list, expected) ==
    LET page  == PageOf(list, c.page)
        items == c.items \o page
        ends  == Len(items) >= expected \/ ~HasNext(list, c.page)
        whole == Len(items) = expected /\ ~HasNext(list, c.page)
    IN  IF IdsOf(page) \cap c.ids # {}
        THEN [c EXCEPT !.gap = @ \cup {"duplicate"}, !.done = TRUE]
        ELSE Turn(c, items, page, ends,
                  IF ends /\ ~whole THEN {"count"} ELSE {})

-----------------------------------------------------------------------------
(* The reads of the merge-readiness audit, which trust the lists more.     *)

\* collect_rulesets: a ruleset served twice is an error.
RulesetsPage(c, list) ==
    LET page == PageOf(list, c.page)
    IN  IF IdsOf(page) \cap c.ids # {}
        THEN [c EXCEPT !.error = TRUE, !.done = TRUE]
        ELSE Turn(c, c.items \o page, page, Len(page) < PageSize, {})

\* collect_branch_protection: the protected branches, until the branch is met.
BranchesPage(c, list, branch) ==
    LET page == PageOf(list, c.page)
    IN  Turn(c, c.items \o page, page,
             branch \in IdsOf(page) \/ Len(page) < PageSize, {})

\* collect_pull_candidates: open or merged, at most limit of them.
PullsPage(c, list, limit) ==
    LET page  == PageOf(list, c.page)
        kept  == SelectSeq(page, LAMBDA p : p.state \in {"open", "merged"})
        items == c.items \o kept
        cut   == SubSeq(items, 1, IF Len(items) < limit THEN Len(items) ELSE limit)
    IN  Turn(c, cut, page, Len(cut) = limit \/ Len(page) < PageSize, {})

\* collect_check_runs and incomplete_page
AuditCheckRunsPage(c, list) ==
    LET page  == PageOf(list, c.page)
        items == c.items \o page
        short == Len(items) < Len(list) /\ Len(page) < PageSize
    IN  Turn(c, items, page, Len(items) >= Len(list) \/ short,
             IF short THEN {"count"} ELSE {})

\* collect_workflow_runs
AuditWorkflowRunsPage(c, list) == AuditCheckRunsPage(c, list)

\* collect_statuses
AuditStatusesPage(c, list) ==
    LET page == PageOf(list, c.page)
    IN  Turn(c, c.items \o page, page,
             Len(page) < PageSize \/ ~HasNext(list, c.page), {})

\* collect_workflow_inventory
InventoryPage(c, list) ==
    LET page  == PageOf(list, c.page)
        items == c.items \o page
        short == Len(items) < Len(list) /\ Len(page) < PageSize
    IN  IF ~(c.totals \subseteq {Len(list)}) \/ IdsOf(page) \cap c.ids # {}
        THEN [c EXCEPT !.error = TRUE, !.done = TRUE]
        ELSE [Turn(c, items, page, Len(items) >= Len(list) \/ short,
                   IF short THEN {"count"} ELSE {})
                EXCEPT !.totals = {Len(list)}]
=============================================================================
