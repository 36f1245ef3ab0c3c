# A TLA+ verification project for StrataDiff

StrataDiff helps people review pull requests that keep changing. It has two halves:

* the **command line** in Rust (`src/`, `crates/`): a structural differ whose reports an independent
  verifier re-derives, reviews that resume from a checkpoint, a review cache, an inbox, the pull
  request doctor and the merge-readiness audit, a coverage gate and a local value log;
* the **Final-Head Review Governor App** in TypeScript (`services/governor-app`): a control plane that
  receives GitHub webhooks, keeps one *gate* per pull request in PostgreSQL, posts one paid review
  command per base/head pair, collects the provider's evidence and publishes the gate as a Check Run.

Both promise to be fail-closed: nothing turns green because something was late, lost, stale, cut
short or read halfway. That is what this project states and checks. Paths are relative to the
repository; `store.ts` and the like are in `services/governor-app/src`, `resume.rs` and the like in
`src`. `PROJECT.json` lists every component, maps every definition to its lines, and lists the
hazards at their lines with the properties that are about them.

## Inventory

| Component | State | Operations | What is hard | What makes it correct |
| --- | --- | --- | --- | --- |
| Governor store (`store.ts`, `migrations/`) | `pr_pair`, `gate_subject`, `dispatch`, `evidence`, `outbox`, generation | ingest of events; pair and gate leases; fenced commits; outbox claims; reconciliation | late and reordered webhooks, leases that expire under their holder, dedupe keys that swallow work | pair and gate agree; the newest input is under review; success is current; quarantine is final; no work is lost |
| Evidence decision (`evaluate.ts`, `events.ts`) | `evidence` rows of an epoch | upsert, `evaluatePair` | redelivery, edits in one second, tombstones | the decision depends on what was delivered, not on the order |
| Governor worker (`worker.ts`, `github.ts`) | claims and the locals of a handler | `publishGate`, `evaluatePair`, `dispatchReview`, `reconcileRepository` | reads outside transactions, lost responses, crashes, two workers on one subject | one paid command; decisions from current rows; GitHub shows what the gate wants; everything settles |
| Value log (`value_funnel.rs`) | one file per log, temporary files, locks | record a scan, a delivery, the stages of an attempt; report | several processes, a rename under a waiting lock, failures and power loss | the log verifies, loses no update, and keeps what was confirmed |
| Child processes (`process.rs`) | child, its group, two pipes, clock | run bounded, critical or with the terminal | deadline, output limit, signals and exit in any order | it returns, with all the output or an error, and leaves nobody behind unless the system refuses a signal or a wait |
| Review cache (`review_cache.rs`) | chain of signed receipts | context, preflight, execution, completion | the head moves, the base moves, the reviewer is reconfigured between rounds | a carried outcome was a reviewer's of exactly this change; blockers survive |
| Doctor (`readiness_audit.rs`, `doctor*.rs`) | a budget of API calls, what was read | read a pull request three times, investigate missing checks twice, diagnose | lists that change between pages, races of head, queue and checks | a clear verdict was true at some instant, check by check and for a check with several signals signal by signal; a blamed trigger did exclude the run |
| Readiness audit (`readiness_audit.rs`, `readiness.rs`) | the same budget | read rules, sample pull requests, workflows | incomplete surfaces | "no observed risk" is earned |
| Review delta (`review.rs`, `patch.rs`) | none | changes carried by a checkpoint, replay over a moved base, delta | renames, edits that touch, limits reached halfway | nothing unseen is hidden |
| Ledger, ownership, coverage gate (`ledger.rs`, `ownership.rs`, `codeowners.rs`, `github_ownership.rs`, `coverage.rs`, `github_check.rs`) | ledger file, snapshot, passport | ingest, collect, build, conclude | tombstones before receipts, access that changes while it is read | success means that an owner saw every change, for a moved file an owner of its new place |
| Inbox and resume (`inbox.rs`, `inbox_decision.rs`, `resume.rs`) | items, sessions, temporary refs, pack keep files | collect, revalidate, bind, fetch, observe, open, clean | pull requests that change, children stopped halfway, other processes in the repository | what is shown was real and is compared with the right commits; the repository is restored |
| Matcher and verifier (`crates/stratadiff-core`, `crates/stratadiff-verifier`) | node maps and relations | anchors, ordered alignment, changes; independent re-derivation | two derivations in different orders, limits | they agree, and forced pairs are forced |
| Webhook server and delivery claim, start-up, Governor Action, CLI, viewer, grammars, benchmarks | | | | not modelled, see below |

The App's components talk through the store only: a webhook changes rows and inserts outbox items
in one transaction, workers claim items, call GitHub and write back under a lease whose `fence` must
still be the row's. The command line's commands talk through files and GitHub: a receipt, a ledger, a
snapshot or an inbox event written by one command is read by a later one when everything may have
moved. So each of them checks what it is handed again, and those checks are what the models are about.

## Modules

| Module | Models | State and actions |
| --- | --- | --- |
| `Evidence` | `upsertEvidence`, `latest`, `evaluatePair` | operators; an input is a record of what the decision tells apart |
| `EvidenceStream` | the evidence table of one epoch under an unreliable webhook stream | `rows`, the history `delivered`; `Deliver` |
| `GovernorStore` | every transaction of `store.ts`, for one repository | one variable per table; one action per transaction |
| `GovernorWorker` | `worker.ts`, the requests of `github.ts`, GitHub and time | a record of locals per worker with a program counter; one action per transaction, read or request |
| `Funnel` | events of the value log, their validation, the report | operators |
| `ValueLog` | the processes that share one log file | inodes, `path`, locks, what power loss may bring back; one action per system call |
| `DurableLog` | *abstract*: what a log promises | `log`, `safe`; `Extend`, `Confirm`, `Lose` |
| `Supervise` | `process.rs` | supervisor, child, descendants, readers, signals and clock as separate actors |
| `GitDelta`, `ReviewCache` | identities of changes; contexts, preflight, completion | live head, base, `receipts`, context, route |
| `Pages` | the page loops of `readiness_audit.rs` | operators on a cursor and the remote list as it is now |
| `WorkflowTrigger`, `DoctorReport` | why a check is missing; diagnosis and verdict | operators |
| `DoctorCollection` | the doctor's collection, call by call | `gh` (external), the collector's program counter and budget; `seen`, every state GitHub had |
| `Readiness`, `Audit` | the audit's conclusion; its collection | shares the variables and page loop of `DoctorCollection` |
| `Patch`, `Review` | lossless patches and the four-way replay; range and delta | operators |
| `Ledger`, `Owners`, `Coverage` | receipts and tombstones; CODEOWNERS and the snapshot; the passport | operators |
| `ReviewGate` | the commands around one pull request | GitHub, access, ledger file, collector, snapshot, passport, check |
| `Inbox`, `Resume` | the decision and events; collection and sessions | GitHub's history, inbox, sessions, repositories, foreign processes |
| `Syntax`, `Alignment`, `Matcher`, `Verifier` | the syntax arena; ordered alignment; the producer; the independent derivation | one action per round of the matcher, one per verification, and `Receive`, an edit of a report |
| `MC*` | small instances | constants, bounds, start states |
| `EvidenceProofs`; `GovernorStoreProofs`, `GovernorWorkerProofs`; `ValueLogProofs`, `SuperviseProofs`, `ReviewCacheProofs`, `ReviewGateProofs`, `ResumeProofs` | theorems and the invariants they need | no state of their own; each extends the module it is named for, and `GovernorWorkerProofs` also `GovernorStoreProofs` |

Composition is by EXTENDS: `GovernorWorker` on `GovernorStore` on `Evidence`; `ValueLog` on `Funnel`;
`ReviewCache` on `GitDelta`; `Audit` on `DoctorCollection` (on `DoctorReport` and `Pages`) and
`Readiness`; `ReviewGate` on `Coverage`, which joins `Review`, `Ledger` and `Owners`; `Resume` on
`Inbox`; `Verifier` on `Matcher` on `Alignment` on `Syntax`. A step of the upper module is an action
or a use of the operators of the lower one.

Two refinements are stated. `KeepsPromise` is `DurableLog`'s specification under the mapping of its
log to the content of the file that the path names: every system call of every process is a step of
it or a stutter (checked and proved). `ConformsToStore` says that workers, webhooks and time change
the tables only by transactions that `StoreSpec` allows any caller, so that what is proved of
`StoreSpec` holds of them (checked and proved).

### How the code is abstracted

Everywhere: digests are injective and signatures unforgeable, so a digest is the value it digests;
text, rendering, JSON shape and logging are left out; a request is one step and its answer is atomic;
an error that ends the command is an outcome of the step. A definition marked "Mutant" is the code with
a plausible bug; it is used by no specification and breaks the property named for it in `PROJECT.json`.

* *Governor: transactions are atomic.* Ingest and reconciliation take one advisory lock; the other
  transactions update one locked row before they look at others. Reads outside a transaction are
  steps of their own; the evaluation, which uses all three tables of `loadPairSnapshot`, takes three
  steps. The other callers use the pair and dispatch row and read them in one step: whatever slips in
  between changes the fence and is caught by the next fenced write.
* *Leases and deadline.* `lease_expires_at > now` is the flag `live`, which time may clear, and
  `evidence_deadline_at` the flag `late`. A pair or gate lease is taken after the outbox claim and
  lasts as long, so in `GovernorWorker` it does not run out on its holder first; in `StoreSpec` it may
  run out at any time.
* *Outbox.* A row's key is its dedupe key. Retry delay, `attempts` and `lease_fence` are left out: a
  worker holds at most one claim, so the owner identifies it, and a claim may be of any ready row. A
  database error has the effect of a crash: the claim expires and the item is taken up again.
* *GitHub, as the App sees it,* reports a pull request as it was at any earlier time, any number of
  times; a request may fail without effect, or take effect and lose its response. Times are whole
  seconds, and the workers share the clock.
* *Value log.* An event is its kind, its scan or attempt, and what validation compares. `flock`
  belongs to the inode. After a power failure the directory entry is one of those it had since the
  last directory sync.
* *Child processes.* The unix build, with process groups. Any call may be refused by the system
  (`Refused`, `ReadFails`); the error is returned where the code returns it.
* *Doctor and audit.* Pages have `PageSize` entries; a workflow is its triggers and filters. A suite
  lookup and a `gh api --paginate` are one request each. Left out because they only refuse: the binding of
  a queue entry to its pull request (`readiness_audit.rs:1971-1978`), the job ids of
  `validate_workflow_collection` (`doctor.rs:1800-1804`).
* *Review and gate.* A file is a mode and a sequence of bytes, a CODEOWNERS pattern the set of paths it
  matches; a merge base is unique or the proof fails. The diff library may return any correct patch
  (`CreatePatch`). A blob that cannot be read is one kind (`Unreadable`, empty in the run), NUL bytes
  included. A checkpoint change matches at most one current change by construction, so the set
  `matched_checkpoint_indices` is not consulted (`review.rs:1214`). The two counts of owner cells (`coverage.rs:588-617`
  and the expansion) are one. Left out because they only refuse: provider URL and the equality of the ledger's
  and the snapshot's repository id (`coverage.rs:242-249`), and the refusal of a dismissal under another
  login than the review's (`ledger.rs:756-777`; a dismissal carries the login of the submission).
* *Review cache.* The transition has a fixed fork point, so `unique_merge_base` does not fail
  (`review_cache.rs:2947-2960`). Item validation of payloads and `resource_limit` of a holistic input are left out:
  they only refuse or block. `Issue` tests base and head and signs in one step; the command
  compares what it observed earlier (`main.rs:1449-1450`, `1556-1557`), so a receipt may be issued for a
  head that moved just before. The receipt speaks of the commits it names, whichever are live, and the
  next preflight compares them with the live ones.
* *Resume.* A history is its parent relation; process ids are not reused. A push moves the head to any
  other commit, earlier ones included, and the base moves likewise. A pack's keep file appears with its
  content; that git creates it empty first is not modelled, and a fetch killed in that instant would leave a
  keep file that the session does not know for its own.
* *Differ.* A parse result is a term; the work budget is left out, the alignment limits are not. The
  producer and the verifier share `StableCore` and `DeriveChanges`, because the two implementations are
  the same algorithm there: their agreement in that part is by construction, and what the run compares
  is phases, regions, candidates and the order of derivation. Whether bytes differ is asked of the roots, which
  hold the whole source. `ComponentLimit` is 2, so components of more than one pair are given up: a pair is
  only forced in a component of its own.

## Runs

Every run but the last passes, and TLC explores the whole bounded state space.

| Run | Question | Bounds |
| --- | --- | --- |
| `evidence` | does the order of delivery matter? | 13 inputs: ones that complete a review and every kind that disturbs one; any order and repetition; no other bound |
| `store` | can events, reconciliations and stale leases take pair and gate apart, go back to an old input, lose work or lift a quarantine? | four areas (`Areas` in `MCStore`), each with the callers it needs: reports of one pull request with two heads and two epochs; a move of the head during an evaluation; one epoch up to its publication; merge groups in any order. Fences and revisions up to 2–5, outbox of 5–9 rows |
| `workers` | can the paid command be posted twice, a decision rest on an outdated read, the known check run end up wrong? | two workers, two heads, two epochs; scopes `dispatch` (with a crash and a failed or lost request), `evaluate`, `publish` with one change, one webhook and one lease expiry each; `again`, four changes and two reports of them, so that a pull request is closed and reopened or leaves and enters draft within one second; `adopt`, evidence between the post of the command and its adoption |
| `settle` | is every gate published and the deadline enforced? do workers only do what the store allows? | one worker; scope `settle` with a crash and a failed request, `conform` from the empty store and from a decided gate with a change and a webhook of any kind |
| `value_log` | can writers, faults and power loss corrupt the log, lose an update or hang? | one inbox command and one resume command, each run once, side by side; one transition; six events (the file's limit, reached), seven inodes; two faults, at most one of them a power loss |
| `supervise` | does a call return with the whole output and leave nobody behind? | the three entry points; output limit 1, so that it is met and passed; child, descendant, both pipes, signals; any call refused |
| `cache` | what is carried through a chain of receipts? | two paths, two blobs, two base commits, three heads (one drops a change, one is rebased), six reviewer configurations, three receipts, two pushes |
| `doctor` | are the doctor's and the audit's conclusions true of a repository that changes while it is read? | 18 start states, three of them with several signals for one required check; pages of two, two pages; three changed files; two disturbances (a change or a refused request) anywhere; 57 requests, the budget, which is met |
| `review` | does the delta hide something? do replays commute? is a green gate earned? | all sources up to three bytes over two values and all four-tree reviews from the menus of `MCReview`; a gate with five commits (an edit, the edit rebased, a file moved to another owner's path, a name that is not UTF-8, everything taken back), three people, two base commits, webhooks in any order, two changes of access, a ledger of five deliveries |
| `resume` | is what the inbox and the viewer show real, and is the repository restored? | four scenarios: two pull requests collected while they change; sessions from an event, once from the start with two changes and twice with the commits in place, with a review that is submitted and dismissed while the request changes and with a head that is pushed away and back; two sessions and a stranger in one repository; a session of its own over every base, head and checkpoint of a history with criss-cross merges. Signal, kill, failing child at any step |
| `differ` | do matcher and verifier agree, and is an update forced? | all pairs of small files: up to three statements, 17 nodes, depth 3; reports edited up to twice before they are verified |
| `stale_green` | violation, see Known disagreements | two publishers, one late review event |

The bounds follow the hazards: two epochs for supersession, two times for ordering, two workers and
one expiry for a takeover, one webhook inside every window of a handler; two pages and a change
between them; three receipts because a blocker must survive one receipt that does not mention it; two
processes for one lock. Where a property is also proved (see Proofs), the theorem is for any
number. Limits of the code (pages, requests, events, bytes, deliveries) are constants, most of them set
so low that a run reaches them.

Scopes that start in the middle ("opened", "posted", "reviewed", "decided" in `MCGovernor`; an item found
earlier in `MCResume`) start in reachable states and only save the way there. Worker names and heads
are interchangeable in the safety runs, hence `SYMMETRY`; runs with liveness have none. Deadlock is
not checked except in `evidence`: commands end, budgets run out, and a system without work rests.

### What the properties say

* `RowsConverge`, `SuccessUncontradicted`: the evidence table depends on what was delivered only; no
  success against it.
* `ActiveGateMatchesPair`, `ActivePairIsNewest`, `NothingUnqueued`, `SuccessIsCurrent`,
  `QuarantineFailsClosed`, `MergeHeadsRetireForGood`: the tables of the store, under any callers.
* `AtMostOnePost`, `SuccessIsBacked`, `DecisionIsUpToDate`, `CanonicalRunSettles`: the workers, across
  their windows. `GatesSettle`, `DeadlineIsEnforced`: they finish. `DecisionIsUpToDate` says nothing
  while GitHub made another report of the pull request in the second of the last one (the store
  compares whole seconds and cannot tell them apart), and admits one decision that is left behind,
  a gate that waits for a command which was adopted after its evidence came (see Known disagreements).
* `LogHolds`, `KeepsPromise`, `OperationsEnd`: the file verifies and gives a report, implements
  `DurableLog`, and nobody spins or waits for ever.
* `OutputIsComplete`, `NobodyLeftBehind`, `AlwaysReturns`: a supervised call. Only a call that returns
  because the system refused a signal or a wait may leave processes behind.
* `CarriesAreReviewed`, `ChainHolds`, `SkipIsHonest`: the cache never invents, forgets or embellishes.
* `ReportWasTrue`, `EvidenceHolds`, `CleanIsEarned`: doctor and audit against `seen`. A required check of a
  clear report was satisfied at one instant; one that had several signals, signal by signal (see Known
  disagreements).
* `DeltaHolds`, `ReplayCommutes`, `ReceiptsHold`, `SnapshotWasReal`, `GateIsEarned`: from patch to check
  run. The gate asks the owner of a change's `ownership_path`: for a file that only moved, the owner of
  the place it left has no say, and the property claims no more than that the owner of the new place saw both.
* `InboxIsReal`, `ResumeIsBound`, `RepositoryRestored`, `OthersUntouched`: the reviewer's side. A viewer
  opened from an event shows base, head, checkpoint and request that were each true since the commits
  were in place, base and head together with each of the others unless they went and came back, and all at one
  moment unless the checkpoint did so too (see Known disagreements).
* `NeverSelfRefuted`, `BeliefIsCanonical`, `UpdatesAreForced`, `DifferenceShows`: the differ against its
  verifier and against a reference definition of maximum alignments.

Each of them has a mutant in `PROJECT.json` that violates it under the run's own configuration.

### Fairness

* `GovernorWorker`: a worker's loop polls until the process is aborted, so claims and the steps of a
  handler are weakly fair; time passes, so leases expire. Webhooks, changes on GitHub, crashes and
  errors are never assumed to happen. `settle` has one worker: with two, each may lose its lease to
  the other and supersede its publication for ever, which weak fairness does not exclude.
* `ValueLog`: a process that can take its next step does (`WF_vars(Step(p))`). Faults and power loss
  are not fair. A process that waits for a lock is not fair in the sense of the lock: it takes it when
  nobody holds it.
* `Supervise`: the supervisor's loop, the clock and the reader threads are weakly fair. The child and
  its descendants are never assumed to act.

## Known disagreements

**A green check can remain** (`stale_green`; `store.ts:1749`). After two publishers created two check
runs for one head, the compensation PATCHes the run that the store knows; a newer green run stays.
`services/governor-app/README.md:132-133` excludes only a "zero-duration green race".

The following are stated as definitions but checked by no run. Adding one to the run's configuration
shows the trace.

* `DispatchedWhenDone` (`GovernorWorker`, `MCWorkers.cfg`): a webhook between `acquirePairLease` and
  `planDispatch` moves the fence; `dispatchReview` returns (`worker.ts:406`) instead of throwing, the
  item is completed, and its dedupe key never comes back. `services/governor-app/README.md:5`.
* `WithdrawnForAReason` (`GovernorWorker`, an action property; `MCSettle.cfg`): `evaluatePair` looks at the deadline
  before the evidence (`evaluate.ts:124`), and an evaluation is queued for it: a success reached in
  time turns to failure. `services/governor-app/README.md:94`.
* `HolisticIsNeverPartial` (`ReviewCache`, `MCReviewCache.cfg`): after a holistic refusal of something
  that is no longer current, a holistic context is routed to a residue (`review_cache.rs:793-799`).
  `tools/review-transition/REVIEW-CONTEXT-CONTRACT.md:79-80`: it "can never authorize a partial residue".
* `KeepsAreCleaned` (`Resume`, `MCResume.cfg`): a foreign removal of a keep file between listing and
  reading makes `register_fetch_pack_keeps` give up (`resume.rs:1632-1641`), and keep files of the
  session's own fetch remain. `README.md:511-512`.
* The audit asks for the effective rules without paging (`readiness_audit.rs:1053-1057`); beyond
  GitHub's default page a required rule is not seen. `README.md:131` says that incomplete policy
  surfaces "never become a clean result". The repositories of
  `MCDoctor` have no more rules than `DefaultPageSize`; with `DefaultPageSize = 1` `CleanIsEarned` is violated.

Met while modelling and recorded as hazards: evidence that arrives while the command is still
`attempting` is not evaluated again before the deadline or another event, because `adoptDispatch`
queues the evaluation of the deadline only (`store.ts:1434`): the gate stays pending, which is the
cautious side, and then fails although the review was complete; a failed `findIssueComment` after
`beginDispatchAttempt` leaves the epoch `attempting` for ever (fail-closed by design); a
reconciliation closes a pair without stamping it; `revalidate_inbox_event` (`resume.rs:2565`) reads
everything twice and takes equal answers for one moment, but what goes and comes back is not noticed: a
review that is submitted before the request is read and dismissed after it, or a force-push that is
reverted while the request is withdrawn and renewed (`observe_inbox_event`, `resume.rs:2619-2695`, compares
identity, state, base and head). What the viewer shows was then true piece by piece and never together.
The attempt to prove `ResumeIsBound` without these exceptions found the first.

Exceptions that the properties name, because the code has them:

* A supervised call returns at once when the system refuses a signal or a wait: `kill(-pgid)` with an
  error other than `ESRCH` (`process.rs:336`, `359`, `204`, `262`, `344`; macOS answers `EPERM` for a group
  that holds only zombies), a failed `try_wait` (`202`, `260`, `301`, `341`), a failed kill or wait
  (`360-371`). The child is then not reaped, or its group not ended. On other systems than unix
  there is no group to end at all (`process.rs:419-422`); that build is not modelled.
* When no required check is missing the doctor takes one snapshot (`readiness_audit.rs:4285-4288`), and it
  reads check runs before commit statuses, each page by page. A required check with several signals can
  be reported clear although it never was: a check run that had succeeded starts again after it was
  read, before the commit status of the same context that had failed is mended. `MCDoctor` has the start
  states (`Twin`, `Lone`, `Pair`), and `ReportWasTrue` then says that every signal that was read was in order at
  some instant, and that one that was not in order all the time is not overlooked.
* An `update-ref` that writes the ref and is then killed from outside is taken for one that did not
  (`resume.rs:1516-1517` forgets the registration), and the ref remains; `RepositoryRestored` excepts it
  (`missed`).

## Proofs

**`EvidenceProofs`**, for any set of inputs and any skew: one row per source (`TypeCorrect`), convergence
to the newest input (`Convergence`), no success against what was delivered (`SuccessHolds`). `TypeOK` and
`RowsConverge` are inductive together; the last follows from them and from the definition of `Latest`.
Assumption: `InputsAssumption`, among others that a record never changes its author.

**`GovernorStoreProofs`**, of `StoreSpec`, for any pull requests, commits, merge refs, workers, times and
epochs: the tables keep their types (`TypeCorrect`), active pairs and gates match
(`GateMatchesPair`), a gate that wants success is current (`SuccessStaysCurrent`) and quarantine fails
closed (`QuarantineHolds`). None of the last three is inductive alone: that a success is revoked
when its pair moves needs that the gate the transaction finds is *the* gate of the pair; that
quarantine reaches every success needs the same; and that an evidence event may revoke a gate needs
that a gate and its pair are quarantined together. Hence

    SafeInv == TypeOK /\ MergeUnpaired /\ ActiveGateMatchesPair
                 /\ SuccessIsCurrent /\ QuarantineFailsClosed

where `MergeUnpaired` keeps merge-group gates out of the pair's queries. One lemma per kind of
transaction. Assumption: `StoreAssumption` (distinct constants; times and ids are naturals).

Its second half is about the history of the same specification: the active pair has the newest epoch
and source time its pull request ever had (`NewestUnderReview`), every revision of a gate and every
ready pair has its outbox row, once (`OutboxComplete`), and a merge-group head that was retired stays
retired (`MergeHeadsRetire`).

    HistoryInv == SafeInv /\ ActiveIsRevised /\ GateEpochsKnown /\ ActivePairIsNewest
                    /\ NothingUnqueued /\ MergeHeadsRetireForGood

That a publication is queued under the revision the row takes rests on the row of a new gate being
new, because no gate is ahead of the epochs of its pull request (`GateEpochsKnown`). A late
merge-group request is refused only if its head has a single gate. Most transactions are
*tame* (they change neither epochs nor which rows are active), and one lemma deals with all of them.

**`ValueLogProofs`**, of `ValueLog`'s `Spec`, for any processes, ids, inodes, faults and power failures:
the file on disk always verifies and gives a consistent report (`LogAlwaysHolds`), and the
specification implements `DurableLog` (`PromiseIsKept`). The inductive invariant is

    LogInv == TypeOK /\ Exclusive /\ Opened /\ WritersAreCurrent
                /\ StagedIsWhole /\ RenamedRemains /\ RecoverableIsSafe

A rename is an addition at the end only if the writer's view is still the log (`WritersAreCurrent`),
which holds because others that write the same inode are excluded (`Exclusive`, `Opened`) and those
that hold another inode failed the check of the path; the file that is renamed must be complete and
unshared (`StagedIsWhole`). A confirmation after the directory sync is durable only if what was renamed
is still a beginning of the log (`RenamedRemains`), and a power loss keeps every confirmed event only if
each directory entry it may bring back has them (`RecoverableIsSafe`). That appending a batch keeps a
log well-formed is the model's own check before staging, as it is the code's; that a well-formed log
gives a report with rates between none and all is proved from `Verifies` (`ReportIsConsistent`,
`ReportInRange`). Assumptions: `FunnelAssumption`, `ValueLogAssumption`.

**`GovernorWorkerProofs`**, of `GovernorWorker`'s `Spec`, for any number of workers, crashes, lost requests
and expired leases: the workers use the store as it allows any caller (`WorkersConform`, and with it the
refinement `WorkersImplementStore`: every theorem about `StoreSpec` holds of the running service), the
command of an epoch is posted at most once (`CommandOnce`), a gate that wants success is backed by
rows that still evaluate to success (`SuccessStaysBacked`), and a gate with nothing left to evaluate
says what the rows say (`DecisionsUpToDate`).

    WorkerInv == HistoryInv /\ the types of locals and of GitHub
                   /\ \A w : GatePart(w) /\ PairPart(w) /\ ReconcilePart(w) /\ ReviewPart(w) /\ PostPart(w)
                   /\ PostInv /\ SuccessIsBacked

The parts say, for each step a handler can be at, what its locals still mean: what it read and decided
holds for as long as the pair's fence is the one of its lease. Only the worker that began the attempt
may post, at most one worker per epoch is about to, and only while the epoch's command is not there.

`DecisionIsUpToDate` speaks of a store without evaluations and reconciliations to do, and is not
inductive: it says nothing of the states in between. Its invariant, on top of `WorkerInv`, is

    DecisionInv == ReportsInTime /\ \A k : KeyKnown(k) /\ no gate of a pair wants "cancelled"
                     /\ \A g : ActiveGate(g) => Trusted(g) \/ Revisited(gate[g].pair, g.epoch)
                     /\ \A w : TopicPart(w) /\ JudgePart(w)

Each active gate is *trusted* (it says what the rows of its epoch say, or GitHub has reported
something that the store has not heard) or will be *revisited* by an item that is not done and that
nobody is about to complete. Three facts make this inductive. An item is completed only when its work
is over: the gate has a later revision than the one the item was asked for, or is closed, or
quarantined (`KeyKnown`); this is why a dedupe key that was used before swallows nothing that is
needed. A worker that still has the pair's fence knows what the rows say, why it rejects, and that its
list of pull requests is not older than the rows (`JudgePart`). And a report that contradicts a row is
never older than the row (`ReportsInTime`). A step is proved in two halves: `Later` says what any
transaction leaves of all this, whoever calls it, and `Settles` what the acting worker owes; every
action has a lemma for each half.
Hypothesis of these five theorems: `AnyId`, that GitHub may number its comments and check runs with any
positive number (the small instances give it as many as they need). Assumption: `WorkerAssumption`.

**`SuperviseProofs`**, for any limit and any output: an `Ok` of the capturing function carries both streams in
full (`CompleteOutput`), and a call that is not refused by the system leaves no child and no group behind (`NoneLeftBehind`).
`SuperviseInv` adds to the types that a captured stream ends only when nobody is left who could write to it
(`ReadersHold`), which steps of the supervisor need a child and which have reaped it (`ChildHolds`; a refused call
ends all claims about it),
and that a result is given only after both readers ended (`ResultHolds`). Assumption:
`SuperviseAssumption`.

**`ReviewCacheProofs`**, for any paths, blobs, configurations and any length of a chain: what is carried was
said by an execution of exactly this change under this reviewer (`CarriesWereReviewed`), a passing
receipt owes nothing to an earlier blocker and every receipt verifies when it is presented
(`LineagesHold`), and a skip is no better than what is recorded (`SkipsAreHonest`). The invariant
`CacheInv` says of every receipt of the chain what makes it a good prior: its outcomes were executed,
it can be presented, it answers what it was asked. What a lineage owes is a recursive function over
the chain; instead of an induction, `OwedIsRefused` states what *every* solution of its equation is,
and extends that by one receipt per step. Assumptions: `GitAssumption`, `CacheAssumption`,
`VerdictsAssumption`.

**`ReviewGateProofs`**, for any people, commits, page size, webhooks and changes of access: the receipts of
the ledger (`ReceiptsAreRight`) and the truth of the ownership snapshot (`SnapshotsAreReal`).

    LedgerInv == ReviewsHold /\ EventsHold /\ FilesHold

says that every event tells of a review what GitHub keeps of it, and that the facts of a ledger, on
disk or about to be written, are those of its deliveries and no others; hence the newest receipt of a
reviewer is the newest review, and a dismissal that came first and without a time still finds
the receipt it dismisses.

    CollectInv == types /\ CollectorShape(collector) /\ (Once(collector) => Honest(collector, access))
                    /\ SnapshotWasReal

`Honest` goes fact by fact (the repository, the team's permission, who is a member, each login and each answer):
until the end of the first observation a fact that has not changed was read right; from then on
each fact is right in the first observation, or has changed before its end and is read right by the second. Two
equal observations therefore describe the moment between them, unless a fact changed twice. That the
pages of the member list add up to the members is proved from the rank of each member
(`MembersPage`). Assumption: `GateAssumption` (accounts are a finite set of naturals, and so are the
logins that CODEOWNERS names).

**`ResumeProofs`**, for any history, pull requests, page size and any number of sessions and foreign
processes: the inbox describes pull requests as they were at one moment of its collection
(`InboxTellsTheTruth`), a viewer is bound to what was true and to the only merge bases
(`ViewerIsBound`), a clean cleanup leaves nothing of the session (`CleanupIsComplete`), and nobody else
loses a keep file or a ref they moved (`OthersAreSpared`).

    ResumeInv == TypeOK /\ HistoryHolds /\ Collects(github, inbox)
                   /\ \A s : Placed, Works, Merges, Sights and Opens of session s
                   /\ KeepsHold /\ RefsHold /\ OthersHold

The argument for what is shown: a review changes only once, by its dismissal (`Later`), and a value that
is equal at two reads and did not go and come back was the same in between (`StaysBetween`), so that
reading everything twice is enough where nothing went and came back. Heads and bases are not assumed to
be monotone; the exceptions in `EventWasTrue` are just what is then left. The
argument for cleanup: every keep file that a session's fetch made is known to the session or about to
be found by it, every temporary ref is in its session's list unless its removal failed, and no session takes for its own
what was there before. Assumption: `ResumeAssumption`.

**Only model-checked:**

* `GatesSettle`, `DeadlineIsEnforced`, `OperationsEnd`, `AlwaysReturns`: liveness under fairness and
  `ENABLED` are out of the prover's reach.
* `CanonicalRunSettles` of the workers is a statement about a bounded run: the scope `publish` has no crash
  and no failed request. With a publisher that dies after it wrote to GitHub, between the write and the
  compensation, the known check run can stay wrong, as `services/governor-app/README.md:132-133`
  concedes ("can only be detected and compensated after an external write").
* `DeltaHolds`, `ReplayCommutes` of patches and deltas, and `NeverSelfRefuted`, `BeliefIsCanonical`,
  `UpdatesAreForced`, `DifferenceShows` of the differ: they compare recursive definitions with
  references. What a recursive definition computes for every input needs an induction over data that
  the installed provers cannot instantiate, and the differ's modules declare `RECURSIVE` operators, which
  the prover does not support. TLC compares them on bounded inputs.
* `GateIsEarned` of the gate: coverage composes checkpoints by folding over the changes of each receipt,
  down to the replay of patches, so that its proof would be an induction over data as well. What the
  gate rests on is proved: the receipts and the snapshot.
* `ReportWasTrue`, `EvidenceHolds` of the doctor and `CleanIsEarned` of the audit: the argument is the one of
  `SnapshotsAreReal` (read twice, compare), but over lists whose pages shift while they are read
  and the evaluator's own validation; not attempted.

## Not modelled

* *Webhook server and `claimDelivery`*: HTTP, HMAC and body limits are I/O, and the claim is one insert
  under a unique key. The store is checked under repeated and reordered events, which is more than
  the claim lets through. App tokens, payload parsing, migrations, start-up, several repositories, and
  the App's own pagination (a list of open pull requests is one read).
* *Review Governor Action* (`govern.py`): one pass over API answers without state.
* *Grammars, tokenisation, parsing*: third-party parsers. `WorkBudget` and size limits of reports
  only refuse. YAML and expression parsing of workflows, CODEOWNERS pattern syntax, API and patch
  parsers, report serialisation.
* *Viewer, browser extension, command-line parsing, rendering*: user interface.
* *Benchmarks and evaluation tools* (`src/bin/stratadiff-evaluate.rs`, `stratadiff-materialize.rs`):
  offline, sequential file processing without shared state.
* Within modelled parts: hash collisions; errors while temporary files are removed; the reservation of
  sources before they are read; `MAX_DOCTOR_WORKFLOW_INVESTIGATIONS`; two commands that rewrite one
  ledger file at once (no lock and no promise in the docs; a lost delivery behaves as one that did
  not arrive); the clocks of different machines.

## Plan

1. `ReportWasTrue` of the doctor along the argument of `SnapshotsAreReal`: one fact at a time, with the
   cursor of `Pages` in place of the ranks of the member list.
2. A module for delivery claims and collisions over the store's impacts.
3. The publication of a gate as a refinement of a single register, with the compensation as the step that
   repairs it; `stale_green` and the crash that `CanonicalRunSettles` leaves out are its two exceptions.
