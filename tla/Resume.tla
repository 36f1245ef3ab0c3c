------------------------------- MODULE Resume -------------------------------
(***************************************************************************)
(* The Review Inbox and Resume around one reviewer's pull requests         *)
(* (src/src/inbox.rs, src/src/resume.rs).                                  *)
(*                                                                         *)
(* An inbox is collected through GitHub's API, request by request, while   *)
(* the pull requests change.  A Resume session then binds itself to one    *)
(* item of it, brings the commits it needs into a Git repository, checks   *)
(* that the item still holds and opens the viewer.  Several sessions and   *)
(* other Git processes share a repository; a session may be interrupted,   *)
(* its children may fail or time out, and it may be killed.                *)
(***************************************************************************)
EXTENDS Inbox

CONSTANTS
    Pulls,          \* the reviewer's pull requests
    Sessions,       \* Resume sessions; a session stands for its fetch-pack's pid
    Parents,        \* Parents[c] is the set of parents of commit c
    Limit,          \* how many candidates an inbox inspects
    MaxApiCalls     \* MAX_API_CALLS, without the two that read identities

VARIABLES
    github,     \* every state of the pull requests so far, the last one being now
    clock,      \* GitHub's clock, in seconds
    inbox,      \* the collection of an inbox
    session,    \* the Resume sessions
    repo,       \* the shared repository: objects, refs, keeps
    foreign,    \* another Git process that keeps a pack of its own
    budget      \* how often the surroundings may still act

vars == <<github, clock, inbox, session, repo, foreign, budget>>

Spend(name) == budget[name] > 0 /\ budget' = [budget EXCEPT ![name] = budget[name] - 1]

Now(p) == Last(github)[p]

-----------------------------------------------------------------------------
(* GitHub                                                                  *)

Becomes(p, pr) ==
    /\ github' = Append(github, [Last(github) EXCEPT ![p] = [pr EXCEPT !.updated = clock]])
    /\ UNCHANGED <<inbox, session, repo, foreign>>

\* A push may rewrite the branch, and may bring back a head it once had.
Push(p, c) ==
    /\ Spend("push")
    /\ Now(p).head # None /\ c # Now(p).head
    /\ Becomes(p, [Now(p) EXCEPT !.head = c])
    /\ UNCHANGED clock

\* The base branch moves, or is replaced by another.
MoveBase(p, c) ==
    /\ Spend("base")
    /\ c # Now(p).base
    /\ Becomes(p, [Now(p) EXCEPT !.base = c])
    /\ UNCHANGED clock

\* A review is submitted against the head; its reviewer is then no longer
\* asked for one.  A second may pass first.
Submit(p, state, tick) ==
    /\ Spend("submit")
    /\ Now(p).head # None
    /\ clock' = clock + tick
    /\ github' = Append(github, [Last(github) EXCEPT ![p] =
                    [Now(p) EXCEPT !.reviews = Append(Now(p).reviews,
                        [id |-> Len(Now(p).reviews) + 1, state |-> state, commit |-> Now(p).head,
                         at |-> clock + tick]),
                     !.requested = FALSE, !.updated = clock + tick]])
    /\ UNCHANGED <<inbox, session, repo, foreign>>

Dismiss(p, i) ==
    /\ Spend("dismiss")
    /\ i \in DOMAIN Now(p).reviews /\ Formal(Now(p).reviews[i])
    /\ Becomes(p, [Now(p) EXCEPT !.reviews[i].state = "dismissed"])
    /\ UNCHANGED clock

AskForReview(p) ==
    /\ Spend("ask")
    /\ ~Now(p).requested
    /\ Becomes(p, [Now(p) EXCEPT !.requested = TRUE])
    /\ UNCHANGED clock

WithdrawRequest(p) ==
    /\ Spend("withdraw")
    /\ Now(p).requested
    /\ Becomes(p, [Now(p) EXCEPT !.requested = FALSE])
    /\ UNCHANGED clock

Close(p) ==
    /\ Spend("close")
    /\ Now(p).open
    /\ Becomes(p, [Now(p) EXCEPT !.open = FALSE])
    /\ UNCHANGED clock

-----------------------------------------------------------------------------
(* Collecting an inbox                                                     *)

NoInbox ==
    [pc |-> "search", candidates |-> <<>>, count |-> 0, i |-> 1, first |-> <<>>, second |-> <<>>,
     calls |-> 0, items |-> <<>>, status |-> None, since |-> 0]

InboxSteps(next) == inbox' = next /\ UNCHANGED <<github, clock, session, repo, foreign, budget>>

FailInbox == [NoInbox EXCEPT !.pc = "failed"]

\* Every request is counted; one beyond the limit is refused.
Call(then) == InboxSteps(IF inbox.calls < MaxApiCalls THEN [then EXCEPT !.calls = inbox.calls + 1]
                         ELSE FailInbox)

Reviewed == {p \in Pulls : Now(p).open /\ Now(p).reviews # <<>>}

\* One search returns the first candidates with the first page of each, and
\* how many there are.
Search(candidates) ==
    /\ inbox.pc = "search"
    /\ ToSet(candidates) \subseteq Reviewed
    /\ IsInjective(candidates)
    /\ Len(candidates) = IF Cardinality(Reviewed) < Limit THEN Cardinality(Reviewed) ELSE Limit
    /\ Call(IF \A p \in ToSet(candidates) : ValidPullRequest(Now(p))
            THEN [inbox EXCEPT !.pc = "snapshot", !.candidates = candidates,
                               !.count = Cardinality(Reviewed),
                               !.first = [k \in DOMAIN candidates |-> FirstPage(Now(candidates[k]))],
                               !.since = Len(github)]
            ELSE FailInbox)

\* The next page of a listing, or, after the last one, what follows it.
Turn(field, snap, pr, then) ==
    IF snap.more
    THEN Call(IF PageFits(snap, pr) THEN [inbox EXCEPT ![field][inbox.i] = NextPage(snap, pr)]
              ELSE FailInbox)
    ELSE InboxSteps(IF CompleteReviews(snap) THEN then ELSE FailInbox)

CompleteSnapshot ==
    /\ inbox.pc = "snapshot"
    /\ inbox.i <= Len(inbox.candidates)
    /\ Turn("first", inbox.first[inbox.i], Now(inbox.candidates[inbox.i]),
            [inbox EXCEPT !.i = inbox.i + 1])

StartRevalidation ==
    /\ inbox.pc = "snapshot"
    /\ inbox.i > Len(inbox.candidates)
    /\ InboxSteps([inbox EXCEPT !.pc = "revalidate", !.i = 1])

\* Only when every candidate has its first snapshot are they read again.
RevalidateSnapshot ==
    /\ inbox.pc = "revalidate"
    /\ inbox.i <= Len(inbox.candidates)
    /\ Len(inbox.second) < inbox.i
    /\ LET pr == Now(inbox.candidates[inbox.i])
       IN  Call(IF ValidPullRequest(pr)
                THEN [inbox EXCEPT !.second = Append(inbox.second, FirstPage(pr))]
                ELSE FailInbox)

RevalidatePages ==
    /\ inbox.pc = "revalidate"
    /\ inbox.i <= Len(inbox.candidates)
    /\ Len(inbox.second) = inbox.i
    /\ Turn("second", inbox.second[inbox.i], Now(inbox.candidates[inbox.i]),
            [inbox EXCEPT !.i = inbox.i + 1])

\* The item of a candidate: its decision and, if it is actionable, its event.
Item(p, snap) ==
    LET d == DecideCandidate(snap, None)
    IN  [pull |-> p, status |-> d.status, checkpoint |-> d.checkpoint,
         event |-> IF d.status = "actionable"
                   THEN Event(snap.body.base, snap.body.head, d.checkpoint, None,
                              snap.body.requested, d.triggers)
                   ELSE None]

FinishInbox ==
    /\ inbox.pc = "revalidate"
    /\ inbox.i > Len(inbox.candidates)
    /\ LET items == [k \in DOMAIN inbox.candidates |-> Item(inbox.candidates[k], inbox.first[k])]
       IN  InboxSteps(
             IF /\ \A k \in DOMAIN items : SnapshotMatches(inbox.first[k], inbox.second[k])
                /\ \A k \in DOMAIN items : items[k].event # None => ValidClaims(items[k].event)
             THEN [NoInbox EXCEPT !.pc = "done", !.items = items, !.since = inbox.since,
                                  !.calls = inbox.calls, !.count = inbox.count,
                                  !.status = InboxStatus(inbox.count > Len(inbox.candidates),
                                                         {items[k].status : k \in DOMAIN items})]
             ELSE FailInbox)

-----------------------------------------------------------------------------
(* Ancestry                                                                *)

Commits == DOMAIN Parents

\* A commit and what every set of commits that has it and is closed under
\* parents has.
Ancestors ==
    [c \in Commits |->
        {d \in Commits : \A S \in SUBSET Commits :
            (c \in S /\ \A x \in S : Parents[x] \subseteq S) => d \in S}]

\* git merge-base --all
MergeBases(a, b) ==
    LET common == Ancestors[a] \cap Ancestors[b]
    IN  {c \in common : \A d \in common : c \in Ancestors[d] => d = c}

\* GitHub's comparison names one merge base, whichever.
ComparisonStatus(a, b) ==
    IF a = b THEN "identical"
    ELSE IF a \in Ancestors[b] THEN "ahead"
    ELSE IF b \in Ancestors[a] THEN "behind"
    ELSE "diverged"

SupportsBoundedSnapshots(status) == status \in {"ahead", "identical"}

\* The merge base of two commits when there is only one.
UniqueMergeBase(a, b) ==
    LET bases == MergeBases(a, b)
    IN  IF Cardinality(bases) = 1 THEN CHOOSE c \in bases : TRUE ELSE None

-----------------------------------------------------------------------------
(* A Resume session                                                        *)

NoSession ==
    [pc |-> "idle", mode |-> "local", pull |-> None, event |-> None, base |-> None, head |-> None,
     checkpoint |-> None, i |-> 1, before |-> {}, output |-> None, listing |-> {}, refs |-> <<>>,
     keeps |-> {}, merge |-> None, round |-> 1, observed |-> None, requested |-> FALSE, since |-> 0,
     shown |-> None, signal |-> FALSE, error |-> None, attempt |-> "none", cleanup |-> "clean",
     missed |-> FALSE]

\* The repository in which the sessions work that do not have their own.
Shared == 0

EmptyRepo == [objects |-> {}, refs |-> <<>>, keeps |-> <<>>]

\* One file more; one that is there is not overwritten.
With(files, name, content) ==
    [x \in DOMAIN files \cup {name} |-> IF x \in DOMAIN files THEN files[x] ELSE content]

\* A pack of commit c arrives with the keep file of the process that fetched it.
Receive(r, c, pid) ==
    [r EXCEPT !.objects = r.objects \cup {c}, !.keeps = With(r.keeps, c, [pid |-> pid, by |-> pid])]

\* select_repository: the shared repository, or one in the scratch directory.
RepoOf(s) == IF session[s].mode = "local" THEN Shared ELSE s

Wanted(t) == <<t.base, t.head, t.checkpoint.commit>>

Does(s, next) ==
    /\ session' = [session EXCEPT ![s] = next]
    /\ UNCHANGED <<github, clock, inbox, foreign>>

Steps(s, next) == Does(s, next) /\ UNCHANGED <<repo, budget>>

Failed(t) == [t EXCEPT !.pc = "cleanup", !.error = "failed"]

\* A session starts from a pull request, or from an item of the inbox.
Start(s, mode, p, event) ==
    /\ session[s].pc = "idle"
    /\ event = None \/ \E k \in DOMAIN inbox.items : inbox.items[k].pull = p /\ inbox.items[k].event = event
    /\ event # None => event.checkpointBase = None
    /\ Steps(s, [NoSession EXCEPT !.pc = "first", !.mode = mode, !.pull = p, !.event = event,
                                  !.attempt = "invoked"])

\* Child processes are run only while no signal has arrived.
Runs(s, pc) == session[s].pc = pc /\ ~session[s].signal

ReadFirst(s) ==
    /\ Runs(s, "first")
    /\ LET t == session[s]
           pr == Now(t.pull)
       IN  Steps(s, IF \/ pr.head = None
                       \/ t.event # None /\ (pr.base # t.event.base \/ pr.head # t.event.head)
                    THEN Failed(t)
                    ELSE [t EXCEPT !.pc = "checkpoint", !.base = pr.base, !.head = pr.head])

\* The checkpoint of an event is the one it names.
IsCheckpointOf(c, event) ==
    event # None => c.id = event.review /\ c.state = event.state /\ c.commit = event.checkpoint

ReadCheckpoint(s) ==
    /\ Runs(s, "checkpoint")
    /\ LET t == session[s]
           c == Checkpoint(Now(t.pull).reviews)
       IN  Steps(s, IF c = None THEN Failed(t)
                    ELSE IF ~IsCheckpointOf(c, t.event) THEN Failed(t)
                    ELSE [t EXCEPT !.pc = IF t.mode = "local" THEN "ensure" ELSE "compare",
                                   !.checkpoint = c])

-----------------------------------------------------------------------------
(* Commits in a local repository                                           *)

EnsureLocalCommit(s) ==
    /\ Runs(s, "ensure")
    /\ LET t == session[s]
       IN  Steps(s, IF t.i > 3 THEN [t EXCEPT !.pc = "latest"]
                    ELSE IF Wanted(t)[t.i] \in repo[Shared].objects THEN [t EXCEPT !.i = t.i + 1]
                    ELSE [t EXCEPT !.pc = "fetch"])

\* The commit is fetched into a repository of the session's own; then the
\* keep files that are there already are listed.
FetchProvider(s) ==
    /\ Runs(s, "fetch")
    /\ Steps(s, [session[s] EXCEPT !.pc = "import", !.before = DOMAIN repo[Shared].keeps])

\* fetch-pack writes the pack and its keep file, if there is none of that
\* name.  It may be stopped before or after; output is what it printed, if
\* that was read: with the keep file it made, or without.
Import(s, wrote, end) ==
    /\ session[s].pc = "import"
    /\ CASE end = "ok" -> wrote /\ ~session[s].signal /\ UNCHANGED budget
         [] end = "exited" -> ~session[s].signal /\ Spend("fail")
         [] end = "stopped" -> \/ session[s].signal /\ UNCHANGED budget
                               \/ ~session[s].signal /\ Spend("fail")
    /\ LET t == session[s]
           c == Wanted(t)[t.i]
           made == wrote /\ c \notin DOMAIN repo[Shared].keeps
       IN  /\ repo' = IF ~wrote THEN repo
                      ELSE [repo EXCEPT ![Shared] = Receive(repo[Shared], c, s)]
           /\ Does(s, [t EXCEPT !.pc = "list", !.output = end,
                                !.keeps = IF end # "stopped" /\ made /\ c \notin t.before
                                          THEN t.keeps \cup {c} ELSE t.keeps,
                                !.missed = t.missed \/ (made /\ c \in t.before)])

\* The keep files that appeared since are listed, however the import ended.
ListNothing(s) ==
    /\ session[s].pc = "list"
    /\ Steps(s, [session[s] EXCEPT !.pc = "inspect", !.listing = {}])
ListKeeps(s) ==
    /\ session[s].pc = "list"
    /\ Steps(s, [session[s] EXCEPT !.pc = "inspect",
                    !.listing = DOMAIN repo[Shared].keeps \ session[s].before])

\* One of them is opened: it is the session's if its fetch-pack is named in
\* it.  One that is gone ends the registration, and the session.
InspectKeep(s, c) ==
    /\ session[s].pc = "inspect"
    /\ c \in session[s].listing
    /\ LET t == session[s]
       IN  Steps(s, IF c \notin DOMAIN repo[Shared].keeps
                    THEN [Failed(t) EXCEPT !.missed = TRUE]
                    ELSE [t EXCEPT !.listing = t.listing \ {c},
                                   !.keeps = IF repo[Shared].keeps[c].pid = s
                                             THEN t.keeps \cup {c} ELSE t.keeps])

Registered(s) ==
    /\ session[s].pc = "inspect"
    /\ session[s].listing = {}
    /\ Steps(s, IF session[s].output = "ok" THEN [session[s] EXCEPT !.pc = "ref"]
                ELSE Failed(session[s]))

\* update-ref makes the session's ref if there is none.  Signals do not stop
\* it, a timeout does, and what it then did is registered.  One that exits
\* without success is taken to have made nothing, which is wrong of one that
\* was killed from outside after it wrote.
CreateTemporaryRef(s, end, made) ==
    /\ Runs(s, "ref")
    /\ end = "ok" => made
    /\ IF end = "ok" THEN UNCHANGED budget ELSE Spend("fail")
    /\ LET t == session[s]
           c == Wanted(t)[t.i]
           registered == [t EXCEPT !.refs = Append(t.refs, [name |-> t.i, commit |-> c])]
       IN  /\ repo' = IF made THEN [repo EXCEPT ![Shared].refs = With(repo[Shared].refs, <<s, t.i>>, c)]
                      ELSE repo
           /\ Does(s, CASE end = "ok" -> [registered EXCEPT !.pc = "release"]
                        [] end = "exited" -> [Failed(t) EXCEPT !.missed = t.missed \/ made]
                        [] end = "stopped" -> Failed(registered))

\* A keep file is removed if it still names the session's fetch-pack.
ReleasePackKeeps(s, keeps) ==
    [k \in {k \in DOMAIN keeps : k \notin session[s].keeps \/ keeps[k].pid # s} |-> keeps[k]]

Release(s) ==
    /\ Runs(s, "release")
    /\ repo' = [repo EXCEPT ![Shared].keeps = ReleasePackKeeps(s, repo[Shared].keeps)]
    /\ Does(s, [session[s] EXCEPT !.pc = "resolve", !.keeps = {}, !.before = {}, !.output = None])
    /\ UNCHANGED budget

ResolveImport(s) ==
    /\ Runs(s, "resolve")
    /\ LET t == session[s]
       IN  Steps(s, IF repo[Shared].refs[<<s, t.i>>] = Wanted(t)[t.i]
                    THEN [t EXCEPT !.pc = "ensure", !.i = t.i + 1]
                    ELSE Failed(t))

-----------------------------------------------------------------------------
(* Commits in a repository of the session's own                            *)

\* GitHub compares the base with the head and with the checkpoint.
Compare(s, m1, m2) ==
    /\ Runs(s, "compare")
    /\ LET t == session[s]
           c == t.checkpoint.commit
       IN  /\ m1 \in MergeBases(t.base, t.head) /\ m2 \in MergeBases(t.base, c)
           /\ Steps(s, [t EXCEPT !.merge = <<m1, m2>>,
                !.pc = IF /\ SupportsBoundedSnapshots(ComparisonStatus(t.base, t.head))
                          /\ SupportsBoundedSnapshots(ComparisonStatus(t.base, c))
                       THEN "snapshots" ELSE "ancestry"])

\* Otherwise every ancestor is fetched and the merge bases are computed;
\* they must be unique, and the ones GitHub named.
PrepareAncestry(s) ==
    /\ Runs(s, "ancestry")
    /\ LET t == session[s]
           m == <<UniqueMergeBase(t.base, t.head), UniqueMergeBase(t.base, t.checkpoint.commit)>>
       IN  Steps(s, IF None \in ToSet(m) \/ m # t.merge THEN Failed(t)
                    ELSE [t EXCEPT !.pc = "snapshots", !.merge = None])

\* What is fetched: base, head and checkpoint, of which the base is both merge
\* bases, or in place of the base the merge bases that were computed.
Bounded(t) == t.merge # None

Taken(t) ==
    IF Bounded(t) THEN Wanted(t)
    ELSE <<UniqueMergeBase(t.base, t.head), t.head,
           UniqueMergeBase(t.base, t.checkpoint.commit), t.checkpoint.commit>>

Snapshots(t) ==
    {[name |-> k, commit |-> Taken(t)[k]] :
        k \in {k \in DOMAIN Taken(t) : \A j \in 1..k-1 : Taken(t)[j] # Taken(t)[k]}}

\* The refs of the fetch are registered before it starts.
MaterializeSnapshots(s, end, made) ==
    /\ Runs(s, "snapshots")
    /\ end = "ok" => made
    /\ IF end = "ok" THEN UNCHANGED budget ELSE Spend("fail")
    /\ LET t == session[s]
           registered == [t EXCEPT !.refs = SetToSeq(Snapshots(t))]
           next == [registered EXCEPT !.pc = IF Bounded(t) THEN "prefetch" ELSE "attach"]
       IN  /\ repo' = IF ~made THEN repo
                      ELSE [repo EXCEPT ![s] =
                               [@ EXCEPT !.objects = ToSet(Taken(t)),
                                         !.refs = [r \in {<<s, x.name>> : x \in Snapshots(t)} |-> Taken(t)[r[2]]]]]
           /\ Does(s, IF end = "ok" THEN next ELSE Failed(registered))

\* The fetched ancestors become visible in the session's repository, where
\* the base has no ref of its own, and give the same merge bases there.
AttachAncestry(s) ==
    /\ Runs(s, "attach")
    /\ LET t == session[s]
           visible == UNION {Ancestors[c] : c \in ToSet(Wanted(t))}
       IN  /\ repo' = [repo EXCEPT ![s].objects = visible]
           /\ Does(s, IF /\ UniqueMergeBase(t.base, t.head) \in visible
                         /\ UniqueMergeBase(t.base, t.checkpoint.commit) \in visible
                      THEN [t EXCEPT !.pc = "prefetch"] ELSE Failed(t))
    /\ UNCHANGED budget

\* The blobs that the viewer will read are fetched while the network is at
\* hand: all that differs between commits that are there.
PrefetchBlobs(s) ==
    /\ Runs(s, "prefetch")
    /\ LET t == session[s]
       IN  Steps(s, IF ToSet(Taken(t)) \subseteq repo[s].objects THEN [t EXCEPT !.pc = "latest"]
                    ELSE Failed(t))

-----------------------------------------------------------------------------
(* Does it still hold?                                                     *)

ReadLatest(s) ==
    /\ Runs(s, "latest")
    /\ LET t == session[s]
           pr == Now(t.pull)
       IN  Steps(s, IF pr.base # t.base \/ pr.head # t.head THEN Failed(t)
                    ELSE [t EXCEPT !.pc = IF t.event = None THEN "bind" ELSE "observe",
                                   !.since = Len(github)])

\* observe_inbox_event reads the pull request, the reviews, the review, the
\* requested reviewers and the pull request again.
ObservePullRequest(s) ==
    /\ Runs(s, "observe")
    /\ LET t == session[s]
           pr == Now(t.pull)
       IN  Steps(s, IF pr.base # t.base \/ pr.head # t.head \/ ~pr.open THEN Failed(t)
                    ELSE [t EXCEPT !.pc = "observe_checkpoint"])

ObserveCheckpoint(s) ==
    /\ Runs(s, "observe_checkpoint")
    /\ LET t == session[s]
           c == Checkpoint(Now(t.pull).reviews)
       IN  Steps(s, IF c = None THEN Failed(t)
                    ELSE [t EXCEPT !.pc = "observe_review", !.observed = c])

ObserveReview(s) ==
    /\ Runs(s, "observe_review")
    /\ LET t == session[s]
       IN  Steps(s, IF t.observed \notin ToSet(Now(t.pull).reviews) THEN Failed(t)
                    ELSE [t EXCEPT !.pc = "observe_requests"])

ObserveRequests(s) ==
    /\ Runs(s, "observe_requests")
    /\ Steps(s, [session[s] EXCEPT !.pc = "observe_again",
                                   !.requested = Now(session[s].pull).requested])

\* How often the event is observed and compared with the expected one.
OneObservation == 1
Observations == 2

ObserveAgain(s) ==
    /\ Runs(s, "observe_again")
    /\ LET t == session[s]
           pr == Now(t.pull)
           event == Event(pr.base, pr.head, t.observed, None, t.requested,
                          Triggers(t.observed.commit, None, pr.head, pr.base, t.requested))
       IN  Steps(s, IF \/ pr.base # t.base \/ pr.head # t.head \/ ~pr.open
                       \/ ~ValidClaims(event) \/ event # t.event
                    THEN Failed(t)
                    ELSE [t EXCEPT !.pc = IF t.round = Observations THEN "bind" ELSE "observe",
                                   !.round = t.round + 1])

-----------------------------------------------------------------------------
(* The viewer                                                              *)

Bind(s) ==
    /\ session[s].pc = "bind"
    /\ Steps(s, [session[s] EXCEPT !.pc = "viewer", !.attempt = "bound"])

\* The viewer is given the merge bases, or computes them and insists that
\* they are unique.
OpenViewer(s) ==
    /\ Runs(s, "viewer")
    /\ LET t == session[s]
           m == IF t.merge # None THEN t.merge
                ELSE <<UniqueMergeBase(t.base, t.head), UniqueMergeBase(t.base, t.checkpoint.commit)>>
       IN  Steps(s, IF None \in ToSet(m) THEN Failed(t)
                    ELSE [t EXCEPT !.pc = "open", !.attempt = "ready",
                                   !.shown = [base |-> t.base, head |-> t.head,
                                              checkpoint |-> t.checkpoint, merge |-> m]])

CloseViewer(s) ==
    /\ Runs(s, "open")
    /\ Steps(s, [session[s] EXCEPT !.pc = "cleanup"])

-----------------------------------------------------------------------------
(* Failure and cleanup                                                     *)

\* Where a child process runs, or is about to, that heeds signals.
Interruptible ==
    {"first", "checkpoint", "ensure", "fetch", "ref", "release", "resolve", "compare", "ancestry",
     "snapshots", "attach", "prefetch", "latest", "observe", "observe_checkpoint", "observe_review", "observe_requests",
     "observe_again", "viewer", "open"}

Interrupted(s) ==
    /\ session[s].signal
    /\ session[s].pc \in Interruptible
    /\ Steps(s, [session[s] EXCEPT !.pc = "cleanup", !.error = "interrupted"])

\* A child process fails or times out without having changed anything.
ChildFails(s) ==
    /\ session[s].pc \in Interruptible \ {"ref", "release"}
    /\ ~session[s].signal
    /\ Spend("fail")
    /\ Does(s, Failed(session[s]))
    /\ UNCHANGED repo

Dropped(t, cleanup) == [t EXCEPT !.refs = Front(t.refs), !.cleanup = cleanup, !.pc = "cleanup"]

\* Cleanup takes the registered refs from the last to the first.  It heeds
\* no signal, but its children may time out.
InspectRef(s, ok) ==
    /\ session[s].pc = "cleanup"
    /\ session[s].refs # <<>>
    /\ IF ok THEN UNCHANGED budget ELSE Spend("fail")
    /\ LET t == session[s]
           r == <<s, Last(t.refs).name>>
           refs == repo[RepoOf(s)].refs
       IN  Does(s, IF ~ok THEN Dropped(t, "failed")
                   ELSE IF r \notin DOMAIN refs THEN Dropped(t, t.cleanup)
                   ELSE IF refs[r] # Last(t.refs).commit THEN Dropped(t, "failed")
                   ELSE [t EXCEPT !.pc = "delete"])
    /\ UNCHANGED repo

\* update-ref -d deletes the ref if it still has the expected value.
DeletableAnyway(refs, r, commit) == r \in DOMAIN refs
Deletable(refs, r, commit) == r \in DOMAIN refs /\ refs[r] = commit

DeleteRef(s, end, done) ==
    /\ session[s].pc = "delete"
    /\ end = "ok" => done
    /\ IF end = "ok" THEN UNCHANGED budget ELSE Spend("fail")
    /\ LET t == session[s]
           r == <<s, Last(t.refs).name>>
           refs == repo[RepoOf(s)].refs
           deleted == done /\ Deletable(refs, r, Last(t.refs).commit)
       IN  /\ repo' = IF deleted
                      THEN [repo EXCEPT ![RepoOf(s)].refs = [x \in DOMAIN refs \ {r} |-> refs[x]]]
                      ELSE repo
           /\ Does(s, Dropped(t, IF end = "ok" /\ deleted THEN t.cleanup ELSE "failed"))

\* A failed attempt is recorded, unless the viewer was open and a signal
\* ended it.
AttemptAfter(t) ==
    IF \/ t.error = None /\ t.cleanup = "clean"
       \/ t.error = "interrupted" /\ t.cleanup = "clean" /\ t.attempt = "ready"
    THEN t.attempt ELSE "failed"

\* The keep files and the scratch directory go last.
FinishCleanup(s) ==
    /\ session[s].pc = "cleanup"
    /\ session[s].refs = <<>>
    /\ repo' = [repo EXCEPT ![Shared].keeps = ReleasePackKeeps(s, repo[Shared].keeps),
                            ![s] = EmptyRepo]
    /\ Does(s, [session[s] EXCEPT !.pc = "done", !.keeps = {}, !.attempt = AttemptAfter(session[s])])
    /\ UNCHANGED budget

-----------------------------------------------------------------------------
(* The surroundings                                                        *)

Signal(s) ==
    /\ session[s].pc \notin {"idle", "done", "killed"}
    /\ ~session[s].signal
    /\ Spend("signal")
    /\ Does(s, [session[s] EXCEPT !.signal = TRUE])
    /\ UNCHANGED repo

Kill(s) ==
    /\ session[s].pc \notin {"idle", "done", "killed"}
    /\ Spend("kill")
    /\ Does(s, [session[s] EXCEPT !.pc = "killed"])
    /\ UNCHANGED repo

\* A git fetch of the user's keeps a pack for a while.
ForeignKeep(c) ==
    /\ foreign.pack = None
    /\ Spend("fetch")
    /\ c \notin DOMAIN repo[Shared].keeps
    /\ repo' = [repo EXCEPT ![Shared] = Receive(repo[Shared], c, 0)]
    /\ foreign' = [foreign EXCEPT !.pack = c]
    /\ UNCHANGED <<github, clock, inbox, session>>

ForeignRelease ==
    /\ foreign.pack # None
    /\ repo' = [repo EXCEPT ![Shared].keeps =
                    [k \in DOMAIN repo[Shared].keeps \ {foreign.pack} |-> repo[Shared].keeps[k]]]
    /\ foreign' = [foreign EXCEPT !.pack = None]
    /\ UNCHANGED <<github, clock, inbox, session, budget>>

\* The user points a temporary ref at a commit of their own.
MoveRef(r) ==
    /\ r \in DOMAIN repo[Shared].refs
    /\ r \notin foreign.moved
    /\ Spend("move")
    /\ repo' = [repo EXCEPT ![Shared].refs[r] = 0]
    /\ foreign' = [foreign EXCEPT !.moved = foreign.moved \cup {r}]
    /\ UNCHANGED <<github, clock, inbox, session>>

-----------------------------------------------------------------------------
InboxStep ==
    \/ \E candidates \in {c \in SeqOf(Pulls, Limit) : IsInjective(c)} : Search(candidates)
    \/ CompleteSnapshot
    \/ StartRevalidation
    \/ RevalidateSnapshot
    \/ RevalidatePages
    \/ FinishInbox

LocalStep(s) ==
    \/ EnsureLocalCommit(s)
    \/ FetchProvider(s)
    \/ \E wrote \in BOOLEAN, end \in {"ok", "exited", "stopped"} : Import(s, wrote, end)
    \/ ListKeeps(s)
    \/ \E c \in session[s].listing : InspectKeep(s, c)
    \/ Registered(s)
    \/ \E made \in BOOLEAN, end \in {"ok", "exited", "stopped"} : CreateTemporaryRef(s, end, made)
    \/ Release(s)
    \/ ResolveImport(s)

EphemeralStep(s) ==
    \/ \E m1, m2 \in Commits : Compare(s, m1, m2)
    \/ PrepareAncestry(s)
    \/ \E made \in BOOLEAN, end \in {"ok", "stopped"} : MaterializeSnapshots(s, end, made)
    \/ AttachAncestry(s)
    \/ PrefetchBlobs(s)

ObservationStep(s) ==
    \/ ReadLatest(s)
    \/ ObservePullRequest(s)
    \/ ObserveCheckpoint(s)
    \/ ObserveReview(s)
    \/ ObserveRequests(s)
    \/ ObserveAgain(s)

CleanupStep(s) ==
    \/ \E ok \in BOOLEAN : InspectRef(s, ok)
    \/ \E done \in BOOLEAN, end \in {"ok", "stopped"} : DeleteRef(s, end, done)
    \/ FinishCleanup(s)

SessionStep(s) ==
    \/ ReadFirst(s)
    \/ ReadCheckpoint(s)
    \/ LocalStep(s)
    \/ EphemeralStep(s)
    \/ ObservationStep(s)
    \/ Bind(s)
    \/ OpenViewer(s)
    \/ CloseViewer(s)
    \/ Interrupted(s)
    \/ ChildFails(s)
    \/ CleanupStep(s)

GithubStep ==
    \E p \in Pulls :
        \/ \E c \in Commits : Push(p, c) \/ MoveBase(p, c)
        \/ \E state \in {"approved", "commented"}, tick \in {0, 1} : Submit(p, state, tick)
        \/ \E i \in 1..MaxReviews : Dismiss(p, i)
        \/ AskForReview(p)
        \/ WithdrawRequest(p)
        \/ Close(p)

RepositoryStep ==
    \/ \E c \in Commits : ForeignKeep(c)
    \/ ForeignRelease
    \/ \E r \in DOMAIN repo[Shared].refs : MoveRef(r)
    \/ \E s \in Sessions : Signal(s) \/ Kill(s)

StartStep(s) ==
    \/ \E p \in Pulls, mode \in {"local", "ephemeral"} : Start(s, mode, p, None)
    \/ \E k \in DOMAIN inbox.items, mode \in {"local", "ephemeral"} :
        inbox.items[k].event # None /\ Start(s, mode, inbox.items[k].pull, inbox.items[k].event)

Next ==
    \/ InboxStep
    \/ \E s \in Sessions : StartStep(s) \/ SessionStep(s)
    \/ GithubStep
    \/ RepositoryStep

Surroundings ==
    {"push", "base", "submit", "dismiss", "ask", "withdraw", "close", "fail", "signal", "kill",
     "fetch", "move"}

Reviews ==
    [id : Nat, state : {"approved", "changes_requested", "commented", "dismissed"},
     commit : Commits, at : Nat]

PullRequests ==
    [open : BOOLEAN, base : Commits, head : Commits \cup {None}, updated : Nat,
     reviews : Seq(Reviews), others : Nat, requested : BOOLEAN]

Events ==
    [base : Commits, head : Commits, review : Nat, state : {"approved", "changes_requested"},
     checkpoint : Commits, checkpointBase : Commits \cup {None}, requested : BOOLEAN,
     triggers : SUBSET {"head_changed", "base_drift", "review_re_requested"}]

\* Reviews are numbered in their order, and no review is of the future.
Numbered(pr) == \A i \in DOMAIN pr.reviews : pr.reviews[i].id = i /\ pr.reviews[i].at <= clock

\* Nobody works yet.  Processes that died may have left keep files in the
\* repository, under any pid.
Init ==
    /\ clock \in Nat
    /\ \E prs \in [Pulls -> PullRequests] : github = <<prs>> /\ \A p \in Pulls : Numbered(prs[p])
    /\ inbox = NoInbox
    /\ session = [s \in Sessions |-> NoSession]
    /\ \E objects, dead \in SUBSET Commits : \E pid \in [dead -> Nat] :
         /\ repo = [r \in Sessions \cup {Shared} |->
                       IF r = Shared
                       THEN [objects |-> objects, refs |-> <<>>,
                             keeps |-> [c \in dead |-> [pid |-> pid[c], by |-> 0]]]
                       ELSE EmptyRepo]
         /\ foreign = [pack |-> None, dead |-> dead, moved |-> {}]
    /\ budget \in [Surroundings -> Nat]

Spec == Init /\ [][Next]_vars

\* Commits and sessions are numbers other than those of the user's commit and
\* of the shared repository; None is no commit, review or event.
ASSUME ResumeAssumption ==
    /\ Commits \subseteq Nat \ {0} /\ IsFiniteSet(Commits)
    /\ Parents \in [Commits -> SUBSET Commits]
    /\ Sessions \subseteq Nat \ {0}
    /\ IsFiniteSet(Pulls) /\ Limit \in Nat /\ MaxApiCalls \in Nat
    /\ MaxReviews \in Nat /\ ReviewsPerPage \in Nat \ {0}
    /\ None \notin Commits /\ None \notin Reviews /\ None \notin Events

-----------------------------------------------------------------------------
(* Properties                                                              *)

\* What an inbox says of a pull request, said of the pull request itself.
Describes(item, pr) ==
    LET formal == {r \in ToSet(pr.reviews) : Formal(r)}
        owed == {r \in formal : \A q \in formal : q.at < r.at \/ (q.at = r.at /\ q.id <= r.id)}
    IN  /\ {item.checkpoint} \ {None} = owed
        /\ IF item.event = None THEN owed # {} => pr.head = None \/ \E r \in owed : r.commit = pr.head
                                                  \/ Len(pr.reviews) + pr.others > MaxReviews
           ELSE /\ item.event.base = pr.base /\ item.event.head = pr.head
                /\ item.event.requested = pr.requested
                /\ item.event.checkpoint # pr.head

\* Every candidate of a finished inbox, actionable or not, is described as it
\* was at one moment of the collection, although its pages were read one by
\* one while it changed (collect_inbox and candidate_observation).
InboxIsReal ==
    inbox.pc = "done" =>
        \A k \in DOMAIN inbox.items : \E j \in inbox.since..Len(github) :
            Describes(inbox.items[k], github[j][inbox.items[k].pull])

\* A value that went and came back.
CameBack(values) ==
    \E i, j, k \in DOMAIN values :
        i < j /\ j < k /\ values[i] = values[k] /\ values[i] # values[j]

\* The pull request of a session since its commits are in place.
Since(t) == [j \in t.since..Len(github) |-> github[j][t.pull]]

\* Its base and head, or its checkpoint, went and came back meanwhile.
CommitsCameBack(t) == CameBack([j \in DOMAIN Since(t) |-> <<Since(t)[j].base, Since(t)[j].head>>])
CheckpointCameBack(t) == CameBack([j \in DOMAIN Since(t) |-> Checkpoint(Since(t)[j].reviews)])

\* A viewer that an inbox event opened shows a base and a head that were true
\* together after the commits were in place, a checkpoint and a request that
\* were true then too; if the branches did not go and come back meanwhile,
\* the base and head were true together with each of them, and if the
\* checkpoint did not either, all were true at one moment (run_with_session
\* and revalidate_inbox_event).
EventWasTrue(t) ==
    LET moments == {Since(t)[j] : j \in DOMAIN Since(t)}
        placed == {pr \in moments : pr.base = t.event.base /\ pr.head = t.event.head}
        checked == {pr \in moments : Checkpoint(pr.reviews) = t.shown.checkpoint}
        asked == {pr \in moments : pr.requested = t.event.requested}
    IN  /\ t.shown.base = t.event.base /\ t.shown.head = t.event.head
        /\ t.shown.checkpoint.commit = t.event.checkpoint
        /\ placed # {} /\ checked # {} /\ asked # {}
        /\ ~CommitsCameBack(t) =>
             /\ placed \cap checked # {} /\ placed \cap asked # {}
             /\ ~CheckpointCameBack(t) => placed \cap checked \cap asked # {}

\* It compares against the only merge base of the base with the head and with
\* the checkpoint, whether GitHub named it, the session computed it or the
\* viewer does (decode_provider_merge_base, prepare_ephemeral_ancestry).
MergeBasesAreUnique(t) ==
    /\ MergeBases(t.shown.base, t.shown.head) = {t.shown.merge[1]}
    /\ MergeBases(t.shown.base, t.shown.checkpoint.commit) = {t.shown.merge[2]}

\* What an open viewer shows was real in the sense of EventWasTrue, and is
\* compared with the right commits, whatever was pushed, pushed back,
\* dismissed or withdrawn while the session ran.
ResumeIsBound ==
    \A s \in Sessions : session[s].pc = "open" =>
        /\ session[s].event # None => EventWasTrue(session[s])
        /\ MergeBasesAreUnique(session[s])

LeavesNothing(s) ==
    /\ \A r \in DOMAIN repo[Shared].refs : r[1] # s
    /\ \A c \in DOMAIN repo[Shared].keeps : repo[Shared].keeps[c].by # s

Cleaned(s) == session[s].pc = "done" /\ session[s].cleanup = "clean"

\* A session that ended and reported no cleanup failure leaves neither a ref
\* nor a keep file of its own, however it was interrupted and whichever child
\* was stopped halfway (register_fetch_pack_keeps, create_temporary_ref,
\* cleanup), unless another process removed a keep file at the wrong moment
\* or killed an update-ref that had written.
RepositoryRestored ==
    \A s \in Sessions : Cleaned(s) /\ ~session[s].missed => LeavesNothing(s)

\* Keep files of running and of dead processes and refs that the user moved
\* outlast every session (pack_keep_has_owner, the expected value of update-ref).
OthersUntouched ==
    /\ foreign.pack # None => foreign.pack \in DOMAIN repo[Shared].keeps
    /\ foreign.dead \subseteq DOMAIN repo[Shared].keeps
    /\ \A r \in foreign.moved : r \in DOMAIN repo[Shared].refs

\* Not an invariant.  README.md: Resume "cleans temporary refs plus pack keep files that remain
\* owned by its fetch process after normal exit or SIGINT/SIGTERM/SIGHUP".
KeepsAreCleaned == \A s \in Sessions : Cleaned(s) => LeavesNothing(s)

=============================================================================
