--------------------------- MODULE GovernorWorker ---------------------------
(***************************************************************************)
(* The Governor App at work: the worker processes of                       *)
(* services/governor-app/src/worker.ts over the shared store, the part of  *)
(* GitHub they talk to (github.ts), and the webhooks that arrive meanwhile.*)
(*                                                                         *)
(* A step of a worker is one store transaction, one read of the store or   *)
(* one GitHub request; what it computes in between belongs to the step     *)
(* before.  An exception ends in failOutbox, as in processOne.             *)
(*                                                                         *)
(* GitHub is external.  It keeps the pull requests, the App's command      *)
(* comments and the check runs; it reports a pull request as it was at any *)
(* earlier time (webhooks are late, reordered and lost), and stamps with a *)
(* clock of whole seconds, which the workers are assumed to share.         *)
(***************************************************************************)
EXTENDS GovernorStore, Sequences

CONSTANTS
    MaxClock,       \* bound on the clock
    Scopes,         \* names of the parts of the work that are looked at
    Events,         \* per scope: what happens to the pull requests and which
                    \* webhooks come
    Served,         \* per scope: the outbox topics that workers take up
    Budget          \* per scope: how often each kind of disturbance may happen

ASSUME WorkerAssumption ==
    /\ MaxClock \in Nat
    /\ 0 .. MaxClock \subseteq Times
    /\ \A s \in Scopes :
          /\ Events[s] \subseteq {"head", "draft", "close", "pull", "evidence",
                                  "push", "malformed", "unscoped", "deadline"}
          /\ Budget[s] \in [{"change", "webhook", "expiry", "crash", "error"} -> Nat]

VARIABLES
    worker,         \* what each worker is doing
    live,           \* GitHub: the pull requests as they are
    past,           \* GitHub: the reports it ever sent of them
    comments,       \* GitHub: the App's command comments
    runs,           \* GitHub: the check runs
    clock,
    scope,          \* the part of the work this behaviour is about; never changes
    left            \* what is left of its budget

github == <<live, past, comments, runs, clock>>
moving == <<store, worker, github, left>>
vars == <<moving, scope>>

\* Local variables of processOne and of the handler it runs.
Idle == [pc |-> "idle",     \* the next step
         item |-> None,     \* the outbox key in hand
         token |-> 0,       \* the lease's fence, or the snapshot's generation
         desired |-> None,  \* subject.desiredState, or the decision
         run |-> 0,         \* the check run to PATCH
         posted |-> 0,      \* the check run that was written
         snap |-> None,     \* the pair row that was read
         disp |-> None,     \* the dispatch row that was read
         mayPost |-> FALSE,
         comment |-> 0,     \* the command comment found or created
         pulls |-> {}]      \* the list of open pull requests

Init ==
    /\ StoreInit
    /\ worker = [w \in Workers |-> Idle]
    /\ live \in [Pulls -> PullRef]
    /\ \A n \in Pulls : live[n].pair.pull = n /\ IsOpen(live[n])
                          /\ ~live[n].draft /\ live[n].at = 0
    /\ past = {live[n] : n \in Pulls}
    /\ comments = <<>>
    /\ runs = <<>>
    /\ clock = 0
    /\ scope \in Scopes
    /\ left = Budget[scope]

-----------------------------------------------------------------------------
(* Moving a worker.                                                        *)

At(w, pc) == worker[w].pc = pc

Become(w, local) == worker' = [worker EXCEPT ![w] = local]

Goto(w, pc) == Become(w, [worker[w] EXCEPT !.pc = pc])

\* return, and throw: the locals are gone, completeOutbox or failOutbox is next.
Done(w) == [Idle EXCEPT !.pc = "complete", !.item = worker[w].item]
Failed(w) == [Idle EXCEPT !.pc = "fail", !.item = worker[w].item]

Return(w) == Become(w, Done(w))
Throw(w) == Become(w, Failed(w))

\* A condition decides between two continuations.
Branch(w, condition, yes, no) ==
    Become(w, IF condition THEN yes ELSE no)

Spend(what) == left[what] > 0 /\ left' = [left EXCEPT ![what] = @ - 1]

\* An event of GitHub's is stamped now, or a second later.
Stamp(t) == t \in {clock, clock + 1} /\ t <= MaxClock /\ clock' = t

Topic(w) == worker[w].item[1]
ItemPair(w) == worker[w].item[2]
ItemEpoch(w) == worker[w].item[3]

PairLease(w) == [pair |-> ItemPair(w), epoch |-> ItemEpoch(w),
                 fence |-> worker[w].token, worker |-> w]

GateLease(w) == [gate |-> worker[w].item[2], revision |-> worker[w].item[3],
                 fence |-> worker[w].token, worker |-> w]

\* getPullRequest: the live pull request is the pair's, open and ready.
LiveMatches(p) ==
    /\ live[p.pull].pair = p
    /\ IsOpen(live[p.pull]) /\ ~live[p.pull].draft

-----------------------------------------------------------------------------
(* processOne: claim, run the handler, complete or fail.                   *)

FirstStep == [publish   |-> "pub_acquire",  evaluate  |-> "eval_acquire",
              timeout   |-> "eval_acquire", dispatch  |-> "disp_load",
              reconcile |-> "rec_begin"]

Claim(w) ==
    /\ At(w, "idle")
    /\ \E i \in outbox :
          /\ i.key[1] \in Served[scope]
          /\ ClaimOutbox(i, w)
          /\ Become(w, [Idle EXCEPT !.pc = FirstStep[i.key[1]], !.item = i.key])
    /\ UNCHANGED <<github, left>>

Complete(w) ==
    /\ At(w, "complete")
    /\ CompleteOutbox(worker[w].item, w)
    /\ Become(w, Idle)
    /\ UNCHANGED <<github, left>>

Fail(w) ==
    /\ At(w, "fail")
    /\ FailOutbox(worker[w].item, w)
    /\ Become(w, Idle)
    /\ UNCHANGED <<github, left>>

-----------------------------------------------------------------------------
(* publishGate                                                             *)

ItemGate(w) == worker[w].item[2]
ItemRevision(w) == worker[w].item[3]

PublishesSuccess(w) ==
    worker[w].desired = "success" /\ ItemGate(w).key \in Pulls

\* The check run to write is known, or is looked for by its external id.
WriteStep(run) == IF run # 0 THEN "pub_write" ELSE "pub_find"

PublishAcquire(w) ==
    /\ At(w, "pub_acquire")
    /\ \/ /\ AcquireGateLease(ItemGate(w), ItemRevision(w), w)
          /\ Become(w, [worker[w] EXCEPT !.pc = "pub_read",
                                         !.token = gate[ItemGate(w)].fence + 1])
       \/ /\ ~GateLeasable(ItemGate(w), ItemRevision(w), w)
          /\ Goto(w, "pub_held")
          /\ UNCHANGED store
    /\ UNCHANGED <<github, left>>

\* Another worker holds the gate (retry), or the revision is history.
PublishHeld(w) ==
    /\ At(w, "pub_held")
    /\ Branch(w, gate[ItemGate(w)].revision = ItemRevision(w), Failed(w), Done(w))
    /\ UNCHANGED <<store, github, left>>

PublishRead(w) ==
    LET row  == gate[ItemGate(w)]
        read == [worker[w] EXCEPT !.desired = row.desired, !.run = row.checkRun]
    IN  /\ At(w, "pub_read")
        /\ Become(w, IF row.revision # ItemRevision(w) THEN Done(w)
                     ELSE IF row.desired = "success" /\ ItemGate(w).key \in Pulls
                     THEN [read EXCEPT !.pc = "pub_pair"]
                     ELSE [read EXCEPT !.pc = WriteStep(row.checkRun)])
        /\ UNCHANGED <<store, github, left>>

\* loadPairSnapshot, before the success is written and again afterwards.
PublishLoadPair(w) ==
    LET row == pair[gate[ItemGate(w)].pair]
    IN  /\ At(w, "pub_pair")
        /\ Branch(w, row.epoch = ItemGate(w).epoch,
                  [worker[w] EXCEPT !.pc = "pub_live", !.snap = row],
                  [worker[w] EXCEPT !.pc = "pub_reject"])
        /\ UNCHANGED <<store, github, left>>

StillLive(w) == worker[w].snap.active /\ LiveMatches(gate[ItemGate(w)].pair)

PublishCheckLive(w) ==
    /\ At(w, "pub_live")
    /\ Become(w, [worker[w] EXCEPT !.snap = None,
                    !.pc = IF ~StillLive(w) THEN "pub_reject"
                           ELSE IF worker[w].posted = 0 THEN "pub_authorize"
                           ELSE "pub_commit"])
    /\ UNCHANGED <<store, github, left>>

PublishAuthorize(w) ==
    LET answer == Authorization(GateLease(w))
        before == worker[w].posted = 0
    IN  /\ At(w, "pub_authorize")
        /\ \/ /\ answer = "authorized"
              /\ Branch(w, before,
                        [worker[w] EXCEPT !.pc = WriteStep(worker[w].run)],
                        [worker[w] EXCEPT !.pc = "pub_pair"])
              /\ UNCHANGED store
           \/ /\ answer = "stale"
              /\ Branch(w, before, Done(w),
                        [worker[w] EXCEPT !.pc = "pub_supersede"])
              /\ UNCHANGED store
           \/ /\ ExpireSuccess(GateLease(w), worker[w].posted)
              /\ Return(w)
        /\ UNCHANGED <<github, left>>

\* findCheckRun: the newest run with this gate's and revision's external id.
External(w) == <<ItemGate(w), ItemRevision(w)>>

PublishFind(w) ==
    LET found == {id \in 1 .. Len(runs) :
                    /\ runs[id].head = gate[ItemGate(w)].head
                    /\ runs[id].ext = External(w)}
    IN  /\ At(w, "pub_find")
        /\ \E id \in found \cup {0} :
              /\ \A other \in found : other <= id
              /\ Become(w, [worker[w] EXCEPT !.pc = "pub_write", !.run = id])
        /\ UNCHANGED <<store, github, left>>

\* POST a check run, or PATCH the one that is known.
WriteRun(w) ==
    IF worker[w].run = 0
    THEN runs' = Append(runs, [head |-> gate[ItemGate(w)].head, ext |-> External(w),
                               state |-> worker[w].desired])
    ELSE runs' = [runs EXCEPT ![worker[w].run].ext = External(w),
                              ![worker[w].run].state = worker[w].desired]

PublishWrite(w) ==
    /\ At(w, "pub_write")
    /\ WriteRun(w)
    /\ Become(w, [worker[w] EXCEPT
                    !.posted = IF worker[w].run = 0 THEN Len(runs) + 1
                               ELSE worker[w].run,
                    !.pc = IF PublishesSuccess(w) THEN "pub_authorize"
                           ELSE "pub_commit"])
    /\ UNCHANGED <<store, live, past, comments, clock, left>>

\* Mutant: a publisher that lost its lease rejects all the same.
PublishRejectUnfenced(w) ==
    /\ At(w, "pub_reject")
    /\ FailPublication(GateLease(w), worker[w].posted)
    /\ Return(w)
    /\ UNCHANGED <<github, left>>

PublishReject(w) ==
    /\ At(w, "pub_reject")
    /\ \/ RejectGatePublication(GateLease(w), worker[w].posted)
       \/ ~HoldsGate(GateLease(w)) /\ UNCHANGED store
    /\ Return(w)
    /\ UNCHANGED <<github, left>>

PublishCommit(w) ==
    /\ At(w, "pub_commit")
    /\ \/ /\ CommitGatePublication(GateLease(w), worker[w].posted, worker[w].desired)
          /\ Return(w)
       \/ /\ ~HoldsGate(GateLease(w))
          /\ Goto(w, "pub_supersede")
          /\ UNCHANGED store
    /\ UNCHANGED <<github, left>>

PublishSupersede(w) ==
    /\ At(w, "pub_supersede")
    /\ SupersedeStaleGatePublication(GateLease(w), worker[w].posted)
    /\ Return(w)
    /\ UNCHANGED <<github, left>>

-----------------------------------------------------------------------------
(* evaluatePair (topics evaluate and timeout)                              *)

\* acquirePairLease; the two handlers go on differently.
AcquireOr(w, next, held) ==
    \/ /\ AcquirePairLease(ItemPair(w), ItemEpoch(w), w)
       /\ Become(w, [worker[w] EXCEPT !.pc = next,
                                      !.token = pair[ItemPair(w)].fence + 1])
    \/ /\ ~PairLeasable(ItemPair(w), ItemEpoch(w), w)
       /\ Goto(w, held)
       /\ UNCHANGED store

\* The epoch is still the pair's and can still be worked on.
Workable(w) ==
    LET row == pair[ItemPair(w)]
    IN  row.epoch = ItemEpoch(w) /\ row.active /\ ~row.quarantined

EvaluateAcquire(w) ==
    /\ At(w, "eval_acquire")
    /\ AcquireOr(w, "eval_pair", "eval_held")
    /\ UNCHANGED <<github, left>>

EvaluateHeld(w) ==
    /\ At(w, "eval_held")
    /\ Branch(w, Workable(w), Failed(w), Done(w))
    /\ UNCHANGED <<store, github, left>>

\* loadPairSnapshot reads three tables outside of a transaction.
EvaluateLoadPair(w) ==
    LET row == pair[ItemPair(w)]
    IN  /\ At(w, "eval_pair")
        /\ Branch(w, row.epoch = ItemEpoch(w),
                  [worker[w] EXCEPT !.pc = "eval_dispatch", !.snap = row], Done(w))
        /\ UNCHANGED <<store, github, left>>

EvaluateLoadDispatch(w) ==
    /\ At(w, "eval_dispatch")
    /\ Become(w, [worker[w] EXCEPT !.pc = "eval_evidence",
                      !.disp = dispatch[<<ItemPair(w), ItemEpoch(w)>>]])
    /\ UNCHANGED <<store, github, left>>

\* The evidence is read and the decision taken; the deadline is compared with
\* the time of the decision.
Decide(w) ==
    LET d == <<ItemPair(w), ItemEpoch(w)>>
    IN  EvaluatePair(worker[w].snap,
                     [worker[w].disp EXCEPT !.late = dispatch[d].late],
                     evidence[d])

EvaluateLoadEvidence(w) ==
    /\ At(w, "eval_evidence")
    /\ Become(w, [worker[w] EXCEPT !.desired = Decide(w), !.snap = None, !.disp = None,
                    !.pc = IF Decide(w) = "success" THEN "eval_live"
                           ELSE "eval_commit"])
    /\ UNCHANGED <<store, github, left>>

EvaluateCheckLive(w) ==
    /\ At(w, "eval_live")
    /\ Become(w, [worker[w] EXCEPT !.pc = "eval_commit",
                    !.desired = IF LiveMatches(ItemPair(w)) THEN @ ELSE "failure"])
    /\ UNCHANGED <<store, github, left>>

\* commitPairGate with the worker's decision; a lost lease is an exception.
CommitOrThrow(w) ==
    \/ CommitPairGate(PairLease(w), worker[w].desired) /\ Return(w)
    \/ ~HoldsPair(PairLease(w)) /\ Throw(w) /\ UNCHANGED store

EvaluateCommit(w) ==
    /\ At(w, "eval_commit")
    /\ CommitOrThrow(w)
    /\ UNCHANGED <<github, left>>

-----------------------------------------------------------------------------
(* dispatchReview                                                          *)

ItemDispatch(w) == dispatch[<<ItemPair(w), ItemEpoch(w)>>]

DispatchLoad(w) ==
    /\ At(w, "disp_load")
    /\ Branch(w, \/ pair[ItemPair(w)].epoch # ItemEpoch(w)
                 \/ pair[ItemPair(w)].quarantined
                 \/ ItemDispatch(w).state = "sent",
              Done(w), [worker[w] EXCEPT !.pc = "disp_acquire"])
    /\ UNCHANGED <<store, github, left>>

DispatchAcquire(w) ==
    /\ At(w, "disp_acquire")
    /\ AcquireOr(w, "disp_reload", "disp_held")
    /\ UNCHANGED <<github, left>>

DispatchHeld(w) ==
    /\ At(w, "disp_held")
    /\ Branch(w, Workable(w) /\ ItemDispatch(w).state # "sent", Failed(w), Done(w))
    /\ UNCHANGED <<store, github, left>>

DispatchReload(w) ==
    LET row == pair[ItemPair(w)]
    IN  /\ At(w, "disp_reload")
        /\ Branch(w, Workable(w) /\ ~row.draft /\ row.state = "open",
                  [worker[w] EXCEPT !.pc = "disp_live", !.disp = ItemDispatch(w)],
                  Done(w))
        /\ UNCHANGED <<store, github, left>>

\* The live pull request moved: the gate fails.
Reject(w) == [worker[w] EXCEPT !.pc = "disp_reject", !.desired = "failure",
                               !.disp = None, !.comment = 0]

DispatchStep == [none |-> "disp_plan", planned |-> "disp_renew",
                 attempting |-> "disp_find", sent |-> "complete",
                 abandoned |-> "complete"]

DispatchCheckLive(w) ==
    LET next == DispatchStep[worker[w].disp.state]
    IN  /\ At(w, "disp_live")
        /\ Become(w, IF ~LiveMatches(ItemPair(w)) THEN Reject(w)
                     ELSE IF next = "complete" THEN Done(w)
                     ELSE [worker[w] EXCEPT !.pc = next])
        /\ UNCHANGED <<store, github, left>>

DispatchReject(w) ==
    /\ At(w, "disp_reject")
    /\ CommitOrThrow(w)
    /\ UNCHANGED <<github, left>>

\* if (!planned) return: a lost lease ends the handler without an exception.
DispatchPlan(w) ==
    /\ At(w, "disp_plan")
    /\ \/ \E now \in Times : /\ Stamp(now)
                             /\ PlanDispatch(PairLease(w), now)
                             /\ Goto(w, "disp_replan")
       \/ ~HoldsPair(PairLease(w)) /\ Return(w) /\ UNCHANGED <<store, clock>>
    /\ UNCHANGED <<live, past, comments, runs, left>>

DispatchReplan(w) ==
    /\ At(w, "disp_replan")
    /\ Branch(w, /\ pair[ItemPair(w)].epoch = ItemEpoch(w)
                 /\ ItemDispatch(w).state = "planned",
              [worker[w] EXCEPT !.pc = "disp_renew", !.disp = ItemDispatch(w)],
              Failed(w))
    /\ UNCHANGED <<store, github, left>>

\* renewPairLease: a lease that is not live cannot be renewed.
DispatchRenew(w) ==
    /\ At(w, "disp_renew")
    /\ Branch(w, HoldsPair(PairLease(w)),
              [worker[w] EXCEPT !.pc = "disp_begin"], Failed(w))
    /\ UNCHANGED <<store, github, left>>

DispatchBegin(w) ==
    /\ At(w, "disp_begin")
    /\ \/ /\ BeginDispatchAttempt(PairLease(w))
          /\ Become(w, [worker[w] EXCEPT !.pc = "disp_find", !.mayPost = TRUE])
       \/ ~MayBegin(PairLease(w)) /\ Throw(w) /\ UNCHANGED store
    /\ UNCHANGED <<github, left>>

\* findIssueComment: the newest command comment since the dispatch was planned.
Recoverable(w) ==
    {id \in 1 .. Len(comments) : /\ comments[id].pull = ItemPair(w).pull
                                 /\ comments[id].at >= worker[w].disp.plannedAt}

Recovered(w) ==
    {id \in Recoverable(w) : \A other \in Recoverable(w) :
        \/ comments[id].at > comments[other].at
        \/ comments[id].at = comments[other].at /\ id >= other}

\* Mutant: a retry that finds no comment posts again.
MayPostAlways(w) == TRUE

MayPost(w) == worker[w].mayPost

DispatchFind(w) ==
    /\ At(w, "disp_find")
    /\ \/ \E id \in Recovered(w) :
             Become(w, [worker[w] EXCEPT !.pc = "disp_live2", !.comment = id,
                                         !.disp = None])
       \/ /\ Recovered(w) = {}
          /\ Branch(w, MayPost(w), [worker[w] EXCEPT !.pc = "disp_post"], Failed(w))
    /\ UNCHANGED <<store, github, left>>

\* createIssueComment.  `by' only records on whose behalf it was posted.
PostComment(w) ==
    \E t \in Times :
        /\ Stamp(t)
        /\ comments' = Append(comments, [pull |-> ItemPair(w).pull, at |-> t,
                                         by |-> <<ItemPair(w), ItemEpoch(w)>>])

DispatchPost(w) ==
    /\ At(w, "disp_post")
    /\ PostComment(w)
    /\ Become(w, [worker[w] EXCEPT !.pc = "disp_live2", !.comment = Len(comments) + 1,
                                   !.disp = None])
    /\ UNCHANGED <<store, live, past, runs, left>>

DispatchRecheckLive(w) ==
    /\ At(w, "disp_live2")
    /\ Branch(w, LiveMatches(ItemPair(w)),
              [worker[w] EXCEPT !.pc = "disp_adopt"], Reject(w))
    /\ UNCHANGED <<store, github, left>>

DispatchAdopt(w) ==
    /\ At(w, "disp_adopt")
    /\ \/ /\ AdoptDispatch(PairLease(w), worker[w].comment,
                           comments[worker[w].comment].at)
          /\ Return(w)
       \/ ~Adoptable(PairLease(w)) /\ Throw(w) /\ UNCHANGED store
    /\ UNCHANGED <<github, left>>

-----------------------------------------------------------------------------
(* reconcileRepository                                                     *)

ReconcileBegin(w) ==
    /\ At(w, "rec_begin")
    /\ BeginRepositorySnapshot
    /\ Become(w, [worker[w] EXCEPT !.pc = "rec_list", !.token = generation + 1])
    /\ UNCHANGED <<github, left>>

ReconcileList(w) ==
    /\ At(w, "rec_list")
    /\ Become(w, [worker[w] EXCEPT !.pc = "rec_apply",
                    !.pulls = {live[n] : n \in {m \in Pulls : IsOpen(live[m])}}])
    /\ UNCHANGED <<store, github, left>>

ReconcileApply(w) ==
    /\ At(w, "rec_apply")
    /\ \/ ReconcileOpenPullRequests(worker[w].token, worker[w].pulls) /\ Return(w)
       \/ ~TokenCurrent(worker[w].token) /\ Throw(w) /\ UNCHANGED store
    /\ UNCHANGED <<github, left>>

-----------------------------------------------------------------------------
(* What goes wrong: failing requests, crashes, expiring leases.            *)

Requests == {"pub_live", "pub_find", "pub_write", "eval_live", "disp_live",
             "disp_find", "disp_post", "disp_live2", "rec_list"}

\* A request to GitHub fails without effect.
GithubError(w) ==
    /\ worker[w].pc \in Requests
    /\ Spend("error")
    /\ Throw(w)
    /\ UNCHANGED <<store, github>>

\* A write takes effect and its response is lost.
LostResponse(w) ==
    /\ \/ At(w, "pub_write") /\ WriteRun(w) /\ UNCHANGED <<comments, clock>>
       \/ At(w, "disp_post") /\ PostComment(w) /\ UNCHANGED runs
    /\ Spend("error")
    /\ Throw(w)
    /\ UNCHANGED <<store, live, past>>

\* The process dies and restarts under the same WORKER_ID.
Crash(w) ==
    /\ ~At(w, "idle")
    /\ Spend("crash")
    /\ Become(w, Idle)
    /\ UNCHANGED <<store, github>>

WorksOn(w, topics, subject) ==
    ~At(w, "idle") /\ Topic(w) \in topics /\ worker[w].item[2] = subject

\* A claim runs out when its worker is gone, and within the budget while the
\* worker is slow.  A pair or gate lease is taken after the claim and for as
\* long, so that it never runs out on its holder before the claim does.
Outlived(w, topics, subject) ==
    WorksOn(w, topics, subject) => Claims(worker[w].item, w) = {}

LeaseRunsOut ==
    /\ \/ \E i \in outbox :
             /\ ExpireClaim(i)
             /\ IF worker[i.owner].item = i.key THEN Spend("expiry")
                ELSE UNCHANGED left
       \/ \E p \in PairId :
             /\ ExpirePairLease(p)
             /\ Outlived(pair[p].owner, {"evaluate", "timeout", "dispatch"}, p)
             /\ UNCHANGED left
       \/ \E g \in GateId :
             /\ ExpireGateLease(g)
             /\ Outlived(gate[g].owner, {"publish"}, g)
             /\ UNCHANGED left
    /\ UNCHANGED <<worker, github>>

DeadlinePasses ==
    /\ "deadline" \in Events[scope]
    /\ \E d \in EpochId : PassDeadline(d)
    /\ UNCHANGED <<worker, github, left>>

-----------------------------------------------------------------------------
(* GitHub and its webhooks.                                                *)

\* A pull request gets new commits, changes its draft state, is closed or
\* reopened; GitHub sends a report of it.
ChangePull(n) ==
    \E r \in PullRef :
        /\ Spend("change")
        /\ \/ /\ "head" \in Events[scope] /\ IsOpen(live[n])
              /\ r.pair # live[n].pair
              /\ r = [live[n] EXCEPT !.pair = r.pair, !.at = r.at]
           \/ /\ "draft" \in Events[scope]
              /\ r = [live[n] EXCEPT !.draft = ~@, !.at = r.at]
           \/ /\ "close" \in Events[scope] /\ r.state # live[n].state
              /\ r = [live[n] EXCEPT !.state = r.state, !.at = r.at]
        /\ r.pair.pull = n
        /\ Stamp(r.at)
        /\ live' = [live EXCEPT ![n] = r]
        /\ past' = past \cup {r}
        /\ UNCHANGED <<store, worker, comments, runs>>

\* Any report that GitHub ever sent may arrive now.
DeliverPull ==
    /\ "pull" \in Events[scope] /\ Spend("webhook")
    /\ \E r \in past : ApplyPullRequest(r)
    /\ UNCHANGED <<worker, github>>

\* A comment, a review of the pull request's present head, or a status.  Its
\* source time is not in the future.
DeliverEvidence ==
    /\ "evidence" \in Events[scope] /\ Spend("webhook")
    /\ \E i \in Inputs :
          /\ i.at <= MaxClock
          /\ clock' = IF i.at > clock THEN i.at ELSE clock
          /\ \/ \E n \in Pulls : \/ ApplyPullEvidence(n, None, i)
                                 \/ ApplyPullEvidence(n, live[n].pair.head, i)
             \/ \E h \in Heads : ApplyShaEvidence(h, i)
    /\ UNCHANGED <<worker, live, past, comments, runs>>

DeliverOther ==
    /\ Spend("webhook")
    /\ \/ "push" \in Events[scope] /\ ApplyPush
       \/ "malformed" \in Events[scope] /\ ApplyMalformed
       \/ "unscoped" \in Events[scope] /\ QuarantineAll
    /\ UNCHANGED <<worker, github>>

-----------------------------------------------------------------------------
PublishStep(w) ==
    \/ PublishAcquire(w) \/ PublishHeld(w) \/ PublishRead(w)
    \/ PublishLoadPair(w) \/ PublishCheckLive(w) \/ PublishAuthorize(w)
    \/ PublishFind(w) \/ PublishWrite(w) \/ PublishReject(w)
    \/ PublishCommit(w) \/ PublishSupersede(w)

EvaluateStep(w) ==
    \/ EvaluateAcquire(w) \/ EvaluateHeld(w) \/ EvaluateLoadPair(w)
    \/ EvaluateLoadDispatch(w) \/ EvaluateLoadEvidence(w)
    \/ EvaluateCheckLive(w) \/ EvaluateCommit(w)

DispatchStepOf(w) ==
    \/ DispatchLoad(w) \/ DispatchAcquire(w) \/ DispatchHeld(w)
    \/ DispatchReload(w) \/ DispatchCheckLive(w) \/ DispatchReject(w)
    \/ DispatchPlan(w) \/ DispatchReplan(w) \/ DispatchRenew(w)
    \/ DispatchBegin(w) \/ DispatchFind(w) \/ DispatchPost(w)
    \/ DispatchRecheckLive(w) \/ DispatchAdopt(w)

ReconcileStep(w) == ReconcileBegin(w) \/ ReconcileList(w) \/ ReconcileApply(w)

\* What a running worker does next by itself.
Step(w) == PublishStep(w) \/ EvaluateStep(w) \/ DispatchStepOf(w)
             \/ ReconcileStep(w) \/ Complete(w) \/ Fail(w)

Environment ==
    \/ \E n \in Pulls : ChangePull(n)
    \/ DeliverPull \/ DeliverEvidence \/ DeliverOther
    \/ LeaseRunsOut \/ DeadlinePasses

Next ==
    /\ \/ \E w \in Workers : Claim(w) \/ Step(w) \/ GithubError(w)
                               \/ LostResponse(w) \/ Crash(w)
       \/ Environment
    /\ UNCHANGED scope

Spec == Init /\ [][Next]_vars

\* Workers poll and never stop in the middle of a handler; time passes, so that
\* the leases of a dead worker run out.  claimOutbox takes the item that is due
\* longest, and one that fails goes to the back.
Fairness ==
    /\ \A w \in Workers : WF_moving(Claim(w)) /\ WF_moving(Step(w))
    /\ WF_moving(LeaseRunsOut)

FairSpec == Spec /\ Fairness

-----------------------------------------------------------------------------
(* Properties.                                                             *)

\* The workers implement the store's specification (their Init contains
\* StoreInit): whatever they, the webhooks and the passing of time do to the
\* tables is one transaction of the store, under a lease that was granted and
\* with arguments the store expects.  What is proved of StoreSpec for any
\* callers therefore holds of the workers.
ConformsToStore == [][StoreNext]_store

\* "they never issue another paid command": over crashes, lost responses and
\* leases that expire while the worker is at it, one epoch posts the command
\* at most once.
AtMostOnePost ==
    \A i, j \in 1 .. Len(comments) : comments[i].by = comments[j].by => i = j

\* The gate wants success only while the rows in the store still say so: no
\* evidence, no draft change and no new head slips in between the reads of an
\* evaluation and its commit, or after it, without revoking the gate.  (Only
\* the deadline may have passed since; its own item takes care of that.)
SuccessIsBacked ==
    \A g \in GateId : gate[g].desired = "success" =>
        LET p == gate[g].pair
        IN  EvaluatePair(pair[p], [dispatch[EpochOf(p)] EXCEPT !.late = FALSE],
                         evidence[EpochOf(p)]) = "success"

Unfinished(topic) == {i \in outbox : i.key[1] = topic /\ ~i.done}

Publishing(g) ==
    \/ \E i \in Unfinished("publish") : i.key[2] = g
    \/ \E w \in Workers : WorksOn(w, {"publish"}, g)

\* Once nothing is left to publish for a gate, the check run that the store
\* knows for it says on GitHub what the gate wants, as long as no publisher
\* dies and no request fails: one that dies after its write to GitHub and
\* before the compensation may leave the run wrong.
CanonicalRunSettles ==
    \A g \in GateId : (gate[g].revision > 0 /\ ~Publishing(g)) =>
        /\ gate[g].checkRun # 0
        /\ runs[gate[g].checkRun].state = gate[g].desired

\* GitHub judges a commit by its newest check run of the name.
Visible(head) ==
    {id \in 1 .. Len(runs) : /\ runs[id].head = head
                             /\ \A k \in id + 1 .. Len(runs) : runs[k].head # head}

\* ... and so does the check that GitHub shows on the commit: there is no green
\* check when no gate of the commit wants success.
NoGreenLeftBehind ==
    \A h \in Heads : (\A g \in GateId : gate[g].head = h => ~Publishing(g)) =>
        \A id \in Visible(h) : runs[id].state = "success" =>
            \E g \in GateId : gate[g].head = h /\ gate[g].desired = "success"

\* Not an invariant.  A dispatch item that is done has done its work: the command of a ready
\* epoch was at least attempted.
DispatchedWhenDone ==
    \A p \in PairId :
        (/\ pair[p].active /\ ~pair[p].quarantined /\ ~pair[p].draft
         /\ \E i \in outbox : i.key = <<"dispatch", p, pair[p].epoch>> /\ i.done)
        => dispatch[EpochOf(p)].state \in {"attempting", "sent"}

\* The store has the last report of the pull request, and GitHub, whose clock
\* has whole seconds, made no other in the same second.
Informed(p) ==
    LET now == live[p.pull]
    IN  /\ pair[p].active /\ pair[p].srcAt = now.at
        /\ LiveMatches(p)
        /\ \A r \in past : r.pair.pull = p.pull /\ r.at = now.at => r = now

\* When every evaluation and reconciliation is done and the store knows the
\* pull request as it is, the gate says what the evidence says: no interleaving
\* of webhooks and workers decides from an outdated read.  One decision may be
\* left behind, and it is the cautious one: adoptDispatch asks for no
\* evaluation, so a gate that was found to wait for the command goes on waiting
\* when the evidence came before the command was adopted.
DecisionIsUpToDate ==
    (\A topic \in {"evaluate", "reconcile"} : Unfinished(topic) = {}) =>
        \A p \in PairId :
            (Informed(p) /\ ~dispatch[EpochOf(p)].late) =>
            \/ gate[GateOf(p)].desired =
                  EvaluatePair(pair[p], dispatch[EpochOf(p)], evidence[EpochOf(p)])
            \/ gate[GateOf(p)].desired = "pending" /\ dispatch[EpochOf(p)].state = "sent"

\* Not a property of the code.  "Deadline for complete post-dispatch provider evidence": evidence that was
\* complete before the deadline is not held against the gate afterwards.  A
\* success is withdrawn only for a reason: new evidence, or a pull request
\* that is no longer what was reviewed.
WithdrawnForAReason ==
    [][\A g \in GateId :
          (gate[g].desired = "success" /\ gate'[g].desired = "failure") =>
          LET p == gate[g].pair
          IN  \/ evidence'[EpochOf(p)] # evidence[EpochOf(p)]
              \/ pair'[p].active # pair[p].active
              \/ pair'[p].quarantined
              \/ ~LiveMatches(p)]_vars

\* When webhooks and failures cease, every gate is published as it should be.
GatesSettle ==
    <>[](\A g \in GateId : gate[g].revision > 0 =>
            gate[g].pubRev = gate[g].revision /\ gate[g].pubState = gate[g].desired)

\* Once the evidence deadline has passed, the epoch's gate is withdrawn for
\* good, whatever was queued or in flight: no late success is published.
DeadlineIsEnforced ==
    \A g \in GateId :
        (gate[g].pair \in PairId /\ dispatch[<<gate[g].pair, g.epoch>>].late)
            ~> [](gate[g].desired # "success" /\ gate[g].pubState # "success")
=============================================================================
