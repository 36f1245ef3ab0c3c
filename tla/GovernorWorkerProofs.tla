------------------------ MODULE GovernorWorkerProofs ------------------------
(***************************************************************************)
(* Proofs about GovernorWorker: the workers call the store as it expects,  *)
(* post the command of an epoch at most once, never leave a gate at        *)
(* success that the rows do not back, and never forget to decide again.    *)
(* The first invariant says, for each step that a handler can be at, what  *)
(* its local variables still mean; the second, at the end of the module,   *)
(* why the state of each active gate may be trusted.                       *)
(***************************************************************************)
EXTENDS GovernorWorker, GovernorStoreProofs, SequenceTheorems

-----------------------------------------------------------------------------
(* The steps of the handlers.                                              *)

\* publishGate under its lease, and once it read the gate.
AfterGate == {"pub_read", "pub_pair", "pub_live", "pub_authorize", "pub_find",
              "pub_write", "pub_reject", "pub_commit", "pub_supersede"}
AfterRead == AfterGate \ {"pub_read"}
GateSteps == AfterGate \cup {"pub_acquire", "pub_held"}

\* evaluatePair and dispatchReview under their lease.
Decided == {"eval_live", "eval_commit", "disp_reject"}
AfterPair == Decided \cup
             {"eval_pair", "eval_dispatch", "eval_evidence", "disp_reload", "disp_live",
              "disp_plan", "disp_replan", "disp_renew", "disp_begin", "disp_find",
              "disp_post", "disp_live2", "disp_adopt"}
PairSteps == AfterPair \cup {"eval_acquire", "eval_held", "disp_load", "disp_acquire",
                             "disp_held"}

Resting == {"idle", "complete", "fail"}

Steps == GateSteps \cup PairSteps \cup Resting \cup {"rec_begin", "rec_list", "rec_apply"}

Local == [pc : Steps, item : OutboxKey \cup {None}, token : Nat,
          desired : GateStates \cup {None}, run : Nat, posted : Nat,
          snap : PairRow \cup {None}, disp : DispatchRow \cup {None},
          mayPost : BOOLEAN, comment : Nat, pulls : SUBSET PullRef]

Comment == [pull : Pulls, at : Times, by : EpochId]
Run == [head : Heads \cup {None}, ext : GateId \X Nat, state : GateStates]

GithubType ==
    /\ live \in [Pulls -> PullRef] /\ \A n \in Pulls : live[n].pair.pull = n
    /\ past \subseteq PullRef
    /\ comments \in Seq(Comment)
    /\ runs \in Seq(Run)
    /\ clock \in 0 .. MaxClock

-----------------------------------------------------------------------------
(* What a worker knows.                                                    *)

\* publishGate: its lease was granted, and what it read holds for as long as
\* the revision does; only a publication of success is checked and rejected,
\* and only a check run that was written is committed.
GatePart(w) ==
    /\ worker[w].pc \in GateSteps => ItemGate(w) \in GateId /\ ItemRevision(w) \in Nat
    /\ worker[w].pc \in AfterGate =>
          /\ ItemRevision(w) > 0
          /\ ItemRevision(w) <= gate[ItemGate(w)].revision
          /\ worker[w].token <= gate[ItemGate(w)].fence
    /\ worker[w].pc \in AfterRead =>
          /\ worker[w].desired \in GateStates
          /\ gate[ItemGate(w)].revision = ItemRevision(w) =>
                gate[ItemGate(w)].desired = worker[w].desired
          /\ worker[w].desired = "success" => gate[ItemGate(w)].pair \in PairId
    /\ worker[w].pc \in {"pub_pair", "pub_live", "pub_authorize", "pub_reject"} =>
          worker[w].desired = "success"
    /\ worker[w].pc \in {"pub_commit", "pub_supersede"} => worker[w].posted # 0

ItemId(w) == <<ItemPair(w), ItemEpoch(w)>>

\* evaluatePair and dispatchReview: their lease was granted.
PairPart(w) ==
    /\ worker[w].pc \in PairSteps => ItemPair(w) \in PairId /\ ItemEpoch(w) \in Epochs
    /\ worker[w].pc \in AfterPair =>
          /\ pair[ItemPair(w)].epoch > 0
          /\ worker[w].token <= pair[ItemPair(w)].fence
    /\ worker[w].pc \in Decided => worker[w].desired \in {"pending", "success", "failure"}
    /\ worker[w].pc = "disp_reject" => worker[w].desired = "failure"
    /\ worker[w].pc \in {"disp_live", "eval_evidence"} => worker[w].disp \in DispatchRow
    /\ worker[w].pc \in {"disp_live2", "disp_adopt"} =>
          worker[w].comment \in 1 .. Len(comments)

\* reconcileRepository: its snapshot was begun, and its list has one open pull
\* request per number.
ReconcilePart(w) ==
    /\ worker[w].pc \in {"rec_list", "rec_apply"} => worker[w].token > 0
    /\ worker[w].pc = "rec_apply" => worker[w].pulls \in Lists

\* The pair was not fenced since the lease was taken.
Unfenced(w) == pair[ItemPair(w)].fence = worker[w].token

\* The rows say success, the deadline aside.
Reviewed(p) ==
    EvaluatePair(pair[p], [dispatch[EpochOf(p)] EXCEPT !.late = FALSE],
                 evidence[EpochOf(p)]) = "success"

\* evaluatePair: what was read, and what was decided from it, holds for as
\* long as the pair is not fenced.
ReviewPart(w) ==
    /\ (worker[w].pc \in {"eval_dispatch", "eval_evidence", "eval_live", "eval_commit"}
           /\ Unfenced(w)) => pair[ItemPair(w)].epoch = ItemEpoch(w)
    /\ worker[w].pc \in {"eval_dispatch", "eval_evidence"} =>
          /\ worker[w].snap \in PairRow
          /\ Unfenced(w) => SameInput(worker[w].snap, pair[ItemPair(w)])
    /\ (worker[w].pc = "eval_evidence" /\ Unfenced(w) /\ worker[w].disp.state = "sent") =>
          /\ dispatch[ItemId(w)].state = "sent"
          /\ dispatch[ItemId(w)].dispatchedAt = worker[w].disp.dispatchedAt
    /\ (worker[w].pc \in {"eval_live", "eval_commit"} /\ Unfenced(w)
          /\ worker[w].desired = "success") => Reviewed(ItemPair(w))

\* dispatchReview: only the attempt that this worker began may be posted.
PostPart(w) ==
    /\ worker[w].pc = "disp_post" => worker[w].mayPost
    /\ worker[w].mayPost => worker[w].pc \in {"disp_find", "disp_post", "disp_live2",
                                              "disp_adopt", "disp_reject"}

WorkerPart(w) ==
    GatePart(w) /\ PairPart(w) /\ ReconcilePart(w) /\ ReviewPart(w) /\ PostPart(w)

\* The worker is about to post the command of its epoch.
Posting(w) == worker[w].mayPost /\ worker[w].pc \in {"disp_find", "disp_post"}

\* A command was posted for attempted epochs only; an epoch has at most one
\* worker about to post, and only before its command is there.
PostInv ==
    /\ \A i \in 1 .. Len(comments) : Attempted(comments[i].by)
    /\ \A w \in Workers : Posting(w) =>
          /\ Attempted(ItemId(w))
          /\ \A i \in 1 .. Len(comments) : comments[i].by # ItemId(w)
    /\ \A v, w \in Workers : (Posting(v) /\ Posting(w) /\ ItemId(v) = ItemId(w)) => v = w
    /\ AtMostOnePost

\* The inductive invariant.
WorkerInv ==
    /\ HistoryInv
    /\ worker \in [Workers -> Local]
    /\ GithubType
    /\ \A w \in Workers : WorkerPart(w)
    /\ PostInv
    /\ SuccessIsBacked

\* GitHub may give any number to a comment or a check run.
AnyId == Nat \ {0} \subseteq Ids

-----------------------------------------------------------------------------
(* Steps of the store.                                                     *)

\* Everything but a commit.
Other ==
    \/ Webhook \/ Reconciliation \/ GateOperation \/ OutboxOperation \/ Time
    \/ \E p \in PairId, e \in Epochs, w \in Workers : AcquirePairLease(p, e, w)
    \/ \E l \in PairLeases :
          \/ \E now \in Times : PlanDispatch(l, now)
          \/ BeginDispatchAttempt(l)
          \/ \E id \in Ids, at \in Times : AdoptDispatch(l, id, at)

LEMMA OtherIsStep == Other => StoreNext
BY DEF Other, StoreNext, PairOperation

\* A lease's components are what they should be.
LEMMA LeaseEpoch ==
    ASSUME NEW l \in PairLeases
    PROVE  <<l.pair, l.epoch>> \in EpochId /\ l.pair \in PairId
<1>1. PICK p \in PairId : l \in [pair : {p}, epoch : Epochs, fence : 0 .. pair[p].fence,
                                 worker : Workers]
  BY DEF PairLeases
<1> QED
  BY <1>1 DEF EpochId

\* Every step but a commit is steady.
LEMMA OtherSteady ==
    ASSUME HistoryInv, Other \/ UNCHANGED store
    PROVE  Steady /\ HistoryInv' /\ TypeOK /\ TypeOK'
<1>1. TypeOK /\ SafeInv
  BY DEF HistoryInv, SafeInv
<1>2. HistoryInv'
  <2>1. CASE Other
    BY <2>1, OtherIsStep, NextHistory
  <2>2. CASE UNCHANGED store
    BY <2>2, NextHistory
  <2> QED
    BY <2>1, <2>2
<1>3. TypeOK'
  BY <1>2 DEF HistoryInv, SafeInv
<1>4. ASSUME NEW p \in PairId, NEW e, NEW w, AcquirePairLease(p, e, w) PROVE Steady
  BY <1>1, <1>4, AcquirePairKept
<1>5. ASSUME NEW l \in PairLeases,
             \/ \E now \in Times : PlanDispatch(l, now)
             \/ BeginDispatchAttempt(l)
             \/ \E id \in Ids, at \in Times : AdoptDispatch(l, id, at)
      PROVE  Steady
  BY <1>1, <1>5, LeaseEpoch, DispatchKept
<1>6. ASSUME UNCHANGED store PROVE Steady
  BY <1>1, <1>6, UntouchedKept DEF store, Steady, Kept
<1>7. ASSUME Webhook PROVE Steady
  BY <1>3, <1>7, WebhookKept
<1>8. ASSUME Reconciliation PROVE Steady
  BY <1>3, <1>8, ReconciliationKept
<1>9. ASSUME GateOperation PROVE Steady
  BY <1>1, <1>9, GateOperationKept
<1>10. ASSUME OutboxOperation PROVE Steady
  BY <1>1, <1>10, OutboxOperationKept
<1>11. ASSUME Time PROVE Steady
  BY <1>1, <1>11, TimeKept
<1>12. Steady
  BY <1>4, <1>5, <1>6, <1>7, <1>8, <1>9, <1>10, <1>11 DEF Other
<1> QED
  BY <1>1, <1>2, <1>3, <1>12

-----------------------------------------------------------------------------
(* The decision.                                                           *)

\* What evaluatePair needs for success.
LEMMA SuccessReads ==
    ASSUME NEW s, NEW d, NEW rows
    PROVE  EvaluatePair(s, d, rows) = "success" <=>
               /\ ~s.quarantined /\ ~~s.active /\ s.state # "closed" /\ ~s.draft
               /\ d.state = "sent" /\ ~d.late
               /\ EvaluateEvidence(d.dispatchedAt, rows) = "success"
BY DEF EvaluatePair

\* The decisions there are.
LEMMA DecisionRange ==
    ASSUME NEW s, NEW d, NEW rows
    PROVE  EvaluatePair(s, d, rows) \in {"pending", "success", "failure"}
<1>1. ASSUME NEW t, NEW a, NEW b, NEW c
      PROVE  Correlate(t, a, b, c) \in {"pending", "success", "failure"}
  BY DEF Correlate
<1>2. ASSUME NEW t
      PROVE  EvaluateEvidence(t, rows) \in {"pending", "success", "failure"}
  BY <1>1 DEF EvaluateEvidence
<1> QED
  BY <1>2 DEF EvaluatePair

\* Success is decided from the columns that SameReview keeps.
LEMMA SuccessAgrees ==
    ASSUME NEW s, NEW t, SameInput(s, t), NEW d, NEW e, NEW rows,
           d.state = "sent" => e.state = "sent" /\ e.dispatchedAt = d.dispatchedAt,
           ~e.late, EvaluatePair(s, d, rows) = "success"
    PROVE  EvaluatePair(t, e, rows) = "success"
BY SuccessReads DEF SameInput

-----------------------------------------------------------------------------
(* Frames: what a step leaves to the workers that do not take it.          *)

\* What an outbox key of each topic carries.
LEMMA KeyTypes ==
    ASSUME NEW k \in OutboxKey
    PROVE  /\ k[1] \in {"publish", "evaluate", "timeout", "dispatch", "reconcile"}
           /\ k[1] = "publish" => k[2] \in GateId /\ k[3] \in Nat
           /\ k[1] \in {"evaluate", "timeout", "dispatch"} => k[2] \in PairId /\ k[3] \in Epochs
<1>1. CASE k \in {"publish"} \X GateId \X Nat
  BY <1>1
<1>2. CASE k \in {"evaluate"} \X PairId \X Epochs \X Nat
  BY <1>2
<1>3. CASE k \in {"timeout", "dispatch"} \X PairId \X Epochs
  BY <1>3
<1>4. CASE k \in {"reconcile"} \X Nat
  BY <1>4
<1> QED
  BY <1>1, <1>2, <1>3, <1>4 DEF OutboxKey

\* A worker at rest knows nothing.
LEMMA AtRest ==
    ASSUME NEW w, worker'[w].pc \in Resting, ~worker'[w].mayPost
    PROVE  WorkerPart(w)' /\ ~Posting(w)'
BY DEF WorkerPart, GatePart, PairPart, ReconcilePart, ReviewPart, PostPart, Posting,
       Resting, GateSteps, AfterGate, AfterRead, PairSteps, AfterPair, Decided

\* A worker that waits while the store moves on still knows what it knew.
LEMMA Waiting ==
    ASSUME TypeOK, TypeOK', Kept, NEW w, worker[w] \in Local, worker'[w] = worker[w],
           WorkerPart(w), Len(comments) \in Nat, Len(comments') \in Nat,
           Len(comments) <= Len(comments')
    PROVE  WorkerPart(w)'
<1> DEFINE g == ItemGate(w)  v == ItemRevision(w)  p == ItemPair(w)  e == ItemEpoch(w)
<1>0. /\ ItemGate(w)' = g /\ ItemRevision(w)' = v /\ ItemPair(w)' = p
      /\ ItemEpoch(w)' = e /\ ItemId(w)' = ItemId(w)
  BY DEF ItemGate, ItemRevision, ItemPair, ItemEpoch, ItemId
<1>1. worker[w].token \in Nat
  BY DEF Local
<1>2. GatePart(w)'
  <2>1. ASSUME worker[w].pc \in AfterGate
        PROVE  /\ v <= gate'[g].revision /\ worker[w].token <= gate'[g].fence
               /\ gate'[g].revision = v =>
                     gate[g].revision = v /\ gate'[g].desired = gate[g].desired
               /\ gate'[g].pair = gate[g].pair
    <3>1. g \in GateId /\ v \in Nat /\ v > 0 /\ v <= gate[g].revision
          /\ worker[w].token <= gate[g].fence
      BY <2>1 DEF WorkerPart, GatePart, GateSteps
    <3>2. /\ gate[g].revision \in Nat /\ gate'[g].revision \in Nat
          /\ gate[g].fence \in Nat /\ gate'[g].fence \in Nat
      BY <3>1 DEF TypeOK, GateRow
    <3>3. GateKept(g)
      BY <3>1 DEF Kept, GatesKept
    <3> QED
      BY <1>1, <3>1, <3>2, <3>3 DEF GateKept
  <2> QED
    BY <1>0, <2>1 DEF WorkerPart, GatePart, AfterRead
<1>3. ASSUME worker[w].pc \in AfterPair
      PROVE  /\ p \in PairId /\ e \in Epochs /\ pair[p].epoch > 0
             /\ pair[p] \in PairRow
             /\ pair'[p].epoch > 0
             /\ worker[w].token <= pair'[p].fence
             /\ Unfenced(w)' => Unfenced(w) /\ SameReview(p)
  <2>1. /\ p \in PairId /\ e \in Epochs /\ pair[p].epoch > 0
        /\ worker[w].token <= pair[p].fence
    BY <1>3 DEF WorkerPart, PairPart, PairSteps
  <2>2. pair[p].fence \in Nat /\ pair'[p].fence \in Nat /\ pair[p] \in PairRow
    BY <2>1 DEF TypeOK, PairRow
  <2>3. PairKept(p)
    BY <2>1 DEF Kept, PairsKept
  <2> QED
    BY <1>0, <1>1, <2>1, <2>2, <2>3 DEF PairKept, Unfenced
<1>4. PairPart(w)'
  BY <1>0, <1>3 DEF WorkerPart, PairPart
<1>5. ReconcilePart(w)' /\ PostPart(w)'
  BY DEF WorkerPart, ReconcilePart, PostPart, Lists
<1>6. ReviewPart(w)'
  <2> SUFFICES ASSUME worker[w].pc \in {"eval_dispatch", "eval_evidence", "eval_live",
                                         "eval_commit"}
               PROVE  ReviewPart(w)'
    BY DEF ReviewPart
  <2>1. worker[w].pc \in AfterPair
    BY DEF AfterPair, Decided
  <2>2. CASE ~Unfenced(w)'
    BY <2>2 DEF ReviewPart, WorkerPart
  <2>3. CASE Unfenced(w)'
    <3>1. Unfenced(w) /\ SameReview(p) /\ pair[p].epoch = e
      BY <1>3, <2>1, <2>3 DEF WorkerPart, ReviewPart
    <3>2. /\ SameInput(pair[p], pair'[p]) /\ pair'[p].epoch = e
          /\ EpochOf(p) = <<p, e>> /\ EpochOf(p)' = <<p, e>> /\ ItemId(w) = <<p, e>>
          /\ <<p, e>> \in EpochId
      BY <1>0, <1>3, <2>1, <3>1 DEF SameReview, SameInput, EpochOf, EpochId, ItemId
    <3>3. ASSUME worker[w].pc \in {"eval_dispatch", "eval_evidence"}
          PROVE  /\ worker[w].snap \in PairRow
                 /\ SameInput(worker[w].snap, pair'[p])
      BY <3>1, <3>2, <3>3 DEF WorkerPart, ReviewPart, SameInput
    <3>4. ASSUME worker[w].pc = "eval_evidence", worker[w].disp.state = "sent"
          PROVE  /\ dispatch'[<<p, e>>].state = "sent"
                 /\ dispatch'[<<p, e>>].dispatchedAt = worker[w].disp.dispatchedAt
      <4>1. /\ dispatch[<<p, e>>].state = "sent"
            /\ dispatch[<<p, e>>].dispatchedAt = worker[w].disp.dispatchedAt
        BY <3>1, <3>2, <3>4 DEF WorkerPart, ReviewPart
      <4> QED
        BY <3>1, <3>2, <4>1 DEF SameReview
    <3>5. ASSUME worker[w].pc \in {"eval_live", "eval_commit"}, worker[w].desired = "success"
          PROVE  Reviewed(p)'
      <4> DEFINE d == dispatch[<<p, e>>]  c == dispatch'[<<p, e>>]
                 before == [d EXCEPT !.late = FALSE]
                 after  == [c EXCEPT !.late = FALSE]
                 rows == evidence[<<p, e>>]
      <4>1. EvaluatePair(pair[p], before, rows) = "success"
        BY <3>1, <3>2, <3>5 DEF WorkerPart, ReviewPart, Reviewed
      <4>2. d \in DispatchRow /\ c \in DispatchRow
        BY <3>2 DEF TypeOK
      <4>3. /\ before.state = d.state /\ before.dispatchedAt = d.dispatchedAt
            /\ after.state = c.state /\ after.dispatchedAt = c.dispatchedAt /\ ~after.late
        BY <4>2 DEF DispatchRow
      <4>4. d.state = "sent" => c.state = "sent" /\ c.dispatchedAt = d.dispatchedAt
        BY <3>1, <3>2 DEF SameReview
      <4>5. evidence'[<<p, e>>] = rows
        BY <3>1, <3>2 DEF SameReview
      <4>6. Reviewed(p)' <=> EvaluatePair(pair'[p], after, rows) = "success"
        BY <1>0, <3>2, <4>5 DEF Reviewed
      <4> HIDE DEF d, c, before, after, rows
      <4> QED
        BY <3>2, <4>1, <4>3, <4>4, <4>6, SuccessAgrees
    <3> QED
      BY <1>0, <2>3, <3>2, <3>3, <3>4, <3>5 DEF ReviewPart
  <2> QED
    BY <2>2, <2>3
<1> QED
  BY <1>2, <1>4, <1>5, <1>6 DEF WorkerPart

\* A success that a step leaves alone stays backed: the rows behind it move
\* only together with it.
LEMMA StillBackedAt ==
    ASSUME HistoryInv, TypeOK', Kept, SuccessIsBacked, NEW g \in GateId, SuccessKept(g),
           gate'[g].desired = "success"
    PROVE  LET p == gate'[g].pair
               d == <<p, pair'[p].epoch>>
           IN  EvaluatePair(pair'[p], [dispatch'[d] EXCEPT !.late = FALSE],
                            evidence'[d]) = "success"
<1> DEFINE p == gate[g].pair
           d == dispatch[<<p, g.epoch>>]  c == dispatch'[<<p, g.epoch>>]
           before == [d EXCEPT !.late = FALSE]
           after  == [c EXCEPT !.late = FALSE]
           rows == evidence[<<p, g.epoch>>]
<1>0. TypeOK /\ SafeInv
  BY DEF HistoryInv, SafeInv
<1>1. gate[g].desired = "success" /\ gate'[g].pair = p
  BY DEF SuccessKept
<1>2. /\ p \in PairId /\ gate[g].active /\ pair[p].epoch = g.epoch /\ d.state = "sent"
  BY <1>0, <1>1, Unmoved DEF Backed
<1>3. /\ g.epoch \in Epochs /\ <<p, g.epoch>> \in EpochId /\ pair[p].epoch > 0
      /\ EpochOf(p) = <<p, g.epoch>> /\ g \in Bound(p)
  BY <1>2 DEF GateId, EpochId, EpochOf, Epochs, Bound, BoundTo
<1>4. SameReview(p)
  BY <1>2, <1>3 DEF Kept, PairsKept, PairKept
<1>5. /\ SameInput(pair[p], pair'[p]) /\ pair'[p].epoch = g.epoch
      /\ evidence'[<<p, g.epoch>>] = rows
      /\ c.state = "sent" /\ c.dispatchedAt = d.dispatchedAt
  BY <1>1, <1>2, <1>3, <1>4 DEF SameReview, SameInput, EpochOf
<1>6. EvaluatePair(pair[p], before, rows) = "success"
  BY <1>1, <1>3 DEF SuccessIsBacked
<1>7. d \in DispatchRow /\ c \in DispatchRow
  BY <1>0, <1>3 DEF TypeOK
<1>8. /\ before.state = d.state /\ before.dispatchedAt = d.dispatchedAt
      /\ after.state = c.state /\ after.dispatchedAt = c.dispatchedAt /\ ~after.late
  BY <1>7 DEF DispatchRow
<1>9. EvaluatePair(pair'[p], after, rows) = "success"
  <2> HIDE DEF d, c, before, after, rows
  <2> QED
    BY <1>5, <1>6, <1>8, SuccessAgrees
<1> QED
  BY <1>1, <1>5, <1>9

\* A steady step leaves every success backed.
LEMMA StillBacked ==
    ASSUME HistoryInv, TypeOK', Steady, SuccessIsBacked
    PROVE  SuccessIsBacked'
<1> SUFFICES ASSUME NEW g \in GateId, gate'[g].desired = "success"
             PROVE  LET p == gate'[g].pair
                        d == <<p, pair'[p].epoch>>
                    IN  EvaluatePair(pair'[p], [dispatch'[d] EXCEPT !.late = FALSE],
                                     evidence'[d]) = "success"
  BY DEF SuccessIsBacked, EpochOf
<1> QED
  BY StillBackedAt DEF Steady, SuccessesKept

\* The step of worker w, as far as the others can tell.
Advances(w) ==
    /\ worker' \in [Workers -> Local]
    /\ \A v \in Workers : v # w => worker'[v] = worker[v]
    /\ WorkerPart(w)'
    /\ Posting(w)' => Posting(w) /\ ItemId(w)' = ItemId(w)

\* Nobody becomes a poster and nothing is posted.
LEMMA NobodyPosts ==
    ASSUME PostInv, AttemptsKept, comments' = comments,
           \A i \in 1 .. Len(comments) : comments[i].by \in EpochId,
           \A w \in Workers : Posting(w) => ItemId(w) \in EpochId,
           \A w \in Workers : Posting(w)' => Posting(w) /\ ItemId(w)' = ItemId(w)
    PROVE  PostInv'
<1>1. \A i \in 1 .. Len(comments') : Attempted(comments[i].by)'
  BY DEF PostInv, AttemptsKept, Attempted
<1>2. ASSUME NEW w \in Workers, Posting(w)'
      PROVE  Attempted(ItemId(w))' /\ \A i \in 1 .. Len(comments') : comments'[i].by # ItemId(w)'
  <2>1. Posting(w) /\ ItemId(w)' = ItemId(w) /\ ItemId(w) \in EpochId
    BY <1>2
  <2>2. Attempted(ItemId(w)) /\ \A i \in 1 .. Len(comments) : comments[i].by # ItemId(w)
    BY <2>1 DEF PostInv
  <2> QED
    BY <2>1, <2>2 DEF AttemptsKept, Attempted
<1>3. \A v, w \in Workers : (Posting(v)' /\ Posting(w)' /\ ItemId(v)' = ItemId(w)') => v = w
  BY DEF PostInv
<1>4. AtMostOnePost'
  BY DEF PostInv, AtMostOnePost
<1> QED
  BY <1>1, <1>2, <1>3, <1>4 DEF PostInv

\* Comments carry epochs, and so do posters.
LEMMA PostTypes ==
    ASSUME WorkerInv
    PROVE  /\ \A i \in 1 .. Len(comments) : comments[i].by \in EpochId
           /\ \A w \in Workers : Posting(w) => ItemId(w) \in EpochId
           /\ Len(comments) \in Nat
<1>1. comments \in Seq(Comment)
  BY DEF WorkerInv, GithubType
<1>2. \A i \in 1 .. Len(comments) : comments[i] \in Comment
  BY <1>1
<1>3. ASSUME NEW w \in Workers, Posting(w) PROVE ItemId(w) \in EpochId
  <2>1. WorkerPart(w) /\ worker[w].pc \in {"disp_find", "disp_post"}
    BY <1>3 DEF WorkerInv, Posting
  <2>2. ItemPair(w) \in PairId /\ ItemEpoch(w) \in Epochs
    BY <2>1 DEF WorkerPart, PairPart, PairSteps, AfterPair
  <2> QED
    BY <2>2 DEF ItemId, EpochId
<1> QED
  BY <1>1, <1>2, <1>3 DEF Comment

\* A step of a worker keeps the invariant if it keeps its own part of it.
LEMMA WorkerAdvances ==
    ASSUME WorkerInv, NEW w \in Workers, Other \/ UNCHANGED store, Advances(w),
           GithubType', comments' = comments
    PROVE  WorkerInv'
<1>1. HistoryInv /\ SuccessIsBacked /\ PostInv /\ \A v \in Workers : WorkerPart(v)
  BY DEF WorkerInv
<1>2. Steady /\ HistoryInv' /\ TypeOK /\ TypeOK'
  BY <1>1, OtherSteady
<1>3. SuccessIsBacked'
  BY <1>1, <1>2, StillBacked
<1>4. ASSUME NEW v \in Workers, v # w
      PROVE  /\ worker'[v] = worker[v] /\ WorkerPart(v)'
             /\ Posting(v)' => Posting(v) /\ ItemId(v)' = ItemId(v)
  <2>1. worker'[v] = worker[v] /\ worker[v] \in Local
    BY <1>4 DEF Advances, WorkerInv
  <2>2. Len(comments) \in Nat /\ Len(comments) <= Len(comments')
    BY PostTypes
  <2>3. WorkerPart(v)'
    BY <1>1, <1>2, <2>1, <2>2, Waiting DEF Steady
  <2> QED
    BY <2>1, <2>3 DEF Posting, ItemId, ItemPair, ItemEpoch
<1>5. \A v \in Workers : WorkerPart(v)'
  BY <1>4 DEF Advances
<1>6. PostInv'
  BY <1>1, <1>2, <1>4, PostTypes, NobodyPosts DEF Steady, Kept, Advances
<1> QED
  BY <1>2, <1>3, <1>5, <1>6 DEF WorkerInv, Advances

\* Nothing happens to the workers.
LEMMA WorkersWait ==
    ASSUME WorkerInv, Other \/ UNCHANGED store, worker' = worker, GithubType',
           comments' = comments
    PROVE  WorkerInv'
<1>1. HistoryInv /\ SuccessIsBacked /\ PostInv /\ \A v \in Workers : WorkerPart(v)
  BY DEF WorkerInv
<1>2. Steady /\ HistoryInv' /\ TypeOK /\ TypeOK'
  BY <1>1, OtherSteady
<1>3. SuccessIsBacked'
  BY <1>1, <1>2, StillBacked
<1>4. ASSUME NEW v \in Workers
      PROVE  WorkerPart(v)' /\ (Posting(v)' => Posting(v) /\ ItemId(v)' = ItemId(v))
  <2>1. worker'[v] = worker[v] /\ worker[v] \in Local
    BY DEF WorkerInv
  <2>2. Len(comments) \in Nat /\ Len(comments) <= Len(comments')
    BY PostTypes
  <2>3. WorkerPart(v)'
    BY <1>1, <1>2, <2>1, <2>2, Waiting DEF Steady
  <2> QED
    BY <2>1, <2>3 DEF Posting, ItemId, ItemPair, ItemEpoch
<1>5. PostInv'
  BY <1>1, <1>2, <1>4, PostTypes, NobodyPosts DEF Steady, Kept
<1> QED
  BY <1>2, <1>3, <1>4, <1>5 DEF WorkerInv

-----------------------------------------------------------------------------
(* Moving a worker.                                                        *)

\* Assigning the locals of one worker.
LEMMA Becomes ==
    ASSUME worker \in [Workers -> Local], NEW w \in Workers, NEW x, Become(w, x)
    PROVE  /\ worker'[w] = x
           /\ \A v \in Workers : v # w => worker'[v] = worker[v]
           /\ x \in Local => worker' \in [Workers -> Local]
BY DEF Become

\* return, throw and a crash.
LEMMA Rests ==
    ASSUME worker \in [Workers -> Local], NEW w \in Workers,
           Become(w, Done(w)) \/ Become(w, Failed(w)) \/ Become(w, Idle)
    PROVE  Advances(w)
<1>1. /\ Idle \in Local /\ Idle.pc \in Resting /\ ~Idle.mayPost
      /\ Done(w) \in Local /\ Done(w).pc \in Resting /\ ~Done(w).mayPost
      /\ Failed(w) \in Local /\ Failed(w).pc \in Resting /\ ~Failed(w).mayPost
  <2>1. worker[w].item \in OutboxKey \cup {None}
    BY DEF Local
  <2>2. Idle \in Local
    BY DEF Idle, Local, Steps, Resting
  <2>3. Done(w) \in Local /\ Failed(w) \in Local
    BY <2>1, <2>2 DEF Done, Failed, Idle, Local, Steps, Resting
  <2> QED
    BY <2>2, <2>3 DEF Done, Failed, Idle, Resting
<1>2. /\ worker' \in [Workers -> Local]
      /\ \A v \in Workers : v # w => worker'[v] = worker[v]
      /\ worker'[w].pc \in Resting /\ ~worker'[w].mayPost
  <2>1. CASE Become(w, Done(w))
    BY <1>1, <2>1, Becomes
  <2>2. CASE Become(w, Failed(w))
    BY <1>1, <2>2, Becomes
  <2>3. CASE Become(w, Idle)
    BY <1>1, <2>3, Becomes
  <2> QED
    BY <2>1, <2>2, <2>3
<1>3. WorkerPart(w)' /\ ~Posting(w)'
  BY <1>2, AtRest
<1> QED
  BY <1>2, <1>3 DEF Advances

\* Only its own part matters to a worker in the middle of publishGate ...
LEMMA AtGate ==
    ASSUME NEW w, worker'[w].pc \in GateSteps, ~worker'[w].mayPost, GatePart(w)'
    PROVE  WorkerPart(w)' /\ ~Posting(w)'
BY DEF WorkerPart, PairPart, ReconcilePart, ReviewPart, PostPart, Posting,
       GateSteps, AfterGate, PairSteps, AfterPair, Decided

\* ... of evaluatePair and dispatchReview ...
LEMMA AtPair ==
    ASSUME NEW w, worker'[w].pc \in PairSteps, PairPart(w)', ReviewPart(w)', PostPart(w)'
    PROVE  WorkerPart(w)'
BY DEF WorkerPart, GatePart, ReconcilePart, GateSteps, AfterGate, AfterRead, PairSteps,
       AfterPair, Decided

\* ... and of reconcileRepository.
LEMMA AtReconcile ==
    ASSUME NEW w, worker'[w].pc \in {"rec_begin", "rec_list", "rec_apply"},
           ~worker'[w].mayPost, ReconcilePart(w)'
    PROVE  WorkerPart(w)' /\ ~Posting(w)'
BY DEF WorkerPart, GatePart, PairPart, ReviewPart, PostPart, Posting, GateSteps,
       AfterGate, AfterRead, PairSteps, AfterPair, Decided

-----------------------------------------------------------------------------
(* publishGate                                                             *)

\* The lease of a publisher is one that the store granted.
LEMMA PublishLease ==
    ASSUME WorkerInv, NEW w \in Workers, worker[w].pc \in AfterGate
    PROVE  /\ worker[w] \in Local /\ ~worker[w].mayPost
           /\ ItemGate(w) \in GateId /\ gate[ItemGate(w)] \in GateRow
           /\ ItemRevision(w) \in Nat /\ ItemRevision(w) > 0
           /\ ItemRevision(w) <= gate[ItemGate(w)].revision
           /\ worker[w].token <= gate[ItemGate(w)].fence
           /\ GateLease(w) \in GateLeases
           /\ GateLease(w).gate = ItemGate(w)
           /\ GateLease(w).revision = ItemRevision(w)
<1>1. worker[w] \in Local /\ WorkerPart(w) /\ TypeOK
  BY DEF WorkerInv, HistoryInv, SafeInv
<1>2. ~worker[w].mayPost
  BY <1>1 DEF WorkerPart, PostPart, AfterGate
<1>3. /\ ItemGate(w) \in GateId /\ ItemRevision(w) \in Nat /\ ItemRevision(w) > 0
      /\ ItemRevision(w) <= gate[ItemGate(w)].revision
      /\ worker[w].token <= gate[ItemGate(w)].fence
  BY <1>1 DEF WorkerPart, GatePart, GateSteps
<1>4. gate[ItemGate(w)] \in GateRow /\ gate[ItemGate(w)].revision \in Nat
      /\ gate[ItemGate(w)].fence \in Nat /\ worker[w].token \in Nat
  BY <1>1, <1>3 DEF TypeOK, GateRow, Local
<1>5. /\ ItemRevision(w) \in 1 .. gate[ItemGate(w)].revision
      /\ worker[w].token \in 0 .. gate[ItemGate(w)].fence
  BY <1>3, <1>4
<1>6. /\ GateLease(w).gate = ItemGate(w) /\ GateLease(w).revision = ItemRevision(w)
      /\ GateLease(w) \in [gate : {ItemGate(w)}, revision : 1 .. gate[ItemGate(w)].revision,
                            fence : 0 .. gate[ItemGate(w)].fence, worker : Workers]
  BY <1>5 DEF GateLease, ItemGate, ItemRevision
<1>7. GateLease(w) \in GateLeases
  BY <1>3, <1>6 DEF GateLeases
<1> QED
  BY <1>1, <1>2, <1>3, <1>4, <1>6, <1>7

\* A step of a publisher that has read the gate.
LEMMA PublishMoves ==
    ASSUME WorkerInv, NEW w \in Workers, worker[w].pc \in AfterGate, UNCHANGED gate,
           NEW x \in Local, Become(w, x), x.pc \in AfterRead, ~x.mayPost,
           x.item = worker[w].item, x.token = worker[w].token,
           x.desired \in GateStates,
           gate[ItemGate(w)].revision = ItemRevision(w) =>
               gate[ItemGate(w)].desired = x.desired,
           x.desired = "success" => gate[ItemGate(w)].pair \in PairId,
           x.pc \in {"pub_pair", "pub_live", "pub_authorize", "pub_reject"} =>
               x.desired = "success",
           x.pc \in {"pub_commit", "pub_supersede"} => x.posted # 0
    PROVE  Advances(w)
<1>1. worker \in [Workers -> Local]
  BY DEF WorkerInv
<1>2. /\ worker'[w] = x /\ worker' \in [Workers -> Local]
      /\ \A v \in Workers : v # w => worker'[v] = worker[v]
  BY <1>1, Becomes
<1>3. ItemGate(w)' = ItemGate(w) /\ ItemRevision(w)' = ItemRevision(w)
  BY <1>2 DEF ItemGate, ItemRevision
<1>4. GatePart(w)'
  BY <1>2, <1>3, PublishLease DEF GatePart
<1>5. x.pc \in GateSteps
  BY DEF AfterRead, GateSteps
<1>6. WorkerPart(w)' /\ ~Posting(w)'
  BY <1>2, <1>4, <1>5, AtGate
<1> QED
  BY <1>2, <1>6 DEF Advances

\* What a publisher knows once it read the gate.
LEMMA PublishKnows ==
    ASSUME WorkerInv, NEW w \in Workers, worker[w].pc \in AfterRead
    PROVE  /\ worker[w].pc \in AfterGate
           /\ worker[w].desired \in GateStates
           /\ gate[ItemGate(w)].revision = ItemRevision(w) =>
                 gate[ItemGate(w)].desired = worker[w].desired
           /\ worker[w].desired = "success" => gate[ItemGate(w)].pair \in PairId
           /\ worker[w].pc \in {"pub_pair", "pub_live", "pub_authorize", "pub_reject"} =>
                 worker[w].desired = "success"
           /\ worker[w].pc \in {"pub_commit", "pub_supersede"} => worker[w].posted # 0
<1>1. WorkerPart(w)
  BY DEF WorkerInv
<1>2. worker[w].pc \in AfterGate
  BY DEF AfterRead
<1> QED
  BY <1>1, <1>2 DEF WorkerPart, GatePart

\* acquireGateLease
LEMMA PublishAcquireStep ==
    ASSUME WorkerInv, NEW w \in Workers, PublishAcquire(w)
    PROVE  (Other \/ UNCHANGED store) /\ Advances(w)
<1> DEFINE g == ItemGate(w)  v == ItemRevision(w)
<1>1. worker[w] \in Local /\ WorkerPart(w) /\ TypeOK /\ worker \in [Workers -> Local]
  BY DEF WorkerInv, HistoryInv, SafeInv
<1>2. worker[w].pc = "pub_acquire" /\ ~worker[w].mayPost
  BY <1>1 DEF PublishAcquire, At, WorkerPart, PostPart
<1>3. g \in GateId /\ v \in Nat
  BY <1>1, <1>2 DEF WorkerPart, GatePart, GateSteps
<1>4. gate[g] \in GateRow /\ gate[g].fence \in Nat /\ gate[g].revision \in Nat
  BY <1>1, <1>3 DEF TypeOK, GateRow
<1>5. CASE AcquireGateLease(g, v, w)
           /\ Become(w, [worker[w] EXCEPT !.pc = "pub_read", !.token = gate[g].fence + 1])
  <2> DEFINE t == gate[g].fence + 1
             x == [worker[w] EXCEPT !.pc = "pub_read", !.token = t]
  <2>1. GateLeasable(g, v, w) /\ v > 0 /\ v = gate[g].revision
    BY <1>5 DEF AcquireGateLease, GateLeasable
  <2>2. Other
    BY <1>3, <1>5, <2>1 DEF Other, GateOperation
  <2>3. gate'[g].fence = gate[g].fence + 1 /\ gate'[g].revision = gate[g].revision
    BY <1>1, <1>3, <1>4, <1>5 DEF AcquireGateLease, TypeOK, GateRow
  <2>0. "pub_read" \in Steps
    BY DEF Steps, GateSteps, AfterGate
  <2>9. t \in Nat
    BY <1>4
  <2>4. /\ x \in Local /\ x.pc = "pub_read" /\ x.token = t
        /\ x.item = worker[w].item /\ ~x.mayPost
    <3> HIDE DEF t
    <3> QED
      BY <1>1, <1>2, <2>0, <2>9 DEF Local
  <2> HIDE DEF x
  <2>5. /\ worker'[w] = x /\ worker' \in [Workers -> Local]
        /\ \A u \in Workers : u # w => worker'[u] = worker[u]
    BY <1>1, <1>5, <2>4, Becomes DEF x
  <2>6. ItemGate(w)' = g /\ ItemRevision(w)' = v
    BY <2>4, <2>5 DEF ItemGate, ItemRevision
  <2>7. GatePart(w)'
    BY <1>3, <1>4, <2>1, <2>3, <2>4, <2>5, <2>6 DEF GatePart, AfterRead
  <2>8. WorkerPart(w)' /\ ~Posting(w)'
    BY <2>4, <2>5, <2>7, AtGate DEF GateSteps, AfterGate
  <2> QED
    BY <2>2, <2>5, <2>8 DEF Advances
<1>6. CASE Goto(w, "pub_held") /\ UNCHANGED store
  <2> DEFINE x == [worker[w] EXCEPT !.pc = "pub_held"]
  <2>0. "pub_held" \in Steps
    BY DEF Steps, GateSteps
  <2>1. /\ x \in Local /\ x.pc = "pub_held" /\ x.item = worker[w].item /\ ~x.mayPost
    BY <1>1, <1>2, <2>0 DEF Local
  <2> HIDE DEF x
  <2>2. /\ worker'[w] = x /\ worker' \in [Workers -> Local]
        /\ \A u \in Workers : u # w => worker'[u] = worker[u]
    BY <1>1, <1>6, <2>1, Becomes DEF x, Goto
  <2>3. GatePart(w)'
    BY <1>3, <2>1, <2>2 DEF GatePart, AfterRead, AfterGate, ItemGate, ItemRevision
  <2>4. WorkerPart(w)' /\ ~Posting(w)'
    BY <2>1, <2>2, <2>3, AtGate DEF GateSteps
  <2> QED
    BY <1>6, <2>2, <2>4 DEF Advances
<1> QED
  BY <1>5, <1>6 DEF PublishAcquire

\* The reads and the requests of publishGate.
LEMMA PublishReadStep ==
    ASSUME WorkerInv, NEW w \in Workers, PublishRead(w)
    PROVE  UNCHANGED store /\ Advances(w)
<1> DEFINE g == ItemGate(w)
           row == gate[g]
           y == [worker[w] EXCEPT !.desired = row.desired, !.run = row.checkRun]
<1>1. worker[w].pc = "pub_read" /\ worker[w].pc \in AfterGate /\ UNCHANGED store
  BY DEF PublishRead, At, AfterGate
<1>2. /\ worker[w] \in Local /\ ~worker[w].mayPost /\ row \in GateRow
      /\ worker \in [Workers -> Local]
  BY <1>1, PublishLease DEF WorkerInv
<1>3. row.desired \in GateStates /\ row.checkRun \in Nat
  BY <1>2 DEF GateRow
<1>4. CASE row.revision # ItemRevision(w)
  BY <1>1, <1>2, <1>4, Rests DEF PublishRead
<1>5. row.desired = "success" => row.pair \in PairId
  BY <1>1, PublishLease, Unmoved DEF WorkerInv, HistoryInv, Backed
<1>6. y \in Local /\ y.item = worker[w].item /\ ~y.mayPost
      /\ y.token = worker[w].token /\ y.desired = row.desired
  BY <1>2, <1>3 DEF Local
<1>7. ASSUME NEW pc \in {"pub_pair", "pub_write", "pub_find"},
             Become(w, [y EXCEPT !.pc = pc]), pc = "pub_pair" => row.desired = "success"
      PROVE  Advances(w)
  <2> HIDE DEF y
  <2> DEFINE x == [y EXCEPT !.pc = pc]
  <2>1. pc \in Steps /\ pc \in AfterRead
    BY DEF Steps, GateSteps, AfterGate, AfterRead
  <2>2. /\ x \in Local /\ x.pc = pc /\ x.item = worker[w].item /\ ~x.mayPost
        /\ x.token = worker[w].token /\ x.desired = row.desired
    BY <1>6, <2>1 DEF Local
  <2>3. Become(w, x)
    BY <1>7
  <2> HIDE DEF x
  <2> QED
    BY <1>1, <1>3, <1>5, <1>7, <2>1, <2>2, <2>3, PublishMoves DEF store
<1>8. CASE row.revision = ItemRevision(w)
  BY <1>7, <1>8 DEF PublishRead, WriteStep
<1> QED
  BY <1>1, <1>4, <1>8

\* A worker's step that posts nothing: one transaction or none, and its own part of
\* the invariant is kept.
Works(w) ==
    /\ Other \/ UNCHANGED store
    /\ Advances(w)
    /\ GithubType'
    /\ comments' = comments

\* A step that leaves GitHub alone.
LEMMA GithubStill ==
    ASSUME WorkerInv, UNCHANGED github
    PROVE  GithubType' /\ comments' = comments
BY DEF WorkerInv, GithubType, github

\* A publisher that goes on with what it read.
LEMMA PublishContinues ==
    ASSUME WorkerInv, NEW w \in Workers, worker[w].pc \in AfterRead, UNCHANGED gate,
           NEW x \in Local, Become(w, x), x.pc \in AfterRead,
           x.mayPost = worker[w].mayPost, x.item = worker[w].item,
           x.token = worker[w].token, x.desired = worker[w].desired,
           x.pc \in {"pub_pair", "pub_live", "pub_authorize", "pub_reject"} =>
               worker[w].desired = "success",
           x.pc \in {"pub_commit", "pub_supersede"} => x.posted # 0
    PROVE  Advances(w)
<1>1. worker[w].pc \in AfterGate /\ ~worker[w].mayPost
  BY PublishKnows, PublishLease
<1>2. /\ worker[w].desired \in GateStates
      /\ gate[ItemGate(w)].revision = ItemRevision(w) =>
            gate[ItemGate(w)].desired = worker[w].desired
      /\ worker[w].desired = "success" => gate[ItemGate(w)].pair \in PairId
  BY PublishKnows
<1> QED
  BY <1>1, <1>2, PublishMoves

\* ... without touching anything else.
LEMMA PublishHeldStep ==
    ASSUME WorkerInv, NEW w \in Workers, PublishHeld(w)
    PROVE  UNCHANGED store /\ Advances(w)
<1>1. worker \in [Workers -> Local]
  BY DEF WorkerInv
<1>2. Become(w, Failed(w)) \/ Become(w, Done(w))
  BY DEF PublishHeld, Branch
<1> QED
  BY <1>1, <1>2, Rests DEF PublishHeld

LEMMA PublishLoadPairStep ==
    ASSUME WorkerInv, NEW w \in Workers, PublishLoadPair(w)
    PROVE  UNCHANGED store /\ Advances(w)
<1> DEFINE row == pair[gate[ItemGate(w)].pair]
<1>1. worker[w].pc = "pub_pair" /\ worker[w].pc \in AfterRead /\ UNCHANGED store
  BY DEF PublishLoadPair, At, AfterRead, AfterGate
<1>2. worker[w].desired = "success" /\ row \in PairRow /\ worker[w] \in Local
  BY <1>1, PublishKnows, PublishLease DEF WorkerInv, HistoryInv, SafeInv, TypeOK
<1>3. UNCHANGED gate
  BY <1>1 DEF store
<1>4. "pub_live" \in Steps /\ "pub_reject" \in Steps
  BY DEF Steps, GateSteps, AfterGate
<1> HIDE DEF row
<1>5. CASE Become(w, [worker[w] EXCEPT !.pc = "pub_live", !.snap = row])
  <2> DEFINE x == [worker[w] EXCEPT !.pc = "pub_live", !.snap = row]
  <2>1. /\ x \in Local /\ x.pc = "pub_live" /\ x.mayPost = worker[w].mayPost
        /\ x.item = worker[w].item /\ x.token = worker[w].token
        /\ x.desired = worker[w].desired
    BY <1>2, <1>4 DEF Local
  <2>2. Become(w, x)
    BY <1>5
  <2> HIDE DEF x
  <2> QED
    BY <1>1, <1>2, <1>3, <2>1, <2>2, PublishContinues DEF AfterRead, AfterGate
<1>6. CASE Become(w, [worker[w] EXCEPT !.pc = "pub_reject"])
  <2> DEFINE x == [worker[w] EXCEPT !.pc = "pub_reject"]
  <2>1. /\ x \in Local /\ x.pc = "pub_reject" /\ x.mayPost = worker[w].mayPost
        /\ x.item = worker[w].item /\ x.token = worker[w].token
        /\ x.desired = worker[w].desired
    BY <1>2, <1>4 DEF Local
  <2>2. Become(w, x)
    BY <1>6
  <2> HIDE DEF x
  <2> QED
    BY <1>1, <1>2, <1>3, <2>1, <2>2, PublishContinues DEF AfterRead, AfterGate
<1>7. \/ Become(w, [worker[w] EXCEPT !.pc = "pub_live", !.snap = row])
      \/ Become(w, [worker[w] EXCEPT !.pc = "pub_reject"])
  BY DEF PublishLoadPair, Branch, row
<1> QED
  BY <1>1, <1>5, <1>6, <1>7

LEMMA PublishCheckLiveStep ==
    ASSUME WorkerInv, NEW w \in Workers, PublishCheckLive(w)
    PROVE  UNCHANGED store /\ Advances(w)
<1> DEFINE pc == IF ~StillLive(w) THEN "pub_reject"
                 ELSE IF worker[w].posted = 0 THEN "pub_authorize"
                 ELSE "pub_commit"
           x == [worker[w] EXCEPT !.snap = None, !.pc = pc]
<1>1. worker[w].pc = "pub_live" /\ worker[w].pc \in AfterRead /\ UNCHANGED store
  BY DEF PublishCheckLive, At, AfterRead, AfterGate
<1>2. worker[w].desired = "success" /\ worker[w] \in Local
  BY <1>1, PublishKnows, PublishLease
<1>3. UNCHANGED gate
  BY <1>1 DEF store
<1>4. pc \in Steps /\ pc \in AfterRead /\ (pc = "pub_commit" => worker[w].posted # 0)
      /\ pc # "pub_supersede"
  BY DEF Steps, GateSteps, AfterRead, AfterGate
<1>5. Become(w, x)
  BY DEF PublishCheckLive
<1> HIDE DEF pc
<1>6. /\ x \in Local /\ x.pc = pc /\ x.mayPost = worker[w].mayPost
      /\ x.item = worker[w].item /\ x.token = worker[w].token
      /\ x.desired = worker[w].desired /\ x.posted = worker[w].posted
  BY <1>2, <1>4 DEF Local
<1> HIDE DEF x
<1> QED
  BY <1>1, <1>2, <1>3, <1>4, <1>5, <1>6, PublishContinues

\* authorizeSuccessPublication
LEMMA PublishAuthorizeStep ==
    ASSUME WorkerInv, NEW w \in Workers, PublishAuthorize(w), AnyId
    PROVE  (Other \/ UNCHANGED store) /\ Advances(w)
<1>1. worker[w].pc = "pub_authorize" /\ worker[w].pc \in AfterRead
      /\ worker \in [Workers -> Local]
  BY DEF PublishAuthorize, At, AfterRead, AfterGate, WorkerInv
<1>2. worker[w].desired = "success" /\ worker[w] \in Local /\ GateLease(w) \in GateLeases
  BY <1>1, PublishKnows, PublishLease
<1>3. CASE Become(w, Done(w)) /\ UNCHANGED store
  BY <1>1, <1>3, Rests
<1>4. ASSUME NEW pc \in {"pub_write", "pub_find", "pub_pair", "pub_supersede"},
             Become(w, [worker[w] EXCEPT !.pc = pc]), UNCHANGED store,
             pc = "pub_supersede" => worker[w].posted # 0
      PROVE  Advances(w)
  <2> DEFINE x == [worker[w] EXCEPT !.pc = pc]
  <2>1. pc \in Steps /\ pc \in AfterRead /\ pc # "pub_commit"
    BY DEF Steps, GateSteps, AfterRead, AfterGate
  <2>2. /\ x \in Local /\ x.pc = pc /\ x.mayPost = worker[w].mayPost
        /\ x.item = worker[w].item /\ x.token = worker[w].token
        /\ x.desired = worker[w].desired /\ x.posted = worker[w].posted
    BY <1>2, <2>1 DEF Local
  <2>3. Become(w, x) /\ UNCHANGED gate
    BY <1>4 DEF store
  <2> HIDE DEF x
  <2> QED
    BY <1>1, <1>2, <1>4, <2>1, <2>2, <2>3, PublishContinues
<1>5. CASE ExpireSuccess(GateLease(w), worker[w].posted) /\ Become(w, Done(w))
  <2>1. worker[w].posted \in Ids \cup {0}
    BY <1>2 DEF Local, AnyId
  <2>2. Other
    BY <1>2, <1>5, <2>1 DEF Other, GateOperation
  <2> QED
    BY <1>1, <1>5, <2>2, Rests
<1>6. \/ Become(w, Done(w)) /\ UNCHANGED store
      \/ \E pc \in {"pub_write", "pub_find", "pub_pair", "pub_supersede"} :
            /\ Become(w, [worker[w] EXCEPT !.pc = pc]) /\ UNCHANGED store
            /\ pc = "pub_supersede" => worker[w].posted # 0
      \/ ExpireSuccess(GateLease(w), worker[w].posted) /\ Become(w, Done(w))
  <2>1. WriteStep(worker[w].run) \in {"pub_write", "pub_find"}
    BY DEF WriteStep
  <2>2. ASSUME UNCHANGED store,
               Become(w, [worker[w] EXCEPT !.pc = WriteStep(worker[w].run)])
        PROVE  \E pc \in {"pub_write", "pub_find", "pub_pair", "pub_supersede"} :
                  /\ Become(w, [worker[w] EXCEPT !.pc = pc]) /\ UNCHANGED store
                  /\ pc = "pub_supersede" => worker[w].posted # 0
    BY <2>1, <2>2
  <2>3. \/ /\ UNCHANGED store
           /\ Become(w, [worker[w] EXCEPT !.pc = WriteStep(worker[w].run)])
        \/ /\ UNCHANGED store
           /\ Become(w, [worker[w] EXCEPT !.pc = "pub_pair"])
        \/ /\ UNCHANGED store
           /\ Become(w, Done(w))
        \/ /\ UNCHANGED store /\ worker[w].posted # 0
           /\ Become(w, [worker[w] EXCEPT !.pc = "pub_supersede"])
        \/ ExpireSuccess(GateLease(w), worker[w].posted) /\ Become(w, Done(w))
    BY DEF PublishAuthorize, Branch, Return
  <2> QED
    BY <2>2, <2>3
<1> QED
  BY <1>3, <1>4, <1>5, <1>6

\* findCheckRun
LEMMA PublishFindStep ==
    ASSUME WorkerInv, NEW w \in Workers, PublishFind(w)
    PROVE  UNCHANGED store /\ Advances(w)
<1>1. worker[w].pc \in AfterRead /\ UNCHANGED store /\ UNCHANGED gate
  BY DEF PublishFind, At, AfterRead, AfterGate, store
<1>2. worker[w] \in Local /\ Len(runs) \in Nat
  BY DEF WorkerInv, GithubType
<1> DEFINE found == {i \in 1 .. Len(runs) : /\ runs[i].head = gate[ItemGate(w)].head
                                           /\ runs[i].ext = External(w)}
<1>3. PICK id \in found \cup {0} :
          Become(w, [worker[w] EXCEPT !.pc = "pub_write", !.run = id])
  BY DEF PublishFind
<1>4. id \in Nat
  BY <1>2
<1> DEFINE x == [worker[w] EXCEPT !.pc = "pub_write", !.run = id]
<1>5. "pub_write" \in Steps
  BY DEF Steps, GateSteps, AfterGate
<1>6. /\ x \in Local /\ x.pc = "pub_write" /\ x.mayPost = worker[w].mayPost
      /\ x.item = worker[w].item /\ x.token = worker[w].token
      /\ x.desired = worker[w].desired
  BY <1>2, <1>4, <1>5 DEF Local
<1>7. Become(w, x)
  BY <1>3
<1> HIDE DEF x
<1> QED
  BY <1>1, <1>6, <1>7, PublishContinues DEF AfterRead, AfterGate

\* Replacing an element of a sequence, if it is there.
LEMMA Patched ==
    ASSUME NEW S, NEW s \in Seq(S), NEW i, NEW e, i \in 1 .. Len(s) => e \in S
    PROVE  [s EXCEPT ![i] = e] \in Seq(S)
<1>1. CASE i \in 1 .. Len(s)
  BY <1>1, ExceptSeq
<1>2. CASE i \notin 1 .. Len(s)
  <2>1. [s EXCEPT ![i] = e] = s
    BY <1>2, LenProperties
  <2> QED
    BY <2>1
<1> QED
  BY <1>1, <1>2

\* The check runs stay well typed, whether or not the response arrives.
LEMMA WriteRunType ==
    ASSUME WorkerInv, NEW w \in Workers, worker[w].pc = "pub_write", WriteRun(w)
    PROVE  runs' \in Seq(Run)
<1>1. worker[w].pc \in AfterRead
  BY DEF AfterRead, AfterGate
<1>2. /\ ItemGate(w) \in GateId /\ ItemRevision(w) \in Nat /\ runs \in Seq(Run)
      /\ gate[ItemGate(w)] \in GateRow /\ worker[w].desired \in GateStates
  BY <1>1, PublishKnows, PublishLease DEF WorkerInv, GithubType
<1> DEFINE ext == External(w)  state == worker[w].desired  head == gate[ItemGate(w)].head
           run == worker[w].run
<1>3. ext \in GateId \X Nat /\ head \in Heads \cup {None} /\ state \in GateStates
  BY <1>2 DEF External, GateRow
<1>4. CASE run = 0
  <2>1. runs' = Append(runs, [head |-> head, ext |-> ext, state |-> state])
    BY <1>4 DEF WriteRun
  <2> HIDE DEF ext, state, head
  <2>2. [head |-> head, ext |-> ext, state |-> state] \in Run
    BY <1>3 DEF Run
  <2> QED
    BY <1>2, <2>1, <2>2, AppendProperties
<1>5. CASE run # 0
  <2> DEFINE one == [runs EXCEPT ![run].ext = ext]
             old == runs[run]
             a == [old EXCEPT !.ext = ext]
             patched == one[run]
             b == [patched EXCEPT !.state = state]
  <2>1. runs' = [one EXCEPT ![run] = b]
    BY <1>5 DEF WriteRun
  <2>2. one = [runs EXCEPT ![run] = a]
    OBVIOUS
  <2> HIDE DEF ext, state, one, run
  <2>3. run \in 1 .. Len(runs) => a \in Run
    <3>1. run \in 1 .. Len(runs) => old \in Run
      BY <1>2, ElementOfSeq
    <3> HIDE DEF old
    <3> QED
      BY <1>3, <3>1 DEF Run
  <2> HIDE DEF a
  <2>4. one \in Seq(Run)
    BY <1>2, <2>2, <2>3, Patched
  <2>5. run \in 1 .. Len(one) => b \in Run
    <3>1. run \in 1 .. Len(one) => patched \in Run
      BY <2>4, ElementOfSeq
    <3> HIDE DEF patched
    <3> QED
      BY <1>3, <3>1 DEF Run
  <2> HIDE DEF b
  <2> QED
    BY <2>1, <2>4, <2>5, Patched
<1> QED
  BY <1>4, <1>5

\* POST or PATCH
LEMMA PublishWriteStep ==
    ASSUME WorkerInv, NEW w \in Workers, PublishWrite(w)
    PROVE  Works(w)
<1> DEFINE posted == IF worker[w].run = 0 THEN Len(runs) + 1 ELSE worker[w].run
           pc == IF PublishesSuccess(w) THEN "pub_authorize" ELSE "pub_commit"
           x == [worker[w] EXCEPT !.posted = posted, !.pc = pc]
<1>1. /\ worker[w].pc = "pub_write" /\ worker[w].pc \in AfterRead
      /\ UNCHANGED store /\ UNCHANGED gate /\ Become(w, x) /\ WriteRun(w)
      /\ UNCHANGED <<live, past, comments, clock>>
  BY DEF PublishWrite, At, AfterRead, AfterGate, store
<1>2. worker[w] \in Local /\ Len(runs) \in Nat
  BY DEF WorkerInv, GithubType
<1>3. posted \in Nat /\ posted # 0
  BY <1>2 DEF Local
<1>4. /\ pc \in Steps /\ pc \in AfterRead
      /\ pc \in {"pub_authorize", "pub_commit"}
      /\ pc = "pub_authorize" => worker[w].desired = "success"
  BY DEF Steps, GateSteps, AfterGate, AfterRead, PublishesSuccess
<1> HIDE DEF posted, pc
<1>5. /\ x \in Local /\ x.pc = pc /\ x.mayPost = worker[w].mayPost
      /\ x.item = worker[w].item /\ x.token = worker[w].token
      /\ x.desired = worker[w].desired /\ x.posted = posted
  BY <1>2, <1>3, <1>4 DEF Local
<1> HIDE DEF x
<1>6. Advances(w)
  BY <1>1, <1>3, <1>4, <1>5, PublishContinues
<1>7. GithubType'
  BY <1>1, WriteRunType DEF GithubType, WorkerInv
<1> QED
  BY <1>1, <1>6, <1>7 DEF Works

\* rejectGatePublication, commitGatePublication and supersedeStaleGatePublication
LEMMA PublishRejectStep ==
    ASSUME WorkerInv, NEW w \in Workers, PublishReject(w), AnyId
    PROVE  (Other \/ UNCHANGED store) /\ Advances(w)
<1>1. worker[w].pc = "pub_reject" /\ worker[w].pc \in AfterRead
      /\ worker \in [Workers -> Local] /\ Become(w, Done(w))
  BY DEF PublishReject, At, AfterRead, AfterGate, WorkerInv, Return
<1>2. /\ worker[w].desired = "success" /\ worker[w] \in Local
      /\ GateLease(w) \in GateLeases /\ GateLease(w).gate = ItemGate(w)
      /\ GateLease(w).revision = ItemRevision(w)
      /\ gate[ItemGate(w)].revision = ItemRevision(w) =>
            gate[ItemGate(w)].desired = worker[w].desired
  BY <1>1, PublishKnows, PublishLease
<1>3. Advances(w)
  BY <1>1, Rests
<1>4. CASE RejectGatePublication(GateLease(w), worker[w].posted)
  <2>1. gate[GateLease(w).gate].desired = "success"
    BY <1>2, <1>4 DEF RejectGatePublication, HoldsGate
  <2>2. worker[w].posted \in Ids \cup {0}
    BY <1>2 DEF Local, AnyId
  <2>3. Other
    BY <1>2, <1>4, <2>1, <2>2 DEF Other, GateOperation
  <2> QED
    BY <1>3, <2>3
<1> QED
  BY <1>3, <1>4 DEF PublishReject

LEMMA PublishCommitStep ==
    ASSUME WorkerInv, NEW w \in Workers, PublishCommit(w), AnyId
    PROVE  (Other \/ UNCHANGED store) /\ Advances(w)
<1>1. worker[w].pc = "pub_commit" /\ worker[w].pc \in AfterRead
      /\ worker \in [Workers -> Local]
  BY DEF PublishCommit, At, AfterRead, AfterGate, WorkerInv
<1>2. /\ worker[w] \in Local /\ worker[w].posted # 0
      /\ GateLease(w) \in GateLeases /\ GateLease(w).gate = ItemGate(w)
      /\ GateLease(w).revision = ItemRevision(w)
      /\ gate[ItemGate(w)].revision = ItemRevision(w) =>
            gate[ItemGate(w)].desired = worker[w].desired
  BY <1>1, PublishKnows, PublishLease
<1>3. CASE /\ CommitGatePublication(GateLease(w), worker[w].posted, worker[w].desired)
           /\ Become(w, Done(w))
  <2>1. gate[GateLease(w).gate].desired = worker[w].desired
    BY <1>2, <1>3 DEF CommitGatePublication, HoldsGate
  <2>2. worker[w].posted \in Ids
    BY <1>2 DEF Local, AnyId
  <2>3. Other
    BY <1>2, <1>3, <2>1, <2>2 DEF Other, GateOperation
  <2> QED
    BY <1>1, <1>3, <2>3, Rests
<1>4. CASE Become(w, [worker[w] EXCEPT !.pc = "pub_supersede"]) /\ UNCHANGED store
  <2> DEFINE x == [worker[w] EXCEPT !.pc = "pub_supersede"]
  <2>1. "pub_supersede" \in Steps
    BY DEF Steps, GateSteps, AfterGate
  <2>2. /\ x \in Local /\ x.pc = "pub_supersede" /\ x.mayPost = worker[w].mayPost
        /\ x.item = worker[w].item /\ x.token = worker[w].token
        /\ x.desired = worker[w].desired /\ x.posted = worker[w].posted
    BY <1>2, <2>1 DEF Local
  <2>3. Become(w, x) /\ UNCHANGED gate
    BY <1>4 DEF store
  <2> HIDE DEF x
  <2>4. Advances(w)
    BY <1>1, <1>2, <2>2, <2>3, PublishContinues DEF AfterRead, AfterGate
  <2> QED
    BY <1>4, <2>4
<1> QED
  BY <1>3, <1>4 DEF PublishCommit, Return, Goto

LEMMA PublishSupersedeStep ==
    ASSUME WorkerInv, NEW w \in Workers, PublishSupersede(w), AnyId
    PROVE  (Other \/ UNCHANGED store) /\ Advances(w)
<1>1. worker[w].pc = "pub_supersede" /\ worker[w].pc \in AfterRead
      /\ worker \in [Workers -> Local] /\ Become(w, Done(w))
  BY DEF PublishSupersede, At, AfterRead, AfterGate, WorkerInv, Return
<1>2. worker[w] \in Local /\ worker[w].posted # 0 /\ GateLease(w) \in GateLeases
  BY <1>1, PublishKnows, PublishLease
<1>3. worker[w].posted \in Ids
  BY <1>2 DEF Local, AnyId
<1>4. Other
  BY <1>2, <1>3 DEF PublishSupersede, Other, GateOperation
<1> QED
  BY <1>1, <1>4, Rests

\* publishGate
LEMMA PublishWorks ==
    ASSUME WorkerInv, NEW w \in Workers, PublishStep(w), AnyId
    PROVE  Works(w)
<1>1. CASE PublishWrite(w)
  BY <1>1, PublishWriteStep
<1>2. CASE ~PublishWrite(w)
  <2>1. GithubType' /\ comments' = comments
    <3>1. UNCHANGED github
      BY <1>2 DEF PublishStep, PublishAcquire, PublishHeld, PublishRead, PublishLoadPair,
           PublishCheckLive, PublishAuthorize, PublishFind, PublishReject, PublishCommit,
           PublishSupersede
    <3> QED
      BY <3>1, GithubStill
  <2>2. (Other \/ UNCHANGED store) /\ Advances(w)
    BY <1>2, PublishAcquireStep, PublishHeldStep, PublishReadStep, PublishLoadPairStep,
       PublishCheckLiveStep, PublishAuthorizeStep, PublishFindStep, PublishRejectStep,
       PublishCommitStep, PublishSupersedeStep DEF PublishStep
  <2> QED
    BY <2>1, <2>2 DEF Works
<1> QED
  BY <1>1, <1>2

-----------------------------------------------------------------------------
(* Under a pair lease.                                                     *)

\* The lease of an evaluation or a dispatch is one that the store granted.
LEMMA PairWorker ==
    ASSUME WorkerInv, NEW w \in Workers, worker[w].pc \in AfterPair
    PROVE  /\ worker[w] \in Local /\ TypeOK
           /\ ItemPair(w) \in PairId /\ ItemEpoch(w) \in Epochs
           /\ ItemId(w) \in EpochId
           /\ pair[ItemPair(w)] \in PairRow /\ pair[ItemPair(w)].epoch > 0
           /\ worker[w].token <= pair[ItemPair(w)].fence
           /\ PairLease(w) \in PairLeases
           /\ PairLease(w).pair = ItemPair(w) /\ PairLease(w).epoch = ItemEpoch(w)
           /\ PairLease(w).fence = worker[w].token /\ PairLease(w).worker = w
<1>1. worker[w] \in Local /\ WorkerPart(w) /\ TypeOK
  BY DEF WorkerInv, HistoryInv, SafeInv
<1>2. /\ ItemPair(w) \in PairId /\ ItemEpoch(w) \in Epochs
      /\ pair[ItemPair(w)].epoch > 0 /\ worker[w].token <= pair[ItemPair(w)].fence
  BY <1>1 DEF WorkerPart, PairPart, PairSteps
<1>3. pair[ItemPair(w)] \in PairRow /\ pair[ItemPair(w)].fence \in Nat
      /\ worker[w].token \in Nat
  BY <1>1, <1>2 DEF TypeOK, PairRow, Local
<1>4. worker[w].token \in 0 .. pair[ItemPair(w)].fence
  BY <1>2, <1>3
<1>5. /\ PairLease(w).pair = ItemPair(w) /\ PairLease(w).epoch = ItemEpoch(w)
      /\ PairLease(w).fence = worker[w].token /\ PairLease(w).worker = w
      /\ PairLease(w) \in [pair : {ItemPair(w)}, epoch : Epochs,
                            fence : 0 .. pair[ItemPair(w)].fence, worker : Workers]
  BY <1>2, <1>4 DEF PairLease
<1>6. PairLease(w) \in PairLeases
  BY <1>2, <1>5 DEF PairLeases
<1>7. ItemId(w) \in EpochId
  BY <1>2 DEF ItemId, EpochId
<1> QED
  BY <1>1, <1>2, <1>3, <1>5, <1>6, <1>7

\* Under the lease, from one step to the next.
LEMMA PairContinues ==
    ASSUME WorkerInv, NEW w \in Workers, worker[w].pc \in AfterPair, UNCHANGED pair,
           NEW x \in Local, Become(w, x), x.pc \in AfterPair,
           x.item = worker[w].item, x.token = worker[w].token,
           x.pc \in Decided => x.desired \in {"pending", "success", "failure"},
           x.pc = "disp_reject" => x.desired = "failure",
           x.pc \in {"disp_live", "eval_evidence"} => x.disp \in DispatchRow,
           x.pc \in {"disp_live2", "disp_adopt"} => x.comment \in 1 .. Len(comments')
    PROVE  /\ PairPart(w)' /\ worker'[w] = x /\ worker' \in [Workers -> Local]
           /\ \A v \in Workers : v # w => worker'[v] = worker[v]
           /\ ItemPair(w)' = ItemPair(w) /\ ItemEpoch(w)' = ItemEpoch(w)
           /\ ItemId(w)' = ItemId(w)
           /\ Unfenced(w)' <=> Unfenced(w)
<1>1. worker \in [Workers -> Local]
  BY DEF WorkerInv
<1>2. /\ worker'[w] = x /\ worker' \in [Workers -> Local]
      /\ \A v \in Workers : v # w => worker'[v] = worker[v]
  BY <1>1, Becomes
<1>3. /\ ItemPair(w)' = ItemPair(w) /\ ItemEpoch(w)' = ItemEpoch(w)
      /\ ItemId(w)' = ItemId(w)
  BY <1>2 DEF ItemPair, ItemEpoch, ItemId
<1>4. Unfenced(w)' <=> Unfenced(w)
  BY <1>2, <1>3 DEF Unfenced
<1>5. PairPart(w)'
  BY <1>2, <1>3, PairWorker DEF PairPart
<1> QED
  BY <1>2, <1>3, <1>4, <1>5

\* The steps of dispatchReview under its lease.
DispatchSteps == {"disp_reload", "disp_live", "disp_reject", "disp_plan", "disp_replan",
                  "disp_renew", "disp_begin", "disp_find", "disp_post", "disp_live2",
                  "disp_adopt"}

LEMMA DispatchContinues ==
    ASSUME WorkerInv, NEW w \in Workers, worker[w].pc \in AfterPair, UNCHANGED pair,
           NEW x \in Local, Become(w, x), x.pc \in DispatchSteps,
           x.item = worker[w].item, x.token = worker[w].token,
           x.pc = "disp_reject" => x.desired = "failure",
           x.pc = "disp_live" => x.disp \in DispatchRow,
           x.pc \in {"disp_live2", "disp_adopt"} => x.comment \in 1 .. Len(comments'),
           x.pc = "disp_post" => x.mayPost,
           x.mayPost => x.pc \in {"disp_find", "disp_post", "disp_live2", "disp_adopt",
                                  "disp_reject"},
           (x.mayPost /\ x.pc \in {"disp_find", "disp_post"}) => Posting(w)
    PROVE  Advances(w)
<1>1. /\ x.pc \in AfterPair /\ x.pc \in PairSteps
      /\ x.pc \in Decided => x.desired \in {"pending", "success", "failure"}
      /\ x.pc \in {"disp_live", "eval_evidence"} => x.disp \in DispatchRow
      /\ x.pc \notin {"eval_dispatch", "eval_evidence", "eval_live", "eval_commit"}
  BY DEF DispatchSteps, AfterPair, PairSteps, Decided
<1>2. /\ PairPart(w)' /\ worker'[w] = x /\ worker' \in [Workers -> Local]
      /\ \A v \in Workers : v # w => worker'[v] = worker[v]
      /\ ItemId(w)' = ItemId(w)
  BY <1>1, PairContinues
<1>3. ReviewPart(w)' /\ PostPart(w)'
  BY <1>1, <1>2 DEF ReviewPart, PostPart
<1>4. WorkerPart(w)'
  BY <1>1, <1>2, <1>3, AtPair
<1> QED
  BY <1>2, <1>4 DEF Advances, Posting

\* The steps of evaluatePair under its lease.
EvaluateSteps == {"eval_pair", "eval_dispatch", "eval_evidence", "eval_live", "eval_commit"}

LEMMA EvaluateContinues ==
    ASSUME WorkerInv, NEW w \in Workers, worker[w].pc \in AfterPair, UNCHANGED pair,
           NEW x \in Local, Become(w, x), x.pc \in EvaluateSteps,
           x.item = worker[w].item, x.token = worker[w].token, ~x.mayPost,
           x.pc \in {"eval_live", "eval_commit"} =>
               x.desired \in {"pending", "success", "failure"},
           x.pc = "eval_evidence" => x.disp \in DispatchRow,
           ReviewPart(w)'
    PROVE  Advances(w)
<1>1. /\ x.pc \in AfterPair /\ x.pc \in PairSteps
      /\ x.pc \in Decided => x.desired \in {"pending", "success", "failure"}
      /\ x.pc \in {"disp_live", "eval_evidence"} => x.disp \in DispatchRow
      /\ x.pc \notin {"disp_live2", "disp_adopt", "disp_post", "disp_reject"}
  BY DEF EvaluateSteps, AfterPair, PairSteps, Decided
<1>2. /\ PairPart(w)' /\ worker'[w] = x /\ worker' \in [Workers -> Local]
      /\ \A v \in Workers : v # w => worker'[v] = worker[v]
  BY <1>1, PairContinues
<1>3. PostPart(w)' /\ ~Posting(w)'
  BY <1>1, <1>2 DEF PostPart, Posting
<1>4. WorkerPart(w)'
  BY <1>1, <1>2, <1>3, AtPair
<1> QED
  BY <1>2, <1>3, <1>4 DEF Advances

\* acquirePairLease
LEMMA AcquireStep ==
    ASSUME WorkerInv, NEW w \in Workers,
           worker[w].pc \in {"eval_acquire", "disp_acquire"},
           NEW next \in {"eval_pair", "disp_reload"}, NEW held \in {"eval_held", "disp_held"},
           AcquireOr(w, next, held)
    PROVE  (Other \/ UNCHANGED store) /\ Advances(w)
<1> DEFINE p == ItemPair(w)  e == ItemEpoch(w)
<1>1. worker[w] \in Local /\ WorkerPart(w) /\ TypeOK /\ worker \in [Workers -> Local]
  BY DEF WorkerInv, HistoryInv, SafeInv
<1>2. p \in PairId /\ e \in Epochs /\ ~worker[w].mayPost
  BY <1>1 DEF WorkerPart, PairPart, PairSteps, PostPart
<1>3. pair[p] \in PairRow /\ pair[p].fence \in Nat
  BY <1>1, <1>2 DEF TypeOK, PairRow
<1>4. next \in Steps /\ held \in Steps /\ next \in PairSteps /\ held \in PairSteps
      /\ held \notin AfterPair
  BY DEF Steps, PairSteps, AfterPair, Decided
<1>5. ASSUME AcquirePairLease(p, e, w),
             Become(w, [worker[w] EXCEPT !.pc = next, !.token = pair[p].fence + 1])
      PROVE  Other /\ Advances(w)
  <2> DEFINE t == pair[p].fence + 1
             x == [worker[w] EXCEPT !.pc = next, !.token = t]
  <2>1. Other
    BY <1>2, <1>5 DEF Other
  <2>2. /\ pair'[p].fence = t /\ t \in Nat
        /\ pair'[p].epoch = e /\ e > 0
    <3>1. pair'[p].fence = pair[p].fence + 1 /\ SameInput(pair[p], pair'[p])
      BY <1>1, <1>2, <1>5, AcquirePairKept
    <3>2. pair[p].epoch = e
      BY <1>5 DEF AcquirePairLease, PairLeasable
    <3>3. e > 0
      BY <1>2, StoreAssumption DEF Epochs
    <3> QED
      BY <1>3, <3>1, <3>2, <3>3 DEF SameInput
  <2>3. Become(w, x)
    BY <1>5
  <2> HIDE DEF t
  <2>4. /\ x \in Local /\ x.pc = next /\ x.token = t
        /\ x.item = worker[w].item /\ ~x.mayPost
    BY <1>1, <1>2, <1>4, <2>2 DEF Local
  <2> HIDE DEF x
  <2>5. /\ worker'[w] = x /\ worker' \in [Workers -> Local]
        /\ \A v \in Workers : v # w => worker'[v] = worker[v]
    BY <1>1, <2>3, <2>4, Becomes
  <2>6. ItemPair(w)' = p /\ ItemEpoch(w)' = e
    BY <2>4, <2>5 DEF ItemPair, ItemEpoch
  <2>7. PairPart(w)'
    BY <1>2, <2>2, <2>4, <2>5, <2>6 DEF PairPart, Decided
  <2>8. ReviewPart(w)' /\ PostPart(w)' /\ ~Posting(w)'
    BY <2>4, <2>5 DEF ReviewPart, PostPart, Posting
  <2>9. WorkerPart(w)'
    BY <1>4, <2>4, <2>5, <2>7, <2>8, AtPair
  <2> QED
    BY <2>1, <2>5, <2>8, <2>9 DEF Advances
<1>6. ASSUME Become(w, [worker[w] EXCEPT !.pc = held]), UNCHANGED store
      PROVE  Advances(w)
  <2> DEFINE x == [worker[w] EXCEPT !.pc = held]
  <2>1. /\ x \in Local /\ x.pc = held /\ x.item = worker[w].item /\ ~x.mayPost
    BY <1>1, <1>2, <1>4 DEF Local
  <2>2. Become(w, x)
    BY <1>6
  <2> HIDE DEF x
  <2>3. /\ worker'[w] = x /\ worker' \in [Workers -> Local]
        /\ \A v \in Workers : v # w => worker'[v] = worker[v]
    BY <1>1, <2>1, <2>2, Becomes
  <2>4. ItemPair(w)' = p /\ ItemEpoch(w)' = e
    BY <2>1, <2>3 DEF ItemPair, ItemEpoch
  <2>5. PairPart(w)'
    BY <1>2, <1>4, <2>1, <2>3, <2>4 DEF PairPart, Decided
  <2>6. ReviewPart(w)' /\ PostPart(w)' /\ ~Posting(w)'
    BY <2>1, <2>3 DEF ReviewPart, PostPart, Posting
  <2>7. WorkerPart(w)'
    BY <1>4, <2>1, <2>3, <2>5, <2>6, AtPair
  <2> QED
    BY <2>3, <2>6, <2>7 DEF Advances
<1> QED
  BY <1>5, <1>6 DEF AcquireOr, Goto

-----------------------------------------------------------------------------
(* evaluatePair                                                            *)

\* The lease is held by another worker.
LEMMA EvaluateHeldStep ==
    ASSUME WorkerInv, NEW w \in Workers, EvaluateHeld(w)
    PROVE  UNCHANGED store /\ Advances(w)
<1>1. worker \in [Workers -> Local]
  BY DEF WorkerInv
<1>2. Become(w, Failed(w)) \/ Become(w, Done(w))
  BY DEF EvaluateHeld, Branch
<1> QED
  BY <1>1, <1>2, Rests DEF EvaluateHeld

\* The pair row is read ...
LEMMA EvaluateLoadPairStep ==
    ASSUME WorkerInv, NEW w \in Workers, EvaluateLoadPair(w)
    PROVE  UNCHANGED store /\ Advances(w)
<1> DEFINE row == pair[ItemPair(w)]
           x == [worker[w] EXCEPT !.pc = "eval_dispatch", !.snap = row]
<1>1. worker[w].pc = "eval_pair" /\ worker[w].pc \in AfterPair /\ UNCHANGED store
      /\ UNCHANGED pair /\ worker \in [Workers -> Local]
  BY DEF EvaluateLoadPair, At, AfterPair, store, WorkerInv
<1>2. worker[w] \in Local /\ row \in PairRow /\ ~worker[w].mayPost
  BY <1>1, PairWorker DEF WorkerInv, WorkerPart, PostPart
<1>3. CASE row.epoch = ItemEpoch(w)
  <2>1. Become(w, x)
    BY <1>3 DEF EvaluateLoadPair, Branch
  <2>2. "eval_dispatch" \in Steps
    BY DEF Steps, PairSteps, AfterPair
  <2>3. /\ x \in Local /\ x.pc = "eval_dispatch" /\ ~x.mayPost /\ x.snap = row
        /\ x.item = worker[w].item /\ x.token = worker[w].token
    <3> HIDE DEF row
    <3> QED
      BY <1>2, <2>2 DEF Local
  <2> HIDE DEF x
  <2>4. /\ x.pc \in AfterPair /\ x.pc \in EvaluateSteps
        /\ x.pc \notin Decided
    BY <2>3 DEF AfterPair, EvaluateSteps, Decided
  <2>5. worker'[w] = x /\ ItemPair(w)' = ItemPair(w) /\ ItemEpoch(w)' = ItemEpoch(w)
    BY <1>1, <2>1, <2>3, <2>4, PairContinues
  <2>6. ReviewPart(w)'
    BY <1>1, <1>2, <1>3, <2>3, <2>5 DEF ReviewPart, SameInput
  <2>7. Advances(w)
    BY <1>1, <2>1, <2>3, <2>4, <2>6, EvaluateContinues
  <2> QED
    BY <1>1, <2>7
<1>4. CASE row.epoch # ItemEpoch(w)
  BY <1>1, <1>4, Rests DEF EvaluateLoadPair, Branch
<1> QED
  BY <1>3, <1>4

\* ... then the dispatch row ...
LEMMA EvaluateLoadDispatchStep ==
    ASSUME WorkerInv, NEW w \in Workers, EvaluateLoadDispatch(w)
    PROVE  UNCHANGED store /\ Advances(w)
<1> DEFINE d == dispatch[ItemId(w)]
           x == [worker[w] EXCEPT !.pc = "eval_evidence", !.disp = d]
<1>1. worker[w].pc = "eval_dispatch" /\ worker[w].pc \in AfterPair /\ UNCHANGED store
      /\ UNCHANGED <<pair, dispatch>> /\ Become(w, x) /\ WorkerPart(w)
  BY DEF EvaluateLoadDispatch, At, AfterPair, store, WorkerInv, ItemId
<1>2. worker[w] \in Local /\ d \in DispatchRow /\ ~worker[w].mayPost
  BY <1>1, PairWorker DEF TypeOK, WorkerPart, PostPart
<1>3. "eval_evidence" \in Steps
  BY DEF Steps, PairSteps, AfterPair
<1>4. /\ x \in Local /\ x.pc = "eval_evidence" /\ ~x.mayPost /\ x.disp = d
      /\ x.item = worker[w].item /\ x.token = worker[w].token
      /\ x.snap = worker[w].snap
  <2> HIDE DEF d
  <2> QED
    BY <1>2, <1>3 DEF Local
<1> HIDE DEF x
<1>5. x.pc \in AfterPair /\ x.pc \in EvaluateSteps /\ x.pc \notin Decided
  BY <1>4 DEF AfterPair, EvaluateSteps, Decided
<1>6. /\ worker'[w] = x /\ ItemPair(w)' = ItemPair(w) /\ ItemEpoch(w)' = ItemEpoch(w)
      /\ ItemId(w)' = ItemId(w) /\ (Unfenced(w)' <=> Unfenced(w))
  BY <1>1, <1>2, <1>4, <1>5, PairContinues
<1>7. ReviewPart(w)'
  BY <1>1, <1>4, <1>6 DEF WorkerPart, ReviewPart
<1>8. Advances(w)
  BY <1>1, <1>2, <1>4, <1>5, <1>7, EvaluateContinues
<1> QED
  BY <1>1, <1>8

\* ... and the evidence, from which the decision is taken.
LEMMA EvaluateLoadEvidenceStep ==
    ASSUME WorkerInv, NEW w \in Workers, EvaluateLoadEvidence(w)
    PROVE  UNCHANGED store /\ Advances(w)
<1> DEFINE decision == Decide(w)
           pc == IF decision = "success" THEN "eval_live" ELSE "eval_commit"
           x == [worker[w] EXCEPT !.desired = decision, !.snap = None, !.disp = None,
                                  !.pc = pc]
           p == ItemPair(w)  e == ItemEpoch(w)
<1>1. worker[w].pc = "eval_evidence" /\ worker[w].pc \in AfterPair /\ UNCHANGED store
      /\ UNCHANGED <<pair, dispatch, evidence>> /\ Become(w, x) /\ WorkerPart(w)
  BY DEF EvaluateLoadEvidence, At, AfterPair, store, WorkerInv
<1>2. worker[w] \in Local /\ ~worker[w].mayPost
  BY <1>1, PairWorker DEF WorkerPart, PostPart
<1>3. decision \in {"pending", "success", "failure"}
  BY DecisionRange DEF Decide
<1>4. pc \in Steps /\ pc \in {"eval_live", "eval_commit"} /\ decision \in GateStates
  BY <1>3 DEF Steps, PairSteps, AfterPair, Decided, GateStates
<1>5. ASSUME Unfenced(w), decision = "success" PROVE Reviewed(p)
  <2> DEFINE read  == worker[w].disp
             d     == dispatch[ItemId(w)]
             dd    == [read EXCEPT !.late = d.late]
             fresh == [d EXCEPT !.late = FALSE]
             rows  == evidence[ItemId(w)]
             snap  == worker[w].snap
  <2>1. EvaluatePair(snap, dd, rows) = "success"
    BY <1>5 DEF Decide, ItemId
  <2>2. /\ SameInput(snap, pair[p]) /\ pair[p].epoch = e
        /\ read.state = "sent" => d.state = "sent" /\ d.dispatchedAt = read.dispatchedAt
        /\ read \in DispatchRow
    BY <1>1, <1>5 DEF WorkerPart, ReviewPart, PairPart
  <2>3. d \in DispatchRow
    BY <1>1, PairWorker DEF TypeOK
  <2>4. /\ dd.state = read.state /\ dd.dispatchedAt = read.dispatchedAt
        /\ fresh.state = d.state /\ fresh.dispatchedAt = d.dispatchedAt /\ ~fresh.late
    <3> HIDE DEF read, d
    <3> QED
      BY <2>2, <2>3 DEF DispatchRow
  <2>5. Reviewed(p) <=> EvaluatePair(pair[p], fresh, rows) = "success"
    BY <2>2 DEF Reviewed, EpochOf, ItemId
  <2> HIDE DEF read, d, dd, fresh, rows, snap
  <2> QED
    BY <2>1, <2>2, <2>4, <2>5, SuccessAgrees
<1> HIDE DEF pc, decision
<1>6. /\ x \in Local /\ x.pc = pc /\ ~x.mayPost /\ x.desired = decision
      /\ x.item = worker[w].item /\ x.token = worker[w].token
  BY <1>2, <1>4 DEF Local
<1> HIDE DEF x
<1>7. x.pc \in AfterPair /\ x.pc \in EvaluateSteps
  BY <1>4, <1>6 DEF AfterPair, EvaluateSteps, Decided
<1>8. /\ worker'[w] = x /\ ItemPair(w)' = ItemPair(w) /\ ItemEpoch(w)' = ItemEpoch(w)
      /\ ItemId(w)' = ItemId(w) /\ (Unfenced(w)' <=> Unfenced(w))
  BY <1>1, <1>3, <1>4, <1>6, <1>7, PairContinues
<1>9. Unfenced(w) => pair[p].epoch = e
  BY <1>1 DEF WorkerPart, ReviewPart
<1>10. Reviewed(p) => Reviewed(ItemPair(w))'
  BY <1>1, <1>8 DEF Reviewed, EpochOf
<1>11. ReviewPart(w)'
  BY <1>1, <1>4, <1>5, <1>6, <1>8, <1>9, <1>10 DEF ReviewPart
<1>12. Advances(w)
  BY <1>1, <1>3, <1>4, <1>6, <1>7, <1>11, EvaluateContinues
<1> QED
  BY <1>1, <1>12

\* The live pull request is compared before a success is committed.
LEMMA EvaluateCheckLiveStep ==
    ASSUME WorkerInv, NEW w \in Workers, EvaluateCheckLive(w)
    PROVE  UNCHANGED store /\ Advances(w)
<1> DEFINE desired == IF LiveMatches(ItemPair(w)) THEN worker[w].desired ELSE "failure"
           x == [worker[w] EXCEPT !.pc = "eval_commit", !.desired = desired]
           p == ItemPair(w)  e == ItemEpoch(w)
<1>1. worker[w].pc = "eval_live" /\ worker[w].pc \in AfterPair /\ UNCHANGED store
      /\ UNCHANGED <<pair, dispatch, evidence>> /\ WorkerPart(w)
  BY DEF EvaluateCheckLive, At, AfterPair, Decided, store, WorkerInv
<1>2. worker[w] \in Local /\ ~worker[w].mayPost
  BY <1>1, PairWorker DEF WorkerPart, PostPart
<1>3. Become(w, x)
  BY DEF EvaluateCheckLive
<1>4. /\ desired \in {"pending", "success", "failure"}
      /\ desired = "success" => worker[w].desired = "success"
  BY <1>1 DEF WorkerPart, PairPart, Decided
<1>5. desired \in GateStates /\ "eval_commit" \in Steps
  BY <1>4 DEF GateStates, Steps, PairSteps, AfterPair, Decided
<1> HIDE DEF desired
<1>6. /\ x \in Local /\ x.pc = "eval_commit" /\ ~x.mayPost /\ x.desired = desired
      /\ x.item = worker[w].item /\ x.token = worker[w].token
  BY <1>2, <1>5 DEF Local
<1> HIDE DEF x
<1>7. x.pc \in AfterPair /\ x.pc \in EvaluateSteps
  BY <1>6 DEF AfterPair, EvaluateSteps, Decided
<1>8. /\ worker'[w] = x /\ ItemPair(w)' = ItemPair(w) /\ ItemEpoch(w)' = ItemEpoch(w)
      /\ ItemId(w)' = ItemId(w) /\ (Unfenced(w)' <=> Unfenced(w))
  BY <1>1, <1>3, <1>4, <1>6, <1>7, PairContinues
<1>9. /\ Unfenced(w) => pair[p].epoch = e
      /\ (Unfenced(w) /\ desired = "success") => Reviewed(p)
  BY <1>1, <1>4 DEF WorkerPart, ReviewPart
<1>10. Reviewed(p) => Reviewed(ItemPair(w))'
  BY <1>1, <1>8 DEF Reviewed, EpochOf
<1>11. ReviewPart(w)'
  BY <1>1, <1>6, <1>8, <1>9, <1>10 DEF ReviewPart
<1>12. Advances(w)
  BY <1>1, <1>3, <1>4, <1>6, <1>7, <1>11, EvaluateContinues
<1> QED
  BY <1>1, <1>12

\* commitPairGate: a success is committed only if the rows back it.
LEMMA CommitIsBacked ==
    ASSUME WorkerInv, NEW w \in Workers, worker[w].pc \in {"eval_commit", "disp_reject"},
           CommitPairGate(PairLease(w), worker[w].desired), NEW g \in Bound(ItemPair(w)),
           gate'[g].desired = "success"
    PROVE  LET p == gate'[g].pair
               d == <<p, pair'[p].epoch>>
           IN  EvaluatePair(pair'[p], [dispatch'[d] EXCEPT !.late = FALSE],
                            evidence'[d]) = "success"
<1> DEFINE p == ItemPair(w)  e == ItemEpoch(w)  l == PairLease(w)
           state == Committed(<<p, e>>, worker[w].desired)
           d == [dispatch[<<p, e>>] EXCEPT !.late = FALSE]
<1>0. worker[w].pc \in AfterPair /\ WorkerPart(w) /\ SafeInv
  BY DEF AfterPair, Decided, WorkerInv, HistoryInv
<1>1. /\ p \in PairId /\ e \in Epochs /\ TypeOK /\ <<p, e>> \in EpochId
      /\ l.pair = p /\ l.epoch = e /\ l.fence = worker[w].token
      /\ pair[p] \in PairRow
  BY <1>0, PairWorker DEF ItemId
<1>2. pair[p].epoch = e /\ pair[p].fence = worker[w].token
  BY <1>1 DEF CommitPairGate, HoldsPair
<1>3. g \in GateId /\ gate[g].active /\ gate[g].pair = p /\ gate[g] \in GateRow
  BY <1>1 DEF Bound, BoundTo, TypeOK
<1>4. g.epoch = e
  BY <1>0, <1>1, <1>2, <1>3, BoundGate DEF GateOf
<1>5. gate'[g] = Revised(gate[g], state)
  BY <1>1, <1>3, <1>4 DEF CommitPairGate
<1>6. state = "success" /\ gate'[g].pair = p
  BY <1>3, <1>5, RevisionMoves
<1>7. worker[w].desired = "success"
  BY <1>6 DEF Committed
<1>8. Reviewed(p)
  BY <1>0, <1>2, <1>7 DEF WorkerPart, PairPart, ReviewPart, Unfenced
<1>9. EvaluatePair(pair[p], d, evidence[<<p, e>>]) = "success"
  BY <1>2, <1>8 DEF Reviewed, EpochOf
<1>10. /\ SameInput(pair[p], pair'[p]) /\ UNCHANGED <<dispatch, evidence>>
  BY <1>1, RowsKept DEF CommitPairGate, TypeOK
<1>11. pair'[p].epoch = e
  BY <1>2, <1>10 DEF SameInput
<1>12. ~d.late
  BY <1>1 DEF TypeOK, DispatchRow
<1>13. EvaluatePair(pair'[p], d, evidence[<<p, e>>]) = "success"
  <2> HIDE DEF d
  <2> QED
    BY <1>9, <1>10, <1>12, SuccessAgrees
<1> QED
  BY <1>6, <1>10, <1>11, <1>13

LEMMA CommitStep ==
    ASSUME WorkerInv, NEW w \in Workers, worker[w].pc \in {"eval_commit", "disp_reject"},
           CommitPairGate(PairLease(w), worker[w].desired), Become(w, Done(w)),
           UNCHANGED github
    PROVE  StoreNext /\ WorkerInv'
<1>0. worker[w].pc \in AfterPair /\ WorkerPart(w) /\ HistoryInv /\ SuccessIsBacked
      /\ PostInv /\ worker \in [Workers -> Local]
  BY DEF AfterPair, Decided, WorkerInv
<1>1. PairLease(w) \in PairLeases /\ TypeOK /\ PairLease(w).pair = ItemPair(w)
      /\ ItemPair(w) \in PairId
  BY <1>0, PairWorker
<1>2. worker[w].desired \in {"pending", "success", "failure"}
  BY <1>0 DEF WorkerPart, PairPart, Decided
<1>3. StoreNext
  BY <1>1, <1>2 DEF StoreNext, PairOperation
<1>4. HistoryInv' /\ TypeOK'
  BY <1>0, <1>3, NextHistory DEF HistoryInv, SafeInv
<1>5. Kept /\ \A g \in GateId : g \notin Bound(ItemPair(w)) => SuccessKept(g)
  BY <1>1, CommitKept
<1>6. SuccessIsBacked'
  <2> SUFFICES ASSUME NEW g \in GateId, gate'[g].desired = "success"
               PROVE  LET p == gate'[g].pair
                          d == <<p, pair'[p].epoch>>
                      IN  EvaluatePair(pair'[p], [dispatch'[d] EXCEPT !.late = FALSE],
                                       evidence'[d]) = "success"
    BY DEF SuccessIsBacked, EpochOf
  <2>1. CASE g \in Bound(ItemPair(w))
    BY <2>1, CommitIsBacked
  <2>2. CASE g \notin Bound(ItemPair(w))
    BY <1>0, <1>4, <1>5, <2>2, StillBackedAt
  <2> QED
    BY <2>1, <2>2
<1>7. Advances(w) /\ GithubType' /\ comments' = comments
  BY <1>0, Rests, GithubStill
<1>8. ASSUME NEW v \in Workers, v # w
      PROVE  /\ worker'[v] = worker[v] /\ WorkerPart(v)'
             /\ Posting(v)' => Posting(v) /\ ItemId(v)' = ItemId(v)
  <2>1. worker'[v] = worker[v] /\ worker[v] \in Local /\ WorkerPart(v)
    BY <1>7, <1>8 DEF Advances, WorkerInv
  <2>2. Len(comments) \in Nat /\ Len(comments) <= Len(comments')
    BY <1>7, PostTypes
  <2>3. WorkerPart(v)'
    BY <1>1, <1>4, <1>5, <1>7, <2>1, <2>2, Waiting
  <2> QED
    BY <2>1, <2>3 DEF Posting, ItemId, ItemPair, ItemEpoch
<1>9. \A v \in Workers : WorkerPart(v)'
  BY <1>7, <1>8 DEF Advances
<1>10. PostInv'
  BY <1>0, <1>5, <1>7, <1>8, PostTypes, NobodyPosts DEF Kept, Advances
<1> QED
  BY <1>3, <1>4, <1>6, <1>7, <1>9, <1>10 DEF WorkerInv, Advances

\* The decision is committed, or the lease was lost.
LEMMA CommitOrThrowStep ==
    ASSUME WorkerInv, NEW w \in Workers, worker[w].pc \in {"eval_commit", "disp_reject"},
           CommitOrThrow(w), UNCHANGED github
    PROVE  (StoreNext \/ UNCHANGED store) /\ WorkerInv'
<1>1. CASE CommitPairGate(PairLease(w), worker[w].desired) /\ Return(w)
  BY <1>1, CommitStep DEF Return
<1>2. CASE Throw(w) /\ UNCHANGED store
  <2>1. Advances(w)
    BY <1>2, Rests DEF Throw, WorkerInv
  <2> QED
    BY <1>2, <2>1, GithubStill, WorkerAdvances
<1> QED
  BY <1>1, <1>2 DEF CommitOrThrow

\* A step that works keeps the invariant.
LEMMA Worked ==
    ASSUME WorkerInv, NEW w \in Workers, Works(w)
    PROVE  (StoreNext \/ UNCHANGED store) /\ WorkerInv'
<1>1. WorkerInv'
  BY WorkerAdvances DEF Works
<1> QED
  BY <1>1, OtherIsStep DEF Works

\* evaluatePair
LEMMA EvaluateWorks ==
    ASSUME WorkerInv, NEW w \in Workers, EvaluateStep(w)
    PROVE  (StoreNext \/ UNCHANGED store) /\ WorkerInv'
<1>1. UNCHANGED github
  BY DEF EvaluateStep, EvaluateAcquire, EvaluateHeld, EvaluateLoadPair,
         EvaluateLoadDispatch, EvaluateLoadEvidence, EvaluateCheckLive, EvaluateCommit
<1>2. CASE EvaluateCommit(w)
  BY <1>1, <1>2, CommitOrThrowStep DEF EvaluateCommit, At
<1>3. CASE EvaluateAcquire(w)
  <2>1. (Other \/ UNCHANGED store) /\ Advances(w)
    BY <1>3, AcquireStep DEF EvaluateAcquire, At
  <2> QED
    BY <1>1, <2>1, GithubStill, Worked DEF Works
<1>4. CASE ~EvaluateCommit(w) /\ ~EvaluateAcquire(w)
  <2>1. UNCHANGED store /\ Advances(w)
    BY <1>4, EvaluateHeldStep, EvaluateLoadPairStep, EvaluateLoadDispatchStep,
       EvaluateLoadEvidenceStep, EvaluateCheckLiveStep DEF EvaluateStep
  <2> QED
    BY <1>1, <2>1, GithubStill, Worked DEF Works
<1> QED
  BY <1>2, <1>3, <1>4

-----------------------------------------------------------------------------
(* dispatchReview                                                          *)

\* A handler that has no lease yet.
LEMMA PairEnters ==
    ASSUME worker \in [Workers -> Local], NEW w \in Workers, NEW x \in Local, Become(w, x),
           x.pc \in PairSteps, x.pc \notin AfterPair, ~x.mayPost,
           x.item[2] \in PairId, x.item[3] \in Epochs
    PROVE  Advances(w)
<1>1. /\ worker'[w] = x /\ worker' \in [Workers -> Local]
      /\ \A v \in Workers : v # w => worker'[v] = worker[v]
  BY Becomes
<1>2. x.pc \notin Decided \cup {"disp_reject", "disp_live", "eval_evidence", "disp_live2",
                                "disp_adopt", "eval_dispatch", "eval_live", "eval_commit",
                                "disp_post"}
  BY DEF AfterPair, Decided
<1>3. PairPart(w)' /\ ReviewPart(w)' /\ PostPart(w)' /\ ~Posting(w)'
  BY <1>1, <1>2 DEF PairPart, ReviewPart, PostPart, Posting, ItemPair, ItemEpoch
<1>4. WorkerPart(w)'
  BY <1>1, <1>3, AtPair
<1> QED
  BY <1>1, <1>3, <1>4 DEF Advances

LEMMA DispatchLoadStep ==
    ASSUME WorkerInv, NEW w \in Workers, DispatchLoad(w)
    PROVE  UNCHANGED store /\ Advances(w)
<1> DEFINE x == [worker[w] EXCEPT !.pc = "disp_acquire"]
<1>1. worker[w] \in Local /\ WorkerPart(w) /\ worker \in [Workers -> Local]
      /\ worker[w].pc = "disp_load" /\ UNCHANGED store
  BY DEF WorkerInv, DispatchLoad, At
<1>2. ItemPair(w) \in PairId /\ ItemEpoch(w) \in Epochs /\ ~worker[w].mayPost
  BY <1>1 DEF WorkerPart, PairPart, PairSteps, PostPart
<1>3. Become(w, Done(w)) \/ Become(w, x)
  BY DEF DispatchLoad, Branch
<1>4. "disp_acquire" \in Steps
  BY DEF Steps, PairSteps
<1>5. /\ x \in Local /\ x.pc = "disp_acquire" /\ ~x.mayPost /\ x.item = worker[w].item
  BY <1>1, <1>2, <1>4 DEF Local
<1> HIDE DEF x
<1>6. x.pc \in PairSteps /\ x.pc \notin AfterPair
  BY <1>5 DEF PairSteps, AfterPair, Decided
<1>7. x.item[2] \in PairId /\ x.item[3] \in Epochs
  BY <1>2, <1>5 DEF ItemPair, ItemEpoch
<1> QED
  BY <1>1, <1>3, <1>5, <1>6, <1>7, Rests, PairEnters

LEMMA DispatchHeldStep ==
    ASSUME WorkerInv, NEW w \in Workers, DispatchHeld(w)
    PROVE  UNCHANGED store /\ Advances(w)
<1>1. worker \in [Workers -> Local]
  BY DEF WorkerInv
<1>2. Become(w, Failed(w)) \/ Become(w, Done(w))
  BY DEF DispatchHeld, Branch
<1> QED
  BY <1>1, <1>2, Rests DEF DispatchHeld

\* A read that leads to another step of the same handler.
LEMMA DispatchMoves ==
    ASSUME WorkerInv, NEW w \in Workers, worker[w].pc \in AfterPair, UNCHANGED pair,
           ~worker[w].mayPost, NEW disp \in DispatchRow \cup {None},
           NEW pc \in {"disp_live", "disp_plan", "disp_replan", "disp_renew", "disp_begin",
                       "disp_find"},
           pc = "disp_live" => disp \in DispatchRow,
           Become(w, [worker[w] EXCEPT !.pc = pc, !.disp = disp])
    PROVE  Advances(w)
<1> DEFINE x == [worker[w] EXCEPT !.pc = pc, !.disp = disp]
<1>1. worker[w] \in Local
  BY DEF WorkerInv
<1>2. pc \in Steps /\ pc \in DispatchSteps
      /\ pc \notin {"disp_reject", "disp_live2", "disp_adopt", "disp_post"}
  BY DEF Steps, PairSteps, AfterPair, DispatchSteps
<1>3. /\ x \in Local /\ x.pc = pc /\ ~x.mayPost /\ x.disp = disp
      /\ x.item = worker[w].item /\ x.token = worker[w].token
  BY <1>1, <1>2 DEF Local
<1>4. Become(w, x)
  OBVIOUS
<1> HIDE DEF x
<1> QED
  BY <1>2, <1>3, <1>4, DispatchContinues

\* Assigning no more than the step.
LEMMA DispatchGoes ==
    ASSUME WorkerInv, NEW w \in Workers, worker[w].pc \in AfterPair, UNCHANGED pair,
           ~worker[w].mayPost,
           NEW pc \in {"disp_plan", "disp_replan", "disp_renew", "disp_begin", "disp_find"},
           Become(w, [worker[w] EXCEPT !.pc = pc])
    PROVE  Advances(w)
<1>1. worker[w] \in Local
  BY DEF WorkerInv
<1>2. /\ [worker[w] EXCEPT !.pc = pc] = [worker[w] EXCEPT !.pc = pc, !.disp = worker[w].disp]
      /\ worker[w].disp \in DispatchRow \cup {None}
  BY <1>1 DEF Local
<1> QED
  BY <1>2, DispatchMoves

LEMMA DispatchReloadStep ==
    ASSUME WorkerInv, NEW w \in Workers, DispatchReload(w)
    PROVE  UNCHANGED store /\ Advances(w)
<1>1. worker[w].pc = "disp_reload" /\ worker[w].pc \in AfterPair /\ UNCHANGED store
      /\ UNCHANGED pair /\ worker \in [Workers -> Local] /\ WorkerPart(w)
  BY DEF DispatchReload, At, AfterPair, store, WorkerInv
<1>2. ItemDispatch(w) \in DispatchRow /\ ~worker[w].mayPost
  BY <1>1, PairWorker DEF ItemDispatch, ItemId, TypeOK, WorkerPart, PostPart
<1>3. \/ Become(w, [worker[w] EXCEPT !.pc = "disp_live", !.disp = ItemDispatch(w)])
      \/ Become(w, Done(w))
  BY DEF DispatchReload, Branch
<1> QED
  BY <1>1, <1>2, <1>3, Rests, DispatchMoves

\* The live pull request moved.
LEMMA RejectStep ==
    ASSUME WorkerInv, NEW w \in Workers, worker[w].pc \in AfterPair, UNCHANGED pair,
           Become(w, Reject(w))
    PROVE  Advances(w)
<1> DEFINE x == Reject(w)
<1>1. worker[w] \in Local
  BY DEF WorkerInv
<1>2. "disp_reject" \in Steps /\ "failure" \in GateStates
  BY DEF Steps, PairSteps, AfterPair, Decided, GateStates
<1>3. /\ x \in Local /\ x.pc = "disp_reject" /\ x.desired = "failure"
      /\ x.item = worker[w].item /\ x.token = worker[w].token
  BY <1>1, <1>2 DEF Local, Reject
<1> HIDE DEF x
<1>4. Become(w, x)
  BY DEF x
<1> QED
  BY <1>3, <1>4, DispatchContinues DEF DispatchSteps

LEMMA DispatchCheckLiveStep ==
    ASSUME WorkerInv, NEW w \in Workers, DispatchCheckLive(w)
    PROVE  UNCHANGED store /\ Advances(w)
<1> DEFINE next == DispatchStep[worker[w].disp.state]
<1>1. worker[w].pc = "disp_live" /\ worker[w].pc \in AfterPair /\ UNCHANGED store
      /\ UNCHANGED pair /\ worker \in [Workers -> Local] /\ WorkerPart(w)
  BY DEF DispatchCheckLive, At, AfterPair, store, WorkerInv
<1>2. worker[w].disp \in DispatchRow /\ ~worker[w].mayPost
  BY <1>1 DEF WorkerPart, PairPart, PostPart
<1>3. next \in {"disp_plan", "disp_renew", "disp_find", "complete"}
  <2>1. worker[w].disp.state \in {"none", "planned", "attempting", "sent", "abandoned"}
    BY <1>2 DEF DispatchRow
  <2>2. /\ DispatchStep["none"] = "disp_plan" /\ DispatchStep["planned"] = "disp_renew"
        /\ DispatchStep["attempting"] = "disp_find" /\ DispatchStep["sent"] = "complete"
        /\ DispatchStep["abandoned"] = "complete"
    BY DEF DispatchStep
  <2> QED
    BY <2>1, <2>2
<1>4. \/ Become(w, Reject(w))
      \/ Become(w, Done(w))
      \/ next # "complete" /\ Become(w, [worker[w] EXCEPT !.pc = next])
  BY DEF DispatchCheckLive
<1> HIDE DEF next
<1>5. CASE next # "complete" /\ Become(w, [worker[w] EXCEPT !.pc = next])
  BY <1>1, <1>2, <1>3, <1>5, DispatchGoes
<1> QED
  BY <1>1, <1>4, <1>5, Rests, RejectStep

\* GitHub's clock.
LEMMA StampType ==
    ASSUME GithubType, NEW t, Stamp(t)
    PROVE  clock' \in 0 .. MaxClock /\ clock' = t
<1>1. clock \in Nat /\ clock <= MaxClock
  BY WorkerAssumption DEF GithubType
<1> QED
  BY <1>1, WorkerAssumption DEF Stamp

LEMMA DispatchPlanStep ==
    ASSUME WorkerInv, NEW w \in Workers, DispatchPlan(w)
    PROVE  Works(w)
<1>1. worker[w].pc = "disp_plan" /\ worker[w].pc \in AfterPair
      /\ worker \in [Workers -> Local] /\ WorkerPart(w) /\ GithubType
      /\ UNCHANGED <<live, past, comments, runs>>
  BY DEF DispatchPlan, At, AfterPair, WorkerInv
<1>2. PairLease(w) \in PairLeases /\ ~worker[w].mayPost
  BY <1>1, PairWorker DEF WorkerPart, PostPart
<1>3. ASSUME NEW now \in Times, Stamp(now), PlanDispatch(PairLease(w), now),
             Become(w, [worker[w] EXCEPT !.pc = "disp_replan"])
      PROVE  Works(w)
  <2>1. Other /\ UNCHANGED pair
    BY <1>2, <1>3 DEF Other, PlanDispatch
  <2>2. Advances(w)
    BY <1>1, <1>2, <1>3, <2>1, DispatchGoes
  <2>3. GithubType'
    BY <1>1, <1>3, StampType DEF GithubType
  <2> QED
    BY <1>1, <2>1, <2>2, <2>3 DEF Works
<1>4. ASSUME Return(w), UNCHANGED <<store, clock>> PROVE Works(w)
  <2>1. Advances(w)
    BY <1>1, <1>4, Rests DEF Return
  <2> QED
    BY <1>1, <1>4, <2>1, GithubStill DEF Works, github
<1> QED
  BY <1>3, <1>4 DEF DispatchPlan, Goto

LEMMA DispatchReplanStep ==
    ASSUME WorkerInv, NEW w \in Workers, DispatchReplan(w)
    PROVE  UNCHANGED store /\ Advances(w)
<1>1. worker[w].pc = "disp_replan" /\ worker[w].pc \in AfterPair /\ UNCHANGED store
      /\ UNCHANGED pair /\ worker \in [Workers -> Local] /\ WorkerPart(w)
  BY DEF DispatchReplan, At, AfterPair, store, WorkerInv
<1>2. ItemDispatch(w) \in DispatchRow /\ ~worker[w].mayPost
  BY <1>1, PairWorker DEF ItemDispatch, ItemId, TypeOK, WorkerPart, PostPart
<1>3. \/ Become(w, [worker[w] EXCEPT !.pc = "disp_renew", !.disp = ItemDispatch(w)])
      \/ Become(w, Failed(w))
  BY DEF DispatchReplan, Branch
<1> QED
  BY <1>1, <1>2, <1>3, Rests, DispatchMoves

LEMMA DispatchRenewStep ==
    ASSUME WorkerInv, NEW w \in Workers, DispatchRenew(w)
    PROVE  UNCHANGED store /\ Advances(w)
<1>1. worker[w].pc = "disp_renew" /\ worker[w].pc \in AfterPair /\ UNCHANGED store
      /\ UNCHANGED pair /\ worker \in [Workers -> Local] /\ WorkerPart(w)
  BY DEF DispatchRenew, At, AfterPair, store, WorkerInv
<1>2. ~worker[w].mayPost
  BY <1>1 DEF WorkerPart, PostPart
<1>3. \/ Become(w, [worker[w] EXCEPT !.pc = "disp_begin"])
      \/ Become(w, Failed(w))
  BY DEF DispatchRenew, Branch
<1> QED
  BY <1>1, <1>2, <1>3, Rests, DispatchGoes

\* Putting the invariant together for a step after which something was, or
\* may be, posted.
LEMMA Assembled ==
    ASSUME WorkerInv, NEW w \in Workers, Other \/ UNCHANGED store,
           worker' \in [Workers -> Local],
           \A v \in Workers : v # w => worker'[v] = worker[v],
           WorkerPart(w)', GithubType', Len(comments) <= Len(comments'), PostInv'
    PROVE  WorkerInv'
<1>1. HistoryInv /\ SuccessIsBacked /\ \A v \in Workers : WorkerPart(v)
  BY DEF WorkerInv
<1>2. Steady /\ HistoryInv' /\ TypeOK /\ TypeOK'
  BY <1>1, OtherSteady
<1>3. SuccessIsBacked'
  BY <1>1, <1>2, StillBacked
<1>4. ASSUME NEW v \in Workers, v # w PROVE WorkerPart(v)'
  <2>1. worker'[v] = worker[v] /\ worker[v] \in Local
    BY <1>4 DEF WorkerInv
  <2>2. Len(comments) \in Nat /\ Len(comments') \in Nat
    BY DEF WorkerInv, GithubType
  <2> QED
    BY <1>1, <1>2, <2>1, <2>2, Waiting DEF Steady
<1> QED
  BY <1>2, <1>3, <1>4 DEF WorkerInv

\* beginDispatchAttempt: whoever opens the attempt is the only one to post.
LEMMA BeginStep ==
    ASSUME WorkerInv, NEW w \in Workers, worker[w].pc = "disp_begin",
           BeginDispatchAttempt(PairLease(w)),
           Become(w, [worker[w] EXCEPT !.pc = "disp_find", !.mayPost = TRUE]),
           UNCHANGED github
    PROVE  Other /\ WorkerInv'
<1> DEFINE x == [worker[w] EXCEPT !.pc = "disp_find", !.mayPost = TRUE]
           d == ItemId(w)
<1>1. worker[w].pc \in AfterPair /\ worker \in [Workers -> Local] /\ WorkerPart(w)
      /\ PostInv /\ worker[w] \in Local /\ comments \in Seq(Comment)
  BY DEF AfterPair, WorkerInv, GithubType
<1>2. PairLease(w) \in PairLeases /\ TypeOK /\ d \in EpochId
      /\ <<PairLease(w).pair, PairLease(w).epoch>> = d
  BY <1>1, PairWorker DEF ItemId
<1>3. Other /\ UNCHANGED pair
  BY <1>2 DEF Other, BeginDispatchAttempt
<1>4. dispatch[d].state = "planned" /\ dispatch' = [dispatch EXCEPT ![d].state = "attempting"]
  BY <1>2 DEF BeginDispatchAttempt, MayBegin
<1>5. ~Attempted(d) /\ dispatch'[d].state = "attempting"
  <2>1. dispatch[d] \in DispatchRow /\ dispatch'[d] = [dispatch[d] EXCEPT !.state = "attempting"]
    BY <1>2, <1>4 DEF TypeOK
  <2>2. dispatch'[d].state = "attempting"
    BY <2>1 DEF DispatchRow
  <2> HIDE DEF d
  <2> QED
    BY <1>4, <2>2 DEF Attempted
<1>6. "disp_find" \in Steps
  BY DEF Steps, PairSteps, AfterPair
<1>7. /\ x \in Local /\ x.pc = "disp_find" /\ x.mayPost
      /\ x.item = worker[w].item /\ x.token = worker[w].token
  BY <1>1, <1>6 DEF Local
<1>8. Become(w, x)
  OBVIOUS
<1> HIDE DEF x
<1>9. x.pc \in AfterPair /\ x.pc \in PairSteps /\ x.pc \notin Decided
  BY <1>7 DEF AfterPair, PairSteps, Decided
<1>10. /\ PairPart(w)' /\ worker'[w] = x /\ worker' \in [Workers -> Local]
       /\ \A v \in Workers : v # w => worker'[v] = worker[v]
       /\ ItemId(w)' = d
  BY <1>1, <1>3, <1>7, <1>8, <1>9, PairContinues
<1>11. WorkerPart(w)'
  <2>1. ReviewPart(w)' /\ PostPart(w)'
    BY <1>7, <1>10 DEF ReviewPart, PostPart
  <2> QED
    BY <1>7, <1>9, <1>10, <2>1, AtPair
<1>12. GithubType' /\ comments' = comments
  BY GithubStill
<1>13. Steady
  BY <1>3, OtherSteady DEF WorkerInv
<1>14. PostInv'
  <2> HIDE DEF d
  <2>1. ASSUME NEW v \in Workers, v # w, Posting(v)'
        PROVE  Posting(v) /\ ItemId(v)' = ItemId(v) /\ ItemId(v) # d
    <3>1. Posting(v) /\ ItemId(v)' = ItemId(v)
      BY <1>10, <2>1 DEF Posting, ItemId, ItemPair, ItemEpoch
    <3> QED
      BY <1>1, <1>5, <3>1 DEF PostInv
  <2>2. \A i \in 1 .. Len(comments) : comments[i].by \in EpochId /\ Attempted(comments[i].by)
    BY <1>1, PostTypes DEF PostInv
  <2>3. \A i \in 1 .. Len(comments') : Attempted(comments[i].by)'
    BY <1>12, <1>13, <2>2 DEF Steady, Kept, AttemptsKept, Attempted
  <2>4. ASSUME NEW v \in Workers, Posting(v)'
        PROVE  Attempted(ItemId(v))' /\ \A i \in 1 .. Len(comments') : comments'[i].by # ItemId(v)'
    <3>1. CASE v = w
      <4>1. ItemId(v)' = d
        BY <1>10, <3>1
      <4>2. Attempted(ItemId(v))'
        BY <1>5, <4>1 DEF Attempted
      <4> QED
        BY <1>5, <1>12, <2>2, <4>1, <4>2
    <3>2. CASE v # w
      <4>1. Posting(v) /\ ItemId(v)' = ItemId(v) /\ ItemId(v) \in EpochId
        BY <2>1, <2>4, <3>2, PostTypes
      <4>2. Attempted(ItemId(v)) /\ \A i \in 1 .. Len(comments) : comments[i].by # ItemId(v)
        BY <1>1, <4>1 DEF PostInv
      <4> QED
        BY <1>12, <1>13, <4>1, <4>2 DEF Steady, Kept, AttemptsKept, Attempted
    <3> QED
      BY <3>1, <3>2
  <2>5. ASSUME NEW u \in Workers, NEW v \in Workers, Posting(u)', Posting(v)',
               ItemId(u)' = ItemId(v)'
        PROVE  u = v
    <3>1. CASE u = w \/ v = w
      BY <1>10, <2>1, <2>5, <3>1
    <3>2. CASE u # w /\ v # w
      BY <1>1, <2>1, <2>5, <3>2 DEF PostInv
    <3> QED
      BY <3>1, <3>2
  <2>6. AtMostOnePost'
    BY <1>1, <1>12 DEF PostInv, AtMostOnePost
  <2> QED
    BY <1>12, <2>3, <2>4, <2>5, <2>6 DEF PostInv
<1>15. Len(comments) <= Len(comments')
  BY <1>1, <1>12
<1> QED
  BY <1>3, <1>10, <1>11, <1>12, <1>14, <1>15, Assembled

LEMMA DispatchBeginStep ==
    ASSUME WorkerInv, NEW w \in Workers, DispatchBegin(w)
    PROVE  (StoreNext \/ UNCHANGED store) /\ WorkerInv'
<1>1. worker[w].pc = "disp_begin" /\ UNCHANGED github
  BY DEF DispatchBegin, At
<1>2. CASE /\ BeginDispatchAttempt(PairLease(w))
           /\ Become(w, [worker[w] EXCEPT !.pc = "disp_find", !.mayPost = TRUE])
  BY <1>1, <1>2, BeginStep, OtherIsStep
<1>3. CASE Throw(w) /\ UNCHANGED store
  <2>1. Advances(w)
    BY <1>3, Rests DEF Throw, WorkerInv
  <2> QED
    BY <1>1, <1>3, <2>1, GithubStill, WorkerAdvances
<1> QED
  BY <1>2, <1>3 DEF DispatchBegin

\* findIssueComment: without a comment, only the owner of the attempt goes on.
LEMMA DispatchFindStep ==
    ASSUME WorkerInv, NEW w \in Workers, DispatchFind(w)
    PROVE  UNCHANGED store /\ Advances(w)
<1>1. worker[w].pc = "disp_find" /\ worker[w].pc \in AfterPair /\ UNCHANGED store
      /\ UNCHANGED pair /\ worker \in [Workers -> Local] /\ worker[w] \in Local
      /\ comments \in Seq(Comment) /\ comments' = comments
  BY DEF DispatchFind, At, AfterPair, store, WorkerInv, GithubType, github
<1>2. "disp_live2" \in Steps /\ "disp_post" \in Steps
  BY DEF Steps, PairSteps, AfterPair
<1>3. ASSUME NEW id \in 1 .. Len(comments),
             Become(w, [worker[w] EXCEPT !.pc = "disp_live2", !.comment = id, !.disp = None])
      PROVE  Advances(w)
  <2> DEFINE x == [worker[w] EXCEPT !.pc = "disp_live2", !.comment = id, !.disp = None]
  <2>1. id \in Nat
    BY <1>1
  <2>2. /\ x \in Local /\ x.pc = "disp_live2" /\ x.comment = id
        /\ x.item = worker[w].item /\ x.token = worker[w].token
    BY <1>1, <1>2, <2>1 DEF Local
  <2>3. Become(w, x)
    BY <1>3
  <2> HIDE DEF x
  <2> QED
    BY <1>1, <2>2, <2>3, DispatchContinues DEF DispatchSteps
<1>4. ASSUME worker[w].mayPost, Become(w, [worker[w] EXCEPT !.pc = "disp_post"])
      PROVE  Advances(w)
  <2> DEFINE x == [worker[w] EXCEPT !.pc = "disp_post"]
  <2>1. /\ x \in Local /\ x.pc = "disp_post" /\ x.mayPost
        /\ x.item = worker[w].item /\ x.token = worker[w].token
    BY <1>1, <1>2, <1>4 DEF Local
  <2>2. Become(w, x) /\ Posting(w)
    BY <1>1, <1>4 DEF Posting
  <2> HIDE DEF x
  <2> QED
    BY <1>1, <2>1, <2>2, DispatchContinues DEF DispatchSteps
<1>5. ASSUME NEW id \in Recovered(w) PROVE id \in 1 .. Len(comments)
  BY DEF Recovered, Recoverable
<1>6. \/ \E id \in Recovered(w) :
            Become(w, [worker[w] EXCEPT !.pc = "disp_live2", !.comment = id, !.disp = None])
      \/ worker[w].mayPost /\ Become(w, [worker[w] EXCEPT !.pc = "disp_post"])
      \/ Become(w, Failed(w))
  BY DEF DispatchFind, Branch, MayPost
<1> QED
  BY <1>1, <1>3, <1>4, <1>5, <1>6, Rests

\* createIssueComment
LEMMA PostType ==
    ASSUME WorkerInv, NEW w \in Workers, worker[w].pc = "disp_post", PostComment(w)
    PROVE  /\ comments' \in Seq(Comment) /\ clock' \in 0 .. MaxClock
           /\ Len(comments') = Len(comments) + 1
           /\ \A i \in 1 .. Len(comments) : comments'[i] = comments[i]
           /\ comments'[Len(comments) + 1].by = ItemId(w)
           /\ comments \in Seq(Comment) /\ Len(comments) \in Nat
<1>1. PICK t \in Times :
          /\ Stamp(t)
          /\ comments' = Append(comments, [pull |-> ItemPair(w).pull, at |-> t,
                                           by |-> ItemId(w)])
  BY DEF PostComment, ItemId
<1> DEFINE c == [pull |-> ItemPair(w).pull, at |-> t, by |-> ItemId(w)]
<1>2. worker[w].pc \in AfterPair /\ comments \in Seq(Comment) /\ GithubType
  BY DEF AfterPair, WorkerInv, GithubType
<1>3. ItemPair(w) \in PairId /\ ItemId(w) \in EpochId
  BY <1>2, PairWorker
<1>4. c \in Comment /\ c.by = ItemId(w)
  BY <1>3 DEF Comment, PairId
<1>5. comments' = Append(comments, c)
  BY <1>1
<1> HIDE DEF c
<1>6. clock' \in 0 .. MaxClock
  BY <1>1, <1>2, StampType
<1> QED
  BY <1>2, <1>4, <1>5, <1>6, AppendProperties

\* The command is posted for an epoch that has none, by its only poster.
LEMMA PostsOnce ==
    ASSUME WorkerInv, NEW w \in Workers, worker[w].pc = "disp_post", PostComment(w),
           UNCHANGED dispatch, ~Posting(w)',
           \A v \in Workers : v # w => worker'[v] = worker[v]
    PROVE  PostInv'
<1> DEFINE d == ItemId(w)  n == Len(comments)
<1>1. /\ Len(comments') = n + 1 /\ n \in Nat
      /\ \A i \in 1 .. n : comments'[i] = comments[i]
      /\ comments'[n + 1].by = d
  BY PostType
<1>2. Posting(w) /\ PostInv
  BY DEF WorkerInv, WorkerPart, PostPart, Posting
<1> HIDE DEF d, n
<1>3. /\ Attempted(d) /\ \A i \in 1 .. n : comments[i].by # d /\ Attempted(comments[i].by)
  BY <1>2 DEF PostInv, d, n
<1>4. \A i \in 1 .. n + 1 : i \in 1 .. n \/ i = n + 1
  BY <1>1
<1>5. ASSUME NEW v \in Workers, Posting(v)'
      PROVE  Posting(v) /\ ItemId(v)' = ItemId(v) /\ ItemId(v) # d /\ v # w
  <2>1. v # w
    BY <1>5
  <2>2. Posting(v) /\ ItemId(v)' = ItemId(v)
    BY <1>5, <2>1 DEF Posting, ItemId, ItemPair, ItemEpoch
  <2> QED
    BY <1>2, <2>1, <2>2 DEF PostInv, d
<1>6. ASSUME NEW i \in 1 .. Len(comments') PROVE Attempted(comments[i].by)'
  <2>1. CASE i \in 1 .. n
    BY <1>1, <1>3, <2>1 DEF Attempted
  <2>2. CASE i = n + 1
    BY <1>1, <1>3, <2>2 DEF Attempted
  <2> QED
    BY <1>1, <1>4, <2>1, <2>2
<1>7. ASSUME NEW v \in Workers, Posting(v)'
      PROVE  Attempted(ItemId(v))' /\ \A i \in 1 .. Len(comments') : comments'[i].by # ItemId(v)'
  <2>1. Posting(v) /\ ItemId(v)' = ItemId(v) /\ ItemId(v) # d
    BY <1>5, <1>7
  <2>2. Attempted(ItemId(v)) /\ \A i \in 1 .. n : comments[i].by # ItemId(v)
    BY <1>2, <2>1 DEF PostInv, n
  <2> QED
    BY <1>1, <1>4, <2>1, <2>2 DEF Attempted
<1>8. \A u, v \in Workers : (Posting(u)' /\ Posting(v)' /\ ItemId(u)' = ItemId(v)') => u = v
  BY <1>2, <1>5 DEF PostInv
<1>9. AtMostOnePost'
  <2> SUFFICES ASSUME NEW i \in 1 .. n + 1, NEW j \in 1 .. n + 1,
                      comments'[i].by = comments'[j].by
               PROVE  i = j
    BY <1>1 DEF AtMostOnePost
  <2>1. CASE i \in 1 .. n /\ j \in 1 .. n
    BY <1>1, <1>2, <2>1 DEF PostInv, AtMostOnePost, n
  <2>2. CASE i = n + 1 \/ j = n + 1
    BY <1>1, <1>3, <1>4, <2>2
  <2> QED
    BY <1>4, <2>1, <2>2
<1> QED
  BY <1>6, <1>7, <1>8, <1>9 DEF PostInv

LEMMA DispatchPostStep ==
    ASSUME WorkerInv, NEW w \in Workers, DispatchPost(w)
    PROVE  UNCHANGED store /\ WorkerInv'
<1> DEFINE id == Len(comments) + 1
           x == [worker[w] EXCEPT !.pc = "disp_live2", !.comment = id, !.disp = None]
<1>1. /\ worker[w].pc = "disp_post" /\ worker[w].pc \in AfterPair /\ PostComment(w)
      /\ UNCHANGED store /\ UNCHANGED <<pair, dispatch>> /\ Become(w, x)
      /\ UNCHANGED <<live, past, runs>> /\ worker[w] \in Local
  BY DEF DispatchPost, At, AfterPair, store, WorkerInv
<1>2. /\ comments' \in Seq(Comment) /\ clock' \in 0 .. MaxClock
      /\ Len(comments') = Len(comments) + 1 /\ Len(comments) \in Nat
  BY <1>1, PostType
<1>3. id \in Nat /\ id \in 1 .. Len(comments') /\ "disp_live2" \in Steps
  BY <1>2 DEF Steps, PairSteps, AfterPair
<1>4. Len(comments) <= Len(comments')
  BY <1>2
<1> HIDE DEF id
<1>5. /\ x \in Local /\ x.pc = "disp_live2" /\ x.comment = id
      /\ x.item = worker[w].item /\ x.token = worker[w].token
  BY <1>1, <1>3 DEF Local
<1> HIDE DEF x
<1>6. Advances(w)
  BY <1>1, <1>3, <1>5, DispatchContinues DEF DispatchSteps
<1>7. worker'[w] = x /\ ~Posting(w)'
  BY <1>1, <1>5, Becomes DEF WorkerInv, Posting
<1>8. PostInv'
  BY <1>1, <1>6, <1>7, PostsOnce DEF Advances
<1>9. GithubType'
  BY <1>1, <1>2 DEF WorkerInv, GithubType
<1> QED
  BY <1>1, <1>4, <1>6, <1>8, <1>9, Assembled DEF Advances

LEMMA DispatchRecheckLiveStep ==
    ASSUME WorkerInv, NEW w \in Workers, DispatchRecheckLive(w)
    PROVE  UNCHANGED store /\ Advances(w)
<1> DEFINE x == [worker[w] EXCEPT !.pc = "disp_adopt"]
<1>1. worker[w].pc = "disp_live2" /\ worker[w].pc \in AfterPair /\ UNCHANGED store
      /\ UNCHANGED pair /\ worker[w] \in Local /\ WorkerPart(w) /\ comments' = comments
  BY DEF DispatchRecheckLive, At, AfterPair, store, WorkerInv, github
<1>2. worker[w].comment \in 1 .. Len(comments) /\ "disp_adopt" \in Steps
  BY <1>1 DEF WorkerPart, PairPart, Steps, PairSteps, AfterPair
<1>3. /\ x \in Local /\ x.pc = "disp_adopt" /\ x.comment = worker[w].comment
      /\ x.item = worker[w].item /\ x.token = worker[w].token
  BY <1>1, <1>2 DEF Local
<1>4. Become(w, x) \/ Become(w, Reject(w))
  BY DEF DispatchRecheckLive, Branch
<1> HIDE DEF x
<1>5. CASE Become(w, x)
  BY <1>1, <1>2, <1>3, <1>5, DispatchContinues DEF DispatchSteps
<1> QED
  BY <1>1, <1>4, <1>5, RejectStep

LEMMA DispatchAdoptStep ==
    ASSUME WorkerInv, NEW w \in Workers, DispatchAdopt(w), AnyId
    PROVE  (Other \/ UNCHANGED store) /\ Advances(w)
<1>1. worker[w].pc = "disp_adopt" /\ worker[w].pc \in AfterPair /\ WorkerPart(w)
      /\ worker \in [Workers -> Local] /\ comments \in Seq(Comment)
  BY DEF DispatchAdopt, At, AfterPair, WorkerInv, GithubType
<1> DEFINE id == worker[w].comment
<1>2. id \in 1 .. Len(comments) /\ PairLease(w) \in PairLeases
  BY <1>1, PairWorker DEF WorkerPart, PairPart
<1>3. id \in Ids /\ comments[id].at \in Times
  <2>1. id \in Nat \ {0}
    BY <1>1, <1>2
  <2>2. comments[id] \in Comment
    BY <1>1, <1>2, ElementOfSeq
  <2> QED
    BY <2>1, <2>2 DEF AnyId, Comment
<1>4. CASE AdoptDispatch(PairLease(w), id, comments[id].at) /\ Return(w)
  <2>1. Other
    BY <1>2, <1>3, <1>4 DEF Other
  <2> QED
    BY <1>1, <1>4, <2>1, Rests DEF Return
<1>5. CASE Throw(w) /\ UNCHANGED store
  BY <1>1, <1>5, Rests DEF Throw
<1> QED
  BY <1>4, <1>5 DEF DispatchAdopt

\* dispatchReview
LEMMA DispatchWorks ==
    ASSUME WorkerInv, NEW w \in Workers, DispatchStepOf(w), AnyId
    PROVE  (StoreNext \/ UNCHANGED store) /\ WorkerInv'
<1>1. CASE DispatchReject(w)
  BY <1>1, CommitOrThrowStep DEF DispatchReject, At
<1>2. CASE DispatchPlan(w)
  BY <1>2, DispatchPlanStep, Worked
<1>3. CASE DispatchBegin(w)
  BY <1>3, DispatchBeginStep
<1>4. CASE DispatchPost(w)
  BY <1>4, DispatchPostStep
<1>5. CASE DispatchAcquire(w)
  <2>1. (Other \/ UNCHANGED store) /\ Advances(w) /\ UNCHANGED github
    BY <1>5, AcquireStep DEF DispatchAcquire, At
  <2> QED
    BY <2>1, GithubStill, Worked DEF Works
<1>6. CASE DispatchAdopt(w)
  <2>1. (Other \/ UNCHANGED store) /\ Advances(w) /\ UNCHANGED github
    BY <1>6, DispatchAdoptStep DEF DispatchAdopt
  <2> QED
    BY <2>1, GithubStill, Worked DEF Works
<1>7. CASE \/ DispatchLoad(w) \/ DispatchHeld(w) \/ DispatchReload(w) \/ DispatchCheckLive(w)
           \/ DispatchReplan(w) \/ DispatchRenew(w) \/ DispatchFind(w)
           \/ DispatchRecheckLive(w)
  <2>1. UNCHANGED store /\ Advances(w)
    BY <1>7, DispatchLoadStep, DispatchHeldStep, DispatchReloadStep, DispatchCheckLiveStep,
       DispatchReplanStep, DispatchRenewStep, DispatchFindStep, DispatchRecheckLiveStep
  <2>2. UNCHANGED github
    BY <1>7 DEF DispatchLoad, DispatchHeld, DispatchReload, DispatchCheckLive,
                DispatchReplan, DispatchRenew, DispatchFind, DispatchRecheckLive
  <2> QED
    BY <2>1, <2>2, GithubStill, Worked DEF Works
<1> QED
  BY <1>1, <1>2, <1>3, <1>4, <1>5, <1>6, <1>7 DEF DispatchStepOf

-----------------------------------------------------------------------------
(* reconcileRepository                                                     *)

LEMMA ReconcileBeginStep ==
    ASSUME WorkerInv, NEW w \in Workers, ReconcileBegin(w)
    PROVE  Other /\ Advances(w)
<1> DEFINE t == generation + 1
           x == [worker[w] EXCEPT !.pc = "rec_list", !.token = t]
<1>1. worker[w] \in Local /\ WorkerPart(w) /\ TypeOK /\ worker \in [Workers -> Local]
      /\ worker[w].pc = "rec_begin" /\ Become(w, x)
  BY DEF WorkerInv, HistoryInv, SafeInv, ReconcileBegin, At
<1>2. Other
  BY DEF ReconcileBegin, Other, Reconciliation
<1>3. t \in Nat /\ t > 0 /\ ~worker[w].mayPost /\ "rec_list" \in Steps
  BY <1>1 DEF TypeOK, WorkerPart, PostPart, Steps
<1> HIDE DEF t
<1>4. x \in Local /\ x.pc = "rec_list" /\ x.token = t /\ ~x.mayPost
  BY <1>1, <1>3 DEF Local
<1> HIDE DEF x
<1>5. /\ worker'[w] = x /\ worker' \in [Workers -> Local]
      /\ \A v \in Workers : v # w => worker'[v] = worker[v]
  BY <1>1, <1>4, Becomes
<1>6. ReconcilePart(w)'
  BY <1>3, <1>4, <1>5 DEF ReconcilePart
<1>7. WorkerPart(w)' /\ ~Posting(w)'
  BY <1>4, <1>5, <1>6, AtReconcile
<1> QED
  BY <1>2, <1>5, <1>7 DEF Advances

\* The list of open pull requests has one report per number.
LEMMA ReconcileListStep ==
    ASSUME WorkerInv, NEW w \in Workers, ReconcileList(w)
    PROVE  UNCHANGED store /\ Advances(w)
<1> DEFINE S == {m \in Pulls : IsOpen(live[m])}
           f == [n \in S |-> live[n]]
           list == {live[n] : n \in S}
           x == [worker[w] EXCEPT !.pc = "rec_apply", !.pulls = list]
<1>1. worker[w] \in Local /\ WorkerPart(w) /\ worker \in [Workers -> Local]
      /\ worker[w].pc = "rec_list" /\ Become(w, x) /\ UNCHANGED store
  BY DEF WorkerInv, ReconcileList, At
<1>2. live \in [Pulls -> PullRef] /\ \A n \in Pulls : live[n].pair.pull = n
  BY DEF WorkerInv, GithubType
<1>3. list \in SUBSET PullRef /\ list \in Lists
  <2>1. list = {f[n] : n \in S}
    OBVIOUS
  <2>2. f \in [S -> PullRef] /\ \A n \in S : f[n].pair.pull = n /\ IsOpen(f[n])
    BY <1>2
  <2>3. S \in SUBSET Pulls /\ list \in SUBSET PullRef
    BY <1>2
  <2> HIDE DEF S, f, list
  <2>4. f \in {h \in [S -> PullRef] : \A n \in S : h[n].pair.pull = n /\ IsOpen(h[n])}
    BY <2>2
  <2> DEFINE H(T) == {h \in [T -> PullRef] :
                          \A n \in T : h[n].pair.pull = n /\ IsOpen(h[n])}
             L(T) == {{h[n] : n \in T} : h \in H(T)}
  <2>5. list \in L(S)
    BY <2>1, <2>4
  <2>6. Lists = UNION {L(T) : T \in SUBSET Pulls}
    BY DEF Lists
  <2> HIDE DEF L
  <2>7. list \in Lists
    BY <2>3, <2>5, <2>6
  <2> QED
    BY <2>3, <2>7
<1>4. worker[w].token > 0 /\ ~worker[w].mayPost /\ "rec_apply" \in Steps
  BY <1>1 DEF WorkerPart, ReconcilePart, PostPart, Steps
<1> HIDE DEF list
<1>5. x \in Local /\ x.pc = "rec_apply" /\ x.token = worker[w].token /\ ~x.mayPost
      /\ x.pulls = list
  BY <1>1, <1>3, <1>4 DEF Local
<1> HIDE DEF x
<1>6. /\ worker'[w] = x /\ worker' \in [Workers -> Local]
      /\ \A v \in Workers : v # w => worker'[v] = worker[v]
  BY <1>1, <1>5, Becomes
<1>7. ReconcilePart(w)'
  BY <1>3, <1>4, <1>5, <1>6 DEF ReconcilePart, Lists
<1>8. WorkerPart(w)' /\ ~Posting(w)'
  BY <1>5, <1>6, <1>7, AtReconcile
<1> QED
  BY <1>1, <1>6, <1>8 DEF Advances

LEMMA ReconcileApplyStep ==
    ASSUME WorkerInv, NEW w \in Workers, ReconcileApply(w)
    PROVE  (Other \/ UNCHANGED store) /\ Advances(w)
<1>1. worker[w] \in Local /\ WorkerPart(w) /\ TypeOK /\ worker \in [Workers -> Local]
      /\ worker[w].pc = "rec_apply"
  BY DEF WorkerInv, HistoryInv, SafeInv, ReconcileApply, At
<1>2. worker[w].token \in Nat /\ worker[w].token > 0 /\ worker[w].pulls \in Lists
  BY <1>1 DEF WorkerPart, ReconcilePart, Local
<1>3. CASE ReconcileOpenPullRequests(worker[w].token, worker[w].pulls) /\ Return(w)
  <2>1. worker[w].token \in 1 .. generation
    BY <1>1, <1>2, <1>3 DEF ReconcileOpenPullRequests, TokenCurrent, TypeOK
  <2>2. Other
    BY <1>2, <1>3, <2>1 DEF Other, Reconciliation
  <2> QED
    BY <1>1, <1>3, <2>2, Rests DEF Return
<1>4. CASE Throw(w) /\ UNCHANGED store
  BY <1>1, <1>4, Rests DEF Throw
<1> QED
  BY <1>3, <1>4 DEF ReconcileApply

LEMMA ReconcileWorks ==
    ASSUME WorkerInv, NEW w \in Workers, ReconcileStep(w)
    PROVE  Works(w)
<1>1. GithubType' /\ comments' = comments
  <2>1. UNCHANGED github
    BY DEF ReconcileStep, ReconcileBegin, ReconcileList, ReconcileApply
  <2> QED
    BY <2>1, GithubStill
<1> QED
  BY <1>1, ReconcileBeginStep, ReconcileListStep, ReconcileApplyStep
  DEF ReconcileStep, Works

-----------------------------------------------------------------------------
(* processOne                                                              *)

\* A claimed item goes to the handler of its topic.
LEMMA ClaimWorks ==
    ASSUME WorkerInv, NEW w \in Workers, Claim(w)
    PROVE  Works(w)
<1>1. PICK i \in outbox :
          /\ ClaimOutbox(i, w)
          /\ Become(w, [Idle EXCEPT !.pc = FirstStep[i.key[1]], !.item = i.key])
  BY DEF Claim
<1> DEFINE k == i.key
           pc == FirstStep[k[1]]
           x == [Idle EXCEPT !.pc = pc, !.item = k]
<1>2. Other
  BY <1>1 DEF Other, OutboxOperation
<1>3. k \in OutboxKey
  BY DEF WorkerInv, HistoryInv, SafeInv, TypeOK, OutboxRow
<1>4. /\ k[1] = "publish" => pc = "pub_acquire"
      /\ k[1] \in {"evaluate", "timeout"} => pc = "eval_acquire"
      /\ k[1] = "dispatch" => pc = "disp_load"
      /\ k[1] = "reconcile" => pc = "rec_begin"
  <2>1. /\ FirstStep["publish"] = "pub_acquire" /\ FirstStep["evaluate"] = "eval_acquire"
        /\ FirstStep["timeout"] = "eval_acquire" /\ FirstStep["dispatch"] = "disp_load"
        /\ FirstStep["reconcile"] = "rec_begin"
    BY DEF FirstStep
  <2> QED
    BY <2>1
<1>5. k[1] \in {"publish", "evaluate", "timeout", "dispatch", "reconcile"}
  BY <1>3, KeyTypes
<1>6. pc \in Steps
  BY <1>4, <1>5 DEF Steps, GateSteps, PairSteps
<1>7. Become(w, x) /\ worker \in [Workers -> Local]
  BY <1>1 DEF WorkerInv
<1> HIDE DEF k, pc
<1>8. x \in Local /\ x.pc = pc /\ x.item = k /\ ~x.mayPost
  BY <1>3, <1>6 DEF Idle, Local
<1> HIDE DEF x
<1>9. /\ worker'[w] = x /\ worker' \in [Workers -> Local]
      /\ \A v \in Workers : v # w => worker'[v] = worker[v]
  BY <1>7, <1>8, Becomes
<1>10. Advances(w)
  <2>1. CASE k[1] = "publish"
    <3>1. k[2] \in GateId /\ k[3] \in Nat
      BY <1>3, <2>1, KeyTypes
    <3>2. x.pc = "pub_acquire"
      BY <1>4, <1>8, <2>1
    <3>3. GatePart(w)'
      BY <1>8, <1>9, <3>1, <3>2
      DEF GatePart, AfterRead, AfterGate, ItemGate, ItemRevision
    <3>4. WorkerPart(w)' /\ ~Posting(w)'
      BY <1>8, <1>9, <3>2, <3>3, AtGate DEF GateSteps
    <3> QED
      BY <1>9, <3>4 DEF Advances
  <2>2. CASE k[1] \in {"evaluate", "timeout", "dispatch"}
    <3>1. x.item[2] \in PairId /\ x.item[3] \in Epochs
      BY <1>3, <1>8, <2>2, KeyTypes
    <3>2. x.pc \in {"eval_acquire", "disp_load"}
      BY <1>4, <1>8, <2>2
    <3>3. x.pc \in PairSteps /\ x.pc \notin AfterPair
      BY <3>2 DEF PairSteps, AfterPair, Decided
    <3> QED
      BY <1>7, <1>8, <3>1, <3>3, PairEnters
  <2>3. CASE k[1] = "reconcile"
    <3>1. x.pc = "rec_begin"
      BY <1>4, <1>8, <2>3
    <3>2. ReconcilePart(w)'
      BY <1>9, <3>1 DEF ReconcilePart
    <3>3. WorkerPart(w)' /\ ~Posting(w)'
      BY <1>8, <1>9, <3>1, <3>2, AtReconcile
    <3> QED
      BY <1>9, <3>3 DEF Advances
  <2> QED
    BY <1>5, <2>1, <2>2, <2>3
<1>11. UNCHANGED github
  BY DEF Claim
<1> QED
  BY <1>2, <1>10, <1>11, GithubStill DEF Works

\* completeOutbox and failOutbox; a claim that was lost is left alone.
LEMMA FinishWorks ==
    ASSUME WorkerInv, NEW w \in Workers, Complete(w) \/ Fail(w)
    PROVE  Works(w)
<1> DEFINE k == worker[w].item
<1>1. Become(w, Idle) /\ UNCHANGED github /\ worker \in [Workers -> Local]
  BY DEF Complete, Fail, WorkerInv
<1>2. CompleteOutbox(k, w) \/ FailOutbox(k, w)
  BY DEF Complete, Fail
<1>3. CASE Claims(k, w) = {}
  <2>1. outbox' = outbox /\ UNCHANGED <<pair, gate, dispatch, evidence, generation>>
    BY <1>2, <1>3 DEF CompleteOutbox, FailOutbox
  <2>2. UNCHANGED store
    BY <2>1 DEF store
  <2> QED
    BY <1>1, <2>2, Rests, GithubStill DEF Works
<1>4. CASE Claims(k, w) # {}
  <2>1. k \in Keys
    BY <1>4 DEF Claims, Keys
  <2>2. Other
    BY <1>2, <1>4, <2>1 DEF Other, OutboxOperation
  <2> QED
    BY <1>1, <2>2, Rests, GithubStill DEF Works
<1> QED
  BY <1>3, <1>4

-----------------------------------------------------------------------------
(* Failures and the environment.                                           *)

LEMMA ErrorWorks ==
    ASSUME WorkerInv, NEW w \in Workers, GithubError(w) \/ Crash(w)
    PROVE  Works(w)
<1>1. /\ Become(w, Failed(w)) \/ Become(w, Idle)
      /\ UNCHANGED store /\ UNCHANGED github /\ worker \in [Workers -> Local]
  BY DEF GithubError, Crash, Throw, WorkerInv
<1> QED
  BY <1>1, Rests, GithubStill DEF Works

\* A write whose response is lost.
LEMMA LostResponseStep ==
    ASSUME WorkerInv, NEW w \in Workers, LostResponse(w)
    PROVE  UNCHANGED store /\ WorkerInv'
<1>1. Advances(w) /\ UNCHANGED store /\ UNCHANGED <<live, past>> /\ UNCHANGED dispatch
      /\ Become(w, Failed(w))
  BY Rests DEF LostResponse, Throw, WorkerInv, store
<1>2. CASE worker[w].pc = "pub_write" /\ WriteRun(w) /\ UNCHANGED <<comments, clock>>
  <2>1. GithubType'
    BY <1>1, <1>2, WriteRunType DEF WorkerInv, GithubType
  <2> QED
    BY <1>1, <1>2, <2>1, WorkerAdvances
<1>3. CASE worker[w].pc = "disp_post" /\ PostComment(w) /\ UNCHANGED runs
  <2>1. /\ comments' \in Seq(Comment) /\ clock' \in 0 .. MaxClock
        /\ Len(comments') = Len(comments) + 1 /\ Len(comments) \in Nat
    BY <1>3, PostType
  <2>2. GithubType' /\ Len(comments) <= Len(comments')
    BY <1>1, <1>3, <2>1 DEF WorkerInv, GithubType
  <2>3. ~Posting(w)'
    <3>1. ~Failed(w).mayPost
      BY DEF Failed, Idle
    <3>2. worker'[w] = Failed(w)
      BY <1>1, Becomes DEF WorkerInv
    <3> QED
      BY <3>1, <3>2 DEF Posting
  <2>4. PostInv'
    BY <1>1, <1>3, <2>3, PostsOnce DEF Advances
  <2> QED
    BY <1>1, <2>2, <2>4, Assembled DEF Advances
<1> QED
  BY <1>1, <1>2, <1>3 DEF LostResponse, At

\* A pull request changes.
LEMMA ChangePullStep ==
    ASSUME WorkerInv, NEW n \in Pulls, ChangePull(n)
    PROVE  UNCHANGED store /\ WorkerInv'
<1>1. PICK r \in PullRef : /\ r.pair.pull = n /\ Stamp(r.at)
                           /\ live' = [live EXCEPT ![n] = r]
                           /\ past' = past \cup {r}
                           /\ UNCHANGED <<store, worker, comments, runs>>
  BY DEF ChangePull
<1>2. GithubType
  BY DEF WorkerInv
<1>3. clock' \in 0 .. MaxClock
  BY <1>1, <1>2, StampType
<1>4. GithubType'
  BY <1>1, <1>2, <1>3 DEF GithubType
<1> QED
  BY <1>1, <1>4, WorkersWait

\* A report of a pull request arrives, late or not.
LEMMA DeliverPullStep ==
    ASSUME WorkerInv, DeliverPull
    PROVE  Other /\ WorkerInv'
<1>1. PICK r \in past : ApplyPullRequest(r)
  BY DEF DeliverPull
<1>2. r \in PullRef /\ worker' = worker /\ UNCHANGED github
  BY <1>1 DEF WorkerInv, GithubType, DeliverPull
<1>3. Other
  BY <1>1, <1>2 DEF Other, Webhook
<1> QED
  BY <1>2, <1>3, GithubStill, WorkersWait

\* Evidence arrives.
LEMMA DeliverEvidenceStep ==
    ASSUME WorkerInv, DeliverEvidence
    PROVE  Other /\ WorkerInv'
<1>1. PICK i \in Inputs :
          /\ i.at <= MaxClock
          /\ clock' = IF i.at > clock THEN i.at ELSE clock
          /\ \/ \E n \in Pulls : \/ ApplyPullEvidence(n, None, i)
                                 \/ ApplyPullEvidence(n, live[n].pair.head, i)
             \/ \E h \in Heads : ApplyShaEvidence(h, i)
  BY DEF DeliverEvidence
<1>2. UNCHANGED <<worker, live, past, comments, runs>>
  BY DEF DeliverEvidence
<1>3. GithubType
  BY DEF WorkerInv
<1>4. i.at \in Nat /\ MaxClock \in Nat
  BY InputsAssumption, WorkerAssumption DEF EvidenceInput
<1>5. GithubType'
  BY <1>1, <1>2, <1>3, <1>4 DEF GithubType
<1>6. Other
  <2>1. \A n \in Pulls : live[n].pair.head \in Heads
    BY <1>3 DEF GithubType, PullRef, PairId
  <2>2. Webhook
    BY <1>1, <2>1 DEF Webhook
  <2> QED
    BY <2>2 DEF Other
<1> QED
  BY <1>2, <1>5, <1>6, WorkersWait

\* A push, a malformed or an unscoped webhook, and the passing of time.
LEMMA ElseStep ==
    ASSUME WorkerInv, DeliverOther \/ LeaseRunsOut \/ DeadlinePasses
    PROVE  Other /\ WorkerInv'
<1>1. worker' = worker /\ UNCHANGED github
  BY DEF DeliverOther, LeaseRunsOut, DeadlinePasses
<1>2. Other
  <2>1. CASE DeliverOther
    BY <2>1 DEF DeliverOther, Other, Webhook
  <2>2. CASE LeaseRunsOut
    BY <2>2 DEF LeaseRunsOut, Other, Time
  <2>3. CASE DeadlinePasses
    BY <2>3 DEF DeadlinePasses, Other, Time
  <2> QED
    BY <2>1, <2>2, <2>3
<1> QED
  BY <1>1, <1>2, GithubStill, WorkersWait

-----------------------------------------------------------------------------
(* The specification.                                                      *)

\* At first every worker is idle and every gate at failure.
LEMMA InitWorker == Init => WorkerInv
<1> SUFFICES ASSUME Init PROVE WorkerInv
  OBVIOUS
<1>1. HistoryInv
  BY InitHistory DEF Init
<1>2. worker = [w \in Workers |-> Idle] /\ Idle \in Local /\ Idle.pc = "idle"
      /\ ~Idle.mayPost
  BY DEF Init, Idle, Local, Steps, Resting
<1>3. worker \in [Workers -> Local] /\ \A w \in Workers : worker[w] = Idle
  BY <1>2
<1>4. GithubType
  <2>1. comments \in Seq(Comment) /\ runs \in Seq(Run)
    BY DEF Init
  <2>2. clock \in 0 .. MaxClock
    BY WorkerAssumption DEF Init
  <2> QED
    BY <2>1, <2>2 DEF Init, GithubType
<1> HIDE DEF Idle
<1>5. ASSUME NEW w \in Workers PROVE WorkerPart(w) /\ ~Posting(w)
  BY <1>2, <1>3
  DEF WorkerPart, GatePart, PairPart, ReconcilePart, ReviewPart, PostPart, Posting,
      GateSteps, AfterGate, AfterRead, PairSteps, AfterPair, Decided
<1>6. PostInv
  <2>1. Len(comments) = 0
    BY DEF Init
  <2> QED
    BY <1>5, <2>1 DEF PostInv, AtMostOnePost
<1>7. SuccessIsBacked
  <2>1. \A g \in GateId : gate[g].desired = "failure"
    BY DEF Init, StoreInit, NoGate, NewGate
  <2> QED
    BY <2>1 DEF SuccessIsBacked
<1> QED
  BY <1>1, <1>3, <1>4, <1>5, <1>6, <1>7 DEF WorkerInv

\* Every step is one transaction of the store, or leaves the store alone.
LEMMA NextWorker ==
    ASSUME WorkerInv, [Next]_vars, AnyId
    PROVE  (StoreNext \/ UNCHANGED store) /\ WorkerInv'
<1>1. CASE UNCHANGED vars
  <2>1. UNCHANGED store /\ worker' = worker /\ UNCHANGED github
    BY <1>1 DEF vars, moving
  <2> QED
    BY <2>1, GithubStill, WorkersWait
<1>2. ASSUME NEW w \in Workers, Step(w)
      PROVE  (StoreNext \/ UNCHANGED store) /\ WorkerInv'
  <2>1. CASE PublishStep(w)
    BY <2>1, PublishWorks, Worked
  <2>2. CASE EvaluateStep(w)
    BY <2>2, EvaluateWorks
  <2>3. CASE DispatchStepOf(w)
    BY <2>3, DispatchWorks
  <2>4. CASE ReconcileStep(w)
    BY <2>4, ReconcileWorks, Worked
  <2>5. CASE Complete(w) \/ Fail(w)
    BY <2>5, FinishWorks, Worked
  <2> QED
    BY <1>2, <2>1, <2>2, <2>3, <2>4, <2>5 DEF Step
<1>3. ASSUME NEW w \in Workers, Claim(w) \/ GithubError(w) \/ LostResponse(w) \/ Crash(w)
      PROVE  (StoreNext \/ UNCHANGED store) /\ WorkerInv'
  BY <1>3, ClaimWorks, ErrorWorks, LostResponseStep, Worked
<1>4. CASE Environment
  BY <1>4, ChangePullStep, DeliverPullStep, DeliverEvidenceStep, ElseStep, OtherIsStep
  DEF Environment
<1> QED
  BY <1>1, <1>2, <1>3, <1>4 DEF Next

LEMMA WorkersInvariant == AnyId => (Spec => []WorkerInv)
<1> SUFFICES ASSUME AnyId PROVE Spec => []WorkerInv
  OBVIOUS
<1>1. WorkerInv /\ [Next]_vars => WorkerInv'
  BY NextWorker
<1> QED
  BY <1>1, InitWorker, PTL DEF Spec

\* Whatever the workers, the webhooks and the passing of time do to the tables
\* is one transaction of the store, under a lease that was granted and with the
\* arguments that store.ts expects.
THEOREM WorkersConform == AnyId => (Spec => ConformsToStore)
<1> SUFFICES ASSUME AnyId PROVE Spec => ConformsToStore
  OBVIOUS
<1>1. WorkerInv /\ [Next]_vars => [StoreNext]_store
  BY NextWorker
<1>2. Spec => []WorkerInv
  BY WorkersInvariant
<1> QED
  BY <1>1, <1>2, PTL DEF Spec, ConformsToStore

\* worker.ts implements store.ts: what is proved of StoreSpec for any callers
\* holds of the App at work.
THEOREM WorkersImplementStore == AnyId => (Spec => StoreSpec)
<1> SUFFICES ASSUME AnyId PROVE Spec => StoreSpec
  OBVIOUS
<1>1. Init => StoreInit
  BY DEF Init
<1>2. Spec => ConformsToStore
  BY WorkersConform
<1> QED
  BY <1>1, <1>2, PTL DEF Spec, StoreSpec, ConformsToStore

\* Over crashes, lost responses and leases that expire while the worker is at
\* it, dispatchReview posts the command of an epoch at most once.
THEOREM CommandOnce == AnyId => (Spec => []AtMostOnePost)
<1> SUFFICES ASSUME AnyId PROVE Spec => []AtMostOnePost
  OBVIOUS
<1>1. WorkerInv => AtMostOnePost
  BY DEF WorkerInv, PostInv
<1>2. Spec => []WorkerInv
  BY WorkersInvariant
<1> QED
  BY <1>1, <1>2, PTL

\* A gate wants success only while the rows still say so: nothing slips in
\* between the reads of evaluatePair and its commitPairGate, or after it,
\* without revoking the gate.
THEOREM SuccessStaysBacked == AnyId => (Spec => []SuccessIsBacked)
<1> SUFFICES ASSUME AnyId PROVE Spec => []SuccessIsBacked
  OBVIOUS
<1>1. WorkerInv => SuccessIsBacked
  BY DEF WorkerInv
<1>2. Spec => []WorkerInv
  BY WorkersInvariant
<1> QED
  BY <1>1, <1>2, PTL

-----------------------------------------------------------------------------
(* Decisions are up to date.  The invariant says of every active gate of a *)
(* pull request why its state may be trusted: it says what the rows say,   *)
(* or GitHub reported something that the store does not know, or an item   *)
(* is queued whose work is still to come.                                  *)

\* A report that the store does not know yet, or another one of the same second,
\* says that the pair is not under review.
Excused(p) ==
    \E r \in past : /\ r.pair.pull = p.pull /\ r.at >= pair[p].srcAt
                    /\ ~(r.pair = p /\ IsOpen(r) /\ ~r.draft)

\* The keys of the items that are not done, and of those whose work is still to
\* come: no worker is about to complete them.
Todo == {i.key : i \in {j \in outbox : ~j.done}}

Pending(k) ==
    k \in Todo /\ \A w \in Workers : worker[w].item = k => worker[w].pc # "complete"

\* The state is what the rows of the epoch say, the deadline aside, or waits for
\* a command that was adopted since.
Says(p, d, desired) ==
    \/ desired = EvaluatePair(pair[p], dispatch[d], evidence[d])
    \/ desired = "pending" /\ dispatch[d].state = "sent"
    \/ dispatch[d].late

\* The work of the item leads to the gate of the pair's epoch.
Reaches(k, p, e) ==
    \/ k[1] = "reconcile"
    \/ k[1] = "evaluate" /\ k[2] = p /\ k[3] = e

Revisited(p, e) == \E k \in Todo : Pending(k) /\ Reaches(k, p, e)

Trusted(g) ==
    LET p == gate[g].pair
    IN  Says(p, <<p, g.epoch>>, gate[g].desired) \/ Excused(p)

Assured(g) == Trusted(g) \/ Revisited(gate[g].pair, g.epoch)

ActiveGate(g) == gate[g].active /\ gate[g].pair \in PairId

\* GitHub's clock, and what the store knows of it.
ReportsInTime ==
    /\ \A n \in Pulls : live[n] \in past /\ live[n].at <= clock
    /\ \A r \in past : r.at <= live[r.pair.pull].at
    /\ \A p \in PairId : pair[p].srcAt <= live[p.pull].at

\* An evaluation is asked for under a revision that its gate had; when its work is
\* done the gate has another one, or nothing is left to decide.
GateFor(k) == [key |-> k[2].pull, epoch |-> k[3]]

Over(k) ==
    \/ k[4] < gate[GateFor(k)].revision
    \/ ~gate[GateFor(k)].active
    \/ gate[GateFor(k)].quarantined

KeyKnown(k) ==
    /\ k[1] = "evaluate" =>
          /\ gate[GateFor(k)].pair = k[2]
          /\ k[4] > 0 /\ k[4] <= gate[GateFor(k)].revision
          /\ ~Pending(k) => Over(k)
    /\ k[1] = "reconcile" => k[2] <= generation

\* Each handler serves its topics.
TopicPart(w) ==
    /\ worker[w].pc # "idle" => worker[w].item \in Keys
    /\ worker[w].pc \in GateSteps => Topic(w) = "publish"
    /\ worker[w].pc \in EvaluateSteps \cup {"eval_acquire", "eval_held"} =>
          Topic(w) \in {"evaluate", "timeout"}
    /\ worker[w].pc \in DispatchSteps \cup {"disp_load", "disp_acquire", "disp_held"} =>
          Topic(w) = "dispatch"
    /\ worker[w].pc \in {"rec_begin", "rec_list", "rec_apply"} => Topic(w) = "reconcile"

\* What a worker still knows: its decision, why it rejects, and that its list of
\* pull requests is not older than the rows.
JudgePart(w) ==
    /\ (worker[w].pc = "eval_evidence" /\ Unfenced(w)) =>
          (worker[w].disp.state = "abandoned") = (dispatch[ItemId(w)].state = "abandoned")
    /\ (worker[w].pc \in {"eval_live", "eval_commit"} /\ Unfenced(w)) =>
          Says(ItemPair(w), ItemId(w), worker[w].desired) \/ Excused(ItemPair(w))
    /\ (worker[w].pc = "disp_reject" /\ Unfenced(w)) => Excused(ItemPair(w))
    /\ (worker[w].pc = "pub_live" /\ ~worker[w].snap.active) => ~gate[ItemGate(w)].active
    /\ (worker[w].pc = "pub_reject" /\ gate[ItemGate(w)].revision = ItemRevision(w)) =>
          ~gate[ItemGate(w)].active \/ Excused(gate[ItemGate(w)].pair)
    /\ worker[w].pc \in {"rec_list", "rec_apply"} => worker[w].token <= generation
    /\ (worker[w].pc = "rec_apply" /\ worker[w].token = generation) =>
          \A r \in worker[w].pulls :
             /\ r \in past
             /\ \A p \in PairId : (p.pull = r.pair.pull /\ pair[p].active) =>
                                      pair[p].srcAt <= r.at

\* The inductive invariant, on top of WorkerInv.
DecisionInv ==
    /\ ReportsInTime
    /\ \A k \in Keys : KeyKnown(k)
    /\ \A g \in GateId : gate[g].desired # "cancelled"
    /\ \A g \in GateId : ActiveGate(g) => Assured(g)
    /\ \A w \in Workers : TopicPart(w) /\ JudgePart(w)

-----------------------------------------------------------------------------
(* What a step leaves of it.                                               *)

\* What a decision about the pair reads is the same, but for a command that is not
\* sent yet and for the deadline.
Still(p) ==
    /\ SameReview(p)
    /\ pair'[p].srcAt = pair[p].srcAt
    /\ (dispatch'[EpochOf(p)].state = "abandoned") = (dispatch[EpochOf(p)].state = "abandoned")
    /\ dispatch[EpochOf(p)].late => dispatch'[EpochOf(p)].late

Fresh(k) == k \in Keys' /\ k \notin Keys

\* The gate was revised, and its new state may be trusted.
Renewed(g) ==
    /\ gate'[g].revision > gate[g].revision
    /\ \/ \E n \in Nat : \/ Fresh(<<"reconcile", n>>)
                       \/ Fresh(Evaluation(gate'[g].pair, g.epoch, n))
       \/ Trusted(g)'

GateLater(g) ==
    /\ gate[g].revision > 0 => /\ gate'[g].active => gate[g].active
                               /\ gate[g].quarantined => gate'[g].quarantined
    /\ gate'[g].desired = "cancelled" => gate[g].desired = "cancelled"
    /\ ActiveGate(g)' =>
          \/ /\ ActiveGate(g) /\ gate'[g].pair = gate[g].pair
             /\ gate'[g].desired = gate[g].desired /\ Still(gate[g].pair)
          \/ Renewed(g)

\* The source time of a row is that of a report.
PairLater(p) ==
    /\ pair[p].epoch > 0 => Still(p) \/ pair'[p].fence > pair[p].fence
    /\ pair'[p].srcAt = pair[p].srcAt \/ \E r \in past : r.pair = p /\ pair'[p].srcAt = r.at

\* A list that was begun is current only if no row was moved.
GenerationLater ==
    /\ generation <= generation'
    /\ generation' = generation => \A p \in PairId :
          pair'[p].active => pair[p].active /\ pair'[p].srcAt = pair[p].srcAt

KeyLater(k) ==
    /\ k \in Todo'
    /\ k[1] = "evaluate" => /\ gate'[GateFor(k)].pair = k[2]
                            /\ k[4] > 0 /\ k[4] <= gate'[GateFor(k)].revision
    /\ k[1] = "reconcile" => k[2] <= generation'

OutboxLater ==
    /\ Keys \subseteq Keys'
    /\ \A k \in Keys' : k \notin Keys => KeyLater(k)
    /\ \A k \in Todo : k \in Todo' \/ \E w \in Workers : worker[w].item = k /\ At(w, "complete")

Later ==
    /\ \A p \in PairId : PairLater(p)
    /\ \A g \in GateId : GateLater(g)
    /\ GenerationLater
    /\ OutboxLater

\* What the rows say is still so, or waits for the command, or is late.
LEMMA StillSays ==
    ASSUME NEW p, Still(p), NEW desired, Says(p, EpochOf(p), desired)
    PROVE  /\ EpochOf(p)' = EpochOf(p)
           /\ Says(p, EpochOf(p), desired)'
<1> DEFINE d == EpochOf(p)  a == pair[p]  b == pair'[p]  x == dispatch[d]  y == dispatch'[d]
           rows == evidence[d]
<1>1. /\ b.epoch = a.epoch /\ b.active = a.active /\ b.quarantined = a.quarantined
      /\ b.draft = a.draft /\ b.state = a.state
      /\ evidence'[d] = rows
      /\ x.state = "sent" => y.state = "sent" /\ y.dispatchedAt = x.dispatchedAt
      /\ (y.state = "abandoned") = (x.state = "abandoned")
      /\ x.late => y.late
  BY DEF Still, SameReview, SameInput
<1>2. EpochOf(p)' = d
  BY <1>1 DEF EpochOf
<1>3. \/ desired = EvaluatePair(a, x, rows)
      \/ desired = "pending" /\ x.state = "sent"
      \/ x.late
  BY DEF Says
<1>4. \/ desired = EvaluatePair(b, y, rows)
      \/ desired = "pending" /\ y.state = "sent"
      \/ y.late
  <2> HIDE DEF d, a, b, x, y, rows
  <2>1. CASE x.late
    BY <1>1, <2>1
  <2>2. CASE desired = "pending" /\ x.state = "sent"
    BY <1>1, <2>2
  <2>3. CASE desired = EvaluatePair(a, x, rows) /\ ~x.late /\ ~y.late
    <3>1. CASE x.state = "sent"
      BY <1>1, <2>3, <3>1 DEF EvaluatePair
    <3>2. CASE x.state # "sent" /\ y.state # "sent"
      BY <1>1, <2>3, <3>2 DEF EvaluatePair
    <3>3. CASE x.state # "sent" /\ y.state = "sent"
      BY <1>1, <2>3, <3>3 DEF EvaluatePair
    <3> QED
      BY <3>1, <3>2, <3>3
  <2> QED
    BY <1>3, <2>1, <2>2, <2>3
<1>5. Says(p, d, desired)' <=> \/ desired = EvaluatePair(b, y, evidence'[d])
                               \/ desired = "pending" /\ y.state = "sent"
                               \/ y.late
  BY <1>2 DEF Says
<1> QED
  BY <1>1, <1>2, <1>4, <1>5

-----------------------------------------------------------------------------
(* A step keeps the invariant when it is Later and those who took it settle *)
(* what it owes.                                                           *)

\* The work of the item is done: its gate was decided, and every gate that it was
\* queued for may be trusted.
Closes(k) ==
    /\ k[1] = "evaluate" => Over(k)'
    /\ \A g \in GateId : (ActiveGate(g)' /\ Reaches(k, gate'[g].pair, g.epoch)) => Assured(g)'

Settles(w) ==
    /\ worker'[w].pc # "idle" => worker'[w].item \in Keys
    /\ TopicPart(w)'
    /\ JudgePart(w)'
    /\ \A k \in Keys : (worker'[w].item = k /\ worker'[w].pc = "complete") => Closes(k)

\* An excuse lasts as long as the store does not learn more.
LEMMA StillExcused ==
    ASSUME NEW p, pair'[p].srcAt = pair[p].srcAt, past \subseteq past', Excused(p)
    PROVE  Excused(p)'
<1>1. PICK r \in past : /\ r.pair.pull = p.pull /\ r.at >= pair[p].srcAt
                        /\ ~(r.pair = p /\ IsOpen(r) /\ ~r.draft)
  BY DEF Excused
<1>2. r \in past' /\ r.at >= pair'[p].srcAt
  BY <1>1
<1> QED
  BY <1>1, <1>2 DEF Excused, IsOpen

\* What an active gate of a pull request is the gate of.
LEMMA ActiveGateFacts ==
    ASSUME SafeInv, NEW g \in GateId, ActiveGate(g)
    PROVE  LET p == gate[g].pair
           IN  /\ p \in PairId /\ pair[p].active /\ pair[p].epoch = g.epoch
               /\ pair[p].epoch > 0 /\ g = GateOf(p) /\ EpochOf(p) = <<p, g.epoch>>
               /\ EpochOf(p) \in EpochId
               /\ gate[g].quarantined = pair[p].quarantined
<1> DEFINE p == gate[g].pair
<1>1. p \in PairId /\ gate[g].active
  BY DEF ActiveGate
<1>2. pair[p].active /\ g = GateOf(p) /\ gate[g].quarantined = pair[p].quarantined
  BY <1>1, BoundGate
<1>3. g.epoch \in Epochs /\ g.epoch = pair[p].epoch
  BY <1>2 DEF GateOf, GateId
<1>4. pair[p].epoch > 0
  BY <1>3 DEF Epochs
<1> QED
  BY <1>1, <1>2, <1>3, <1>4 DEF EpochOf, EpochId

\* A fresh item is still to be worked on.
LEMMA FreshIsPending ==
    ASSUME OutboxLater, NEW k, Fresh(k),
           \A w \in Workers : worker'[w].pc # "idle" => worker'[w].item \in Keys
    PROVE  k \in Todo' /\ Pending(k)'
<1>1. k \in Keys' /\ k \notin Keys
  BY DEF Fresh
<1>2. k \in Todo'
  BY <1>1 DEF OutboxLater, KeyLater
<1>3. \A w \in Workers : worker'[w].item = k => worker'[w].pc # "complete"
  BY <1>1
<1> QED
  BY <1>2, <1>3 DEF Pending

\* A gate that was revised may be trusted.
LEMMA RenewedIsAssured ==
    ASSUME OutboxLater, NEW g \in GateId, Renewed(g),
           \A w \in Workers : worker'[w].pc # "idle" => worker'[w].item \in Keys
    PROVE  Assured(g)'
<1> DEFINE p == gate'[g].pair
<1>1. ASSUME NEW k, Fresh(k), Reaches(k, p, g.epoch) PROVE Assured(g)'
  <2>1. k \in Todo' /\ Pending(k)'
    BY <1>1, FreshIsPending
  <2>2. Revisited(gate[g].pair, g.epoch)'
    BY <1>1, <2>1 DEF Revisited, Reaches
  <2> QED
    BY <2>2 DEF Assured
<1>2. ASSUME NEW n, Fresh(<<"reconcile", n>>) PROVE Assured(g)'
  BY <1>1, <1>2 DEF Reaches
<1>3. ASSUME NEW n, Fresh(Evaluation(p, g.epoch, n)) PROVE Assured(g)'
  <2>1. Reaches(Evaluation(p, g.epoch, n), p, g.epoch)
    BY DEF Reaches, Evaluation
  <2> QED
    BY <1>1, <1>3, <2>1
<1>4. ASSUME Trusted(g)' PROVE Assured(g)'
  BY <1>4 DEF Assured
<1> QED
  BY <1>2, <1>3, <1>4 DEF Renewed

\* What is still to be worked on is, or was just done.
LEMMA StillPending ==
    ASSUME OutboxLater, \A w \in Workers : worker'[w] = worker[w] \/ Settles(w),
           NEW k \in Keys, Pending(k)
    PROVE  (k \in Todo' /\ Pending(k)') \/ Closes(k)
<1>1. k \in Todo /\ \A w \in Workers : worker[w].item = k => worker[w].pc # "complete"
  BY DEF Pending
<1>2. k \in Todo'
  BY <1>1 DEF OutboxLater, At
<1>3. CASE \A w \in Workers : worker'[w].item = k => worker'[w].pc # "complete"
  BY <1>2, <1>3 DEF Pending
<1>4. CASE \E w \in Workers : worker'[w].item = k /\ worker'[w].pc = "complete"
  <2>1. PICK w \in Workers : worker'[w].item = k /\ worker'[w].pc = "complete"
    BY <1>4
  <2>2. Settles(w)
    BY <1>1, <2>1
  <2> QED
    BY <2>1, <2>2 DEF Settles
<1> QED
  BY <1>3, <1>4

\* The gate of an evaluation.
LEMMA EvaluationGate ==
    ASSUME NEW k \in OutboxKey, k[1] = "evaluate"
    PROVE  /\ k[2] \in PairId /\ k[3] \in Epochs /\ k[4] \in Nat
           /\ GateFor(k) \in GateId /\ k = Evaluation(k[2], k[3], k[4])
           /\ GateFor(k).key = k[2].pull /\ GateFor(k).epoch = k[3]
<1>1. k \in {"evaluate"} \X PairId \X Epochs \X Nat
  BY DEF OutboxKey
<1>2. k[2] \in PairId /\ k[3] \in Epochs /\ k[4] \in Nat /\ k = <<"evaluate", k[2], k[3], k[4]>>
  BY <1>1
<1>3. k[2].pull \in Pulls
  BY <1>2, KeyKinds
<1>4. GateFor(k) \in GateId
  BY <1>2, <1>3 DEF GateFor, GateId
<1> QED
  BY <1>2, <1>4 DEF Evaluation, GateFor

\* Keys are outbox keys.
LEMMA KeysType == ASSUME TypeOK PROVE Keys \subseteq OutboxKey
BY DEF TypeOK, Keys, OutboxRow

\* An evaluation that is over stays over.
LEMMA StillOver ==
    ASSUME TypeOK, TypeOK', NEW k \in Keys, k[1] = "evaluate", KeyKnown(k),
           GateKept(GateFor(k)), GateLater(GateFor(k))
    PROVE  /\ gate'[GateFor(k)].pair = k[2] /\ k[4] <= gate'[GateFor(k)].revision
           /\ Over(k) => Over(k)'
<1> DEFINE g == GateFor(k)
<1>1. g \in GateId /\ k[4] \in Nat
  BY KeysType, EvaluationGate
<1>2. gate[g].revision \in Nat /\ gate'[g].revision \in Nat
  BY <1>1 DEF TypeOK, GateRow
<1>3. gate[g].pair = k[2] /\ k[4] > 0 /\ k[4] <= gate[g].revision
  BY DEF KeyKnown
<1>4. gate[g].revision > 0
  BY <1>1, <1>2, <1>3
<1>5. /\ gate'[g].pair = gate[g].pair /\ gate'[g].revision >= gate[g].revision
      /\ gate'[g].active => gate[g].active
      /\ gate[g].quarantined => gate'[g].quarantined
  BY <1>4 DEF GateKept, GateLater
<1>6. GateFor(k)' = g
  BY DEF GateFor
<1> HIDE DEF g
<1>7. Over(k) => Over(k)'
  <2>1. /\ Over(k) <=> (k[4] < gate[g].revision \/ ~gate[g].active \/ gate[g].quarantined)
        /\ Over(k)' <=> (k[4] < gate'[g].revision \/ ~gate'[g].active \/ gate'[g].quarantined)
    BY <1>6 DEF Over, g
  <2> QED
    BY <1>1, <1>2, <1>5, <2>1
<1> QED
  BY <1>1, <1>2, <1>3, <1>5, <1>7 DEF g

\* The keys stay known.
LEMMA KeysStayKnown ==
    ASSUME TypeOK, TypeOK', GatesKept, Later, NEW k \in Keys',
           \A j \in Keys : KeyKnown(j),
           \A w \in Workers : worker[w].pc # "idle" => worker[w].item \in Keys,
           \A w \in Workers : worker'[w] = worker[w] \/ Settles(w)
    PROVE  KeyKnown(k)'
<1>0. /\ OutboxLater /\ GenerationLater
      /\ \A w \in Workers : worker'[w].pc # "idle" => worker'[w].item \in Keys
  BY DEF Later, Settles
<1>1. CASE k \notin Keys
  <2>1. KeyLater(k) /\ Pending(k)'
    BY <1>0, <1>1, FreshIsPending DEF OutboxLater, Fresh
  <2>2. GateFor(k)' = GateFor(k)
    BY DEF GateFor
  <2> QED
    BY <2>1, <2>2 DEF KeyLater, KeyKnown
<1>2. CASE k \in Keys /\ k[1] = "evaluate"
  <2>1. KeyKnown(k)
    BY <1>2
  <2>2. GateFor(k) \in GateId /\ GateFor(k)' = GateFor(k)
    BY <1>2, KeysType, EvaluationGate DEF GateFor
  <2>3. GateKept(GateFor(k)) /\ GateLater(GateFor(k))
    BY <2>2 DEF GatesKept, Later
  <2>4. /\ gate'[GateFor(k)].pair = k[2] /\ k[4] <= gate'[GateFor(k)].revision
        /\ Over(k) => Over(k)'
    BY <1>2, <2>1, <2>3, StillOver
  <2>5. k[4] > 0 /\ (~Pending(k) => Over(k))
    BY <1>2, <2>1 DEF KeyKnown
  <2>6. ~Pending(k)' => Over(k)'
    <3>1. CASE ~Pending(k)
      BY <2>4, <2>5, <3>1
    <3>2. CASE Pending(k)
      <4>1. Pending(k)' \/ Closes(k)
        BY <1>0, <1>2, <3>2, StillPending
      <4> QED
        BY <1>2, <4>1 DEF Closes
    <3> QED
      BY <3>1, <3>2
  <2> QED
    BY <1>2, <2>2, <2>4, <2>5, <2>6 DEF KeyKnown
<1>3. CASE k \in Keys /\ k[1] = "reconcile"
  <2>1. k[2] <= generation /\ generation <= generation'
    BY <1>0, <1>3 DEF KeyKnown, GenerationLater
  <2>2. k[2] \in Nat /\ generation \in Nat /\ generation' \in Nat
    <3>1. k \in OutboxKey
      BY <1>3, KeysType
    <3>2. k \in {"reconcile"} \X Nat
      BY <1>3, <3>1 DEF OutboxKey
    <3> QED
      BY <3>2 DEF TypeOK
  <2>3. k[2] <= generation'
    BY <2>1, <2>2
  <2> QED
    BY <1>3, <2>3 DEF KeyKnown
<1>4. CASE k \in Keys /\ k[1] \notin {"evaluate", "reconcile"}
  BY <1>4 DEF KeyKnown
<1> QED
  BY <1>1, <1>2, <1>3, <1>4

\* The gates stay assured.
LEMMA GatesStayAssured ==
    ASSUME SafeInv, Later, past \subseteq past', NEW g \in GateId, ActiveGate(g)',
           ActiveGate(g) => Assured(g),
           \A w \in Workers : worker[w].pc # "idle" => worker[w].item \in Keys,
           \A w \in Workers : worker'[w] = worker[w] \/ Settles(w)
    PROVE  Assured(g)'
<1>0. /\ OutboxLater /\ GateLater(g)
      /\ \A w \in Workers : worker'[w].pc # "idle" => worker'[w].item \in Keys
  BY DEF Later, Settles
<1>1. CASE Renewed(g)
  BY <1>0, <1>1, RenewedIsAssured
<1>2. CASE /\ ActiveGate(g) /\ gate'[g].pair = gate[g].pair
           /\ gate'[g].desired = gate[g].desired /\ Still(gate[g].pair)
  <2> DEFINE p == gate[g].pair  desired == gate[g].desired
  <2>1. p \in PairId /\ EpochOf(p) = <<p, g.epoch>>
    BY <1>2, ActiveGateFacts
  <2>2. Assured(g)
    BY <1>2
  <2>3. CASE Says(p, <<p, g.epoch>>, desired)
    <3> DEFINE e == g.epoch
    <3>1. gate'[g].pair = p /\ gate'[g].desired = desired
      BY <1>2
    <3>2. EpochOf(p)' = <<p, e>> /\ Says(p, <<p, e>>, desired) /\ Still(p)
      BY <1>2, <2>1, <2>3 DEF EpochOf, Still, SameReview, SameInput
    <3> HIDE DEF p, desired, e
    <3>3. ASSUME NEW q, NEW c, q = p, c = desired
          PROVE  Says(q, <<q, e>>, c)'
      <4>1. EpochOf(q) = <<q, e>> /\ Still(q) /\ Says(q, EpochOf(q), c)
        BY <2>1, <3>2, <3>3 DEF e
      <4>2. EpochOf(q)' = EpochOf(q) /\ Says(q, EpochOf(q), c)'
        BY <4>1, StillSays
      <4> QED
        BY <4>1, <4>2 DEF Says
    <3>4. ASSUME NEW q, NEW c, q = gate'[g].pair, c = gate'[g].desired
          PROVE  Says(q, <<q, e>>, c)'
      BY <3>1, <3>3, <3>4
    <3>5. Says(gate[g].pair, <<gate[g].pair, e>>, gate[g].desired)'
      BY <3>4
    <3> QED
      BY <3>5 DEF Assured, Trusted, e
  <2>4. CASE Excused(p)
    <3>1. pair'[p].srcAt = pair[p].srcAt /\ gate'[g].pair = p
      BY <1>2 DEF Still
    <3>2. PICK r \in past : /\ r.pair.pull = p.pull /\ r.at >= pair[p].srcAt
                            /\ ~(r.pair = p /\ IsOpen(r) /\ ~r.draft)
      BY <2>4 DEF Excused
    <3>3. /\ r \in past' /\ r.pair.pull = gate'[g].pair.pull
          /\ r.at >= pair'[gate'[g].pair].srcAt
          /\ ~(r.pair = gate'[g].pair /\ r.state = "open" /\ ~r.draft)
      BY <3>1, <3>2 DEF IsOpen
    <3>4. Excused(gate[g].pair)'
      BY <3>3 DEF Excused, IsOpen
    <3> QED
      BY <3>4 DEF Assured, Trusted
  <2>5. CASE Revisited(p, g.epoch)
    <3>1. PICK k \in Todo : Pending(k) /\ Reaches(k, p, g.epoch)
      BY <2>5 DEF Revisited
    <3>2. k \in Keys
      BY <3>1 DEF Todo, Keys
    <3>3. (k \in Todo' /\ Pending(k)') \/ Closes(k)
      BY <1>0, <3>1, <3>2, StillPending
    <3>4. Reaches(k, gate'[g].pair, g.epoch)
      BY <1>2, <3>1
    <3>5. CASE k \in Todo' /\ Pending(k)'
      BY <3>4, <3>5 DEF Assured, Revisited, Reaches
    <3>6. CASE Closes(k)
      BY <3>4, <3>6 DEF Closes
    <3> QED
      BY <3>3, <3>5, <3>6
  <2> QED
    BY <2>2, <2>3, <2>4, <2>5 DEF Assured, Trusted
<1> QED
  BY <1>0, <1>1, <1>2 DEF GateLater

\* What a waiting worker knows of the pair it works on.
LEMMA LeaseStands ==
    ASSUME TypeOK, TypeOK', PairsKept, Later, NEW w, worker[w] \in Local, WorkerPart(w),
           worker'[w] = worker[w], worker[w].pc \in AfterPair, Unfenced(w)'
    PROVE  /\ ItemPair(w)' = ItemPair(w) /\ ItemEpoch(w)' = ItemEpoch(w)
           /\ ItemId(w)' = ItemId(w)
           /\ ItemPair(w) \in PairId /\ Unfenced(w) /\ Still(ItemPair(w))
<1> DEFINE p == ItemPair(w)
<1>1. /\ ItemPair(w)' = p /\ ItemEpoch(w)' = ItemEpoch(w) /\ ItemId(w)' = ItemId(w)
  BY DEF ItemPair, ItemEpoch, ItemId
<1>2. p \in PairId /\ pair[p].epoch > 0 /\ worker[w].token <= pair[p].fence
  BY DEF WorkerPart, PairPart, PairSteps
<1>3. pair[p].fence \in Nat /\ pair'[p].fence \in Nat /\ worker[w].token \in Nat
  BY <1>2 DEF TypeOK, PairRow, Local
<1>4. pair'[p].fence >= pair[p].fence /\ pair'[p].fence = worker[w].token
  BY <1>1, <1>2 DEF PairsKept, PairKept, Unfenced
<1>5. pair[p].fence = worker[w].token /\ ~(pair'[p].fence > pair[p].fence)
  BY <1>2, <1>3, <1>4
<1>6. Still(p)
  BY <1>2, <1>5 DEF Later, PairLater
<1> QED
  BY <1>1, <1>2, <1>5, <1>6 DEF Unfenced

\* ... and of the gate.
LEMMA GateStands ==
    ASSUME TypeOK, TypeOK', GatesKept, Later, NEW w, worker[w] \in Local, WorkerPart(w),
           worker'[w] = worker[w], worker[w].pc \in AfterGate
    PROVE  /\ ItemGate(w)' = ItemGate(w) /\ ItemRevision(w)' = ItemRevision(w)
           /\ ItemGate(w) \in GateId
           /\ gate'[ItemGate(w)].active => gate[ItemGate(w)].active
           /\ gate'[ItemGate(w)].pair = gate[ItemGate(w)].pair
           /\ gate'[ItemGate(w)].revision = ItemRevision(w) =>
                 /\ gate[ItemGate(w)].revision = ItemRevision(w)
                 /\ ActiveGate(ItemGate(w))' => Still(gate[ItemGate(w)].pair)
<1> DEFINE g == ItemGate(w)
<1>1. ItemGate(w)' = g /\ ItemRevision(w)' = ItemRevision(w)
  BY DEF ItemGate, ItemRevision
<1>2. /\ g \in GateId /\ ItemRevision(w) \in Nat /\ ItemRevision(w) > 0
      /\ ItemRevision(w) <= gate[g].revision
  BY DEF WorkerPart, GatePart, GateSteps
<1>3. gate[g].revision \in Nat /\ gate'[g].revision \in Nat
  BY <1>2 DEF TypeOK, GateRow
<1>4. gate[g].revision > 0 /\ GateKept(g) /\ GateLater(g)
  BY <1>2, <1>3 DEF GatesKept, Later
<1>5. /\ gate'[g].active => gate[g].active
      /\ gate'[g].pair = gate[g].pair /\ gate'[g].revision >= gate[g].revision
  BY <1>4 DEF GateKept, GateLater
<1>6. ASSUME gate'[g].revision = ItemRevision(w)
      PROVE  gate[g].revision = ItemRevision(w) /\ ~Renewed(g)
  <2>1. gate[g].revision = ItemRevision(w) /\ ~(gate'[g].revision > gate[g].revision)
    BY <1>2, <1>3, <1>5, <1>6
  <2> QED
    BY <2>1 DEF Renewed
<1>7. ASSUME gate'[g].revision = ItemRevision(w), ActiveGate(g)' PROVE Still(gate[g].pair)
  BY <1>4, <1>6, <1>7 DEF GateLater
<1>8. ActiveGate(ItemGate(w))' => ActiveGate(g)'
  BY <1>1 DEF ActiveGate
<1> QED
  BY <1>1, <1>2, <1>5, <1>6, <1>7, <1>8

\* A worker that waits still knows what it knew.
LEMMA JudgeWaits ==
    ASSUME TypeOK, TypeOK', PairsKept, GatesKept, Later, past \subseteq past',
           NEW w \in Workers, worker[w] \in Local, WorkerPart(w), worker'[w] = worker[w],
           JudgePart(w)
    PROVE  JudgePart(w)'
<1> DEFINE p == ItemPair(w)  g == ItemGate(w)
<1>1. ASSUME worker[w].pc = "eval_evidence", Unfenced(w)'
      PROVE  (worker[w].disp.state = "abandoned") = (dispatch'[ItemId(w)'].state = "abandoned")
  <2>1. /\ ItemId(w)' = ItemId(w) /\ Unfenced(w) /\ Still(p)
    BY <1>1, LeaseStands DEF AfterPair, Decided
  <2>2. ItemId(w) = EpochOf(p)
    BY <1>1, <2>1 DEF WorkerPart, ReviewPart, ItemId, EpochOf
  <2> QED
    BY <1>1, <2>1, <2>2 DEF JudgePart, Still
<1>2. ASSUME worker[w].pc \in {"eval_live", "eval_commit"}, Unfenced(w)'
      PROVE  (Says(ItemPair(w), ItemId(w), worker[w].desired) \/ Excused(ItemPair(w)))'
  <2>1. /\ ItemId(w)' = ItemId(w) /\ Unfenced(w) /\ Still(p) /\ ItemPair(w)' = p
    BY <1>2, LeaseStands DEF AfterPair, Decided
  <2>2. ItemId(w) = EpochOf(p)
    BY <1>2, <2>1 DEF WorkerPart, ReviewPart, ItemId, EpochOf
  <2>3. Says(p, EpochOf(p), worker[w].desired) \/ Excused(p)
    BY <1>2, <2>1, <2>2 DEF JudgePart
  <2>4. ASSUME NEW q, NEW d, NEW c, q = p, d = ItemId(w), c = worker[w].desired
        PROVE  (Says(q, d, c) \/ Excused(q))'
    <3>1. Still(q) /\ (Says(q, EpochOf(q), c) \/ Excused(q)) /\ d = EpochOf(q)
      BY <2>1, <2>2, <2>3, <2>4
    <3>2. CASE Says(q, EpochOf(q), c)
      <4>1. EpochOf(q)' = d /\ Says(q, EpochOf(q), c)'
        BY <3>1, <3>2, StillSays
      <4> QED
        BY <4>1 DEF Says
    <3>3. CASE Excused(q)
      BY <3>1, <3>3, StillExcused DEF Still
    <3> QED
      BY <3>1, <3>2, <3>3
  <2> QED
    BY <2>1, <2>4
<1>3. ASSUME worker[w].pc = "disp_reject", Unfenced(w)'
      PROVE  Excused(ItemPair(w))'
  <2>1. /\ Unfenced(w) /\ Still(p) /\ ItemPair(w)' = p
    BY <1>3, LeaseStands DEF AfterPair, Decided
  <2>2. ASSUME NEW q, q = p PROVE Excused(q)'
    BY <1>3, <2>1, <2>2, StillExcused DEF JudgePart, Still
  <2> QED
    BY <2>1, <2>2
<1>4. ASSUME worker[w].pc = "pub_live", ~worker[w].snap.active
      PROVE  ~gate'[ItemGate(w)'].active
  <2>1. ItemGate(w)' = g /\ (gate'[g].active => gate[g].active)
    BY <1>4, GateStands DEF AfterGate
  <2> QED
    BY <1>4, <2>1 DEF JudgePart
<1>5. ASSUME worker[w].pc = "pub_reject", gate'[ItemGate(w)'].revision = ItemRevision(w)',
             gate'[ItemGate(w)'].active
      PROVE  Excused(gate[ItemGate(w)].pair)'
  <2>1. /\ ItemGate(w)' = g /\ ItemRevision(w)' = ItemRevision(w) /\ g \in GateId
        /\ gate'[g].active => gate[g].active
        /\ gate'[g].pair = gate[g].pair
        /\ gate'[g].revision = ItemRevision(w) =>
              /\ gate[g].revision = ItemRevision(w)
              /\ ActiveGate(g)' => Still(gate[g].pair)
    <3>1. ActiveGate(g)' => ActiveGate(ItemGate(w))'
      BY DEF ItemGate, ActiveGate
    <3> QED
      BY <1>5, <3>1, GateStands DEF AfterGate
  <2>2. gate[g].pair \in PairId
    BY <1>5 DEF WorkerPart, GatePart, AfterRead, AfterGate
  <2>3. ActiveGate(g)'
    BY <1>5, <2>1, <2>2 DEF ActiveGate, ItemGate
  <2>4. Still(gate[g].pair) /\ Excused(gate[g].pair)
    BY <1>5, <2>1, <2>3 DEF JudgePart
  <2>5. ASSUME NEW q, q = gate[g].pair PROVE Excused(q)'
    BY <2>4, <2>5, StillExcused DEF Still
  <2> QED
    BY <2>1, <2>5
<1>6. ASSUME worker[w].pc \in {"rec_list", "rec_apply"}
      PROVE  /\ worker[w].token <= generation'
             /\ worker[w].token = generation' => worker[w].token = generation
                                                   /\ generation' = generation
  <2>1. worker[w].token <= generation /\ generation <= generation'
    BY <1>6 DEF JudgePart, Later, GenerationLater
  <2>2. worker[w].token \in Nat /\ generation \in Nat /\ generation' \in Nat
    BY DEF Local, TypeOK
  <2> QED
    BY <2>1, <2>2
<1>7. ASSUME worker[w].pc = "rec_apply", worker[w].token = generation',
             NEW r \in worker[w].pulls
      PROVE  /\ r \in past'
             /\ \A q \in PairId : (q.pull = r.pair.pull /\ pair'[q].active) =>
                                      pair'[q].srcAt <= r.at
  <2>1. worker[w].token = generation /\ generation' = generation
    BY <1>6, <1>7
  <2>2. r \in past /\ \A q \in PairId : (q.pull = r.pair.pull /\ pair[q].active) =>
                                            pair[q].srcAt <= r.at
    BY <1>7, <2>1 DEF JudgePart
  <2>3. \A q \in PairId : pair'[q].active => pair[q].active /\ pair'[q].srcAt = pair[q].srcAt
    BY <2>1 DEF Later, GenerationLater
  <2> QED
    BY <2>2, <2>3
<1> QED
  BY <1>1, <1>2, <1>3, <1>4, <1>5, <1>6, <1>7 DEF JudgePart

\* The invariant is kept.
LEMMA Preserved ==
    ASSUME WorkerInv, WorkerInv', DecisionInv, Kept, Later, past \subseteq past',
           ReportsInTime', \A w \in Workers : worker'[w] = worker[w] \/ Settles(w)
    PROVE  DecisionInv'
<1>1. /\ SafeInv /\ TypeOK /\ TypeOK' /\ PairsKept /\ GatesKept
      /\ \A w \in Workers : worker[w] \in Local /\ WorkerPart(w)
  BY DEF WorkerInv, HistoryInv, SafeInv, Kept
<1>2. \A w \in Workers : worker[w].pc # "idle" => worker[w].item \in Keys
  BY DEF DecisionInv, TopicPart
<1>3. \A k \in Keys' : KeyKnown(k)'
  BY <1>1, <1>2, KeysStayKnown DEF DecisionInv
<1>4. \A g \in GateId : ActiveGate(g)' => Assured(g)'
  BY <1>1, <1>2, GatesStayAssured DEF DecisionInv
<1>5. \A g \in GateId : gate'[g].desired # "cancelled"
  BY DEF DecisionInv, Later, GateLater
<1>6. ASSUME NEW w \in Workers PROVE TopicPart(w)' /\ JudgePart(w)'
  <2>1. CASE Settles(w)
    BY <2>1 DEF Settles
  <2>2. CASE worker'[w] = worker[w]
    <3>1. JudgePart(w)'
      BY <1>1, <2>2, JudgeWaits DEF DecisionInv
    <3>2. Keys \subseteq Keys'
      BY DEF Later, OutboxLater
    <3> QED
      BY <2>2, <3>1, <3>2 DEF DecisionInv, TopicPart, Topic
  <2> QED
    BY <2>1, <2>2
<1> QED
  BY <1>3, <1>4, <1>5, <1>6 DEF DecisionInv

-----------------------------------------------------------------------------
(* Every transaction that the workers, the webhooks and time make is Later. *)

PairsLater == \A p \in PairId : PairLater(p)
GatesLater == \A g \in GateId : GateLater(g)

\* Rows that only a lease was taken on or given back from.
Leased(old, new) == SameInput(old, new) /\ new.srcAt = old.srcAt

\* Taking a lease, fencing it off and giving it up.
LEMMA LeasedRows ==
    ASSUME NEW row \in PairRow, NEW new, new \in {row, Fenced(row), Unleased(row)}
    PROVE  Leased(row, new)
BY RowsKept, TamePairRows DEF Leased

\* A decision's rows are left alone.
LEMMA StillPair ==
    ASSUME NEW p, Leased(pair[p], pair'[p]),
           evidence'[EpochOf(p)] = evidence[EpochOf(p)],
           dispatch'[EpochOf(p)] = dispatch[EpochOf(p)]
    PROVE  Still(p)
BY DEF Still, SameReview, Leased

\* Every pair is left alone, but for its lease.
LEMMA PairsLeased ==
    ASSUME \A p \in PairId : Leased(pair[p], pair'[p]), UNCHANGED <<dispatch, evidence>>,
           generation' \in Nat, generation \in Nat, generation <= generation'
    PROVE  PairsLater /\ GenerationLater /\ \A p \in PairId : Still(p)
<1>1. \A p \in PairId : Still(p) /\ pair'[p].active = pair[p].active
                          /\ pair'[p].srcAt = pair[p].srcAt
  BY StillPair DEF Leased, SameInput
<1> QED
  BY <1>1 DEF PairsLater, PairLater, GenerationLater

\* A gate is left alone, but for its lease and its publication.
LEMMA GateLeft ==
    ASSUME NEW g \in GateId, gate'[g].pair = gate[g].pair, gate'[g].active = gate[g].active,
           gate'[g].quarantined = gate[g].quarantined, gate'[g].desired = gate[g].desired,
           ActiveGate(g) => Still(gate[g].pair)
    PROVE  GateLater(g)
<1>1. ActiveGate(g)' => ActiveGate(g)
  BY DEF ActiveGate
<1> QED
  BY <1>1 DEF GateLater

\* The queue is left alone.
LEMMA QueueStays == ASSUME UNCHANGED outbox PROVE OutboxLater
BY DEF OutboxLater, Keys, Todo

\* New items are queued.
LEMMA QueueGrows ==
    ASSUME NEW keys, Enqueue(keys),
           \A k \in keys : (k[1] = "evaluate" /\ k \notin Keys) =>
               /\ gate'[GateFor(k)].pair = k[2]
               /\ k[4] > 0 /\ k[4] <= gate'[GateFor(k)].revision,
           \A k \in keys : k[1] = "reconcile" => k[2] <= generation'
    PROVE  OutboxLater /\ \A k \in keys : k \in Keys \/ Fresh(k)
<1>1. outbox' = outbox \cup {NewItem(k) : k \in keys \ Keys}
  BY DEF Enqueue
<1>2. \A k : NewItem(k).key = k /\ ~NewItem(k).done
  BY DEF NewItem
<1>3. Keys \subseteq Keys' /\ keys \subseteq Keys'
  BY EnqueueTame DEF TameOutbox
<1>4. Todo \subseteq Todo'
  BY <1>1 DEF Todo
<1>5. ASSUME NEW k \in Keys', k \notin Keys PROVE KeyLater(k)
  <2>1. PICK i \in outbox' : i.key = k
    BY DEF Keys
  <2>2. i \notin outbox
    BY <1>5, <2>1 DEF Keys
  <2>3. PICK j \in keys \ Keys : i = NewItem(j)
    BY <1>1, <2>2
  <2>4. j = k /\ ~i.done
    BY <1>2, <2>1, <2>3
  <2>5. k \in Todo'
    BY <2>1, <2>4 DEF Todo
  <2>6. GateFor(k)' = GateFor(k)
    BY DEF GateFor
  <2> QED
    BY <2>3, <2>4, <2>5, <2>6 DEF KeyLater
<1> QED
  BY <1>3, <1>4, <1>5 DEF OutboxLater, Fresh

\* Items change, and are done only by those who complete them.
LEMMA QueueChanges ==
    ASSUME NEW old \in SUBSET outbox, NEW new,
           \A i \in old : new[i].key = i.key,
           outbox' = (outbox \ old) \cup {new[i] : i \in old},
           \A i \in old : (~i.done /\ new[i].done) =>
               \E w \in Workers : worker[w].item = i.key /\ At(w, "complete")
    PROVE  OutboxLater
<1>1. Keys \subseteq Keys'
  BY ReplaceTame DEF TameOutbox
<1>2. Keys' \subseteq Keys
  <2> SUFFICES ASSUME NEW i \in outbox' PROVE i.key \in Keys
    BY DEF Keys
  <2>1. i \in outbox \/ \E j \in old : i = new[j]
    OBVIOUS
  <2>2. \A j \in outbox : j.key \in Keys
    BY DEF Keys
  <2> QED
    BY <2>1, <2>2
<1>3. ASSUME NEW k \in Todo
      PROVE  k \in Todo' \/ \E w \in Workers : worker[w].item = k /\ At(w, "complete")
  <2>1. PICK i \in outbox : i.key = k /\ ~i.done
    BY DEF Todo
  <2>2. CASE i \notin old
    BY <2>1, <2>2 DEF Todo
  <2>3. CASE i \in old /\ ~new[i].done
    <3>1. new[i] \in outbox' /\ new[i].key = k
      BY <2>1, <2>3
    <3> QED
      BY <2>3, <3>1 DEF Todo
  <2>4. CASE i \in old /\ new[i].done
    BY <2>1, <2>4
  <2> QED
    BY <2>2, <2>3, <2>4
<1> QED
  BY <1>1, <1>2, <1>3 DEF OutboxLater

\* Nothing but the queue and the generation moves.
LEMMA TablesStay ==
    ASSUME TypeOK, UNCHANGED <<pair, gate, dispatch, evidence>>, generation' \in Nat,
           generation <= generation'
    PROVE  PairsLater /\ GatesLater /\ GenerationLater
<1>1. \A p \in PairId : pair[p] \in PairRow
  BY DEF TypeOK
<1>2. \A p \in PairId : Leased(pair[p], pair'[p])
  BY <1>1, LeasedRows
<1>3. PairsLater /\ GenerationLater /\ \A p \in PairId : Still(p)
  BY <1>2, PairsLeased DEF TypeOK
<1>4. GatesLater
  BY <1>3, GateLeft DEF GatesLater, ActiveGate
<1> QED
  BY <1>3, <1>4

\* The rows of the pairs under review stay, but for their leases.
LEMMA RowsStay ==
    ASSUME SafeInv, generation' \in Nat, generation <= generation',
           \A p \in PairId : /\ pair'[p].active = pair[p].active
                             /\ pair'[p].srcAt = pair[p].srcAt
                             /\ pair[p].epoch > 0 => Still(p)
    PROVE  /\ PairsLater /\ GenerationLater
           /\ \A g \in GateId : ActiveGate(g) => Still(gate[g].pair)
           /\ UNCHANGED gate => GatesLater
<1>1. \A g \in GateId : ActiveGate(g) => Still(gate[g].pair)
  BY ActiveGateFacts
<1>2. UNCHANGED gate => GatesLater
  BY <1>1, GateLeft DEF GatesLater
<1> QED
  BY <1>1, <1>2 DEF PairsLater, PairLater, GenerationLater

\* claimOutbox, completeOutbox, failOutbox, and a claim that runs out.
LEMMA ClaimLater ==
    ASSUME TypeOK, NEW i, NEW w, ClaimOutbox(i, w)
    PROVE  Later
<1> DEFINE old == {i}
           new == [x \in old |-> [x EXCEPT !.owner = w, !.live = TRUE]]
<1>1. /\ i \in outbox /\ i \in OutboxRow
      /\ outbox' = (outbox \ {i}) \cup {[i EXCEPT !.owner = w, !.live = TRUE]}
      /\ UNCHANGED <<pair, gate, dispatch, evidence, generation>>
  BY DEF ClaimOutbox, TypeOK
<1>2. new[i].key = i.key /\ new[i].done = i.done
  BY <1>1 DEF OutboxRow
<1>3. outbox' = (outbox \ old) \cup {new[x] : x \in old} /\ old \in SUBSET outbox
  BY <1>1
<1>4. OutboxLater
  <2> HIDE DEF new
  <2>1. \A x \in old : new[x].key = x.key /\ new[x].done = x.done
    BY <1>2
  <2> HIDE DEF old
  <2> QED
    BY <1>3, <2>1, QueueChanges
<1> QED
  BY <1>1, <1>4, TablesStay DEF Later, PairsLater, GatesLater, TypeOK

\* ... that runs out,
LEMMA ExpireClaimLater ==
    ASSUME TypeOK, NEW i, ExpireClaim(i)
    PROVE  Later
<1> DEFINE old == {i}
           new == [x \in old |-> [x EXCEPT !.live = FALSE]]
<1>1. /\ i \in outbox /\ i \in OutboxRow
      /\ outbox' = (outbox \ {i}) \cup {[i EXCEPT !.live = FALSE]}
      /\ UNCHANGED <<pair, gate, dispatch, evidence, generation>>
  BY DEF ExpireClaim, TypeOK
<1>2. new[i].key = i.key /\ new[i].done = i.done
  BY <1>1 DEF OutboxRow
<1>3. outbox' = (outbox \ old) \cup {new[x] : x \in old} /\ old \in SUBSET outbox
  BY <1>1
<1>4. OutboxLater
  <2> HIDE DEF new
  <2>1. \A x \in old : new[x].key = x.key /\ new[x].done = x.done
    BY <1>2
  <2> HIDE DEF old
  <2> QED
    BY <1>3, <2>1, QueueChanges
<1> QED
  BY <1>1, <1>4, TablesStay DEF Later, PairsLater, GatesLater, TypeOK

\* ... and completeOutbox, failOutbox: only what a worker is about to complete gets done.
LEMMA FinishLater ==
    ASSUME TypeOK, NEW k, NEW w \in Workers,
           \/ CompleteOutbox(k, w) /\ worker[w].item = k /\ At(w, "complete")
           \/ FailOutbox(k, w)
    PROVE  Later
<1> DEFINE old == Claims(k, w)
<1>1. /\ old \in SUBSET outbox /\ \A x \in old : x \in OutboxRow /\ x.key = k
      /\ UNCHANGED <<pair, gate, dispatch, evidence, generation>>
  BY DEF Claims, TypeOK, CompleteOutbox, FailOutbox
<1>2. CASE CompleteOutbox(k, w) /\ worker[w].item = k /\ At(w, "complete")
  <2> DEFINE new == [x \in old |-> [Unleased(x) EXCEPT !.done = TRUE]]
  <2>1. outbox' = (outbox \ old) \cup {new[x] : x \in old}
    BY <1>2 DEF CompleteOutbox
  <2>2. \A x \in old : new[x].key = x.key
    BY <1>1 DEF OutboxRow, Unleased
  <2> HIDE DEF old, new
  <2>3. OutboxLater
    BY <1>1, <1>2, <2>1, <2>2, QueueChanges
  <2> QED
    BY <1>1, <2>3, TablesStay DEF Later, PairsLater, GatesLater, TypeOK
<1>3. CASE FailOutbox(k, w)
  <2> DEFINE new == [x \in old |-> Unleased(x)]
  <2>1. outbox' = (outbox \ old) \cup {new[x] : x \in old}
    BY <1>3 DEF FailOutbox
  <2>2. \A x \in old : new[x].key = x.key /\ new[x].done = x.done
    BY <1>1 DEF OutboxRow, Unleased
  <2> HIDE DEF old, new
  <2>3. OutboxLater
    BY <1>1, <2>1, <2>2, QueueChanges
  <2> QED
    BY <1>1, <2>3, TablesStay DEF Later, PairsLater, GatesLater, TypeOK
<1> QED
  BY <1>2, <1>3

\* Nothing happens, or a snapshot is begun.
LEMMA QuietLater ==
    ASSUME TypeOK, UNCHANGED store \/ BeginRepositorySnapshot
    PROVE  Later
<1>1. /\ UNCHANGED <<pair, gate, dispatch, evidence, outbox>>
      /\ generation' \in Nat /\ generation <= generation'
  BY DEF store, BeginRepositorySnapshot, TypeOK
<1> QED
  BY <1>1, TablesStay, QueueStays DEF Later, PairsLater, GatesLater

\* Leases of pairs come and go.
LEMMA PairLeasesLater ==
    ASSUME SafeInv, \A q \in PairId : Leased(pair[q], pair'[q]),
           UNCHANGED <<gate, dispatch, evidence, outbox, generation>>
    PROVE  Later
<1>1. ASSUME NEW q \in PairId
      PROVE  Still(q) /\ pair'[q].active = pair[q].active /\ pair'[q].srcAt = pair[q].srcAt
  BY StillPair DEF Leased, SameInput
<1>2. generation' \in Nat /\ generation <= generation'
  BY DEF SafeInv, TypeOK
<1> QED
  BY <1>1, <1>2, RowsStay, QueueStays DEF Later, PairsLater, GatesLater

\* acquirePairLease
LEMMA AcquirePairLater ==
    ASSUME SafeInv, NEW p \in PairId, NEW e, NEW w, AcquirePairLease(p, e, w)
    PROVE  Later
<1>1. /\ pair' = [pair EXCEPT ![p].fence = @ + 1, ![p].owner = w, ![p].live = TRUE]
      /\ UNCHANGED <<gate, dispatch, evidence, outbox, generation>>
      /\ TypeOK
  BY DEF AcquirePairLease, SafeInv
<1>2. pair[p] \in PairRow /\ \A q \in PairId \ {p} : pair'[q] = pair[q]
  BY <1>1 DEF TypeOK
<1>3. Leased(pair[p], pair'[p])
  BY <1>1, <1>2 DEF TypeOK, PairRow, SameInput, Leased
<1>4. \A q \in PairId : Leased(pair[q], pair'[q])
  BY <1>2, <1>3 DEF SameInput, Leased
<1> QED
  BY <1>1, <1>4, PairLeasesLater

\* ... and its end.
LEMMA ExpirePairLater ==
    ASSUME SafeInv, NEW p \in PairId, ExpirePairLease(p)
    PROVE  Later
<1>1. /\ pair' = [pair EXCEPT ![p].live = FALSE]
      /\ UNCHANGED <<gate, dispatch, evidence, outbox, generation>>
      /\ TypeOK
  BY DEF ExpirePairLease, SafeInv
<1>2. pair[p] \in PairRow /\ \A q \in PairId \ {p} : pair'[q] = pair[q]
  BY <1>1 DEF TypeOK
<1>3. Leased(pair[p], pair'[p])
  BY <1>1, <1>2 DEF TypeOK, PairRow, SameInput, Leased
<1>4. \A q \in PairId : Leased(pair[q], pair'[q])
  BY <1>2, <1>3 DEF SameInput, Leased
<1> QED
  BY <1>1, <1>4, PairLeasesLater

\* One gate is written: what it wants stays, or is revised and may be trusted.
LEMMA OneGateLater ==
    ASSUME SafeInv, NEW g \in GateId, NEW row, gate' = [gate EXCEPT ![g] = row],
           UNCHANGED <<pair, dispatch, evidence, generation>>, OutboxLater,
           row.pair = gate[g].pair, row.active = gate[g].active,
           row.quarantined = gate[g].quarantined,
           \/ row.desired = gate[g].desired
           \/ /\ row.revision > gate[g].revision /\ row.desired # "cancelled"
              /\ ActiveGate(g)' => Trusted(g)'
    PROVE  Later
<1>0. TypeOK
  BY DEF SafeInv
<1>1. gate'[g] = row /\ \A h \in GateId \ {g} : gate'[h] = gate[h]
  BY <1>0 DEF TypeOK
<1>2. ASSUME NEW q \in PairId
      PROVE  Still(q) /\ pair'[q].active = pair[q].active /\ pair'[q].srcAt = pair[q].srcAt
  BY StillPair DEF Leased, SameInput
<1>3. generation' \in Nat /\ generation <= generation'
  BY <1>0 DEF TypeOK
<1>4. PairsLater /\ GenerationLater /\ \A h \in GateId : ActiveGate(h) => Still(gate[h].pair)
  BY <1>2, <1>3, RowsStay
<1>5. \A h \in GateId \ {g} : GateLater(h)
  BY <1>1, <1>4, GateLeft
<1>6. GateLater(g)
  <2>1. CASE row.desired = gate[g].desired
    BY <1>1, <1>4, <2>1, GateLeft
  <2>2. CASE /\ row.revision > gate[g].revision /\ row.desired # "cancelled"
             /\ ActiveGate(g)' => Trusted(g)'
    BY <1>1, <2>2 DEF GateLater, Renewed
  <2> QED
    BY <2>1, <2>2
<1> QED
  BY <1>4, <1>5, <1>6 DEF Later, PairsLater, GatesLater

\* Publications are queued.
LEMMA PublicationsLater ==
    ASSUME NEW gates, Enqueue(Publications(gates))
    PROVE  OutboxLater
<1> DEFINE keys == Publications(gates)
<1>1. \A k \in keys : k[1] = "publish"
  BY DEF Publications
<1> HIDE DEF keys
<1> QED
  BY <1>1, QueueGrows DEF keys

\* Gate leases, the record of a publication, and the compensation of a late one.
LEMMA AcquireGateLater ==
    ASSUME SafeInv, NEW g \in GateId, NEW v, NEW w, AcquireGateLease(g, v, w)
    PROVE  Later
<1> DEFINE row == [gate[g] EXCEPT !.fence = @ + 1, !.owner = w, !.live = TRUE]
<1>1. gate' = [gate EXCEPT ![g] = row] /\ UNCHANGED <<pair, dispatch, evidence, outbox, generation>>
  BY DEF AcquireGateLease
<1>2. /\ row.pair = gate[g].pair /\ row.desired = gate[g].desired
      /\ row.active = gate[g].active /\ row.quarantined = gate[g].quarantined
  BY DEF SafeInv, TypeOK, GateRow
<1> HIDE DEF row
<1> QED
  BY <1>1, <1>2, OneGateLater, QueueStays

\* ... and its end.
LEMMA ExpireGateLater ==
    ASSUME SafeInv, NEW g \in GateId, ExpireGateLease(g)
    PROVE  Later
<1> DEFINE row == [gate[g] EXCEPT !.live = FALSE]
<1>1. gate' = [gate EXCEPT ![g] = row] /\ UNCHANGED <<pair, dispatch, evidence, outbox, generation>>
  BY DEF ExpireGateLease
<1>2. /\ row.pair = gate[g].pair /\ row.desired = gate[g].desired
      /\ row.active = gate[g].active /\ row.quarantined = gate[g].quarantined
  BY DEF SafeInv, TypeOK, GateRow
<1> HIDE DEF row
<1> QED
  BY <1>1, <1>2, OneGateLater, QueueStays

\* commitGatePublication
LEMMA CommitPublicationLater ==
    ASSUME SafeInv, NEW l, l.gate \in GateId, NEW run, NEW state,
           CommitGatePublication(l, run, state)
    PROVE  Later
<1> DEFINE g == l.gate
           row == [Unleased(gate[g]) EXCEPT !.checkRun = run, !.pubState = state,
                                            !.pubRev = l.revision]
<1>1. gate' = [gate EXCEPT ![g] = row] /\ UNCHANGED <<pair, dispatch, evidence, outbox, generation>>
  BY DEF CommitGatePublication
<1>2. gate[g] \in GateRow
  BY DEF SafeInv, TypeOK
<1>3. /\ row.pair = gate[g].pair /\ row.desired = gate[g].desired
      /\ row.active = gate[g].active /\ row.quarantined = gate[g].quarantined
  BY <1>2 DEF GateRow, Unleased
<1> HIDE DEF row
<1> QED
  BY <1>1, <1>3, OneGateLater, QueueStays

\* supersedeStaleGatePublication: the same state at another revision.
LEMMA SupersedeLater ==
    ASSUME SafeInv, NEW l, l.gate \in GateId, NEW run, SupersedeStaleGatePublication(l, run)
    PROVE  Later
<1> DEFINE g == l.gate
           known == Coalesce(gate[g].checkRun, run)
           desired == gate[g].desired
           row == [Revised(gate[g], desired) EXCEPT !.checkRun = known]
<1>1. /\ gate' = [gate EXCEPT ![g] = row] /\ Enqueue(Publications({g}))
      /\ UNCHANGED <<pair, dispatch, evidence, generation>>
  BY DEF SupersedeStaleGatePublication
<1>2. gate[g] \in GateRow
  BY DEF SafeInv, TypeOK
<1> HIDE DEF known, desired
<1>3. /\ row.pair = gate[g].pair /\ row.desired = desired
      /\ row.active = gate[g].active /\ row.quarantined = gate[g].quarantined
  BY <1>2 DEF GateRow, Revised
<1> HIDE DEF row
<1> QED
  BY <1>1, <1>3, OneGateLater, PublicationsLater DEF desired

\* Rejection and expiry: the gate fails, and may.
LEMMA FailPublicationLater ==
    ASSUME SafeInv, NEW l, l.gate \in GateId, NEW run, FailPublication(l, run),
           ActiveGate(l.gate) =>
               LET p == gate[l.gate].pair
               IN  dispatch[<<p, l.gate.epoch>>].late \/ Excused(p),
           past \subseteq past'
    PROVE  Later
<1> DEFINE g == l.gate
           known == Coalesce(run, gate[g].checkRun)
           desired == "failure"
           row == [Revised(gate[g], desired) EXCEPT !.checkRun = known]
<1>1. /\ gate' = [gate EXCEPT ![g] = row] /\ Enqueue(Publications({g}))
      /\ UNCHANGED <<pair, dispatch, evidence, generation>>
  BY DEF FailPublication
<1>2. gate[g] \in GateRow /\ gate[g].revision \in Nat /\ gate \in [GateId -> GateRow]
  BY DEF SafeInv, TypeOK, GateRow
<1> HIDE DEF known
<1>3. /\ row.pair = gate[g].pair /\ row.desired = "failure"
      /\ row.active = gate[g].active /\ row.quarantined = gate[g].quarantined
      /\ row.revision = gate[g].revision + 1
  BY <1>2 DEF GateRow, Revised
<1> HIDE DEF row
<1>4. gate'[g] = row
  BY <1>1, <1>2
<1>5. row.revision > gate[g].revision /\ row.desired # "cancelled"
  BY <1>2, <1>3
<1>6. ASSUME ActiveGate(g)' PROVE Trusted(g)'
  <2>1. ActiveGate(g) /\ gate'[g].pair = gate[g].pair
    BY <1>3, <1>4, <1>6 DEF ActiveGate
  <2>2. CASE dispatch[<<gate[g].pair, g.epoch>>].late
    <3>1. dispatch'[<<gate'[g].pair, g.epoch>>].late
      BY <1>1, <2>1, <2>2
    <3> QED
      BY <3>1 DEF Trusted, Says
  <2>3. CASE Excused(gate[g].pair)
    <3>1. ASSUME NEW q, q = gate[g].pair PROVE Excused(q)'
      BY <1>1, <2>3, <3>1, StillExcused
    <3>2. ASSUME NEW q, q = gate'[g].pair PROVE Excused(q)'
      BY <2>1, <3>1, <3>2
    <3>3. Excused(gate[g].pair)'
      BY <3>2
    <3> QED
      BY <3>3 DEF Trusted
  <2> QED
    BY <2>1, <2>2, <2>3
<1> QED
  BY <1>1, <1>3, <1>5, <1>6, OneGateLater, PublicationsLater

\* Planning, beginning and adopting a dispatch, and its deadline.
LEMMA DispatchRowLater ==
    ASSUME SafeInv, UNCHANGED <<gate, evidence, generation>>, OutboxLater,
           \A q \in PairId : Leased(pair[q], pair'[q]),
           \A d \in EpochId :
               /\ dispatch[d].state = "sent" =>
                     /\ dispatch'[d].state = "sent"
                     /\ dispatch'[d].dispatchedAt = dispatch[d].dispatchedAt
               /\ (dispatch'[d].state = "abandoned") = (dispatch[d].state = "abandoned")
               /\ dispatch[d].late => dispatch'[d].late
    PROVE  Later
<1>1. ASSUME NEW q \in PairId
      PROVE  pair'[q].active = pair[q].active /\ pair'[q].srcAt = pair[q].srcAt
  BY DEF Leased, SameInput
<1>2. ASSUME NEW q \in PairId, pair[q].epoch > 0 PROVE Still(q)
  <2>1. EpochOf(q) \in EpochId
    BY <1>2 DEF SafeInv, TypeOK, PairRow, EpochOf, EpochId, Epochs
  <2> QED
    BY <2>1 DEF Still, SameReview, Leased
<1>3. generation' \in Nat /\ generation <= generation'
  BY DEF SafeInv, TypeOK
<1> QED
  BY <1>1, <1>2, <1>3, RowsStay DEF Later, PairsLater, GatesLater

\* planDispatch, beginDispatchAttempt and adoptDispatch.
LEMMA DispatchLater ==
    ASSUME SafeInv, TypeOK, NEW l, <<l.pair, l.epoch>> \in EpochId,
           \/ \E now : PlanDispatch(l, now)
           \/ BeginDispatchAttempt(l)
           \/ \E id, at : AdoptDispatch(l, id, at)
    PROVE  Later
<1> DEFINE d == <<l.pair, l.epoch>>
<1>a. ASSUME NEW now, PlanDispatch(l, now)
      PROVE  /\ UNCHANGED <<pair, gate, evidence, outbox, generation>>
             /\ \A e \in EpochId : e # d => dispatch'[e] = dispatch[e]
  <2>1. CASE dispatch[d].state # "none"
    BY <1>a, <2>1 DEF PlanDispatch
  <2>2. CASE dispatch[d].state = "none"
    <3>1. dispatch' = [dispatch EXCEPT ![d].state = "planned", ![d].plannedAt = now]
      BY <1>a, <2>2 DEF PlanDispatch
    <3>2. \A e \in EpochId : e # d => dispatch'[e] = dispatch[e]
      BY <3>1 DEF TypeOK
    <3> QED
      BY <1>a, <3>2 DEF PlanDispatch
  <2> QED
    BY <2>1, <2>2
<1>b. ASSUME BeginDispatchAttempt(l)
      PROVE  /\ UNCHANGED <<pair, gate, evidence, outbox, generation>>
             /\ \A e \in EpochId : e # d => dispatch'[e] = dispatch[e]
  BY <1>b DEF BeginDispatchAttempt, TypeOK
<1>c. ASSUME NEW id, NEW at, AdoptDispatch(l, id, at)
      PROVE  /\ UNCHANGED <<gate, evidence, generation>>
             /\ \A p \in PairId : pair'[p] = pair[p] \/ pair'[p] = Unleased(pair[p])
             /\ \A e \in EpochId : e # d => dispatch'[e] = dispatch[e]
             /\ Enqueue({<<"timeout", l.pair, l.epoch>>})
  <2>1. \A p \in PairId : pair'[p] = pair[p] \/ pair'[p] = Unleased(pair[p])
    BY <1>c DEF AdoptDispatch, TypeOK
  <2>2. dispatch' = [dispatch EXCEPT ![d].state = "sent", ![d].comment = id,
                                     ![d].dispatchedAt = at]
    BY <1>c DEF AdoptDispatch
  <2>3. \A e \in EpochId : e # d => dispatch'[e] = dispatch[e]
    BY <2>2 DEF TypeOK
  <2> QED
    BY <1>c, <2>1, <2>3 DEF AdoptDispatch
<1>0. UNCHANGED <<gate, evidence, generation>>
  BY <1>a, <1>b, <1>c
<1>1. \A p \in PairId : pair'[p] = pair[p] \/ pair'[p] = Unleased(pair[p])
  BY <1>a, <1>b, <1>c
<1>2. \A p \in PairId : Leased(pair[p], pair'[p])
  BY <1>1, LeasedRows DEF TypeOK
<1>3. \A e \in EpochId : e # d => dispatch'[e] = dispatch[e]
  BY <1>a, <1>b, <1>c
<1>4. dispatch[d] \in DispatchRow /\ dispatch \in [EpochId -> DispatchRow]
  BY DEF TypeOK
<1>5. /\ dispatch[d].state = "sent" => dispatch'[d] = dispatch[d]
      /\ (dispatch'[d].state = "abandoned") = (dispatch[d].state = "abandoned")
      /\ dispatch'[d].late = dispatch[d].late
  <2>1. ASSUME NEW now, PlanDispatch(l, now)
        PROVE  \/ dispatch'[d] = dispatch[d]
               \/ /\ dispatch[d].state = "none" /\ dispatch'[d].state = "planned"
                  /\ dispatch'[d].late = dispatch[d].late
    <3>1. CASE dispatch[d].state # "none"
      BY <2>1, <3>1 DEF PlanDispatch
    <3>2. CASE dispatch[d].state = "none"
      <4>1. dispatch' = [dispatch EXCEPT ![d].state = "planned", ![d].plannedAt = now]
        BY <2>1, <3>2 DEF PlanDispatch
      <4> QED
        BY <1>4, <3>2, <4>1 DEF DispatchRow
    <3> QED
      BY <3>1, <3>2
  <2>2. ASSUME BeginDispatchAttempt(l)
        PROVE  /\ dispatch[d].state = "planned" /\ dispatch'[d].state = "attempting"
               /\ dispatch'[d].late = dispatch[d].late
    BY <1>4, <2>2 DEF BeginDispatchAttempt, MayBegin, DispatchRow
  <2>3. ASSUME NEW id, NEW at, AdoptDispatch(l, id, at)
        PROVE  /\ dispatch[d].state = "attempting" /\ dispatch'[d].state = "sent"
               /\ dispatch'[d].late = dispatch[d].late
    <3>1. dispatch' = [dispatch EXCEPT ![d].state = "sent", ![d].comment = id,
                                       ![d].dispatchedAt = at]
      BY <2>3 DEF AdoptDispatch
    <3>2. dispatch[d].state = "attempting"
      BY <2>3 DEF AdoptDispatch, Adoptable
    <3> QED
      BY <1>4, <3>1, <3>2 DEF DispatchRow
  <2> QED
    BY <2>1, <2>2, <2>3
<1>6. OutboxLater
  <2>1. UNCHANGED outbox \/ Enqueue({<<"timeout", l.pair, l.epoch>>})
    BY <1>a, <1>b, <1>c
  <2> DEFINE keys == {<<"timeout", l.pair, l.epoch>>}
  <2>2. \A k \in keys : k[1] = "timeout"
    OBVIOUS
  <2> HIDE DEF keys
  <2>3. Enqueue(keys) => OutboxLater
    BY <2>2, QueueGrows
  <2> QED
    BY <2>1, <2>3, QueueStays DEF keys
<1> HIDE DEF d
<1>7. \A e \in EpochId :
         /\ dispatch[e].state = "sent" =>
               /\ dispatch'[e].state = "sent"
               /\ dispatch'[e].dispatchedAt = dispatch[e].dispatchedAt
         /\ (dispatch'[e].state = "abandoned") = (dispatch[e].state = "abandoned")
         /\ dispatch[e].late => dispatch'[e].late
  BY <1>3, <1>5
<1> QED
  BY <1>0, <1>2, <1>6, <1>7, DispatchRowLater

\* The deadline passes.
LEMMA DeadlineLater ==
    ASSUME SafeInv, NEW d \in EpochId, PassDeadline(d)
    PROVE  Later
<1>1. /\ dispatch' = [dispatch EXCEPT ![d].late = TRUE]
      /\ UNCHANGED <<pair, gate, evidence, outbox, generation>>
      /\ TypeOK
  BY DEF PassDeadline, SafeInv
<1>2. \A e \in EpochId : /\ dispatch'[e].state = dispatch[e].state
                         /\ dispatch'[e].dispatchedAt = dispatch[e].dispatchedAt
                         /\ dispatch[e].late => dispatch'[e].late
  BY <1>1 DEF TypeOK, DispatchRow
<1>3. \A p \in PairId : Leased(pair[p], pair'[p])
  BY <1>1 DEF Leased, SameInput
<1> QED
  BY <1>1, <1>2, <1>3, QueueStays, DispatchRowLater

\* commitPairGate: the gate of the epoch is revised to a state that may be trusted.
LEMMA CommitRenews ==
    ASSUME SafeInv, NEW l, l.pair \in PairId, NEW desired, desired # "cancelled",
           CommitPairGate(l, desired), past \subseteq past',
           Says(l.pair, <<l.pair, l.epoch>>, desired) \/ Excused(l.pair)
    PROVE  /\ Later
           /\ \A g \in GateId : (gate[g].pair = l.pair /\ g.epoch = l.epoch /\ gate[g].active) =>
                 gate'[g].revision > gate[g].revision /\ Trusted(g)'
<1> DEFINE gates == {g \in Bound(l.pair) : g.epoch = l.epoch}
           p == l.pair
           d == <<l.pair, l.epoch>>
           state == Committed(d, desired)
<1>1. /\ pair' = [pair EXCEPT ![l.pair] = Unleased(@)]
      /\ gate' = [g \in GateId |->
            IF g \in gates THEN Revised(gate[g], state) ELSE gate[g]]
      /\ UNCHANGED <<dispatch, evidence, generation>>
      /\ Enqueue(Publications(gates))
  BY DEF CommitPairGate
<1>2. TypeOK
  BY DEF SafeInv
<1>3. \A q \in PairId : pair'[q] = pair[q] \/ pair'[q] = Unleased(pair[q])
  BY <1>1, <1>2 DEF TypeOK
<1>4. \A q \in PairId : Leased(pair[q], pair'[q])
  BY <1>2, <1>3, LeasedRows DEF TypeOK
<1>5. generation' \in Nat /\ generation \in Nat /\ generation <= generation'
  BY <1>1, <1>2 DEF TypeOK
<1>6. PairsLater /\ GenerationLater /\ \A q \in PairId : Still(q)
  BY <1>1, <1>4, <1>5, PairsLeased
<1>7. OutboxLater
  BY <1>1, PublicationsLater
<1>8. state # "cancelled"
  BY DEF Committed
<1>9. EpochOf(p) = d
  BY DEF CommitPairGate, HoldsPair, EpochOf
<1>10. Says(p, d, state) \/ Excused(p)
  <2>1. CASE desired = EvaluatePair(pair[p], dispatch[d], evidence[d])
    <3>1. desired = "success" => dispatch[d].state = "sent" /\ ~dispatch[d].late
      BY <2>1, SuccessReads
    <3>2. state = desired
      BY <3>1 DEF Committed
    <3> QED
      BY <2>1, <3>2 DEF Says
  <2>2. CASE desired = "pending" /\ dispatch[d].state = "sent"
    BY <2>2 DEF Says, Committed
  <2>3. CASE dispatch[d].late
    BY <2>3 DEF Says
  <2> QED
    BY <2>1, <2>2, <2>3 DEF Says
<1>11. \A g \in GateId : g \in gates <=> gate[g].active /\ gate[g].pair = p /\ g.epoch = l.epoch
  BY DEF Bound, BoundTo
<1> HIDE DEF gates, state
<1>12. ASSUME NEW g \in GateId, g \in gates
       PROVE  /\ gate'[g].revision = gate[g].revision + 1 /\ gate[g].revision \in Nat
              /\ gate'[g].pair = gate[g].pair /\ gate'[g].desired = state
              /\ gate'[g].active = gate[g].active /\ gate'[g].quarantined = gate[g].quarantined
  <2>1. gate'[g] = Revised(gate[g], state) /\ gate[g] \in GateRow
    BY <1>1, <1>2, <1>12 DEF TypeOK
  <2> QED
    BY <2>1, RevisionMoves, GateFrame
<1>13. ASSUME NEW g \in GateId, g \in gates
       PROVE  gate'[g].revision > gate[g].revision /\ Trusted(g)'
  <2>1. gate'[g].pair = p /\ gate'[g].desired = state /\ <<p, g.epoch>> = d
    BY <1>11, <1>12, <1>13
  <2>2. ASSUME NEW q, NEW e, NEW c, q = p, e = d, c = state PROVE Says(q, e, c)' \/ Excused(q)'
    <3>1. Still(q) /\ EpochOf(q) = e
      BY <1>6, <1>9, <2>2
    <3>2. CASE Says(p, d, state)
      <4>1. EpochOf(q)' = e /\ Says(q, EpochOf(q), c)'
        BY <2>2, <3>1, <3>2, StillSays
      <4> QED
        BY <4>1 DEF Says
    <3>3. CASE Excused(p)
      BY <2>2, <3>1, <3>3, StillExcused DEF Still
    <3> QED
      BY <1>10, <3>2, <3>3
  <2>3. Says(gate[g].pair, <<gate[g].pair, g.epoch>>, gate[g].desired)' \/ Excused(gate[g].pair)'
    <3> HIDE DEF p, d
    <3>1. ASSUME NEW q, NEW e, NEW c, q = gate'[g].pair, e = <<gate'[g].pair, g.epoch>>,
                 c = gate'[g].desired
          PROVE  Says(q, e, c)' \/ Excused(q)'
      BY <2>1, <2>2, <3>1
    <3> QED
      BY <3>1
  <2> QED
    BY <1>12, <1>13, <2>3 DEF Trusted
<1>14. ASSUME NEW g \in GateId PROVE GateLater(g)
  <2>1. CASE g \in gates
    <3>1. Renewed(g)
      BY <1>13, <2>1 DEF Renewed
    <3> QED
      BY <1>8, <1>12, <2>1, <3>1 DEF GateLater
  <2>2. CASE g \notin gates
    <3>1. gate'[g] = gate[g]
      BY <1>1, <2>2
    <3> QED
      BY <1>6, <3>1, GateLeft DEF ActiveGate
  <2> QED
    BY <2>1, <2>2
<1> QED
  BY <1>6, <1>7, <1>11, <1>13, <1>14 DEF Later, PairsLater

\* The gate that an evaluation is for; one of a revision to come is not queued yet.
LEMMA EvaluationAhead ==
    ASSUME NEW g \in GateId, NEW p, p.pull = g.key, NEW n \in Nat,
           \A k \in Keys : KeyKnown(k)
    PROVE  /\ GateFor(Evaluation(p, g.epoch, n)) = g
           /\ (gate[g].revision \in Nat /\ n > gate[g].revision) =>
                 Evaluation(p, g.epoch, n) \notin Keys
<1> DEFINE k == Evaluation(p, g.epoch, n)
<1>1. k[1] = "evaluate" /\ k[2] = p /\ k[3] = g.epoch /\ k[4] = n
  BY DEF Evaluation
<1>2. g = [key |-> g.key, epoch |-> g.epoch]
  BY DEF GateId
<1>3. GateFor(k) = g
  BY <1>1, <1>2 DEF GateFor
<1>4. ASSUME gate[g].revision \in Nat, n > gate[g].revision, k \in Keys PROVE FALSE
  <2>1. k[4] <= gate[GateFor(k)].revision
    BY <1>1, <1>4 DEF KeyKnown
  <2> QED
    BY <1>1, <1>3, <1>4, <2>1
<1> QED
  BY <1>3, <1>4

\* A comment, a review or a status: the gates of its pairs are evaluated again.
LEMMA EvidenceLater ==
    ASSUME SafeInv, \A k \in Keys : KeyKnown(k), NEW pairs \in SUBSET PairId, NEW input,
           InvalidateForEvidence(pairs, input)
    PROVE  Later
<1> DEFINE gates == BoundTo(pairs)
           keys == Publications(gates)
                     \cup {Evaluation(gate[g].pair, pair[gate[g].pair].epoch,
                                      gate[g].revision + 1) : g \in gates}
<1>1. /\ pair' = [p \in PairId |-> IF p \in pairs THEN Fenced(pair[p]) ELSE pair[p]]
      /\ gate' = [g \in GateId |->
                      IF g \in gates THEN RevisedAs(gate[g], "revoked", TRUE)
                      ELSE gate[g]]
      /\ evidence' = [d \in EpochId |->
                      IF \E p \in pairs : d = EpochOf(p)
                      THEN UpsertEvidence(evidence[d], input)
                      ELSE evidence[d]]
      /\ Enqueue(keys)
      /\ UNCHANGED <<dispatch, generation>>
  BY DEF InvalidateForEvidence, Invalidated
<1>2. TypeOK
  BY DEF SafeInv
<1>3. ASSUME NEW g \in gates
      PROVE  /\ g \in GateId /\ gate[g].active /\ gate[g].pair \in pairs
             /\ gate[g].pair.pull = g.key /\ pair[gate[g].pair].epoch = g.epoch
             /\ gate[g] \in GateRow /\ gate[g].revision \in Nat
  <2>1. g \in GateId /\ gate[g].active /\ gate[g].pair \in pairs
    BY DEF BoundTo
  <2>2. g = GateOf(gate[g].pair)
    BY <2>1, BoundGate
  <2>3. gate[g].pair.pull = g.key /\ pair[gate[g].pair].epoch = g.epoch
    BY <2>2 DEF GateOf
  <2> QED
    BY <1>2, <2>1, <2>3 DEF TypeOK, GateRow
<1>4. ASSUME NEW g \in GateId, ActiveGate(g), g \notin gates PROVE gate[g].pair \notin pairs
  BY <1>4 DEF ActiveGate, BoundTo
<1>5. \A g \in gates : Evaluation(gate[g].pair, pair[gate[g].pair].epoch,
                                  gate[g].revision + 1) \in keys
  OBVIOUS
<1>6. ASSUME NEW k \in keys, k[1] = "evaluate"
      PROVE  \E g \in gates : k = Evaluation(gate[g].pair, g.epoch, gate[g].revision + 1)
  <2>1. k \notin Publications(gates)
    BY <1>6 DEF Publications
  <2>2. PICK g \in gates : k = Evaluation(gate[g].pair, pair[gate[g].pair].epoch,
                                          gate[g].revision + 1)
    BY <2>1
  <2> QED
    BY <1>3, <2>2
<1>7. \A k \in keys : k[1] # "reconcile"
  BY DEF Publications, Evaluation
<1> HIDE DEF gates, keys
<1>8. ASSUME NEW g \in gates
      PROVE  /\ gate'[g].pair = gate[g].pair /\ gate'[g].active
             /\ gate'[g].quarantined = gate[g].quarantined /\ gate'[g].desired = "revoked"
             /\ gate'[g].revision = gate[g].revision + 1
  <2>1. gate'[g] = RevisedAs(gate[g], "revoked", TRUE)
    BY <1>1, <1>3
  <2> QED
    BY <1>3, <2>1 DEF GateRow, Revised, RevisedAs
<1>9. OutboxLater /\ \A k \in keys : k \in Keys \/ Fresh(k)
  <2>1. ASSUME NEW k \in keys, k[1] = "evaluate"
        PROVE  /\ gate'[GateFor(k)].pair = k[2]
               /\ k[4] > 0 /\ k[4] <= gate'[GateFor(k)].revision
    <3>1. PICK g \in gates : k = Evaluation(gate[g].pair, g.epoch, gate[g].revision + 1)
      BY <1>6, <2>1
    <3>2. GateFor(k) = g
      BY <1>3, <3>1, EvaluationAhead
    <3>3. k[2] = gate[g].pair /\ k[4] = gate[g].revision + 1
      BY <3>1 DEF Evaluation
    <3> QED
      BY <1>3, <1>8, <3>2, <3>3
  <2> QED
    BY <1>1, <1>7, <2>1, QueueGrows
<1>10. ASSUME NEW g \in gates PROVE GateLater(g)
  <2> DEFINE k == Evaluation(gate[g].pair, g.epoch, gate[g].revision + 1)
  <2>1. k \in keys
    BY <1>3, <1>5
  <2>2. k \notin Keys
    BY <1>3, EvaluationAhead
  <2>3. Fresh(k) /\ gate'[g].pair = gate[g].pair /\ gate[g].revision + 1 \in Nat
    BY <1>3, <1>8, <1>9, <2>1, <2>2
  <2>4. gate'[g].revision > gate[g].revision
    BY <1>3, <1>8
  <2>5. Renewed(g)
    BY <2>3, <2>4 DEF Renewed
  <2> QED
    BY <1>3, <1>8, <2>5 DEF GateLater
<1>11. ASSUME NEW p \in PairId
       PROVE  /\ Leased(pair[p], pair'[p])
              /\ p \in pairs => pair'[p].fence > pair[p].fence
              /\ (p \notin pairs /\ pair[p].epoch > 0) => Still(p)
  <2>1. pair[p] \in PairRow
    BY <1>2 DEF TypeOK
  <2>2. CASE p \in pairs
    <3>1. pair'[p] = Fenced(pair[p])
      BY <1>1, <2>2
    <3>2. pair'[p].fence = pair[p].fence + 1 /\ pair[p].fence \in Nat
      BY <2>1, <3>1, RowsKept
    <3> QED
      BY <2>1, <2>2, <3>1, <3>2, LeasedRows
  <2>3. CASE p \notin pairs
    <3>1. pair'[p] = pair[p]
      BY <1>1, <2>3
    <3>2. Leased(pair[p], pair'[p])
      BY <2>1, <3>1, LeasedRows
    <3>3. ASSUME pair[p].epoch > 0 PROVE Still(p)
      <4>1. EpochOf(p) \in EpochId
        BY <2>1, <3>3 DEF PairRow, EpochOf, EpochId, Epochs
      <4>2. \A q \in pairs : EpochOf(p) # EpochOf(q)
        BY <2>3 DEF EpochOf
      <4>3. evidence'[EpochOf(p)] = evidence[EpochOf(p)]
        BY <1>1, <4>1, <4>2
      <4> QED
        BY <1>1, <3>2, <4>3, StillPair
    <3> QED
      BY <2>3, <3>2, <3>3
  <2> QED
    BY <2>2, <2>3
<1>12. PairsLater
  BY <1>11 DEF PairsLater, PairLater, Leased
<1>13. GenerationLater
  BY <1>1, <1>2, <1>11 DEF GenerationLater, Leased, SameInput, TypeOK
<1>14. ASSUME NEW g \in GateId, g \notin gates PROVE GateLater(g)
  <2>1. gate'[g] = gate[g]
    BY <1>1, <1>14
  <2>2. ActiveGate(g) => Still(gate[g].pair)
    BY <1>4, <1>11, <1>14, ActiveGateFacts
  <2> QED
    BY <2>1, <2>2, GateLeft
<1> QED
  BY <1>9, <1>10, <1>12, <1>13, <1>14 DEF Later, PairsLater

\* A push: every gate outside quarantine waits for the reconciliation it asks for.
LEMMA PushLater ==
    ASSUME SafeInv, \A k \in Keys : KeyKnown(k), ApplyPush
    PROVE  Later
<1> DEFINE pairs == {p \in PairId : pair[p].active /\ ~pair[p].quarantined}
           gates == BoundTo(pairs)
                      \cup {g \in GateId : IsMerge(g) /\ gate[g].active
                                             /\ ~gate[g].quarantined}
           k == <<"reconcile", generation + 1>>
           keys == Publications(gates) \cup {k}
<1>1. /\ generation' = generation + 1
      /\ pair' = [p \in PairId |-> IF p \in pairs THEN Fenced(pair[p]) ELSE pair[p]]
      /\ gate' = [g \in GateId |->
                      IF g \in gates THEN Revised(gate[g], "revoked") ELSE gate[g]]
      /\ Enqueue(keys)
      /\ UNCHANGED <<dispatch, evidence>>
  BY DEF ApplyPush
<1>2. TypeOK /\ generation \in Nat
  BY DEF SafeInv, TypeOK
<1>3. k \notin Keys
  <2>1. ASSUME k \in Keys PROVE k[2] <= generation
    BY <2>1 DEF KeyKnown
  <2> QED
    BY <1>2, <2>1
<1>4. OutboxLater /\ Fresh(k)
  <2> HIDE DEF gates
  <2>1. \A j \in keys : j[1] # "evaluate" /\ (j[1] = "reconcile" => j[2] = generation + 1)
    BY DEF Publications
  <2>2. k \in keys
    OBVIOUS
  <2> HIDE DEF keys, k
  <2> QED
    BY <1>1, <1>2, <1>3, <2>1, <2>2, QueueGrows
<1>5. ASSUME NEW g \in GateId, ActiveGate(g), g \notin gates PROVE gate[g].pair \notin pairs
  BY <1>5 DEF ActiveGate, BoundTo
<1> HIDE DEF gates, keys, k
<1>6. ASSUME NEW p \in PairId
      PROVE  /\ Leased(pair[p], pair'[p])
             /\ p \in pairs => pair'[p].fence > pair[p].fence
             /\ Still(p)
  <2>1. pair[p] \in PairRow
    BY <1>2 DEF TypeOK
  <2>2. pair'[p] \in {pair[p], Fenced(pair[p])}
    BY <1>1
  <2>3. Leased(pair[p], pair'[p])
    BY <2>1, <2>2, LeasedRows
  <2>4. p \in pairs => pair'[p] = Fenced(pair[p])
    BY <1>1
  <2>5. Still(p)
    BY <1>1, <2>3, StillPair
  <2> QED
    BY <2>1, <2>3, <2>4, <2>5, RowsKept
<1>7. PairsLater
  BY <1>6 DEF PairsLater, PairLater, Leased
<1>8. GenerationLater
  BY <1>1, <1>2 DEF GenerationLater
<1>9. ASSUME NEW g \in GateId PROVE GateLater(g)
  <2>1. CASE g \in gates
    <3>1. gate'[g] = Revised(gate[g], "revoked") /\ gate[g] \in GateRow
      BY <1>1, <1>2, <2>1 DEF TypeOK
    <3>2. /\ gate'[g].active = gate[g].active /\ gate'[g].quarantined = gate[g].quarantined
          /\ gate'[g].desired = "revoked" /\ gate'[g].revision = gate[g].revision + 1
          /\ gate[g].revision \in Nat
      BY <3>1 DEF GateRow, Revised
    <3>3. Renewed(g)
      BY <1>2, <1>4, <3>2 DEF Renewed, k
    <3> QED
      BY <3>2, <3>3 DEF GateLater
  <2>2. CASE g \notin gates
    <3>1. gate'[g] = gate[g]
      BY <1>1, <2>2
    <3> QED
      BY <1>6, <3>1, GateLeft DEF ActiveGate
  <2> QED
    BY <2>1, <2>2
<1> QED
  BY <1>4, <1>7, <1>8, <1>9 DEF Later, PairsLater

\* A quarantine: every gate fails, and so do the rows it is decided from.
LEMMA QuarantineLater ==
    ASSUME SafeInv, NEW gates \in SUBSET GateId, NEW more, Quarantine(gates, more),
           \A g \in gates : gate[g].active,
           \A g \in GateId : ActiveGate(g) => g \in gates,
           generation' \in Nat, generation <= generation',
           \A k \in more : k[1] = "reconcile" /\ k[2] <= generation'
    PROVE  Later
<1> DEFINE pairs == {p \in PairId : pair[p].active}
           keys == Publications(gates) \cup more
<1>1. /\ pair' = [p \in PairId |->
              IF p \in pairs THEN [Fenced(pair[p]) EXCEPT !.quarantined = TRUE]
              ELSE pair[p]]
      /\ dispatch' = [d \in EpochId |->
              IF \E p \in pairs : d = EpochOf(p) THEN Abandoned(dispatch[d])
              ELSE dispatch[d]]
      /\ gate' = [g \in GateId |->
              IF g \in gates
              THEN [Revised(gate[g], "failure") EXCEPT !.quarantined = TRUE]
              ELSE gate[g]]
      /\ Enqueue(keys)
      /\ UNCHANGED evidence
  BY DEF Quarantine
<1>2. TypeOK /\ generation \in Nat
  BY DEF SafeInv, TypeOK
<1>3. OutboxLater
  <2>1. \A j \in keys : j[1] # "evaluate" /\ (j[1] = "reconcile" => j[2] <= generation')
    BY DEF Publications
  <2> HIDE DEF keys
  <2> QED
    BY <1>1, <2>1, QueueGrows
<1> HIDE DEF keys
<1>4. ASSUME NEW p \in PairId
      PROVE  /\ pair'[p].active = pair[p].active /\ pair'[p].srcAt = pair[p].srcAt
             /\ pair[p].active => pair'[p].fence > pair[p].fence /\ pair'[p].quarantined
             /\ (~pair[p].active /\ pair[p].epoch > 0) => Still(p)
  <2>1. pair[p] \in PairRow
    BY <1>2 DEF TypeOK
  <2>2. CASE pair[p].active
    <3>1. pair'[p] = [Fenced(pair[p]) EXCEPT !.quarantined = TRUE]
      BY <1>1, <2>2
    <3>2. /\ pair'[p].active = pair[p].active /\ pair'[p].srcAt = pair[p].srcAt
          /\ pair'[p].fence = pair[p].fence + 1 /\ pair'[p].quarantined
          /\ pair[p].fence \in Nat
      BY <2>1, <3>1 DEF PairRow, Fenced
    <3> QED
      BY <2>2, <3>2
  <2>3. CASE ~pair[p].active
    <3>1. pair'[p] = pair[p]
      BY <1>1, <2>3
    <3>2. Leased(pair[p], pair'[p])
      BY <2>1, <3>1, LeasedRows
    <3>3. ASSUME pair[p].epoch > 0 PROVE Still(p)
      <4>1. EpochOf(p) \in EpochId
        BY <2>1, <3>3 DEF PairRow, EpochOf, EpochId, Epochs
      <4>2. \A q \in pairs : EpochOf(p) # EpochOf(q)
        BY <2>3 DEF EpochOf
      <4>3. dispatch'[EpochOf(p)] = dispatch[EpochOf(p)]
        BY <1>1, <4>1, <4>2
      <4> QED
        BY <1>1, <3>2, <4>3, StillPair
    <3> QED
      BY <2>3, <3>1, <3>3
  <2> QED
    BY <2>2, <2>3
<1>5. PairsLater
  BY <1>4 DEF PairsLater, PairLater
<1>6. GenerationLater
  BY <1>2, <1>4 DEF GenerationLater
<1>7. ASSUME NEW g \in GateId PROVE GateLater(g)
  <2>1. CASE g \in gates
    <3>1. gate'[g] = [Revised(gate[g], "failure") EXCEPT !.quarantined = TRUE]
          /\ gate[g] \in GateRow
      BY <1>1, <1>2, <2>1 DEF TypeOK
    <3>2. /\ gate'[g].active = gate[g].active /\ gate'[g].quarantined
          /\ gate'[g].pair = gate[g].pair
          /\ gate'[g].desired = "failure" /\ gate'[g].revision = gate[g].revision + 1
          /\ gate[g].revision \in Nat
      BY <3>1 DEF GateRow, Revised
    <3>3. ASSUME ActiveGate(g)' PROVE Renewed(g)
      <4>1. ActiveGate(g)
        BY <3>2, <3>3 DEF ActiveGate
      <4>2. pair[gate[g].pair].active /\ gate[g].pair \in PairId
        BY <4>1, ActiveGateFacts
      <4>3. pair'[gate'[g].pair].quarantined
        BY <1>4, <3>2, <4>2
      <4>4. Trusted(g)'
        BY <3>2, <4>3 DEF Trusted, Says, EvaluatePair
      <4> QED
        BY <3>2, <4>4 DEF Renewed
    <3> QED
      BY <3>2, <3>3 DEF GateLater
  <2>2. CASE g \notin gates
    <3>1. gate'[g] = gate[g] /\ ~ActiveGate(g)
      BY <1>1, <2>2
    <3> QED
      BY <3>1, GateLeft
  <2> QED
    BY <2>1, <2>2
<1> QED
  BY <1>3, <1>5, <1>6, <1>7 DEF Later, PairsLater

\* A malformed or unscoped event.
LEMMA MalformedLater ==
    ASSUME SafeInv, ApplyMalformed \/ QuarantineAll
    PROVE  Later
<1>1. generation \in Nat
  BY DEF SafeInv, TypeOK
<1>2. CASE ApplyMalformed
  <2> DEFINE gates == BoundTo({p \in PairId : pair[p].active})
                        \cup {g \in GateId : IsMerge(g) /\ gate[g].active}
             more == {<<"reconcile", generation + 1>>}
  <2>1. Quarantine(gates, more) /\ generation' = generation + 1
    BY <1>2 DEF ApplyMalformed
  <2>2. gates \in SUBSET GateId /\ \A g \in gates : gate[g].active
    BY DEF BoundTo
  <2>3. ASSUME NEW g \in GateId, ActiveGate(g) PROVE g \in gates
    <3>1. gate[g].active /\ gate[g].pair \in PairId /\ pair[gate[g].pair].active
      BY <2>3, ActiveGateFacts DEF ActiveGate
    <3> QED
      BY <3>1 DEF BoundTo
  <2>4. \A k \in more : k[1] = "reconcile" /\ k[2] <= generation'
    BY <1>1, <2>1
  <2>5. generation' \in Nat /\ generation <= generation'
    BY <1>1, <2>1
  <2> HIDE DEF gates, more
  <2> QED
    BY <2>1, <2>2, <2>3, <2>4, <2>5, QuarantineLater
<1>3. CASE QuarantineAll
  <2> DEFINE gates == {g \in GateId : gate[g].active}
             more == {}
  <2>1. Quarantine(gates, more) /\ generation' \in {0, generation + 1}
        /\ (generation' = 0 => generation = 0)
    BY <1>1, <1>3 DEF QuarantineAll
  <2>2. gates \in SUBSET GateId /\ \A g \in gates : gate[g].active
    OBVIOUS
  <2>3. \A g \in GateId : ActiveGate(g) => g \in gates
    BY DEF ActiveGate
  <2>4. \A k \in more : k[1] = "reconcile" /\ k[2] <= generation'
    OBVIOUS
  <2>5. generation' \in Nat /\ generation <= generation'
    BY <1>1, <2>1
  <2> HIDE DEF gates, more
  <2> QED
    BY <2>1, <2>2, <2>3, <2>4, <2>5, QuarantineLater
<1> QED
  BY <1>2, <1>3

-----------------------------------------------------------------------------
(* Project: what a report does to a gate may be trusted.                   *)

\* The gates that a report touches: the one of the pair under review, or the next
\* one, which does not exist yet.
LEMMA TouchedGate ==
    ASSUME HistoryInv, NEW r \in PullRef, NEW g \in TouchedBy(r), HasRoom(r)
    PROVE  /\ g \in GateId /\ g.key = r.pair.pull
           /\ SamePair(r) => /\ gate[g].active /\ gate[g].pair = r.pair
                             /\ g.epoch = pair[r.pair].epoch
                             /\ g \in Bound(r.pair)
           /\ (~SamePair(r) /\ g = NewGateId(r)) =>
                 gate[g].revision = 0 /\ g.epoch = NextEpoch(r.pair.pull)
           /\ (~SamePair(r) /\ g # NewGateId(r)) => gate[g].active
<1>0. SafeInv /\ TypeOK /\ r.pair \in PairId
  BY DEF HistoryInv, SafeInv, PullRef
<1>1. CASE g \in BoundTo(Current(r.pair.pull))
  <2>1. g \in GateId /\ gate[g].active /\ gate[g].pair \in PairId
        /\ gate[g].pair.pull = r.pair.pull /\ pair[gate[g].pair].active
    BY <1>1 DEF BoundTo, Current
  <2>2. g = GateOf(gate[g].pair)
    BY <1>0, <2>1, BoundGate
  <2>3. g.key = r.pair.pull /\ g.epoch = pair[gate[g].pair].epoch
    BY <2>1, <2>2 DEF GateOf
  <2>4. ASSUME SamePair(r) PROVE gate[g].pair = r.pair /\ g \in Bound(r.pair)
    <3>1. gate[g].pair = r.pair
      BY <1>0, <2>1, <2>4 DEF SamePair, SafeInv, ActiveGateMatchesPair
    <3> QED
      BY <2>1, <3>1 DEF Bound, BoundTo
  <2>5. ~SamePair(r) => g # NewGateId(r)
    <3>1. ASSUME g = NewGateId(r) PROVE FALSE
      <4>1. gate[g].pair \in Known(r.pair.pull) /\ pair[gate[g].pair].epoch = NextEpoch(r.pair.pull)
        BY <1>0, <2>1, <2>3, <3>1 DEF NewGateId, Known, TypeOK
      <4>2. r.pair.pull \in Pulls
        BY <1>0, KeyKinds
      <4>3. pair[gate[g].pair].epoch < NextEpoch(r.pair.pull) /\ pair[gate[g].pair].epoch \in Nat
        BY <1>0, <2>1, <4>1, <4>2, NextEpochAbove, StoreAssumption DEF TypeOK, PairRow
      <4> QED
        BY <4>1, <4>3
    <3> QED
      BY <3>1
  <2> QED
    BY <2>1, <2>3, <2>4, <2>5
<1>2. CASE g = NewGateId(r) /\ ~SamePair(r)
  <2>1. g.key = r.pair.pull /\ g.epoch = NextEpoch(r.pair.pull) /\ r.pair.pull \in Pulls
    BY <1>0, <1>2, KeyKinds DEF NewGateId
  <2>2. NextEpoch(r.pair.pull) \in Epochs
    BY <1>0, <1>2, <2>1, NextEpochAbove, StoreAssumption DEF HasRoom, Epochs
  <2>3. g \in GateId
    BY <1>2, <2>1, <2>2 DEF NewGateId, GateId
  <2>4. gate[g].revision \in Nat
    BY <1>0, <2>3 DEF TypeOK, GateRow
  <2>5. \A p \in Known(g.key) : pair[p].epoch < g.epoch /\ pair[p].epoch \in Nat
                                  /\ g.epoch \in Nat
    BY <1>0, <2>1, NextEpochAbove, StoreAssumption DEF TypeOK, PairRow, Known
  <2>6. ~(gate[g].revision > 0)
    BY <2>1, <2>3, <2>5 DEF HistoryInv, GateEpochsKnown
  <2> QED
    BY <1>2, <2>1, <2>3, <2>4, <2>6
<1> QED
  BY <1>1, <1>2 DEF TouchedBy

\* Project, pair by pair and gate by gate.
LEMMA ProjectCases ==
    ASSUME HistoryInv, NEW refs \in SUBSET PullRef,
           \A r \in refs : HasRoom(r),
           \A r, s \in refs : r.pair.pull = s.pair.pull => r = s,
           NEW closing \in SUBSET PairId,
           \A p \in closing : \A r \in refs : p.pull # r.pair.pull,
           NEW more, Project(refs, closing, more)
    PROVE  /\ \A p \in closing :
                 pair'[p] = [Fenced(pair[p]) EXCEPT !.active = FALSE, !.state = "closed"]
           /\ \A r \in refs : \A p \in PairId :
                 p.pull = r.pair.pull => pair'[p] = PairAfter(p, r)
           /\ \A p \in PairId : (p \notin closing /\ \A r \in refs : r.pair.pull # p.pull) =>
                 pair'[p] = pair[p]
           /\ \A g \in BoundTo(closing) : gate'[g] = RevisedAs(gate[g], "failure", FALSE)
           /\ \A r \in refs : \A g \in TouchedBy(r) : gate'[g] = GateAfter(g, r)
           /\ \A g \in GateId :
                 (g \notin BoundTo(closing) /\ \A r \in refs : g \notin TouchedBy(r)) =>
                    gate'[g] = gate[g]
<1> DEFINE refOf(n)   == CHOOSE r \in refs : r.pair.pull = n
           causeOf(g) == CHOOSE r \in refs : g \in TouchedBy(r)
           moved      == {r.pair.pull : r \in refs}
           touched    == {g \in GateId : \E r \in refs : g \in TouchedBy(r)}
           shut       == BoundTo(closing)
<1>1. /\ pair' = [p \in PairId |->
              IF p \in closing
              THEN [Fenced(pair[p]) EXCEPT !.active = FALSE, !.state = "closed"]
              ELSE IF p.pull \in moved THEN PairAfter(p, refOf(p.pull))
              ELSE pair[p]]
      /\ gate' = [g \in GateId |->
              IF g \in shut THEN RevisedAs(gate[g], "failure", FALSE)
              ELSE IF g \in touched THEN GateAfter(g, causeOf(g))
              ELSE gate[g]]
  BY DEF Project
<1>2. SafeInv
  BY DEF HistoryInv
<1>3. ASSUME NEW r \in refs
      PROVE  r.pair.pull \in moved /\ refOf(r.pair.pull) = r /\ r \in PullRef
  OBVIOUS
<1>4. ASSUME NEW r \in refs, NEW g \in TouchedBy(r)
      PROVE  g \in GateId /\ g \in touched /\ causeOf(g) = r /\ g \notin shut
  <2>1. g \in GateId /\ g.key = r.pair.pull
    BY TouchedGate
  <2>2. causeOf(g) \in refs /\ g \in TouchedBy(causeOf(g))
    OBVIOUS
  <2>3. g.key = causeOf(g).pair.pull
    <3> DEFINE s == causeOf(g)
    <3> HIDE DEF s
    <3>1. s \in PullRef /\ g \in TouchedBy(s) /\ HasRoom(s)
      BY <2>2 DEF s
    <3>2. g.key = s.pair.pull
      BY <3>1, TouchedGate
    <3> QED
      BY <3>2 DEF s
  <2>4. g \notin shut
    <3>1. ASSUME g \in shut PROVE FALSE
      <4>1. gate[g].active /\ gate[g].pair \in closing /\ gate[g].pair \in PairId
        BY <3>1 DEF BoundTo
      <4>2. g = GateOf(gate[g].pair)
        BY <1>2, <2>1, <4>1, BoundGate
      <4> QED
        BY <2>1, <4>1, <4>2 DEF GateOf
    <3> QED
      BY <3>1
  <2> QED
    BY <2>1, <2>2, <2>3, <2>4
<1>5. \A g \in shut : g \in GateId
  BY DEF BoundTo
<1>6. \A g \in touched : \E r \in refs : g \in TouchedBy(r)
  OBVIOUS
<1>7. \A n \in moved : \E r \in refs : r.pair.pull = n
  OBVIOUS
<1> HIDE DEF refOf, causeOf, moved, touched
<1>8. \A r \in refs : \A p \in PairId : p.pull = r.pair.pull => pair'[p] = PairAfter(p, r)
  BY <1>1, <1>3
<1>9. \A r \in refs : \A g \in TouchedBy(r) : gate'[g] = GateAfter(g, r)
  BY <1>1, <1>4
<1> QED
  BY <1>1, <1>5, <1>6, <1>7, <1>8, <1>9

\* The work that a report asks for is queued for the gate it touches, under the
\* gate's new revision.
LEMMA WorkFits ==
    ASSUME HistoryInv, NEW r \in PullRef, HasRoom(r), NEW k \in WorkFor(r),
           k[1] = "evaluate", \A g \in TouchedBy(r) : gate'[g] = GateAfter(g, r),
           \A j \in Keys : KeyKnown(j)
    PROVE  /\ gate'[GateFor(k)].pair = k[2]
           /\ k[4] > 0 /\ k[4] <= gate'[GateFor(k)].revision
<1>0. SafeInv /\ TypeOK /\ r.pair \in PairId
  BY DEF HistoryInv, SafeInv, PullRef
<1>1. CASE ~SamePair(r)
  <2> DEFINE g == NewGateId(r)
  <2>1. k \in PairWork(r.pair, NextEpoch(r.pair.pull), 1)
    BY <1>1 DEF WorkFor
  <2>2. k = Evaluation(r.pair, NextEpoch(r.pair.pull), 1)
    BY <2>1 DEF PairWork
  <2>3. g \in TouchedBy(r)
    BY <1>1 DEF TouchedBy
  <2>4. g \in GateId /\ g.key = r.pair.pull /\ g.epoch = NextEpoch(r.pair.pull)
    BY <1>1, <2>3, TouchedGate
  <2>5. GateFor(k) = g /\ k[2] = r.pair /\ k[4] = 1
    BY <2>2, <2>4, EvaluationAhead DEF Evaluation
  <2>6. gate'[g].pair = r.pair /\ gate'[g].revision = 1
    <3>1. gate'[g] = GateAfter(g, r)
      BY <2>3
    <3> HIDE DEF g
    <3>2. GateAfter(g, r).revision = 1
      BY <1>0, <1>1, <2>4, GateAfterRevision DEF g
    <3>3. GateAfter(g, r).pair = r.pair
      BY <1>0, <1>1, <2>4, GateAfterFacts DEF g
    <3> QED
      BY <3>1, <3>2, <3>3
  <2> QED
    BY <2>5, <2>6
<1>2. CASE SamePair(r)
  <2>1. PICK g \in Bound(r.pair) : k \in PairWork(r.pair, pair[r.pair].epoch, gate[g].revision + 1)
    BY <1>2 DEF WorkFor
  <2>2. k = Evaluation(r.pair, pair[r.pair].epoch, gate[g].revision + 1)
    BY <2>1 DEF PairWork
  <2>3. g \in TouchedBy(r)
    BY <1>0, <1>2, <2>1 DEF TouchedBy, Bound, BoundTo, Current, SamePair
  <2>4. g \in GateId /\ g.key = r.pair.pull /\ g.epoch = pair[r.pair].epoch
        /\ gate[g].pair = r.pair
    BY <1>2, <2>3, TouchedGate
  <2>5. gate[g].revision \in Nat
    BY <1>0, <2>4 DEF TypeOK, GateRow
  <2>6. GateFor(k) = g /\ k[2] = r.pair /\ k[4] = gate[g].revision + 1
    BY <2>2, <2>4, <2>5, EvaluationAhead DEF Evaluation
  <2>7. gate'[g].pair = r.pair /\ gate'[g].revision = gate[g].revision + 1
    <3>1. gate'[g] = GateAfter(g, r)
      BY <2>3
    <3>2. GateAfter(g, r).revision = gate[g].revision + 1
      BY <1>0, <1>2, <2>4, GateAfterRevision
    <3>3. GateAfter(g, r).pair = gate[g].pair
      BY <1>0, <1>2, <2>4, GateAfterFence
    <3> QED
      BY <2>4, <3>1, <3>2, <3>3
  <2> QED
    BY <2>5, <2>6, <2>7
<1> QED
  BY <1>1, <1>2

\* Work for a gate of the future is fresh.
LEMMA WorkIsFresh ==
    ASSUME HistoryInv, NEW r \in PullRef, HasRoom(r), NEW g \in TouchedBy(r),
           SamePair(r) \/ g = NewGateId(r), IsOpen(r), ~r.draft,
           ~(SamePair(r) /\ pair[r.pair].quarantined),
           \A j \in Keys : KeyKnown(j),
           \A k \in WorkFor(r) : k \in Keys \/ Fresh(k)
    PROVE  \E n \in Nat : Fresh(Evaluation(r.pair, g.epoch, n))
<1>0. SafeInv /\ TypeOK /\ r.pair \in PairId
  BY DEF HistoryInv, SafeInv, PullRef
<1>1. g \in GateId /\ g.key = r.pair.pull /\ gate[g].revision \in Nat
  BY <1>0, TouchedGate DEF TypeOK, GateRow
<1>2. CASE SamePair(r)
  <2> DEFINE n == gate[g].revision + 1
             k == Evaluation(r.pair, g.epoch, n)
  <2>1. g \in Bound(r.pair) /\ g.epoch = pair[r.pair].epoch
    BY <1>2, TouchedGate
  <2>2. k \in PairWork(r.pair, pair[r.pair].epoch, n)
    BY <2>1 DEF PairWork
  <2>3. k \in WorkFor(r)
    BY <1>2, <2>1, <2>2 DEF WorkFor
  <2>4. k \notin Keys /\ n \in Nat
    BY <1>1, EvaluationAhead
  <2> QED
    BY <2>3, <2>4
<1>3. CASE ~SamePair(r)
  <2> DEFINE k == Evaluation(r.pair, g.epoch, 1)
  <2>1. gate[g].revision = 0 /\ g.epoch = NextEpoch(r.pair.pull)
    BY <1>3, TouchedGate
  <2>2. k \in PairWork(r.pair, NextEpoch(r.pair.pull), 1)
    BY <2>1 DEF PairWork
  <2>3. k \in WorkFor(r)
    BY <1>3, <2>2 DEF WorkFor
  <2>4. k \notin Keys
    BY <1>1, <2>1, EvaluationAhead
  <2> QED
    BY <2>3, <2>4
<1> QED
  BY <1>2, <1>3

\* A gate that a report touches waits for an evaluation, or the report itself says
\* why it need not.
LEMMA ReportRenews ==
    ASSUME HistoryInv, NEW r \in PullRef, r \in past', HasRoom(r), NEW g \in TouchedBy(r),
           gate'[g] = GateAfter(g, r), pair'[r.pair] = PairAfter(r.pair, r),
           \A j \in Keys : KeyKnown(j),
           \A k \in WorkFor(r) : k \in Keys \/ Fresh(k)
    PROVE  GateLater(g) /\ (ActiveGate(g)' => Renewed(g))
<1>0. SafeInv /\ TypeOK /\ r.pair \in PairId
  BY DEF HistoryInv, SafeInv, PullRef
<1>1. g \in GateId /\ gate[g] \in GateRow /\ gate[g].revision \in Nat
  BY <1>0, TouchedGate DEF TypeOK, GateRow
<1>2. CASE ~SamePair(r) /\ g # NewGateId(r)
  <2>1. gate'[g] = RevisedAs(gate[g], "failure", FALSE)
    BY <1>2 DEF GateAfter
  <2>2. ~gate'[g].active /\ gate'[g].quarantined = gate[g].quarantined
        /\ gate'[g].desired = "failure"
    BY <1>1, <2>1 DEF GateRow, Revised, RevisedAs
  <2> QED
    BY <2>2 DEF GateLater, ActiveGate
<1>3. CASE SamePair(r) \/ g = NewGateId(r)
  <2>1. gate'[g].active => IsOpen(r)
    BY <1>0, <1>1, <1>3, GateAfterFacts
  <2>0. SamePair(r) => gate'[g].desired = DesiredAfter(r) /\ gate'[g].pair = gate[g].pair
    <3>1. SamePair(r) => /\ GateAfter(g, r).desired = DesiredAfter(r)
                         /\ GateAfter(g, r).pair = gate[g].pair
      BY <1>0, <1>1, GateAfterFacts
    <3> QED
      BY <3>1
  <2>a. ~SamePair(r) => gate'[g].desired \in {"revoked", "failure"} /\ gate'[g].pair = r.pair
    <3> SUFFICES ASSUME ~SamePair(r)
                 PROVE  gate'[g].desired \in {"revoked", "failure"} /\ gate'[g].pair = r.pair
      OBVIOUS
    <3> DEFINE open == IsOpen(r)
               want == IF open THEN "revoked" ELSE "failure"
    <3>1. gate'[g] = NewGate(r.pair, r.pair.head, open, want)
      BY <1>3 DEF GateAfter
    <3>2. want \in {"revoked", "failure"}
      OBVIOUS
    <3> HIDE DEF open, want
    <3> QED
      BY <3>1, <3>2 DEF NewGate
  <2>2. gate'[g].pair = r.pair
    <3>1. CASE SamePair(r)
      BY <2>0, <3>1, TouchedGate
    <3>2. CASE ~SamePair(r)
      BY <2>a, <3>2
    <3> QED
      BY <3>1, <3>2
  <2>3. gate'[g].revision > gate[g].revision
    <3>1. CASE SamePair(r)
      BY <1>0, <1>1, <3>1, GateAfterRevision
    <3>2. CASE ~SamePair(r)
      BY <1>0, <1>1, <1>3, <3>2, GateAfterRevision, TouchedGate
    <3> QED
      BY <3>1, <3>2
  <2>4. gate'[g].desired # "cancelled"
    <3>1. CASE SamePair(r)
      BY <2>0, <3>1 DEF DesiredAfter
    <3>2. CASE ~SamePair(r)
      BY <2>a, <3>2
    <3> QED
      BY <3>1, <3>2
  <2>5. gate[g].revision > 0 => /\ gate'[g].active => gate[g].active
                                /\ gate[g].quarantined => gate'[g].quarantined
    <3>1. CASE SamePair(r)
      BY <1>0, <1>1, <3>1, TouchedGate, GateAfterFacts
    <3>2. CASE ~SamePair(r)
      BY <1>3, <3>2, TouchedGate
    <3> QED
      BY <3>1, <3>2
  <2>6. ASSUME gate'[g].active PROVE Renewed(g)
    <3>0. IsOpen(r) /\ pair'[r.pair].srcAt = r.at
      <4>1. PairAfter(r.pair, r).srcAt = r.at
        BY <1>0, PairAfterSource
      <4> QED
        BY <2>1, <2>6, <4>1
    <3>1. CASE r.draft
      <4>1. r \in past' /\ r.pair.pull = gate'[g].pair.pull /\ r.at >= pair'[gate'[g].pair].srcAt
        <5>1. r.at \in Nat
          BY StoreAssumption DEF PullRef
        <5> QED
          BY <2>2, <3>0, <5>1
      <4>2. Excused(gate[g].pair)'
        BY <3>1, <4>1 DEF Excused
      <4> QED
        BY <2>3, <4>2 DEF Renewed, Trusted
    <3>2. CASE SamePair(r) /\ pair[r.pair].quarantined
      <4>1. pair'[r.pair].quarantined
        <5>1. PairAfter(r.pair, r).quarantined = pair[r.pair].quarantined
          BY <1>0, <3>2, PairAfterFacts
        <5> QED
          BY <3>2, <5>1
      <4>2. gate'[g].desired = "failure"
        BY <2>0, <3>2 DEF DesiredAfter
      <4>3. Trusted(g)'
        BY <2>2, <4>1, <4>2 DEF Trusted, Says, EvaluatePair
      <4> QED
        BY <2>3, <4>3 DEF Renewed
    <3>3. CASE ~r.draft /\ ~(SamePair(r) /\ pair[r.pair].quarantined)
      <4>1. \E n \in Nat : Fresh(Evaluation(r.pair, g.epoch, n))
        BY <1>3, <3>0, <3>3, WorkIsFresh
      <4> QED
        BY <2>2, <2>3, <4>1 DEF Renewed
    <3> QED
      BY <3>1, <3>2, <3>3
  <2> QED
    BY <2>4, <2>5, <2>6 DEF GateLater, ActiveGate
<1> QED
  BY <1>2, <1>3

\* The projection left the gate and its pair alone.
Untouched(g, refs, closing) ==
    /\ ActiveGate(g) /\ gate'[g] = gate[g] /\ Still(gate[g].pair)
    /\ pair'[gate[g].pair] = pair[gate[g].pair]
    /\ gate[g].pair \notin closing
    /\ \A r \in refs : r.pair.pull # gate[g].pair.pull

\* Applying reports and closing pairs: a gate is renewed, closed or left alone.
LEMMA ProjectLater ==
    ASSUME HistoryInv, TypeOK', \A k \in Keys : KeyKnown(k),
           NEW refs \in SUBSET PullRef, refs \subseteq past, past \subseteq past',
           \A r \in refs : HasRoom(r),
           \A r, s \in refs : r.pair.pull = s.pair.pull => r = s,
           NEW closing \in SUBSET PairId,
           \A p \in closing : \A r \in refs : p.pull # r.pair.pull,
           NEW more, Project(refs, closing, more),
           \A k \in more : \E g \in GateId : /\ ActiveGate(g)
                                             /\ k = Evaluation(gate[g].pair, g.epoch, gate[g].revision),
           generation' = generation + 1
    PROVE  /\ Later
           /\ \A k \in more : k \in Keys \/ Fresh(k)
           /\ \A g \in GateId : ActiveGate(g)' => Renewed(g) \/ Untouched(g, refs, closing)
<1> DEFINE touched == {g \in GateId : \E r \in refs : g \in TouchedBy(r)}
           shut == BoundTo(closing)
           keys == Publications(touched \cup shut)
                     \cup (UNION {WorkFor(r) : r \in refs}) \cup more
<1>0. SafeInv /\ TypeOK /\ ActiveIsRevised
  BY DEF HistoryInv, SafeInv
<1>1. Enqueue(keys) /\ UNCHANGED <<dispatch, evidence>>
  BY DEF Project
<1>2. /\ \A p \in closing :
                 pair'[p] = [Fenced(pair[p]) EXCEPT !.active = FALSE, !.state = "closed"]
      /\ \A r \in refs : \A p \in PairId :
                 p.pull = r.pair.pull => pair'[p] = PairAfter(p, r)
      /\ \A p \in PairId : (p \notin closing /\ \A r \in refs : r.pair.pull # p.pull) =>
                 pair'[p] = pair[p]
      /\ \A g \in BoundTo(closing) : gate'[g] = RevisedAs(gate[g], "failure", FALSE)
      /\ \A r \in refs : \A g \in TouchedBy(r) : gate'[g] = GateAfter(g, r)
      /\ \A g \in GateId :
                 (g \notin BoundTo(closing) /\ \A r \in refs : g \notin TouchedBy(r)) =>
                    gate'[g] = gate[g]
  BY ProjectCases
<1>3. GatesKept
  BY ProjectKept DEF Steady, Kept
<1>4. \A r \in refs : \A k \in WorkFor(r) : k \in keys
  OBVIOUS
<1>5. \A k \in more : k \in keys
  OBVIOUS
<1>6. ASSUME NEW k \in keys
      PROVE  k[1] = "publish" \/ (\E r \in refs : k \in WorkFor(r)) \/ k \in more
  <2> HIDE DEF touched, shut
  <2>1. \A j \in Publications(touched \cup shut) : j[1] = "publish"
    BY DEF Publications
  <2> QED
    BY <2>1
<1> HIDE DEF touched, shut, keys
\* The queue.
<1>7. \A k \in keys : k[1] # "reconcile"
  <2>1. \A r \in refs : \A k \in WorkFor(r) : k[1] # "reconcile"
    BY DEF WorkFor, PairWork, Evaluation
  <2>2. \A k \in more : k[1] # "reconcile"
    BY DEF Evaluation
  <2> QED
    BY <1>6, <2>1, <2>2
<1>8. ASSUME NEW k \in keys, k[1] = "evaluate"
      PROVE  /\ gate'[GateFor(k)].pair = k[2]
             /\ k[4] > 0 /\ k[4] <= gate'[GateFor(k)].revision
  <2>1. CASE \E r \in refs : k \in WorkFor(r)
    BY <1>2, <1>8, <2>1, WorkFits
  <2>2. CASE k \in more
    <3>1. PICK g \in GateId : /\ ActiveGate(g)
                              /\ k = Evaluation(gate[g].pair, g.epoch, gate[g].revision)
      BY <2>2
    <3>2. gate[g].pair.pull = g.key
      BY <1>0, <3>1, ActiveGateFacts DEF GateOf
    <3>3. gate[g].revision \in Nat /\ gate'[g].revision \in Nat /\ gate[g].revision > 0
      BY <1>0, <3>1 DEF TypeOK, GateRow, ActiveIsRevised, ActiveGate
    <3>4. GateFor(k) = g /\ k[2] = gate[g].pair /\ k[4] = gate[g].revision
      BY <3>1, <3>2, <3>3, EvaluationAhead DEF Evaluation
    <3>5. gate'[g].pair = gate[g].pair /\ gate'[g].revision >= gate[g].revision
      BY <1>3, <3>3 DEF GatesKept, GateKept
    <3> QED
      BY <3>3, <3>4, <3>5
  <2> QED
    BY <1>6, <1>8, <2>1, <2>2
<1>9. OutboxLater /\ \A k \in keys : k \in Keys \/ Fresh(k)
  BY <1>1, <1>7, <1>8, QueueGrows
\* The pairs.
<1>10. ASSUME NEW p \in PairId PROVE PairLater(p)
  <2>1. pair[p] \in PairRow
    BY <1>0 DEF TypeOK
  <2>2. CASE p \in closing
    <3>1. pair'[p] = [Fenced(pair[p]) EXCEPT !.active = FALSE, !.state = "closed"]
      BY <1>2, <2>2
    <3>2. pair'[p].fence = pair[p].fence + 1 /\ pair'[p].srcAt = pair[p].srcAt
          /\ pair[p].fence \in Nat
      BY <2>1, <3>1 DEF PairRow, Fenced
    <3> QED
      BY <3>2 DEF PairLater
  <2>3. CASE \E r \in refs : r.pair.pull = p.pull
    <3>1. PICK r \in refs : r.pair.pull = p.pull
      BY <2>3
    <3>2. pair'[p] = PairAfter(p, r) /\ r \in PullRef /\ r \in past
      BY <1>2, <3>1
    <3>3. pair'[p].srcAt = pair[p].srcAt \/ (r.pair = p /\ pair'[p].srcAt = r.at)
      BY <1>0, <3>2, PairAfterSource
    <3>4. ASSUME pair[p].epoch > 0 PROVE Still(p) \/ pair'[p].fence > pair[p].fence
      <4>1. CASE pair'[p] = pair[p]
        BY <1>1, <2>1, <4>1, StillPair, LeasedRows
      <4>2. CASE pair'[p].fence = pair[p].fence + 1
        BY <2>1, <4>2, RowsKept
      <4> QED
        BY <1>0, <3>2, <3>4, <4>1, <4>2, PairAfterKept
    <3> QED
      BY <3>2, <3>3, <3>4 DEF PairLater
  <2>4. CASE p \notin closing /\ \A r \in refs : r.pair.pull # p.pull
    <3>1. pair'[p] = pair[p]
      BY <1>2, <2>4
    <3> QED
      BY <1>1, <2>1, <3>1, StillPair, LeasedRows DEF PairLater
  <2> QED
    BY <2>2, <2>3, <2>4
<1>11. GenerationLater
  BY <1>0 DEF GenerationLater, TypeOK
\* The gates.
<1>12. ASSUME NEW g \in GateId
       PROVE  /\ GateLater(g)
              /\ ActiveGate(g)' => Renewed(g) \/ Untouched(g, refs, closing)
  <2>1. CASE g \in BoundTo(closing)
    <3>1. gate'[g] = RevisedAs(gate[g], "failure", FALSE) /\ gate[g] \in GateRow
      BY <1>0, <1>2, <2>1 DEF TypeOK
    <3>2. ~gate'[g].active /\ gate'[g].quarantined = gate[g].quarantined
          /\ gate'[g].desired = "failure"
      BY <3>1 DEF GateRow, Revised, RevisedAs
    <3> QED
      BY <3>2 DEF GateLater, ActiveGate
  <2>2. CASE \E r \in refs : g \in TouchedBy(r)
    <3>1. PICK r \in refs : g \in TouchedBy(r)
      BY <2>2
    <3>2. /\ r \in PullRef /\ r \in past' /\ HasRoom(r) /\ gate'[g] = GateAfter(g, r)
          /\ \A k \in WorkFor(r) : k \in Keys \/ Fresh(k)
      BY <1>2, <1>4, <1>9, <3>1
    <3>3. pair'[r.pair] = PairAfter(r.pair, r)
      BY <1>2, <3>1, <3>2 DEF PullRef
    <3>4. GateLater(g) /\ (ActiveGate(g)' => Renewed(g))
      BY <3>1, <3>2, <3>3, ReportRenews
    <3> QED
      BY <3>4
  <2>3. CASE g \notin BoundTo(closing) /\ \A r \in refs : g \notin TouchedBy(r)
    <3>1. gate'[g] = gate[g]
      BY <1>2, <2>3
    <3>2. ASSUME ActiveGate(g)
          PROVE  /\ gate[g].pair \in PairId /\ gate[g].pair \notin closing
                 /\ \A r \in refs : r.pair.pull # gate[g].pair.pull
      <4>1. gate[g].active /\ gate[g].pair \in PairId /\ pair[gate[g].pair].active
        BY <1>0, <3>2, ActiveGateFacts DEF ActiveGate
      <4>2. gate[g].pair \notin closing
        BY <2>3, <4>1 DEF BoundTo
      <4>3. ASSUME NEW r \in refs, r.pair.pull = gate[g].pair.pull PROVE FALSE
        <5>1. g \in BoundTo(Current(r.pair.pull))
          BY <4>1, <4>3 DEF BoundTo, Current
        <5> QED
          BY <2>3, <5>1 DEF TouchedBy
      <4> QED
        BY <4>1, <4>2, <4>3
    <3>3. ASSUME ActiveGate(g) PROVE pair'[gate[g].pair] = pair[gate[g].pair]
      BY <1>2, <3>2, <3>3
    <3>4. ASSUME ActiveGate(g) PROVE Still(gate[g].pair)
      BY <1>0, <1>1, <3>2, <3>3, <3>4, StillPair, LeasedRows DEF TypeOK
    <3>5. ActiveGate(g)' => ActiveGate(g)
      BY <3>1 DEF ActiveGate
    <3>6. GateLater(g)
      BY <3>1, <3>4, GateLeft
    <3> QED
      BY <3>1, <3>2, <3>3, <3>4, <3>5, <3>6 DEF Untouched
  <2> QED
    BY <2>1, <2>2, <2>3
<1> QED
  BY <1>5, <1>9, <1>10, <1>11, <1>12 DEF Later

\* A pull_request webhook.
LEMMA PullRequestLater ==
    ASSUME HistoryInv, TypeOK', \A k \in Keys : KeyKnown(k), NEW r \in PullRef, r \in past,
           past \subseteq past', ApplyPullRequest(r)
    PROVE  Later
<1> DEFINE refs == IF Repeated(r) THEN {} ELSE {r}
           none == {}
<1>1. Project(refs, none, none) /\ generation' = generation + 1
  BY DEF ApplyPullRequest
<1>2. /\ refs \in SUBSET PullRef /\ refs \subseteq past /\ \A x \in refs : HasRoom(x)
      /\ \A x, y \in refs : x.pair.pull = y.pair.pull => x = y
  BY DEF ApplyPullRequest
<1>3. none \in SUBSET PairId /\ \A x : x \notin none
  OBVIOUS
<1> HIDE DEF refs, none
<1> QED
  BY <1>1, <1>2, <1>3, ProjectLater

\* A reconciliation with a list that is not older than the rows leaves every gate
\* assured: what it does not renew, it has evaluated again.
LEMMA ReconcileRenews ==
    ASSUME HistoryInv, TypeOK', \A k \in Keys : KeyKnown(k),
           \A g \in GateId : gate[g].desired # "cancelled",
           NEW token, NEW pulls \in Lists, pulls \subseteq past, past \subseteq past',
           ReconcileOpenPullRequests(token, pulls),
           \A r \in pulls : \A p \in PairId :
               (p.pull = r.pair.pull /\ pair[p].active) => pair[p].srcAt <= r.at,
           \A w \in Workers : worker'[w].pc # "idle" => worker'[w].item \in Keys,
           \A w \in Workers : worker'[w] = worker[w] \/ worker'[w].item[1] = "reconcile"
    PROVE  Later /\ \A g \in GateId : ActiveGate(g)' => Assured(g)'
<1>0. SafeInv /\ TypeOK
  BY DEF HistoryInv, SafeInv
<1>1. PICK S \in SUBSET Pulls : \E f \in [S -> PullRef] :
            /\ \A n \in S : f[n].pair.pull = n
            /\ pulls = {f[n] : n \in S}
  BY DEF Lists
<1>2. /\ pulls \in SUBSET PullRef
      /\ \A x, y \in pulls : x.pair.pull = y.pair.pull => x = y
  BY <1>1
<1> DEFINE listed  == {r.pair.pull : r \in pulls}
           applied == {r \in pulls : ~Outdated(r) /\ ~Repeated(r)}
           again   == {r \in pulls \ applied :
                          SamePair(r) /\ ~pair[r.pair].quarantined}
           closing == {p \in PairId : pair[p].active /\ p.pull \notin listed}
           more    == UNION {{Evaluation(r.pair, pair[r.pair].epoch, gate[g].revision) :
                            g \in Bound(r.pair)} : r \in again}
<1>3. /\ Project(applied, closing, more) /\ generation' = generation + 1
      /\ \A r \in applied : HasRoom(r)
  BY DEF ReconcileOpenPullRequests
<1>4. /\ applied \in SUBSET PullRef /\ applied \subseteq past /\ closing \in SUBSET PairId
      /\ \A x, y \in applied : x.pair.pull = y.pair.pull => x = y
      /\ \A p \in closing : \A r \in applied : p.pull # r.pair.pull
  BY <1>2
<1>5. ASSUME NEW r \in again, NEW g \in Bound(r.pair)
      PROVE  /\ g \in GateId /\ ActiveGate(g) /\ gate[g].pair = r.pair
             /\ g.epoch = pair[r.pair].epoch
  <2>1. g \in GateId /\ gate[g].active /\ gate[g].pair = r.pair /\ r.pair \in PairId
    BY <1>2 DEF Bound, BoundTo, PullRef
  <2>2. ActiveGate(g)
    BY <2>1 DEF ActiveGate
  <2> QED
    BY <1>0, <2>1, <2>2, ActiveGateFacts
<1>6. ASSUME NEW k \in more
      PROVE  \E g \in GateId : /\ ActiveGate(g)
                               /\ k = Evaluation(gate[g].pair, g.epoch, gate[g].revision)
  <2>1. PICK r \in again : \E g \in Bound(r.pair) :
            k = Evaluation(r.pair, pair[r.pair].epoch, gate[g].revision)
    OBVIOUS
  <2>2. PICK g \in Bound(r.pair) : k = Evaluation(r.pair, pair[r.pair].epoch, gate[g].revision)
    BY <2>1
  <2> QED
    BY <1>5, <2>2
<1>7. \A r \in again : \A g \in Bound(r.pair) :
         Evaluation(r.pair, pair[r.pair].epoch, gate[g].revision) \in more
  OBVIOUS
<1>8. \A p \in PairId : (pair[p].active /\ p \notin closing) => \E r \in pulls : r.pair.pull = p.pull
  OBVIOUS
<1>9. \A r \in pulls : r \in applied \/ Outdated(r) \/ Repeated(r)
  OBVIOUS
<1>10. \A r \in pulls : (r \notin applied /\ SamePair(r) /\ ~pair[r.pair].quarantined) => r \in again
  OBVIOUS
<1> HIDE DEF listed, applied, again, closing, more
<1>11. /\ Later
       /\ \A k \in more : k \in Keys \/ Fresh(k)
       /\ \A g \in GateId : ActiveGate(g)' => Renewed(g) \/ Untouched(g, applied, closing)
  <2>1. \A k \in more : \E g \in GateId : /\ ActiveGate(g)
                                          /\ k = Evaluation(gate[g].pair, g.epoch, gate[g].revision)
    BY <1>6
  <2>2. /\ applied \in SUBSET PullRef /\ applied \subseteq past /\ past \subseteq past'
        /\ \A r \in applied : HasRoom(r)
        /\ \A r, s \in applied : r.pair.pull = s.pair.pull => r = s
        /\ closing \in SUBSET PairId
        /\ \A p \in closing : \A r \in applied : p.pull # r.pair.pull
        /\ Project(applied, closing, more) /\ generation' = generation + 1
    BY <1>3, <1>4
  <2> QED
    BY <2>1, <2>2, ProjectLater
<1>12. OutboxLater
  BY <1>11 DEF Later
<1>13. ASSUME NEW g \in GateId, ActiveGate(g), gate'[g] = gate[g],
              pair'[gate[g].pair] = pair[gate[g].pair], gate[g].pair \notin closing,
              \A r \in applied : r.pair.pull # gate[g].pair.pull
       PROVE  Assured(g)'
  <2> DEFINE p == gate[g].pair
  <2>1. /\ p \in PairId /\ pair[p].active /\ pair[p].epoch = g.epoch /\ g = GateOf(p)
        /\ gate[g].quarantined = pair[p].quarantined /\ gate[g].active
    BY <1>0, <1>13, ActiveGateFacts DEF ActiveGate
  <2>2. PICK r \in pulls : r.pair.pull = p.pull
    BY <1>8, <1>13, <2>1
  <2>3. r \notin applied /\ r.pair \in PairId /\ r.at \in Nat
    BY <1>2, <1>13, <2>2, StoreAssumption DEF PullRef
  <2>4. ~Outdated(r)
    <3>1. Current(r.pair.pull) # {}
      BY <2>1, <2>2 DEF Current
    <3>2. ASSUME NEW c \in Current(r.pair.pull) PROVE ~(r.at < pair[c].srcAt)
      <4>1. c \in PairId /\ c.pull = r.pair.pull /\ pair[c].active /\ pair[c].srcAt \in Nat
        BY <1>0 DEF Current, TypeOK, PairRow
      <4>2. pair[c].srcAt <= r.at
        BY <2>2, <4>1
      <4> QED
        BY <2>3, <4>1, <4>2
    <3> QED
      BY <3>1, <3>2 DEF Outdated
  <2>5. pair[r.pair].active /\ SamePair(r)
    BY <1>9, <2>2, <2>3, <2>4 DEF Repeated, SamePair
  <2>6. r.pair = p
    BY <1>0, <2>1, <2>2, <2>3, <2>5 DEF SafeInv, ActiveGateMatchesPair
  <2>7. CASE pair[p].quarantined
    <3>1. gate[g].desired = "failure"
      BY <1>0, <2>1, <2>7 DEF SafeInv, QuarantineFailsClosed
    <3>2. pair'[gate'[g].pair].quarantined /\ gate'[g].desired = "failure"
      BY <1>13, <2>7, <3>1
    <3>3. Trusted(g)'
      BY <3>2 DEF Trusted, Says, EvaluatePair
    <3> QED
      BY <3>3 DEF Assured
  <2>8. CASE ~pair[p].quarantined
    <3> SUFFICES ASSUME NEW k, k = Evaluation(p, g.epoch, gate[g].revision)
                 PROVE  Assured(g)'
      OBVIOUS
    <3>1. r \in again
      BY <1>10, <2>2, <2>3, <2>5, <2>6, <2>8
    <3>2. g \in Bound(p)
      BY <2>1 DEF Bound, BoundTo
    <3>3. k \in more
      BY <1>7, <2>1, <2>6, <3>1, <3>2
    <3>4. ASSUME k \in Keys PROVE k \in Todo' /\ Pending(k)'
      <4>1. p.pull = g.key /\ gate[g].revision \in Nat
        BY <1>0, <2>1 DEF GateOf, TypeOK, GateRow
      <4>2. GateFor(k) = g /\ k[1] = "evaluate" /\ k[4] = gate[g].revision
        BY <4>1, EvaluationAhead DEF Evaluation
      <4>3. ~Over(k)
        BY <2>1, <2>8, <4>1, <4>2 DEF Over
      <4>4. Pending(k)
        BY <3>4, <4>2, <4>3 DEF KeyKnown
      <4>5. k \in Todo'
        BY <1>12, <4>4 DEF OutboxLater, Pending, At
      <4>6. \A w \in Workers : worker'[w].item = k => worker'[w].pc # "complete"
        BY <4>2, <4>4 DEF Pending
      <4> QED
        BY <4>5, <4>6 DEF Pending
    <3>5. k \in Todo' /\ Pending(k)'
      BY <1>11, <1>12, <3>3, <3>4, FreshIsPending
    <3>6. Reaches(k, gate'[g].pair, g.epoch)
      BY <1>13 DEF Reaches, Evaluation
    <3>7. Revisited(gate[g].pair, g.epoch)'
      BY <3>5, <3>6 DEF Revisited, Reaches
    <3> QED
      BY <3>7 DEF Assured
  <2> QED
    BY <2>7, <2>8
<1> QED
  BY <1>11, <1>12, <1>13, RenewedIsAssured DEF Untouched

-----------------------------------------------------------------------------
(* The workers settle what their steps owe.                                *)

\* The steps at which a worker knows more than its lease.
Judged == {"eval_evidence", "eval_live", "eval_commit", "disp_reject", "pub_live",
           "pub_reject", "rec_list", "rec_apply"}

\* A handler goes on with its own steps.
SameHandler(old, new) ==
    /\ new \in GateSteps => old \in GateSteps
    /\ new \in EvaluateSteps \cup {"eval_acquire", "eval_held"} =>
          old \in EvaluateSteps \cup {"eval_acquire", "eval_held"}
    /\ new \in DispatchSteps \cup {"disp_load", "disp_acquire", "disp_held"} =>
          old \in DispatchSteps \cup {"disp_load", "disp_acquire", "disp_held"}
    /\ new \in {"rec_begin", "rec_list", "rec_apply"} =>
          old \in {"rec_begin", "rec_list", "rec_apply"}

\* The topics whose items nothing waits for.
Plain == {"publish", "timeout", "dispatch"}

\* The work of the item in hand is done.
ItemCloses(w) == \A k \in Keys : k = worker[w].item => Closes(k)

\* A step of a handler that goes on with its item.
LEMMA Settled ==
    ASSUME NEW w \in Workers, OutboxLater, TopicPart(w), worker[w].pc # "idle",
           worker'[w].item = worker[w].item, SameHandler(worker[w].pc, worker'[w].pc),
           worker'[w].pc \in Judged => JudgePart(w)',
           worker'[w].pc = "complete" => Topic(w) \in Plain \/ ItemCloses(w)
    PROVE  Settles(w)
<1>1. worker[w].item \in Keys /\ worker[w].item \in Keys'
  BY DEF TopicPart, OutboxLater
<1>2. TopicPart(w)'
  <2> DEFINE old == worker[w].pc  new == worker'[w].pc  topic == Topic(w)
  <2>1. Topic(w)' = topic
    BY DEF Topic
  <2>2. /\ old \in GateSteps => topic = "publish"
        /\ old \in EvaluateSteps \cup {"eval_acquire", "eval_held"} =>
              topic \in {"evaluate", "timeout"}
        /\ old \in DispatchSteps \cup {"disp_load", "disp_acquire", "disp_held"} =>
              topic = "dispatch"
        /\ old \in {"rec_begin", "rec_list", "rec_apply"} => topic = "reconcile"
    BY DEF TopicPart
  <2>3. /\ new \in GateSteps => topic = "publish"
        /\ new \in EvaluateSteps \cup {"eval_acquire", "eval_held"} =>
              topic \in {"evaluate", "timeout"}
        /\ new \in DispatchSteps \cup {"disp_load", "disp_acquire", "disp_held"} =>
              topic = "dispatch"
        /\ new \in {"rec_begin", "rec_list", "rec_apply"} => topic = "reconcile"
    BY <2>2 DEF SameHandler
  <2> QED
    BY <1>1, <2>1, <2>3 DEF TopicPart
<1>3. JudgePart(w)'
  BY DEF JudgePart, Judged
<1>4. ASSUME Topic(w) \in Plain PROVE ItemCloses(w)
  BY <1>4 DEF ItemCloses, Closes, Reaches, Topic, Plain
<1> QED
  BY <1>1, <1>2, <1>3, <1>4 DEF Settles, ItemCloses

\* return and throw
LEMMA Returned ==
    ASSUME worker \in [Workers -> Local], NEW w \in Workers, OutboxLater, TopicPart(w),
           worker[w].pc # "idle", Become(w, Done(w)),
           Topic(w) \in Plain \/ ItemCloses(w)
    PROVE  Settles(w)
<1>1. worker'[w] = Done(w)
  BY Becomes
<1>2. worker'[w].pc = "complete" /\ worker'[w].item = worker[w].item
  BY <1>1 DEF Done, Idle
<1>3. SameHandler(worker[w].pc, "complete")
  BY DEF SameHandler, GateSteps, AfterGate, EvaluateSteps, DispatchSteps
<1> QED
  BY <1>2, <1>3, Settled DEF Judged

\* An exception: the item is not done.
LEMMA Thrown ==
    ASSUME worker \in [Workers -> Local], NEW w \in Workers, OutboxLater, TopicPart(w),
           worker[w].pc # "idle", Become(w, Failed(w))
    PROVE  Settles(w)
<1>1. worker'[w] = Failed(w)
  BY Becomes
<1>2. worker'[w].pc = "fail" /\ worker'[w].item = worker[w].item
  BY <1>1 DEF Failed, Idle
<1>3. SameHandler(worker[w].pc, "fail")
  BY DEF SameHandler, GateSteps, AfterGate, EvaluateSteps, DispatchSteps
<1> QED
  BY <1>2, <1>3, Settled DEF Judged

\* The worker has nothing in hand.
LEMMA Rested ==
    ASSUME worker \in [Workers -> Local], NEW w \in Workers, Become(w, Idle)
    PROVE  Settles(w)
<1>1. worker'[w] = Idle
  BY Becomes
<1>2. worker'[w].pc = "idle"
  BY <1>1 DEF Idle
<1>3. TopicPart(w)'
  BY <1>2 DEF TopicPart, GateSteps, AfterGate, EvaluateSteps, DispatchSteps
<1>4. JudgePart(w)'
  BY <1>2 DEF JudgePart
<1> QED
  BY <1>2, <1>3, <1>4 DEF Settles

\* A step of a handler that has nothing to judge.
LEMMA Moved ==
    ASSUME worker \in [Workers -> Local], NEW w \in Workers, OutboxLater, TopicPart(w),
           worker[w].pc # "idle", NEW x, Become(w, x), x.item = worker[w].item,
           SameHandler(worker[w].pc, x.pc), x.pc \notin Judged, x.pc # "complete"
    PROVE  Settles(w)
<1>1. worker'[w] = x
  BY Becomes
<1> QED
  BY <1>1, Settled

\* GitHub shows the pull request otherwise than the pair: a report that excuses.
LEMMA LiveExcuses ==
    ASSUME GithubType, ReportsInTime, NEW p \in PairId, ~LiveMatches(p)
    PROVE  Excused(p)
<1> DEFINE r == live[p.pull]
<1>1. p.pull \in Pulls
  BY KeyKinds
<1>2. r \in past /\ r.pair.pull = p.pull /\ r.at \in Nat /\ pair[p].srcAt <= r.at
  BY <1>1, StoreAssumption DEF GithubType, ReportsInTime, PullRef
<1>3. ~(r.pair = p /\ IsOpen(r) /\ ~r.draft)
  BY DEF LiveMatches
<1> HIDE DEF r
<1>4. r.at >= pair[p].srcAt
  BY <1>2
<1> QED
  BY <1>2, <1>3, <1>4 DEF Excused

-----------------------------------------------------------------------------
(* publishGate                                                             *)

\* The parts of the invariants that a step of worker w starts from.
LEMMA Parts ==
    ASSUME WorkerInv, DecisionInv, NEW w \in Workers
    PROVE  /\ worker \in [Workers -> Local] /\ worker[w] \in Local
           /\ HistoryInv /\ SafeInv /\ TypeOK /\ GithubType /\ WorkerPart(w)
           /\ TopicPart(w) /\ JudgePart(w) /\ ReportsInTime
           /\ \A k \in Keys : KeyKnown(k)
           /\ \A g \in GateId : gate[g].desired # "cancelled"
           /\ \A g \in GateId : ActiveGate(g) => Assured(g)
<1>1. HistoryInv /\ worker \in [Workers -> Local] /\ GithubType /\ WorkerPart(w)
  BY DEF WorkerInv
<1>2. SafeInv /\ TypeOK
  BY <1>1 DEF HistoryInv, SafeInv
<1> QED
  BY <1>1, <1>2 DEF DecisionInv

\* A publisher that goes on to a step with nothing to judge.
LEMMA PublisherMoves ==
    ASSUME WorkerInv, DecisionInv, NEW w \in Workers, Later, worker[w].pc \in GateSteps,
           \/ Become(w, Done(w)) \/ Become(w, Failed(w))
           \/ \E x : /\ Become(w, x) /\ x.item = worker[w].item
                     /\ x.pc \in GateSteps \ {"pub_live", "pub_reject"}
    PROVE  Settles(w)
<1>1. /\ worker \in [Workers -> Local] /\ TopicPart(w) /\ OutboxLater
  BY Parts DEF Later
<1>2. worker[w].pc # "idle" /\ Topic(w) \in Plain
  BY <1>1 DEF TopicPart, GateSteps, AfterGate, Plain
<1>3. CASE Become(w, Done(w))
  BY <1>1, <1>2, <1>3, Returned
<1>4. CASE Become(w, Failed(w))
  BY <1>1, <1>2, <1>4, Thrown
<1>5. ASSUME NEW x, Become(w, x), x.item = worker[w].item,
             x.pc \in GateSteps \ {"pub_live", "pub_reject"}
      PROVE  Settles(w)
  <2>1. SameHandler(worker[w].pc, x.pc)
    BY <1>5 DEF SameHandler, GateSteps, AfterGate, EvaluateSteps, DispatchSteps
  <2>2. x.pc \notin Judged /\ x.pc # "complete"
    BY <1>5 DEF Judged, GateSteps, AfterGate
  <2> QED
    BY <1>1, <1>2, <1>5, <2>1, <2>2, Moved
<1> QED
  BY <1>3, <1>4, <1>5

\* acquireGateLease and the reads that follow.
LEMMA PublishReadsSettle ==
    ASSUME WorkerInv, DecisionInv, NEW w \in Workers,
           PublishAcquire(w) \/ PublishHeld(w) \/ PublishRead(w) \/ PublishFind(w)
             \/ PublishWrite(w)
    PROVE  Later /\ Settles(w)
<1>1. SafeInv /\ TypeOK /\ worker[w] \in Local
  BY Parts
<1>2. worker[w].pc \in GateSteps
  BY DEF PublishAcquire, PublishHeld, PublishRead, PublishFind, PublishWrite, At, GateSteps,
         AfterGate
<1>3. Later
  <2>1. CASE UNCHANGED store
    BY <1>1, <2>1, QuietLater
  <2>2. CASE AcquireGateLease(ItemGate(w), ItemRevision(w), w)
    <3>1. ItemGate(w) \in GateId
      BY <1>2, Parts DEF WorkerPart, GatePart
    <3> QED
      BY <1>1, <2>2, <3>1, AcquireGateLater
  <2> QED
    BY <2>1, <2>2 DEF PublishAcquire, PublishHeld, PublishRead, PublishFind, PublishWrite
<1>4. ASSUME PublishAcquire(w)
      PROVE  \E x : /\ Become(w, x) /\ x.item = worker[w].item
                    /\ x.pc \in GateSteps \ {"pub_live", "pub_reject"}
  <2> DEFINE a == [worker[w] EXCEPT !.pc = "pub_read", !.token = gate[ItemGate(w)].fence + 1]
             b == [worker[w] EXCEPT !.pc = "pub_held"]
  <2>1. Become(w, a) \/ Become(w, b)
    BY <1>4 DEF PublishAcquire, Goto
  <2>2. /\ a.item = worker[w].item /\ a.pc = "pub_read"
        /\ b.item = worker[w].item /\ b.pc = "pub_held"
    BY <1>1 DEF Local
  <2> HIDE DEF a, b
  <2> QED
    BY <2>1, <2>2 DEF GateSteps, AfterGate
<1>5. ASSUME PublishHeld(w) PROVE Become(w, Done(w)) \/ Become(w, Failed(w))
  BY <1>5 DEF PublishHeld, Branch
<1>6. ASSUME PublishRead(w)
      PROVE  \/ Become(w, Done(w))
             \/ \E x : /\ Become(w, x) /\ x.item = worker[w].item
                       /\ x.pc \in GateSteps \ {"pub_live", "pub_reject"}
  <2> DEFINE row == gate[ItemGate(w)]
             read == [worker[w] EXCEPT !.desired = row.desired, !.run = row.checkRun]
             a == [read EXCEPT !.pc = "pub_pair"]
             pc == WriteStep(row.checkRun)
             b == [read EXCEPT !.pc = pc]
  <2>1. Become(w, Done(w)) \/ Become(w, a) \/ Become(w, b)
    BY <1>6 DEF PublishRead
  <2>2. pc \in {"pub_write", "pub_find"}
    BY DEF WriteStep
  <2> HIDE DEF pc
  <2>3. a.item = worker[w].item /\ a.pc = "pub_pair" /\ b.item = worker[w].item /\ b.pc = pc
    BY <1>1 DEF Local
  <2> HIDE DEF a, b
  <2> QED
    BY <2>1, <2>2, <2>3 DEF GateSteps, AfterGate
<1>7. ASSUME PublishFind(w)
      PROVE  \E x : /\ Become(w, x) /\ x.item = worker[w].item
                    /\ x.pc \in GateSteps \ {"pub_live", "pub_reject"}
  <2>1. PICK id : Become(w, [worker[w] EXCEPT !.pc = "pub_write", !.run = id])
    BY <1>7 DEF PublishFind
  <2> DEFINE a == [worker[w] EXCEPT !.pc = "pub_write", !.run = id]
  <2>2. a.item = worker[w].item /\ a.pc = "pub_write" /\ Become(w, a)
    BY <1>1, <2>1 DEF Local
  <2> HIDE DEF a
  <2> QED
    BY <2>2 DEF GateSteps, AfterGate
<1>8. ASSUME PublishWrite(w)
      PROVE  \E x : /\ Become(w, x) /\ x.item = worker[w].item
                    /\ x.pc \in GateSteps \ {"pub_live", "pub_reject"}
  <2> DEFINE posted == IF worker[w].run = 0 THEN Len(runs) + 1 ELSE worker[w].run
             pc == IF PublishesSuccess(w) THEN "pub_authorize" ELSE "pub_commit"
             a == [worker[w] EXCEPT !.posted = posted, !.pc = pc]
  <2>1. Become(w, a) /\ pc \in {"pub_authorize", "pub_commit"}
    BY <1>8 DEF PublishWrite
  <2> HIDE DEF posted, pc
  <2>2. a.item = worker[w].item /\ a.pc = pc
    BY <1>1 DEF Local
  <2> HIDE DEF a
  <2> QED
    BY <2>1, <2>2 DEF GateSteps, AfterGate
<1> QED
  BY <1>2, <1>3, <1>4, <1>5, <1>6, <1>7, <1>8, PublisherMoves

\* loadPairSnapshot: an epoch that is not the pair's, or a pair that is not active,
\* has no active gate.
LEMMA PublishLoadPairSettles ==
    ASSUME WorkerInv, DecisionInv, NEW w \in Workers, PublishLoadPair(w)
    PROVE  Later /\ Settles(w)
<1> DEFINE g == ItemGate(w)
           row == pair[gate[g].pair]
           a == [worker[w] EXCEPT !.pc = "pub_live", !.snap = row]
           b == [worker[w] EXCEPT !.pc = "pub_reject"]
<1>1. /\ worker \in [Workers -> Local] /\ worker[w] \in Local /\ SafeInv /\ TypeOK
      /\ TopicPart(w)
  BY Parts
<1>2. worker[w].pc = "pub_pair" /\ UNCHANGED store /\ worker[w].pc \in AfterRead
  BY DEF PublishLoadPair, At, AfterRead, AfterGate
<1>3. Later /\ OutboxLater
  BY <1>1, <1>2, QuietLater DEF Later
<1>4. g \in GateId /\ gate[g].pair \in PairId
  BY <1>2, PublishKnows, PublishLease
<1>5. gate[g].active => row.active /\ row.epoch = g.epoch
  BY <1>1, <1>4, ActiveGateFacts DEF ActiveGate
<1>6. gate' = gate
  BY <1>2 DEF store
<1>7. /\ a.pc = "pub_live" /\ a.snap = row /\ a.item = worker[w].item
      /\ b.pc = "pub_reject" /\ b.item = worker[w].item
  BY <1>1 DEF Local
<1>8. CASE row.epoch = g.epoch
  <2>1. worker'[w] = a
    BY <1>1, <1>8, Becomes DEF PublishLoadPair, Branch
  <2> HIDE DEF a, b, row
  <2>2. worker'[w].pc = "pub_live" /\ ItemGate(w)' = g /\ worker'[w].snap = row
        /\ worker'[w].item = worker[w].item
    BY <1>7, <2>1 DEF ItemGate
  <2> HIDE DEF g
  <2>3. JudgePart(w)'
    BY <1>5, <1>6, <2>2 DEF JudgePart
  <2>4. SameHandler("pub_pair", "pub_live")
    BY DEF SameHandler, GateSteps, AfterGate, EvaluateSteps, DispatchSteps
  <2> QED
    BY <1>1, <1>2, <1>3, <2>2, <2>3, <2>4, Settled
<1>9. CASE row.epoch # g.epoch
  <2>1. worker'[w] = b
    BY <1>1, <1>9, Becomes DEF PublishLoadPair, Branch
  <2> HIDE DEF a, b, row
  <2>2. worker'[w].pc = "pub_reject" /\ ItemGate(w)' = g
        /\ worker'[w].item = worker[w].item
    BY <1>7, <2>1 DEF ItemGate
  <2> HIDE DEF g
  <2>3. JudgePart(w)'
    BY <1>5, <1>6, <1>9, <2>2 DEF JudgePart
  <2>4. SameHandler("pub_pair", "pub_reject")
    BY DEF SameHandler, GateSteps, AfterGate, EvaluateSteps, DispatchSteps
  <2> QED
    BY <1>1, <1>2, <1>3, <2>2, <2>3, <2>4, Settled
<1> QED
  BY <1>3, <1>8, <1>9

\* getPullRequest
LEMMA PublishCheckLiveSettles ==
    ASSUME WorkerInv, DecisionInv, NEW w \in Workers, PublishCheckLive(w)
    PROVE  Later /\ Settles(w)
<1> DEFINE g == ItemGate(w)
           p == gate[g].pair
           pc == IF ~StillLive(w) THEN "pub_reject"
                 ELSE IF worker[w].posted = 0 THEN "pub_authorize"
                 ELSE "pub_commit"
           x == [worker[w] EXCEPT !.snap = None, !.pc = pc]
<1>1. /\ worker \in [Workers -> Local] /\ worker[w] \in Local /\ SafeInv /\ TypeOK
      /\ TopicPart(w) /\ JudgePart(w) /\ GithubType /\ ReportsInTime
  BY Parts
<1>2. worker[w].pc = "pub_live" /\ UNCHANGED store /\ worker[w].pc \in AfterRead
      /\ past' = past
  BY DEF PublishCheckLive, At, AfterRead, AfterGate, github
<1>3. Later /\ OutboxLater
  BY <1>1, <1>2, QuietLater DEF Later
<1>4. g \in GateId /\ gate[g].pair \in PairId
  BY <1>2, PublishKnows, PublishLease
<1>5. ~StillLive(w) => ~gate[g].active \/ Excused(p)
  BY <1>1, <1>2, <1>4, LiveExcuses DEF StillLive, JudgePart
<1>6. gate' = gate /\ pair' = pair
  BY <1>2 DEF store
<1>7. worker'[w] = x
  BY <1>1, Becomes DEF PublishCheckLive
<1>8. /\ pc \in {"pub_reject", "pub_authorize", "pub_commit"}
      /\ pc = "pub_reject" => ~StillLive(w)
  OBVIOUS
<1> HIDE DEF pc
<1>9. worker'[w].pc = pc /\ worker'[w].item = worker[w].item
  BY <1>1, <1>7 DEF Local
<1> HIDE DEF x
<1>10. ItemGate(w)' = g
  BY <1>9 DEF ItemGate
<1>11. ASSUME NEW q, q = p, Excused(q) PROVE Excused(q)'
  BY <1>2, <1>6, <1>11, StillExcused
<1>12. pc = "pub_reject" => ~gate'[g].active \/ Excused(gate[ItemGate(w)].pair)'
  BY <1>5, <1>6, <1>8, <1>10, <1>11
<1>13. JudgePart(w)'
  <2> HIDE DEF g, p
  <2> QED
    BY <1>8, <1>9, <1>10, <1>12 DEF JudgePart
<1>14. SameHandler("pub_live", pc)
  BY <1>8 DEF SameHandler, GateSteps, AfterGate, EvaluateSteps, DispatchSteps
<1> QED
  BY <1>1, <1>2, <1>3, <1>8, <1>9, <1>13, <1>14, Settled

\* authorizeSuccessPublication: what it expires is late.
LEMMA PublishAuthorizeSettles ==
    ASSUME WorkerInv, DecisionInv, NEW w \in Workers, PublishAuthorize(w)
    PROVE  Later /\ Settles(w)
<1> DEFINE g == ItemGate(w)
<1>1. SafeInv /\ TypeOK /\ worker[w] \in Local
  BY Parts
<1>2. worker[w].pc = "pub_authorize" /\ worker[w].pc \in AfterRead /\ past' = past
      /\ worker[w].pc \in GateSteps
  BY DEF PublishAuthorize, At, AfterRead, AfterGate, GateSteps, github
<1>3. g \in GateId /\ GateLease(w).gate = g
  BY <1>2, PublishKnows, PublishLease
<1>4. Later
  <2>1. CASE UNCHANGED store
    BY <1>1, <2>1, QuietLater
  <2>2. CASE ExpireSuccess(GateLease(w), worker[w].posted)
    <3>1. FailPublication(GateLease(w), worker[w].posted)
          /\ Authorization(GateLease(w)) = "expired"
      BY <2>2 DEF ExpireSuccess
    <3> HIDE DEF g
    <3>2. gate[g].desired = "success"
          /\ ~(dispatch[<<gate[g].pair, g.epoch>>].state = "sent"
               /\ ~dispatch[<<gate[g].pair, g.epoch>>].late)
      BY <1>3, <3>1 DEF Authorization
    <3>3. dispatch[<<gate[g].pair, g.epoch>>].late
      BY <1>1, <1>3, <3>2 DEF SafeInv, SuccessIsCurrent
    <3> QED
      BY <1>1, <1>2, <1>3, <3>1, <3>3, FailPublicationLater
  <2> QED
    BY <2>1, <2>2 DEF PublishAuthorize
<1>5. \/ Become(w, Done(w))
      \/ \E x : /\ Become(w, x) /\ x.item = worker[w].item
                /\ x.pc \in GateSteps \ {"pub_live", "pub_reject"}
  <2> DEFINE pc == WriteStep(worker[w].run)
             a == [worker[w] EXCEPT !.pc = pc]
             b == [worker[w] EXCEPT !.pc = "pub_pair"]
             c == [worker[w] EXCEPT !.pc = "pub_supersede"]
  <2>1. Become(w, Done(w)) \/ Become(w, a) \/ Become(w, b) \/ Become(w, c)
    BY DEF PublishAuthorize, Branch, Return
  <2>2. pc \in {"pub_write", "pub_find"}
    BY DEF WriteStep
  <2> HIDE DEF pc
  <2>3. /\ a.item = worker[w].item /\ a.pc = pc
        /\ b.item = worker[w].item /\ b.pc = "pub_pair"
        /\ c.item = worker[w].item /\ c.pc = "pub_supersede"
    BY <1>1 DEF Local
  <2> HIDE DEF a, b, c
  <2> QED
    BY <2>1, <2>2, <2>3 DEF GateSteps, AfterGate
<1> QED
  BY <1>2, <1>4, <1>5, PublisherMoves

\* rejectGatePublication, commitGatePublication and supersedeStaleGatePublication
LEMMA PublishRejectSettles ==
    ASSUME WorkerInv, DecisionInv, NEW w \in Workers, PublishReject(w)
    PROVE  Later /\ Settles(w)
<1> DEFINE g == ItemGate(w)
<1>1. SafeInv /\ TypeOK /\ JudgePart(w)
  BY Parts
<1>2. worker[w].pc = "pub_reject" /\ worker[w].pc \in AfterRead /\ past' = past
      /\ worker[w].pc \in GateSteps /\ Become(w, Done(w))
  BY DEF PublishReject, At, AfterRead, AfterGate, GateSteps, github, Return
<1>3. g \in GateId /\ GateLease(w).gate = g /\ GateLease(w).revision = ItemRevision(w)
  BY <1>2, PublishKnows, PublishLease
<1>4. Later
  <2>1. CASE UNCHANGED store
    BY <1>1, <2>1, QuietLater
  <2>2. CASE RejectGatePublication(GateLease(w), worker[w].posted)
    <3>1. FailPublication(GateLease(w), worker[w].posted) /\ HoldsGate(GateLease(w))
      BY <2>2 DEF RejectGatePublication
    <3>2. gate[g].revision = ItemRevision(w)
      BY <1>3, <3>1 DEF HoldsGate
    <3>3. ActiveGate(g) => Excused(gate[g].pair)
      BY <1>1, <1>2, <3>2 DEF JudgePart, ActiveGate
    <3> HIDE DEF g
    <3> QED
      BY <1>1, <1>2, <1>3, <3>1, <3>3, FailPublicationLater
  <2> QED
    BY <2>1, <2>2 DEF PublishReject
<1> QED
  BY <1>2, <1>4, PublisherMoves

\* The publication is recorded, or published again.
LEMMA PublishEndSettles ==
    ASSUME WorkerInv, DecisionInv, NEW w \in Workers,
           PublishCommit(w) \/ PublishSupersede(w)
    PROVE  Later /\ Settles(w)
<1>1. SafeInv /\ TypeOK /\ worker[w] \in Local
  BY Parts
<1>2. worker[w].pc \in AfterRead /\ worker[w].pc \in GateSteps
  BY DEF PublishCommit, PublishSupersede, At, AfterRead, AfterGate, GateSteps
<1>3. GateLease(w).gate \in GateId
  BY <1>2, PublishKnows, PublishLease
<1>4. Later
  <2>1. CASE UNCHANGED store
    BY <1>1, <2>1, QuietLater
  <2>2. CASE CommitGatePublication(GateLease(w), worker[w].posted, worker[w].desired)
    BY <1>1, <1>3, <2>2, CommitPublicationLater
  <2>3. CASE SupersedeStaleGatePublication(GateLease(w), worker[w].posted)
    BY <1>1, <1>3, <2>3, SupersedeLater
  <2> QED
    BY <2>1, <2>2, <2>3 DEF PublishCommit, PublishSupersede
<1>5. \/ Become(w, Done(w))
      \/ \E x : /\ Become(w, x) /\ x.item = worker[w].item
                /\ x.pc \in GateSteps \ {"pub_live", "pub_reject"}
  <2> DEFINE a == [worker[w] EXCEPT !.pc = "pub_supersede"]
  <2>1. Become(w, Done(w)) \/ Become(w, a)
    BY DEF PublishCommit, PublishSupersede, Return, Goto
  <2>2. a.item = worker[w].item /\ a.pc = "pub_supersede"
    BY <1>1 DEF Local
  <2> HIDE DEF a
  <2> QED
    BY <2>1, <2>2 DEF GateSteps, AfterGate
<1> QED
  BY <1>2, <1>4, <1>5, PublisherMoves

-----------------------------------------------------------------------------
(* evaluatePair                                                            *)

\* There is nothing to evaluate: the epoch is not the pair's, its gate is closed, or it
\* is quarantined and has failed.
LEMMA NothingToEvaluate ==
    ASSUME SafeInv, \A g \in GateId : gate[g].desired # "cancelled",
           NEW k \in OutboxKey, k[1] = "evaluate", KeyKnown(k), UNCHANGED store,
           \/ pair[k[2]].epoch # k[3] \/ ~pair[k[2]].active \/ pair[k[2]].quarantined
    PROVE  Closes(k)
<1>1. gate' = gate /\ pair' = pair
  BY DEF store
<1>2. GateFor(k) \in GateId /\ GateFor(k).epoch = k[3] /\ k[2] \in PairId
  BY EvaluationGate
<1>3. gate[GateFor(k)].pair = k[2]
  BY DEF KeyKnown
<1>4. Over(k)
  <2> DEFINE g == GateFor(k)
  <2>1. CASE ~gate[g].active
    BY <2>1 DEF Over
  <2>2. CASE gate[g].active
    <3> HIDE DEF g
    <3>1. ActiveGate(g)
      BY <1>2, <1>3, <2>2 DEF ActiveGate, g
    <3>2. pair[gate[g].pair].active /\ pair[gate[g].pair].epoch = g.epoch
          /\ gate[g].quarantined = pair[gate[g].pair].quarantined
      BY <1>2, <3>1, ActiveGateFacts DEF g
    <3>3. gate[g].quarantined
      BY <1>2, <1>3, <3>2 DEF g
    <3> QED
      BY <3>3 DEF Over, g
  <2> QED
    BY <2>1, <2>2
<1>5. Over(k)'
  BY <1>1, <1>4 DEF Over
<1>6. ASSUME NEW g \in GateId, ActiveGate(g)', Reaches(k, gate'[g].pair, g.epoch)
      PROVE  Assured(g)'
  <2>1. ActiveGate(g) /\ k[2] = gate[g].pair /\ k[3] = g.epoch
    BY <1>1, <1>6 DEF ActiveGate, Reaches
  <2>2. /\ pair[gate[g].pair].active /\ pair[gate[g].pair].epoch = g.epoch
        /\ gate[g].quarantined = pair[gate[g].pair].quarantined
    BY <2>1, ActiveGateFacts
  <2>3. pair[gate[g].pair].quarantined /\ gate[g].quarantined
    BY <2>1, <2>2
  <2>4. gate[g].desired = "failure"
    BY <2>3 DEF SafeInv, QuarantineFailsClosed
  <2>5. pair'[gate'[g].pair].quarantined /\ gate'[g].desired = "failure"
    BY <1>1, <2>3, <2>4
  <2>6. Trusted(g)'
    BY <2>5 DEF Trusted, Says, EvaluatePair
  <2> QED
    BY <2>6 DEF Assured
<1> QED
  BY <1>5, <1>6 DEF Closes

\* acquirePairLease, and the first read.
LEMMA EvaluateReadsSettle ==
    ASSUME WorkerInv, DecisionInv, NEW w \in Workers,
           EvaluateAcquire(w) \/ EvaluateHeld(w) \/ EvaluateLoadPair(w)
    PROVE  Later /\ Settles(w)
<1> DEFINE p == ItemPair(w)
           row == pair[p]
           a == [worker[w] EXCEPT !.pc = "eval_pair", !.token = row.fence + 1]
           b == [worker[w] EXCEPT !.pc = "eval_held"]
           c == [worker[w] EXCEPT !.pc = "eval_dispatch", !.snap = row]
<1>1. /\ worker \in [Workers -> Local] /\ worker[w] \in Local /\ SafeInv /\ TypeOK
      /\ TopicPart(w) /\ WorkerPart(w) /\ \A j \in Keys : KeyKnown(j)
      /\ \A g \in GateId : gate[g].desired # "cancelled"
  BY Parts
<1>2. worker[w].pc \in {"eval_acquire", "eval_held", "eval_pair"}
  BY DEF EvaluateAcquire, EvaluateHeld, EvaluateLoadPair, At
<1>3. worker[w].pc # "idle" /\ p \in PairId /\ Topic(w) \in {"evaluate", "timeout"}
  BY <1>1, <1>2 DEF WorkerPart, PairPart, PairSteps, AfterPair, TopicPart, EvaluateSteps
<1>4. Later
  <2>1. CASE UNCHANGED store
    BY <1>1, <2>1, QuietLater
  <2>2. CASE AcquirePairLease(p, ItemEpoch(w), w)
    BY <1>1, <1>3, <2>2, AcquirePairLater
  <2> QED
    BY <2>1, <2>2 DEF EvaluateAcquire, EvaluateHeld, EvaluateLoadPair, AcquireOr
<1>5. OutboxLater
  BY <1>4 DEF Later
<1>6. ASSUME UNCHANGED store, row.epoch # ItemEpoch(w) \/ ~row.active \/ row.quarantined,
             Become(w, Done(w))
      PROVE  Settles(w)
  <2>1. ASSUME Topic(w) = "evaluate", NEW k \in Keys, k = worker[w].item PROVE Closes(k)
    <3>1. k \in OutboxKey /\ KeyKnown(k)
      BY <1>1, KeysType
    <3>2. k[1] = "evaluate" /\ k[2] = p /\ k[3] = ItemEpoch(w)
      BY <2>1 DEF Topic, ItemPair, ItemEpoch
    <3> QED
      BY <1>1, <1>6, <3>1, <3>2, NothingToEvaluate
  <2> QED
    BY <1>1, <1>3, <1>5, <1>6, <2>1, Returned DEF Plain, ItemCloses
<1>7. \/ Become(w, a) \/ Become(w, b) \/ Become(w, c) \/ Become(w, Failed(w))
      \/ /\ Become(w, Done(w)) /\ UNCHANGED store
         /\ row.epoch # ItemEpoch(w) \/ ~row.active \/ row.quarantined
  <2>1. ASSUME EvaluateAcquire(w) PROVE Become(w, a) \/ Become(w, b)
    BY <2>1 DEF EvaluateAcquire, AcquireOr, Goto
  <2>2. ASSUME EvaluateHeld(w)
        PROVE  \/ Become(w, Failed(w))
               \/ /\ Become(w, Done(w)) /\ UNCHANGED store
                  /\ row.epoch # ItemEpoch(w) \/ ~row.active \/ row.quarantined
    BY <2>2 DEF EvaluateHeld, Branch, Workable
  <2>3. ASSUME EvaluateLoadPair(w)
        PROVE  \/ Become(w, c)
               \/ Become(w, Done(w)) /\ UNCHANGED store /\ row.epoch # ItemEpoch(w)
    BY <2>3 DEF EvaluateLoadPair, Branch
  <2> QED
    BY <2>1, <2>2, <2>3
<1>8. /\ a.item = worker[w].item /\ a.pc = "eval_pair"
      /\ b.item = worker[w].item /\ b.pc = "eval_held"
      /\ c.item = worker[w].item /\ c.pc = "eval_dispatch"
  BY <1>1 DEF Local
<1>9. ASSUME NEW x, Become(w, x), x.item = worker[w].item,
             x.pc \in {"eval_pair", "eval_held", "eval_dispatch"}
      PROVE  Settles(w)
  <2>1. SameHandler(worker[w].pc, x.pc)
    BY <1>2, <1>9 DEF SameHandler, GateSteps, AfterGate, EvaluateSteps, DispatchSteps
  <2> QED
    BY <1>1, <1>3, <1>5, <1>9, <2>1, Moved DEF Judged
<1>10. ASSUME Become(w, Failed(w)) PROVE Settles(w)
  BY <1>1, <1>3, <1>5, <1>10, Thrown
<1> HIDE DEF a, b, c
<1> QED
  BY <1>4, <1>6, <1>7, <1>8, <1>9, <1>10

\* The dispatch row is read.
LEMMA EvaluateLoadDispatchSettles ==
    ASSUME WorkerInv, DecisionInv, NEW w \in Workers, EvaluateLoadDispatch(w)
    PROVE  Later /\ Settles(w)
<1> DEFINE d == ItemId(w)
           row == dispatch[d]
           x == [worker[w] EXCEPT !.pc = "eval_evidence", !.disp = row]
<1>1. /\ worker \in [Workers -> Local] /\ worker[w] \in Local /\ TypeOK /\ TopicPart(w)
  BY Parts
<1>2. worker[w].pc = "eval_dispatch" /\ UNCHANGED store /\ Become(w, x)
  BY DEF EvaluateLoadDispatch, At, ItemId
<1>3. Later /\ OutboxLater
  BY <1>1, <1>2, QuietLater DEF Later
<1>4. worker'[w] = x
  BY <1>1, <1>2, Becomes
<1> HIDE DEF row
<1>5. worker'[w].pc = "eval_evidence" /\ worker'[w].item = worker[w].item
      /\ worker'[w].disp = row
  BY <1>1, <1>4 DEF Local
<1>6. ItemId(w)' = d /\ dispatch' = dispatch
  BY <1>2, <1>5 DEF ItemId, ItemPair, ItemEpoch, store
<1>7. worker'[w].disp = dispatch'[ItemId(w)']
  BY <1>5, <1>6 DEF row
<1>8. JudgePart(w)'
  BY <1>5, <1>7 DEF JudgePart
<1>9. SameHandler("eval_dispatch", "eval_evidence")
  BY DEF SameHandler, GateSteps, AfterGate, EvaluateSteps, DispatchSteps
<1> QED
  BY <1>1, <1>2, <1>3, <1>5, <1>8, <1>9, Settled

\* A decision from what was read says what the rows say, or waits for a command that
\* was adopted since.
LEMMA ReadSays ==
    ASSUME NEW s, NEW t, SameInput(s, t), NEW x \in DispatchRow, NEW y, NEW rows,
           x.state = "sent" => y.state = "sent" /\ y.dispatchedAt = x.dispatchedAt,
           (x.state = "abandoned") = (y.state = "abandoned"), ~y.late
    PROVE  LET decision == EvaluatePair(s, [x EXCEPT !.late = y.late], rows)
           IN  \/ decision = EvaluatePair(t, y, rows)
               \/ decision = "pending" /\ y.state = "sent"
<1> DEFINE z == [x EXCEPT !.late = y.late]
<1>1. z.state = x.state /\ z.dispatchedAt = x.dispatchedAt /\ z.late = y.late
  BY DEF DispatchRow
<1>2. /\ t.epoch = s.epoch /\ t.active = s.active /\ t.quarantined = s.quarantined
      /\ t.draft = s.draft /\ t.state = s.state
  BY DEF SameInput
<1> HIDE DEF z
<1>3. \/ EvaluatePair(s, z, rows) = EvaluatePair(t, y, rows)
      \/ EvaluatePair(s, z, rows) = "pending" /\ y.state = "sent"
  <2>1. CASE x.state = "sent"
    BY <1>1, <1>2, <2>1 DEF EvaluatePair
  <2>2. CASE x.state # "sent" /\ y.state # "sent"
    BY <1>1, <1>2, <2>2 DEF EvaluatePair
  <2>3. CASE x.state # "sent" /\ y.state = "sent"
    BY <1>1, <1>2, <2>3 DEF EvaluatePair
  <2> QED
    BY <2>1, <2>2, <2>3
<1> QED
  BY <1>3 DEF z

\* The evidence is read and the decision taken.
LEMMA EvaluateLoadEvidenceSettles ==
    ASSUME WorkerInv, DecisionInv, NEW w \in Workers, EvaluateLoadEvidence(w)
    PROVE  Later /\ Settles(w)
<1> DEFINE p == ItemPair(w)
           d == ItemId(w)
           decision == Decide(w)
           pc == IF decision = "success" THEN "eval_live" ELSE "eval_commit"
           x == [worker[w] EXCEPT !.desired = decision, !.snap = None, !.disp = None,
                                  !.pc = pc]
<1>1. /\ worker \in [Workers -> Local] /\ worker[w] \in Local /\ TypeOK /\ TopicPart(w)
      /\ WorkerPart(w) /\ JudgePart(w)
  BY Parts
<1>2. worker[w].pc = "eval_evidence" /\ UNCHANGED store /\ Become(w, x)
  BY DEF EvaluateLoadEvidence, At
<1>3. Later /\ OutboxLater
  BY <1>1, <1>2, QuietLater DEF Later
<1>4. worker'[w] = x
  BY <1>1, <1>2, Becomes
<1>5. pc \in {"eval_live", "eval_commit"}
  OBVIOUS
<1>6. decision = EvaluatePair(worker[w].snap,
                              [worker[w].disp EXCEPT !.late = dispatch[d].late], evidence[d])
  BY DEF Decide, ItemId
<1> HIDE DEF pc, decision
<1>7. worker'[w].pc = pc /\ worker'[w].item = worker[w].item /\ worker'[w].desired = decision
      /\ worker'[w].token = worker[w].token
  BY <1>1, <1>4 DEF Local
<1> HIDE DEF x
<1>8. /\ ItemPair(w)' = p /\ ItemId(w)' = d
      /\ pair' = pair /\ dispatch' = dispatch /\ evidence' = evidence
  BY <1>2, <1>7 DEF ItemId, ItemPair, ItemEpoch, store
<1>9. Unfenced(w)' => Unfenced(w)
  BY <1>7, <1>8 DEF Unfenced
<1>10. ASSUME Unfenced(w)
       PROVE  \/ decision = EvaluatePair(pair[p], dispatch[d], evidence[d])
              \/ decision = "pending" /\ dispatch[d].state = "sent"
              \/ dispatch[d].late
  <2>1. /\ SameInput(worker[w].snap, pair[p])
        /\ worker[w].disp.state = "sent" =>
              /\ dispatch[d].state = "sent"
              /\ dispatch[d].dispatchedAt = worker[w].disp.dispatchedAt
        /\ worker[w].disp \in DispatchRow
    BY <1>1, <1>2, <1>10 DEF WorkerPart, ReviewPart, PairPart
  <2>2. (worker[w].disp.state = "abandoned") = (dispatch[d].state = "abandoned")
    BY <1>1, <1>2, <1>10 DEF JudgePart
  <2> HIDE DEF p, d
  <2>3. CASE dispatch[d].late
    BY <2>3
  <2>4. CASE ~dispatch[d].late
    BY <1>6, <2>1, <2>2, <2>4, ReadSays
  <2> QED
    BY <2>3, <2>4
<1>11. Unfenced(w)' => Says(ItemPair(w), ItemId(w), worker[w].desired)'
  <2> HIDE DEF p, d
  <2> QED
    BY <1>7, <1>8, <1>9, <1>10 DEF Says
<1>12. JudgePart(w)'
  BY <1>5, <1>7, <1>11 DEF JudgePart
<1>13. SameHandler("eval_evidence", pc) /\ pc # "complete"
  BY <1>5 DEF SameHandler, GateSteps, AfterGate, EvaluateSteps, DispatchSteps
<1> QED
  BY <1>1, <1>2, <1>3, <1>7, <1>12, <1>13, Settled

\* getPullRequest: a success of a pull request that moved is a failure, and excused.
LEMMA EvaluateCheckLiveSettles ==
    ASSUME WorkerInv, DecisionInv, NEW w \in Workers, EvaluateCheckLive(w)
    PROVE  Later /\ Settles(w)
<1> DEFINE p == ItemPair(w)
           d == ItemId(w)
           old == worker[w].desired
           new == IF LiveMatches(p) THEN old ELSE "failure"
           x == [worker[w] EXCEPT !.pc = "eval_commit", !.desired = new]
<1>1. /\ worker \in [Workers -> Local] /\ worker[w] \in Local /\ TypeOK /\ TopicPart(w)
      /\ WorkerPart(w) /\ JudgePart(w) /\ GithubType /\ ReportsInTime
  BY Parts
<1>2. worker[w].pc = "eval_live" /\ UNCHANGED store /\ Become(w, x) /\ past' = past
  BY DEF EvaluateCheckLive, At, github
<1>3. Later /\ OutboxLater
  BY <1>1, <1>2, QuietLater DEF Later
<1>4. worker'[w] = x /\ p \in PairId
  BY <1>1, <1>2, Becomes DEF WorkerPart, PairPart, PairSteps, AfterPair, Decided
<1>5. ~LiveMatches(p) => Excused(p)
  BY <1>1, <1>4, LiveExcuses
<1>6. LiveMatches(p) => new = old
  OBVIOUS
<1> HIDE DEF new
<1>7. worker'[w].pc = "eval_commit" /\ worker'[w].item = worker[w].item
      /\ worker'[w].desired = new /\ worker'[w].token = worker[w].token
  BY <1>1, <1>4 DEF Local
<1> HIDE DEF x
<1>8. /\ ItemPair(w)' = p /\ ItemId(w)' = d
      /\ pair' = pair /\ dispatch' = dispatch /\ evidence' = evidence
  BY <1>2, <1>7 DEF ItemId, ItemPair, ItemEpoch, store
<1>9. Unfenced(w)' => Unfenced(w)
  BY <1>7, <1>8 DEF Unfenced
<1>10. Unfenced(w) => Says(p, d, new) \/ Excused(p)
  BY <1>1, <1>2, <1>5, <1>6 DEF JudgePart
<1>11. Excused(p) => Excused(ItemPair(w))'
  <2> HIDE DEF p
  <2> QED
    BY <1>2, <1>8 DEF Excused, IsOpen
<1>12. Says(p, d, new) => Says(ItemPair(w), ItemId(w), worker[w].desired)'
  <2> HIDE DEF p, d
  <2> QED
    BY <1>7, <1>8 DEF Says
<1>13. JudgePart(w)'
  BY <1>7, <1>9, <1>10, <1>11, <1>12 DEF JudgePart
<1>14. SameHandler("eval_live", "eval_commit")
  BY DEF SameHandler, GateSteps, AfterGate, EvaluateSteps, DispatchSteps
<1> QED
  BY <1>1, <1>2, <1>3, <1>7, <1>13, <1>14, Settled

\* commitPairGate: the gate is at another revision than the one that asked for the
\* evaluation, and says what was decided.
LEMMA CommitSettles ==
    ASSUME WorkerInv, DecisionInv, NEW w \in Workers,
           worker[w].pc \in {"eval_commit", "disp_reject"}, CommitOrThrow(w), past' = past
    PROVE  Later /\ Settles(w)
<1> DEFINE l == PairLease(w)
           p == ItemPair(w)
           d == ItemId(w)
<1>1. /\ worker \in [Workers -> Local] /\ SafeInv /\ TypeOK /\ TopicPart(w) /\ JudgePart(w)
      /\ WorkerPart(w) /\ \A j \in Keys : KeyKnown(j)
  BY Parts
<1>2. /\ worker[w].pc \in AfterPair /\ worker[w].pc # "idle"
      /\ worker[w].desired # "cancelled" /\ Topic(w) \in {"evaluate", "timeout", "dispatch"}
  BY <1>1 DEF AfterPair, Decided, WorkerPart, PairPart, TopicPart, EvaluateSteps,
              DispatchSteps
<1>3. /\ p \in PairId /\ l.pair = p /\ l.epoch = ItemEpoch(w) /\ l.fence = worker[w].token
  BY <1>2, PairWorker
<1>4. CASE Throw(w) /\ UNCHANGED store
  <2>1. Later /\ OutboxLater
    BY <1>1, <1>4, QuietLater DEF Later
  <2> QED
    BY <1>1, <1>2, <1>4, <2>1, Thrown DEF Throw
<1>5. CASE CommitPairGate(l, worker[w].desired) /\ Return(w)
  <2> HIDE DEF l
  <2>1. HoldsPair(l)
    BY <1>5 DEF CommitPairGate
  <2>2. Unfenced(w)
    BY <1>3, <2>1 DEF HoldsPair, Unfenced
  <2>3. Says(p, d, worker[w].desired) \/ Excused(p)
    BY <1>1, <2>2 DEF JudgePart
  <2>4. d = <<l.pair, l.epoch>>
    BY <1>3 DEF ItemId
  <2>5. /\ Later
        /\ \A g \in GateId : (gate[g].pair = p /\ g.epoch = l.epoch /\ gate[g].active) =>
              gate'[g].revision > gate[g].revision /\ Trusted(g)'
    BY <1>1, <1>2, <1>3, <1>5, <2>3, <2>4, CommitRenews
  <2>6. OutboxLater
    BY <2>5 DEF Later
  <2>7. ASSUME NEW g \in GateId
        PROVE  /\ gate'[g].active = gate[g].active /\ gate'[g].pair = gate[g].pair
               /\ gate[g].revision \in Nat /\ gate'[g].revision \in Nat
    <3>1. gate[g] \in GateRow
      BY <1>1 DEF TypeOK
    <3>2. \E desired : gate'[g] \in {gate[g], Revised(gate[g], desired)}
      BY <1>5 DEF CommitPairGate
    <3>3. PICK desired : gate'[g] \in {gate[g], Revised(gate[g], desired)}
      BY <3>2
    <3>4. CASE gate'[g] = gate[g]
      BY <3>1, <3>4 DEF GateRow
    <3>5. CASE gate'[g] = Revised(gate[g], desired)
      BY <3>1, <3>5 DEF Revised, GateRow
    <3> QED
      BY <3>3, <3>4, <3>5
  <2>8. ASSUME Topic(w) = "evaluate", NEW k \in Keys, k = worker[w].item PROVE Closes(k)
    <3>1. k \in OutboxKey /\ KeyKnown(k) /\ k[1] = "evaluate" /\ k[2] = p /\ k[3] = l.epoch
      BY <1>1, <1>2, <1>3, <2>8, KeysType DEF Topic, ItemPair, ItemEpoch
    <3>2. GateFor(k) \in GateId /\ GateFor(k).epoch = k[3] /\ k[4] \in Nat
      BY <3>1, EvaluationGate
    <3>3. gate[GateFor(k)].pair = k[2] /\ k[4] <= gate[GateFor(k)].revision
      BY <3>1 DEF KeyKnown
    <3>4. Over(k)'
      <4> DEFINE g == GateFor(k)
      <4>1. GateFor(k)' = g
        BY DEF GateFor
      <4> HIDE DEF g
      <4>2. CASE ~gate[g].active
        BY <2>7, <3>2, <4>1, <4>2 DEF Over, g
      <4>3. CASE gate[g].active
        <5>1. gate'[g].revision > gate[g].revision
          BY <2>5, <3>1, <3>2, <3>3, <4>3 DEF g
        <5>2. k[4] < gate'[g].revision
          BY <2>7, <3>2, <3>3, <5>1 DEF g
        <5> QED
          BY <4>1, <5>2 DEF Over
      <4> QED
        BY <4>2, <4>3
    <3>5. ASSUME NEW g \in GateId, ActiveGate(g)', Reaches(k, gate'[g].pair, g.epoch)
          PROVE  Assured(g)'
      <4>1. gate[g].active /\ gate[g].pair = p /\ g.epoch = l.epoch
        BY <2>7, <3>1, <3>5 DEF ActiveGate, Reaches
      <4> QED
        BY <2>5, <4>1 DEF Assured
    <3> QED
      BY <3>4, <3>5 DEF Closes
  <2> QED
    BY <1>1, <1>2, <1>5, <2>5, <2>6, <2>8, Returned DEF Return, Plain, ItemCloses
<1> QED
  BY <1>4, <1>5 DEF CommitOrThrow

-----------------------------------------------------------------------------
(* dispatchReview                                                          *)

\* A dispatch that goes on to a step with nothing to judge.
LEMMA DispatcherMoves ==
    ASSUME WorkerInv, DecisionInv, NEW w \in Workers, Later,
           worker[w].pc \in DispatchSteps \cup {"disp_load", "disp_acquire", "disp_held"},
           \/ Become(w, Done(w)) \/ Become(w, Failed(w))
           \/ \E x : /\ Become(w, x) /\ x.item = worker[w].item
                     /\ x.pc \in (DispatchSteps \cup {"disp_acquire", "disp_held"})
                                    \ {"disp_reject"}
    PROVE  Settles(w)
<1>1. /\ worker \in [Workers -> Local] /\ TopicPart(w) /\ OutboxLater
  BY Parts DEF Later
<1>2. worker[w].pc # "idle" /\ Topic(w) \in Plain
  BY <1>1 DEF TopicPart, DispatchSteps, Plain
<1>3. CASE Become(w, Done(w))
  BY <1>1, <1>2, <1>3, Returned
<1>4. CASE Become(w, Failed(w))
  BY <1>1, <1>2, <1>4, Thrown
<1>5. ASSUME NEW x, Become(w, x), x.item = worker[w].item,
             x.pc \in (DispatchSteps \cup {"disp_acquire", "disp_held"}) \ {"disp_reject"}
      PROVE  Settles(w)
  <2>1. SameHandler(worker[w].pc, x.pc)
    BY <1>5 DEF SameHandler, GateSteps, AfterGate, EvaluateSteps, DispatchSteps
  <2>2. x.pc \notin Judged /\ x.pc # "complete"
    BY <1>5 DEF Judged, DispatchSteps
  <2> QED
    BY <1>1, <1>2, <1>5, <2>1, <2>2, Moved
<1> QED
  BY <1>3, <1>4, <1>5

\* ... in particular when only the step, the row it read or the comment is new.
LEMMA DispatcherGoes ==
    ASSUME WorkerInv, DecisionInv, NEW w \in Workers, Later,
           worker[w].pc \in DispatchSteps \cup {"disp_load", "disp_acquire", "disp_held"},
           NEW pc \in (DispatchSteps \cup {"disp_acquire", "disp_held"}) \ {"disp_reject"},
           \/ Become(w, [worker[w] EXCEPT !.pc = pc])
           \/ \E token : Become(w, [worker[w] EXCEPT !.pc = pc, !.token = token])
           \/ \E row : Become(w, [worker[w] EXCEPT !.pc = pc, !.disp = row])
           \/ \E may : Become(w, [worker[w] EXCEPT !.pc = pc, !.mayPost = may])
           \/ \E id : Become(w, [worker[w] EXCEPT !.pc = pc, !.comment = id, !.disp = None])
    PROVE  Settles(w)
<1>1. worker[w] \in Local
  BY Parts
<1>2. \E x : Become(w, x) /\ x.item = worker[w].item /\ x.pc = pc
  <2>1. CASE Become(w, [worker[w] EXCEPT !.pc = pc])
    <3> DEFINE x == [worker[w] EXCEPT !.pc = pc]
    <3>1. x.item = worker[w].item /\ x.pc = pc /\ Become(w, x)
      BY <1>1, <2>1 DEF Local
    <3> HIDE DEF x
    <3> QED
      BY <3>1
  <2>2. ASSUME NEW token, Become(w, [worker[w] EXCEPT !.pc = pc, !.token = token])
        PROVE  \E x : Become(w, x) /\ x.item = worker[w].item /\ x.pc = pc
    <3> DEFINE x == [worker[w] EXCEPT !.pc = pc, !.token = token]
    <3>1. x.item = worker[w].item /\ x.pc = pc /\ Become(w, x)
      BY <1>1, <2>2 DEF Local
    <3> HIDE DEF x
    <3> QED
      BY <3>1
  <2>3. ASSUME NEW row, Become(w, [worker[w] EXCEPT !.pc = pc, !.disp = row])
        PROVE  \E x : Become(w, x) /\ x.item = worker[w].item /\ x.pc = pc
    <3> DEFINE x == [worker[w] EXCEPT !.pc = pc, !.disp = row]
    <3>1. x.item = worker[w].item /\ x.pc = pc /\ Become(w, x)
      BY <1>1, <2>3 DEF Local
    <3> HIDE DEF x
    <3> QED
      BY <3>1
  <2>4. ASSUME NEW may, Become(w, [worker[w] EXCEPT !.pc = pc, !.mayPost = may])
        PROVE  \E x : Become(w, x) /\ x.item = worker[w].item /\ x.pc = pc
    <3> DEFINE x == [worker[w] EXCEPT !.pc = pc, !.mayPost = may]
    <3>1. x.item = worker[w].item /\ x.pc = pc /\ Become(w, x)
      BY <1>1, <2>4 DEF Local
    <3> HIDE DEF x
    <3> QED
      BY <3>1
  <2>5. ASSUME NEW id,
               Become(w, [worker[w] EXCEPT !.pc = pc, !.comment = id, !.disp = None])
        PROVE  \E x : Become(w, x) /\ x.item = worker[w].item /\ x.pc = pc
    <3> DEFINE x == [worker[w] EXCEPT !.pc = pc, !.comment = id, !.disp = None]
    <3>1. x.item = worker[w].item /\ x.pc = pc /\ Become(w, x)
      BY <1>1, <2>5 DEF Local
    <3> HIDE DEF x
    <3> QED
      BY <3>1
  <2> QED
    BY <2>1, <2>2, <2>3, <2>4, <2>5
<1> QED
  BY <1>2, DispatcherMoves

\* The pull request is not what is under review: the dispatch rejects.
LEMMA DispatcherRejects ==
    ASSUME WorkerInv, DecisionInv, NEW w \in Workers, UNCHANGED store, past' = past,
           worker[w].pc \in {"disp_live", "disp_live2"}, ~LiveMatches(ItemPair(w)),
           Become(w, Reject(w))
    PROVE  Settles(w)
<1> DEFINE p == ItemPair(w)
<1>1. /\ worker \in [Workers -> Local] /\ worker[w] \in Local /\ TypeOK /\ TopicPart(w)
      /\ WorkerPart(w) /\ GithubType /\ ReportsInTime
  BY Parts
<1>2. OutboxLater
  BY <1>1, QuietLater DEF Later
<1>3. worker'[w] = Reject(w) /\ p \in PairId
  BY <1>1, Becomes DEF WorkerPart, PairPart, PairSteps, AfterPair
<1>4. worker'[w].pc = "disp_reject" /\ worker'[w].item = worker[w].item
  BY <1>1, <1>3 DEF Local, Reject
<1>5. ItemPair(w)' = p /\ pair' = pair
  BY <1>4 DEF ItemPair, store
<1>6. Excused(p)
  BY <1>1, <1>3, LiveExcuses
<1>7. Excused(ItemPair(w))'
  <2> HIDE DEF p
  <2> QED
    BY <1>5, <1>6 DEF Excused, IsOpen
<1>8. JudgePart(w)'
  BY <1>4, <1>7 DEF JudgePart
<1>9. SameHandler(worker[w].pc, "disp_reject") /\ worker[w].pc # "idle"
  BY DEF SameHandler, GateSteps, AfterGate, EvaluateSteps, DispatchSteps
<1> QED
  BY <1>1, <1>2, <1>4, <1>8, <1>9, Settled

\* The steps before the pull request is looked at.
LEMMA DispatchReadsSettle ==
    ASSUME WorkerInv, DecisionInv, NEW w \in Workers,
           DispatchLoad(w) \/ DispatchAcquire(w) \/ DispatchHeld(w) \/ DispatchReload(w)
             \/ DispatchReplan(w) \/ DispatchRenew(w)
    PROVE  Later /\ Settles(w)
<1> DEFINE Near == DispatchSteps \cup {"disp_load", "disp_acquire", "disp_held"}
<1>1. SafeInv /\ TypeOK /\ WorkerPart(w)
  BY Parts
<1>2. worker[w].pc \in Near
  BY DEF DispatchLoad, DispatchAcquire, DispatchHeld, DispatchReload, DispatchReplan,
         DispatchRenew, At, DispatchSteps
<1>3. Later
  <2>1. CASE UNCHANGED store
    BY <1>1, <2>1, QuietLater
  <2>2. CASE DispatchAcquire(w) /\ AcquirePairLease(ItemPair(w), ItemEpoch(w), w)
    <3>1. ItemPair(w) \in PairId
      BY <1>1, <2>2 DEF DispatchAcquire, At, WorkerPart, PairPart, PairSteps
    <3> QED
      BY <1>1, <2>2, <3>1, AcquirePairLater
  <2> QED
    BY <2>1, <2>2 DEF DispatchLoad, DispatchAcquire, DispatchHeld, DispatchReload,
                      DispatchReplan, DispatchRenew, AcquireOr
<1>4. ASSUME Become(w, Done(w)) \/ Become(w, Failed(w)) PROVE Settles(w)
  BY <1>2, <1>3, <1>4, DispatcherMoves
<1>5. ASSUME DispatchLoad(w) PROVE Settles(w)
  <2>1. \/ Become(w, Done(w))
        \/ Become(w, [worker[w] EXCEPT !.pc = "disp_acquire"])
    BY <1>5 DEF DispatchLoad, Branch
  <2>2. "disp_acquire" \in (DispatchSteps \cup {"disp_acquire", "disp_held"}) \ {"disp_reject"}
    OBVIOUS
  <2> QED
    BY <1>2, <1>3, <1>4, <2>1, <2>2, DispatcherGoes
<1>6. ASSUME DispatchAcquire(w) PROVE Settles(w)
  <2>1. \/ Become(w, [worker[w] EXCEPT !.pc = "disp_reload",
                                       !.token = pair[ItemPair(w)].fence + 1])
        \/ Become(w, [worker[w] EXCEPT !.pc = "disp_held"])
    BY <1>6 DEF DispatchAcquire, AcquireOr, Goto
  <2>2. {"disp_held", "disp_reload"} \subseteq
           (DispatchSteps \cup {"disp_acquire", "disp_held"}) \ {"disp_reject"}
    BY DEF DispatchSteps
  <2>3. ASSUME NEW token, Become(w, [worker[w] EXCEPT !.pc = "disp_reload", !.token = token])
        PROVE  Settles(w)
    BY <1>2, <1>3, <2>2, <2>3, DispatcherGoes
  <2>4. ASSUME Become(w, [worker[w] EXCEPT !.pc = "disp_held"]) PROVE Settles(w)
    BY <1>2, <1>3, <2>2, <2>4, DispatcherGoes
  <2> QED
    BY <2>1, <2>3, <2>4
<1>7. ASSUME DispatchHeld(w) PROVE Settles(w)
  BY <1>4, <1>7 DEF DispatchHeld, Branch
<1>8. ASSUME NEW pc \in {"disp_live", "disp_renew"}, NEW row,
             Become(w, [worker[w] EXCEPT !.pc = pc, !.disp = row])
      PROVE  Settles(w)
  <2>1. pc \in (DispatchSteps \cup {"disp_acquire", "disp_held"}) \ {"disp_reject"}
    BY DEF DispatchSteps
  <2> QED
    BY <1>2, <1>3, <1>8, <2>1, DispatcherGoes
<1>9. ASSUME DispatchReload(w) \/ DispatchReplan(w) PROVE Settles(w)
  <2>1. \/ Become(w, Done(w)) \/ Become(w, Failed(w))
        \/ Become(w, [worker[w] EXCEPT !.pc = "disp_live", !.disp = ItemDispatch(w)])
        \/ Become(w, [worker[w] EXCEPT !.pc = "disp_renew", !.disp = ItemDispatch(w)])
    BY <1>9 DEF DispatchReload, DispatchReplan, Branch
  <2> QED
    BY <1>4, <1>8, <2>1
<1>10. ASSUME DispatchRenew(w) PROVE Settles(w)
  <2>1. \/ Become(w, Failed(w))
        \/ Become(w, [worker[w] EXCEPT !.pc = "disp_begin"])
    BY <1>10 DEF DispatchRenew, Branch
  <2>2. "disp_begin" \in (DispatchSteps \cup {"disp_acquire", "disp_held"}) \ {"disp_reject"}
    BY DEF DispatchSteps
  <2> QED
    BY <1>2, <1>3, <1>4, <2>1, <2>2, DispatcherGoes
<1> QED
  BY <1>3, <1>5, <1>6, <1>7, <1>9, <1>10

\* planDispatch, beginDispatchAttempt and adoptDispatch.
LEMMA DispatchWritesSettle ==
    ASSUME WorkerInv, DecisionInv, NEW w \in Workers,
           DispatchPlan(w) \/ DispatchBegin(w) \/ DispatchAdopt(w)
    PROVE  Later /\ Settles(w)
<1> DEFINE Near == DispatchSteps \cup {"disp_load", "disp_acquire", "disp_held"}
           Far == (DispatchSteps \cup {"disp_acquire", "disp_held"}) \ {"disp_reject"}
           l == PairLease(w)
<1>1. SafeInv /\ TypeOK
  BY Parts
<1>2. worker[w].pc \in Near /\ worker[w].pc \in AfterPair
  BY DEF DispatchPlan, DispatchBegin, DispatchAdopt, At, DispatchSteps, AfterPair
<1>3. <<l.pair, l.epoch>> \in EpochId
  BY <1>2, PairWorker, LeaseEpoch
<1>4. {"disp_replan", "disp_find"} \subseteq Far
  BY DEF DispatchSteps
<1>5. ASSUME UNCHANGED store PROVE Later
  BY <1>1, <1>5, QuietLater
<1>6. ASSUME Later, Become(w, Done(w)) \/ Become(w, Failed(w)) PROVE Settles(w)
  BY <1>2, <1>6, DispatcherMoves
<1>7. ASSUME DispatchPlan(w) PROVE Later /\ Settles(w)
  <2>1. CASE UNCHANGED store /\ Return(w)
    BY <1>5, <1>6, <2>1 DEF Return
  <2>2. CASE \E now \in Times : Stamp(now) /\ PlanDispatch(l, now) /\ Goto(w, "disp_replan")
    <3>1. \E now : PlanDispatch(l, now)
      BY <2>2
    <3> HIDE DEF l
    <3>2. Later
      BY <1>1, <1>3, <3>1, DispatchLater
    <3>3. Become(w, [worker[w] EXCEPT !.pc = "disp_replan"])
      BY <2>2 DEF Goto
    <3> QED
      BY <1>2, <1>4, <3>2, <3>3, DispatcherGoes
  <2> QED
    BY <1>7, <2>1, <2>2 DEF DispatchPlan
<1>8. ASSUME DispatchBegin(w) PROVE Later /\ Settles(w)
  <2>1. CASE UNCHANGED store /\ Throw(w)
    BY <1>5, <1>6, <2>1 DEF Throw
  <2>2. CASE /\ BeginDispatchAttempt(l)
             /\ Become(w, [worker[w] EXCEPT !.pc = "disp_find", !.mayPost = TRUE])
    <3> HIDE DEF l
    <3>1. Later
      BY <1>1, <1>3, <2>2, DispatchLater
    <3> QED
      BY <1>2, <1>4, <2>2, <3>1, DispatcherGoes
  <2> QED
    BY <1>8, <2>1, <2>2 DEF DispatchBegin
<1>9. ASSUME DispatchAdopt(w) PROVE Later /\ Settles(w)
  <2>1. CASE UNCHANGED store /\ Throw(w)
    BY <1>5, <1>6, <2>1 DEF Throw
  <2>2. CASE /\ AdoptDispatch(l, worker[w].comment, comments[worker[w].comment].at)
             /\ Return(w)
    <3> HIDE DEF l
    <3>1. \E id, at : AdoptDispatch(l, id, at)
      BY <2>2
    <3>2. Later
      BY <1>1, <1>3, <3>1, DispatchLater
    <3> QED
      BY <1>6, <2>2, <3>2 DEF Return
  <2> QED
    BY <1>9, <2>1, <2>2 DEF DispatchAdopt
<1> QED
  BY <1>7, <1>8, <1>9

\* The requests to GitHub.
LEMMA DispatchRequestsSettle ==
    ASSUME WorkerInv, DecisionInv, NEW w \in Workers,
           DispatchCheckLive(w) \/ DispatchFind(w) \/ DispatchPost(w) \/ DispatchRecheckLive(w)
    PROVE  Later /\ Settles(w)
<1> DEFINE Near == DispatchSteps \cup {"disp_load", "disp_acquire", "disp_held"}
           Far == (DispatchSteps \cup {"disp_acquire", "disp_held"}) \ {"disp_reject"}
<1>1. TypeOK /\ WorkerPart(w)
  BY Parts
<1>2. worker[w].pc \in Near /\ UNCHANGED store /\ past' = past
  BY DEF DispatchCheckLive, DispatchFind, DispatchPost, DispatchRecheckLive, At,
         DispatchSteps, github
<1>3. Later
  BY <1>1, <1>2, QuietLater
<1>4. {"disp_plan", "disp_renew", "disp_find", "disp_live2", "disp_post", "disp_adopt"}
         \subseteq Far
  BY DEF DispatchSteps
<1>5. ASSUME Become(w, Done(w)) \/ Become(w, Failed(w)) PROVE Settles(w)
  BY <1>2, <1>3, <1>5, DispatcherMoves
<1>6. ASSUME NEW pc \in Far, Become(w, [worker[w] EXCEPT !.pc = pc]) PROVE Settles(w)
  BY <1>2, <1>3, <1>6, DispatcherGoes
<1>7. ASSUME NEW id,
             Become(w, [worker[w] EXCEPT !.pc = "disp_live2", !.comment = id, !.disp = None])
      PROVE  Settles(w)
  BY <1>2, <1>3, <1>4, <1>7, DispatcherGoes
<1>8. ASSUME DispatchCheckLive(w) PROVE Settles(w)
  <2> DEFINE next == DispatchStep[worker[w].disp.state]
  <2>1. worker[w].pc = "disp_live"
    BY <1>8 DEF DispatchCheckLive, At
  <2>2. worker[w].disp.state \in {"none", "planned", "attempting", "sent", "abandoned"}
    BY <1>1, <2>1 DEF WorkerPart, PairPart, DispatchRow
  <2>3. next \in {"disp_plan", "disp_renew", "disp_find", "complete"}
    BY <2>2 DEF DispatchStep
  <2> HIDE DEF next
  <2>4. \/ ~LiveMatches(ItemPair(w)) /\ Become(w, Reject(w))
        \/ Become(w, Done(w))
        \/ next # "complete" /\ Become(w, [worker[w] EXCEPT !.pc = next])
    BY <1>8 DEF DispatchCheckLive, next
  <2> QED
    BY <1>2, <1>4, <1>5, <1>6, <2>1, <2>3, <2>4, DispatcherRejects
<1>9. ASSUME DispatchFind(w) PROVE Settles(w)
  <2>1. \/ \E id \in Recovered(w) :
              Become(w, [worker[w] EXCEPT !.pc = "disp_live2", !.comment = id, !.disp = None])
        \/ Become(w, [worker[w] EXCEPT !.pc = "disp_post"])
        \/ Become(w, Failed(w))
    BY <1>9 DEF DispatchFind, Branch
  <2> QED
    BY <1>4, <1>5, <1>6, <1>7, <2>1
<1>10. ASSUME DispatchPost(w) PROVE Settles(w)
  BY <1>7, <1>10 DEF DispatchPost
<1>11. ASSUME DispatchRecheckLive(w) PROVE Settles(w)
  <2>1. worker[w].pc = "disp_live2"
    BY <1>11 DEF DispatchRecheckLive, At
  <2>2. \/ ~LiveMatches(ItemPair(w)) /\ Become(w, Reject(w))
        \/ Become(w, [worker[w] EXCEPT !.pc = "disp_adopt"])
    BY <1>11 DEF DispatchRecheckLive, Branch
  <2> QED
    BY <1>2, <1>4, <1>6, <2>1, <2>2, DispatcherRejects
<1> QED
  BY <1>3, <1>8, <1>9, <1>10, <1>11

-----------------------------------------------------------------------------
(* reconcileRepository                                                     *)

\* beginRepositorySnapshot, and the list: it is not older than the rows.
LEMMA ReconcileReadsSettle ==
    ASSUME WorkerInv, DecisionInv, NEW w \in Workers, ReconcileBegin(w) \/ ReconcileList(w)
    PROVE  Later /\ Settles(w)
<1>1. /\ worker \in [Workers -> Local] /\ worker[w] \in Local /\ TypeOK /\ TopicPart(w)
      /\ GithubType /\ ReportsInTime /\ JudgePart(w)
  BY Parts
<1>2. generation \in Nat
  BY <1>1 DEF TypeOK
<1>3. CASE ReconcileBegin(w)
  <2> DEFINE token == generation + 1
             x == [worker[w] EXCEPT !.pc = "rec_list", !.token = token]
  <2>1. /\ worker[w].pc = "rec_begin" /\ BeginRepositorySnapshot /\ Become(w, x)
    BY <1>3 DEF ReconcileBegin, At
  <2>2. generation' = token
    BY <2>1 DEF BeginRepositorySnapshot
  <2>3. Later /\ OutboxLater
    BY <1>1, <2>1, QuietLater DEF Later
  <2>4. worker'[w] = x
    BY <1>1, <2>1, Becomes
  <2>5. token \in Nat
    BY <1>2
  <2> HIDE DEF token
  <2>6. worker'[w].pc = "rec_list" /\ worker'[w].item = worker[w].item
        /\ worker'[w].token = token
    BY <1>1, <2>4 DEF Local
  <2>7. JudgePart(w)'
    BY <2>2, <2>5, <2>6 DEF JudgePart
  <2>8. SameHandler("rec_begin", "rec_list")
    BY DEF SameHandler, GateSteps, AfterGate, EvaluateSteps, DispatchSteps
  <2> QED
    BY <1>1, <2>1, <2>3, <2>6, <2>7, <2>8, Settled
<1>4. CASE ReconcileList(w)
  <2> DEFINE pulls == {live[n] : n \in {m \in Pulls : IsOpen(live[m])}}
             x == [worker[w] EXCEPT !.pc = "rec_apply", !.pulls = pulls]
  <2>1. worker[w].pc = "rec_list" /\ UNCHANGED store /\ Become(w, x)
        /\ past' = past
    BY <1>4 DEF ReconcileList, At, github
  <2>2. Later /\ OutboxLater
    BY <1>1, <2>1, QuietLater DEF Later
  <2>3. worker'[w] = x
    BY <1>1, <2>1, Becomes
  <2>4. ASSUME NEW r \in pulls
        PROVE  /\ r \in past
               /\ \A p \in PairId : p.pull = r.pair.pull => pair[p].srcAt <= r.at
    <3>1. PICK n \in Pulls : r = live[n]
      OBVIOUS
    <3>2. r.pair.pull = n
      BY <1>1, <3>1 DEF GithubType
    <3> QED
      BY <1>1, <3>1, <3>2 DEF ReportsInTime
  <2> HIDE DEF pulls
  <2>5. worker'[w].pc = "rec_apply" /\ worker'[w].item = worker[w].item
        /\ worker'[w].token = worker[w].token /\ worker'[w].pulls = pulls
    BY <1>1, <2>3 DEF Local
  <2> HIDE DEF x
  <2>6. worker[w].token <= generation /\ generation' = generation /\ pair' = pair
    BY <1>1, <2>1 DEF JudgePart, store
  <2>7. JudgePart(w)'
    BY <2>1, <2>4, <2>5, <2>6 DEF JudgePart
  <2>8. SameHandler("rec_list", "rec_apply")
    BY DEF SameHandler, GateSteps, AfterGate, EvaluateSteps, DispatchSteps
  <2> QED
    BY <1>1, <2>1, <2>2, <2>5, <2>7, <2>8, Settled
<1> QED
  BY <1>3, <1>4

\* reconcileOpenPullRequests
LEMMA ReconcileApplySettles ==
    ASSUME WorkerInv, WorkerInv', DecisionInv, NEW w \in Workers, ReconcileApply(w)
    PROVE  Later /\ Settles(w)
<1>1. /\ worker \in [Workers -> Local] /\ HistoryInv /\ TypeOK /\ TopicPart(w)
      /\ JudgePart(w) /\ WorkerPart(w) /\ \A k \in Keys : KeyKnown(k)
      /\ \A g \in GateId : gate[g].desired # "cancelled"
  BY Parts
<1>2. worker[w].pc = "rec_apply" /\ worker[w].pc # "idle" /\ past' = past
  BY DEF ReconcileApply, At, github
<1>3. TypeOK'
  BY DEF WorkerInv, HistoryInv, SafeInv
<1>4. CASE Throw(w) /\ UNCHANGED store
  <2>1. Later /\ OutboxLater
    BY <1>1, <1>4, QuietLater DEF Later
  <2> QED
    BY <1>1, <1>2, <1>4, <2>1, Thrown DEF Throw
<1>5. CASE ReconcileOpenPullRequests(worker[w].token, worker[w].pulls) /\ Return(w)
  <2> SUFFICES ASSUME NEW token, token = worker[w].token, NEW pulls, pulls = worker[w].pulls
               PROVE  Later /\ Settles(w)
    OBVIOUS
  <2>1. ReconcileOpenPullRequests(token, pulls) /\ Become(w, Done(w))
    BY <1>5 DEF Return
  <2>2. generation = token
    BY <2>1 DEF ReconcileOpenPullRequests, TokenCurrent
  <2>3. pulls \in Lists
    BY <1>1, <1>2 DEF WorkerPart, ReconcilePart
  <2>4. \A r \in pulls : /\ r \in past
                         /\ \A p \in PairId : (p.pull = r.pair.pull /\ pair[p].active) =>
                               pair[p].srcAt <= r.at
    BY <1>1, <1>2, <2>2 DEF JudgePart
  <2>5. /\ worker'[w] = Done(w)
        /\ \A v \in Workers : v # w => worker'[v] = worker[v]
    BY <1>1, <2>1, Becomes
  <2>6. worker'[w].item = worker[w].item /\ Topic(w) = "reconcile" /\ worker[w].item \in Keys
    BY <1>1, <1>2, <2>5 DEF Done, Idle, TopicPart
  <2>7. \A v \in Workers : worker'[v] = worker[v] \/ worker'[v].item[1] = "reconcile"
    BY <2>5, <2>6 DEF Topic
  <2>8. \A v \in Workers : worker'[v].pc # "idle" => worker'[v].item \in Keys
    BY <2>5, <2>6 DEF DecisionInv, TopicPart
  <2>9. pulls \subseteq past /\ past \subseteq past'
    BY <1>2, <2>4
  <2>10. Later /\ \A g \in GateId : ActiveGate(g)' => Assured(g)'
    BY <1>1, <1>3, <2>1, <2>3, <2>4, <2>7, <2>8, <2>9, ReconcileRenews
  <2>11. ItemCloses(w)
    BY <2>6, <2>10 DEF ItemCloses, Closes, Topic
  <2>12. OutboxLater
    BY <2>10 DEF Later
  <2> QED
    BY <1>1, <1>2, <2>1, <2>10, <2>11, <2>12, Returned
<1> QED
  BY <1>4, <1>5 DEF ReconcileApply

-----------------------------------------------------------------------------
(* processOne, and what goes wrong.                                        *)

\* claimOutbox
LEMMA ClaimSettles ==
    ASSUME WorkerInv, DecisionInv, NEW w \in Workers, Claim(w)
    PROVE  Later /\ Settles(w)
<1>1. worker \in [Workers -> Local] /\ TypeOK
  BY Parts
<1>2. PICK i \in outbox : /\ ClaimOutbox(i, w)
                          /\ Become(w, [Idle EXCEPT !.pc = FirstStep[i.key[1]], !.item = i.key])
  BY DEF Claim
<1> DEFINE pc == FirstStep[i.key[1]]
           x == [Idle EXCEPT !.pc = pc, !.item = i.key]
<1>3. Later /\ OutboxLater
  BY <1>1, <1>2, ClaimLater DEF Later
<1>4. i.key \in Keys /\ i.key \in Keys'
  BY <1>3 DEF Keys, OutboxLater
<1>5. i.key[1] \in {"publish", "evaluate", "timeout", "dispatch", "reconcile"}
  BY <1>1, <1>4, KeysType, KeyTypes
<1>6. worker'[w] = x
  BY <1>1, <1>2, Becomes
<1>7. /\ i.key[1] = "publish" => pc = "pub_acquire"
      /\ i.key[1] \in {"evaluate", "timeout"} => pc = "eval_acquire"
      /\ i.key[1] = "dispatch" => pc = "disp_load"
      /\ i.key[1] = "reconcile" => pc = "rec_begin"
  BY DEF FirstStep
<1> HIDE DEF pc
<1>8. worker'[w].pc = pc /\ worker'[w].item = i.key
  BY <1>6 DEF Idle
<1> HIDE DEF x
<1>9. Topic(w)' = i.key[1]
  BY <1>8 DEF Topic
<1>10. TopicPart(w)'
  <2>1. CASE i.key[1] = "publish"
    BY <1>4, <1>7, <1>8, <1>9, <2>1 DEF TopicPart, EvaluateSteps, DispatchSteps
  <2>2. CASE i.key[1] \in {"evaluate", "timeout"}
    BY <1>4, <1>7, <1>8, <1>9, <2>2 DEF TopicPart, GateSteps, AfterGate, DispatchSteps
  <2>3. CASE i.key[1] = "dispatch"
    BY <1>4, <1>7, <1>8, <1>9, <2>3 DEF TopicPart, GateSteps, AfterGate, EvaluateSteps
  <2>4. CASE i.key[1] = "reconcile"
    BY <1>4, <1>7, <1>8, <1>9, <2>4 DEF TopicPart, GateSteps, AfterGate, EvaluateSteps,
                                        DispatchSteps
  <2> QED
    BY <1>5, <2>1, <2>2, <2>3, <2>4
<1>11. pc \in {"pub_acquire", "eval_acquire", "disp_load", "rec_begin"}
  BY <1>5, <1>7
<1>12. JudgePart(w)'
  BY <1>8, <1>11 DEF JudgePart
<1> QED
  BY <1>3, <1>4, <1>8, <1>10, <1>11, <1>12 DEF Settles

\* completeOutbox and failOutbox
LEMMA FinishSettles ==
    ASSUME WorkerInv, DecisionInv, NEW w \in Workers, Complete(w) \/ Fail(w)
    PROVE  Later /\ Settles(w)
<1>1. worker \in [Workers -> Local] /\ TypeOK
  BY Parts
<1>2. Become(w, Idle)
  BY DEF Complete, Fail
<1>3. \/ CompleteOutbox(worker[w].item, w) /\ At(w, "complete")
      \/ FailOutbox(worker[w].item, w)
  BY DEF Complete, Fail
<1> QED
  BY <1>1, <1>2, <1>3, FinishLater, Rested

\* A failed request, a lost response, a crash.
LEMMA TroubleSettles ==
    ASSUME WorkerInv, DecisionInv, NEW w \in Workers,
           GithubError(w) \/ LostResponse(w) \/ Crash(w)
    PROVE  Later /\ Settles(w)
<1>1. worker \in [Workers -> Local] /\ TypeOK /\ TopicPart(w)
  BY Parts
<1>2. UNCHANGED store
  BY DEF GithubError, LostResponse, Crash
<1>3. Later /\ OutboxLater
  BY <1>1, <1>2, QuietLater DEF Later
<1>4. CASE Crash(w)
  BY <1>1, <1>3, <1>4, Rested DEF Crash
<1>5. CASE GithubError(w) \/ LostResponse(w)
  <2>1. worker[w].pc # "idle"
    BY <1>5 DEF GithubError, LostResponse, Requests, At
  <2> QED
    BY <1>1, <1>3, <1>5, <2>1, Thrown DEF GithubError, LostResponse, Throw
<1> QED
  BY <1>4, <1>5

-----------------------------------------------------------------------------
(* Every step keeps the invariant.                                         *)

\* A transaction of the store keeps what was promised.
LEMMA NextKept ==
    ASSUME HistoryInv, StoreNext \/ UNCHANGED store
    PROVE  Kept
<1>1. TypeOK
  BY DEF HistoryInv, SafeInv
<1>2. CASE Other \/ UNCHANGED store
  BY <1>2, OtherSteady DEF Steady
<1>3. ASSUME NEW l \in PairLeases, NEW desired, CommitPairGate(l, desired) PROVE Kept
  BY <1>1, <1>3, LeaseEpoch, CommitKept
<1> QED
  BY <1>2, <1>3 DEF StoreNext, PairOperation, Other

\* The worker that takes the step, and GitHub's clock.
Alone(w) ==
    /\ \A v \in Workers : v # w => worker'[v] = worker[v]
    /\ UNCHANGED <<live, past>>
    /\ clock' \in Nat /\ clock <= clock'

\* GitHub's clock does not go back.
LEMMA StampedAlone ==
    ASSUME WorkerInv, NEW t, Stamp(t)
    PROVE  clock' \in Nat /\ clock <= clock'
<1>1. clock \in Nat /\ GithubType /\ MaxClock \in Nat
  BY WorkerAssumption DEF WorkerInv, GithubType
<1>2. t \in {clock, clock + 1} /\ clock' = t
  BY DEF Stamp
<1> QED
  BY <1>1, <1>2

\* What a worker does leaves the other workers and the pull requests alone.
LEMMA OneWorker ==
    ASSUME WorkerInv, NEW w \in Workers,
           Claim(w) \/ Step(w) \/ GithubError(w) \/ LostResponse(w) \/ Crash(w)
    PROVE  Alone(w)
<1>1. clock \in Nat /\ worker \in [Workers -> Local]
  BY WorkerAssumption DEF WorkerInv, GithubType
<1>2. ASSUME UNCHANGED github PROVE UNCHANGED <<live, past>> /\ clock' \in Nat /\ clock <= clock'
  BY <1>1, <1>2 DEF github
<1>3. CASE PublishStep(w)
  <2>1. UNCHANGED <<live, past, clock>>
    BY <1>3 DEF PublishStep, PublishAcquire, PublishHeld, PublishRead, PublishLoadPair,
                PublishCheckLive, PublishAuthorize, PublishFind, PublishWrite, PublishReject,
                PublishCommit, PublishSupersede, github
  <2>2. \A v \in Workers : v # w => worker'[v] = worker[v]
    BY <1>1, <1>3
    DEF PublishStep, PublishAcquire, PublishHeld, PublishRead, PublishLoadPair,
        PublishCheckLive, PublishAuthorize, PublishFind, PublishWrite, PublishReject,
        PublishCommit, PublishSupersede, Become, Goto, Branch, Return
  <2> QED
    BY <1>1, <2>1, <2>2 DEF Alone
<1>4. CASE EvaluateStep(w) \/ DispatchReject(w)
  <2>1. UNCHANGED <<live, past, clock>>
    BY <1>4 DEF EvaluateStep, EvaluateAcquire, EvaluateHeld, EvaluateLoadPair,
                EvaluateLoadDispatch, EvaluateLoadEvidence, EvaluateCheckLive, EvaluateCommit,
                DispatchReject, github
  <2>2. \A v \in Workers : v # w => worker'[v] = worker[v]
    BY <1>1, <1>4
    DEF EvaluateStep, EvaluateAcquire, EvaluateHeld, EvaluateLoadPair, EvaluateLoadDispatch,
        EvaluateLoadEvidence, EvaluateCheckLive, EvaluateCommit, DispatchReject, AcquireOr,
        CommitOrThrow, Become, Goto, Branch, Return, Throw
  <2> QED
    BY <1>1, <2>1, <2>2 DEF Alone
<1>5. CASE DispatchLoad(w) \/ DispatchAcquire(w) \/ DispatchHeld(w) \/ DispatchReload(w)
             \/ DispatchCheckLive(w) \/ DispatchReplan(w) \/ DispatchRenew(w)
             \/ DispatchBegin(w) \/ DispatchFind(w) \/ DispatchRecheckLive(w)
             \/ DispatchAdopt(w)
  <2>1. UNCHANGED <<live, past, clock>>
    BY <1>5 DEF DispatchLoad, DispatchAcquire, DispatchHeld, DispatchReload,
                DispatchCheckLive, DispatchReplan, DispatchRenew, DispatchBegin, DispatchFind,
                DispatchRecheckLive, DispatchAdopt, github
  <2>2. \A v \in Workers : v # w => worker'[v] = worker[v]
    BY <1>1, <1>5
    DEF DispatchLoad, DispatchAcquire, DispatchHeld, DispatchReload, DispatchCheckLive,
        DispatchReplan, DispatchRenew, DispatchBegin, DispatchFind, DispatchRecheckLive,
        DispatchAdopt, AcquireOr, Become, Goto, Branch, Return, Throw
  <2> QED
    BY <1>1, <2>1, <2>2 DEF Alone
<1>6. CASE DispatchPlan(w) \/ DispatchPost(w)
  <2>1. UNCHANGED <<live, past>> /\ ((\E t : Stamp(t)) \/ UNCHANGED clock)
    BY <1>6 DEF DispatchPlan, DispatchPost, PostComment
  <2>2. \A v \in Workers : v # w => worker'[v] = worker[v]
    BY <1>1, <1>6 DEF DispatchPlan, DispatchPost, Become, Goto, Return
  <2> QED
    BY <1>1, <2>1, <2>2, StampedAlone DEF Alone
<1>7. CASE ReconcileStep(w) \/ Complete(w) \/ Fail(w) \/ Claim(w)
  <2>1. UNCHANGED <<live, past, clock>>
    BY <1>7 DEF ReconcileStep, ReconcileBegin, ReconcileList, ReconcileApply, Complete, Fail,
                Claim, github
  <2>2. \A v \in Workers : v # w => worker'[v] = worker[v]
    BY <1>1, <1>7
    DEF ReconcileStep, ReconcileBegin, ReconcileList, ReconcileApply, Complete, Fail, Claim,
        Become, Return, Throw
  <2> QED
    BY <1>1, <2>1, <2>2 DEF Alone
<1>8. CASE GithubError(w) \/ LostResponse(w) \/ Crash(w)
  <2>1. UNCHANGED <<live, past>> /\ ((\E t : Stamp(t)) \/ UNCHANGED clock)
    BY <1>8 DEF GithubError, LostResponse, Crash, PostComment, github
  <2>2. \A v \in Workers : v # w => worker'[v] = worker[v]
    BY <1>1, <1>8 DEF GithubError, LostResponse, Crash, Become, Throw
  <2> QED
    BY <1>1, <2>1, <2>2, StampedAlone DEF Alone
<1> QED
  BY <1>3, <1>4, <1>5, <1>6, <1>7, <1>8 DEF Step, DispatchStepOf

\* What the store learns of GitHub's clock comes from reports.
LEMMA StillInTime ==
    ASSUME WorkerInv, ReportsInTime, Later, UNCHANGED <<live, past>>, clock' \in Nat,
           clock <= clock'
    PROVE  ReportsInTime'
<1>1. GithubType /\ clock \in Nat
  BY WorkerAssumption DEF WorkerInv, GithubType
<1>2. \A n \in Pulls : live[n].at \in Nat
  BY <1>1, StoreAssumption DEF GithubType, PullRef
<1>3. \A n \in Pulls : live'[n] \in past' /\ live'[n].at <= clock'
  BY <1>1, <1>2 DEF ReportsInTime
<1>4. \A r \in past' : r.at <= live'[r.pair.pull].at
  BY DEF ReportsInTime
<1>5. ASSUME NEW p \in PairId PROVE pair'[p].srcAt <= live'[p.pull].at
  <2>1. pair'[p].srcAt = pair[p].srcAt \/ \E r \in past : r.pair = p /\ pair'[p].srcAt = r.at
    BY DEF Later, PairLater
  <2> QED
    BY <2>1 DEF ReportsInTime
<1> QED
  BY <1>3, <1>4, <1>5 DEF ReportsInTime

\* A worker's step.
LEMMA WorkerDecides ==
    ASSUME WorkerInv, WorkerInv', DecisionInv, NEW w \in Workers,
           Claim(w) \/ Step(w) \/ GithubError(w) \/ LostResponse(w) \/ Crash(w), Kept
    PROVE  DecisionInv'
<1>1. Alone(w)
  BY OneWorker
<1>2. UNCHANGED <<live, past>> /\ clock' \in Nat /\ clock <= clock'
  BY <1>1 DEF Alone
<1>3. Later /\ Settles(w)
  <2>1. CASE PublishStep(w)
    BY <2>1, PublishReadsSettle, PublishLoadPairSettles, PublishCheckLiveSettles,
       PublishAuthorizeSettles, PublishRejectSettles, PublishEndSettles DEF PublishStep
  <2>2. CASE EvaluateStep(w) \/ DispatchReject(w)
    <3>1. CASE EvaluateCommit(w) \/ DispatchReject(w)
      <4>1. worker[w].pc \in {"eval_commit", "disp_reject"} /\ CommitOrThrow(w)
        BY <3>1 DEF EvaluateCommit, DispatchReject, At
      <4> QED
        BY <1>2, <4>1, CommitSettles
    <3> QED
      BY <2>2, <3>1, EvaluateReadsSettle, EvaluateLoadDispatchSettles,
         EvaluateLoadEvidenceSettles, EvaluateCheckLiveSettles DEF EvaluateStep
  <2>3. CASE DispatchStepOf(w)
    BY <2>2, <2>3, DispatchReadsSettle, DispatchWritesSettle, DispatchRequestsSettle
    DEF DispatchStepOf
  <2>4. CASE ReconcileStep(w)
    BY <2>4, ReconcileReadsSettle, ReconcileApplySettles DEF ReconcileStep
  <2>5. CASE Complete(w) \/ Fail(w) \/ Claim(w)
    BY <2>5, FinishSettles, ClaimSettles
  <2>6. CASE GithubError(w) \/ LostResponse(w) \/ Crash(w)
    BY <2>6, TroubleSettles
  <2> QED
    BY <2>1, <2>2, <2>3, <2>4, <2>5, <2>6 DEF Step
<1>4. ReportsInTime'
  BY <1>2, <1>3, StillInTime DEF DecisionInv
<1>5. \A v \in Workers : worker'[v] = worker[v] \/ Settles(v)
  BY <1>1, <1>3 DEF Alone
<1> QED
  BY <1>2, <1>3, <1>4, <1>5, Preserved

\* Webhooks and the passing of time.
LEMMA OutsideLater ==
    ASSUME WorkerInv, WorkerInv', DecisionInv,
           DeliverPull \/ DeliverEvidence \/ DeliverOther \/ LeaseRunsOut \/ DeadlinePasses
    PROVE  Later
<1>1. HistoryInv /\ SafeInv /\ TypeOK /\ TypeOK' /\ GithubType
  BY DEF WorkerInv, HistoryInv, SafeInv
<1>2. \A k \in Keys : KeyKnown(k)
  BY DEF DecisionInv
<1>3. CASE DeliverPull
  <2>1. PICK r \in past : ApplyPullRequest(r)
    BY <1>3 DEF DeliverPull
  <2>2. r \in PullRef /\ past \subseteq past'
    BY <1>1, <1>3 DEF GithubType, DeliverPull, github
  <2> QED
    BY <1>1, <1>2, <2>1, <2>2, PullRequestLater
<1>4. CASE DeliverEvidence
  <2>1. PICK i \in Inputs :
            \/ \E n \in Pulls : \/ ApplyPullEvidence(n, None, i)
                                \/ ApplyPullEvidence(n, live[n].pair.head, i)
            \/ \E h \in Heads : ApplyShaEvidence(h, i)
    BY <1>4 DEF DeliverEvidence
  <2>2. ASSUME NEW n, NEW h, ApplyPullEvidence(n, h, i) PROVE Later
    <3>1. PICK p \in Current(n) : InvalidateForEvidence({p}, i)
      BY <2>2 DEF ApplyPullEvidence
    <3>2. {p} \in SUBSET PairId
      BY <3>1 DEF Current
    <3> QED
      BY <1>1, <1>2, <3>1, <3>2, EvidenceLater
  <2>3. ASSUME NEW h, ApplyShaEvidence(h, i) PROVE Later
    <3> DEFINE pairs == {p \in PairId : /\ p.head = h
                                        /\ pair[p].active /\ ~pair[p].quarantined}
    <3>1. InvalidateForEvidence(pairs, i) /\ pairs \in SUBSET PairId
      BY <2>3 DEF ApplyShaEvidence
    <3> HIDE DEF pairs
    <3> QED
      BY <1>1, <1>2, <3>1, EvidenceLater
  <2> QED
    BY <2>1, <2>2, <2>3
<1>5. CASE DeliverOther
  BY <1>1, <1>2, <1>5, PushLater, MalformedLater DEF DeliverOther
<1>6. CASE LeaseRunsOut
  <2>1. ASSUME NEW i \in outbox, ExpireClaim(i) PROVE Later
    BY <1>1, <2>1, ExpireClaimLater
  <2>2. ASSUME NEW p \in PairId, ExpirePairLease(p) PROVE Later
    BY <1>1, <2>2, ExpirePairLater
  <2>3. ASSUME NEW g \in GateId, ExpireGateLease(g) PROVE Later
    BY <1>1, <2>3, ExpireGateLater
  <2> QED
    BY <1>6, <2>1, <2>2, <2>3 DEF LeaseRunsOut
<1>7. CASE DeadlinePasses
  BY <1>1, <1>7, DeadlineLater DEF DeadlinePasses
<1> QED
  BY <1>3, <1>4, <1>5, <1>6, <1>7

\* What happens outside of the workers keeps the invariant.
LEMMA OutsideDecides ==
    ASSUME WorkerInv, WorkerInv', DecisionInv, Kept,
           DeliverPull \/ DeliverEvidence \/ DeliverOther \/ LeaseRunsOut \/ DeadlinePasses
    PROVE  DecisionInv'
<1>1. Later
  BY OutsideLater
<1>2. worker' = worker /\ UNCHANGED <<live, past>>
  BY DEF DeliverPull, DeliverEvidence, DeliverOther, LeaseRunsOut, DeadlinePasses, github
<1>3. clock' \in Nat /\ clock <= clock'
  <2>1. clock \in Nat
    BY WorkerAssumption DEF WorkerInv, GithubType
  <2>2. CASE DeliverEvidence
    <3>1. PICK i \in Inputs : clock' = IF i.at > clock THEN i.at ELSE clock
      BY <2>2 DEF DeliverEvidence
    <3>2. i.at \in Nat
      BY InputsAssumption DEF EvidenceInput
    <3> QED
      BY <2>1, <3>1, <3>2
  <2>3. CASE UNCHANGED github
    BY <2>1, <2>3 DEF github
  <2> QED
    BY <2>2, <2>3 DEF DeliverPull, DeliverOther, LeaseRunsOut, DeadlinePasses
<1>4. ReportsInTime'
  BY <1>1, <1>2, <1>3, StillInTime DEF DecisionInv
<1> QED
  BY <1>1, <1>2, <1>4, Preserved

\* GitHub reports a change: the report is the newest.
LEMMA ChangeDecides ==
    ASSUME WorkerInv, WorkerInv', DecisionInv, NEW n \in Pulls, ChangePull(n), Kept
    PROVE  DecisionInv'
<1>1. PICK r \in PullRef : /\ r.pair.pull = n /\ Stamp(r.at)
                           /\ live' = [live EXCEPT ![n] = r]
                           /\ past' = past \cup {r}
                           /\ UNCHANGED <<store, worker>>
  BY DEF ChangePull
<1>2. TypeOK /\ GithubType /\ clock \in Nat /\ ReportsInTime
  BY WorkerAssumption DEF WorkerInv, HistoryInv, SafeInv, GithubType, DecisionInv
<1>3. Later
  BY <1>1, <1>2, QuietLater
<1>4. clock' = r.at /\ r.at \in {clock, clock + 1} /\ r.at \in Nat
  BY <1>1, <1>2 DEF Stamp
<1>5. \A m \in Pulls : live[m].at \in Nat /\ live[m].at <= clock /\ live[m] \in past
  BY <1>2, StoreAssumption DEF GithubType, PullRef, ReportsInTime
<1>6. live'[n] = r /\ \A m \in Pulls : m # n => live'[m] = live[m]
  BY <1>1, <1>2 DEF GithubType
<1>7. \A m \in Pulls : live[m].at <= live'[m].at /\ live'[m].at \in Nat
  BY <1>2, <1>4, <1>5, <1>6
<1>8. \A m \in Pulls : live'[m] \in past' /\ live'[m].at <= clock'
  BY <1>1, <1>2, <1>4, <1>5, <1>6
<1>9. ASSUME NEW s \in past' PROVE s.at <= live'[s.pair.pull].at
  <2>1. CASE s = r
    BY <1>1, <1>4, <1>6, <2>1
  <2>2. CASE s \in past
    <3>1. s \in PullRef
      BY <1>2, <2>2 DEF GithubType
    <3>2. s.at \in Nat /\ s.pair.pull \in Pulls
      BY <3>1, StoreAssumption, KeyKinds DEF PullRef
    <3>3. s.at <= live[s.pair.pull].at
      BY <1>2, <2>2 DEF ReportsInTime
    <3> QED
      BY <1>5, <1>7, <3>2, <3>3
  <2> QED
    BY <1>1, <2>1, <2>2
<1>10. ASSUME NEW p \in PairId PROVE pair'[p].srcAt <= live'[p.pull].at
  <2>1. pair'[p] = pair[p] /\ pair[p].srcAt \in Nat /\ p.pull \in Pulls
    BY <1>1, <1>2, KeyKinds DEF store, TypeOK, PairRow
  <2>2. pair[p].srcAt <= live[p.pull].at
    BY <1>2 DEF ReportsInTime
  <2> QED
    BY <1>5, <1>7, <2>1, <2>2
<1>11. ReportsInTime'
  BY <1>8, <1>9, <1>10 DEF ReportsInTime
<1>12. past \subseteq past' /\ worker' = worker
  BY <1>1
<1> QED
  BY <1>3, <1>11, <1>12, Preserved

\* Every step keeps it.
LEMMA NextDecides ==
    ASSUME WorkerInv, DecisionInv, [Next]_vars, AnyId
    PROVE  DecisionInv'
<1>1. WorkerInv' /\ (StoreNext \/ UNCHANGED store)
  BY NextWorker
<1>2. Kept /\ TypeOK
  BY <1>1, NextKept DEF WorkerInv, HistoryInv, SafeInv
<1>3. CASE UNCHANGED vars
  <2>1. UNCHANGED store /\ worker' = worker /\ UNCHANGED <<live, past>> /\ clock' = clock
    BY <1>3 DEF vars, moving, github
  <2>2. Later /\ clock \in Nat
    BY <1>2, <2>1, QuietLater, WorkerAssumption DEF WorkerInv, GithubType
  <2>3. ReportsInTime'
    BY <2>1, <2>2, StillInTime DEF DecisionInv
  <2> QED
    BY <1>1, <1>2, <2>1, <2>2, <2>3, Preserved
<1>4. ASSUME NEW w \in Workers,
             Claim(w) \/ Step(w) \/ GithubError(w) \/ LostResponse(w) \/ Crash(w)
      PROVE  DecisionInv'
  BY <1>1, <1>2, <1>4, WorkerDecides
<1>5. CASE Environment
  BY <1>1, <1>2, <1>5, OutsideDecides, ChangeDecides DEF Environment
<1> QED
  BY <1>3, <1>4, <1>5 DEF Next

\* At first nothing is queued and there is no gate.
LEMMA InitDecides == Init => DecisionInv
<1> SUFFICES ASSUME Init PROVE DecisionInv
  OBVIOUS
<1>1. /\ \A p \in PairId : pair[p].srcAt = 0
      /\ \A g \in GateId : gate[g].desired = "failure" /\ ~gate[g].active
      /\ Keys = {} /\ outbox = {}
  BY DEF Init, StoreInit, NoPair, NoGate, NewGate, Keys
<1>2. /\ live \in [Pulls -> PullRef] /\ \A n \in Pulls : live[n].pair.pull = n /\ live[n].at = 0
      /\ past = {live[n] : n \in Pulls} /\ clock = 0
  BY DEF Init
<1>3. ReportsInTime
  <2>1. \A n \in Pulls : live[n] \in past /\ live[n].at <= clock
    BY <1>2
  <2>2. ASSUME NEW r \in past PROVE r.at <= live[r.pair.pull].at
    <3>1. PICK n \in Pulls : r = live[n]
      BY <1>2
    <3> QED
      BY <1>2, <3>1
  <2>3. ASSUME NEW p \in PairId PROVE pair[p].srcAt <= live[p.pull].at
    BY <1>1, <1>2, KeyKinds
  <2> QED
    BY <2>1, <2>2, <2>3 DEF ReportsInTime
<1>4. \A w \in Workers : worker[w] = Idle
  BY DEF Init
<1>5. Idle.pc = "idle"
  BY DEF Idle
<1>6. ASSUME NEW w \in Workers PROVE TopicPart(w) /\ JudgePart(w)
  <2>1. worker[w].pc = "idle"
    BY <1>4, <1>5
  <2> QED
    BY <2>1 DEF TopicPart, JudgePart, GateSteps, AfterGate, EvaluateSteps, DispatchSteps
<1> QED
  BY <1>1, <1>3, <1>6 DEF DecisionInv, ActiveGate

\* The invariant says so once nothing is left to do.
LEMMA DecisionFollows ==
    ASSUME WorkerInv, DecisionInv
    PROVE  DecisionIsUpToDate
<1> SUFFICES ASSUME \A topic \in {"evaluate", "reconcile"} : Unfinished(topic) = {},
                    NEW p \in PairId, Informed(p), ~dispatch[EpochOf(p)].late
             PROVE  \/ gate[GateOf(p)].desired =
                          EvaluatePair(pair[p], dispatch[EpochOf(p)], evidence[EpochOf(p)])
                    \/ /\ gate[GateOf(p)].desired = "pending"
                       /\ dispatch[EpochOf(p)].state = "sent"
  BY DEF DecisionIsUpToDate
<1> DEFINE g == GateOf(p)
<1>1. SafeInv /\ TypeOK /\ GithubType /\ ReportsInTime
  BY DEF WorkerInv, HistoryInv, SafeInv, DecisionInv
<1>2. pair[p].active
  BY DEF Informed
<1>3. g \in GateId /\ gate[g].active /\ gate[g].pair = p
  BY <1>1, <1>2, GateOfActive
<1>4. ActiveGate(g) /\ g.epoch = pair[p].epoch
  BY <1>3 DEF ActiveGate, GateOf
<1>5. EpochOf(p) = <<p, g.epoch>>
  BY <1>4 DEF EpochOf
<1> HIDE DEF g
<1>6. Assured(g)
  BY <1>3, <1>4 DEF DecisionInv
<1>7. ~Revisited(gate[g].pair, g.epoch)
  <2>1. ASSUME NEW k \in Todo, k[1] \in {"evaluate", "reconcile"} PROVE FALSE
    <3>1. PICK i \in outbox : ~i.done /\ i.key = k
      BY DEF Todo
    <3>2. i \in Unfinished(k[1])
      BY <3>1 DEF Unfinished
    <3> QED
      BY <2>1, <3>2
  <2> QED
    BY <2>1 DEF Revisited, Reaches
<1>8. ~Excused(p)
  <2>1. ASSUME NEW r \in past, r.pair.pull = p.pull, r.at >= pair[p].srcAt
        PROVE  r.pair = p /\ IsOpen(r) /\ ~r.draft
    <3> DEFINE now == live[p.pull]
    <3>1. /\ pair[p].srcAt = now.at /\ LiveMatches(p)
          /\ \A s \in past : (s.pair.pull = p.pull /\ s.at = now.at) => s = now
      BY DEF Informed
    <3>2. r.at <= now.at
      BY <1>1, <2>1 DEF ReportsInTime
    <3>3. r.at \in Nat /\ pair[p].srcAt \in Nat
      BY <1>1, StoreAssumption DEF GithubType, PullRef, TypeOK, PairRow
    <3>4. r.at = now.at
      BY <2>1, <3>1, <3>2, <3>3
    <3>5. r = now
      BY <2>1, <3>1, <3>4
    <3> QED
      BY <3>1, <3>5 DEF LiveMatches
  <2> QED
    BY <2>1 DEF Excused
<1>9. Says(p, EpochOf(p), gate[g].desired)
  BY <1>3, <1>5, <1>6, <1>7, <1>8 DEF Assured, Trusted
<1> QED
  BY <1>9 DEF Says, g

\* When every evaluation and reconciliation is done and the store knows the pull request
\* as it is, the gate says what the evidence says, or waits for the command that was
\* adopted after the last evaluation: evaluatePair, reconcileRepository and the webhooks of
\* store.ts leave no decision behind, however they are interleaved, delayed, repeated
\* after a crash or overtaken.
THEOREM DecisionsUpToDate == AnyId => (Spec => []DecisionIsUpToDate)
<1> SUFFICES ASSUME AnyId PROVE Spec => []DecisionIsUpToDate
  OBVIOUS
<1>1. WorkerInv /\ DecisionInv /\ [Next]_vars => DecisionInv'
  BY NextDecides
<1>2. Spec => []WorkerInv
  BY WorkersInvariant
<1>3. WorkerInv /\ DecisionInv => DecisionIsUpToDate
  BY DecisionFollows
<1> QED
  BY <1>1, <1>2, <1>3, InitDecides, PTL DEF Spec

=============================================================================
