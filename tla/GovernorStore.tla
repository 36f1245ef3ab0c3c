---------------------------- MODULE GovernorStore ----------------------------
(***************************************************************************)
(* The PostgreSQL store of the Governor App: the tables of                 *)
(* services/governor-app/migrations and every transaction of               *)
(* services/governor-app/src/store.ts that changes them, for one           *)
(* repository.  Each transaction is one action: ingest and reconcile run   *)
(* under one advisory lock, the others under row locks.                    *)
(*                                                                         *)
(* Abstractions.  A lease's expiry time is the flag `live', which          *)
(* ExpireLeases may clear at any moment; evidence_deadline_at is the flag  *)
(* `late' of a dispatch row.  An outbox row's retry delay and lease_fence  *)
(* are left out: a claim is any ready row, and a worker holds at most one  *)
(* claim, so WORKER_ID identifies it.  A row that does not exist has epoch *)
(* 0 (pair), revision 0 (gate) or state "none" (dispatch).                 *)
(***************************************************************************)
EXTENDS Evidence

CONSTANTS
    Pulls,          \* pull-request numbers
    Bases, Heads,   \* commit ids
    MergeRefs,      \* merge-group head refs
    Workers,        \* WORKER_IDs
    Times,          \* the values of a pull request's updated_at
    Ids,            \* the ids GitHub gives to check runs and comments
    MaxEpoch,       \* bound on the epochs of a subject
    None            \* SQL NULL

ASSUME StoreAssumption ==
    /\ Times \subseteq Nat
    /\ Ids \subseteq Nat \ {0}
    /\ MaxEpoch \in Nat \ {0}
    /\ Pulls \cap MergeRefs = {}
    /\ None \notin Workers \cup Heads
    /\ None \notin [pull : Pulls, base : Bases, head : Heads]

VARIABLES
    pair,           \* pr_pair: one row per (pull, base, head)
    gate,           \* gate_subject: one row per (subject key, epoch)
    dispatch,       \* dispatch: one row per (pair, epoch)
    evidence,       \* evidence: the rows of each (pair, epoch)
    outbox,         \* outbox: a set of rows with distinct keys
    generation      \* repository_reconcile_generation (0: no row yet)

store == <<pair, gate, dispatch, evidence, outbox, generation>>

Epochs  == 1 .. MaxEpoch
PairId  == [pull : Pulls, base : Bases, head : Heads]
GateId  == [key : Pulls \cup MergeRefs, epoch : Epochs]
EpochId == PairId \X Epochs

PairRow ==
    [epoch : 0 .. MaxEpoch, fence : Nat, owner : Workers \cup {None},
     live : BOOLEAN, active : BOOLEAN, quarantined : BOOLEAN,
     draft : BOOLEAN, state : {"open", "closed"}, srcAt : Nat]

GateRow ==
    [pair : PairId \cup {None}, head : Heads \cup {None}, active : BOOLEAN,
     quarantined : BOOLEAN, revision : Nat, fence : Nat,
     owner : Workers \cup {None}, live : BOOLEAN, desired : GateStates,
     checkRun : Nat, pubRev : Nat, pubState : GateStates \cup {None}]

DispatchRow ==
    [state : {"none", "planned", "attempting", "sent", "abandoned"},
     plannedAt : Nat, dispatchedAt : Nat, comment : Nat, late : BOOLEAN]

\* outbox.dedupe_key; it also carries the row's topic and payload.
OutboxKey ==
    ({"publish"} \X GateId \X Nat)
    \cup ({"evaluate"} \X PairId \X Epochs \X Nat)
    \cup ({"timeout", "dispatch"} \X PairId \X Epochs)
    \cup ({"reconcile"} \X Nat)

OutboxRow == [key : OutboxKey, owner : Workers \cup {None}, live : BOOLEAN,
              done : BOOLEAN]

\* A pull request as a webhook or the list endpoint reports it.
PullRef == [pair : PairId, draft : BOOLEAN, state : {"open", "closed"},
            at : Times]

TypeOK ==
    /\ pair \in [PairId -> PairRow]
    /\ \A p \in PairId : pair[p].active => pair[p].epoch > 0
    /\ gate \in [GateId -> GateRow]
    /\ dispatch \in [EpochId -> DispatchRow]
    /\ evidence \in [EpochId -> SUBSET EvidenceInput]
    /\ outbox \subseteq OutboxRow
    /\ generation \in Nat

NoPair == [epoch |-> 0, fence |-> 0, owner |-> None, live |-> FALSE,
           active |-> FALSE, quarantined |-> FALSE, draft |-> FALSE,
           state |-> "closed", srcAt |-> 0]

NewGate(p, head, active, desired) ==
    [pair |-> p, head |-> head, active |-> active, quarantined |-> FALSE,
     revision |-> 1, fence |-> 0, owner |-> None, live |-> FALSE,
     desired |-> desired, checkRun |-> 0, pubRev |-> 0, pubState |-> None]

NoGate == [NewGate(None, None, FALSE, "failure") EXCEPT !.revision = 0]

NoDispatch == [state |-> "none", plannedAt |-> 0, dispatchedAt |-> 0,
               comment |-> 0, late |-> FALSE]

StoreInit ==
    /\ pair = [p \in PairId |-> NoPair]
    /\ gate = [g \in GateId |-> NoGate]
    /\ dispatch = [d \in EpochId |-> NoDispatch]
    /\ evidence = [d \in EpochId |-> {}]
    /\ outbox = {}
    /\ generation = 0

-----------------------------------------------------------------------------
(* Rows and queries.                                                       *)

Current(n) == {p \in PairId : p.pull = n /\ pair[p].active}

Known(n) == {p \in PairId : p.pull = n /\ pair[p].epoch > 0}

\* COALESCE(MAX(epoch), 0) + 1 over the rows of a pull request.
NextEpoch(n) ==
    LET used == {pair[p].epoch : p \in Known(n)} \cup {0}
    IN  1 + (CHOOSE e \in used : \A f \in used : f <= e)

\* The active gates of pairs (WHERE pair_id = ... AND active).
BoundTo(pairs) == {g \in GateId : gate[g].active /\ gate[g].pair \in pairs}

Bound(p) == BoundTo({p})

EpochOf(p) == <<p, pair[p].epoch>>

\* SET fence = fence + 1, lease_owner = NULL, lease_expires_at = NULL
Fenced(row) == [row EXCEPT !.fence = @ + 1, !.owner = None, !.live = FALSE]

Unleased(row) == [row EXCEPT !.owner = None, !.live = FALSE]

\* The update every change of a gate's desired state makes.
Revised(row, desired) ==
    [row EXCEPT !.desired = desired, !.revision = @ + 1, !.fence = @ + 1,
                !.owner = None, !.live = FALSE]

RevisedAs(row, desired, active) ==
    [Revised(row, desired) EXCEPT !.active = active]

-----------------------------------------------------------------------------
(* The outbox: INSERT ... ON CONFLICT (dedupe_key) DO NOTHING.             *)

NewItem(k) == [key |-> k, owner |-> None, live |-> FALSE, done |-> FALSE]

Keys == {i.key : i \in outbox}

Enqueue(keys) == outbox' = outbox \cup {NewItem(k) : k \in keys \ Keys}

\* enqueueGatePublication for gates whose revision this transaction advances.
Publications(gates) ==
    {<<"publish", g, gate[g].revision + 1>> : g \in gates}

\* Mutant: one evaluation per epoch.
EvaluationOnce(p, epoch, revision) == <<"evaluate", p, epoch, 1>>

Evaluation(p, epoch, revision) == <<"evaluate", p, epoch, revision>>

\* enqueuePairWork
PairWork(p, epoch, revision) ==
    {<<"dispatch", p, epoch>>, Evaluation(p, epoch, revision)}

-----------------------------------------------------------------------------
(* applyPullRequest: a pull request is projected on its pair and gate.     *)

\* Mutant: the rows of a closed pull request are not consulted.
OutdatedForgettingClosed(r) ==
    \E c \in Current(r.pair.pull) : r.at < pair[c].srcAt

\* An older report than the one the store knows: nothing changes.
Outdated(r) ==
    LET n == r.pair.pull
    IN  IF Current(n) = {}
        THEN \E p \in Known(n) : r.at <= pair[p].srcAt
        ELSE \E c \in Current(n) : r.at < pair[c].srcAt

\* The report concerns the commits under review.
SamePair(r) == pair[r.pair].active

\* The same commits at the same time.
Repeated(r) == SamePair(r) /\ r.at = pair[r.pair].srcAt

IsOpen(r) == r.state = "open"

\* A new base/head pair takes the next epoch; its row is inserted, or revived
\* (and released from quarantine) when the pair was seen before.
OpenEpoch(p, r) ==
    [epoch |-> NextEpoch(p.pull),
     fence |-> IF pair[p].epoch = 0 THEN 0 ELSE pair[p].fence + 1,
     owner |-> None, live |-> FALSE, active |-> IsOpen(r),
     quarantined |-> FALSE, draft |-> r.draft, state |-> r.state,
     srcAt |-> r.at]

PairAfter(p, r) ==
    IF p = r.pair
    THEN IF SamePair(r)
         THEN [Fenced(pair[p]) EXCEPT !.draft = r.draft, !.state = r.state,
                                      !.srcAt = r.at, !.active = IsOpen(r)]
         ELSE OpenEpoch(p, r)
    ELSE IF pair[p].active THEN [Fenced(pair[p]) EXCEPT !.active = FALSE]
    ELSE pair[p]

\* Mutant: an edit or a reopening of the same commits forgives a quarantine.
DesiredAfterForgiving(r) == IF IsOpen(r) THEN "revoked" ELSE "failure"

\* What the gate of the same pair should say.
DesiredAfter(r) ==
    IF IsOpen(r) /\ ~pair[r.pair].quarantined THEN "revoked" ELSE "failure"

NewGateId(r) == [key |-> r.pair.pull, epoch |-> NextEpoch(r.pair.pull)]

\* Mutant: the superseded pair's gate is left alone.
TouchedByForgettingOld(r) == IF SamePair(r) THEN Bound(r.pair) ELSE {NewGateId(r)}

\* The gates that a report revises or creates.
TouchedBy(r) ==
    BoundTo(Current(r.pair.pull))
        \cup (IF SamePair(r) THEN {} ELSE {NewGateId(r)})

GateAfter(g, r) ==
    IF SamePair(r) THEN RevisedAs(gate[g], DesiredAfter(r), IsOpen(r))
    ELSE IF g = NewGateId(r)
         THEN NewGate(r.pair, r.pair.head, IsOpen(r),
                      IF IsOpen(r) THEN "revoked" ELSE "failure")
         ELSE RevisedAs(gate[g], "failure", FALSE)

\* Mutant: a draft that becomes ready is not dispatched.
WorkForNewPairs(r) ==
    IF ~IsOpen(r) \/ r.draft \/ SamePair(r) THEN {}
    ELSE PairWork(r.pair, NextEpoch(r.pair.pull), 1)

\* Ready pull requests outside quarantine are dispatched and evaluated.
WorkFor(r) ==
    IF ~IsOpen(r) \/ r.draft THEN {}
    ELSE IF ~SamePair(r) THEN PairWork(r.pair, NextEpoch(r.pair.pull), 1)
    ELSE IF pair[r.pair].quarantined THEN {}
    ELSE UNION {PairWork(r.pair, pair[r.pair].epoch, gate[g].revision + 1) :
                    g \in Bound(r.pair)}

\* Apply the reports of `refs' (one per pull request) and close the pairs of
\* `closing', with further outbox items `more'.
Project(refs, closing, more) ==
    LET refOf(n)   == CHOOSE r \in refs : r.pair.pull = n
        causeOf(g) == CHOOSE r \in refs : g \in TouchedBy(r)
        moved      == {r.pair.pull : r \in refs}
        touched    == {g \in GateId : \E r \in refs : g \in TouchedBy(r)}
        shut       == BoundTo(closing)
    IN  /\ pair' = [p \in PairId |->
              IF p \in closing
              THEN [Fenced(pair[p]) EXCEPT !.active = FALSE, !.state = "closed"]
              ELSE IF p.pull \in moved THEN PairAfter(p, refOf(p.pull))
              ELSE pair[p]]
        /\ gate' = [g \in GateId |->
              IF g \in shut THEN RevisedAs(gate[g], "failure", FALSE)
              ELSE IF g \in touched THEN GateAfter(g, causeOf(g))
              ELSE gate[g]]
        /\ Enqueue(Publications(touched \cup shut)
                     \cup (UNION {WorkFor(r) : r \in refs}) \cup more)
        /\ UNCHANGED <<dispatch, evidence>>

\* The bound on epochs.
HasRoom(r) == SamePair(r) \/ NextEpoch(r.pair.pull) <= MaxEpoch

\* ingest of a pull_request webhook.
ApplyPullRequest(r) ==
    /\ ~Outdated(r)
    /\ HasRoom(r)
    /\ generation' = generation + 1
    /\ Project(IF Repeated(r) THEN {} ELSE {r}, {}, {})

-----------------------------------------------------------------------------
(* Evidence webhooks: invalidatePairForEvidence, upsertEvidence and        *)
(* enqueueEvaluation for each pair concerned.                              *)

\* Mutant: the pair's fence and lease survive the new evidence.
InvalidatedUnfenced(row) == row

Invalidated(row) == Fenced(row)

InvalidateForEvidence(pairs, input) ==
    LET gates == BoundTo(pairs)
    IN  /\ pair' = [p \in PairId |->
                      IF p \in pairs THEN Invalidated(pair[p]) ELSE pair[p]]
        /\ gate' = [g \in GateId |->
                      IF g \in gates THEN RevisedAs(gate[g], "revoked", TRUE)
                      ELSE gate[g]]
        /\ evidence' = [d \in EpochId |->
                      IF \E p \in pairs : d = EpochOf(p)
                      THEN UpsertEvidence(evidence[d], input)
                      ELSE evidence[d]]
        /\ Enqueue(Publications(gates)
                     \cup {Evaluation(gate[g].pair, pair[gate[g].pair].epoch,
                                      gate[g].revision + 1) : g \in gates})
        /\ UNCHANGED <<dispatch, generation>>

\* A comment (expectedHead = None) or a review of pull request n.
ApplyPullEvidence(n, expectedHead, input) ==
    /\ input.kind = (IF expectedHead = None THEN "issue_comment" ELSE "review")
    /\ \E p \in Current(n) :
          /\ ~pair[p].quarantined
          /\ expectedHead \in {None, p.head}
          /\ InvalidateForEvidence({p}, input)

\* A commit status reaches every pull request with that head.
ApplyShaEvidence(head, input) ==
    LET pairs == {p \in PairId : /\ p.head = head
                                 /\ pair[p].active /\ ~pair[p].quarantined}
    IN  /\ input.kind = "status"
        /\ pairs # {}
        /\ InvalidateForEvidence(pairs, input)

-----------------------------------------------------------------------------
(* Push, malformed and unscoped webhooks.                                  *)

IsMerge(g) == g.key \in MergeRefs

\* A push revokes every gate outside quarantine and asks for a reconciliation
\* (the new generation names the delivery in the outbox key).
ApplyPush ==
    LET pairs == {p \in PairId : pair[p].active /\ ~pair[p].quarantined}
        gates == BoundTo(pairs)
                   \cup {g \in GateId : IsMerge(g) /\ gate[g].active
                                          /\ ~gate[g].quarantined}
    IN  /\ generation' = generation + 1
        /\ pair' = [p \in PairId |->
                      IF p \in pairs THEN Fenced(pair[p]) ELSE pair[p]]
        /\ gate' = [g \in GateId |->
                      IF g \in gates THEN Revised(gate[g], "revoked") ELSE gate[g]]
        /\ Enqueue(Publications(gates) \cup {<<"reconcile", generation + 1>>})
        /\ UNCHANGED <<dispatch, evidence>>

\* UPDATE dispatch SET state = 'abandoned' WHERE ... state <> 'abandoned'
Abandoned(d) == IF d.state = "none" THEN d ELSE [d EXCEPT !.state = "abandoned"]

\* Every active pair and gate is quarantined and fails.
Quarantine(gates, more) ==
    LET pairs == {p \in PairId : pair[p].active}
    IN  /\ pair' = [p \in PairId |->
              IF p \in pairs THEN [Fenced(pair[p]) EXCEPT !.quarantined = TRUE]
              ELSE pair[p]]
        /\ dispatch' = [d \in EpochId |->
              IF \E p \in pairs : d = EpochOf(p) THEN Abandoned(dispatch[d])
              ELSE dispatch[d]]
        /\ gate' = [g \in GateId |->
              IF g \in gates
              THEN [Revised(gate[g], "failure") EXCEPT !.quarantined = TRUE]
              ELSE gate[g]]
        /\ Enqueue(Publications(gates) \cup more)
        /\ UNCHANGED evidence

\* A signed but malformed event of the repository.
ApplyMalformed ==
    /\ generation' = generation + 1
    /\ Quarantine(BoundTo({p \in PairId : pair[p].active})
                    \cup {g \in GateId : IsMerge(g) /\ gate[g].active},
                  {<<"reconcile", generation + 1>>})

\* A signed event of no known repository, or a reused delivery id.
QuarantineAll ==
    /\ generation' = IF generation = 0 THEN 0 ELSE generation + 1
    /\ Quarantine({g \in GateId : gate[g].active}, {})

-----------------------------------------------------------------------------
(* Merge groups: a gate of their own that only a merge group event moves.  *)

MergeGate(ref) == {g \in GateId : g.key = ref /\ gate[g].active}

\* Every gate the ref ever had for this head.
MergeHistory(ref, head) ==
    {g \in GateId : g.key = ref /\ gate[g].revision > 0 /\ gate[g].head = head}

NextMergeEpoch(ref) ==
    LET used == {g.epoch : g \in {x \in GateId : /\ x.key = ref
                                                 /\ gate[x].revision > 0}}
                  \cup {0}
    IN  1 + (CHOOSE e \in used : \A f \in used : f <= e)

\* Revise the gates of `old' and insert `row' as the ref's next gate.
InsertMergeGate(ref, old, row) ==
    LET new == [key |-> ref, epoch |-> NextMergeEpoch(ref)]
    IN  /\ new.epoch <= MaxEpoch
        /\ gate' = [g \in GateId |->
              IF g = new THEN row
              ELSE IF g \in old THEN RevisedAs(gate[g], "cancelled", FALSE)
              ELSE gate[g]]
        /\ Enqueue(Publications(old \cup {new}))

ReviseMergeGate(g, desired, active) ==
    /\ gate' = [gate EXCEPT ![g] = RevisedAs(@, desired, active)]
    /\ Enqueue(Publications({g}))

\* Mutant: a late request reopens a merge group that was destroyed.
RetiredNever(ref, head) == FALSE

\* The newest gate of this head is inactive: the request comes too late.
Retired(ref, head) ==
    \E g \in MergeHistory(ref, head) :
        /\ \A h \in MergeHistory(ref, head) : h.epoch <= g.epoch
        /\ ~gate[g].active

\* action checks_requested
RequestMergeGroup(ref, head) ==
    /\ ~Retired(ref, head)
    /\ \/ \E g \in MergeGate(ref) :
             /\ gate[g].head = head /\ ~gate[g].quarantined
             /\ ReviseMergeGate(g, "revoked", TRUE)
       \/ /\ \A g \in MergeGate(ref) : gate[g].head # head
          /\ InsertMergeGate(ref, MergeGate(ref),
                             NewGate(None, head, TRUE, "revoked"))
    /\ UNCHANGED <<pair, dispatch, evidence, generation>>

\* action destroyed; a group that was never seen leaves a tombstone.
DestroyMergeGroup(ref, head) ==
    /\ \/ \E g \in MergeGate(ref) :
             gate[g].head = head /\ ReviseMergeGate(g, "cancelled", FALSE)
       \/ /\ MergeHistory(ref, head) = {}
          /\ InsertMergeGate(ref, {}, NewGate(None, head, FALSE, "cancelled"))
    /\ UNCHANGED <<pair, dispatch, evidence, generation>>

-----------------------------------------------------------------------------
(* Reconciliation with the list of open pull requests.                     *)

BeginRepositorySnapshot ==
    /\ generation' = generation + 1
    /\ UNCHANGED <<pair, gate, dispatch, evidence, outbox>>

\* UPDATE ... WHERE generation = token: the compare-and-swap.
TokenCurrent(token) == generation = token

\* Pairs that are no longer listed are closed, listed pulls are applied, and
\* a pair that is already up to date is evaluated again.
ReconcileOpenPullRequests(token, pulls) ==
    LET listed  == {r.pair.pull : r \in pulls}
        applied == {r \in pulls : ~Outdated(r) /\ ~Repeated(r)}
        again   == {r \in pulls \ applied :
                       SamePair(r) /\ ~pair[r.pair].quarantined}
    IN  /\ TokenCurrent(token)
        /\ \A r \in applied : HasRoom(r)
        /\ generation' = generation + 1
        /\ Project(applied,
                   {p \in PairId : pair[p].active /\ p.pull \notin listed},
                   UNION {{Evaluation(r.pair, pair[r.pair].epoch, gate[g].revision) :
                              g \in Bound(r.pair)} : r \in again})

-----------------------------------------------------------------------------
(* Pair leases and what a worker may do under one.  A lease is a record    *)
(* [pair, epoch, fence, worker].                                           *)

Free(row, w) == row.owner = None \/ ~row.live \/ row.owner = w

PairLeasable(p, epoch, w) ==
    /\ pair[p].epoch = epoch /\ pair[p].active /\ ~pair[p].quarantined
    /\ Free(pair[p], w)

AcquirePairLease(p, epoch, w) ==
    /\ PairLeasable(p, epoch, w)
    /\ pair' = [pair EXCEPT ![p].fence = @ + 1, ![p].owner = w, ![p].live = TRUE]
    /\ UNCHANGED <<gate, dispatch, evidence, outbox, generation>>

\* The WHERE clause of every fenced write to a pair.
HoldsPair(l) ==
    LET row == pair[l.pair]
    IN  /\ row.epoch = l.epoch /\ row.fence = l.fence
        /\ row.owner = l.worker /\ row.live
        /\ row.active /\ ~row.quarantined

\* Mutant: the deadline is not looked at again.
CommittedUnchecked(d, desired) == desired

\* A success is downgraded unless the command was sent and is in time.
Committed(d, desired) ==
    IF desired = "success" /\ ~(dispatch[d].state = "sent" /\ ~dispatch[d].late)
    THEN "failure" ELSE desired

CommitPairGate(l, desired) ==
    LET gates == {g \in Bound(l.pair) : g.epoch = l.epoch}
    IN  /\ HoldsPair(l)
        /\ pair' = [pair EXCEPT ![l.pair] = Unleased(@)]
        /\ gate' = [g \in GateId |->
              IF g \in gates
              THEN Revised(gate[g], Committed(<<l.pair, l.epoch>>, desired))
              ELSE gate[g]]
        /\ Enqueue(Publications(gates))
        /\ UNCHANGED <<dispatch, evidence, generation>>

\* ON CONFLICT DO NOTHING: an existing row is kept.
PlanDispatch(l, now) ==
    LET d == <<l.pair, l.epoch>>
    IN  /\ HoldsPair(l)
        /\ dispatch' = IF dispatch[d].state # "none" THEN dispatch
                       ELSE [dispatch EXCEPT ![d].state = "planned",
                                             ![d].plannedAt = now]
        /\ UNCHANGED <<pair, gate, evidence, outbox, generation>>

MayBegin(l) ==
    HoldsPair(l) /\ dispatch[<<l.pair, l.epoch>>].state = "planned"

BeginDispatchAttempt(l) ==
    /\ MayBegin(l)
    /\ dispatch' = [dispatch EXCEPT ![<<l.pair, l.epoch>>].state = "attempting"]
    /\ UNCHANGED <<pair, gate, evidence, outbox, generation>>

\* The command comment is adopted whatever became of the lease, as long as
\* the epoch is current and its attempt is open.
Adoptable(l) ==
    /\ pair[l.pair].epoch = l.epoch
    /\ pair[l.pair].active /\ ~pair[l.pair].quarantined
    /\ dispatch[<<l.pair, l.epoch>>].state = "attempting"

AdoptDispatch(l, comment, createdAt) ==
    LET d == <<l.pair, l.epoch>>
    IN  /\ Adoptable(l)
        /\ dispatch' = [dispatch EXCEPT ![d].state = "sent",
                            ![d].comment = comment, ![d].dispatchedAt = createdAt]
        /\ pair' = [pair EXCEPT ![l.pair] =
                      IF @.fence = l.fence /\ @.owner = l.worker
                      THEN Unleased(@) ELSE @]
        /\ Enqueue({<<"timeout", l.pair, l.epoch>>})
        /\ UNCHANGED <<gate, evidence, generation>>

-----------------------------------------------------------------------------
(* Gate leases and publication.  A lease is [gate, revision, fence,        *)
(* worker]; a check run id of 0 is NULL.                                   *)

GateLeasable(g, revision, w) ==
    revision > 0 /\ gate[g].revision = revision /\ Free(gate[g], w)

AcquireGateLease(g, revision, w) ==
    /\ GateLeasable(g, revision, w)
    /\ gate' = [gate EXCEPT ![g].fence = @ + 1, ![g].owner = w, ![g].live = TRUE]
    /\ UNCHANGED <<pair, dispatch, evidence, outbox, generation>>

HoldsGate(l) ==
    LET row == gate[l.gate]
    IN  /\ row.revision = l.revision /\ row.fence = l.fence
        /\ row.owner = l.worker /\ row.live

Coalesce(a, b) == IF a # 0 THEN a ELSE b

\* Rejection and expiry: the gate fails at the next revision.
FailPublication(l, run) ==
    LET row == gate[l.gate]
    IN  /\ gate' = [gate EXCEPT ![l.gate] =
              [Revised(row, "failure") EXCEPT !.checkRun = Coalesce(run, row.checkRun)]]
        /\ Enqueue(Publications({l.gate}))
        /\ UNCHANGED <<pair, dispatch, evidence, generation>>

\* authorizeSuccessPublication: what it answers, and what it writes.
Authorization(l) ==
    LET row == gate[l.gate]
        d   == <<row.pair, l.gate.epoch>>
    IN  IF ~HoldsGate(l) \/ row.desired # "success" \/ row.quarantined
        THEN "stale"
        ELSE IF \/ pair[row.pair].epoch # l.gate.epoch
                \/ ~pair[row.pair].active \/ pair[row.pair].quarantined
        THEN "stale"
        ELSE IF dispatch[d].state = "sent" /\ ~dispatch[d].late
        THEN "authorized"
        ELSE "expired"

ExpireSuccess(l, run) == Authorization(l) = "expired" /\ FailPublication(l, run)

RejectGatePublication(l, run) == HoldsGate(l) /\ FailPublication(l, run)

CommitGatePublication(l, run, state) ==
    /\ HoldsGate(l)
    /\ gate' = [gate EXCEPT ![l.gate] =
                  [Unleased(@) EXCEPT !.checkRun = run, !.pubState = state,
                                      !.pubRev = l.revision]]
    /\ UNCHANGED <<pair, dispatch, evidence, outbox, generation>>

\* Mutant: the compensation is not queued.
SupersedeSilently(l, run) ==
    /\ gate[l.gate].revision >= l.revision
    /\ gate' = [gate EXCEPT ![l.gate] = Revised(@, @.desired)]
    /\ UNCHANGED <<pair, dispatch, evidence, outbox, generation>>

\* The publisher lost its lease after it wrote: publish the gate again.
SupersedeStaleGatePublication(l, run) ==
    LET row == gate[l.gate]
    IN  /\ row.revision >= l.revision
        /\ gate' = [gate EXCEPT ![l.gate] =
              [Revised(row, row.desired) EXCEPT !.checkRun = Coalesce(row.checkRun, run)]]
        /\ Enqueue(Publications({l.gate}))
        /\ UNCHANGED <<pair, dispatch, evidence, generation>>

-----------------------------------------------------------------------------
(* Outbox claims, and the passing of time.                                 *)

\* Mutant: the evaluation at the deadline is never due.
IsDueNever(k) == k[1] # "timeout"

\* An evaluate-timeout item is due when the evidence deadline has passed.
IsDue(k) == k[1] = "timeout" => dispatch[<<k[2], k[3]>>].late

Ready(i) == ~i.done /\ (i.owner = None \/ ~i.live) /\ IsDue(i.key)

ClaimOutbox(i, w) ==
    /\ i \in outbox /\ Ready(i)
    /\ outbox' = (outbox \ {i}) \cup {[i EXCEPT !.owner = w, !.live = TRUE]}
    /\ UNCHANGED <<pair, gate, dispatch, evidence, generation>>

Claims(k, w) == {i \in outbox : i.key = k /\ i.owner = w /\ i.live /\ ~i.done}

CompleteOutbox(k, w) ==
    /\ outbox' = (outbox \ Claims(k, w))
                   \cup {[Unleased(i) EXCEPT !.done = TRUE] : i \in Claims(k, w)}
    /\ UNCHANGED <<pair, gate, dispatch, evidence, generation>>

\* Mutant: a failed item is not retried.
FailOutboxDropping(k, w) == CompleteOutbox(k, w)

\* The item becomes claimable again, after a delay.
FailOutbox(k, w) ==
    /\ outbox' = (outbox \ Claims(k, w)) \cup {Unleased(i) : i \in Claims(k, w)}
    /\ UNCHANGED <<pair, gate, dispatch, evidence, generation>>

ExpirePairLease(p) ==
    /\ pair[p].live
    /\ pair' = [pair EXCEPT ![p].live = FALSE]
    /\ UNCHANGED <<gate, dispatch, evidence, outbox, generation>>

ExpireGateLease(g) ==
    /\ gate[g].live
    /\ gate' = [gate EXCEPT ![g].live = FALSE]
    /\ UNCHANGED <<pair, dispatch, evidence, outbox, generation>>

ExpireClaim(i) ==
    /\ i \in outbox /\ i.live
    /\ outbox' = (outbox \ {i}) \cup {[i EXCEPT !.live = FALSE]}
    /\ UNCHANGED <<pair, gate, dispatch, evidence, generation>>

\* evidence_deadline_at passes; the evaluate-timeout item becomes due.
PassDeadline(d) ==
    /\ <<"timeout", d[1], d[2]>> \in Keys /\ ~dispatch[d].late
    /\ dispatch' = [dispatch EXCEPT ![d].late = TRUE]
    /\ UNCHANGED <<pair, gate, evidence, outbox, generation>>

-----------------------------------------------------------------------------
(* The store under any callers: webhooks of any content in any order, and  *)
(* workers that call any operation with any lease they were ever granted.  *)

PairLeases ==
    UNION {[pair : {p}, epoch : Epochs, fence : 0 .. pair[p].fence,
            worker : Workers] : p \in PairId}

GateLeases ==
    UNION {[gate : {g}, revision : 1 .. gate[g].revision,
            fence : 0 .. gate[g].fence, worker : Workers] : g \in GateId}

Lists ==
    UNION {{{f[n] : n \in S} : f \in {h \in [S -> PullRef] : \A n \in S :
                h[n].pair.pull = n /\ IsOpen(h[n])}} : S \in SUBSET Pulls}

Webhook ==
    \/ \E r \in PullRef : ApplyPullRequest(r)
    \/ \E n \in Pulls, h \in Heads \cup {None}, i \in Inputs :
          ApplyPullEvidence(n, h, i)
    \/ \E h \in Heads, i \in Inputs : ApplyShaEvidence(h, i)
    \/ ApplyPush
    \/ ApplyMalformed
    \/ QuarantineAll
    \/ \E ref \in MergeRefs, h \in Heads :
          RequestMergeGroup(ref, h) \/ DestroyMergeGroup(ref, h)

Reconciliation ==
    \/ BeginRepositorySnapshot
    \/ \E token \in 1 .. generation, pulls \in Lists :
          ReconcileOpenPullRequests(token, pulls)

PairOperation ==
    \/ \E p \in PairId, e \in Epochs, w \in Workers : AcquirePairLease(p, e, w)
    \/ \E l \in PairLeases :
          \/ \E desired \in {"pending", "success", "failure"} :
                CommitPairGate(l, desired)
          \/ \E now \in Times : PlanDispatch(l, now)
          \/ BeginDispatchAttempt(l)
          \/ \E id \in Ids, at \in Times : AdoptDispatch(l, id, at)

GateOperation ==
    \/ \E g \in GateId, w \in Workers : AcquireGateLease(g, gate[g].revision, w)
    \/ \E l \in GateLeases, run \in Ids \cup {0} :
          \/ ExpireSuccess(l, run)
          \/ gate[l.gate].desired = "success" /\ RejectGatePublication(l, run)
    \/ \E l \in GateLeases, run \in Ids :
          \/ CommitGatePublication(l, run, gate[l.gate].desired)
          \/ SupersedeStaleGatePublication(l, run)

OutboxOperation ==
    \/ \E i \in outbox, w \in Workers : ClaimOutbox(i, w)
    \/ \E k \in Keys, w \in Workers :
          Claims(k, w) # {} /\ (CompleteOutbox(k, w) \/ FailOutbox(k, w))

Time ==
    \/ \E p \in PairId : ExpirePairLease(p)
    \/ \E g \in GateId : ExpireGateLease(g)
    \/ \E i \in outbox : ExpireClaim(i)
    \/ \E d \in EpochId : PassDeadline(d)

StoreNext == OutboxOperation \/ Time \/ Webhook \/ PairOperation \/ GateOperation
            \/ Reconciliation

\* The store as its own specification.
StoreSpec == StoreInit /\ [][StoreNext]_store

-----------------------------------------------------------------------------
(* Properties.                                                             *)

GateOf(p) == [key |-> p.pull, epoch |-> pair[p].epoch]

\* The unique indexes of the schema never reject a write, and the gate that
\* revokeCurrentPairGate, commitPairGate and adoptDispatch look for (they
\* throw "active gate subject is missing" otherwise) is always there: an
\* active pair has exactly one active gate, of its own epoch, and vice versa.
ActiveGateMatchesPair ==
    /\ \A p, q \in PairId :
          (p.pull = q.pull /\ pair[p].active /\ pair[q].active) => p = q
    /\ \A p \in PairId : pair[p].active =>
          GateOf(p) \in GateId /\ gate[GateOf(p)].active
    /\ \A g \in GateId : (g.key \in Pulls /\ gate[g].active) =>
          /\ gate[g].pair \in PairId
          /\ pair[gate[g].pair].active
          /\ g = GateOf(gate[g].pair)
          /\ gate[g].quarantined = pair[gate[g].pair].quarantined

\* Late and reordered pull_request webhooks never put an older input under
\* review: the active pair has the largest epoch and the newest source time
\* of all that the pull request ever had, and no two pairs share an epoch.
ActivePairIsNewest ==
    /\ \A p, q \in PairId : (pair[p].active /\ q \in Known(p.pull)) =>
          pair[q].epoch <= pair[p].epoch /\ pair[q].srcAt <= pair[p].srcAt
    /\ \A p, q \in PairId :
          (p.pull = q.pull /\ pair[p].epoch = pair[q].epoch /\ pair[p].epoch > 0)
              => p = q

\* No interleaving of webhooks, reconciliations and fenced commits leaves a
\* gate that wants success behind its input: it is the active gate of the
\* pair's current epoch, that epoch's command was sent, and nothing of it is
\* quarantined.
SuccessIsCurrent ==
    \A g \in GateId : gate[g].desired = "success" =>
        LET p == gate[g].pair
        IN  /\ gate[g].active /\ ~gate[g].quarantined
            /\ p \in PairId /\ pair[p].active /\ ~pair[p].quarantined
            /\ pair[p].epoch = g.epoch
            /\ dispatch[<<p, g.epoch>>].state = "sent"

\* A quarantined epoch stays failed: its dispatch is abandoned for good and
\* no later event of the epoch turns its gate to anything but failure
\* ("later same-epoch evidence or reconciliation cannot restore success").
QuarantineFailsClosed ==
    /\ \A p \in PairId : (pair[p].epoch > 0 /\ pair[p].quarantined) =>
          dispatch[EpochOf(p)].state \in {"none", "abandoned"}
    /\ \A g \in GateId : gate[g].quarantined =>
          gate[g].desired \in {"failure", "cancelled"}

\* The outbox is complete: every gate revision has its publication item and
\* every ready pair outside quarantine has its dispatch item, so that the
\* dedupe keys and the order of events never lose work.
NothingUnqueued ==
    /\ \A g \in GateId : gate[g].revision > 0 =>
          <<"publish", g, gate[g].revision>> \in Keys
    /\ \A p \in PairId :
          (pair[p].active /\ ~pair[p].quarantined /\ ~pair[p].draft) =>
              <<"dispatch", p, pair[p].epoch>> \in Keys
    /\ \A i, j \in outbox : i.key = j.key => i = j

\* A merge-group head that was destroyed or superseded never comes back, in
\* whatever order its events arrive: a ref has one gate per head, and at most
\* one of its gates is active.
MergeHeadsRetireForGood ==
    \A g, h \in GateId :
        (g.key = h.key /\ g.key \in MergeRefs /\ gate[g].revision > 0
            /\ gate[h].revision > 0) =>
        /\ gate[g].head = gate[h].head => g = h
        /\ (gate[g].active /\ gate[h].active) => g = h

=============================================================================
