------------------------------ MODULE MCStore ------------------------------
(***************************************************************************)
(* GovernorStore under any callers.  A behaviour is about one area of the  *)
(* store, with the counters bounded as far as that area needs.             *)
(***************************************************************************)
EXTENDS GovernorStore, TLC

VARIABLE area       \* what this behaviour is about; never changes

In(kind, source, at, valid) ==
    [kind |-> kind, source |-> source, created |-> at, at |-> at,
     valid |-> valid, authentic |-> TRUE, verdict |-> "complete"]

MCInputs == {In("status", 1, 1, TRUE), In("review", 1, 1, TRUE)}

\* Who acts; how many commits a pull request may have had; and the bounds on
\* the epochs, the fence of a pair, the revision of a gate, the repository
\* generation, the times and the outbox.
Areas ==
    [pull    |-> [callers |-> {"pull"}, heads |-> 2, epoch |-> 2, fence |-> 5,
                  revision |-> 4, generation |-> 4, time |-> 2, items |-> 9],
     move    |-> [callers |-> {"pull", "pair"}, heads |-> 2, epoch |-> 2, fence |-> 4,
                  revision |-> 4, generation |-> 1, time |-> 2, items |-> 9],
     publish |-> [callers |-> {"pull", "pair", "gate"}, heads |-> 1, epoch |-> 1, fence |-> 3,
                  revision |-> 3, generation |-> 1, time |-> 2, items |-> 7],
     merge   |-> [callers |-> {"merge", "outbox"}, heads |-> 0, epoch |-> 2, fence |-> 2,
                  revision |-> 3, generation |-> 2, time |-> 1, items |-> 5]]

Calls(who) == who \in Areas[area].callers

Limits == Areas[area]

\* The bounds (an ACTION_CONSTRAINT).
Bounded ==
    /\ \A p \in PairId : pair'[p].fence <= Limits.fence /\ pair'[p].epoch <= Limits.epoch
    /\ \A g \in GateId : gate'[g].revision <= Limits.revision
                           /\ gate'[g].fence <= gate'[g].revision
    /\ \A d \in EpochId : dispatch'[d].plannedAt <= 1
                            /\ dispatch'[d].dispatchedAt <= 1
                            /\ Cardinality(evidence'[d]) <= 1
    /\ generation' <= Limits.generation
    /\ Cardinality(outbox') <= Limits.items

\* The commits in use, and the reports that stay within the bound on them.
Used == {p.head : p \in {q \in PairId : pair[q] # NoPair}}

Reports ==
    {r \in PullRef : /\ r.at <= Limits.time
                     /\ Cardinality(Used \cup {r.pair.head}) <= Limits.heads}

OpenLists(reports) == {{}} \cup {{r} : r \in {q \in reports : IsOpen(q)}}

RepositoryCaller ==
    \/ ApplyPush
    \/ ApplyMalformed
    \/ QuarantineAll
    \/ BeginRepositorySnapshot
    \/ \E token \in 1 .. generation, pulls \in OpenLists(Reports) :
          ReconcileOpenPullRequests(token, pulls)

PullCaller ==
    \/ \E r \in Reports : ApplyPullRequest(r)
    \/ \E n \in Pulls, h \in Used \cup {None}, i \in Inputs : ApplyPullEvidence(n, h, i)
    \/ \E h \in Used, i \in Inputs : ApplyShaEvidence(h, i)

MergeCaller ==
    \E ref \in MergeRefs, h \in Heads : RequestMergeGroup(ref, h) \/ DestroyMergeGroup(ref, h)

\* Leases of pairs that the store knows.
Leases ==
    UNION {[pair : {p}, epoch : 1 .. pair[p].epoch, fence : 0 .. pair[p].fence,
            worker : Workers] : p \in PairId}

PairCaller ==
    \/ \E p \in PairId, w \in Workers : \E e \in 1 .. pair[p].epoch : AcquirePairLease(p, e, w)
    \/ \E l \in Leases :
          \/ \E desired \in {"pending", "success", "failure"} : CommitPairGate(l, desired)
          \/ \E now \in Times : PlanDispatch(l, now)
          \/ BeginDispatchAttempt(l)
          \/ \E id \in Ids, at \in Times : AdoptDispatch(l, id, at)

MCNext ==
    /\ \/ RepositoryCaller
       \/ Calls("pull") /\ PullCaller
       \/ Calls("merge") /\ MergeCaller
       \/ Calls("pair") /\ PairCaller
       \/ Calls("gate") /\ GateOperation
       \/ Calls("outbox") /\ OutboxOperation
       \/ Time
    /\ UNCHANGED area

HeadSymmetry == Permutations(Heads)

MCInit == StoreInit /\ area \in DOMAIN Areas

MCSpec == MCInit /\ [][MCNext]_<<store, area>>
=============================================================================
