------------------------ MODULE GovernorStoreProofs ------------------------
(***************************************************************************)
(* Proofs about GovernorStore, for any number of pull requests, commits,   *)
(* workers, epochs and evidence inputs: first what holds of the rows at    *)
(* one moment (SafeInv), then what their history adds (HistoryInv).        *)
(***************************************************************************)
EXTENDS GovernorStore, TLAPS, WellFoundedInduction

-----------------------------------------------------------------------------
(* Epochs.                                                                 *)

\* A bounded, nonempty set of naturals has a largest element.
LEMMA LargestElement ==
    ASSUME NEW m \in Nat, NEW S, S \subseteq 0 .. m, S # {}
    PROVE  \E e \in S : \A f \in S : f <= e
<1> DEFINE T == {k \in 0 .. m : m - k \in S}
<1>1. T \subseteq Nat
  OBVIOUS
<1>2. T # {}
  <2>1. PICK e \in S : TRUE
    OBVIOUS
  <2>2. e \in 0 .. m /\ m - e \in 0 .. m /\ m - (m - e) = e
    OBVIOUS
  <2> QED
    BY <2>2
<1>3. PICK x \in T : \A y \in T : ~(<<y, x>> \in OpToRel(<, Nat))
  <2> HIDE DEF T
  <2> QED
    BY <1>1, <1>2, NatLessThanWellFounded, WFMin, Zenon
<1>4. \A y \in T : ~(y < x)
  BY <1>1, <1>3 DEF OpToRel
<1>5. ASSUME NEW f \in S PROVE f <= m - x
  <2>1. f \in 0 .. m /\ m - f \in 0 .. m /\ m - (m - f) = f
    OBVIOUS
  <2>2. m - f \in T /\ x \in 0 .. m
    BY <2>1
  <2>3. ~(m - f < x)
    BY <2>2, <1>4
  <2> QED
    BY <2>1, <2>2, <2>3
<1> QED
  BY <1>5

\* NextEpoch is above the epoch of every row of the pull request.
LEMMA NextEpochAbove ==
    ASSUME TypeOK, NEW n
    PROVE  /\ NextEpoch(n) \in 1 .. MaxEpoch + 1
           /\ \A p \in Known(n) : pair[p].epoch < NextEpoch(n)
<1> DEFINE used == {pair[p].epoch : p \in Known(n)} \cup {0}
<1>1. used \subseteq 0 .. MaxEpoch /\ used # {}
  BY StoreAssumption DEF TypeOK, PairRow, Known
<1>2. MaxEpoch \in Nat
  BY StoreAssumption
<1>3. \E e \in used : \A f \in used : f <= e
  BY <1>1, <1>2, LargestElement
<1> DEFINE top == CHOOSE e \in used : \A f \in used : f <= e
<1>4. top \in used /\ \A f \in used : f <= top
  BY <1>3
<1>5. NextEpoch(n) = 1 + top
  BY DEF NextEpoch
<1>6. \A p \in Known(n) : pair[p].epoch \in used
  OBVIOUS
<1> HIDE DEF used, top
<1>7. NextEpoch(n) \in 1 .. MaxEpoch + 1
  BY <1>1, <1>2, <1>4, <1>5
<1>8. ASSUME NEW p \in Known(n) PROVE pair[p].epoch < NextEpoch(n)
  <2>1. pair[p].epoch \in 0 .. MaxEpoch /\ pair[p].epoch <= top /\ top \in 0 .. MaxEpoch
    BY <1>1, <1>4, <1>6
  <2> QED
    BY <2>1, <1>2, <1>5
<1> QED
  BY <1>7, <1>8

-----------------------------------------------------------------------------
(* Rows.                                                                   *)

\* The updates of a pair row keep its type.
LEMMA PairRows ==
    ASSUME NEW row \in PairRow
    PROVE  /\ Fenced(row) \in PairRow
           /\ Unleased(row) \in PairRow
           /\ Unleased(row).epoch = row.epoch
           /\ Unleased(row).active = row.active
           /\ Unleased(row).quarantined = row.quarantined
<1>0. row.fence + 1 \in Nat
  BY DEF PairRow
<1>1. Fenced(row) \in PairRow
  BY <1>0 DEF PairRow, Fenced
<1>2. Unleased(row) \in PairRow
  BY DEF PairRow, Unleased
<1>3. /\ Unleased(row).epoch = row.epoch
      /\ Unleased(row).active = row.active
      /\ Unleased(row).quarantined = row.quarantined
  BY DEF PairRow, Unleased
<1> QED
  BY <1>1, <1>2, <1>3

\* The updates of a gate row keep its type.
LEMMA GateRows ==
    ASSUME NEW row \in GateRow, NEW desired \in GateStates, NEW active \in BOOLEAN
    PROVE  /\ Revised(row, desired) \in GateRow
           /\ RevisedAs(row, desired, active) \in GateRow
           /\ Unleased(row) \in GateRow
<1>0. row.fence + 1 \in Nat /\ row.revision + 1 \in Nat
  BY DEF GateRow
<1>1. Revised(row, desired) \in GateRow
  BY <1>0 DEF GateRow, Revised
<1>2. RevisedAs(row, desired, active) \in GateRow
  BY <1>1 DEF GateRow, RevisedAs
<1>3. Unleased(row) \in GateRow
  BY DEF GateRow, Unleased
<1> QED
  BY <1>1, <1>2, <1>3

\* The gate row that is inserted has its type.
LEMMA NewGateRow ==
    ASSUME NEW p \in PairId \cup {None}, NEW head \in Heads \cup {None},
           NEW active \in BOOLEAN, NEW desired \in GateStates
    PROVE  NewGate(p, head, active, desired) \in GateRow
BY DEF NewGate, GateRow

\* enqueue adds rows of the right type.
LEMMA EnqueueType ==
    ASSUME TypeOK, NEW keys \in SUBSET OutboxKey, Enqueue(keys)
    PROVE  outbox' \subseteq OutboxRow
<1>1. \A k \in OutboxKey : NewItem(k) \in OutboxRow
  BY DEF NewItem, OutboxRow
<1> QED
  BY <1>1 DEF TypeOK, Enqueue

\* enqueueGatePublication makes outbox keys.
LEMMA PublicationKeys ==
    ASSUME TypeOK, NEW gates \in SUBSET GateId
    PROVE  Publications(gates) \subseteq OutboxKey
<1>1. \A g \in gates : gate[g].revision + 1 \in Nat
  BY DEF TypeOK, GateRow
<1> QED
  BY <1>1 DEF Publications, OutboxKey

\* enqueueEvaluation and enqueuePairWork make outbox keys.
LEMMA EvaluationKeys ==
    ASSUME NEW p \in PairId, NEW epoch \in Epochs, NEW revision \in Nat
    PROVE  /\ Evaluation(p, epoch, revision) \in OutboxKey
           /\ PairWork(p, epoch, revision) \subseteq OutboxKey
BY DEF Evaluation, PairWork, OutboxKey

\* The gates a query finds are gates of the table.
LEMMA BoundType == \A pairs : BoundTo(pairs) \subseteq GateId
BY DEF BoundTo

\* upsertEvidence stores evidence inputs only.
LEMMA UpsertType ==
    ASSUME NEW rows \in SUBSET EvidenceInput, NEW i \in EvidenceInput
    PROVE  UpsertEvidence(rows, i) \in SUBSET EvidenceInput
BY DEF UpsertEvidence

\* The empty tables have their types.
LEMMA InitType == StoreInit => TypeOK
<1> SUFFICES ASSUME StoreInit PROVE TypeOK
  OBVIOUS
<1>1. NoPair \in PairRow /\ ~NoPair.active
  BY StoreAssumption DEF NoPair, PairRow
<1>2. NoGate \in GateRow
  BY DEF NoGate, NewGate, GateRow, GateStates
<1>3. NoDispatch \in DispatchRow
  BY DEF NoDispatch, DispatchRow
<1> QED
  BY <1>1, <1>2, <1>3 DEF StoreInit, TypeOK

-----------------------------------------------------------------------------
(* Type correctness, one lemma per family of transactions.                 *)

\* A report leaves a pair row of the right type.
LEMMA PairAfterType ==
    ASSUME TypeOK, NEW r \in PullRef, HasRoom(r), NEW p \in PairId
    PROVE  /\ PairAfter(p, r) \in PairRow
           /\ PairAfter(p, r).active => PairAfter(p, r).epoch > 0
<1>1. pair[p] \in PairRow /\ (pair[p].active => pair[p].epoch > 0)
  BY DEF TypeOK
<1>2. r.draft \in BOOLEAN /\ r.state \in {"open", "closed"} /\ r.at \in Nat
  BY StoreAssumption DEF PullRef
<1>3. IsOpen(r) \in BOOLEAN
  BY DEF IsOpen
<1>4. CASE p = r.pair /\ SamePair(r)
  <2>1. PairAfter(p, r) = [Fenced(pair[p]) EXCEPT !.draft = r.draft, !.state = r.state,
                                      !.srcAt = r.at, !.active = IsOpen(r)]
    BY <1>4 DEF PairAfter
  <2>2. Fenced(pair[p]) \in PairRow /\ Fenced(pair[p]).epoch = pair[p].epoch
    BY <1>1, PairRows DEF Fenced, PairRow
  <2> QED
    BY <1>1, <1>2, <1>3, <1>4, <2>1, <2>2, ZenonT(60) DEF PairRow, SamePair
<1>5. CASE p = r.pair /\ ~SamePair(r)
  <2>1. NextEpoch(p.pull) \in 1 .. MaxEpoch
    BY <1>5, NextEpochAbove, StoreAssumption DEF HasRoom
  <2>2. (IF pair[p].epoch = 0 THEN 0 ELSE pair[p].fence + 1) \in Nat
    BY <1>1 DEF PairRow
  <2>3. PairAfter(p, r) = OpenEpoch(p, r)
    BY <1>5 DEF PairAfter
  <2> QED
    BY <1>2, <1>3, <2>1, <2>2, <2>3 DEF OpenEpoch, PairRow
<1>6. CASE p # r.pair
  <2>1. Fenced(pair[p]) \in PairRow
    BY <1>1, PairRows
  <2> QED
    BY <1>1, <1>6, <2>1 DEF PairAfter, PairRow
<1> QED
  BY <1>4, <1>5, <1>6

\* A report leaves a gate row of the right type.
LEMMA GateAfterType ==
    ASSUME TypeOK, NEW r \in PullRef, NEW g \in GateId
    PROVE  GateAfter(g, r) \in GateRow
<1>1. gate[g] \in GateRow
  BY DEF TypeOK
<1>2. IsOpen(r) \in BOOLEAN /\ r.pair \in PairId /\ r.pair.head \in Heads
  BY DEF IsOpen, PullRef, PairId
<1>3. DesiredAfter(r) \in GateStates /\ {"revoked", "failure"} \subseteq GateStates
  BY DEF DesiredAfter, GateStates
<1>4. RevisedAs(gate[g], DesiredAfter(r), IsOpen(r)) \in GateRow
  BY <1>1, <1>2, <1>3, GateRows
<1>5. RevisedAs(gate[g], "failure", FALSE) \in GateRow
  BY <1>1, <1>3, GateRows
<1>6. NewGate(r.pair, r.pair.head, IsOpen(r),
              IF IsOpen(r) THEN "revoked" ELSE "failure") \in GateRow
  BY <1>2, <1>3, NewGateRow
<1> QED
  BY <1>4, <1>5, <1>6 DEF GateAfter

\* A report with room names existing gates and existing epochs only.
LEMMA TouchedType ==
    ASSUME TypeOK, NEW r \in PullRef, HasRoom(r)
    PROVE  TouchedBy(r) \subseteq GateId /\ WorkFor(r) \subseteq OutboxKey
<1>1. r.pair \in PairId /\ r.pair.pull \in Pulls
  BY DEF PullRef, PairId
<1>2. ~SamePair(r) => NextEpoch(r.pair.pull) \in Epochs
  BY NextEpochAbove, StoreAssumption DEF HasRoom, Epochs
<1>3. ~SamePair(r) => NewGateId(r) \in GateId
  BY <1>1, <1>2 DEF NewGateId, GateId
<1>4. SamePair(r) => pair[r.pair].epoch \in Epochs
  BY <1>1 DEF TypeOK, SamePair, PairRow, Epochs
<1>5. \A g \in GateId : gate[g].revision + 1 \in Nat
  BY DEF TypeOK, GateRow
<1>6. TouchedBy(r) \subseteq GateId
  BY <1>3, BoundType DEF TouchedBy
<1>7. ~SamePair(r) => PairWork(r.pair, NextEpoch(r.pair.pull), 1) \subseteq OutboxKey
  BY <1>1, <1>2, EvaluationKeys
<1>8. SamePair(r) => \A g \in Bound(r.pair) :
         PairWork(r.pair, pair[r.pair].epoch, gate[g].revision + 1) \subseteq OutboxKey
  BY <1>1, <1>4, <1>5, EvaluationKeys DEF Bound, BoundTo
<1>9. WorkFor(r) \subseteq OutboxKey
  BY <1>7, <1>8 DEF WorkFor
<1> QED
  BY <1>6, <1>9

\* Applying reports and closing pairs keeps the types.
LEMMA ProjectType ==
    ASSUME TypeOK, NEW refs \in SUBSET PullRef, \A r \in refs : HasRoom(r),
           NEW closing \in SUBSET PairId, NEW more \in SUBSET OutboxKey,
           Project(refs, closing, more), generation' \in Nat
    PROVE  TypeOK'
<1> DEFINE refOf(n)   == CHOOSE r \in refs : r.pair.pull = n
           causeOf(g) == CHOOSE r \in refs : g \in TouchedBy(r)
           moved      == {r.pair.pull : r \in refs}
           touched    == {g \in GateId : \E r \in refs : g \in TouchedBy(r)}
           shut       == BoundTo(closing)
           work       == UNION {WorkFor(r) : r \in refs}
<1>1. /\ pair' = [p \in PairId |->
              IF p \in closing
              THEN [Fenced(pair[p]) EXCEPT !.active = FALSE, !.state = "closed"]
              ELSE IF p.pull \in moved THEN PairAfter(p, refOf(p.pull))
              ELSE pair[p]]
      /\ gate' = [g \in GateId |->
              IF g \in shut THEN RevisedAs(gate[g], "failure", FALSE)
              ELSE IF g \in touched THEN GateAfter(g, causeOf(g))
              ELSE gate[g]]
      /\ Enqueue(Publications(touched \cup shut) \cup work \cup more)
      /\ UNCHANGED <<dispatch, evidence>>
  BY DEF Project
<1>2. \A n \in moved : refOf(n) \in refs
  OBVIOUS
<1>3. \A g \in touched : causeOf(g) \in refs
  OBVIOUS
<1>4. touched \subseteq GateId /\ shut \subseteq GateId
  BY BoundType
<1>5. work \subseteq OutboxKey
  BY TouchedType
<1> HIDE DEF refOf, causeOf, moved, touched, shut, work
<1>6. ASSUME NEW p \in PairId
      PROVE  pair'[p] \in PairRow /\ (pair'[p].active => pair'[p].epoch > 0)
  <2>1. pair[p] \in PairRow /\ (pair[p].active => pair[p].epoch > 0)
    BY DEF TypeOK
  <2>2. CASE p \in closing
    <3>1. pair'[p] = [Fenced(pair[p]) EXCEPT !.active = FALSE, !.state = "closed"]
      BY <1>1, <2>2
    <3>2. Fenced(pair[p]) \in PairRow
      BY <2>1, PairRows
    <3> QED
      BY <3>1, <3>2 DEF PairRow
  <2>3. CASE p \notin closing /\ p.pull \in moved
    <3>1. pair'[p] = PairAfter(p, refOf(p.pull))
      BY <1>1, <2>3
    <3> QED
      BY <3>1, <1>2, <2>3, PairAfterType
  <2>4. CASE p \notin closing /\ p.pull \notin moved
    <3>1. pair'[p] = pair[p]
      BY <1>1, <2>4
    <3> QED
      BY <2>1, <3>1
  <2> QED
    BY <2>2, <2>3, <2>4
<1>7. ASSUME NEW g \in GateId PROVE gate'[g] \in GateRow
  <2>1. gate[g] \in GateRow /\ RevisedAs(gate[g], "failure", FALSE) \in GateRow
    BY GateRows DEF TypeOK, GateStates
  <2>2. g \in touched => GateAfter(g, causeOf(g)) \in GateRow
    BY <1>3, GateAfterType
  <2> QED
    BY <1>1, <2>1, <2>2
<1>8. outbox' \subseteq OutboxRow
  <2>1. Publications(touched \cup shut) \subseteq OutboxKey
    BY <1>4, PublicationKeys
  <2> DEFINE keys == Publications(touched \cup shut) \cup work \cup more
  <2>2. Enqueue(keys)
    BY <1>1
  <2>3. keys \in SUBSET OutboxKey
    BY <1>5, <2>1
  <2> HIDE DEF keys
  <2> QED
    BY <2>2, <2>3, EnqueueType
<1>9. pair' \in [PairId -> PairRow] /\ gate' \in [GateId -> GateRow]
  BY <1>1, <1>6, <1>7
<1> QED
  BY <1>1, <1>6, <1>8, <1>9 DEF TypeOK

\* A transaction that changes the pairs' leases, quarantines or nothing of
\* them, and revises gates.
LEMMA FencedType ==
    ASSUME TypeOK, NEW p \in PairId
    PROVE  LET f == Fenced(pair[p])
           IN  /\ f \in PairRow /\ [f EXCEPT !.quarantined = TRUE] \in PairRow
               /\ f.active => f.epoch > 0
               /\ [f EXCEPT !.quarantined = TRUE].active => f.epoch > 0
               /\ [f EXCEPT !.quarantined = TRUE].epoch = f.epoch
<1>1. pair[p] \in PairRow /\ (pair[p].active => pair[p].epoch > 0)
  BY DEF TypeOK
<1>2. Fenced(pair[p]) \in PairRow
  BY <1>1, PairRows
<1>3. /\ Fenced(pair[p]).active = pair[p].active
      /\ Fenced(pair[p]).epoch = pair[p].epoch
  BY <1>1 DEF Fenced, PairRow
<1> QED
  BY <1>1, <1>2, <1>3 DEF PairRow

\* Invalidating pairs for new evidence keeps the types.
LEMMA EvidenceType ==
    ASSUME TypeOK, NEW pairs \in SUBSET PairId, NEW input \in Inputs,
           \A p \in pairs : pair[p].active,
           InvalidateForEvidence(pairs, input)
    PROVE  TypeOK'
<1> DEFINE gates == BoundTo(pairs)
<1>1. /\ pair' = [p \in PairId |->
                     IF p \in pairs THEN Invalidated(pair[p]) ELSE pair[p]]
      /\ gate' = [g \in GateId |->
                     IF g \in gates THEN RevisedAs(gate[g], "revoked", TRUE)
                     ELSE gate[g]]
      /\ evidence' = [d \in EpochId |->
                     IF \E p \in pairs : d = EpochOf(p)
                     THEN UpsertEvidence(evidence[d], input)
                     ELSE evidence[d]]
      /\ Enqueue(Publications(gates)
                     \cup {Evaluation(gate[g].pair, pair[gate[g].pair].epoch,
                                      gate[g].revision + 1) : g \in gates})
      /\ UNCHANGED <<dispatch, generation>>
  BY DEF InvalidateForEvidence
<1>2. gates \subseteq GateId /\ \A g \in gates : gate[g].pair \in pairs
  BY DEF BoundTo
<1> HIDE DEF gates
<1>3. \A p \in PairId : pair'[p] \in PairRow /\ (pair'[p].active => pair'[p].epoch > 0)
  BY <1>1, FencedType DEF Invalidated, TypeOK
<1>4. \A g \in GateId : gate'[g] \in GateRow
  BY <1>1, GateRows DEF TypeOK, GateStates
<1>5. \A d \in EpochId : evidence'[d] \in SUBSET EvidenceInput
  <2>1. input \in EvidenceInput
    BY InputsAssumption
  <2> QED
    BY <1>1, <2>1, UpsertType DEF TypeOK
<1>6. outbox' \subseteq OutboxRow
  <2> DEFINE evaluations == {Evaluation(gate[g].pair, pair[gate[g].pair].epoch,
                                      gate[g].revision + 1) : g \in gates}
             keys == Publications(gates) \cup evaluations
  <2>1. ASSUME NEW g \in gates
        PROVE  Evaluation(gate[g].pair, pair[gate[g].pair].epoch,
                          gate[g].revision + 1) \in OutboxKey
    <3>1. pair[gate[g].pair].epoch \in Epochs
      BY <1>2 DEF TypeOK, PairRow, Epochs
    <3>2. gate[g].revision + 1 \in Nat
      BY <1>2 DEF TypeOK, GateRow
    <3> QED
      BY <1>2, <3>1, <3>2, EvaluationKeys
  <2>2. keys \in SUBSET OutboxKey
    BY <1>2, <2>1, PublicationKeys
  <2>3. Enqueue(keys)
    BY <1>1
  <2> HIDE DEF keys
  <2> QED
    BY <2>2, <2>3, EnqueueType
<1> QED
  BY <1>1, <1>3, <1>4, <1>5, <1>6 DEF TypeOK

\* A push keeps the types.
LEMMA PushType == ASSUME TypeOK, ApplyPush PROVE TypeOK'
<1> DEFINE pairs == {p \in PairId : pair[p].active /\ ~pair[p].quarantined}
           gates == BoundTo(pairs)
                      \cup {g \in GateId : IsMerge(g) /\ gate[g].active
                                             /\ ~gate[g].quarantined}
<1>1. /\ generation' = generation + 1
      /\ pair' = [p \in PairId |->
                     IF p \in pairs THEN Fenced(pair[p]) ELSE pair[p]]
      /\ gate' = [g \in GateId |->
                     IF g \in gates THEN Revised(gate[g], "revoked") ELSE gate[g]]
      /\ Enqueue(Publications(gates) \cup {<<"reconcile", generation + 1>>})
      /\ UNCHANGED <<dispatch, evidence>>
  BY DEF ApplyPush
<1>2. gates \subseteq GateId
  BY BoundType
<1> HIDE DEF pairs, gates
<1>3. \A p \in PairId : pair'[p] \in PairRow /\ (pair'[p].active => pair'[p].epoch > 0)
  BY <1>1, FencedType DEF TypeOK
<1>4. \A g \in GateId : gate'[g] \in GateRow
  BY <1>1, GateRows DEF TypeOK, GateStates
<1>5. generation' \in Nat /\ <<"reconcile", generation + 1>> \in OutboxKey
  BY <1>1 DEF TypeOK, OutboxKey
<1>6. outbox' \subseteq OutboxRow
  BY <1>1, <1>2, <1>5, PublicationKeys, EnqueueType
<1> QED
  BY <1>1, <1>3, <1>4, <1>5, <1>6 DEF TypeOK

\* Quarantining keeps the types.
LEMMA QuarantineType ==
    ASSUME TypeOK, NEW gates \in SUBSET GateId, NEW more \in SUBSET OutboxKey,
           Quarantine(gates, more), generation' \in Nat
    PROVE  TypeOK'
<1> DEFINE pairs == {p \in PairId : pair[p].active}
<1>1. /\ pair' = [p \in PairId |->
              IF p \in pairs THEN [Fenced(pair[p]) EXCEPT !.quarantined = TRUE]
              ELSE pair[p]]
      /\ dispatch' = [d \in EpochId |->
              IF \E p \in pairs : d = EpochOf(p) THEN Abandoned(dispatch[d])
              ELSE dispatch[d]]
      /\ gate' = [g \in GateId |->
              IF g \in gates
              THEN [Revised(gate[g], "failure") EXCEPT !.quarantined = TRUE]
              ELSE gate[g]]
      /\ Enqueue(Publications(gates) \cup more)
      /\ UNCHANGED evidence
  BY DEF Quarantine
<1> HIDE DEF pairs
<1>2. \A p \in PairId : pair'[p] \in PairRow /\ (pair'[p].active => pair'[p].epoch > 0)
  BY <1>1, FencedType DEF TypeOK
<1>3. ASSUME NEW g \in GateId PROVE gate'[g] \in GateRow
  <2>1. gate[g] \in GateRow /\ Revised(gate[g], "failure") \in GateRow
    BY GateRows DEF TypeOK, GateStates
  <2>2. [Revised(gate[g], "failure") EXCEPT !.quarantined = TRUE] \in GateRow
    BY <2>1 DEF GateRow
  <2> QED
    BY <1>1, <2>1, <2>2
<1>4. \A d \in EpochId : dispatch'[d] \in DispatchRow
  <2>1. \A d \in EpochId : dispatch[d] \in DispatchRow
    BY DEF TypeOK
  <2>2. \A row \in DispatchRow : Abandoned(row) \in DispatchRow
    BY DEF Abandoned, DispatchRow
  <2> QED
    BY <1>1, <2>1, <2>2
<1>5. outbox' \subseteq OutboxRow
  BY <1>1, PublicationKeys, EnqueueType
<1> QED
  BY <1>1, <1>2, <1>3, <1>4, <1>5 DEF TypeOK

\* A pull_request webhook keeps the types.
LEMMA PullRequestType ==
    ASSUME TypeOK, NEW r \in PullRef, ApplyPullRequest(r)
    PROVE  TypeOK'
<1> DEFINE refs == IF Repeated(r) THEN {} ELSE {r}
<1>1. Project(refs, {}, {}) /\ generation' = generation + 1 /\ HasRoom(r)
  BY DEF ApplyPullRequest
<1>2. refs \in SUBSET PullRef /\ \A x \in refs : HasRoom(x)
  BY <1>1
<1>3. generation' \in Nat
  BY <1>1 DEF TypeOK
<1> HIDE DEF refs
<1> QED
  BY <1>1, <1>2, <1>3, ProjectType

\* An evidence webhook keeps the types.
LEMMA EvidenceWebhookType ==
    ASSUME TypeOK, NEW input \in Inputs,
           \/ \E n \in Pulls, h \in Heads \cup {None} :
                 ApplyPullEvidence(n, h, input)
           \/ \E h \in Heads : ApplyShaEvidence(h, input)
    PROVE  TypeOK'
<1>1. CASE \E n \in Pulls, h \in Heads \cup {None} :
             ApplyPullEvidence(n, h, input)
  <2>1. PICK n \in Pulls, h \in Heads \cup {None} :
           ApplyPullEvidence(n, h, input)
    BY <1>1
  <2>2. PICK p \in Current(n) : InvalidateForEvidence({p}, input)
    BY <2>1 DEF ApplyPullEvidence
  <2>3. {p} \in SUBSET PairId /\ \A q \in {p} : pair[q].active
    BY DEF Current
  <2> QED
    BY <2>2, <2>3, EvidenceType
<1>2. CASE \E h \in Heads : ApplyShaEvidence(h, input)
  <2>1. PICK h \in Heads : ApplyShaEvidence(h, input)
    BY <1>2
  <2> DEFINE pairs == {p \in PairId : /\ p.head = h
                                      /\ pair[p].active /\ ~pair[p].quarantined}
  <2>2. InvalidateForEvidence(pairs, input)
    BY <2>1 DEF ApplyShaEvidence
  <2>3. pairs \in SUBSET PairId /\ \A q \in pairs : pair[q].active
    OBVIOUS
  <2> HIDE DEF pairs
  <2> QED
    BY <2>2, <2>3, EvidenceType
<1> QED
  BY <1>1, <1>2

\* Malformed and unscoped webhooks keep the types.
LEMMA MalformedType ==
    ASSUME TypeOK, ApplyMalformed \/ QuarantineAll
    PROVE  TypeOK'
<1>1. CASE ApplyMalformed
  <2> DEFINE gates == BoundTo({p \in PairId : pair[p].active})
                        \cup {g \in GateId : IsMerge(g) /\ gate[g].active}
             more  == {<<"reconcile", generation + 1>>}
  <2>1. Quarantine(gates, more) /\ generation' = generation + 1
    BY <1>1 DEF ApplyMalformed
  <2>2. gates \in SUBSET GateId
    BY BoundType
  <2>3. generation + 1 \in Nat
    BY DEF TypeOK
  <2>4. more \in SUBSET OutboxKey
    BY <2>3 DEF OutboxKey
  <2> HIDE DEF gates, more
  <2> QED
    BY <2>1, <2>2, <2>3, <2>4, QuarantineType
<1>2. CASE QuarantineAll
  <2> DEFINE gates == {g \in GateId : gate[g].active}
  <2>1. Quarantine(gates, {}) /\ generation' \in Nat
    BY <1>2 DEF QuarantineAll, TypeOK
  <2>2. gates \in SUBSET GateId
    OBVIOUS
  <2> HIDE DEF gates
  <2> QED
    BY <2>1, <2>2, QuarantineType
<1> QED
  BY <1>1, <1>2

\* NextMergeEpoch is above the epoch of every gate of the merge ref.
LEMMA NextMergeEpochAbove ==
    ASSUME TypeOK, NEW ref
    PROVE  /\ NextMergeEpoch(ref) \in 1 .. MaxEpoch + 1
           /\ \A g \in GateId : (g.key = ref /\ gate[g].revision > 0) =>
                 g.epoch < NextMergeEpoch(ref)
<1> DEFINE rows == {x \in GateId : x.key = ref /\ gate[x].revision > 0}
           used == {g.epoch : g \in rows} \cup {0}
<1>1. used \subseteq 0 .. MaxEpoch /\ used # {}
  BY StoreAssumption DEF GateId, Epochs
<1>2. MaxEpoch \in Nat
  BY StoreAssumption
<1>3. \E e \in used : \A f \in used : f <= e
  BY <1>1, <1>2, LargestElement
<1> DEFINE top == CHOOSE e \in used : \A f \in used : f <= e
<1>4. top \in used /\ \A f \in used : f <= top
  BY <1>3
<1>5. NextMergeEpoch(ref) = 1 + top
  BY DEF NextMergeEpoch
<1>6. \A g \in rows : g.epoch \in used
  OBVIOUS
<1> HIDE DEF used, top
<1>7. NextMergeEpoch(ref) \in 1 .. MaxEpoch + 1
  BY <1>1, <1>2, <1>4, <1>5
<1>8. ASSUME NEW g \in rows PROVE g.epoch < NextMergeEpoch(ref)
  <2>1. g.epoch \in 0 .. MaxEpoch /\ g.epoch <= top /\ top \in 0 .. MaxEpoch
    BY <1>1, <1>4, <1>6
  <2> QED
    BY <2>1, <1>2, <1>5
<1> QED
  BY <1>7, <1>8

\* A transaction that changes gates and the outbox only.
LEMMA GateOnlyType ==
    ASSUME TypeOK, gate' \in [GateId -> GateRow], outbox' \subseteq OutboxRow,
           UNCHANGED <<pair, dispatch, evidence, generation>>
    PROVE  TypeOK'
BY DEF TypeOK

\* Inserting a merge group's gate keeps the types.
LEMMA InsertMergeGateType ==
    ASSUME TypeOK, NEW ref \in MergeRefs, NEW old \in SUBSET GateId,
           NEW row \in GateRow, InsertMergeGate(ref, old, row)
    PROVE  gate' \in [GateId -> GateRow] /\ outbox' \subseteq OutboxRow
<1> DEFINE new == [key |-> ref, epoch |-> NextMergeEpoch(ref)]
<1>1. /\ new.epoch <= MaxEpoch
      /\ gate' = [g \in GateId |->
              IF g = new THEN row
              ELSE IF g \in old THEN RevisedAs(gate[g], "cancelled", FALSE)
              ELSE gate[g]]
      /\ Enqueue(Publications(old \cup {new}))
  BY DEF InsertMergeGate
<1>2. new \in GateId
  BY <1>1, NextMergeEpochAbove, StoreAssumption DEF GateId, Epochs
<1> HIDE DEF new
<1>3. \A g \in GateId : RevisedAs(gate[g], "cancelled", FALSE) \in GateRow
  BY GateRows DEF TypeOK, GateStates
<1>4. gate' \in [GateId -> GateRow]
  BY <1>1, <1>3 DEF TypeOK
<1> DEFINE gates == old \cup {new}
<1>5. gates \in SUBSET GateId
  BY <1>2
<1>6. Enqueue(Publications(gates))
  BY <1>1
<1> HIDE DEF gates
<1> QED
  BY <1>4, <1>5, <1>6, PublicationKeys, EnqueueType

\* Revising a merge group's gate keeps the types.
LEMMA ReviseMergeGateType ==
    ASSUME TypeOK, NEW g \in GateId, NEW desired \in GateStates,
           NEW active \in BOOLEAN, ReviseMergeGate(g, desired, active)
    PROVE  gate' \in [GateId -> GateRow] /\ outbox' \subseteq OutboxRow
<1>1. RevisedAs(gate[g], desired, active) \in GateRow
  BY GateRows DEF TypeOK
<1>2. gate' \in [GateId -> GateRow]
  BY <1>1 DEF TypeOK, ReviseMergeGate
<1>3. Enqueue(Publications({g}))
  BY DEF ReviseMergeGate
<1> QED
  BY <1>2, <1>3, PublicationKeys, EnqueueType

\* A merge_group webhook keeps the types.
LEMMA MergeGroupType ==
    ASSUME TypeOK, NEW ref \in MergeRefs, NEW head \in Heads,
           RequestMergeGroup(ref, head) \/ DestroyMergeGroup(ref, head)
    PROVE  TypeOK'
<1>1. UNCHANGED <<pair, dispatch, evidence, generation>>
  BY DEF RequestMergeGroup, DestroyMergeGroup
<1>2. MergeGate(ref) \in SUBSET GateId
  BY DEF MergeGate
<1>3. {"revoked", "cancelled"} \subseteq GateStates
  BY DEF GateStates
<1>4. CASE \E g \in MergeGate(ref), desired \in {"revoked", "cancelled"},
             active \in BOOLEAN : ReviseMergeGate(g, desired, active)
  BY <1>1, <1>2, <1>3, <1>4, ReviseMergeGateType, GateOnlyType
<1>5. CASE \E old \in {{}, MergeGate(ref)}, active \in BOOLEAN,
             desired \in {"revoked", "cancelled"} :
             InsertMergeGate(ref, old, NewGate(None, head, active, desired))
  <2>1. PICK old \in {{}, MergeGate(ref)}, active \in BOOLEAN,
             desired \in {"revoked", "cancelled"} :
             InsertMergeGate(ref, old, NewGate(None, head, active, desired))
    BY <1>5
  <2>2. NewGate(None, head, active, desired) \in GateRow
    BY <1>3, NewGateRow
  <2> QED
    BY <1>1, <1>2, <2>1, <2>2, InsertMergeGateType, GateOnlyType
<1> QED
  BY <1>4, <1>5 DEF RequestMergeGroup, DestroyMergeGroup

\* Both steps of a reconciliation keep the types.
LEMMA ReconciliationType ==
    ASSUME TypeOK, Reconciliation
    PROVE  TypeOK'
<1>1. CASE BeginRepositorySnapshot
  BY <1>1 DEF BeginRepositorySnapshot, TypeOK
<1>2. CASE \E token \in 1 .. generation, pulls \in Lists :
             ReconcileOpenPullRequests(token, pulls)
  <2>1. PICK token \in 1 .. generation, pulls \in Lists :
           ReconcileOpenPullRequests(token, pulls)
    BY <1>2
  <2>2. pulls \in SUBSET PullRef
    BY DEF Lists
  <2> DEFINE listed  == {r.pair.pull : r \in pulls}
             applied == {r \in pulls : ~Outdated(r) /\ ~Repeated(r)}
             again   == {r \in pulls \ applied :
                           SamePair(r) /\ ~pair[r.pair].quarantined}
             closing == {p \in PairId : pair[p].active /\ p.pull \notin listed}
             items(r) == {Evaluation(r.pair, pair[r.pair].epoch, gate[g].revision) :
                              g \in Bound(r.pair)}
             more    == UNION {items(r) : r \in again}
  <2>3. /\ \A r \in applied : HasRoom(r)
        /\ generation' = generation + 1
        /\ Project(applied, closing, more)
    BY <2>1 DEF ReconcileOpenPullRequests
  <2>4. applied \in SUBSET PullRef /\ closing \in SUBSET PairId
    BY <2>2
  <2>5. ASSUME NEW r \in again PROVE items(r) \subseteq OutboxKey
    <3>1. r.pair \in PairId /\ pair[r.pair].epoch \in Epochs
      BY <2>2 DEF TypeOK, PullRef, SamePair, PairRow, Epochs
    <3>2. \A g \in Bound(r.pair) : gate[g].revision \in Nat
      BY DEF TypeOK, Bound, BoundTo, GateRow
    <3> QED
      BY <3>1, <3>2, EvaluationKeys
  <2>6. more \in SUBSET OutboxKey
    BY <2>5
  <2>7. generation' \in Nat
    BY <2>3 DEF TypeOK
  <2> HIDE DEF applied, closing, more
  <2> QED
    BY <2>3, <2>4, <2>6, <2>7, ProjectType
<1> QED
  BY <1>1, <1>2 DEF Reconciliation

\* Leases of the workers are records of pairs and of gates.
LEMMA LeaseTypes ==
    /\ \A l \in PairLeases : l.pair \in PairId /\ l.epoch \in Epochs
                                /\ l.worker \in Workers
    /\ \A l \in GateLeases : l.gate \in GateId /\ l.revision \in Nat
BY DEF PairLeases, GateLeases

\* Pair leases and the operations under them keep the types.
LEMMA PairOperationType ==
    ASSUME TypeOK, PairOperation
    PROVE  TypeOK'
<1> USE DEF TypeOK
<1>1. ASSUME NEW p \in PairId, NEW e \in Epochs, NEW w \in Workers,
             AcquirePairLease(p, e, w)
      PROVE  TypeOK'
  <2>1. pair[p] \in PairRow /\ pair[p].fence + 1 \in Nat
    BY DEF PairRow
  <2>2. pair'[p] \in PairRow /\ pair'[p].epoch = pair[p].epoch
           /\ pair'[p].active = pair[p].active
    BY <1>1, <2>1 DEF AcquirePairLease, PairRow
  <2> QED
    BY <1>1, <2>2 DEF AcquirePairLease
<1>2. ASSUME NEW l \in PairLeases,
             NEW desired \in {"pending", "success", "failure"},
             CommitPairGate(l, desired)
      PROVE  TypeOK'
  <2> DEFINE gates == {g \in Bound(l.pair) : g.epoch = l.epoch}
             state == Committed(<<l.pair, l.epoch>>, desired)
  <2>1. /\ pair' = [pair EXCEPT ![l.pair] = Unleased(@)]
        /\ gate' = [g \in GateId |->
              IF g \in gates THEN Revised(gate[g], state) ELSE gate[g]]
        /\ Enqueue(Publications(gates))
        /\ UNCHANGED <<dispatch, evidence, generation>>
    BY <1>2 DEF CommitPairGate
  <2>2. state \in GateStates
    BY DEF Committed, GateStates
  <2>3. gates \in SUBSET GateId
    BY DEF Bound, BoundTo
  <2> HIDE DEF gates, state
  <2>4. l.pair \in PairId
    BY LeaseTypes
  <2>5. /\ Unleased(pair[l.pair]) \in PairRow
        /\ Unleased(pair[l.pair]).epoch = pair[l.pair].epoch
        /\ Unleased(pair[l.pair]).active = pair[l.pair].active
    BY <2>4, PairRows
  <2>6. pair' \in [PairId -> PairRow]
           /\ \A p \in PairId : pair'[p].active => pair'[p].epoch > 0
    BY <2>1, <2>4, <2>5
  <2>7. gate' \in [GateId -> GateRow]
    BY <2>1, <2>2, GateRows
  <2>8. outbox' \subseteq OutboxRow
    BY <2>1, <2>3, PublicationKeys, EnqueueType
  <2> QED
    BY <2>1, <2>6, <2>7, <2>8
<1>3. ASSUME NEW l \in PairLeases, NEW now \in Times, PlanDispatch(l, now)
      PROVE  TypeOK'
  <2>1. <<l.pair, l.epoch>> \in EpochId /\ now \in Nat
    BY LeaseTypes, StoreAssumption DEF EpochId
  <2> QED
    BY <1>3, <2>1, SMTT(60) DEF PlanDispatch, DispatchRow
<1>4. ASSUME NEW l \in PairLeases, BeginDispatchAttempt(l)
      PROVE  TypeOK'
  <2>1. <<l.pair, l.epoch>> \in EpochId
    BY LeaseTypes DEF EpochId
  <2> QED
    BY <1>4, <2>1 DEF BeginDispatchAttempt, DispatchRow
<1>5. ASSUME NEW l \in PairLeases, NEW id \in Ids, NEW at \in Times,
             AdoptDispatch(l, id, at)
      PROVE  TypeOK'
  <2>1. /\ <<l.pair, l.epoch>> \in EpochId /\ l.pair \in PairId
        /\ at \in Nat /\ id \in Nat
    BY LeaseTypes, StoreAssumption DEF EpochId
  <2>2. dispatch' \in [EpochId -> DispatchRow]
    <3> DEFINE d == <<l.pair, l.epoch>>
    <3>1. dispatch' = [dispatch EXCEPT ![d].state = "sent",
                          ![d].comment = id, ![d].dispatchedAt = at]
      BY <1>5 DEF AdoptDispatch
    <3>2. d \in EpochId /\ dispatch[d] \in DispatchRow
      BY <2>1
    <3> HIDE DEF d
    <3>3. dispatch'[d] \in DispatchRow
      BY <2>1, <3>1, <3>2 DEF DispatchRow
    <3> QED
      BY <3>1, <3>2, <3>3
  <2>3. /\ Unleased(pair[l.pair]) \in PairRow
        /\ Unleased(pair[l.pair]).epoch = pair[l.pair].epoch
        /\ Unleased(pair[l.pair]).active = pair[l.pair].active
    BY <2>1, PairRows
  <2>4. pair' \in [PairId -> PairRow]
           /\ \A p \in PairId : pair'[p].active => pair'[p].epoch > 0
    BY <1>5, <2>1, <2>3 DEF AdoptDispatch
  <2>5. {<<"timeout", l.pair, l.epoch>>} \in SUBSET OutboxKey
    BY LeaseTypes DEF OutboxKey
  <2>6. outbox' \subseteq OutboxRow
    BY <1>5, <2>5, EnqueueType DEF AdoptDispatch
  <2> QED
    BY <1>5, <2>2, <2>4, <2>6 DEF AdoptDispatch
<1> QED
  BY <1>1, <1>2, <1>3, <1>4, <1>5 DEF PairOperation

\* A rejected or expired publication keeps the types.
LEMMA FailPublicationType ==
    ASSUME TypeOK, NEW l \in GateLeases, NEW run \in Nat, FailPublication(l, run)
    PROVE  TypeOK'
<1>1. l.gate \in GateId /\ gate[l.gate] \in GateRow
  BY LeaseTypes DEF TypeOK
<1>2. Revised(gate[l.gate], "failure") \in GateRow
  BY <1>1, GateRows DEF GateStates
<1>3. Coalesce(run, gate[l.gate].checkRun) \in Nat
  BY <1>1 DEF Coalesce, GateRow
<1>4. [Revised(gate[l.gate], "failure") EXCEPT
          !.checkRun = Coalesce(run, gate[l.gate].checkRun)] \in GateRow
  BY <1>2, <1>3 DEF GateRow
<1>5. gate' \in [GateId -> GateRow]
  BY <1>1, <1>4 DEF FailPublication, TypeOK
<1>6. outbox' \subseteq OutboxRow
  BY <1>1, PublicationKeys, EnqueueType DEF FailPublication
<1> QED
  BY <1>5, <1>6, GateOnlyType DEF FailPublication

\* Gate leases and publications keep the types.
LEMMA GateOperationType ==
    ASSUME TypeOK, GateOperation
    PROVE  TypeOK'
<1>1. ASSUME NEW g \in GateId, NEW w \in Workers, NEW v,
             AcquireGateLease(g, v, w)
      PROVE  TypeOK'
  <2>1. gate[g] \in GateRow /\ gate[g].fence + 1 \in Nat
    BY DEF TypeOK, GateRow
  <2>2. gate'[g] \in GateRow /\ gate' \in [GateId -> GateRow]
    BY <1>1, <2>1 DEF AcquireGateLease, GateRow, TypeOK
  <2> QED
    BY <1>1, <2>2, GateOnlyType DEF AcquireGateLease, TypeOK
<1>2. ASSUME NEW l \in GateLeases, NEW run \in Ids \cup {0},
             ExpireSuccess(l, run) \/ RejectGatePublication(l, run)
      PROVE  TypeOK'
  <2>1. run \in Nat /\ FailPublication(l, run)
    BY <1>2, StoreAssumption DEF ExpireSuccess, RejectGatePublication
  <2> QED
    BY <2>1, FailPublicationType
<1>3. ASSUME NEW l \in GateLeases, NEW run \in Ids,
             CommitGatePublication(l, run, gate[l.gate].desired)
      PROVE  TypeOK'
  <2>1. l.gate \in GateId /\ l.revision \in Nat /\ run \in Nat
    BY LeaseTypes, StoreAssumption
  <2>2. Unleased(gate[l.gate]) \in GateRow /\ gate[l.gate].desired \in GateStates
    BY <2>1, GateRows DEF TypeOK, GateRow
  <2>3. [Unleased(gate[l.gate]) EXCEPT !.checkRun = run,
            !.pubState = gate[l.gate].desired, !.pubRev = l.revision] \in GateRow
    BY <2>1, <2>2 DEF GateRow
  <2>4. gate' \in [GateId -> GateRow]
    BY <1>3, <2>1, <2>3 DEF CommitGatePublication, TypeOK
  <2> QED
    BY <1>3, <2>4, GateOnlyType DEF CommitGatePublication, TypeOK
<1>4. ASSUME NEW l \in GateLeases, NEW run \in Ids,
             SupersedeStaleGatePublication(l, run)
      PROVE  TypeOK'
  <2>1. l.gate \in GateId /\ run \in Nat /\ gate[l.gate] \in GateRow
    BY LeaseTypes, StoreAssumption DEF TypeOK
  <2>2. Revised(gate[l.gate], gate[l.gate].desired) \in GateRow
    BY <2>1, GateRows DEF GateRow
  <2>3. Coalesce(gate[l.gate].checkRun, run) \in Nat
    BY <2>1 DEF Coalesce, GateRow
  <2>4. [Revised(gate[l.gate], gate[l.gate].desired) EXCEPT
            !.checkRun = Coalesce(gate[l.gate].checkRun, run)] \in GateRow
    BY <2>2, <2>3 DEF GateRow
  <2>5. gate' \in [GateId -> GateRow]
    BY <1>4, <2>1, <2>4 DEF TypeOK, SupersedeStaleGatePublication
  <2>6. outbox' \subseteq OutboxRow
    BY <1>4, <2>1, PublicationKeys, EnqueueType DEF SupersedeStaleGatePublication
  <2> QED
    BY <1>4, <2>5, <2>6, GateOnlyType DEF SupersedeStaleGatePublication
<1> QED
  BY <1>1, <1>2, <1>3, <1>4 DEF GateOperation

\* Claiming, completing and failing an item keep the types.
LEMMA OutboxOperationType ==
    ASSUME TypeOK, OutboxOperation
    PROVE  TypeOK'
<1>1. \A i \in OutboxRow : Unleased(i) \in OutboxRow
  BY DEF Unleased, OutboxRow
<1>2. \A i \in OutboxRow : [Unleased(i) EXCEPT !.done = TRUE] \in OutboxRow
  BY <1>1 DEF OutboxRow
<1>3. \A i \in OutboxRow, w \in Workers :
         [i EXCEPT !.owner = w, !.live = TRUE] \in OutboxRow
  BY DEF OutboxRow
<1>4. \A k, w : Claims(k, w) \subseteq outbox
  BY DEF Claims
<1>5. CASE \E i \in outbox, w \in Workers : ClaimOutbox(i, w)
  BY <1>3, <1>5 DEF ClaimOutbox, TypeOK
<1>6. CASE \E k \in Keys, w \in Workers : CompleteOutbox(k, w)
  BY <1>2, <1>4, <1>6 DEF CompleteOutbox, TypeOK
<1>7. CASE \E k \in Keys, w \in Workers : FailOutbox(k, w)
  BY <1>1, <1>4, <1>7 DEF FailOutbox, TypeOK
<1> QED
  BY <1>5, <1>6, <1>7 DEF OutboxOperation

\* Expiring leases and deadlines keep the types.
LEMMA TimeType ==
    ASSUME TypeOK, Time
    PROVE  TypeOK'
<1>1. CASE \E p \in PairId : ExpirePairLease(p)
  <2>1. PICK p \in PairId : ExpirePairLease(p)
    BY <1>1
  <2>2. /\ pair'[p] \in PairRow
        /\ pair'[p].epoch = pair[p].epoch /\ pair'[p].active = pair[p].active
        /\ \A q \in PairId \ {p} : pair'[q] = pair[q]
    BY <2>1, ZenonT(60) DEF ExpirePairLease, TypeOK, PairRow
  <2>3. pair' \in [PairId -> PairRow]
           /\ \A q \in PairId : pair'[q].active => pair'[q].epoch > 0
    BY <2>1, <2>2 DEF ExpirePairLease, TypeOK
  <2> QED
    BY <2>1, <2>3 DEF ExpirePairLease, TypeOK
<1>2. CASE \E g \in GateId : ExpireGateLease(g)
  <2>1. PICK g \in GateId : ExpireGateLease(g)
    BY <1>2
  <2>2. gate[g] \in GateRow
    BY DEF TypeOK
  <2>3. [gate[g] EXCEPT !.live = FALSE] \in GateRow
    BY <2>2 DEF GateRow
  <2>4. gate' \in [GateId -> GateRow]
    BY <2>1, <2>3 DEF ExpireGateLease, TypeOK
  <2> QED
    BY <2>1, <2>4, GateOnlyType DEF ExpireGateLease, TypeOK
<1>3. CASE \E i \in outbox : ExpireClaim(i)
  <2>1. \A i \in OutboxRow : [i EXCEPT !.live = FALSE] \in OutboxRow
    BY DEF OutboxRow
  <2> QED
    BY <1>3, <2>1 DEF ExpireClaim, TypeOK
<1>4. CASE \E d \in EpochId : PassDeadline(d)
  BY <1>4, ZenonT(60) DEF PassDeadline, TypeOK, DispatchRow
<1> QED
  BY <1>1, <1>2, <1>3, <1>4 DEF Time

\* TypeOK is inductive.
LEMMA NextType ==
    ASSUME TypeOK, [StoreNext]_store
    PROVE  TypeOK'
<1>1. CASE Webhook
  BY <1>1, PullRequestType, EvidenceWebhookType, PushType, MalformedType,
     MergeGroupType DEF Webhook
<1>2. CASE UNCHANGED store
  BY <1>2 DEF store, TypeOK
<1> QED
  BY <1>1, <1>2, ReconciliationType, PairOperationType, GateOperationType,
     OutboxOperationType, TimeType DEF StoreNext

\* Every transaction of the store keeps its tables well typed, whatever the
\* number of pull requests, commits, workers and epochs; in particular an
\* active pair always has an epoch, and no epoch exceeds the bound.
THEOREM TypeCorrect == StoreSpec => []TypeOK
BY InitType, NextType, PTL DEF StoreSpec

-----------------------------------------------------------------------------
(* The safety of the store.  ActiveGateMatchesPair, SuccessIsCurrent and   *)
(* QuarantineFailsClosed need one another: a commit may write success only *)
(* because the gate of an active pair is quarantined exactly when its pair *)
(* is, and closing a pair fails its gate only because that gate is bound   *)
(* to it.                                                                  *)

\* A merge group's gate belongs to no pair.
MergeUnpaired == \A g \in GateId : IsMerge(g) => gate[g].pair = None

SafeInv ==
    /\ TypeOK
    /\ MergeUnpaired
    /\ ActiveGateMatchesPair
    /\ SuccessIsCurrent
    /\ QuarantineFailsClosed

\* What SuccessIsCurrent asks of a gate that wants success.
Backed(g) ==
    LET p == gate[g].pair
    IN  /\ gate[g].active /\ ~gate[g].quarantined
        /\ p \in PairId /\ pair[p].active /\ ~pair[p].quarantined
        /\ pair[p].epoch = g.epoch
        /\ dispatch[<<p, g.epoch>>].state = "sent"

\* A gate is of a pull request or of a merge group, and NULL is no pair.
LEMMA KeyKinds ==
    /\ \A g \in GateId : ~IsMerge(g) <=> g.key \in Pulls
    /\ \A p \in PairId : p.pull \in Pulls /\ p # None
BY StoreAssumption DEF GateId, PairId, IsMerge

\* The active gate of a pair is the gate of its epoch.
LEMMA BoundGate ==
    ASSUME SafeInv, NEW g \in GateId, gate[g].active, gate[g].pair \in PairId
    PROVE  /\ g.key \in Pulls
           /\ pair[gate[g].pair].active
           /\ g = GateOf(gate[g].pair)
           /\ gate[g].quarantined = pair[gate[g].pair].quarantined
<1>1. g.key \in Pulls
  BY KeyKinds DEF SafeInv, MergeUnpaired
<1> QED
  BY <1>1 DEF SafeInv, ActiveGateMatchesPair

\* An active pair's gate is bound to it.
LEMMA GateOfActive ==
    ASSUME SafeInv, NEW p \in PairId, pair[p].active
    PROVE  GateOf(p) \in GateId /\ gate[GateOf(p)].active /\ gate[GateOf(p)].pair = p
<1> DEFINE g == GateOf(p)
<1>1. g \in GateId /\ gate[g].active
  BY DEF SafeInv, ActiveGateMatchesPair
<1>2. g.key = p.pull /\ g.key \in Pulls
  BY KeyKinds DEF GateOf
<1>3. gate[g].pair \in PairId /\ pair[gate[g].pair].active /\ g = GateOf(gate[g].pair)
  BY <1>1, <1>2 DEF SafeInv, ActiveGateMatchesPair
<1>4. gate[g].pair.pull = p.pull
  BY <1>2, <1>3 DEF GateOf
<1>5. gate[g].pair = p
  BY <1>3, <1>4 DEF SafeInv, ActiveGateMatchesPair
<1> QED
  BY <1>1, <1>5

\* Steps that leave the epochs, the activity and the quarantines of pairs and
\* of their gates alone.
LEMMA Frame ==
    ASSUME SafeInv, TypeOK',
           \A p \in PairId : /\ pair'[p].epoch = pair[p].epoch
                             /\ pair'[p].active = pair[p].active
                             /\ pair'[p].quarantined = pair[p].quarantined,
           \A g \in GateId :
               /\ gate'[g].pair = gate[g].pair
               /\ ~IsMerge(g) => /\ gate'[g].active = gate[g].active
                                 /\ gate'[g].quarantined = gate[g].quarantined
                                 /\ gate'[g].desired = "success" => Backed(g)
               /\ IsMerge(g) => gate'[g].desired # "success"
               /\ gate'[g].quarantined => gate'[g].desired \in {"failure", "cancelled"},
           \A d \in EpochId : dispatch[d].state = "sent" => dispatch'[d].state = "sent",
           \A p \in PairId : (pair[p].epoch > 0 /\ pair[p].quarantined) =>
               dispatch'[EpochOf(p)].state \in {"none", "abandoned"}
    PROVE  SafeInv'
<1>1. MergeUnpaired'
  BY DEF SafeInv, MergeUnpaired, IsMerge
<1>2. \A p \in PairId : GateOf(p)' = GateOf(p) /\ EpochOf(p)' = EpochOf(p)
  BY DEF GateOf, EpochOf
<1>3. ActiveGateMatchesPair'
  <2>1. ASSUME NEW p \in PairId, NEW q \in PairId, p.pull = q.pull,
               pair'[p].active, pair'[q].active
        PROVE  p = q
    BY <2>1 DEF SafeInv, ActiveGateMatchesPair
  <2>2. ASSUME NEW p \in PairId, pair'[p].active
        PROVE  GateOf(p)' \in GateId /\ gate'[GateOf(p)'].active
    <3>1. GateOf(p) \in GateId /\ gate[GateOf(p)].active /\ gate[GateOf(p)].pair = p
      BY <2>2, GateOfActive
    <3>2. ~IsMerge(GateOf(p))
      BY <3>1, KeyKinds DEF SafeInv, MergeUnpaired
    <3> QED
      BY <1>2, <3>1, <3>2
  <2>3. ASSUME NEW g \in GateId, g.key \in Pulls, gate'[g].active
        PROVE  /\ gate'[g].pair \in PairId
               /\ pair'[gate'[g].pair].active
               /\ g = GateOf(gate[g].pair)'
               /\ gate'[g].quarantined = pair'[gate'[g].pair].quarantined
    <3>1. gate[g].active /\ ~IsMerge(g)
      BY <2>3, KeyKinds
    <3>2. /\ gate[g].pair \in PairId /\ pair[gate[g].pair].active
          /\ g = GateOf(gate[g].pair)
          /\ gate[g].quarantined = pair[gate[g].pair].quarantined
      BY <2>3, <3>1 DEF SafeInv, ActiveGateMatchesPair
    <3> QED
      BY <1>2, <3>1, <3>2
  <2> QED
    BY <2>1, <2>2, <2>3 DEF ActiveGateMatchesPair
<1>4. SuccessIsCurrent'
  <2> SUFFICES ASSUME NEW g \in GateId, gate'[g].desired = "success"
               PROVE  Backed(g)'
    BY DEF SuccessIsCurrent, Backed
  <2>1. ~IsMerge(g) /\ Backed(g)
    OBVIOUS
  <2>2. gate[g].pair \in PairId /\ <<gate[g].pair, g.epoch>> \in EpochId
    BY <2>1 DEF Backed, EpochId, GateId
  <2> QED
    BY <2>1, <2>2 DEF Backed
<1>5. QuarantineFailsClosed'
  BY <1>2 DEF QuarantineFailsClosed
<1> QED
  BY <1>1, <1>3, <1>4, <1>5 DEF SafeInv

\* What the row operators leave alone.
LEMMA PairFrame ==
    ASSUME NEW row \in PairRow
    PROVE  /\ Fenced(row).epoch = row.epoch /\ Fenced(row).active = row.active
           /\ Fenced(row).quarantined = row.quarantined
BY DEF PairRow, Fenced

\* A revision of a gate changes its desired state and leaves its binding alone.
LEMMA GateFrame ==
    ASSUME NEW row \in GateRow, NEW desired
    PROVE  /\ Revised(row, desired).pair = row.pair
           /\ Revised(row, desired).active = row.active
           /\ Revised(row, desired).quarantined = row.quarantined
           /\ Revised(row, desired).desired = desired
BY DEF GateRow, Revised

\* ... and, in its second form, sets its activity.
LEMMA GateFrameAs ==
    ASSUME NEW row \in GateRow, NEW desired, NEW active \in BOOLEAN
    PROVE  /\ RevisedAs(row, desired, active).pair = row.pair
           /\ RevisedAs(row, desired, active).active = active
           /\ RevisedAs(row, desired, active).quarantined = row.quarantined
           /\ RevisedAs(row, desired, active).desired = desired
BY DEF GateRow, Revised, RevisedAs

\* What SafeInv says of the gates and the dispatches that a step leaves alone.
LEMMA Unmoved ==
    ASSUME SafeInv
    PROVE  /\ \A g \in GateId :
                 /\ gate[g].desired = "success" => Backed(g) /\ ~IsMerge(g)
                 /\ gate[g].quarantined => gate[g].desired \in {"failure", "cancelled"}
           /\ \A p \in PairId : (pair[p].epoch > 0 /\ pair[p].quarantined) =>
                 dispatch[EpochOf(p)].state \in {"none", "abandoned"}
<1>1. ASSUME NEW g \in GateId, gate[g].desired = "success"
      PROVE  Backed(g) /\ ~IsMerge(g)
  <2>1. Backed(g)
    BY <1>1 DEF SafeInv, SuccessIsCurrent, Backed
  <2> QED
    BY <2>1, KeyKinds DEF SafeInv, MergeUnpaired, Backed
<1> QED
  BY <1>1 DEF SafeInv, QuarantineFailsClosed

\* New evidence revokes the gates of the pairs it fences: SafeInv is kept.
LEMMA EvidenceSafe ==
    ASSUME SafeInv, TypeOK', NEW pairs \in SUBSET PairId, NEW input,
           \A p \in pairs : ~pair[p].quarantined,
           InvalidateForEvidence(pairs, input)
    PROVE  SafeInv'
<1>1. /\ pair' = [p \in PairId |->
                     IF p \in pairs THEN Invalidated(pair[p]) ELSE pair[p]]
      /\ gate' = [g \in GateId |->
                     IF g \in BoundTo(pairs) THEN RevisedAs(gate[g], "revoked", TRUE)
                     ELSE gate[g]]
      /\ dispatch' = dispatch
  BY DEF InvalidateForEvidence
<1>2. TypeOK
  BY DEF SafeInv
<1>3. ASSUME NEW p \in PairId
      PROVE  /\ pair'[p].epoch = pair[p].epoch
             /\ pair'[p].active = pair[p].active
             /\ pair'[p].quarantined = pair[p].quarantined
  BY <1>1, <1>2, PairFrame DEF TypeOK, Invalidated
<1>4. ASSUME NEW g \in BoundTo(pairs)
      PROVE  g \in GateId /\ gate[g].active /\ ~gate[g].quarantined /\ ~IsMerge(g)
  <2>1. g \in GateId /\ gate[g].active /\ gate[g].pair \in pairs
    BY DEF BoundTo
  <2> QED
    BY <2>1, BoundGate, KeyKinds
<1>5. ASSUME NEW g \in GateId
      PROVE  /\ gate'[g].pair = gate[g].pair
             /\ gate'[g].active = gate[g].active
             /\ gate'[g].quarantined = gate[g].quarantined
             /\ gate'[g].desired = "success" => Backed(g) /\ ~IsMerge(g)
             /\ gate'[g].quarantined => gate'[g].desired \in {"failure", "cancelled"}
  <2>1. CASE g \in BoundTo(pairs)
    <3>1. gate'[g] = RevisedAs(gate[g], "revoked", TRUE) /\ gate[g] \in GateRow
      BY <1>1, <1>2, <2>1 DEF TypeOK
    <3>2. /\ gate'[g].pair = gate[g].pair /\ gate'[g].active = TRUE
          /\ gate'[g].quarantined = gate[g].quarantined
          /\ gate'[g].desired = "revoked"
      BY <3>1 DEF GateRow, Revised, RevisedAs
    <3> QED
      BY <1>2, <1>4, <2>1, <3>2 DEF TypeOK, GateRow
  <2>2. CASE g \notin BoundTo(pairs)
    <3>1. gate'[g] = gate[g]
      BY <1>1, <2>2
    <3> QED
      BY <3>1, Unmoved
  <2> QED
    BY <2>1, <2>2
<1> QED
  BY <1>1, <1>3, <1>5, Frame, Unmoved

\* A push revokes every gate outside quarantine: SafeInv is kept.
LEMMA PushSafe == ASSUME SafeInv, TypeOK', ApplyPush PROVE SafeInv'
<1> DEFINE pairs == {p \in PairId : pair[p].active /\ ~pair[p].quarantined}
           gates == BoundTo(pairs)
                      \cup {g \in GateId : IsMerge(g) /\ gate[g].active
                                             /\ ~gate[g].quarantined}
<1>1. /\ pair' = [p \in PairId |->
                     IF p \in pairs THEN Fenced(pair[p]) ELSE pair[p]]
      /\ gate' = [g \in GateId |->
                     IF g \in gates THEN Revised(gate[g], "revoked") ELSE gate[g]]
      /\ dispatch' = dispatch
  BY DEF ApplyPush
<1>2. TypeOK
  BY DEF SafeInv
<1>3. ASSUME NEW p \in PairId
      PROVE  /\ pair'[p].epoch = pair[p].epoch
             /\ pair'[p].active = pair[p].active
             /\ pair'[p].quarantined = pair[p].quarantined
  <2> HIDE DEF pairs, gates
  <2> QED
    BY <1>1, <1>2, PairFrame DEF TypeOK
<1>4. ASSUME NEW g \in gates PROVE g \in GateId /\ ~gate[g].quarantined
  <2>1. CASE g \in BoundTo(pairs)
    <3>1. g \in GateId /\ gate[g].active /\ gate[g].pair \in pairs
      BY <2>1 DEF BoundTo
    <3> QED
      BY <3>1, BoundGate
  <2> QED
    BY <2>1
<1> HIDE DEF pairs, gates
<1>5. ASSUME NEW g \in GateId
      PROVE  /\ gate'[g].pair = gate[g].pair
             /\ gate'[g].active = gate[g].active
             /\ gate'[g].quarantined = gate[g].quarantined
             /\ gate'[g].desired = "success" => Backed(g) /\ ~IsMerge(g)
             /\ gate'[g].quarantined => gate'[g].desired \in {"failure", "cancelled"}
  <2>1. CASE g \in gates
    <3>1. gate'[g] = Revised(gate[g], "revoked") /\ gate[g] \in GateRow
      BY <1>1, <1>2, <2>1 DEF TypeOK
    <3> QED
      BY <1>4, <2>1, <3>1, GateFrame
  <2>2. CASE g \notin gates
    BY <1>1, <2>2, Unmoved
  <2> QED
    BY <2>1, <2>2
<1> QED
  BY <1>1, <1>3, <1>5, Frame, Unmoved

\* Quarantine reaches each active pair together with its gate and dispatch.
LEMMA QuarantineSafe ==
    ASSUME SafeInv, TypeOK', NEW gates \in SUBSET GateId, NEW more,
           Quarantine(gates, more),
           \A g \in GateId : gate[g].active => g \in gates
    PROVE  SafeInv'
<1> DEFINE pairs == {p \in PairId : pair[p].active}
<1>1. /\ pair' = [p \in PairId |->
              IF p \in pairs THEN [Fenced(pair[p]) EXCEPT !.quarantined = TRUE]
              ELSE pair[p]]
      /\ dispatch' = [d \in EpochId |->
              IF \E p \in pairs : d = EpochOf(p) THEN Abandoned(dispatch[d])
              ELSE dispatch[d]]
      /\ gate' = [g \in GateId |->
              IF g \in gates
              THEN [Revised(gate[g], "failure") EXCEPT !.quarantined = TRUE]
              ELSE gate[g]]
  BY DEF Quarantine
<1>2. TypeOK
  BY DEF SafeInv
<1>3. ASSUME NEW p \in PairId
      PROVE  /\ pair'[p].epoch = pair[p].epoch
             /\ pair'[p].active = pair[p].active
             /\ pair[p].active => pair'[p].quarantined = TRUE
             /\ ~pair[p].active => pair'[p] = pair[p]
  <2>1. pair[p] \in PairRow
    BY <1>2 DEF TypeOK
  <2>2. CASE pair[p].active
    <3>1. pair'[p] = [Fenced(pair[p]) EXCEPT !.quarantined = TRUE]
      BY <1>1, <2>2
    <3>2. Fenced(pair[p]) \in PairRow
      BY <2>1, PairRows
    <3>3. /\ pair'[p].epoch = Fenced(pair[p]).epoch
          /\ pair'[p].active = Fenced(pair[p]).active
          /\ pair'[p].quarantined = TRUE
      BY <3>1, <3>2 DEF PairRow
    <3> QED
      BY <2>1, <2>2, <3>3, PairFrame
  <2>3. CASE ~pair[p].active
    BY <1>1, <2>3
  <2> QED
    BY <2>2, <2>3
<1>4. ASSUME NEW g \in GateId
      PROVE  /\ gate'[g].pair = gate[g].pair
             /\ gate'[g].active = gate[g].active
             /\ gate'[g].desired # "success"
             /\ gate[g].active => gate'[g].quarantined = TRUE
             /\ gate'[g].quarantined => gate'[g].desired \in {"failure", "cancelled"}
  <2>1. gate[g] \in GateRow
    BY <1>2 DEF TypeOK
  <2>2. CASE g \in gates
    <3>1. gate'[g] = [Revised(gate[g], "failure") EXCEPT !.quarantined = TRUE]
      BY <1>1, <2>2
    <3> QED
      BY <2>1, <3>1 DEF GateRow, Revised
  <2>3. CASE g \notin gates
    <3>1. gate'[g] = gate[g] /\ ~gate[g].active
      BY <1>1, <2>3
    <3>2. gate[g].desired # "success"
      BY <3>1, Unmoved DEF Backed
    <3> QED
      BY <3>1, <3>2, Unmoved
  <2> QED
    BY <2>2, <2>3
<1>5. \A p \in PairId : GateOf(p)' = GateOf(p) /\ EpochOf(p)' = EpochOf(p)
  BY <1>3 DEF GateOf, EpochOf
<1>6. MergeUnpaired'
  BY <1>4 DEF SafeInv, MergeUnpaired, IsMerge
<1>7. ActiveGateMatchesPair'
  <2>1. \A p, q \in PairId :
          (p.pull = q.pull /\ pair'[p].active /\ pair'[q].active) => p = q
    BY <1>3 DEF SafeInv, ActiveGateMatchesPair
  <2>2. ASSUME NEW p \in PairId, pair'[p].active
        PROVE  GateOf(p)' \in GateId /\ gate'[GateOf(p)'].active
    <3>1. GateOf(p) \in GateId /\ gate[GateOf(p)].active
      BY <1>3, <2>2 DEF SafeInv, ActiveGateMatchesPair
    <3> QED
      BY <1>4, <1>5, <3>1
  <2>3. ASSUME NEW g \in GateId, g.key \in Pulls, gate'[g].active
        PROVE  /\ gate'[g].pair \in PairId
               /\ pair'[gate'[g].pair].active
               /\ g = GateOf(gate[g].pair)'
               /\ gate'[g].quarantined = pair'[gate'[g].pair].quarantined
    <3>1. gate[g].active /\ gate'[g].pair = gate[g].pair /\ gate'[g].quarantined = TRUE
      BY <1>4, <2>3
    <3>2. /\ gate[g].pair \in PairId /\ pair[gate[g].pair].active
          /\ g = GateOf(gate[g].pair)
      BY <2>3, <3>1 DEF SafeInv, ActiveGateMatchesPair
    <3>3. pair'[gate[g].pair].quarantined = TRUE /\ pair'[gate[g].pair].active
      BY <1>3, <3>2
    <3> QED
      BY <1>5, <3>1, <3>2, <3>3
  <2> QED
    BY <2>1, <2>2, <2>3 DEF ActiveGateMatchesPair
<1>8. SuccessIsCurrent'
  BY <1>4 DEF SuccessIsCurrent
<1>9. QuarantineFailsClosed'
  <2>1. ASSUME NEW p \in PairId, pair'[p].epoch > 0, pair'[p].quarantined
        PROVE  dispatch'[EpochOf(p)].state \in {"none", "abandoned"}
    <3>0. pair[p].epoch \in Epochs
      <4>1. pair[p].epoch \in 0 .. MaxEpoch /\ pair[p].epoch > 0
        BY <1>2, <1>3, <2>1 DEF TypeOK, PairRow
      <4> QED
        BY <4>1, StoreAssumption DEF Epochs
    <3>1. EpochOf(p) \in EpochId /\ dispatch[EpochOf(p)] \in DispatchRow
      BY <1>2, <3>0 DEF TypeOK, EpochOf, EpochId
    <3>2. CASE p \in pairs
      <4>1. dispatch'[EpochOf(p)] = Abandoned(dispatch[EpochOf(p)])
        BY <1>1, <3>1, <3>2
      <4> QED
        BY <3>1, <4>1 DEF Abandoned, DispatchRow
    <3>3. CASE p \notin pairs
      <4>1. pair[p].epoch > 0 /\ pair[p].quarantined
        BY <1>3, <2>1, <3>3
      <4>2. dispatch[EpochOf(p)].state \in {"none", "abandoned"}
        BY <4>1, Unmoved
      <4>3. \A q \in pairs : EpochOf(p) # EpochOf(q)
        BY <3>3 DEF EpochOf
      <4> QED
        BY <1>1, <3>1, <4>2, <4>3
    <3> QED
      BY <3>2, <3>3
  <2> QED
    BY <1>4, <1>5, <2>1 DEF QuarantineFailsClosed
<1> QED
  BY <1>6, <1>7, <1>8, <1>9 DEF SafeInv

\* Malformed and unscoped webhooks keep SafeInv.
LEMMA MalformedSafe ==
    ASSUME SafeInv, TypeOK', ApplyMalformed \/ QuarantineAll
    PROVE  SafeInv'
<1>1. CASE ApplyMalformed
  <2> DEFINE gates == BoundTo({p \in PairId : pair[p].active})
                        \cup {g \in GateId : IsMerge(g) /\ gate[g].active}
             more  == {<<"reconcile", generation + 1>>}
  <2>1. Quarantine(gates, more)
    BY <1>1 DEF ApplyMalformed
  <2>2. gates \in SUBSET GateId
    BY BoundType
  <2>3. ASSUME NEW g \in GateId, gate[g].active PROVE g \in gates
    <3>1. CASE ~IsMerge(g)
      <4>1. gate[g].pair \in PairId /\ pair[gate[g].pair].active
        BY <2>3, <3>1, KeyKinds DEF SafeInv, ActiveGateMatchesPair
      <4> QED
        BY <2>3, <4>1 DEF BoundTo
    <3> QED
      BY <2>3, <3>1
  <2> HIDE DEF gates, more
  <2> QED
    BY <2>1, <2>2, <2>3, QuarantineSafe
<1>2. CASE QuarantineAll
  <2> DEFINE gates == {g \in GateId : gate[g].active}
  <2>1. Quarantine(gates, {})
    BY <1>2 DEF QuarantineAll
  <2>2. gates \in SUBSET GateId /\ \A g \in GateId : gate[g].active => g \in gates
    OBVIOUS
  <2> HIDE DEF gates
  <2> QED
    BY <2>1, <2>2, QuarantineSafe
<1> QED
  BY <1>1, <1>2

\* Only gates of merge groups change, and none of them to success.
LEMMA MergeFrame ==
    ASSUME SafeInv, TypeOK', pair' = pair, dispatch' = dispatch,
           \A g \in GateId :
               \/ gate'[g] = gate[g]
               \/ /\ IsMerge(g) /\ gate'[g].pair = None
                  /\ gate'[g].desired # "success"
                  /\ gate'[g].quarantined => gate'[g].desired \in {"failure", "cancelled"}
    PROVE  SafeInv'
<1>1. \A g \in GateId :
         /\ gate'[g].pair = gate[g].pair
         /\ ~IsMerge(g) => /\ gate'[g].active = gate[g].active
                           /\ gate'[g].quarantined = gate[g].quarantined
                           /\ gate'[g].desired = "success" => Backed(g)
         /\ IsMerge(g) => gate'[g].desired # "success"
         /\ gate'[g].quarantined => gate'[g].desired \in {"failure", "cancelled"}
  BY Unmoved DEF SafeInv, MergeUnpaired
<1> QED
  BY <1>1, Frame, Unmoved

\* A merge_group webhook moves no gate of a pull request.
LEMMA MergeGroupSafe ==
    ASSUME SafeInv, TypeOK', NEW ref \in MergeRefs, NEW head \in Heads,
           RequestMergeGroup(ref, head) \/ DestroyMergeGroup(ref, head)
    PROVE  SafeInv'
<1>1. pair' = pair /\ dispatch' = dispatch /\ TypeOK
  BY DEF RequestMergeGroup, DestroyMergeGroup, SafeInv
<1>2. \A g \in MergeGate(ref) : g \in GateId /\ IsMerge(g)
  BY DEF MergeGate, IsMerge
<1>3. \A g \in GateId : IsMerge(g) => gate[g].pair = None
  BY DEF SafeInv, MergeUnpaired
<1>4. ASSUME NEW g \in MergeGate(ref), NEW desired \in {"revoked", "cancelled"},
             NEW active \in BOOLEAN, ReviseMergeGate(g, desired, active),
             desired = "revoked" => ~gate[g].quarantined
      PROVE  SafeInv'
  <2>1. gate[g] \in GateRow /\ gate' = [gate EXCEPT ![g] = RevisedAs(gate[g], desired, active)]
    BY <1>1, <1>2, <1>4 DEF TypeOK, ReviseMergeGate
  <2>2. \A h \in GateId : h # g => gate'[h] = gate[h]
    BY <1>1, <2>1 DEF TypeOK
  <2>3. gate'[g] = RevisedAs(gate[g], desired, active)
    BY <1>1, <1>2, <2>1 DEF TypeOK
  <2>4. /\ gate'[g].pair = None /\ gate'[g].desired = desired
        /\ gate'[g].quarantined = gate[g].quarantined
    BY <1>2, <1>3, <2>1, <2>3, GateFrameAs
  <2> QED
    BY <1>1, <1>2, <1>4, <2>2, <2>4, MergeFrame
<1>5. ASSUME NEW old \in {{}, MergeGate(ref)}, NEW active \in BOOLEAN,
             NEW desired \in {"revoked", "cancelled"},
             InsertMergeGate(ref, old, NewGate(None, head, active, desired))
      PROVE  SafeInv'
  <2> DEFINE new == [key |-> ref, epoch |-> NextMergeEpoch(ref)]
             row == NewGate(None, head, active, desired)
  <2>1. gate' = [g \in GateId |->
              IF g = new THEN row
              ELSE IF g \in old THEN RevisedAs(gate[g], "cancelled", FALSE)
              ELSE gate[g]]
    BY <1>5 DEF InsertMergeGate
  <2>2. IsMerge(new)
    BY DEF IsMerge
  <2>3. row.pair = None /\ row.desired = desired /\ ~row.quarantined
    BY DEF NewGate
  <2> HIDE DEF new, row
  <2>4. ASSUME NEW g \in old
        PROVE  LET r == RevisedAs(gate[g], "cancelled", FALSE)
               IN  IsMerge(g) /\ r.pair = None /\ r.desired = "cancelled"
    <3>1. g \in GateId /\ gate[g] \in GateRow /\ IsMerge(g)
      BY <1>1, <1>2 DEF TypeOK
    <3> QED
      BY <1>3, <3>1 DEF GateRow, Revised, RevisedAs
  <2>5. ASSUME NEW g \in GateId
        PROVE  \/ gate'[g] = gate[g]
               \/ /\ IsMerge(g) /\ gate'[g].pair = None
                  /\ gate'[g].desired # "success"
                  /\ gate'[g].quarantined => gate'[g].desired \in {"failure", "cancelled"}
    BY <2>1, <2>2, <2>3, <2>4
  <2> QED
    BY <1>1, <2>5, MergeFrame
<1>6. CASE RequestMergeGroup(ref, head)
  BY <1>4, <1>5, <1>6 DEF RequestMergeGroup
<1>7. CASE DestroyMergeGroup(ref, head)
  BY <1>4, <1>5, <1>7 DEF DestroyMergeGroup
<1> QED
  BY <1>6, <1>7

\* A commit of a pair's gate, under a lease that still holds.
LEMMA CommitSafe ==
    ASSUME SafeInv, TypeOK', NEW l \in PairLeases,
           NEW desired \in {"pending", "success", "failure"},
           CommitPairGate(l, desired)
    PROVE  SafeInv'
<1> DEFINE gates == {g \in Bound(l.pair) : g.epoch = l.epoch}
           state == Committed(<<l.pair, l.epoch>>, desired)
<1>1. /\ pair' = [pair EXCEPT ![l.pair] = Unleased(@)]
      /\ gate' = [g \in GateId |->
              IF g \in gates THEN Revised(gate[g], state) ELSE gate[g]]
      /\ dispatch' = dispatch
  BY DEF CommitPairGate
<1>2. /\ l.pair \in PairId /\ pair[l.pair].epoch = l.epoch
      /\ pair[l.pair].active /\ ~pair[l.pair].quarantined
  BY LeaseTypes DEF CommitPairGate, HoldsPair
<1>3. state = "success" => dispatch[<<l.pair, l.epoch>>].state = "sent"
  BY DEF Committed
<1>4. TypeOK
  BY DEF SafeInv
<1>5. ASSUME NEW p \in PairId
      PROVE  /\ pair'[p].epoch = pair[p].epoch
             /\ pair'[p].active = pair[p].active
             /\ pair'[p].quarantined = pair[p].quarantined
  BY <1>1, <1>2, <1>4, PairRows DEF TypeOK
<1>6. ASSUME NEW g \in gates
      PROVE  /\ g \in GateId /\ gate[g].active /\ gate[g].pair = l.pair
             /\ ~gate[g].quarantined /\ g.epoch = l.epoch /\ ~IsMerge(g)
  <2>1. g \in GateId /\ gate[g].active /\ gate[g].pair = l.pair /\ g.epoch = l.epoch
    BY DEF Bound, BoundTo
  <2> QED
    BY <1>2, <2>1, BoundGate, KeyKinds
<1> HIDE DEF gates, state
<1>7. ASSUME NEW g \in GateId
      PROVE  /\ gate'[g].pair = gate[g].pair
             /\ gate'[g].active = gate[g].active
             /\ gate'[g].quarantined = gate[g].quarantined
             /\ gate'[g].desired = "success" => Backed(g) /\ ~IsMerge(g)
             /\ gate'[g].quarantined => gate'[g].desired \in {"failure", "cancelled"}
  <2>1. CASE g \in gates
    <3>1. gate'[g] = Revised(gate[g], state) /\ gate[g] \in GateRow
      BY <1>1, <1>4, <2>1 DEF TypeOK
    <3>2. /\ gate'[g].pair = gate[g].pair /\ gate'[g].active = gate[g].active
          /\ gate'[g].quarantined = gate[g].quarantined /\ gate'[g].desired = state
      BY <3>1, GateFrame
    <3>3. state = "success" => Backed(g)
      BY <1>2, <1>3, <1>6, <2>1 DEF Backed
    <3> QED
      BY <1>6, <2>1, <3>2, <3>3
  <2>2. CASE g \notin gates
    BY <1>1, <2>2, Unmoved
  <2> QED
    BY <2>1, <2>2
<1> QED
  BY <1>1, <1>5, <1>7, Frame, Unmoved

\* A step that moves one dispatch of a current epoch outside quarantine.
LEMMA DispatchSafe ==
    ASSUME SafeInv, TypeOK', gate' = gate,
           NEW q \in PairId, ~pair[q].quarantined,
           \A p \in PairId : /\ pair'[p].epoch = pair[p].epoch
                             /\ pair'[p].active = pair[p].active
                             /\ pair'[p].quarantined = pair[p].quarantined,
           \A d \in EpochId : dispatch'[d].state = dispatch[d].state
                \/ (d = EpochOf(q) /\ (dispatch[d].state = "sent" =>
                                          dispatch'[d].state = "sent"))
    PROVE  SafeInv'
<1>1. ASSUME NEW p \in PairId, pair[p].epoch > 0, pair[p].quarantined
      PROVE  dispatch'[EpochOf(p)].state \in {"none", "abandoned"}
  <2>1. EpochOf(p) \in EpochId
    <3>1. pair[p].epoch \in 0 .. MaxEpoch
      BY DEF SafeInv, TypeOK, PairRow
    <3> QED
      BY <1>1, <3>1, StoreAssumption DEF EpochOf, EpochId, Epochs
  <2>2. EpochOf(p) # EpochOf(q)
    BY <1>1 DEF EpochOf
  <2>3. dispatch'[EpochOf(p)].state = dispatch[EpochOf(p)].state
    BY <2>1, <2>2
  <2> QED
    BY <1>1, <2>3, Unmoved
<1>2. \A g \in GateId :
         /\ gate'[g].pair = gate[g].pair
         /\ ~IsMerge(g) => /\ gate'[g].active = gate[g].active
                           /\ gate'[g].quarantined = gate[g].quarantined
                           /\ gate'[g].desired = "success" => Backed(g)
         /\ IsMerge(g) => gate'[g].desired # "success"
         /\ gate'[g].quarantined => gate'[g].desired \in {"failure", "cancelled"}
  BY Unmoved
<1> QED
  BY <1>1, <1>2, Frame

\* The operations under a pair lease keep SafeInv.
LEMMA PairOperationSafe ==
    ASSUME SafeInv, TypeOK', PairOperation
    PROVE  SafeInv'
<1>0. TypeOK
  BY DEF SafeInv
<1>1. ASSUME NEW p \in PairId, NEW e \in Epochs, NEW w \in Workers,
             AcquirePairLease(p, e, w)
      PROVE  SafeInv'
  <2>1. \A q \in PairId : /\ pair'[q].epoch = pair[q].epoch
                          /\ pair'[q].active = pair[q].active
                          /\ pair'[q].quarantined = pair[q].quarantined
    BY <1>0, <1>1 DEF AcquirePairLease, TypeOK, PairRow
  <2>2. gate' = gate /\ dispatch' = dispatch /\ ~pair[p].quarantined
    BY <1>1 DEF AcquirePairLease, PairLeasable
  <2> QED
    BY <2>1, <2>2, DispatchSafe
<1>2. ASSUME NEW l \in PairLeases, NEW now \in Times, PlanDispatch(l, now)
      PROVE  SafeInv'
  <2>1. /\ l.pair \in PairId /\ <<l.pair, l.epoch>> = EpochOf(l.pair)
        /\ ~pair[l.pair].quarantined
    BY <1>2, LeaseTypes DEF PlanDispatch, HoldsPair, EpochOf
  <2>2. pair' = pair /\ gate' = gate
    BY <1>2 DEF PlanDispatch
  <2>3. \A d \in EpochId : dispatch'[d].state = dispatch[d].state
           \/ (d = EpochOf(l.pair) /\ dispatch[d].state # "sent")
    BY <1>0, <1>2, <2>1 DEF PlanDispatch, TypeOK, DispatchRow
  <2> QED
    BY <2>1, <2>2, <2>3, DispatchSafe
<1>3. ASSUME NEW l \in PairLeases, BeginDispatchAttempt(l)
      PROVE  SafeInv'
  <2>1. /\ l.pair \in PairId /\ <<l.pair, l.epoch>> = EpochOf(l.pair)
        /\ ~pair[l.pair].quarantined
    BY <1>3, LeaseTypes DEF BeginDispatchAttempt, MayBegin, HoldsPair, EpochOf
  <2>2. pair' = pair /\ gate' = gate
    BY <1>3 DEF BeginDispatchAttempt
  <2>3. \A d \in EpochId : dispatch'[d].state = dispatch[d].state
           \/ (d = EpochOf(l.pair) /\ dispatch[d].state # "sent")
    BY <1>0, <1>3, <2>1 DEF BeginDispatchAttempt, MayBegin, TypeOK, DispatchRow
  <2> QED
    BY <2>1, <2>2, <2>3, DispatchSafe
<1>4. ASSUME NEW l \in PairLeases, NEW id \in Ids, NEW at \in Times,
             AdoptDispatch(l, id, at)
      PROVE  SafeInv'
  <2>1. /\ l.pair \in PairId /\ <<l.pair, l.epoch>> = EpochOf(l.pair)
        /\ ~pair[l.pair].quarantined
        /\ dispatch[EpochOf(l.pair)].state = "attempting"
    BY <1>4, LeaseTypes DEF AdoptDispatch, Adoptable, EpochOf
  <2>2. gate' = gate
    BY <1>4 DEF AdoptDispatch
  <2>3. \A d \in EpochId : d # EpochOf(l.pair) => dispatch'[d] = dispatch[d]
    BY <1>0, <1>4, <2>1 DEF AdoptDispatch, TypeOK
  <2>4. pair' = [pair EXCEPT ![l.pair] =
                   IF @.fence = l.fence /\ @.owner = l.worker
                   THEN Unleased(@) ELSE @]
    BY <1>4 DEF AdoptDispatch
  <2>5. \A q \in PairId : /\ pair'[q].epoch = pair[q].epoch
                          /\ pair'[q].active = pair[q].active
                          /\ pair'[q].quarantined = pair[q].quarantined
    BY <1>0, <2>1, <2>4, PairRows DEF TypeOK
  <2> QED
    BY <2>1, <2>2, <2>3, <2>5, DispatchSafe
<1> QED
  BY <1>1, <1>2, <1>3, <1>4, CommitSafe DEF PairOperation

\* A step that changes one gate, which keeps its pair, its activity and its
\* quarantine, and either keeps its desired state or fails.
LEMMA GateSafe ==
    ASSUME SafeInv, TypeOK', NEW g \in GateId, NEW row,
           gate' = [gate EXCEPT ![g] = row],
           row.pair = gate[g].pair, row.active = gate[g].active,
           row.quarantined = gate[g].quarantined,
           row.desired \in {gate[g].desired, "failure"},
           pair' = pair, dispatch' = dispatch
    PROVE  SafeInv'
<1>1. ASSUME NEW h \in GateId
      PROVE  /\ gate'[h].pair = gate[h].pair
             /\ gate'[h].active = gate[h].active
             /\ gate'[h].quarantined = gate[h].quarantined
             /\ gate'[h].desired = "success" => Backed(h) /\ ~IsMerge(h)
             /\ gate'[h].quarantined => gate'[h].desired \in {"failure", "cancelled"}
  <2>1. CASE h = g
    <3>1. gate'[h] = row
      BY <2>1 DEF SafeInv, TypeOK
    <3> QED
      BY <2>1, <3>1, Unmoved
  <2>2. CASE h # g
    <3>1. gate'[h] = gate[h]
      BY <2>2 DEF SafeInv, TypeOK
    <3> QED
      BY <3>1, Unmoved
  <2> QED
    BY <2>1, <2>2
<1> QED
  BY <1>1, Frame, Unmoved

\* The operations under a gate lease keep SafeInv.
LEMMA GateOperationSafe ==
    ASSUME SafeInv, TypeOK', GateOperation
    PROVE  SafeInv'
<1>0. \A g \in GateId : gate[g] \in GateRow
  BY DEF SafeInv, TypeOK
<1>1. ASSUME NEW g \in GateId, NEW w \in Workers, NEW v,
             AcquireGateLease(g, v, w)
      PROVE  SafeInv'
  <2> DEFINE row == [gate[g] EXCEPT !.fence = @ + 1, !.owner = w, !.live = TRUE]
  <2>1. gate' = [gate EXCEPT ![g] = row] /\ pair' = pair /\ dispatch' = dispatch
    BY <1>1 DEF AcquireGateLease, SafeInv, TypeOK
  <2>2. /\ row.pair = gate[g].pair /\ row.active = gate[g].active
        /\ row.quarantined = gate[g].quarantined /\ row.desired = gate[g].desired
    BY <1>0 DEF GateRow
  <2> HIDE DEF row
  <2> QED
    BY <2>1, <2>2, GateSafe
<1>2. ASSUME NEW l \in GateLeases, NEW run, FailPublication(l, run)
      PROVE  SafeInv'
  <2> DEFINE row == [Revised(gate[l.gate], "failure") EXCEPT
                        !.checkRun = Coalesce(run, gate[l.gate].checkRun)]
  <2>1. l.gate \in GateId /\ gate[l.gate] \in GateRow
    BY <1>0, LeaseTypes
  <2>2. gate' = [gate EXCEPT ![l.gate] = row] /\ pair' = pair /\ dispatch' = dispatch
    BY <1>2 DEF FailPublication
  <2>3. /\ row.pair = gate[l.gate].pair /\ row.active = gate[l.gate].active
        /\ row.quarantined = gate[l.gate].quarantined /\ row.desired = "failure"
    BY <2>1 DEF GateRow, Revised
  <2> HIDE DEF row
  <2> QED
    BY <2>1, <2>2, <2>3, GateSafe
<1>3. ASSUME NEW l \in GateLeases, NEW run,
             CommitGatePublication(l, run, gate[l.gate].desired)
      PROVE  SafeInv'
  <2> DEFINE row == [Unleased(gate[l.gate]) EXCEPT !.checkRun = run,
                        !.pubState = gate[l.gate].desired, !.pubRev = l.revision]
  <2>1. l.gate \in GateId /\ gate[l.gate] \in GateRow
    BY <1>0, LeaseTypes
  <2>2. gate' = [gate EXCEPT ![l.gate] = row] /\ pair' = pair /\ dispatch' = dispatch
    BY <1>3 DEF CommitGatePublication
  <2>3. /\ row.pair = gate[l.gate].pair /\ row.active = gate[l.gate].active
        /\ row.quarantined = gate[l.gate].quarantined
        /\ row.desired = gate[l.gate].desired
    BY <2>1 DEF GateRow, Unleased
  <2> HIDE DEF row
  <2> QED
    BY <2>1, <2>2, <2>3, GateSafe
<1>4. ASSUME NEW l \in GateLeases, NEW run, SupersedeStaleGatePublication(l, run)
      PROVE  SafeInv'
  <2> DEFINE row == [Revised(gate[l.gate], gate[l.gate].desired) EXCEPT
                        !.checkRun = Coalesce(gate[l.gate].checkRun, run)]
  <2>1. l.gate \in GateId /\ gate[l.gate] \in GateRow
    BY <1>0, LeaseTypes
  <2>2. gate' = [gate EXCEPT ![l.gate] = row] /\ pair' = pair /\ dispatch' = dispatch
    BY <1>4 DEF SupersedeStaleGatePublication
  <2>3. /\ row.pair = gate[l.gate].pair /\ row.active = gate[l.gate].active
        /\ row.quarantined = gate[l.gate].quarantined
        /\ row.desired = gate[l.gate].desired
    BY <2>1 DEF GateRow, Revised
  <2> HIDE DEF row
  <2> QED
    BY <2>1, <2>2, <2>3, GateSafe
<1> QED
  BY <1>1, <1>2, <1>3, <1>4 DEF GateOperation, ExpireSuccess, RejectGatePublication

\* A step that leaves pairs, gates and dispatches alone keeps SafeInv.
LEMMA QuietSafe ==
    ASSUME SafeInv, TypeOK', gate' = gate, pair' = pair, dispatch' = dispatch
    PROVE  SafeInv'
BY DEF SafeInv, MergeUnpaired, ActiveGateMatchesPair, SuccessIsCurrent,
       QuarantineFailsClosed, GateOf, EpochOf

\* Expiring leases and deadlines keep SafeInv.
LEMMA TimeSafe ==
    ASSUME SafeInv, TypeOK', Time
    PROVE  SafeInv'
<1>0. TypeOK
  BY DEF SafeInv
<1>1. ASSUME NEW p \in PairId, ExpirePairLease(p) PROVE SafeInv'
  <2>1. \A q \in PairId : /\ pair'[q].epoch = pair[q].epoch
                          /\ pair'[q].active = pair[q].active
                          /\ pair'[q].quarantined = pair[q].quarantined
    BY <1>0, <1>1 DEF ExpirePairLease, TypeOK, PairRow
  <2>2. gate' = gate /\ dispatch' = dispatch
    BY <1>1 DEF ExpirePairLease
  <2> QED
    BY <2>1, <2>2, Frame, Unmoved
<1>2. ASSUME NEW g \in GateId, ExpireGateLease(g) PROVE SafeInv'
  <2> DEFINE row == [gate[g] EXCEPT !.live = FALSE]
  <2>1. gate' = [gate EXCEPT ![g] = row] /\ pair' = pair /\ dispatch' = dispatch
    BY <1>2 DEF ExpireGateLease
  <2>2. /\ row.pair = gate[g].pair /\ row.active = gate[g].active
        /\ row.quarantined = gate[g].quarantined /\ row.desired = gate[g].desired
    BY <1>0 DEF GateRow, TypeOK
  <2> HIDE DEF row
  <2> QED
    BY <2>1, <2>2, GateSafe
<1>3. ASSUME NEW i \in outbox, ExpireClaim(i) PROVE SafeInv'
  BY <1>3, QuietSafe DEF ExpireClaim
<1>4. ASSUME NEW d \in EpochId, PassDeadline(d) PROVE SafeInv'
  <2>1. gate' = gate /\ pair' = pair
    BY <1>4 DEF PassDeadline
  <2>2. \A c \in EpochId : dispatch'[c].state = dispatch[c].state
    BY <1>0, <1>4 DEF PassDeadline, TypeOK, DispatchRow
  <2>3. ASSUME NEW p \in PairId, pair[p].epoch > 0, pair[p].quarantined
        PROVE  dispatch'[EpochOf(p)].state \in {"none", "abandoned"}
    <3>1. pair[p].epoch \in 0 .. MaxEpoch
      BY <1>0 DEF TypeOK, PairRow
    <3>2. EpochOf(p) \in EpochId
      BY <2>3, <3>1, StoreAssumption DEF EpochOf, EpochId, Epochs
    <3> QED
      BY <2>2, <2>3, <3>2, Unmoved
  <2> QED
    BY <2>1, <2>2, <2>3, Frame, Unmoved
<1> QED
  BY <1>1, <1>2, <1>3, <1>4 DEF Time

\* Claims and completions keep SafeInv.
LEMMA OutboxOperationSafe ==
    ASSUME SafeInv, TypeOK', OutboxOperation
    PROVE  SafeInv'
BY QuietSafe DEF OutboxOperation, ClaimOutbox, CompleteOutbox, FailOutbox

-----------------------------------------------------------------------------
(* Project, the heart of ingest and reconcile: what it does to a pair and  *)
(* to a gate, then why that is safe.                                       *)

\* What a report does to the rows of its pull request.
LEMMA PairAfterFacts ==
    ASSUME TypeOK, NEW r \in PullRef, NEW p \in PairId
    PROVE  /\ PairAfter(p, r).active <=> (p = r.pair /\ IsOpen(r))
           /\ (p = r.pair /\ ~SamePair(r)) =>
                 /\ PairAfter(p, r).epoch = NextEpoch(p.pull)
                 /\ PairAfter(p, r).quarantined = FALSE
           /\ ~(p = r.pair /\ ~SamePair(r)) =>
                 /\ PairAfter(p, r).epoch = pair[p].epoch
                 /\ PairAfter(p, r).quarantined = pair[p].quarantined
<1>1. pair[p] \in PairRow
  BY DEF TypeOK
<1>2. Fenced(pair[p]) \in PairRow
  BY <1>1, PairRows
<1>3. CASE p = r.pair /\ SamePair(r)
  <2>1. PairAfter(p, r) = [Fenced(pair[p]) EXCEPT !.draft = r.draft, !.state = r.state,
                                      !.srcAt = r.at, !.active = IsOpen(r)]
    BY <1>3 DEF PairAfter
  <2>2. /\ PairAfter(p, r).epoch = Fenced(pair[p]).epoch
        /\ PairAfter(p, r).quarantined = Fenced(pair[p]).quarantined
    BY <1>2, <2>1 DEF PairRow
  <2>3. PairAfter(p, r).active <=> IsOpen(r)
    <3> DEFINE open == IsOpen(r)
    <3>1. open \in BOOLEAN
      BY DEF IsOpen
    <3>2. PairAfter(p, r) = [Fenced(pair[p]) EXCEPT !.draft = r.draft, !.state = r.state,
                                      !.srcAt = r.at, !.active = open]
      BY <2>1
    <3> HIDE DEF open
    <3>3. PairAfter(p, r).active = open
      BY <1>2, <3>1, <3>2 DEF PairRow
    <3> QED
      BY <3>1, <3>3 DEF open
  <2> QED
    BY <1>1, <1>3, <2>2, <2>3, PairFrame
<1>4. CASE p = r.pair /\ ~SamePair(r)
  <2>1. PairAfter(p, r) = OpenEpoch(p, r)
    BY <1>4 DEF PairAfter
  <2>2. PairAfter(p, r).active = IsOpen(r)
    BY <2>1 DEF OpenEpoch
  <2>3. /\ PairAfter(p, r).epoch = NextEpoch(p.pull)
        /\ PairAfter(p, r).quarantined = FALSE
    BY <2>1 DEF OpenEpoch
  <2> QED
    BY <1>4, <2>2, <2>3
<1>5. CASE p # r.pair /\ pair[p].active
  <2>1. PairAfter(p, r) = [Fenced(pair[p]) EXCEPT !.active = FALSE]
    BY <1>5 DEF PairAfter
  <2>2. /\ ~PairAfter(p, r).active
        /\ PairAfter(p, r).epoch = Fenced(pair[p]).epoch
        /\ PairAfter(p, r).quarantined = Fenced(pair[p]).quarantined
    BY <1>2, <2>1 DEF PairRow
  <2> QED
    BY <1>1, <1>5, <2>2, PairFrame
<1>6. CASE p # r.pair /\ ~pair[p].active
  BY <1>6 DEF PairAfter
<1> QED
  BY <1>3, <1>4, <1>5, <1>6

\* What a report does to the gates it touches.
LEMMA GateAfterFacts ==
    ASSUME TypeOK, NEW r \in PullRef, NEW g \in GateId
    PROVE  /\ GateAfter(g, r).desired # "success"
           /\ SamePair(r) => /\ GateAfter(g, r).active <=> IsOpen(r)
                             /\ GateAfter(g, r).pair = gate[g].pair
                             /\ GateAfter(g, r).quarantined = gate[g].quarantined
                             /\ GateAfter(g, r).desired = DesiredAfter(r)
           /\ (~SamePair(r) /\ g = NewGateId(r)) =>
                             /\ GateAfter(g, r).active <=> IsOpen(r)
                             /\ GateAfter(g, r).pair = r.pair
                             /\ GateAfter(g, r).quarantined = FALSE
           /\ (~SamePair(r) /\ g # NewGateId(r)) =>
                             /\ ~GateAfter(g, r).active
                             /\ GateAfter(g, r).desired = "failure"
<1>1. gate[g] \in GateRow
  BY DEF TypeOK
<1>2. CASE SamePair(r)
  <2>1. GateAfter(g, r) = RevisedAs(gate[g], DesiredAfter(r), IsOpen(r))
    BY <1>2 DEF GateAfter
  <2>2. /\ GateAfter(g, r).active <=> IsOpen(r)
        /\ GateAfter(g, r).pair = gate[g].pair
        /\ GateAfter(g, r).quarantined = gate[g].quarantined
        /\ GateAfter(g, r).desired = DesiredAfter(r)
    BY <1>1, <2>1 DEF GateRow, Revised, RevisedAs, IsOpen
  <2>3. DesiredAfter(r) # "success"
    BY DEF DesiredAfter
  <2> QED
    BY <1>2, <2>2, <2>3
<1>3. CASE ~SamePair(r) /\ g = NewGateId(r)
  BY <1>3 DEF GateAfter, NewGate, IsOpen
<1>4. CASE ~SamePair(r) /\ g # NewGateId(r)
  <2>1. GateAfter(g, r) = RevisedAs(gate[g], "failure", FALSE)
    BY <1>4 DEF GateAfter
  <2> QED
    BY <1>1, <1>4, <2>1 DEF GateRow, Revised, RevisedAs
<1> QED
  BY <1>2, <1>3, <1>4

\* A report touches gates of its own pull request only.
LEMMA TouchedKey ==
    ASSUME SafeInv, NEW r \in PullRef, NEW g \in TouchedBy(r), g \in GateId
    PROVE  g.key = r.pair.pull
<1>1. CASE g \in BoundTo(Current(r.pair.pull))
  <2>1. gate[g].active /\ gate[g].pair \in PairId /\ gate[g].pair.pull = r.pair.pull
    BY <1>1 DEF BoundTo, Current
  <2>2. g = GateOf(gate[g].pair)
    BY <2>1, BoundGate
  <2> QED
    BY <2>1, <2>2 DEF GateOf
<1>2. CASE g = NewGateId(r)
  BY <1>2 DEF NewGateId
<1> QED
  BY <1>1, <1>2 DEF TouchedBy

\* Applying reports and closing pairs moves pairs and gates together.
LEMMA ProjectSafe ==
    ASSUME SafeInv, TypeOK', NEW refs \in SUBSET PullRef,
           \A r \in refs : HasRoom(r),
           \A r, s \in refs : r.pair.pull = s.pair.pull => r = s,
           NEW closing \in SUBSET PairId,
           \A p \in closing : \A r \in refs : p.pull # r.pair.pull,
           NEW more, Project(refs, closing, more)
    PROVE  SafeInv'
<1> DEFINE refOf(n)   == CHOOSE r \in refs : r.pair.pull = n
           causeOf(g) == CHOOSE r \in refs : g \in TouchedBy(r)
           moved      == {r.pair.pull : r \in refs}
           touched    == {g \in GateId : \E r \in refs : g \in TouchedBy(r)}
           shut       == BoundTo(closing)
<1>1. /\ pair' = [p \in PairId |->
              IF p \in closing
              THEN [Fenced(pair[p]) EXCEPT !.active = FALSE, !.state = "closed"]
              ELSE IF p.pull \in moved THEN PairAfter(p, refOf(p.pull))
              ELSE pair[p]]
      /\ gate' = [g \in GateId |->
              IF g \in shut THEN RevisedAs(gate[g], "failure", FALSE)
              ELSE IF g \in touched THEN GateAfter(g, causeOf(g))
              ELSE gate[g]]
      /\ dispatch' = dispatch
  BY DEF Project
<1>2. TypeOK
  BY DEF SafeInv
<1>3. \A p \in closing : p.pull \notin moved
  OBVIOUS
<1>4. ASSUME NEW r \in refs
      PROVE  /\ r \in PullRef /\ r.pair \in PairId
             /\ r.pair.pull \in moved /\ refOf(r.pair.pull) = r
             /\ r.pair \notin closing
             /\ \A g \in GateId : g \in TouchedBy(r) =>
                   g \in touched /\ causeOf(g) = r /\ g.key = r.pair.pull
  <2>1. r \in PullRef /\ r.pair \in PairId
    BY DEF PullRef
  <2>2. r.pair.pull \in moved /\ refOf(r.pair.pull) = r
    OBVIOUS
  <2>3. ASSUME NEW g \in GateId, g \in TouchedBy(r)
        PROVE  g \in touched /\ causeOf(g) = r /\ g.key = r.pair.pull
    <3>1. g.key = r.pair.pull
      BY <2>1, <2>3, TouchedKey
    <3>2. g \in touched
      BY <2>3
    <3>3. causeOf(g) \in refs /\ g \in TouchedBy(causeOf(g))
      BY <2>3
    <3>4. g.key = causeOf(g).pair.pull
      BY <3>3, TouchedKey
    <3> QED
      BY <3>1, <3>2, <3>3, <3>4
  <2> QED
    BY <2>1, <2>2, <2>3
<1>5. \A n \in moved : \E r \in refs : r.pair.pull = n
  OBVIOUS
<1>6. \A g \in touched : \E r \in refs : g \in TouchedBy(r)
  OBVIOUS
<1>7. \A g \in GateId : g \in shut <=> (gate[g].active /\ gate[g].pair \in closing)
  BY DEF BoundTo
<1> HIDE DEF refOf, causeOf, moved, touched, shut
\* The pairs.
<1>8. ASSUME NEW r \in refs, NEW p \in PairId, p.pull = r.pair.pull
      PROVE  /\ pair'[p].active <=> (p = r.pair /\ IsOpen(r))
             /\ (p = r.pair /\ ~SamePair(r)) =>
                   /\ pair'[p].epoch = NextEpoch(p.pull)
                   /\ pair'[p].quarantined = FALSE
             /\ ~(p = r.pair /\ ~SamePair(r)) =>
                   /\ pair'[p].epoch = pair[p].epoch
                   /\ pair'[p].quarantined = pair[p].quarantined
  <2>1. r \in PullRef /\ p.pull \in moved /\ refOf(p.pull) = r
    BY <1>4, <1>8
  <2>2. pair'[p] = PairAfter(p, r)
    BY <1>1, <1>3, <2>1
  <2>3. /\ PairAfter(p, r).active <=> (p = r.pair /\ IsOpen(r))
        /\ (p = r.pair /\ ~SamePair(r)) =>
              /\ PairAfter(p, r).epoch = NextEpoch(p.pull)
              /\ PairAfter(p, r).quarantined = FALSE
        /\ ~(p = r.pair /\ ~SamePair(r)) =>
              /\ PairAfter(p, r).epoch = pair[p].epoch
              /\ PairAfter(p, r).quarantined = pair[p].quarantined
    BY <1>2, <2>1, PairAfterFacts, Zenon
  <2> QED
    BY <2>2, <2>3, Zenon
<1>9. ASSUME NEW p \in PairId, p \notin closing, p.pull \notin moved
      PROVE  pair'[p] = pair[p]
  BY <1>1, <1>9
<1>10. ASSUME NEW p \in closing
       PROVE  /\ ~pair'[p].active /\ pair'[p].epoch = pair[p].epoch
              /\ pair'[p].quarantined = pair[p].quarantined
  <2>1. pair'[p] = [Fenced(pair[p]) EXCEPT !.active = FALSE, !.state = "closed"]
    BY <1>1
  <2>2. pair[p] \in PairRow /\ Fenced(pair[p]) \in PairRow
    BY <1>2, PairRows DEF TypeOK
  <2>3. /\ ~pair'[p].active /\ pair'[p].epoch = Fenced(pair[p]).epoch
        /\ pair'[p].quarantined = Fenced(pair[p]).quarantined
    BY <2>1, <2>2 DEF PairRow
  <2> QED
    BY <2>2, <2>3, PairFrame
\* The gates.
<1>11. ASSUME NEW g \in shut
       PROVE  g \in GateId /\ g.key \notin moved /\ g \notin touched
  <2>1. g \in GateId /\ gate[g].active /\ gate[g].pair \in closing
    BY <1>7, BoundType DEF shut
  <2>2. g.key = gate[g].pair.pull
    BY <2>1, BoundGate DEF GateOf
  <2>3. g.key \notin moved
    BY <1>3, <2>1, <2>2
  <2> QED
    BY <1>4, <1>6, <2>1, <2>3
<1>12. ASSUME NEW g \in shut
       PROVE  /\ gate'[g].desired = "failure" /\ ~gate'[g].active
              /\ gate'[g].pair = gate[g].pair
  <2>1. g \in GateId /\ gate[g] \in GateRow
    BY <1>2, <1>11 DEF TypeOK
  <2>2. gate'[g] = RevisedAs(gate[g], "failure", FALSE)
    BY <1>1, <2>1
  <2> QED
    BY <2>1, <2>2 DEF GateRow, Revised, RevisedAs
<1>13. ASSUME NEW r \in refs, NEW g \in GateId, g \in TouchedBy(r)
       PROVE  /\ gate'[g].desired # "success"
              /\ SamePair(r) => /\ gate'[g].active <=> IsOpen(r)
                                /\ gate'[g].pair = gate[g].pair
                                /\ gate'[g].quarantined = gate[g].quarantined
                                /\ gate'[g].desired = DesiredAfter(r)
              /\ (~SamePair(r) /\ g = NewGateId(r)) =>
                                /\ gate'[g].active <=> IsOpen(r)
                                /\ gate'[g].pair = r.pair
                                /\ gate'[g].quarantined = FALSE
              /\ (~SamePair(r) /\ g # NewGateId(r)) =>
                                /\ ~gate'[g].active
                                /\ gate'[g].desired = "failure"
  <2>1. r \in PullRef /\ g \in touched /\ causeOf(g) = r
    BY <1>4, <1>13
  <2>2. g \notin shut
    BY <1>11, <2>1
  <2>3. gate'[g] = GateAfter(g, r)
    BY <1>1, <2>1, <2>2
  <2>4. /\ GateAfter(g, r).desired # "success"
        /\ SamePair(r) => /\ GateAfter(g, r).active <=> IsOpen(r)
                          /\ GateAfter(g, r).pair = gate[g].pair
                          /\ GateAfter(g, r).quarantined = gate[g].quarantined
                          /\ GateAfter(g, r).desired = DesiredAfter(r)
        /\ (~SamePair(r) /\ g = NewGateId(r)) =>
                          /\ GateAfter(g, r).active <=> IsOpen(r)
                          /\ GateAfter(g, r).pair = r.pair
                          /\ GateAfter(g, r).quarantined = FALSE
        /\ (~SamePair(r) /\ g # NewGateId(r)) =>
                          /\ ~GateAfter(g, r).active
                          /\ GateAfter(g, r).desired = "failure"
    BY <1>2, <2>1, GateAfterFacts, Zenon
  <2> QED
    BY <2>3, <2>4, Zenon
<1>14. ASSUME NEW g \in GateId, g \notin shut, g \notin touched
       PROVE  gate'[g] = gate[g]
  BY <1>1, <1>14
\* A pair whose active gate is not concerned is not concerned either.
<1>15. ASSUME NEW g \in GateId, g \notin shut, g \notin touched,
              gate[g].active, gate[g].pair \in PairId
       PROVE  pair'[gate[g].pair] = pair[gate[g].pair]
  <2>1. pair[gate[g].pair].active
    BY <1>15, BoundGate
  <2>2. gate[g].pair \notin closing
    BY <1>7, <1>15
  <2>3. gate[g].pair.pull \notin moved
    <3>1. SUFFICES ASSUME NEW r \in refs, r.pair.pull = gate[g].pair.pull
                   PROVE  FALSE
      BY <1>5
    <3>2. gate[g].pair \in Current(r.pair.pull)
      BY <1>15, <2>1, <3>1 DEF Current
    <3>3. g \in TouchedBy(r)
      BY <1>15, <3>2 DEF TouchedBy, BoundTo
    <3> QED
      BY <1>4, <1>15, <3>3
  <2> QED
    BY <1>9, <1>15, <2>2, <2>3
<1>16. MergeUnpaired'
  <2> SUFFICES ASSUME NEW g \in GateId, IsMerge(g) PROVE gate'[g].pair = None
    BY DEF MergeUnpaired, IsMerge
  <2>1. gate[g].pair = None
    BY DEF SafeInv, MergeUnpaired
  <2>2. g \notin shut
    BY <1>7, <2>1, KeyKinds
  <2>3. g \notin touched
    BY <1>4, <1>6, KeyKinds
  <2> QED
    BY <1>14, <2>1, <2>2, <2>3
<1>17. ASSUME NEW r \in refs, SamePair(r), NEW g \in GateId, g \in TouchedBy(r)
       PROVE  gate[g].active /\ gate[g].pair = r.pair
  <2>1. g \in BoundTo(Current(r.pair.pull))
    BY <1>17 DEF TouchedBy
  <2>2. gate[g].active /\ gate[g].pair \in PairId /\ pair[gate[g].pair].active
           /\ gate[g].pair.pull = r.pair.pull
    BY <2>1 DEF BoundTo, Current
  <2>3. pair[r.pair].active
    BY <1>17 DEF SamePair
  <2> QED
    BY <1>4, <2>2, <2>3 DEF SafeInv, ActiveGateMatchesPair
<1>18. ActiveGateMatchesPair'
  <2>1. ASSUME NEW p \in PairId, pair'[p].active
        PROVE  \/ /\ p \notin closing /\ p.pull \notin moved
                  /\ pair'[p] = pair[p] /\ pair[p].active
               \/ \E r \in refs : p = r.pair /\ IsOpen(r)
    <3>1. p \notin closing
      BY <1>10, <2>1
    <3>2. CASE p.pull \in moved
      <4>1. PICK r \in refs : r.pair.pull = p.pull
        BY <1>5, <3>2
      <4>2. p = r.pair /\ IsOpen(r)
        BY <1>8, <2>1, <4>1
      <4> QED
        BY <4>2
    <3>3. CASE p.pull \notin moved
      BY <1>9, <2>1, <3>1, <3>3
    <3> QED
      BY <3>2, <3>3
  <2>2. ASSUME NEW p \in PairId, NEW q \in PairId, p.pull = q.pull,
               pair'[p].active, pair'[q].active
        PROVE  p = q
    <3>1. CASE p.pull \in moved
      BY <1>4, <2>1, <2>2, <3>1
    <3>2. CASE p.pull \notin moved
      <4>1. pair[p].active /\ pair[q].active
        BY <1>4, <2>1, <2>2, <3>2
      <4> QED
        BY <2>2, <4>1 DEF SafeInv, ActiveGateMatchesPair
    <3> QED
      BY <3>1, <3>2
  <2>3. ASSUME NEW p \in PairId, pair'[p].active
        PROVE  GateOf(p)' \in GateId /\ gate'[GateOf(p)'].active
    <3>1. CASE p \notin closing /\ p.pull \notin moved
                 /\ pair'[p] = pair[p] /\ pair[p].active
      <4> DEFINE g == GateOf(p)
      <4>1. g \in GateId /\ gate[g].active /\ gate[g].pair = p
        BY <3>1, GateOfActive
      <4>2. GateOf(p)' = g /\ g.key = p.pull
        BY <3>1 DEF GateOf
      <4> HIDE DEF g
      <4>3. g \notin shut /\ g \notin touched
        BY <1>4, <1>6, <1>7, <3>1, <4>1, <4>2
      <4> QED
        BY <1>14, <4>1, <4>2, <4>3
    <3>2. ASSUME NEW r \in refs, p = r.pair, IsOpen(r), SamePair(r)
          PROVE  GateOf(p)' \in GateId /\ gate'[GateOf(p)'].active
      <4> DEFINE g == GateOf(p)
      <4>1. pair[p].active
        BY <3>2 DEF SamePair
      <4>2. g \in GateId /\ gate[g].active /\ gate[g].pair = p
        BY <4>1, GateOfActive
      <4>3. pair'[p].epoch = pair[p].epoch
        BY <1>8, <3>2
      <4>4. GateOf(p)' = g
        BY <4>3 DEF GateOf
      <4> HIDE DEF g
      <4>5. g \in TouchedBy(r)
        BY <3>2, <4>1, <4>2 DEF TouchedBy, BoundTo, Current
      <4>6. gate'[g].active
        BY <1>13, <3>2, <4>2, <4>5
      <4> QED
        BY <4>2, <4>4, <4>6
    <3>3. ASSUME NEW r \in refs, p = r.pair, IsOpen(r), ~SamePair(r)
          PROVE  GateOf(p)' \in GateId /\ gate'[GateOf(p)'].active
      <4>1. pair'[p].epoch = NextEpoch(p.pull)
        BY <1>8, <3>3
      <4>2. GateOf(p)' = NewGateId(r)
        BY <3>3, <4>1 DEF GateOf, NewGateId
      <4>3. NewGateId(r) \in TouchedBy(r)
        BY <3>3 DEF TouchedBy
      <4>4. NewGateId(r) \in GateId
        BY <1>2, <1>4, <4>3, TouchedType
      <4>5. gate'[NewGateId(r)].active
        BY <1>13, <3>3, <4>3, <4>4
      <4> QED
        BY <4>2, <4>4, <4>5
    <3> QED
      BY <2>1, <2>3, <3>1, <3>2, <3>3
  <2>4. ASSUME NEW g \in GateId, g.key \in Pulls, gate'[g].active
        PROVE  /\ gate'[g].pair \in PairId
               /\ pair'[gate'[g].pair].active
               /\ g = GateOf(gate[g].pair)'
               /\ gate'[g].quarantined = pair'[gate'[g].pair].quarantined
    <3>1. g \notin shut
      BY <1>12, <2>4
    <3>2. CASE g \notin touched
      <4>1. gate'[g] = gate[g] /\ gate[g].active
        BY <1>14, <2>4, <3>1, <3>2
      <4>2. gate[g].pair \in PairId
        BY <2>4, <4>1 DEF SafeInv, ActiveGateMatchesPair
      <4>3. /\ pair[gate[g].pair].active /\ g = GateOf(gate[g].pair)
            /\ gate[g].quarantined = pair[gate[g].pair].quarantined
        BY <4>1, <4>2, BoundGate
      <4>4. pair'[gate[g].pair] = pair[gate[g].pair]
        BY <1>15, <3>1, <3>2, <4>1, <4>2
      <4> QED
        BY <4>1, <4>2, <4>3, <4>4 DEF GateOf
    <3>3. ASSUME NEW r \in refs, g \in TouchedBy(r), SamePair(r)
          PROVE  /\ gate'[g].pair = r.pair
                 /\ pair'[r.pair].active
                 /\ g = [key |-> r.pair.pull, epoch |-> pair'[r.pair].epoch]
                 /\ gate'[g].quarantined = pair'[r.pair].quarantined
      <4>1. gate[g].active /\ gate[g].pair = r.pair
        BY <1>17, <3>3
      <4>2. r.pair \in PairId
        BY <1>4
      <4>3. gate'[g].pair = r.pair /\ IsOpen(r) /\ gate'[g].quarantined = gate[g].quarantined
        BY <1>13, <2>4, <3>3, <4>1
      <4>4. /\ pair'[r.pair].active /\ pair'[r.pair].epoch = pair[r.pair].epoch
            /\ pair'[r.pair].quarantined = pair[r.pair].quarantined
        BY <1>8, <3>3, <4>2, <4>3
      <4>5. g = GateOf(r.pair) /\ gate[g].quarantined = pair[r.pair].quarantined
        BY <1>4, <4>1, BoundGate
      <4> QED
        BY <4>3, <4>4, <4>5 DEF GateOf
    <3>4. ASSUME NEW r \in refs, g \in TouchedBy(r), ~SamePair(r)
          PROVE  /\ gate'[g].pair = r.pair
                 /\ pair'[r.pair].active
                 /\ g = [key |-> r.pair.pull, epoch |-> pair'[r.pair].epoch]
                 /\ gate'[g].quarantined = pair'[r.pair].quarantined
      <4>1. r.pair \in PairId
        BY <1>4
      <4>2. g = NewGateId(r)
        BY <1>13, <2>4, <3>4
      <4>3. gate'[g].pair = r.pair /\ IsOpen(r) /\ gate'[g].quarantined = FALSE
        BY <1>13, <2>4, <3>4, <4>2
      <4>4. /\ pair'[r.pair].active /\ pair'[r.pair].epoch = NextEpoch(r.pair.pull)
            /\ pair'[r.pair].quarantined = FALSE
        BY <1>8, <3>4, <4>1, <4>3
      <4> QED
        BY <4>2, <4>3, <4>4 DEF NewGateId
    <3>5. CASE g \in touched
      <4>1. PICK r \in refs : g \in TouchedBy(r)
        BY <1>6, <3>5
      <4>2. /\ gate'[g].pair = r.pair
            /\ pair'[r.pair].active
            /\ g = [key |-> r.pair.pull, epoch |-> pair'[r.pair].epoch]
            /\ gate'[g].quarantined = pair'[r.pair].quarantined
        BY <3>3, <3>4, <4>1
      <4> QED
        BY <1>4, <4>2 DEF GateOf
    <3> QED
      BY <3>2, <3>5
  <2> QED
    BY <2>2, <2>3, <2>4 DEF ActiveGateMatchesPair
<1>19. SuccessIsCurrent'
  <2> SUFFICES ASSUME NEW g \in GateId, gate'[g].desired = "success"
               PROVE  Backed(g)'
    BY DEF SuccessIsCurrent, Backed
  <2>1. g \notin shut
    BY <1>12
  <2>2. g \notin touched
    BY <1>6, <1>13
  <2>3. gate'[g] = gate[g] /\ Backed(g)
    BY <1>14, <2>1, <2>2, Unmoved
  <2>4. pair'[gate[g].pair] = pair[gate[g].pair]
    BY <1>15, <2>1, <2>2, <2>3 DEF Backed
  <2> QED
    BY <1>1, <2>3, <2>4 DEF Backed
<1>20. QuarantineFailsClosed'
  <2>1. ASSUME NEW p \in PairId, pair'[p].epoch > 0, pair'[p].quarantined
        PROVE  dispatch'[EpochOf(p)'].state \in {"none", "abandoned"}
    <3>1. pair'[p].epoch = pair[p].epoch /\ pair'[p].quarantined = pair[p].quarantined
      <4>1. CASE p \in closing
        BY <1>10, <4>1
      <4>2. CASE p \notin closing /\ p.pull \notin moved
        BY <1>9, <4>2
      <4>3. CASE p.pull \in moved
        <5>1. PICK r \in refs : r.pair.pull = p.pull
          BY <1>5, <4>3
        <5> QED
          BY <1>8, <2>1, <5>1
      <4> QED
        BY <4>1, <4>2, <4>3
    <3>2. EpochOf(p)' = EpochOf(p)
      BY <3>1 DEF EpochOf
    <3> QED
      BY <1>1, <2>1, <3>1, <3>2, Unmoved
  <2>2. ASSUME NEW g \in GateId, gate'[g].quarantined
        PROVE  gate'[g].desired \in {"failure", "cancelled"}
    <3>1. CASE g \in shut
      BY <1>12, <3>1
    <3>2. CASE g \notin shut /\ g \notin touched
      BY <1>14, <2>2, <3>2, Unmoved
    <3>3. CASE g \in touched
      <4>1. PICK r \in refs : g \in TouchedBy(r)
        BY <1>6, <3>3
      <4>3. CASE SamePair(r)
        <5>1. gate[g].active /\ gate[g].pair = r.pair
          BY <1>17, <4>1, <4>3
        <5>2. gate[g].quarantined /\ gate'[g].desired = DesiredAfter(r)
          BY <1>13, <2>2, <4>1, <4>3
        <5>3. pair[r.pair].quarantined
          BY <1>4, <5>1, <5>2, BoundGate
        <5> QED
          BY <5>2, <5>3 DEF DesiredAfter
      <4>4. CASE ~SamePair(r)
        BY <1>13, <2>2, <4>1, <4>4
      <4> QED
        BY <4>3, <4>4
    <3> QED
      BY <3>1, <3>2, <3>3
  <2> QED
    BY <2>1, <2>2 DEF QuarantineFailsClosed
<1> QED
  BY <1>16, <1>18, <1>19, <1>20 DEF SafeInv

\* A pull_request webhook keeps SafeInv.
LEMMA PullRequestSafe ==
    ASSUME SafeInv, TypeOK', NEW r \in PullRef, ApplyPullRequest(r)
    PROVE  SafeInv'
<1> DEFINE refs == IF Repeated(r) THEN {} ELSE {r}
<1>1. Project(refs, {}, {}) /\ HasRoom(r)
  BY DEF ApplyPullRequest
<1>2. /\ refs \in SUBSET PullRef /\ \A x \in refs : HasRoom(x)
      /\ \A x, y \in refs : x = y
  BY <1>1
<1> HIDE DEF refs
<1> QED
  BY <1>1, <1>2, ProjectSafe

\* Both steps of a reconciliation keep SafeInv.
LEMMA ReconciliationSafe ==
    ASSUME SafeInv, TypeOK', Reconciliation
    PROVE  SafeInv'
<1>1. CASE BeginRepositorySnapshot
  BY <1>1, QuietSafe DEF BeginRepositorySnapshot
<1>2. CASE \E token \in 1 .. generation, pulls \in Lists :
             ReconcileOpenPullRequests(token, pulls)
  <2>1. PICK token \in 1 .. generation, pulls \in Lists :
           ReconcileOpenPullRequests(token, pulls)
    BY <1>2
  <2>2. pulls \in SUBSET PullRef
    BY DEF Lists
  <2>3. \A r, s \in pulls : r.pair.pull = s.pair.pull => r = s
    BY DEF Lists
  <2> DEFINE listed  == {r.pair.pull : r \in pulls}
             applied == {r \in pulls : ~Outdated(r) /\ ~Repeated(r)}
             again   == {r \in pulls \ applied :
                           SamePair(r) /\ ~pair[r.pair].quarantined}
             closing == {p \in PairId : pair[p].active /\ p.pull \notin listed}
             more    == UNION {{Evaluation(r.pair, pair[r.pair].epoch, gate[g].revision) :
                                  g \in Bound(r.pair)} : r \in again}
  <2>4. (\A r \in applied : HasRoom(r)) /\ Project(applied, closing, more)
    BY <2>1 DEF ReconcileOpenPullRequests
  <2>5. /\ applied \in SUBSET PullRef /\ closing \in SUBSET PairId
        /\ \A r, s \in applied : r.pair.pull = s.pair.pull => r = s
        /\ \A p \in closing : \A r \in applied : p.pull # r.pair.pull
    BY <2>2, <2>3
  <2> HIDE DEF applied, closing, more
  <2> QED
    BY <2>4, <2>5, ProjectSafe
<1> QED
  BY <1>1, <1>2 DEF Reconciliation

\* An evidence webhook keeps SafeInv.
LEMMA EvidenceWebhookSafe ==
    ASSUME SafeInv, TypeOK', NEW input \in Inputs,
           \/ \E n \in Pulls, h \in Heads \cup {None} :
                 ApplyPullEvidence(n, h, input)
           \/ \E h \in Heads : ApplyShaEvidence(h, input)
    PROVE  SafeInv'
<1>1. CASE \E n \in Pulls, h \in Heads \cup {None} :
             ApplyPullEvidence(n, h, input)
  <2>1. PICK n \in Pulls, h \in Heads \cup {None} :
           ApplyPullEvidence(n, h, input)
    BY <1>1
  <2>2. PICK p \in Current(n) :
           ~pair[p].quarantined /\ InvalidateForEvidence({p}, input)
    BY <2>1 DEF ApplyPullEvidence
  <2>3. {p} \in SUBSET PairId /\ \A q \in {p} : ~pair[q].quarantined
    BY <2>2 DEF Current
  <2> QED
    BY <2>2, <2>3, EvidenceSafe
<1>2. CASE \E h \in Heads : ApplyShaEvidence(h, input)
  <2>1. PICK h \in Heads : ApplyShaEvidence(h, input)
    BY <1>2
  <2> DEFINE pairs == {p \in PairId : /\ p.head = h
                                      /\ pair[p].active /\ ~pair[p].quarantined}
  <2>2. InvalidateForEvidence(pairs, input)
    BY <2>1 DEF ApplyShaEvidence
  <2>3. pairs \in SUBSET PairId /\ \A q \in pairs : ~pair[q].quarantined
    OBVIOUS
  <2> HIDE DEF pairs
  <2> QED
    BY <2>2, <2>3, EvidenceSafe
<1> QED
  BY <1>1, <1>2

\* The empty store satisfies SafeInv.
LEMMA InitSafe == StoreInit => SafeInv
<1> SUFFICES ASSUME StoreInit PROVE SafeInv
  OBVIOUS
<1>1. TypeOK
  BY InitType
<1>2. \A p \in PairId : ~pair[p].active /\ pair[p].epoch = 0
  BY DEF StoreInit, NoPair
<1>3. \A g \in GateId : /\ ~gate[g].active /\ ~gate[g].quarantined
                        /\ gate[g].desired = "failure" /\ gate[g].pair = None
  BY DEF StoreInit, NoGate, NewGate
<1> QED
  BY <1>1, <1>2, <1>3 DEF SafeInv, MergeUnpaired, ActiveGateMatchesPair,
                          SuccessIsCurrent, QuarantineFailsClosed

\* SafeInv is inductive.
LEMMA NextSafe ==
    ASSUME SafeInv, [StoreNext]_store
    PROVE  SafeInv'
<1>1. TypeOK'
  BY NextType DEF SafeInv
<1>2. CASE Webhook
  BY <1>1, <1>2, PullRequestSafe, EvidenceWebhookSafe, PushSafe, MalformedSafe,
     MergeGroupSafe DEF Webhook
<1>3. CASE UNCHANGED store
  BY <1>1, <1>3, QuietSafe DEF store
<1> QED
  BY <1>1, <1>2, <1>3, ReconciliationSafe, PairOperationSafe, GateOperationSafe,
     OutboxOperationSafe, TimeSafe DEF StoreNext

\* SafeInv is an invariant of the store under any callers.
LEMMA Safety == StoreSpec => []SafeInv
BY InitSafe, NextSafe, PTL DEF StoreSpec

\* Under any webhooks, reconciliations and fenced worker calls, an active
\* pair has exactly one active gate, of its own epoch: the lookups of
\* revokeCurrentPairGate, commitPairGate and adoptDispatch always succeed.
THEOREM GateMatchesPair == StoreSpec => []ActiveGateMatchesPair
<1>1. SafeInv => ActiveGateMatchesPair
  BY DEF SafeInv
<1> QED
  BY <1>1, Safety, PTL

\* A gate wants success only while it is the active gate of the current
\* epoch of an active pair outside quarantine whose command was sent.
THEOREM SuccessStaysCurrent == StoreSpec => []SuccessIsCurrent
<1>1. SafeInv => SuccessIsCurrent
  BY DEF SafeInv
<1> QED
  BY <1>1, Safety, PTL

\* A quarantined epoch stays failed and its command stays abandoned.
THEOREM QuarantineHolds == StoreSpec => []QuarantineFailsClosed
<1>1. SafeInv => QuarantineFailsClosed
  BY DEF SafeInv
<1> QED
  BY <1>1, Safety, PTL

-----------------------------------------------------------------------------
(* History: epochs, the outbox and merge heads.                            *)


\* Every gate that is active exists.
ActiveIsRevised == \A g \in GateId : gate[g].active => gate[g].revision > 0

\* No gate of a pull request is ahead of the pull request's epochs, so that
\* the gate of the next epoch is a row that does not exist yet.
GateEpochsKnown ==
    \A g \in GateId : (g.key \in Pulls /\ gate[g].revision > 0) =>
        \E p \in Known(g.key) : g.epoch <= pair[p].epoch

\* The inductive invariant: a publication is queued under the revision that
\* the row takes only if the row of a new gate did not exist, and a late
\* merge group request is refused only if its head has a single gate.
HistoryInv ==
    /\ SafeInv
    /\ ActiveIsRevised
    /\ GateEpochsKnown
    /\ ActivePairIsNewest
    /\ NothingUnqueued
    /\ MergeHeadsRetireForGood

-----------------------------------------------------------------------------
(* Most transactions are tame: they leave the identity and the order of    *)
(* pairs and gates alone, and queue what they revise.                      *)

UniqueKeys == \A i, j \in outbox : i.key = j.key => i = j

TamePairs ==
    \A p \in PairId :
        /\ pair'[p].epoch = pair[p].epoch /\ pair'[p].srcAt = pair[p].srcAt
        /\ pair'[p].active = pair[p].active /\ pair'[p].draft = pair[p].draft
        /\ pair[p].quarantined => pair'[p].quarantined

\* A row kept its place in the history, or was revised with its publication.
TameRow(g) ==
    /\ gate'[g].head = gate[g].head
    /\ gate'[g].active => gate[g].active
    /\ \/ gate'[g].revision = gate[g].revision
       \/ /\ gate[g].revision > 0
          /\ gate'[g].revision = gate[g].revision + 1
          /\ <<"publish", g, gate[g].revision + 1>> \in Keys'

TameGates == \A g \in GateId : TameRow(g)

TameOutbox == Keys \subseteq Keys' /\ (UniqueKeys => UniqueKeys')

\* A tame transaction keeps the invariant.
LEMMA TameStep ==
    ASSUME HistoryInv, SafeInv', TamePairs, TameGates, TameOutbox
    PROVE  HistoryInv'
<1>0. TypeOK
  BY DEF HistoryInv, SafeInv
<1>1. ASSUME NEW g \in GateId
      PROVE  /\ gate[g].revision \in Nat /\ gate'[g].revision \in Nat
             /\ gate'[g].revision > 0 <=> gate[g].revision > 0
             /\ gate'[g].head = gate[g].head
             /\ gate'[g].active => gate[g].active
             /\ \/ gate'[g].revision = gate[g].revision
                \/ <<"publish", g, gate'[g].revision>> \in Keys'
  <2>1. gate[g].revision \in Nat
    BY <1>0 DEF TypeOK, GateRow
  <2>2. TameRow(g)
    BY DEF TameGates
  <2> QED
    BY <2>1, <2>2 DEF TameRow
<1>2. ActiveIsRevised'
  BY <1>1 DEF HistoryInv, ActiveIsRevised
<1>3. \A n : Known(n)' = Known(n)
  BY DEF Known, TamePairs
<1>4. GateEpochsKnown'
  <2> SUFFICES ASSUME NEW g \in GateId, g.key \in Pulls, gate'[g].revision > 0
               PROVE  \E p \in Known(g.key)' : g.epoch <= pair'[p].epoch
    BY DEF GateEpochsKnown
  <2>1. PICK p \in Known(g.key) : g.epoch <= pair[p].epoch
    BY <1>1 DEF HistoryInv, GateEpochsKnown
  <2>2. p \in PairId
    BY DEF Known
  <2> QED
    BY <1>3, <2>1, <2>2 DEF TamePairs
<1>5. ActivePairIsNewest'
  <2>1. ASSUME NEW p \in PairId, NEW q \in PairId, pair'[p].active, q \in Known(p.pull)'
        PROVE  pair'[q].epoch <= pair'[p].epoch /\ pair'[q].srcAt <= pair'[p].srcAt
    <3>1. pair[p].active /\ q \in Known(p.pull)
      BY <1>3, <2>1 DEF TamePairs
    <3>2. pair[q].epoch <= pair[p].epoch /\ pair[q].srcAt <= pair[p].srcAt
      BY <3>1 DEF HistoryInv, ActivePairIsNewest
    <3> QED
      BY <3>2 DEF TamePairs
  <2>2. ASSUME NEW p \in PairId, NEW q \in PairId, p.pull = q.pull,
               pair'[p].epoch = pair'[q].epoch, pair'[p].epoch > 0
        PROVE  p = q
    <3>1. pair[p].epoch = pair[q].epoch /\ pair[p].epoch > 0
      BY <2>2 DEF TamePairs
    <3> QED
      BY <2>2, <3>1 DEF HistoryInv, ActivePairIsNewest
  <2> QED
    BY <2>1, <2>2 DEF ActivePairIsNewest
<1>6. NothingUnqueued'
  <2>1. ASSUME NEW g \in GateId, gate'[g].revision > 0
        PROVE  <<"publish", g, gate'[g].revision>> \in Keys'
    <3>1. <<"publish", g, gate[g].revision>> \in Keys
      BY <1>1, <2>1 DEF HistoryInv, NothingUnqueued
    <3> QED
      BY <1>1, <3>1 DEF TameOutbox
  <2>2. ASSUME NEW p \in PairId,
               pair'[p].active /\ ~pair'[p].quarantined /\ ~pair'[p].draft
        PROVE  <<"dispatch", p, pair'[p].epoch>> \in Keys'
    <3>1. pair[p].active /\ ~pair[p].quarantined /\ ~pair[p].draft
      BY <2>2 DEF TamePairs
    <3>2. <<"dispatch", p, pair[p].epoch>> \in Keys
      BY <3>1 DEF HistoryInv, NothingUnqueued
    <3> QED
      BY <3>2 DEF TameOutbox, TamePairs
  <2>3. UniqueKeys'
    BY DEF HistoryInv, NothingUnqueued, UniqueKeys, TameOutbox
  <2> QED
    BY <2>1, <2>2, <2>3 DEF NothingUnqueued, UniqueKeys
<1>7. MergeHeadsRetireForGood'
  <2> SUFFICES ASSUME NEW g \in GateId, NEW h \in GateId, g.key = h.key,
                      g.key \in MergeRefs, gate'[g].revision > 0, gate'[h].revision > 0
               PROVE  /\ gate'[g].head = gate'[h].head => g = h
                      /\ (gate'[g].active /\ gate'[h].active) => g = h
    BY DEF MergeHeadsRetireForGood
  <2>1. /\ gate[g].head = gate[h].head => g = h
        /\ (gate[g].active /\ gate[h].active) => g = h
    BY <1>1 DEF HistoryInv, MergeHeadsRetireForGood
  <2> QED
    BY <1>1, <2>1
<1> QED
  BY <1>2, <1>4, <1>5, <1>6, <1>7 DEF HistoryInv

\* enqueue keeps what is queued, adds what it is given and never duplicates.
LEMMA EnqueueTame ==
    ASSUME NEW keys, Enqueue(keys)
    PROVE  TameOutbox /\ keys \subseteq Keys'
<1>1. outbox' = outbox \cup {NewItem(k) : k \in keys \ Keys}
  BY DEF Enqueue
<1>2. \A k : NewItem(k).key = k
  BY DEF NewItem
<1>3. Keys \subseteq Keys'
  BY <1>1 DEF Keys
<1>4. keys \subseteq Keys'
  <2> SUFFICES ASSUME NEW k \in keys, k \notin Keys PROVE k \in Keys'
    BY <1>3
  <2>1. NewItem(k) \in outbox'
    BY <1>1
  <2> QED
    BY <1>2, <2>1 DEF Keys
<1>5. ASSUME UniqueKeys, NEW i \in outbox', NEW j \in outbox', i.key = j.key
      PROVE  i = j
  <2>1. \A x \in outbox : x.key \in Keys
    BY DEF Keys
  <2>2. \A x \in outbox' : x \in outbox \/ (x = NewItem(x.key) /\ x.key \notin Keys)
    BY <1>1, <1>2
  <2> QED
    BY <1>5, <2>1, <2>2 DEF UniqueKeys
<1> QED
  BY <1>3, <1>4, <1>5 DEF TameOutbox, UniqueKeys

\* Replacing items by items of the same keys keeps the queue.
LEMMA ReplaceTame ==
    ASSUME NEW old \in SUBSET outbox, NEW new, \A i \in old : new[i].key = i.key,
           outbox' = (outbox \ old) \cup {new[i] : i \in old}
    PROVE  TameOutbox
<1>1. ASSUME NEW k \in Keys PROVE k \in Keys'
  <2>1. PICK i \in outbox : i.key = k
    BY DEF Keys
  <2>2. i \in old => new[i] \in outbox' /\ new[i].key = k
    BY <2>1
  <2>3. i \notin old => i \in outbox'
    OBVIOUS
  <2> QED
    BY <2>1, <2>2, <2>3 DEF Keys
<1>2. ASSUME UniqueKeys, NEW i \in outbox', NEW j \in outbox', i.key = j.key
      PROVE  i = j
  <2>1. \A x \in outbox' : \/ x \in outbox \ old
                           \/ \E y \in old : x = new[y] /\ x.key = y.key
    OBVIOUS
  <2> QED
    BY <1>2, <2>1 DEF UniqueKeys
<1> QED
  BY <1>1, <1>2 DEF TameOutbox, UniqueKeys

\* A transaction that leaves a table alone is tame on it.
LEMMA UntouchedTame ==
    /\ UNCHANGED pair => TamePairs
    /\ UNCHANGED gate => TameGates
    /\ UNCHANGED outbox => TameOutbox
<1>1. UNCHANGED outbox => TameOutbox
  BY DEF TameOutbox, UniqueKeys, Keys
<1> QED
  BY <1>1 DEF TamePairs, TameGates, TameRow

\* Fencing, releasing and quarantining a pair are tame.
LEMMA TamePairRows ==
    ASSUME NEW row \in PairRow, NEW new,
           new \in {row, Fenced(row), Unleased(row),
                    [Fenced(row) EXCEPT !.quarantined = TRUE]}
    PROVE  /\ new.epoch = row.epoch /\ new.srcAt = row.srcAt
           /\ new.active = row.active /\ new.draft = row.draft
           /\ row.quarantined => new.quarantined
<1>1. CASE new = Fenced(row)
  BY <1>1 DEF PairRow, Fenced
<1>2. CASE new = Unleased(row)
  BY <1>2 DEF PairRow, Unleased
<1>3. CASE new = [Fenced(row) EXCEPT !.quarantined = TRUE]
  <2>1. Fenced(row) \in PairRow
    BY PairRows
  <2>2. /\ new.epoch = Fenced(row).epoch /\ new.srcAt = Fenced(row).srcAt
        /\ new.active = Fenced(row).active /\ new.draft = Fenced(row).draft
        /\ new.quarantined = TRUE
    BY <1>3, <2>1 DEF PairRow
  <2>3. /\ Fenced(row).epoch = row.epoch /\ Fenced(row).srcAt = row.srcAt
        /\ Fenced(row).active = row.active /\ Fenced(row).draft = row.draft
    BY DEF PairRow, Fenced
  <2> QED
    BY <2>2, <2>3
<1> QED
  BY <1>1, <1>2, <1>3

\* What a revision does to a gate's place in the history.
LEMMA RevisionFrame ==
    ASSUME NEW row \in GateRow, NEW desired
    PROVE  /\ Revised(row, desired).head = row.head
           /\ Revised(row, desired).revision = row.revision + 1
           /\ \A active : /\ RevisedAs(row, desired, active).head = row.head
                          /\ RevisedAs(row, desired, active).revision = row.revision + 1
BY DEF GateRow, Revised, RevisedAs

\* Revising existing gates and queueing their publications is tame.
LEMMA ReviseTame ==
    ASSUME NEW gates \in SUBSET GateId, Publications(gates) \subseteq Keys',
           \A g \in GateId \ gates : gate'[g] = gate[g],
           \A g \in gates : /\ gate[g].revision > 0
                            /\ gate'[g].revision = gate[g].revision + 1
                            /\ gate'[g].head = gate[g].head
                            /\ gate'[g].active => gate[g].active
    PROVE  TameGates
<1> SUFFICES ASSUME NEW g \in GateId PROVE TameRow(g)
  BY DEF TameGates
<1>1. CASE g \in gates
  <2>1. <<"publish", g, gate[g].revision + 1>> \in Keys'
    BY <1>1 DEF Publications
  <2> QED
    BY <1>1, <2>1 DEF TameRow
<1>2. CASE g \notin gates
  BY <1>2 DEF TameRow
<1> QED
  BY <1>1, <1>2

\* An evidence webhook keeps the invariant.
LEMMA EvidenceHistory ==
    ASSUME HistoryInv, SafeInv', NEW pairs \in SUBSET PairId, NEW input,
           InvalidateForEvidence(pairs, input)
    PROVE  HistoryInv'
<1> DEFINE gates == BoundTo(pairs)
           more  == {Evaluation(gate[g].pair, pair[gate[g].pair].epoch,
                                gate[g].revision + 1) : g \in gates}
<1>1. /\ pair' = [p \in PairId |->
                     IF p \in pairs THEN Invalidated(pair[p]) ELSE pair[p]]
      /\ gate' = [g \in GateId |->
                     IF g \in gates THEN RevisedAs(gate[g], "revoked", TRUE)
                     ELSE gate[g]]
      /\ Enqueue(Publications(gates) \cup more)
  BY DEF InvalidateForEvidence
<1>2. TypeOK
  BY DEF HistoryInv, SafeInv
<1>3. gates \in SUBSET GateId /\ \A g \in gates : gate[g].active
  BY DEF BoundTo
<1> HIDE DEF gates, more
<1>4. TameOutbox /\ Publications(gates) \subseteq Keys'
  BY <1>1, EnqueueTame
<1>5. ASSUME NEW g \in gates
      PROVE  /\ gate[g].revision > 0
             /\ gate'[g].revision = gate[g].revision + 1
             /\ gate'[g].head = gate[g].head
             /\ gate'[g].active => gate[g].active
  <2>1. gate'[g] = RevisedAs(gate[g], "revoked", TRUE) /\ gate[g] \in GateRow
    BY <1>1, <1>2, <1>3 DEF TypeOK
  <2>2. gate[g].active /\ gate[g].revision > 0
    BY <1>3 DEF HistoryInv, ActiveIsRevised
  <2>3. gate'[g].head = gate[g].head /\ gate'[g].revision = gate[g].revision + 1
    BY <2>1 DEF GateRow, Revised, RevisedAs
  <2> QED
    BY <2>2, <2>3
<1>6. \A g \in GateId \ gates : gate'[g] = gate[g]
  BY <1>1
<1>7. TamePairs
  BY <1>1, <1>2, TamePairRows DEF TypeOK, Invalidated, TamePairs
<1> QED
  BY <1>3, <1>4, <1>5, <1>6, <1>7, ReviseTame, TameStep

\* A push keeps the invariant.
LEMMA PushHistory == ASSUME HistoryInv, SafeInv', ApplyPush PROVE HistoryInv'
<1> DEFINE pairs == {p \in PairId : pair[p].active /\ ~pair[p].quarantined}
           gates == BoundTo(pairs)
                      \cup {g \in GateId : IsMerge(g) /\ gate[g].active
                                             /\ ~gate[g].quarantined}
<1>1. /\ pair' = [p \in PairId |->
                     IF p \in pairs THEN Fenced(pair[p]) ELSE pair[p]]
      /\ gate' = [g \in GateId |->
                     IF g \in gates THEN Revised(gate[g], "revoked") ELSE gate[g]]
      /\ Enqueue(Publications(gates) \cup {<<"reconcile", generation + 1>>})
  BY DEF ApplyPush
<1>2. TypeOK
  BY DEF HistoryInv, SafeInv
<1>3. gates \in SUBSET GateId /\ \A g \in gates : gate[g].active
  BY DEF BoundTo
<1> HIDE DEF pairs, gates
<1>4. TameOutbox /\ Publications(gates) \subseteq Keys'
  BY <1>1, EnqueueTame
<1>5. ASSUME NEW g \in gates
      PROVE  /\ gate[g].revision > 0
             /\ gate'[g].revision = gate[g].revision + 1
             /\ gate'[g].head = gate[g].head
             /\ gate'[g].active => gate[g].active
  <2>1. gate'[g] = Revised(gate[g], "revoked") /\ gate[g] \in GateRow
    BY <1>1, <1>2, <1>3 DEF TypeOK
  <2>2. gate[g].active /\ gate[g].revision > 0
    BY <1>3 DEF HistoryInv, ActiveIsRevised
  <2>3. gate'[g].head = gate[g].head /\ gate'[g].revision = gate[g].revision + 1
    BY <2>1, RevisionFrame
  <2> QED
    BY <2>2, <2>3
<1>6. \A g \in GateId \ gates : gate'[g] = gate[g]
  BY <1>1
<1>7. TamePairs
  BY <1>1, <1>2, TamePairRows DEF TypeOK, TamePairs
<1> QED
  BY <1>3, <1>4, <1>5, <1>6, <1>7, ReviseTame, TameStep

\* A quarantine of active gates keeps the invariant.
LEMMA QuarantineHistory ==
    ASSUME HistoryInv, SafeInv', NEW gates \in SUBSET GateId, NEW more,
           Quarantine(gates, more), \A g \in gates : gate[g].active
    PROVE  HistoryInv'
<1> DEFINE pairs == {p \in PairId : pair[p].active}
<1>1. /\ pair' = [p \in PairId |->
              IF p \in pairs THEN [Fenced(pair[p]) EXCEPT !.quarantined = TRUE]
              ELSE pair[p]]
      /\ gate' = [g \in GateId |->
              IF g \in gates
              THEN [Revised(gate[g], "failure") EXCEPT !.quarantined = TRUE]
              ELSE gate[g]]
      /\ Enqueue(Publications(gates) \cup more)
  BY DEF Quarantine
<1>2. TypeOK
  BY DEF HistoryInv, SafeInv
<1> HIDE DEF pairs
<1>3. TameOutbox /\ Publications(gates) \subseteq Keys'
  BY <1>1, EnqueueTame
<1>4. ASSUME NEW g \in gates
      PROVE  /\ gate[g].revision > 0
             /\ gate'[g].revision = gate[g].revision + 1
             /\ gate'[g].head = gate[g].head
             /\ gate'[g].active => gate[g].active
  <2>1. /\ gate'[g] = [Revised(gate[g], "failure") EXCEPT !.quarantined = TRUE]
        /\ gate[g] \in GateRow
    BY <1>1, <1>2 DEF TypeOK
  <2>2. Revised(gate[g], "failure") \in GateRow
    BY <2>1, GateRows DEF GateStates
  <2>3. /\ gate'[g].revision = Revised(gate[g], "failure").revision
        /\ gate'[g].head = Revised(gate[g], "failure").head
    BY <2>1, <2>2 DEF GateRow
  <2> QED
    BY <2>1, <2>3, RevisionFrame DEF HistoryInv, ActiveIsRevised
<1>5. \A g \in GateId \ gates : gate'[g] = gate[g]
  BY <1>1
<1>6. TamePairs
  BY <1>1, <1>2, TamePairRows DEF TypeOK, TamePairs
<1> QED
  BY <1>3, <1>4, <1>5, <1>6, ReviseTame, TameStep

\* A malformed or unscoped webhook keeps the invariant.
LEMMA MalformedHistory ==
    ASSUME HistoryInv, SafeInv', ApplyMalformed \/ QuarantineAll
    PROVE  HistoryInv'
<1>1. \A pairs : BoundTo(pairs) \subseteq {g \in GateId : gate[g].active}
  BY DEF BoundTo
<1>2. CASE ApplyMalformed
  <2> DEFINE gates == BoundTo({p \in PairId : pair[p].active})
                        \cup {g \in GateId : IsMerge(g) /\ gate[g].active}
  <2>1. Quarantine(gates, {<<"reconcile", generation + 1>>})
    BY <1>2 DEF ApplyMalformed
  <2>2. gates \in SUBSET GateId /\ \A g \in gates : gate[g].active
    BY <1>1
  <2> HIDE DEF gates
  <2> QED
    BY <2>1, <2>2, QuarantineHistory
<1>3. CASE QuarantineAll
  <2> DEFINE gates == {g \in GateId : gate[g].active}
  <2>1. Quarantine(gates, {})
    BY <1>3 DEF QuarantineAll
  <2>2. gates \in SUBSET GateId /\ \A g \in gates : gate[g].active
    OBVIOUS
  <2> HIDE DEF gates
  <2> QED
    BY <2>1, <2>2, QuarantineHistory
<1> QED
  BY <1>2, <1>3

-----------------------------------------------------------------------------
(* Leases, commits and publications.                                       *)

\* Taking a pair lease, and the writes under one, keep the invariant.
LEMMA PairOperationHistory ==
    ASSUME HistoryInv, SafeInv', PairOperation
    PROVE  HistoryInv'
<1>0. TypeOK
  BY DEF HistoryInv, SafeInv
<1>1. ASSUME NEW p \in PairId, NEW e, NEW w, AcquirePairLease(p, e, w)
      PROVE  HistoryInv'
  <2>1. /\ pair' = [pair EXCEPT ![p].fence = @ + 1, ![p].owner = w, ![p].live = TRUE]
        /\ UNCHANGED <<gate, outbox>>
    BY <1>1 DEF AcquirePairLease
  <2>2. pair[p] \in PairRow /\ \A q \in PairId \ {p} : pair'[q] = pair[q]
    BY <1>0, <2>1 DEF TypeOK
  <2>3. /\ pair'[p].epoch = pair[p].epoch /\ pair'[p].srcAt = pair[p].srcAt
        /\ pair'[p].active = pair[p].active /\ pair'[p].draft = pair[p].draft
        /\ pair'[p].quarantined = pair[p].quarantined
    BY <1>0, <2>1, <2>2 DEF TypeOK, PairRow
  <2>4. TamePairs
    BY <2>2, <2>3 DEF TamePairs
  <2> QED
    BY <2>1, <2>4, UntouchedTame, TameStep
<1>2. ASSUME NEW l \in PairLeases, NEW desired, CommitPairGate(l, desired)
      PROVE  HistoryInv'
  <2> DEFINE gates == {g \in Bound(l.pair) : g.epoch = l.epoch}
             state == Committed(<<l.pair, l.epoch>>, desired)
  <2>1. /\ pair' = [pair EXCEPT ![l.pair] = Unleased(@)]
        /\ gate' = [g \in GateId |->
              IF g \in gates THEN Revised(gate[g], state) ELSE gate[g]]
        /\ Enqueue(Publications(gates))
    BY <1>2 DEF CommitPairGate
  <2>2. gates \in SUBSET GateId /\ \A g \in gates : gate[g].active
    BY DEF Bound, BoundTo
  <2> HIDE DEF gates, state
  <2>3. TameOutbox /\ Publications(gates) \subseteq Keys'
    BY <2>1, EnqueueTame
  <2>4. ASSUME NEW g \in gates
        PROVE  /\ gate[g].revision > 0
               /\ gate'[g].revision = gate[g].revision + 1
               /\ gate'[g].head = gate[g].head
               /\ gate'[g].active => gate[g].active
    <3>1. gate'[g] = Revised(gate[g], state) /\ gate[g] \in GateRow
      BY <1>0, <2>1, <2>2 DEF TypeOK
    <3>2. gate[g].active /\ gate[g].revision > 0
      BY <2>2 DEF HistoryInv, ActiveIsRevised
    <3>3. gate'[g].head = gate[g].head /\ gate'[g].revision = gate[g].revision + 1
      BY <3>1, RevisionFrame
    <3> QED
      BY <3>2, <3>3
  <2>5. \A g \in GateId \ gates : gate'[g] = gate[g]
    BY <2>1
  <2>6. TamePairs
    BY <1>0, <2>1, TamePairRows DEF TypeOK, TamePairs
  <2> QED
    BY <2>2, <2>3, <2>4, <2>5, <2>6, ReviseTame, TameStep
<1>3. ASSUME UNCHANGED <<pair, gate, outbox>> PROVE HistoryInv'
  BY <1>3, UntouchedTame, TameStep
<1>4. ASSUME NEW l \in PairLeases, NEW id, NEW at, AdoptDispatch(l, id, at)
      PROVE  HistoryInv'
  <2>1. /\ pair' = [pair EXCEPT ![l.pair] =
                      IF @.fence = l.fence /\ @.owner = l.worker
                      THEN Unleased(@) ELSE @]
        /\ Enqueue({<<"timeout", l.pair, l.epoch>>})
        /\ UNCHANGED gate
    BY <1>4 DEF AdoptDispatch
  <2>2. TamePairs
    BY <1>0, <2>1, TamePairRows DEF TypeOK, TamePairs
  <2> QED
    BY <2>1, <2>2, EnqueueTame, UntouchedTame, TameStep
<1> QED
  BY <1>1, <1>2, <1>3, <1>4 DEF PairOperation, PlanDispatch, BeginDispatchAttempt

\* Taking a gate lease and publishing keep the invariant.
LEMMA GateOperationHistory ==
    ASSUME HistoryInv, SafeInv', GateOperation
    PROVE  HistoryInv'
<1>0. TypeOK
  BY DEF HistoryInv, SafeInv
\* A write to one gate that leaves its revision alone.
<1>1. ASSUME NEW g \in GateId, NEW row, gate' = [gate EXCEPT ![g] = row],
             row.head = gate[g].head, row.active = gate[g].active,
             row.revision = gate[g].revision, UNCHANGED <<pair, outbox>>
      PROVE  HistoryInv'
  <2>1. gate'[g] = row /\ \A h \in GateId \ {g} : gate'[h] = gate[h]
    BY <1>0, <1>1 DEF TypeOK
  <2>2. TameGates
    BY <1>1, <2>1 DEF TameGates, TameRow
  <2> QED
    BY <1>1, <2>2, UntouchedTame, TameStep
\* A write that revises one gate and queues its publication.
<1>2. ASSUME NEW g \in GateId, gate[g].revision > 0, NEW row,
             gate' = [gate EXCEPT ![g] = row],
             row.head = gate[g].head, row.active = gate[g].active,
             row.revision = gate[g].revision + 1,
             Enqueue(Publications({g})), UNCHANGED pair
      PROVE  HistoryInv'
  <2>1. gate'[g] = row /\ \A h \in GateId \ {g} : gate'[h] = gate[h]
    BY <1>0, <1>2 DEF TypeOK
  <2>2. TameOutbox /\ Publications({g}) \subseteq Keys'
    BY <1>2, EnqueueTame
  <2>3. TameGates
    BY <1>2, <2>1, <2>2, ReviseTame
  <2> QED
    BY <1>2, <2>2, <2>3, UntouchedTame, TameStep
<1>3. ASSUME NEW g \in GateId, NEW v, NEW w, AcquireGateLease(g, v, w)
      PROVE  HistoryInv'
  <2> DEFINE row == [gate[g] EXCEPT !.fence = @ + 1, !.owner = w, !.live = TRUE]
  <2>1. gate' = [gate EXCEPT ![g] = row] /\ UNCHANGED <<pair, outbox>>
    BY <1>3 DEF AcquireGateLease
  <2>2. /\ row.head = gate[g].head /\ row.active = gate[g].active
        /\ row.revision = gate[g].revision
    BY <1>0 DEF TypeOK, GateRow
  <2> HIDE DEF row
  <2> QED
    BY <1>1, <2>1, <2>2
<1>4. ASSUME NEW l \in GateLeases, NEW run, NEW state,
             CommitGatePublication(l, run, state)
      PROVE  HistoryInv'
  <2>0. l.gate \in GateId /\ gate[l.gate] \in GateRow
    BY <1>0, LeaseTypes DEF TypeOK
  <2> DEFINE row == [Unleased(gate[l.gate]) EXCEPT !.checkRun = run, !.pubState = state,
                                      !.pubRev = l.revision]
  <2>1. gate' = [gate EXCEPT ![l.gate] = row] /\ UNCHANGED <<pair, outbox>>
    BY <1>4 DEF CommitGatePublication
  <2>2. /\ row.head = gate[l.gate].head /\ row.active = gate[l.gate].active
        /\ row.revision = gate[l.gate].revision
    BY <2>0 DEF GateRow, Unleased
  <2> HIDE DEF row
  <2> QED
    BY <1>1, <2>0, <2>1, <2>2
\* Rejected, expired and superseded publications.
<1>5. ASSUME NEW l \in GateLeases, NEW desired, NEW run,
             gate' = [gate EXCEPT ![l.gate] =
                        [Revised(gate[l.gate], desired) EXCEPT !.checkRun = run]],
             Enqueue(Publications({l.gate})), UNCHANGED pair
      PROVE  HistoryInv'
  <2>1. l.gate \in GateId /\ gate[l.gate].revision > 0 /\ gate[l.gate] \in GateRow
    <3>1. PICK g \in GateId : l \in [gate : {g}, revision : 1 .. gate[g].revision,
                                     fence : 0 .. gate[g].fence, worker : Workers]
      BY DEF GateLeases
    <3>2. gate[g] \in GateRow /\ gate[g].revision \in Nat
      BY <1>0 DEF TypeOK, GateRow
    <3> QED
      BY <3>1, <3>2
  <2> DEFINE row == [Revised(gate[l.gate], desired) EXCEPT !.checkRun = run]
  <2>2. /\ row.head = gate[l.gate].head /\ row.active = gate[l.gate].active
        /\ row.revision = gate[l.gate].revision + 1
    BY <2>1 DEF GateRow, Revised
  <2>3. gate' = [gate EXCEPT ![l.gate] = row]
    BY <1>5
  <2> HIDE DEF row
  <2> QED
    BY <1>2, <1>5, <2>1, <2>2, <2>3
<1>6. ASSUME NEW l \in GateLeases, NEW run,
             ExpireSuccess(l, run) \/ RejectGatePublication(l, run)
      PROVE  HistoryInv'
  <2>1. FailPublication(l, run)
    BY <1>6 DEF ExpireSuccess, RejectGatePublication
  <2> QED
    BY <1>5, <2>1 DEF FailPublication
<1>7. ASSUME NEW l \in GateLeases, NEW run, SupersedeStaleGatePublication(l, run)
      PROVE  HistoryInv'
  BY <1>5, <1>7 DEF SupersedeStaleGatePublication
<1> QED
  BY <1>3, <1>4, <1>6, <1>7 DEF GateOperation

\* Claiming, completing and failing items keep the invariant.
LEMMA OutboxOperationHistory ==
    ASSUME HistoryInv, SafeInv', OutboxOperation
    PROVE  HistoryInv'
<1>0. outbox \subseteq OutboxRow
  BY DEF HistoryInv, SafeInv, TypeOK
<1>1. UNCHANGED <<pair, gate>>
  BY DEF OutboxOperation, ClaimOutbox, CompleteOutbox, FailOutbox
<1>2. ASSUME NEW i \in outbox, NEW w, ClaimOutbox(i, w) PROVE TameOutbox
  <2> DEFINE old == {i}
             new == [x \in old |-> [i EXCEPT !.owner = w, !.live = TRUE]]
  <2>1. outbox' = (outbox \ old) \cup {new[x] : x \in old}
    BY <1>2 DEF ClaimOutbox
  <2>2. old \in SUBSET outbox /\ \A x \in old : new[x].key = x.key
    BY <1>0 DEF OutboxRow
  <2> HIDE DEF old, new
  <2> QED
    BY <2>1, <2>2, ReplaceTame
<1>3. ASSUME NEW k, NEW w, CompleteOutbox(k, w) PROVE TameOutbox
  <2> DEFINE new == [x \in Claims(k, w) |-> [Unleased(x) EXCEPT !.done = TRUE]]
  <2>1. outbox' = (outbox \ Claims(k, w)) \cup {new[x] : x \in Claims(k, w)}
    BY <1>3 DEF CompleteOutbox
  <2>2. \A x \in Claims(k, w) : new[x].key = x.key
    BY <1>0 DEF OutboxRow, Claims, Unleased
  <2>3. Claims(k, w) \in SUBSET outbox
    BY DEF Claims
  <2> HIDE DEF new
  <2> QED
    BY <2>1, <2>2, <2>3, ReplaceTame
<1>4. ASSUME NEW k, NEW w, FailOutbox(k, w) PROVE TameOutbox
  <2> DEFINE new == [x \in Claims(k, w) |-> Unleased(x)]
  <2>1. outbox' = (outbox \ Claims(k, w)) \cup {new[x] : x \in Claims(k, w)}
    BY <1>4 DEF FailOutbox
  <2>2. \A x \in Claims(k, w) : new[x].key = x.key
    BY <1>0 DEF OutboxRow, Claims, Unleased
  <2>3. Claims(k, w) \in SUBSET outbox
    BY DEF Claims
  <2> HIDE DEF new
  <2> QED
    BY <2>1, <2>2, <2>3, ReplaceTame
<1>5. TameOutbox
  BY <1>2, <1>3, <1>4 DEF OutboxOperation
<1> QED
  BY <1>1, <1>5, UntouchedTame, TameStep

\* The passing of time keeps the invariant.
LEMMA TimeHistory ==
    ASSUME HistoryInv, SafeInv', Time
    PROVE  HistoryInv'
<1>0. TypeOK
  BY DEF HistoryInv, SafeInv
<1>1. ASSUME NEW p \in PairId, ExpirePairLease(p) PROVE HistoryInv'
  <2>1. pair' = [pair EXCEPT ![p].live = FALSE] /\ UNCHANGED <<gate, outbox>>
    BY <1>1 DEF ExpirePairLease
  <2>2. pair[p] \in PairRow /\ \A q \in PairId \ {p} : pair'[q] = pair[q]
    BY <1>0, <2>1 DEF TypeOK
  <2>3. /\ pair'[p].epoch = pair[p].epoch /\ pair'[p].srcAt = pair[p].srcAt
        /\ pair'[p].active = pair[p].active /\ pair'[p].draft = pair[p].draft
        /\ pair'[p].quarantined = pair[p].quarantined
    BY <1>0, <2>1, <2>2 DEF TypeOK, PairRow
  <2>4. TamePairs
    BY <2>2, <2>3 DEF TamePairs
  <2> QED
    BY <2>1, <2>4, UntouchedTame, TameStep
<1>2. ASSUME NEW g \in GateId, ExpireGateLease(g) PROVE HistoryInv'
  <2>1. gate' = [gate EXCEPT ![g].live = FALSE] /\ UNCHANGED <<pair, outbox>>
    BY <1>2 DEF ExpireGateLease
  <2>2. gate[g] \in GateRow /\ \A h \in GateId \ {g} : gate'[h] = gate[h]
    BY <1>0, <2>1 DEF TypeOK
  <2>3. /\ gate'[g].head = gate[g].head /\ gate'[g].active = gate[g].active
        /\ gate'[g].revision = gate[g].revision
    BY <1>0, <2>1, <2>2 DEF TypeOK, GateRow
  <2>4. TameGates
    BY <2>2, <2>3 DEF TameGates, TameRow
  <2> QED
    BY <2>1, <2>4, UntouchedTame, TameStep
<1>3. ASSUME NEW i \in outbox, ExpireClaim(i) PROVE HistoryInv'
  <2> DEFINE old == {i}
             new == [x \in old |-> [i EXCEPT !.live = FALSE]]
  <2>1. /\ outbox' = (outbox \ old) \cup {new[x] : x \in old}
        /\ UNCHANGED <<pair, gate>>
    BY <1>3 DEF ExpireClaim
  <2>2. old \in SUBSET outbox /\ \A x \in old : new[x].key = x.key
    BY <1>0 DEF OutboxRow, TypeOK
  <2> HIDE DEF old, new
  <2>3. TameOutbox
    BY <2>1, <2>2, ReplaceTame
  <2> QED
    BY <2>1, <2>3, UntouchedTame, TameStep
<1>4. ASSUME NEW d, PassDeadline(d) PROVE HistoryInv'
  BY <1>4, UntouchedTame, TameStep DEF PassDeadline
<1> QED
  BY <1>1, <1>2, <1>3, <1>4 DEF Time

-----------------------------------------------------------------------------
(* Merge groups.                                                           *)

\* A merge group's gate that is revised keeps its head.
LEMMA ReviseMergeHistory ==
    ASSUME HistoryInv, SafeInv', NEW g \in GateId, gate[g].active,
           NEW desired, NEW active \in BOOLEAN,
           ReviseMergeGate(g, desired, active), UNCHANGED pair
    PROVE  HistoryInv'
<1> DEFINE row == RevisedAs(gate[g], desired, active)
<1>1. gate' = [gate EXCEPT ![g] = row] /\ Enqueue(Publications({g}))
  BY DEF ReviseMergeGate
<1>2. gate \in [GateId -> GateRow] /\ gate[g].revision > 0
  BY DEF HistoryInv, SafeInv, TypeOK, ActiveIsRevised
<1>3. row.head = gate[g].head /\ row.revision = gate[g].revision + 1
  BY <1>2 DEF GateRow, Revised, RevisedAs
<1> HIDE DEF row
<1>4. gate'[g] = row /\ \A h \in GateId \ {g} : gate'[h] = gate[h]
  BY <1>1, <1>2
<1>5. TameOutbox /\ Publications({g}) \subseteq Keys'
  BY <1>1, EnqueueTame
<1>6. TameGates
  BY <1>2, <1>3, <1>4, <1>5, ReviseTame
<1> QED
  BY <1>5, <1>6, UntouchedTame, TameStep

\* A new merge group's gate takes an unused row, and its head is new.
LEMMA InsertMergeHistory ==
    ASSUME HistoryInv, SafeInv', NEW ref \in MergeRefs, NEW old \in SUBSET GateId,
           NEW row \in GateRow, InsertMergeGate(ref, old, row), UNCHANGED pair,
           row.revision = 1, MergeHistory(ref, row.head) = {},
           \A g \in old : gate[g].active /\ g.key = ref,
           row.active => old = MergeGate(ref)
    PROVE  HistoryInv'
<1> DEFINE new == [key |-> ref, epoch |-> NextMergeEpoch(ref)]
<1>0. TypeOK
  BY DEF HistoryInv, SafeInv
<1>1. /\ new.epoch <= MaxEpoch
      /\ gate' = [g \in GateId |->
              IF g = new THEN row
              ELSE IF g \in old THEN RevisedAs(gate[g], "cancelled", FALSE)
              ELSE gate[g]]
      /\ Enqueue(Publications(old \cup {new}))
  BY DEF InsertMergeGate
<1>2. /\ new \in GateId /\ new.key = ref /\ ref \notin Pulls
      /\ new.epoch = NextMergeEpoch(ref) /\ new.epoch \in Nat
  BY <1>0, <1>1, NextMergeEpochAbove, StoreAssumption DEF GateId, Epochs
<1> HIDE DEF new
<1>3. gate[new].revision = 0
  <2>1. gate[new].revision \in Nat
    BY <1>0, <1>2 DEF TypeOK, GateRow
  <2>2. gate[new].revision > 0 => new.epoch < NextMergeEpoch(ref)
    BY <1>0, <1>2, NextMergeEpochAbove
  <2> QED
    BY <1>2, <2>1, <2>2
<1>4. TameOutbox /\ Publications(old \cup {new}) \subseteq Keys'
  BY <1>1, EnqueueTame
<1>5. gate'[new] = row
  BY <1>1, <1>2
<1>6. ASSUME NEW g \in GateId, g # new
      PROVE  /\ TameRow(g)
             /\ gate'[g].revision > 0 => gate[g].revision > 0
             /\ g \in old => ~gate'[g].active
             /\ g \notin old => gate'[g] = gate[g]
  <2>1. CASE g \in old
    <3>1. gate'[g] = RevisedAs(gate[g], "cancelled", FALSE) /\ gate[g] \in GateRow
      BY <1>0, <1>1, <1>6, <2>1 DEF TypeOK
    <3>2. /\ gate'[g].head = gate[g].head /\ ~gate'[g].active
          /\ gate'[g].revision = gate[g].revision + 1
      BY <3>1 DEF GateRow, Revised, RevisedAs
    <3>3. gate[g].revision > 0
      BY <2>1 DEF HistoryInv, ActiveIsRevised
    <3>4. <<"publish", g, gate[g].revision + 1>> \in Keys'
      BY <1>4, <2>1 DEF Publications
    <3> QED
      BY <2>1, <3>2, <3>3, <3>4 DEF TameRow
  <2>2. CASE g \notin old
    BY <1>1, <1>6, <2>2 DEF TameRow
  <2> QED
    BY <2>1, <2>2
<1>7. UNCHANGED pair /\ TamePairs /\ (\A n : Known(n)' = Known(n))
  BY UntouchedTame DEF Known
<1>8. ActiveIsRevised'
  <2> SUFFICES ASSUME NEW g \in GateId, gate'[g].active PROVE gate'[g].revision > 0
    BY DEF ActiveIsRevised
  <2>1. CASE g = new
    BY <1>5, <2>1
  <2>2. CASE g # new
    <3>1. gate[g].revision > 0 /\ gate[g].revision \in Nat
      BY <1>0, <1>6, <2>2 DEF HistoryInv, ActiveIsRevised, TameRow, TypeOK, GateRow
    <3> QED
      BY <1>6, <2>2, <3>1 DEF TameRow
  <2> QED
    BY <2>1, <2>2
<1>9. GateEpochsKnown'
  <2> SUFFICES ASSUME NEW g \in GateId, g.key \in Pulls, gate'[g].revision > 0
               PROVE  \E p \in Known(g.key)' : g.epoch <= pair'[p].epoch
    BY DEF GateEpochsKnown
  <2>1. gate[g].revision > 0
    BY <1>2, <1>6
  <2> QED
    BY <1>7, <2>1 DEF HistoryInv, GateEpochsKnown
<1>10. ActivePairIsNewest'
  BY <1>7 DEF HistoryInv, ActivePairIsNewest
<1>11. NothingUnqueued'
  <2>1. ASSUME NEW g \in GateId, gate'[g].revision > 0
        PROVE  <<"publish", g, gate'[g].revision>> \in Keys'
    <3>1. CASE g = new
      <4>1. <<"publish", new, gate[new].revision + 1>> \in Keys'
        BY <1>4 DEF Publications
      <4> QED
        BY <1>3, <1>5, <3>1, <4>1
    <3>2. CASE g # new
      <4>1. <<"publish", g, gate[g].revision>> \in Keys'
        BY <1>4, <1>6, <2>1, <3>2 DEF HistoryInv, NothingUnqueued, TameOutbox
      <4> QED
        BY <1>6, <3>2, <4>1 DEF TameRow
    <3> QED
      BY <3>1, <3>2
  <2>2. ASSUME NEW p \in PairId,
               pair'[p].active /\ ~pair'[p].quarantined /\ ~pair'[p].draft
        PROVE  <<"dispatch", p, pair'[p].epoch>> \in Keys'
    BY <1>4, <1>7, <2>2 DEF HistoryInv, NothingUnqueued, TameOutbox
  <2>3. UniqueKeys'
    BY <1>4 DEF HistoryInv, NothingUnqueued, UniqueKeys, TameOutbox
  <2> QED
    BY <2>1, <2>2, <2>3 DEF NothingUnqueued, UniqueKeys
<1>12. ASSUME NEW g \in GateId, g # new, g.key = ref, gate'[g].revision > 0
       PROVE  gate'[g].head # row.head /\ ~(row.active /\ gate'[g].active)
  <2>1. gate[g].revision > 0 /\ gate'[g].head = gate[g].head
    BY <1>6, <1>12 DEF TameRow
  <2>2. gate[g].head # row.head
    BY <1>12, <2>1 DEF MergeHistory
  <2>3. ASSUME row.active, gate'[g].active PROVE FALSE
    <3>1. g \notin old /\ gate[g].active
      BY <1>6, <1>12, <2>3 DEF TameRow
    <3> QED
      BY <1>12, <2>3, <3>1 DEF MergeGate
  <2> QED
    BY <2>1, <2>2, <2>3
<1>13. MergeHeadsRetireForGood'
  <2> SUFFICES ASSUME NEW g \in GateId, NEW h \in GateId, g.key = h.key,
                      g.key \in MergeRefs, gate'[g].revision > 0, gate'[h].revision > 0
               PROVE  /\ gate'[g].head = gate'[h].head => g = h
                      /\ (gate'[g].active /\ gate'[h].active) => g = h
    BY DEF MergeHeadsRetireForGood
  <2>1. CASE g # new /\ h # new
    <3>1. /\ gate[g].revision > 0 /\ gate[h].revision > 0
          /\ gate'[g].head = gate[g].head /\ gate'[h].head = gate[h].head
          /\ gate'[g].active => gate[g].active
          /\ gate'[h].active => gate[h].active
      BY <1>6, <2>1 DEF TameRow
    <3>2. /\ gate[g].head = gate[h].head => g = h
          /\ (gate[g].active /\ gate[h].active) => g = h
      BY <3>1 DEF HistoryInv, MergeHeadsRetireForGood
    <3> QED
      BY <3>1, <3>2
  <2>2. CASE g = new /\ h # new
    BY <1>2, <1>5, <1>12, <2>2
  <2>3. CASE g # new /\ h = new
    BY <1>2, <1>5, <1>12, <2>3
  <2> QED
    BY <2>1, <2>2, <2>3
<1> QED
  BY <1>8, <1>9, <1>10, <1>11, <1>13 DEF HistoryInv

\* A merge_group webhook keeps the invariant: a head whose only gate is
\* inactive is refused, so that a gate is inserted for new heads only.
LEMMA MergeGroupHistory ==
    ASSUME HistoryInv, SafeInv', NEW ref \in MergeRefs, NEW head \in Heads,
           RequestMergeGroup(ref, head) \/ DestroyMergeGroup(ref, head)
    PROVE  HistoryInv'
<1>1. UNCHANGED pair
  BY DEF RequestMergeGroup, DestroyMergeGroup
<1>2. MergeGate(ref) \in SUBSET GateId /\ \A g \in MergeGate(ref) : gate[g].active
  BY DEF MergeGate
<1>3. CASE \E g \in MergeGate(ref), desired \in {"revoked", "cancelled"},
             active \in BOOLEAN : ReviseMergeGate(g, desired, active)
  BY <1>1, <1>2, <1>3, ReviseMergeHistory
<1>4. ASSUME ~Retired(ref, head), \A g \in MergeGate(ref) : gate[g].head # head
      PROVE  MergeHistory(ref, head) = {}
  <2> SUFFICES ASSUME NEW g \in MergeHistory(ref, head) PROVE FALSE
    OBVIOUS
  <2>1. g \in GateId /\ g.key = ref /\ gate[g].revision > 0 /\ gate[g].head = head
    BY DEF MergeHistory
  <2>2. \A h \in MergeHistory(ref, head) : h = g
    BY <2>1 DEF MergeHistory, HistoryInv, MergeHeadsRetireForGood
  <2>3. g.epoch \in Nat
    BY <2>1 DEF GateId, Epochs
  <2>4. gate[g].active
    BY <1>4, <2>2, <2>3 DEF Retired
  <2> QED
    BY <1>4, <2>1, <2>4 DEF MergeGate
<1>5. ASSUME NEW old \in {{}, MergeGate(ref)}, NEW active \in BOOLEAN,
             NEW desired \in {"revoked", "cancelled"},
             InsertMergeGate(ref, old, NewGate(None, head, active, desired)),
             MergeHistory(ref, head) = {}, active => old = MergeGate(ref)
      PROVE  HistoryInv'
  <2> DEFINE row == NewGate(None, head, active, desired)
  <2>1. row \in GateRow
    BY NewGateRow DEF GateStates
  <2>2. row.revision = 1 /\ row.head = head /\ row.active = active
    BY DEF NewGate
  <2>3. InsertMergeGate(ref, old, row)
    BY <1>5
  <2>4. old \in SUBSET GateId /\ \A g \in old : gate[g].active /\ g.key = ref
    BY DEF MergeGate
  <2> HIDE DEF row
  <2> QED
    BY <1>1, <1>5, <2>1, <2>2, <2>3, <2>4, InsertMergeHistory
<1>6. CASE RequestMergeGroup(ref, head)
  BY <1>3, <1>4, <1>5, <1>6 DEF RequestMergeGroup
<1>7. CASE DestroyMergeGroup(ref, head)
  BY <1>3, <1>5, <1>7 DEF DestroyMergeGroup
<1> QED
  BY <1>6, <1>7

-----------------------------------------------------------------------------
(* Project: reports that are applied are not outdated.                     *)

\* What a report does to the source time and the draft flag of its rows.
LEMMA PairAfterSource ==
    ASSUME TypeOK, NEW r \in PullRef, NEW p \in PairId
    PROVE  /\ p = r.pair => /\ PairAfter(p, r).srcAt = r.at
                            /\ PairAfter(p, r).draft = r.draft
           /\ p # r.pair => PairAfter(p, r).srcAt = pair[p].srcAt
<1>1. pair[p] \in PairRow /\ Fenced(pair[p]) \in PairRow
  BY PairRows DEF TypeOK
<1>2. CASE p = r.pair /\ SamePair(r)
  <2>1. PairAfter(p, r) = [Fenced(pair[p]) EXCEPT !.draft = r.draft, !.state = r.state,
                                      !.srcAt = r.at, !.active = IsOpen(r)]
    BY <1>2 DEF PairAfter
  <2>2. PairAfter(p, r).srcAt = r.at /\ PairAfter(p, r).draft = r.draft
    <3> DEFINE open == IsOpen(r)
    <3>1. PairAfter(p, r) = [Fenced(pair[p]) EXCEPT !.draft = r.draft, !.state = r.state,
                                      !.srcAt = r.at, !.active = open]
      BY <2>1
    <3> HIDE DEF open
    <3> QED
      BY <1>1, <3>1 DEF PairRow
  <2> QED
    BY <1>2, <2>2
<1>3. CASE p = r.pair /\ ~SamePair(r)
  BY <1>3 DEF PairAfter, OpenEpoch
<1>4. CASE p # r.pair /\ pair[p].active
  <2>1. PairAfter(p, r) = [Fenced(pair[p]) EXCEPT !.active = FALSE]
    BY <1>4 DEF PairAfter
  <2>2. PairAfter(p, r).srcAt = Fenced(pair[p]).srcAt
    BY <1>1, <2>1 DEF PairRow
  <2>3. Fenced(pair[p]).srcAt = pair[p].srcAt
    BY <1>1, TamePairRows
  <2> QED
    BY <1>4, <2>2, <2>3
<1>5. CASE p # r.pair /\ ~pair[p].active
  BY <1>5 DEF PairAfter
<1> QED
  BY <1>2, <1>3, <1>4, <1>5

\* A report revises the gates it finds and creates the one it does not find.
LEMMA GateAfterRevision ==
    ASSUME TypeOK, NEW r \in PullRef, NEW g \in GateId
    PROVE  /\ (~SamePair(r) /\ g = NewGateId(r)) => GateAfter(g, r).revision = 1
           /\ (SamePair(r) \/ g # NewGateId(r)) =>
                 GateAfter(g, r).revision = gate[g].revision + 1
<1>1. gate[g] \in GateRow
  BY DEF TypeOK
<1>2. CASE SamePair(r)
  <2> DEFINE open == IsOpen(r)
  <2>1. GateAfter(g, r) = RevisedAs(gate[g], DesiredAfter(r), open)
    BY <1>2 DEF GateAfter
  <2> HIDE DEF open
  <2> QED
    BY <1>1, <1>2, <2>1, RevisionFrame
<1>3. CASE ~SamePair(r) /\ g = NewGateId(r)
  BY <1>3 DEF GateAfter, NewGate
<1>4. CASE ~SamePair(r) /\ g # NewGateId(r)
  <2>1. GateAfter(g, r) = RevisedAs(gate[g], "failure", FALSE)
    BY <1>4 DEF GateAfter
  <2> QED
    BY <1>1, <1>4, <2>1 DEF GateRow, Revised, RevisedAs
<1> QED
  BY <1>2, <1>3, <1>4

\* A report that is not outdated is at least as new as every known input.
LEMMA ReportIsNewest ==
    ASSUME HistoryInv, NEW r \in PullRef, ~Outdated(r), NEW q \in Known(r.pair.pull)
    PROVE  pair[q].srcAt <= r.at
<1>1. q \in PairId /\ pair[q].srcAt \in Nat /\ r.at \in Nat
  BY StoreAssumption DEF HistoryInv, SafeInv, TypeOK, PairRow, Known, PullRef
<1>2. CASE Current(r.pair.pull) = {}
  BY <1>1, <1>2 DEF Outdated
<1>3. CASE Current(r.pair.pull) # {}
  <2>1. PICK c \in Current(r.pair.pull) : TRUE
    BY <1>3
  <2>2. c \in PairId /\ pair[c].active /\ c.pull = r.pair.pull
    BY DEF Current
  <2>3. pair[c].srcAt \in Nat
    BY <2>2 DEF HistoryInv, SafeInv, TypeOK, PairRow
  <2>4. ~(r.at < pair[c].srcAt)
    BY <1>3, <2>1 DEF Outdated
  <2>5. pair[q].srcAt <= pair[c].srcAt
    BY <1>1, <2>2 DEF HistoryInv, ActivePairIsNewest
  <2> QED
    BY <1>1, <2>3, <2>4, <2>5
<1> QED
  BY <1>2, <1>3

\* Applying current reports and closing pairs keeps the invariant.
LEMMA ProjectHistory ==
    ASSUME HistoryInv, SafeInv', NEW refs \in SUBSET PullRef,
           \A r \in refs : HasRoom(r) /\ ~Outdated(r),
           \A r, s \in refs : r.pair.pull = s.pair.pull => r = s,
           NEW closing \in SUBSET PairId,
           \A p \in closing : \A r \in refs : p.pull # r.pair.pull,
           NEW more, Project(refs, closing, more)
    PROVE  HistoryInv'
<1> DEFINE refOf(n)   == CHOOSE r \in refs : r.pair.pull = n
           causeOf(g) == CHOOSE r \in refs : g \in TouchedBy(r)
           moved      == {r.pair.pull : r \in refs}
           touched    == {g \in GateId : \E r \in refs : g \in TouchedBy(r)}
           shut       == BoundTo(closing)
           work       == UNION {WorkFor(r) : r \in refs}
<1>1. /\ pair' = [p \in PairId |->
              IF p \in closing
              THEN [Fenced(pair[p]) EXCEPT !.active = FALSE, !.state = "closed"]
              ELSE IF p.pull \in moved THEN PairAfter(p, refOf(p.pull))
              ELSE pair[p]]
      /\ gate' = [g \in GateId |->
              IF g \in shut THEN RevisedAs(gate[g], "failure", FALSE)
              ELSE IF g \in touched THEN GateAfter(g, causeOf(g))
              ELSE gate[g]]
      /\ Enqueue(Publications(touched \cup shut) \cup work \cup more)
  BY DEF Project
<1>2. SafeInv /\ TypeOK
  BY DEF HistoryInv, SafeInv
<1>3. \A p \in closing : p.pull \notin moved
  OBVIOUS
<1>4. ASSUME NEW r \in refs
      PROVE  /\ r \in PullRef /\ r.pair \in PairId /\ r.at \in Nat
             /\ r.pair.pull \in moved /\ refOf(r.pair.pull) = r
             /\ WorkFor(r) \subseteq work
             /\ \A g \in GateId : g \in TouchedBy(r) =>
                   g \in touched /\ causeOf(g) = r /\ g.key = r.pair.pull
  <2>1. r \in PullRef /\ r.pair \in PairId /\ r.at \in Nat
    BY StoreAssumption DEF PullRef
  <2>2. /\ r.pair.pull \in moved /\ refOf(r.pair.pull) = r
        /\ WorkFor(r) \subseteq work
    OBVIOUS
  <2>3. ASSUME NEW g \in GateId, g \in TouchedBy(r)
        PROVE  g \in touched /\ causeOf(g) = r /\ g.key = r.pair.pull
    <3>1. g.key = r.pair.pull
      BY <1>2, <2>1, <2>3, TouchedKey
    <3>2. g \in touched
      BY <2>3
    <3>3. causeOf(g) \in refs /\ g \in TouchedBy(causeOf(g))
      BY <2>3
    <3>4. g.key = causeOf(g).pair.pull
      BY <1>2, <3>3, TouchedKey
    <3> QED
      BY <3>1, <3>2, <3>3, <3>4
  <2> QED
    BY <2>1, <2>2, <2>3
<1>5. \A n \in moved : \E r \in refs : r.pair.pull = n
  OBVIOUS
<1>6. \A g \in touched : g \in GateId /\ \E r \in refs : g \in TouchedBy(r)
  OBVIOUS
<1>7. \A g \in GateId : g \in shut <=> (gate[g].active /\ gate[g].pair \in closing)
  BY DEF BoundTo
<1> HIDE DEF refOf, causeOf, moved, touched, shut, work
<1>8. ASSUME NEW p \in PairId
      PROVE  pair[p] \in PairRow /\ pair[p].epoch \in Nat /\ pair[p].srcAt \in Nat
  BY <1>2, StoreAssumption DEF TypeOK, PairRow
\* The pairs.
<1>9. ASSUME NEW r \in refs, NEW p \in PairId, p.pull = r.pair.pull
      PROVE  /\ pair'[p].active => (p = r.pair /\ IsOpen(r))
             /\ (p = r.pair /\ ~SamePair(r)) => pair'[p].epoch = NextEpoch(p.pull)
             /\ ~(p = r.pair /\ ~SamePair(r)) =>
                   /\ pair'[p].epoch = pair[p].epoch
                   /\ pair'[p].quarantined = pair[p].quarantined
             /\ p = r.pair => pair'[p].srcAt = r.at /\ pair'[p].draft = r.draft
             /\ p # r.pair => pair'[p].srcAt = pair[p].srcAt
  <2>1. pair'[p] = PairAfter(p, r) /\ r \in PullRef
    BY <1>1, <1>3, <1>4, <1>9
  <2>2. /\ PairAfter(p, r).active => (p = r.pair /\ IsOpen(r))
        /\ (p = r.pair /\ ~SamePair(r)) => PairAfter(p, r).epoch = NextEpoch(p.pull)
        /\ ~(p = r.pair /\ ~SamePair(r)) =>
              /\ PairAfter(p, r).epoch = pair[p].epoch
              /\ PairAfter(p, r).quarantined = pair[p].quarantined
    BY <1>2, <2>1, PairAfterFacts, Zenon
  <2>3. /\ p = r.pair => PairAfter(p, r).srcAt = r.at /\ PairAfter(p, r).draft = r.draft
        /\ p # r.pair => PairAfter(p, r).srcAt = pair[p].srcAt
    BY <1>2, <2>1, PairAfterSource, Zenon
  <2> QED
    BY <2>1, <2>2, <2>3, Zenon
<1>10. ASSUME NEW p \in PairId, p.pull \notin moved
       PROVE  /\ pair'[p].epoch = pair[p].epoch /\ pair'[p].srcAt = pair[p].srcAt
              /\ pair'[p].active => pair'[p] = pair[p]
  <2>1. CASE p \in closing
    <3>1. pair'[p] = [Fenced(pair[p]) EXCEPT !.active = FALSE, !.state = "closed"]
      BY <1>1, <2>1
    <3>2. Fenced(pair[p]) \in PairRow
      BY <1>8, PairRows
    <3>3. /\ ~pair'[p].active /\ pair'[p].epoch = Fenced(pair[p]).epoch
          /\ pair'[p].srcAt = Fenced(pair[p]).srcAt
      BY <3>1, <3>2 DEF PairRow
    <3> QED
      BY <1>8, <3>3, TamePairRows
  <2>2. CASE p \notin closing
    BY <1>1, <1>10, <2>2
  <2> QED
    BY <2>1, <2>2
\* Epochs never fall, and a new one is above all of its pull request.
<1>11. ASSUME NEW p \in PairId
       PROVE  pair'[p].epoch \in Nat /\ pair[p].epoch <= pair'[p].epoch
  <2>1. CASE p.pull \notin moved
    BY <1>8, <1>10, <2>1
  <2>2. CASE p.pull \in moved
    <3>1. PICK r \in refs : r.pair.pull = p.pull
      BY <1>5, <2>2
    <3>2. NextEpoch(p.pull) \in Nat /\ (pair[p].epoch > 0 => pair[p].epoch < NextEpoch(p.pull))
      BY <1>2, NextEpochAbove, StoreAssumption DEF Known
    <3> QED
      BY <1>8, <1>9, <3>1, <3>2
  <2> QED
    BY <2>1, <2>2
<1>12. ASSUME NEW r \in refs, ~SamePair(r), NEW q \in PairId,
              q.pull = r.pair.pull, q # r.pair
       PROVE  pair'[q].epoch = pair[q].epoch /\ pair[q].epoch < pair'[r.pair].epoch
  <2>1. pair'[q].epoch = pair[q].epoch /\ pair'[r.pair].epoch = NextEpoch(q.pull)
    BY <1>4, <1>9, <1>12
  <2>2. /\ NextEpoch(q.pull) \in Nat \ {0}
        /\ pair[q].epoch > 0 => pair[q].epoch < NextEpoch(q.pull)
    BY <1>2, NextEpochAbove, StoreAssumption DEF Known
  <2> QED
    BY <1>8, <2>1, <2>2
<1>13. ActivePairIsNewest'
  <2>1. ASSUME NEW p \in PairId, NEW q \in PairId, pair'[p].active, q \in Known(p.pull)'
        PROVE  pair'[q].epoch <= pair'[p].epoch /\ pair'[q].srcAt <= pair'[p].srcAt
    <3>0. q.pull = p.pull /\ pair'[q].epoch > 0
      BY <2>1 DEF Known
    <3>1. CASE p.pull \notin moved
      <4>1. pair'[p] = pair[p] /\ pair'[q].epoch = pair[q].epoch /\ pair'[q].srcAt = pair[q].srcAt
        BY <1>10, <2>1, <3>0, <3>1
      <4>2. q \in Known(p.pull) /\ pair[p].active
        BY <2>1, <3>0, <4>1 DEF Known
      <4>3. pair[q].epoch <= pair[p].epoch /\ pair[q].srcAt <= pair[p].srcAt
        BY <4>2 DEF HistoryInv, ActivePairIsNewest
      <4> QED
        BY <4>1, <4>3
    <3>2. CASE p.pull \in moved
      <4>1. PICK r \in refs : r.pair.pull = p.pull
        BY <1>5, <3>2
      <4>2. p = r.pair /\ pair'[p].srcAt = r.at /\ r.at \in Nat
        BY <1>4, <1>9, <2>1, <4>1
      <4>3. CASE q = p
        BY <1>11, <4>2, <4>3
      <4>4. CASE q # p
        <5>1. pair'[q].epoch = pair[q].epoch /\ pair'[q].srcAt = pair[q].srcAt
          BY <1>9, <3>0, <4>1, <4>2, <4>4
        <5>2. q \in Known(p.pull)
          BY <3>0, <5>1 DEF Known
        <5>3. pair[q].srcAt <= r.at
          BY <1>4, <4>1, <4>2, <5>2, ReportIsNewest
        <5>4. CASE SamePair(r)
          <6>1. pair[p].active /\ pair'[p].epoch = pair[p].epoch
            BY <1>9, <4>1, <4>2, <5>4 DEF SamePair
          <6>2. pair[q].epoch <= pair[p].epoch
            BY <5>2, <6>1 DEF HistoryInv, ActivePairIsNewest
          <6> QED
            BY <4>2, <5>1, <5>3, <6>1, <6>2
        <5>5. CASE ~SamePair(r)
          <6>1. pair[q].epoch < pair'[p].epoch
            BY <1>12, <3>0, <4>2, <4>4, <5>5
          <6> QED
            BY <1>8, <1>11, <4>2, <5>1, <5>3, <6>1
        <5> QED
          BY <5>4, <5>5
      <4> QED
        BY <4>3, <4>4
    <3> QED
      BY <3>1, <3>2
  <2>2. ASSUME NEW p \in PairId, NEW q \in PairId, p.pull = q.pull,
               pair'[p].epoch = pair'[q].epoch, pair'[p].epoch > 0, p # q
        PROVE  FALSE
    <3>1. CASE p.pull \notin moved
      BY <1>10, <2>2, <3>1 DEF HistoryInv, ActivePairIsNewest
    <3>2. CASE p.pull \in moved
      <4>1. PICK r \in refs : r.pair.pull = p.pull
        BY <1>5, <3>2
      <4>2. CASE ~SamePair(r) /\ (p = r.pair \/ q = r.pair)
        BY <1>8, <1>11, <1>12, <2>2, <4>1, <4>2
      <4>3. CASE SamePair(r) \/ (p # r.pair /\ q # r.pair)
        <5>1. pair'[p].epoch = pair[p].epoch /\ pair'[q].epoch = pair[q].epoch
          BY <1>9, <2>2, <4>1, <4>3
        <5> QED
          BY <2>2, <5>1 DEF HistoryInv, ActivePairIsNewest
      <4> QED
        BY <4>2, <4>3
    <3> QED
      BY <3>1, <3>2
  <2> QED
    BY <2>1, <2>2 DEF ActivePairIsNewest
\* The gates: untouched, revised, or created where there was none.
<1>14. TameOutbox /\ Publications(touched \cup shut) \subseteq Keys' /\ work \subseteq Keys'
  <2> DEFINE keys == Publications(touched \cup shut) \cup work \cup more
  <2>1. Enqueue(keys) /\ Publications(touched \cup shut) \cup work \subseteq keys
    BY <1>1
  <2> HIDE DEF keys
  <2>2. TameOutbox /\ keys \subseteq Keys'
    BY <2>1, EnqueueTame
  <2> QED
    BY <2>1, <2>2
<1>15. ASSUME NEW g \in GateId
       PROVE  \/ gate'[g] = gate[g]
              \/ /\ g.key \in Pulls /\ gate[g].revision > 0
                 /\ gate'[g].revision = gate[g].revision + 1
                 /\ <<"publish", g, gate[g].revision + 1>> \in Keys'
              \/ /\ g.key \in Pulls /\ gate[g].revision = 0
                 /\ gate'[g].revision = 1
                 /\ <<"publish", g, gate[g].revision + 1>> \in Keys'
                 /\ \E r \in refs : ~SamePair(r) /\ g = NewGateId(r)
  <2>1. gate[g] \in GateRow /\ gate[g].revision \in Nat
    BY <1>2 DEF TypeOK, GateRow
  <2>2. g \in touched \cup shut => <<"publish", g, gate[g].revision + 1>> \in Keys'
    BY <1>14 DEF Publications
  <2>3. CASE g \in shut
    <3>1. gate[g].active /\ gate[g].pair \in PairId
      BY <1>7, <2>3
    <3>2. gate'[g] = RevisedAs(gate[g], "failure", FALSE)
      BY <1>1, <2>3
    <3>3. gate'[g].revision = gate[g].revision + 1
      BY <2>1, <3>2 DEF GateRow, Revised, RevisedAs
    <3>4. g.key \in Pulls /\ gate[g].revision > 0
      BY <1>2, <3>1, BoundGate DEF HistoryInv, ActiveIsRevised
    <3> QED
      BY <2>2, <2>3, <3>3, <3>4
  <2>4. CASE g \notin shut /\ g \in touched
    <3>1. PICK r \in refs : g \in TouchedBy(r)
      BY <1>6, <2>4
    <3>2. gate'[g] = GateAfter(g, r) /\ g.key = r.pair.pull /\ r \in PullRef
      BY <1>1, <1>4, <2>4, <3>1
    <3>3. g.key \in Pulls
      BY <1>4, <3>2, KeyKinds
    <3>4. CASE ~SamePair(r) /\ g = NewGateId(r)
      <4>1. gate'[g].revision = 1
        BY <1>2, <3>2, <3>4, GateAfterRevision
      <4>2. ~(gate[g].revision > 0)
        <5>1. SUFFICES ASSUME gate[g].revision > 0 PROVE FALSE
          OBVIOUS
        <5>2. PICK p \in Known(g.key) : g.epoch <= pair[p].epoch
          BY <3>3, <5>1 DEF HistoryInv, GateEpochsKnown
        <5>3. pair[p].epoch < NextEpoch(g.key) /\ p \in PairId
          BY <1>2, <5>2, NextEpochAbove DEF Known
        <5>4. g.epoch = NextEpoch(g.key)
          BY <3>2, <3>4 DEF NewGateId
        <5>5. g.epoch \in Nat
          BY DEF GateId, Epochs
        <5> QED
          BY <1>8, <5>2, <5>3, <5>4, <5>5
      <4> QED
        BY <2>1, <2>2, <2>4, <3>3, <3>4, <4>1, <4>2
    <3>5. CASE SamePair(r) \/ g # NewGateId(r)
      <4>1. gate'[g].revision = gate[g].revision + 1
        BY <1>2, <3>2, <3>5, GateAfterRevision
      <4>2. g \in BoundTo(Current(r.pair.pull))
        BY <3>1, <3>5 DEF TouchedBy
      <4>3. gate[g].revision > 0
        BY <4>2 DEF BoundTo, HistoryInv, ActiveIsRevised
      <4> QED
        BY <2>2, <2>4, <3>3, <4>1, <4>3
    <3> QED
      BY <3>4, <3>5
  <2>5. CASE g \notin shut /\ g \notin touched
    BY <1>1, <2>5
  <2> QED
    BY <2>3, <2>4, <2>5
<1>16. ASSUME NEW g \in GateId PROVE gate[g].revision \in Nat
  BY <1>2 DEF TypeOK, GateRow
<1>17. ActiveIsRevised'
  <2> SUFFICES ASSUME NEW g \in GateId, gate'[g].active PROVE gate'[g].revision > 0
    BY DEF ActiveIsRevised
  <2>1. gate[g].active => gate[g].revision > 0
    BY DEF HistoryInv, ActiveIsRevised
  <2>2. CASE gate'[g] = gate[g]
    <3>1. gate[g].active
      BY <2>2
    <3> QED
      BY <2>1, <2>2, <3>1
  <2>3. CASE gate'[g] # gate[g]
    <3>1. gate'[g].revision = gate[g].revision + 1 \/ gate'[g].revision = 1
      BY <1>15, <2>3
    <3> QED
      BY <1>16, <3>1
  <2> QED
    BY <2>2, <2>3
<1>18. GateEpochsKnown'
  <2> SUFFICES ASSUME NEW g \in GateId, g.key \in Pulls, gate'[g].revision > 0
               PROVE  \E p \in Known(g.key)' : g.epoch <= pair'[p].epoch
    BY DEF GateEpochsKnown
  <2>1. g.epoch \in Nat \ {0}
    BY DEF GateId, Epochs
  <2>2. CASE gate[g].revision > 0
    <3>1. PICK p \in Known(g.key) : g.epoch <= pair[p].epoch
      BY <2>2 DEF HistoryInv, GateEpochsKnown
    <3>2. p \in PairId /\ p.pull = g.key
      BY DEF Known
    <3>3. g.epoch <= pair'[p].epoch /\ pair'[p].epoch > 0
      BY <1>8, <1>11, <2>1, <3>1, <3>2
    <3> QED
      BY <3>2, <3>3 DEF Known
  <2>3. CASE ~(gate[g].revision > 0)
    <3>1. PICK r \in refs : ~SamePair(r) /\ g = NewGateId(r)
      BY <1>15, <2>3
    <3>2. /\ r.pair \in PairId /\ r.pair.pull = g.key
          /\ g.epoch = NextEpoch(r.pair.pull)
      BY <1>4, <3>1 DEF NewGateId
    <3>3. pair'[r.pair].epoch = g.epoch
      BY <1>9, <3>1, <3>2
    <3>4. r.pair \in Known(g.key)'
      BY <2>1, <3>2, <3>3 DEF Known
    <3> QED
      BY <2>1, <3>3, <3>4
  <2> QED
    BY <2>2, <2>3
\* What is revised is published, and a ready pair is dispatched.
<1>19. NothingUnqueued'
  <2>1. ASSUME NEW g \in GateId, gate'[g].revision > 0
        PROVE  <<"publish", g, gate'[g].revision>> \in Keys'
    <3>1. CASE gate'[g] = gate[g]
      <4>1. <<"publish", g, gate[g].revision>> \in Keys
        BY <2>1, <3>1 DEF HistoryInv, NothingUnqueued
      <4> QED
        BY <1>14, <3>1, <4>1 DEF TameOutbox
    <3>2. CASE /\ gate'[g].revision = gate[g].revision + 1
               /\ <<"publish", g, gate[g].revision + 1>> \in Keys'
      BY <3>2
    <3> QED
      BY <1>15, <3>1, <3>2
  <2>2. ASSUME NEW p \in PairId,
               pair'[p].active /\ ~pair'[p].quarantined /\ ~pair'[p].draft
        PROVE  <<"dispatch", p, pair'[p].epoch>> \in Keys'
    <3>1. CASE p.pull \notin moved
      <4>1. pair'[p] = pair[p]
        BY <1>10, <2>2, <3>1
      <4>2. <<"dispatch", p, pair[p].epoch>> \in Keys
        BY <2>2, <4>1 DEF HistoryInv, NothingUnqueued
      <4> QED
        BY <1>14, <4>1, <4>2 DEF TameOutbox
    <3>2. CASE p.pull \in moved
      <4>1. PICK r \in refs : r.pair.pull = p.pull
        BY <1>5, <3>2
      <4>2. p = r.pair /\ IsOpen(r) /\ ~r.draft
        BY <1>9, <2>2, <4>1
      <4>3. CASE ~SamePair(r)
        <5>1. pair'[p].epoch = NextEpoch(r.pair.pull)
          BY <1>9, <4>1, <4>2, <4>3
        <5>2. <<"dispatch", p, NextEpoch(r.pair.pull)>> \in WorkFor(r)
          BY <4>2, <4>3 DEF WorkFor, PairWork
        <5> QED
          BY <1>4, <1>14, <5>1, <5>2
      <4>4. CASE SamePair(r)
        <5>1. pair'[p].epoch = pair[p].epoch /\ ~pair[p].quarantined /\ pair[p].active
          BY <1>9, <2>2, <4>1, <4>2, <4>4 DEF SamePair
        <5>2. GateOf(p) \in Bound(r.pair)
          BY <1>2, <4>2, <5>1, GateOfActive DEF Bound, BoundTo
        <5>3. <<"dispatch", p, pair[p].epoch>> \in WorkFor(r)
          BY <4>2, <4>4, <5>1, <5>2 DEF WorkFor, PairWork
        <5> QED
          BY <1>4, <1>14, <5>1, <5>3
      <4> QED
        BY <4>3, <4>4
    <3> QED
      BY <3>1, <3>2
  <2>3. UniqueKeys'
    BY <1>14 DEF HistoryInv, NothingUnqueued, UniqueKeys, TameOutbox
  <2> QED
    BY <2>1, <2>2, <2>3 DEF NothingUnqueued, UniqueKeys
<1>20. MergeHeadsRetireForGood'
  <2>1. \A g \in GateId : g.key \in MergeRefs => gate'[g] = gate[g]
    BY <1>15, StoreAssumption
  <2> QED
    BY <2>1 DEF HistoryInv, MergeHeadsRetireForGood
<1> QED
  BY <1>13, <1>17, <1>18, <1>19, <1>20 DEF HistoryInv

\* A pull_request webhook keeps the invariant.
LEMMA PullRequestHistory ==
    ASSUME HistoryInv, SafeInv', NEW r \in PullRef, ApplyPullRequest(r)
    PROVE  HistoryInv'
<1> DEFINE refs == IF Repeated(r) THEN {} ELSE {r}
<1>1. Project(refs, {}, {}) /\ HasRoom(r) /\ ~Outdated(r)
  BY DEF ApplyPullRequest
<1>2. /\ refs \in SUBSET PullRef /\ \A x \in refs : HasRoom(x) /\ ~Outdated(x)
      /\ \A x, y \in refs : x = y
  BY <1>1
<1> HIDE DEF refs
<1> QED
  BY <1>1, <1>2, ProjectHistory

\* Both steps of a reconciliation keep the invariant.
LEMMA ReconciliationHistory ==
    ASSUME HistoryInv, SafeInv', Reconciliation
    PROVE  HistoryInv'
<1>1. CASE BeginRepositorySnapshot
  BY <1>1, UntouchedTame, TameStep DEF BeginRepositorySnapshot
<1>2. CASE \E token \in 1 .. generation, pulls \in Lists :
             ReconcileOpenPullRequests(token, pulls)
  <2>1. PICK token \in 1 .. generation, pulls \in Lists :
           ReconcileOpenPullRequests(token, pulls)
    BY <1>2
  <2>2. pulls \in SUBSET PullRef
    BY DEF Lists
  <2>3. \A r, s \in pulls : r.pair.pull = s.pair.pull => r = s
    BY DEF Lists
  <2> DEFINE listed  == {r.pair.pull : r \in pulls}
             applied == {r \in pulls : ~Outdated(r) /\ ~Repeated(r)}
             again   == {r \in pulls \ applied :
                           SamePair(r) /\ ~pair[r.pair].quarantined}
             closing == {p \in PairId : pair[p].active /\ p.pull \notin listed}
             more    == UNION {{Evaluation(r.pair, pair[r.pair].epoch, gate[g].revision) :
                                  g \in Bound(r.pair)} : r \in again}
  <2>4. (\A r \in applied : HasRoom(r)) /\ Project(applied, closing, more)
    BY <2>1 DEF ReconcileOpenPullRequests
  <2>5. /\ applied \in SUBSET PullRef /\ closing \in SUBSET PairId
        /\ \A r \in applied : ~Outdated(r)
        /\ \A r, s \in applied : r.pair.pull = s.pair.pull => r = s
        /\ \A p \in closing : \A r \in applied : p.pull # r.pair.pull
    BY <2>2, <2>3
  <2> HIDE DEF applied, closing, more
  <2> QED
    BY <2>4, <2>5, ProjectHistory
<1> QED
  BY <1>1, <1>2 DEF Reconciliation

\* An evidence webhook of either kind keeps the invariant.
LEMMA EvidenceWebhookHistory ==
    ASSUME HistoryInv, SafeInv', NEW input,
           \/ \E n \in Pulls, h \in Heads \cup {None} :
                 ApplyPullEvidence(n, h, input)
           \/ \E h \in Heads : ApplyShaEvidence(h, input)
    PROVE  HistoryInv'
<1>1. ASSUME NEW n, NEW h, ApplyPullEvidence(n, h, input) PROVE HistoryInv'
  <2>1. PICK p \in Current(n) : InvalidateForEvidence({p}, input)
    BY <1>1 DEF ApplyPullEvidence
  <2>2. {p} \in SUBSET PairId
    BY DEF Current
  <2> QED
    BY <2>1, <2>2, EvidenceHistory
<1>2. ASSUME NEW h, ApplyShaEvidence(h, input) PROVE HistoryInv'
  <2> DEFINE pairs == {p \in PairId : /\ p.head = h
                                      /\ pair[p].active /\ ~pair[p].quarantined}
  <2>1. InvalidateForEvidence(pairs, input) /\ pairs \in SUBSET PairId
    BY <1>2 DEF ApplyShaEvidence
  <2> HIDE DEF pairs
  <2> QED
    BY <2>1, EvidenceHistory
<1> QED
  BY <1>1, <1>2

-----------------------------------------------------------------------------
(* The theorems.                                                           *)

\* The empty store satisfies the invariant.
LEMMA InitHistory == StoreInit => HistoryInv
<1> SUFFICES ASSUME StoreInit PROVE HistoryInv
  OBVIOUS
<1>1. \A p \in PairId : ~pair[p].active /\ pair[p].epoch = 0
  BY DEF StoreInit, NoPair
<1>2. \A g \in GateId : ~gate[g].active /\ gate[g].revision = 0
  BY DEF StoreInit, NoGate, NewGate
<1>3. outbox = {}
  BY DEF StoreInit
<1> QED
  BY <1>1, <1>2, <1>3, InitSafe DEF HistoryInv, ActiveIsRevised, GateEpochsKnown,
     ActivePairIsNewest, NothingUnqueued, MergeHeadsRetireForGood, Known

\* HistoryInv is inductive.
LEMMA NextHistory ==
    ASSUME HistoryInv, [StoreNext]_store
    PROVE  HistoryInv'
<1>1. SafeInv'
  BY NextSafe DEF HistoryInv
<1>2. CASE Webhook
  BY <1>1, <1>2, PullRequestHistory, EvidenceWebhookHistory, PushHistory,
     MalformedHistory, MergeGroupHistory DEF Webhook
<1>3. CASE UNCHANGED store
  BY <1>1, <1>3, UntouchedTame, TameStep DEF store
<1> QED
  BY <1>1, <1>2, <1>3, ReconciliationHistory, PairOperationHistory,
     GateOperationHistory, OutboxOperationHistory, TimeHistory DEF StoreNext

\* HistoryInv is an invariant of the store under any callers.
LEMMA History == StoreSpec => []HistoryInv
BY InitHistory, NextHistory, PTL DEF StoreSpec

\* Whatever the order in which pull_request webhooks and reconciliations
\* arrive, applyPullRequest never puts an older input under review, and two
\* pairs of a pull request never share an epoch.
THEOREM NewestUnderReview == StoreSpec => []ActivePairIsNewest
<1>1. HistoryInv => ActivePairIsNewest
  BY DEF HistoryInv
<1> QED
  BY <1>1, History, PTL

\* Every revision of a gate has its publication in the outbox and every ready
\* pair outside quarantine its dispatch; ON CONFLICT (dedupe_key) DO NOTHING
\* never drops work that was not queued.
THEOREM OutboxComplete == StoreSpec => []NothingUnqueued
<1>1. HistoryInv => NothingUnqueued
  BY DEF HistoryInv
<1> QED
  BY <1>1, History, PTL

\* A merge-group head that was destroyed or superseded never comes back.
THEOREM MergeHeadsRetire == StoreSpec => []MergeHeadsRetireForGood
<1>1. HistoryInv => MergeHeadsRetireForGood
  BY DEF HistoryInv
<1> QED
  BY <1>1, History, PTL

-----------------------------------------------------------------------------
(* What one transaction never takes back, whoever calls it.  A worker that *)
(* read a row and waits relies on this: as long as the fence of its lease  *)
(* is the row's, what it read is still so.                                 *)

\* The columns of a pair row that a decision reads.
SameInput(old, new) ==
    /\ new.epoch = old.epoch /\ new.active = old.active
    /\ new.quarantined = old.quarantined
    /\ new.draft = old.draft /\ new.state = old.state

\* ... and the rows of its epoch, but for a command that is not sent yet and
\* for the deadline.
SameReview(p) ==
    /\ SameInput(pair[p], pair'[p])
    /\ evidence'[EpochOf(p)] = evidence[EpochOf(p)]
    /\ dispatch[EpochOf(p)].state = "sent" =>
          /\ dispatch'[EpochOf(p)].state = "sent"
          /\ dispatch'[EpochOf(p)].dispatchedAt = dispatch[EpochOf(p)].dispatchedAt

\* What a decision reads changes only together with the fence of the pair,
\* and no gate of the pair wants success afterwards.
PairKept(p) ==
    /\ pair'[p].epoch > 0
    /\ pair'[p].fence >= pair[p].fence
    /\ \/ SameReview(p)
       \/ /\ pair'[p].fence > pair[p].fence
          /\ \A g \in Bound(p) : gate'[g].desired # "success"

\* What a gate wants changes only together with its revision, and the pair
\* it is about never.
GateKept(g) ==
    gate[g].revision > 0 =>
        /\ gate'[g].pair = gate[g].pair
        /\ gate'[g].revision >= gate[g].revision
        /\ gate'[g].fence >= gate[g].fence
        /\ gate'[g].revision = gate[g].revision => gate'[g].desired = gate[g].desired

\* No gate comes to want success.
SuccessKept(g) ==
    gate'[g].desired = "success" =>
        gate[g].desired = "success" /\ gate'[g].pair = gate[g].pair

\* The command of the epoch may have been posted.
Attempted(d) == dispatch[d].state \in {"attempting", "sent", "abandoned"}

PairsKept == \A p \in PairId : pair[p].epoch > 0 => PairKept(p)
GatesKept == \A g \in GateId : GateKept(g)
SuccessesKept == \A g \in GateId : SuccessKept(g)
AttemptsKept == \A d \in EpochId : Attempted(d) => Attempted(d)'

\* Every transaction keeps what was promised ...
Kept == PairsKept /\ GatesKept /\ AttemptsKept

\* ... and all but a commit leave success to those who have it.
Steady == Kept /\ SuccessesKept

-----------------------------------------------------------------------------
(* Rows.                                                                   *)

\* Fences and leases do not touch what a decision reads.
LEMMA RowsKept ==
    ASSUME NEW row \in PairRow
    PROVE  /\ SameInput(row, row) /\ SameInput(row, Fenced(row))
           /\ SameInput(row, Unleased(row))
           /\ Fenced(row).fence = row.fence + 1 /\ Unleased(row).fence = row.fence
           /\ row.fence \in Nat
BY DEF PairRow, Fenced, Unleased, SameInput

\* A revision advances the revision and the fence.
LEMMA RevisionMoves ==
    ASSUME NEW row \in GateRow, NEW desired
    PROVE  /\ Revised(row, desired).revision = row.revision + 1
           /\ Revised(row, desired).fence = row.fence + 1
           /\ Revised(row, desired).desired = desired
           /\ Revised(row, desired).pair = row.pair
           /\ row.revision \in Nat /\ row.fence \in Nat
BY DEF GateRow, Revised

\* ... in its second form too.
LEMMA RevisionMovesAs ==
    ASSUME NEW row \in GateRow, NEW desired, NEW active
    PROVE  /\ RevisedAs(row, desired, active).revision = row.revision + 1
           /\ RevisedAs(row, desired, active).fence = row.fence + 1
           /\ RevisedAs(row, desired, active).desired = desired
           /\ RevisedAs(row, desired, active).pair = row.pair
BY DEF GateRow, Revised, RevisedAs

\* A gate that is revised, or left alone, keeps its promises.
LEMMA RevisedKept ==
    ASSUME TypeOK, NEW g \in GateId,
           \/ gate'[g] = gate[g]
           \/ /\ gate'[g].revision = gate[g].revision + 1
              /\ gate'[g].fence = gate[g].fence + 1
              /\ gate'[g].pair = gate[g].pair
    PROVE  GateKept(g)
<1>1. gate[g].revision \in Nat /\ gate[g].fence \in Nat
  BY DEF TypeOK, GateRow
<1> QED
  BY <1>1 DEF GateKept

\* A transaction that leaves a table alone keeps what it promised.
LEMMA UntouchedKept ==
    ASSUME TypeOK
    PROVE  /\ UNCHANGED <<pair, dispatch, evidence>> => PairsKept
           /\ UNCHANGED gate => GatesKept /\ SuccessesKept
           /\ UNCHANGED dispatch => AttemptsKept
<1>1. ASSUME UNCHANGED <<pair, dispatch, evidence>> PROVE PairsKept
  <2> SUFFICES ASSUME NEW p \in PairId, pair[p].epoch > 0 PROVE PairKept(p)
    BY DEF PairsKept
  <2>1. pair[p] \in PairRow /\ pair'[p] = pair[p]
    BY <1>1 DEF TypeOK
  <2>2. SameReview(p)
    BY <1>1, <2>1 DEF SameReview, SameInput
  <2> QED
    BY <2>1, <2>2, RowsKept DEF PairKept
<1>2. ASSUME UNCHANGED gate PROVE GatesKept /\ SuccessesKept
  BY <1>2, RevisedKept DEF GatesKept, SuccessesKept, SuccessKept
<1>3. ASSUME UNCHANGED dispatch PROVE AttemptsKept
  BY <1>3 DEF AttemptsKept, Attempted
<1> QED
  BY <1>1, <1>2, <1>3

\* Fencing and releasing pairs is invisible to a decision.
LEMMA LeasedKept ==
    ASSUME TypeOK, UNCHANGED <<dispatch, evidence>>,
           \A p \in PairId : \/ pair'[p] = pair[p]
                             \/ pair'[p] = Fenced(pair[p])
                             \/ pair'[p] = Unleased(pair[p])
    PROVE  PairsKept
<1> SUFFICES ASSUME NEW p \in PairId, pair[p].epoch > 0 PROVE PairKept(p)
  BY DEF PairsKept
<1>1. pair[p] \in PairRow
  BY DEF TypeOK
<1>2. SameInput(pair[p], pair'[p]) /\ pair'[p].fence >= pair[p].fence
  <2>1. CASE pair'[p] = pair[p]
    BY <1>1, <2>1, RowsKept
  <2>2. CASE pair'[p] = Fenced(pair[p])
    BY <1>1, <2>2, RowsKept
  <2>3. CASE pair'[p] = Unleased(pair[p])
    BY <1>1, <2>3, RowsKept
  <2> QED
    BY <2>1, <2>2, <2>3
<1>3. SameReview(p)
  BY <1>2 DEF SameReview
<1> QED
  BY <1>2, <1>3 DEF PairKept, SameInput

\* Revising gates to anything but success.
LEMMA WithdrawnKept ==
    ASSUME TypeOK, NEW gates,
           \A g \in GateId : IF g \in gates
               THEN /\ gate'[g].revision = gate[g].revision + 1
                    /\ gate'[g].fence = gate[g].fence + 1
                    /\ gate'[g].pair = gate[g].pair
                    /\ gate'[g].desired # "success"
               ELSE gate'[g] = gate[g]
    PROVE  GatesKept /\ SuccessesKept
<1>1. GatesKept
  BY RevisedKept DEF GatesKept
<1>2. SuccessesKept
  BY DEF SuccessesKept, SuccessKept
<1> QED
  BY <1>1, <1>2

-----------------------------------------------------------------------------
(* Webhooks.                                                               *)

\* New evidence fences its pairs and revokes their gates.
LEMMA EvidenceKept ==
    ASSUME TypeOK, NEW pairs \in SUBSET PairId, NEW input,
           InvalidateForEvidence(pairs, input)
    PROVE  Steady
<1> DEFINE gates == BoundTo(pairs)
<1>1. /\ pair' = [p \in PairId |->
                     IF p \in pairs THEN Fenced(pair[p]) ELSE pair[p]]
      /\ gate' = [g \in GateId |->
                     IF g \in gates THEN RevisedAs(gate[g], "revoked", TRUE)
                     ELSE gate[g]]
      /\ evidence' = [d \in EpochId |->
                      IF \E p \in pairs : d = EpochOf(p)
                      THEN UpsertEvidence(evidence[d], input)
                      ELSE evidence[d]]
      /\ UNCHANGED dispatch
  BY DEF InvalidateForEvidence, Invalidated
<1>2. ASSUME NEW g \in gates
      PROVE  /\ gate'[g].revision = gate[g].revision + 1
             /\ gate'[g].fence = gate[g].fence + 1
             /\ gate'[g].pair = gate[g].pair
             /\ gate'[g].desired = "revoked"
  <2>1. g \in GateId /\ gate[g] \in GateRow
    BY DEF TypeOK, BoundTo
  <2>2. gate'[g] = RevisedAs(gate[g], "revoked", TRUE)
    BY <1>1, <2>1
  <2> QED
    BY <2>1, <2>2 DEF GateRow, Revised, RevisedAs
<1>3. \A g \in GateId \ gates : gate'[g] = gate[g]
  BY <1>1
<1>4. ASSUME NEW p \in PairId, pair[p].epoch > 0 PROVE PairKept(p)
  <2>1. pair[p] \in PairRow /\ EpochOf(p) \in EpochId
    BY <1>4 DEF TypeOK, PairRow, EpochOf, EpochId, Epochs
  <2>2. CASE p \in pairs
    <3>1. pair'[p] = Fenced(pair[p])
      BY <1>1, <2>2
    <3>2. pair'[p].fence > pair[p].fence /\ pair'[p].epoch > 0
      BY <1>4, <2>1, <3>1, RowsKept DEF SameInput
    <3>3. \A g \in Bound(p) : g \in gates
      BY <2>2 DEF Bound, BoundTo
    <3>4. \A g \in Bound(p) : gate'[g].desired # "success"
      BY <1>2, <3>3
    <3>5. pair'[p].fence >= pair[p].fence
      BY <2>1, <3>1, RowsKept
    <3> QED
      BY <3>2, <3>4, <3>5 DEF PairKept
  <2>3. CASE p \notin pairs
    <3>1. pair'[p] = pair[p]
      BY <1>1, <2>3
    <3>2. ~\E q \in pairs : EpochOf(p) = EpochOf(q)
      BY <2>3 DEF EpochOf
    <3>3. evidence'[EpochOf(p)] = evidence[EpochOf(p)]
      BY <1>1, <2>1, <3>2
    <3>4. SameReview(p)
      BY <1>1, <3>1, <3>3 DEF SameReview, SameInput
    <3> QED
      BY <1>4, <2>1, <3>1, <3>4, RowsKept DEF PairKept
  <2> QED
    BY <2>2, <2>3
<1> HIDE DEF gates
<1>5. GatesKept /\ SuccessesKept
  BY <1>2, <1>3, WithdrawnKept
<1> QED
  BY <1>1, <1>4, <1>5, UntouchedKept DEF Steady, Kept, PairsKept

\* A push fences pairs and revokes gates.
LEMMA PushKept == ASSUME TypeOK, ApplyPush PROVE Steady
<1> DEFINE pairs == {p \in PairId : pair[p].active /\ ~pair[p].quarantined}
           gates == BoundTo(pairs)
                      \cup {g \in GateId : IsMerge(g) /\ gate[g].active
                                             /\ ~gate[g].quarantined}
<1>1. /\ pair' = [p \in PairId |->
                     IF p \in pairs THEN Fenced(pair[p]) ELSE pair[p]]
      /\ gate' = [g \in GateId |->
                     IF g \in gates THEN Revised(gate[g], "revoked") ELSE gate[g]]
      /\ UNCHANGED <<dispatch, evidence>>
  BY DEF ApplyPush
<1> HIDE DEF pairs, gates
<1>2. PairsKept
  BY <1>1, LeasedKept
<1>3. \A g \in GateId : gate[g] \in GateRow
  BY DEF TypeOK
<1>4. GatesKept /\ SuccessesKept
  BY <1>1, <1>3, RevisionMoves, WithdrawnKept
<1> QED
  BY <1>1, <1>2, <1>4, UntouchedKept DEF Steady, Kept

\* A quarantine fences every active pair and fails its gate.
LEMMA QuarantineKept ==
    ASSUME TypeOK, NEW gates, BoundTo({p \in PairId : pair[p].active}) \subseteq gates,
           NEW more, Quarantine(gates, more)
    PROVE  Steady
<1> DEFINE pairs == {p \in PairId : pair[p].active}
<1>1. /\ pair' = [p \in PairId |->
              IF p \in pairs THEN [Fenced(pair[p]) EXCEPT !.quarantined = TRUE]
              ELSE pair[p]]
      /\ dispatch' = [d \in EpochId |->
              IF \E p \in pairs : d = EpochOf(p) THEN Abandoned(dispatch[d])
              ELSE dispatch[d]]
      /\ gate' = [g \in GateId |->
              IF g \in gates
              THEN [Revised(gate[g], "failure") EXCEPT !.quarantined = TRUE]
              ELSE gate[g]]
      /\ UNCHANGED evidence
  BY DEF Quarantine
<1>2. BoundTo(pairs) \subseteq gates
  OBVIOUS
<1> HIDE DEF pairs
<1>3. ASSUME NEW g \in GateId, g \in gates
      PROVE  /\ gate'[g].revision = gate[g].revision + 1
             /\ gate'[g].fence = gate[g].fence + 1
             /\ gate'[g].pair = gate[g].pair
             /\ gate'[g].desired = "failure"
  <2>1. gate[g] \in GateRow
    BY DEF TypeOK
  <2>2. gate'[g] = [Revised(gate[g], "failure") EXCEPT !.quarantined = TRUE]
    BY <1>1, <1>3
  <2> QED
    BY <2>1, <2>2 DEF GateRow, Revised
<1>4. \A g \in GateId : g \notin gates => gate'[g] = gate[g]
  BY <1>1
<1>5. GatesKept /\ SuccessesKept
  BY <1>3, <1>4, WithdrawnKept
<1>6. ASSUME NEW p \in PairId, pair[p].epoch > 0 PROVE PairKept(p)
  <2>1. pair[p] \in PairRow /\ EpochOf(p) \in EpochId
    BY <1>6 DEF TypeOK, PairRow, EpochOf, EpochId, Epochs
  <2>2. CASE p \in pairs
    <3>1. pair'[p] = [Fenced(pair[p]) EXCEPT !.quarantined = TRUE]
      BY <1>1, <2>2
    <3>2. pair'[p].epoch = pair[p].epoch /\ pair'[p].fence = pair[p].fence + 1
      BY <2>1, <3>1 DEF PairRow, Fenced
    <3>3. \A g \in Bound(p) : g \in GateId /\ g \in gates
      BY <1>2, <2>2 DEF Bound, BoundTo
    <3>4. \A g \in Bound(p) : gate'[g].desired # "success"
      BY <1>3, <3>3
    <3> QED
      BY <1>6, <2>1, <3>2, <3>4, RowsKept DEF PairKept
  <2>3. CASE p \notin pairs
    <3>1. pair'[p] = pair[p]
      BY <1>1, <2>3
    <3>2. ~\E q \in pairs : EpochOf(p) = EpochOf(q)
      BY <2>3 DEF EpochOf
    <3>3. dispatch'[EpochOf(p)] = dispatch[EpochOf(p)]
      BY <1>1, <2>1, <3>2
    <3>4. SameReview(p)
      BY <1>1, <3>1, <3>3 DEF SameReview, SameInput
    <3> QED
      BY <1>6, <2>1, <3>1, <3>4, RowsKept DEF PairKept
  <2> QED
    BY <2>2, <2>3
<1>7. AttemptsKept
  <2> SUFFICES ASSUME NEW d \in EpochId, Attempted(d)
               PROVE  dispatch'[d].state \in {"attempting", "sent", "abandoned"}
    BY DEF AttemptsKept, Attempted
  <2>1. dispatch[d] \in DispatchRow
    BY DEF TypeOK
  <2>2. Abandoned(dispatch[d]).state \in {"attempting", "sent", "abandoned"}
    BY <2>1 DEF Abandoned, DispatchRow, Attempted
  <2> QED
    BY <1>1, <2>2 DEF Attempted
<1> QED
  BY <1>5, <1>6, <1>7 DEF Steady, Kept, PairsKept

\* A merge group event touches no pair, and a new gate is a row that did not
\* exist.
LEMMA MergeGroupKept ==
    ASSUME HistoryInv, NEW ref \in MergeRefs, NEW h \in Heads,
           RequestMergeGroup(ref, h) \/ DestroyMergeGroup(ref, h)
    PROVE  Steady
<1>0. TypeOK
  BY DEF HistoryInv, SafeInv
<1>1. UNCHANGED <<pair, dispatch, evidence>>
  BY DEF RequestMergeGroup, DestroyMergeGroup
<1>2. ASSUME NEW g \in GateId, gate[g] \in GateRow,
             \/ gate' = [gate EXCEPT ![g] = RevisedAs(@, "revoked", TRUE)]
             \/ gate' = [gate EXCEPT ![g] = RevisedAs(@, "cancelled", FALSE)]
      PROVE  GatesKept /\ SuccessesKept
  <2>1. \/ gate'[g] = RevisedAs(gate[g], "revoked", TRUE)
        \/ gate'[g] = RevisedAs(gate[g], "cancelled", FALSE)
    BY <1>0, <1>2 DEF TypeOK
  <2>2. /\ gate'[g].revision = gate[g].revision + 1
        /\ gate'[g].fence = gate[g].fence + 1
        /\ gate'[g].pair = gate[g].pair
        /\ gate'[g].desired # "success"
    BY <1>2, <2>1 DEF GateRow, Revised, RevisedAs
  <2>3. \A x \in GateId : x \notin {g} => gate'[x] = gate[x]
    BY <1>0, <1>2 DEF TypeOK
  <2> QED
    BY <1>0, <2>2, <2>3, WithdrawnKept
<1>3. ASSUME NEW old, NEW row, row.desired \in {"revoked", "cancelled"},
             InsertMergeGate(ref, old, row)
      PROVE  GatesKept /\ SuccessesKept
  <2> DEFINE new == [key |-> ref, epoch |-> NextMergeEpoch(ref)]
  <2>1. /\ new.epoch <= MaxEpoch
        /\ gate' = [g \in GateId |->
                IF g = new THEN row
                ELSE IF g \in old THEN RevisedAs(gate[g], "cancelled", FALSE)
                ELSE gate[g]]
    BY <1>3 DEF InsertMergeGate
  <2>2. new \in GateId /\ new.key = ref /\ new.epoch = NextMergeEpoch(ref) /\ new.epoch \in Nat
    BY <1>0, <2>1, NextMergeEpochAbove, StoreAssumption DEF GateId, Epochs
  <2> HIDE DEF new
  <2>3. ~(gate[new].revision > 0)
    <3>1. gate[new].revision > 0 => new.epoch < NextMergeEpoch(ref)
      BY <1>0, <2>2, NextMergeEpochAbove
    <3> QED
      BY <2>2, <3>1
  <2>4. ASSUME NEW g \in GateId PROVE GateKept(g) /\ SuccessKept(g)
    <3>1. CASE g = new
      BY <1>3, <2>1, <2>2, <2>3, <3>1 DEF GateKept, SuccessKept
    <3>2. CASE g # new /\ g \in old
      <4>1. gate[g] \in GateRow /\ gate'[g] = RevisedAs(gate[g], "cancelled", FALSE)
        BY <1>0, <2>1, <3>2 DEF TypeOK
      <4>2. /\ gate'[g].revision = gate[g].revision + 1
            /\ gate'[g].fence = gate[g].fence + 1
            /\ gate'[g].pair = gate[g].pair
            /\ gate'[g].desired = "cancelled"
        BY <4>1 DEF GateRow, Revised, RevisedAs
      <4> QED
        BY <1>0, <4>2, RevisedKept DEF SuccessKept
    <3>3. CASE g # new /\ g \notin old
      <4>1. gate'[g] = gate[g]
        BY <2>1, <3>3
      <4> QED
        BY <1>0, <4>1, RevisedKept DEF SuccessKept
    <3> QED
      BY <3>1, <3>2, <3>3
  <2> QED
    BY <2>4 DEF GatesKept, SuccessesKept
<1>4. GatesKept /\ SuccessesKept
  <2>1. CASE RequestMergeGroup(ref, h)
    <3>1. CASE \E g \in MergeGate(ref) : ReviseMergeGate(g, "revoked", TRUE)
      BY <1>0, <1>2, <3>1 DEF MergeGate, ReviseMergeGate, TypeOK
    <3>2. CASE InsertMergeGate(ref, MergeGate(ref), NewGate(None, h, TRUE, "revoked"))
      <4> DEFINE row == NewGate(None, h, TRUE, "revoked")
      <4>1. row.desired = "revoked"
        BY DEF NewGate
      <4>2. InsertMergeGate(ref, MergeGate(ref), row)
        BY <3>2
      <4> HIDE DEF row
      <4> QED
        BY <1>3, <4>1, <4>2
    <3> QED
      BY <2>1, <3>1, <3>2 DEF RequestMergeGroup
  <2>2. CASE DestroyMergeGroup(ref, h)
    <3>1. CASE \E g \in MergeGate(ref) : ReviseMergeGate(g, "cancelled", FALSE)
      BY <1>0, <1>2, <3>1 DEF MergeGate, ReviseMergeGate, TypeOK
    <3>2. CASE InsertMergeGate(ref, {}, NewGate(None, h, FALSE, "cancelled"))
      <4> DEFINE row == NewGate(None, h, FALSE, "cancelled")
      <4>1. row.desired = "cancelled"
        BY DEF NewGate
      <4>2. InsertMergeGate(ref, {}, row)
        BY <3>2
      <4> HIDE DEF row
      <4> QED
        BY <1>3, <4>1, <4>2
    <3> QED
      BY <2>2, <3>1, <3>2 DEF DestroyMergeGroup
  <2> QED
    BY <2>1, <2>2
<1> QED
  BY <1>0, <1>1, <1>4, UntouchedKept DEF Steady, Kept

-----------------------------------------------------------------------------
(* Project.                                                                *)

\* A report fences the rows it changes.
LEMMA PairAfterKept ==
    ASSUME TypeOK, NEW r \in PullRef, NEW p \in PairId, pair[p].epoch > 0
    PROVE  \/ PairAfter(p, r) = pair[p] /\ ~pair[p].active
           \/ /\ PairAfter(p, r).fence = pair[p].fence + 1
              /\ pair[p].active \/ p = r.pair
<1>1. pair[p] \in PairRow /\ Fenced(pair[p]) \in PairRow
  BY PairRows DEF TypeOK
<1>2. Fenced(pair[p]).fence = pair[p].fence + 1
  BY <1>1, RowsKept
<1>3. CASE p = r.pair /\ SamePair(r)
  <2> DEFINE open == IsOpen(r)
  <2>1. PairAfter(p, r) = [Fenced(pair[p]) EXCEPT !.draft = r.draft, !.state = r.state,
                                      !.srcAt = r.at, !.active = open]
    BY <1>3 DEF PairAfter
  <2> HIDE DEF open
  <2>2. PairAfter(p, r).fence = Fenced(pair[p]).fence
    BY <1>1, <2>1 DEF PairRow
  <2> QED
    BY <1>2, <1>3, <2>2
<1>4. CASE p = r.pair /\ ~SamePair(r)
  BY <1>4 DEF PairAfter, OpenEpoch
<1>5. CASE p # r.pair /\ pair[p].active
  <2>1. PairAfter(p, r) = [Fenced(pair[p]) EXCEPT !.active = FALSE]
    BY <1>5 DEF PairAfter
  <2>2. PairAfter(p, r).fence = Fenced(pair[p]).fence
    BY <1>1, <2>1 DEF PairRow
  <2> QED
    BY <1>2, <1>5, <2>2
<1>6. CASE p # r.pair /\ ~pair[p].active
  BY <1>6 DEF PairAfter
<1> QED
  BY <1>3, <1>4, <1>5, <1>6

\* A report advances the gates it finds.
LEMMA GateAfterFence ==
    ASSUME TypeOK, NEW r \in PullRef, NEW g \in GateId, SamePair(r) \/ g # NewGateId(r)
    PROVE  /\ GateAfter(g, r).fence = gate[g].fence + 1
           /\ GateAfter(g, r).pair = gate[g].pair
<1>1. gate[g] \in GateRow
  BY DEF TypeOK
<1>2. CASE SamePair(r)
  <2> DEFINE open == IsOpen(r)
  <2>1. GateAfter(g, r) = RevisedAs(gate[g], DesiredAfter(r), open)
    BY <1>2 DEF GateAfter
  <2> HIDE DEF open
  <2> QED
    BY <1>1, <2>1, RevisionMovesAs
<1>3. CASE ~SamePair(r) /\ g # NewGateId(r)
  <2>1. GateAfter(g, r) = RevisedAs(gate[g], "failure", FALSE)
    BY <1>3 DEF GateAfter
  <2> QED
    BY <1>1, <2>1 DEF GateRow, Revised, RevisedAs
<1> QED
  BY <1>2, <1>3

\* Applying reports and closing pairs fences what moves and fails its gates.
LEMMA ProjectKept ==
    ASSUME HistoryInv, TypeOK', NEW refs \in SUBSET PullRef,
           \A r, s \in refs : r.pair.pull = s.pair.pull => r = s,
           NEW closing \in SUBSET PairId,
           \A p \in closing : \A r \in refs : p.pull # r.pair.pull,
           NEW more, Project(refs, closing, more)
    PROVE  Steady
<1> DEFINE refOf(n)   == CHOOSE r \in refs : r.pair.pull = n
           causeOf(g) == CHOOSE r \in refs : g \in TouchedBy(r)
           moved      == {r.pair.pull : r \in refs}
           touched    == {g \in GateId : \E r \in refs : g \in TouchedBy(r)}
           shut       == BoundTo(closing)
<1>1. /\ pair' = [p \in PairId |->
              IF p \in closing
              THEN [Fenced(pair[p]) EXCEPT !.active = FALSE, !.state = "closed"]
              ELSE IF p.pull \in moved THEN PairAfter(p, refOf(p.pull))
              ELSE pair[p]]
      /\ gate' = [g \in GateId |->
              IF g \in shut THEN RevisedAs(gate[g], "failure", FALSE)
              ELSE IF g \in touched THEN GateAfter(g, causeOf(g))
              ELSE gate[g]]
      /\ UNCHANGED <<dispatch, evidence>>
  BY DEF Project
<1>2. SafeInv /\ TypeOK
  BY DEF HistoryInv, SafeInv
<1>3. \A n \in moved : refOf(n) \in refs /\ refOf(n).pair.pull = n
  OBVIOUS
<1>4. \A g \in touched : causeOf(g) \in refs /\ g \in TouchedBy(causeOf(g)) /\ g \in GateId
  OBVIOUS
<1>5. \A r \in refs : \A g \in GateId : g \in TouchedBy(r) => g \in touched
  OBVIOUS
<1>6. \A g \in GateId : g \in shut <=> (gate[g].active /\ gate[g].pair \in closing)
  BY DEF BoundTo
<1> HIDE DEF refOf, causeOf, moved, touched, shut
\* The gates.
<1>7. ASSUME NEW g \in GateId
      PROVE  /\ GateKept(g) /\ SuccessKept(g)
             /\ (g \in shut \/ g \in touched) => gate'[g].desired # "success"
  <2>0. gate[g] \in GateRow
    BY <1>2 DEF TypeOK
  <2>1. CASE g \in shut
    <3>1. gate'[g] = RevisedAs(gate[g], "failure", FALSE)
      BY <1>1, <2>1
    <3>2. /\ gate'[g].revision = gate[g].revision + 1
          /\ gate'[g].fence = gate[g].fence + 1
          /\ gate'[g].pair = gate[g].pair
          /\ gate'[g].desired = "failure"
      BY <2>0, <3>1 DEF GateRow, Revised, RevisedAs
    <3> QED
      BY <1>2, <3>2, RevisedKept DEF SuccessKept
  <2>2. CASE g \notin shut /\ g \in touched
    <3> DEFINE r == causeOf(g)
    <3>1. r \in refs /\ r \in PullRef /\ gate'[g] = GateAfter(g, r) /\ g \in TouchedBy(r)
      BY <1>1, <1>4, <2>2
    <3> HIDE DEF r
    <3>2. gate'[g].desired # "success"
      <4>1. GateAfter(g, r).desired # "success"
        BY <1>2, <3>1, GateAfterFacts, Zenon
      <4> QED
        BY <3>1, <4>1
    <3>3. CASE ~SamePair(r) /\ g = NewGateId(r)
      <4>1. ~(gate[g].revision > 0)
        <5>1. g.key = r.pair.pull /\ g.epoch = NextEpoch(g.key) /\ r.pair.pull \in Pulls
          BY <3>1, <3>3 DEF NewGateId, PullRef, PairId
        <5>2. \A p \in Known(g.key) : pair[p].epoch < g.epoch /\ pair[p].epoch \in Nat
                                        /\ g.epoch \in Nat
          BY <1>2, <5>1, NextEpochAbove, StoreAssumption DEF TypeOK, PairRow, Known
        <5>3. GateEpochsKnown
          BY DEF HistoryInv
        <5> QED
          BY <5>1, <5>2, <5>3 DEF GateEpochsKnown
      <4> QED
        BY <3>2, <4>1 DEF GateKept, SuccessKept
    <3>4. CASE SamePair(r) \/ g # NewGateId(r)
      <4>1. gate'[g].revision = gate[g].revision + 1
        BY <1>2, <3>1, <3>4, GateAfterRevision
      <4>2. gate'[g].fence = gate[g].fence + 1 /\ gate'[g].pair = gate[g].pair
        BY <1>2, <3>1, <3>4, GateAfterFence
      <4> QED
        BY <1>2, <3>2, <4>1, <4>2, RevisedKept DEF SuccessKept
    <3> QED
      BY <3>2, <3>3, <3>4
  <2>3. CASE g \notin shut /\ g \notin touched
    <3>1. gate'[g] = gate[g]
      BY <1>1, <2>3
    <3> QED
      BY <1>2, <2>3, <3>1, RevisedKept DEF SuccessKept
  <2> QED
    BY <2>1, <2>2, <2>3
\* The pairs.
<1>8. ASSUME NEW p \in PairId, pair[p].epoch > 0 PROVE PairKept(p)
  <2>1. pair[p] \in PairRow /\ pair[p].fence \in Nat /\ pair[p].epoch \in Nat
    BY <1>2, StoreAssumption DEF TypeOK, PairRow
  <2>2. CASE p \in closing
    <3>1. pair'[p] = [Fenced(pair[p]) EXCEPT !.active = FALSE, !.state = "closed"]
      BY <1>1, <2>2
    <3>2. pair'[p].epoch = pair[p].epoch /\ pair'[p].fence = pair[p].fence + 1
      BY <2>1, <3>1 DEF PairRow, Fenced
    <3>3. \A g \in Bound(p) : g \in GateId /\ g \in shut
      BY <1>6, <2>2 DEF Bound, BoundTo
    <3>4. \A g \in Bound(p) : gate'[g].desired # "success"
      BY <1>7, <3>3
    <3>5. pair'[p].fence > pair[p].fence /\ pair'[p].fence >= pair[p].fence
      BY <2>1, <3>2
    <3> QED
      BY <1>8, <3>2, <3>4, <3>5 DEF PairKept
  <2>3. CASE p \notin closing /\ p.pull \in moved
    <3> DEFINE r == refOf(p.pull)
    <3>1. r \in refs /\ r \in PullRef /\ r.pair.pull = p.pull /\ pair'[p] = PairAfter(p, r)
      BY <1>1, <1>3, <2>3
    <3> HIDE DEF r
    <3>2. pair'[p].epoch > 0
      <4>1. pair'[p].epoch \in {pair[p].epoch, NextEpoch(p.pull)}
        <5>1. PairAfter(p, r).epoch = pair[p].epoch \/ PairAfter(p, r).epoch = NextEpoch(p.pull)
          BY <1>2, <3>1, PairAfterFacts, ZenonT(60)
        <5> QED
          BY <3>1, <5>1
      <4>2. NextEpoch(p.pull) > 0
        BY <1>2, NextEpochAbove, StoreAssumption
      <4> QED
        BY <1>8, <4>1, <4>2
    <3>3. CASE pair'[p] = pair[p]
      <4>1. SameReview(p)
        BY <1>1, <3>3 DEF SameReview, SameInput
      <4> QED
        BY <2>1, <3>2, <3>3, <4>1, RowsKept DEF PairKept
    <3>4. CASE pair'[p].fence = pair[p].fence + 1 /\ (pair[p].active \/ p = r.pair)
      <4>1. \A g \in Bound(p) : gate'[g].desired # "success"
        <5> SUFFICES ASSUME NEW g \in Bound(p) PROVE gate'[g].desired # "success"
          OBVIOUS
        <5>1. g \in GateId /\ gate[g].active /\ gate[g].pair = p
          BY DEF Bound, BoundTo
        <5>2. pair[p].active
          BY <1>2, <5>1, BoundGate
        <5>3. g \in TouchedBy(r)
          BY <3>1, <5>1, <5>2 DEF TouchedBy, BoundTo, Current
        <5> QED
          BY <1>5, <1>7, <3>1, <5>1, <5>3
      <4>2. pair'[p].fence > pair[p].fence /\ pair'[p].fence >= pair[p].fence
        BY <2>1, <3>4
      <4> QED
        BY <3>2, <4>1, <4>2 DEF PairKept
    <3> QED
      BY <1>2, <1>8, <3>1, <3>3, <3>4, PairAfterKept
  <2>4. CASE p \notin closing /\ p.pull \notin moved
    <3>1. pair'[p] = pair[p]
      BY <1>1, <2>4
    <3>2. SameReview(p)
      BY <1>1, <3>1 DEF SameReview, SameInput
    <3> QED
      BY <1>8, <2>1, <3>1, <3>2, RowsKept DEF PairKept
  <2> QED
    BY <2>2, <2>3, <2>4
<1> QED
  BY <1>1, <1>2, <1>7, <1>8, UntouchedKept
  DEF Steady, Kept, PairsKept, GatesKept, SuccessesKept

-----------------------------------------------------------------------------
(* Reconciliation and webhooks as the callers see them.                    *)

\* A pull_request webhook.
LEMMA PullRequestKept ==
    ASSUME HistoryInv, TypeOK', NEW r \in PullRef, ApplyPullRequest(r)
    PROVE  Steady
<1> DEFINE refs == IF Repeated(r) THEN {} ELSE {r}
<1>1. Project(refs, {}, {})
  BY DEF ApplyPullRequest
<1>2. refs \in SUBSET PullRef /\ \A x, y \in refs : x.pair.pull = y.pair.pull => x = y
  OBVIOUS
<1> HIDE DEF refs
<1> QED
  BY <1>1, <1>2, ProjectKept

\* A reconciliation with a list that has one report per pull request.
LEMMA ReconciliationKept ==
    ASSUME HistoryInv, TypeOK', Reconciliation
    PROVE  Steady
<1>0. TypeOK
  BY DEF HistoryInv, SafeInv
<1>1. CASE BeginRepositorySnapshot
  BY <1>0, <1>1, UntouchedKept DEF BeginRepositorySnapshot, Steady, Kept
<1>2. ASSUME NEW token, NEW pulls \in Lists, ReconcileOpenPullRequests(token, pulls)
      PROVE  Steady
  <2>1. PICK S \in SUBSET Pulls : \E f \in [S -> PullRef] :
            /\ \A n \in S : f[n].pair.pull = n
            /\ pulls = {f[n] : n \in S}
    BY DEF Lists
  <2>2. /\ pulls \in SUBSET PullRef
        /\ \A x, y \in pulls : x.pair.pull = y.pair.pull => x = y
    BY <2>1
  <2> DEFINE listed  == {r.pair.pull : r \in pulls}
             applied == {r \in pulls : ~Outdated(r) /\ ~Repeated(r)}
             again   == {r \in pulls \ applied :
                            SamePair(r) /\ ~pair[r.pair].quarantined}
             closing == {p \in PairId : pair[p].active /\ p.pull \notin listed}
             more    == UNION {{Evaluation(r.pair, pair[r.pair].epoch, gate[g].revision) :
                              g \in Bound(r.pair)} : r \in again}
  <2>3. Project(applied, closing, more)
    BY <1>2 DEF ReconcileOpenPullRequests
  <2>4. /\ applied \in SUBSET PullRef /\ closing \in SUBSET PairId
        /\ \A x, y \in applied : x.pair.pull = y.pair.pull => x = y
        /\ \A p \in closing : \A r \in applied : p.pull # r.pair.pull
    BY <2>2
  <2> HIDE DEF applied, closing, more
  <2> QED
    BY <2>3, <2>4, ProjectKept
<1> QED
  BY <1>1, <1>2 DEF Reconciliation

\* Every webhook.
LEMMA WebhookKept ==
    ASSUME HistoryInv, TypeOK', Webhook
    PROVE  Steady
<1>0. TypeOK
  BY DEF HistoryInv, SafeInv
<1>1. ASSUME NEW n, NEW h, NEW i, ApplyPullEvidence(n, h, i) PROVE Steady
  <2>1. PICK p \in Current(n) : InvalidateForEvidence({p}, i)
    BY <1>1 DEF ApplyPullEvidence
  <2> DEFINE pairs == {p}
  <2>2. pairs \in SUBSET PairId /\ InvalidateForEvidence(pairs, i)
    BY <2>1 DEF Current
  <2> HIDE DEF pairs
  <2> QED
    BY <1>0, <2>2, EvidenceKept
<1>2. ASSUME NEW h, NEW i, ApplyShaEvidence(h, i) PROVE Steady
  <2> DEFINE pairs == {p \in PairId : /\ p.head = h
                                      /\ pair[p].active /\ ~pair[p].quarantined}
  <2>1. pairs \in SUBSET PairId /\ InvalidateForEvidence(pairs, i)
    BY <1>2 DEF ApplyShaEvidence
  <2> HIDE DEF pairs
  <2> QED
    BY <1>0, <2>1, EvidenceKept
<1>3. CASE ApplyMalformed
  <2> DEFINE gates == BoundTo({p \in PairId : pair[p].active})
                        \cup {g \in GateId : IsMerge(g) /\ gate[g].active}
             more  == {<<"reconcile", generation + 1>>}
  <2>1. Quarantine(gates, more) /\ BoundTo({p \in PairId : pair[p].active}) \subseteq gates
    BY <1>3 DEF ApplyMalformed
  <2> HIDE DEF gates, more
  <2> QED
    BY <1>0, <2>1, QuarantineKept
<1>4. CASE QuarantineAll
  <2> DEFINE gates == {g \in GateId : gate[g].active}
             more  == {}
  <2>1. Quarantine(gates, more) /\ BoundTo({p \in PairId : pair[p].active}) \subseteq gates
    BY <1>4 DEF QuarantineAll, BoundTo
  <2> HIDE DEF gates, more
  <2> QED
    BY <1>0, <2>1, QuarantineKept
<1>5. ASSUME NEW r \in PullRef, ApplyPullRequest(r) PROVE Steady
  BY <1>5, PullRequestKept
<1>6. CASE ApplyPush
  BY <1>0, <1>6, PushKept
<1>7. ASSUME NEW ref \in MergeRefs, NEW h \in Heads,
             RequestMergeGroup(ref, h) \/ DestroyMergeGroup(ref, h)
      PROVE  Steady
  BY <1>7, MergeGroupKept
<1> QED
  BY <1>1, <1>2, <1>3, <1>4, <1>5, <1>6, <1>7 DEF Webhook

-----------------------------------------------------------------------------
(* Leases, commits, publications, claims and time.                         *)

\* Taking a pair lease.
LEMMA AcquirePairKept ==
    ASSUME TypeOK, NEW p \in PairId, NEW e, NEW w, AcquirePairLease(p, e, w)
    PROVE  Steady /\ pair'[p].fence = pair[p].fence + 1 /\ SameInput(pair[p], pair'[p])
<1>1. /\ pair' = [pair EXCEPT ![p].fence = @ + 1, ![p].owner = w, ![p].live = TRUE]
      /\ UNCHANGED <<gate, dispatch, evidence>>
  BY DEF AcquirePairLease
<1>2. pair[p] \in PairRow /\ \A q \in PairId \ {p} : pair'[q] = pair[q]
  BY <1>1 DEF TypeOK
<1>3. pair'[p].fence = pair[p].fence + 1 /\ SameInput(pair[p], pair'[p])
  BY <1>1, <1>2 DEF TypeOK, PairRow, SameInput
<1>4. PairsKept
  <2> SUFFICES ASSUME NEW q \in PairId, pair[q].epoch > 0 PROVE PairKept(q)
    BY DEF PairsKept
  <2>1. pair[q].fence \in Nat
    BY DEF TypeOK, PairRow
  <2>2. SameInput(pair[q], pair'[q]) /\ pair'[q].fence >= pair[q].fence
    BY <1>2, <1>3, <2>1 DEF SameInput
  <2>3. SameReview(q)
    BY <1>1, <2>2 DEF SameReview
  <2> QED
    BY <2>2, <2>3 DEF PairKept, SameInput
<1> QED
  BY <1>1, <1>3, <1>4, UntouchedKept DEF Steady, Kept

\* A commit keeps everything but the state of the gates it revises.
LEMMA CommitKept ==
    ASSUME TypeOK, NEW l, l.pair \in PairId, NEW desired, CommitPairGate(l, desired)
    PROVE  /\ Kept
           /\ \A g \in GateId : g \notin Bound(l.pair) => SuccessKept(g)
           /\ \A p \in PairId : pair'[p] = pair[p] \/ pair'[p] = Unleased(pair[p])
<1> DEFINE gates == {g \in Bound(l.pair) : g.epoch = l.epoch}
           state == Committed(<<l.pair, l.epoch>>, desired)
<1>1. /\ pair' = [pair EXCEPT ![l.pair] = Unleased(@)]
      /\ gate' = [g \in GateId |->
            IF g \in gates THEN Revised(gate[g], state) ELSE gate[g]]
      /\ UNCHANGED <<dispatch, evidence>>
  BY DEF CommitPairGate
<1>2. \A g \in gates : g \in Bound(l.pair)
  OBVIOUS
<1> HIDE DEF gates, state
<1>3. \A p \in PairId : pair'[p] = pair[p] \/ pair'[p] = Unleased(pair[p])
  BY <1>1 DEF TypeOK
<1>4. PairsKept
  BY <1>1, <1>3, LeasedKept
<1>5. ASSUME NEW g \in GateId
      PROVE  GateKept(g) /\ (g \notin Bound(l.pair) => SuccessKept(g))
  <2>1. gate[g] \in GateRow
    BY DEF TypeOK
  <2>2. CASE g \in gates
    <3>1. gate'[g] = Revised(gate[g], state)
      BY <1>1, <2>2
    <3> QED
      BY <1>2, <2>1, <2>2, <3>1, RevisionMoves, RevisedKept
  <2>3. CASE g \notin gates
    <3>1. gate'[g] = gate[g]
      BY <1>1, <2>3
    <3> QED
      BY <3>1, RevisedKept DEF SuccessKept
  <2> QED
    BY <2>2, <2>3
<1> QED
  BY <1>1, <1>3, <1>4, <1>5, UntouchedKept DEF Kept, GatesKept

\* Planning, beginning and adopting a dispatch touch one dispatch row that is
\* not sent.
LEMMA DispatchKept ==
    ASSUME TypeOK, NEW l, <<l.pair, l.epoch>> \in EpochId,
           \/ \E now : PlanDispatch(l, now)
           \/ BeginDispatchAttempt(l)
           \/ \E id, at : AdoptDispatch(l, id, at)
    PROVE  Steady
<1> DEFINE d == <<l.pair, l.epoch>>
<1>1. UNCHANGED <<gate, evidence>>
  BY DEF PlanDispatch, BeginDispatchAttempt, AdoptDispatch
<1>2. \A p \in PairId : pair'[p] = pair[p] \/ pair'[p] = Unleased(pair[p])
  BY DEF PlanDispatch, BeginDispatchAttempt, AdoptDispatch, TypeOK
<1>3. \A e \in EpochId : e # d => dispatch'[e] = dispatch[e]
  BY DEF PlanDispatch, BeginDispatchAttempt, AdoptDispatch, TypeOK
<1>4. /\ dispatch[d].state = "sent" => dispatch'[d] = dispatch[d]
      /\ Attempted(d) => Attempted(d)'
  <2>1. dispatch[d] \in DispatchRow
    BY DEF TypeOK
  <2>2. ASSUME NEW now, PlanDispatch(l, now)
        PROVE  dispatch[d].state # "none" => dispatch'[d] = dispatch[d]
    BY <2>2 DEF PlanDispatch
  <2>3. CASE BeginDispatchAttempt(l)
    BY <2>1, <2>3 DEF BeginDispatchAttempt, MayBegin, TypeOK, DispatchRow, Attempted
  <2>4. ASSUME NEW id, NEW at, AdoptDispatch(l, id, at)
        PROVE  dispatch[d].state = "attempting" /\ dispatch'[d].state = "sent"
    BY <2>1, <2>4 DEF AdoptDispatch, Adoptable, TypeOK, DispatchRow
  <2> QED
    BY <2>2, <2>3, <2>4 DEF Attempted
<1> HIDE DEF d
<1>5. PairsKept
  <2> SUFFICES ASSUME NEW p \in PairId, pair[p].epoch > 0 PROVE PairKept(p)
    BY DEF PairsKept
  <2>1. pair[p] \in PairRow /\ EpochOf(p) \in EpochId
    BY DEF TypeOK, PairRow, EpochOf, EpochId, Epochs
  <2>2. SameInput(pair[p], pair'[p]) /\ pair'[p].fence >= pair[p].fence
    BY <1>2, <2>1, RowsKept
  <2>3. SameReview(p)
    BY <1>1, <1>3, <1>4, <2>1, <2>2 DEF SameReview
  <2> QED
    BY <2>2, <2>3 DEF PairKept, SameInput
<1>6. AttemptsKept
  BY <1>3, <1>4 DEF AttemptsKept, Attempted
<1> QED
  BY <1>1, <1>5, <1>6, UntouchedKept DEF Steady, Kept

\* Taking a gate lease, and publishing under one.
LEMMA GateOperationKept ==
    ASSUME SafeInv, GateOperation
    PROVE  Steady
<1>0. TypeOK
  BY DEF SafeInv
\* One gate is written, and does not come to want success.
<1>1. ASSUME NEW g \in GateId, NEW row, gate' = [gate EXCEPT ![g] = row],
             UNCHANGED <<pair, dispatch, evidence>>,
             row.pair = gate[g].pair,
             row.desired = "success" => gate[g].desired = "success",
             \/ /\ row.revision = gate[g].revision /\ row.desired = gate[g].desired
                /\ row.fence = gate[g].fence \/ row.fence = gate[g].fence + 1
             \/ /\ row.revision = gate[g].revision + 1
                /\ row.fence = gate[g].fence + 1
      PROVE  Steady
  <2>1. gate'[g] = row /\ \A h \in GateId \ {g} : gate'[h] = gate[h]
    BY <1>0, <1>1 DEF TypeOK
  <2>2. gate[g].revision \in Nat /\ gate[g].fence \in Nat
    BY <1>0 DEF TypeOK, GateRow
  <2>3. GateKept(g) /\ SuccessKept(g)
    BY <1>1, <2>1, <2>2 DEF GateKept, SuccessKept
  <2>4. \A h \in GateId \ {g} : GateKept(h) /\ SuccessKept(h)
    BY <1>0, <2>1, RevisedKept DEF SuccessKept
  <2>5. GatesKept /\ SuccessesKept
    BY <2>3, <2>4 DEF GatesKept, SuccessesKept
  <2> QED
    BY <1>0, <1>1, <2>5, UntouchedKept DEF Steady, Kept
<1>2. ASSUME NEW g \in GateId, NEW v, NEW w, AcquireGateLease(g, v, w)
      PROVE  Steady
  <2> DEFINE row == [gate[g] EXCEPT !.fence = @ + 1, !.owner = w, !.live = TRUE]
  <2>1. gate' = [gate EXCEPT ![g] = row] /\ UNCHANGED <<pair, dispatch, evidence>>
    BY <1>2 DEF AcquireGateLease
  <2>2. /\ row.pair = gate[g].pair /\ row.desired = gate[g].desired
        /\ row.revision = gate[g].revision /\ row.fence = gate[g].fence + 1
    BY <1>0 DEF TypeOK, GateRow
  <2> HIDE DEF row
  <2> QED
    BY <1>1, <2>1, <2>2
<1>3. ASSUME NEW l \in GateLeases, NEW run, NEW state,
             CommitGatePublication(l, run, state)
      PROVE  Steady
  <2>0. l.gate \in GateId /\ gate[l.gate] \in GateRow
    BY <1>0, LeaseTypes DEF TypeOK
  <2> DEFINE row == [Unleased(gate[l.gate]) EXCEPT !.checkRun = run, !.pubState = state,
                                      !.pubRev = l.revision]
  <2>1. gate' = [gate EXCEPT ![l.gate] = row] /\ UNCHANGED <<pair, dispatch, evidence>>
    BY <1>3 DEF CommitGatePublication
  <2>2. /\ row.pair = gate[l.gate].pair /\ row.desired = gate[l.gate].desired
        /\ row.revision = gate[l.gate].revision /\ row.fence = gate[l.gate].fence
    BY <2>0 DEF GateRow, Unleased
  <2> HIDE DEF row
  <2> QED
    BY <1>1, <2>0, <2>1, <2>2
<1>4. ASSUME NEW l \in GateLeases, NEW desired, NEW run,
             desired = "success" => gate[l.gate].desired = "success",
             gate' = [gate EXCEPT ![l.gate] =
                        [Revised(gate[l.gate], desired) EXCEPT !.checkRun = run]],
             UNCHANGED <<pair, dispatch, evidence>>
      PROVE  Steady
  <2>0. l.gate \in GateId /\ gate[l.gate] \in GateRow
    BY <1>0, LeaseTypes DEF TypeOK
  <2> DEFINE row == [Revised(gate[l.gate], desired) EXCEPT !.checkRun = run]
  <2>1. /\ row.pair = gate[l.gate].pair /\ row.desired = desired
        /\ row.revision = gate[l.gate].revision + 1
        /\ row.fence = gate[l.gate].fence + 1
    BY <2>0 DEF GateRow, Revised
  <2>2. gate' = [gate EXCEPT ![l.gate] = row]
    BY <1>4
  <2> HIDE DEF row
  <2> QED
    BY <1>1, <1>4, <2>0, <2>1, <2>2
<1>5. ASSUME NEW l \in GateLeases, NEW run, FailPublication(l, run) PROVE Steady
  <2> DEFINE known   == Coalesce(run, gate[l.gate].checkRun)
             desired == "failure"
  <2>1. /\ gate' = [gate EXCEPT ![l.gate] =
                      [Revised(gate[l.gate], desired) EXCEPT !.checkRun = known]]
        /\ UNCHANGED <<pair, dispatch, evidence>>
    BY <1>5 DEF FailPublication
  <2>2. desired # "success"
    OBVIOUS
  <2> HIDE DEF known, desired
  <2> QED
    BY <1>4, <2>1, <2>2
<1>6. ASSUME NEW l \in GateLeases, NEW run, SupersedeStaleGatePublication(l, run)
      PROVE  Steady
  BY <1>4, <1>6 DEF SupersedeStaleGatePublication
<1> QED
  BY <1>2, <1>3, <1>5, <1>6 DEF GateOperation, ExpireSuccess, RejectGatePublication

\* Claims touch the outbox only.
LEMMA OutboxOperationKept ==
    ASSUME TypeOK, OutboxOperation
    PROVE  Steady
<1>1. UNCHANGED <<pair, gate, dispatch, evidence>>
  BY DEF OutboxOperation, ClaimOutbox, CompleteOutbox, FailOutbox
<1> QED
  BY <1>1, UntouchedKept DEF Steady, Kept

\* Leases and claims that run out, and the deadline.
LEMMA TimeKept ==
    ASSUME TypeOK, Time
    PROVE  Steady
<1>1. ASSUME NEW p \in PairId, ExpirePairLease(p) PROVE Steady
  <2>1. /\ pair' = [pair EXCEPT ![p].live = FALSE]
        /\ UNCHANGED <<gate, dispatch, evidence>>
    BY <1>1 DEF ExpirePairLease
  <2>2. ASSUME NEW q \in PairId, pair[q].epoch > 0 PROVE PairKept(q)
    <3>1. pair[q] \in PairRow /\ pair[q].fence \in Nat
      BY DEF TypeOK, PairRow
    <3>2. SameInput(pair[q], pair'[q]) /\ pair'[q].fence = pair[q].fence
      BY <2>1, <3>1 DEF TypeOK, PairRow, SameInput
    <3>3. SameReview(q)
      BY <2>1, <3>2 DEF SameReview
    <3> QED
      BY <2>2, <3>1, <3>2, <3>3 DEF PairKept, SameInput
  <2> QED
    BY <2>1, <2>2, UntouchedKept DEF Steady, Kept, PairsKept
<1>2. ASSUME NEW g \in GateId, ExpireGateLease(g) PROVE Steady
  <2>1. /\ gate' = [gate EXCEPT ![g].live = FALSE]
        /\ UNCHANGED <<pair, dispatch, evidence>>
    BY <1>2 DEF ExpireGateLease
  <2>2. ASSUME NEW h \in GateId PROVE GateKept(h) /\ SuccessKept(h)
    <3>1. gate[h] \in GateRow /\ gate[h].revision \in Nat /\ gate[h].fence \in Nat
      BY DEF TypeOK, GateRow
    <3>2. /\ gate'[h].desired = gate[h].desired /\ gate'[h].pair = gate[h].pair
          /\ gate'[h].revision = gate[h].revision /\ gate'[h].fence = gate[h].fence
      BY <2>1, <3>1 DEF TypeOK, GateRow
    <3> QED
      BY <3>1, <3>2 DEF GateKept, SuccessKept
  <2> QED
    BY <2>1, <2>2, UntouchedKept DEF Steady, Kept, GatesKept, SuccessesKept
<1>3. ASSUME NEW i \in outbox, ExpireClaim(i) PROVE Steady
  <2>1. UNCHANGED <<pair, gate, dispatch, evidence>>
    BY <1>3 DEF ExpireClaim
  <2> QED
    BY <2>1, UntouchedKept DEF Steady, Kept
<1>4. ASSUME NEW d \in EpochId, PassDeadline(d) PROVE Steady
  <2>1. /\ dispatch' = [dispatch EXCEPT ![d].late = TRUE]
        /\ UNCHANGED <<pair, gate, evidence>>
    BY <1>4 DEF PassDeadline
  <2>2. \A e \in EpochId : /\ dispatch'[e].state = dispatch[e].state
                           /\ dispatch'[e].dispatchedAt = dispatch[e].dispatchedAt
    BY <2>1 DEF TypeOK, DispatchRow
  <2>3. AttemptsKept
    BY <2>2 DEF AttemptsKept, Attempted
  <2>4. ASSUME NEW q \in PairId, pair[q].epoch > 0 PROVE PairKept(q)
    <3>1. pair[q] \in PairRow /\ pair'[q] = pair[q] /\ EpochOf(q) \in EpochId
      BY <2>1, <2>4 DEF TypeOK, PairRow, EpochOf, EpochId, Epochs
    <3>2. SameReview(q)
      BY <2>1, <2>2, <3>1 DEF SameReview, SameInput
    <3> QED
      BY <2>4, <3>1, <3>2, RowsKept DEF PairKept
  <2> QED
    BY <2>1, <2>3, <2>4, UntouchedKept DEF Steady, Kept, PairsKept
<1> QED
  BY <1>1, <1>2, <1>3, <1>4 DEF Time
=============================================================================
