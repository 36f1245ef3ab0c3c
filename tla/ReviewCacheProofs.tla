-------------------------- MODULE ReviewCacheProofs -------------------------
(***************************************************************************)
(* Proofs about ReviewCache: along any lineage of receipts a carried       *)
(* outcome is one that a reviewer gave to exactly this change under the    *)
(* same reviewer, and every receipt that was issued can be carried from.   *)
(* A receipt carries outcomes of an earlier one, so both are invariants of *)
(* all receipts and not of the last route only.                            *)
(***************************************************************************)
EXTENDS ReviewCache, TLAPS

-----------------------------------------------------------------------------
(* Outcomes.                                                               *)

OutcomeSet == {"passed", "advisory", "changes_requested", "failed"}

LEMMA Severities ==
    /\ Severity("passed") = 1 /\ Severity("advisory") = 2
    /\ Severity("changes_requested") = 3 /\ Severity("failed") = 4
<1>1. DOMAIN Outcomes = 1 .. 4
  BY DEF Outcomes
<1>2. /\ Outcomes[1] = "passed" /\ Outcomes[2] = "advisory"
      /\ Outcomes[3] = "changes_requested" /\ Outcomes[4] = "failed"
  BY DEF Outcomes
<1> QED
  BY <1>1, <1>2 DEF Severity

\* The outcome of a receipt is as severe as anything that was said in it.
LEMMA ReduceBounds ==
    ASSUME NEW S \in SUBSET OutcomeSet
    PROVE  /\ ReduceReviewOutcomes(S) \in OutcomeSet
           /\ \A o \in S : /\ Severity(o) <= Severity(ReduceReviewOutcomes(S))
                           /\ o \in Blocking => ReduceReviewOutcomes(S) \in Blocking
<1> DEFINE T == {1} \cup {Severity(o) : o \in S}
<1>1. T \in SUBSET (1 .. 4) /\ 1 \in T
  BY Severities DEF OutcomeSet
<1>2. \A o \in S : Severity(o) \in T
  OBVIOUS
<1> HIDE DEF T
<1>3. \E m \in T : \A k \in T : m >= k
  <2>1. CASE 4 \in T
    BY <1>1, <2>1
  <2>2. CASE 4 \notin T /\ 3 \in T
    BY <1>1, <2>2
  <2>3. CASE 4 \notin T /\ 3 \notin T /\ 2 \in T
    BY <1>1, <2>3
  <2>4. CASE 4 \notin T /\ 3 \notin T /\ 2 \notin T
    BY <1>1, <2>4
  <2> QED
    BY <2>1, <2>2, <2>3, <2>4
<1>4. Max(T) \in T /\ \A k \in T : Max(T) >= k
  BY <1>3 DEF Max
<1>5. Max(T) \in 1 .. 4
  BY <1>1, <1>4
<1>6. ReduceReviewOutcomes(S) = Outcomes[Max(T)]
  BY DEF ReduceReviewOutcomes, T
<1>7. Outcomes[Max(T)] \in OutcomeSet /\ Severity(Outcomes[Max(T)]) = Max(T)
      /\ (Max(T) >= 3 => Outcomes[Max(T)] \in Blocking)
  <2>1. /\ Outcomes[1] = "passed" /\ Outcomes[2] = "advisory"
        /\ Outcomes[3] = "changes_requested" /\ Outcomes[4] = "failed"
    BY DEF Outcomes
  <2>2. Max(T) = 1 \/ Max(T) = 2 \/ Max(T) = 3 \/ Max(T) = 4
    BY <1>5
  <2> QED
    BY <2>1, <2>2, Severities DEF OutcomeSet, Blocking
<1>8. ASSUME NEW o \in S
      PROVE  /\ Severity(o) <= Severity(ReduceReviewOutcomes(S))
             /\ o \in Blocking => ReduceReviewOutcomes(S) \in Blocking
  <2>1. Severity(o) <= Max(T) /\ Severity(o) \in 1 .. 4
    BY <1>1, <1>2, <1>4, <1>5
  <2>2. o \in Blocking => Severity(o) >= 3
    BY Severities DEF Blocking
  <2> QED
    BY <1>5, <1>6, <1>7, <2>1, <2>2
<1> QED
  BY <1>6, <1>7, <1>8

-----------------------------------------------------------------------------
(* The invariant.                                                          *)

\* A transition has C where D forked from the base.
Forked(t) == t.c = BaseCommit(t.d.base)

\* What a receipt says was said, of this change and under this reviewer.
SaysExecuted(n) ==
    \A o \in DOMAIN receipts[n].results :
        <<o, receipts[n].results[o].outcome, Compatibility(receipts[n].route.context)>>
            \in executed

\* A receipt has all that verify_receipt_inner asks of it.
Presentable(n) ==
    LET r == receipts[n].route IN
    /\ Forked(r.transition)
    /\ Accounting(r) /\ ValidPayload(r.items)
    /\ DOMAIN receipts[n].outcomes = Obligations(r.items)
    /\ MatchesGit(r, [a |-> r.transition.c, b |-> r.transition.d])
    /\ LineageHolds(n)
    /\ r.decision \in {"full", "residue"}
    /\ receipts[n].effective = EffectiveOutcome(receipts[n].outcomes, r.outcomes)
    /\ receipts[n].live = <<r.transition.q.base, r.transition.d>>

\* What a receipt refused.
RefusedIn(seq, n) == {o \in DOMAIN seq[n].outcomes : seq[n].outcomes[o] \in Blocking}
Refused(n) == RefusedIn(receipts, n)

\* A receipt answers for everything that the receipt before it refused.
Answers(n) ==
    LET r == receipts[n].route IN
    /\ r.prior \in 0 .. n - 1
    /\ r.prior # 0 => Refused(r.prior) \subseteq DOMAIN receipts[n].outcomes
    /\ \A i \in r.items : "obligation" \in DOMAIN i
    /\ DOMAIN r.outcomes = r.carried
    /\ \A o \in DOMAIN receipts[n].outcomes : receipts[n].outcomes[o] \in OutcomeSet
    /\ \A o \in r.carried : r.outcomes[o] \in OutcomeSet

\* A route covers the changes of its transition, and leans on a receipt that
\* is there.
RouteHolds ==
    route # None =>
        /\ Forked(route.transition)
        /\ route.prior \in 0 .. Len(receipts)
        /\ route.decision # "blocked" =>
              route.current = DiscoverChanges(route.transition.c, route.transition.d)

\* A route puts what was refused in front of the reviewer again, unless a
\* holistic review carries all of it at once; a skip leaves nothing to review
\* and remembers the outcome of its receipt.
RouteAnswers ==
    Routed =>
        /\ \A i \in route.items : "obligation" \in DOMAIN i
        /\ DOMAIN route.outcomes = route.carried
        /\ \A o \in route.carried : route.outcomes[o] \in OutcomeSet
        /\ (/\ route.prior # 0
            /\ \/ route.context.manifest.composition = "itemwise_closed_v1"
               \/ route.carried = {})
             => Refused(route.prior) \subseteq Obligations(route.items)
        /\ route.decision = "skip" =>
              /\ route.prior # 0 /\ route.cached = receipts[route.prior].effective
              /\ route.current \subseteq DOMAIN receipts[route.prior].results

\* The equation of Debt over the receipts 1 .. len.  A receipt leans on an earlier
\* one, so that the equation has one solution: a lineage owes what its last
\* receipt refused, and no more.
Owed(seq, len, f) ==
    f = [n \in 0 .. len |->
            IF n = 0 THEN {}
            ELSE (f[seq[n].route.prior] \ DOMAIN seq[n].outcomes)
                 \cup {o \in DOMAIN seq[n].outcomes : seq[n].outcomes[o] \in Blocking}]

OwedIsRefusedIn(seq, len) ==
    \A f : Owed(seq, len, f) => \A n \in 1 .. len : f[n] = RefusedIn(seq, n)

OwedIsRefused == OwedIsRefusedIn(receipts, Len(receipts))

\* The inductive invariant.
CacheInv ==
    /\ \E S : receipts \in Seq(S)
    /\ \A n \in 1 .. Len(receipts) : SaysExecuted(n) /\ Presentable(n) /\ Answers(n)
    /\ OwedIsRefused
    /\ RouteHolds
    /\ RouteAnswers
    /\ CarriesAreReviewed

-----------------------------------------------------------------------------
(* review_cache_preflight                                                  *)

\* What a route says, unless it is blocked.
RouteOf(r, c, t, n) ==
    /\ r.context = c /\ r.transition = t /\ r.prior = n
    /\ r.current = DiscoverChanges(t.c, t.d)
    /\ r.carried = (IF n = 0 THEN {} ELSE Carried(n, c, t, r.current))
    /\ r.outcomes = [o \in r.carried |-> receipts[n].results[o].outcome]
    /\ r.selected = r.current \ r.carried
    /\ r.retired = (IF n = 0 THEN {} ELSE DOMAIN receipts[n].results \ r.current)
    /\ r.retained = (IF n = 0 THEN {}
                    ELSE RetainedNonCurrent(n, r.current \cup r.retired \cup r.drift))
    /\ r.items = BuildPayload(r.selected, r.retired, r.drift, r.retained)
    /\ r.decision = "skip" => n # 0 /\ r.items = {} /\ r.cached = receipts[n].effective

LEMMA RouteFacts ==
    ASSUME NEW c, NEW t, NEW n, NEW why,
           Route(c, t, n, why) # BuildBlocked(c, t, "resource_limit")
    PROVE  RouteOf(Route(c, t, n, why), c, t, n)
BY DEF Route, Decision, RouteOf

LEMMA BlockedFacts ==
    ASSUME NEW c, NEW t, NEW reason
    PROVE  LET r == BuildBlocked(c, t, reason) IN
           r.decision = "blocked" /\ r.transition = t /\ r.prior = 0
BY DEF BuildBlocked

\* What is carried is in the receipt, which was issued under the same reviewer;
\* an itemwise carry does not block.
LEMMA CarriedFacts ==
    ASSUME NEW n, NEW c, NEW t, NEW current, NEW o \in Carried(n, c, t, current)
    PROVE  /\ o \in DOMAIN receipts[n].results
           /\ Compatibility(receipts[n].route.context) = Compatibility(c)
           /\ c.manifest.composition = "itemwise_closed_v1" =>
                 receipts[n].results[o].outcome \notin Blocking
<1>1. CarryEligible(n, c, t)
  BY DEF Carried
<1> QED
  BY <1>1 DEF Carried, CarryEligible

\* The payload asks for each of its parts.
LEMMA PayloadFacts ==
    ASSUME NEW current, NEW retired, NEW drift, NEW retained, NEW items,
           items = BuildPayload(current, retired, drift, retained),
           \A i \in retained : "obligation" \in DOMAIN i
    PROVE  /\ current \cup retired \cup drift \cup Obligations(retained)
                 \subseteq Obligations(items)
           /\ \A i \in items : "obligation" \in DOMAIN i
<1>1. \A kind, o : Item(kind, o).obligation = o /\ "obligation" \in DOMAIN Item(kind, o)
  BY DEF Item
<1>2. /\ \A o \in current : Item("current_change", o) \in items
      /\ \A o \in retired : Item("retired_checkpoint_change", o) \in items
      /\ \A o \in drift : Item("base_drift", o) \in items
      /\ retained \subseteq items
  BY DEF BuildPayload
<1>3. \A i \in items : i \in retained \/ \E kind, o : i = Item(kind, o)
  BY DEF BuildPayload
<1>4. current \cup retired \cup drift \cup Obligations(retained) \subseteq Obligations(items)
  BY <1>1, <1>2 DEF Obligations
<1>5. \A i \in items : "obligation" \in DOMAIN i
  BY <1>1, <1>3
<1> QED
  BY <1>4, <1>5

\* What a receipt refused is in its results, or to be reviewed again wherever it
\* has gone.
LEMMA RefusedFacts ==
    ASSUME NEW n, Presentable(n), Answers(n)
    PROVE  /\ \A i \in BlockingNonCurrent(n) : "obligation" \in DOMAIN i
           /\ \A o \in Refused(n) :
                 \/ /\ o \in DOMAIN receipts[n].results
                    /\ receipts[n].results[o].outcome \in Blocking
                 \/ o \in Obligations(BlockingNonCurrent(n))
<1> DEFINE r == receipts[n].route
           left == {j \in r.items : j.obligation \in BlockedElsewhere(r, receipts[n].outcomes)}
           again(i) == IF i.kind = "retained_non_current_obligation" THEN i
                       ELSE [i EXCEPT !.kind = "retained_non_current_obligation",
                                      !.origin = n]
<1>1. BlockingNonCurrent(n) = {again(i) : i \in left}
  BY DEF BlockingNonCurrent
<1>2. \A i \in r.items : "obligation" \in DOMAIN i
  BY DEF Answers
<1>3. ASSUME NEW i \in r.items
      PROVE  again(i).obligation = i.obligation /\ "obligation" \in DOMAIN again(i)
  BY <1>2
<1> HIDE DEF again
<1>4. \A i \in BlockingNonCurrent(n) : "obligation" \in DOMAIN i
  BY <1>1, <1>3
<1>5. ASSUME NEW o \in Refused(n)
      PROVE  \/ /\ o \in DOMAIN receipts[n].results
                /\ receipts[n].results[o].outcome \in Blocking
             \/ o \in Obligations(BlockingNonCurrent(n))
  <2>1. o \in Obligations(r.items) /\ o \in DOMAIN receipts[n].outcomes
        /\ receipts[n].outcomes[o] \in Blocking
    BY DEF Refused, RefusedIn, Presentable
  <2>2. CASE o \in r.selected
    <3>1. o \in r.current /\ o \notin r.carried
      BY <2>2 DEF Presentable, Accounting
    <3>2. o \in DOMAIN receipts[n].results
          /\ receipts[n].results[o].outcome = receipts[n].outcomes[o]
      BY <3>1 DEF Presentable, LineageHolds
    <3> QED
      BY <2>1, <3>2
  <2>3. CASE o \notin r.selected
    <3>1. PICK i \in r.items : i.obligation = o
      BY <2>1 DEF Obligations
    <3>2. i \in left
      BY <2>1, <2>3, <3>1 DEF BlockedElsewhere
    <3>3. again(i) \in BlockingNonCurrent(n) /\ again(i).obligation = o
      BY <1>1, <1>3, <3>1, <3>2
    <3> QED
      BY <3>3 DEF Obligations
  <2> QED
    BY <2>2, <2>3
<1> QED
  BY <1>4, <1>5

\* The results of a receipt, and their severity.
LEMMA ResultOutcome ==
    ASSUME NEW n, Presentable(n), Answers(n), NEW o \in DOMAIN receipts[n].results
    PROVE  /\ receipts[n].results[o].outcome \in OutcomeSet
           /\ Severity(receipts[n].results[o].outcome) <= Severity(receipts[n].effective)
<1> DEFINE r == receipts[n].route
           said == receipts[n].outcomes
           S == {said[u] : u \in DOMAIN said} \cup {r.outcomes[u] : u \in DOMAIN r.outcomes}
<1>1. S \in SUBSET OutcomeSet
  BY DEF Answers
<1>2. receipts[n].effective = ReduceReviewOutcomes(S)
  BY DEF Presentable, EffectiveOutcome
<1>3. receipts[n].results[o].outcome \in S
  <2>1. \/ o \in r.selected /\ receipts[n].results[o].outcome = said[o]
        \/ o \in r.carried /\ receipts[n].results[o].outcome = r.outcomes[o]
    BY DEF Presentable, LineageHolds
  <2>2. r.selected \subseteq DOMAIN said
    <3>1. r.selected = OfKind(r.items, "current_change")
      BY DEF Presentable, Accounting
    <3>2. r.selected \subseteq Obligations(r.items)
      BY <3>1 DEF OfKind, Obligations
    <3> QED
      BY <3>2 DEF Presentable
  <2>3. DOMAIN r.outcomes = r.carried
    BY DEF Answers
  <2> QED
    BY <2>1, <2>2, <2>3
<1> HIDE DEF S
<1> QED
  BY <1>1, <1>2, <1>3, ReduceBounds

\* The receipts stay as they are while routes come and go.
LEMMA ReceiptsStay ==
    ASSUME CacheInv, UNCHANGED <<receipts, executed>>,
           RouteHolds', RouteAnswers', CarriesAreReviewed'
    PROVE  CacheInv'
<1>1. \E S : receipts' \in Seq(S)
  BY DEF CacheInv
<1>2. ASSUME NEW n \in 1 .. Len(receipts)
      PROVE  (SaysExecuted(n) /\ Presentable(n) /\ Answers(n))'
  BY DEF CacheInv, SaysExecuted, Presentable, LineageHolds, Answers, Refused, RefusedIn
<1>3. OwedIsRefused'
  BY DEF CacheInv, OwedIsRefused
<1> QED
  BY <1>1, <1>2, <1>3 DEF CacheInv

\* A blocked route carries nothing.
LEMMA BlockedCarries ==
    ASSUME CacheInv, NEW c, NEW t, NEW reason, Forked(t),
           route' = BuildBlocked(c, t, reason), UNCHANGED <<receipts, executed>>
    PROVE  CacheInv'
<1> DEFINE r == BuildBlocked(c, t, reason)
<1>1. r.decision = "blocked" /\ r.transition = t /\ r.prior = 0 /\ route' = r
  BY BlockedFacts
<1> HIDE DEF r
<1>2. Len(receipts) \in Nat
  BY DEF CacheInv
<1>3. RouteHolds' /\ RouteAnswers' /\ CarriesAreReviewed'
  BY <1>1, <1>2 DEF RouteHolds, RouteAnswers, CarriesAreReviewed, Routed, Forked
<1> QED
  BY <1>3, ReceiptsStay

\* A route that is not blocked carries what its receipt says, and asks again for
\* what its receipt refused.
LEMMA RouteCarries ==
    ASSUME CacheInv, NEW c, NEW t, NEW n \in 0 .. Len(receipts), NEW why, Forked(t),
           route' = Route(c, t, n, why), UNCHANGED <<receipts, executed>>
    PROVE  CacheInv'
<1> DEFINE r == Route(c, t, n, why)
<1>1. CASE r = BuildBlocked(c, t, "resource_limit")
  BY <1>1, BlockedCarries
<1>2. CASE r # BuildBlocked(c, t, "resource_limit")
  <2>1. RouteOf(r, c, t, n)
    BY <1>2, RouteFacts
  <2>2. route' = r
    OBVIOUS
  <2> HIDE DEF r
  <2> USE DEF RouteOf
  <2>3. n # 0 => n \in 1 .. Len(receipts) /\ SaysExecuted(n) /\ Presentable(n) /\ Answers(n)
    BY DEF CacheInv
  <2>4. RouteHolds'
    BY <2>1, <2>2 DEF RouteHolds, Forked
  <2>5. ASSUME NEW o \in r.carried
        PROVE  /\ n # 0 /\ o \in DOMAIN receipts[n].results
               /\ r.outcomes[o] = receipts[n].results[o].outcome
               /\ <<o, r.outcomes[o], Compatibility(c)>> \in executed
               /\ c.manifest.composition = "itemwise_closed_v1"
                     => r.outcomes[o] \notin Blocking
    <3>1. n # 0 /\ o \in Carried(n, c, t, r.current)
      BY <2>1, <2>5
    <3>2. r.outcomes[o] = receipts[n].results[o].outcome
      BY <2>1
    <3> QED
      BY <2>3, <3>1, <3>2, CarriedFacts DEF SaysExecuted
  <2>6. CarriesAreReviewed'
    BY <2>1, <2>2, <2>5 DEF CarriesAreReviewed, Routed
  <2>7. /\ r.selected \cup r.retired \cup r.drift \cup Obligations(r.retained)
              \subseteq Obligations(r.items)
        /\ \A i \in r.items : "obligation" \in DOMAIN i
    <3>1. \A i \in r.retained : "obligation" \in DOMAIN i
      BY <2>1, <2>3, RefusedFacts DEF RetainedNonCurrent
    <3>2. r.items = BuildPayload(r.selected, r.retired, r.drift, r.retained)
      BY <2>1
    <3> QED
      BY <3>1, <3>2, PayloadFacts
  <2>8. \A o \in r.carried : r.outcomes[o] \in OutcomeSet
    BY <2>3, <2>5, ResultOutcome
  <2>9. ASSUME n # 0,
               c.manifest.composition = "itemwise_closed_v1" \/ r.carried = {},
               NEW o \in Refused(n)
        PROVE  o \in Obligations(r.items)
    <3>1. CASE o \in r.carried
      <4>1. o \notin Obligations(BlockingNonCurrent(n))
        BY <2>1, <2>9, <3>1 DEF Carried
      <4>2. receipts[n].results[o].outcome \notin Blocking
        BY <2>5, <2>9, <3>1
      <4> QED
        BY <2>3, <2>9, <4>1, <4>2, RefusedFacts
    <3>2. CASE o \notin r.carried /\ o \in DOMAIN receipts[n].results
      BY <2>1, <2>7, <2>9, <3>2
    <3>3. CASE o \notin r.carried /\ o \in Obligations(BlockingNonCurrent(n))
      <4>1. PICK i \in BlockingNonCurrent(n) : i.obligation = o
        BY <3>3 DEF Obligations
      <4>2. CASE o \in r.current \cup r.retired \cup r.drift
        BY <2>1, <2>7, <3>3, <4>2
      <4>3. CASE o \notin r.current \cup r.retired \cup r.drift
        <5>1. i \in r.retained
          BY <2>1, <2>9, <4>1, <4>3 DEF RetainedNonCurrent
        <5> QED
          BY <2>7, <4>1, <5>1 DEF Obligations
      <4> QED
        BY <4>2, <4>3
    <3> QED
      BY <2>3, <2>9, <3>1, <3>2, <3>3, RefusedFacts
  <2>10. r.decision = "skip" => r.current \subseteq DOMAIN receipts[n].results
    <3>1. r.decision = "skip" => Obligations(r.items) = {}
      BY <2>1 DEF Obligations
    <3>2. r.decision = "skip" => r.selected = {}
      BY <2>7, <3>1
    <3> QED
      BY <2>1, <2>5, <3>2
  <2>11. RouteAnswers'
    <3>1. /\ DOMAIN r.outcomes = r.carried
          /\ (n # 0 /\ (c.manifest.composition = "itemwise_closed_v1" \/ r.carried = {}))
                 => Refused(n) \subseteq Obligations(r.items)
      BY <2>1, <2>9
    <3> QED
      BY <2>1, <2>2, <2>7, <2>8, <2>10, <3>1 DEF RouteAnswers, Routed, Refused, RefusedIn
  <2> QED
    BY <2>4, <2>6, <2>11, ReceiptsStay
<1> QED
  BY <1>1, <1>2

\* The snapshots of a preflight are those of a transition.
LEMMA ResolvedForks ==
    ASSUME NEW q, NEW checkpoint, NEW d
    PROVE  Forked(ResolveTransition(q, checkpoint, d))
BY DEF ResolveTransition, Forked

LEMMA RunPreflightStep ==
    ASSUME CacheInv, NEW checkpoint, NEW bundle \in Presented \cup {None}, NEW missing,
           RunPreflight(checkpoint, bundle, missing)
    PROVE  CacheInv'
<1> DEFINE t == ResolveTransition(context.q, checkpoint, context.d)
<1>1. Forked(t) /\ route' = Preflight(context, t, bundle, missing)
      /\ UNCHANGED <<receipts, executed>>
  BY ResolvedForks DEF RunPreflight
<1> HIDE DEF t
<1>2. Len(receipts) \in Nat /\ DOMAIN receipts = 1 .. Len(receipts)
  BY DEF CacheInv
<1>3. bundle # None => bundle.receipt \in 1 .. Len(receipts)
  BY <1>2 DEF Presented
<1>4. \/ \E reason : route' = BuildBlocked(context, t, reason)
      \/ \E n \in 0 .. Len(receipts) : \E why : route' = Route(context, t, n, why)
  <2>1. CASE bundle = None
    BY <1>1, <1>2, <2>1 DEF Preflight
  <2>2. CASE bundle # None
    <3>1. bundle.receipt \in 0 .. Len(receipts) /\ 0 \in 0 .. Len(receipts)
      BY <1>2, <1>3, <2>2
    <3> QED
      BY <1>1, <2>2, <3>1 DEF Preflight
  <2> QED
    BY <2>1, <2>2
<1> QED
  BY <1>1, <1>4, BlockedCarries, RouteCarries

-----------------------------------------------------------------------------
(* issue_review_cache_receipt                                              *)

\* Earlier receipts still hold when one is added.
LEMMA EarlierReceipts ==
    ASSUME CacheInv, NEW n \in 1 .. Len(receipts), executed \subseteq executed',
           \A k \in 1 .. Len(receipts) : receipts'[k] = receipts[k]
    PROVE  SaysExecuted(n)' /\ Presentable(n)' /\ Answers(n)'
<1>1. receipts'[n] = receipts[n] /\ SaysExecuted(n) /\ Presentable(n) /\ Answers(n)
  BY DEF CacheInv
<1>2. SaysExecuted(n)' /\ Presentable(n)'
  BY <1>1 DEF SaysExecuted, Presentable, LineageHolds
<1>3. Answers(n)'
  <2> DEFINE p == receipts[n].route.prior
  <2>1. p # 0 => receipts'[p] = receipts[p]
    <3>1. p \in 0 .. n - 1 /\ Len(receipts) \in Nat
      BY <1>1 DEF Answers, CacheInv
    <3> QED
      BY <3>1
  <2> QED
    BY <1>1, <2>1 DEF Answers, Refused, RefusedIn
<1> QED
  BY <1>2, <1>3

\* Debt is decided receipt by receipt.
LEMMA OwedExtends ==
    ASSUME NEW old, NEW new, NEW len \in Nat, OwedIsRefusedIn(old, len),
           \A m \in 1 .. len : new[m] = old[m],
           \A m \in 1 .. len + 1 :
               /\ new[m].route.prior \in 0 .. m - 1
               /\ new[m].route.prior # 0 =>
                     RefusedIn(new, new[m].route.prior) \subseteq DOMAIN new[m].outcomes
    PROVE  OwedIsRefusedIn(new, len + 1)
<1> SUFFICES ASSUME NEW f, Owed(new, len + 1, f), NEW k \in 1 .. len + 1
             PROVE  f[k] = RefusedIn(new, k)
  BY DEF OwedIsRefusedIn
<1> DEFINE p(m) == new[m].route.prior
           g == [m \in 0 .. len |-> f[m]]
<1>1. /\ f[0] = {}
      /\ \A m \in 1 .. len + 1 :
            f[m] = (f[p(m)] \ DOMAIN new[m].outcomes) \cup RefusedIn(new, m)
  <2> DEFINE e(m) == IF m = 0 THEN {}
                     ELSE (f[p(m)] \ DOMAIN new[m].outcomes) \cup RefusedIn(new, m)
  <2>1. f = [m \in 0 .. len + 1 |-> e(m)]
    BY DEF Owed, RefusedIn
  <2> HIDE DEF e
  <2>2. \A m \in 0 .. len + 1 : f[m] = e(m)
    BY <2>1
  <2>3. e(0) = {} /\ \A m \in 1 .. len + 1 :
            e(m) = (f[p(m)] \ DOMAIN new[m].outcomes) \cup RefusedIn(new, m)
    BY DEF e
  <2>4. 0 \in 0 .. len + 1 /\ \A m \in 1 .. len + 1 : m \in 0 .. len + 1
    OBVIOUS
  <2> HIDE DEF p
  <2> QED
    BY <2>2, <2>3, <2>4
<1>2. Owed(old, len, g)
  <2>1. ASSUME NEW m \in 1 .. len
        PROVE  g[m] = (g[old[m].route.prior] \ DOMAIN old[m].outcomes) \cup RefusedIn(old, m)
    <3>1. m \in 1 .. len + 1 /\ new[m] = old[m] /\ g[m] = f[m] /\ g[p(m)] = f[p(m)]
      OBVIOUS
    <3> QED
      BY <1>1, <3>1 DEF RefusedIn
  <2>2. g[0] = {} /\ DOMAIN g = 0 .. len
    BY <1>1
  <2>3. g = [m \in 0 .. len |-> g[m]]
    BY <2>2
  <2> DEFINE h == [m \in 0 .. len |->
                      IF m = 0 THEN {}
                      ELSE (g[old[m].route.prior] \ DOMAIN old[m].outcomes)
                           \cup RefusedIn(old, m)]
  <2>4. ASSUME NEW m \in 0 .. len PROVE g[m] = h[m]
    <3> HIDE DEF g
    <3>1. CASE m = 0
      BY <2>2, <3>1
    <3>2. CASE m # 0
      BY <2>1, <3>2
    <3> QED
      BY <3>1, <3>2
  <2>5. g = h
    <3> HIDE DEF g
    <3> QED
      BY <2>3, <2>4
  <2> HIDE DEF g
  <2> QED
    BY <2>5 DEF Owed, RefusedIn
<1>3. \A m \in 1 .. len : f[m] = RefusedIn(new, m)
  BY <1>2 DEF OwedIsRefusedIn, RefusedIn
<1>4. f[p(k)] \subseteq DOMAIN new[k].outcomes
  <2>1. CASE p(k) = 0
    BY <1>1, <2>1
  <2>2. CASE p(k) # 0
    BY <1>3, <2>2
  <2> QED
    BY <2>1, <2>2
<1> QED
  BY <1>1, <1>4

\* The receipt that is issued: what the reviewer said of the selected changes is
\* recorded with it, and what was carried had been recorded before.
LEMMA IssueStep ==
    ASSUME CacheInv, route # None,
           NEW outcomes \in [Obligations(route.items) -> Verdicts], Issue(outcomes)
    PROVE  CacheInv'
<1> DEFINE r == route
           new == NewReceipt(r, outcomes)
<1>0. PICK n : n = Len(receipts) + 1
  OBVIOUS
<1>1. PICK S : receipts \in Seq(S)
  BY DEF CacheInv
<1>2. receipts' = Append(receipts, new) /\ route' = None /\ IssueAccepts(r)
      /\ executed' = executed \cup {<<o, outcomes[o], Compatibility(r.context)>> :
                                        o \in r.selected}
  BY DEF Issue
<1>3. /\ new.route = r /\ new.outcomes = outcomes
      /\ new.results = IdentityResults(r, outcomes, n)
      /\ new.effective = EffectiveOutcome(outcomes, r.outcomes)
      /\ new.live = <<tip, head>>
  BY <1>0 DEF NewReceipt
<1> HIDE DEF new
<1>4. /\ receipts' \in Seq(S \cup {new}) /\ Len(receipts') = n /\ receipts'[n] = new
      /\ \A k \in 1 .. Len(receipts) : receipts'[k] = receipts[k]
      /\ Len(receipts) \in Nat
  BY <1>0, <1>1, <1>2
<1>5. /\ r.decision \in {"full", "residue"} /\ Accounting(r) /\ ValidPayload(r.items)
      /\ StillLive(r) /\ MatchesRanges(r)
      /\ r.decision = "residue" => BackedByPrior(r)
      /\ r.decision = "full" => LeansOnNothing(r)
  BY <1>2 DEF IssueAccepts
<1>6. /\ Forked(r.transition) /\ r.prior \in 0 .. Len(receipts)
      /\ r.current = DiscoverChanges(r.transition.c, r.transition.d)
  BY <1>5 DEF CacheInv, RouteHolds
<1>7. /\ r.carried \cap r.selected = {} /\ r.carried \cup r.selected = r.current
      /\ \A o \in r.carried : r.outcomes[o] \notin Blocking
  BY <1>5 DEF Accounting, BackedByPrior, LeansOnNothing
<1>8. /\ DOMAIN new.results = r.current
      /\ \A o \in r.selected : /\ new.results[o].outcome = outcomes[o]
                               /\ new.results[o].lineage = n
      /\ \A o \in r.carried : /\ new.results[o].outcome = r.outcomes[o]
                              /\ new.results[o].lineage = r.prior
  BY <1>3, <1>7 DEF IdentityResults
<1>9. SaysExecuted(n)'
  <2>1. \A o \in r.selected : <<o, outcomes[o], Compatibility(r.context)>> \in executed'
    BY <1>2
  <2>2. \A o \in r.carried : <<o, r.outcomes[o], Compatibility(r.context)>> \in executed'
    BY <1>2, <1>5 DEF CacheInv, CarriesAreReviewed, Routed
  <2>3. \A o \in r.current :
            <<o, new.results[o].outcome, Compatibility(r.context)>> \in executed'
    BY <1>7, <1>8, <2>1, <2>2
  <2> QED
    BY <1>3, <1>4, <1>8, <2>3 DEF SaysExecuted
<1>10. LineageHolds(n)'
  <2>1. r.prior # n
    BY <1>0, <1>4, <1>6
  <2> QED
    BY <1>3, <1>4, <1>7, <1>8, <2>1 DEF LineageHolds
<1>11. MatchesGit(r, [a |-> r.transition.c, b |-> r.transition.d])
  BY <1>5, <1>6 DEF MatchesGit, MatchesRanges
<1>12. <<tip, head>> = <<r.transition.q.base, r.transition.d>>
  BY <1>5 DEF StillLive, BaseCommit
<1>13. Presentable(n)'
  BY <1>3, <1>4, <1>5, <1>6, <1>10, <1>11, <1>12 DEF Presentable
<1>14. Answers(n)'
  <2>1. Routed /\ \A o \in DOMAIN outcomes : outcomes[o] \in OutcomeSet
    <3>1. Verdicts \subseteq OutcomeSet
      BY VerdictsAssumption DEF Outcomes, OutcomeSet
    <3> QED
      BY <1>5, <3>1 DEF Routed
  <2>2. r.decision = "residue" => r.context.manifest.composition = "itemwise_closed_v1"
    BY <1>2 DEF IssueAccepts
  <2>3. r.decision = "full" => r.carried = {}
    BY <1>5 DEF LeansOnNothing
  <2>4. r.prior # 0 => Refused(r.prior) \subseteq DOMAIN outcomes
    BY <1>5, <2>1, <2>2, <2>3 DEF CacheInv, RouteAnswers
  <2>5. r.prior # 0 => receipts'[r.prior] = receipts[r.prior]
    BY <1>4, <1>6
  <2>6. r.prior \in 0 .. n - 1
    BY <1>0, <1>4, <1>6
  <2>7. /\ \A i \in r.items : "obligation" \in DOMAIN i
        /\ DOMAIN r.outcomes = r.carried
        /\ \A o \in r.carried : r.outcomes[o] \in OutcomeSet
    BY <2>1 DEF CacheInv, RouteAnswers
  <2> QED
    BY <1>3, <1>4, <2>1, <2>4, <2>5, <2>6, <2>7 DEF Answers, Refused, RefusedIn
<1>15. \A k \in 1 .. Len(receipts) : SaysExecuted(k)' /\ Presentable(k)' /\ Answers(k)'
  <2>1. executed \subseteq executed'
    BY <1>2
  <2> QED
    BY <1>4, <2>1, EarlierReceipts
<1>16. \A k \in 1 .. Len(receipts)' : SaysExecuted(k)' /\ Presentable(k)' /\ Answers(k)'
  BY <1>0, <1>4, <1>9, <1>13, <1>14, <1>15
<1>17. OwedIsRefused'
  <2>1. OwedIsRefusedIn(receipts, Len(receipts))
    BY DEF CacheInv, OwedIsRefused
  <2>2. \A m \in 1 .. Len(receipts) + 1 :
            /\ receipts'[m].route.prior \in 0 .. m - 1
            /\ receipts'[m].route.prior # 0 =>
                  RefusedIn(receipts', receipts'[m].route.prior)
                      \subseteq DOMAIN receipts'[m].outcomes
    BY <1>0, <1>4, <1>16 DEF Answers, Refused
  <2>3. OwedIsRefusedIn(receipts', Len(receipts) + 1)
    BY <1>4, <2>1, <2>2, OwedExtends
  <2> QED
    BY <1>0, <1>4, <2>3 DEF OwedIsRefused
<1>18. RouteHolds' /\ RouteAnswers' /\ CarriesAreReviewed'
  BY <1>2 DEF RouteHolds, RouteAnswers, CarriesAreReviewed, Routed
<1> QED
  BY <1>4, <1>16, <1>17, <1>18 DEF CacheInv

-----------------------------------------------------------------------------
(* The specification.                                                      *)

LEMMA InitCache == Init => CacheInv
<1> SUFFICES ASSUME Init PROVE CacheInv
  OBVIOUS
<1>1. receipts \in Seq({}) /\ Len(receipts) = 0
  BY DEF Init
<1> QED
  BY <1>1 DEF Init, CacheInv, OwedIsRefused, OwedIsRefusedIn, RouteHolds, RouteAnswers,
              CarriesAreReviewed, Routed

LEMMA NextCache ==
    ASSUME CacheInv, [Next]_vars
    PROVE  CacheInv'
<1>1. ASSUME UNCHANGED <<receipts, executed>>, route' = route \/ route' = None
      PROVE  CacheInv'
  <2>1. RouteHolds' /\ RouteAnswers' /\ CarriesAreReviewed'
    BY <1>1 DEF CacheInv, RouteHolds, RouteAnswers, Refused,
                CarriesAreReviewed, Routed
  <2> QED
    BY <1>1, <2>1, ReceiptsStay
<1>2. CASE UNCHANGED vars
  BY <1>1, <1>2 DEF vars
<1>3. CASE \E h \in Heads : Push(h)
  BY <1>1, <1>3 DEF Push
<1>4. CASE AdvanceBase
  BY <1>1, <1>4 DEF AdvanceBase
<1>5. CASE \E m \in Manifests, checkpoint \in Heads : MakeContext(m, checkpoint)
  BY <1>1, <1>5 DEF MakeContext
<1>6. CASE \E checkpoint \in Heads, bundle \in Presented \cup {None},
              missing \in Unavailable : RunPreflight(checkpoint, bundle, missing)
  BY <1>6, RunPreflightStep
<1>7. CASE /\ route # None
           /\ \E outcomes \in [Obligations(route.items) -> Verdicts] : Issue(outcomes)
  BY <1>7, IssueStep
<1> QED
  BY <1>2, <1>3, <1>4, <1>5, <1>6, <1>7 DEF Next

LEMMA Cache == Spec => []CacheInv
BY InitCache, NextCache, PTL DEF Spec

\* Nothing is carried that no reviewer has seen: through any number of receipts,
\* an outcome that review_cache_preflight carries is what an execution said of
\* exactly this change under exactly this reviewer.
THEOREM CarriesWereReviewed == Spec => []CarriesAreReviewed
<1>1. CacheInv => CarriesAreReviewed
  BY DEF CacheInv
<1> QED
  BY <1>1, Cache, PTL

\* The newest receipt can be presented again.
LEMMA ReceiptsVerify == CacheInv => IssuedReceiptsVerify
<1>1. ASSUME CacheInv PROVE IssuedReceiptsVerify
  <2> SUFFICES ASSUME receipts # <<>> PROVE IssuedReceiptsVerify
    BY DEF IssuedReceiptsVerify
  <2> DEFINE n == Len(receipts)
             r == receipts[n].route
             t == ResolveTransition(tip, r.transition.d, head)
             bundle == [receipt |-> n, how |-> [trusted |-> TRUE, signed |-> TRUE,
                                                swapped |-> FALSE]]
  <2>1. n \in 1 .. Len(receipts)
    BY <1>1 DEF CacheInv
  <2>2. Presentable(n)
    BY <1>1, <2>1 DEF CacheInv
  <2>3. bundle.receipt = n /\ bundle.how.trusted /\ bundle.how.signed
        /\ ~bundle.how.swapped
    OBVIOUS
  <2>4. t.a = r.transition.c /\ t.b = r.transition.d
    BY <2>2 DEF Presentable, Forked, ResolveTransition
  <2> HIDE DEF n, t, bundle
  <2>5. BindsSnapshot(r, r.context, t)
    BY <2>4 DEF BindsSnapshot
  <2>6. BindsArtifacts(bundle)
    BY <2>2, <2>3 DEF Presentable, BindsArtifacts
  <2>7. MatchesGit(r, t)
    BY <2>2, <2>4 DEF Presentable, MatchesGit
  <2>8. VerifyReceipt(bundle, r.context, t) = "verified"
    BY <2>2, <2>3, <2>5, <2>6, <2>7 DEF VerifyReceipt, Presentable
  <2>9. receipts[n].live = <<r.transition.q.base, r.transition.d>>
    BY <2>2 DEF Presentable
  <2> QED
    BY <2>8, <2>9 DEF IssuedReceiptsVerify, n, t, bundle
<1> QED
  BY <1>1

\* Debt has a solution.
LEMMA DebtIsRefused ==
    ASSUME CacheInv
    PROVE  \A n \in 1 .. Len(receipts) : Debt[n] = Refused(n)
<1>1. Debt = CHOOSE f : Owed(receipts, Len(receipts), f)
  BY DEF Debt, Owed
<1> DEFINE h == [n \in 0 .. Len(receipts) |-> IF n = 0 THEN {} ELSE Refused(n)]
<1>2. Len(receipts) \in Nat
  BY DEF CacheInv
<1>3. Owed(receipts, Len(receipts), h)
  <2> DEFINE p(n) == receipts[n].route.prior
  <2>1. ASSUME NEW n \in 1 .. Len(receipts)
        PROVE  h[n] = (h[p(n)] \ DOMAIN receipts[n].outcomes) \cup RefusedIn(receipts, n)
    <3>1. p(n) \in 0 .. n - 1 /\ (p(n) # 0 => Refused(p(n)) \subseteq DOMAIN receipts[n].outcomes)
      BY DEF CacheInv, Answers
    <3>2. h[p(n)] \subseteq DOMAIN receipts[n].outcomes
      BY <1>2, <3>1
    <3>3. h[n] = Refused(n)
      BY <1>2
    <3> QED
      BY <3>2, <3>3 DEF Refused
  <2>2. h[0] = {} /\ DOMAIN h = 0 .. Len(receipts) /\ h = [n \in 0 .. Len(receipts) |-> h[n]]
    BY <1>2
  <2> DEFINE e == [n \in 0 .. Len(receipts) |->
                      IF n = 0 THEN {}
                      ELSE (h[p(n)] \ DOMAIN receipts[n].outcomes)
                           \cup RefusedIn(receipts, n)]
  <2> HIDE DEF h
  <2>3. ASSUME NEW n \in 0 .. Len(receipts) PROVE h[n] = e[n]
    <3>1. CASE n = 0
      BY <2>2, <3>1
    <3>2. CASE n # 0
      BY <1>2, <2>1, <3>2
    <3> QED
      BY <3>1, <3>2
  <2>4. h = e
    BY <2>2, <2>3
  <2> QED
    BY <2>4 DEF Owed, RefusedIn
<1>4. Owed(receipts, Len(receipts), Debt)
  BY <1>1, <1>3
<1> QED
  BY <1>4 DEF CacheInv, OwedIsRefused, OwedIsRefusedIn, Refused

\* A receipt that passes refused nothing.
LEMMA PassingRefusesNothing ==
    ASSUME CacheInv, NEW n \in 1 .. Len(receipts), Refused(n) # {}
    PROVE  receipts[n].effective \in Blocking
<1> DEFINE r == receipts[n].route
           said == receipts[n].outcomes
           S == {said[u] : u \in DOMAIN said} \cup {r.outcomes[u] : u \in DOMAIN r.outcomes}
<1>1. Presentable(n) /\ Answers(n)
  BY DEF CacheInv
<1>2. S \in SUBSET OutcomeSet
  BY <1>1 DEF Answers
<1>3. receipts[n].effective = ReduceReviewOutcomes(S)
  BY <1>1 DEF Presentable, EffectiveOutcome
<1>4. PICK o \in S : o \in Blocking
  BY DEF Refused, RefusedIn
<1> HIDE DEF S
<1> QED
  BY <1>2, <1>3, <1>4, ReduceBounds

\* A lineage of receipts can be built on.  None of them forgets a blocker: one
\* that reports a passing outcome owes nothing, even when what was refused has
\* left the pull request.  And what issue_review_cache_receipt signed describes
\* the live pull request of its time, and verify_receipt_inner accepts it
\* whatever has become of the base and the head since.
THEOREM LineagesHold == Spec => []ChainHolds
<1>1. ASSUME CacheInv PROVE BlockersSurvive
  <2> SUFFICES ASSUME NEW n \in DOMAIN receipts, receipts[n].effective \notin Blocking
               PROVE  Debt[n] = {}
    BY DEF BlockersSurvive
  <2>1. n \in 1 .. Len(receipts)
    BY <1>1 DEF CacheInv
  <2> QED
    BY <1>1, <2>1, DebtIsRefused, PassingRefusesNothing
<1>2. CacheInv => ChainHolds
  BY <1>1, ReceiptsVerify DEF ChainHolds
<1> QED
  BY <1>2, Cache, PTL

\* A skip of review_cache_preflight leaves nothing unreviewed, and the outcome
\* that it remembers is no better than what is recorded for any change of the
\* pull request or was refused along the lineage.
THEOREM SkipsAreHonest == Spec => []SkipIsHonest
<1>1. ASSUME CacheInv PROVE SkipIsHonest
  <2> SUFFICES ASSUME route # None, route.decision = "skip"
               PROVE  SkipIsHonest
    BY DEF SkipIsHonest
  <2> DEFINE n == route.prior
  <2>1. n \in 1 .. Len(receipts) /\ route.cached = receipts[n].effective
        /\ route.current \subseteq DOMAIN receipts[n].results
    BY <1>1 DEF CacheInv, RouteHolds, RouteAnswers, Routed
  <2>2. Presentable(n) /\ Answers(n)
    BY <1>1, <2>1 DEF CacheInv
  <2>3. Debt[n] # {} => CachedBlocking(route)
    BY <1>1, <2>1, DebtIsRefused, PassingRefusesNothing DEF CachedBlocking
  <2>4. \A o \in route.current :
            /\ o \in DOMAIN receipts[n].results
            /\ Severity(receipts[n].results[o].outcome) <= Severity(route.cached)
    BY <2>1, <2>2, ResultOutcome
  <2> QED
    BY <2>3, <2>4 DEF SkipIsHonest
<1> QED
  BY <1>1, Cache, PTL
=============================================================================
