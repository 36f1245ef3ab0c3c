----------------------------- MODULE ReviewCache ----------------------------
(***************************************************************************)
(* The review cache, src/src/review_cache.rs.  A context is built for the  *)
(* live pull request, preflight routes the review against an earlier       *)
(* signed receipt (skip, residue, full or blocked), the reviewer answers   *)
(* for every selected obligation, and a receipt is issued that later       *)
(* rounds carry from.  Heads are pushed, the base moves and the reviewer   *)
(* is reconfigured between any two of these steps.                         *)
(*                                                                         *)
(* Digests and Ed25519 signatures are injective and unforgeable, so the    *)
(* digest of a receipt body is its position in the sequence of receipts.   *)
(***************************************************************************)
EXTENDS GitDelta, FiniteSetsExt

CONSTANTS
    Heads,          \* the heads that are pushed
    Manifests,      \* reviewer manifests with the metadata they are used with
    Bundles,        \* how a receipt is presented: [trusted, signed, swapped]
    Verdicts,       \* the outcomes the reviewer gives
    Unavailable,    \* sets of blobs that may be missing from the clone
    MaxIdentities, MaxSourceBytes, MaxReceipts

ASSUME CacheAssumption ==
    /\ Heads \subseteq Commit
    /\ MaxIdentities \in Nat /\ MaxSourceBytes \in Nat /\ MaxReceipts \in Nat

VARIABLES
    tip,        \* the tip of the base branch
    head,       \* the live head of the pull request
    context,    \* the context built last, or None
    route,      \* the artifacts of the last preflight, or None
    receipts,   \* every receipt that was issued
    executed    \* what reviewers really said: see CarriesAreReviewed

vars == <<tip, head, context, route, receipts, executed>>

-----------------------------------------------------------------------------
(* Outcomes.                                                               *)

Outcomes == <<"passed", "advisory", "changes_requested", "failed">>

ASSUME VerdictsAssumption == Verdicts \subseteq {Outcomes[i] : i \in DOMAIN Outcomes}

Severity(outcome) == CHOOSE i \in DOMAIN Outcomes : Outcomes[i] = outcome

Blocking == {"changes_requested", "failed"}

\* Mutant: the comparison of severities is turned round.
MildestOutcome(S) == Outcomes[Min({1} \cup {Severity(o) : o \in S})]

ReduceReviewOutcomes(S) == Outcomes[Max({1} \cup {Severity(o) : o \in S})]

-----------------------------------------------------------------------------
(* Contexts.                                                               *)

\* build_review_cache_context: the manifest, bound to the live snapshots and
\* to the objects reachable from the checkpoint.
BuildContext(manifest, t) ==
    [manifest |-> manifest, q |-> t.q.base, d |-> t.d, closure |-> RepositoryClosure(t)]

\* The projection that compatibility_sha256 covers.
Compatibility(c) ==
    <<c.manifest.scope, c.manifest.closed, c.manifest.composition, c.manifest.reviewer>>

\* parse_context: an unpinned model needs an open dependency closure.
SemanticErrors(c) == ~c.manifest.pinned /\ c.manifest.closed

\* validate_context_git_closure
ClosureErrors(c, t) == \E snapshot \in {t.q, t.b, t.d} : snapshot \notin c.closure

-----------------------------------------------------------------------------
(* Payloads.                                                               *)

Item(kind, obligation) ==
    [obligation |-> obligation, kind |-> kind, original |-> kind, origin |-> 0]

Obligations(items) == {i.obligation : i \in items}

\* The bytes an item puts in front of the reviewer.
ItemBytes(i) ==
    IF i.original = "base_drift" THEN MapThenSumSet(SourceBytes, i.obligation.changes)
                                 ELSE SourceBytes(i.obligation)

\* build_payload, where the sets are disjoint.
BuildPayload(current, retired, drift, retained) ==
    {Item("current_change", o) : o \in current}
    \cup {Item("retired_checkpoint_change", o) : o \in retired}
    \cup {Item("base_drift", o) : o \in drift}
    \cup retained

\* validate_payload_items
ValidPayload(items) ==
    /\ MapThenSumSet(ItemBytes, items) <= MaxSourceBytes
    /\ Cardinality(Obligations(items)) = Cardinality(items)
    /\ \A i \in items : i.kind = "retained_non_current_obligation" =>
                            i.original \in {"retired_checkpoint_change", "base_drift"}

OfKind(items, kind) == {i.obligation : i \in {j \in items : j.kind = kind}}

\* validate_review_input_accounting
Accounting(r) ==
    /\ r.carried \cap r.selected = {}
    /\ r.carried \cup r.selected = r.current
    /\ r.selected \cap r.retired = {} /\ r.selected \cap r.drift = {}
    /\ r.selected \cap Obligations(r.retained) = {}
    /\ r.retired \cap r.drift = {}
    /\ (r.retired \cup r.drift) \cap Obligations(r.retained) = {}
    /\ OfKind(r.items, "current_change") = r.selected
    /\ OfKind(r.items, "retired_checkpoint_change") = r.retired
    /\ OfKind(r.items, "base_drift") = r.drift
    /\ OfKind(r.items, "retained_non_current_obligation") = Obligations(r.retained)

-----------------------------------------------------------------------------
(* verify_receipt_inner.  A receipt keeps the route it answers and the     *)
(* outcome of each selected obligation; results is the outcome and lineage *)
(* of each current identity.                                               *)

\* What was found wrong with the selected obligations that are not current.
BlockedElsewhere(r, outcomes) ==
    {o \in DOMAIN outcomes : o \notin r.selected /\ outcomes[o] \in Blocking}

EffectiveOutcome(outcomes, carried) ==
    ReduceReviewOutcomes({outcomes[o] : o \in DOMAIN outcomes}
                         \cup {carried[o] : o \in DOMAIN carried})

\* The lineage of every current identity leads to the execution that this
\* receipt binds or to the receipt that it carried from.
LineageHolds(n) ==
    LET r == receipts[n].route IN
    /\ DOMAIN receipts[n].results = r.current
    /\ \A o \in r.current :
        LET result == receipts[n].results[o] IN
        \/ /\ result.lineage = n
           /\ o \in r.selected
           /\ result.outcome = receipts[n].outcomes[o]
        \/ /\ result.lineage = r.prior /\ result.lineage # n
           /\ o \in r.carried
           /\ result.outcome = r.outcomes[o] /\ result.outcome \notin Blocking

\* The receipt speaks of this composition and of the checkpoint.
BindsSnapshot(r, c, t) ==
    /\ r.context.manifest.composition = c.manifest.composition
    /\ r.transition.c = t.a /\ r.transition.d = t.b

\* The input, the payload and the result that come with a receipt are the
\* ones it was issued for; swapped says that they are not.
BindsArtifacts(bundle) ==
    LET r == receipts[bundle.receipt].route IN
    /\ ~bundle.how.swapped
    /\ Accounting(r) /\ ValidPayload(r.items)
    /\ DOMAIN receipts[bundle.receipt].outcomes = Obligations(r.items)

\* What the payload says of the checkpoint is what Git says.
MatchesGit(r, t) ==
    /\ r.drift \subseteq (IF BaseChanged(r.transition) THEN {BaseDrift(r.transition)} ELSE {})
    /\ r.current = DiscoverChanges(t.a, t.b)

\* The order of the tests is the order of the reasons.
VerifyReceipt(bundle, c, t) ==
    LET body == receipts[bundle.receipt]
        r == body.route
    IN  CASE ~bundle.how.trusted      -> "untrusted_source"
          [] ~bundle.how.signed       -> "invalid_signature"
          [] ~BindsSnapshot(r, c, t)  -> "digest_mismatch"
          [] ~BindsArtifacts(bundle)  -> "digest_mismatch"
          [] ~MatchesGit(r, t)        -> "digest_mismatch"
          [] ~LineageHolds(bundle.receipt) -> "incomplete_coverage"
          [] r.decision \notin {"full", "residue"} -> "incomplete_coverage"
          [] body.effective # EffectiveOutcome(body.outcomes, r.outcomes) -> "incomplete_coverage"
          [] OTHER -> "verified"

\* blocking_non_current: what a receipt leaves to be reviewed again, whether
\* or not the pull request still shows it.
BlockingNonCurrent(n) ==
    {IF i.kind = "retained_non_current_obligation" THEN i
     ELSE [i EXCEPT !.kind = "retained_non_current_obligation", !.origin = n] :
        i \in {j \in receipts[n].route.items :
                  j.obligation \in BlockedElsewhere(receipts[n].route, receipts[n].outcomes)}}

-----------------------------------------------------------------------------
(* review_cache_preflight                                                  *)

\* build_blocked
BuildBlocked(c, t, reason) ==
    [decision |-> "blocked", reason |-> reason, context |-> c, transition |-> t, prior |-> 0,
     current |-> {}, carried |-> {}, outcomes |-> <<>>, selected |-> {}, retired |-> {},
     drift |-> {}, retained |-> {}, items |-> {}, cached |-> None]

\* Whether a verified receipt may be carried from under this context.
CarryEligible(n, c, t) ==
    LET old == receipts[n].route.context IN
    /\ c.manifest.closed
    /\ Compatibility(old) = Compatibility(c)
    /\ old.manifest.history = c.manifest.history
    /\ old.manifest.metadata = c.manifest.metadata
    /\ \/ c.manifest.scope = "selected_payload_only"
       \/ old.closure = c.closure /\ t.b = t.d /\ t.a.tree = t.c.tree

\* reviewer_input_projection: a holistic reviewer sees all items at once.
SameProjection(n, current) ==
    receipts[n].route.items = {Item("current_change", o) : o \in current}

\* Mutant: an identity is carried whatever was said of it.
CarriedAnyway(n, c, t, current) ==
    IF ~CarryEligible(n, c, t) THEN {}
    ELSE {o \in current : o \in DOMAIN receipts[n].results}

\* The identities that keep their outcome.
Carried(n, c, t, current) ==
    IF ~CarryEligible(n, c, t) THEN {}
    ELSE IF c.manifest.composition = "itemwise_closed_v1"
    THEN {o \in current : /\ o \in DOMAIN receipts[n].results
                          /\ receipts[n].results[o].outcome \notin Blocking
                          /\ o \notin Obligations(BlockingNonCurrent(n))}
    ELSE IF /\ ~BaseChanged(t) /\ SameProjection(n, current)
            /\ current = DOMAIN receipts[n].results
    THEN current \ Obligations(BlockingNonCurrent(n))
    ELSE {}

\* Mutant: what is not current any more is forgotten.
RetainNothing(n, seen) == {}

\* Blockers of the receipt that no other obligation of this round repeats.
RetainedNonCurrent(n, seen) == {i \in BlockingNonCurrent(n) : i.obligation \notin seen}

Decision(eligible, items, carried, retained) ==
    CASE eligible /\ items = {} -> "skip"
      [] eligible /\ (carried # {} \/ retained # {}) -> "residue"
      [] OTHER -> "full"

\* Why a route is what it is.
Reason(decision, n, why, closed, eligible) ==
    CASE decision = "skip"    -> "all_obligations_exactly_covered"
      [] decision = "residue" -> "exact_carries_removed_from_review_input"
      [] n = 0                -> why
      [] ~closed              -> "context_open"
      [] ~eligible            -> "context_mismatch"
      [] OTHER                -> "no_exact_carry"

\* The route of a readable pull request.  n is the verified receipt, 0 for
\* none.
Route(c, t, n, why) ==
    LET current  == DiscoverChanges(t.c, t.d)
        eligible == n # 0 /\ CarryEligible(n, c, t)
        carried  == IF n = 0 THEN {} ELSE Carried(n, c, t, current)
        retired  == IF n = 0 THEN {} ELSE DOMAIN receipts[n].results \ current
        drift    == IF n # 0 /\ BaseChanged(t) THEN {BaseDrift(t)} ELSE {}
        retained == IF n = 0 THEN {} ELSE RetainedNonCurrent(n, current \cup retired \cup drift)
        selected == current \ carried
        items    == BuildPayload(selected, retired, drift, retained)
        decision == Decision(eligible, items, carried, retained)
    IN  IF Cardinality(items) > MaxIdentities \/ ~ValidPayload(items)
        THEN BuildBlocked(c, t, "resource_limit")
        ELSE [decision |-> decision, context |-> c, transition |-> t, prior |-> n,
              reason   |-> Reason(decision, n, why, c.manifest.closed, eligible),
              current  |-> current, carried |-> carried,
              outcomes |-> [o \in carried |-> receipts[n].results[o].outcome],
              selected |-> selected, retired |-> retired, drift |-> drift,
              retained |-> retained, items |-> items,
              cached   |-> IF n = 0 THEN None ELSE receipts[n].effective]

Preflight(c, t, bundle, missing) ==
    IF ChangeObjects(DiscoverChanges(t.c, t.d)) \cap missing # {}
    THEN BuildBlocked(c, t, "source_closure_incomplete")
    ELSE IF SemanticErrors(c) \/ ClosureErrors(c, t)
    THEN BuildBlocked(c, t, "invalid_receipt_or_context")
    ELSE IF bundle = None THEN Route(c, t, 0, "not_provided")
    ELSE LET verdict == VerifyReceipt(bundle, c, t)
         IN  IF verdict # "verified" THEN Route(c, t, 0, verdict)
             ELSE IF BaseChanged(t) /\ ChangeObjects(DiscoverChanges(t.a, t.c)) \cap missing # {}
             THEN BuildBlocked(c, t, "source_closure_incomplete")
             ELSE Route(c, t, bundle.receipt, "verified")

\* A skip whose remembered outcome blocks makes the command fail.
CachedBlocking(r) == r.decision = "skip" /\ r.cached \in Blocking

\* should_run: the reviewer is called.
ShouldRun(r) == r.decision \in {"residue", "full"}

-----------------------------------------------------------------------------
(* issue_review_cache_receipt                                              *)

\* A full route starts a lineage: it may not lean on an earlier receipt.
LeansOnNothing(r) == r.carried = {} /\ r.retained = {}

\* A residue is checked again against the receipt that it carries from.
BackedByPrior(r) ==
    /\ r.prior # 0
    /\ CarryEligible(r.prior, r.context, r.transition)
    /\ r.carried # {} \/ r.retained # {}
    /\ \A o \in r.carried : /\ r.outcomes[o] \notin Blocking
                            /\ r.outcomes[o] = receipts[r.prior].results[o].outcome
    /\ r.retained = RetainedNonCurrent(r.prior, Obligations(r.items \ r.retained))

\* The selected items are those of the local Git ranges.
MatchesRanges(r) ==
    /\ r.selected \subseteq DiscoverChanges(r.transition.c, r.transition.d)
    /\ r.retired \subseteq DiscoverChanges(r.transition.a, r.transition.b)
    /\ r.drift \subseteq (IF BaseChanged(r.transition) THEN {BaseDrift(r.transition)} ELSE {})

\* The base tip and the head that the adapter sees now.
StillLive(r) == r.transition.q = BaseCommit(tip) /\ r.transition.d = head

IssueAccepts(r) ==
    /\ r.decision \in {"full", "residue"}
    /\ r.decision = "residue" => r.context.manifest.composition = "itemwise_closed_v1"
    /\ Accounting(r) /\ ValidPayload(r.items)
    /\ StillLive(r)
    /\ MatchesRanges(r)
    /\ IF r.decision = "residue" THEN BackedByPrior(r) ELSE LeansOnNothing(r)

\* current_identity_results: where each outcome comes from.
IdentityResults(r, outcomes, n) ==
    [o \in r.current |->
        IF o \in r.selected THEN [outcome |-> outcomes[o], lineage |-> n]
                            ELSE [outcome |-> r.outcomes[o], lineage |-> r.prior]]

NewReceipt(r, outcomes) ==
    [route |-> r, outcomes |-> outcomes,
     results |-> IdentityResults(r, outcomes, Len(receipts) + 1),
     effective |-> EffectiveOutcome(outcomes, r.outcomes),
     live |-> <<tip, head>>]

-----------------------------------------------------------------------------

Init ==
    /\ tip = 1
    /\ head \in {h \in Heads : h.base = 1}
    /\ context = None /\ route = None
    /\ receipts = <<>>
    /\ executed = {}

Push(h) ==
    /\ h \in Heads /\ h # head /\ h.base <= tip
    /\ head' = h
    /\ UNCHANGED <<tip, context, route, receipts, executed>>

AdvanceBase ==
    /\ tip < Len(BaseTrees)
    /\ tip' = tip + 1
    /\ UNCHANGED <<head, context, route, receipts, executed>>

Reviewed == {receipts[n].route.transition.d : n \in DOMAIN receipts}

\* stratadiff review-cache-context
MakeContext(manifest, checkpoint) ==
    /\ checkpoint \in Reviewed \cup {head}
    /\ context' = BuildContext(manifest, ResolveTransition(tip, checkpoint, head))
    /\ route' = None
    /\ UNCHANGED <<tip, head, receipts, executed>>

\* stratadiff review-cache: the snapshots are those of the context, which may
\* be older than the pull request.
RunPreflight(checkpoint, bundle, missing) ==
    /\ context # None /\ route = None
    /\ checkpoint \in Reviewed \cup {head}
    /\ route' = Preflight(context, ResolveTransition(context.q, checkpoint, context.d),
                          bundle, missing)
    /\ UNCHANGED <<tip, head, context, receipts, executed>>

\* The reviewer answers for every selected obligation and stratadiff
\* review-cache-receipt signs.
Issue(outcomes) ==
    /\ Len(receipts) < MaxReceipts
    /\ route # None /\ ShouldRun(route)
    /\ IssueAccepts(route)
    /\ receipts' = Append(receipts, NewReceipt(route, outcomes))
    /\ executed' = executed \cup {<<o, outcomes[o], Compatibility(route.context)>> :
                                    o \in route.selected}
    /\ route' = None /\ context' = None
    /\ UNCHANGED <<tip, head>>

Presented == {[receipt |-> n, how |-> how] : n \in DOMAIN receipts, how \in Bundles}

Next ==
    \/ \E h \in Heads : Push(h)
    \/ AdvanceBase
    \/ \E m \in Manifests, checkpoint \in Heads : MakeContext(m, checkpoint)
    \/ \E checkpoint \in Heads, bundle \in Presented \cup {None}, missing \in Unavailable :
            RunPreflight(checkpoint, bundle, missing)
    \/ /\ route # None
       /\ \E outcomes \in [Obligations(route.items) -> Verdicts] : Issue(outcomes)

Spec == Init /\ [][Next]_vars

-----------------------------------------------------------------------------
(* Properties.                                                             *)

Routed == route # None /\ route.decision # "blocked"

\* Nothing is carried that no reviewer has seen: through any number of
\* receipts, a carried outcome is what an execution said of exactly this
\* change under exactly this reviewer, and an itemwise carry is never a
\* blocking one.
CarriesAreReviewed ==
    Routed => \A o \in route.carried :
        /\ <<o, route.outcomes[o], Compatibility(route.context)>> \in executed
        /\ route.context.manifest.composition = "itemwise_closed_v1"
            => route.outcomes[o] \notin Blocking

\* The obligations whose last execution in the lineage of a receipt blocked.
Debt[n \in 0 .. Len(receipts)] ==
    IF n = 0 THEN {}
    ELSE (Debt[receipts[n].route.prior] \ DOMAIN receipts[n].outcomes)
         \cup {o \in DOMAIN receipts[n].outcomes : receipts[n].outcomes[o] \in Blocking}

\* A blocker is never lost along a lineage: a receipt that reports a passing
\* outcome owes nothing, even when what was refused has left the pull request.
BlockersSurvive ==
    \A n \in DOMAIN receipts : receipts[n].effective \notin Blocking => Debt[n] = {}

\* A skip reports an outcome that is no better than what is recorded for any
\* change of the pull request, and leaves nothing unreviewed.
SkipIsHonest ==
    (route # None /\ route.decision = "skip") =>
        /\ Debt[route.prior] # {} => CachedBlocking(route)
        /\ \A o \in route.current :
            /\ o \in DOMAIN receipts[route.prior].results
            /\ Severity(receipts[route.prior].results[o].outcome) <= Severity(route.cached)

\* A receipt speaks of the pull request as it was when it was signed, and it
\* can be carried from: presented with its own artifacts under its own context,
\* it verifies wherever the base and the head have gone since.
IssuedReceiptsVerify ==
    receipts # <<>> =>
        LET n == Len(receipts)
            r == receipts[n].route
            t == ResolveTransition(tip, r.transition.d, head)
            bundle == [receipt |-> n, how |-> [trusted |-> TRUE, signed |-> TRUE,
                                               swapped |-> FALSE]]
        IN  /\ receipts[n].live = <<r.transition.q.base, r.transition.d>>
            /\ VerifyReceipt(bundle, r.context, t) = "verified"

\* A lineage of receipts can be built on: none of them forgets a blocker, and
\* the newest can be presented again.
ChainHolds == BlockersSurvive /\ IssuedReceiptsVerify

\* Not an invariant.  REVIEW-CONTEXT-CONTRACT.md: a holistic context "can never
\* authorize a partial residue".  It does when an earlier holistic review
\* refused something that is no longer current.
HolisticIsNeverPartial ==
    (route # None /\ route.decision = "residue")
        => route.context.manifest.composition = "itemwise_closed_v1"

=============================================================================
