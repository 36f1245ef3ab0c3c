------------------------------ MODULE Verifier ------------------------------
(***************************************************************************)
(* The independent verifier (stratadiff-verifier, verifier.rs).  It parses *)
(* both files afresh and derives from the relations of a report alone what *)
(* the matcher derived while it built them.  analyze_bytes_with_limits     *)
(* runs it on its own report before it returns it, and the command line on *)
(* reports from elsewhere.                                                 *)
(*                                                                         *)
(* The work budget, the size limits, the header and the digests of the     *)
(* files are left out: they only refuse, and before anything here counts.  *)
(***************************************************************************)
EXTENDS Matcher

CONSTANT MaxEdits   \* bound: how often a report is edited between two checks

VARIABLES
  received,   \* relations of a report that did not come from this matcher
  edits       \* how many edits separate it from the matcher's

allVars == <<vars, received, edits>>

Exacts == {"byte", "syntax"}
Anchored == {"global", "local", "descendant"}

-----------------------------------------------------------------------------
(* Relations.                                                              *)

\* The predicate that a relation claims holds of its nodes.
PredicateHolds(b, a, r) ==
  \/ r.predicate = "input" /\ r.before = Root /\ r.after = Root
  \/ r.predicate = "byte" /\ BytesEqual(b, r.before, a, r.after)
  \/ r.predicate = "syntax" /\ SyntaxEqual(b, r.before, a, r.after)
  \/ r.predicate = "shape" /\ ShapeEqual(b, r.before, a, r.after)

\* Evidence fits the predicate, and an exact relation claims the strongest.
EvidenceFits(b, a, r) ==
  \/ r.evidence = "input" /\ r.predicate = "input"
  \/ r.evidence = "stable" /\ r.predicate = "shape"
  \/ /\ r.evidence \in Anchored
     /\ SyntaxEqual(b, r.before, a, r.after)
     /\ r.predicate = Exact(b, r.before, a, r.after)

\* verify_relations: canonical order, one to one, true, one pair of roots.
RelationsHold(b, a, rs) ==
  /\ \A k \in DOMAIN rs : rs[k].before \in DOMAIN b /\ rs[k].after \in DOMAIN a
  /\ \A k \in 1 .. Len(rs) - 1 : rs[k].before < rs[k + 1].before
  /\ \A k, l \in DOMAIN rs : rs[k].after = rs[l].after => k = l
  /\ \A k \in DOMAIN rs : PredicateHolds(b, a, rs[k]) /\ EvidenceFits(b, a, rs[k])
  /\ \E k \in DOMAIN rs : rs[k].evidence = "input"

\* The maps that verified relations make.
MapsOf(b, a, rs) ==
  [to |-> [i \in DOMAIN b |->
             IF \E k \in DOMAIN rs : rs[k].before = i
             THEN rs[CHOOSE k \in DOMAIN rs : rs[k].before = i].after ELSE 0],
   from |-> [j \in DOMAIN a |->
             IF \E k \in DOMAIN rs : rs[k].after = j
             THEN rs[CHOOSE k \in DOMAIN rs : rs[k].after = j].before ELSE 0],
   fact |-> [i \in DOMAIN b |->
             IF \E k \in DOMAIN rs : rs[k].before = i
             THEN rs[CHOOSE k \in DOMAIN rs : rs[k].before = i].predicate ELSE "none"],
   why |-> [i \in DOMAIN b |->
             IF \E k \in DOMAIN rs : rs[k].before = i
             THEN rs[CHOOSE k \in DOMAIN rs : rs[k].before = i].evidence ELSE "none"]]

IsExact(m, i) == m.fact[i] \in Exacts
MappedPairs(m) == {<<i, m.to[i]>> : i \in {k \in DOMAIN m.to : m.to[k] # 0}}

-----------------------------------------------------------------------------
(* Exact anchors.                                                          *)

\* verify_global_anchor, against global_exact_index.
GlobalPairs(b, a) == UniquePairs(SyntaxKeys(b), SyntaxKeys(a))

\* certify_exact_subtree: the descendants an anchor vouches for.
Certified(b, i, j) == Paired(b, i, j) \ {<<i, j>>}

ParentsMapped(b, a, m, i, j) ==
  i # Root /\ j # Root /\ m.to[b[i].parent] = a[j].parent

\* verify_exact_anchor_evidence: every anchor is one, maps all it contains,
\* and every descendant lies below one.
AnchorsHold(b, a, m) ==
  LET anchors == {e \in MappedPairs(m) : m.why[e[1]] \in {"global", "local"}}
      certified == UNION {Certified(b, e[1], e[2]) : e \in anchors}
  IN  /\ \A e \in anchors :
           IF m.why[e[1]] = "global" THEN e \in GlobalPairs(b, a)
           ELSE ParentsMapped(b, a, m, e[1], e[2])
      /\ \A e \in certified : m.to[e[1]] = e[2] /\ m.why[e[1]] \in Anchored
      /\ \A i \in DOMAIN m.why : m.why[i] = "descendant" => <<i, m.to[i]>> \in certified

\* Mutant: a missing global anchor goes unnoticed.
AnyGlobal(b, a, m) == TRUE

\* verify_global_anchor_completeness: no unique equal subtree is left out.
GlobalComplete(b, a, m) ==
  \A e \in GlobalPairs(b, a) : m.to[e[1]] = e[2] /\ IsExact(m, e[1])

\* local_exact_candidates and local_exact_candidates_after: the children that
\* were not mapped exactly before their parents' turn came.
LocalCandidates(b, a, m, p, q) ==
  LET late(i) == ~IsExact(m, i) \/ m.why[i] = "local"
  IN  <<{i \in Ids(b[p].children) : late(i)},
        {j \in Ids(a[q].children) : m.from[j] = 0 \/ late(m.from[j])}>>

\* verify_local_exact_relations: the unique identical children of every mapped
\* pair are related, and no other relation claims to be a local anchor.
LocalsHold(b, a, m) ==
  LET unique(e) == LET c == LocalCandidates(b, a, m, e[1], e[2])
                   IN  UniquePairs(ExactKeys(b, c[1]), ExactKeys(a, c[2]))
      all == UNION {unique(e) : e \in MappedPairs(m)}
  IN  /\ \A e \in all : m.to[e[1]] = e[2] /\ IsExact(m, e[1])
      /\ \A i \in DOMAIN m.why : m.why[i] = "local" =>
           <<i, m.to[i]>> \in all /\ ParentsMapped(b, a, m, i, m.to[i])

-----------------------------------------------------------------------------
(* The stable core.                                                        *)

\* Mutant: the global phase is taken to have mapped nothing.
NoPhase(b, m) == {}

\* global_phase_mappings: what was mapped when the alignment began.
GlobalPhase(b, m) ==
  UNION {Paired(b, i, m.to[i]) : i \in {k \in DOMAIN m.why : m.why[k] = "global"}}

\* mark_phase_subtree: the report maps all of it, and no two anchors disagree.
PhaseHolds(m, phase) ==
  /\ \A e \in phase : m.to[e[1]] = e[2]
  /\ \A e, f \in phase : (e[1] = f[1]) <=> (e[2] = f[2])

\* phase_mappings_are_compatible
Compatible(b, phase, i, j) ==
  \A e \in Paired(b, i, j), f \in phase : (e[1] = f[1]) <=> (e[2] = f[2])

\* The regions of every mapped pair (ordered_alignment_regions): here a child
\* is open unless it is mapped exactly.
VerifierRegions(b, a, m, p, q) ==
  LET exactTo == [i \in DOMAIN m.to |-> IF IsExact(m, i) THEN m.to[i] ELSE 0]
  IN  Regions(b[p].children, a[q].children,
              Barriers(AnchorPositions(b[p].children, a[q].children, exactTo)),
              {i \in DOMAIN m.to : ~IsExact(m, i)},
              {j \in DOMAIN m.from : m.from[j] = 0 \/ ~IsExact(m, m.from[j])})

\* independent_stable_core, under every mapped pair.
CoresUnder(b, a, m, phase, e) ==
  LET ok == {f \in SameShape(b, a, b[e[1]].children, a[e[2]].children) :
                Compatible(b, phase, f[1], f[2])}
  IN  Together({StableCore(b, a, r[1], r[2], ok) : r \in VerifierRegions(b, a, m, e[1], e[2])})
GroupsUnder(e, core) ==
  {[parents |-> e, before |-> g.before, after |-> g.after,
    constraint |-> g.constraint] : g \in core.ambiguities}
IndependentCore(b, a, m, phase) ==
  Together({LET core == CoresUnder(b, a, m, phase, e)
            IN  [forced |-> core.forced, ambiguities |-> GroupsUnder(e, core)] :
              e \in MappedPairs(m)})

\* verify_stable_core: the stable relations are the forced pairs.
StableHolds(m, core) ==
  {e \in MappedPairs(m) : m.why[e[1]] = "stable"} = core.forced

\* verify_ambiguity_node_references, and the same demand of a derived group: a
\* group with choices has more pairs than it needs and names all its members.
GroupHolds(b, a, g) ==
  /\ g.before # << >> /\ g.after # << >>
  /\ "pairs" \in DOMAIN g.constraint =>
       /\ g.constraint.required > 0
       /\ Cardinality(g.constraint.pairs) > g.constraint.required
       /\ g.constraint.required <= Min({Len(g.before), Len(g.after)})
       /\ \A e \in g.constraint.pairs : ShapeEqual(b, e[1], a, e[2])
       /\ {e[1] : e \in g.constraint.pairs} = Ids(g.before)
       /\ {e[2] : e \in g.constraint.pairs} = Ids(g.after)

\* derive_changes of the verifier, from the verified relations.
ExpectedChanges(b, a, m, groups) ==
  DeriveChanges(b, a, m.to, m.from, m.fact, groups, ~BytesEqual(b, Root, a, Root))

-----------------------------------------------------------------------------
(* verify_report_inner.                                                    *)

\* What the relations of a report imply: whether they stand, and with which
\* ambiguities and changes they may be reported.
Refusal == [stands |-> FALSE]
JudgeCore(b, a, m, core) ==
  [stands |-> /\ StableHolds(m, core)
              /\ \A g \in core.ambiguities : GroupHolds(b, a, g),
   to |-> m.to, ambiguities |-> core.ambiguities,
   changes |-> ExpectedChanges(b, a, m, core.ambiguities)]
JudgeMaps(b, a, m, phase) ==
  IF /\ AnchorsHold(b, a, m) /\ GlobalComplete(b, a, m)
     /\ LocalsHold(b, a, m) /\ PhaseHolds(m, phase)
  THEN JudgeCore(b, a, m, IndependentCore(b, a, m, phase)) ELSE Refusal
JudgeFrom(b, a, m) == JudgeMaps(b, a, m, GlobalPhase(b, m))
Judge(b, a, rs) ==
  IF RelationsHold(b, a, rs) THEN JudgeFrom(b, a, MapsOf(b, a, rs)) ELSE Refusal

\* The self-check of analyze_bytes_with_limits: the report is returned only if
\* its relations stand and its ambiguities and changes are the derived ones.
Confirms(verdict, rep) == /\ verdict.stands
                          /\ rep.ambiguities = verdict.ambiguities
                          /\ rep.changes = verdict.changes
Verify ==
  /\ pc = "verify"
  /\ pc' = IF Confirms(Judge(before, after, report.relations), report)
           THEN "accepted" ELSE "rejected"
  /\ received' = report.relations
  /\ UNCHANGED <<source, before, after, st, cursor, ambiguities, report, edits>>

\* Relations from elsewhere: another version of the matcher, or a damaged file.
\* One edit drops the relations of a subtree, or claims another counterpart for
\* a node: an anchor with all it contains, or a stable pair.  (A relation that is
\* false of its own nodes is refused at once: none is tried.)
AnchorClaim(b, a, i, j, evidence) ==
  {[before |-> e[1], after |-> e[2], predicate |-> Exact(b, e[1], a, e[2]),
    evidence |-> IF e[1] = i THEN evidence ELSE "descendant"] : e \in Paired(b, i, j)}
StableClaim(i, j) ==
  {[before |-> i, after |-> j, predicate |-> "shape", evidence |-> "stable"]}
Below(b, i) == i .. i + b[i].size - 1
Claims(b, a, i, j) ==
  {<<Below(b, i), AnchorClaim(b, a, i, j, w)>> :
     w \in IF SyntaxEqual(b, i, a, j) THEN Anchored ELSE {}}
  \cup {<<nodes, StableClaim(i, j)>> :
          nodes \in IF ShapeEqual(b, i, a, j) THEN {{i}, Below(b, i)} ELSE {}}

InOrder(rs) == Ordered(rs, LAMBDA r, s: r.before < s.before)
Edit(nodes, claim) ==
  /\ edits < MaxEdits
  /\ received' = InOrder({r \in {received[k] : k \in DOMAIN received} :
                            r.before \notin nodes} \cup claim)
  /\ received' # received
  /\ edits' = edits + 1
  /\ pc' = "received"
  /\ UNCHANGED <<source, before, after, st, cursor, ambiguities, report>>

Drop == /\ pc \in {"accepted", "received"}
        /\ \E i \in DOMAIN before : Edit(Below(before, i), {})
Claim == /\ pc \in {"accepted", "received"}
         /\ \E i \in DOMAIN before, j \in DOMAIN after :
              \E claim \in Claims(before, after, i, j) : Edit(claim[1], claim[2])

\* verify_report_bytes, of those relations with the ambiguities and changes
\* that they imply.
Recheck ==
  /\ pc = "received"
  /\ pc' = IF Judge(before, after, received).stands THEN "believed" ELSE "refused"
  /\ UNCHANGED <<source, before, after, st, cursor, ambiguities, report, received, edits>>

DifferInit == Init /\ received = << >> /\ edits = 0
Produce == (ParseBoth \/ Anchor \/ Align \/ Finish) /\ UNCHANGED <<received, edits>>
Receive == Drop \/ Claim
DifferNext == Produce \/ Verify \/ Receive \/ Recheck
DifferSpec == DifferInit /\ [][DifferNext]_allVars

-----------------------------------------------------------------------------
(* Properties.                                                             *)

\* The two derivations agree: a report that this matcher produced is never
\* refused by its own verification ("generated report failed independent
\* verification"), whatever the interplay of global anchors found before the
\* alignment, local anchors found during it, and barriers that later rounds see.
NeverSelfRefuted == pc # "rejected"

SameClaims(verdict) == verdict.to = st.to /\ verdict.ambiguities = ambiguities

\* What the verifier believes is what the matcher says: no other relations stand
\* with the verifier than ones that map the same nodes and leave the same choices
\* open, though it never compares with the matcher.
BeliefIsCanonical ==
  pc = "believed" => SameClaims(Judge(before, after, received))

\* Against the reference: best is the set of maximum alignments of a region.
ChoicesIn(e, r) ==
  {g \in ambiguities : /\ g.parents = e /\ "pairs" \in DOMAIN g.constraint
                       /\ Ids(g.before) \subseteq Ids(r[1])}
Claimed(r) == {i \in Ids(r[1]) : st.to[i] # 0}
RegionIsRight(best, e, r) ==
  /\ \A i \in Claimed(r), s \in best : <<i, st.to[i]>> \in s
  /\ \A g \in ChoicesIn(e, r) : \A c \in g.constraint.pairs :
       (\E s \in best : c \in s) /\ (\E s \in best : c \notin s)
RegionsAreRight(m) ==
  LET exact == {f \in MappedPairs(m) : IsExact(m, f[1])}
      ok(r) == {f \in SameShape(before, after, r[1], r[2]) : Compatible(before, exact, f[1], f[2])}
  IN  \A e \in MappedPairs(m) : \A r \in VerifierRegions(before, after, m, e[1], e[2]) :
        \/ Claimed(r) = {} /\ ChoicesIn(e, r) = {}
        \/ RegionIsRight(MaximumAlignments(r[1], r[2], ok(r)), e, r)

\* A pair that is reported as an update, "present in every optimal alignment",
\* is in every maximum order-preserving alignment of its whole region, although
\* each component was aligned by itself; and a group that leaves choices open
\* is of pairs that occur in some maximum alignment and not in all.
UpdatesAreForced ==
  pc = "verify" => RegionsAreRight(MapsOf(before, after, report.relations))

\* Two files that differ never give an empty report.
DifferenceShows ==
  (pc = "verify" /\ ~BytesEqual(before, Root, after, Root)) =>
    report.changes # {} \/ report.ambiguities # {}
=============================================================================
