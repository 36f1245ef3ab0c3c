----------------------------- MODULE Alignment ------------------------------
(***************************************************************************)
(* Ordered alignment of the children of a mapped pair of nodes: which      *)
(* pairs occur in every maximum order-preserving alignment of equally      *)
(* shaped children, and which choices stay open (matcher.rs).  A region is *)
(* <<bs, as>>, two sequences of node ids in child order; ok is the set of  *)
(* equally shaped pairs that the mappings made so far allow.               *)
(***************************************************************************)
EXTENDS Syntax, FiniteSets, FiniteSetsExt

CONSTANT ComponentLimit   \* ORDERED_ALIGNMENT_COMPONENT_LIMIT

ScanLimit == ComponentLimit * ComponentLimit * 4

Ids(s) == {s[i] : i \in DOMAIN s}

\* The elements of S in a strict total order.
Ordered(S, Less(_, _)) ==
  [k \in 1 .. Cardinality(S) |->
     CHOOSE e \in S : Cardinality({f \in S : Less(f, e)}) = k - 1]

ShapeKey(n) == <<n.field, n.kind, n.shape>>

\* The pairs that an alignment may consider at all.
SameShape(b, a, bs, as) ==
  {e \in Ids(bs) \X Ids(as) : ShapeKey(b[e[1]]) = ShapeKey(a[e[2]])}

-----------------------------------------------------------------------------
(* Candidate groups.                                                       *)

\* verified_shape_classes: the children of both sides by field, kind, shape.
ShapeClasses(b, a, bs, as) ==
  {[before |-> SelectSeq(bs, LAMBDA i: ShapeKey(b[i]) = key),
    after |-> SelectSeq(as, LAMBDA j: ShapeKey(a[j]) = key)] :
     key \in {ShapeKey(b[i]) : i \in Ids(bs)}
               \cap {ShapeKey(a[j]) : j \in Ids(as)}}

\* The before nodes connected with i through allowed pairs (DisjointSets).
RECURSIVE Connected(_, _)
Connected(is, edges) ==
  LET js == {e[2] : e \in {f \in edges : f[1] \in is}}
      grown == {e[1] : e \in {f \in edges : f[2] \in js}}
  IN  IF grown \subseteq is THEN is ELSE Connected(is \cup grown, edges)

\* verified_candidate_groups: a class is split along its allowed pairs; a
\* class with too many pairs to scan is one group, scanned incompletely.
GroupsOfClass(class, ok) ==
  LET edges == ok \cap (Ids(class.before) \X Ids(class.after))
      blocks == {Connected({e[1]}, edges) : e \in edges}
  IN  IF Len(class.before) * Len(class.after) > ScanLimit
      THEN {[before |-> Ids(class.before), after |-> Ids(class.after),
             scanned |-> FALSE]}
      ELSE {[before |-> block,
             after |-> {e[2] : e \in {f \in edges : f[1] \in block}},
             scanned |-> TRUE] : block \in blocks}
CandidateGroups(b, a, bs, as, ok) ==
  UNION {GroupsOfClass(class, ok) : class \in ShapeClasses(b, a, bs, as)}

Singleton(g) == Cardinality(g.before) = 1 /\ Cardinality(g.after) = 1

-----------------------------------------------------------------------------
(* Independent components.                                                 *)

Position(s, id) == CHOOSE i \in DOMAIN s : s[i] = id

\* The groups that the first p active children belong to.
GroupsOfPrefix(groups, bs, p) == {g \in groups : \E i \in 1 .. p : bs[i] \in g.before}
AftersOfPrefix(groups, bs, p) == UNION {g.after : g \in GroupsOfPrefix(groups, bs, p)}

PrefixEnds(groups, bs, p) ==
  p = Max({Position(bs, i) : i \in UNION {g.before : g \in GroupsOfPrefix(groups, bs, p)}})

\* A cut is where the groups seen so far occupy a prefix of both sides.
IsCut(groups, bs, as, p) ==
  /\ PrefixEnds(groups, bs, p)
  /\ LET afters == AftersOfPrefix(groups, bs, p)
     IN  Cardinality(afters) = Max({Position(as, j) : j \in afters})

Between(groups, bs, as, p, q) ==
  [before |-> SubSeq(bs, p + 1, q),
   after |-> SubSeq(as, Cardinality(AftersOfPrefix(groups, bs, p)) + 1,
                        Cardinality(AftersOfPrefix(groups, bs, q))),
   scanned |-> \A g \in groups : (\E i \in p + 1 .. q : bs[i] \in g.before) => g.scanned]

\* ordered_interaction_components: the active children between two cuts.
SplitAt(groups, bs, as, cuts) ==
  {Between(groups, bs, as, Max({0} \cup {p \in cuts : p < q}), q) : q \in cuts}
ActiveComponents(groups, bs, as) ==
  SplitAt(groups, bs, as, {p \in DOMAIN bs : IsCut(groups, bs, as, p)})
\* Mutant: groups are taken one by one, as if they could not cross.
ComponentsByGroup(groups, bs, as) ==
  {[before |-> SelectSeq(bs, LAMBDA i: i \in g.before),
    after |-> SelectSeq(as, LAMBDA j: j \in g.after), scanned |-> g.scanned] : g \in groups}

Components(groups, bs, as) ==
  ActiveComponents(groups,
    SelectSeq(bs, LAMBDA i: \E g \in groups : i \in g.before),
    SelectSeq(as, LAMBDA j: \E g \in groups : j \in g.after))

-----------------------------------------------------------------------------
(* The stable core of a component.                                         *)

\* alignment_prefix_scores: the best alignment of the first i and the first j
\* children by the candidate pairs c.
PrefixScores(c, m, n) ==
  LET score[i \in 0 .. m, j \in 0 .. n] ==
        IF i = 0 \/ j = 0 THEN 0
        ELSE Max({score[i - 1, j], score[i, j - 1]}
                   \cup (IF <<i, j>> \in c THEN {score[i - 1, j - 1] + 1}
                                           ELSE {}))
  IN  score

\* alignment_suffix_scores: the same of the children after the first i and j.
SuffixScores(c, m, n) ==
  LET score[i \in 0 .. m, j \in 0 .. n] ==
        IF i = m \/ j = n THEN 0
        ELSE Max({score[i + 1, j], score[i, j + 1]}
                   \cup (IF <<i + 1, j + 1>> \in c
                         THEN {score[i + 1, j + 1] + 1} ELSE {}))
  IN  score

Optimum(c, m, n) == PrefixScores(c, m, n)[m, n]

\* candidate_occurs_in_optimum, for all candidates at once.
Occurring(c, prefix, suffix, optimum) ==
  {e \in c : prefix[e[1] - 1, e[2] - 1] + 1 + suffix[e[1], e[2]] = optimum}
InSomeOptimum(c, m, n) ==
  Occurring(c, PrefixScores(c, m, n), SuffixScores(c, m, n), Optimum(c, m, n))

\* candidate_is_forced: without the pair no alignment is as long, and no
\* other node of its group could take its place.
Forced(c, m, n, e, group) ==
  Singleton(group) /\ Optimum(c \ {e}, m, n) < Optimum(c, m, n)

GroupOf(groups, i) == CHOOSE g \in groups : i \in g.before

\* The candidate matrix of a component, as pairs of positions.
Candidates(b, a, groups, comp, ok) ==
  {e \in (DOMAIN comp.before) \X (DOMAIN comp.after) :
     /\ comp.after[e[2]] \in GroupOf(groups, comp.before[e[1]]).after
     /\ ShapeEqual(b, comp.before[e[1]], a, comp.after[e[2]])
     /\ <<comp.before[e[1]], comp.after[e[2]]>> \in ok}

\* One group of choices for all the open pairs; where nodes repeat, all of
\* their group, and no pair claims.
OpenChoices(comp, groups, open, required) ==
  LET groupOf(e) == GroupOf(groups, e[1])
      repeated == {groupOf(e) : e \in {f \in open : ~Singleton(groupOf(f))}}
      beforeIds == {e[1] : e \in open} \cup UNION {g.before : g \in repeated}
      afterIds == {e[2] : e \in open} \cup UNION {g.after : g \in repeated}
  IN  [before |-> SelectSeq(comp.before, LAMBDA i: i \in beforeIds),
       after |-> SelectSeq(comp.after, LAMBDA j: j \in afterIds),
       constraint |-> IF repeated # {} THEN [cause |-> "duplicate_symmetry"]
                      ELSE [required |-> required, pairs |-> open]]

Outcome(comp, groups, forced, open, optimum) ==
  [forced |-> forced,
   ambiguities |->
     IF open = {} THEN {}
     ELSE {OpenChoices(comp, groups, open, optimum - Cardinality(forced))}]

\* bounded_component_stable_core: the forced pairs, and one ambiguity of all
\* the pairs that occur in some maximum alignment without being forced.
CoreOfMatrix(comp, groups, c, m, n) ==
  LET ids(es) == {<<comp.before[e[1]], comp.after[e[2]]>> : e \in es}
      some == InSomeOptimum(c, m, n)
      forced == {e \in some : Forced(c, m, n, e, GroupOf(groups, comp.before[e[1]]))}
  IN  Outcome(comp, groups, ids(forced), ids(some \ forced), Optimum(c, m, n))
BoundedCore(b, a, groups, comp, ok) ==
  CoreOfMatrix(comp, groups, Candidates(b, a, groups, comp, ok),
               Len(comp.before), Len(comp.after))

\* oversized_alignment_ambiguities: all of the component, and no pair claims.
Oversized(comp) ==
  [forced |-> {},
   ambiguities |->
     {[before |-> comp.before, after |-> comp.after,
       constraint |-> [cause |-> IF comp.scanned THEN "component_limit"
                                 ELSE "candidate_scan_limit"]]}]

\* bounded_ordered_stable_core: every component of the region by itself.
CoreOfComponent(b, a, groups, comp, ok) ==
  IF Len(comp.before) <= ComponentLimit /\ Len(comp.after) <= ComponentLimit
  THEN BoundedCore(b, a, groups, comp, ok) ELSE Oversized(comp)
Together(outcomes) == [forced |-> UNION {o.forced : o \in outcomes},
                       ambiguities |-> UNION {o.ambiguities : o \in outcomes}]
CoreOfGroups(b, a, groups, bs, as, ok) ==
  Together({CoreOfComponent(b, a, groups, comp, ok) : comp \in Components(groups, bs, as)})
StableCore(b, a, bs, as, ok) ==
  CoreOfGroups(b, a, CandidateGroups(b, a, bs, as, ok), bs, as, ok)

-----------------------------------------------------------------------------
(* Reference: every order-preserving alignment of a whole region.          *)

Alignments(bs, as, ok) ==
  LET pairs == {e \in (DOMAIN bs) \X (DOMAIN as) :
                  <<bs[e[1]], as[e[2]]>> \in ok}
  IN  {s \in SUBSET pairs :
         \A e, f \in s : e = f \/ (e[1] < f[1] /\ e[2] < f[2])
                               \/ (e[1] > f[1] /\ e[2] > f[2])}
MaximumAlignments(bs, as, ok) ==
  LET all == Alignments(bs, as, ok)
      longest == Max({Cardinality(s) : s \in all})
  IN  {{<<bs[e[1]], as[e[2]]>> : e \in s} :
         s \in {t \in all : Cardinality(t) = longest}}
=============================================================================
