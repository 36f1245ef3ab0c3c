------------------------------- MODULE Matcher ------------------------------
(***************************************************************************)
(* The producer of a diff report: analyze_bytes_with_limits (lib.rs) up to *)
(* its self-check, with match_trees and derive_changes (matcher.rs).       *)
(*                                                                         *)
(* MappingState is the record st: the partial maps to and from (0: not     *)
(* mapped), the predicate of each mapped before node, and the relations in *)
(* the order they were found.  add_local_relations walks that growing list *)
(* with a cursor, so that a relation found late is also a parent to align  *)
(* under; one step of Align is one round of that loop.                     *)
(***************************************************************************)
EXTENDS Alignment

CONSTANT Sources   \* pairs of terms with their grammar: [before, after, universal]

VARIABLES
  source,       \* the two files and their language
  before,       \* parsed_before.nodes
  after,        \* parsed_after.nodes
  st,           \* MappingState
  cursor,       \* next relation to look under
  ambiguities,  \* AmbiguityGroups, in a canonical order: a set
  report,       \* the finished report
  pc            \* "parse", "anchor", "align", "verify", "accepted", ...

NoReport == [relations |-> << >>, ambiguities |-> {}, changes |-> {}]

-----------------------------------------------------------------------------
(* MappingState.                                                           *)

\* MappingState::new
NewState(b, a) == [to |-> [i \in DOMAIN b |-> 0], from |-> [j \in DOMAIN a |-> 0],
                   fact |-> [i \in DOMAIN b |-> "none"], relations |-> << >>]

\* map_pair, of two nodes neither of which is mapped.
MapPair(s, i, j, predicate, evidence) ==
  [to |-> [s.to EXCEPT ![i] = j], from |-> [s.from EXCEPT ![j] = i],
   fact |-> [s.fact EXCEPT ![i] = predicate],
   relations |-> Append(s.relations, [before |-> i, after |-> j,
                   predicate |-> predicate, evidence |-> evidence])]

\* can_map_equal_subtree and can_map_shape_pair: no descendant is mapped
\* elsewhere.  (Both are only asked of nodes with subtrees of one shape.)
CanMap(b, s, i, j) == \A e \in Paired(b, i, j) : /\ s.to[e[1]] \in {0, e[2]}
                                                 /\ s.from[e[2]] \in {0, e[1]}

\* The strongest predicate of two nodes of equal syntax.
Exact(b, i, a, j) == IF BytesEqual(b, i, a, j) THEN "byte" ELSE "syntax"

\* map_equal_subtree: the node and all its descendants, or nothing.
MapEqualSubtree(b, a, s, i, j, evidence) ==
  IF ~(SyntaxEqual(b, i, a, j) /\ CanMap(b, s, i, j)) THEN s
  ELSE FoldLeft(LAMBDA t, k:
                  IF t.to[i + k] # 0 THEN t
                  ELSE MapPair(t, i + k, j + k, Exact(b, i + k, a, j + k),
                               IF k = 0 THEN evidence ELSE "descendant"),
                s, [n \in 1 .. b[i].size |-> n - 1])

-----------------------------------------------------------------------------
(* Exact anchors.                                                          *)

\* The ids of a side that a global anchor may have.
Anchorable(nodes) == {i \in DOMAIN nodes : i # Root /\ nodes[i].size >= 3}

\* unique_pairs: keys with one node on either side.
UniquePairs(keys, others) ==
  {e \in (DOMAIN keys) \X (DOMAIN others) :
     /\ keys[e[1]] = others[e[2]]
     /\ \A i \in DOMAIN keys : keys[i] = keys[e[1]] => i = e[1]
     /\ \A j \in DOMAIN others : others[j] = others[e[2]] => j = e[2]}

\* The key of a node anywhere in the tree, and of a child under a mapped pair.
SyntaxKeys(nodes) == [i \in Anchorable(nodes) |-> nodes[i].syntax]
ExactKeys(nodes, children) == [i \in children |-> <<nodes[i].field, nodes[i].syntax>>]

\* add_global_exact_anchors: unique equal subtrees anywhere, largest first.
GlobalAnchors(b, a, s) ==
  LET candidates ==
        Ordered(UniquePairs(SyntaxKeys(b), SyntaxKeys(a)),
                     LAMBDA e, f: \/ b[e[1]].size > b[f[1]].size
                                  \/ b[e[1]].size = b[f[1]].size /\ e[1] < f[1])
  IN  FoldLeft(LAMBDA t, e: IF t.to[e[1]] = e[2] THEN t
                            ELSE MapEqualSubtree(b, a, t, e[1], e[2], "global"),
               s, candidates)

\* The unique identical children of a mapped pair.  (A BTreeMap orders them by
\* key; the maps and the sorted report do not depend on that order.)
LocalAnchors(b, a, s, p, q) ==
  LET bs == {i \in Ids(b[p].children) : s.to[i] = 0}
      as == {j \in Ids(a[q].children) : s.from[j] = 0}
      exact == Ordered(UniquePairs(ExactKeys(b, bs), ExactKeys(a, as)),
                            LAMBDA e, f: e[1] < f[1])
  IN  FoldLeft(LAMBDA t, e: MapEqualSubtree(b, a, t, e[1], e[2], "local"),
               s, exact)

-----------------------------------------------------------------------------
(* Ordered alignment under a mapped pair.                                  *)

\* The exact anchors of two child lists, as positions, and those of them that
\* cross no other: the barriers between regions.
AnchorPositions(bs, as, to) ==
  {e \in (DOMAIN bs) \X (DOMAIN as) : to[bs[e[1]]] = as[e[2]]}
Barriers(anchors) ==
  {e \in anchors : \A f \in anchors : e[1] = f[1] \/ ((e[1] < f[1]) <=> (e[2] < f[2]))}

\* ordered_alignment_regions: what lies between two barriers and is open.
Regions(bs, as, barriers, openBefore, openAfter) ==
  LET ends == barriers \cup {<<Len(bs) + 1, Len(as) + 1>>}
      last(e) == {f \in barriers : f[1] < e[1]}
      from(e, side) == IF last(e) = {} THEN 1 ELSE Max({f[side] : f \in last(e)}) + 1
  IN  {<<SelectSeq(SubSeq(bs, from(e, 1), e[1] - 1), LAMBDA i: i \in openBefore),
         SelectSeq(SubSeq(as, from(e, 2), e[2] - 1), LAMBDA j: j \in openAfter)>> : e \in ends}

MatcherRegions(b, a, s, p, q) ==
  LET exactTo == [i \in DOMAIN s.to |-> IF s.fact[i] \in {"byte", "syntax"} THEN s.to[i] ELSE 0]
  IN  Regions(b[p].children, a[q].children,
              Barriers(AnchorPositions(b[p].children, a[q].children, exactTo)),
              {i \in DOMAIN s.to : s.to[i] = 0}, {j \in DOMAIN s.from : s.from[j] = 0})

\* The alignment part of add_local_relations' round: the forced pairs of every
\* region in order of their before nodes, and the ambiguities under their parents.
\* (No pair of one region holds a node of another, so that regions do not
\* disturb each other.)
ApplyCore(s, core, p, q) ==
  [st |-> FoldLeft(LAMBDA t, e: MapPair(t, e[1], e[2], "shape", "stable"), s,
                   Ordered(core.forced, LAMBDA e, f: e[1] < f[1])),
   ambiguities |-> {[parents |-> <<p, q>>, before |-> g.before, after |-> g.after,
                     constraint |-> g.constraint] : g \in core.ambiguities}]
AlignChildren(b, a, s, p, q) ==
  LET ok == {e \in SameShape(b, a, b[p].children, a[q].children) : CanMap(b, s, e[1], e[2])}
  IN  ApplyCore(s, Together({StableCore(b, a, r[1], r[2], ok) :
                               r \in MatcherRegions(b, a, s, p, q)}), p, q)

-----------------------------------------------------------------------------
(* Structural changes.                                                     *)

Change(kind, i, j) == [kind |-> kind, before |-> i, after |-> j]

\* Mutant: an update under any mapped parent is left to the parent.
UpdatesUnderRoot(b, a, to, fact) ==
  {i \in DOMAIN b : fact[i] = "shape" /\ ~SyntaxEqual(b, i, a, to[i])
                                      /\ to[b[i].parent] = 0}

\* The outermost updates: their ancestors are not updates themselves.
Updates(b, a, to, fact) ==
  {i \in DOMAIN b : fact[i] = "shape" /\ ~SyntaxEqual(b, i, a, to[i])
                                      /\ fact[b[i].parent] # "shape"}

Reordered(b, a, to, p) ==
  LET bs == b[p].children
      as == a[to[p]].children
      moved == AnchorPositions(bs, as, to)
  IN  \E e, f \in moved : e[1] < f[1] /\ e[2] > f[2]

\* derive_changes; a change is known by its kind and its nodes, and the list
\* is sorted by them: a set.
DeriveChanges(b, a, to, from, fact, groups, bytesDiffer) ==
  LET mapped == {i \in DOMAIN b : to[i] # 0}
      openBefore == UNION {Ids(g.before) : g \in groups}
      openAfter == UNION {Ids(g.after) : g \in groups}
  IN  {Change("formatting", Root, Root) :
         x \in {y \in {0} : SyntaxEqual(b, Root, a, Root) /\ bytesDiffer}}
      \cup {Change("reordered", p, to[p]) :
              p \in {i \in mapped : Reordered(b, a, to, i)}}
      \cup {Change("relocated", i, to[i]) :
              i \in {k \in mapped \ {Root} :
                       /\ fact[k] \in {"byte", "syntax"}
                       /\ to[b[k].parent] \notin {0, a[to[k]].parent}}}
      \cup {Change("updated", i, to[i]) : i \in Updates(b, a, to, fact)}
      \cup {Change("delete", i, 0) :
              i \in {k \in (DOMAIN b) \ {Root} :
                       /\ to[k] = 0 /\ k \notin openBefore
                       /\ to[b[k].parent] # 0}}
      \cup {Change("insert", 0, j) :
              j \in {k \in (DOMAIN a) \ {Root} :
                       /\ from[k] = 0 /\ k \notin openAfter
                       /\ from[a[k].parent] # 0}}

-----------------------------------------------------------------------------
(* analyze_bytes_with_limits.                                              *)

vars == <<source, before, after, st, cursor, ambiguities, report, pc>>

Init ==
  /\ source \in Sources
  /\ before = << >> /\ after = << >>
  /\ st = NewState(<< >>, << >>)
  /\ cursor = 1 /\ ambiguities = {} /\ report = NoReport
  /\ pc = "parse"

\* Both parses share one node budget, and the roots must be of one kind; then
\* the caller's pair of roots is the first relation.
ParseBoth ==
  /\ pc = "parse"
  /\ IF /\ Parses(source.before, MaxNodes)
        /\ Parses(source.after, MaxNodes - Size(source.before))
        /\ source.before.kind = source.after.kind
     THEN LET b == Parse(source.before, source.universal)
              a == Parse(source.after, source.universal)
          IN  /\ before' = b /\ after' = a
              /\ st' = MapPair(NewState(b, a), Root, Root, "input", "input")
              /\ pc' = "anchor"
     ELSE pc' = "failed" /\ UNCHANGED <<before, after, st>>
  /\ UNCHANGED <<source, cursor, ambiguities, report>>

Anchor ==
  /\ pc = "anchor"
  /\ st' = GlobalAnchors(before, after, st)
  /\ pc' = "align"
  /\ UNCHANGED <<source, before, after, cursor, ambiguities, report>>

\* One round of add_local_relations' loop, under the relation at the cursor.
Round(outcome) ==
  /\ st' = outcome.st
  /\ ambiguities' = ambiguities \cup outcome.ambiguities
Align ==
  /\ pc = "align" /\ cursor <= Len(st.relations)
  /\ LET p == st.relations[cursor].before
         q == st.relations[cursor].after
     IN  Round(AlignChildren(before, after, LocalAnchors(before, after, st, p, q), p, q))
  /\ cursor' = cursor + 1
  /\ UNCHANGED <<source, before, after, report, pc>>

\* The rest of match_trees: the changes, and the relations in canonical order.
Finish ==
  /\ pc = "align" /\ cursor > Len(st.relations)
  /\ report' = [relations |-> SortSeq(st.relations, LAMBDA r, s: r.before < s.before),
                ambiguities |-> ambiguities,
                changes |-> DeriveChanges(before, after, st.to, st.from, st.fact,
                              ambiguities, ~BytesEqual(before, Root, after, Root))]
  /\ pc' = "verify"
  /\ UNCHANGED <<source, before, after, st, cursor, ambiguities>>
=============================================================================
