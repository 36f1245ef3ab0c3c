------------------------------- MODULE Syntax -------------------------------
(***************************************************************************)
(* The syntax arena of stratadiff-core (syntax.rs): a parse result is a    *)
(* sequence of nodes in preorder, each with its parent, its children, its  *)
(* subtree size and three digests.  A grammar's tree is a term             *)
(*                                                                         *)
(*     [kind, field, text, kids]                                           *)
(*                                                                         *)
(* whose text is a leaf's token, or the white space inside an inner node.  *)
(* BLAKE3 is taken to be injective, so that a digest is the value it       *)
(* digests; the flags named, extra and missing are part of the kind.       *)
(***************************************************************************)
EXTENDS Naturals, Sequences, SequencesExt

CONSTANTS
  Normalized,   \* function from kinds to kinds, total on the kinds in use
  MaxNodes,     \* limits.max_syntax_nodes, shared by the two sides
  MaxDepth      \* limits.max_syntax_depth

Leaf(t) == t.kids = << >>

\* syntax_hash: a leaf's kind and token, an inner node's kind and the fields
\* and digests of its children; white space between them does not count.
RECURSIVE SyntaxHash(_)
SyntaxHash(t) ==
  IF Leaf(t) THEN [kind |-> t.kind, text |-> t.text]
  ELSE [kind |-> t.kind,
        kids |-> [i \in DOMAIN t.kids |->
                    <<t.kids[i].field, SyntaxHash(t.kids[i])>>]]

\* shape_hash: normalised kinds and fields, no tokens; the universal grammar
\* keeps the tokens too (universal_structural_hash).
RECURSIVE ShapeHash(_, _)
ShapeHash(t, universal) ==
  IF Leaf(t) /\ universal THEN [kind |-> t.kind, text |-> t.text]
  ELSE [kind |-> IF universal THEN t.kind ELSE Normalized[t.kind],
        kids |-> [i \in DOMAIN t.kids |->
                    <<t.kids[i].field, ShapeHash(t.kids[i], universal)>>]]

\* byte_hash: the bytes of the node's span, white space included.
RECURSIVE ByteHash(_)
ByteHash(t) == <<t.text, [i \in DOMAIN t.kids |-> ByteHash(t.kids[i])]>>

RECURSIVE Size(_)
Size(t) == 1 + FoldLeft(LAMBDA n, kid: n + Size(kid), 0, t.kids)

RECURSIVE Depth(_)
Depth(t) ==
  IF Leaf(t) THEN 0
  ELSE 1 + FoldLeft(LAMBDA n, kid: IF Depth(kid) > n THEN Depth(kid) ELSE n,
                    0, t.kids)

\* collect: the term's nodes in preorder, the first of them with this id.
RECURSIVE Collect(_, _, _, _)
Collect(t, universal, parent, id) ==
  LET first[i \in 0 .. Len(t.kids)] ==
        IF i = 0 THEN id + 1 ELSE first[i - 1] + Size(t.kids[i])
      node == [kind |-> t.kind, field |-> t.field, parent |-> parent,
               children |-> [i \in DOMAIN t.kids |-> first[i - 1]],
               size |-> Size(t), bytes |-> ByteHash(t),
               syntax |-> SyntaxHash(t), shape |-> ShapeHash(t, universal)]
  IN  FoldLeft(LAMBDA nodes, i:
                 nodes \o Collect(t.kids[i], universal, id, first[i - 1]),
               <<node>>, [i \in DOMAIN t.kids |-> i])

RECURSIVE HasError(_)
HasError(t) == t.kind = "error" \/ \E i \in DOMAIN t.kids : HasError(t.kids[i])

\* parse_with_limits: an erroneous tree, a tree too deep or one that needs
\* more nodes than are left is refused and nothing of it is used.
Parses(t, nodesLeft) == ~HasError(t) /\ Depth(t) <= MaxDepth
                                     /\ Size(t) <= nodesLeft
Parse(t, universal) == Collect(t, universal, 0, 1)

Root == 1

\* syntax_equal and shape_equal decide what the digests decide, node by node.
SyntaxEqual(l, i, r, j) == l[i].syntax = r[j].syntax
ShapeEqual(l, i, r, j) == l[i].shape = r[j].shape
BytesEqual(l, i, r, j) == l[i].bytes = r[j].bytes

\* The descendants of equal (or equally shaped) nodes correspond by their
\* offset in preorder: what a joint recursion over both subtrees visits.
Paired(l, i, j) == {<<i + k, j + k>> : k \in 0 .. l[i].size - 1}
=============================================================================
