------------------------------ MODULE GitDelta ------------------------------
(***************************************************************************)
(* What the review cache takes from Git (src/src/review_cache.rs): the     *)
(* exact changes between two trees, exact relocations paired, and the five *)
(* snapshots Q, A, B, C and D of a review transition.                      *)
(*                                                                         *)
(* A tree is a function from paths to blobs; a blob stands for an object   *)
(* identifier with its mode.  The base branch is the sequence BaseTrees,   *)
(* which only grows, and a head is a commit on top of one of them, so the  *)
(* merge base of a head with any later base tip is the commit it forked    *)
(* from.  A digest of a change stands for the change (SHA-256 injective).  *)
(***************************************************************************)
EXTENDS Integers, Sequences, FiniteSets

CONSTANTS
    Paths, Blobs,
    BaseTrees,      \* the trees of the base branch, oldest first
    None

ASSUME GitAssumption ==
    /\ BaseTrees \in Seq([Paths -> Blobs \cup {None}])
    /\ None \notin Blobs \cup Paths

Trees == [Paths -> Blobs \cup {None}]

\* A commit of the pull request: where it forked and its tree.
Commit == [base : DOMAIN BaseTrees, tree : Trees]

\* A base commit seen as a head of its own.
BaseCommit(i) == [base |-> i, tree |-> BaseTrees[i]]

\* ExactGitChangeIdentity: None for the side that does not exist.
Side(tree, p) == IF tree[p] = None THEN None ELSE <<p, tree[p]>>

\* parse_raw_diff: one record per path that differs, with its status.
RawDiff(old, new) ==
    {[status |-> CASE old[p] = None -> "added"
                   [] new[p] = None -> "deleted"
                   [] OTHER         -> "modified",
      before |-> Side(old, p), after |-> Side(new, p)] :
        p \in {q \in Paths : old[q] # new[q]}}

Deleted(raw, blob) == {d \in raw : d.status = "deleted" /\ d.before[2] = blob}
Added(raw, blob)   == {d \in raw : d.status = "added" /\ d.after[2] = blob}

\* pair_exact_relocations: a blob deleted once and added once has moved.
Relocated(raw) ==
    {blob \in Blobs : Cardinality(Deleted(raw, blob)) = 1 /\ Cardinality(Added(raw, blob)) = 1}

PairExactRelocations(raw) ==
    {d \in raw : \A blob \in Relocated(raw) : d \notin Deleted(raw, blob) \cup Added(raw, blob)}
    \cup {[status |-> "renamed",
           before |-> (CHOOSE d \in Deleted(raw, blob) : TRUE).before,
           after  |-> (CHOOSE d \in Added(raw, blob) : TRUE).after] : blob \in Relocated(raw)}

\* discover_changes and changes_by_digest
DiscoverChanges(old, new) == PairExactRelocations(RawDiff(old.tree, new.tree))

\* verify_change_objects: the blobs that must be there.
ChangeObjects(changes) ==
    {c.before[2] : c \in {d \in changes : d.before # None}}
    \cup {c.after[2] : c \in {d \in changes : d.after # None}}

\* resolve_transition
ResolveTransition(tip, checkpoint, head) ==
    [q |-> BaseCommit(tip), a |-> BaseCommit(checkpoint.base), b |-> checkpoint,
     c |-> BaseCommit(head.base), d |-> head]

BaseChanged(t) == t.a # t.c

\* build_repository_closure: everything reachable from three commits.
RepositoryClosure(t) == {t.q, t.b, t.d}

\* base_drift_obligation: the evidence is the identity of the obligation.
BaseDrift(t) == [old |-> t.a, new |-> t.c, changes |-> DiscoverChanges(t.a, t.c)]

\* materialize_source: the sides of a change that carry bytes, every blob
\* counting one against the budget.
SourceBytes(change) == Cardinality({change.before, change.after} \ {None})

=============================================================================
