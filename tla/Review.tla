------------------------------- MODULE Review -------------------------------
(***************************************************************************)
(* The review of a pull request against a checkpoint (src/src/review.rs):  *)
(* which changes a reviewed commit already carries, and the delta that     *)
(* remains to be reviewed.                                                 *)
(*                                                                         *)
(* A tree maps paths to a file mode and the bytes of a blob; an object     *)
(* identifier stands for the bytes.  A review compares four trees: base0   *)
(* and checkpoint are what was reviewed, base1 and head what is proposed   *)
(* now.  The bases are merge bases that Git has already found to be unique.*)
(***************************************************************************)
EXTENDS Patch, FiniteSets, FiniteSetsExt

CONSTANTS
    Paths,           \* integers, so that they have an order
    NonUtf8,         \* the paths that are not UTF-8
    Unreadable,      \* blobs that are missing, too large or hold a NUL byte
    MaxTotalBytes,   \* MAX_REVIEW_TOTAL_SOURCE_BYTES
    MaxFileVisits    \* the file visits of a bounded ReviewAnalysisContext

ASSUME ReviewAssumption ==
    /\ Paths \subseteq Nat \ {0}
    /\ NonUtf8 \subseteq Paths
    /\ MaxTotalBytes \in Nat
    /\ MaxFileVisits \in Nat
    /\ MaxSourceBytes \in Nat

Regular == {"100644", "100755"}

-----------------------------------------------------------------------------
(* Changes between two trees.                                              *)

At(tree, p) == IF tree[p] = None THEN None
               ELSE [path |-> p, mode |-> tree[p].mode, blob |-> tree[p].blob]

\* parse_raw_diff
Status(before, after) ==
    CASE before = None -> "added"
      [] after = None  -> "deleted"
      [] (before.mode \in Regular) # (after.mode \in Regular) -> "type_changed"
      [] OTHER -> "modified"

Change(status, before, after) == [status |-> status, before |-> before, after |-> after]

RawDiff(old, new) ==
    {Change(Status(At(old, p), At(new, p)), At(old, p), At(new, p)) :
        p \in {q \in Paths : old[q] # new[q]}}

\* pair_unique_exact_relocations: a blob and mode deleted once and added once.
Relocations(raw) ==
    {m \in raw \X raw :
        LET side == m[1].before
        IN  /\ m[1].status = "deleted" /\ m[2].status = "added"
            /\ {e \in raw : e.status = "deleted" /\ e.before.blob = side.blob
                                                 /\ e.before.mode = side.mode} = {m[1]}
            /\ {e \in raw : e.status = "added" /\ e.after.blob = side.blob
                                               /\ e.after.mode = side.mode} = {m[2]}}

Paired(raw, moved) ==
    (raw \ UNION {{m[1], m[2]} : m \in moved})
    \cup {Change("renamed", m[1].before, m[2].after) : m \in moved}

WithRelocations(raw) == Paired(raw, Relocations(raw))

DiscoverChanges(old, new) == WithRelocations(RawDiff(old, new))

\* git_change_sort_key
SortKey(c) == <<IF c.before = None THEN 0 ELSE c.before.path,
                IF c.after = None THEN 0 ELSE c.after.path>>

Sorted(changes) ==
    SetToSortSeq(changes, LAMBDA c, d : \/ SortKey(c)[1] < SortKey(d)[1]
                                        \/ /\ SortKey(c)[1] = SortKey(d)[1]
                                           /\ SortKey(c)[2] < SortKey(d)[2])

\* checkpoint_change_paths
PathsOf(c) == {side.path : side \in {c.before, c.after} \ {None}}

\* ownership_path
OwnershipPath(c) == IF c.after # None THEN c.after.path ELSE c.before.path

-----------------------------------------------------------------------------
(* The blob loader: a blob is read once and counts once against the budget.*)

\* inspect_optional_blob
Inspected(side) == side.mode \in Regular /\ side.blob \notin Unreadable

LoadedBytes(loaded) == MapThenSumSet(LAMBDA b : Len(b), loaded)

Reserve(loaded, next, inspected) ==
    IF inspected /\ LoadedBytes(next) <= MaxTotalBytes
    THEN [ok |-> TRUE, loaded |-> next]
    ELSE [ok |-> FALSE, loaded |-> loaded]

\* load_replay_blob_pair and load_structural_blob_pair
LoadPair(loaded, c) ==
    Reserve(loaded, loaded \cup {c.before.blob, c.after.blob},
            Inspected(c.before) /\ Inspected(c.after))

\* analyze_change loads the pair of a change that it can compare.
AnalyzeLoads(loaded, c) ==
    IF /\ c.status \in {"modified", "renamed", "type_changed"}
       /\ PathsOf(c) \cap NonUtf8 = {}
       /\ c.before.blob # c.after.blob
    THEN LoadPair(loaded, c).loaded ELSE loaded

-----------------------------------------------------------------------------
(* Carrying a reviewed change onto the new base.                           *)

\* replay_candidate_metadata_matches
ReplayCandidate(reviewed, current) ==
    /\ reviewed.status = "modified" /\ current.status = "modified"
    /\ reviewed.before.path = current.before.path
    /\ reviewed.before.mode \in Regular
    /\ {reviewed.after.mode, current.before.mode, current.after.mode} = {reviewed.before.mode}

OnlyOne(found) == IF Cardinality(found) = 1 THEN found ELSE {}

\* unique_replay_candidate
Candidates(reviewed, current) == OnlyOne({d \in reviewed : ReplayCandidate(d, current)})

Unreplayed(reason, loaded) == [ok |-> FALSE, reason |-> reason, loaded |-> loaded]

WithLoaded(r, loaded) ==
    IF r.ok THEN [ok |-> TRUE, baseline |-> r.baseline, loaded |-> loaded]
    ELSE Unreplayed(r.reason, loaded)

ReconstructLoaded(in, second, d, c) ==
    IF ~second.ok THEN Unreplayed("source_unavailable", second.loaded)
    ELSE WithLoaded(Reconstruct(in.reviewed[c.before.path], in.upstream[c.before.path],
                                d.after.blob, c.before.blob), second.loaded)

LoadSecond(in, first, d, c) ==
    IF ~first.ok THEN Unreplayed("source_unavailable", first.loaded)
    ELSE ReconstructLoaded(in, LoadPair(first.loaded, c), d, c)

\* reconstruct_review_baseline: both pairs are loaded, then replayed.  The
\* input holds the patches that the diff library returns for the path.
ReconstructBaseline(in, loaded, d, c) ==
    IF ~ReplayCandidate(d, c) THEN Unreplayed("unsupported_change", loaded)
    ELSE LoadSecond(in, LoadPair(loaded, d), d, c)

ReviewedFile(c, exact, replay) ==
    [change |-> c, carried |-> exact \/ replay,
     basis |-> CASE exact -> "exact" [] replay -> "replay" [] OTHER -> None]

AfterChange(c, exact, found, replay, loaded, acc) ==
    [files   |-> acc.files \cup {ReviewedFile(c, exact, replay)},
     matched |-> acc.matched \cup (IF exact THEN {c} ELSE IF replay THEN found ELSE {}),
     loaded  |-> AnalyzeLoads(loaded, c)]

ReplayInto(c, exact, found, result, acc) ==
    AfterChange(c, exact, found, result.ok /\ result.baseline = c.after.blob, result.loaded, acc)

ReviewFound(in, c, exact, found, acc) ==
    ReplayInto(c, exact, found,
               IF found = {} THEN Unreplayed("", acc.loaded)
               ELSE ReconstructBaseline(in, acc.loaded, CHOOSE d \in found : TRUE, c), acc)

\* One change of review_git_range_with_resolved_bases.
ReviewChange(in, reviewed, c, acc) ==
    ReviewFound(in, c, c \in reviewed,
                IF c \in reviewed \/ ~in.moved THEN {} ELSE Candidates(reviewed, c), acc)

\* review_git_range_with_analysis: the files of the review and the number of
\* reviewed changes that are no longer there.
RangeResult(reviewed, spent, done) ==
    [ok |-> spent <= MaxFileVisits, visits |-> spent, loaded |-> done.loaded,
     files |-> done.files,
     retired |-> Cardinality(reviewed) - Cardinality(done.matched)]

ReviewChanges(in, visits, loaded, reviewed, current) ==
    RangeResult(reviewed, visits + Cardinality(reviewed) + Cardinality(current),
                FoldLeft(LAMBDA acc, c : ReviewChange(in, reviewed, c, acc),
                         [files |-> {}, matched |-> {}, loaded |-> loaded], Sorted(current)))

ReviewRange(in, visits, loaded) ==
    ReviewChanges(in, visits, loaded, DiscoverChanges(in.base0, in.checkpoint),
                  DiscoverChanges(in.base1, in.head))

Carried(review) == {f.change : f \in {g \in review.files : g.carried}}

-----------------------------------------------------------------------------
(* The delta that remains.                                                 *)

Entry(c, basis, reason) == [change |-> c, basis |-> basis, reason |-> reason]

\* Mutant: a current change answers for the whole of a reviewed change that
\* it shares one path with.
RelatedWhole(reviewed, c) ==
    {m \in reviewed \X Paths : m[2] \in PathsOf(m[1]) /\ PathsOf(m[1]) \cap PathsOf(c) # {}}

\* related_checkpoint_paths
RelatedPaths(reviewed, c) ==
    {m \in reviewed \X Paths : m[2] \in PathsOf(m[1]) \cap PathsOf(c)}

\* associate_all_checkpoint_paths
WholeOf(changes) == {m \in changes \X Paths : m[2] \in PathsOf(m[1])}

Residue(c, result) ==
    IF ~result.ok THEN {Entry(c, "current_base_fallback", result.reason)}
    ELSE IF result.baseline # c.after.blob
    THEN {Entry(c, "reconstructed_review_baseline", None)} ELSE {}

DeltaOfReplayed(c, result, whole, acc) ==
    [acc EXCEPT !.assoc = acc.assoc \cup whole, !.loaded = result.loaded,
                !.entries = acc.entries \cup Residue(c, result)]

DeltaOfOther(c, exact, related, acc) ==
    [acc EXCEPT !.assoc = acc.assoc \cup WholeOf(exact) \cup related,
                !.entries = acc.entries \cup
                    {IF related = {} THEN Entry(c, "current_base_no_checkpoint_change", None)
                     ELSE Entry(c, "current_base_fallback", "unsupported_change")}]

DeltaOfFound(in, reviewed, c, carried, exact, found, acc) ==
    IF carried
    THEN [acc EXCEPT !.assoc = acc.assoc \cup WholeOf(exact \cup found)]
    ELSE IF found # {}
    THEN DeltaOfReplayed(c, ReconstructBaseline(in, acc.loaded, CHOOSE d \in found : TRUE, c),
                         WholeOf(exact \cup found), acc)
    ELSE DeltaOfOther(c, exact, RelatedPaths(reviewed, c), acc)

\* One current change of review_git_resume_delta_with_analysis.
DeltaOfCurrent(in, reviewed, review, c, acc) ==
    DeltaOfFound(in, reviewed, c, c \in Carried(review), {c} \cap reviewed,
                 Candidates(reviewed, c), acc)

\* same_path_snapshot_change
SamePathSnapshot(in, d) ==
    LET p == d.before.path
    IN  IF \/ d.status # "modified" \/ p \in NonUtf8
           \/ in.base1[p] = None \/ in.head[p] = None
        THEN None
        ELSE Change(IF in.base1[p].mode = in.head[p].mode THEN "modified" ELSE "type_changed",
                    At(in.base1, p), At(in.head, p))

\* The change between two versions of one path.
SnapshotChange(b, a) ==
    Change(CASE b = None -> "added" [] a = None -> "deleted"
             [] b.mode = a.mode -> "modified" [] OTHER -> "type_changed", b, a)

\* The files at these paths, compared as they are.
FallbackFrom(old, head, paths, acc) ==
    LET changes == {SnapshotChange(At(old, p), At(head, p)) :
                        p \in {q \in paths \ NonUtf8 : old[q] # head[q]}}
    IN  [acc EXCEPT !.visits = acc.visits + Cardinality(paths),
                    !.unresolved = acc.unresolved \cup (paths \cap NonUtf8),
                    !.loaded = FoldLeft(AnalyzeLoads, acc.loaded, Sorted(changes)),
                    !.entries = acc.entries \cup
                        {Entry(c, "checkpoint_head_fallback", "unsupported_change") : c \in changes}]

\* checkpoint_head_fallback_entries
CheckpointHeadFallback(in, paths, acc) ==
    FallbackFrom(in.checkpoint, in.head, paths, acc)

RetiredReplay(in, open, now, result, acc) ==
    IF ~result.ok
    THEN CheckpointHeadFallback(in, open, [acc EXCEPT !.loaded = result.loaded])
    ELSE [acc EXCEPT
            !.loaded = result.loaded,
            !.entries = acc.entries \cup
                (IF result.baseline = now.after.blob THEN {}
                 ELSE {Entry(now, "reconstructed_review_baseline", None)})]

RetiredOpen(in, d, open, now, acc) ==
    IF now = None THEN CheckpointHeadFallback(in, open, acc)
    ELSE RetiredReplay(in, open, now, ReconstructBaseline(in, acc.loaded, d, now), acc)

RetiredPaths(in, d, open, acc) ==
    IF open = {} THEN acc
    ELSE RetiredOpen(in, d, open, SamePathSnapshot(in, d), [acc EXCEPT !.visits = acc.visits + 1])

\* One reviewed change, after the current ones.
DeltaOfRetired(in, d, acc) ==
    RetiredPaths(in, d, {p \in PathsOf(d) : <<d, p>> \notin acc.assoc}, acc)

DeltaResult(acc) ==
    [ok |-> acc.visits <= MaxFileVisits, visits |-> acc.visits, loaded |-> acc.loaded,
     entries |-> acc.entries, unresolved |-> acc.unresolved]

NoDelta(visits, loaded) ==
    [entries |-> {}, unresolved |-> {}, assoc |-> {}, loaded |-> loaded, visits |-> visits]

\* review_git_snapshot_delta_with_analysis
SnapshotDelta(changes, visits, loaded) ==
    DeltaResult([NoDelta(visits + Cardinality(changes),
                         FoldLeft(AnalyzeLoads, loaded, Sorted(changes))) EXCEPT
                    !.entries = {Entry(c, "checkpoint_snapshot", None) : c \in changes}])

DeltaOfRetiredAll(in, reviewed, acc) ==
    FoldLeft(LAMBDA a, d : DeltaOfRetired(in, d, a), acc, Sorted(reviewed))

DeltaOfChanges(in, review, reviewed, current) ==
    DeltaOfRetiredAll(in, reviewed,
        FoldLeft(LAMBDA acc, c : DeltaOfCurrent(in, reviewed, review, c, acc),
                 NoDelta(review.visits + Cardinality(reviewed) + Cardinality(current),
                         review.loaded),
                 Sorted(current)))

\* review_git_resume_delta_with_analysis
ResumeDelta(in, review) ==
    IF ~in.moved
    THEN SnapshotDelta(DiscoverChanges(in.checkpoint, in.head), review.visits, review.loaded)
    ELSE DeltaResult(DeltaOfChanges(in, review, DiscoverChanges(in.base0, in.checkpoint),
                                    DiscoverChanges(in.base1, in.head)))

\* summarize_review_delta
GatePassed(delta) == Cardinality(delta.entries) + Cardinality(delta.unresolved) = 0

\* validate_review_delta_git_source: a side that names an object of a commit.
ValidSource(side, tree) == side = None \/ side = At(tree, side.path)

\* validate_review_delta_entry: the old side is in the commit that the basis
\* names, unless it was reconstructed, and the new side in the head.
ValidEntry(in, e) ==
    /\ e.basis \in {"current_base_fallback", "checkpoint_head_fallback"} <=> e.reason # None
    /\ CASE e.basis = "reconstructed_review_baseline" -> e.change.before # None
         [] e.basis \in {"checkpoint_snapshot", "checkpoint_head_fallback"} ->
                ValidSource(e.change.before, in.checkpoint)
         [] OTHER -> ValidSource(e.change.before, in.base1)
    /\ ValidSource(e.change.after, in.head)

\* ReviewDelta::validate
ValidDelta(in, delta) ==
    /\ ~in.moved => in.base0 = in.base1
    /\ \A e \in delta.entries : ValidEntry(in, e)
    /\ GatePassed(delta) <=> delta.entries = {} /\ delta.unresolved = {}

=============================================================================
