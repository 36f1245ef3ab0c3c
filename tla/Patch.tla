------------------------------- MODULE Patch --------------------------------
(***************************************************************************)
(* Lossless patches (src/src/patch.rs and the verifier's patch.rs) and the *)
(* four-way replay of src/src/review.rs, which moves a reviewed patch onto *)
(* a newer base.                                                           *)
(*                                                                         *)
(* A source is a sequence of bytes.  An edit replaces the bytes after      *)
(* position start up to position end by text; a patch is a sequence of     *)
(* edits of one source.                                                    *)
(***************************************************************************)
EXTENDS Integers, Sequences, SequencesExt

CONSTANTS
    MaxSourceBytes,  \* VerificationLimits.max_source_bytes
    None

\* The budgets of patch.rs only make patches coarser, which Alignments allows.
Pairs(old, new) ==
    {p \in (1..Len(old)) \X (1..Len(new)) : old[p[1]] = new[p[2]]}

\* What the diff library may keep of two different sources: common bytes in
\* the order of both.  Which ones it keeps is its own business.
Alignments(old, new) ==
    {a \in SUBSET Pairs(old, new) :
        \A p, q \in a : p # q => (p[1] < q[1] /\ p[2] < q[2]) \/ (q[1] < p[1] /\ q[2] < p[2])}

\* The edits between the kept bytes.
EditsOf(old, new, kept) ==
    LET before(p, q) == p[1] < q[1]
        anchors == SetToSortSeq({<<0, 0>>, <<Len(old) + 1, Len(new) + 1>>} \cup kept, before)
        gap(i) == [start |-> anchors[i][1], end |-> anchors[i + 1][1] - 1,
                   text |-> SubSeq(new, anchors[i][2] + 1, anchors[i + 1][2] - 1)]
    IN  SelectSeq([i \in 1..(Len(anchors) - 1) |-> gap(i)],
                  LAMBDA e : e.start < e.end \/ e.text # <<>>)

\* create_patch: the patches it may return.
CreatePatch(old, new) ==
    IF old = new THEN {<<>>}
    ELSE {EditsOf(old, new, kept) : kept \in Alignments(old, new)}

\* inspect_patch
InspectPatch(source, patch) ==
    \A i \in DOMAIN patch :
        /\ (IF i = 1 THEN 0 ELSE patch[i - 1].end) <= patch[i].start
        /\ patch[i].start <= patch[i].end
        /\ patch[i].end <= Len(source)

\* replay_patch_with_limits, once the patch has been inspected.
ApplyPatch(source, patch) ==
    LET cursor(i) == IF i = 0 THEN 0 ELSE patch[i].end
        out[i \in 0..Len(patch)] ==
            IF i = 0 THEN <<>>
            ELSE out[i - 1] \o SubSeq(source, cursor(i - 1) + 1, patch[i].start) \o patch[i].text
    IN  out[Len(patch)] \o SubSeq(source, cursor(Len(patch)) + 1, Len(source))

-----------------------------------------------------------------------------
(* The four-way replay.                                                    *)

\* Mutant: edits that touch without overlapping are let through, as are two
\* insertions at one place.
OnlyOverlapInteracts(left, right) ==
    \E i \in DOMAIN left, j \in DOMAIN right :
        left[i].start < right[j].end /\ right[j].start < left[i].end

\* patches_interact: the ranges of two edits overlap or touch.
PatchesInteract(left, right) ==
    \E i \in DOMAIN left, j \in DOMAIN right :
        left[i].start <= right[j].end /\ right[j].start <= left[i].end

\* edit_byte_delta
EditByteDelta(edit) == Len(edit.text) - (edit.end - edit.start)

\* translate_patch: every edit moves by what the preceding patch inserted
\* and removed in front of it.
TranslatePatch(patch, preceding) ==
    LET shift(e) ==
            FoldSeq(LAMBDA p, sum : sum + IF p.end < e.start THEN EditByteDelta(p) ELSE 0,
                    0, preceding)
    IN  [i \in DOMAIN patch |->
            [patch[i] EXCEPT !.start = patch[i].start + shift(patch[i]),
                             !.end = patch[i].end + shift(patch[i])]]

\* The baseline is accepted when both orders give the same bytes.
Agreement(reviewedLast, upstreamLast) ==
    IF reviewedLast # upstreamLast THEN [ok |-> FALSE, reason |-> "replay_orders_mismatch"]
    ELSE IF Len(reviewedLast) > MaxSourceBytes
    THEN [ok |-> FALSE, reason |-> "source_unavailable"]
    ELSE [ok |-> TRUE, baseline |-> reviewedLast]

BothOrders(newBase, reviewed, reviewedSource, upstream) ==
    IF ~InspectPatch(newBase, reviewed) \/ ~InspectPatch(reviewedSource, upstream)
    THEN [ok |-> FALSE, reason |-> "replay_failed"]
    ELSE Agreement(ApplyPatch(newBase, reviewed), ApplyPatch(reviewedSource, upstream))

\* reconstruct_review_baseline for four readable sources without NUL: the
\* reviewed patch on the new base, the upstream patch on the reviewed source.
Reconstruct(reviewed, upstream, reviewedSource, newBase) ==
    IF PatchesInteract(reviewed, upstream)
    THEN [ok |-> FALSE, reason |-> "overlap_or_adjacent"]
    ELSE BothOrders(newBase, TranslatePatch(reviewed, upstream),
                    reviewedSource, TranslatePatch(upstream, reviewed))

\* What the replay is meant to compute: both patches applied to the old base
\* at once.
Merged(source, reviewed, upstream) ==
    ApplyPatch(source,
               SetToSortSeq(ToSet(reviewed) \cup ToSet(upstream),
                            LAMBDA d, e : d.start < e.start))

=============================================================================
