------------------------------ MODULE Coverage ------------------------------
(***************************************************************************)
(* The review coverage passport (src/src/coverage.rs) and the check run    *)
(* that is made of it (src/src/github_check.rs): every change of a pull    *)
(* request, and every reviewed change that was taken back, needs a review  *)
(* by an owner whose checkpoint carries it.                                *)
(***************************************************************************)
EXTENDS Review, Ledger, Owners

CONSTANTS
    Tree,             \* the tree of every commit
    MergeBase(_, _),  \* of a base commit and a commit, Null when there are several
    Places(_),        \* the places of CODEOWNERS in a commit
    MaxCheckpoints,   \* MAX_REVIEW_COVERAGE_CHECKPOINTS
    MaxRequirements,  \* MAX_REVIEW_COVERAGE_REQUIREMENTS
    MaxProofEntries,  \* MAX_REVIEW_COVERAGE_PROOF_ENTRIES
    MaxExpandedCells  \* MAX_REVIEW_COVERAGE_EXPANDED_CELLS

ASSUME CoverageAssumption ==
    {MaxCheckpoints, MaxRequirements, MaxProofEntries, MaxExpandedCells} \subseteq Nat

Refused == [ok |-> FALSE]

Blob(tree, p) == IF tree[p] = None THEN <<>> ELSE tree[p].blob

\* The patch that the diff library returns, fixed: one with the most edits.
PatchOf(old, new) ==
    IF old = new THEN <<>>
    ELSE CHOOSE e \in CreatePatch(old, new) :
            \A f \in CreatePatch(old, new) : Len(f) <= Len(e)

InputOf(old, checkpoint, new, head, moved) ==
    [base0 |-> old, checkpoint |-> checkpoint, base1 |-> new, head |-> head,
     moved |-> moved,
     reviewed |-> [p \in Paths |-> PatchOf(Blob(old, p), Blob(checkpoint, p))],
     upstream |-> [p \in Paths |-> PatchOf(Blob(old, p), Blob(new, p))]]

\* What a review of base, head and checkpoint compares.
Input(base, head, checkpoint) ==
    InputOf(Tree[MergeBase(base, checkpoint)], Tree[checkpoint],
            Tree[MergeBase(base, head)], Tree[head],
            MergeBase(base, checkpoint) # MergeBase(base, head))

-----------------------------------------------------------------------------
(* Proofs of the checkpoints of active receipts.                           *)

Verified(checkpoint, review, delta) ==
    [ok |-> review.ok /\ delta.ok, checkpoint |-> checkpoint, verified |-> TRUE,
     carried |-> Carried(review), entries |-> delta.entries, unresolved |-> delta.unresolved,
     visits |-> delta.visits, loaded |-> delta.loaded]

Reviewed(in, checkpoint, review) == Verified(checkpoint, review, ResumeDelta(in, review))

ReviewOf(in, checkpoint, visits, loaded) ==
    Reviewed(in, checkpoint, ReviewRange(in, visits, loaded))

\* One checkpoint of build_checkpoint_proofs.  A budget that is exceeded
\* fails the passport, any other error only this proof.
CheckpointProof(base, head, checkpoint, visits, loaded) ==
    IF MergeBase(base, checkpoint) = Null
    THEN [ok |-> TRUE, checkpoint |-> checkpoint, verified |-> FALSE, carried |-> {},
          entries |-> {}, unresolved |-> {}, visits |-> visits, loaded |-> loaded]
    ELSE ReviewOf(Input(base, head, checkpoint), checkpoint, visits, loaded)

\* retained_proof_entries
RetainedEntries(proof) ==
    Cardinality(proof.carried) + Cardinality(proof.entries) + Cardinality(proof.unresolved)

AddProof(acc, proof) ==
    [ok |-> acc.ok /\ proof.ok, proofs |-> acc.proofs \cup {proof},
     visits |-> proof.visits, loaded |-> proof.loaded]

WithinProofLimits(all) ==
    [ok |-> /\ all.ok
            /\ Cardinality(all.proofs) <= MaxCheckpoints
            /\ MapThenSumSet(RetainedEntries, all.proofs) <= MaxProofEntries,
     proofs |-> all.proofs]

\* build_checkpoint_proofs
CheckpointProofs(base, head, receipts, visits, loaded) ==
    WithinProofLimits(
        FoldLeft(LAMBDA acc, c :
                    AddProof(acc, CheckpointProof(base, head, c, acc.visits, acc.loaded)),
                 [ok |-> TRUE, proofs |-> {}, visits |-> visits, loaded |-> loaded],
                 SetToSortSeq({r.commit : r \in receipts}, <)))

-----------------------------------------------------------------------------
(* Requirements                                                            *)

\* proof_covers
ProofCovers(proof, scope, change, path) ==
    /\ proof.verified
    /\ IF scope = "current" THEN change \in proof.carried
       ELSE /\ path \notin {OwnershipPath(e.change) : e \in proof.entries}
            /\ path \notin proof.unresolved

\* The receipts of the people who may answer for an owner alternative: the
\* snapshot must know them by the name they reviewed under.
NamedReceipts(snapshot, receipts, ids) ==
    {r \in receipts : \E u \in snapshot.users :
        u.id = r.reviewer /\ u.id \in ids /\ u.login = r.login}

\* One owner alternative of evaluate_change_coverage.
OwnerCoverage(snapshot, receipts, proofs, resolved, scope, change, path) ==
    [covering |-> \E r \in NamedReceipts(snapshot, receipts, resolved.ids), proof \in proofs :
                     proof.checkpoint = r.commit /\ ProofCovers(proof, scope, change, path),
     blocked  |-> \/ ~resolved.ok
                  \/ \E r \in receipts : /\ r.reviewer \in resolved.ids
                                         /\ r \notin NamedReceipts(snapshot, receipts, resolved.ids)
                  \/ \E r \in NamedReceipts(snapshot, receipts, resolved.ids), proof \in proofs :
                        proof.checkpoint = r.commit /\ ~proof.verified]

StateOf(path, alternatives) ==
    CASE path \in NonUtf8 \/ alternatives = {} -> "blocked"
      [] \E a \in alternatives : a.covering -> "covered"
      [] \E a \in alternatives : a.blocked -> "blocked"
      [] OTHER -> "needs_review"

\* evaluate_change_coverage
ChangeCoverage(policy, snapshot, receipts, proofs, scope, change, path) ==
    [scope |-> scope, path |-> path, change |-> change,
     state |-> StateOf(path, {OwnerCoverage(snapshot, receipts, proofs, Resolve(snapshot, o),
                                            scope, change, path) :
                                  o \in UNION {r.owners : r \in MatchingRule(policy.rules, path)}})]

\* preflight_owner_cells and CoverageExpansionBudget: an owner costs four
\* cells for every person it stands for, or one when it cannot be resolved.
CellsOf(resolved) == IF resolved.ok THEN 4 * Cardinality(resolved.ids) ELSE 1

ExpandedCells(policy, snapshot, paths) ==
    MapThenSumSet(LAMBDA p :
        MapThenSumSet(LAMBDA o : CellsOf(Resolve(snapshot, o)),
                      UNION {r.owners : r \in MatchingRule(policy.rules, p)}), paths \ NonUtf8)

\* The reviewed paths that are shown as residue and that no current change
\* answers for.
RetiredResidue(proofs, current) ==
    {OwnershipPath(c) : c \in UNION {{e.change : e \in proof.entries} : proof \in proofs} \ current}
    \ {OwnershipPath(c) : c \in current}

UnresolvedResidue(proofs, current) ==
    UNION {{<<proof.checkpoint, p>> :
               p \in proof.unresolved \ {OwnershipPath(c) : c \in current}} : proof \in proofs}

Passport(base, head, ledger, snapshot, files, unresolved) ==
    IF Cardinality(files) + Cardinality(unresolved) > MaxRequirements THEN Refused
    ELSE [ok |-> TRUE, base |-> base, head |-> head, ledger |-> ledger, snapshot |-> snapshot,
          files |-> files, unresolved |-> unresolved,
          gatePassed |-> unresolved = {} /\ \A f \in files : f.state = "covered"]

Evaluate(base, head, ledger, snapshot, receipts, current, policy, proofs, retired) ==
    IF ExpandedCells(policy, snapshot, retired \cup {OwnershipPath(c) : c \in current})
         > MaxExpandedCells
    THEN Refused
    ELSE Passport(base, head, ledger, snapshot,
             {ChangeCoverage(policy, snapshot, receipts, proofs, "current", c, OwnershipPath(c)) :
                 c \in current}
             \cup {ChangeCoverage(policy, snapshot, receipts, proofs, "retired", None, p) :
                 p \in retired},
             UnresolvedResidue(proofs, current))

WithProofs(base, head, ledger, snapshot, receipts, current, all) ==
    IF ~all.ok THEN Refused
    ELSE Evaluate(base, head, ledger, snapshot, receipts, current, LoadPolicy(Places(base)),
                  all.proofs, RetiredResidue(all.proofs, current))

WithChanges(base, head, ledger, snapshot, receipts, current) ==
    IF Cardinality(current) > MaxFileVisits THEN Refused
    ELSE WithProofs(base, head, ledger, snapshot, receipts, current,
             CheckpointProofs(base, head, receipts, Cardinality(current),
                              FoldLeft(AnalyzeLoads, {}, Sorted(current))))

\* compute_review_coverage_body
CoverageBody(base, head, ledger, snapshot) ==
    IF /\ ReconcileCurrentHead(ledger, head)
       /\ ValidSnapshot(snapshot)
       /\ snapshot.base = base
       /\ MergeBase(base, head) # Null
    THEN WithChanges(base, head, ledger, snapshot, ActiveReceipts(ledger),
                     DiscoverChanges(Tree[MergeBase(base, head)], Tree[head]))
    ELSE Refused

-----------------------------------------------------------------------------
(* verify_review_coverage_passport recomputes the body; the check run is   *)
(* refused when the live base or head is not the passport's.               *)

\* build_github_check_run_payload
CheckRunPayload(passport, liveBase, liveHead) ==
    IF /\ CoverageBody(passport.base, passport.head, passport.ledger, passport.snapshot) = passport
       /\ passport.base = liveBase
       /\ passport.head = liveHead
    THEN [ok |-> TRUE, head |-> passport.head,
          conclusion |-> IF passport.gatePassed THEN "success" ELSE "failure"]
    ELSE Refused

=============================================================================
