------------------------------- MODULE Inbox -------------------------------
(***************************************************************************)
(* What the Review Inbox decides about one pull request, and the event it  *)
(* hands to Resume (src/src/inbox_decision.rs, src/src/inbox_event.rs,     *)
(* the pure parts of src/src/inbox.rs, and the checkpoint selection of     *)
(* src/src/github.rs).                                                     *)
(*                                                                         *)
(* A pull request, as GitHub reports it: open, base, head, updated (whole  *)
(* seconds), reviews (the reviewer's, in the order they were started),     *)
(* others (the number of reviews of other people) and requested (whether a *)
(* review is requested of the reviewer).  base and head may be missing.    *)
(* There is one host, one repository and one reviewer: the identities that *)
(* every response must repeat are not told apart.                          *)
(***************************************************************************)
EXTENDS Naturals, Sequences, FiniteSets, SequencesExt

CONSTANTS
    None,
    ReviewsPerPage,     \* reviews in one GraphQL page
    MaxReviews          \* MAX_REVIEWS and MAX_GITHUB_REVIEWS

-----------------------------------------------------------------------------
(* The checkpoint                                                          *)

Formal(r) == r.state \in {"approved", "changes_requested"}

\* Completed reviews are ordered by submission, then by database id.
Newer(r, s) == r.at > s.at \/ (r.at = s.at /\ r.id > s.id)

Checkpoint(reviews) ==
    LET formal == {r \in ToSet(reviews) : Formal(r)}
    IN  IF formal = {} THEN None
        ELSE CHOOSE r \in formal : \A s \in formal : s = r \/ Newer(r, s)

-----------------------------------------------------------------------------
(* Snapshots of a pull request                                             *)

\* The fields every page of one listing repeats.
Body(pr) ==
    [open |-> pr.open, updated |-> pr.updated, base |-> pr.base, head |-> pr.head,
     all |-> Len(pr.reviews) + pr.others, requested |-> pr.requested]

\* The page of reviews that starts after the first n of them.
Page(pr, n) == SubSeq(pr.reviews, n + 1, IF n + ReviewsPerPage < Len(pr.reviews)
                                         THEN n + ReviewsPerPage ELSE Len(pr.reviews))

HasNextPage(pr, n) == n + ReviewsPerPage < Len(pr.reviews)

ValidPullRequest(pr) == pr.open /\ Len(pr.reviews) <= MaxReviews

FirstPage(pr) ==
    [body |-> Body(pr), reviews |-> Page(pr, 0), total |-> Len(pr.reviews),
     more |-> HasNextPage(pr, 0), pages |-> 1]

\* A further page belongs to the listing, and makes progress.
PageFits(snap, pr) ==
    /\ Body(pr) = snap.body
    /\ Len(pr.reviews) = snap.total
    /\ Page(pr, Len(snap.reviews)) # <<>>
    /\ Len(snap.reviews) + Len(Page(pr, Len(snap.reviews))) <= MaxReviews

NextPage(snap, pr) ==
    [snap EXCEPT !.reviews = snap.reviews \o Page(pr, Len(snap.reviews)),
                 !.more = HasNextPage(pr, Len(snap.reviews)),
                 !.pages = snap.pages + 1]

CompleteReviews(snap) ==
    /\ Len(snap.reviews) = snap.total
    /\ Cardinality({snap.reviews[i].id : i \in DOMAIN snap.reviews}) = snap.total

\* Observations that were not confirmed by an equal second one are refused.
SnapshotMatchesAlways(first, second) == TRUE
SnapshotMatches(first, second) == first = second

-----------------------------------------------------------------------------
(* The decision                                                            *)

Triggers(checkpointCommit, checkpointBase, head, base, requested) ==
    (IF checkpointCommit # head THEN {"head_changed"} ELSE {}) \cup
    (IF checkpointBase # None /\ base # None /\ checkpointBase # base THEN {"base_drift"} ELSE {}) \cup
    (IF requested THEN {"review_re_requested"} ELSE {})

Decision(status, checkpoint, triggers) ==
    [status |-> status, checkpoint |-> checkpoint, triggers |-> triggers]

Unobservable(checkpoint) == Decision("unobservable", checkpoint, {})

\* checkpointBase is the base the checkpoint was reviewed against; GitHub
\* does not report it and the live Inbox passes None.
DecideCandidate(snap, checkpointBase) ==
    LET checkpoint == Checkpoint(snap.reviews)
        b == snap.body
        triggers == Triggers(checkpoint.commit, checkpointBase, b.head, b.base, b.requested)
    IN  IF checkpoint = None THEN Decision("no_eligible_reviews", None, {})
        ELSE IF \/ b.head = None \/ b.base = None \/ b.all > MaxReviews
                \/ checkpoint.commit = b.head /\ checkpointBase = None
        THEN Unobservable(checkpoint)
        ELSE IF triggers = {} THEN Decision("up_to_date", checkpoint, {})
        ELSE Decision("actionable", checkpoint, triggers)

\* The status of a whole inbox, from the statuses of its candidates.
InboxStatus(truncated, statuses) ==
    IF truncated THEN "partial"
    ELSE IF "actionable" \in statuses THEN "actionable"
    ELSE IF "unobservable" \in statuses THEN "insufficient_evidence"
    ELSE IF "up_to_date" \in statuses THEN "up_to_date"
    ELSE "no_eligible_reviews"

-----------------------------------------------------------------------------
(* The event                                                               *)

\* An envelope is made only for claims that hold together; its id is a hash
\* of all of them, so two envelopes are equal when their claims are.
Event(base, head, checkpoint, checkpointBase, requested, triggers) ==
    [base |-> base, head |-> head, review |-> checkpoint.id, state |-> checkpoint.state,
     checkpoint |-> checkpoint.commit, checkpointBase |-> checkpointBase,
     requested |-> requested, triggers |-> triggers]

ValidClaims(e) ==
    /\ e.checkpoint = e.head => e.checkpointBase # None /\ e.base # None
    /\ e.triggers = Triggers(e.checkpoint, e.checkpointBase, e.head, e.base, e.requested)
    /\ e.triggers # {}

=============================================================================
