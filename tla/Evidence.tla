------------------------------ MODULE Evidence ------------------------------
(***************************************************************************)
(* The provider evidence of one review epoch, and the decision taken from  *)
(* it: the upsert of services/governor-app/src/store.ts and evaluatePair   *)
(* of services/governor-app/src/evaluate.ts.                               *)
(*                                                                         *)
(* An evidence input is what events.ts extracts from one webhook.  Its     *)
(* facts are abstracted to what evaluatePair tells apart:                  *)
(*   authentic  authenticated(): the author is the provider's bot          *)
(*   created    status created_at, review submitted_at, comment created_at *)
(*   at         source_updated_at (= created but for an edited comment)    *)
(*   valid      FALSE for a deleted comment and an edited or dismissed     *)
(*              review                                                     *)
(*   verdict    "complete" if statusComplete, reviewComplete or            *)
(*              acknowledgementComplete, "negative" for a failed status or *)
(*              a review that requests changes, "incomplete" otherwise     *)
(* Times are whole seconds, as in GitHub's payloads.                       *)
(***************************************************************************)
EXTENDS Integers, FiniteSets

CONSTANTS
    Inputs,         \* the evidence inputs that can be delivered
    MaxSkew         \* MAX_EVIDENCE_SKEW_MS, in seconds

Kinds == {"status", "review", "issue_comment"}

EvidenceInput ==
    [kind : Kinds, source : Nat, created : Nat, at : Nat, valid : BOOLEAN,
     authentic : BOOLEAN, verdict : {"complete", "negative", "incomplete"}]

ASSUME InputsAssumption ==
    /\ Inputs \subseteq EvidenceInput
    /\ \A i \in Inputs :
          /\ i.created <= i.at
          /\ i.kind # "issue_comment" => i.created = i.at
          /\ i.kind = "status" => i.valid
          /\ i.kind = "issue_comment" => i.verdict # "negative"
    /\ \A i, j \in Inputs :      \* a record never changes its author
          (i.kind = j.kind /\ i.source = j.source) => i.authentic = j.authentic

ASSUME SkewAssumption == MaxSkew \in Nat

GateStates == {"revoked", "pending", "success", "failure", "cancelled"}

-----------------------------------------------------------------------------
(* The evidence table of one pair epoch: a set of rows, one per source.    *)

SameSource(r, s) == r.kind = s.kind /\ r.source = s.source

\* Mutant: a delayed delivery replaces a tombstone.
ReplacesForgettingTombstones(i, r) == i.at > r.at

\* INSERT ... ON CONFLICT DO UPDATE ... WHERE: a row gives way to a newer
\* input, and a valid row to an invalid input of the same time.
Replaces(i, r) == i.at > r.at \/ (i.at = r.at /\ r.valid /\ ~i.valid)

UpsertEvidence(rows, i) ==
    LET conflict == {r \in rows : SameSource(r, i)}
    IN  IF \A r \in conflict : Replaces(i, r)
        THEN (rows \ conflict) \cup {i}
        ELSE rows

\* Mutant: ordered by id alone.
NewerById(r, s) == r.source >= s.source

\* latest(): the newest authenticated row of a kind, the larger id on a tie.
Newer(r, s) == r.at > s.at \/ (r.at = s.at /\ r.source >= s.source)

Latest(rows, kind) ==
    LET matching == {r \in rows : r.kind = kind /\ r.authentic}
    IN  {r \in matching : \A s \in matching : Newer(r, s)}

-----------------------------------------------------------------------------
(* evaluatePair()                                                          *)

Abs(n) == IF n < 0 THEN -n ELSE n

\* The status and the review agree on when the review completed, and the
\* acknowledgement spans that time.
Correlated(status, review, ack) ==
    LET completion == IF status.created > review.created
                      THEN status.created ELSE review.created
    IN  /\ Abs(status.created - review.created) <= MaxSkew
        /\ ack.created <= completion
        /\ ack.at >= completion
        /\ ack.at - completion <= MaxSkew

\* What the newest three records of a dispatch sent at dispatchTime decide.
Correlate(dispatchTime, status, review, ack) ==
    LET three == {status, review, ack}
    IN  IF \E r \in three : ~r.valid THEN "failure"
        ELSE IF \E r \in three : r.created <= dispatchTime THEN "pending"
        ELSE IF "negative" \in {status.verdict, review.verdict} THEN "failure"
        ELSE IF /\ \A r \in three : r.verdict = "complete"
                /\ Correlated(status, review, ack)
             THEN "success"
             ELSE "pending"

EvaluateEvidence(dispatchTime, rows) ==
    LET newest(kind) == CHOOSE r \in rows : r \in Latest(rows, kind)
    IN  IF \E kind \in Kinds : Latest(rows, kind) = {}
        THEN "pending"
        ELSE Correlate(dispatchTime, newest("status"), newest("review"),
                       newest("issue_comment"))

\* snapshot: the pair row; d: its epoch's dispatch row (state "none" when
\* there is none; late once evidence_deadline_at has passed).
EvaluatePair(snapshot, d, rows) ==
    IF snapshot.quarantined \/ ~snapshot.active \/ snapshot.state = "closed"
    THEN "failure"
    ELSE IF snapshot.draft THEN "pending"
    ELSE IF d.state = "abandoned" THEN "failure"
    ELSE IF d.state # "sent" THEN "pending"
    ELSE IF d.late THEN "failure"
    ELSE EvaluateEvidence(d.dispatchedAt, rows)
=============================================================================
