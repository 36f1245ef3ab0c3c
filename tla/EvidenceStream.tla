--------------------------- MODULE EvidenceStream ---------------------------
(***************************************************************************)
(* The evidence table of one epoch under a webhook stream that GitHub may  *)
(* delay, reorder and repeat.  `delivered' is the history the table only   *)
(* summarises; the properties relate the two.                              *)
(***************************************************************************)
EXTENDS Evidence

CONSTANT DispatchedAt   \* when the epoch's command comment was created

ASSUME DispatchAssumption == DispatchedAt \in Nat

VARIABLES
    rows,           \* the evidence table
    delivered       \* every input delivered so far

vars == <<rows, delivered>>

Init == rows = {} /\ delivered = {}

\* applyPullEvidence and applyShaEvidence, as far as the table goes.
Deliver(i) ==
    /\ rows' = UpsertEvidence(rows, i)
    /\ delivered' = delivered \cup {i}

Next == \E i \in Inputs : Deliver(i)

Spec == Init /\ [][Next]_vars

Decision == EvaluateEvidence(DispatchedAt, rows)

-----------------------------------------------------------------------------
\* Every row was delivered, and no source has two rows (the UNIQUE
\* constraint that upsertEvidence relies on).
TypeOK ==
    /\ delivered \subseteq Inputs
    /\ rows \subseteq delivered
    /\ \A r, s \in rows : SameSource(r, s) => r = s

\* Whatever the order of delivery, the table holds the newest input of every
\* source, and an equal-time deletion or dismissal is never lost to a delayed
\* positive delivery ("equal-time deletion/dismissal tombstones cannot be
\* replaced by delayed positive deliveries", governor-app/README.md).
RowsConverge ==
    \A i \in delivered : \E r \in rows :
        /\ SameSource(r, i)
        /\ r.at >= i.at
        /\ (r.at = i.at /\ ~i.valid) => ~r.valid

\* A success is never taken against what was delivered: no authentic input of
\* any kind is newer than the one the decision rests on, and none that says
\* "deleted" or "dismissed" about that record was delivered.
SuccessUncontradicted ==
    Decision = "success" =>
        \A kind \in Kinds : \E r \in Latest(rows, kind) :
            /\ r.created > DispatchedAt
            /\ \A i \in delivered :
                  /\ (i.kind = kind /\ i.authentic) => i.at <= r.at
                  /\ (SameSource(i, r) /\ i.at = r.at) => i.valid

=============================================================================
