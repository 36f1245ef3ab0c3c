------------------------------- MODULE Ledger -------------------------------
(***************************************************************************)
(* The review ledger (src/src/ledger.rs): webhooks of one pull request,    *)
(* the facts derived from them, the receipts that are active and the       *)
(* reconciliation of the observed pushes with the head.                    *)
(*                                                                         *)
(* Identifiers, commits and timestamps are positive integers; Null stands  *)
(* for a field that a webhook leaves out.  The payload of a delivery stands*)
(* for its SHA-256, a derived fact for its own.  The receiver's signatures *)
(* are over the whole ledger and hold for every ledger it wrote.           *)
(***************************************************************************)
EXTENDS Integers, FiniteSets

CONSTANTS
    MaxLedgerDeliveries,   \* MAX_LEDGER_DELIVERIES
    MaxLedgerReviews       \* MAX_LEDGER_REVIEWS

ASSUME LedgerAssumption ==
    MaxLedgerDeliveries \in Nat /\ MaxLedgerReviews \in Nat

Null == 0

\* GithubWebhookKind
Kinds == {"submitted", "dismissed", "synchronize"}

EmptyLedger ==
    [deliveries |-> {}, receipts |-> {}, dismissals |-> {}, heads |-> {}, revision |-> 0]

-----------------------------------------------------------------------------
(* The fact that a webhook states.                                         *)

\* submitted_receipt: a comment is no completed review.
SubmittedReceipt(e, id) ==
    IF e.state = "commented" THEN {}
    ELSE {[review |-> e.review, reviewer |-> e.reviewer, login |-> e.login, state |-> e.state,
           commit |-> e.commit, at |-> e.at, delivery |-> id]}

Dismissal(e, id) ==
    [review |-> e.review, reviewer |-> e.reviewer, login |-> e.login, commit |-> e.commit,
     at |-> e.at, delivery |-> id]

HeadObservation(e, id) ==
    [before |-> e.before, head |-> e.after, base |-> e.base, delivery |-> id]

\* DerivedFact::from_parsed
DerivedFact(e, id) ==
    CASE e.kind = "submitted"   -> SubmittedReceipt(e, id)
      [] e.kind = "dismissed"   -> {Dismissal(e, id)}
      [] e.kind = "synchronize" -> {HeadObservation(e, id)}

\* insert_review_receipt
ReceiptFits(l, receipts) ==
    \A r \in receipts :
        IF \E old \in l.receipts : old.review = r.review
        THEN r \in l.receipts
        ELSE Cardinality(l.receipts) < MaxLedgerReviews

\* DerivedFact::append_to
AppendTo(l, e, facts) ==
    CASE e.kind = "submitted"   -> [l EXCEPT !.receipts = l.receipts \cup facts]
      [] e.kind = "dismissed"   -> [l EXCEPT !.dismissals = l.dismissals \cup facts]
      [] e.kind = "synchronize" -> [l EXCEPT !.heads = l.heads \cup facts]

-----------------------------------------------------------------------------
(* GithubReviewLedger::validate                                            *)

\* The receipt that a dismissal names tells the same story.
Agrees(d, r) ==
    /\ d.reviewer = r.reviewer /\ d.login = r.login
    /\ d.commit \in {Null, r.commit}
    /\ d.at \in {Null, r.at}

\* The facts that the deliveries of a kind sign for are the facts there are.
Backed(l, kind, facts) ==
    /\ \A f \in facts :
          \E d \in l.deliveries : d.id = f.delivery /\ d.kind = kind /\ d.fact = {f}
    /\ \A d \in l.deliveries : d.kind = kind => d.fact \subseteq facts

ValidLedger(l) ==
    /\ Cardinality(l.deliveries) <= MaxLedgerDeliveries
    /\ Cardinality(l.receipts) <= MaxLedgerReviews
    /\ \A c, d \in l.deliveries : c.id = d.id => c = d
    /\ \A q, r \in l.receipts : q.review = r.review => q = r
    /\ Backed(l, "submitted", l.receipts)
    /\ Backed(l, "dismissed", l.dismissals)
    /\ Backed(l, "synchronize", l.heads)
    /\ \A d \in l.dismissals, r \in l.receipts : d.review = r.review => Agrees(d, r)

-----------------------------------------------------------------------------
(* ingest_github_webhook                                                   *)

Failed == [ok |-> FALSE]

Ingested(l) == [ok |-> TRUE, ledger |-> l]

Applied(l, id, e) ==
    LET facts == DerivedFact(e, id)
        next  == [AppendTo(l, e, facts) EXCEPT
                    !.deliveries = l.deliveries \cup
                        {[id |-> id, kind |-> e.kind, payload |-> e, fact |-> facts]},
                    !.revision = l.revision + 1]
    IN  IF (e.kind = "submitted" => ReceiptFits(l, facts)) /\ ValidLedger(next)
        THEN Ingested(next) ELSE Failed

IngestGithubWebhook(l, id, e) ==
    LET known == {d \in l.deliveries : d.id = id}
    IN  IF ~ValidLedger(l) THEN Failed
        ELSE IF known # {}
        THEN IF \A d \in known : d.kind = e.kind /\ d.payload = e THEN Ingested(l) ELSE Failed
        ELSE IF Cardinality(l.deliveries) >= MaxLedgerDeliveries THEN Failed
        ELSE Applied(l, id, e)

-----------------------------------------------------------------------------
(* GithubReviewLedger::active_receipts                                     *)

\* The order of submission: by time, within a second by identifier, and the
\* dismissal of a review right after the review.
Before(k, m) ==
    \/ k[1] < m[1]
    \/ k[1] = m[1] /\ k[2] < m[2]
    \/ k[1] = m[1] /\ k[2] = m[2] /\ k[3] < m[3]

Key(at, review, rank) == <<at, review, rank>>

\* Mutant: an unknown time is taken for the earliest one.
SubmittedAtOrEpoch(l, d) ==
    IF d.at # Null THEN {d.at}
    ELSE {r.at : r \in {q \in l.receipts : q.review = d.review}} \cup {Null}

\* When the dismissed review was submitted, if that is known.
SubmittedAt(l, d) ==
    IF d.at # Null THEN {d.at}
    ELSE {r.at : r \in {q \in l.receipts : q.review = d.review}}

AmbiguousReviewers(l) == {d.reviewer : d \in {c \in l.dismissals : SubmittedAt(l, c) = {}}}

ActiveReceipts(l) ==
    {r \in l.receipts :
        /\ r.reviewer \notin AmbiguousReviewers(l)
        /\ \A q \in l.receipts :
              q.reviewer = r.reviewer =>
                  ~Before(Key(r.at, r.review, 0), Key(q.at, q.review, 0))
        /\ \A d \in l.dismissals :
              d.reviewer = r.reviewer =>
                  \A at \in SubmittedAt(l, d) :
                      ~Before(Key(r.at, r.review, 0), Key(at, d.review, 1))}

-----------------------------------------------------------------------------
(* GithubReviewLedger::reconcile_current_head                              *)

Transitions(l) == {<<h.before, h.head>> : h \in l.heads}

\* The commits in front of the head, one transition back at a time.
Walk(edges, head) ==
    LET back(c) == IF \E e \in edges : e[2] = c
                   THEN (CHOOSE e \in edges : e[2] = c)[1] ELSE Null
        walk[n \in 0..(Cardinality(edges) + 1)] ==
            IF n = 0 THEN head
            ELSE IF walk[n - 1] = Null THEN Null ELSE back(walk[n - 1])
    IN  walk

\* Every observed push leads to the head, along one path without a turn back.
ReconcileCurrentHead(l, head) ==
    LET edges == Transitions(l)
        n     == Cardinality(edges)
        walk  == Walk(edges, head)
    IN  /\ ValidLedger(l)
        /\ \A e \in edges : e[1] # e[2]
        /\ \A e, f \in edges : (e[1] = f[1] \/ e[2] = f[2]) => e = f
        /\ walk[n] # Null
        /\ walk[n + 1] = Null

=============================================================================
