-------------------------- MODULE ReviewGateProofs --------------------------
(***************************************************************************)
(* Proofs about ReviewGate, for any people, commits, webhooks and changes  *)
(* of access: the receipts that the ledger counts are the right ones, and  *)
(* a snapshot that was collected piece by piece was true at one instant.   *)
(***************************************************************************)
EXTENDS ReviewGate, FiniteSetTheorems, WellFoundedInduction, TLAPS

-----------------------------------------------------------------------------
(* The ledger.                                                             *)

\* No two reviews share an identifier, and only a completed review is ever
\* dismissed.
ReviewsHold ==
    /\ github = [base |-> github.base, head |-> github.head, clock |-> github.clock,
                 reviews |-> github.reviews, dismissed |-> github.dismissed,
                 events |-> github.events]
    /\ github.clock \in Nat \ {0}
    /\ \A q \in github.reviews : q.review \in Nat /\ q.at \in Nat \ {0}
    /\ \A q, r \in github.reviews : q.review = r.review => q = r
    /\ \A id \in github.dismissed :
          \E q \in github.reviews : q.review = id /\ q.state # "commented"

\* What a webhook says of a review is what GitHub keeps of it.
Tells(e, q) == e.review = q.review /\ e.reviewer = q.reviewer
Submits(e, q) == Tells(e, q) /\ e.at = q.at /\ e.state = q.state
Dismisses(e, q) == Tells(e, q) /\ e.at \in {Null, q.at} /\ q.state # "commented"

EventsHold ==
    /\ \A ev \in github.events :
          /\ ev.e.kind \in Kinds
          /\ ev.e.kind = "submitted" => \E q \in github.reviews : Submits(ev.e, q)
          /\ ev.e.kind = "dismissed" =>
                \E q \in github.reviews : Dismisses(ev.e, q) /\ q.review \in github.dismissed
    /\ \A q \in github.reviews :
          \E ev \in github.events : ev.e.kind = "submitted" /\ ev.e.review = q.review
    /\ \A id \in github.dismissed :
          \E ev \in github.events : ev.e.kind = "dismissed" /\ ev.e.review = id

\* The facts of a ledger are those of its deliveries, and no others.
LedgerHolds(l) ==
    /\ DOMAIN l = {"deliveries", "receipts", "dismissals", "heads", "revision"}
    /\ Payloads(l) \subseteq {ev.e : ev \in github.events}
    /\ \A r \in l.receipts :
          \E q \in github.reviews : Submits(r, q) /\ q.state # "commented"
    /\ \A d \in l.dismissals :
          \E q \in github.reviews : Dismisses(d, q) /\ q.review \in github.dismissed
    /\ \A e \in Payloads(l) :
          (e.kind = "submitted" /\ e.state # "commented") =>
              \E r \in l.receipts : r.review = e.review
    /\ \A e \in Payloads(l) :
          e.kind = "dismissed" => \E d \in l.dismissals : d.review = e.review

FilesHold ==
    /\ file.state \in {"absent", "torn", "ledger"}
    /\ file.state = "ledger" => LedgerHolds(file.ledger)
    /\ receiver.pc \in {"write", "fill"} => LedgerHolds(receiver.ledger)

\* The inductive invariant of the ledger.
LedgerInv == ReviewsHold /\ EventsHold /\ FilesHold

LEMMA LedgerInit == Init => LedgerInv
<1> SUFFICES ASSUME Init PROVE LedgerInv
  OBVIOUS
<1>1. PICK b \in Bases, h \in Heads :
        github = [base |-> b, head |-> h, clock |-> 1, reviews |-> {}, dismissed |-> {},
                  events |-> {}]
  BY DEF Init
<1>2. file.state = "absent" /\ receiver.pc = "idle"
  BY DEF Init, Idle
<1> QED
  BY <1>1, <1>2 DEF LedgerInv, ReviewsHold, EventsHold, FilesHold

\* GitHub forgets no review, no dismissal and no event.
Grows ==
    /\ github.reviews \subseteq github'.reviews
    /\ github.dismissed \subseteq github'.dismissed
    /\ github.events \subseteq github'.events

\* What a ledger holds stays true.
LEMMA LedgerStays ==
    ASSUME Grows, NEW l, LedgerHolds(l)
    PROVE  LedgerHolds(l)'
BY DEF Grows, LedgerHolds, Payloads

\* A step of GitHub, a command that reads, or a command that fails.
LEMMA FilesStay ==
    ASSUME LedgerInv, Grows, ReviewsHold', EventsHold', UNCHANGED <<file, receiver>>
    PROVE  LedgerInv'
<1>1. file.state = "ledger" => LedgerHolds(file.ledger)'
  BY LedgerStays DEF LedgerInv, FilesHold
<1>2. receiver.pc \in {"write", "fill"} => LedgerHolds(receiver.ledger)'
  BY LedgerStays DEF LedgerInv, FilesHold
<1>3. FilesHold'
  <2>1. file' = file /\ receiver' = receiver
    OBVIOUS
  <2>2. file.state \in {"absent", "torn", "ledger"}
    BY DEF LedgerInv, FilesHold
  <2> QED
    BY <1>1, <1>2, <2>1, <2>2 DEF FilesHold, LedgerHolds, Payloads
<1> QED
  BY <1>3 DEF LedgerInv

\* The pull request moves, or time passes.
LEMMA GithubMoves ==
    ASSUME LedgerInv, (\E c \in Heads : Push(c)) \/ (\E b \in Bases : AdvanceBase(b)) \/ Tick
    PROVE  LedgerInv'
<1>1. UNCHANGED <<file, receiver>>
  BY DEF Push, AdvanceBase, Tick
<1>2. /\ github' = [base |-> github'.base, head |-> github'.head, clock |-> github'.clock,
                    reviews |-> github'.reviews, dismissed |-> github'.dismissed,
                    events |-> github'.events]
      /\ github'.clock \in Nat \ {0}
      /\ github'.reviews = github.reviews /\ github'.dismissed = github.dismissed
      /\ github.events \subseteq github'.events
      /\ \A ev \in github'.events : ev \in github.events \/ ev.e.kind = "synchronize"
  <2>1. CASE \E c \in Heads : Push(c)
    <3>1. PICK c \in Heads : Push(c)
      BY <2>1
    <3> DEFINE e0 == [kind |-> "synchronize", before |-> github.head, after |-> c,
                      base |-> github.base]
               ev0 == [n |-> Cardinality(github.events) + 1, e |-> e0]
    <3>2. github' = [[github EXCEPT !.events = github.events \cup {ev0}] EXCEPT !.head = c]
      BY <3>1 DEF Push, Emit
    <3>3. ev0.e.kind = "synchronize"
      OBVIOUS
    <3> HIDE DEF ev0
    <3> QED
      BY <3>2, <3>3 DEF LedgerInv, ReviewsHold
  <2>2. CASE \E b \in Bases : AdvanceBase(b)
    BY <2>2 DEF AdvanceBase, LedgerInv, ReviewsHold
  <2>3. CASE Tick
    BY <2>3 DEF Tick, LedgerInv, ReviewsHold
  <2> QED
    BY <2>1, <2>2, <2>3
<1>3. ReviewsHold' /\ Grows
  BY <1>2 DEF LedgerInv, ReviewsHold, Grows
<1>4. EventsHold'
  <2>1. ASSUME NEW ev \in github'.events
        PROVE  /\ ev.e.kind \in Kinds
               /\ ev.e.kind = "submitted" => \E q \in github'.reviews : Submits(ev.e, q)
               /\ ev.e.kind = "dismissed" =>
                    \E q \in github'.reviews : Dismisses(ev.e, q) /\ q.review \in github'.dismissed
    BY <1>2 DEF LedgerInv, EventsHold, Kinds
  <2> QED
    BY <1>2, <2>1 DEF LedgerInv, EventsHold
<1> QED
  BY <1>1, <1>3, <1>4, FilesStay

\* A review is submitted.
LEMMA SubmitHolds ==
    ASSUME LedgerInv, NEW u \in Reviewers, NEW id \in 1 .. MaxLedgerReviews,
           NEW s \in {"approved", "commented"}, Submit(u, id, s)
    PROVE  LedgerInv'
<1> DEFINE r == [review |-> id, reviewer |-> u, login |-> access.login[u], state |-> s,
                 commit |-> github.head, at |-> github.clock]
           ev0 == [n |-> Cardinality(github.events) + 1, e |-> Submitted(r)]
<1>1. /\ UNCHANGED <<file, receiver>>
      /\ id \notin {q.review : q \in github.reviews}
      /\ github' = [github EXCEPT !.events = github.events \cup {ev0},
                                  !.reviews = github.reviews \cup {r}]
  BY DEF Submit, Emit
<1>2. /\ github' = [base |-> github'.base, head |-> github'.head, clock |-> github'.clock,
                    reviews |-> github'.reviews, dismissed |-> github'.dismissed,
                    events |-> github'.events]
      /\ github'.clock = github.clock
      /\ github'.reviews = github.reviews \cup {r} /\ github'.dismissed = github.dismissed
      /\ github'.events = github.events \cup {ev0}
  BY <1>1 DEF LedgerInv, ReviewsHold
<1>3. r.review = id /\ r.reviewer = u /\ r.at = github.clock /\ r.state = s
  OBVIOUS
<1>4. ev0.e.kind = "submitted" /\ Submits(ev0.e, r) /\ ev0.e.review = r.review
  BY DEF Submitted, Submits, Tells
<1> HIDE DEF r, ev0
<1>5. id \in Nat
  BY LedgerAssumption
<1>6. ReviewsHold' /\ Grows
  BY <1>1, <1>2, <1>3, <1>5 DEF LedgerInv, ReviewsHold, Grows
<1>7. EventsHold'
  <2>1. ASSUME NEW ev \in github'.events
        PROVE  /\ ev.e.kind \in Kinds
               /\ ev.e.kind = "submitted" => \E q \in github'.reviews : Submits(ev.e, q)
               /\ ev.e.kind = "dismissed" =>
                    \E q \in github'.reviews : Dismisses(ev.e, q) /\ q.review \in github'.dismissed
    BY <1>2, <1>4 DEF LedgerInv, EventsHold, Kinds
  <2>2. ASSUME NEW q \in github'.reviews
        PROVE  \E ev \in github'.events : ev.e.kind = "submitted" /\ ev.e.review = q.review
    BY <1>2, <1>4 DEF LedgerInv, EventsHold
  <2>3. ASSUME NEW i \in github'.dismissed
        PROVE  \E ev \in github'.events : ev.e.kind = "dismissed" /\ ev.e.review = i
    BY <1>2 DEF LedgerInv, EventsHold
  <2> QED
    BY <2>1, <2>2, <2>3 DEF EventsHold
<1> QED
  BY <1>1, <1>6, <1>7, FilesStay

\* A review is dismissed.
LEMMA DismissHolds ==
    ASSUME LedgerInv, NEW r \in github.reviews, NEW complete \in BOOLEAN, Dismiss(r, complete)
    PROVE  LedgerInv'
<1> DEFINE e0 == [kind |-> "dismissed", review |-> r.review, reviewer |-> r.reviewer,
                  login |-> r.login, commit |-> IF complete THEN r.commit ELSE Null,
                  at |-> IF complete THEN r.at ELSE Null]
           ev0 == [n |-> Cardinality(github.events) + 1, e |-> e0]
<1>1. /\ UNCHANGED <<file, receiver>>
      /\ r.state # "commented"
      /\ github' = [github EXCEPT !.events = github.events \cup {ev0},
                                  !.dismissed = github.dismissed \cup {r.review}]
  BY DEF Dismiss, Emit
<1>2. /\ github' = [base |-> github'.base, head |-> github'.head, clock |-> github'.clock,
                    reviews |-> github'.reviews, dismissed |-> github'.dismissed,
                    events |-> github'.events]
      /\ github'.clock = github.clock
      /\ github'.reviews = github.reviews
      /\ github'.dismissed = github.dismissed \cup {r.review}
      /\ github'.events = github.events \cup {ev0}
  BY <1>1 DEF LedgerInv, ReviewsHold
<1>4. ev0.e.kind = "dismissed" /\ Dismisses(ev0.e, r) /\ ev0.e.review = r.review
  BY <1>1 DEF Dismisses, Tells
<1> HIDE DEF e0, ev0
<1>6. ReviewsHold' /\ Grows
  BY <1>1, <1>2 DEF LedgerInv, ReviewsHold, Grows
<1>7. EventsHold'
  <2>1. ASSUME NEW ev \in github'.events
        PROVE  /\ ev.e.kind \in Kinds
               /\ ev.e.kind = "submitted" => \E q \in github'.reviews : Submits(ev.e, q)
               /\ ev.e.kind = "dismissed" =>
                    \E q \in github'.reviews : Dismisses(ev.e, q) /\ q.review \in github'.dismissed
    BY <1>2, <1>4 DEF LedgerInv, EventsHold, Kinds
  <2>2. ASSUME NEW q \in github'.reviews
        PROVE  \E ev \in github'.events : ev.e.kind = "submitted" /\ ev.e.review = q.review
    BY <1>2 DEF LedgerInv, EventsHold
  <2>3. ASSUME NEW i \in github'.dismissed
        PROVE  \E ev \in github'.events : ev.e.kind = "dismissed" /\ ev.e.review = i
    BY <1>2, <1>4 DEF LedgerInv, EventsHold
  <2> QED
    BY <2>1, <2>2, <2>3 DEF EventsHold
<1> QED
  BY <1>1, <1>6, <1>7, FilesStay

\* A delivery that the ledger takes adds its fact, and nothing else.
LEMMA AppliedHolds ==
    ASSUME LedgerInv, NEW l, LedgerHolds(l), NEW id, NEW ev \in github.events,
           Applied(l, id, ev.e).ok
    PROVE  LedgerHolds(Applied(l, id, ev.e).ledger)
<1> DEFINE e == ev.e
           facts == DerivedFact(e, id)
           d0 == [id |-> id, kind |-> e.kind, payload |-> e, fact |-> facts]
           base == AppendTo(l, e, facts)
           next == [base EXCEPT !.deliveries = l.deliveries \cup {d0},
                                !.revision = l.revision + 1]
<1>1. Applied(l, id, e).ledger = next
  BY DEF Applied, Failed, Ingested
<1>2. e.kind \in Kinds
  BY DEF LedgerInv, EventsHold
<1>3. d0.payload = e
  OBVIOUS
<1> HIDE DEF d0, facts
<1>4. /\ DOMAIN base = DOMAIN l
      /\ e.kind = "submitted" =>
            /\ base.receipts = l.receipts \cup facts /\ base.dismissals = l.dismissals
      /\ e.kind = "dismissed" =>
            /\ base.receipts = l.receipts /\ base.dismissals = l.dismissals \cup facts
      /\ e.kind = "synchronize" =>
            /\ base.receipts = l.receipts /\ base.dismissals = l.dismissals
  BY <1>2 DEF AppendTo, LedgerHolds, Kinds
<1> HIDE DEF base
<1>5. /\ DOMAIN next = DOMAIN l /\ next.deliveries = l.deliveries \cup {d0}
      /\ next.receipts = base.receipts /\ next.dismissals = base.dismissals
  BY <1>4 DEF LedgerHolds
<1> HIDE DEF next
<1>6. Payloads(next) = Payloads(l) \cup {e}
  BY <1>3, <1>5 DEF Payloads
<1>7. CASE e.kind = "submitted"
  <2>1. facts = SubmittedReceipt(e, id)
    BY <1>7 DEF DerivedFact, facts
  <2>2. PICK q \in github.reviews : Submits(e, q)
    BY <1>7 DEF LedgerInv, EventsHold
  <2>3. \A r \in facts : Submits(r, q) /\ q.state # "commented"
    BY <2>1, <2>2 DEF SubmittedReceipt, Submits, Tells
  <2>4. e.state # "commented" => \E r \in facts : r.review = e.review
    BY <2>1 DEF SubmittedReceipt
  <2> QED
    BY <1>1, <1>4, <1>5, <1>6, <1>7, <2>2, <2>3, <2>4 DEF LedgerHolds
<1>8. CASE e.kind = "dismissed"
  <2>1. facts = {Dismissal(e, id)}
    BY <1>8 DEF DerivedFact, facts
  <2>2. PICK q \in github.reviews : Dismisses(e, q) /\ q.review \in github.dismissed
    BY <1>8 DEF LedgerInv, EventsHold
  <2>3. \A r \in facts : Dismisses(r, q)
    BY <2>1, <2>2 DEF Dismissal, Dismisses, Tells
  <2>4. \E d \in facts : d.review = e.review
    BY <2>1 DEF Dismissal
  <2> QED
    BY <1>1, <1>4, <1>5, <1>6, <1>8, <2>2, <2>3, <2>4 DEF LedgerHolds
<1>9. CASE e.kind = "synchronize"
  BY <1>1, <1>4, <1>5, <1>6, <1>9 DEF LedgerHolds
<1> QED
  BY <1>2, <1>7, <1>8, <1>9 DEF Kinds

LEMMA IngestHolds ==
    ASSUME LedgerInv, NEW ev \in github.events, NEW copy, Ingest(ev.n, ev.e, copy)
    PROVE  LedgerInv'
<1> DEFINE old == IF file.state = "absent" THEN EmptyLedger ELSE file.ledger
           new == IngestGithubWebhook(old, <<ev.n, copy>>, ev.e)
<1>1. /\ file.state # "torn" /\ new.ok /\ UNCHANGED <<github, file>>
      /\ receiver' = [pc |-> "write", ledger |-> new.ledger]
  BY DEF Ingest
<1>2. LedgerHolds(EmptyLedger)
  BY DEF EmptyLedger, LedgerHolds, Payloads
<1>3. LedgerHolds(old)
  BY <1>1, <1>2 DEF LedgerInv, FilesHold
<1> HIDE DEF old
<1>4. new.ledger = old \/ (Applied(old, <<ev.n, copy>>, ev.e).ok /\ new = Applied(old, <<ev.n, copy>>, ev.e))
  BY <1>1 DEF IngestGithubWebhook, Failed, Ingested
<1>5. LedgerHolds(new.ledger)
  BY <1>3, <1>4, AppliedHolds
<1> HIDE DEF new
<1>6. receiver'.ledger = new.ledger /\ receiver'.pc = "write"
  BY <1>1
<1>7. FilesHold'
  BY <1>1, <1>5, <1>6 DEF LedgerInv, FilesHold, LedgerHolds, Payloads
<1> QED
  BY <1>1, <1>7 DEF LedgerInv, ReviewsHold, EventsHold

LEMMA WriteHolds ==
    ASSUME LedgerInv, Truncate \/ Fill \/ Crash
    PROVE  LedgerInv'
<1>1. github' = github
  BY DEF Truncate, Fill, Crash
<1>2. FilesHold'
  <2>1. CASE Truncate
    <3>1. file'.state = "torn" /\ receiver'.ledger = receiver.ledger /\ receiver.pc = "write"
      BY <2>1 DEF Truncate
    <3> QED
      BY <1>1, <3>1 DEF LedgerInv, FilesHold, LedgerHolds, Payloads
  <2>2. CASE Fill
    <3>1. /\ file'.state = "ledger" /\ file'.ledger = receiver.ledger
          /\ receiver.pc = "fill" /\ receiver'.pc = "idle"
      BY <2>2 DEF Fill, Idle
    <3> QED
      BY <1>1, <3>1 DEF LedgerInv, FilesHold, LedgerHolds, Payloads
  <2>3. CASE Crash
    <3>1. file' = file /\ receiver'.pc = "idle"
      BY <2>3 DEF Crash, Idle
    <3> QED
      BY <1>1, <3>1 DEF LedgerInv, FilesHold, LedgerHolds, Payloads
  <2> QED
    BY <2>1, <2>2, <2>3
<1> QED
  BY <1>1, <1>2 DEF LedgerInv, ReviewsHold, EventsHold

\* The commands that neither GitHub nor the ledger file notices.
Collects ==
    \/ StartCollection \/ ReadRepo \/ ReadTeam \/ ReadTeamRepo \/ ReadMembersPage \/ ReadUser
    \/ ReadFinal \/ CollectionFails

LEMMA CollectsAlone ==
    ASSUME Collects \/ ChangeAccess \/ BuildPassport \/ BuildCheckRun
    PROVE  UNCHANGED <<github, file, receiver>>
<1>1. CASE Collects
  BY <1>1 DEF Collects, StartCollection, ReadRepo, ReadTeam, ReadTeamRepo, ReadMembersPage,
              ReadUser, ReadFinal, CollectionFails, Get
<1>2. CASE ChangeAccess
  BY <1>2 DEF ChangeAccess, Turn
<1>3. CASE BuildPassport \/ BuildCheckRun
  BY <1>3 DEF BuildPassport, BuildCheckRun
<1> QED
  BY <1>1, <1>2, <1>3

LEMMA LedgerStep == LedgerInv /\ [Next]_vars => LedgerInv'
<1> SUFFICES ASSUME LedgerInv, [Next]_vars PROVE LedgerInv'
  OBVIOUS
<1>1. ASSUME UNCHANGED <<github, file, receiver>> PROVE LedgerInv'
  BY <1>1 DEF LedgerInv, ReviewsHold, EventsHold, FilesHold, LedgerHolds, Payloads
<1>2. CASE UNCHANGED vars
  BY <1>1, <1>2 DEF vars
<1>3. CASE (\E c \in Heads : Push(c)) \/ (\E b \in Bases : AdvanceBase(b)) \/ Tick
  BY <1>3, GithubMoves
<1>4. CASE \E u \in Reviewers, id \in 1..MaxLedgerReviews, s \in {"approved", "commented"} :
              Submit(u, id, s)
  BY <1>4, SubmitHolds
<1>5. CASE \E r \in github.reviews, complete \in BOOLEAN : Dismiss(r, complete)
  BY <1>5, DismissHolds
<1>6. CASE \E ev \in github.events :
              \/ Ingest(ev.n, ev.e, 1) /\ UNCHANGED budget
              \/ Ingest(ev.n, ev.e, 2) /\ Spend("copy")
  BY <1>6, IngestHolds
<1>7. CASE Truncate \/ Fill \/ Crash
  BY <1>7, WriteHolds
<1>8. CASE Collects \/ ChangeAccess \/ BuildPassport \/ BuildCheckRun
  BY <1>1, <1>8, CollectsAlone
<1> QED
  BY <1>2, <1>3, <1>4, <1>5, <1>6, <1>7, <1>8 DEF Next, Collects

\* What the ledger knows of the time of a dismissed review is that time.
LEMMA SubmittedAtIsTrue ==
    ASSUME LedgerInv, NEW l, LedgerHolds(l), NEW d \in l.dismissals,
           NEW q \in github.reviews, q.review = d.review
    PROVE  SubmittedAt(l, d) \subseteq {q.at}
<1>1. PICK p \in github.reviews : Dismisses(d, p)
  BY DEF LedgerHolds
<1>2. p = q
  BY <1>1 DEF Dismisses, Tells, LedgerInv, ReviewsHold
<1>3. ASSUME NEW r \in l.receipts, r.review = d.review PROVE r.at = q.at
  BY <1>3 DEF LedgerHolds, Submits, Tells, LedgerInv, ReviewsHold
<1> QED
  BY <1>1, <1>2, <1>3 DEF SubmittedAt, Dismisses

\* A dismissal in the ledger silences what its reviewer said up to then.
LEMMA TombstonesFollow == LedgerInv => TombstonesHold
<1> SUFFICES ASSUME LedgerInv, file.state = "ledger",
                    NEW e \in Payloads(file.ledger), e.kind = "dismissed",
                    NEW a \in ActiveReceipts(file.ledger), NEW r \in github.reviews,
                    a.reviewer = e.reviewer, r.review = e.review
             PROVE  Before(Order(r), Order(a))
  BY DEF TombstonesHold
<1> DEFINE l == file.ledger
<1>1. LedgerHolds(l)
  BY DEF LedgerInv, FilesHold
<1> HIDE DEF l
<1>2. PICK d \in l.dismissals : d.review = e.review
  BY <1>1 DEF LedgerHolds, l
<1>3. PICK ev \in github.events : ev.e = e
  BY <1>1 DEF LedgerHolds, l
<1>4. e.reviewer = r.reviewer
  BY <1>3 DEF LedgerInv, EventsHold, ReviewsHold, Dismisses, Tells
<1>5. d.reviewer = r.reviewer
  BY <1>1, <1>2 DEF LedgerHolds, LedgerInv, ReviewsHold, Dismisses, Tells
<1>6. SubmittedAt(l, d) \subseteq {r.at}
  BY <1>1, <1>2, SubmittedAtIsTrue
<1>7. /\ a \in l.receipts /\ a.reviewer \notin AmbiguousReviewers(l)
      /\ \A at \in SubmittedAt(l, d) : ~Before(Key(a.at, a.review, 0), Key(at, d.review, 1))
  BY <1>4, <1>5 DEF ActiveReceipts, l
<1>8. SubmittedAt(l, d) # {}
  BY <1>4, <1>5, <1>7 DEF AmbiguousReviewers
<1>9. ~Before(Key(a.at, a.review, 0), Key(r.at, r.review, 1))
  BY <1>2, <1>6, <1>7, <1>8
<1>10. a.at \in Nat /\ a.review \in Nat /\ r.at \in Nat /\ r.review \in Nat
  <2>1. PICK q \in github.reviews : Submits(a, q)
    BY <1>1, <1>7 DEF LedgerHolds
  <2> QED
    BY <2>1 DEF Submits, Tells, LedgerInv, ReviewsHold
<1> QED
  BY <1>9, <1>10 DEF Before, Key, Order

\* Two different reviews are ordered.
LEMMA ReviewsAreOrdered ==
    ASSUME LedgerInv, NEW q \in github.reviews, NEW r \in github.reviews,
           ~Before(Order(r), Order(q)), q # r
    PROVE  ~Before(Key(r.at, r.review, 0), Key(q.at, q.review, 1))
<1>1. q.review # r.review
  BY DEF LedgerInv, ReviewsHold
<1>2. q.at \in Nat /\ r.at \in Nat /\ q.review \in Nat /\ r.review \in Nat
  BY DEF LedgerInv, ReviewsHold
<1> QED
  BY <1>1, <1>2 DEF Before, Key, Order

\* When the ledger has heard of everything, it has a receipt of every completed
\* review and a tombstone of every dismissal.
LEMMA ReceiptsFollow == LedgerInv => ReceiptsSettle
<1> SUFFICES ASSUME LedgerInv, file.state = "ledger",
                    {ev.e : ev \in github.events} \subseteq Payloads(file.ledger)
             PROVE  LET completed == {r \in github.reviews : r.state # "commented"}
                        latest == {r \in completed : \A q \in completed :
                                      q.reviewer = r.reviewer => ~Before(Order(r), Order(q))}
                    IN  {a.review : a \in ActiveReceipts(file.ledger)}
                          = {r.review : r \in latest} \ github.dismissed
  BY DEF ReceiptsSettle
<1> DEFINE l == file.ledger
           completed == {r \in github.reviews : r.state # "commented"}
           latest == {r \in completed : \A q \in completed :
                         q.reviewer = r.reviewer => ~Before(Order(r), Order(q))}
<1>1. LedgerHolds(l) /\ \A ev \in github.events : ev.e \in Payloads(l)
  BY DEF LedgerInv, FilesHold
<1> HIDE DEF l
<1>2. \A a \in l.receipts : \E q \in completed : Submits(a, q)
  BY <1>1 DEF LedgerHolds
<1>3. ASSUME NEW q \in completed PROVE \E a \in l.receipts : Submits(a, q)
  <2>1. PICK ev \in github.events : ev.e.kind = "submitted" /\ ev.e.review = q.review
    BY DEF LedgerInv, EventsHold
  <2>2. ev.e.state # "commented"
    BY <2>1 DEF LedgerInv, EventsHold, ReviewsHold, Submits, Tells
  <2>3. PICK a \in l.receipts : a.review = ev.e.review
    BY <1>1, <2>1, <2>2 DEF LedgerHolds
  <2> QED
    BY <1>2, <2>1, <2>3 DEF Submits, Tells, LedgerInv, ReviewsHold
<1>4. ASSUME NEW q \in github.reviews, q.review \in github.dismissed
      PROVE  \E d \in l.dismissals : Dismisses(d, q)
  <2>1. PICK ev \in github.events : ev.e.kind = "dismissed" /\ ev.e.review = q.review
    BY <1>4 DEF LedgerInv, EventsHold
  <2>2. PICK d \in l.dismissals : d.review = ev.e.review
    BY <1>1, <2>1 DEF LedgerHolds
  <2> QED
    BY <1>1, <2>1, <2>2 DEF LedgerHolds, Dismisses, Tells, LedgerInv, ReviewsHold
<1>5. ASSUME NEW d \in l.dismissals
      PROVE  \E q \in completed : Dismisses(d, q) /\ q.review \in github.dismissed
                                  /\ SubmittedAt(l, d) = {q.at}
  <2>1. PICK q \in github.reviews : Dismisses(d, q) /\ q.review \in github.dismissed
    BY <1>1 DEF LedgerHolds
  <2>2. q \in completed /\ q.review = d.review
    BY <2>1 DEF Dismisses, Tells
  <2>3. PICK a \in l.receipts : Submits(a, q)
    BY <1>3, <2>2
  <2>4. SubmittedAt(l, d) # {}
    BY <2>2, <2>3 DEF SubmittedAt, Submits, Tells
  <2>5. SubmittedAt(l, d) \subseteq {q.at}
    BY <1>1, <2>2, SubmittedAtIsTrue
  <2> QED
    BY <2>1, <2>2, <2>4, <2>5
<1>6. AmbiguousReviewers(l) = {}
  BY <1>5 DEF AmbiguousReviewers
<1>7. ASSUME NEW a \in ActiveReceipts(l)
      PROVE  a.review \in {r.review : r \in latest} \ github.dismissed
  <2>1. PICK q \in completed : Submits(a, q)
    BY <1>2 DEF ActiveReceipts
  <2>2. a.review = q.review /\ a.at = q.at /\ a.reviewer = q.reviewer
    BY <2>1 DEF Submits, Tells
  <2>3. ASSUME NEW p \in completed, p.reviewer = q.reviewer PROVE ~Before(Order(q), Order(p))
    <3>1. PICK b \in l.receipts : Submits(b, p)
      BY <1>3
    <3> QED
      BY <2>2, <2>3, <3>1 DEF ActiveReceipts, Submits, Tells, Order, Key
  <2>4. q.review \notin github.dismissed
    <3> SUFFICES ASSUME q.review \in github.dismissed PROVE FALSE
      OBVIOUS
    <3>1. PICK d \in l.dismissals : Dismisses(d, q)
      BY <1>4
    <3>2. SubmittedAt(l, d) = {q.at}
      BY <1>5, <3>1 DEF Dismisses, Tells, LedgerInv, ReviewsHold
    <3>3. ~Before(Key(a.at, a.review, 0), Key(q.at, d.review, 1))
      BY <2>2, <3>1, <3>2 DEF ActiveReceipts, Dismisses, Tells
    <3> QED
      BY <2>2, <3>1, <3>3 DEF Before, Key, Dismisses, Tells
  <2> QED
    BY <2>2, <2>3, <2>4
<1>8. ASSUME NEW q \in latest, q.review \notin github.dismissed
      PROVE  \E a \in ActiveReceipts(l) : a.review = q.review
  <2>1. PICK a \in l.receipts : Submits(a, q)
    BY <1>3
  <2>2. a.review = q.review /\ a.at = q.at /\ a.reviewer = q.reviewer
    BY <2>1 DEF Submits, Tells
  <2>3. ASSUME NEW b \in l.receipts, b.reviewer = a.reviewer
        PROVE  ~Before(Key(a.at, a.review, 0), Key(b.at, b.review, 0))
    <3>1. PICK p \in completed : Submits(b, p)
      BY <1>2
    <3>2. ~Before(Order(q), Order(p))
      BY <2>2, <2>3, <3>1 DEF Submits, Tells
    <3> QED
      BY <2>2, <3>1, <3>2 DEF Submits, Tells, Order, Key
  <2>4. ASSUME NEW d \in l.dismissals, d.reviewer = a.reviewer, NEW at \in SubmittedAt(l, d)
        PROVE  ~Before(Key(a.at, a.review, 0), Key(at, d.review, 1))
    <3>1. PICK p \in completed : Dismisses(d, p) /\ p.review \in github.dismissed
                                 /\ SubmittedAt(l, d) = {p.at}
      BY <1>5
    <3>2. p # q /\ at = p.at /\ d.review = p.review /\ ~Before(Order(q), Order(p))
      BY <1>8, <2>2, <2>4, <3>1 DEF Dismisses, Tells
    <3> QED
      BY <2>2, <3>2, ReviewsAreOrdered
  <2>5. a \in ActiveReceipts(l)
    BY <1>6, <2>1, <2>3, <2>4 DEF ActiveReceipts
  <2> QED
    BY <2>2, <2>5
<1> QED
  BY <1>7, <1>8 DEF l

\* Whatever GitHub does and in whatever order, however often and with whatever
\* left out its webhooks arrive, the receipts that the ledger counts never
\* contradict a dismissal it knows of and are each reviewer's latest completed
\* review once it has heard of everything (GithubReviewLedger::active_receipts).
THEOREM ReceiptsAreRight == Spec => []ReceiptsHold
<1>1. LedgerInv => ReceiptsHold
  BY TombstonesFollow, ReceiptsFollow DEF ReceiptsHold
<1> QED
  BY <1>1, LedgerInit, LedgerStep, PTL DEF Spec

-----------------------------------------------------------------------------
(* Pages.                                                                  *)

\* How many members are in front of m.
Rank(S, m) == Cardinality({n \in S : n < m})

\* The ranks of a finite set are different, and go without a gap from zero.
LEMMA RanksFill ==
    ASSUME NEW S \in SUBSET Nat, IsFiniteSet(S)
    PROVE  /\ \A m \in S : Rank(S, m) \in 0 .. Cardinality(S) - 1
           /\ \A m, n \in S : Rank(S, m) = Rank(S, n) => m = n
           /\ \A k \in 0 .. Cardinality(S) - 1 : \E m \in S : Rank(S, m) = k
<1> DEFINE N == Cardinality(S)
           T == 0 .. N - 1
           rank == [m \in S |-> Rank(S, m)]
<1>1. N \in Nat
  BY FS_CardinalityType
<1>2. \A m \in S : IsFiniteSet({n \in S : n < m}) /\ Rank(S, m) \in Nat /\ Rank(S, m) < N
  <2> TAKE m \in S
  <2> DEFINE L == {n \in S : n < m}
  <2>1. L \in SUBSET S /\ m \notin L
    OBVIOUS
  <2>2. IsFiniteSet(L) /\ Cardinality(L) <= Cardinality(S) /\ (Cardinality(S) = Cardinality(L) => S = L)
    BY <2>1, FS_Subset
  <2>3. Cardinality(L) \in Nat
    BY <2>2, FS_CardinalityType
  <2> QED
    BY <1>1, <2>1, <2>2, <2>3 DEF Rank
<1>3. ASSUME NEW m \in S, NEW n \in S, m < n PROVE Rank(S, m) < Rank(S, n)
  <2> DEFINE L == {x \in S : x < m}
             U == {x \in S : x < n}
  <2>0. m \in Nat /\ n \in Nat /\ \A x \in S : x \in Nat /\ (x < m => x < n)
    BY <1>3
  <2>1. L \in SUBSET U /\ m \in U /\ m \notin L
    <3>1. m \in U /\ m \notin L
      BY <1>3, <2>0
    <3>2. \A x \in L : x \in U
      BY <2>0
    <3> QED
      BY <3>1, <3>2
  <2>2. IsFiniteSet(U) /\ Cardinality(U) \in Nat /\ Cardinality(L) \in Nat
    BY <1>2 DEF Rank
  <2>3. Cardinality(L) <= Cardinality(U) /\ (Cardinality(U) = Cardinality(L) => U = L)
    BY <2>1, <2>2, FS_Subset
  <2> QED
    BY <2>1, <2>2, <2>3 DEF Rank
<1>4. \A m, n \in S : Rank(S, m) = Rank(S, n) => m = n
  <2> SUFFICES ASSUME NEW m \in S, NEW n \in S, m # n PROVE Rank(S, m) # Rank(S, n)
    OBVIOUS
  <2>1. m < n \/ n < m
    OBVIOUS
  <2>2. Rank(S, m) \in Nat /\ Rank(S, n) \in Nat
    BY <1>2
  <2> QED
    BY <1>3, <2>1, <2>2
<1>9. \A m \in S : Rank(S, m) \in T
  <2> TAKE m \in S
  <2>1. Rank(S, m) \in Nat /\ Rank(S, m) < N
    BY <1>2
  <2> HIDE DEF N
  <2> QED
    BY <1>1, <2>1
<1>5. rank \in Injection(S, T)
  <2>2. rank \in [S -> T]
    BY <1>9
  <2>3. IsInjective(rank)
    BY <1>4 DEF IsInjective
  <2> QED
    BY <2>2, <2>3 DEF Injection
<1>6. IsFiniteSet(T) /\ Cardinality(T) = N
  <2> HIDE DEF N
  <2> QED
    BY <1>1, FS_Interval
<1>7. rank \in Surjection(S, T)
  BY <1>5, <1>6, FS_Injection
<1>8. \A k \in T : \E m \in S : rank[m] = k
  BY <1>7 DEF Surjection
<1> QED
  BY <1>4, <1>8, <1>9

\* A page that is not full is the last one.
LEMMA ShortPage ==
    ASSUME NEW a, a.members \in SUBSET Nat, IsFiniteSet(a.members), NEW page \in Nat \ {0},
           Cardinality(MembersPage(a, page)) < PageSize
    PROVE  \A m \in a.members : Rank(a.members, m) < page * PageSize
<1> DEFINE S == a.members
           P == MembersPage(a, page)
           lo == (page - 1) * PageSize
           hi == page * PageSize
<1>1. lo \in Nat /\ hi \in Nat /\ hi = lo + PageSize /\ PageSize \in Nat \ {0}
  BY OwnersAssumption
<1>2. P = {m \in S : lo <= Rank(S, m) /\ Rank(S, m) < hi}
  BY DEF MembersPage, Rank
<1> HIDE DEF lo, hi
<1> SUFFICES ASSUME NEW m0 \in S, Rank(S, m0) >= hi PROVE FALSE
  <2>1. \A m \in S : Rank(S, m) \in Nat
    BY RanksFill
  <2> QED
    BY <1>1, <2>1 DEF hi
<1>3. Cardinality(S) \in Nat /\ \A m \in S : Rank(S, m) \in 0 .. Cardinality(S) - 1
  BY RanksFill, FS_CardinalityType
<1>4. Cardinality(S) > hi
  BY <1>1, <1>3
<1> DEFINE T == lo .. hi - 1
           rank == [m \in P |-> Rank(S, m)]
<1>5. T \subseteq 0 .. Cardinality(S) - 1
  BY <1>1, <1>3, <1>4
<1>6. rank \in Surjection(P, T)
  <2>1. rank \in [P -> T]
    BY <1>1, <1>2, <1>3
  <2>2. \A k \in T : \E m \in P : rank[m] = k
    <3> TAKE k \in T
    <3>1. PICK m \in S : Rank(S, m) = k
      BY <1>5, RanksFill
    <3>2. m \in P
      BY <1>1, <1>2, <3>1
    <3> QED
      BY <3>1, <3>2
  <2> QED
    BY <2>1, <2>2 DEF Surjection
<1>7. IsFiniteSet(P)
  <2>1. P \in SUBSET S
    BY <1>2
  <2> QED
    BY <2>1, FS_Subset
<1>8. Cardinality(T) <= Cardinality(P)
  BY <1>6, <1>7, FS_Surjection
<1>9. Cardinality(T) = PageSize
  BY <1>1, FS_Interval
<1>10. Cardinality(P) \in Nat
  BY <1>7, FS_CardinalityType
<1> QED
  BY <1>1, <1>8, <1>9, <1>10


-----------------------------------------------------------------------------
(* The two observations of a collection.                                   *)

\* The facts that a snapshot depends on, and those that a collection notes.
Facts ==
    {<<"repo", 0>>, <<"team", 0>>, <<"members", 0>>} \cup {<<"login", u>> : u \in Users}
        \cup {<<"user", u>> : u \in Users}
Noted == Facts \cup {<<"closed", 0>>}

Changed(c) == {c.changed[i] : i \in DOMAIN c.changed}

\* No fact has changed twice.
Once(c) == \A i, j \in DOMAIN c.changed : c.changed[i] = c.changed[j] => i = j

\* a and b agree on a fact.
Same(f, a, b) ==
    /\ f[1] = "repo" => a.repo = b.repo
    /\ f[1] = "team" => a.team = b.team
    /\ f[1] = "members" => a.members = b.members
    /\ f[1] = "login" => a.login[f[2]] = b.login[f[2]]
    /\ f[1] = "user" => a.answer[f[2]] = b.answer[f[2]]

TeamPermission(a) == PermissionFromBits(a.team.yes, a.team.no, a.team.role)

RowIds(c) == {r.id : r \in c.obs.rows}

\* The logins whose permission is read.
Names(c) == c.plan.users \cup {r.login : r \in c.obs.rows}

\* What has been read so far agrees with a on a fact.
ReadsTeam(c, a) == \A t \in c.obs.teams : {t.perm} = TeamPermission(a)
ReadsMembers(c, a) ==
    /\ c.pc = "members" =>
          RowIds(c) = {m \in a.members : Rank(a.members, m) < (c.page - 1) * PageSize}
    /\ c.pc = "users" /\ c.plan.teams # {} => RowIds(c) = a.members
ReadsLogin(u, c, a) ==
    /\ \A r \in c.obs.rows : r.id = u => r.login = a.login[u]
    /\ \A x \in c.obs.users : x.id = u <=> x.login = a.login[u]
ReadsAnswer(u, c, a) ==
    \A x \in c.obs.users : x.id = u => {x.perm} = PermissionFromUser(a.answer[u])
Reads(f, c, a) ==
    c.pc # "repo" =>
        /\ f[1] = "repo" => c.obs.repo = a.repo
        /\ f[1] = "team" => ReadsTeam(c, a)
        /\ f[1] = "members" => ReadsMembers(c, a)
        /\ f[1] = "login" => ReadsLogin(f[2], c, a)
        /\ f[1] = "user" => ReadsAnswer(f[2], c, a)

\* A snapshot agrees with a on a fact.
RightLogin(u, s, plan, a) ==
    /\ \A x \in s.users : x.id = u => x.login = a.login[u]
    /\ (\E x \in s.users : x.id = u) <=>
          (a.login[u] \in plan.users \/ \E t \in s.teams : u \in t.members)
Right(f, s, plan, a) ==
    /\ f[1] = "repo" => s.repo = a.repo
    /\ f[1] = "team" => \A t \in s.teams : {t.perm} = TeamPermission(a)
    /\ f[1] = "members" => \A t \in s.teams : t.members = a.members
    /\ f[1] = "login" => RightLogin(f[2], s, plan, a)
    /\ f[1] = "user" => \A x \in s.users :
                            x.id = f[2] => {x.perm} = PermissionFromUser(a.answer[f[2]])

\* Teams that were read at one time, and users.
TeamsOf(plan, perm, members) ==
    {[slug |-> t, closed |-> TRUE, perm |-> perm, members |-> members] : t \in plan.teams}
AUser(x) == x = [id |-> x.id, login |-> x.login, perm |-> x.perm] /\ x.id \in Users

SnapshotShape(s, plan) ==
    /\ \A x \in s.users : AUser(x)
    /\ \E perm \in Standard : \E t \in SUBSET Users : s.teams = TeamsOf(plan, perm, t)

\* How an observation grows, whatever GitHub answers.
BeforeMembers(c) ==
    /\ c.plan.teams # {}
    /\ c.obs.users = {} /\ c.pending = c.plan.users
    /\ c.pc # "members" => c.obs.teams = {} /\ c.obs.rows = {}
OfUsers(c) ==
    /\ c.pending \subseteq Names(c)
    /\ \A n \in Names(c) : n \in c.pending \/ \E x \in c.obs.users : x.login = n
    /\ \A x \in c.obs.users :
          AUser(x) /\ x.login \in Names(c) /\ \A r \in c.obs.rows : r.login = x.login => r.id = x.id
    /\ c.plan.teams = {} => c.obs.rows = {}
ObservationShape(c) ==
    /\ \A r \in c.obs.rows : r.id \in Users /\ r.login \in Nat
    /\ c.pc \in {"team", "team_repo", "members"} => BeforeMembers(c)
    /\ c.pc \in {"members", "users"} =>
          \E perm \in Standard : c.obs.teams = TeamsOf(c.plan, perm, RowIds(c))
    /\ c.pc = "users" => OfUsers(c)

CollectorFields ==
    {"pc", "plan", "base", "obs", "first", "page", "pending", "requests", "changed", "truth"}
CollectorShape(c) ==
    /\ DOMAIN c = CollectorFields /\ DOMAIN c.obs = {"repo", "teams", "rows", "users"}
    /\ c.pc \in {"repo", "team", "team_repo", "members", "users"}
    /\ c.plan.users \subseteq Nat
    /\ c.page \in Nat \ {0}
    /\ c.changed \in Seq(Noted)
    /\ c.truth \subseteq Accesses
    /\ c.pc # "repo" => ObservationShape(c)

\* Until the end of the first observation, every fact that has not changed is
\* read right.  From then on every fact is either right in the first
\* observation or has changed before its end, and is then read right again.
Honest(c, a) ==
    /\ c.first = {} => \A f \in Facts : f \in Changed(c) \/ Reads(f, c, a)
    /\ \A s \in c.first, b \in c.truth :
          /\ SnapshotShape(s, c.plan)
          /\ \A f \in Facts : \/ Right(f, s, c.plan, b)
                              \/ f \in Changed(c) /\ Same(f, a, b) /\ Reads(f, c, a)

\* The inductive invariant of a collection.
CollectInv ==
    /\ github.base \in Bases
    /\ access \in Accesses
    /\ Collecting => CollectorShape(collector)
    /\ Collecting /\ Once(collector) => Honest(collector, access)
    /\ SnapshotWasReal


\* An answer about a permission is refused or means one permission.
LEMMA OnePermission ==
    /\ \A yes, no, role : \A p \in PermissionFromBits(yes, no, role) :
          p \in Standard /\ PermissionFromBits(yes, no, role) = {p}
    /\ \A answer : \A p \in PermissionFromUser(answer) : PermissionFromUser(answer) = {p}
<1>1. ASSUME NEW yes, NEW no, NEW role, NEW p \in PermissionFromBits(yes, no, role)
      PROVE  p \in Standard /\ PermissionFromBits(yes, no, role) = {p}
  BY DEF PermissionFromBits, Standard, LegacyBase
<1>2. ASSUME NEW answer, NEW p \in PermissionFromUser(answer) PROVE PermissionFromUser(answer) = {p}
  BY DEF PermissionFromUser
<1> QED
  BY <1>1, <1>2

\* The least name that is left is one of them.
LEMMA MinIsThere ==
    ASSUME NEW S \in SUBSET Nat, S # {}
    PROVE  Min(S) \in S
<1> DEFINE R == {ss \in Nat \X Nat : ss[1] < ss[2]}
<1>1. IsWellFoundedOn(R, Nat)
  BY NatLessThanWellFounded DEF OpToRel
<1> HIDE DEF R
<1>2. PICK x \in S : \A y \in S : ~(<<y, x>> \in R)
  BY <1>1, WFMin
<1>3. \A y \in S : x \in Nat /\ y \in Nat /\ ~(y < x)
  BY <1>2 DEF R
<1>4. \A y \in S : x <= y
  BY <1>3
<1> QED
  BY <1>4 DEF Min

\* Members are people, and there are finitely many.
LEMMA MembersAreFinite ==
    ASSUME NEW a \in Accesses
    PROVE  /\ a.members \in SUBSET Users /\ a.members \in SUBSET Nat /\ IsFiniteSet(a.members)
           /\ \A m \in a.members : Rank(a.members, m) \in Nat
<1>1. a.members \in SUBSET Users
  BY DEF Accesses
<1>2. IsFiniteSet(a.members) /\ a.members \in SUBSET Nat
  BY <1>1, GateAssumption, FS_Subset
<1>3. \A m \in a.members : Rank(a.members, m) \in Nat
  BY <1>2, RanksFill
<1> QED
  BY <1>1, <1>2, <1>3

\* What a request does not touch.
Keeps(c, d) ==
    /\ DOMAIN d = CollectorFields /\ DOMAIN d.obs = {"repo", "teams", "rows", "users"}
    /\ d.plan = c.plan /\ d.first = c.first /\ d.truth = c.truth /\ d.changed = c.changed

\* A request that reads right what it reads.
Progress(c, d, a) ==
    /\ CollectorShape(d)
    /\ \A f \in Facts : Reads(f, c, a) => Reads(f, d, a)

LEMMA RepoProgress ==
    ASSUME NEW c, NEW d, NEW a \in Accesses, CollectorShape(c), Keeps(c, d),
           d.obs.repo = a.repo, d.obs.teams = {}, d.obs.rows = {}, d.obs.users = {},
           d.pending = c.plan.users, d.page = c.page,
           d.pc = IF c.plan.teams = {} THEN "users" ELSE "team"
    PROVE  Progress(c, d, a)
<1>1. ObservationShape(d)
  <2>1. d.pc \in {"team", "team_repo", "members"} => BeforeMembers(d)
    BY DEF BeforeMembers, Keeps
  <2>2. RowIds(d) = {} /\ Names(d) = d.plan.users
    BY DEF RowIds, Names
  <2>3. d.pc = "users" => OfUsers(d)
    BY <2>2 DEF OfUsers, Keeps
  <2>4. d.pc = "users" => d.obs.teams = TeamsOf(d.plan, "read", RowIds(d))
    BY <2>2 DEF TeamsOf, Keeps
  <2>5. d.pc = "users" \/ d.pc = "team"
    OBVIOUS
  <2> QED
    BY <2>1, <2>3, <2>4, <2>5 DEF ObservationShape, Standard
<1>2. CollectorShape(d)
  BY <1>1 DEF CollectorShape, Keeps
<1>3. \A f \in Facts : Reads(f, d, a)
  BY DEF Reads, ReadsTeam, ReadsMembers, ReadsLogin, ReadsAnswer, Keeps
<1> QED
  BY <1>2, <1>3 DEF Progress

LEMMA TeamProgress ==
    ASSUME NEW c, NEW d, NEW a \in Accesses, CollectorShape(c), Keeps(c, d), c.pc = "team",
           d.obs = c.obs, d.pending = c.pending, d.page = c.page, d.pc = "team_repo"
    PROVE  Progress(c, d, a)
<1>1. BeforeMembers(d)
  BY DEF CollectorShape, ObservationShape, BeforeMembers, Keeps
<1>2. ObservationShape(d)
  BY <1>1 DEF CollectorShape, ObservationShape
<1>3. CollectorShape(d)
  BY <1>2 DEF CollectorShape, Keeps
<1>4. \A f \in Facts : Reads(f, c, a) => Reads(f, d, a)
  BY DEF Reads, ReadsTeam, ReadsMembers, ReadsLogin, ReadsAnswer
<1> QED
  BY <1>3, <1>4 DEF Progress

LEMMA TeamRepoProgress ==
    ASSUME NEW c, NEW d, NEW a \in Accesses, CollectorShape(c), Keeps(c, d), c.pc = "team_repo",
           NEW perm \in TeamPermission(a),
           d.obs.teams = TeamsOf(c.plan, perm, {}), d.obs.rows = c.obs.rows,
           d.obs.users = c.obs.users, d.obs.repo = c.obs.repo,
           d.pending = c.pending, d.page = 1, d.pc = "members"
    PROVE  Progress(c, d, a)
<1>1. BeforeMembers(c) /\ c.obs.rows = {}
  BY DEF CollectorShape, ObservationShape, BeforeMembers
<1>2. RowIds(d) = {}
  BY <1>1 DEF RowIds
<1>3. perm \in Standard /\ {perm} = TeamPermission(a)
  BY OnePermission DEF TeamPermission
<1>4. ObservationShape(d)
  <2>1. BeforeMembers(d)
    BY <1>1 DEF BeforeMembers, Keeps
  <2>2. d.obs.teams = TeamsOf(d.plan, perm, RowIds(d))
    BY <1>2 DEF Keeps
  <2> QED
    BY <1>1, <1>3, <2>1, <2>2 DEF ObservationShape
<1>5. CollectorShape(d)
  BY <1>4 DEF CollectorShape, Keeps
<1>6. ReadsTeam(d, a)
  BY <1>3 DEF ReadsTeam, TeamsOf
<1>7. ReadsMembers(d, a)
  <2>1. \A m \in a.members : ~(Rank(a.members, m) < (d.page - 1) * PageSize)
    BY MembersAreFinite, OwnersAssumption
  <2> QED
    BY <1>2, <2>1 DEF ReadsMembers
<1>8. \A f \in Facts : Reads(f, c, a) => Reads(f, d, a)
  BY <1>6, <1>7 DEF Reads, ReadsLogin, ReadsAnswer
<1> QED
  BY <1>5, <1>8 DEF Progress


\* A page of the members' list: the members in front of the next page have
\* been read, and after a page that is not full there is none.
LEMMA MembersProgress ==
    ASSUME NEW c, NEW d, NEW a \in Accesses, CollectorShape(c), Keeps(c, d), c.pc = "members",
           NEW ids, ids = MembersPage(a, c.page),
           d.obs.rows = c.obs.rows \cup {[id |-> i, login |-> a.login[i]] : i \in ids},
           d.obs.teams = {[t EXCEPT !.members = RowIds(d)] : t \in c.obs.teams},
           d.obs.users = c.obs.users, d.obs.repo = c.obs.repo, d.page = c.page + 1,
           \/ /\ Cardinality(ids) < PageSize /\ d.pc = "users"
              /\ d.pending = c.pending \cup {r.login : r \in d.obs.rows}
           \/ /\ d.pc = "members" /\ d.pending = c.pending
    PROVE  Progress(c, d, a)
<1>1. /\ BeforeMembers(c) /\ c.page \in Nat \ {0}
      /\ \A r \in c.obs.rows : r.id \in Users /\ r.login \in Nat
  BY DEF CollectorShape, ObservationShape
<1>2. PICK perm \in Standard : c.obs.teams = TeamsOf(c.plan, perm, RowIds(c))
  BY DEF CollectorShape, ObservationShape
<1>3. d.obs.teams = TeamsOf(d.plan, perm, RowIds(d))
  <2> DEFINE rec(t, m) == [slug |-> t, closed |-> TRUE, perm |-> perm, members |-> m]
  <2>1. ASSUME NEW t, NEW m, NEW n PROVE [rec(t, m) EXCEPT !.members = n] = rec(t, n)
    <3> DEFINE D == {"slug", "closed", "perm", "members"}
               e == [rec(t, m) EXCEPT !.members = n]
    <3>1. DOMAIN e = D /\ e = [k \in D |-> e[k]]
      OBVIOUS
    <3>2. rec(t, n) = [k \in D |-> rec(t, n)[k]]
      OBVIOUS
    <3>3. \A k \in D : e[k] = rec(t, n)[k]
      <4>1. e.slug = rec(t, n).slug /\ e.perm = rec(t, n).perm /\ e.members = rec(t, n).members
        OBVIOUS
      <4>2. e.closed = rec(t, m).closed /\ rec(t, m).closed = rec(t, n).closed
        OBVIOUS
      <4> QED
        BY <4>1, <4>2
    <3> QED
      BY <3>1, <3>2, <3>3
  <2>2. c.obs.teams = {rec(t, RowIds(c)) : t \in c.plan.teams}
    BY <1>2 DEF TeamsOf
  <2> HIDE DEF rec
  <2>3. d.obs.teams = {rec(t, RowIds(d)) : t \in c.plan.teams}
    BY <2>1, <2>2
  <2> QED
    BY <2>3 DEF TeamsOf, Keeps, rec
<1>4. ids \subseteq a.members /\ a.members \subseteq Users /\ \A i \in ids : a.login[i] \in Nat
  BY DEF MembersPage, Accesses
<1>5. RowIds(d) = RowIds(c) \cup ids
  <2> DEFINE row(i) == [id |-> i, login |-> a.login[i]]
  <2>1. \A i : row(i).id = i
    OBVIOUS
  <2>2. d.obs.rows = c.obs.rows \cup {row(i) : i \in ids}
    OBVIOUS
  <2> HIDE DEF row
  <2> QED
    BY <2>1, <2>2 DEF RowIds
<1>6. ObservationShape(d)
  <2>1. \A r \in d.obs.rows : r.id \in Users /\ r.login \in Nat
    BY <1>1, <1>4
  <2>2. d.pc = "members" => BeforeMembers(d)
    BY <1>1 DEF BeforeMembers, Keeps
  <2>3. d.pc = "users" => OfUsers(d)
    BY <1>1 DEF OfUsers, BeforeMembers, Names, Keeps
  <2>4. d.pc \in {"members", "users"}
    OBVIOUS
  <2> QED
    BY <1>3, <2>1, <2>2, <2>3, <2>4 DEF ObservationShape
<1>7. CollectorShape(d)
  BY <1>1, <1>6 DEF CollectorShape, Keeps
<1>8. ReadsTeam(c, a) => ReadsTeam(d, a)
  BY <1>2, <1>3 DEF ReadsTeam, TeamsOf, Keeps
<1>9. ReadsMembers(c, a) => ReadsMembers(d, a)
  <2> SUFFICES ASSUME RowIds(c) = {m \in a.members : Rank(a.members, m) < (c.page - 1) * PageSize}
               PROVE  ReadsMembers(d, a)
    BY DEF ReadsMembers
  <2> DEFINE lo == (c.page - 1) * PageSize
             hi == c.page * PageSize
  <2>1. lo \in Nat /\ hi \in Nat /\ lo <= hi
    BY <1>1, OwnersAssumption
  <2>2. (d.page - 1) * PageSize = hi
    BY <1>1
  <2>3. ids = {m \in a.members : lo <= Rank(a.members, m) /\ Rank(a.members, m) < hi}
    BY DEF MembersPage, Rank
  <2>4. \A m \in a.members : Rank(a.members, m) \in Nat
    BY MembersAreFinite
  <2> HIDE DEF lo, hi
  <2>5. RowIds(d) = {m \in a.members : Rank(a.members, m) < hi}
    <3>1. RowIds(c) = {m \in a.members : Rank(a.members, m) < lo}
      BY DEF lo
    <3>2. \A m \in a.members : Rank(a.members, m) < hi
              <=> (Rank(a.members, m) < lo \/ (lo <= Rank(a.members, m) /\ Rank(a.members, m) < hi))
      BY <2>1, <2>4
    <3> QED
      BY <1>5, <2>3, <3>1, <3>2
  <2>6. d.pc = "users" => \A m \in a.members : Rank(a.members, m) < hi
    <3>1. d.pc = "users" => Cardinality(MembersPage(a, c.page)) < PageSize
      OBVIOUS
    <3> QED
      BY <1>1, <3>1, MembersAreFinite, ShortPage DEF hi
  <2> QED
    BY <2>2, <2>5, <2>6 DEF ReadsMembers
<1>10. \A u : ReadsLogin(u, c, a) => ReadsLogin(u, d, a)
  <2> SUFFICES ASSUME NEW u, ReadsLogin(u, c, a) PROVE ReadsLogin(u, d, a)
    OBVIOUS
  <2>1. \A r \in d.obs.rows : r.id = u => r.login = a.login[u]
    BY DEF ReadsLogin
  <2> QED
    BY <2>1 DEF ReadsLogin
<1>11. \A f \in Facts : Reads(f, c, a) => Reads(f, d, a)
  BY <1>8, <1>9, <1>10 DEF Reads, ReadsAnswer
<1> QED
  BY <1>7, <1>11 DEF Progress

\* A login is the name of one account, and the answer means one permission.
LEMMA OneAccount ==
    ASSUME NEW a \in Accesses, NEW login, NEW y \in Accounts(a, login)
    PROVE  /\ Accounts(a, login) = {y}
           /\ AUser(y) /\ y.login = login /\ a.login[y.id] = login
           /\ PermissionFromUser(a.answer[y.id]) = {y.perm}
<1>1. ASSUME NEW x \in Accounts(a, login)
      PROVE  /\ AUser(x) /\ x.login = login /\ a.login[x.id] = login
             /\ PermissionFromUser(a.answer[x.id]) = {x.perm}
  <2>1. /\ x \in [id : Users, login : {login}, perm : Standard]
        /\ a.login[x.id] = login /\ x.perm \in PermissionFromUser(a.answer[x.id])
    BY DEF Accounts
  <2>2. AUser(x) /\ x.login = login
    BY <2>1 DEF AUser
  <2> QED
    BY <2>1, <2>2, OnePermission
<1>2. ASSUME NEW x \in Accounts(a, login) PROVE x = y
  <2>1. x.id = y.id
    BY <1>1 DEF AUser, Accesses
  <2>2. x.perm = y.perm /\ x.login = y.login
    <3>1. {x.perm} = {y.perm}
      BY <1>1, <2>1
    <3> QED
      BY <1>1, <3>1
  <2> QED
    BY <1>1, <2>1, <2>2 DEF AUser
<1> QED
  BY <1>1, <1>2

\* The permission of one login: there is one account of that name, and if it
\* is in the list then under the same identifier.
LEMMA UserProgress ==
    ASSUME NEW c, NEW d, NEW a \in Accesses, CollectorShape(c), Keeps(c, d), c.pc = "users",
           NEW login \in c.pending, NEW y \in Accounts(a, login),
           \A r \in c.obs.rows : r.login = login => r.id = y.id,
           d.obs.users = c.obs.users \cup {y}, d.obs.rows = c.obs.rows,
           d.obs.teams = c.obs.teams, d.obs.repo = c.obs.repo,
           d.pending = c.pending \ {login}, d.page = c.page, d.pc = "users"
    PROVE  Progress(c, d, a)
<1>1. OfUsers(c)
  BY DEF CollectorShape, ObservationShape
<1>2. /\ AUser(y) /\ y.login = login /\ a.login[y.id] = login
      /\ PermissionFromUser(a.answer[y.id]) = {y.perm}
  BY OneAccount
<1>6. RowIds(d) = RowIds(c) /\ Names(d) = Names(c)
  BY DEF RowIds, Names, Keeps
<1>7. OfUsers(d)
  <2>1. d.pending \subseteq Names(d)
    BY <1>1, <1>6 DEF OfUsers
  <2>2. \A n \in Names(d) : n \in d.pending \/ \E x \in d.obs.users : x.login = n
    BY <1>1, <1>2, <1>6 DEF OfUsers
  <2>3. ASSUME NEW x \in d.obs.users
        PROVE  /\ AUser(x) /\ x.login \in Names(d)
               /\ \A r \in d.obs.rows : r.login = x.login => r.id = x.id
    BY <1>1, <1>2, <1>6 DEF OfUsers
  <2> QED
    BY <1>1, <2>1, <2>2, <2>3 DEF OfUsers, Keeps
<1>8. CollectorShape(d)
  <2>1. ObservationShape(d)
    BY <1>6, <1>7 DEF ObservationShape, CollectorShape, Keeps
  <2> QED
    BY <2>1 DEF CollectorShape, Keeps
<1>9. \A u \in Users : ReadsLogin(u, c, a) => ReadsLogin(u, d, a)
  <2> SUFFICES ASSUME NEW u \in Users, ReadsLogin(u, c, a) PROVE ReadsLogin(u, d, a)
    OBVIOUS
  <2>1. y.id = u <=> y.login = a.login[u]
    BY <1>2 DEF Accesses, AUser
  <2> QED
    BY <2>1 DEF ReadsLogin
<1>10. \A u : ReadsAnswer(u, c, a) => ReadsAnswer(u, d, a)
  BY <1>2 DEF ReadsAnswer
<1>11. ReadsTeam(c, a) => ReadsTeam(d, a)
  BY DEF ReadsTeam
<1>12. ReadsMembers(c, a) => ReadsMembers(d, a)
  BY <1>6 DEF ReadsMembers, Keeps
<1>13. \A f \in Facts : f[1] = "login" => f[2] \in Users
  BY DEF Facts
<1>14. \A f \in Facts : Reads(f, c, a) => Reads(f, d, a)
  BY <1>9, <1>10, <1>11, <1>12, <1>13 DEF Reads
<1> QED
  BY <1>8, <1>14 DEF Progress

\* At its end an observation is as right as it was read.
LEMMA CompleteIsRight ==
    ASSUME NEW c, CollectorShape(c), c.pc = "users", c.pending = {}, NEW a \in Accesses
    PROVE  /\ SnapshotShape(Snapshot(c), c.plan)
           /\ \A f \in Facts : Reads(f, c, a) => Right(f, Snapshot(c), c.plan, a)
<1>0. /\ Snapshot(c).repo = c.obs.repo /\ Snapshot(c).users = c.obs.users
      /\ Snapshot(c).teams = c.obs.teams
  BY DEF Snapshot
<1>1. OfUsers(c) /\ RowIds(c) \subseteq Users
  BY DEF CollectorShape, ObservationShape, RowIds
<1>2. PICK perm \in Standard : c.obs.teams = TeamsOf(c.plan, perm, RowIds(c))
  BY DEF CollectorShape, ObservationShape
<1>3. SnapshotShape(Snapshot(c), c.plan)
  BY <1>0, <1>1, <1>2 DEF SnapshotShape, OfUsers
<1>4. \A t \in c.obs.teams : t.members = RowIds(c)
  BY <1>2 DEF TeamsOf
<1>5. c.plan.teams # {} => c.obs.teams # {}
  BY <1>2 DEF TeamsOf
<1>6. c.plan.teams = {} => RowIds(c) = {} /\ c.obs.teams = {}
  BY <1>1, <1>2 DEF OfUsers, RowIds, TeamsOf
<1>7. \A u : (\E t \in c.obs.teams : u \in t.members) <=> u \in RowIds(c)
  BY <1>4, <1>5, <1>6
<1>8. ASSUME NEW u \in Users, ReadsLogin(u, c, a) PROVE RightLogin(u, Snapshot(c), c.plan, a)
  <2>1. \A x \in c.obs.users : x.id = u => x.login = a.login[u]
    BY <1>8 DEF ReadsLogin
  <2>2. ASSUME NEW x \in c.obs.users, x.id = u
        PROVE  a.login[u] \in c.plan.users \/ u \in RowIds(c)
    <3>1. a.login[u] \in Names(c) /\ \A r \in c.obs.rows : r.login = a.login[u] => r.id = u
      BY <1>1, <2>1, <2>2 DEF OfUsers
    <3> QED
      BY <3>1 DEF Names, RowIds
  <2>3. ASSUME a.login[u] \in c.plan.users \/ u \in RowIds(c)
        PROVE  \E x \in c.obs.users : x.id = u
    <3>1. a.login[u] \in Names(c)
      BY <1>8, <2>3 DEF Names, RowIds, ReadsLogin
    <3>2. PICK x \in c.obs.users : x.login = a.login[u]
      BY <1>1, <3>1 DEF OfUsers
    <3> QED
      BY <1>8, <3>2 DEF ReadsLogin
  <2> QED
    BY <1>0, <1>7, <2>1, <2>2, <2>3 DEF RightLogin
<1>9. ASSUME ReadsMembers(c, a) PROVE \A t \in c.obs.teams : t.members = a.members
  BY <1>4, <1>6, <1>9 DEF ReadsMembers
<1>10. \A f \in Facts : f[1] = "login" => f[2] \in Users
  BY DEF Facts
<1>11. \A f \in Facts : Reads(f, c, a) => Right(f, Snapshot(c), c.plan, a)
  BY <1>0, <1>8, <1>9, <1>10 DEF Reads, Right, ReadsTeam, ReadsAnswer
<1> QED
  BY <1>3, <1>11


\* A snapshot that is right about every fact is what one look would have found.
LEMMA RightIsReal ==
    ASSUME NEW s, NEW plan, NEW a \in Accesses, SnapshotShape(s, plan),
           \A f \in Facts : Right(f, s, plan, a)
    PROVE  [repo |-> s.repo, users |-> s.users, teams |-> s.teams] = ViewOf(a, plan)
<1>1. PICK perm \in Standard, m \in SUBSET Users : s.teams = TeamsOf(plan, perm, m)
  BY DEF SnapshotShape
<1> DEFINE names == plan.users \cup {a.login[u] : u \in IF plan.teams = {} THEN {} ELSE a.members}
           P(u) == CHOOSE p \in PermissionFromUser(a.answer[u]) : TRUE
           user(u) == [id |-> u, login |-> a.login[u], perm |-> P(u)]
           team == CHOOSE p \in TeamPermission(a) : TRUE
           users == {user(u) : u \in {v \in Users : a.login[v] \in names}}
           teams == TeamsOf(plan, team, a.members)
<1>2. ViewOf(a, plan) = [repo |-> a.repo, users |-> users, teams |-> teams]
  BY DEF ViewOf, TeamsOf, TeamPermission
<1>3. s.repo = a.repo
  <2>1. <<"repo", 0>> \in Facts
    BY DEF Facts
  <2> QED
    BY <2>1 DEF Right
<1>4. \A t \in s.teams : {t.perm} = TeamPermission(a) /\ t.members = a.members
  <2>1. <<"team", 0>> \in Facts /\ <<"members", 0>> \in Facts
    BY DEF Facts
  <2>2. Right(<<"team", 0>>, s, plan, a) /\ Right(<<"members", 0>>, s, plan, a)
    BY <2>1
  <2> QED
    BY <2>2 DEF Right
<1>5. plan.teams # {} => perm = team /\ m = a.members
  <2> SUFFICES ASSUME NEW t \in plan.teams PROVE perm = team /\ m = a.members
    OBVIOUS
  <2> DEFINE x == [slug |-> t, closed |-> TRUE, perm |-> perm, members |-> m]
  <2>1. x \in s.teams /\ x.perm = perm /\ x.members = m
    BY <1>1 DEF TeamsOf
  <2>2. {perm} = TeamPermission(a) /\ m = a.members
    BY <1>4, <2>1
  <2> QED
    BY <2>2
<1>6. s.teams = teams
  BY <1>1, <1>5 DEF TeamsOf
<1>7. \A u : (\E t \in s.teams : u \in t.members) <=> plan.teams # {} /\ u \in a.members
  <2>1. plan.teams # {} => s.teams # {}
    BY <1>1 DEF TeamsOf
  <2>2. plan.teams = {} => s.teams = {}
    BY <1>1 DEF TeamsOf
  <2> QED
    BY <1>4, <2>1, <2>2
<1> HIDE DEF team, teams
<1>8. ASSUME NEW u \in Users
      PROVE  /\ \A x \in s.users : x.id = u => x = user(u)
             /\ (\E x \in s.users : x.id = u) <=> a.login[u] \in names
  <2>1. <<"login", u>> \in Facts /\ <<"user", u>> \in Facts
    BY DEF Facts
  <2>2. Right(<<"login", u>>, s, plan, a) /\ Right(<<"user", u>>, s, plan, a)
    BY <2>1
  <2>3. RightLogin(u, s, plan, a)
    BY <2>2 DEF Right
  <2>4. \A x \in s.users : x.id = u => {x.perm} = PermissionFromUser(a.answer[u])
    BY <2>2 DEF Right
  <2>5. ASSUME NEW x \in s.users, x.id = u PROVE x = user(u)
    <3>1. x.login = a.login[u]
      BY <2>3, <2>5 DEF RightLogin
    <3>2. x.perm = P(u)
      <4>1. {x.perm} = PermissionFromUser(a.answer[u])
        BY <2>4, <2>5
      <4> QED
        BY <4>1
    <3>3. x = [id |-> x.id, login |-> x.login, perm |-> x.perm]
      BY DEF SnapshotShape, AUser
    <3> HIDE DEF P
    <3> QED
      BY <2>5, <3>1, <3>2, <3>3
  <2>6. (plan.teams # {} /\ u \in a.members) =>
          a.login[u] \in {a.login[v] : v \in IF plan.teams = {} THEN {} ELSE a.members}
    OBVIOUS
  <2>7. ASSUME a.login[u] \in {a.login[v] : v \in IF plan.teams = {} THEN {} ELSE a.members}
        PROVE  plan.teams # {} /\ u \in a.members
    <3>1. PICK v \in IF plan.teams = {} THEN {} ELSE a.members : a.login[u] = a.login[v]
      BY <2>7
    <3>2. plan.teams # {} /\ v \in a.members
      OBVIOUS
    <3>3. u = v
      BY <3>1, <3>2 DEF Accesses
    <3> QED
      BY <3>2, <3>3
  <2>8. (\E x \in s.users : x.id = u) <=> a.login[u] \in names
    BY <1>7, <2>3, <2>6, <2>7 DEF RightLogin
  <2> QED
    BY <2>5, <2>8
<1>9. s.users = users
  <2>1. \A u : user(u).id = u
    OBVIOUS
  <2>2. \A x \in s.users : x.id \in Users
    BY DEF SnapshotShape, AUser
  <2> HIDE DEF user, names
  <2>3. ASSUME NEW x \in s.users PROVE x \in users
    <3>1. x = user(x.id) /\ a.login[x.id] \in names /\ x.id \in Users
      BY <1>8, <2>2
    <3> QED
      BY <3>1
  <2>4. ASSUME NEW u \in Users, a.login[u] \in names PROVE user(u) \in s.users
    BY <1>8, <2>4
  <2> QED
    BY <2>3, <2>4
<1> QED
  BY <1>2, <1>3, <1>6, <1>9

\* A change is noted, and a second change of the same fact shows.
LEMMA ChangeIsNoted ==
    ASSUME NEW c, NEW d, NEW fact \in Noted, c.changed \in Seq(Noted),
           d.changed = c.changed \o <<fact>>
    PROVE  /\ d.changed \in Seq(Noted)
           /\ Changed(c) \subseteq Changed(d) /\ fact \in Changed(d)
           /\ Once(d) => Once(c) /\ fact \notin Changed(c)
<1> DEFINE s == c.changed
           t == d.changed
           n == Len(s)
<1>1. s \in Seq(Noted) /\ n \in Nat /\ DOMAIN s = 1..n
  OBVIOUS
<1>2. t \in Seq(Noted) /\ DOMAIN t = 1..n + 1 /\ t[n + 1] = fact /\ \A i \in 1..n : t[i] = s[i]
  OBVIOUS
<1> HIDE DEF s, t, n
<1>3. Changed(c) = {s[i] : i \in 1..n} /\ Changed(d) = {t[i] : i \in 1..n + 1}
  BY <1>1, <1>2 DEF Changed, s, t
<1>4. \A i \in 1..n : i \in 1..n + 1 /\ i # n + 1
  BY <1>1
<1>5. n + 1 \in 1..n + 1
  BY <1>1
<1>6. Changed(c) \subseteq Changed(d) /\ fact \in Changed(d)
  BY <1>2, <1>3, <1>4, <1>5
<1>7. ASSUME Once(d) PROVE Once(c) /\ fact \notin Changed(c)
  <2>1. \A i, j \in 1..n + 1 : t[i] = t[j] => i = j
    BY <1>2, <1>7 DEF Once, t
  <2>2. \A i, j \in 1..n : s[i] = s[j] => i = j
    BY <1>2, <1>4, <2>1
  <2>3. \A i \in 1..n : s[i] # fact
    BY <1>2, <1>4, <1>5, <2>1
  <2>4. Once(c)
    BY <1>1, <2>2 DEF Once, s
  <2> QED
    BY <1>3, <2>3, <2>4
<1> QED
  BY <1>2, <1>6, <1>7 DEF t

\* One fact changes and the others stay.
LEMMA OneFact ==
    ASSUME access \in Accesses, ChangeAccess
    PROVE  /\ access' \in Accesses
           /\ UNCHANGED <<github, snapshot>>
           /\ \E fact \in Noted :
                 /\ collector' = IF Collecting
                                 THEN [collector EXCEPT !.changed = collector.changed \o <<fact>>]
                                 ELSE collector
                 /\ \A f \in Facts : f # fact => Same(f, access, access')
<1> DEFINE T == [repo : Nat, closed : BOOLEAN, team : TeamAnswers, members : SUBSET Users,
                 login : [Users -> Nat], answer : [Users -> Answers]]
           Concl(fact) == \A f \in Facts : f # fact => Same(f, access, access')
<1>1. access \in T /\ \A u, v \in Users : access.login[u] = access.login[v] => u = v
  BY DEF Accesses
<1>2. ASSUME NEW fact \in Noted, NEW next, Turn(fact, next), next \in Accesses, Concl(fact)
      PROVE  /\ access' \in Accesses
             /\ UNCHANGED <<github, snapshot>>
             /\ \E g \in Noted :
                   /\ collector' = IF Collecting
                                   THEN [collector EXCEPT !.changed = collector.changed \o <<g>>]
                                   ELSE collector
                   /\ \A f \in Facts : f # g => Same(f, access, access')
  BY <1>2 DEF Turn
<1>3. CASE \E x \in TeamAnswers : Turn(<<"team", 0>>, [access EXCEPT !.team = x])
  <2>1. PICK x \in TeamAnswers : Turn(<<"team", 0>>, [access EXCEPT !.team = x])
    BY <1>3
  <2>2. [access EXCEPT !.team = x] \in Accesses
    BY <1>1 DEF Accesses
  <2>3. access' = [access EXCEPT !.team = x]
    BY <2>1 DEF Turn
  <2>4. Concl(<<"team", 0>>)
    BY <1>1, <2>3 DEF Facts, Same
  <2>5. <<"team", 0>> \in Noted
    BY DEF Noted, Facts
  <2> QED
    BY <1>2, <2>1, <2>2, <2>4, <2>5
<1>4. CASE \E u \in Users : Turn(<<"members", 0>>,
                                 [access EXCEPT !.members = SymDiff(access.members, {u})])
  <2>1. PICK u \in Users : Turn(<<"members", 0>>,
                                [access EXCEPT !.members = SymDiff(access.members, {u})])
    BY <1>4
  <2> DEFINE new == SymDiff(access.members, {u})
  <2>0. new \in SUBSET Users
    BY <1>1 DEF SymDiff
  <2> HIDE DEF new
  <2>2. [access EXCEPT !.members = new] \in Accesses
    BY <1>1, <2>0 DEF Accesses
  <2>3. access' = [access EXCEPT !.members = new]
    BY <2>1 DEF Turn, new
  <2>4. Concl(<<"members", 0>>)
    BY <1>1, <2>3 DEF Facts, Same
  <2>5. <<"members", 0>> \in Noted
    BY DEF Noted, Facts
  <2> QED
    BY <1>2, <2>1, <2>2, <2>4, <2>5 DEF new
<1>5. CASE \E u \in Users, x \in Answers : Turn(<<"user", u>>, [access EXCEPT !.answer[u] = x])
  <2>1. PICK u \in Users, x \in Answers : Turn(<<"user", u>>, [access EXCEPT !.answer[u] = x])
    BY <1>5
  <2>2. [access EXCEPT !.answer[u] = x] \in Accesses
    BY <1>1 DEF Accesses
  <2>3. access' = [access EXCEPT !.answer[u] = x]
    BY <2>1 DEF Turn
  <2>4. Concl(<<"user", u>>)
    <3>1. /\ access'.repo = access.repo /\ access'.team = access.team
          /\ access'.members = access.members /\ access'.login = access.login
          /\ \A v \in Users : v # u => access'.answer[v] = access.answer[v]
      BY <1>1, <2>3
    <3> QED
      BY <3>1 DEF Facts, Same
  <2>5. <<"user", u>> \in Noted
    BY DEF Noted, Facts
  <2> QED
    BY <1>2, <2>1, <2>2, <2>4, <2>5
<1>6. CASE \E u \in Users :
             LET name == access.login[u] + Cardinality(Users)
             IN  /\ \A v \in Users : access.login[v] # name
                 /\ Turn(<<"login", u>>, [access EXCEPT !.login[u] = name])
  <2>1. PICK u \in Users :
             LET name == access.login[u] + Cardinality(Users)
             IN  /\ \A v \in Users : access.login[v] # name
                 /\ Turn(<<"login", u>>, [access EXCEPT !.login[u] = name])
    BY <1>6
  <2> DEFINE name == access.login[u] + Cardinality(Users)
  <2>0. name \in Nat /\ \A v \in Users : access.login[v] # name
    <3>1. Cardinality(Users) \in Nat
      BY GateAssumption, FS_CardinalityType
    <3> QED
      BY <1>1, <2>1, <3>1
  <2>3. access' = [access EXCEPT !.login[u] = name] /\ Turn(<<"login", u>>, access')
    BY <2>1 DEF Turn
  <2> HIDE DEF name
  <2>6. /\ access'.repo = access.repo /\ access'.team = access.team
        /\ access'.members = access.members /\ access'.answer = access.answer
        /\ access'.login \in [Users -> Nat] /\ access'.login[u] = name
        /\ \A v \in Users : v # u => access'.login[v] = access.login[v]
    BY <1>1, <2>0, <2>3
  <2>2. access' \in Accesses
    <3>1. access' \in T
      BY <1>1, <2>0, <2>3
    <3>2. \A v, w \in Users : access'.login[v] = access'.login[w] => v = w
      BY <1>1, <2>0, <2>6
    <3> QED
      BY <3>1, <3>2 DEF Accesses
  <2>4. Concl(<<"login", u>>)
    BY <2>6 DEF Facts, Same
  <2>5. <<"login", u>> \in Noted
    BY DEF Noted, Facts
  <2> QED
    BY <1>2, <2>2, <2>3, <2>4, <2>5
<1>7. CASE Turn(<<"closed", 0>>, [access EXCEPT !.closed = ~access.closed])
  <2>2. [access EXCEPT !.closed = ~access.closed] \in Accesses
    BY <1>1 DEF Accesses
  <2>3. access' = [access EXCEPT !.closed = ~access.closed]
    BY <1>7 DEF Turn
  <2>4. Concl(<<"closed", 0>>)
    BY <1>1, <2>3 DEF Facts, Same
  <2>5. <<"closed", 0>> \in Noted
    BY DEF Noted, Facts
  <2> QED
    BY <1>2, <1>7, <2>2, <2>4, <2>5
<1>8. CASE Turn(<<"repo", 0>>, [access EXCEPT !.repo = access.repo + 1])
  <2>2. [access EXCEPT !.repo = access.repo + 1] \in Accesses
    BY <1>1 DEF Accesses
  <2>3. access' = [access EXCEPT !.repo = access.repo + 1]
    BY <1>8 DEF Turn
  <2>4. Concl(<<"repo", 0>>)
    BY <1>1, <2>3 DEF Facts, Same
  <2>5. <<"repo", 0>> \in Noted
    BY DEF Noted, Facts
  <2> QED
    BY <1>2, <1>8, <2>2, <2>4, <2>5
<1> QED
  BY <1>3, <1>4, <1>5, <1>6, <1>7, <1>8 DEF ChangeAccess


LEMMA CollectInit == Init => CollectInv
<1> SUFFICES ASSUME Init PROVE CollectInv
  OBVIOUS
<1>1. github.base \in Bases /\ access \in Accesses
  BY DEF Init
<1>2. collector.pc = "idle"
  BY DEF Init, NotCollecting
<1> QED
  BY <1>1, <1>2 DEF CollectInv, Collecting, SnapshotWasReal

\* What agrees with a on a fact agrees with every b that is the same there.
LEMMA SameReads ==
    ASSUME NEW f, NEW c, NEW a, NEW b, Same(f, a, b)
    PROVE  /\ Reads(f, c, a) => Reads(f, c, b)
           /\ \A s, plan : Right(f, s, plan, a) => Right(f, s, plan, b)
           /\ \A x : Same(f, a, x) => Same(f, b, x)
<1>1. Reads(f, c, a) => Reads(f, c, b)
  BY DEF Same, Reads, ReadsTeam, ReadsMembers, ReadsLogin, ReadsAnswer, TeamPermission
<1>2. \A s, plan : Right(f, s, plan, a) => Right(f, s, plan, b)
  BY DEF Same, Right, RightLogin, TeamPermission
<1>3. \A x : Same(f, a, x) => Same(f, b, x)
  BY DEF Same
<1> QED
  BY <1>1, <1>2, <1>3

LEMMA SnapshotStays ==
    ASSUME SnapshotWasReal, UNCHANGED <<collector, snapshot>>
    PROVE  SnapshotWasReal'
<1> DEFINE Real(c, found) ==
             c.pc = "done" /\ Once(c) =>
                 \A s \in found, a \in c.truth :
                     [repo |-> s.repo, users |-> s.users, teams |-> s.teams] = ViewOf(a, c.plan)
<1>1. SnapshotWasReal <=> Real(collector, snapshot)
  BY DEF SnapshotWasReal, Once
<1>2. SnapshotWasReal' <=> Real(collector', snapshot')
  BY DEF SnapshotWasReal, Once
<1> HIDE DEF Real
<1> QED
  BY <1>1, <1>2

\* A collection that goes on as if nothing had happened around it.
LEMMA Untouched ==
    ASSUME CollectInv, UNCHANGED <<access, collector, snapshot>>, github'.base \in Bases
    PROVE  CollectInv'
BY DEF CollectInv, Collecting, CollectorShape, Honest, Once, SnapshotWasReal

\* A collection that has ended without a snapshot.
LEMMA CollectionEnds ==
    ASSUME CollectInv, UNCHANGED <<github, access>>, collector' = Fail
    PROVE  CollectInv'
<1>1. collector'.pc = "failed"
  BY DEF Fail, NotCollecting
<1> QED
  BY <1>1 DEF CollectInv, Collecting, SnapshotWasReal

\* A request whose answer is taken.
LEMMA Progressed ==
    ASSUME CollectInv, Collecting, UNCHANGED <<github, access>>,
           Keeps(collector, collector'), Progress(collector, collector', access)
    PROVE  CollectInv'
<1> DEFINE c == collector
           d == collector'
           a == access
<1>1. CollectorShape(d)
  BY DEF Progress
<1>2. d.pc # "done" /\ d.first = c.first /\ d.truth = c.truth /\ d.plan = c.plan
  BY <1>1 DEF CollectorShape, Keeps
<1>3. Changed(d) = Changed(c) /\ (Once(d) <=> Once(c))
  BY DEF Keeps, Changed, Once
<1>4. ASSUME Honest(c, a) PROVE Honest(d, a)
  <2>1. \A f \in Facts : Reads(f, c, a) => Reads(f, d, a)
    BY DEF Progress
  <2> QED
    BY <1>2, <1>3, <1>4, <2>1 DEF Honest
<1>5. Once(d) => Honest(d, a)
  BY <1>3, <1>4 DEF CollectInv
<1>6. SnapshotWasReal'
  BY <1>2 DEF SnapshotWasReal
<1> QED
  BY <1>1, <1>5, <1>6 DEF CollectInv

\* GitHub changes while a collection is on its way, or while none is.
LEMMA ChangeHolds ==
    ASSUME CollectInv, ChangeAccess
    PROVE  CollectInv'
<1>0. access \in Accesses
  BY DEF CollectInv
<1>1. /\ access' \in Accesses
      /\ UNCHANGED <<github, snapshot>>
      /\ \E fact \in Noted :
            /\ collector' = IF Collecting
                            THEN [collector EXCEPT !.changed = collector.changed \o <<fact>>]
                            ELSE collector
            /\ \A f \in Facts : f # fact => Same(f, access, access')
  BY <1>0, OneFact
<1>2. PICK fact \in Noted :
            /\ collector' = IF Collecting
                            THEN [collector EXCEPT !.changed = collector.changed \o <<fact>>]
                            ELSE collector
            /\ \A f \in Facts : f # fact => Same(f, access, access')
  BY <1>1
<1>3. CASE ~Collecting
  <2>1. collector' = collector /\ snapshot' = snapshot /\ github' = github
    BY <1>1, <1>2, <1>3
  <2>2. ~Collecting'
    BY <1>3, <2>1 DEF Collecting
  <2>3. SnapshotWasReal'
    BY <2>1, SnapshotStays DEF CollectInv
  <2> QED
    BY <1>1, <2>1, <2>2, <2>3 DEF CollectInv
<1>4. CASE Collecting
  <2> DEFINE c == collector
             d == collector'
  <2>1. CollectorShape(c)
    BY <1>4 DEF CollectInv
  <2>2. d = [c EXCEPT !.changed = c.changed \o <<fact>>]
    BY <1>2, <1>4
  <2>3. /\ DOMAIN d = CollectorFields /\ d.changed = c.changed \o <<fact>>
        /\ d.pc = c.pc /\ d.plan = c.plan /\ d.obs = c.obs /\ d.first = c.first
        /\ d.page = c.page /\ d.pending = c.pending /\ d.truth = c.truth
    BY <2>1, <2>2 DEF CollectorShape, CollectorFields
  <2>4. c.changed \in Seq(Noted)
    BY <2>1 DEF CollectorShape
  <2> HIDE DEF c, d
  <2>5. /\ d.changed \in Seq(Noted)
        /\ Changed(c) \subseteq Changed(d) /\ fact \in Changed(d)
        /\ Once(d) => Once(c) /\ fact \notin Changed(c)
    BY <2>3, <2>4, ChangeIsNoted
  <2>6. CollectorShape(d)
    <3>1. ObservationShape(c) => ObservationShape(d)
      BY <2>3 DEF ObservationShape, BeforeMembers, OfUsers, Names, RowIds
    <3> QED
      BY <2>1, <2>3, <2>5, <3>1 DEF CollectorShape
  <2>7. ASSUME NEW f, Reads(f, c, access) PROVE Reads(f, d, access)
    BY <2>3, <2>7 DEF Reads, ReadsTeam, ReadsMembers, ReadsLogin, ReadsAnswer, RowIds
  <2>8. ASSUME Once(d) PROVE Honest(d, access')
    <3>1. Honest(c, access)
      BY <1>4, <2>5, <2>8 DEF CollectInv, c
    <3>2. fact \notin Changed(c)
      BY <2>5, <2>8
    <3>3. ASSUME NEW f \in Facts, c.first = {} PROVE f \in Changed(d) \/ Reads(f, d, access')
      <4>1. CASE f = fact \/ f \in Changed(c)
        BY <2>5, <4>1
      <4>2. CASE f # fact /\ f \notin Changed(c)
        <5>1. Same(f, access, access') /\ Reads(f, c, access)
          BY <1>2, <3>1, <3>3, <4>2 DEF Honest
        <5> QED
          BY <2>7, <5>1, SameReads
      <4> QED
        BY <4>1, <4>2
    <3>4. ASSUME NEW s \in c.first, NEW b \in c.truth, NEW f \in Facts
          PROVE  \/ Right(f, s, c.plan, b)
                 \/ f \in Changed(d) /\ Same(f, access', b) /\ Reads(f, d, access')
      <4> SUFFICES ASSUME f \in Changed(c), Same(f, access, b), Reads(f, c, access)
                   PROVE  f \in Changed(d) /\ Same(f, access', b) /\ Reads(f, d, access')
        BY <3>1, <3>4 DEF Honest
      <4>1. Same(f, access, access')
        BY <1>2, <3>2
      <4> QED
        BY <2>5, <2>7, <4>1, SameReads
    <3> QED
      BY <2>3, <3>1, <3>3, <3>4 DEF Honest
  <2>9. d.pc # "done"
    BY <2>6 DEF CollectorShape
  <2>10. SnapshotWasReal'
    BY <2>9 DEF SnapshotWasReal, d
  <2> QED
    BY <1>1, <2>6, <2>8, <2>10 DEF CollectInv, d
<1> QED
  BY <1>3, <1>4

LEMMA StartHolds ==
    ASSUME CollectInv, StartCollection
    PROVE  CollectInv'
<1> DEFINE rules == LoadPolicy(Places(github.base)).rules
           plan == Plan(rules)
           d == [NotCollecting("repo") EXCEPT !.plan = plan, !.base = github.base]
<1>1. UNCHANGED <<github, access, snapshot>> /\ collector' \in {Fail, d}
  BY DEF StartCollection
<1>2. CASE collector' = Fail
  BY <1>1, <1>2, CollectionEnds
<1>3. CASE collector' = d
  <2>1. plan.users \subseteq Nat
    BY GateAssumption DEF CollectInv
  <2> HIDE DEF plan
  <2>2. /\ DOMAIN d = CollectorFields /\ d.pc = "repo" /\ d.plan = plan /\ d.obs = Nothing
        /\ d.first = {} /\ d.page = 1 /\ d.changed = <<>> /\ d.truth = {}
    BY DEF NotCollecting, CollectorFields
  <2>3. DOMAIN d.obs = {"repo", "teams", "rows", "users"}
    BY <2>2 DEF Nothing
  <2> HIDE DEF d
  <2>4. CollectorShape(d)
    BY <2>1, <2>2, <2>3 DEF CollectorShape
  <2>5. Honest(d, access)
    BY <2>2 DEF Honest, Reads
  <2> QED
    BY <1>1, <1>3, <2>2, <2>4, <2>5 DEF CollectInv, SnapshotWasReal
<1> QED
  BY <1>1, <1>2, <1>3


\* A request takes the fields of d from what the answer leads to.
Takes(next, d) ==
    /\ DOMAIN d = CollectorFields
    /\ d.pc = next.pc /\ d.plan = next.plan /\ d.obs = next.obs /\ d.first = next.first
    /\ d.page = next.page /\ d.pending = next.pending /\ d.changed = next.changed
    /\ d.truth = next.truth

\* Who sends a request is collecting.
LEMMA Asked ==
    ASSUME CollectInv, NEW pc \in {"repo", "team", "team_repo", "members", "users"}, NEW n,
           NEW legal, NEW next, Get(pc, n, legal, next)
    PROVE  /\ UNCHANGED <<github, access, snapshot>>
           /\ Collecting /\ collector.pc = pc /\ CollectorShape(collector)
           /\ DOMAIN collector = CollectorFields
           /\ DOMAIN collector.obs = {"repo", "teams", "rows", "users"}
<1>1. Collecting /\ collector.pc = pc /\ UNCHANGED <<github, access, snapshot>>
  BY DEF Get, Collecting
<1> QED
  BY <1>1 DEF CollectInv, CollectorShape

\* A request is refused or its answer is taken.
LEMMA Answered ==
    ASSUME NEW pc, NEW n, NEW legal \in BOOLEAN, NEW next, DOMAIN next = CollectorFields,
           Get(pc, n, legal, next)
    PROVE  collector' = Fail \/ (legal /\ Takes(next, collector'))
<1>1. CASE legal /\ collector.requests + n <= MaxRequests
  <2> DEFINE m == collector.requests + n
  <2>1. collector' = [next EXCEPT !.requests = m]
    BY <1>1 DEF Get
  <2> HIDE DEF m
  <2> QED
    BY <1>1, <2>1 DEF Takes, CollectorFields
<1>2. CASE ~(legal /\ collector.requests + n <= MaxRequests)
  BY <1>2 DEF Get
<1> QED
  BY <1>1, <1>2

LEMMA ReadRepoHolds ==
    ASSUME CollectInv, ReadRepo
    PROVE  CollectInv'
<1> DEFINE c == collector
           d == collector'
           obs == [Nothing EXCEPT !.repo = access.repo]
           next == [c EXCEPT !.obs = obs, !.pending = c.plan.users,
                             !.pc = IF c.plan.teams = {} THEN "users" ELSE "team"]
<1>1. Get("repo", 2, TRUE, next) /\ access \in Accesses
  BY DEF ReadRepo, CollectInv
<1>2. /\ UNCHANGED <<github, access, snapshot>>
      /\ Collecting /\ c.pc = "repo" /\ CollectorShape(c) /\ DOMAIN c = CollectorFields
  <2> HIDE DEF next
  <2> QED
    BY <1>1, Asked
<1>3. /\ DOMAIN obs = {"repo", "teams", "rows", "users"} /\ obs.repo = access.repo
      /\ obs.teams = {} /\ obs.rows = {} /\ obs.users = {}
  BY DEF Nothing
<1> HIDE DEF obs
<1>4. /\ DOMAIN next = CollectorFields
      /\ next.plan = c.plan /\ next.obs = obs /\ next.first = c.first
      /\ next.page = c.page /\ next.pending = c.plan.users /\ next.changed = c.changed
      /\ next.truth = c.truth
      /\ next.pc = IF c.plan.teams = {} THEN "users" ELSE "team"
  BY <1>2 DEF CollectorFields
<1> HIDE DEF next
<1>5. d = Fail \/ Takes(next, d)
  BY <1>1, <1>4, Answered
<1>6. CASE d = Fail
  BY <1>2, <1>6, CollectionEnds
<1>7. CASE Takes(next, d)
  <2>1. /\ DOMAIN d = CollectorFields
        /\ d.plan = c.plan /\ d.obs = obs /\ d.first = c.first
        /\ d.page = c.page /\ d.pending = c.plan.users /\ d.changed = c.changed
        /\ d.truth = c.truth
        /\ d.pc = IF c.plan.teams = {} THEN "users" ELSE "team"
    BY <1>4, <1>7 DEF Takes
  <2> HIDE DEF d
  <2>2. Keeps(c, d)
    BY <1>3, <2>1 DEF Keeps
  <2>3. Progress(c, d, access)
    BY <1>1, <1>2, <1>3, <2>1, <2>2, RepoProgress
  <2> QED
    BY <1>2, <2>2, <2>3, Progressed DEF d
<1> QED
  BY <1>5, <1>6, <1>7

LEMMA ReadTeamHolds ==
    ASSUME CollectInv, ReadTeam
    PROVE  CollectInv'
<1> DEFINE c == collector
           d == collector'
           next == [c EXCEPT !.pc = "team_repo"]
<1>1. Get("team", 1, access.closed, next) /\ access \in Accesses /\ access.closed \in BOOLEAN
  BY DEF ReadTeam, CollectInv, Accesses
<1>2. /\ UNCHANGED <<github, access, snapshot>>
      /\ Collecting /\ c.pc = "team" /\ CollectorShape(c) /\ DOMAIN c = CollectorFields
      /\ DOMAIN c.obs = {"repo", "teams", "rows", "users"}
  <2> HIDE DEF next
  <2> QED
    BY <1>1, Asked
<1>4. /\ DOMAIN next = CollectorFields
      /\ next.plan = c.plan /\ next.obs = c.obs /\ next.first = c.first
      /\ next.page = c.page /\ next.pending = c.pending /\ next.changed = c.changed
      /\ next.truth = c.truth /\ next.pc = "team_repo"
  BY <1>2 DEF CollectorFields
<1> HIDE DEF next
<1>5. d = Fail \/ Takes(next, d)
  BY <1>1, <1>4, Answered
<1>6. CASE d = Fail
  BY <1>2, <1>6, CollectionEnds
<1>7. CASE Takes(next, d)
  <2>1. /\ DOMAIN d = CollectorFields
        /\ d.plan = c.plan /\ d.obs = c.obs /\ d.first = c.first
        /\ d.page = c.page /\ d.pending = c.pending /\ d.changed = c.changed
        /\ d.truth = c.truth /\ d.pc = "team_repo"
    BY <1>4, <1>7 DEF Takes
  <2> HIDE DEF d
  <2>2. Keeps(c, d)
    BY <1>2, <2>1 DEF Keeps
  <2>3. Progress(c, d, access)
    BY <1>1, <1>2, <2>1, <2>2, TeamProgress
  <2> QED
    BY <1>2, <2>2, <2>3, Progressed DEF d
<1> QED
  BY <1>5, <1>6, <1>7

LEMMA ReadTeamRepoHolds ==
    ASSUME CollectInv, ReadTeamRepo
    PROVE  CollectInv'
<1> DEFINE c == collector
           d == collector'
           perms == TeamPermission(access)
           perm == CHOOSE p \in perms : TRUE
           teams == TeamsOf(c.plan, perm, {})
           next == [c EXCEPT !.obs.teams = teams, !.pc = "members", !.page = 1]
<1>1. /\ Get("team_repo", 1, access.repo = c.obs.repo /\ perms # {}, next)
      /\ access \in Accesses
  BY DEF ReadTeamRepo, TeamPermission, TeamsOf, CollectInv
<1> HIDE DEF perms, perm, teams
<1>2. /\ UNCHANGED <<github, access, snapshot>>
      /\ Collecting /\ c.pc = "team_repo" /\ CollectorShape(c) /\ DOMAIN c = CollectorFields
      /\ DOMAIN c.obs = {"repo", "teams", "rows", "users"}
  <2> HIDE DEF next
  <2> QED
    BY <1>1, Asked
<1>4. /\ DOMAIN next = CollectorFields
      /\ DOMAIN next.obs = {"repo", "teams", "rows", "users"}
      /\ next.obs.teams = teams /\ next.obs.rows = c.obs.rows /\ next.obs.users = c.obs.users
      /\ next.obs.repo = c.obs.repo
      /\ next.plan = c.plan /\ next.first = c.first
      /\ next.page = 1 /\ next.pending = c.pending /\ next.changed = c.changed
      /\ next.truth = c.truth /\ next.pc = "members"
  BY <1>2 DEF CollectorFields
<1> HIDE DEF next
<1>5. d = Fail \/ (perms # {} /\ Takes(next, d))
  <2>1. (perms # {}) \in BOOLEAN
    OBVIOUS
  <2> QED
    BY <1>1, <1>4, <2>1, Answered
<1>6. CASE d = Fail
  BY <1>2, <1>6, CollectionEnds
<1>7. CASE perms # {} /\ Takes(next, d)
  <2>1. /\ DOMAIN d = CollectorFields
        /\ d.plan = c.plan /\ d.obs = next.obs /\ d.first = c.first
        /\ d.page = 1 /\ d.pending = c.pending /\ d.changed = c.changed
        /\ d.truth = c.truth /\ d.pc = "members"
    BY <1>4, <1>7 DEF Takes
  <2> HIDE DEF d
  <2>2. Keeps(c, d)
    BY <1>4, <2>1 DEF Keeps
  <2>3. perm \in TeamPermission(access) /\ d.obs.teams = TeamsOf(c.plan, perm, {})
    BY <1>4, <1>7, <2>1 DEF perm, perms, teams
  <2>4. Progress(c, d, access)
    BY <1>1, <1>2, <1>4, <2>1, <2>2, <2>3, TeamRepoProgress
  <2> QED
    BY <1>2, <2>2, <2>4, Progressed DEF d
<1> QED
  BY <1>5, <1>6, <1>7

LEMMA ReadMembersPageHolds ==
    ASSUME CollectInv, ReadMembersPage
    PROVE  CollectInv'
<1> DEFINE c == collector
           d == collector'
           ids == MembersPage(access, c.page)
           rows == {[id |-> i, login |-> access.login[i]] : i \in ids}
           all == c.obs.rows \cup rows
           last == Cardinality(ids) < PageSize
           teams == {[t EXCEPT !.members = {r.id : r \in all}] : t \in c.obs.teams}
           pending == IF last THEN c.pending \cup {r.login : r \in all} ELSE c.pending
           legal == /\ ids \cap {r.id : r \in c.obs.rows} = {}
                    /\ Cardinality(all) <= MaxMembers
                    /\ \A r, q \in all : r.login = q.login => r = q
           pc == IF last THEN "users" ELSE "members"
           next == [c EXCEPT !.obs.rows = all, !.obs.teams = teams, !.pending = pending,
                             !.page = c.page + 1, !.pc = pc]
<1>1. Get("members", 1, legal, next) /\ access \in Accesses
  BY DEF ReadMembersPage, CollectInv
<1>3. legal \in BOOLEAN
  OBVIOUS
<1> HIDE DEF ids, all, last, teams, pending, pc, legal
<1>2. /\ UNCHANGED <<github, access, snapshot>>
      /\ Collecting /\ c.pc = "members" /\ CollectorShape(c) /\ DOMAIN c = CollectorFields
      /\ DOMAIN c.obs = {"repo", "teams", "rows", "users"}
  <2> HIDE DEF next
  <2> QED
    BY <1>1, Asked
<1>4. /\ DOMAIN next = CollectorFields
      /\ DOMAIN next.obs = {"repo", "teams", "rows", "users"}
      /\ next.obs.teams = teams /\ next.obs.rows = all /\ next.obs.users = c.obs.users
      /\ next.obs.repo = c.obs.repo
      /\ next.plan = c.plan /\ next.first = c.first
      /\ next.page = c.page + 1 /\ next.pending = pending /\ next.changed = c.changed
      /\ next.truth = c.truth /\ next.pc = pc
  BY <1>2 DEF CollectorFields
<1> HIDE DEF next
<1>5. d = Fail \/ Takes(next, d)
  BY <1>1, <1>3, <1>4, Answered
<1>6. CASE d = Fail
  BY <1>2, <1>6, CollectionEnds
<1>7. CASE Takes(next, d)
  <2>1. /\ DOMAIN d = CollectorFields
        /\ d.plan = c.plan /\ d.obs = next.obs /\ d.first = c.first
        /\ d.page = c.page + 1 /\ d.pending = pending /\ d.changed = c.changed
        /\ d.truth = c.truth /\ d.pc = pc
    BY <1>4, <1>7 DEF Takes
  <2> HIDE DEF d
  <2>2. Keeps(c, d)
    BY <1>4, <2>1 DEF Keeps
  <2>3. d.obs.rows = all /\ d.obs.teams = teams /\ d.obs.users = c.obs.users
          /\ d.obs.repo = c.obs.repo
    BY <1>4, <2>1
  <2>4. /\ d.obs.rows = c.obs.rows \cup {[id |-> i, login |-> access.login[i]] : i \in ids}
        /\ ids = MembersPage(access, c.page)
    BY <2>3 DEF all, ids
  <2>5. d.obs.teams = {[t EXCEPT !.members = RowIds(d)] : t \in c.obs.teams}
    BY <2>3 DEF teams, RowIds
  <2>6. \/ /\ Cardinality(ids) < PageSize /\ d.pc = "users"
           /\ d.pending = c.pending \cup {r.login : r \in d.obs.rows}
        \/ /\ d.pc = "members" /\ d.pending = c.pending
    <3>1. CASE last
      BY <2>1, <2>3, <3>1 DEF last, pending, pc
    <3>2. CASE ~last
      BY <2>1, <3>2 DEF pending, pc
    <3> QED
      BY <3>1, <3>2
  <2>7. Progress(c, d, access)
    BY <1>1, <1>2, <2>1, <2>2, <2>3, <2>4, <2>5, <2>6, MembersProgress
  <2> QED
    BY <1>2, <2>2, <2>7, Progressed DEF d
<1> QED
  BY <1>5, <1>6, <1>7

LEMMA ReadUserHolds ==
    ASSUME CollectInv, ReadUser
    PROVE  CollectInv'
<1> DEFINE c == collector
           d == collector'
           login == Min(c.pending)
           found == Accounts(access, login)
           ids == {u.id : u \in found}
           row == {r \in c.obs.rows : r.login = login}
           legal == /\ found # {}
                    /\ {r.id : r \in row} \subseteq ids
                    /\ ids \cap {u.id : u \in c.obs.users} = {}
           users == c.obs.users \cup found
           pending == c.pending \ {login}
           next == [c EXCEPT !.pending = pending, !.obs.users = users]
<1>1. Get("users", 1, legal, next) /\ access \in Accesses /\ c.pending # {}
  <2>1. Get("users", 1, legal, next) /\ c.pending # {}
    BY DEF ReadUser
  <2>2. access \in Accesses
    BY DEF CollectInv
  <2> HIDE DEF login, found, ids, row, legal, users, pending, next
  <2> QED
    BY <2>1, <2>2
<1>3. legal \in BOOLEAN
  OBVIOUS
<1>8. legal => /\ found # {}
               /\ \A r \in c.obs.rows : r.login = login => \E u \in found : r.id = u.id
  OBVIOUS
<1> HIDE DEF login, found, ids, row, legal, users, pending
<1>2. /\ UNCHANGED <<github, access, snapshot>>
      /\ Collecting /\ c.pc = "users" /\ CollectorShape(c) /\ DOMAIN c = CollectorFields
      /\ DOMAIN c.obs = {"repo", "teams", "rows", "users"}
  <2> HIDE DEF next
  <2> QED
    BY <1>1, Asked
<1>4. /\ DOMAIN next = CollectorFields
      /\ DOMAIN next.obs = {"repo", "teams", "rows", "users"}
      /\ next.obs.teams = c.obs.teams /\ next.obs.rows = c.obs.rows /\ next.obs.users = users
      /\ next.obs.repo = c.obs.repo
      /\ next.plan = c.plan /\ next.first = c.first
      /\ next.page = c.page /\ next.pending = pending /\ next.changed = c.changed
      /\ next.truth = c.truth /\ next.pc = c.pc
  BY <1>2 DEF CollectorFields
<1> HIDE DEF next
<1>5. d = Fail \/ (legal /\ Takes(next, d))
  BY <1>1, <1>3, <1>4, Answered
<1>6. CASE d = Fail
  BY <1>2, <1>6, CollectionEnds
<1>7. CASE legal /\ Takes(next, d)
  <2>1. /\ DOMAIN d = CollectorFields
        /\ d.plan = c.plan /\ d.obs = next.obs /\ d.first = c.first
        /\ d.page = c.page /\ d.pending = pending /\ d.changed = c.changed
        /\ d.truth = c.truth /\ d.pc = "users"
    BY <1>2, <1>4, <1>7 DEF Takes
  <2> HIDE DEF d
  <2>2. Keeps(c, d)
    BY <1>4, <2>1 DEF Keeps
  <2>3. login \in c.pending
    <3>1. OfUsers(c) /\ c.plan.users \subseteq Nat /\ \A r \in c.obs.rows : r.login \in Nat
      BY <1>2 DEF CollectorShape, ObservationShape
    <3>2. c.pending \in SUBSET Nat
      BY <3>1 DEF OfUsers, Names
    <3> QED
      BY <1>1, <3>2, MinIsThere DEF login
  <2>4. PICK y \in Accounts(access, login) : found = {y}
    BY <1>1, <1>7, <1>8, OneAccount DEF found
  <2>5. /\ d.obs.users = c.obs.users \cup {y}
        /\ d.obs.rows = c.obs.rows /\ d.obs.teams = c.obs.teams /\ d.obs.repo = c.obs.repo
        /\ d.pending = c.pending \ {login}
        /\ \A r \in c.obs.rows : r.login = login => r.id = y.id
    BY <1>4, <1>7, <1>8, <2>1, <2>4 DEF users, pending
  <2>6. Progress(c, d, access)
    BY <1>1, <1>2, <2>1, <2>2, <2>3, <2>4, <2>5, UserProgress
  <2> QED
    BY <1>2, <2>2, <2>6, Progressed DEF d
<1> QED
  BY <1>5, <1>6, <1>7


\* The end of the first observation.
LEMMA FirstHolds ==
    ASSUME CollectInv, UNCHANGED <<github, access>>, collector.pc = "users",
           collector.pending = {}, collector.first = {}, DOMAIN collector' = CollectorFields,
           collector'.pc = "repo", collector'.first = {Snapshot(collector)},
           collector'.truth = {access}, collector'.plan = collector.plan,
           collector'.obs = collector.obs, collector'.page = collector.page,
           collector'.changed = collector.changed
    PROVE  CollectInv'
<1> DEFINE c == collector
           d == collector'
           s == Snapshot(c)
<1>1. /\ Collecting /\ CollectorShape(c) /\ access \in Accesses
      /\ Once(c) => Honest(c, access)
  BY DEF CollectInv, Collecting
<1> HIDE DEF s
<1>3. /\ DOMAIN d = CollectorFields /\ d.pc = "repo" /\ d.first = {s} /\ d.truth = {access}
      /\ d.plan = c.plan /\ d.obs = c.obs /\ d.page = c.page /\ d.changed = c.changed
  BY DEF s
<1>4. CollectorShape(d)
  BY <1>1, <1>3 DEF CollectorShape
<1>5. ASSUME Once(d) PROVE Honest(d, access)
  <2>1. Once(c) /\ Changed(d) = Changed(c)
    BY <1>3, <1>5 DEF Once, Changed
  <2>2. \A f \in Facts : f \in Changed(c) \/ Reads(f, c, access)
    BY <1>1, <2>1 DEF Honest
  <2>3. /\ SnapshotShape(s, c.plan)
        /\ \A f \in Facts : Reads(f, c, access) => Right(f, s, c.plan, access)
    BY <1>1, CompleteIsRight DEF s
  <2>4. \A f : Same(f, access, access) /\ Reads(f, d, access)
    BY <1>3 DEF Same, Reads
  <2> HIDE DEF d
  <2> QED
    BY <1>3, <2>1, <2>2, <2>3, <2>4 DEF Honest
<1>6. SnapshotWasReal'
  BY <1>3 DEF SnapshotWasReal
<1> HIDE DEF d
<1>7. github'.base \in Bases /\ access' = access
  BY DEF CollectInv
<1> QED
  BY <1>1, <1>4, <1>5, <1>6, <1>7 DEF CollectInv, d

\* The second observation agrees with the first.
LEMMA SecondHolds ==
    ASSUME CollectInv, UNCHANGED <<github, access>>, collector.pc = "users",
           collector.pending = {}, collector.first = {Snapshot(collector)},
           snapshot' = {Snapshot(collector)}, collector' = [collector EXCEPT !.pc = "done"]
    PROVE  CollectInv'
<1> DEFINE c == collector
           d == collector'
           s == Snapshot(c)
<1>1. /\ Collecting /\ CollectorShape(c) /\ access \in Accesses
      /\ Once(c) => Honest(c, access)
  BY DEF CollectInv, Collecting
<1>2. DOMAIN c = CollectorFields /\ c.truth \subseteq Accesses
  BY <1>1 DEF CollectorShape
<1>3. d.pc = "done" /\ d.truth = c.truth /\ d.plan = c.plan /\ d.changed = c.changed
  BY <1>2 DEF CollectorFields
<1> HIDE DEF s
<1>4. ASSUME Once(c), NEW b \in c.truth
      PROVE  [repo |-> s.repo, users |-> s.users, teams |-> s.teams] = ViewOf(b, c.plan)
  <2>1. /\ SnapshotShape(s, c.plan)
        /\ \A f \in Facts : \/ Right(f, s, c.plan, b)
                            \/ f \in Changed(c) /\ Same(f, access, b) /\ Reads(f, c, access)
    BY <1>1, <1>4 DEF Honest, s
  <2>2. \A f \in Facts : Reads(f, c, access) => Right(f, s, c.plan, access)
    BY <1>1, CompleteIsRight DEF s
  <2>3. \A f \in Facts : Right(f, s, c.plan, b)
    BY <2>1, <2>2, SameReads
  <2> QED
    BY <1>2, <2>1, <2>3, RightIsReal
<1>5. SnapshotWasReal'
  <2>1. (\A i, j \in DOMAIN d.changed : d.changed[i] = d.changed[j] => i = j) => Once(c)
    BY <1>3 DEF Once
  <2>2. snapshot' = {s}
    BY DEF s
  <2>3. (\A i, j \in DOMAIN d.changed : d.changed[i] = d.changed[j] => i = j) =>
          \A t \in snapshot', b \in d.truth :
              [repo |-> t.repo, users |-> t.users, teams |-> t.teams] = ViewOf(b, d.plan)
    <3> HIDE DEF d
    <3> QED
      BY <1>3, <1>4, <2>1, <2>2
  <2> QED
    BY <2>3 DEF SnapshotWasReal
<1>6. ~Collecting'
  BY <1>3 DEF Collecting
<1>7. github'.base \in Bases /\ access' \in Accesses
  BY DEF CollectInv
<1> QED
  BY <1>5, <1>6, <1>7 DEF CollectInv

LEMMA ReadFinalHolds ==
    ASSUME CollectInv, ReadFinal
    PROVE  CollectInv'
<1> DEFINE spent == collector.requests + 2
           legal == /\ spent <= MaxRequests
                    /\ access.repo = collector.obs.repo
                    /\ ValidSnapshot(Snapshot(collector))
           next == [collector EXCEPT !.pc = "repo", !.first = {Snapshot(collector)},
                                     !.requests = spent, !.truth = {access}]
<1>1. /\ UNCHANGED <<github, access>> /\ collector.pc = "users" /\ collector.pending = {}
      /\ \/ collector' = Fail
         \/ collector.first = {} /\ collector' = next
         \/ /\ Agreed(collector) # {} /\ snapshot' = Agreed(collector)
            /\ collector' = [collector EXCEPT !.pc = "done"]
  <2> HIDE DEF legal, next
  <2>1. \/ /\ collector.first = {}
           /\ collector' = IF legal /\ spent <= MaxRequests \div 2 THEN next ELSE Fail
        \/ /\ Agreed(collector) # {} /\ snapshot' = Agreed(collector)
           /\ collector' = [collector EXCEPT !.pc = "done"]
        \/ collector' = Fail
    BY DEF ReadFinal, legal, next
  <2>2. UNCHANGED <<github, access>> /\ collector.pc = "users" /\ collector.pending = {}
    BY DEF ReadFinal
  <2> QED
    BY <2>1, <2>2
<1> HIDE DEF spent
<1>5. /\ DOMAIN next = CollectorFields /\ next.pc = "repo" /\ next.first = {Snapshot(collector)}
      /\ next.truth = {access} /\ next.plan = collector.plan /\ next.obs = collector.obs
      /\ next.page = collector.page /\ next.changed = collector.changed
  <2>1. DOMAIN collector = CollectorFields
    BY <1>1 DEF CollectInv, Collecting, CollectorShape
  <2> QED
    BY <2>1 DEF CollectorFields
<1> HIDE DEF next
<1>2. CASE collector' = Fail
  BY <1>1, <1>2, CollectionEnds
<1>3. CASE collector.first = {} /\ collector' = next
  BY <1>1, <1>3, <1>5, FirstHolds
<1>4. CASE /\ Agreed(collector) # {} /\ snapshot' = Agreed(collector)
           /\ collector' = [collector EXCEPT !.pc = "done"]
  <2>1. collector.first = {Snapshot(collector)} /\ snapshot' = {Snapshot(collector)}
    BY <1>4 DEF Agreed
  <2> QED
    BY <1>1, <1>4, <2>1, SecondHolds
<1> QED
  BY <1>1, <1>2, <1>3, <1>4

LEMMA CollectsHolds ==
    ASSUME CollectInv, Collects
    PROVE  CollectInv'
<1>1. CASE CollectionFails
  <2>1. UNCHANGED <<github, access>> /\ collector' = Fail
    BY <1>1 DEF CollectionFails
  <2> QED
    BY <2>1, CollectionEnds
<1> QED
  BY <1>1, StartHolds, ReadRepoHolds, ReadTeamHolds, ReadTeamRepoHolds, ReadMembersPageHolds,
     ReadUserHolds, ReadFinalHolds DEF Collects

LEMMA CollectStep == LedgerInv /\ CollectInv /\ [Next]_vars => CollectInv'
<1> SUFFICES ASSUME LedgerInv, CollectInv, [Next]_vars PROVE CollectInv'
  OBVIOUS
<1>0. github.base \in Bases /\ "base" \in DOMAIN github
  BY DEF CollectInv, LedgerInv, ReviewsHold
<1>1. ASSUME UNCHANGED <<github, access, collector, snapshot>> PROVE CollectInv'
  BY <1>0, <1>1, Untouched
<1>2. CASE UNCHANGED vars
  BY <1>1, <1>2 DEF vars
<1>3. CASE \/ \E c \in Heads : Push(c)
           \/ \E u \in Reviewers, id \in 1..MaxLedgerReviews, s \in {"approved", "commented"} :
                 Submit(u, id, s)
           \/ \E r \in github.reviews, complete \in BOOLEAN : Dismiss(r, complete)
  <2>1. UNCHANGED <<access, collector, snapshot>>
    BY <1>3 DEF Push, Submit, Dismiss
  <2>2. ASSUME NEW e PROVE Emit(github, e).base = github.base /\ "base" \in DOMAIN Emit(github, e)
    BY <1>0 DEF Emit, LedgerInv, ReviewsHold
  <2>3. ASSUME NEW g, "base" \in DOMAIN g, NEW x
        PROVE  /\ [g EXCEPT !.head = x].base = g.base /\ [g EXCEPT !.reviews = x].base = g.base
               /\ [g EXCEPT !.dismissed = x].base = g.base
    BY <2>3
  <2>4. github'.base = github.base
    <3>1. CASE \E c \in Heads : Push(c)
      BY <2>2, <2>3, <3>1 DEF Push
    <3>2. CASE \E u \in Reviewers, id \in 1..MaxLedgerReviews, s \in {"approved", "commented"} :
                  Submit(u, id, s)
      BY <2>2, <2>3, <3>2 DEF Submit
    <3>3. CASE \E r \in github.reviews, complete \in BOOLEAN : Dismiss(r, complete)
      BY <2>2, <2>3, <3>3 DEF Dismiss
    <3> QED
      BY <1>3, <3>1, <3>2, <3>3
  <2> QED
    BY <1>0, <2>1, <2>4, Untouched
<1>4. CASE (\E b \in Bases : AdvanceBase(b)) \/ Tick
  <2>1. UNCHANGED <<access, collector, snapshot>>
    BY <1>4 DEF AdvanceBase, Tick
  <2>2. github'.base \in Bases
    BY <1>0, <1>4 DEF AdvanceBase, Tick
  <2> QED
    BY <2>1, <2>2, Untouched
<1>5. CASE ChangeAccess
  BY <1>5, ChangeHolds
<1>6. CASE Collects
  BY <1>6, CollectsHolds
<1>7. CASE \/ \E ev \in github.events : \/ Ingest(ev.n, ev.e, 1) /\ UNCHANGED budget
                                        \/ Ingest(ev.n, ev.e, 2) /\ Spend("copy")
           \/ Truncate \/ Fill \/ Crash \/ BuildPassport \/ BuildCheckRun
  <2>1. UNCHANGED <<github, access, collector, snapshot>>
    BY <1>7 DEF Ingest, Truncate, Fill, Crash, BuildPassport, BuildCheckRun
  <2> QED
    BY <1>1, <2>1
<1> QED
  BY <1>2, <1>3, <1>4, <1>5, <1>6, <1>7 DEF Next, Collects

\* For any people, teams, names, pages and changes of access: two observations
\* that agree were both what GitHub would have answered at the end of the
\* first, unless a fact changed and changed again while they were made
\* (collect_github_ownership_snapshot).
THEOREM SnapshotsAreReal == Spec => []SnapshotWasReal
<1>1. CollectInv => SnapshotWasReal
  BY DEF CollectInv
<1>2. Spec => []LedgerInv
  BY LedgerInit, LedgerStep, PTL DEF Spec
<1> QED
  BY <1>1, <1>2, CollectInit, CollectStep, PTL DEF Spec

=============================================================================
