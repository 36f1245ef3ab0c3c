---------------------------- MODULE ResumeProofs ----------------------------
(***************************************************************************)
(* Proofs about Resume, for any pull requests, histories, sessions and     *)
(* surroundings: what an inbox says and what a session binds itself to was *)
(* true although it was read piece by piece, and a session takes out of a  *)
(* shared repository what it brought, and nothing else.                    *)
(***************************************************************************)
EXTENDS Resume, FiniteSetTheorems, WellFoundedInduction, TLAPS

-----------------------------------------------------------------------------
(* Checkpoints.                                                            *)

LEMMA BoundedHasMax ==
    ASSUME NEW T \in SUBSET Nat, T # {}, NEW b \in Nat, \A x \in T : x <= b
    PROVE  \E m \in T : \A x \in T : x <= m
<1> DEFINE U == {b - x : x \in T}
<1>0. \A x \in T : x \in Nat /\ b - x \in Nat /\ b - x \in U
  OBVIOUS
<1>1. U \subseteq Nat /\ U # {}
  BY <1>0
<1>2. PICK u \in U : \A y \in U : ~(<<y, u>> \in OpToRel(<, Nat))
  BY <1>1, NatLessThanWellFounded, WFMin
<1>3. \A y \in U : ~(y < u)
  BY <1>1, <1>2 DEF OpToRel
<1>4. PICK m \in T : u = b - m
  OBVIOUS
<1>5. ASSUME NEW x \in T PROVE x <= m
  <2>1. ~(b - x < b - m)
    BY <1>0, <1>3, <1>4
  <2>2. x \in Nat /\ m \in Nat
    OBVIOUS
  <2> HIDE DEF U
  <2> QED
    BY <2>1, <2>2
<1> QED
  BY <1>5

FormalOf(reviews) == {r \in ToSet(reviews) : Formal(r)}

Newest(c, S) == c \in S /\ \A s \in S : s = c \/ Newer(c, s)

\* Reviews as GitHub numbers them, none later than b.
Listing(reviews, b) ==
    /\ reviews \in Seq(Reviews)
    /\ \A i \in DOMAIN reviews : reviews[i].id = i /\ reviews[i].at <= b

LEMMA FormalElements ==
    ASSUME NEW reviews, NEW b \in Nat, Listing(reviews, b), NEW r \in FormalOf(reviews)
    PROVE  /\ r \in Reviews /\ r.id \in DOMAIN reviews /\ reviews[r.id] = r /\ r.at <= b
           /\ r.at \in Nat /\ r.id \in Nat /\ r.commit \in Commits
           /\ r.state \in {"approved", "changes_requested"}
<1>1. PICK i \in DOMAIN reviews : r = reviews[i]
  BY DEF FormalOf, ToSet
<1>2. r \in Reviews /\ r.id = i /\ r.at <= b
  BY <1>1 DEF Listing
<1>3. r.at \in Nat /\ r.id \in Nat /\ r.commit \in Commits
  BY <1>2 DEF Reviews
<1> QED
  BY <1>1, <1>2, <1>3 DEF FormalOf, Formal

\* There is at most one newest review.
LEMMA NewestIsOne ==
    ASSUME NEW reviews, NEW b \in Nat, Listing(reviews, b),
           NEW c, Newest(c, FormalOf(reviews)), NEW d, Newest(d, FormalOf(reviews))
    PROVE  c = d
<1>1. c \in FormalOf(reviews) /\ d \in FormalOf(reviews)
  BY DEF Newest
<1>2. c.at \in Nat /\ c.id \in Nat /\ d.at \in Nat /\ d.id \in Nat
  BY <1>1, FormalElements
<1>3. c = d \/ (Newer(c, d) /\ Newer(d, c))
  BY <1>1 DEF Newest
<1> QED
  BY <1>2, <1>3 DEF Newer

\* Checkpoint finds the newest formal review, if there is one.
LEMMA CheckpointFinds ==
    ASSUME NEW reviews, NEW b \in Nat, Listing(reviews, b)
    PROVE  IF FormalOf(reviews) = {} THEN Checkpoint(reviews) = None
           ELSE Newest(Checkpoint(reviews), FormalOf(reviews))
<1> DEFINE F == FormalOf(reviews)
<1>1. CASE F = {}
  BY <1>1 DEF FormalOf, Checkpoint
<1>2. CASE F # {}
  <2> DEFINE A == {r.at : r \in F}
  <2>1. A \in SUBSET Nat /\ A # {} /\ \A x \in A : x <= b
    BY <1>2, FormalElements
  <2>2. PICK m \in A : \A x \in A : x <= m
    <3> HIDE DEF A
    <3> QED BY <2>1, BoundedHasMax
  <2> DEFINE G == {r \in F : r.at = m}
             I == {r.id : r \in G}
  <2>3. I \in SUBSET Nat /\ I # {} /\ \A x \in I : x <= Len(reviews)
    <3>1. \A r \in G : r.id \in DOMAIN reviews /\ r.id \in Nat
      BY FormalElements
    <3>2. DOMAIN reviews = 1 .. Len(reviews) /\ Len(reviews) \in Nat
      BY DEF Listing
    <3> QED
      BY <3>1, <3>2, <2>2
  <2>4. Len(reviews) \in Nat
    BY DEF Listing
  <2>5. PICK n \in I : \A x \in I : x <= n
    <3> HIDE DEF I
    <3> QED BY <2>3, <2>4, BoundedHasMax
  <2>6. PICK c \in G : c.id = n
    OBVIOUS
  <2>7. ASSUME NEW r \in F PROVE r = c \/ Newer(c, r)
    <3>1. r.at \in Nat /\ r.id \in Nat /\ c.at \in Nat /\ c.id \in Nat
          /\ reviews[r.id] = r /\ reviews[c.id] = c
      BY FormalElements
    <3>2. r.at <= c.at
      BY <2>2
    <3>3. r.at = c.at => r.id <= c.id
      BY <2>5, <2>6
    <3> QED
      BY <3>1, <3>2, <3>3 DEF Newer
  <2>8. c \in F /\ \A s \in F : s = c \/ Newer(c, s)
    BY <2>7
  <2>9. Checkpoint(reviews) = CHOOSE r \in F : \A s \in F : s = r \/ Newer(r, s)
    BY <1>2 DEF FormalOf, Checkpoint
  <2> QED
    <3> HIDE DEF F
    <3> QED BY <1>2, <2>8, <2>9 DEF Newest, F
<1> QED
  BY <1>1, <1>2

-----------------------------------------------------------------------------
(* Types.                                                                  *)

Early == {"idle", "first"}
LocalPcs == {"ensure", "fetch", "import", "list", "inspect", "ref", "release", "resolve"}
OwnPcs == {"compare", "ancestry", "snapshots", "attach", "prefetch"}
Observing == {"observe", "observe_checkpoint", "observe_review", "observe_requests", "observe_again"}
Bound == {"bind", "viewer", "open"}
Ended == {"cleanup", "delete", "done", "killed"}

Pcs == Early \cup {"checkpoint"} \cup LocalPcs \cup OwnPcs \cup {"latest"} \cup Observing
         \cup Bound \cup Ended

Entries == [name : 1..4, commit : Commits]
Shown == [base : Commits, head : Commits, checkpoint : Reviews, merge : Commits \X Commits]

Modes == {"local", "ephemeral"}
CommitSets == SUBSET Commits
Lists == Seq(Entries)
Or(S) == S \cup {None}
Pairs == Commits \X Commits
Outputs == {"ok", "exited", "stopped", None}
Errors == {"failed", "interrupted", None}
Attempts == {"none", "invoked", "bound", "ready", "failed"}
Cleanups == {"clean", "failed"}

Local ==
    [pc : Pcs, mode : Modes, pull : Or(Pulls), event : Or(Events), base : Or(Commits), head : Or(Commits),
     checkpoint : Or(Reviews), i : Nat, before : CommitSets, output : Outputs, listing : CommitSets,
     refs : Lists, keeps : CommitSets, merge : Or(Pairs), round : Nat, observed : Or(Reviews),
     requested : BOOLEAN, since : Nat, shown : Or(Shown), signal : BOOLEAN, error : Errors,
     attempt : Attempts, cleanup : Cleanups, missed : BOOLEAN]

Names == Sessions \X (1..4)
Keep == [pid : Nat, by : Nat]
Partial(S, T) == UNION {[D -> T] : D \in SUBSET S}
Repo == [objects : SUBSET Commits, refs : Partial(Names, Commits \cup {0}), keeps : Partial(Commits, Keep)]

Bodies ==
    [open : BOOLEAN, updated : Nat, base : Commits, head : Commits \cup {None}, all : Nat,
     requested : BOOLEAN]
Snaps == [body : Bodies, reviews : Seq(Reviews), total : Nat, more : BOOLEAN, pages : Nat]
Statuses == {"no_eligible_reviews", "unobservable", "up_to_date", "actionable"}
Items ==
    [pull : Pulls, status : Statuses, checkpoint : Reviews \cup {None}, event : Events \cup {None}]

Inboxes ==
    [pc : {"search", "snapshot", "revalidate", "done", "failed"}, candidates : Seq(Pulls), count : Nat,
     i : Nat, first : Seq(Snaps), second : Seq(Snaps), calls : Nat, items : Seq(Items),
     status : Statuses \cup {"partial", "insufficient_evidence", None}, since : Nat]

TypeOK ==
    /\ github \in Seq([Pulls -> PullRequests]) /\ github # <<>>
    /\ clock \in Nat
    /\ inbox \in Inboxes
    /\ session \in [Sessions -> Local]
    /\ repo \in [Sessions \cup {Shared} -> Repo]
    /\ foreign \in [pack : Commits \cup {None}, dead : SUBSET Commits, moved : SUBSET Names]
    /\ budget \in [Surroundings -> Nat]

-----------------------------------------------------------------------------
(* History.                                                                *)

\* What a pull request may have become.  Its base and head may be anything,
\* but a review changes only by being dismissed, once.
Later(a, b) ==
    /\ Len(a.reviews) <= Len(b.reviews)
    /\ \A i \in DOMAIN a.reviews : \/ b.reviews[i] = a.reviews[i]
                                   \/ b.reviews[i] = [a.reviews[i] EXCEPT !.state = "dismissed"]

HistoryHolds ==
    /\ \A j \in DOMAIN github, p \in Pulls : Numbered(github[j][p])
    /\ \A i, j \in DOMAIN github, p \in Pulls : i <= j => Later(github[i][p], github[j][p])

-----------------------------------------------------------------------------
(* The inbox.                                                              *)

\* Each review of a snapshot was read at some moment between lo and hi.
Read(h, p, snap, lo, hi) ==
    \A n \in DOMAIN snap.reviews : \E a \in lo..hi :
        n \in DOMAIN h[a][p].reviews /\ h[a][p].reviews[n] = snap.reviews[n]

\* The second snapshot began at b: by then the first was complete.
Confirmed(h, p, first, second, lo, b) ==
    /\ second.body = Body(h[b][p]) /\ second.total = Len(h[b][p].reviews)
    /\ Read(h, p, first, lo, b)
    /\ Read(h, p, second, b, Len(h))

\* Where the collection is: every candidate has a first snapshot before the
\* first of them is read again.
Collects(h, x) ==
    /\ x.pc \in {"snapshot", "revalidate"} =>
         /\ x.since \in DOMAIN h
         /\ Len(x.first) = Len(x.candidates)
         /\ x.i \in 1..Len(x.candidates) + 1
         /\ \A k \in DOMAIN x.first :
              /\ Read(h, x.candidates[k], x.first[k], x.since, Len(h))
              /\ x.pc = "revalidate" \/ k < x.i => Len(x.first[k].reviews) = x.first[k].total
    /\ x.pc = "snapshot" => x.second = <<>>
    /\ x.pc = "search" => x.i = 1 /\ x.second = <<>>
    /\ x.pc = "revalidate" =>
         /\ Len(x.second) \in {x.i - 1, x.i} /\ Len(x.second) <= Len(x.candidates)
         /\ \A k \in DOMAIN x.second : \E b \in x.since..Len(h) :
              Confirmed(h, x.candidates[k], x.first[k], x.second[k], x.since, b)
    /\ x.pc = "done" => \A k \in DOMAIN x.items : \E j \in DOMAIN h :
         x.since <= j /\ Describes(x.items[k], h[j][x.items[k].pull])

-----------------------------------------------------------------------------
(* A session, by itself.                                                   *)

\* What a session has read so far.
Placed(h, t) ==
    /\ t.pc = "idle" =>
         t.keeps = {} /\ t.refs = <<>> /\ ~t.missed /\ t.cleanup = "clean" /\ t.merge = None /\ t.round = 1
    /\ t.pc # "idle" => t.pull \in Pulls
    /\ t.pc \notin Early \cup Ended =>
         /\ t.base \in Commits /\ t.head \in Commits
         /\ t.event # None => t.base = t.event.base /\ t.head = t.event.head
    /\ t.pc \notin Early \cup Ended \cup {"checkpoint"} =>
         /\ t.checkpoint \in Reviews
         /\ IsCheckpointOf(t.checkpoint, t.event)
         /\ \E j \in DOMAIN h : Checkpoint(h[j][t.pull].reviews) = t.checkpoint

\* Where it works.
Works(t) ==
    /\ t.pc \in LocalPcs => t.mode = "local"
    /\ t.pc \in OwnPcs => t.mode = "ephemeral"
    /\ t.pc \in LocalPcs => t.i \in 1..4
    /\ t.pc \in LocalPcs \ {"ensure"} => t.i \in 1..3
    /\ t.pc \in Early \cup {"checkpoint"} => t.i = 1
    /\ t.pc = "delete" => t.refs # <<>>
    /\ t.pc = "done" => t.refs = <<>> /\ t.keeps = {}
    /\ t.mode = "ephemeral" => t.keeps = {}

\* The merge bases that a session was given, once they are trusted.
Unique(t) ==
    /\ MergeBases(t.base, t.head) = {t.merge[1]}
    /\ MergeBases(t.base, t.checkpoint.commit) = {t.merge[2]}

\* The merge bases that it computes itself are there.
Computed(t) ==
    /\ UniqueMergeBase(t.base, t.head) # None
    /\ UniqueMergeBase(t.base, t.checkpoint.commit) # None

Merges(t) ==
    /\ t.pc \in Early \cup {"checkpoint", "compare"} \cup LocalPcs => t.merge = None
    /\ (t.pc \notin {"ancestry"} \cup Ended /\ t.merge # None) => Unique(t)
    /\ (t.pc = "snapshots" /\ t.merge = None) => Computed(t)

\* The checkpoint c was seen at one moment, and then the request r.
Glance(h, t, c, r, j, k) ==
    /\ j \in t.since..k /\ k \in t.since..Len(h)
    /\ Checkpoint(h[j][t.pull].reviews) = c /\ h[k][t.pull].requested = r

\* After the first round, the checkpoint c was seen again.
Again(h, t, c, j, k, l) ==
    /\ Glance(h, t, t.checkpoint, t.event.requested, j, k)
    /\ l \in k..Len(h)
    /\ Checkpoint(h[l][t.pull].reviews) = c

\* How far the observation of the event has come.
Sights(h, t) ==
    /\ t.pc \notin Observing \cup Bound \cup Ended => t.round = 1
    /\ t.pc \in Observing \cup Bound =>
         /\ t.since \in DOMAIN h
         /\ h[t.since][t.pull].base = t.base /\ h[t.since][t.pull].head = t.head
    /\ t.pc \in Observing => t.event # None /\ t.round \in {1, 2}
    /\ t.pc \in {"observe_review", "observe_requests", "observe_again"} => t.observed \in Reviews
    /\ t.round = 1 =>
         /\ t.pc \in {"observe_review", "observe_requests"} =>
              \E j \in t.since..Len(h) : Checkpoint(h[j][t.pull].reviews) = t.observed
         /\ t.pc = "observe_again" => \E j, k \in Nat : Glance(h, t, t.observed, t.requested, j, k)
    /\ t.round = 2 =>
         /\ t.pc \in {"observe", "observe_checkpoint"} =>
              \E j, k \in Nat : Glance(h, t, t.checkpoint, t.event.requested, j, k)
         /\ t.pc \in {"observe_review", "observe_requests", "observe_again"} =>
              \E j, k, l \in Nat : Again(h, t, t.observed, j, k, l)
    /\ t.pc \in Bound /\ t.event # None => \E j, k, l \in Nat :
         /\ Again(h, t, t.checkpoint, j, k, l)
         /\ \E m \in l..Len(h) : h[m][t.pull].base = t.base /\ h[m][t.pull].head = t.head

Opens(t) ==
    t.pc = "open" =>
        /\ t.shown \in Shown
        /\ t.shown.base = t.base /\ t.shown.head = t.head /\ t.shown.checkpoint = t.checkpoint
        /\ MergeBasesAreUnique(t)

SessionHolds(h, t) == Placed(h, t) /\ Works(t) /\ Merges(t) /\ Sights(h, t) /\ Opens(t)

-----------------------------------------------------------------------------
(* The shared repository.                                                  *)

\* A keep file that a session's fetch-pack made is known to the session, or
\* about to be found by it.
Accounted(t, c) ==
    \/ t.pc = "killed" \/ t.missed
    \/ c \in t.keeps
    \/ t.pc = "list" /\ c \notin t.before
    \/ t.pc = "inspect" /\ c \in t.listing

KeepsHold ==
    \A c \in DOMAIN repo[Shared].keeps :
        repo[Shared].keeps[c].by \in Sessions =>
            /\ repo[Shared].keeps[c].pid = repo[Shared].keeps[c].by
            /\ Accounted(session[repo[Shared].keeps[c].by], c)

\* A temporary ref is registered, or its removal has failed, or it was made
\* by an update-ref that did not say so.
Listed(t, n) ==
    /\ t.mode = "local"
    /\ \/ t.pc = "killed" \/ t.missed \/ t.cleanup = "failed"
       \/ \E k \in DOMAIN t.refs : t.refs[k].name = n

RefsHold == \A r \in DOMAIN repo[Shared].refs : Listed(session[r[1]], r[2])

\* No session takes for its own what was there before.
Spares(t) ==
    /\ foreign.dead \cap t.keeps = {}
    /\ t.pc \in {"import", "list"} => foreign.dead \subseteq t.before
    /\ t.pc = "inspect" => foreign.dead \cap t.listing = {}

OthersHold ==
    /\ foreign.pack # None =>
         /\ foreign.pack \in DOMAIN repo[Shared].keeps /\ foreign.pack \notin foreign.dead
         /\ repo[Shared].keeps[foreign.pack].pid = 0
    /\ foreign.dead \subseteq DOMAIN repo[Shared].keeps
    /\ \A s \in Sessions : Spares(session[s])
    /\ foreign.moved \subseteq DOMAIN repo[Shared].refs
    /\ \A r \in foreign.moved : repo[Shared].refs[r] = 0

ResumeInv ==
    /\ TypeOK
    /\ HistoryHolds
    /\ Collects(github, inbox)
    /\ \A s \in Sessions : SessionHolds(github, session[s])
    /\ KeepsHold /\ RefsHold /\ OthersHold

-----------------------------------------------------------------------------
(* Merge bases.                                                            *)

LEMMA MergeBasesAreCommits ==
    ASSUME NEW a \in Commits, NEW b \in Commits
    PROVE  MergeBases(a, b) \in SUBSET Commits /\ IsFiniteSet(MergeBases(a, b))
<1>1. MergeBases(a, b) \in SUBSET Commits
  BY DEF MergeBases, Ancestors
<1> QED
  BY <1>1, FS_Subset, ResumeAssumption

LEMMA UniqueMergeBaseIs ==
    ASSUME NEW a \in Commits, NEW b \in Commits, UniqueMergeBase(a, b) # None
    PROVE  /\ UniqueMergeBase(a, b) \in Commits
           /\ MergeBases(a, b) = {UniqueMergeBase(a, b)}
<1>1. Cardinality(MergeBases(a, b)) = 1
      /\ UniqueMergeBase(a, b) = CHOOSE c \in MergeBases(a, b) : TRUE
  BY DEF UniqueMergeBase
<1>2. PICK x : MergeBases(a, b) = {x}
  BY <1>1, MergeBasesAreCommits, FS_Singleton
<1>3. UniqueMergeBase(a, b) = x
  BY <1>1, <1>2
<1> QED
  BY <1>2, <1>3, MergeBasesAreCommits

\* When the base is an ancestor, the merge base that GitHub names is the only
\* one: the bounded snapshots need no ancestry.
LEMMA BoundedMergeBaseIs ==
    ASSUME NEW a \in Commits, NEW b \in Commits, NEW m \in MergeBases(a, b),
           SupportsBoundedSnapshots(ComparisonStatus(a, b))
    PROVE  MergeBases(a, b) = {m}
<1>1. a \in Ancestors[a]
  BY DEF Ancestors
<1>2. a = b \/ a \in Ancestors[b]
  BY DEF SupportsBoundedSnapshots, ComparisonStatus
<1>3. a \in Ancestors[a] \cap Ancestors[b]
  BY <1>1, <1>2
<1>4. \A c \in MergeBases(a, b) : c = a
  BY <1>3 DEF MergeBases
<1> QED
  BY <1>4

\* A single merge base is the one that is computed.
LEMMA SingleMergeBaseIs ==
    ASSUME NEW a \in Commits, NEW b \in Commits, NEW m \in Commits, MergeBases(a, b) = {m}
    PROVE  UniqueMergeBase(a, b) # None
<1>1. Cardinality({m}) = 1
  BY FS_Singleton
<1>2. UniqueMergeBase(a, b) = m
  BY <1>1 DEF UniqueMergeBase
<1> QED
  BY <1>2, ResumeAssumption

LEMMA TakenIs ==
    ASSUME NEW t, t.base \in Commits, t.head \in Commits, t.checkpoint.commit \in Commits,
           t.merge = None => Computed(t)
    PROVE  DOMAIN Taken(t) \subseteq 1..4 /\ \A k \in DOMAIN Taken(t) : Taken(t)[k] \in Commits
<1>1. CASE Bounded(t)
  BY <1>1 DEF Taken, Wanted
<1>2. CASE ~Bounded(t)
  <2>1. /\ UniqueMergeBase(t.base, t.head) \in Commits
        /\ UniqueMergeBase(t.base, t.checkpoint.commit) \in Commits
    BY <1>2, UniqueMergeBaseIs DEF Bounded, Computed
  <2> QED
    BY <1>2, <2>1 DEF Taken
<1> QED
  BY <1>1, <1>2

LEMMA SnapshotsAreListed ==
    ASSUME NEW t, DOMAIN Taken(t) \subseteq 1..4, \A k \in DOMAIN Taken(t) : Taken(t)[k] \in Commits
    PROVE  SetToSeq(Snapshots(t)) \in Seq(Entries)
<1> DEFINE K == {k \in DOMAIN Taken(t) : \A j \in 1..k-1 : Taken(t)[j] # Taken(t)[k]}
<1>2. Snapshots(t) \subseteq Entries
  BY DEF Snapshots, Entries
<1>3. IsFiniteSet(Snapshots(t))
  <2>0. IsFiniteSet(1..4) /\ K \in SUBSET (1..4)
    <3>1. K \in SUBSET (1..4)
      OBVIOUS
    <3>2. \A a, b \in Int : IsFiniteSet(a..b)
      BY FS_Interval
    <3>3. 1 \in Int /\ 4 \in Int
      OBVIOUS
    <3>4. IsFiniteSet(1..4)
      BY <3>2, <3>3, Zenon
    <3> QED
      BY <3>1, <3>4
  <2>1. IsFiniteSet(K)
    <3> HIDE DEF K
    <3> QED BY <2>0, FS_Subset
  <2> DEFINE f == [k \in K |-> [name |-> k, commit |-> Taken(t)[k]]]
  <2>2. f \in Surjection(K, Snapshots(t))
    BY DEF Surjection, Snapshots
  <2> HIDE DEF f, K
  <2> QED
    BY <2>1, <2>2, FS_Surjection
<1>4. ExistsBijection(1..Cardinality(Snapshots(t)), Snapshots(t)) /\ Cardinality(Snapshots(t)) \in Nat
  BY <1>3, FS_CardinalityType
<1>5. \E f \in [1..Cardinality(Snapshots(t)) -> Snapshots(t)] : IsInjective(f)
  BY <1>4 DEF ExistsBijection, Bijection, Injection, IsInjective
<1>6. SetToSeq(Snapshots(t)) \in [1..Cardinality(Snapshots(t)) -> Snapshots(t)]
  BY <1>5 DEF SetToSeq
<1> HIDE DEF K
<1> QED
  BY <1>2, <1>4, <1>6

-----------------------------------------------------------------------------
(* What a pull request may become.                                         *)

DismissedOf(x) == [x EXCEPT !.state = "dismissed"]

LEMMA DismissedIs ==
    ASSUME NEW x \in Reviews
    PROVE  /\ DismissedOf(x) \in Reviews /\ DismissedOf(x).state = "dismissed"
           /\ DismissedOf(x).id = x.id /\ DismissedOf(x).at = x.at
           /\ DismissedOf(x).commit = x.commit
           /\ DismissedOf(DismissedOf(x)) = DismissedOf(x)
BY DEF Reviews, DismissedOf

LEMMA LaterAgain ==
    ASSUME NEW a \in PullRequests, NEW b \in PullRequests, NEW c \in PullRequests,
           Later(a, b), Later(b, c)
    PROVE  Later(a, c)
<1>3. /\ Len(a.reviews) \in Nat /\ Len(b.reviews) \in Nat /\ Len(c.reviews) \in Nat
      /\ DOMAIN a.reviews = 1..Len(a.reviews) /\ DOMAIN b.reviews = 1..Len(b.reviews)
      /\ \A i \in DOMAIN a.reviews : a.reviews[i] \in Reviews
  BY DEF PullRequests
<1>4. Len(a.reviews) <= Len(c.reviews)
  BY <1>3 DEF Later
<1>5. ASSUME NEW i \in DOMAIN a.reviews
      PROVE  c.reviews[i] = a.reviews[i] \/ c.reviews[i] = [a.reviews[i] EXCEPT !.state = "dismissed"]
  <2>1. i \in DOMAIN b.reviews
    BY <1>3 DEF Later
  <2>2. b.reviews[i] = a.reviews[i] \/ b.reviews[i] = DismissedOf(a.reviews[i])
    BY DEF Later, DismissedOf
  <2>3. c.reviews[i] = b.reviews[i] \/ c.reviews[i] = DismissedOf(b.reviews[i])
    BY <2>1 DEF Later, DismissedOf
  <2>4. c.reviews[i] = a.reviews[i] \/ c.reviews[i] = DismissedOf(a.reviews[i])
    BY <1>3, <2>2, <2>3, DismissedIs
  <2> QED
    BY <2>4 DEF DismissedOf
<1> QED
  BY <1>4, <1>5 DEF Later

LEMMA LaterSame ==
    ASSUME NEW a \in PullRequests
    PROVE  Later(a, a)
<1>1. Len(a.reviews) \in Nat
  BY DEF PullRequests
<1> QED
  BY <1>1 DEF Later

\* A review that is the same twice was the same in between.
LEMMA SameBetween ==
    ASSUME NEW a \in PullRequests, NEW b \in PullRequests, NEW c \in PullRequests,
           Later(a, b), Later(b, c), NEW i \in DOMAIN a.reviews
    PROVE  /\ i \in DOMAIN b.reviews /\ i \in DOMAIN c.reviews
           /\ a.reviews[i] = c.reviews[i] => b.reviews[i] = a.reviews[i]
           /\ Formal(b.reviews[i]) => b.reviews[i] = a.reviews[i]
           /\ b.reviews[i].state = "dismissed" => c.reviews[i].state = "dismissed"
<1>1. /\ Len(a.reviews) \in Nat /\ Len(b.reviews) \in Nat /\ Len(c.reviews) \in Nat
      /\ DOMAIN a.reviews = 1..Len(a.reviews) /\ DOMAIN b.reviews = 1..Len(b.reviews)
      /\ DOMAIN c.reviews = 1..Len(c.reviews)
      /\ a.reviews[i] \in Reviews
  BY DEF PullRequests
<1>2. i \in DOMAIN b.reviews /\ i \in DOMAIN c.reviews
  BY <1>1 DEF Later
<1>3. b.reviews[i] \in Reviews
  BY <1>2 DEF PullRequests
<1>4. b.reviews[i] = a.reviews[i] \/ b.reviews[i] = DismissedOf(a.reviews[i])
  BY DEF Later, DismissedOf
<1>5. c.reviews[i] = b.reviews[i] \/ c.reviews[i] = DismissedOf(b.reviews[i])
  BY <1>2 DEF Later, DismissedOf
<1>6. a.reviews[i] = c.reviews[i] => b.reviews[i] = a.reviews[i]
  BY <1>1, <1>3, <1>4, <1>5, DismissedIs
<1>7. Formal(b.reviews[i]) => b.reviews[i] = a.reviews[i]
  BY <1>1, <1>4, DismissedIs DEF Formal
<1>8. b.reviews[i].state = "dismissed" => c.reviews[i].state = "dismissed"
  BY <1>3, <1>5, DismissedIs
<1> QED
  BY <1>2, <1>6, <1>7, <1>8

-----------------------------------------------------------------------------
(* What an inbox says of a pull request.                                   *)

LEMMA BodyType ==
    ASSUME NEW pr \in PullRequests
    PROVE  /\ Body(pr) \in Bodies
           /\ Body(pr).base = pr.base /\ Body(pr).head = pr.head /\ Body(pr).requested = pr.requested
           /\ Body(pr).all = Len(pr.reviews) + pr.others
<1>1. Len(pr.reviews) + pr.others \in Nat
  BY DEF PullRequests
<1> DEFINE n == Len(pr.reviews) + pr.others
<1> HIDE DEF n
<1>2. Body(pr) = [open |-> pr.open, updated |-> pr.updated, base |-> pr.base, head |-> pr.head,
                  all |-> n, requested |-> pr.requested]
  BY DEF Body, n
<1>3. n \in Nat
  BY <1>1 DEF n
<1>4. Body(pr) \in Bodies
  BY <1>2, <1>3 DEF PullRequests, Bodies
<1>5. Body(pr).all = Len(pr.reviews) + pr.others
  BY <1>2 DEF n
<1> QED
  BY <1>2, <1>4, <1>5

\* The checkpoint is the one review that the reviewer owes a look from.
LEMMA CheckpointIsOwed ==
    ASSUME NEW reviews, NEW b \in Nat, Listing(reviews, b),
           NEW formal, formal = {r \in ToSet(reviews) : Formal(r)},
           NEW owed, owed = {r \in formal : \A q \in formal : q.at < r.at \/ (q.at = r.at /\ q.id <= r.id)}
    PROVE  /\ Checkpoint(reviews) = None => owed = {}
           /\ Checkpoint(reviews) # None => owed = {Checkpoint(reviews)} /\ Checkpoint(reviews) \in FormalOf(reviews)
<1>0. formal = FormalOf(reviews)
  BY DEF FormalOf
<1>1. CASE formal = {}
  BY <1>0, <1>1, CheckpointFinds
<1>2. CASE formal # {}
  <2> DEFINE c == Checkpoint(reviews)
  <2>1. Newest(c, formal)
    BY <1>0, <1>2, CheckpointFinds
  <2>2. c \in formal /\ c \in FormalOf(reviews)
    BY <1>0, <2>1 DEF Newest
  <2>3. \A r \in formal : r.at \in Nat /\ r.id \in Nat
    BY <1>0, FormalElements
  <2>4. c # None
    <3>1. c \in Reviews
      BY <2>2, FormalElements
    <3> QED
      BY <3>1, ResumeAssumption
  <2> HIDE DEF c
  <2>5. \A q \in formal : q.at < c.at \/ (q.at = c.at /\ q.id <= c.id)
    <3> SUFFICES ASSUME NEW q \in formal PROVE q.at < c.at \/ (q.at = c.at /\ q.id <= c.id)
      OBVIOUS
    <3>1. q = c \/ Newer(c, q)
      BY <2>1 DEF Newest
    <3>2. q.at \in Nat /\ q.id \in Nat /\ c.at \in Nat /\ c.id \in Nat
      BY <2>2, <2>3
    <3> QED
      BY <3>1, <3>2 DEF Newer
  <2>6. c \in owed
    BY <2>2, <2>5
  <2>7. ASSUME NEW r \in owed PROVE r = c
    <3>1. r \in formal /\ (c.at < r.at \/ (c.at = r.at /\ c.id <= r.id))
      BY <2>2
    <3>2. r = c \/ Newer(c, r)
      BY <2>1, <3>1 DEF Newest
    <3>3. r.at \in Nat /\ r.id \in Nat /\ c.at \in Nat /\ c.id \in Nat
      BY <2>2, <2>3, <3>1
    <3> QED
      BY <3>1, <3>2, <3>3 DEF Newer
  <2> QED
    BY <2>2, <2>4, <2>6, <2>7 DEF c
<1> QED
  BY <1>1, <1>2

\* A snapshot that has all of a pull request gives an item that describes it.
LEMMA ItemDescribes ==
    ASSUME NEW p \in Pulls, NEW pr \in PullRequests, NEW b \in Nat, Listing(pr.reviews, b),
           NEW snap, snap.reviews = pr.reviews, snap.body = Body(pr)
    PROVE  /\ Item(p, snap) \in Items /\ Item(p, snap).pull = p
           /\ Describes(Item(p, snap), pr)
<1> DEFINE c == Checkpoint(pr.reviews)
           formal == {r \in ToSet(pr.reviews) : Formal(r)}
           owed == {r \in formal : \A q \in formal : q.at < r.at \/ (q.at = r.at /\ q.id <= r.id)}
           d == DecideCandidate(snap, None)
           triggers == Triggers(c.commit, None, pr.head, pr.base, pr.requested)
<1>1. /\ c = None => owed = {}
      /\ c # None => owed = {c} /\ c \in FormalOf(pr.reviews)
  BY CheckpointIsOwed
<1>2. /\ pr.base \in Commits /\ pr.base # None /\ pr.head \in Commits \cup {None}
      /\ pr.requested \in BOOLEAN
  BY ResumeAssumption DEF PullRequests
<1>3. /\ snap.body.base = pr.base /\ snap.body.head = pr.head /\ snap.body.requested = pr.requested
      /\ snap.body.all = Len(pr.reviews) + pr.others
  BY BodyType
<1>4. d = IF c = None THEN Decision("no_eligible_reviews", None, {})
          ELSE IF \/ pr.head = None \/ pr.base = None \/ Len(pr.reviews) + pr.others > MaxReviews
                  \/ c.commit = pr.head
               THEN Unobservable(c)
          ELSE IF triggers = {} THEN Decision("up_to_date", c, {})
          ELSE Decision("actionable", c, triggers)
  BY <1>3 DEF DecideCandidate
<1>5. c.commit # pr.head => "head_changed" \in triggers
  BY DEF Triggers
<1>6. triggers \in SUBSET {"head_changed", "base_drift", "review_re_requested"}
  BY DEF Triggers
<1>7. Item(p, snap) =
        [pull |-> p, status |-> d.status, checkpoint |-> d.checkpoint,
         event |-> IF d.status = "actionable"
                   THEN Event(pr.base, pr.head, d.checkpoint, None, pr.requested, d.triggers)
                   ELSE None]
  BY <1>3 DEF Item
<1>8. Describes(Item(p, snap), pr) <=>
        LET item == Item(p, snap) IN
        /\ {item.checkpoint} \ {None} = owed
        /\ IF item.event = None THEN owed # {} => pr.head = None \/ \E r \in owed : r.commit = pr.head
                                                  \/ Len(pr.reviews) + pr.others > MaxReviews
           ELSE /\ item.event.base = pr.base /\ item.event.head = pr.head
                /\ item.event.requested = pr.requested
                /\ item.event.checkpoint # pr.head
  BY DEF Describes
<1> HIDE DEF d, c, owed, formal, triggers
<1>9. CASE c = None
  <2>1. d = [status |-> "no_eligible_reviews", checkpoint |-> None, triggers |-> {}]
    BY <1>4, <1>9 DEF Decision
  <2>2. Item(p, snap) = [pull |-> p, status |-> "no_eligible_reviews", checkpoint |-> None, event |-> None]
    BY <1>7, <2>1
  <2> QED
    BY <1>1, <1>8, <1>9, <2>2 DEF Items, Statuses
<1>10. CASE c # None
  <2>0. c \in Reviews /\ c.id \in Nat /\ c.commit \in Commits /\ c.state \in {"approved", "changes_requested"}
    BY <1>1, <1>10, FormalElements
  <2>1. CASE pr.head = None \/ Len(pr.reviews) + pr.others > MaxReviews \/ c.commit = pr.head
    <3>1. d = [status |-> "unobservable", checkpoint |-> c, triggers |-> {}]
      BY <1>4, <1>10, <2>1 DEF Decision, Unobservable
    <3>2. Item(p, snap) = [pull |-> p, status |-> "unobservable", checkpoint |-> c, event |-> None]
      BY <1>7, <3>1
    <3> QED
      BY <1>1, <1>8, <1>10, <2>0, <2>1, <3>2 DEF Items, Statuses
  <2>2. CASE ~(pr.head = None \/ Len(pr.reviews) + pr.others > MaxReviews \/ c.commit = pr.head)
    <3>1. d = [status |-> "actionable", checkpoint |-> c, triggers |-> triggers]
      BY <1>2, <1>4, <1>5, <1>10, <2>2 DEF Decision
    <3> DEFINE e == Event(pr.base, pr.head, c, None, pr.requested, triggers)
    <3>2. Item(p, snap) = [pull |-> p, status |-> "actionable", checkpoint |-> c, event |-> e]
      BY <1>7, <3>1
    <3>3. e \in Events /\ e.base = pr.base /\ e.head = pr.head /\ e.requested = pr.requested
          /\ e.checkpoint = c.commit
      BY <1>2, <1>6, <2>0, <2>2 DEF Event, Events
    <3>4. e # None
      BY <3>3, ResumeAssumption
    <3> HIDE DEF e
    <3> QED
      BY <1>1, <1>8, <1>10, <2>0, <2>2, <3>2, <3>3, <3>4 DEF Items, Statuses
  <2> QED
    BY <2>1, <2>2
<1> QED
  BY <1>9, <1>10

-----------------------------------------------------------------------------
(* GitHub moves on.                                                        *)

Histories == Seq([Pulls -> PullRequests])

Extends(g, h) == Len(g) <= Len(h) /\ \A j \in DOMAIN g : h[j] = g[j]

LEMMA ReadGrows ==
    ASSUME NEW g \in Histories, NEW h \in Histories, Extends(g, h), NEW p, NEW snap,
           NEW lo \in DOMAIN g, NEW hi \in Nat, hi <= Len(g), Read(g, p, snap, lo, hi),
           NEW top \in Nat, hi <= top
    PROVE  Read(h, p, snap, lo, top)
<1>1. DOMAIN g = 1..Len(g) /\ Len(g) \in Nat
  BY DEF Histories
<1> SUFFICES ASSUME NEW n \in DOMAIN snap.reviews
             PROVE  \E a \in lo..top :
                      n \in DOMAIN h[a][p].reviews /\ h[a][p].reviews[n] = snap.reviews[n]
  BY DEF Read
<1>2. PICK a \in lo..hi : n \in DOMAIN g[a][p].reviews /\ g[a][p].reviews[n] = snap.reviews[n]
  BY DEF Read
<1>3. a \in DOMAIN g /\ a \in lo..top
  BY <1>1
<1>4. h[a] = g[a]
  BY <1>3 DEF Extends
<1> QED
  BY <1>2, <1>3, <1>4

LEMMA CollectsGrows ==
    ASSUME NEW g \in Histories, NEW h \in Histories, Extends(g, h), NEW x \in Inboxes, Collects(g, x)
    PROVE  Collects(h, x)
<1>1. /\ DOMAIN g = 1..Len(g) /\ Len(g) \in Nat /\ DOMAIN h = 1..Len(h) /\ Len(h) \in Nat
      /\ Len(g) <= Len(h) /\ DOMAIN g \subseteq DOMAIN h
  BY DEF Histories, Extends
<1>2. ASSUME x.pc \in {"snapshot", "revalidate"}
      PROVE  /\ x.since \in DOMAIN h
             /\ Len(x.first) = Len(x.candidates)
             /\ x.i \in 1..Len(x.candidates) + 1
             /\ \A k \in DOMAIN x.first :
                  /\ Read(h, x.candidates[k], x.first[k], x.since, Len(h))
                  /\ x.pc = "revalidate" \/ k < x.i => Len(x.first[k].reviews) = x.first[k].total
  <2>1. /\ x.since \in DOMAIN g
        /\ Len(x.first) = Len(x.candidates)
        /\ x.i \in 1..Len(x.candidates) + 1
        /\ \A k \in DOMAIN x.first :
             /\ Read(g, x.candidates[k], x.first[k], x.since, Len(g))
             /\ x.pc = "revalidate" \/ k < x.i => Len(x.first[k].reviews) = x.first[k].total
    BY <1>2 DEF Collects
  <2>2. \A k \in DOMAIN x.first : Read(h, x.candidates[k], x.first[k], x.since, Len(h))
    BY <1>1, <2>1, ReadGrows
  <2> QED
    BY <1>1, <2>1, <2>2
<1>3. ASSUME x.pc = "revalidate", NEW k \in DOMAIN x.second
      PROVE  \E b \in x.since..Len(h) :
               Confirmed(h, x.candidates[k], x.first[k], x.second[k], x.since, b)
  <2>1. PICK b \in x.since..Len(g) :
              Confirmed(g, x.candidates[k], x.first[k], x.second[k], x.since, b)
    BY <1>3 DEF Collects
  <2>2. x.since \in DOMAIN g
    BY <1>3 DEF Collects
  <2>3. b \in DOMAIN g /\ b \in x.since..Len(h) /\ h[b] = g[b] /\ b \in Nat
    BY <1>1, <2>2 DEF Extends
  <2>4. Read(h, x.candidates[k], x.first[k], x.since, b)
    BY <1>1, <2>1, <2>2, <2>3, ReadGrows DEF Confirmed
  <2>5. Read(h, x.candidates[k], x.second[k], b, Len(h))
    BY <1>1, <2>1, <2>3, ReadGrows DEF Confirmed
  <2>6. Confirmed(h, x.candidates[k], x.first[k], x.second[k], x.since, b)
    BY <2>1, <2>3, <2>4, <2>5 DEF Confirmed
  <2> QED
    BY <2>3, <2>6
<1>4. ASSUME x.pc = "done", NEW k \in DOMAIN x.items
      PROVE  \E j \in DOMAIN h : x.since <= j /\ Describes(x.items[k], h[j][x.items[k].pull])
  <2>1. PICK j \in DOMAIN g : x.since <= j /\ Describes(x.items[k], g[j][x.items[k].pull])
    BY <1>4 DEF Collects
  <2>2. h[j] = g[j] /\ j \in DOMAIN h
    BY <1>1 DEF Extends
  <2> QED
    BY <2>1, <2>2
<1>5. /\ x.pc = "snapshot" => x.second = <<>>
      /\ x.pc = "search" => x.i = 1 /\ x.second = <<>>
      /\ x.pc = "revalidate" => Len(x.second) \in {x.i - 1, x.i} /\ Len(x.second) <= Len(x.candidates)
  BY DEF Collects
<1> QED
  BY <1>2, <1>3, <1>4, <1>5 DEF Collects

LEMMA GlanceGrows ==
    ASSUME NEW g \in Histories, NEW h \in Histories, Extends(g, h), NEW t, t.since \in DOMAIN g,
           NEW c, NEW r, NEW j \in Nat, NEW k \in Nat, Glance(g, t, c, r, j, k)
    PROVE  Glance(h, t, c, r, j, k)
<1>1. /\ DOMAIN g = 1..Len(g) /\ Len(g) \in Nat /\ Len(h) \in Nat /\ Len(g) <= Len(h)
  BY DEF Histories, Extends
<1>2. j \in DOMAIN g /\ k \in DOMAIN g /\ j \in t.since..k /\ k \in t.since..Len(h)
  BY <1>1 DEF Glance
<1>3. h[j] = g[j] /\ h[k] = g[k]
  BY <1>2 DEF Extends
<1> QED
  BY <1>2, <1>3 DEF Glance

LEMMA AgainGrows ==
    ASSUME NEW g \in Histories, NEW h \in Histories, Extends(g, h), NEW t, t.since \in DOMAIN g,
           NEW c, NEW j \in Nat, NEW k \in Nat, NEW l \in Nat, Again(g, t, c, j, k, l)
    PROVE  Again(h, t, c, j, k, l) /\ l \in DOMAIN g
<1>1. /\ DOMAIN g = 1..Len(g) /\ Len(g) \in Nat /\ Len(h) \in Nat /\ Len(g) <= Len(h)
  BY DEF Histories, Extends
<1>2. Glance(h, t, t.checkpoint, t.event.requested, j, k)
  BY GlanceGrows DEF Again
<1>3. k \in t.since..Len(h) /\ l \in k..Len(g)
  BY <1>2 DEF Glance, Again
<1>4. l \in DOMAIN g /\ l \in k..Len(h)
  BY <1>1, <1>3
<1>5. h[l] = g[l]
  BY <1>4 DEF Extends
<1> QED
  BY <1>2, <1>4, <1>5 DEF Again

LEMMA SessionGrows ==
    ASSUME NEW g \in Histories, NEW h \in Histories, Extends(g, h), NEW t \in Local, SessionHolds(g, t)
    PROVE  SessionHolds(h, t)
<1>1. /\ DOMAIN g = 1..Len(g) /\ Len(g) \in Nat /\ DOMAIN h = 1..Len(h) /\ Len(h) \in Nat
      /\ Len(g) <= Len(h) /\ DOMAIN g \subseteq DOMAIN h /\ \A j \in DOMAIN g : h[j] = g[j]
  BY DEF Histories, Extends
<1>2. Placed(h, t)
  <2>1. (\E j \in DOMAIN g : Checkpoint(g[j][t.pull].reviews) = t.checkpoint) =>
          \E j \in DOMAIN h : Checkpoint(h[j][t.pull].reviews) = t.checkpoint
    BY <1>1
  <2>2. Placed(g, t)
    BY DEF SessionHolds
  <2> QED
    BY <2>1, <2>2 DEF Placed
<1>3. Sights(h, t)
  <2>0. Sights(g, t)
    BY DEF SessionHolds
  <2>1. ASSUME t.pc \in Observing \cup Bound
        PROVE  /\ t.since \in DOMAIN g /\ t.since \in DOMAIN h
               /\ h[t.since][t.pull].base = t.base /\ h[t.since][t.pull].head = t.head
    BY <1>1, <2>0, <2>1 DEF Sights
  <2>2. ASSUME t.round = 1, t.pc \in {"observe_review", "observe_requests"}
        PROVE  \E j \in t.since..Len(h) : Checkpoint(h[j][t.pull].reviews) = t.observed
    <3>1. PICK j \in t.since..Len(g) : Checkpoint(g[j][t.pull].reviews) = t.observed
      BY <2>0, <2>2 DEF Sights
    <3>2. t.since \in DOMAIN g
      BY <2>1, <2>2 DEF Observing
    <3>3. j \in DOMAIN g /\ j \in t.since..Len(h)
      BY <1>1, <3>2
    <3> QED
      BY <1>1, <3>1, <3>3
  <2>3. ASSUME t.round = 1, t.pc = "observe_again"
        PROVE  \E j, k \in Nat : Glance(h, t, t.observed, t.requested, j, k)
    <3>1. t.since \in DOMAIN g
      BY <2>1, <2>3 DEF Observing
    <3>2. PICK j, k \in Nat : Glance(g, t, t.observed, t.requested, j, k)
      BY <2>0, <2>3 DEF Sights
    <3> QED
      BY <3>1, <3>2, GlanceGrows
  <2>4. ASSUME t.round = 2, t.pc \in {"observe", "observe_checkpoint"}
        PROVE  \E j, k \in Nat : Glance(h, t, t.checkpoint, t.event.requested, j, k)
    <3>1. t.since \in DOMAIN g
      BY <2>1, <2>4 DEF Observing
    <3>2. PICK j, k \in Nat : Glance(g, t, t.checkpoint, t.event.requested, j, k)
      BY <2>0, <2>4 DEF Sights
    <3> QED
      BY <3>1, <3>2, GlanceGrows
  <2>5. ASSUME t.round = 2, t.pc \in {"observe_review", "observe_requests", "observe_again"}
        PROVE  \E j, k, l \in Nat : Again(h, t, t.observed, j, k, l)
    <3>1. t.since \in DOMAIN g
      BY <2>1, <2>5 DEF Observing
    <3>2. PICK j, k, l \in Nat : Again(g, t, t.observed, j, k, l)
      BY <2>0, <2>5 DEF Sights
    <3>3. Again(h, t, t.observed, j, k, l)
      BY <3>1, <3>2, AgainGrows
    <3> QED
      BY <3>3
  <2>6. ASSUME t.pc \in Bound, t.event # None
        PROVE  \E j, k, l \in Nat :
                 /\ Again(h, t, t.checkpoint, j, k, l)
                 /\ \E m \in l..Len(h) : h[m][t.pull].base = t.base /\ h[m][t.pull].head = t.head
    <3>1. t.since \in DOMAIN g
      BY <2>1, <2>6
    <3>2. PICK j, k, l \in Nat :
            /\ Again(g, t, t.checkpoint, j, k, l)
            /\ \E m \in l..Len(g) : g[m][t.pull].base = t.base /\ g[m][t.pull].head = t.head
      BY <2>0, <2>6 DEF Sights
    <3>3. PICK m \in l..Len(g) : g[m][t.pull].base = t.base /\ g[m][t.pull].head = t.head
      BY <3>2
    <3>4. Again(h, t, t.checkpoint, j, k, l) /\ l \in DOMAIN g
      BY <3>1, <3>2, AgainGrows
    <3>5. m \in DOMAIN g /\ m \in l..Len(h)
      BY <1>1, <3>4
    <3>6. h[m] = g[m]
      BY <1>1, <3>5
    <3> QED
      BY <3>3, <3>4, <3>5, <3>6
  <2> QED
    BY <2>0, <2>1, <2>2, <2>3, <2>4, <2>5, <2>6 DEF Sights
<1> QED
  BY <1>2, <1>3 DEF SessionHolds

\* One pull request becomes another, later one.
LEMMA HistoryGrows ==
    ASSUME TypeOK, HistoryHolds, NEW p \in Pulls, NEW pr \in PullRequests, Later(Now(p), pr),
           clock' \in Nat, clock <= clock',
           \A i \in DOMAIN pr.reviews : pr.reviews[i].id = i /\ pr.reviews[i].at <= clock',
           github' = Append(github, [Last(github) EXCEPT ![p] = pr])
    PROVE  /\ github' \in Histories /\ github' # <<>> /\ HistoryHolds'
           /\ github \in Histories /\ Extends(github, github')
<1> DEFINE g == github
           n == Len(github)
           last == [Last(github) EXCEPT ![p] = pr]
<1>1. g \in Histories /\ n \in Nat \ {0} /\ DOMAIN g = 1..n /\ \A j \in DOMAIN g : g[j] \in [Pulls -> PullRequests]
  BY DEF TypeOK, Histories
<1>2. Last(github) = g[n] /\ g[n] \in [Pulls -> PullRequests]
  BY <1>1 DEF Last
<1>3. last \in [Pulls -> PullRequests] /\ last[p] = pr /\ \A q \in Pulls : q # p => last[q] = g[n][q]
  BY <1>2
<1>4. /\ github' \in Histories /\ Len(github') = n + 1 /\ DOMAIN github' = 1..n + 1
      /\ \A j \in DOMAIN g : github'[j] = g[j]
      /\ github'[n + 1] = last
  BY <1>1, <1>3 DEF Histories
<1> HIDE DEF last
<1>5. ASSUME NEW q \in Pulls PROVE Later(g[n][q], last[q])
  <2>1. CASE q = p
    BY <1>2, <1>3, <2>1 DEF Now
  <2>2. CASE q # p
    <3>1. n \in DOMAIN g /\ n <= n
      BY <1>1
    <3>2. Later(g[n][q], g[n][q])
      BY <3>1 DEF HistoryHolds
    <3> QED
      BY <1>3, <2>2, <3>2
  <2> QED
    BY <2>1, <2>2
<1>6. ASSUME NEW i \in DOMAIN github', NEW j \in DOMAIN github', NEW q \in Pulls, i <= j
      PROVE  Later(github'[i][q], github'[j][q])
  <2>1. CASE j \in DOMAIN g
    <3>1. i \in DOMAIN g
      BY <1>1, <1>4, <1>6, <2>1
    <3> QED
      BY <1>4, <1>6, <2>1, <3>1 DEF HistoryHolds
  <2>2. CASE j = n + 1 /\ i \in DOMAIN g
    <3>1. Later(g[i][q], g[n][q])
      BY <1>1, <2>2 DEF HistoryHolds
    <3>2. g[i][q] \in PullRequests /\ g[n][q] \in PullRequests /\ last[q] \in PullRequests
      BY <1>1, <1>2, <1>3, <2>2
    <3> QED
      BY <1>4, <1>5, <2>2, <3>1, <3>2, LaterAgain
  <2>3. CASE i = n + 1 /\ j = n + 1
    <3>1. github'[i][q] = last[q] /\ github'[j][q] = last[q] /\ last[q] \in PullRequests
      BY <1>3, <1>4, <2>3
    <3> QED
      BY <3>1, LaterSame
  <2> QED
    BY <1>1, <1>4, <1>6, <2>1, <2>2, <2>3
<1>7. ASSUME NEW j \in DOMAIN github', NEW q \in Pulls
      PROVE  \A i \in DOMAIN github'[j][q].reviews :
               github'[j][q].reviews[i].id = i /\ github'[j][q].reviews[i].at <= clock'
  <2>1. ASSUME NEW k \in DOMAIN g, NEW i \in DOMAIN g[k][q].reviews
        PROVE  g[k][q].reviews[i].id = i /\ g[k][q].reviews[i].at <= clock'
    <3>1. g[k][q].reviews[i].id = i /\ g[k][q].reviews[i].at <= clock
      BY DEF HistoryHolds, Numbered
    <3>2. g[k][q] \in PullRequests
      BY <1>1
    <3>3. g[k][q].reviews[i] \in Reviews
      BY <3>2 DEF PullRequests
    <3>4. g[k][q].reviews[i].at \in Nat /\ clock \in Nat
      BY <3>3 DEF Reviews, TypeOK
    <3> QED
      BY <3>1, <3>4
  <2>2. CASE j \in DOMAIN g
    BY <1>4, <2>1, <2>2
  <2>3. CASE j = n + 1 /\ q = p
    BY <1>3, <1>4, <2>3
  <2>4. CASE j = n + 1 /\ q # p
    <3>1. github'[j][q] = g[n][q] /\ n \in DOMAIN g
      BY <1>1, <1>3, <1>4, <2>4
    <3> QED
      BY <2>1, <3>1
  <2> QED
    BY <1>1, <1>4, <2>2, <2>3, <2>4
<1>8. HistoryHolds'
  BY <1>6, <1>7 DEF HistoryHolds, Numbered
<1>9. github' # <<>>
  BY <1>1, <1>4
<1>10. Extends(github, github')
  BY <1>1, <1>4 DEF Extends
<1> QED
  BY <1>1, <1>4, <1>8, <1>9, <1>10

LEMMA SpendType ==
    ASSUME budget \in [Surroundings -> Nat], NEW name \in Surroundings, Spend(name)
    PROVE  budget' \in [Surroundings -> Nat]
<1>1. budget[name] \in Nat /\ budget[name] - 1 \in Nat
  BY DEF Spend
<1> QED
  BY <1>1 DEF Spend

\* As long as its reviews stay what they were.
LEMMA LaterIfReviewed ==
    ASSUME NEW a \in PullRequests, NEW b \in PullRequests, b.reviews = a.reviews
    PROVE  Later(a, b)
<1>1. Later(a, a)
  BY LaterSame
<1> QED
  BY <1>1 DEF Later

\* An event on GitHub that leaves the clock alone.
LEMMA BecomesLater ==
    ASSUME ResumeInv, NEW p \in Pulls, NEW pr \in PullRequests, Becomes(p, pr), UNCHANGED clock,
           Later(Now(p), [pr EXCEPT !.updated = clock]),
           \A i \in DOMAIN pr.reviews : pr.reviews[i].id = i /\ pr.reviews[i].at <= clock
    PROVE  /\ github' \in Histories /\ github' # <<>> /\ HistoryHolds'
           /\ github \in Histories /\ Extends(github, github') /\ clock' \in Nat
           /\ UNCHANGED <<inbox, session, repo, foreign>>
<1>1. TypeOK /\ HistoryHolds /\ clock \in Nat /\ clock' \in Nat /\ clock <= clock'
  BY DEF ResumeInv, TypeOK
<1> DEFINE next == [pr EXCEPT !.updated = clock]
<1>2. next \in PullRequests /\ next.reviews = pr.reviews
  BY <1>1 DEF PullRequests
<1>3. Later(Now(p), next) /\ github' = Append(github, [Last(github) EXCEPT ![p] = next])
      /\ UNCHANGED <<inbox, session, repo, foreign>>
  BY DEF Becomes
<1>4. \A i \in DOMAIN next.reviews : next.reviews[i].id = i /\ next.reviews[i].at <= clock'
  BY <1>2
<1> HIDE DEF next
<1> QED
  BY <1>1, <1>2, <1>3, <1>4, HistoryGrows

LEMMA NowIs ==
    ASSUME ResumeInv, NEW p \in Pulls
    PROVE  /\ Now(p) \in PullRequests /\ Now(p).base \in Nat
           /\ Now(p).head \in Commits \cup {None} /\ (Now(p).head # None => Now(p).head \in Nat)
           /\ Now(p).reviews \in Seq(Reviews)
           /\ \A i \in DOMAIN Now(p).reviews : Now(p).reviews[i].id = i /\ Now(p).reviews[i].at <= clock
<1>1. github \in Seq([Pulls -> PullRequests]) /\ github # <<>> /\ HistoryHolds
  BY DEF ResumeInv, TypeOK
<1>2. Len(github) \in DOMAIN github
  BY <1>1
<1>3. Now(p) = github[Len(github)][p] /\ Now(p) \in PullRequests
  BY <1>1, <1>2 DEF Now, Last
<1>4. Numbered(Now(p))
  BY <1>1, <1>2, <1>3 DEF HistoryHolds
<1>5. Now(p).base \in Commits /\ Now(p).head \in Commits \cup {None} /\ Now(p).reviews \in Seq(Reviews)
  BY <1>3 DEF PullRequests
<1>6. Commits \subseteq Nat
  BY ResumeAssumption
<1>7. Now(p).base \in Nat /\ (Now(p).head # None => Now(p).head \in Nat)
  BY <1>5, <1>6
<1> QED
  BY <1>3, <1>4, <1>5, <1>7 DEF Numbered

\* Later pull requests with the same reviews.
LEMMA SameReviews ==
    ASSUME ResumeInv, NEW p \in Pulls, NEW pr \in PullRequests,
           pr.reviews = Now(p).reviews
    PROVE  /\ Later(Now(p), [pr EXCEPT !.updated = clock])
           /\ \A i \in DOMAIN pr.reviews : pr.reviews[i].id = i /\ pr.reviews[i].at <= clock
<1> DEFINE next == [pr EXCEPT !.updated = clock]
<1>1. clock \in Nat
  BY DEF ResumeInv, TypeOK
<1>2. next \in PullRequests /\ next.reviews = pr.reviews
  BY <1>1 DEF PullRequests
<1> HIDE DEF next
<1>3. Later(Now(p), next)
  BY <1>2, NowIs, LaterIfReviewed
<1> QED
  BY <1>3, NowIs DEF next

Moves ==
    /\ github' \in Histories /\ github' # <<>> /\ HistoryHolds'
    /\ github \in Histories /\ Extends(github, github') /\ clock' \in Nat
    /\ UNCHANGED <<inbox, session, repo, foreign>>

LEMMA PushMoves ==
    ASSUME ResumeInv, NEW p \in Pulls, NEW c \in Commits, Push(p, c) \/ MoveBase(p, c)
    PROVE  Moves
<1>1. PICK pr \in {[Now(p) EXCEPT !.head = c], [Now(p) EXCEPT !.base = c]} :
         Becomes(p, pr) /\ UNCHANGED clock
  BY DEF Push, MoveBase
<1>2. pr \in PullRequests /\ pr.reviews = Now(p).reviews
  BY <1>1, NowIs DEF PullRequests
<1> QED
  BY <1>1, <1>2, SameReviews, BecomesLater DEF Moves

LEMMA FlagMoves ==
    ASSUME ResumeInv, NEW p \in Pulls, AskForReview(p) \/ WithdrawRequest(p) \/ Close(p)
    PROVE  Moves
<1>1. PICK pr \in {[Now(p) EXCEPT !.requested = TRUE], [Now(p) EXCEPT !.requested = FALSE],
                   [Now(p) EXCEPT !.open = FALSE]} : Becomes(p, pr) /\ UNCHANGED clock
  BY DEF AskForReview, WithdrawRequest, Close
<1>2. pr \in PullRequests /\ pr.reviews = Now(p).reviews
  BY <1>1, NowIs DEF PullRequests
<1> QED
  BY <1>1, <1>2, SameReviews, BecomesLater DEF Moves

LEMMA DismissMoves ==
    ASSUME ResumeInv, NEW p \in Pulls, NEW i \in Nat, Dismiss(p, i)
    PROVE  Moves
<1> DEFINE old == Now(p)
           pr == [old EXCEPT !.reviews[i].state = "dismissed"]
           next == [pr EXCEPT !.updated = clock]
<1>1. old \in PullRequests /\ old.reviews \in Seq(Reviews) /\ i \in DOMAIN old.reviews
      /\ Becomes(p, pr) /\ UNCHANGED clock /\ clock \in Nat
  BY NowIs DEF Dismiss, ResumeInv, TypeOK
<1> DEFINE reviews == [old.reviews EXCEPT ![i] = DismissedOf(old.reviews[i])]
<1>2. pr = [old EXCEPT !.reviews = reviews]
  BY <1>1 DEF DismissedOf, PullRequests, Reviews
<1>3. /\ reviews \in Seq(Reviews) /\ Len(reviews) = Len(old.reviews) /\ DOMAIN reviews = DOMAIN old.reviews
      /\ reviews[i] = DismissedOf(old.reviews[i])
      /\ \A k \in DOMAIN old.reviews : k # i => reviews[k] = old.reviews[k]
  <2>1. DismissedOf(old.reviews[i]) \in Reviews
    BY <1>1, DismissedIs
  <2> HIDE DEF old
  <2> QED
    BY <1>1, <2>1
<1> HIDE DEF reviews
<1>4. pr \in PullRequests /\ pr.reviews = reviews /\ pr.base = old.base /\ pr.head = old.head
  BY <1>1, <1>2, <1>3 DEF PullRequests
<1> HIDE DEF pr
<1>5. next \in PullRequests /\ next.reviews = reviews /\ next.base = old.base /\ next.head = old.head
  BY <1>1, <1>4 DEF PullRequests
<1>6. Later(old, next)
  <2>1. Later(old, old)
    BY <1>1, LaterSame
  <2>2. \A k \in DOMAIN old.reviews : reviews[k] = old.reviews[k] \/ reviews[k] = DismissedOf(old.reviews[k])
    BY <1>3
  <2> HIDE DEF next, old
  <2> QED
    BY <1>3, <1>5, <2>1, <2>2 DEF Later, DismissedOf
<1>7. \A k \in DOMAIN pr.reviews : pr.reviews[k].id = k /\ pr.reviews[k].at <= clock
  <2>1. \A k \in DOMAIN old.reviews : old.reviews[k] \in Reviews /\ old.reviews[k].id = k /\ old.reviews[k].at <= clock
    BY <1>1, NowIs
  <2> HIDE DEF old
  <2>2. \A k \in DOMAIN old.reviews : DismissedOf(old.reviews[k]).id = k /\ DismissedOf(old.reviews[k]).at <= clock
    BY <2>1, DismissedIs
  <2> QED
    BY <1>3, <1>4, <2>1, <2>2
<1> QED
  BY <1>1, <1>4, <1>6, <1>7, BecomesLater DEF Moves

LEMMA SubmitMoves ==
    ASSUME ResumeInv, NEW p \in Pulls, NEW state \in {"approved", "commented"}, NEW tick \in {0, 1},
           Submit(p, state, tick)
    PROVE  Moves
<1> DEFINE old == Now(p)
           r == [id |-> Len(old.reviews) + 1, state |-> state, commit |-> old.head, at |-> clock + tick]
           reviews == Append(old.reviews, r)
           pr == [old EXCEPT !.reviews = reviews, !.requested = FALSE, !.updated = clock + tick]
<1>1. TypeOK /\ HistoryHolds /\ old \in PullRequests /\ old.reviews \in Seq(Reviews) /\ clock \in Nat
  BY NowIs DEF ResumeInv, TypeOK
<1>2. /\ old.head # None /\ clock' = clock + tick
      /\ github' = Append(github, [Last(github) EXCEPT ![p] = pr])
      /\ UNCHANGED <<inbox, session, repo, foreign>>
  BY DEF Submit
<1>3. clock + tick \in Nat /\ clock <= clock + tick /\ clock' \in Nat /\ clock <= clock'
  BY <1>1, <1>2
<1>4. r \in Reviews /\ r.id = Len(old.reviews) + 1 /\ r.at = clock + tick
  <2>1. Len(old.reviews) + 1 \in Nat /\ old.head \in Commits
    BY <1>1, <1>2, NowIs
  <2> HIDE DEF old
  <2> QED
    BY <1>3, <2>1 DEF Reviews
<1>5. \A i \in DOMAIN old.reviews : old.reviews[i].id = i /\ old.reviews[i].at <= clock
      /\ old.reviews[i].at \in Nat
  <2>1. \A i \in DOMAIN old.reviews : old.reviews[i] \in Reviews
    BY <1>1
  <2>2. \A i \in DOMAIN old.reviews : old.reviews[i].at \in Nat
    BY <2>1 DEF Reviews
  <2> QED
    BY <2>2, NowIs
<1> HIDE DEF r, old
<1>6. /\ reviews \in Seq(Reviews) /\ Len(reviews) = Len(old.reviews) + 1
      /\ DOMAIN reviews = 1..Len(old.reviews) + 1 /\ DOMAIN old.reviews = 1..Len(old.reviews)
      /\ Len(old.reviews) \in Nat
      /\ \A i \in DOMAIN old.reviews : reviews[i] = old.reviews[i]
      /\ reviews[Len(old.reviews) + 1] = r
  BY <1>1, <1>4
<1> HIDE DEF reviews
<1>7. pr \in PullRequests /\ pr.reviews = reviews /\ pr.base = old.base /\ pr.head = old.head
  BY <1>1, <1>3, <1>6 DEF PullRequests
<1> HIDE DEF pr
<1>8. Later(old, pr)
  <2>1. Later(old, old)
    BY <1>1, LaterSame
  <2> QED
    BY <1>6, <1>7, <2>1 DEF Later
<1>9. \A i \in DOMAIN pr.reviews : pr.reviews[i].id = i /\ pr.reviews[i].at <= clock'
  <2> SUFFICES ASSUME NEW i \in DOMAIN reviews PROVE reviews[i].id = i /\ reviews[i].at <= clock'
    BY <1>7
  <2>1. CASE i = Len(old.reviews) + 1
    BY <1>2, <1>3, <1>4, <1>6, <2>1
  <2>2. CASE i \in DOMAIN old.reviews
    BY <1>1, <1>2, <1>3, <1>5, <1>6, <2>2
  <2> QED
    BY <1>6, <2>1, <2>2
<1>10. Later(Now(p), pr)
  BY <1>8 DEF old
<1> QED
  BY <1>1, <1>2, <1>3, <1>7, <1>9, <1>10, HistoryGrows DEF Moves

LEMMA NothingChanges ==
    ASSUME KeepsHold, RefsHold, OthersHold, UNCHANGED <<session, repo, foreign>>
    PROVE  (KeepsHold /\ RefsHold /\ OthersHold)'
<1>1. session' = session /\ repo' = repo /\ foreign' = foreign
  OBVIOUS
<1>2. KeepsHold' /\ RefsHold'
  BY <1>1 DEF KeepsHold, RefsHold
<1>3. OthersHold'
  BY <1>1 DEF OthersHold, Spares
<1> QED
  BY <1>2, <1>3

\* What has been read so far is not undone by what happens on GitHub.
LEMMA GithubStepHolds ==
    ASSUME ResumeInv, GithubStep
    PROVE  ResumeInv'
<1>1. Moves /\ budget' \in [Surroundings -> Nat]
  <2>0. budget \in [Surroundings -> Nat]
    BY DEF ResumeInv, TypeOK
  <2>1. PICK p \in Pulls :
        \/ \E c \in Commits : Push(p, c) \/ MoveBase(p, c)
        \/ \E state \in {"approved", "commented"}, tick \in {0, 1} : Submit(p, state, tick)
        \/ \E i \in 1..MaxReviews : Dismiss(p, i)
        \/ AskForReview(p)
        \/ WithdrawRequest(p)
        \/ Close(p)
    BY DEF GithubStep
  <2>2. CASE \E c \in Commits : Push(p, c) \/ MoveBase(p, c)
    <3>1. Spend("push") \/ Spend("base")
      BY <2>2 DEF Push, MoveBase
    <3> QED
      BY <2>0, <2>2, <3>1, PushMoves, SpendType DEF Surroundings
  <2>3. CASE \E state \in {"approved", "commented"}, tick \in {0, 1} : Submit(p, state, tick)
    <3>1. Spend("submit")
      BY <2>3 DEF Submit
    <3> QED
      BY <2>0, <2>3, <3>1, SubmitMoves, SpendType DEF Surroundings
  <2>4. CASE \E i \in 1..MaxReviews : Dismiss(p, i)
    <3>1. Spend("dismiss")
      BY <2>4 DEF Dismiss
    <3>2. \E i \in Nat : Dismiss(p, i)
      BY <2>4, ResumeAssumption
    <3> QED
      BY <2>0, <3>1, <3>2, DismissMoves, SpendType DEF Surroundings
  <2>5. CASE AskForReview(p) \/ WithdrawRequest(p) \/ Close(p)
    <3>1. Spend("ask") \/ Spend("withdraw") \/ Spend("close")
      BY <2>5 DEF AskForReview, WithdrawRequest, Close
    <3> QED
      BY <2>0, <2>5, <3>1, FlagMoves, SpendType DEF Surroundings
  <2> QED
    BY <2>1, <2>2, <2>3, <2>4, <2>5
<1>2. TypeOK'
  BY <1>1 DEF ResumeInv, TypeOK, Moves, Histories
<1>3. HistoryHolds'
  BY <1>1 DEF Moves
<1>4. Collects(github, inbox)'
  <2>1. Collects(github, inbox) /\ inbox \in Inboxes /\ inbox' = inbox
    BY <1>1 DEF ResumeInv, TypeOK, Moves
  <2>2. Collects(github', inbox)
    BY <1>1, <2>1, CollectsGrows DEF Moves
  <2> QED
    BY <2>1, <2>2
<1>5. ASSUME NEW s \in Sessions PROVE SessionHolds(github', session[s])
  <2>1. SessionHolds(github, session[s]) /\ session[s] \in Local
    BY DEF ResumeInv, TypeOK
  <2> QED
    BY <1>1, <2>1, SessionGrows DEF Moves
<1>6. (KeepsHold /\ RefsHold /\ OthersHold)'
  <2>1. UNCHANGED <<session, repo, foreign>>
    BY <1>1 DEF Moves
  <2> QED
    BY <2>1, NothingChanges DEF ResumeInv
<1>7. UNCHANGED session
  BY <1>1 DEF Moves
<1> QED
  BY <1>2, <1>3, <1>4, <1>5, <1>6, <1>7 DEF ResumeInv

-----------------------------------------------------------------------------
(* The inbox is collected.                                                 *)

\* A step of the collection concerns nothing else.
LEMMA InboxStepsHold ==
    ASSUME ResumeInv, NEW next, InboxSteps(next), next \in Inboxes, Collects(github, next)
    PROVE  ResumeInv'
<1>1. inbox' = next /\ UNCHANGED <<github, clock, session, repo, foreign, budget>>
  BY DEF InboxSteps
<1>2. TypeOK'
  BY <1>1 DEF ResumeInv, TypeOK
<1>3. HistoryHolds'
  BY <1>1 DEF ResumeInv, HistoryHolds, Numbered
<1>4. Collects(github, inbox)'
  BY <1>1
<1>5. (KeepsHold /\ RefsHold /\ OthersHold)'
  BY <1>1, NothingChanges DEF ResumeInv
<1>6. \A s \in Sessions : SessionHolds(github', session'[s])
  BY <1>1 DEF ResumeInv
<1> QED
  BY <1>2, <1>3, <1>4, <1>5, <1>6 DEF ResumeInv

LEMMA FailedCollects ==
    ASSUME NEW h
    PROVE  FailInbox \in Inboxes /\ Collects(h, FailInbox)
<1>0. FailInbox =
        [pc |-> "failed", candidates |-> <<>>, count |-> 0, i |-> 1, first |-> <<>>, second |-> <<>>,
         calls |-> 0, items |-> <<>>, status |-> None, since |-> 0]
  BY DEF FailInbox, NoInbox
<1>1. FailInbox \in Inboxes
  BY <1>0 DEF Inboxes
<1>2. FailInbox.pc = "failed"
  BY DEF FailInbox, NoInbox
<1> QED
  BY <1>1, <1>2 DEF Collects

\* Counting a request is not what the invariant is about.
LEMMA CallHolds ==
    ASSUME ResumeInv, NEW then \in Inboxes, Collects(github, then), Call(then)
    PROVE  ResumeInv'
<1>1. inbox.calls + 1 \in Nat
  BY DEF ResumeInv, TypeOK, Inboxes
<1> DEFINE next == [then EXCEPT !.calls = inbox.calls + 1]
<1>2. next \in Inboxes
  BY <1>1 DEF Inboxes
<1>3. /\ next.pc = then.pc /\ next.candidates = then.candidates /\ next.i = then.i /\ next.first = then.first
      /\ next.second = then.second /\ next.items = then.items /\ next.since = then.since
  BY DEF Inboxes
<1> HIDE DEF next
<1>4. Collects(github, next)
  BY <1>3 DEF Collects
<1>5. InboxSteps(next) \/ InboxSteps(FailInbox)
  BY DEF Call, next
<1> QED
  BY <1>2, <1>4, <1>5, FailedCollects, InboxStepsHold

\* A page is what the listing has at its place.
LEMMA PageIs ==
    ASSUME NEW pr \in PullRequests, NEW n \in Nat
    PROVE  /\ Page(pr, n) \in Seq(Reviews)
           /\ \A m \in DOMAIN Page(pr, n) :
                n + m \in DOMAIN pr.reviews /\ Page(pr, n)[m] = pr.reviews[n + m]
<1> DEFINE r == pr.reviews
           e == IF n + ReviewsPerPage < Len(r) THEN n + ReviewsPerPage ELSE Len(r)
<1>1. r \in Seq(Reviews) /\ Len(r) \in Nat /\ DOMAIN r = 1..Len(r)
  BY DEF PullRequests
<1>2. e \in Nat /\ e <= Len(r)
  BY <1>1, ResumeAssumption
<1>3. Page(pr, n) = SubSeq(r, n + 1, e)
  BY DEF Page
<1> HIDE DEF e, r
<1>4. SubSeq(r, n + 1, e) \in Seq(Reviews)
  BY <1>1, <1>2
<1>5. \A m \in DOMAIN SubSeq(r, n + 1, e) : n + m \in DOMAIN r /\ SubSeq(r, n + 1, e)[m] = r[n + m]
  BY <1>1, <1>2
<1> QED
  BY <1>3, <1>4, <1>5 DEF r

LEMMA FirstPageReads ==
    ASSUME NEW h \in Histories, h # <<>>, NEW p \in Pulls
    PROVE  LET pr == h[Len(h)][p] IN
           /\ FirstPage(pr) \in Snaps /\ FirstPage(pr).body = Body(pr) /\ FirstPage(pr).total = Len(pr.reviews)
           /\ Read(h, p, FirstPage(pr), Len(h), Len(h))
<1> DEFINE pr == h[Len(h)][p]
<1>1. pr \in PullRequests /\ Len(h) \in Nat
  BY DEF Histories
<1> HIDE DEF pr
<1>2. Len(pr.reviews) \in Nat /\ HasNextPage(pr, 0) \in BOOLEAN
  BY <1>1 DEF PullRequests, HasNextPage
<1> DEFINE page == Page(pr, 0)
           n == Len(pr.reviews)
           more == HasNextPage(pr, 0)
           body == Body(pr)
<1>3. page \in Seq(Reviews) /\ body \in Bodies /\ n \in Nat /\ more \in BOOLEAN
  BY <1>1, <1>2, PageIs, BodyType
<1>4. \A m \in DOMAIN page : m \in DOMAIN pr.reviews /\ page[m] = pr.reviews[m]
  <2>1. \A m \in DOMAIN page : 0 + m \in DOMAIN pr.reviews /\ page[m] = pr.reviews[0 + m] /\ 0 + m = m
    BY <1>1, <1>3, PageIs
  <2> QED
    BY <2>1
<1>5. FirstPage(pr) = [body |-> body, reviews |-> page, total |-> n, more |-> more, pages |-> 1]
  BY DEF FirstPage
<1> HIDE DEF page, n, more, body
<1>6. FirstPage(pr) \in Snaps /\ FirstPage(pr).body = body /\ FirstPage(pr).total = n
      /\ FirstPage(pr).reviews = page
  BY <1>3, <1>5 DEF Snaps
<1>7. Len(h) \in Len(h)..Len(h)
  BY <1>1
<1>8. Read(h, p, FirstPage(pr), Len(h), Len(h))
  BY <1>4, <1>6, <1>7 DEF Read, pr
<1> QED
  BY <1>6, <1>8 DEF pr, body, n

LEMMA NextPageReads ==
    ASSUME NEW h \in Histories, h # <<>>, NEW p \in Pulls, NEW snap \in Snaps,
           NEW lo \in DOMAIN h, Read(h, p, snap, lo, Len(h))
    PROVE  LET next == NextPage(snap, h[Len(h)][p]) IN
           /\ next \in Snaps /\ next.body = snap.body /\ next.total = snap.total
           /\ Read(h, p, next, lo, Len(h))
<1> DEFINE pr == h[Len(h)][p]
           n == Len(snap.reviews)
           page == Page(pr, n)
           all == snap.reviews \o page
           more == HasNextPage(pr, n)
           next == NextPage(snap, pr)
<1>1. pr \in PullRequests /\ Len(h) \in Nat /\ snap.reviews \in Seq(Reviews) /\ n \in Nat
      /\ Len(h) \in lo..Len(h)
  BY DEF Histories, Snaps
<1>2. page \in Seq(Reviews) /\ \A m \in DOMAIN page : n + m \in DOMAIN pr.reviews /\ page[m] = pr.reviews[n + m]
  <2> HIDE DEF pr, n
  <2> QED BY <1>1, PageIs
<1>3. more \in BOOLEAN
  BY DEF HasNextPage
<1>4. next = [snap EXCEPT !.reviews = all, !.more = more, !.pages = snap.pages + 1]
  BY DEF NextPage
<1> HIDE DEF pr, page, more, next
<1>5. /\ all \in Seq(Reviews) /\ DOMAIN all = 1..Len(all) /\ Len(all) = n + Len(page) /\ Len(page) \in Nat
      /\ DOMAIN snap.reviews = 1..n /\ DOMAIN page = 1..Len(page)
      /\ \A k \in DOMAIN snap.reviews : all[k] = snap.reviews[k]
      /\ \A k \in DOMAIN all : k \notin DOMAIN snap.reviews => k - n \in DOMAIN page /\ all[k] = page[k - n]
  BY <1>1, <1>2
<1> HIDE DEF all, n
<1>6. snap.pages + 1 \in Nat
  BY DEF Snaps
<1>7. next \in Snaps /\ next.body = snap.body /\ next.total = snap.total /\ next.reviews = all
  BY <1>3, <1>4, <1>5, <1>6 DEF Snaps
<1>8. ASSUME NEW k \in DOMAIN all
      PROVE  \E a \in lo..Len(h) : k \in DOMAIN h[a][p].reviews /\ h[a][p].reviews[k] = all[k]
  <2>1. CASE k \in DOMAIN snap.reviews
    BY <1>5, <2>1 DEF Read
  <2>2. CASE k \notin DOMAIN snap.reviews
    <3>1. k - n \in DOMAIN page /\ all[k] = page[k - n] /\ n + (k - n) = k
      BY <1>1, <1>5, <2>2
    <3>2. k \in DOMAIN pr.reviews /\ all[k] = pr.reviews[k]
      BY <1>2, <3>1
    <3> QED
      BY <1>1, <3>2 DEF pr
  <2> QED
    BY <2>1, <2>2
<1>9. Read(h, p, next, lo, Len(h))
  BY <1>7, <1>8 DEF Read
<1> QED
  BY <1>7, <1>9 DEF next, pr

\* Two equal complete snapshots, the second begun when the first was complete,
\* are the pull request as it was when the second was begun.
LEMMA ConfirmedIsReal ==
    ASSUME NEW h \in Histories, NEW p \in Pulls, NEW snap \in Snaps,
           \A i, j \in DOMAIN h : i <= j => Later(h[i][p], h[j][p]),
           NEW lo \in DOMAIN h, NEW b \in lo..Len(h), Confirmed(h, p, snap, snap, lo, b),
           Len(snap.reviews) = snap.total
    PROVE  snap.reviews = h[b][p].reviews /\ snap.body = Body(h[b][p])
<1> DEFINE r == h[b][p].reviews
<1>1. /\ DOMAIN h = 1..Len(h) /\ Len(h) \in Nat /\ b \in DOMAIN h
      /\ \A a \in DOMAIN h : h[a][p] \in PullRequests
  BY DEF Histories
<1>2. r \in Seq(Reviews) /\ snap.reviews \in Seq(Reviews) /\ Len(snap.reviews) = Len(r)
      /\ snap.body = Body(h[b][p])
  BY <1>1 DEF PullRequests, Snaps, Confirmed
<1>3. ASSUME NEW i \in DOMAIN snap.reviews PROVE snap.reviews[i] = r[i]
  <2>1. PICK a \in lo..b : i \in DOMAIN h[a][p].reviews /\ h[a][p].reviews[i] = snap.reviews[i]
    BY DEF Confirmed, Read
  <2>2. PICK c \in b..Len(h) : i \in DOMAIN h[c][p].reviews /\ h[c][p].reviews[i] = snap.reviews[i]
    BY DEF Confirmed, Read
  <2>3. a \in DOMAIN h /\ c \in DOMAIN h /\ a <= b /\ b <= c
    BY <1>1
  <2>4. Later(h[a][p], h[b][p]) /\ Later(h[b][p], h[c][p])
    BY <1>1, <2>3
  <2> QED
    BY <1>1, <2>1, <2>2, <2>3, <2>4, SameBetween
<1> HIDE DEF r
<1>4. snap.reviews = r
  <2>1. DOMAIN snap.reviews = DOMAIN r
    BY <1>2
  <2> QED
    BY <1>2, <1>3, <2>1
<1> QED
  BY <1>2, <1>4 DEF r

LEMMA InboxFacts ==
    ASSUME ResumeInv
    PROVE  /\ github \in Histories /\ github # <<>> /\ Len(github) \in DOMAIN github /\ DOMAIN github = 1..Len(github)
           /\ Len(github) \in Nat
           /\ inbox \in Inboxes /\ Collects(github, inbox)
           /\ \A p \in Pulls : Now(p) = github[Len(github)][p]
<1>1. github \in Histories /\ github # <<>> /\ inbox \in Inboxes /\ Collects(github, inbox)
  BY DEF ResumeInv, TypeOK, Histories
<1> QED
  BY <1>1 DEF Histories, Now, Last

LEMMA SearchHolds ==
    ASSUME ResumeInv, NEW candidates \in SeqOf(Pulls, Limit), Search(candidates)
    PROVE  ResumeInv'
<1>0. github \in Histories /\ github # <<>> /\ inbox \in Inboxes /\ Collects(github, inbox)
  BY InboxFacts
<1>1. candidates \in Seq(Pulls)
  BY ResumeAssumption DEF SeqOf
<1>2. Cardinality(Reviewed) \in Nat
  <2>1. Reviewed \in SUBSET Pulls
    BY DEF Reviewed
  <2>2. IsFiniteSet(Reviewed)
    BY <2>1, FS_Subset, ResumeAssumption
  <2> QED
    BY <2>2, FS_CardinalityType
<1> DEFINE first == [k \in DOMAIN candidates |-> FirstPage(Now(candidates[k]))]
           n == Len(github)
           count == Cardinality(Reviewed)
           next == [inbox EXCEPT !.pc = "snapshot", !.candidates = candidates, !.count = count,
                                 !.first = first, !.since = n]
<1>3. \A k \in DOMAIN candidates :
        /\ first[k] \in Snaps /\ Read(github, candidates[k], first[k], n, n)
  <2> SUFFICES ASSUME NEW k \in DOMAIN candidates
               PROVE  first[k] \in Snaps /\ Read(github, candidates[k], first[k], n, n)
    OBVIOUS
  <2>1. candidates[k] \in Pulls
    BY <1>1
  <2>2. first[k] = FirstPage(github[n][candidates[k]])
    BY <2>1, InboxFacts
  <2> HIDE DEF first
  <2> QED
    BY <1>0, <2>1, <2>2, FirstPageReads
<1>4. first \in Seq(Snaps) /\ Len(first) = Len(candidates) /\ DOMAIN first = DOMAIN candidates
  <2>1. DOMAIN candidates = 1..Len(candidates) /\ Len(candidates) \in Nat
    BY <1>1
  <2>2. first \in [1..Len(candidates) -> Snaps]
    BY <1>3, <2>1
  <2> HIDE DEF first
  <2> QED
    BY <2>1, <2>2
<1>5. Call(IF \A p \in ToSet(candidates) : ValidPullRequest(Now(p)) THEN next ELSE FailInbox)
      /\ inbox.pc = "search"
  BY DEF Search
<1>6. n \in DOMAIN github /\ n \in Nat
  BY InboxFacts
<1> HIDE DEF first, n, count
<1>7. /\ next \in Inboxes /\ next.pc = "snapshot" /\ next.candidates = candidates /\ next.first = first
      /\ next.since = n /\ next.i = inbox.i /\ next.second = inbox.second
  <2>1. count \in Nat
    BY <1>2 DEF count
  <2> QED
    BY <1>0, <1>1, <1>4, <1>6, <2>1 DEF Inboxes
<1> HIDE DEF next
<1>8. inbox.i = 1 /\ inbox.second = <<>>
  BY <1>0, <1>5 DEF Collects
<1>9. Collects(github, next)
  <2>1. next.i \in 1..Len(candidates) + 1 /\ \A k \in DOMAIN candidates : ~(k < next.i)
    BY <1>1, <1>7, <1>8
  <2> QED
    BY <1>3, <1>4, <1>6, <1>7, <1>8, <2>1 DEF Collects, n
<1> QED
  BY <1>5, <1>7, <1>9, FailedCollects, CallHolds

LEMMA CompleteSnapshotHolds ==
    ASSUME ResumeInv, CompleteSnapshot
    PROVE  ResumeInv'
<1> DEFINE h == github
           x == inbox
           i == inbox.i
           p == inbox.candidates[inbox.i]
           snap == inbox.first[inbox.i]
           page == [inbox EXCEPT !["first"][inbox.i] = NextPage(snap, Now(p))]
           turn == [inbox EXCEPT !.i = inbox.i + 1]
<1>0. h \in Histories /\ h # <<>> /\ x \in Inboxes /\ Collects(h, x) /\ Len(h) \in Nat
  BY InboxFacts
<1>1. x.pc = "snapshot" /\ i <= Len(x.candidates)
  BY DEF CompleteSnapshot
<1>2. /\ x.candidates \in Seq(Pulls) /\ x.first \in Seq(Snaps) /\ x.i \in Nat
  BY <1>0 DEF Inboxes
<1>3. /\ x.since \in DOMAIN h /\ Len(x.first) = Len(x.candidates) /\ x.i \in 1..Len(x.candidates) + 1
      /\ \A k \in DOMAIN x.first :
           /\ Read(h, x.candidates[k], x.first[k], x.since, Len(h))
           /\ k < x.i => Len(x.first[k].reviews) = x.first[k].total
      /\ x.second = <<>>
  BY <1>0, <1>1 DEF Collects
<1>4. i \in DOMAIN x.candidates /\ i \in DOMAIN x.first /\ p \in Pulls /\ snap \in Snaps
      /\ Read(h, p, snap, x.since, Len(h))
  BY <1>1, <1>2, <1>3
<1>5. \/ Call(page) \/ Call(FailInbox) \/ InboxSteps(FailInbox)
      \/ InboxSteps(turn) /\ CompleteReviews(snap)
  BY DEF CompleteSnapshot, Turn
<1>6. ASSUME Call(page) PROVE ResumeInv'
  <2> DEFINE next == NextPage(snap, h[Len(h)][p])
  <2>0. h \in Histories /\ h # <<>> /\ p \in Pulls /\ snap \in Snaps /\ x.since \in DOMAIN h
        /\ Read(h, p, snap, x.since, Len(h))
    BY <1>0, <1>3, <1>4
  <2>1. next \in Snaps /\ Read(h, p, next, x.since, Len(h))
    <3> HIDE DEF h, p, snap
    <3> QED BY <2>0, NextPageReads
  <2>2. Now(p) = h[Len(h)][p]
    BY <1>4, InboxFacts
  <2>3. page = [inbox EXCEPT !.first = [inbox.first EXCEPT ![i] = next]]
    BY <2>2
  <2> HIDE DEF next, snap, p, page
  <2> DEFINE first == [inbox.first EXCEPT ![i] = next]
  <2>4. /\ first \in Seq(Snaps) /\ Len(first) = Len(x.first) /\ DOMAIN first = DOMAIN x.first
        /\ first[i] = next /\ \A k \in DOMAIN x.first : k # i => first[k] = x.first[k]
    BY <1>2, <1>4, <2>1
  <2> HIDE DEF first
  <2>5. /\ page \in Inboxes /\ page.pc = "snapshot" /\ page.candidates = x.candidates /\ page.first = first
        /\ page.since = x.since /\ page.i = x.i /\ page.second = x.second
    BY <1>0, <1>1, <2>3, <2>4 DEF Inboxes, first
  <2>6. ASSUME NEW k \in DOMAIN first
        PROVE  /\ Read(h, x.candidates[k], first[k], x.since, Len(h))
               /\ k < x.i => Len(first[k].reviews) = first[k].total
    <3>1. CASE k = i
      BY <1>2, <2>1, <2>4, <3>1 DEF p
    <3>2. CASE k # i
      BY <1>3, <2>4, <3>2
    <3> QED
      BY <3>1, <3>2
  <2>7. Collects(h, page)
    BY <1>3, <2>4, <2>5, <2>6 DEF Collects
  <2> QED
    BY <1>6, <2>5, <2>7, CallHolds
<1>7. ASSUME InboxSteps(turn), CompleteReviews(snap) PROVE ResumeInv'
  <2>1. i + 1 \in Nat
    BY <1>2
  <2>2. /\ turn \in Inboxes /\ turn.pc = "snapshot" /\ turn.candidates = x.candidates /\ turn.first = x.first
        /\ turn.since = x.since /\ turn.i = x.i + 1 /\ turn.second = x.second
    BY <1>0, <1>1, <2>1 DEF Inboxes
  <2>3. Len(x.first[i].reviews) = x.first[i].total
    BY <1>7 DEF CompleteReviews
  <2>4. \A k \in DOMAIN x.first : k < x.i + 1 => k = i \/ k < x.i
    BY <1>2
  <2>5. x.i + 1 \in 1..Len(x.candidates) + 1
    BY <1>1, <1>2, <1>3
  <2> HIDE DEF turn
  <2>6. Collects(h, turn)
    BY <1>3, <2>2, <2>3, <2>4, <2>5 DEF Collects
  <2> QED
    BY <1>7, <2>2, <2>6, InboxStepsHold
<1> QED
  BY <1>5, <1>6, <1>7, FailedCollects, CallHolds, InboxStepsHold

LEMMA StartRevalidationHolds ==
    ASSUME ResumeInv, StartRevalidation
    PROVE  ResumeInv'
<1> DEFINE h == github
           x == inbox
           next == [inbox EXCEPT !.pc = "revalidate", !.i = 1]
<1>0. x \in Inboxes /\ Collects(h, x)
  BY InboxFacts
<1>1. x.pc = "snapshot" /\ x.i > Len(x.candidates) /\ InboxSteps(next)
  BY DEF StartRevalidation
<1>2. /\ x.candidates \in Seq(Pulls) /\ x.first \in Seq(Snaps) /\ x.i \in Nat
  BY <1>0 DEF Inboxes
<1>3. /\ x.since \in DOMAIN h /\ Len(x.first) = Len(x.candidates) /\ x.i \in 1..Len(x.candidates) + 1
      /\ \A k \in DOMAIN x.first :
           /\ Read(h, x.candidates[k], x.first[k], x.since, Len(h))
           /\ k < x.i => Len(x.first[k].reviews) = x.first[k].total
      /\ x.second = <<>>
  BY <1>0, <1>1 DEF Collects
<1>4. \A k \in DOMAIN x.first : k < x.i
  BY <1>1, <1>2, <1>3
<1>5. /\ next \in Inboxes /\ next.pc = "revalidate" /\ next.candidates = x.candidates /\ next.first = x.first
      /\ next.since = x.since /\ next.i = 1 /\ next.second = <<>>
  BY <1>0, <1>3 DEF Inboxes
<1>6. 1 \in 1..Len(x.candidates) + 1 /\ Len(<<>>) = 0 /\ 0 <= Len(x.candidates) /\ DOMAIN <<>> = {}
  BY <1>2
<1> HIDE DEF next
<1>7. Collects(h, next)
  BY <1>3, <1>4, <1>5, <1>6 DEF Collects
<1> QED
  BY <1>1, <1>5, <1>7, InboxStepsHold

\* What the invariant says while candidates are read again.
LEMMA RevalidateFacts ==
    ASSUME ResumeInv, inbox.pc = "revalidate"
    PROVE  /\ inbox.candidates \in Seq(Pulls) /\ inbox.first \in Seq(Snaps) /\ inbox.second \in Seq(Snaps)
           /\ inbox.i \in Nat
           /\ inbox.since \in DOMAIN github /\ Len(inbox.first) = Len(inbox.candidates)
           /\ inbox.i \in 1..Len(inbox.candidates) + 1
           /\ \A k \in DOMAIN inbox.first :
                /\ Read(github, inbox.candidates[k], inbox.first[k], inbox.since, Len(github))
                /\ Len(inbox.first[k].reviews) = inbox.first[k].total
           /\ Len(inbox.second) \in {inbox.i - 1, inbox.i} /\ Len(inbox.second) <= Len(inbox.candidates)
           /\ \A k \in DOMAIN inbox.second : \E b \in inbox.since..Len(github) :
                Confirmed(github, inbox.candidates[k], inbox.first[k], inbox.second[k], inbox.since, b)
<1>1. inbox \in Inboxes /\ Collects(github, inbox)
  BY InboxFacts
<1>2. inbox.candidates \in Seq(Pulls) /\ inbox.first \in Seq(Snaps) /\ inbox.second \in Seq(Snaps)
      /\ inbox.i \in Nat
  BY <1>1 DEF Inboxes
<1> QED
  BY <1>1, <1>2 DEF Collects

\* A new collection of second snapshots.
LEMMA RevalidatesTo ==
    ASSUME ResumeInv, inbox.pc = "revalidate", NEW next \in Inboxes,
           next.pc = "revalidate", next.candidates = inbox.candidates, next.first = inbox.first,
           next.since = inbox.since, next.i \in 1..Len(inbox.candidates) + 1,
           Len(next.second) \in {next.i - 1, next.i}, Len(next.second) <= Len(inbox.candidates),
           \A k \in DOMAIN next.second : \E b \in inbox.since..Len(github) :
                Confirmed(github, inbox.candidates[k], inbox.first[k], next.second[k], inbox.since, b)
    PROVE  Collects(github, next)
BY RevalidateFacts DEF Collects

LEMMA RevalidateSnapshotHolds ==
    ASSUME ResumeInv, RevalidateSnapshot
    PROVE  ResumeInv'
<1> DEFINE h == github
           x == inbox
           i == inbox.i
           p == inbox.candidates[inbox.i]
           snap == FirstPage(h[Len(h)][p])
           second == Append(inbox.second, snap)
           next == [inbox EXCEPT !.second = second]
<1>0. h \in Histories /\ h # <<>> /\ x \in Inboxes /\ Len(h) \in Nat /\ Len(h) \in DOMAIN h /\ DOMAIN h = 1..Len(h)
  BY InboxFacts
<1>1. x.pc = "revalidate" /\ i <= Len(x.candidates) /\ Len(x.second) < i
  BY DEF RevalidateSnapshot
<1>2. /\ x.candidates \in Seq(Pulls) /\ x.first \in Seq(Snaps) /\ x.second \in Seq(Snaps) /\ x.i \in Nat
      /\ x.since \in DOMAIN h /\ Len(x.first) = Len(x.candidates) /\ x.i \in 1..Len(x.candidates) + 1
      /\ Len(x.second) \in {x.i - 1, x.i}
  BY <1>1, RevalidateFacts
<1>3. i \in DOMAIN x.candidates /\ i \in DOMAIN x.first /\ p \in Pulls /\ Len(x.second) = i - 1
  BY <1>1, <1>2
<1>4. Now(p) = h[Len(h)][p]
  BY <1>3, InboxFacts
<1>5. Call(next) \/ Call(FailInbox)
  BY <1>4 DEF RevalidateSnapshot
<1>6. snap \in Snaps /\ snap.body = Body(h[Len(h)][p]) /\ snap.total = Len(h[Len(h)][p].reviews)
      /\ Read(h, p, snap, Len(h), Len(h))
  <2> HIDE DEF h, p
  <2> QED BY <1>0, <1>3, FirstPageReads
<1>7. Confirmed(h, p, x.first[i], snap, x.since, Len(h))
  <2>1. Read(h, p, x.first[i], x.since, Len(h))
    BY <1>1, <1>3, RevalidateFacts
  <2> HIDE DEF h, p, snap
  <2> QED
    BY <1>6, <2>1 DEF Confirmed
<1>8. Len(h) \in x.since..Len(h)
  BY <1>0, <1>2
<1> HIDE DEF snap, p
<1>9. /\ second \in Seq(Snaps) /\ Len(second) = i /\ DOMAIN second = 1..i /\ DOMAIN x.second = 1..i - 1
      /\ second[i] = snap /\ \A k \in DOMAIN x.second : second[k] = x.second[k]
  BY <1>2, <1>3, <1>6
<1> HIDE DEF second
<1>10. /\ next \in Inboxes /\ next.pc = "revalidate" /\ next.candidates = x.candidates /\ next.first = x.first
       /\ next.since = x.since /\ next.i = x.i /\ next.second = second
  BY <1>0, <1>1, <1>9 DEF Inboxes
<1> HIDE DEF next
<1>11. ASSUME NEW k \in DOMAIN second
       PROVE  \E b \in x.since..Len(h) : Confirmed(h, x.candidates[k], x.first[k], second[k], x.since, b)
  <2>1. CASE k = i
    BY <1>7, <1>8, <1>9, <2>1 DEF p
  <2>2. CASE k # i
    <3>1. k \in DOMAIN x.second /\ second[k] = x.second[k]
      BY <1>2, <1>9, <2>2
    <3> QED
      BY <1>1, <3>1, RevalidateFacts
  <2> QED
    BY <2>1, <2>2
<1>12. Len(second) \in {next.i - 1, next.i} /\ Len(second) <= Len(x.candidates)
  BY <1>1, <1>9, <1>10
<1>13. Collects(h, next)
  BY <1>1, <1>2, <1>10, <1>11, <1>12, RevalidatesTo
<1> QED
  BY <1>5, <1>10, <1>13, FailedCollects, CallHolds

LEMMA RevalidatePagesHolds ==
    ASSUME ResumeInv, RevalidatePages
    PROVE  ResumeInv'
<1> DEFINE h == github
           x == inbox
           i == inbox.i
           p == inbox.candidates[inbox.i]
           snap == inbox.second[inbox.i]
           page == [inbox EXCEPT !["second"][inbox.i] = NextPage(snap, Now(p))]
           turn == [inbox EXCEPT !.i = inbox.i + 1]
<1>0. h \in Histories /\ h # <<>> /\ x \in Inboxes /\ Len(h) \in Nat /\ DOMAIN h = 1..Len(h)
  BY InboxFacts
<1>1. x.pc = "revalidate" /\ i <= Len(x.candidates) /\ Len(x.second) = i
  BY DEF RevalidatePages
<1>2. /\ x.candidates \in Seq(Pulls) /\ x.first \in Seq(Snaps) /\ x.second \in Seq(Snaps) /\ x.i \in Nat
      /\ x.since \in DOMAIN h /\ Len(x.first) = Len(x.candidates) /\ x.i \in 1..Len(x.candidates) + 1
      /\ Len(x.second) <= Len(x.candidates)
      /\ \A k \in DOMAIN x.second : \E b \in x.since..Len(h) :
           Confirmed(h, x.candidates[k], x.first[k], x.second[k], x.since, b)
  BY <1>1, RevalidateFacts
<1>3. i \in DOMAIN x.candidates /\ i \in DOMAIN x.second /\ p \in Pulls /\ snap \in Snaps
  BY <1>1, <1>2
<1>4. Call(page) \/ Call(FailInbox) \/ InboxSteps(FailInbox) \/ InboxSteps(turn)
  BY DEF RevalidatePages, Turn
<1>5. ASSUME Call(page) PROVE ResumeInv'
  <2> DEFINE next == NextPage(snap, h[Len(h)][p])
  <2>1. PICK b \in x.since..Len(h) : Confirmed(h, p, x.first[i], snap, x.since, b)
    BY <1>2, <1>3
  <2>2. b \in DOMAIN h
    BY <1>0, <1>2
  <2>3. Now(p) = h[Len(h)][p]
    BY <1>3, InboxFacts
  <2>4. page = [inbox EXCEPT !.second = [inbox.second EXCEPT ![i] = next]]
    BY <2>3
  <2>5. next \in Snaps /\ next.body = snap.body /\ next.total = snap.total /\ Read(h, p, next, b, Len(h))
    <3>1. Read(h, p, snap, b, Len(h))
      BY <2>1 DEF Confirmed
    <3> HIDE DEF h, p, snap
    <3> QED
      BY <1>0, <1>3, <2>2, <3>1, NextPageReads
  <2> HIDE DEF next, snap, p, page
  <2>6. Confirmed(h, p, x.first[i], next, x.since, b)
    BY <2>1, <2>5 DEF Confirmed
  <2> DEFINE second == [inbox.second EXCEPT ![i] = next]
  <2>7. /\ second \in Seq(Snaps) /\ Len(second) = i /\ DOMAIN second = DOMAIN x.second
        /\ second[i] = next /\ \A k \in DOMAIN x.second : k # i => second[k] = x.second[k]
    BY <1>1, <1>2, <1>3, <2>5
  <2> HIDE DEF second
  <2>8. /\ page \in Inboxes /\ page.pc = "revalidate" /\ page.candidates = x.candidates
        /\ page.first = x.first /\ page.since = x.since /\ page.i = x.i /\ page.second = second
    BY <1>0, <1>1, <2>4, <2>7 DEF Inboxes, second
  <2>9. ASSUME NEW k \in DOMAIN second
        PROVE  \E c \in x.since..Len(h) : Confirmed(h, x.candidates[k], x.first[k], second[k], x.since, c)
    <3>1. CASE k = i
      BY <2>6, <2>7, <3>1 DEF p
    <3>2. CASE k # i
      BY <1>2, <2>7, <3>2
    <3> QED
      BY <3>1, <3>2
  <2>10. Collects(h, page)
    BY <1>1, <1>2, <2>7, <2>8, <2>9, RevalidatesTo
  <2> QED
    BY <1>5, <2>8, <2>10, CallHolds
<1>6. ASSUME InboxSteps(turn) PROVE ResumeInv'
  <2>1. i + 1 \in Nat /\ i + 1 \in 1..Len(x.candidates) + 1 /\ (i + 1) - 1 = i
    BY <1>1, <1>2
  <2>2. /\ turn \in Inboxes /\ turn.pc = "revalidate" /\ turn.candidates = x.candidates /\ turn.first = x.first
        /\ turn.since = x.since /\ turn.i = x.i + 1 /\ turn.second = x.second
    BY <1>0, <1>1, <2>1 DEF Inboxes
  <2> HIDE DEF turn
  <2>3. Collects(h, turn)
    BY <1>1, <1>2, <2>1, <2>2, RevalidatesTo
  <2> QED
    BY <1>6, <2>2, <2>3, InboxStepsHold
<1> QED
  BY <1>4, <1>5, <1>6, FailedCollects, CallHolds, InboxStepsHold

LEMMA FinishInboxHolds ==
    ASSUME ResumeInv, FinishInbox
    PROVE  ResumeInv'
<1> DEFINE h == github
           x == inbox
           items == [k \in DOMAIN inbox.candidates |-> Item(inbox.candidates[k], inbox.first[k])]
           status == InboxStatus(inbox.count > Len(inbox.candidates), {items[k].status : k \in DOMAIN items})
           next == [NoInbox EXCEPT !.pc = "done", !.items = items, !.since = inbox.since,
                                   !.calls = inbox.calls, !.count = inbox.count, !.status = status]
<1>0. h \in Histories /\ x \in Inboxes /\ Len(h) \in Nat /\ DOMAIN h = 1..Len(h) /\ HistoryHolds
      /\ clock \in Nat
  BY InboxFacts DEF ResumeInv, TypeOK
<1>1. x.pc = "revalidate" /\ x.i > Len(x.candidates)
  BY DEF FinishInbox
<1>2. /\ x.candidates \in Seq(Pulls) /\ x.first \in Seq(Snaps) /\ x.second \in Seq(Snaps) /\ x.i \in Nat
      /\ x.since \in DOMAIN h /\ Len(x.first) = Len(x.candidates) /\ x.i \in 1..Len(x.candidates) + 1
      /\ \A k \in DOMAIN x.first : Len(x.first[k].reviews) = x.first[k].total
      /\ Len(x.second) \in {x.i - 1, x.i} /\ Len(x.second) <= Len(x.candidates)
      /\ \A k \in DOMAIN x.second : \E b \in x.since..Len(h) :
           Confirmed(h, x.candidates[k], x.first[k], x.second[k], x.since, b)
  BY <1>1, RevalidateFacts
<1>3. /\ DOMAIN x.candidates = 1..Len(x.candidates) /\ DOMAIN x.first = DOMAIN x.candidates
      /\ DOMAIN x.second = DOMAIN x.candidates /\ Len(x.candidates) \in Nat
  BY <1>1, <1>2
<1>4. \/ InboxSteps(FailInbox)
      \/ InboxSteps(next) /\ \A k \in DOMAIN items : SnapshotMatches(x.first[k], x.second[k])
  BY DEF FinishInbox
<1>5. DOMAIN items = DOMAIN x.candidates /\ \A k \in DOMAIN x.candidates : items[k] = Item(x.candidates[k], x.first[k])
  OBVIOUS
<1>6. ASSUME InboxSteps(next), \A k \in DOMAIN items : SnapshotMatches(x.first[k], x.second[k])
      PROVE  ResumeInv'
  <2>1. ASSUME NEW k \in DOMAIN x.candidates
        PROVE  /\ items[k] \in Items /\ items[k].pull = x.candidates[k]
               /\ \E j \in DOMAIN h : x.since <= j /\ Describes(items[k], h[j][items[k].pull])
    <3> DEFINE p == x.candidates[k]
               snap == x.first[k]
    <3>1. p \in Pulls /\ snap \in Snaps /\ x.second[k] = snap /\ Len(snap.reviews) = snap.total
      BY <1>2, <1>3, <1>5, <1>6 DEF SnapshotMatches
    <3>2. PICK b \in x.since..Len(h) : Confirmed(h, p, snap, snap, x.since, b)
      BY <1>2, <1>3, <3>1
    <3>3. b \in DOMAIN h /\ x.since <= b
      BY <1>0, <1>2
    <3>4. \A i, j \in DOMAIN h : i <= j => Later(h[i][p], h[j][p])
      BY <1>0, <3>1 DEF HistoryHolds
    <3> HIDE DEF p, snap
    <3>5. snap.reviews = h[b][p].reviews /\ snap.body = Body(h[b][p])
      BY <1>0, <1>2, <3>1, <3>2, <3>4, ConfirmedIsReal
    <3>6. h[b][p] \in PullRequests /\ Listing(h[b][p].reviews, clock)
      <4>1. h[b][p] \in PullRequests
        BY <1>0, <3>1, <3>3 DEF Histories
      <4>2. Numbered(h[b][p])
        BY <1>0, <3>1, <3>3 DEF HistoryHolds
      <4>3. h[b][p].reviews \in Seq(Reviews)
        BY <4>1 DEF PullRequests
      <4> QED
        BY <4>1, <4>2, <4>3 DEF Numbered, Listing
    <3>7. items[k] = Item(p, snap)
      BY <1>5 DEF p, snap
    <3> HIDE DEF items
    <3>8. items[k] \in Items /\ items[k].pull = p /\ Describes(items[k], h[b][p])
      BY <1>0, <3>1, <3>5, <3>6, <3>7, ItemDescribes
    <3> QED
      BY <3>3, <3>8 DEF p
  <2>2. items \in Seq(Items) /\ Len(items) = Len(x.candidates)
    <3>1. items \in [1..Len(x.candidates) -> Items]
      BY <1>3, <2>1
    <3> HIDE DEF items
    <3> QED
      BY <1>3, <3>1
  <2>3. status \in Statuses \cup {"partial", "insufficient_evidence", None}
    <3> DEFINE more == inbox.count > Len(inbox.candidates)
               all == {items[k].status : k \in DOMAIN items}
    <3> HIDE DEF more, all
    <3>1. InboxStatus(more, all) \in Statuses \cup {"partial", "insufficient_evidence", None}
      BY DEF InboxStatus, Statuses
    <3> QED
      BY <3>1 DEF more, all
  <2>4. x.calls \in Nat /\ x.count \in Nat /\ x.since \in Nat
    BY <1>0 DEF Inboxes
  <2> HIDE DEF items, status
  <2>5. NoInbox \in Inboxes
    BY DEF NoInbox, Inboxes
  <2>6. next \in Inboxes /\ next.pc = "done" /\ next.items = items /\ next.since = x.since
    <3> DEFINE all == Statuses \cup {"partial", "insufficient_evidence", None}
    <3>1. Inboxes = [pc : {"search", "snapshot", "revalidate", "done", "failed"}, candidates : Seq(Pulls),
                     count : Nat, i : Nat, first : Seq(Snaps), second : Seq(Snaps), calls : Nat,
                     items : Seq(Items), status : all, since : Nat]
      BY DEF Inboxes
    <3>2. status \in all
      BY <2>3
    <3> HIDE DEF all
    <3> QED
      BY <2>2, <2>4, <2>5, <3>1, <3>2
  <2>7. Collects(h, next)
    BY <1>5, <2>1, <2>6 DEF Collects
  <2> QED
    BY <1>6, <2>6, <2>7, InboxStepsHold
<1> QED
  BY <1>4, <1>6, FailedCollects, InboxStepsHold

LEMMA InboxStepHolds ==
    ASSUME ResumeInv, InboxStep
    PROVE  ResumeInv'
<1>1. ASSUME NEW candidates \in {c \in SeqOf(Pulls, Limit) : IsInjective(c)}, Search(candidates)
      PROVE  ResumeInv'
  BY <1>1, SearchHolds
<1> QED
  BY <1>1, CompleteSnapshotHolds, StartRevalidationHolds, RevalidateSnapshotHolds, RevalidatePagesHolds,
     FinishInboxHolds DEF InboxStep

-----------------------------------------------------------------------------
(* A session steps.                                                        *)

\* Where a session knows what it is to show.
Preparing == LocalPcs \cup OwnPcs \cup {"latest"}
Ready == Preparing \cup Observing \cup Bound

\* What a step leaves alone that is only at another place now.
SameTask(t, n) ==
    /\ n.pull = t.pull /\ n.event = t.event /\ n.base = t.base /\ n.head = t.head
    /\ n.checkpoint = t.checkpoint /\ n.mode = t.mode
SameMarks(t, n) ==
    /\ n.refs = t.refs /\ n.keeps = t.keeps /\ n.cleanup = t.cleanup /\ n.missed = t.missed
SameSights(t, n) ==
    /\ n.merge = t.merge /\ n.round = t.round /\ n.observed = t.observed /\ n.requested = t.requested
    /\ n.since = t.since /\ n.shown = t.shown
SameFetch(t, n) ==
    n.i = t.i /\ n.before = t.before /\ n.listing = t.listing

LEMMA PcChanges ==
    ASSUME NEW t \in Local, NEW q \in Pcs, NEW n, n = [t EXCEPT !.pc = q]
    PROVE  n \in Local /\ n.pc = q /\ SameTask(t, n) /\ SameMarks(t, n) /\ SameSights(t, n) /\ SameFetch(t, n)
<1>1. n \in Local /\ n.pc = q
  BY DEF Local
<1>2. SameTask(t, n) /\ SameMarks(t, n)
  BY DEF Local, SameTask, SameMarks
<1>3. SameSights(t, n) /\ SameFetch(t, n)
  BY DEF Local, SameSights, SameFetch
<1> QED
  BY <1>1, <1>2, <1>3

LEMMA FailureIs ==
    ASSUME NEW t \in Local, NEW n, n = Failed(t)
    PROVE  n \in Local /\ n.pc = "cleanup" /\ SameTask(t, n) /\ SameMarks(t, n)
<1>0. "cleanup" \in Pcs /\ "failed" \in Errors
  BY DEF Pcs, Ended, Errors
<1>1. n \in Local /\ n.pc = "cleanup"
  BY <1>0 DEF Local, Failed
<1>2. SameTask(t, n) /\ SameMarks(t, n)
  BY DEF Local, Failed, SameTask, SameMarks
<1> QED
  BY <1>1, <1>2

\* A session that is over, or almost, claims nothing any more.
LEMMA EndedHolds ==
    ASSUME NEW h, NEW n, n.pc \in Ended, n.pull \in Pulls, n.pc = "delete" => n.refs # <<>>,
           n.pc = "done" => n.refs = <<>> /\ n.keeps = {}, n.mode = "ephemeral" => n.keeps = {}
    PROVE  SessionHolds(h, n)
<1>1. /\ n.pc \notin Early \cup {"checkpoint"} \cup LocalPcs \cup OwnPcs \cup {"latest"} \cup Observing \cup Bound
      /\ n.pc # "idle" /\ n.pc # "open"
  BY DEF Ended, Early, LocalPcs, OwnPcs, Observing, Bound
<1>2. Placed(h, n)
  BY <1>1 DEF Placed
<1>3. Works(n)
  BY <1>1 DEF Works
<1>4. Merges(n)
  BY <1>1 DEF Merges, OwnPcs
<1>5. Sights(h, n)
  BY <1>1 DEF Sights, Observing
<1> QED
  BY <1>1, <1>2, <1>3, <1>4, <1>5 DEF SessionHolds, Opens

LEMMA PlacedStays ==
    ASSUME NEW h, NEW t, NEW n, SameTask(t, n), t.pc \in Ready, n.pc \in Ready, Placed(h, t)
    PROVE  Placed(h, n)
<1>1. \A q \in Ready : q \notin Early \cup Ended \cup {"checkpoint"} /\ q # "idle"
  BY DEF Ready, Preparing, Early, Ended, LocalPcs, OwnPcs, Observing, Bound
<1>2. /\ t.pc \notin Early \cup Ended \cup {"checkpoint"} /\ t.pc # "idle"
      /\ n.pc \notin Early \cup Ended \cup {"checkpoint"} /\ n.pc # "idle"
  BY <1>1
<1> QED
  BY <1>2 DEF Placed, SameTask

LEMMA PreparesOn ==
    ASSUME NEW h, NEW t, NEW n, SameTask(t, n), t.pc \in Preparing, n.pc \in Preparing, n.round = t.round,
           SessionHolds(h, t), Works(n), Merges(n)
    PROVE  SessionHolds(h, n)
<1>1. \A q \in Preparing : q \in Ready /\ q \notin Observing \cup Bound \cup Ended /\ q # "open"
        /\ q \notin {"observe_review", "observe_requests", "observe_again", "observe", "observe_checkpoint"}
  BY DEF Ready, Preparing, Ended, LocalPcs, OwnPcs, Observing, Bound
<1>2. t.pc \in Ready /\ n.pc \in Ready
  BY <1>1
<1>3. Placed(h, n)
  BY <1>2, PlacedStays DEF SessionHolds
<1>4. t.round = 1
  BY <1>1 DEF SessionHolds, Sights
<1>5. Sights(h, n)
  BY <1>1, <1>4 DEF Sights
<1> QED
  BY <1>1, <1>3, <1>5 DEF SessionHolds, Opens

Repos == [Sessions \cup {Shared} -> Repo]
Budgets == [Surroundings -> Nat]

LEMMA PartialIs ==
    ASSUME NEW S, NEW T, NEW f \in Partial(S, T)
    PROVE  DOMAIN f \subseteq S /\ \A x \in DOMAIN f : f[x] \in T
BY DEF Partial

\* What is where in a repository.
LEMMA RepoIs ==
    ASSUME NEW x \in Repo
    PROVE  /\ x.refs \in Partial(Names, Commits \cup {0}) /\ x.keeps \in Partial(Commits, Keep)
           /\ DOMAIN x.refs \subseteq Names /\ DOMAIN x.keeps \subseteq Commits
           /\ \A r \in DOMAIN x.refs : r[1] \in Sessions /\ r[2] \in 1..4
           /\ \A c \in DOMAIN x.keeps : x.keeps[c].pid \in Nat /\ x.keeps[c].by \in Nat
<1>1. x.refs \in Partial(Names, Commits \cup {0}) /\ x.keeps \in Partial(Commits, Keep)
  BY DEF Repo
<1>2. DOMAIN x.refs \subseteq Names
  BY <1>1, PartialIs
<1>3. DOMAIN x.keeps \subseteq Commits /\ \A c \in DOMAIN x.keeps : x.keeps[c] \in Keep
  BY <1>1, PartialIs
<1>4. \A r \in Names : r[1] \in Sessions /\ r[2] \in 1..4
  BY DEF Names
<1> QED
  BY <1>1, <1>2, <1>3, <1>4 DEF Keep

LEMMA SharedFacts ==
    ASSUME TypeOK
    PROVE  /\ Shared \notin Sessions /\ repo[Shared] \in Repo
           /\ \A s \in Sessions : session[s] \in Local /\ repo[s] \in Repo
<1>1. Shared \notin Sessions
  BY ResumeAssumption DEF Shared
<1> QED
  BY <1>1 DEF TypeOK

\* How a session's step may change the shared repository: it adds and removes
\* keep files and refs of its own.
LEMMA SharesHold ==
    ASSUME ResumeInv, NEW s \in Sessions, NEW n, Does(s, n), Spares(n),
           NEW keeps, keeps = repo[Shared].keeps, NEW refs, refs = repo[Shared].refs,
           NEW k, k = repo'[Shared].keeps, NEW f, f = repo'[Shared].refs,
           \A c \in DOMAIN k : \/ k[c].by = s /\ k[c].pid = s /\ Accounted(n, c)
                               \/ /\ c \in DOMAIN keeps /\ k[c] = keeps[c]
                                  /\ k[c].by = s => Accounted(n, c),
           \A c \in DOMAIN keeps : c \in foreign.dead \/ keeps[c].pid = 0 => c \in DOMAIN k /\ k[c] = keeps[c],
           \A r \in DOMAIN f : /\ r[1] \in Sessions
                               /\ r[1] = s => Listed(n, r[2])
                               /\ r[1] # s => r \in DOMAIN refs,
           \A r \in DOMAIN refs : refs[r] = 0 => r \in DOMAIN f /\ f[r] = 0
    PROVE  KeepsHold' /\ RefsHold' /\ OthersHold'
<1>1. /\ session \in [Sessions -> Local] /\ session' = [session EXCEPT ![s] = n] /\ foreign' = foreign
      /\ KeepsHold /\ RefsHold /\ OthersHold
  BY DEF ResumeInv, TypeOK, Does
<1>2. session'[s] = n /\ \A u \in Sessions : u # s => session'[u] = session[u]
  BY <1>1
<1>3. KeepsHold'
  <2> SUFFICES ASSUME NEW c \in DOMAIN k, k[c].by \in Sessions
               PROVE  k[c].pid = k[c].by /\ Accounted(session'[k[c].by], c)
    BY DEF KeepsHold, Accounted
  <2>1. CASE k[c].by = s /\ k[c].pid = s /\ Accounted(n, c)
    BY <1>2, <2>1
  <2>2. CASE c \in DOMAIN keeps /\ k[c] = keeps[c] /\ (k[c].by = s => Accounted(n, c))
    <3>1. k[c].pid = k[c].by /\ Accounted(session[k[c].by], c)
      BY <1>1, <2>2 DEF KeepsHold
    <3> QED
      BY <1>2, <2>2, <3>1
  <2> QED
    BY <2>1, <2>2
<1>4. RefsHold'
  <2> SUFFICES ASSUME NEW r \in DOMAIN f
               PROVE  Listed(session'[r[1]], r[2])
    BY DEF RefsHold, Listed
  <2>1. CASE r[1] = s
    BY <1>2, <2>1
  <2>2. CASE r[1] # s
    <3>1. Listed(session[r[1]], r[2])
      BY <1>1, <2>2 DEF RefsHold
    <3> QED
      BY <1>2, <2>2, <3>1
  <2> QED
    BY <2>1, <2>2
<1>5. OthersHold'
  <2>1. /\ foreign.pack # None =>
             foreign.pack \in DOMAIN k /\ foreign.pack \notin foreign.dead /\ k[foreign.pack].pid = 0
        /\ foreign.dead \subseteq DOMAIN k
    BY <1>1 DEF OthersHold
  <2>2. \A u \in Sessions : Spares(session'[u])
    BY <1>1, <1>2 DEF OthersHold
  <2>3. foreign.moved \subseteq DOMAIN f /\ \A r \in foreign.moved : f[r] = 0
    BY <1>1 DEF OthersHold
  <2>4. \A u \in Sessions : Spares(session[u])'
    BY <1>1, <2>2 DEF Spares
  <2> QED
    BY <1>1, <2>1, <2>3, <2>4 DEF OthersHold
<1> QED
  BY <1>3, <1>4, <1>5

\* What a step of a session has to preserve.
LEMMA SessionStepsHold ==
    ASSUME ResumeInv, NEW s \in Sessions, NEW n \in Local, Does(s, n), SessionHolds(github, n),
           repo' \in Repos, budget' \in Budgets, KeepsHold', RefsHold', OthersHold'
    PROVE  ResumeInv'
<1>1. /\ session' = [session EXCEPT ![s] = n] /\ UNCHANGED <<github, clock, inbox, foreign>>
  BY DEF Does
<1>2. session \in [Sessions -> Local] /\ session' \in [Sessions -> Local]
  BY <1>1 DEF ResumeInv, TypeOK
<1>3. TypeOK'
  BY <1>1, <1>2 DEF ResumeInv, TypeOK, Repos, Budgets
<1>4. HistoryHolds'
  BY <1>1 DEF ResumeInv, HistoryHolds, Numbered
<1>5. Collects(github, inbox)'
  BY <1>1 DEF ResumeInv
<1>6. \A u \in Sessions : SessionHolds(github', session'[u])
  BY <1>1, <1>2 DEF ResumeInv
<1> QED
  BY <1>3, <1>4, <1>5, <1>6 DEF ResumeInv

\* Steps that the shared repository does not notice.
Quiet(t, n) ==
    \/ t.pc = "idle" /\ n.pc = "first" /\ n.keeps = {}
    \/ /\ n.mode = t.mode /\ n.keeps = t.keeps /\ n.missed = t.missed
       /\ (n.refs = t.refs /\ n.cleanup = t.cleanup) \/ t.mode = "ephemeral"
       /\ \/ n.pc = "killed"
          \/ t.pc \notin {"list", "inspect", "killed"} /\ n.pc \notin {"import", "list", "inspect"}
          \/ n.pc = t.pc /\ SameFetch(t, n)

LEMMA QuietHolds ==
    ASSUME ResumeInv, NEW s \in Sessions, NEW n \in Local, Does(s, n), SessionHolds(github, n),
           Quiet(session[s], n), repo' \in Repos, repo'[Shared] = repo[Shared], budget' \in Budgets
    PROVE  ResumeInv'
<1> DEFINE t == session[s]
           keeps == repo[Shared].keeps
           refs == repo[Shared].refs
<1>1. /\ Spares(t) /\ \A c \in DOMAIN keeps : keeps[c].by = s => Accounted(t, c)
      /\ \A r \in DOMAIN refs : r[1] \in Sessions /\ (r[1] = s => Listed(t, r[2]))
  <2>1. repo[Shared] \in Repo
    BY SharedFacts DEF ResumeInv
  <2> QED
    BY <2>1, RepoIs DEF ResumeInv, OthersHold, KeepsHold, RefsHold
<1>2. Spares(n)
  BY <1>1 DEF Quiet, Spares, SameFetch
<1>0. t.pc = "idle" => t.keeps = {} /\ t.refs = <<>> /\ ~t.missed /\ t.cleanup = "clean"
  BY DEF ResumeInv, SessionHolds, Placed
<1>3. \A c : Accounted(t, c) => Accounted(n, c)
  BY <1>0 DEF Quiet, Accounted, SameFetch
<1>4. \A i : Listed(t, i) => Listed(n, i)
  BY <1>0 DEF Quiet, Listed
<1>5. KeepsHold' /\ RefsHold' /\ OthersHold'
  <2> HIDE DEF t
  <2>1. PICK k, f : k = keeps /\ f = refs
    OBVIOUS
  <2>2. k = repo[Shared].keeps /\ f = repo[Shared].refs /\ k = repo'[Shared].keeps /\ f = repo'[Shared].refs
    BY <2>1
  <2>3. \A c \in DOMAIN k : k[c].by = s => Accounted(n, c)
    BY <1>1, <1>3, <2>1
  <2>4. \A r \in DOMAIN f : r[1] \in Sessions /\ (r[1] = s => Listed(n, r[2]))
    BY <1>1, <1>4, <2>1
  <2> HIDE DEF keeps, refs
  <2> QED
    BY <1>2, <2>2, <2>3, <2>4, SharesHold
<1> QED
  BY <1>5, SessionStepsHold

\* The same for a step that changes nothing but the session.
LEMMA StepsQuietly ==
    ASSUME ResumeInv, NEW s \in Sessions, NEW n \in Local, Steps(s, n), SessionHolds(github, n),
           Quiet(session[s], n)
    PROVE  ResumeInv'
<1>1. Does(s, n) /\ repo' = repo /\ budget' = budget
  BY DEF Steps
<1>2. repo' \in Repos /\ budget' \in Budgets
  BY <1>1 DEF ResumeInv, TypeOK, Repos, Budgets
<1> QED
  BY <1>1, <1>2, QuietHolds

\* A failure is quiet, except while keep files are being registered.
LEMMA FailureHolds ==
    ASSUME ResumeInv, NEW s \in Sessions, session[s].pc \notin {"idle", "list", "inspect", "killed"}
    PROVE  /\ Failed(session[s]) \in Local /\ SessionHolds(github, Failed(session[s]))
           /\ Quiet(session[s], Failed(session[s]))
<1> DEFINE t == session[s]
<1>1. t \in Local /\ SessionHolds(github, t)
  BY DEF ResumeInv, TypeOK
<1>2. PICK n : n = Failed(t)
  OBVIOUS
<1> HIDE DEF t
<1>3. n \in Local /\ n.pc = "cleanup" /\ SameTask(t, n) /\ SameMarks(t, n)
  BY <1>1, <1>2, FailureIs
<1>4. SessionHolds(github, n)
  <2>1. n.pull \in Pulls
    BY <1>1, <1>3 DEF SessionHolds, Placed, SameTask, t
  <2>2. n.mode = "ephemeral" => n.keeps = {}
    BY <1>1, <1>3 DEF SessionHolds, Works, SameTask, SameMarks
  <2>3. n.pc \in Ended
    BY <1>3 DEF Ended
  <2> QED
    BY <1>3, <2>1, <2>2, <2>3, EndedHolds
<1>5. Quiet(t, n)
  BY <1>3 DEF Quiet, SameTask, SameMarks, t
<1> QED
  BY <1>2, <1>3, <1>4, <1>5 DEF t

LEMMA FailsQuietly ==
    ASSUME ResumeInv, NEW s \in Sessions, session[s].pc \notin {"idle", "list", "inspect", "killed"},
           Steps(s, Failed(session[s]))
    PROVE  ResumeInv'
BY FailureHolds, StepsQuietly

LEMMA SessionFacts ==
    ASSUME ResumeInv, NEW s \in Sessions
    PROVE  /\ session[s] \in Local
           /\ Placed(github, session[s]) /\ Works(session[s]) /\ Merges(session[s])
           /\ Sights(github, session[s]) /\ SessionHolds(github, session[s])
           /\ session[s].pc # "idle" => session[s].pull \in Pulls
BY DEF ResumeInv, TypeOK, SessionHolds, Placed

\* What a session reads of its pull request is the last of its states.
LEMMA Reading ==
    ASSUME ResumeInv, NEW p \in Pulls
    PROVE  /\ Len(github) \in Nat /\ Len(github) \in DOMAIN github /\ github[Len(github)][p] = Now(p)
           /\ DOMAIN github = 1..Len(github)
           /\ Now(p).base \in Commits /\ Now(p).head \in Or(Commits) /\ Now(p).requested \in BOOLEAN
           /\ Checkpoint(Now(p).reviews) # None => Checkpoint(Now(p).reviews) \in Reviews
<1>1. github \in Seq([Pulls -> PullRequests]) /\ github # <<>> /\ clock \in Nat
  BY DEF ResumeInv, TypeOK
<1>2. /\ Len(github) \in Nat /\ Len(github) \in DOMAIN github /\ github[Len(github)][p] = Now(p)
      /\ DOMAIN github = 1..Len(github)
  BY <1>1 DEF Now, Last
<1>3. Now(p) \in PullRequests /\ Listing(Now(p).reviews, clock)
  BY NowIs DEF Listing
<1>4. Now(p).base \in Commits /\ Now(p).head \in Or(Commits) /\ Now(p).requested \in BOOLEAN
  BY <1>3 DEF PullRequests, Or
<1>5. Checkpoint(Now(p).reviews) # None => Checkpoint(Now(p).reviews) \in Reviews
  <2>1. Checkpoint(Now(p).reviews) # None => Checkpoint(Now(p).reviews) \in FormalOf(Now(p).reviews)
    BY <1>1, <1>3, CheckpointFinds DEF Newest
  <2> QED
    BY <1>1, <1>3, <2>1, FormalElements
<1> QED
  BY <1>2, <1>4, <1>5

LEMMA NoSessionIs ==
    /\ NoSession \in Local /\ NoSession.keeps = {} /\ NoSession.merge = None /\ NoSession.round = 1
    /\ NoSession.i = 1 /\ NoSession.refs = <<>> /\ NoSession.cleanup = "clean" /\ NoSession.missed = FALSE
    /\ NoSession.pc = "idle"
<1>1. /\ "idle" \in Pcs /\ "local" \in Modes /\ None \in Or(Pulls) /\ None \in Or(Events) /\ None \in Or(Commits)
      /\ None \in Or(Reviews) /\ {} \in CommitSets /\ None \in Outputs /\ None \in Or(Pairs) /\ <<>> \in Lists
      /\ None \in Or(Shown)
  BY DEF Pcs, Early, Modes, Or, CommitSets, Outputs, Lists
<1>2. None \in Errors /\ "none" \in Attempts /\ "clean" \in Cleanups /\ 1 \in Nat /\ 0 \in Nat
  BY DEF Errors, Attempts, Cleanups
<1>3. NoSession \in Local
  BY <1>1, <1>2 DEF NoSession, Local
<1> QED
  BY <1>3 DEF NoSession

LEMMA StartHolds ==
    ASSUME ResumeInv, NEW s \in Sessions, NEW p \in Pulls, NEW mode \in Modes, NEW event \in Or(Events),
           Start(s, mode, p, event)
    PROVE  ResumeInv'
<1>1. PICK n : n = [NoSession EXCEPT !.pc = "first", !.mode = mode, !.pull = p, !.event = event,
                                     !.attempt = "invoked"]
  OBVIOUS
<1>2. session[s].pc = "idle" /\ Steps(s, n)
  BY <1>1 DEF Start
<1>3. n \in Local /\ n.pc = "first" /\ n.pull = p /\ n.keeps = {} /\ n.merge = None /\ n.round = 1 /\ n.i = 1
  <2>1. "first" \in Pcs /\ "invoked" \in Attempts /\ p \in Or(Pulls)
    BY DEF Pcs, Early, Attempts, Or
  <2> QED
    BY <1>1, <2>1, NoSessionIs DEF Local
<1>4. SessionHolds(github, n)
  <2>1. n.pc \in Early /\ n.pc # "idle" /\ n.pc \notin LocalPcs \cup OwnPcs \cup Observing \cup Bound
    BY <1>3 DEF Early, LocalPcs, OwnPcs, Observing, Bound
  <2>2. Placed(github, n)
    BY <1>3, <2>1 DEF Placed
  <2>3. Works(n)
    BY <1>3, <2>1 DEF Works
  <2>4. Merges(n)
    BY <1>3 DEF Merges
  <2>5. Sights(github, n) /\ Opens(n)
    BY <1>3, <2>1 DEF Sights, Observing, Opens
  <2> QED
    BY <2>2, <2>3, <2>4, <2>5 DEF SessionHolds
<1>5. Quiet(session[s], n)
  BY <1>2, <1>3 DEF Quiet
<1> QED
  BY <1>2, <1>3, <1>4, <1>5, StepsQuietly

LEMMA StartStepHolds ==
    ASSUME ResumeInv, NEW s \in Sessions, StartStep(s)
    PROVE  ResumeInv'
<1>1. ASSUME NEW p \in Pulls, NEW mode \in {"local", "ephemeral"}, Start(s, mode, p, None)
      PROVE  ResumeInv'
  BY <1>1, StartHolds DEF Modes, Or
<1>2. ASSUME NEW k \in DOMAIN inbox.items, NEW mode \in {"local", "ephemeral"},
             Start(s, mode, inbox.items[k].pull, inbox.items[k].event)
      PROVE  ResumeInv'
  <2>1. inbox.items \in Seq(Items)
    BY DEF ResumeInv, TypeOK, Inboxes
  <2>2. inbox.items[k] \in Items
    BY <2>1
  <2>3. inbox.items[k].pull \in Pulls /\ inbox.items[k].event \in Or(Events)
    BY <2>2 DEF Items, Or
  <2> QED
    BY <1>2, <2>3, StartHolds DEF Modes
<1> QED
  BY <1>1, <1>2 DEF StartStep

LEMMA ReadFirstHolds ==
    ASSUME ResumeInv, NEW s \in Sessions, ReadFirst(s)
    PROVE  ResumeInv'
<1> DEFINE t == session[s]
           pr == Now(t.pull)
<1>0. t.pc = "first"
  BY DEF ReadFirst, Runs
<1>1. /\ t \in Local /\ Placed(github, t) /\ Works(t) /\ Merges(t) /\ Sights(github, t)
      /\ t.pull \in Pulls
  BY <1>0, SessionFacts
<1>2. pr.base \in Commits /\ pr.head \in Or(Commits)
  BY <1>1, Reading
<1>3. PICK n : n = [t EXCEPT !.pc = "checkpoint", !.base = pr.base, !.head = pr.head]
  OBVIOUS
<1>4. \/ Steps(s, Failed(t))
      \/ Steps(s, n) /\ pr.head # None /\ (t.event # None => pr.base = t.event.base /\ pr.head = t.event.head)
  BY <1>3 DEF ReadFirst
<1>5. ASSUME Steps(s, n), pr.head # None, t.event # None => pr.base = t.event.base /\ pr.head = t.event.head
      PROVE  ResumeInv'
  <2>1. "checkpoint" \in Pcs /\ pr.base \in Or(Commits) /\ pr.head \in Commits
    BY <1>2, <1>5 DEF Pcs, Or
  <2> HIDE DEF t, pr
  <2>2. /\ n \in Local /\ n.pc = "checkpoint" /\ n.base = pr.base /\ n.head = pr.head /\ n.event = t.event
        /\ n.pull = t.pull /\ n.merge = t.merge /\ n.round = t.round /\ n.i = t.i /\ n.mode = t.mode
        /\ n.keeps = t.keeps /\ n.refs = t.refs /\ n.cleanup = t.cleanup /\ n.missed = t.missed
    BY <1>1, <1>2, <1>3, <2>1 DEF Local
  <2>3. n.pc \notin Early \cup Ended \cup LocalPcs \cup OwnPcs \cup Observing \cup Bound \cup {"idle"}
        /\ t.pc \in Early /\ t.pc \notin Observing \cup Bound \cup Ended
    BY <1>0, <2>2 DEF Early, Ended, LocalPcs, OwnPcs, Observing, Bound
  <2>4. Placed(github, n)
    BY <1>1, <1>2, <1>5, <2>1, <2>2, <2>3 DEF Placed
  <2>5. Works(n)
    BY <1>1, <2>2, <2>3 DEF Works
  <2>6. Merges(n)
    BY <1>1, <2>2, <2>3 DEF Merges
  <2>7. Sights(github, n) /\ Opens(n)
    BY <1>1, <2>2, <2>3 DEF Sights, Observing, Opens
  <2>8. SessionHolds(github, n)
    BY <2>4, <2>5, <2>6, <2>7 DEF SessionHolds
  <2>9. Quiet(t, n)
    BY <1>0, <2>2 DEF Quiet
  <2> QED
    BY <1>5, <2>2, <2>8, <2>9, StepsQuietly DEF t
<1> QED
  BY <1>0, <1>4, <1>5, FailsQuietly

LEMMA ReadCheckpointHolds ==
    ASSUME ResumeInv, NEW s \in Sessions, ReadCheckpoint(s)
    PROVE  ResumeInv'
<1> DEFINE t == session[s]
           c == Checkpoint(Now(t.pull).reviews)
           q == IF t.mode = "local" THEN "ensure" ELSE "compare"
<1>0. t.pc = "checkpoint"
  BY DEF ReadCheckpoint, Runs
<1>1. /\ t \in Local /\ Placed(github, t) /\ Works(t) /\ Merges(t) /\ Sights(github, t)
      /\ t.pull \in Pulls
  BY <1>0, SessionFacts
<1>2. c # None => /\ c \in Reviews
                  /\ \E j \in DOMAIN github : Checkpoint(github[j][t.pull].reviews) = c
  BY <1>1, Reading
<1>3. PICK n : n = [t EXCEPT !.pc = q, !.checkpoint = c]
  OBVIOUS
<1>4. Steps(s, Failed(t)) \/ (Steps(s, n) /\ c # None /\ IsCheckpointOf(c, t.event))
  BY <1>3 DEF ReadCheckpoint
<1>5. ASSUME Steps(s, n), c # None, IsCheckpointOf(c, t.event)
      PROVE  ResumeInv'
  <2>0. t.mode \in Modes
    BY <1>1 DEF Local
  <2>1. q \in Pcs /\ c \in Or(Reviews) /\ q \in {"ensure", "compare"}
        /\ (q = "ensure" => t.mode = "local") /\ (q = "compare" => t.mode = "ephemeral")
    BY <1>2, <1>5, <2>0 DEF Pcs, Or, LocalPcs, OwnPcs, Modes
  <2> HIDE DEF t, c, q
  <2>2. /\ n \in Local /\ n.pc = q /\ n.base = t.base /\ n.head = t.head /\ n.event = t.event
        /\ n.pull = t.pull /\ n.merge = t.merge /\ n.round = t.round /\ n.i = t.i /\ n.mode = t.mode
        /\ n.keeps = t.keeps /\ n.refs = t.refs /\ n.cleanup = t.cleanup /\ n.missed = t.missed
        /\ n.checkpoint = c
    BY <1>1, <1>3, <2>1 DEF Local
  <2>3. /\ n.pc \notin Early \cup Ended \cup Observing \cup Bound \cup {"idle", "checkpoint", "delete", "done", "ancestry", "snapshots"}
        /\ t.pc \notin Early \cup Observing \cup Bound \cup Ended
    BY <1>0, <2>1, <2>2 DEF Early, Ended, LocalPcs, OwnPcs, Observing, Bound
  <2>4. Placed(github, n)
    BY <1>1, <1>2, <1>5, <2>1, <2>2, <2>3 DEF Placed
  <2>5. Works(n)
    BY <1>0, <1>1, <2>1, <2>2, <2>3 DEF Works, LocalPcs, OwnPcs
  <2>6. Merges(n)
    BY <1>0, <1>1, <2>2, <2>3 DEF Merges
  <2>7. Sights(github, n) /\ Opens(n)
    BY <1>1, <2>2, <2>3 DEF Sights, Observing, Opens, Bound
  <2>8. SessionHolds(github, n)
    BY <2>4, <2>5, <2>6, <2>7 DEF SessionHolds
  <2>9. Quiet(t, n)
    BY <1>0, <2>1, <2>2 DEF Quiet
  <2> QED
    BY <1>5, <2>2, <2>8, <2>9, StepsQuietly DEF t
<1> QED
  BY <1>0, <1>4, <1>5, FailsQuietly

-----------------------------------------------------------------------------
(* Commits are brought into the shared repository.                         *)

LEMMA PartialAdds ==
    ASSUME NEW S, NEW T, NEW f \in Partial(S, T), NEW x \in S, NEW y \in T, NEW g, g = With(f, x, y)
    PROVE  /\ g \in Partial(S, T) /\ DOMAIN g = DOMAIN f \cup {x}
           /\ \A z \in DOMAIN f : g[z] = f[z]
           /\ x \notin DOMAIN f => g[x] = y
<1>1. DOMAIN f \subseteq S /\ \A z \in DOMAIN f : f[z] \in T
  BY PartialIs
<1>2. g = [z \in DOMAIN f \cup {x} |-> IF z \in DOMAIN f THEN f[z] ELSE y]
  BY DEF With
<1>3. DOMAIN g = DOMAIN f \cup {x} /\ \A z \in DOMAIN f : g[z] = f[z]
  BY <1>2
<1>4. x \notin DOMAIN f => g[x] = y
  BY <1>2
<1>5. g \in [DOMAIN f \cup {x} -> T]
  BY <1>1, <1>2
<1> QED
  BY <1>1, <1>3, <1>4, <1>5 DEF Partial

LEMMA PartialCuts ==
    ASSUME NEW S, NEW T, NEW f \in Partial(S, T), NEW D \in SUBSET DOMAIN f, NEW g, g = [z \in D |-> f[z]]
    PROVE  g \in Partial(S, T) /\ DOMAIN g = D /\ \A z \in D : g[z] = f[z]
<1>1. DOMAIN f \subseteq S /\ \A z \in DOMAIN f : f[z] \in T
  BY PartialIs
<1>2. g \in [D -> T] /\ D \in SUBSET S
  BY <1>1
<1> QED
  BY <1>2 DEF Partial

LEMMA PartialEmpty ==
    ASSUME NEW S, NEW T
    PROVE  <<>> \in Partial(S, T)
<1>1. <<>> \in [{} -> T]
  OBVIOUS
<1> QED
  BY <1>1 DEF Partial

LEMMA RepoChanges ==
    ASSUME NEW x \in Repo, NEW o \in SUBSET Commits, NEW f \in Partial(Names, Commits \cup {0}),
           NEW k \in Partial(Commits, Keep)
    PROVE  [objects |-> o, refs |-> f, keeps |-> k] \in Repo
BY DEF Repo

\* One repository is changed.
LEMMA ReposChange ==
    ASSUME repo \in Repos, NEW a \in Sessions \cup {Shared}, NEW x \in Repo, repo' = [repo EXCEPT ![a] = x]
    PROVE  repo' \in Repos /\ repo'[a] = x /\ \A b \in Sessions \cup {Shared} : b # a => repo'[b] = repo[b]
BY DEF Repos

\* What a session is to show.
LEMMA WantedIs ==
    ASSUME ResumeInv, NEW s \in Sessions, session[s].pc \in Ready
    PROVE  /\ session[s].base \in Commits /\ session[s].head \in Commits
           /\ session[s].checkpoint \in Reviews /\ session[s].checkpoint.commit \in Commits
           /\ \A i \in 1..3 : Wanted(session[s])[i] \in Commits
<1>1. \A q \in Ready : q \notin Early \cup Ended \cup {"checkpoint"}
  BY DEF Ready, Preparing, Early, Ended, LocalPcs, OwnPcs, Observing, Bound
<1>2. Placed(github, session[s])
  BY SessionFacts
<1>3. session[s].base \in Commits /\ session[s].head \in Commits /\ session[s].checkpoint \in Reviews
  BY <1>1, <1>2 DEF Placed
<1>4. session[s].checkpoint.commit \in Commits
  BY <1>3 DEF Reviews
<1> QED
  BY <1>3, <1>4 DEF Wanted

LEMMA LocalOn ==
    ASSUME NEW h, NEW t, NEW n, t.pc \in LocalPcs, n.pc \in LocalPcs \cup {"latest"}, SameTask(t, n),
           n.merge = t.merge, n.round = t.round, n.i \in 1..4, n.pc # "ensure" /\ n.pc # "latest" => n.i \in 1..3,
           SessionHolds(h, t)
    PROVE  SessionHolds(h, n)
<1>1. t.pc \in Preparing /\ n.pc \in Preparing
  BY DEF Preparing
<1>2. t.mode = "local" /\ n.mode = "local" /\ t.merge = None
  BY DEF SessionHolds, Works, Merges, SameTask
<1>3. /\ \A q \in LocalPcs \cup {"latest"} :
           q \notin OwnPcs \cup Early \cup {"checkpoint", "delete", "done", "ancestry", "compare", "snapshots"}
      /\ "latest" \notin LocalPcs
  BY DEF LocalPcs, OwnPcs, Early
<1>4. Works(n)
  BY <1>2, <1>3 DEF Works
<1>5. Merges(n)
  BY <1>2, <1>3 DEF Merges
<1> QED
  BY <1>1, <1>4, <1>5, PreparesOn

\* A session that brings commits into the shared repository.
LEMMA LocalFacts ==
    ASSUME ResumeInv, NEW s \in Sessions, session[s].pc \in LocalPcs
    PROVE  /\ session[s] \in Local /\ SessionHolds(github, session[s]) /\ session[s].mode = "local"
           /\ session[s].i \in 1..4 /\ session[s].i \in Nat
           /\ session[s].pc # "ensure" => session[s].i \in 1..3 /\ Wanted(session[s])[session[s].i] \in Commits
           /\ session[s].pull \in Pulls /\ repo \in Repos /\ repo[Shared] \in Repo /\ budget \in Budgets
<1> DEFINE t == session[s]
<1>1. t \in Local /\ Works(t) /\ SessionHolds(github, t) /\ (t.pc # "idle" => t.pull \in Pulls)
  BY SessionFacts
<1>2. t.pc \in Ready /\ t.pc # "idle"
  BY DEF Ready, Preparing, LocalPcs
<1>3. t.mode = "local" /\ t.i \in 1..4 /\ (t.pc # "ensure" => t.i \in 1..3)
  BY <1>1 DEF Works
<1>4. \A i \in 1..3 : Wanted(t)[i] \in Commits
  BY <1>2, WantedIs
<1>5. repo \in Repos /\ repo[Shared] \in Repo /\ budget \in Budgets
  BY SharedFacts DEF ResumeInv, TypeOK, Repos, Budgets
<1> QED
  BY <1>1, <1>2, <1>3, <1>4, <1>5

LEMMA EnsureHolds ==
    ASSUME ResumeInv, NEW s \in Sessions, EnsureLocalCommit(s)
    PROVE  ResumeInv'
<1> DEFINE t == session[s]
<1>0. t.pc = "ensure" /\ t.pc \in LocalPcs
  BY DEF EnsureLocalCommit, Runs, LocalPcs
<1>1. t \in Local /\ SessionHolds(github, t) /\ t.i \in 1..4 /\ t.i \in Nat
  BY <1>0, LocalFacts
<1>2. \/ t.i > 3 /\ Steps(s, [t EXCEPT !.pc = "latest"])
      \/ t.i <= 3 /\ Steps(s, [t EXCEPT !.i = t.i + 1])
      \/ t.i <= 3 /\ Steps(s, [t EXCEPT !.pc = "fetch"])
  BY <1>1 DEF EnsureLocalCommit
<1>3. ASSUME NEW q \in {"latest", "fetch"}, Steps(s, [t EXCEPT !.pc = q]), q = "fetch" => t.i <= 3
      PROVE  ResumeInv'
  <2>1. PICK n : n = [t EXCEPT !.pc = q]
    OBVIOUS
  <2>2. q \in Pcs /\ q \in LocalPcs \cup {"latest"} /\ q \notin {"ensure", "import", "list", "inspect"}
    BY DEF Pcs, LocalPcs
  <2> HIDE DEF t
  <2>3. n \in Local /\ n.pc = q /\ SameTask(t, n) /\ SameMarks(t, n) /\ SameSights(t, n) /\ SameFetch(t, n)
    BY <1>1, <2>1, <2>2, PcChanges
  <2>4. n.i \in 1..4 /\ (q = "fetch" => n.i \in 1..3) /\ n.merge = t.merge /\ n.round = t.round
    BY <1>1, <1>3, <2>3 DEF SameFetch, SameSights
  <2>5. SessionHolds(github, n)
    BY <1>0, <1>1, <2>2, <2>3, <2>4, LocalOn
  <2>6. Quiet(t, n)
    BY <1>0, <2>2, <2>3 DEF Quiet, SameTask, SameMarks
  <2> QED
    BY <1>3, <2>1, <2>3, <2>5, <2>6, StepsQuietly DEF t
<1>4. ASSUME t.i <= 3, Steps(s, [t EXCEPT !.i = t.i + 1])
      PROVE  ResumeInv'
  <2>1. PICK n, i : i = t.i + 1 /\ n = [t EXCEPT !.i = i]
    OBVIOUS
  <2>2. i \in Nat /\ i \in 1..4
    BY <1>1, <1>4, <2>1
  <2> HIDE DEF t
  <2>3. n \in Local /\ n.pc = t.pc /\ n.i = i
    BY <1>1, <2>1, <2>2 DEF Local
  <2>4. SameTask(t, n) /\ SameMarks(t, n) /\ n.merge = t.merge /\ n.round = t.round
    BY <1>1, <2>1 DEF Local, SameTask, SameMarks
  <2>5. SessionHolds(github, n)
    BY <1>0, <1>1, <2>2, <2>3, <2>4, LocalOn
  <2>6. Quiet(t, n)
    BY <1>0, <2>3, <2>4 DEF Quiet, SameTask, SameMarks
  <2> QED
    BY <1>4, <2>1, <2>3, <2>5, <2>6, StepsQuietly DEF t
<1> QED
  BY <1>2, <1>3, <1>4

\* What the repository owes to a session.
LEMMA SharedView ==
    ASSUME ResumeInv, NEW s \in Sessions
    PROVE  /\ Spares(session[s]) /\ foreign.dead \subseteq DOMAIN repo[Shared].keeps
           /\ \A c \in DOMAIN repo[Shared].keeps :
                repo[Shared].keeps[c].by = s => repo[Shared].keeps[c].pid = s /\ Accounted(session[s], c)
           /\ \A r \in DOMAIN repo[Shared].refs :
                r[1] \in Sessions /\ (r[1] = s => Listed(session[s], r[2]))
<1>1. repo[Shared] \in Repo
  BY SharedFacts DEF ResumeInv
<1> QED
  BY <1>1, RepoIs DEF ResumeInv, OthersHold, KeepsHold, RefsHold

\* A step that only looks at the repository.
LEMMA LooksHold ==
    ASSUME ResumeInv, NEW s \in Sessions, NEW n \in Local, Steps(s, n), SessionHolds(github, n), Spares(n),
           \A c \in DOMAIN repo[Shared].keeps : repo[Shared].keeps[c].by = s => Accounted(n, c),
           n.mode = session[s].mode, n.refs = session[s].refs, n.cleanup = session[s].cleanup,
           session[s].missed => n.missed, session[s].pc # "killed"
    PROVE  ResumeInv'
<1>1. Does(s, n) /\ repo' = repo /\ budget' = budget
  BY DEF Steps
<1>2. repo' \in Repos /\ budget' \in Budgets
  BY <1>1 DEF ResumeInv, TypeOK, Repos, Budgets
<1>3. PICK k, f : k = repo[Shared].keeps /\ f = repo[Shared].refs
  OBVIOUS
<1>4. k = repo'[Shared].keeps /\ f = repo'[Shared].refs
  BY <1>1, <1>3
<1>5. \A i : Listed(session[s], i) => Listed(n, i)
  BY DEF Listed
<1>6. \A r \in DOMAIN f : r[1] \in Sessions /\ (r[1] = s => Listed(n, r[2]))
  BY <1>3, <1>5, SharedView
<1>7. KeepsHold' /\ RefsHold' /\ OthersHold'
  BY <1>1, <1>3, <1>4, <1>6, SharesHold
<1> QED
  BY <1>1, <1>2, <1>7, SessionStepsHold

LEMMA FetchProviderHolds ==
    ASSUME ResumeInv, NEW s \in Sessions, FetchProvider(s)
    PROVE  ResumeInv'
<1> DEFINE t == session[s]
           b == DOMAIN repo[Shared].keeps
<1>0. t.pc = "fetch" /\ t.pc \in LocalPcs
  BY DEF FetchProvider, Runs, LocalPcs
<1>1. t \in Local /\ SessionHolds(github, t) /\ t.i \in 1..4 /\ t.i \in 1..3 /\ repo[Shared] \in Repo
  BY <1>0, LocalFacts
<1>2. PICK n : n = [t EXCEPT !.pc = "import", !.before = b]
  OBVIOUS
<1>3. Steps(s, n)
  BY <1>2 DEF FetchProvider
<1>4. "import" \in Pcs /\ "import" \in LocalPcs /\ b \in CommitSets
  BY <1>1, RepoIs DEF Pcs, LocalPcs, CommitSets
<1>5. Spares(t) /\ foreign.dead \subseteq b
      /\ \A c \in b : repo[Shared].keeps[c].by = s => Accounted(t, c)
  BY SharedView
<1> HIDE DEF t, b
<1>6. n \in Local /\ n.pc = "import" /\ n.before = b
  BY <1>1, <1>2, <1>4 DEF Local
<1>7. SameTask(t, n) /\ SameMarks(t, n) /\ n.merge = t.merge /\ n.round = t.round /\ n.i = t.i
  BY <1>1, <1>2 DEF Local, SameTask, SameMarks
<1>8. SessionHolds(github, n)
  BY <1>0, <1>1, <1>4, <1>6, <1>7, LocalOn
<1>9. Spares(n)
  BY <1>5, <1>6, <1>7 DEF Spares, SameMarks
<1>10. \A c : Accounted(t, c) => Accounted(n, c)
  BY <1>0, <1>7 DEF Accounted, SameMarks
<1> QED
  BY <1>0, <1>3, <1>5, <1>6, <1>7, <1>8, <1>9, <1>10, LooksHold DEF t, b, SameTask, SameMarks

LEMMA ListKeepsHolds ==
    ASSUME ResumeInv, NEW s \in Sessions, ListKeeps(s)
    PROVE  ResumeInv'
<1> DEFINE t == session[s]
           b == DOMAIN repo[Shared].keeps
           l == b \ t.before
<1>0. t.pc = "list" /\ t.pc \in LocalPcs
  BY DEF ListKeeps, LocalPcs
<1>1. t \in Local /\ SessionHolds(github, t) /\ t.i \in 1..4 /\ t.i \in 1..3 /\ repo[Shared] \in Repo
  BY <1>0, LocalFacts
<1>2. PICK n : n = [t EXCEPT !.pc = "inspect", !.listing = l]
  OBVIOUS
<1>3. Steps(s, n)
  BY <1>2 DEF ListKeeps
<1>4. "inspect" \in Pcs /\ "inspect" \in LocalPcs /\ l \in CommitSets
  BY <1>1, RepoIs DEF Pcs, LocalPcs, CommitSets
<1>5. Spares(t) /\ \A c \in b : repo[Shared].keeps[c].by = s => Accounted(t, c)
  BY SharedView
<1> HIDE DEF t, b, l
<1>6. n \in Local /\ n.pc = "inspect" /\ n.listing = l
  BY <1>1, <1>2, <1>4 DEF Local
<1>7. SameTask(t, n) /\ SameMarks(t, n) /\ n.merge = t.merge /\ n.round = t.round /\ n.i = t.i
  BY <1>1, <1>2 DEF Local, SameTask, SameMarks
<1>8. SessionHolds(github, n)
  BY <1>0, <1>1, <1>4, <1>6, <1>7, LocalOn
<1>9. Spares(n)
  BY <1>0, <1>5, <1>6, <1>7 DEF Spares, SameMarks, l
<1>10. \A c \in b : Accounted(t, c) => Accounted(n, c)
  BY <1>0, <1>6, <1>7 DEF Accounted, SameMarks, l
<1> QED
  BY <1>0, <1>3, <1>5, <1>6, <1>7, <1>8, <1>9, <1>10, LooksHold DEF t, b, SameTask, SameMarks

LEMMA InspectKeepHolds ==
    ASSUME ResumeInv, NEW s \in Sessions, NEW c, InspectKeep(s, c)
    PROVE  ResumeInv'
<1> DEFINE t == session[s]
           keeps == repo[Shared].keeps
           own == IF keeps[c].pid = s THEN t.keeps \cup {c} ELSE t.keeps
           rest == t.listing \ {c}
<1>0. t.pc = "inspect" /\ t.pc \in LocalPcs /\ c \in t.listing
  BY DEF InspectKeep, LocalPcs
<1>1. /\ t \in Local /\ SessionHolds(github, t) /\ t.i \in 1..4 /\ t.i \in 1..3 /\ repo[Shared] \in Repo
      /\ t.pull \in Pulls /\ t.mode = "local"
  BY <1>0, LocalFacts
<1>2. Spares(t) /\ \A d \in DOMAIN keeps : keeps[d].by = s => keeps[d].pid = s /\ Accounted(t, d)
  BY SharedView
<1>3. PICK n, m : n = [t EXCEPT !.listing = rest, !.keeps = own] /\ m = [Failed(t) EXCEPT !.missed = TRUE]
  OBVIOUS
<1>4. (c \notin DOMAIN keeps /\ Steps(s, m)) \/ (c \in DOMAIN keeps /\ Steps(s, n))
  BY <1>3 DEF InspectKeep
<1>5. own \in CommitSets /\ rest \in CommitSets
  <2>1. t.listing \in CommitSets /\ t.keeps \in CommitSets
    BY <1>1 DEF Local
  <2> QED
    BY <1>0, <2>1 DEF CommitSets
<1>6. ASSUME Steps(s, m) PROVE ResumeInv'
  <2>1. PICK x : x = Failed(t)
    OBVIOUS
  <2> HIDE DEF t, keeps
  <2>2. x \in Local /\ x.pc = "cleanup" /\ SameTask(t, x) /\ SameMarks(t, x)
    BY <1>1, <2>1, FailureIs
  <2>3. m = [x EXCEPT !.missed = TRUE]
    BY <1>3, <2>1, Zenon
  <2>4. m \in Local /\ m.pc = "cleanup" /\ m.missed
    BY <2>2, <2>3 DEF Local
  <2>5. m.pull = x.pull /\ m.mode = x.mode /\ m.keeps = x.keeps /\ m.refs = x.refs /\ m.cleanup = x.cleanup
    BY <2>2, <2>3 DEF Local
  <2>6. m.pull = t.pull /\ m.mode = t.mode /\ m.keeps = t.keeps /\ m.refs = t.refs /\ m.cleanup = t.cleanup
    BY <2>2, <2>5 DEF SameTask, SameMarks
  <2>7. SessionHolds(github, m)
    BY <1>1, <2>4, <2>6, EndedHolds DEF Ended
  <2>8. Spares(m) /\ \A d : Accounted(m, d)
    BY <1>2, <2>4, <2>6 DEF Spares, Accounted
  <2> QED
    BY <1>0, <1>6, <2>4, <2>6, <2>7, <2>8, LooksHold DEF t
<1>7. ASSUME Steps(s, n) PROVE ResumeInv'
  <2> HIDE DEF t, keeps, own, rest
  <2>1. n \in Local /\ n.pc = "inspect" /\ n.listing = rest /\ n.keeps = own
    BY <1>0, <1>1, <1>3, <1>5 DEF Local
  <2>2. SameTask(t, n) /\ n.merge = t.merge /\ n.round = t.round /\ n.i = t.i
    BY <1>1, <1>3 DEF Local, SameTask
  <2>3. n.refs = t.refs /\ n.cleanup = t.cleanup /\ n.missed = t.missed
    BY <1>1, <1>3 DEF Local
  <2>4. SessionHolds(github, n)
    BY <1>0, <1>1, <2>1, <2>2, LocalOn
  <2>5. Spares(n)
    BY <1>0, <1>2, <2>1 DEF Spares, own, rest
  <2>6. ASSUME NEW d \in DOMAIN keeps, keeps[d].by = s PROVE Accounted(n, d)
    BY <1>0, <1>2, <2>1, <2>3, <2>6 DEF Accounted, own, rest
  <2> QED
    BY <1>0, <1>7, <2>1, <2>2, <2>3, <2>4, <2>5, <2>6, LooksHold DEF t, keeps, SameTask
<1> QED
  BY <1>4, <1>6, <1>7

LEMMA RegisteredHolds ==
    ASSUME ResumeInv, NEW s \in Sessions, Registered(s)
    PROVE  ResumeInv'
<1> DEFINE t == session[s]
<1>0. t.pc = "inspect" /\ t.pc \in LocalPcs /\ t.listing = {}
  BY DEF Registered, LocalPcs
<1>1. /\ t \in Local /\ SessionHolds(github, t) /\ t.i \in 1..4 /\ t.i \in 1..3
      /\ t.pull \in Pulls /\ t.mode = "local"
  BY <1>0, LocalFacts
<1>2. Spares(t) /\ \A d \in DOMAIN repo[Shared].keeps : repo[Shared].keeps[d].by = s => Accounted(t, d)
  BY SharedView
<1>3. PICK n : n \in {[t EXCEPT !.pc = "ref"], Failed(t)} /\ Steps(s, n)
  BY DEF Registered
<1> HIDE DEF t
<1>4. "ref" \in Pcs /\ "ref" \in LocalPcs
  BY DEF Pcs, LocalPcs
<1>5. n \in Local /\ n.pc \in {"ref", "cleanup"} /\ SameTask(t, n) /\ SameMarks(t, n)
  BY <1>1, <1>3, <1>4, PcChanges, FailureIs
<1>6. SessionHolds(github, n)
  <2>1. CASE n = [t EXCEPT !.pc = "ref"]
    <3>1. n.pc = "ref" /\ SameSights(t, n) /\ SameFetch(t, n)
      BY <1>1, <1>4, <2>1, PcChanges
    <3> QED
      BY <1>0, <1>1, <1>4, <1>5, <3>1, LocalOn DEF SameSights, SameFetch
  <2>2. CASE n = Failed(t)
    <3>1. n.pc = "cleanup"
      BY <1>1, <2>2, FailureIs
    <3> QED
      BY <1>1, <1>5, <3>1, EndedHolds DEF Ended, SameTask
  <2> QED
    BY <1>3, <2>1, <2>2
<1>7. Spares(n)
  BY <1>2, <1>5 DEF Spares, SameMarks
<1>8. \A d : Accounted(t, d) => Accounted(n, d)
  BY <1>0, <1>5 DEF Accounted, SameMarks
<1> QED
  BY <1>0, <1>2, <1>3, <1>5, <1>6, <1>7, <1>8, LooksHold DEF t, SameTask, SameMarks

LEMMA ResolveImportHolds ==
    ASSUME ResumeInv, NEW s \in Sessions, ResolveImport(s)
    PROVE  ResumeInv'
<1> DEFINE t == session[s]
<1>0. t.pc = "resolve" /\ t.pc \in LocalPcs
  BY DEF ResolveImport, Runs, LocalPcs
<1>1. t \in Local /\ SessionHolds(github, t) /\ t.i \in 1..3
  BY <1>0, LocalFacts
<1>2. PICK i : i = t.i + 1
  OBVIOUS
<1>5. PICK n : n = [t EXCEPT !.pc = "ensure", !.i = i]
  OBVIOUS
<1>3. Steps(s, n) \/ Steps(s, Failed(t))
  BY <1>2, <1>5 DEF ResolveImport
<1>4. ASSUME Steps(s, n) PROVE ResumeInv'
  <2>1. i \in Nat /\ i \in 1..4 /\ "ensure" \in Pcs /\ "ensure" \in LocalPcs
    BY <1>1, <1>2 DEF Pcs, LocalPcs
  <2> HIDE DEF t
  <2>2. n \in Local /\ n.pc = "ensure" /\ n.i = i
    BY <1>1, <1>5, <2>1 DEF Local
  <2>3. SameTask(t, n) /\ SameMarks(t, n) /\ n.merge = t.merge /\ n.round = t.round
    BY <1>1, <1>5 DEF Local, SameTask, SameMarks
  <2>4. SessionHolds(github, n)
    BY <1>0, <1>1, <2>1, <2>2, <2>3, LocalOn
  <2>5. Quiet(t, n)
    BY <1>0, <2>2, <2>3 DEF Quiet, SameTask, SameMarks
  <2> QED
    BY <1>4, <2>2, <2>4, <2>5, StepsQuietly DEF t
<1> QED
  BY <1>0, <1>3, <1>4, FailsQuietly

LEMMA ReceiveIs ==
    ASSUME NEW x \in Repo, NEW c \in Commits, NEW pid \in Nat, NEW y, y = Receive(x, c, pid)
    PROVE  /\ y \in Repo /\ y.refs = x.refs
           /\ \A d \in DOMAIN x.keeps : d \in DOMAIN y.keeps /\ y.keeps[d] = x.keeps[d]
           /\ \A d \in DOMAIN y.keeps \ DOMAIN x.keeps :
                d = c /\ y.keeps[d].pid = pid /\ y.keeps[d].by = pid
           /\ c \in DOMAIN y.keeps
<1>1. x = [objects |-> x.objects, refs |-> x.refs, keeps |-> x.keeps]
      /\ x.objects \cup {c} \in SUBSET Commits
  BY DEF Repo
<1>2. x.refs \in Partial(Names, Commits \cup {0}) /\ x.keeps \in Partial(Commits, Keep)
  BY RepoIs
<1>3. PICK entry : entry = [pid |-> pid, by |-> pid]
  OBVIOUS
<1>4. entry \in Keep /\ entry.pid = pid /\ entry.by = pid
  BY <1>3 DEF Keep
<1>5. PICK g : g = With(x.keeps, c, entry)
  OBVIOUS
<1>6. PICK o : o = x.objects \cup {c}
  OBVIOUS
<1>7. y = [x EXCEPT !.objects = o, !.keeps = g]
  BY <1>3, <1>5, <1>6, Zenon DEF Receive
<1>8. y = [objects |-> o, refs |-> x.refs, keeps |-> g]
  <2>1. PICK a, b, f : x = [objects |-> a, refs |-> f, keeps |-> b] /\ f = x.refs
    BY <1>1
  <2> QED
    BY <1>7, <2>1
<1>9. /\ g \in Partial(Commits, Keep) /\ DOMAIN g = DOMAIN x.keeps \cup {c}
      /\ \A z \in DOMAIN x.keeps : g[z] = x.keeps[z]
      /\ c \notin DOMAIN x.keeps => g[c] = entry
  <2>1. PICK f : f = x.keeps
    OBVIOUS
  <2>2. f \in Partial(Commits, Keep) /\ g = With(f, c, entry)
    BY <1>2, <1>5, <2>1
  <2>3. /\ g \in Partial(Commits, Keep) /\ DOMAIN g = DOMAIN f \cup {c}
        /\ \A z \in DOMAIN f : g[z] = f[z]
        /\ c \notin DOMAIN f => g[c] = entry
    BY <1>4, <2>2, PartialAdds
  <2> QED
    BY <2>1, <2>3
<1>10. y \in Repo /\ y.refs = x.refs /\ y.keeps = g
  <2>1. o \in SUBSET Commits
    BY <1>1, <1>6
  <2>2. y \in Repo
    BY <1>2, <1>8, <1>9, <2>1, RepoChanges
  <2> QED
    BY <1>8, <2>2
<1> QED
  BY <1>4, <1>9, <1>10

\* fetch-pack may have made the keep file before it was stopped.
LEMMA ImportHolds ==
    ASSUME ResumeInv, NEW s \in Sessions, NEW wrote \in BOOLEAN, NEW end \in {"ok", "exited", "stopped"},
           Import(s, wrote, end)
    PROVE  ResumeInv'
<1> DEFINE t == session[s]
           x == repo[Shared]
           c == Wanted(t)[t.i]
           made == wrote /\ c \notin DOMAIN x.keeps
           own == IF end # "stopped" /\ made /\ c \notin t.before THEN t.keeps \cup {c} ELSE t.keeps
           missed == t.missed \/ (made /\ c \in t.before)
<1>0. t.pc = "import" /\ t.pc \in LocalPcs
  BY DEF Import, LocalPcs
<1>1. /\ t \in Local /\ SessionHolds(github, t) /\ t.i \in 1..4 /\ t.i \in 1..3 /\ repo \in Repos /\ x \in Repo
      /\ c \in Commits /\ budget \in Budgets
  BY <1>0, LocalFacts
<1>2. /\ Spares(t) /\ foreign.dead \subseteq DOMAIN x.keeps
      /\ \A d \in DOMAIN x.keeps : x.keeps[d].by = s => x.keeps[d].pid = s /\ Accounted(t, d)
      /\ \A r \in DOMAIN x.refs : r[1] \in Sessions /\ (r[1] = s => Listed(t, r[2]))
  BY SharedView
<1>3. budget' \in Budgets
  <2>1. UNCHANGED budget \/ Spend("fail")
    BY DEF Import
  <2> QED
    BY <1>1, <2>1, SpendType DEF Surroundings, Budgets
<1>4. PICK n : n = [t EXCEPT !.pc = "list", !.output = end, !.keeps = own, !.missed = missed]
  OBVIOUS
<1>5. Does(s, n)
  BY <1>4, Zenon DEF Import
<1>6. repo' \in Repos /\ repo'[Shared] = IF wrote THEN Receive(x, c, s) ELSE x
  <2>1. repo' = IF ~wrote THEN repo ELSE [repo EXCEPT ![Shared] = Receive(x, c, s)]
    BY Zenon DEF Import
  <2>2. PICK y : y = Receive(x, c, s)
    OBVIOUS
  <2>3. y \in Repo
    BY <1>1, <2>2, ReceiveIs, ResumeAssumption
  <2> HIDE DEF x, c
  <2>4. CASE wrote
    <3>1. repo' = [repo EXCEPT ![Shared] = y]
      BY <2>1, <2>2, <2>4
    <3>2. repo' \in Repos /\ repo'[Shared] = y
      BY <1>1, <2>3, <3>1, ReposChange
    <3> QED
      BY <2>2, <2>4, <3>2
  <2>5. CASE ~wrote
    BY <1>1, <2>1, <2>5 DEF x
  <2> QED
    BY <2>4, <2>5
<1>7. PICK k : /\ k = repo'[Shared].keeps /\ repo'[Shared].refs = x.refs
               /\ \A d \in DOMAIN x.keeps : d \in DOMAIN k /\ k[d] = x.keeps[d]
               /\ \A d \in DOMAIN k \ DOMAIN x.keeps : made /\ d = c /\ k[d].pid = s /\ k[d].by = s
  <2>1. s \in Nat
    BY ResumeAssumption
  <2>2. PICK y : y = Receive(x, c, s)
    OBVIOUS
  <2> HIDE DEF x, c
  <2>3. /\ y.refs = x.refs
        /\ \A d \in DOMAIN x.keeps : d \in DOMAIN y.keeps /\ y.keeps[d] = x.keeps[d]
        /\ \A d \in DOMAIN y.keeps \ DOMAIN x.keeps :
             d = c /\ y.keeps[d].pid = s /\ y.keeps[d].by = s
    BY <1>1, <2>1, <2>2, ReceiveIs
  <2>4. CASE wrote
    <3>1. repo'[Shared] = y
      BY <1>6, <2>2, <2>4
    <3> QED
      BY <2>3, <2>4, <3>1
  <2>5. CASE ~wrote
    BY <1>6, <2>5
  <2> QED
    BY <2>4, <2>5
<1>9. own \in CommitSets /\ missed \in BOOLEAN /\ end \in Outputs /\ "list" \in Pcs /\ "list" \in LocalPcs
  <2>1. t.keeps \in CommitSets /\ t.missed \in BOOLEAN
    BY <1>1 DEF Local
  <2> QED
    BY <1>1, <2>1 DEF CommitSets, Outputs, Pcs, LocalPcs
<1> HIDE DEF t, x, c, own, missed, made
<1>11. n \in Local /\ n.pc = "list" /\ n.keeps = own /\ n.missed = missed
  BY <1>1, <1>4, <1>9 DEF Local
<1>12. /\ SameTask(t, n) /\ n.merge = t.merge /\ n.round = t.round /\ n.i = t.i /\ n.before = t.before
       /\ n.refs = t.refs /\ n.cleanup = t.cleanup
  BY <1>1, <1>4 DEF Local, SameTask
<1>13. SessionHolds(github, n)
  BY <1>0, <1>1, <1>9, <1>11, <1>12, LocalOn
<1>15. Spares(n)
  BY <1>0, <1>2, <1>11, <1>12 DEF Spares, own, made
<1>16. \A d : Accounted(t, d) => Accounted(n, d)
  BY <1>0, <1>11, <1>12 DEF Accounted, own, missed
<1>17. made => Accounted(n, c)
  BY <1>11, <1>12 DEF Accounted, missed
<1>18. \A i : Listed(t, i) => Listed(n, i)
  BY <1>0, <1>11, <1>12 DEF Listed, SameTask, missed
<1>19. KeepsHold' /\ RefsHold' /\ OthersHold'
  <2>1. PICK keeps, refs : keeps = x.keeps /\ refs = x.refs
    OBVIOUS
  <2>2. keeps = repo[Shared].keeps /\ refs = repo[Shared].refs /\ k = repo'[Shared].keeps /\ refs = repo'[Shared].refs
    BY <1>7, <2>1 DEF x
  <2>3. \A d \in DOMAIN k : \/ k[d].by = s /\ k[d].pid = s /\ Accounted(n, d)
                            \/ /\ d \in DOMAIN keeps /\ k[d] = keeps[d]
                               /\ k[d].by = s => Accounted(n, d)
    BY <1>2, <1>7, <1>16, <1>17, <2>1
  <2>4. \A d \in DOMAIN keeps : d \in DOMAIN k /\ k[d] = keeps[d]
    BY <1>7, <2>1
  <2>5. \A r \in DOMAIN refs : r[1] \in Sessions /\ (r[1] = s => Listed(n, r[2]))
    BY <1>2, <1>18, <2>1
  <2> QED
    BY <1>5, <1>15, <2>2, <2>3, <2>4, <2>5, SharesHold
<1> QED
  BY <1>3, <1>5, <1>6, <1>11, <1>13, <1>19, SessionStepsHold

LEMMA RefsChange ==
    ASSUME repo \in Repos, NEW a \in Sessions \cup {Shared}, NEW f \in Partial(Names, Commits \cup {0}),
           repo' = [repo EXCEPT ![a].refs = f]
    PROVE  /\ repo' \in Repos /\ repo'[a].refs = f /\ repo'[a].keeps = repo[a].keeps
           /\ \A b \in Sessions \cup {Shared} : b # a => repo'[b] = repo[b]
<1>1. PICK x : x = [repo[a] EXCEPT !.refs = f]
  OBVIOUS
<1>2. repo[a] \in Repo
  BY DEF Repos
<1>3. x \in Repo /\ x.refs = f /\ x.keeps = repo[a].keeps
  BY <1>1, <1>2 DEF Repo
<1>4. repo' = [repo EXCEPT ![a] = x]
  BY <1>1
<1> QED
  BY <1>3, <1>4, ReposChange

LEMMA KeepsChange ==
    ASSUME repo \in Repos, NEW a \in Sessions \cup {Shared}, NEW k \in Partial(Commits, Keep),
           repo' = [repo EXCEPT ![a].keeps = k]
    PROVE  /\ repo' \in Repos /\ repo'[a].keeps = k /\ repo'[a].refs = repo[a].refs
           /\ \A b \in Sessions \cup {Shared} : b # a => repo'[b] = repo[b]
<1>1. PICK x : x = [repo[a] EXCEPT !.keeps = k]
  OBVIOUS
<1>2. repo[a] \in Repo
  BY DEF Repos
<1>3. x \in Repo /\ x.keeps = k /\ x.refs = repo[a].refs
  BY <1>1, <1>2 DEF Repo
<1>4. repo' = [repo EXCEPT ![a] = x]
  BY <1>1
<1> QED
  BY <1>3, <1>4, ReposChange

\* An entry more in a list of refs.
IsRegistered(t, n, i) ==
    /\ n \in Local /\ n.pc = t.pc /\ SameTask(t, n) /\ SameSights(t, n) /\ SameFetch(t, n)
    /\ n.keeps = t.keeps /\ n.cleanup = t.cleanup /\ n.missed = t.missed
    /\ \E k \in DOMAIN n.refs : n.refs[k].name = i
    /\ \A k \in DOMAIN t.refs : k \in DOMAIN n.refs /\ n.refs[k] = t.refs[k]

LEMMA Registers ==
    ASSUME NEW t \in Local, NEW i \in 1..3, NEW c \in Commits,
           NEW e, e = [name |-> i, commit |-> c], NEW f, f = Append(t.refs, e),
           NEW n, n = [t EXCEPT !.refs = f]
    PROVE  IsRegistered(t, n, i)
<1>1. e \in Entries /\ e.name = i
  BY DEF Entries
<1>2. t.refs \in Seq(Entries)
  BY DEF Local, Lists
<1>3. /\ f \in Lists /\ f[Len(f)] = e /\ Len(f) \in DOMAIN f
      /\ \A k \in DOMAIN t.refs : k \in DOMAIN f /\ f[k] = t.refs[k]
  BY <1>1, <1>2 DEF Lists
<1>4. n \in Local /\ n.refs = f /\ n.pc = t.pc
  BY <1>3 DEF Local
<1>5. SameTask(t, n) /\ n.keeps = t.keeps /\ n.cleanup = t.cleanup /\ n.missed = t.missed
  BY DEF Local, SameTask
<1>6. SameSights(t, n) /\ SameFetch(t, n)
  BY DEF Local, SameSights, SameFetch
<1> QED
  BY <1>1, <1>3, <1>4, <1>5, <1>6 DEF IsRegistered

\* update-ref may have made the ref before it was stopped: it is registered.
\* If it exits without success and has made it, the session has missed it.
LEMMA CreateRefHolds ==
    ASSUME ResumeInv, NEW s \in Sessions, NEW made \in BOOLEAN, NEW end \in {"ok", "exited", "stopped"},
           CreateTemporaryRef(s, end, made)
    PROVE  ResumeInv'
<1> DEFINE t == session[s]
           x == repo[Shared]
           c == Wanted(t)[t.i]
           reg == [t EXCEPT !.refs = Append(t.refs, [name |-> t.i, commit |-> c])]
           missed == t.missed \/ made
<1>0. t.pc = "ref" /\ t.pc \in LocalPcs
  BY DEF CreateTemporaryRef, Runs, LocalPcs
<1>1. /\ t \in Local /\ SessionHolds(github, t) /\ t.i \in 1..4 /\ t.i \in 1..3 /\ repo \in Repos /\ x \in Repo
      /\ c \in Commits /\ budget \in Budgets /\ t.mode = "local" /\ t.pull \in Pulls
  BY <1>0, LocalFacts
<1>2. /\ Spares(t)
      /\ \A d \in DOMAIN x.keeps : x.keeps[d].by = s => Accounted(t, d)
      /\ \A r \in DOMAIN x.refs : r[1] \in Sessions /\ (r[1] = s => Listed(t, r[2]))
  BY SharedView
<1>3. budget' \in Budgets
  <2>1. UNCHANGED budget \/ Spend("fail")
    BY DEF CreateTemporaryRef
  <2> QED
    BY <1>1, <2>1, SpendType DEF Surroundings, Budgets
<1>4. PICK g, w : g = reg /\ w = [Failed(t) EXCEPT !.missed = missed]
  OBVIOUS
<1>5. /\ repo' = IF made THEN [repo EXCEPT ![Shared].refs = With(x.refs, <<s, t.i>>, c)] ELSE repo
      /\ Does(s, CASE end = "ok" -> [g EXCEPT !.pc = "release"]
                   [] end = "exited" -> w
                   [] end = "stopped" -> Failed(g))
  BY <1>4, Zenon DEF CreateTemporaryRef
<1>6. \/ Does(s, [g EXCEPT !.pc = "release"])
      \/ Does(s, w)
      \/ Does(s, Failed(g))
  BY <1>5
<1>7. /\ g \in Local /\ g.pc = t.pc /\ SameTask(t, g) /\ SameSights(t, g) /\ SameFetch(t, g)
      /\ g.keeps = t.keeps /\ g.cleanup = t.cleanup /\ g.missed = t.missed
      /\ \E k \in DOMAIN g.refs : g.refs[k].name = t.i
      /\ \A k \in DOMAIN t.refs : k \in DOMAIN g.refs /\ g.refs[k] = t.refs[k]
  <2>1. PICK i : i = t.i
    OBVIOUS
  <2>0. PICK e : e = [name |-> i, commit |-> c]
    OBVIOUS
  <2>5. PICK f : f = Append(t.refs, e)
    OBVIOUS
  <2>2. g = [t EXCEPT !.refs = f]
    BY <1>4, <2>0, <2>1, <2>5
  <2> HIDE DEF t, c
  <2>3. i \in 1..3 /\ c \in Commits /\ t \in Local
    BY <1>1, <2>1
  <2>4. IsRegistered(t, g, i)
    BY <2>0, <2>2, <2>3, <2>5, Registers
  <2> QED
    BY <2>1, <2>4 DEF IsRegistered
<1>8. /\ repo' \in Repos /\ repo'[Shared].keeps = x.keeps
      /\ \A r \in DOMAIN repo'[Shared].refs : r \in DOMAIN x.refs \/ (made /\ r = <<s, t.i>>)
      /\ \A r \in DOMAIN x.refs : r \in DOMAIN repo'[Shared].refs /\ repo'[Shared].refs[r] = x.refs[r]
  <2>1. PICK f : f = With(x.refs, <<s, t.i>>, c)
    OBVIOUS
  <2>2. /\ f \in Partial(Names, Commits \cup {0}) /\ DOMAIN f = DOMAIN x.refs \cup {<<s, t.i>>}
        /\ \A r \in DOMAIN x.refs : f[r] = x.refs[r]
    <3>1. <<s, t.i>> \in Names /\ c \in Commits \cup {0}
      BY <1>1 DEF Names
    <3>2. PICK e, r : e = x.refs /\ r = <<s, t.i>>
      OBVIOUS
    <3>3. e \in Partial(Names, Commits \cup {0}) /\ f = With(e, r, c) /\ r \in Names
      BY <1>1, <2>1, <3>1, <3>2, RepoIs
    <3>4. PICK d, T : d = c /\ T = Commits \cup {0}
      OBVIOUS
    <3>5. d \in T /\ e \in Partial(Names, T) /\ f = With(e, r, d) /\ r \in Names
      BY <3>1, <3>3, <3>4
    <3>6. f \in Partial(Names, T) /\ DOMAIN f = DOMAIN e \cup {r} /\ \A z \in DOMAIN e : f[z] = e[z]
      BY <3>5, PartialAdds
    <3> QED
      BY <3>2, <3>4, <3>6
  <2>3. repo' = IF made THEN [repo EXCEPT ![Shared].refs = f] ELSE repo
    BY <1>5, <2>1
  <2> HIDE DEF x, t
  <2>4. CASE made
    <3>1. repo' \in Repos /\ repo'[Shared].keeps = x.keeps /\ repo'[Shared].refs = f
      BY <1>1, <2>2, <2>3, <2>4, RefsChange DEF x
    <3> QED
      BY <2>2, <2>4, <3>1
  <2>5. CASE ~made
    BY <1>1, <2>3, <2>5 DEF x
  <2> QED
    BY <2>4, <2>5
<1> HIDE DEF t, x, c, reg
<1>9. ASSUME NEW n \in Local, Does(s, n), SessionHolds(github, n), n.pc \notin {"import", "list", "inspect"},
             SameTask(t, n), n.keeps = t.keeps, t.missed => n.missed, n.cleanup = t.cleanup,
             \A k \in DOMAIN t.refs : k \in DOMAIN n.refs /\ n.refs[k] = t.refs[k],
             made => n.missed \/ \E k \in DOMAIN n.refs : n.refs[k].name = t.i
      PROVE  ResumeInv'
  <2>1. Spares(n)
    BY <1>2, <1>9 DEF Spares
  <2>2. \A d : Accounted(t, d) => Accounted(n, d)
    BY <1>0, <1>9 DEF Accounted
  <2>3. \A i : Listed(t, i) => Listed(n, i)
    BY <1>0, <1>9 DEF Listed, SameTask
  <2>4. made => Listed(n, t.i)
    BY <1>1, <1>9 DEF Listed, SameTask
  <2>5. PICK k, f : k = x.keeps /\ f = repo'[Shared].refs
    OBVIOUS
  <2>6. PICK refs : refs = x.refs
    OBVIOUS
  <2>7. k = repo[Shared].keeps /\ refs = repo[Shared].refs /\ k = repo'[Shared].keeps
    BY <1>8, <2>5, <2>6 DEF x
  <2>8. \A d \in DOMAIN k : k[d].by = s => Accounted(n, d)
    BY <1>2, <2>2, <2>5
  <2>9. \A r \in DOMAIN f : /\ r[1] \in Sessions
                            /\ r[1] = s => Listed(n, r[2])
                            /\ r[1] # s => r \in DOMAIN refs
    <3> SUFFICES ASSUME NEW r \in DOMAIN f
                 PROVE  r[1] \in Sessions /\ (r[1] = s => Listed(n, r[2])) /\ (r[1] # s => r \in DOMAIN refs)
      OBVIOUS
    <3>1. CASE r \in DOMAIN refs
      BY <1>2, <2>3, <2>6, <3>1
    <3>2. CASE made /\ r = <<s, t.i>>
      BY <2>4, <3>2
    <3> QED
      BY <1>8, <2>5, <2>6, <3>1, <3>2
  <2>10. \A r \in DOMAIN refs : refs[r] = 0 => r \in DOMAIN f /\ f[r] = 0
    BY <1>8, <2>5, <2>6
  <2>11. KeepsHold' /\ RefsHold' /\ OthersHold'
    BY <1>9, <2>1, <2>5, <2>7, <2>8, <2>9, <2>10, SharesHold
  <2> QED
    BY <1>3, <1>8, <1>9, <2>11, SessionStepsHold
<1>10. ASSUME Does(s, [g EXCEPT !.pc = "release"]) PROVE ResumeInv'
  <2>1. PICK n : n = [g EXCEPT !.pc = "release"]
    OBVIOUS
  <2>2. "release" \in Pcs /\ "release" \in LocalPcs
    BY DEF Pcs, LocalPcs
  <2>3. n \in Local /\ n.pc = "release" /\ SameTask(g, n) /\ SameMarks(g, n) /\ SameSights(g, n) /\ SameFetch(g, n)
    BY <1>7, <2>1, <2>2, PcChanges
  <2>4. SameTask(t, n) /\ n.merge = t.merge /\ n.round = t.round /\ n.i = t.i
    BY <1>7, <2>3 DEF SameTask, SameSights, SameFetch
  <2>5. SessionHolds(github, n)
    BY <1>0, <1>1, <2>2, <2>3, <2>4, LocalOn
  <2> QED
    BY <1>7, <1>9, <1>10, <2>1, <2>3, <2>4, <2>5 DEF SameMarks
<1>11. ASSUME Does(s, Failed(g)) PROVE ResumeInv'
  <2>1. PICK n : n = Failed(g)
    OBVIOUS
  <2>2. n \in Local /\ n.pc = "cleanup" /\ SameTask(g, n) /\ SameMarks(g, n)
    BY <1>7, <2>1, FailureIs
  <2>3. SameTask(t, n)
    BY <1>7, <2>2 DEF SameTask
  <2>4. SessionHolds(github, n)
    BY <1>1, <2>2, <2>3, EndedHolds DEF Ended, SameTask
  <2>5. /\ \A k \in DOMAIN t.refs : k \in DOMAIN n.refs /\ n.refs[k] = t.refs[k]
        /\ made => \E k \in DOMAIN n.refs : n.refs[k].name = t.i
    BY <1>7, <2>2 DEF SameMarks
  <2> QED
    BY <1>7, <1>9, <1>11, <2>1, <2>2, <2>3, <2>4, <2>5 DEF SameMarks
<1>12. ASSUME Does(s, w) PROVE ResumeInv'
  <2>1. PICK failed : failed = Failed(t)
    OBVIOUS
  <2>2. failed \in Local /\ failed.pc = "cleanup" /\ SameTask(t, failed) /\ SameMarks(t, failed)
    BY <1>1, <2>1, FailureIs
  <2>3. w = [failed EXCEPT !.missed = missed]
    BY <1>4, <2>1, Zenon
  <2>4. missed \in BOOLEAN /\ (t.missed => missed) /\ (made => missed)
    BY <1>1 DEF missed, Local
  <2> HIDE DEF missed
  <2>5. /\ w \in Local /\ w.pc = "cleanup" /\ w.missed = missed /\ SameTask(failed, w)
        /\ w.keeps = failed.keeps /\ w.refs = failed.refs /\ w.cleanup = failed.cleanup
    BY <2>2, <2>3, <2>4 DEF Local, SameTask
  <2>6. SameTask(t, w) /\ w.keeps = t.keeps /\ w.refs = t.refs /\ w.cleanup = t.cleanup
    BY <2>2, <2>5 DEF SameTask, SameMarks
  <2>7. SessionHolds(github, w)
    BY <1>1, <2>5, <2>6, EndedHolds DEF Ended, SameTask
  <2> QED
    BY <1>9, <1>12, <2>4, <2>5, <2>6, <2>7
<1> QED
  BY <1>6, <1>10, <1>11, <1>12

LEMMA ReleaseIs ==
    ASSUME NEW s, NEW keeps \in Partial(Commits, Keep), NEW k, k = ReleasePackKeeps(s, keeps)
    PROVE  /\ k \in Partial(Commits, Keep)
           /\ \A d : d \in DOMAIN k <=> d \in DOMAIN keeps /\ (d \notin session[s].keeps \/ keeps[d].pid # s)
           /\ \A d \in DOMAIN k : k[d] = keeps[d]
<1>1. PICK D : D = {d \in DOMAIN keeps : d \notin session[s].keeps \/ keeps[d].pid # s}
  OBVIOUS
<1>2. D \in SUBSET DOMAIN keeps /\ k = [d \in D |-> keeps[d]]
  BY <1>1 DEF ReleasePackKeeps
<1>3. k \in Partial(Commits, Keep) /\ DOMAIN k = D /\ \A z \in D : k[z] = keeps[z]
  BY <1>2, PartialCuts
<1> QED
  BY <1>1, <1>3

\* Once its keep files are released, a session has none, unless it missed one.
LEMMA ReleasedShares ==
    ASSUME ResumeInv, NEW s \in Sessions, NEW n, Does(s, n), session[s].pc \in {"release", "cleanup"},
           n.pc \in {"resolve", "done"}, n.keeps = {}, n.missed = session[s].missed, n.mode = session[s].mode,
           n.refs = session[s].refs, n.cleanup = session[s].cleanup,
           repo'[Shared].keeps = ReleasePackKeeps(s, repo[Shared].keeps), repo'[Shared].refs = repo[Shared].refs
    PROVE  KeepsHold' /\ RefsHold' /\ OthersHold'
<1> DEFINE t == session[s]
<1>1. PICK keeps, refs, k : keeps = repo[Shared].keeps /\ refs = repo[Shared].refs /\ k = repo'[Shared].keeps
  OBVIOUS
<1>2. refs = repo'[Shared].refs
  BY <1>1
<1>3. /\ Spares(t)
      /\ \A d \in DOMAIN keeps : keeps[d].by = s => keeps[d].pid = s /\ Accounted(t, d)
      /\ \A r \in DOMAIN refs : r[1] \in Sessions /\ (r[1] = s => Listed(t, r[2]))
  BY <1>1, SharedView
<1>4. keeps \in Partial(Commits, Keep) /\ k = ReleasePackKeeps(s, keeps)
  BY <1>1, SharedFacts, RepoIs DEF ResumeInv
<1>5. /\ \A d : d \in DOMAIN k <=> d \in DOMAIN keeps /\ (d \notin t.keeps \/ keeps[d].pid # s)
      /\ \A d \in DOMAIN k : k[d] = keeps[d]
  BY <1>4, ReleaseIs
<1>6. s # 0
  BY ResumeAssumption
<1> HIDE DEF t
<1>7. Spares(n)
  BY DEF Spares
<1>8. \A d \in DOMAIN k : d \in DOMAIN keeps /\ k[d] = keeps[d] /\ (k[d].by = s => Accounted(n, d))
  <2> SUFFICES ASSUME NEW d \in DOMAIN k, keeps[d].by = s PROVE Accounted(n, d)
    BY <1>5
  <2>1. d \in DOMAIN keeps /\ keeps[d].pid = s /\ Accounted(t, d) /\ d \notin t.keeps
    BY <1>3, <1>5
  <2> QED
    BY <2>1 DEF Accounted, t
<1>9. \A d \in DOMAIN keeps : d \in foreign.dead \/ keeps[d].pid = 0 => d \in DOMAIN k /\ k[d] = keeps[d]
  BY <1>3, <1>5, <1>6 DEF Spares
<1>10. \A i : Listed(t, i) => Listed(n, i)
  BY DEF Listed, t
<1>11. \A r \in DOMAIN refs : r[1] \in Sessions /\ (r[1] = s => Listed(n, r[2]))
  BY <1>3, <1>10
<1> QED
  BY <1>1, <1>2, <1>7, <1>8, <1>9, <1>11, SharesHold

LEMMA ReleaseHolds ==
    ASSUME ResumeInv, NEW s \in Sessions, Release(s)
    PROVE  ResumeInv'
<1> DEFINE t == session[s]
<1>0. t.pc = "release" /\ t.pc \in LocalPcs
  BY DEF Release, Runs, LocalPcs
<1>1. /\ t \in Local /\ SessionHolds(github, t) /\ t.i \in 1..4 /\ t.i \in 1..3 /\ repo \in Repos
      /\ repo[Shared] \in Repo /\ budget \in Budgets
  BY <1>0, LocalFacts
<1>2. PICK n : n = [t EXCEPT !.pc = "resolve", !.keeps = {}, !.before = {}, !.output = None]
  OBVIOUS
<1>3. PICK k : k = ReleasePackKeeps(s, repo[Shared].keeps)
  OBVIOUS
<1>4. Does(s, n) /\ repo' = [repo EXCEPT ![Shared].keeps = k] /\ budget' = budget
  BY <1>2, <1>3 DEF Release
<1>5. k \in Partial(Commits, Keep)
  BY <1>1, <1>3, RepoIs, ReleaseIs
<1>6. repo' \in Repos /\ repo'[Shared].keeps = k /\ repo'[Shared].refs = repo[Shared].refs
  BY <1>1, <1>4, <1>5, KeepsChange
<1>7. {} \in CommitSets /\ None \in Outputs /\ "resolve" \in Pcs /\ "resolve" \in LocalPcs
  BY DEF CommitSets, Outputs, Pcs, LocalPcs
<1> HIDE DEF t
<1>8. n \in Local /\ n.pc = "resolve" /\ n.keeps = {}
  BY <1>1, <1>2, <1>7 DEF Local
<1>9. /\ SameTask(t, n) /\ n.merge = t.merge /\ n.round = t.round /\ n.i = t.i
      /\ n.refs = t.refs /\ n.cleanup = t.cleanup /\ n.missed = t.missed
  BY <1>1, <1>2 DEF Local, SameTask
<1>10. SessionHolds(github, n)
  BY <1>0, <1>1, <1>7, <1>8, <1>9, LocalOn
<1>11. KeepsHold' /\ RefsHold' /\ OthersHold'
  BY <1>0, <1>3, <1>4, <1>6, <1>8, <1>9, ReleasedShares DEF t, SameTask
<1> QED
  BY <1>1, <1>4, <1>6, <1>8, <1>10, <1>11, SessionStepsHold

LEMMA LocalStepHolds ==
    ASSUME ResumeInv, NEW s \in Sessions, LocalStep(s)
    PROVE  ResumeInv'
<1>1. ASSUME NEW wrote \in BOOLEAN, NEW end \in {"ok", "exited", "stopped"}, Import(s, wrote, end)
      PROVE  ResumeInv'
  BY <1>1, ImportHolds
<1>2. ASSUME NEW made \in BOOLEAN, NEW end \in {"ok", "exited", "stopped"}, CreateTemporaryRef(s, end, made)
      PROVE  ResumeInv'
  BY <1>2, CreateRefHolds
<1>3. ASSUME NEW c \in session[s].listing, InspectKeep(s, c)
      PROVE  ResumeInv'
  BY <1>3, InspectKeepHolds
<1> QED
  BY <1>1, <1>2, <1>3, EnsureHolds, FetchProviderHolds, ListKeepsHolds, RegisteredHolds, ReleaseHolds,
     ResolveImportHolds DEF LocalStep

-----------------------------------------------------------------------------
(* Commits are brought into the session's own repository.                  *)

LEMMA OwnOn ==
    ASSUME NEW h, NEW t, NEW n, t.pc \in OwnPcs, n.pc \in (OwnPcs \ {"compare"}) \cup {"latest"}, SameTask(t, n),
           n.keeps = t.keeps, n.round = t.round, n.pc # "ancestry" /\ n.merge # None => Unique(n),
           n.pc = "snapshots" /\ n.merge = None => Computed(n), SessionHolds(h, t)
    PROVE  SessionHolds(h, n)
<1>1. t.pc \in Preparing /\ n.pc \in Preparing
  BY DEF Preparing
<1>2. t.mode = "ephemeral" /\ n.mode = "ephemeral" /\ n.keeps = {}
  BY DEF SessionHolds, Works, SameTask
<1>3. n.pc \notin LocalPcs \cup Early \cup {"checkpoint", "delete", "done", "compare"}
  BY DEF LocalPcs, OwnPcs, Early
<1>4. Works(n)
  BY <1>2, <1>3 DEF Works
<1>5. Merges(n)
  BY <1>3 DEF Merges
<1> QED
  BY <1>1, <1>4, <1>5, PreparesOn

LEMMA OwnFacts ==
    ASSUME ResumeInv, NEW s \in Sessions, session[s].pc \in OwnPcs
    PROVE  /\ session[s] \in Local /\ SessionHolds(github, session[s]) /\ session[s].mode = "ephemeral"
           /\ session[s].base \in Commits /\ session[s].head \in Commits /\ session[s].checkpoint.commit \in Commits
           /\ session[s].pull \in Pulls /\ repo \in Repos /\ budget \in Budgets
           /\ session[s].pc # "ancestry" /\ session[s].merge # None => Unique(session[s])
           /\ session[s].pc = "snapshots" /\ session[s].merge = None => Computed(session[s])
           /\ session[s].pc \notin {"idle", "list", "inspect", "killed", "import"} /\ session[s].keeps = {}
<1> DEFINE t == session[s]
<1>1. /\ t \in Local /\ Works(t) /\ Merges(t) /\ SessionHolds(github, t)
      /\ t.pc # "idle" => t.pull \in Pulls
  BY SessionFacts
<1>2. t.pc \in Ready /\ t.pc \notin {"idle", "list", "inspect", "killed", "import"} /\ t.pc \notin Ended
  BY DEF Ready, Preparing, OwnPcs, Ended
<1>3. t.mode = "ephemeral" /\ t.keeps = {}
  BY <1>1 DEF Works
<1>4. t.base \in Commits /\ t.head \in Commits /\ t.checkpoint.commit \in Commits
  BY <1>2, WantedIs
<1>5. repo \in Repos /\ budget \in Budgets
  BY DEF ResumeInv, TypeOK, Repos, Budgets
<1>6. /\ t.pc # "ancestry" /\ t.merge # None => Unique(t)
      /\ t.pc = "snapshots" /\ t.merge = None => Computed(t)
  BY <1>1, <1>2 DEF Merges
<1> QED
  BY <1>1, <1>2, <1>3, <1>4, <1>5, <1>6

\* The same merge bases for the same task.
LEMMA UniqueStays ==
    ASSUME NEW t, NEW n, SameTask(t, n), n.merge = t.merge, Unique(t)
    PROVE  Unique(n)
BY DEF Unique, SameTask

LEMMA CompareHolds ==
    ASSUME ResumeInv, NEW s \in Sessions, NEW m1 \in Commits, NEW m2 \in Commits, Compare(s, m1, m2)
    PROVE  ResumeInv'
<1> DEFINE t == session[s]
           c == t.checkpoint.commit
           bounded == /\ SupportsBoundedSnapshots(ComparisonStatus(t.base, t.head))
                      /\ SupportsBoundedSnapshots(ComparisonStatus(t.base, c))
           q == IF bounded THEN "snapshots" ELSE "ancestry"
<1>0. t.pc = "compare" /\ t.pc \in OwnPcs
  BY DEF Compare, Runs, OwnPcs
<1>1. t \in Local /\ SessionHolds(github, t) /\ t.base \in Commits /\ t.head \in Commits /\ c \in Commits
  BY <1>0, OwnFacts
<1>2. PICK m : m = <<m1, m2>>
  OBVIOUS
<1>3. PICK n : n = [t EXCEPT !.merge = m, !.pc = q]
  OBVIOUS
<1>4. m1 \in MergeBases(t.base, t.head) /\ m2 \in MergeBases(t.base, c) /\ Steps(s, n)
  BY <1>2, <1>3, Zenon DEF Compare
<1>5. q \in {"snapshots", "ancestry"} /\ (q = "snapshots" => bounded)
  OBVIOUS
<1>6. bounded => MergeBases(t.base, t.head) = {m1} /\ MergeBases(t.base, c) = {m2}
  BY <1>1, <1>4, BoundedMergeBaseIs
<1>6a. bounded => Computed(t)
  BY <1>1, <1>6, SingleMergeBaseIs DEF Computed
<1> HIDE DEF bounded, q
<1>7. /\ q \in Pcs /\ q \in (OwnPcs \ {"compare"}) \cup {"latest"} /\ q \notin {"import", "list", "inspect"}
      /\ m \in Or(Pairs) /\ m[1] = m1 /\ m[2] = m2
  BY <1>2, <1>5 DEF Pcs, OwnPcs, Or, Pairs
<1> HIDE DEF t
<1>8. n \in Local /\ n.pc = q /\ n.merge = m
  BY <1>1, <1>3, <1>7 DEF Local
<1>9. SameTask(t, n) /\ SameMarks(t, n) /\ n.round = t.round
  BY <1>1, <1>3 DEF Local, SameTask, SameMarks
<1>10. n.pc # "ancestry" => Unique(n) /\ Computed(n)
  BY <1>5, <1>6, <1>6a, <1>7, <1>8, <1>9 DEF Unique, Computed, SameTask
<1>11. SessionHolds(github, n)
  BY <1>0, <1>1, <1>7, <1>8, <1>9, <1>10, OwnOn DEF SameMarks
<1>12. Quiet(t, n)
  BY <1>0, <1>7, <1>8, <1>9 DEF Quiet, SameTask, SameMarks
<1> QED
  BY <1>4, <1>8, <1>11, <1>12, StepsQuietly DEF t

LEMMA PrepareAncestryHolds ==
    ASSUME ResumeInv, NEW s \in Sessions, PrepareAncestry(s)
    PROVE  ResumeInv'
<1> DEFINE t == session[s]
<1>0. t.pc = "ancestry" /\ t.pc \in OwnPcs
  BY DEF PrepareAncestry, Runs, OwnPcs
<1>1. t \in Local /\ SessionHolds(github, t)
  BY <1>0, OwnFacts
<1>2. PICK n : n = [t EXCEPT !.pc = "snapshots", !.merge = None]
  OBVIOUS
<1>3. (Computed(t) /\ Steps(s, n)) \/ Steps(s, Failed(t))
  BY <1>2 DEF PrepareAncestry, Computed, ToSet
<1>4. "snapshots" \in Pcs /\ "snapshots" \in OwnPcs /\ None \in Or(Pairs)
  BY DEF Pcs, OwnPcs, Or
<1>5. ASSUME Computed(t), Steps(s, n) PROVE ResumeInv'
  <2> HIDE DEF t
  <2>1. n \in Local /\ n.pc = "snapshots" /\ n.merge = None
    BY <1>1, <1>2, <1>4 DEF Local
  <2>2. SameTask(t, n) /\ SameMarks(t, n) /\ n.round = t.round
    BY <1>1, <1>2 DEF Local, SameTask, SameMarks
  <2>2a. Computed(n)
    BY <1>5, <2>2 DEF Computed, SameTask
  <2>3. SessionHolds(github, n)
    BY <1>0, <1>1, <1>4, <2>1, <2>2, <2>2a, OwnOn DEF SameMarks
  <2>4. Quiet(t, n)
    BY <1>0, <2>1, <2>2 DEF Quiet, SameTask, SameMarks
  <2> QED
    BY <1>5, <2>1, <2>3, <2>4, StepsQuietly DEF t
<1> QED
  BY <1>0, <1>3, <1>5, FailsQuietly

\* A step from one of the places to another that leaves the task alone.
LEMMA OwnMoves ==
    ASSUME ResumeInv, NEW s \in Sessions, session[s].pc \in OwnPcs \ {"compare", "ancestry"},
           NEW q \in (OwnPcs \ {"compare", "ancestry", "snapshots"}) \cup {"latest"}, NEW n, n = [session[s] EXCEPT !.pc = q]
    PROVE  n \in Local /\ SessionHolds(github, n) /\ Quiet(session[s], n)
<1> DEFINE t == session[s]
<1>1. /\ t \in Local /\ SessionHolds(github, t) /\ (t.merge # None => Unique(t))
      /\ t.pc \notin {"list", "inspect", "killed"}
  BY OwnFacts
<1>2. q \in Pcs /\ q \notin {"import", "list", "inspect"}
  BY DEF Pcs, OwnPcs
<1> HIDE DEF t
<1>3. n \in Local /\ n.pc = q /\ SameTask(t, n) /\ SameMarks(t, n) /\ SameSights(t, n)
  BY <1>1, <1>2, PcChanges DEF t
<1>4. n.merge = t.merge /\ n.round = t.round /\ n.keeps = t.keeps
  BY <1>3 DEF SameMarks, SameSights
<1>5. n.merge # None => Unique(n)
  BY <1>1, <1>3, <1>4, UniqueStays
<1>6. SessionHolds(github, n)
  BY <1>1, <1>3, <1>4, <1>5, OwnOn DEF t
<1>7. Quiet(t, n)
  BY <1>1, <1>2, <1>3 DEF Quiet, SameTask, SameMarks
<1> QED
  BY <1>3, <1>6, <1>7 DEF t

LEMMA PrefetchHolds ==
    ASSUME ResumeInv, NEW s \in Sessions, PrefetchBlobs(s)
    PROVE  ResumeInv'
<1>0. session[s].pc = "prefetch" /\ session[s].pc \in OwnPcs \ {"compare", "ancestry"}
  BY DEF PrefetchBlobs, Runs, OwnPcs
<1>1. PICK n : n = [session[s] EXCEPT !.pc = "latest"]
  OBVIOUS
<1>2. Steps(s, n) \/ Steps(s, Failed(session[s]))
  BY <1>1 DEF PrefetchBlobs
<1>3. n \in Local /\ SessionHolds(github, n) /\ Quiet(session[s], n)
  BY <1>0, <1>1, OwnMoves
<1> QED
  BY <1>0, <1>2, <1>3, StepsQuietly, FailsQuietly

LEMMA AttachHolds ==
    ASSUME ResumeInv, NEW s \in Sessions, AttachAncestry(s)
    PROVE  ResumeInv'
<1> DEFINE t == session[s]
           visible == UNION {Ancestors[c] : c \in ToSet(Wanted(t))}
<1>0. t.pc = "attach" /\ t.pc \in OwnPcs \ {"compare", "ancestry"}
  BY DEF AttachAncestry, Runs, OwnPcs
<1>1. repo \in Repos /\ budget \in Budgets
  BY <1>0, OwnFacts
<1>2. PICK n : n = [t EXCEPT !.pc = "prefetch"]
  OBVIOUS
<1>3. PICK v : v = visible
  OBVIOUS
<1>4. repo' = [repo EXCEPT ![s].objects = v] /\ budget' = budget /\ (Does(s, n) \/ Does(s, Failed(t)))
  BY <1>2, <1>3 DEF AttachAncestry
<1>5. v \in SUBSET Commits
  <2>1. \A i \in 1..3 : Wanted(t)[i] \in Commits
    BY <1>0, WantedIs DEF Ready, Preparing
  <2>2. \A c \in ToSet(Wanted(t)) : c \in Commits
    BY <2>1 DEF ToSet, Wanted
  <2>3. \A c \in Commits : Ancestors[c] \subseteq Commits
    BY DEF Ancestors
  <2> QED
    BY <1>3, <2>2, <2>3
<1>6. repo' \in Repos /\ repo'[Shared] = repo[Shared]
  <2>1. PICK x : x = [repo[s] EXCEPT !.objects = v]
    OBVIOUS
  <2>2. repo[s] \in Repo
    BY <1>1 DEF Repos
  <2>3. x \in Repo
    BY <1>5, <2>1, <2>2 DEF Repo
  <2>4. repo' = [repo EXCEPT ![s] = x]
    BY <1>4, <2>1
  <2>5. s # Shared
    BY ResumeAssumption DEF Shared
  <2> QED
    BY <1>1, <2>3, <2>4, <2>5, ReposChange
<1>7. n \in Local /\ SessionHolds(github, n) /\ Quiet(t, n)
  <2>1. "prefetch" \in OwnPcs \ {"compare", "ancestry"}
    BY DEF OwnPcs
  <2> QED
    BY <1>0, <1>2, <2>1, OwnMoves
<1>8. Failed(t) \in Local /\ SessionHolds(github, Failed(t)) /\ Quiet(t, Failed(t))
  BY <1>0, FailureHolds
<1> HIDE DEF t
<1> QED
  BY <1>1, <1>4, <1>6, <1>7, <1>8, QuietHolds DEF t

\* The snapshots' refs are a session's own.
LEMMA MaterializeHolds ==
    ASSUME ResumeInv, NEW s \in Sessions, NEW made \in BOOLEAN, NEW end \in {"ok", "stopped"},
           MaterializeSnapshots(s, end, made)
    PROVE  ResumeInv'
<1> DEFINE t == session[s]
           q == IF Bounded(t) THEN "prefetch" ELSE "attach"
<1>0. t.pc = "snapshots" /\ t.pc \in OwnPcs /\ t.pc \in Ready
  BY DEF MaterializeSnapshots, Runs, OwnPcs, Ready, Preparing
<1>1. /\ t \in Local /\ SessionHolds(github, t) /\ t.mode = "ephemeral" /\ repo \in Repos /\ budget \in Budgets
      /\ t.base \in Commits /\ t.head \in Commits /\ t.checkpoint.commit \in Commits /\ t.pull \in Pulls
      /\ (t.merge # None => Unique(t)) /\ (t.merge = None => Computed(t)) /\ t.keeps = {}
  BY <1>0, OwnFacts
<1>1a. DOMAIN Taken(t) \subseteq 1..4 /\ \A i \in DOMAIN Taken(t) : Taken(t)[i] \in Commits
  BY <1>1, TakenIs
<1>2. budget' \in Budgets
  <2>1. UNCHANGED budget \/ Spend("fail")
    BY DEF MaterializeSnapshots
  <2> QED
    BY <1>1, <2>1, SpendType DEF Surroundings, Budgets
<1>3. PICK l, o, f : /\ l = SetToSeq(Snapshots(t)) /\ o = ToSet(Taken(t))
                     /\ f = [r \in {<<s, x.name>> : x \in Snapshots(t)} |-> Taken(t)[r[2]]]
  OBVIOUS
<1>4. PICK reg : reg = [t EXCEPT !.refs = l]
  OBVIOUS
<1>5. /\ repo' = IF ~made THEN repo ELSE [repo EXCEPT ![s] = [repo[s] EXCEPT !.objects = o, !.refs = f]]
      /\ Does(s, [reg EXCEPT !.pc = q]) \/ Does(s, Failed(reg))
  BY <1>3, <1>4 DEF MaterializeSnapshots
<1>6. repo' \in Repos /\ repo'[Shared] = repo[Shared]
  <2>2. o \in SUBSET Commits
    BY <1>1a, <1>3 DEF ToSet
  <2>3. PICK D : D = {<<s, x.name>> : x \in Snapshots(t)}
    OBVIOUS
  <2>4. D \in SUBSET Names /\ \A r \in D : r[2] \in DOMAIN Taken(t)
    BY <1>1a, <2>3 DEF Snapshots, Names
  <2>5. f \in [D -> Commits \cup {0}]
    BY <1>1a, <1>3, <2>3, <2>4
  <2>6. f \in Partial(Names, Commits \cup {0})
    BY <2>4, <2>5 DEF Partial
  <2>7. repo[s] \in Repo /\ s # Shared
    BY <1>1, ResumeAssumption DEF Repos, Shared
  <2>8. PICK x : x = [repo[s] EXCEPT !.objects = o, !.refs = f]
    OBVIOUS
  <2>9. x \in Repo
    BY <2>2, <2>6, <2>7, <2>8 DEF Repo
  <2>10. CASE made
    <3>1. repo' = [repo EXCEPT ![s] = x]
      BY <1>5, <2>8, <2>10
    <3>2. s \in Sessions \cup {Shared} /\ Shared \in Sessions \cup {Shared}
      OBVIOUS
    <3>3. repo' \in Repos /\ \A b \in Sessions \cup {Shared} : b # s => repo'[b] = repo[b]
      BY <1>1, <2>9, <3>1, <3>2, ReposChange
    <3> QED
      BY <2>7, <3>2, <3>3
  <2>11. CASE ~made
    BY <1>1, <1>5, <2>11
  <2> QED
    BY <2>10, <2>11
<1>7. l \in Lists
  BY <1>1a, <1>3, SnapshotsAreListed DEF Lists
<1>8. q \in OwnPcs /\ q \in Pcs /\ q \notin {"compare", "ancestry", "snapshots", "import", "list", "inspect"}
  BY DEF OwnPcs, Pcs
<1> HIDE DEF t, q
<1>9. reg \in Local /\ reg.pc = t.pc
  BY <1>1, <1>4, <1>7 DEF Local
<1>10. SameTask(t, reg) /\ reg.keeps = t.keeps /\ reg.missed = t.missed
       /\ reg.merge = t.merge /\ reg.round = t.round
  BY <1>1, <1>4 DEF Local, SameTask
<1>11. ASSUME NEW n \in Local, Does(s, n), SessionHolds(github, n), n.pc \notin {"import", "list", "inspect"},
              SameTask(t, n), n.keeps = t.keeps, n.missed = t.missed
       PROVE  ResumeInv'
  <2>1. Quiet(t, n)
    BY <1>0, <1>1, <1>11 DEF Quiet, SameTask
  <2> QED
    BY <1>2, <1>6, <1>11, <2>1, QuietHolds DEF t
<1>12. ASSUME Does(s, [reg EXCEPT !.pc = q]) PROVE ResumeInv'
  <2>1. PICK n : n = [reg EXCEPT !.pc = q]
    OBVIOUS
  <2>2. n \in Local /\ n.pc = q /\ SameTask(reg, n) /\ SameMarks(reg, n) /\ SameSights(reg, n)
    BY <1>8, <1>9, <2>1, PcChanges
  <2>3. SameTask(t, n) /\ n.keeps = t.keeps /\ n.missed = t.missed /\ n.merge = t.merge /\ n.round = t.round
    BY <1>10, <2>2 DEF SameTask, SameMarks, SameSights
  <2>4. n.merge # None => Unique(n)
    BY <1>1, <2>3, UniqueStays
  <2>5. SessionHolds(github, n)
    BY <1>0, <1>1, <1>8, <2>2, <2>3, <2>4, OwnOn
  <2> QED
    BY <1>8, <1>11, <1>12, <2>1, <2>2, <2>3, <2>5
<1>13. ASSUME Does(s, Failed(reg)) PROVE ResumeInv'
  <2>1. PICK n : n = Failed(reg)
    OBVIOUS
  <2>2. n \in Local /\ n.pc = "cleanup" /\ SameTask(reg, n) /\ SameMarks(reg, n)
    BY <1>9, <2>1, FailureIs
  <2>3. SameTask(t, n) /\ n.keeps = t.keeps /\ n.missed = t.missed
    BY <1>10, <2>2 DEF SameTask, SameMarks
  <2>4. SessionHolds(github, n)
    BY <1>1, <2>2, <2>3, EndedHolds DEF Ended, SameTask
  <2> QED
    BY <1>11, <1>13, <2>1, <2>2, <2>3, <2>4
<1> QED
  BY <1>5, <1>12, <1>13

LEMMA EphemeralStepHolds ==
    ASSUME ResumeInv, NEW s \in Sessions, EphemeralStep(s)
    PROVE  ResumeInv'
<1>1. ASSUME NEW m1 \in Commits, NEW m2 \in Commits, Compare(s, m1, m2)
      PROVE  ResumeInv'
  BY <1>1, CompareHolds
<1>2. ASSUME NEW made \in BOOLEAN, NEW end \in {"ok", "stopped"}, MaterializeSnapshots(s, end, made)
      PROVE  ResumeInv'
  BY <1>2, MaterializeHolds
<1> QED
  BY <1>1, <1>2, PrepareAncestryHolds, AttachHolds, PrefetchHolds DEF EphemeralStep

-----------------------------------------------------------------------------
(* The event is observed.                                                  *)

\* Two checkpoints of one number are one review: a review changes only by
\* being dismissed, and then it is no checkpoint.
LEMMA SameReview ==
    ASSUME ResumeInv, NEW p \in Pulls, NEW i \in DOMAIN github, NEW j \in DOMAIN github, i <= j,
           NEW c \in Reviews, Checkpoint(github[i][p].reviews) = c,
           NEW d \in Reviews, Checkpoint(github[j][p].reviews) = d, c.id = d.id
    PROVE  c = d
<1> DEFINE a == github[i][p]
           b == github[j][p]
<1>1. github \in Seq([Pulls -> PullRequests]) /\ HistoryHolds /\ clock \in Nat
  BY DEF ResumeInv, TypeOK
<1>2. a \in PullRequests /\ b \in PullRequests /\ Later(a, b) /\ Numbered(a) /\ Numbered(b)
  BY <1>1 DEF HistoryHolds
<1> HIDE DEF a, b
<1>3. a.reviews \in Seq(Reviews) /\ b.reviews \in Seq(Reviews)
  BY <1>2 DEF PullRequests
<1>4. Listing(a.reviews, clock) /\ Listing(b.reviews, clock)
  BY <1>2, <1>3 DEF Listing, Numbered
<1>5. c # None /\ d # None
  BY ResumeAssumption
<1>6. c \in FormalOf(a.reviews) /\ d \in FormalOf(b.reviews)
  BY <1>1, <1>4, <1>5, CheckpointFinds DEF Newest, a, b
<1>7. c.id \in DOMAIN a.reviews /\ a.reviews[c.id] = c /\ b.reviews[c.id] = d /\ Formal(d)
  <2>1. Formal(d)
    BY <1>6 DEF FormalOf
  <2> QED
    BY <1>1, <1>4, <1>6, <2>1, FormalElements
<1>8. d = c \/ d = DismissedOf(c)
  BY <1>2, <1>7 DEF Later, DismissedOf
<1> QED
  BY <1>7, <1>8, DismissedIs DEF Formal

LEMMA ObservesOn ==
    ASSUME NEW h, NEW t, NEW n, t.pc \in {"latest"} \cup Observing \cup Bound, n.pc \in Observing \cup Bound,
           SameTask(t, n), n.merge = t.merge, n.keeps = t.keeps, Sights(h, n), Opens(n), SessionHolds(h, t)
    PROVE  SessionHolds(h, n)
<1>1. t.pc \in Ready /\ n.pc \in Ready
  BY DEF Ready, Preparing
<1>2. Placed(h, n)
  BY <1>1, PlacedStays DEF SessionHolds
<1>3. /\ n.pc \notin LocalPcs \cup OwnPcs \cup Early \cup {"checkpoint", "delete", "done", "compare", "snapshots"}
      /\ t.pc \notin {"ancestry"} \cup Ended
  BY DEF LocalPcs, OwnPcs, Early, Observing, Bound, Ended
<1>4. Works(n)
  BY <1>3 DEF Works, SessionHolds, SameTask
<1>5. Merges(n)
  <2>1. t.merge # None => Unique(t)
    BY <1>3 DEF SessionHolds, Merges
  <2>2. n.merge # None => Unique(n)
    BY <2>1, UniqueStays
  <2> QED
    BY <1>3, <2>2 DEF Merges
<1> QED
  BY <1>2, <1>4, <1>5 DEF SessionHolds

\* A session that reads, or shows, what is to be shown.
LEMMA WatchFacts ==
    ASSUME ResumeInv, NEW s \in Sessions, session[s].pc \in {"latest"} \cup Observing \cup Bound
    PROVE  /\ session[s] \in Local /\ SessionHolds(github, session[s]) /\ Sights(github, session[s])
           /\ session[s].pull \in Pulls /\ session[s].checkpoint \in Reviews /\ session[s].round \in Nat
           /\ IsCheckpointOf(session[s].checkpoint, session[s].event)
           /\ \E j \in DOMAIN github : Checkpoint(github[j][session[s].pull].reviews) = session[s].checkpoint
           /\ session[s].pc \notin {"idle", "list", "inspect", "killed", "import"}
<1> DEFINE t == session[s]
<1>1. t.pc \in Ready /\ t.pc \notin {"idle", "list", "inspect", "killed", "import"}
      /\ t.pc \notin Early \cup Ended \cup {"checkpoint"}
  BY DEF Ready, Preparing, Observing, Bound, Early, Ended
<1>2. t \in Local /\ SessionHolds(github, t) /\ Sights(github, t) /\ Placed(github, t) /\ t.pull \in Pulls
  BY <1>1, SessionFacts
<1>3. /\ t.checkpoint \in Reviews /\ IsCheckpointOf(t.checkpoint, t.event)
      /\ \E j \in DOMAIN github : Checkpoint(github[j][t.pull].reviews) = t.checkpoint
  BY <1>1, <1>2 DEF Placed
<1>4. t.round \in Nat
  BY <1>2 DEF Local
<1> QED
  BY <1>1, <1>2, <1>3, <1>4

\* Whoever watches makes no difference to the repository.
LEMMA WatchQuietly ==
    ASSUME ResumeInv, NEW s \in Sessions, session[s].pc \in {"latest"} \cup Observing \cup Bound,
           NEW n \in Local, Steps(s, n), n.pc \in Observing \cup Bound, SameTask(session[s], n),
           SameMarks(session[s], n), n.merge = session[s].merge, Sights(github, n), Opens(n)
    PROVE  ResumeInv'
<1>1. SessionHolds(github, session[s]) /\ session[s].pc \notin {"list", "inspect", "killed"}
  BY WatchFacts
<1>2. n.keeps = session[s].keeps
  BY DEF SameMarks
<1>3. SessionHolds(github, n)
  BY <1>1, <1>2, ObservesOn
<1>4. n.pc \notin {"import", "list", "inspect"}
  BY DEF Observing, Bound
<1>5. Quiet(session[s], n)
  BY <1>1, <1>4 DEF Quiet, SameTask, SameMarks
<1> QED
  BY <1>3, <1>5, StepsQuietly

LEMMA ReadLatestHolds ==
    ASSUME ResumeInv, NEW s \in Sessions, ReadLatest(s)
    PROVE  ResumeInv'
<1> DEFINE t == session[s]
           pr == Now(t.pull)
           q == IF t.event = None THEN "bind" ELSE "observe"
<1>0. t.pc = "latest" /\ t.pc \in {"latest"} \cup Observing \cup Bound
  BY DEF ReadLatest, Runs
<1>1. t \in Local /\ Sights(github, t) /\ t.pull \in Pulls
  BY <1>0, WatchFacts
<1>2. Len(github) \in Nat /\ Len(github) \in DOMAIN github /\ github[Len(github)][t.pull] = pr
  BY <1>1, Reading
<1>3. PICK g : g = Len(github)
  OBVIOUS
<1>4. PICK n : n = [t EXCEPT !.pc = q, !.since = g]
  OBVIOUS
<1>5. Steps(s, Failed(t)) \/ (Steps(s, n) /\ pr.base = t.base /\ pr.head = t.head)
  BY <1>3, <1>4 DEF ReadLatest
<1>6. ASSUME Steps(s, n), pr.base = t.base, pr.head = t.head PROVE ResumeInv'
  <2>1. q \in Pcs /\ q \in {"bind", "observe"} /\ (q = "bind" <=> t.event = None)
    BY DEF Pcs, Bound, Observing
  <2>2. g \in Nat /\ g \in DOMAIN github /\ github[g][t.pull] = pr
    BY <1>2, <1>3
  <2>3. t.round = 1
    BY <1>0, <1>1 DEF Sights, Observing, Bound, Ended
  <2> HIDE DEF t, q, pr
  <2>4. n \in Local /\ n.pc = q /\ n.since = g
    BY <1>1, <1>4, <2>1, <2>2 DEF Local
  <2>5. SameTask(t, n) /\ SameMarks(t, n) /\ n.merge = t.merge /\ n.round = t.round
    BY <1>1, <1>4 DEF Local, SameTask, SameMarks
  <2>6. n.event = t.event /\ n.base = t.base /\ n.head = t.head /\ n.pull = t.pull
    BY <2>5 DEF SameTask
  <2>7. Sights(github, n)
    BY <1>6, <2>1, <2>2, <2>3, <2>4, <2>5, <2>6 DEF Sights, Observing, Bound
  <2>8. Opens(n) /\ n.pc \in Observing \cup Bound
    BY <2>1, <2>4 DEF Opens, Observing, Bound
  <2> QED
    BY <1>0, <1>6, <2>4, <2>5, <2>7, <2>8, WatchQuietly DEF t
<1> QED
  BY <1>0, <1>5, <1>6, FailsQuietly

\* A step that sees nothing new.
LEMMA WatchesOn ==
    ASSUME NEW h, NEW t, NEW n, SameTask(t, n), SameSights(t, n), Sights(h, t),
           \/ t.pc = "observe" /\ n.pc = "observe_checkpoint"
           \/ t.pc = "observe_review" /\ n.pc = "observe_requests"
           \/ t.pc = "bind" /\ n.pc = "viewer"
    PROVE  Sights(h, n)
<1>1. /\ n.pull = t.pull /\ n.event = t.event /\ n.base = t.base /\ n.head = t.head
      /\ n.checkpoint = t.checkpoint /\ n.round = t.round /\ n.observed = t.observed
      /\ n.requested = t.requested /\ n.since = t.since
  BY DEF SameTask, SameSights
<1>2. /\ \A c, r, j, k : Glance(h, t, c, r, j, k) <=> Glance(h, n, c, r, j, k)
      /\ \A c, j, k, l : Again(h, t, c, j, k, l) <=> Again(h, n, c, j, k, l)
  BY <1>1 DEF Glance, Again
<1>3. CASE t.pc = "observe" /\ n.pc = "observe_checkpoint"
  BY <1>1, <1>2, <1>3 DEF Sights, Observing, Bound
<1>4. CASE t.pc = "observe_review" /\ n.pc = "observe_requests"
  BY <1>1, <1>2, <1>4 DEF Sights, Observing, Bound
<1>5. CASE t.pc = "bind" /\ n.pc = "viewer"
  BY <1>1, <1>2, <1>5 DEF Sights, Observing, Bound
<1> QED
  BY <1>3, <1>4, <1>5

LEMMA ObserveQuietly ==
    ASSUME ResumeInv, NEW s \in Sessions, ObservePullRequest(s) \/ ObserveReview(s)
    PROVE  ResumeInv'
<1> DEFINE t == session[s]
<1>1. PICK q \in {"observe_checkpoint", "observe_requests"} :
        /\ t.pc = IF q = "observe_checkpoint" THEN "observe" ELSE "observe_review"
        /\ Steps(s, [t EXCEPT !.pc = q]) \/ Steps(s, Failed(t))
  BY DEF ObservePullRequest, ObserveReview, Runs
<1>2. t.pc \in {"latest"} \cup Observing \cup Bound /\ t.pc \in {"observe", "observe_review"} /\ q \in Pcs
      /\ q \in Observing
  BY <1>1 DEF Observing, Pcs
<1>3. t \in Local /\ Sights(github, t)
  BY <1>2, WatchFacts
<1>4. PICK n : n = [t EXCEPT !.pc = q]
  OBVIOUS
<1> HIDE DEF t
<1>5. n \in Local /\ n.pc = q /\ SameTask(t, n) /\ SameMarks(t, n) /\ SameSights(t, n)
  BY <1>2, <1>3, <1>4, PcChanges
<1>6. Sights(github, n)
  BY <1>1, <1>3, <1>5, WatchesOn
<1>7. n.merge = t.merge /\ Opens(n)
  BY <1>5 DEF SameSights, Opens
<1>8. Steps(s, n) \/ Steps(s, Failed(t))
  BY <1>1, <1>4
<1> QED
  BY <1>2, <1>5, <1>6, <1>7, <1>8, WatchQuietly, FailsQuietly DEF t

LEMMA ObserveCheckpointHolds ==
    ASSUME ResumeInv, NEW s \in Sessions, ObserveCheckpoint(s)
    PROVE  ResumeInv'
<1> DEFINE t == session[s]
<1>0. t.pc = "observe_checkpoint" /\ t.pc \in {"latest"} \cup Observing \cup Bound
  BY DEF ObserveCheckpoint, Runs, Observing
<1>1. t \in Local /\ Sights(github, t) /\ t.pull \in Pulls
  BY <1>0, WatchFacts
<1>2. PICK c, g : c = Checkpoint(Now(t.pull).reviews) /\ g = Len(github)
  OBVIOUS
<1>3. g \in Nat /\ g \in DOMAIN github /\ Checkpoint(github[g][t.pull].reviews) = c /\ (c # None => c \in Reviews)
      /\ DOMAIN github = 1..g
  BY <1>1, <1>2, Reading
<1>4. PICK n : n = [t EXCEPT !.pc = "observe_review", !.observed = c]
  OBVIOUS
<1>5. Steps(s, Failed(t)) \/ (Steps(s, n) /\ c # None)
  BY <1>2, <1>4 DEF ObserveCheckpoint
<1>6. ASSUME Steps(s, n), c # None PROVE ResumeInv'
  <2>1. "observe_review" \in Pcs /\ "observe_review" \in Observing /\ c \in Or(Reviews) /\ c \in Reviews
    BY <1>3, <1>6 DEF Pcs, Observing, Or
  <2> HIDE DEF t
  <2>2. n \in Local /\ n.pc = "observe_review" /\ n.observed = c
    BY <1>1, <1>4, <2>1 DEF Local
  <2>3. SameTask(t, n) /\ SameMarks(t, n) /\ n.merge = t.merge /\ n.round = t.round /\ n.since = t.since
    BY <1>1, <1>4 DEF Local, SameTask, SameMarks
  <2>4. /\ n.pull = t.pull /\ n.event = t.event /\ n.base = t.base /\ n.head = t.head
        /\ n.checkpoint = t.checkpoint
    BY <2>3 DEF SameTask
  <2>5. /\ t.since \in DOMAIN github /\ t.event # None /\ t.round \in {1, 2}
        /\ github[t.since][t.pull].base = t.base /\ github[t.since][t.pull].head = t.head
    BY <1>0, <1>1 DEF Sights, Observing
  <2>6. g \in n.since..Len(github)
    BY <1>2, <1>3, <2>3, <2>5
  <2>7. n.round = 2 => \E j, k, l \in Nat : Again(github, n, n.observed, j, k, l)
    <3> SUFFICES ASSUME n.round = 2 PROVE \E j, k, l \in Nat : Again(github, n, n.observed, j, k, l)
      OBVIOUS
    <3>1. PICK j, k \in Nat : Glance(github, t, t.checkpoint, t.event.requested, j, k)
      BY <1>0, <1>1, <2>3 DEF Sights
    <3>2. Glance(github, n, n.checkpoint, n.event.requested, j, k) /\ k \in t.since..Len(github)
      BY <2>3, <2>4, <3>1 DEF Glance
    <3>3. g \in k..Len(github)
      BY <1>2, <1>3, <2>5, <3>2
    <3> QED
      BY <1>3, <2>2, <2>4, <3>2, <3>3 DEF Again
  <2>8. Sights(github, n)
    <3>1. \E j \in n.since..Len(github) : Checkpoint(github[j][n.pull].reviews) = n.observed
      BY <1>3, <2>2, <2>4, <2>6
    <3> QED
      BY <2>1, <2>2, <2>3, <2>4, <2>5, <2>7, <3>1 DEF Sights, Bound
  <2>9. Opens(n)
    BY <2>2 DEF Opens
  <2> QED
    BY <1>0, <1>6, <2>1, <2>2, <2>3, <2>8, <2>9, WatchQuietly DEF t
<1> QED
  BY <1>0, <1>5, <1>6, FailsQuietly

LEMMA ObserveRequestsHolds ==
    ASSUME ResumeInv, NEW s \in Sessions, ObserveRequests(s)
    PROVE  ResumeInv'
<1> DEFINE t == session[s]
<1>0. t.pc = "observe_requests" /\ t.pc \in {"latest"} \cup Observing \cup Bound
  BY DEF ObserveRequests, Runs, Observing
<1>1. t \in Local /\ Sights(github, t) /\ t.pull \in Pulls
  BY <1>0, WatchFacts
<1>2. PICK r, g : r = Now(t.pull).requested /\ g = Len(github)
  OBVIOUS
<1>3. g \in Nat /\ g \in DOMAIN github /\ github[g][t.pull].requested = r /\ r \in BOOLEAN
      /\ DOMAIN github = 1..g
  BY <1>1, <1>2, Reading
<1>4. PICK n : n = [t EXCEPT !.pc = "observe_again", !.requested = r]
  OBVIOUS
<1>5. Steps(s, n)
  BY <1>2, <1>4 DEF ObserveRequests
<1>6. "observe_again" \in Pcs /\ "observe_again" \in Observing
  BY DEF Pcs, Observing
<1> HIDE DEF t
<1>7. n \in Local /\ n.pc = "observe_again" /\ n.requested = r
  BY <1>1, <1>3, <1>4, <1>6 DEF Local
<1>8. SameTask(t, n) /\ SameMarks(t, n) /\ n.merge = t.merge /\ n.round = t.round /\ n.since = t.since
      /\ n.observed = t.observed
  BY <1>1, <1>4 DEF Local, SameTask, SameMarks
<1>9. /\ n.pull = t.pull /\ n.event = t.event /\ n.base = t.base /\ n.head = t.head
      /\ n.checkpoint = t.checkpoint
  BY <1>8 DEF SameTask
<1>10. /\ t.since \in DOMAIN github /\ t.event # None /\ t.round \in {1, 2} /\ t.observed \in Reviews
       /\ github[t.since][t.pull].base = t.base /\ github[t.since][t.pull].head = t.head
  BY <1>0, <1>1 DEF Sights, Observing
<1>11. n.round = 1 => \E j, k \in Nat : Glance(github, n, n.observed, n.requested, j, k)
  <2> SUFFICES ASSUME n.round = 1 PROVE \E j, k \in Nat : Glance(github, n, n.observed, n.requested, j, k)
    OBVIOUS
  <2>1. PICK j \in t.since..Len(github) : Checkpoint(github[j][t.pull].reviews) = t.observed
    BY <1>0, <1>1, <1>8 DEF Sights
  <2>2. j \in Nat /\ j \in n.since..g /\ g \in n.since..Len(github)
    BY <1>2, <1>3, <1>8, <1>10, <2>1
  <2>3. Glance(github, n, n.observed, n.requested, j, g)
    BY <1>3, <1>7, <1>8, <1>9, <2>1, <2>2 DEF Glance
  <2> QED
    BY <1>3, <2>2, <2>3
<1>12. n.round = 2 => \E j, k, l \in Nat : Again(github, n, n.observed, j, k, l)
  <2>1. \A c, j, k, l : Again(github, t, c, j, k, l) => Again(github, n, c, j, k, l)
    BY <1>8, <1>9 DEF Glance, Again
  <2> QED
    BY <1>0, <1>1, <1>8, <2>1 DEF Sights
<1>13. Sights(github, n)
  BY <1>6, <1>7, <1>8, <1>9, <1>10, <1>11, <1>12 DEF Sights, Bound
<1>14. Opens(n)
  BY <1>7 DEF Opens
<1> QED
  BY <1>0, <1>5, <1>6, <1>7, <1>8, <1>13, <1>14, WatchQuietly DEF t

\* The review that was observed is the one that the session reviewed against.
LEMMA ObservedIs ==
    ASSUME ResumeInv, NEW s \in Sessions, session[s].pc = "observe_again",
           session[s].observed.id = session[s].checkpoint.id
    PROVE  session[s].observed = session[s].checkpoint
<1> DEFINE t == session[s]
<1>0. t.pc \in {"latest"} \cup Observing \cup Bound
  BY DEF Observing
<1>1. /\ Sights(github, t) /\ t.pull \in Pulls /\ t.checkpoint \in Reviews
      /\ \E j \in DOMAIN github : Checkpoint(github[j][t.pull].reviews) = t.checkpoint
  BY <1>0, WatchFacts
<1>2. t.since \in DOMAIN github /\ t.observed \in Reviews /\ t.round \in {1, 2}
  BY <1>1 DEF Sights, Observing
<1>3. PICK i \in DOMAIN github : Checkpoint(github[i][t.pull].reviews) = t.checkpoint
  BY <1>1
<1>4. DOMAIN github = 1..Len(github) /\ Len(github) \in Nat
  BY <1>1, Reading
<1>5. PICK j \in DOMAIN github : Checkpoint(github[j][t.pull].reviews) = t.observed
  <2> HIDE DEF t
  <2>1. CASE t.round = 1
    <3>1. PICK j, k \in Nat : Glance(github, t, t.observed, t.requested, j, k)
      BY <1>1, <2>1 DEF Sights, t
    <3>2. j \in DOMAIN github /\ Checkpoint(github[j][t.pull].reviews) = t.observed
      BY <1>2, <1>4, <3>1 DEF Glance
    <3> QED
      BY <3>2
  <2>2. CASE t.round = 2
    <3>1. PICK j, k, l \in Nat : Again(github, t, t.observed, j, k, l)
      BY <1>1, <2>2 DEF Sights, t
    <3>2. k \in t.since..Len(github) /\ l \in k..Len(github) /\ Checkpoint(github[l][t.pull].reviews) = t.observed
      BY <3>1 DEF Again, Glance
    <3>3. l \in DOMAIN github
      BY <1>2, <1>4, <3>2
    <3> QED
      BY <3>2, <3>3
  <2> QED
    BY <1>2, <2>1, <2>2
<1>6. i <= j \/ j <= i
  BY <1>4
<1>7. t.observed.id = t.checkpoint.id
  OBVIOUS
<1> HIDE DEF t
<1>8. t.observed = t.checkpoint
  BY <1>1, <1>2, <1>3, <1>5, <1>6, <1>7, SameReview
<1> QED
  BY <1>8 DEF t

LEMMA ObserveAgainHolds ==
    ASSUME ResumeInv, NEW s \in Sessions, ObserveAgain(s)
    PROVE  ResumeInv'
<1> DEFINE t == session[s]
           pr == Now(t.pull)
           q == IF t.round = Observations THEN "bind" ELSE "observe"
           triggers == Triggers(t.observed.commit, None, pr.head, pr.base, t.requested)
<1>0. t.pc = "observe_again" /\ t.pc \in {"latest"} \cup Observing \cup Bound
  BY DEF ObserveAgain, Runs, Observing
<1>1. /\ t \in Local /\ Sights(github, t) /\ t.pull \in Pulls /\ t.checkpoint \in Reviews
      /\ IsCheckpointOf(t.checkpoint, t.event)
  BY <1>0, WatchFacts
<1>2. PICK g : g = Len(github)
  OBVIOUS
<1>3. g \in Nat /\ g \in DOMAIN github /\ github[g][t.pull] = pr /\ DOMAIN github = 1..g
  BY <1>1, <1>2, Reading
<1>4. PICK n : n = [t EXCEPT !.pc = q, !.round = t.round + 1]
  OBVIOUS
<1>5. \/ Steps(s, Failed(t))
      \/ /\ Steps(s, n) /\ pr.base = t.base /\ pr.head = t.head
         /\ t.event = Event(pr.base, pr.head, t.observed, None, t.requested, triggers)
  BY <1>4 DEF ObserveAgain
<1>6. /\ t.since \in DOMAIN github /\ t.event # None /\ t.round \in {1, 2} /\ t.observed \in Reviews
      /\ github[t.since][t.pull].base = t.base /\ github[t.since][t.pull].head = t.head
  BY <1>0, <1>1 DEF Sights, Observing
<1>7. ASSUME Steps(s, n), pr.base = t.base, pr.head = t.head,
             t.event = Event(pr.base, pr.head, t.observed, None, t.requested, triggers)
      PROVE  ResumeInv'
  <2>1. t.event.review = t.observed.id /\ t.event.requested = t.requested
    <3> HIDE DEF t, pr, triggers
    <3> QED BY <1>7 DEF Event
  <2>2. t.checkpoint.id = t.event.review
    BY <1>1, <1>6 DEF IsCheckpointOf
  <2>3. t.observed = t.checkpoint
    BY <1>0, <2>1, <2>2, ObservedIs
  <2>4. q \in Pcs /\ q \in {"bind", "observe"} /\ (q = "bind" <=> t.round = 2) /\ q \in Observing \cup Bound
        /\ t.round + 1 \in Nat
    BY <1>6 DEF Pcs, Bound, Observing, Observations
  <2>5. github[g][t.pull].base = t.base /\ github[g][t.pull].head = t.head
    BY <1>3, <1>7
  <2> HIDE DEF t, q, pr, triggers
  <2>6. n \in Local /\ n.pc = q /\ n.round = t.round + 1
    BY <1>1, <1>4, <2>4 DEF Local
  <2>7. SameTask(t, n) /\ SameMarks(t, n) /\ n.merge = t.merge /\ n.since = t.since
    BY <1>1, <1>4 DEF Local, SameTask, SameMarks
  <2>8. /\ n.pull = t.pull /\ n.event = t.event /\ n.base = t.base /\ n.head = t.head
        /\ n.checkpoint = t.checkpoint
    BY <2>7 DEF SameTask
  <2>9. CASE t.round = 1
    <3>1. PICK j, k \in Nat : Glance(github, t, t.observed, t.requested, j, k)
      BY <1>0, <1>1, <2>9 DEF Sights
    <3>2. Glance(github, n, n.checkpoint, n.event.requested, j, k)
      BY <2>1, <2>3, <2>7, <2>8, <3>1 DEF Glance
    <3>3. n.pc = "observe" /\ n.round = 2
      BY <2>4, <2>6, <2>9
    <3>4. \E i, m \in Nat : Glance(github, n, n.checkpoint, n.event.requested, i, m)
      BY <3>2
    <3>5. Sights(github, n) /\ Opens(n)
      BY <1>6, <2>7, <2>8, <3>3, <3>4 DEF Sights, Bound, Observing, Opens
    <3> QED
      BY <1>0, <1>7, <2>4, <2>6, <2>7, <3>5, WatchQuietly DEF t
  <2>10. CASE t.round = 2
    <3>1. PICK j, k, l \in Nat : Again(github, t, t.observed, j, k, l)
      BY <1>0, <1>1, <2>10 DEF Sights
    <3>2. Again(github, n, n.checkpoint, j, k, l)
      BY <2>3, <2>7, <2>8, <3>1 DEF Glance, Again
    <3>3. n.pc = "bind" /\ n.round = 3
      BY <2>4, <2>6, <2>10
    <3>4. g \in l..Len(github)
      <4>1. l \in k..Len(github)
        BY <3>1 DEF Again
      <4> QED
        BY <1>2, <1>3, <4>1
    <3>5. \E m \in l..Len(github) : github[m][n.pull].base = n.base /\ github[m][n.pull].head = n.head
      BY <2>5, <2>8, <3>4
    <3>6. \E i, m, o \in Nat :
            /\ Again(github, n, n.checkpoint, i, m, o)
            /\ \E x \in o..Len(github) : github[x][n.pull].base = n.base /\ github[x][n.pull].head = n.head
      BY <3>2, <3>5
    <3>7. Sights(github, n) /\ Opens(n)
      BY <1>6, <2>7, <2>8, <3>3, <3>6 DEF Sights, Bound, Observing, Opens
    <3> QED
      BY <1>0, <1>7, <2>4, <2>6, <2>7, <3>7, WatchQuietly DEF t
  <2> QED
    BY <1>6, <2>9, <2>10
<1> QED
  BY <1>0, <1>5, <1>7, FailsQuietly

LEMMA ObservationStepHolds ==
    ASSUME ResumeInv, NEW s \in Sessions, ObservationStep(s)
    PROVE  ResumeInv'
BY ReadLatestHolds, ObserveQuietly, ObserveCheckpointHolds, ObserveRequestsHolds, ObserveAgainHolds
   DEF ObservationStep

-----------------------------------------------------------------------------
(* The viewer, signals and failures.                                       *)

LEMMA BindHolds ==
    ASSUME ResumeInv, NEW s \in Sessions, Bind(s)
    PROVE  ResumeInv'
<1> DEFINE t == session[s]
<1>0. t.pc = "bind" /\ t.pc \in {"latest"} \cup Observing \cup Bound
  BY DEF Bind, Bound
<1>1. t \in Local /\ Sights(github, t)
  BY <1>0, WatchFacts
<1>2. PICK n : n = [t EXCEPT !.pc = "viewer", !.attempt = "bound"]
  OBVIOUS
<1>3. Steps(s, n)
  BY <1>2 DEF Bind
<1>4. "viewer" \in Pcs /\ "viewer" \in Bound /\ "bound" \in Attempts
  BY DEF Pcs, Bound, Attempts
<1> HIDE DEF t
<1>5. n \in Local /\ n.pc = "viewer"
  BY <1>1, <1>2, <1>4 DEF Local
<1>6. SameTask(t, n) /\ SameMarks(t, n)
  BY <1>1, <1>2 DEF Local, SameTask, SameMarks
<1>7. SameSights(t, n)
  BY <1>1, <1>2 DEF Local, SameSights
<1>8. Sights(github, n)
  BY <1>0, <1>1, <1>5, <1>6, <1>7, WatchesOn
<1>9. n.merge = t.merge /\ Opens(n)
  BY <1>5, <1>7 DEF SameSights, Opens
<1> QED
  BY <1>0, <1>3, <1>4, <1>5, <1>6, <1>8, <1>9, WatchQuietly DEF t

\* The merge bases that a viewer is given or finds are the only ones.
LEMMA MergeIs ==
    ASSUME NEW t, t.base \in Commits, t.head \in Commits, t.checkpoint.commit \in Commits,
           t.merge \in Or(Pairs), t.merge # None => Unique(t), NEW m,
           m = IF t.merge # None THEN t.merge
               ELSE <<UniqueMergeBase(t.base, t.head), UniqueMergeBase(t.base, t.checkpoint.commit)>>,
           None \notin ToSet(m)
    PROVE  /\ m \in Commits \X Commits
           /\ MergeBases(t.base, t.head) = {m[1]}
           /\ MergeBases(t.base, t.checkpoint.commit) = {m[2]}
<1>1. CASE t.merge # None
  BY <1>1 DEF Or, Pairs, Unique
<1>2. CASE t.merge = None
  <2>1. PICK x, y : x = UniqueMergeBase(t.base, t.head) /\ y = UniqueMergeBase(t.base, t.checkpoint.commit)
    OBVIOUS
  <2>2. m = <<x, y>>
    BY <1>2, <2>1
  <2>3. x # None /\ y # None
    BY <2>2 DEF ToSet
  <2>4. x \in Commits /\ MergeBases(t.base, t.head) = {x}
    BY <2>1, <2>3, UniqueMergeBaseIs
  <2>5. y \in Commits /\ MergeBases(t.base, t.checkpoint.commit) = {y}
    BY <2>1, <2>3, UniqueMergeBaseIs
  <2> QED
    BY <2>2, <2>4, <2>5
<1> QED
  BY <1>1, <1>2

LEMMA OpenViewerHolds ==
    ASSUME ResumeInv, NEW s \in Sessions, OpenViewer(s)
    PROVE  ResumeInv'
<1> DEFINE t == session[s]
<1>0. t.pc = "viewer" /\ t.pc \in {"latest"} \cup Observing \cup Bound /\ t.pc \in Ready
  BY DEF OpenViewer, Runs, Bound, Ready
<1>1. t \in Local /\ Sights(github, t) /\ t.checkpoint \in Reviews
  BY <1>0, WatchFacts
<1>2. t.base \in Commits /\ t.head \in Commits /\ t.checkpoint.commit \in Commits
  BY <1>0, WantedIs
<1>3. t.merge \in Or(Pairs) /\ (t.merge # None => Unique(t))
  <2>1. t.merge \in Or(Pairs)
    BY <1>1 DEF Local
  <2>2. Merges(t)
    BY SessionFacts
  <2> QED
    BY <1>0, <2>1, <2>2 DEF Merges, Ended
<1>4. PICK m : m = IF t.merge # None THEN t.merge
               ELSE <<UniqueMergeBase(t.base, t.head), UniqueMergeBase(t.base, t.checkpoint.commit)>>
  OBVIOUS
<1>5. PICK x : x = [base |-> t.base, head |-> t.head, checkpoint |-> t.checkpoint, merge |-> m]
  OBVIOUS
<1>6. PICK n : n = [t EXCEPT !.pc = "open", !.attempt = "ready", !.shown = x]
  OBVIOUS
<1>7. Steps(s, Failed(t)) \/ (Steps(s, n) /\ None \notin ToSet(m))
  BY <1>4, <1>5, <1>6 DEF OpenViewer
<1>8. ASSUME Steps(s, n), None \notin ToSet(m) PROVE ResumeInv'
  <2>1. "open" \in Pcs /\ "open" \in Bound /\ "ready" \in Attempts
    BY DEF Pcs, Bound, Attempts
  <2> HIDE DEF t
  <2>2. /\ m \in Commits \X Commits
        /\ MergeBases(t.base, t.head) = {m[1]}
        /\ MergeBases(t.base, t.checkpoint.commit) = {m[2]}
    BY <1>2, <1>3, <1>4, <1>8, MergeIs
  <2>3. x \in Shown /\ x \in Or(Shown)
    BY <1>1, <1>2, <1>5, <2>2 DEF Shown, Or
  <2>4. n \in Local /\ n.pc = "open" /\ n.shown = x
    BY <1>1, <1>6, <2>1, <2>3 DEF Local
  <2>5. SameTask(t, n) /\ SameMarks(t, n) /\ n.merge = t.merge /\ n.since = t.since /\ n.round = t.round
    BY <1>1, <1>6 DEF Local, SameTask, SameMarks
  <2>6. /\ n.pull = t.pull /\ n.event = t.event /\ n.base = t.base /\ n.head = t.head
        /\ n.checkpoint = t.checkpoint
    BY <2>5 DEF SameTask
  <2>7. Opens(n)
    BY <1>5, <2>2, <2>3, <2>4, <2>6 DEF Opens, MergeBasesAreUnique
  <2>8. \A c, j, k, l : Again(github, t, c, j, k, l) <=> Again(github, n, c, j, k, l)
    BY <2>5, <2>6 DEF Glance, Again
  <2>9. Sights(github, n)
    BY <1>0, <1>1, <2>4, <2>5, <2>6, <2>8 DEF Sights, Observing, Bound
  <2> QED
    BY <1>0, <1>8, <2>1, <2>4, <2>5, <2>7, <2>9, WatchQuietly DEF t
<1> QED
  BY <1>0, <1>7, <1>8, FailsQuietly

\* A session that stops where it is, without its last steps being undone.
LEMMA StopsHold ==
    ASSUME ResumeInv, NEW s \in Sessions, session[s].pc # "idle",
           NEW n \in Local, SameTask(session[s], n), SameMarks(session[s], n),
           n.pc = "killed" \/ (n.pc = "cleanup" /\ session[s].pc \notin {"list", "inspect", "killed"})
    PROVE  SessionHolds(github, n) /\ Quiet(session[s], n)
<1> DEFINE t == session[s]
<1>1. t \in Local /\ Works(t) /\ t.pull \in Pulls
  BY SessionFacts
<1> HIDE DEF t
<1>2. n.pull \in Pulls /\ n.pc \in Ended /\ n.pc # "delete" /\ n.pc # "done"
  BY <1>1 DEF SameTask, Ended, t
<1>3. n.mode = "ephemeral" => n.keeps = {}
  BY <1>1 DEF Works, SameTask, SameMarks, t
<1>4. SessionHolds(github, n)
  BY <1>2, <1>3, EndedHolds
<1>5. Quiet(t, n)
  BY DEF Quiet, SameTask, SameMarks, t
<1> QED
  BY <1>4, <1>5 DEF t

LEMMA CloseViewerHolds ==
    ASSUME ResumeInv, NEW s \in Sessions, CloseViewer(s)
    PROVE  ResumeInv'
<1>1. session[s].pc = "open" /\ Steps(s, [session[s] EXCEPT !.pc = "cleanup"]) /\ session[s] \in Local
      /\ "cleanup" \in Pcs
  BY SessionFacts DEF CloseViewer, Runs, Pcs, Ended
<1>2. PICK n : n = [session[s] EXCEPT !.pc = "cleanup"]
  OBVIOUS
<1>3. n \in Local /\ n.pc = "cleanup" /\ SameTask(session[s], n) /\ SameMarks(session[s], n)
  BY <1>1, <1>2, PcChanges
<1>4. SessionHolds(github, n) /\ Quiet(session[s], n)
  BY <1>1, <1>3, StopsHold
<1> QED
  BY <1>1, <1>2, <1>3, <1>4, StepsQuietly

LEMMA InterruptedHolds ==
    ASSUME ResumeInv, NEW s \in Sessions, Interrupted(s)
    PROVE  ResumeInv'
<1> DEFINE t == session[s]
<1>1. /\ t.pc \notin {"idle", "list", "inspect", "killed"} /\ t \in Local
      /\ "cleanup" \in Pcs /\ "interrupted" \in Errors
  BY SessionFacts DEF Interrupted, Interruptible, Pcs, Ended, Errors
<1>2. PICK n : n = [t EXCEPT !.pc = "cleanup", !.error = "interrupted"]
  OBVIOUS
<1>3. Steps(s, n)
  BY <1>2 DEF Interrupted
<1> HIDE DEF t
<1>4. n \in Local /\ n.pc = "cleanup"
  BY <1>1, <1>2 DEF Local
<1>5. SameTask(t, n) /\ SameMarks(t, n)
  BY <1>1, <1>2 DEF Local, SameTask, SameMarks
<1>6. SessionHolds(github, n) /\ Quiet(session[s], n)
  BY <1>1, <1>4, <1>5, StopsHold DEF t
<1> QED
  BY <1>3, <1>4, <1>6, StepsQuietly

\* A step that spends and changes no repository.
LEMMA SpendsQuietly ==
    ASSUME ResumeInv, NEW s \in Sessions, NEW n \in Local, Does(s, n), SessionHolds(github, n),
           Quiet(session[s], n), UNCHANGED repo, NEW name \in Surroundings, Spend(name)
    PROVE  ResumeInv'
<1>1. repo' \in Repos /\ repo'[Shared] = repo[Shared]
  BY DEF ResumeInv, TypeOK, Repos
<1>2. budget' \in Budgets
  BY SpendType DEF ResumeInv, TypeOK, Budgets
<1> QED
  BY <1>1, <1>2, QuietHolds

LEMMA ChildFailsHolds ==
    ASSUME ResumeInv, NEW s \in Sessions, ChildFails(s)
    PROVE  ResumeInv'
<1>1. session[s].pc \notin {"idle", "list", "inspect", "killed"} /\ "fail" \in Surroundings
  BY DEF ChildFails, Interruptible, Surroundings
<1>2. /\ Failed(session[s]) \in Local /\ SessionHolds(github, Failed(session[s]))
      /\ Quiet(session[s], Failed(session[s]))
  BY <1>1, FailureHolds
<1>3. Does(s, Failed(session[s])) /\ Spend("fail") /\ UNCHANGED repo
  BY DEF ChildFails
<1> QED
  BY <1>1, <1>2, <1>3, SpendsQuietly

\* A session of which nothing changed that matters.
LEMMA SessionStays ==
    ASSUME NEW h, NEW t, NEW n, n.pc = t.pc, SameTask(t, n), SameMarks(t, n), SameSights(t, n), SameFetch(t, n),
           SessionHolds(h, t)
    PROVE  SessionHolds(h, n)
<1>1. /\ n.pull = t.pull /\ n.event = t.event /\ n.base = t.base /\ n.head = t.head
      /\ n.checkpoint = t.checkpoint /\ n.mode = t.mode
  BY DEF SameTask
<1>2. /\ n.merge = t.merge /\ n.round = t.round /\ n.observed = t.observed /\ n.requested = t.requested
      /\ n.since = t.since /\ n.shown = t.shown
  BY DEF SameSights
<1>3. /\ n.refs = t.refs /\ n.keeps = t.keeps /\ n.cleanup = t.cleanup /\ n.missed = t.missed /\ n.i = t.i
  BY DEF SameMarks, SameFetch
<1>4. /\ \A c, r, j, k : Glance(h, t, c, r, j, k) <=> Glance(h, n, c, r, j, k)
      /\ \A c, j, k, l : Again(h, t, c, j, k, l) <=> Again(h, n, c, j, k, l)
  BY <1>1, <1>2 DEF Glance, Again
<1>5. Placed(h, n)
  BY <1>1, <1>2, <1>3 DEF SessionHolds, Placed
<1>6. Works(n)
  BY <1>1, <1>2, <1>3 DEF SessionHolds, Works
<1>7. Merges(n)
  BY <1>1, <1>2 DEF SessionHolds, Merges, Unique, Computed
<1>8. Sights(h, n)
  BY <1>1, <1>2, <1>4 DEF SessionHolds, Sights
<1>9. Opens(n)
  BY <1>1, <1>2 DEF SessionHolds, Opens, MergeBasesAreUnique
<1> QED
  BY <1>5, <1>6, <1>7, <1>8, <1>9 DEF SessionHolds

LEMMA SignalHolds ==
    ASSUME ResumeInv, NEW s \in Sessions, Signal(s)
    PROVE  ResumeInv'
<1> DEFINE t == session[s]
<1>1. t \in Local /\ SessionHolds(github, t) /\ "signal" \in Surroundings
  BY SessionFacts DEF Surroundings
<1>2. PICK n : n = [t EXCEPT !.signal = TRUE]
  OBVIOUS
<1>3. Does(s, n) /\ Spend("signal") /\ UNCHANGED repo
  BY <1>2 DEF Signal
<1> HIDE DEF t
<1>4. n \in Local /\ n.pc = t.pc
  BY <1>1, <1>2 DEF Local
<1>5. SameTask(t, n) /\ SameMarks(t, n)
  BY <1>1, <1>2 DEF Local, SameTask, SameMarks
<1>6. SameSights(t, n) /\ SameFetch(t, n)
  BY <1>1, <1>2 DEF Local, SameSights, SameFetch
<1>7. SessionHolds(github, n)
  BY <1>1, <1>4, <1>5, <1>6, SessionStays
<1>8. Quiet(t, n)
  BY <1>4, <1>5, <1>6 DEF Quiet, SameTask, SameMarks
<1> QED
  BY <1>1, <1>3, <1>4, <1>7, <1>8, SpendsQuietly DEF t

LEMMA KillHolds ==
    ASSUME ResumeInv, NEW s \in Sessions, Kill(s)
    PROVE  ResumeInv'
<1>1. session[s].pc # "idle" /\ session[s] \in Local /\ "killed" \in Pcs /\ "kill" \in Surroundings
  BY SessionFacts DEF Kill, Pcs, Ended, Surroundings
<1>2. PICK n : n = [session[s] EXCEPT !.pc = "killed"]
  OBVIOUS
<1>3. Does(s, n) /\ Spend("kill") /\ UNCHANGED repo
  BY <1>2 DEF Kill
<1>4. n \in Local /\ n.pc = "killed" /\ SameTask(session[s], n) /\ SameMarks(session[s], n)
  BY <1>1, <1>2, PcChanges
<1>5. SessionHolds(github, n) /\ Quiet(session[s], n)
  BY <1>1, <1>4, StopsHold
<1> QED
  BY <1>1, <1>3, <1>4, <1>5, SpendsQuietly

-----------------------------------------------------------------------------
(* Cleanup.                                                                *)

Relisted(t, f, u) == [t EXCEPT !.refs = f, !.cleanup = u, !.pc = "cleanup"]

LEMMA RelistedIs ==
    ASSUME NEW t \in Local, NEW f \in Lists, NEW u \in Cleanups, NEW n, n = Relisted(t, f, u)
    PROVE  /\ n \in Local /\ n.pc = "cleanup" /\ n.cleanup = u /\ n.refs = f
           /\ SameTask(t, n) /\ n.keeps = t.keeps /\ n.missed = t.missed
<1>0. "cleanup" \in Pcs
  BY DEF Pcs, Ended
<1>1. n \in Local /\ n.pc = "cleanup" /\ n.cleanup = u /\ n.refs = f
  BY <1>0 DEF Local, Relisted
<1> QED
  BY <1>1 DEF Local, Relisted, SameTask

LEMMA DroppedIs ==
    ASSUME NEW t \in Local, t.refs # <<>>, NEW u \in Cleanups, NEW n, n = Dropped(t, u)
    PROVE  /\ n \in Local /\ n.pc = "cleanup" /\ n.cleanup = u /\ SameTask(t, n)
           /\ n.keeps = t.keeps /\ n.missed = t.missed
           /\ \A k \in DOMAIN t.refs : k # Len(t.refs) => k \in DOMAIN n.refs /\ n.refs[k] = t.refs[k]
           /\ Last(t.refs) = t.refs[Len(t.refs)] /\ Last(t.refs).name \in 1..4 /\ Last(t.refs).commit \in Commits
<1>1. t.refs \in Seq(Entries)
  BY DEF Local, Lists
<1>2. PICK f : f = Front(t.refs)
  OBVIOUS
<1>3. /\ f \in Seq(Entries)
      /\ \A k \in DOMAIN t.refs : k # Len(t.refs) => k \in DOMAIN f /\ f[k] = t.refs[k]
  <2>1. PICK r : r = t.refs
    OBVIOUS
  <2>2. r \in Seq(Entries) /\ r # <<>> /\ f = SubSeq(r, 1, Len(r) - 1)
    BY <1>1, <1>2, <2>1 DEF Front
  <2>3. f \in Seq(Entries) /\ \A k \in DOMAIN r : k # Len(r) => k \in DOMAIN f /\ f[k] = r[k]
    BY <2>2
  <2> QED
    BY <2>1, <2>3
<1>4. f \in Lists
  BY <1>3 DEF Lists
<1>5. n = Relisted(t, f, u)
  BY <1>2 DEF Dropped, Relisted
<1>6. /\ n \in Local /\ n.pc = "cleanup" /\ n.cleanup = u /\ n.refs = f
      /\ SameTask(t, n) /\ n.keeps = t.keeps /\ n.missed = t.missed
  BY <1>4, <1>5, RelistedIs
<1>8. Last(t.refs) = t.refs[Len(t.refs)] /\ t.refs[Len(t.refs)] \in Entries
  BY <1>1 DEF Last
<1>9. Last(t.refs).name \in 1..4 /\ Last(t.refs).commit \in Commits
  BY <1>8 DEF Entries
<1> QED
  BY <1>3, <1>6, <1>8, <1>9

\* The last ref is off the list: it is gone from the repository, or it is
\* known that it could not be removed.
LEMMA DropHolds ==
    ASSUME ResumeInv, NEW s \in Sessions, session[s].pc \in {"cleanup", "delete"}, session[s].refs # <<>>,
           NEW u \in Cleanups, Does(s, Dropped(session[s], u)), budget' \in Budgets, repo' \in Repos,
           repo'[Shared].keeps = repo[Shared].keeps, NEW f, f = repo'[Shared].refs,
           \A r \in DOMAIN f : r \in DOMAIN repo[Shared].refs,
           \A r \in DOMAIN repo[Shared].refs : repo[Shared].refs[r] = 0 => r \in DOMAIN f /\ f[r] = 0,
           session[s].cleanup = "failed" => u = "failed",
           u = "failed" \/ session[s].mode = "ephemeral" \/ <<s, Last(session[s].refs).name>> \notin DOMAIN f
    PROVE  ResumeInv'
<1> DEFINE t == session[s]
<1>1. t \in Local /\ Works(t) /\ t.pull \in Pulls
  BY SessionFacts
<1>2. PICK n : n = Dropped(t, u)
  OBVIOUS
<1>3. PICK k, refs : k = repo[Shared].keeps /\ refs = repo[Shared].refs
  OBVIOUS
<1>4. /\ Spares(t)
      /\ \A d \in DOMAIN k : k[d].by = s => Accounted(t, d)
      /\ \A r \in DOMAIN refs : r[1] \in Sessions /\ (r[1] = s => Listed(t, r[2]))
  BY <1>3, SharedView
<1>5. \A r \in DOMAIN refs : r = <<r[1], r[2]>>
  <2>1. DOMAIN refs \subseteq Names
    BY <1>3, SharedFacts, RepoIs DEF ResumeInv
  <2> QED
    BY <2>1 DEF Names
<1>6. t.pc \in {"cleanup", "delete"} /\ t.refs # <<>>
  OBVIOUS
<1>7. /\ Does(s, n) /\ k = repo'[Shared].keeps /\ (t.cleanup = "failed" => u = "failed")
      /\ \A r \in DOMAIN f : r \in DOMAIN refs
      /\ \A r \in DOMAIN refs : refs[r] = 0 => r \in DOMAIN f /\ f[r] = 0
      /\ u = "failed" \/ t.mode = "ephemeral" \/ <<s, Last(t.refs).name>> \notin DOMAIN f
  BY <1>2, <1>3
<1> HIDE DEF t
<1>8. /\ n \in Local /\ n.pc = "cleanup" /\ n.cleanup = u /\ SameTask(t, n)
      /\ n.keeps = t.keeps /\ n.missed = t.missed
      /\ \A i \in DOMAIN t.refs : i # Len(t.refs) => i \in DOMAIN n.refs /\ n.refs[i] = t.refs[i]
      /\ Last(t.refs) = t.refs[Len(t.refs)]
  BY <1>1, <1>2, <1>6, DroppedIs
<1>9. SessionHolds(github, n)
  BY <1>1, <1>8, EndedHolds DEF Ended, Works, SameTask
<1>10. Spares(n)
  BY <1>4, <1>8 DEF Spares
<1>11. \A d \in DOMAIN k : k[d].by = s => Accounted(n, d)
  BY <1>4, <1>6, <1>8 DEF Accounted
<1>12. \A r \in DOMAIN f : /\ r[1] \in Sessions
                           /\ r[1] = s => Listed(n, r[2])
                           /\ r[1] # s => r \in DOMAIN refs
  <2> SUFFICES ASSUME NEW r \in DOMAIN f, r[1] = s PROVE Listed(n, r[2])
    BY <1>4, <1>7
  <2>1. Listed(t, r[2]) /\ r = <<s, r[2]>>
    BY <1>4, <1>5, <1>7
  <2>2. t.mode = "local" /\ n.mode = "local"
    BY <1>8, <2>1 DEF Listed, SameTask
  <2>3. CASE u = "failed"
    BY <1>8, <2>2, <2>3 DEF Listed
  <2>5. CASE t.missed
    BY <1>8, <2>2, <2>5 DEF Listed
  <2>4. CASE u # "failed" /\ ~t.missed
    <3>1. PICK i \in DOMAIN t.refs : t.refs[i].name = r[2]
      BY <1>6, <1>7, <2>1, <2>4 DEF Listed
    <3>2. i # Len(t.refs)
      BY <1>7, <1>8, <2>1, <2>2, <2>4, <3>1
    <3> QED
      BY <1>8, <2>2, <3>1, <3>2 DEF Listed
  <2> QED
    BY <2>3, <2>4, <2>5
<1>13. KeepsHold' /\ RefsHold' /\ OthersHold'
  BY <1>3, <1>7, <1>10, <1>11, <1>12, SharesHold
<1> QED
  BY <1>7, <1>8, <1>9, <1>13, SessionStepsHold

LEMMA InspectRefHolds ==
    ASSUME ResumeInv, NEW s \in Sessions, NEW ok \in BOOLEAN, InspectRef(s, ok)
    PROVE  ResumeInv'
<1> DEFINE t == session[s]
           r == <<s, Last(t.refs).name>>
           refs == repo[RepoOf(s)].refs
<1>1. /\ t.pc = "cleanup" /\ t.refs # <<>> /\ t \in Local /\ t.cleanup \in Cleanups /\ t.mode \in Modes
      /\ repo' = repo /\ repo \in Repos /\ "failed" \in Cleanups
  <2>1. t \in Local
    BY SessionFacts
  <2> QED
    BY <2>1 DEF InspectRef, ResumeInv, TypeOK, Repos, Local, Cleanups
<1>2. budget' \in Budgets
  <2>1. UNCHANGED budget \/ Spend("fail")
    BY DEF InspectRef
  <2>2. "fail" \in Surroundings /\ budget \in Budgets
    BY DEF Surroundings, ResumeInv, TypeOK, Budgets
  <2> QED
    BY <2>1, <2>2, SpendType DEF Budgets
<1>3. \/ Does(s, Dropped(t, "failed"))
      \/ Does(s, Dropped(t, t.cleanup)) /\ r \notin DOMAIN refs
      \/ Does(s, [t EXCEPT !.pc = "delete"])
  BY DEF InspectRef
<1>4. ASSUME NEW u \in Cleanups, Does(s, Dropped(t, u)), u = "failed" \/ (u = t.cleanup /\ r \notin DOMAIN refs)
      PROVE  ResumeInv'
  <2>1. t.mode = "local" => RepoOf(s) = Shared
    BY DEF RepoOf
  <2>2. t.mode # "local" => t.mode = "ephemeral"
    BY <1>1 DEF Modes
  <2>3. PICK f : f = repo[Shared].refs
    OBVIOUS
  <2>4. f = repo'[Shared].refs /\ repo'[Shared].keeps = repo[Shared].keeps
    BY <1>1, <2>3
  <2>5. u = "failed" \/ t.mode = "ephemeral" \/ r \notin DOMAIN f
    BY <1>4, <2>1, <2>2, <2>3
  <2>6. t.cleanup = "failed" => u = "failed"
    BY <1>4
  <2> QED
    BY <1>1, <1>2, <1>4, <2>3, <2>4, <2>5, <2>6, DropHolds
<1>5. ASSUME Does(s, [t EXCEPT !.pc = "delete"]) PROVE ResumeInv'
  <2>1. PICK n : n = [t EXCEPT !.pc = "delete"]
    OBVIOUS
  <2>2. "delete" \in Pcs /\ Works(t) /\ t.pull \in Pulls
    BY <1>1, SessionFacts DEF Pcs, Ended
  <2>3. Does(s, n)
    BY <1>5, <2>1
  <2>0. repo'[Shared] = repo[Shared] /\ repo' \in Repos
    BY <1>1
  <2> HIDE DEF t
  <2>4. n \in Local /\ n.pc = "delete" /\ SameTask(t, n) /\ SameMarks(t, n)
    BY <1>1, <2>1, <2>2, PcChanges
  <2>5. SessionHolds(github, n)
    <3>1. n.pull \in Pulls /\ n.refs # <<>> /\ (n.mode = "ephemeral" => n.keeps = {})
      BY <1>1, <2>2, <2>4 DEF SameTask, SameMarks, Works
    <3> QED
      BY <2>4, <3>1, EndedHolds DEF Ended
  <2>6. Quiet(t, n)
    BY <1>1, <2>4 DEF Quiet, SameTask, SameMarks
  <2> QED
    BY <1>2, <2>0, <2>3, <2>4, <2>5, <2>6, QuietHolds DEF t
<1> QED
  BY <1>1, <1>3, <1>4, <1>5

\* update-ref may have deleted the ref before it was stopped; a ref that the
\* user moved is not deleted.
LEMMA DeleteRefHolds ==
    ASSUME ResumeInv, NEW s \in Sessions, NEW done \in BOOLEAN, NEW end \in {"ok", "stopped"},
           DeleteRef(s, end, done)
    PROVE  ResumeInv'
<1> DEFINE t == session[s]
           r == <<s, Last(t.refs).name>>
           refs == repo[RepoOf(s)].refs
           deleted == done /\ Deletable(refs, r, Last(t.refs).commit)
<1>1. /\ t.pc = "delete" /\ t \in Local /\ t.cleanup \in Cleanups /\ t.mode \in Modes
      /\ repo \in Repos /\ "failed" \in Cleanups /\ t.refs # <<>>
  <2>1. t \in Local /\ Works(t)
    BY SessionFacts
  <2> QED
    BY <2>1 DEF DeleteRef, ResumeInv, TypeOK, Repos, Local, Cleanups, Works
<1>2. budget' \in Budgets
  <2>1. UNCHANGED budget \/ Spend("fail")
    BY DEF DeleteRef
  <2>2. "fail" \in Surroundings /\ budget \in Budgets
    BY DEF Surroundings, ResumeInv, TypeOK, Budgets
  <2> QED
    BY <2>1, <2>2, SpendType DEF Budgets
<1>3. PICK f : f = [x \in DOMAIN refs \ {r} |-> refs[x]]
  OBVIOUS
<1>4. PICK u : u = IF end = "ok" /\ deleted THEN t.cleanup ELSE "failed"
  OBVIOUS
<1>5. /\ repo' = IF deleted THEN [repo EXCEPT ![RepoOf(s)].refs = f] ELSE repo
      /\ Does(s, Dropped(t, u))
  BY <1>3, <1>4 DEF DeleteRef
<1>6. u \in Cleanups /\ (t.cleanup = "failed" => u = "failed") /\ (u # "failed" => deleted)
  BY <1>1, <1>4
<1>7. Last(t.refs).commit \in Commits /\ Last(t.refs).commit # 0
  <2>1. Last(t.refs).commit \in Commits
    <3> HIDE DEF t
    <3> QED BY <1>1, DroppedIs
  <2> QED
    BY <2>1, ResumeAssumption
<1>8. /\ RepoOf(s) \in Sessions \cup {Shared} /\ (RepoOf(s) = Shared \/ (t.mode = "ephemeral" /\ RepoOf(s) # Shared))
  <2>1. Shared \notin Sessions
    BY SharedFacts DEF ResumeInv
  <2> QED
    BY <1>1, <2>1 DEF RepoOf, Modes
<1>9. /\ repo' \in Repos /\ repo'[Shared].keeps = repo[Shared].keeps
      /\ \A x \in DOMAIN repo'[Shared].refs : x \in DOMAIN repo[Shared].refs
      /\ \A x \in DOMAIN repo[Shared].refs :
           repo[Shared].refs[x] = 0 => x \in DOMAIN repo'[Shared].refs /\ repo'[Shared].refs[x] = 0
      /\ deleted => t.mode = "ephemeral" \/ r \notin DOMAIN repo'[Shared].refs
  <2>1. CASE ~deleted
    BY <1>1, <1>5, <2>1
  <2>2. CASE deleted
    <3>1. refs[r] = Last(t.refs).commit /\ refs[r] # 0
      BY <1>7, <2>2 DEF Deletable
    <3>2. PICK e, a, T : e = refs /\ a = RepoOf(s) /\ T = Commits \cup {0}
      OBVIOUS
    <3>3. e \in Partial(Names, T) /\ a \in Sessions \cup {Shared} /\ f = [x \in DOMAIN e \ {r} |-> e[x]]
          /\ repo[a].refs = e
      <4>1. repo[a] \in Repo
        BY <1>1, <1>8, <3>2 DEF Repos
      <4> QED
        BY <1>3, <1>8, <3>2, <4>1, RepoIs
    <3>4. f \in Partial(Names, T) /\ DOMAIN f = DOMAIN e \ {r} /\ \A z \in DOMAIN e \ {r} : f[z] = e[z]
      <4>1. PICK D : D = DOMAIN e \ {r}
        OBVIOUS
      <4>2. D \in SUBSET DOMAIN e /\ f = [x \in D |-> e[x]]
        BY <3>3, <4>1
      <4> QED
        BY <3>3, <4>1, <4>2, PartialCuts
    <3>5. repo' = [repo EXCEPT ![a].refs = f] /\ f \in Partial(Names, Commits \cup {0})
      BY <1>5, <2>2, <3>2, <3>4
    <3>6. /\ repo' \in Repos /\ repo'[a].refs = f /\ repo'[a].keeps = repo[a].keeps
          /\ \A b \in Sessions \cup {Shared} : b # a => repo'[b] = repo[b]
      BY <1>1, <3>3, <3>5, RefsChange
    <3>7. CASE a = Shared
      BY <3>1, <3>2, <3>3, <3>4, <3>6, <3>7
    <3>8. CASE a # Shared
      <4>1. repo'[Shared] = repo[Shared] /\ t.mode = "ephemeral"
        BY <1>8, <3>2, <3>6, <3>8
      <4> QED
        BY <3>6, <4>1
    <3> QED
      BY <3>7, <3>8
  <2> QED
    BY <2>1, <2>2
<1>10. PICK g : g = repo'[Shared].refs
  OBVIOUS
<1>11. u = "failed" \/ t.mode = "ephemeral" \/ r \notin DOMAIN g
  BY <1>6, <1>9, <1>10
<1> HIDE DEF deleted, refs
<1> QED
  BY <1>1, <1>2, <1>5, <1>6, <1>9, <1>10, <1>11, DropHolds

LEMMA FinishCleanupHolds ==
    ASSUME ResumeInv, NEW s \in Sessions, FinishCleanup(s)
    PROVE  ResumeInv'
<1> DEFINE t == session[s]
<1>1. /\ t.pc = "cleanup" /\ t \in Local /\ repo \in Repos /\ t.pull \in Pulls /\ budget' \in Budgets
      /\ repo[Shared] \in Repo /\ Shared \notin Sessions /\ t.refs = <<>>
  <2>1. t.pc = "cleanup" /\ t \in Local
    BY SessionFacts DEF FinishCleanup
  <2> QED
    BY <2>1, SessionFacts, SharedFacts DEF FinishCleanup, ResumeInv, TypeOK, Repos, Budgets
<1>2. PICK u : u = AttemptAfter(t)
  OBVIOUS
<1>3. u \in Attempts /\ "done" \in Pcs /\ {} \in CommitSets
  <2>1. t.attempt \in Attempts
    BY <1>1 DEF Local
  <2> QED
    BY <1>2, <2>1 DEF AttemptAfter, Attempts, Pcs, Ended, CommitSets
<1>4. PICK n : n = [t EXCEPT !.pc = "done", !.keeps = {}, !.attempt = u]
  OBVIOUS
<1>5. PICK k : k = ReleasePackKeeps(s, repo[Shared].keeps)
  OBVIOUS
<1>6. Does(s, n) /\ repo' = [repo EXCEPT ![Shared].keeps = k, ![s] = EmptyRepo]
  BY <1>2, <1>4, <1>5 DEF FinishCleanup
<1>7. k \in Partial(Commits, Keep)
  BY <1>1, <1>5, RepoIs, ReleaseIs
<1>8. EmptyRepo \in Repo
  <2>1. <<>> \in Partial(Names, Commits \cup {0}) /\ <<>> \in Partial(Commits, Keep)
    BY PartialEmpty
  <2> QED
    BY <2>1 DEF EmptyRepo, Repo
<1>9. repo' \in Repos /\ repo'[Shared].keeps = k /\ repo'[Shared].refs = repo[Shared].refs
  <2>1. PICK x : x = [repo[Shared] EXCEPT !.keeps = k]
    OBVIOUS
  <2>2. x \in Repo /\ x.keeps = k /\ x.refs = repo[Shared].refs
    BY <1>1, <1>7, <2>1 DEF Repo
  <2>3. PICK e : e = EmptyRepo
    OBVIOUS
  <2>4. repo' = [repo EXCEPT ![Shared] = x, ![s] = e] /\ e \in Repo
    BY <1>6, <1>8, <2>1, <2>3
  <2>5. repo' \in Repos /\ repo'[Shared] = x
    BY <1>1, <2>2, <2>4 DEF Repos
  <2> QED
    BY <2>2, <2>5
<1> HIDE DEF t
<1>10. n \in Local /\ n.pc = "done" /\ n.keeps = {}
  BY <1>1, <1>3, <1>4 DEF Local
<1>11. SameTask(t, n) /\ n.refs = t.refs /\ n.cleanup = t.cleanup /\ n.missed = t.missed
  BY <1>1, <1>4 DEF Local, SameTask
<1>12. SessionHolds(github, n)
  BY <1>1, <1>10, <1>11, EndedHolds DEF Ended, SameTask
<1>13. KeepsHold' /\ RefsHold' /\ OthersHold'
  BY <1>1, <1>5, <1>6, <1>9, <1>10, <1>11, ReleasedShares DEF t, SameTask
<1> QED
  BY <1>1, <1>6, <1>9, <1>10, <1>12, <1>13, SessionStepsHold

LEMMA CleanupStepHolds ==
    ASSUME ResumeInv, NEW s \in Sessions, CleanupStep(s)
    PROVE  ResumeInv'
<1>1. ASSUME NEW ok \in BOOLEAN, InspectRef(s, ok) PROVE ResumeInv'
  BY <1>1, InspectRefHolds
<1>2. ASSUME NEW done \in BOOLEAN, NEW end \in {"ok", "stopped"}, DeleteRef(s, end, done) PROVE ResumeInv'
  BY <1>2, DeleteRefHolds
<1> QED
  BY <1>1, <1>2, FinishCleanupHolds DEF CleanupStep

-----------------------------------------------------------------------------
(* Other Git processes.                                                    *)

\* What others do to the shared repository.
LEMMA OthersKeep ==
    ASSUME ResumeInv, UNCHANGED <<github, clock, inbox, session>>, repo' \in Repos, budget' \in Budgets,
           foreign' \in [pack : Commits \cup {None}, dead : SUBSET Commits, moved : SUBSET Names],
           foreign'.dead = foreign.dead,
           NEW keeps, keeps = repo[Shared].keeps, NEW refs, refs = repo[Shared].refs,
           NEW k, k = repo'[Shared].keeps, NEW f, f = repo'[Shared].refs,
           \A c \in DOMAIN k : k[c].by = 0 \/ (c \in DOMAIN keeps /\ k[c] = keeps[c]),
           foreign.dead \subseteq DOMAIN k,
           foreign'.pack # None => /\ foreign'.pack \in DOMAIN k /\ foreign'.pack \notin foreign.dead
                                   /\ k[foreign'.pack].pid = 0,
           DOMAIN f = DOMAIN refs, foreign'.moved \subseteq DOMAIN f, \A r \in foreign'.moved : f[r] = 0
    PROVE  ResumeInv'
<1>0. KeepsHold /\ RefsHold /\ OthersHold /\ 0 \notin Sessions
  BY ResumeAssumption DEF ResumeInv
<1>1. TypeOK' /\ HistoryHolds' /\ Collects(github, inbox)'
  <2>1. TypeOK'
    BY DEF ResumeInv, TypeOK, Repos, Budgets
  <2>2. HistoryHolds'
    BY DEF ResumeInv, HistoryHolds, Numbered
  <2> QED
    BY <2>1, <2>2 DEF ResumeInv
<1>2. \A u \in Sessions : SessionHolds(github', session'[u])
  BY DEF ResumeInv
<1>3. KeepsHold'
  <2> SUFFICES ASSUME NEW c \in DOMAIN k, k[c].by \in Sessions
               PROVE  k[c].pid = k[c].by /\ Accounted(session[k[c].by], c)
    BY DEF KeepsHold, Accounted
  <2>1. c \in DOMAIN keeps /\ k[c] = keeps[c]
    BY <1>0
  <2> QED
    BY <1>0, <2>1 DEF KeepsHold
<1>4. RefsHold'
  <2> SUFFICES ASSUME NEW r \in DOMAIN f PROVE Listed(session[r[1]], r[2])
    BY DEF RefsHold, Listed
  <2> QED
    BY <1>0 DEF RefsHold
<1>5. OthersHold'
  <2>1. \A u \in Sessions : Spares(session[u])'
    BY <1>0 DEF OthersHold, Spares
  <2> QED
    BY <1>0, <2>1 DEF OthersHold
<1> QED
  BY <1>1, <1>2, <1>3, <1>4, <1>5 DEF ResumeInv

LEMMA ForeignFacts ==
    ASSUME ResumeInv
    PROVE  /\ repo \in Repos /\ repo[Shared] \in Repo /\ budget \in Budgets /\ OthersHold
           /\ foreign \in [pack : Commits \cup {None}, dead : SUBSET Commits, moved : SUBSET Names]
BY SharedFacts DEF ResumeInv, TypeOK, Repos, Budgets

LEMMA ForeignKeepHolds ==
    ASSUME ResumeInv, NEW c \in Commits, ForeignKeep(c)
    PROVE  ResumeInv'
<1> DEFINE x == repo[Shared]
<1>1. /\ repo \in Repos /\ x \in Repo /\ budget \in Budgets /\ OthersHold
      /\ foreign \in [pack : Commits \cup {None}, dead : SUBSET Commits, moved : SUBSET Names]
  BY ForeignFacts
<1>2. PICK y : y = Receive(x, c, 0)
  OBVIOUS
<1>3. /\ c \notin DOMAIN x.keeps /\ repo' = [repo EXCEPT ![Shared] = y]
      /\ foreign' = [foreign EXCEPT !.pack = c] /\ UNCHANGED <<github, clock, inbox, session>>
  BY <1>2 DEF ForeignKeep
<1>4. budget' \in Budgets
  <2>1. Spend("fetch") /\ "fetch" \in Surroundings
    BY DEF ForeignKeep, Surroundings
  <2> QED
    BY <1>1, <2>1, SpendType DEF Budgets
<1>5. /\ y \in Repo /\ y.refs = x.refs
      /\ \A d \in DOMAIN x.keeps : d \in DOMAIN y.keeps /\ y.keeps[d] = x.keeps[d]
      /\ \A d \in DOMAIN y.keeps \ DOMAIN x.keeps : d = c /\ y.keeps[d].pid = 0 /\ y.keeps[d].by = 0
      /\ c \in DOMAIN y.keeps
  <2>1. PICK pid : pid = 0
    OBVIOUS
  <2>2. pid \in Nat /\ y = Receive(x, c, pid)
    BY <1>2, <2>1
  <2> HIDE DEF x
  <2>3. /\ y \in Repo /\ y.refs = x.refs
        /\ \A d \in DOMAIN x.keeps : d \in DOMAIN y.keeps /\ y.keeps[d] = x.keeps[d]
        /\ \A d \in DOMAIN y.keeps \ DOMAIN x.keeps : d = c /\ y.keeps[d].pid = pid /\ y.keeps[d].by = pid
        /\ c \in DOMAIN y.keeps
    BY <1>1, <2>2, ReceiveIs
  <2> QED
    BY <2>1, <2>3
<1>6. repo' \in Repos /\ repo'[Shared] = y
  BY <1>1, <1>3, <1>5, ReposChange
<1>7. /\ foreign'.pack = c /\ foreign'.dead = foreign.dead /\ foreign'.moved = foreign.moved
      /\ foreign' \in [pack : Commits \cup {None}, dead : SUBSET Commits, moved : SUBSET Names]
  BY <1>1, <1>3
<1>8. PICK keeps, refs : keeps = x.keeps /\ refs = x.refs
  OBVIOUS
<1>9. PICK k : k = y.keeps
  OBVIOUS
<1>10. /\ foreign.dead \subseteq DOMAIN keeps /\ foreign.moved \subseteq DOMAIN refs
       /\ \A r \in foreign.moved : refs[r] = 0
  BY <1>1, <1>8 DEF OthersHold
<1>11. /\ foreign.dead \subseteq DOMAIN k /\ c \in DOMAIN k /\ c \notin foreign.dead /\ k[c].pid = 0
       /\ \A d \in DOMAIN k : k[d].by = 0 \/ (d \in DOMAIN keeps /\ k[d] = keeps[d])
  BY <1>3, <1>5, <1>8, <1>9, <1>10
<1>12. keeps = repo[Shared].keeps /\ refs = repo[Shared].refs /\ k = repo'[Shared].keeps /\ refs = repo'[Shared].refs
  BY <1>5, <1>6, <1>8, <1>9
<1> HIDE DEF x
<1> QED
  BY <1>3, <1>4, <1>6, <1>7, <1>10, <1>11, <1>12, OthersKeep

LEMMA ForeignReleaseHolds ==
    ASSUME ResumeInv, ForeignRelease
    PROVE  ResumeInv'
<1>1. /\ repo \in Repos /\ repo[Shared] \in Repo /\ budget \in Budgets /\ OthersHold
      /\ foreign \in [pack : Commits \cup {None}, dead : SUBSET Commits, moved : SUBSET Names]
  BY ForeignFacts
<1>2. PICK keeps, refs : keeps = repo[Shared].keeps /\ refs = repo[Shared].refs
  OBVIOUS
<1>3. PICK k : k = [d \in DOMAIN keeps \ {foreign.pack} |-> keeps[d]]
  OBVIOUS
<1>4. /\ repo' = [repo EXCEPT ![Shared].keeps = k] /\ foreign' = [foreign EXCEPT !.pack = None]
      /\ UNCHANGED <<github, clock, inbox, session, budget>> /\ foreign.pack # None
  BY <1>2, <1>3 DEF ForeignRelease
<1>5. /\ k \in Partial(Commits, Keep) /\ DOMAIN k = DOMAIN keeps \ {foreign.pack}
      /\ \A d \in DOMAIN k : k[d] = keeps[d]
  <2>1. PICK D : D = DOMAIN keeps \ {foreign.pack}
    OBVIOUS
  <2>2. keeps \in Partial(Commits, Keep) /\ D \in SUBSET DOMAIN keeps /\ k = [d \in D |-> keeps[d]]
    BY <1>1, <1>2, <1>3, <2>1, RepoIs
  <2>3. k \in Partial(Commits, Keep) /\ DOMAIN k = D /\ \A z \in D : k[z] = keeps[z]
    BY <2>2, PartialCuts
  <2> QED
    BY <2>1, <2>3
<1>6. repo' \in Repos /\ repo'[Shared].keeps = k /\ repo'[Shared].refs = refs
  BY <1>1, <1>2, <1>4, <1>5, KeepsChange
<1>7. /\ foreign'.pack = None /\ foreign'.dead = foreign.dead /\ foreign'.moved = foreign.moved
      /\ foreign' \in [pack : Commits \cup {None}, dead : SUBSET Commits, moved : SUBSET Names]
  BY <1>1, <1>4
<1>8. /\ foreign.dead \subseteq DOMAIN keeps /\ foreign.pack \notin foreign.dead
      /\ foreign.moved \subseteq DOMAIN refs /\ \A r \in foreign.moved : refs[r] = 0
  BY <1>1, <1>2, <1>4 DEF OthersHold
<1>9. /\ foreign.dead \subseteq DOMAIN k
      /\ \A d \in DOMAIN k : k[d].by = 0 \/ (d \in DOMAIN keeps /\ k[d] = keeps[d])
  BY <1>5, <1>8
<1>10. refs = repo'[Shared].refs /\ k = repo'[Shared].keeps /\ budget' \in Budgets
  BY <1>1, <1>4, <1>6
<1> QED
  BY <1>2, <1>4, <1>6, <1>7, <1>8, <1>9, <1>10, OthersKeep

LEMMA MoveRefHolds ==
    ASSUME ResumeInv, NEW r \in DOMAIN repo[Shared].refs, MoveRef(r)
    PROVE  ResumeInv'
<1>1. /\ repo \in Repos /\ repo[Shared] \in Repo /\ budget \in Budgets /\ OthersHold
      /\ foreign \in [pack : Commits \cup {None}, dead : SUBSET Commits, moved : SUBSET Names]
  BY ForeignFacts
<1>2. PICK keeps, refs : keeps = repo[Shared].keeps /\ refs = repo[Shared].refs
  OBVIOUS
<1>3. PICK f : f = [refs EXCEPT ![r] = 0]
  OBVIOUS
<1>4. /\ repo' = [repo EXCEPT ![Shared].refs = f] /\ foreign' = [foreign EXCEPT !.moved = foreign.moved \cup {r}]
      /\ UNCHANGED <<github, clock, inbox, session>>
  BY <1>2, <1>3 DEF MoveRef
<1>5. budget' \in Budgets
  <2>1. Spend("move") /\ "move" \in Surroundings
    BY DEF MoveRef, Surroundings
  <2> QED
    BY <1>1, <2>1, SpendType DEF Budgets
<1>6. refs \in Partial(Names, Commits \cup {0}) /\ DOMAIN refs \subseteq Names /\ r \in DOMAIN refs
  BY <1>1, <1>2, RepoIs
<1>7. f \in Partial(Names, Commits \cup {0}) /\ DOMAIN f = DOMAIN refs /\ f[r] = 0
      /\ \A z \in DOMAIN refs : f[z] = 0 \/ f[z] = refs[z]
  <2>1. PICK T : T = Commits \cup {0}
    OBVIOUS
  <2>2. \A z \in DOMAIN refs : refs[z] \in T
    BY <1>6, <2>1, PartialIs
  <2>3. refs \in [DOMAIN refs -> T] /\ 0 \in T
    <3>1. PICK D : D \in SUBSET Names /\ refs \in [D -> T]
      BY <1>6, <2>1 DEF Partial
    <3> QED
      BY <2>1, <3>1
  <2>4. f \in [DOMAIN refs -> T] /\ DOMAIN f = DOMAIN refs /\ f[r] = 0
        /\ \A z \in DOMAIN refs : f[z] = 0 \/ f[z] = refs[z]
    BY <1>3, <1>6, <2>3
  <2> QED
    BY <1>6, <2>1, <2>4 DEF Partial
<1>8. repo' \in Repos /\ repo'[Shared].refs = f /\ repo'[Shared].keeps = keeps
  BY <1>1, <1>2, <1>4, <1>7, RefsChange
<1>9. /\ foreign'.pack = foreign.pack /\ foreign'.dead = foreign.dead /\ foreign'.moved = foreign.moved \cup {r}
      /\ foreign' \in [pack : Commits \cup {None}, dead : SUBSET Commits, moved : SUBSET Names]
  BY <1>1, <1>4, <1>6
<1>10. /\ foreign.dead \subseteq DOMAIN keeps
       /\ foreign.pack # None => /\ foreign.pack \in DOMAIN keeps /\ foreign.pack \notin foreign.dead
                                 /\ keeps[foreign.pack].pid = 0
       /\ foreign.moved \subseteq DOMAIN refs /\ \A z \in foreign.moved : refs[z] = 0
  BY <1>1, <1>2 DEF OthersHold
<1>11. foreign'.moved \subseteq DOMAIN f /\ \A z \in foreign'.moved : f[z] = 0
  BY <1>6, <1>7, <1>9, <1>10
<1>12. f = repo'[Shared].refs /\ keeps = repo'[Shared].keeps /\ foreign'.pack = foreign.pack
  BY <1>8, <1>9
<1> QED
  BY <1>2, <1>4, <1>5, <1>7, <1>8, <1>9, <1>10, <1>11, <1>12, OthersKeep

LEMMA RepositoryStepHolds ==
    ASSUME ResumeInv, RepositoryStep
    PROVE  ResumeInv'
<1>1. ASSUME NEW c \in Commits, ForeignKeep(c) PROVE ResumeInv'
  BY <1>1, ForeignKeepHolds
<1>2. ASSUME NEW r \in DOMAIN repo[Shared].refs, MoveRef(r) PROVE ResumeInv'
  BY <1>2, MoveRefHolds
<1>3. ASSUME NEW s \in Sessions, Signal(s) \/ Kill(s) PROVE ResumeInv'
  BY <1>3, SignalHolds, KillHolds
<1> QED
  BY <1>1, <1>2, <1>3, ForeignReleaseHolds DEF RepositoryStep

-----------------------------------------------------------------------------
(* Every step.                                                             *)

LEMMA SessionStepHolds ==
    ASSUME ResumeInv, NEW s \in Sessions, SessionStep(s)
    PROVE  ResumeInv'
BY ReadFirstHolds, ReadCheckpointHolds, LocalStepHolds, EphemeralStepHolds, ObservationStepHolds, BindHolds,
   OpenViewerHolds, CloseViewerHolds, InterruptedHolds, ChildFailsHolds, CleanupStepHolds
   DEF SessionStep

LEMMA NextHolds ==
    ASSUME ResumeInv, [Next]_vars
    PROVE  ResumeInv'
<1>1. ASSUME NEW s \in Sessions, StartStep(s) \/ SessionStep(s) PROVE ResumeInv'
  BY <1>1, StartStepHolds, SessionStepHolds
<1>2. CASE UNCHANGED vars
  <2>1. TypeOK' /\ Collects(github, inbox)'
    BY <1>2 DEF ResumeInv, TypeOK, vars
  <2>2. HistoryHolds'
    BY <1>2 DEF ResumeInv, HistoryHolds, Numbered, vars
  <2>3. \A u \in Sessions : SessionHolds(github', session'[u])
    BY <1>2 DEF ResumeInv, vars
  <2>4. KeepsHold' /\ RefsHold'
    BY <1>2 DEF ResumeInv, KeepsHold, RefsHold, vars
  <2>5. OthersHold'
    BY <1>2 DEF ResumeInv, OthersHold, Spares, vars
  <2> QED
    BY <2>1, <2>2, <2>3, <2>4, <2>5 DEF ResumeInv
<1> QED
  BY <1>1, <1>2, InboxStepHolds, GithubStepHolds, RepositoryStepHolds DEF Next

LEMMA InitHolds ==
    ASSUME Init
    PROVE  ResumeInv
<1>0. PICK prs \in [Pulls -> PullRequests] : github = <<prs>> /\ \A p \in Pulls : Numbered(prs[p])
  BY DEF Init
<1>1. /\ github \in Seq([Pulls -> PullRequests]) /\ github # <<>> /\ DOMAIN github = {1} /\ github[1] = prs
  BY <1>0
<1>2. session = [s \in Sessions |-> NoSession] /\ clock \in Nat /\ inbox = NoInbox /\ budget \in [Surroundings -> Nat]
  BY DEF Init
<1>3. \A s \in Sessions : session[s] = NoSession
  BY <1>2
<1>4. PICK objects \in SUBSET Commits, dead \in SUBSET Commits : \E pid \in [dead -> Nat] :
         /\ repo = [r \in Sessions \cup {Shared} |->
                       IF r = Shared
                       THEN [objects |-> objects, refs |-> <<>>,
                             keeps |-> [c \in dead |-> [pid |-> pid[c], by |-> 0]]]
                       ELSE EmptyRepo]
         /\ foreign = [pack |-> None, dead |-> dead, moved |-> {}]
  BY DEF Init
<1>5. PICK pid \in [dead -> Nat] :
         /\ repo = [r \in Sessions \cup {Shared} |->
                       IF r = Shared
                       THEN [objects |-> objects, refs |-> <<>>,
                             keeps |-> [c \in dead |-> [pid |-> pid[c], by |-> 0]]]
                       ELSE EmptyRepo]
         /\ foreign = [pack |-> None, dead |-> dead, moved |-> {}]
  BY <1>4
<1>6. PICK k : k = [c \in dead |-> [pid |-> pid[c], by |-> 0]]
  OBVIOUS
<1>7. k \in Partial(Commits, Keep) /\ DOMAIN k = dead /\ \A c \in dead : k[c].by = 0
  <2>1. \A c \in dead : [pid |-> pid[c], by |-> 0] \in Keep
    BY DEF Keep
  <2>2. k \in [dead -> Keep]
    BY <1>6, <2>1
  <2> QED
    BY <1>6, <2>2 DEF Partial
<1>8. PICK x : x = [objects |-> objects, refs |-> <<>>, keeps |-> k]
  OBVIOUS
<1>9. x \in Repo /\ EmptyRepo \in Repo /\ x.keeps = k /\ x.refs = <<>>
  <2>1. <<>> \in Partial(Names, Commits \cup {0}) /\ <<>> \in Partial(Commits, Keep)
    BY PartialEmpty
  <2> QED
    BY <1>7, <1>8, <2>1 DEF EmptyRepo, Repo
<1>10. repo = [r \in Sessions \cup {Shared} |-> IF r = Shared THEN x ELSE EmptyRepo]
  BY <1>5, <1>6, <1>8
<1>11. repo \in Repos /\ repo[Shared] = x
  <2>1. PICK e : e = EmptyRepo
    OBVIOUS
  <2> QED
    BY <1>9, <1>10, <2>1 DEF Repos
<1>12. NoInbox \in Inboxes /\ Collects(github, NoInbox)
  <2>1. NoInbox \in Inboxes
    BY DEF NoInbox, Inboxes
  <2>2. NoInbox.pc = "search" /\ NoInbox.i = 1 /\ NoInbox.second = <<>>
    BY DEF NoInbox
  <2> QED
    BY <2>1, <2>2 DEF Collects
<1>13. TypeOK
  <2>1. session \in [Sessions -> Local]
    BY <1>2, NoSessionIs
  <2>2. foreign \in [pack : Commits \cup {None}, dead : SUBSET Commits, moved : SUBSET Names]
    BY <1>5
  <2> QED
    BY <1>1, <1>2, <1>11, <1>12, <2>1, <2>2 DEF TypeOK, Repos
<1>14. HistoryHolds
  <2>1. \A p \in Pulls : Later(prs[p], prs[p])
    BY LaterSame
  <2> QED
    BY <1>0, <1>1, <2>1 DEF HistoryHolds
<1>15. \A s \in Sessions : SessionHolds(github, session[s])
  <2>1. PICK n : n = NoSession
    OBVIOUS
  <2>2. /\ n.keeps = {} /\ n.merge = None /\ n.round = 1 /\ n.i = 1 /\ n.refs = <<>> /\ n.cleanup = "clean"
        /\ ~n.missed /\ n.pc = "idle"
    BY <2>1, NoSessionIs
  <2>3. n.pc \in Early /\ n.pc \notin LocalPcs \cup OwnPcs \cup Observing \cup Bound \cup Ended
    BY <2>2 DEF Early, LocalPcs, OwnPcs, Observing, Bound, Ended
  <2>4. Placed(github, n)
    BY <2>2, <2>3 DEF Placed
  <2>5. Works(n)
    BY <2>2, <2>3 DEF Works
  <2>6. Merges(n)
    BY <2>2 DEF Merges
  <2>7. Sights(github, n) /\ Opens(n)
    BY <2>2, <2>3 DEF Sights, Observing, Opens
  <2>8. SessionHolds(github, n)
    BY <2>4, <2>5, <2>6, <2>7 DEF SessionHolds
  <2> QED
    BY <1>3, <2>1, <2>8
<1>16. KeepsHold /\ RefsHold
  <2>1. 0 \notin Sessions
    BY ResumeAssumption
  <2>2. DOMAIN repo[Shared].keeps = dead /\ \A c \in dead : repo[Shared].keeps[c].by = 0
    BY <1>7, <1>9, <1>11
  <2>3. DOMAIN repo[Shared].refs = {}
    BY <1>9, <1>11
  <2> QED
    BY <2>1, <2>2, <2>3 DEF KeepsHold, RefsHold
<1>17. OthersHold
  <2>1. foreign.pack = None /\ foreign.dead = dead /\ foreign.moved = {}
    BY <1>5
  <2>2. \A s \in Sessions : session[s].keeps = {} /\ session[s].pc = "idle"
    BY <1>3, NoSessionIs
  <2>3. \A s \in Sessions : Spares(session[s])
    BY <2>2 DEF Spares
  <2>4. DOMAIN repo[Shared].keeps = dead
    BY <1>7, <1>9, <1>11
  <2> QED
    BY <2>1, <2>3, <2>4 DEF OthersHold
<1> QED
  BY <1>2, <1>12, <1>13, <1>14, <1>15, <1>16, <1>17 DEF ResumeInv

LEMMA ResumeInvHolds == Spec => []ResumeInv
<1>1. Init => ResumeInv
  BY InitHolds
<1>2. ResumeInv /\ [Next]_vars => ResumeInv'
  BY NextHolds
<1> QED
  BY <1>1, <1>2, PTL DEF Spec

-----------------------------------------------------------------------------
(* The theorems.                                                           *)

\* Whatever is pushed, submitted, dismissed or withdrawn while an inbox is
\* collected page by page, every item of a finished inbox describes its pull
\* request as it was at one moment of the collection (collect_inbox).
THEOREM InboxTellsTheTruth == Spec => []InboxIsReal
<1>1. ASSUME ResumeInv PROVE InboxIsReal
  <2>1. Collects(github, inbox) /\ inbox \in Inboxes /\ github \in Seq([Pulls -> PullRequests])
    BY <1>1 DEF ResumeInv, TypeOK
  <2>2. inbox.since \in Nat /\ Len(github) \in Nat /\ DOMAIN github = 1..Len(github)
    BY <2>1 DEF Inboxes
  <2> SUFFICES ASSUME inbox.pc = "done", NEW k \in DOMAIN inbox.items
               PROVE  \E j \in inbox.since..Len(github) : Describes(inbox.items[k], github[j][inbox.items[k].pull])
    BY DEF InboxIsReal
  <2>3. PICK j \in DOMAIN github : inbox.since <= j /\ Describes(inbox.items[k], github[j][inbox.items[k].pull])
    BY <2>1 DEF Collects
  <2>4. j \in inbox.since..Len(github)
    BY <2>2, <2>3
  <2> QED
    BY <2>3, <2>4
<1> QED
  BY <1>1, ResumeInvHolds, PTL

\* A session that ended and reported a clean cleanup leaves neither a ref nor
\* a keep file of its own in the shared repository, wherever it was
\* interrupted and whichever child was stopped halfway, unless another
\* process took a keep file away at the wrong moment (cleanup).
THEOREM CleanupIsComplete == Spec => []RepositoryRestored
<1>1. ASSUME ResumeInv PROVE RepositoryRestored
  <2> SUFFICES ASSUME NEW s \in Sessions, Cleaned(s), ~session[s].missed PROVE LeavesNothing(s)
    BY DEF RepositoryRestored
  <2>1. session[s].pc = "done" /\ session[s].cleanup = "clean" /\ session[s].refs = <<>> /\ session[s].keeps = {}
    BY <1>1, SessionFacts DEF Cleaned, Works
  <2>2. /\ \A c \in DOMAIN repo[Shared].keeps : repo[Shared].keeps[c].by = s => Accounted(session[s], c)
        /\ \A r \in DOMAIN repo[Shared].refs : r[1] = s => Listed(session[s], r[2])
    BY <1>1, SharedView
  <2>3. \A c : ~Accounted(session[s], c)
    BY <2>1 DEF Accounted
  <2>4. \A i : ~Listed(session[s], i)
    BY <2>1 DEF Listed
  <2> QED
    BY <2>2, <2>3, <2>4 DEF LeavesNothing
<1> QED
  BY <1>1, ResumeInvHolds, PTL

\* No session takes away the keep file of a running or of a dead process, nor
\* a ref that the user moved (pack_keep_has_owner, update-ref's old value).
THEOREM OthersAreSpared == Spec => []OthersUntouched
<1>1. ASSUME ResumeInv PROVE OthersUntouched
  BY <1>1 DEF ResumeInv, OthersHold, OthersUntouched
<1> QED
  BY <1>1, ResumeInvHolds, PTL

\* A value that does not come back is, between two moments at which it is the
\* same, the same.
LEMMA StaysBetween ==
    ASSUME NEW f, ~CameBack(f), DOMAIN f \subseteq Int,
           NEW i \in DOMAIN f, NEW j \in DOMAIN f, NEW k \in DOMAIN f, i <= j, j <= k, f[i] = f[k]
    PROVE  f[j] = f[i]
<1>1. i \in Int /\ j \in Int /\ k \in Int
  OBVIOUS
<1>2. CASE i = j \/ j = k
  BY <1>2
<1>3. CASE i < j /\ j < k
  BY <1>3 DEF CameBack
<1> QED
  BY <1>1, <1>2, <1>3

\* The base and the head were the same at the first and at the last read of
\* the observation, and so all the time in between unless they came back; the
\* checkpoint was read before and after the request.
LEMMA OpenIsTrue ==
    ASSUME ResumeInv, NEW s \in Sessions, session[s].pc = "open", session[s].event # None
    PROVE  EventWasTrue(session[s])
<1> DEFINE t == session[s]
<1>0. t.pc = "open" /\ t.pc \in Bound /\ t.pc \in {"latest"} \cup Observing \cup Bound /\ t.pc \in Ready /\ t.event # None
  BY DEF Bound, Ready
<1>1. /\ Sights(github, t) /\ t.pull \in Pulls /\ t.checkpoint \in Reviews
      /\ IsCheckpointOf(t.checkpoint, t.event) /\ SessionHolds(github, t)
  BY <1>0, WatchFacts
<1>2. t.head \in Commits
  BY <1>0, WantedIs
<1>3. Placed(github, t) /\ Opens(t)
  BY <1>1 DEF SessionHolds
<1>4. /\ t.shown.base = t.base /\ t.shown.head = t.head /\ t.shown.checkpoint = t.checkpoint
      /\ t.base = t.event.base /\ t.head = t.event.head /\ t.checkpoint.commit = t.event.checkpoint
  BY <1>0, <1>1, <1>3 DEF Opens, Placed, IsCheckpointOf, Early, Ended
<1>5. /\ t.since \in DOMAIN github
      /\ github[t.since][t.pull].base = t.base /\ github[t.since][t.pull].head = t.head
  BY <1>0, <1>1 DEF Sights
<1>6. PICK j \in Nat, k \in Nat, l \in Nat :
         /\ Again(github, t, t.checkpoint, j, k, l)
         /\ \E m \in l..Len(github) : github[m][t.pull].base = t.base /\ github[m][t.pull].head = t.head
  BY <1>0, <1>1 DEF Sights
<1>7. PICK m \in l..Len(github) : github[m][t.pull].base = t.base /\ github[m][t.pull].head = t.head
  BY <1>6
<1>8. DOMAIN github = 1..Len(github) /\ Len(github) \in Nat
  BY <1>1, Reading
<1>9. /\ j \in t.since..k /\ k \in t.since..Len(github) /\ l \in k..Len(github)
      /\ Checkpoint(github[j][t.pull].reviews) = t.checkpoint /\ Checkpoint(github[l][t.pull].reviews) = t.checkpoint
      /\ github[k][t.pull].requested = t.event.requested
  BY <1>6 DEF Again, Glance
<1> HIDE DEF t
<1>10. /\ j \in DOMAIN github /\ k \in DOMAIN github /\ l \in DOMAIN github /\ m \in DOMAIN github
       /\ t.since <= j /\ j <= k /\ k <= l /\ j <= m /\ t.since <= k /\ k <= m
       /\ j \in t.since..Len(github)
  BY <1>5, <1>7, <1>8, <1>9
<1> DEFINE W == t.since..Len(github)
           commits == [n \in W |-> <<github[n][t.pull].base, github[n][t.pull].head>>]
           checkpoints == [n \in W |-> Checkpoint(github[n][t.pull].reviews)]
           moments == {Since(t)[n] : n \in DOMAIN Since(t)}
           placed == {pr \in moments : pr.base = t.event.base /\ pr.head = t.event.head}
           checked == {pr \in moments : Checkpoint(pr.reviews) = t.shown.checkpoint}
           asked == {pr \in moments : pr.requested = t.event.requested}
<1>11. /\ t.since \in W /\ j \in W /\ k \in W /\ l \in W /\ m \in W /\ W \subseteq Int
  BY <1>5, <1>7, <1>8, <1>9, <1>10
<1>12. DOMAIN Since(t) = W /\ \A n \in W : Since(t)[n] = github[n][t.pull] /\ github[n][t.pull] \in moments
  BY DEF Since
<1>13. /\ ~CommitsCameBack(t) => ~CameBack(commits)
       /\ ~CheckpointCameBack(t) => ~CameBack(checkpoints)
  <2>1. /\ [n \in DOMAIN Since(t) |-> <<Since(t)[n].base, Since(t)[n].head>>] = commits
        /\ [n \in DOMAIN Since(t) |-> Checkpoint(Since(t)[n].reviews)] = checkpoints
    BY <1>12
  <2> QED
    BY <2>1 DEF CommitsCameBack, CheckpointCameBack
<1>14. /\ github[t.since][t.pull] \in placed /\ github[j][t.pull] \in checked
       /\ github[k][t.pull] \in asked
  BY <1>4, <1>5, <1>9, <1>11, <1>12
<1>15. ASSUME ~CommitsCameBack(t)
       PROVE  github[j][t.pull] \in placed /\ github[k][t.pull] \in placed
  <2>1. DOMAIN commits = W /\ \A n \in W : commits[n] = <<github[n][t.pull].base, github[n][t.pull].head>>
    OBVIOUS
  <2>2. commits[t.since] = commits[m] /\ ~CameBack(commits)
    BY <1>5, <1>7, <1>11, <1>13, <1>15, <2>1
  <2> HIDE DEF commits, W
  <2>3. commits[j] = commits[t.since] /\ commits[k] = commits[t.since]
    BY <1>10, <1>11, <2>1, <2>2, StaysBetween
  <2>4. \A n \in {j, k} : github[n][t.pull].base = t.event.base /\ github[n][t.pull].head = t.event.head
    BY <1>4, <1>5, <1>11, <2>1, <2>3
  <2> QED
    BY <1>11, <1>12, <2>4
<1>16. ASSUME ~CheckpointCameBack(t) PROVE github[k][t.pull] \in checked
  <2>1. DOMAIN checkpoints = W /\ \A n \in W : checkpoints[n] = Checkpoint(github[n][t.pull].reviews)
    OBVIOUS
  <2>2. checkpoints[j] = checkpoints[l] /\ ~CameBack(checkpoints)
    BY <1>9, <1>11, <1>13, <1>16, <2>1
  <2> HIDE DEF checkpoints, W
  <2>3. checkpoints[k] = checkpoints[j]
    BY <1>10, <1>11, <2>1, <2>2, StaysBetween
  <2> QED
    BY <1>4, <1>9, <1>11, <1>12, <2>1, <2>3
<1>17. EventWasTrue(t)
  <2> HIDE DEF moments
  <2> QED
    BY <1>4, <1>14, <1>15, <1>16 DEF EventWasTrue, moments
<1> QED
  BY <1>17 DEF t

\* What an open viewer shows was true while the session ran, together unless
\* base and head or the checkpoint went and came back meanwhile, and is
\* compared against the only merge bases (revalidate_inbox_event,
\* prepare_ephemeral_ancestry).
THEOREM ViewerIsBound == Spec => []ResumeIsBound
<1>1. ASSUME ResumeInv PROVE ResumeIsBound
  <2> SUFFICES ASSUME NEW s \in Sessions, session[s].pc = "open"
               PROVE  /\ session[s].event # None => EventWasTrue(session[s])
                      /\ MergeBasesAreUnique(session[s])
    BY DEF ResumeIsBound
  <2>1. MergeBasesAreUnique(session[s])
    BY <1>1, SessionFacts DEF SessionHolds, Opens
  <2> QED
    BY <1>1, <2>1, OpenIsTrue
<1> QED
  BY <1>1, ResumeInvHolds, PTL

=============================================================================
