--------------------------- MODULE ValueLogProofs ---------------------------
(***************************************************************************)
(* What the value log promises, for any number of processes, inodes and    *)
(* power failures: the file on disk always verifies, and ValueLog          *)
(* implements DurableLog.                                                  *)
(***************************************************************************)
EXTENDS ValueLog, FiniteSetTheorems, SequenceTheorems, WellFoundedInduction, TLAPS

-----------------------------------------------------------------------------
(* Sequences and the events that a batch adds.                             *)

\* s is an initial part of t.
Begins(s, t) == Len(s) <= Len(t) /\ \A i \in 1 .. Len(s) : s[i] = t[i]

LEMMA BeginsSelf ==
    ASSUME NEW S, NEW s \in Seq(S)
    PROVE  Begins(s, s)
  BY DEF Begins

LEMMA BeginsTransitive ==
    ASSUME NEW S, NEW s \in Seq(S), NEW t \in Seq(S), NEW u \in Seq(S),
           Begins(s, t), Begins(t, u)
    PROVE  Begins(s, u)
  BY DEF Begins

LEMMA BeginsConcat ==
    ASSUME NEW S, NEW s \in Seq(S), NEW t \in Seq(S)
    PROVE  Begins(s, s \o t)
  BY DEF Begins

LEMMA BeginsSubSeq ==
    ASSUME NEW S, NEW s \in Seq(S), NEW t \in Seq(S), Begins(s, t)
    PROVE  s = SubSeq(t, 1, Len(s))
  BY DEF Begins

\* A set of naturals that is not empty has a least member.
LEMMA Least ==
    ASSUME NEW T \in SUBSET Nat, T # {}
    PROVE  \E m \in T : \A n \in T : m <= n
<1>1. \E m \in T : \A n \in T : ~(<<n, m>> \in OpToRel(<, Nat))
  BY NatLessThanWellFounded, WFMin
<1>2. PICK m \in T : \A n \in T : ~(<<n, m>> \in OpToRel(<, Nat))
  BY <1>1
<1>3. \A n \in T : ~(n < m)
  BY <1>2 DEF OpToRel
<1> QED
  BY <1>3

\* A count that goes up one at a time meets every number on its way.
LEMMA StepByStep ==
    ASSUME NEW N \in Nat, NEW c \in [0 .. N -> Nat], c[0] = 0,
           \A m \in 1 .. N : c[m] = c[m - 1] \/ c[m] = c[m - 1] + 1,
           NEW k \in Nat, 1 <= k, k <= c[N]
    PROVE  \E m \in 1 .. N : c[m] = k /\ c[m] # c[m - 1]
<1> DEFINE T == {i \in 0 .. N : k <= c[i]}
<1>1. T \in SUBSET Nat /\ T # {}
  <2>1. N \in T /\ T \subseteq 0 .. N /\ 0 .. N \subseteq Nat
    OBVIOUS
  <2> QED
    BY <2>1
<1>2. PICK m \in T : \A n \in T : m <= n
  <2> HIDE DEF T
  <2> QED
    BY <1>1, Least
<1>3. m \in 1 .. N
  <2>1. m \in 0 .. N /\ k <= c[m]
    BY <1>2
  <2>2. m # 0
    BY <2>1
  <2> QED
    BY <2>1, <2>2
<1>4. c[m - 1] < k
  BY <1>2, <1>3
<1>5. c[m] = c[m - 1] \/ c[m] = c[m - 1] + 1
  BY <1>3
<1>6. k <= c[m] /\ c[m] \in Nat /\ c[m - 1] \in Nat
  BY <1>2, <1>3
<1>7. c[m] = k /\ c[m] # c[m - 1]
  BY <1>4, <1>5, <1>6
<1> QED
  BY <1>3, <1>7

\* Every rank up to the size of a set of positions is taken by a position.
LEMMA RankTaken ==
    ASSUME NEW N \in Nat, NEW P \in SUBSET (1 .. N), Cardinality(P) \in Nat,
           NEW k \in 1 .. Cardinality(P)
    PROVE  \E j \in P : Cardinality({i \in P : i <= j}) = k
<1> DEFINE Upto(m) == {i \in P : i <= m}
           c == [m \in 0 .. N |-> Cardinality(Upto(m))]
<1>1. \A m \in 0 .. N : IsFiniteSet(Upto(m)) /\ Cardinality(Upto(m)) \in Nat
  <2>1. IsFiniteSet(1 .. N)
    BY FS_Interval
  <2>2. \A m \in 0 .. N : Upto(m) \subseteq 1 .. N
    OBVIOUS
  <2> QED
    BY <2>1, <2>2, FS_Subset, FS_CardinalityType
<1>2. Upto(0) = {} /\ Upto(N) = P
  <2>1. \A i \in 1 .. N : ~(i <= 0) /\ i <= N
    OBVIOUS
  <2>2. P \subseteq 1 .. N
    OBVIOUS
  <2> QED
    BY <2>1, <2>2, Zenon
<1>3. c \in [0 .. N -> Nat]
  BY <1>1
<1>4. c[0] = 0 /\ c[N] = Cardinality(P)
  <2>1. 0 \in 0 .. N /\ N \in 0 .. N
    OBVIOUS
  <2>2. Cardinality(Upto(0)) = 0
    BY <1>2, FS_EmptySet
  <2> QED
    BY <2>1, <2>2, <1>2
<1>5. \A m \in 1 .. N : m - 1 \in 0 .. N /\ m \in 0 .. N
  OBVIOUS
<1>6. ASSUME NEW m \in 1 .. N
      PROVE  c[m] = IF m \in P THEN c[m - 1] + 1 ELSE c[m - 1]
  <2>0. /\ \A i \in P : i <= m <=> i <= m - 1 \/ i = m
        /\ ~(m <= m - 1)
    <3>1. \A i \in 1 .. N : i <= m <=> i <= m - 1 \/ i = m
      OBVIOUS
    <3> QED
      BY <3>1
  <2>1. CASE m \in P
    <3>1. Upto(m) = Upto(m - 1) \cup {m} /\ m \notin Upto(m - 1)
      BY <2>1, <2>0
    <3>2. Cardinality(Upto(m)) = Cardinality(Upto(m - 1)) + 1
      <4>1. IsFiniteSet(Upto(m - 1))
        BY <1>1, <1>5
      <4> QED
        BY <3>1, <4>1, FS_AddElement
    <3> QED
      BY <3>2, <2>1, <1>5
  <2>2. CASE m \notin P
    <3>1. Upto(m) = Upto(m - 1)
      BY <2>2, <2>0
    <3> QED
      BY <3>1, <2>2, <1>5
  <2> QED
    BY <2>1, <2>2
<1> HIDE DEF c
<1>7. PICK m \in 1 .. N : c[m] = k /\ c[m] # c[m - 1]
  BY <1>3, <1>4, <1>6, StepByStep, SMTT(60)
<1>8. m \in P
  BY <1>6, <1>7
<1>9. Cardinality(Upto(m)) = k
  BY <1>7, <1>5 DEF c
<1> QED
  BY <1>8, <1>9

\* What a batch adds is made of events of the batch.
LEMMA FreshType ==
    ASSUME NEW log, NEW batch \in Seq(Event)
    PROVE  Fresh(log, batch) \in Seq(Event)
<1> DEFINE P == New(log, batch)
<1>1. P \subseteq 1 .. Len(batch) /\ Len(batch) \in Nat
  BY DEF New
<1>2. Cardinality(P) \in Nat
  <2>1. IsFiniteSet(1 .. Len(batch))
    BY <1>1, FS_Interval
  <2> QED
    BY <1>1, <2>1, FS_Subset, FS_CardinalityType
<1> HIDE DEF P
<1>3. \A k \in 1 .. Cardinality(P) : Nth(P, k) \in P
  <2> TAKE k \in 1 .. Cardinality(P)
  <2>1. \E j \in P : Cardinality({i \in P : i <= j}) = k
    <3>1. P \in SUBSET (1 .. Len(batch))
      BY <1>1
    <3> QED
      BY <1>1, <1>2, <3>1, RankTaken
  <2> QED
    BY <2>1 DEF Nth
<1>4. \A k \in 1 .. Cardinality(P) : batch[Nth(P, k)] \in Event
  <2>1. \A j \in 1 .. Len(batch) : batch[j] \in Event
    OBVIOUS
  <2> QED
    BY <1>1, <1>3, <2>1, Zenon
<1>5. Fresh(log, batch) = [k \in 1 .. Cardinality(P) |-> batch[Nth(P, k)]]
  BY DEF Fresh, P
<1>6. Fresh(log, batch) \in [1 .. Cardinality(P) -> Event]
  BY <1>4, <1>5
<1> QED
  <2>1. Fresh(log, batch) \in UNION {[1 .. n -> Event] : n \in Nat}
    BY <1>2, <1>6
  <2>2. Seq(Event) = UNION {[1 .. n -> Event] : n \in Nat}
    BY SeqDef
  <2> QED
    BY <2>1, <2>2, Zenon

-----------------------------------------------------------------------------
(* The report of a log that verifies.                                      *)

\* Whatever was accepted finds what it needs earlier in the log.
LEMMA EarlierEvents ==
    ASSUME NEW log \in Seq(Event), Verifies(log), NEW i \in DOMAIN log
    PROVE  /\ log[i].kind = "resume_invoked" =>
                 \E j \in DOMAIN log : /\ log[j].kind = "gap_discovery"
                                       /\ log[j].transition = log[i].transition
           /\ log[i].kind = "inbox_delivery" => Recorded(log, "baseline", log[i].id)
           /\ log[i].kind \in {"transition_bound", "covered_transition", "workbench_ready"} =>
                 /\ HasAttempt(log, "resume_invoked", log[i].id, log[i].transition)
                 /\ HasAttempt(log, Prerequisite(log[i].kind), log[i].id, log[i].transition)
           /\ log[i].kind = "attempt_failed" =>
                 HasAttempt(log, "resume_invoked", log[i].id, log[i].transition)
<1> DEFINE pre == SubSeq(log, 1, i - 1)
           e == log[i]
<1>1. DOMAIN pre \subseteq DOMAIN log /\ \A j \in DOMAIN pre : pre[j] = log[j]
  OBVIOUS
<1>2. Accepts(pre, e)
  BY DEF Verifies, ValidEvent
<1> HIDE DEF pre, e
<1>3. \A kind, id : Recorded(pre, kind, id) => Recorded(log, kind, id)
  BY <1>1 DEF Recorded
<1>4. \A kind, id, t : HasAttempt(pre, kind, id, t) => HasAttempt(log, kind, id, t)
  BY <1>1 DEF HasAttempt
<1>5. ASSUME e.kind = "resume_invoked"
      PROVE  \E j \in DOMAIN log : /\ log[j].kind = "gap_discovery"
                                   /\ log[j].transition = e.transition
  <2>1. KnownGap(pre, e.transition)
    BY <1>2, <1>5 DEF Accepts
  <2> QED
    BY <1>1, <2>1 DEF KnownGap, DiscoveredGaps
<1>6. e.kind = "inbox_delivery" => Recorded(log, "baseline", e.id)
  BY <1>2, <1>3 DEF Accepts
<1>7. e.kind \in {"transition_bound", "covered_transition", "workbench_ready"} =>
         /\ HasAttempt(log, "resume_invoked", e.id, e.transition)
         /\ HasAttempt(log, Prerequisite(e.kind), e.id, e.transition)
  BY <1>2, <1>4 DEF Accepts
<1>8. e.kind = "attempt_failed" => HasAttempt(log, "resume_invoked", e.id, e.transition)
  BY <1>2, <1>4 DEF Accepts
<1> QED
  BY <1>5, <1>6, <1>7, <1>8 DEF e

LEMMA ReportIsConsistent ==
    ASSUME NEW log \in Seq(Event), Verifies(log)
    PROVE  ReportConsistent(Tally(log))
<1>1. \A kind, x : x \in IdsOf(log, kind) <=> \E i \in DOMAIN log : /\ log[i].kind = kind
                                                                  /\ log[i].id = x
  BY DEF IdsOf, EventsOf
<1>2. \A kind, x : x \in TransitionsOf(log, kind)
                     <=> \E i \in DOMAIN log : log[i].kind = kind /\ log[i].transition = x
  BY DEF TransitionsOf, EventsOf
<1>3. TransitionsOf(log, "resume_invoked") \subseteq TransitionsOf(log, "gap_discovery")
  BY <1>2, EarlierEvents
<1>4. /\ TransitionsOf(log, "covered_transition") \subseteq TransitionsOf(log, "resume_invoked")
      /\ IdsOf(log, "transition_bound") \subseteq IdsOf(log, "resume_invoked")
      /\ IdsOf(log, "attempt_failed") \subseteq IdsOf(log, "resume_invoked")
  BY <1>1, <1>2, EarlierEvents DEF HasAttempt
<1>5. IdsOf(log, "covered_transition") \subseteq IdsOf(log, "transition_bound")
  BY <1>1, EarlierEvents DEF HasAttempt, Prerequisite
<1>6. /\ TransitionsOf(log, "workbench_ready") \subseteq TransitionsOf(log, "covered_transition")
      /\ IdsOf(log, "workbench_ready") \subseteq IdsOf(log, "covered_transition")
  BY <1>1, <1>2, EarlierEvents, SMTT(60) DEF HasAttempt, Prerequisite
<1>7. IdsOf(log, "inbox_delivery") \subseteq IdsOf(log, "baseline")
  BY <1>1, EarlierEvents DEF Recorded
<1> QED
  BY <1>3, <1>4, <1>5, <1>6, <1>7 DEF ReportConsistent, Tally

\* A set whose members are found in the log is finite.
LEMMA FoundInLog ==
    ASSUME NEW log \in Seq(Event), NEW f, NEW T,
           \A t \in T : \E i \in DOMAIN log : f[i] = t
    PROVE  IsFiniteSet(T) /\ Cardinality(T) \in Nat
<1> DEFINE S == {i \in DOMAIN log : f[i] \in T}
<1>1. IsFiniteSet(S)
  <2>1. IsFiniteSet(1 .. Len(log)) /\ S \subseteq 1 .. Len(log)
    BY FS_Interval
  <2> QED
    BY <2>1, FS_Subset
<1>2. [i \in S |-> f[i]] \in Surjection(S, T)
  BY DEF Surjection
<1> HIDE DEF S
<1> QED
  BY <1>1, <1>2, FS_Surjection, FS_CardinalityType

LEMMA RateBound ==
    ASSUME NEW n \in Nat, NEW d \in Nat, n <= d
    PROVE  Rate(n, d) # None => Rate(n, d) \in Rates
  BY SMTT(60) DEF Rate, Rates

\* Nothing in the report is negative or above one.
LEMMA ReportInRange ==
    ASSUME NEW log \in Seq(Event), Verifies(log)
    PROVE  LET r == Report(log)
           IN  /\ r.unconfirmed >= 0
               /\ \A x \in {r.deliveredToResume, r.attemptToCovered, r.coveredToReady,
                            r.attemptToReady} \ {None} : x \in Rates
<1>1. ASSUME NEW kind
      PROVE  IsFiniteSet(IdsOf(log, kind)) /\ Cardinality(IdsOf(log, kind)) \in Nat
  <2> DEFINE f == [i \in DOMAIN log |-> log[i].id]
  <2>1. \A t \in IdsOf(log, kind) : \E i \in DOMAIN log : f[i] = t
    BY DEF IdsOf, EventsOf
  <2> QED
    BY <2>1, FoundInLog, ZenonT(60)
<1>2. IsFiniteSet(Delivered(log)) /\ Cardinality(Delivered(log)) \in Nat
  <2> DEFINE f == [i \in DOMAIN log |-> log[i].transition]
  <2>1. \A t \in Delivered(log) : \E i \in DOMAIN log : f[i] = t
    BY DEF Delivered, EventsOf
  <2> QED
    BY <2>1, FoundInLog, ZenonT(60)
<1> DEFINE t == Tally(log)
           attempts == IdsOf(log, "resume_invoked")
           covered == IdsOf(log, "covered_transition")
           ready == IdsOf(log, "workbench_ready")
           resumed == TransitionsOf(log, "resume_invoked")
<1>3. /\ t.attempts = attempts /\ t.coveredAttempts = covered /\ t.readyAttempts = ready
      /\ t.resumed = resumed /\ t.scans = IdsOf(log, "baseline")
      /\ t.confirmed = IdsOf(log, "inbox_delivery")
  BY DEF Tally
<1>4. /\ ready \subseteq covered /\ covered \subseteq attempts
      /\ IdsOf(log, "inbox_delivery") \subseteq IdsOf(log, "baseline")
  BY ReportIsConsistent DEF ReportConsistent, Tally
<1>5. /\ Cardinality(IdsOf(log, "inbox_delivery")) <= Cardinality(IdsOf(log, "baseline"))
      /\ Cardinality(covered) <= Cardinality(attempts)
      /\ Cardinality(ready) <= Cardinality(covered)
  BY <1>1, <1>4, FS_Subset
<1>6. /\ Cardinality(resumed \cap Delivered(log)) \in Nat
      /\ Cardinality(resumed \cap Delivered(log)) <= Cardinality(Delivered(log))
  <2>1. resumed \cap Delivered(log) \subseteq Delivered(log)
    OBVIOUS
  <2> QED
    BY <2>1, <1>2, FS_Subset, FS_CardinalityType
<1> DEFINE dr == Rate(Cardinality(resumed \cap Delivered(log)), Cardinality(Delivered(log)))
           ac == Rate(Cardinality(covered), Cardinality(attempts))
           cr == Rate(Cardinality(ready), Cardinality(covered))
           ar == Rate(Cardinality(ready), Cardinality(attempts))
<1>7. /\ Report(log).unconfirmed = Cardinality(IdsOf(log, "baseline"))
                                     - Cardinality(IdsOf(log, "inbox_delivery"))
      /\ Report(log).deliveredToResume = dr
      /\ Report(log).attemptToCovered = ac
      /\ Report(log).coveredToReady = cr
      /\ Report(log).attemptToReady = ar
  BY <1>3 DEF Report
<1>8. /\ dr # None => dr \in Rates
      /\ ac # None => ac \in Rates
      /\ cr # None => cr \in Rates
      /\ ar # None => ar \in Rates
  <2>1. \A n, d \in Nat : n <= d => (Rate(n, d) # None => Rate(n, d) \in Rates)
    BY RateBound
  <2>2. /\ Cardinality(ready) \in Nat /\ Cardinality(covered) \in Nat
        /\ Cardinality(attempts) \in Nat
    BY <1>1
  <2>3. Cardinality(ready) <= Cardinality(attempts)
    BY <1>5, <2>2
  <2>4. dr # None => dr \in Rates
    BY <1>2, <1>6, <2>1
  <2>5. ac # None => ac \in Rates
    BY <1>5, <2>1, <2>2
  <2>6. cr # None => cr \in Rates
    BY <1>5, <2>1, <2>2
  <2>7. ar # None => ar \in Rates
    BY <2>1, <2>2, <2>3
  <2> QED
    BY <2>4, <2>5, <2>6, <2>7
<1>9. Report(log).unconfirmed >= 0
  BY <1>1, <1>5, <1>7
<1> HIDE DEF dr, ac, cr, ar
<1> DEFINE r == Report(log)
<1>10. \A x \in {r.deliveredToResume, r.attemptToCovered, r.coveredToReady,
                  r.attemptToReady} \ {None} : x \in Rates
  BY <1>7, <1>8
<1> QED
  BY <1>9, <1>10

-----------------------------------------------------------------------------
(* The inductive invariant.                                                *)

\* The lock of a file excludes: two processes that hold it both read.
Exclusive ==
    \A p, q \in Procs :
        /\ p # q
        /\ proc[p].pc \in Locked /\ proc[q].pc \in Locked
        /\ proc[p].fd = proc[q].fd
        => proc[p].at \in Reads /\ proc[q].at \in Reads

\* Whoever waits for a lock or holds one has opened a file.
Opened ==
    \A p \in Procs : proc[p].pc \in Locked \cup {"lock"} => proc[p].fd \in Inodes

Writing(p) == proc[p].pc \in {"stage", "recheck", "rename"}

\* A writer that passed the check holds the lock of the log itself, and what
\* it read is still the log.
WritersAreCurrent ==
    \A p \in Procs :
        Writing(p) => /\ proc[p].at \notin Reads
                      /\ proc[p].fd = path
                      /\ proc[p].base = Log
                      /\ Verifies(Log \o Fresh(Log, proc[p].batch))
                      /\ Fresh(Log, proc[p].batch) # <<>>

\* Its temporary file is complete and nobody else's.
StagedIsWhole ==
    \A p \in Procs :
        proc[p].pc \in {"recheck", "rename"} =>
            /\ proc[p].tmp \in Inodes \ recoverable
            /\ content[proc[p].tmp] = Log \o Fresh(Log, proc[p].batch)

\* A writer between its rename and its sync: the log may have grown since.
RenamedRemains ==
    \A p \in Procs :
        proc[p].pc = "sync" => /\ proc[p].tmp \in Inodes
                               /\ Begins(content[proc[p].tmp], Log)

\* Whatever a power failure may bring back is a verified beginning of the log
\* that has every confirmed event.
RecoverableIsSafe ==
    /\ path \in recoverable
    /\ \A i \in recoverable : /\ Begins(Content(i), Log)
                              /\ safe <= Len(Content(i))
                              /\ Verifies(Content(i))

LogInv ==
    /\ TypeOK
    /\ Exclusive
    /\ Opened
    /\ WritersAreCurrent
    /\ StagedIsWhole
    /\ RenamedRemains
    /\ RecoverableIsSafe

-----------------------------------------------------------------------------
(* Types.                                                                  *)

LEMMA NewEventType ==
    ASSUME NEW kind \in Kinds, NEW id \in Ids, NEW t \in Transitions \cup {None}
    PROVE  NewEvent(kind, id, t) \in Event
  BY DEF NewEvent, Event

LEMMA OneEvent ==
    ASSUME NEW e \in Event
    PROVE  <<e>> \in Seq(Event)
  OBVIOUS

LEMMA LeaveType ==
    ASSUME proc \in [Procs -> Process], NEW p \in Procs, NEW at \in Ats, Leave(p, at)
    PROVE  proc' \in [Procs -> Process]
<1> DEFINE r == [proc[p] EXCEPT !.at = at, !.pc = "call", !.fd = None, !.tmp = None,
                                !.batch = <<>>, !.base = <<>>]
<1>1. proc[p] \in Process /\ <<>> \in Seq(Event) /\ "call" \in Pcs
  BY DEF Pcs
<1>2. r \in Process
  BY <1>1 DEF Process
<1>3. proc' = [proc EXCEPT ![p] = r]
  BY DEF Leave
<1> QED
  BY <1>2, <1>3

LEMMA GotoType ==
    ASSUME proc \in [Procs -> Process], NEW p \in Procs, NEW pc \in Pcs, Goto(p, pc)
    PROVE  proc' \in [Procs -> Process]
  BY ZenonT(60) DEF Goto, Process

LEMMA CallType ==
    ASSUME proc \in [Procs -> Process], NEW p \in Procs, NEW batch \in Seq(Event),
           NEW t \in Transitions \cup {None}, Call(p, batch, t)
    PROVE  proc' \in [Procs -> Process]
<1> DEFINE r == [proc[p] EXCEPT !.pc = "open", !.batch = batch, !.transition = t]
<1>1. proc[p] \in Process /\ "open" \in Pcs
  BY DEF Pcs
<1>2. r \in Process
  BY <1>1 DEF Process
<1>3. proc' = [proc EXCEPT ![p] = r]
  BY DEF Call
<1> QED
  BY <1>2, <1>3

LEMMA AfterType == \A at \in Ats : After(at) \in Ats /\ AfterError(at) \in Ats
  BY DEF After, AfterError, Ats

LEMMA ContentType ==
    ASSUME TypeOK, NEW i \in Inodes \cup {None}
    PROVE  Content(i) \in Seq(Event)
  BY DEF TypeOK, Content

LEMMA LogType ==
    ASSUME TypeOK
    PROVE  Log \in Seq(Event)
  BY ContentType DEF TypeOK, Log

LEMMA FailureStageType == \A log, id : FailureStage(log, id) \in Stages
  BY DEF FailureStage, Stages

\* The batch of a scan: a baseline and one event per gap.
LEMMA DiscoverType ==
    ASSUME TypeOK, NEW p \in Procs, Discover(p)
    PROVE  proc' \in [Procs -> Process]
<1>1. PICK gaps \in SUBSET Transitions, extra \in 0 .. 1 :
         \E order \in [1 .. Cardinality(gaps) -> gaps] :
            /\ IsFiniteSet(gaps)
            /\ Call(p, ScanBatch(p, Cardinality(gaps) + extra, order), None)
  BY DEF Discover
<1>2. PICK order \in [1 .. Cardinality(gaps) -> gaps] :
         /\ IsFiniteSet(gaps)
         /\ Call(p, ScanBatch(p, Cardinality(gaps) + extra, order), None)
  BY <1>1
<1> DEFINE first == [NewEvent("baseline", p, None) EXCEPT
                        !.completed = Cardinality(gaps) + extra]
           rest == [i \in DOMAIN order |-> NewEvent("gap_discovery", p, order[i])]
<1>3. p \in Ids /\ Cardinality(gaps) \in Nat
  BY <1>2, FS_CardinalityType, ValueLogAssumption
<1>4. first \in Event
  BY <1>3 DEF NewEvent, Event, Kinds
<1>5. rest \in [1 .. Cardinality(gaps) -> Event]
  <2>1. DOMAIN order = 1 .. Cardinality(gaps)
    OBVIOUS
  <2>2. \A i \in DOMAIN order : NewEvent("gap_discovery", p, order[i]) \in Event
    BY <1>3, <2>1, NewEventType DEF Kinds
  <2> QED
    BY <2>1, <2>2
<1>6. rest \in Seq(Event)
  <2> HIDE DEF rest
  <2>1. rest \in UNION {[1 .. n -> Event] : n \in Nat}
    BY <1>3, <1>5
  <2>2. Seq(Event) = UNION {[1 .. n -> Event] : n \in Nat}
    BY SeqDef
  <2> QED
    BY <2>1, <2>2, Zenon
<1>7. <<first>> \o rest \in Seq(Event)
  <2> HIDE DEF first, rest
  <2> QED
    BY <1>4, <1>6
<1> QED
  <2>1. proc \in [Procs -> Process]
    BY DEF TypeOK
  <2>2. Call(p, <<first>> \o rest, None)
    BY <1>2 DEF ScanBatch
  <2> HIDE DEF first, rest
  <2> QED
    BY <1>7, <2>1, <2>2, CallType

-----------------------------------------------------------------------------
(* Steps that leave the directory and the files alone.                     *)

LEMMA UnusedIsNew ==
    ASSUME ~(Inodes \subseteq InUse)
    PROVE  Unused \in Inodes /\ Unused \notin InUse
  BY DEF Unused

\* A process that starts, restarts or leaves an operation.
LEMMA QuietStep ==
    ASSUME LogInv, NEW p \in Procs, proc' \in [Procs -> Process],
           UNCHANGED <<path, recoverable, content, safe, losses>>,
           \A q \in Procs : q # p => proc'[q] = proc[q],
           \/ proc'[p].pc \in {"call", "open"}
           \/ proc'[p].pc = "lock" /\ proc'[p].fd \in Inodes
    PROVE  LogInv'
<1>1. TypeOK'
  BY DEF LogInv, TypeOK
<1>2. Log' = Log /\ \A i : Content(i)' = Content(i)
  BY DEF Log, Content
<1>3. proc'[p].pc \notin Locked
  BY DEF Locked
<1>4. Exclusive'
  BY <1>3 DEF LogInv, Exclusive
<1>5. Opened'
  BY <1>3 DEF LogInv, Opened
<1>6. ~Writing(p)' /\ \A q \in Procs : q # p => Writing(q)' = Writing(q)
  BY DEF Writing
<1>7. WritersAreCurrent'
  BY <1>2, <1>6 DEF LogInv, WritersAreCurrent
<1>8. StagedIsWhole'
  BY <1>2 DEF LogInv, StagedIsWhole
<1>9. RenamedRemains'
  BY <1>2 DEF LogInv, RenamedRemains
<1>10. RecoverableIsSafe'
  BY <1>2 DEF LogInv, RecoverableIsSafe
<1> QED
  BY <1>1, <1>4, <1>5, <1>7, <1>8, <1>9, <1>10 DEF LogInv

LEMMA LeaveStep ==
    ASSUME LogInv, NEW p \in Procs, NEW at \in Ats, Leave(p, at),
           UNCHANGED <<path, recoverable, content, safe, losses>>
    PROVE  LogInv'
<1>1. proc \in [Procs -> Process]
  BY DEF LogInv, TypeOK
<1>2. proc' \in [Procs -> Process]
  BY <1>1, LeaveType
<1>3. proc'[p].pc = "call" /\ \A q \in Procs : q # p => proc'[q] = proc[q]
  BY <1>1 DEF Leave, Process
<1> QED
  BY <1>2, <1>3, QuietStep

LEMMA CallStep ==
    ASSUME LogInv, NEW p \in Procs, NEW batch \in Seq(Event),
           NEW t \in Transitions \cup {None}, Call(p, batch, t),
           UNCHANGED <<path, recoverable, content, safe, losses>>
    PROVE  LogInv'
<1>1. proc \in [Procs -> Process]
  BY DEF LogInv, TypeOK
<1>2. proc' \in [Procs -> Process]
  BY <1>1, CallType
<1>3. proc'[p].pc = "open" /\ \A q \in Procs : q # p => proc'[q] = proc[q]
  BY <1>1 DEF Call, Process
<1> QED
  BY <1>2, <1>3, QuietStep

\* The operations that start.
LEMMA CallingSteps ==
    ASSUME LogInv, NEW p \in Procs,
           \/ Discover(p) \/ Deliver(p) \/ Invoke(p) \/ Advance(p)
           \/ RecordFailure(p) \/ CallRead(p)
    PROVE  LogInv'
<1>1. /\ proc \in [Procs -> Process]
      /\ proc[p].transition \in Transitions \cup {None}
      /\ proc[p].stage \in Stages \cup {None}
      /\ p \in Ids
  BY ValueLogAssumption DEF LogInv, TypeOK, Process
<1>2. CASE Discover(p)
  <2>1. proc' \in [Procs -> Process]
    BY <1>2, DiscoverType DEF LogInv
  <2>2. \E batch : Call(p, batch, None)
    BY <1>2 DEF Discover
  <2>3. proc'[p].pc = "open" /\ \A q \in Procs : q # p => proc'[q] = proc[q]
    BY <1>1, <2>2 DEF Call, Process
  <2>4. UNCHANGED <<path, recoverable, content, safe, losses>>
    BY <1>2 DEF Discover
  <2> QED
    BY <2>1, <2>3, <2>4, QuietStep
<1>3. CASE Deliver(p)
  <2>1. <<NewEvent("inbox_delivery", p, None)>> \in Seq(Event)
    BY <1>1, NewEventType, OneEvent DEF Kinds
  <2> QED
    BY <1>3, <2>1, CallStep DEF Deliver
<1>4. CASE Invoke(p)
  <2>1. \A t \in Transitions : <<NewEvent("resume_invoked", p, t)>> \in Seq(Event)
    BY <1>1, NewEventType, OneEvent DEF Kinds
  <2> QED
    BY <1>4, <2>1, CallStep DEF Invoke
<1>5. CASE Advance(p)
  <2>1. \A kind \in {"transition_bound", "covered_transition", "workbench_ready"} :
           <<NewEvent(kind, p, proc[p].transition)>> \in Seq(Event)
    BY <1>1, NewEventType, OneEvent DEF Kinds
  <2>2. PICK kind \in {"transition_bound", "covered_transition", "workbench_ready"} :
           Call(p, <<NewEvent(kind, p, proc[p].transition)>>, proc[p].transition)
    BY <1>5 DEF Advance
  <2>3. UNCHANGED <<path, recoverable, content, safe, losses>>
    BY <1>5 DEF Advance
  <2> QED
    BY <1>1, <2>1, <2>2, <2>3, CallStep
<1>6. CASE RecordFailure(p)
  <2>1. [NewEvent("attempt_failed", p, proc[p].transition) EXCEPT
            !.stage = proc[p].stage] \in Event
    BY <1>1 DEF NewEvent, Event, Kinds
  <2> QED
    BY <1>1, <1>6, <2>1, OneEvent, CallStep DEF RecordFailure
<1>7. CASE CallRead(p)
  <2>1. <<>> \in Seq(Event)
    OBVIOUS
  <2> QED
    BY <1>1, <1>7, <2>1, CallStep DEF CallRead
<1> QED
  BY <1>2, <1>3, <1>4, <1>5, <1>6, <1>7

\* The steps after which the process holds nothing.
LEMMA LeavingSteps ==
    ASSUME LogInv, NEW p \in Procs,
           \/ Served(p) \/ Refuse(p) \/ Fail(p) \/ Interrupt(p) \/ Kill(p)
    PROVE  LogInv'
<1>1. "end" \in Ats /\ "inspect" \in Ats /\ AfterError(proc[p].at) \in Ats
  <2>1. proc[p].at \in Ats
    BY DEF LogInv, TypeOK, Process
  <2>2. "end" \in Ats /\ "inspect" \in Ats
    BY DEF Ats
  <2> QED
    BY <2>1, <2>2, AfterType
<1>2. CASE Served(p)
  BY <1>1, <1>2, LeaveStep DEF Served
<1>3. CASE Refuse(p)
  BY <1>1, <1>3, LeaveStep DEF Refuse
<1>4. CASE Fail(p)
  BY <1>1, <1>4, LeaveStep DEF Fail
<1>5. CASE Interrupt(p)
  BY <1>1, <1>5, LeaveStep DEF Interrupt
<1>6. CASE Kill(p)
  BY <1>1, <1>6, LeaveStep DEF Kill
<1> QED
  BY <1>2, <1>3, <1>4, <1>5, <1>6

LEMMA RetryStep ==
    ASSUME LogInv, NEW p \in Procs, Retry(p)
    PROVE  LogInv'
<1>1. proc \in [Procs -> Process]
  BY DEF LogInv, TypeOK
<1> DEFINE r == [proc[p] EXCEPT !.pc = "open", !.fd = None]
<1>2. r \in Process
  BY <1>1 DEF Process, Pcs
<1>3. proc' = [proc EXCEPT ![p] = r]
  BY DEF Retry
<1>4. r.pc = "open"
  BY <1>1 DEF Process
<1> HIDE DEF r
<1>5. proc' \in [Procs -> Process] /\ proc'[p].pc = "open"
  BY <1>1, <1>2, <1>3, <1>4
<1>6. \A q \in Procs : q # p => proc'[q] = proc[q]
  BY <1>1, <1>3
<1>7. UNCHANGED <<path, recoverable, content, safe, losses>>
  BY DEF Retry
<1> QED
  BY <1>5, <1>6, <1>7, QuietStep

LEMMA ReadStep ==
    ASSUME LogInv, NEW p \in Procs, Read(p)
    PROVE  LogInv'
<1>1. proc \in [Procs -> Process]
  BY DEF LogInv, TypeOK
<1>2. PICK at \in {"end", "classify", "fail"} :
         proc' = [proc EXCEPT ![p].at = at, ![p].pc = "call", ![p].fd = None,
                              ![p].stage = IF at = "fail" THEN FailureStage(Log, p)
                                                          ELSE @]
  BY DEF Read, Reads
<1>3. PICK stage \in Stages \cup {None} :
         proc' = [proc EXCEPT ![p] = [proc[p] EXCEPT !.at = at, !.pc = "call",
                                                     !.fd = None, !.stage = stage]]
  BY <1>1, <1>2, FailureStageType DEF Process
<1> DEFINE r == [proc[p] EXCEPT !.at = at, !.pc = "call", !.fd = None, !.stage = stage]
<1>4. r \in Process /\ r.pc = "call"
  BY <1>1, ZenonT(60) DEF Process, Pcs, Ats
<1> HIDE DEF r
<1>5. proc' = [proc EXCEPT ![p] = r]
  BY <1>3 DEF r
<1>6. proc' \in [Procs -> Process] /\ proc'[p].pc = "call"
  BY <1>1, <1>4, <1>5
<1>7. \A q \in Procs : q # p => proc'[q] = proc[q]
  BY <1>1, <1>5
<1>8. UNCHANGED <<path, recoverable, content, safe, losses>>
  BY DEF Read
<1> QED
  BY <1>6, <1>7, <1>8, QuietStep

-----------------------------------------------------------------------------
(* Steps of a writer.                                                      *)

\* A new file is as empty as the missing one.
LEMMA OpenStep ==
    ASSUME LogInv, NEW p \in Procs, Open(p)
    PROVE  LogInv' /\ Log' = Log
<1>1. /\ proc \in [Procs -> Process]
      /\ path \in Inodes \cup {None}
      /\ content \in [Inodes -> Seq(Event)]
      /\ AfterError(proc[p].at) \in Ats
  BY AfterType DEF LogInv, TypeOK, Process
<1>2. CASE path # None /\ proc' = [proc EXCEPT ![p].pc = "lock", ![p].fd = path]
             /\ UNCHANGED <<path, recoverable, content>>
  <2> DEFINE r == [proc[p] EXCEPT !.pc = "lock", !.fd = path]
  <2>1. r \in Process /\ r.pc = "lock" /\ r.fd \in Inodes
    BY <1>1, <1>2 DEF Process, Pcs
  <2>2. proc' = [proc EXCEPT ![p] = r]
    BY <1>2
  <2> HIDE DEF r
  <2>3. /\ proc' \in [Procs -> Process]
        /\ proc'[p].pc = "lock" /\ proc'[p].fd \in Inodes
    BY <1>1, <2>1, <2>2
  <2>4. \A q \in Procs : q # p => proc'[q] = proc[q]
    BY <1>1, <2>2
  <2>5. UNCHANGED <<path, recoverable, content, safe, losses>>
    BY <1>2 DEF Open
  <2> QED
    BY <2>3, <2>4, <2>5, QuietStep DEF Log, Content
<1>3. CASE /\ path = None
           /\ ~(Inodes \subseteq InUse)
           /\ path' = Unused
           /\ recoverable' = recoverable \cup {Unused}
           /\ content' = [content EXCEPT ![Unused] = <<>>]
           /\ proc' = [proc EXCEPT ![p].pc = "lock", ![p].fd = Unused]
  <2> DEFINE r == [proc[p] EXCEPT !.pc = "lock", !.fd = Unused]
  <2>1. Unused \in Inodes /\ Unused \notin InUse /\ None \notin Inodes
    BY <1>3, UnusedIsNew, ValueLogAssumption
  <2>2. r \in Process /\ r.pc = "lock" /\ r.fd = Unused
    BY <1>1, <2>1 DEF Process, Pcs
  <2>3. proc' = [proc EXCEPT ![p] = r]
    BY <1>3
  <2> HIDE DEF r
  <2>4. proc' \in [Procs -> Process] /\ proc'[p].pc = "lock" /\ proc'[p].fd = Unused
    BY <1>1, <2>2, <2>3
  <2>5. \A q \in Procs : q # p => proc'[q] = proc[q]
    BY <1>1, <2>3
  <2>6. UNCHANGED <<safe, losses>>
    BY DEF Open
  <2>7. \A i \in recoverable : Content(i)' = Content(i)
    BY <1>1, <1>3, <2>1 DEF Content, InUse
  <2>8. Log = <<>> /\ Log' = <<>>
    BY <1>1, <1>3, <2>1 DEF Log, Content
  <2>9. TypeOK'
    BY <1>1, <1>3, <2>1, <2>4, <2>6 DEF LogInv, TypeOK
  <2>10. proc'[p].pc \notin Locked
    BY <2>4 DEF Locked
  <2>11. Exclusive'
    BY <2>5, <2>10 DEF LogInv, Exclusive
  <2>12. Opened'
    BY <2>1, <2>4, <2>5 DEF LogInv, Opened
  <2>13. \A q \in Procs : ~Writing(q) /\ ~Writing(q)'
    <3>1. \A q \in Procs : ~Writing(q)
      BY <1>3, <2>1 DEF LogInv, WritersAreCurrent, Writing, Opened, Locked
    <3> QED
      BY <3>1, <2>4, <2>5 DEF Writing
  <2>14. WritersAreCurrent' /\ StagedIsWhole'
    BY <2>13 DEF WritersAreCurrent, StagedIsWhole, Writing
  <2>15. RenamedRemains'
    <3> SUFFICES ASSUME NEW q \in Procs, proc'[q].pc = "sync"
                 PROVE  proc'[q].tmp \in Inodes /\ Begins(content'[proc'[q].tmp], Log')
      BY DEF RenamedRemains
    <3>1. proc'[q] = proc[q]
      BY <2>4, <2>5
    <3>2. proc[q].tmp \in Inodes /\ Begins(content[proc[q].tmp], Log)
      BY <3>1 DEF LogInv, RenamedRemains
    <3>3. proc[q].tmp # Unused
      BY <2>1 DEF InUse
    <3>4. content'[proc[q].tmp] = content[proc[q].tmp]
      BY <1>1, <1>3, <3>2, <3>3
    <3> QED
      BY <3>1, <3>2, <3>4, <2>8
  <2>16. RecoverableIsSafe'
    <3>1. path = None /\ path \in recoverable /\ Content(None) = <<>>
      BY <1>3 DEF LogInv, RecoverableIsSafe, Content
    <3>2. safe <= Len(<<>>) /\ Verifies(<<>>) /\ Begins(<<>>, <<>>)
      BY <3>1, <2>8 DEF LogInv, RecoverableIsSafe
    <3>3. path' \in recoverable'
      BY <1>3
    <3>4. ASSUME NEW i \in recoverable'
          PROVE  /\ Begins(Content(i)', Log')
                 /\ safe' <= Len(Content(i)')
                 /\ Verifies(Content(i)')
      <4>1. CASE i \in recoverable
        BY <4>1, <2>6, <2>7, <2>8 DEF LogInv, RecoverableIsSafe
      <4>2. CASE i = path'
        <5>1. Content(i)' = <<>>
          BY <4>2, <2>8 DEF Log
        <5> QED
          BY <5>1, <3>2, <2>6, <2>8
      <4> QED
        BY <1>3, <4>1, <4>2
    <3> QED
      BY <3>3, <3>4 DEF RecoverableIsSafe
  <2> QED
    BY <2>8, <2>9, <2>11, <2>12, <2>14, <2>15, <2>16 DEF LogInv
<1>4. CASE Leave(p, AfterError(proc[p].at)) /\ UNCHANGED <<path, recoverable, content>>
  BY <1>1, <1>4, LeaveStep DEF Open, Log, Content
<1> QED
  BY <1>2, <1>3, <1>4 DEF Open

\* A step of p that keeps its descriptor and leaves everything else alone,
\* after which p holds its lock.
LEMMA HoldingStep ==
    ASSUME LogInv, NEW p \in Procs, proc' \in [Procs -> Process],
           UNCHANGED <<path, recoverable, content, safe, losses>>,
           \A q \in Procs : q # p => proc'[q] = proc[q],
           proc'[p].fd = proc[p].fd, proc'[p].at = proc[p].at, proc[p].fd \in Inodes,
           \A q \in Procs \ {p} :
              proc[q].pc \in Locked /\ proc[q].fd = proc[p].fd
                  => proc[p].at \in Reads /\ proc[q].at \in Reads,
           Writing(p)' =>
              /\ proc[p].at \notin Reads
              /\ proc[p].fd = path
              /\ proc'[p].base = Log
              /\ Verifies(Log \o Fresh(Log, proc'[p].batch))
              /\ Fresh(Log, proc'[p].batch) # <<>>,
           proc'[p].pc \in {"recheck", "rename"} =>
              /\ proc'[p].tmp \in Inodes \ recoverable
              /\ content[proc'[p].tmp] = Log \o Fresh(Log, proc'[p].batch),
           proc'[p].pc # "sync"
    PROVE  LogInv'
<1>1. TypeOK'
  BY DEF LogInv, TypeOK
<1>2. Log' = Log /\ \A i : Content(i)' = Content(i)
  BY DEF Log, Content
<1>3. Exclusive'
  BY DEF LogInv, Exclusive
<1>4. Opened'
  BY DEF LogInv, Opened
<1>5. \A q \in Procs : q # p => (Writing(q)' <=> Writing(q))
  BY DEF Writing
<1>6. WritersAreCurrent'
  BY <1>2, <1>5 DEF LogInv, WritersAreCurrent
<1>7. StagedIsWhole'
  BY <1>2 DEF LogInv, StagedIsWhole
<1>8. RenamedRemains'
  BY <1>2 DEF LogInv, RenamedRemains
<1>9. RecoverableIsSafe'
  BY <1>2 DEF LogInv, RecoverableIsSafe
<1> QED
  BY <1>1, <1>3, <1>4, <1>6, <1>7, <1>8, <1>9 DEF LogInv

LEMMA LockStep ==
    ASSUME LogInv, NEW p \in Procs, Lock(p)
    PROVE  LogInv'
<1>1. proc \in [Procs -> Process]
  BY DEF LogInv, TypeOK
<1>2. proc' \in [Procs -> Process]
  BY <1>1, GotoType DEF Lock, Pcs
<1>3. /\ proc'[p].pc = "check"
      /\ proc'[p].fd = proc[p].fd /\ proc'[p].at = proc[p].at
      /\ \A q \in Procs : q # p => proc'[q] = proc[q]
  BY <1>1 DEF Lock, Goto, Process
<1>4. proc[p].fd \in Inodes
  BY DEF LogInv, Opened, Lock
<1> QED
  BY <1>2, <1>3, <1>4, HoldingStep DEF Lock, Writing

\* Another process that holds the lock of p's file only reads, and so does p.
LEMMA NobodyElse ==
    ASSUME LogInv, NEW p \in Procs, proc[p].pc \in Locked
    PROVE  /\ proc[p].fd \in Inodes
           /\ \A q \in Procs \ {p} :
                 proc[q].pc \in Locked /\ proc[q].fd = proc[p].fd
                     => proc[p].at \in Reads /\ proc[q].at \in Reads
  BY DEF LogInv, Exclusive, Opened

LEMMA PrepareStep ==
    ASSUME LogInv, NEW p \in Procs, Prepare(p)
    PROVE  LogInv'
<1>1. proc \in [Procs -> Process] /\ After(proc[p].at) \in Ats /\ Log \in Seq(Event)
  BY AfterType, LogType DEF LogInv, TypeOK, Process
<1>2. UNCHANGED <<path, recoverable, content, safe, losses>>
  BY DEF Prepare
<1>3. CASE Fresh(Log, proc[p].batch) = <<>>
  BY <1>1, <1>2, <1>3, LeaveStep DEF Prepare
<1>4. CASE Fresh(Log, proc[p].batch) # <<>>
  <2> DEFINE r == [proc[p] EXCEPT !.pc = "stage", !.base = Log]
  <2>1. /\ r \in Process /\ r.pc = "stage" /\ r.base = Log
        /\ r.fd = proc[p].fd /\ r.at = proc[p].at /\ r.batch = proc[p].batch
    BY <1>1 DEF Process, Pcs
  <2>2. proc' = [proc EXCEPT ![p] = r]
    BY <1>4 DEF Prepare
  <2> HIDE DEF r
  <2>3. /\ proc' \in [Procs -> Process] /\ proc'[p] = r
        /\ \A q \in Procs : q # p => proc'[q] = proc[q]
    BY <1>1, <2>1, <2>2
  <2>4. /\ proc[p].at \notin Reads /\ proc[p].fd = path
        /\ Verifies(Log \o Fresh(Log, proc[p].batch))
    BY DEF Prepare, Appendable
  <2>5. proc[p].pc \in Locked
    BY DEF Prepare, Locked
  <2> QED
    BY <1>2, <1>4, <2>1, <2>3, <2>4, <2>5, NobodyElse, HoldingStep
<1> QED
  BY <1>3, <1>4

LEMMA RecheckStep ==
    ASSUME LogInv, NEW p \in Procs, Recheck(p)
    PROVE  LogInv'
<1>1. proc \in [Procs -> Process] /\ AfterError(proc[p].at) \in Ats
  BY AfterType DEF LogInv, TypeOK, Process
<1>2. UNCHANGED <<path, recoverable, content, safe, losses>>
  BY DEF Recheck
<1>3. CASE path = proc[p].fd
  <2>1. proc' \in [Procs -> Process]
    BY <1>1, <1>3, GotoType DEF Recheck, Pcs
  <2>2. /\ proc'[p] = [proc[p] EXCEPT !.pc = "rename"]
        /\ \A q \in Procs : q # p => proc'[q] = proc[q]
    BY <1>1, <1>3 DEF Recheck, Goto
  <2>3. /\ proc'[p].pc = "rename" /\ proc'[p].base = proc[p].base
        /\ proc'[p].fd = proc[p].fd /\ proc'[p].at = proc[p].at
        /\ proc'[p].batch = proc[p].batch /\ proc'[p].tmp = proc[p].tmp
    BY <1>1, <2>2 DEF Process
  <2>4. Writing(p) /\ proc[p].pc = "recheck" /\ proc[p].pc \in Locked
    BY DEF Recheck, Writing, Locked
  <2>5. /\ proc[p].at \notin Reads /\ proc[p].fd = path /\ proc[p].base = Log
        /\ Verifies(Log \o Fresh(Log, proc[p].batch))
        /\ Fresh(Log, proc[p].batch) # <<>>
    BY <2>4 DEF LogInv, WritersAreCurrent
  <2>6. /\ proc[p].tmp \in Inodes \ recoverable
        /\ content[proc[p].tmp] = Log \o Fresh(Log, proc[p].batch)
    BY <2>4 DEF LogInv, StagedIsWhole
  <2>7. /\ proc'[p].base = Log
        /\ Verifies(Log \o Fresh(Log, proc'[p].batch))
        /\ Fresh(Log, proc'[p].batch) # <<>>
        /\ proc'[p].tmp \in Inodes \ recoverable
        /\ content[proc'[p].tmp] = Log \o Fresh(Log, proc'[p].batch)
    BY <2>3, <2>5, <2>6
  <2>8. /\ proc[p].fd \in Inodes
        /\ \A q \in Procs \ {p} :
              proc[q].pc \in Locked /\ proc[q].fd = proc[p].fd
                  => proc[p].at \in Reads /\ proc[q].at \in Reads
    BY <2>4, NobodyElse
  <2>9. proc'[p].pc # "sync" /\ proc'[p].fd = proc[p].fd /\ proc'[p].at = proc[p].at
    BY <2>3
  <2> QED
    BY <1>2, <2>1, <2>2, <2>5, <2>7, <2>8, <2>9, HoldingStep
<1>4. CASE path # proc[p].fd
  BY <1>1, <1>2, <1>4, LeaveStep DEF Recheck
<1> QED
  BY <1>3, <1>4

\* The temporary file is a file that nothing refers to.
LEMMA StageStep ==
    ASSUME LogInv, NEW p \in Procs, Stage(p)
    PROVE  LogInv' /\ Log' = Log
<1>1. /\ proc \in [Procs -> Process]
      /\ content \in [Inodes -> Seq(Event)]
      /\ path \in Inodes \cup {None}
      /\ recoverable \subseteq Inodes \cup {None}
      /\ proc[p].batch \in Seq(Event)
      /\ Log \in Seq(Event)
  BY LogType DEF LogInv, TypeOK, Process
<1>2. PICK u \in Inodes : u = Unused /\ u \notin InUse
  BY UnusedIsNew DEF Stage
<1>3. /\ proc[p].at \notin Reads /\ proc[p].fd = path /\ proc[p].base = Log
      /\ Verifies(Log \o Fresh(Log, proc[p].batch))
      /\ Fresh(Log, proc[p].batch) # <<>>
  BY DEF Stage, Writing, LogInv, WritersAreCurrent
<1> DEFINE new == Log \o Fresh(Log, proc[p].batch)
           r == [proc[p] EXCEPT !.pc = "recheck", !.tmp = u]
<1>4. new \in Seq(Event)
  BY <1>1, FreshType
<1>5. /\ r \in Process /\ r.pc = "recheck" /\ r.tmp = u /\ r.base = proc[p].base
      /\ r.fd = proc[p].fd /\ r.at = proc[p].at /\ r.batch = proc[p].batch
  BY <1>1 DEF Process, Pcs
<1>6. /\ content' = [content EXCEPT ![u] = new]
      /\ proc' = [proc EXCEPT ![p] = r]
      /\ UNCHANGED <<path, recoverable, safe, losses>>
  BY <1>2, <1>3 DEF Stage
<1> HIDE DEF new, r
<1>7. /\ proc' \in [Procs -> Process] /\ proc'[p] = r
      /\ \A q \in Procs : q # p => proc'[q] = proc[q]
  BY <1>1, <1>5, <1>6
<1>8. /\ content' \in [Inodes -> Seq(Event)] /\ content'[u] = new
      /\ \A i \in Inodes : i # u => content'[i] = content[i]
  BY <1>1, <1>4, <1>6
<1>9. u # path /\ u \notin recoverable /\ \A q \in Procs : u # proc[q].tmp
  BY <1>2 DEF InUse
<1>10. Log' = Log
  BY <1>1, <1>6, <1>8, <1>9 DEF Log, Content
<1>11. \A i \in recoverable : Content(i)' = Content(i)
  BY <1>1, <1>8, <1>9 DEF Content
<1>12. TypeOK'
  BY <1>6, <1>7, <1>8 DEF LogInv, TypeOK
<1>13. Exclusive' /\ Opened'
  <2>1. proc[p].pc \in Locked
    BY DEF Stage, Locked
  <2>2. Exclusive'
    BY <2>1, <1>5, <1>7 DEF LogInv, Exclusive
  <2>3. Opened'
    BY <2>1, <1>5, <1>7 DEF LogInv, Opened
  <2> QED
    BY <2>2, <2>3
<1>14. WritersAreCurrent'
  <2>1. \A q \in Procs : q # p => (Writing(q)' <=> Writing(q))
    BY <1>7 DEF Writing
  <2> QED
    BY <2>1, <1>3, <1>5, <1>6, <1>7, <1>10 DEF LogInv, WritersAreCurrent
<1>15. StagedIsWhole'
  <2> SUFFICES ASSUME NEW q \in Procs, proc'[q].pc \in {"recheck", "rename"}
               PROVE  /\ proc'[q].tmp \in Inodes \ recoverable'
                      /\ content'[proc'[q].tmp] = Log' \o Fresh(Log', proc'[q].batch)
    BY DEF StagedIsWhole
  <2>1. CASE q = p
    BY <2>1, <1>5, <1>6, <1>7, <1>8, <1>9, <1>10 DEF new
  <2>2. CASE q # p
    <3>1. /\ proc[q].tmp \in Inodes \ recoverable
          /\ content[proc[q].tmp] = Log \o Fresh(Log, proc[q].batch)
      BY <2>2, <1>7 DEF LogInv, StagedIsWhole
    <3> QED
      BY <2>2, <3>1, <1>6, <1>7, <1>8, <1>9, <1>10
  <2> QED
    BY <2>1, <2>2
<1>16. RenamedRemains'
  <2> SUFFICES ASSUME NEW q \in Procs, proc'[q].pc = "sync"
               PROVE  proc'[q].tmp \in Inodes /\ Begins(content'[proc'[q].tmp], Log')
    BY DEF RenamedRemains
  <2>1. proc'[q] = proc[q]
    BY <1>5, <1>7
  <2>2. proc[q].tmp \in Inodes /\ Begins(content[proc[q].tmp], Log)
    BY <2>1 DEF LogInv, RenamedRemains
  <2> QED
    BY <2>1, <2>2, <1>8, <1>9, <1>10
<1>17. RecoverableIsSafe'
  BY <1>6, <1>10, <1>11 DEF LogInv, RecoverableIsSafe
<1> QED
  BY <1>10, <1>12, <1>13, <1>14, <1>15, <1>16, <1>17 DEF LogInv

\* rename(2): the log grows by the batch, and no other writer is in the middle.
LEMMA RenameStep ==
    ASSUME LogInv, NEW p \in Procs, Rename(p)
    PROVE  /\ LogInv'
           /\ Log' \in Seq(Event) /\ Verifies(Log')
           /\ Len(Log) < Len(Log') /\ Log = SubSeq(Log', 1, Len(Log))
<1>1. /\ proc \in [Procs -> Process]
      /\ content \in [Inodes -> Seq(Event)]
      /\ path \in Inodes \cup {None}
      /\ recoverable \subseteq Inodes \cup {None}
      /\ proc[p].batch \in Seq(Event)
      /\ Log \in Seq(Event)
  BY LogType DEF LogInv, TypeOK, Process
<1>2. Writing(p) /\ proc[p].pc = "rename" /\ proc[p].pc \in Locked
  BY DEF Rename, Writing, Locked
<1>3. /\ proc[p].at \notin Reads /\ proc[p].fd = path
      /\ Verifies(Log \o Fresh(Log, proc[p].batch))
      /\ Fresh(Log, proc[p].batch) # <<>>
  BY <1>2 DEF LogInv, WritersAreCurrent
<1>4. /\ proc[p].tmp \in Inodes \ recoverable
      /\ content[proc[p].tmp] = Log \o Fresh(Log, proc[p].batch)
  BY <1>2 DEF LogInv, StagedIsWhole
<1>5. /\ path' = proc[p].tmp
      /\ recoverable' = recoverable \cup {proc[p].tmp}
      /\ Goto(p, "sync")
      /\ UNCHANGED <<content, safe, losses>>
  BY DEF Rename
<1>6. Log' = Log \o Fresh(Log, proc[p].batch)
  BY <1>4, <1>5, ValueLogAssumption DEF Log, Content
<1>7. Fresh(Log, proc[p].batch) \in Seq(Event)
  BY <1>1, FreshType
<1> DEFINE more == Fresh(Log, proc[p].batch)
<1>8. /\ Log' \in Seq(Event) /\ Begins(Log, Log')
      /\ Len(Log) < Len(Log') /\ Log = SubSeq(Log', 1, Len(Log))
  <2>1. more \in Seq(Event) /\ more # <<>> /\ Log' = Log \o more
    BY <1>3, <1>6, <1>7
  <2> HIDE DEF more
  <2>2. Log' \in Seq(Event) /\ Len(Log) < Len(Log')
    BY <1>1, <2>1
  <2>3. Begins(Log, Log')
    BY <1>1, <2>1, BeginsConcat
  <2> QED
    BY <1>1, <2>2, <2>3, BeginsSubSeq
<1>9. \A i : Content(i)' = Content(i)
  BY <1>5 DEF Content
<1>10. proc' \in [Procs -> Process]
  BY <1>1, <1>5, GotoType DEF Pcs
<1>11. /\ proc'[p].pc = "sync" /\ proc'[p].tmp = proc[p].tmp
       /\ proc'[p].fd = proc[p].fd /\ proc'[p].at = proc[p].at
       /\ \A q \in Procs : q # p => proc'[q] = proc[q]
  BY <1>1, <1>5 DEF Goto, Process
<1>12. TypeOK'
  BY <1>1, <1>4, <1>5, <1>10 DEF LogInv, TypeOK
<1>13. Exclusive' /\ Opened'
  <2>1. Exclusive'
    BY <1>2, <1>11 DEF LogInv, Exclusive
  <2>2. Opened'
    BY <1>2, <1>11 DEF LogInv, Opened
  <2> QED
    BY <2>1, <2>2
<1>14. \A q \in Procs : ~Writing(q)'
  <2> TAKE q \in Procs
  <2>1. CASE q = p
    BY <2>1, <1>11 DEF Writing
  <2>2. CASE q # p
    <3> SUFFICES ASSUME Writing(q) PROVE FALSE
      BY <2>2, <1>11 DEF Writing
    <3>1. proc[q].fd = path /\ proc[q].pc \in Locked
      BY DEF LogInv, WritersAreCurrent, Writing, Locked
    <3> QED
      BY <2>2, <3>1, <1>2, <1>3, NobodyElse
  <2> QED
    BY <2>1, <2>2
<1>15. WritersAreCurrent' /\ StagedIsWhole'
  BY <1>14 DEF WritersAreCurrent, StagedIsWhole, Writing
<1>16. RenamedRemains'
  <2> SUFFICES ASSUME NEW q \in Procs, proc'[q].pc = "sync"
               PROVE  proc'[q].tmp \in Inodes /\ Begins(content'[proc'[q].tmp], Log')
    BY DEF RenamedRemains
  <2>1. CASE q = p
    <3>1. content'[proc'[q].tmp] = Log'
      BY <2>1, <1>4, <1>5, <1>6, <1>11
    <3> QED
      BY <2>1, <3>1, <1>4, <1>8, <1>11, BeginsSelf
  <2>2. CASE q # p
    <3>1. proc[q].tmp \in Inodes /\ Begins(content[proc[q].tmp], Log)
      BY <2>2, <1>11 DEF LogInv, RenamedRemains
    <3>2. content[proc[q].tmp] \in Seq(Event)
      BY <3>1, <1>1
    <3>3. Begins(content[proc[q].tmp], Log')
      BY <3>1, <3>2, <1>1, <1>8, BeginsTransitive
    <3> QED
      BY <2>2, <3>1, <3>3, <1>5, <1>11
  <2> QED
    BY <2>1, <2>2
<1>17. RecoverableIsSafe'
  <2>1. path' \in recoverable'
    BY <1>5
  <2>2. ASSUME NEW i \in recoverable'
        PROVE  /\ Begins(Content(i)', Log')
               /\ safe' <= Len(Content(i)')
               /\ Verifies(Content(i)')
    <3>1. CASE i \in recoverable
      <4>1. /\ Begins(Content(i), Log) /\ safe <= Len(Content(i))
            /\ Verifies(Content(i))
        BY <3>1 DEF LogInv, RecoverableIsSafe
      <4>2. Content(i) \in Seq(Event)
        BY <3>1, <1>1, ContentType DEF LogInv
      <4>3. Begins(Content(i), Log')
        BY <4>1, <4>2, <1>1, <1>8, BeginsTransitive
      <4> QED
        BY <4>1, <4>3, <1>5, <1>9
    <3>2. CASE i = path'
      <4>1. Content(i)' = Log'
        BY <3>2 DEF Log
      <4>2. safe <= Len(Log)
        BY DEF LogInv, RecoverableIsSafe, Log
      <4>3. safe \in Nat
        BY DEF LogInv, TypeOK
      <4>4. safe <= Len(Log')
        BY <4>2, <4>3, <1>1, <1>8
      <4> QED
        BY <4>1, <4>4, <1>3, <1>5, <1>6, <1>8, BeginsSelf
    <3> QED
      BY <3>1, <3>2, <1>5
  <2> QED
    BY <2>1, <2>2 DEF RecoverableIsSafe
<1> QED
  BY <1>3, <1>6, <1>8, <1>12, <1>13, <1>15, <1>16, <1>17 DEF LogInv

\* sync_all on the directory: from now on a power failure keeps the log.
LEMMA SyncStep ==
    ASSUME LogInv, NEW p \in Procs, SyncDirectory(p)
    PROVE  /\ LogInv'
           /\ Log' = Log /\ safe' \in safe .. Len(Log)
<1>1. /\ proc \in [Procs -> Process]
      /\ content \in [Inodes -> Seq(Event)]
      /\ path \in Inodes \cup {None}
      /\ Log \in Seq(Event) /\ safe \in Nat
      /\ After(proc[p].at) \in Ats
  BY LogType, AfterType DEF LogInv, TypeOK, Process
<1>2. proc[p].tmp \in Inodes /\ Begins(content[proc[p].tmp], Log)
  BY DEF SyncDirectory, LogInv, RenamedRemains
<1>3. content[proc[p].tmp] \in Seq(Event)
  BY <1>1, <1>2
<1>4. Len(content[proc[p].tmp]) \in Nat /\ Len(content[proc[p].tmp]) <= Len(Log)
  BY <1>2, <1>3 DEF Begins
<1>5. path \in recoverable /\ safe <= Len(Log) /\ Verifies(Log)
  BY DEF LogInv, RecoverableIsSafe, Log
<1>6. safe' \in safe .. Len(Log) /\ safe' \in Nat
  <2>1. safe' = IF safe < Len(content[proc[p].tmp]) THEN Len(content[proc[p].tmp]) ELSE safe
    BY DEF SyncDirectory
  <2>2. Len(Log) \in Nat
    BY <1>1
  <2> QED
    BY <1>1, <1>4, <1>5, <2>1, <2>2
<1>7. /\ recoverable' = {path} /\ UNCHANGED <<path, content, losses>>
      /\ Leave(p, After(proc[p].at))
  BY DEF SyncDirectory
<1>8. Log' = Log /\ \A i : Content(i)' = Content(i)
  BY <1>7 DEF Log, Content
<1>9. proc' \in [Procs -> Process]
  BY <1>1, <1>7, LeaveType
<1>10. proc'[p].pc = "call" /\ \A q \in Procs : q # p => proc'[q] = proc[q]
  BY <1>1, <1>7 DEF Leave, Process
<1>11. TypeOK'
  BY <1>1, <1>6, <1>7, <1>9 DEF LogInv, TypeOK
<1>12. Exclusive'
  BY <1>10 DEF LogInv, Exclusive, Locked
<1>13. Opened'
  BY <1>10 DEF LogInv, Opened, Locked
<1>14. WritersAreCurrent'
  <2>1. ~Writing(p)' /\ \A q \in Procs : q # p => (Writing(q)' <=> Writing(q))
    BY <1>10 DEF Writing
  <2> QED
    BY <2>1, <1>7, <1>8, <1>10 DEF LogInv, WritersAreCurrent
<1>15. StagedIsWhole'
  BY <1>5, <1>7, <1>8, <1>10 DEF LogInv, StagedIsWhole
<1>16. RenamedRemains'
  BY <1>7, <1>8, <1>10 DEF LogInv, RenamedRemains
<1>17. RecoverableIsSafe'
  <2>1. Content(path)' = Log /\ Begins(Log, Log) /\ safe' <= Len(Log)
    BY <1>1, <1>6, <1>7, <1>8, BeginsSelf DEF Log
  <2> QED
    BY <2>1, <1>5, <1>7, <1>8 DEF RecoverableIsSafe, Log
<1> QED
  BY <1>6, <1>8, <1>11, <1>12, <1>13, <1>14, <1>15, <1>16, <1>17 DEF LogInv

\* The power fails: the path names one of the files it may name, and nobody
\* is in the middle of anything.
LEMMA PowerLossStep ==
    ASSUME LogInv, PowerLoss
    PROVE  /\ LogInv'
           /\ \E n \in safe .. Len(Log) : Log' = SubSeq(Log, 1, n)
           /\ safe' = safe
<1>1. /\ proc \in [Procs -> Process]
      /\ content \in [Inodes -> Seq(Event)]
      /\ recoverable \subseteq Inodes \cup {None}
      /\ Log \in Seq(Event) /\ safe \in Nat /\ losses \in Nat
  BY LogType DEF LogInv, TypeOK
<1>2. /\ path' \in recoverable /\ recoverable' = {path'}
      /\ UNCHANGED <<content, safe>> /\ losses' = losses + 1
  BY DEF PowerLoss
<1>3. \A i : Content(i)' = Content(i)
  BY <1>2 DEF Content
<1>4. /\ Begins(Content(path'), Log) /\ safe <= Len(Content(path'))
      /\ Verifies(Content(path'))
  BY <1>2 DEF LogInv, RecoverableIsSafe
<1>5. Log' = Content(path') /\ Content(path') \in Seq(Event)
  BY <1>1, <1>2, <1>3, ContentType DEF LogInv, Log, Content
<1>6. ASSUME NEW p \in Procs
      PROVE  proc'[p] \in Process /\ proc'[p].pc = "call"
  <2>1. PICK at \in Ats :
           proc'[p] = [proc[p] EXCEPT !.at = at, !.pc = "call", !.fd = None, !.tmp = None,
                                      !.batch = <<>>, !.base = <<>>]
    BY <1>1 DEF PowerLoss, Process, Ats
  <2>2. proc[p] \in Process /\ <<>> \in Seq(Event) /\ "call" \in Pcs
    BY <1>1 DEF Pcs
  <2> DEFINE r == [proc[p] EXCEPT !.at = at, !.pc = "call", !.fd = None, !.tmp = None,
                                  !.batch = <<>>, !.base = <<>>]
  <2>3. r \in Process
    BY <2>2 DEF Process
  <2>4. r.pc = "call"
    BY <2>2 DEF Process
  <2> QED
    BY <2>1, <2>3, <2>4
<1>7. TypeOK'
  <2>1. proc' \in [Procs -> Process]
    BY <1>6 DEF PowerLoss
  <2> QED
    BY <2>1, <1>1, <1>2 DEF LogInv, TypeOK
<1>8. Exclusive' /\ Opened' /\ WritersAreCurrent' /\ StagedIsWhole' /\ RenamedRemains'
  <2>1. \A p \in Procs : proc'[p].pc \notin Locked \cup {"lock"} /\ ~Writing(p)'
    BY <1>6 DEF Locked, Writing
  <2>2. \A p \in Procs : proc'[p].pc \notin {"recheck", "rename", "sync"}
    BY <1>6
  <2> QED
    BY <2>1, <2>2 DEF Exclusive, Opened, WritersAreCurrent, StagedIsWhole, RenamedRemains
<1>9. RecoverableIsSafe'
  <2>1. path' \in recoverable' /\ Begins(Log', Log')
    BY <1>2, <1>5, BeginsSelf
  <2>2. safe' <= Len(Log') /\ Verifies(Log')
    BY <1>2, <1>4, <1>5
  <2>3. \A i \in recoverable' : Content(i)' = Log'
    BY <1>2, <1>3, <1>5
  <2> QED
    BY <2>1, <2>2, <2>3 DEF RecoverableIsSafe
<1>10. \E n \in safe .. Len(Log) : Log' = SubSeq(Log, 1, n)
  <2>1. Log' = SubSeq(Log, 1, Len(Log'))
    BY <1>1, <1>4, <1>5, BeginsSubSeq
  <2>2. Len(Log') \in safe .. Len(Log)
    BY <1>1, <1>4, <1>5 DEF Begins
  <2> QED
    BY <2>1, <2>2
<1> QED
  BY <1>2, <1>7, <1>8, <1>9, <1>10 DEF LogInv

-----------------------------------------------------------------------------
(* The theorems.                                                           *)

LEMMA LogInvInit == Init => LogInv
<1> SUFFICES ASSUME Init PROVE LogInv
  OBVIOUS
<1>1. <<>> \in Seq(Event)
  OBVIOUS
<1>2. TypeOK
  <2>1. proc \in [Procs -> Process]
    <3> SUFFICES ASSUME NEW p \in Procs PROVE proc[p] \in Process
      BY DEF Init
    <3> QED
      BY <1>1 DEF Init, Process, Ats, Pcs
  <2> QED
    BY <1>1, <2>1 DEF Init, TypeOK
<1>3. \A p \in Procs : proc[p].pc = "call"
  BY DEF Init
<1>4. Exclusive /\ Opened /\ WritersAreCurrent /\ StagedIsWhole /\ RenamedRemains
  BY <1>3 DEF Exclusive, Opened, WritersAreCurrent, StagedIsWhole, RenamedRemains,
              Writing, Locked
<1>5. RecoverableIsSafe
  <2>1. Log = <<>> /\ Content(None) = <<>>
    BY DEF Init, Log, Content
  <2>2. Verifies(<<>>)
    BY FunnelAssumption DEF Verifies
  <2>3. Begins(<<>>, <<>>)
    BY DEF Begins
  <2> QED
    BY <2>1, <2>2, <2>3 DEF Init, RecoverableIsSafe
<1> QED
  BY <1>2, <1>4, <1>5 DEF LogInv

\* Every step keeps the invariant, and is a step of DurableLog or leaves the
\* log and what is confirmed as they are.
LEMMA LogInvNext ==
    ASSUME LogInv, [Next]_vars
    PROVE  LogInv' /\ [Promise!Next]_<<Log, safe>>
<1>1. CASE UNCHANGED vars
  <2>1. LogInv'
    BY <1>1 DEF vars, LogInv, TypeOK, Exclusive, Opened, WritersAreCurrent, StagedIsWhole,
                RenamedRemains, RecoverableIsSafe, Writing, Log, Content
  <2> QED
    BY <1>1, <2>1 DEF vars, Log, Content
<1>2. ASSUME NEW p \in Procs, Step(p) \/ Fault(p)
      PROVE  LogInv' /\ [Promise!Next]_<<Log, safe>>
  <2>1. CASE Discover(p) \/ Deliver(p) \/ Invoke(p) \/ Advance(p) \/ RecordFailure(p)
               \/ CallRead(p)
    <3>1. UNCHANGED <<Log, safe>>
      BY <2>1 DEF Discover, Deliver, Invoke, Advance, RecordFailure, CallRead, Log, Content
    <3> QED
      BY <2>1, <3>1, CallingSteps
  <2>2. CASE Served(p) \/ Refuse(p) \/ Fail(p) \/ Interrupt(p) \/ Kill(p)
    <3>1. UNCHANGED <<Log, safe>>
      BY <2>2 DEF Served, Refuse, Fail, Interrupt, Kill, Log, Content
    <3> QED
      BY <2>2, <3>1, LeavingSteps
  <2>3. CASE Retry(p) \/ Read(p) \/ Lock(p) \/ Prepare(p) \/ Recheck(p)
    <3>1. UNCHANGED <<Log, safe>>
      BY <2>3 DEF Retry, Read, Lock, Prepare, Recheck, Log, Content
    <3> QED
      BY <2>3, <3>1, RetryStep, ReadStep, LockStep, PrepareStep, RecheckStep
  <2>4. CASE Open(p) \/ Stage(p)
    <3>1. UNCHANGED safe
      BY <2>4 DEF Open, Stage
    <3> QED
      BY <2>4, <3>1, OpenStep, StageStep
  <2>5. CASE Rename(p)
    <3>1. UNCHANGED safe
      BY <2>5 DEF Rename
    <3> QED
      BY <2>5, <3>1, RenameStep DEF Promise!Next, Promise!Extend
  <2>6. CASE SyncDirectory(p)
    BY <2>6, SyncStep DEF Promise!Next, Promise!Confirm
  <2> QED
    BY <1>2, <2>1, <2>2, <2>3, <2>4, <2>5, <2>6 DEF Step, Fault
<1>3. CASE PowerLoss
  BY <1>3, PowerLossStep DEF Promise!Next, Promise!Lose
<1> QED
  BY <1>1, <1>2, <1>3 DEF Next

\* For any processes, faults and power failures, the file that the path names
\* verifies (verify_log_bytes never refuses what append_events wrote) and
\* build_report finds it consistent, with every rate between none and all.
THEOREM LogAlwaysHolds == Spec => []LogHolds
<1>1. LogInv => LogHolds
  <2> SUFFICES ASSUME LogInv PROVE LogHolds
    OBVIOUS
  <2>1. Log \in Seq(Event) /\ Verifies(Log)
    BY LogType DEF LogInv, RecoverableIsSafe, Log
  <2> QED
    BY <2>1, ReportIsConsistent, ReportInRange, Zenon DEF LogHolds, LogVerifies, ReportHolds
<1>2. LogInv /\ [Next]_vars => LogInv'
  BY LogInvNext
<1> QED
  BY <1>1, <1>2, LogInvInit, PTL DEF Spec

\* ValueLog implements DurableLog: append_events loses no update of another
\* process, only adds at the end, and what it confirmed survives a power loss.
THEOREM PromiseIsKept == Spec => KeepsPromise
<1>1. Init => Promise!Init
  BY DEF Init, Promise!Init, Log, Content
<1>2. LogInv /\ [Next]_vars => LogInv' /\ [Promise!Next]_Promise!vars
  BY LogInvNext DEF Promise!vars
<1> QED
  BY <1>1, <1>2, LogInvInit, PTL DEF Spec, KeepsPromise, Promise!Spec
=============================================================================
