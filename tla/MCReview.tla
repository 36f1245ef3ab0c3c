------------------------------ MODULE MCReview ------------------------------
(***************************************************************************)
(* Reviews of all small pull requests: the range is reviewed, then the     *)
(* delta is computed, on four trees chosen at the start.  And the gate     *)
(* that rests on it: a pull request of five commits, one of which moves a  *)
(* file and one of which takes everything back, on a base branch of two    *)
(* commits, three people of whom two are in the team, webhooks in any      *)
(* order, access that changes under a collection, and both at once in      *)
(* smaller numbers.                                                        *)
(***************************************************************************)
EXTENDS ReviewGate

CONSTANT Sources      \* the sources of the instance of a single file

VARIABLES
    in,       \* the four trees of a resumed review and the patches between them
    stage,    \* how far it is, or "none" when the behaviour is about the gate
    review,   \* what ReviewRange answered
    delta     \* what ResumeDelta answered

resumed == <<in, stage, review, delta>>

-----------------------------------------------------------------------------
(* The resumed review.                                                     *)

File(mode, blob) == [mode |-> mode, blob |-> blob]
Plain(blob) == File("100644", blob)

\* A reviewed edit at the front of Long, an upstream edit at its end, and both.
Long == <<1, 0, 1>>
First == {Plain(Long), Plain(<<0, 1>>), Plain(<<1, 0>>),
          Plain(<<0>>), None}
Second == {Plain(Long), Plain(<<3>>), File("120000", Long), None}

Trees == {<<f, s, None>> : f \in First, s \in Second}
OldBases == {t \in Trees : t[1] = Plain(Long) /\ t[2] # File("120000", Long)}

MCSources == UNION {[1..n -> {1, 2}] : n \in 0..3}

Single(source) == [p \in Paths |-> IF p = 1 THEN File("100644", source) ELSE None]

NoResult == [ok |-> FALSE]

ReviewInit ==
    /\ stage = "range" /\ review = NoResult /\ delta = NoResult
    /\ \/ \E b0 \in Sources, cp \in Sources, b1 \in Sources :
            \E r \in CreatePatch(b0, cp), u \in CreatePatch(b0, b1) :
                \E h \in {cp, b1, Merged(b0, r, u)} :
                    in = [base0 |-> Single(b0), checkpoint |-> Single(cp),
                          base1 |-> Single(b1), head |-> Single(h), moved |-> TRUE,
                          reviewed |-> [p \in Paths |-> IF p = 1 THEN r ELSE <<>>],
                          upstream |-> [p \in Paths |-> IF p = 1 THEN u ELSE <<>>]]
       \/ \E b0 \in OldBases, cp \in Trees, b1 \in Trees, h \in Trees, moved \in BOOLEAN :
            /\ ~moved => b0 = b1
            /\ in = InputOf(b0, cp, b1, h, moved)

Range0 ==
    /\ stage = "range"
    /\ review' = ReviewRange(in, 0, {})
    /\ stage' = IF review'.ok THEN "delta" ELSE "failed"
    /\ UNCHANGED <<in, delta>>

Delta ==
    /\ stage = "delta"
    /\ delta' = ResumeDelta(in, review)
    /\ stage' = IF delta'.ok THEN "done" ELSE "failed"
    /\ UNCHANGED <<in, review>>

-----------------------------------------------------------------------------
(* The gate.                                                               *)

\* The pull request edits the front of path 1, moves the file to path 3 in
\* commit 4, adds a file whose name is not UTF-8 in commit 6, and takes
\* everything back in commit 7; the base branch edits the end of path 1;
\* commit 5 is commit 3 rebased.
MCTree ==
    (1 :> <<Plain(<<1, 0, 1>>), None, None>>) @@
    (2 :> <<Plain(<<1, 0>>), None, None>>) @@
    (3 :> <<Plain(<<0, 1>>), None, None>>) @@
    (4 :> <<None, None, Plain(<<1, 0, 1>>)>>) @@
    (5 :> <<Plain(<<0>>), None, None>>) @@
    (6 :> <<Plain(<<0, 1>>), Plain(<<3>>), None>>) @@
    (7 :> <<Plain(<<1, 0, 1>>), None, None>>)

MCMergeBase(b, c) == IF b = 2 /\ c = 5 THEN 2 ELSE 1

Rule(paths, owners) == [paths |-> paths, owners |-> owners, legal |-> TRUE]
Absent == [present |-> FALSE]
Present(rules) == [present |-> TRUE, regular |-> TRUE, rules |-> rules]

MCPlaces(c) ==
    IF c = 1 THEN <<Absent, Present(<<Rule({1, 2, 3}, {Team(1)}), Rule({3}, {User(1)})>>)>>
    ELSE <<Present(<<Rule({1, 2, 3}, {User(1), Team(1)})>>), Absent>>

Answer(base, role) == [base |-> base, role |-> role]
TeamAnswer(yes, no, role) == [yes |-> yes, no |-> no, role |-> role]

MCAnswers == {Answer("write", "maintain"), Answer("read", "triage"), Answer("write", "read")}
MCTeamAnswers ==
    {TeamAnswer({"pull", "push"}, {"maintain"}, "custom"), TeamAnswer({"pull", "triage"}, {}, "triage")}

Access0 ==
    [repo |-> 1, closed |-> TRUE, team |-> TeamAnswer({"pull", "push"}, {"maintain"}, "custom"),
     members |-> {2, 3}, login |-> [u \in Users |-> u],
     answer |-> [u \in Users |-> Answer("write", "maintain")]]

NoBudget ==
    [push |-> 0, base |-> 0, tick |-> 0, approved |-> 0, commented |-> 0, dismissal |-> 0,
     change |-> 0, copy |-> 0, crash |-> 0, passport |-> 0]

\* The snapshot of a collection that found a.
Given(base, a) ==
    LET view == ViewOf(a, Plan(LoadPolicy(Places(base)).rules))
    IN  [repo |-> view.repo, base |-> base, users |-> view.users, teams |-> view.teams]

\* What a collection may have found: as now, a member or the team without
\* permission to review, a member under another name.
Variants ==
    {Access0, [Access0 EXCEPT !.answer[2] = Answer("read", "triage")],
     [Access0 EXCEPT !.team = TeamAnswer({"pull", "triage"}, {}, "triage")],
     [Access0 EXCEPT !.login[2] = 5]}

Webhooks ==
    /\ budget \in {[NoBudget EXCEPT !.tick = 1, !.approved = 2, !.dismissal = 1, !.crash = 1],
                  [NoBudget EXCEPT !.commented = 1, !.approved = 1, !.dismissal = 1, !.copy = 1]}
    /\ github.base = 1 /\ github.head = 3
    /\ collector = NotCollecting("done")
    /\ snapshot = {}

Collection ==
    /\ budget \in {[NoBudget EXCEPT !.change = 2],
                  [NoBudget EXCEPT !.base = 1, !.change = 1, !.crash = 1]}
    /\ github.base = 1 /\ github.head = 3
    /\ collector = NotCollecting("idle")
    /\ snapshot = {}

Gate ==
    /\ \/ /\ budget \in {[NoBudget EXCEPT !.push = 1, !.approved = 2, !.passport = 1],
                        [NoBudget EXCEPT !.base = 1, !.approved = 1, !.dismissal = 1, !.passport = 1]}
          /\ github.head \in {3, 4} /\ (github.base = 2 => github.head = 3)
       \/ /\ budget = [NoBudget EXCEPT !.push = 1, !.approved = 1, !.passport = 1]
          /\ github.head = 6 /\ github.base = 1
    /\ collector = NotCollecting("done")
    /\ \E a \in Variants :
          /\ snapshot = {Given(github.base, a)}
          /\ (github.base = 2 \/ github.head # 3 \/ budget.push = 0) => a = Access0

GateStart ==
    /\ github \in [base : Bases, head : Heads, clock : {1}, reviews : {{}}, dismissed : {{}},
                   events : {{}}]
    /\ access = Access0
    /\ file = [state |-> "absent"]
    /\ receiver = Idle
    /\ passport = Refused
    /\ check = Refused

-----------------------------------------------------------------------------
\* A behaviour is about the review or about the gate; the other rests.
Resting ==
    /\ budget = NoBudget
    /\ github.base = 1 /\ github.head = 3
    /\ collector = NotCollecting("done")
    /\ snapshot = {}

MCInit ==
    /\ GateStart
    /\ \/ Resting /\ ReviewInit
       \/ /\ Webhooks \/ Collection \/ Gate
          /\ stage = "none" /\ in = None /\ review = NoResult /\ delta = NoResult

MCNext ==
    \/ (Range0 \/ Delta) /\ UNCHANGED vars
    \/ stage = "none" /\ Next /\ UNCHANGED resumed

MCSpec == MCInit /\ [][MCNext]_<<vars, resumed>>

-----------------------------------------------------------------------------
\* What a path would hold if the reviewed change and the change of the base
\* were both applied to the old base, and nothing else.
Replayed(p) ==
    /\ \A t \in {in.base0, in.checkpoint, in.base1, in.head} : t[p] # None
    /\ in.head[p].blob = Merged(in.base0[p].blob, in.reviewed[p], in.upstream[p])
    /\ ~PatchesInteract(in.reviewed[p], in.upstream[p])

Shown == UNION {PathsOf(e.change) : e \in delta.entries} \cup delta.unresolved

\* A path that the delta does not show holds what the reviewer saw at the
\* checkpoint, or the reviewed change replayed on the new base, or was
\* touched by nobody in the pull request, neither then nor now.
NothingHidden ==
    stage = "done" =>
        \A p \in Paths \ Shown :
            \/ in.head[p] = in.checkpoint[p]
            \/ Replayed(p)
            \/ in.checkpoint[p] = in.base0[p] /\ in.head[p] = in.base1[p]

\* The delta that a resume writes passes the validation of whoever reads it:
\* every entry shows sources of the commits that its basis names.
DeltaValidates == stage = "done" => ValidDelta(in, delta)

\* The delta that a resume writes is accepted by its reader and hides nothing.
DeltaHolds == NothingHidden /\ DeltaValidates

\* Patches that do not interact commute: a replay that gets as far as being
\* applied fits both sources, gives the same bytes in both orders, and gives
\* what applying both patches to the old base gives.
ReplayCommutes ==
    stage = "delta" =>
        \A p \in Paths :
            (in.base0[p] # None /\ in.checkpoint[p] # None /\ in.base1[p] # None) =>
                LET r == Reconstruct(in.reviewed[p], in.upstream[p],
                                     in.checkpoint[p].blob, in.base1[p].blob)
                IN  IF r.ok
                    THEN r.baseline = Merged(in.base0[p].blob, in.reviewed[p], in.upstream[p])
                    ELSE r.reason \notin {"replay_failed", "replay_orders_mismatch"}

=============================================================================
