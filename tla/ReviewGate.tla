----------------------------- MODULE ReviewGate -----------------------------
(***************************************************************************)
(* The review coverage commands of the CLI around one pull request         *)
(* (src/src/main.rs): GitHub changes, its webhooks are ingested into a     *)
(* ledger file, an ownership snapshot is collected through the API, a      *)
(* passport is built from both and a check run from the passport.          *)
(*                                                                         *)
(* Every command is a process of its own: it reads files, works, and       *)
(* writes a file.  One command of a kind runs at a time.                   *)
(***************************************************************************)
EXTENDS Coverage

CONSTANTS
    Users,          \* identifiers of the people with a GitHub account
    Reviewers,      \* those of them who review
    Heads,          \* commits that may be pushed to the pull request
    Bases,          \* commits of the base branch, in their order
    Answers,        \* what GitHub may answer about a user's permission
    TeamAnswers     \* what GitHub may answer about the team's permission

ASSUME GateAssumption ==
    /\ Users \subseteq Nat /\ IsFiniteSet(Users)
    /\ \A b \in Bases : Plan(LoadPolicy(Places(b)).rules).users \subseteq Nat

VARIABLES
    github,     \* the pull request: base, head, clock, reviews, dismissed, events
    access,     \* what GitHub would answer about people and teams
    file,       \* the ledger file: absent, torn or a ledger
    receiver,   \* the ingesting command
    collector,  \* the collecting command
    snapshot,   \* the ownership snapshot file: a set of at most one snapshot
    passport,   \* the passport file
    check,      \* the check run payload
    budget      \* how often the surroundings may still act

vars == <<github, access, file, receiver, collector, snapshot, passport, check, budget>>

Spend(name) == budget[name] > 0 /\ budget' = [budget EXCEPT ![name] = budget[name] - 1]

-----------------------------------------------------------------------------
(* GitHub                                                                  *)

Emit(g, e) == [g EXCEPT !.events = g.events \cup {[n |-> Cardinality(g.events) + 1, e |-> e]}]

Push(c) ==
    /\ Spend("push")
    /\ c # github.head
    /\ github' = [Emit(github, [kind |-> "synchronize", before |-> github.head, after |-> c,
                                base |-> github.base]) EXCEPT !.head = c]
    /\ UNCHANGED <<access, file, receiver, collector, snapshot, passport, check>>

AdvanceBase(b) ==
    /\ Spend("base")
    /\ b > github.base
    /\ github' = [github EXCEPT !.base = b]
    /\ UNCHANGED <<access, file, receiver, collector, snapshot, passport, check>>

\* Timestamps have whole seconds; several reviews may share one.
Tick ==
    /\ Spend("tick")
    /\ github' = [github EXCEPT !.clock = github.clock + 1]
    /\ UNCHANGED <<access, file, receiver, collector, snapshot, passport, check>>

\* pull_request_review, submitted
Submitted(r) ==
    [kind |-> "submitted", review |-> r.review, reviewer |-> r.reviewer, login |-> r.login,
     state |-> r.state, commit |-> r.commit, at |-> r.at]

\* A review gets its identifier when it is started, not when it is submitted.
Submit(u, id, state) ==
    /\ Spend(state)
    /\ id \notin {r.review : r \in github.reviews}
    /\ LET r == [review |-> id, reviewer |-> u, login |-> access.login[u], state |-> state,
                 commit |-> github.head, at |-> github.clock]
       IN  github' = [Emit(github, Submitted(r)) EXCEPT
                        !.reviews = github.reviews \cup {r}]
    /\ UNCHANGED <<access, file, receiver, collector, snapshot, passport, check>>

\* The webhook may leave out the commit and the time of the dismissed review.
Dismiss(r, complete) ==
    /\ Spend("dismissal")
    /\ r.review \notin github.dismissed
    /\ r.state # "commented"
    /\ github' = [Emit(github, [kind |-> "dismissed", review |-> r.review, reviewer |-> r.reviewer,
                                login |-> r.login,
                                commit |-> IF complete THEN r.commit ELSE Null,
                                at |-> IF complete THEN r.at ELSE Null])
                  EXCEPT !.dismissed = github.dismissed \cup {r.review}]
    /\ UNCHANGED <<access, file, receiver, collector, snapshot, passport, check>>

Collecting == collector.pc \notin {"idle", "done", "failed"}

\* No two accounts have the same login.
Accesses ==
    {a \in [repo : Nat, closed : BOOLEAN, team : TeamAnswers, members : SUBSET Users,
            login : [Users -> Nat], answer : [Users -> Answers]] :
        \A u, v \in Users : a.login[u] = a.login[v] => u = v}

\* One fact about people or teams changes.
Turn(fact, next) ==
    /\ Spend("change")
    /\ next # access
    /\ access' = next
    /\ collector' = IF Collecting
                    THEN [collector EXCEPT !.changed = collector.changed \o <<fact>>]
                    ELSE collector
    /\ UNCHANGED <<github, file, receiver, snapshot, passport, check>>

ChangeAccess ==
    \/ \E a \in TeamAnswers : Turn(<<"team", 0>>, [access EXCEPT !.team = a])
    \/ \E u \in Users : Turn(<<"members", 0>>,
                             [access EXCEPT !.members = SymDiff(access.members, {u})])
    \/ \E u \in Users, a \in Answers : Turn(<<"user", u>>, [access EXCEPT !.answer[u] = a])
    \/ \E u \in Users :
          LET name == access.login[u] + Cardinality(Users)
          IN  /\ \A v \in Users : access.login[v] # name
              /\ Turn(<<"login", u>>, [access EXCEPT !.login[u] = name])
    \/ Turn(<<"closed", 0>>, [access EXCEPT !.closed = ~access.closed])
    \/ Turn(<<"repo", 0>>, [access EXCEPT !.repo = access.repo + 1])

-----------------------------------------------------------------------------
(* github-ledger-ingest                                                    *)

Idle == [pc |-> "idle"]

\* An event may arrive late, twice, and under a second delivery identifier.
Ingest(n, e, copy) ==
    LET old == IF file.state = "absent" THEN EmptyLedger ELSE file.ledger
        new == IngestGithubWebhook(old, <<n, copy>>, e)
    IN  /\ receiver = Idle
        /\ file.state # "torn"
        /\ new.ok
        /\ receiver' = [pc |-> "write", ledger |-> new.ledger]
        /\ UNCHANGED <<github, access, file, collector, snapshot, passport, check>>

\* std::fs::write truncates the file before it writes.
Truncate ==
    /\ receiver.pc = "write"
    /\ receiver' = [receiver EXCEPT !.pc = "fill"]
    /\ file' = [state |-> "torn"]
    /\ UNCHANGED <<github, access, collector, snapshot, passport, check, budget>>

Fill ==
    /\ receiver.pc = "fill"
    /\ receiver' = Idle
    /\ file' = [state |-> "ledger", ledger |-> receiver.ledger]
    /\ UNCHANGED <<github, access, collector, snapshot, passport, check, budget>>

Crash ==
    /\ Spend("crash")
    /\ receiver # Idle
    /\ receiver' = Idle
    /\ UNCHANGED <<github, access, file, collector, snapshot, passport, check>>

-----------------------------------------------------------------------------
(* github-ownership-collect                                                *)

Nothing == [repo |-> 0, teams |-> {}, rows |-> {}, users |-> {}]

NotCollecting(pc) ==
    [pc |-> pc, plan |-> [ok |-> FALSE], base |-> 0, obs |-> Nothing, first |-> {}, page |-> 1,
     pending |-> {}, requests |-> 0, changed |-> <<>>, truth |-> {}]

Fail == NotCollecting("failed")

\* collect_github_ownership_snapshot up to the first request.
StartCollection ==
    LET policy == LoadPolicy(Places(github.base))
        plan   == Plan(policy.rules)
    IN  /\ collector.pc = "idle"
        /\ collector' =
             IF policy.ok /\ plan.ok /\ MinimumRequests(plan) <= MaxRequests
             THEN [NotCollecting("repo") EXCEPT !.plan = plan, !.base = github.base]
             ELSE Fail
        /\ UNCHANGED <<github, access, file, receiver, snapshot, passport, check, budget>>

\* ApiBudget::get for n requests whose answers lead to next.
Get(pc, n, legal, next) ==
    /\ collector.pc = pc
    /\ collector' = IF legal /\ collector.requests + n <= MaxRequests
                    THEN [next EXCEPT !.requests = collector.requests + n] ELSE Fail
    /\ UNCHANGED <<github, access, file, receiver, snapshot, passport, check, budget>>

\* The repository and the base commit, which cannot change.
ReadRepo ==
    Get("repo", 2, TRUE,
        [collector EXCEPT !.obs = [Nothing EXCEPT !.repo = access.repo],
                          !.pending = collector.plan.users,
                          !.pc = IF collector.plan.teams = {} THEN "users" ELSE "team"])

ReadTeam == Get("team", 1, access.closed, [collector EXCEPT !.pc = "team_repo"])

\* The repository as the team sees it, which must be the one read before.
ReadTeamRepo ==
    LET perm == PermissionFromBits(access.team.yes, access.team.no, access.team.role)
    IN  Get("team_repo", 1, access.repo = collector.obs.repo /\ perm # {},
            [collector EXCEPT
                !.obs.teams = {[slug |-> t, closed |-> TRUE, perm |-> CHOOSE p \in perm : TRUE,
                                members |-> {}] : t \in collector.plan.teams},
                !.pc = "members", !.page = 1])

\* One page of get_paginated, and the checks of its members.
ReadMembersPage ==
    LET ids  == MembersPage(access, collector.page)
        rows == {[id |-> i, login |-> access.login[i]] : i \in ids}
        all  == collector.obs.rows \cup rows
        last == Cardinality(ids) < PageSize
    IN  Get("members", 1,
            /\ ids \cap {r.id : r \in collector.obs.rows} = {}
            /\ Cardinality(all) <= MaxMembers
            /\ \A r, q \in all : r.login = q.login => r = q,
            [collector EXCEPT
                !.obs.rows = all,
                !.obs.teams = {[t EXCEPT !.members = {r.id : r \in all}] : t \in collector.obs.teams},
                !.pending = IF last THEN collector.pending \cup {r.login : r \in all}
                            ELSE collector.pending,
                !.page = collector.page + 1,
                !.pc = IF last THEN "users" ELSE "members"])

\* The account of a login and its permission, if the answer makes sense.
Accounts(a, login) ==
    {u \in [id : Users, login : {login}, perm : Standard] :
        a.login[u.id] = login /\ u.perm \in PermissionFromUser(a.answer[u.id])}

\* The permission of the next login.
ReadUser ==
    LET login == Min(collector.pending)
        found == Accounts(access, login)
        ids   == {u.id : u \in found}
        row   == {r \in collector.obs.rows : r.login = login}
    IN  /\ collector.pending # {}
        /\ Get("users", 1,
               /\ found # {}
               /\ {r.id : r \in row} \subseteq ids
               /\ ids \cap {u.id : u \in collector.obs.users} = {},
               [collector EXCEPT !.pending = collector.pending \ {login},
                                 !.obs.users = collector.obs.users \cup found])

Snapshot(c) ==
    [repo |-> c.obs.repo, base |-> c.base, users |-> c.obs.users, teams |-> c.obs.teams]

\* Mutant: the second observation is not compared with the first.
NewestObservation(c) == {Snapshot(c)}

\* What two equal observations amount to.
Agreed(c) == IF c.first = {Snapshot(c)} THEN {Snapshot(c)} ELSE {}

\* The repository and the commit once more.  The second observation must fit
\* the request budget, agree with the first, and is then written atomically.
ReadFinal ==
    /\ collector.pending = {}
    /\ collector.pc = "users"
    /\ LET spent == collector.requests + 2
           legal == /\ spent <= MaxRequests
                    /\ access.repo = collector.obs.repo
                    /\ ValidSnapshot(Snapshot(collector))
       IN  \/ /\ collector.first = {}
              /\ collector' = IF legal /\ spent <= MaxRequests \div 2
                              THEN [collector EXCEPT !.pc = "repo", !.first = {Snapshot(collector)},
                                                     !.requests = spent, !.truth = {access}]
                              ELSE Fail
              /\ UNCHANGED snapshot
           \/ /\ collector.first # {}
              /\ legal /\ Agreed(collector) # {}
              /\ snapshot' = Agreed(collector)
              /\ collector' = [collector EXCEPT !.pc = "done"]
           \/ /\ collector.first # {}
              /\ ~(legal /\ Agreed(collector) # {})
              /\ collector' = Fail
              /\ UNCHANGED snapshot
    /\ UNCHANGED <<github, access, file, receiver, passport, check, budget>>

\* A request fails, or the command is killed.
CollectionFails ==
    /\ Collecting
    /\ Spend("crash")
    /\ collector' = Fail
    /\ UNCHANGED <<github, access, file, receiver, snapshot, passport, check>>

-----------------------------------------------------------------------------
(* review-coverage and github-check-run                                    *)

BuildPassport ==
    /\ file.state = "ledger"
    /\ Spend("passport")
    /\ \E s \in snapshot :
          LET body == CoverageBody(github.base, github.head, file.ledger, s)
          IN  body.ok /\ passport' = body
    /\ UNCHANGED <<github, access, file, receiver, collector, snapshot, check>>

BuildCheckRun ==
    /\ passport.ok /\ ~check.ok
    /\ LET payload == CheckRunPayload(passport, github.base, github.head)
       IN  payload.ok /\ check' = payload
    /\ UNCHANGED <<github, access, file, receiver, collector, snapshot, passport, budget>>

-----------------------------------------------------------------------------
Init ==
    /\ github \in [base : Bases, head : Heads, clock : {1}, reviews : {{}}, dismissed : {{}},
                   events : {{}}]
    /\ access \in Accesses
    /\ file = [state |-> "absent"]
    /\ receiver = Idle
    /\ collector = NotCollecting("idle")
    /\ snapshot = {}
    /\ passport = Refused
    /\ check = Refused

Next ==
    \/ \E c \in Heads : Push(c)
    \/ \E b \in Bases : AdvanceBase(b)
    \/ Tick
    \/ \E u \in Reviewers, id \in 1..MaxLedgerReviews, s \in {"approved", "commented"} : Submit(u, id, s)
    \/ \E r \in github.reviews, complete \in BOOLEAN : Dismiss(r, complete)
    \/ ChangeAccess
    \/ \E ev \in github.events :
          \/ Ingest(ev.n, ev.e, 1) /\ UNCHANGED budget
          \/ Ingest(ev.n, ev.e, 2) /\ Spend("copy")
    \/ Truncate \/ Fill \/ Crash
    \/ StartCollection \/ ReadRepo \/ ReadTeam \/ ReadTeamRepo \/ ReadMembersPage \/ ReadUser
    \/ ReadFinal \/ CollectionFails
    \/ BuildPassport \/ BuildCheckRun

Spec == Init /\ [][Next]_vars

-----------------------------------------------------------------------------
(* Properties                                                              *)

Payloads(ledger) == {d.payload : d \in ledger.deliveries}

Order(r) == <<r.at, r.review, 0>>

\* Once the dismissal of a review is in the ledger, no receipt of that
\* reviewer up to the dismissed review is active, in whatever order the
\* webhooks arrive and whatever the dismissal leaves out.
TombstonesHold ==
    file.state = "ledger" =>
        \A e \in {f \in Payloads(file.ledger) : f.kind = "dismissed"} :
            \A a \in ActiveReceipts(file.ledger), r \in github.reviews :
                a.reviewer = e.reviewer /\ r.review = e.review => Before(Order(r), Order(a))

\* When every webhook has been ingested, in any order and however often, the
\* active receipts are each reviewer's latest completed review, if that has
\* not been dismissed.
ReceiptsSettle ==
    (file.state = "ledger" /\ {ev.e : ev \in github.events} \subseteq Payloads(file.ledger)) =>
        LET completed == {r \in github.reviews : r.state # "commented"}
            latest == {r \in completed : \A q \in completed :
                          q.reviewer = r.reviewer => ~Before(Order(r), Order(q))}
        IN  {a.review : a \in ActiveReceipts(file.ledger)}
              = {r.review : r \in latest} \ github.dismissed

\* However the webhooks are reordered, repeated and cut short, the active
\* receipts never contradict what the ledger has heard of, and they are the
\* right ones once it has heard of everything.
ReceiptsHold == TombstonesHold /\ ReceiptsSettle

\* What a collection at one instant would have found.
ViewOf(a, plan) ==
    LET team  == PermissionFromBits(a.team.yes, a.team.no, a.team.role)
        names == plan.users \cup {a.login[u] : u \in IF plan.teams = {} THEN {} ELSE a.members}
    IN  [repo  |-> a.repo,
         users |-> {[id |-> u, login |-> a.login[u],
                     perm |-> CHOOSE p \in PermissionFromUser(a.answer[u]) : TRUE] :
                        u \in {v \in Users : a.login[v] \in names}},
         teams |-> {[slug |-> t, closed |-> TRUE, perm |-> CHOOSE p \in team : TRUE,
                     members |-> a.members] : t \in plan.teams}]

\* A snapshot is what GitHub would have answered at one instant, although it
\* was read piece by piece: true unless a fact changed and changed again
\* while it was collected.
SnapshotWasReal ==
    (collector.pc = "done" /\ \A i, j \in DOMAIN collector.changed :
                                  collector.changed[i] = collector.changed[j] => i = j) =>
        \A s \in snapshot, a \in collector.truth :
            [repo |-> s.repo, users |-> s.users, teams |-> s.teams] = ViewOf(a, collector.plan)

\* Who a reader of CODEOWNERS would take for an owner of a path.
Owner(u, p) ==
    LET s == passport.snapshot
    IN  \E rule \in MatchingRule(LoadPolicy(Places(passport.base)).rules, p), me \in s.users :
            /\ me.id = u /\ PermitsReview(me.perm)
            /\ \/ User(me.login) \in rule.owners
               \/ \E t \in s.teams : Team(t.slug) \in rule.owners /\ u \in t.members
                                     /\ PermitsReview(t.perm)

\* What the reviewer of a commit has seen of a path is there now, or is
\* what their review becomes on the new base.
Saw(c, p) ==
    LET in == Input(passport.base, passport.head, c)
    IN  \/ in.head[p] = in.checkpoint[p]
        \/ /\ \A t \in {in.base0, in.checkpoint, in.base1, in.head} : t[p] # None
           /\ ~PatchesInteract(in.reviewed[p], in.upstream[p])
           /\ in.head[p].blob = Merged(in.base0[p].blob, in.reviewed[p], in.upstream[p])

\* A file that was only moved, from a path that is empty now to q.
MovedTo(old, new, p, q) ==
    old[p] # None /\ new[p] = None /\ old[q] = None /\ new[q] = old[p]

\* A successful check run was earned: an owner of every changed path has
\* submitted a review, not dismissed as far as the ledger knows, that saw the
\* path as it is, and what somebody reviewed and the pull request has since
\* taken back was seen by an owner, or never there for that owner.  For a file
\* that was only moved the owner of the place it is in now answers alone
\* (ownership_path), and has seen both places.
GateIsEarned ==
    (check.ok /\ check.conclusion = "success") =>
        LET fork == Tree[MergeBase(passport.base, passport.head)]
            now  == Tree[passport.head]
            heard == Payloads(passport.ledger)
            counts(r) == /\ \E e \in heard : e.kind = "submitted" /\ e.review = r.review
                         /\ ~\E e \in heard : e.kind = "dismissed" /\ e.review = r.review
                         /\ r.state # "commented"
            forkOf(r) == Tree[MergeBase(passport.base, r.commit)]
            saw(r, p) == Saw(r.commit, p)
            free(r, p) == saw(r, p) \/ forkOf(r)[p] = Tree[r.commit][p]
            Vouched(p, seen(_)) ==
                \E r \in github.reviews : counts(r) /\ Owner(r.reviewer, p) /\ seen(r)
        IN  \A p \in Paths :
                /\ fork[p] # now[p] =>
                       \/ Vouched(p, LAMBDA r : saw(r, p))
                       \/ \E to \in Paths : /\ MovedTo(fork, now, p, to)
                                           /\ Vouched(to, LAMBDA r : saw(r, p) /\ saw(r, to))
                /\ \A q \in ActiveReceipts(passport.ledger) :
                       (fork[p] = now[p] /\ forkOf(q)[p] # Tree[q.commit][p] /\ ~saw(q, p)) =>
                           \/ Vouched(p, LAMBDA r : free(r, p))
                           \/ \E to \in Paths :
                                  /\ MovedTo(Tree[q.commit], now, p, to)
                                  /\ Vouched(to, LAMBDA r : free(r, p) /\ free(r, to))

=============================================================================
