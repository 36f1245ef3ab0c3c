----------------------------- MODULE MCGovernor -----------------------------
(***************************************************************************)
(* GovernorWorker on small instances.  A scope says which part of the work *)
(* is looked at (what happens, which items are taken up, how far the pull  *)
(* request got before; the start states are reachable, they only save TLC  *)
(* the way there).                                                         *)
(***************************************************************************)
EXTENDS GovernorWorker, TLC

In(kind, at, valid, verdict) ==
    [kind |-> kind, source |-> 1, created |-> 1, at |-> at, valid |-> valid,
     authentic |-> TRUE, verdict |-> verdict]

Positive == {In("status", 1, TRUE, "complete"), In("review", 1, TRUE, "complete"),
             In("issue_comment", 1, TRUE, "complete")}

Dismissal == In("review", 1, FALSE, "complete")

OnlyReview == {In("review", 1, TRUE, "complete")}
AllInputs == Positive \cup {Dismissal}

MCEvents ==
    [dispatch |-> {"draft", "pull", "malformed"},
     evaluate |-> {"head", "draft", "close", "pull", "evidence", "push"},
     publish  |-> {"draft", "pull", "malformed", "deadline"},
     conform  |-> {"draft", "pull", "evidence", "push", "malformed", "unscoped", "deadline"},
     again    |-> {"draft", "close", "pull"},
     adopt    |-> {"evidence"},
     settle   |-> {"deadline"},
     withdraw |-> {"evidence"}]

MCServed ==
    [dispatch |-> {"dispatch"},
     evaluate |-> {"evaluate", "reconcile"},
     publish  |-> {"publish"},
     conform  |-> {"dispatch", "evaluate", "timeout", "publish", "reconcile"},
     again    |-> {"evaluate"},
     adopt    |-> {"dispatch", "evaluate"},
     settle   |-> {"evaluate", "timeout", "publish"},
     withdraw |-> {"publish"}]

Allow(f) == f @@ [d \in {"change", "webhook", "expiry", "crash", "error"} |-> 0]

MCBudget ==
    [dispatch |-> Allow([change |-> 1, webhook |-> 1, expiry |-> 1, crash |-> 1, error |-> 1]),
     evaluate |-> Allow([change |-> 1, webhook |-> 1, expiry |-> 1]),
     publish  |-> Allow([change |-> 1, webhook |-> 1, expiry |-> 1]),
     conform  |-> Allow([change |-> 1, webhook |-> 1]),
     again    |-> Allow([change |-> 4, webhook |-> 2]),
     adopt    |-> Allow([webhook |-> 1]),
     settle   |-> Allow([crash |-> 1, error |-> 1]),
     withdraw |-> Allow([webhook |-> 1])]

\* How far the pull request got, and the bounds on the fence of a pair and on
\* the revision of a gate.
Start ==
    [dispatch |-> {"opened"}, evaluate |-> {"reviewed"}, publish |-> {"decided"},
     conform |-> {"new", "decided"}, again |-> {"reviewed"}, adopt |-> {"posted"},
     settle |-> {"reviewed"}, withdraw |-> {"decided"}]

MaxFence ==
    [dispatch |-> 4, evaluate |-> 11, publish |-> 14, conform |-> 11, again |-> 11,
     adopt |-> 10, settle |-> 20, withdraw |-> 14]

MaxRevision ==
    [dispatch |-> 4, evaluate |-> 11, publish |-> 11, conform |-> 11, again |-> 11,
     adopt |-> 10, settle |-> 20, withdraw |-> 12]

-----------------------------------------------------------------------------
(* Start states.                                                           *)

Queue(todo, done) ==
    {NewItem(k) : k \in todo} \cup {[NewItem(k) EXCEPT !.done = TRUE] : k \in done}

\* The pull request p has gate g in epoch 1.
Opened(p, g, row, d, rows, gateRow, queue, posted, shown) ==
    /\ pair = [q \in PairId |-> IF q = p THEN row ELSE NoPair]
    /\ gate = [h \in GateId |-> IF h = g THEN gateRow ELSE NoGate]
    /\ dispatch = [e \in EpochId |-> IF e = <<p, 1>> THEN d ELSE NoDispatch]
    /\ evidence = [e \in EpochId |-> IF e = <<p, 1>> THEN rows ELSE {}]
    /\ outbox = queue
    /\ generation = 1
    /\ live = [n \in {p.pull} |-> [pair |-> p, draft |-> FALSE, state |-> "open",
                                   at |-> 0]]
    /\ past = {live[p.pull]}
    /\ comments = posted
    /\ runs = shown
    /\ worker = [w \in Workers |-> Idle]
    /\ left = Budget[scope]

OpenRow(fence) == [NoPair EXCEPT !.epoch = 1, !.fence = fence, !.active = TRUE,
                                 !.state = "open"]

Sent == [NoDispatch EXCEPT !.state = "sent", !.comment = 1]

Command(p) == <<[pull |-> p.pull, at |-> 0, by |-> <<p, 1>>]>>

\* A gate that reached a revision without being published.
Decided(row, revision, desired) ==
    [row EXCEPT !.revision = revision, !.fence = revision - 1, !.desired = desired]

\* The items that are done by then: the odd revisions asked for evaluations.
History(p, g, revision) ==
    {<<"dispatch", p, 1>>} \cup {<<"publish", g, r>> : r \in 1 .. revision}
        \cup {Evaluation(p, 1, r) : r \in {k \in 1 .. revision : k % 2 = 1}}

StartAt(p) ==
    LET g == [key |-> p.pull, epoch |-> 1]
        new == NewGate(p, p.head, TRUE, "revoked")
    IN  \/ /\ "opened" \in Start[scope] /\ clock = 0
           /\ Opened(p, g, OpenRow(0), NoDispatch, {}, new,
                     Queue({<<"publish", g, 1>>} \cup PairWork(p, 1, 1), {}), <<>>, <<>>)
        \* The command was posted and its response lost; two of three records came
        \* and were evaluated, each at once, before a retry finds the comment.
        \/ /\ "posted" \in Start[scope] /\ clock = 1
           /\ Opened(p, g, OpenRow(6), [NoDispatch EXCEPT !.state = "attempting"],
                     {i \in Positive : i.kind # "review"}, Decided(new, 6, "pending"),
                     Queue({<<"publish", g, 6>>, <<"dispatch", p, 1>>},
                           History(p, g, 5) \ {<<"dispatch", p, 1>>}), Command(p), <<>>)
        \* The command was posted and adopted, publications that nobody took up in
        \* time ended as history, and the evidence came, each record but the last
        \* evaluated at once.
        \/ /\ "reviewed" \in Start[scope] /\ clock = 1
           /\ Opened(p, g, OpenRow(7), Sent, Positive, Decided(new, 7, "revoked"),
                     Queue({<<"publish", g, 7>>, Evaluation(p, 1, 7), <<"timeout", p, 1>>},
                           History(p, g, 6)), Command(p), <<>>)
        \* ... and the last evaluation decided for success.
        \/ /\ "decided" \in Start[scope] /\ clock = 1
           /\ Opened(p, g, OpenRow(8), Sent, Positive, Decided(new, 8, "success"),
                     Queue({<<"publish", g, 8>>, <<"timeout", p, 1>>},
                           History(p, g, 7)), Command(p), <<>>)

MCInit ==
    /\ scope \in Scopes
    /\ ("new" \in Start[scope] /\ Init) \/ \E p \in PairId : StartAt(p)

-----------------------------------------------------------------------------
\* The bounds (an ACTION_CONSTRAINT).
Bounded ==
    /\ \A p \in PairId : pair'[p].fence <= MaxFence[scope]
    /\ \A g \in GateId : gate'[g].revision <= MaxRevision[scope]

MCSpec == MCInit /\ [][Next]_vars

MCFairSpec == MCSpec /\ Fairness

Symmetry == Permutations(Workers) \cup Permutations(Heads)
=============================================================================
