------------------------------ MODULE MCResume ------------------------------
(***************************************************************************)
(* Four scenarios around one reviewer.  An inbox of two pull requests is   *)
(* collected while they change; sessions resume from an event; two         *)
(* sessions and a foreign process share a repository; and a session of its *)
(* own repository meets every shape of a small history.                    *)
(***************************************************************************)
EXTENDS Resume

\* A history with one root: 4 and 5 merge 2 and 3 criss-cross, so
\* that they have two merge bases; 6 is 4 with one commit more.
MCParents == <<{}, {1}, {1}, {2, 3}, {2, 3}, {4}>>

NoBudget ==
    [push |-> 0, base |-> 0, submit |-> 0, dismiss |-> 0, ask |-> 0, withdraw |-> 0, close |-> 0,
     fail |-> 0, signal |-> 0, kill |-> 0, fetch |-> 0, move |-> 0]

Review(id, state, commit, at) == [id |-> id, state |-> state, commit |-> commit, at |-> at]

Pull(base, head, reviews, requested) ==
    [open |-> TRUE, base |-> base, head |-> head, updated |-> 1, reviews |-> reviews, others |-> 1,
     requested |-> requested]

\* Two reviews of one second.
TwoReviews == <<Review(1, "approved", 3, 1), Review(2, "approved", 2, 1)>>
OneReview == <<Review(1, "changes_requested", 2, 1)>>

Still == [open |-> FALSE, base |-> 1, head |-> None, updated |-> 1, reviews |-> <<>>, others |-> 0,
          requested |-> FALSE]

Done == [NoInbox EXCEPT !.pc = "done"]
Repository(objects, keeps) ==
    [r \in Sessions \cup {Shared} |->
        IF r = Shared THEN [EmptyRepo EXCEPT !.objects = objects, !.keeps = keeps] ELSE EmptyRepo]

NobodyElse == [pack |-> None, dead |-> {}, moved |-> {}]

Collecting ==
    /\ budget \in {[NoBudget EXCEPT !.push = 1, !.submit = 1, !.ask = 1],
                   [NoBudget EXCEPT !.dismiss = 1, !.submit = 1, !.close = 1],
                   [NoBudget EXCEPT !.base = 1, !.withdraw = 1],
                   [NoBudget EXCEPT !.dismiss = 2]}
    /\ github = <<[p \in Pulls |-> IF p = 1 THEN Pull(1, 4, TwoReviews, TRUE)
                                   ELSE Pull(2, 2, OneReview, FALSE)]>>
    /\ inbox = NoInbox
    /\ session = [s \in Sessions |-> NoSession]
    /\ repo = Repository(1..6, <<>>)
    /\ foreign = NobodyElse

\* The item of pull request 1 was found earlier.
Found(requested) == Item(1, FirstPage(Pull(1, 4, OneReview, requested)))

Started(mode) ==
    [NoSession EXCEPT !.pc = "first", !.mode = mode, !.pull = 1, !.attempt = "invoked"]

\* A session that has its commits.  Since its event was found a review has
\* been requested.
Prepared ==
    [Started("local") EXCEPT !.pc = "latest", !.event = Found(FALSE).event, !.base = 1, !.head = 4,
                             !.checkpoint = OneReview[1], !.i = 4]

Resuming ==
    /\ \/ /\ budget \in {[NoBudget EXCEPT !.submit = 1, !.ask = 1, !.withdraw = 1],
                          [NoBudget EXCEPT !.push = 1, !.close = 1, !.dismiss = 1, !.base = 1]}
          /\ session = [s \in Sessions |-> NoSession]
          /\ inbox = [Done EXCEPT !.items = <<Found(TRUE)>>, !.since = 1]
       \/ /\ budget \in {[NoBudget EXCEPT !.submit = 2, !.ask = 1, !.dismiss = 1],
                          [NoBudget EXCEPT !.push = 2, !.ask = 1, !.withdraw = 1]}
          /\ session = [s \in Sessions |-> IF s = 1 THEN Prepared ELSE NoSession]
          /\ inbox = Done
    /\ github = <<[p \in Pulls |-> IF p = 1 THEN Pull(1, 4, OneReview, TRUE) ELSE Still]>>
    /\ repo = Repository(1..6, <<>>)
    /\ foreign = NobodyElse

Sharing ==
    /\ budget \in {[NoBudget EXCEPT !.fail = 1, !.signal = 1],
                   [NoBudget EXCEPT !.fail = 1, !.signal = 1, !.fetch = 1],
                   [NoBudget EXCEPT !.fail = 1, !.move = 1, !.kill = 1]}
    /\ github = <<[p \in Pulls |-> IF p = 1 THEN Pull(1, 4, OneReview, FALSE) ELSE Still]>>
    /\ inbox = Done
    /\ session \in [Sessions -> {NoSession, Started("local")}]
    /\ session[1] # NoSession
    /\ \/ repo = Repository({1, 2}, <<>>) /\ foreign = NobodyElse
       \/ /\ session[2] = NoSession
          /\ repo = Repository({1}, 4 :> [pid |-> 1, by |-> 0])
          /\ foreign = [NobodyElse EXCEPT !.dead = {4}]

Alone ==
    /\ budget = [NoBudget EXCEPT !.fail = 1, !.signal = 1]
    /\ \E base, head, commit \in 1..6 :
         github = <<[p \in Pulls |-> IF p = 1 THEN Pull(base, head, <<Review(1, "approved", commit, 1)>>, FALSE)
                                     ELSE Still]>>
    /\ inbox = Done
    /\ session = [s \in Sessions |-> IF s = 1 THEN Started("ephemeral") ELSE NoSession]
    /\ repo = Repository({}, <<>>)
    /\ foreign = NobodyElse

MCInit == clock = 1 /\ (Collecting \/ Resuming \/ Sharing \/ Alone)

\* Sessions are started from the event that was found; the others have
\* started at the beginning.
MCNext ==
    \/ InboxStep
    \/ \E k \in DOMAIN inbox.items : inbox.items[k].event # None /\ session[2] = NoSession /\ inbox.calls = 0
            /\ Start(1, "local", inbox.items[k].pull, inbox.items[k].event)
    \/ \E s \in Sessions : SessionStep(s)
    \/ GithubStep
    \/ RepositoryStep

MCSpec == MCInit /\ [][MCNext]_vars

=============================================================================
