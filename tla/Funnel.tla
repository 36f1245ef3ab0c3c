------------------------------- MODULE Funnel -------------------------------
(***************************************************************************)
(* The local value log of src/src/value_funnel.rs: its events, the rules a *)
(* log obeys, and the report that is computed from it.                     *)
(*                                                                         *)
(* A log is a sequence of events.  The digest chain is not spelled out:    *)
(* SHA-256 is taken to be injective, so the digest of an event stands for  *)
(* the prefix of the log that ends with it, and the sequence numbers and   *)
(* previous digests that verify_log_bytes compares are positions.          *)
(***************************************************************************)
EXTENDS Integers, Sequences, FiniteSets

CONSTANTS
    Ids,            \* the random identifiers of scans and of attempts
    Transitions,    \* transition identifiers
    MaxEvents,      \* MAX_EVENTS
    MaxCandidates,  \* MAX_BASELINE_CANDIDATES
    None

ASSUME FunnelAssumption ==
    /\ MaxEvents \in Nat
    /\ MaxCandidates \in Nat
    /\ None \notin Ids \cup Transitions

Kinds == {"baseline", "gap_discovery", "inbox_delivery", "resume_invoked",
          "transition_bound", "covered_transition", "workbench_ready",
          "attempt_failed"}

Stages == {"before_transition_bound", "before_coverage",
           "before_workbench_ready", "after_workbench_ready"}

\* FunnelEvent.  id is the scan of the first three kinds and the attempt of
\* the others; completed belongs to a baseline, stage to a failure.
Event == [kind : Kinds, id : Ids, transition : Transitions \cup {None},
          completed : Nat, stage : Stages \cup {None}]

NewEvent(kind, id, transition) ==
    [kind |-> kind, id |-> id, transition |-> transition, completed |-> 0,
     stage |-> None]

\* event_kind and business_key: what makes two events the same event.
EventId(e) ==
    IF e.kind = "gap_discovery" THEN <<e.kind, e.id, e.transition>>
                                ELSE <<e.kind, e.id>>

EventIds(log) == {EventId(log[i]) : i \in DOMAIN log}

\* validate_payload
PayloadOK(e) ==
    /\ e.kind = "baseline" => e.completed <= MaxCandidates
    /\ e.kind \notin {"baseline", "inbox_delivery"} => e.transition # None

-----------------------------------------------------------------------------
(* FunnelValidationState, read off the events that built it.               *)

Recorded(log, kind, id) == \E i \in DOMAIN log : log[i].kind = kind /\ log[i].id = id

\* has_attempt and attempt_mut: the attempt is known under this transition.
HasAttempt(log, kind, id, transition) ==
    \E i \in DOMAIN log : /\ log[i].kind = kind
                          /\ log[i].id = id
                          /\ log[i].transition = transition

GapCount(log, scan) ==
    Cardinality({i \in DOMAIN log : log[i].kind = "gap_discovery" /\ log[i].id = scan})

DiscoveredGaps(log) ==
    {log[i].transition : i \in {j \in DOMAIN log : log[j].kind = "gap_discovery"}}

FailureStage(log, attempt) ==
    IF Recorded(log, "workbench_ready", attempt) THEN "after_workbench_ready"
    ELSE IF Recorded(log, "covered_transition", attempt) THEN "before_workbench_ready"
    ELSE IF Recorded(log, "transition_bound", attempt) THEN "before_coverage"
    ELSE "before_transition_bound"

\* What an event of an attempt needs before it.
Prerequisite(kind) ==
    CASE kind = "covered_transition" -> "transition_bound"
      [] kind = "workbench_ready"    -> "covered_transition"
      [] OTHER                       -> "resume_invoked"

\* A resume invocation names a gap that some scan discovered.
KnownGap(log, transition) == transition \in DiscoveredGaps(log)

\* FunnelValidationState::apply accepts e after the events of log.
Accepts(log, e) ==
    CASE e.kind = "baseline" -> ~Recorded(log, "baseline", e.id)
      [] e.kind = "gap_discovery" ->
            /\ ~Recorded(log, "inbox_delivery", e.id)
            /\ \E i \in DOMAIN log : /\ log[i].kind = "baseline"
                                     /\ log[i].id = e.id
                                     /\ GapCount(log, e.id) < log[i].completed
      [] e.kind = "inbox_delivery" ->
            /\ Recorded(log, "baseline", e.id)
            /\ ~Recorded(log, "inbox_delivery", e.id)
      [] e.kind = "resume_invoked" ->
            /\ KnownGap(log, e.transition)
            /\ ~Recorded(log, "resume_invoked", e.id)
      [] e.kind = "attempt_failed" ->
            /\ HasAttempt(log, "resume_invoked", e.id, e.transition)
            /\ e.stage = FailureStage(log, e.id)
      [] OTHER ->
            /\ HasAttempt(log, "resume_invoked", e.id, e.transition)
            /\ HasAttempt(log, Prerequisite(e.kind), e.id, e.transition)
            /\ ~Recorded(log, "attempt_failed", e.id)

\* validate_event: the event fits at the end of this prefix.
ValidEvent(prefix, e) ==
    /\ PayloadOK(e)
    /\ EventId(e) \notin EventIds(prefix)
    /\ Accepts(prefix, e)

\* verify_log_bytes
Verifies(log) ==
    /\ Len(log) <= MaxEvents
    /\ \A i \in DOMAIN log : ValidEvent(SubSeq(log, 1, i - 1), log[i])

-----------------------------------------------------------------------------
(* append_events_locked: what a batch adds to the log that was read.  A    *)
(* batch holds an event once.                                              *)

\* The positions in the batch of the events that the log does not have.
New(log, batch) == {j \in DOMAIN batch : EventId(batch[j]) \notin EventIds(log)}

\* The member of a set of positions that has k - 1 others before it.
Nth(positions, k) ==
    CHOOSE j \in positions : Cardinality({i \in positions : i <= j}) = k

Fresh(log, batch) ==
    LET new == New(log, batch)
    IN  [k \in 1 .. Cardinality(new) |-> batch[Nth(new, k)]]

\* A retry that disagrees with what was recorded is refused.
Conflicts(log, batch) ==
    \E i \in DOMAIN log, j \in DOMAIN batch :
        EventId(log[i]) = EventId(batch[j]) /\ log[i] # batch[j]

\* Mutant: the bound is tested before the event is pushed.
AppendableOffByOne(log, batch) ==
    /\ ~Conflicts(log, batch)
    /\ LET new == log \o Fresh(log, batch)
       IN  /\ Len(new) <= MaxEvents + 1
           /\ \A i \in DOMAIN new : ValidEvent(SubSeq(new, 1, i - 1), new[i])

Appendable(log, batch) ==
    /\ ~Conflicts(log, batch)
    /\ Verifies(log \o Fresh(log, batch))

-----------------------------------------------------------------------------
(* build_report                                                            *)

EventsOf(log, kind) == {log[i] : i \in {j \in DOMAIN log : log[j].kind = kind}}

IdsOf(log, kind) == {e.id : e \in EventsOf(log, kind)}

TransitionsOf(log, kind) == {e.transition : e \in EventsOf(log, kind)}

\* The sets that build_report collects in one pass over the events.
Tally(log) ==
    [gaps     |-> TransitionsOf(log, "gap_discovery"),
     resumed  |-> TransitionsOf(log, "resume_invoked"),
     covered  |-> TransitionsOf(log, "covered_transition"),
     ready    |-> TransitionsOf(log, "workbench_ready"),
     attempts |-> IdsOf(log, "resume_invoked"),
     bound    |-> IdsOf(log, "transition_bound"),
     coveredAttempts |-> IdsOf(log, "covered_transition"),
     readyAttempts   |-> IdsOf(log, "workbench_ready"),
     failed   |-> IdsOf(log, "attempt_failed"),
     scans    |-> IdsOf(log, "baseline"),
     confirmed |-> IdsOf(log, "inbox_delivery")]

\* The ensure! and checked_sub of build_report: none of them may ever fire
\* for a log that verifies.
ReportConsistent(t) ==
    /\ t.resumed \subseteq t.gaps
    /\ t.covered \subseteq t.resumed
    /\ t.ready \subseteq t.covered
    /\ t.bound \subseteq t.attempts
    /\ t.coveredAttempts \subseteq t.bound
    /\ t.readyAttempts \subseteq t.coveredAttempts
    /\ t.failed \subseteq t.attempts
    /\ t.confirmed \subseteq t.scans

Delivered(log) ==
    {e.transition : e \in {g \in EventsOf(log, "gap_discovery") :
                              Recorded(log, "inbox_delivery", g.id)}}

\* rate: hundredths of a percent, rounded; undefined without a denominator.
Rate(numerator, denominator) ==
    IF denominator = 0 THEN None
    ELSE (numerator * 10000 + (denominator \div 2)) \div denominator

\* The rates from none to all.
Rates == 0 .. 10000

\* The numbers of the report that do not simply count one kind of event.
Report(log) ==
    LET t == Tally(log)
    IN  [unconfirmed |-> Cardinality(t.scans) - Cardinality(t.confirmed),
         unresolved  |-> Cardinality(t.attempts \ (t.readyAttempts \cup t.failed)),
         failures    |-> [s \in Stages |->
                            Cardinality({e \in EventsOf(log, "attempt_failed") : e.stage = s})],
         deliveredToResume |-> Rate(Cardinality(t.resumed \cap Delivered(log)),
                                    Cardinality(Delivered(log))),
         attemptToCovered  |-> Rate(Cardinality(t.coveredAttempts), Cardinality(t.attempts)),
         coveredToReady    |-> Rate(Cardinality(t.readyAttempts),
                                    Cardinality(t.coveredAttempts)),
         attemptToReady    |-> Rate(Cardinality(t.readyAttempts), Cardinality(t.attempts))]

=============================================================================
