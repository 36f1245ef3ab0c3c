-------------------------- MODULE SuperviseProofs --------------------------
(***************************************************************************)
(* Proofs about Supervise, for every limit of the captured streams and     *)
(* every behaviour of the child and its descendants.                       *)
(***************************************************************************)
EXTENDS Supervise, TLAPS

SuperviseType ==
    /\ mode \in {"bounded", "critical", "inherited"}
    /\ pc \in {"start", "signal", "overflow", "wait", "time", "grace", "collect",
               "returned"}
    /\ child \in {"none", "running", "exited", "reaped"}
    /\ group \in BOOLEAN /\ escaped \in BOOLEAN
    /\ written \in [Streams -> Nat]
    /\ drained \in [Streams -> Nat]
    /\ closed \in [Streams -> BOOLEAN]

\* A reader never runs ahead of the writers.  The end of a captured stream is
\* seen only when nobody is left who could write, or start a writer.
ReadersHold ==
    \A s \in Streams :
        /\ drained[s] <= written[s]
        /\ (mode = "bounded" /\ closed[s]) =>
              /\ child \in {"exited", "reaped"} /\ ~group /\ ~escaped
              /\ drained[s] = written[s]

\* Where the supervisor is tells what became of the child and its group.
ChildHolds ==
    /\ pc = "start" => child = "none"
    /\ child = "none" => pc \in {"start", "returned"} /\ ~group /\ ~escaped
    /\ pc \notin {"start", "collect", "returned"} => child \in {"running", "exited"}
    /\ pc = "collect" => mode = "bounded" /\ child = "reaped" /\ ~group
    /\ (pc = "returned" /\ child # "none" /\ result # "failed") =>
          child = "reaped" /\ (mode # "inherited" => ~group)

\* An Ok of the capturing function was given after both readers had ended.
ResultHolds ==
    /\ result # "none" => pc = "returned"
    /\ (mode = "bounded" /\ result = "ok") =>
          \A s \in Streams : closed[s] /\ drained[s] <= Limit

SuperviseInv == SuperviseType /\ ReadersHold /\ ChildHolds /\ ResultHolds

\* The invariant holds before the child is started.
LEMMA SuperviseInit == Init => SuperviseInv
<1> SUFFICES ASSUME Init PROVE SuperviseInv
  OBVIOUS
<1>1. SuperviseType
  BY SuperviseAssumption DEF Init, SuperviseType
<1>2. \A s \in Streams : drained[s] = 0 /\ written[s] = 0 /\ (mode = "bounded" => ~closed[s])
  BY DEF Init
<1>3. ReadersHold
  BY <1>2 DEF ReadersHold
<1>4. ChildHolds /\ ResultHolds
  BY DEF Init, ChildHolds, ResultHolds
<1> QED
  BY <1>1, <1>3, <1>4 DEF SuperviseInv

\* What goes on by itself keeps the invariant.
LEMMA EnvironmentStep ==
    ASSUME SuperviseInv,
           \/ \E s \in Streams : Write(s) \/ Drain(s)
           \/ Fork \/ Exit \/ Receive \/ Elapse
    PROVE  SuperviseInv'
<1> USE DEF SuperviseInv, SuperviseType, ReadersHold, ChildHolds, ResultHolds
<1>1. ASSUME NEW s \in Streams, Write(s) PROVE SuperviseInv'
  <2>1. written' = [written EXCEPT ![s] = @ + 1] /\ (Alive \/ escaped) /\ mode = "bounded"
    BY <1>1 DEF Write
  <2>2. UNCHANGED <<mode, pc, child, group, escaped, drained, closed, result>>
    BY <1>1 DEF Write
  <2>3. written' \in [Streams -> Nat] /\ \A t \in Streams : written[t] <= written'[t]
    BY <2>1
  <2>4. \A t \in Streams : ~closed[t]
    BY <2>1 DEF Alive
  <2>5. ReadersHold'
    <3> SUFFICES ASSUME NEW t \in Streams PROVE drained[t] <= written'[t]
      BY <2>2, <2>4
    <3> QED
      BY <2>3
  <2> QED
    BY <2>2, <2>3, <2>5
<1>2. ASSUME NEW s \in Streams, Drain(s) PROVE SuperviseInv'
  <2>1. child # "none" /\ ~closed[s]
    BY <1>2 DEF Drain
  <2>2. UNCHANGED <<mode, pc, child, group, escaped, written, result>>
    BY <1>2 DEF Drain
  <2>3. CASE drained[s] < written[s]
    <3>1. drained' = [drained EXCEPT ![s] = written[s]] /\ UNCHANGED closed
      BY <1>2, <2>3 DEF Drain
    <3>2. \A t \in Streams : drained'[t] = IF t = s THEN written[t] ELSE drained[t]
      BY <3>1
    <3>3. ReadersHold' /\ drained' \in [Streams -> Nat]
      BY <2>1, <2>2, <3>1, <3>2
    <3>4. ResultHolds'
      BY <2>1, <2>2, <3>1, <3>2
    <3> QED
      BY <2>2, <3>1, <3>3, <3>4
  <2>4. CASE ~(drained[s] < written[s])
    <3>1. /\ closed' = [closed EXCEPT ![s] = TRUE] /\ UNCHANGED drained
          /\ ~Alive /\ ~escaped
      BY <1>2, <2>4 DEF Drain
    <3>2. closed' \in [Streams -> BOOLEAN] /\ \A t \in Streams : closed'[t] = (t = s \/ closed[t])
      BY <3>1
    <3>3. drained[s] = written[s]
      BY <2>4
    <3>4. ReadersHold'
      <4> SUFFICES ASSUME NEW t \in Streams, mode = "bounded", closed'[t]
                   PROVE  /\ child \in {"exited", "reaped"} /\ ~group /\ ~escaped
                          /\ drained[t] = written[t]
        BY <2>2, <3>1
      <4>1. CASE t = s
        BY <2>1, <3>1, <3>3, <4>1 DEF Alive
      <4>2. CASE t # s
        BY <3>2, <4>2
      <4> QED
        BY <4>1, <4>2
    <3>5. ResultHolds'
      BY <2>2, <3>1, <3>2
    <3> QED
      BY <2>2, <3>1, <3>2, <3>4, <3>5
  <2> QED
    BY <2>3, <2>4
<1>3. CASE Fork
  <2>1. Alive /\ UNCHANGED <<mode, pc, child, written, drained, closed, result>>
    BY <1>3 DEF Fork
  <2>2. group' \in BOOLEAN /\ escaped' \in BOOLEAN
    BY <1>3 DEF Fork
  <2>3. \A s \in Streams : ~(mode = "bounded" /\ closed[s])
    BY <2>1 DEF Alive
  <2>4. child = "running" \/ group
    BY <2>1 DEF Alive
  <2>5. ChildHolds'
    <3>1. child # "none" /\ pc # "collect"
      BY <2>4
    <3>2. pc = "returned" /\ result # "failed" => group /\ mode = "inherited"
      BY <2>4
    <3> QED
      BY <2>1, <3>1, <3>2
  <2> QED
    BY <2>1, <2>2, <2>3, <2>5
<1>4. CASE Exit
  <2>1. UNCHANGED <<mode, pc, written, drained, closed, result>>
    BY <1>4 DEF Exit
  <2>2. CASE child = "running" /\ child' = "exited" /\ UNCHANGED <<group, escaped>>
    BY <2>1, <2>2
  <2>3. CASE group /\ group' = FALSE /\ UNCHANGED <<child, escaped>>
    BY <2>1, <2>3
  <2>4. CASE escaped /\ escaped' = FALSE /\ UNCHANGED <<child, group>>
    BY <2>1, <2>4
  <2> QED
    BY <1>4, <2>2, <2>3, <2>4 DEF Exit
<1>5. CASE Receive \/ Elapse
  BY <1>5 DEF Receive, Elapse
<1> QED
  BY <1>1, <1>2, <1>3, <1>4, <1>5

\* Leaving the loop with the child waited for and its group killed, or handed
\* over with the terminal, keeps the invariant.
LEMMA LeaveStep ==
    ASSUME SuperviseInv, NEW why, Leave(why), pc \notin {"start", "returned"},
           child \in {"running", "exited"},
           child' = "reaped", group' \in BOOLEAN, group' => group,
           mode # "inherited" => ~group',
           UNCHANGED <<mode, escaped, written, drained, closed, signal>>
    PROVE  SuperviseInv'
<1> USE DEF SuperviseInv, SuperviseType, ReadersHold, ChildHolds, ResultHolds
<1>1. result = "none"
  OBVIOUS
<1>2. \/ mode = "bounded" /\ pc' = "collect" /\ result' = "none"
      \/ mode # "bounded" /\ pc' = "returned"
  BY <1>1 DEF Leave, Return
<1>3. ReadersHold'
  OBVIOUS
<1>4. ChildHolds'
  BY <1>2
<1>5. ResultHolds'
  BY <1>2
<1> QED
  BY <1>2, <1>3, <1>4, <1>5

\* Every step of the supervisor keeps the invariant.
LEMMA SupervisorStep ==
    ASSUME SuperviseInv, Supervisor
    PROVE  SuperviseInv'
<1> USE DEF SuperviseInv
<1>0. pc \notin {"start", "collect", "returned"} => child \in {"running", "exited"}
  BY DEF ChildHolds
<1>1. CASE Spawn
  <2> USE DEF SuperviseType, ReadersHold, ChildHolds, ResultHolds
  <2>1. pc = "start" /\ child = "none" /\ ~group /\ ~escaped /\ result = "none"
    BY <1>1 DEF Spawn
  <2>2. UNCHANGED <<mode, group, escaped, written, drained, closed>>
    BY <1>1 DEF Spawn, environment
  <2>3. \A s \in Streams : ~(mode = "bounded" /\ closed[s])
    BY <2>1
  <2>4. CASE pc' = "returned" /\ result' = "interrupted" /\ child' = child
    BY <2>1, <2>2, <2>3, <2>4
  <2>5. CASE child' = "running" /\ pc' = FirstTest /\ result' = result
    <3>1. pc' \in {"wait", "signal"}
      BY <2>5 DEF FirstTest
    <3> QED
      BY <2>1, <2>2, <2>3, <2>5, <3>1
  <2> QED
    BY <1>1, <2>4, <2>5 DEF Spawn, Return
\* A test that moves on to the next one.
<1>2. ASSUME pc \notin {"start", "collect", "returned"},
             pc' \in {"signal", "overflow", "wait", "time", "grace"},
             UNCHANGED <<environment, child, result>>
      PROVE  SuperviseInv'
  <2>1. UNCHANGED <<mode, group, escaped, written, drained, closed, child, result>>
    BY <1>2 DEF environment
  <2> QED
    BY <1>2, <2>1 DEF SuperviseType, ReadersHold, ChildHolds, ResultHolds
\* terminate_child and a child found gone.
<1>3. ASSUME NEW why, pc \notin {"start", "returned"}, child \in {"running", "exited"},
             Terminate(why)
      PROVE  SuperviseInv'
  BY <1>3, LeaveStep DEF Terminate
<1>4. ASSUME NEW why, pc \notin {"start", "returned"}, child \in {"running", "exited"},
             Reap(why)
      PROVE  SuperviseInv'
  <2>1. /\ child' = "reaped" /\ group' = (group /\ mode = "inherited") /\ Leave(why)
        /\ UNCHANGED <<mode, escaped, written, drained, closed, signal>>
    BY <1>4 DEF Reap
  <2> QED
    BY <1>4, <2>1, LeaveStep DEF SuperviseType
<1>5. CASE TestSignal
  BY <1>2, <1>5 DEF TestSignal
<1>6. CASE TestOverflow
  BY <1>0, <1>2, <1>3, <1>6 DEF TestOverflow
<1>7. CASE TestExit
  BY <1>2, <1>4, <1>7 DEF TestExit
<1>8. CASE TestDeadline
  BY <1>0, <1>2, <1>3, <1>8 DEF TestDeadline, FirstTest
<1>9. CASE Grace
  BY <1>3, <1>4, <1>9 DEF Grace
<1>10. CASE Collect
  <2> USE DEF SuperviseType, ReadersHold, ChildHolds, ResultHolds
  <2>1. /\ pc = "collect" /\ mode = "bounded" /\ child = "reaped" /\ ~group
        /\ pc' = "returned" /\ result = "none"
    BY <1>10 DEF Collect, Return
  <2>2. UNCHANGED <<mode, group, escaped, written, drained, closed, child>>
    BY <1>10 DEF Collect, environment
  <2>3. ASSUME result' = "ok", NEW s \in Streams PROVE closed[s] /\ drained[s] <= Limit
    <3>1. (\A t \in Streams : closed[t]) /\ Outcome = "ok"
      BY <1>10, <2>3 DEF Collect, Return
    <3>2. ~Overflow
      BY <3>1 DEF Outcome
    <3> QED
      BY <3>1, <3>2, SuperviseAssumption DEF Overflow
  <2> QED
    BY <2>1, <2>2, <2>3
<1> QED
  BY <1>1, <1>5, <1>6, <1>7, <1>8, <1>9, <1>10 DEF Supervisor

\* An error on the way keeps the invariant: nothing is promised of the
\* processes then, and no output is.
LEMMA FailedStep ==
    ASSUME SuperviseInv, Refused \/ ReadFails
    PROVE  SuperviseInv'
<1> USE DEF SuperviseInv, SuperviseType, ReadersHold, ChildHolds, ResultHolds
<1>1. CASE Refused
  <2>1. pc' = "returned" /\ result' = "failed"
    BY <1>1 DEF Refused, Return
  <2>2. UNCHANGED <<mode, escaped, written, drained, closed>>
    BY <1>1 DEF Refused
  <2>3. /\ child' \in {"none", "running", "exited", "reaped"} /\ group' \in BOOLEAN
        /\ group' => group
        /\ child \in {"exited", "reaped"} => child' \in {"exited", "reaped"}
        /\ child' = "none" => child = "none"
    <3>1. CASE UNCHANGED <<child, group>>
      BY <3>1
    <3>2. CASE child' = "reaped" /\ UNCHANGED group
      BY <3>2
    <3>3. CASE child # "none" /\ child' \in {child, "exited"} /\ group' = FALSE
      BY <3>3
    <3>4. Terminates => child # "none"
      BY DEF Terminates
    <3> QED
      BY <1>1, <3>1, <3>2, <3>3, <3>4 DEF Refused
  <2>4. ReadersHold'
    BY <2>2, <2>3
  <2>5. ChildHolds' /\ ResultHolds'
    BY <2>1, <2>2, <2>3
  <2> QED
    BY <2>1, <2>2, <2>3, <2>4, <2>5
<1>2. CASE ReadFails
  BY <1>2 DEF ReadFails, Return, environment
<1> QED
  BY <1>1, <1>2

\* SuperviseInv is an invariant of every run of a command.
LEMMA SuperviseSafety == Spec => []SuperviseInv
<1>1. SuperviseInv /\ [Next]_vars => SuperviseInv'
  <2> SUFFICES ASSUME SuperviseInv, [Next]_vars PROVE SuperviseInv'
    OBVIOUS
  <2>1. CASE UNCHANGED vars
    BY <2>1 DEF vars, SuperviseInv, SuperviseType, ReadersHold, ChildHolds, ResultHolds
  <2> QED
    BY <2>1, SupervisorStep, FailedStep, EnvironmentStep DEF Next
<1> QED
  BY <1>1, SuperviseInit, PTL DEF Spec

\* An Ok of run_bounded_process carries the whole output of the child and of
\* every descendant, whatever they do and whenever the supervisor looks.
THEOREM CompleteOutput == Spec => []OutputIsComplete
<1>1. SuperviseInv => OutputIsComplete
  <2> SUFFICES ASSUME SuperviseInv, mode = "bounded", result = "ok"
               PROVE  /\ \A s \in Streams : drained[s] = written[s] /\ written[s] <= Limit
                      /\ ~Alive /\ ~escaped
    BY DEF OutputIsComplete
  <2>1. \A s \in Streams : closed[s] /\ drained[s] <= Limit
    BY DEF SuperviseInv, ResultHolds
  <2>2. \A s \in Streams : /\ child \in {"exited", "reaped"} /\ ~group /\ ~escaped
                           /\ drained[s] = written[s]
    BY <2>1 DEF SuperviseInv, ReadersHold
  <2>3. "stdout" \in Streams
    BY DEF Streams
  <2> QED
    BY <2>1, <2>2, <2>3 DEF Alive
<1> QED
  BY <1>1, SuperviseSafety, PTL

\* No call leaves its child unreaped, and none but the one that hands over
\* the terminal leaves a process of the child's group, unless it returns
\* because the system refused the supervisor a signal or a wait.
THEOREM NoneLeftBehind == Spec => []NobodyLeftBehind
<1>1. SuperviseInv => NobodyLeftBehind
  BY DEF SuperviseInv, ChildHolds, NobodyLeftBehind
<1> QED
  BY <1>1, SuperviseSafety, PTL
=============================================================================
