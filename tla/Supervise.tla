----------------------------- MODULE Supervise ------------------------------
(***************************************************************************)
(* How the command line runs other programs, src/src/process.rs: git and   *)
(* gh with captured output and a deadline (run_bounded_process), a short   *)
(* critical command that a signal must not cut short, and the viewer child *)
(* that inherits the terminal.                                             *)
(*                                                                         *)
(* The supervisor polls; the child, the processes it starts, the two       *)
(* threads that drain the pipes, the signals and the clock go on between   *)
(* any two of its tests.  A descendant that leaves the process group is    *)
(* not reached by its signals and may keep a pipe open.  The system may    *)
(* refuse any call the supervisor makes.  This is the unix build, the one  *)
(* with process groups.                                                    *)
(***************************************************************************)
EXTENDS Integers

CONSTANTS
    Modes,      \* among "bounded", "critical" and "inherited"
    Limit       \* bytes a captured stream may have

ASSUME SuperviseAssumption ==
    /\ Modes \subseteq {"bounded", "critical", "inherited"}
    /\ Limit \in Nat

Streams == {"stdout", "stderr"}

VARIABLES
    mode,       \* which of the three functions runs
    pc,         \* where the supervisor is
    child,      \* "none", "running", "exited" (not yet waited for), "reaped"
    group,      \* a descendant in the child's process group is alive
    escaped,    \* a descendant outside the group is alive
    written,    \* bytes written to each stream
    drained,    \* bytes its reader thread has read
    closed,     \* the reader met the end of the stream and sent its result
    signal,     \* SignalState.received
    late,       \* the deadline of the current wait has passed
    ending,     \* why the loop was left: "exit", "signal", "overflow", "timeout"
    result      \* what the function returned

vars == <<mode, pc, child, group, escaped, written, drained, closed, signal,
          late, ending, result>>

environment == <<mode, group, escaped, written, drained, closed, signal>>

Init ==
    /\ mode \in Modes
    /\ pc = "start"
    /\ child = "none"
    /\ group = FALSE /\ escaped = FALSE
    /\ written = [s \in Streams |-> 0]
    /\ drained = [s \in Streams |-> 0]
    /\ closed = [s \in Streams |-> mode # "bounded"]
    /\ signal \in BOOLEAN
    /\ late = FALSE
    /\ ending = "none"
    /\ result = "none"

-----------------------------------------------------------------------------
(* The child and everything that happens by itself.                        *)

Alive == child = "running" \/ group

Write(s) ==
    /\ Alive \/ escaped
    /\ mode = "bounded"
    /\ written[s] <= Limit
    /\ written' = [written EXCEPT ![s] = @ + 1]
    /\ UNCHANGED <<mode, pc, child, group, escaped, drained, closed, signal, late,
                   ending, result>>

Fork ==
    /\ Alive
    /\ \/ group' = TRUE /\ UNCHANGED escaped
       \/ escaped' = TRUE /\ UNCHANGED group
    /\ UNCHANGED <<mode, pc, child, written, drained, closed, signal, late, ending, result>>

Exit ==
    /\ \/ child = "running" /\ child' = "exited" /\ UNCHANGED <<group, escaped>>
       \/ group /\ group' = FALSE /\ UNCHANGED <<child, escaped>>
       \/ escaped /\ escaped' = FALSE /\ UNCHANGED <<child, group>>
    /\ UNCHANGED <<mode, pc, written, drained, closed, signal, late, ending, result>>

\* read_capped_stream keeps Limit bytes, counts the others and reads on until
\* every writer has closed the pipe.
Drain(s) ==
    /\ child # "none" /\ ~closed[s]
    /\ IF drained[s] < written[s]
       THEN drained' = [drained EXCEPT ![s] = written[s]] /\ UNCHANGED closed
       ELSE /\ ~Alive /\ ~escaped
            /\ closed' = [closed EXCEPT ![s] = TRUE] /\ UNCHANGED drained
    /\ UNCHANGED <<mode, pc, child, group, escaped, written, signal, late, ending, result>>

Overflow == \E s \in Streams : drained[s] > Limit

\* SignalState: the handler stores the number and nothing else.
Receive ==
    /\ ~signal /\ pc # "returned"
    /\ signal' = TRUE
    /\ UNCHANGED <<mode, pc, child, group, escaped, written, drained, closed, late,
                   ending, result>>

\* The deadline of the loop, of the grace period or of the pipes passes.
Elapse ==
    /\ ~late
    /\ \/ pc \in {"signal", "overflow", "wait", "time"} /\ mode # "inherited"
       \/ pc \in {"grace", "collect"}
    /\ late' = TRUE
    /\ UNCHANGED <<mode, pc, child, group, escaped, written, drained, closed, signal,
                   ending, result>>

-----------------------------------------------------------------------------
(* The supervisor.                                                         *)

Return(r) == pc' = "returned" /\ result' = r

\* A loop that polls for a signal begins with that test.
FirstTest == IF mode = "critical" THEN "wait" ELSE "signal"

\* The child has its own process group.  A signal that is already there wins,
\* except in run_short_critical_process.
Spawn ==
    /\ pc = "start"
    /\ \/ /\ signal /\ mode # "critical"
          /\ Return("interrupted")
          /\ UNCHANGED child
       \/ /\ ~signal \/ mode = "critical"
          /\ child' = "running"
          /\ pc' = FirstTest /\ UNCHANGED result
    /\ UNCHANGED <<environment, late, ending>>

\* The loop is left: captured output is collected under a deadline of its own.
Leave(why) ==
    /\ ending' = why
    /\ late' = FALSE
    /\ \/ mode = "bounded" /\ pc' = "collect" /\ UNCHANGED result
       \/ mode # "bounded" /\ why = "exit" /\ Return("ok")
       \/ mode # "bounded" /\ why = "signal" /\ Return("interrupted")
       \/ mode # "bounded" /\ why = "timeout" /\ Return("timeout")

\* terminate_child: the group is killed, then the child, which is waited for.
\* For the calls that fail on the way see Refused.
Terminate(why) ==
    /\ child' = "reaped" /\ group' = FALSE
    /\ Leave(why)
    /\ UNCHANGED <<mode, escaped, written, drained, closed, signal>>

\* Mutant: only the child is waited for.
ReapAlone(why) ==
    /\ child' = "reaped"
    /\ Leave(why)
    /\ UNCHANGED environment

\* try_wait found the child gone.  terminate_remaining_process_group follows
\* unless the terminal is inherited.
Reap(why) ==
    /\ child' = "reaped"
    /\ group' = (group /\ mode = "inherited")
    /\ Leave(why)
    /\ UNCHANGED <<mode, escaped, written, drained, closed, signal>>

\* The signal is forwarded to the group, gone or not (ESRCH), and a grace
\* period begins.
TestSignal ==
    /\ pc = "signal"
    /\ \/ signal /\ pc' = "grace" /\ late' = FALSE
       \/ ~signal /\ pc' = (IF mode = "bounded" THEN "overflow" ELSE "wait")
          /\ UNCHANGED late
    /\ UNCHANGED <<environment, child, ending, result>>

TestOverflow ==
    /\ pc = "overflow"
    /\ \/ Overflow /\ Terminate("overflow")
       \/ /\ ~Overflow
          /\ pc' = "wait"
          /\ UNCHANGED <<environment, child, late, ending, result>>

TestExit ==
    /\ pc = "wait"
    /\ \/ child = "exited" /\ Reap("exit")
       \/ /\ child = "running"
          /\ pc' = (IF mode = "inherited" THEN "signal" ELSE "time")
          /\ UNCHANGED <<environment, child, late, ending, result>>

TestDeadline ==
    /\ pc = "time"
    /\ \/ late /\ Terminate("timeout")
       \/ ~late /\ pc' = FirstTest /\ UNCHANGED <<environment, child, late, ending, result>>

\* forward_signal_and_reap
Grace ==
    /\ pc = "grace"
    /\ \/ child = "exited" /\ Reap("signal")
       \/ child = "running" /\ late /\ Terminate("signal")

\* Where terminate_child is called.
Terminates ==
    \/ pc = "overflow" /\ Overflow
    \/ pc = "time" /\ late
    \/ pc = "grace" /\ child = "running" /\ late

\* The system refuses a call and the error is returned at once, with whatever
\* is then alive: spawn; the forwarded signal; try_wait; the signal to the
\* group of a child just waited for; in terminate_child the signal to the
\* group, or the kill and the wait after it.
Refused ==
    /\ \/ pc = "start" /\ (~signal \/ mode = "critical") /\ UNCHANGED <<child, group>>
       \/ pc = "signal" /\ signal /\ UNCHANGED <<child, group>>
       \/ pc \in {"wait", "grace"} /\ UNCHANGED <<child, group>>
       \/ /\ pc \in {"wait", "grace"} /\ child = "exited" /\ mode # "inherited"
          /\ child' = "reaped" /\ UNCHANGED group
       \/ Terminates /\ UNCHANGED <<child, group>>
       \/ Terminates /\ child' \in {child, "exited"} /\ group' = FALSE
    /\ Return("failed")
    /\ UNCHANGED <<mode, escaped, written, drained, closed, signal, late, ending>>

\* Mutant: what the readers found is not looked at again after the loop.
OutcomeOfLoop ==
    CASE ending = "signal"  -> "interrupted"
      [] ending = "timeout" -> "timeout"
      [] ending = "overflow" -> "limit"
      [] OTHER -> "ok"

\* The results of the readers come first: a limit exceeded is an error
\* whichever way the loop ended.
Outcome ==
    CASE Overflow            -> "limit"
      [] ending = "signal"   -> "interrupted"
      [] ending = "timeout"  -> "timeout"
      [] OTHER               -> "ok"

\* Mutant: the readers are waited for without a deadline.
CollectPatiently ==
    /\ pc = "collect"
    /\ \A s \in Streams : closed[s]
    /\ Return(Outcome)
    /\ UNCHANGED <<environment, child, late, ending>>

\* receive_bounded_stream for both streams.
Collect ==
    /\ pc = "collect"
    /\ \/ (\A s \in Streams : closed[s]) /\ Return(Outcome)
       \/ (\E s \in Streams : ~closed[s]) /\ late /\ Return("pipe")
    /\ UNCHANGED <<environment, child, late, ending>>

\* A reader thread met an error and sent it in place of the stream.
ReadFails ==
    /\ pc = "collect"
    /\ Return("pipe")
    /\ UNCHANGED <<environment, child, late, ending>>

Supervisor ==
    Spawn \/ TestSignal \/ TestOverflow \/ TestExit \/ TestDeadline \/ Grace \/ Collect

Next ==
    \/ Supervisor \/ Refused \/ ReadFails
    \/ \E s \in Streams : Write(s) \/ Drain(s)
    \/ Fork \/ Exit \/ Receive \/ Elapse

\* The supervisor's thread and the readers run, and time passes.  Nothing is
\* assumed of the child, and no call needs to fail.
Spec == Init /\ [][Next]_vars
            /\ WF_vars(Supervisor) /\ WF_vars(Elapse)
            /\ \A s \in Streams : WF_vars(Drain(s))

-----------------------------------------------------------------------------
(* Properties.                                                             *)

\* An Ok of run_bounded_process carries the whole output: both streams within
\* their limits, read to their end, with nobody left to write to them.
OutputIsComplete ==
    mode = "bounded" /\ result = "ok"
        => /\ \A s \in Streams : drained[s] = written[s] /\ written[s] <= Limit
           /\ ~Alive /\ ~escaped

\* A call that exits, is interrupted, times out, exceeds a limit or gives up
\* a pipe leaves no child behind, and the two functions that do not hand over
\* the terminal leave nobody in its process group.  Only a call that returns
\* because the system refused a signal or a wait (result "failed") does.
NobodyLeftBehind ==
    pc = "returned" /\ child # "none" /\ result # "failed"
        => child = "reaped" /\ (mode # "inherited" => ~group)

\* A command with a deadline always returns, however its processes behave,
\* and one that inherits the terminal returns after a signal.
AlwaysReturns ==
    /\ mode # "inherited" ~> pc = "returned"
    /\ signal ~> pc = "returned"

=============================================================================
