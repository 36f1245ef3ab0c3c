----------------------------- MODULE DurableLog -----------------------------
(***************************************************************************)
(* What the value log promises its writers: batches of events are added at *)
(* the end, a log that was written can be read back and verified, and what *)
(* an append confirmed survives a power failure.  Events that were added   *)
(* but not confirmed may be lost with the power, the last ones first.      *)
(***************************************************************************)
EXTENDS Integers, Sequences

CONSTANTS
    Events,             \* the events
    WellFormed(_)       \* the logs a reader accepts

VARIABLES
    log,    \* the log
    safe    \* how many of its events were confirmed to a writer

vars == <<log, safe>>

Init == log = <<>> /\ safe = 0

Extend ==
    /\ log' \in Seq(Events)
    /\ WellFormed(log')
    /\ Len(log) < Len(log')
    /\ log = SubSeq(log', 1, Len(log))
    /\ UNCHANGED safe

Confirm ==
    /\ safe' \in safe .. Len(log)
    /\ UNCHANGED log

Lose ==
    /\ \E n \in safe .. Len(log) : log' = SubSeq(log, 1, n)
    /\ UNCHANGED safe

Next == Extend \/ Confirm \/ Lose

Spec == Init /\ [][Next]_vars
=============================================================================
