----------------------------- MODULE MCValueLog -----------------------------
(* ValueLog with a few commands.                                           *)
EXTENDS ValueLog, TLC

CONSTANT MaxFaults \* bound on failures, signals, kills and power failures

VARIABLE faults \* faults so far

MCInit == Init /\ faults = 0

MCNext ==
    \/ \E p \in Procs : Step(p) /\ UNCHANGED faults
    \/ \E p \in Procs : faults < MaxFaults /\ Fault(p) /\ faults' = faults + 1
    \/ PowerLoss /\ faults < MaxFaults /\ faults' = faults + 1

MCSpec == MCInit /\ [][MCNext]_<<vars, faults>>
              /\ \A p \in Procs : WF_vars(Step(p))
=============================================================================
