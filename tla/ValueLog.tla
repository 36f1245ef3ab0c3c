------------------------------ MODULE ValueLog ------------------------------
(***************************************************************************)
(* The processes that share one value log file, src/src/value_funnel.rs:   *)
(* inbox commands record a discovery and its delivery, resume commands the *)
(* stages of one attempt, and value-report reads.                          *)
(*                                                                         *)
(* The file is never written in place.  A writer locks the file it opened  *)
(* (flock belongs to the inode), makes sure that the path still names it,  *)
(* stages the old and the new events in a temporary file and renames that  *)
(* over the path, so a waiting writer may win the lock of a file that is   *)
(* no longer the log.  A process may fail at every step, a child may be    *)
(* killed, and the power may go: then the directory entry is one of those  *)
(* it had since the directory was last synced.                             *)
(***************************************************************************)
EXTENDS Funnel

CONSTANTS
    Inodes,     \* inodes of the log's directory
    Inboxes,    \* inbox commands; a process is named by the random identifier
    Resumes,    \* resume commands         that it draws for its scan or attempt
    Reports,    \* value-report commands
    MaxLosses   \* bound on power failures

Procs == Inboxes \cup Resumes \cup Reports

ASSUME ValueLogAssumption ==
    /\ Procs \subseteq Ids
    /\ None \notin Inodes
    /\ MaxLosses \in Nat

VARIABLES
    path,           \* the inode the log's path names, or None
    recoverable,    \* the inodes it may name after a power failure
    content,        \* the events in each inode
    proc,           \* the processes
    safe,           \* number of events whose append returned Ok (history)
    losses          \* power failures so far

vars == <<path, recoverable, content, proc, safe, losses>>

\* The operation a process is at.
Ats == {"discover", "deliver", "invoke", "bind", "cover", "ready", "serve",
        "inspect", "classify", "fail", "report", "end"}

Reads == {"inspect", "classify", "report"}

Pcs == {"call", "open", "lock", "check", "stage", "recheck", "rename", "sync"}

Locked == {"check", "stage", "recheck", "rename", "sync"}

Process == [at : Ats, pc : Pcs, fd : Inodes \cup {None}, tmp : Inodes \cup {None},
            transition : Transitions \cup {None}, stage : Stages \cup {None},
            batch : Seq(Event), base : Seq(Event)]

Content(i) == IF i = None THEN <<>> ELSE content[i]

Log == Content(path)

InUse == {path} \cup recoverable \cup {proc[p].fd : p \in Procs}
             \cup {proc[p].tmp : p \in Procs}

Unused == CHOOSE i \in Inodes : i \notin InUse

Init ==
    /\ path = None
    /\ recoverable = {None}
    /\ content = [i \in Inodes |-> <<>>]
    /\ proc = [p \in Procs |->
                  [at |-> IF p \in Inboxes THEN "discover"
                          ELSE IF p \in Resumes THEN "invoke" ELSE "report",
                   pc |-> "call", fd |-> None, tmp |-> None, transition |-> None,
                   stage |-> None, batch |-> <<>>, base |-> <<>>]]
    /\ safe = 0
    /\ losses = 0

-----------------------------------------------------------------------------
(* How a command goes on after an operation.                               *)

\* resume::run and inbox::run after an operation that succeeded.
After(at) ==
    CASE at = "discover" -> "deliver"
      [] at = "invoke"   -> "bind"
      [] at = "bind"     -> "cover"
      [] at = "cover"    -> "ready"
      [] at = "ready"    -> "serve"
      [] OTHER           -> "end"

\* An attempt that fails after its invocation records its failure.
AfterError(at) ==
    IF at \in {"bind", "cover", "ready", "serve"} THEN "classify" ELSE "end"

\* The process leaves the operation: locks are released with the descriptor
\* and a temporary file that was not renamed is removed.
Leave(p, at) ==
    proc' = [proc EXCEPT ![p].at = at, ![p].pc = "call", ![p].fd = None,
                         ![p].tmp = None, ![p].batch = <<>>, ![p].base = <<>>]

Goto(p, pc) == proc' = [proc EXCEPT ![p].pc = pc]

Call(p, batch, transition) ==
    proc' = [proc EXCEPT ![p].pc = "open", ![p].batch = batch,
                         ![p].transition = transition]

\* record_inbox_discovery: a baseline, then one event per gap.
ScanBatch(p, completed, gaps) ==
    <<[NewEvent("baseline", p, None) EXCEPT !.completed = completed]>>
        \o [i \in DOMAIN gaps |-> NewEvent("gap_discovery", p, gaps[i])]

Discover(p) ==
    /\ proc[p].at = "discover" /\ proc[p].pc = "call"
    /\ \E gaps \in SUBSET Transitions, extra \in 0 .. 1 :
       \E order \in [1 .. Cardinality(gaps) -> gaps] :
          /\ IsFiniteSet(gaps)
          /\ \A i, j \in DOMAIN order : order[i] = order[j] => i = j
          /\ Call(p, ScanBatch(p, Cardinality(gaps) + extra, order), None)
    /\ UNCHANGED <<path, recoverable, content, safe, losses>>

\* record_inbox_delivery, after the output was written.
Deliver(p) ==
    /\ proc[p].at = "deliver" /\ proc[p].pc = "call"
    /\ Call(p, <<NewEvent("inbox_delivery", p, None)>>, None)
    /\ UNCHANGED <<path, recoverable, content, safe, losses>>

\* record_resume_invoked, for a transition named on the command line.
Invoke(p) ==
    /\ proc[p].at = "invoke" /\ proc[p].pc = "call"
    /\ \E t \in Transitions : Call(p, <<NewEvent("resume_invoked", p, t)>>, t)
    /\ UNCHANGED <<path, recoverable, content, safe, losses>>

\* record_transition_bound, then in the workbench child record_covered_transition
\* and record_workbench_ready.
Advance(p) ==
    /\ proc[p].at \in {"bind", "cover", "ready"} /\ proc[p].pc = "call"
    /\ LET kind == CASE proc[p].at = "bind"  -> "transition_bound"
                     [] proc[p].at = "cover" -> "covered_transition"
                     [] proc[p].at = "ready" -> "workbench_ready"
       IN  Call(p, <<NewEvent(kind, p, proc[p].transition)>>, proc[p].transition)
    /\ UNCHANGED <<path, recoverable, content, safe, losses>>

\* The workbench was served until its reviewer closed it.
Served(p) ==
    /\ proc[p].at = "serve" /\ proc[p].pc = "call"
    /\ Leave(p, "end")
    /\ UNCHANGED <<path, recoverable, content, safe, losses>>

\* record_attempt_failed appends the stage it found in the log before.
RecordFailure(p) ==
    /\ proc[p].at = "fail" /\ proc[p].pc = "call"
    /\ Call(p, <<[NewEvent("attempt_failed", p, proc[p].transition) EXCEPT
                     !.stage = proc[p].stage]>>, proc[p].transition)
    /\ UNCHANGED <<path, recoverable, content, safe, losses>>

\* The other reads: attempt_reached_workbench_ready and value-report.
CallRead(p) ==
    /\ proc[p].at \in Reads /\ proc[p].pc = "call"
    /\ Call(p, <<>>, proc[p].transition)
    /\ UNCHANGED <<path, recoverable, content, safe, losses>>

-----------------------------------------------------------------------------
(* One operation on the file.                                              *)

\* open_log.  Only a writer creates the file.
Open(p) ==
    /\ proc[p].pc = "open"
    /\ \/ /\ path # None
          /\ proc' = [proc EXCEPT ![p].pc = "lock", ![p].fd = path]
          /\ UNCHANGED <<path, recoverable, content>>
       \/ /\ path = None
          /\ proc[p].at \notin Reads
          /\ ~(Inodes \subseteq InUse)
          /\ path' = Unused
          /\ recoverable' = recoverable \cup {Unused}
          /\ content' = [content EXCEPT ![Unused] = <<>>]
          /\ proc' = [proc EXCEPT ![p].pc = "lock", ![p].fd = Unused]
       \/ /\ path = None
          /\ proc[p].at \in Reads
          /\ Leave(p, AfterError(proc[p].at))
          /\ UNCHANGED <<path, recoverable, content>>
    /\ UNCHANGED <<safe, losses>>

\* lock_exclusive for a writer, lock_shared for a reader.
Lock(p) ==
    /\ proc[p].pc = "lock"
    /\ \A q \in Procs \ {p} :
          proc[q].pc \in Locked /\ proc[q].fd = proc[p].fd
              => proc[p].at \in Reads /\ proc[q].at \in Reads
    /\ Goto(p, "check")
    /\ UNCHANGED <<path, recoverable, content, safe, losses>>

\* Mutant: the same descriptor is locked again.
RetrySameFile(p) ==
    /\ proc[p].pc = "check"
    /\ path # proc[p].fd
    /\ Goto(p, "lock")
    /\ UNCHANGED <<path, recoverable, content, safe, losses>>

\* open_current_log_locked: the lock is that of a file that was replaced.
Retry(p) ==
    /\ proc[p].pc = "check"
    /\ path # proc[p].fd
    /\ proc' = [proc EXCEPT ![p].pc = "open", ![p].fd = None]
    /\ UNCHANGED <<path, recoverable, content, safe, losses>>

\* read_log_path, and what the caller makes of the log.
Read(p) ==
    /\ proc[p].pc = "check"
    /\ proc[p].at \in Reads
    /\ path = proc[p].fd
    /\ LET known == /\ Verifies(Log)
                    /\ HasAttempt(Log, "resume_invoked", p, proc[p].transition)
           at == CASE proc[p].at = "report" -> "end"
                   [] proc[p].at = "inspect" ->
                         IF known /\ ~Recorded(Log, "workbench_ready", p)
                         THEN "classify" ELSE "end"
                   [] proc[p].at = "classify" -> IF known THEN "fail" ELSE "end"
       IN  proc' = [proc EXCEPT ![p].at = at, ![p].pc = "call", ![p].fd = None,
                                ![p].stage = IF at = "fail" THEN FailureStage(Log, p)
                                                            ELSE @]
    /\ UNCHANGED <<path, recoverable, content, safe, losses>>

\* append_events_locked up to replace_log_atomically.  A batch that is in the
\* log already is confirmed as it stands; identifiers are drawn once, so none
\* of these processes meets its own events.
Prepare(p) ==
    /\ proc[p].pc = "check"
    /\ proc[p].at \notin Reads
    /\ path = proc[p].fd
    /\ Appendable(Log, proc[p].batch)
    /\ IF Fresh(Log, proc[p].batch) = <<>>
       THEN Leave(p, After(proc[p].at))
       ELSE proc' = [proc EXCEPT ![p].pc = "stage", ![p].base = Log]
    /\ UNCHANGED <<path, recoverable, content, safe, losses>>

\* A conflict, an event that does not fit, or the limit of the log.
Refuse(p) ==
    /\ proc[p].pc = "check"
    /\ proc[p].at \notin Reads
    /\ path = proc[p].fd
    /\ ~Appendable(Log, proc[p].batch)
    /\ Leave(p, AfterError(proc[p].at))
    /\ UNCHANGED <<path, recoverable, content, safe, losses>>

\* The temporary file, written whole and synced.
Stage(p) ==
    /\ proc[p].pc = "stage"
    /\ ~(Inodes \subseteq InUse)
    /\ content' = [content EXCEPT ![Unused] =
                      proc[p].base \o Fresh(proc[p].base, proc[p].batch)]
    /\ proc' = [proc EXCEPT ![p].pc = "recheck", ![p].tmp = Unused]
    /\ UNCHANGED <<path, recoverable, safe, losses>>

\* The path must still name the locked file.
Recheck(p) ==
    /\ proc[p].pc = "recheck"
    /\ IF path = proc[p].fd THEN Goto(p, "rename") ELSE Leave(p, AfterError(proc[p].at))
    /\ UNCHANGED <<path, recoverable, content, safe, losses>>

\* persist: rename(2) over the path.
Rename(p) ==
    /\ proc[p].pc = "rename"
    /\ path' = proc[p].tmp
    /\ recoverable' = recoverable \cup {proc[p].tmp}
    /\ Goto(p, "sync")
    /\ UNCHANGED <<content, safe, losses>>

\* Mutant: Ok is returned although the directory was not synced.
SyncNothing(p) ==
    /\ proc[p].pc = "sync"
    /\ safe' = IF safe < Len(content[proc[p].tmp]) THEN Len(content[proc[p].tmp]) ELSE safe
    /\ Leave(p, After(proc[p].at))
    /\ UNCHANGED <<path, recoverable, content, losses>>

\* sync_all on the directory, then unlock and Ok.
SyncDirectory(p) ==
    /\ proc[p].pc = "sync"
    /\ recoverable' = {path}
    /\ safe' = IF safe < Len(content[proc[p].tmp]) THEN Len(content[proc[p].tmp]) ELSE safe
    /\ Leave(p, After(proc[p].at))
    /\ UNCHANGED <<path, content, losses>>

-----------------------------------------------------------------------------
(* Faults.                                                                 *)

\* Any call of the operation fails, or the work between two operations does.
Fail(p) ==
    /\ proc[p].at # "end"
    /\ proc[p].pc # "call" \/ proc[p].at \in {"deliver", "bind", "cover", "ready", "serve"}
    /\ Leave(p, AfterError(proc[p].at))
    /\ UNCHANGED <<path, recoverable, content, safe, losses>>

\* A signal ends the attempt, and its child at whatever it was doing.
Interrupt(p) ==
    /\ \/ proc[p].at \in {"cover", "ready", "serve"}
       \/ proc[p].at = "bind" /\ proc[p].pc = "call"
    /\ Leave(p, "inspect")
    /\ UNCHANGED <<path, recoverable, content, safe, losses>>

\* The process is killed; the kernel drops its locks.
Kill(p) ==
    /\ proc[p].at # "end"
    /\ Leave(p, "end")
    /\ UNCHANGED <<path, recoverable, content, safe, losses>>

PowerLoss ==
    /\ losses < MaxLosses
    /\ losses' = losses + 1
    /\ path' \in recoverable
    /\ recoverable' = {path'}
    /\ proc' = [p \in Procs |->
                   [proc[p] EXCEPT !.at = IF proc[p].at \in {"discover", "invoke", "report"}
                                             /\ proc[p].pc = "call"
                                          THEN @ ELSE "end",
                                   !.pc = "call", !.fd = None, !.tmp = None,
                                   !.batch = <<>>, !.base = <<>>]]
    /\ UNCHANGED <<content, safe>>

Step(p) ==
    \/ Discover(p) \/ Deliver(p) \/ Invoke(p) \/ Advance(p) \/ Served(p)
    \/ RecordFailure(p) \/ CallRead(p)
    \/ Open(p) \/ Lock(p) \/ Retry(p) \/ Read(p) \/ Prepare(p) \/ Refuse(p)
    \/ Stage(p) \/ Recheck(p) \/ Rename(p) \/ SyncDirectory(p)

Fault(p) == Fail(p) \/ Interrupt(p) \/ Kill(p)

Next == (\E p \in Procs : Step(p) \/ Fault(p)) \/ PowerLoss

Spec == Init /\ [][Next]_vars

\* A process that runs goes on; a lock that becomes free is granted.
FairSpec == Spec /\ \A p \in Procs : WF_vars(Step(p))

-----------------------------------------------------------------------------
(* Properties.                                                             *)

TypeOK ==
    /\ path \in Inodes \cup {None}
    /\ recoverable \in SUBSET (Inodes \cup {None})
    /\ content \in [Inodes -> Seq(Event)]
    /\ proc \in [Procs -> Process]
    /\ safe \in Nat
    /\ losses \in Nat

\* The file that the path names always verifies (verify_log_bytes), however
\* the writers interleave, fail and are cut off: no command is ever refused
\* because of what another one wrote.
LogVerifies == Verifies(Log)

\* build_report never meets an inconsistent log: the subset tests and the
\* checked_sub behind its conversion rates hold for every log on disk, every
\* failure is counted under one stage and no rate exceeds one.
ReportHolds ==
    LET r == Report(Log)
    IN  /\ ReportConsistent(Tally(Log))
        /\ r.unconfirmed >= 0
        /\ \A x \in {r.deliveredToResume, r.attemptToCovered, r.coveredToReady,
                     r.attemptToReady} \ {None} : x \in Rates

\* Whoever opens the log can use it: it verifies, and a report can be built.
LogHolds == LogVerifies /\ ReportHolds

Promise == INSTANCE DurableLog WITH
    log <- Log, Events <- Event, WellFormed <- Verifies

\* The log behaves as DurableLog promises: no update is lost, events are only
\* added at the end, and what append_events confirmed with Ok survives a power
\* failure.
KeepsPromise == Promise!Spec

\* Every operation on the log ends: no writer waits for ever for a lock, and
\* the loop of open_current_log_locked does not spin on a replaced file.
OperationsEnd ==
    \A p \in Procs : (proc[p].pc # "call") ~> (proc[p].pc = "call")

=============================================================================
