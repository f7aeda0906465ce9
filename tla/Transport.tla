----------------------------- MODULE Transport -----------------------------
(***************************************************************************)
(* The transport worker (transport.py, _DaemonTransportExecutor): a single *)
(* daemon thread with a bounded job queue, on which every blocking call of *)
(* the radio library runs, and the closer that waits for the worker's end  *)
(* before it closes interfaces.                                            *)
(*                                                                         *)
(* submit and shutdown hold _state_lock and are one action each; the       *)
(* worker takes a job, asks its future whether it was cancelled, runs it   *)
(* and looks for the end in steps of its own.                              *)
(***************************************************************************)
EXTENDS Integers, Sequences

CONSTANTS
  Jobs,       \* what the callers submit
  MaxQueue,   \* TRANSPORT_JOB_QUEUE_MAXSIZE
  MaxCancels, \* bound on futures that their callers cancel
  Stop,       \* the sentinel
  None

ASSUME TransportAssumption ==
  /\ MaxQueue \in Nat \ {0} /\ MaxCancels \in Nat
  /\ Stop \notin Jobs /\ None \notin Jobs

VARIABLES
  jobs,       \* the queue
  closed,     \* _closed
  stopAfterDrain,
  fut,        \* the state of each job's future
  worker,     \* where the worker thread is
  current,    \* the job it holds
  closer,     \* a close_interfaces_after_executor thread
  cancels     \* futures cancelled so far

vars == <<jobs, closed, stopAfterDrain, fut, worker, current, closer, cancels>>

Init ==
  /\ jobs = <<>> /\ closed = FALSE /\ stopAfterDrain = FALSE
  /\ fut = [j \in Jobs |-> "new"]
  /\ worker = "get" /\ current = None
  /\ closer = "idle" /\ cancels = 0

-----------------------------------------------------------------------------
(* submit, and its two refusals.                                           *)

\* Mutant: a closed executor still accepts.
AcceptsAlways == TRUE

Accepts == ~closed

Full == Len(jobs) >= MaxQueue

\* A caller that found the queue full may come back.
Submits(j) == fut[j] \in {"new", "busy"}

Submit(j) ==
  /\ Submits(j)
  /\ Accepts /\ ~Full
  /\ jobs' = Append(jobs, j)
  /\ fut' = [fut EXCEPT ![j] = "pending"]
  /\ UNCHANGED <<closed, stopAfterDrain, worker, current, closer, cancels>>

SubmitBusy(j) ==
  /\ Submits(j)
  /\ Accepts /\ Full
  /\ fut' = [fut EXCEPT ![j] = "busy"]
  /\ UNCHANGED <<jobs, closed, stopAfterDrain, worker, current, closer, cancels>>

SubmitRefused(j) ==
  /\ Submits(j)
  /\ ~Accepts
  /\ fut' = [fut EXCEPT ![j] = "refused"]
  /\ UNCHANGED <<jobs, closed, stopAfterDrain, worker, current, closer, cancels>>

\* A future that does not run yet can be cancelled; its job stays queued.
Cancel(j) ==
  /\ fut[j] = "pending"
  /\ cancels < MaxCancels /\ cancels' = cancels + 1
  /\ fut' = [fut EXCEPT ![j] = "cancelled"]
  /\ UNCHANGED <<jobs, closed, stopAfterDrain, worker, current, closer>>

-----------------------------------------------------------------------------
(* shutdown.                                                               *)

Sentinel == Append(jobs, Stop)

Shutdown ==
  /\ ~closed
  /\ closed' = TRUE
  /\ jobs' = IF Full THEN jobs ELSE Sentinel
  /\ stopAfterDrain' = Full
  /\ UNCHANGED <<fut, worker, current, closer, cancels>>

\* A close that was refused waits, without a bound, until the worker is gone.
CloseAfterExecutor ==
  /\ closed
  /\ closer = "idle"
  /\ closer' = "joining"
  /\ UNCHANGED <<jobs, closed, stopAfterDrain, fut, worker, current, cancels>>

Joined ==
  /\ closer = "joining"
  /\ worker = "exited"
  /\ closer' = "closed"
  /\ UNCHANGED <<jobs, closed, stopAfterDrain, fut, worker, current, cancels>>

-----------------------------------------------------------------------------
(* _run.                                                                   *)

Take ==
  /\ worker = "get"
  /\ jobs # <<>>
  /\ jobs' = Tail(jobs)
  /\ IF Head(jobs) = Stop
       THEN worker' = "exited" /\ UNCHANGED current
       ELSE worker' = "taken" /\ current' = Head(jobs)
  /\ UNCHANGED <<closed, stopAfterDrain, fut, closer, cancels>>

\* A cancelled job sends the worker straight back to the queue.
Begin ==
  /\ worker = "taken"
  /\ IF fut[current] = "cancelled"
       THEN worker' = "get" /\ current' = None /\ UNCHANGED fut
       ELSE worker' = "run" /\ fut' = [fut EXCEPT ![current] = "running"]
            /\ UNCHANGED current
  /\ UNCHANGED <<jobs, closed, stopAfterDrain, closer, cancels>>

\* The job returns or raises; its future is settled either way.
Settle ==
  /\ worker = "run"
  /\ fut' = [fut EXCEPT ![current] = "settled"]
  /\ worker' = "check" /\ current' = None
  /\ UNCHANGED <<jobs, closed, stopAfterDrain, closer, cancels>>

\* Mutants: the worker leaves at once, or only by the sentinel.
DrainedAtOnce == stopAfterDrain
DrainedNever  == FALSE

Drained == stopAfterDrain /\ jobs = <<>>

Check ==
  /\ worker = "check"
  /\ worker' = IF Drained THEN "exited" ELSE "get"
  /\ UNCHANGED <<jobs, closed, stopAfterDrain, fut, current, closer, cancels>>

-----------------------------------------------------------------------------
CallerStep == \E j \in Jobs : \/ Submit(j) \/ SubmitBusy(j) \/ SubmitRefused(j)
                              \/ Cancel(j)
WorkerStep == Take \/ Begin \/ Settle \/ Check

Next == CallerStep \/ WorkerStep \/ Shutdown \/ CloseAfterExecutor \/ Joined

Spec == Init /\ [][Next]_vars

\* The worker thread is scheduled and its jobs return; the closer is scheduled.
FairSpec == Spec /\ WF_vars(WorkerStep) /\ WF_vars(Joined)

-----------------------------------------------------------------------------
(* Properties.                                                             *)

\* Every variable stays in its type; the sentinel is queued at most once and
\* holds the last place.
TypeOK ==
  /\ jobs \in Seq(Jobs \cup {Stop}) /\ Len(jobs) <= MaxQueue
  /\ \A i \in 1..Len(jobs) : jobs[i] = Stop => i = Len(jobs)
  /\ closed \in BOOLEAN /\ stopAfterDrain \in BOOLEAN
  /\ fut \in [Jobs -> {"new", "busy", "pending", "running", "cancelled", "settled",
                       "refused"}]
  /\ worker \in {"get", "taken", "run", "check", "exited"}
  /\ current \in Jobs \cup {None}
  /\ closer \in {"idle", "joining", "closed"}
  /\ cancels \in 0..MaxCancels

\* No accepted job is left behind by a worker that exited, however its
\* submission raced the shutdown.
NoneStranded ==
  worker = "exited" => \A j \in Jobs : fut[j] \notin {"pending", "running"}

\* Every accepted job is settled, or was cancelled by its caller.
JobsSettle == \A j \in Jobs : fut[j] = "pending" ~> fut[j] \in {"settled", "cancelled"}

\* A close that waits for the worker's end is run: nothing keeps the worker but
\* a shutdown that met a full queue and a cancelled job in it.
CloseRuns ==
  closer = "joining" ~> (closer = "closed" \/ (stopAfterDrain /\ cancels > 0))

-----------------------------------------------------------------------------
(* What the code's own words promise, and an interleaving breaks.          *)

\* transport.py, _run: "Shutdown raced a full queue; exit once accepted work
\* drains."  A worker that was told to stop exits.
WorkerExits == closed ~> worker = "exited"

=============================================================================
