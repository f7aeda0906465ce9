-------------------------- MODULE TransportProofs --------------------------
(* Type correctness of the transport worker, and that no accepted job is   *)
(* left behind by a worker that exited, for every set of jobs and every    *)
(* length of the queue.                                                    *)
EXTENDS Transport, TLAPS

\* Jobs are refused from the moment the sentinel is queued or the drain flagged.
ClosedBeforeStop ==
  /\ stopAfterDrain => closed
  /\ \A i \in 1..Len(jobs) : jobs[i] = Stop => closed

\* The worker leaves nothing in the queue.
ExitedEmpty == worker = "exited" => closed /\ jobs = <<>>

HoldsJob == worker \in {"taken", "run"} => current \in Jobs

\* A pending future is that of a queued job or of the one just taken.
PendingSomewhere ==
  \A j \in Jobs : fut[j] = "pending" =>
    \/ \E i \in 1..Len(jobs) : jobs[i] = j
    \/ worker = "taken" /\ current = j

RunningHeld ==
  \A j \in Jobs : fut[j] = "running" => worker = "run" /\ current = j

IInv == /\ TypeOK /\ ClosedBeforeStop /\ ExitedEmpty /\ HoldsJob
        /\ PendingSomewhere /\ RunningHeld

USE DEF Accepts, Full, Submits, Sentinel, Drained

-----------------------------------------------------------------------------
(* What a step does to the queue.                                          *)

\* Appending keeps the earlier places.
LEMMA Appended ==
  ASSUME NEW S, NEW q \in Seq(S), NEW x \in S
  PROVE  /\ Append(q, x) \in Seq(S)
         /\ Len(Append(q, x)) = Len(q) + 1
         /\ \A i \in 1..Len(q) : Append(q, x)[i] = q[i]
         /\ Append(q, x)[Len(q) + 1] = x
  OBVIOUS

\* Taking the head moves every other place one up.
LEMMA Taken ==
  ASSUME NEW S, NEW q \in Seq(S), q # <<>>
  PROVE  /\ Tail(q) \in Seq(S)
         /\ Len(Tail(q)) = Len(q) - 1 /\ Len(q) \in Nat \ {0}
         /\ \A i \in 1..Len(Tail(q)) : Tail(q)[i] = q[i + 1]
         /\ Head(q) = q[1]
  OBVIOUS

-----------------------------------------------------------------------------
(* The inductive invariant.                                                *)

LEMMA InitIInv == Init => IInv
<1> SUFFICES ASSUME Init PROVE IInv
  OBVIOUS
<1> USE TransportAssumption DEF Init
<1>1. jobs \in Seq(Jobs \cup {Stop}) /\ Len(jobs) = 0
  OBVIOUS
<1>2. TypeOK
  <2>1. Len(jobs) <= MaxQueue /\ \A i \in 1..Len(jobs) : jobs[i] = Stop => i = Len(jobs)
    BY <1>1
  <2>2. fut \in [Jobs -> {"new", "busy", "pending", "running", "cancelled", "settled",
                         "refused"}]
    OBVIOUS
  <2>3. cancels \in 0..MaxCancels
    OBVIOUS
  <2>4. QED
    BY <1>1, <2>1, <2>2, <2>3 DEF TypeOK
<1>3. ClosedBeforeStop
  BY <1>1 DEF ClosedBeforeStop
<1>4. ExitedEmpty /\ HoldsJob /\ PendingSomewhere /\ RunningHeld
  BY DEF ExitedEmpty, HoldsJob, PendingSomewhere, RunningHeld
<1>5. QED
  BY <1>2, <1>3, <1>4 DEF IInv

\* The steps that leave the queue alone.
LEMMA QueueKept ==
  ASSUME IInv,
         \/ \E j \in Jobs : SubmitBusy(j) \/ SubmitRefused(j) \/ Cancel(j)
         \/ CloseAfterExecutor \/ Joined \/ Begin \/ Settle \/ Check
         \/ UNCHANGED vars
  PROVE  IInv'
<1> USE TransportAssumption DEF IInv
<1>1. ASSUME NEW j \in Jobs, SubmitBusy(j) \/ SubmitRefused(j) \/ Cancel(j)
      PROVE  IInv'
  BY <1>1 DEF SubmitBusy, SubmitRefused, Cancel, TypeOK, ClosedBeforeStop, ExitedEmpty,
              HoldsJob, PendingSomewhere, RunningHeld
<1>2. CASE CloseAfterExecutor \/ Joined
  BY <1>2 DEF CloseAfterExecutor, Joined, TypeOK, ClosedBeforeStop, ExitedEmpty,
              HoldsJob, PendingSomewhere, RunningHeld
<1>3. CASE Begin
  BY <1>3 DEF Begin, TypeOK, ClosedBeforeStop, ExitedEmpty, HoldsJob, PendingSomewhere,
              RunningHeld
<1>4. CASE Settle
  BY <1>4 DEF Settle, TypeOK, ClosedBeforeStop, ExitedEmpty, HoldsJob, PendingSomewhere,
              RunningHeld
<1>5. CASE Check
  BY <1>5 DEF Check, TypeOK, ClosedBeforeStop, ExitedEmpty, HoldsJob, PendingSomewhere,
              RunningHeld
<1>6. CASE UNCHANGED vars
  BY <1>6 DEF vars, TypeOK, ClosedBeforeStop, ExitedEmpty, HoldsJob, PendingSomewhere,
              RunningHeld
<1>7. QED
  BY <1>1, <1>2, <1>3, <1>4, <1>5, <1>6

LEMMA SubmitStep ==
  ASSUME IInv, NEW j \in Jobs, Submit(j)
  PROVE  IInv'
<1> USE TransportAssumption DEF IInv, Submit
<1>1. /\ jobs' \in Seq(Jobs \cup {Stop}) /\ Len(jobs') = Len(jobs) + 1
      /\ \A i \in 1..Len(jobs) : jobs'[i] = jobs[i]
      /\ jobs'[Len(jobs) + 1] = j /\ Len(jobs) \in Nat
  BY Appended DEF TypeOK
<1>2. \A i \in 1..Len(jobs) : jobs[i] # Stop
  BY DEF ClosedBeforeStop
<1>3. TypeOK'
  BY <1>1, <1>2 DEF TypeOK
<1>4. ClosedBeforeStop' /\ ExitedEmpty' /\ HoldsJob' /\ RunningHeld'
  BY <1>1, <1>2 DEF TypeOK, ClosedBeforeStop, ExitedEmpty, HoldsJob, RunningHeld
<1>5. PendingSomewhere'
  BY <1>1 DEF TypeOK, PendingSomewhere
<1>6. QED
  BY <1>3, <1>4, <1>5

LEMMA ShutdownStep ==
  ASSUME IInv, Shutdown
  PROVE  IInv'
<1> USE TransportAssumption DEF IInv, Shutdown
<1>1. CASE Full
  BY <1>1 DEF TypeOK, ClosedBeforeStop, ExitedEmpty, HoldsJob, PendingSomewhere,
              RunningHeld
<1>2. CASE ~Full
  <2>1. /\ jobs' \in Seq(Jobs \cup {Stop}) /\ Len(jobs') = Len(jobs) + 1
        /\ \A i \in 1..Len(jobs) : jobs'[i] = jobs[i]
        /\ jobs'[Len(jobs) + 1] = Stop /\ Len(jobs) \in Nat
    BY <1>2, Appended DEF TypeOK
  <2>2. \A i \in 1..Len(jobs) : jobs[i] # Stop
    BY DEF ClosedBeforeStop
  <2>3. TypeOK'
    BY <1>2, <2>1, <2>2 DEF TypeOK
  <2>4. ClosedBeforeStop' /\ ExitedEmpty' /\ HoldsJob' /\ RunningHeld'
    BY <2>1 DEF TypeOK, ClosedBeforeStop, ExitedEmpty, HoldsJob, RunningHeld
  <2>5. PendingSomewhere'
    BY <2>1 DEF TypeOK, PendingSomewhere
  <2>6. QED
    BY <2>3, <2>4, <2>5
<1>3. QED
  BY <1>1, <1>2

\* The sentinel holds the last place, so the worker that takes it leaves nothing.
LEMMA TakeStep ==
  ASSUME IInv, Take
  PROVE  IInv'
<1> USE TransportAssumption DEF IInv, Take
<1>1. /\ jobs' \in Seq(Jobs \cup {Stop})
      /\ Len(jobs') = Len(jobs) - 1 /\ Len(jobs) \in Nat \ {0}
      /\ \A i \in 1..Len(jobs') : jobs'[i] = jobs[i + 1]
      /\ Head(jobs) = jobs[1]
  BY Taken DEF TypeOK
<1>2. jobs[1] \in Jobs \cup {Stop}
  <2>1. 1 \in 1..Len(jobs)
    BY <1>1
  <2>2. jobs \in Seq(Jobs \cup {Stop})
    BY DEF TypeOK
  <2>3. QED
    BY <2>1, <2>2
<1>3. TypeOK'
  <2>1. \A i \in 1..Len(jobs') : jobs'[i] = Stop => i = Len(jobs')
    <3> SUFFICES ASSUME NEW i \in 1..Len(jobs'), jobs'[i] = Stop
                 PROVE  i = Len(jobs')
      OBVIOUS
    <3>1. i + 1 \in 1..Len(jobs) /\ jobs[i + 1] = Stop
      BY <1>1
    <3>2. i + 1 = Len(jobs)
      BY <3>1 DEF TypeOK
    <3>3. i \in Nat
      BY <1>1
    <3>4. Len(jobs') = Len(jobs) - 1 /\ Len(jobs) \in Nat
      BY <1>1
    <3>5. ASSUME NEW m \in Nat, NEW n, n = m - 1, i + 1 = m PROVE i = n
      BY <3>3, <3>5
    <3>6. QED
      BY <3>2, <3>4, <3>5
  <2>2. Len(jobs') <= MaxQueue
    <3>1. Len(jobs) <= MaxQueue
      BY DEF TypeOK
    <3>2. QED
      BY <1>1, <3>1
  <2>3. QED
    BY <1>1, <1>2, <2>1, <2>2 DEF TypeOK
<1>4. ClosedBeforeStop'
  <2>1. ASSUME NEW i \in 1..Len(jobs'), jobs'[i] = Stop PROVE closed
    <3>1. i + 1 \in 1..Len(jobs) /\ jobs[i + 1] = Stop
      BY <1>1, <2>1
    <3>2. QED
      BY <3>1 DEF ClosedBeforeStop
  <2>2. QED
    BY <2>1 DEF ClosedBeforeStop
<1>5. ExitedEmpty'
  <2>1. CASE Head(jobs) = Stop
    <3>1. 1 \in 1..Len(jobs) /\ jobs[1] = Stop
      BY <1>1, <2>1
    <3>2. 1 = Len(jobs) /\ closed
      BY <3>1 DEF TypeOK, ClosedBeforeStop
    <3>3. Len(jobs') = 0
      BY <1>1, <3>2
    <3>4. jobs' = <<>>
      BY <1>1, <3>3
    <3>5. QED
      BY <3>2, <3>4 DEF ExitedEmpty
  <2>2. CASE Head(jobs) # Stop
    BY <2>2 DEF ExitedEmpty
  <2>3. QED
    BY <2>1, <2>2
<1>6. HoldsJob' /\ RunningHeld'
  BY <1>1, <1>2 DEF TypeOK, HoldsJob, RunningHeld
<1>7. PendingSomewhere'
  <2> SUFFICES ASSUME NEW j \in Jobs, fut[j] = "pending"
               PROVE  \/ \E i \in 1..Len(jobs') : jobs'[i] = j
                      \/ worker' = "taken" /\ current' = j
    BY DEF PendingSomewhere
  <2>1. PICK i \in 1..Len(jobs) : jobs[i] = j
    BY DEF PendingSomewhere
  <2>2. CASE i = 1
    BY <1>1, <2>1, <2>2
  <2>3. CASE i # 1
    <3>1. i - 1 \in 1..Len(jobs') /\ jobs'[i - 1] = j
      BY <1>1, <2>1, <2>3
    <3>2. QED
      BY <3>1
  <2>4. QED
    BY <2>2, <2>3
<1>8. QED
  BY <1>3, <1>4, <1>5, <1>6, <1>7

\* The invariant of the worker holds in every reachable state.
THEOREM Invariance == Spec => []IInv
<1>1. IInv /\ [Next]_vars => IInv'
  BY QueueKept, SubmitStep, ShutdownStep, TakeStep DEF Next, CallerStep, WorkerStep
<1>2. QED
  BY InitIInv, <1>1, PTL DEF Spec

\* Type correctness of the worker: the queue never exceeds its limit and the
\* sentinel holds its last place.
THEOREM TypeCorrect == Spec => []TypeOK
<1>1. IInv => TypeOK
  BY DEF IInv
<1>2. QED
  BY Invariance, <1>1, PTL

\* Submission, cancellation and shutdown in any order strand no accepted job.
THEOREM NoJobStranded == Spec => []NoneStranded
<1>1. IInv => NoneStranded
  <2> SUFFICES ASSUME IInv, worker = "exited", NEW j \in Jobs
               PROVE  fut[j] \notin {"pending", "running"}
    BY DEF NoneStranded
  <2>1. Len(jobs) = 0
    BY DEF IInv, ExitedEmpty
  <2>2. fut[j] # "pending"
    BY <2>1 DEF IInv, PendingSomewhere
  <2>3. fut[j] # "running"
    BY DEF IInv, RunningHeld
  <2>4. QED
    BY <2>2, <2>3
<1>2. QED
  BY Invariance, <1>1, PTL

=============================================================================
