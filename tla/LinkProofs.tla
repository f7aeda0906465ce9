-------------------------------- MODULE LinkProofs --------------------------------
(***************************************************************************)
(* The safety of the link, for any number of lifecycles, opens, drops and  *)
(* pauses: an open interface has exactly one holder, and a lifecycle that  *)
(* runs keeps its reconnect loop.                                          *)
(*                                                                         *)
(* An interface that is handed on has one holder before and after, so the  *)
(* steps that move interfaces are of few kinds (the lemmas on custody), and*)
(* which kind a step is follows from the stages of the workers and the     *)
(* phases of a disconnect.  The loop ends only on an open that brought     *)
(* nothing, and such an answer means that the lifecycle is over: between   *)
(* the two looks of an open that lost its race nobody but a probe of the   *)
(* same worker, which is busy, could empty the map of a lifecycle whose    *)
(* loop waits.                                                             *)
(***************************************************************************)
EXTENDS Link, TLAPS

\* The jobs of worker e: the one it does, then those that wait.
JobAt(e, n) == IF n = 0 THEN job[e] ELSE queue[e][n]

\* A worker's stage, its job and the interface it has built belong together.
StageFits ==
  \A e \in Lids :
    /\ stage[e] = "idle" => job[e] = NoJob
    /\ stage[e] \in {"open", "register", "orphan"} => job[e].kind = "open"
    /\ stage[e] \in {"probe", "drop"} => job[e].kind = "probe"
    /\ stage[e] = "close" => job[e].kind = "close"
    /\ held[e] = IF stage[e] \in {"register", "orphan"} THEN job[e].id ELSE None

\* A job is for an interface that an open has numbered, and comes from a loop that
\* is not younger than its worker.
JobFits(j, e) ==
  \/ j = NoJob
  \/ j.kind \in {"open", "probe"} /\ j.life \in 1..e /\ e <= lid /\ j.id \in 1..opens
  \/ j.kind = "close" /\ j.life = 0 /\ j.id \in Ifaces

JobsFit == \A e \in Lids : \A n \in 0..Len(queue[e]) : JobFits(JobAt(e, n), e)

\* An interface is held at a place, as in HeldOnce; one that an open job is to
\* build is planned.
Built(k, e, n, i) ==
  \/ k = "map" /\ e = 0 /\ n = 0 /\ attached = i
  \/ k = "detached" /\ e = 0 /\ n = 0 /\ detached = i
  \/ k = "loose" /\ e = 0 /\ n = 0 /\ i \in loose
  \/ k = "loop" /\ e \in Lids /\ n = 0 /\ dropped[e] = i
  \/ k = "worker" /\ e \in Lids /\ n = 0 /\ (held[e] = i \/ job[e] = Job("close", 0, i))
  \/ k = "worker" /\ e \in Lids /\ n \in 1..Len(queue[e]) /\ queue[e][n] = Job("close", 0, i)

Planned(e, n, i) ==
  /\ e \in Lids /\ n \in 0..Len(queue[e])
  /\ JobAt(e, n).kind = "open" /\ JobAt(e, n).id = i
  /\ n = 0 => stage[e] = "open"

\* Every open interface is at one place, every planned one in one job.
Custody ==
  /\ \A i \in Ifaces : \A k1, e1, k2, e2 : \A n1, n2 \in Nat :
       Built(k1, e1, n1, i) /\ Built(k2, e2, n2, i) => k1 = k2 /\ e1 = e2 /\ n1 = n2
  /\ \A i \in Ifaces : state[i] = "open" <=> \E k, e : \E n \in Nat : Built(k, e, n, i)
  /\ \A i \in Ifaces : \A e1, e2 : \A n1, n2 \in Nat :
       Planned(e1, n1, i) /\ Planned(e2, n2, i) => e1 = e2 /\ n1 = n2
  /\ \A i \in Ifaces : \A e : \A n \in Nat : Planned(e, n, i) => state[i] = "none"

\* What no open has numbered does not exist.
Unnumbered == \A i \in Ifaces : i > opens => state[i] = "none"

\* The generations of connect and disconnect, and of the loops.
Generations ==
  /\ exec \in Lids \cup {0}
  /\ phase = "up" => exec = lid /\ lid # 0
  /\ phase \in {"stopping", "closing", "shutdown"} => exec = lid - 1 /\ exec # 0
  /\ phase = "down" => exec = 0
  /\ phase \in {"closing", "shutdown", "down"} => attached = None
  /\ phase # "closing" => detached = None
  /\ \A l \in Lids : l > lid \/ (l = lid /\ phase # "up") =>
       loop[l] = "off" /\ reply[l] = "none" /\ ticket[l] = 0
  /\ \A l \in doomed : l < lid

\* What a loop waits for and holds fits the place where it is.
LoopFits ==
  \A l \in Lids :
    /\ ticket[l] # 0 => loop[l] = "opening"
    /\ dropped[l] # None => loop[l] = "dropping"
    /\ reply[l] # "none" => loop[l] \in {"opening", "probing"}
    /\ reply[l] = "nothing" => ~Active(l)

\* A probe of the interface that is in the map is in the worker of its lifecycle,
\* and the interface a probe looks at will not be registered again.
ProbesLocal ==
  \A e \in Lids : \A n \in 0..Len(queue[e]) :
    JobAt(e, n).kind = "probe" =>
      /\ state[JobAt(e, n).id] # "none"
      /\ \A w \in Lids : held[w] # JobAt(e, n).id
      /\ attached = JobAt(e, n).id => exec = e

\* An open that lost its race to another finds the winner, if its loop still waits.
OrphanFinds ==
  \A e \in Lids :
    stage[e] = "orphan" /\ Active(job[e].life) /\ Awaited(job[e]) => attached # None

IInv ==
  /\ TypeOK /\ StageFits /\ JobsFit /\ Custody /\ Unnumbered
  /\ Generations /\ LoopFits /\ ProbesLocal /\ OrphanFinds /\ LoopWatches

-----------------------------------------------------------------------------
(* What the operations on a queue do.                                      *)

LEMMA SubmitEffect ==
  ASSUME queue \in [Lids -> Seq(JobRecords)], NEW e \in Lids, NEW j \in JobRecords,
         Submitted(e, j)
  PROVE  /\ queue' \in [Lids -> Seq(JobRecords)]
         /\ Len(queue'[e]) = Len(queue[e]) + 1 /\ queue'[e][Len(queue[e]) + 1] = j
         /\ \A n \in 1..Len(queue[e]) : queue'[e][n] = queue[e][n]
         /\ \A x \in Lids \ {e} : queue'[x] = queue[x]
<1>. DEFINE q == Append(queue[e], j)
<1>1. /\ q \in Seq(JobRecords) /\ Len(q) = Len(queue[e]) + 1 /\ q[Len(queue[e]) + 1] = j
      /\ \A n \in 1..Len(queue[e]) : q[n] = queue[e][n]
  OBVIOUS
<1>2. queue' = [queue EXCEPT ![e] = q]
  BY DEF Submitted
<1>. HIDE DEF q
<1>. QED
  BY <1>1, <1>2

LEMMA TakeEffect ==
  ASSUME TypeOK, NEW e \in Lids, Take(e)
  PROVE  /\ queue' \in [Lids -> Seq(JobRecords)]
         /\ Len(queue[e]) >= 1 /\ Len(queue'[e]) = Len(queue[e]) - 1
         /\ \A n \in 1..Len(queue[e]) - 1 : queue'[e][n] = queue[e][n + 1]
         /\ \A x \in Lids \ {e} : queue'[x] = queue[x]
         /\ job' = [job EXCEPT ![e] = queue[e][1]] /\ queue[e][1] \in JobRecords
<1>. DEFINE q == Tail(queue[e])
<1>1. queue[e] \in Seq(JobRecords) /\ queue[e] # <<>>
  BY DEF TypeOK, Take
<1>2. /\ q \in Seq(JobRecords) /\ Len(queue[e]) >= 1 /\ Len(q) = Len(queue[e]) - 1
      /\ \A n \in 1..Len(queue[e]) - 1 : q[n] = queue[e][n + 1]
      /\ Head(queue[e]) = queue[e][1] /\ queue[e][1] \in JobRecords
  BY <1>1
<1>3. queue' = [queue EXCEPT ![e] = q] /\ job' = [job EXCEPT ![e] = Head(queue[e])]
  BY DEF Take
<1>4. queue \in [Lids -> Seq(JobRecords)]
  BY DEF TypeOK
<1>. HIDE DEF q
<1>. QED
  BY <1>2, <1>3, <1>4

\* A cancelled probe is skipped; nothing else in a queue changes.
LEMMA CancelEffect ==
  ASSUME TypeOK, NEW l \in Lids, LoopCancelled(l)
  PROVE  /\ queue' \in [Lids -> Seq(JobRecords)]
         /\ \A e \in Lids : Len(queue'[e]) = Len(queue[e])
         /\ \A e \in Lids : \A n \in 1..Len(queue[e]) :
              \/ queue'[e][n] = queue[e][n]
              \/ queue[e][n].kind = "probe" /\ queue'[e][n] = NoJob
<1>1. CASE ~At(l, "probing")
  BY <1>1 DEF LoopCancelled, TypeOK
<1>2. CASE At(l, "probing")
  <2>. DEFINE q(e) == [n \in 1..Len(queue[e]) |-> Skipped(l, queue[e][n])]
  <2>1. queue' = [e \in Lids |-> q(e)]
    BY <1>2 DEF LoopCancelled
  <2>2. ASSUME NEW e \in Lids
        PROVE  /\ q(e) \in Seq(JobRecords) /\ Len(q(e)) = Len(queue[e])
               /\ \A n \in 1..Len(queue[e]) : q(e)[n] = Skipped(l, queue[e][n])
    <3>1. queue[e] \in Seq(JobRecords) /\ NoJob \in JobRecords
      <4>1. NoJob \in JobRecords
        BY LinkAssumption DEF NoJob, JobRecords, JobKinds
      <4>. QED
        BY <4>1 DEF TypeOK
    <3>2. \A n \in 1..Len(queue[e]) : Skipped(l, queue[e][n]) \in JobRecords
      BY <3>1 DEF Skipped
    <3>. QED
      BY <3>1, <3>2
  <2>. HIDE DEF q
  <2>. QED
    BY <2>1, <2>2 DEF Skipped
<1>. QED
  BY <1>1, <1>2

-----------------------------------------------------------------------------
(* Custody: the kinds of steps.  What is held where is all they speak of.  *)

\* Nothing is moved; a plan may be given up.
LEMMA CustodyStays ==
  ASSUME Custody, UNCHANGED state,
         \A k, e : \A n \in Nat : \A i \in Ifaces : Built(k, e, n, i)' <=> Built(k, e, n, i),
         \A e : \A n \in Nat : \A i \in Ifaces : Planned(e, n, i)' => Planned(e, n, i)
  PROVE  Custody'
BY DEF Custody

\* One interface is handed on.
LEMMA CustodyMoves ==
  ASSUME Custody, UNCHANGED state, NEW i \in Ifaces, state[i] = "open",
         NEW k2, NEW e2, NEW n2 \in Nat,
         \A k, e : \A n \in Nat : \A x \in Ifaces :
           Built(k, e, n, x)' <=> IF x = i THEN <<k, e, n>> = <<k2, e2, n2>> ELSE Built(k, e, n, x),
         \A e : \A n \in Nat : \A x \in Ifaces : Planned(e, n, x)' => Planned(e, n, x)
  PROVE  Custody'
BY DEF Custody

\* One interface is closed.
LEMMA CustodyEnds ==
  ASSUME Custody, state \in [Ifaces -> {"none", "open", "closed"}], NEW i \in Ifaces,
         state[i] = "open", state' = [state EXCEPT ![i] = "closed"],
         \A k, e : \A n \in Nat : \A x \in Ifaces :
           Built(k, e, n, x)' <=> x # i /\ Built(k, e, n, x),
         \A e : \A n \in Nat : \A x \in Ifaces : Planned(e, n, x)' => Planned(e, n, x)
  PROVE  Custody'
<1>1. \A x \in Ifaces : state'[x] = IF x = i THEN "closed" ELSE state[x]
  OBVIOUS
<1>. QED
  BY <1>1 DEF Custody

\* A planned interface is built.
LEMMA CustodyBegins ==
  ASSUME Custody, state \in [Ifaces -> {"none", "open", "closed"}], NEW i \in Ifaces,
         NEW e1, NEW n1 \in Nat, Planned(e1, n1, i),
         state' = [state EXCEPT ![i] = "open"],
         \A k, e : \A n \in Nat : \A x \in Ifaces :
           Built(k, e, n, x)' <=> Built(k, e, n, x) \/ <<k, e, n, x>> = <<"worker", e1, n1, i>>,
         \A e : \A n \in Nat : \A x \in Ifaces :
           Planned(e, n, x)' => Planned(e, n, x) /\ x # i
  PROVE  Custody'
<1>1. state[i] = "none" /\ \A k, e : \A n \in Nat : ~Built(k, e, n, i)
  BY DEF Custody
<1>2. \A x \in Ifaces : state'[x] = IF x = i THEN "open" ELSE state[x]
  OBVIOUS
<1>. QED
  BY <1>1, <1>2 DEF Custody

\* An open is submitted.
LEMMA CustodyPlans ==
  ASSUME Custody, UNCHANGED state, NEW i \in Ifaces, state[i] = "none",
         \A e : \A n \in Nat : ~Planned(e, n, i),
         NEW e1, NEW n1 \in Nat,
         \A k, e : \A n \in Nat : \A x \in Ifaces : Built(k, e, n, x)' <=> Built(k, e, n, x),
         \A e : \A n \in Nat : \A x \in Ifaces :
           Planned(e, n, x)' => Planned(e, n, x) \/ <<e, n, x>> = <<e1, n1, i>>
  PROVE  Custody'
BY DEF Custody

\* A worker takes its next job, and those that wait move up.
LEMMA CustodyShifts ==
  ASSUME Custody, UNCHANGED state, NEW e1,
         \A i \in Ifaces : ~Built("worker", e1, 0, i) /\ ~Planned(e1, 0, i),
         \A k, e : \A n \in Nat : \A x \in Ifaces :
           Built(k, e, n, x)' <=> IF k = "worker" /\ e = e1 THEN Built(k, e, n + 1, x)
                                                             ELSE Built(k, e, n, x),
         \A e : \A n \in Nat : \A x \in Ifaces :
           Planned(e, n, x)' <=> IF e = e1 THEN Planned(e, n + 1, x) ELSE Planned(e, n, x)
  PROVE  Custody'
<1>1. \A i \in Ifaces : \A k1, e2, k2, e3 : \A n1, n2 \in Nat :
        Built(k1, e2, n1, i)' /\ Built(k2, e3, n2, i)' => k1 = k2 /\ e2 = e3 /\ n1 = n2
  BY DEF Custody
<1>2. ASSUME NEW i \in Ifaces
      PROVE  (state[i] = "open" <=> \E k, e : \E n \in Nat : Built(k, e, n, i))'
  <2>1. ASSUME NEW k, NEW e, NEW n \in Nat, Built(k, e, n, i)
        PROVE  \E x, y : \E m \in Nat : Built(x, y, m, i)'
    <3>1. CASE k = "worker" /\ e = e1
      <4>1. n # 0 /\ n - 1 \in Nat /\ (n - 1) + 1 = n
        BY <2>1, <3>1
      <4>. QED
        BY <2>1, <3>1, <4>1
    <3>. QED
      BY <2>1, <3>1
  <2>. QED
    BY <2>1 DEF Custody
<1>3. \A i \in Ifaces : \A e2, e3 : \A n1, n2 \in Nat :
        Planned(e2, n1, i)' /\ Planned(e3, n2, i)' => e2 = e3 /\ n1 = n2
  BY DEF Custody
<1>4. \A i \in Ifaces : \A e : \A n \in Nat : Planned(e, n, i)' => state[i]' = "none"
  BY DEF Custody
<1>. QED
  BY <1>1, <1>2, <1>3, <1>4 DEF Custody

-----------------------------------------------------------------------------
(* The steps.                                                              *)

\* Disjuncts that a proof looks at one by one.
LEMMA Cases ==
  ASSUME Next
  PROVE  \/ Connect \/ Disconnect \/ Detach \/ CloseDetached \/ Shutdown
         \/ (\E kind \in {"timed", "untimed"} : PauseLink(kind)) \/ ResumeLink \/ DeadlinePasses
         \/ \E l \in Lids :
              \/ Tick(l) \/ Expire(l) \/ Wait(l) \/ StartPolling(l) \/ Wakes(l)
              \/ NoExecutor(l) \/ OpenReturns(l) \/ OpenTimesOut(l) \/ ProbeReturns(l)
              \/ PollsAgain(l)
         \/ \E l \in Lids :
              \/ Pops(l) \/ CloseDropped(l) \/ SubmitOpen(l) \/ Poll(l) \/ LoopCancelled(l)
         \/ \E e \in Lids :
              \/ Take(e) \/ CloseInterface(e) \/ Construct(e) \/ ConstructFails(e)
              \/ Register(e) \/ Orphan(e) \/ Probe(e) \/ Drop(e)
         \/ \E i \in Ifaces : CloseLoose(i) \/ LinkDrops(i)
BY DEF Next, LoopStep, WorkerStep, TeardownStep

\* An answer goes to the loop of the job, if it waits for it.
LEMMA AnswersEffect ==
  ASSUME TypeOK, NEW e \in Lids,
         NEW a \in {"error", "nothing", "interface", "alive", "dead", "gone"}, Answers(e, a)
  PROVE  /\ reply' \in [Lids -> {"none", "error", "nothing", "interface", "alive", "dead", "gone"}]
         /\ \A l \in Lids : reply'[l] # reply[l] =>
              l = job[e].life /\ Awaited(job[e]) /\ reply'[l] = a
<1>1. reply' = reply \/ (Awaited(job[e]) /\ reply' = [reply EXCEPT ![job[e].life] = a])
  BY DEF Answers
<1>. QED
  BY SMTT(30), <1>1 DEF TypeOK

LEMMA EndsEffect ==
  ASSUME TypeOK, NEW e \in Lids, Ends(e)
  PROVE  /\ stage' \in [Lids -> {"idle", "open", "register", "orphan", "probe", "drop", "close"}]
         /\ job' \in [Lids -> JobRecords] /\ held' \in [Lids -> Ifaces \cup {None}]
         /\ stage'[e] = "idle" /\ job'[e] = NoJob /\ held'[e] = None
         /\ \A x \in Lids \ {e} : stage'[x] = stage[x] /\ job'[x] = job[x] /\ held'[x] = held[x]
<1>1. NoJob \in JobRecords
  BY LinkAssumption DEF NoJob, JobRecords, JobKinds
<1>. QED
  BY <1>1 DEF TypeOK, Ends

LEMMA JobFacts ==
  ASSUME TypeOK, JobsFit, NEW e \in Lids
  PROVE  /\ JobFits(job[e], e) /\ Len(queue[e]) \in Nat
         /\ \A n \in 1..Len(queue[e]) : JobFits(queue[e][n], e)
<1>1. Len(queue[e]) \in Nat
  BY DEF TypeOK
<1>2. JobFits(JobAt(e, 0), e)
  BY <1>1 DEF JobsFit
<1>3. ASSUME NEW n \in 1..Len(queue[e]) PROVE JobFits(queue[e][n], e)
  <2>1. n \in 0..Len(queue[e]) /\ n # 0
    BY <1>1
  <2>. QED
    BY <2>1 DEF JobsFit, JobAt
<1>. QED
  BY <1>1, <1>2, <1>3 DEF JobAt

\* Every step keeps the types.
LEMMA TypeStep ==
  ASSUME TypeOK, StageFits, JobsFit, Generations, LoopFits, Next
  PROVE  TypeOK'
<1>. USE LinkAssumption
<1>. USE DEF TypeOK, LoopLabels, Lids, Ifaces, lifeVars, ifaceVars, loopVars, workVars, pauseVars
<1>. USE DEF At, Goes, Stage
<1>1. CASE Connect
  BY SMTT(30), <1>1 DEF Connect
<1>2. CASE Disconnect
  BY <1>2 DEF Disconnect
<1>3. CASE Detach
  BY <1>3 DEF Detach
<1>4. CASE CloseDetached
  <2>1. queue' \in [Lids -> Seq(JobRecords)]
    <3>1. CASE detached = None
      BY <1>4, <3>1 DEF CloseDetached
    <3>2. CASE ~(detached = None)
      <4>1. Job("close", 0, detached) \in JobRecords /\ exec \in Lids
        BY <1>4, <3>2 DEF CloseDetached, Job, JobRecords, JobKinds, Generations
      <4>2. Submitted(exec, Job("close", 0, detached))
        BY <1>4, <3>2 DEF CloseDetached
      <4>. QED
        BY <4>1, <4>2, SubmitEffect
    <3>. QED
      BY <3>1, <3>2
  <2>. QED
    BY <1>4, <2>1 DEF CloseDetached
<1>5. CASE Shutdown
  BY <1>5 DEF Shutdown
<1>6. ASSUME NEW kind \in {"timed", "untimed"}, PauseLink(kind) PROVE TypeOK'
  BY <1>6 DEF PauseLink
<1>7. CASE ResumeLink
  BY <1>7 DEF ResumeLink
<1>8. CASE DeadlinePasses
  BY <1>8 DEF DeadlinePasses
<1>9. ASSUME NEW l \in Lids, Tick(l) PROVE TypeOK'
  BY <1>9 DEF Tick
<1>10. ASSUME NEW l \in Lids, Expire(l) PROVE TypeOK'
  BY <1>10 DEF Expire
<1>11. ASSUME NEW l \in Lids, Wait(l) PROVE TypeOK'
  BY <1>11 DEF Wait
<1>12. ASSUME NEW l \in Lids, StartPolling(l) PROVE TypeOK'
  BY <1>12 DEF StartPolling
<1>13. ASSUME NEW l \in Lids, Wakes(l) PROVE TypeOK'
  BY <1>13 DEF Wakes
<1>14. ASSUME NEW l \in Lids, NoExecutor(l) PROVE TypeOK'
  BY <1>14 DEF NoExecutor
<1>15. ASSUME NEW l \in Lids, OpenReturns(l) PROVE TypeOK'
  BY SMTT(30), <1>15 DEF OpenReturns
<1>16. ASSUME NEW l \in Lids, OpenTimesOut(l) PROVE TypeOK'
  BY <1>16 DEF OpenTimesOut
<1>17. ASSUME NEW l \in Lids, ProbeReturns(l) PROVE TypeOK'
  BY <1>17 DEF ProbeReturns
<1>18. ASSUME NEW l \in Lids, PollsAgain(l) PROVE TypeOK'
  BY <1>18 DEF PollsAgain
<1>19. ASSUME NEW l \in Lids, Pops(l) PROVE TypeOK'
  BY ZenonT(60), <1>19 DEF Pops
<1>20. ASSUME NEW l \in Lids, CloseDropped(l) PROVE TypeOK'
  <2>1. queue' \in [Lids -> Seq(JobRecords)]
    <3>1. CASE ~HasDropped(l) \/ exec = 0
      BY <1>20, <3>1 DEF CloseDropped
    <3>2. CASE ~(~HasDropped(l) \/ exec = 0)
      <4>1. Job("close", 0, dropped[l]) \in JobRecords /\ exec \in Lids
        BY <1>20, <3>2 DEF CloseDropped, Job, JobRecords, JobKinds, HasDropped
      <4>2. Submitted(exec, Job("close", 0, dropped[l]))
        BY <1>20, <3>2 DEF CloseDropped, HasDropped, Loosen
      <4>. QED
        BY <4>1, <4>2, SubmitEffect
    <3>. QED
      BY <3>1, <3>2
  <2>. QED
    BY SMTT(30), <1>20, <2>1 DEF CloseDropped, HasDropped, Loosen
<1>21. ASSUME NEW l \in Lids, SubmitOpen(l) PROVE TypeOK'
  <2>1. opens' \in Ifaces /\ Job("open", l, opens') \in JobRecords /\ exec \in Lids
    BY <1>21 DEF SubmitOpen, Job, JobRecords, JobKinds
  <2>2. queue' \in [Lids -> Seq(JobRecords)]
    BY <1>21, <2>1, SubmitEffect DEF SubmitOpen
  <2>3. loop' \in [Lids -> LoopLabels] /\ ticket' \in [Lids -> 0..MaxOpens] /\ opens' \in 0..MaxOpens
    BY <1>21, <2>1 DEF SubmitOpen
  <2>4. UNCHANGED <<lifeVars, attached, ifaceVars, dropped, doomed, reply, workVars, pauseVars>>
    BY <1>21 DEF SubmitOpen
  <2>. QED
    BY <2>2, <2>3, <2>4
<1>22. ASSUME NEW l \in Lids, Poll(l) PROVE TypeOK'
  <2>1. queue' \in [Lids -> Seq(JobRecords)]
    <3>1. CASE ~MayPoll(l)
      BY <1>22, <3>1 DEF Poll
    <3>2. CASE ~(~MayPoll(l))
      <4>1. Job("probe", l, attached) \in JobRecords /\ exec \in Lids
        BY <1>22, <3>2 DEF Poll, Job, JobRecords, JobKinds, MayPoll
      <4>2. Submitted(exec, Job("probe", l, attached))
        BY <1>22, <3>2 DEF Poll
      <4>. QED
        BY <4>1, <4>2, SubmitEffect
    <3>. QED
      BY <3>1, <3>2
  <2>. QED
    BY <1>22, <2>1 DEF Poll
<1>23. ASSUME NEW l \in Lids, LoopCancelled(l) PROVE TypeOK'
  <2>1. queue' \in [Lids -> Seq(JobRecords)]
    BY <1>23, CancelEffect
  <2>2. /\ loop' \in [Lids -> LoopLabels] /\ ticket' \in [Lids -> 0..MaxOpens] /\ doomed' \subseteq Lids
        /\ reply' \in [Lids -> {"none", "error", "nothing", "interface", "alive", "dead", "gone"}]
    BY SMTT(30), <1>23 DEF LoopCancelled
  <2>3. UNCHANGED <<lifeVars, attached, ifaceVars, dropped, workVars, pauseVars, opens>>
    BY <1>23 DEF LoopCancelled
  <2>. QED
    BY <2>1, <2>2, <2>3
<1>24. ASSUME NEW e \in Lids, Take(e) PROVE TypeOK'
  <2>1. queue' \in [Lids -> Seq(JobRecords)] /\ queue[e][1] \in JobRecords /\ job' = [job EXCEPT ![e] = queue[e][1]]
    BY <1>24, TakeEffect
  <2>2. Head(queue[e]) = queue[e][1] /\ Len(queue[e]) >= 1
    <3>1. queue[e] \in Seq(JobRecords) /\ queue[e] # <<>>
      BY <1>24 DEF Take
    <3>. QED
      BY ONLY <3>1
  <2>3. queue[e][1].kind \in {"open", "probe", "close"} \/ queue[e][1] = NoJob
    <3>1. 1 \in 1..Len(queue[e])
      <4>1. Len(queue[e]) \in Nat
        BY <1>24, JobFacts
      <4>. QED
        BY ONLY <2>2, <4>1
    <3>2. JobFits(queue[e][1], e)
      BY <1>24, <3>1, JobFacts
    <3>. QED
      BY <3>2 DEF JobFits
  <2>4. stage' \in [Lids -> {"idle", "open", "register", "orphan", "probe", "drop", "close"}]
    BY <1>24, <2>2, <2>3 DEF Take
  <2>5. UNCHANGED <<lifeVars, attached, ifaceVars, loopVars, reply, held, pauseVars, opens>>
    BY <1>24 DEF Take
  <2>. QED
    BY <2>1, <2>4, <2>5
<1>25. ASSUME NEW e \in Lids, CloseInterface(e) PROVE TypeOK'
  <2>1. state' \in [Ifaces -> {"none", "open", "closed"}]
    BY <1>25 DEF CloseInterface, Closed
  <2>. QED
    BY <1>25, <2>1, EndsEffect DEF CloseInterface
<1>26. ASSUME NEW e \in Lids, Construct(e) PROVE TypeOK'
  <2>1. job[e].id \in Ifaces
    <3>1. JobFits(job[e], e) /\ job[e].kind = "open"
      BY <1>26, JobFacts DEF Construct, StageFits
    <3>. QED
      BY <3>1 DEF JobFits, NoJob
  <2>. QED
    BY <1>26, <2>1 DEF Construct
<1>27. ASSUME NEW e \in Lids, ConstructFails(e) PROVE TypeOK'
  BY <1>27, EndsEffect, AnswersEffect DEF ConstructFails
<1>28. ASSUME NEW e \in Lids, Register(e) PROVE TypeOK'
  <2>1. CASE MayRegister(e)
    <3>1. attached' = held[e] /\ Ends(e)
      BY <1>28, <2>1 DEF Register
    <3>2. reply' \in [Lids -> {"none", "error", "nothing", "interface", "alive", "dead", "gone"}]
      BY <1>28, <2>1, AnswersEffect DEF Register
    <3>. QED
      BY <1>28, <3>1, <3>2, EndsEffect DEF Register
  <2>2. CASE ~MayRegister(e)
    BY <1>28, <2>2 DEF Register
  <2>. QED
    BY <2>1, <2>2
<1>29. ASSUME NEW e \in Lids, Orphan(e) PROVE TypeOK'
  <2>1. state' \in [Ifaces -> {"none", "open", "closed"}]
    BY <1>29 DEF Orphan, Closed
  <2>2. Ends(e)
    BY <1>29 DEF Orphan
  <2>3. reply' \in [Lids -> {"none", "error", "nothing", "interface", "alive", "dead", "gone"}]
    BY <1>29, AnswersEffect DEF Orphan
  <2>. QED
    BY <1>29, <2>1, <2>2, <2>3, EndsEffect DEF Orphan
<1>30. ASSUME NEW e \in Lids, Probe(e) PROVE TypeOK'
  <2>1. CASE attached = job[e].id /\ job[e].id \in dead
    BY <1>30, <2>1 DEF Probe
  <2>2. CASE ~(attached = job[e].id /\ job[e].id \in dead)
    BY <1>30, <2>2, EndsEffect, AnswersEffect DEF Probe
  <2>. QED
    BY <2>1, <2>2
<1>31. ASSUME NEW e \in Lids, Drop(e) PROVE TypeOK'
  <2>1. state' \in [Ifaces -> {"none", "open", "closed"}]
    BY <1>31 DEF Drop, Closed
  <2>2. Ends(e)
    BY <1>31 DEF Drop
  <2>3. reply' \in [Lids -> {"none", "error", "nothing", "interface", "alive", "dead", "gone"}]
    BY <1>31, AnswersEffect DEF Drop
  <2>. QED
    BY ZenonT(60), <1>31, <2>1, <2>2, <2>3, EndsEffect DEF Drop
<1>32. ASSUME NEW i \in Ifaces, CloseLoose(i) \/ LinkDrops(i) PROVE TypeOK'
  BY <1>32 DEF CloseLoose, LinkDrops, Closed
<1>. QED
  BY <1>1, <1>2, <1>3, <1>4, <1>5, <1>6, <1>7, <1>8, <1>9, <1>10, <1>11, <1>12, <1>13, <1>14, <1>15,
     <1>16, <1>17, <1>18, <1>19, <1>20, <1>21, <1>22, <1>23, <1>24, <1>25, <1>26, <1>27, <1>28, <1>29,
     <1>30, <1>31, <1>32, Cases

\* What the pause, the clock, a peer that goes away and most steps of a loop leave
\* alone: all that is held, queued or in work.
quietVars == <<lifeVars, attached, state, loose, dropped, doomed, queue, workVars, opens>>

LEMMA Quiet ==
  ASSUME Next
  PROVE  \/ UNCHANGED quietVars
         \/ Connect \/ Disconnect \/ Detach \/ CloseDetached \/ Shutdown
         \/ \E l \in Lids :
              Pops(l) \/ CloseDropped(l) \/ SubmitOpen(l) \/ Poll(l) \/ LoopCancelled(l)
         \/ \E e \in Lids :
              \/ Take(e) \/ CloseInterface(e) \/ Construct(e) \/ ConstructFails(e)
              \/ Register(e) \/ Orphan(e) \/ Probe(e) \/ Drop(e)
         \/ \E i \in Ifaces : CloseLoose(i)
<1>. USE DEF quietVars, lifeVars, ifaceVars, loopVars, workVars, pauseVars
<1>1. ASSUME NEW kind \in {"timed", "untimed"}, PauseLink(kind) PROVE UNCHANGED quietVars
  BY <1>1 DEF PauseLink
<1>2. CASE ResumeLink \/ DeadlinePasses
  BY <1>2 DEF ResumeLink, DeadlinePasses
<1>3. ASSUME NEW l \in Lids,
             \/ Tick(l) \/ Expire(l) \/ Wait(l) \/ StartPolling(l) \/ Wakes(l)
             \/ NoExecutor(l) \/ OpenReturns(l) \/ OpenTimesOut(l) \/ ProbeReturns(l)
             \/ PollsAgain(l)
      PROVE  UNCHANGED quietVars
  BY <1>3 DEF Tick, Expire, Wait, StartPolling, Wakes, NoExecutor, OpenReturns, OpenTimesOut,
              ProbeReturns, PollsAgain
<1>4. ASSUME NEW i \in Ifaces, LinkDrops(i) PROVE UNCHANGED quietVars
  BY <1>4 DEF LinkDrops
<1>. QED
  BY <1>1, <1>2, <1>3, <1>4, Cases

\* Only its own steps change what a worker does.
LEMMA StageStep ==
  ASSUME TypeOK, StageFits, JobsFit, Next
  PROVE  StageFits'
<1>1. CASE UNCHANGED workVars
  BY <1>1 DEF StageFits, workVars
<1>2. ASSUME NEW e \in Lids, Take(e) PROVE StageFits'
  <2>1. /\ job' = [job EXCEPT ![e] = queue[e][1]] /\ Len(queue[e]) >= 1
        /\ Head(queue[e]) = queue[e][1]
    <3>1. queue[e] \in Seq(JobRecords) /\ queue[e] # <<>>
      BY <1>2 DEF Take, TypeOK
    <3>2. Head(queue[e]) = queue[e][1]
      BY ONLY <3>1
    <3>. QED
      BY <1>2, <3>2, TakeEffect
  <2>2. JobFits(queue[e][1], e)
    <3>1. 1 \in 1..Len(queue[e])
      BY <2>1, JobFacts
    <3>. QED
      BY <3>1, JobFacts
  <2>3. /\ stage[e] = "idle" /\ held' = held
        /\ stage' = [stage EXCEPT ![e] = IF queue[e][1] = NoJob THEN "idle" ELSE queue[e][1].kind]
    BY <1>2, <2>1 DEF Take, Stage
  <2>4. stage \in [Lids -> {"idle", "open", "register", "orphan", "probe", "drop", "close"}]
        /\ job \in [Lids -> JobRecords]
    BY DEF TypeOK
  <2>5. queue[e][1] = NoJob \/ queue[e][1].kind \in {"open", "probe", "close"}
    BY <2>2 DEF JobFits
  <2>. QED
    BY <2>1, <2>3, <2>4, <2>5 DEF StageFits
<1>3. ASSUME NEW e \in Lids, Ends(e) PROVE StageFits'
  BY <1>3, EndsEffect DEF StageFits
<1>4. ASSUME NEW e \in Lids, Construct(e) PROVE StageFits'
  BY <1>4 DEF Construct, StageFits, Stage, TypeOK
<1>5. ASSUME NEW e \in Lids, Register(e), ~MayRegister(e) PROVE StageFits'
  BY <1>5 DEF Register, StageFits, Stage, TypeOK
<1>6. ASSUME NEW e \in Lids, Probe(e), ~Ends(e) PROVE StageFits'
  BY <1>6 DEF Probe, StageFits, Stage, TypeOK
<1>7. \/ UNCHANGED workVars
      \/ \E e \in Lids : \/ Take(e) \/ Ends(e) \/ Construct(e) \/ (Register(e) /\ ~MayRegister(e))
                         \/ (Probe(e) /\ ~Ends(e))
  <2>1. CASE UNCHANGED quietVars
    BY <2>1 DEF quietVars
  <2>2. CASE Connect \/ Disconnect \/ Detach \/ CloseDetached \/ Shutdown
    BY <2>2 DEF Connect, Disconnect, Detach, CloseDetached, Shutdown
  <2>3. ASSUME NEW l \in Lids,
               Pops(l) \/ CloseDropped(l) \/ SubmitOpen(l) \/ Poll(l) \/ LoopCancelled(l)
        PROVE  UNCHANGED workVars
    BY <2>3 DEF Pops, CloseDropped, SubmitOpen, Poll, LoopCancelled
  <2>4. ASSUME NEW i \in Ifaces, CloseLoose(i) PROVE UNCHANGED workVars
    BY <2>4 DEF CloseLoose
  <2>5. ASSUME NEW e \in Lids,
               \/ CloseInterface(e) \/ ConstructFails(e) \/ Orphan(e) \/ Drop(e)
               \/ (Register(e) /\ MayRegister(e))
        PROVE  Ends(e)
    BY <2>5 DEF CloseInterface, ConstructFails, Orphan, Drop, Register
  <2>. QED
    BY <2>1, <2>2, <2>3, <2>4, <2>5, Quiet
<1>. QED
  BY <1>1, <1>2, <1>3, <1>4, <1>5, <1>6, <1>7

\* What a job says stays true: opens and generations only grow.
LEMMA FitsStays ==
  ASSUME NEW e \in Lids, NEW j, JobFits(j, e), {lid, opens, lid', opens'} \subseteq Nat,
         lid' >= lid, opens' >= opens
  PROVE  JobFits(j, e)'
<1>1. e \in Nat
  BY LinkAssumption DEF Lids
<1>. QED
  BY <1>1 DEF JobFits

LEMMA Grows ==
  ASSUME TypeOK, Next
  PROVE  /\ lid \in Nat /\ opens \in Nat /\ lid' \in Nat /\ opens' \in Nat
         /\ lid' >= lid /\ opens' >= opens
<1>. USE DEF lifeVars
<1>1. lid \in Nat /\ opens \in Nat
  BY LinkAssumption DEF TypeOK
<1>2. \/ UNCHANGED <<lid, opens>> \/ (lid' = lid + 1 /\ opens' = opens)
      \/ (lid' = lid /\ opens' = opens + 1)
  <2>1. CASE UNCHANGED quietVars
    BY <2>1 DEF quietVars
  <2>2. CASE Connect \/ Disconnect \/ Detach \/ CloseDetached \/ Shutdown
    BY <2>2 DEF Connect, Disconnect, Detach, CloseDetached, Shutdown
  <2>3. ASSUME NEW l \in Lids,
               Pops(l) \/ CloseDropped(l) \/ SubmitOpen(l) \/ Poll(l) \/ LoopCancelled(l)
        PROVE  \/ UNCHANGED <<lid, opens>> \/ (lid' = lid /\ opens' = opens + 1)
    BY <2>3 DEF Pops, CloseDropped, SubmitOpen, Poll, LoopCancelled
  <2>4. ASSUME NEW i \in Ifaces, CloseLoose(i) PROVE UNCHANGED <<lid, opens>>
    BY <2>4 DEF CloseLoose
  <2>5. ASSUME NEW e \in Lids,
               \/ Take(e) \/ CloseInterface(e) \/ Construct(e) \/ ConstructFails(e)
               \/ Register(e) \/ Orphan(e) \/ Probe(e) \/ Drop(e)
        PROVE  UNCHANGED <<lid, opens>>
    BY <2>5 DEF Take, CloseInterface, Construct, ConstructFails, Register, Orphan, Probe, Drop
  <2>. QED
    BY <2>1, <2>2, <2>3, <2>4, <2>5, Quiet
<1>. QED
  BY <1>1, <1>2

LEMMA JobStep ==
  ASSUME TypeOK, StageFits, JobsFit, Generations, Custody, Unnumbered, LoopFits, Next
  PROVE  JobsFit'
<1>. USE DEF lifeVars, workVars
<1>1. ASSUME NEW e \in Lids, NEW j, JobFits(j, e) PROVE JobFits(j, e)'
  BY <1>1, FitsStays, Grows
<1>2. CASE UNCHANGED <<queue, job>>
  BY <1>1, <1>2 DEF JobsFit, JobAt
<1>3. ASSUME NEW e \in Lids, NEW j \in JobRecords, Submitted(e, j), JobFits(j, e)', job' = job
      PROVE  JobsFit'
  <2>1. ASSUME NEW x \in Lids, NEW n \in 0..Len(queue'[x])
        PROVE  JobFits(JobAt(x, n), x)'
    <3>1. CASE n = 0
      BY <1>1, <1>3, <3>1, JobFacts DEF JobAt
    <3>2. CASE n # 0 /\ x # e
      <4>1. queue'[x] = queue[x]
        BY <1>3, <3>2, SubmitEffect DEF TypeOK
      <4>. QED
        BY <1>1, <3>2, <4>1, JobFacts DEF JobAt
    <3>3. CASE n # 0 /\ x = e
      <4>1. /\ Len(queue'[e]) = Len(queue[e]) + 1 /\ queue'[e][Len(queue[e]) + 1] = j
            /\ \A m \in 1..Len(queue[e]) : queue'[e][m] = queue[e][m]
        BY <1>3, SubmitEffect DEF TypeOK
      <4>2. n = Len(queue[e]) + 1 \/ n \in 1..Len(queue[e])
        BY <3>3, <4>1, JobFacts
      <4>3. JobFits(queue[e][n], e)'
        BY <1>1, <1>3, <4>1, <4>2, JobFacts
      <4>. QED
        BY <3>3, <4>3 DEF JobAt
    <3>. QED
      BY <3>1, <3>2, <3>3
  <2>. QED
    BY <2>1 DEF JobsFit
<1>4. CASE CloseDetached
  <2>1. CASE detached = None
    BY <1>2, <1>4, <2>1 DEF CloseDetached
  <2>2. CASE detached # None
    <3>1. exec \in Lids /\ Job("close", 0, detached) \in JobRecords /\ detached \in Ifaces
      BY <1>4, <2>2, LinkAssumption
         DEF CloseDetached, Generations, TypeOK, Job, JobRecords, JobKinds, Ifaces
    <3>2. PICK e \in Lids, j \in JobRecords : e = exec /\ j = Job("close", 0, detached)
      BY <3>1
    <3>3. JobFits(j, e)'
      BY <3>1, <3>2 DEF JobFits, Job
    <3>. QED
      BY <1>3, <1>4, <2>2, <3>2, <3>3 DEF CloseDetached
  <2>. QED
    BY <2>1, <2>2
<1>5. ASSUME NEW l \in Lids, CloseDropped(l) PROVE JobsFit'
  <2>1. CASE ~(HasDropped(l) /\ exec # 0)
    BY <1>2, <1>5, <2>1 DEF CloseDropped
  <2>2. CASE HasDropped(l) /\ exec # 0
    <3>1. exec \in Lids /\ Job("close", 0, dropped[l]) \in JobRecords /\ dropped[l] \in Ifaces
      BY <1>5, <2>2, LinkAssumption
         DEF HasDropped, Generations, TypeOK, Job, JobRecords, JobKinds, Ifaces
    <3>2. PICK e \in Lids, j \in JobRecords : e = exec /\ j = Job("close", 0, dropped[l])
      BY <3>1
    <3>3. JobFits(j, e)'
      BY <3>1, <3>2 DEF JobFits, Job
    <3>. QED
      BY <1>3, <1>5, <2>2, <3>2, <3>3 DEF CloseDropped
  <2>. QED
    BY <2>1, <2>2
<1>6. ASSUME NEW l \in Lids, SubmitOpen(l) PROVE JobsFit'
  <2>1. /\ exec \in Lids /\ exec <= lid /\ l \in 1..exec /\ opens' \in 1..MaxOpens
        /\ UNCHANGED <<lid, job>> /\ Submitted(exec, Job("open", l, opens'))
    BY <1>6, LinkAssumption DEF SubmitOpen, Generations, TypeOK, At, Lids, Ifaces
  <2>2. Job("open", l, opens') \in JobRecords
    BY <2>1, LinkAssumption DEF Job, JobRecords, JobKinds, Lids
  <2>3. PICK e \in Lids, j \in JobRecords : e = exec /\ j = Job("open", l, opens')
    BY <2>1, <2>2
  <2>4. JobFits(j, e)'
    BY <2>1, <2>3 DEF JobFits, Job
  <2>. QED
    BY <1>3, <2>1, <2>3, <2>4
<1>7. ASSUME NEW l \in Lids, Poll(l) PROVE JobsFit'
  <2>1. CASE ~MayPoll(l)
    BY <1>2, <1>7, <2>1 DEF Poll
  <2>2. CASE MayPoll(l)
    <3>1. /\ exec = l /\ lid = l /\ attached \in Ifaces
          /\ UNCHANGED <<lid, opens, job>> /\ Submitted(exec, Job("probe", l, attached))
      BY <1>7, <2>2 DEF Poll, MayPoll, Active, Generations, TypeOK
    <3>2. attached \in 1..opens
      <4>1. Built("map", 0, 0, attached)
        BY DEF Built
      <4>2. state[attached] = "open"
        BY <3>1, <4>1 DEF Custody
      <4>. QED
        BY <3>1, <4>2, LinkAssumption DEF Unnumbered, TypeOK, Ifaces
    <3>3. Job("probe", l, attached) \in JobRecords
      BY <3>1, LinkAssumption DEF Job, JobRecords, JobKinds, Lids, Ifaces
    <3>4. PICK e \in Lids, j \in JobRecords : e = exec /\ j = Job("probe", l, attached)
      BY <3>1, <3>3
    <3>5. JobFits(j, e)'
      BY <3>1, <3>2, <3>4, LinkAssumption DEF JobFits, Job, Lids
    <3>. QED
      BY <1>3, <3>1, <3>4, <3>5
  <2>. QED
    BY <2>1, <2>2
<1>8. ASSUME NEW l \in Lids, LoopCancelled(l) PROVE JobsFit'
  <2>1. job' = job /\ JobFits(NoJob, l)
    BY <1>8 DEF LoopCancelled, JobFits
  <2>2. ASSUME NEW e \in Lids, NEW n \in 0..Len(queue'[e])
        PROVE  JobFits(JobAt(e, n), e)'
    <3>1. CASE n = 0
      BY <1>1, <2>1, <3>1, JobFacts DEF JobAt
    <3>2. CASE n # 0
      <4>1. n \in 1..Len(queue[e])
        BY <1>8, <3>2, JobFacts, CancelEffect
      <4>2. JobFits(queue[e][n], e) /\ JobFits(NoJob, e)
        BY <4>1, JobFacts DEF JobFits
      <4>. QED
        BY <1>1, <1>8, <3>2, <4>1, <4>2, CancelEffect DEF JobAt
    <3>. QED
      BY <3>1, <3>2
  <2>. QED
    BY <2>2 DEF JobsFit
<1>9. ASSUME NEW e \in Lids, Take(e) PROVE JobsFit'
  <2>1. /\ Len(queue[e]) >= 1 /\ Len(queue'[e]) = Len(queue[e]) - 1
        /\ \A n \in 1..Len(queue[e]) - 1 : queue'[e][n] = queue[e][n + 1]
        /\ \A x \in Lids \ {e} : queue'[x] = queue[x]
        /\ job' = [job EXCEPT ![e] = queue[e][1]] /\ job \in [Lids -> JobRecords]
    BY <1>9, TakeEffect DEF TypeOK
  <2>2. ASSUME NEW x \in Lids, NEW n \in 0..Len(queue'[x])
        PROVE  JobFits(JobAt(x, n), x)'
    <3>1. CASE x # e
      <4>1. queue'[x] = queue[x] /\ job'[x] = job[x]
        BY <2>1, <3>1
      <4>. QED
        BY <1>1, <4>1, JobFacts DEF JobAt
    <3>2. CASE x = e /\ n = 0
      <4>1. 1 \in 1..Len(queue[e]) /\ job'[e] = queue[e][1]
        BY <2>1, JobFacts
      <4>. QED
        BY <1>1, <3>2, <4>1, JobFacts DEF JobAt
    <3>3. CASE x = e /\ n # 0
      <4>1. n + 1 \in 1..Len(queue[e]) /\ queue'[e][n] = queue[e][n + 1]
        BY <2>1, <3>3, JobFacts
      <4>. QED
        BY <1>1, <3>3, <4>1, JobFacts DEF JobAt
    <3>. QED
      BY <3>1, <3>2, <3>3
  <2>. QED
    BY <2>2 DEF JobsFit
<1>10. ASSUME NEW e \in Lids, Ends(e), queue' = queue PROVE JobsFit'
  <2>1. ASSUME NEW x \in Lids, NEW n \in 0..Len(queue[x])
        PROVE  JobFits(JobAt(x, n), x)'
    <3>1. JobAt(x, n)' = JobAt(x, n) \/ JobAt(x, n)' = NoJob
      BY <1>10, EndsEffect DEF JobAt
    <3>. QED
      BY <1>1, <3>1 DEF JobsFit, JobFits
  <2>. QED
    BY <1>10, <2>1 DEF JobsFit
<1>11. CASE UNCHANGED quietVars
  BY <1>2, <1>11 DEF quietVars
<1>12. CASE Connect \/ Disconnect \/ Detach \/ Shutdown
  BY <1>2, <1>12 DEF Connect, Disconnect, Detach, Shutdown
<1>13. ASSUME NEW l \in Lids, Pops(l) PROVE JobsFit'
  BY <1>2, <1>13 DEF Pops
<1>14. ASSUME NEW i \in Ifaces, CloseLoose(i) PROVE JobsFit'
  BY <1>2, <1>14 DEF CloseLoose
<1>15. ASSUME NEW e \in Lids, \/ CloseInterface(e) \/ Construct(e) \/ ConstructFails(e)
                              \/ Register(e) \/ Orphan(e) \/ Probe(e) \/ Drop(e)
       PROVE  JobsFit'
  <2>1. UNCHANGED <<queue, job>> \/ (Ends(e) /\ queue' = queue)
    BY <1>15
       DEF CloseInterface, Construct, ConstructFails, Register, Orphan, Probe, Drop
  <2>. QED
    BY <1>2, <1>10, <2>1
<1>. QED
  BY <1>4, <1>5, <1>6, <1>7, <1>8, <1>9, <1>11, <1>12, <1>13, <1>14, <1>15, Quiet

-----------------------------------------------------------------------------
(* Custody: which kind of step each action is.                             *)

\* What a submission adds to what is held and planned.
LEMMA SubmitHolds ==
  ASSUME TypeOK, NEW e \in Lids, NEW j \in JobRecords, Submitted(e, j),
         NEW x \in Lids, NEW n \in Nat, NEW i \in Ifaces
  PROVE  /\ n \in 1..Len(queue'[x]) /\ queue'[x][n] = Job("close", 0, i)
              <=> \/ n \in 1..Len(queue[x]) /\ queue[x][n] = Job("close", 0, i)
                  \/ x = e /\ n = Len(queue[e]) + 1 /\ j = Job("close", 0, i)
         /\ n \in 1..Len(queue'[x]) /\ queue'[x][n].kind = "open" /\ queue'[x][n].id = i
              <=> \/ n \in 1..Len(queue[x]) /\ queue[x][n].kind = "open" /\ queue[x][n].id = i
                  \/ x = e /\ n = Len(queue[e]) + 1 /\ j.kind = "open" /\ j.id = i
<1>1. Len(queue[x]) \in Nat
  BY DEF TypeOK
<1>2. /\ Len(queue'[e]) = Len(queue[e]) + 1 /\ queue'[e][Len(queue[e]) + 1] = j
      /\ \A m \in 1..Len(queue[e]) : queue'[e][m] = queue[e][m]
      /\ x # e => queue'[x] = queue[x]
  BY SubmitEffect DEF TypeOK
<1>. QED
  BY <1>1, <1>2

\* The number of a place at the end of a queue.
LEMMA LastPlace ==
  ASSUME TypeOK, NEW e \in Lids
  PROVE  Len(queue[e]) + 1 \in Nat /\ Len(queue[e]) + 1 # 0 /\ Len(queue[e]) \in Nat
<1>1. Len(queue[e]) \in Nat
  BY DEF TypeOK
<1>. QED
  BY ONLY <1>1

\* What Built and Planned speak of.
heldVars == <<attached, detached, loose, dropped, queue, held, job, stage>>

LEMMA HeldSame ==
  ASSUME Custody, UNCHANGED <<state, heldVars>>
  PROVE  Custody'
<1>1. \A k, e : \A n \in Nat : \A i \in Ifaces : Built(k, e, n, i)' <=> Built(k, e, n, i)
  BY DEF Built, heldVars
<1>2. \A e : \A n \in Nat : \A i \in Ifaces : Planned(e, n, i)' => Planned(e, n, i)
  BY DEF Planned, JobAt, heldVars
<1>. QED
  BY <1>1, <1>2, CustodyStays

\* The steps of a disconnect.
LEMMA DetachCustody ==
  ASSUME TypeOK, Custody, Generations, Detach
  PROVE  Custody'
<1>. USE LinkAssumption DEF lifeVars, ifaceVars, workVars, loopVars
<1>1. /\ detached = None /\ detached' = attached /\ attached' = None
      /\ UNCHANGED <<state, loose, dropped, queue, held, job, stage>>
  BY DEF Detach, Generations
<1>2. CASE attached = None
  BY <1>1, <1>2, HeldSame DEF heldVars
<1>3. CASE attached # None
  <2>1. attached \in Ifaces /\ None \notin Ifaces /\ Built("map", 0, 0, attached)
    BY <1>3 DEF TypeOK, Ifaces, Built
  <2>2. \A k, e : \A n \in Nat : \A x \in Ifaces :
          Built(k, e, n, x)' <=> IF x = attached THEN <<k, e, n>> = <<"detached", 0, 0>>
                                                 ELSE Built(k, e, n, x)
    <3>1. \A k, e : \A n \in Nat : Built(k, e, n, attached) => k = "map"
      BY <2>1 DEF Custody
    <3>2. \A k, e : \A n \in Nat : \A x \in Ifaces :
            Built(k, e, n, x)' <=> \/ k = "detached" /\ e = 0 /\ n = 0 /\ x = attached
                                   \/ k \notin {"map", "detached"} /\ Built(k, e, n, x)
      BY <1>1, <2>1 DEF Built
    <3>3. \A k, e : \A n \in Nat : \A x \in Ifaces :
            k \in {"map", "detached"} /\ Built(k, e, n, x) => x = attached
      BY <1>1, <2>1 DEF Built
    <3>. QED
      BY <3>1, <3>2, <3>3
  <2>3. \A e : \A n \in Nat : \A x \in Ifaces : Planned(e, n, x)' => Planned(e, n, x)
    BY <1>1 DEF Planned, JobAt
  <2>4. state[attached] = "open"
    BY <2>1 DEF Custody
  <2>. QED
    BY <1>1, <2>1, <2>2, <2>3, <2>4, CustodyMoves
<1>. QED
  BY <1>2, <1>3

\* A close that is submitted puts its interface at the end of a queue.
LEMMA SubmitClose ==
  ASSUME TypeOK, NEW e1 \in Lids, NEW i \in Ifaces, Submitted(e1, Job("close", 0, i)),
         UNCHANGED <<held, job, stage>>
  PROVE  /\ \E n1 \in Nat : \A e : \A n \in Nat : \A x \in Ifaces :
              Built("worker", e, n, x)' <=> \/ Built("worker", e, n, x)
                                            \/ e = e1 /\ n = n1 /\ x = i
         /\ \A e : \A n \in Nat : \A x \in Ifaces : Planned(e, n, x)' => Planned(e, n, x)
<1>. DEFINE j == Job("close", 0, i)
            n1 == Len(queue[e1]) + 1
<1>1. j \in JobRecords /\ j.kind # "open" /\ \A x \in Ifaces : j = Job("close", 0, x) <=> x = i
  BY LinkAssumption DEF Job, JobRecords, JobKinds, Ifaces
<1>2. n1 \in Nat /\ n1 # 0
  BY LastPlace
<1>3. Submitted(e1, j)
  OBVIOUS
<1>. HIDE DEF j, n1
<1>4. \A x \in Lids : \A n \in Nat : \A y \in Ifaces :
        /\ n \in 1..Len(queue'[x]) /\ queue'[x][n] = Job("close", 0, y)
             <=> \/ n \in 1..Len(queue[x]) /\ queue[x][n] = Job("close", 0, y)
                 \/ x = e1 /\ n = n1 /\ y = i
        /\ n \in 1..Len(queue'[x]) /\ queue'[x][n].kind = "open" /\ queue'[x][n].id = y
             => n \in 1..Len(queue[x]) /\ queue[x][n].kind = "open" /\ queue[x][n].id = y
  BY <1>1, <1>3, SubmitHolds DEF n1
<1>5. \A e : \A n \in Nat : \A x \in Ifaces :
        Built("worker", e, n, x)' <=> \/ Built("worker", e, n, x)
                                      \/ e = e1 /\ n = n1 /\ x = i
  BY <1>2, <1>4 DEF Built
<1>6. \A e : \A n \in Nat : \A x \in Ifaces : Planned(e, n, x)' => Planned(e, n, x)
  <2>1. \A x \in Lids : Len(queue[x]) \in Nat /\ Len(queue'[x]) \in Nat
    BY <1>1, <1>3, SubmitEffect DEF TypeOK
  <2>. QED
    BY <1>4, <2>1 DEF Planned, JobAt
<1>. QED
  BY <1>2, <1>5, <1>6

\* A holder hands what it holds to a worker.
LEMMA HandedToWorker ==
  ASSUME TypeOK, Custody, NEW e1 \in Lids, NEW i \in Ifaces, NEW k1,
         Submitted(e1, Job("close", 0, i)), UNCHANGED <<state, held, job, stage>>,
         state[i] = "open", k1 # "worker",
         \A k, e : \A n \in Nat : Built(k, e, n, i) => k = k1,
         \A k, e : \A n \in Nat : \A x \in Ifaces :
           k # "worker" => (Built(k, e, n, x)' <=> x # i /\ Built(k, e, n, x))
  PROVE  Custody'
<1>1. PICK n1 \in Nat : \A e : \A n \in Nat : \A x \in Ifaces :
        Built("worker", e, n, x)' <=> \/ Built("worker", e, n, x)
                                      \/ e = e1 /\ n = n1 /\ x = i
  BY SubmitClose
<1>2. \A k, e : \A n \in Nat : \A x \in Ifaces :
        Built(k, e, n, x)' <=> IF x = i THEN <<k, e, n>> = <<"worker", e1, n1>>
                                        ELSE Built(k, e, n, x)
  BY <1>1
<1>3. \A e : \A n \in Nat : \A x \in Ifaces : Planned(e, n, x)' => Planned(e, n, x)
  BY SubmitClose
<1>. QED
  BY <1>2, <1>3, CustodyMoves

LEMMA CloseDetachedCustody ==
  ASSUME TypeOK, Custody, Generations, CloseDetached
  PROVE  Custody'
<1>. USE LinkAssumption DEF lifeVars, ifaceVars, workVars, loopVars
<1>1. detached' = None /\ UNCHANGED <<state, attached, loose, dropped, held, job, stage>>
  BY DEF CloseDetached
<1>2. CASE detached = None
  BY <1>1, <1>2, HeldSame DEF heldVars, CloseDetached
<1>3. CASE detached # None
  <2>1. detached \in Ifaces /\ None \notin Ifaces /\ Built("detached", 0, 0, detached) /\ exec \in Lids
    BY <1>3 DEF TypeOK, Ifaces, Built, CloseDetached, Generations
  <2>2. Submitted(exec, Job("close", 0, detached))
    BY <1>3 DEF CloseDetached
  <2>3. state[detached] = "open" /\ \A k, e : \A n \in Nat : Built(k, e, n, detached) => k = "detached"
    BY <2>1 DEF Custody
  <2>4. \A k, e : \A n \in Nat : \A x \in Ifaces :
          k # "worker" => (Built(k, e, n, x)' <=> x # detached /\ Built(k, e, n, x))
    <3>1. \A k, e : \A n \in Nat : \A x \in Ifaces :
            k # "worker" => (Built(k, e, n, x)' <=> k # "detached" /\ Built(k, e, n, x))
      BY <1>1, <2>1 DEF Built
    <3>2. \A k, e : \A n \in Nat : \A x \in Ifaces :
            k = "detached" /\ Built(k, e, n, x) => x = detached
      BY DEF Built
    <3>. QED
      BY <2>3, <3>1, <3>2
  <2>5. UNCHANGED <<state, held, job, stage>> /\ "detached" # "worker"
    BY <1>1
  <2>. QED
    BY <2>1, <2>2, <2>3, <2>4, <2>5, HandedToWorker
<1>. QED
  BY <1>2, <1>3

\* The steps of a loop.
LEMMA PopsCustody ==
  ASSUME TypeOK, Custody, LoopFits, NEW l \in Lids, Pops(l)
  PROVE  Custody'
<1>. USE LinkAssumption DEF lifeVars, ifaceVars, workVars, loopVars
<1>1. UNCHANGED <<state, detached, loose, queue, held, job, stage>>
  BY DEF Pops
<1>2. dropped[l] = None
  BY DEF Pops, LoopFits, At
<1>3. CASE ~MayPop(l) \/ attached = None
  <2>1. UNCHANGED <<attached, dropped>>
    BY <1>2, <1>3 DEF Pops, TypeOK
  <2>. QED
    BY <1>1, <2>1, HeldSame DEF heldVars
<1>4. CASE MayPop(l) /\ attached # None
  <2>1. attached' = None /\ dropped' = [dropped EXCEPT ![l] = attached]
    BY <1>4 DEF Pops
  <2>2. attached \in Ifaces /\ None \notin Ifaces /\ Built("map", 0, 0, attached)
    BY <1>4 DEF TypeOK, Ifaces, Built
  <2>3. state[attached] = "open" /\ \A k, e : \A n \in Nat : Built(k, e, n, attached) => k = "map"
    BY <2>2 DEF Custody
  <2>4. \A e \in Lids : dropped'[e] = IF e = l THEN attached ELSE dropped[e]
    BY <2>1 DEF TypeOK
  <2>5. \A k, e : \A n \in Nat : \A x \in Ifaces :
          Built(k, e, n, x)' <=> IF x = attached THEN <<k, e, n>> = <<"loop", l, 0>>
                                                 ELSE Built(k, e, n, x)
    <3>1. \A k, e : \A n \in Nat : \A x \in Ifaces :
            Built(k, e, n, x)' <=> \/ k = "loop" /\ e = l /\ n = 0 /\ x = attached
                                   \/ k # "map" /\ Built(k, e, n, x)
      BY <1>1, <1>2, <2>1, <2>2, <2>4 DEF Built
    <3>2. \A k, e : \A n \in Nat : \A x \in Ifaces : k = "map" /\ Built(k, e, n, x) => x = attached
      BY DEF Built
    <3>. QED
      BY <2>3, <3>1, <3>2
  <2>6. \A e : \A n \in Nat : \A x \in Ifaces : Planned(e, n, x)' => Planned(e, n, x)
    BY <1>1 DEF Planned, JobAt
  <2>. QED
    BY ZenonT(60), <1>1, <2>2, <2>3, <2>5, <2>6, CustodyMoves
<1>. QED
  BY <1>3, <1>4

LEMMA CloseDroppedCustody ==
  ASSUME TypeOK, Custody, Generations, NEW l \in Lids, CloseDropped(l)
  PROVE  Custody'
<1>. USE LinkAssumption DEF lifeVars, ifaceVars, workVars, loopVars
<1>1. /\ UNCHANGED <<state, attached, detached, held, job, stage>>
      /\ \A e \in Lids : dropped'[e] = IF e = l THEN None ELSE dropped[e]
  BY DEF CloseDropped, TypeOK
<1>2. CASE ~HasDropped(l)
  <2>1. UNCHANGED <<queue, loose, dropped>>
    BY <1>2 DEF CloseDropped, HasDropped, TypeOK
  <2>. QED
    BY <1>1, <2>1, HeldSame DEF heldVars
<1>3. CASE HasDropped(l)
  <2>. DEFINE i == dropped[l]
  <2>1. i \in Ifaces /\ None \notin Ifaces /\ Built("loop", l, 0, i)
    BY <1>3 DEF TypeOK, Ifaces, Built, HasDropped
  <2>2. /\ state[i] = "open"
        /\ \A k, e : \A n \in Nat : Built(k, e, n, i) => k = "loop" /\ e = l
    BY <2>1 DEF Custody
  <2>3. \A k, e : \A n \in Nat : \A x \in Ifaces :
          k = "loop" => (Built(k, e, n, x)' <=> x # i /\ Built(k, e, n, x))
    <3>1. \A e : \A n \in Nat : \A x \in Ifaces :
            Built("loop", e, n, x)' <=> e # l /\ Built("loop", e, n, x)
      BY <1>1, <2>1 DEF Built
    <3>2. \A n \in Nat : \A x \in Ifaces : Built("loop", l, n, x) => x = i
      BY DEF Built
    <3>. QED
      BY <2>2, <3>1, <3>2
  <2>4. CASE exec # 0
    <3>1. exec \in Lids /\ Submitted(exec, Job("close", 0, i)) /\ loose' = loose
      BY <1>3, <2>4 DEF CloseDropped, Generations
    <3>2. \A k, e : \A n \in Nat : \A x \in Ifaces :
            k \notin {"worker", "loop"} => (Built(k, e, n, x)' <=> Built(k, e, n, x))
      BY <1>1, <3>1 DEF Built
    <3>. HIDE DEF i
    <3>3. \A k, e : \A n \in Nat : \A x \in Ifaces :
            k # "worker" => (Built(k, e, n, x)' <=> x # i /\ Built(k, e, n, x))
      BY <2>2, <2>3, <3>2
    <3>. QED
      BY <1>1, <2>1, <2>2, <3>1, <3>3, HandedToWorker
  <2>5. CASE exec = 0
    <3>1. loose' = loose \cup {i} /\ queue' = queue
      BY <1>3, <2>5 DEF CloseDropped, Loosen
    <3>2. \A k, e : \A n \in Nat : \A x \in Ifaces :
            k # "loop" => (Built(k, e, n, x)' <=> \/ Built(k, e, n, x)
                                                  \/ k = "loose" /\ e = 0 /\ n = 0 /\ x = i)
      BY <1>1, <3>1 DEF Built
    <3>3. \A e : \A n \in Nat : \A x \in Ifaces : Planned(e, n, x)' => Planned(e, n, x)
      BY <1>1, <3>1 DEF Planned, JobAt
    <3>. HIDE DEF i
    <3>4. \A k, e : \A n \in Nat : \A x \in Ifaces :
            Built(k, e, n, x)' <=> IF x = i THEN <<k, e, n>> = <<"loose", 0, 0>>
                                            ELSE Built(k, e, n, x)
      BY <2>2, <2>3, <3>2
    <3>. QED
      BY <1>1, <2>1, <2>2, <3>3, <3>4, CustodyMoves
  <2>. QED
    BY <2>4, <2>5
<1>. QED
  BY <1>2, <1>3

LEMMA SubmitOpenCustody ==
  ASSUME TypeOK, JobsFit, Custody, Unnumbered, Generations, NEW l \in Lids, SubmitOpen(l)
  PROVE  Custody'
<1>. USE LinkAssumption DEF lifeVars, ifaceVars, workVars, loopVars
<1>1. UNCHANGED <<state, attached, detached, loose, dropped, held, job, stage>>
  BY DEF SubmitOpen
<1>2. PICK e1 \in Lids, i \in Ifaces, j \in JobRecords, n1 \in Nat :
        e1 = exec /\ i = opens + 1 /\ i = opens' /\ j = Job("open", l, i) /\ n1 = Len(queue[e1]) + 1
  <2>1. exec \in Lids /\ opens' = opens + 1 /\ opens' \in Ifaces
    BY DEF SubmitOpen, Generations, TypeOK, Ifaces
  <2>2. Job("open", l, opens') \in JobRecords
    BY <2>1 DEF Job, JobRecords, JobKinds, Lids, Ifaces
  <2>. QED
    BY <2>1, <2>2, LastPlace
<1>3. Submitted(e1, j)
  BY <1>2 DEF SubmitOpen
<1>4. j.kind = "open" /\ j.id = i /\ \A x \in Ifaces : j # Job("close", 0, x)
  BY <1>2 DEF Job
<1>5. state[i] = "none" /\ \A e : \A n \in Nat : ~Planned(e, n, i)
  <2>1. i > opens /\ i \notin 1..opens
    BY <1>2 DEF TypeOK, Ifaces
  <2>2. ASSUME NEW e, NEW n \in Nat, Planned(e, n, i) PROVE FALSE
    <3>1. e \in Lids /\ n \in 0..Len(queue[e]) /\ JobAt(e, n).kind = "open" /\ JobAt(e, n).id = i
      BY <2>2 DEF Planned
    <3>2. JobFits(JobAt(e, n), e)
      BY <3>1 DEF JobsFit
    <3>. QED
      BY <2>1, <3>1, <3>2 DEF JobFits, NoJob
  <2>. QED
    BY <2>1, <2>2 DEF Unnumbered
<1>6. \A k, e : \A n \in Nat : \A x \in Ifaces : Built(k, e, n, x)' <=> Built(k, e, n, x)
  <2>1. \A e \in Lids : \A n \in Nat : \A x \in Ifaces :
          n \in 1..Len(queue'[e]) /\ queue'[e][n] = Job("close", 0, x)
            <=> n \in 1..Len(queue[e]) /\ queue[e][n] = Job("close", 0, x)
    BY <1>3, <1>4, SubmitHolds
  <2>. QED
    BY <1>1, <2>1 DEF Built
<1>7. \A e : \A n \in Nat : \A x \in Ifaces :
        Planned(e, n, x)' => Planned(e, n, x) \/ <<e, n, x>> = <<e1, n1, i>>
  <2>1. \A e \in Lids : \A n \in Nat : \A x \in Ifaces :
          n \in 1..Len(queue'[e]) /\ queue'[e][n].kind = "open" /\ queue'[e][n].id = x
            => \/ n \in 1..Len(queue[e]) /\ queue[e][n].kind = "open" /\ queue[e][n].id = x
               \/ <<e, n, x>> = <<e1, n1, i>>
    BY <1>2, <1>3, <1>4, SubmitHolds
  <2>2. \A x \in Lids : Len(queue[x]) \in Nat /\ Len(queue'[x]) \in Nat
    BY <1>3, SubmitEffect DEF TypeOK
  <2>. QED
    BY <1>1, <2>1, <2>2 DEF Planned, JobAt
<1>. QED
  BY <1>1, <1>5, <1>6, <1>7, CustodyPlans

\* A probe is for no new interface, and a cancelled one for none any more.
LEMMA PollCustody ==
  ASSUME TypeOK, Custody, Generations, NEW l \in Lids, Poll(l)
  PROVE  Custody'
<1>. USE LinkAssumption DEF lifeVars, ifaceVars, workVars, loopVars
<1>1. UNCHANGED <<state, attached, detached, loose, dropped, held, job, stage>>
  BY DEF Poll
<1>2. CASE ~MayPoll(l)
  BY <1>1, <1>2, HeldSame DEF heldVars, Poll
<1>3. CASE MayPoll(l)
  <2>1. PICK e1 \in Lids, j \in JobRecords : e1 = exec /\ j = Job("probe", l, attached)
    <3>1. exec \in Lids /\ attached \in Ifaces
      BY <1>3 DEF MayPoll, Generations, TypeOK
    <3>2. Job("probe", l, attached) \in JobRecords
      BY <3>1 DEF Job, JobRecords, JobKinds, Lids, Ifaces
    <3>. QED
      BY <3>1, <3>2
  <2>2. Submitted(e1, j)
    BY <1>3, <2>1 DEF Poll
  <2>3. j.kind # "open" /\ \A x \in Ifaces : j # Job("close", 0, x)
    BY <2>1 DEF Job
  <2>4. \A e \in Lids : \A n \in Nat : \A x \in Ifaces :
          /\ n \in 1..Len(queue'[e]) /\ queue'[e][n] = Job("close", 0, x)
               <=> n \in 1..Len(queue[e]) /\ queue[e][n] = Job("close", 0, x)
          /\ n \in 1..Len(queue'[e]) /\ queue'[e][n].kind = "open" /\ queue'[e][n].id = x
               => n \in 1..Len(queue[e]) /\ queue[e][n].kind = "open" /\ queue[e][n].id = x
    BY <2>2, <2>3, SubmitHolds
  <2>5. \A x \in Lids : Len(queue[x]) \in Nat /\ Len(queue'[x]) \in Nat
    BY <2>2, SubmitEffect DEF TypeOK
  <2>6. \A k, e : \A n \in Nat : \A x \in Ifaces : Built(k, e, n, x)' <=> Built(k, e, n, x)
    BY <1>1, <2>4 DEF Built
  <2>7. \A e : \A n \in Nat : \A x \in Ifaces : Planned(e, n, x)' => Planned(e, n, x)
    BY <1>1, <2>4, <2>5 DEF Planned, JobAt
  <2>. QED
    BY <1>1, <2>6, <2>7, CustodyStays
<1>. QED
  BY <1>2, <1>3

LEMMA CancelCustody ==
  ASSUME TypeOK, Custody, NEW l \in Lids, LoopCancelled(l)
  PROVE  Custody'
<1>. USE DEF lifeVars, ifaceVars, workVars
<1>1. UNCHANGED <<state, attached, detached, loose, dropped, held, job, stage>>
  BY DEF LoopCancelled
<1>2. \A e \in Lids : /\ Len(queue'[e]) = Len(queue[e])
                      /\ \A n \in 1..Len(queue[e]) :
                           \/ queue'[e][n] = queue[e][n]
                           \/ queue[e][n].kind = "probe" /\ queue'[e][n] = NoJob
  BY CancelEffect
<1>3. \A e \in Lids : \A n \in 1..Len(queue[e]) : \A x \in Ifaces :
        /\ queue'[e][n] = Job("close", 0, x) <=> queue[e][n] = Job("close", 0, x)
        /\ queue'[e][n].kind = "open" => queue'[e][n] = queue[e][n]
  BY <1>2 DEF Job, NoJob
<1>4. \A k, e : \A n \in Nat : \A x \in Ifaces : Built(k, e, n, x)' <=> Built(k, e, n, x)
  BY <1>1, <1>2, <1>3 DEF Built
<1>5. \A e : \A n \in Nat : \A x \in Ifaces : Planned(e, n, x)' => Planned(e, n, x)
  <2>1. \A e \in Lids : Len(queue[e]) \in Nat
    BY DEF TypeOK
  <2>. QED
    BY <1>1, <1>2, <1>3, <2>1 DEF Planned, JobAt
<1>. QED
  BY <1>1, <1>4, <1>5, CustodyStays

\* The steps of a worker.  What the worker of a job that is over held is free.
LEMMA EndsHolds ==
  ASSUME TypeOK, NEW e \in Lids, Ends(e), queue' = queue
  PROVE  /\ \A x : \A n \in Nat : \A i \in Ifaces :
              Built("worker", x, n, i)' <=> Built("worker", x, n, i) /\ <<x, n>> # <<e, 0>>
         /\ \A x : \A n \in Nat : \A i \in Ifaces : Planned(x, n, i)' => Planned(x, n, i)
<1>1. /\ stage'[e] = "idle" /\ job'[e] = NoJob /\ held'[e] = None
      /\ \A x \in Lids \ {e} : stage'[x] = stage[x] /\ job'[x] = job[x] /\ held'[x] = held[x]
  BY EndsEffect
<1>2. None \notin Ifaces /\ \A i \in Ifaces : NoJob # Job("close", 0, i)
  BY LinkAssumption DEF Ifaces, NoJob, Job
<1>3. \A x : \A n \in Nat : \A i \in Ifaces :
        Built("worker", x, n, i)' <=> Built("worker", x, n, i) /\ <<x, n>> # <<e, 0>>
  <2>1. \A x \in Lids : Len(queue[x]) \in Nat
    BY DEF TypeOK
  <2>. QED
    BY <1>1, <1>2, <2>1 DEF Built
<1>4. \A x : \A n \in Nat : \A i \in Ifaces : Planned(x, n, i)' => Planned(x, n, i)
  BY <1>1 DEF Planned, JobAt, NoJob
<1>. QED
  BY <1>3, <1>4

\* A worker that holds nothing ends its job, or goes on with it.
LEMMA IdleCustody ==
  ASSUME TypeOK, Custody, NEW e \in Lids, queue' = queue,
         UNCHANGED <<state, attached, detached, loose, dropped>>,
         \/ Ends(e) /\ \A i \in Ifaces : ~Built("worker", e, 0, i)
         \/ UNCHANGED <<job, held>> /\ \E s : s # "open" /\ stage' = [stage EXCEPT ![e] = s]
  PROVE  Custody'
<1>1. CASE Ends(e) /\ \A i \in Ifaces : ~Built("worker", e, 0, i)
  <2>1. /\ \A x : \A n \in Nat : \A i \in Ifaces :
             Built("worker", x, n, i)' <=> Built("worker", x, n, i) /\ <<x, n>> # <<e, 0>>
        /\ \A x : \A n \in Nat : \A i \in Ifaces : Planned(x, n, i)' => Planned(x, n, i)
    BY <1>1, EndsHolds
  <2>2. \A k, x : \A n \in Nat : \A i \in Ifaces :
          k # "worker" => (Built(k, x, n, i)' <=> Built(k, x, n, i))
    BY DEF Built
  <2>3. \A k, x : \A n \in Nat : \A i \in Ifaces : Built(k, x, n, i)' <=> Built(k, x, n, i)
    BY <1>1, <2>1, <2>2
  <2>. QED
    BY <2>1, <2>3, CustodyStays
<1>2. CASE UNCHANGED <<job, held>> /\ \E s : s # "open" /\ stage' = [stage EXCEPT ![e] = s]
  <2>1. \A x \in Lids : stage'[x] = "open" => stage[x] = "open"
    BY <1>2 DEF TypeOK
  <2>2. \A k, x : \A n \in Nat : \A i \in Ifaces : Built(k, x, n, i)' <=> Built(k, x, n, i)
    BY <1>2 DEF Built
  <2>3. \A x : \A n \in Nat : \A i \in Ifaces : Planned(x, n, i)' => Planned(x, n, i)
    BY <1>2, <2>1 DEF Planned, JobAt
  <2>. QED
    BY <2>2, <2>3, CustodyStays
<1>. QED
  BY <1>1, <1>2

\* A worker has closed the interface of its job.
LEMMA ClosedCustody ==
  ASSUME TypeOK, Custody, NEW e \in Lids, Ends(e), queue' = queue,
         UNCHANGED <<attached, detached, loose, dropped>>,
         NEW i \in Ifaces, Closed(i), Built("worker", e, 0, i),
         \A x \in Ifaces : Built("worker", e, 0, x) => x = i
  PROVE  Custody'
<1>1. /\ \A x : \A n \in Nat : \A y \in Ifaces :
           Built("worker", x, n, y)' <=> Built("worker", x, n, y) /\ <<x, n>> # <<e, 0>>
      /\ \A x : \A n \in Nat : \A y \in Ifaces : Planned(x, n, y)' => Planned(x, n, y)
  BY EndsHolds
<1>2. \A k, x : \A n \in Nat : \A y \in Ifaces :
        k # "worker" => (Built(k, x, n, y)' <=> Built(k, x, n, y))
  BY DEF Built
<1>3. state[i] = "open" /\ state' = [state EXCEPT ![i] = "closed"]
  BY DEF Custody, Closed
<1>4. \A k, x : \A n \in Nat : Built(k, x, n, i) => <<k, x, n>> = <<"worker", e, 0>>
  BY DEF Custody
<1>5. \A k, x : \A n \in Nat : \A y \in Ifaces :
        Built(k, x, n, y)' <=> y # i /\ Built(k, x, n, y)
  BY <1>1, <1>2, <1>4
<1>. QED
  BY <1>1, <1>3, <1>5, CustodyEnds DEF TypeOK

LEMMA CloseInterfaceCustody ==
  ASSUME TypeOK, StageFits, JobsFit, Custody, NEW e \in Lids, CloseInterface(e)
  PROVE  Custody'
<1>. USE DEF lifeVars, loopVars
<1>1. /\ Ends(e) /\ queue' = queue /\ Closed(job[e].id)
      /\ UNCHANGED <<attached, detached, loose, dropped>>
  BY DEF CloseInterface
<1>2. job[e].kind = "close" /\ held[e] = None /\ JobFits(job[e], e) /\ job[e] \in JobRecords
  BY JobFacts DEF CloseInterface, StageFits, TypeOK
<1>3. job[e].life = 0 /\ job[e].id \in Ifaces
  BY <1>2 DEF JobFits, NoJob
<1>4. job[e] = Job("close", 0, job[e].id)
  BY <1>2, <1>3 DEF Job, JobRecords
<1>5. None \notin Ifaces
  BY LinkAssumption DEF Ifaces
<1>6. Built("worker", e, 0, job[e].id) /\ \A x \in Ifaces : Built("worker", e, 0, x) => x = job[e].id
  BY <1>2, <1>4, <1>5 DEF Built, Job
<1>. QED
  BY <1>1, <1>3, <1>6, ClosedCustody

\* What a worker holds while it works on an open or a probe.
LEMMA WorkerHolds ==
  ASSUME TypeOK, StageFits, JobsFit, NEW e \in Lids, job[e].kind \in {"open", "probe"}
  PROVE  /\ job[e].id \in Ifaces /\ job[e].life \in Lids
         /\ \A x \in Ifaces :
              Built("worker", e, 0, x) <=> stage[e] \in {"register", "orphan"} /\ x = job[e].id
<1>1. JobFits(job[e], e)
  BY JobFacts
<1>2. job[e].id \in 1..opens /\ job[e].life \in 1..e
  BY <1>1 DEF JobFits, NoJob
<1>3. None \notin Ifaces /\ \A x \in Ifaces : job[e] # Job("close", 0, x)
  BY LinkAssumption DEF Ifaces, Job
<1>4. job[e].id \in Ifaces /\ job[e].life \in Lids
  BY SMTT(30), <1>2, LinkAssumption DEF TypeOK, Ifaces, Lids
<1>5. held[e] = IF stage[e] \in {"register", "orphan"} THEN job[e].id ELSE None
  BY DEF StageFits
<1>. QED
  BY <1>3, <1>4, <1>5 DEF Built

LEMMA ConstructCustody ==
  ASSUME TypeOK, StageFits, JobsFit, Custody, NEW e \in Lids, Construct(e)
  PROVE  Custody'
<1>. USE DEF lifeVars, loopVars
<1>. DEFINE i == job[e].id
<1>1. /\ stage[e] = "open" /\ job[e].kind = "open" /\ i \in Ifaces
      /\ \A x \in Ifaces : ~Built("worker", e, 0, x)
  BY WorkerHolds DEF Construct, StageFits
<1>2. /\ UNCHANGED <<attached, detached, loose, dropped, queue, job>>
      /\ state' = [state EXCEPT ![i] = "open"]
      /\ \A x \in Lids : held'[x] = IF x = e THEN i ELSE held[x]
      /\ \A x \in Lids : stage'[x] = IF x = e THEN "register" ELSE stage[x]
  BY DEF Construct, TypeOK, Stage
<1>3. Planned(e, 0, i)
  <2>1. Len(queue[e]) \in Nat
    BY DEF TypeOK
  <2>. QED
    BY <1>1, <2>1 DEF Planned, JobAt
<1>4. \A k, x : \A n \in Nat : \A y \in Ifaces :
        Built(k, x, n, y)' <=> Built(k, x, n, y) \/ <<k, x, n, y>> = <<"worker", e, 0, i>>
  <2>1. \A x \in Ifaces : job[e] # Job("close", 0, x)
    BY <1>1 DEF Job
  <2>2. \A x : \A n \in Nat : \A y \in Ifaces :
          Built("worker", x, n, y)' <=> \/ Built("worker", x, n, y)
                                        \/ x = e /\ n = 0 /\ y = i
    <3>1. \A y \in Ifaces : Built("worker", e, 0, y)' <=> y = i
      BY <1>1, <1>2, <2>1 DEF Built
    <3>2. \A x : \A n \in Nat : \A y \in Ifaces :
            x # e \/ n # 0 => (Built("worker", x, n, y)' <=> Built("worker", x, n, y))
      BY <1>2 DEF Built
    <3>. QED
      BY <1>1, <3>1, <3>2
  <2>3. \A k, x : \A n \in Nat : \A y \in Ifaces :
          k # "worker" => (Built(k, x, n, y)' <=> Built(k, x, n, y))
    BY <1>2 DEF Built
  <2>. QED
    BY <2>2, <2>3
<1>5. \A x : \A n \in Nat : \A y \in Ifaces : Planned(x, n, y)' => Planned(x, n, y) /\ y # i
  <2>1. \A x : \A n \in Nat : \A y \in Ifaces :
          Planned(x, n, y)' => Planned(x, n, y) /\ <<x, n>> # <<e, 0>>
    BY <1>2 DEF Planned, JobAt
  <2>2. \A x : \A n \in Nat : Planned(x, n, i) => <<x, n>> = <<e, 0>>
    BY <1>1, <1>3 DEF Custody
  <2>. QED
    BY <2>1, <2>2
<1>. HIDE DEF i
<1>. QED
  BY <1>1, <1>2, <1>3, <1>4, <1>5, CustodyBegins DEF TypeOK

LEMMA ConstructFailsCustody ==
  ASSUME TypeOK, StageFits, JobsFit, Custody, NEW e \in Lids, ConstructFails(e)
  PROVE  Custody'
<1>. USE DEF lifeVars, loopVars, ifaceVars
<1>1. /\ Ends(e) /\ queue' = queue /\ stage[e] = "open" /\ job[e].kind = "open"
      /\ UNCHANGED <<state, attached, detached, loose, dropped>>
  BY DEF ConstructFails, StageFits
<1>. QED
  BY <1>1, WorkerHolds, IdleCustody

LEMMA RegisterCustody ==
  ASSUME TypeOK, StageFits, JobsFit, Custody, NEW e \in Lids, Register(e)
  PROVE  Custody'
<1>. USE DEF lifeVars, loopVars, ifaceVars
<1>. DEFINE i == job[e].id
<1>1. /\ stage[e] = "register" /\ held[e] = i /\ i \in Ifaces
      /\ \A x \in Ifaces : Built("worker", e, 0, x) <=> x = i
      /\ UNCHANGED <<state, detached, loose, dropped, queue>>
  BY WorkerHolds DEF Register, StageFits
<1>2. CASE ~MayRegister(e)
  <2>1. UNCHANGED <<attached, job, held>> /\ stage' = [stage EXCEPT ![e] = "orphan"]
    BY <1>2 DEF Register, Stage
  <2>. QED
    BY <1>1, <2>1, IdleCustody
<1>3. CASE MayRegister(e)
  <2>1. attached = None /\ attached' = i /\ Ends(e) /\ None \notin Ifaces
    BY <1>1, <1>3, LinkAssumption DEF Register, MayRegister, Ifaces
  <2>. HIDE DEF i
  <2>2. /\ \A x : \A n \in Nat : \A y \in Ifaces :
             Built("worker", x, n, y)' <=> Built("worker", x, n, y) /\ <<x, n>> # <<e, 0>>
        /\ \A x : \A n \in Nat : \A y \in Ifaces : Planned(x, n, y)' => Planned(x, n, y)
    BY <1>1, <2>1, EndsHolds
  <2>3. \A k, x : \A n \in Nat : \A y \in Ifaces :
          k # "worker" => (Built(k, x, n, y)' <=> \/ Built(k, x, n, y)
                                                  \/ k = "map" /\ x = 0 /\ n = 0 /\ y = i)
    BY <1>1, <2>1 DEF Built
  <2>4. state[i] = "open" /\ \A k, x : \A n \in Nat : Built(k, x, n, i) => <<k, x, n>> = <<"worker", e, 0>>
    BY <1>1 DEF Custody
  <2>5. \A k, x : \A n \in Nat : \A y \in Ifaces :
          Built(k, x, n, y)' <=> IF y = i THEN <<k, x, n>> = <<"map", 0, 0>> ELSE Built(k, x, n, y)
    BY <1>1, <2>2, <2>3, <2>4
  <2>. QED
    BY <1>1, <2>2, <2>4, <2>5, CustodyMoves
<1>. QED
  BY <1>2, <1>3

LEMMA OrphanCustody ==
  ASSUME TypeOK, StageFits, JobsFit, Custody, NEW e \in Lids, Orphan(e)
  PROVE  Custody'
<1>. USE DEF lifeVars, loopVars
<1>1. /\ Ends(e) /\ queue' = queue /\ stage[e] = "orphan" /\ job[e].kind = "open"
      /\ held[e] = job[e].id /\ Closed(job[e].id) /\ UNCHANGED <<attached, detached, loose, dropped>>
  BY DEF Orphan, StageFits
<1>. QED
  BY <1>1, WorkerHolds, ClosedCustody

LEMMA ProbeCustody ==
  ASSUME TypeOK, StageFits, JobsFit, Custody, NEW e \in Lids, Probe(e)
  PROVE  Custody'
<1>. USE DEF lifeVars, loopVars, ifaceVars
<1>1. /\ queue' = queue /\ stage[e] = "probe" /\ job[e].kind = "probe"
      /\ UNCHANGED <<state, attached, detached, loose, dropped>>
  BY DEF Probe, StageFits
<1>2. Ends(e) \/ (UNCHANGED <<job, held>> /\ stage' = [stage EXCEPT ![e] = "drop"])
  BY DEF Probe, Stage
<1>. QED
  BY <1>1, <1>2, WorkerHolds, IdleCustody

LEMMA DropCustody ==
  ASSUME TypeOK, StageFits, JobsFit, Custody, NEW e \in Lids, Drop(e)
  PROVE  Custody'
<1>. USE DEF lifeVars, loopVars
<1>. DEFINE i == job[e].id
<1>1. /\ Ends(e) /\ queue' = queue /\ i \in Ifaces /\ UNCHANGED <<detached, loose, dropped>>
      /\ \A x \in Ifaces : ~Built("worker", e, 0, x)
  BY WorkerHolds DEF Drop, StageFits
<1>2. CASE ~MayDrop(i)
  <2>1. UNCHANGED <<state, attached>>
    BY <1>2 DEF Drop
  <2>. QED
    BY <1>1, <2>1, IdleCustody
<1>3. CASE MayDrop(i)
  <2>1. attached = i /\ attached' = None /\ Closed(i) /\ None \notin Ifaces
    BY <1>3, LinkAssumption DEF Drop, MayDrop, Ifaces
  <2>. HIDE DEF i
  <2>2. /\ \A x : \A n \in Nat : \A y \in Ifaces :
             Built("worker", x, n, y)' <=> Built("worker", x, n, y) /\ <<x, n>> # <<e, 0>>
        /\ \A x : \A n \in Nat : \A y \in Ifaces : Planned(x, n, y)' => Planned(x, n, y)
    BY <1>1, EndsHolds
  <2>3. \A k, x : \A n \in Nat : \A y \in Ifaces :
          k # "worker" => (Built(k, x, n, y)' <=> Built(k, x, n, y) /\ k # "map")
    BY <1>1, <2>1 DEF Built
  <2>4. \A k, x : \A n \in Nat : \A y \in Ifaces : k = "map" /\ Built(k, x, n, y) => y = i
    BY <2>1 DEF Built
  <2>5. Built("map", 0, 0, i)
    BY <2>1 DEF Built
  <2>6. state[i] = "open" /\ \A k, x : \A n \in Nat : Built(k, x, n, i) => k = "map"
    BY <1>1, <2>5 DEF Custody
  <2>7. \A k, x : \A n \in Nat : \A y \in Ifaces :
          Built(k, x, n, y)' <=> y # i /\ Built(k, x, n, y)
    BY <1>1, <2>2, <2>3, <2>4, <2>6
  <2>. QED
    BY <1>1, <2>1, <2>2, <2>6, <2>7, CustodyEnds DEF TypeOK, Closed
<1>. QED
  BY <1>2, <1>3

LEMMA CloseLooseCustody ==
  ASSUME TypeOK, Custody, NEW i \in Ifaces, CloseLoose(i)
  PROVE  Custody'
<1>. USE DEF lifeVars, loopVars, workVars
<1>1. /\ UNCHANGED <<attached, detached, dropped, queue, held, job, stage>>
      /\ i \in loose /\ loose' = loose \ {i} /\ state' = [state EXCEPT ![i] = "closed"]
  BY DEF CloseLoose, Closed
<1>2. state[i] = "open" /\ \A k, x : \A n \in Nat : Built(k, x, n, i) => k = "loose"
  <2>1. Built("loose", 0, 0, i)
    BY <1>1 DEF Built
  <2>. QED
    BY <2>1 DEF Custody
<1>3. \A k, x : \A n \in Nat : \A y \in Ifaces :
        Built(k, x, n, y)' <=> Built(k, x, n, y) /\ ~(k = "loose" /\ y = i)
  BY <1>1 DEF Built
<1>4. \A x : \A n \in Nat : \A y \in Ifaces : Planned(x, n, y)' => Planned(x, n, y)
  BY <1>1 DEF Planned, JobAt
<1>5. \A k, x : \A n \in Nat : \A y \in Ifaces :
        Built(k, x, n, y)' <=> y # i /\ Built(k, x, n, y)
  BY <1>2, <1>3
<1>. QED
  BY <1>1, <1>2, <1>4, <1>5, CustodyEnds DEF TypeOK

LEMMA TakeCustody ==
  ASSUME TypeOK, StageFits, JobsFit, Custody, NEW e1 \in Lids, Take(e1)
  PROVE  Custody'
<1>. USE DEF lifeVars, loopVars, ifaceVars
<1>. DEFINE j == queue[e1][1]
            m == Len(queue[e1])
<1>1. /\ m \in Nat /\ m >= 1 /\ Len(queue'[e1]) = m - 1
      /\ \A n \in 1..m - 1 : queue'[e1][n] = queue[e1][n + 1]
      /\ \A x \in Lids \ {e1} : queue'[x] = queue[x]
      /\ \A x \in Lids : job'[x] = IF x = e1 THEN j ELSE job[x]
  BY SMTT(30), TakeEffect, JobFacts DEF TypeOK
<1>2. /\ UNCHANGED <<state, attached, detached, loose, dropped, held>>
      /\ job[e1] = NoJob /\ held[e1] = None
  BY DEF Take, StageFits
<1>3. None \notin Ifaces /\ \A i \in Ifaces : NoJob # Job("close", 0, i)
  BY LinkAssumption DEF Ifaces, NoJob, Job
<1>4. \A x \in Lids : x # e1 => stage'[x] = stage[x]
  BY DEF Take, Stage, TypeOK
<1>5. j.kind = "open" => stage'[e1] = "open"
  <2>1. Head(queue[e1]) = j
    <3>1. queue[e1] \in Seq(JobRecords) /\ queue[e1] # <<>>
      BY DEF Take, TypeOK
    <3>. QED
      BY ONLY <3>1
  <2>. HIDE DEF j
  <2>. QED
    BY <2>1 DEF Take, Stage, TypeOK, NoJob
<1>6. \A i \in Ifaces : ~Built("worker", e1, 0, i) /\ ~Planned(e1, 0, i)
  <2>1. NoJob.kind # "open"
    BY DEF NoJob
  <2>. QED
    BY <1>2, <1>3, <2>1 DEF Built, Planned, JobAt
<1>. HIDE DEF j, m
<1>7. ASSUME NEW n \in Nat
      PROVE  /\ n + 1 \in 1..m <=> n = 0 \/ n \in 1..m - 1
             /\ n + 1 \in 0..m <=> n \in 0..m - 1
             /\ n + 1 # 0 /\ n + 1 \in Nat
  BY <1>1
<1>8. \A n \in Nat : \A x \in Ifaces : Built("worker", e1, n, x)' <=> Built("worker", e1, n + 1, x)
  <2>1. ASSUME NEW n \in Nat, NEW x \in Ifaces
        PROVE  Built("worker", e1, n, x)' <=> Built("worker", e1, n + 1, x)
    <3>1. Built("worker", e1, n + 1, x) <=> n + 1 \in 1..m /\ queue[e1][n + 1] = Job("close", 0, x)
      BY <1>7 DEF Built, m
    <3>2. CASE n = 0
      <4>1. Built("worker", e1, 0, x)' <=> j = Job("close", 0, x)
        BY <1>1, <1>2, <1>3 DEF Built
      <4>. QED
        BY <1>7, <3>1, <3>2, <4>1 DEF j
    <3>3. CASE n # 0
      <4>1. Built("worker", e1, n, x)' <=> n \in 1..m - 1 /\ queue'[e1][n] = Job("close", 0, x)
        BY <1>1, <3>3 DEF Built
      <4>. QED
        BY <1>1, <1>7, <3>1, <3>3, <4>1
    <3>. QED
      BY <3>2, <3>3
  <2>. QED
    BY <2>1
<1>9. \A k, e : \A n \in Nat : \A x \in Ifaces :
        k # "worker" \/ e # e1 => (Built(k, e, n, x)' <=> Built(k, e, n, x))
  BY <1>1, <1>2 DEF Built
<1>10. \A n \in Nat : \A x \in Ifaces : Planned(e1, n, x)' <=> Planned(e1, n + 1, x)
  <2>1. ASSUME NEW n \in Nat, NEW x \in Ifaces
        PROVE  Planned(e1, n, x)' <=> Planned(e1, n + 1, x)
    <3>1. Planned(e1, n + 1, x) <=>
            n + 1 \in 0..m /\ queue[e1][n + 1].kind = "open" /\ queue[e1][n + 1].id = x
      BY <1>7 DEF Planned, JobAt, m
    <3>2. CASE n = 0
      <4>1. Planned(e1, 0, x)' <=> j.kind = "open" /\ j.id = x
        BY <1>1, <1>5 DEF Planned, JobAt
      <4>. QED
        BY <1>1, <1>7, <3>1, <3>2, <4>1 DEF j
    <3>3. CASE n # 0
      <4>1. Planned(e1, n, x)' <=> n \in 0..m - 1 /\ queue'[e1][n].kind = "open" /\ queue'[e1][n].id = x
        BY <1>1, <3>3 DEF Planned, JobAt
      <4>. QED
        BY <1>1, <1>7, <3>1, <3>3, <4>1
    <3>. QED
      BY <3>2, <3>3
  <2>. QED
    BY <2>1
<1>11. \A e : \A n \in Nat : \A x \in Ifaces : e # e1 => (Planned(e, n, x)' <=> Planned(e, n, x))
  BY <1>1, <1>4 DEF Planned, JobAt
<1>. QED
  BY <1>2, <1>6, <1>8, <1>9, <1>10, <1>11, CustodyShifts

LEMMA CustodyStep ==
  ASSUME IInv, Next
  PROVE  Custody'
<1>. USE DEF IInv
<1>1. CASE UNCHANGED quietVars
  BY <1>1, HeldSame DEF quietVars, heldVars, workVars, lifeVars
<1>2. CASE Connect \/ Disconnect \/ Shutdown
  BY <1>2, HeldSame DEF Connect, Disconnect, Shutdown, heldVars, workVars, lifeVars, loopVars, ifaceVars
<1>. QED
  BY <1>1, <1>2, Quiet, DetachCustody, CloseDetachedCustody, PopsCustody, CloseDroppedCustody,
     SubmitOpenCustody, PollCustody, CancelCustody, TakeCustody, CloseInterfaceCustody,
     ConstructCustody, ConstructFailsCustody, RegisterCustody, OrphanCustody, ProbeCustody,
     DropCustody, CloseLooseCustody

LEMMA UnnumberedStep ==
  ASSUME IInv, Next
  PROVE  Unnumbered'
<1>. USE DEF IInv
<1>1. lid \in Nat /\ opens \in Nat /\ opens' \in Nat /\ opens' >= opens
  BY Grows
<1>2. CASE state' = state
  BY <1>1, <1>2 DEF Unnumbered, Ifaces
<1>3. ASSUME NEW i \in Ifaces, state[i] # "none", Closed(i) PROVE Unnumbered'
  BY <1>1, <1>3 DEF Unnumbered, Ifaces, Closed, TypeOK
<1>4. ASSUME NEW e \in Lids, Construct(e) PROVE Unnumbered'
  <2>1. JobFits(job[e], e) /\ job[e].kind = "open"
    BY <1>4, JobFacts DEF Construct, StageFits
  <2>2. job[e].id \in 1..opens /\ state' = [state EXCEPT ![job[e].id] = "open"]
    BY <1>4, <2>1 DEF JobFits, NoJob, Construct
  <2>. QED
    BY <1>1, <2>2 DEF Unnumbered, Ifaces, TypeOK
<1>5. ASSUME NEW i \in Ifaces, NEW k, NEW e, NEW n \in Nat, Built(k, e, n, i) PROVE state[i] # "none"
  BY <1>5 DEF Custody
<1>6. ASSUME NEW e \in Lids, CloseInterface(e) PROVE Unnumbered'
  <2>1. job[e].kind = "close" /\ JobFits(job[e], e) /\ job[e] \in JobRecords /\ Closed(job[e].id)
    BY <1>6, JobFacts DEF CloseInterface, StageFits, TypeOK
  <2>2. job[e].id \in Ifaces /\ job[e] = Job("close", 0, job[e].id)
    BY <2>1 DEF JobFits, NoJob, Job, JobRecords
  <2>3. Built("worker", e, 0, job[e].id)
    BY <2>2 DEF Built
  <2>. QED
    BY <1>3, <1>5, <2>1, <2>2, <2>3
<1>7. ASSUME NEW e \in Lids, Orphan(e) PROVE Unnumbered'
  <2>1. stage[e] = "orphan" /\ job[e].kind = "open" /\ held[e] = job[e].id /\ Closed(job[e].id)
    BY <1>7 DEF Orphan, StageFits
  <2>2. job[e].id \in Ifaces /\ Built("worker", e, 0, job[e].id)
    BY <2>1, WorkerHolds
  <2>. QED
    BY <1>3, <1>5, <2>1, <2>2
<1>8. ASSUME NEW e \in Lids, Drop(e), state' # state PROVE Unnumbered'
  <2>1. stage[e] = "drop" /\ job[e].kind = "probe" /\ attached = job[e].id /\ Closed(job[e].id)
    BY <1>8 DEF Drop, MayDrop, StageFits
  <2>2. job[e].id \in Ifaces /\ Built("map", 0, 0, job[e].id)
    BY <2>1, WorkerHolds DEF Built
  <2>. QED
    BY <1>3, <1>5, <2>1, <2>2
<1>9. ASSUME NEW i \in Ifaces, CloseLoose(i) PROVE Unnumbered'
  <2>1. Closed(i) /\ Built("loose", 0, 0, i)
    BY <1>9 DEF CloseLoose, Built
  <2>. QED
    BY <1>3, <1>5, <2>1
<1>10. ASSUME NEW l \in Lids, Pops(l) \/ CloseDropped(l) \/ SubmitOpen(l) \/ Poll(l) \/ LoopCancelled(l)
       PROVE  state' = state
  BY <1>10 DEF Pops, CloseDropped, SubmitOpen, Poll, LoopCancelled, ifaceVars
<1>11. CASE Connect \/ Disconnect \/ Detach \/ CloseDetached \/ Shutdown \/ UNCHANGED quietVars
  BY <1>2, <1>11 DEF Connect, Disconnect, Detach, CloseDetached, Shutdown, quietVars, ifaceVars
<1>12. ASSUME NEW e \in Lids, Take(e) \/ ConstructFails(e) \/ Register(e) \/ Probe(e) PROVE state' = state
  BY <1>12 DEF Take, ConstructFails, Register, Probe, ifaceVars
<1>. QED
  BY <1>2, <1>4, <1>6, <1>7, <1>8, <1>9, <1>10, <1>11, <1>12, Quiet

-----------------------------------------------------------------------------
(* Generations, loops and their answers.                                   *)

LEMMA LifeFrame ==
  ASSUME Next
  PROVE  UNCHANGED lifeVars \/ Connect \/ Disconnect \/ Detach \/ CloseDetached \/ Shutdown
<1>1. ASSUME UNCHANGED quietVars PROVE UNCHANGED lifeVars
  BY <1>1 DEF quietVars
<1>2. ASSUME NEW l \in Lids, Pops(l) \/ CloseDropped(l) \/ SubmitOpen(l) \/ Poll(l) \/ LoopCancelled(l)
      PROVE  UNCHANGED lifeVars
  BY <1>2 DEF Pops, CloseDropped, SubmitOpen, Poll, LoopCancelled
<1>3. ASSUME NEW e \in Lids, \/ Take(e) \/ CloseInterface(e) \/ Construct(e) \/ ConstructFails(e)
                             \/ Register(e) \/ Orphan(e) \/ Probe(e) \/ Drop(e)
      PROVE  UNCHANGED lifeVars
  BY <1>3 DEF Take, CloseInterface, Construct, ConstructFails, Register, Orphan, Probe, Drop
<1>4. ASSUME NEW i \in Ifaces, CloseLoose(i) PROVE UNCHANGED lifeVars
  BY <1>4 DEF CloseLoose
<1>. QED
  BY <1>1, <1>2, <1>3, <1>4, Quiet

\* The map is filled only by an open of the lifecycle that runs.
LEMMA AttachedFrame ==
  ASSUME Next
  PROVE  \/ attached' = attached \/ attached' = None
         \/ \E e \in Lids : Register(e) /\ MayRegister(e)
<1>1. ASSUME UNCHANGED quietVars PROVE attached' = attached
  BY <1>1 DEF quietVars
<1>2. ASSUME NEW l \in Lids, Pops(l) \/ CloseDropped(l) \/ SubmitOpen(l) \/ Poll(l) \/ LoopCancelled(l)
      PROVE  attached' = attached \/ attached' = None
  BY <1>2 DEF Pops, CloseDropped, SubmitOpen, Poll, LoopCancelled
<1>3. ASSUME NEW e \in Lids, \/ Take(e) \/ CloseInterface(e) \/ Construct(e) \/ ConstructFails(e)
                             \/ (Register(e) /\ ~MayRegister(e)) \/ Orphan(e) \/ Probe(e) \/ Drop(e)
      PROVE  attached' = attached \/ attached' = None
  BY <1>3 DEF Take, CloseInterface, Construct, ConstructFails, Register, Orphan, Probe, Drop
<1>4. ASSUME NEW i \in Ifaces, CloseLoose(i) PROVE attached' = attached
  BY <1>4 DEF CloseLoose
<1>5. CASE Connect \/ Disconnect \/ Detach \/ CloseDetached \/ Shutdown
  BY <1>5 DEF Connect, Disconnect, Detach, CloseDetached, Shutdown, lifeVars
<1>. QED
  BY <1>1, <1>2, <1>3, <1>4, <1>5, Quiet

\* Who waits for the answer of a job is at an await of that job.
LEMMA AwaitedAt ==
  ASSUME TypeOK, StageFits, JobsFit, LoopFits, NEW e \in Lids,
         job[e].kind \in {"open", "probe"}, Awaited(job[e])
  PROVE  job[e].life \in Lids /\ loop[job[e].life] = IF job[e].kind = "open" THEN "opening" ELSE "probing"
<1>1. JobFits(job[e], e)
  BY JobFacts
<1>2. job[e].life \in Lids /\ job[e].id # 0
  BY SMTT(30), <1>1, LinkAssumption DEF JobFits, NoJob, TypeOK, Lids
<1>. QED
  BY <1>2 DEF Awaited, LoopFits, At

\* An answer that a worker gives is to a loop that waits for it.
LEMMA ReplyFrame ==
  ASSUME TypeOK, StageFits, JobsFit, LoopFits, NEW e \in Lids,
         \/ Take(e) \/ CloseInterface(e) \/ Construct(e) \/ ConstructFails(e)
         \/ Register(e) \/ Orphan(e) \/ Probe(e) \/ Drop(e),
         NEW l \in Lids, reply'[l] # reply[l]
  PROVE  /\ job[e].kind \in {"open", "probe"} /\ l = job[e].life /\ Awaited(job[e])
         /\ reply'[l] = "nothing" => Orphan(e) /\ ~(Active(l) /\ attached # None)
<1>1. CASE Take(e) \/ CloseInterface(e) \/ Construct(e)
  BY <1>1 DEF Take, CloseInterface, Construct
<1>2. CASE ConstructFails(e)
  BY <1>2, AnswersEffect DEF ConstructFails, StageFits
<1>3. CASE Register(e)
  BY <1>3, AnswersEffect DEF Register, StageFits
<1>4. CASE Orphan(e)
  <2>1. \E a \in {"nothing", "interface"} :
          Answers(e, a) /\ (a = "nothing" => ~(Active(job[e].life) /\ attached # None))
    BY <1>4 DEF Orphan
  <2>. QED
    BY <1>4, <2>1, AnswersEffect DEF Orphan, StageFits
<1>5. CASE Probe(e)
  <2>1. \E a \in {"alive", "gone"} : Answers(e, a)
    BY <1>5 DEF Probe
  <2>. QED
    BY <1>5, <2>1, AnswersEffect DEF Probe, StageFits
<1>6. CASE Drop(e)
  <2>1. \E a \in {"dead", "gone"} : Answers(e, a)
    BY <1>6 DEF Drop
  <2>. QED
    BY <1>6, <2>1, AnswersEffect DEF Drop, StageFits
<1>. QED
  BY <1>1, <1>2, <1>3, <1>4, <1>5, <1>6

\* A loop that has not been started is not touched.
LEMMA OffFrame ==
  ASSUME IInv, Next, ~Connect, NEW l \in Lids, loop[l] = "off"
  PROVE  loop'[l] = loop[l] /\ reply'[l] = reply[l] /\ ticket'[l] = ticket[l]
<1>. USE DEF IInv
<1>. USE DEF lifeVars, loopVars, workVars, pauseVars, ifaceVars
<1>1. CASE \/ Disconnect \/ Detach \/ CloseDetached \/ Shutdown \/ ResumeLink \/ DeadlinePasses
           \/ \E kind \in {"timed", "untimed"} : PauseLink(kind)
           \/ \E i \in Ifaces : CloseLoose(i) \/ LinkDrops(i)
  BY <1>1 DEF Disconnect, Detach, CloseDetached, Shutdown, ResumeLink, DeadlinePasses, PauseLink,
              CloseLoose, LinkDrops
<1>2. ASSUME NEW m \in Lids, Tick(m) \/ Expire(m) \/ Wait(m) \/ StartPolling(m) \/ Wakes(m) \/ NoExecutor(m)
      PROVE  loop[m] # "off" /\ UNCHANGED <<reply, ticket>> /\ \E s : loop' = [loop EXCEPT ![m] = s]
  BY <1>2 DEF Tick, Expire, Wait, StartPolling, Wakes, NoExecutor, At, Goes
<1>3. ASSUME NEW m \in Lids, OpenReturns(m) \/ OpenTimesOut(m) \/ ProbeReturns(m) \/ PollsAgain(m)
      PROVE  /\ loop[m] # "off" /\ \E s : loop' = [loop EXCEPT ![m] = s]
             /\ reply' = reply \/ reply' = [reply EXCEPT ![m] = "none"]
             /\ ticket' = ticket \/ ticket' = [ticket EXCEPT ![m] = 0]
  BY <1>3 DEF OpenReturns, OpenTimesOut, ProbeReturns, PollsAgain, At, Goes
<1>4. ASSUME NEW m \in Lids, Pops(m) \/ CloseDropped(m) \/ Poll(m)
      PROVE  loop[m] # "off" /\ UNCHANGED <<reply, ticket>> /\ \E s : loop' = [loop EXCEPT ![m] = s]
  BY <1>4 DEF Pops, CloseDropped, Poll, At, Goes
<1>5. ASSUME NEW m \in Lids, SubmitOpen(m)
      PROVE  /\ loop[m] # "off" /\ reply' = reply /\ ticket' = [ticket EXCEPT ![m] = opens']
             /\ \E s : loop' = [loop EXCEPT ![m] = s]
  BY <1>5 DEF SubmitOpen, At, Goes
<1>6. ASSUME NEW m \in Lids, LoopCancelled(m)
      PROVE  /\ loop[m] # "off" /\ reply' = [reply EXCEPT ![m] = "none"]
             /\ ticket' = [ticket EXCEPT ![m] = 0] /\ \E s : loop' = [loop EXCEPT ![m] = s]
  BY <1>6 DEF LoopCancelled, At, Goes
<1>7. ASSUME NEW e \in Lids, \/ Take(e) \/ CloseInterface(e) \/ Construct(e) \/ ConstructFails(e)
                             \/ Register(e) \/ Orphan(e) \/ Probe(e) \/ Drop(e)
      PROVE  loop'[l] = loop[l] /\ reply'[l] = reply[l] /\ ticket'[l] = ticket[l]
  <2>1. UNCHANGED <<loop, ticket>>
    BY <1>7 DEF Take, CloseInterface, Construct, ConstructFails, Register, Orphan, Probe, Drop
  <2>2. reply'[l] = reply[l]
    BY <1>7, ReplyFrame, AwaitedAt
  <2>. QED
    BY <2>1, <2>2
<1>. QED
  BY <1>1, <1>2, <1>3, <1>4, <1>5, <1>6, <1>7, Cases DEF TypeOK

LEMMA GenerationStep ==
  ASSUME IInv, Next
  PROVE  Generations'
<1>. USE DEF IInv
<1>1. lid \in Nat /\ lid \in 0..MaxLifecycle /\ phase \in {"up", "stopping", "closing", "shutdown", "down"}
  BY Grows DEF TypeOK
<1>. DEFINE Life == /\ exec \in Lids \cup {0}
                    /\ phase = "up" => exec = lid /\ lid # 0
                    /\ phase \in {"stopping", "closing", "shutdown"} => exec = lid - 1 /\ exec # 0
                    /\ phase = "down" => exec = 0
                    /\ phase \in {"closing", "shutdown", "down"} => attached = None
                    /\ phase # "closing" => detached = None
            Off(l) == l > lid \/ (l = lid /\ phase # "up")
            OffIdle == \A l \in Lids : Off(l) => loop[l] = "off" /\ reply[l] = "none" /\ ticket[l] = 0
            DoomedOld == \A l \in doomed : l < lid
<1>2. Life'
  <2>1. CASE Connect
    BY <1>1, <2>1, LinkAssumption DEF Connect, Generations, Lids
  <2>2. CASE Disconnect
    BY <1>1, <2>2 DEF Disconnect, Generations
  <2>3. CASE Detach \/ CloseDetached \/ Shutdown
    BY <1>1, <2>3 DEF Detach, CloseDetached, Shutdown, Generations
  <2>4. CASE UNCHANGED lifeVars
    <3>1. phase = "up" \/ attached' = attached \/ attached' = None
      BY AttachedFrame DEF MayRegister, Active
    <3>. QED
      BY <2>4, <3>1 DEF lifeVars, Generations
  <2>. QED
    BY <2>1, <2>2, <2>3, <2>4, LifeFrame
<1>3. OffIdle'
  <2>1. CASE Connect
    <3>1. /\ lid' = lid + 1 /\ phase' = "up" /\ phase = "down" /\ loop' = [loop EXCEPT ![lid'] = "sleep"]
          /\ UNCHANGED <<reply, ticket>>
      BY <2>1 DEF Connect, loopVars
    <3>2. ASSUME NEW l \in Lids, Off(l)' PROVE Off(l) /\ l # lid'
      BY <1>1, <3>1, <3>2, LinkAssumption DEF Lids
    <3>. QED
      BY <3>1, <3>2 DEF Generations, TypeOK
  <2>2. CASE ~Connect
    <3>1. ASSUME NEW l \in Lids, Off(l)' PROVE Off(l)
      <4>1. CASE UNCHANGED lifeVars
        BY <3>1, <4>1 DEF lifeVars
      <4>2. CASE Disconnect
        BY <1>1, <3>1, <4>2, LinkAssumption DEF Disconnect, Lids
      <4>3. CASE Detach \/ CloseDetached \/ Shutdown
        BY <3>1, <4>3 DEF Detach, CloseDetached, Shutdown
      <4>. QED
        BY <2>2, <4>1, <4>2, <4>3, LifeFrame
    <3>2. ASSUME NEW l \in Lids, Off(l)
          PROVE  loop[l] = "off" /\ reply[l] = "none" /\ ticket[l] = 0
      BY <3>2 DEF Generations
    <3>. QED
      BY <2>2, <3>1, <3>2, OffFrame
  <2>. QED
    BY <2>1, <2>2
<1>4. DoomedOld'
  <2>1. lid' \in Nat /\ lid' >= lid /\ \A l \in Lids : l \in Nat
    BY Grows, LinkAssumption DEF Lids
  <2>2. doomed' \subseteq doomed \/ Detach
    <3>1. ASSUME UNCHANGED quietVars PROVE doomed' = doomed
      BY <3>1 DEF quietVars
    <3>2. ASSUME NEW l \in Lids, Pops(l) \/ CloseDropped(l) \/ SubmitOpen(l) \/ Poll(l) \/ LoopCancelled(l)
          PROVE  doomed' \subseteq doomed
      BY <3>2 DEF Pops, CloseDropped, SubmitOpen, Poll, LoopCancelled
    <3>3. ASSUME NEW e \in Lids, \/ Take(e) \/ CloseInterface(e) \/ Construct(e) \/ ConstructFails(e)
                                 \/ Register(e) \/ Orphan(e) \/ Probe(e) \/ Drop(e)
          PROVE  doomed' = doomed
      BY <3>3 DEF Take, CloseInterface, Construct, ConstructFails, Register, Orphan, Probe, Drop, loopVars
    <3>4. ASSUME NEW i \in Ifaces, CloseLoose(i) PROVE doomed' = doomed
      BY <3>4 DEF CloseLoose, loopVars
    <3>5. CASE Connect \/ Disconnect \/ CloseDetached \/ Shutdown
      BY <3>5 DEF Connect, Disconnect, CloseDetached, Shutdown, loopVars
    <3>. QED
      BY <3>1, <3>2, <3>3, <3>4, <3>5, Quiet
  <2>3. CASE doomed' \subseteq doomed
    BY <1>1, <2>1, <2>3 DEF Generations, TypeOK
  <2>4. CASE Detach
    <3>1. /\ phase = "stopping" /\ lid' = lid
          /\ doomed' = doomed \cup {l \in Lids : loop[l] \notin {"off", "ended"}}
      BY <2>4 DEF Detach
    <3>2. \A l \in Lids : loop[l] # "off" => l < lid
      BY <1>1, <2>1, <3>1 DEF Generations
    <3>. QED
      BY <3>1, <3>2 DEF Generations
  <2>. QED
    BY <2>2, <2>3, <2>4
<1>. QED
  BY <1>2, <1>3, <1>4 DEF Generations

\* A lifecycle that runs after a step ran before it, unless the step starts it.
LEMMA ActiveBefore ==
  ASSUME IInv, Next, NEW l \in Lids, Active(l)'
  PROVE  Active(l) \/ (Connect /\ loop[l] = "off" /\ reply'[l] = "none" /\ l > lid)
<1>. USE DEF IInv
<1>1. lid \in Nat
  BY Grows
<1>2. CASE Connect
  <2>1. l = lid + 1 /\ l > lid /\ reply' = reply
    BY <1>1, <1>2 DEF Connect, Active
  <2>. QED
    BY <1>2, <2>1 DEF Generations
<1>3. CASE ~Connect
  BY <1>3, LifeFrame DEF Active, lifeVars, Disconnect, Detach, CloseDetached, Shutdown
<1>. QED
  BY <1>2, <1>3

LEMMA LoopFitsStep ==
  ASSUME IInv, Next
  PROVE  LoopFits'
<1>. USE DEF IInv
<1>. USE DEF lifeVars, loopVars, workVars, pauseVars, ifaceVars
<1>. DEFINE Fits(l) == /\ ticket[l] # 0 => loop[l] = "opening"
                       /\ dropped[l] # None => loop[l] = "dropping"
                       /\ reply[l] # "none" => loop[l] \in {"opening", "probing"}
<1>0. /\ \A l \in Lids : Fits(l)
      /\ loop \in [Lids -> LoopLabels] /\ ticket \in [Lids -> 0..MaxOpens]
      /\ reply \in [Lids -> {"none", "error", "nothing", "interface", "alive", "dead", "gone"}]
      /\ dropped \in [Lids -> Ifaces \cup {None}]
  BY DEF LoopFits, TypeOK
<1>1. \A l \in Lids : Fits(l)'
  <2>1. CASE \/ Disconnect \/ Detach \/ CloseDetached \/ Shutdown \/ ResumeLink \/ DeadlinePasses
             \/ \E kind \in {"timed", "untimed"} : PauseLink(kind)
             \/ \E i \in Ifaces : CloseLoose(i) \/ LinkDrops(i)
    <3>1. UNCHANGED <<loop, ticket, reply, dropped>>
      BY <2>1 DEF Disconnect, Detach, CloseDetached, Shutdown, ResumeLink, DeadlinePasses, PauseLink,
                  CloseLoose, LinkDrops
    <3>. QED
      BY <1>0, <3>1
  <2>2. CASE Connect
    <3>1. /\ lid' = lid + 1 /\ loop' = [loop EXCEPT ![lid'] = "sleep"]
          /\ UNCHANGED <<ticket, reply, dropped>>
      BY <2>2 DEF Connect
    <3>2. \A l \in Lids : l = lid' => loop[l] = "off"
      BY <3>1, Grows DEF Generations
    <3>. QED
      BY <1>0, <3>1, <3>2
  <2>3. ASSUME NEW m \in Lids, Tick(m) \/ Expire(m) \/ Wait(m) \/ StartPolling(m) \/ Wakes(m)
                               \/ NoExecutor(m) \/ PollsAgain(m) \/ Poll(m)
        PROVE  /\ loop[m] \notin {"opening", "probing", "dropping"} /\ UNCHANGED <<reply, ticket, dropped>>
               /\ \E s : loop' = [loop EXCEPT ![m] = s]
    BY <2>3 DEF Tick, Expire, Wait, StartPolling, Wakes, NoExecutor, PollsAgain, Poll, At, Goes
  <2>4. ASSUME NEW m \in Lids, OpenReturns(m) \/ OpenTimesOut(m) \/ ProbeReturns(m) \/ LoopCancelled(m)
        PROVE  /\ loop[m] # "dropping" /\ dropped' = dropped
               /\ \E s : loop' = [loop EXCEPT ![m] = s]
               /\ reply' = [reply EXCEPT ![m] = "none"]
               /\ ticket' = [ticket EXCEPT ![m] = 0]
    <3>1. CASE OpenReturns(m)
      BY <3>1 DEF OpenReturns, At, Goes
    <3>2. CASE OpenTimesOut(m)
      <4>1. reply' = [reply EXCEPT ![m] = "none"]
        BY <1>0, <3>2 DEF OpenTimesOut
      <4>. QED
        BY <3>2, <4>1 DEF OpenTimesOut, At, Goes
    <3>3. CASE ProbeReturns(m)
      <4>1. ticket' = [ticket EXCEPT ![m] = 0]
        BY <1>0, <3>3 DEF ProbeReturns, At
      <4>. QED
        BY <3>3, <4>1 DEF ProbeReturns, At, Goes
    <3>4. CASE LoopCancelled(m)
      BY <3>4 DEF LoopCancelled, At, Goes
    <3>. QED
      BY <2>4, <3>1, <3>2, <3>3, <3>4
  <2>5. ASSUME NEW m \in Lids, Pops(m) PROVE \A l \in Lids : Fits(l)'
    <3>1. /\ loop[m] \in {"look", "failing"} /\ UNCHANGED <<reply, ticket>>
          /\ \/ loop' = [loop EXCEPT ![m] = "dropping"] /\ \E i : dropped' = [dropped EXCEPT ![m] = i]
             \/ loop' = [loop EXCEPT ![m] = "ended"] /\ dropped' = dropped
      BY <2>5 DEF Pops, At, Goes
    <3>. QED
      BY <1>0, <3>1
  <2>6. ASSUME NEW m \in Lids, CloseDropped(m) PROVE \A l \in Lids : Fits(l)'
    <3>1. /\ loop[m] = "dropping" /\ UNCHANGED <<reply, ticket>>
          /\ loop' = [loop EXCEPT ![m] = "sleep"] /\ dropped' = [dropped EXCEPT ![m] = None]
      BY <2>6 DEF CloseDropped, At, Goes
    <3>. QED
      BY <1>0, <3>1
  <2>7. ASSUME NEW m \in Lids, SubmitOpen(m) PROVE \A l \in Lids : Fits(l)'
    <3>1. /\ loop[m] = "look" /\ UNCHANGED <<reply, dropped>>
          /\ loop' = [loop EXCEPT ![m] = "opening"] /\ ticket' = [ticket EXCEPT ![m] = opens']
      BY <2>7 DEF SubmitOpen, At, Goes
    <3>. QED
      BY <1>0, <3>1
  <2>8. ASSUME NEW e \in Lids, \/ Take(e) \/ CloseInterface(e) \/ Construct(e) \/ ConstructFails(e)
                               \/ Register(e) \/ Orphan(e) \/ Probe(e) \/ Drop(e)
        PROVE  \A l \in Lids : Fits(l)'
    <3>1. UNCHANGED <<loop, ticket, dropped>>
      BY <2>8 DEF Take, CloseInterface, Construct, ConstructFails, Register, Orphan, Probe, Drop
    <3>2. \A l \in Lids : reply'[l] # reply[l] => loop[l] \in {"opening", "probing"}
      BY <2>8, ReplyFrame, AwaitedAt
    <3>. QED
      BY <1>0, <3>1, <3>2
  <2>9. ASSUME NEW m \in Lids, \E s : loop' = [loop EXCEPT ![m] = s], loop[m] # "dropping", dropped' = dropped,
               \/ loop[m] \notin {"opening", "probing"} /\ UNCHANGED <<reply, ticket>>
               \/ reply' = [reply EXCEPT ![m] = "none"] /\ ticket' = [ticket EXCEPT ![m] = 0]
        PROVE  \A l \in Lids : Fits(l)'
    BY <1>0, <2>9
  <2>. HIDE DEF Fits
  <2>. QED
    BY <2>1, <2>2, <2>3, <2>4, <2>5, <2>6, <2>7, <2>8, <2>9, Cases
<1>2. ASSUME NEW l \in Lids, (reply[l] = "nothing" /\ Active(l))' PROVE FALSE
  <2>1. Active(l)
    BY <1>2, ActiveBefore
  <2>2. reply'[l] # reply[l]
    BY <1>2, <2>1 DEF LoopFits
  <2>3. PICK e \in Lids : \/ Take(e) \/ CloseInterface(e) \/ Construct(e) \/ ConstructFails(e)
                          \/ Register(e) \/ Orphan(e) \/ Probe(e) \/ Drop(e)
    <3>1. CASE \/ Connect \/ Disconnect \/ Detach \/ CloseDetached \/ Shutdown \/ ResumeLink \/ DeadlinePasses
               \/ \E kind \in {"timed", "untimed"} : PauseLink(kind)
               \/ \E i \in Ifaces : CloseLoose(i) \/ LinkDrops(i)
      BY <2>2, <3>1 DEF Connect, Disconnect, Detach, CloseDetached, Shutdown, ResumeLink, DeadlinePasses,
                        PauseLink, CloseLoose, LinkDrops
    <3>2. ASSUME NEW m \in Lids,
                 \/ Tick(m) \/ Expire(m) \/ Wait(m) \/ StartPolling(m) \/ Wakes(m) \/ NoExecutor(m)
                 \/ PollsAgain(m) \/ OpenReturns(m) \/ OpenTimesOut(m) \/ ProbeReturns(m)
                 \/ Pops(m) \/ CloseDropped(m) \/ SubmitOpen(m) \/ Poll(m) \/ LoopCancelled(m)
          PROVE  reply' = reply \/ reply' = [reply EXCEPT ![m] = "none"]
      BY <3>2 DEF Tick, Expire, Wait, StartPolling, Wakes, NoExecutor, PollsAgain, OpenReturns,
                  OpenTimesOut, ProbeReturns, Pops, CloseDropped, SubmitOpen, Poll, LoopCancelled
    <3>3. ~(reply' = reply) /\ \A m \in Lids : ~(reply' = [reply EXCEPT ![m] = "none"])
      BY <1>0, <1>2, <2>2
    <3>. QED
      BY <3>1, <3>2, <3>3, Cases
  <2>4. Awaited(job[e]) /\ l = job[e].life /\ Orphan(e) /\ ~(Active(l) /\ attached # None)
    BY <1>2, <2>2, <2>3, ReplyFrame
  <2>. QED
    BY <2>1, <2>4 DEF OrphanFinds, Orphan
<1>. QED
  BY <1>1, <1>2 DEF LoopFits

LEMMA WatchStep ==
  ASSUME IInv, Next
  PROVE  LoopWatches'
<1>. USE DEF IInv
<1>. USE DEF lifeVars, loopVars, workVars, pauseVars, ifaceVars
<1>1. CASE Connect
  <2>1. lid' \in Lids /\ loop' = [loop EXCEPT ![lid'] = "sleep"]
    BY <1>1, Grows, LinkAssumption DEF Connect, Lids, TypeOK
  <2>. QED
    BY <2>1 DEF LoopWatches, TypeOK
<1>2. CASE ~Connect
  <2>. SUFFICES ASSUME phase' = "up", loop'[lid'] = "ended" PROVE FALSE
    BY DEF LoopWatches
  <2>1. phase = "up" /\ lid' = lid /\ lid \in Lids /\ Active(lid) /\ exec # 0
    BY <1>2, LifeFrame, LinkAssumption
       DEF Disconnect, Detach, CloseDetached, Shutdown, Active, Generations, TypeOK, Lids
  <2>2. loop[lid] # "ended" /\ loop'[lid] # loop[lid]
    BY <2>1 DEF LoopWatches
  <2>3. ASSUME NEW m \in Lids,
               \/ Tick(m) \/ Expire(m) \/ Wait(m) \/ StartPolling(m) \/ Wakes(m) \/ OpenTimesOut(m)
               \/ ProbeReturns(m) \/ PollsAgain(m) \/ Pops(m) \/ CloseDropped(m) \/ SubmitOpen(m) \/ Poll(m)
        PROVE  \E s : loop' = [loop EXCEPT ![m] = s] /\ (s = "ended" => ~Active(m))
    BY <2>3 DEF Tick, Expire, Wait, StartPolling, Wakes, OpenTimesOut, ProbeReturns, PollsAgain, Pops,
                MayPop, CloseDropped, SubmitOpen, Poll, Goes
  <2>4. ASSUME NEW m \in Lids, OpenReturns(m)
        PROVE  \E s : loop' = [loop EXCEPT ![m] = s] /\ (s = "ended" => ~Active(m))
    <3>1. CASE reply[m] = "nothing"
      <4>1. ~Active(m)
        BY <3>1 DEF LoopFits
      <4>. QED
        BY <2>4, <4>1 DEF OpenReturns, Goes
    <3>2. CASE reply[m] # "nothing"
      <4>1. Goes(m, "failing") \/ Goes(m, "tick")
        BY <2>4, <3>2 DEF OpenReturns
      <4>. QED
        BY <4>1 DEF Goes
    <3>. QED
      BY <3>1, <3>2
  <2>5. ASSUME NEW m \in Lids, LoopCancelled(m)
        PROVE  loop' = [loop EXCEPT ![m] = "ended"] /\ ~Active(m)
    BY <2>5, Grows, LinkAssumption DEF LoopCancelled, Goes, Generations, Active, Lids
  <2>6. ASSUME NEW m \in Lids, NoExecutor(m) PROVE FALSE
    BY <2>1, <2>6 DEF NoExecutor
  <2>7. ASSUME NEW m \in Lids, \E s : loop' = [loop EXCEPT ![m] = s] /\ (s = "ended" => ~Active(m))
        PROVE  FALSE
    BY <2>1, <2>2, <2>7 DEF TypeOK
  <2>8. ASSUME NEW e \in Lids, \/ Take(e) \/ CloseInterface(e) \/ Construct(e) \/ ConstructFails(e)
                               \/ Register(e) \/ Orphan(e) \/ Probe(e) \/ Drop(e)
        PROVE  FALSE
    BY <2>2, <2>1, <2>8 DEF Take, CloseInterface, Construct, ConstructFails, Register, Orphan, Probe, Drop
  <2>9. CASE \/ Disconnect \/ Detach \/ CloseDetached \/ Shutdown \/ ResumeLink \/ DeadlinePasses
             \/ \E kind \in {"timed", "untimed"} : PauseLink(kind)
             \/ \E i \in Ifaces : CloseLoose(i) \/ LinkDrops(i)
    BY <2>1, <2>2, <2>9 DEF Disconnect, Detach, CloseDetached, Shutdown, ResumeLink, DeadlinePasses,
                      PauseLink, CloseLoose, LinkDrops
  <2>. QED
    BY <1>2, <2>3, <2>4, <2>5, <2>6, <2>7, <2>8, <2>9, Cases
<1>. QED
  BY <1>1, <1>2

\* The probe of a worker was there before the step, or is a new one.
LEMMA ProbeBefore ==
  ASSUME IInv, Next, NEW e \in Lids, NEW n \in (0..Len(queue[e]))', (JobAt(e, n).kind = "probe")'
  PROVE  \/ \E m \in 0..Len(queue[e]) :
              JobAt(e, m).kind = "probe" /\ JobAt(e, m).id = (JobAt(e, n).id)'
         \/ \E l \in Lids : Poll(l) /\ MayPoll(l) /\ e = exec /\ (JobAt(e, n).id)' = attached
<1>. USE DEF IInv
<1>. USE DEF lifeVars, loopVars, workVars, pauseVars, ifaceVars
<1>1. Len(queue[e]) \in Nat
  BY JobFacts
<1>2. CASE UNCHANGED <<queue, job>>
  BY <1>2 DEF JobAt
<1>3. ASSUME NEW x \in Lids, NEW j \in JobRecords, Submitted(x, j), job' = job
      PROVE  \/ n \in 0..Len(queue[e]) /\ JobAt(e, n)' = JobAt(e, n)
             \/ e = x /\ JobAt(e, n)' = j
  <2>1. /\ Len(queue'[x]) = Len(queue[x]) + 1 /\ queue'[x][Len(queue[x]) + 1] = j
        /\ \A m \in 1..Len(queue[x]) : queue'[x][m] = queue[x][m]
        /\ x # e => queue'[e] = queue[e]
    BY <1>3, SubmitEffect DEF TypeOK
  <2>2. CASE n = 0
    BY <1>1, <1>3, <2>2 DEF JobAt
  <2>3. CASE n # 0 /\ e # x
    BY <2>1, <2>3 DEF JobAt
  <2>4. CASE n # 0 /\ e = x
    <3>1. n = Len(queue[e]) + 1 \/ n \in 1..Len(queue[e])
      BY <1>1, <2>1, <2>4
    <3>. QED
      BY <1>1, <2>1, <2>4, <3>1 DEF JobAt
  <2>. QED
    BY <2>2, <2>3, <2>4
<1>4. ASSUME NEW x \in Lids, NEW j \in JobRecords, Submitted(x, j), job' = job, j.kind # "probe"
      PROVE  \E m \in 0..Len(queue[e]) :
               JobAt(e, m).kind = "probe" /\ JobAt(e, m).id = (JobAt(e, n).id)'
  <2>1. n \in 0..Len(queue[e]) /\ JobAt(e, n)' = JobAt(e, n)
    BY <1>3, <1>4
  <2>. QED
    BY <2>1
<1>5. ASSUME CloseDetached, ~UNCHANGED <<queue, job>>
      PROVE  \E x \in Lids, j \in JobRecords : Submitted(x, j) /\ job' = job /\ j.kind # "probe"
  <2>1. exec \in Lids /\ detached \in Ifaces /\ job' = job /\ Submitted(exec, Job("close", 0, detached))
    BY <1>5 DEF CloseDetached, Generations, TypeOK
  <2>2. Job("close", 0, detached) \in JobRecords /\ Job("close", 0, detached).kind # "probe"
    BY <2>1, LinkAssumption DEF Job, JobRecords, JobKinds, Ifaces
  <2>. QED
    BY <2>1, <2>2
<1>6. ASSUME NEW l \in Lids, CloseDropped(l), ~UNCHANGED <<queue, job>>
      PROVE  \E x \in Lids, j \in JobRecords : Submitted(x, j) /\ job' = job /\ j.kind # "probe"
  <2>1. exec \in Lids /\ dropped[l] \in Ifaces /\ job' = job /\ Submitted(exec, Job("close", 0, dropped[l]))
    BY <1>6 DEF CloseDropped, HasDropped, Generations, TypeOK
  <2>2. Job("close", 0, dropped[l]) \in JobRecords /\ Job("close", 0, dropped[l]).kind # "probe"
    BY <2>1, LinkAssumption DEF Job, JobRecords, JobKinds, Ifaces
  <2>. QED
    BY <2>1, <2>2
<1>7. ASSUME NEW l \in Lids, SubmitOpen(l)
      PROVE  \E x \in Lids, j \in JobRecords : Submitted(x, j) /\ job' = job /\ j.kind # "probe"
  <2>1. exec \in Lids /\ opens' \in Ifaces /\ job' = job /\ Submitted(exec, Job("open", l, opens'))
    <3>1. exec \in Lids /\ job' = job /\ Submitted(exec, Job("open", l, opens'))
      BY <1>7 DEF SubmitOpen, Generations
    <3>2. opens' \in Ifaces
      BY <1>7, LinkAssumption DEF SubmitOpen, TypeOK, Ifaces
    <3>. QED
      BY <3>1, <3>2
  <2>2. Job("open", l, opens') \in JobRecords /\ Job("open", l, opens').kind # "probe"
    BY <2>1, LinkAssumption DEF Job, JobRecords, JobKinds, Ifaces, Lids
  <2>. QED
    BY <2>1, <2>2
<1>8. ASSUME NEW l \in Lids, Poll(l), MayPoll(l)
      PROVE  \/ \E m \in 0..Len(queue[e]) :
                  JobAt(e, m).kind = "probe" /\ JobAt(e, m).id = (JobAt(e, n).id)'
             \/ Poll(l) /\ MayPoll(l) /\ e = exec /\ (JobAt(e, n).id)' = attached
  <2>1. exec \in Lids /\ attached \in Ifaces /\ job' = job /\ Submitted(exec, Job("probe", l, attached))
    BY <1>8 DEF Poll, MayPoll, Generations, TypeOK
  <2>2. Job("probe", l, attached) \in JobRecords /\ Job("probe", l, attached).id = attached
    BY <2>1, LinkAssumption DEF Job, JobRecords, JobKinds, Ifaces, Lids
  <2>3. \/ n \in 0..Len(queue[e]) /\ JobAt(e, n)' = JobAt(e, n)
        \/ e = exec /\ JobAt(e, n)' = Job("probe", l, attached)
    BY <1>3, <2>1, <2>2
  <2>. QED
    BY <1>8, <2>2, <2>3
<1>9. ASSUME NEW l \in Lids, LoopCancelled(l)
      PROVE  \E m \in 0..Len(queue[e]) :
               JobAt(e, m).kind = "probe" /\ JobAt(e, m).id = (JobAt(e, n).id)'
  <2>1. /\ Len(queue'[e]) = Len(queue[e]) /\ job' = job
        /\ \A m \in 1..Len(queue[e]) : queue'[e][m] = queue[e][m] \/ queue'[e][m] = NoJob
    BY <1>9, CancelEffect DEF LoopCancelled
  <2>2. NoJob.kind # "probe"
    BY DEF NoJob
  <2>3. n \in 0..Len(queue[e]) /\ JobAt(e, n)' = JobAt(e, n)
    BY <1>1, <2>1, <2>2 DEF JobAt
  <2>. QED
    BY <2>3
<1>10. ASSUME NEW x \in Lids, Take(x)
       PROVE  \E m \in 0..Len(queue[e]) :
                JobAt(e, m).kind = "probe" /\ JobAt(e, m).id = (JobAt(e, n).id)'
  <2>1. /\ Len(queue[x]) >= 1 /\ Len(queue'[x]) = Len(queue[x]) - 1
        /\ \A m \in 1..Len(queue[x]) - 1 : queue'[x][m] = queue[x][m + 1]
        /\ x # e => queue'[e] = queue[e]
        /\ \A y \in Lids : job'[y] = IF y = x THEN queue[x][1] ELSE job[y]
    BY SMTT(30), <1>10, TakeEffect DEF TypeOK
  <2>2. CASE x # e
    BY <2>1, <2>2 DEF JobAt
  <2>3. CASE x = e
    <3>1. n + 1 \in 0..Len(queue[e]) /\ n + 1 # 0 /\ JobAt(e, n)' = queue[e][n + 1]
      BY <1>1, <2>1, <2>3 DEF JobAt
    <3>2. JobAt(e, n + 1) = queue[e][n + 1]
      BY <3>1 DEF JobAt
    <3>. QED
      BY <3>1, <3>2
  <2>. QED
    BY <2>2, <2>3
<1>11. ASSUME NEW x \in Lids, Ends(x), queue' = queue
       PROVE  \E m \in 0..Len(queue[e]) :
                JobAt(e, m).kind = "probe" /\ JobAt(e, m).id = (JobAt(e, n).id)'
  <2>1. JobAt(e, n)' = JobAt(e, n) \/ JobAt(e, n)' = NoJob
    BY <1>11, EndsEffect DEF JobAt
  <2>2. NoJob.kind # "probe"
    BY DEF NoJob
  <2>. QED
    BY <1>11, <2>1, <2>2
<1>12. ASSUME NEW x \in Lids, \/ CloseInterface(x) \/ Construct(x) \/ ConstructFails(x)
                              \/ Register(x) \/ Orphan(x) \/ Probe(x) \/ Drop(x)
       PROVE  UNCHANGED <<queue, job>> \/ (Ends(x) /\ queue' = queue)
  BY <1>12 DEF CloseInterface, Construct, ConstructFails, Register, Orphan, Probe, Drop
<1>13. CASE Connect \/ Disconnect \/ Detach \/ Shutdown \/ UNCHANGED quietVars
            \/ (\E l \in Lids : Pops(l) \/ (Poll(l) /\ ~MayPoll(l))) \/ (\E i \in Ifaces : CloseLoose(i))
  BY <1>2, <1>13 DEF Connect, Disconnect, Detach, Shutdown, quietVars, Pops, Poll, CloseLoose
<1>. QED
  BY <1>2, <1>4, <1>5, <1>6, <1>7, <1>8, <1>9, <1>10, <1>11, <1>12, <1>13, Quiet

\* What a step does to the interface of a probe.
LEMMA ProbedFrame ==
  ASSUME IInv, Next, NEW i \in Ifaces, state[i] # "none", \A w \in Lids : held[w] # i
  PROVE  /\ state'[i] # "none" /\ \A w \in Lids : held'[w] # i
         /\ attached' = i => attached = i /\ exec' = exec
<1>. USE DEF IInv
<1>. USE DEF lifeVars, loopVars, workVars, pauseVars, ifaceVars
<1>0. None \notin Ifaces
  BY LinkAssumption DEF Ifaces
<1>1. ASSUME NEW w \in Lids, Construct(w) PROVE job[w].id # i
  <2>1. stage[w] = "open" /\ job[w].kind = "open" /\ job[w].id \in Ifaces /\ Len(queue[w]) \in Nat
    BY <1>1, WorkerHolds, JobFacts DEF Construct, StageFits
  <2>2. Planned(w, 0, job[w].id)
    BY <2>1 DEF Planned, JobAt
  <2>. QED
    BY <2>1, <2>2 DEF Custody
<1>2. state'[i] # "none"
  <2>1. state' = state \/ (\E x : state' = [state EXCEPT ![x] = "closed"])
        \/ (\E x : state' = [state EXCEPT ![x] = "open"])
    <3>1. CASE Connect \/ Disconnect \/ Detach \/ CloseDetached \/ Shutdown \/ UNCHANGED quietVars
      BY <3>1 DEF Connect, Disconnect, Detach, CloseDetached, Shutdown, quietVars
    <3>2. ASSUME NEW l \in Lids, Pops(l) \/ CloseDropped(l) \/ SubmitOpen(l) \/ Poll(l) \/ LoopCancelled(l)
          PROVE  state' = state
      BY <3>2 DEF Pops, CloseDropped, SubmitOpen, Poll, LoopCancelled
    <3>3. ASSUME NEW w \in Lids, Take(w) \/ ConstructFails(w) \/ Register(w) \/ Probe(w)
          PROVE  state' = state
      BY <3>3 DEF Take, ConstructFails, Register, Probe
    <3>4. ASSUME NEW w \in Lids, CloseInterface(w) \/ Orphan(w) \/ Drop(w)
          PROVE  state' = state \/ \E x : state' = [state EXCEPT ![x] = "closed"]
      BY <3>4 DEF CloseInterface, Orphan, Drop, Closed
    <3>5. ASSUME NEW w \in Lids, Construct(w) PROVE \E x : state' = [state EXCEPT ![x] = "open"]
      BY <3>5 DEF Construct
    <3>6. ASSUME NEW x \in Ifaces, CloseLoose(x) PROVE \E y : state' = [state EXCEPT ![y] = "closed"]
      BY <3>6 DEF CloseLoose, Closed
    <3>. QED
      BY <3>1, <3>2, <3>3, <3>4, <3>5, <3>6, Quiet
  <2>. QED
    BY <2>1 DEF TypeOK
<1>3. \A w \in Lids : held'[w] # i
  <2>1. \/ held' = held \/ (\E w \in Lids : Construct(w)) \/ (\E w \in Lids : held' = [held EXCEPT ![w] = None])
    <3>1. CASE Connect \/ Disconnect \/ Detach \/ CloseDetached \/ Shutdown \/ UNCHANGED quietVars
      BY <3>1 DEF Connect, Disconnect, Detach, CloseDetached, Shutdown, quietVars
    <3>2. ASSUME NEW l \in Lids, Pops(l) \/ CloseDropped(l) \/ SubmitOpen(l) \/ Poll(l) \/ LoopCancelled(l)
          PROVE  held' = held
      BY <3>2 DEF Pops, CloseDropped, SubmitOpen, Poll, LoopCancelled
    <3>3. ASSUME NEW w \in Lids, \/ Take(w) \/ ConstructFails(w) \/ Register(w) \/ Probe(w)
                                 \/ CloseInterface(w) \/ Orphan(w) \/ Drop(w)
          PROVE  held' = held \/ held' = [held EXCEPT ![w] = None]
      BY <3>3 DEF Take, ConstructFails, Register, Probe, CloseInterface, Orphan, Drop, Ends
    <3>4. ASSUME NEW x \in Ifaces, CloseLoose(x) PROVE held' = held
      BY <3>4 DEF CloseLoose
    <3>. QED
      BY <3>1, <3>2, <3>3, <3>4, Quiet
  <2>2. ASSUME NEW w \in Lids, Construct(w) PROVE \A x \in Lids : held'[x] # i
    <3>1. held' = [held EXCEPT ![w] = job[w].id] /\ job[w].id # i
      BY <1>1, <2>2 DEF Construct
    <3>. QED
      BY <3>1 DEF TypeOK
  <2>3. ASSUME NEW w \in Lids, held' = [held EXCEPT ![w] = None] PROVE \A x \in Lids : held'[x] # i
    BY <1>0, <2>3 DEF TypeOK
  <2>. QED
    BY <2>1, <2>2, <2>3
<1>4. ASSUME attached' = i PROVE attached = i /\ exec' = exec
  <2>1. attached = i
    <3>1. ASSUME NEW w \in Lids, Register(w), MayRegister(w) PROVE FALSE
      BY <1>4, <3>1 DEF Register
    <3>. QED
      BY <1>0, <1>4, <3>1, AttachedFrame
  <2>2. phase \notin {"closing", "shutdown", "down"}
    BY <1>0, <2>1 DEF Generations
  <2>3. exec' = exec
    BY <2>2, LifeFrame DEF Connect, Disconnect, Detach, CloseDetached, Shutdown
  <2>. QED
    BY <2>1, <2>3
<1>. QED
  BY <1>2, <1>3, <1>4

LEMMA ProbesStep ==
  ASSUME IInv, Next
  PROVE  ProbesLocal'
<1>. USE DEF IInv
<1>1. ASSUME NEW e \in Lids, NEW n \in (0..Len(queue[e]))', (JobAt(e, n).kind = "probe")'
      PROVE  (/\ state[JobAt(e, n).id] # "none"
              /\ \A w \in Lids : held[w] # JobAt(e, n).id
              /\ attached = JobAt(e, n).id => exec = e)'
  <2>1. PICK i : i = (JobAt(e, n).id)'
    OBVIOUS
  <2>2. /\ i \in Ifaces /\ state[i] # "none" /\ \A w \in Lids : held[w] # i
        /\ attached = i => exec = e
    <3>1. ASSUME NEW m \in 0..Len(queue[e]), JobAt(e, m).kind = "probe", JobAt(e, m).id = i
          PROVE  /\ i \in Ifaces /\ state[i] # "none" /\ \A w \in Lids : held[w] # i
                 /\ attached = i => exec = e
      <4>1. JobFits(JobAt(e, m), e)
        BY DEF JobsFit
      <4>2. i \in Ifaces
        BY <3>1, <4>1, LinkAssumption DEF JobFits, NoJob, TypeOK, Ifaces
      <4>. QED
        BY <3>1, <4>2 DEF ProbesLocal
    <3>2. ASSUME NEW l \in Lids, Poll(l), MayPoll(l), e = exec, i = attached
          PROVE  /\ i \in Ifaces /\ state[i] # "none" /\ \A w \in Lids : held[w] # i
                 /\ attached = i => exec = e
      <4>1. i \in Ifaces /\ Built("map", 0, 0, i)
        BY <3>2 DEF MayPoll, TypeOK, Built
      <4>2. state[i] # "none" /\ \A k, x : \A m \in Nat : Built(k, x, m, i) => k = "map"
        BY <4>1 DEF Custody
      <4>3. \A w \in Lids : held[w] = i => Built("worker", w, 0, i)
        BY DEF Built
      <4>. QED
        BY <3>2, <4>1, <4>2, <4>3
    <3>. QED
      BY <1>1, <2>1, <3>1, <3>2, ProbeBefore
  <2>3. /\ state'[i] # "none" /\ \A w \in Lids : held'[w] # i
        /\ attached' = i => attached = i /\ exec' = exec
    BY <2>2, ProbedFrame
  <2>. QED
    BY <2>1, <2>2, <2>3
<1>. QED
  BY <1>1 DEF ProbesLocal

\* Nobody empties the map under an open that lost its race, while its loop waits.
LEMMA OrphanStep ==
  ASSUME IInv, Next
  PROVE  OrphanFinds'
<1>. USE DEF IInv
<1>. USE DEF lifeVars, loopVars, workVars, pauseVars, ifaceVars
<1>. SUFFICES ASSUME NEW e \in Lids, stage'[e] = "orphan", Active(job[e].life)', Awaited(job[e])'
              PROVE  attached' # None
  BY DEF OrphanFinds
<1>1. \/ Register(e) /\ ~MayRegister(e)
      \/ stage[e] = "orphan" /\ job'[e] = job[e]
  <2>1. CASE UNCHANGED workVars
    BY <2>1
  <2>2. ASSUME NEW x \in Lids, Take(x) PROVE stage[e] = "orphan" /\ job'[e] = job[e]
    <3>1. JobFits(queue[x][1], x) /\ Head(queue[x]) = queue[x][1]
      <4>1. queue[x] \in Seq(JobRecords) /\ queue[x] # <<>>
        BY <2>2 DEF Take, TypeOK
      <4>2. Head(queue[x]) = queue[x][1] /\ 1 \in 1..Len(queue[x])
        BY ONLY <4>1
      <4>. QED
        BY <4>2, JobFacts
    <3>2. queue[x][1] = NoJob \/ queue[x][1].kind # "orphan"
      BY <3>1 DEF JobFits
    <3>3. /\ stage' = [stage EXCEPT ![x] = IF queue[x][1] = NoJob THEN "idle" ELSE queue[x][1].kind]
          /\ job' = [job EXCEPT ![x] = queue[x][1]]
      BY <2>2, <3>1 DEF Take, Stage
    <3>4. x # e
      BY <3>2, <3>3 DEF TypeOK
    <3>. QED
      BY <3>3, <3>4 DEF TypeOK
  <2>3. ASSUME NEW x \in Lids, Ends(x) PROVE stage[e] = "orphan" /\ job'[e] = job[e]
    BY <2>3, EndsEffect
  <2>4. ASSUME NEW x \in Lids, Construct(x) PROVE stage[e] = "orphan" /\ job'[e] = job[e]
    BY <2>4 DEF Construct, Stage, TypeOK
  <2>5. ASSUME NEW x \in Lids, Register(x), ~MayRegister(x)
        PROVE  (Register(e) /\ ~MayRegister(e)) \/ (stage[e] = "orphan" /\ job'[e] = job[e])
    <3>1. stage' = [stage EXCEPT ![x] = "orphan"] /\ job' = job
      BY <2>5 DEF Register, Stage
    <3>. QED
      BY <2>5, <3>1 DEF TypeOK
  <2>6. ASSUME NEW x \in Lids, Probe(x), ~Ends(x) PROVE stage[e] = "orphan" /\ job'[e] = job[e]
    BY <2>6 DEF Probe, Stage, TypeOK
  <2>7. \/ UNCHANGED workVars
        \/ \E x \in Lids : \/ Take(x) \/ Ends(x) \/ Construct(x) \/ (Register(x) /\ ~MayRegister(x))
                           \/ (Probe(x) /\ ~Ends(x))
    <3>1. CASE Connect \/ Disconnect \/ Detach \/ CloseDetached \/ Shutdown \/ UNCHANGED quietVars
      BY <3>1 DEF Connect, Disconnect, Detach, CloseDetached, Shutdown, quietVars
    <3>2. ASSUME NEW l \in Lids, Pops(l) \/ CloseDropped(l) \/ SubmitOpen(l) \/ Poll(l) \/ LoopCancelled(l)
          PROVE  UNCHANGED workVars
      BY <3>2 DEF Pops, CloseDropped, SubmitOpen, Poll, LoopCancelled
    <3>3. ASSUME NEW i \in Ifaces, CloseLoose(i) PROVE UNCHANGED workVars
      BY <3>3 DEF CloseLoose
    <3>4. ASSUME NEW x \in Lids, \/ CloseInterface(x) \/ ConstructFails(x) \/ Orphan(x) \/ Drop(x)
                                 \/ (Register(x) /\ MayRegister(x))
          PROVE  Ends(x)
      BY <3>4 DEF CloseInterface, ConstructFails, Orphan, Drop, Register
    <3>. QED
      BY <3>1, <3>2, <3>3, <3>4, Quiet
  <2>. QED
    BY <2>1, <2>2, <2>3, <2>4, <2>5, <2>6, <2>7
<1>2. CASE Register(e) /\ ~MayRegister(e)
  <2>1. UNCHANGED <<phase, lid, attached, job>>
    BY <1>2 DEF Register
  <2>2. Active(job[e].life)
    BY <2>1 DEF Active
  <2>. QED
    BY <1>2, <2>1, <2>2 DEF MayRegister
<1>3. CASE stage[e] = "orphan" /\ job'[e] = job[e]
  <2>0. PICK l : l = job[e].life
    OBVIOUS
  <2>1. job[e].kind = "open" /\ JobFits(job[e], e)
    BY <1>3, JobFacts DEF StageFits
  <2>2. l \in 1..e /\ e <= lid /\ job[e].id \in 1..opens /\ lid \in Nat /\ opens \in Nat /\ e \in Nat /\ l \in Lids
    BY <2>0, <2>1, Grows, LinkAssumption DEF JobFits, NoJob, Lids
  <2>3. Active(l)
    <3>1. Active(l)'
      BY <1>3, <2>0 DEF Active
    <3>. QED
      BY <2>2, <3>1, ActiveBefore
  <2>4. ticket'[l] = job[e].id
    BY <1>3, <2>0, <2>1 DEF Awaited
  <2>5. ticket[l] = job[e].id
    <3>1. ASSUME NEW m \in Lids, SubmitOpen(m) PROVE ticket[l] = ticket'[l]
      <4>1. ticket' = [ticket EXCEPT ![m] = opens + 1]
        BY <3>1 DEF SubmitOpen
      <4>. QED
        BY <2>2, <2>4, <4>1 DEF TypeOK
    <3>2. CASE \/ Connect \/ Disconnect \/ Detach \/ CloseDetached \/ Shutdown \/ ResumeLink \/ DeadlinePasses
               \/ \E kind \in {"timed", "untimed"} : PauseLink(kind)
               \/ \E i \in Ifaces : CloseLoose(i) \/ LinkDrops(i)
      BY <2>4, <3>2
         DEF Connect, Disconnect, Detach, CloseDetached, Shutdown, ResumeLink, DeadlinePasses, PauseLink, CloseLoose, LinkDrops
    <3>3. ASSUME NEW m \in Lids,
                 \/ Tick(m) \/ Expire(m) \/ Wait(m) \/ StartPolling(m) \/ Wakes(m) \/ NoExecutor(m)
                 \/ PollsAgain(m) \/ ProbeReturns(m) \/ Pops(m) \/ CloseDropped(m) \/ Poll(m)
          PROVE  ticket' = ticket
      BY <3>3 DEF Tick, Expire, Wait, StartPolling, Wakes, NoExecutor, PollsAgain, ProbeReturns, Pops,
                  CloseDropped, Poll
    <3>4. ASSUME NEW m \in Lids, OpenReturns(m) \/ OpenTimesOut(m) \/ LoopCancelled(m)
          PROVE  ticket[l] = ticket'[l]
      <4>1. ticket' = [ticket EXCEPT ![m] = 0]
        BY <3>4 DEF OpenReturns, OpenTimesOut, LoopCancelled
      <4>. QED
        BY <2>2, <2>4, <4>1 DEF TypeOK
    <3>5. ASSUME NEW x \in Lids, \/ Take(x) \/ CloseInterface(x) \/ Construct(x) \/ ConstructFails(x)
                                 \/ Register(x) \/ Orphan(x) \/ Probe(x) \/ Drop(x)
          PROVE  ticket' = ticket
      BY <3>5 DEF Take, CloseInterface, Construct, ConstructFails, Register, Orphan, Probe, Drop
    <3>. QED
      BY <2>4, <3>1, <3>2, <3>3, <3>4, <3>5, Cases
  <2>6. loop[l] = "opening"
    BY <2>2, <2>5 DEF LoopFits
  <2>7. attached # None
    BY <1>3, <2>0, <2>1, <2>3, <2>5 DEF OrphanFinds, Awaited
  <2>8. phase = "up" /\ lid = l /\ e = lid /\ exec = e
    BY <2>2, <2>3 DEF Active, Generations
  <2>9. ASSUME NEW x \in Lids, Drop(x) PROVE attached' = attached
    <3>1. CASE x = e
      BY <1>3, <2>9, <3>1 DEF Drop
    <3>2. CASE x # e
      <4>1. stage[x] = "drop" /\ job[x].kind = "probe" /\ Len(queue[x]) \in Nat
        BY <2>9, JobFacts DEF Drop, StageFits
      <4>2. attached = job[x].id => exec = x
        <5>1. 0 \in 0..Len(queue[x]) /\ JobAt(x, 0) = job[x]
          BY <4>1 DEF JobAt
        <5>. QED
          BY <4>1, <5>1 DEF ProbesLocal
      <4>. QED
        BY <2>8, <2>9, <3>2, <4>2 DEF Drop, MayDrop
    <3>. QED
      BY <3>1, <3>2
  <2>10. ASSUME NEW m \in Lids, Pops(m) PROVE attached' = attached
    <3>1. loop[m] \in {"look", "failing"}
      BY <2>10 DEF Pops, At
    <3>2. m # l
      BY <2>6, <3>1
    <3>. QED
      BY <2>8, <2>10, <3>2 DEF Pops, MayPop, Active
  <2>11. CASE UNCHANGED quietVars \/ Connect \/ Disconnect \/ CloseDetached \/ Shutdown
    BY <2>7, <2>11 DEF quietVars, Connect, Disconnect, CloseDetached, Shutdown
  <2>12. ASSUME NEW m \in Lids, CloseDropped(m) \/ SubmitOpen(m) \/ Poll(m) \/ LoopCancelled(m)
         PROVE  attached' = attached
    BY <2>12 DEF CloseDropped, SubmitOpen, Poll, LoopCancelled
  <2>13. ASSUME NEW x \in Lids, \/ Take(x) \/ CloseInterface(x) \/ Construct(x) \/ ConstructFails(x)
                                \/ Orphan(x) \/ Probe(x)
         PROVE  attached' = attached
    BY <2>13 DEF Take, CloseInterface, Construct, ConstructFails, Orphan, Probe
  <2>14. ASSUME NEW i \in Ifaces, CloseLoose(i) PROVE attached' = attached
    BY <2>14 DEF CloseLoose
  <2>15. ASSUME NEW x \in Lids, Register(x) PROVE attached' = attached
    BY <2>7, <2>15 DEF Register, MayRegister
  <2>16. ~Detach
    BY <2>8 DEF Detach
  <2>. QED
    BY <2>7, <2>9, <2>10, <2>11, <2>12, <2>13, <2>14, <2>15, <2>16, Quiet
<1>. QED
  BY <1>1, <1>2, <1>3

-----------------------------------------------------------------------------
(* The theorem.                                                            *)

LEMMA InitIInv ==
  ASSUME Init
  PROVE  IInv
<1>. USE LinkAssumption
<1>1. None \notin Ifaces /\ NoJob \in JobRecords
  BY DEF Ifaces, NoJob, JobRecords, JobKinds
<1>2. TypeOK
  BY <1>1 DEF Init, TypeOK, LoopLabels
<1>3. \A e \in Lids : \A n \in 0..Len(queue[e]) : JobAt(e, n) = NoJob
  BY DEF Init, JobAt
<1>4. \A k, e : \A n \in Nat : \A i \in Ifaces : ~Built(k, e, n, i) /\ ~Planned(e, n, i)
  <2>1. \A i \in Ifaces : NoJob # Job("close", 0, i) /\ NoJob.kind # "open"
    BY DEF NoJob, Job
  <2>2. \A e \in Lids : queue[e] = <<>> /\ job[e] = NoJob /\ held[e] = None /\ dropped[e] = None
    BY DEF Init
  <2>3. attached = None /\ detached = None /\ loose = {}
    BY DEF Init
  <2>. QED
    BY <1>1, <1>3, <2>1, <2>2, <2>3 DEF Built, Planned
<1>5. StageFits /\ JobsFit
  BY <1>3 DEF Init, StageFits, JobsFit, JobFits
<1>6. Custody
  BY <1>4 DEF Init, Custody
<1>7. Unnumbered /\ Generations /\ LoopFits /\ LoopWatches
  BY DEF Init, Unnumbered, Generations, LoopFits, LoopWatches
<1>8. ProbesLocal /\ OrphanFinds
  BY <1>3 DEF Init, ProbesLocal, OrphanFinds, NoJob
<1>. QED
  BY <1>2, <1>5, <1>6, <1>7, <1>8 DEF IInv

LEMMA StutterIInv ==
  ASSUME IInv, UNCHANGED vars
  PROVE  IInv'
<1>. USE DEF vars, lifeVars, ifaceVars, loopVars, workVars, pauseVars
<1>1. TypeOK' /\ StageFits'
  BY DEF IInv, TypeOK, StageFits
<1>2. JobsFit' /\ ProbesLocal'
  BY DEF IInv, JobsFit, JobFits, JobAt, ProbesLocal
<1>3. Custody'
  BY HeldSame DEF IInv, heldVars
<1>4. Unnumbered' /\ Generations' /\ LoopFits' /\ OrphanFinds' /\ LoopWatches'
  BY DEF IInv, Unnumbered, Generations, LoopFits, OrphanFinds, LoopWatches, Active, Awaited, At
<1>. QED
  BY <1>1, <1>2, <1>3, <1>4 DEF IInv

\* The invariant is inductive.
THEOREM Invariance ==
  Spec => []IInv
<1>1. Init => IInv
  BY InitIInv
<1>2. IInv /\ [Next]_vars => IInv'
  <2>1. ASSUME IInv, Next PROVE IInv'
    BY <2>1, TypeStep, StageStep, JobStep, CustodyStep, UnnumberedStep, GenerationStep, LoopFitsStep,
       ProbesStep, OrphanStep, WatchStep DEF IInv
  <2>. QED
    BY <2>1, StutterIInv
<1>. QED
  BY <1>1, <1>2, PTL DEF Spec

\* An open interface has one holder and any other none: the places of HeldOnce are
\* those of Custody.
LEMMA CustodyHeldOnce ==
  ASSUME TypeOK, Custody
  PROVE  HeldOnce
<1>1. \A e \in Lids : Len(queue[e]) \in Nat
  BY DEF TypeOK
<1>2. ASSUME NEW p \in Places, NEW i \in Ifaces, Holds(p, i)
      PROVE  p = <<p[1], p[2], p[3]>> /\ p[3] \in Nat /\ Built(p[1], p[2], p[3], i)
  <2>1. CASE p \in {"map", "detached", "loose"} \X {0} \X {0}
    BY <1>2, <2>1 DEF Holds, Built
  <2>2. CASE p \in {"loop"} \X Lids \X {0}
    BY <1>2, <2>2 DEF Holds, Built
  <2>3. ASSUME NEW e \in Lids, p \in {"worker"} \X {e} \X (0..Len(queue[e]))
        PROVE  p = <<p[1], p[2], p[3]>> /\ p[3] \in Nat /\ Built(p[1], p[2], p[3], i)
    <3>1. p = <<p[1], p[2], p[3]>> /\ p[1] = "worker" /\ p[2] = e /\ p[3] \in 0..Len(queue[e])
      BY <2>3
    <3>2. CASE p[3] = 0
      BY <1>2, <3>1, <3>2 DEF Holds, Built
    <3>3. CASE p[3] # 0
      BY <1>1, <1>2, <3>1, <3>3 DEF Holds, Built
    <3>. QED
      BY <3>1, <3>2, <3>3
  <2>. QED
    BY <2>1, <2>2, <2>3 DEF Places
<1>3. ASSUME NEW i \in Ifaces, NEW k, NEW e, NEW n \in Nat, Built(k, e, n, i)
      PROVE  <<k, e, n>> \in Places /\ Holds(<<k, e, n>>, i)
  <2>1. CASE k \in {"map", "detached", "loose", "loop"}
    BY <1>3, <2>1 DEF Built, Places, Holds
  <2>2. CASE k = "worker"
    <3>1. e \in Lids /\ n \in 0..Len(queue[e])
      BY <1>1, <1>3, <2>2 DEF Built
    <3>2. <<k, e, n>> \in {"worker"} \X {e} \X (0..Len(queue[e]))
      BY <2>2, <3>1
    <3>3. <<k, e, n>> \in Places
      BY <3>1, <3>2 DEF Places
    <3>4. Holds(<<k, e, n>>, i)
      BY <1>1, <1>3, <2>2 DEF Built, Holds
    <3>. QED
      BY <3>3, <3>4
  <2>. QED
    BY <1>3, <2>1, <2>2 DEF Built
<1>4. ASSUME NEW i \in Ifaces, state[i] = "open"
      PROVE  \E p \in Places : Holders(i) = {p}
  <2>1. PICK k, e : \E n \in Nat : Built(k, e, n, i)
    BY <1>4 DEF Custody
  <2>2. PICK n \in Nat : Built(k, e, n, i)
    BY <2>1
  <2>3. <<k, e, n>> \in Places /\ Holds(<<k, e, n>>, i)
    BY <1>3, <2>2
  <2>4. ASSUME NEW p \in Places, Holds(p, i) PROVE p = <<k, e, n>>
    <3>1. p = <<p[1], p[2], p[3]>> /\ p[3] \in Nat /\ Built(p[1], p[2], p[3], i)
      BY <1>2, <2>4
    <3>2. p[1] = k /\ p[2] = e /\ p[3] = n
      BY <2>2, <3>1 DEF Custody
    <3>. QED
      BY <3>1, <3>2
  <2>5. Holders(i) = {<<k, e, n>>}
    BY <2>3, <2>4 DEF Holders
  <2>. QED
    BY <2>3, <2>5
<1>5. ASSUME NEW i \in Ifaces, state[i] # "open"
      PROVE  Holders(i) = {}
  <2>1. ASSUME NEW p \in Places, Holds(p, i) PROVE FALSE
    <3>1. p[3] \in Nat /\ Built(p[1], p[2], p[3], i)
      BY <1>2, <2>1
    <3>. QED
      BY <1>5, <3>1 DEF Custody
  <2>. QED
    BY <2>1 DEF Holders
<1>. QED
  BY <1>4, <1>5 DEF HeldOnce

\* For any number of lifecycles, opens and pauses: interfaces are held once, the map
\* never refers to a closed one, and a lifecycle that runs keeps its loop.
THEOREM LinkSafe ==
  Spec => []LinkInv
<1>1. IInv => LinkInv
  BY CustodyHeldOnce DEF IInv, LinkInv
<1>. QED
  BY <1>1, Invariance, PTL
================================================================================
