--------------------------- MODULE TeardownProofs ---------------------------
(* Whatever loops stop, tasks are cancelled and callers take over: a teardown *)
(* closes each interface once and settles only when none is left open, for *)
(* every number of loops, callers, tasks and lifecycles.                   *)
EXTENDS Teardown, TLAPS

-----------------------------------------------------------------------------
(* The inductive invariant.                                                *)

\* Past the first gate of a teardown.
Claimed(t) == tpc[t] \in {"tasks", "messages", "close", "shutdown"}

\* The task works for the disconnect that is under way.
Current(t) == disconnecting /\ future = tcomp[t]

\* A disconnect is named by the newest generation and has not settled.
EpochNamed ==
  /\ future <= lid
  /\ running => ~disconnecting
  /\ disconnecting => future = lid /\ future \in Lids /\ future \notin settled
  /\ \A comp \in settled : comp <= lid

\* Callers, callbacks and tasks work for completions that exist.
CompletionsPast ==
  /\ \A c \in Callers : cpc[c] \notin {"idle", "returned", "cancelled"} =>
       ccomp[c] \in Lids /\ ccomp[c] <= lid
  /\ \A c \in Callers : cpc[c] = "post" => platform[c] \in Loops
  /\ \A cb \in callbacks : cb[2] <= lid
  /\ \A t \in Tasks : tcomp[t] <= lid /\ (tpc[t] # "done" => tcomp[t] \in Lids)

\* What is in the map was never closed, and is of an earlier lifecycle as soon
\* as a disconnect is under way.
AttachedOpen ==
  \A l \in attached : l <= lid /\ (disconnecting => l < lid) /\ closes[l] = 0

DetachedPast == \A l \in Lids : l \in collected \/ closes[l] > 0 => l < lid

\* Every task past its claim knows all that was detached, and the map stays
\* empty.
ClaimsComplete ==
  \A t \in Tasks : Claimed(t) /\ Current(t) => ports[t] = collected /\ attached = {}

\* The close covers all that was detached, or has not begun.
CloseDone ==
  /\ closeStarted => attached = {} /\ \A l \in collected : closes[l] = 1
  /\ ~closeStarted => \A l \in collected : closes[l] = 0
  /\ ~disconnecting => collected = {} /\ ~closeStarted
  /\ \A t \in Tasks : tpc[t] \in {"close", "shutdown"} /\ Current(t) => closeStarted

Core == /\ EpochNamed /\ AttachedOpen /\ DetachedPast /\ ClaimsComplete /\ CloseDone
        /\ ClosedOnce /\ SettledMeansClosed

IInv == TypeOK /\ CompletionsPast /\ Core

coreVars == <<running, lid, attached, collected, closeStarted, closes, disconnecting,
              future, settled, failed>>

\* No task gets past a gate.
NoTaskAdvances ==
  \A t \in Tasks : Claimed(t)' =>
    /\ tcomp'[t] = tcomp[t] /\ ports'[t] = ports[t] /\ Claimed(t)
    /\ tpc'[t] \in {"close", "shutdown"} => tpc[t] \in {"close", "shutdown"}

-----------------------------------------------------------------------------
(* Steps that keep the core.                                               *)

LEMMA CoreKept ==
  ASSUME IInv, UNCHANGED coreVars, NoTaskAdvances
  PROVE  Core'
<1> USE DEF IInv, Core, coreVars, NoTaskAdvances, Current
<1>1. EpochNamed' /\ AttachedOpen' /\ DetachedPast' /\ ClosedOnce' /\ SettledMeansClosed'
  BY DEF EpochNamed, AttachedOpen, DetachedPast, ClosedOnce, SettledMeansClosed
<1>2. ClaimsComplete'
  BY DEF ClaimsComplete
<1>3. CloseDone'
  BY DEF CloseDone, Claimed
<1>4. QED
  BY <1>1, <1>2, <1>3

\* _start_disconnect_task touches nothing but the owner and its task.
LEMMA StartTaskKeeps ==
  ASSUME IInv, NEW loop \in Loops, NEW comp \in Lids, comp <= lid, StartTask(loop, comp)
  PROVE  /\ UNCHANGED <<disconnecting, future, settled, failed, ports, victims>>
         /\ ownerLoop' \in Loops \cup {None} /\ task' \in Tasks \cup {None}
         /\ tpc' \in [Tasks -> {"new", "tasks", "messages", "close", "shutdown", "done"}]
         /\ tloop' \in [Tasks -> Loops \cup {None}]
         /\ tcomp' \in [Tasks -> 0..MaxLifecycle] /\ cancelled' \subseteq Tasks
         /\ \A t \in Tasks : tcomp'[t] <= lid /\ (tpc'[t] # "done" => tcomp'[t] \in Lids)
         /\ NoTaskAdvances
<1> USE DEF IInv, TypeOK, CompletionsPast, NoTaskAdvances, Claimed, Lids
<1>1. CASE UNCHANGED <<discVars, taskVars>>
  BY <1>1 DEF discVars, taskVars
<1>2. CASE \E t \in Tasks :
             /\ Done(t) /\ t # task
             /\ tpc' = [tpc EXCEPT ![t] = "new"]
             /\ tloop' = [tloop EXCEPT ![t] = loop]
             /\ tcomp' = [tcomp EXCEPT ![t] = comp]
             /\ cancelled' = IF task # None /\ ~Done(task) THEN cancelled \cup {task}
                             ELSE cancelled
             /\ task' = t /\ ownerLoop' = loop
             /\ UNCHANGED <<ports, victims, disconnecting, future, settled, failed>>
  BY <1>2, TeardownAssumption DEF Done
<1>3. QED
  BY <1>1, <1>2 DEF StartTask

LEMMA LifeKept ==
  ASSUME IInv, NEW l \in Lids, StartTasks(l) \/ ConnectCancelled(l) \/ TasksEnd(l)
  PROVE  IInv'
<1> USE TeardownAssumption
        DEF StartTasks, ConnectCancelled, TasksEnd, ifaceVars, discVars, taskVars, callVars,
            envVars
<1>1. TypeOK'
  BY DEF IInv, TypeOK
<1>2. CompletionsPast'
  BY DEF IInv, CompletionsPast
<1>3. UNCHANGED coreVars /\ NoTaskAdvances
  BY DEF coreVars, NoTaskAdvances, Claimed
<1>4. QED
  BY <1>1, <1>2, <1>3, CoreKept DEF IInv

LEMMA EnvKept ==
  ASSUME IInv,
         \/ \E t \in Tasks : CancelTask(t)
         \/ \E loop \in Loops : LoopStops(loop) \/ LoopRestarts(loop)
         \/ UNCHANGED vars
  PROVE  IInv'
<1> USE TeardownAssumption
        DEF CancelTask, LoopStops, LoopRestarts, lifeVars, ifaceVars, discVars, taskVars,
            callVars, envVars, vars
<1>1. TypeOK'
  BY DEF IInv, TypeOK
<1>2. CompletionsPast'
  BY DEF IInv, CompletionsPast
<1>3. UNCHANGED coreVars /\ NoTaskAdvances
  BY DEF coreVars, NoTaskAdvances, Claimed
<1>4. QED
  BY <1>1, <1>2, <1>3, CoreKept DEF IInv

\* Callers that move without starting a task.
LEMMA CallerKept ==
  ASSUME IInv, NEW c \in Callers,
         Join(c) \/ Reserve(c) \/ Post(c) \/ PostFails(c) \/ Return(c) \/ CancelCaller(c)
  PROVE  IInv'
<1> USE TeardownAssumption
        DEF Join, Reserve, Post, PostFails, Return, CancelCaller, CallerAt, CallerGoes,
            lifeVars, ifaceVars, discVars, taskVars, callVars, envVars
<1>1. TypeOK'
  BY DEF IInv, TypeOK, CompletionsPast
<1>2. CompletionsPast'
  <2>1. disconnecting => future \in Lids /\ future <= lid
    BY DEF IInv, Core, EpochNamed
  <2>2. QED
    BY <2>1 DEF IInv, TypeOK, CompletionsPast
<1>3. UNCHANGED coreVars /\ NoTaskAdvances
  BY DEF coreVars, NoTaskAdvances, Claimed
<1>4. QED
  BY <1>1, <1>2, <1>3, CoreKept DEF IInv

\* Callers and callbacks that may start one.
LEMMA StarterKept ==
  ASSUME IInv,
         \/ \E c \in Callers : Start(c) \/ Poll(c) \/ HandOver(c)
         \/ \E loop \in Loops, comp \in Lids : CallbackRuns(loop, comp)
  PROVE  IInv'
<1> USE TeardownAssumption DEF lifeVars, ifaceVars, callVars, envVars
<1>1. PICK loop \in Loops, comp \in Lids : comp <= lid /\ StartTask(loop, comp)
  BY DEF IInv, CompletionsPast, TypeOK, Start, Poll, HandOver, CallbackRuns, CallerAt
<1>2. /\ UNCHANGED <<disconnecting, future, settled, failed, ports, victims>>
      /\ ownerLoop' \in Loops \cup {None} /\ task' \in Tasks \cup {None}
      /\ tpc' \in [Tasks -> {"new", "tasks", "messages", "close", "shutdown", "done"}]
      /\ tloop' \in [Tasks -> Loops \cup {None}]
      /\ tcomp' \in [Tasks -> 0..MaxLifecycle] /\ cancelled' \subseteq Tasks
      /\ \A t \in Tasks : tcomp'[t] <= lid /\ (tpc'[t] # "done" => tcomp'[t] \in Lids)
      /\ NoTaskAdvances
  BY <1>1, StartTaskKeeps
<1>3. /\ UNCHANGED <<lifeVars, ifaceVars, loopUp, upsets>> /\ callbacks' \subseteq callbacks
      /\ \/ UNCHANGED callVars
         \/ \E c \in Callers :
              \/ /\ cpc[c] \in {"start", "poll"}
                 /\ cpc' = [cpc EXCEPT ![c] = "poll"]
                 /\ ccomp' = ccomp /\ platform' = [platform EXCEPT ![c] = None]
              \/ /\ cpc' = [cpc EXCEPT ![c] = "cancelled"]
                 /\ ccomp' = [ccomp EXCEPT ![c] = 0] /\ platform' = platform
  BY DEF Start, Poll, HandOver, CallbackRuns, CallerAt, CallerGoes
<1>4. TypeOK'
  BY <1>2, <1>3 DEF IInv, TypeOK
<1>5. CompletionsPast'
  BY <1>2, <1>3 DEF IInv, TypeOK, CompletionsPast
<1>6. UNCHANGED coreVars
  BY <1>2, <1>3 DEF coreVars
<1>7. QED
  BY <1>2, <1>4, <1>5, <1>6, CoreKept DEF IInv

-----------------------------------------------------------------------------
(* Steps that move the core.                                               *)

LEMMA InitIInv == Init => IInv
<1> SUFFICES ASSUME Init PROVE IInv
  OBVIOUS
<1> USE TeardownAssumption DEF Init
<1>1. TypeOK
  <2>1. /\ home \in [Lids -> Loops \cup {None}] /\ closes \in [Lids -> Nat]
    BY SMT
  <2>2. /\ tpc \in [Tasks -> {"new", "tasks", "messages", "close", "shutdown", "done"}]
        /\ tloop \in [Tasks -> Loops \cup {None}] /\ tcomp \in [Tasks -> 0..MaxLifecycle]
    BY SMT
  <2>3. ports \in [Tasks -> SUBSET Lids] /\ victims \in [Tasks -> SUBSET Lids]
    BY SMT
  <2>4. /\ cpc \in [Callers -> {"idle", "reserve", "post", "start", "poll", "handover",
                                "returned", "cancelled"}]
        /\ ccomp \in [Callers -> 0..MaxLifecycle]
        /\ platform \in [Callers -> Loops \cup {None}]
    BY SMT
  <2>5. lid \in 0..MaxLifecycle /\ executor \in 0..MaxLifecycle /\ future \in 0..MaxLifecycle
        /\ upsets \in 0..MaxUpsets
    BY SMT
  <2>6. QED
    BY <2>1, <2>2, <2>3, <2>4, <2>5 DEF TypeOK
<1>2. CompletionsPast
  BY DEF CompletionsPast
<1>3. EpochNamed /\ AttachedOpen /\ DetachedPast
  BY DEF EpochNamed, AttachedOpen, DetachedPast, Lids
<1>4. ClaimsComplete /\ CloseDone
  BY DEF ClaimsComplete, CloseDone, Claimed
<1>5. ClosedOnce /\ SettledMeansClosed
  BY DEF ClosedOnce, SettledMeansClosed, Lids
<1>6. QED
  BY <1>1, <1>2, <1>3, <1>4, <1>5 DEF IInv, Core

\* A new lifecycle starts only when no disconnect is under way.
LEMMA ConnectKept ==
  ASSUME IInv, NEW loop \in Loops, Connect(loop)
  PROVE  IInv'
<1> USE TeardownAssumption
        DEF Connect, ifaceVars, discVars, taskVars, callVars, envVars
<1>1. TypeOK'
  BY DEF IInv, TypeOK, Lids
<1>2. CompletionsPast'
  BY DEF IInv, TypeOK, CompletionsPast, Lids
<1>3. EpochNamed' /\ AttachedOpen' /\ DetachedPast'
  BY DEF IInv, TypeOK, Core, EpochNamed, AttachedOpen, DetachedPast, Lids
<1>4. ClaimsComplete' /\ CloseDone'
  BY DEF IInv, Core, ClaimsComplete, CloseDone, Claimed, Current
<1>5. ClosedOnce' /\ SettledMeansClosed'
  BY DEF IInv, Core, ClosedOnce, SettledMeansClosed
<1>6. QED
  BY <1>1, <1>2, <1>3, <1>4, <1>5 DEF IInv, Core

\* The interface that enters the map belongs to the lifecycle that runs, so to
\* none that a settled disconnect has ended.
LEMMA OpenKept ==
  ASSUME IInv, NEW l \in Lids, OpenInterface(l)
  PROVE  IInv'
<1> USE TeardownAssumption
        DEF OpenInterface, MayRegister, Active, lifeVars, discVars, taskVars, callVars,
            envVars
<1>1. TypeOK'
  BY DEF IInv, TypeOK
<1>2. CompletionsPast'
  BY DEF IInv, CompletionsPast
<1>3. l = lid /\ running /\ ~disconnecting /\ closes[l] = 0
  BY DEF IInv, TypeOK, Core, EpochNamed, DetachedPast, Lids
<1>4. EpochNamed' /\ AttachedOpen' /\ DetachedPast'
  BY <1>3 DEF IInv, TypeOK, Core, EpochNamed, AttachedOpen, DetachedPast, Lids
<1>5. ClaimsComplete' /\ CloseDone'
  BY <1>3 DEF IInv, Core, ClaimsComplete, CloseDone, Claimed, Current
<1>6. ClosedOnce' /\ SettledMeansClosed'
  BY <1>3 DEF IInv, TypeOK, Core, EpochNamed, ClosedOnce, SettledMeansClosed, Lids
<1>7. QED
  BY <1>1, <1>2, <1>4, <1>5, <1>6 DEF IInv, Core

\* A disconnect takes a generation no task works for.
LEMMA RequestKept ==
  ASSUME IInv, NEW c \in Callers, Request(c)
  PROVE  IInv'
<1> USE TeardownAssumption
        DEF Request, CallerAt, CallerGoes, ifaceVars, taskVars, envVars
<1>1. lid' = lid + 1 /\ future' = lid' /\ lid' \in Lids /\ lid \in Nat
  BY DEF IInv, TypeOK, Lids
<1>2. TypeOK'
  <2>1. Platform \in Loops \cup {None}
    BY DEF IInv, TypeOK, Platform, Newest
  <2>2. lid' \in 0..MaxLifecycle /\ future' \in 0..MaxLifecycle
    BY <1>1 DEF Lids
  <2>3. /\ cpc' \in [Callers -> {"idle", "reserve", "post", "start", "poll", "handover",
                                 "returned", "cancelled"}]
        /\ ccomp' \in [Callers -> 0..MaxLifecycle]
        /\ platform' \in [Callers -> Loops \cup {None}]
    BY <2>1, <2>2 DEF IInv, TypeOK
  <2>4. QED
    BY <2>2, <2>3 DEF IInv, TypeOK
<1>3. CompletionsPast'
  BY <1>1 DEF IInv, TypeOK, CompletionsPast, Lids
<1>4. \A t \in Tasks : ~Current(t)'
  BY <1>1 DEF IInv, TypeOK, CompletionsPast, Current
<1>5. EpochNamed' /\ AttachedOpen' /\ DetachedPast'
  <2>1. EpochNamed'
    <3>1. settled \subseteq Lids /\ \A comp \in settled : comp <= lid
      BY DEF IInv, TypeOK, Core, EpochNamed
    <3>2. settled' = settled /\ future' = lid' /\ running' = FALSE /\ disconnecting'
      OBVIOUS
    <3>3. lid' \notin settled /\ \A comp \in settled : comp <= lid'
      BY <1>1, <3>1 DEF Lids
    <3>4. QED
      BY <1>1, <3>2, <3>3 DEF EpochNamed, Lids
  <2>2. \A l \in attached : l \in Lids /\ l <= lid /\ closes[l] = 0
    BY DEF IInv, TypeOK, Core, AttachedOpen
  <2>3. AttachedOpen'
    BY <1>1, <2>2 DEF AttachedOpen, Lids
  <2>4. DetachedPast'
    BY <1>1 DEF IInv, Core, DetachedPast, Lids
  <2>5. QED
    BY <2>1, <2>3, <2>4
<1>6. ClaimsComplete' /\ CloseDone'
  BY <1>4 DEF IInv, Core, ClaimsComplete, CloseDone
<1>7. ClosedOnce' /\ SettledMeansClosed'
  BY DEF IInv, Core, ClosedOnce, SettledMeansClosed
<1>8. QED
  BY <1>2, <1>3, <1>5, <1>6, <1>7 DEF IInv, Core

\* The claim empties the map.  An earlier owner that started the close had
\* emptied it before.
LEMMA ClaimKept ==
  ASSUME IInv, NEW t \in Tasks, Claim(t)
  PROVE  IInv'
<1> USE TeardownAssumption
        DEF Claim, Owner, Detach, TaskAt, TaskGoes, discVars, callVars, envVars
<1>1. TypeOK'
  BY DEF IInv, TypeOK, Doom
<1>2. CompletionsPast'
  BY DEF IInv, TypeOK, CompletionsPast
<1>3. disconnecting /\ future = lid
  BY DEF IInv, Core, EpochNamed
<1>4. EpochNamed' /\ AttachedOpen'
  BY DEF IInv, Core, EpochNamed, AttachedOpen
<1>5. DetachedPast'
  BY <1>3 DEF IInv, Core, DetachedPast, AttachedOpen
<1>6. ClaimsComplete'
  <2> SUFFICES ASSUME NEW u \in Tasks, Claimed(u)', Current(u)'
               PROVE  ports'[u] = collected' /\ attached' = {}
    BY DEF ClaimsComplete
  <2>1. CASE u = t
    BY <2>1 DEF IInv, TypeOK
  <2>2. CASE u # t
    <3>1. ports[u] = collected /\ attached = {} /\ ports'[u] = ports[u]
      BY <2>2 DEF IInv, TypeOK, Core, ClaimsComplete, Claimed, Current
    <3>2. QED
      BY <3>1
  <2>3. QED
    BY <2>1, <2>2
<1>7. CloseDone'
  <2>1. \A u \in Tasks : tpc'[u] \in {"close", "shutdown"} => tpc[u] = tpc'[u]
    BY DEF IInv, TypeOK
  <2>2. QED
    BY <1>3, <2>1 DEF IInv, Core, CloseDone, AttachedOpen, Current
<1>8. ClosedOnce'
  BY DEF IInv, Core, ClosedOnce
<1>9. SettledMeansClosed'
  BY DEF IInv, Core, SettledMeansClosed
<1>10. QED
  BY <1>1, <1>2, <1>4, <1>5, <1>6, <1>7, <1>8, <1>9 DEF IInv, Core

\* The owner closes what it and the owners before it have detached, unless one
\* of them began that.
LEMMA CloseKept ==
  ASSUME IInv, NEW t \in Tasks, Close(t)
  PROVE  IInv'
<1> USE TeardownAssumption
        DEF Close, Owner, MayClose, TaskAt, TaskGoes, lifeVars, discVars, callVars, envVars
<1>1. TypeOK'
  BY DEF IInv, TypeOK
<1>2. CompletionsPast'
  BY DEF IInv, TypeOK, CompletionsPast
<1>3. ports[t] = collected /\ attached = {} /\ disconnecting /\ collected \subseteq Lids
  BY DEF IInv, TypeOK, Core, ClaimsComplete, Claimed, Current
<1>4. \A l \in Lids :
        closes'[l] = IF ~closeStarted /\ l \in collected THEN closes[l] + 1 ELSE closes[l]
  BY <1>3
<1>5. \A l \in collected : closes'[l] = 1
  BY <1>3, <1>4 DEF IInv, Core, CloseDone
<1>6. EpochNamed' /\ AttachedOpen'
  BY <1>3 DEF IInv, Core, EpochNamed, AttachedOpen
<1>7. DetachedPast'
  BY <1>4 DEF IInv, Core, DetachedPast
<1>8. ClaimsComplete'
  BY <1>3 DEF IInv, TypeOK, Core, ClaimsComplete, Claimed, Current
<1>9. CloseDone'
  BY <1>3, <1>5 DEF IInv, Core, CloseDone
<1>10. ClosedOnce'
  BY <1>3, <1>4, <1>5 DEF IInv, Core, ClosedOnce
<1>11. SettledMeansClosed'
  BY DEF IInv, Core, SettledMeansClosed
<1>12. QED
  BY <1>1, <1>2, <1>6, <1>7, <1>8, <1>9, <1>10, <1>11 DEF IInv, Core

\* An owner ends its disconnect, in order or not: nothing is attached, and in
\* order nothing is left unclosed.
LEMMA SettleKept ==
  ASSUME IInv, NEW t \in Tasks, NEW broken \in BOOLEAN, Claimed(t), Owner(t),
         Settle(t, broken), TaskEnds(t), upsets' \in 0..MaxUpsets,
         UNCHANGED <<lifeVars, attached, closes, executor, callVars, callbacks, loopUp>>
  PROVE  IInv'
<1> USE TeardownAssumption DEF Owner, Settle, TaskEnds, TaskGoes, lifeVars, callVars
<1>1. attached = {} /\ tcomp[t] = lid /\ lid \in Lids
  BY DEF IInv, Core, EpochNamed, ClaimsComplete, Current
<1>2. TypeOK'
  <2>1. settled' \subseteq Lids /\ failed' \subseteq settled'
    BY <1>1 DEF IInv, TypeOK
  <2>2. /\ tpc' \in [Tasks -> {"new", "tasks", "messages", "close", "shutdown", "done"}]
        /\ tloop' \in [Tasks -> Loops \cup {None}]
        /\ tcomp' \in [Tasks -> 0..MaxLifecycle]
    BY DEF IInv, TypeOK
  <2>3. /\ ports' \in [Tasks -> SUBSET Lids] /\ victims' \in [Tasks -> SUBSET Lids]
        /\ cancelled' \subseteq Tasks
    BY DEF IInv, TypeOK
  <2>4. QED
    BY <2>1, <2>2, <2>3 DEF IInv, TypeOK
<1>3. CompletionsPast'
  BY DEF IInv, TypeOK, CompletionsPast, Lids
<1>4. EpochNamed' /\ AttachedOpen' /\ DetachedPast'
  BY <1>1 DEF IInv, TypeOK, Core, EpochNamed, AttachedOpen, DetachedPast, Lids
<1>5. ClaimsComplete' /\ CloseDone'
  BY DEF ClaimsComplete, CloseDone, Current
<1>6. ClosedOnce' /\ SettledMeansClosed'
  BY <1>1 DEF IInv, Core, ClosedOnce, SettledMeansClosed
<1>7. QED
  BY <1>2, <1>3, <1>4, <1>5, <1>6 DEF IInv, Core

\* The other steps of a teardown task.
LEMMA GateKept ==
  ASSUME IInv, NEW t \in Tasks,
         MessagesNext(t) \/ Shutdown(t) \/ Superseded(t) \/ Cancelled(t)
  PROVE  IInv'
<1> USE TeardownAssumption
        DEF MessagesNext, Shutdown, Superseded, Cancelled, TaskAt, TaskGoes, TaskEnds,
            LeaveSlots, lifeVars, ifaceVars, discVars, callVars, envVars
<1>1. TypeOK'
  BY DEF IInv, TypeOK
<1>2. CompletionsPast'
  <2>1. \A u \in Tasks : \/ tcomp'[u] = tcomp[u] /\ (tpc'[u] # "done" => tpc[u] # "done")
                         \/ tcomp'[u] = 0 /\ tpc'[u] = "done"
    BY DEF IInv, TypeOK
  <2>2. \A u \in Tasks : tcomp'[u] <= lid /\ (tpc'[u] # "done" => tcomp'[u] \in Lids)
    BY <2>1 DEF IInv, TypeOK, CompletionsPast
  <2>3. UNCHANGED <<lid, cpc, ccomp, platform, callbacks>>
    OBVIOUS
  <2>4. QED
    BY <2>2, <2>3 DEF IInv, CompletionsPast
<1>3. UNCHANGED coreVars
  BY DEF coreVars
<1>4. NoTaskAdvances
  <2> SUFFICES ASSUME NEW u \in Tasks, Claimed(u)'
               PROVE  /\ tcomp'[u] = tcomp[u] /\ ports'[u] = ports[u] /\ Claimed(u)
                      /\ tpc'[u] \in {"close", "shutdown"} => tpc[u] \in {"close", "shutdown"}
    BY DEF NoTaskAdvances
  <2>1. CASE u = t
    BY <2>1 DEF IInv, TypeOK, Claimed
  <2>2. CASE u # t
    BY <2>2 DEF IInv, TypeOK, Claimed
  <2>3. QED
    BY <2>1, <2>2
<1>5. QED
  BY <1>1, <1>2, <1>3, <1>4, CoreKept DEF IInv

\* A stage that raises settles the disconnect when its task owns it.
LEMMA BreaksKept ==
  ASSUME IInv, NEW t \in Tasks, Breaks(t)
  PROVE  IInv'
<1>1. upsets' \in 0..MaxUpsets
  BY TeardownAssumption DEF Breaks, IInv, TypeOK
<1>2. Claimed(t)
  BY DEF Breaks, TaskAt, Claimed
<1>3. CASE Owner(t)
  BY <1>1, <1>2, <1>3, SettleKept DEF Breaks
<1>4. CASE ~Owner(t)
  <2> USE <1>1, <1>4, TeardownAssumption
          DEF Breaks, TaskEnds, TaskGoes, lifeVars, discVars, callVars
  <2>1. TypeOK'
    BY DEF IInv, TypeOK
  <2>2. CompletionsPast'
    BY DEF IInv, TypeOK, CompletionsPast, Lids
  <2>3. UNCHANGED coreVars /\ NoTaskAdvances
    BY DEF IInv, TypeOK, coreVars, NoTaskAdvances, Claimed
  <2>4. QED
    BY <2>1, <2>2, <2>3, CoreKept DEF IInv
<1>5. QED
  BY <1>3, <1>4

LEMMA NextKeeps == IInv /\ [Next]_vars => IInv'
<1> SUFFICES ASSUME IInv, [Next]_vars PROVE IInv'
  OBVIOUS
<1>1. CASE LifeStep
  BY <1>1, ConnectKept, LifeKept, OpenKept DEF LifeStep
<1>2. CASE \E c \in Callers : CallerStep(c)
  BY <1>2, RequestKept, CallerKept, StarterKept DEF CallerStep
<1>3. CASE \E loop \in Loops, comp \in Lids : CallbackRuns(loop, comp)
  BY <1>3, StarterKept
<1>4. ASSUME NEW t \in Tasks, Finish(t) PROVE IInv'
  <2>1. /\ Claimed(t) /\ Owner(t) /\ Settle(t, FALSE) /\ TaskEnds(t)
        /\ UNCHANGED <<lifeVars, attached, closes, executor, callVars, callbacks, loopUp>>
        /\ upsets' = upsets
    BY <1>4 DEF Finish, Claimed, TaskAt, envVars
  <2>2. upsets' \in 0..MaxUpsets
    BY <2>1 DEF IInv, TypeOK
  <2>3. QED
    BY <2>1, <2>2, SettleKept
<1>5. CASE \E t \in Tasks : TaskStep(t)
  BY <1>4, <1>5, ClaimKept, GateKept, CloseKept, BreaksKept DEF TaskStep
<1>6. CASE EnvStep \/ UNCHANGED vars
  BY <1>6, EnvKept DEF EnvStep
<1>7. QED
  BY <1>1, <1>2, <1>3, <1>5, <1>6 DEF Next

-----------------------------------------------------------------------------
(* The theorems.                                                           *)

\* The inductive invariant holds in every reachable state.
THEOREM Invariance == Spec => []IInv
BY InitIInv, NextKeeps, PTL DEF Spec

\* The variables of connect and disconnect stay in their types.
THEOREM TypeCorrect == Spec => []TypeOK
<1>1. IInv => TypeOK
  BY DEF IInv
<1>2. QED
  BY <1>1, Invariance, PTL

\* No interface is handed to a close twice, whichever owners a disconnect had.
THEOREM NoSecondClose == Spec => []ClosedOnce
<1>1. IInv => ClosedOnce
  BY DEF IInv, Core
<1>2. QED
  BY <1>1, Invariance, PTL

\* A disconnect that settled in order left no earlier interface open.
THEOREM SettledLeavesNothing == Spec => []SettledMeansClosed
<1>1. IInv => SettledMeansClosed
  BY DEF IInv, Core
<1>2. QED
  BY <1>1, Invariance, PTL

-----------------------------------------------------------------------------
(* What is detached is closed.                                             *)

Held == attached \cup collected

\* The end of a disconnect by its owner.
Settling(t, broken) ==
  /\ Claimed(t) /\ Owner(t) /\ Settle(t, broken)
  /\ ~broken => tpc[t] = "shutdown"
  /\ UNCHANGED <<attached, closes>>

\* Only the end of a disconnect lets an interface go.
LEMMA HeldUntilSettled ==
  ASSUME Next
  PROVE  \/ Held \subseteq Held'
         \/ \E t \in Tasks, broken \in BOOLEAN : Settling(t, broken)
<1> USE DEF Held
<1>1. CASE LifeStep
  BY <1>1 DEF LifeStep, Connect, StartTasks, ConnectCancelled, OpenInterface, TasksEnd,
              ifaceVars
<1>2. CASE \E c \in Callers : CallerStep(c)
  BY <1>2 DEF CallerStep, Request, Join, Reserve, Post, PostFails, Start, Poll, Return,
              CancelCaller, HandOver, ifaceVars
<1>3. CASE \E loop \in Loops, comp \in Lids : CallbackRuns(loop, comp)
  BY <1>3 DEF CallbackRuns, ifaceVars
<1>4. ASSUME NEW t \in Tasks, TaskStep(t)
      PROVE  Held \subseteq Held' \/ \E broken \in BOOLEAN : Settling(t, broken)
  <2>1. CASE Claim(t)
    BY <2>1 DEF Claim, Detach
  <2>2. CASE Close(t) \/ MessagesNext(t) \/ Shutdown(t) \/ Superseded(t) \/ Cancelled(t)
    BY <2>2 DEF Close, MessagesNext, Shutdown, Superseded, Cancelled, ifaceVars
  <2>3. CASE Finish(t)
    BY <2>3 DEF Finish, Settling, Claimed, TaskAt
  <2>4. CASE Breaks(t) /\ Owner(t)
    BY <2>4 DEF Breaks, Settling, Claimed, TaskAt
  <2>5. CASE Breaks(t) /\ ~Owner(t)
    BY <2>5 DEF Breaks
  <2>6. QED
    BY <1>4, <2>1, <2>2, <2>3, <2>4, <2>5 DEF TaskStep
<1>5. CASE EnvStep
  BY <1>5 DEF EnvStep, CancelTask, LoopStops, LoopRestarts, ifaceVars
<1>6. QED
  BY <1>1, <1>2, <1>3, <1>4, <1>5 DEF Next

\* An interface leaves the adapter's hands by a close or with a failed
\* disconnect, in no other way.
THEOREM DetachedReachesClose == Spec => DetachedIsClosed
<1>1. ASSUME IInv, [Next]_vars, NEW l \in Lids, l \in Held, l \notin Held', failed' = failed
      PROVE  closes'[l] = 1
  <2>1. ~(UNCHANGED vars)
    BY <1>1 DEF Held, vars, ifaceVars
  <2>2. PICK t \in Tasks, broken \in BOOLEAN : Settling(t, broken)
    BY <1>1, <2>1, HeldUntilSettled
  <2>3. tcomp[t] \notin failed
    BY <1>1, <2>2 DEF Settling, Owner, IInv, TypeOK, Core, EpochNamed
  <2>4. tpc[t] = "shutdown"
    BY <1>1, <2>2, <2>3 DEF Settling, Settle
  <2>5. attached = {} /\ closeStarted
    BY <1>1, <2>2, <2>4 DEF Settling, Owner, IInv, Core, ClaimsComplete, CloseDone, Current
  <2>6. closes[l] = 1
    BY <1>1, <2>5 DEF Held, IInv, Core, CloseDone
  <2>7. QED
    BY <2>2, <2>6 DEF Settling
<1>2. IInv /\ [Next]_vars =>
        [\A l \in Lids :
           /\ l \in attached \cup collected
           /\ l \notin (attached \cup collected)'
           /\ failed' = failed
           => closes'[l] = 1]_vars
  BY <1>1 DEF Held
<1>3. QED
  BY <1>2, Invariance, PTL DEF Spec, DetachedIsClosed

-----------------------------------------------------------------------------
(* What a teardown leaves alone.                                           *)

\* The steps that move a teardown task and may do so while a lifecycle runs: no
\* teardown is under way then, and none of them passes a gate or ends a teardown.
LEMMA IdleMoves ==
  ASSUME IInv, running, [Next]_vars, NEW t \in Tasks, tpc'[t] # tpc[t]
  PROVE  UNCHANGED <<lifeVars, attached, executor, disconnecting>>
<1> USE DEF lifeVars, ifaceVars, taskVars, discVars, envVars
<1>1. \A u \in Tasks : ~Owner(u)
  BY DEF IInv, Core, EpochNamed, Owner
<1>2. ~UNCHANGED tpc
  OBVIOUS
<1>3. ~LifeStep
  BY <1>2 DEF LifeStep, Connect, StartTasks, ConnectCancelled, OpenInterface, TasksEnd
<1>4. ~EnvStep
  BY <1>2 DEF EnvStep, CancelTask, LoopStops, LoopRestarts
<1>5. ASSUME NEW loop, NEW comp, StartTask(loop, comp)
      PROVE  UNCHANGED disconnecting
  BY <1>5 DEF StartTask
<1>6. CASE \E c \in Callers : CallerStep(c)
  <2>1. PICK c \in Callers : CallerStep(c)
    BY <1>6
  <2>2. Start(c) \/ Poll(c) \/ HandOver(c)
    BY <1>2, <2>1 DEF CallerStep, Request, Join, Reserve, Post, PostFails, Return, CancelCaller
  <2>. QED
    BY <1>5, <2>2 DEF Start, Poll, HandOver
<1>7. CASE \E loop \in Loops, comp \in Lids : CallbackRuns(loop, comp)
  BY <1>5, <1>7 DEF CallbackRuns
<1>8. CASE \E u \in Tasks : TaskStep(u)
  <2>1. PICK u \in Tasks : TaskStep(u)
    BY <1>8
  <2>2. Breaks(u) \/ Superseded(u) \/ Cancelled(u)
    BY <1>1, <2>1 DEF TaskStep, Claim, MessagesNext, Close, Shutdown, Finish
  <2>. QED
    BY <1>1, <2>2 DEF Breaks, Superseded, Cancelled, LeaveSlots
<1>. QED
  BY <1>2, <1>3, <1>4, <1>6, <1>7, <1>8 DEF Next, vars

\* A superseded or stranded teardown task that moves while the next lifecycle runs
\* moves nothing of it (the gates of _disconnect_impl, the epilogue's ownership).
THEOREM LiveIsLeftAlone == Spec => LiveUntouched
<1>1. IInv /\ [Next]_vars =>
        [running /\ (\E t \in Tasks : tpc'[t] # tpc[t])
           => UNCHANGED <<lifeVars, attached, executor, disconnecting>>]_vars
  BY IdleMoves
<1>2. QED
  BY <1>1, Invariance, PTL DEF Spec, LiveUntouched
=============================================================================
