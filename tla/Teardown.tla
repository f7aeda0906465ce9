------------------------------ MODULE Teardown ------------------------------
(***************************************************************************)
(* connect() and disconnect() of the Meshtastic adapter (adapter.py): the  *)
(* shared completion future of a disconnect, the teardown task that owns   *)
(* it, and the ownership gates by which a follower on another event loop   *)
(* takes the teardown over when its owner is cancelled or its loop stops.  *)
(*                                                                         *)
(* An action is what one loop runs between two awaits, or less where       *)
(* another loop can come in between: every read-modify-write under         *)
(* _lifecycle_lock is one action.  A lifecycle is named by its             *)
(* _lifecycle_id, a disconnect's completion future by the id the           *)
(* disconnect advanced to.  Each lifecycle has one interface.              *)
(***************************************************************************)
EXTENDS Integers, FiniteSets

CONSTANTS
  Loops,        \* event loops of the process
  Callers,      \* calls of disconnect()
  LoopOf,       \* the loop a caller runs on
  Tasks,        \* teardown tasks that may be pending at a time
  MaxLifecycle, \* bound: connects and disconnects stop at this generation
  MaxUpsets,    \* bound: loop stops, cancellations from outside, failed stages
  None

ASSUME TeardownAssumption ==
  /\ LoopOf \in [Callers -> Loops]
  /\ MaxLifecycle \in Nat
  /\ MaxUpsets \in Nat
  /\ None \notin Loops \cup Tasks

VARIABLES
  running, lid,     \* _running, _lifecycle_id
  connecting,       \* lifecycles whose connect() still resolves its targets
  home,             \* the loop each lifecycle was connected on
  alive, doomed,    \* lifecycle tasks not ended; those with a cancel under way
  table,            \* lifecycles whose tasks the adapter's task slots refer to
  attached,         \* _interfaces
  collected,        \* _disconnect_interfaces
  closeStarted,     \* _disconnect_close_started
  closes,           \* how often an interface's close was submitted
  executor,         \* _transport_executor, by the lifecycle that created it
  disconnecting,    \* _disconnecting
  future,           \* _disconnect_future (0: none yet)
  settled, failed,  \* completions that are done; those of them with an exception
  ownerLoop, task,  \* _disconnect_owner_loop, _disconnect_task
  tpc, tloop, tcomp, ports, victims, cancelled,  \* of each teardown task
  cpc, ccomp, platform,  \* of each caller: where it is, its completion, the
                         \* platform loop it found
  callbacks,        \* _start_disconnect_task calls queued on a loop
  loopUp, upsets    \* the loops that run; environment steps so far

lifeVars  == <<running, lid, connecting, home, alive, doomed, table>>
ifaceVars == <<attached, collected, closeStarted, closes, executor>>
discVars  == <<disconnecting, future, settled, failed, ownerLoop, task>>
taskVars  == <<tpc, tloop, tcomp, ports, victims, cancelled>>
callVars  == <<cpc, ccomp, platform>>
envVars   == <<callbacks, loopUp, upsets>>
vars == <<lifeVars, ifaceVars, discVars, taskVars, callVars, envVars>>

Lids == 1..MaxLifecycle

Init ==
  /\ running = FALSE /\ lid = 0
  /\ connecting = {} /\ home = [l \in Lids |-> None]
  /\ alive = {} /\ doomed = {} /\ table = {}
  /\ attached = {} /\ collected = {} /\ closeStarted = FALSE
  /\ closes = [l \in Lids |-> 0] /\ executor = 0
  /\ disconnecting = FALSE /\ future = 0 /\ settled = {} /\ failed = {}
  /\ ownerLoop = None /\ task = None
  /\ tpc = [t \in Tasks |-> "done"] /\ tloop = [t \in Tasks |-> None]
  /\ tcomp = [t \in Tasks |-> 0] /\ ports = [t \in Tasks |-> {}]
  /\ victims = [t \in Tasks |-> {}] /\ cancelled = {}
  /\ cpc = [c \in Callers |-> "idle"] /\ ccomp = [c \in Callers |-> 0]
  /\ platform = [c \in Callers |-> None]
  /\ callbacks = {} /\ loopUp = Loops /\ upsets = 0

-----------------------------------------------------------------------------
(* connect, and the lifecycle it starts.                                   *)

\* A loop in the middle of a callback runs nothing else, and does not stop.
InCallback(loop) == \E c \in Callers : /\ LoopOf[c] = loop
                                      /\ cpc[c] \in {"reserve", "post", "start", "handover"}
Runs(loop) == loop \in loopUp /\ ~InCallback(loop)

Active(l) == running /\ lid = l

\* The platform loop: that of the newest lifecycle.
Newest(l) == home[l] # None /\ \A k \in Lids : home[k] # None => k <= l
Platform == IF \E l \in Lids : Newest(l) THEN home[CHOOSE l \in Lids : Newest(l)] ELSE None

Connect(loop) ==
  /\ Runs(loop)
  /\ ~running /\ ~disconnecting
  /\ lid < MaxLifecycle
  /\ running' = TRUE /\ lid' = lid + 1
  /\ connecting' = connecting \cup {lid'}
  /\ home' = [home EXCEPT ![lid'] = loop]
  /\ executor' = IF executor = 0 THEN lid' ELSE executor
  /\ UNCHANGED <<alive, doomed, table, attached, collected, closeStarted, closes,
                 discVars, taskVars, callVars, envVars>>

\* The targets are known: the adapter's task slots now hold the reconnect and
\* drain tasks of this lifecycle, whether or not it is still the current one.
StartTasks(l) ==
  /\ l \in connecting
  /\ Runs(home[l])
  /\ connecting' = connecting \ {l}
  /\ alive' = alive \cup {l}
  /\ table' = {l}
  /\ UNCHANGED <<running, lid, home, doomed, ifaceVars, discVars, taskVars, callVars,
                 envVars>>

\* connect() is cancelled while it resolves its targets: the lifecycle it began
\* goes on without its reconnect and drain tasks.
ConnectCancelled(l) ==
  /\ l \in connecting
  /\ Runs(home[l])
  /\ connecting' = connecting \ {l}
  /\ UNCHANGED <<running, lid, home, alive, doomed, table, ifaceVars, discVars, taskVars,
                 callVars, envVars>>

\* Mutant: an interface that opened late is registered all the same.
RegisterLate(l) == TRUE

\* The lifecycle must still be current when its interface has opened.
MayRegister(l) == Active(l)

\* _open_and_register_interface on the transport worker.
OpenInterface(l) ==
  /\ l \in alive
  /\ MayRegister(l)
  /\ attached = {}
  /\ attached' = {l}
  /\ UNCHANGED <<lifeVars, collected, closeStarted, closes, executor, discVars,
                 taskVars, callVars, envVars>>

\* A lifecycle task notices its cancellation or that its lifecycle is over.
TasksEnd(l) ==
  /\ l \in alive
  /\ Runs(home[l])
  /\ l \in doomed \/ ~Active(l)
  /\ alive' = alive \ {l}
  /\ doomed' = doomed \ {l}
  /\ UNCHANGED <<running, lid, connecting, home, table, ifaceVars, discVars, taskVars,
                 callVars, envVars>>

-----------------------------------------------------------------------------
(* _start_disconnect_task.                                                 *)

Done(t) == tpc[t] = "done"

\* A loop that runs has the teardown, or its callback is still to come.
OwnedElsewhere(loop) ==
  /\ ownerLoop \notin {None, loop}
  /\ ownerLoop \in loopUp
  /\ task = None \/ ~Done(task)

\* Mutant: a task on a stopped loop counts as one that works.
NeedsNew == task = None \/ Done(task)

NeedsTask == task = None \/ Done(task) \/ tloop[task] \notin loopUp

\* A superseded task is cancelled where it lives.
StartTask(loop, comp) ==
  IF comp \in settled \/ OwnedElsewhere(loop) \/ ~NeedsTask
    THEN UNCHANGED <<discVars, taskVars>>
    ELSE \E t \in Tasks :
           /\ Done(t) /\ t # task
           /\ tpc' = [tpc EXCEPT ![t] = "new"]
           /\ tloop' = [tloop EXCEPT ![t] = loop]
           /\ tcomp' = [tcomp EXCEPT ![t] = comp]
           /\ cancelled' = IF task # None /\ ~Done(task) THEN cancelled \cup {task}
                           ELSE cancelled
           /\ task' = t /\ ownerLoop' = loop
           /\ UNCHANGED <<ports, victims, disconnecting, future, settled, failed>>

-----------------------------------------------------------------------------
(* disconnect.                                                             *)

CallerAt(c, label) == cpc[c] = label /\ (label \in {"idle", "poll"} => Runs(LoopOf[c]))
CallerGoes(c, label) == cpc' = [cpc EXCEPT ![c] = label]

\* The first caller stops the lifecycle and owes the teardown a task ...
Request(c) ==
  /\ CallerAt(c, "idle")
  /\ ~disconnecting
  /\ lid < MaxLifecycle
  /\ disconnecting' = TRUE
  /\ running' = FALSE /\ lid' = lid + 1 /\ future' = lid'
  /\ ccomp' = [ccomp EXCEPT ![c] = lid'] /\ platform' = [platform EXCEPT ![c] = Platform]
  /\ CallerGoes(c, "reserve")
  /\ UNCHANGED <<connecting, home, alive, doomed, table, ifaceVars, settled, failed,
                 ownerLoop, task, taskVars, envVars>>

\* ... the others share its completion.
Join(c) ==
  /\ CallerAt(c, "idle")
  /\ disconnecting
  /\ ccomp' = [ccomp EXCEPT ![c] = future]
  /\ CallerGoes(c, "poll")
  /\ UNCHANGED <<lifeVars, ifaceVars, discVars, taskVars, platform, envVars>>

\* The platform loop is reserved when it runs elsewhere, else the caller's own.
Reserve(c) ==
  LET own == LoopOf[c] IN
  /\ CallerAt(c, "reserve")
  /\ IF platform[c] \in loopUp \ {own}
       THEN ownerLoop' = platform[c] /\ CallerGoes(c, "post")
       ELSE ownerLoop' = own /\ CallerGoes(c, "start")
  /\ UNCHANGED <<lifeVars, ifaceVars, disconnecting, future, settled, failed, task,
                 taskVars, ccomp, platform, envVars>>

Post(c) ==
  /\ CallerAt(c, "post")
  /\ callbacks' = callbacks \cup {<<platform[c], ccomp[c]>>}
  /\ CallerGoes(c, "poll")
  /\ platform' = [platform EXCEPT ![c] = None]
  /\ UNCHANGED <<lifeVars, ifaceVars, discVars, taskVars, ccomp, loopUp, upsets>>

\* The platform loop was closed since: call_soon_threadsafe raises.
PostFails(c) ==
  /\ CallerAt(c, "post")
  /\ platform[c] \notin loopUp
  /\ ownerLoop' = LoopOf[c]
  /\ CallerGoes(c, "start")
  /\ UNCHANGED <<lifeVars, ifaceVars, disconnecting, future, settled, failed, task,
                 taskVars, ccomp, platform, envVars>>

Start(c) ==
  /\ CallerAt(c, "start")
  /\ StartTask(LoopOf[c], ccomp[c])
  /\ CallerGoes(c, "poll")
  /\ platform' = [platform EXCEPT ![c] = None]
  /\ UNCHANGED <<lifeVars, ifaceVars, ccomp, envVars>>

CallbackRuns(loop, comp) ==
  /\ Runs(loop)
  /\ <<loop, comp>> \in callbacks
  /\ StartTask(loop, comp)
  /\ callbacks' = callbacks \ {<<loop, comp>>}
  /\ UNCHANGED <<lifeVars, ifaceVars, callVars, loopUp, upsets>>

\* Each turn of the polling loop offers to take the teardown over.
Poll(c) ==
  /\ CallerAt(c, "poll")
  /\ ccomp[c] \notin settled
  /\ StartTask(LoopOf[c], ccomp[c])
  /\ UNCHANGED <<lifeVars, ifaceVars, callVars, envVars>>

Return(c) ==
  /\ CallerAt(c, "poll")
  /\ ccomp[c] \in settled
  /\ CallerGoes(c, "returned")
  /\ ccomp' = [ccomp EXCEPT ![c] = 0]
  /\ UNCHANGED <<lifeVars, ifaceVars, discVars, taskVars, platform, envVars>>

\* A cancelled caller takes an empty reservation over before it leaves.
CancelCaller(c) ==
  LET takeOver == ccomp[c] \notin settled /\ task = None IN
  /\ CallerAt(c, "poll")
  /\ upsets < MaxUpsets /\ upsets' = upsets + 1
  /\ ownerLoop' = IF takeOver THEN LoopOf[c] ELSE ownerLoop
  /\ CallerGoes(c, IF takeOver THEN "handover" ELSE "cancelled")
  /\ ccomp' = [ccomp EXCEPT ![c] = IF takeOver THEN @ ELSE 0]
  /\ UNCHANGED <<lifeVars, ifaceVars, disconnecting, future, settled, failed, task,
                 taskVars, platform, callbacks, loopUp>>

HandOver(c) ==
  /\ CallerAt(c, "handover")
  /\ StartTask(LoopOf[c], ccomp[c])
  /\ CallerGoes(c, "cancelled")
  /\ ccomp' = [ccomp EXCEPT ![c] = 0]
  /\ UNCHANGED <<lifeVars, ifaceVars, platform, envVars>>

-----------------------------------------------------------------------------
(* _disconnect_impl: one action per stage.                                 *)

TaskAt(t, label) == tpc[t] = label /\ Runs(tloop[t])
TaskGoes(t, label) == tpc' = [tpc EXCEPT ![t] = label]

\* Its name may be given to a later task.
TaskEnds(t) ==
  /\ TaskGoes(t, "done")
  /\ ports' = [ports EXCEPT ![t] = {}] /\ victims' = [victims EXCEPT ![t] = {}]
  /\ tloop' = [tloop EXCEPT ![t] = None] /\ tcomp' = [tcomp EXCEPT ![t] = 0]
  /\ cancelled' = cancelled \ {t}

\* Mutant: the gate compares the completion only.
SameEpoch(t) == future = tcomp[t]

\* The ownership gate.
Owner(t) == disconnecting /\ future = tcomp[t] /\ task = t

\* The epilogue of a cancelled or superseded task clears its own slots only.
LeaveSlots(t) ==
  /\ task' = IF task = t THEN None ELSE task
  /\ ownerLoop' = IF task = t THEN None ELSE ownerLoop
  /\ UNCHANGED <<disconnecting, future, settled, failed>>

\* Mutant: what a superseded owner has detached is not kept for the next one.
DetachAlone(t) == collected' = attached

\* Interfaces accumulate over the owners of one disconnect.
Detach(t) == collected' = collected \cup attached

\* The lifecycle tasks that have not ended are cancelled where they live.
Doom == doomed' = doomed \cup (table \cap alive)

Claim(t) ==
  /\ TaskAt(t, "new")
  /\ Owner(t)
  /\ Detach(t)
  /\ attached' = {}
  /\ ports' = [ports EXCEPT ![t] = collected']
  /\ victims' = [victims EXCEPT ![t] = table]
  /\ table' = {}
  /\ Doom
  /\ TaskGoes(t, "tasks")
  /\ UNCHANGED <<running, lid, connecting, home, alive, closeStarted, closes, executor,
                 discVars, tloop, tcomp, cancelled, callVars, envVars>>

\* Only the tasks of this loop are awaited.
Gathered(t) == \A l \in victims[t] : home[l] = tloop[t] => l \notin alive

MessagesNext(t) ==
  /\ TaskAt(t, "tasks")
  /\ Gathered(t)
  /\ Owner(t)
  /\ TaskGoes(t, "messages")
  /\ UNCHANGED <<lifeVars, ifaceVars, discVars, tloop, tcomp, ports, victims, cancelled,
                 callVars, envVars>>

\* Mutant: every owner starts the close.
CloseFree == TRUE

\* One owner of a disconnect starts the close.
MayClose == ~closeStarted

Close(t) ==
  /\ TaskAt(t, "messages")
  /\ Owner(t)
  /\ closeStarted' = TRUE
  /\ closes' = [l \in Lids |-> IF MayClose /\ l \in ports[t] THEN closes[l] + 1
                               ELSE closes[l]]
  /\ TaskGoes(t, "close")
  /\ UNCHANGED <<lifeVars, attached, collected, executor, discVars, tloop, tcomp, ports,
                 victims, cancelled, callVars, envVars>>

\* The executor is taken out and told to shut down.
Shutdown(t) ==
  /\ TaskAt(t, "close")
  /\ Owner(t)
  /\ executor' = 0
  /\ TaskGoes(t, "shutdown")
  /\ UNCHANGED <<lifeVars, attached, collected, closeStarted, closes, discVars, tloop,
                 tcomp, ports, victims, cancelled, callVars, envVars>>

\* _teardown_epilogue of an owner: the completion first, then the flags.
Settle(t, broken) ==
  /\ settled' = settled \cup {tcomp[t]}
  /\ failed' = IF broken THEN failed \cup {tcomp[t]} ELSE failed
  /\ disconnecting' = FALSE
  /\ task' = None /\ ownerLoop' = None
  /\ collected' = {} /\ closeStarted' = FALSE
  /\ UNCHANGED future

Finish(t) ==
  /\ TaskAt(t, "shutdown")
  /\ Owner(t)
  /\ Settle(t, FALSE)
  /\ TaskEnds(t)
  /\ UNCHANGED <<lifeVars, attached, closes, executor, callVars, envVars>>

\* A stage raises (no thread for the close, a library call that fails).
Breaks(t) ==
  /\ \E label \in {"tasks", "messages", "close", "shutdown"} : TaskAt(t, label)
  /\ upsets < MaxUpsets /\ upsets' = upsets + 1
  /\ IF Owner(t) THEN Settle(t, TRUE)
     ELSE UNCHANGED <<discVars, collected, closeStarted>>
  /\ TaskEnds(t)
  /\ UNCHANGED <<lifeVars, attached, closes, executor, callVars, callbacks, loopUp>>

\* The task finds at its next gate that it no longer owns the teardown.
Superseded(t) ==
  /\ \E label \in {"new", "tasks", "messages", "close", "shutdown"} : TaskAt(t, label)
  /\ ~Owner(t)
  /\ LeaveSlots(t)
  /\ TaskEnds(t)
  /\ UNCHANGED <<lifeVars, ifaceVars, callVars, envVars>>

\* A cancellation arrives.  A task cancelled before its first step runs no
\* line of _disconnect_impl, its finally block neither.
Cancelled(t) ==
  /\ t \in cancelled
  /\ \E label \in {"new", "tasks", "messages", "close", "shutdown"} : TaskAt(t, label)
  /\ IF tpc[t] = "new" THEN UNCHANGED discVars ELSE LeaveSlots(t)
  /\ TaskEnds(t)
  /\ UNCHANGED <<lifeVars, ifaceVars, callVars, envVars>>

-----------------------------------------------------------------------------
(* The process around the adapter.                                         *)

\* Somebody else cancels the teardown task (asyncio.run on its way out).
CancelTask(t) ==
  /\ ~Done(t) /\ t \notin cancelled
  /\ upsets < MaxUpsets /\ upsets' = upsets + 1
  /\ cancelled' = cancelled \cup {t}
  /\ UNCHANGED <<lifeVars, ifaceVars, discVars, tpc, tloop, tcomp, ports, victims,
                 callVars, callbacks, loopUp>>

LoopStops(loop) ==
  /\ Runs(loop)
  /\ upsets < MaxUpsets /\ upsets' = upsets + 1
  /\ loopUp' = loopUp \ {loop}
  /\ UNCHANGED <<lifeVars, ifaceVars, discVars, taskVars, callVars, callbacks>>

LoopRestarts(loop) ==
  /\ loop \in Loops \ loopUp
  /\ loopUp' = loopUp \cup {loop}
  /\ UNCHANGED <<lifeVars, ifaceVars, discVars, taskVars, callVars, callbacks, upsets>>

-----------------------------------------------------------------------------
LifeStep == \/ \E loop \in Loops : Connect(loop)
            \/ \E l \in Lids : \/ StartTasks(l) \/ ConnectCancelled(l)
                               \/ OpenInterface(l) \/ TasksEnd(l)

CallerStep(c) == \/ Request(c) \/ Join(c) \/ Reserve(c) \/ Post(c) \/ PostFails(c)
                 \/ Start(c) \/ Poll(c) \/ Return(c) \/ CancelCaller(c) \/ HandOver(c)

TaskStep(t) == \/ Claim(t) \/ MessagesNext(t) \/ Close(t) \/ Shutdown(t) \/ Finish(t)
               \/ Breaks(t) \/ Superseded(t) \/ Cancelled(t)

EnvStep == \/ \E t \in Tasks : CancelTask(t)
           \/ \E loop \in Loops : LoopStops(loop) \/ LoopRestarts(loop)

Next == \/ LifeStep
        \/ \E c \in Callers : CallerStep(c)
        \/ \E loop \in Loops, comp \in Lids : CallbackRuns(loop, comp)
        \/ \E t \in Tasks : TaskStep(t)
        \/ EnvStep

Spec == Init /\ [][Next]_vars

\* A loop that runs runs its callbacks: those of the callers that are in
\* disconnect, of the teardown tasks and of the ending lifecycle tasks.
FairSpec ==
  /\ Spec
  /\ \A c \in Callers : WF_vars(Reserve(c) \/ Post(c) \/ PostFails(c) \/ Start(c)
                                  \/ Poll(c) \/ Return(c) \/ HandOver(c))
  /\ \A t \in Tasks : WF_vars(Claim(t) \/ MessagesNext(t) \/ Close(t) \/ Shutdown(t)
                                \/ Finish(t) \/ Superseded(t) \/ Cancelled(t))
  /\ \A loop \in Loops, comp \in Lids : WF_vars(CallbackRuns(loop, comp))
  /\ \A l \in Lids : WF_vars(TasksEnd(l))

-----------------------------------------------------------------------------
(* Properties.                                                             *)

\* Every variable stays in its type.
TypeOK ==
  /\ running \in BOOLEAN /\ lid \in 0..MaxLifecycle
  /\ connecting \subseteq Lids /\ home \in [Lids -> Loops \cup {None}]
  /\ alive \subseteq Lids /\ doomed \subseteq alive /\ table \subseteq Lids
  /\ attached \subseteq Lids /\ collected \subseteq Lids
  /\ closeStarted \in BOOLEAN
  /\ closes \in [Lids -> Nat] /\ executor \in 0..MaxLifecycle
  /\ disconnecting \in BOOLEAN /\ future \in 0..MaxLifecycle
  /\ settled \subseteq Lids /\ failed \subseteq settled
  /\ ownerLoop \in Loops \cup {None} /\ task \in Tasks \cup {None}
  /\ tpc \in [Tasks -> {"new", "tasks", "messages", "close", "shutdown",
                        "done"}]
  /\ tloop \in [Tasks -> Loops \cup {None}]
  /\ tcomp \in [Tasks -> 0..MaxLifecycle]
  /\ ports \in [Tasks -> SUBSET Lids] /\ victims \in [Tasks -> SUBSET Lids]
  /\ cancelled \subseteq Tasks
  /\ cpc \in [Callers -> {"idle", "reserve", "post", "start", "poll", "handover",
                          "returned", "cancelled"}]
  /\ ccomp \in [Callers -> 0..MaxLifecycle]
  /\ platform \in [Callers -> Loops \cup {None}]
  /\ callbacks \subseteq Loops \X Lids
  /\ loopUp \subseteq Loops /\ upsets \in 0..MaxUpsets

\* No interface is closed twice, however many owners a disconnect had.
ClosedOnce == \A l \in Lids : closes[l] <= 1

\* A disconnect that settled without an exception left nothing open: each
\* interface of a lifecycle before it was given to a close.
SettledMeansClosed ==
  \A comp \in settled \ failed :
    \A l \in Lids : l < comp => l \notin attached \cup collected

\* ... and one taken out of the map is never forgotten on the way to its close.
DetachedIsClosed ==
  [][\A l \in Lids :
       /\ l \in attached \cup collected
       /\ l \notin (attached \cup collected)'
       /\ failed' = failed
       => closes'[l] = 1]_vars

\* A teardown task that still moves while a lifecycle runs is one that was
\* superseded or stranded, and moves nothing of that lifecycle.
LiveUntouched ==
  [][running /\ (\E t \in Tasks : tpc'[t] # tpc[t])
       => UNCHANGED <<lifeVars, attached, executor, disconnecting>>]_vars

\* The reservation for the platform loop (adapter.py:1696) is written after the
\* lock that announced the disconnect was released.  A follower may have started
\* a task on its own loop by then; the loop noted as the owner's is then not the
\* task's, and when the task's loop stops no poll takes the teardown over.
Stranded ==
  /\ task # None /\ ~Done(task)
  /\ tloop[task] \notin loopUp
  /\ ownerLoop # tloop[task]

InDisconnect(c) ==
  cpc[c] \in {"reserve", "post", "start", "poll"} /\ LoopOf[c] \in loopUp

\* Every caller of disconnect on a loop that keeps running returns, over every
\* stop, cancellation and take-over but the one that leaves the teardown stranded.
TakeoverReturns ==
  \A c \in Callers :
    InDisconnect(c)
      ~> cpc[c] \in {"returned", "cancelled"} \/ LoopOf[c] \notin loopUp \/ Stranded

-----------------------------------------------------------------------------
(* What the code's own words promise, and an interleaving breaks.          *)

\* connection.py, teardown_task_list: "Lifecycle tasks teardown must cancel".
\* It reads the adapter's task slots, so while a lifecycle runs they refer to
\* the tasks of that lifecycle.
SlotsCurrent == running /\ lid \in alive => lid \in table

\* disconnect: "If the owner loop stops after accepting the callback, take over
\* cleanup here."  A caller whose loop keeps running then returns.
DisconnectReturns ==
  \A c \in Callers :
    InDisconnect(c) ~> cpc[c] \in {"returned", "cancelled"} \/ LoopOf[c] \notin loopUp

=============================================================================
