-------------------------------- MODULE Link --------------------------------
(***************************************************************************)
(* The link to one radio (adapter.py, transport.py): the reconnect loop of *)
(* a lifecycle on the platform's event loop, the opens, liveness probes    *)
(* and closes it hands to the transport worker, the pause that any session *)
(* may ask for, and the stages of a disconnect that touch the interface.   *)
(*                                                                         *)
(* An action is what a thread does between two awaits or two lock holds    *)
(* that another thread could tell apart.  A worker belongs to the lifecycle*)
(* that created it.  Its queue has no limit here: module Transport has.    *)
(***************************************************************************)
EXTENDS Integers, Sequences, FiniteSets

CONSTANTS
  MaxLifecycle, \* bound: connects and disconnects stop at this generation
  MaxOpens,     \* bound: attempts to open the interface
  MaxDrops,     \* bound: interfaces whose peer goes away
  MaxPauses,    \* bound: calls of pause_link
  None

ASSUME LinkAssumption ==
  /\ MaxLifecycle \in Nat /\ MaxOpens \in Nat /\ MaxDrops \in Nat /\ MaxPauses \in Nat
  /\ None \notin Nat

Lids   == 1..MaxLifecycle
Ifaces == 1..MaxOpens

VARIABLES
  phase, lid,     \* what connect and disconnect have done, _lifecycle_id
  exec,           \* _transport_executor, by its lifecycle (0: none)
  attached,       \* the target's entry of _interfaces
  detached,       \* the interface a disconnect has taken out of it
  state, dead,    \* each interface; those whose peer is gone
  loose,          \* interfaces that a thread of their own closes
  loop,           \* where the reconnect loop of each lifecycle is
  ticket, reply,  \* the open it waits for, the result of its job
  dropped,        \* the interface it popped and is about to close
  doomed,         \* loops with a cancellation under way
  queue,          \* the jobs of each worker
  stage, job, held, \* what each worker does, with which interface
  pause, pauses,  \* _paused and _pause_until; calls of pause_link so far
  opens           \* attempts so far

lifeVars  == <<phase, lid, exec, detached>>
ifaceVars == <<state, dead, loose>>
loopVars  == <<loop, ticket, dropped, doomed>>
workVars  == <<stage, job, held>>
pauseVars == <<pause, pauses>>
vars == <<lifeVars, attached, ifaceVars, loopVars, reply, queue, workVars, pauseVars, opens>>

NoJob == [kind |-> "none", life |-> 0, id |-> 0]
Job(kind, l, n) == [kind |-> kind, life |-> l, id |-> n]

Init ==
  /\ phase = "down" /\ lid = 0 /\ exec = 0
  /\ attached = None /\ detached = None
  /\ state = [i \in Ifaces |-> "none"] /\ dead = {} /\ loose = {}
  /\ loop = [l \in Lids |-> "off"] /\ ticket = [l \in Lids |-> 0]
  /\ reply = [l \in Lids |-> "none"] /\ dropped = [l \in Lids |-> None] /\ doomed = {}
  /\ queue = [l \in Lids |-> <<>>] /\ stage = [l \in Lids |-> "idle"]
  /\ job = [l \in Lids |-> NoJob] /\ held = [l \in Lids |-> None]
  /\ pause = "off" /\ pauses = 0 /\ opens = 0

Active(l) == phase = "up" /\ lid = l
Paused    == pause # "off"

Submitted(e, j) == queue' = [queue EXCEPT ![e] = Append(@, j)]
Closed(i)       == state' = [state EXCEPT ![i] = "closed"]

-----------------------------------------------------------------------------
(* connect and disconnect, as far as the link goes.                        *)

Connect ==
  /\ phase = "down"
  /\ lid < MaxLifecycle
  /\ phase' = "up" /\ lid' = lid + 1 /\ exec' = lid'
  /\ loop' = [loop EXCEPT ![lid'] = "sleep"]
  /\ UNCHANGED <<attached, detached, ifaceVars, ticket, dropped, doomed, reply, queue,
                 workVars, pauseVars, opens>>

Disconnect ==
  /\ phase = "up"
  /\ lid < MaxLifecycle
  /\ phase' = "stopping" /\ lid' = lid + 1
  /\ UNCHANGED <<exec, attached, detached, ifaceVars, loopVars, reply, queue, workVars,
                 pauseVars, opens>>

\* The owner claims the interface and cancels the loop, which it awaits only
\* when it runs on the same event loop.
Detach ==
  /\ phase = "stopping"
  /\ phase' = "closing"
  /\ detached' = attached /\ attached' = None
  /\ doomed' = doomed \cup {l \in Lids : loop[l] \notin {"off", "ended"}}
  /\ UNCHANGED <<lid, exec, ifaceVars, loop, ticket, dropped, reply, queue, workVars,
                 pauseVars, opens>>

CloseDetached ==
  /\ phase = "closing"
  /\ phase' = "shutdown"
  /\ detached' = None
  /\ IF detached = None THEN UNCHANGED queue ELSE Submitted(exec, Job("close", 0, detached))
  /\ UNCHANGED <<lid, exec, attached, ifaceVars, loopVars, reply, workVars, pauseVars, opens>>

\* The worker finishes what it has accepted.
Shutdown ==
  /\ phase = "shutdown"
  /\ phase' = "down" /\ exec' = 0
  /\ UNCHANGED <<lid, attached, detached, ifaceVars, loopVars, reply, queue, workVars,
                 pauseVars, opens>>

-----------------------------------------------------------------------------
(* pause_link, resume_link and the clock.                                  *)

PauseLink(kind) ==
  /\ pauses < MaxPauses /\ pauses' = pauses + 1
  /\ pause' = kind
  /\ UNCHANGED <<lifeVars, attached, ifaceVars, loopVars, reply, queue, workVars, opens>>

ResumeLink ==
  /\ Paused
  /\ pause' = "off"
  /\ UNCHANGED <<lifeVars, attached, ifaceVars, loopVars, reply, queue, workVars, pauses,
                 opens>>

DeadlinePasses ==
  /\ pause = "timed"
  /\ pause' = "due"
  /\ UNCHANGED <<lifeVars, attached, ifaceVars, loopVars, reply, queue, workVars, pauses,
                 opens>>

-----------------------------------------------------------------------------
(* _reconnect_loop.                                                        *)

At(l, label)   == loop[l] = label
Goes(l, label) == loop' = [loop EXCEPT ![l] = label]

\* The head of the loop, with the snapshot that _pause_expired takes.
Tick(l) ==
  /\ At(l, "tick")
  /\ Goes(l, IF ~Active(l) THEN "ended" ELSE IF pause = "due" THEN "expiring" ELSE "look")
  /\ UNCHANGED <<lifeVars, attached, ifaceVars, ticket, dropped, doomed, reply, queue,
                 workVars, pauseVars, opens>>

\* ... whose lock was released before resume_link takes it again.
Expire(l) ==
  /\ At(l, "expiring")
  /\ pause' = "off"
  /\ Goes(l, "look")
  /\ UNCHANGED <<lifeVars, attached, ifaceVars, ticket, dropped, doomed, reply, queue,
                 workVars, pauses, opens>>

Wait(l) ==
  /\ At(l, "look")
  /\ Paused /\ attached = None
  /\ Goes(l, "sleep")
  /\ UNCHANGED <<lifeVars, attached, ifaceVars, ticket, dropped, doomed, reply, queue,
                 workVars, pauseVars, opens>>

StartPolling(l) ==
  /\ At(l, "look")
  /\ ~Paused /\ attached # None
  /\ Goes(l, "poll")
  /\ UNCHANGED <<lifeVars, attached, ifaceVars, ticket, dropped, doomed, reply, queue,
                 workVars, pauseVars, opens>>

Wakes(l) ==
  /\ At(l, "sleep")
  /\ Goes(l, "tick")
  /\ UNCHANGED <<lifeVars, attached, ifaceVars, ticket, dropped, doomed, reply, queue,
                 workVars, pauseVars, opens>>

\* Mutant: with nothing to close the loop takes the lifecycle for over.
PopsInterface(l) == Active(l) /\ attached # None

\* _pop_interface_for_lifecycle asks whether the lifecycle is current.
MayPop(l) == Active(l)

\* A pause releases the interface, a failure drops it.
Pops(l) ==
  /\ \/ At(l, "look") /\ Paused /\ attached # None
     \/ At(l, "failing")
  /\ IF MayPop(l)
       THEN dropped' = [dropped EXCEPT ![l] = attached] /\ attached' = None
            /\ Goes(l, "dropping")
       ELSE UNCHANGED <<dropped, attached>> /\ Goes(l, "ended")
  /\ UNCHANGED <<lifeVars, ifaceVars, ticket, doomed, reply, queue, workVars, pauseVars,
                 opens>>

\* Mutant: an interface that was popped without a worker is not closed.
LooseNever(i) == UNCHANGED loose

\* Without a worker a thread of its own closes it.
Loosen(i) == loose' = loose \cup {i}

HasDropped(l) == dropped[l] # None

\* _close_interfaces; the time it waits is part of the sleep that follows.
CloseDropped(l) ==
  /\ At(l, "dropping")
  /\ dropped' = [dropped EXCEPT ![l] = None]
  /\ CASE ~HasDropped(l) -> UNCHANGED <<queue, loose>>
       [] HasDropped(l) /\ exec # 0 ->
            Submitted(exec, Job("close", 0, dropped[l])) /\ UNCHANGED loose
       [] OTHER -> Loosen(dropped[l]) /\ UNCHANGED queue
  /\ Goes(l, "sleep")
  /\ UNCHANGED <<lifeVars, attached, state, dead, ticket, doomed, reply, workVars,
                 pauseVars, opens>>

CloseLoose(i) ==
  /\ i \in loose
  /\ loose' = loose \ {i} /\ Closed(i)
  /\ UNCHANGED <<lifeVars, attached, dead, loopVars, reply, queue, workVars, pauseVars,
                 opens>>

-----------------------------------------------------------------------------
(* _open_interface_for_lifecycle.                                          *)

SubmitOpen(l) ==
  /\ At(l, "look")
  /\ ~Paused /\ attached = None
  /\ exec # 0
  /\ opens < MaxOpens /\ opens' = opens + 1
  /\ Submitted(exec, Job("open", l, opens'))
  /\ ticket' = [ticket EXCEPT ![l] = opens']
  /\ Goes(l, "opening")
  /\ UNCHANGED <<lifeVars, attached, ifaceVars, dropped, doomed, reply, workVars, pauseVars>>

\* The executor is gone: no retry.
NoExecutor(l) ==
  /\ At(l, "look")
  /\ ~Paused /\ attached = None
  /\ exec = 0
  /\ Goes(l, "ended")
  /\ UNCHANGED <<lifeVars, attached, ifaceVars, ticket, dropped, doomed, reply, queue,
                 workVars, pauseVars, opens>>

\* No interface came back, but one that a late open registered is adopted.
OpenReturns(l) ==
  /\ At(l, "opening")
  /\ reply[l] # "none"
  /\ Goes(l, CASE reply[l] = "error" -> "failing"
               [] reply[l] = "nothing" /\ attached = None -> "ended"
               [] OTHER -> "tick")
  /\ ticket' = [ticket EXCEPT ![l] = 0] /\ reply' = [reply EXCEPT ![l] = "none"]
  /\ UNCHANGED <<lifeVars, attached, ifaceVars, dropped, doomed, queue, workVars, pauseVars,
                 opens>>

\* The constructor goes on; nobody waits for it.
OpenTimesOut(l) ==
  /\ At(l, "opening")
  /\ reply[l] = "none"
  /\ ticket' = [ticket EXCEPT ![l] = 0]
  /\ Goes(l, "failing")
  /\ UNCHANGED <<lifeVars, attached, ifaceVars, dropped, doomed, reply, queue, workVars,
                 pauseVars, opens>>

-----------------------------------------------------------------------------
(* _poll_interface_until_drop.                                             *)

\* Mutant: a pause is left to the outer loop.
PollsPaused(l) == Active(l) /\ attached # None /\ exec # 0

MayPoll(l) == Active(l) /\ ~Paused /\ attached # None /\ exec # 0

Poll(l) ==
  /\ At(l, "poll")
  /\ IF ~MayPoll(l)
       THEN Goes(l, "tick") /\ UNCHANGED queue
       ELSE Submitted(exec, Job("probe", l, attached)) /\ Goes(l, "probing")
  /\ UNCHANGED <<lifeVars, attached, ifaceVars, ticket, dropped, doomed, reply, workVars,
                 pauseVars, opens>>

ProbeReturns(l) ==
  /\ At(l, "probing")
  /\ reply[l] # "none"
  /\ Goes(l, IF reply[l] = "alive" THEN "doze" ELSE "tick")
  /\ reply' = [reply EXCEPT ![l] = "none"]
  /\ UNCHANGED <<lifeVars, attached, ifaceVars, ticket, dropped, doomed, queue, workVars,
                 pauseVars, opens>>

PollsAgain(l) ==
  /\ At(l, "doze")
  /\ Goes(l, "poll")
  /\ UNCHANGED <<lifeVars, attached, ifaceVars, ticket, dropped, doomed, reply, queue,
                 workVars, pauseVars, opens>>

\* The job of a probe whose future was cancelled stays in the queue, to be skipped.
Skipped(l, j) == IF j.kind = "probe" /\ j.life = l THEN NoJob ELSE j

\* The cancellation reaches an await; a probe that has not begun goes with it.
LoopCancelled(l) ==
  /\ l \in doomed
  /\ loop[l] \in {"sleep", "opening", "probing", "doze"}
  /\ queue' = IF At(l, "probing")
                THEN [e \in Lids |-> [n \in 1..Len(queue[e]) |-> Skipped(l, queue[e][n])]]
                ELSE queue
  /\ ticket' = [ticket EXCEPT ![l] = 0] /\ reply' = [reply EXCEPT ![l] = "none"]
  /\ doomed' = doomed \ {l}
  /\ Goes(l, "ended")
  /\ UNCHANGED <<lifeVars, attached, ifaceVars, dropped, workVars, pauseVars, opens>>

-----------------------------------------------------------------------------
(* The transport worker e.                                                 *)

\* A job that its loop gave up has nobody to answer.
Awaited(j) == IF j.kind = "open" THEN ticket[j.life] = j.id ELSE At(j.life, "probing")

Answers(e, answer) ==
  reply' = IF Awaited(job[e]) THEN [reply EXCEPT ![job[e].life] = answer] ELSE reply

Ends(e) ==
  /\ stage' = [stage EXCEPT ![e] = "idle"]
  /\ job' = [job EXCEPT ![e] = NoJob] /\ held' = [held EXCEPT ![e] = None]

Stage(e, label) == stage' = [stage EXCEPT ![e] = label]

Take(e) ==
  LET j == Head(queue[e]) IN
  /\ stage[e] = "idle" /\ queue[e] # <<>>
  /\ queue' = [queue EXCEPT ![e] = Tail(@)]
  /\ job' = [job EXCEPT ![e] = j]
  /\ Stage(e, IF j = NoJob THEN "idle" ELSE j.kind)
  /\ UNCHANGED <<lifeVars, attached, ifaceVars, loopVars, reply, held, pauseVars, opens>>

CloseInterface(e) ==
  /\ stage[e] = "close"
  /\ Closed(job[e].id)
  /\ Ends(e)
  /\ UNCHANGED <<lifeVars, attached, dead, loose, loopVars, reply, queue, pauseVars, opens>>

\* The constructor of the library returns, or raises.
Construct(e) ==
  /\ stage[e] = "open"
  /\ LET i == job[e].id IN
       state' = [state EXCEPT ![i] = "open"] /\ held' = [held EXCEPT ![e] = i]
  /\ Stage(e, "register")
  /\ UNCHANGED <<lifeVars, attached, dead, loose, loopVars, reply, queue, job, pauseVars,
                 opens>>

ConstructFails(e) ==
  /\ stage[e] = "open"
  /\ Answers(e, "error")
  /\ Ends(e)
  /\ UNCHANGED <<lifeVars, attached, ifaceVars, loopVars, queue, pauseVars, opens>>

MayRegister(e) == Active(job[e].life) /\ attached = None

Register(e) ==
  /\ stage[e] = "register"
  /\ IF MayRegister(e)
       THEN attached' = held[e] /\ Answers(e, "interface") /\ Ends(e)
       ELSE UNCHANGED <<attached, reply, job, held>> /\ Stage(e, "orphan")
  /\ UNCHANGED <<lifeVars, ifaceVars, loopVars, queue, pauseVars, opens>>

\* It lost the race: the registered one is returned and its own closed.
Orphan(e) ==
  /\ stage[e] = "orphan"
  /\ Answers(e, IF Active(job[e].life) /\ attached # None THEN "interface" ELSE "nothing")
  /\ Closed(held[e])
  /\ Ends(e)
  /\ UNCHANGED <<lifeVars, attached, dead, loose, loopVars, queue, pauseVars, opens>>

\* drop_interface_if_dead_serialized: the probe proper ...
Probe(e) ==
  LET i == job[e].id IN
  /\ stage[e] = "probe"
  /\ IF attached = i /\ i \in dead
       THEN Stage(e, "drop") /\ UNCHANGED <<reply, job, held>>
       ELSE Answers(e, IF attached = i THEN "alive" ELSE "gone") /\ Ends(e)
  /\ UNCHANGED <<lifeVars, attached, ifaceVars, loopVars, queue, pauseVars, opens>>

\* Mutant: the interface is closed although the map changed under the probe.
DropsAlways(i) == TRUE

MayDrop(i) == attached = i

\* ... and the second look before the interface is taken out and closed.
Drop(e) ==
  LET i == job[e].id IN
  /\ stage[e] = "drop"
  /\ IF MayDrop(i)
       THEN attached' = None /\ Closed(i) /\ Answers(e, "dead")
       ELSE UNCHANGED <<attached, state>> /\ Answers(e, "gone")
  /\ Ends(e)
  /\ UNCHANGED <<lifeVars, dead, loose, loopVars, queue, pauseVars, opens>>

\* The peer of an open interface goes away.
LinkDrops(i) ==
  /\ state[i] = "open" /\ i \notin dead
  /\ Cardinality(dead) < MaxDrops
  /\ dead' = dead \cup {i}
  /\ UNCHANGED <<lifeVars, attached, state, loose, loopVars, reply, queue, workVars,
                 pauseVars, opens>>

-----------------------------------------------------------------------------
LoopStep(l) ==
  \/ Tick(l) \/ Expire(l) \/ Wait(l) \/ StartPolling(l) \/ Wakes(l) \/ Pops(l)
  \/ CloseDropped(l) \/ SubmitOpen(l) \/ NoExecutor(l) \/ OpenReturns(l)
  \/ Poll(l) \/ ProbeReturns(l) \/ PollsAgain(l) \/ LoopCancelled(l)

WorkerStep(e) ==
  \/ Take(e) \/ CloseInterface(e) \/ Construct(e) \/ ConstructFails(e) \/ Register(e)
  \/ Orphan(e) \/ Probe(e) \/ Drop(e)

TeardownStep == Detach \/ CloseDetached \/ Shutdown

Next ==
  \/ Connect \/ Disconnect \/ TeardownStep
  \/ (\E kind \in {"timed", "untimed"} : PauseLink(kind)) \/ ResumeLink \/ DeadlinePasses
  \/ \E l \in Lids : LoopStep(l) \/ OpenTimesOut(l) \/ WorkerStep(l)
  \/ \E i \in Ifaces : CloseLoose(i) \/ LinkDrops(i)

Spec == Init /\ [][Next]_vars

\* The event loop and the threads are scheduled, and library calls return.
FairSpec ==
  /\ Spec
  /\ \A l \in Lids : WF_vars(LoopStep(l)) /\ WF_vars(WorkerStep(l))
  /\ \A i \in Ifaces : WF_vars(CloseLoose(i))
  /\ WF_vars(TeardownStep)

-----------------------------------------------------------------------------
(* Properties.                                                             *)

LoopLabels == {"off", "sleep", "tick", "expiring", "look", "failing", "dropping",
               "opening", "poll", "probing", "doze", "ended"}
JobKinds   == {"none", "open", "probe", "close"}
JobRecords == [kind : JobKinds, life : 0..MaxLifecycle, id : 0..MaxOpens]

\* Every variable stays in its type.
TypeOK ==
  /\ phase \in {"up", "stopping", "closing", "shutdown", "down"}
  /\ lid \in 0..MaxLifecycle /\ exec \in 0..MaxLifecycle
  /\ attached \in Ifaces \cup {None} /\ detached \in Ifaces \cup {None}
  /\ state \in [Ifaces -> {"none", "open", "closed"}]
  /\ dead \subseteq Ifaces /\ loose \subseteq Ifaces
  /\ loop \in [Lids -> LoopLabels] /\ ticket \in [Lids -> 0..MaxOpens]
  /\ reply \in [Lids -> {"none", "error", "nothing", "interface", "alive", "dead", "gone"}]
  /\ dropped \in [Lids -> Ifaces \cup {None}] /\ doomed \subseteq Lids
  /\ queue \in [Lids -> Seq(JobRecords)]
  /\ stage \in [Lids -> {"idle", "open", "register", "orphan", "probe", "drop", "close"}]
  /\ job \in [Lids -> JobRecords] /\ held \in [Lids -> Ifaces \cup {None}]
  /\ pause \in {"off", "timed", "due", "untimed"} /\ pauses \in 0..MaxPauses
  /\ opens \in 0..MaxOpens

\* Where an interface may be held: in the map, by a disconnect, by a closing thread,
\* by a loop, and by a worker in its job (0) or in one that is queued.
Places ==
  ({"map", "detached", "loose"} \X {0} \X {0}) \cup ({"loop"} \X Lids \X {0})
    \cup UNION {{"worker"} \X {e} \X (0..Len(queue[e])) : e \in Lids}

Holds(p, i) ==
  CASE p[1] = "map"      -> attached = i
    [] p[1] = "detached" -> detached = i
    [] p[1] = "loose"    -> i \in loose
    [] p[1] = "loop"     -> dropped[p[2]] = i
    [] p[1] = "worker" /\ p[3] = 0 -> held[p[2]] = i \/ job[p[2]] = Job("close", 0, i)
    [] OTHER             -> queue[p[2]][p[3]] = Job("close", 0, i)

Holders(i) == {p \in Places : Holds(p, i)}

\* An open interface has one holder, a closed one none: none leaks, none is
\* closed twice, and the map never refers to a closed one, whatever open timed
\* out, was cancelled or overtaken.
HeldOnce ==
  \A i \in Ifaces : IF state[i] = "open" THEN \E p \in Places : Holders(i) = {p} ELSE Holders(i) = {}

\* A lifecycle that runs keeps its reconnect loop: no failed, late or orphaned
\* open ends it.
LoopWatches == phase = "up" => loop[lid] # "ended"

\* The link's invariant: types, interfaces held once, a loop that watches.
LinkInv == TypeOK /\ HeldOnce /\ LoopWatches

\* Once it is disconnected every interface of the lifecycle gets closed.
AllClosed ==
  \A i \in Ifaces : state[i] = "open" /\ phase = "down" ~> state[i] = "closed"

\* A pause frees the radio, unless it ends or the lifecycle does.
PauseReleases ==
  Paused /\ phase = "up" /\ attached # None ~> attached = None \/ ~Paused \/ phase # "up"

\* A link that is wanted comes back, for as long as attempts are left.
LinkReturns ==
  phase = "up" /\ ~Paused ~> attached # None \/ phase # "up" \/ Paused \/ opens = MaxOpens

-----------------------------------------------------------------------------
(* What the code's own words promise, and an interleaving breaks.          *)

\* adapter.py, pause_link, of an untimed pause: "an untimed pause that only an
\* explicit resume_link() clears".  No step of a reconnect loop ends it.
UntimedPauseStays == [][pause = "untimed" /\ pause' = "off" => loop' = loop]_vars

=============================================================================
