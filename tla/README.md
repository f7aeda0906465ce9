# Verification of the Meshtastic adapter

This directory holds TLA+ models of the Hermes Meshtastic adapter, the TLC
configurations that check them on small instances, and proofs, checked by TLAPS,
that the central invariants hold for every instance. Source paths below are
relative to the repository; line numbers are those of the commit the models were
written from. `PROJECT.json` maps every definition to its lines.

Run `tlc -config <Run>.cfg <Module>.tla` for a run of the table below, and
`tlapm <Module>Proofs.tla` for a proof.

## 1. The system

The adapter joins a chat gateway to a LoRa mesh radio. It runs on several
schedulers at once, and most of what can go wrong is between them:

- the **platform loop**, the asyncio loop `connect()` ran on. It owns the
  reconnect and drain loops, the incoming queue and, normally, the teardown;
- **session loops**: `send()`, `pause_link()` and `disconnect()` may be called on
  any asyncio loop of the process, each in a thread of its own;
- the **transport worker**, one daemon thread that runs every blocking call of
  the radio library;
- the library's **reader thread**, which calls `onAckNak` handlers and publishes
  packets.

They share state under four locks (`_ack_lock`, `_lifecycle_lock`, `_iface_lock`,
`_pause_lock`), none of which is held over an `await`, and several flags that
are read outside of any of them.

### Inventory

| Component | Code | State | Operations | What makes it correct |
|---|---|---|---|---|
| ACK tracker | `ack_state.py` | pending and response records, waiters, send tokens, poisoned ids, staged early responses | track, record a response, pubsub upgrade, wait, sweep, prune | a waiter can always be settled; a verdict is never lost or taken back, nor given to another send the tracker knew |
| Send of one chunk | `adapter.py`, `send_path.py` | its token, lifecycle, packet id | check, arm, `sendText`, track, wait | returns; a send of an earlier lifecycle touches nothing of the next |
| Lifecycle and teardown | `adapter.py`, `connection.py` | `_running`, `_lifecycle_id`, completion future, owner loop and task, detached interfaces | `connect`, `disconnect`, take-over | each interface closed once; each caller returns; no stale owner acts |
| Reconnect loop and pause | `adapter.py`, `connection.py` | `_interfaces`, the pause and its deadline | open, poll, release, fail; pause, resume, expire | no interface leaks; the link comes back; a pause frees the radio |
| Transport worker | `transport.py` | job queue, closed flags, futures | submit, run, shutdown, close after it | every accepted job runs before the end; the end comes |
| Outbound queue | `adapter.py`, `send_path.py` | `_outbound_queue` | queue, evict, drain, requeue | bounded; order kept; no loss of what was not sent |
| Solicited requests | `solicited.py` | waiters by kind and node | register, resolve, discard, abandon | each waiter ends once; none stays registered |
| Forwarding | `forwarding.py`, `adapter.py` | slots per sender, notices in flight | decide, cancel, reply done | the hourly cap holds; a notice in flight ends |
| Inbound | `inbound.py`, `adapter.py` | incoming queue, message tasks, writes | enqueue, consume, dispatch | bounded; newest kept; nothing of a dead lifecycle is dispatched |
| Node freshness | `node_freshness.py` | overlay of observed nodes | observe, merge | bounded; newest wins |
| Model picker | `model_picker.py` | pending menus | open, answer, expire | bounded; an answer goes to its menu |
| Chunking | `chunking.py` | none | split, number | each chunk fits; nothing is lost |
| Send targets | `send_path.py` | none | pick the interface, node and channel of a send | a message reaches whom it names, or nobody |
| Node ids and allowlists | `adapter.py`, `inbound.py` | none | normalise, expand, admit | who is let in is in the list; the gateway's copy of it lets in the same |
| Connection targets | `transport.py`, `connection.py` | none | write and read the key of a TCP connection | it reads back as written |
| Telemetry store, tools, helpers, schemas, mock, scripts | other files | SQLite table, none | statements, conversions | see section 8 |

How they interact: `connect` creates the worker and the platform-loop tasks. The
reconnect loop submits opens, probes and closes to the worker and adopts what
they register. A send submits `sendText` to the worker, then enters the tracker;
the reader thread answers through a handler, the platform loop through the
incoming queue. `disconnect` stops the lifecycle, detaches the interfaces, sweeps
the tracker, cancels the tasks, closes through the worker and shuts it down.

### The hard behaviours

`PROJECT.json` lists them as hazards with the line where each one bites. In short:
flags read twice or before they are used; responses that arrive before the record
they answer; packet ids that come again; timers that race verdicts; a teardown
whose owner is cancelled, superseded or stranded on a loop that stopped; opens
that finish after their timeout or their lifecycle; a shutdown that meets a full
queue; tasks that a teardown cancels on another loop and does not wait for; and a
teardown's own task, cancelled before its first step.

## 2. Modules

| Module | Models | Run through |
|---|---|---|
| `AckTracker` | `ack_state.py` in full, `_send_immediate`, the library's handlers, the pubsub path | `MCAckTracker` |
| `Teardown` | `connect`, `disconnect`, `_start_disconnect_task`, `_disconnect_impl` | `MCTeardown` |
| `Transport` | `_DaemonTransportExecutor` and the closer behind it | `MCTransport` |
| `Link` | `_reconnect_loop`, opens, probes, pauses and closes over the worker and a disconnect | `Link` itself |
| `Outbound` | `send` with its chunks and retries, the offline queue, the drain task, a disconnect of both | `MCOutbound` |
| `Courier` | what the offline queue promises, in six lines of state; `Outbound` refines it | `MCOutbound` |
| `Solicited` | `SolicitedRequestTracker` and the requests that use it | `MCSolicited` |
| `Inbound` | the incoming queue, its consumer, the message tasks, a disconnect of them; composes the next two | `MCInbound` |
| `ForwardGate`, `ModelPicker` | the rate limits on relays, the numbered menus, as operators on a value | through `Inbound` |
| `Chunking`, `SendTargets`, `NodeFreshness`, `NodeIds`, `Intake`, `TcpTargets` | the pure algorithms of `chunking.py`, `send_path.py`, `node_freshness.py`, of node ids and allowlists, of one packet's intake, of TCP keys | through `Algorithms` |
| `Algorithms` | one call of any of them, with the properties their callers rely on | `MCAlgorithms` |
| `Optional` | the value for what is not there | |
| `AckTrackerProofs`, `TeardownProofs`, `TransportProofs`, `LinkProofs`, `SolicitedProofs`, `OutboundProofs`, `InboundProofs`, `AlgorithmsProofs` | theorems about the modules of these names | |

The `MC` modules only give names to model values, symmetries and the inputs of
`Algorithms`.

### AckTracker

An action is one critical section of `_ack_lock`, or the code between two of
them. A send is its own `send_token`, and `pc` tells how far `_send_immediate`
has come. `pendAck`, `ackResp`, `ackTok`, `respTok`, `ackFut`, `recLid`,
`inflight` and `early` are the tracker's dictionaries; `pendOlder` and `respOlder`
are the insertion orders by which the prune evicts. Records keep their status,
the reason for it and, as history, the send whose packet caused it; texts, hop
counts and times are left out.

Two of the tracker's sections read `adapter._running`, which another lock guards.
`_track_pending_ack` reads it twice, so it is two actions (`TrackWaiter`,
`RegisterWaiter`) with `ackLock` held in between. The staleness check of
`_send_immediate` (`StillCurrent`) and the tracking that follows are likewise
two actions, as the lock is released between them.

The radio reports a packet at any time after the send's `sendText` began
(`HearWithHandler`, `HearWithoutHandler`), also before it returned the packet id,
and for an id that several sends were given: the library's handlers are keyed by
the id, so any of them may be called. Two sends that have drawn one id before either
is tracked look alike to the tracker, and either may be settled by a response to the
other: for each tracked waiter `unseen` remembers, as history, the sends of its id
that the tracker did not know then. A report is also queued for the platform
loop, whose pubsub path decides (`PubsubCheck`) and commits (`PubsubRecord`) in
two steps. Nothing forces a report to arrive.

### Teardown

A lifecycle is named by its `_lifecycle_id`, a completion future by the id its
disconnect advanced to. `cpc` is the place of each caller of `disconnect`, `tpc`
that of each teardown task: one stage of `_disconnect_impl` between two ownership
gates per action. `StartTask` is `_start_disconnect_task`, called by callers,
by callbacks posted to another loop, and on every turn of a caller's poll.

A loop that is inside a callback (a caller between `Request` and its first
`await`) runs nothing else, while other loops do; `Runs` says so. A loop may stop
and be run again; what is scheduled on it waits. A task cancelled before its
first step runs no line of its coroutine, its `finally` neither (`Cancelled`).
Each lifecycle has one interface; pubsub, the tools' reference and the message
tasks carry no state here.

### Transport

`submit` and `shutdown` hold `_state_lock` and are one action each. The worker is
four steps: take, ask the future, run, and test for the end. A job's future can
be cancelled by its caller while it is pending: `asyncio.wrap_future` does that
when the reconnect loop that awaits a probe is cancelled. `CloseAfterExecutor`
is the thread that joins the worker before it closes.

### Link

One target. `loop` is the place of each lifecycle's reconnect loop, `stage` that
of each lifecycle's worker. An open is construct, register and, if it lost the
race, close its own interface (`Construct`, `Register`, `Orphan`). A timed-out
open stays in the worker with no one to answer (`OpenTimesOut`, `Answers`). A
probe is `drop_interface_if_dead_serialized` with its second look at the map
(`Probe`, `Drop`). `pause` is `off`, `timed`, `due` (timed, and past its
deadline) or `untimed`; `Tick` and `Expire` are the two lock holds of
`_pause_expired`. The teardown is reduced to the stages that touch the interface,
in the order `_disconnect_impl` has them; `Teardown` shows that every disconnect
that settles in order goes through these.

### Outbound

`spc` is the place of each call of `send`, which goes through its chunks and their
tries; `tpc` that of the `_send_immediate` it awaits, `dpc` that of each drain task,
`hand` the item it popped. `slot` is `_queue_drain_task`, which a `connect` that resumes
late takes from a newer one (`StartDrain`). A chunk goes to the queue only when nothing
of it went out and no interface is there. `Enqueue` makes room in a full queue, of which
the drain task's item is no part; an item that is put back goes to the front, past the
limit if need be, as in the code. The drain task's send is shielded: a disconnect
cancels the task and not the send, and the task, cancelled, looks at the answer of a
send it can still see. The disconnect cancels the task in the slot only. It waits for it
when that task is on its own loop; on another it posts the cancel and goes on (`Claim`,
`CancelArrives`), and an owner that is cancelled in its wait leaves one that waits for
nobody (`TakeOver`). So a drain task of an ended lifecycle may hold a message, and put
it back, while the next lifecycle drains. Whether the packet left (`direct`, `drained`)
is history, and so are the order of acceptance and the fate of a message. `Courier` is
the abstract specification: accepted, sent, lost or left unsure, and no copy after that.

### Solicited

A call of `solicit` is armed under `_response_lock`, sends through the worker and
waits. The platform loop takes waiters out of the registry under the lock and
settles their futures on their own loops afterwards, so taking (`Packet`,
`LinkDrops`) and settling (`Deliver`, `Fail`) are separate actions and a timeout or
a cancellation may come in between. A packet carries the time of its reception or
none, and one that is stamped earlier than a waiter leaves that waiter registered, if
the stamp is within the skew bound; one that is further off is not compared and answers
it (`Predates`, `Keeps`).

### Inbound, ForwardGate, ModelPicker

A packet is heard by the reader thread in some lifecycle (`Hear`), posted to the
platform loop (`Enqueue`, which evicts the oldest of a full queue), taken and
dispatched, the last without an `await`. What the dispatch starts is a message
task: the agent's, a relay to the owner's node, or the answer to a menu. A relay
holds a slot of the gate and, if a notice is due, the sender's mark in
`inflight`. It is ready before any disconnect that could cancel it runs, and the loop
runs what is ready in order, so its first step comes before the cancel
(`CancelTasks`). A menu can be answered before its text is sent; it is closed if that
fails and stays if the text is sent, queued, or its send cancelled (`MenuFails`,
`MenuStays`). The gate outlives a lifecycle, the menus are cleared with it.

### The pure algorithms

A text is a sequence of characters that are narrow, wide or a space; what a chunk
weighs, where it is cut and what its prefix costs is computed as `chunking.py` does,
with the constants scaled down (section 3). A node id is the number of its bangs,
whether it has upper-case letters, and its body; the expansions and the normalisation
change these. The list of senders is `MESHTASTIC_ALLOWED_NODES`, which the gateway reads
too, or, if that is not set, one that only the adapter reads (`Listed`); `ExpandedEnv`
rewrites the former. How the gateway uses its list (`GatewayAccepts`) is external, as
the docstring at `adapter.py:1027-1032` has it, and so is the use it makes of
`_dm_policy`. `Intake` is the chain of decisions of `process` and of `_on_receive` for
one packet, up to the gate. `SendTargets` walks the interfaces for a direct message and
their channel tables for a channel. `NodeFreshness` folds the packets into the overlay.
`TcpTargets` writes and reads a TCP key. The code's loops are recursive functions over
`0..n`, the state of the loop after that many turns, which TLC evaluates and the proofs
of section 6 can speak about. A state of `Algorithms` is one call with its inputs, or a
stream of packets that grows by one per step.

## 3. Runs

| Run | Instance | Asks |
|---|---|---|
| `AckSafe` | 2 DM sends that share 1 packet id, 2 reports, generation 2 | the inductive invariants; waiters and verdicts over reuse, competing reports and a disconnect |
| `AckTurnover` | 1 send, 1 id, 2 reports, generation 3, fair | late reports over a reconnect, waiting sends are released, sends return |
| `TearTakeover` | 3 loops, 2 callers on two of them, 2 tasks, generation 3, 1 upset, fair | closes, take-overs, returns of callers |
| `TearStaleConnect` | 2 loops, generation 3, no upset | violation, see section 5 |
| `WorkerDrain` | 4 jobs, queue of 2, 2 cancels, fair | accepted work ends, closes run |
| `LinkWatch` | generation 3, 2 opens, 1 drop, 1 pause, fair | no leak, no double close, the loop keeps watch |
| `Outbound` | 1 call of 2 chunks of any kind, queue of 1, 2 drain attempts, 1 retry, a worker of 1 job, generation 3, 2 upsets, fair | the queue refines `Courier` and empties |
| `OutboundOrder` | the same with 3 chunks | nothing accepted is lost or doubled; order, bound and attempts |
| `OutboundRequeue` | the same | violation, see section 5 |
| `Solicited` | 2 calls, 2 keys, a clock of 2 to 3, stamps of 1 to 3, 2 packets, 1 link drop, fair | every waiter ends once, with a fresh answer; calls return |
| `Inbound` | 1 friend, 2 strangers, 3 packets, 2 menus, 4 of both, 2 lifecycles, queue of 1, 2 task slots, 2 relays an hour, 1 tracked sender | the inductive invariant; floods, limits, menus and a disconnect |
| `Algorithms` | texts up to 7 characters, 3 interfaces for a node and 2 for a channel, 3 packets over an overlay of 2 nodes, hosts up to 5 characters | what callers rely on |

What the properties of the passing runs say:

- **AckTracker.** `VInv` has the type, the lock discipline, the staging of early
  responses, that an unsettled waiter is always registered (`WaiterNeverOrphaned`), and
  what each name in the tracker stands for (section 6); after the sweep of a disconnect
  every waiting send has its result (`DisconnectSettlesWaiters`); a delivery rests on a
  report for that very send, or for one of its id that the tracker did not know when it
  tracked it, being in flight untracked or forgotten; no later send of the id and none
  whose token it held makes one, and a reused, poisoned id never reads as delivered
  (`DeliveredMeansHeard`; a waiter that was settled otherwise while its timer fired is
  excepted, section 5); an answer in the early window reaches its waiter
  (`NoVerdictLost`); a final verdict is final, also against a timeout (`SettledStays`)
  and over a reconnect (`NoPhantomDelivery`).
- **Teardown.** No interface is closed twice (`ClosedOnce`); a disconnect that
  settled in order left none open (`SettledMeansClosed`); an interface leaves the
  adapter's hands only by a close (`DetachedIsClosed`); a task that still moves
  while a lifecycle runs moves nothing of it (`LiveUntouched`); every caller on a
  loop that keeps running returns, unless the late reservation of the owner's loop
  has left the teardown stranded (`TakeoverReturns`; `Stranded`, section 5).
- **Transport.** No accepted job is left behind (`NoneStranded`), each settles
  (`JobsSettle`), a close that waits for the worker is run (`CloseRuns`).
- **Link.** `LinkInv`: an open interface has exactly one holder, a closed one none
  (`HeldOnce`), and a lifecycle that runs keeps its loop (`LoopWatches`); after a
  disconnect all interfaces get closed (`AllClosed`); a pause frees the radio
  (`PauseReleases`); a link that is wanted comes back (`LinkReturns`).
- **Outbound.** `QueueInv`: what was accepted and is neither sent nor given up is
  held once (`Accounted`), in the order of arrival (`OldestFirst`), within one over
  the bound (`Bounded`), where a message that a drain task of an ended lifecycle still
  held when the next one began (`late`) is excepted from the order, and each such
  task adds one to the bound; a chunk that left by its own send is not queued as well
  (`QueuedMeansUnsent`); the attempts of a message are limited, a teardown in the
  middle of a send adds one (`DrainBudget`); the queue does what `Courier` says
  (`KeepsPromise`) and empties while the adapter stays connected (`QueueEmpties`).
- **Solicited.** A call that waits can be answered (`NoDeafWaiter`); a call that is over
  has left the registry of waiters (`RegistryClean`; their times are another matter,
  `SolicitedLeft` in section 5); no call is answered by a packet that is stamped before
  it, by no more than the skew bound (`AnswerIsFresh`); a link drop reaches every waiter
  (`LossReachesAll`); calls return (`CallsReturn`).
- **Inbound.** A packet is dispatched in the lifecycle that heard it
  (`HeardInItsLife`); a tracked stranger is relayed at most `PerHour` times in an
  hour, whatever was refused or cancelled (`HourlyCap`); a dispatch finds a free
  slot, the gate's table agrees with the relays there were, and tasks and tracked
  senders stay within their limits (`IInv`; answers to menus pass the limit on tasks by,
  on purpose, and nothing bounds those, section 5); a number is taken for the answer to
  a menu only while the last menu its chat was shown stands, and picks from that menu
  (`NumbersAnswerMenus`); one notice at a time per stranger, spaced by the cooldown
  (`NoticeSpacing`), and its mark is never left behind by the relay that owes it
  (`InflightHasRelay`, a part of `IInv`).
- **Algorithms.** Chunks fit with their prefixes, agree on their number, cut no word
  they need not and together are the text (`ChunksRight`); a direct message goes out
  where its key is known and a channel message where the channel is the one named, and a
  hex id goes to its own node, or, where the database has no entry for the id, to one
  whose decimal number reads as it (`TargetsRight`); the overlay keeps the freshest
  nodes and their newest data (`FreshnessRight`); where the two read the same list the
  adapter and the gateway admit the same senders, where only the adapter has one it
  tells the gateway so, and what becomes of a packet follows from its sender
  (`IntakeRight`); a TCP key reads back as it was written (`RoundTrip`).

For each of them `PROJECT.json` names a mutant, a change to one definition that a
plausible slip in the code would make, under which TLC finds the property
violated. The mutated forms stand in the modules, marked as such.

### Bounds

Every bound is a constant. `MaxLifecycle` counts connects and disconnects
together (in `Inbound` connects only): 2 is one lifecycle and its end, 3 adds the
reconnect, which is where stale work can do harm. Two sends of one id give reuse
and collision, live and after the first has ended; two reports give a relay followed
by an ACK or NAK, or answers to two sends. `AckSafe` leaves the kind `far_ack` out: it
differs from `ack` only in that pubsub ignores it, and nothing makes pubsub take an
`ack` either. The prune evicts only where there is a
second id: `AckWide.cfg` has it (`RecordLimit` 1 makes it run on the second record),
passes in about three minutes, and is left out of the runs for its length; the
invariant `VInv`, eviction included, is proved for all constants (section 6). A second
turnover (generation 3) is not in `AckSafe` but in `AckTurnover`, for one send.

`TearTakeover` has three loops and two callers on two of them: the third may run the
lifecycle, so the loop of the teardown's task can stop while the waiting caller's runs.
That is what a stranded disconnect takes, and `TakeoverReturns` excepts it by name
(`Stranded`); `TearStranded.cfg` checks the return without the exception. `MaxUpsets` 1
stops a loop, which may then run again at any time, or cancels or breaks an owner:
enough for a take-over while the first owner is still there. Sequences of several upsets
are covered by the proofs, for any `MaxUpsets`. A teardown task that ended gives its
name back, so `Tasks` bounds those that are pending at once, not those ever made. A
queue of two with four jobs fills and drains. Two opens let a timed-out open and its
retry overlap.

Three chunks over a queue of one place evict while a drain task holds the third
(`OutboundOrder`; two chunks, for liveness and the refinement, in `Outbound`); two
attempts and one retry make every counter count and run out; two upsets are a failed
send and a link drop, in either order, around the turnover. One turnover lets two drain
tasks hold a message at a time; `OutboundWide.cfg` has two (`MaxLifecycle` 5) for two
plain chunks and passes in under two minutes.

In `Solicited` the second call asks for what the first one does, or for something else
(`Asks`; keys are alike). The clock starts at 2, ticks once and the skew bound is 1, so
that a packet may be stamped after a request, before it, and so long before that its
stamp is not compared. In `Inbound` the gate tracks one of two strangers, so that one
evicts the other; three packets are one more than the task slots and the hourly cap. Two
menus are opened, answered, expired, failed, cancelled, swept or replaced one by the
other. `MaxInputs` 4 counts both: two menus meet up to two packets, one meets three.
`InboundMenus.cfg` adds a second friend, so that the picker's limit
evicts a menu, over two packets and an hourly cap of 1, and passes. The constants of
`Algorithms` keep the relations of the real ones (section 6 proves the properties for
all of them): a character of three bytes, a room for bodies that numbers of one more
digit (`Radix` 2) make too small, a limit of six chunks that seven characters reach.

Deadlock is not checked: every bounded model stops when its bounds are used up,
and sends and callers end. That nothing which owes a step is stuck is what the
liveness properties say.

## 4. Fairness

Weak fairness is given to what a scheduler owes. A running loop runs its ready
callbacks (callers inside `disconnect`, posted callbacks, teardown tasks that can
pass, end or be cancelled; ended lifecycle tasks). The worker thread and the
close threads are scheduled and the library's calls return. `TakeoverReturns`
relies on the last for the close; the code bounds that wait by a timeout
(`_executor_shutdown_timeout`), which the model does not need. Timers of the ACK
wait are assumed to fire only in `SendsReturn`, whose premise `TimersFire` says
so; `DisconnectReleases` holds without. Nothing is owed by the radio, by
callers who may connect, pause or send, by loops that stop, or by `OpenTimesOut`,
and failing stages (`Breaks`) are never required.

Some liveness properties leave out what the code does not ensure: `CloseRuns` a
shutdown that met a full queue after a job was cancelled (`WorkerHangs.cfg` shows the
worker hang there), `AllClosed` an executor that never runs what it accepted (its
fairness excludes that). `LinkReturns` leaves out a run that has used up `MaxOpens`,
which is a limit of the model and none of the code.

`Outbound` gives weak fairness to the drain tasks, to the teardown's stages, to the
sends that have begun, to the workers and to the registration of an interface by
the reconnect loop (whose own liveness is `LinkReturns`); link drops and failures
are bounded upsets. `QueueEmpties` has as premise that the adapter stays connected.
`Solicited` gives it to the steps of a call, its timer included, because
`asyncio.wait_for` sets one for every wait, and to the worker; a call returns even if
whoever took its waiter never settles it. `Inbound` and `Algorithms` are checked for safety only.

## 5. Where the code and its words disagree

Each of these is a run in which TLC finds the stated property violated by the
model of the code as it is.

- `TearStaleConnect`: `connect` resumes from its target discovery and overwrites
  the task slots of a newer lifecycle (`adapter.py:1169`).
- `OutboundRequeue`: a drained send whose packet left reports a failure because its
  lifecycle is over, and the cancelled drain task puts the message back
  (`adapter.py:1577-1583`, `:2654-2670`): the next lifecycle sends it again.

Besides the wider instances of section 3, six more configurations are kept beside
the runs. Each shows one more interleaving the code allows, with
`tlc -config <name>.cfg <module>`:

- `AckFlagReadTwice` (`MCAckTracker`): `_track_pending_ack` reads `_running` at
  `ack_state.py:609` and again at `:490`; a disconnect in between makes a waited
  send return a record that is still pending.
- `AckStaleSend` (`MCAckTracker`): the staleness of a send is decided at
  `adapter.py:2645` and its record made at `:2672`; two turnovers in between
  register its waiter in the new lifecycle.
- `TearStranded` (`MCTeardown`): the owner's loop is reserved (`adapter.py:1696`)
  after the lock that announced the disconnect is released; a follower may have
  made the task by then, and when its loop stops nobody takes over.
- `WorkerHangs` (`MCTransport`): a cancelled job returns to the blocking `get` past
  the test for the end (`transport.py:256`), so a shutdown that met a full queue may
  never end the worker.
- `LinkPause` (`Link`): `_pause_expired` decides on a snapshot and then clears
  whatever pause is set (`adapter.py:1322`), an untimed one included.
- `SolicitedLeft` (`MCSolicited`): a packet older than a waiter that has been settled
  in the meantime puts the waiter's time back but not the waiter, and nothing removes
  it (`solicited.py:99-104`), where the docstring at `:154` says the registry can't
  grow.

What else the modelling met, each within what the properties above allow:

- The offline queue can hold one message over its limit, as an eviction does not see the
  item in the drain task's hand, and one more for each drain task that outlived its
  lifecycle: `_cancel_and_gather` (`adapter.py:1849-1862`) waits for the tasks of its
  own loop only, and `_queue_drain_task` may have been overwritten (`TearStaleConnect`).
  Two drain tasks may put their messages back in either order. A chunk sent directly
  after the link came back may overtake a queued chunk of the same text.
- Of two sends in flight that drew one packet id, each may be settled by the other's
  ACK as long as the tracker knows only one of them. A waiter that another thread
  settles while its timer fires reads the record of the id, whosever that is by then.
- `send` judges whether a message reached the radio by the id of its last chunk.
- A relay limit of 0 per hour refuses every message before the eviction that bounds
  `_forwards` (`forwarding.py:171-172`), so it grows by one entry per sender, where
  `forwarding.py:32` says a stream of ids cannot grow the maps. `TasksBounded`
  bounds that table for a limit of 1 or more only.
- Answers to menus pass the limit on message tasks by, "one short extra task"
  (`adapter.py:2015-2016`), and `adapter.py:2189-2190` relies on menus being used up. A
  number that is out of range keeps its menu (`model_picker.py:149-159`), so a
  stream of such numbers has as many tasks at a time as it has messages.
- A superscript digit passes `isdigit()` and makes `int()` raise in
  `model_picker.py:61-63`. A menu takes numbers before its text is sent
  (`adapter.py:2002` before `:2005`), and text that is only queued counts as sent. A
  failed menu send closes the chat's newer menu (`:2009`), one that is cancelled leaves
  its own. A menu opened between the teardown's clearing and the next `connect`
  survives, where the comment at `adapter.py:1779` says pickers must not.
- A packet stamped more than three hours before a request may answer it: the code takes
  such a clock for wrong and does not compare (`solicited.py:118-123`, `:131`).
- `resolve_dm_node` compares ids with their bangs stripped on both sides
  (`send_path.py:367-370`): eight decimal digits of a node number read as a hex id, and a
  hex id finds another node's decimal entry where its own is missing.
- Users listed in `MESHTASTIC_ALLOWED_USERS` or in the config's extra pass the adapter's
  gate (`adapter.py:461-467`), while the list the gateway reads is left without them
  (`:1030-1034`): it lets them in only if it trusts the `allowlist` that `_dm_policy`
  tells it of.
- `HourlyCap` is about tracked strangers: the count of one that the gate's table
  evicted begins anew.
- The chunk estimate (12 bytes for a prefix) may refuse a text that would have fit in
  the allowed number of chunks.

## 6. Proofs

All proofs are by an inductive invariant, and hold for every value of the constants
under the named assumptions (`AckAssumption`, `TeardownAssumption`,
`TransportAssumption`, `LinkAssumption`, `SolicitedAssumption`, `AsksAssumption`,
`OutboundAssumption`, `KindsAssumption`, `InboundAssumption`, `TaskAssumption`,
`GateAssumption`, `PickerAssumption`, `NoneIsNoPacket`, `FreshnessAssumption`,
`ChunkingAssumption`, `AlgorithmsAssumption`), which only type the constants, make
finite what the code counts, and keep `None`, the sentinel and the poison marker apart
from what they are compared with.
`NumberingAssumption` says more: that the floor of a chunk leaves room
for a body beside the longest prefix, and that no prefix is longer than the estimate
takes it for. With the code's constants (30 and 10 bytes, 60 chunks, a prefix of 8 of
the estimated 12) it holds.

**AckTracker** (`Invariance`, `TypeCorrect`, `NoOrphans`, `SettledByDisconnect`).
`WaiterNeverOrphaned` is not inductive. A response pops a waiter from the registry
and resolves its future only if the record was not final before, so the record of
an open waiter must not be final (`OpenNotDefinitive`). That holds when the waiter
is registered because the send holds the lock over an open record
(`LockHolder`, `TrackingOpen`); and that record cannot have been settled by an
early response, because until a live send is tracked its responses are staged
(`StagedUntilTracked`) and no stored response carries its token
(`TokensOfTracked`). `SweptNoWaiters` gives `DisconnectSettlesWaiters`. `AckSafe`
checks `IInv` as the first conjunct of `VInv`.

**Verdicts** (`VerdictInvariance`, `NothingMadeUp`, `NothingLost`, `VerdictsStay`,
`OnlyLiveDeliver`). A response carries a packet id, a send is a token, and the tracker's
dictionaries lead from one to the other; a verdict is right when they lead to the send
whose packet was answered. `VInv` says what they mean, for any number of sends that draw
the same id. Handlers, reports, staged responses and tokens are of sends that drew the
id in question (`NamesDrawn`, `KeysDrawn`), in the order of a call (`CallsInOrder`) and
in generations that fit (`LivesFit`, `UpgradeFits`). A poisoned id or a duplicate has
two sends behind it (`PoisonShared`), and an open waiter owns its id (`WaitersOwn`). For
a waited send that still owns its id, the handler serves nobody else
(`HandlerExclusive`), and what is staged, recorded, handed on for an upgrade or
delivered was caused by its own packet or by that of a send the tracker did not know of
when the waiter was registered (`Kin`; `Heeded`, `StagedOwn`, `RecordHeeded`,
`Deliveries`). `DeliveredMeansHeard` is the part of this a caller sees. A send that
shares its id with nobody gets one response by its handler (`OneAnswer`); until that is
recorded there is no verdict (`NoVerdictYet`), before the wait it is staged
(`AnswerStaged`, hence `NoVerdictLost`), and afterwards the record agrees with the
future or is gone (`VerdictKept`, hence `SettledStays` against a timeout that reads the
record last). A step is calm, brings an answer, moves a send on, or is the sweep of a
disconnect: `CalmKeeps`, `AnswerKeeps`, `MoveKeeps` and `SweepKeeps` carry the parts
over, and a lemma for each action shows of which kind it is. `RecordMove` says what a
step may do to a record, for the two action properties.

**Teardown** (`Invariance`, `TypeCorrect`, `NoSecondClose`,
`SettledLeavesNothing`, `DetachedReachesClose`). The epoch of a disconnect is the
newest generation and unsettled (`EpochNamed`), so a task with that completion is
current. What is in the map has not been closed (`AttachedOpen`), what was
detached or closed is of an earlier lifecycle (`DetachedPast`). A current task past
its claim knows all that was detached, and the map stays empty behind it
(`ClaimsComplete`); the close covers all of it or has not begun (`CloseDone`).
Most steps move none of the variables these speak of and take no task past a
gate: `CoreKept` deals with all of them at once. `DetachedReachesClose` adds that
only the end of a disconnect lets an interface go (`HeldUntilSettled`).
`LiveIsLeftAlone` (`LiveUntouched`): while a lifecycle runs no epoch is unsettled, so
no task passes a gate; all that is left to it is to give way, to break or to end, which
moves none of the lifecycle's state (`IdleMoves`).

**Transport** (`TypeCorrect`, `NoJobStranded`). From the moment the sentinel is
queued or the drain is flagged nothing is accepted (`ClosedBeforeStop`), so the
sentinel is last, a worker that exits leaves an empty queue (`ExitedEmpty`), and a
pending future is that of a queued job or of the one just taken
(`PendingSomewhere`).

**Link** (`Invariance`, `LinkSafe`). `LinkInv` has two halves. That an open interface
has one holder (`HeldOnce`) follows from `Custody`, which adds what is planned: an
open job that has not been built yet is for an interface no other job is for and
nobody holds. A step then stays, moves one interface from a holder to another,
closes one, builds one that was planned, plans one, or shifts a queue by one; a
lemma for each kind (`CustodyStays`, `CustodyMoves`, ...) shows that it keeps
`Custody`, and a lemma for each action that it is of its kind. `StageFits` and
`JobsFit` say which job a worker's stage belongs to. That the loop of a running
lifecycle does not end (`LoopWatches`) is harder, since it ends on an open that
brought nothing. `LoopFits` says that a loop finds such an answer only when its
lifecycle is over; the worker gives it only when it finds the map empty on its
second look, after it lost the race on the first. `OrphanFinds` says the map has
not been emptied in between while that loop waits: a loop empties it only of its own
lifecycle, and it waits; a disconnect ends the lifecycle; and a probe that could
do so is a job of the very worker that is closing its orphan (`ProbesLocal`, with
`Generations` for who is current).

**Solicited** (`Invariance`, `NeverDeaf`, `NothingStays`, `OnlyFreshAnswers`,
`EveryLossReaches`). A waiter is in the registry or with the one that has taken it,
never both (`TakenOnce`), and one that was settled was taken (`SettledGone`): so
nobody drops a waiter that nobody settles. A registered waiter is filed with the
time it was armed at (`FiledAt`), which `Keeps` compares a packet with, and the
packet being handed out is younger than all it is handed to (`TakenFresh`).

**Outbound** (`Invariance`, `QueueSafe`, `NotQueuedAfterSend`, `BudgetKept`,
`Refinement`). `QueueInv` speaks of every message, and a step moves one. So the
proof goes by moves: the queue stays, a message arrives (with the eviction of
the oldest), a drain task pulls one, puts one back, or is done with it (`Moves`), and
each part is shown for the five moves. As a teardown does not wait for every drain
task, several may have a message in hand. Of those that no connect has found so
there is one at most (`HeldOne`, from `Generations` and `Drains`): it belongs to the
running lifecycle or to the one being torn down. The order is shown for what they hold,
without the messages in `late`; the bound counts them and the others apart (`HeldFew`,
`strayed`); and both sets only grow (`Grows`). What hands hold is distinct
(`HandsApart`, `Contents`).
`Calls` and `Work` say who is in a send and for whom the worker's jobs
are. A call never comes back to a chunk it has passed (`Ahead`), so a message is
accepted once (`Arrivals`), and the queue with the hand before it is in the order of
acceptance (`Sorted`). A send that outlives its cancelled drain task has a message
nobody else will touch (`Orphans`). `Counts` has the tries, and one more for each
teardown. `Refinement` maps each step to one of `Courier` or to a stutter: a
message is given a fate only by its own arrival, pull, put-back or eviction, and what
leaves by the queue was accepted and not given up.

**Inbound** (`Invariance`, `OwnLife`, `CapHolds`, `NoticesSpaced`, `NoticesOwed`,
`FloodBounded`, `MenusAnswered`). `HeardInItsLife`: the queue is emptied with its
lifecycle and takes only packets of the one that runs (`QueueIsLive`). Each task and
each packet on its way is one that was heard (`Counted`), so a dispatch finds a free
slot. For `HourlyCap` the
gate's times are compared with the history of relays: the table holds the latest
ones, what it dropped is an hour old (`Recorded`, `Latest`), and a relay that is
refused for lack of a slot gives back the time that it took itself. The tables are
ordered, so each operation on one (store, drop the oldest, drop what expired) has
lemmas on the keys and values it leaves. A notice is owed only by a relay whose sender is
marked (`Marked`), and a mark is given once until it is cleared: so notices to one
sender never overlap (`NoticeSpacing`). A marked sender has the relay that owes it
(`InflightHasRelay`, a part of `IInv`). A chat has one pending menu at most, the last
it was shown, opened when that was (`MenusKept`): so a number is taken only by that menu
and picks from it (`NumbersAnswerMenus`).

**Algorithms** (`TextsAreCutRight`, `TargetsAreRight`,
`FreshnessIsRight`, `IntakeIsRight`, `KeysAreReadBack`). The state says only which
inputs a call may have (`Inputs`, the inductive invariant); the work is in the loops. As
the provers have no induction, it is derived: a set of numbers has a least element
(`Least`, from the well-foundedness of inclusion on an interval), so a set that has 0
and, with a number, the next one has them all (`Induction`), and a recursive function on
an interval is what its equation says (`Recursion`). What a loop has done after `i`
turns is then such a set.

- *Chunks.* A cut that starts later or has more room ends no earlier (`CutRises`), so
  more room never makes more parts (`MoreRoomNoMoreParts`): the estimate is an upper
  bound, as the comment at `chunking.py:50-54` claims (`EstimateIsABound`). A recount
  changes the number only if its digits change, and then only downwards; the
  number of digits falls with each change, so the rounds converge (`RoundsConverge`) and
  the non-convergence the comment at `chunking.py:67` provides for cannot happen while a
  message has at most 60 chunks. The parts cover the text and fit their rooms
  (`PartsJoin`, `NumberedIs`).
- *Targets.* `WalkIs` says what the walk holds after `i` interfaces: the first that
  has the key, or the first that knows the node without it and none that has it. A
  hex id is found under its own node wherever that is known (`OwnEntry`).
- *Freshness.* `OverlaySays` is an invariant of the stream: each entry is bounded by and
  equal to one of the times heard since its node came in, whose stay is the one
  interval that `JoinedOnce` singles out, and its signal is that of the last direct one
  of them. A step adds a packet to a stay or starts one (`StayGrows`, `OverlayStep`).
- *Intake.* An id is written in few forms (`FormsAre`); the normal form is one of those
  the expansion adds for its list entry (`PartIs`, `ExpandedIs`, `NormalFormIs`). So on
  one list the gates agree (`GatesAgree`), and the adapter's is the first of its three
  lists that says anything (`AllowedIs`). The ids are
  arbitrary; the number of bangs is at most two, as in the model.
- *Keys.* The brackets around a host and the first colon behind them part the key where
  it was joined (`AroundIs`, `Parted`, `HeadIs`); a port has no colon in it.

**Only model-checked.** The liveness properties (`DisconnectReleases`, `SendsReturn`,
`TakeoverReturns`, `JobsSettle`, `CloseRuns`, `AllClosed`, `PauseReleases`,
`LinkReturns`, `QueueEmpties`, `CallsReturn`), because the prover does not handle
fairness. Every other property of a passing run is a theorem.

## 7. Plan

Done: the modules of section 2, and a theorem for every safety property of a passing
run. What is left, the most useful first.

1. Abstract specifications: a verdict board that `AckTracker` implements (each send
   gets at most one final verdict), a disconnect as one atomic step that `Teardown`
   implements, a link held by one owner that `Link` implements.
2. The recovery of a failed link from a send, the reply ids of incoming packets and the
   slots of database writes, which the modules of their components leave out.

## 8. Not modelled

- **Not yet**: what the last item of section 7 lists.
- **Not planned**: the telemetry store (SQL statements over one table, each a
  transaction behind one connection lock: what could go wrong is in the database);
  the mesh tools (handlers without state that format the adapter's views or make
  one solicited request, which `Solicited` models); the mesh helpers (conversions of
  node records field by field, with nothing bounded, ordered or shared); schemas
  and registration (constant data); the mock interface and the scripts (not part of
  the running adapter); installation of the library and discovery of serial ports
  (the operating system's part).
- **Abstracted in what is modelled**: the wording of results and menus, backoff
  lengths, hop counts beyond "direct or not", the number of targets (one), logging
  and counters.
