-------------------------------- MODULE Inbound --------------------------------
(***************************************************************************)
(* The receive side of the adapter: what becomes of a text that a node     *)
(* sends.  The library's reader thread hands packets to the platform loop, *)
(* where a bounded queue and its consumer dispatch them: a stranger's text *)
(* may be relayed to the owner's node (ForwardGate), a number may answer a *)
(* /model menu (ModelPicker), any other text is the agent's.  What a       *)
(* dispatch starts is a message task of the platform loop, which a         *)
(* disconnect cancels.                                                     *)
(*                                                                         *)
(* A step of the platform loop runs up to its next await, so none          *)
(* interleaves with a dispatch; the reader thread, and a caller of         *)
(* disconnect() on another thread, do.  Packets without text (ACKs,        *)
(* telemetry, positions) are AckTracker's and Solicited's.  A teardown     *)
(* that another loop takes over is Teardown's.                             *)
(***************************************************************************)
EXTENDS Naturals, Sequences, FiniteSets, ForwardGate, ModelPicker

CONSTANTS
  Friends,       \* nodes that may talk to the agent
  Strangers,     \* nodes that may not
  MaxPackets,    \* bound on the texts that are heard
  MaxMenus,      \* bound on the menus that are opened
  MaxInputs,     \* bound on both together
  MaxLifecycle,  \* bound on connects
  MaxTime,       \* bound on the clock
  QueueMax,      \* INCOMING_QUEUE_MAXSIZE
  TaskLimit,     \* MESSAGE_TASK_LIMIT
  None

ASSUME InboundAssumption ==
  /\ Friends \cap Strangers = {}
  /\ {MaxPackets, MaxMenus, MaxInputs, MaxLifecycle, MaxTime, QueueMax, TaskLimit} \subseteq Nat
  /\ None \notin Nat

Slots == 1..MaxPackets
Texts   == {"words", "choice", "tooLarge", "cancel", "superscript"}

VARIABLES
  now,                \* the clock
  lid, running,       \* _lifecycle_id, _running
  teardown,           \* how far a disconnect has come
  heard,              \* how many packets have been heard
  calls,              \* packets whose callbacks are on their way to the platform loop
  queue,              \* _incoming_queue
  busy,               \* the packet that the consumer dispatches
  task,               \* the message tasks that have not ended
  doomed,             \* those that a disconnect has cancelled
  gate,               \* _forward_gate
  relayed,            \* history: when each sender's messages were relayed, since the
                      \* gate last began to track it
  pickers,            \* _model_picker's pending menus
  opened,             \* how many menus have been opened
  sending,            \* those whose text is being sent: pairs of a menu and its chat
  shown               \* history: the menu that each chat was last given, and since when
                      \* it stands; NoMenu once it was withdrawn, or answered for good

lifeVars == <<lid, running, teardown>>
rxVars   == <<heard, calls, queue>>
runVars  == <<task, doomed>>
gateVars == <<gate, relayed>>
menuVars == <<pickers, opened, sending, shown>>
vars == <<now, lifeVars, rxVars, busy, runVars, gateVars, menuVars>>

NoMenu == [menu |-> 0, since |-> 0]

Init ==
  /\ now = 0
  /\ lid = 0 /\ running = FALSE /\ teardown = "none"
  /\ heard = 0 /\ calls = << >> /\ queue = << >>
  /\ busy = None
  /\ task = [t \in Slots |-> None] /\ doomed = {}
  /\ gate = NewGate /\ relayed = [s \in Strangers |-> << >>]
  /\ pickers = << >> /\ opened = 0 /\ sending = {} /\ shown = [chat \in Friends |-> NoMenu]

Tick ==
  /\ now < MaxTime
  /\ now' = now + 1
  /\ UNCHANGED <<lifeVars, rxVars, busy, runVars, gateVars, menuVars>>

-----------------------------------------------------------------------------
(* The lifecycle.                                                          *)

Connect ==
  /\ ~running /\ teardown = "none" /\ lid < MaxLifecycle /\ busy = None
  /\ running' = TRUE /\ lid' = lid + 1
  /\ queue' = << >>
  /\ UNCHANGED <<now, teardown, heard, calls, busy, runVars, gateVars, menuVars>>

\* Any thread's disconnect() stops the lifecycle at once, and the teardown comes later.
Disconnect ==
  /\ running
  /\ running' = FALSE /\ teardown' = "claim"
  /\ UNCHANGED <<now, lid, rxVars, busy, runVars, gateVars, menuVars>>

Claim ==
  /\ teardown = "claim" /\ busy = None
  /\ teardown' = "tasks"
  /\ queue' = << >>
  /\ pickers' = << >> /\ shown' = [chat \in Friends |-> NoMenu]
  /\ UNCHANGED <<now, lid, running, heard, calls, busy, runVars, gateVars, opened, sending>>

Live == {t \in Slots : task[t] # None}

\* The message tasks are cancelled and forgotten, and awaited.  Each has had its first
\* step: it was due before the teardown's own, on the loop's queue of what is ready.
CancelTasks ==
  /\ teardown = "tasks" /\ \A t \in Live : task[t].at # "new"
  /\ teardown' = "gather"
  /\ doomed' = Live
  /\ UNCHANGED <<now, lid, running, rxVars, busy, task, gateVars, menuVars>>

Settle ==
  /\ teardown = "gather" /\ doomed = {}
  /\ teardown' = "none"
  /\ UNCHANGED <<now, lid, running, rxVars, busy, runVars, gateVars, menuVars>>

-----------------------------------------------------------------------------
(* From the radio to the consumer.                                         *)

\* The reader thread schedules the packet on the platform loop, for the queue it
\* saw: while the lifecycle runs its interface is attached.
Hear(sender, text) ==
  /\ running /\ heard < MaxPackets /\ heard + opened < MaxInputs
  /\ heard' = heard + 1
  /\ calls' = Append(calls, [sender |-> sender, text |-> text, life |-> lid])
  /\ UNCHANGED <<now, lifeVars, queue, busy, runVars, gateVars, menuVars>>

\* Mutant: the callback looks up the adapter's queue when it runs.
QueueThen(p) == teardown \in {"none", "claim"}

\* The callback is for the queue of the lifecycle that heard the packet: another's
\* consumer never sees it.
QueueOf(p) == p.life = lid /\ teardown \in {"none", "claim"}

\* A full queue sheds its oldest packet.
Enqueue ==
  /\ calls # << >> /\ busy = None
  /\ LET p == Head(calls)
         shed == IF Len(queue) >= QueueMax THEN Tail(queue) ELSE queue
     IN  queue' = IF QueueOf(p) THEN Append(shed, p) ELSE queue
  /\ calls' = Tail(calls)
  /\ UNCHANGED <<now, lifeVars, heard, busy, runVars, gateVars, menuVars>>

\* The consumer takes a packet while its lifecycle is the one that runs.
Take ==
  /\ queue # << >> /\ busy = None /\ running
  /\ busy' = Head(queue) /\ queue' = Tail(queue)
  /\ UNCHANGED <<now, lifeVars, heard, calls, runVars, gateVars, menuVars>>

-----------------------------------------------------------------------------
(* The dispatch.                                                           *)

\* The tasks in _message_tasks: those that a disconnect took are no longer there.
Tracked == Live \ doomed

\* Mutant: the limit is checked for the agent's tasks only.
AlwaysRoom == TRUE

\* A relay is a task like the agent's, and counts against the same limit.
RelayRoom == Cardinality(Tracked) < TaskLimit

Spawn(sender, kind, notice) ==
  LET free == CHOOSE t \in Slots \ Live : \A u \in Slots \ Live : t <= u
  IN  task' = [task EXCEPT ![free] = [sender |-> sender, kind |-> kind, at |-> "new",
                                      notice |-> notice]]

\* Mutant: a relay that was not spawned gives its slot back, and forgets its notice.
SlotOnly(g, sender, notice) == ForwardCancelled(g, sender)

\* A relay that was not spawned gives its slot, and its notice, back.
Refused(g, sender, notice) ==
  LET given == ForwardCancelled(g, sender)
  IN  IF notice THEN ReplyDone(given, sender, FALSE, now) ELSE given

\* _forward_unauthorized_dm.  What the gate no longer tracks, it does not limit.
RelayText(p) ==
  LET d == Decide(gate, p.sender, now)
      taken == d.forward /\ RelayRoom
  IN  /\ IF taken
         THEN Spawn(p.sender, "relay", d.notice) /\ gate' = d.gate
         ELSE /\ gate' = IF d.forward THEN Refused(d.gate, p.sender, d.notice) ELSE d.gate
              /\ UNCHANGED task
      /\ relayed' = [s \in Strangers |->
                       IF s \notin Keys(gate'.forwards) THEN << >>
                       ELSE IF s = p.sender /\ taken THEN Append(relayed[s], now)
                       ELSE relayed[s]]
      /\ UNCHANGED <<pickers, shown>>

\* Where a text leaves the menu that its chat was given: a choice of a provider asks
\* on, one of a model settles it, and any other text but a number ends it.
Standing(given, text, reply) ==
  IF text \in {"words", "cancel"} \/ reply = "picked" THEN NoMenu
  ELSE IF reply = "menu" THEN [given EXCEPT !.since = now] ELSE given

\* An authorised text answers the chat's menu or goes to the agent.  An answer is
\* not held to the limit; a digit that is no number makes the dispatch raise.
AgentText(p) ==
  LET a == Answer(pickers, p.sender, p.text, now)
  IN  /\ pickers' = a.pickers
      /\ shown' = [shown EXCEPT ![p.sender] = Standing(@, p.text, a.reply)]
      /\ CASE a.reply = "raises" -> UNCHANGED task
           [] a.reply = "no" -> IF Cardinality(Tracked) < TaskLimit
                                THEN Spawn(p.sender, "agent", FALSE) ELSE UNCHANGED task
           [] OTHER -> Spawn(p.sender, "pick", FALSE)
      /\ UNCHANGED gateVars

Dispatch ==
  /\ busy # None
  /\ busy' = None
  /\ IF busy.sender \in Strangers THEN RelayText(busy) ELSE AgentText(busy)
  /\ UNCHANGED <<now, lifeVars, rxVars, doomed, opened, sending>>

-----------------------------------------------------------------------------
(* The message tasks.                                                      *)

Goes(t, at) == task' = [task EXCEPT ![t].at = at]

Ends(t) == task' = [task EXCEPT ![t] = None]

Runs(t) == busy = None /\ t \in Tracked

Start(t) ==
  /\ Runs(t) /\ task[t].at = "new"
  /\ Goes(t, "sending")
  /\ UNCHANGED <<now, lifeVars, rxVars, busy, doomed, gateVars, menuVars>>

\* The agent's turn, a pick and its answer, a relay without a notice.
Finish(t) ==
  /\ Runs(t) /\ task[t].at = "sending" /\ ~task[t].notice
  /\ Ends(t)
  /\ UNCHANGED <<now, lifeVars, rxVars, busy, doomed, gateVars, menuVars>>

\* The notice goes out only when the forward has reached the radio: neither when
\* it failed nor when it was queued.
Forwarded(t) ==
  /\ Runs(t) /\ task[t].at = "sending" /\ task[t].notice
  /\ \/ Goes(t, "notifying") /\ UNCHANGED gate
     \/ Ends(t) /\ gate' = ReplyDone(gate, task[t].sender, FALSE, now)
  /\ UNCHANGED <<now, lifeVars, rxVars, busy, doomed, relayed, menuVars>>

Notified(t) ==
  /\ Runs(t) /\ task[t].at = "notifying"
  /\ Ends(t)
  /\ \E delivered \in BOOLEAN : gate' = ReplyDone(gate, task[t].sender, delivered, now)
  /\ UNCHANGED <<now, lifeVars, rxVars, busy, doomed, relayed, menuVars>>

\* A cancelled task ends, and its finally block closes the notice that it owes.
Cancelled(t) ==
  /\ busy = None /\ t \in doomed
  /\ Ends(t) /\ doomed' = doomed \ {t}
  /\ gate' = IF task[t].notice
             THEN ReplyDone(gate, task[t].sender, FALSE, now) ELSE gate
  /\ UNCHANGED <<now, lifeVars, rxVars, busy, relayed, menuVars>>

-----------------------------------------------------------------------------
(* The gateway opens a menu in a chat (send_model_picker).                 *)

OpenMenu(chat) ==
  /\ lid > 0 /\ opened < MaxMenus /\ heard + opened < MaxInputs /\ busy = None
  /\ opened' = opened + 1
  /\ \E single \in BOOLEAN : pickers' = Open(pickers, chat, opened', single, now)
  /\ sending' = sending \cup {[menu |-> opened', chat |-> chat]}
  /\ shown' = [shown EXCEPT ![chat] = [menu |-> opened', since |-> now]]
  /\ UNCHANGED <<now, lifeVars, rxVars, busy, runVars, gateVars>>

\* Nothing to pick from: the older menu is closed all the same.
OpenNone(chat) ==
  /\ lid > 0 /\ Pending(pickers, chat) # {} /\ busy = None
  /\ pickers' = Without(pickers, chat)
  /\ shown' = [shown EXCEPT ![chat] = NoMenu]
  /\ UNCHANGED <<now, lifeVars, rxVars, busy, runVars, gateVars, opened, sending>>

\* The send succeeds, which a queued text does too, or it is cancelled in its await:
\* either way the menu stays.
MenuStays(m) ==
  /\ busy = None /\ m \in sending
  /\ sending' = sending \ {m}
  /\ UNCHANGED <<now, lifeVars, rxVars, busy, runVars, gateVars, pickers, opened, shown>>

\* Mutant: a menu that could not be sent stays open.
StaysOpen(m) == pickers

\* The menu of a chat is closed when its text could not be sent, whichever it is.
AfterFailure(m) == Without(pickers, m.chat)

\* The gateway falls back to its list of text: the menu that failed is withdrawn.
MenuFails(m) ==
  /\ busy = None /\ m \in sending
  /\ sending' = sending \ {m}
  /\ pickers' = AfterFailure(m)
  /\ shown' = [shown EXCEPT ![m.chat] = IF @.menu = m.menu THEN NoMenu ELSE @]
  /\ UNCHANGED <<now, lifeVars, rxVars, busy, runVars, gateVars, opened>>

-----------------------------------------------------------------------------
TaskStep(t) == Start(t) \/ Finish(t) \/ Forwarded(t) \/ Notified(t) \/ Cancelled(t)

Next ==
  \/ Tick \/ Connect \/ Disconnect \/ Claim \/ CancelTasks \/ Settle
  \/ Enqueue \/ Take \/ Dispatch
  \/ \E s \in Friends, text \in Texts : Hear(s, text)
  \/ \E s \in Strangers : Hear(s, "words")
  \/ \E t \in Slots : TaskStep(t)
  \/ \E chat \in Friends : OpenMenu(chat) \/ OpenNone(chat)
  \/ \E m \in sending : MenuStays(m) \/ MenuFails(m)

Spec == Init /\ [][Next]_vars

-----------------------------------------------------------------------------
(* Properties.                                                             *)

Packets == [sender : Friends \cup Strangers, text : Texts, life : 1..MaxLifecycle]

MessageTasks ==
  {m \in [sender : Friends \cup Strangers, kind : {"agent", "relay", "pick"},
          at : {"new", "sending", "notifying"}, notice : BOOLEAN] : m.at = "notifying" => m.notice}

ASSUME TaskAssumption == None \notin MessageTasks

Menus == [chat : Friends, request : 1..MaxMenus, step : {"provider", "model"},
          expires : Nat]

\* An OrderedDict has an entry for a key at most once.
IsDict(dict, values) ==
  /\ dict \in Seq([key : Strangers, value : values])
  /\ \A i, j \in DOMAIN dict : dict[i].key = dict[j].key => i = j

IsGate(g) ==
  /\ g \in [forwards  : Seq([key : Strangers, value : Seq(0..MaxTime)]),
            lastReply : Seq([key : Strangers, value : 0..MaxTime]),
            inflight  : SUBSET Strangers]
  /\ IsDict(g.forwards, Seq(0..MaxTime)) /\ IsDict(g.lastReply, 0..MaxTime)

TypeOK ==
  /\ now \in 0..MaxTime /\ lid \in 0..MaxLifecycle /\ running \in BOOLEAN
  /\ teardown \in {"none", "claim", "tasks", "gather"}
  /\ running => lid > 0 /\ teardown = "none"
  /\ heard \in 0..MaxPackets
  /\ calls \in Seq(Packets) /\ queue \in Seq(Packets) /\ busy \in Packets \cup {None}
  /\ task \in [Slots -> MessageTasks \cup {None}] /\ doomed \subseteq Live
  /\ IsGate(gate) /\ relayed \in [Strangers -> Seq(0..MaxTime)]
  /\ pickers \in Seq(Menus) /\ opened \in 0..MaxMenus
  /\ sending \subseteq [menu : 1..opened, chat : Friends]
  /\ shown \in [Friends -> [menu : 0..opened, since : 0..MaxTime]]

\* A packet is dispatched in the lifecycle that heard it: one that waited on its
\* way to the platform loop through a disconnect and a connect is not.
HeardInItsLife == busy # None => busy.life = lid

\* A stranger that the gate tracks is relayed at most PerHour times in any hour,
\* whatever tasks were refused or cancelled in between.
HourlyCap ==
  \A s \in Strangers :
    Cardinality({i \in DOMAIN relayed[s] : now - relayed[s][i] < Hour}) <= PerHour

\* One notice at a time is on its way to a stranger, though several of its messages
\* may be on theirs to the owner, and none within the cooldown of one it confirmed.
NoticeSpacing ==
  \A t \in Live : task[t].notice =>
    LET s == task[t].sender
    IN  /\ \A u \in Live \ {t} : ~(task[u].notice /\ task[u].sender = s)
        /\ s \in Keys(gate.lastReply) => now - Get(gate.lastReply, s, 0) >= Cooldown

\* The relays and the agent's turns of a flood stay within the limit.  Answers to
\* menus pass it by, on purpose, and nothing bounds them: a number that is too large
\* keeps its menu, and the next one starts another task.  The senders the gate tracks
\* stay within theirs; only with a cap of 0, which decide() applies before it trims,
\* are those it declined kept.
TasksBounded ==
  /\ Cardinality({t \in Tracked : task[t].kind # "pick"}) <= TaskLimit
  /\ PerHour > 0 => Len(gate.forwards) <= SenderLimit
  /\ Len(gate.lastReply) <= SenderLimit

\* Until a notice is settled one is in flight at a time, says decide, and the next
\* forwarded message gets another try.  So a notice in flight has a relay that will
\* settle it, and no sender waits for its notice for ever.
InflightHasRelay ==
  \A s \in gate.inflight : \E t \in Live :
    task[t].kind = "relay" /\ task[t].notice /\ task[t].sender = s

\* A number is taken for an answer only to the menu that its chat was given last, less
\* than the deadline after it was given or asked on; not to one that was replaced, whose
\* text failed, that another answer ended, or that a teardown cleared.
Answerable(chat) ==
  /\ now - shown[chat].since < TTL
  /\ \E picker \in Pending(pickers, chat) : picker.request = shown[chat].menu

NumbersAnswerMenus ==
  [][\A t \in Slots : task[t] = None /\ task'[t] # None /\ task'[t].kind = "pick"
       => Answerable(task'[t].sender)]_vars

(* The inductive invariant: the properties above, with what each rests on.  *)

\* What waits for the consumer was heard in the lifecycle that runs, or ran last.
QueueIsLive == \A i \in DOMAIN queue : queue[i].life = lid

\* Each task, and each packet on its way, is a packet that was heard: a dispatch
\* finds a free slot for its task.
Counted ==
  Cardinality(Live) + Len(calls) + Len(queue) + (IF busy = None THEN 0 ELSE 1) <= heard

\* Some times are the latest relays, and at t those before them are an hour old.
Latest(times, relays, t) ==
  LET dropped == Len(relays) - Len(times)
  IN  /\ dropped >= 0
      /\ \A i \in 1..Len(times) : times[i] = relays[dropped + i]
      /\ \A i \in 1..dropped : t - relays[i] >= Hour

\* The gate holds the latest relays of a sender it tracks, as many as count.
Recorded ==
  \A s \in Strangers :
    /\ s \notin Keys(gate.forwards) => relayed[s] = << >>
    /\ Len(Get(gate.forwards, s, << >>)) <= PerHour
    /\ Latest(Get(gate.forwards, s, << >>), relayed[s], now)

\* A task that owes a notice has it marked in the gate.
Marked == \A t \in Live : task[t].notice =>
            /\ task[t].kind = "relay" /\ task[t].sender \in gate.inflight

\* A chat has one menu at most, the one that it was shown last, and the menu's time
\* runs from when it was shown, or led on to its models.
MenusKept ==
  /\ \A i, j \in DOMAIN pickers : pickers[i].chat = pickers[j].chat => i = j
  /\ \A i \in DOMAIN pickers :
       /\ pickers[i].request = shown[pickers[i].chat].menu
       /\ pickers[i].expires = shown[pickers[i].chat].since + TTL

IInv ==
  /\ TypeOK
  /\ QueueIsLive /\ HeardInItsLife
  /\ Counted /\ TasksBounded
  /\ Recorded
  /\ Marked /\ NoticeSpacing /\ InflightHasRelay
  /\ MenusKept
================================================================================
