-------------------------------- MODULE Outbound --------------------------------
(***************************************************************************)
(* The outbound text path of the adapter (adapter.py): send() with its     *)
(* chunks and retries, the offline queue a chunk goes to while no          *)
(* interface is there, the drain task that empties the queue, and the      *)
(* teardown that cancels the drain task while its send may be in the       *)
(* transport worker.                                                       *)
(*                                                                         *)
(* An action is what one task or thread runs between two awaits.           *)
(* Lifecycles are named by their _lifecycle_id, a drain task and a         *)
(* transport worker by the lifecycle that started them.  The ACK           *)
(* bookkeeping of a send is module AckTracker's; here a send that waits    *)
(* for its ACK just gets a verdict.                                        *)
(***************************************************************************)
EXTENDS Integers, Sequences, FiniteSets

CONSTANTS
  Senders,        \* calls of send()
  Kinds,          \* what each call may be: "plain", "noQueue" (allow_queueing
                  \* is false), "ack" (a direct message that waits for its ACK)
  Chunks,         \* the chunks of each call's text
  Keyless,        \* calls whose recipient may turn out to have no public key
  QueueMax,       \* OUTBOUND_QUEUE_MAXSIZE
  DrainMax,       \* DRAIN_MAX_ATTEMPTS
  Retries,        \* MESHTASTIC_SEND_RETRIES
  WorkerRoom,     \* jobs a transport worker holds before it is busy
  MaxLifecycle,   \* bound: connects and disconnects stop at this generation
  MaxUpsets       \* bound: link drops, failed sends, unanswered ACK waits

ASSUME OutboundAssumption ==
  /\ Kinds \in [Senders -> SUBSET {"plain", "noQueue", "ack"}]
  /\ Chunks \in [Senders -> Nat \ {0}]
  /\ Keyless \subseteq Senders
  /\ {QueueMax, DrainMax, WorkerRoom} \subseteq Nat \ {0}
  /\ {Retries, MaxLifecycle, MaxUpsets} \subseteq Nat
  /\ Senders \cap (1..MaxLifecycle) = {}

Lids == 1..MaxLifecycle
Actors == Senders \cup Lids          \* whoever runs _send_immediate
Messages == UNION {{s} \X (1..Chunks[s]) : s \in Senders}

VARIABLES
  running, lid,     \* _running, _lifecycle_id
  phase,            \* of a disconnect: "none", "claim", "gather", "close"
  executor,         \* _transport_executor, by the lifecycle that created it
  iface,            \* an interface is registered
  queue,            \* _outbound_queue: messages with the attempts made so far
  spc, kind, idx, attempt,  \* of each send(): where it is, its chunk and try
  unsendable,       \* calls whose recipient has no public key
  tpc, tlid, reply, \* of each _send_immediate: where it is, the lifecycle it
                    \* captured, what the worker and then it answered
  jobs, sending,    \* per worker: its queue, and whether its head is in sendText
  dpc, hand,        \* of each drain task: where it is, the item it popped
  slot,             \* _queue_drain_task, by its lifecycle (0: None)
  cancels, awaited, \* drain tasks with a cancel posted to their loop; those the
                    \* teardown waits for
  fate, accepted,   \* history: what became of a queued message; the order in
                    \* which messages were queued
  direct, drained,  \* history: packets that left for a message, by its sender
                    \* and by the drain task
  strayed, late,    \* history: drain tasks that still held a message when the
                    \* next connect came, and those messages
  upsets

lifeVars == <<running, lid, phase, executor, iface>>
sendVars == <<spc, kind, idx, attempt, unsendable>>
callVars == <<tpc, tlid, reply>>
jobVars  == <<jobs, sending>>
drainVars == <<dpc, hand, slot, cancels, awaited>>
histVars == <<fate, accepted, direct, drained, strayed, late>>
vars == <<lifeVars, queue, sendVars, callVars, jobVars, drainVars, histVars, upsets>>

Active(l) == running /\ lid = l
Message(s) == <<s, idx[s]>>

\* The drain tasks that have taken a message out of the queue.
Held == {d \in Lids : dpc[d] \in {"sending", "cancelled"}}
Upset == upsets < MaxUpsets /\ upsets' = upsets + 1

Init ==
  /\ running = FALSE /\ lid = 0 /\ phase = "none" /\ executor = 0 /\ iface = FALSE
  /\ queue = <<>>
  /\ spc = [s \in Senders |-> "chunk"]
  /\ kind \in [Senders -> {"plain", "noQueue", "ack"}]
  /\ \A s \in Senders : kind[s] \in Kinds[s]
  /\ unsendable \in SUBSET Keyless
  /\ idx = [s \in Senders |-> 1] /\ attempt = [s \in Senders |-> 1]
  /\ tpc = [a \in Actors |-> "idle"] /\ tlid = [a \in Actors |-> 0]
  /\ reply = [a \in Actors |-> "none"]
  /\ jobs = [l \in Lids |-> <<>>] /\ sending = [l \in Lids |-> FALSE]
  /\ dpc = [l \in Lids |-> "none"] /\ hand = [l \in Lids |-> <<>>]
  /\ slot = 0 /\ cancels = {} /\ awaited = {} /\ strayed = {} /\ late = {}
  /\ fate = [m \in Messages |-> "new"] /\ accepted = <<>>
  /\ direct = [m \in Messages |-> 0] /\ drained = [m \in Messages |-> 0]
  /\ upsets = 0

-----------------------------------------------------------------------------
(* Lifecycles and the link.                                                *)

Connect ==
  /\ ~running /\ phase = "none" /\ lid < MaxLifecycle
  /\ running' = TRUE /\ lid' = lid + 1
  /\ executor' = IF executor = 0 THEN lid' ELSE executor
  /\ dpc' = [dpc EXCEPT ![lid'] = "starting"]
  /\ strayed' = strayed \cup Held /\ late' = late \cup {hand[d].m : d \in Held}
  /\ UNCHANGED <<phase, iface, queue, sendVars, callVars, jobVars, hand, slot, cancels,
                 awaited, fate, accepted, direct, drained, upsets>>

\* The targets are known: the drain task starts.  A connect that is not the
\* current one any more takes the slot all the same.
StartDrain(d) ==
  /\ dpc[d] = "starting"
  /\ dpc' = [dpc EXCEPT ![d] = "loop"]
  /\ slot' = d
  /\ UNCHANGED <<lifeVars, queue, sendVars, callVars, jobVars, hand, cancels, awaited,
                 histVars, upsets>>

Register ==
  /\ Active(lid) /\ ~iface
  /\ iface' = TRUE
  /\ UNCHANGED <<running, lid, phase, executor, queue, sendVars, callVars, jobVars,
                 drainVars, histVars, upsets>>

LinkDrops ==
  /\ iface /\ Upset
  /\ iface' = FALSE
  /\ UNCHANGED <<running, lid, phase, executor, queue, sendVars, callVars, jobVars,
                 drainVars, histVars>>

Disconnect ==
  /\ running /\ lid < MaxLifecycle
  /\ running' = FALSE /\ lid' = lid + 1 /\ phase' = "claim"
  /\ UNCHANGED <<executor, iface, queue, sendVars, callVars, jobVars, drainVars, histVars,
                 upsets>>

\* A cancelled drain task: asleep it ends, in a send it waits for the result.
Struck(d) == CASE dpc[d] = "loop"    -> "none"
               [] dpc[d] = "sending" -> "cancelled"
               [] OTHER              -> dpc[d]

\* Teardown detaches the interface and cancels the drain task in the slot: on its
\* own loop at once, on another by a callback, and then it does not wait for it.
Claim ==
  /\ phase = "claim"
  /\ phase' = "gather" /\ iface' = FALSE /\ slot' = 0
  /\ \/ /\ dpc' = [d \in Lids |-> IF d = slot THEN Struck(d) ELSE dpc[d]]
        /\ awaited' = {d \in Lids : d = slot /\ dpc[d] = "sending"} /\ UNCHANGED cancels
     \/ /\ cancels' = cancels \cup {d \in Lids : d = slot /\ dpc[d] # "none"}
        /\ UNCHANGED <<dpc, awaited>>
  /\ UNCHANGED <<running, lid, executor, queue, sendVars, callVars, jobVars, hand, histVars,
                 upsets>>

\* Its owner is cancelled, or its loop stops, in the wait: the gather cancels what
\* it waits for, and the next owner finds the slot empty.
TakeOver ==
  /\ phase = "gather" /\ \E d \in awaited : dpc[d] = "cancelled"
  /\ cancels' = cancels \cup awaited
  /\ awaited' = {}
  /\ UNCHANGED <<lifeVars, queue, sendVars, callVars, jobVars, dpc, hand, slot, histVars,
                 upsets>>

\* _cancel_and_gather has waited for the tasks of the teardown's own loop.
Gathered ==
  /\ phase = "gather" /\ \A d \in awaited : dpc[d] = "none"
  /\ phase' = "close" /\ awaited' = {}
  /\ UNCHANGED <<running, lid, executor, iface, queue, sendVars, callVars, jobVars,
                 dpc, hand, slot, cancels, histVars, upsets>>

\* The wait for the worker is bounded: it may keep its jobs past this.
Close ==
  /\ phase = "close"
  /\ phase' = "none" /\ executor' = 0
  /\ UNCHANGED <<running, lid, iface, queue, sendVars, callVars, jobVars, drainVars,
                 histVars, upsets>>

-----------------------------------------------------------------------------
(* The queue.                                                              *)

\* Mutant: the bound is checked as if the new item were already in.
FullWithIt == Len(queue) > QueueMax

Full == Len(queue) >= QueueMax

\* Oldest-first eviction, then the new item.
Enqueue(m) ==
  /\ queue' = Append(IF Full THEN Tail(queue) ELSE queue, [m |-> m, tries |-> 0])
  /\ fate' = IF Full THEN [fate EXCEPT ![m] = "queued", ![Head(queue).m] = "evicted"]
                     ELSE [fate EXCEPT ![m] = "queued"]
  /\ accepted' = Append(accepted, m)

\* Mutants: a failed message goes to the end of the queue; it is forgotten.
PutLast(item) == queue' = Append(queue, item)
Forget(item) == UNCHANGED queue

PutBack(item) == queue' = <<item>> \o queue

\* drain_retry_decision: only a transient failure deserves another attempt.
Transient(answer) == answer \in {"noIface", "failed"}
\* Mutants: no end of attempts, whatever the failure; a send that raised counts as
\* delivered.
DrainsForEver(answer, tries) == TRUE
SeemsDelivered(answer) == answer \in {"sent", "failed"}

Delivered(answer) == answer = "sent"
DrainsAgain(answer, tries) == Transient(answer) /\ tries < DrainMax

-----------------------------------------------------------------------------
(* _send_immediate and the transport worker.                               *)

HasRoom == executor # 0 /\ Len(jobs[executor]) < WorkerRoom

\* Captures executor and lifecycle and submits the job; no worker, or one with
\* no room, is "no interface".
Begin(a) ==
  /\ tpc[a] = "begin"
  /\ tpc' = [tpc EXCEPT ![a] = "await"]
  /\ tlid' = [tlid EXCEPT ![a] = lid]
  /\ \/ /\ HasRoom
        /\ jobs' = [jobs EXCEPT ![executor] = Append(@, a)]
        /\ reply' = [reply EXCEPT ![a] = "none"]
     \/ /\ ~HasRoom
        /\ reply' = [reply EXCEPT ![a] = "noIface"]
        /\ UNCHANGED jobs
  /\ UNCHANGED <<lifeVars, queue, sendVars, sending, drainVars, histVars, upsets>>

Answer(w, answer) ==
  /\ reply' = [reply EXCEPT ![Head(jobs[w])] = answer]
  /\ jobs' = [jobs EXCEPT ![w] = Tail(@)]
  /\ sending' = [sending EXCEPT ![w] = FALSE]

CallOf(a) == IF a \in Senders THEN Message(a) ELSE hand[a].m
MaySend(a) == Active(tlid[a]) /\ iface

\* _send_text_serialized up to sendText, under _iface_lock.
Take(w) ==
  /\ jobs[w] # <<>> /\ ~sending[w]
  /\ LET a == Head(jobs[w])
     IN  \/ /\ ~MaySend(a)
            /\ Answer(w, "noIface")
         \/ /\ MaySend(a) /\ CallOf(a)[1] \in unsendable
            /\ Answer(w, "permanent")
         \/ /\ MaySend(a) /\ CallOf(a)[1] \notin unsendable
            /\ sending' = [sending EXCEPT ![w] = TRUE]
            /\ UNCHANGED <<jobs, reply>>
  /\ UNCHANGED <<lifeVars, queue, sendVars, tpc, tlid, drainVars, histVars, upsets>>

Leaves(a) ==
  IF a \in Senders
  THEN direct' = [direct EXCEPT ![Message(a)] = @ + 1] /\ UNCHANGED drained
  ELSE drained' = [drained EXCEPT ![hand[a].m] = @ + 1] /\ UNCHANGED direct

\* sendText puts the packet on the air, or raises before or after it did.
SendText(w) ==
  /\ sending[w]
  /\ \/ Leaves(Head(jobs[w])) /\ Answer(w, "sent") /\ UNCHANGED upsets
     \/ Leaves(Head(jobs[w])) /\ Answer(w, "failed") /\ Upset
     \/ Answer(w, "failed") /\ Upset /\ UNCHANGED <<direct, drained>>
  /\ UNCHANGED <<lifeVars, queue, sendVars, tpc, tlid, drainVars, fate, accepted, strayed,
                 late>>

\* What _send_immediate makes of the worker's answer when it resumes: a packet
\* sent for a lifecycle that has ended is a failure.
Outcome(a) == IF reply[a] = "sent" /\ ~Active(tlid[a]) THEN "stale" ELSE reply[a]

Answered(a) == tpc[a] = "await" /\ reply[a] # "none"

-----------------------------------------------------------------------------
(* send().                                                                 *)

\* Only a call that waits for its ACK is ever retried.
Attempts(s) == IF kind[s] = "ack" THEN Retries + 1 ELSE 1

NextChunk(s) ==
  IF idx[s] < Chunks[s]
  THEN /\ idx' = [idx EXCEPT ![s] = @ + 1]
       /\ attempt' = [attempt EXCEPT ![s] = 1]
       /\ spc' = [spc EXCEPT ![s] = "chunk"]
  ELSE spc' = [spc EXCEPT ![s] = "sent"] /\ UNCHANGED <<idx, attempt>>

\* The chunk failed: again, or the rest of the message is given up.
ChunkFails(s, retriable) ==
  /\ IF retriable /\ attempt[s] < Attempts(s)
     THEN /\ attempt' = [attempt EXCEPT ![s] = @ + 1]
          /\ spc' = [spc EXCEPT ![s] = "chunk"]
     ELSE spc' = [spc EXCEPT ![s] = "failed"] /\ UNCHANGED attempt
  /\ UNCHANGED idx

\* The fast path of _send_chunk found an interface.
SendChunk(s) ==
  /\ spc[s] = "chunk" /\ iface
  /\ spc' = [spc EXCEPT ![s] = "sending"]
  /\ tpc' = [tpc EXCEPT ![s] = "begin"]
  /\ UNCHANGED <<lifeVars, queue, kind, idx, attempt, unsendable, tlid, reply, jobVars,
                 drainVars, histVars, upsets>>

\* It found none: the chunk is queued, or refused to who must not queue.
QueueChunk(s) ==
  /\ spc[s] = "chunk" /\ ~iface
  /\ \/ kind[s] = "plain" /\ Enqueue(Message(s)) /\ NextChunk(s)
     \/ kind[s] # "plain" /\ ChunkFails(s, kind[s] = "ack") /\ UNCHANGED <<queue, fate, accepted>>
  /\ UNCHANGED <<lifeVars, kind, unsendable, callVars, jobVars, drainVars, direct, drained,
                 strayed, late, upsets>>

\* Mutant: any transient failure of a plain chunk queues it.
MayQueueFailed(s, outcome) == Transient(outcome) /\ kind[s] = "plain"

\* Only "no interface" says that nothing went out.
MayQueue(s, outcome) == outcome = "noIface" /\ kind[s] = "plain"

SendReturns(s) ==
  /\ spc[s] = "sending" /\ Answered(s)
  /\ tpc' = [tpc EXCEPT ![s] = "idle"]
  /\ reply' = [reply EXCEPT ![s] = "none"]
  /\ tlid' = [tlid EXCEPT ![s] = IF Outcome(s) = "sent" /\ kind[s] = "ack" THEN @ ELSE 0]
  /\ LET outcome == Outcome(s)
     IN  \/ /\ outcome = "sent" /\ kind[s] # "ack"
            /\ NextChunk(s) /\ UNCHANGED <<queue, fate, accepted>>
         \/ /\ outcome = "sent" /\ kind[s] = "ack"
            /\ spc' = [spc EXCEPT ![s] = "acking"]
            /\ UNCHANGED <<idx, attempt, queue, fate, accepted>>
         \/ /\ outcome # "sent" /\ MayQueue(s, outcome)
            /\ Enqueue(Message(s)) /\ NextChunk(s)
         \/ /\ outcome # "sent" /\ ~MayQueue(s, outcome)
            /\ ChunkFails(s, Transient(outcome)) /\ UNCHANGED <<queue, fate, accepted>>
  /\ UNCHANGED <<lifeVars, kind, unsendable, jobVars, drainVars, direct, drained, strayed,
                 late, upsets>>

\* The verdict on a chunk whose ACK is awaited: delivered; no ACK or a NAK,
\* which may forbid a retry; or the link was torn down.
AckVerdict(s) ==
  /\ spc[s] = "acking"
  /\ \/ Active(tlid[s]) /\ NextChunk(s) /\ UNCHANGED upsets
     \/ Active(tlid[s]) /\ Upset /\ \E retriable \in BOOLEAN : ChunkFails(s, retriable)
     \/ ~Active(tlid[s]) /\ ChunkFails(s, FALSE) /\ UNCHANGED upsets
  /\ UNCHANGED <<lifeVars, queue, kind, unsendable, callVars, jobVars, drainVars, histVars>>

-----------------------------------------------------------------------------
(* The drain task of lifecycle d.                                          *)

DrainTakes(d) ==
  /\ dpc[d] = "loop" /\ Active(d) /\ iface /\ queue # <<>>
  /\ dpc' = [dpc EXCEPT ![d] = "sending"]
  /\ hand' = [hand EXCEPT ![d] = Head(queue)]
  /\ queue' = Tail(queue)
  /\ tpc' = [tpc EXCEPT ![d] = "begin"]
  /\ UNCHANGED <<lifeVars, sendVars, tlid, reply, jobVars, slot, cancels, awaited, histVars,
                 upsets>>

\* The shielded send task is a task of its own.
SendTaskEnds(d) ==
  /\ Answered(d)
  /\ tpc' = [tpc EXCEPT ![d] = "done"]
  /\ reply' = [reply EXCEPT ![d] = Outcome(d)]
  /\ UNCHANGED <<lifeVars, queue, sendVars, tlid, jobVars, drainVars, histVars, upsets>>

ForgetCall(d) ==
  /\ tpc' = [tpc EXCEPT ![d] = "idle"]
  /\ tlid' = [tlid EXCEPT ![d] = 0]
  /\ reply' = [reply EXCEPT ![d] = "none"]

\* Mutant: a failure that is not to be retried escapes the loop.
DiesOn(answer) == IF answer = "permanent" THEN "none" ELSE "loop"

\* Whatever the result of a send, the drain task goes on.
AfterSend(answer) == "loop"

DrainGoesOn(d) ==
  /\ dpc[d] = "sending" /\ tpc[d] = "done"
  /\ dpc' = [dpc EXCEPT ![d] = AfterSend(reply[d])]
  /\ ForgetCall(d)
  /\ hand' = [hand EXCEPT ![d] = <<>>]
  /\ LET tries == hand[d].tries + 1
         again == DrainsAgain(reply[d], tries)
     IN  \/ /\ Delivered(reply[d])
            /\ fate' = [fate EXCEPT ![hand[d].m] = "sent"] /\ UNCHANGED queue
         \/ /\ ~Delivered(reply[d]) /\ again
            /\ PutBack([hand[d] EXCEPT !.tries = tries]) /\ UNCHANGED fate
         \/ /\ ~Delivered(reply[d]) /\ ~again
            /\ fate' = [fate EXCEPT ![hand[d].m] = "dropped"] /\ UNCHANGED queue
  /\ UNCHANGED <<lifeVars, sendVars, jobVars, slot, cancels, awaited, accepted, direct,
                 drained, strayed, late, upsets>>

DrainStops(d) ==
  /\ dpc' = [dpc EXCEPT ![d] = "none"]
  /\ cancels' = cancels \ {d}
  /\ UNCHANGED <<slot, awaited>>

DrainEnds(d) ==
  /\ dpc[d] = "loop" /\ ~Active(d)
  /\ DrainStops(d)
  /\ UNCHANGED <<lifeVars, queue, sendVars, callVars, jobVars, hand, histVars, upsets>>

\* A cancel that was posted reaches a task that is not waiting for its send yet.
CancelArrives(d) ==
  /\ d \in cancels /\ dpc[d] \in {"loop", "sending"}
  /\ cancels' = cancels \ {d}
  /\ dpc' = [dpc EXCEPT ![d] = Struck(d)]
  /\ UNCHANGED <<lifeVars, queue, sendVars, callVars, jobVars, hand, slot, awaited, histVars,
                 upsets>>

\* Cancelled in its send, the drain task puts a message that was not sent back
\* and leaves one whose send is still running alone; a second cancel ends its wait
\* before it has looked at the result.
DrainCancelled(d) ==
  /\ dpc[d] = "cancelled"
  /\ DrainStops(d)
  /\ \/ /\ tpc[d] = "done" /\ ~Delivered(reply[d])
        /\ PutBack(hand[d]) /\ ForgetCall(d) /\ UNCHANGED fate
     \/ /\ tpc[d] = "done" /\ Delivered(reply[d])
        /\ fate' = [fate EXCEPT ![hand[d].m] = "sent"]
        /\ ForgetCall(d) /\ UNCHANGED queue
     \/ /\ tpc[d] # "done" \/ d \in cancels
        /\ fate' = [fate EXCEPT ![hand[d].m] = "unsure"] /\ UNCHANGED <<queue, callVars>>
  /\ UNCHANGED <<lifeVars, sendVars, jobVars, hand, accepted, direct, drained, strayed, late,
                 upsets>>

-----------------------------------------------------------------------------
SendStep(s) ==
  \/ SendChunk(s) \/ QueueChunk(s) \/ SendReturns(s) \/ AckVerdict(s)

DrainStep(d) ==
  \/ StartDrain(d) \/ DrainTakes(d) \/ SendTaskEnds(d) \/ DrainGoesOn(d) \/ DrainEnds(d)
  \/ CancelArrives(d) \/ DrainCancelled(d)

WorkerStep(w) == Take(w) \/ SendText(w)

TeardownStep == Claim \/ Gathered \/ Close

Next ==
  \/ Connect \/ Disconnect \/ Register \/ LinkDrops \/ TeardownStep \/ TakeOver
  \/ \E s \in Senders : SendStep(s)
  \/ \E a \in Actors : Begin(a)
  \/ \E l \in Lids : DrainStep(l) \/ WorkerStep(l)

Spec == Init /\ [][Next]_vars

\* Tasks and threads that can run do; nobody has to connect, disconnect or call
\* send(), and the library's sendText returns.
Fairness ==
  /\ WF_vars(Register) /\ WF_vars(TeardownStep)
  /\ \A a \in Actors : WF_vars(Begin(a))
  /\ \A l \in Lids : WF_vars(DrainStep(l)) /\ WF_vars(WorkerStep(l))

FairSpec == Spec /\ Fairness

-----------------------------------------------------------------------------
(* Properties.                                                             *)

Items == [m : Messages, tries : 0..DrainMax - 1]
Answers == {"none", "sent", "noIface", "failed", "permanent", "stale"}

\* Type correctness: every item's attempts are below the drain's budget.
TypeOK ==
  /\ running \in BOOLEAN /\ lid \in 0..MaxLifecycle /\ iface \in BOOLEAN
  /\ phase \in {"none", "claim", "gather", "close"} /\ executor \in 0..MaxLifecycle
  /\ queue \in Seq(Items)
  /\ spc \in [Senders -> {"chunk", "sending", "acking", "sent", "failed"}]
  /\ kind \in [Senders -> {"plain", "noQueue", "ack"}] /\ unsendable \subseteq Senders
  /\ idx \in [Senders -> Nat] /\ \A s \in Senders : idx[s] \in 1..Chunks[s]
  /\ attempt \in [Senders -> 1..Retries + 1]
  /\ tpc \in [Actors -> {"idle", "begin", "await", "done"}]
  /\ tlid \in [Actors -> 0..MaxLifecycle] /\ reply \in [Actors -> Answers]
  /\ jobs \in [Lids -> Seq(Actors)] /\ sending \in [Lids -> BOOLEAN]
  /\ dpc \in [Lids -> {"none", "starting", "loop", "sending", "cancelled"}]
  /\ hand \in [Lids -> Items \cup {<<>>}]
  /\ slot \in 0..MaxLifecycle /\ cancels \subseteq Lids /\ awaited \subseteq Lids
  /\ fate \in [Messages -> {"new", "queued", "sent", "evicted", "dropped", "unsure"}]
  /\ accepted \in Seq(Messages)
  /\ direct \in [Messages -> Nat] /\ drained \in [Messages -> Nat]
  /\ strayed \subseteq Lids /\ late \subseteq Messages
  /\ upsets \in 0..MaxUpsets

\* The queue with what the drain tasks have taken out of it, oldest first.
InHand == {hand[d].m : d \in Held}
InQueue == {queue[i].m : i \in DOMAIN queue}
Age(m) == CHOOSE i \in DOMAIN accepted : accepted[i] = m

\* No accepted message is ever lost without a reason or held twice: one that is
\* neither sent nor given up is in the queue or in a drain task's hand, once.
Accounted ==
  /\ {m \in Messages : fate[m] = "queued"} = InQueue \cup InHand
  /\ Cardinality(InQueue \cup InHand) = Len(queue) + Cardinality(Held)

\* The queue keeps the order of arrival through evictions, retries and teardowns,
\* and what a drain task holds is older than all that is queued.  Excepted is a
\* message that a drain task of an ended lifecycle still held when the next one
\* began: two drain tasks may then put messages back in either order.
OldestFirst ==
  /\ \A i, j \in DOMAIN queue :
       i < j /\ {queue[i].m, queue[j].m} \cap late = {} => Age(queue[i].m) < Age(queue[j].m)
  /\ \A m \in InHand \ late, n \in InQueue \ late : Age(m) < Age(n)

\* The queue and the drain tasks' hands never hold more than one message over the
\* bound, for the eviction of a full queue does not see the item that is put back,
\* and one more for each drain task that a connect found with a message in hand.
Bounded == Len(queue) + Cardinality(Held) <= QueueMax + 1 + Cardinality(strayed)

\* The queue's invariant: types, nothing lost or doubled, in order, and bounded.
QueueInv == TypeOK /\ Accounted /\ OldestFirst /\ Bounded

\* A chunk that its own send() put on the air is not queued as well: the queue
\* takes a chunk only when nothing of it went out.
QueuedMeansUnsent == \A m \in Messages : fate[m] # "new" => direct[m] = 0

\* The drain budget holds over teardowns: a message leaves the queue's side at
\* most DrainMax times, and once more for each teardown that found it in a send.
DrainBudget == \A m \in Messages : drained[m] <= DrainMax + lid \div 2

\* While the adapter stays connected the queue empties, whatever is in it: a
\* message that cannot be sent does not block those behind it.
QueueEmpties == <>[]running => <>[](queue = <<>>)

\* The queue keeps the promise of an offline courier: see module Courier.
Mailbox == INSTANCE Courier WITH
  state <- [m \in Messages |-> CASE fate[m] = "queued"                 -> "accepted"
                                 [] fate[m] \in {"evicted", "dropped"} -> "lost"
                                 [] OTHER                              -> fate[m]],
  copies <- drained
KeepsPromise == Mailbox!Spec

\* The comment of the drain loop: a cancelled drain task puts a message back
\* only when it definitely did not send it.
PutBackMeansUnsent ==
  [][\A d \in Lids : dpc[d] = "cancelled" /\ dpc'[d] = "none" /\ Len(queue') > Len(queue)
                       => reply[d] # "stale"]_vars
=============================================================================
