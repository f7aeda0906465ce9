----------------------------- MODULE OutboundProofs -----------------------------
(***************************************************************************)
(* The safety of the outbound queue, and that it keeps the promise of      *)
(* Courier, for any number of calls, chunks, lifecycles, retries and       *)
(* upsets and any bounds of the queue and the worker.                      *)
(*                                                                         *)
(* Most of the argument is about one message at a time: whether the queue  *)
(* or a drain task holds it, and how often it has left.  Teardown does not *)
(* wait for every drain task, so several may have a message in hand; of    *)
(* those that no connect has found so, there is one at most, which follows *)
(* from the generations.  A call of send() never comes back to a chunk it  *)
(* has queued, and a send which outlives its drain task has a message      *)
(* nobody else will touch.  What a step does to the queue is one of five   *)
(* moves, and each part of the invariant is shown for the moves.           *)
(***************************************************************************)
EXTENDS Outbound, FiniteSetTheorems, TLAPS

\* Odd generations run, even ones are those of a disconnect.
Generations ==
  /\ running <=> lid % 2 = 1
  /\ running => phase = "none"

\* A drain task that has a message and that no connect has found so is the running
\* lifecycle's, or that of the last one; one that is cancelled, or will be, is of a
\* lifecycle that has ended.
Drains ==
  /\ slot <= lid /\ (slot # 0 => slot % 2 = 1)
  /\ \A d \in Lids : dpc[d] # "none" => d <= lid /\ d % 2 = 1
  /\ \A d \in Lids :
       dpc[d] = "cancelled" \/ d \in cancels \/ d \in awaited \/ d \in strayed => d < lid
  /\ \A d \in Held \ strayed : d = IF running THEN lid ELSE lid - 1
  /\ \A d \in Held \cap strayed : hand[d].m \in late

\* Who is in a send: a call of send(), or a drain task for the item in its hand,
\* which may outlive the task.
Calls ==
  /\ \A s \in Senders : tpc[s] # "done" /\ (spc[s] = "sending" <=> tpc[s] # "idle")
  /\ \A a \in Actors : tpc[a] \in {"idle", "begin"} => reply[a] = "none"
  /\ \A d \in Lids :
       /\ dpc[d] \in {"starting", "loop"} => tpc[d] = "idle"
       /\ d \in Held => tpc[d] # "idle"
       /\ tpc[d] # "idle" => hand[d] \in Items /\ d <= lid /\ d % 2 = 1

\* A job is that of one actor, who waits for its answer.
Work ==
  /\ \A w \in Lids : sending[w] => jobs[w] # <<>>
  /\ \A w \in Lids : \A i \in 1..Len(jobs[w]) :
       tpc[jobs[w][i]] = "await" /\ reply[jobs[w][i]] = "none"
  /\ \A v, w \in Lids : \A i \in 1..Len(jobs[v]), j \in 1..Len(jobs[w]) :
       jobs[v][i] = jobs[w][j] => v = w /\ i = j

\* A chunk is new to the queue until its send has ended, and a plain chunk has not
\* left while its send may yet end with "no interface".
Ahead ==
  /\ \A s \in Senders : \A k \in 1..Chunks[s] :
       k > idx[s] => fate[<<s, k>>] = "new" /\ direct[<<s, k>>] = 0
  /\ \A s \in Senders : spc[s] \in {"chunk", "sending", "acking"} => fate[Message(s)] = "new"
  /\ \A s \in Senders :
       kind[s] = "plain" /\ spc[s] \in {"chunk", "sending"} /\ reply[s] \in {"none", "noIface"}
         => direct[Message(s)] = 0
  /\ QueuedMeansUnsent

\* A queued message is at one place in the queue or in one hand.
Contents ==
  /\ \A i \in 1..Len(queue) : fate[queue[i].m] = "queued"
  /\ \A i, j \in 1..Len(queue) : queue[i].m = queue[j].m => i = j
  /\ \A d \in Held :
       fate[hand[d].m] = "queued" /\ \A i \in 1..Len(queue) : queue[i].m # hand[d].m
  /\ \A m \in Messages : fate[m] = "queued" =>
       \/ \E i \in 1..Len(queue) : queue[i].m = m
       \/ \E d \in Held : hand[d].m = m

\* A send that outlived its drain task has a message of its own.
Orphans ==
  /\ \A d \in Lids \ Held : tpc[d] # "idle" => fate[hand[d].m] = "unsure"
  /\ \A d, e \in Lids :
       tpc[d] # "idle" /\ tpc[e] # "idle" /\ hand[d].m = hand[e].m => d = e

\* What is not new has been accepted, once.
Arrivals ==
  /\ \A i, j \in 1..Len(accepted) : accepted[i] = accepted[j] => i = j
  /\ \A m \in Messages : fate[m] # "new" <=> \E i \in 1..Len(accepted) : accepted[i] = m

\* OldestFirst, by places in the order of arrival.
Before(order, m, n) ==
  \E i, j \in 1..Len(order) : i < j /\ order[i] = m /\ order[j] = n
Sorted ==
  /\ \A i, j \in 1..Len(queue) :
       i < j /\ queue[i].m \notin late /\ queue[j].m \notin late
         => Before(accepted, queue[i].m, queue[j].m)
  /\ \A d \in Held : \A i \in 1..Len(queue) :
       hand[d].m \notin late /\ queue[i].m \notin late
         => Before(accepted, hand[d].m, queue[i].m)

\* A message has left at most once for each try that has been counted, and once
\* more for each teardown.
Counts ==
  /\ \A i \in 1..Len(queue) : drained[queue[i].m] <= queue[i].tries + lid \div 2
  /\ \A d \in Lids : tpc[d] # "idle" =>
       /\ drained[hand[d].m] <= hand[d].tries + d \div 2 + (IF reply[d] = "none" THEN 0 ELSE 1)
       /\ reply[d] = "sent" => drained[hand[d].m] > 0
  /\ \A m \in Messages : fate[m] = "new" => drained[m] = 0
  /\ DrainBudget

IInv ==
  /\ TypeOK /\ Generations /\ Drains /\ Calls /\ Work
  /\ Ahead /\ Contents /\ Orphans /\ Arrivals /\ Sorted /\ Bounded /\ Counts

-----------------------------------------------------------------------------
(* Messages, sequences.                                                    *)

\* A message is a call and one of its chunks.
LEMMA MessageFacts ==
  /\ \A s \in Senders : \A k \in 1..Chunks[s] : <<s, k>> \in Messages
  /\ \A m \in Messages : \E s \in Senders : \E k \in 1..Chunks[s] : m = <<s, k>>
<1>1. \A m : m \in Messages <=> \E s \in Senders : m \in {s} \X (1..Chunks[s])
  BY DEF Messages
<1>. QED
  BY <1>1

LEMMA TailAt ==
  ASSUME NEW S, NEW q \in Seq(S), q # <<>>
  PROVE  /\ Tail(q) \in Seq(S) /\ Len(q) \in Nat /\ Len(q) >= 1 /\ Len(Tail(q)) = Len(q) - 1
         /\ Head(q) = q[1] /\ q[1] \in S
         /\ \A i \in 1..Len(q) - 1 : Tail(q)[i] = q[i + 1]
  OBVIOUS

LEMMA AppendAt ==
  ASSUME NEW S, NEW q \in Seq(S), NEW x \in S
  PROVE  /\ Append(q, x) \in Seq(S) /\ Len(q) \in Nat /\ Len(Append(q, x)) = Len(q) + 1
         /\ Append(q, x)[Len(q) + 1] = x
         /\ \A i \in 1..Len(q) : Append(q, x)[i] = q[i]
  OBVIOUS

LEMMA PushAt ==
  ASSUME NEW S, NEW q \in Seq(S), NEW x \in S
  PROVE  /\ <<x>> \o q \in Seq(S) /\ Len(q) \in Nat /\ Len(<<x>> \o q) = Len(q) + 1
         /\ (<<x>> \o q)[1] = x
         /\ \A i \in 1..Len(q) : (<<x>> \o q)[i + 1] = q[i]
  OBVIOUS

\* The constants, one by one.
LEMMA Bounds ==
  /\ QueueMax \in Nat /\ QueueMax >= 1 /\ DrainMax \in Nat /\ DrainMax >= 1
  /\ WorkerRoom \in Nat /\ Retries \in Nat /\ MaxLifecycle \in Nat /\ MaxUpsets \in Nat
  /\ Chunks \in [Senders -> Nat \ {0}]
  /\ Keyless \subseteq Senders
  /\ \A s \in Senders : s \notin Lids
BY OutboundAssumption DEF Lids

-----------------------------------------------------------------------------
(* What the steps do to the queue.                                         *)

Fates == {"new", "queued", "sent", "evicted", "dropped", "unsure"}
SameHands == Held' = Held /\ \A d \in Held : hand'[d] = hand[d]

Stays == UNCHANGED <<queue, fate, accepted>> /\ SameHands

\* m arrives, and c messages, none or the oldest, are evicted for it.
Arrives(m, c) ==
  /\ m \in Messages /\ fate[m] = "new"
  /\ c \in {0, 1} /\ c <= Len(queue) /\ (c = 0 => Len(queue) < QueueMax)
  /\ queue' \in Seq(Items) /\ Len(queue') = Len(queue) + 1 - c
  /\ \A i \in 1..Len(queue) - c : queue'[i] = queue[i + c]
  /\ queue'[Len(queue) + 1 - c] = [m |-> m, tries |-> 0]
  /\ fate' \in [Messages -> Fates]
  /\ \A n \in Messages :
       fate'[n] = IF n = m THEN "queued" ELSE IF c = 1 /\ n = queue[1].m THEN "evicted" ELSE fate[n]
  /\ accepted' = Append(accepted, m)
  /\ SameHands

Pulled(d) ==
  /\ d \in Lids /\ d \notin Held /\ d \notin strayed /\ Held' = Held \cup {d}
  /\ \A e \in Held : hand'[e] = hand[e]
  /\ queue # <<>> /\ queue' = Tail(queue) /\ hand'[d] = Head(queue)
  /\ UNCHANGED <<fate, accepted>>

GivenBack(d, t) ==
  /\ d \in Held /\ Held' = Held \ {d} /\ \A e \in Held \ {d} : hand'[e] = hand[e]
  /\ t \in 0..DrainMax - 1 /\ queue' = <<[m |-> hand[d].m, tries |-> t]>> \o queue
  /\ UNCHANGED <<fate, accepted>>

Over(d, f) ==
  /\ d \in Held /\ Held' = Held \ {d} /\ \A e \in Held \ {d} : hand'[e] = hand[e]
  /\ f \in {"sent", "dropped", "unsure"} /\ fate' = [fate EXCEPT ![hand[d].m] = f]
  /\ UNCHANGED <<queue, accepted>>

\* The messages and drain tasks that the order and the bound except.
Grows == strayed \subseteq strayed' /\ late \subseteq late'

\* One drain task at most has a message that no connect has found in its hand.
LEMMA HeldOne ==
  ASSUME Drains
  PROVE  /\ \A d, e \in Held \ strayed : d = e
         /\ \A d \in Held : hand[d].m \notin late => d \notin strayed
BY DEF Drains

\* No two drain tasks have the same message.
LEMMA HandsApart ==
  ASSUME Calls, Orphans
  PROVE  \A d, e \in Held : hand[d].m = hand[e].m => d = e
BY DEF Calls, Orphans, Held

LEMMA EnqueueArrives ==
  ASSUME TypeOK, NEW m \in Messages, fate[m] = "new", Contents, Enqueue(m), SameHands
  PROVE  \E c \in {0, 1} : Arrives(m, c)
<1>. DEFINE item == [m |-> m, tries |-> 0]
<1>1. item \in Items
  BY Bounds DEF Items
<1>2. queue \in Seq(Items) /\ fate \in [Messages -> Fates]
  BY DEF TypeOK, Fates
<1>3. CASE Full
  <2>1. queue # <<>> /\ Len(queue) >= QueueMax
    BY <1>2, <1>3, Bounds DEF Full
  <2>2. /\ Tail(queue) \in Seq(Items) /\ Len(queue) \in Nat /\ Len(queue) >= 1
        /\ Len(Tail(queue)) = Len(queue) - 1 /\ Head(queue) = queue[1] /\ queue[1] \in Items
        /\ \A i \in 1..Len(queue) - 1 : Tail(queue)[i] = queue[i + 1]
    BY <1>2, <2>1, TailAt
  <2>3. /\ Append(Tail(queue), item) \in Seq(Items)
        /\ Len(Append(Tail(queue), item)) = Len(Tail(queue)) + 1
        /\ Append(Tail(queue), item)[Len(Tail(queue)) + 1] = item
        /\ \A i \in 1..Len(Tail(queue)) : Append(Tail(queue), item)[i] = Tail(queue)[i]
    BY <1>1, <2>2, AppendAt
  <2>4. queue' = Append(Tail(queue), item) /\ accepted' = Append(accepted, m)
    BY <1>3 DEF Enqueue
  <2>5. /\ queue' \in Seq(Items) /\ Len(queue') = Len(queue) + 1 - 1
        /\ \A i \in 1..Len(queue) - 1 : queue'[i] = queue[i + 1]
        /\ queue'[Len(queue) + 1 - 1] = item
    BY <2>2, <2>3, <2>4
  <2>6. queue[1].m \in Messages /\ queue[1].m # m
    BY <2>2 DEF Items, Contents
  <2>7. fate' = [fate EXCEPT ![m] = "queued", ![queue[1].m] = "evicted"]
    BY <1>3, <2>2 DEF Enqueue
  <2>8. /\ fate' \in [Messages -> Fates]
        /\ \A n \in Messages :
             fate'[n] = IF n = m THEN "queued" ELSE IF n = queue[1].m THEN "evicted" ELSE fate[n]
    BY <1>2, <2>6, <2>7 DEF Fates
  <2>9. Arrives(m, 1)
    BY <2>2, <2>4, <2>5, <2>8 DEF Arrives
  <2>. QED
    BY <2>9
<1>4. CASE ~Full
  <2>1. /\ Append(queue, item) \in Seq(Items) /\ Len(queue) \in Nat
        /\ Len(Append(queue, item)) = Len(queue) + 1
        /\ Append(queue, item)[Len(queue) + 1] = item
        /\ \A i \in 1..Len(queue) : Append(queue, item)[i] = queue[i]
    BY <1>1, <1>2, AppendAt
  <2>2. queue' = Append(queue, item) /\ accepted' = Append(accepted, m)
        /\ fate' = [fate EXCEPT ![m] = "queued"]
    BY <1>4 DEF Enqueue
  <2>3. Len(queue) < QueueMax
    BY <1>4, <2>1, Bounds DEF Full
  <2>4. /\ fate' \in [Messages -> Fates]
        /\ \A n \in Messages : fate'[n] = IF n = m THEN "queued" ELSE fate[n]
    BY <1>2, <2>2 DEF Fates
  <2>5. /\ queue' \in Seq(Items) /\ Len(queue') = Len(queue) + 1 - 0
        /\ \A i \in 1..Len(queue) - 0 : queue'[i] = queue[i + 0]
        /\ queue'[Len(queue) + 1 - 0] = item
    BY <2>1, <2>2
  <2>6. Arrives(m, 0)
    BY <2>1, <2>2, <2>3, <2>4, <2>5 DEF Arrives
  <2>. QED
    BY <2>6
<1>. QED
  BY <1>3, <1>4

\* A call that is in a send has a chunk that is new to the queue.
LEMMA MessageNew ==
  ASSUME TypeOK, Ahead, NEW s \in Senders
  PROVE  /\ Message(s) \in Messages
         /\ spc[s] \in {"chunk", "sending", "acking"} => fate[Message(s)] = "new"
BY MessageFacts DEF TypeOK, Ahead, Message

-----------------------------------------------------------------------------
(* Types.                                                                  *)

\* The next chunk, or the next try, is one there is.
LEMMA NextChunkType ==
  ASSUME TypeOK, NEW s \in Senders, NextChunk(s)
  PROVE  /\ spc' \in [Senders -> {"chunk", "sending", "acking", "sent", "failed"}]
         /\ idx' \in [Senders -> Nat] /\ \A t \in Senders : idx'[t] \in 1..Chunks[t]
         /\ attempt' \in [Senders -> 1..Retries + 1]
<1>1. /\ idx \in [Senders -> Nat] /\ \A t \in Senders : idx[t] \in 1..Chunks[t]
      /\ spc \in [Senders -> {"chunk", "sending", "acking", "sent", "failed"}]
      /\ attempt \in [Senders -> 1..Retries + 1]
  BY DEF TypeOK
<1>2. Chunks[s] \in Nat /\ Retries \in Nat
  BY Bounds
<1>3. CASE idx[s] < Chunks[s]
  <2>1. /\ idx' = [idx EXCEPT ![s] = idx[s] + 1] /\ attempt' = [attempt EXCEPT ![s] = 1]
        /\ spc' = [spc EXCEPT ![s] = "chunk"]
    BY <1>3 DEF NextChunk
  <2>2. idx[s] + 1 \in 1..Chunks[s] /\ 1 \in 1..Retries + 1
    BY <1>1, <1>2, <1>3
  <2>. QED
    BY <1>1, <2>1, <2>2
<1>4. CASE ~(idx[s] < Chunks[s])
  BY <1>1, <1>4 DEF NextChunk
<1>. QED
  BY <1>3, <1>4

LEMMA ChunkFailsType ==
  ASSUME TypeOK, NEW s \in Senders, NEW r, ChunkFails(s, r)
  PROVE  /\ spc' \in [Senders -> {"chunk", "sending", "acking", "sent", "failed"}]
         /\ idx' = idx
         /\ attempt' \in [Senders -> 1..Retries + 1]
<1>1. /\ spc \in [Senders -> {"chunk", "sending", "acking", "sent", "failed"}]
      /\ attempt \in [Senders -> 1..Retries + 1]
  BY DEF TypeOK
<1>2. idx' = idx
  BY DEF ChunkFails
<1>3. CASE r /\ attempt[s] < Attempts(s)
  <2>1. attempt' = [attempt EXCEPT ![s] = attempt[s] + 1] /\ spc' = [spc EXCEPT ![s] = "chunk"]
    BY <1>3 DEF ChunkFails
  <2>2. attempt[s] + 1 \in 1..Retries + 1
    BY <1>1, <1>3, Bounds DEF Attempts
  <2>. QED
    BY <1>1, <1>2, <2>1, <2>2
<1>4. CASE ~(r /\ attempt[s] < Attempts(s))
  BY <1>1, <1>2, <1>4 DEF ChunkFails
<1>. QED
  BY <1>3, <1>4

LEMMA AnswerType ==
  ASSUME TypeOK, NEW w \in Lids, jobs[w] # <<>>, NEW r \in Answers, Answer(w, r)
  PROVE  /\ Head(jobs[w]) \in Actors
         /\ reply' \in [Actors -> Answers] /\ jobs' \in [Lids -> Seq(Actors)]
         /\ sending' \in [Lids -> BOOLEAN]
<1>1. jobs[w] \in Seq(Actors)
  BY DEF TypeOK
<1>2. Tail(jobs[w]) \in Seq(Actors) /\ Head(jobs[w]) \in Actors
  BY <1>1, TailAt
<1>. QED
  BY <1>2 DEF TypeOK, Answer

\* The actor of a job, and the message it is for.
LEMMA JobFacts ==
  ASSUME TypeOK, Calls, Work, NEW w \in Lids, jobs[w] # <<>>
  PROVE  /\ Head(jobs[w]) \in Actors /\ Head(jobs[w]) = jobs[w][1]
         /\ tpc[Head(jobs[w])] = "await" /\ reply[Head(jobs[w])] = "none"
         /\ Head(jobs[w]) \notin Senders =>
              Head(jobs[w]) \in Lids /\ hand[Head(jobs[w])] \in Items
<1>1. jobs[w] \in Seq(Actors)
  BY DEF TypeOK
<1>2. Head(jobs[w]) \in Actors /\ Head(jobs[w]) = jobs[w][1] /\ Len(jobs[w]) \in Nat /\ Len(jobs[w]) >= 1
  BY <1>1, TailAt
<1>3. tpc[Head(jobs[w])] = "await" /\ reply[Head(jobs[w])] = "none"
  BY <1>2 DEF Work
<1>4. Head(jobs[w]) \notin Senders => Head(jobs[w]) \in Lids
  BY <1>2 DEF Actors
<1>5. \A d \in Lids : tpc[d] # "idle" => hand[d] \in Items
  BY DEF TypeOK, Calls
<1>. QED
  BY <1>2, <1>3, <1>4, <1>5

LEMMA LeavesType ==
  ASSUME TypeOK, Calls, Work, NEW w \in Lids, jobs[w] # <<>>, Leaves(Head(jobs[w]))
  PROVE  direct' \in [Messages -> Nat] /\ drained' \in [Messages -> Nat]
<1>. DEFINE a == Head(jobs[w])
<1>1. direct \in [Messages -> Nat] /\ drained \in [Messages -> Nat]
  BY DEF TypeOK
<1>2. CASE a \in Senders
  <2>1. direct' = [direct EXCEPT ![Message(a)] = direct[Message(a)] + 1] /\ drained' = drained
    BY <1>2 DEF Leaves
  <2>2. Message(a) \in Messages
    BY <1>2, MessageFacts DEF TypeOK, Message
  <2>. QED
    BY <1>1, <2>1, <2>2
<1>3. CASE a \notin Senders
  <2>1. drained' = [drained EXCEPT ![hand[a].m] = drained[hand[a].m] + 1] /\ direct' = direct
    BY <1>3 DEF Leaves
  <2>2. hand[a].m \in Messages
    BY <1>3, JobFacts DEF Items
  <2>. QED
    BY <1>1, <2>1, <2>2
<1>. QED
  BY <1>2, <1>3

LEMMA PutBackType ==
  ASSUME TypeOK, NEW item \in Items, PutBack(item)
  PROVE  queue' \in Seq(Items)
BY PushAt DEF TypeOK, PutBack

\* A step of a send or a drain task that does not touch the queue's variables.
LEMMA UpsetType ==
  ASSUME upsets \in 0..MaxUpsets, Upset
  PROVE  upsets' \in 0..MaxUpsets
BY Bounds DEF Upset

LEMMA LidType ==
  ASSUME TypeOK, NEW d \in Lids
  PROVE  d \in Nat /\ d >= 1 /\ d <= MaxLifecycle /\ d \in Actors /\ d \notin Senders
BY Bounds DEF Lids, Actors

LEMMA OutcomeType ==
  ASSUME TypeOK, NEW a \in Actors
  PROVE  Outcome(a) \in Answers
BY DEF TypeOK, Outcome, Answers

\* Every step keeps the types.
LEMMA TypeStep ==
  ASSUME TypeOK, Generations, Drains, Calls, Work, Ahead, Contents, Next
  PROVE  TypeOK'
<1>. USE DEF lifeVars, sendVars, callVars, jobVars, drainVars, histVars
<1>1. CASE Connect
  <2>1. lid' \in Lids /\ lid' = lid + 1 /\ lid' \in 0..MaxLifecycle
    BY <1>1, Bounds DEF TypeOK, Connect, Lids
  <2>2. strayed' \subseteq Lids /\ late' \subseteq Messages
    <3>1. \A d \in Held : d \in Lids /\ hand[d].m \in Messages
      BY DEF Calls, Held, Items
    <3>. QED
      BY <1>1, <3>1 DEF TypeOK, Connect
  <2>3. dpc' \in [Lids -> {"none", "starting", "loop", "sending", "cancelled"}]
        /\ executor' \in 0..MaxLifecycle
    BY <1>1, <2>1 DEF TypeOK, Connect
  <2>. QED
    BY <1>1, <2>1, <2>2, <2>3 DEF TypeOK, Connect
<1>2. CASE Disconnect
  <2>1. lid' \in 0..MaxLifecycle
    BY <1>2, Bounds DEF TypeOK, Disconnect
  <2>. QED
    BY <1>2, <2>1 DEF TypeOK, Disconnect
<1>3. CASE Register
  BY <1>3 DEF TypeOK, Register
<1>4. CASE LinkDrops
  BY <1>4, UpsetType DEF TypeOK, LinkDrops
<1>5. CASE Claim
  <2>1. dpc' \in [Lids -> {"none", "starting", "loop", "sending", "cancelled"}]
    <3>1. \A d \in Lids : Struck(d) \in {"none", "starting", "loop", "sending", "cancelled"}
      BY DEF TypeOK, Struck
    <3>2. dpc' = dpc \/ dpc' = [d \in Lids |-> IF d = slot THEN Struck(d) ELSE dpc[d]]
      BY <1>5 DEF Claim
    <3>3. dpc \in [Lids -> {"none", "starting", "loop", "sending", "cancelled"}]
      BY DEF TypeOK
    <3>. QED
      BY <3>1, <3>2, <3>3
  <2>2. slot' \in 0..MaxLifecycle /\ cancels' \subseteq Lids /\ awaited' \subseteq Lids
    BY <1>5, Bounds DEF TypeOK, Claim
  <2>. QED
    BY <1>5, <2>1, <2>2 DEF TypeOK, Claim
<1>6. CASE Gathered \/ Close \/ TakeOver
  BY <1>6, Bounds DEF TypeOK, Gathered, Close, TakeOver
<1>7. ASSUME NEW s \in Senders, SendChunk(s) PROVE TypeOK'
  <2>1. s \in Actors
    BY DEF Actors
  <2>. QED
    BY <1>7, <2>1 DEF TypeOK, SendChunk
<1>8. ASSUME NEW m \in Messages, Enqueue(m), fate[m] = "new"
      PROVE  /\ queue' \in Seq(Items) /\ accepted' \in Seq(Messages)
             /\ fate' \in [Messages -> {"new", "queued", "sent", "evicted", "dropped", "unsure"}]
  <2>1. Append(accepted, m) \in Seq(Messages) /\ accepted' = Append(accepted, m)
    BY <1>8, AppendAt DEF TypeOK, Enqueue
  <2>2. CASE Full
    <3>1. Append(Tail(queue), [m |-> m, tries |-> 0]) \in Seq(Items) /\ Head(queue).m \in Messages
      <4>1. queue \in Seq(Items) /\ queue # <<>>
        BY <2>2, Bounds DEF TypeOK, Full
      <4>2. Tail(queue) \in Seq(Items) /\ Head(queue) \in Items
        BY <4>1, TailAt
      <4>3. [m |-> m, tries |-> 0] \in Items
        BY <1>8, Bounds DEF Items
      <4>. QED
        BY <4>2, <4>3, AppendAt DEF Items
    <3>. QED
      BY <1>8, <2>1, <2>2, <3>1 DEF TypeOK, Enqueue
  <2>3. CASE ~Full
    <3>1. Append(queue, [m |-> m, tries |-> 0]) \in Seq(Items)
      BY <1>8, Bounds, AppendAt DEF TypeOK, Items
    <3>. QED
      BY <1>8, <2>1, <2>3, <3>1 DEF TypeOK, Enqueue
  <2>. QED
    BY <2>2, <2>3
<1>9. ASSUME NEW s \in Senders, QueueChunk(s) PROVE TypeOK'
  <2>1. CASE kind[s] = "plain" /\ Enqueue(Message(s)) /\ NextChunk(s)
    <3>1. /\ queue' \in Seq(Items) /\ accepted' \in Seq(Messages)
          /\ fate' \in [Messages -> {"new", "queued", "sent", "evicted", "dropped", "unsure"}]
      BY <1>8, <1>9, <2>1, MessageNew DEF QueueChunk
    <3>2. UNCHANGED <<lifeVars, kind, unsendable, callVars, jobVars, drainVars, direct, drained, strayed, late, upsets>>
      BY <1>9 DEF QueueChunk
    <3>. QED
      BY <2>1, <3>1, <3>2, NextChunkType DEF TypeOK
  <2>2. CASE ChunkFails(s, kind[s] = "ack") /\ UNCHANGED <<queue, fate, accepted>>
    <3>1. UNCHANGED <<lifeVars, kind, unsendable, callVars, jobVars, drainVars, direct, drained, strayed, late, upsets>>
      BY <1>9 DEF QueueChunk
    <3>. QED
      BY <2>2, <3>1, ChunkFailsType DEF TypeOK
  <2>. QED
    BY <1>9, <2>1, <2>2 DEF QueueChunk
<1>10. ASSUME NEW s \in Senders, SendReturns(s) PROVE TypeOK'
  <2>1. s \in Actors
    BY DEF Actors
  <2>2. /\ tpc' \in [Actors -> {"idle", "begin", "await", "done"}]
        /\ tlid' \in [Actors -> 0..MaxLifecycle] /\ reply' \in [Actors -> Answers]
    <3>1. 0 \in 0..MaxLifecycle /\ "none" \in Answers
      BY Bounds DEF Answers
    <3>2. /\ tpc' = [tpc EXCEPT ![s] = "idle"] /\ reply' = [reply EXCEPT ![s] = "none"]
          /\ \/ tlid' = [tlid EXCEPT ![s] = tlid[s]]
             \/ tlid' = [tlid EXCEPT ![s] = 0]
      BY <1>10 DEF SendReturns
    <3>3. /\ tpc \in [Actors -> {"idle", "begin", "await", "done"}]
          /\ tlid \in [Actors -> 0..MaxLifecycle] /\ reply \in [Actors -> Answers]
      BY DEF TypeOK
    <3>. QED
      BY <2>1, <3>1, <3>2, <3>3
  <2>3. UNCHANGED <<lifeVars, kind, unsendable, jobVars, drainVars, direct, drained, strayed, late, upsets>>
    BY <1>10 DEF SendReturns
  <2>4. CASE NextChunk(s) /\ UNCHANGED <<queue, fate, accepted>>
    BY <2>2, <2>3, <2>4, NextChunkType DEF TypeOK
  <2>5. CASE /\ spc' = [spc EXCEPT ![s] = "acking"]
             /\ UNCHANGED <<idx, attempt, queue, fate, accepted>>
    BY <2>2, <2>3, <2>5 DEF TypeOK
  <2>6. CASE Enqueue(Message(s)) /\ NextChunk(s)
    <3>1. /\ queue' \in Seq(Items) /\ accepted' \in Seq(Messages)
          /\ fate' \in [Messages -> {"new", "queued", "sent", "evicted", "dropped", "unsure"}]
      BY <1>8, <1>10, <2>6, MessageNew DEF SendReturns
    <3>. QED
      BY <2>2, <2>3, <2>6, <3>1, NextChunkType DEF TypeOK
  <2>7. ASSUME NEW r, ChunkFails(s, r), UNCHANGED <<queue, fate, accepted>> PROVE TypeOK'
    BY <2>2, <2>3, <2>7, ChunkFailsType DEF TypeOK
  <2>. QED
    BY <1>10, <2>4, <2>5, <2>6, <2>7 DEF SendReturns
<1>11. ASSUME NEW s \in Senders, AckVerdict(s) PROVE TypeOK'
  <2>1. UNCHANGED <<lifeVars, queue, kind, unsendable, callVars, jobVars, drainVars, histVars>>
    BY <1>11 DEF AckVerdict
  <2>2. upsets' \in 0..MaxUpsets
    BY <1>11, UpsetType DEF AckVerdict, TypeOK
  <2>3. CASE NextChunk(s)
    BY <2>1, <2>2, <2>3, NextChunkType DEF TypeOK
  <2>4. ASSUME NEW r, ChunkFails(s, r) PROVE TypeOK'
    BY <2>1, <2>2, <2>4, ChunkFailsType DEF TypeOK
  <2>. QED
    BY <1>11, <2>3, <2>4 DEF AckVerdict
<1>12. ASSUME NEW a \in Actors, Begin(a) PROVE TypeOK'
  <2>1. reply' \in [Actors -> Answers] /\ jobs' \in [Lids -> Seq(Actors)]
    <3>1. CASE HasRoom
      <4>1. executor \in Lids /\ jobs[executor] \in Seq(Actors)
        BY <3>1 DEF TypeOK, HasRoom, Lids
      <4>2. Append(jobs[executor], a) \in Seq(Actors)
        BY <4>1, AppendAt
      <4>3. /\ jobs' = [jobs EXCEPT ![executor] = Append(jobs[executor], a)]
            /\ reply' = [reply EXCEPT ![a] = "none"]
        BY <1>12, <3>1 DEF Begin
      <4>. QED
        BY <4>1, <4>2, <4>3 DEF TypeOK, Answers
    <3>2. CASE ~HasRoom
      BY <1>12, <3>2 DEF Begin, TypeOK, Answers
    <3>. QED
      BY <3>1, <3>2
  <2>2. /\ tpc' \in [Actors -> {"idle", "begin", "await", "done"}]
        /\ tlid' \in [Actors -> 0..MaxLifecycle]
    <3>1. tpc' = [tpc EXCEPT ![a] = "await"] /\ tlid' = [tlid EXCEPT ![a] = lid]
      BY <1>12 DEF Begin
    <3>2. /\ tpc \in [Actors -> {"idle", "begin", "await", "done"}]
          /\ tlid \in [Actors -> 0..MaxLifecycle] /\ lid \in 0..MaxLifecycle
      BY DEF TypeOK
    <3>. QED
      BY <3>1, <3>2
  <2>. QED
    BY <1>12, <2>1, <2>2 DEF TypeOK, Begin
<1>13. ASSUME NEW w \in Lids, Take(w) PROVE TypeOK'
  <2>1. UNCHANGED <<lifeVars, queue, sendVars, tpc, tlid, drainVars, histVars, upsets>>
    BY <1>13 DEF Take
  <2>2. jobs[w] # <<>>
    BY <1>13 DEF Take
  <2>3. CASE sending' = [sending EXCEPT ![w] = TRUE] /\ UNCHANGED <<jobs, reply>>
    BY <2>1, <2>3 DEF TypeOK
  <2>4. ASSUME NEW r \in Answers, Answer(w, r) PROVE TypeOK'
    BY <2>1, <2>2, <2>4, AnswerType DEF TypeOK
  <2>. QED
    BY <1>13, <2>3, <2>4 DEF Take, Answers
<1>14. ASSUME NEW w \in Lids, SendText(w) PROVE TypeOK'
  <2>1. UNCHANGED <<lifeVars, queue, sendVars, tpc, tlid, drainVars, fate, accepted, strayed, late>>
    BY <1>14 DEF SendText
  <2>2. jobs[w] # <<>>
    BY <1>14 DEF SendText, Work
  <2>3. upsets' \in 0..MaxUpsets
    BY <1>14, UpsetType DEF SendText, TypeOK
  <2>4. direct' \in [Messages -> Nat] /\ drained' \in [Messages -> Nat]
    BY <1>14, <2>2, LeavesType DEF SendText, TypeOK
  <2>5. \E r \in Answers : Answer(w, r)
    BY <1>14 DEF SendText, Answers
  <2>. QED
    BY <2>1, <2>2, <2>3, <2>4, <2>5, AnswerType DEF TypeOK
<1>. HIDE DEF lifeVars, sendVars, callVars, jobVars, drainVars, histVars
<1>15. ASSUME NEW d \in Lids, StartDrain(d) \/ DrainEnds(d) \/ CancelArrives(d) PROVE TypeOK'
  <2>1. dpc' \in [Lids -> {"none", "starting", "loop", "sending", "cancelled"}]
    <3>1. Struck(d) \in {"none", "starting", "loop", "sending", "cancelled"}
      BY DEF TypeOK, Struck
    <3>. QED
      BY <1>15, <3>1 DEF TypeOK, StartDrain, DrainEnds, DrainStops, CancelArrives
  <2>2. slot' \in 0..MaxLifecycle /\ cancels' \subseteq Lids /\ awaited' = awaited
    <3>1. d \in 0..MaxLifecycle
      BY Bounds DEF Lids
    <3>. QED
      BY <1>15, <3>1 DEF TypeOK, StartDrain, DrainEnds, DrainStops, CancelArrives
  <2>3. UNCHANGED <<lifeVars, queue, sendVars, callVars, jobVars, hand, histVars, upsets>>
    BY <1>15 DEF StartDrain, DrainEnds, CancelArrives
  <2>. QED
    BY <2>1, <2>2, <2>3 DEF TypeOK, lifeVars, sendVars, callVars, jobVars, histVars
<1>16. ASSUME NEW d \in Lids, DrainTakes(d) PROVE TypeOK'
  <2>1. d \in Actors /\ queue \in Seq(Items) /\ queue # <<>>
    BY <1>16, LidType DEF TypeOK, DrainTakes
  <2>2. Tail(queue) \in Seq(Items) /\ Head(queue) \in Items
    BY <2>1, TailAt
  <2>. QED
    BY <1>16, <2>1, <2>2 DEF TypeOK, DrainTakes, lifeVars, sendVars, jobVars, histVars
<1>17. ASSUME NEW d \in Lids, SendTaskEnds(d) PROVE TypeOK'
  <2>1. d \in Actors /\ Outcome(d) \in Answers
    BY LidType, OutcomeType
  <2>. QED
    BY <1>17, <2>1 DEF TypeOK, SendTaskEnds, lifeVars, sendVars, jobVars, drainVars, histVars
<1>18. ASSUME NEW d \in Lids, ForgetCall(d)
       PROVE  /\ tpc' \in [Actors -> {"idle", "begin", "await", "done"}]
              /\ tlid' \in [Actors -> 0..MaxLifecycle] /\ reply' \in [Actors -> Answers]
  <2>1. d \in Actors /\ 0 \in 0..MaxLifecycle /\ "none" \in Answers
    BY LidType, Bounds DEF Answers
  <2>. QED
    BY <1>18, <2>1 DEF TypeOK, ForgetCall
<1>19. ASSUME NEW d \in Held PROVE hand[d] \in Items /\ hand[d].m \in Messages
  BY <1>19 DEF TypeOK, Calls, Held, Items
<1>20. ASSUME NEW d \in Lids, DrainGoesOn(d) PROVE TypeOK'
  <2>1. d \in Held
    BY <1>20 DEF DrainGoesOn, Held
  <2>2. dpc' \in [Lids -> {"none", "starting", "loop", "sending", "cancelled"}]
        /\ hand' \in [Lids -> Items \cup {<<>>}]
    BY <1>20 DEF DrainGoesOn, AfterSend, TypeOK
  <2>3. queue' \in Seq(Items)
        /\ fate' \in [Messages -> {"new", "queued", "sent", "evicted", "dropped", "unsure"}]
    <3>. DEFINE t == hand[d].tries + 1
                item == [hand[d] EXCEPT !.tries = t]
    <3>1. CASE UNCHANGED queue /\ \E f \in {"sent", "dropped"} : fate' = [fate EXCEPT ![hand[d].m] = f]
      BY <2>1, <1>19, <3>1 DEF TypeOK
    <3>2. CASE DrainsAgain(reply[d], t) /\ PutBack(item) /\ UNCHANGED fate
      <4>1. item \in Items
        BY <2>1, <1>19, <3>2, Bounds DEF DrainsAgain, Items
      <4>. QED
        BY <3>2, <4>1, PutBackType DEF TypeOK
    <3>. QED
      BY <1>20, <3>1, <3>2 DEF DrainGoesOn
  <2>. QED
    BY <1>18, <1>20, <2>2, <2>3 DEF DrainGoesOn, TypeOK, lifeVars, sendVars, jobVars
<1>21. ASSUME NEW d \in Lids, DrainCancelled(d) PROVE TypeOK'
  <2>1. d \in Held
    BY <1>21 DEF DrainCancelled, Held
  <2>2. /\ dpc' \in [Lids -> {"none", "starting", "loop", "sending", "cancelled"}]
        /\ slot' = slot /\ cancels' \subseteq Lids /\ awaited' = awaited
    BY <1>21 DEF DrainCancelled, DrainStops, TypeOK
  <2>3. UNCHANGED <<lifeVars, sendVars, jobVars, hand, accepted, direct, drained, strayed, late, upsets>>
    BY <1>21 DEF DrainCancelled
  <2>4. CASE PutBack(hand[d]) /\ ForgetCall(d) /\ UNCHANGED fate
    BY <1>18, <1>19, <2>1, <2>2, <2>3, <2>4, PutBackType DEF TypeOK, lifeVars, sendVars, jobVars
  <2>5. CASE fate' = [fate EXCEPT ![hand[d].m] = "sent"] /\ ForgetCall(d) /\ UNCHANGED queue
    BY <1>18, <1>19, <2>1, <2>2, <2>3, <2>5 DEF TypeOK, lifeVars, sendVars, jobVars
  <2>6. CASE fate' = [fate EXCEPT ![hand[d].m] = "unsure"] /\ UNCHANGED <<queue, callVars>>
    BY <1>19, <2>1, <2>2, <2>3, <2>6 DEF TypeOK, lifeVars, sendVars, jobVars, callVars
  <2>. QED
    BY <1>21, <2>4, <2>5, <2>6 DEF DrainCancelled
<1>. QED
  BY <1>1, <1>2, <1>3, <1>4, <1>5, <1>6, <1>7, <1>9, <1>10, <1>11, <1>12, <1>13, <1>14,
     <1>15, <1>16, <1>17, <1>20, <1>21
     DEF Next, TeardownStep, SendStep, DrainStep, WorkerStep

-----------------------------------------------------------------------------
(* Lifecycles, drain tasks and who is in a send.                           *)

\* Only connect, disconnect and a teardown touch the generation and its phase.
LEMMA LifeFrame ==
  ASSUME Next
  PROVE  Connect \/ Disconnect \/ TeardownStep \/ UNCHANGED <<running, lid, phase>>
<1>. USE DEF lifeVars
<1>1. Register \/ LinkDrops \/ TakeOver => UNCHANGED <<running, lid, phase>>
  BY DEF Register, LinkDrops, TakeOver
<1>2. \A s \in Senders : SendStep(s) => UNCHANGED <<running, lid, phase>>
  BY DEF SendStep, SendChunk, QueueChunk, SendReturns, AckVerdict
<1>3. \A a \in Actors : Begin(a) => UNCHANGED <<running, lid, phase>>
  BY DEF Begin
<1>4. \A d \in Lids : DrainStep(d) => UNCHANGED <<running, lid, phase>>
  BY DEF DrainStep, StartDrain, DrainTakes, SendTaskEnds, DrainGoesOn, DrainEnds, CancelArrives, DrainStops, DrainCancelled
<1>5. \A w \in Lids : WorkerStep(w) => UNCHANGED <<running, lid, phase>>
  BY DEF WorkerStep, Take, SendText
<1>. QED
  BY <1>1, <1>2, <1>3, <1>4, <1>5 DEF Next

LEMMA GenerationsStep ==
  ASSUME TypeOK, Generations, Next
  PROVE  Generations'
<1>1. lid \in Nat /\ running \in BOOLEAN
  BY DEF TypeOK
<1>2. CASE Connect
  BY <1>1, <1>2 DEF Connect, Generations
<1>3. CASE Disconnect
  BY <1>1, <1>3 DEF Disconnect, Generations
<1>4. CASE TeardownStep
  BY <1>1, <1>4 DEF TeardownStep, Claim, Gathered, Close, Generations
<1>5. CASE UNCHANGED <<running, lid, phase>>
  BY <1>5 DEF Generations
<1>. QED
  BY <1>2, <1>3, <1>4, <1>5, LifeFrame

\* Connect, disconnect, a teardown and the drain tasks apart, no step is one of a
\* lifecycle or of a drain task.
LEMMA DrainFrame ==
  ASSUME Next
  PROVE  Connect \/ Disconnect \/ Claim \/ TakeOver \/ Gathered \/ (\E d \in Lids : DrainStep(d))
         \/ UNCHANGED <<running, lid, drainVars, strayed, late>>
<1>1. Register \/ LinkDrops \/ Close => UNCHANGED <<running, lid, drainVars, strayed, late>>
  BY DEF Register, LinkDrops, Close, histVars
<1>2. \A s \in Senders : SendStep(s) => UNCHANGED <<running, lid, drainVars, strayed, late>>
  BY DEF SendStep, SendChunk, QueueChunk, SendReturns, AckVerdict, histVars, lifeVars
<1>3. \A a \in Actors : Begin(a) => UNCHANGED <<running, lid, drainVars, strayed, late>>
  BY DEF Begin, histVars, lifeVars
<1>4. \A w \in Lids : WorkerStep(w) => UNCHANGED <<running, lid, drainVars, strayed, late>>
  BY DEF WorkerStep, Take, SendText, histVars, lifeVars
<1>. QED
  BY <1>1, <1>2, <1>3, <1>4 DEF Next, TeardownStep

\* What a connect found in a drain task's hand stays so noted.
LEMMA GrowsStep ==
  ASSUME Next
  PROVE  Grows
<1>1. Connect => Grows
  BY DEF Connect, Grows
<1>2. Disconnect \/ Claim \/ TakeOver \/ Gathered => Grows
  BY DEF Disconnect, Claim, TakeOver, Gathered, Grows, histVars
<1>3. \A d \in Lids : DrainStep(d) => Grows
  BY DEF DrainStep, StartDrain, DrainTakes, SendTaskEnds, DrainGoesOn, DrainEnds, CancelArrives,
     DrainCancelled, Grows, histVars
<1>. QED
  BY <1>1, <1>2, <1>3, DrainFrame DEF Grows

\* The tasks that are in a send keep their message.
HandsStay ==
  /\ Held' = Held /\ hand' = hand

LEMMA DrainsStep ==
  ASSUME TypeOK, Generations, Drains, Next
  PROVE  Drains'
<1>1. /\ lid \in Nat /\ slot \in Nat
      /\ dpc \in [Lids -> {"none", "starting", "loop", "sending", "cancelled"}]
      /\ hand \in [Lids -> Items \cup {<<>>}]
      /\ \A d \in Lids : d \in Nat
  BY LidType DEF TypeOK
<1>2. CASE Connect
  <2>1. /\ lid' = lid + 1 /\ dpc' = [dpc EXCEPT ![lid'] = "starting"] /\ ~running /\ running'
        /\ UNCHANGED <<slot, cancels, awaited, hand>>
        /\ strayed' = strayed \cup Held /\ late' = late \cup {hand[d].m : d \in Held}
    BY <1>2 DEF Connect
  <2>2. lid' % 2 = 1 /\ \A d \in Held : d <= lid
    BY <1>1, <2>1 DEF Generations, Drains, Held
  <2>3. Held' \subseteq Held
    BY <1>1, <2>1 DEF Held
  <2>4. /\ slot' <= lid' /\ (slot' # 0 => slot' % 2 = 1)
        /\ \A d \in Lids : dpc'[d] # "none" => d <= lid' /\ d % 2 = 1
    BY <1>1, <2>1, <2>2 DEF Drains
  <2>5. \A d \in Lids :
          dpc'[d] = "cancelled" \/ d \in cancels' \/ d \in awaited' \/ d \in strayed' => d < lid'
    BY <1>1, <2>1, <2>2 DEF Drains
  <2>6. Held' \ strayed' = {} /\ \A d \in Held' \cap strayed' : hand'[d].m \in late'
    BY <2>1, <2>3
  <2>. QED
    BY <2>4, <2>5, <2>6 DEF Drains
<1>3. CASE Disconnect
  <2>1. /\ lid' = lid + 1 /\ running /\ ~running'
        /\ UNCHANGED <<dpc, hand, slot, cancels, awaited, strayed, late>>
    BY <1>3 DEF Disconnect, drainVars, histVars
  <2>2. Held' = Held
    BY <2>1 DEF Held
  <2>. QED
    BY <1>1, <2>1, <2>2 DEF Drains
<1>4. ASSUME UNCHANGED <<running, lid, strayed, late>>, HandsStay,
             slot' \in {0, slot} \/ (slot' \in Lids /\ dpc[slot'] # "none"),
             \A d \in Lids : dpc'[d] # "none" => dpc[d] # "none",
             \A d \in Lids :
               dpc'[d] = "cancelled" \/ d \in cancels' \/ d \in awaited' =>
                 dpc[d] = "cancelled" \/ d \in cancels \/ d \in awaited \/ d < lid
      PROVE  Drains'
  <2>1. slot' <= lid' /\ (slot' # 0 => slot' % 2 = 1)
    BY <1>1, <1>4 DEF Drains
  <2>. QED
    BY <1>1, <1>4, <2>1 DEF Drains, HandsStay
<1>5. CASE Claim
  <2>1. UNCHANGED <<running, lid, strayed, late, hand>> /\ slot' = 0 /\ ~running
    BY <1>5 DEF Claim, histVars, Generations
  <2>2. \A d \in Lids : d = slot => d < lid
    BY <1>1, <2>1 DEF Drains, Generations
  <2>3. \A d \in Lids :
          /\ dpc'[d] # "none" => dpc[d] # "none"
          /\ dpc'[d] \in {"sending", "cancelled"} <=> dpc[d] \in {"sending", "cancelled"}
          /\ dpc'[d] = "cancelled" => dpc[d] = "cancelled" \/ d = slot
    BY <1>1, <1>5 DEF Claim, Struck
  <2>4. \A d \in Lids : (d \in cancels' => d \in cancels \/ d = slot) /\ (d \in awaited' => d \in awaited \/ d = slot)
    BY <1>5 DEF Claim
  <2>. QED
    BY <1>4, <2>1, <2>2, <2>3, <2>4 DEF HandsStay, Held
<1>6. CASE TakeOver \/ Gathered
  <2>1. UNCHANGED <<running, lid, strayed, late, hand, slot, dpc>>
    BY <1>6 DEF TakeOver, Gathered, histVars, lifeVars
  <2>2. \A d \in Lids : d \in cancels' \/ d \in awaited' => d \in cancels \/ d \in awaited
    BY <1>6 DEF TakeOver, Gathered
  <2>. QED
    BY <1>4, <2>1, <2>2 DEF HandsStay, Held
<1>7. ASSUME NEW d \in Lids, StartDrain(d) PROVE Drains'
  <2>1. /\ UNCHANGED <<running, lid, strayed, late, hand, cancels, awaited>> /\ slot' = d
        /\ dpc[d] = "starting" /\ dpc' = [dpc EXCEPT ![d] = "loop"]
    BY <1>7 DEF StartDrain, histVars, lifeVars
  <2>2. Held' = Held
    BY <1>1, <2>1 DEF Held
  <2>3. \A e \in Lids :
          (dpc'[e] # "none" => dpc[e] # "none") /\ (dpc'[e] = "cancelled" => dpc[e] = "cancelled")
    BY <1>1, <2>1
  <2>4. slot' \in Lids /\ dpc[slot'] # "none"
    BY <2>1
  <2>. QED
    BY <1>4, <2>1, <2>2, <2>3, <2>4 DEF HandsStay
<1>8. ASSUME NEW d \in Lids, CancelArrives(d) PROVE Drains'
  <2>1. /\ UNCHANGED <<running, lid, strayed, late, hand, slot, awaited>> /\ cancels' = cancels \ {d}
        /\ d \in cancels /\ dpc' = [dpc EXCEPT ![d] = Struck(d)] /\ dpc[d] \in {"loop", "sending"}
    BY <1>8 DEF CancelArrives, histVars, lifeVars
  <2>2. \A e \in Lids :
          /\ dpc'[e] # "none" => dpc[e] # "none"
          /\ dpc'[e] \in {"sending", "cancelled"} <=> dpc[e] \in {"sending", "cancelled"}
          /\ dpc'[e] = "cancelled" => dpc[e] = "cancelled" \/ e \in cancels
    BY <1>1, <2>1 DEF Struck
  <2>. QED
    BY <1>4, <2>1, <2>2 DEF HandsStay, Held
<1>9. ASSUME NEW d \in Lids, SendTaskEnds(d) PROVE Drains'
  <2>1. UNCHANGED <<running, lid, drainVars, strayed, late>>
    BY <1>9 DEF SendTaskEnds, histVars, lifeVars
  <2>. QED
    BY <2>1 DEF Drains, Held, drainVars
<1>10. ASSUME NEW d \in Lids, DrainTakes(d) PROVE Drains'
  <2>1. /\ UNCHANGED <<running, lid, strayed, late, slot, cancels, awaited>> /\ running /\ d = lid
        /\ dpc[d] = "loop" /\ dpc' = [dpc EXCEPT ![d] = "sending"]
        /\ \A e \in Lids \ {d} : hand'[e] = hand[e]
    BY <1>1, <1>10 DEF DrainTakes, histVars, lifeVars, Active
  <2>2. Held' = Held \cup {d} /\ d \notin strayed
    BY <1>1, <2>1 DEF Held, Drains
  <2>3. /\ \A e \in Lids : dpc'[e] # "none" => e <= lid /\ e % 2 = 1
        /\ \A e \in Lids : dpc'[e] = "cancelled" => dpc[e] = "cancelled"
    BY <1>1, <2>1 DEF Drains
  <2>4. \A e \in Held' \ strayed' : e = lid
    BY <2>1, <2>2 DEF Drains
  <2>5. \A e \in Held' \cap strayed' : hand'[e].m \in late'
    BY <2>1, <2>2 DEF Drains, Held
  <2>6. \A e \in Lids :
          dpc'[e] = "cancelled" \/ e \in cancels' \/ e \in awaited' \/ e \in strayed' => e < lid'
    BY <2>1, <2>3 DEF Drains
  <2>. QED
    BY <2>1, <2>3, <2>4, <2>5, <2>6 DEF Drains
<1>11. ASSUME NEW d \in Lids, DrainGoesOn(d) \/ DrainEnds(d) \/ DrainCancelled(d) PROVE Drains'
  <2>1. /\ UNCHANGED <<running, lid, strayed, late, slot, awaited>> /\ cancels' \subseteq cancels
        /\ dpc[d] # "none" /\ \E p \in {"none", "loop"} : dpc' = [dpc EXCEPT ![d] = p]
        /\ \A e \in Lids \ {d} : hand'[e] = hand[e]
    BY <1>1, <1>11 DEF DrainGoesOn, DrainEnds, DrainStops, DrainCancelled, AfterSend, histVars, lifeVars
  <2>2. Held' \subseteq Held \ {d}
    BY <1>1, <2>1 DEF Held
  <2>3. /\ \A e \in Lids : dpc'[e] # "none" => dpc[e] # "none"
        /\ \A e \in Lids : dpc'[e] = "cancelled" => dpc[e] = "cancelled"
    BY <1>1, <2>1
  <2>4. \A e \in Held' \ strayed' : e = IF running THEN lid ELSE lid - 1
    BY <2>1, <2>2 DEF Drains
  <2>5. \A e \in Held' \cap strayed' : hand'[e].m \in late'
    BY <2>1, <2>2 DEF Drains, Held
  <2>6. \A e \in Lids :
          dpc'[e] = "cancelled" \/ e \in cancels' \/ e \in awaited' \/ e \in strayed' => e < lid'
    BY <2>1, <2>3 DEF Drains
  <2>. QED
    BY <2>1, <2>3, <2>4, <2>5, <2>6 DEF Drains
<1>12. CASE UNCHANGED <<running, lid, drainVars, strayed, late>>
  BY <1>12 DEF Drains, Held, drainVars
<1>. QED
  BY <1>2, <1>3, <1>5, <1>6, <1>7, <1>8, <1>9, <1>10, <1>11, <1>12, DrainFrame DEF DrainStep

\* Where a call of send() goes when its chunk is done with.
LEMMA ChunkEnds ==
  ASSUME TypeOK, NEW s \in Senders, NEW r, NextChunk(s) \/ ChunkFails(s, r)
  PROVE  \E p \in {"chunk", "sent", "failed"} : spc' = [spc EXCEPT ![s] = p]
BY DEF NextChunk, ChunkFails

LEMMA CallsStep ==
  ASSUME TypeOK, Generations, Drains, Calls, Work, Next
  PROVE  Calls'
<1>1. /\ lid \in Nat /\ dpc \in [Lids -> {"none", "starting", "loop", "sending", "cancelled"}]
      /\ tpc \in [Actors -> {"idle", "begin", "await", "done"}]
      /\ reply \in [Actors -> Answers] /\ hand \in [Lids -> Items \cup {<<>>}]
      /\ spc \in [Senders -> {"chunk", "sending", "acking", "sent", "failed"}]
  BY DEF TypeOK
<1>2. /\ \A d \in Lids : d \in Nat /\ d \in Actors /\ d \notin Senders
      /\ \A s \in Senders : s \in Actors /\ s \notin Lids
  BY LidType DEF Actors
<1>3. CASE Connect
  <2>1. /\ lid' = lid + 1 /\ dpc' = [dpc EXCEPT ![lid'] = "starting"]
        /\ UNCHANGED <<spc, tpc, reply, hand>>
    BY <1>3 DEF Connect, sendVars, callVars
  <2>2. Held' \subseteq Held
    BY <1>1, <2>1 DEF Held
  <2>. QED
    BY <1>1, <1>2, <2>1, <2>2 DEF Calls
<1>4. CASE Disconnect \/ Register \/ LinkDrops \/ Gathered \/ TakeOver \/ Close
  <2>1. UNCHANGED <<spc, tpc, reply, hand, dpc>> /\ lid' \in {lid, lid + 1}
    BY <1>4 DEF Disconnect, Register, LinkDrops, Gathered, TakeOver, Close, lifeVars, sendVars,
       callVars, drainVars
  <2>. QED
    BY <1>1, <1>2, <2>1 DEF Calls, Held
<1>5. CASE Claim
  <2>1. /\ UNCHANGED <<lid, spc, tpc, reply, hand>>
        /\ \A d \in Lids :
             /\ dpc'[d] \in {"sending", "cancelled"} <=> dpc[d] \in {"sending", "cancelled"}
             /\ dpc'[d] \in {"starting", "loop"} => dpc[d] \in {"starting", "loop"}
    BY <1>1, <1>5 DEF Claim, Struck, sendVars, callVars
  <2>. QED
    BY <1>1, <1>2, <2>1 DEF Calls, Held
<1>6. ASSUME NEW s \in Senders, SendStep(s) PROVE Calls'
  <2>1. UNCHANGED <<lid, dpc, hand>>
    BY <1>6 DEF SendStep, SendChunk, QueueChunk, SendReturns, AckVerdict, lifeVars, drainVars
  <2>2. CASE SendChunk(s)
    BY <1>1, <1>2, <2>1, <2>2 DEF SendChunk, Calls, Held
  <2>3. CASE QueueChunk(s) \/ AckVerdict(s)
    <3>1. spc[s] \in {"chunk", "acking"} /\ UNCHANGED <<tpc, reply>>
      BY <2>3 DEF QueueChunk, AckVerdict, callVars
    <3>2. \E p \in {"chunk", "sent", "failed"} : spc' = [spc EXCEPT ![s] = p]
      BY <2>3, ChunkEnds DEF QueueChunk, AckVerdict
    <3>. QED
      BY <1>1, <1>2, <2>1, <3>1, <3>2 DEF Calls, Held
  <2>4. CASE SendReturns(s)
    <3>1. \E p \in {"chunk", "sent", "failed", "acking"} : spc' = [spc EXCEPT ![s] = p]
      BY <2>4, ChunkEnds DEF SendReturns
    <3>2. tpc' = [tpc EXCEPT ![s] = "idle"] /\ reply' = [reply EXCEPT ![s] = "none"]
      BY <2>4 DEF SendReturns
    <3>. QED
      BY <1>1, <1>2, <2>1, <3>1, <3>2 DEF Calls, Held
  <2>. QED
    BY <1>6, <2>2, <2>3, <2>4 DEF SendStep
<1>7. ASSUME NEW a \in Actors, Begin(a) PROVE Calls'
  <2>1. /\ tpc[a] = "begin" /\ tpc' = [tpc EXCEPT ![a] = "await"]
        /\ UNCHANGED <<lid, dpc, hand, spc>>
        /\ \E r : reply' = [reply EXCEPT ![a] = r]
    BY <1>7 DEF Begin, lifeVars, drainVars, sendVars
  <2>. QED
    BY <1>1, <1>2, <2>1 DEF Calls, Held
<1>8. ASSUME NEW w \in Lids, WorkerStep(w) PROVE Calls'
  <2>1. UNCHANGED <<lid, dpc, hand, spc, tpc>>
    BY <1>8 DEF WorkerStep, Take, SendText, lifeVars, drainVars, sendVars
  <2>2. \/ reply' = reply
        \/ jobs[w] # <<>> /\ \E r : reply' = [reply EXCEPT ![Head(jobs[w])] = r]
    BY <1>8 DEF WorkerStep, Take, SendText, Answer, Work
  <2>3. jobs[w] # <<>> => Head(jobs[w]) \in Actors /\ tpc[Head(jobs[w])] = "await"
    BY JobFacts
  <2>. QED
    BY <1>1, <1>2, <2>1, <2>2, <2>3 DEF Calls, Held
<1>9. ASSUME NEW d \in Lids, DrainStep(d) PROVE Calls'
  <2>1. UNCHANGED <<lid, spc>>
    BY <1>9 DEF DrainStep, StartDrain, DrainTakes, SendTaskEnds, DrainGoesOn, DrainEnds,
       CancelArrives, DrainStops, DrainCancelled, lifeVars, sendVars
  <2>2. CASE StartDrain(d) \/ DrainEnds(d)
    <3>1. /\ UNCHANGED <<tpc, reply, hand>> /\ dpc[d] \in {"starting", "loop"}
          /\ \E p \in {"loop", "none"} : dpc' = [dpc EXCEPT ![d] = p]
      BY <2>2 DEF StartDrain, DrainEnds, DrainStops, callVars
    <3>. QED
      BY <1>1, <1>2, <2>1, <3>1 DEF Calls, Held
  <2>3. CASE DrainTakes(d)
    <3>1. /\ dpc[d] = "loop" /\ dpc' = [dpc EXCEPT ![d] = "sending"] /\ reply' = reply
          /\ hand' = [hand EXCEPT ![d] = Head(queue)] /\ tpc' = [tpc EXCEPT ![d] = "begin"]
      BY <2>3 DEF DrainTakes
    <3>2. d <= lid /\ d % 2 = 1
      BY <1>1, <2>3 DEF DrainTakes, Active, Generations
    <3>3. Head(queue) \in Items
      BY <2>3, TailAt DEF DrainTakes, TypeOK
    <3>. QED
      BY <1>1, <1>2, <2>1, <3>1, <3>2, <3>3 DEF Calls, Held
  <2>4. CASE SendTaskEnds(d)
    <3>1. tpc[d] = "await" /\ tpc' = [tpc EXCEPT ![d] = "done"] /\ UNCHANGED <<dpc, hand>>
          /\ \E r : reply' = [reply EXCEPT ![d] = r]
      BY <2>4 DEF SendTaskEnds, Answered, drainVars
    <3>. QED
      BY <1>1, <1>2, <2>1, <3>1 DEF Calls, Held
  <2>5. CASE DrainGoesOn(d)
    <3>1. /\ dpc' = [dpc EXCEPT ![d] = "loop"] /\ hand' = [hand EXCEPT ![d] = <<>>]
          /\ tpc' = [tpc EXCEPT ![d] = "idle"] /\ reply' = [reply EXCEPT ![d] = "none"]
      BY <2>5 DEF DrainGoesOn, AfterSend, ForgetCall
    <3>. QED
      BY <1>1, <1>2, <2>1, <3>1 DEF Calls, Held
  <2>6. CASE DrainCancelled(d)
    <3>1. /\ dpc' = [dpc EXCEPT ![d] = "none"] /\ hand' = hand
          /\ \/ tpc' = [tpc EXCEPT ![d] = "idle"] /\ reply' = [reply EXCEPT ![d] = "none"]
             \/ UNCHANGED <<tpc, reply>>
      BY <2>6 DEF DrainCancelled, DrainStops, ForgetCall, callVars
    <3>. QED
      BY <1>1, <1>2, <2>1, <3>1 DEF Calls, Held
  <2>7. CASE CancelArrives(d)
    <3>1. /\ UNCHANGED <<tpc, reply, hand>>
          /\ \/ dpc[d] = "loop" /\ dpc' = [dpc EXCEPT ![d] = "none"]
             \/ dpc[d] = "sending" /\ dpc' = [dpc EXCEPT ![d] = "cancelled"]
      BY <2>7 DEF CancelArrives, Struck, callVars
    <3>. QED
      BY <1>1, <1>2, <2>1, <3>1 DEF Calls, Held
  <2>. QED
    BY <1>9, <2>2, <2>3, <2>4, <2>5, <2>6, <2>7 DEF DrainStep
<1>. QED
  BY <1>3, <1>4, <1>5, <1>6, <1>7, <1>8, <1>9 DEF Next, TeardownStep

\* What happens to an actor that waits for no worker leaves the jobs as they are.
LEMMA WorkStays ==
  ASSUME TypeOK, Work, UNCHANGED jobVars, NEW a \in Actors,
         ~(tpc[a] = "await" /\ reply[a] = "none"),
         \A b \in Actors \ {a} : tpc'[b] = tpc[b] /\ reply'[b] = reply[b]
  PROVE  Work'
<1>1. \A w \in Lids : \A i \in 1..Len(jobs[w]) : jobs[w][i] \in Actors /\ jobs[w][i] # a
  BY DEF TypeOK, Work
<1>. QED
  BY <1>1 DEF Work, jobVars

\* The worker has answered its first job.
LEMMA WorkAnswered ==
  ASSUME TypeOK, Work, NEW w \in Lids, jobs[w] # <<>>, NEW r, Answer(w, r), tpc' = tpc
  PROVE  Work'
<1>1. /\ \A v \in Lids : jobs[v] \in Seq(Actors)
      /\ \A v \in Lids, i \in 1..Len(jobs[w]) : jobs[w][i] \in Actors
      /\ reply \in [Actors -> Answers]
  BY DEF TypeOK
<1>2. /\ Len(jobs[w]) \in Nat /\ Len(jobs[w]) >= 1 /\ Len(Tail(jobs[w])) = Len(jobs[w]) - 1
      /\ Head(jobs[w]) = jobs[w][1] /\ jobs[w][1] \in Actors
      /\ \A i \in 1..Len(jobs[w]) - 1 : Tail(jobs[w])[i] = jobs[w][i + 1]
  BY <1>1, TailAt
<1>3. jobs' = [jobs EXCEPT ![w] = Tail(jobs[w])] /\ reply' = [reply EXCEPT ![jobs[w][1]] = r]
      /\ sending' = [sending EXCEPT ![w] = FALSE]
  BY <1>2 DEF Answer
<1>4. /\ jobs \in [Lids -> Seq(Actors)] /\ sending \in [Lids -> BOOLEAN]
  BY DEF TypeOK
<1>. DEFINE At(v, i) == IF v = w THEN i + 1 ELSE i
<1>5. \A v \in Lids : \A i \in 1..Len(jobs'[v]) :
        /\ At(v, i) \in 1..Len(jobs[v]) /\ jobs'[v][i] = jobs[v][At(v, i)]
        /\ jobs[v][At(v, i)] # jobs[w][1]
  <2>1. ASSUME NEW i \in 1..Len(jobs'[w])
        PROVE  i + 1 \in 1..Len(jobs[w]) /\ jobs'[w][i] = jobs[w][i + 1] /\ jobs[w][i + 1] # jobs[w][1]
    BY <1>2, <1>3, <1>4 DEF Work
  <2>2. ASSUME NEW v \in Lids \ {w}, NEW i \in 1..Len(jobs'[v])
        PROVE  i \in 1..Len(jobs[v]) /\ jobs'[v][i] = jobs[v][i] /\ jobs[v][i] # jobs[w][1]
    BY <1>2, <1>3, <1>4 DEF Work
  <2>. QED
    BY <2>1, <2>2
<1>6. \A v \in Lids : \A i \in 1..Len(jobs'[v]) : jobs'[v][i] \in Actors /\ jobs'[v][i] # jobs[w][1]
  BY <1>1, <1>5
<1>7. \A v \in Lids : \A i \in 1..Len(jobs'[v]) :
        tpc'[jobs'[v][i]] = "await" /\ reply'[jobs'[v][i]] = "none"
  <2>1. SUFFICES ASSUME NEW v \in Lids, NEW i \in 1..Len(jobs'[v])
                 PROVE  tpc'[jobs'[v][i]] = "await" /\ reply'[jobs'[v][i]] = "none"
    OBVIOUS
  <2>2. tpc[jobs'[v][i]] = "await" /\ reply[jobs'[v][i]] = "none"
    BY <1>5 DEF Work
  <2>. QED
    BY <1>1, <1>3, <1>6, <2>2
<1>8. \A u, v \in Lids : \A i \in 1..Len(jobs'[u]), j \in 1..Len(jobs'[v]) :
        jobs'[u][i] = jobs'[v][j] => u = v /\ i = j
  <2>1. SUFFICES ASSUME NEW u \in Lids, NEW v \in Lids, NEW i \in 1..Len(jobs'[u]),
                        NEW j \in 1..Len(jobs'[v]), jobs'[u][i] = jobs'[v][j]
                 PROVE  u = v /\ i = j
    OBVIOUS
  <2>2. /\ At(u, i) \in 1..Len(jobs[u]) /\ At(v, j) \in 1..Len(jobs[v])
        /\ jobs[u][At(u, i)] = jobs[v][At(v, j)]
    BY <1>5, <2>1
  <2>3. u = v /\ At(u, i) = At(v, j)
    BY <2>2 DEF Work
  <2>. QED
    BY <2>3
<1>9. \A v \in Lids : sending'[v] => jobs'[v] # <<>>
  BY <1>3, <1>4 DEF Work
<1>. QED
  BY <1>7, <1>8, <1>9 DEF Work

LEMMA WorkSubmitted ==
  ASSUME TypeOK, Work, NEW a \in Actors, Begin(a)
  PROVE  Work'
<1>1. /\ tpc[a] = "begin" /\ tpc' = [tpc EXCEPT ![a] = "await"] /\ sending' = sending
  BY DEF Begin
<1>2. /\ jobs \in [Lids -> Seq(Actors)] /\ tpc \in [Actors -> {"idle", "begin", "await", "done"}]
      /\ reply \in [Actors -> Answers]
  BY DEF TypeOK
<1>3. \A w \in Lids : \A i \in 1..Len(jobs[w]) : jobs[w][i] \in Actors /\ jobs[w][i] # a
  BY <1>1, <1>2 DEF Work
<1>4. CASE jobs' = jobs /\ \E r : reply' = [reply EXCEPT ![a] = r]
  BY <1>1, <1>2, <1>3, <1>4 DEF Work
<1>5. CASE HasRoom
  <2>1. executor \in Lids
    BY <1>5 DEF HasRoom, TypeOK, Lids
  <2>2. /\ jobs' = [jobs EXCEPT ![executor] = Append(jobs[executor], a)]
        /\ reply' = [reply EXCEPT ![a] = "none"]
    BY <1>5 DEF Begin
  <2>3. /\ Len(jobs[executor]) \in Nat /\ Len(jobs'[executor]) = Len(jobs[executor]) + 1
        /\ jobs'[executor][Len(jobs[executor]) + 1] = a
        /\ \A i \in 1..Len(jobs[executor]) : jobs'[executor][i] = jobs[executor][i]
        /\ \A v \in Lids \ {executor} : jobs'[v] = jobs[v]
    BY <1>2, <2>1, <2>2, AppendAt
  <2>4. \A v \in Lids : \A i \in 1..Len(jobs'[v]) :
          \/ i \in 1..Len(jobs[v]) /\ jobs'[v][i] = jobs[v][i] /\ jobs[v][i] # a
          \/ v = executor /\ i = Len(jobs[executor]) + 1 /\ jobs'[v][i] = a
    BY <1>3, <2>1, <2>3
  <2>5. \A v \in Lids : \A i \in 1..Len(jobs'[v]) :
          tpc'[jobs'[v][i]] = "await" /\ reply'[jobs'[v][i]] = "none"
    BY <1>1, <1>2, <1>3, <2>2, <2>4 DEF Work
  <2>6. \A u, v \in Lids : \A i \in 1..Len(jobs'[u]), j \in 1..Len(jobs'[v]) :
          jobs'[u][i] = jobs'[v][j] => u = v /\ i = j
    BY SMTT(30), <2>4 DEF Work
  <2>7. \A v \in Lids : sending'[v] => jobs'[v] # <<>>
    <3>1. jobs'[executor] # <<>>
      BY <2>3
    <3>. QED
      BY <1>1, <2>3, <3>1 DEF Work
  <2>. QED
    BY <2>5, <2>6, <2>7 DEF Work
<1>. QED
  BY <1>4, <1>5 DEF Begin

LEMMA WorkStep ==
  ASSUME TypeOK, Calls, Work, Next
  PROVE  Work'
<1>1. /\ tpc \in [Actors -> {"idle", "begin", "await", "done"}] /\ reply \in [Actors -> Answers]
      /\ \A d \in Lids : d \in Actors
      /\ \A s \in Senders : s \in Actors
  BY LidType DEF TypeOK, Actors
<1>2. CASE Connect \/ Disconnect \/ Register \/ LinkDrops \/ TeardownStep \/ TakeOver
  BY <1>2 DEF Connect, Disconnect, Register, LinkDrops, TeardownStep, TakeOver, Claim, Gathered,
     Close, callVars, jobVars, Work
<1>3. ASSUME NEW s \in Senders, SendStep(s) PROVE Work'
  <2>1. UNCHANGED jobVars
    BY <1>3 DEF SendStep, SendChunk, QueueChunk, SendReturns, AckVerdict
  <2>2. CASE QueueChunk(s) \/ AckVerdict(s)
    <3>1. UNCHANGED <<tpc, reply>>
      BY <2>2 DEF QueueChunk, AckVerdict, callVars
    <3>. QED
      BY <2>1, <3>1 DEF jobVars, Work
  <2>3. CASE SendChunk(s)
    BY <1>1, <2>1, <2>3, WorkStays DEF SendChunk, Calls
  <2>4. CASE SendReturns(s)
    BY <1>1, <2>1, <2>4, WorkStays DEF SendReturns, Answered
  <2>. QED
    BY <1>3, <2>2, <2>3, <2>4 DEF SendStep
<1>4. ASSUME NEW a \in Actors, Begin(a) PROVE Work'
  BY <1>4, WorkSubmitted
<1>5. ASSUME NEW w \in Lids, WorkerStep(w) PROVE Work'
  <2>1. tpc' = tpc /\ jobs[w] # <<>>
    BY <1>5 DEF WorkerStep, Take, SendText, Work
  <2>2. CASE \E r : Answer(w, r)
    BY <2>1, <2>2, WorkAnswered
  <2>3. CASE sending' = [sending EXCEPT ![w] = TRUE] /\ UNCHANGED <<jobs, reply>>
    BY SMTT(30), <2>1, <2>3 DEF Work, TypeOK
  <2>. QED
    BY <1>5, <2>2, <2>3 DEF WorkerStep, Take, SendText
<1>6. ASSUME NEW d \in Lids, DrainStep(d) PROVE Work'
  <2>1. UNCHANGED jobVars
    BY <1>6 DEF DrainStep, StartDrain, DrainTakes, SendTaskEnds, DrainGoesOn, DrainEnds,
       CancelArrives, DrainStops, DrainCancelled, jobVars
  <2>2. CASE UNCHANGED <<tpc, reply>>
    BY <2>1, <2>2 DEF Work, jobVars
  <2>3. CASE DrainTakes(d)
    BY <1>1, <2>1, <2>3, WorkStays DEF DrainTakes, Calls
  <2>4. CASE SendTaskEnds(d)
    BY <1>1, <2>1, <2>4, WorkStays DEF SendTaskEnds, Answered
  <2>5. CASE tpc[d] = "done" /\ ForgetCall(d)
    BY <1>1, <2>1, <2>5, WorkStays DEF ForgetCall
  <2>. QED
    BY <1>6, <2>2, <2>3, <2>4, <2>5 DEF DrainStep, StartDrain, DrainEnds, DrainGoesOn,
       CancelArrives, DrainCancelled, callVars
<1>. QED
  BY <1>2, <1>3, <1>4, <1>5, <1>6 DEF Next

-----------------------------------------------------------------------------
(* A chunk that is still its send's is new to the queue.                   *)

\* A step of somebody else: no chunk is new to the queue or ceases to be.
LEMMA AheadKept ==
  ASSUME TypeOK, Ahead, UNCHANGED <<spc, idx, kind, direct>>,
         \A m \in Messages : fate'[m] = "new" <=> fate[m] = "new",
         \A s \in Senders : reply'[s] \in {"none", "noIface"} => reply[s] \in {"none", "noIface"}
  PROVE  Ahead'
<1>1. \A s \in Senders : Message(s)' = Message(s) /\ Message(s) \in Messages
  BY MessageNew DEF Message
<1>. QED
  BY <1>1, MessageFacts DEF Ahead, QueuedMeansUnsent

\* A chunk is done with, and has been queued only if nothing of it went out.
LEMMA AheadNext ==
  ASSUME TypeOK, Ahead, NEW s \in Senders, NextChunk(s), UNCHANGED <<kind, direct>>,
         \A m \in Messages : m # Message(s) => (fate'[m] = "new" <=> fate[m] = "new"),
         fate'[Message(s)] = fate[Message(s)] \/ direct[Message(s)] = 0,
         \A t \in Senders \ {s} : reply'[t] = reply[t]
  PROVE  Ahead'
<1>1. /\ spc \in [Senders -> {"chunk", "sending", "acking", "sent", "failed"}]
      /\ idx \in [Senders -> Nat] /\ \A t \in Senders : idx[t] \in 1..Chunks[t]
      /\ \A t \in Senders : Chunks[t] \in Nat
  BY Bounds DEF TypeOK
<1>2. \A t \in Senders : \A k \in 1..Chunks[t] :
        <<t, k>> = Message(s) <=> t = s /\ k = idx[s]
  BY DEF Message
<1>3. \A t \in Senders \ {s} : idx'[t] = idx[t] /\ spc'[t] = spc[t] /\ Message(t)' = Message(t)
  BY <1>1 DEF NextChunk, Message
<1>4. \A t \in Senders : \A k \in 1..Chunks[t] :
        k > idx'[t] => k > idx[t] /\ fate'[<<t, k>>] = "new" /\ direct'[<<t, k>>] = 0
  <2>1. SUFFICES ASSUME NEW t \in Senders, NEW k \in 1..Chunks[t], k > idx'[t]
                 PROVE  k > idx[t] /\ fate'[<<t, k>>] = "new" /\ direct'[<<t, k>>] = 0
    OBVIOUS
  <2>2. idx'[t] >= idx[t]
    BY <1>1, <1>3 DEF NextChunk
  <2>3. k > idx[t]
    BY <1>1, <1>3, <2>1, <2>2 DEF NextChunk
  <2>4. <<t, k>> # Message(s) /\ <<t, k>> \in Messages
    BY <1>1, <1>2, <2>3, MessageFacts
  <2>. QED
    BY <2>3, <2>4 DEF Ahead
<1>5. \A m \in Messages : fate'[m] # "new" => direct'[m] = 0
  BY DEF Ahead, QueuedMeansUnsent
<1>6. \A t \in Senders \ {s} : Message(t) # Message(s) /\ Message(t) \in Messages
  BY MessageNew DEF Message
<1>7. \A t \in Senders \ {s} :
        /\ spc'[t] \in {"chunk", "sending", "acking"} => fate'[Message(t)'] = "new"
        /\ kind'[t] = "plain" /\ spc'[t] \in {"chunk", "sending"} /\ reply'[t] \in {"none", "noIface"}
             => direct'[Message(t)'] = 0
  BY <1>3, <1>6 DEF Ahead
<1>8. CASE idx[s] < Chunks[s]
  <2>1. idx'[s] = idx[s] + 1 /\ idx'[s] \in 1..Chunks[s] /\ Message(s)' = <<s, idx[s] + 1>>
    BY <1>1, <1>8 DEF NextChunk, Message
  <2>2. <<s, idx[s] + 1>> # Message(s) /\ <<s, idx[s] + 1>> \in Messages
    BY <1>1, <1>2, <2>1, MessageFacts
  <2>3. fate'[Message(s)'] = "new" /\ direct'[Message(s)'] = 0
    BY <1>1, <2>1, <2>2 DEF Ahead
  <2>. QED
    BY <1>4, <1>5, <1>7, <2>3 DEF Ahead, QueuedMeansUnsent
<1>9. CASE ~(idx[s] < Chunks[s])
  <2>1. spc'[s] = "sent"
    BY <1>1, <1>9 DEF NextChunk
  <2>. QED
    BY <1>4, <1>5, <1>7, <2>1 DEF Ahead, QueuedMeansUnsent
<1>. QED
  BY <1>8, <1>9

\* A chunk that failed is tried again only in a call that waits for its ACK.
LEMMA AheadFailed ==
  ASSUME TypeOK, Ahead, NEW s \in Senders, NEW r, ChunkFails(s, r),
         spc[s] \in {"chunk", "sending", "acking"}, UNCHANGED <<kind, direct, fate>>,
         \A t \in Senders \ {s} : reply'[t] = reply[t]
  PROVE  Ahead'
<1>1. /\ spc \in [Senders -> {"chunk", "sending", "acking", "sent", "failed"}]
      /\ attempt[s] \in Nat /\ attempt[s] >= 1
  BY Bounds DEF TypeOK
<1>2. idx' = idx /\ \A t \in Senders : Message(t)' = Message(t)
  BY DEF ChunkFails, Message
<1>3. /\ \A t \in Senders \ {s} : spc'[t] = spc[t]
      /\ spc'[s] \in {"chunk", "failed"}
      /\ kind[s] = "plain" => spc'[s] = "failed"
  BY <1>1 DEF ChunkFails, Attempts
<1>. QED
  BY <1>2, <1>3 DEF Ahead, QueuedMeansUnsent

\* A chunk leaves by its own send while it is new to the queue.
LEMMA AheadLeft ==
  ASSUME TypeOK, Calls, Ahead, NEW s \in Senders, tpc[s] = "await", Leaves(s),
         UNCHANGED <<spc, idx, kind, fate>>, \A t \in Senders \ {s} : reply'[t] = reply[t],
         reply'[s] \notin {"none", "noIface"}
  PROVE  Ahead'
<1>1. direct' = [direct EXCEPT ![Message(s)] = direct[Message(s)] + 1] /\ direct \in [Messages -> Nat]
  BY DEF Leaves, TypeOK
<1>2. spc[s] = "sending" /\ fate[Message(s)] = "new" /\ idx[s] \in Nat
  BY DEF Calls, Ahead, TypeOK
<1>3. \A m \in Messages : m # Message(s) => direct'[m] = direct[m]
  BY <1>1
<1>4. \A t \in Senders :
        /\ Message(t)' = Message(t) /\ Message(t) \in Messages /\ (t # s => Message(t) # Message(s))
        /\ \A k \in 1..Chunks[t] : k > idx[t] => <<t, k>> # Message(s) /\ <<t, k>> \in Messages
  BY <1>2, MessageNew, MessageFacts DEF Message
<1>. QED
  BY <1>2, <1>3, <1>4 DEF Ahead, QueuedMeansUnsent

\* A queued message is not new, nor is one that is taken off the queue.
LEMMA EnqueueNew ==
  ASSUME TypeOK, Contents, NEW m \in Messages, Enqueue(m)
  PROVE  \A n \in Messages : n # m => (fate'[n] = "new" <=> fate[n] = "new")
<1>1. queue \in Seq(Items) /\ fate \in [Messages -> Fates]
  BY DEF TypeOK, Fates
<1>2. CASE Full
  <2>1. queue # <<>>
    BY <1>1, <1>2, Bounds DEF Full
  <2>2. Head(queue) = queue[1] /\ queue[1] \in Items /\ Len(queue) \in Nat /\ Len(queue) >= 1
    BY <1>1, <2>1, TailAt
  <2>3. queue[1].m \in Messages /\ fate[queue[1].m] = "queued"
    BY <2>2 DEF Contents, Items
  <2>4. fate' = [fate EXCEPT ![m] = "queued", ![queue[1].m] = "evicted"]
    BY <1>2, <2>2 DEF Enqueue
  <2>. QED
    BY <1>1, <2>3, <2>4
<1>3. CASE ~Full
  BY <1>1, <1>3 DEF Enqueue
<1>. QED
  BY <1>2, <1>3

LEMMA AheadStep ==
  ASSUME TypeOK, Calls, Work, Ahead, Contents, Next
  PROVE  Ahead'
<1>1. /\ tpc \in [Actors -> {"idle", "begin", "await", "done"}] /\ reply \in [Actors -> Answers]
      /\ \A d \in Lids : d \in Actors /\ d \notin Senders
      /\ \A s \in Senders : s \in Actors
  BY LidType DEF TypeOK, Actors
<1>2. CASE Connect \/ Disconnect \/ Register \/ LinkDrops \/ TeardownStep \/ TakeOver
  <2>1. UNCHANGED <<spc, idx, kind, direct, fate, reply>>
    BY <1>2 DEF Connect, Disconnect, Register, LinkDrops, TeardownStep, TakeOver, Claim, Gathered,
       Close, sendVars, callVars, histVars
  <2>. QED
    BY <2>1, AheadKept
<1>3. ASSUME NEW s \in Senders, SendStep(s) PROVE Ahead'
  <2>1. Message(s) \in Messages
    BY MessageNew
  <2>2. UNCHANGED <<kind, direct>> /\ \A t \in Senders \ {s} : reply'[t] = reply[t]
    BY <1>1, <1>3 DEF SendStep, SendChunk, QueueChunk, SendReturns, AckVerdict, callVars, histVars
  <2>3. CASE SendChunk(s)
    <3>1. /\ spc[s] = "chunk" /\ spc' = [spc EXCEPT ![s] = "sending"]
          /\ UNCHANGED <<idx, kind, direct, fate, reply>>
      BY <2>3 DEF SendChunk, histVars
    <3>2. \A t \in Senders : Message(t)' = Message(t)
      BY <3>1 DEF Message
    <3>3. \A t \in Senders : spc'[t] \in {"chunk", "sending"} => spc[t] \in {"chunk", "sending"}
      BY <3>1 DEF TypeOK
    <3>4. \A t \in Senders : spc'[t] = "acking" => spc[t] = "acking"
      BY <3>1 DEF TypeOK
    <3>. QED
      BY <3>1, <3>2, <3>3, <3>4 DEF Ahead, QueuedMeansUnsent
  <2>4. CASE QueueChunk(s)
    <3>1. spc[s] = "chunk" /\ reply' = reply /\ reply[s] = "none"
      BY <1>1, <2>4 DEF QueueChunk, callVars, Calls
    <3>2. CASE kind[s] = "plain" /\ Enqueue(Message(s)) /\ NextChunk(s)
      <4>1. direct[Message(s)] = 0
        BY <3>1, <3>2 DEF Ahead
      <4>. QED
        BY <2>1, <2>2, <3>2, <4>1, AheadNext, EnqueueNew
    <3>3. CASE ChunkFails(s, kind[s] = "ack") /\ UNCHANGED <<queue, fate, accepted>>
      BY <2>2, <3>1, <3>3, AheadFailed
    <3>. QED
      BY <2>4, <3>2, <3>3 DEF QueueChunk
  <2>5. CASE SendReturns(s)
    <3>1. spc[s] = "sending" /\ reply' = [reply EXCEPT ![s] = "none"]
      BY <2>5 DEF SendReturns
    <3>2. CASE NextChunk(s) /\ UNCHANGED <<queue, fate, accepted>>
      BY <2>1, <2>2, <3>2, AheadNext
    <3>3. CASE /\ kind[s] = "ack" /\ spc' = [spc EXCEPT ![s] = "acking"]
               /\ UNCHANGED <<idx, attempt, queue, fate, accepted>>
      <4>1. \A t \in Senders : Message(t)' = Message(t)
        BY <3>3 DEF Message
      <4>2. spc'[s] = "acking" /\ \A t \in Senders \ {s} : spc'[t] = spc[t]
        BY <3>3 DEF TypeOK
      <4>3. fate[Message(s)] = "new"
        BY <3>1 DEF Ahead
      <4>. QED
        BY <2>2, <3>3, <4>1, <4>2, <4>3 DEF Ahead, QueuedMeansUnsent
    <3>4. CASE MayQueue(s, Outcome(s)) /\ Enqueue(Message(s)) /\ NextChunk(s)
      <4>1. kind[s] = "plain" /\ reply[s] = "noIface"
        BY <3>4 DEF MayQueue, Outcome
      <4>2. direct[Message(s)] = 0
        BY <3>1, <4>1 DEF Ahead
      <4>. QED
        BY <2>1, <2>2, <3>4, <4>2, AheadNext, EnqueueNew
    <3>5. CASE ChunkFails(s, Transient(Outcome(s))) /\ UNCHANGED <<queue, fate, accepted>>
      BY <2>2, <3>1, <3>5, AheadFailed
    <3>. QED
      BY <2>5, <3>2, <3>3, <3>4, <3>5 DEF SendReturns
  <2>6. CASE AckVerdict(s)
    <3>1. spc[s] = "acking" /\ UNCHANGED <<fate>>
      BY <2>6 DEF AckVerdict, histVars
    <3>2. CASE NextChunk(s)
      BY <2>2, <3>1, <3>2, AheadNext
    <3>3. ASSUME NEW r, ChunkFails(s, r) PROVE Ahead'
      BY <2>2, <3>1, <3>3, AheadFailed
    <3>. QED
      BY <2>6, <3>2, <3>3 DEF AckVerdict
  <2>. QED
    BY <1>3, <2>3, <2>4, <2>5, <2>6 DEF SendStep
<1>4. ASSUME NEW a \in Actors, Begin(a) PROVE Ahead'
  <2>1. /\ UNCHANGED <<spc, idx, kind, direct, fate>>
        /\ reply[a] = "none" /\ \E r : reply' = [reply EXCEPT ![a] = r]
    BY <1>4 DEF Begin, sendVars, histVars, Calls
  <2>. QED
    BY <1>1, <2>1, AheadKept
<1>5. ASSUME NEW w \in Lids, WorkerStep(w) PROVE Ahead'
  <2>1. jobs[w] # <<>> /\ UNCHANGED <<spc, idx, kind, fate>>
    BY <1>5 DEF WorkerStep, Take, SendText, Work, sendVars, histVars
  <2>2. /\ Head(jobs[w]) \in Actors /\ tpc[Head(jobs[w])] = "await" /\ reply[Head(jobs[w])] = "none"
    BY <2>1, JobFacts
  <2>3. \A r : Answer(w, r) => \A b \in Actors : b # Head(jobs[w]) => reply'[b] = reply[b]
    BY <1>1 DEF Answer
  <2>4. CASE direct' = direct /\ (reply' = reply \/ \E r : Answer(w, r))
    BY <1>1, <2>1, <2>2, <2>3, <2>4, AheadKept
  <2>5. CASE Leaves(Head(jobs[w])) /\ \E r \in {"sent", "failed"} : Answer(w, r)
    <3>1. CASE Head(jobs[w]) \in Senders
      <4>1. reply'[Head(jobs[w])] \in {"sent", "failed"}
        BY <1>1, <2>2, <2>5 DEF Answer
      <4>. QED
        BY <1>1, <2>1, <2>2, <2>3, <2>5, <3>1, <4>1, AheadLeft
    <3>2. CASE Head(jobs[w]) \notin Senders
      <4>1. direct' = direct
        BY <2>5, <3>2 DEF Leaves
      <4>. QED
        BY <2>4, <2>5, <4>1
    <3>. QED
      BY <3>1, <3>2
  <2>. QED
    BY <1>5, <2>4, <2>5 DEF WorkerStep, Take, SendText, histVars
<1>6. ASSUME NEW d \in Lids, DrainStep(d) PROVE Ahead'
  <2>1. UNCHANGED <<spc, idx, kind, direct>>
    BY <1>6 DEF DrainStep, StartDrain, DrainTakes, SendTaskEnds, DrainGoesOn, DrainEnds,
       CancelArrives, DrainStops, DrainCancelled, sendVars, histVars
  <2>2. \A s \in Senders : reply'[s] = reply[s]
    BY <1>1, <1>6 DEF DrainStep, StartDrain, DrainTakes, SendTaskEnds, DrainGoesOn, DrainEnds,
       CancelArrives, DrainStops, DrainCancelled, ForgetCall, callVars
  <2>3. \/ fate' = fate
        \/ d \in Held /\ \E f \in {"sent", "dropped", "unsure"} : fate' = [fate EXCEPT ![hand[d].m] = f]
    BY <1>6 DEF DrainStep, StartDrain, DrainTakes, SendTaskEnds, DrainGoesOn, DrainEnds,
       CancelArrives, DrainStops, DrainCancelled, histVars, Held
  <2>4. \A m \in Messages : fate'[m] = "new" <=> fate[m] = "new"
    BY <2>3 DEF Contents, TypeOK
  <2>. QED
    BY <2>1, <2>2, <2>4, AheadKept
<1>. QED
  BY <1>2, <1>3, <1>4, <1>5, <1>6 DEF Next

-----------------------------------------------------------------------------
(* Every step is one of the moves.                                         *)

Move ==
  \/ Stays
  \/ \E m \in Messages, c \in {0, 1} : Arrives(m, c)
  \/ \E d \in Lids : Pulled(d)
  \/ \E d \in Lids, t \in 0..DrainMax - 1 : GivenBack(d, t)
  \/ \E d \in Lids, f \in {"sent", "dropped", "unsure"} : Over(d, f)

\* A drain task that goes on, or is cancelled, in a send has its message no more.
LEMMA HandEmptied ==
  ASSUME TypeOK, NEW d \in Held, NEW p \in {"none", "loop"}, dpc' = [dpc EXCEPT ![d] = p],
         \A e \in Lids \ {d} : hand'[e] = hand[e]
  PROVE  Held' = Held \ {d} /\ \A e \in Held \ {d} : hand'[e] = hand[e]
BY DEF Held, TypeOK

\* One that takes a message had none.
LEMMA TakesPulls ==
  ASSUME TypeOK, Drains, NEW d \in Lids, DrainTakes(d)
  PROVE  Pulled(d) /\ d = lid /\ Held' = Held \cup {d}
<1>1. /\ dpc[d] = "loop" /\ d = lid /\ queue # <<>> /\ UNCHANGED <<fate, accepted>>
      /\ dpc' = [dpc EXCEPT ![d] = "sending"] /\ queue' = Tail(queue)
      /\ hand' = [hand EXCEPT ![d] = Head(queue)]
  BY DEF DrainTakes, Active, histVars
<1>2. d \notin Held /\ Held' = Held \cup {d}
  BY <1>1 DEF Held, TypeOK
<1>3. d \notin strayed
  BY <1>1, LidType DEF Drains, TypeOK
<1>4. hand'[d] = Head(queue) /\ \A e \in Held : hand'[e] = hand[e]
  BY <1>1, <1>2 DEF Held, TypeOK
<1>. QED
  BY <1>1, <1>2, <1>3, <1>4 DEF Pulled

\* The hands are as they were when no drain task takes or parts with a message.
LEMMA HandsKept ==
  ASSUME UNCHANGED hand, \A d \in Lids : dpc'[d] \in {"sending", "cancelled"} <=> dpc[d] \in {"sending", "cancelled"}
  PROVE  SameHands
BY DEF SameHands, Held

\* A drain task that starts, ends or is cancelled leaves the hands as they are.
LEMMA QuietHands ==
  ASSUME TypeOK, NEW d \in Lids,
         StartDrain(d) \/ DrainEnds(d) \/ SendTaskEnds(d) \/ CancelArrives(d)
  PROVE  SameHands /\ hand' = hand
<1>1. /\ hand' = hand
      /\ \/ dpc' = dpc
         \/ dpc[d] \in {"starting", "loop"} /\ \E p \in {"loop", "none"} : dpc' = [dpc EXCEPT ![d] = p]
         \/ dpc[d] = "sending" /\ dpc' = [dpc EXCEPT ![d] = "cancelled"]
  BY DEF StartDrain, DrainEnds, DrainStops, SendTaskEnds, CancelArrives, Struck, drainVars
<1>2. dpc \in [Lids -> {"none", "starting", "loop", "sending", "cancelled"}]
  BY DEF TypeOK
<1>. QED
  BY <1>1, <1>2, HandsKept

LEMMA Moves ==
  ASSUME TypeOK, Generations, Drains, Calls, Work, Ahead, Contents, Next
  PROVE  Move
<1>1. /\ lid \in Nat /\ dpc \in [Lids -> {"none", "starting", "loop", "sending", "cancelled"}]
      /\ hand \in [Lids -> Items \cup {<<>>}]
      /\ \A d \in Lids : d \in Nat
  BY LidType DEF TypeOK
<1>2. CASE Connect
  <2>1. /\ lid' = lid + 1 /\ dpc' = [dpc EXCEPT ![lid'] = "starting"]
        /\ UNCHANGED <<queue, fate, accepted, hand>>
    BY <1>2 DEF Connect, histVars
  <2>2. lid' \in Lids => dpc[lid'] = "none"
    BY <1>1, <2>1 DEF Drains
  <2>. QED
    BY <1>1, <2>1, <2>2, HandsKept DEF Move, Stays
<1>3. CASE Claim
  <2>1. /\ UNCHANGED <<queue, fate, accepted, hand>>
        /\ \A d \in Lids :
             dpc'[d] \in {"sending", "cancelled"} <=> dpc[d] \in {"sending", "cancelled"}
    BY <1>1, <1>3 DEF Claim, Struck, histVars
  <2>. QED
    BY <1>1, <2>1, HandsKept DEF Move, Stays
<1>4. CASE Disconnect \/ Register \/ LinkDrops \/ Gathered \/ TakeOver \/ Close
  <2>1. UNCHANGED <<queue, fate, accepted, hand, dpc>>
    BY <1>4 DEF Disconnect, Register, LinkDrops, Gathered, TakeOver, Close, histVars, drainVars
  <2>. QED
    BY <2>1, HandsKept DEF Move, Stays
<1>5. ASSUME NEW s \in Senders, SendStep(s) PROVE Move
  <2>1. UNCHANGED <<hand, dpc>>
    BY <1>5 DEF SendStep, SendChunk, QueueChunk, SendReturns, AckVerdict, drainVars
  <2>2. SameHands
    BY <2>1, HandsKept
  <2>3. \/ UNCHANGED <<queue, fate, accepted>>
        \/ spc[s] \in {"chunk", "sending"} /\ Enqueue(Message(s))
    BY <1>5 DEF SendStep, SendChunk, QueueChunk, SendReturns, AckVerdict, histVars
  <2>. QED
    BY <2>2, <2>3, MessageNew, EnqueueArrives DEF Move, Stays
<1>6. ASSUME NEW a \in Actors, Begin(a) PROVE Move
  <2>1. UNCHANGED <<queue, fate, accepted, hand, dpc>>
    BY <1>6 DEF Begin, histVars, drainVars
  <2>. QED
    BY <2>1, HandsKept DEF Move, Stays
<1>7. ASSUME NEW w \in Lids, WorkerStep(w) PROVE Move
  <2>1. UNCHANGED <<queue, fate, accepted, hand, dpc>>
    BY <1>7 DEF WorkerStep, Take, SendText, histVars, drainVars
  <2>. QED
    BY <2>1, HandsKept DEF Move, Stays
<1>8. ASSUME NEW d \in Held PROVE hand[d] \in Items /\ d \in Lids
  BY <1>8 DEF Calls, Held
<1>9. ASSUME NEW d \in Lids, DrainStep(d) PROVE Move
  <2>1. CASE StartDrain(d) \/ DrainEnds(d) \/ SendTaskEnds(d) \/ CancelArrives(d)
    <3>1. UNCHANGED <<queue, fate, accepted>> /\ SameHands
      BY <1>9, <2>1, QuietHands DEF StartDrain, DrainEnds, SendTaskEnds, CancelArrives, histVars
    <3>. QED
      BY <3>1 DEF Move, Stays
  <2>2. CASE DrainTakes(d)
    BY <1>9, <2>2, TakesPulls DEF Move
  <2>3. CASE DrainGoesOn(d)
    <3>1. /\ d \in Held /\ dpc' = [dpc EXCEPT ![d] = "loop"] /\ accepted' = accepted
          /\ \A e \in Lids \ {d} : hand'[e] = hand[e]
      BY <1>1, <2>3 DEF DrainGoesOn, AfterSend, Held
    <3>2. Held' = Held \ {d} /\ (\A e \in Held \ {d} : hand'[e] = hand[e]) /\ hand[d] \in Items
      BY <1>8, <3>1, HandEmptied
    <3>3. CASE UNCHANGED queue /\ \E f \in {"sent", "dropped"} : fate' = [fate EXCEPT ![hand[d].m] = f]
      BY <3>1, <3>2, <3>3 DEF Move, Over
    <3>4. CASE DrainsAgain(reply[d], hand[d].tries + 1) /\ UNCHANGED fate
               /\ PutBack([hand[d] EXCEPT !.tries = hand[d].tries + 1])
      <4>1. hand[d].tries + 1 \in 0..DrainMax - 1
        BY <3>2, <3>4, Bounds DEF DrainsAgain, Items
      <4>2. [hand[d] EXCEPT !.tries = hand[d].tries + 1] = [m |-> hand[d].m, tries |-> hand[d].tries + 1]
        BY <3>2 DEF Items
      <4>3. GivenBack(d, hand[d].tries + 1)
        BY <3>1, <3>2, <3>4, <4>1, <4>2 DEF GivenBack, PutBack
      <4>. QED
        BY <4>1, <4>3 DEF Move
    <3>. QED
      BY <2>3, <3>3, <3>4 DEF DrainGoesOn
  <2>4. CASE DrainCancelled(d)
    <3>1. /\ d \in Held /\ dpc' = [dpc EXCEPT ![d] = "none"] /\ accepted' = accepted
          /\ \A e \in Lids \ {d} : hand'[e] = hand[e]
      BY <2>4 DEF DrainCancelled, DrainStops, Held
    <3>2. Held' = Held \ {d} /\ (\A e \in Held \ {d} : hand'[e] = hand[e]) /\ hand[d] \in Items
      BY <1>8, <3>1, HandEmptied
    <3>3. CASE UNCHANGED queue /\ \E f \in {"sent", "unsure"} : fate' = [fate EXCEPT ![hand[d].m] = f]
      BY <3>1, <3>2, <3>3 DEF Move, Over
    <3>4. CASE PutBack(hand[d]) /\ UNCHANGED fate
      <4>1. hand[d].tries \in 0..DrainMax - 1 /\ hand[d] = [m |-> hand[d].m, tries |-> hand[d].tries]
        BY <3>2 DEF Items
      <4>2. GivenBack(d, hand[d].tries)
        BY <3>1, <3>2, <3>4, <4>1 DEF GivenBack, PutBack
      <4>. QED
        BY <4>1, <4>2 DEF Move
    <3>. QED
      BY <2>4, <3>3, <3>4 DEF DrainCancelled
  <2>. QED
    BY <1>9, <2>1, <2>2, <2>3, <2>4 DEF DrainStep
<1>. QED
  BY <1>2, <1>3, <1>4, <1>5, <1>6, <1>7, <1>9 DEF Next, TeardownStep

-----------------------------------------------------------------------------
(* The moves keep the queue's contents, its order and its bound.           *)

\* Where the queue's items come from and go to when a message arrives.
LEMMA ArrivesAt ==
  ASSUME TypeOK, NEW m, NEW c, Arrives(m, c)
  PROVE  /\ Len(queue) \in Nat /\ c \in {0, 1} /\ c <= Len(queue)
         /\ \A i \in 1..Len(queue') :
              \/ i + c \in 1..Len(queue) /\ queue'[i] = queue[i + c]
              \/ i = Len(queue') /\ queue'[i].m = m /\ queue'[i].tries = 0
         /\ \A i \in 1..Len(queue) : i > c => i - c \in 1..Len(queue') /\ queue'[i - c] = queue[i]
         /\ Len(queue') \in 1..Len(queue') /\ queue'[Len(queue')].m = m
         /\ Len(queue') = Len(queue) + 1 - c
<1>1. Len(queue) \in Nat
  BY DEF TypeOK
<1>2. /\ c \in {0, 1} /\ c <= Len(queue) /\ Len(queue') = Len(queue) + 1 - c
      /\ \A i \in 1..Len(queue) - c : queue'[i] = queue[i + c]
      /\ queue'[Len(queue) + 1 - c] = [m |-> m, tries |-> 0]
  BY DEF Arrives
<1>3. \A i \in 1..Len(queue) : i > c => i - c \in 1..Len(queue) - c /\ (i - c) + c = i
  BY <1>1, <1>2
<1>4. /\ [m |-> m, tries |-> 0].m = m /\ [m |-> m, tries |-> 0].tries = 0
      /\ queue'[Len(queue')] = [m |-> m, tries |-> 0]
  BY <1>2
<1>5. queue'[Len(queue')].m = m /\ queue'[Len(queue')].tries = 0
  BY <1>4
<1>6. \A i \in 1..Len(queue') : i = Len(queue') \/ (i \in 1..Len(queue) - c /\ i + c \in 1..Len(queue))
  BY <1>1, <1>2
<1>. QED
  BY <1>1, <1>2, <1>3, <1>5, <1>6

\* Where they come from and go to when a drain task takes one or gives it back.
LEMMA PulledAt ==
  ASSUME TypeOK, NEW d, Pulled(d)
  PROVE  /\ Len(queue) \in Nat /\ Len(queue) >= 1 /\ Len(queue') = Len(queue) - 1
         /\ hand'[d] = queue[1] /\ queue[1] \in Items
         /\ \A i \in 1..Len(queue') : i + 1 \in 1..Len(queue) /\ queue'[i] = queue[i + 1]
         /\ \A i \in 1..Len(queue) : i > 1 => i - 1 \in 1..Len(queue') /\ queue'[i - 1] = queue[i]
<1>1. queue \in Seq(Items)
  BY DEF TypeOK
<1>2. queue # <<>> /\ queue' = Tail(queue) /\ hand'[d] = Head(queue)
  BY DEF Pulled
<1>3. /\ Len(queue) \in Nat /\ Len(queue) >= 1 /\ Len(queue') = Len(queue) - 1
      /\ hand'[d] = queue[1] /\ queue[1] \in Items
      /\ \A i \in 1..Len(queue) - 1 : queue'[i] = queue[i + 1]
  BY <1>1, <1>2, TailAt
<1>. QED
  BY <1>3

LEMMA GivenBackAt ==
  ASSUME TypeOK, Calls, NEW d, NEW t, GivenBack(d, t)
  PROVE  /\ Len(queue) \in Nat /\ Len(queue') = Len(queue) + 1 /\ d \in Held
         /\ queue'[1] = [m |-> hand[d].m, tries |-> t] /\ hand[d].m \in Messages
         /\ \A i \in 1..Len(queue') : i > 1 => i - 1 \in 1..Len(queue) /\ queue'[i] = queue[i - 1]
         /\ \A i \in 1..Len(queue) : i + 1 \in 1..Len(queue') /\ queue'[i + 1] = queue[i]
<1>1. queue \in Seq(Items) /\ d \in Held /\ hand[d].m \in Messages
  BY DEF TypeOK, GivenBack, Calls, Held, Items
<1>2. [m |-> hand[d].m, tries |-> t] \in Items
  BY <1>1 DEF GivenBack, Items
<1>3. queue' = <<[m |-> hand[d].m, tries |-> t]>> \o queue
  BY DEF GivenBack
<1>4. /\ Len(queue) \in Nat /\ Len(queue') = Len(queue) + 1
      /\ queue'[1] = [m |-> hand[d].m, tries |-> t]
      /\ \A i \in 1..Len(queue) : queue'[i + 1] = queue[i]
  BY <1>1, <1>2, <1>3, PushAt
<1>5. \A i \in 1..Len(queue') : i > 1 => i - 1 \in 1..Len(queue) /\ (i - 1) + 1 = i
  BY <1>4
<1>. QED
  BY <1>1, <1>4, <1>5

LEMMA ContentsStep ==
  ASSUME TypeOK, Calls, Orphans, Contents, Move
  PROVE  Contents'
<1>1. /\ fate \in [Messages -> Fates] /\ \A i \in 1..Len(queue) : queue[i].m \in Messages
      /\ \A d \in Held : hand[d].m \in Messages
  <2>1. \A i \in 1..Len(queue) : queue[i] \in Items
    BY DEF TypeOK
  <2>2. \A d \in Held : hand[d] \in Items
    BY DEF Calls, Held
  <2>. QED
    BY <2>1, <2>2 DEF TypeOK, Fates, Items
<1>2. CASE Stays
  <2>1. Held' = Held /\ \A d \in Held : hand'[d] = hand[d]
    BY <1>2 DEF Stays, SameHands
  <2>2. queue' = queue /\ fate' = fate
    BY <1>2 DEF Stays
  <2>. QED
    BY <2>1, <2>2 DEF Contents
<1>3. ASSUME NEW m \in Messages, NEW c \in {0, 1}, Arrives(m, c) PROVE Contents'
  <2>1. /\ Len(queue) \in Nat /\ c <= Len(queue)
        /\ \A i \in 1..Len(queue') :
             \/ i + c \in 1..Len(queue) /\ queue'[i] = queue[i + c]
             \/ i = Len(queue') /\ queue'[i].m = m
        /\ \A i \in 1..Len(queue) : i > c => i - c \in 1..Len(queue') /\ queue'[i - c] = queue[i]
        /\ Len(queue') \in 1..Len(queue') /\ queue'[Len(queue')].m = m
        /\ Len(queue') = Len(queue) + 1 - c
    BY ZenonT(60), <1>3, ArrivesAt
  <2>2. /\ fate[m] = "new" /\ Held' = Held /\ \A d \in Held : hand'[d] = hand[d]
        /\ \A n \in Messages :
             fate'[n] = IF n = m THEN "queued" ELSE IF c = 1 /\ n = queue[1].m THEN "evicted" ELSE fate[n]
    BY <1>3 DEF Arrives, SameHands
  <2>3. \A i \in 1..Len(queue) : fate[queue[i].m] = "queued" /\ queue[i].m # m
    BY <2>2 DEF Contents
  <2>4. \A i \in 1..Len(queue') : fate'[queue'[i].m] = "queued"
    <3>1. ASSUME NEW i \in 1..Len(queue'), i + c \in 1..Len(queue), queue'[i] = queue[i + c]
          PROVE  fate'[queue'[i].m] = "queued"
      <4>1. c = 1 => queue[i + c].m # queue[1].m
        BY <2>1, <3>1 DEF Contents
      <4>. QED
        BY <1>1, <2>2, <2>3, <3>1, <4>1
    <3>. QED
      BY <2>1, <2>2, <3>1
  <2>5. \A i, j \in 1..Len(queue') : queue'[i].m = queue'[j].m => i = j
    <3>1. SUFFICES ASSUME NEW i \in 1..Len(queue'), NEW j \in 1..Len(queue'), queue'[i].m = queue'[j].m
                   PROVE  i = j
      OBVIOUS
    <3>2. CASE i + c \in 1..Len(queue) /\ queue'[i] = queue[i + c]
      <4>1. j + c \in 1..Len(queue) /\ queue'[j] = queue[j + c]
        BY <2>1, <2>3, <3>1, <3>2
      <4>2. i + c = j + c
        BY <3>1, <3>2, <4>1 DEF Contents
      <4>. QED
        BY <2>1, <4>2
    <3>3. CASE i = Len(queue') /\ queue'[i].m = m
      BY <2>1, <2>3, <3>1, <3>3
    <3>. QED
      BY <2>1, <3>2, <3>3
  <2>6. \A d \in Held' :
          fate'[hand'[d].m] = "queued" /\ \A i \in 1..Len(queue') : queue'[i].m # hand'[d].m
    <3>1. SUFFICES ASSUME NEW d \in Held
                   PROVE  fate'[hand[d].m] = "queued" /\ \A i \in 1..Len(queue') : queue'[i].m # hand[d].m
      BY <2>2
    <3>2. /\ fate[hand[d].m] = "queued" /\ hand[d].m # m
          /\ \A i \in 1..Len(queue) : queue[i].m # hand[d].m
      BY <2>2 DEF Contents
    <3>3. c = 1 => hand[d].m # queue[1].m
      BY <2>1, <3>2
    <3>. QED
      BY <1>1, <2>1, <2>2, <3>2, <3>3
  <2>7. \A n \in Messages : fate'[n] = "queued" =>
          \/ \E i \in 1..Len(queue') : queue'[i].m = n
          \/ \E d \in Held' : hand'[d].m = n
    <3>1. SUFFICES ASSUME NEW n \in Messages, fate'[n] = "queued", n # m
                   PROVE  \/ \E i \in 1..Len(queue') : queue'[i].m = n
                          \/ \E d \in Held' : hand'[d].m = n
      BY <2>1
    <3>2. fate[n] = "queued" /\ (c = 1 => n # queue[1].m)
      BY <2>2, <3>1
    <3>3. CASE \E d \in Held : hand[d].m = n
      BY <2>2, <3>3
    <3>4. ASSUME NEW i \in 1..Len(queue), queue[i].m = n PROVE \E j \in 1..Len(queue') : queue'[j].m = n
      <4>1. i > c
        BY <2>1, <3>2, <3>4
      <4>. QED
        BY <2>1, <3>4, <4>1
    <3>. QED
      BY <3>2, <3>3, <3>4 DEF Contents
  <2>. QED
    BY <2>4, <2>5, <2>6, <2>7 DEF Contents
<1>4. ASSUME NEW d \in Lids, Pulled(d) PROVE Contents'
  <2>1. /\ Len(queue) \in Nat /\ Len(queue) >= 1 /\ Len(queue') = Len(queue) - 1
        /\ hand'[d] = queue[1]
        /\ \A i \in 1..Len(queue') : i + 1 \in 1..Len(queue) /\ queue'[i] = queue[i + 1]
        /\ \A i \in 1..Len(queue) : i > 1 => i - 1 \in 1..Len(queue') /\ queue'[i - 1] = queue[i]
    BY <1>4, PulledAt
  <2>2. /\ Held' = Held \cup {d} /\ d \notin Held /\ fate' = fate
        /\ \A e \in Held : hand'[e] = hand[e]
    BY <1>4 DEF Pulled
  <2>3. \A i, j \in 1..Len(queue') : queue'[i].m = queue'[j].m => i = j
    BY <2>1 DEF Contents
  <2>4. \A e \in Held' :
          fate'[hand'[e].m] = "queued" /\ \A i \in 1..Len(queue') : queue'[i].m # hand'[e].m
    <3>1. fate'[hand'[d].m] = "queued" /\ \A i \in 1..Len(queue') : queue'[i].m # hand'[d].m
      BY <2>1, <2>2 DEF Contents
    <3>2. ASSUME NEW e \in Held
          PROVE  fate'[hand'[e].m] = "queued" /\ \A i \in 1..Len(queue') : queue'[i].m # hand'[e].m
      BY <2>1, <2>2 DEF Contents
    <3>. QED
      BY <2>2, <3>1, <3>2
  <2>5. \A n \in Messages : fate'[n] = "queued" =>
          (\E i \in 1..Len(queue') : queue'[i].m = n) \/ \E e \in Held' : hand'[e].m = n
    <3>1. SUFFICES ASSUME NEW n \in Messages, fate[n] = "queued", queue[1].m # n,
                          \A e \in Held : hand[e].m # n
                   PROVE  \E i \in 1..Len(queue') : queue'[i].m = n
      BY <2>1, <2>2
    <3>2. PICK i \in 1..Len(queue) : queue[i].m = n
      BY <2>2, <3>1 DEF Contents
    <3>3. i > 1
      BY <2>1, <3>1, <3>2
    <3>. QED
      BY <2>1, <3>2, <3>3
  <2>6. \A i \in 1..Len(queue') : fate'[queue'[i].m] = "queued"
    BY <2>1, <2>2 DEF Contents
  <2>. QED
    BY <2>3, <2>4, <2>5, <2>6 DEF Contents
<1>5. ASSUME NEW d \in Lids, NEW t \in 0..DrainMax - 1, GivenBack(d, t) PROVE Contents'
  <2>1. /\ Len(queue) \in Nat /\ Len(queue') = Len(queue) + 1 /\ d \in Held
        /\ queue'[1].m = hand[d].m /\ hand[d].m \in Messages
        /\ \A i \in 1..Len(queue') : i > 1 => i - 1 \in 1..Len(queue) /\ queue'[i] = queue[i - 1]
        /\ \A i \in 1..Len(queue) : i + 1 \in 1..Len(queue') /\ queue'[i + 1] = queue[i]
    <3>1. [m |-> hand[d].m, tries |-> t].m = hand[d].m
      OBVIOUS
    <3>. QED
      BY <1>5, <3>1, GivenBackAt
  <2>2. Held' = Held \ {d} /\ fate' = fate /\ \A e \in Held \ {d} : hand'[e] = hand[e]
    BY <1>5 DEF GivenBack
  <2>3. fate[hand[d].m] = "queued" /\ \A i \in 1..Len(queue) : queue[i].m # hand[d].m
    BY <2>1 DEF Contents
  <2>4. \A i \in 1..Len(queue') : i = 1 \/ i > 1
    BY <2>1
  <2>5. \A i \in 1..Len(queue') : fate'[queue'[i].m] = "queued"
    BY <2>1, <2>2, <2>3, <2>4 DEF Contents
  <2>6. \A i, j \in 1..Len(queue') : queue'[i].m = queue'[j].m => i = j
    <3>1. SUFFICES ASSUME NEW i \in 1..Len(queue'), NEW j \in 1..Len(queue'), queue'[i].m = queue'[j].m
                   PROVE  i = j
      OBVIOUS
    <3>2. i > 1 /\ j > 1 => i = j
      <4>1. SUFFICES ASSUME i > 1, j > 1 PROVE i = j
        OBVIOUS
      <4>2. /\ i - 1 \in 1..Len(queue) /\ j - 1 \in 1..Len(queue)
            /\ queue[i - 1].m = queue[j - 1].m
        BY <2>1, <3>1, <4>1
      <4>3. i - 1 = j - 1
        BY <4>2 DEF Contents
      <4>. QED
        BY <2>1, <4>3
    <3>. QED
      <4>1. \A k \in 1..Len(queue') : k > 1 => queue'[k].m # queue'[1].m
        BY <2>1, <2>3
      <4>. QED
        BY <2>4, <3>1, <3>2, <4>1
  <2>7. \A n \in Messages : fate'[n] = "queued" =>
          (\E i \in 1..Len(queue') : queue'[i].m = n) \/ \E e \in Held' : hand'[e].m = n
    <3>1. SUFFICES ASSUME NEW n \in Messages, fate[n] = "queued",
                          \A e \in Held \ {d} : hand[e].m # n
                   PROVE  \E i \in 1..Len(queue') : queue'[i].m = n
      BY <2>2
    <3>2. CASE hand[d].m = n
      BY <2>1, <3>2
    <3>3. CASE \E i \in 1..Len(queue) : queue[i].m = n
      BY <2>1, <3>3
    <3>. QED
      BY <2>2, <3>1, <3>2, <3>3 DEF Contents
  <2>8. \A e \in Held' :
          fate'[hand'[e].m] = "queued" /\ \A i \in 1..Len(queue') : queue'[i].m # hand'[e].m
    <3>1. SUFFICES ASSUME NEW e \in Held \ {d}
                   PROVE  fate[hand[e].m] = "queued" /\ \A i \in 1..Len(queue') : queue'[i].m # hand[e].m
      BY <2>2
    <3>2. hand[e].m # hand[d].m
      BY <2>1, HandsApart
    <3>3. fate[hand[e].m] = "queued" /\ \A i \in 1..Len(queue) : queue[i].m # hand[e].m
      BY DEF Contents
    <3>. QED
      BY <2>1, <2>4, <3>2, <3>3
  <2>. QED
    BY <2>5, <2>6, <2>7, <2>8 DEF Contents
<1>6. ASSUME NEW d \in Lids, NEW f \in {"sent", "dropped", "unsure"}, Over(d, f) PROVE Contents'
  <2>1. /\ d \in Held /\ Held' = Held \ {d} /\ queue' = queue
        /\ fate' = [fate EXCEPT ![hand[d].m] = f] /\ \A e \in Held \ {d} : hand'[e] = hand[e]
    BY <1>6 DEF Over
  <2>2. \A n \in Messages : fate'[n] = IF n = hand[d].m THEN f ELSE fate[n]
    BY <1>1, <2>1
  <2>3. \A i \in 1..Len(queue) : queue[i].m # hand[d].m
    BY <2>1 DEF Contents
  <2>4. \A e \in Held \ {d} : hand[e].m # hand[d].m
    BY <2>1, HandsApart
  <2>. QED
    BY <1>1, <2>1, <2>2, <2>3, <2>4 DEF Contents
<1>. QED
  BY <1>2, <1>3, <1>4, <1>5, <1>6 DEF Move

\* A message is accepted when it ceases to be new.
LEMMA ArrivalsStep ==
  ASSUME TypeOK, Contents, Calls, Arrivals, Move
  PROVE  Arrivals'
<1>1. accepted \in Seq(Messages) /\ fate \in [Messages -> Fates]
  BY DEF TypeOK, Fates
<1>2. ASSUME NEW m \in Messages, NEW c \in {0, 1}, Arrives(m, c) PROVE Arrivals'
  <2>1. /\ Len(accepted) \in Nat /\ Len(accepted') = Len(accepted) + 1
        /\ accepted'[Len(accepted) + 1] = m
        /\ \A i \in 1..Len(accepted) : accepted'[i] = accepted[i]
    BY <1>1, <1>2, AppendAt DEF Arrives
  <2>2. \A i \in 1..Len(accepted') :
          \/ i \in 1..Len(accepted) /\ accepted'[i] = accepted[i]
          \/ i = Len(accepted) + 1 /\ accepted'[i] = m
    BY <2>1
  <2>3. fate[m] = "new" /\ \A i \in 1..Len(accepted) : accepted[i] # m
    BY <1>2 DEF Arrives, Arrivals
  <2>4. \A i, j \in 1..Len(accepted') : accepted'[i] = accepted'[j] => i = j
    BY <2>1, <2>2, <2>3 DEF Arrivals
  <2>5. \A n \in Messages : n # m => (fate'[n] = "new" <=> fate[n] = "new")
    <3>1. c = 1 => fate[queue[1].m] = "queued"
      BY <1>2, ArrivesAt DEF Contents
    <3>2. \A n \in Messages :
            fate'[n] = IF n = m THEN "queued" ELSE IF c = 1 /\ n = queue[1].m THEN "evicted" ELSE fate[n]
      BY <1>2 DEF Arrives
    <3>. QED
      BY <3>1, <3>2
  <2>6. fate'[m] # "new"
    BY <1>2 DEF Arrives
  <2>7. \A n \in Messages : n # m =>
          ((\E i \in 1..Len(accepted') : accepted'[i] = n) <=> \E i \in 1..Len(accepted) : accepted[i] = n)
    BY <2>1, <2>2
  <2>8. (Len(accepted) + 1) \in 1..Len(accepted') /\ accepted'[Len(accepted) + 1] = m
    BY <2>1
  <2>. QED
    BY <2>4, <2>5, <2>6, <2>7, <2>8 DEF Arrivals
<1>3. CASE UNCHANGED <<fate, accepted>>
  BY <1>3 DEF Arrivals
<1>4. ASSUME NEW d \in Lids, NEW f \in {"sent", "dropped", "unsure"}, Over(d, f) PROVE Arrivals'
  <2>1. accepted' = accepted /\ fate' = [fate EXCEPT ![hand[d].m] = f] /\ d \in Held
    BY <1>4 DEF Over
  <2>2. fate[hand[d].m] = "queued"
    BY <2>1 DEF Contents
  <2>3. \A n \in Messages : fate'[n] = "new" <=> fate[n] = "new"
    BY <1>1, <2>1, <2>2
  <2>. QED
    BY <2>1, <2>3 DEF Arrivals
<1>. QED
  BY <1>2, <1>3, <1>4 DEF Move, Stays, Pulled, GivenBack

\* What came before still does, and what is not new came before what comes.
LEMMA BeforeKept ==
  ASSUME TypeOK, NEW m, NEW n, Before(accepted, m, n),
         accepted' = accepted \/ \E x \in Messages : accepted' = Append(accepted, x)
  PROVE  Before(accepted', m, n)
<1>1. accepted \in Seq(Messages)
  BY DEF TypeOK
<1>2. /\ Len(accepted) \in Nat /\ Len(accepted') \in Nat /\ Len(accepted') >= Len(accepted)
      /\ \A i \in 1..Len(accepted) : accepted'[i] = accepted[i]
  BY <1>1, AppendAt
<1>3. PICK i \in 1..Len(accepted), j \in 1..Len(accepted) : i < j /\ accepted[i] = m /\ accepted[j] = n
  BY DEF Before
<1>4. i \in 1..Len(accepted') /\ j \in 1..Len(accepted') /\ accepted'[i] = m /\ accepted'[j] = n
  BY <1>2, <1>3
<1>. QED
  BY <1>3, <1>4 DEF Before

LEMMA BeforeNew ==
  ASSUME TypeOK, Arrivals, NEW m \in Messages, NEW n \in Messages, fate[m] # "new",
         accepted' = Append(accepted, n)
  PROVE  Before(accepted', m, n)
<1>1. accepted \in Seq(Messages)
  BY DEF TypeOK
<1>2. /\ Len(accepted) \in Nat /\ Len(accepted') = Len(accepted) + 1
      /\ accepted'[Len(accepted) + 1] = n
      /\ \A i \in 1..Len(accepted) : accepted'[i] = accepted[i]
  BY <1>1, AppendAt
<1>3. PICK i \in 1..Len(accepted) : accepted[i] = m
  BY DEF Arrivals
<1>4. /\ i \in 1..Len(accepted') /\ Len(accepted) + 1 \in 1..Len(accepted') /\ i < Len(accepted) + 1
      /\ accepted'[i] = m
  BY <1>2, <1>3
<1>. QED
  BY <1>2, <1>4 DEF Before

\* The order is kept: arrivals go last, and only the oldest is taken or put back.
LEMMA SortedStep ==
  ASSUME TypeOK, Drains, Calls, Contents, Arrivals, Sorted, Move, Grows
  PROVE  Sorted'
<1>1. /\ \A i \in 1..Len(queue) : queue[i].m \in Messages
      /\ \A d \in Held : hand[d].m \in Messages
  <2>1. \A i \in 1..Len(queue) : queue[i] \in Items
    BY DEF TypeOK
  <2>2. \A d \in Held : hand[d] \in Items
    BY DEF Calls, Held
  <2>. QED
    BY <2>1, <2>2 DEF Items
<1>0. \A m : m \notin late' => m \notin late
  BY DEF Grows
<1>2. CASE Stays
  <2>1. Held' = Held /\ (\A d \in Held : hand'[d] = hand[d]) /\ UNCHANGED <<queue, accepted>>
    BY <1>2 DEF Stays, SameHands
  <2>. QED
    BY <1>0, <2>1 DEF Sorted
<1>3. ASSUME NEW m \in Messages, NEW c \in {0, 1}, Arrives(m, c) PROVE Sorted'
  <2>1. /\ Len(queue) \in Nat
        /\ \A i \in 1..Len(queue') :
             \/ i + c \in 1..Len(queue) /\ queue'[i] = queue[i + c]
             \/ i = Len(queue') /\ queue'[i].m = m
        /\ Len(queue') \in Nat
    BY <1>3, ArrivesAt
  <2>2. accepted' = Append(accepted, m) /\ Held' = Held /\ \A d \in Held : hand'[d] = hand[d]
    BY <1>3 DEF Arrives, SameHands
  <2>3. \A i \in 1..Len(queue) : Before(accepted', queue[i].m, m)
    BY <1>1, <2>2, BeforeNew DEF Contents
  <2>4. \A d \in Held : Before(accepted', hand[d].m, m)
    BY <1>1, <2>2, BeforeNew DEF Contents
  <2>5. \A x, y : Before(accepted, x, y) => Before(accepted', x, y)
    BY <2>2, BeforeKept
  <2>6. ASSUME NEW i \in 1..Len(queue'), NEW j \in 1..Len(queue'), i < j,
               queue'[i].m \notin late', queue'[j].m \notin late'
        PROVE  Before(accepted', queue'[i].m, queue'[j].m)
    <3>1. i + c \in 1..Len(queue) /\ queue'[i] = queue[i + c]
      BY <2>1, <2>6
    <3>2. CASE j + c \in 1..Len(queue) /\ queue'[j] = queue[j + c]
      <4>1. Before(accepted, queue[i + c].m, queue[j + c].m)
        <5>1. queue[i + c].m \notin late /\ queue[j + c].m \notin late /\ i + c < j + c
          BY <1>0, <2>6, <3>1, <3>2
        <5>. QED
          BY <3>1, <3>2, <5>1 DEF Sorted
      <4>. QED
        BY <2>5, <3>1, <3>2, <4>1
    <3>3. CASE queue'[j].m = m
      BY <2>3, <3>1, <3>3
    <3>. QED
      BY <2>1, <3>2, <3>3
  <2>7. ASSUME NEW d \in Held, NEW i \in 1..Len(queue'), hand'[d].m \notin late', queue'[i].m \notin late'
        PROVE  Before(accepted', hand'[d].m, queue'[i].m)
    <3>1. CASE i + c \in 1..Len(queue) /\ queue'[i] = queue[i + c]
      <4>1. Before(accepted, hand[d].m, queue[i + c].m)
        <5>1. queue[i + c].m \notin late /\ hand[d].m \notin late
          BY <1>0, <2>2, <2>7, <3>1
        <5>. QED
          BY <3>1, <5>1 DEF Sorted
      <4>. QED
        BY <2>2, <2>5, <3>1, <4>1
    <3>2. CASE queue'[i].m = m
      BY <2>2, <2>4, <3>2
    <3>. QED
      BY <2>1, <3>1, <3>2
  <2>. QED
    BY <2>2, <2>6, <2>7 DEF Sorted
<1>4. ASSUME NEW d \in Lids, Pulled(d) PROVE Sorted'
  <2>1. /\ Len(queue) \in Nat /\ Len(queue) >= 1 /\ hand'[d] = queue[1]
        /\ \A i \in 1..Len(queue') : i + 1 \in 1..Len(queue) /\ queue'[i] = queue[i + 1]
    BY <1>4, PulledAt
  <2>2. Held' = Held \cup {d} /\ accepted' = accepted /\ \A e \in Held : hand'[e] = hand[e]
    BY <1>4 DEF Pulled
  <2>3. \A x, y : Before(accepted, x, y) => Before(accepted', x, y)
    BY <2>2, BeforeKept
  <2>4. ASSUME NEW i \in 1..Len(queue'), NEW j \in 1..Len(queue'), i < j,
               queue'[i].m \notin late', queue'[j].m \notin late'
        PROVE  Before(accepted', queue'[i].m, queue'[j].m)
    <3>1. Before(accepted, queue[i + 1].m, queue[j + 1].m)
      <4>1. queue[i + 1].m \notin late /\ queue[j + 1].m \notin late /\ i + 1 < j + 1
        BY <1>0, <2>1, <2>4
      <4>. QED
        BY <2>1, <4>1 DEF Sorted
    <3>. QED
      BY <2>1, <2>3, <3>1
  <2>5. ASSUME NEW e \in Held', NEW i \in 1..Len(queue'), hand'[e].m \notin late', queue'[i].m \notin late'
        PROVE  Before(accepted', hand'[e].m, queue'[i].m)
    <3>1. i + 1 \in 1..Len(queue) /\ queue'[i] = queue[i + 1] /\ queue[i + 1].m \notin late
      BY <1>0, <2>1, <2>5
    <3>2. CASE e = d
      <4>1. 1 \in 1..Len(queue) /\ 1 < i + 1 /\ queue[1].m \notin late
        BY <1>0, <2>1, <2>5, <3>2
      <4>2. Before(accepted, queue[1].m, queue[i + 1].m)
        BY <3>1, <4>1 DEF Sorted
      <4>. QED
        BY <2>1, <2>3, <3>1, <3>2, <4>2
    <3>3. CASE e # d
      <4>1. e \in Held /\ hand'[e] = hand[e] /\ hand[e].m \notin late
        BY <1>0, <2>2, <2>5, <3>3
      <4>2. Before(accepted, hand[e].m, queue[i + 1].m)
        BY <3>1, <4>1 DEF Sorted
      <4>. QED
        BY <2>3, <3>1, <4>1, <4>2
    <3>. QED
      BY <3>2, <3>3
  <2>. QED
    BY <2>4, <2>5 DEF Sorted
<1>5. ASSUME NEW d \in Lids, NEW t \in 0..DrainMax - 1, GivenBack(d, t) PROVE Sorted'
  <2>1. /\ Len(queue) \in Nat /\ Len(queue') = Len(queue) + 1 /\ d \in Held
        /\ queue'[1] = [m |-> hand[d].m, tries |-> t]
        /\ \A i \in 1..Len(queue') : i > 1 => i - 1 \in 1..Len(queue) /\ queue'[i] = queue[i - 1]
    BY <1>5, GivenBackAt
  <2>2. /\ Held' = Held \ {d} /\ accepted' = accepted /\ queue'[1].m = hand[d].m
        /\ \A e \in Held \ {d} : hand'[e] = hand[e]
    BY <1>5, <2>1 DEF GivenBack
  <2>3. \A x, y : Before(accepted, x, y) => Before(accepted', x, y)
    BY <2>2, BeforeKept
  <2>4. ASSUME NEW i \in 1..Len(queue'), NEW j \in 1..Len(queue'), i < j,
               queue'[i].m \notin late', queue'[j].m \notin late'
        PROVE  Before(accepted', queue'[i].m, queue'[j].m)
    <3>1. j > 1 /\ j - 1 \in 1..Len(queue) /\ queue'[j] = queue[j - 1] /\ queue[j - 1].m \notin late
      BY <1>0, <2>1, <2>4
    <3>2. CASE i = 1
      <4>1. hand[d].m \notin late
        BY <1>0, <2>2, <2>4, <3>2
      <4>2. Before(accepted, hand[d].m, queue[j - 1].m)
        BY <2>1, <3>1, <4>1 DEF Sorted
      <4>. QED
        BY <2>2, <2>3, <3>1, <3>2, <4>2
    <3>3. CASE i > 1
      <4>1. /\ i - 1 \in 1..Len(queue) /\ queue'[i] = queue[i - 1] /\ i - 1 < j - 1
            /\ queue[i - 1].m \notin late
        BY <1>0, <2>1, <2>4, <3>1, <3>3
      <4>2. Before(accepted, queue[i - 1].m, queue[j - 1].m)
        BY <3>1, <4>1 DEF Sorted
      <4>. QED
        BY <2>3, <3>1, <4>1, <4>2
    <3>. QED
      BY <2>1, <3>2, <3>3
  <2>5. ASSUME NEW e \in Held', NEW i \in 1..Len(queue'), hand'[e].m \notin late', queue'[i].m \notin late'
        PROVE  Before(accepted', hand'[e].m, queue'[i].m)
    <3>1. e \in Held /\ e # d /\ hand'[e] = hand[e] /\ hand[e].m \notin late
      BY <1>0, <2>2, <2>5
    <3>2. CASE i = 1
      <4>1. hand[d].m \notin late
        BY <1>0, <2>2, <2>5, <3>2
      <4>2. e \in Held \ strayed /\ d \in Held \ strayed
        BY <2>1, <3>1, <4>1, HeldOne
      <4>. QED
        BY <3>1, <4>2, HeldOne
    <3>3. CASE i > 1
      <4>1. i - 1 \in 1..Len(queue) /\ queue'[i] = queue[i - 1] /\ queue[i - 1].m \notin late
        BY <1>0, <2>1, <2>5, <3>3
      <4>2. Before(accepted, hand[e].m, queue[i - 1].m)
        BY <3>1, <4>1 DEF Sorted
      <4>. QED
        BY <2>3, <3>1, <4>1, <4>2
    <3>. QED
      BY <2>1, <3>2, <3>3
  <2>. QED
    BY <2>4, <2>5 DEF Sorted
<1>6. ASSUME NEW d \in Lids, NEW f \in {"sent", "dropped", "unsure"}, Over(d, f) PROVE Sorted'
  <2>1. /\ Held' = Held \ {d} /\ UNCHANGED <<queue, accepted>>
        /\ \A e \in Held \ {d} : hand'[e] = hand[e]
    BY <1>6 DEF Over
  <2>. QED
    BY <1>0, <2>1 DEF Sorted
<1>. QED
  BY <1>2, <1>3, <1>4, <1>5, <1>6 DEF Move

\* Lifecycles are few, so the sets of drain tasks are finite.
LEMMA LidsFinite == \A S \in SUBSET Lids : IsFiniteSet(S) /\ Cardinality(S) \in Nat
<1>1. IsFiniteSet(Lids)
  BY Bounds, FS_Interval DEF Lids
<1>. QED
  BY <1>1, FS_Subset, FS_CardinalityType

\* At most one drain task more than those a connect found has a message.
LEMMA HeldFew ==
  ASSUME TypeOK, Drains
  PROVE  Cardinality(Held) <= Cardinality(strayed) + 1
<1>1. /\ IsFiniteSet(strayed) /\ Cardinality(strayed) \in Nat /\ IsFiniteSet(Held)
      /\ Cardinality(Held) \in Nat
  BY LidsFinite DEF TypeOK, Held
<1>2. CASE Held \subseteq strayed
  <2>1. Cardinality(Held) <= Cardinality(strayed)
    BY <1>1, <1>2, FS_Subset
  <2>. QED
    BY <1>1, <2>1
<1>3. ASSUME NEW x \in Held \ strayed PROVE Cardinality(Held) <= Cardinality(strayed) + 1
  <2>1. Held \subseteq strayed \cup {x}
    BY HeldOne
  <2>2. IsFiniteSet(strayed \cup {x}) /\ Cardinality(strayed \cup {x}) = Cardinality(strayed) + 1
    BY <1>1, FS_AddElement
  <2>3. Cardinality(Held) <= Cardinality(strayed \cup {x})
    BY <2>1, <2>2, FS_Subset
  <2>. QED
    BY <2>2, <2>3
<1>. QED
  BY <1>2, <1>3

\* An arrival finds room or makes it; a message that is put back had it.
LEMMA BoundedStep ==
  ASSUME TypeOK, strayed' \subseteq Lids, Drains, Calls, Bounded, Move, Grows
  PROVE  Bounded'
<1>. DEFINE h == Cardinality(Held)
            s == Cardinality(strayed)
<1>1. Len(queue) \in Nat /\ QueueMax \in Nat
  BY Bounds DEF TypeOK
<1>2. IsFiniteSet(Held) /\ h \in Nat /\ s \in Nat /\ s' \in Nat /\ s <= s'
  <2>1. IsFiniteSet(Held) /\ h \in Nat /\ s \in Nat /\ IsFiniteSet(strayed') /\ s' \in Nat
    BY LidsFinite DEF Held, TypeOK
  <2>. QED
    BY <2>1, FS_Subset DEF Grows
<1>3. Len(queue) + h <= QueueMax + 1 + s /\ h <= s + 1
  BY HeldFew DEF Bounded
<1>. SUFFICES Len(queue') + h' <= QueueMax + 1 + s'
  BY DEF Bounded
<1>. HIDE DEF s
<1>4. CASE Stays
  <2>1. queue' = queue /\ h' = h
    BY <1>4 DEF Stays, SameHands
  <2>. QED
    BY <1>1, <1>2, <1>3, <2>1
<1>5. ASSUME NEW m \in Messages, NEW c \in {0, 1}, Arrives(m, c)
      PROVE  Len(queue') + h' <= QueueMax + 1 + s'
  <2>1. /\ h' = h /\ Len(queue') = Len(queue) + 1 - c
        /\ c = 0 => Len(queue) < QueueMax
    BY <1>5 DEF Arrives, SameHands
  <2>. HIDE DEF h
  <2>. QED
    BY <1>1, <1>2, <1>3, <1>5, <2>1
<1>6. ASSUME NEW d \in Lids, Pulled(d) PROVE Len(queue') + h' <= QueueMax + 1 + s'
  <2>1. Len(queue') = Len(queue) - 1
    BY <1>6, PulledAt
  <2>2. h' = h + 1
    <3>1. d \notin Held /\ Held' = Held \cup {d}
      BY <1>6 DEF Pulled
    <3>. QED
      BY <1>2, <3>1, FS_AddElement
  <2>. HIDE DEF h
  <2>. QED
    BY <1>1, <1>2, <1>3, <2>1, <2>2
<1>7. ASSUME NEW d, d \in Held, Held' = Held \ {d} PROVE h' = h - 1
  BY <1>2, <1>7, FS_RemoveElement
<1>8. ASSUME NEW d \in Lids, NEW t \in 0..DrainMax - 1, GivenBack(d, t)
      PROVE  Len(queue') + h' <= QueueMax + 1 + s'
  <2>1. Len(queue') = Len(queue) + 1
    BY <1>8, GivenBackAt
  <2>2. h' = h - 1
    BY <1>7, <1>8 DEF GivenBack
  <2>. HIDE DEF h
  <2>. QED
    BY <1>1, <1>2, <1>3, <2>1, <2>2
<1>9. ASSUME NEW d \in Lids, NEW f \in {"sent", "dropped", "unsure"}, Over(d, f)
      PROVE  Len(queue') + h' <= QueueMax + 1 + s'
  <2>1. queue' = queue /\ h' = h - 1
    BY <1>7, <1>9 DEF Over
  <2>. HIDE DEF h
  <2>. QED
    BY <1>1, <1>2, <1>3, <2>1
<1>. QED
  BY <1>4, <1>5, <1>6, <1>8, <1>9 DEF Move

-----------------------------------------------------------------------------
(* Sends that outlive their drain task.                                    *)

\* Whoever is no drain task leaves the hands, and who is in a send, as they are.
LEMMA Outside ==
  ASSUME TypeOK, Drains, Calls, Next, ~\E d \in Lids : DrainStep(d)
  PROVE  /\ SameHands /\ hand' = hand
         /\ \A d \in Lids : tpc'[d] = "idle" <=> tpc[d] = "idle"
<1>1. /\ lid \in Nat /\ dpc \in [Lids -> {"none", "starting", "loop", "sending", "cancelled"}]
      /\ tpc \in [Actors -> {"idle", "begin", "await", "done"}]
      /\ \A d \in Lids : d \in Nat /\ d \in Actors /\ d \notin Senders
      /\ \A s \in Senders : s \in Actors
  BY LidType DEF TypeOK, Actors
<1>2. CASE Connect
  <2>1. lid' = lid + 1 /\ dpc' = [dpc EXCEPT ![lid'] = "starting"] /\ UNCHANGED <<hand, tpc>>
    BY <1>2 DEF Connect, callVars
  <2>2. lid' \in Lids => dpc[lid'] = "none"
    BY <1>1, <2>1 DEF Drains
  <2>. QED
    BY <1>1, <2>1, <2>2, HandsKept
<1>3. CASE Claim
  <2>1. /\ UNCHANGED <<hand, tpc>>
        /\ \A d \in Lids :
             dpc'[d] \in {"sending", "cancelled"} <=> dpc[d] \in {"sending", "cancelled"}
    BY <1>1, <1>3 DEF Claim, Struck, callVars
  <2>. QED
    BY <1>1, <2>1, HandsKept
<1>4. CASE Disconnect \/ Register \/ LinkDrops \/ Gathered \/ TakeOver \/ Close
  <2>1. UNCHANGED <<hand, dpc, tpc>>
    BY <1>4 DEF Disconnect, Register, LinkDrops, Gathered, TakeOver, Close, callVars, drainVars
  <2>. QED
    BY <2>1, HandsKept
<1>5. ASSUME NEW s \in Senders, SendStep(s)
      PROVE  UNCHANGED <<hand, dpc>> /\ \A d \in Lids : tpc'[d] = tpc[d]
  BY <1>1, <1>5 DEF SendStep, SendChunk, QueueChunk, SendReturns, AckVerdict, callVars, drainVars
<1>6. ASSUME NEW a \in Actors, Begin(a)
      PROVE  UNCHANGED <<hand, dpc>> /\ \A d \in Lids : tpc'[d] = "idle" <=> tpc[d] = "idle"
  BY <1>1, <1>6 DEF Begin, drainVars
<1>7. ASSUME NEW w \in Lids, WorkerStep(w) PROVE UNCHANGED <<hand, dpc, tpc>>
  BY <1>7 DEF WorkerStep, Take, SendText, drainVars
<1>. QED
  BY <1>2, <1>3, <1>4, <1>5, <1>6, <1>7, HandsKept DEF Next, TeardownStep

\* Nobody but the drain task that leaves it makes a message unsure or sure again.
LEMMA UnsureKept ==
  ASSUME TypeOK, Contents, Move, NEW m \in Messages, fate[m] = "unsure"
  PROVE  fate'[m] = "unsure"
<1>1. fate \in [Messages -> Fates]
  BY DEF TypeOK, Fates
<1>2. ASSUME NEW n \in Messages, NEW c \in {0, 1}, Arrives(n, c) PROVE fate'[m] = "unsure"
  <2>1. c = 1 => fate[queue[1].m] = "queued"
    BY <1>2, ArrivesAt DEF Contents
  <2>. QED
    BY <1>2, <2>1 DEF Arrives
<1>3. ASSUME NEW d \in Lids, NEW f \in {"sent", "dropped", "unsure"}, Over(d, f) PROVE fate'[m] = "unsure"
  <2>1. fate' = [fate EXCEPT ![hand[d].m] = f] /\ fate[hand[d].m] = "queued"
    BY <1>3 DEF Over, Contents
  <2>. QED
    BY <1>1, <2>1
<1>. QED
  BY <1>2, <1>3 DEF Move, Stays, Pulled, GivenBack

LEMMA OrphansStep ==
  ASSUME TypeOK, Generations, Drains, Calls, Contents, Orphans, Next, Move
  PROVE  Orphans'
<1>1. /\ \A d \in Lids : tpc[d] # "idle" => hand[d] \in Items /\ hand[d].m \in Messages
      /\ tpc \in [Actors -> {"idle", "begin", "await", "done"}]
      /\ dpc \in [Lids -> {"none", "starting", "loop", "sending", "cancelled"}]
      /\ hand \in [Lids -> Items \cup {<<>>}]
      /\ \A d \in Lids : d \in Actors
  BY LidType DEF TypeOK, Calls, Items
<1>2. CASE ~\E d \in Lids : DrainStep(d)
  <2>1. /\ Held' = Held /\ hand' = hand
        /\ \A d \in Lids : tpc'[d] = "idle" <=> tpc[d] = "idle"
    BY <1>2, Outside DEF SameHands
  <2>2. \A d \in Lids : tpc[d] # "idle" /\ fate[hand[d].m] = "unsure" => fate'[hand[d].m] = "unsure"
    BY <1>1, UnsureKept
  <2>. QED
    BY <2>1, <2>2 DEF Orphans
<1>3. ASSUME NEW d \in Lids, StartDrain(d) \/ DrainEnds(d) \/ SendTaskEnds(d) \/ CancelArrives(d)
      PROVE  Orphans'
  <2>1. Held' = Held /\ UNCHANGED <<fate, hand>>
    BY <1>3, QuietHands DEF SameHands, StartDrain, DrainEnds, SendTaskEnds, CancelArrives, histVars
  <2>2. \A e \in Lids : tpc'[e] = "idle" <=> tpc[e] = "idle"
    BY <1>1, <1>3 DEF StartDrain, DrainEnds, SendTaskEnds, CancelArrives, Answered, callVars
  <2>. QED
    BY <2>1, <2>2 DEF Orphans
<1>4. ASSUME NEW d \in Lids, DrainTakes(d) PROVE Orphans'
  <2>1. /\ fate' = fate /\ tpc' = [tpc EXCEPT ![d] = "begin"]
        /\ hand' = [hand EXCEPT ![d] = Head(queue)] /\ queue # <<>>
    BY <1>4 DEF DrainTakes, histVars
  <2>2. d \notin Held /\ Held' = Held \cup {d}
    BY <1>4, TakesPulls DEF Pulled
  <2>3. Head(queue) = queue[1] /\ 1 \in 1..Len(queue)
    BY <2>1, TailAt DEF TypeOK
  <2>4. fate[Head(queue).m] = "queued" /\ \A e \in Held : hand[e].m # Head(queue).m
    BY <2>3 DEF Contents
  <2>5. \A e \in Lids \ {d} :
          /\ hand'[e] = hand[e] /\ tpc'[e] = tpc[e]
          /\ e \notin Held /\ tpc[e] # "idle" => fate[hand[e].m] = "unsure"
    BY <1>1, <2>1 DEF Orphans
  <2>6. hand'[d] = Head(queue)
    BY <1>1, <2>1
  <2>7. \A e \in Lids \ {d} : tpc'[e] # "idle" => hand'[e].m # hand'[d].m
    BY <2>4, <2>5, <2>6
  <2>8. \A e, f \in Lids \ {d} :
          tpc'[e] # "idle" /\ tpc'[f] # "idle" /\ hand'[e].m = hand'[f].m => e = f
    BY <2>5 DEF Orphans
  <2>. QED
    BY <2>1, <2>2, <2>5, <2>7, <2>8 DEF Orphans
<1>5. ASSUME NEW d \in Held, NEW p \in {"none", "loop"}, dpc' = [dpc EXCEPT ![d] = p],
             \A e \in Lids \ {d} : hand'[e] = hand[e] /\ tpc'[e] = tpc[e],
             \/ tpc'[d] = "idle"
             \/ hand'[d] = hand[d] /\ fate' = [fate EXCEPT ![hand[d].m] = "unsure"]
      PROVE  Orphans'
  <2>1. Held' = Held \ {d} /\ tpc[d] # "idle" /\ d \in Lids
    <3>1. d \in Lids /\ tpc[d] # "idle"
      BY DEF Held, Calls
    <3>. QED
      BY <1>5, <3>1, HandEmptied
  <2>2. \A e \in Lids \ Held :
          tpc[e] # "idle" => fate[hand[e].m] = "unsure" /\ fate'[hand[e].m] = "unsure"
    BY <1>1, UnsureKept DEF Orphans
  <2>3. tpc'[d] # "idle" => hand'[d] = hand[d] /\ fate'[hand[d].m] = "unsure"
    BY <1>1, <1>5, <2>1 DEF TypeOK
  <2>4. \A e \in Lids \ Held' : e = d \/ e \in Lids \ Held
    BY <2>1
  <2>5. \A e \in Lids \ Held' : tpc'[e] # "idle" => fate'[hand'[e].m] = "unsure"
    BY <1>5, <2>1, <2>2, <2>3, <2>4
  <2>6. \A e \in Lids : tpc'[e] # "idle" => tpc[e] # "idle" /\ hand'[e] = hand[e]
    BY <1>5, <2>1, <2>3
  <2>7. \A e, f \in Lids : tpc'[e] # "idle" /\ tpc'[f] # "idle" /\ hand'[e].m = hand'[f].m => e = f
    BY <2>6 DEF Orphans
  <2>. QED
    BY <2>5, <2>7 DEF Orphans
<1>6. ASSUME NEW d \in Lids, DrainGoesOn(d) PROVE Orphans'
  <2>1. /\ d \in Held /\ dpc' = [dpc EXCEPT ![d] = "loop"] /\ hand' = [hand EXCEPT ![d] = <<>>]
        /\ tpc' = [tpc EXCEPT ![d] = "idle"]
    BY <1>6 DEF DrainGoesOn, AfterSend, ForgetCall, Held
  <2>. QED
    BY <1>1, <1>5, <2>1
<1>7. ASSUME NEW d \in Lids, DrainCancelled(d) PROVE Orphans'
  <2>1. /\ d \in Held /\ dpc' = [dpc EXCEPT ![d] = "none"] /\ hand' = hand
        /\ \/ tpc' = [tpc EXCEPT ![d] = "idle"]
           \/ tpc' = tpc /\ fate' = [fate EXCEPT ![hand[d].m] = "unsure"]
    BY <1>7 DEF DrainCancelled, DrainStops, ForgetCall, callVars, Held
  <2>. QED
    BY <1>1, <1>5, <2>1
<1>. QED
  BY <1>2, <1>3, <1>4, <1>6, <1>7 DEF DrainStep

-----------------------------------------------------------------------------
(* How often a message has left the queue's side.                          *)

\* A generation that ran and the one that ended it count as one teardown.
LEMMA Halves ==
  /\ \A l \in Nat : l \div 2 \in Nat
  /\ \A d, l \in Nat : d <= l => d \div 2 <= l \div 2
  /\ \A d \in Nat : d % 2 = 1 => (d + 1) \div 2 = d \div 2 + 1
OBVIOUS

LEMMA CountTypes ==
  ASSUME TypeOK, Calls
  PROVE  /\ lid \in Nat /\ DrainMax \in Nat /\ DrainMax >= 1
         /\ drained \in [Messages -> Nat] /\ fate \in [Messages -> Fates]
         /\ \A i \in 1..Len(queue) : queue[i].m \in Messages /\ queue[i].tries \in 0..DrainMax - 1
         /\ \A d \in Lids : d \in Nat /\ d \in Actors /\ d \notin Senders
         /\ \A d \in Lids : tpc[d] # "idle" =>
              /\ hand[d].m \in Messages /\ hand[d].tries \in 0..DrainMax - 1
              /\ d <= lid /\ d % 2 = 1 /\ d \div 2 \in Nat /\ d \div 2 <= lid \div 2
         /\ lid \div 2 \in Nat
<1>1. \A i \in 1..Len(queue) : queue[i] \in Items
  BY DEF TypeOK
<1>2. \A d \in Lids : d \in Nat /\ d \in Actors /\ d \notin Senders
  BY LidType
<1>3. lid \in Nat
  BY DEF TypeOK
<1>4. \A d \in Lids : tpc[d] # "idle" => hand[d] \in Items /\ d <= lid /\ d % 2 = 1
  BY DEF Calls
<1>. QED
  BY <1>1, <1>2, <1>3, <1>4, Bounds, Halves DEF TypeOK, Fates, Items

\* No packet of a queued message leaves and no drain task takes or returns one.
LEMMA CountsKept ==
  ASSUME TypeOK, Calls, Contents, Counts, drained' = drained, lid' \in {lid, lid + 1},
         Stays \/ \E m \in Messages, c \in {0, 1} : Arrives(m, c),
         \A d \in Lids : tpc'[d] # "idle" =>
           /\ tpc[d] # "idle" /\ hand'[d] = hand[d]
           /\ reply[d] # "none" => reply'[d] # "none"
           /\ reply'[d] = "sent" => reply[d] = "sent"
  PROVE  Counts'
<1>1. lid' \in Nat /\ lid <= lid' /\ lid' \div 2 \in Nat /\ lid \div 2 <= lid' \div 2 /\ lid \div 2 \in Nat
  BY CountTypes, Halves
<1>2. \A m \in Messages : drained'[m] <= DrainMax + lid' \div 2
  BY <1>1, CountTypes DEF Counts, DrainBudget
<1>3. \A d \in Lids : tpc'[d] # "idle" =>
        /\ drained'[hand'[d].m]
             <= hand'[d].tries + d \div 2 + (IF reply'[d] = "none" THEN 0 ELSE 1)
        /\ reply'[d] = "sent" => drained'[hand'[d].m] > 0
  <2>1. SUFFICES ASSUME NEW d \in Lids, tpc'[d] # "idle"
                 PROVE  /\ drained[hand[d].m]
                             <= hand[d].tries + d \div 2 + (IF reply'[d] = "none" THEN 0 ELSE 1)
                        /\ reply'[d] = "sent" => drained[hand[d].m] > 0
    OBVIOUS
  <2>2. drained[hand[d].m] \in Nat /\ hand[d].tries \in Nat /\ d \div 2 \in Nat
    BY <2>1, CountTypes
  <2>3. /\ drained[hand[d].m] <= hand[d].tries + d \div 2 + (IF reply[d] = "none" THEN 0 ELSE 1)
        /\ reply[d] = "sent" => drained[hand[d].m] > 0
    BY <2>1 DEF Counts
  <2>. QED
    BY <2>1, <2>2, <2>3
<1>4. /\ \A i \in 1..Len(queue') : drained'[queue'[i].m] <= queue'[i].tries + lid' \div 2
      /\ \A m \in Messages : fate'[m] = "new" => drained'[m] = 0
  <2>1. CASE Stays
    BY SMTT(30), <1>1, <2>1, CountTypes DEF Stays, Counts
  <2>2. ASSUME NEW m \in Messages, NEW c \in {0, 1}, Arrives(m, c)
        PROVE  /\ \A i \in 1..Len(queue') : drained'[queue'[i].m] <= queue'[i].tries + lid' \div 2
               /\ \A n \in Messages : fate'[n] = "new" => drained'[n] = 0
    <3>1. drained[m] = 0
      BY <2>2 DEF Arrives, Counts
    <3>2. \A n \in Messages : fate'[n] = "new" => fate[n] = "new"
      BY <2>2 DEF Arrives
    <3>3. \A i \in 1..Len(queue') :
            \/ i + c \in 1..Len(queue) /\ queue'[i] = queue[i + c]
            \/ queue'[i].m = m /\ queue'[i].tries = 0
      BY <2>2, ArrivesAt
    <3>4. \A i \in 1..Len(queue) : drained[queue[i].m] <= queue[i].tries + lid' \div 2
      <4>1. SUFFICES ASSUME NEW i \in 1..Len(queue)
                     PROVE  drained[queue[i].m] <= queue[i].tries + lid' \div 2
        OBVIOUS
      <4>2. /\ drained[queue[i].m] <= queue[i].tries + lid \div 2
            /\ drained[queue[i].m] \in Nat /\ queue[i].tries \in Nat
        BY CountTypes DEF Counts
      <4>. QED
        BY <1>1, <4>2
    <3>. QED
      BY SMTT(30), <1>1, <3>1, <3>2, <3>3, <3>4 DEF Counts
  <2>. QED
    BY <2>1, <2>2
<1>. QED
  BY <1>2, <1>3, <1>4 DEF Counts, DrainBudget

\* A drain task's message leaves: its try is not counted yet.
LEMMA CountsLeft ==
  ASSUME TypeOK, Calls, Contents, Orphans, Counts, NEW a \in Lids, tpc[a] = "await", reply[a] = "none",
         NEW r \in {"sent", "failed"}, reply' = [reply EXCEPT ![a] = r],
         Leaves(a), UNCHANGED <<lid, queue, fate, hand, tpc>>
  PROVE  Counts'
<1>1. /\ drained' = [drained EXCEPT ![hand[a].m] = drained[hand[a].m] + 1]
      /\ hand[a].m \in Messages /\ drained \in [Messages -> Nat] /\ a \in Actors
  BY CountTypes DEF Leaves
<1>2. /\ \A m \in Messages : m # hand[a].m => drained'[m] = drained[m]
      /\ drained'[hand[a].m] = drained[hand[a].m] + 1
      /\ reply'[a] = r /\ \A d \in Lids \ {a} : reply'[d] = reply[d]
  BY <1>1 DEF TypeOK
<1>3. fate[hand[a].m] \in {"queued", "unsure"} /\ \A i \in 1..Len(queue) : queue[i].m # hand[a].m
  BY DEF Orphans, Contents
<1>4. \A d \in Lids \ {a} : tpc[d] # "idle" => hand[d].m # hand[a].m
  BY DEF Orphans
<1>5. drained[hand[a].m] <= hand[a].tries + a \div 2
  BY SMTT(30), CountTypes DEF Counts
<1>6. \A i \in 1..Len(queue') : drained'[queue'[i].m] <= queue'[i].tries + lid' \div 2
  BY <1>2, <1>3, CountTypes DEF Counts
<1>7. \A d \in Lids : tpc'[d] # "idle" =>
        /\ drained'[hand'[d].m]
             <= hand'[d].tries + d \div 2 + (IF reply'[d] = "none" THEN 0 ELSE 1)
        /\ reply'[d] = "sent" => drained'[hand'[d].m] > 0
  <2>1. drained'[hand[a].m] <= hand[a].tries + a \div 2 + 1 /\ drained'[hand[a].m] > 0
    <3>1. drained[hand[a].m] \in Nat /\ hand[a].tries \in Nat /\ a \div 2 \in Nat
      BY CountTypes
    <3>. QED
      BY <1>2, <1>5, <3>1
  <2>2. \A d \in Lids \ {a} : tpc[d] # "idle" => drained'[hand[d].m] = drained[hand[d].m]
    BY <1>2, <1>4, CountTypes
  <2>. QED
    BY <1>2, <2>1, <2>2 DEF Counts
<1>8. \A m \in Messages : fate'[m] = "new" => drained'[m] = 0
  BY <1>2, <1>3 DEF Counts
<1>9. \A m \in Messages : drained'[m] <= DrainMax + lid' \div 2
  <2>1. drained[hand[a].m] + 1 <= DrainMax + lid \div 2
    <3>1. /\ hand[a].tries \in 0..DrainMax - 1 /\ a \div 2 \in Nat /\ a \div 2 <= lid \div 2
          /\ DrainMax \in Nat /\ lid \div 2 \in Nat /\ drained[hand[a].m] \in Nat
      BY CountTypes
    <3>. QED
      BY <1>5, <3>1
  <2>. QED
    BY <1>2, <2>1 DEF Counts, DrainBudget
<1>. QED
  BY <1>6, <1>7, <1>8, <1>9 DEF Counts, DrainBudget

\* A drain task parts with its message: its try is counted, or a teardown is.
LEMMA CountsReturned ==
  ASSUME TypeOK, Calls, Contents, Counts, NEW d \in Held, UNCHANGED <<drained, lid>>,
         \A e \in Lids \ {d} : tpc'[e] = tpc[e] /\ reply'[e] = reply[e] /\ hand'[e] = hand[e],
         tpc'[d] = "idle" \/ UNCHANGED <<tpc, reply, hand>>,
         \A m \in Messages : fate'[m] = "new" => fate[m] = "new",
         \/ queue' = queue
         \/ \E t \in 0..DrainMax - 1 : GivenBack(d, t) /\ drained[hand[d].m] <= t + lid \div 2
  PROVE  Counts'
<1>1. \A i \in 1..Len(queue') : drained'[queue'[i].m] <= queue'[i].tries + lid' \div 2
  <2>1. CASE queue' = queue
    BY <2>1 DEF Counts
  <2>2. ASSUME NEW t \in 0..DrainMax - 1, GivenBack(d, t), drained[hand[d].m] <= t + lid \div 2
        PROVE  \A i \in 1..Len(queue') : drained[queue'[i].m] <= queue'[i].tries + lid \div 2
    <3>1. /\ Len(queue') \in Nat /\ queue'[1] = [m |-> hand[d].m, tries |-> t]
          /\ \A i \in 1..Len(queue') : i > 1 => i - 1 \in 1..Len(queue) /\ queue'[i] = queue[i - 1]
      BY <2>2, GivenBackAt
    <3>2. \A i \in 1..Len(queue') : i = 1 \/ i > 1
      BY <3>1
    <3>3. queue'[1].m = hand[d].m /\ queue'[1].tries = t
      BY <3>1
    <3>. QED
      BY <2>2, <3>1, <3>2, <3>3 DEF Counts
  <2>. QED
    BY <2>1, <2>2
<1>2. \A e \in Lids : tpc'[e] # "idle" => tpc[e] # "idle" /\ reply'[e] = reply[e] /\ hand'[e] = hand[e]
  OBVIOUS
<1>. QED
  BY <1>1, <1>2 DEF Counts, DrainBudget

LEMMA CountsStep ==
  ASSUME TypeOK, Generations, Drains, Calls, Work, Contents, Orphans, Counts, Next, Move
  PROVE  Counts'
<1>1. /\ reply \in [Actors -> Answers] /\ tpc \in [Actors -> {"idle", "begin", "await", "done"}]
      /\ hand \in [Lids -> Items \cup {<<>>}]
      /\ \A d \in Lids : d \in Actors /\ d \notin Senders
      /\ \A s \in Senders : s \in Actors
  BY LidType DEF TypeOK, Actors
<1>2. CASE ~\E d \in Lids : DrainStep(d)
  <2>1. /\ SameHands /\ hand' = hand
        /\ \A d \in Lids : tpc'[d] = "idle" <=> tpc[d] = "idle"
    BY <1>2, Outside
  <2>2. Stays \/ \E m \in Messages, c \in {0, 1} : Arrives(m, c)
    BY <2>1 DEF Move, SameHands, Pulled, GivenBack, Over
  <2>3. lid' \in {lid, lid + 1}
    <3>1. Connect \/ Disconnect \/ TeardownStep => lid' \in {lid, lid + 1}
      BY DEF Connect, Disconnect, TeardownStep, Claim, Gathered, Close, lifeVars
    <3>. QED
      BY <3>1, LifeFrame
  <2>4. CASE drained' = drained /\ \A d \in Lids : reply'[d] = reply[d]
    BY <2>1, <2>2, <2>3, <2>4, CountsKept
  <2>5. CASE Connect \/ Disconnect \/ Register \/ LinkDrops \/ TeardownStep \/ TakeOver
    <3>1. UNCHANGED <<drained, reply>>
      BY <2>5 DEF Connect, Disconnect, Register, LinkDrops, TeardownStep, TakeOver, Claim, Gathered,
         Close, callVars, histVars
    <3>. QED
      BY <2>4, <3>1
  <2>6. ASSUME NEW s \in Senders, SendStep(s) PROVE Counts'
    <3>1. drained' = drained /\ \A d \in Lids : reply'[d] = reply[d]
      BY <1>1, <2>6 DEF SendStep, SendChunk, QueueChunk, SendReturns, AckVerdict, callVars, histVars
    <3>. QED
      BY <2>4, <3>1
  <2>7. ASSUME NEW a \in Actors, Begin(a) PROVE Counts'
    <3>1. drained' = drained /\ reply[a] = "none"
          /\ \E r \in {"none", "noIface"} : reply' = [reply EXCEPT ![a] = r]
      BY <2>7 DEF Begin, histVars, Calls
    <3>2. \A d \in Lids : (reply[d] # "none" => reply'[d] # "none") /\ (reply'[d] = "sent" => reply[d] = "sent")
      BY <1>1, <3>1
    <3>. QED
      BY <2>1, <2>2, <2>3, <3>1, <3>2, CountsKept
  <2>8. ASSUME NEW w \in Lids, WorkerStep(w) PROVE Counts'
    <3>1. jobs[w] # <<>> /\ UNCHANGED <<lid, queue, fate, hand, tpc>>
      BY <2>8 DEF WorkerStep, Take, SendText, Work, lifeVars, drainVars, histVars
    <3>. DEFINE a == Head(jobs[w])
    <3>2. /\ a \in Actors /\ tpc[a] = "await" /\ reply[a] = "none"
          /\ a \notin Senders => a \in Lids
      BY <3>1, JobFacts
    <3>3. CASE drained' = drained /\ (reply' = reply
                 \/ \E r \in {"noIface", "permanent", "failed"} : reply' = [reply EXCEPT ![a] = r])
      <4>1. \A d \in Lids : (reply[d] # "none" => reply'[d] # "none") /\ (reply'[d] = "sent" => reply[d] = "sent")
        BY <1>1, <3>2, <3>3
      <4>. QED
        BY <2>1, <2>2, <2>3, <3>3, <4>1, CountsKept
    <3>4. ASSUME NEW r \in {"sent", "failed"}, Leaves(a), reply' = [reply EXCEPT ![a] = r] PROVE Counts'
      <4>1. CASE a \in Senders
        <5>1. drained' = drained /\ \A d \in Lids : reply'[d] = reply[d]
          BY <1>1, <3>4, <4>1 DEF Leaves
        <5>. QED
          BY <2>4, <5>1
      <4>2. CASE a \notin Senders
        BY <3>1, <3>2, <3>4, <4>2, CountsLeft
      <4>. QED
        BY <4>1, <4>2
    <3>. QED
      BY <2>8, <3>3, <3>4 DEF WorkerStep, Take, SendText, Answer, histVars
  <2>. QED
    BY <1>2, <2>5, <2>6, <2>7, <2>8 DEF Next
<1>3. ASSUME NEW d \in Lids, DrainStep(d)
      PROVE  /\ UNCHANGED <<lid, drained>> /\ \A m \in Messages : fate'[m] = "new" => fate[m] = "new"
             /\ \A e \in Lids \ {d} : tpc'[e] = tpc[e] /\ reply'[e] = reply[e] /\ hand'[e] = hand[e]
  <2>1. \/ fate' = fate
        \/ \E f \in {"sent", "dropped", "unsure"} : fate' = [fate EXCEPT ![hand[d].m] = f]
    BY <1>3 DEF DrainStep, StartDrain, DrainTakes, SendTaskEnds, DrainGoesOn, DrainEnds,
       CancelArrives, DrainStops, DrainCancelled, histVars
  <2>2. \A m \in Messages : fate'[m] = "new" => fate[m] = "new"
    BY <2>1 DEF TypeOK
  <2>3. UNCHANGED <<lid, drained>>
    BY <1>3 DEF DrainStep, StartDrain, DrainTakes, SendTaskEnds, DrainGoesOn, DrainEnds,
       CancelArrives, DrainStops, DrainCancelled, histVars, lifeVars
  <2>4. /\ tpc' = tpc \/ \E p : tpc' = [tpc EXCEPT ![d] = p]
        /\ reply' = reply \/ \E r : reply' = [reply EXCEPT ![d] = r]
        /\ hand' = hand \/ \E h : hand' = [hand EXCEPT ![d] = h]
    BY <1>3 DEF DrainStep, StartDrain, DrainTakes, SendTaskEnds, DrainGoesOn, DrainEnds,
       CancelArrives, DrainStops, DrainCancelled, ForgetCall, callVars, drainVars
  <2>. QED
    BY <1>1, <2>2, <2>3, <2>4
<1>4. ASSUME NEW d \in Lids, StartDrain(d) \/ DrainEnds(d) \/ SendTaskEnds(d) \/ CancelArrives(d)
      PROVE  Counts'
  <2>1. UNCHANGED <<queue, fate, accepted, hand>>
    BY <1>4, QuietHands DEF StartDrain, DrainEnds, SendTaskEnds, CancelArrives, histVars
  <2>2. Stays
    BY <1>4, <2>1, QuietHands DEF Stays
  <2>3. /\ tpc'[d] # "idle" => tpc[d] # "idle"
        /\ reply[d] # "none" => reply'[d] # "none"
        /\ reply'[d] = "sent" => reply[d] = "sent"
    BY <1>1, <1>4 DEF StartDrain, DrainEnds, SendTaskEnds, CancelArrives, Answered, Outcome, callVars
  <2>4. UNCHANGED <<lid, drained>>
        /\ \A e \in Lids \ {d} : tpc'[e] = tpc[e] /\ reply'[e] = reply[e]
    BY <1>3, <1>4 DEF DrainStep
  <2>. QED
    BY <2>1, <2>2, <2>3, <2>4, CountsKept
<1>5. ASSUME NEW d \in Lids, DrainTakes(d) PROVE Counts'
  <2>1. /\ d = lid /\ Pulled(d) /\ tpc' = [tpc EXCEPT ![d] = "begin"] /\ reply' = reply
    BY <1>5, TakesPulls DEF DrainTakes
  <2>2. /\ hand'[d] = queue[1] /\ Len(queue) \in Nat /\ Len(queue) >= 1
        /\ \A i \in 1..Len(queue') : i + 1 \in 1..Len(queue) /\ queue'[i] = queue[i + 1]
    BY <2>1, PulledAt
  <2>3. reply[d] = "none"
    <3>1. dpc[d] = "loop"
      BY <1>5 DEF DrainTakes
    <3>. QED
      BY <1>1, <3>1 DEF Calls
  <2>4. drained[queue[1].m] <= queue[1].tries + d \div 2
    BY <2>1, <2>2 DEF Counts
  <2>5. /\ UNCHANGED <<lid, drained, fate>>
        /\ \A e \in Lids \ {d} : tpc'[e] = tpc[e] /\ reply'[e] = reply[e] /\ hand'[e] = hand[e]
    BY <1>3, <1>5, <2>1 DEF DrainStep, Pulled
  <2>6. \A i \in 1..Len(queue') : drained'[queue'[i].m] <= queue'[i].tries + lid' \div 2
    BY <2>2, <2>5 DEF Counts
  <2>7. \A e \in Lids : tpc'[e] # "idle" =>
          /\ drained'[hand'[e].m]
               <= hand'[e].tries + e \div 2 + (IF reply'[e] = "none" THEN 0 ELSE 1)
          /\ reply'[e] = "sent" => drained'[hand'[e].m] > 0
    <3>1. drained[queue[1].m] <= queue[1].tries + d \div 2 + 0
      <4>1. queue[1].tries \in Nat /\ d \div 2 \in Nat
        BY <2>1, <2>2, CountTypes
      <4>. QED
        BY <2>4, <4>1
    <3>2. \A e \in Lids \ {d} : tpc'[e] # "idle" =>
            /\ drained'[hand'[e].m]
                 <= hand'[e].tries + e \div 2 + (IF reply'[e] = "none" THEN 0 ELSE 1)
            /\ reply'[e] = "sent" => drained'[hand'[e].m] > 0
      BY <2>5 DEF Counts
    <3>. QED
      BY <2>1, <2>2, <2>3, <2>5, <3>1, <3>2
  <2>. QED
    BY <2>5, <2>6, <2>7 DEF Counts, DrainBudget
<1>6. ASSUME NEW d \in Lids, d \in Held
      PROVE  /\ hand[d] \in Items /\ drained[hand[d].m] \in Nat /\ hand[d].tries \in Nat /\ d \div 2 \in Nat
             /\ drained[hand[d].m] <= hand[d].tries + 1 + d \div 2 /\ d \div 2 <= lid \div 2
             /\ lid \div 2 \in Nat /\ d % 2 = 1 /\ d \in Nat
  <2>1. tpc[d] # "idle" /\ hand[d] \in Items
    BY <1>6 DEF Calls
  <2>2. /\ drained[hand[d].m] \in Nat /\ hand[d].tries \in Nat /\ d \div 2 \in Nat /\ d \div 2 <= lid \div 2
        /\ lid \div 2 \in Nat /\ d % 2 = 1 /\ d \in Nat
    BY <2>1, CountTypes
  <2>3. drained[hand[d].m] <= hand[d].tries + d \div 2 + (IF reply[d] = "none" THEN 0 ELSE 1)
    BY <2>1 DEF Counts
  <2>. QED
    BY <2>1, <2>2, <2>3
<1>7. ASSUME NEW d \in Lids, NEW p \in {"none", "loop"}, d \in Held, dpc' = [dpc EXCEPT ![d] = p],
             NEW t \in 0..DrainMax - 1, PutBack([m |-> hand[d].m, tries |-> t]), UNCHANGED <<fate, accepted>>,
             \A e \in Lids \ {d} : hand'[e] = hand[e]
      PROVE  GivenBack(d, t)
  BY <1>7, HandEmptied DEF GivenBack, PutBack
<1>8. ASSUME NEW d \in Lids, DrainGoesOn(d) PROVE Counts'
  <2>1. /\ d \in Held /\ dpc' = [dpc EXCEPT ![d] = "loop"] /\ accepted' = accepted
        /\ tpc' = [tpc EXCEPT ![d] = "idle"] /\ \A e \in Lids \ {d} : hand'[e] = hand[e]
    BY <1>3, <1>8 DEF DrainStep, DrainGoesOn, AfterSend, Held, ForgetCall
  <2>2. \/ queue' = queue
        \/ \E t \in 0..DrainMax - 1 : GivenBack(d, t) /\ drained[hand[d].m] <= t + lid \div 2
    <3>1. CASE DrainsAgain(reply[d], hand[d].tries + 1) /\ UNCHANGED fate
               /\ PutBack([hand[d] EXCEPT !.tries = hand[d].tries + 1])
      <4>1. hand[d].tries + 1 \in 0..DrainMax - 1
        BY <2>1, <1>6, <3>1, Bounds DEF DrainsAgain
      <4>2. [hand[d] EXCEPT !.tries = hand[d].tries + 1] = [m |-> hand[d].m, tries |-> hand[d].tries + 1]
        BY <2>1, <1>6 DEF Items
      <4>3. GivenBack(d, hand[d].tries + 1)
        BY <1>7, <2>1, <3>1, <4>1, <4>2
      <4>4. drained[hand[d].m] <= (hand[d].tries + 1) + lid \div 2
        BY <1>6, <2>1
      <4>. QED
        BY <4>1, <4>3, <4>4
    <3>. QED
      BY <1>8, <3>1 DEF DrainGoesOn
  <2>3. tpc'[d] = "idle"
    BY <1>1, <2>1
  <2>. QED
    BY <1>3, <1>8, <2>1, <2>2, <2>3, CountsReturned DEF DrainStep
<1>9. ASSUME NEW d \in Lids, DrainCancelled(d) PROVE Counts'
  <2>1. /\ d \in Held /\ dpc' = [dpc EXCEPT ![d] = "none"] /\ UNCHANGED <<accepted, hand>>
        /\ dpc[d] = "cancelled"
    BY <1>9 DEF DrainCancelled, DrainStops, Held
  <2>2. \/ queue' = queue
        \/ \E t \in 0..DrainMax - 1 : GivenBack(d, t) /\ drained[hand[d].m] <= t + lid \div 2
    <3>1. CASE PutBack(hand[d]) /\ UNCHANGED fate
      <4>1. hand[d].tries \in 0..DrainMax - 1 /\ hand[d] = [m |-> hand[d].m, tries |-> hand[d].tries]
        BY <1>6, <2>1 DEF Items
      <4>2. GivenBack(d, hand[d].tries)
        BY <1>7, <2>1, <3>1, <4>1
      <4>3. lid \in Nat /\ d + 1 \in Nat /\ d + 1 <= lid
        BY <1>6, <2>1 DEF Drains, TypeOK
      <4>4. (d + 1) \div 2 = d \div 2 + 1 /\ (d + 1) \div 2 <= lid \div 2
        BY <1>6, <2>1, <4>3, Halves
      <4>5. drained[hand[d].m] <= hand[d].tries + lid \div 2
        BY <1>6, <2>1, <4>4
      <4>. QED
        BY <4>1, <4>2, <4>5
    <3>. QED
      BY <1>9, <3>1 DEF DrainCancelled
  <2>3. tpc'[d] = "idle" \/ UNCHANGED <<tpc, reply, hand>>
    BY <1>1, <1>9 DEF DrainCancelled, ForgetCall, callVars
  <2>. QED
    BY <1>3, <1>9, <2>1, <2>2, <2>3, CountsReturned DEF DrainStep
<1>. QED
  BY <1>2, <1>4, <1>5, <1>8, <1>9 DEF DrainStep

-----------------------------------------------------------------------------
(* The invariant, and the properties that follow from it.                  *)

LEMMA Initially == Init => IInv
<1>. SUFFICES ASSUME Init PROVE IInv
  OBVIOUS
<1>. USE DEF Init
<1>1. TypeOK
  <2>1. /\ \A s \in Senders : 1 \in 1..Chunks[s] /\ 1 \in 1..Retries + 1
        /\ 0 \in 0..MaxLifecycle /\ 0 \in 0..MaxUpsets
    BY Bounds
  <2>2. <<>> \in Seq(Items) /\ <<>> \in Seq(Messages) /\ <<>> \in Seq(Actors)
    OBVIOUS
  <2>. QED
    BY <2>1, <2>2, Bounds DEF TypeOK, Answers
<1>2. Held = {}
  BY DEF Held
<1>3. Generations /\ Drains
  BY <1>2 DEF Generations, Drains
<1>4. \A a \in Senders \cup Lids : tpc[a] = "idle" /\ reply[a] = "none"
  BY DEF Actors
<1>5. Calls /\ Work /\ Orphans
  BY <1>2, <1>4 DEF Calls, Work, Orphans
<1>6. Len(queue) = 0 /\ Len(accepted) = 0
  OBVIOUS
<1>7. Ahead
  <2>1. \A m \in Messages : fate[m] = "new" /\ direct[m] = 0
    OBVIOUS
  <2>2. \A s \in Senders : Message(s) \in Messages
    BY <1>1, MessageFacts DEF TypeOK, Message
  <2>. QED
    BY <2>1, <2>2, MessageFacts DEF Ahead, QueuedMeansUnsent
<1>8. Contents /\ Arrivals /\ Sorted
  BY <1>2, <1>6 DEF Contents, Arrivals, Sorted
<1>10. Bounded
  <2>1. Cardinality(Held) = 0 /\ Cardinality(strayed) = 0
    BY <1>2, FS_EmptySet
  <2>. QED
    BY <1>6, <2>1, Bounds DEF Bounded
<1>9. Counts
  BY <1>4, <1>6, Bounds DEF Counts, DrainBudget
<1>. QED
  BY <1>1, <1>3, <1>5, <1>7, <1>8, <1>9, <1>10 DEF IInv

LEMMA Inductive == IInv /\ [Next]_vars => IInv'
<1>. SUFFICES ASSUME IInv, [Next]_vars PROVE IInv'
  OBVIOUS
<1>1. CASE Next
  <2>1. /\ TypeOK /\ Generations /\ Drains /\ Calls /\ Work
        /\ Ahead /\ Contents /\ Orphans /\ Arrivals /\ Sorted /\ Bounded /\ Counts
    BY DEF IInv
  <2>2. Move /\ Grows
    BY <1>1, <2>1, Moves, GrowsStep
  <2>3. TypeOK' /\ Generations' /\ Drains' /\ Calls' /\ Work' /\ Ahead'
    BY <1>1, <2>1, TypeStep, GenerationsStep, DrainsStep, CallsStep, WorkStep, AheadStep
  <2>4. Contents' /\ Arrivals' /\ Sorted' /\ Bounded'
    <3>1. strayed' \subseteq Lids
      BY <2>3 DEF TypeOK
    <3>. QED
      BY <2>1, <2>2, <3>1, ContentsStep, ArrivalsStep, SortedStep, BoundedStep
  <2>5. Orphans' /\ Counts'
    BY <1>1, <2>1, <2>2, OrphansStep, CountsStep
  <2>. QED
    BY <2>3, <2>4, <2>5 DEF IInv
<1>2. CASE UNCHANGED vars
  <2>. USE <1>2 DEF vars, lifeVars, sendVars, callVars, jobVars, drainVars, histVars
  <2>1. Held' = Held
    BY DEF Held
  <2>2. TypeOK' /\ Generations' /\ Drains' /\ Work'
    BY <2>1 DEF IInv, TypeOK, Generations, Drains, Work
  <2>3. Calls' /\ Contents' /\ Orphans' /\ Sorted' /\ Bounded'
    BY <2>1 DEF IInv, Calls, Contents, Orphans, Sorted, Bounded
  <2>4. Ahead' /\ Arrivals' /\ Counts'
    BY DEF IInv, Ahead, QueuedMeansUnsent, Message, Arrivals, Counts, DrainBudget
  <2>. QED
    BY <2>2, <2>3, <2>4 DEF IInv
<1>. QED
  BY <1>1, <1>2

\* The strengthened invariant holds of every behaviour.
THEOREM Invariance == Spec => []IInv
BY Initially, Inductive, PTL DEF Spec

\* Each message is in the queue or a hand once, so counting places counts messages.
LEMMA CountedOnce ==
  ASSUME IInv
  PROVE  /\ {m \in Messages : fate[m] = "queued"} = InQueue \cup InHand
         /\ Cardinality(InQueue \cup InHand) = Len(queue) + Cardinality(Held)
<1>1. /\ \A i \in 1..Len(queue) : queue[i].m \in Messages
      /\ \A d \in Held : hand[d].m \in Messages
      /\ Len(queue) \in Nat /\ DOMAIN queue = 1..Len(queue)
  <2>1. \A i \in 1..Len(queue) : queue[i] \in Items
    BY DEF IInv, TypeOK
  <2>2. \A d \in Held : hand[d] \in Items
    BY DEF IInv, Calls, Held
  <2>3. Len(queue) \in Nat /\ DOMAIN queue = 1..Len(queue)
    BY DEF IInv, TypeOK
  <2>. QED
    BY <2>1, <2>2, <2>3 DEF Items
<1>2. {m \in Messages : fate[m] = "queued"} = InQueue \cup InHand
  BY <1>1 DEF InQueue, InHand, IInv, Contents
<1>3. IsFiniteSet(InQueue) /\ Cardinality(InQueue) = Len(queue)
  <2>. DEFINE f == [i \in 1..Len(queue) |-> queue[i].m]
  <2>1. f \in Bijection(1..Len(queue), InQueue)
    <3>1. f \in [1..Len(queue) -> InQueue]
      BY <1>1 DEF InQueue
    <3>2. \A i, j \in 1..Len(queue) : f[i] = f[j] => i = j
      BY DEF IInv, Contents
    <3>3. \A m \in InQueue : \E i \in 1..Len(queue) : f[i] = m
      BY <1>1 DEF InQueue
    <3>. QED
      BY <3>1, <3>2, <3>3 DEF Bijection, Injection, Surjection, IsInjective
  <2>2. IsFiniteSet(1..Len(queue)) /\ Cardinality(1..Len(queue)) = Len(queue)
    BY SMTT(30), <1>1, FS_Interval
  <2>3. ExistsBijection(1..Len(queue), InQueue)
    BY <2>1 DEF ExistsBijection
  <2>. QED
    BY <2>2, <2>3, FS_Bijection
<1>4. IsFiniteSet(InHand) /\ Cardinality(InHand) = Cardinality(Held)
  <2>. DEFINE f == [d \in Held |-> hand[d].m]
  <2>1. f \in Bijection(Held, InHand)
    <3>1. f \in [Held -> InHand]
      BY DEF InHand
    <3>2. \A d, e \in Held : f[d] = f[e] => d = e
      BY HandsApart DEF IInv
    <3>3. \A m \in InHand : \E d \in Held : f[d] = m
      BY DEF InHand
    <3>. QED
      BY <3>1, <3>2, <3>3 DEF Bijection, Injection, Surjection, IsInjective
  <2>2. IsFiniteSet(Held)
    BY LidsFinite DEF Held
  <2>3. ExistsBijection(Held, InHand)
    BY <2>1 DEF ExistsBijection
  <2>. QED
    BY <2>2, <2>3, FS_Bijection
<1>5. InQueue \cap InHand = {}
  BY <1>1 DEF InQueue, InHand, IInv, Contents
<1>6. Cardinality(InQueue \cup InHand) = Len(queue) + Cardinality(Held)
  <2>1. Cardinality(InQueue \cup InHand) = Cardinality(InQueue) + Cardinality(InHand) - 0
    BY <1>3, <1>4, <1>5, FS_Union, FS_EmptySet
  <2>2. Cardinality(InHand) \in Nat
    BY <1>4, FS_CardinalityType
  <2>. QED
    BY <1>1, <1>3, <1>4, <2>1, <2>2
<1>. QED
  BY <1>2, <1>6

\* A message's place in the order of arrival is its age.
LEMMA AgeIs ==
  ASSUME TypeOK, Arrivals, NEW m, NEW n, Before(accepted, m, n)
  PROVE  Age(m) < Age(n)
<1>1. PICK i \in 1..Len(accepted), j \in 1..Len(accepted) : i < j /\ accepted[i] = m /\ accepted[j] = n
  BY DEF Before
<1>2. DOMAIN accepted = 1..Len(accepted)
  BY DEF TypeOK
<1>3. \A k, l \in 1..Len(accepted) : accepted[k] = accepted[l] => k = l
  BY DEF Arrivals
<1>4. Age(m) = i
  BY <1>1, <1>2, <1>3 DEF Age
<1>5. Age(n) = j
  BY <1>1, <1>2, <1>3 DEF Age
<1>. QED
  BY <1>1, <1>4, <1>5

\* The queue of the code: nothing that was accepted is lost without a reason or
\* held twice, through evictions, retries, put-backs, teardowns and drain tasks no
\* teardown waits for.  It keeps the order of arrival, but for the messages that
\* a connect found in the hand of a drain task of an ended lifecycle; and it outgrows
\* its bound by one put-back message, and one for each drain task found so.
THEOREM QueueSafe == Spec => []QueueInv
<1>1. IInv => QueueInv
  <2>. SUFFICES ASSUME IInv PROVE QueueInv
    OBVIOUS
  <2>1. TypeOK /\ Arrivals /\ Sorted /\ Bounded /\ DOMAIN queue = 1..Len(queue)
    BY DEF IInv, TypeOK
  <2>2. Accounted
    BY CountedOnce DEF Accounted
  <2>4. OldestFirst
    <3>1. ASSUME NEW i \in DOMAIN queue, NEW j \in DOMAIN queue, i < j,
                 {queue[i].m, queue[j].m} \cap late = {}
          PROVE  Age(queue[i].m) < Age(queue[j].m)
      <4>1. Before(accepted, queue[i].m, queue[j].m)
        BY <2>1, <3>1 DEF Sorted
      <4>. QED
        BY <2>1, <4>1, AgeIs
    <3>2. \A m \in InHand \ late, n \in InQueue \ late : Age(m) < Age(n)
      <4>1. ASSUME NEW d \in Held, NEW i \in 1..Len(queue), hand[d].m \notin late, queue[i].m \notin late
            PROVE  Age(hand[d].m) < Age(queue[i].m)
        <5>1. Before(accepted, hand[d].m, queue[i].m)
          BY <2>1, <4>1 DEF Sorted
        <5>. QED
          BY <2>1, <5>1, AgeIs
      <4>. QED
        BY <2>1, <4>1 DEF InHand, InQueue
    <3>. QED
      BY <3>1, <3>2 DEF OldestFirst
  <2>. QED
    BY <2>1, <2>2, <2>4 DEF QueueInv
<1>. QED
  BY <1>1, Invariance, PTL

\* _send_chunk queues a chunk only when its own send put nothing of it on the air.
THEOREM NotQueuedAfterSend == Spec => []QueuedMeansUnsent
<1>1. IInv => QueuedMeansUnsent
  BY DEF IInv, Ahead
<1>. QED
  BY <1>1, Invariance, PTL

\* The drain loop's attempts stay within DRAIN_MAX_ATTEMPTS, and one more for each
\* teardown, however often a message is put back.
THEOREM BudgetKept == Spec => []DrainBudget
<1>1. IInv => DrainBudget
  BY DEF IInv, Counts
<1>. QED
  BY <1>1, Invariance, PTL

-----------------------------------------------------------------------------
(* The refinement of Courier.                                              *)

\* What the courier sees of a message.
Shown(f) == CASE f = "queued" -> "accepted" [] f \in {"evicted", "dropped"} -> "lost" [] OTHER -> f

\* A step is an arrival, a packet of the drain task's, a drain task's parting with
\* its message, or nothing that the courier sees.
Seen ==
  \/ UNCHANGED <<fate, drained>>
  \/ drained' = drained /\ \E m \in Messages, c \in {0, 1} : Arrives(m, c)
  \/ /\ fate' = fate
     /\ \E m \in Messages :
          fate[m] \in {"queued", "unsure"} /\ drained' = [drained EXCEPT ![m] = drained[m] + 1]
  \/ /\ drained' = drained
     /\ \E m \in Messages, f \in {"sent", "dropped", "unsure"} :
          /\ fate[m] = "queued" /\ fate' = [fate EXCEPT ![m] = f]
          /\ f = "sent" => drained[m] > 0

LEMMA Effects ==
  ASSUME IInv, Next
  PROVE  Seen
<1>1. /\ TypeOK /\ Generations /\ Drains /\ Calls /\ Work /\ Ahead /\ Contents /\ Orphans /\ Counts
  BY DEF IInv
<1>2. Move
  BY <1>1, Moves
<1>3. CASE ~\E d \in Lids : DrainStep(d)
  <2>1. SameHands
    BY <1>1, <1>3, Outside
  <2>2. fate' = fate \/ \E m \in Messages, c \in {0, 1} : Arrives(m, c)
    BY <1>2, <2>1 DEF Move, SameHands, Stays, Pulled, GivenBack, Over
  <2>3. CASE drained' = drained
    BY <2>2, <2>3 DEF Seen
  <2>4. CASE drained' # drained
    <3>1. ~(Connect \/ Disconnect \/ Register \/ LinkDrops \/ TeardownStep \/ TakeOver)
      BY <2>4 DEF Connect, Disconnect, Register, LinkDrops, TeardownStep, TakeOver, Claim, Gathered,
         Close, histVars
    <3>2. ~\E s \in Senders : SendStep(s)
      BY <2>4 DEF SendStep, SendChunk, QueueChunk, SendReturns, AckVerdict, histVars
    <3>3. ~\E a \in Actors : Begin(a)
      BY <2>4 DEF Begin, histVars
    <3>4. PICK w \in Lids : WorkerStep(w)
      BY <1>3, <3>1, <3>2, <3>3 DEF Next
    <3>5. fate' = fate /\ Leaves(Head(jobs[w])) /\ jobs[w] # <<>>
      BY <1>1, <2>4, <3>4 DEF WorkerStep, Take, SendText, histVars, Work
    <3>6. LET a == Head(jobs[w]) IN
            /\ a \in Lids /\ tpc[a] = "await"
            /\ drained' = [drained EXCEPT ![hand[a].m] = drained[hand[a].m] + 1]
      BY <1>1, <2>4, <3>5, JobFacts DEF Leaves
    <3>7. hand[Head(jobs[w])].m \in Messages /\ fate[hand[Head(jobs[w])].m] \in {"queued", "unsure"}
      BY <1>1, <3>6, CountTypes DEF Contents, Orphans
    <3>. QED
      BY <3>5, <3>6, <3>7 DEF Seen
  <2>. QED
    BY <2>3, <2>4
<1>4. ASSUME NEW d \in Lids, DrainStep(d) PROVE Seen
  <2>1. drained' = drained
    BY <1>4 DEF DrainStep, StartDrain, DrainTakes, SendTaskEnds, DrainGoesOn, DrainEnds,
       CancelArrives, DrainStops, DrainCancelled, histVars
  <2>2. \/ fate' = fate
        \/ /\ d \in Held
           /\ \E f \in {"sent", "dropped", "unsure"} :
                fate' = [fate EXCEPT ![hand[d].m] = f] /\ (f = "sent" => reply[d] = "sent")
    BY <1>4 DEF DrainStep, StartDrain, DrainTakes, SendTaskEnds, DrainGoesOn, DrainEnds,
       CancelArrives, DrainStops, DrainCancelled, histVars, Held, Delivered
  <2>3. d \in Held =>
          hand[d].m \in Messages /\ fate[hand[d].m] = "queued" /\ (reply[d] = "sent" => drained[hand[d].m] > 0)
    BY <1>1, CountTypes DEF Calls, Contents, Counts
  <2>. QED
    BY <2>1, <2>2, <2>3 DEF Seen
<1>. QED
  BY <1>3, <1>4

LEMMA CourierInit == Init => Mailbox!Init
<1>. SUFFICES ASSUME Init PROVE Mailbox!Init
  OBVIOUS
<1>. QED
  BY DEF Init, Mailbox!Init

\* Every step is one of the courier's or one it does not see.
LEMMA CourierStep ==
  ASSUME IInv, [Next]_vars
  PROVE  [Mailbox!Next]_(Mailbox!courierVars)
<1>. DEFINE state == [m \in Messages |-> CASE fate[m] = "queued" -> "accepted"
                                          [] fate[m] \in {"evicted", "dropped"} -> "lost"
                                          [] OTHER -> fate[m]]
<1>1. /\ state \in [Messages -> {"new", "accepted", "lost", "sent", "unsure"}]
      /\ \A m \in Messages : state[m] = Shown(fate[m]) /\ state'[m] = Shown(fate'[m])
      /\ fate \in [Messages -> Fates] /\ drained \in [Messages -> Nat]
  BY DEF IInv, TypeOK, Fates, Shown
<1>2. CASE UNCHANGED <<fate, drained>>
  BY <1>2 DEF Mailbox!courierVars
<1>3. ASSUME NEW m \in Messages, NEW c \in {0, 1}, Arrives(m, c), drained' = drained
      PROVE  Mailbox!Next
  <2>1. /\ fate[m] = "new" /\ state[m] = "new"
        /\ \A n \in Messages :
             fate'[n] = IF n = m THEN "queued" ELSE IF c = 1 /\ n = queue[1].m THEN "evicted" ELSE fate[n]
    BY <1>1, <1>3 DEF Arrives, Shown
  <2>2. CASE c = 0
    <3>1. state' = [state EXCEPT ![m] = "accepted"]
      <4>1. \A n \in Messages : state'[n] = IF n = m THEN "accepted" ELSE state[n]
        BY <1>1, <2>1, <2>2 DEF Shown
      <4>. QED
        BY <1>1, <4>1
    <3>. QED
      BY <1>3, <2>1, <3>1 DEF Mailbox!Next, Mailbox!Accept
  <2>3. CASE c = 1
    <3>1. queue[1].m \in Messages /\ fate[queue[1].m] = "queued"
      <4>1. 1 \in 1..Len(queue)
        BY <1>3, <2>3, ArrivesAt DEF IInv
      <4>2. queue[1] \in Items
        BY <4>1 DEF IInv, TypeOK
      <4>. QED
        BY <4>1, <4>2 DEF IInv, Contents, Items
    <3>2. state[queue[1].m] = "accepted" /\ queue[1].m # m
      BY <1>1, <2>1, <3>1 DEF Shown
    <3>3. state' = [state EXCEPT ![m] = "accepted", ![queue[1].m] = "lost"]
      <4>1. \A n \in Messages :
              state'[n] = IF n = m THEN "accepted" ELSE IF n = queue[1].m THEN "lost" ELSE state[n]
        BY <1>1, <2>1, <2>3 DEF Shown
      <4>. QED
        BY <1>1, <3>1, <3>2, <4>1
    <3>. QED
      BY <1>3, <2>1, <3>1, <3>2, <3>3 DEF Mailbox!Next, Mailbox!AcceptInstead
  <2>. QED
    BY <2>2, <2>3
<1>4. ASSUME NEW m \in Messages, fate' = fate, fate[m] \in {"queued", "unsure"},
             drained' = [drained EXCEPT ![m] = drained[m] + 1]
      PROVE  Mailbox!Next
  <2>1. state' = state /\ state[m] \in {"accepted", "unsure"}
    BY <1>1, <1>4 DEF Shown
  <2>. QED
    BY <1>4, <2>1 DEF Mailbox!Next, Mailbox!Emit
<1>5. ASSUME NEW m \in Messages, NEW f \in {"sent", "dropped", "unsure"}, fate[m] = "queued",
             fate' = [fate EXCEPT ![m] = f], f = "sent" => drained[m] > 0, drained' = drained
      PROVE  Mailbox!Next
  <2>. DEFINE outcome == IF f = "dropped" THEN "lost" ELSE f
  <2>1. state[m] = "accepted" /\ \A n \in Messages : fate'[n] = IF n = m THEN f ELSE fate[n]
    BY <1>1, <1>5 DEF Shown
  <2>2. state' = [state EXCEPT ![m] = outcome]
    BY <1>1, <2>1 DEF Shown
  <2>3. outcome \in {"sent", "lost", "unsure"} /\ (outcome = "sent" => drained[m] > 0)
    BY <1>5
  <2>. QED
    BY <1>5, <2>1, <2>2, <2>3 DEF Mailbox!Next, Mailbox!Settle
<1>6. CASE Next
  BY <1>2, <1>3, <1>4, <1>5, <1>6, Effects DEF Seen
<1>7. CASE UNCHANGED vars
  BY <1>2, <1>7 DEF vars, histVars
<1>. QED
  BY <1>6, <1>7

\* The adapter's outbound queue, drain loop and teardown implement the courier: a
\* chunk reported as queued is sent, or given up for a reason, and nothing of it
\* leaves by the queue once that is settled.
THEOREM Refinement == Spec => KeepsPromise
<1>1. Init => Mailbox!Init
  BY CourierInit
<1>2. IInv /\ [Next]_vars => [Mailbox!Next]_(Mailbox!courierVars)
  BY CourierStep
<1>. QED
  BY <1>1, <1>2, Invariance, PTL DEF Spec, KeepsPromise, Mailbox!Spec
=============================================================================
