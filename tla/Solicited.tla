------------------------------- MODULE Solicited -------------------------------
(***************************************************************************)
(* Requests that wait for a node's answer (solicited.py): telemetry,       *)
(* position, traceroute.  A call of solicit() arms a waiter, has the       *)
(* transport worker send the request and waits, on its own loop, with a    *)
(* timeout; the platform loop resolves waiters when a packet of the right  *)
(* kind arrives, and a dropped link fails them all.                        *)
(*                                                                         *)
(* What runs under _response_lock is one action, as is what a loop runs    *)
(* between two such blocks or awaits.  A key is a pair (kind, node).  Time *)
(* is a counter.  A packet carries the stamp of the gateway's clock, which *)
(* need not agree with the host's, or None when there is none (no rxTime,  *)
(* or 0).                                                                  *)
(***************************************************************************)
EXTENDS Naturals, FiniteSets

CONSTANTS
  Calls,      \* calls of solicit()
  Keys,       \* pairs of a kind and a node
  Asks,       \* what each call may ask for
  Skew,       \* _RX_TIME_SKEW_BOUND_SECS
  Start,      \* the host's clock when the behaviour begins
  MaxTime,    \* bound on the clock and on stamps
  MaxPackets, \* bound on the packets that arrive
  MaxDrops,   \* bound on link drops
  None

ASSUME SolicitedAssumption ==
  /\ None \notin Keys
  /\ MaxTime \in Nat /\ Start \in 1..MaxTime /\ {Skew, MaxPackets, MaxDrops} \subseteq Nat
  /\ None \notin Nat

ASSUME AsksAssumption == \A c \in Calls : Asks[c] \subseteq Keys

VARIABLES
  now, packets, drops,  \* the clock; packets and drops so far
  link,                 \* an interface is registered
  pc, key,              \* where each call is, and what it asks for
  job,                  \* the call's request on the worker: "none", "queued", "sent", "raised"
  fut,                  \* its waiter: "none", "pending", "answered", "lost", "cancelled"
  answer,               \* history: the stamp of the packet that answered it
  armed,                \* history: when it was armed, by the clock and by the link drops
  waiters,              \* _response_waiters
  sentAt,               \* _waiter_sent_at
  resolving, rx,        \* waiters that the platform loop has taken to resolve, and its packet
  failing               \* waiters that a link drop has taken to fail

envVars  == <<now, packets, drops, link>>
callVars == <<pc, key, job>>
waitVars == <<fut, answer, armed>>
regVars  == <<waiters, sentAt>>
takeVars == <<resolving, rx, failing>>
vars == <<envVars, callVars, waitVars, regVars, takeVars>>

Times == 1..MaxTime

Init ==
  /\ now = Start /\ packets = 0 /\ drops = 0 /\ link = TRUE
  /\ pc = [c \in Calls |-> "idle"] /\ key = [c \in Calls |-> None]
  /\ job = [c \in Calls |-> "none"] /\ fut = [c \in Calls |-> "none"]
  /\ answer = [c \in Calls |-> None]
  /\ armed = [c \in Calls |-> [time |-> Start, drops |-> 0]]
  /\ waiters = [k \in Keys |-> {}] /\ sentAt = [c \in Calls |-> None]
  /\ resolving = {} /\ rx = None /\ failing = {}

-----------------------------------------------------------------------------
(* The environment: time, the link and the worker.                         *)

Tick ==
  /\ now < MaxTime
  /\ now' = now + 1
  /\ UNCHANGED <<packets, drops, link, callVars, waitVars, regVars, takeVars>>

LinkReturns ==
  /\ ~link
  /\ link' = TRUE
  /\ UNCHANGED <<now, packets, drops, callVars, waitVars, regVars, takeVars>>

\* The worker posts the request without waiting for its answer, or the library
\* raises.
WorkerSends(c) ==
  /\ job[c] = "queued"
  /\ \E outcome \in {"sent", "raised"} : job' = [job EXCEPT ![c] = outcome]
  /\ UNCHANGED <<envVars, pc, key, waitVars, regVars, takeVars>>

-----------------------------------------------------------------------------
(* A call of solicit().                                                    *)

\* Without an interface there is nothing to ask.
Ask(c) ==
  /\ pc[c] = "idle"
  /\ \E k \in Asks[c] : key' = [key EXCEPT ![c] = k]
  /\ pc' = [pc EXCEPT ![c] = IF link THEN "arm" ELSE "refused"]
  /\ UNCHANGED <<envVars, job, waitVars, regVars, takeVars>>

FiledUnder(c) == key[c]

\* register_waiter, and the job's submission.
Arm(c) ==
  /\ pc[c] = "arm"
  /\ pc' = [pc EXCEPT ![c] = "sending"]
  /\ job' = [job EXCEPT ![c] = "queued"]
  /\ fut' = [fut EXCEPT ![c] = "pending"]
  /\ armed' = [armed EXCEPT ![c] = [time |-> now, drops |-> drops]]
  /\ waiters' = [waiters EXCEPT ![FiledUnder(c)] = @ \cup {c}]
  /\ sentAt' = [sentAt EXCEPT ![c] = now]
  /\ UNCHANGED <<envVars, key, answer, takeVars>>

\* Mutant: a discarded waiter is cancelled and stays in the registry.
CancelOnly(c) ==
  /\ fut' = [fut EXCEPT ![c] = IF @ = "pending" THEN "cancelled" ELSE @]
  /\ UNCHANGED regVars

\* discard_waiter: a waiter that is still registered is dropped and cancelled.
Discard(c) ==
  LET registered == c \in waiters[key[c]]
  IN  /\ waiters' = [waiters EXCEPT ![key[c]] = @ \ {c}]
      /\ sentAt' = [sentAt EXCEPT ![c] = IF registered THEN None ELSE @]
      /\ fut' = [fut EXCEPT ![c] = IF registered /\ @ = "pending" THEN "cancelled" ELSE @]

SendReturns(c) ==
  /\ pc[c] = "sending"
  /\ \/ /\ job[c] = "sent"
        /\ pc' = [pc EXCEPT ![c] = "waiting"]
        /\ UNCHANGED <<fut, regVars>>
     \/ /\ job[c] = "raised"
        /\ pc' = [pc EXCEPT ![c] = "unsent"]
        /\ Discard(c)
  /\ job' = [job EXCEPT ![c] = "none"]
  /\ UNCHANGED <<envVars, key, answer, armed, takeVars>>

\* Cancelled while its request is in the worker: what becomes of the request is
\* no longer this call's concern.
CancelSend(c) ==
  /\ pc[c] = "sending"
  /\ pc' = [pc EXCEPT ![c] = "gaveUp"]
  /\ job' = [job EXCEPT ![c] = "none"]
  /\ Discard(c)
  /\ UNCHANGED <<envVars, key, answer, armed, takeVars>>

WaitReturns(c) ==
  /\ pc[c] = "waiting" /\ fut[c] \in {"answered", "lost"}
  /\ pc' = [pc EXCEPT ![c] = fut[c]]
  /\ UNCHANGED <<envVars, key, job, waitVars, regVars, takeVars>>

\* Mutant: the wait has no timeout.
WaitsForEver(c) == FALSE

MayEnd(c) == pc[c] = "waiting"

\* The timeout, or a cancellation from outside, cancels the waiter before the
\* call itself runs again to discard it.
WaitEnds(c) ==
  /\ MayEnd(c)
  /\ pc' = [pc EXCEPT ![c] = "ended"]
  /\ fut' = [fut EXCEPT ![c] = IF @ = "pending" THEN "cancelled" ELSE @]
  /\ UNCHANGED <<envVars, key, job, answer, armed, regVars, takeVars>>

WaitDiscards(c) ==
  /\ pc[c] = "ended"
  /\ pc' = [pc EXCEPT ![c] = "gaveUp"]
  /\ Discard(c)
  /\ UNCHANGED <<envVars, key, job, answer, armed, takeVars>>

-----------------------------------------------------------------------------
(* Packets.                                                                *)

\* Mutant: a packet from before the request answers it.
NeverPredates(received, sent) == FALSE

\* A packet stamped before the request was armed is not an answer to it; one that
\* is stamped more than Skew away is of another clock, and is not compared.
Predates(received, sent) ==
  received # None /\ received < sent /\ sent <= received + Skew

\* Mutant: waiters that the packet does not answer are not registered again.
NoneKept(c, received) == FALSE

\* The waiters a packet leaves registered: it came before them, and they wait.
Keeps(c, received) == fut[c] = "pending"

\* resolve_waiters under the lock: the waiters of the key are split into those
\* the packet answers and those it predates.
Packet(k, received) ==
  /\ resolving = {} /\ packets < MaxPackets
  /\ packets' = packets + 1
  /\ LET early == {c \in waiters[k] : sentAt[c] # None /\ Predates(received, sentAt[c])}
     IN  /\ waiters' = [waiters EXCEPT ![k] = {c \in early : Keeps(c, received)}]
         /\ sentAt' = [c \in Calls |-> IF c \in waiters[k] \ early THEN None ELSE sentAt[c]]
         /\ resolving' = waiters[k] \ early
         /\ rx' = IF resolving' = {} THEN None ELSE received
  /\ UNCHANGED <<now, drops, link, callVars, waitVars, failing>>

\* A waiter that something else has settled keeps its outcome.
Settled(c, outcome) == IF fut[c] = "pending" THEN outcome ELSE fut[c]

\* Outside the lock.
Deliver(c) ==
  /\ c \in resolving
  /\ resolving' = resolving \ {c}
  /\ rx' = IF resolving' = {} THEN None ELSE rx
  /\ fut' = [fut EXCEPT ![c] = Settled(c, "answered")]
  /\ answer' = [answer EXCEPT ![c] = IF fut[c] = "pending" THEN rx ELSE @]
  /\ UNCHANGED <<envVars, callVars, armed, regVars, failing>>

\* Mutant: a link drop fails the waiters of one kind of request only.
SomeOf(k) == IF k = CHOOSE x \in Keys : TRUE THEN waiters[k] ELSE {}

\* abandon_all fails every waiter that is registered.
Abandoned(k) == waiters[k]

\* The poll found the interface dead, or the adapter disconnects.
LinkDrops ==
  /\ link /\ failing = {} /\ drops < MaxDrops
  /\ link' = FALSE /\ drops' = drops + 1
  /\ failing' = UNION {Abandoned(k) : k \in Keys}
  /\ waiters' = [k \in Keys |-> waiters[k] \ Abandoned(k)]
  /\ sentAt' = [c \in Calls |-> None]
  /\ UNCHANGED <<now, packets, callVars, waitVars, resolving, rx>>

Fail(c) ==
  /\ c \in failing
  /\ failing' = failing \ {c}
  /\ fut' = [fut EXCEPT ![c] = Settled(c, "lost")]
  /\ UNCHANGED <<envVars, callVars, answer, armed, regVars, resolving, rx>>

-----------------------------------------------------------------------------
CallStep(c) ==
  Arm(c) \/ SendReturns(c) \/ WaitReturns(c) \/ WaitEnds(c) \/ WaitDiscards(c)

Next ==
  \/ Tick \/ LinkReturns \/ LinkDrops
  \/ \E c \in Calls : Ask(c) \/ CallStep(c) \/ CancelSend(c) \/ WorkerSends(c)
                      \/ Deliver(c) \/ Fail(c)
  \/ \E k \in Keys, received \in {None} \cup Times : Packet(k, received)

Spec == Init /\ [][Next]_vars

\* The call's loop and the worker run, and a timer that is set fires.  Nothing
\* makes a node answer, a link drop, or whoever took a waiter settle it in time.
Fairness == \A c \in Calls : WF_vars(CallStep(c)) /\ WF_vars(WorkerSends(c))

FairSpec == Spec /\ Fairness

-----------------------------------------------------------------------------
(* Properties.                                                             *)

Over == {"refused", "unsent", "answered", "lost", "gaveUp"}

TypeOK ==
  /\ now \in Times /\ packets \in 0..MaxPackets /\ drops \in 0..MaxDrops /\ link \in BOOLEAN
  /\ pc \in [Calls -> {"idle", "arm", "sending", "waiting", "ended"} \cup Over]
  /\ key \in [Calls -> Keys \cup {None}]
  /\ job \in [Calls -> {"none", "queued", "sent", "raised"}]
  /\ fut \in [Calls -> {"none", "pending", "answered", "lost", "cancelled"}]
  /\ answer \in [Calls -> Times \cup {None}]
  /\ armed \in [Calls -> [time : Times, drops : 0..MaxDrops]]
  /\ waiters \in [Keys -> SUBSET Calls] /\ sentAt \in [Calls -> Times \cup {None}]
  /\ \A k \in Keys : \A c \in waiters[k] : key[c] = k
  /\ resolving \subseteq Calls /\ rx \in Times \cup {None} /\ failing \subseteq Calls

\* A call that still waits can be answered: its waiter is registered, or a
\* packet or a link drop that has taken it is about to settle it.
NoDeafWaiter ==
  \A c \in Calls : fut[c] = "pending" => c \in waiters[key[c]] \cup resolving \cup failing

\* The registry has only waiters of calls that are not over, under what they ask
\* for.
RegistryClean ==
  TypeOK /\ \A c \in Calls : pc[c] \in Over => \A k \in Keys : c \notin waiters[k]

\* A call is answered by no packet that is stamped before the call armed its
\* waiter, and by at most Skew: only a packet with a later stamp, with the stamp of
\* a clock that is further off than that, or with none, whatever waiters, packets
\* and link drops came between its arming and its answer.
AnswerIsFresh ==
  \A c \in Calls :
    fut[c] = "answered" /\ answer[c] # None
      => answer[c] >= armed[c].time \/ answer[c] + Skew < armed[c].time

\* No waiter sleeps through a link drop: one that is neither settled nor about to
\* be was armed after the last drop.
LossReachesAll ==
  \A c \in Calls : fut[c] = "pending" /\ c \notin resolving \cup failing
                     => armed[c].drops = drops

\* Every call that was made returns.
CallsReturn == \A c \in Calls : pc[c] = "arm" ~> pc[c] \in Over

\* The docstring of discard_waiter: a waiter that timed out is dropped, so that
\* the registry (waiters and the times they were armed) cannot grow unbounded.
NothingLeft ==
  \A c \in Calls : pc[c] \in Over /\ c \notin resolving \cup failing
                     => sentAt[c] = None
================================================================================
