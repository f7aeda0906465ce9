----------------------------- MODULE SolicitedProofs -----------------------------
(***************************************************************************)
(* The safety of the solicited requests, for any number of calls, kinds,   *)
(* nodes, packets and link drops.                                          *)
(*                                                                         *)
(* None of the four properties is inductive alone.  Whether a waiter can   *)
(* still be settled depends on who holds it, the registry or one that has  *)
(* taken it, never both; whether its answer is fresh on the time it was    *)
(* filed with.                                                             *)
(***************************************************************************)
EXTENDS Solicited, TLAPS

\* A call that is past its first check knows what it asks for.
Asked == \A c \in Calls : pc[c] # "idle" => key[c] \in Keys

\* A call that has not armed a waiter has none anywhere.
Unarmed ==
  \A c \in Calls : pc[c] \in {"idle", "arm", "refused"} =>
    /\ fut[c] = "none"
    /\ c \notin resolving \cup failing
    /\ \A k \in Keys : c \notin waiters[k]

\* Whoever takes a waiter takes it out of the registry.
TakenOnce == \A c \in resolving \cup failing : \A k \in Keys : c \notin waiters[k]

\* What was answered or lost had been taken.
SettledGone ==
  \A c \in Calls : fut[c] \in {"answered", "lost"} => \A k \in Keys : c \notin waiters[k]

OverGone == \A c \in Calls : pc[c] \in Over => \A k \in Keys : c \notin waiters[k]

\* A registered waiter is filed with the time it was armed at.
FiledAt == \A k \in Keys : \A c \in waiters[k] : sentAt[c] = armed[c].time

\* The packet that is being handed out does not predate those it is handed to.
TakenFresh ==
  \A c \in resolving : rx # None => rx >= armed[c].time \/ rx + Skew < armed[c].time

IInv ==
  /\ TypeOK /\ Asked /\ Unarmed /\ TakenOnce /\ SettledGone /\ OverGone
  /\ FiledAt /\ TakenFresh
  /\ NoDeafWaiter /\ LossReachesAll /\ AnswerIsFresh

-----------------------------------------------------------------------------
(* The steps.                                                              *)

\* discard_waiter takes the call's waiter out of the registry, wherever that is,
\* and touches no other call's; it leaves pending what another has taken.
LEMMA DiscardEffect ==
  ASSUME TypeOK, NEW c \in Calls, key[c] \in Keys, Discard(c)
  PROVE  /\ waiters' = [k \in Keys |-> waiters[k] \ {c}]
         /\ sentAt' \in [Calls -> Times \cup {None}]
         /\ fut' \in [Calls -> {"none", "pending", "answered", "lost", "cancelled"}]
         /\ \A d \in Calls \ {c} : sentAt'[d] = sentAt[d] /\ fut'[d] = fut[d]
         /\ fut'[c] \in {fut[c], "cancelled"}
         /\ fut'[c] = "pending" => c \notin waiters[key[c]]
<1>1. waiters' = [k \in Keys |-> waiters[k] \ {c}]
  <2>1. waiters \in [Keys -> SUBSET Calls] /\ \A k \in Keys : k # key[c] => c \notin waiters[k]
    BY DEF TypeOK
  <2>2. waiters' = [waiters EXCEPT ![key[c]] = @ \ {c}]
    BY DEF Discard
  <2>. QED
    BY <2>1, <2>2
<1>2. sentAt' = [sentAt EXCEPT ![c] = IF c \in waiters[key[c]] THEN None ELSE sentAt[c]]
  BY DEF Discard
<1>3. fut' = [fut EXCEPT ![c] = IF c \in waiters[key[c]] /\ fut[c] = "pending"
                                THEN "cancelled" ELSE fut[c]]
  BY DEF Discard
<1>4. sentAt \in [Calls -> Times \cup {None}]
  BY DEF TypeOK
<1>5. fut \in [Calls -> {"none", "pending", "answered", "lost", "cancelled"}]
  BY DEF TypeOK
<1>6. sentAt' \in [Calls -> Times \cup {None}]
      /\ \A d \in Calls \ {c} : sentAt'[d] = sentAt[d]
  BY <1>2, <1>4
<1>7. /\ fut' \in [Calls -> {"none", "pending", "answered", "lost", "cancelled"}]
      /\ \A d \in Calls \ {c} : fut'[d] = fut[d]
      /\ fut'[c] \in {fut[c], "cancelled"}
      /\ fut'[c] = "pending" => c \notin waiters[key[c]]
  BY <1>3, <1>5
<1>. QED
  BY <1>1, <1>6, <1>7

\* Every step keeps the types: the registry files a waiter under what its call asks
\* for, and a call that asks for nothing has no waiter.
LEMMA TypeStep ==
  ASSUME TypeOK, Asked, Unarmed, Next
  PROVE  TypeOK'
<1>. USE SolicitedAssumption DEF TypeOK, Times, envVars, callVars, waitVars, regVars, takeVars
<1>1. CASE Tick
  BY <1>1 DEF Tick
<1>2. CASE LinkReturns
  BY <1>2 DEF LinkReturns
<1>3. CASE LinkDrops
  <2>1. waiters' = [k \in Keys |-> {}]
    BY <1>3 DEF LinkDrops, Abandoned
  <2>2. failing' \subseteq Calls
    BY <1>3 DEF LinkDrops, Abandoned
  <2>3. drops' \in 0..MaxDrops
    <3>1. drops \in 0..MaxDrops /\ drops < MaxDrops /\ drops' = drops + 1 /\ MaxDrops \in Nat
      BY <1>3 DEF LinkDrops
    <3>. QED
      BY ONLY <3>1
  <2>4. sentAt' = [c \in Calls |-> None] /\ link' \in BOOLEAN
    BY <1>3 DEF LinkDrops
  <2>5. UNCHANGED <<now, packets, callVars, waitVars, resolving, rx>>
    BY <1>3 DEF LinkDrops
  <2>. QED
    BY <2>1, <2>2, <2>3, <2>4, <2>5
<1>4. ASSUME NEW c \in Calls, Ask(c) PROVE TypeOK'
  BY <1>4, AsksAssumption DEF Ask, Unarmed, Over
<1>5. ASSUME NEW c \in Calls, Arm(c) PROVE TypeOK'
  <2>1. key[c] \in Keys
    BY <1>5 DEF Arm, Asked
  <2>2. /\ waiters' = [waiters EXCEPT ![key[c]] = @ \cup {c}]
        /\ key' = key
    BY <1>5 DEF Arm, FiledUnder
  <2>3. waiters' \in [Keys -> SUBSET Calls] /\ \A k \in Keys : \A d \in waiters'[k] : key'[d] = k
    BY <2>1, <2>2
  <2>. QED
    BY <1>5, <2>3 DEF Arm
<1>6. ASSUME NEW c \in Calls, SendReturns(c) PROVE TypeOK'
  <2>1. key[c] \in Keys
    BY <1>6 DEF SendReturns, Asked
  <2>2. ASSUME pc' = [pc EXCEPT ![c] = "unsent"], Discard(c) PROVE TypeOK'
    BY <1>6, <2>1, <2>2, DiscardEffect DEF SendReturns, Over
  <2>3. CASE pc' = [pc EXCEPT ![c] = "waiting"] /\ UNCHANGED <<fut, regVars>>
    BY <1>6, <2>3 DEF SendReturns, Over
  <2>. QED
    BY <1>6, <2>2, <2>3 DEF SendReturns
<1>7. ASSUME NEW c \in Calls, WaitReturns(c) PROVE TypeOK'
  BY <1>7 DEF WaitReturns, Unarmed, Over
<1>8. ASSUME NEW c \in Calls, WaitEnds(c) PROVE TypeOK'
  BY <1>8 DEF WaitEnds, Unarmed, MayEnd, Over
<1>9. ASSUME NEW c \in Calls, WaitDiscards(c) PROVE TypeOK'
  <2>1. key[c] \in Keys
    BY <1>9 DEF WaitDiscards, Asked
  <2>2. Discard(c) => TypeOK'
    BY <1>9, <2>1, DiscardEffect DEF WaitDiscards, Over
  <2>. QED
    BY <1>9, <2>2 DEF WaitDiscards
<1>10. ASSUME NEW c \in Calls, CancelSend(c) PROVE TypeOK'
  <2>1. key[c] \in Keys
    BY <1>10 DEF CancelSend, Asked
  <2>2. Discard(c) => TypeOK'
    BY <1>10, <2>1, DiscardEffect DEF CancelSend, Over
  <2>. QED
    BY <1>10, <2>2 DEF CancelSend
<1>11. ASSUME NEW c \in Calls, WorkerSends(c) PROVE TypeOK'
  BY <1>11 DEF WorkerSends, Unarmed, Over
<1>12. ASSUME NEW c \in Calls, Deliver(c) PROVE TypeOK'
  BY <1>12 DEF Deliver, Unarmed, Settled, Over
<1>13. ASSUME NEW c \in Calls, Fail(c) PROVE TypeOK'
  BY <1>13 DEF Fail, Unarmed, Settled, Over
<1>14. ASSUME NEW k \in Keys, NEW received \in {None} \cup Times, Packet(k, received) PROVE TypeOK'
  BY <1>14 DEF Packet, Keeps
<1>. QED
    BY <1>1, <1>2, <1>3, <1>4, <1>5, <1>6, <1>7, <1>8, <1>9, <1>10, <1>11,
         <1>12, <1>13, <1>14 DEF Next, CallStep

\* The clock, the link's return and the worker change nothing of the registry.
LEMMA QuietStep ==
  ASSUME IInv, UNCHANGED <<drops, pc, key, waitVars, regVars, takeVars>>
  PROVE  Asked' /\ Unarmed' /\ TakenOnce' /\ SettledGone' /\ OverGone'
         /\ FiledAt' /\ TakenFresh' /\ NoDeafWaiter' /\ LossReachesAll' /\ AnswerIsFresh'
BY DEF IInv, Asked, Unarmed, TakenOnce, SettledGone, OverGone, FiledAt, TakenFresh, NoDeafWaiter,
       LossReachesAll, AnswerIsFresh, Over, waitVars, regVars, takeVars

\* A link drop takes every registered waiter, so that none is left that was armed
\* before it.
LEMMA LinkDropsStep ==
  ASSUME IInv, TypeOK', LinkDrops
  PROVE  IInv'
<1>. USE SolicitedAssumption DEF IInv, TypeOK, Times, envVars, callVars, waitVars, regVars, takeVars
<1>1. Asked' /\ Unarmed' /\ TakenOnce' /\ SettledGone' /\ OverGone' /\ FiledAt'
      /\ TakenFresh' /\ AnswerIsFresh'
  BY DEF LinkDrops, Abandoned, Asked, Unarmed, TakenOnce, SettledGone,
       OverGone, FiledAt, TakenFresh, AnswerIsFresh
<1>2. NoDeafWaiter'
  BY DEF LinkDrops, Abandoned, NoDeafWaiter, Asked, Unarmed
<1>3. LossReachesAll'
  BY DEF LinkDrops, Abandoned, LossReachesAll, Asked, Unarmed, NoDeafWaiter
<1>. QED
  BY <1>1, <1>2, <1>3

\* A call that has only begun has no waiter, so its new key moves none.
LEMMA AskStep ==
  ASSUME IInv, TypeOK', NEW c \in Calls, Ask(c)
  PROVE  IInv'
<1>. USE SolicitedAssumption DEF IInv, TypeOK, Times, envVars, callVars, waitVars, regVars, takeVars
<1>1. Asked' /\ Unarmed'
  BY AsksAssumption DEF Ask, Asked, Unarmed
<1>2. TakenOnce' /\ SettledGone' /\ FiledAt' /\ TakenFresh' /\ LossReachesAll' /\ AnswerIsFresh'
  BY DEF Ask, Asked, Unarmed, TakenOnce, SettledGone, FiledAt, TakenFresh,
       LossReachesAll, AnswerIsFresh
<1>3. OverGone'
  BY DEF Ask, OverGone, Unarmed
<1>4. NoDeafWaiter'
  BY DEF Ask, NoDeafWaiter, Unarmed
<1>. QED
  BY <1>1, <1>2, <1>3, <1>4

\* The waiter that is armed is registered, and nobody has taken it.
LEMMA ArmStep ==
  ASSUME IInv, TypeOK', NEW c \in Calls, Arm(c)
  PROVE  IInv'
<1>. USE SolicitedAssumption DEF IInv, TypeOK, Times, envVars, callVars, waitVars, regVars, takeVars
<1>1. Asked' /\ Unarmed' /\ SettledGone' /\ FiledAt' /\ NoDeafWaiter'
      /\ LossReachesAll' /\ AnswerIsFresh'
  BY DEF Arm, FiledUnder, Asked, Unarmed, SettledGone, FiledAt, NoDeafWaiter,
       LossReachesAll, AnswerIsFresh
<1>2. TakenOnce'
  BY DEF Arm, FiledUnder, TakenOnce, Unarmed
<1>3. OverGone'
  BY DEF Arm, FiledUnder, OverGone, Over
<1>4. TakenFresh'
  BY DEF Arm, FiledUnder, TakenFresh, Unarmed
<1>. QED
  BY <1>1, <1>2, <1>3, <1>4

\* A request that could not be sent gives its waiter up; a waiter that was taken
\* meanwhile is settled by whoever took it.
LEMMA SendReturnsStep ==
  ASSUME IInv, TypeOK', NEW c \in Calls, SendReturns(c)
  PROVE  IInv'
<1>. USE SolicitedAssumption DEF IInv, TypeOK, Times, envVars, callVars, waitVars, regVars, takeVars
<1>0. key[c] \in Keys
  BY DEF SendReturns, Asked
<1>1. Asked' /\ Unarmed'
  BY <1>0, DiscardEffect DEF SendReturns, Asked, Unarmed
<1>2. TakenOnce' /\ SettledGone'
  BY <1>0, DiscardEffect DEF SendReturns, Asked, Unarmed, TakenOnce, SettledGone
<1>3. FiledAt' /\ TakenFresh'
  BY <1>0, DiscardEffect DEF SendReturns, Asked, Unarmed, TakenOnce, FiledAt, TakenFresh
<1>4. LossReachesAll' /\ AnswerIsFresh'
  BY <1>0, DiscardEffect DEF SendReturns, Asked, Unarmed, SettledGone, LossReachesAll, AnswerIsFresh
<1>5. OverGone'
  BY <1>0, DiscardEffect DEF SendReturns, OverGone, Over
<1>6. NoDeafWaiter'
  BY <1>0, DiscardEffect DEF SendReturns, NoDeafWaiter, Asked, Unarmed
<1>. QED
  BY <1>1, <1>2, <1>3, <1>4, <1>5, <1>6

\* What was settled was taken before: the call leaves nothing in the registry.
LEMMA WaitReturnsStep ==
  ASSUME IInv, TypeOK', NEW c \in Calls, WaitReturns(c)
  PROVE  IInv'
<1>. USE SolicitedAssumption DEF IInv, TypeOK, Times, envVars, callVars, waitVars, regVars, takeVars
<1>1. Asked' /\ Unarmed' /\ TakenOnce' /\ SettledGone' /\ FiledAt'
      /\ TakenFresh' /\ NoDeafWaiter' /\ LossReachesAll' /\ AnswerIsFresh'
  BY DEF WaitReturns, Asked, Unarmed, TakenOnce, SettledGone, FiledAt,
       TakenFresh, NoDeafWaiter, LossReachesAll, AnswerIsFresh
<1>2. OverGone'
  BY DEF WaitReturns, OverGone, SettledGone
<1>. QED
  BY <1>1, <1>2

\* A timeout cancels the waiter: it stays registered until the call runs again.
LEMMA WaitEndsStep ==
  ASSUME IInv, TypeOK', NEW c \in Calls, WaitEnds(c)
  PROVE  IInv'
<1>. USE SolicitedAssumption DEF IInv, TypeOK, Times, envVars, callVars, waitVars, regVars, takeVars
<1>1. Asked' /\ Unarmed' /\ TakenOnce' /\ SettledGone' /\ FiledAt'
      /\ TakenFresh' /\ NoDeafWaiter' /\ LossReachesAll' /\ AnswerIsFresh'
  BY DEF WaitEnds, MayEnd, Asked, Unarmed, TakenOnce, SettledGone, FiledAt,
       TakenFresh, NoDeafWaiter, LossReachesAll, AnswerIsFresh
<1>2. OverGone'
  BY DEF WaitEnds, MayEnd, OverGone, Over
<1>. QED
  BY <1>1, <1>2

\* The call that timed out discards its waiter, wherever it is by then.
LEMMA WaitDiscardsStep ==
  ASSUME IInv, TypeOK', NEW c \in Calls, WaitDiscards(c)
  PROVE  IInv'
<1>. USE SolicitedAssumption DEF IInv, TypeOK, Times, envVars, callVars, waitVars, regVars, takeVars
<1>0. key[c] \in Keys
  BY DEF WaitDiscards, Asked
<1>1. Asked' /\ Unarmed'
  BY <1>0, DiscardEffect DEF WaitDiscards, Asked, Unarmed
<1>2. TakenOnce' /\ SettledGone' /\ OverGone'
  BY <1>0, DiscardEffect DEF WaitDiscards, Asked, Unarmed, TakenOnce, SettledGone, OverGone
<1>3. FiledAt' /\ TakenFresh'
  BY <1>0, DiscardEffect DEF WaitDiscards, Asked, Unarmed, TakenOnce, FiledAt, TakenFresh
<1>4. LossReachesAll' /\ AnswerIsFresh'
  BY <1>0, DiscardEffect DEF WaitDiscards, Asked, Unarmed, SettledGone, LossReachesAll, AnswerIsFresh
<1>5. NoDeafWaiter'
  BY <1>0, DiscardEffect DEF WaitDiscards, NoDeafWaiter, Asked, Unarmed
<1>. QED
  BY <1>1, <1>2, <1>3, <1>4, <1>5

\* So does one that is cancelled before its request went out.
LEMMA CancelSendStep ==
  ASSUME IInv, TypeOK', NEW c \in Calls, CancelSend(c)
  PROVE  IInv'
<1>. USE SolicitedAssumption DEF IInv, TypeOK, Times, envVars, callVars, waitVars, regVars, takeVars
<1>0. key[c] \in Keys
  BY DEF CancelSend, Asked
<1>1. Asked' /\ Unarmed'
  BY <1>0, DiscardEffect DEF CancelSend, Asked, Unarmed
<1>2. TakenOnce' /\ SettledGone' /\ OverGone'
  BY <1>0, DiscardEffect DEF CancelSend, Asked, Unarmed, TakenOnce, SettledGone, OverGone
<1>3. FiledAt' /\ TakenFresh'
  BY <1>0, DiscardEffect DEF CancelSend, Asked, Unarmed, TakenOnce, FiledAt, TakenFresh
<1>4. LossReachesAll' /\ AnswerIsFresh'
  BY <1>0, DiscardEffect DEF CancelSend, Asked, Unarmed, SettledGone, LossReachesAll, AnswerIsFresh
<1>5. NoDeafWaiter'
  BY <1>0, DiscardEffect DEF CancelSend, NoDeafWaiter, Asked, Unarmed
<1>. QED
  BY <1>1, <1>2, <1>3, <1>4, <1>5

\* The packet that is handed out is younger than the waiter that gets it.
LEMMA DeliverStep ==
  ASSUME IInv, TypeOK', NEW c \in Calls, Deliver(c)
  PROVE  IInv'
<1>. USE SolicitedAssumption DEF IInv, TypeOK, Times, envVars, callVars, waitVars, regVars, takeVars
<1>1. Asked' /\ Unarmed' /\ TakenOnce' /\ OverGone' /\ FiledAt' /\ TakenFresh'
      /\ NoDeafWaiter' /\ LossReachesAll'
  BY DEF Deliver, Settled, Asked, Unarmed, TakenOnce, OverGone, FiledAt,
       TakenFresh, NoDeafWaiter, LossReachesAll
<1>2. SettledGone'
  BY DEF Deliver, Settled, SettledGone, TakenOnce
<1>3. AnswerIsFresh'
  BY DEF Deliver, Settled, AnswerIsFresh, TakenFresh
<1>. QED
  BY <1>1, <1>2, <1>3

\* A waiter that a packet settled before keeps its answer.
LEMMA FailStep ==
  ASSUME IInv, TypeOK', NEW c \in Calls, Fail(c)
  PROVE  IInv'
<1>. USE SolicitedAssumption DEF IInv, TypeOK, Times, envVars, callVars, waitVars, regVars, takeVars
<1>1. Asked' /\ Unarmed' /\ TakenOnce' /\ OverGone' /\ FiledAt' /\ TakenFresh'
      /\ NoDeafWaiter' /\ LossReachesAll' /\ AnswerIsFresh'
  BY DEF Fail, Settled, Asked, Unarmed, TakenOnce, OverGone, FiledAt,
       TakenFresh, NoDeafWaiter, LossReachesAll, AnswerIsFresh
<1>2. SettledGone'
  BY DEF Fail, Settled, SettledGone, TakenOnce
<1>. QED
  BY <1>1, <1>2

\* A packet takes the waiters it does not predate, and leaves the others registered.
LEMMA PacketStep ==
  ASSUME IInv, TypeOK', NEW k \in Keys, NEW received \in {None} \cup Times, Packet(k, received)
  PROVE  IInv'
<1>. USE SolicitedAssumption DEF IInv, TypeOK, Times, envVars, callVars, waitVars, regVars, takeVars
<1>1. Asked' /\ Unarmed' /\ TakenOnce' /\ SettledGone' /\ OverGone' /\ FiledAt'
      /\ NoDeafWaiter' /\ LossReachesAll' /\ AnswerIsFresh'
  BY DEF Packet, Keeps, Predates, Asked, Unarmed, TakenOnce, SettledGone,
       OverGone, FiledAt, NoDeafWaiter, LossReachesAll, AnswerIsFresh
<1>2. TakenFresh'
  BY DEF Packet, Keeps, Predates, TakenFresh, FiledAt
<1>. QED
  BY <1>1, <1>2

-----------------------------------------------------------------------------
(* The theorems.                                                           *)

\* At first nothing is registered, taken or armed.
LEMMA Initially == Init => IInv
BY SolicitedAssumption
   DEF Init, IInv, TypeOK, Times, Asked, Unarmed, TakenOnce, SettledGone, OverGone, FiledAt,
       TakenFresh, NoDeafWaiter, LossReachesAll, AnswerIsFresh, Over

\* Every step of the requests, the packets, the link and the clock keeps the invariant.
LEMMA Inductive == IInv /\ [Next]_vars => IInv'
<1>. SUFFICES ASSUME IInv, [Next]_vars PROVE IInv'
  OBVIOUS
<1>1. CASE UNCHANGED vars
  BY <1>1 DEF vars, envVars, callVars, waitVars, regVars, takeVars, IInv, TypeOK, Asked, Unarmed,
       TakenOnce, SettledGone, OverGone, FiledAt, TakenFresh, NoDeafWaiter, LossReachesAll,
       AnswerIsFresh
<1>2. CASE Next
  <2>1. TypeOK'
    BY <1>2, TypeStep DEF IInv
  <2>2. CASE Tick \/ LinkReturns
    BY <2>1, <2>2, QuietStep DEF Tick, LinkReturns, callVars, IInv
  <2>3. ASSUME NEW c \in Calls, WorkerSends(c) PROVE IInv'
    BY <2>1, <2>3, QuietStep DEF WorkerSends, envVars, IInv
  <2>4. ASSUME NEW c \in Calls, CallStep(c) PROVE IInv'
    BY <2>1, <2>4, ArmStep, SendReturnsStep, WaitReturnsStep, WaitEndsStep, WaitDiscardsStep
       DEF CallStep
  <2>5. ASSUME NEW c \in Calls, Ask(c) \/ CancelSend(c) \/ Deliver(c) \/ Fail(c) PROVE IInv'
    BY <2>1, <2>5, AskStep, CancelSendStep, DeliverStep, FailStep
  <2>6. CASE LinkDrops
    BY <2>1, <2>6, LinkDropsStep
  <2>7. ASSUME NEW k \in Keys, NEW received \in {None} \cup Times, Packet(k, received)
        PROVE  IInv'
    BY <2>1, <2>7, PacketStep
  <2>. QED
    BY <1>2, <2>2, <2>3, <2>4, <2>5, <2>6, <2>7 DEF Next
<1>. QED
  BY <1>1, <1>2

\* The strengthened invariant holds of every behaviour.
THEOREM Invariance == Spec => []IInv
BY Initially, Inductive, PTL DEF Spec

\* A call that still waits can be answered: resolve_waiters, abandon_all and
\* discard_waiter never drop a waiter that nobody is about to settle.
THEOREM NeverDeaf == Spec => []NoDeafWaiter
<1>1. IInv => NoDeafWaiter
  BY DEF IInv
<1>. QED
  BY <1>1, Invariance, PTL

\* The registry keeps no waiter of a call that is over.
THEOREM NothingStays == Spec => []RegistryClean
<1>1. IInv => RegistryClean
  BY DEF IInv, RegistryClean, OverGone
<1>. QED
  BY <1>1, Invariance, PTL

\* No packet that is stamped before a request, by no more than the skew bound,
\* passes for its answer.
THEOREM OnlyFreshAnswers == Spec => []AnswerIsFresh
<1>1. IInv => AnswerIsFresh
  BY DEF IInv
<1>. QED
  BY <1>1, Invariance, PTL

\* No waiter sleeps through a link drop.
THEOREM EveryLossReaches == Spec => []LossReachesAll
<1>1. IInv => LossReachesAll
  BY DEF IInv
<1>. QED
  BY <1>1, Invariance, PTL
================================================================================
