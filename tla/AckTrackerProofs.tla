------------------------- MODULE AckTrackerProofs -------------------------
(* IInv is inductive, and with it WaiterNeverOrphaned and                  *)
(* DisconnectSettlesWaiters hold for any number of sends and packet ids,   *)
(* any history limit and any number of lifecycles.  On it rests VInv, and  *)
(* on VInv what the tracker says of verdicts.                              *)
EXTENDS AckTracker, TLAPS

-----------------------------------------------------------------------------
(* The data operators are typed.                                           *)

LEMMA RecTyped ==
  ASSUME NEW st \in Statuses, NEW re \in Reasons, NEW c \in Sends \cup {None}
  PROVE  Rec(st, re, c) \in Records
  BY DEF Rec, Records

LEMMA ConstRecords ==
  /\ NoRec \in Records /\ Pending \in Records /\ Collision \in Records
  /\ Disconnected \in Records /\ AckTimeout \in Records /\ Sent \in Records
  /\ Failed \in Records /\ Cancelled \in Records
  /\ NoRec.status = "absent" /\ Pending.status = "pending"
  /\ Disconnected.status = "timeout" /\ Collision.status = "nak"
  /\ AckTimeout.status = "timeout"
  /\ Pending # NoRec /\ Disconnected # NoRec /\ Collision # NoRec
  BY DEF NoRec, Pending, Collision, Disconnected, AckTimeout, Sent, Failed, Cancelled,
         Rec, Records, Statuses, Reasons

LEMMA OrderedTyped ==
  ASSUME NEW older \in SUBSET (PktIds \X PktIds), NEW store, NEW p \in PktIds
  PROVE  Ordered(older, store, p) \in SUBSET (PktIds \X PktIds)
  BY DEF Ordered, Keys

\* The stores handed to a prune are typed ...
PruneInput(pend, pOlder, resp, rOlder, toks, rtoks, lids, futs) ==
  /\ pend \in [PktIds -> Records] /\ pOlder \subseteq PktIds \X PktIds
  /\ resp \in [PktIds -> Records] /\ rOlder \subseteq PktIds \X PktIds
  /\ toks \in [PktIds -> Sends \cup {None, Poison}]
  /\ rtoks \in [PktIds -> Sends \cup {None, Poison}]
  /\ lids \in [PktIds -> Nat]
  /\ futs \in [PktIds -> Sends \cup {None}]

StoresTyped ==
  PruneInput(pendAck, pendOlder, ackResp, respOlder, ackTok, respTok, recLid, ackFut)

\* ... and it only removes entries, never a registered waiter.
PruneOutput(pend, toks, rtoks, futs) ==
  /\ StoresTyped'
  /\ ackFut' = futs
  /\ \A p \in PktIds : /\ pendAck'[p] \in {pend[p], NoRec}
                       /\ ackTok'[p] \in {toks[p], None}
                       /\ respTok'[p] \in {rtoks[p], None}

LEMMA PrunedTyped ==
  ASSUME NEW pend, NEW pOlder, NEW resp, NEW rOlder, NEW toks, NEW rtoks, NEW lids, NEW futs,
         PruneInput(pend, pOlder, resp, rOlder, toks, rtoks, lids, futs),
         Pruned(pend, pOlder, resp, rOlder, toks, rtoks, lids, futs)
  PROVE  PruneOutput(pend, toks, rtoks, futs)
  <1>1. pendAck' \in [PktIds -> Records] /\ ackResp' \in [PktIds -> Records]
    BY ConstRecords DEF Pruned, Without, PruneInput
  <1>2. pendOlder' \subseteq PktIds \X PktIds /\ respOlder' \subseteq PktIds \X PktIds
    BY DEF Pruned, OrderWithout, PruneInput
  <1>3. /\ ackTok' \in [PktIds -> Sends \cup {None, Poison}]
        /\ respTok' \in [PktIds -> Sends \cup {None, Poison}]
        /\ recLid' \in [PktIds -> Nat]
    BY DEF Pruned, PruneInput
  <1>4. ackFut' = futs
    BY DEF Pruned
  <1>5. \A p \in PktIds : pendAck'[p] \in {pend[p], NoRec}
    BY DEF Pruned, Without
  <1>6. \A p \in PktIds : ackTok'[p] \in {toks[p], None} /\ respTok'[p] \in {rtoks[p], None}
    BY DEF Pruned
  <1>7. futs \in [PktIds -> Sends \cup {None}]
    BY DEF PruneInput
  <1> QED BY <1>1, <1>2, <1>3, <1>4, <1>5, <1>6, <1>7 DEF PruneOutput, StoresTyped, PruneInput

LEMMA TypedStores == ASSUME TypeOK PROVE StoresTyped
  BY DEF TypeOK, StoresTyped, PruneInput

LEMMA VerdictTyped ==
  ASSUME NEW pk \in Packets, NEW dm \in BOOLEAN
  PROVE  Verdict(pk, dm) \in {"ack", "nak", "implicit_ack"}
  BY DEF Verdict

LEMMA MergedTyped ==
  ASSUME NEW old \in Records, NEW pk \in Packets, NEW st \in {"ack", "nak", "implicit_ack"}
  PROVE  Merged(old, pk, st) \in Records
  BY DEF Merged, Packets, Rec, Records, Statuses, Reasons

-----------------------------------------------------------------------------
LEMMA InitInvariant == Init => IInv
  <1> SUFFICES ASSUME Init PROVE IInv
    OBVIOUS
  <1>1. TypeOK
    BY ConstRecords DEF Init, TypeOK, Labels
  <1>2. LockHolder /\ TrackingOpen /\ WaitersAsked /\ StashedEarly /\ SweptNoWaiters
        /\ WaiterNeverOrphaned
    BY AckAssumption DEF Init, LockHolder, TrackingOpen, WaitersAsked, StashedEarly, SweptNoWaiters,
           WaiterNeverOrphaned, Tracked
  <1>3. StagedUntilTracked /\ TokensOfTracked /\ OpenNotDefinitive
    BY AckAssumption DEF Init, StagedUntilTracked, TokensOfTracked, OpenNotDefinitive, ActiveWaiter
  <1> QED BY <1>1, <1>2, <1>3 DEF IInv

USE DEF lifeVars, callVars, storeVars, stageVars, radioVars, At, Goto, Return, DropToken

LEMMA BeginStep ==
  ASSUME IInv, NEW s \in Sends, Begin(s)
  PROVE  IInv'
  <1>1. TypeOK'
    BY ConstRecords DEF Begin, IInv, TypeOK, Labels
  <1>2. LockHolder' /\ TrackingOpen' /\ WaitersAsked' /\ StashedEarly' /\ SweptNoWaiters'
        /\ WaiterNeverOrphaned'
    BY DEF IInv, TypeOK, Begin, LockHolder, TrackingOpen, WaitersAsked, StashedEarly, SweptNoWaiters,
           WaiterNeverOrphaned, Tracked, ActiveWaiter
  <1>3. StagedUntilTracked' /\ TokensOfTracked' /\ OpenNotDefinitive'
    BY DEF IInv, TypeOK, Begin, Tracked, StagedUntilTracked, TokensOfTracked, OpenNotDefinitive, ActiveWaiter
  <1> QED BY <1>1, <1>2, <1>3 DEF IInv

LEMMA BeginRefusedStep ==
  ASSUME IInv, NEW s \in Sends, BeginRefused(s)
  PROVE  IInv'
  <1>1. TypeOK'
    BY ConstRecords DEF BeginRefused, IInv, TypeOK, Labels
  <1>2. LockHolder' /\ TrackingOpen' /\ WaitersAsked' /\ StashedEarly' /\ SweptNoWaiters'
        /\ WaiterNeverOrphaned'
    BY DEF IInv, TypeOK, BeginRefused, LockHolder, TrackingOpen, WaitersAsked, StashedEarly, SweptNoWaiters,
           WaiterNeverOrphaned, Tracked, ActiveWaiter
  <1>3. StagedUntilTracked' /\ TokensOfTracked' /\ OpenNotDefinitive'
    BY DEF IInv, TypeOK, BeginRefused, Tracked, StagedUntilTracked, TokensOfTracked, OpenNotDefinitive, ActiveWaiter
  <1> QED BY <1>1, <1>2, <1>3 DEF IInv

LEMMA ArmStep ==
  ASSUME IInv, NEW s \in Sends, Arm(s)
  PROVE  IInv'
  <1>1. TypeOK'
    BY ConstRecords DEF Arm, IInv, TypeOK, Labels
  <1>2. LockHolder' /\ TrackingOpen' /\ WaitersAsked' /\ StashedEarly' /\ SweptNoWaiters'
        /\ WaiterNeverOrphaned'
    BY DEF IInv, TypeOK, Arm, LockHolder, TrackingOpen, WaitersAsked, StashedEarly, SweptNoWaiters,
           WaiterNeverOrphaned, Tracked, ActiveWaiter
  <1>3. StagedUntilTracked' /\ TokensOfTracked' /\ OpenNotDefinitive'
    BY DEF IInv, TypeOK, Arm, Tracked, StagedUntilTracked, TokensOfTracked, OpenNotDefinitive, ActiveWaiter
  <1> QED BY <1>1, <1>2, <1>3 DEF IInv

LEMMA SendTextStep ==
  ASSUME IInv, NEW s \in Sends, SendText(s)
  PROVE  IInv'
  <1>1. TypeOK'
    BY ConstRecords DEF SendText, IInv, TypeOK, Labels
  <1>2. LockHolder' /\ TrackingOpen' /\ WaitersAsked' /\ StashedEarly' /\ SweptNoWaiters'
        /\ WaiterNeverOrphaned'
    BY DEF IInv, TypeOK, SendText, LockHolder, TrackingOpen, WaitersAsked, StashedEarly, SweptNoWaiters,
           WaiterNeverOrphaned, Tracked, ActiveWaiter
  <1>3. StagedUntilTracked' /\ TokensOfTracked' /\ OpenNotDefinitive'
    BY DEF IInv, TypeOK, SendText, Tracked, StagedUntilTracked, TokensOfTracked, OpenNotDefinitive, ActiveWaiter
  <1> QED BY <1>1, <1>2, <1>3 DEF IInv

LEMMA NotSentStep ==
  ASSUME IInv, NEW s \in Sends, NotSent(s)
  PROVE  IInv'
  <1>1. TypeOK'
    BY ConstRecords DEF NotSent, IInv, TypeOK, Labels
  <1>2. LockHolder' /\ TrackingOpen' /\ WaitersAsked' /\ StashedEarly' /\ SweptNoWaiters'
        /\ WaiterNeverOrphaned'
    BY DEF IInv, TypeOK, NotSent, LockHolder, TrackingOpen, WaitersAsked, StashedEarly, SweptNoWaiters,
           WaiterNeverOrphaned, Tracked, ActiveWaiter
  <1>3. StagedUntilTracked' /\ TokensOfTracked' /\ OpenNotDefinitive'
    BY DEF IInv, TypeOK, NotSent, Tracked, StagedUntilTracked, TokensOfTracked, OpenNotDefinitive, ActiveWaiter
  <1> QED BY <1>1, <1>2, <1>3 DEF IInv

LEMMA SendRaisesStep ==
  ASSUME IInv, NEW s \in Sends, SendRaises(s)
  PROVE  IInv'
  <1>1. TypeOK'
    BY ConstRecords DEF SendRaises, IInv, TypeOK, Labels
  <1>2. LockHolder' /\ TrackingOpen' /\ WaitersAsked' /\ StashedEarly' /\ SweptNoWaiters'
        /\ WaiterNeverOrphaned'
    BY DEF IInv, TypeOK, SendRaises, LockHolder, TrackingOpen, WaitersAsked, StashedEarly, SweptNoWaiters,
           WaiterNeverOrphaned, Tracked, ActiveWaiter
  <1>3. StagedUntilTracked' /\ TokensOfTracked' /\ OpenNotDefinitive'
    BY DEF IInv, TypeOK, SendRaises, Tracked, StagedUntilTracked, TokensOfTracked, OpenNotDefinitive, ActiveWaiter
  <1> QED BY <1>1, <1>2, <1>3 DEF IInv

LEMMA CancelSendStep ==
  ASSUME IInv, NEW s \in Sends, CancelSend(s)
  PROVE  IInv'
  <1>1. TypeOK'
    BY ConstRecords DEF CancelSend, IInv, TypeOK, Labels
  <1>2. LockHolder' /\ TrackingOpen' /\ WaitersAsked' /\ StashedEarly' /\ SweptNoWaiters'
        /\ WaiterNeverOrphaned'
    BY DEF IInv, TypeOK, CancelSend, LockHolder, TrackingOpen, WaitersAsked, StashedEarly, SweptNoWaiters,
           WaiterNeverOrphaned, Tracked, ActiveWaiter
  <1>3. StagedUntilTracked' /\ TokensOfTracked' /\ OpenNotDefinitive'
    BY DEF IInv, TypeOK, CancelSend, Tracked, StagedUntilTracked, TokensOfTracked, OpenNotDefinitive, ActiveWaiter
  <1> QED BY <1>1, <1>2, <1>3 DEF IInv

LEMMA StillCurrentStep ==
  ASSUME IInv, NEW s \in Sends, StillCurrent(s)
  PROVE  IInv'
  <1>1. TypeOK'
    BY ConstRecords DEF StillCurrent, IInv, TypeOK, Labels
  <1>2. LockHolder' /\ TrackingOpen' /\ WaitersAsked' /\ StashedEarly' /\ SweptNoWaiters'
        /\ WaiterNeverOrphaned'
    BY DEF IInv, TypeOK, StillCurrent, LockHolder, TrackingOpen, WaitersAsked, StashedEarly, SweptNoWaiters,
           WaiterNeverOrphaned, Tracked, ActiveWaiter
  <1>3. StagedUntilTracked' /\ TokensOfTracked' /\ OpenNotDefinitive'
    BY DEF IInv, TypeOK, StillCurrent, Tracked, StagedUntilTracked, TokensOfTracked, OpenNotDefinitive, ActiveWaiter
  <1> QED BY <1>1, <1>2, <1>3 DEF IInv

LEMMA TurnedStaleStep ==
  ASSUME IInv, NEW s \in Sends, TurnedStale(s)
  PROVE  IInv'
  <1>1. TypeOK'
    BY ConstRecords DEF TurnedStale, IInv, TypeOK, Labels
  <1>2. LockHolder' /\ TrackingOpen' /\ WaitersAsked' /\ StashedEarly' /\ SweptNoWaiters'
        /\ WaiterNeverOrphaned'
    BY DEF IInv, TypeOK, TurnedStale, LockHolder, TrackingOpen, WaitersAsked, StashedEarly, SweptNoWaiters,
           WaiterNeverOrphaned, Tracked, ActiveWaiter
  <1>3. StagedUntilTracked' /\ TokensOfTracked' /\ OpenNotDefinitive'
    BY DEF IInv, TypeOK, TurnedStale, Tracked, StagedUntilTracked, TokensOfTracked, OpenNotDefinitive, ActiveWaiter
  <1> QED BY <1>1, <1>2, <1>3 DEF IInv

LEMMA TrackNoIdStep ==
  ASSUME IInv, NEW s \in Sends, TrackNoId(s)
  PROVE  IInv'
  <1>1. TypeOK'
    BY ConstRecords DEF TrackNoId, IInv, TypeOK, Labels
  <1>2. LockHolder' /\ TrackingOpen' /\ WaitersAsked' /\ StashedEarly' /\ SweptNoWaiters'
        /\ WaiterNeverOrphaned'
    BY DEF IInv, TypeOK, TrackNoId, LockHolder, TrackingOpen, WaitersAsked, StashedEarly, SweptNoWaiters,
           WaiterNeverOrphaned, Tracked, ActiveWaiter
  <1>3. StagedUntilTracked' /\ TokensOfTracked' /\ OpenNotDefinitive'
    BY DEF IInv, TypeOK, TrackNoId, Tracked, StagedUntilTracked, TokensOfTracked, OpenNotDefinitive, ActiveWaiter
  <1> QED BY <1>1, <1>2, <1>3 DEF IInv

LEMMA NoEarlyAckStep ==
  ASSUME IInv, NEW s \in Sends, NoEarlyAck(s)
  PROVE  IInv'
  <1>1. TypeOK'
    <2>1. /\ pc' \in [Sends -> Labels] /\ result' \in [Sends -> Records]
          /\ inflight' \subseteq Sends /\ early' \in [Sends -> Packets \cup {None}]
      BY ConstRecords DEF NoEarlyAck, DropToken, Return, Goto, IInv, TypeOK, Labels, Proceed
    <2> QED BY <2>1 DEF NoEarlyAck, IInv, TypeOK
  <1>2. LockHolder' /\ TrackingOpen' /\ WaitersAsked' /\ StashedEarly' /\ SweptNoWaiters'
        /\ WaiterNeverOrphaned'
    BY DEF IInv, TypeOK, NoEarlyAck, LockHolder, TrackingOpen, WaitersAsked, StashedEarly, SweptNoWaiters,
           WaiterNeverOrphaned, Tracked, ActiveWaiter, Proceed
  <1>3. StagedUntilTracked' /\ TokensOfTracked' /\ OpenNotDefinitive'
    BY DEF IInv, TypeOK, NoEarlyAck, Tracked, StagedUntilTracked, TokensOfTracked, OpenNotDefinitive, ActiveWaiter, Proceed
  <1> QED BY <1>1, <1>2, <1>3 DEF IInv

LEMMA PopEarlyAckStep ==
  ASSUME IInv, NEW s \in Sends, PopEarlyAck(s)
  PROVE  IInv'
  <1>1. TypeOK'
    BY ConstRecords DEF PopEarlyAck, IInv, TypeOK, Labels
  <1>2. LockHolder' /\ TrackingOpen' /\ WaitersAsked' /\ StashedEarly' /\ SweptNoWaiters'
        /\ WaiterNeverOrphaned'
    BY DEF IInv, TypeOK, PopEarlyAck, LockHolder, TrackingOpen, WaitersAsked, StashedEarly, SweptNoWaiters,
           WaiterNeverOrphaned, Tracked, ActiveWaiter
  <1>3. StagedUntilTracked' /\ TokensOfTracked' /\ OpenNotDefinitive'
    BY DEF IInv, TypeOK, PopEarlyAck, Tracked, StagedUntilTracked, TokensOfTracked, OpenNotDefinitive, ActiveWaiter
  <1> QED BY <1>1, <1>2, <1>3 DEF IInv

LEMMA TimerFiresStep ==
  ASSUME IInv, NEW s \in Sends, TimerFires(s)
  PROVE  IInv'
  <1>1. TypeOK'
    BY ConstRecords DEF TimerFires, IInv, TypeOK, Labels
  <1>2. LockHolder' /\ TrackingOpen' /\ WaitersAsked' /\ StashedEarly' /\ SweptNoWaiters'
        /\ WaiterNeverOrphaned'
    BY DEF IInv, TypeOK, TimerFires, LockHolder, TrackingOpen, WaitersAsked, StashedEarly, SweptNoWaiters,
           WaiterNeverOrphaned, Tracked, ActiveWaiter
  <1>3. StagedUntilTracked' /\ TokensOfTracked' /\ OpenNotDefinitive'
    BY DEF IInv, TypeOK, TimerFires, Tracked, StagedUntilTracked, TokensOfTracked, OpenNotDefinitive, ActiveWaiter
  <1> QED BY <1>1, <1>2, <1>3 DEF IInv

-----------------------------------------------------------------------------
(* Tracking.                                                               *)

\* No response in the stores is this send's own before it is tracked.
LEMMA FreshHasNoResponse ==
  ASSUME IInv, NEW s \in Sends, pc[s] \in {"fresh", "tracking"}, pkt[s] # None
  PROVE  Existing(s) = NoRec
  BY DEF IInv, TypeOK, TokensOfTracked, Existing, Tracked

LEMMA OpenRecordTyped ==
  ASSUME IInv, NEW s \in Sends, pc[s] \in {"fresh", "tracking"}, pkt[s] # None
  PROVE  /\ OpenRecord(s) \in Records
         /\ OpenRecord(s).status \in {"pending", "timeout"}
  BY FreshHasNoResponse, ConstRecords DEF OpenRecord

LEMMA TrackCollisionStep ==
  ASSUME IInv, NEW s \in Sends, TrackCollision(s)
  PROVE  IInv'
  <1>1. /\ pkt[s] \in PktIds /\ pkt' = pkt
        /\ Ordered(pendOlder, pendAck, pkt[s]) \in SUBSET (PktIds \X PktIds)
        /\ Ordered(respOlder, ackResp, pkt[s]) \in SUBSET (PktIds \X PktIds)
    BY OrderedTyped DEF TrackCollision, IInv, TypeOK
  <1>2. TypeOK'
    BY <1>1, ConstRecords DEF TrackCollision, IInv, TypeOK, Labels
  <1>3. LockHolder' /\ WaitersAsked' /\ StashedEarly' /\ SweptNoWaiters'
    BY <1>1 DEF IInv, TypeOK, TrackCollision, LockHolder, WaitersAsked, StashedEarly, SweptNoWaiters
  <1>4. TrackingOpen'
    BY AckAssumption DEF TrackCollision, IInv, TypeOK, LockHolder, TrackingOpen
  <1>5. WaiterNeverOrphaned'
    BY <1>1, ConstRecords DEF IInv, TypeOK, TrackCollision, WaiterNeverOrphaned, Tracked, ActiveWaiter
  <1>6. StagedUntilTracked' /\ TokensOfTracked'
    BY <1>1, AckAssumption DEF IInv, TypeOK, TrackCollision, Tracked, StagedUntilTracked, TokensOfTracked
  <1>7. OpenNotDefinitive'
    BY <1>1, ConstRecords DEF IInv, TypeOK, TrackCollision, OpenNotDefinitive, ActiveWaiter
  <1> QED BY <1>2, <1>3, <1>4, <1>5, <1>6, <1>7 DEF IInv

LEMMA TrackPoisonedStep ==
  ASSUME IInv, NEW s \in Sends, TrackPoisoned(s)
  PROVE  IInv'
  <1> DEFINE p     == pkt[s]
             pend  == [pendAck EXCEPT ![p] = Collision]
             resp  == [ackResp EXCEPT ![p] = Collision]
             toks  == [ackTok EXCEPT ![p] = Poison]
             rtoks == [respTok EXCEPT ![p] = None]
             pO    == Ordered(pendOlder, pendAck, p)
             rO    == Ordered(respOlder, ackResp, p)
  <1>1. /\ p \in PktIds /\ pkt' = pkt /\ ackLock = None /\ ~ActiveWaiter(p)
        /\ fut' = [fut EXCEPT ![s] = Collision] /\ pc' = [pc EXCEPT ![s] = "tracked"]
    BY DEF TrackPoisoned, IInv, TypeOK
  <1>2. Pruned(pend, pO, resp, rO, toks, rtoks, recLid, ackFut)
    BY DEF TrackPoisoned, Stored
  <1>3. PruneInput(pend, pO, resp, rO, toks, rtoks, recLid, ackFut)
    BY <1>1, OrderedTyped, ConstRecords DEF IInv, TypeOK, PruneInput
  <1>4. PruneOutput(pend, toks, rtoks, ackFut)
    <2> HIDE DEF pend, resp, toks, rtoks, pO, rO
    <2> QED BY <1>2, <1>3, PrunedTyped
  <1> HIDE DEF p
  <1>5. TypeOK'
    BY <1>1, <1>4, ConstRecords
    DEF TrackPoisoned, IInv, TypeOK, Labels, PruneOutput, StoresTyped, PruneInput
  <1>6. LockHolder' /\ WaitersAsked' /\ StashedEarly' /\ SweptNoWaiters' /\ TrackingOpen'
    BY <1>1, <1>4, AckAssumption
    DEF IInv, TypeOK, TrackPoisoned, LockHolder, WaitersAsked, StashedEarly, SweptNoWaiters,
        TrackingOpen, PruneOutput
  <1>7. WaiterNeverOrphaned'
    BY <1>1, <1>4, ConstRecords
    DEF p, IInv, TypeOK, TrackPoisoned, WaiterNeverOrphaned, Tracked, PruneOutput
  <1>8. StagedUntilTracked' /\ TokensOfTracked'
    BY <1>1, <1>4, AckAssumption
    DEF IInv, TypeOK, TrackPoisoned, Tracked, StagedUntilTracked, TokensOfTracked, PruneOutput
  <1>9. OpenNotDefinitive'
    BY <1>1, <1>4, ConstRecords
    DEF IInv, TypeOK, OpenNotDefinitive, ActiveWaiter, Definitive, PruneOutput
  <1> QED BY <1>5, <1>6, <1>7, <1>8, <1>9 DEF IInv

LEMMA TrackUnwaitedStep ==
  ASSUME IInv, NEW s \in Sends, TrackUnwaited(s)
  PROVE  IInv'
  <1> DEFINE p    == pkt[s]
             pend == [pendAck EXCEPT ![p] = OpenRecord(s)]
             toks == [ackTok EXCEPT ![p] = s]
             lids == [recLid EXCEPT ![p] = lid]
             pO   == Ordered(pendOlder, pendAck, p)
  <1>1. /\ p \in PktIds /\ pkt' = pkt /\ ackLock = None /\ ~ActiveWaiter(p) /\ ~wait[s]
        /\ pc[s] = "fresh" /\ fut' = fut /\ pc' = [pc EXCEPT ![s] = "tracked"]
        /\ wait' = wait
    BY DEF TrackUnwaited, IInv, TypeOK
  <1>2. Pruned(pend, pO, ackResp, respOlder, toks, respTok, lids, ackFut)
    BY DEF TrackUnwaited
  <1>3. PruneInput(pend, pO, ackResp, respOlder, toks, respTok, lids, ackFut)
    BY <1>1, OrderedTyped, OpenRecordTyped, AckAssumption DEF IInv, TypeOK, PruneInput
  <1>4. PruneOutput(pend, toks, respTok, ackFut)
    <2> HIDE DEF pend, toks, lids, pO
    <2> QED BY <1>2, <1>3, PrunedTyped
  <1> HIDE DEF p
  <1>5. TypeOK'
    BY <1>1, <1>4
    DEF TrackUnwaited, IInv, TypeOK, Labels, PruneOutput, StoresTyped, PruneInput
  <1>6. LockHolder' /\ WaitersAsked' /\ StashedEarly' /\ SweptNoWaiters' /\ TrackingOpen'
    BY <1>1, <1>4, AckAssumption
    DEF IInv, TypeOK, TrackUnwaited, LockHolder, WaitersAsked, StashedEarly, SweptNoWaiters,
        TrackingOpen, PruneOutput
  <1>7. WaiterNeverOrphaned'
    BY <1>1, <1>4 DEF IInv, TypeOK, WaiterNeverOrphaned, Tracked, PruneOutput
  <1>8. StagedUntilTracked' /\ TokensOfTracked'
    BY <1>1, <1>4, AckAssumption
    DEF IInv, TypeOK, TrackUnwaited, Tracked, StagedUntilTracked, TokensOfTracked, PruneOutput
  <1>9. OpenNotDefinitive'
    BY <1>1, <1>4, ConstRecords
    DEF IInv, TypeOK, OpenNotDefinitive, ActiveWaiter, Definitive, PruneOutput
  <1> QED BY <1>5, <1>6, <1>7, <1>8, <1>9 DEF IInv

LEMMA TrackWaiterStep ==
  ASSUME IInv, NEW s \in Sends, TrackWaiter(s)
  PROVE  IInv'
  <1>1. /\ pkt[s] \in PktIds /\ pkt' = pkt /\ ackLock = None /\ ~ActiveWaiter(pkt[s]) /\ wait[s]
        /\ pc[s] = "fresh" /\ fut' = fut /\ ackFut' = ackFut /\ respTok' = respTok
        /\ pc' = [pc EXCEPT ![s] = "tracking"] /\ ackLock' = s /\ wait' = wait
        /\ pendAck' = [pendAck EXCEPT ![pkt[s]] = OpenRecord(s)]
        /\ ackTok' = [ackTok EXCEPT ![pkt[s]] = s]
    BY DEF TrackWaiter, IInv, TypeOK
  <1>2. /\ OpenRecord(s) \in Records /\ OpenRecord(s).status \in {"pending", "timeout"}
        /\ Ordered(pendOlder, pendAck, pkt[s]) \in SUBSET (PktIds \X PktIds)
    BY <1>1, OpenRecordTyped, OrderedTyped, AckAssumption DEF IInv, TypeOK
  <1>3. TypeOK'
    BY <1>1, <1>2 DEF TrackWaiter, IInv, TypeOK, Labels
  <1>4. LockHolder' /\ WaitersAsked' /\ StashedEarly' /\ SweptNoWaiters'
    BY <1>1, AckAssumption DEF IInv, TypeOK, TrackWaiter, LockHolder, WaitersAsked, StashedEarly,
           SweptNoWaiters
  <1>5. TrackingOpen'
    BY <1>1, <1>2, AckAssumption DEF IInv, TypeOK, LockHolder, TrackingOpen, ActiveWaiter
  <1>6. WaiterNeverOrphaned'
    BY <1>1 DEF IInv, TypeOK, WaiterNeverOrphaned, Tracked
  <1>7. StagedUntilTracked' /\ TokensOfTracked'
    BY <1>1, AckAssumption
    DEF IInv, TypeOK, TrackWaiter, Tracked, StagedUntilTracked, TokensOfTracked
  <1>8. OpenNotDefinitive'
    BY <1>1, <1>2 DEF IInv, TypeOK, OpenNotDefinitive, ActiveWaiter, Definitive
  <1> QED BY <1>3, <1>4, <1>5, <1>6, <1>7, <1>8 DEF IInv

LEMMA RegisterWaiterStep ==
  ASSUME IInv, NEW s \in Sends, RegisterWaiter(s)
  PROVE  IInv'
  <1> DEFINE p    == pkt[s]
             futs == IF conn = "up" THEN [ackFut EXCEPT ![p] = s] ELSE ackFut
             lids == [recLid EXCEPT ![p] = lid]
  <1>1. /\ p \in PktIds /\ pkt' = pkt /\ ackLock = s /\ ~ActiveWaiter(p) /\ wait[s]
        /\ pc[s] = "tracking" /\ pendAck[p].status \in {"pending", "timeout"}
        /\ ackLock' = None /\ pc' = [pc EXCEPT ![s] = "tracked"]
        /\ wait' = wait /\ conn' = conn
    BY DEF RegisterWaiter, IInv, TypeOK, LockHolder, TrackingOpen
  <1>2. fut' = IF conn = "up" THEN fut ELSE [fut EXCEPT ![s] = pendAck[p]]
    <2>1. Existing(s).status = "absent"
      BY <1>1, FreshHasNoResponse, ConstRecords, AckAssumption
    <2> QED BY <1>1, <2>1 DEF RegisterWaiter
  <1>3. Pruned(pendAck, pendOlder, ackResp, respOlder, ackTok, respTok, lids, futs)
    BY DEF RegisterWaiter
  <1>4. PruneInput(pendAck, pendOlder, ackResp, respOlder, ackTok, respTok, lids, futs)
    BY <1>1 DEF IInv, TypeOK, PruneInput
  <1>5. PruneOutput(pendAck, ackTok, respTok, futs)
    <2> HIDE DEF lids, futs
    <2> QED BY <1>3, <1>4, PrunedTyped
  <1> HIDE DEF p
  <1>6. TypeOK'
    BY <1>1, <1>2, <1>5, AckAssumption
    DEF RegisterWaiter, IInv, TypeOK, Labels, PruneOutput, StoresTyped, PruneInput
  <1>7. LockHolder' /\ WaitersAsked' /\ StashedEarly' /\ SweptNoWaiters' /\ TrackingOpen'
    BY <1>1, <1>5, AckAssumption
    DEF IInv, TypeOK, RegisterWaiter, LockHolder, WaitersAsked, StashedEarly, SweptNoWaiters,
        TrackingOpen, PruneOutput
  <1>8. WaiterNeverOrphaned'
    BY <1>1, <1>2, <1>5, ConstRecords, AckAssumption
    DEF p, IInv, TypeOK, WaiterNeverOrphaned, Tracked, PruneOutput, ActiveWaiter
  <1>9. StagedUntilTracked' /\ TokensOfTracked'
    BY <1>1, <1>5, AckAssumption
    DEF IInv, TypeOK, RegisterWaiter, Tracked, StagedUntilTracked, TokensOfTracked, PruneOutput
  <1>10. OpenNotDefinitive'
    BY <1>1, <1>2, <1>5, ConstRecords
    DEF IInv, TypeOK, OpenNotDefinitive, ActiveWaiter, Definitive, PruneOutput
  <1> QED BY <1>6, <1>7, <1>8, <1>9, <1>10 DEF IInv

-----------------------------------------------------------------------------
(* A recorded response.                                                    *)

\* What a response leaves behind: it pops a waiter only by resolving it.
ResponseOutput(tok) ==
  /\ StoresTyped'
  /\ fut' \in [Sends -> Records]
  /\ inflight' = inflight
  /\ early' \in [Sends -> Packets \cup {None}]
  /\ \A s \in Sends : fut'[s] = NoRec => fut[s] = NoRec
  /\ \A p \in PktIds :
       /\ ackTok'[p] \in {ackTok[p], None}
       /\ respTok'[p] \in {respTok[p], None, tok}
       /\ ackFut'[p] \in {ackFut[p], None}
       /\ ackFut[p] \in Sends /\ ackFut'[p] = None => fut'[ackFut[p]] # NoRec
       /\ (ackFut'[p] # None /\ fut'[ackFut'[p]] = NoRec)
            => pendAck'[p].status \notin Definitive

LEMMA CommitKeeps ==
  ASSUME IInv, NEW pk \in Packets, NEW tok \in Sends \cup {None, Poison},
         NEW dm \in BOOLEAN, CommitResponse(pk, tok, dm)
  PROVE  ResponseOutput(tok)
  <1> DEFINE p      == pk.pkt
             status == Verdict(pk, dm)
             r      == Merged(pendAck[p], pk, status)
             pend   == [pendAck EXCEPT ![p] = r]
             resp   == [ackResp EXCEPT ![p] = r]
             futs   == IF r.status \in Definitive THEN [ackFut EXCEPT ![p] = None] ELSE ackFut
             rtoks  == IF tok = None THEN respTok ELSE [respTok EXCEPT ![p] = tok]
             pO     == Ordered(pendOlder, pendAck, p)
             rO     == Ordered(respOlder, ackResp, p)
             settles == /\ Settles(pendAck[p], status) /\ status \in Definitive
                        /\ ackFut[p] # None /\ fut[ackFut[p]] = NoRec
  <1>1. p \in PktIds /\ status \in {"ack", "nak", "implicit_ack"}
    BY VerdictTyped DEF Packets
  <1>2. r \in Records
    BY <1>1, MergedTyped DEF IInv, TypeOK
  <1>3. /\ Pruned(pend, pO, resp, rO, ackTok, rtoks, recLid, futs)
        /\ fut' = IF settles THEN [fut EXCEPT ![ackFut[p]] = r] ELSE fut
        /\ inflight' = inflight /\ early' = early
    BY DEF CommitResponse, Stored
  <1>4. Settles(pendAck[p], status) => r.status = status
    BY DEF Merged, Rec
  <1>5. ~Settles(pendAck[p], status) => r = pendAck[p]
    BY DEF Merged
  <1> HIDE DEF status, r
  <1>6. PruneInput(pend, pO, resp, rO, ackTok, rtoks, recLid, futs)
    BY <1>1, <1>2, OrderedTyped DEF IInv, TypeOK, PruneInput
  <1>7. PruneOutput(pend, ackTok, rtoks, futs)
    <2> HIDE DEF pend, resp, futs, rtoks, pO, rO, settles
    <2> QED BY <1>3, <1>6, PrunedTyped
  <1>8. settles => r # NoRec
    BY <1>4, ConstRecords DEF Definitive
  <1>9. fut' \in [Sends -> Records] /\ \A s \in Sends : fut'[s] = NoRec => fut[s] = NoRec
    BY <1>1, <1>2, <1>3, <1>8 DEF IInv, TypeOK
  <1>10. ASSUME NEW q \in PktIds, ackFut[q] \in Sends, ackFut'[q] = None
         PROVE  fut'[ackFut[q]] # NoRec
    <2>1. q = p /\ r.status \in Definitive
      BY <1>10, <1>7, AckAssumption DEF PruneOutput, IInv, TypeOK
    <2>2. CASE fut[ackFut[q]] # NoRec
      BY <2>2, <1>9, <1>10
    <2>3. CASE fut[ackFut[q]] = NoRec
      <3>1. pendAck[p].status \notin Definitive
        BY <2>1, <2>3, <1>1, <1>10, AckAssumption DEF IInv, OpenNotDefinitive, ActiveWaiter
      <3>2. Settles(pendAck[p], status)
        BY <3>1, <2>1, <1>5
      <3>3. settles
        BY <3>2, <2>1, <2>3, <1>4, <1>10, AckAssumption
      <3> QED BY <3>3, <2>1, <1>3, <1>8, <1>10 DEF IInv, TypeOK
    <2> QED BY <2>2, <2>3
  <1>11. ASSUME NEW q \in PktIds, ackFut'[q] # None, fut'[ackFut'[q]] = NoRec
         PROVE  pendAck'[q].status \notin Definitive
    <2>1. ackFut[q] = ackFut'[q] /\ ackFut[q] \in Sends /\ fut[ackFut[q]] = NoRec
      BY <1>11, <1>7, <1>9, <1>1 DEF PruneOutput, IInv, TypeOK
    <2>2. pendAck[q].status \notin Definitive
      BY <2>1, AckAssumption DEF IInv, OpenNotDefinitive, ActiveWaiter
    <2>3. CASE q = p
      BY <2>3, <1>11, <1>1, <1>7, ConstRecords DEF PruneOutput, IInv, TypeOK, Definitive
    <2>4. CASE q # p
      BY <2>2, <2>4, <1>7, ConstRecords DEF PruneOutput, IInv, TypeOK, Definitive
    <2> QED BY <2>3, <2>4
  <1>12. \A q \in PktIds : /\ ackTok'[q] \in {ackTok[q], None}
                          /\ respTok'[q] \in {respTok[q], None, tok}
                          /\ ackFut'[q] \in {ackFut[q], None}
    BY <1>1, <1>7 DEF PruneOutput, IInv, TypeOK
  <1> QED
    BY <1>3, <1>7, <1>9, <1>10, <1>11, <1>12
    DEF ResponseOutput, PruneOutput, IInv, TypeOK

\* Whoever records it: stale, staged, disowned or committed.
LEMMA ResponseKeeps ==
  ASSUME IInv, NEW pk \in Packets, NEW tok \in Sends \cup {None, Poison},
         NEW life, NEW dm \in BOOLEAN, RecordResponse(pk, tok, life, dm)
  PROVE  /\ ResponseOutput(tok)
         /\ ackLock = None
         /\ \/ respTok' = respTok
            \/ life = lid /\ conn = "up" /\ tok \notin inflight
  <1>1. ackLock = None
    BY DEF RecordResponse
  <1>2. CASE ~Live(life)
    BY <1>2, <1>1, TypedStores, AckAssumption DEF RecordResponse, ResponseOutput, IInv, TypeOK, StoresTyped,
       PruneInput, OpenNotDefinitive, ActiveWaiter
  <1>3. CASE Live(life) /\ tok \in inflight
    BY <1>3, <1>1, TypedStores, AckAssumption DEF RecordResponse, ResponseOutput, IInv, TypeOK, StoresTyped,
       PruneInput, OpenNotDefinitive, ActiveWaiter
  <1>4. CASE Live(life) /\ tok \notin inflight /\ Disowned(pk, tok)
    BY <1>4, <1>1, TypedStores, AckAssumption DEF RecordResponse, ResponseOutput, IInv, TypeOK, StoresTyped,
       PruneInput, OpenNotDefinitive, ActiveWaiter
  <1>5. CASE Live(life) /\ tok \notin inflight /\ ~Disowned(pk, tok)
    <2>1. CommitResponse(pk, tok, dm)
      BY <1>5 DEF RecordResponse
    <2> QED BY <2>1, <1>1, <1>5, CommitKeeps DEF Live
  <1> QED BY <1>2, <1>3, <1>4, <1>5

LEMMA RecordEarlyAckStep ==
  ASSUME IInv, NEW s \in Sends, RecordEarlyAck(s)
  PROVE  IInv'
  <1>1. /\ pc[s] = "early" /\ stash[s] \in Packets /\ (s \in DMs) \in BOOLEAN
        /\ pc' \in {[pc EXCEPT ![s] = "waiting"], [pc EXCEPT ![s] = "done"]}
        /\ pc' = [pc EXCEPT ![s] = "waiting"] => wait[s] /\ pkt[s] # None
        /\ pkt' = pkt /\ wait' = wait /\ conn' = conn /\ lid' = lid
        /\ ackLock' = ackLock /\ upgrade' = upgrade /\ sendLid' = sendLid
        /\ handlers' = handlers
    BY DEF RecordEarlyAck, Proceed, IInv, TypeOK, StashedEarly
  <1>2. ResponseOutput(s) /\ ackLock = None
    BY <1>1, ResponseKeeps DEF RecordEarlyAck
  <1>3. TypeOK'
    <2>1. pc' \in [Sends -> Labels] /\ result' \in [Sends -> Records]
      BY ConstRecords DEF RecordEarlyAck, Proceed, IInv, TypeOK, Labels
    <2>2. stash' \in [Sends -> Packets \cup {None}] /\ UNCHANGED <<radioVars, unseen>>
      BY DEF RecordEarlyAck, IInv, TypeOK
    <2> QED
      BY <1>1, <1>2, <2>1, <2>2
      DEF IInv, TypeOK, ResponseOutput, StoresTyped, PruneInput
  <1>4. LockHolder' /\ WaitersAsked' /\ StashedEarly' /\ TrackingOpen'
    BY <1>1, <1>2, AckAssumption
    DEF RecordEarlyAck, IInv, TypeOK, LockHolder, WaitersAsked, StashedEarly, TrackingOpen
  <1>5. SweptNoWaiters' /\ OpenNotDefinitive'
    BY <1>1, <1>2 DEF IInv, TypeOK, SweptNoWaiters, OpenNotDefinitive, ActiveWaiter, ResponseOutput
  <1>6. WaiterNeverOrphaned'
    BY <1>1, <1>2, AckAssumption DEF IInv, TypeOK, WaiterNeverOrphaned, Tracked, ResponseOutput
  <1>7. StagedUntilTracked' /\ TokensOfTracked'
    BY <1>1, <1>2, AckAssumption
    DEF IInv, TypeOK, StagedUntilTracked, TokensOfTracked, Tracked, ResponseOutput
  <1> QED BY <1>3, <1>4, <1>5, <1>6, <1>7 DEF IInv

LEMMA HearWithHandlerStep ==
  ASSUME IInv, NEW c \in Sends, NEW kind \in Kinds, HearWithHandler(c, kind)
  PROVE  IInv'
  <1> DEFINE pk == [pkt |-> pkt[c], cause |-> c, kind |-> kind]
  <1>1. PICK h \in handlers : /\ handlers' = handlers \ {h}
                             /\ RecordResponse(pk, h, sendLid[h], h \in DMs)
    BY DEF HearWithHandler
  <1>2. /\ pk \in Packets /\ h \in Sends /\ (h \in DMs) \in BOOLEAN
        /\ heard' = heard \cup {pk} /\ inbox' \in {inbox, inbox \cup {pk}}
        /\ UNCHANGED <<lifeVars, callVars, ackLock, upgrade, unseen>>
    BY DEF HearWithHandler, Report, Queued, IInv, TypeOK, Packets
  <1> HIDE DEF pk
  <1>3. /\ ResponseOutput(h) /\ ackLock = None
        /\ respTok' = respTok \/ (sendLid[h] = lid /\ conn = "up" /\ h \notin inflight)
    BY <1>1, <1>2, ResponseKeeps
  <1>4. TypeOK'
    BY <1>1, <1>2, <1>3 DEF IInv, TypeOK, ResponseOutput, StoresTyped, PruneInput
  <1>5. LockHolder' /\ WaitersAsked' /\ StashedEarly' /\ TrackingOpen'
    BY <1>2, <1>3, AckAssumption DEF IInv, TypeOK, LockHolder, WaitersAsked, StashedEarly, TrackingOpen
  <1>6. SweptNoWaiters' /\ OpenNotDefinitive'
    BY <1>2, <1>3 DEF IInv, TypeOK, SweptNoWaiters, OpenNotDefinitive, ActiveWaiter, ResponseOutput
  <1>7. WaiterNeverOrphaned'
    BY <1>2, <1>3, AckAssumption DEF IInv, TypeOK, WaiterNeverOrphaned, Tracked, ResponseOutput
  <1>8. StagedUntilTracked'
    BY <1>1, <1>2, <1>3 DEF IInv, TypeOK, StagedUntilTracked, ResponseOutput
  <1>9. TokensOfTracked'
    <2>1. respTok' = respTok \/ pc[h] \in Tracked \cup {"done"}
      BY <1>1, <1>2, <1>3, AckAssumption
      DEF IInv, TypeOK, Labels, Tracked, StagedUntilTracked, LockHolder
    <2> QED BY <2>1, <1>2, <1>3, AckAssumption DEF IInv, TypeOK, TokensOfTracked, ResponseOutput
  <1> QED BY <1>4, <1>5, <1>6, <1>7, <1>8, <1>9 DEF IInv

LEMMA HearWithoutHandlerStep ==
  ASSUME IInv, NEW c \in Sends, NEW kind \in Kinds, HearWithoutHandler(c, kind)
  PROVE  IInv'
  <1>1. TypeOK'
    BY DEF HearWithoutHandler, Report, Queued, IInv, TypeOK, Packets
  <1>2. LockHolder' /\ TrackingOpen' /\ WaitersAsked' /\ StashedEarly' /\ SweptNoWaiters'
        /\ WaiterNeverOrphaned'
    BY DEF IInv, HearWithoutHandler, LockHolder, TrackingOpen, WaitersAsked, StashedEarly,
           SweptNoWaiters, WaiterNeverOrphaned, ActiveWaiter
  <1>3. StagedUntilTracked' /\ TokensOfTracked' /\ OpenNotDefinitive'
    BY DEF IInv, HearWithoutHandler, StagedUntilTracked, TokensOfTracked, OpenNotDefinitive,
           ActiveWaiter
  <1> QED BY <1>1, <1>2, <1>3 DEF IInv

LEMMA PubsubCheckStep ==
  ASSUME IInv, NEW pk \in Packets, PubsubCheck(pk)
  PROVE  IInv'
  <1>1. pk.pkt \in PktIds /\ ackTok[pk.pkt] \in Sends \cup {None, Poison} /\ lid \in Nat
    BY DEF Packets, IInv, TypeOK
  <1>2. TypeOK'
    BY <1>1 DEF PubsubCheck, IInv, TypeOK
  <1>3. LockHolder' /\ TrackingOpen' /\ WaitersAsked' /\ StashedEarly' /\ SweptNoWaiters'
        /\ WaiterNeverOrphaned'
    BY DEF IInv, PubsubCheck, LockHolder, TrackingOpen, WaitersAsked, StashedEarly,
           SweptNoWaiters, WaiterNeverOrphaned, ActiveWaiter
  <1>4. StagedUntilTracked' /\ OpenNotDefinitive'
    BY DEF IInv, PubsubCheck, StagedUntilTracked, OpenNotDefinitive, ActiveWaiter
  <1>5. TokensOfTracked'
    BY <1>1 DEF IInv, PubsubCheck, TokensOfTracked
  <1> QED BY <1>2, <1>3, <1>4, <1>5 DEF IInv

LEMMA PubsubRecordStep ==
  ASSUME IInv, PubsubRecord
  PROVE  IInv'
  <1>1. /\ upgrade \in [pk : Packets, tok : Sends \cup {None, Poison}, life : Nat]
        /\ upgrade' = None
        /\ UNCHANGED <<lifeVars, callVars, ackLock, handlers, heard, inbox, unseen>>
    BY DEF PubsubRecord, IInv, TypeOK
  <1>2. ResponseOutput(upgrade.tok) /\ ackLock = None
    BY <1>1, ResponseKeeps DEF PubsubRecord
  <1>3. TypeOK'
    BY <1>1, <1>2 DEF IInv, TypeOK, ResponseOutput, StoresTyped, PruneInput
  <1>4. LockHolder' /\ WaitersAsked' /\ StashedEarly' /\ TrackingOpen'
    BY <1>1, <1>2, AckAssumption DEF IInv, TypeOK, LockHolder, WaitersAsked, StashedEarly, TrackingOpen
  <1>5. SweptNoWaiters' /\ OpenNotDefinitive'
    BY <1>1, <1>2 DEF IInv, TypeOK, SweptNoWaiters, OpenNotDefinitive, ActiveWaiter, ResponseOutput
  <1>6. WaiterNeverOrphaned'
    BY <1>1, <1>2, AckAssumption DEF IInv, TypeOK, WaiterNeverOrphaned, Tracked, ResponseOutput
  <1>7. StagedUntilTracked'
    BY <1>1, <1>2 DEF IInv, TypeOK, StagedUntilTracked, ResponseOutput
  <1>8. TokensOfTracked'
    <2>1. upgrade.tok \in Sends => pc[upgrade.tok] \in Tracked \cup {"done"}
      BY <1>2, PubsubRecord, AckAssumption
      DEF PubsubRecord, IInv, TypeOK, TokensOfTracked, LockHolder
    <2> QED BY <2>1, <1>1, <1>2, AckAssumption DEF IInv, TypeOK, TokensOfTracked, ResponseOutput
  <1> QED BY <1>3, <1>4, <1>5, <1>6, <1>7, <1>8 DEF IInv

-----------------------------------------------------------------------------
(* The wait.                                                               *)

\* The finally block pops the waiter of its own send and no other.
LEMMA UnregisterKeeps ==
  ASSUME IInv, NEW s \in Sends, pkt[s] # None, Unregister(s)
  PROVE  /\ StoresTyped' /\ ackLock = None
         /\ \A p \in PktIds :
              /\ pendAck'[p] \in {pendAck[p], NoRec}
              /\ ackTok'[p] \in {ackTok[p], None}
              /\ respTok'[p] \in {respTok[p], None}
              /\ ackFut'[p] = ackFut[p] \/ (ackFut[p] = s /\ ackFut'[p] = None)
  <1> DEFINE p    == pkt[s]
             futs == IF ackFut[p] = s THEN [ackFut EXCEPT ![p] = None] ELSE ackFut
  <1>1. Pruned(pendAck, pendOlder, ackResp, respOlder, ackTok, respTok, recLid, futs)
        /\ ackLock = None
    BY DEF Unregister
  <1>2. PruneInput(pendAck, pendOlder, ackResp, respOlder, ackTok, respTok, recLid, futs)
    BY DEF IInv, TypeOK, PruneInput
  <1>3. PruneOutput(pendAck, ackTok, respTok, futs)
    <2> HIDE DEF futs
    <2> QED BY <1>1, <1>2, PrunedTyped
  <1> QED BY <1>1, <1>3 DEF PruneOutput, IInv, TypeOK

LEMMA WaitReturnsStep ==
  ASSUME IInv, NEW s \in Sends, WaitReturns(s)
  PROVE  IInv'
  <1>1. /\ pc[s] \in {"waiting", "stamped"} /\ pkt[s] # None /\ wait[s]
        /\ pc' = [pc EXCEPT ![s] = "done"] /\ Unregister(s)
        /\ result' \in [Sends -> Records]
        /\ UNCHANGED <<lifeVars, wait, sendLid, pkt, stash, fut, stageVars, ackLock,
                       radioVars, unseen>>
    BY ConstRecords DEF WaitReturns, WaitersAsked, IInv, TypeOK
  <1>2. /\ StoresTyped' /\ ackLock = None
        /\ \A p \in PktIds :
             /\ pendAck'[p] \in {pendAck[p], NoRec}
             /\ ackTok'[p] \in {ackTok[p], None}
             /\ respTok'[p] \in {respTok[p], None}
             /\ ackFut'[p] = ackFut[p] \/ (ackFut[p] = s /\ ackFut'[p] = None)
    BY <1>1, UnregisterKeeps
  <1>3. TypeOK'
    BY <1>1, <1>2 DEF IInv, TypeOK, Labels, StoresTyped, PruneInput
  <1>4. LockHolder' /\ WaitersAsked' /\ StashedEarly' /\ TrackingOpen' /\ SweptNoWaiters'
    BY <1>1, <1>2, AckAssumption
    DEF IInv, TypeOK, LockHolder, WaitersAsked, StashedEarly, TrackingOpen, SweptNoWaiters
  <1>5. WaiterNeverOrphaned'
    BY <1>1, <1>2, AckAssumption DEF IInv, TypeOK, WaiterNeverOrphaned, Tracked
  <1>6. StagedUntilTracked' /\ TokensOfTracked'
    BY <1>1, <1>2, AckAssumption DEF IInv, TypeOK, StagedUntilTracked, TokensOfTracked, Tracked
  <1>7. OpenNotDefinitive'
    BY <1>1, <1>2, ConstRecords DEF IInv, TypeOK, OpenNotDefinitive, ActiveWaiter, Definitive
  <1> QED BY <1>3, <1>4, <1>5, <1>6, <1>7 DEF IInv

LEMMA CancelWaitStep ==
  ASSUME IInv, NEW s \in Sends, CancelWait(s)
  PROVE  IInv'
  <1>1. /\ pc[s] \in {"waiting", "stamped"} /\ pkt[s] # None /\ wait[s]
        /\ pc' = [pc EXCEPT ![s] = "done"] /\ Unregister(s)
        /\ result' \in [Sends -> Records]
        /\ UNCHANGED <<lifeVars, wait, sendLid, pkt, stash, fut, stageVars, ackLock,
                       radioVars, unseen>>
    BY ConstRecords DEF CancelWait, WaitersAsked, IInv, TypeOK
  <1>2. /\ StoresTyped' /\ ackLock = None
        /\ \A p \in PktIds :
             /\ pendAck'[p] \in {pendAck[p], NoRec}
             /\ ackTok'[p] \in {ackTok[p], None}
             /\ respTok'[p] \in {respTok[p], None}
             /\ ackFut'[p] = ackFut[p] \/ (ackFut[p] = s /\ ackFut'[p] = None)
    BY <1>1, UnregisterKeeps
  <1>3. TypeOK'
    BY <1>1, <1>2 DEF IInv, TypeOK, Labels, StoresTyped, PruneInput
  <1>4. LockHolder' /\ WaitersAsked' /\ StashedEarly' /\ TrackingOpen' /\ SweptNoWaiters'
    BY <1>1, <1>2, AckAssumption
    DEF IInv, TypeOK, LockHolder, WaitersAsked, StashedEarly, TrackingOpen, SweptNoWaiters
  <1>5. WaiterNeverOrphaned'
    BY <1>1, <1>2, AckAssumption DEF IInv, TypeOK, WaiterNeverOrphaned, Tracked
  <1>6. StagedUntilTracked' /\ TokensOfTracked'
    BY <1>1, <1>2, AckAssumption DEF IInv, TypeOK, StagedUntilTracked, TokensOfTracked, Tracked
  <1>7. OpenNotDefinitive'
    BY <1>1, <1>2, ConstRecords DEF IInv, TypeOK, OpenNotDefinitive, ActiveWaiter, Definitive
  <1> QED BY <1>3, <1>4, <1>5, <1>6, <1>7 DEF IInv

LEMMA LeaveTimedOutStep ==
  ASSUME IInv, NEW s \in Sends, LeaveTimedOut(s)
  PROVE  IInv'
  <1>1. /\ pc[s] \in {"waiting", "stamped"} /\ pkt[s] # None /\ wait[s]
        /\ pc' = [pc EXCEPT ![s] = "done"] /\ Unregister(s)
        /\ result' \in [Sends -> Records]
        /\ UNCHANGED <<lifeVars, wait, sendLid, pkt, stash, fut, stageVars, ackLock,
                       radioVars, unseen>>
    BY ConstRecords DEF LeaveTimedOut, WaitersAsked, IInv, TypeOK
  <1>2. /\ StoresTyped' /\ ackLock = None
        /\ \A p \in PktIds :
             /\ pendAck'[p] \in {pendAck[p], NoRec}
             /\ ackTok'[p] \in {ackTok[p], None}
             /\ respTok'[p] \in {respTok[p], None}
             /\ ackFut'[p] = ackFut[p] \/ (ackFut[p] = s /\ ackFut'[p] = None)
    BY <1>1, UnregisterKeeps
  <1>3. TypeOK'
    BY <1>1, <1>2 DEF IInv, TypeOK, Labels, StoresTyped, PruneInput
  <1>4. LockHolder' /\ WaitersAsked' /\ StashedEarly' /\ TrackingOpen' /\ SweptNoWaiters'
    BY <1>1, <1>2, AckAssumption
    DEF IInv, TypeOK, LockHolder, WaitersAsked, StashedEarly, TrackingOpen, SweptNoWaiters
  <1>5. WaiterNeverOrphaned'
    BY <1>1, <1>2, AckAssumption DEF IInv, TypeOK, WaiterNeverOrphaned, Tracked
  <1>6. StagedUntilTracked' /\ TokensOfTracked'
    BY <1>1, <1>2, AckAssumption DEF IInv, TypeOK, StagedUntilTracked, TokensOfTracked, Tracked
  <1>7. OpenNotDefinitive'
    BY <1>1, <1>2, ConstRecords DEF IInv, TypeOK, OpenNotDefinitive, ActiveWaiter, Definitive
  <1> QED BY <1>3, <1>4, <1>5, <1>6, <1>7 DEF IInv

LEMMA StampTimeoutStep ==
  ASSUME IInv, NEW s \in Sends, StampTimeout(s)
  PROVE  IInv'
  <1> DEFINE p == pkt[s]
             r == IF pendAck[p].status \in {"absent", "pending"} THEN AckTimeout ELSE pendAck[p]
  <1>1. /\ p \in PktIds /\ wait[s] /\ pc[s] = "expired" /\ ackLock = None
        /\ pc' = [pc EXCEPT ![s] = "stamped"] /\ result' = [result EXCEPT ![s] = r]
        /\ pendAck' = [pendAck EXCEPT ![p] = r] /\ ackResp' = [ackResp EXCEPT ![p] = r]
        /\ UNCHANGED <<lifeVars, wait, sendLid, pkt, stash, fut, ackTok, respTok,
                       ackFut, recLid, stageVars, ackLock, radioVars, unseen>>
    BY DEF StampTimeout, WaitersAsked, IInv, TypeOK
  <1>2. r \in Records /\ (r.status \in Definitive => pendAck[p].status \in Definitive)
    BY <1>1, ConstRecords DEF IInv, TypeOK, Definitive
  <1>3. /\ pendOlder' \in SUBSET (PktIds \X PktIds) /\ respOlder' \in SUBSET (PktIds \X PktIds)
    BY <1>1, OrderedTyped DEF StampTimeout, IInv, TypeOK
  <1> HIDE DEF r
  <1>4. TypeOK'
    BY <1>1, <1>2, <1>3 DEF IInv, TypeOK, Labels
  <1>5. LockHolder' /\ WaitersAsked' /\ StashedEarly' /\ TrackingOpen' /\ SweptNoWaiters'
    BY <1>1, AckAssumption
    DEF IInv, TypeOK, LockHolder, WaitersAsked, StashedEarly, TrackingOpen, SweptNoWaiters
  <1>6. WaiterNeverOrphaned' /\ StagedUntilTracked' /\ TokensOfTracked'
    BY <1>1 DEF IInv, TypeOK, WaiterNeverOrphaned, StagedUntilTracked, TokensOfTracked, Tracked
  <1>7. OpenNotDefinitive'
    BY <1>1, <1>2 DEF IInv, TypeOK, OpenNotDefinitive, ActiveWaiter
  <1> QED BY <1>4, <1>5, <1>6, <1>7 DEF IInv

-----------------------------------------------------------------------------
(* The lifecycle.                                                          *)

LEMMA ConnectStep ==
  ASSUME IInv, Connect
  PROVE  IInv'
  <1>1. TypeOK'
    BY DEF Connect, IInv, TypeOK
  <1>2. LockHolder' /\ TrackingOpen' /\ WaitersAsked' /\ StashedEarly' /\ SweptNoWaiters'
        /\ WaiterNeverOrphaned'
    BY DEF IInv, Connect, LockHolder, TrackingOpen, WaitersAsked, StashedEarly,
           SweptNoWaiters, WaiterNeverOrphaned, ActiveWaiter
  <1>3. StagedUntilTracked' /\ TokensOfTracked' /\ OpenNotDefinitive'
    BY DEF IInv, TypeOK, Connect, StagedUntilTracked, TokensOfTracked, OpenNotDefinitive,
           ActiveWaiter
  <1> QED BY <1>1, <1>2, <1>3 DEF IInv

LEMMA DisconnectStep ==
  ASSUME IInv, Disconnect
  PROVE  IInv'
  <1>1. TypeOK'
    BY DEF Disconnect, IInv, TypeOK
  <1>2. LockHolder' /\ TrackingOpen' /\ WaitersAsked' /\ StashedEarly' /\ SweptNoWaiters'
        /\ WaiterNeverOrphaned'
    BY DEF IInv, Disconnect, LockHolder, TrackingOpen, WaitersAsked, StashedEarly,
           SweptNoWaiters, WaiterNeverOrphaned, ActiveWaiter
  <1>3. StagedUntilTracked' /\ TokensOfTracked' /\ OpenNotDefinitive'
    BY DEF IInv, TypeOK, Disconnect, StagedUntilTracked, TokensOfTracked, OpenNotDefinitive,
           ActiveWaiter
  <1> QED BY <1>1, <1>2, <1>3 DEF IInv

LEMMA SweepStep ==
  ASSUME IInv, Sweep
  PROVE  IInv'
  <1> DEFINE waited == {p \in PktIds : ackFut[p] # None}
             Swept(store) == [p \in PktIds |-> IF p \in waited THEN SweepRecord(p) ELSE store[p]]
             none == [p \in PktIds |-> None]
  <1>1. PICK po \in SweepOrder(pendOlder, pendAck, waited),
             ro \in SweepOrder(respOlder, ackResp, waited) :
               Pruned(Swept(pendAck), po, Swept(ackResp), ro, ackTok, respTok, recLid, none)
    BY DEF Sweep
  <1>2. \A p \in PktIds : SweepRecord(p) \in Records /\ SweepRecord(p) # NoRec
    BY ConstRecords DEF SweepRecord, IInv, TypeOK
  <1>3. po \subseteq PktIds \X PktIds /\ ro \subseteq PktIds \X PktIds
    BY DEF SweepOrder, Insertions, Keys, IInv, TypeOK
  <1>4. PruneInput(Swept(pendAck), po, Swept(ackResp), ro, ackTok, respTok, recLid, none)
    BY <1>2, <1>3 DEF PruneInput, IInv, TypeOK
  <1>5. PruneOutput(Swept(pendAck), ackTok, respTok, none)
    <2> HIDE DEF Swept, none
    <2> QED BY <1>1, <1>4, PrunedTyped
  <1>6. /\ ackLock = None /\ conn' = "down" /\ inflight' = {}
        /\ early' = [s \in Sends |-> None] /\ inbox' = {}
        /\ UNCHANGED <<lid, callVars, ackLock, handlers, heard, upgrade, unseen>>
    BY DEF Sweep
  <1>7. /\ fut' \in [Sends -> Records]
        /\ \A s \in Sends : fut'[s] = NoRec => fut[s] = NoRec /\ \A p \in waited : ackFut[p] # s
    <2>1. fut' = [s \in Sends |->
                   IF fut[s] = NoRec /\ \E p \in waited : ackFut[p] = s
                     THEN SweepRecord(CHOOSE p \in waited : ackFut[p] = s)
                     ELSE fut[s]]
      BY DEF Sweep, SweptFutures
    <2>2. ASSUME NEW s \in Sends, \E p \in waited : ackFut[p] = s
          PROVE  (CHOOSE p \in waited : ackFut[p] = s) \in PktIds
      BY <2>2
    <2> QED BY <2>1, <2>2, <1>2 DEF IInv, TypeOK
  <1>8. TypeOK'
    BY <1>5, <1>6, <1>7 DEF IInv, TypeOK, PruneOutput, StoresTyped, PruneInput
  <1>9. LockHolder' /\ WaitersAsked' /\ StashedEarly' /\ TrackingOpen' /\ SweptNoWaiters'
        /\ OpenNotDefinitive'
    BY <1>5, <1>6, AckAssumption
    DEF IInv, TypeOK, LockHolder, WaitersAsked, StashedEarly, TrackingOpen, SweptNoWaiters,
        OpenNotDefinitive, ActiveWaiter, PruneOutput
  <1>10. WaiterNeverOrphaned'
    BY <1>6, <1>7, AckAssumption DEF IInv, TypeOK, WaiterNeverOrphaned
  <1>11. StagedUntilTracked' /\ TokensOfTracked'
    BY <1>5, <1>6, AckAssumption DEF IInv, TypeOK, StagedUntilTracked, TokensOfTracked, PruneOutput
  <1> QED BY <1>8, <1>9, <1>10, <1>11 DEF IInv

-----------------------------------------------------------------------------
(* The theorems.                                                           *)

LEMMA StutterStep == ASSUME IInv, UNCHANGED vars PROVE IInv'
  BY DEF vars, IInv, TypeOK, LockHolder, TrackingOpen, WaitersAsked, StashedEarly,
         StagedUntilTracked, TokensOfTracked, OpenNotDefinitive, SweptNoWaiters,
         WaiterNeverOrphaned, ActiveWaiter

\* Every step of the tracker, of its callers, of the lifecycle and of the radio
\* preserves the invariant.
LEMMA NextInvariant == ASSUME IInv, [Next]_vars PROVE IInv'
  <1>1. ASSUME NEW s \in Sends, SendStep(s) PROVE IInv'
    BY <1>1, BeginStep, BeginRefusedStep, ArmStep, SendTextStep, NotSentStep, SendRaisesStep,
       CancelSendStep, StillCurrentStep, TurnedStaleStep, TrackNoIdStep, TrackCollisionStep,
       TrackPoisonedStep, TrackUnwaitedStep, TrackWaiterStep, RegisterWaiterStep,
       NoEarlyAckStep, PopEarlyAckStep, RecordEarlyAckStep, WaitReturnsStep, CancelWaitStep,
       TimerFiresStep, StampTimeoutStep, LeaveTimedOutStep
    DEF SendStep
  <1>2. CASE LifeStep
    BY <1>2, ConnectStep, DisconnectStep, SweepStep DEF LifeStep
  <1>3. CASE RadioStep
    BY <1>3, HearWithHandlerStep, HearWithoutHandlerStep, PubsubCheckStep, PubsubRecordStep
    DEF RadioStep
  <1>4. CASE UNCHANGED vars
    BY <1>4, StutterStep
  <1> QED BY <1>1, <1>2, <1>3, <1>4 DEF Next

\* The invariant holds in every reachable state.
THEOREM Invariance == Spec => []IInv
  BY InitInvariant, NextInvariant, PTL DEF Spec

\* The tracker's stores, the callers' locals and the radio's queues stay in
\* their types: every token is a send's or the poison, every record has one of
\* the statuses of the code.
THEOREM TypeCorrect == Spec => []TypeOK
  <1>1. IInv => TypeOK
    BY DEF IInv
  <1> QED BY Invariance, <1>1, PTL

\* An unsettled waiter is always registered under its packet id: for any number
\* of sends, ids and lifecycles, no interleaving of collision, verdict, prune,
\* sweep and timeout leaves a future that nothing can settle.
THEOREM NoOrphans == Spec => []WaiterNeverOrphaned
  <1>1. IInv => WaiterNeverOrphaned
    BY DEF IInv
  <1> QED BY Invariance, <1>1, PTL

\* After the sweep of a disconnect every send that waits has its result.
THEOREM SettledByDisconnect == Spec => []DisconnectSettlesWaiters
  <1>1. IInv => DisconnectSettlesWaiters
    BY AckAssumption
    DEF IInv, TypeOK, WaiterNeverOrphaned, DisconnectSettlesWaiters, SweptNoWaiters,
        WaitersAsked, Tracked
  <1> QED BY Invariance, <1>1, PTL

-----------------------------------------------------------------------------
(* Verdicts.  VInv is inductive as well, and with it what the tracker says *)
(* of verdicts holds: none is lost, none is made up, none is taken back.   *)

USE DEF lifeVars, callVars, storeVars, stageVars, radioVars, At, Goto, Return, DropToken

-----------------------------------------------------------------------------
(* What a step does to the stores, one packet id at a time.                *)

\* Id p gets record, token, generation and waiter, unless the prune takes the
\* record or the rest away; with a waiter it takes nothing.
Kept(p, r, tok, life, waiter) ==
  /\ pendAck'[p] \in {r, NoRec}
  /\ \/ ackTok'[p] = tok /\ recLid'[p] = life
     \/ ackTok'[p] = None /\ recLid'[p] = 0
  /\ ackFut'[p] = waiter
  /\ waiter # None => pendAck'[p] = r /\ ackTok'[p] = tok
  /\ pendAck'[p].status # "absent" => ackTok'[p] = tok

Same(p) == Kept(p, pendAck[p], ackTok[p], recLid[p], ackFut[p])

Updated(p, r, tok, life, waiter) ==
  /\ Kept(p, r, tok, life, waiter)
  /\ \A q \in PktIds \ {p} : Same(q)

LEMMA PruneKeeps ==
  ASSUME NEW pend, NEW pOlder, NEW resp, NEW rOlder, NEW toks, NEW rtoks, NEW lids, NEW futs,
         PruneInput(pend, pOlder, resp, rOlder, toks, rtoks, lids, futs),
         Pruned(pend, pOlder, resp, rOlder, toks, rtoks, lids, futs),
         NEW p \in PktIds
  PROVE  Kept(p, pend[p], toks[p], lids[p], futs[p])
  <1>1. pendAck'[p] \in {pend[p], NoRec} /\ ackFut' = futs
    BY DEF Pruned, Without
  <1>2. \/ ackTok'[p] = toks[p] /\ recLid'[p] = lids[p]
        \/ ackTok'[p] = None /\ recLid'[p] = 0
    BY DEF Pruned
  <1>3. futs[p] # None => pendAck'[p] = pend[p]
    BY DEF Pruned, Without, Evicted
  <1>4. futs[p] # None => ackTok'[p] = toks[p]
    BY DEF Pruned
  <1>5. pendAck'[p].status # "absent" => ackTok'[p] = toks[p]
    <2>1. pendAck'[p] = IF p \in Evicted(pend, pOlder, futs) THEN NoRec ELSE pend[p]
      BY DEF Pruned, Without
    <2>2. NoRec.status = "absent"
      BY ConstRecords
    <2> QED BY <2>1, <2>2 DEF Pruned, Keys, Has
  <1> QED BY <1>1, <1>2, <1>3, <1>4, <1>5 DEF Kept

LEMMA SameStores == ASSUME UNCHANGED storeVars, NEW p PROVE Same(p)
  BY DEF Same, Kept

-----------------------------------------------------------------------------
(* What a recorded response does.                                          *)

\* It merges into the record r of its id, and settles the waiter with a verdict.
Committed(pk, r, dm) ==
  /\ r \in Records
  /\ Updated(pk.pkt, r, ackTok[pk.pkt], recLid[pk.pkt],
             IF r.status \in Definitive THEN None ELSE ackFut[pk.pkt])
  /\ \/ r = pendAck[pk.pkt] /\ fut' = fut /\ ~Settles(pendAck[pk.pkt], Verdict(pk, dm))
     \/ /\ Settles(pendAck[pk.pkt], Verdict(pk, dm))
        /\ r.status = Verdict(pk, dm) /\ r.reason # "duplicate"
        /\ fut' = IF /\ r.status \in Definitive
                     /\ ackFut[pk.pkt] # None
                     /\ fut[ackFut[pk.pkt]] = NoRec
                    THEN [fut EXCEPT ![ackFut[pk.pkt]] = r]
                    ELSE fut

LEMMA CommitMoves ==
  ASSUME IInv, NEW pk \in Packets, NEW tok \in Sends, NEW dm \in BOOLEAN,
         CommitResponse(pk, tok, dm)
  PROVE  \E r : Committed(pk, r, dm)
  <1> DEFINE p      == pk.pkt
             status == Verdict(pk, dm)
             r      == Merged(pendAck[p], pk, status)
             pend   == [pendAck EXCEPT ![p] = r]
             resp   == [ackResp EXCEPT ![p] = r]
             futs   == IF r.status \in Definitive THEN [ackFut EXCEPT ![p] = None] ELSE ackFut
             rtoks  == IF tok = None THEN respTok ELSE [respTok EXCEPT ![p] = tok]
             pO     == Ordered(pendOlder, pendAck, p)
             rO     == Ordered(respOlder, ackResp, p)
  <1>1. p \in PktIds /\ status \in {"ack", "nak", "implicit_ack"}
    BY VerdictTyped DEF Packets
  <1>2. r \in Records
    BY <1>1, MergedTyped DEF IInv, TypeOK
  <1>3. /\ Pruned(pend, pO, resp, rO, ackTok, rtoks, recLid, futs)
        /\ fut' = IF /\ Settles(pendAck[p], status) /\ status \in Definitive
                     /\ ackFut[p] # None /\ fut[ackFut[p]] = NoRec
                    THEN [fut EXCEPT ![ackFut[p]] = r] ELSE fut
    BY DEF CommitResponse, Stored
  <1>4. Settles(pendAck[p], status) => r.status = status /\ r.reason # "duplicate"
    BY DEF Merged, Rec
  <1>5. ~Settles(pendAck[p], status) => r = pendAck[p]
    BY DEF Merged
  <1> HIDE DEF status, r
  <1>6. PruneInput(pend, pO, resp, rO, ackTok, rtoks, recLid, futs)
    BY <1>1, <1>2, OrderedTyped DEF IInv, TypeOK, PruneInput
  <1>7. \A q \in PktIds : Kept(q, pend[q], ackTok[q], recLid[q], futs[q])
    <2> HIDE DEF pend, resp, futs, rtoks, pO, rO
    <2> QED BY <1>3, <1>6, PruneKeeps
  <1>8. /\ pend[p] = r /\ \A q \in PktIds \ {p} : pend[q] = pendAck[q] /\ futs[q] = ackFut[q]
        /\ futs[p] = IF r.status \in Definitive THEN None ELSE ackFut[p]
    BY <1>1 DEF IInv, TypeOK
  <1>9. Updated(p, r, ackTok[p], recLid[p], IF r.status \in Definitive THEN None ELSE ackFut[p])
    <2> HIDE DEF p, pend, futs
    <2> QED BY <1>1, <1>7, <1>8 DEF Updated, Same
  <1>10. /\ \/ r = pendAck[p] /\ fut' = fut /\ ~Settles(pendAck[p], status)
            \/ /\ Settles(pendAck[p], status)
               /\ r.status = status /\ r.reason # "duplicate"
               /\ fut' = IF /\ r.status \in Definitive
                            /\ ackFut[p] # None
                            /\ fut[ackFut[p]] = NoRec
                           THEN [fut EXCEPT ![ackFut[p]] = r]
                           ELSE fut
    BY <1>3, <1>4, <1>5
  <1>11. Committed(pk, r, dm)
    BY <1>2, <1>9, <1>10 DEF Committed, status
  <1> QED BY <1>11

\* A response of a send's generation is dropped, staged or committed.
Dropped(pk, tok, life) ==
  /\ UNCHANGED <<fut, storeVars, early>>
  /\ ~Live(life) \/ (tok \notin inflight /\ Disowned(pk, tok))

Staged(pk, tok, life) ==
  /\ UNCHANGED <<fut, storeVars>>
  /\ Live(life) /\ tok \in inflight
  /\ early' = IF sendLid[tok] = life THEN [early EXCEPT ![tok] = pk] ELSE early

Recorded(pk, tok, life, dm) ==
  /\ Live(life) /\ tok \notin inflight /\ ~Disowned(pk, tok)
  /\ early' = early
  /\ \E r : Committed(pk, r, dm)

LEMMA ResponseMoves ==
  ASSUME IInv, NEW pk \in Packets, NEW tok \in Sends, NEW life, NEW dm \in BOOLEAN,
         RecordResponse(pk, tok, life, dm)
  PROVE  /\ ackLock = None /\ inflight' = inflight
         /\ Dropped(pk, tok, life) \/ Staged(pk, tok, life) \/ Recorded(pk, tok, life, dm)
  <1>1. ackLock = None
    BY DEF RecordResponse
  <1>2. CASE ~Live(life)
    BY <1>1, <1>2 DEF RecordResponse, Dropped
  <1>3. CASE Live(life) /\ tok \in inflight
    BY <1>1, <1>3 DEF RecordResponse, Staged
  <1>4. CASE Live(life) /\ tok \notin inflight /\ Disowned(pk, tok)
    BY <1>1, <1>4 DEF RecordResponse, Dropped
  <1>5. CASE Live(life) /\ tok \notin inflight /\ ~Disowned(pk, tok)
    <2>1. CommitResponse(pk, tok, dm)
      BY <1>5 DEF RecordResponse
    <2>2. UNCHANGED stageVars
      BY <2>1 DEF CommitResponse
    <2> QED BY <2>1, <2>2, <1>1, <1>5, CommitMoves DEF Recorded
  <1> QED BY <1>2, <1>3, <1>4, <1>5

-----------------------------------------------------------------------------
(* What tracking, waiting and the sweep do.                                *)

LEMMA CollisionMoves ==
  ASSUME IInv, NEW s \in Sends, TrackCollision(s)
  PROVE  /\ pkt[s] \in PktIds
         /\ Updated(pkt[s], Collision, IF wait[s] THEN Poison ELSE s, recLid[pkt[s]], None)
  <1> DEFINE p == pkt[s]
  <1>1. /\ p \in PktIds
        /\ pendAck' = [pendAck EXCEPT ![p] = Collision]
        /\ ackTok' = [ackTok EXCEPT ![p] = IF wait[s] THEN Poison ELSE s]
        /\ ackFut' = [ackFut EXCEPT ![p] = None] /\ recLid' = recLid
    BY DEF TrackCollision, IInv, TypeOK
  <1> HIDE DEF p
  <1>2. Kept(p, Collision, IF wait[s] THEN Poison ELSE s, recLid[p], None)
    BY <1>1 DEF Kept, IInv, TypeOK
  <1>3. \A q \in PktIds \ {p} : Same(q)
    BY <1>1 DEF Same, Kept, IInv, TypeOK
  <1> QED BY <1>1, <1>2, <1>3 DEF Updated, p

LEMMA PoisonedMoves ==
  ASSUME IInv, NEW s \in Sends, TrackPoisoned(s)
  PROVE  /\ pkt[s] \in PktIds
         /\ Updated(pkt[s], Collision, Poison, recLid[pkt[s]], ackFut[pkt[s]])
  <1> DEFINE p     == pkt[s]
             pend  == [pendAck EXCEPT ![p] = Collision]
             resp  == [ackResp EXCEPT ![p] = Collision]
             toks  == [ackTok EXCEPT ![p] = Poison]
             rtoks == [respTok EXCEPT ![p] = None]
             pO    == Ordered(pendOlder, pendAck, p)
             rO    == Ordered(respOlder, ackResp, p)
  <1>1. p \in PktIds /\ Pruned(pend, pO, resp, rO, toks, rtoks, recLid, ackFut)
    BY DEF TrackPoisoned, Stored, IInv, TypeOK
  <1>2. PruneInput(pend, pO, resp, rO, toks, rtoks, recLid, ackFut)
    BY <1>1, OrderedTyped, ConstRecords DEF IInv, TypeOK, PruneInput
  <1>3. /\ pend[p] = Collision /\ toks[p] = Poison
        /\ \A q \in PktIds \ {p} : pend[q] = pendAck[q] /\ toks[q] = ackTok[q]
    BY <1>1 DEF IInv, TypeOK
  <1>4. \A q \in PktIds : Kept(q, pend[q], toks[q], recLid[q], ackFut[q])
    <2> HIDE DEF pend, resp, toks, rtoks, pO, rO
    <2> QED BY <1>1, <1>2, PruneKeeps
  <1> HIDE DEF pend, toks, p
  <1>5. Updated(p, Collision, Poison, recLid[p], ackFut[p])
    BY <1>1, <1>3, <1>4 DEF Updated, Same
  <1> QED BY <1>1, <1>5 DEF p

LEMMA UnwaitedMoves ==
  ASSUME IInv, NEW s \in Sends, TrackUnwaited(s)
  PROVE  /\ pkt[s] \in PktIds
         /\ Updated(pkt[s], OpenRecord(s), s, lid, ackFut[pkt[s]])
  <1> DEFINE p    == pkt[s]
             pend == [pendAck EXCEPT ![p] = OpenRecord(s)]
             toks == [ackTok EXCEPT ![p] = s]
             lids == [recLid EXCEPT ![p] = lid]
             pO   == Ordered(pendOlder, pendAck, p)
  <1>1. p \in PktIds /\ Pruned(pend, pO, ackResp, respOlder, toks, respTok, lids, ackFut)
    BY DEF TrackUnwaited, IInv, TypeOK
  <1>2. OpenRecord(s) \in Records
    BY <1>1, OpenRecordTyped, AckAssumption DEF TrackUnwaited
  <1>3. PruneInput(pend, pO, ackResp, respOlder, toks, respTok, lids, ackFut)
    BY <1>1, <1>2, OrderedTyped DEF IInv, TypeOK, PruneInput
  <1>4. /\ pend[p] = OpenRecord(s) /\ toks[p] = s /\ lids[p] = lid
        /\ \A q \in PktIds \ {p} :
             pend[q] = pendAck[q] /\ toks[q] = ackTok[q] /\ lids[q] = recLid[q]
    BY <1>1 DEF IInv, TypeOK
  <1>5. \A q \in PktIds : Kept(q, pend[q], toks[q], lids[q], ackFut[q])
    <2> HIDE DEF pend, toks, lids, pO
    <2> QED BY <1>1, <1>3, PruneKeeps
  <1> HIDE DEF pend, toks, lids, p
  <1>6. Updated(p, OpenRecord(s), s, lid, ackFut[p])
    BY <1>1, <1>4, <1>5 DEF Updated, Same
  <1> QED BY <1>1, <1>6 DEF p

LEMMA WaiterMoves ==
  ASSUME IInv, NEW s \in Sends, TrackWaiter(s)
  PROVE  /\ pkt[s] \in PktIds
         /\ Updated(pkt[s], OpenRecord(s), s, recLid[pkt[s]], ackFut[pkt[s]])
  <1> DEFINE p == pkt[s]
             r == OpenRecord(s)
  <1>1. /\ p \in PktIds
        /\ pendAck' = [pendAck EXCEPT ![p] = r]
        /\ ackTok' = [ackTok EXCEPT ![p] = s]
        /\ ackFut' = ackFut /\ recLid' = recLid
    BY DEF TrackWaiter, IInv, TypeOK
  <1> HIDE DEF p, r
  <1>2. Kept(p, r, s, recLid[p], ackFut[p])
    BY <1>1 DEF Kept, IInv, TypeOK
  <1>3. \A q \in PktIds \ {p} : Same(q)
    BY <1>1 DEF Same, Kept, IInv, TypeOK
  <1>4. Updated(p, r, s, recLid[p], ackFut[p])
    BY <1>2, <1>3 DEF Updated
  <1> QED BY <1>1, <1>4 DEF p, r

LEMMA RegisterMoves ==
  ASSUME IInv, NEW s \in Sends, RegisterWaiter(s)
  PROVE  /\ pkt[s] \in PktIds
         /\ Updated(pkt[s], pendAck[pkt[s]], ackTok[pkt[s]], lid,
                    IF conn = "up" THEN s ELSE ackFut[pkt[s]])
  <1> DEFINE p    == pkt[s]
             futs == IF conn = "up" THEN [ackFut EXCEPT ![p] = s] ELSE ackFut
             lids == [recLid EXCEPT ![p] = lid]
             w    == IF conn = "up" THEN s ELSE ackFut[p]
  <1>1. /\ p \in PktIds
        /\ Pruned(pendAck, pendOlder, ackResp, respOlder, ackTok, respTok, lids, futs)
    BY DEF RegisterWaiter, IInv, TypeOK, TrackingOpen
  <1>2. PruneInput(pendAck, pendOlder, ackResp, respOlder, ackTok, respTok, lids, futs)
    BY <1>1 DEF IInv, TypeOK, PruneInput
  <1>3. /\ lids[p] = lid /\ futs[p] = w
        /\ \A q \in PktIds \ {p} : lids[q] = recLid[q] /\ futs[q] = ackFut[q]
    BY <1>1 DEF IInv, TypeOK
  <1>4. \A q \in PktIds : Kept(q, pendAck[q], ackTok[q], lids[q], futs[q])
    <2> HIDE DEF lids, futs
    <2> QED BY <1>1, <1>2, PruneKeeps
  <1> HIDE DEF lids, futs, w, p
  <1>5. Updated(p, pendAck[p], ackTok[p], lid, w)
    BY <1>1, <1>3, <1>4 DEF Updated, Same
  <1> QED BY <1>1, <1>5 DEF p, w

LEMMA UnregisterMoves ==
  ASSUME IInv, NEW s \in Sends, pkt[s] # None, Unregister(s)
  PROVE  /\ pkt[s] \in PktIds
         /\ Updated(pkt[s], pendAck[pkt[s]], ackTok[pkt[s]], recLid[pkt[s]],
                    IF ackFut[pkt[s]] = s THEN None ELSE ackFut[pkt[s]])
  <1> DEFINE p    == pkt[s]
             futs == IF ackFut[p] = s THEN [ackFut EXCEPT ![p] = None] ELSE ackFut
             w    == IF ackFut[p] = s THEN None ELSE ackFut[p]
  <1>1. /\ p \in PktIds
        /\ Pruned(pendAck, pendOlder, ackResp, respOlder, ackTok, respTok, recLid, futs)
    BY DEF Unregister, IInv, TypeOK
  <1>2. PruneInput(pendAck, pendOlder, ackResp, respOlder, ackTok, respTok, recLid, futs)
    BY DEF IInv, TypeOK, PruneInput
  <1>3. futs[p] = w /\ \A q \in PktIds \ {p} : futs[q] = ackFut[q]
    BY <1>1 DEF IInv, TypeOK
  <1>4. \A q \in PktIds : Kept(q, pendAck[q], ackTok[q], recLid[q], futs[q])
    <2> HIDE DEF futs
    <2> QED BY <1>1, <1>2, PruneKeeps
  <1> HIDE DEF futs, w, p
  <1>5. Updated(p, pendAck[p], ackTok[p], recLid[p], w)
    BY <1>1, <1>3, <1>4 DEF Updated, Same
  <1> QED BY <1>1, <1>5 DEF p, w

\* The record a timed-out send leaves and returns.
Stamped(s) ==
  IF pendAck[pkt[s]].status \in {"absent", "pending"} THEN AckTimeout ELSE pendAck[pkt[s]]

LEMMA StampMoves ==
  ASSUME IInv, NEW s \in Sends, StampTimeout(s)
  PROVE  /\ pkt[s] \in PktIds /\ wait[s]
         /\ Updated(pkt[s], Stamped(s), ackTok[pkt[s]], recLid[pkt[s]], ackFut[pkt[s]])
         /\ pendAck'[pkt[s]] = Stamped(s)
         /\ result' = [result EXCEPT ![s] = Stamped(s)]
  <1> DEFINE p == pkt[s]
             r == Stamped(s)
  <1>1. /\ p \in PktIds /\ wait[s]
        /\ pendAck' = [pendAck EXCEPT ![p] = r]
        /\ ackTok' = ackTok /\ ackFut' = ackFut /\ recLid' = recLid
        /\ result' = [result EXCEPT ![s] = r]
    BY DEF StampTimeout, Stamped, WaitersAsked, IInv, TypeOK
  <1> HIDE DEF p, r
  <1>2. Kept(p, r, ackTok[p], recLid[p], ackFut[p]) /\ pendAck'[p] = r
    BY <1>1 DEF Kept, IInv, TypeOK
  <1>3. \A q \in PktIds \ {p} : Same(q)
    BY <1>1 DEF Same, Kept, IInv, TypeOK
  <1>4. Updated(p, r, ackTok[p], recLid[p], ackFut[p])
    BY <1>2, <1>3 DEF Updated
  <1> QED BY <1>1, <1>2, <1>4 DEF p, r

SweptTo(p) == IF ackFut[p] # None THEN SweepRecord(p) ELSE pendAck[p]

LEMMA SweepMoves ==
  ASSUME IInv, Sweep
  PROVE  \A p \in PktIds : Kept(p, SweptTo(p), ackTok[p], recLid[p], None)
  <1> DEFINE waited == {p \in PktIds : ackFut[p] # None}
             Swept(store) == [p \in PktIds |-> IF p \in waited THEN SweepRecord(p) ELSE store[p]]
             none == [p \in PktIds |-> None]
  <1>1. PICK po \in SweepOrder(pendOlder, pendAck, waited),
             ro \in SweepOrder(respOlder, ackResp, waited) :
               Pruned(Swept(pendAck), po, Swept(ackResp), ro, ackTok, respTok, recLid, none)
    BY DEF Sweep
  <1>2. \A p \in PktIds : SweepRecord(p) \in Records
    BY ConstRecords DEF SweepRecord, IInv, TypeOK
  <1>3. po \subseteq PktIds \X PktIds /\ ro \subseteq PktIds \X PktIds
    BY DEF SweepOrder, Insertions, Keys, IInv, TypeOK
  <1>4. PruneInput(Swept(pendAck), po, Swept(ackResp), ro, ackTok, respTok, recLid, none)
    BY <1>2, <1>3 DEF PruneInput, IInv, TypeOK
  <1>5. \A p \in PktIds : Swept(pendAck)[p] = SweptTo(p) /\ none[p] = None
    BY DEF SweptTo
  <1>6. \A p \in PktIds : Kept(p, Swept(pendAck)[p], ackTok[p], recLid[p], none[p])
    <2> HIDE DEF Swept, none
    <2> QED BY <1>1, <1>4, PruneKeeps
  <1> HIDE DEF Swept, none
  <1> QED BY <1>5, <1>6

-----------------------------------------------------------------------------
(* An update keeps what the stores say, if the new entry fits.             *)

LEMMA NoRecord == NoRec.status = "absent" /\ NoRec.reason = "none"
  BY DEF NoRec, Rec

SharedId(p) == \E c, d \in Sends : c # d /\ pkt[c] = p /\ pkt[d] = p

Fits(p, r, tok, life, waiter) ==
  /\ \E s \in Sends : pkt[s] = p
  /\ tok \in Sends \cup {None, Poison} /\ life \in Nat
  /\ tok \in Sends => pkt[tok] = p
  /\ waiter \in Sends => pkt[waiter] = p
  /\ life <= lid
  /\ tok = None => life = 0
  /\ tok \in Sends /\ r.status = "implicit_ack" => life <= sendLid[tok] /\ tok \notin inflight
  /\ tok = Poison \/ r.reason = "duplicate" => SharedId(p)
  /\ tok = Poison => r.status \notin {"pending", "ack", "implicit_ack"}

\* What there is fits.
LEMMA OwnFits ==
  ASSUME VInv, NEW p \in PktIds, \E s \in Sends : pkt[s] = p
  PROVE  Fits(p, pendAck[p], ackTok[p], recLid[p], ackFut[p])
  BY DEF VInv, IInv, TypeOK, KeysDrawn, LivesFit, PoisonShared, DeliveredMeansHeard,
         PoisonedNeverDelivers, Fits, SharedId

LEMMA UpdateFits ==
  ASSUME VInv, NEW p \in PktIds, NEW r, NEW tok, NEW life, NEW waiter,
         Updated(p, r, tok, life, waiter), Fits(p, r, tok, life, waiter),
         UNCHANGED <<pkt, lid, sendLid, inflight>>
  PROVE  KeysDrawn' /\ LivesFit' /\ PoisonShared' /\ PoisonedNeverDelivers'
  <1>1. Kept(p, r, tok, life, waiter) /\ \A q \in PktIds \ {p} : Same(q)
    BY DEF Updated
  <1>2. KeysDrawn'
    <2> SUFFICES ASSUME NEW q \in PktIds
                 PROVE  /\ ackTok'[q] \in Sends => pkt[ackTok'[q]] = q
                        /\ ackFut'[q] \in Sends => pkt[ackFut'[q]] = q
                        /\ pendAck'[q].status # "absent" => \E s \in Sends : pkt[s] = q
      BY DEF KeysDrawn, Has
    <2>1. CASE q = p
      BY <2>1, <1>1, NoRecord, AckAssumption DEF Kept, Fits
    <2>2. CASE q # p
      BY <2>2, <1>1, NoRecord, AckAssumption DEF Same, Kept, VInv, KeysDrawn, Has
    <2> QED BY <2>1, <2>2
  <1>3. LivesFit'
    <2> SUFFICES ASSUME NEW q \in PktIds
                 PROVE  /\ recLid'[q] <= lid
                        /\ ackTok'[q] = None => recLid'[q] = 0
                        /\ ackTok'[q] \in Sends /\ pendAck'[q].status = "implicit_ack"
                             => recLid'[q] <= sendLid[ackTok'[q]] /\ ackTok'[q] \notin inflight
      BY DEF LivesFit
    <2>0. lid \in Nat
      BY DEF VInv, IInv, TypeOK
    <2>1. CASE q = p
      BY <2>0, <2>1, <1>1, NoRecord, AckAssumption DEF Kept, Fits
    <2>2. CASE q # p
      BY <2>0, <2>2, <1>1, NoRecord, AckAssumption DEF Same, Kept, VInv, LivesFit
    <2> QED BY <2>1, <2>2
  <1>4. PoisonShared'
    <2> SUFFICES ASSUME NEW q \in PktIds,
                        ackTok'[q] = Poison \/ pendAck'[q].reason = "duplicate"
                 PROVE  SharedId(q)
      BY DEF PoisonShared, SharedId
    <2>1. CASE q = p
      BY <2>1, <1>1, NoRecord, AckAssumption DEF Kept, Fits
    <2>2. CASE q # p
      BY <2>2, <1>1, NoRecord, AckAssumption DEF Same, Kept, VInv, PoisonShared, SharedId
    <2> QED BY <2>1, <2>2
  <1>5. PoisonedNeverDelivers'
    <2> SUFFICES ASSUME NEW q \in PktIds, ackTok'[q] = Poison
                 PROVE  pendAck'[q].status \notin {"pending", "ack", "implicit_ack"}
      BY DEF PoisonedNeverDelivers
    <2>1. CASE q = p
      BY <2>1, <1>1, NoRecord, AckAssumption DEF Kept, Fits
    <2>2. CASE q # p
      BY <2>2, <1>1, NoRecord, AckAssumption
      DEF Same, Kept, VInv, DeliveredMeansHeard, PoisonedNeverDelivers
    <2> QED BY <2>1, <2>2
  <1> QED BY <1>2, <1>3, <1>4, <1>5

\* What was heard for a send stays heard.
LEMMA HeededStays ==
  ASSUME NEW s \in Sends, Heeded(s), heard \subseteq heard', unseen[s] \subseteq unseen'[s]
  PROVE  Heeded(s)'
  BY DEF Heeded, Kin

\* The record's last conjunct: a delivery it tells of was reported.
LEMMA UpdateHeeded ==
  ASSUME VInv, NEW p \in PktIds, NEW r, NEW tok, NEW life, NEW waiter,
         Updated(p, r, tok, life, waiter),
         UNCHANGED <<pkt, wait>>, heard \subseteq heard',
         \A s \in Sends : unseen[s] \subseteq unseen'[s],
         ASSUME NEW s \in Sends, tok = s, wait[s], r.status \in {"ack", "implicit_ack"}
         PROVE  Heeded(s)'
  PROVE  RecordHeeded'
  <1> SUFFICES ASSUME NEW s \in Sends, pkt[s] # None, ackTok'[pkt[s]] = s, wait[s],
                      pendAck'[pkt[s]].status \in {"ack", "implicit_ack"}
               PROVE  Heeded(s)'
    BY DEF RecordHeeded, Owner
  <1>1. pkt[s] \in PktIds /\ s # None
    BY AckAssumption DEF VInv, IInv, TypeOK
  <1>2. CASE pkt[s] = p
    BY <1>1, <1>2, NoRecord DEF Updated, Kept
  <1>3. CASE pkt[s] # p
    <2>1. ackTok[pkt[s]] = s /\ pendAck[pkt[s]].status \in {"ack", "implicit_ack"}
      BY <1>1, <1>3, NoRecord DEF Updated, Same, Kept
    <2>2. Heeded(s)
      BY <2>1 DEF VInv, RecordHeeded, Owner
    <2> QED BY <2>2, HeededStays
  <1> QED BY <1>2, <1>3

-----------------------------------------------------------------------------
(* The steps of a call that leave the stores, the futures and the radio.   *)

OnAir == {"onair", "fresh", "tracking", "tracked"}

Calm(s) ==
  /\ UNCHANGED <<lifeVars, fut, storeVars, pkt, handlers, heard, inbox, upgrade, unseen>>
  /\ pc[s] \notin {"tracking", "stamped", "done"} /\ pc'[s] \notin {"tracking", "stamped"}
  /\ pc'[s] = "done" => result'[s].status \notin {"ack", "implicit_ack"}
  /\ pc[s] = "idle" \/ (wait'[s] = wait[s] /\ sendLid'[s] = sendLid[s])
  /\ pc[s] = "idle" => pc'[s] \in {"begun", "done"}
  /\ pc'[s] \in OnAir => pc[s] \in OnAir /\ early'[s] = early[s]
  /\ pc'[s] = "waiting" => pc[s] = "tracked" /\ early[s] = None
  /\ \A t \in Sends : {early'[t], stash'[t]} \subseteq {early[t], stash[t], None}
  /\ \A t \in Sends : t \in inflight' /\ pkt[t] # None => t \in inflight
  /\ \A t \in Sends \ {s} :
       /\ pc'[t] = pc[t] /\ wait'[t] = wait[t] /\ sendLid'[t] = sendLid[t]
       /\ result'[t] = result[t] /\ early'[t] = early[t]

CalmStep(s) ==
  \/ Begin(s) \/ BeginRefused(s) \/ Arm(s) \/ NotSent(s) \/ SendRaises(s) \/ CancelSend(s)
  \/ StillCurrent(s) \/ TurnedStale(s) \/ TrackNoId(s) \/ NoEarlyAck(s) \/ PopEarlyAck(s)
  \/ TimerFires(s)

LEMMA ResultsPlain ==
  \A r \in {Failed, Cancelled, Disconnected, Sent} : r.status \notin {"ack", "implicit_ack"}
  BY DEF Failed, Cancelled, Disconnected, Sent, Rec

LEMMA CalmSteps ==
  ASSUME VInv, NEW s \in Sends, CalmStep(s)
  PROVE  Calm(s) /\ CallsInOrder'
  <1> USE DEF VInv, IInv, TypeOK, Labels, CallsInOrder, Tracked, OnAir, Current
  <1>1. CASE Begin(s)
    BY <1>1, ResultsPlain DEF Begin, Calm
  <1>2. CASE BeginRefused(s)
    BY <1>2, ResultsPlain DEF BeginRefused, Calm
  <1>3. CASE Arm(s)
    BY <1>3, ResultsPlain DEF Arm, Calm
  <1>4. CASE NotSent(s)
    BY <1>4, ResultsPlain DEF NotSent, Calm
  <1>5. CASE SendRaises(s)
    BY <1>5, ResultsPlain DEF SendRaises, Calm
  <1>6. CASE CancelSend(s)
    BY <1>6, ResultsPlain DEF CancelSend, Calm
  <1>7. CASE StillCurrent(s)
    BY <1>7, ResultsPlain DEF StillCurrent, Calm
  <1>8. CASE TurnedStale(s)
    BY <1>8, ResultsPlain DEF TurnedStale, Calm
  <1>9. CASE TrackNoId(s)
    BY <1>9, ResultsPlain DEF TrackNoId, Calm, StagedUntilTracked
  <1>10. CASE NoEarlyAck(s)
    BY <1>10, ResultsPlain DEF NoEarlyAck, Proceed, Calm
  <1>11. CASE PopEarlyAck(s)
    BY <1>11, ResultsPlain DEF PopEarlyAck, Calm
  <1>12. CASE TimerFires(s)
    BY <1>12, ResultsPlain DEF TimerFires, Calm
  <1> QED
    BY <1>1, <1>2, <1>3, <1>4, <1>5, <1>6, <1>7, <1>8, <1>9, <1>10, <1>11, <1>12 DEF CalmStep

LEMMA CalmKeeps ==
  ASSUME VInv, NEW s \in Sends, CalmStep(s)
  PROVE  VInv'
  <1>1. Calm(s) /\ CallsInOrder'
    BY CalmSteps
  <1>2. IInv'
    BY BeginStep, BeginRefusedStep, ArmStep, NotSentStep, SendRaisesStep, CancelSendStep,
       StillCurrentStep, TurnedStaleStep, TrackNoIdStep, NoEarlyAckStep, PopEarlyAckStep,
       TimerFiresStep
    DEF CalmStep, VInv
  <1>3. pc[s] = "idle" => pkt[s] = None /\ fut[s] = NoRec
    BY DEF VInv, CallsInOrder, Tracked
  <1>4. NamesDrawn'
    BY <1>1 DEF Calm, VInv, NamesDrawn
  <1>5. KeysDrawn' /\ PoisonShared' /\ PoisonedNeverDelivers'
    BY <1>1 DEF Calm, VInv, KeysDrawn, Has, PoisonShared, DeliveredMeansHeard,
                PoisonedNeverDelivers
  <1>6. \A t \in Sends : pkt[t] # None => wait'[t] = wait[t] /\ sendLid'[t] = sendLid[t]
    BY <1>1, <1>3 DEF Calm
  <1>7. LivesFit'
    <2>1. \A p \in PktIds : ackTok[p] \in Sends =>
             /\ sendLid'[ackTok[p]] = sendLid[ackTok[p]]
             /\ ackTok[p] \in inflight' => ackTok[p] \in inflight
      BY <1>1, <1>6, AckAssumption DEF Calm, VInv, KeysDrawn
    <2> QED BY <1>1, <2>1 DEF Calm, VInv, LivesFit
  <1>8. UpgradeFits' /\ Deliveries'
    <2>1. upgrade # None => upgrade.tok \in Sends /\ pkt[upgrade.tok] # None
      BY AckAssumption DEF VInv, IInv, TypeOK, NamesDrawn, Packets
    <2>2. \A t \in Sends : fut[t] # NoRec => wait'[t] = wait[t]
      BY <1>1, <1>3 DEF Calm
    <2> QED BY <1>1, <1>6, <2>1, <2>2, NoRecord
            DEF Calm, VInv, UpgradeFits, Deliveries, Heeded, Kin, HeardOf
  <1>9. WaitersOwn'
    BY <1>1 DEF Calm, VInv, WaitersOwn, ActiveWaiter
  <1>10. HandlerExclusive' /\ RecordHeeded'
    BY <1>1, <1>6 DEF Calm, VInv, HandlerExclusive, RecordHeeded, Owner, Current, KinOnly, Heeded, Kin
  <1>11. StagedOwn'
    BY <1>1, <1>6 DEF Calm, VInv, StagedOwn, Owner, Kin
  <1>12. OneAnswer' /\ NoVerdictYet'
    BY <1>1 DEF Calm, VInv, OneAnswer, NoVerdictYet, SoleOwner, HeardOf, NotUpgraded
  <1>13. VerdictKept'
    BY <1>1, NoRecord DEF Calm, VInv, VerdictKept, SoleOwner, NotUpgraded, CallsInOrder, Tracked, Definitive
  <1>14. AnswerStaged'
    BY <1>1, <1>6 DEF Calm, VInv, AnswerStaged, SoleOwner, Current, HeardOf, OnAir
  <1>15. DeliveredMeansHeard'
    BY <1>1, <1>5 DEF Calm, VInv, DeliveredMeansHeard, Heeded, Kin
  <1> QED
    BY <1>1, <1>2, <1>4, <1>5, <1>7, <1>8, <1>9, <1>10, <1>11, <1>12, <1>13, <1>14, <1>15
    DEF VInv

-----------------------------------------------------------------------------
(* A send draws its packet id.                                             *)

LEMMA SendTextKeeps ==
  ASSUME VInv, NEW s \in Sends, SendText(s)
  PROVE  VInv'
  <1>1. IInv'
    BY SendTextStep DEF VInv
  <1>2. PICK p \in PktIds \cup {None} :
          /\ pkt' = [pkt EXCEPT ![s] = p]
          /\ handlers' = IF p = None THEN handlers
                         ELSE {h \in handlers : pkt[h] # p \/ sendLid[h] # lid} \cup {s}
    BY DEF SendText
  <1>3. /\ pc[s] = "armed" /\ pc' = [pc EXCEPT ![s] = "onair"]
        /\ UNCHANGED <<lifeVars, wait, sendLid, result, stash, fut, storeVars, stageVars,
                       ackLock, heard, inbox, upgrade, unseen>>
    BY DEF SendText
  <1>4. pkt[s] = None /\ fut[s] = NoRec
    BY <1>3 DEF VInv, CallsInOrder, Tracked
  <1>5. pkt'[s] = p /\ \A t \in Sends \ {s} : pkt'[t] = pkt[t] /\ pc'[t] = pc[t]
    BY <1>2, <1>3 DEF VInv, IInv, TypeOK
  <1>6. early[s] = None /\ stash[s] = None
    BY <1>4, AckAssumption DEF VInv, IInv, TypeOK, NamesDrawn, Packets
  <1>7. \A pk \in heard : pk.cause \in Sends \ {s}
    BY <1>4, AckAssumption DEF VInv, IInv, TypeOK, NamesDrawn, Packets
  <1>8. NotUpgraded(s)
    BY <1>4, AckAssumption DEF VInv, IInv, TypeOK, NamesDrawn, NotUpgraded, Packets
  <1>9. \A q \in PktIds : ackTok[q] # s /\ ackFut[q] # s
    BY <1>4, AckAssumption DEF VInv, KeysDrawn
  <1>10. \A t \in Sends \ {s} : SoleOwner(t)' => SoleOwner(t) /\ pkt[t] # p
    BY <1>4, <1>5 DEF SoleOwner
  <1>11. handlers' \subseteq handlers \cup {s} /\ (p = None => handlers' = handlers)
    BY <1>2
  <1>12. CallsInOrder'
    BY <1>3, <1>4, <1>5 DEF VInv, IInv, TypeOK, CallsInOrder, Tracked, Current
  <1>13. NamesDrawn'
    <2>1. \A h \in handlers' : pkt'[h] # None
      BY <1>2, <1>4, <1>5 DEF VInv, IInv, TypeOK, NamesDrawn
    <2>2. \A pk \in heard : pkt'[pk.cause] = pk.pkt
      BY <1>5, <1>7 DEF VInv, NamesDrawn
    <2>3. \A t \in Sends : \A pk \in {early[t], stash[t]} \ {None} : pk \in heard /\ pk.pkt = pkt'[t]
      BY <1>5, <1>6 DEF VInv, NamesDrawn
    <2>4. upgrade # None => pkt'[upgrade.tok] = upgrade.pk.pkt
      BY <1>5, <1>8 DEF VInv, NamesDrawn, NotUpgraded
    <2> QED BY <1>3, <2>1, <2>2, <2>3, <2>4 DEF VInv, NamesDrawn
  <1>14. KeysDrawn'
    <2>1. \A q \in PktIds : Has(pendAck, q) => \E t \in Sends : pkt'[t] = q
      BY <1>4, <1>5, AckAssumption DEF VInv, KeysDrawn
    <2> QED BY <1>3, <1>5, <1>9, <2>1 DEF VInv, KeysDrawn, Has
  <1>15. LivesFit' /\ UpgradeFits' /\ Deliveries' /\ DeliveredMeansHeard'
    BY <1>3, <1>5
    DEF VInv, LivesFit, UpgradeFits, Deliveries, Heeded, Kin, HeardOf, DeliveredMeansHeard,
        PoisonedNeverDelivers
  <1>16. PoisonShared'
    <2> SUFFICES ASSUME NEW q \in PktIds, ackTok[q] = Poison \/ pendAck[q].reason = "duplicate"
                 PROVE  \E c, d \in Sends : c # d /\ pkt'[c] = q /\ pkt'[d] = q
      BY <1>3 DEF PoisonShared
    <2>1. PICK c, d \in Sends : c # d /\ pkt[c] = q /\ pkt[d] = q
      BY DEF VInv, PoisonShared
    <2>2. c # s /\ d # s
      BY <2>1, <1>4, AckAssumption
    <2> QED BY <2>1, <2>2, <1>5
  <1>17. WaitersOwn'
    BY <1>3, <1>5 DEF VInv, IInv, TypeOK, WaitersOwn, ActiveWaiter
  <1>18. \A t \in Sends : Owner(t)' => t # s /\ Owner(t)
    BY <1>3, <1>5, <1>9, AckAssumption DEF VInv, IInv, TypeOK, Owner
  <1>19. HandlerExclusive'
    <2> SUFFICES ASSUME NEW t \in Sends, Owner(t)', t \in handlers', Current(t)'
                 PROVE  KinOnly(t)'
      BY DEF HandlerExclusive
    <2>1. t # s /\ Owner(t) /\ t \in handlers /\ Current(t)
      BY <1>3, <1>11, <1>18 DEF Current
    <2>2. KinOnly(t)
      BY <2>1 DEF VInv, HandlerExclusive
    <2>3. pkt[t] # p
      BY <1>2, <2>1 DEF Owner, Current
    <2> QED BY <2>1, <2>2, <2>3, <1>3, <1>5 DEF KinOnly, Kin
  <1>20. StagedOwn' /\ RecordHeeded'
    BY <1>3, <1>5, <1>18 DEF VInv, StagedOwn, RecordHeeded, Heeded, Kin
  <1>21. OneAnswer'
    <2> SUFFICES ASSUME NEW t \in Sends, SoleOwner(t)'
                 PROVE  /\ t \in handlers' \/ HeardOf(t)
                        /\ t \in handlers' => early[t] = None /\ stash[t] = None
      BY <1>3 DEF OneAnswer, HeardOf
    <2>1. CASE t = s
      BY <2>1, <1>2, <1>5, <1>6 DEF SoleOwner
    <2>2. CASE t # s
      BY <2>2, <1>2, <1>10 DEF VInv, OneAnswer
    <2> QED BY <2>1, <2>2
  <1>22. NoVerdictYet'
    <2> SUFFICES ASSUME NEW t \in Sends, SoleOwner(t)',
                        t \in handlers' \/ early[t] # None \/ stash[t] # None
                 PROVE  /\ fut[t].status \notin Definitive
                        /\ pendAck[pkt'[t]].status \notin {"ack", "nak", "implicit_ack"}
                        /\ NotUpgraded(t)
      BY <1>3 DEF NoVerdictYet, NotUpgraded
    <2>1. CASE t = s
      <3>1. p \in PktIds /\ \A u \in Sends : pkt[u] # p
        BY <2>1, <1>4, <1>5 DEF SoleOwner
      <3>2. pendAck[p].status = "absent"
        BY <3>1 DEF VInv, KeysDrawn, Has
      <3> QED BY <2>1, <3>2, <1>4, <1>5, <1>8, NoRecord DEF Definitive
    <2>2. CASE t # s
      BY <2>2, <1>5, <1>10, <1>11 DEF VInv, NoVerdictYet
    <2> QED BY <2>1, <2>2
  <1>23. VerdictKept'
    <2> SUFFICES ASSUME NEW t \in Sends, SoleOwner(t)', fut[t].status \in Definitive,
                        pc'[t] \in {"tracked", "early", "waiting", "expired"}
                 PROVE  /\ NotUpgraded(t)
                        /\ ackFut[pkt'[t]] = None
                        /\ pendAck[pkt'[t]].status \in {"absent", fut[t].status}
      BY <1>3 DEF VerdictKept, NotUpgraded
    <2>1. t # s
      BY <1>4, NoRecord DEF Definitive
    <2> QED BY <2>1, <1>5, <1>10 DEF VInv, VerdictKept
  <1>24. AnswerStaged'
    <2> SUFFICES ASSUME NEW t \in Sends, SoleOwner(t)', Current(t), HeardOf(t),
                        \A pk \in heard : pk.cause = t => Verdict(pk, t \in DMs) \in Definitive
                 PROVE  /\ pc'[t] \in {"onair", "fresh", "tracking", "tracked"} => early[t] # None
                        /\ pc'[t] = "waiting" => fut[t] # NoRec
      BY <1>3 DEF AnswerStaged, Current, HeardOf
    <2>1. t # s
      BY <1>7 DEF HeardOf
    <2> QED BY <2>1, <1>5, <1>10 DEF VInv, AnswerStaged
  <1> QED
    BY <1>1, <1>12, <1>13, <1>14, <1>15, <1>16, <1>17, <1>19, <1>20, <1>21, <1>22, <1>23, <1>24
    DEF VInv

-----------------------------------------------------------------------------
(* Connects, disconnects, and what comes to the platform loop.             *)

\* No step of the lifecycle makes a send current again.
LEMMA LivesKeep ==
  ASSUME VInv, Connect \/ Disconnect \/ (\E pk \in Packets : PubsubCheck(pk))
  PROVE  /\ KeysDrawn' /\ LivesFit' /\ PoisonShared' /\ WaitersOwn'
         /\ RecordHeeded' /\ StagedOwn' /\ OneAnswer' /\ DeliveredMeansHeard'
         /\ \A s \in Sends : Current(s)' => Current(s)
  <1>1. /\ UNCHANGED <<callVars, fut, storeVars, stageVars, handlers, heard, unseen>>
        /\ lid' \in Nat /\ lid <= lid'
        /\ conn' = "up" => lid' = lid + 1 \/ (lid' = lid /\ conn = "up")
    BY DEF Connect, Disconnect, PubsubCheck, VInv, IInv, TypeOK
  <1>2. KeysDrawn' /\ PoisonShared' /\ WaitersOwn'
    BY <1>1 DEF VInv, KeysDrawn, Has, PoisonShared, WaitersOwn, ActiveWaiter
  <1>3. LivesFit'
    BY <1>1 DEF VInv, IInv, TypeOK, LivesFit
  <1>4. RecordHeeded' /\ StagedOwn' /\ OneAnswer'
    BY <1>1 DEF VInv, RecordHeeded, StagedOwn, OneAnswer, Owner, Heeded, Kin, HeardOf, SoleOwner
  <1>5. DeliveredMeansHeard'
    BY <1>1 DEF VInv, DeliveredMeansHeard, PoisonedNeverDelivers, Heeded, Kin
  <1>6. \A s \in Sends : Current(s)' => Current(s)
    BY <1>1 DEF VInv, IInv, TypeOK, StagedUntilTracked, Current
  <1> QED BY <1>2, <1>3, <1>4, <1>5, <1>6

LEMMA LifeKeeps ==
  ASSUME VInv, Connect \/ Disconnect
  PROVE  VInv'
  <1>1. IInv'
    BY ConnectStep, DisconnectStep DEF VInv
  <1>2. /\ UNCHANGED <<callVars, fut, storeVars, stageVars, handlers, heard, upgrade, unseen>>
        /\ lid' \in Nat /\ (conn' = "up" => lid' > 0) /\ inbox' \subseteq inbox
    BY DEF Connect, Disconnect, VInv, IInv, TypeOK
  <1>3. \A s \in Sends : Current(s)' => Current(s)
    BY LivesKeep
  <1>4. CallsInOrder' /\ HandlerExclusive' /\ AnswerStaged'
    BY <1>2, <1>3
    DEF VInv, CallsInOrder, HandlerExclusive, AnswerStaged, Owner, SoleOwner, HeardOf, KinOnly, Kin
  <1>5. NamesDrawn' /\ UpgradeFits' /\ Deliveries'
    BY <1>2 DEF VInv, NamesDrawn, UpgradeFits, Deliveries, Heeded, Kin, HeardOf
  <1>6. NoVerdictYet' /\ VerdictKept'
    BY <1>2 DEF VInv, NoVerdictYet, VerdictKept, SoleOwner, NotUpgraded
  <1> QED BY <1>1, <1>4, <1>5, <1>6, LivesKeep DEF VInv

\* What is upgraded is of a send that owns its id, lives, and was heard.
LEMMA PubsubCheckKeeps ==
  ASSUME VInv, NEW pk \in Packets, PubsubCheck(pk)
  PROVE  VInv'
  <1>1. IInv'
    BY PubsubCheckStep DEF VInv
  <1>2. /\ UNCHANGED <<lifeVars, callVars, fut, storeVars, stageVars, ackLock, handlers, heard,
                       unseen>>
        /\ conn = "up" /\ upgrade = None /\ pk \in inbox /\ inbox' \subseteq inbox
        /\ upgrade' = IF Upgradable(pk)
                        THEN [pk |-> pk, tok |-> ackTok[pk.pkt], life |-> lid]
                        ELSE None
    BY DEF PubsubCheck
  <1>3. pk \in heard /\ pk.pkt \in PktIds /\ pk.cause \in Sends /\ pkt[pk.cause] = pk.pkt
    BY <1>2 DEF VInv, NamesDrawn, Packets
  <1>4. ASSUME Upgradable(pk)
        PROVE  LET tok == ackTok[pk.pkt]
               IN  /\ tok \in Sends /\ pkt[tok] = pk.pkt /\ sendLid[tok] = lid
                   /\ tok \notin inflight
                   /\ wait[tok] => Heeded(tok)
                   /\ pendAck[pk.pkt].status = "implicit_ack"
    <2> DEFINE tok == ackTok[pk.pkt]
    <2>1. pendAck[pk.pkt].status = "implicit_ack" /\ recLid[pk.pkt] = lid
      BY <1>4 DEF Upgradable
    <2>2. lid > 0 /\ lid \in Nat
      BY <1>2 DEF VInv, IInv, TypeOK, UpgradeFits
    <2>3. tok # None
      BY <2>1, <2>2, <1>3 DEF VInv, LivesFit
    <2>4. tok # Poison
      BY <2>1, <1>3 DEF VInv, DeliveredMeansHeard, PoisonedNeverDelivers
    <2>5. tok \in Sends
      BY <2>3, <2>4, <1>3 DEF VInv, IInv, TypeOK
    <2>6. pkt[tok] = pk.pkt /\ lid <= sendLid[tok] /\ tok \notin inflight
      BY <2>1, <2>5, <1>3 DEF VInv, KeysDrawn, LivesFit
    <2>7. sendLid[tok] = lid
      BY SMTT(30), <2>2, <2>5, <2>6 DEF VInv, IInv, TypeOK, StagedUntilTracked
    <2>8. wait[tok] => Heeded(tok)
      BY <2>1, <2>5, <2>6, <1>3, AckAssumption DEF VInv, RecordHeeded, Owner
    <2> QED BY <2>1, <2>5, <2>6, <2>7, <2>8
  <1>5. CallsInOrder' /\ HandlerExclusive' /\ AnswerStaged'
    BY <1>2
    DEF VInv, CallsInOrder, HandlerExclusive, AnswerStaged, Owner, SoleOwner, HeardOf, Current,
        KinOnly, Kin
  <1>6. NamesDrawn'
    BY <1>2, <1>3, <1>4 DEF VInv, NamesDrawn
  <1>7. UpgradeFits'
    BY <1>2, <1>4 DEF VInv, UpgradeFits
  <1>8. Deliveries'
    BY <1>2, <1>4 DEF VInv, Deliveries, Heeded, Kin, HeardOf
  <1>9. NoVerdictYet'
    BY <1>2, <1>4 DEF VInv, NoVerdictYet, SoleOwner, NotUpgraded
  <1>10. VerdictKept'
    BY <1>2, <1>4 DEF VInv, VerdictKept, SoleOwner, NotUpgraded, Definitive
  <1> QED BY <1>1, <1>5, <1>6, <1>7, <1>8, <1>9, <1>10, LivesKeep DEF VInv

\* A packet that no handler waits for: it is in the queue and was heard.
LEMMA HearWithoutHandlerKeeps ==
  ASSUME VInv, NEW c \in Sends, NEW kind \in Kinds, HearWithoutHandler(c, kind)
  PROVE  VInv'
  <1> DEFINE pk == [pkt |-> pkt[c], cause |-> c, kind |-> kind]
  <1>1. IInv'
    BY HearWithoutHandlerStep DEF VInv
  <1>2. /\ UNCHANGED <<lifeVars, callVars, fut, storeVars, stageVars, ackLock, handlers, upgrade,
                       unseen>>
        /\ heard' = heard \cup {pk} /\ inbox' \subseteq inbox \cup {pk}
        /\ pkt[c] # None /\ c \notin handlers
    BY DEF HearWithoutHandler, Report, Queued
  <1>3. pk.pkt = pkt[c] /\ pk.cause = c
    OBVIOUS
  <1> HIDE DEF pk
  <1>4. \A s \in Sends : /\ HeardOf(s) => HeardOf(s)'
                         /\ HeardOf(s)' => HeardOf(s) \/ s = c
    BY <1>2, <1>3 DEF HeardOf
  <1>5. CallsInOrder' /\ KeysDrawn' /\ LivesFit' /\ UpgradeFits' /\ PoisonShared' /\ WaitersOwn'
    BY <1>2 DEF VInv, CallsInOrder, KeysDrawn, Has, LivesFit, UpgradeFits, PoisonShared, WaitersOwn,
                ActiveWaiter, Current
  <1>6. NamesDrawn'
    BY <1>2, <1>3 DEF VInv, NamesDrawn
  <1>7. HandlerExclusive' /\ StagedOwn' /\ NoVerdictYet' /\ VerdictKept'
    BY <1>2 DEF VInv, HandlerExclusive, StagedOwn, NoVerdictYet, VerdictKept, Owner, Current,
                SoleOwner, NotUpgraded, KinOnly, Kin
  <1>8. RecordHeeded' /\ Deliveries' /\ OneAnswer'
    <2>1. upgrade # None => upgrade.tok \in Sends
      BY DEF VInv, NamesDrawn
    <2>2. \A s \in Sends : Heeded(s) => Heeded(s)'
      BY <1>2, HeededStays
    <2> QED BY <1>2, <1>4, <2>1, <2>2 DEF VInv, RecordHeeded, Deliveries, OneAnswer, Owner, SoleOwner
  <1>9. DeliveredMeansHeard'
    BY <1>2 DEF VInv, DeliveredMeansHeard, PoisonedNeverDelivers, Heeded, Kin
  <1>10. AnswerStaged'
    <2> SUFFICES ASSUME NEW s \in Sends, SoleOwner(s), Current(s), HeardOf(s)',
                        \A h \in heard' : h.cause = s => Verdict(h, s \in DMs) \in Definitive
                 PROVE  /\ pc[s] \in {"onair", "fresh", "tracking", "tracked"} => early[s] # None
                        /\ pc[s] = "waiting" => fut[s] # NoRec
      BY <1>2 DEF AnswerStaged, Current, SoleOwner
    <2>1. HeardOf(s)
      BY <1>2, <1>4 DEF VInv, OneAnswer
    <2> QED BY <2>1, <1>2 DEF VInv, AnswerStaged
  <1> QED BY <1>1, <1>5, <1>6, <1>7, <1>8, <1>9, <1>10 DEF VInv

-----------------------------------------------------------------------------
(* A response reaches the tracker: from the handler of send tok, from what *)
(* was staged for it, or as the upgrade of its record.                     *)

\* What the three ways have in common.
Answered(pk, tok, dm) ==
  /\ pkt[tok] = pk.pkt /\ pkt[pk.cause] = pk.pkt
  /\ ackLock = None
  /\ UNCHANGED <<lifeVars, wait, sendLid, pkt, inflight, unseen>>
  /\ heard \subseteq heard' /\ heard' \subseteq heard \cup {pk} /\ pk \in heard'
  /\ inbox' \subseteq inbox \cup {pk}
  /\ handlers' \subseteq handlers /\ handlers \subseteq handlers' \cup {tok}
  /\ upgrade' \in {upgrade, None}
  /\ \A s \in Sends : stash'[s] \in {stash[s], None}
  /\ \A s \in Sends :
       \/ pc'[s] = pc[s] /\ result'[s] = result[s]
       \/ /\ s = tok /\ pc[s] = "early" /\ stash'[s] = None
          /\ \/ pc'[s] = "waiting" /\ wait[s]
             \/ pc'[s] = "done" /\ result'[s].status \notin {"ack", "implicit_ack"}
  /\ \/ Dropped(pk, tok, sendLid[tok])
     \/ Staged(pk, tok, sendLid[tok])
     \/ Recorded(pk, tok, sendLid[tok], dm)

\* A current owner of the id was answered, or its kin; and for a send that shares its
\* id with nobody this is the one answer its handler brings.
Entitled(pk, tok, dm) ==
  /\ Owner(tok) /\ Current(tok) => Heeded(tok)' /\ (tok \in inflight => pk.cause \in Kin(tok))
  /\ tok \in inflight => tok \notin handlers'
  /\ SoleOwner(tok) =>
       /\ tok \notin handlers' /\ stash'[tok] = None
       /\ HeardOf(tok)'
       /\ tok \in inflight => tok \in handlers
       /\ NotUpgraded(tok)'
       /\ fut[tok].status \in Definitive
            => pc[tok] \notin {"tracked", "early", "waiting", "expired"}
       /\ dm = (tok \in DMs) \/ (pc' = pc /\ HeardOf(tok))

\* What it leaves in the stores.
LEMMA AnswerMoves ==
  ASSUME VInv, NEW pk \in Packets, NEW tok \in Sends, NEW dm \in BOOLEAN, Answered(pk, tok, dm)
  PROVE  /\ \A p \in PktIds : /\ ackTok'[p] \in {ackTok[p], None}
                              /\ ackFut'[p] \in {ackFut[p], None}
                              /\ ackFut'[p] # None => ackTok'[p] = ackTok[p]
         /\ \A p \in PktIds \ {pk.pkt} :
              ackFut'[p] = ackFut[p] /\ pendAck'[p] \in {pendAck[p], NoRec}
         /\ KeysDrawn' /\ LivesFit' /\ PoisonShared' /\ PoisonedNeverDelivers'
  <1>1. pk.pkt \in PktIds
    BY DEF Packets
  <1>2. CASE UNCHANGED storeVars
    BY <1>2 DEF Answered, VInv, KeysDrawn, Has, LivesFit, PoisonShared, DeliveredMeansHeard,
                PoisonedNeverDelivers
  <1>3. CASE Recorded(pk, tok, sendLid[tok], dm)
    <2> DEFINE p == pk.pkt
    <2>1. PICK r : Committed(pk, r, dm)
      BY <1>3 DEF Recorded
    <2> DEFINE w == IF r.status \in Definitive THEN None ELSE ackFut[p]
    <2>2. /\ r \in Records /\ Updated(p, r, ackTok[p], recLid[p], w)
          /\ r = pendAck[p] \/ r.reason # "duplicate"
      BY <2>1 DEF Committed
    <2>3. /\ Live(sendLid[tok]) /\ tok \notin inflight /\ ackTok[p] \in {None, tok}
          /\ pkt[tok] = p
      BY <1>3, AckAssumption DEF Recorded, Disowned, Answered
    <2>4. Fits(p, pendAck[p], ackTok[p], recLid[p], ackFut[p])
      BY <1>1, <2>3, OwnFits
    <2> HIDE DEF p
    <2>5. Fits(p, r, ackTok[p], recLid[p], w)
      BY <2>2, <2>3, <2>4, AckAssumption DEF Fits, Live
    <2>6. KeysDrawn' /\ LivesFit' /\ PoisonShared' /\ PoisonedNeverDelivers'
      BY <1>1, <2>2, <2>5, UpdateFits DEF Answered, p
    <2>7. Kept(p, r, ackTok[p], recLid[p], w) /\ \A q \in PktIds \ {p} : Same(q)
      BY <2>2 DEF Updated
    <2> QED BY <1>1, <2>6, <2>7 DEF Kept, Same, p
  <1> QED BY <1>2, <1>3 DEF Answered, Dropped, Staged

\* Only tok's own future is settled, with the record as it is committed, ...
LEMMA AnswerSettles ==
  ASSUME VInv, NEW pk \in Packets, NEW tok \in Sends, NEW dm \in BOOLEAN, Answered(pk, tok, dm),
         NEW s \in Sends, fut'[s] # fut[s]
  PROVE  /\ s = tok /\ fut[s] = NoRec /\ Current(s) /\ s \notin inflight
         /\ ackTok[pkt[s]] = s /\ pkt[s] # None
         /\ pc[s] \in Tracked \cup {"done"}
         /\ fut'[s].status \in Definitive
         /\ ackFut'[pkt[s]] = None /\ pendAck'[pkt[s]] \in {fut'[s], NoRec}
  <1> DEFINE p == pk.pkt
             w == ackFut[p]
  <1>1. p \in PktIds /\ pkt[tok] = p
    BY DEF Packets, Answered
  <1>2. Recorded(pk, tok, sendLid[tok], dm)
    BY DEF Answered, Dropped, Staged
  <1>3. PICK r : Committed(pk, r, dm)
    BY <1>2 DEF Recorded
  <1>4. /\ r.status \in Definitive /\ w # None /\ fut[w] = NoRec
        /\ fut' = [fut EXCEPT ![w] = r]
        /\ Kept(p, r, ackTok[p], recLid[p], None)
    BY <1>3 DEF Committed, Updated
  <1>5. s = w /\ fut'[s] = r
    BY <1>4 DEF VInv, IInv, TypeOK
  <1>6. ackTok[p] = s
    BY <1>1, <1>4, <1>5 DEF VInv, WaitersOwn, ActiveWaiter
  <1>7. s = tok /\ Current(s) /\ s \notin inflight
    BY <1>2, <1>6, AckAssumption DEF Recorded, Disowned, Live, Current
  <1>8. pc[s] \in Tracked \cup {"done"}
    BY <1>1, <1>6, AckAssumption DEF Answered, VInv, IInv, LockHolder, TokensOfTracked
  <1>9. ackFut'[p] = None /\ pendAck'[p] \in {r, NoRec}
    BY <1>4 DEF Kept
  <1> QED BY <1>1, <1>4, <1>5, <1>6, <1>7, <1>8, <1>9, AckAssumption

\* ... and what is staged is staged for tok.
LEMMA AnswerStages ==
  ASSUME VInv, NEW pk \in Packets, NEW tok \in Sends, NEW dm \in BOOLEAN, Answered(pk, tok, dm),
         NEW s \in Sends, early'[s] # early[s]
  PROVE  s = tok /\ early'[s] = pk /\ tok \in inflight /\ Current(tok) /\ UNCHANGED <<fut, storeVars>>
  BY DEF Answered, Dropped, Staged, Recorded, Live, Current, VInv, IInv, TypeOK

LEMMA AnswerKeeps ==
  ASSUME VInv, IInv', NEW pk \in Packets, NEW tok \in Sends, NEW dm \in BOOLEAN,
         Answered(pk, tok, dm), Entitled(pk, tok, dm)
  PROVE  VInv'
  <1>1. /\ pkt[tok] = pk.pkt /\ pkt[pk.cause] = pk.pkt
        /\ UNCHANGED <<lifeVars, wait, sendLid, pkt, inflight, unseen>>
        /\ heard \subseteq heard' /\ heard' \subseteq heard \cup {pk} /\ pk \in heard'
        /\ inbox' \subseteq inbox \cup {pk}
        /\ handlers' \subseteq handlers /\ handlers \subseteq handlers' \cup {tok}
        /\ upgrade' \in {upgrade, None}
        /\ \A s \in Sends : stash'[s] \in {stash[s], None}
    BY DEF Answered
  <1>2. \A s \in Sends :
          \/ pc'[s] = pc[s] /\ result'[s] = result[s]
          \/ /\ s = tok /\ pc[s] = "early" /\ stash'[s] = None
             /\ \/ pc'[s] = "waiting" /\ wait[s]
                \/ pc'[s] = "done" /\ result'[s].status \notin {"ack", "implicit_ack"}
    BY DEF Answered
  <1>3. pk.pkt \in PktIds /\ pk.cause \in Sends /\ pk # None
    BY NoneIsNoPacket DEF Packets
  <1>4. \A s \in Sends : early'[s] = early[s] \/ (s = tok /\ early'[s] = pk /\ tok \in inflight)
    BY AnswerStages
  <1>5. \A s \in Sends : HeardOf(s) => HeardOf(s)'
    BY <1>1 DEF HeardOf
  <1>6. \A s \in Sends : SoleOwner(s)' = SoleOwner(s) /\ Current(s)' = Current(s)
    BY <1>1 DEF SoleOwner, Current
  <1>7. \A s \in Sends : Owner(s)' => Owner(s)
    BY <1>1, AnswerMoves, AckAssumption DEF Owner, VInv, IInv, TypeOK
  <1>8. \A s \in Sends : pkt[s] # None => pkt[s] \in PktIds
    BY DEF VInv, IInv, TypeOK
  <1>9. CallsInOrder'
    <2> SUFFICES ASSUME NEW s \in Sends
                 PROVE  /\ pkt[s] # None => pc'[s] \notin {"idle", "begun", "armed"}
                        /\ fut'[s] # NoRec => pc'[s] \in Tracked \cup {"done"}
                        /\ s \in inflight => pc'[s] \in {"armed", "onair", "fresh", "tracking", "tracked"}
                        /\ pc'[s] \in {"tracking", "tracked"} /\ Current(s) => s \in inflight
                        /\ early'[s] # None => s \in inflight
                        /\ stash'[s] # None => pc'[s] = "early"
      BY <1>1, <1>6 DEF CallsInOrder
    <2>1. fut'[s] # NoRec => pc[s] \in Tracked \cup {"done"}
      BY AnswerSettles DEF VInv, CallsInOrder
    <2>2. pc'[s] = pc[s] \/ (pc[s] = "early" /\ pc'[s] \in {"waiting", "done"} /\ stash'[s] = None)
      BY <1>2
    <2> QED BY <1>1, <1>4, <2>1, <2>2 DEF VInv, CallsInOrder, Tracked
  <1>10. NamesDrawn'
    BY <1>1, <1>3, <1>4 DEF VInv, NamesDrawn
  <1>11. UpgradeFits'
    BY <1>1 DEF VInv, UpgradeFits
  <1>12. WaitersOwn'
    <2>1. ASSUME NEW p \in PktIds, ActiveWaiter(p)'
          PROVE  ackTok'[p] = ackFut'[p]
      <3>1. ackFut'[p] = ackFut[p] /\ ackTok'[p] = ackTok[p] /\ ackFut[p] # None
        BY <2>1, AnswerMoves DEF ActiveWaiter
      <3>2. fut[ackFut[p]] = NoRec
        BY <2>1, <3>1, AnswerSettles DEF ActiveWaiter, VInv, IInv, TypeOK
      <3> QED BY <3>1, <3>2 DEF VInv, WaitersOwn, ActiveWaiter
    <2>2. \A s \in Sends : pc'[s] # "tracking"
      BY <1>2, AckAssumption DEF Answered, VInv, IInv, LockHolder
    <2>3. \A s \in Sends : /\ fut'[s].status # "implicit_ack"
                           /\ fut'[s].status = "absent" => fut'[s] = NoRec
      BY AnswerSettles DEF VInv, WaitersOwn, Definitive
    <2> QED BY <2>1, <2>2, <2>3 DEF WaitersOwn
  <1>13. HandlerExclusive'
    BY <1>1, <1>6, <1>7 DEF VInv, HandlerExclusive, KinOnly, Kin
  <1>14. StagedOwn'
    <2> SUFFICES ASSUME NEW s \in Sends, Owner(s)', NEW q \in {early'[s], stash'[s]} \ {None}
                 PROVE  q.cause \in Kin(s)
      BY <1>1 DEF StagedOwn, Kin
    <2>1. Owner(s)
      BY <1>7
    <2>2. CASE q \in {early[s], stash[s]}
      BY <2>1, <2>2 DEF VInv, StagedOwn
    <2>3. CASE q \notin {early[s], stash[s]}
      BY <2>1, <2>3, <1>1, AnswerStages DEF Entitled
    <2> QED BY <2>2, <2>3
  <1>15. Deliveries'
    <2>1. ASSUME NEW s \in Sends, wait[s], fut'[s].status = "ack"
          PROVE  Heeded(s)'
      <3>1. CASE fut'[s] = fut[s]
        BY <2>1, <3>1, <1>1, HeededStays DEF VInv, Deliveries
      <3>2. CASE fut'[s] # fut[s]
        BY <2>1, <3>2, <1>1, AnswerSettles DEF Entitled, Owner
      <3> QED BY <3>1, <3>2
    <2>2. upgrade' # None /\ wait[upgrade'.tok]
            => \E q \in heard' : q.cause \in {upgrade'.tok} \cup unseen'[upgrade'.tok]
      BY <1>1 DEF VInv, Deliveries, Heeded, Kin
    <2> QED BY <1>1, <2>1, <2>2 DEF Deliveries, Heeded, Kin
  <1>16. OneAnswer'
    BY <1>1, <1>4, <1>5, <1>6 DEF VInv, OneAnswer, Entitled
  <1>17. DeliveredMeansHeard'
    <2> SUFFICES ASSUME NEW s \in Sends, pc'[s] \in {"stamped", "done"}, wait[s],
                        result'[s].status \in {"ack", "implicit_ack"},
                        fut'[s].status \in {"absent", "ack", "implicit_ack"}
                 PROVE  Heeded(s)'
      BY <1>1, AnswerMoves DEF DeliveredMeansHeard, Heeded, Kin, HeardOf
    <2>1. pc'[s] = pc[s] /\ result'[s] = result[s]
      BY <1>2
    <2>2. fut[s].status \in {"absent", "ack", "implicit_ack"}
      BY AnswerSettles, NoRecord
    <2>3. Heeded(s)
      BY <2>1, <2>2 DEF VInv, DeliveredMeansHeard, Heeded, Kin, HeardOf
    <2> QED BY <2>3, <1>1, HeededStays
  <1>18. RecordHeeded'
    <2> SUFFICES ASSUME NEW s \in Sends, Owner(s)', pendAck'[pkt[s]].status \in {"ack", "implicit_ack"}
                 PROVE  Heeded(s)'
      BY <1>1 DEF RecordHeeded
    <2>1. Owner(s) /\ pkt[s] \in PktIds
      BY <1>7, <1>8 DEF Owner
    <2>2. CASE pendAck[pkt[s]].status \in {"ack", "implicit_ack"}
      BY <2>1, <2>2, <1>1, HeededStays DEF VInv, RecordHeeded
    <2>3. CASE pendAck[pkt[s]].status \notin {"ack", "implicit_ack"}
      <3>1. pendAck'[pkt[s]] \notin {pendAck[pkt[s]], NoRec}
        BY <2>3, NoRecord
      <3>2. pkt[s] = pk.pkt
        BY <3>1, <2>1, AnswerMoves
      <3>3. Recorded(pk, tok, sendLid[tok], dm)
        BY <3>1 DEF Answered, Dropped, Staged
      <3>4. s = tok /\ Current(tok)
        BY <2>1, <3>2, <3>3, AckAssumption DEF Recorded, Disowned, Live, Current, Owner
      <3> QED BY <2>1, <3>4 DEF Entitled
    <2> QED BY <2>2, <2>3
  <1>19. NoVerdictYet'
    <2> SUFFICES ASSUME NEW s \in Sends, SoleOwner(s),
                        s \in handlers' \/ early'[s] # None \/ stash'[s] # None
                 PROVE  /\ fut'[s].status \notin Definitive
                        /\ pendAck'[pkt[s]].status \notin {"ack", "nak", "implicit_ack"}
                        /\ NotUpgraded(s)'
      BY <1>1, <1>6 DEF NoVerdictYet
    <2>1. s \in handlers \/ early[s] # None \/ stash[s] # None
      BY <1>1, <1>4 DEF Entitled
    <2>2. /\ fut[s].status \notin Definitive
          /\ pendAck[pkt[s]].status \notin {"ack", "nak", "implicit_ack"}
          /\ NotUpgraded(s)
      BY <2>1 DEF VInv, NoVerdictYet
    <2>3. NotUpgraded(s)'
      BY <2>2, <1>1 DEF NotUpgraded
    <2>4. CASE s = tok
      <3>1. early'[s] # None
        BY <2>4 DEF Entitled
      <3>2. UNCHANGED <<fut, storeVars>>
        <4>1. s \in inflight
          BY <3>1, <1>4 DEF VInv, CallsInOrder
        <4> QED BY <2>4, <4>1 DEF Answered, Dropped, Staged, Recorded
      <3> QED BY <2>2, <2>3, <3>2
    <2>5. CASE s # tok
      <3>1. fut'[s] = fut[s]
        BY <2>5, AnswerSettles
      <3>2. pkt[s] \in PktIds /\ pkt[s] # pk.pkt
        BY <2>5, <1>1, <1>8 DEF SoleOwner
      <3> QED BY <2>2, <2>3, <3>1, <3>2, AnswerMoves, NoRecord
    <2> QED BY <2>4, <2>5
  <1>20. VerdictKept'
    <2> SUFFICES ASSUME NEW s \in Sends, SoleOwner(s), fut'[s].status \in Definitive,
                        pc'[s] \in {"tracked", "early", "waiting", "expired"}
                 PROVE  /\ NotUpgraded(s)'
                        /\ ackFut'[pkt[s]] = None
                        /\ pendAck'[pkt[s]].status \in {"absent", fut'[s].status}
      BY <1>1, <1>6 DEF VerdictKept
    <2>1. pc[s] \in {"tracked", "early", "waiting", "expired"} /\ pkt[s] \in PktIds
      BY <1>2, <1>8 DEF SoleOwner
    <2>2. CASE fut'[s] = fut[s]
      <3>1. /\ NotUpgraded(s) /\ ackFut[pkt[s]] = None
            /\ pendAck[pkt[s]].status \in {"absent", fut[s].status}
        BY <2>1, <2>2 DEF VInv, VerdictKept
      <3>2. s # tok
        BY <2>1, <2>2 DEF Entitled
      <3>3. pkt[s] # pk.pkt
        BY <3>2, <1>1 DEF SoleOwner
      <3> QED BY <2>1, <2>2, <3>1, <3>3, <1>1, AnswerMoves, NoRecord DEF NotUpgraded
    <2>3. CASE fut'[s] # fut[s]
      <3>1. s = tok /\ ackFut'[pkt[s]] = None /\ pendAck'[pkt[s]] \in {fut'[s], NoRec}
        BY <2>3, AnswerSettles
      <3> QED BY <3>1, NoRecord DEF Entitled
    <2> QED BY <2>2, <2>3
  <1>21. AnswerStaged'
    <2> SUFFICES ASSUME NEW s \in Sends, SoleOwner(s), Current(s), HeardOf(s)',
                        \A h \in heard' : h.cause = s => Verdict(h, s \in DMs) \in Definitive
                 PROVE  /\ pc'[s] \in {"onair", "fresh", "tracking", "tracked"} => early'[s] # None
                        /\ pc'[s] = "waiting" => fut'[s] # NoRec
      BY <1>1, <1>6 DEF AnswerStaged
    <2>0. HeardOf(s) =>
            /\ pc[s] \in {"onair", "fresh", "tracking", "tracked"} => early[s] # None
            /\ pc[s] = "waiting" => fut[s] # NoRec
      BY <1>1 DEF VInv, AnswerStaged
    <2>1. fut[s] # NoRec => fut'[s] # NoRec
      BY AnswerSettles
    <2>2. CASE s # tok
      <3>1. pc'[s] = pc[s] /\ early'[s] = early[s]
        BY <2>2, <1>2, <1>4
      <3>2. pk.cause # s
        BY <2>2, <1>1 DEF SoleOwner
      <3>3. HeardOf(s)
        BY <3>2, <1>1 DEF HeardOf
      <3> QED BY <2>0, <2>1, <3>1, <3>3
    <2>3. CASE s = tok /\ pc'[s] \in {"onair", "fresh", "tracking", "tracked"}
      <3>1. pc[s] = pc'[s]
        BY <2>3, <1>2
      <3>2. s \in inflight
        BY <2>3, <3>1 DEF Current, VInv, IInv, StagedUntilTracked, CallsInOrder
      <3>3. early'[s] = pk
        BY <2>3, <3>2 DEF Answered, Dropped, Staged, Recorded, Current, Live, VInv, IInv, TypeOK
      <3> QED BY <2>3, <3>3, <1>3
    <2>4. CASE s = tok /\ pc'[s] = "waiting" /\ fut[s] = NoRec
      <3>1. pc[s] \in {"early", "waiting"} /\ wait[s] /\ pkt[s] \in PktIds
        BY <2>4, <1>2, <1>8 DEF SoleOwner, VInv, IInv, WaitersAsked
      <3>2. pkt[s] # None /\ ackFut[pkt[s]] = s
        BY <2>4, <3>1 DEF SoleOwner, VInv, IInv, WaiterNeverOrphaned, Tracked
      <3>3. s \notin inflight
        BY <3>1 DEF VInv, CallsInOrder
      <3>4. ~Disowned(pk, tok)
        <4>1. ackTok[pk.pkt] # Poison
          BY <2>4, <1>1, <1>3 DEF SoleOwner, VInv, PoisonShared
        <4>2. ackTok[pk.pkt] \in Sends => ackTok[pk.pkt] = tok
          BY <2>4, <1>1, <1>3 DEF SoleOwner, VInv, KeysDrawn
        <4> QED BY <4>1, <4>2, <1>3 DEF Disowned, VInv, IInv, TypeOK
      <3>5. Recorded(pk, tok, sendLid[tok], dm)
        BY <2>4, <3>3, <3>4 DEF Answered, Dropped, Staged, Current, Live
      <3>6. PICK r : Committed(pk, r, dm)
        BY <3>5 DEF Recorded
      <3>7. dm = (s \in DMs)
        BY <2>0, <2>4 DEF Entitled
      <3>8. Verdict(pk, dm) \in Definitive
        BY <2>4, <3>7, <1>1, <1>3 DEF SoleOwner
      <3>9. pendAck[pk.pkt].status \notin Definitive
        BY <2>4, <3>1, <3>2, <1>1, AckAssumption DEF VInv, IInv, OpenNotDefinitive, ActiveWaiter
      <3>10. Settles(pendAck[pk.pkt], Verdict(pk, dm))
        BY <3>8, <3>9 DEF Settles
      <3>11. r.status \in Definitive /\ fut' = [fut EXCEPT ![s] = r]
        BY <2>4, <3>2, <3>6, <3>8, <3>10, <1>1, AckAssumption DEF Committed
      <3>12. fut'[s].status \in Definitive
        BY <3>11 DEF VInv, IInv, TypeOK
      <3> QED BY <2>4, <3>12, NoRecord DEF Definitive
    <2> QED BY <2>1, <2>2, <2>3, <2>4
  <1> QED
    BY <1>9, <1>10, <1>11, <1>12, <1>13, <1>14, <1>15, <1>16, <1>17, <1>18, <1>19, <1>20, <1>21,
       AnswerMoves
    DEF VInv

\* The handler of send h, on the reader thread.
LEMMA HearWithHandlerKeeps ==
  ASSUME VInv, NEW c \in Sends, NEW kind \in Kinds, HearWithHandler(c, kind)
  PROVE  VInv'
  <1> DEFINE pk == [pkt |-> pkt[c], cause |-> c, kind |-> kind]
  <1>1. IInv'
    BY HearWithHandlerStep DEF VInv
  <1>2. PICK h \in handlers : /\ pkt[h] = pkt[c] /\ handlers' = handlers \ {h}
                              /\ RecordResponse(pk, h, sendLid[h], h \in DMs)
    BY DEF HearWithHandler
  <1>3. /\ UNCHANGED <<lifeVars, callVars, ackLock, upgrade, unseen>>
        /\ heard' = heard \cup {pk} /\ inbox' \subseteq inbox \cup {pk} /\ pkt[c] # None
    BY DEF HearWithHandler, Report, Queued
  <1>4. /\ h \in Sends /\ (h \in DMs) \in BOOLEAN
        /\ pk \in Packets /\ pk.pkt = pkt[c] /\ pk.cause = c
    BY <1>3 DEF VInv, IInv, TypeOK, Packets
  <1> HIDE DEF pk
  <1>5. /\ ackLock = None /\ inflight' = inflight
        /\ \/ Dropped(pk, h, sendLid[h]) \/ Staged(pk, h, sendLid[h])
           \/ Recorded(pk, h, sendLid[h], h \in DMs)
    BY <1>2, <1>4, ResponseMoves DEF VInv
  <1>6. Answered(pk, h, h \in DMs)
    BY <1>2, <1>3, <1>4, <1>5 DEF Answered
  <1>7. SoleOwner(h) => c = h
    BY <1>2 DEF SoleOwner
  <1>8. c = h => HeardOf(h)'
    BY <1>3, <1>4 DEF HeardOf
  <1>9. Owner(h) /\ Current(h) => c \in Kin(h) /\ Heeded(h)'
    <2>1. Owner(h) /\ Current(h) => c \in Kin(h)
      BY <1>2, <1>4 DEF VInv, HandlerExclusive, KinOnly
    <2> QED BY <2>1, <1>3, <1>4 DEF Heeded, Kin
  <1>10. SoleOwner(h) => NotUpgraded(h) /\ fut[h].status \notin Definitive /\ stash[h] = None
    BY <1>2, <1>4 DEF VInv, NoVerdictYet, OneAnswer
  <1>11. Entitled(pk, h, h \in DMs)
    BY <1>2, <1>3, <1>4, <1>7, <1>8, <1>9, <1>10 DEF Entitled, NotUpgraded
  <1> QED BY <1>1, <1>4, <1>6, <1>11, AnswerKeeps

\* What was staged before the send was tracked.
LEMMA RecordEarlyAckKeeps ==
  ASSUME VInv, NEW s \in Sends, RecordEarlyAck(s)
  PROVE  VInv'
  <1>1. IInv'
    BY RecordEarlyAckStep DEF VInv
  <1>2. /\ pc[s] = "early" /\ RecordResponse(stash[s], s, sendLid[s], s \in DMs)
        /\ stash' = [stash EXCEPT ![s] = None] /\ Proceed(s)
        /\ UNCHANGED <<lifeVars, wait, sendLid, pkt, ackLock, radioVars, unseen>>
    BY DEF RecordEarlyAck
  <1>3. PICK pk \in Packets : pk = stash[s]
    BY <1>2 DEF VInv, IInv, TypeOK, StashedEarly
  <1>4. /\ pk \in heard /\ pk.pkt = pkt[s] /\ pk.cause \in Sends /\ pk # None
        /\ pkt[pk.cause] = pkt[s] /\ pkt[s] # None /\ (s \in DMs) \in BOOLEAN
    BY <1>2, <1>3, AckAssumption, NoneIsNoPacket DEF VInv, NamesDrawn, Packets
  <1>5. s \notin inflight
    BY <1>2 DEF VInv, CallsInOrder
  <1>6. stash'[s] = None /\ \A t \in Sends : stash'[t] \in {stash[t], None}
    BY <1>2 DEF VInv, IInv, TypeOK
  <1>7. /\ \A t \in Sends \ {s} : pc'[t] = pc[t] /\ result'[t] = result[t]
        /\ \/ pc'[s] = "waiting" /\ wait[s]
           \/ pc'[s] = "done" /\ result'[s].status \notin {"ack", "implicit_ack"}
    BY <1>2, ResultsPlain DEF Proceed, VInv, IInv, TypeOK
  <1>8. /\ ackLock = None /\ inflight' = inflight
        /\ \/ Dropped(pk, s, sendLid[s]) \/ Staged(pk, s, sendLid[s])
           \/ Recorded(pk, s, sendLid[s], s \in DMs)
    BY <1>2, <1>3, <1>4, ResponseMoves DEF VInv
  <1>9. Answered(pk, s, s \in DMs)
    BY <1>2, <1>4, <1>6, <1>7, <1>8 DEF Answered
  <1>10. /\ SoleOwner(s) => pk.cause = s
         /\ Owner(s) => Heeded(s)'
    <2>1. Owner(s) => pk.cause \in Kin(s)
      BY <1>3, <1>4 DEF VInv, StagedOwn
    <2> QED BY <2>1, <1>2, <1>4 DEF SoleOwner, Heeded, Kin
  <1>11. pk.cause = s => HeardOf(s)'
    BY <1>2, <1>4 DEF HeardOf
  <1>12. SoleOwner(s) => /\ NotUpgraded(s) /\ fut[s].status \notin Definitive
                         /\ s \notin handlers
    BY <1>3, <1>4 DEF VInv, NoVerdictYet, OneAnswer
  <1>13. Entitled(pk, s, s \in DMs)
    BY <1>2, <1>5, <1>6, <1>10, <1>11, <1>12 DEF Entitled, NotUpgraded
  <1> QED BY <1>1, <1>4, <1>9, <1>13, AnswerKeeps

\* The pubsub path: a direct ACK upgrades an implicit record.
LEMMA PubsubRecordKeeps ==
  ASSUME VInv, PubsubRecord
  PROVE  VInv'
  <1>1. IInv'
    BY PubsubRecordStep DEF VInv
  <1>2. /\ upgrade # None /\ RecordResponse(upgrade.pk, upgrade.tok, upgrade.life, TRUE)
        /\ upgrade' = None
        /\ UNCHANGED <<lifeVars, callVars, ackLock, handlers, heard, inbox, unseen>>
    BY DEF PubsubRecord
  <1>3. PICK pk \in Packets, tok \in Sends : pk = upgrade.pk /\ tok = upgrade.tok
    BY <1>2 DEF VInv, IInv, TypeOK, NamesDrawn
  <1>4. /\ pk \in heard /\ pk.cause \in Sends
        /\ pkt[tok] = pk.pkt /\ pkt[pk.cause] = pk.pkt /\ pkt[tok] # None
        /\ upgrade.life = sendLid[tok] /\ tok \notin inflight
    BY <1>2, <1>3, AckAssumption DEF VInv, NamesDrawn, UpgradeFits, Packets
  <1>5. /\ wait[tok] => Heeded(tok)
        /\ ~NotUpgraded(tok)
    BY <1>2, <1>3 DEF VInv, Deliveries, NotUpgraded
  <1>6. /\ ackLock = None /\ inflight' = inflight
        /\ \/ Dropped(pk, tok, sendLid[tok]) \/ Staged(pk, tok, sendLid[tok])
           \/ Recorded(pk, tok, sendLid[tok], TRUE)
    BY <1>2, <1>3, <1>4, ResponseMoves DEF VInv
  <1>7. Answered(pk, tok, TRUE)
    BY <1>2, <1>4, <1>6 DEF Answered
  <1>8. SoleOwner(tok) =>
          /\ tok \notin handlers /\ stash[tok] = None /\ HeardOf(tok)
          /\ fut[tok].status \in Definitive
               => pc[tok] \notin {"tracked", "early", "waiting", "expired"}
    BY <1>5 DEF VInv, NoVerdictYet, OneAnswer, VerdictKept
  <1>9. HeardOf(tok)' = HeardOf(tok)
    BY <1>2 DEF HeardOf
  <1>10. Owner(tok) => Heeded(tok)'
    BY <1>2, <1>5, HeededStays DEF Owner
  <1>11. Entitled(pk, tok, TRUE)
    BY <1>2, <1>4, <1>8, <1>9, <1>10 DEF Entitled, NotUpgraded
  <1> QED BY <1>1, <1>7, <1>11, AnswerKeeps

-----------------------------------------------------------------------------
(* A call is tracked, registered, stamped or gives up its waiter: what such *)
(* a step of send s does to its id and to the futures of those that drew it. *)

Moves(s, r, tok, life, waiter) ==
  /\ pkt[s] \in PktIds
  /\ Updated(pkt[s], r, tok, life, waiter) /\ Fits(pkt[s], r, tok, life, waiter)
  /\ UNCHANGED <<lifeVars, wait, sendLid, pkt, stash, stageVars, radioVars>>
  /\ \A t \in Sends : unseen[t] \subseteq unseen'[t]
  /\ ackLock \in {None, s}
  /\ \A t \in Sends \ {s} : pc'[t] = pc[t] /\ result'[t] = result[t]
  /\ \/ pc[s] \in {"fresh", "tracking"} /\ pc'[s] \in {"tracking", "tracked"}
     \/ pc[s] \in {"waiting", "expired", "stamped"} /\ pc'[s] \in {"stamped", "done"}
  /\ pc'[s] = "tracking" => ackTok'[pkt[s]] = s
  /\ pc'[s] \in {"stamped", "done"} /\ result'[s].status \in {"ack", "implicit_ack"}
       /\ fut[s].status \in {"absent", "ack", "implicit_ack"} => Heeded(s)
  \* An open future settles without a delivery, with a verdict only on a shared id.
  /\ \A t \in Sends :
       \/ fut'[t] = fut[t]
       \/ /\ pkt[t] = pkt[s] /\ fut[t] = NoRec /\ pc'[t] \in Tracked \cup {"done"}
          /\ fut'[t].status \in {"nak", "pending", "timeout"}
          /\ fut'[t].status = "nak" => SharedId(pkt[s])
  \* The id's record, owner and waiter: none of them is a stranger.
  /\ r.status \in {"ack", "implicit_ack"} => r = pendAck[pkt[s]] /\ tok = ackTok[pkt[s]]
  /\ r.status = "nak" => r = pendAck[pkt[s]] \/ SharedId(pkt[s])
  /\ tok \in Sends /\ wait[tok] => Owner(tok) \/ KinOnly(tok)'
  /\ waiter # None /\ fut'[waiter] = NoRec => tok = waiter

LEMMA MoveKeeps ==
  ASSUME VInv, IInv', NEW s \in Sends, NEW r, NEW tok, NEW life, NEW waiter,
         Moves(s, r, tok, life, waiter)
  PROVE  VInv'
  <1> DEFINE p == pkt[s]
  <1>1. /\ p \in PktIds
        /\ UNCHANGED <<lifeVars, wait, sendLid, pkt, stash, stageVars, radioVars>>
        /\ \A t \in Sends : unseen[t] \subseteq unseen'[t]
        /\ \A t \in Sends \ {s} : pc'[t] = pc[t] /\ result'[t] = result[t]
        /\ \/ pc[s] \in {"fresh", "tracking"} /\ pc'[s] \in {"tracking", "tracked"}
           \/ pc[s] \in {"waiting", "expired", "stamped"} /\ pc'[s] \in {"stamped", "done"}
    BY DEF Moves
  <1>2. /\ Updated(p, r, tok, life, waiter) /\ Fits(p, r, tok, life, waiter)
        /\ Kept(p, r, tok, life, waiter) /\ \A q \in PktIds \ {p} : Same(q)
    BY DEF Moves, Updated
  <1>3. \A t \in Sends :
          \/ fut'[t] = fut[t]
          \/ /\ pkt[t] = p /\ fut[t] = NoRec /\ pc'[t] \in Tracked \cup {"done"}
             /\ fut'[t].status \in {"nak", "pending", "timeout"}
             /\ fut'[t].status = "nak" => SharedId(p)
    BY DEF Moves
  <1> HIDE DEF p
  <1>4. pc[s] \in {"fresh", "tracking"} => fut[s] = NoRec
    BY DEF VInv, CallsInOrder, Tracked
  <1>5. \A t \in Sends : /\ SoleOwner(t)' = SoleOwner(t) /\ Current(t)' = Current(t)
                         /\ HeardOf(t)' = HeardOf(t) /\ NotUpgraded(t)' = NotUpgraded(t)
    BY <1>1 DEF SoleOwner, Current, HeardOf, NotUpgraded
  <1>6. \A t \in Sends : SoleOwner(t) => pkt[t] \in PktIds /\ (pkt[t] = p => t = s /\ ~SharedId(p))
    BY DEF SoleOwner, SharedId, p, VInv, IInv, TypeOK
  <1>7. KeysDrawn' /\ LivesFit' /\ PoisonShared' /\ PoisonedNeverDelivers'
    BY <1>1, <1>2, UpdateFits
  <1>8. RecordHeeded'
    <2>1. ASSUME NEW t \in Sends, tok = t, wait[t], r.status \in {"ack", "implicit_ack"}
          PROVE  Heeded(t)'
      <3>1. r = pendAck[p] /\ tok = ackTok[p] /\ pkt[t] = p
        BY <2>1, <1>2 DEF Moves, Fits, p
      <3>2. Heeded(t)
        BY <2>1, <3>1, <1>1, AckAssumption DEF VInv, RecordHeeded, Owner
      <3> QED BY <3>2, <1>1, HeededStays
    <2> QED BY <2>1, <1>1, <1>2, UpdateHeeded
  <1>9. CallsInOrder'
    <2>1. \A t \in Sends : fut'[t] # NoRec => pc'[t] \in Tracked \cup {"done"}
      BY <1>1, <1>3, <1>4 DEF VInv, CallsInOrder, Tracked
    <2>2. \A t \in Sends : pc'[t] \in {"tracking", "tracked"} /\ Current(t) => t \in inflight
      BY <1>1 DEF VInv, IInv, CallsInOrder, StagedUntilTracked, Current
    <2>3. \A t \in Sends : t \in inflight
            => pc'[t] \in {"armed", "onair", "fresh", "tracking", "tracked"}
      BY <1>1 DEF VInv, CallsInOrder
    <2>4. \A t \in Sends : /\ pkt[t] # None => pc'[t] \notin {"idle", "begun", "armed"}
                           /\ stash[t] # None => pc'[t] = "early"
                           /\ early[t] # None => t \in inflight
      BY <1>1 DEF VInv, CallsInOrder
    <2> QED BY <1>1, <1>5, <2>1, <2>2, <2>3, <2>4 DEF CallsInOrder
  <1>10. NamesDrawn' /\ UpgradeFits'
    BY <1>1 DEF VInv, NamesDrawn, UpgradeFits
  <1>11. WaitersOwn'
    <2>1. ASSUME NEW q \in PktIds, ActiveWaiter(q)'
          PROVE  ackTok'[q] = ackFut'[q]
      <3>1. CASE q = p
        BY <2>1, <3>1, <1>2 DEF ActiveWaiter, Moves, Kept
      <3>2. CASE q # p
        <4>1. ackFut'[q] = ackFut[q] /\ ackFut[q] # None /\ ackTok'[q] = ackTok[q]
          BY <2>1, <3>2, <1>2 DEF ActiveWaiter, Same, Kept
        <4>2. fut[ackFut[q]] = NoRec
          BY <2>1, <4>1, <1>3 DEF ActiveWaiter, VInv, IInv, TypeOK
        <4> QED BY <4>1, <4>2 DEF VInv, WaitersOwn, ActiveWaiter
      <3> QED BY <3>1, <3>2
    <2>2. \A t \in Sends : pc'[t] = "tracking" => ackTok'[pkt[t]] = t
      BY <1>1, AckAssumption DEF Moves, VInv, IInv, LockHolder
    <2>3. \A t \in Sends : /\ fut'[t].status # "implicit_ack"
                           /\ fut'[t].status = "absent" => fut'[t] = NoRec
      BY <1>3 DEF VInv, WaitersOwn
    <2> QED BY <1>1, <2>1, <2>2, <2>3 DEF WaitersOwn
  <1>12. \A t \in Sends : Owner(t)' => Owner(t) \/ KinOnly(t)'
    <2> SUFFICES ASSUME NEW t \in Sends, Owner(t)' PROVE Owner(t) \/ KinOnly(t)'
      OBVIOUS
    <2>1. pkt[t] \in PktIds /\ pkt[t] # None /\ ackTok'[pkt[t]] = t /\ wait[t]
      BY <1>1 DEF Owner, VInv, IInv, TypeOK
    <2>2. CASE pkt[t] = p
      BY <2>1, <2>2, <1>2, AckAssumption DEF Kept, Moves
    <2>3. CASE pkt[t] # p
      BY <2>1, <2>3, <1>1, <1>2, AckAssumption DEF Same, Kept, Owner
    <2> QED BY <2>2, <2>3
  <1>13. HandlerExclusive'
    <2>1. \A t \in Sends : KinOnly(t) => KinOnly(t)'
      BY <1>1 DEF KinOnly, Kin
    <2> QED BY <2>1, <1>1, <1>5, <1>12 DEF VInv, HandlerExclusive
  <1>14. StagedOwn'
    <2> SUFFICES ASSUME NEW t \in Sends, Owner(t)', NEW q \in {early[t], stash[t]} \ {None}
                 PROVE  q.cause \in Kin(t)'
      BY <1>1 DEF StagedOwn
    <2>1. CASE Owner(t)
      BY <2>1, <1>1 DEF VInv, StagedOwn, Kin
    <2>2. CASE KinOnly(t)'
      <3>1. q.pkt = pkt[t] /\ pkt[q.cause] = q.pkt /\ q.cause \in Sends
        BY DEF VInv, IInv, TypeOK, NamesDrawn, Packets
      <3> QED BY <2>2, <3>1, <1>1 DEF KinOnly
    <2> QED BY <2>1, <2>2, <1>12
  <1>15. Deliveries'
    <2>1. \A t \in Sends : Heeded(t) => Heeded(t)'
      BY <1>1, HeededStays
    <2>2. \A t \in Sends : wait[t] /\ fut'[t].status = "ack" => Heeded(t)'
      BY <2>1, <1>3 DEF VInv, Deliveries
    <2>3. upgrade' = upgrade /\ (upgrade # None => upgrade.tok \in Sends)
      BY <1>1 DEF VInv, NamesDrawn
    <2>4. upgrade' # None /\ wait[upgrade'.tok]
            => \E q \in heard' : q.cause \in {upgrade'.tok} \cup unseen'[upgrade'.tok]
      BY <2>3, <1>1 DEF VInv, Deliveries, Heeded, Kin
    <2> QED BY <2>2, <2>4, <1>1 DEF Deliveries, Heeded, Kin
  <1>16. OneAnswer'
    BY <1>1, <1>5 DEF VInv, OneAnswer
  <1>17. NoVerdictYet'
    <2> SUFFICES ASSUME NEW t \in Sends, SoleOwner(t),
                        t \in handlers \/ early[t] # None \/ stash[t] # None
                 PROVE  /\ fut'[t].status \notin Definitive
                        /\ pendAck'[pkt[t]].status \notin {"ack", "nak", "implicit_ack"}
                        /\ NotUpgraded(t)
      BY <1>1, <1>5 DEF NoVerdictYet
    <2>1. /\ fut[t].status \notin Definitive
          /\ pendAck[pkt[t]].status \notin {"ack", "nak", "implicit_ack"}
          /\ NotUpgraded(t)
      BY DEF VInv, NoVerdictYet
    <2>2. fut'[t].status \notin Definitive
      BY <2>1, <1>3, <1>6 DEF Definitive
    <2>3. CASE pkt[t] = p
      BY <2>1, <2>2, <2>3, <1>2, <1>6, NoRecord DEF Moves, Kept, p
    <2>4. CASE pkt[t] # p
      BY <2>1, <2>2, <2>4, <1>2, <1>6, NoRecord DEF Same, Kept
    <2> QED BY <2>3, <2>4
  <1>18. VerdictKept'
    <2> SUFFICES ASSUME NEW t \in Sends, SoleOwner(t), fut'[t].status \in Definitive,
                        pc'[t] \in {"tracked", "early", "waiting", "expired"}
                 PROVE  /\ NotUpgraded(t)
                        /\ ackFut'[pkt[t]] = None
                        /\ pendAck'[pkt[t]].status \in {"absent", fut'[t].status}
      BY <1>1, <1>5 DEF VerdictKept
    <2>1. fut'[t] = fut[t]
      BY <1>3, <1>6 DEF Definitive
    <2>2. t # s
      BY <2>1, <1>1, <1>4, NoRecord DEF Definitive
    <2>3. pkt[t] \in PktIds \ {p} /\ pc'[t] = pc[t]
      BY <2>2, <1>1, <1>6
    <2> QED BY <2>1, <2>3, <1>2, NoRecord DEF VInv, VerdictKept, Same, Kept
  <1>19. AnswerStaged'
    <2> SUFFICES ASSUME NEW t \in Sends, SoleOwner(t), Current(t), HeardOf(t),
                        \A h \in heard : h.cause = t => Verdict(h, t \in DMs) \in Definitive
                 PROVE  /\ pc'[t] \in {"onair", "fresh", "tracking", "tracked"} => early[t] # None
                        /\ pc'[t] = "waiting" => fut'[t] # NoRec
      BY <1>1, <1>5 DEF AnswerStaged
    <2>1. /\ pc[t] \in {"onair", "fresh", "tracking", "tracked"} => early[t] # None
          /\ pc[t] = "waiting" => fut[t] # NoRec
      BY DEF VInv, AnswerStaged
    <2> QED BY <2>1, <1>1, <1>3
  <1>20. DeliveredMeansHeard'
    <2> SUFFICES ASSUME NEW t \in Sends, pc'[t] \in {"stamped", "done"}, wait[t],
                        result'[t].status \in {"ack", "implicit_ack"},
                        fut'[t].status \in {"absent", "ack", "implicit_ack"}
                 PROVE  Heeded(t)
      BY <1>1, <1>7, HeededStays DEF DeliveredMeansHeard
    <2>1. fut'[t] = fut[t]
      BY <1>3
    <2>2. CASE t = s
      BY <2>1, <2>2 DEF Moves
    <2>3. CASE t # s
      BY <2>1, <2>3, <1>1 DEF VInv, DeliveredMeansHeard, Heeded, Kin, HeardOf
    <2> QED BY <2>2, <2>3
  <1> QED
    BY <1>7, <1>8, <1>9, <1>10, <1>11, <1>13, <1>14, <1>15, <1>16, <1>17, <1>18, <1>19, <1>20
    DEF VInv

LEMMA VerdictlessRecords ==
  \A r \in {Pending, Disconnected, AckTimeout} :
    r.status \in {"pending", "timeout"} /\ r.reason # "duplicate"
  BY DEF Pending, Disconnected, AckTimeout, Rec

\* Where tracking starts: nothing of the send is settled, staged for recording or owned yet.
LEMMA FreshCall ==
  ASSUME VInv, NEW s \in Sends, pc[s] \in {"fresh", "tracking"}, pkt[s] # None
  PROVE  /\ pkt[s] \in PktIds /\ fut[s] = NoRec
         /\ pc[s] = "fresh" => ackTok[pkt[s]] # s
         /\ Existing(s) = NoRec
         /\ OpenRecord(s) \in {Pending, Disconnected}
  <1>1. pkt[s] \in PktIds /\ Existing(s) = NoRec
    BY FreshHasNoResponse DEF VInv, IInv, TypeOK
  <1>2. fut[s] = NoRec
    BY DEF VInv, CallsInOrder, Tracked
  <1>3. pc[s] = "fresh" => ackTok[pkt[s]] # s
    BY <1>1 DEF VInv, IInv, TokensOfTracked, Tracked
  <1> QED BY <1>1, <1>2, <1>3 DEF OpenRecord

\* An id that is taken from a send, or poisoned, has been drawn twice.
LEMMA TakenIsShared ==
  ASSUME VInv, NEW s \in Sends, pkt[s] \in PktIds, OlderGeneration(s)
  PROVE  SharedId(pkt[s])
  <1>1. CASE ackTok[pkt[s]] = Poison
    BY <1>1 DEF VInv, PoisonShared, SharedId
  <1>2. CASE ackTok[pkt[s]] \in Sends
    BY <1>2 DEF VInv, KeysDrawn, SharedId, OlderGeneration
  <1> QED BY <1>1, <1>2 DEF OlderGeneration, VInv, IInv, TypeOK

LEMMA TrackCollisionKeeps ==
  ASSUME VInv, NEW s \in Sends, TrackCollision(s)
  PROVE  VInv'
  <1> DEFINE p   == pkt[s]
             w   == ackFut[p]
             tok == IF wait[s] THEN Poison ELSE s
  <1>1. IInv'
    BY TrackCollisionStep DEF VInv
  <1>2. /\ pc[s] = "fresh" /\ p # None /\ ackLock = None /\ ActiveWaiter(p)
        /\ fut' = [t \in Sends |-> IF t = w \/ (t = s /\ wait[s]) THEN Collision ELSE fut[t]]
        /\ pc' = [pc EXCEPT ![s] = "tracked"]
        /\ UNCHANGED <<lifeVars, wait, sendLid, pkt, result, stash, recLid, stageVars, ackLock,
                       radioVars, unseen>>
    BY DEF TrackCollision
  <1>3. p \in PktIds /\ Updated(p, Collision, tok, recLid[p], None)
    BY CollisionMoves DEF VInv
  <1>4. fut[s] = NoRec /\ ackTok[p] # s
    BY <1>2, FreshCall
  <1>5. w \in Sends /\ fut[w] = NoRec /\ ackTok[p] = w
    BY <1>2, <1>3 DEF ActiveWaiter, VInv, IInv, TypeOK, WaitersOwn
  <1>6. pkt[w] = p /\ w # s
    BY <1>3, <1>4, <1>5 DEF VInv, KeysDrawn
  <1>7. pc[w] \in Tracked \cup {"done"}
    BY <1>2, <1>3, <1>5, AckAssumption DEF VInv, IInv, TokensOfTracked, LockHolder
  <1>8. SharedId(p)
    BY <1>5, <1>6 DEF SharedId
  <1>9. Collision.status = "nak"
    BY ConstRecords
  <1>10. Fits(p, Collision, tok, recLid[p], None)
    BY <1>3, <1>8, <1>9, <1>5, AckAssumption, OwnFits DEF Fits
  <1> HIDE DEF p, w, tok
  <1>11. /\ pc'[s] = "tracked" /\ \A t \in Sends \ {s} : pc'[t] = pc[t]
         /\ \A t \in Sends : fut'[t] = IF t = w \/ (t = s /\ wait[s]) THEN Collision ELSE fut[t]
    BY <1>2 DEF VInv, IInv, TypeOK
  <1>12. \A t \in Sends :
           \/ fut'[t] = fut[t]
           \/ /\ pkt[t] = p /\ fut[t] = NoRec /\ pc'[t] \in Tracked \cup {"done"}
              /\ fut'[t].status \in {"nak", "pending", "timeout"}
    BY <1>4, <1>5, <1>6, <1>7, <1>9, <1>11 DEF p, Tracked
  <1>13. tok \in Sends => ~wait[tok]
    BY AckAssumption DEF tok
  <1>14. Moves(s, Collision, tok, recLid[p], None)
    BY <1>2, <1>3, <1>8, <1>9, <1>10, <1>11, <1>12, <1>13 DEF Moves, p
  <1> QED BY <1>1, <1>14, MoveKeeps

LEMMA TrackPoisonedKeeps ==
  ASSUME VInv, NEW s \in Sends, TrackPoisoned(s)
  PROVE  VInv'
  <1> DEFINE p == pkt[s]
  <1>1. IInv'
    BY TrackPoisonedStep DEF VInv
  <1>2. /\ pc[s] = "fresh" /\ p # None /\ ackLock = None /\ ~ActiveWaiter(p) /\ OlderGeneration(s)
        /\ fut' = [fut EXCEPT ![s] = Collision]
        /\ pc' = [pc EXCEPT ![s] = "tracked"]
        /\ UNCHANGED <<lifeVars, wait, sendLid, pkt, result, stash, stageVars, ackLock,
                       radioVars, unseen>>
    BY DEF TrackPoisoned
  <1>3. p \in PktIds /\ Updated(p, Collision, Poison, recLid[p], ackFut[p])
    BY PoisonedMoves DEF VInv
  <1>4. fut[s] = NoRec
    BY <1>2, FreshCall
  <1>5. SharedId(p)
    BY <1>2, <1>3, TakenIsShared
  <1>6. Collision.status = "nak" /\ Collision # NoRec
    BY ConstRecords
  <1>7. Fits(p, Collision, Poison, recLid[p], ackFut[p])
    BY <1>3, <1>5, <1>6, AckAssumption, OwnFits DEF Fits
  <1> HIDE DEF p
  <1>8. /\ pc'[s] = "tracked" /\ \A t \in Sends \ {s} : pc'[t] = pc[t]
        /\ fut'[s] = Collision /\ \A t \in Sends \ {s} : fut'[t] = fut[t]
    BY <1>2 DEF VInv, IInv, TypeOK
  <1>9. ackFut[p] # None => fut'[ackFut[p]] # NoRec
    BY <1>2, <1>3, <1>6, <1>8 DEF ActiveWaiter, VInv, IInv, TypeOK
  <1>10. Moves(s, Collision, Poison, recLid[p], ackFut[p])
    BY <1>2, <1>3, <1>4, <1>5, <1>6, <1>7, <1>8, <1>9, AckAssumption DEF Moves, p, Tracked
  <1> QED BY <1>1, <1>10, MoveKeeps

LEMMA TrackUnwaitedKeeps ==
  ASSUME VInv, NEW s \in Sends, TrackUnwaited(s)
  PROVE  VInv'
  <1> DEFINE p == pkt[s]
             r == OpenRecord(s)
  <1>1. IInv'
    BY TrackUnwaitedStep DEF VInv
  <1>2. /\ pc[s] = "fresh" /\ p # None /\ ackLock = None /\ ~ActiveWaiter(p) /\ ~wait[s]
        /\ pc' = [pc EXCEPT ![s] = "tracked"]
        /\ UNCHANGED <<lifeVars, wait, sendLid, pkt, result, stash, fut, stageVars, ackLock,
                       radioVars, unseen>>
    BY DEF TrackUnwaited
  <1>3. p \in PktIds /\ Updated(p, r, s, lid, ackFut[p])
    BY UnwaitedMoves DEF VInv
  <1>4. r.status \in {"pending", "timeout"} /\ r.reason # "duplicate"
    BY <1>2, FreshCall, VerdictlessRecords
  <1>5. Fits(p, r, s, lid, ackFut[p])
    BY <1>3, <1>4, AckAssumption, OwnFits DEF Fits, VInv, IInv, TypeOK
  <1> HIDE DEF p, r
  <1>6. pc'[s] = "tracked" /\ \A t \in Sends \ {s} : pc'[t] = pc[t]
    BY <1>2 DEF VInv, IInv, TypeOK
  <1>7. ackFut[p] # None => fut'[ackFut[p]] # NoRec
    BY <1>2 DEF ActiveWaiter
  <1>8. Moves(s, r, s, lid, ackFut[p])
    BY <1>2, <1>3, <1>4, <1>5, <1>6, <1>7 DEF Moves, p
  <1> QED BY <1>1, <1>8, MoveKeeps

LEMMA TrackWaiterKeeps ==
  ASSUME VInv, NEW s \in Sends, TrackWaiter(s)
  PROVE  VInv'
  <1> DEFINE p == pkt[s]
             r == OpenRecord(s)
  <1>1. IInv'
    BY TrackWaiterStep DEF VInv
  <1>2. /\ pc[s] = "fresh" /\ p # None /\ ackLock = None /\ ~ActiveWaiter(p)
        /\ wait[s] /\ ~OlderGeneration(s)
        /\ ackTok' = [ackTok EXCEPT ![p] = s]
        /\ unseen' = [unseen EXCEPT ![s] =
                         @ \cup {c \in Sends \ {s} : pkt[c] = p /\ ackTok[p] = None}]
        /\ pc' = [pc EXCEPT ![s] = "tracking"]
        /\ UNCHANGED <<lifeVars, wait, sendLid, pkt, result, stash, fut, stageVars, radioVars>>
    BY DEF TrackWaiter
  <1>3. p \in PktIds /\ Updated(p, r, s, recLid[p], ackFut[p])
    BY WaiterMoves DEF VInv
  <1>4. r.status \in {"pending", "timeout"} /\ r.reason # "duplicate"
    BY <1>2, FreshCall, VerdictlessRecords
  <1>5. ackTok[p] = None
    BY <1>2, FreshCall DEF OlderGeneration
  <1>6. Fits(p, r, s, recLid[p], ackFut[p])
    BY <1>3, <1>4, AckAssumption, OwnFits DEF Fits, VInv, IInv, TypeOK
  <1>7. /\ KinOnly(s)'
        /\ \A t \in Sends : unseen[t] \subseteq unseen'[t]
    <2>1. unseen \in [Sends -> SUBSET Sends]
      BY DEF VInv, IInv, TypeOK
    <2> QED BY <2>1, <1>2, <1>5 DEF KinOnly, Kin
  <1> HIDE DEF r
  <1>8. /\ pc'[s] = "tracking" /\ ackTok'[p] = s
        /\ \A t \in Sends \ {s} : pc'[t] = pc[t]
    BY <1>2, <1>3 DEF VInv, IInv, TypeOK
  <1>9. ackFut[p] # None => fut'[ackFut[p]] # NoRec
    BY <1>2 DEF ActiveWaiter
  <1> HIDE DEF p
  <1>10. Moves(s, r, s, recLid[p], ackFut[p])
    BY <1>2, <1>3, <1>4, <1>6, <1>7, <1>8, <1>9 DEF Moves, p
  <1> QED BY <1>1, <1>10, MoveKeeps

LEMMA RegisterWaiterKeeps ==
  ASSUME VInv, NEW s \in Sends, RegisterWaiter(s)
  PROVE  VInv'
  <1> DEFINE p == pkt[s]
             w == IF conn = "up" THEN s ELSE ackFut[p]
  <1>1. IInv'
    BY RegisterWaiterStep DEF VInv
  <1>2. /\ pc[s] = "tracking" /\ ackLock = s
        /\ fut' \in {fut, [fut EXCEPT ![s] = IF conn = "up" THEN Existing(s) ELSE pendAck[p]]}
        /\ conn = "up" /\ Existing(s).status = "absent" => fut' = fut
        /\ pc' = [pc EXCEPT ![s] = "tracked"]
        /\ UNCHANGED <<lifeVars, wait, sendLid, pkt, result, stash, stageVars, radioVars, unseen>>
    BY DEF RegisterWaiter, VInv, IInv, LockHolder
  <1>3. p \in PktIds /\ Updated(p, pendAck[p], ackTok[p], lid, w)
    BY RegisterMoves DEF VInv
  <1>4. /\ p # None /\ wait[s] /\ ~ActiveWaiter(p) /\ ackTok[p] = s
        /\ pendAck[p].status \in {"pending", "timeout"}
    BY <1>2 DEF VInv, IInv, TrackingOpen, WaitersOwn
  <1>5. fut[s] = NoRec /\ (conn = "up" => fut' = fut)
    BY <1>2, <1>4, FreshCall, NoRecord
  <1>6. Fits(p, pendAck[p], ackTok[p], lid, w)
    BY <1>3, <1>4, AckAssumption, OwnFits DEF Fits, VInv, IInv, TypeOK
  <1> HIDE DEF p, w
  <1>7. /\ pc'[s] = "tracked" /\ \A t \in Sends \ {s} : pc'[t] = pc[t] /\ fut'[t] = fut[t]
        /\ fut'[s] \in {fut[s], pendAck[p]}
    BY <1>2, <1>5 DEF VInv, IInv, TypeOK
  <1>8. w # None /\ fut'[w] = NoRec => ackTok[p] = w
    <2>1. CASE conn = "up"
      BY <2>1, <1>4 DEF w
    <2>2. CASE conn # "up" /\ ackFut[p] # None
      BY <2>2, <1>3, <1>4, <1>7, NoRecord DEF w, ActiveWaiter, VInv, IInv, TypeOK
    <2> QED BY <2>1, <2>2 DEF w
  <1>9. Owner(s)
    BY <1>4 DEF Owner, p
  <1>10. Moves(s, pendAck[p], ackTok[p], lid, w)
    BY <1>2, <1>3, <1>4, <1>5, <1>6, <1>7, <1>8, <1>9 DEF Moves, p, Tracked
  <1> QED BY <1>1, <1>10, MoveKeeps

-----------------------------------------------------------------------------
(* The timeout, and the end of a wait.                                     *)

LEMMA StampTimeoutKeeps ==
  ASSUME VInv, NEW s \in Sends, StampTimeout(s)
  PROVE  VInv'
  <1> DEFINE p == pkt[s]
             r == Stamped(s)
  <1>1. IInv'
    BY StampTimeoutStep DEF VInv
  <1>2. /\ pc[s] = "expired" /\ ackLock = None
        /\ pc' = [pc EXCEPT ![s] = "stamped"]
        /\ UNCHANGED <<lifeVars, wait, sendLid, pkt, stash, fut, stageVars, ackLock, radioVars,
                       unseen>>
    BY DEF StampTimeout
  <1>3. /\ p \in PktIds /\ wait[s] /\ p # None
        /\ Updated(p, r, ackTok[p], recLid[p], ackFut[p])
        /\ result' = [result EXCEPT ![s] = r]
    BY StampMoves, AckAssumption DEF VInv
  <1>4. r = pendAck[p] \/ (r.status = "timeout" /\ r.reason # "duplicate")
    BY VerdictlessRecords, ConstRecords DEF Stamped
  <1>5. Fits(p, r, ackTok[p], recLid[p], ackFut[p])
    BY <1>3, <1>4, OwnFits DEF Fits
  <1> HIDE DEF r
  <1>6. /\ pc'[s] = "stamped" /\ result'[s] = r
        /\ \A t \in Sends \ {s} : pc'[t] = pc[t] /\ result'[t] = result[t]
    BY <1>2, <1>3 DEF VInv, IInv, TypeOK
  <1>7. ackFut[p] # None /\ fut[ackFut[p]] = NoRec => ackTok[p] = ackFut[p]
    BY <1>3 DEF ActiveWaiter, VInv, WaitersOwn
  \* A future still open is this send's: the record is its own.
  <1>8. ASSUME r.status \in {"ack", "implicit_ack"}, fut[s].status \in {"absent", "ack", "implicit_ack"}
        PROVE  Heeded(s)
    <2>1. CASE fut[s].status = "ack"
      BY <2>1, <1>3 DEF VInv, Deliveries
    <2>2. CASE fut[s] = NoRec
      <3>1. ackTok[p] = s
        BY <2>2, <1>2, <1>3, <1>7, AckAssumption DEF VInv, IInv, WaiterNeverOrphaned, Tracked
      <3> QED BY <3>1, <1>3, <1>4, <1>8 DEF VInv, RecordHeeded, Owner
    <2> QED BY <2>1, <2>2, <1>8 DEF VInv, WaitersOwn
  <1>9. ackTok[p] \in Sends /\ wait[ackTok[p]] => Owner(ackTok[p])
    BY <1>3 DEF VInv, KeysDrawn, Owner
  <1> HIDE DEF p
  <1>10. Moves(s, r, ackTok[p], recLid[p], ackFut[p])
    BY <1>2, <1>3, <1>4, <1>5, <1>6, <1>7, <1>8, <1>9 DEF Moves, p
  <1> QED BY <1>1, <1>10, MoveKeeps

\* A wait ends: the waiter goes, whatever the result.
LEMMA LeaveKeeps ==
  ASSUME VInv, IInv', NEW s \in Sends, pc[s] \in {"waiting", "stamped"}, Unregister(s),
         pc' = [pc EXCEPT ![s] = "done"],
         UNCHANGED <<lifeVars, wait, sendLid, pkt, stash, fut, stageVars, ackLock, radioVars, unseen>>,
         \A t \in Sends \ {s} : result'[t] = result[t],
         result'[s].status \in {"ack", "implicit_ack"}
           /\ fut[s].status \in {"absent", "ack", "implicit_ack"} => Heeded(s)
  PROVE  VInv'
  <1> DEFINE p == pkt[s]
             w == IF ackFut[p] = s THEN None ELSE ackFut[p]
  <1>1. p # None
    BY DEF VInv, IInv, WaitersAsked
  <1>2. p \in PktIds /\ Updated(p, pendAck[p], ackTok[p], recLid[p], w)
    BY <1>1, UnregisterMoves DEF VInv
  <1>3. Fits(p, pendAck[p], ackTok[p], recLid[p], w)
    BY <1>2, OwnFits, AckAssumption DEF Fits
  <1>4. pc'[s] = "done" /\ \A t \in Sends \ {s} : pc'[t] = pc[t]
    BY DEF VInv, IInv, TypeOK
  <1>5. w # None /\ fut'[w] = NoRec => ackTok[p] = w
    BY <1>2 DEF ActiveWaiter, VInv, WaitersOwn
  <1>6. ackTok[p] \in Sends /\ wait[ackTok[p]] => Owner(ackTok[p])
    BY <1>1, <1>2 DEF VInv, KeysDrawn, Owner
  <1>7. ackLock = None
    BY DEF Unregister
  <1> HIDE DEF p, w
  <1>8. Moves(s, pendAck[p], ackTok[p], recLid[p], w)
    BY <1>2, <1>3, <1>4, <1>5, <1>6, <1>7 DEF Moves, p
  <1> QED BY <1>8, MoveKeeps

LEMMA WaitReturnsKeeps ==
  ASSUME VInv, NEW s \in Sends, WaitReturns(s)
  PROVE  VInv'
  <1>1. IInv'
    BY WaitReturnsStep DEF VInv
  <1>2. /\ pc[s] = "waiting" /\ fut[s] # NoRec /\ Unregister(s)
        /\ pc' = [pc EXCEPT ![s] = "done"]
        /\ UNCHANGED <<lifeVars, wait, sendLid, pkt, stash, fut, stageVars, ackLock, radioVars, unseen>>
        /\ result'[s] = fut[s] /\ \A t \in Sends \ {s} : result'[t] = result[t]
    BY DEF WaitReturns, VInv, IInv, TypeOK
  <1>3. fut[s].status = "ack" => Heeded(s)
    BY <1>2 DEF VInv, IInv, WaitersAsked, Deliveries
  <1>4. fut[s].status # "implicit_ack"
    BY DEF VInv, WaitersOwn
  <1> QED BY <1>1, <1>2, <1>3, <1>4, LeaveKeeps

LEMMA CancelWaitKeeps ==
  ASSUME VInv, NEW s \in Sends, CancelWait(s)
  PROVE  VInv'
  <1>1. IInv'
    BY CancelWaitStep DEF VInv
  <1>2. /\ pc[s] = "waiting" /\ Unregister(s)
        /\ pc' = [pc EXCEPT ![s] = "done"]
        /\ UNCHANGED <<lifeVars, wait, sendLid, pkt, stash, fut, stageVars, ackLock, radioVars, unseen>>
        /\ result'[s] = Cancelled /\ \A t \in Sends \ {s} : result'[t] = result[t]
    BY DEF CancelWait, VInv, IInv, TypeOK
  <1> QED BY <1>1, <1>2, ResultsPlain, LeaveKeeps

LEMMA LeaveTimedOutKeeps ==
  ASSUME VInv, NEW s \in Sends, LeaveTimedOut(s)
  PROVE  VInv'
  <1>1. IInv'
    BY LeaveTimedOutStep DEF VInv
  <1>2. /\ pc[s] = "stamped" /\ Unregister(s)
        /\ pc' = [pc EXCEPT ![s] = "done"]
        /\ UNCHANGED <<lifeVars, wait, sendLid, pkt, result, stash, fut, stageVars, ackLock, radioVars,
                       unseen>>
    BY DEF LeaveTimedOut
  <1>3. wait[s]
    BY <1>2 DEF VInv, IInv, WaitersAsked
  <1>4. result[s].status \in {"ack", "implicit_ack"}
          /\ fut[s].status \in {"absent", "ack", "implicit_ack"} => Heeded(s)
    BY <1>2, <1>3 DEF VInv, DeliveredMeansHeard, Heeded, Kin, HeardOf
  <1> QED BY <1>1, <1>2, <1>4, LeaveKeeps

-----------------------------------------------------------------------------
(* The sweep of a disconnect.                                              *)

\* It settles whoever still waits with a timeout.
LEMMA SweepSettles ==
  ASSUME VInv, Sweep, NEW s \in Sends, fut'[s] # fut[s]
  PROVE  fut[s] = NoRec /\ fut'[s].status = "timeout" /\ pc[s] \in Tracked \cup {"done"}
  <1> DEFINE waited == {p \in PktIds : ackFut[p] # None}
             q == CHOOSE p \in waited : ackFut[p] = s
  <1>1. fut[s] = NoRec /\ (\E p \in waited : ackFut[p] = s) /\ fut'[s] = SweepRecord(q)
    BY DEF Sweep, SweptFutures
  <1>2. q \in PktIds /\ ackFut[q] = s
    BY <1>1
  <1> HIDE DEF q
  <1>3. ActiveWaiter(q)
    BY <1>1, <1>2, AckAssumption DEF ActiveWaiter
  <1>4. pendAck[q].status \notin Definitive /\ ackTok[q] = s
    BY <1>2, <1>3 DEF VInv, IInv, OpenNotDefinitive, WaitersOwn
  <1>5. SweepRecord(q).status = "timeout"
    BY <1>4, ConstRecords DEF SweepRecord, Definitive
  <1>6. pc[s] \in Tracked \cup {"done"}
    BY <1>2, <1>4, AckAssumption DEF Sweep, VInv, IInv, TokensOfTracked, LockHolder
  <1> QED BY <1>1, <1>5, <1>6

\* It makes no verdict of a record, and spoils none.
LEMMA SweptRecords ==
  ASSUME VInv, NEW p \in PktIds
  PROVE  \/ SweptTo(p) = pendAck[p]
         \/ /\ SweptTo(p) = Disconnected /\ ackFut[p] # None
            /\ pendAck[p].status \notin Definitive
  BY DEF SweptTo, SweepRecord, Definitive

LEMMA SweepKeeps ==
  ASSUME VInv, Sweep
  PROVE  VInv'
  <1>1. IInv'
    BY SweepStep DEF VInv
  <1>2. /\ ackLock = None /\ conn' = "down" /\ inflight' = {}
        /\ early' = [s \in Sends |-> None] /\ inbox' = {}
        /\ UNCHANGED <<lid, callVars, ackLock, handlers, heard, upgrade, unseen>>
    BY DEF Sweep
  <1>3. \A p \in PktIds : Kept(p, SweptTo(p), ackTok[p], recLid[p], None)
    BY SweepMoves DEF VInv
  <1>4. \A p \in PktIds :
          /\ ackFut'[p] = None /\ ackTok'[p] \in {ackTok[p], None}
          /\ \/ pendAck'[p] \in {pendAck[p], NoRec}
             \/ pendAck'[p] = Disconnected /\ ackFut[p] # None
          /\ \/ ackTok'[p] = ackTok[p] /\ recLid'[p] = recLid[p]
             \/ ackTok'[p] = None /\ recLid'[p] = 0
    BY <1>3, SweptRecords DEF Kept
  <1>5. /\ Disconnected.status = "timeout" /\ Disconnected.reason # "duplicate"
    BY VerdictlessRecords, ConstRecords
  <1>6. \A s \in Sends : fut'[s] = fut[s] \/ fut'[s].status = "timeout"
    BY SweepSettles
  <1>7. \A s \in Sends : ~Current(s)'
    BY <1>2 DEF Current
  <1>8. \A s \in Sends : early'[s] = None
    BY <1>2
  <1>9. CallsInOrder'
    <2>1. \A s \in Sends : fut'[s] # NoRec => pc[s] \in Tracked \cup {"done"}
      BY SweepSettles DEF VInv, CallsInOrder
    <2> QED BY <2>1, <1>2, <1>7, <1>8 DEF VInv, CallsInOrder
  <1>10. NamesDrawn' /\ UpgradeFits'
    BY <1>2, <1>8 DEF VInv, NamesDrawn, UpgradeFits
  <1>11. KeysDrawn'
    <2>1. \A p \in PktIds : ackFut[p] # None => \E s \in Sends : pkt[s] = p
      BY DEF VInv, IInv, TypeOK, KeysDrawn
    <2> QED BY <2>1, <1>2, <1>4, NoRecord, AckAssumption DEF VInv, KeysDrawn, Has
  <1>12. LivesFit'
    BY <1>2, <1>4, <1>5, NoRecord, AckAssumption DEF VInv, IInv, TypeOK, LivesFit
  <1>13. PoisonShared' /\ PoisonedNeverDelivers'
    BY <1>2, <1>4, <1>5, NoRecord, AckAssumption
    DEF VInv, PoisonShared, DeliveredMeansHeard, PoisonedNeverDelivers
  <1>14. WaitersOwn'
    <2>1. \A s \in Sends : pc'[s] # "tracking"
      BY <1>2, AckAssumption DEF VInv, IInv, LockHolder
    <2> QED BY <2>1, <1>4, <1>6 DEF VInv, WaitersOwn, ActiveWaiter
  <1>15. \A s \in Sends : Owner(s)' => Owner(s)
    BY <1>2, <1>4, AckAssumption DEF Owner, VInv, IInv, TypeOK
  <1>16. HandlerExclusive' /\ AnswerStaged'
    BY <1>7 DEF HandlerExclusive, AnswerStaged
  <1>17. StagedOwn'
    BY <1>2, <1>8, <1>15 DEF VInv, StagedOwn, Kin
  <1>18. \A s \in Sends : pkt[s] # None => pkt[s] \in PktIds
    BY DEF VInv, IInv, TypeOK
  <1>19. RecordHeeded'
    <2> SUFFICES ASSUME NEW s \in Sends, Owner(s)', pendAck'[pkt[s]].status \in {"ack", "implicit_ack"}
                 PROVE  Heeded(s)
      BY <1>2 DEF RecordHeeded, Heeded, Kin
    <2>1. Owner(s) /\ pkt[s] \in PktIds
      BY <1>15, <1>18 DEF Owner
    <2>2. pendAck'[pkt[s]] = pendAck[pkt[s]]
      BY <2>1, <1>4, <1>5, NoRecord
    <2> QED BY <2>1, <2>2 DEF VInv, RecordHeeded
  <1>20. Deliveries' /\ OneAnswer'
    BY <1>2, <1>6, <1>8 DEF VInv, Deliveries, Heeded, Kin, HeardOf, OneAnswer, SoleOwner
  <1>21. NoVerdictYet'
    <2> SUFFICES ASSUME NEW s \in Sends, SoleOwner(s), s \in handlers \/ stash[s] # None
                 PROVE  /\ fut'[s].status \notin Definitive
                        /\ pendAck'[pkt[s]].status \notin {"ack", "nak", "implicit_ack"}
                        /\ NotUpgraded(s)
      BY <1>2, <1>8 DEF NoVerdictYet, SoleOwner, NotUpgraded
    <2>1. /\ fut[s].status \notin Definitive
          /\ pendAck[pkt[s]].status \notin {"ack", "nak", "implicit_ack"}
          /\ NotUpgraded(s)
      BY DEF VInv, NoVerdictYet
    <2>2. pkt[s] \in PktIds
      BY <1>18 DEF SoleOwner
    <2> QED BY <2>1, <2>2, <1>4, <1>5, <1>6, NoRecord DEF Definitive
  <1>22. VerdictKept'
    <2> SUFFICES ASSUME NEW s \in Sends, SoleOwner(s), fut'[s].status \in Definitive,
                        pc[s] \in {"tracked", "early", "waiting", "expired"}
                 PROVE  /\ NotUpgraded(s)
                        /\ ackFut'[pkt[s]] = None
                        /\ pendAck'[pkt[s]].status \in {"absent", fut'[s].status}
      BY <1>2 DEF VerdictKept, SoleOwner, NotUpgraded
    <2>1. fut'[s] = fut[s] /\ pkt[s] \in PktIds
      BY <1>6, <1>18 DEF Definitive, SoleOwner
    <2>2. /\ NotUpgraded(s) /\ ackFut[pkt[s]] = None
          /\ pendAck[pkt[s]].status \in {"absent", fut[s].status}
      BY <2>1 DEF VInv, VerdictKept
    <2> QED BY <2>1, <2>2, <1>4, NoRecord
  <1>23. DeliveredMeansHeard'
    <2> SUFFICES ASSUME NEW s \in Sends, pc[s] \in {"stamped", "done"}, wait[s],
                        result[s].status \in {"ack", "implicit_ack"},
                        fut'[s].status \in {"absent", "ack", "implicit_ack"}
                 PROVE  Heeded(s)
      BY <1>2, <1>13 DEF DeliveredMeansHeard, Heeded, Kin, HeardOf
    <2>1. fut'[s] = fut[s]
      BY <1>6
    <2> QED BY <2>1 DEF VInv, DeliveredMeansHeard, Heeded, Kin, HeardOf
  <1> QED
    BY <1>1, <1>9, <1>10, <1>11, <1>12, <1>13, <1>14, <1>16, <1>17, <1>19, <1>20, <1>21, <1>22,
       <1>23
    DEF VInv

-----------------------------------------------------------------------------
(* The invariant.                                                          *)

LEMMA InitVerdicts == Init => VInv
  <1> SUFFICES ASSUME Init PROVE VInv
    OBVIOUS
  <1> USE DEF Init
  <1>1. IInv
    BY InitInvariant
  <1>2. CallsInOrder /\ NamesDrawn /\ UpgradeFits
    BY DEF CallsInOrder, NamesDrawn, UpgradeFits
  <1>3. KeysDrawn /\ LivesFit /\ PoisonShared /\ PoisonedNeverDelivers /\ RecordHeeded
    BY NoRecord, AckAssumption
    DEF KeysDrawn, Has, LivesFit, PoisonShared, PoisonedNeverDelivers, RecordHeeded, Owner
  <1>4. WaitersOwn /\ Deliveries
    BY NoRecord DEF WaitersOwn, ActiveWaiter, Deliveries
  <1>5. HandlerExclusive /\ StagedOwn /\ OneAnswer /\ NoVerdictYet /\ VerdictKept /\ AnswerStaged
    BY NoRecord
    DEF HandlerExclusive, StagedOwn, OneAnswer, NoVerdictYet, VerdictKept, AnswerStaged, SoleOwner,
        Owner, Current
  <1>6. DeliveredMeansHeard
    BY <1>3 DEF DeliveredMeansHeard
  <1> QED BY <1>1, <1>2, <1>3, <1>4, <1>5, <1>6 DEF VInv

LEMMA StutterVerdicts == ASSUME VInv, UNCHANGED vars PROVE VInv'
  <1>1. IInv'
    BY StutterStep DEF VInv
  <1>2. CallsInOrder' /\ NamesDrawn' /\ KeysDrawn' /\ LivesFit' /\ UpgradeFits' /\ PoisonShared'
        /\ WaitersOwn'
    BY DEF vars, VInv, CallsInOrder, NamesDrawn, KeysDrawn, Has, LivesFit, UpgradeFits, PoisonShared,
           WaitersOwn, ActiveWaiter, Current
  <1>3. HandlerExclusive' /\ StagedOwn' /\ RecordHeeded' /\ Deliveries' /\ DeliveredMeansHeard'
    BY DEF vars, VInv, HandlerExclusive, StagedOwn, RecordHeeded, Deliveries, DeliveredMeansHeard,
           PoisonedNeverDelivers, Owner, Current, KinOnly, Heeded, Kin
  <1>4. OneAnswer' /\ NoVerdictYet' /\ VerdictKept' /\ AnswerStaged'
    BY DEF vars, VInv, OneAnswer, NoVerdictYet, VerdictKept, AnswerStaged, SoleOwner, Current,
           HeardOf, NotUpgraded
  <1> QED BY <1>1, <1>2, <1>3, <1>4 DEF VInv

LEMMA NextVerdicts == ASSUME VInv, [Next]_vars PROVE VInv'
  <1>1. ASSUME NEW s \in Sends, SendStep(s) PROVE VInv'
    <2>1. CASE CalmStep(s)
      BY <2>1, CalmKeeps
    <2>2. CASE ~CalmStep(s)
      BY <1>1, <2>2, SendTextKeeps, TrackCollisionKeeps, TrackPoisonedKeeps, TrackUnwaitedKeeps,
         TrackWaiterKeeps, RegisterWaiterKeeps, RecordEarlyAckKeeps, WaitReturnsKeeps,
         CancelWaitKeeps, StampTimeoutKeeps, LeaveTimedOutKeeps
      DEF SendStep, CalmStep
    <2> QED BY <2>1, <2>2
  <1>2. CASE LifeStep
    BY <1>2, LifeKeeps, SweepKeeps DEF LifeStep
  <1>3. CASE RadioStep
    BY <1>3, HearWithHandlerKeeps, HearWithoutHandlerKeeps, PubsubCheckKeeps, PubsubRecordKeeps
    DEF RadioStep
  <1>4. CASE UNCHANGED vars
    BY <1>4, StutterVerdicts
  <1> QED BY <1>1, <1>2, <1>3, <1>4 DEF Next

\* The invariant of verdicts holds in every reachable state, for any number of
\* sends and ids, any history limit and any number of lifecycles and packets.
THEOREM VerdictInvariance == Spec => []VInv
  BY InitVerdicts, NextVerdicts, PTL DEF Spec

\* A waited send that reports success was answered itself, or it is a send of the
\* same id which the tracker did not know when it tracked the waiter that was
\* answered.  No response to a send it knew, to one that drew the id later, or to a
\* poisoned id makes a delivery.
THEOREM NothingMadeUp == Spec => []DeliveredMeansHeard
  <1>1. VInv => DeliveredMeansHeard
    BY DEF VInv
  <1> QED BY VerdictInvariance, <1>1, PTL

\* A definitive answer that comes between sendText and the wait settles the
\* future: before it is tracked it is staged, afterwards recorded, and nothing
\* between the two drops it.
THEOREM NothingLost == Spec => []NoVerdictLost
  <1>1. VInv => NoVerdictLost
    <2> SUFFICES ASSUME VInv, NEW s \in Sends, pc[s] = "waiting", SoleOwner(s),
                        conn = "up", sendLid[s] = lid, {pk \in heard : pk.cause = s} # {},
                        \A pk \in {q \in heard : q.cause = s} : Verdict(pk, s \in DMs) \in Definitive
                 PROVE  fut[s] # NoRec
      BY DEF NoVerdictLost
    <2> QED BY DEF VInv, AnswerStaged, Current, HeardOf
  <1> QED BY VerdictInvariance, <1>1, PTL

-----------------------------------------------------------------------------
(* What a step may do to a record.                                         *)

\* Nothing or a prune; a new owner of the id, a collision or a timeout that
\* leaves a verdict alone; a response for the send that owns the id and lives.
RecordMove(p) ==
  \/ pendAck'[p] \in {pendAck[p], NoRec}
  \/ /\ pendAck'[p].status \in {"nak", "pending", "timeout"}
     /\ \/ pendAck[p].status \notin Definitive
        \/ ackTok'[p] # ackTok[p]
        \/ pendAck[p].status = "nak" /\ pendAck'[p].status = "nak"
  \/ /\ \E tok \in Sends : Live(sendLid[tok]) /\ ackTok[p] \in {None, tok}
     /\ pendAck[p].status \in Definitive => pendAck[p].reason = "duplicate"

LEMMA ResponseRecordMove ==
  ASSUME VInv, NEW pk \in Packets, NEW tok \in Sends, NEW dm \in BOOLEAN,
         RecordResponse(pk, tok, sendLid[tok], dm), NEW p \in PktIds
  PROVE  RecordMove(p)
  <1>1. CASE UNCHANGED storeVars
    BY <1>1 DEF RecordMove
  <1>2. CASE Recorded(pk, tok, sendLid[tok], dm)
    <2>1. PICK r : Committed(pk, r, dm)
      BY <1>2 DEF Recorded
    <2>2. CASE p # pk.pkt \/ r = pendAck[p]
      BY <2>1, <2>2 DEF Committed, Updated, Same, Kept, RecordMove
    <2>3. CASE p = pk.pkt /\ r # pendAck[p]
      <3>1. Settles(pendAck[p], Verdict(pk, dm))
        BY <2>1, <2>3 DEF Committed
      <3>2. pendAck[p].status \in Definitive => pendAck[p].reason = "duplicate"
        BY <3>1 DEF Settles, Definitive
      <3>3. Live(sendLid[tok]) /\ ackTok[p] \in {None, tok}
        BY <1>2, <2>3, AckAssumption DEF Recorded, Disowned
      <3> QED BY <3>2, <3>3 DEF RecordMove
    <2> QED BY <2>2, <2>3
  <1> QED BY <1>1, <1>2, ResponseMoves DEF Dropped, Staged, VInv

LEMMA RecordMoves ==
  ASSUME VInv, [Next]_vars, NEW p \in PktIds
  PROVE  RecordMove(p)
  <1>1. CASE UNCHANGED storeVars
    BY <1>1 DEF RecordMove
  <1>2. ASSUME NEW s \in Sends, CalmStep(s) PROVE RecordMove(p)
    BY <1>1, <1>2, CalmSteps DEF Calm
  <1>3. ASSUME NEW s \in Sends, TrackCollision(s) PROVE RecordMove(p)
    <2>1. Updated(pkt[s], Collision, IF wait[s] THEN Poison ELSE s, recLid[pkt[s]], None)
      BY <1>3, CollisionMoves DEF VInv
    <2>2. p = pkt[s] => pendAck[p].status \notin Definitive
      BY <1>3 DEF TrackCollision, VInv, IInv, OpenNotDefinitive
    <2> QED BY <2>1, <2>2, ConstRecords DEF Updated, Same, Kept, RecordMove
  <1>4. ASSUME NEW s \in Sends, TrackPoisoned(s) PROVE RecordMove(p)
    <2>1. Updated(pkt[s], Collision, Poison, recLid[pkt[s]], ackFut[pkt[s]])
      BY <1>4, PoisonedMoves DEF VInv
    <2>2. ackTok[p] = Poison /\ pendAck[p].status \in Definitive => pendAck[p].status = "nak"
      BY DEF VInv, DeliveredMeansHeard, PoisonedNeverDelivers, Definitive
    <2> QED BY <2>1, <2>2, ConstRecords DEF Updated, Same, Kept, RecordMove
  <1>5. ASSUME NEW s \in Sends, TrackUnwaited(s) \/ TrackWaiter(s) PROVE RecordMove(p)
    <2>1. PICK life : Updated(pkt[s], OpenRecord(s), s, life, ackFut[pkt[s]])
      BY <1>5, UnwaitedMoves, WaiterMoves DEF VInv
    <2>2. /\ OpenRecord(s).status \in {"pending", "timeout"}
          /\ ackTok[pkt[s]] # s
      BY <1>5, FreshCall, VerdictlessRecords DEF TrackUnwaited, TrackWaiter
    <2> QED BY <2>1, <2>2 DEF Updated, Same, Kept, RecordMove
  <1>6. ASSUME NEW s \in Sends, RegisterWaiter(s) PROVE RecordMove(p)
    BY <1>6, RegisterMoves DEF VInv, Updated, Same, Kept, RecordMove
  <1>7. ASSUME NEW s \in Sends, WaitReturns(s) \/ CancelWait(s) \/ LeaveTimedOut(s)
        PROVE  RecordMove(p)
    <2>1. Unregister(s) /\ pkt[s] # None
      BY <1>7 DEF WaitReturns, CancelWait, LeaveTimedOut, VInv, IInv, WaitersAsked
    <2> QED BY <2>1, UnregisterMoves DEF VInv, Updated, Same, Kept, RecordMove
  <1>8. ASSUME NEW s \in Sends, StampTimeout(s) PROVE RecordMove(p)
    <2>1. Updated(pkt[s], Stamped(s), ackTok[pkt[s]], recLid[pkt[s]], ackFut[pkt[s]])
      BY <1>8, StampMoves DEF VInv
    <2>2. \/ Stamped(s) = pendAck[pkt[s]]
          \/ Stamped(s).status = "timeout" /\ pendAck[pkt[s]].status \notin Definitive
      BY ConstRecords DEF Stamped, Definitive
    <2> QED BY <2>1, <2>2 DEF Updated, Same, Kept, RecordMove
  <1>9. CASE Sweep
    <2>1. Kept(p, SweptTo(p), ackTok[p], recLid[p], None)
      BY <1>9, SweepMoves DEF VInv
    <2> QED BY <2>1, SweptRecords, ConstRecords DEF Kept, RecordMove
  <1>10. ASSUME NEW s \in Sends, RecordEarlyAck(s) PROVE RecordMove(p)
    <2>1. stash[s] \in Packets /\ (s \in DMs) \in BOOLEAN
      BY <1>10 DEF RecordEarlyAck, VInv, IInv, TypeOK, StashedEarly
    <2> QED BY <2>1, <1>10, ResponseRecordMove DEF RecordEarlyAck
  <1>11. ASSUME NEW c \in Sends, NEW kind \in Kinds, HearWithHandler(c, kind) PROVE RecordMove(p)
    <2> DEFINE pk == [pkt |-> pkt[c], cause |-> c, kind |-> kind]
    <2>1. PICK h \in handlers : RecordResponse(pk, h, sendLid[h], h \in DMs)
      BY <1>11 DEF HearWithHandler
    <2>2. h \in Sends /\ (h \in DMs) \in BOOLEAN /\ pk \in Packets
      BY <1>11 DEF HearWithHandler, Report, VInv, IInv, TypeOK, Packets
    <2> HIDE DEF pk
    <2> QED BY <2>1, <2>2, ResponseRecordMove
  <1>12. CASE PubsubRecord
    <2>1. /\ RecordResponse(upgrade.pk, upgrade.tok, upgrade.life, TRUE)
          /\ upgrade.pk \in Packets /\ upgrade.tok \in Sends /\ upgrade.life = sendLid[upgrade.tok]
      BY <1>12 DEF PubsubRecord, VInv, IInv, TypeOK, NamesDrawn, UpgradeFits
    <2> QED BY <2>1, ResponseRecordMove
  <1>13. ASSUME NEW s \in Sends, SendStep(s) PROVE RecordMove(p)
    <2>1. CASE SendText(s)
      BY <2>1, <1>1 DEF SendText
    <2> QED BY <2>1, <1>2, <1>3, <1>4, <1>5, <1>6, <1>7, <1>8, <1>10, <1>13 DEF SendStep, CalmStep
  <1>14. CASE LifeStep
    BY <1>1, <1>9, <1>14 DEF LifeStep, Connect, Disconnect
  <1>15. CASE RadioStep
    <2>1. ASSUME NEW c \in Sends, NEW kind \in Kinds, HearWithoutHandler(c, kind)
          PROVE  RecordMove(p)
      BY <2>1, <1>1 DEF HearWithoutHandler
    <2>2. ASSUME NEW pk \in Packets, PubsubCheck(pk) PROVE RecordMove(p)
      BY <2>2, <1>1 DEF PubsubCheck
    <2> QED BY <1>11, <1>12, <1>15, <2>1, <2>2 DEF RadioStep
  <1>16. CASE UNCHANGED vars
    BY <1>1, <1>16 DEF vars
  <1> QED BY <1>13, <1>14, <1>15, <1>16 DEF Next

LEMMA OnlyTimeoutStamps ==
  ASSUME VInv, [Next]_vars, NEW s \in Sends, pc[s] = "expired", pc'[s] = "stamped"
  PROVE  StampTimeout(s)
  <1>0. pc \in [Sends -> Labels]
    BY DEF VInv, IInv, TypeOK
  <1>1. ASSUME NEW t \in Sends, SendStep(t) PROVE StampTimeout(s)
    <2>1. CASE CalmStep(t)
      BY <2>1, CalmSteps DEF Calm
    <2>2. CASE SendText(t) \/ TrackCollision(t) \/ TrackPoisoned(t) \/ TrackUnwaited(t)
               \/ TrackWaiter(t) \/ RegisterWaiter(t)
      BY <1>0, <2>2 DEF SendText, TrackCollision, TrackPoisoned, TrackUnwaited, TrackWaiter,
                        RegisterWaiter
    <2>3. CASE RecordEarlyAck(t) \/ WaitReturns(t) \/ CancelWait(t) \/ LeaveTimedOut(t)
      BY <1>0, <2>3 DEF RecordEarlyAck, Proceed, WaitReturns, CancelWait, LeaveTimedOut
    <2>4. CASE StampTimeout(t)
      BY <1>0, <2>4 DEF StampTimeout
    <2> QED BY <1>1, <2>1, <2>2, <2>3, <2>4 DEF SendStep, CalmStep
  <1>2. CASE LifeStep \/ RadioStep
    BY <1>2 DEF LifeStep, Connect, Disconnect, Sweep, RadioStep, HearWithHandler, HearWithoutHandler,
                PubsubCheck, PubsubRecord
  <1>3. CASE UNCHANGED vars
    BY <1>3 DEF vars
  <1> QED BY <1>1, <1>2, <1>3 DEF Next

\* A real ACK or a wire NAK is final for the send that owns the id: later relays,
\* second verdicts, timeouts and sweeps leave it, for any number of sends; and the
\* timeout of a send that has the id to itself returns the verdict it found.
THEOREM VerdictsStay == Spec => SettledStays
  <1>1. ASSUME VInv, [Next]_vars, NEW p \in PktIds PROVE RecordStays(p)
    <2>1. RecordMove(p)
      BY <1>1, RecordMoves
    <2> QED BY <2>1 DEF RecordMove, RecordStays
  <1>2. ASSUME VInv, [Next]_vars, NEW s \in Sends PROVE StampKeepsVerdict(s)
    <2> SUFFICES ASSUME pc[s] = "expired", pc'[s] = "stamped", fut[s].status \in Definitive,
                        SoleOwner(s), Has(pendAck, pkt[s])
                 PROVE  result'[s].status = fut[s].status
      BY DEF StampKeepsVerdict
    <2>1. StampTimeout(s)
      BY <1>2, OnlyTimeoutStamps
    <2>2. result'[s] = Stamped(s)
      BY <1>2, <2>1, StampMoves DEF VInv, IInv, TypeOK
    <2>3. pendAck[pkt[s]].status = fut[s].status
      BY <1>2 DEF VInv, VerdictKept, Has
    <2> QED BY <2>2, <2>3 DEF Stamped, Definitive
  <1>3. VInv /\ [Next]_vars => [/\ \A p \in PktIds : RecordStays(p)
                                /\ \A s \in Sends : StampKeepsVerdict(s)]_vars
    BY <1>1, <1>2
  <1> QED BY VerdictInvariance, <1>3, PTL DEF Spec, SettledStays

\* A record becomes ACK only by a response for the send that owns its id, while
\* the lifecycle that sent the packet is live: after a reconnect a late routing
\* packet delivers nothing.
THEOREM OnlyLiveDeliver == Spec => NoPhantomDelivery
  <1>1. ASSUME VInv, [Next]_vars, NEW p \in PktIds,
               ackTok[p] \in Sends, pendAck[p].status # "ack", pendAck'[p].status = "ack"
        PROVE  conn = "up" /\ sendLid[ackTok[p]] = lid
    <2>1. RecordMove(p)
      BY <1>1, RecordMoves
    <2> QED BY <1>1, <2>1, NoRecord, AckAssumption DEF RecordMove, Live
  <1>2. VInv /\ [Next]_vars =>
          [\A p \in PktIds :
             /\ ackTok[p] \in Sends
             /\ pendAck[p].status # "ack" /\ pendAck'[p].status = "ack"
             => conn = "up" /\ sendLid[ackTok[p]] = lid]_vars
    BY <1>1
  <1> QED BY VerdictInvariance, <1>2, PTL DEF Spec, NoPhantomDelivery
=============================================================================
