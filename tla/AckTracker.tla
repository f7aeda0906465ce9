----------------------------- MODULE AckTracker -----------------------------
(***************************************************************************)
(* The ACK/NACK bookkeeping of the Meshtastic adapter (ack_state.py) with  *)
(* the code that drives it: the one-chunk send (adapter._send_immediate),  *)
(* the library's one-shot onAckNak handler, the pubsub upgrade path and    *)
(* the disconnect sweep.                                                   *)
(*                                                                         *)
(* An action is one critical section.  Sends run on any session loop, the  *)
(* handler on the library's reader thread, the pubsub path and disconnect  *)
(* on the platform loop, so every critical section interleaves with every  *)
(* other.  The adapter's running flag is NOT guarded by the tracker's      *)
(* lock, so the two places where _track_pending_ack reads it are two       *)
(* actions, with ackLock held in between.  A future that a critical        *)
(* section has taken out of the registry is resolved in the same action:   *)
(* from then on no other thread can reach it.                              *)
(***************************************************************************)
EXTENDS Integers, FiniteSets

CONSTANTS
  Sends,        \* calls of _send_immediate; a call is its own send_token
  PktIds,       \* packet ids the library may hand out (and hand out again)
  DMs,          \* the sends addressed to a node; the others go to a channel
  RecordLimit,  \* ACK_RECORD_LIMIT
  Kinds,        \* kinds of routing packets: "ack", "far_ack", "relay", "nak"
  MaxLifecycle, \* bound: connects and disconnects stop at this generation
  MaxHeard,     \* bound: routing packets the radio reports in a behaviour
  None,         \* "no such entry"
  Poison        \* the fresh object() that poisons a reused packet id

ASSUME AckAssumption ==
  /\ DMs \subseteq Sends
  /\ RecordLimit \in Nat
  /\ MaxLifecycle \in Nat
  /\ MaxHeard \in Nat
  /\ None \notin Sends \cup PktIds
  /\ Poison \notin Sends \cup {None}

ASSUME KindsAssumption == Kinds \subseteq {"ack", "far_ack", "relay", "nak"}

VARIABLES
  conn,       \* "up" (_running), "stopping" (flag cleared), "down" (swept)
  lid,        \* _lifecycle_id
  pc, wait, sendLid, pkt, result, stash,  \* locals of each _send_immediate
  fut,        \* the concurrent Future of a send; NoRec while it is not done
  pendAck, pendOlder,   \* _pending_acks and its insertion order
  ackResp, respOlder,   \* _ack_responses and its insertion order
  ackTok, respTok,      \* _ack_tokens, _ack_response_tokens
  ackFut, recLid,       \* _ack_futures, _record_lifecycles
  inflight, early,      \* _ack_inflight_tokens, _early_ack_packets
  ackLock,    \* the send holding _ack_lock across two actions, or None
  handlers,   \* sends whose onAckNak is still registered with the library
  heard,      \* routing packets the radio has reported
  inbox,      \* the platform loop's incoming queue (routing packets of it)
  upgrade,    \* a pubsub upgrade between its check and its commit
  unseen      \* history: for a tracked waiter, the other sends of its id then
              \* unknown to the tracker: untracked yet, or forgotten

lifeVars  == <<conn, lid>>
callVars  == <<pc, wait, sendLid, pkt, result, stash>>
storeVars == <<pendAck, pendOlder, ackResp, respOlder, ackTok, respTok,
               ackFut, recLid>>
stageVars == <<inflight, early>>
radioVars == <<handlers, heard, inbox, upgrade>>
vars == <<lifeVars, callVars, fut, storeVars, stageVars, ackLock, radioVars,
          unseen>>

-----------------------------------------------------------------------------
(* Data.                                                                   *)

Statuses == {"absent", "pending", "ack", "implicit_ack", "nak", "timeout",
             "sent", "failed", "cancelled"}
Reasons  == {"none", "wire", "duplicate", "disconnected", "ack_timeout"}
Records  == [status: Statuses, reason: Reasons, cause: Sends \cup {None}]

\* "ack": the destination's own ACK, heard directly; "far_ack": the same ACK
\* with hops in its envelope; "relay": a rebroadcast of our packet.
Packets == [pkt: PktIds, cause: Sends, kind: Kinds]

ASSUME NoneIsNoPacket == None \notin Packets

Rec(status, reason, cause) ==
  [status |-> status, reason |-> reason, cause |-> cause]

NoRec        == Rec("absent", "none", None)
Pending      == Rec("pending", "none", None)
Collision    == Rec("nak", "duplicate", None)
Disconnected == Rec("timeout", "disconnected", None)
AckTimeout   == Rec("timeout", "ack_timeout", None)
Sent         == Rec("sent", "none", None)      \* success, nobody waited
Failed       == Rec("failed", "none", None)    \* failure without a verdict
Cancelled    == Rec("cancelled", "none", None)

Definitive == {"ack", "nak"}

Verdict(pk, dm) ==
  CASE pk.kind = "nak"          -> "nak"
    [] dm /\ pk.kind = "relay"  -> "implicit_ack"
    [] OTHER                    -> "ack"

\* The hop envelope proves the routing packet came straight from its sender.
Direct(pk) == pk.kind \in {"ack", "nak"}

Has(store, p) == store[p].status # "absent"
Keys(store)   == {p \in PktIds : Has(store, p)}

\* A dict keeps insertion order: a new key is younger than every present one.
Ordered(older, store, p) ==
  IF Has(store, p) THEN older ELSE older \cup (Keys(store) \X {p})

-----------------------------------------------------------------------------
(* _prune_ack_history_locked: the oldest keys without a waiter go first.   *)

Evicted(store, older, futs) ==
  LET evictable == {p \in Keys(store) : futs[p] = None}
      excess    == Cardinality(Keys(store)) - RecordLimit
  IN {p \in evictable :
        Cardinality({q \in evictable : <<q, p>> \in older}) < excess}

Without(store, gone) == [p \in PktIds |-> IF p \in gone THEN NoRec ELSE store[p]]
OrderWithout(older, gone) == {e \in older : e[1] \notin gone /\ e[2] \notin gone}

\* The stores after an update of the caller and the prune that follows it.
Pruned(pend, pOlder, resp, rOlder, toks, rtoks, lids, futs) ==
  LET pGone    == Evicted(pend, pOlder, futs)
      rGone    == Evicted(resp, rOlder, futs)
      retained == (Keys(pend) \ pGone) \cup (Keys(resp) \ rGone)
                    \cup {p \in PktIds : futs[p] # None}
      Keep(f)  == [p \in PktIds |-> IF p \in retained THEN f[p] ELSE None]
  IN /\ pendAck'   = Without(pend, pGone)
     /\ pendOlder' = OrderWithout(pOlder, pGone)
     /\ ackResp'   = Without(resp, rGone)
     /\ respOlder' = OrderWithout(rOlder, rGone)
     /\ ackTok'    = Keep(toks)
     /\ respTok'   = Keep(rtoks)
     /\ recLid'    = [p \in PktIds |-> IF p \in retained THEN lids[p] ELSE 0]
     /\ ackFut'    = futs

\* Both stores hold record r under p (one shared dict object in the code).
Stored(p, r, toks, rtoks, lids, futs) ==
  Pruned([pendAck EXCEPT ![p] = r], Ordered(pendOlder, pendAck, p),
         [ackResp EXCEPT ![p] = r], Ordered(respOlder, ackResp, p),
         toks, rtoks, lids, futs)

-----------------------------------------------------------------------------
(* _record_ack_response: one commit under _lifecycle_lock and _ack_lock.   *)

\* Mutant: the last definitive verdict wins, not the first.
SettlesLast(old, status) ==
  status \in Definitive \/ (status = "implicit_ack" /\ old.status \notin Definitive)

Settles(old, status) ==
  \/ status = "implicit_ack" /\ old.status \notin Definitive
  \/ /\ status \in Definitive
     /\ old.status \in Definitive => old.reason = "duplicate"

Merged(old, pk, status) ==
  IF Settles(old, status)
    THEN Rec(status, IF status = "nak" THEN "wire" ELSE "none", pk.cause)
    ELSE old

CommitResponse(pk, tok, dm) ==
  LET p      == pk.pkt
      status == Verdict(pk, dm)
      r      == Merged(pendAck[p], pk, status)
      futs   == IF r.status \in Definitive THEN [ackFut EXCEPT ![p] = None] ELSE ackFut
      rtoks  == IF tok = None THEN respTok ELSE [respTok EXCEPT ![p] = tok]
      waiter == ackFut[p]
  IN /\ Stored(p, r, ackTok, rtoks, recLid, futs)
     /\ fut' = IF /\ Settles(pendAck[p], status)
                  /\ status \in Definitive
                  /\ waiter # None
                  /\ fut[waiter] = NoRec
                 THEN [fut EXCEPT ![waiter] = r]
                 ELSE fut
     /\ UNCHANGED stageVars

\* _lifecycle_is_stale, with both locks held.
Live(life) == life = lid /\ conn = "up"

\* The id belongs to another send generation by now.
Disowned(pk, tok) == tok # None /\ ackTok[pk.pkt] \notin {None, tok}

RecordResponse(pk, tok, life, dm) ==
  /\ ackLock = None
  /\ \/ /\ ~Live(life)
        /\ UNCHANGED <<fut, storeVars, stageVars>>
     \/ /\ Live(life)
        /\ tok \in inflight                                \* early response
        /\ early' = IF sendLid[tok] = life THEN [early EXCEPT ![tok] = pk] ELSE early
        /\ UNCHANGED <<inflight, fut, storeVars>>
     \/ /\ Live(life)
        /\ tok \notin inflight
        /\ Disowned(pk, tok)
        /\ UNCHANGED <<fut, storeVars, stageVars>>
     \/ /\ Live(life)
        /\ tok \notin inflight
        /\ ~Disowned(pk, tok)
        /\ CommitResponse(pk, tok, dm)

-----------------------------------------------------------------------------
Init ==
  /\ conn = "down" /\ lid = 0
  /\ pc = [s \in Sends |-> "idle"]
  /\ wait = [s \in Sends |-> FALSE]
  /\ sendLid = [s \in Sends |-> 0]
  /\ pkt = [s \in Sends |-> None]
  /\ result = [s \in Sends |-> NoRec]
  /\ stash = [s \in Sends |-> None]
  /\ fut = [s \in Sends |-> NoRec]
  /\ pendAck = [p \in PktIds |-> NoRec] /\ pendOlder = {}
  /\ ackResp = [p \in PktIds |-> NoRec] /\ respOlder = {}
  /\ ackTok = [p \in PktIds |-> None]
  /\ respTok = [p \in PktIds |-> None]
  /\ ackFut = [p \in PktIds |-> None]
  /\ recLid = [p \in PktIds |-> 0]
  /\ inflight = {} /\ early = [s \in Sends |-> None]
  /\ ackLock = None
  /\ handlers = {} /\ heard = {} /\ inbox = {} /\ upgrade = None
  /\ unseen = [s \in Sends |-> {}]

-----------------------------------------------------------------------------
(* _send_immediate up to the stale-lifecycle check.                        *)

At(s, label) == pc[s] = label
Goto(s, label) == pc' = [pc EXCEPT ![s] = label]
Return(s, r) == Goto(s, "done") /\ result' = [result EXCEPT ![s] = r]

\* _drop_send_token: the provisional staging of a send generation.
DropToken(s) ==
  /\ ackLock = None
  /\ inflight' = inflight \ {s}
  /\ early' = [early EXCEPT ![s] = None]

\* A transport executor exists (from the first connect on); the generation is
\* snapshotted with it.
Begin(s) ==
  /\ At(s, "idle")
  /\ lid > 0
  /\ \E w \in BOOLEAN : wait' = [wait EXCEPT ![s] = w]
  /\ sendLid' = [sendLid EXCEPT ![s] = lid]
  /\ Goto(s, "begun")
  /\ UNCHANGED <<lifeVars, pkt, result, stash, fut, storeVars, stageVars,
                 ackLock, radioVars, unseen>>

\* Disconnected: there is no transport executor to submit to.
BeginRefused(s) ==
  /\ At(s, "idle")
  /\ conn = "down"
  /\ Return(s, Failed)
  /\ UNCHANGED <<lifeVars, wait, sendLid, pkt, stash, fut, storeVars, stageVars,
                 ackLock, radioVars, unseen>>

\* Mutant: the send does not announce its token before it transmits.
ArmSilently(s) ==
  /\ At(s, "begun")
  /\ ackLock = None
  /\ Goto(s, "armed")
  /\ UNCHANGED <<lifeVars, wait, sendLid, pkt, result, stash, fut, storeVars,
                 stageVars, ackLock, radioVars, unseen>>

Arm(s) ==
  /\ At(s, "begun")
  /\ ackLock = None
  /\ inflight' = inflight \cup {s}
  /\ Goto(s, "armed")
  /\ UNCHANGED <<lifeVars, wait, sendLid, pkt, result, stash, fut, storeVars,
                 early, ackLock, radioVars, unseen>>

\* The transport worker: sendText registers onAckNak under the id it draws,
\* in place of one registered there by an earlier send of this connection.
\* A packet without an id (None) registers nothing.
SendText(s) ==
  /\ At(s, "armed")
  /\ sendLid[s] = lid
  /\ conn = "up"
  /\ \E p \in PktIds \cup {None} :
       /\ pkt' = [pkt EXCEPT ![s] = p]
       /\ handlers' = IF p = None THEN handlers
                      ELSE {h \in handlers : pkt[h] # p \/ sendLid[h] # lid} \cup {s}
  /\ Goto(s, "onair")
  /\ UNCHANGED <<lifeVars, wait, sendLid, result, stash, fut, storeVars, stageVars,
                 ackLock, heard, inbox, upgrade, unseen>>

\* Mutant: a worker stopped by the disconnect leaves its jobs unanswered.
NotSentWhileUp(s) ==
  /\ At(s, "armed")
  /\ conn = "up"
  /\ DropToken(s)
  /\ Return(s, Failed)
  /\ UNCHANGED <<lifeVars, wait, sendLid, pkt, stash, fut, storeVars,
                 ackLock, radioVars, unseen>>

\* Nothing went out: no interface or a stale generation in the worker, no
\* public key, no such channel, a full or shut down executor.
NotSent(s) ==
  /\ At(s, "armed")
  /\ DropToken(s)
  /\ Return(s, Failed)
  /\ UNCHANGED <<lifeVars, wait, sendLid, pkt, stash, fut, storeVars,
                 ackLock, radioVars, unseen>>

\* sendText raised after it registered the handler.
SendRaises(s) ==
  /\ At(s, "onair")
  /\ DropToken(s)
  /\ Return(s, Failed)
  /\ UNCHANGED <<lifeVars, wait, sendLid, pkt, stash, fut, storeVars,
                 ackLock, radioVars, unseen>>

\* The session task is cancelled while it awaits the transport worker.
CancelSend(s) ==
  /\ pc[s] \in {"armed", "onair"}
  /\ DropToken(s)
  /\ Return(s, Cancelled)
  /\ UNCHANGED <<lifeVars, wait, sendLid, pkt, stash, fut, storeVars,
                 ackLock, radioVars, unseen>>

StillCurrent(s) ==
  /\ At(s, "onair")
  /\ sendLid[s] = lid /\ conn = "up"
  /\ Goto(s, "fresh")
  /\ UNCHANGED <<lifeVars, wait, sendLid, pkt, result, stash, fut, storeVars,
                 stageVars, ackLock, radioVars, unseen>>

\* The lifecycle turned over during the send: the outcome is reported in the
\* result alone and never enters the tracker.
TurnedStale(s) ==
  /\ At(s, "onair")
  /\ sendLid[s] # lid \/ conn # "up"
  /\ DropToken(s)
  /\ Return(s, Disconnected)
  /\ UNCHANGED <<lifeVars, wait, sendLid, pkt, stash, fut, storeVars,
                 ackLock, radioVars, unseen>>

-----------------------------------------------------------------------------
(* _track_pending_ack.                                                     *)

ActiveWaiter(p) == ackFut[p] # None /\ fut[ackFut[p]] = NoRec

\* Mutant: a waiter takes over an id whose earlier owner still expects answers.
NeverOlder(s) == FALSE

OlderGeneration(s) == ackTok[pkt[s]] \notin {None, s}

TrackNoId(s) ==
  /\ At(s, "fresh")
  /\ pkt[s] = None
  /\ Goto(s, "tracked")
  /\ UNCHANGED <<lifeVars, wait, sendLid, pkt, result, stash, fut, storeVars,
                 stageVars, ackLock, radioVars, unseen>>

\* _handle_active_waiter_collision: the old waiter ends; a new waiter ends too
\* and the id is poisoned, a fire-and-forget send takes the id over.
TrackCollision(s) ==
  LET p == pkt[s] IN
  /\ At(s, "fresh")
  /\ p # None
  /\ ackLock = None
  /\ ActiveWaiter(p)
  /\ pendAck' = [pendAck EXCEPT ![p] = Collision]
  /\ pendOlder' = Ordered(pendOlder, pendAck, p)
  /\ ackResp' = [ackResp EXCEPT ![p] = Collision]
  /\ respOlder' = Ordered(respOlder, ackResp, p)
  /\ ackFut' = [ackFut EXCEPT ![p] = None]
  /\ ackTok' = [ackTok EXCEPT ![p] = IF wait[s] THEN Poison ELSE s]
  /\ respTok' = [respTok EXCEPT ![p] = IF wait[s] THEN None ELSE @]
  /\ fut' = [t \in Sends |-> IF t = ackFut[p] \/ (t = s /\ wait[s])
                             THEN Collision ELSE fut[t]]
  /\ Goto(s, "tracked")
  /\ UNCHANGED <<lifeVars, wait, sendLid, pkt, result, stash, recLid, stageVars,
                 ackLock, radioVars, unseen>>

\* _settle_poisoned_reuse: a new waiter on an id an older send still owns.
TrackPoisoned(s) ==
  LET p == pkt[s] IN
  /\ At(s, "fresh")
  /\ p # None
  /\ ackLock = None
  /\ ~ActiveWaiter(p)
  /\ wait[s] /\ OlderGeneration(s)
  /\ Stored(p, Collision, [ackTok EXCEPT ![p] = Poison],
            [respTok EXCEPT ![p] = None], recLid, ackFut)
  /\ fut' = [fut EXCEPT ![s] = Collision]
  /\ Goto(s, "tracked")
  /\ UNCHANGED <<lifeVars, wait, sendLid, pkt, result, stash, stageVars,
                 ackLock, radioVars, unseen>>

\* discount_stale_response: only a response staged by this very send counts.
Existing(s) == IF respTok[pkt[s]] = s THEN ackResp[pkt[s]] ELSE NoRec

\* The record under which s is tracked; the first read of _running, which
\* settles a fresh waiter at once when the lifecycle is stopped.
OpenRecord(s) ==
  LET known == IF Existing(s) = NoRec THEN Pending ELSE Existing(s)
  IN IF wait[s] /\ conn # "up" /\ known.status \notin Definitive
       THEN Disconnected ELSE known

TrackUnwaited(s) ==
  LET p == pkt[s] IN
  /\ At(s, "fresh")
  /\ p # None
  /\ ackLock = None
  /\ ~ActiveWaiter(p)
  /\ ~wait[s]
  /\ Pruned([pendAck EXCEPT ![p] = OpenRecord(s)], Ordered(pendOlder, pendAck, p),
            ackResp, respOlder, [ackTok EXCEPT ![p] = s], respTok,
            [recLid EXCEPT ![p] = lid], ackFut)
  /\ Goto(s, "tracked")
  /\ UNCHANGED <<lifeVars, wait, sendLid, pkt, result, stash, fut, stageVars,
                 ackLock, radioVars, unseen>>

TrackWaiter(s) ==
  LET p == pkt[s] IN
  /\ At(s, "fresh")
  /\ p # None
  /\ ackLock = None
  /\ ~ActiveWaiter(p)
  /\ wait[s] /\ ~OlderGeneration(s)
  /\ pendAck' = [pendAck EXCEPT ![p] = OpenRecord(s)]
  /\ pendOlder' = Ordered(pendOlder, pendAck, p)
  /\ ackResp' = IF Existing(s) = NoRec THEN ackResp
                ELSE [ackResp EXCEPT ![p] = OpenRecord(s)]
  /\ ackTok' = [ackTok EXCEPT ![p] = s]
  /\ unseen' = [unseen EXCEPT ![s] =
                  @ \cup {c \in Sends \ {s} : pkt[c] = p /\ ackTok[p] = None}]
  /\ ackLock' = s
  /\ Goto(s, "tracking")
  /\ UNCHANGED <<lifeVars, wait, sendLid, pkt, result, stash, fut, respOlder,
                 respTok, ackFut, recLid, stageVars, radioVars>>

\* Mutant: the waiter is registered without the second read of _running.
RegisterAnyway(s) ==
  LET p == pkt[s] IN
  /\ At(s, "tracking")
  /\ Pruned(pendAck, pendOlder, ackResp, respOlder, ackTok, respTok,
            [recLid EXCEPT ![p] = lid], [ackFut EXCEPT ![p] = s])
  /\ fut' = IF Existing(s).status \in {"absent", "implicit_ack"} THEN fut
            ELSE [fut EXCEPT ![s] = Existing(s)]
  /\ ackLock' = None
  /\ Goto(s, "tracked")
  /\ UNCHANGED <<lifeVars, wait, sendLid, pkt, result, stash, stageVars,
                 radioVars, unseen>>

\* The second read of _running decides between a registered waiter and one
\* that resolves with the record as it is (_resolve_early_waiter).
RegisterWaiter(s) ==
  LET p    == pkt[s]
      futs == IF conn = "up" THEN [ackFut EXCEPT ![p] = s] ELSE ackFut
      seen == IF conn = "up" THEN Existing(s) ELSE pendAck[p]
  IN
  /\ At(s, "tracking")
  /\ Pruned(pendAck, pendOlder, ackResp, respOlder, ackTok, respTok,
            [recLid EXCEPT ![p] = lid], futs)
  /\ fut' = IF seen.status \in {"absent", "implicit_ack"} THEN fut
            ELSE [fut EXCEPT ![s] = seen]
  /\ ackLock' = None
  /\ Goto(s, "tracked")
  /\ UNCHANGED <<lifeVars, wait, sendLid, pkt, result, stash, stageVars,
                 radioVars, unseen>>

-----------------------------------------------------------------------------
(* _send_immediate after tracking, and _wait_for_ack.                      *)

\* Where a tracked send goes once its staging is drained.
Proceed(s) ==
  \/ wait[s] /\ pkt[s] # None /\ Goto(s, "waiting") /\ UNCHANGED result
  \/ wait[s] /\ pkt[s] = None /\ Return(s, Failed)
  \/ ~wait[s] /\ Return(s, Sent)

\* Mutant: the token is dropped without a look at what it staged.
DropEarlyAck(s) ==
  /\ At(s, "tracked")
  /\ DropToken(s)
  /\ Proceed(s)
  /\ UNCHANGED <<lifeVars, wait, sendLid, pkt, stash, fut, storeVars,
                 ackLock, radioVars, unseen>>

NoEarlyAck(s) ==
  /\ At(s, "tracked")
  /\ early[s] = None
  /\ DropToken(s)
  /\ Proceed(s)
  /\ UNCHANGED <<lifeVars, wait, sendLid, pkt, stash, fut, storeVars,
                 ackLock, radioVars, unseen>>

PopEarlyAck(s) ==
  /\ At(s, "tracked")
  /\ early[s] # None
  /\ DropToken(s)
  /\ stash' = [stash EXCEPT ![s] = early[s]]
  /\ Goto(s, "early")
  /\ UNCHANGED <<lifeVars, wait, sendLid, pkt, result, fut, storeVars,
                 ackLock, radioVars, unseen>>

RecordEarlyAck(s) ==
  /\ At(s, "early")
  /\ RecordResponse(stash[s], s, sendLid[s], s \in DMs)
  /\ stash' = [stash EXCEPT ![s] = None]
  /\ Proceed(s)
  /\ UNCHANGED <<lifeVars, wait, sendLid, pkt, ackLock, radioVars, unseen>>

\* The finally block of _wait_for_ack.
Unregister(s) ==
  /\ ackLock = None
  /\ LET p    == pkt[s]
         futs == IF ackFut[p] = s THEN [ackFut EXCEPT ![p] = None] ELSE ackFut
     IN Pruned(pendAck, pendOlder, ackResp, respOlder, ackTok, respTok, recLid, futs)

WaitReturns(s) ==
  /\ At(s, "waiting")
  /\ fut[s] # NoRec
  /\ Unregister(s)
  /\ Return(s, fut[s])
  /\ UNCHANGED <<lifeVars, wait, sendLid, pkt, stash, fut, stageVars,
                 ackLock, radioVars, unseen>>

CancelWait(s) ==
  /\ At(s, "waiting")
  /\ Unregister(s)
  /\ Return(s, Cancelled)
  /\ UNCHANGED <<lifeVars, wait, sendLid, pkt, stash, fut, stageVars,
                 ackLock, radioVars, unseen>>

\* The timer and a verdict set by another thread race: the timer may win even
\* when the future is already done.
TimerFires(s) ==
  /\ At(s, "waiting")
  /\ Goto(s, "expired")
  /\ UNCHANGED <<lifeVars, wait, sendLid, pkt, result, stash, fut, storeVars,
                 stageVars, ackLock, radioVars, unseen>>

\* Mutant: the timeout is stamped over whatever the record says.
StampAlways(s) ==
  LET p == pkt[s] IN
  /\ At(s, "expired")
  /\ ackLock = None
  /\ pendAck' = [pendAck EXCEPT ![p] = AckTimeout]
  /\ pendOlder' = Ordered(pendOlder, pendAck, p)
  /\ ackResp' = [ackResp EXCEPT ![p] = AckTimeout]
  /\ respOlder' = Ordered(respOlder, ackResp, p)
  /\ result' = [result EXCEPT ![s] = AckTimeout]
  /\ Goto(s, "stamped")
  /\ UNCHANGED <<lifeVars, wait, sendLid, pkt, stash, fut, ackTok, respTok,
                 ackFut, recLid, stageVars, ackLock, radioVars, unseen>>

\* The result is a snapshot of the record, stamped only while it is pending.
StampTimeout(s) ==
  LET p == pkt[s]
      r == IF pendAck[p].status \in {"absent", "pending"} THEN AckTimeout ELSE pendAck[p]
  IN
  /\ At(s, "expired")
  /\ ackLock = None
  /\ pendAck' = [pendAck EXCEPT ![p] = r]
  /\ pendOlder' = Ordered(pendOlder, pendAck, p)
  /\ ackResp' = [ackResp EXCEPT ![p] = r]
  /\ respOlder' = Ordered(respOlder, ackResp, p)
  /\ result' = [result EXCEPT ![s] = r]
  /\ Goto(s, "stamped")
  /\ UNCHANGED <<lifeVars, wait, sendLid, pkt, stash, fut, ackTok, respTok,
                 ackFut, recLid, stageVars, ackLock, radioVars, unseen>>

LeaveTimedOut(s) ==
  /\ At(s, "stamped")
  /\ Unregister(s)
  /\ Goto(s, "done")
  /\ UNCHANGED <<lifeVars, wait, sendLid, pkt, result, stash, fut, stageVars,
                 ackLock, radioVars, unseen>>

-----------------------------------------------------------------------------
(* The lifecycle, as far as the tracker sees it.                           *)

Connect ==
  /\ conn = "down"
  /\ lid < MaxLifecycle
  /\ conn' = "up" /\ lid' = lid + 1
  /\ inbox' = {}
  /\ UNCHANGED <<callVars, fut, storeVars, stageVars, ackLock, handlers, heard,
                 upgrade, unseen>>

Disconnect ==
  /\ conn # "stopping"
  /\ lid < MaxLifecycle
  /\ conn' = "stopping" /\ lid' = lid + 1
  /\ UNCHANGED <<callVars, fut, storeVars, stageVars, ackLock, radioVars, unseen>>

\* The strict total orders on a set of new keys: _ack_futures has an insertion
\* order of its own, which the model leaves open.
Insertions(new) ==
  {o \in SUBSET (new \X new) :
     /\ \A p \in new : <<p, p>> \notin o
     /\ \A p, q \in new : p # q => (<<p, q>> \in o) # (<<q, p>> \in o)
     /\ \A p, q, r \in new : <<p, q>> \in o /\ <<q, r>> \in o => <<p, r>> \in o}

SweepOrder(older, store, waited) ==
  LET new == waited \ Keys(store)
  IN {older \cup (Keys(store) \X new) \cup o : o \in Insertions(new)}

\* _fail_pending_acks, under _lifecycle_lock: every waiter is settled.
SweepRecord(p) ==
  IF pendAck[p].status \in {"ack", "nak", "timeout"} THEN pendAck[p] ELSE Disconnected

\* Mutant: the registry is emptied, the futures in it stay open.
SweptSilently(waited) == fut

\* Every waiter in the registry is resolved with its swept record.
SweptFutures(waited) ==
  [s \in Sends |->
     IF fut[s] = NoRec /\ \E p \in waited : ackFut[p] = s
       THEN SweepRecord(CHOOSE p \in waited : ackFut[p] = s)
       ELSE fut[s]]

Sweep ==
  LET waited == {p \in PktIds : ackFut[p] # None}
      Swept(store) == [p \in PktIds |-> IF p \in waited THEN SweepRecord(p) ELSE store[p]]
  IN
  /\ conn = "stopping"
  /\ ackLock = None
  /\ conn' = "down"
  /\ inflight' = {}
  /\ early' = [s \in Sends |-> None]
  /\ \E po \in SweepOrder(pendOlder, pendAck, waited),
        ro \in SweepOrder(respOlder, ackResp, waited) :
       Pruned(Swept(pendAck), po, Swept(ackResp), ro, ackTok, respTok, recLid,
              [p \in PktIds |-> None])
  /\ fut' = SweptFutures(waited)
  /\ inbox' = {}
  /\ UNCHANGED <<lid, callVars, ackLock, handlers, heard, upgrade, unseen>>

-----------------------------------------------------------------------------
(* What the radio reports.  A routing packet reaches the tracker twice: the *)
(* library's one-shot handler on its reader thread, and pubsub, which      *)
(* queues it for the platform loop.                                        *)

Queued(pk) == IF conn = "up" THEN inbox \cup {pk} ELSE inbox

Report(c, kind) ==
  LET pk == [pkt |-> pkt[c], cause |-> c, kind |-> kind] IN
  /\ pkt[c] # None
  /\ pk \notin heard
  /\ Cardinality(heard) < MaxHeard
  /\ heard' = heard \cup {pk}
  /\ inbox' = Queued(pk)

\* Any send whose handler is still registered under this id may be the one:
\* an interface of an earlier connection can still deliver.
HearWithHandler(c, kind) ==
  /\ Report(c, kind)
  /\ \E h \in handlers :
       /\ pkt[h] = pkt[c]
       /\ handlers' = handlers \ {h}
       /\ RecordResponse([pkt |-> pkt[c], cause |-> c, kind |-> kind],
                         h, sendLid[h], h \in DMs)
  /\ UNCHANGED <<lifeVars, callVars, ackLock, upgrade, unseen>>

HearWithoutHandler(c, kind) ==
  /\ Report(c, kind)
  /\ \A h \in handlers : pkt[h] # pkt[c]
  /\ UNCHANGED <<lifeVars, callVars, fut, storeVars, stageVars, ackLock,
                 handlers, upgrade, unseen>>

\* Mutant: a record kept over a reconnect is upgraded too.
UpgradableAnyLife(pk) == pendAck[pk.pkt].status = "implicit_ack" /\ Direct(pk)

\* _maybe_record_pubsub_ack: the check under ack_lock ...
Upgradable(pk) ==
  /\ pendAck[pk.pkt].status = "implicit_ack"
  /\ recLid[pk.pkt] = lid
  /\ Direct(pk)

PubsubCheck(pk) ==
  /\ conn = "up"
  /\ ackLock = None
  /\ upgrade = None
  /\ pk \in inbox
  /\ inbox' = inbox \ {pk}
  /\ upgrade' = IF Upgradable(pk)
                  THEN [pk |-> pk, tok |-> ackTok[pk.pkt], life |-> lid]
                  ELSE None
  /\ UNCHANGED <<lifeVars, callVars, fut, storeVars, stageVars, ackLock,
                 handlers, heard, unseen>>

\* ... and the commit after it.  The record's destination is a node: only a
\* DM record can be implicit.
PubsubRecord ==
  /\ upgrade # None
  /\ RecordResponse(upgrade.pk, upgrade.tok, upgrade.life, TRUE)
  /\ upgrade' = None
  /\ UNCHANGED <<lifeVars, callVars, ackLock, handlers, heard, inbox, unseen>>

-----------------------------------------------------------------------------
SendStep(s) ==
  \/ Begin(s) \/ BeginRefused(s) \/ Arm(s) \/ SendText(s) \/ NotSent(s)
  \/ SendRaises(s) \/ CancelSend(s) \/ StillCurrent(s) \/ TurnedStale(s)
  \/ TrackNoId(s) \/ TrackCollision(s) \/ TrackPoisoned(s)
  \/ TrackUnwaited(s) \/ TrackWaiter(s) \/ RegisterWaiter(s)
  \/ NoEarlyAck(s) \/ PopEarlyAck(s) \/ RecordEarlyAck(s)
  \/ WaitReturns(s) \/ CancelWait(s) \/ TimerFires(s) \/ StampTimeout(s)
  \/ LeaveTimedOut(s)

LifeStep == Connect \/ Disconnect \/ Sweep

RadioStep ==
  \/ \E c \in Sends, kind \in Kinds : HearWithHandler(c, kind) \/ HearWithoutHandler(c, kind)
  \/ \E pk \in Packets : PubsubCheck(pk)
  \/ PubsubRecord

Next == (\E s \in Sends : SendStep(s)) \/ LifeStep \/ RadioStep

Spec == Init /\ [][Next]_vars

\* What the schedulers owe: a running coroutine reaches its next critical
\* section, the transport worker answers, a started teardown sweeps.  Nothing
\* is owed by the radio, by the caller or (here) by the timer.
Progress(s) ==
  \/ Arm(s) \/ SendText(s) \/ NotSent(s) \/ StillCurrent(s) \/ TurnedStale(s)
  \/ TrackNoId(s) \/ TrackCollision(s) \/ TrackPoisoned(s)
  \/ TrackUnwaited(s) \/ TrackWaiter(s) \/ RegisterWaiter(s)
  \/ NoEarlyAck(s) \/ PopEarlyAck(s) \/ RecordEarlyAck(s)
  \/ WaitReturns(s) \/ StampTimeout(s) \/ LeaveTimedOut(s)

FairSpec == Spec /\ (\A s \in Sends : WF_vars(Progress(s))) /\ WF_vars(Sweep)

\* asyncio fires every timer that is not cancelled.
TimersFire == \A s \in Sends : WF_vars(TimerFires(s))

-----------------------------------------------------------------------------
(* Properties.                                                             *)

Labels == {"idle", "begun", "armed", "onair", "fresh", "tracking", "tracked",
           "early", "waiting", "expired", "stamped", "done"}

\* Every variable stays in its type; an upgrade carries the token and the
\* generation it was checked against.
TypeOK ==
  /\ conn \in {"up", "stopping", "down"} /\ lid \in Nat
  /\ pc \in [Sends -> Labels]
  /\ wait \in [Sends -> BOOLEAN]
  /\ sendLid \in [Sends -> Nat]
  /\ pkt \in [Sends -> PktIds \cup {None}]
  /\ result \in [Sends -> Records]
  /\ stash \in [Sends -> Packets \cup {None}]
  /\ fut \in [Sends -> Records]
  /\ pendAck \in [PktIds -> Records] /\ pendOlder \subseteq PktIds \X PktIds
  /\ ackResp \in [PktIds -> Records] /\ respOlder \subseteq PktIds \X PktIds
  /\ ackTok \in [PktIds -> Sends \cup {None, Poison}]
  /\ respTok \in [PktIds -> Sends \cup {None, Poison}]
  /\ ackFut \in [PktIds -> Sends \cup {None}]
  /\ recLid \in [PktIds -> Nat]
  /\ inflight \subseteq Sends
  /\ early \in [Sends -> Packets \cup {None}]
  /\ ackLock \in Sends \cup {None}
  /\ handlers \subseteq Sends
  /\ heard \subseteq Packets /\ inbox \subseteq Packets
  /\ upgrade \in [pk : Packets, tok : Sends \cup {None, Poison}, life : Nat] \cup {None}
  /\ unseen \in [Sends -> SUBSET Sends]

Tracked == {"tracked", "early", "waiting", "expired", "stamped"}

\* A waiter that is not settled is registered under its packet id, so some
\* verdict, collision or sweep can still settle it: nothing may pop it from
\* _ack_futures, replace it or prune it and leave its future open.
WaiterNeverOrphaned ==
  \A s \in Sends :
    pc[s] \in Tracked /\ wait[s] /\ pkt[s] # None /\ fut[s] = NoRec
      => ackFut[pkt[s]] = s

\* Once disconnect has swept, nobody waits for the radio: a send that finishes
\* after _fail_pending_acks registers no waiter into the stopped lifecycle.
DisconnectSettlesWaiters ==
  conn = "down" =>
    \A s \in Sends : pc[s] = "waiting" => fut[s] # NoRec

\* A poisoned id never reads as delivered: neither generation's callback nor the
\* pubsub path turns the collision verdict into a success.
PoisonedNeverDelivers ==
  \A p \in PktIds :
    ackTok[p] = Poison => pendAck[p].status \notin {"pending", "ack", "implicit_ack"}

\* The sends whose packets the tracker cannot tell from those of the waiter s: s
\* and the sends of its id that it did not know of when s was tracked.
Kin(s) == {s} \cup unseen[s]

\* The radio reported a packet of s, or of a send taken for s.
Heeded(s) == \E pk \in heard : pk.cause \in Kin(s)

\* A waited send reports success only if the radio reported a packet of that
\* very send, or of one of the same id that the tracker did not know when it
\* tracked the waiter: one that had drawn the id too and was not tracked yet (two
\* sends in flight at once: either may be settled by the response to the other),
\* or one the tracker had forgotten.  A response to a send whose token the tracker
\* held, or to one that drew the id later, never counts.  (A waiter that was
\* settled otherwise while its timer fired reads whatever the id's record has
\* become.)  Nor does a poisoned id deliver.
DeliveredMeansHeard ==
  /\ PoisonedNeverDelivers
  /\ \A s \in Sends :
       /\ pc[s] \in {"stamped", "done"} /\ wait[s]
       /\ result[s].status \in {"ack", "implicit_ack"}
       /\ fut[s].status \in {"absent", "ack", "implicit_ack"}
       => Heeded(s)

SoleOwner(s) == pkt[s] # None /\ \A c \in Sends \ {s} : pkt[c] # pkt[s]

\* No verdict is lost in the early-ACK window: if the radio only ever gave a
\* definitive answer to this send, then by the time it waits its future is done,
\* wherever between sendText and the wait the answer came.
NoVerdictLost ==
  \A s \in Sends :
    LET own == {pk \in heard : pk.cause = s} IN
    /\ pc[s] = "waiting" /\ SoleOwner(s)
    /\ conn = "up" /\ sendLid[s] = lid
    /\ own # {} /\ \A pk \in own : Verdict(pk, s \in DMs) \in Definitive
    => fut[s] # NoRec

\* A real ACK or a wire NAK is final for the send that owns the id: no later
\* relay, second verdict, timeout stamp or sweep changes it while it is kept.  And
\* one that lands between the timer and its stamp wins, as long as no other send
\* drew the id and the record is still in history.
RecordStays(p) ==
  /\ pendAck[p].status \in Definitive /\ pendAck[p].reason # "duplicate"
  /\ ackTok'[p] = ackTok[p] /\ pendAck'[p] # NoRec
  => pendAck'[p].status = pendAck[p].status

StampKeepsVerdict(s) ==
  /\ pc[s] = "expired" /\ pc'[s] = "stamped"
  /\ fut[s].status \in Definitive /\ SoleOwner(s) /\ Has(pendAck, pkt[s])
  => result'[s].status = fut[s].status

SettledStays ==
  [][/\ \A p \in PktIds : RecordStays(p)
     /\ \A s \in Sends : StampKeepsVerdict(s)]_vars

\* A record becomes ACK only while the lifecycle that sent its packet is live:
\* a late routing packet after a reconnect delivers nothing.
NoPhantomDelivery ==
  [][\A p \in PktIds :
       /\ ackTok[p] \in Sends
       /\ pendAck[p].status # "ack" /\ pendAck'[p].status = "ack"
       => conn = "up" /\ sendLid[ackTok[p]] = lid]_vars

\* Disconnect releases every waiter, with no help of timer or radio.
DisconnectReleases ==
  \A s \in Sends : pc[s] = "waiting" /\ conn = "stopping" ~> pc[s] = "done"

\* With timers that fire, every send that got as far as the executor returns.
SendsReturn ==
  TimersFire => \A s \in Sends : pc[s] = "begun" ~> pc[s] = "done"

-----------------------------------------------------------------------------
(* The inductive invariant behind WaiterNeverOrphaned and                  *)
(* DisconnectSettlesWaiters; AckTrackerProofs has the proof.               *)

\* _ack_lock is held across two steps only by the send that is being tracked.
LockHolder == \A s \in Sends : (pc[s] = "tracking") <=> (ackLock = s)

\* While it is held the id has no other open waiter and no verdict yet.
TrackingOpen ==
  \A s \in Sends :
    pc[s] = "tracking" =>
      /\ pkt[s] # None /\ wait[s]
      /\ ~ActiveWaiter(pkt[s])
      /\ pendAck[pkt[s]].status \in {"pending", "timeout"}

\* Who waits asked to, and has a packet id.
WaitersAsked ==
  \A s \in Sends : pc[s] \in {"waiting", "expired", "stamped"} => wait[s] /\ pkt[s] # None

StashedEarly == \A s \in Sends : pc[s] = "early" => stash[s] # None

\* Until a live send is tracked its responses are staged, so no response in the
\* stores carries the token of a send that is not tracked yet.
StagedUntilTracked ==
  \A s \in Sends :
    /\ sendLid[s] <= lid
    /\ s \in handlers => pc[s] \notin {"idle", "begun", "armed"}
    /\ pc[s] \in {"armed", "onair", "fresh"} /\ conn = "up" /\ sendLid[s] = lid
         => s \in inflight

TokensOfTracked ==
  /\ \A p \in PktIds :
       /\ respTok[p] \in Sends => pc[respTok[p]] \in Tracked \cup {"done"}
       /\ ackTok[p] \in Sends => pc[ackTok[p]] \in Tracked \cup {"done", "tracking"}
  /\ upgrade # None /\ upgrade.tok \in Sends
       => pc[upgrade.tok] \in Tracked \cup {"done", "tracking"}

\* An open waiter's record carries no definitive verdict, so the first one that
\* arrives both pops the waiter and resolves it.
OpenNotDefinitive ==
  \A p \in PktIds : ActiveWaiter(p) => pendAck[p].status \notin Definitive

SweptNoWaiters == conn = "down" => \A p \in PktIds : ackFut[p] = None

\* Type correctness and the eight parts above, preserved by every step.
IInv ==
  /\ TypeOK
  /\ LockHolder
  /\ TrackingOpen
  /\ WaitersAsked
  /\ StashedEarly
  /\ StagedUntilTracked
  /\ TokensOfTracked
  /\ OpenNotDefinitive
  /\ SweptNoWaiters
  /\ WaiterNeverOrphaned

-----------------------------------------------------------------------------
(* The inductive invariant behind the properties of verdicts: what every   *)
(* name in the tracker stands for.  AckTrackerProofs has the proof.        *)

Current(s) == conn = "up" /\ sendLid[s] = lid

\* How far a call has come bounds what there is of it: no packet id before its
\* sendText, no settled future before it is tracked, no staging after that.
CallsInOrder ==
  \A s \in Sends :
    /\ pkt[s] # None => pc[s] \notin {"idle", "begun", "armed"}
    /\ fut[s] # NoRec => pc[s] \in Tracked \cup {"done"}
    /\ s \in inflight => pc[s] \in {"armed", "onair", "fresh", "tracking", "tracked"}
    /\ pc[s] \in {"tracking", "tracked"} /\ Current(s) => s \in inflight
    /\ early[s] # None => s \in inflight
    /\ stash[s] # None => pc[s] = "early"

\* A handler, a reported packet, a staged response, an upgrade: each is of a send
\* that drew its id.
NamesDrawn ==
  /\ \A h \in handlers : pkt[h] # None
  /\ inbox \subseteq heard
  /\ \A pk \in heard : pkt[pk.cause] = pk.pkt
  /\ \A s \in Sends : \A pk \in {early[s], stash[s]} \ {None} :
       pk \in heard /\ pk.pkt = pkt[s]
  /\ upgrade # None =>
       upgrade.pk \in heard /\ upgrade.tok \in Sends /\ pkt[upgrade.tok] = upgrade.pk.pkt

\* And so are the tokens, the waiters and the records of an id.
KeysDrawn ==
  \A p \in PktIds :
    /\ ackTok[p] \in Sends => pkt[ackTok[p]] = p
    /\ ackFut[p] \in Sends => pkt[ackFut[p]] = p
    /\ Has(pendAck, p) => \E s \in Sends : pkt[s] = p

\* The generation of a record is never a later one, an id without a token has none,
\* and an implicit record is not of a later one than the send that owns it, whose
\* staging is over.
LivesFit ==
  \A p \in PktIds :
    /\ recLid[p] <= lid
    /\ ackTok[p] = None => recLid[p] = 0
    /\ ackTok[p] \in Sends /\ pendAck[p].status = "implicit_ack"
         => recLid[p] <= sendLid[ackTok[p]] /\ ackTok[p] \notin inflight

\* An upgrade is of the generation that sent the packet.
UpgradeFits ==
  /\ conn = "up" => lid > 0
  /\ upgrade # None => sendLid[upgrade.tok] = upgrade.life /\ upgrade.tok \notin inflight

\* Two sends have drawn an id that is poisoned or whose record says duplicate.
PoisonShared ==
  \A p \in PktIds :
    ackTok[p] = Poison \/ pendAck[p].reason = "duplicate"
      => \E c, d \in Sends : c # d /\ pkt[c] = p /\ pkt[d] = p

\* An open waiter owns its id, and so does the send that is becoming one; what
\* settles a future is a record, and not an implicit one.
WaitersOwn ==
  /\ \A p \in PktIds : ActiveWaiter(p) => ackTok[p] = ackFut[p]
  /\ \A s \in Sends : pc[s] = "tracking" => ackTok[pkt[s]] = s
  /\ \A s \in Sends : /\ fut[s].status # "implicit_ack"
                      /\ fut[s].status = "absent" => fut[s] = NoRec

HeardOf(s) == \E pk \in heard : pk.cause = s

Owner(s) == pkt[s] # None /\ ackTok[pkt[s]] = s /\ wait[s]

\* No other send has drawn the id of s but its kin.
KinOnly(s) == \A c \in Sends : pkt[c] = pkt[s] => c \in Kin(s)

\* While a waited send owns its id: its handler serves no send but its kin, ...
HandlerExclusive ==
  \A s \in Sends : Owner(s) /\ s \in handlers /\ Current(s) => KinOnly(s)

\* ... what is staged for it comes from their packets, ...
StagedOwn ==
  \A s \in Sends : Owner(s) => \A pk \in {early[s], stash[s]} \ {None} : pk.cause \in Kin(s)

\* ... and so does what its record says of a delivery.
RecordHeeded ==
  \A s \in Sends :
    Owner(s) /\ pendAck[pkt[s]].status \in {"ack", "implicit_ack"} => Heeded(s)

\* Nor does a future or an upgrade tell of a delivery that was not reported.
Deliveries ==
  /\ \A s \in Sends : wait[s] /\ fut[s].status = "ack" => Heeded(s)
  /\ upgrade # None /\ wait[upgrade.tok] => Heeded(upgrade.tok)

NotUpgraded(s) == upgrade = None \/ upgrade.tok # s

\* The handler of a send that shares its id with nobody brings one response, ...
OneAnswer ==
  \A s \in Sends : SoleOwner(s) =>
    /\ s \in handlers \/ HeardOf(s)
    /\ s \in handlers => early[s] = None /\ stash[s] = None

\* ... until that is recorded there is no verdict, ...
NoVerdictYet ==
  \A s \in Sends :
    SoleOwner(s) /\ (s \in handlers \/ early[s] # None \/ stash[s] # None) =>
      /\ fut[s].status \notin Definitive
      /\ pendAck[pkt[s]].status \notin {"ack", "nak", "implicit_ack"}
      /\ NotUpgraded(s)

\* ... and once there is one, the record says the same or is gone.
VerdictKept ==
  \A s \in Sends :
    /\ SoleOwner(s) /\ fut[s].status \in Definitive
    /\ pc[s] \in {"tracked", "early", "waiting", "expired"}
    => /\ NotUpgraded(s)
       /\ ackFut[pkt[s]] = None
       /\ pendAck[pkt[s]].status \in {"absent", fut[s].status}

\* Until a live send waits its first answer is staged; then its future is settled.
AnswerStaged ==
  \A s \in Sends :
    /\ SoleOwner(s) /\ Current(s) /\ HeardOf(s)
    /\ \A pk \in heard : pk.cause = s => Verdict(pk, s \in DMs) \in Definitive
    => /\ pc[s] \in {"onair", "fresh", "tracking", "tracked"} => early[s] # None
       /\ pc[s] = "waiting" => fut[s] # NoRec

\* The invariant above, the fifteen parts here and DeliveredMeansHeard, preserved
\* by every step.
VInv ==
  /\ IInv
  /\ CallsInOrder
  /\ NamesDrawn
  /\ KeysDrawn
  /\ LivesFit
  /\ UpgradeFits
  /\ PoisonShared
  /\ WaitersOwn
  /\ HandlerExclusive
  /\ StagedOwn
  /\ RecordHeeded
  /\ Deliveries
  /\ OneAnswer
  /\ NoVerdictYet
  /\ VerdictKept
  /\ AnswerStaged
  /\ DeliveredMeansHeard

-----------------------------------------------------------------------------
(* What comments of the code say, and the code does not do.                *)

\* ack_state.py:481-483: a waiter that comes after the sweep keeps a real
\* verdict, "otherwise settle as disconnected now".  So no waited send returns
\* a record that is still pending.
WaitEndsSettled ==
  \A s \in Sends : pc[s] = "done" /\ wait[s] => result[s].status # "pending"

\* adapter.py: "an old worker returning after reconnect cannot enter new ACK
\* state".
StaleSendStaysOut ==
  \A p \in PktIds : conn = "up" /\ ackFut[p] # None => sendLid[ackFut[p]] = lid

=============================================================================
