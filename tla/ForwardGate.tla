------------------------------ MODULE ForwardGate ------------------------------
(***************************************************************************)
(* The rate limits on relaying strangers' messages                         *)
(* (forwarding.ForwardGate): how often a sender's messages are forwarded   *)
(* to the owner's node, and when the sender is told so.  The gate is a     *)
(* value; the operators are its methods, and Inbound is who calls them.    *)
(*                                                                         *)
(*   forwards  when each tracked sender's messages were forwarded, oldest  *)
(*             first: the senders by last use, the least recent first      *)
(*   lastReply when each sender last confirmed a notice, in the same order *)
(*   inflight  senders a notice is on its way to                           *)
(***************************************************************************)
EXTENDS Naturals, Sequences, SequencesExt

CONSTANTS
  PerHour,     \* MESHTASTIC_FORWARD_PER_HOUR
  Hour,        \* FORWARD_WINDOW_SECS, in ticks
  Cooldown,    \* reply_cooldown_secs, in ticks
  SenderLimit  \* SENDER_LIMIT

ASSUME GateAssumption == {PerHour, Hour, Cooldown, SenderLimit} \subseteq Nat

NewGate == [forwards |-> << >>, lastReply |-> << >>, inflight |-> {}]

(* An OrderedDict is a sequence of pairs, in its order.                    *)
Keys(dict) == {dict[i].key : i \in DOMAIN dict}

Position(dict, key) == CHOOSE i \in DOMAIN dict : dict[i].key = key

Get(dict, key, default) == IF key \in Keys(dict) THEN dict[Position(dict, key)].value ELSE default

\* Store at the end, as an assignment and move_to_end do.
Put(dict, key, value) ==
  Append(IF key \in Keys(dict) THEN RemoveAt(dict, Position(dict, key)) ELSE dict,
         [key |-> key, value |-> value])

\* The least recent entries go until SENDER_LIMIT are left.
Newest(dict) ==
  IF Len(dict) > SenderLimit THEN SubSeq(dict, Len(dict) - SenderLimit + 1, Len(dict)) ELSE dict

\* The forwards that still count against the hour: those before the first of them go.
InWindow(times, now) ==
  LET old(k) == \A i \in 1..k : now - times[i] >= Hour
      gone == CHOOSE k \in 0..Len(times) : old(k) /\ (k < Len(times) => ~old(k + 1))
  IN  SubSeq(times, gone + 1, Len(times))

\* Mutant: the cap lets one message more through.
OneMore(times) == Len(times) <= PerHour

Allowed(times) == Len(times) < PerHour

\* Mutant: notices on their way are not looked at.
NoticeUnlessRecent(gate, sender, now) ==
  sender \in Keys(gate.lastReply) => now - Get(gate.lastReply, sender, now) >= Cooldown

\* A notice goes with a forward when none is on its way and the last one that
\* was confirmed is long enough ago.
NoticeDue(gate, sender, now) ==
  /\ sender \notin gate.inflight
  /\ sender \in Keys(gate.lastReply) => now - Get(gate.lastReply, sender, now) >= Cooldown

\* decide, for a direct message of another node while forwarding is on.
Decide(gate, sender, now) ==
  LET times == InWindow(Get(gate.forwards, sender, << >>), now)
      notice == NoticeDue(gate, sender, now)
  IN  IF Allowed(times)
      THEN [forward |-> TRUE, notice |-> notice,
            gate |-> [forwards  |-> Newest(Put(gate.forwards, sender, Append(times, now))),
                      lastReply |-> Newest(gate.lastReply),
                      inflight  |-> gate.inflight \cup (IF notice THEN {sender} ELSE {})]]
      ELSE [forward |-> FALSE, notice |-> FALSE,
            gate |-> [gate EXCEPT !.forwards = Put(@, sender, times)]]

\* reply_done: only a confirmed notice starts the cooldown.
ReplyDone(gate, sender, delivered, now) ==
  [gate EXCEPT
     !.inflight = @ \ {sender},
     !.lastReply = IF delivered THEN Newest(Put(@, sender, now)) ELSE @]

\* forward_cancelled: the newest slot of a sender is given back.
ForwardCancelled(gate, sender) ==
  LET times == Get(gate.forwards, sender, << >>)
  IN  IF times = << >> THEN gate
      ELSE [gate EXCEPT !.forwards =
              [i \in DOMAIN @ |-> IF @[i].key = sender THEN [@[i] EXCEPT !.value = Front(times)]
                                                       ELSE @[i]]]
================================================================================
