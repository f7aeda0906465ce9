-------------------------------- MODULE Courier --------------------------------
(***************************************************************************)
(* What the adapter's offline queue promises about a chunk of text it has  *)
(* accepted ("queued") because no interface was there: the chunk is sent,  *)
(* or given up for a reason, and once it is either the queue never puts    *)
(* another copy of it on the air.  Only a chunk whose last send was left   *)
(* running at a teardown may still leave the radio unseen.                 *)
(***************************************************************************)
EXTENDS Naturals

CONSTANT Messages

VARIABLES
  state,   \* "new": not accepted; "accepted"; "unsure": left to a running send;
           \* "sent"; "lost": evicted from a full queue, or dropped
  copies   \* packets the queue has put on the air for a message

courierVars == <<state, copies>>

Init ==
  /\ state = [m \in Messages |-> "new"]
  /\ copies = [m \in Messages |-> 0]

Accept(m) ==
  /\ state[m] = "new"
  /\ state' = [state EXCEPT ![m] = "accepted"]
  /\ UNCHANGED copies

\* A full queue makes room for one message by losing another.
AcceptInstead(m, old) ==
  /\ state[m] = "new" /\ state[old] = "accepted"
  /\ state' = [state EXCEPT ![m] = "accepted", ![old] = "lost"]
  /\ UNCHANGED copies

Emit(m) ==
  /\ state[m] \in {"accepted", "unsure"}
  /\ copies' = [copies EXCEPT ![m] = @ + 1]
  /\ UNCHANGED state

\* A message is sent only if a copy of it went out.
Settle(m) ==
  /\ state[m] = "accepted"
  /\ \E outcome \in {"sent", "lost", "unsure"} :
       /\ outcome = "sent" => copies[m] > 0
       /\ state' = [state EXCEPT ![m] = outcome]
  /\ UNCHANGED copies

Next ==
  \E m \in Messages :
    \/ Accept(m) \/ Emit(m) \/ Settle(m)
    \/ \E old \in Messages : AcceptInstead(m, old)

Spec == Init /\ [][Next]_courierVars
================================================================================
