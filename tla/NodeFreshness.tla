------------------------------ MODULE NodeFreshness ------------------------------
(***************************************************************************)
(* The overlay of what the packets themselves say about the nodes they     *)
(* come from (node_freshness.py).  The overlay is a sequence of entries in *)
(* the order the dictionary got them; update and get run under a lock, so  *)
(* they are operators.  An observation carries the clock (now), the time   *)
(* the radio set (rx, None when there is none that can be read), the hops  *)
(* and the signal.                                                         *)
(***************************************************************************)
EXTENDS Naturals, Sequences, SequencesExt, Optional

CONSTANT NodeLimit  \* OBSERVED_NODE_LIMIT

ASSUME FreshnessAssumption == NodeLimit \in Nat

Limit == IF NodeLimit > 0 THEN NodeLimit ELSE 1

\* Mutant: a time from the future is believed.
HeardAsSaid(o) == IF o.rx = None THEN o.now ELSE o.rx

\* A time that is missing or unreadable, or in the future, is now.
HeardAt(o) == IF o.rx = None \/ o.rx > o.now THEN o.now ELSE o.rx

Tracks(overlay, node) == \E i \in DOMAIN overlay : overlay[i].node = node

\* The first of the entries heard least recently.
Stalest(overlay) ==
  CHOOSE i \in DOMAIN overlay :
    /\ \A j \in DOMAIN overlay : overlay[i].lastHeard <= overlay[j].lastHeard
    /\ \A j \in 1..i - 1 : overlay[i].lastHeard < overlay[j].lastHeard

\* Room for a new node, and its entry.
Tracked(overlay, node) ==
  LET room == IF Len(overlay) >= Limit THEN RemoveAt(overlay, Stalest(overlay)) ELSE overlay
  IN  IF Tracks(overlay, node) THEN overlay
      ELSE Append(room, [node |-> node, lastHeard |-> 0, hops |-> None, signal |-> None])

\* The signal of a packet describes its sender only if it came directly.
Observed(entry, o) ==
  [entry EXCEPT
     !.lastHeard = IF HeardAt(o) > @ THEN HeardAt(o) ELSE @,
     !.hops = IF o.hops # None THEN o.hops ELSE @,
     !.signal = IF o.hops = 0 /\ o.signal # None THEN o.signal ELSE @]

Update(overlay, o) ==
  LET tracked == Tracked(overlay, o.node)
  IN  [i \in DOMAIN tracked |->
         IF tracked[i].node = o.node THEN Observed(tracked[i], o) ELSE tracked[i]]

\* The overlay after each of a sequence of observations.
Overlays(log) ==
  LET overlay[t \in 0..Len(log)] == IF t = 0 THEN << >> ELSE Update(overlay[t - 1], log[t])
  IN  overlay

Entry(overlay, node) == overlay[CHOOSE i \in DOMAIN overlay : overlay[i].node = node]
================================================================================
