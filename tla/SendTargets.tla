------------------------------- MODULE SendTargets -------------------------------
(***************************************************************************)
(* Which interface a text goes out on, and under which name its recipient  *)
(* is known there (send_path.py).  An interface has the library's node     *)
(* database, a sequence of entries in the order of the dictionary, and a   *)
(* table of channels, or None when the radio shows none.                   *)
(*                                                                         *)
(* A recipient is written "hex" (!aabbccdd) or "decimal" (its node         *)
(* number).  Eight decimal digits read as a hex id too:  Reads gives the   *)
(* node that such a number of a node names when it is taken for one.       *)
(***************************************************************************)
EXTENDS Naturals, Sequences, SequencesExt, Optional

CONSTANT Reads  \* [nodes -> nodes \cup {None}]

\* The scan compares the ids without their bangs, on either side.
SameId(entry, dest) ==
  \/ entry.node = dest.node /\ entry.form = dest.form
  \/ entry.form = "hex" /\ dest.form = "decimal" /\ Reads[dest.node] = entry.node
  \/ entry.form = "decimal" /\ dest.form = "hex" /\ Reads[entry.node] = dest.node

\* resolve_dm_node: the entry for exactly that id, or the first that the scan finds.
ResolveDmNode(dest, nodes) ==
  LET exact == {i \in DOMAIN nodes : nodes[i].node = dest.node /\ nodes[i].form = dest.form}
      alike == {i \in DOMAIN nodes : SameId(nodes[i], dest)}
  IN  IF exact # {} THEN nodes[Min(exact)] ELSE IF alike # {} THEN nodes[Min(alike)] ELSE None

\* An entry that is no record says nothing.
Knows(iface, dest) ==
  LET entry == ResolveDmNode(dest, iface.nodes)
  IN  entry # None /\ entry.info # "malformed"

\* Mutant: the first interface that knows the node sends, with its key or without.
KnownIsEnough(iface, dest) == Knows(iface, dest)

Keyed(iface, dest) == Knows(iface, dest) /\ ResolveDmNode(dest, iface.nodes).info = "keyed"

\* dm_send_target walks the interfaces to the first that has the node's key; keyless is
\* the first that knows the node without it.
Walk(dest, ifaces) ==
  LET walked[i \in 0..Len(ifaces)] ==
        IF i = 0 THEN [keyed |-> 0, keyless |-> 0]
        ELSE LET before == walked[i - 1]
             IN  IF before.keyed # 0 \/ ~Knows(ifaces[i], dest) THEN before
                 ELSE IF Keyed(ifaces[i], dest) THEN [before EXCEPT !.keyed = i]
                 ELSE [before EXCEPT !.keyless = IF @ = 0 THEN i ELSE @]
  IN  walked[Len(ifaces)]

\* A node that nobody knows is tried on the first interface.
DmSendTarget(dest, ifaces) ==
  LET end == Walk(dest, ifaces)
  IN  IF end.keyed # 0 THEN [iface |-> end.keyed, sendable |-> TRUE]
      ELSE IF end.keyless # 0 THEN [iface |-> end.keyless, sendable |-> FALSE]
      ELSE [iface |-> 1, sendable |-> TRUE]

Reject == [channel |-> None, iface |-> None]

Tabled(ifaces) == {i \in DOMAIN ifaces : ifaces[i].channels # None}

\* _channel_index_owners: the interfaces that show a channel of that index.
Owners(ifaces, index) ==
  {i \in Tabled(ifaces) : \E ch \in ToSet(ifaces[i].channels) : ch.index = index}

\* Mutant: an index that no table has goes to the first interface.
AnyIndex(ifaces, index) ==
  [channel |-> index,
   iface |-> IF Owners(ifaces, index) = {} THEN 1 ELSE Min(Owners(ifaces, index))]

NumericTarget(ifaces, index) ==
  CASE Tabled(ifaces) = {} -> [channel |-> index, iface |-> 1]
    [] Tabled(ifaces) # {} /\ Owners(ifaces, index) = {} -> Reject
    [] OTHER -> [channel |-> index, iface |-> Min(Owners(ifaces, index))]

\* A channel that shows no index is taken for the first.
Index(ch) == IF ch.index = None THEN 0 ELSE ch.index

Named(table, name) == {k \in DOMAIN table : table[k].name = name}

NamedTarget(ifaces, name) ==
  LET owners == {i \in Tabled(ifaces) : Named(ifaces[i].channels, name) # {}}
      table == ifaces[Min(owners)].channels
  IN  CASE Tabled(ifaces) = {} -> [channel |-> 0, iface |-> 1]
        [] Tabled(ifaces) # {} /\ owners = {} -> Reject
        [] OTHER -> [channel |-> Index(table[Min(Named(table, name))]), iface |-> Min(owners)]

\* channel_send_target: a spec is an index or a name.
ChannelSendTarget(spec, ifaces) ==
  IF spec.index # None THEN NumericTarget(ifaces, spec.index) ELSE NamedTarget(ifaces, spec.name)
================================================================================
