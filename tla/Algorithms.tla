------------------------------- MODULE Algorithms -------------------------------
(***************************************************************************)
(* The adapter's pure algorithms on small inputs.  A state is one call of  *)
(* one of them, or a sequence of packets that the overlay of nodes has     *)
(* observed; the properties compare what the code's way of computing it    *)
(* gives with what its callers rely on.                                    *)
(***************************************************************************)
EXTENDS Chunking, SendTargets, NodeFreshness, Intake, TcpTargets

CONSTANTS
  TextMax, Settings,            \* Chunking: lengths of texts, chunk settings
  Databases, Recipients,        \* SendTargets: node databases, recipients,
  DmRadios,                     \* and how many interfaces a direct message has
  Tables, Specs,                \* SendTargets: channel tables, channel specs,
  ChannelRadios,                \* and how many interfaces a channel message has
  ObservationMax, Packets,      \* NodeFreshness: how many packets, and which
  Envelopes, Configs,           \* Intake: packets and configurations
  Chars, HostMax, Ports         \* TcpTargets: characters and lengths of hosts, ports

\* The lists of senders that the settings may name.
Lists == [env : (SUBSET Forms) \cup {None}, legacy : SUBSET Forms]

\* The inputs are what their types say.
ASSUME AlgorithmsAssumption ==
  /\ {TextMax, DmRadios, ChannelRadios, ObservationMax, HostMax} \subseteq Nat /\ None \notin Nat
  /\ Settings \subseteq Int \cup {None}
  /\ \A nodes \in Databases : DOMAIN nodes \subseteq Nat
  /\ \A table \in Tables \ {None} : DOMAIN table \subseteq Nat
  /\ \A o \in Packets : /\ DOMAIN o = {"node", "rx", "now", "hops", "signal"}
                       /\ o.rx \in (Nat \ {0}) \cup {None}
  /\ \A packet \in Envelopes :
       /\ {packet.fromId, packet.from} \subseteq Forms \cup {None} /\ packet.broadcast \in BOOLEAN
       /\ packet.kind \in {"text", "telemetry", "position", "other"}
  /\ \A config \in Configs : config.lists \in Lists /\ config.allowAll \in BOOLEAN
  /\ DigitSet \cap {":", "[", "]"} = {}
  /\ \A port \in Ports : port \in Seq(DigitSet) /\ port # << >>

VARIABLE call

Seqs(S, n) == UNION {[1..k -> S] : k \in 0..n}
NonEmptySeqs(S, n) == Seqs(S, n) \ {<< >>}

Init == call = [of |-> "none"]

Chunk ==
  \E text \in Seqs({"narrow", "wide", "space"}, TextMax), setting \in Settings :
    call' = [of |-> "chunk", text |-> text, setting |-> setting]

SendDm ==
  \E ifaces \in NonEmptySeqs({[nodes |-> d] : d \in Databases}, DmRadios), dest \in Recipients :
    call' = [of |-> "dm", ifaces |-> ifaces, dest |-> dest]

SendChannel ==
  \E ifaces \in NonEmptySeqs({[channels |-> t] : t \in Tables}, ChannelRadios), spec \in Specs :
    call' = [of |-> "channel", ifaces |-> ifaces, spec |-> spec]

\* Few senders on either list, or on the one that the other hides.
ListsOf(a, b) ==
  [env : {{a, b}}, legacy : {{}}] \cup [env : {None, {}, {a}}, legacy : {{b}}]

Gate ==
  \E a, b, form \in Forms :
    \E lists \in ListsOf(a, b) :
      call' = [of |-> "gate", lists |-> lists, form |-> form]

Receive ==
  \E packet \in Envelopes, config \in Configs :
    call' = [of |-> "packet", packet |-> packet, config |-> config]

Configure ==
  \E host \in NonEmptySeqs(Chars, HostMax), port \in Ports :
    call' = [of |-> "tcp", host |-> host, port |-> port]

Observe ==
  \E o \in Packets :
    \/ /\ call.of = "none"
       /\ call' = [of |-> "heard", packets |-> <<[o EXCEPT !.now = 1]>>]
    \/ /\ call.of = "heard" /\ Len(call.packets) < ObservationMax
       /\ call' = [call EXCEPT !.packets = Append(@, [o EXCEPT !.now = Len(call.packets) + 1])]

Next ==
  \/ call.of = "none" /\ (Chunk \/ SendDm \/ SendChannel \/ Gate \/ Receive \/ Configure)
  \/ Observe

Spec == Init /\ [][Next]_call

-----------------------------------------------------------------------------
(* Properties.                                                             *)

\* A long text is cut into chunks that fit the budget with their prefixes, agree
\* with each other on their number, cut no word that could be kept whole, and
\* together are the text.
ChunksRight ==
  call.of = "chunk" =>
    LET limit == ChunkBytes(call.setting)
        result == ChunkMessage(call.text, call.setting)
        chunks == result.chunks
    IN  /\ limit \in Floor..Ceiling
        /\ ~result.tooLong => Joined(chunks) = IF Blank(call.text) THEN << >> ELSE call.text
        /\ Len(chunks) <= MaxChunks
        /\ \A i \in DOMAIN chunks :
             /\ chunks[i].body # << >> /\ ChunkSize(chunks[i]) <= limit
             /\ Len(chunks) > 1 => chunks[i].index = i /\ chunks[i].total = Len(chunks)
             /\ i < Len(chunks) =>
                  \/ Last(chunks[i].body) = "space"
                  \/ \A j \in 2..Len(chunks[i].body) : chunks[i].body[j] # "space"

\* The entry under which a database knows a recipient written as a hex id is its
\* own, or, if it has none, the decimal number of a node that reads as that id.
OwnEntry(nodes, dest, entry) ==
  \/ entry.node = dest.node /\ entry.form = "hex"
  \/ /\ entry.form = "decimal" /\ Reads[entry.node] = dest.node
     /\ \A e \in ToSet(nodes) : ~(e.node = dest.node /\ e.form = "hex")

\* A direct message goes out on the first interface that has the node's key, and
\* is refused only when those that know the node all lack it; a hex id is sent to
\* that node, or to one whose decimal number reads as the id where the database has
\* no entry for the id itself; a channel message reaches only a radio on which that
\* channel is the one that was named.
TargetsRight ==
  /\ call.of = "dm" =>
       LET target == DmSendTarget(call.dest, call.ifaces)
           knowing == {i \in DOMAIN call.ifaces : Knows(call.ifaces[i], call.dest)}
           entry(i) == ResolveDmNode(call.dest, call.ifaces[i].nodes)
           keyed == {i \in knowing : entry(i).info = "keyed"}
       IN  /\ target.sendable <=> (knowing # {} => keyed # {})
           /\ keyed # {} => target.iface = Min(keyed)
           /\ knowing = {} => target.iface = 1
           /\ call.dest.form = "hex" =>
                \A i \in knowing : OwnEntry(call.ifaces[i].nodes, call.dest, entry(i))
  /\ call.of = "channel" =>
       LET target == ChannelSendTarget(call.spec, call.ifaces)
           tabled == {i \in DOMAIN call.ifaces : call.ifaces[i].channels # None}
           named(i) == {ch \in ToSet(call.ifaces[i].channels) :
                          IF call.spec.index # None THEN ch.index = call.spec.index
                                                    ELSE ch.name = call.spec.name}
       IN  /\ target.iface = None <=> tabled # {} /\ \A i \in tabled : named(i) = {}
           /\ target.iface # None /\ tabled # {} =>
                /\ \E ch \in named(target.iface) : ch.index \in {target.channel, None}
                /\ \A i \in tabled : i < target.iface => named(i) = {}

\* The overlay of a stream of packets: bounded, with the latest sender in it; a
\* node of it was heard when its freshest packet since it came in says, though
\* none from the future; its signal comes from its last direct packet.
FreshnessRight ==
  call.of = "heard" =>
    LET log == call.packets
        now == Len(log)
        overlays == Overlays(log)
        overlay(t) == overlays[t]
        joined(n) == CHOOSE t \in 1..now : /\ \A u \in t..now : Tracks(overlay(u), n)
                                           /\ ~Tracks(overlay(t - 1), n)
        stay(n) == {t \in joined(n)..now : log[t].node = n}
        direct(n) == {t \in stay(n) : log[t].hops = 0 /\ log[t].signal # None}
        latest(times) == CHOOSE t \in times : \A u \in times : u <= t
        heard(t) == IF log[t].rx = None \/ log[t].rx > t THEN t ELSE log[t].rx
    IN  /\ Len(overlay(now)) <= Limit /\ Tracks(overlay(now), log[now].node)
        /\ \A i \in DOMAIN overlay(now) :
             LET entry == overlay(now)[i]
                 n == entry.node
             IN  /\ entry.lastHeard \in {heard(t) : t \in stay(n)}
                 /\ \A t \in stay(n) : heard(t) <= entry.lastHeard
                 /\ entry.signal = IF direct(n) = {} THEN None ELSE log[latest(direct(n))].signal
        /\ \A n \in {o.node : o \in ToSet(log)} :
             Tracks(overlay(now - 1), n) /\ ~Tracks(overlay(now), n) =>
               \A i \in DOMAIN overlay(now - 1) :
                 Entry(overlay(now - 1), n).lastHeard <= overlay(now - 1)[i].lastHeard

\* The environment's list lets the same senders in at the adapter and, in the form
\* that the adapter hands on, at the gateway, and hides any other list; a sender who
\* is let in by whichever list is in it, and the gateway, which may not read that
\* list, is told that there is one.  Only such a sender talks to the agent, in a
\* direct message or a channel that is asked for; only a stranger's direct message
\* goes to the owner, who is neither its sender nor this node; and what is recorded
\* of a packet does not depend on the list.
IntakeRight ==
  /\ call.of = "gate" =>
       LET sender == NormalizeNodeId(call.form)
           lists == call.lists
           listed == IsAuthorizedNode(sender, AllowedNodes(lists))
           home == HomeChannel([kind |-> "node", id |-> call.form])
       IN  /\ lists.env # None =>
                (listed <=> sender.bangs < 2 /\ GatewayAccepts(sender, lists.env))
           /\ listed => /\ DmPolicy(lists, FALSE) = "allowlist"
                        /\ \E part \in Listed(lists) : part.body = sender.body
           /\ NormalizeNodeId(sender) = sender
           /\ home # None => home.id = sender
  /\ call.of = "packet" =>
       LET packet == call.packet
           config == call.config
           route == Route(packet, config)
           sender == Sender(packet)
       IN  /\ route \in {"agent", "channel"} =>
                /\ packet.kind = "text" /\ sender # config.me
                /\ \/ config.allowAll
                   \/ /\ DmPolicy(config.lists, FALSE) = "allowlist"
                      /\ config.lists.env # None => GatewayAccepts(sender, config.lists.env)
                /\ route = "agent" <=> ~packet.broadcast
           /\ route = "owner" =>
                /\ ~Authorized(sender, config) /\ ~packet.broadcast
                /\ config.target \notin {sender, config.me}
           /\ \A other \in Configs : other.me = config.me =>
                Records(packet, other) = Records(packet, config)
           /\ sender # None => "freshness" \in Records(packet, config)

\* What the adapter writes into the key of a TCP connection is what it reads from
\* it: names, IPv6 addresses, and addresses in brackets.
RoundTrip ==
  call.of = "tcp" =>
    LET host == call.host
        brackets == {i \in DOMAIN host : host[i] \in {"[", "]"}}
        inside == SubSeq(host, 2, Len(host) - 1)
        parsed == ParseTcpTarget(TcpTarget(host, call.port))
    IN  /\ brackets = {} => parsed = [host |-> host, port |-> call.port]
        /\ brackets = {1, Len(host)} /\ Head(host) = "[" /\ Last(host) = "]" =>
             parsed = [host |-> inside, port |-> call.port]
=================================================================================
