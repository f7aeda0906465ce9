---------------------------------- MODULE Intake ----------------------------------
(***************************************************************************)
(* What the receive pipeline decides about one packet:                     *)
(* InboundProcessor.process (inbound.py), and what the adapter's           *)
(* _on_receive does with its result, up to the gate of the relays and the  *)
(* tasks, which are Inbound's.                                             *)
(*                                                                         *)
(* A packet has its sender under one of two fields (fromId, from), a       *)
(* measured signal or none, its kind of payload, its text (None, "blank"   *)
(* or "words") and whether it is for all.  A configuration has the         *)
(* adapter's own node, the allowlists, and the settings for channels and   *)
(* for forwarding.                                                         *)
(***************************************************************************)
EXTENDS NodeIds

\* normalize_packet: whose packet it is, if anybody's.
Sender(packet) ==
  LET from == IF packet.fromId # None THEN packet.fromId ELSE packet.from
  IN  IF from = None THEN None ELSE NormalizeNodeId(from)

Authorized(sender, config) ==
  config.allowAll \/ IsAuthorizedNode(sender, AllowedNodes(config.lists))

\* Mutant: who may not talk to the agent is not watched either.
RecordsOfFriends(packet, config) ==
  IF Sender(packet) # None /\ Authorized(Sender(packet), config) THEN {"freshness", "signal"} ELSE {}

\* What process records of a packet, before it asks who sent it.
Records(packet, config) ==
  IF Sender(packet) = None THEN {}
  ELSE IF Sender(packet) = config.me THEN {"freshness"}
  ELSE {"freshness"} \cup {what \in {"signal"} : packet.signal}
         \cup ({packet.kind} \cap {"telemetry", "position"})

\* The kind of its result.
Outcome(packet, config) ==
  IF Sender(packet) = None THEN "skipped"
  ELSE IF Sender(packet) = config.me THEN "echo"
  ELSE IF packet.kind # "text" THEN packet.kind
  ELSE IF ~Authorized(Sender(packet), config) THEN "unauthorized"
  ELSE IF packet.text = None THEN "noText" ELSE "text"

\* decide, before it looks at the limits: forwarding is on, the owner's node is
\* another one, and the text is a direct message of neither.
Forwardable(packet, config) ==
  /\ config.target # None /\ config.target # config.me
  /\ ~packet.broadcast
  /\ Sender(packet) \notin {config.target, config.me}

\* _on_receive: the conversation that a text goes to.
Route(packet, config) ==
  LET outcome == Outcome(packet, config)
  IN  CASE outcome = "unauthorized" ->
             IF packet.text = "words" /\ Forwardable(packet, config) THEN "owner" ELSE "nobody"
        [] outcome = "text" ->
             IF packet.broadcast THEN IF config.channels THEN "channel" ELSE "nobody" ELSE "agent"
        [] OTHER -> "nobody"
===================================================================================
