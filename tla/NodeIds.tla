--------------------------------- MODULE NodeIds ---------------------------------
(***************************************************************************)
(* The forms of a node id and the two gates a sender passes: the adapter's *)
(* own allowlist, and the gateway's, which compares the environment's list *)
(* with the sender exactly (adapter.py, inbound.py).                       *)
(*                                                                         *)
(* There are two lists of senders:  env is MESHTASTIC_ALLOWED_NODES, or    *)
(* None when it is not set, and the gateway reads no other;  legacy is     *)
(* what MESHTASTIC_ALLOWED_USERS or the platform's own settings name.      *)
(*                                                                         *)
(* A form is a record: how many bangs it starts with, whether it has       *)
(* capitals, and its body, which is a node (eight hex digits) or some      *)
(* other word.                                                             *)
(***************************************************************************)
EXTENDS Naturals, Optional

CONSTANTS
  HexIds,  \* bodies of eight hex digits
  Words    \* other bodies

Forms == [bangs : 0..2, upper : BOOLEAN, body : HexIds \cup Words]

Lower(form) == [form EXCEPT !.upper = FALSE]
Bare(form) == [form EXCEPT !.bangs = 0]
Banged(form) == [form EXCEPT !.bangs = @ + 1]

\* _normalize_node_id of a text: hex digits get one bang, other words stay as
\* they are but for their case.
NormalizeNodeId(form) ==
  LET low == Lower(form)
  IN  IF low.body \in HexIds /\ low.bangs <= 1 THEN [low EXCEPT !.bangs = 1] ELSE low

\* Mutant: the list is kept as it is written.
AsWritten(parts) == parts

\* The parts of the list that the adapter takes for its own.
Listed(lists) == IF lists.env # None THEN lists.env ELSE lists.legacy

\* The adapter's allowed_nodes: the parts of its list, with and without a bang.
AllowedNodes(lists) ==
  UNION {LET p == Lower(part) IN {p, IF p.bangs = 0 THEN Banged(p) ELSE Bare(p)} :
           part \in Listed(lists)}

\* _dm_policy: what the gateway, which may trust the adapter's gate, is told of it.
DmPolicy(lists, allowAll) ==
  IF AllowedNodes(lists) # {} /\ ~allowAll THEN "allowlist" ELSE "open"

\* _expand_allowlist_env_for_gateway: what becomes of the environment's list, if it is set.
ExpandedEnv(parts) ==
  UNION {LET low == Lower(part) IN {part, low, Bare(low), Banged(Bare(low))} : part \in parts}

\* is_authorized_node: one leading bang may be there or not, more may not.
IsAuthorizedNode(form, allowed) ==
  LET nid == Lower(form)
  IN  /\ nid.bangs < 2
      /\ \/ nid \in allowed
         \/ nid.bangs = 1 /\ Bare(nid) \in allowed

\* The gateway's own check, by its list, of the sender that the adapter hands it.
GatewayAccepts(form, env) == form \in ExpandedEnv(env)

\* _expand_home_channel_env_for_gateway: what the setting is rewritten to, a node
\* or a channel after the prefix, or None when it is left alone.
HomeChannel(setting) ==
  CASE setting.kind = "prefixed" -> None
    [] setting.kind = "channel"  -> setting
    [] OTHER -> IF setting.id.bangs > 0 \/ setting.id.body \in HexIds
                THEN [kind |-> "node", id |-> NormalizeNodeId(setting.id)] ELSE None
================================================================================
