------------------------------- MODULE MCInbound -------------------------------
(* Model values for Inbound: nodes the agent answers, and nodes it does not. *)
EXTENDS Inbound, TLC

CONSTANTS owner, mate, x, y

OneFriend    == {owner}
TwoFriends   == {owner, mate}
TwoStrangers == {x, y}
Unknown      == Permutations(TwoStrangers)
Alike        == Permutations(TwoFriends) \cup Permutations(TwoStrangers)
================================================================================
