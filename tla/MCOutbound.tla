------------------------------ MODULE MCOutbound ------------------------------
(* Model values for Outbound: a call of several chunks, of any kind, whose *)
(* recipient may have no public key.                                       *)
EXTENDS Outbound, TLC

CONSTANT s1

OneSender   == {s1}
AnyKind     == s1 :> {"plain", "noQueue", "ack"}
PlainOnly   == s1 :> {"plain"}
TwoChunks   == s1 :> 2
ThreeChunks == s1 :> 3
================================================================================
