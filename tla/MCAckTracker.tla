---------------------------- MODULE MCAckTracker ----------------------------
(* Model values for AckTracker: the sends are interchangeable as long as all *)
(* or none of them are DMs, the packet ids always.                         *)
EXTENDS AckTracker, TLC

CONSTANTS s1, s2, p1, p2

OneSend == {s1}
TwoSends == {s1, s2}
OneId    == {p1}
TwoIds   == {p1, p2}

AllKinds == {"ack", "far_ack", "relay", "nak"}

\* A far_ack does what an ack does that pubsub never delivers.
NearKinds == AllKinds \ {"far_ack"}

TwoSendsSymmetry == Permutations(TwoSends)
TwoByTwoSymmetry == Permutations(TwoSends) \cup Permutations(TwoIds)
=============================================================================
