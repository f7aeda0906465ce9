---------------------------- MODULE MCTransport ----------------------------
(* Model values for Transport.                                             *)
EXTENDS Transport

CONSTANTS j1, j2, j3, j4

ThreeJobs == {j1, j2, j3}
FourJobs  == {j1, j2, j3, j4}
=============================================================================
