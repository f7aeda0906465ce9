------------------------------ MODULE MCSolicited ------------------------------
(* Model values for Solicited: two calls, which may ask one node for the same *)
(* thing or for two.  Keys are alike, so it does not matter which one the    *)
(* first call asks for.                                                    *)
EXTENDS Solicited, TLC

CONSTANTS c1, c2, telemetry, position

TwoCalls == {c1, c2}
TwoKeys  == {telemetry, position}
SameOrTwo == (c1 :> {telemetry}) @@ (c2 :> TwoKeys)
================================================================================
