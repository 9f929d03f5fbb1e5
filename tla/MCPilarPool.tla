------------------------------ MODULE MCPilarPool ------------------------------
(* Instances of PilarPool for TLC. *)
EXTENDS PilarPool

CONSTANTS get, slew, park, i1, i2, i3, n1, n2, n3

ThreeCommands == {get, slew, park}
TwoCommands == {get, slew}
TwoMoves == {slew, park}
OneMove == {slew}
ThreeIds == {i1, i2, i3}
TwoIds == {i1, i2}
ThreeConnections == {n1, n2, n3}
================================================================================
