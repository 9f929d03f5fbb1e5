------------------------------- MODULE MCRouter -------------------------------
(* Instances of Router for TLC. *)
EXTENDS Router

CONSTANTS r1, r2, r3

ThreeRequests == {r1, r2, r3}
=============================================================================
