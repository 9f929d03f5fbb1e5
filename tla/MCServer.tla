--------------------------------- MODULE MCServer ---------------------------------
(***************************************************************************)
(* Two requests to the example tree.  The ephemeris is also the default    *)
(* provider of its broker, which the broker foresees (get_all_providers):  *)
(* it is run and stopped twice.                                            *)
(***************************************************************************)
EXTENDS Server, ExampleTree

CONSTANTS r1, r2

TwoRequests == {r1, r2}

TwiceEphemeris == [TreeBuild EXCEPT ![<<"global", "broker">>].default = <<"global", "ephemeris">>]

NoDevices == [c \in {<<t, "alpaca">> : t \in Telescopes} |-> <<>>]

Clocks == {<<"global", "ephemeris">>}
===============================================================================
