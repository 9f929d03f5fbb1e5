------------------------------ MODULE MCObservatory ------------------------------
(***************************************************************************)
(* Three requests in two messages to the example tree, with a Pilar mount  *)
(* and an IRIS camera among the Alpaca devices of telescope dev.           *)
(***************************************************************************)
EXTENDS Observatory, ExampleTree

CONSTANTS r1, r2, r3, m1, m2

MCRequests == {r1, r2, r3}
MCMessages == {m1, m2}

DeviceOf(protocol, variables, actions) ==
    [protocol |-> protocol, variables |-> variables, actions |-> actions, own |-> {}, checked |-> {}]

\* Of the methods of the class Telescope.
MountOf(device) == [device EXCEPT !.own = {<<"motorstatus", FALSE>>}, !.checked = {<<"slew", TRUE>>}]

MCDevices ==
    LET simple == <<>> :> DeviceOf("alpaca", {}, {}) @@ <<"dome">> :> DeviceOf(Nil, {}, {})
    IN  <<"sim", "alpaca">> :> simple
        @@ <<"dummytest", "alpaca">> :> simple
        @@ <<"dev", "alpaca">> :> (simple
             @@ <<"mount">>  :> MountOf(DeviceOf("pilar", {"altitude", "azimuth"}, {"slew"}))
             @@ <<"camera">> :> DeviceOf("iris", {"gain", "offset", "ccdtemperature"}, {}))

\* The programs of a slew and of an action whose variable nobody mapped, and a
\* PUT of one variable.
MCPrograms ==
    LET set(v)    == [kind |-> "set", variable |-> v, value |-> 1]
        verify(v) == [kind |-> "verify", targets |-> v]
    IN  { <<set("azimuth"), set("altitude"), verify(<<<<"azimuth", 1>>, <<"altitude", 1>>>>)>>,
          <<set("altitude")>>,
          <<[kind |-> "unmapped"], set("azimuth")>> }

\* For the run about time: each kind of step once.
ShortPrograms ==
    { <<[kind |-> "set", variable |-> "azimuth", value |-> 1],
        [kind |-> "verify", targets |-> <<<<"azimuth", 1>>>>]>>,
      <<[kind |-> "unmapped"]>> }

Get(address)       == [address |-> address, put |-> FALSE, cycle |-> FALSE, damaged |-> FALSE]
PutTo(address)     == [Get(address) EXCEPT !.put = TRUE]
Subscribe(address) == [Get(address) EXCEPT !.cycle = TRUE]
Damaged            == [Get(<<>>) EXCEPT !.damaged = TRUE]

\* r3 in a message of its own, or with the others.
Two(a, b, c) == LET asked == r1 :> a @@ r2 :> b @@ r3 :> c
                IN  [r \in MCRequests |-> [message |-> IF r = r3 THEN m2 ELSE m1] @@ asked[r]]
One(a, b, c) == LET asked == Two(a, b, c)
                IN  [r \in MCRequests |-> [asked[r] EXCEPT !.message = m1]]

Gain        == Get(<<"dev", "camera", "gain">>)
Offset      == Get(<<"dev", "camera", "offset">>)
Temperature == Get(<<"dev", "camera", "ccdtemperature">>)
Slew        == PutTo(<<"dev", "mount", "slew">>)
Shutter     == <<"dev", "dome", "shutterstatus">>
Altitude    == <<"dev", "mount", "altitude">>
Utc         == <<"global", "ephemeris", "utc">>

MCLoads ==
    { One(Gain, Offset, Temperature),
      One(Slew, Damaged, Slew),
      Two(Temperature, Subscribe(Shutter), Get(<<"dev", "custom_guider">>)),
      Two(Subscribe(Altitude), Subscribe(Utc), PutTo(<<"dev", "mount", "nonsense">>)),
      Two(Get(<<"dev", "mount", "motorstatus">>), Get(<<"dev", "nothing", "at">>), Get(<<"dev", "shutterstatus">>)),
      Two(Get(<<"nobody", "dome", "azimuth">>), Subscribe(<<"nobody">>), Subscribe(<<"dev", "nothing", "at">>)),
      Two(Get(<<"dev", "access_grantor">>), Get(<<"dev", "access_grantor", "take_control">>),
           PutTo(Shutter)),
      Two(Get(<<>>), Get(<<"dev">>), Get(<<"global", "executor", "method1">>)),
      Two(PutTo(<<"dev", "access_grantor", "take_control">>), [PutTo(Shutter) EXCEPT !.cycle = TRUE],
           Subscribe(<<"dev", "camera", "imagearray">>)) }
\* For the run about time: two requests where they meet.
FewLoads ==
    { One(Gain, Temperature, Damaged),
      One(Slew, Damaged, Slew),
      Two(Subscribe(Shutter), Damaged, PutTo(Shutter)) }

MCUncachable == {<<"dev", "camera", "imagearray">>}
================================================================================
