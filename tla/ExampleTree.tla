------------------------------- MODULE ExampleTree -------------------------------
(***************************************************************************)
(* The tree of tree_build_example.py, which every build file for a real    *)
(* site follows: for each telescope a chain of components from its name to *)
(* its devices, and a chain for what belongs to none.                      *)
(***************************************************************************)
EXTENDS Tree, TLC

Telescopes == {"sim", "dev", "dummytest"}

Chain(kind, sub)         == [Node(kind) EXCEPT !.sub = sub]
Provider(name, sub)      == [Chain("provider", sub) EXCEPT !.name = name]
DefaultBroker(list, c)   == [Node("default broker") EXCEPT !.list = list, !.default = c]
Handler(name, commands, actions) ==
    [Node("handler") EXCEPT !.name = name, !.commands = commands, !.actions = actions]

\* PUSH_DRIVEN, after set_change_notifier.
Wired(node) == [node EXCEPT !.pushDriven = TRUE, !.wired = TRUE]

AccessGrantor == Wired(Handler("access_grantor",
    {"current_user", "timeout_current_control", "is_access", "safety_cutoff_state"},
    {"take_control", "break_control", "return_control", "engage_safety_cutoff", "disengage_safety_cutoff"}))
PlanExecutor  == Handler("executor", {"method1", "method2"}, {})
Ephemeris     == Wired(Handler("ephemeris", {"utc", "method2"}, {}))
CustomGuider  == Handler("custom_guider", {}, {})

\* What all chains begin with, the broker's components being `components`.
Entrance(name, components) ==
    <<name, "provider">> :> Provider(name, <<name, "freezer">>)
    @@ <<name, "freezer">> :> Chain("freezer", <<name, "cache">>)
    @@ <<name, "cache">>   :> Chain("cache", <<name, "broker">>)
    @@ <<name, "broker">>  :> components

Telescope(t) ==
    LET services == <<<<t, "grantor">>, <<t, "executor">>>>
    IN  Entrance(t, DefaultBroker(IF t = "dev" THEN Append(services, <<t, "guider">>) ELSE services,
                               <<t, "blocker">>))
        @@ <<t, "grantor">>  :> AccessGrantor
        @@ <<t, "executor">> :> PlanExecutor
        @@ <<t, "blocker">>  :> Chain("blocker", <<t, "alpaca">>)
        @@ <<t, "alpaca">>   :> [Node("adapter") EXCEPT !.name = t]
        @@ (IF t = "dev" THEN <<t, "guider">> :> CustomGuider ELSE <<>>)

Global == Entrance("global", DefaultBroker(<<<<"global", "ephemeris">>>>, Nil))
          @@ <<"global", "ephemeris">> :> Ephemeris

\* tree_build.
FrontBroker == <<"oca", "broker">>
TreeBuild ==
    Telescope("sim") @@ Telescope("dev") @@ Telescope("dummytest") @@ Global
    @@ FrontBroker :> [Node("broker") EXCEPT !.list = <<<<"sim", "provider">>, <<"dev", "provider">>,
                                                       <<"dummytest", "provider">>, <<"global", "provider">>>>]
================================================================================
