---------------------------------- MODULE Tree ----------------------------------
(***************************************************************************)
(* The tree of components a build file makes (tree_build), and what the    *)
(* server reads off it without waiting for anything: the way of a request  *)
(* from component to component (get_response), the components that push    *)
(* (push_wiring.py), what run and stop visit, and what is published.       *)
(***************************************************************************)
EXTENDS Naturals, Sequences, SequencesExt, FiniteSets, FiniteSetsExt

CONSTANTS Tree,     \* the components: a function to Nodes
          Root,     \* the data_provider of the solver
          Devices,  \* for each adapter, its devices: a function from paths to protocols
          Nil

(* A broker looks for a name in its list, a default broker has somewhere   *)
(* to go without one, a provider has a name and passes requests on, a      *)
(* handler is a provider that answers `commands`, or `actions` of a PUT,   *)
(* itself, a freezer, cache or blocker stands on the way and an adapter is *)
(* the way's end.                                                          *)
Node(kind) == [kind |-> kind, name |-> Nil, list |-> <<>>, default |-> Nil, sub |-> Nil,
               commands |-> {}, actions |-> {}, pushDriven |-> FALSE, wired |-> FALSE]

Components == DOMAIN Tree
Named      == {c \in Components : Tree[c].kind \in {"provider", "handler"}}

Links(c) == ToSet(Tree[c].list) \cup ({Tree[c].default, Tree[c].sub} \ {Nil})

\* How many components stand one below the other from c on, c among them.
Height == LET height[c \in Components] == 1 + Max({0} \cup {height[d] : d \in Links(c)}) IN height

(* A component is given what stands below it when it is made               *)
(* (subcontractor, list_of_components): nothing stands below itself.  The  *)
(* freezer is made with a cache (tree_conditional_freezer 55).             *)
ASSUME TreeAssumption ==
    /\ IsFiniteSet(Components)
    /\ Root \in Components
    /\ Nil \notin Components
    /\ \A c \in Components : /\ Tree[c].list \in Seq(Named)
                             /\ Links(c) \subseteq Components
                             /\ Height[c] \in 0 .. Cardinality(Components)
                             /\ \A d \in Links(c) : Height[d] < Height[c]
                             /\ Tree[c].kind = "freezer" => Tree[c].sub # Nil
    /\ DOMAIN Devices = {c \in Components : Tree[c].kind = "adapter"}
-------------------------------------------------------------------------------
(* One step of a request on its way: on to a component with an index into  *)
(* the address, an answer without a value, or the end of the way.          *)

Forward(c, i)          == [at |-> c, index |-> i]
Answer(code, severity) == [code |-> code, severity |-> severity]
Arrived                == [at |-> Nil]

Ok == Answer("ok", "")

\* The first of the list that is called so.
FirstNamed(list, name) ==
    LET called == {k \in DOMAIN list : Tree[list[k]].name = name}
    IN  IF called = {} THEN Nil ELSE list[Min(called)]

NamedIn(list, adr, i) == IF i > Len(adr) THEN Nil ELSE FirstNamed(list, adr[i])

\* `named` is the provider on the list that the address names at i.
BrokerHop(named, adr, i) ==
    CASE i > Len(adr)  -> Answer("1001", "NORMAL")
      [] named = Nil   -> Answer("1002", "NORMAL")
      [] OTHER         -> Forward(named, i)

DefaultHop(default, named, i) ==
    CASE named # Nil                    -> Forward(named, i)
      [] named = Nil /\ default # Nil   -> Forward(default, i)
      [] OTHER                          -> Answer("1002", "NORMAL")

\* get_response after TreeStructureError, on to the subcontractor.
LinkHop(node, i) == IF node.sub = Nil THEN Answer("3001", "CRITICAL")
                    ELSE Forward(node.sub, i)

\* get_value of the grantor, the ephemeris, the executor and the old guider.
HandlerHop(node, adr, i, put) ==
    LET known == node.commands \cup (IF put THEN node.actions ELSE {})
    IN  CASE i > Len(adr) /\ node.commands # {}    -> Answer("1001", "NORMAL")
          [] i <= Len(adr) /\ adr[i] \in known     -> Arrived
          [] OTHER                                 -> Answer("1002", "CRITICAL")

\* get_response of a provider takes its name off the address.
ProviderHop(node, adr, i, put) ==
    CASE i > Len(adr)             -> Answer("2002", "NORMAL")
      [] adr[i] # node.name       -> Answer("1002", "NORMAL")
      [] node.kind = "handler"    -> HandlerHop(node, adr, i + 1, put)
      [] OTHER                    -> LinkHop(node, i + 1)

Hop(node, adr, i, put) ==
    CASE node.kind = "broker"                  -> BrokerHop(NamedIn(node.list, adr, i), adr, i)
      [] node.kind = "default broker"          -> DefaultHop(node.default, NamedIn(node.list, adr, i), i)
      [] node.kind \in {"provider", "handler"} -> ProviderHop(node, adr, i, put)
      [] node.kind = "adapter"                 -> Arrived
      [] OTHER                                 -> LinkHop(node, i)

(* The way of a request from a component: the components it comes by, each *)
(* with the index it has there, and its end.  After a step it goes on by   *)
(* one of the ways, or ends.                                               *)
Onward(step, hop, ways) ==
    IF "index" \in DOMAIN hop THEN [ways[hop] EXCEPT !.steps = <<step>> \o @]
                              ELSE [steps |-> <<step>>, end |-> hop]

Stations(adr) == [at : Components, index : 1 .. Len(adr) + 1]

\* The ways of a request with this address, wherever it is.
Ways(adr, put) ==
    LET ways[step \in Stations(adr)] == Onward(step, Hop(Tree[step.at], adr, step.index, put), ways)
    IN  ways

Way(adr, put, c, i) == Ways(adr, put)[Forward(c, i)]
-------------------------------------------------------------------------------
(* The devices of an adapter (device_tree.py): the protocol of each, Nil   *)
(* for that of the device above it; what its connector has a command or an *)
(* action for; and of the methods and whether they are a PUT, those its    *)
(* class has itself and those whose arguments it checks.                   *)

\* connector: of the device, or of the nearest above that has a protocol.
Protocol(adapter, path) ==
    LET own == {k \in 0 .. Len(path) : Devices[adapter][SubSeq(path, 1, k)].protocol # Nil}
    IN  IF own = {} THEN Nil ELSE Devices[adapter][SubSeq(path, 1, Max(own))].protocol

\* get and put of the Pilar and the IRIS connector look a method up first, and
\* have none of those the device's own methods use (action, commandstring, ...).
Unknown(device, protocol, method, put) ==
    /\ protocol \in {"iris", "pilar"}
    /\ \/ <<method, put>> \in device.own
       \/ method \notin device.variables \cup (IF put THEN device.actions ELSE {})

(* get_value of the adapter, up to the call of the connector: the name of  *)
(* a method alone is looked for on the observatory, which has no get.      *)
DeviceHop(adapter, rest, put) ==
    LET path     == Front(rest)
        device   == Devices[adapter][path]
        protocol == Protocol(adapter, path)
    IN  CASE rest = <<>>                                  -> Answer("1001", "NORMAL")
          [] path \notin DOMAIN Devices[adapter]          -> Answer("1002", "CRITICAL")
          [] path = <<>> \/ protocol = Nil                -> Answer("2002", "NORMAL")
          [] Unknown(device, protocol, Last(rest), put)   -> Answer("3002", "CRITICAL")
          [] OTHER -> [protocol |-> protocol, checks |-> <<Last(rest), put>> \in device.checked]

\* get_response of the adapter takes the connector's TreeStructureError for
\* its own "ask the subcontractor", and has none.
Surfaced(answer) == IF answer.code = "3002" THEN Answer("3001", "CRITICAL") ELSE answer
-------------------------------------------------------------------------------
(* Walks over the tree, children in the order of the code.                 *)

\* run and stop: the list, the default provider even if it is on the list,
\* the subcontractor.
Children(c) == Tree[c].list
               \o (IF Tree[c].default = Nil THEN <<>> ELSE <<Tree[c].default>>)
               \o (IF Tree[c].sub = Nil THEN <<>> ELSE <<Tree[c].sub>>)

\* The components in the order run comes to them; some more than once.
RunOrder ==
    LET visit[c \in Components] == <<c>> \o FlattenSeq([k \in DOMAIN Children(c) |-> visit[Children(c)[k]]])
    IN  visit[Root]

\* _walk_components, which does not look at default providers.
PushWalk ==
    LET visit[c \in Components] ==
            {c} \cup UNION {visit[d] : d \in ToSet(Tree[c].list) \cup ({Tree[c].sub} \ {Nil})}
    IN  visit[Root]

\* assert_push_wiring.
PushWired == \A c \in PushWalk : Tree[c].pushDriven => Tree[c].wired

\* A mutation for the runs: what stands below a provider is published under the
\* target around it.
OuterTarget(c, outer) == outer

\* role "target": a provider with nothing to answer itself.
NewTarget(c, outer) == IF Tree[c].kind = "provider" THEN Tree[c].name ELSE outer

\* _walk_publishable: the services, each under the target around it, and the
\* observatories, here as service Nil.
Published ==
    LET visit[c \in Components, outer \in {Nil} \cup {Tree[d].name : d \in Components}] ==
            UNION {visit[d, NewTarget(c, outer)] : d \in Links(c)}
            \cup (CASE Tree[c].kind = "handler" /\ outer # Nil -> {<<outer, Tree[c].name>>}
                   [] Tree[c].kind = "adapter" -> {<<IF outer = Nil THEN Tree[c].name ELSE outer, Nil>>}
                   [] OTHER -> {})
    IN  visit[Root, Nil]
===============================================================================
