----------------------------- MODULE ObservatoryProofs -----------------------------
(***************************************************************************)
(* What is proved of the whole path of a request, for every tree, every    *)
(* device, every load and every number of requests.                        *)
(*                                                                         *)
(* The ways of a request through the tree exist and end, by induction on   *)
(* the height of a component, and a freezer sends its own request to where *)
(* the first one went.  The mount keeps MountInv.  What a request does to  *)
(* the camera is a step of IrisEndpoint and what it does to the mount a    *)
(* step of PilarAction, so what is proved of a connector alone holds of it *)
(* in the server.  With the connectors' invariants, ServeInv says of every *)
(* request what its record, its call and its action may be together.       *)
(***************************************************************************)
EXTENDS Observatory, IrisEndpointProofs
-------------------------------------------------------------------------------
(* The tree.                                                               *)

Indices(adr) == 1 .. Len(adr) + 1

\* What comes of a request that nobody has a value for, and of what a device says.
Codes == {"ok", "1001", "1002", "1003", "1004", "1005", "2002", "3001", "3002", "4005", "4008"}
Failures == {Answer(code, severity) : code \in Codes \ {"ok"}, severity \in Severities}

\* The kinds of a hop from the component c.
LEMMA NamedIsLinked ==
    ASSUME NEW c \in Components, NEW name
    PROVE  FirstNamed(Tree[c].list, name) \in Links(c) \cup {Nil}
  <1> DEFINE list == Tree[c].list
             called == {k \in DOMAIN list : Tree[list[k]].name = name}
  <1>1. list \in Seq(Named) /\ DOMAIN list \subseteq Nat
    <2>1. list \in Seq(Named)
      BY TreeAssumption
    <2> HIDE DEF list
    <2> QED  BY <2>1
  <1>2. CASE called = {}
    BY <1>2 DEF FirstNamed
  <1>3. CASE called # {}
    <2>1. Min(called) \in called
      BY <1>1, <1>3, LeastNatural
    <2>2. list[Min(called)] \in ToSet(list)
      BY <2>1 DEF ToSet
    <2> QED  BY <1>3, <2>2 DEF FirstNamed, Links
  <1> QED  BY <1>2, <1>3

\* From a component a request goes on to one it is linked with, fails, or has arrived.
LEMMA HopKinds ==
    ASSUME NEW c \in Components, NEW adr, Len(adr) \in Nat, NEW i \in Indices(adr), NEW put
    PROVE  LET hop == Hop(Tree[c], adr, i, put)
           IN  \/ \E d \in Links(c), k \in Indices(adr) : hop = Forward(d, k)
               \/ hop \in Failures
               \/ hop = Arrived /\ Tree[c].kind \in {"handler", "adapter"}
  <1> DEFINE named == NamedIn(Tree[c].list, adr, i)
             node == Tree[c]
             Fine(hop) == \/ \E d \in Links(c), k \in Indices(adr) : hop = Forward(d, k)
                          \/ hop \in Failures
                          \/ hop = Arrived /\ Tree[c].kind \in {"handler", "adapter"}
  <1>1. named \in Links(c) \cup {Nil}
    BY NamedIsLinked DEF NamedIn
  <1>2. \A code \in Codes \ {"ok"}, severity \in Severities : Fine(Answer(code, severity))
    BY DEF Failures
  <1>3. /\ Fine(Answer("1001", "NORMAL")) /\ Fine(Answer("1002", "NORMAL"))
        /\ Fine(Answer("1002", "CRITICAL")) /\ Fine(Answer("2002", "NORMAL")) /\ Fine(Answer("3001", "CRITICAL"))
    <2>1. {"1001", "1002", "2002", "3001"} \subseteq Codes \ {"ok"} /\ {"NORMAL", "CRITICAL"} \subseteq Severities
      BY DEF Codes, Severities
    <2> HIDE DEF Fine
    <2> QED  BY <1>2, <2>1
  <1>4. \A d \in Links(c), k \in Indices(adr) : Fine(Forward(d, k))
    OBVIOUS
  <1>5. Tree[c].kind \in {"handler", "adapter"} => Fine(Arrived)
    OBVIOUS
  <1>6. node.default \in Links(c) \cup {Nil} /\ node.sub \in Links(c) \cup {Nil}
    BY DEF Links
  <1> HIDE DEF Fine
  <1>7. ASSUME NEW k \in Indices(adr)
        PROVE  Fine(LinkHop(node, k))
    BY <1>3, <1>4, <1>6, <1>7 DEF LinkHop
  <1>8. Fine(BrokerHop(named, adr, i))
    BY <1>1, <1>3, <1>4 DEF BrokerHop
  <1>9. Fine(DefaultHop(node.default, named, i))
    BY <1>1, <1>3, <1>4, <1>6 DEF DefaultHop
  <1>10. ASSUME node.kind = "handler"
         PROVE  Fine(HandlerHop(node, adr, i + 1, put))
    BY <1>3, <1>5, <1>10 DEF HandlerHop
  <1>11. Fine(ProviderHop(node, adr, i, put))
    <2>1. ~(i > Len(adr)) => i + 1 \in Indices(adr)
      BY DEF Indices
    <2> QED  BY <1>3, <1>7, <1>10, <2>1 DEF ProviderHop
  <1>12. Fine(Hop(node, adr, i, put))
    BY <1>5, <1>7, <1>8, <1>9, <1>11 DEF Hop
  <1> QED  BY <1>12 DEF Fine
-------------------------------------------------------------------------------
(* The ways exist: from the components nothing stands below, and then from *)
(* those above.                                                            *)

HopFrom(adr, put, s) == Hop(Tree[s.at], adr, s.index, put)

\* w gives the ways from the components lower than n.
WaysBelow(adr, put, w, n) ==
    \A s \in Stations(adr) : Height[s.at] < n => w[s] = Onward(s, HopFrom(adr, put, s), w)

\* From a station the way goes on lower down, or ends.
LEMMA HopsDown ==
    ASSUME NEW adr, Len(adr) \in Nat, NEW put, NEW s \in Stations(adr)
    PROVE  LET hop == HopFrom(adr, put, s)
           IN  IF "index" \in DOMAIN hop
               THEN hop \in Stations(adr) /\ Height[hop.at] < Height[s.at]
               ELSE \/ hop \in Failures
                    \/ hop = Arrived /\ Tree[s.at].kind \in {"handler", "adapter"}
  <1> DEFINE hop == HopFrom(adr, put, s)
  <1>1. s.at \in Components /\ s.index \in Indices(adr)
    BY DEF Stations, Indices
  <1>2. \/ \E d \in Links(s.at), k \in Indices(adr) : hop = Forward(d, k)
        \/ hop \in Failures
        \/ hop = Arrived /\ Tree[s.at].kind \in {"handler", "adapter"}
    BY <1>1, HopKinds DEF HopFrom
  <1> HIDE DEF hop
  <1>3. CASE \E d \in Links(s.at), k \in Indices(adr) : hop = Forward(d, k)
    <2>1. PICK d \in Links(s.at), k \in Indices(adr) : hop = Forward(d, k)
      BY <1>3
    <2>2. d \in Components /\ Height[d] < Height[s.at]
      BY <1>1, TreeAssumption
    <2>3. "index" \in DOMAIN hop /\ hop.at = d /\ hop \in Stations(adr)
      BY <2>1, <2>2 DEF Forward, Stations, Indices
    <2> QED  BY <2>2, <2>3 DEF hop
  <1>4. CASE hop \in Failures
    <2>1. "index" \notin DOMAIN hop
      BY <1>4 DEF Failures, Answer
    <2> QED  BY <1>4, <2>1 DEF hop
  <1>5. CASE hop = Arrived /\ Tree[s.at].kind \in {"handler", "adapter"}
    <2>1. "index" \notin DOMAIN hop
      BY <1>5 DEF Arrived
    <2> QED  BY <1>5, <2>1 DEF hop
  <1> QED  BY <1>2, <1>3, <1>4, <1>5

\* What the heights are.
LEMMA Heights ==
    /\ Cardinality(Components) \in Nat
    /\ \A c \in Components : Height[c] \in Nat /\ Height[c] < Cardinality(Components) + 1
  BY TreeAssumption, FS_CardinalityType

\* Ways from the components lower than n give those from the components of height n.
LEMMA WaysGrow ==
    ASSUME NEW adr, Len(adr) \in Nat, NEW put, NEW n \in Nat, NEW w, WaysBelow(adr, put, w, n)
    PROVE  LET v == [s \in Stations(adr) |-> Onward(s, HopFrom(adr, put, s), w)]
           IN  WaysBelow(adr, put, v, n + 1)
  <1> DEFINE v == [s \in Stations(adr) |-> Onward(s, HopFrom(adr, put, s), w)]
  <1> SUFFICES ASSUME NEW s \in Stations(adr), Height[s.at] < n + 1
               PROVE  v[s] = Onward(s, HopFrom(adr, put, s), v)
    BY DEF WaysBelow
  <1> DEFINE hop == HopFrom(adr, put, s)
  <1>1. \A t \in Stations(adr) : v[t] = Onward(t, HopFrom(adr, put, t), w)
    OBVIOUS
  <1> HIDE DEF v, hop
  <1>2. "index" \in DOMAIN hop => w[hop] = v[hop]
    <2> SUFFICES ASSUME "index" \in DOMAIN hop
                 PROVE  w[hop] = v[hop]
      OBVIOUS
    <2>1. hop \in Stations(adr) /\ Height[hop.at] < Height[s.at]
      BY HopsDown DEF hop
    <2>2. hop.at \in Components /\ s.at \in Components
      BY <2>1 DEF Stations
    <2>3. Height[hop.at] < n
      BY <2>1, <2>2, Heights
    <2> QED  BY <1>1, <2>1, <2>3 DEF WaysBelow
  <1> QED  BY <1>1, <1>2 DEF Onward, hop

\* So there are ways from everywhere, and each begins as its own hop says.
LEMMA WaysExist ==
    ASSUME NEW adr, Len(adr) \in Nat, NEW put
    PROVE  Ways(adr, put) = [s \in Stations(adr) |-> Onward(s, HopFrom(adr, put, s), Ways(adr, put))]
  <1> DEFINE S == {n \in Nat : \E w : WaysBelow(adr, put, w, n)}
             n == Cardinality(Components) + 1
             IsWays(w) == w = [s \in Stations(adr) |-> Onward(s, HopFrom(adr, put, s), w)]
  <1>1. 0 \in S
    <2>1. \A s \in Stations(adr) : ~(Height[s.at] < 0)
      BY Heights DEF Stations
    <2> QED  BY <2>1 DEF WaysBelow
  <1>2. \A k \in Nat : k \in S => k + 1 \in S
    <2> SUFFICES ASSUME NEW k \in Nat, NEW w, WaysBelow(adr, put, w, k)
                 PROVE  \E v : WaysBelow(adr, put, v, k + 1)
      OBVIOUS
    <2> QED  BY WaysGrow
  <1>3. n \in S
    <2>1. Nat \subseteq S
      <3> HIDE DEF S
      <3> QED  BY <1>1, <1>2, Induction
    <2>2. n \in Nat
      BY Heights
    <2> HIDE DEF S, n
    <2> QED  BY <2>1, <2>2
  <1>4. PICK w : WaysBelow(adr, put, w, n)
    BY <1>3
  <1> DEFINE v == [s \in Stations(adr) |-> w[s]]
  <1>5. \A s \in Stations(adr) : w[s] = Onward(s, HopFrom(adr, put, s), w)
    BY <1>4, Heights DEF WaysBelow, Stations
  <1>6. \A s \in Stations(adr) : Onward(s, HopFrom(adr, put, s), w) = Onward(s, HopFrom(adr, put, s), v)
    <2> TAKE s \in Stations(adr)
    <2>1. "index" \in DOMAIN HopFrom(adr, put, s) => HopFrom(adr, put, s) \in Stations(adr)
      BY HopsDown
    <2> QED  BY <2>1 DEF Onward
  <1>7. IsWays(v)
    BY <1>5, <1>6
  <1>8. Ways(adr, put) = CHOOSE u : IsWays(u)
    BY DEF Ways, HopFrom
  <1> HIDE DEF IsWays
  <1>9. IsWays(Ways(adr, put))
    BY <1>7, <1>8
  <1> QED  BY <1>9 DEF IsWays

\* A way leads somewhere, and whoever is on it gets there.
Leads(adr, put, s) ==
    LET ways == Ways(adr, put)
        way  == ways[s]
    IN  /\ DOMAIN way = {"steps", "end"}
        /\ way.steps \in Seq(Stations(adr)) /\ way.steps # <<>>
        /\ \/ way.end \in Failures
           \/ way.end = Arrived /\ Tree[Last(way.steps).at].kind \in {"handler", "adapter"}
        /\ \A t \in ToSet(way.steps) : /\ ways[t].end = way.end
                                       /\ Last(ways[t].steps) = Last(way.steps)

\* The end of a way is that of the way behind its first step.
LEMMA FirstStep ==
    ASSUME NEW T, NEW q \in Seq(T), NEW s \in T, q # <<>>
    PROVE  /\ <<s>> \o q \in Seq(T) /\ <<s>> \o q # <<>>
           /\ Last(<<s>> \o q) = Last(q)
           /\ ToSet(<<s>> \o q) = {s} \cup ToSet(q)
  <1> DEFINE p == <<s>> \o q
  <1>1. /\ p \in Seq(T) /\ Len(p) = Len(q) + 1 /\ Len(q) \in Nat \ {0}
        /\ DOMAIN p = 1 .. Len(q) + 1 /\ DOMAIN q = 1 .. Len(q)
        /\ p[1] = s /\ \A i \in 1 .. Len(q) : p[i + 1] = q[i]
    OBVIOUS
  <1> HIDE DEF p
  <1>2. Last(p) = Last(q)
    BY <1>1 DEF Last
  <1>3. ToSet(p) \subseteq {s} \cup ToSet(q)
    <2> SUFFICES ASSUME NEW i \in DOMAIN p, i # 1
                 PROVE  p[i] \in ToSet(q)
      BY <1>1 DEF ToSet
    <2>1. i - 1 \in DOMAIN q /\ p[(i - 1) + 1] = q[i - 1]
      BY <1>1
    <2> QED  BY <1>1, <2>1 DEF ToSet
  <1>4. {s} \cup ToSet(q) \subseteq ToSet(p)
    <2> SUFFICES ASSUME NEW i \in DOMAIN q
                 PROVE  q[i] \in ToSet(p)
      BY <1>1 DEF ToSet
    <2> QED  BY <1>1 DEF ToSet
  <1>5. p # <<>>
    BY <1>1
  <1> QED  BY <1>1, <1>2, <1>3, <1>4, <1>5 DEF p

\* A way leads somewhere if those from lower down do.
LEMMA LeadsOn ==
    ASSUME NEW adr, Len(adr) \in Nat, NEW put, NEW s \in Stations(adr),
           \A t \in Stations(adr) : Height[t.at] < Height[s.at] => Leads(adr, put, t)
    PROVE  Leads(adr, put, s)
  <1> DEFINE ways == Ways(adr, put)
             hop == HopFrom(adr, put, s)
  <1>1. ways[s] = Onward(s, hop, ways)
    <2>1. ways = [t \in Stations(adr) |-> Onward(t, HopFrom(adr, put, t), ways)]
      BY WaysExist
    <2> HIDE DEF ways
    <2> QED  BY <2>1
  <1>2. IF "index" \in DOMAIN hop
        THEN hop \in Stations(adr) /\ Height[hop.at] < Height[s.at]
        ELSE \/ hop \in Failures
             \/ hop = Arrived /\ Tree[s.at].kind \in {"handler", "adapter"}
    BY HopsDown
  <1> HIDE DEF hop, ways
  <1>3. CASE "index" \in DOMAIN hop
    <2>1. Leads(adr, put, hop)
      BY <1>2, <1>3
    <2> DEFINE q == ways[hop].steps
    <2>2. ways[s] = [ways[hop] EXCEPT !.steps = <<s>> \o q]
      BY <1>1, <1>3 DEF Onward
    <2>3. q \in Seq(Stations(adr)) /\ q # <<>>
      BY <2>1 DEF Leads, ways
    <2>4. /\ ways[s].end = ways[hop].end /\ ways[s].steps = <<s>> \o q
          /\ DOMAIN ways[s] = {"steps", "end"}
      BY <2>1, <2>2 DEF Leads, ways
    <2> HIDE DEF q
    <2>5. /\ <<s>> \o q \in Seq(Stations(adr)) /\ <<s>> \o q # <<>>
          /\ Last(<<s>> \o q) = Last(q)
          /\ ToSet(<<s>> \o q) = {s} \cup ToSet(q)
      BY <2>3, FirstStep
    <2> QED  BY <2>1, <2>4, <2>5 DEF Leads, ways, q
  <1>4. CASE "index" \notin DOMAIN hop
    <2>1. ways[s] = [steps |-> <<s>>, end |-> hop]
      BY <1>1, <1>4 DEF Onward
    <2>2. ways[s].steps = <<s>> /\ ways[s].end = hop /\ DOMAIN ways[s] = {"steps", "end"}
      BY <2>1
    <2>3. <<s>> \in Seq(Stations(adr)) /\ <<s>> # <<>> /\ Last(<<s>>) = s /\ ToSet(<<s>>) = {s}
      BY DEF Last, ToSet
    <2> QED  BY <1>2, <1>4, <2>2, <2>3 DEF Leads, ways
  <1> QED  BY <1>3, <1>4

\* Every way leads somewhere.
LEMMA AllLead ==
    ASSUME NEW adr, Len(adr) \in Nat, NEW put
    PROVE  \A s \in Stations(adr) : Leads(adr, put, s)
  <1> DEFINE S == {n \in Nat : \A s \in Stations(adr) : Height[s.at] < n => Leads(adr, put, s)}
  <1>1. 0 \in S
    BY Heights DEF Stations
  <1>2. \A n \in Nat : n \in S => n + 1 \in S
    <2> SUFFICES ASSUME NEW n \in S, NEW s \in Stations(adr), Height[s.at] < n + 1
                 PROVE  Leads(adr, put, s)
      OBVIOUS
    <2>1. \A t \in Stations(adr) : Height[t.at] < Height[s.at] => Height[t.at] < n
      BY Heights DEF Stations
    <2> QED  BY <2>1, LeadsOn
  <1> HIDE DEF S
  <1>3. Cardinality(Components) + 1 \in S
    BY <1>1, <1>2, Heights, Induction
  <1> QED  BY <1>3, Heights DEF S, Stations

\* A freezer on the way sends its own request to where the first one went.
LEMMA FreezerOnWay ==
    ASSUME NEW adr, Len(adr) \in Nat, NEW put, NEW s \in Stations(adr),
           NEW f \in ToSet(Ways(adr, put)[s].steps), Tree[f.at].kind = "freezer"
    PROVE  /\ f \in Stations(adr) /\ Forward(Tree[f.at].sub, f.index) \in Stations(adr)
           /\ Way(adr, put, Tree[f.at].sub, f.index).end = Ways(adr, put)[s].end
           /\ Last(Way(adr, put, Tree[f.at].sub, f.index).steps) = Last(Ways(adr, put)[s].steps)
  <1> DEFINE ways == Ways(adr, put)
             next == Forward(Tree[f.at].sub, f.index)
  <1>1. Leads(adr, put, s)
    BY AllLead
  <1>2. f \in Stations(adr)
    BY <1>1 DEF Leads, ToSet
  <1>3. f.at \in Components /\ f.index \in Indices(adr) /\ Tree[f.at].sub \in Components
    BY <1>2, TreeAssumption DEF Stations, Indices, Links
  <1>4. HopFrom(adr, put, f) = next /\ next \in Stations(adr) /\ "index" \in DOMAIN next
    BY <1>3, TreeAssumption DEF HopFrom, Hop, LinkHop, Stations, Indices, Forward
  <1>5. ways[f] = Onward(f, next, ways)
    <2>1. ways = [t \in Stations(adr) |-> Onward(t, HopFrom(adr, put, t), ways)]
      BY WaysExist
    <2> HIDE DEF ways
    <2> QED  BY <1>2, <1>4, <2>1
  <1>6. Leads(adr, put, next)
    BY <1>4, AllLead
  <1> HIDE DEF ways, next
  <1> DEFINE q == ways[next].steps
  <1>7. ways[f] = [ways[next] EXCEPT !.steps = <<f>> \o q]
    BY <1>4, <1>5 DEF Onward
  <1>8. ways[f].end = ways[next].end /\ ways[f].steps = <<f>> \o q
    BY <1>6, <1>7 DEF Leads, ways
  <1>9. Last(<<f>> \o q) = Last(q)
    <2>1. q \in Seq(Stations(adr)) /\ q # <<>>
      BY <1>6 DEF Leads, ways
    <2> HIDE DEF q
    <2> QED  BY <1>2, <2>1, FirstStep
  <1>10. ways[f].end = ways[s].end /\ Last(ways[f].steps) = Last(ways[s].steps)
    BY <1>1 DEF Leads, ways
  <1> QED  BY <1>2, <1>4, <1>8, <1>9, <1>10 DEF Way, ways, next
-------------------------------------------------------------------------------
(* The mount.                                                              *)

\* Where a program verifies, and where it sets a variable.
Verifies(p) == {n \in DOMAIN p : p[n].kind = "verify"}
Sets(p)     == {n \in DOMAIN p : p[n].kind = "set"}

\* Where an action stands in its program.
InProgram(a) ==
    /\ program[a] \in Programs \cup {<<>>}
    /\ stage[a] = "none" => at[a] = 1 /\ looking[a] = 1
    /\ stage[a] \in {"lock", "setting"} => at[a] \in Sets(program[a])
    /\ stage[a] \in {"reading", "sleeping"} =>
          at[a] \in Verifies(program[a]) /\ looking[a] \in DOMAIN Step(a).targets
    /\ stage[a] = "sleeping" => pass[a] < Passes

\* The target i of the verify step n has been read.
Seen(a, n, i) == n < at[a] \/ (n = at[a] /\ i < looking[a])

\* The mount stands still in a variable or is on its way to the value the action
\* verifies; what was read stays there.
Settled(a, n, i) ==
    LET v == program[a][n].targets[i][1]
        value == program[a][n].targets[i][2]
    IN  /\ position[v] = target[v] \/ target[v] = value
        /\ Seen(a, n, i) => position[v] = value

\* No other action is under way, and the mount obeys this one.
Undisturbed(a) ==
    /\ \A b \in Actions : Live(b) => b = a
    /\ \A n \in Verifies(program[a]) : \A i \in DOMAIN program[a][n].targets : Settled(a, n, i)

\* What always holds of the mount: the lock is held while a variable is set, and
\* whoever may still be undisturbed is.
MountInv ==
    /\ PilarTypeOK
    /\ \A a \in Actions : InProgram(a)
    /\ mover # Nobody => stage[mover] = "setting"
    /\ \A a \in Actions : alone[a] /\ Live(a) => Undisturbed(a)

\* What a step of a program holds.
LEMMA StepKinds ==
    ASSUME NEW p \in Programs \cup {<<>>}, NEW n \in DOMAIN p
    PROVE  /\ DOMAIN p = 1 .. Len(p) /\ Len(p) \in Nat /\ p \in Programs
           /\ p[n].kind \in {"set", "verify", "unmapped"}
           /\ p[n].kind = "set" => p[n].variable \in Variables /\ p[n].value \in Positions
           /\ p[n].kind = "verify" =>
                /\ p[n].targets \in Seq(Variables \X Positions)
                /\ p[n].targets # <<>>
                /\ DOMAIN p[n].targets = 1 .. Len(p[n].targets) /\ Len(p[n].targets) \in Nat \ {0}
                /\ \A i \in DOMAIN p[n].targets : /\ p[n].targets[i][1] \in Variables
                                                  /\ p[n].targets[i][2] \in Positions
  <1>1. p \in Seq(Steps) /\ p \in Programs /\ DOMAIN p = 1 .. Len(p) /\ Len(p) \in Nat
    BY PilarActionAssumption
  <1>2. p[n] \in Steps
    BY <1>1
  <1>3. CASE p[n].kind = "verify"
    <2>1. p[n].targets \in Seq(Variables \X Positions) \ {<<>>}
      BY <1>2, <1>3 DEF Steps
    <2> DEFINE s == p[n].targets
    <2> HIDE DEF s
    <2>2. s \in Seq(Variables \X Positions) /\ s # <<>>
      BY <2>1 DEF s
    <2>3. DOMAIN s = 1 .. Len(s) /\ Len(s) \in Nat \ {0}
      BY <2>2
    <2>4. \A i \in DOMAIN s : s[i] \in Variables \X Positions
      BY <2>2, <2>3
    <2>5. \A i \in DOMAIN s : s[i][1] \in Variables /\ s[i][2] \in Positions
      BY <2>4
    <2> QED  BY <1>1, <1>3, <2>2, <2>3, <2>5 DEF s
  <1>4. CASE p[n].kind # "verify"
    BY <1>1, <1>2, <1>4 DEF Steps
  <1> QED  BY <1>3, <1>4

\* Where an action is when it comes to step n.
LEMMA EntryFits ==
    ASSUME NEW p \in Programs, NEW n \in Nat \ {0}
    PROVE  /\ Entry(p, n) \in {"lock", "setting", "reading", "ok", "3002"}
           /\ Entry(p, n) \in {"lock", "setting"} => n \in Sets(p)
           /\ Entry(p, n) = "reading" => n \in Verifies(p) /\ 1 \in DOMAIN p[n].targets
           /\ Entry(p, n) = "ok" => n \notin DOMAIN p
  <1>1. CASE n > Len(p)
    <2>1. n \notin DOMAIN p
      BY <1>1, PilarActionAssumption
    <2> QED  BY <1>1, <2>1 DEF Entry
  <1>2. CASE ~(n > Len(p))
    <2>1. n \in DOMAIN p
      BY <1>2, PilarActionAssumption
    <2>2. p[n].kind \in {"set", "verify", "unmapped"}
      BY <2>1, StepKinds
    <2>3. p[n].kind = "verify" => 1 \in DOMAIN p[n].targets
      BY <2>1, StepKinds
    <2> QED  BY <1>2, <2>1, <2>2, <2>3 DEF Entry, Sets, Verifies
  <1> QED  BY <1>1, <1>2
-------------------------------------------------------------------------------
\* An action that goes on waits at one of four places.
LEMMA LiveStages ==
    ASSUME NEW a \in Actions, PilarTypeOK
    PROVE  Live(a) <=> stage[a] \in {"lock", "setting", "reading", "sleeping"}
  BY DEF Live, Over, PilarTypeOK

\* An action that comes to the step n stands in its program there.
LEMMA EnterFits ==
    ASSUME MountInv, NEW a \in Actions, Live(a), EnterStep(a, at[a] + 1), UNCHANGED program
    PROVE  /\ stage' \in [Actions -> {"none", "lock", "setting", "reading", "sleeping"} \cup Over]
           /\ at' \in [Actions -> Nat] /\ looking' \in [Actions -> Nat] /\ pass' \in [Actions -> 1 .. Passes]
           /\ stage'[a] \in {"lock", "setting", "reading", "ok", "3002"}
           /\ at'[a] = at[a] + 1 /\ looking'[a] = 1
           /\ \A b \in Actions : InProgram(b)'
  <1> DEFINE p == program[a]
             n == at[a] + 1
  <1>1. p \in Programs /\ at[a] \in Nat /\ n \in Nat \ {0}
    <2>1. at[a] \in DOMAIN p /\ p \in Programs \cup {<<>>}
      BY LiveStages DEF MountInv, InProgram, Sets, Verifies
    <2> QED  BY <2>1, StepKinds DEF MountInv, PilarTypeOK
  <1> HIDE DEF p, n
  <1>2. /\ Entry(p, n) \in {"lock", "setting", "reading", "ok", "3002"}
        /\ Entry(p, n) \in {"lock", "setting"} => n \in Sets(p)
        /\ Entry(p, n) = "reading" => n \in Verifies(p) /\ 1 \in DOMAIN p[n].targets
    BY <1>1, EntryFits
  <1>3. /\ at' = [at EXCEPT ![a] = n] /\ looking' = [looking EXCEPT ![a] = 1]
        /\ stage' = [stage EXCEPT ![a] = Entry(p, n)] /\ pass' = [pass EXCEPT ![a] = 1]
    BY DEF EnterStep, p, n
  <1>4. /\ at \in [Actions -> Nat] /\ looking \in [Actions -> Nat]
        /\ stage \in [Actions -> {"none", "lock", "setting", "reading", "sleeping"} \cup Over]
        /\ pass \in [Actions -> 1 .. Passes] /\ 1 \in 1 .. Passes
    BY PilarActionAssumption DEF MountInv, PilarTypeOK
  <1>5. /\ stage' \in [Actions -> {"none", "lock", "setting", "reading", "sleeping"} \cup Over]
        /\ at' \in [Actions -> Nat] /\ looking' \in [Actions -> Nat] /\ pass' \in [Actions -> 1 .. Passes]
        /\ stage'[a] = Entry(p, n) /\ at'[a] = n /\ looking'[a] = 1
    BY <1>1, <1>2, <1>3, <1>4 DEF Over
  <1>6. ASSUME NEW b \in Actions
        PROVE  InProgram(b)'
    <2>1. CASE b = a
      <3>1. program'[b] = p /\ p \in Programs
        BY <1>1, <2>1 DEF p
      <3> QED  BY <1>2, <1>5, <2>1, <3>1 DEF InProgram, Step
    <2>2. CASE b # a
      <3>1. /\ stage'[b] = stage[b] /\ at'[b] = at[b] /\ looking'[b] = looking[b] /\ pass'[b] = pass[b]
            /\ program' = program
        BY <1>3, <1>4, <2>2
      <3> QED  BY <3>1 DEF MountInv, InProgram, Step
    <2> QED  BY <2>1, <2>2
  <1> QED  BY <1>2, <1>5, <1>6 DEF n

\* What is true of an undisturbed action when it goes on to its next step, after sending
\* a variable to the value of its step or not.
LEMMA EnterUndisturbed ==
    ASSUME MountInv, NEW a \in Actions, Live(a), EnterStep(a, at[a] + 1),
           UNCHANGED <<program, position, alone>>,
           target' = target \/ (at[a] \in Sets(program[a]) /\ Accept(a)),
           \A i \in DOMAIN Step(a).targets : at[a] \in Verifies(program[a]) =>
               Seen(a, at[a], i) \/ position[Step(a).targets[i][1]] = Step(a).targets[i][2],
           NEW b \in Actions, alone'[b], Live(b)'
    PROVE  Undisturbed(b)'
  <1>1. b = a /\ alone[a] /\ Undisturbed(a)
    <2>1. Live(b)
      BY DEF EnterStep, Live, MountInv, PilarTypeOK
    <2> QED  BY <2>1 DEF MountInv, Undisturbed
  <1>2. \A c \in Actions : Live(c)' => c = a
    BY <1>1 DEF Undisturbed, EnterStep, Live, MountInv, PilarTypeOK
  <1> DEFINE p == program[a]
  <1>3. p \in Programs \cup {<<>>} /\ at[a] \in DOMAIN p /\ at[a] \in Nat
    BY LiveStages DEF MountInv, PilarTypeOK, InProgram, Sets, Verifies
  <1>4. at'[a] = at[a] + 1 /\ looking'[a] = 1
    BY DEF EnterStep, MountInv, PilarTypeOK
  <1>5. ASSUME NEW n \in Verifies(p), NEW i \in DOMAIN p[n].targets
        PROVE  LET v == p[n].targets[i][1]
                   value == p[n].targets[i][2]
               IN  /\ position'[v] = target'[v] \/ target'[v] = value
                   /\ Seen(a, n, i)' => position'[v] = value
    <2> DEFINE v == p[n].targets[i][1]
               value == p[n].targets[i][2]
    <2>1. /\ position[v] = target[v] \/ target[v] = value
          /\ Seen(a, n, i) => position[v] = value
      BY <1>1 DEF Undisturbed, Settled
    <2>2. n \in DOMAIN p /\ v \in Variables /\ n \in Nat /\ i \in Nat \ {0}
      BY <1>3, StepKinds DEF Verifies
    <2>3. target'[v] = target[v] \/ target'[v] = value
      <3>1. CASE target' = target
        BY <3>1
      <3>2. CASE at[a] \in Sets(p) /\ Accept(a)
        <4>1. target' = [target EXCEPT ![p[at[a]].variable] = p[at[a]].value]
          BY <3>2 DEF Accept, Step
        <4>2. v = p[at[a]].variable => value = p[at[a]].value
          <5>1. p \in Programs
            BY <1>3, StepKinds
          <5>2. VerifiesItsOwn(p)
            BY <5>1, PilarActionAssumption
          <5>3. /\ n \in DOMAIN p /\ p[n].kind = "verify"
                /\ at[a] \in DOMAIN p /\ p[at[a]].kind = "set"
            BY <3>2 DEF Verifies, Sets
          <5>4. p[n].targets[i][1] = p[at[a]].variable => p[n].targets[i][2] = p[at[a]].value
            BY <5>2, <5>3 DEF VerifiesItsOwn
          <5> QED  BY <5>4
        <4> QED  BY <2>2, <4>1, <4>2 DEF MountInv, PilarTypeOK
      <3> QED  BY <3>1, <3>2
    <2>4. Seen(a, n, i)' => position[v] = value
      <3>1. SUFFICES ASSUME n < at[a] + 1
                     PROVE  position[v] = value
        BY <1>4, <2>2 DEF Seen
      <3>2. CASE n < at[a]
        BY <2>1, <3>2 DEF Seen
      <3>3. CASE n = at[a]
        BY <2>1, <3>3 DEF Step
      <3> QED  BY <1>3, <2>2, <3>1, <3>2, <3>3
    <2> HIDE DEF v, value
    <2>5. position'[v] = target'[v] \/ target'[v] = value
      <3>1. CASE target'[v] = target[v]
        BY <2>1, <3>1
      <3> QED  BY <2>3, <3>1
    <2>6. Seen(a, n, i)' => position'[v] = value
      BY <2>4
    <2> QED  BY <2>5, <2>6 DEF v, value
  <1>6. ASSUME NEW n \in Verifies(program'[a]), NEW i \in DOMAIN program'[a][n].targets
        PROVE  Settled(a, n, i)'
    BY <1>5 DEF Settled
  <1> QED  BY <1>1, <1>2, <1>6 DEF Undisturbed

\* An action that ends disturbs nobody.
LEMMA EndActionKeeps ==
    ASSUME MountInv, NEW a \in Actions, Live(a), NEW how \in Over, EndAction(a, how),
           target' \in [Variables -> Positions], UNCHANGED position,
           refused' \in [Actions -> BOOLEAN]
    PROVE  MountInv'
  <1>1. /\ stage' = [stage EXCEPT ![a] = how] /\ stage'[a] = how
        /\ stage' \in [Actions -> {"none", "lock", "setting", "reading", "sleeping"} \cup Over]
    BY DEF EndAction, MountInv, PilarTypeOK
  <1>2. PilarTypeOK'
    BY <1>1 DEF EndAction, Unlock, MountInv, PilarTypeOK, verifyVars
  <1>3. ASSUME NEW b \in Actions
        PROVE  InProgram(b)'
    <2>1. InProgram(b) /\ stage'[b] \in {stage[b]} \cup Over
      BY <1>1 DEF MountInv, PilarTypeOK
    <2> QED  BY <2>1 DEF EndAction, InProgram, Step, Over, verifyVars
  <1>4. mover' # Nobody => stage'[mover'] = "setting"
    BY <1>1 DEF EndAction, Unlock, MountInv, PilarTypeOK
  <1>5. ASSUME NEW b \in Actions, alone'[b], Live(b)'
        PROVE  FALSE
    <2>1. ~Live(a)' /\ alone[b] /\ Live(b)
      BY <1>1, <1>5 DEF EndAction, Live, MountInv, PilarTypeOK
    <2> QED  BY <1>5, <2>1 DEF MountInv, Undisturbed
  <1> QED  BY <1>2, <1>3, <1>4, <1>5 DEF MountInv

\* An action that waits on where it is, or takes the lock.
LEMMA StayKeeps ==
    ASSUME MountInv, NEW a \in Actions, Live(a), NEW s, stage' = [stage EXCEPT ![a] = s],
           UNCHANGED <<mountVars, program, at, refused, alone>>,
           \/ /\ stage[a] = "lock" /\ s = "setting"
              /\ mover = Nobody /\ mover' = a
              /\ UNCHANGED verifyVars
           \/ /\ stage[a] = "reading" /\ s = "sleeping" /\ pass[a] < Passes
              /\ UNCHANGED <<mover, verifyVars>>
           \/ /\ stage[a] = "sleeping" /\ s = "reading"
              /\ looking' = [looking EXCEPT ![a] = 1]
              /\ pass' = [pass EXCEPT ![a] = pass[a] + 1]
              /\ UNCHANGED mover
    PROVE  MountInv'
  <1>0. /\ stage \in [Actions -> {"none", "lock", "setting", "reading", "sleeping"} \cup Over]
        /\ looking \in [Actions -> Nat] /\ at \in [Actions -> Nat]
        /\ pass \in [Actions -> 1 .. Passes] /\ Passes \in Nat
    BY PilarActionAssumption DEF MountInv, PilarTypeOK
  <1>1. /\ stage'[a] = s /\ s \in {"setting", "sleeping", "reading"}
        /\ stage' \in [Actions -> {"none", "lock", "setting", "reading", "sleeping"} \cup Over]
        /\ \A b \in Actions \ {a} : stage'[b] = stage[b]
    BY <1>0
  <1>2. /\ pass' \in [Actions -> 1 .. Passes]
        /\ s = "sleeping" => pass'[a] < Passes
        /\ \A b \in Actions \ {a} : pass'[b] = pass[b]
    <2>1. stage[a] = "sleeping" => pass[a] < Passes
      BY DEF MountInv, InProgram
    <2> QED  BY <1>0, <2>1 DEF verifyVars
  <1>3. /\ looking' \in [Actions -> Nat] /\ looking'[a] \in {1, looking[a]}
        /\ s = "sleeping" => looking'[a] = looking[a]
        /\ \A b \in Actions \ {a} : looking'[b] = looking[b]
    BY <1>0 DEF verifyVars
  <1>4. PilarTypeOK'
    BY <1>1, <1>2, <1>3 DEF MountInv, PilarTypeOK, mountVars
  <1>5. ASSUME NEW b \in Actions
        PROVE  InProgram(b)'
    <2>1. InProgram(b) /\ program' = program /\ at' = at
      BY DEF MountInv
    <2>2. CASE b = a
      <3>1. s = "setting" => at[a] \in Sets(program[a])
        BY <2>1, <2>2 DEF InProgram
      <3>2. s # "setting" => at[a] \in Verifies(program[a]) /\ looking[a] \in DOMAIN Step(a).targets
        BY <2>1, <2>2 DEF InProgram
      <3>3. s # "setting" => 1 \in DOMAIN Step(a).targets
        BY <2>1, <2>2, <3>2, StepKinds DEF Verifies, Step, InProgram
      <3>4. program[a] \in Programs \cup {<<>>}
        BY <2>1, <2>2 DEF InProgram
      <3> QED  BY <1>1, <1>2, <1>3, <2>1, <2>2, <3>1, <3>2, <3>3, <3>4 DEF InProgram, Step
    <2>3. CASE b # a
      <3>1. stage'[b] = stage[b] /\ pass'[b] = pass[b] /\ looking'[b] = looking[b]
        BY <1>1, <1>2, <1>3, <2>3
      <3> QED  BY <2>1, <3>1 DEF InProgram, Step
    <2> QED  BY <2>2, <2>3
  <1>6. mover' # Nobody => stage'[mover'] = "setting"
    BY <1>0, <1>1, PilarActionAssumption DEF MountInv
  <1>7. ASSUME NEW b \in Actions, alone'[b], Live(b)'
        PROVE  Undisturbed(b)'
    <2>1. alone[b] /\ Live(b) /\ \A c \in Actions : Live(c)' => Live(c)
      BY <1>1, <1>7 DEF Live
    <2>2. b = a /\ Undisturbed(a)
      BY <2>1 DEF MountInv, Undisturbed
    <2>3. ASSUME NEW n, NEW i \in Nat \ {0}, Seen(a, n, i)'
          PROVE  Seen(a, n, i)
      BY <1>0, <1>3, <2>3 DEF Seen
    <2>4. \A n \in Verifies(program[a]) : \A i \in DOMAIN program[a][n].targets : i \in Nat \ {0}
      BY StepKinds DEF MountInv, InProgram, Verifies
    <2>5. target' = target /\ position' = position /\ program' = program
      BY DEF mountVars
    <2>6. ASSUME NEW n \in Verifies(program[a]), NEW i \in DOMAIN program[a][n].targets
          PROVE  Settled(a, n, i)'
      <3>1. Settled(a, n, i)
        BY <2>2 DEF Undisturbed
      <3>2. Seen(a, n, i)' => Seen(a, n, i)
        BY <2>3, <2>4
      <3> QED  BY <2>5, <3>1, <3>2 DEF Settled
    <2> QED  BY <2>1, <2>2, <2>5, <2>6 DEF Undisturbed
  <1> QED  BY <1>4, <1>5, <1>6, <1>7 DEF MountInv

\* A new action stands at its first step; it is undisturbed if the mount rests.
LEMMA BeginActionKeeps ==
    ASSUME MountInv, NEW a \in Actions, BeginAction(a)
    PROVE  MountInv'
  <1>1. PICK p \in Programs : /\ program' = [program EXCEPT ![a] = p]
                              /\ stage' = [stage EXCEPT ![a] = Entry(p, 1)]
    BY DEF BeginAction
  <1>2. /\ Entry(p, 1) \in {"lock", "setting", "reading", "ok", "3002"}
        /\ Entry(p, 1) \in {"lock", "setting"} => 1 \in Sets(p)
        /\ Entry(p, 1) = "reading" => 1 \in Verifies(p) /\ 1 \in DOMAIN p[1].targets
    BY EntryFits
  <1>3. /\ stage'[a] = Entry(p, 1) /\ stage[a] = "none"
        /\ stage' \in [Actions -> {"none", "lock", "setting", "reading", "sleeping"} \cup Over]
        /\ at[a] = 1 /\ looking[a] = 1
        /\ UNCHANGED <<at, looking, pass, mover, target, position>>
    BY <1>1, <1>2 DEF BeginAction, MountInv, PilarTypeOK, Over, InProgram, mountVars, verifyVars
  <1>4. /\ program' \in [Actions -> Programs \cup {<<>>}] /\ program'[a] = p
        /\ \A b \in Actions \ {a} : program'[b] = program[b] /\ stage'[b] = stage[b]
    BY <1>1 DEF MountInv, PilarTypeOK
  <1>5. PilarTypeOK'
    BY <1>3, <1>4 DEF BeginAction, MountInv, PilarTypeOK
  <1>6. ASSUME NEW b \in Actions
        PROVE  InProgram(b)'
    <2>1. CASE b = a
      BY <1>2, <1>3, <1>4, <2>1 DEF InProgram, Step
    <2>2. CASE b # a
      BY <1>3, <1>4, <2>2 DEF MountInv, InProgram, Step
    <2> QED  BY <2>1, <2>2
  <1>7. mover' # Nobody => stage'[mover'] = "setting"
    <2>1. mover # Nobody => mover \in Actions \ {a}
      BY <1>3 DEF MountInv, PilarTypeOK
    <2> QED  BY <1>3, <1>4, <2>1 DEF MountInv
  <1>8. ASSUME NEW b \in Actions, alone'[b], Live(b)'
        PROVE  Undisturbed(b)'
    <2>1. b = a /\ Resting
      BY <1>8 DEF BeginAction
    <2>2. \A c \in Actions : Live(c)' => c = a
      BY <1>4, <2>1 DEF Resting, Live
    <2>3. ASSUME NEW n \in Verifies(p), NEW i \in DOMAIN p[n].targets
          PROVE  ~Seen(a, n, i)'
      <3>1. n \in Nat \ {0} /\ i \in Nat \ {0}
        BY <2>3, StepKinds DEF Verifies
      <3> QED  BY <1>3, <3>1 DEF Seen
    <2> QED  BY <1>3, <1>4, <2>1, <2>2, <2>3 DEF Undisturbed, Settled, Resting
  <1> QED  BY <1>5, <1>6, <1>7, <1>8 DEF MountInv

\* The mount comes to where it was sent.
LEMMA TurnKeeps ==
    ASSUME MountInv, NEW w \in Variables, Turn(w)
    PROVE  MountInv'
  <1>1. UNCHANGED <<target, mover, stage, program, at, looking, pass, refused, alone>>
    BY DEF Turn, verifyVars
  <1>2. /\ position' \in [Variables -> Positions]
        /\ \A v \in Variables : position'[v] = position[v] \/ (v = w /\ position'[v] = target[v])
    BY DEF Turn, MountInv, PilarTypeOK
  <1>3. PilarTypeOK'
    BY <1>1, <1>2 DEF MountInv, PilarTypeOK
  <1>4. \A b \in Actions : InProgram(b)'
    BY <1>1 DEF MountInv, InProgram, Step
  <1>5. ASSUME NEW b \in Actions, alone'[b], Live(b)'
        PROVE  Undisturbed(b)'
    <2>1. Undisturbed(b)
      BY <1>1, <1>5 DEF MountInv, Live
    <2>2. \A n \in Verifies(program[b]) : \A i \in DOMAIN program[b][n].targets :
             program[b][n].targets[i][1] \in Variables
      BY StepKinds DEF MountInv, InProgram, Verifies
    <2>3. ASSUME NEW n \in Verifies(program[b]), NEW i \in DOMAIN program[b][n].targets
          PROVE  LET v == program[b][n].targets[i][1]
                     value == program[b][n].targets[i][2]
                 IN  /\ position'[v] = target[v] \/ target[v] = value
                     /\ Seen(b, n, i) => position'[v] = value
      <3> DEFINE v == program[b][n].targets[i][1]
                 value == program[b][n].targets[i][2]
      <3>1. /\ position[v] = target[v] \/ target[v] = value
            /\ Seen(b, n, i) => position[v] = value
        BY <2>1 DEF Undisturbed, Settled
      <3>2. v \in Variables
        BY <2>2
      <3> HIDE DEF v, value
      <3>3. /\ position'[v] = target[v] \/ target[v] = value
            /\ Seen(b, n, i) => position'[v] = value
        <4>1. CASE position'[v] = position[v]
          BY <3>1, <4>1
        <4>2. CASE position'[v] = target[v] /\ v = w
          <5>1. position[v] # target[v]
            BY <4>2 DEF Turn
          <5> QED  BY <3>1, <4>2, <5>1
        <4> QED  BY <1>2, <3>2, <4>1, <4>2
      <3> QED  BY <3>3 DEF v, value
    <2>4. \A n, i : Seen(b, n, i)' <=> Seen(b, n, i)
      BY <1>1 DEF Seen
    <2> QED  BY <1>1, <2>1, <2>3, <2>4 DEF Undisturbed, Settled, Live
  <1>6. mover' # Nobody => stage'[mover'] = "setting"
    BY <1>1 DEF MountInv
  <1> QED  BY <1>3, <1>4, <1>5, <1>6 DEF MountInv

\* A command is accepted or refused, and the action goes on.
LEMMA SetKeeps ==
    ASSUME MountInv, NEW a \in Actions, SetAccepted(a) \/ SetRefused(a)
    PROVE  MountInv'
  <1>1. /\ stage[a] = "setting" /\ Live(a)
        /\ at[a] \in Sets(program[a]) /\ at[a] \notin Verifies(program[a])
        /\ Unlock(a) /\ EnterStep(a, at[a] + 1)
        /\ UNCHANGED <<position, program, alone>>
        /\ target' = target \/ Accept(a)
        /\ refused' \in [Actions -> BOOLEAN]
    BY DEF MountInv, PilarTypeOK, InProgram, Sets, Verifies, SetAccepted, SetRefused, RefusalIgnored,
           mountVars, Live, Over
  <1>2. /\ stage' \in [Actions -> {"none", "lock", "setting", "reading", "sleeping"} \cup Over]
        /\ at' \in [Actions -> Nat] /\ looking' \in [Actions -> Nat] /\ pass' \in [Actions -> 1 .. Passes]
        /\ \A b \in Actions : InProgram(b)'
    BY <1>1, EnterFits
  <1>3. target' \in [Variables -> Positions]
    <2>1. CASE target' = target
      BY <2>1 DEF MountInv, PilarTypeOK
    <2>2. CASE Accept(a)
      <3>1. Step(a).variable \in Variables /\ Step(a).value \in Positions
        BY <1>1, StepKinds DEF MountInv, InProgram, Step, Sets
      <3> QED  BY <2>2, <3>1 DEF Accept, MountInv, PilarTypeOK
    <2> QED  BY <1>1, <2>1, <2>2
  <1>4. PilarTypeOK'
    BY <1>1, <1>2, <1>3 DEF MountInv, PilarTypeOK, Unlock
  <1>5. mover' # Nobody => stage'[mover'] = "setting"
    BY <1>1 DEF MountInv, PilarTypeOK, Unlock, EnterStep
  <1>6. ASSUME NEW b \in Actions, alone'[b], Live(b)'
        PROVE  Undisturbed(b)'
    <2>1. target' = target \/ (at[a] \in Sets(program[a]) /\ Accept(a))
      BY <1>1
    <2>2. \A i \in DOMAIN Step(a).targets : at[a] \in Verifies(program[a]) =>
             Seen(a, at[a], i) \/ position[Step(a).targets[i][1]] = Step(a).targets[i][2]
      BY <1>1
    <2> QED  BY <1>1, <1>6, <2>1, <2>2, EnterUndisturbed
  <1> QED  BY <1>2, <1>4, <1>5, <1>6 DEF MountInv

\* A variable is where it should be: the next one, or the next step.
LEMMA ReadMatchKeeps ==
    ASSUME MountInv, NEW a \in Actions, ReadMatch(a)
    PROVE  MountInv'
  <1>1. /\ stage[a] = "reading" /\ Live(a)
        /\ UNCHANGED <<target, position, mover, program, refused, alone>>
        /\ at[a] \in Verifies(program[a]) /\ looking[a] \in DOMAIN Step(a).targets
        /\ position[Step(a).targets[looking[a]][1]] = Step(a).targets[looking[a]][2]
    BY DEF MountInv, InProgram, ReadMatch, Live, Over, Matches, ThisTarget, mountVars
  <1>2. /\ DOMAIN Step(a).targets = 1 .. Len(Step(a).targets) /\ Len(Step(a).targets) \in Nat
        /\ at[a] \in Nat /\ looking[a] \in Nat
    BY <1>1, StepKinds DEF MountInv, PilarTypeOK, InProgram, Step, Verifies
  <1>3. CASE EnterStep(a, at[a] + 1) /\ looking[a] = Len(Step(a).targets)
    <2>1. /\ stage' \in [Actions -> {"none", "lock", "setting", "reading", "sleeping"} \cup Over]
          /\ at' \in [Actions -> Nat] /\ looking' \in [Actions -> Nat] /\ pass' \in [Actions -> 1 .. Passes]
          /\ \A b \in Actions : InProgram(b)'
      BY <1>1, <1>3, EnterFits
    <2>2. PilarTypeOK'
      BY <1>1, <2>1 DEF MountInv, PilarTypeOK
    <2>3. mover' # Nobody => stage'[mover'] = "setting"
      BY <1>1, <1>3 DEF MountInv, PilarTypeOK, EnterStep
    <2>4. \A i \in DOMAIN Step(a).targets :
             Seen(a, at[a], i) \/ position[Step(a).targets[i][1]] = Step(a).targets[i][2]
      <3> TAKE i \in DOMAIN Step(a).targets
      <3>1. i < looking[a] \/ i = looking[a]
        BY <1>2, <1>3
      <3> QED  BY <1>1, <3>1 DEF Seen
    <2>5. ASSUME NEW b \in Actions, alone'[b], Live(b)'
          PROVE  Undisturbed(b)'
      <3>1. \A i \in DOMAIN Step(a).targets : at[a] \in Verifies(program[a]) =>
               Seen(a, at[a], i) \/ position[Step(a).targets[i][1]] = Step(a).targets[i][2]
        BY <2>4
      <3> QED  BY <1>1, <1>3, <2>5, <3>1, EnterUndisturbed
    <2> QED  BY <2>1, <2>2, <2>3, <2>5 DEF MountInv
  <1>4. CASE /\ looking' = [looking EXCEPT ![a] = looking[a] + 1] /\ looking[a] # Len(Step(a).targets)
             /\ UNCHANGED <<stage, at, pass>>
    <2>1. PilarTypeOK'
      BY <1>1, <1>2, <1>4 DEF MountInv, PilarTypeOK
    <2>2. looking'[a] = looking[a] + 1 /\ \A b \in Actions \ {a} : looking'[b] = looking[b]
      BY <1>4 DEF MountInv, PilarTypeOK
    <2>3. ASSUME NEW b \in Actions
          PROVE  InProgram(b)'
      <3>1. CASE b = a
        <4>1. looking'[a] \in DOMAIN Step(a).targets
          BY <1>1, <1>2, <1>4, <2>2
        <4> QED  BY <1>1, <1>4, <3>1, <4>1 DEF MountInv, InProgram, Step
      <3>2. CASE b # a
        BY <1>1, <1>4, <2>2, <3>2 DEF MountInv, InProgram, Step
      <3> QED  BY <3>1, <3>2
    <2>4. ASSUME NEW b \in Actions, alone'[b], Live(b)'
          PROVE  Undisturbed(b)'
      <3>1. b = a /\ Undisturbed(a)
        BY <1>1, <1>4, <2>4 DEF MountInv, Live, Undisturbed
      <3>2. ASSUME NEW n \in Verifies(program[a]), NEW i \in DOMAIN program[a][n].targets, Seen(a, n, i)'
            PROVE  position[program[a][n].targets[i][1]] = program[a][n].targets[i][2]
        <4>1. n \in Nat /\ i \in Nat
          BY StepKinds DEF MountInv, InProgram, Verifies
        <4>2. Seen(a, n, i) \/ (n = at[a] /\ i = looking[a])
          BY <1>2, <1>4, <2>2, <3>2, <4>1 DEF Seen
        <4> QED  BY <1>1, <3>1, <4>2 DEF Undisturbed, Settled, Step
      <3>3. ASSUME NEW n \in Verifies(program[a]), NEW i \in DOMAIN program[a][n].targets
            PROVE  Settled(a, n, i)'
        <4>1. Settled(a, n, i)
          BY <3>1 DEF Undisturbed
        <4> QED  BY <1>1, <3>2, <4>1 DEF Settled
      <3>4. \A c \in Actions : Live(c)' => c = a
        BY <1>4, <3>1 DEF Undisturbed, Live
      <3> QED  BY <1>1, <3>1, <3>3, <3>4 DEF Undisturbed
    <2>5. mover' # Nobody => stage'[mover'] = "setting"
      BY <1>1, <1>4 DEF MountInv
    <2> QED  BY <2>1, <2>3, <2>4, <2>5 DEF MountInv
  <1> QED  BY <1>3, <1>4 DEF ReadMatch, LastTarget

\* The connection is lost, or the mount is not where it should be, or the time is over.
LEMMA FailureKeeps ==
    ASSUME MountInv, NEW a \in Actions,
           SetLost(a) \/ ReadMismatch(a) \/ ReadFails(a) \/ CancelAction(a)
    PROVE  MountInv'
  <1>0. /\ {"2002", "4005", "given up"} \subseteq Over
        /\ target \in [Variables -> Positions] /\ refused \in [Actions -> BOOLEAN]
    BY DEF Over, MountInv, PilarTypeOK
  <1>1. ASSUME stage[a] = "setting", Accept(a) \/ UNCHANGED target, UNCHANGED <<position, refused>>,
               NEW how \in {"4005", "given up"}, EndAction(a, how)
        PROVE  MountInv'
    <2>1. Live(a) /\ at[a] \in Sets(program[a])
      BY <1>1 DEF Live, Over, MountInv, InProgram
    <2>2. Step(a).variable \in Variables /\ Step(a).value \in Positions
      BY <2>1, StepKinds DEF MountInv, InProgram, Step, Sets
    <2>3. target' \in [Variables -> Positions]
      BY <1>0, <1>1, <2>2 DEF Accept
    <2> QED  BY <1>0, <1>1, <2>1, <2>3, EndActionKeeps
  <1>2. CASE stage[a] = "reading" /\ UNCHANGED <<mountVars, refused>>
             /\ \E how \in {"2002", "4005"} : EndAction(a, how)
    <2>1. Live(a)
      BY <1>2 DEF Live, Over
    <2> QED  BY <1>0, <1>2, <2>1, EndActionKeeps DEF mountVars
  <1>3. CASE ReadMismatch(a) /\ pass[a] < Passes
    <2>1. Live(a) /\ stage[a] = "reading"
      BY <1>3 DEF ReadMismatch, Live, Over
    <2> QED  BY <1>3, <2>1, StayKeeps DEF ReadMismatch
  <1>4. CASE SetLost(a)
    BY <1>1, <1>4 DEF SetLost
  <1>5. CASE CancelAction(a)
    <2>1. CASE stage[a] = "setting" /\ Accept(a)
      BY <1>1, <1>5, <2>1 DEF CancelAction
    <2>2. CASE UNCHANGED target
      BY <1>0, <1>5, <2>2, EndActionKeeps DEF CancelAction
    <2> QED  BY <1>5, <2>1, <2>2 DEF CancelAction
  <1> QED  BY <1>2, <1>3, <1>4, <1>5 DEF ReadMismatch, ReadFails

\* Every step of an action and every turn of the mount keeps the invariant.
LEMMA MountStepKeeps == MountInv /\ [PilarNext]_pilarVars => MountInv'
  <1> SUFFICES ASSUME MountInv, [PilarNext]_pilarVars
               PROVE  MountInv'
    OBVIOUS
  <1>1. ASSUME NEW a \in Actions, BeginAction(a)
        PROVE  MountInv'
    BY <1>1, BeginActionKeeps
  <1>2. ASSUME NEW a \in Actions, TakeLock(a)
        PROVE  MountInv'
    <2>1. Live(a)
      BY <1>2 DEF TakeLock, Live, Over
    <2> QED  BY <1>2, <2>1, StayKeeps DEF TakeLock
  <1>3. ASSUME NEW a \in Actions, SetAccepted(a) \/ SetRefused(a)
        PROVE  MountInv'
    BY <1>3, SetKeeps
  <1>4. ASSUME NEW a \in Actions, ReadMatch(a)
        PROVE  MountInv'
    BY <1>4, ReadMatchKeeps
  <1>5. ASSUME NEW a \in Actions, SetLost(a) \/ ReadMismatch(a) \/ ReadFails(a) \/ CancelAction(a)
        PROVE  MountInv'
    BY <1>5, FailureKeeps
  <1>6. ASSUME NEW a \in Actions, WakeUp(a)
        PROVE  MountInv'
    <2>1. Live(a)
      BY <1>6 DEF WakeUp, Live, Over
    <2> QED  BY <1>6, <2>1, StayKeeps DEF WakeUp
  <1>7. ASSUME NEW v \in Variables, Turn(v)
        PROVE  MountInv'
    BY <1>7, TurnKeeps
  <1>8. CASE UNCHANGED pilarVars
    BY <1>8 DEF pilarVars, mountVars, verifyVars, MountInv, PilarTypeOK, InProgram, Step, Undisturbed, Settled, Live, Seen
  <1> QED  BY <1>1, <1>2, <1>3, <1>4, <1>5, <1>6, <1>7, <1>8 DEF PilarNext, ActionStep

\* So it always holds.
LEMMA MountAlways == PilarSpec => []MountInv
  <1>1. PilarInit => MountInv
    <2> SUFFICES ASSUME PilarInit
                 PROVE  MountInv
      OBVIOUS
    <2>1. PilarTypeOK
      BY PilarActionAssumption DEF PilarInit, PilarTypeOK
    <2> QED  BY <2>1 DEF PilarInit, MountInv, InProgram
  <1> QED  BY <1>1, MountStepKeeps, PTL DEF PilarSpec

\* Every variable of the mount has its type; an action is always at a step its program
\* has and looks at a target the step has (call, pilar_connector.py).
THEOREM ActionTypes == PilarSpec => []PilarTypeOK
  BY MountAlways, PTL DEF MountInv

\* A slew that reports success, undisturbed and begun at rest, has the mount where
\* it was sent, though a refused command is ignored (call, pilar_connector.py 476).
THEOREM SlewsArrive == PilarSpec => VerifiedMeansThere
  <1> DEFINE Arrives == \A a \in Actions : stage[a] = "reading" /\ stage'[a] = "ok" /\ alone[a] =>
               \A s \in Verified(program[a]) : \A i \in DOMAIN s.targets :
                  LET v == s.targets[i][1] IN position[v] = s.targets[i][2] /\ target[v] = position[v]
  <1>1. MountInv /\ [PilarNext]_pilarVars => [Arrives]_pilarVars
    <2> SUFFICES ASSUME MountInv, PilarNext, NEW a \in Actions,
                        stage[a] = "reading", stage'[a] = "ok", alone[a],
                        NEW n \in Verifies(program[a]), NEW i \in DOMAIN program[a][n].targets
                 PROVE  LET v == program[a][n].targets[i][1]
                        IN  position[v] = program[a][n].targets[i][2] /\ target[v] = position[v]
      BY DEF Verified, Verifies
    <2>1. stage'[a] # stage[a] /\ stage'[a] \notin {"2002", "4005", "given up", "sleeping"}
      OBVIOUS
    <2>2. ReadMatch(a)
      <3>1. PICK b \in Actions : BeginAction(b) \/ ActionStep(b) \/ CancelAction(b)
        BY <2>1 DEF PilarNext, Turn
      <3>2. b = a
        <4> SUFFICES ASSUME b # a
                     PROVE  stage'[a] = stage[a]
          BY <2>1
        <4>1. \E s : stage' = [stage EXCEPT ![b] = s]
          BY <3>1 DEF BeginAction, ActionStep, TakeLock, SetAccepted, SetRefused, RefusalIgnored, SetLost,
                      ReadMatch, ReadMismatch, ReadFails, WakeUp, CancelAction, EndAction, EnterStep
        <4> QED  BY <4>1 DEF MountInv, PilarTypeOK
      <3>3. CASE ReadMismatch(a) \/ ReadFails(a) \/ CancelAction(a)
        BY <2>1, <3>3 DEF ReadMismatch, ReadFails, CancelAction, EndAction, MountInv, PilarTypeOK
      <3> QED  BY <3>1, <3>2, <3>3 DEF BeginAction, ActionStep, TakeLock, SetAccepted, SetRefused,
                                       SetLost, WakeUp
    <2>3. EnterStep(a, at[a] + 1) /\ LastTarget(a) /\ Matches(a)
      BY <2>1, <2>2 DEF ReadMatch
    <2>4. /\ program[a] \in Programs /\ n \in DOMAIN program[a] /\ n \in Nat /\ i \in Nat
          /\ at[a] \in Nat /\ at[a] \in Verifies(program[a])
          /\ DOMAIN program[a] = 1 .. Len(program[a]) /\ Len(program[a]) \in Nat
      BY StepKinds DEF MountInv, PilarTypeOK, InProgram, Verifies
    <2>5. n <= at[a]
      <3>1. Entry(program[a], at[a] + 1) = "ok"
        BY <2>3 DEF EnterStep, MountInv, PilarTypeOK
      <3>2. at[a] + 1 \notin DOMAIN program[a]
        BY <2>4, <3>1, EntryFits
      <3> QED  BY <2>4, <3>2 DEF Verifies
    <2>6. Undisturbed(a)
      BY DEF MountInv, Live, Over
    <2> DEFINE v == program[a][n].targets[i][1]
               value == program[a][n].targets[i][2]
    <2>7. position[v] = target[v] \/ target[v] = value
      BY <2>6 DEF Undisturbed, Settled
    <2>8. position[v] = value
      <3>1. CASE Seen(a, n, i)
        BY <2>6, <3>1 DEF Undisturbed, Settled
      <3>2. CASE n = at[a] /\ i = looking[a]
        BY <2>3, <3>2 DEF Matches, ThisTarget, Step
      <3>3. n = at[a] => i <= looking[a]
        BY <2>3, <2>4, StepKinds DEF LastTarget, Step
      <3>4. looking[a] \in Nat
        BY DEF MountInv, PilarTypeOK
      <3> QED  BY <2>4, <2>5, <3>1, <3>2, <3>3, <3>4 DEF Seen
    <2> QED  BY <2>7, <2>8
  <1> QED  BY <1>1, MountAlways, PTL DEF PilarSpec, VerifiedMeansThere
-------------------------------------------------------------------------------
(* The connectors as the requests use them.                                *)

\* Nothing happens to a connector.
IrisStays  == UNCHANGED irisVars
PilarStays == UNCHANGED pilarVars

\* The way down ends at one connector at most.
LEMMA GoSteps ==
    ASSUME NEW r \in Requests, NEW t, NEW way, Go(r, t, way)
    PROVE  \/ BeginCall(r) /\ PilarStays
           \/ BeginAction(r) /\ IrisStays
           \/ IrisStays /\ PilarStays
  <1>1. CASE Blocked(r, t, way)
    BY <1>1 DEF Blocked, IrisStays, PilarStays
  <1>2. CASE \E u : \/ Camera(r, u) \/ Mount(r, u) \/ Device(r, u)
                    \/ UNCHANGED <<irisVars, pilarVars>>
    BY <1>2 DEF Camera, Mount, Device, IrisStays, PilarStays
  <1>3. Blocked(r, t, way) \/ \E u : \/ Camera(r, u) \/ Mount(r, u) \/ Device(r, u)
                                     \/ UNCHANGED <<irisVars, pilarVars>>
    BY DEF Go, Misfit
  <1> QED  BY <1>1, <1>2, <1>3

\* A task's connector is told when its time is over.
LEMMA WithdrawSteps ==
    ASSUME NEW r \in Requests, Withdraw(r)
    PROVE  \/ CancelCall(r) /\ PilarStays
           \/ CancelAction(r) /\ IrisStays
           \/ IrisStays /\ PilarStays
  BY DEF Withdraw, IrisStays, PilarStays

\* What any step is to the two connectors.
LEMMA ConnectorSteps ==
    ASSUME [ObservatoryNext]_observatoryVars
    PROVE  [IrisNext]_irisVars /\ [PilarNext]_pilarVars
  <1> USE ObservatoryAssumption
  <1> DEFINE Both == [IrisNext]_irisVars /\ [PilarNext]_pilarVars
  <1>1. ASSUME NEW r \in Requests, BeginCall(r) \/ CallStep(r) \/ CancelCall(r), PilarStays
        PROVE  Both
    BY <1>1 DEF IrisNext, PilarStays
  <1>2. ASSUME NEW r \in Requests, BeginAction(r) \/ ActionStep(r) \/ CancelAction(r), IrisStays
        PROVE  Both
    BY <1>2 DEF PilarNext, IrisStays
  <1>3. CASE IrisStays /\ PilarStays
    BY <1>3 DEF IrisStays, PilarStays
  <1>4. ASSUME NEW r \in Requests, NEW t, NEW way, Go(r, t, way)
        PROVE  Both
    BY <1>1, <1>2, <1>3, <1>4, GoSteps
  <1>5. ASSUME NEW r \in Requests, Withdraw(r)
        PROVE  Both
    BY <1>1, <1>2, <1>3, <1>5, WithdrawSteps
  <1>6. ASSUME NEW r \in Requests, Begin(r)
        PROVE  Both
    <2>1. (\E t, s : Freeze(r, t, s)) \/ (\E t, way : Go(r, t, way))
      BY <1>6 DEF Begin
    <2>2. ASSUME NEW t, NEW s, Freeze(r, t, s)
          PROVE  IrisStays /\ PilarStays
      BY <2>2 DEF Freeze, IrisStays, PilarStays
    <2> QED  BY <1>3, <1>4, <2>1, <2>2
  <1>7. ASSUME NEW r \in Requests, Refresh(r)
        PROVE  Both
    BY <1>4, <1>7 DEF Refresh
  <1>8. ASSUME NEW r \in Requests, BeginDamaged(r) \/ Notified(r) \/ DeviceDone(r)
        PROVE  Both
    BY <1>3, <1>8 DEF BeginDamaged, Notified, DeviceDone, IrisStays, PilarStays
  <1>9. ASSUME NEW r \in Requests, CameraStep(r)
        PROVE  Both
    BY <1>1, <1>9 DEF CameraStep, PilarStays
  <1>10. ASSUME NEW r \in Requests, MountStep(r)
         PROVE  Both
    BY <1>2, <1>10 DEF MountStep, IrisStays
  <1>11. ASSUME NEW r \in Requests, AdapterTimeOut(r) \/ Expire(r)
         PROVE  Both
    BY <1>5, <1>11 DEF AdapterTimeOut, Expire
  <1>12. ASSUME NEW r \in Requests, Cancel(r)
         PROVE  Both
    BY <1>3, <1>5, <1>12 DEF Cancel, IrisStays, PilarStays
  <1>13. CASE World
    BY <1>13 DEF World, IrisNext, PilarNext
  <1>14. ASSUME NEW m \in Messages, GiveUp(m) \/ Reply(m)
         PROVE  Both
    BY <1>3, <1>14 DEF GiveUp, Reply, IrisStays, PilarStays
  <1>15. CASE UNCHANGED observatoryVars
    BY <1>3, <1>15 DEF observatoryVars, IrisStays, PilarStays
  <1> QED
    BY <1>6, <1>7, <1>8, <1>9, <1>10, <1>11, <1>12, <1>13, <1>14, <1>15
       DEF ObservatoryNext, TaskStep

\* The requests of the server use the camera as IrisEndpoint says.
THEOREM CameraIsUsedAlike == ObservatorySpec => IrisSpec
  <1>1. ObservatoryInit => IrisInit
    BY DEF ObservatoryInit
  <1> QED  BY <1>1, ConnectorSteps, PTL DEF ObservatorySpec, IrisSpec

\* The requests of the server use the mount as PilarAction says.
THEOREM MountIsUsedAlike == ObservatorySpec => PilarSpec
  <1>1. ObservatoryInit => PilarInit
    BY DEF ObservatoryInit
  <1> QED  BY <1>1, ConnectorSteps, PTL DEF ObservatorySpec, PilarSpec

\* So one request at a time has the socket of the camera, whatever the freezer,
\* the adapter and the router do with their time-outs.
THEOREM OneRequestAtTheCamera == ObservatorySpec => []OneAtATime
  BY CameraIsUsedAlike, OneCallAtATime, PTL

\* And an answer goes to the wrong request only after a time-out, a
\* cancellation or an error at that socket.
THEOREM WrongAnswersHaveACause == ObservatorySpec => []WrongAnswerHasCause
  BY CameraIsUsedAlike, MixUpsHaveACause, PTL

\* And the requests leave no more sockets behind than time-outs and closed
\* transports account for.
THEOREM CameraSocketsAreBounded == ObservatorySpec => []SocketsBounded
  BY CameraIsUsedAlike, SocketsAreBounded, PTL
-------------------------------------------------------------------------------
(* What is true of the record of a request.  It goes nowhere before it     *)
(* begins; from then on it knows where its way ends and what it comes to,  *)
(* the freezer's way back down ends there too, the severity kept is the    *)
(* worst of those since the last value, and a CRITICAL one has a lasting   *)
(* cause.                                                                  *)

\* Where it goes.
EndOf(l)  == End(FromRoot(l))
AsksOf(l) == Outcome(l, FromRoot(l))

\* The freezer sends it where it went first.
Frozen(l, t) ==
    /\ t.freezer \in Components
    /\ LET way == Way(l.address, l.put, Tree[t.freezer].sub, t.index)
       IN  End(way) = t.end /\ Outcome(l, way) = t.asks

\* The freezer's count of failures, and the worst of them.
Counts(t) ==
    /\ t.tries \in 0 .. MaxRefreshes
    /\ t.severities \subseteq Severities
    /\ \/ t.worst = Nil /\ t.severities = {}
       \/ t.worst \in t.severities /\ \A s \in t.severities : Rank(s) <= Rank(t.worst)

\* Why asking again does not help.
Permanent(t, s) == ~Served(t.asks) \/ s = "3002" \/ t.lacking

\* The record t of a request l that has begun; s is the stage of its action.
OnItsWay(l, t, s) ==
    /\ DOMAIN t = DOMAIN NewTask
    /\ t.end = EndOf(l) /\ t.asks = AsksOf(l) /\ t.arrivals \subseteq {t.end}
    /\ t.freezer = Nil \/ Frozen(l, t)
    /\ Counts(t)
    /\ t.lacking \in BOOLEAN
    /\ t.worst = "CRITICAL" => Permanent(t, s)

\* Of its answer.
MaySay(l, t, s) ==
    /\ t.answer.code = "2003" => t.answer.severity = IF t.worst = Nil THEN "NORMAL" ELSE t.worst
    /\ t.answer.severity = "CRITICAL" =>
          Permanent(t, s) \/ (l.cycle /\ (l.put \/ l.address \in Uncachable))

\* l: what is asked, t: the record, s: the stage of its action at the mount.
TaskOK(l, t, s) ==
    \/ t = NewTask
    \/ t = [NewTask EXCEPT !.where = "cancelled"]
    \/ l.damaged /\ t = EndWith(NewTask, Answer("4001", "CRITICAL"))
    \/ /\ OnItsWay(l, t, s)
       /\ \/ /\ t.where \in Waiting
             /\ t.freezer # Nil => t.tries < MaxRefreshes
             /\ t.where = "condition" => t.freezer # Nil
          \/ t.where = "answered" /\ MaySay(l, t, s)
          \/ t.where = "cancelled"

\* The fields of the record of a request.
LEMMA Fields ==
    /\ DOMAIN NewTask = {"where", "end", "asks", "freezer", "index", "tries", "worst",
                         "answer", "severities", "arrivals", "lacking"}
    /\ NewTask.where = "new" /\ NewTask.freezer = Nil /\ NewTask.tries = 0 /\ NewTask.worst = Nil
    /\ NewTask.severities = {} /\ NewTask.arrivals = {} /\ NewTask.lacking = FALSE
  BY DEF NewTask

\* Of a request that went nowhere yet nothing is known.
LEMMA Untried ==
    ASSUME NEW t \in {NewTask, [NewTask EXCEPT !.where = "cancelled"],
                      EndWith(NewTask, Answer("4001", "CRITICAL"))}
    PROVE  /\ t.where \in {"new", "answered", "cancelled"}
           /\ t.freezer = Nil /\ t.tries = 0 /\ t.worst = Nil /\ t.severities = {} /\ t.arrivals = {}
  <1>1. CASE t = NewTask
    BY <1>1, Fields
  <1>2. CASE t = [NewTask EXCEPT !.where = "cancelled"]
    BY <1>2, Fields
  <1>3. CASE t = EndWith(NewTask, Answer("4001", "CRITICAL"))
    BY <1>3, Fields DEF EndWith
  <1> QED  BY <1>1, <1>2, <1>3

\* The way from the solver.
LEMMA FromRootWay ==
    ASSUME NEW l \in Loads, NEW r \in Requests
    PROVE  /\ FromRoot(l[r]) = Ways(l[r].address, l[r].put)[Forward(Root, 1)]
           /\ Forward(Root, 1) \in Stations(l[r].address)
           /\ Leads(l[r].address, l[r].put, Forward(Root, 1))
           /\ EndOf(l[r]) \in Stations(l[r].address)
  <1> DEFINE way == Way(l[r].address, l[r].put, Root, 1)
  <1>2. FromRoot(l[r]) = way
    BY DEF FromRoot
  <1>3. Len(l[r].address) \in Nat
    BY ObservatoryAssumption
  <1>4. Forward(Root, 1) \in Stations(l[r].address)
    BY <1>3, TreeAssumption DEF Forward, Stations
  <1>5. Leads(l[r].address, l[r].put, Forward(Root, 1))
    BY <1>3, <1>4, AllLead
  <1>6. Last(way.steps) \in Stations(l[r].address)
    <2> DEFINE q == way.steps
    <2>1. q \in Seq(Stations(l[r].address)) /\ q # <<>>
      BY <1>5 DEF Leads, Way
    <2> HIDE DEF q
    <2>2. q[Len(q)] \in Stations(l[r].address)
      BY <2>1
    <2> QED  BY <2>2 DEF Last, q
  <1> QED  BY <1>2, <1>4, <1>5, <1>6 DEF Way, EndOf, End

\* What a way comes to.
LEMMA OutcomeKinds ==
    ASSUME NEW l, NEW way, \/ way.end \in Failures
                           \/ way.end = Arrived /\ Tree[End(way).at].kind \in {"handler", "adapter"}
    PROVE  LET o == Outcome(l, way)
           IN  \/ o = Ok /\ "code" \in DOMAIN o
               \/ o \in Failures /\ ~Served(o) /\ "code" \in DOMAIN o
               \/ "protocol" \in DOMAIN o /\ "code" \notin DOMAIN o
  <1>1. ASSUME NEW a \in Failures
        PROVE  ~Served(a) /\ "code" \in DOMAIN a /\ a # Arrived /\ a # Ok
    <2>1. PICK code \in Codes \ {"ok"}, severity \in Severities : a = Answer(code, severity)
      BY <1>1 DEF Failures
    <2>2. DOMAIN a = {"code", "severity"} /\ a.code # "ok"
      BY <2>1 DEF Answer
    <2>3. DOMAIN Arrived = {"at"} /\ Ok.code = "ok"
      BY DEF Arrived, Ok, Answer
    <2>4. DOMAIN a # DOMAIN Arrived /\ "protocol" \notin DOMAIN a
      BY <2>2, <2>3
    <2> QED  BY <2>2, <2>3, <2>4 DEF Served
  <1>2. CASE way.end \in Failures
    BY <1>1, <1>2 DEF Outcome
  <1>3. CASE way.end = Arrived /\ Tree[End(way).at].kind = "handler"
    BY <1>3 DEF Outcome, Ok, Answer
  <1>4. CASE way.end = Arrived /\ Tree[End(way).at].kind = "adapter"
    <2> DEFINE adapter == End(way).at
               rest == SubSeq(l.address, End(way).index, Len(l.address))
               o == DeviceHop(adapter, rest, l.put)
    <2>1. Outcome(l, way) = o
      BY <1>4 DEF Outcome
    <2>2. \/ o \in Failures
          \/ \E p, c : o = [protocol |-> p, checks |-> c]
      <3>1. /\ Answer("1001", "NORMAL") \in Failures /\ Answer("1002", "CRITICAL") \in Failures
            /\ Answer("2002", "NORMAL") \in Failures /\ Answer("3002", "CRITICAL") \in Failures
        BY DEF Failures, Codes, Severities
      <3> HIDE DEF adapter, rest
      <3> QED  BY <3>1 DEF DeviceHop
    <2> HIDE DEF o
    <2>3. ASSUME NEW p, NEW c, o = [protocol |-> p, checks |-> c]
          PROVE  "protocol" \in DOMAIN o /\ "code" \notin DOMAIN o
      BY <2>3
    <2> QED  BY <1>1, <2>1, <2>2, <2>3
  <1> QED  BY <1>2, <1>3, <1>4

-------------------------------------------------------------------------------
(* The freezer's loop and the way up, on the record of a request.          *)

\* A failure is none of a value, and none of the freezer's own.
LEMMA FailureKinds ==
    ASSUME NEW a \in Failures
    PROVE  /\ a # Ok /\ a.code \in Codes \ {"ok"} /\ a.severity \in Severities
           /\ a = Answer(a.code, a.severity)
           /\ Surfaced(a) \in Failures
           /\ a.code # "3002" => Surfaced(a) = a
  <1>1. PICK code \in Codes \ {"ok"}, severity \in Severities : a = Answer(code, severity)
    BY DEF Failures
  <1>2. a.code = code /\ a.severity = severity /\ Ok.code = "ok"
    BY <1>1 DEF Answer, Ok
  <1>3. Answer("3001", "CRITICAL") \in Failures
    BY DEF Failures, Codes, Severities
  <1> QED  BY <1>1, <1>2, <1>3 DEF Surfaced, Severities

\* The severities have ranks, and Nil none of theirs.
LEMMA Ranks ==
    /\ Rank(Nil) = 0 /\ \A s \in Severities : Rank(s) \in 1 .. 3 /\ s # Nil
  BY ObservatoryAssumption DEF Severities, Rank

\* A refresh that came back is counted.
LEMMA CountKeeps ==
    ASSUME NEW l, NEW t, NEW s, OnItsWay(l, t, s), t.freezer # Nil, t.tries < MaxRefreshes,
           NEW a \in Failures \cup {Ok}, a.severity = "CRITICAL" => Permanent(t, s)
    PROVE  LET u == Count(t, a) IN OnItsWay(l, u, s) /\ u.freezer # Nil
  <1> DEFINE u == Count(t, a)
             v == [t EXCEPT !.tries = @ + 1, !.worst = WorstSeverity(@, a.severity),
                            !.severities = @ \cup {a.severity}]
  <1>0. /\ {"tries", "worst", "severities"} \subseteq DOMAIN t
        /\ MaxRefreshes \in Nat /\ t.tries \in Nat
    BY Fields, ObservatoryAssumption DEF OnItsWay, Counts
  <1>1. CASE a = Ok
    <2>1. u = [t EXCEPT !.tries = 0, !.worst = Nil, !.severities = {}]
      BY <1>1 DEF Count
    <2>2. /\ u.tries = 0 /\ u.worst = Nil /\ u.severities = {} /\ DOMAIN u = DOMAIN t
          /\ u.end = t.end /\ u.asks = t.asks /\ u.arrivals = t.arrivals
          /\ u.freezer = t.freezer /\ u.index = t.index /\ u.lacking = t.lacking
      BY <1>0, <2>1
    <2>3. Nil # "CRITICAL"
      BY ObservatoryAssumption DEF Severities
    <2> HIDE DEF u
    <2>4. OnItsWay(l, u, s) /\ u.freezer # Nil
      BY <1>0, <2>2, <2>3 DEF OnItsWay, Frozen, Counts
    <2> QED  BY <2>4 DEF u
  <1>2. CASE a \in Failures
    <2>1. a # Ok /\ a.severity \in Severities
      BY <1>2, FailureKinds
    <2>2. u = v
      BY <2>1 DEF Count
    <2>3. /\ u.tries = t.tries + 1 /\ u.worst = WorstSeverity(t.worst, a.severity)
          /\ u.severities = t.severities \cup {a.severity} /\ DOMAIN u = DOMAIN t
          /\ u.end = t.end /\ u.asks = t.asks /\ u.arrivals = t.arrivals
          /\ u.freezer = t.freezer /\ u.index = t.index /\ u.lacking = t.lacking
      BY <1>0, <2>2
    <2> HIDE DEF u, v
    <2>4. Counts(u)
      <3>1. u.tries \in 0 .. MaxRefreshes /\ u.severities \subseteq Severities
        BY <1>0, <2>1, <2>3 DEF OnItsWay, Counts
      <3>2. CASE Rank(a.severity) > Rank(t.worst)
        <4>1. u.worst = a.severity
          BY <2>3, <3>2 DEF WorstSeverity
        <4>2. \A x \in t.severities : Rank(x) <= Rank(a.severity)
          BY <2>1, <3>2, Ranks DEF OnItsWay, Counts
        <4> QED  BY <2>1, <2>3, <3>1, <4>1, <4>2, Ranks DEF Counts
      <3>3. CASE ~(Rank(a.severity) > Rank(t.worst))
        <4>1. u.worst = t.worst
          BY <2>3, <3>3 DEF WorstSeverity
        <4>2. t.worst # Nil
          BY <2>1, <3>3, Ranks
        <4>3. Rank(a.severity) <= Rank(t.worst)
          BY <2>1, <3>3, <4>2, Ranks DEF OnItsWay, Counts
        <4> QED  BY <2>3, <3>1, <4>1, <4>2, <4>3 DEF OnItsWay, Counts
      <3> QED  BY <3>2, <3>3
    <2>5. u.worst = "CRITICAL" => Permanent(t, s)
      BY <2>3 DEF WorstSeverity, OnItsWay
    <2>6. OnItsWay(l, u, s) /\ u.freezer # Nil
      BY <2>3, <2>4, <2>5 DEF OnItsWay, Frozen, Permanent
    <2> QED  BY <2>6 DEF u
  <1> QED  BY <1>1, <1>2

\* A request that is answered, and one that waits.
LEMMA AnswerKeeps ==
    ASSUME NEW l, NEW t, NEW s, OnItsWay(l, t, s), NEW a,
           a.code = "2003" => a = TooManyFailures(t),
           a.severity = "CRITICAL" => Permanent(t, s) \/ (l.cycle /\ (l.put \/ l.address \in Uncachable))
    PROVE  TaskOK(l, EndWith(t, a), s) /\ EndWith(t, a).where = "answered"
  <1> DEFINE u == EndWith(t, a)
  <1>1. {"where", "answer"} \subseteq DOMAIN t
    BY Fields DEF OnItsWay
  <1>2. /\ DOMAIN u = DOMAIN t /\ u.where = "answered" /\ u.answer = a
        /\ u.end = t.end /\ u.asks = t.asks /\ u.arrivals = t.arrivals /\ u.severities = t.severities
        /\ u.tries = t.tries /\ u.worst = t.worst
        /\ u.freezer = t.freezer /\ u.index = t.index /\ u.lacking = t.lacking
    BY <1>1 DEF EndWith
  <1>3. TooManyFailures(t).severity = IF t.worst = Nil THEN "NORMAL" ELSE t.worst
    BY DEF TooManyFailures, Answer
  <1> HIDE DEF u
  <1>4. OnItsWay(l, u, s)
    BY <1>2 DEF OnItsWay, Frozen, Counts, Permanent
  <1>5. MaySay(l, u, s)
    BY <1>2, <1>3 DEF MaySay, Permanent
  <1> QED  BY <1>2, <1>4, <1>5 DEF TaskOK, u

\* A request that waits, or is cancelled.
LEMMA WaitKeeps ==
    ASSUME NEW l, NEW t, NEW s, OnItsWay(l, t, s), t.freezer # Nil => t.tries < MaxRefreshes,
           NEW where \in Waiting \cup {"cancelled"}, where = "condition" => t.freezer # Nil
    PROVE  LET u == [t EXCEPT !.where = where] IN TaskOK(l, u, s) /\ u.where = where
  <1> DEFINE u == [t EXCEPT !.where = where]
  <1>1. "where" \in DOMAIN t
    BY Fields DEF OnItsWay
  <1>2. /\ DOMAIN u = DOMAIN t /\ u.where = where
        /\ u.end = t.end /\ u.asks = t.asks /\ u.arrivals = t.arrivals /\ u.severities = t.severities
        /\ u.tries = t.tries /\ u.worst = t.worst
        /\ u.freezer = t.freezer /\ u.index = t.index /\ u.lacking = t.lacking
    BY <1>1
  <1> HIDE DEF u
  <1>3. OnItsWay(l, u, s)
    BY <1>2 DEF OnItsWay, Frozen, Counts, Permanent
  <1> QED  BY <1>2, <1>3 DEF TaskOK, u

\* The top of the loop.
LEMMA LoopKeeps ==
    ASSUME NEW l, NEW t, NEW s, OnItsWay(l, t, s), t.freezer # Nil, NEW u \in LoopTop(t)
    PROVE  TaskOK(l, u, s) /\ u.where \in {"answered", "condition"}
  <1>1. CASE u = EndWith(t, Ok)
    <2>1. Ok.code # "2003" /\ Ok.severity # "CRITICAL"
      BY DEF Ok, Answer
    <2> QED  BY <1>1, <2>1, AnswerKeeps
  <1>2. CASE u = EndWith(t, TooManyFailures(t))
    <2>1. TooManyFailures(t).severity = "CRITICAL" => Permanent(t, s)
      BY DEF TooManyFailures, Answer, OnItsWay
    <2> QED  BY <1>2, <2>1, AnswerKeeps
  <1>3. CASE ~GivesUp(t) /\ u = [t EXCEPT !.where = "condition"]
    <2>1. t.tries < MaxRefreshes
      BY <1>3, ObservatoryAssumption DEF GivesUp, OnItsWay, Counts
    <2>2. "condition" \in Waiting
      BY DEF Waiting
    <2> QED  BY <1>3, <2>1, <2>2, WaitKeeps
  <1> QED  BY <1>1, <1>2, <1>3 DEF LoopTop

\* The answer of a device, of the tree or of a time-out.
LEMMA AfterKeeps ==
    ASSUME NEW l, NEW t, NEW s, OnItsWay(l, t, s), t.freezer # Nil => t.tries < MaxRefreshes,
           NEW a \in Failures \cup {Ok}, Surfaced(a).severity = "CRITICAL" => Permanent(t, s),
           NEW u \in After(t, a)
    PROVE  TaskOK(l, u, s) /\ u.where \in {"answered", "condition"}
  <1>0. Ok.code = "ok" /\ Surfaced(Ok) = Ok
    BY DEF Surfaced, Ok, Answer
  <1>1. Surfaced(a) \in Failures \cup {Ok}
    BY <1>0, FailureKinds
  <1>2. CASE t.freezer = Nil
    <2>1. Surfaced(a).code \in Codes
      BY <1>0, <1>1, FailureKinds DEF Codes
    <2>2. Surfaced(a).code # "2003"
      BY <2>1 DEF Codes
    <2> QED  BY <1>2, <2>2, AnswerKeeps DEF After
  <1>3. CASE t.freezer # Nil
    <2>1. OnItsWay(l, Count(t, Surfaced(a)), s) /\ Count(t, Surfaced(a)).freezer # Nil
      BY <1>1, <1>3, CountKeeps
    <2> QED  BY <1>3, <2>1, LoopKeeps DEF After
  <1> QED  BY <1>2, <1>3

-------------------------------------------------------------------------------
(* The requests and the connectors together.                               *)

\* A request that is not at the camera or at the mount has ended there, or not
\* begun.
RequestInv(r) ==
    /\ TaskOK(load[r], task[r], stage[r])
    /\ task[r].where # "camera" => place[r] \in Ended \cup {"new"}
    /\ task[r].where # "mount" => ~Live(r)

ServeInv ==
    /\ load \in Loads
    /\ message \in [Messages -> {"open", "cancelled", "replied"}]
    /\ DOMAIN task = Requests
    /\ \A r \in Requests : RequestInv(r)

\* Where it goes is where the tree sends it.
LEMMA AskKinds ==
    ASSUME NEW l \in Loads, NEW r \in Requests
    PROVE  LET o == AsksOf(l[r])
           IN  \/ o = Ok /\ "code" \in DOMAIN o
               \/ o \in Failures /\ ~Served(o) /\ "code" \in DOMAIN o
               \/ "protocol" \in DOMAIN o /\ "code" \notin DOMAIN o
  <1> DEFINE way == FromRoot(l[r])
  <1>1. \/ way.end \in Failures
        \/ way.end = Arrived /\ Tree[End(way).at].kind \in {"handler", "adapter"}
    <2> DEFINE adr == l[r].address
               put == l[r].put
    <2>1. Leads(adr, put, Forward(Root, 1)) /\ way = Ways(adr, put)[Forward(Root, 1)]
      BY FromRootWay
    <2> HIDE DEF way, adr, put
    <2> QED  BY <2>1 DEF Leads, End
  <1> HIDE DEF way
  <1> DEFINE o == Outcome(l[r], way)
  <1>2. \/ o = Ok /\ "code" \in DOMAIN o
        \/ o \in Failures /\ ~Served(o) /\ "code" \in DOMAIN o
        \/ "protocol" \in DOMAIN o /\ "code" \notin DOMAIN o
    BY <1>1, OutcomeKinds
  <1>3. AsksOf(l[r]) = o
    BY DEF AsksOf, way
  <1> HIDE DEF o
  <1> QED  BY <1>2, <1>3

\* Who waits is on its way.
LEMMA WhoWaits ==
    ASSUME NEW l, NEW t, NEW s, TaskOK(l, t, s), t.where \in Waiting
    PROVE  /\ OnItsWay(l, t, s)
           /\ t.freezer # Nil => t.tries < MaxRefreshes
           /\ t.where = "condition" => t.freezer # Nil
  <1>1. {"new", "answered", "cancelled"} \cap Waiting = {}
    BY DEF Waiting, AtDevice
  <1>2. NewTask.where = "new" /\ [NewTask EXCEPT !.where = "cancelled"].where = "cancelled"
    BY Fields
  <1>3. EndWith(NewTask, Answer("4001", "CRITICAL")).where = "answered"
    BY Fields DEF EndWith
  <1> QED  BY <1>1, <1>2, <1>3 DEF TaskOK

\* An action that ends with code 3002 does so for good.
LEMMA StageGrows ==
    ASSUME NEW l, NEW t, NEW s, NEW u, s = "3002" => u = "3002"
    PROVE  /\ TaskOK(l, t, s) => TaskOK(l, t, u)
           /\ OnItsWay(l, t, s) => OnItsWay(l, t, u)
  BY DEF TaskOK, OnItsWay, MaySay, Permanent

\* A step at the camera is one call's, and no call goes on after its end.
LEMMA CallMoves ==
    ASSUME IrisInv, NEW c \in Calls, BeginCall(c) \/ CallStep(c) \/ CancelCall(c)
    PROVE  /\ place[c] \notin Ended
           /\ \A d \in Calls \ {c} : place'[d] = place[d]
           /\ CallStep(c) => place[c] # "new" /\ place'[c] # "cancelled"
           /\ CancelCall(c) => place'[c] = "cancelled"
  <1>0. place \in [Calls -> Places]
    BY DEF IrisInv, IrisTypes
  <1>1. CASE BeginCall(c)
    <2>1. place[c] = "new" /\ \E p : place' = [place EXCEPT ![c] = p]
      BY <1>1, BeginCallKinds DEF Approaches, Sends, BeginCall
    <2>2. ~CallStep(c) /\ ~CancelCall(c)
      BY <2>1 DEF CallStep, Wake, Created, CreateFails, Answered, TimeOut, Awaited, CancelCall
    <2> QED  BY <1>0, <2>1, <2>2 DEF Ended
  <1>2. CASE Wake(c)
    <2>1. place[c] \in {"asking", "turn"} /\ \E p \in {"sent"} \cup Underway : place' = [place EXCEPT ![c] = p]
      BY <1>2, WakeKinds DEF Wake, Approaches, Sends
    <2> QED  BY <1>0, <1>2, <2>1 DEF Ended, Underway, CancelCall, Put
  <1>3. CASE Created(c)
    BY <1>0, <1>3 DEF Created, Put, Ended, CancelCall
  <1>4. CASE CreateFails(c) \/ Answered(c) \/ TimeOut(c)
    BY <1>0, <1>4 DEF CreateFails, Answered, Finish, TimeOut, Awaited, Put, Ended, CancelCall
  <1>5. CASE CancelCall(c)
    <2>1. place[c] \notin Ended /\ place' = [place EXCEPT ![c] = "cancelled"]
      BY <1>5 DEF CancelCall, Put
    <2>2. ~CallStep(c)
      <3>1. place'[c] = "cancelled"
        BY <1>0, <2>1
      <3>2. Wake(c) => \E p \in {"sent"} \cup Underway : place' = [place EXCEPT ![c] = p]
        BY WakeKinds DEF Approaches, Sends
      <3>3. ~Wake(c)
        BY <1>0, <3>1, <3>2 DEF Underway
      <3> QED  BY <1>0, <3>1, <3>3 DEF CallStep, Created, CreateFails, Answered, Finish, TimeOut, Put
    <2> QED  BY <1>0, <2>1, <2>2
  <1> QED  BY <1>1, <1>2, <1>3, <1>4, <1>5 DEF CallStep

\* A step at the mount is one action's.
LEMMA ActionMoves ==
    ASSUME MountInv, NEW a \in Actions, BeginAction(a) \/ ActionStep(a) \/ CancelAction(a)
    PROVE  /\ \A b \in Actions \ {a} : stage'[b] = stage[b]
           /\ ActionStep(a) => Live(a)
           /\ CancelAction(a) => stage'[a] = "given up"
           /\ BeginAction(a) \/ ActionStep(a) =>
                 stage'[a] \in {"lock", "setting", "reading", "sleeping", "ok", "2002", "3002", "4005"}
  <1> DEFINE Goes == /\ \A b \in Actions \ {a} : stage'[b] = stage[b]
                     /\ stage'[a] \in {"lock", "setting", "reading", "sleeping", "ok", "2002", "3002", "4005"}
  <1>0. stage \in [Actions -> {"none", "lock", "setting", "reading", "sleeping"} \cup Over]
    BY DEF MountInv, PilarTypeOK
  <1>1. ASSUME BeginAction(a)
        PROVE  Goes
    <2>1. PICK p \in Programs : stage' = [stage EXCEPT ![a] = Entry(p, 1)]
      BY <1>1 DEF BeginAction
    <2>2. Entry(p, 1) \in {"lock", "setting", "reading", "ok", "3002"}
      BY EntryFits
    <2> QED  BY <1>0, <2>1, <2>2
  <1>2. ASSUME ActionStep(a)
        PROVE  Live(a) /\ Goes
    <2>1. Live(a)
      BY <1>2 DEF ActionStep, TakeLock, SetAccepted, SetRefused, SetLost, ReadMatch, ReadMismatch,
                  ReadFails, WakeUp, Live, Over
    <2>2. ASSUME EnterStep(a, at[a] + 1), UNCHANGED program
          PROVE  Goes
      <3>1. stage' = [stage EXCEPT ![a] = Entry(program[a], at[a] + 1)]
        BY <2>2 DEF EnterStep
      <3>2. stage'[a] \in {"lock", "setting", "reading", "ok", "3002"}
        BY <2>1, <2>2, EnterFits
      <3> QED  BY <1>0, <3>1, <3>2
    <2>3. CASE TakeLock(a) \/ SetLost(a) \/ ReadMismatch(a) \/ ReadFails(a) \/ WakeUp(a)
      <3>1. \E s \in {"setting", "4005", "sleeping", "2002", "reading"} : stage' = [stage EXCEPT ![a] = s]
        BY <2>3 DEF TakeLock, SetLost, ReadMismatch, ReadFails, WakeUp, EndAction
      <3> QED  BY <1>0, <2>1, <3>1
    <2>4. CASE SetAccepted(a) \/ SetRefused(a)
      BY <2>1, <2>2, <2>4 DEF SetAccepted, SetRefused, RefusalIgnored
    <2>5. CASE ReadMatch(a)
      BY <2>1, <2>2, <2>5 DEF ReadMatch
    <2> QED  BY <1>2, <2>1, <2>3, <2>4, <2>5 DEF ActionStep
  <1>3. ASSUME CancelAction(a)
        PROVE  stage'[a] = "given up" /\ \A b \in Actions \ {a} : stage'[b] = stage[b]
    BY <1>0, <1>3 DEF CancelAction, EndAction
  <1> QED  BY <1>1, <1>2, <1>3

\* Nobody else's call or action goes on.
OthersStay(r) == \A q \in Requests \ {r} : place'[q] = place[q] /\ stage'[q] = stage[q]

\* It is enough to look at the request that moved.
LEMMA OneMoves ==
    ASSUME ServeInv, NEW r \in Requests, NEW u, Become(r, u), UNCHANGED <<load, message>>, OthersStay(r),
           TaskOK(load[r], u, stage'[r]),
           u.where # "camera" => place'[r] \in Ended \cup {"new"},
           u.where # "mount" => ~Live(r)'
    PROVE  ServeInv'
  <1>1. /\ DOMAIN task' = Requests /\ task'[r] = u
        /\ \A q \in Requests \ {r} : task'[q] = task[q]
    BY DEF ServeInv, Become
  <1>2. ASSUME NEW q \in Requests
        PROVE  RequestInv(q)'
    <2>1. CASE q = r
      BY <1>1, <2>1 DEF RequestInv
    <2>2. CASE q # r
      <3>1. RequestInv(q) /\ task'[q] = task[q] /\ place'[q] = place[q] /\ stage'[q] = stage[q]
        BY <1>1, <2>2 DEF ServeInv, OthersStay
      <3> QED  BY <3>1 DEF RequestInv, Live
    <2> QED  BY <2>1, <2>2
  <1> QED  BY <1>1, <1>2 DEF ServeInv

\* The answer a goes up.
LEMMA ReturnKeeps ==
    ASSUME ServeInv, NEW r \in Requests, NEW t, NEW a, Return(r, t, a), UNCHANGED <<load, message>>,
           OthersStay(r), place'[r] \in Ended \cup {"new"}, ~Live(r)',
           OnItsWay(load[r], t, stage'[r]), t.freezer # Nil => t.tries < MaxRefreshes,
           a \in Failures \cup {Ok}, Surfaced(a).severity = "CRITICAL" => Permanent(t, stage'[r])
    PROVE  ServeInv'
  <1>1. PICK u \in After(t, a) : Become(r, u)
    BY DEF Return
  <1>2. TaskOK(load[r], u, stage'[r])
    BY <1>1, AfterKeeps
  <1> QED  BY <1>1, <1>2, OneMoves

\* An answer that is no 3002 goes up as it is.
LEMMA PlainAnswers ==
    ASSUME NEW code \in Codes \ {"ok", "3002"}, NEW severity \in Severities
    PROVE  /\ Answer(code, severity) \in Failures
           /\ Surfaced(Answer(code, severity)).severity = severity
  <1>1. Answer(code, severity) \in Failures
    BY DEF Failures, Severities
  <1> QED  BY <1>1 DEF Surfaced, Answer

\* A value is nobody's failure.
LEMMA OkAnswer == Surfaced(Ok) = Ok /\ Ok.severity # "CRITICAL" /\ Ok.code # "2003"
  BY DEF Surfaced, Ok, Answer

\* What the mount answers.
LEMMA MountAnswers ==
    ASSUME NEW s \in {"ok", "2002", "3002", "4005"}
    PROVE  /\ MountAnswer(s) \in Failures \cup {Ok}
           /\ Surfaced(MountAnswer(s)).severity = "CRITICAL" => s = "3002"
  <1>1. {"2002", "4005"} \subseteq Codes \ {"ok", "3002"} /\ "NORMAL" \in Severities /\ "NORMAL" # "CRITICAL"
    BY DEF Codes, Severities
  <1>2. CASE s = "ok"
    BY <1>2, OkAnswer DEF MountAnswer
  <1>3. CASE s = "2002"
    BY <1>1, <1>3, PlainAnswers DEF MountAnswer
  <1>4. CASE s = "4005"
    BY <1>1, <1>4, PlainAnswers DEF MountAnswer
  <1>5. CASE s = "3002"
    <2>1. Answer("3002", "CRITICAL") \in Failures
      BY DEF Failures, Codes, Severities
    <2> QED  BY <1>5, <2>1 DEF MountAnswer
  <1> QED  BY <1>2, <1>3, <1>4, <1>5

\* What the camera answers: nothing permanent.
LEMMA CameraAnswers ==
    ASSUME NEW p \in Ended \ {"cancelled"}
    PROVE  CameraAnswer(p) \in Failures \cup {Ok} /\ Surfaced(CameraAnswer(p)).severity # "CRITICAL"
  <1>1. {"2002", "4005"} \subseteq Codes \ {"ok", "3002"} /\ "NORMAL" \in Severities /\ "NORMAL" # "CRITICAL"
    BY DEF Codes, Severities
  <1>2. CASE p = "ok"
    BY <1>2, OkAnswer DEF CameraAnswer
  <1>3. CASE p = "device error"
    BY <1>1, <1>3, PlainAnswers DEF CameraAnswer
  <1>4. CASE p = "unreachable"
    BY <1>1, <1>4, PlainAnswers DEF CameraAnswer
  <1> QED  BY <1>2, <1>3, <1>4 DEF Ended

\* What a driver answers: what is permanent is an answer without an error number.
LEMMA DriverAnswers ==
    ASSUME NEW x \in Exchanges
    PROVE  /\ AlpacaAnswer(x) \in Failures \cup {Ok}
           /\ Surfaced(AlpacaAnswer(x)).severity = "CRITICAL" => x = "no ErrorNumber"
  <1>1. /\ {"1002", "1003", "2002", "4005", "4008"} \subseteq Codes \ {"ok", "3002"}
        /\ Severities = {"TEMPORARY", "NORMAL", "CRITICAL"}
    BY DEF Codes, Severities
  <1>2. \/ AlpacaAnswer(x) = Ok
        \/ AlpacaAnswer(x) = Answer("1002", "CRITICAL") /\ x = "no ErrorNumber"
        \/ \E code \in {"1003", "2002", "4005", "4008"}, severity \in {"TEMPORARY", "NORMAL"} :
              AlpacaAnswer(x) = Answer(code, severity)
    <2> DEFINE raised == Raised(x)
    <2>1. /\ raised \in {"nothing", "AlpacaHttp400Error", "AlpacaHttp500Error", "AlpacaHttpError",
                         "AlpacaError", "ClientConnectionError", "AlpacaError 20072",
                         "RequestConnectionError", "TypeError", "ValueError",
                         "ServerConnectionError", "KeyError", "ClientPayloadError"}
          /\ raised = "KeyError" => x = "no ErrorNumber"
      BY DEF Raised, Exchanges, Connection, Http, Json
    <2> HIDE DEF raised
    <2>2. CASE raised \in {"nothing", "KeyError", "ClientPayloadError"}
      BY <2>1, <2>2 DEF AlpacaAnswer, Uncaught, raised
    <2>3. CASE raised \in {"AlpacaHttp400Error", "AlpacaHttp500Error", "AlpacaHttpError",
                           "AlpacaError", "ClientConnectionError", "AlpacaError 20072"}
      BY <2>3 DEF AlpacaAnswer, raised
    <2>4. CASE raised \in {"RequestConnectionError", "TypeError", "ValueError",
                           "ServerConnectionError"}
      BY <2>4 DEF AlpacaAnswer, raised
    <2> QED  BY <2>1, <2>2, <2>3, <2>4
  <1>3. CASE AlpacaAnswer(x) = Ok
    BY <1>3, OkAnswer
  <1>4. CASE AlpacaAnswer(x) = Answer("1002", "CRITICAL") /\ x = "no ErrorNumber"
    BY <1>1, <1>4, PlainAnswers
  <1>5. CASE \E code \in {"1003", "2002", "4005", "4008"}, severity \in {"TEMPORARY", "NORMAL"} :
                AlpacaAnswer(x) = Answer(code, severity)
    <2>1. PICK code \in {"1003", "2002", "4005", "4008"}, severity \in {"TEMPORARY", "NORMAL"} :
                AlpacaAnswer(x) = Answer(code, severity)
      BY <1>5
    <2>2. code \in Codes \ {"ok", "3002"} /\ severity \in Severities /\ severity # "CRITICAL"
      BY <1>1
    <2> QED  BY <2>1, <2>2, PlainAnswers
  <1> QED  BY <1>2, <1>3, <1>4, <1>5

-------------------------------------------------------------------------------
(* Every step keeps it.                                                    *)

\* The arrivals of a request that comes where it was sent.
LEMMA ArrivesAgain ==
    ASSUME NEW l, NEW t, NEW s, OnItsWay(l, t, s), NEW end, end = t.end
    PROVE  LET u == [t EXCEPT !.arrivals = @ \cup {end}]
           IN  OnItsWay(l, u, s) /\ u.freezer = t.freezer /\ u.tries = t.tries /\ u.asks = t.asks
  <1> DEFINE u == [t EXCEPT !.arrivals = @ \cup {end}]
  <1>1. /\ DOMAIN u = DOMAIN t /\ u.arrivals = t.arrivals \cup {end}
        /\ u.end = t.end /\ u.asks = t.asks /\ u.severities = t.severities
        /\ u.tries = t.tries /\ u.worst = t.worst
        /\ u.freezer = t.freezer /\ u.index = t.index /\ u.lacking = t.lacking
    BY Fields DEF OnItsWay
  <1> HIDE DEF u
  <1>2. OnItsWay(l, u, s) /\ u.freezer = t.freezer /\ u.tries = t.tries /\ u.asks = t.asks
    BY <1>1 DEF OnItsWay, Frozen, Counts, Permanent
  <1> QED  BY <1>2 DEF u

\* A request comes where it was sent.
LEMMA GoKeeps ==
    ASSUME IrisInv, MountInv, ServeInv, NEW r \in Requests, NEW t, NEW way,
           OnItsWay(load[r], t, stage[r]), t.freezer # Nil => t.tries < MaxRefreshes,
           End(way) = t.end, Outcome(load[r], way) = t.asks,
           place[r] \in Ended \cup {"new"}, ~Live(r),
           Go(r, t, way), UNCHANGED <<load, message>>
    PROVE  ServeInv'
  <1> DEFINE u == [t EXCEPT !.arrivals = @ \cup {End(way)}]
             end == Outcome(load[r], way)
  <1>0. Calls = Requests /\ Actions = Requests /\ load \in Loads
    BY ObservatoryAssumption DEF ServeInv
  <1>1. OnItsWay(load[r], u, stage[r]) /\ u.freezer = t.freezer /\ u.tries = t.tries /\ u.asks = t.asks
    BY ArrivesAgain
  <1>2. \/ Blocked(r, t, way)
        \/ "code" \in DOMAIN end /\ Return(r, u, end) /\ UNCHANGED <<irisVars, pilarVars>>
        \/ Misfit(r, u, end) \/ Camera(r, u) \/ Mount(r, u) \/ Device(r, u)
    BY DEF Go
  <1>3. u.freezer # Nil => u.tries < MaxRefreshes
    BY <1>1
  <1>4. UNCHANGED <<irisVars, pilarVars>> =>
            /\ OthersStay(r) /\ place'[r] \in Ended \cup {"new"} /\ ~Live(r)' /\ stage' = stage
    BY DEF irisVars, pilarVars, OthersStay, Live
  <1> HIDE DEF u, end
  <1>5. CASE Blocked(r, t, way)
    <2>1. PICK code \in {"1004", "1005"} : Return(r, t, Answer(code, "NORMAL"))
      BY <1>5 DEF Blocked
    <2>2. code \in Codes \ {"ok", "3002"} /\ "NORMAL" \in Severities /\ "NORMAL" # "CRITICAL"
      BY DEF Codes, Severities
    <2>3. /\ Answer(code, "NORMAL") \in Failures
          /\ Surfaced(Answer(code, "NORMAL")).severity # "CRITICAL"
      BY <2>2, PlainAnswers
    <2> QED  BY <1>4, <1>5, <2>1, <2>3, ReturnKeeps DEF Blocked
  <1>6. CASE "code" \in DOMAIN end /\ Return(r, u, end) /\ UNCHANGED <<irisVars, pilarVars>>
    <2>1. end = u.asks /\ end = AsksOf(load[r])
      BY <1>1 DEF end, OnItsWay
    <2>2. end = Ok \/ (end \in Failures /\ ~Served(u.asks))
      BY <1>0, <1>6, <2>1, AskKinds
    <2>3. Surfaced(end).severity = "CRITICAL" => Permanent(u, stage'[r])
      BY <2>2, OkAnswer DEF Permanent
    <2> QED  BY <1>1, <1>3, <1>4, <1>6, <2>2, <2>3, ReturnKeeps
  <1>7. CASE Camera(r, u)
    <2> DEFINE v == [u EXCEPT !.where = "camera"]
    <2>1. Become(r, v) /\ BeginCall(r) /\ UNCHANGED pilarVars
      BY <1>7 DEF Camera
    <2>2. \A q \in Requests \ {r} : place'[q] = place[q]
      BY <1>0, <2>1, CallMoves
    <2>3. stage' = stage
      BY <2>1 DEF pilarVars
    <2>10. "camera" \in Waiting \cup {"cancelled"} /\ "camera" # "condition"
      BY DEF Waiting, AtDevice
    <2>4. TaskOK(load[r], v, stage[r]) /\ v.where = "camera"
      BY <1>3, <2>10, <1>1, WaitKeeps
    <2> HIDE DEF v
    <2> QED  BY <2>1, <2>2, <2>3, <2>4, OneMoves DEF OthersStay, Live
  <1>8. CASE Mount(r, u)
    <2>1. BeginAction(r) /\ UNCHANGED irisVars
      BY <1>8 DEF Mount
    <2>2. stage[r] = "none"
      BY <2>1 DEF BeginAction
    <2>3. /\ \A q \in Requests \ {r} : stage'[q] = stage[q]
          /\ stage'[r] \in {"lock", "setting", "reading", "sleeping", "ok", "2002", "3002", "4005"}
      BY <1>0, <2>1, ActionMoves
    <2>4. OthersStay(r) /\ place' = place
      BY <2>1, <2>3 DEF irisVars, OthersStay
    <2>5. OnItsWay(load[r], u, stage'[r])
      BY <1>1, <2>2, StageGrows
    <2>6. CASE stage'[r] \in Over
      <3>1. stage'[r] \in {"ok", "2002", "3002", "4005"}
        BY <2>3, <2>6 DEF Over
      <3>2. Return(r, u, MountAnswer(stage'[r]))
        BY <1>8, <2>6 DEF Mount
      <3>3. /\ MountAnswer(stage'[r]) \in Failures \cup {Ok}
            /\ Surfaced(MountAnswer(stage'[r])).severity = "CRITICAL" => Permanent(u, stage'[r])
        BY <3>1, MountAnswers DEF Permanent
      <3> QED  BY <1>3, <2>4, <2>5, <2>6, <3>2, <3>3, ReturnKeeps DEF Live
    <2>7. CASE stage'[r] \notin Over
      <3> DEFINE v == [u EXCEPT !.where = "mount"]
      <3>1. Become(r, v)
        BY <1>8, <2>7 DEF Mount
      <3>10. "mount" \in Waiting \cup {"cancelled"} /\ "mount" # "condition"
        BY DEF Waiting, AtDevice
      <3>2. TaskOK(load[r], v, stage'[r]) /\ v.where = "mount"
        BY <1>3, <3>10, <2>5, WaitKeeps
      <3> HIDE DEF v
      <3> QED  BY <2>4, <3>1, <3>2, OneMoves
    <2> QED  BY <2>6, <2>7
  <1>9. CASE Device(r, u)
    <2> DEFINE v == [u EXCEPT !.where = "device"]
    <2>1. Become(r, v) /\ UNCHANGED <<irisVars, pilarVars>>
      BY <1>9 DEF Device
    <2>10. "device" \in Waiting \cup {"cancelled"} /\ "device" # "condition"
      BY DEF Waiting, AtDevice
    <2>2. TaskOK(load[r], v, stage[r]) /\ v.where = "device"
      BY <1>3, <2>10, <1>1, WaitKeeps
    <2> HIDE DEF v
    <2> QED  BY <1>4, <2>1, <2>2, OneMoves
  <1>10. CASE Misfit(r, u, end)
    <2>1. "2002" \in Codes \ {"ok", "3002"} /\ "NORMAL" \in Severities /\ "NORMAL" # "CRITICAL"
      BY DEF Codes, Severities
    <2>2. /\ Answer("2002", "NORMAL") \in Failures
          /\ Surfaced(Answer("2002", "NORMAL")).severity # "CRITICAL"
      BY <2>1, PlainAnswers
    <2> QED  BY <1>1, <1>3, <1>4, <1>10, <2>2, ReturnKeeps DEF Misfit
  <1> QED  BY <1>2, <1>5, <1>6, <1>7, <1>8, <1>9, <1>10

\* A request that waits is with a connector only if it waits for that.
LEMMA Elsewhere ==
    ASSUME ServeInv, NEW r \in Requests
    PROVE  /\ task[r].where \notin {"camera"} => place[r] \in Ended \cup {"new"}
           /\ task[r].where \notin {"mount"} => ~Live(r)
           /\ TaskOK(load[r], task[r], stage[r])
           /\ load \in Loads
  BY DEF ServeInv, RequestInv

\* Who is new.
LEMMA WhoIsNew ==
    ASSUME ServeInv, NEW r \in Requests, task[r].where = "new"
    PROVE  task[r] = NewTask
  <1>1. "new" \notin Waiting
    BY DEF Waiting, AtDevice
  <1>2. [NewTask EXCEPT !.where = "cancelled"].where = "cancelled"
    BY Fields
  <1>3. EndWith(NewTask, Answer("4001", "CRITICAL")).where = "answered"
    BY Fields DEF EndWith
  <1> QED  BY <1>1, <1>2, <1>3, Elsewhere DEF TaskOK

\* A request of which nothing is known yet goes down.
LEMMA BeginKeeps ==
    ASSUME IrisInv, MountInv, ServeInv, NEW r \in Requests, Begin(r)
    PROVE  ServeInv'
  <1> DEFINE l == load[r]
             way == FromRoot(l)
             t == [task[r] EXCEPT !.end = End(way), !.asks = Outcome(l, way)]
  <1>1. task[r] = NewTask
    BY WhoIsNew DEF Begin
  <1>2. place[r] \in Ended \cup {"new"} /\ ~Live(r) /\ load \in Loads
    BY <1>1, Fields, Elsewhere
  <1>3. /\ DOMAIN t = DOMAIN NewTask /\ t.end = EndOf(l) /\ t.asks = AsksOf(l) /\ t.arrivals = {}
        /\ t.freezer = Nil /\ t.worst = Nil /\ t.severities = {} /\ t.tries = 0 /\ t.lacking = FALSE
    BY <1>1, Fields DEF EndOf, AsksOf
  <1>4. MaxRefreshes \in Nat \ {0} /\ Nil # "CRITICAL"
    BY ObservatoryAssumption DEF Severities
  <1>5. UNCHANGED <<load, message>>
    BY DEF Begin
  <1>6. \/ Go(r, t, way)
        \/ l.cycle /\ \E s \in On(way, "freezer") : Freeze(r, t, s)
    BY DEF Begin
  <1>7. t.end = End(way) /\ t.asks = Outcome(l, way)
    BY <1>3 DEF EndOf, AsksOf
  <1> HIDE DEF t, way
  <1>8. OnItsWay(l, t, stage[r])
    <2>1. Counts(t)
      BY <1>3, <1>4 DEF Counts
    <2> QED  BY <1>3, <1>4, <2>1 DEF OnItsWay
  <1>9. CASE Go(r, t, way)
    BY <1>2, <1>3, <1>5, <1>7, <1>8, <1>9, GoKeeps
  <1>10. ASSUME NEW s \in On(way, "freezer"), Freeze(r, t, s), l.cycle
         PROVE  ServeInv'
    <2>1. OthersStay(r) /\ place' = place /\ stage' = stage /\ ~Live(r)'
      BY <1>2, <1>10 DEF Freeze, irisVars, pilarVars, OthersStay, Live
    <2>2. CASE l.put \/ Address(r) \in Uncachable
      <3> DEFINE a == Answer("4003", "CRITICAL")
      <3>1. Become(r, EndWith(t, a))
        BY <1>10, <2>2 DEF Freeze
      <3>2. a.code # "2003" /\ (l.put \/ l.address \in Uncachable)
        BY <2>2 DEF Answer, Address
      <3>3. TaskOK(l, EndWith(t, a), stage[r]) /\ EndWith(t, a).where = "answered"
        BY <1>8, <1>10, <3>2, AnswerKeeps
      <3> QED  BY <1>2, <1>5, <2>1, <3>1, <3>3, OneMoves
    <2>3. CASE ~(l.put \/ Address(r) \in Uncachable)
      <3>0. PICK n \in 0 .. MaxRefreshes :
                 \E u \in LoopTop([t EXCEPT !.freezer = s.at, !.index = s.index, !.tries = n]) : Become(r, u)
        BY <1>10, <2>3 DEF Freeze
      <3>1. PICK u \in LoopTop([t EXCEPT !.freezer = s.at, !.index = s.index, !.tries = n]) : Become(r, u)
        BY <3>0
      <3> DEFINE v == [t EXCEPT !.freezer = s.at, !.index = s.index, !.tries = n]
                 back == Way(l.address, l.put, Tree[s.at].sub, s.index)
      <3>2. /\ DOMAIN v = DOMAIN NewTask /\ v.end = t.end /\ v.asks = t.asks /\ v.arrivals = {}
            /\ v.freezer = s.at /\ v.index = s.index /\ v.tries = n
            /\ v.worst = Nil /\ v.severities = {} /\ v.lacking = FALSE
        BY <1>3, Fields
      <3>3. s \in ToSet(way.steps) /\ Tree[s.at].kind = "freezer"
        BY DEF On
      <3>4. s.at \in Components /\ back.end = way.end /\ End(back) = End(way)
        <4>1. /\ Len(l.address) \in Nat /\ Forward(Root, 1) \in Stations(l.address)
              /\ way = Ways(l.address, l.put)[Forward(Root, 1)]
          BY <1>2, ObservatoryAssumption, FromRootWay DEF way
        <4> HIDE DEF l
        <4>2. s \in Stations(l.address) /\ back.end = way.end /\ Last(back.steps) = Last(way.steps)
          BY <3>3, <4>1, FreezerOnWay
        <4> QED  BY <4>2 DEF Stations, End
      <3>5. Outcome(l, back) = Outcome(l, way)
        BY <3>4 DEF Outcome
      <3> HIDE DEF v, back
      <3>6. Frozen(l, v)
        BY <1>7, <3>2, <3>4, <3>5 DEF Frozen, back
      <3>7. OnItsWay(l, v, stage[r]) /\ v.freezer # Nil
        BY <1>3, <1>4, <3>2, <3>4, <3>6, TreeAssumption DEF OnItsWay, Counts
      <3>8. TaskOK(l, u, stage[r]) /\ u.where \in {"answered", "condition"}
        BY <3>1, <3>7, LoopKeeps DEF v
      <3> QED  BY <1>2, <1>5, <2>1, <3>1, <3>8, OneMoves
    <2> QED  BY <2>2, <2>3
  <1> QED  BY <1>6, <1>9, <1>10

\* It goes down again, from the freezer.
LEMMA RefreshKeeps ==
    ASSUME IrisInv, MountInv, ServeInv, NEW r \in Requests, Refresh(r)
    PROVE  ServeInv'
  <1> DEFINE way == Way(Address(r), load[r].put, Tree[task[r].freezer].sub, task[r].index)
  <1>1. task[r].where = "condition" /\ "condition" \in Waiting
    BY DEF Refresh, Waiting
  <1>2. /\ OnItsWay(load[r], task[r], stage[r]) /\ task[r].freezer # Nil
        /\ task[r].tries < MaxRefreshes
    BY <1>1, Elsewhere, WhoWaits
  <1>3. End(way) = task[r].end /\ Outcome(load[r], way) = task[r].asks
    BY <1>2 DEF OnItsWay, Frozen, Address
  <1>4. Go(r, task[r], way) /\ UNCHANGED <<load, message>>
    BY DEF Refresh, SendCopy
  <1>5. place[r] \in Ended \cup {"new"} /\ ~Live(r)
    BY <1>1, Elsewhere
  <1> HIDE DEF way
  <1> QED  BY <1>2, <1>3, <1>4, <1>5, GoKeeps

\* It is answered where it is.
LEMMA AnswerAtOnce ==
    ASSUME ServeInv, NEW r \in Requests, BeginDamaged(r) \/ Notified(r)
    PROVE  ServeInv'
  <1>1. /\ OthersStay(r) /\ place' = place /\ stage' = stage /\ UNCHANGED <<load, message>>
        /\ task[r].where \notin {"camera", "mount"}
    BY DEF BeginDamaged, Notified, irisVars, pilarVars, OthersStay
  <1>2. place'[r] \in Ended \cup {"new"} /\ ~Live(r)'
    BY <1>1, Elsewhere DEF Live
  <1>3. CASE BeginDamaged(r)
    <2> DEFINE u == EndWith(task[r], Answer("4001", "CRITICAL"))
    <2>1. task[r].where = "new" /\ load[r].damaged /\ Become(r, u)
      BY <1>3 DEF BeginDamaged
    <2>2. task[r] = NewTask
      BY <2>1, WhoIsNew
    <2>3. TaskOK(load[r], u, stage[r])
      BY <2>1, <2>2 DEF TaskOK
    <2> HIDE DEF u
    <2> QED  BY <1>1, <1>2, <2>1, <2>3, OneMoves
  <1>4. CASE Notified(r)
    <2>1. task[r].where \in Waiting /\ Become(r, EndWith(task[r], Ok))
      BY <1>4 DEF Notified, Waiting
    <2>2. OnItsWay(load[r], task[r], stage[r])
      BY <2>1, Elsewhere, WhoWaits
    <2>3. TaskOK(load[r], EndWith(task[r], Ok), stage[r])
      BY <2>2, OkAnswer, AnswerKeeps
    <2> QED  BY <1>1, <1>2, <2>1, <2>3, OneMoves
  <1> QED  BY <1>3, <1>4

\* A step at the camera.
LEMMA CameraKeeps ==
    ASSUME IrisInv, ServeInv, NEW r \in Requests, CameraStep(r)
    PROVE  ServeInv'
  <1>0. Calls = Requests
    BY ObservatoryAssumption
  <1>1. /\ place[r] \notin Ended \cup {"new"} /\ place'[r] # "cancelled"
        /\ \A q \in Requests \ {r} : place'[q] = place[q]
    BY <1>0, CallMoves DEF CameraStep
  <1>2. /\ UNCHANGED <<load, message>> /\ stage' = stage /\ OthersStay(r)
    BY <1>1 DEF CameraStep, pilarVars, OthersStay
  <1>3. task[r].where = "camera" /\ "camera" \in Waiting /\ ~Live(r)'
    BY <1>1, <1>2, Elsewhere DEF Waiting, AtDevice, Live
  <1>4. /\ OnItsWay(load[r], task[r], stage[r])
        /\ task[r].freezer # Nil => task[r].tries < MaxRefreshes
    BY <1>3, Elsewhere, WhoWaits
  <1>5. CASE place'[r] \in Ended
    <2>1. Return(r, task[r], CameraAnswer(place'[r]))
      BY <1>5 DEF CameraStep
    <2>2. /\ CameraAnswer(place'[r]) \in Failures \cup {Ok}
          /\ Surfaced(CameraAnswer(place'[r])).severity # "CRITICAL"
      BY <1>1, <1>5, CameraAnswers
    <2> QED  BY <1>2, <1>3, <1>4, <1>5, <2>1, <2>2, ReturnKeeps
  <1>6. CASE place'[r] \notin Ended
    <2>1. task' = task
      BY <1>6 DEF CameraStep
    <2> QED  BY <1>2, <1>3, <2>1 DEF ServeInv, RequestInv, OthersStay, Live
  <1> QED  BY <1>5, <1>6

\* A step at the mount.
LEMMA MountKeeps ==
    ASSUME MountInv, ServeInv, NEW r \in Requests, MountStep(r)
    PROVE  ServeInv'
  <1>0. Actions = Requests
    BY ObservatoryAssumption
  <1>1. /\ Live(r)
        /\ stage'[r] \in {"lock", "setting", "reading", "sleeping", "ok", "2002", "3002", "4005"}
        /\ \A q \in Requests \ {r} : stage'[q] = stage[q]
    BY <1>0, ActionMoves DEF MountStep
  <1>2. UNCHANGED <<load, message>> /\ place' = place /\ OthersStay(r)
    BY <1>1 DEF MountStep, irisVars, OthersStay
  <1>3. task[r].where = "mount" /\ "mount" \in Waiting /\ place'[r] \in Ended \cup {"new"}
    BY <1>1, <1>2, Elsewhere DEF Waiting, AtDevice
  <1>4. stage[r] # "3002"
    BY <1>1 DEF Live, Over
  <1>5. /\ OnItsWay(load[r], task[r], stage'[r]) /\ TaskOK(load[r], task[r], stage'[r])
        /\ task[r].freezer # Nil => task[r].tries < MaxRefreshes
    <2>1. /\ OnItsWay(load[r], task[r], stage[r])
          /\ task[r].freezer # Nil => task[r].tries < MaxRefreshes
      BY <1>3, Elsewhere, WhoWaits
    <2> QED  BY <1>4, <2>1, Elsewhere, StageGrows
  <1>6. CASE stage'[r] \in Over
    <2>1. Return(r, task[r], MountAnswer(stage'[r]))
      BY <1>6 DEF MountStep
    <2>2. stage'[r] \in {"ok", "2002", "3002", "4005"}
      BY <1>1, <1>6 DEF Over
    <2>3. /\ MountAnswer(stage'[r]) \in Failures \cup {Ok}
          /\ Surfaced(MountAnswer(stage'[r])).severity = "CRITICAL" => Permanent(task[r], stage'[r])
      BY <2>2, MountAnswers DEF Permanent
    <2> QED  BY <1>2, <1>3, <1>5, <1>6, <2>1, <2>3, ReturnKeeps DEF Live
  <1>7. CASE stage'[r] \notin Over
    <2>1. task' = task
      BY <1>7 DEF MountStep
    <2> QED  BY <1>2, <1>3, <1>5, <2>1 DEF ServeInv, RequestInv, OthersStay, Live
  <1> QED  BY <1>6, <1>7

\* An exchange with a driver.
LEMMA DeviceKeeps ==
    ASSUME ServeInv, NEW r \in Requests, DeviceDone(r)
    PROVE  ServeInv'
  <1>1. /\ OthersStay(r) /\ place' = place /\ stage' = stage /\ UNCHANGED <<load, message>>
        /\ task[r].where = "device" /\ "device" \in Waiting
    BY DEF DeviceDone, irisVars, pilarVars, OthersStay, Waiting, AtDevice
  <1>2. place'[r] \in Ended \cup {"new"} /\ ~Live(r)'
    BY <1>1, Elsewhere DEF Live
  <1>3. /\ OnItsWay(load[r], task[r], stage[r])
        /\ task[r].freezer # Nil => task[r].tries < MaxRefreshes
    BY <1>1, Elsewhere, WhoWaits
  <1>4. ASSUME NEW x \in Exchanges,
               Return(r, [task[r] EXCEPT !.lacking = @ \/ x = "no ErrorNumber"], AlpacaAnswer(x))
        PROVE  ServeInv'
    <2> DEFINE t == task[r]
               u == [t EXCEPT !.lacking = @ \/ x = "no ErrorNumber"]
    <2>1. /\ DOMAIN u = DOMAIN t /\ u.lacking = (t.lacking \/ x = "no ErrorNumber")
          /\ u.end = t.end /\ u.asks = t.asks /\ u.severities = t.severities /\ u.arrivals = t.arrivals
          /\ u.tries = t.tries /\ u.worst = t.worst
          /\ u.freezer = t.freezer /\ u.index = t.index
      BY <1>3, Fields DEF OnItsWay
    <2>2. Return(r, u, AlpacaAnswer(x))
      BY <1>4
    <2> HIDE DEF u, t
    <2>3. OnItsWay(load[r], t, stage[r]) /\ (t.freezer # Nil => t.tries < MaxRefreshes)
      BY <1>3 DEF t
    <2>4. Permanent(t, stage[r]) \/ x = "no ErrorNumber" => Permanent(u, stage[r])
      BY <2>1 DEF Permanent
    <2>5. u.lacking \in BOOLEAN
      BY <2>1
    <2>6. OnItsWay(load[r], u, stage[r])
      BY <2>1, <2>3, <2>4, <2>5 DEF OnItsWay, Frozen, Counts
    <2>7. /\ AlpacaAnswer(x) \in Failures \cup {Ok}
          /\ Surfaced(AlpacaAnswer(x)).severity = "CRITICAL" => Permanent(u, stage[r])
      BY <2>4, DriverAnswers
    <2>8. u.freezer # Nil => u.tries < MaxRefreshes
      BY <2>1, <2>3
    <2> QED  BY <1>1, <1>2, <2>2, <2>6, <2>7, <2>8, ReturnKeeps
  <1>5. ASSUME NEW a \in {Ok, Answer("2002", "NORMAL"), Answer("4005", "NORMAL")}, Return(r, task[r], a)
        PROVE  ServeInv'
    <2>1. {"2002", "4005"} \subseteq Codes \ {"ok", "3002"} /\ "NORMAL" \in Severities /\ "NORMAL" # "CRITICAL"
      BY DEF Codes, Severities
    <2>2. a \in Failures \cup {Ok} /\ Surfaced(a).severity # "CRITICAL"
      BY <1>5, <2>1, OkAnswer, PlainAnswers
    <2> QED  BY <1>1, <1>2, <1>3, <1>5, <2>2, ReturnKeeps
  <1> QED  BY <1>4, <1>5 DEF DeviceDone

\* A task's connector is told.
LEMMA WithdrawMoves ==
    ASSUME IrisInv, MountInv, ServeInv, NEW r \in Requests, Withdraw(r)
    PROVE  /\ OthersStay(r)
           /\ place'[r] \in Ended \cup {"new"} /\ ~Live(r)'
           /\ task[r].where \in Waiting
           /\ stage[r] = "3002" => stage'[r] = "3002"
  <1>0. Calls = Requests /\ Actions = Requests
    BY ObservatoryAssumption
  <1>1. CASE task[r].where = "camera" /\ CancelCall(r) /\ UNCHANGED pilarVars
    <2>1. place'[r] = "cancelled" /\ \A q \in Requests \ {r} : place'[q] = place[q]
      BY <1>0, <1>1, CallMoves
    <2>2. stage' = stage /\ ~Live(r)
      BY <1>1, Elsewhere DEF pilarVars
    <2> QED  BY <1>1, <2>1, <2>2 DEF OthersStay, Live, Ended, Waiting, AtDevice
  <1>2. CASE task[r].where = "mount" /\ CancelAction(r) /\ UNCHANGED irisVars
    <2>1. stage'[r] = "given up" /\ \A q \in Requests \ {r} : stage'[q] = stage[q]
      BY <1>0, <1>2, ActionMoves
    <2>2. place' = place /\ place[r] \in Ended \cup {"new"} /\ Live(r)
      BY <1>2, Elsewhere DEF irisVars, CancelAction
    <2> QED  BY <1>2, <2>1, <2>2 DEF OthersStay, Live, Over, Waiting, AtDevice
  <1>3. CASE task[r].where \in {"device", "condition"} /\ UNCHANGED <<irisVars, pilarVars>>
    <2>1. place' = place /\ stage' = stage /\ place[r] \in Ended \cup {"new"} /\ ~Live(r)
      BY <1>3, Elsewhere DEF irisVars, pilarVars
    <2> QED  BY <1>3, <2>1 DEF OthersStay, Live, Waiting, AtDevice
  <1> QED  BY <1>1, <1>2, <1>3 DEF Withdraw

\* Its time is over: the adapter's, the freezer's or the router's.
LEMMA TimeKeeps ==
    ASSUME IrisInv, MountInv, ServeInv, NEW r \in Requests, AdapterTimeOut(r) \/ Expire(r) \/ Cancel(r)
    PROVE  ServeInv'
  <1>1. UNCHANGED <<load, message>>
    BY DEF AdapterTimeOut, Expire, Cancel
  <1>2. ASSUME Withdraw(r)
        PROVE  /\ OthersStay(r) /\ place'[r] \in Ended \cup {"new"} /\ ~Live(r)'
               /\ OnItsWay(load[r], task[r], stage'[r])
               /\ task[r].freezer # Nil => task[r].tries < MaxRefreshes
    <2>1. /\ OthersStay(r) /\ place'[r] \in Ended \cup {"new"} /\ ~Live(r)'
          /\ task[r].where \in Waiting /\ (stage[r] = "3002" => stage'[r] = "3002")
      BY <1>2, WithdrawMoves
    <2>2. /\ OnItsWay(load[r], task[r], stage[r])
          /\ task[r].freezer # Nil => task[r].tries < MaxRefreshes
      BY <2>1, Elsewhere, WhoWaits
    <2> QED  BY <2>1, <2>2, StageGrows
  <1>3. CASE AdapterTimeOut(r)
    <2>1. Withdraw(r) /\ Return(r, task[r], Answer("2002", "NORMAL"))
      BY <1>3 DEF AdapterTimeOut, Return
    <2>2. "2002" \in Codes \ {"ok", "3002"} /\ "NORMAL" \in Severities /\ "NORMAL" # "CRITICAL"
      BY DEF Codes, Severities
    <2>3. /\ Answer("2002", "NORMAL") \in Failures
          /\ Surfaced(Answer("2002", "NORMAL")).severity # "CRITICAL"
      BY <2>2, PlainAnswers
    <2> QED  BY <1>1, <1>2, <2>1, <2>3, ReturnKeeps
  <1>4. CASE Expire(r)
    <2> DEFINE a == Answer("4004", "TEMPORARY")
    <2>1. Withdraw(r) /\ Become(r, EndWith(task[r], a))
      BY <1>4 DEF Expire
    <2>2. a.code # "2003" /\ a.severity # "CRITICAL"
      BY DEF Answer
    <2>3. TaskOK(load[r], EndWith(task[r], a), stage'[r]) /\ EndWith(task[r], a).where = "answered"
      BY <1>2, <2>1, <2>2, AnswerKeeps
    <2> QED  BY <1>1, <1>2, <2>1, <2>3, OneMoves
  <1>5. CASE Cancel(r)
    <2> DEFINE u == [task[r] EXCEPT !.where = "cancelled"]
    <2>1. Become(r, u)
      BY <1>5 DEF Cancel
    <2>2. CASE Withdraw(r)
      <3>1. TaskOK(load[r], u, stage'[r]) /\ u.where = "cancelled"
        BY <1>2, <2>2, WaitKeeps
      <3> HIDE DEF u
      <3> QED  BY <1>1, <1>2, <2>1, <2>2, <3>1, OneMoves
    <2>3. CASE task[r].where = "new" /\ UNCHANGED <<irisVars, pilarVars>>
      <3>1. place' = place /\ stage' = stage /\ OthersStay(r)
        BY <2>3 DEF irisVars, pilarVars, OthersStay
      <3>2. place'[r] \in Ended \cup {"new"} /\ ~Live(r)'
        BY <2>3, <3>1, Elsewhere DEF Live
      <3>3. task[r] = NewTask
        BY <2>3, WhoIsNew
      <3>4. TaskOK(load[r], u, stage'[r]) /\ u.where = "cancelled"
        BY <3>3, Fields DEF TaskOK
      <3> HIDE DEF u
      <3> QED  BY <1>1, <2>1, <3>1, <3>2, <3>4, OneMoves
    <2> QED  BY <1>5, <2>2, <2>3 DEF Cancel
  <1> QED  BY <1>3, <1>4, <1>5

\* Every step of the server keeps ServeInv.
LEMMA ServeStep == IrisInv /\ MountInv /\ ServeInv /\ [ObservatoryNext]_observatoryVars => ServeInv'
  <1> SUFFICES ASSUME IrisInv, MountInv, ServeInv, [ObservatoryNext]_observatoryVars
               PROVE  ServeInv'
    OBVIOUS
  <1>1. ASSUME NEW r \in Requests, TaskStep(r)
        PROVE  ServeInv'
    BY <1>1, BeginKeeps, AnswerAtOnce, CameraKeeps, MountKeeps, DeviceKeeps, TimeKeeps DEF TaskStep
  <1>2. ASSUME NEW r \in Requests, Refresh(r) \/ Notified(r) \/ AdapterTimeOut(r) \/ Expire(r)
        PROVE  ServeInv'
    BY <1>2, RefreshKeeps, AnswerAtOnce, TimeKeeps
  <1>3. CASE World /\ UNCHANGED <<load, message, task>>
    <2>1. place' = place /\ stage' = stage
      BY <1>3 DEF World, Receive, SocketError, Turn, irisVars, pilarVars
    <2> QED  BY <1>3, <2>1 DEF ServeInv, RequestInv, Live
  <1>4. ASSUME NEW m \in Messages, GiveUp(m) \/ Reply(m)
        PROVE  ServeInv'
    <2>1. /\ place' = place /\ stage' = stage /\ UNCHANGED <<load, task>>
          /\ message' \in [Messages -> {"open", "cancelled", "replied"}]
      BY <1>4 DEF ServeInv, GiveUp, Reply, irisVars, pilarVars
    <2> QED  BY <2>1 DEF ServeInv, RequestInv, Live
  <1>5. CASE UNCHANGED observatoryVars
    BY <1>5 DEF observatoryVars, irisVars, pilarVars, ServeInv, RequestInv, Live
  <1> QED  BY <1>1, <1>2, <1>3, <1>4, <1>5 DEF ObservatoryNext

\* So it always holds, with the invariants of the connectors.
LEMMA ServeAlways == ObservatorySpec => [](IrisInv /\ LineInv /\ MountInv /\ ServeInv)
  <1>1. ObservatoryInit => ServeInv
    <2> SUFFICES ASSUME ObservatoryInit
                 PROVE  ServeInv
      OBVIOUS
    <2>1. Calls = Requests /\ Actions = Requests
      BY ObservatoryAssumption
    <2>2. ASSUME NEW r \in Requests
          PROVE  RequestInv(r)
      <3>1. task[r] = NewTask /\ place[r] = "new" /\ stage[r] = "none"
        BY <2>1 DEF ObservatoryInit, IrisInit, PilarInit
      <3> QED  BY <3>1 DEF RequestInv, TaskOK, Live
    <2> QED  BY <2>2 DEF ObservatoryInit, ServeInv
  <1>2. ObservatorySpec => [](IrisInv /\ LineInv)
    BY CameraIsUsedAlike, LineAlways, PTL
  <1>3. ObservatorySpec => []MountInv
    BY MountIsUsedAlike, MountAlways, PTL
  <1> QED  BY <1>1, <1>2, <1>3, ServeStep, PTL DEF ObservatorySpec

\* What the record of a request says when it was answered.
LEMMA WhoAnswers ==
    ASSUME NEW l, NEW t, NEW s, TaskOK(l, t, s), t.where = "answered"
    PROVE  \/ l.damaged /\ t.answer = Answer("4001", "CRITICAL")
           \/ OnItsWay(l, t, s) /\ MaySay(l, t, s)
  <1>1. "answered" \notin Waiting
    BY DEF Waiting, AtDevice
  <1>2. /\ NewTask.where = "new" /\ [NewTask EXCEPT !.where = "cancelled"].where = "cancelled"
        /\ EndWith(NewTask, Answer("4001", "CRITICAL")).answer = Answer("4001", "CRITICAL")
    BY Fields DEF EndWith
  <1> QED  BY <1>1, <1>2 DEF TaskOK

\* Every variable of the server has its type: no request waits where there is nothing to
\* wait for, the freezer never counts more failures than max_unsuccessful_refreshes
\* (tree_conditional_freezer.py), and a request arrives at components of the tree only.
THEOREM ServerWideTypes == ObservatorySpec => []ObservatoryTypeOK
  <1>1. IrisInv /\ LineInv /\ MountInv /\ ServeInv => ObservatoryTypeOK
    <2> SUFFICES ASSUME IrisInv, LineInv, MountInv, ServeInv
                 PROVE  ObservatoryTypeOK
      OBVIOUS
    <2>1. IrisTypeOK
      BY DEF IrisInv, IrisTypes, LineInv, IrisTypeOK, Endpoints, Records, Places, Underway
    <2>2. ASSUME NEW r \in Requests
          PROVE  /\ task[r].where \in {"new", "answered", "cancelled"} \cup Waiting
                 /\ task[r].freezer \in Components \cup {Nil}
                 /\ task[r].tries \in 0 .. MaxRefreshes
                 /\ task[r].worst \in Severities \cup {Nil}
                 /\ task[r].severities \subseteq Severities
                 /\ task[r].arrivals \subseteq [at : Components, index : Nat]
      <3> DEFINE t == task[r]
      <3>1. TaskOK(load[r], t, stage[r]) /\ load \in Loads
        BY Elsewhere
      <3> HIDE DEF t
      <3>2. CASE OnItsWay(load[r], t, stage[r])
        <4>1. t.end \in [at : Components, index : Nat]
          <5>1. t.end \in Stations(load[r].address) /\ Len(load[r].address) \in Nat
            BY <3>1, <3>2, FromRootWay, ObservatoryAssumption DEF OnItsWay
          <5> QED  BY <5>1 DEF Stations
        <4>2. t.where \in {"new", "answered", "cancelled"} \cup Waiting
          BY <3>1, Untried DEF TaskOK
        <4> QED  BY <3>2, <4>1, <4>2 DEF OnItsWay, Frozen, Counts, t
      <3>3. CASE t \in {NewTask, [NewTask EXCEPT !.where = "cancelled"],
                         EndWith(NewTask, Answer("4001", "CRITICAL"))}
        <4>1. /\ t.where \in {"new", "answered", "cancelled"}
              /\ t.freezer = Nil /\ t.tries = 0 /\ t.worst = Nil /\ t.severities = {} /\ t.arrivals = {}
          BY <3>3, Untried
        <4>2. 0 \in 0 .. MaxRefreshes
          BY ObservatoryAssumption
        <4> QED  BY <4>1, <4>2 DEF t
      <3> QED  BY <3>1, <3>2, <3>3 DEF TaskOK
    <2> QED  BY <2>1, <2>2 DEF ServeInv, MountInv, ObservatoryTypeOK
  <1> QED  BY <1>1, ServeAlways, PTL

\* However often the freezer sends a request again, it arrives where it arrived first,
\* with the same part of the address: copies go down (tree_conditional_freezer.py 255),
\* and the tree below the freezer sends them on as it did the first one.
THEOREM RefreshesArrive == ObservatorySpec => []RefreshesArriveAlike
  <1>1. ServeInv => RefreshesArriveAlike
    <2> SUFFICES ASSUME ServeInv, NEW r \in Requests
                 PROVE  task[r].arrivals \subseteq {task[r].end}
      BY DEF RefreshesArriveAlike
    <2>1. TaskOK(load[r], task[r], stage[r])
      BY Elsewhere
    <2> QED  BY <2>1, Untried DEF TaskOK, OnItsWay
  <1> QED  BY <1>1, ServeAlways, PTL

\* An answer is CRITICAL, "never ask again", only if asking again is of no use: through
\* the adapter, the freezer's counting of severities and both connectors.
THEOREM CriticalIsPermanent == ObservatorySpec => []PermanentMeansPermanent
  <1>1. ServeInv => PermanentMeansPermanent
    <2> SUFFICES ASSUME ServeInv, NEW r \in Requests, task[r].where = "answered",
                        task[r].answer.severity = "CRITICAL"
                 PROVE  \/ load[r].damaged
                        \/ ~Served(task[r].asks)
                        \/ load[r].cycle /\ (load[r].put \/ Address(r) \in Uncachable)
                        \/ stage[r] = "3002"
                        \/ task[r].lacking
      BY DEF PermanentMeansPermanent, Answers
    <2>1. TaskOK(load[r], task[r], stage[r])
      BY Elsewhere
    <2> QED  BY <2>1, WhoAnswers DEF MaySay, Permanent, Address
  <1> QED  BY <1>1, ServeAlways, PTL

\* The freezer's error is as severe as the worst failure since the last value, in
\* whatever order they came (compare_severity).
THEOREM FreezerSaysTheWorst == ObservatorySpec => []SeverityIsWorst
  <1>1. ServeInv => SeverityIsWorst
    <2> SUFFICES ASSUME ServeInv, NEW r \in Requests, task[r].where = "answered",
                        task[r].answer.code = "2003"
                 PROVE  Rank(task[r].answer.severity)
                          = Max({Rank(s) : s \in IF task[r].severities = {} THEN {"NORMAL"}
                                                                           ELSE task[r].severities})
      BY DEF SeverityIsWorst, Answers
    <2> DEFINE t == task[r]
               given == IF t.severities = {} THEN {"NORMAL"} ELSE t.severities
               ranks == {Rank(s) : s \in given}
    <2>1. OnItsWay(load[r], t, stage[r]) /\ MaySay(load[r], t, stage[r])
      <3>1. TaskOK(load[r], t, stage[r])
        BY Elsewhere
      <3>2. Answer("4001", "CRITICAL").code # "2003"
        BY DEF Answer
      <3> QED  BY <3>1, <3>2, WhoAnswers
    <2> HIDE DEF t
    <2>2. t.answer.severity = IF t.worst = Nil THEN "NORMAL" ELSE t.worst
      BY <2>1 DEF MaySay, t
    <2>3. /\ t.severities \subseteq Severities
          /\ \/ t.worst = Nil /\ t.severities = {}
             \/ t.worst \in t.severities /\ \A s \in t.severities : Rank(s) <= Rank(t.worst)
      BY <2>1 DEF OnItsWay, Counts
    <2>4. t.answer.severity \in given /\ \A s \in given : Rank(s) <= Rank(t.answer.severity)
      <3>1. CASE t.worst = Nil
        <4>1. t.severities = {}
          BY <2>3, <3>1, Ranks
        <4>2. "NORMAL" \in Severities
          BY DEF Severities
        <4> QED  BY <2>2, <3>1, <4>1, <4>2, Ranks
      <3>2. CASE t.worst # Nil
        BY <2>2, <2>3, <3>2
      <3> QED  BY <3>1, <3>2
    <2>5. given \subseteq Severities
      BY <2>3 DEF Severities
    <2> HIDE DEF given
    <2>6. Rank(t.answer.severity) \in ranks /\ \A n \in ranks : n \in Nat /\ n <= Rank(t.answer.severity)
      BY <2>4, <2>5, Ranks
    <2> HIDE DEF ranks
    <2>7. Max(ranks) = Rank(t.answer.severity)
      BY <2>6 DEF Max
    <2> QED  BY <2>7 DEF t, given, ranks
  <1> QED  BY <1>1, ServeAlways, PTL

\* A request that has ended, answered or cancelled by whichever time-out, holds no lock
\* of the camera or the mount, waits for none and leaves no action at work
\* (wait_for_psce cancels the connector's task and waits for it).
THEOREM NothingIsLeftBehind == ObservatorySpec => []NothingHeldAfterEnd
  <1>1. IrisInv /\ LineInv /\ MountInv /\ ServeInv => NothingHeldAfterEnd
    <2> SUFFICES ASSUME IrisInv, LineInv, MountInv, ServeInv, NEW r \in Requests,
                        task[r].where \in {"answered", "cancelled"}
                 PROVE  holder # r /\ r \notin ToSet(queue) /\ mover # r /\ ~Live(r)
      BY DEF NothingHeldAfterEnd, Done
    <2>1. Calls = Requests /\ Actions = Requests
      BY ObservatoryAssumption
    <2>2. place[r] \in Ended \cup {"new"} /\ ~Live(r)
      BY Elsewhere
    <2>3. holder # r /\ r \notin ToSet(queue)
      BY <2>1, <2>2, IrisAssumption DEF LineInv, InLine, AtLock, Ended
    <2>4. mover # r
      BY <2>1, <2>2, PilarActionAssumption DEF MountInv, Live, Over
    <2> QED  BY <2>2, <2>3, <2>4
  <1> QED  BY <1>1, ServeAlways, PTL

\* And a slew that reports success to a client, undisturbed and begun at rest, has the
\* mount where it was sent.
THEOREM SlewsArriveForClients == ObservatorySpec => VerifiedMeansThere
  BY MountIsUsedAlike, SlewsArrive, PTL
===============================================================================
