-------------------------------- MODULE ServerProofs --------------------------------
(***************************************************************************)
(* For any requests, any tree and however often the router is started: the *)
(* router's list of tasks is exact while it serves, and the program ends   *)
(* in order.                                                               *)
(*                                                                         *)
(* The router keeps RouterInv.  The server program starts and stops it     *)
(* only as the router itself allows (ServerRunsRouter), so it has what the *)
(* router has, and the rest is an invariant of the program's own           *)
(* (ServerInv) on top of it.                                               *)
(***************************************************************************)
EXTENDS Server, Facts

\* Requests whose task nobody has cancelled.
Working == {r \in Requests : task[r] \in {"created", "solving", "expiring"}}

\* A stop task on record that has not died works.
Stopping == stopTask \in {"main", "echo", "messages"}

(* The list has exactly the tasks that work, unless a stop task works on   *)
(* it; then none does and no more come.  A router that was started again   *)
(* has nothing left of its earlier life.                                   *)
Listed   == /\ stopTask = None => ToSet(messageTasks) = Working
            /\ \A r \in ToSet(messageTasks) : task[r] # "absent"
Halted   == Stopping => main # "running" /\ Working = {}
NothingOld == main = "running" => \A r \in Requests : task[r] \notin {"unborn", "cancelled"}

RouterInv == TypeOK /\ Listed /\ Halted /\ NothingOld

(* Of the program, which starts the router once: before main_coroutine     *)
(* nothing of the router is there, the stop task leaves no main task, and  *)
(* the tree is stopped only after the router was told to.                  *)
NotBegun == coroutine = "unborn" => main = "absent" /\ echo = "absent" /\ stopTask = None /\ Live = {}

Stages ==
    /\ stopTask # None => main # "running" /\ Working = {}
    /\ stopTask \in {"echo", "messages"} => main = "absent"
    /\ stopTask = "messages" => echo = "absent"
    /\ stopTask = "failed" => main = "failed"

Serving ==
    /\ program \in {"opening", "publishing", "serving"} => stopping = 0 /\ exit = "none"
    /\ program \in {"opening", "publishing"} => coroutine = "unborn"
    /\ program \in {"publishing", "serving"} => nats = "open"

Ending ==
    program = "ending" =>
        /\ exit = "none"
        /\ main # "running" /\ Working = {}
        /\ stopTask = None => main = "absent" /\ echo = "absent"
        /\ stopping = Len(TickOrder) + 2 => nats = "closed"
        /\ \A k \in DOMAIN TickOrder : \A j \in DOMAIN TickOrder :
              Recorded(k) /\ j < stopping /\ TickOrder[j] = TickOrder[k] => ticking[k] = "over"

ServerInv == /\ ServerTypeOK
             /\ program = "library" => exit = "none"
             /\ InMain => NotBegun /\ Stages /\ Serving /\ Ending
             /\ EndIsOrderly
-------------------------------------------------------------------------------
(* The router.                                                             *)

\* It holds at first.
LEMMA RouterInit == ASSUME Init PROVE RouterInv
  <1>1. TypeOK
    BY RouterAssumption DEF Init, TypeOK, LoopStates, RequestStates, IsInjective
  <1>2. ToSet(messageTasks) = {} /\ Working = {}
    BY DEF Init, ToSet, Working
  <1> QED  BY <1>1, <1>2, RouterAssumption DEF Init, RouterInv, Listed, Halted, Stopping, NothingOld

\* A task ends and takes itself off the list.
LEMMA EndKeeps ==
    ASSUME RouterInv, NEW r \in Requests, task[r] \in {"created", "solving", "expiring", "cancelled"},
           End(r), sent' \subseteq Requests
    PROVE  RouterInv'
  <1>1. /\ messageTasks' \in Seq(Requests)
        /\ IsInjective(messageTasks')
        /\ ToSet(messageTasks') = ToSet(messageTasks) \ {r}
    BY RemoveFromList DEF RouterInv, TypeOK, End, RemoveTask
  <1>2. TypeOK'
    BY <1>1 DEF RouterInv, TypeOK, End, RequestStates
  <1>3. Working' = Working \ {r}
    BY DEF RouterInv, TypeOK, End, Working
  <1>4. Listed' /\ Halted' /\ NothingOld'
    BY <1>1, <1>3 DEF RouterInv, TypeOK, End, Listed, Halted, Stopping, NothingOld
  <1> QED  BY <1>2, <1>4 DEF RouterInv

\* A message becomes a task, which is not listed yet.
LEMMA ReceiveKeeps ==
    ASSUME RouterInv, NEW r \in Requests, Receive(r)
    PROVE  RouterInv'
  <1>1. r \notin ToSet(messageTasks)
    BY DEF RouterInv, Listed, Receive
  <1>2. /\ messageTasks' \in Seq(Requests)
        /\ IsInjective(messageTasks')
        /\ ToSet(messageTasks') = ToSet(messageTasks) \cup {r}
    BY <1>1, AppendToList DEF RouterInv, TypeOK, Receive
  <1>3. TypeOK'
    BY <1>2 DEF RouterInv, TypeOK, Receive, RequestStates
  <1>4. Working' = Working \cup {r}
    BY DEF RouterInv, TypeOK, Receive, Working
  <1>5. ToSet(messageTasks) \subseteq Requests
    BY DEF RouterInv, TypeOK, ToSet
  <1>6. Listed' /\ Halted' /\ NothingOld'
    BY <1>2, <1>4, <1>5, RouterAssumption
    DEF RouterInv, TypeOK, Receive, Listed, Halted, Stopping, NothingOld
  <1> QED  BY <1>3, <1>6 DEF RouterInv

\* The other steps of a request leave the list alone.
LEMMA RequestKeeps ==
    ASSUME RouterInv, NEW r \in Requests, RequestStep(r)
    PROVE  RouterInv'
  <1>1. CASE Receive(r)
    BY <1>1, ReceiveKeeps
  <1>2. CASE Refuse(r) \/ Reply(r) \/ FailToSolve(r) \/ EndExpired(r)
    <2>1. sent' \subseteq Requests
      BY <1>2 DEF Refuse, Reply, FailToSolve, EndExpired, RouterInv, TypeOK
    <2>2. End(r) /\ task[r] \in {"created", "solving", "expiring", "cancelled"}
      BY <1>2 DEF Refuse, Reply, FailToSolve, EndExpired
    <2> QED  BY <2>1, <2>2, EndKeeps
  <1>3. CASE BeginSolving(r) \/ TimeOut(r)
    <2>1. TypeOK'
      BY <1>3 DEF BeginSolving, TimeOut, RouterInv, TypeOK, RequestStates
    <2>2. Working' = Working
      BY <1>3 DEF BeginSolving, TimeOut, RouterInv, TypeOK, Working
    <2>3. /\ UNCHANGED <<main, messageTasks, stopTask>>
          /\ \A q \in Requests : task'[q] \in {task[q], "solving", "expiring"}
      BY <1>3 DEF BeginSolving, TimeOut, RouterInv, TypeOK
    <2>4. ToSet(messageTasks) \subseteq Requests
      BY DEF RouterInv, TypeOK, ToSet
    <2> QED
      BY <2>1, <2>2, <2>3, <2>4 DEF RouterInv, Listed, Halted, Stopping, NothingOld
  <1>4. CASE EndUnborn(r)
    <2>1. TypeOK'
      BY <1>4 DEF EndUnborn, RouterInv, TypeOK, RequestStates
    <2>2. Working' = Working
      BY <1>4 DEF EndUnborn, RouterInv, TypeOK, Working
    <2> QED
      BY <1>4, <2>1, <2>2
      DEF EndUnborn, RouterInv, TypeOK, Listed, Halted, Stopping, NothingOld
  <1> QED  BY <1>1, <1>2, <1>3, <1>4 DEF RequestStep

\* start keeps it.
LEMMA StartKeeps == ASSUME RouterInv, Start PROVE RouterInv'
  <1>1. TypeOK'
    BY RouterAssumption DEF Start, RouterInv, TypeOK, LoopStates
  <1>2. Working' = Working /\ ~Stopping'
    BY RouterAssumption DEF Start, IsStopped, Stopping, Working
  <1>3. NothingOld'
    BY DEF Start, NothingOld, Alive
  <1> QED  BY <1>1, <1>2, <1>3 DEF Start, RouterInv, Listed, Halted

\* So does stop, up to its first pause,
LEMMA StopKeeps == ASSUME RouterInv, Stop PROVE RouterInv'
  <1>1. TypeOK'
    BY RouterAssumption DEF Stop, CancelRequests, Cancelled, RouterInv, TypeOK, LoopStates, RequestStates
  <1>2. Working' = {} /\ main' # "running"
    BY DEF Stop, CancelRequests, Cancelled, Working
  <1>3. \A r \in Requests : task[r] # "absent" => task'[r] # "absent"
    BY DEF Stop, CancelRequests, Cancelled
  <1>4. ToSet(messageTasks) \subseteq Requests
    BY DEF RouterInv, TypeOK, ToSet
  <1> QED
    BY <1>1, <1>2, <1>3, <1>4, RouterAssumption
    DEF Stop, RouterInv, Listed, Halted, Stopping, NothingOld

\* The stop task waits, at last for the tasks that are listed behind its position.
LEMMA AwaitKeeps == ASSUME RouterInv, AwaitMessage PROVE RouterInv'
  <1> DEFINE i == Min(AliveAhead)
  <1>1. i \in AliveAhead
    BY LeastNatural, AliveAhead \in SUBSET Nat DEF AwaitMessage, AliveAhead, RouterInv, TypeOK
  <1>2. i \in DOMAIN messageTasks
    BY <1>1 DEF AliveAhead
  <1>3. awaited' \in Requests /\ position' \in Nat \ {0}
    BY <1>2 DEF AwaitMessage, RouterInv, TypeOK
  <1>4. TypeOK'
    BY <1>3 DEF AwaitMessage, Resumes, RouterInv, TypeOK
  <1> QED
    BY <1>4 DEF AwaitMessage, RouterInv, Listed, Halted, Stopping, NothingOld, Working

\* and every pause after that.
LEMMA StopStepKeeps == ASSUME RouterInv, StopStep PROVE RouterInv'
  <1>1. CASE EndMain \/ EndEcho \/ AwaitMain \/ AwaitEcho
    <2>1. TypeOK'
      BY <1>1, RouterAssumption DEF EndMain, EndEcho, AwaitMain, AwaitEcho, RouterInv, TypeOK, LoopStates
    <2>2. Working' = Working /\ main' \in {main, "over", "absent"} /\ UNCHANGED <<task, messageTasks>>
      BY <1>1 DEF EndMain, EndEcho, AwaitMain, AwaitEcho, Working
    <2>3. (Stopping' => Stopping) /\ (stopTask' = None => stopTask = None)
      BY <1>1, RouterAssumption DEF EndMain, EndEcho, AwaitMain, AwaitEcho, Stopping
    <2> QED  BY <2>1, <2>2, <2>3 DEF RouterInv, Listed, Halted, NothingOld
  <1>2. CASE AwaitMessage
    BY <1>2, AwaitKeeps
  <1>3. CASE EndStop
    <2>1. messageTasks' \in Seq(Requests) /\ IsInjective(messageTasks') /\ ToSet(messageTasks') = {}
      BY <1>3 DEF EndStop, IsInjective, ToSet
    <2>2. TypeOK'
      BY <1>3, <2>1 DEF EndStop, RouterInv, TypeOK
    <2>3. Working' = {} /\ ~Stopping' /\ NothingOld'
      BY <1>3, RouterAssumption DEF EndStop, Resumes, RouterInv, Halted, Stopping, Working, NothingOld
    <2> QED  BY <2>1, <2>2, <2>3 DEF RouterInv, Listed, Halted
  <1> QED  BY <1>1, <1>2, <1>3 DEF StopStep

\* Every step of the router keeps it.
LEMMA RouterStep == ASSUME RouterInv, [Next]_routerVars PROVE RouterInv'
  <1>1. CASE MainFails
    BY <1>1, RouterAssumption
    DEF MainFails, RouterInv, TypeOK, LoopStates, Listed, Halted, Stopping, NothingOld, Working
  <1>2. CASE UNCHANGED routerVars
    BY <1>2 DEF routerVars, RouterInv, TypeOK, Listed, Halted, Stopping, NothingOld, Working
  <1> QED
    BY <1>1, <1>2, StartKeeps, StopKeeps, StopStepKeeps, RequestKeeps DEF Next

\* So it always holds.
LEMMA RouterInvariant == Spec => []RouterInv
  BY RouterInit, RouterStep, PTL DEF Spec


\* The types, that a request is listed once at most, and when one is awaited.
THEOREM RouterTypes == Spec => []TypeOK
  BY RouterInvariant, PTL DEF RouterInv

\* It says that the tasks are tracked.
LEMMA InvTracks == ASSUME RouterInv PROVE Tracked
  BY DEF RouterInv, TypeOK, RequestStates, Listed, NothingOld, Tracked, Working, Live, Alive

\* While the router serves, its list holds exactly the tasks that are alive.
THEOREM TasksAreTracked == Spec => []Tracked
  BY RouterInvariant, InvTracks, PTL

\* An answer is sent by a task that was at work.
LEMMA OnlyRepliesAnswer ==
    ASSUME RouterInv, [Next]_routerVars, sent' # sent
    PROVE  Working # {}
  <1>1. PICK r \in Requests : Reply(r)
    BY DEF Next, routerVars, Start, Stop, MainFails, StopStep, EndMain, EndEcho, AwaitMain, AwaitEcho,
           AwaitMessage, EndStop, RequestStep, Receive, Refuse, BeginSolving, FailToSolve, TimeOut,
           EndExpired, EndUnborn
  <1> QED  BY <1>1 DEF Reply, Working

\* No client gets an answer once stop has cancelled the tasks.
THEOREM StopIsQuiet == Spec => QuietWhileStopping
  <1>1. RouterInv /\ [Next]_routerVars => (sent' # sent => stopTask \in {None, "failed"})
    BY OnlyRepliesAnswer DEF RouterInv, TypeOK, Halted, Stopping
  <1> QED  BY <1>1, RouterInvariant, PTL DEF Spec, QuietWhileStopping
-------------------------------------------------------------------------------
(* The program around it.                                                  *)

\* Every step of the program is one of the router or leaves it alone.
LEMMA ServerIsRouter == [ServerNext]_vars => [Next]_routerVars
  BY DEF ServerNext, vars, Next, LoopStep, Error, Library, RunTree, Publish, RunTreeFails, Interrupt,
         InterruptAgain, MainStep, TickFails, TickEnds, Serve, MainIsOver, CallStop, CoroutineEnds,
         ServingEnds, CleanUp, TickerStopped, CloseNats, Finish

\* The program does to the router what the router allows.
THEOREM ServerRunsRouter == ServerSpec => Spec
  <1>1. ServerInit => Init
    BY DEF ServerInit
  <1> QED  BY <1>1, ServerIsRouter, PTL DEF ServerSpec, Spec

\* The order in which the components tick.
LEMMA Places == TickOrder \in Seq(Tickers) /\ Len(TickOrder) \in Nat /\ DOMAIN TickOrder = 1 .. Len(TickOrder)
  BY ServerAssumption

\* The types of what is the program's own.
ProgramTypes ==
    /\ program \in {"library", "opening", "publishing", "serving", "ending", "closed"}
    /\ exit \in {"none", "0", "AssertionError", "TypeError", "RuntimeError", "KeyboardInterrupt", "error of main"}
    /\ coroutine \in {"unborn", "serving", "stopping", "returned", "failed"}
    /\ nats \in {"open", "closed"}
    /\ published \subseteq Published
    /\ ticking \in [DOMAIN TickOrder -> {"absent", "running", "over"}]
    /\ event \in [Tickers -> {"clear", "set"}]
    /\ stopping \in 0 .. Len(TickOrder) + 2
    /\ diagnosing \in BOOLEAN

\* The program's invariant holds at first.
LEMMA ServerBegins == ASSUME ServerInit PROVE ServerInv
  <1>1. TypeOK
    BY RouterInit DEF ServerInit, RouterInv
  <1>2. ProgramTypes
    BY Places, ServerAssumption DEF ServerInit, ProgramTypes
  <1>3. InMain => program = "opening"
    BY DEF ServerInit, InMain
  <1>4. NotBegun /\ Stages
    BY RouterAssumption DEF ServerInit, Init, NotBegun, Stages, Live, Alive
  <1>5. EndIsOrderly
    BY DEF ServerInit, EndIsOrderly
  <1> QED
    BY <1>1, <1>2, <1>3, <1>4, <1>5
    DEF ServerInv, ServerTypeOK, ProgramTypes, Serving, Ending, ServerInit

\* Whatever goes on in the router while main has it.
LEMMA RouterMoves ==
    ASSUME RouterInv, InMain, NotBegun, Stages, Serving, Ending,
           StopStep \/ MainFails \/ (\E r \in Requests : RequestStep(r)), UNCHANGED serverVars
    PROVE  NotBegun' /\ Stages' /\ Serving' /\ Ending'
  <1> USE RouterAssumption
  <1>1. CASE \E r \in Requests : RequestStep(r)
    <2> PICK r \in Requests : RequestStep(r)
      BY <1>1
    <2>1. UNCHANGED <<main, echo, stopTask>>
      BY DEF RequestStep, Receive, Refuse, BeginSolving, Reply, FailToSolve, TimeOut, EndExpired, EndUnborn, End
    <2>2. /\ main # "running" => Working' \subseteq Working
          /\ main # "running" => Live' \subseteq Live
      BY DEF RequestStep, Receive, Refuse, BeginSolving, Reply, FailToSolve, TimeOut, EndExpired, EndUnborn,
             End, Working, Live, Alive, RouterInv, TypeOK
    <2> QED
      BY <2>1, <2>2 DEF serverVars, treeVars, NotBegun, Stages, Serving, Ending, Recorded
  <1>2. CASE StopStep \/ MainFails
    <2>1. UNCHANGED task
      BY <1>2 DEF StopStep, EndMain, EndEcho, AwaitMain, AwaitEcho, AwaitMessage, EndStop, MainFails
    <2>2. Working' = Working /\ Live' = Live
      BY <2>1 DEF Working, Live
    <2>3. main' = "running" => main = "running"
      BY <1>2 DEF StopStep, EndMain, EndEcho, AwaitMain, AwaitEcho, AwaitMessage, EndStop, MainFails
    <2>4. NotBegun' /\ Stages'
      BY <1>2, <2>2, <2>3
      DEF StopStep, EndMain, EndEcho, AwaitMain, AwaitEcho, AwaitMessage, EndStop, MainFails,
          Resumes, NotBegun, Stages, serverVars
    <2>5. Ending'
      BY <1>2, <2>2, <2>3
      DEF StopStep, EndMain, EndEcho, AwaitMain, AwaitEcho, AwaitMessage, EndStop, MainFails,
          Resumes, Stages, Ending, Recorded, serverVars, treeVars
    <2> QED  BY <2>4, <2>5 DEF serverVars, treeVars, Serving
  <1> QED  BY <1>1, <1>2

\* Stop leaves nothing that works.
LEMMA StopHalts ==
    ASSUME RouterInv, Stages, CallStop
    PROVE  Stages' /\ (stopTask' # None \/ UNCHANGED routerVars)
  <1>1. CASE UNCHANGED routerVars
    BY <1>1 DEF routerVars, Stages, Working
  <1>2. CASE Stop
    <2>1. Working' = {} /\ main' # "running" /\ stopTask' = "main"
      BY <1>2 DEF Stop, CancelRequests, Cancelled, Working
    <2> QED  BY <2>1, RouterAssumption DEF Stages
  <1> QED  BY <1>1, <1>2 DEF CallStop
\* A step after which main still works.
LEMMA MainGoesOn ==
    ASSUME ServerInv, RouterInv', InMain, ProgramTypes', exit' = exit, program' # "closed", program' # "library",
           NotBegun', Stages', Serving', Ending'
    PROVE  ServerInv'
  <1>1. exit = "none"
    BY DEF ServerInv, InMain, Serving, Ending, ServerTypeOK
  <1>2. TypeOK'
    BY DEF RouterInv
  <1> QED  BY <1>1, <1>2 DEF ServerInv, ServerTypeOK, ProgramTypes, EndIsOrderly

\* A step that ends it early.
LEMMA MainBreaksOff ==
    ASSUME RouterInv', ProgramTypes', program' = "closed", exit' \in {"TypeError", "KeyboardInterrupt"}
    PROVE  ServerInv'
  BY DEF RouterInv, ServerInv, ServerTypeOK, ProgramTypes, EndIsOrderly, InMain

\* The steps of the start keep it,
LEMMA OpeningKeeps ==
    ASSUME ServerInv, RouterInv', RunTree \/ Publish
    PROVE  ServerInv'
  <1>1. InMain /\ program' \notin {"closed", "library", "ending"}
    BY DEF RunTree, Publish, InMain
  <1>2. NotBegun /\ Stages /\ Serving /\ ProgramTypes
    BY <1>1 DEF ServerInv, ServerTypeOK, ProgramTypes
  <1>3. ProgramTypes'
    BY <1>2 DEF RunTree, Publish, ProgramTypes
  <1>4. NotBegun' /\ Stages'
    BY <1>2 DEF RunTree, Publish, routerVars, NotBegun, Stages, Live, Working
  <1>5. Serving' /\ Ending' /\ exit' = exit
    BY <1>1, <1>2 DEF RunTree, Publish, Serving, Ending
  <1> QED  BY <1>1, <1>3, <1>4, <1>5, MainGoesOn

\* and those of the main loop.
LEMMA ServingKeeps ==
    ASSUME RouterInv, ServerInv, RouterInv', InMain, Serve \/ MainIsOver \/ CoroutineEnds
    PROVE  ServerInv'
  <1>1. NotBegun /\ Stages /\ Serving /\ Ending /\ ProgramTypes
    BY DEF ServerInv, ServerTypeOK, ProgramTypes
  <1>2. ProgramTypes' /\ UNCHANGED <<program, exit, treeVars>>
    BY <1>1 DEF Serve, MainIsOver, CoroutineEnds, Verdict, ProgramTypes, treeVars
  <1>3. NotBegun'
    BY DEF Serve, MainIsOver, CoroutineEnds, Verdict, NotBegun
  <1>4. CASE Serve
    <2>1. Stages'
      BY <1>1, <1>4, RouterAssumption DEF Serve, Start, NotBegun, Stages
    <2>2. Ending' /\ Serving'
      BY <1>1, <1>2, <1>4 DEF Serve, Ending, Serving, treeVars
    <2> QED  BY <1>2, <1>3, <2>1, <2>2, MainGoesOn DEF InMain
  <1>5. CASE MainIsOver
    <2>1. Stages' /\ (stopTask' # None \/ UNCHANGED routerVars)
      BY <1>1, <1>5, StopHalts DEF MainIsOver
    <2>2. (Working' = {} /\ main' # "running") \/ UNCHANGED routerVars
      BY <2>1 DEF Stages
    <2>3. Ending' /\ Serving'
      BY <1>1, <1>2, <1>5, <2>1, <2>2
      DEF MainIsOver, Ending, Serving, treeVars, routerVars, Working, Recorded
    <2> QED  BY <1>2, <1>3, <2>1, <2>3, MainGoesOn DEF InMain
  <1>6. CASE CoroutineEnds
    <2>1. Stages' /\ Ending' /\ Serving'
      BY <1>1, <1>2, <1>6
      DEF CoroutineEnds, Stages, Ending, Serving, treeVars, routerVars, Working, Recorded
    <2> QED  BY <1>2, <1>3, <2>1, MainGoesOn DEF InMain
  <1> QED  BY <1>4, <1>5, <1>6

\* The program begins to stop, and the router with it.
LEMMA CleanUpKeeps ==
    ASSUME RouterInv, ServerInv, RouterInv', program \in {"opening", "publishing", "serving"}, CleanUp
    PROVE  ServerInv'
  <1>1. NotBegun /\ Stages /\ Serving /\ ProgramTypes /\ InMain
    BY DEF ServerInv, ServerTypeOK, ProgramTypes, InMain
  <1>2. Stages' /\ (stopTask' # None \/ UNCHANGED routerVars)
    BY <1>1, StopHalts DEF CleanUp
  <1>3. \A c \in Tickers : [event EXCEPT ![c] = "set"] \in [Tickers -> {"clear", "set"}]
    BY <1>1 DEF ProgramTypes
  <1>4. 1 <= Len(TickOrder) => TickOrder[1] \in Tickers
    BY Places
  <1>5. ProgramTypes'
    <2>1. event' \in [Tickers -> {"clear", "set"}]
      BY <1>1, <1>3, <1>4 DEF CleanUp, StopComponent, ProgramTypes
    <2>2. stopping' \in {stopping, 1}
      BY DEF CleanUp, StopComponent
    <2>3. stopping' \in 0 .. Len(TickOrder) + 2
      <3>1. 1 \in 0 .. Len(TickOrder) + 2
        BY Places
      <3> QED  BY <1>1, <2>2, <3>1 DEF ProgramTypes
    <2> QED  BY <1>1, <2>1, <2>3 DEF CleanUp, Close, ProgramTypes
  <1>6. CASE stopTask' = None
    BY <1>5, <1>6, MainBreaksOff DEF CleanUp, Close
  <1>7. CASE stopTask' # None
    <2>1. program' = "ending" /\ stopping' = 1 /\ UNCHANGED <<exit, coroutine, nats, ticking>>
      BY <1>7 DEF CleanUp, StopComponent
    <2>2. NotBegun'
      <3> SUFFICES ASSUME coroutine = "unborn"
                   PROVE  FALSE
        BY <2>1 DEF NotBegun
      <3>1. IsStopped
        <4>1. \A i \in DOMAIN messageTasks : messageTasks[i] \in Requests
          BY DEF RouterInv, TypeOK
        <4> QED  BY <1>1, <4>1 DEF NotBegun, IsStopped, Alive, Live
      <3> QED  BY <1>1, <1>7, <3>1 DEF CleanUp, CallStop, routerVars, NotBegun
    <2>3. Ending'
      <3>1. ~(1 = Len(TickOrder) + 2) /\ \A j \in DOMAIN TickOrder : ~(j < 1)
        BY Places
      <3> QED  BY <1>1, <1>2, <1>7, <2>1, <3>1 DEF Ending, Stages, Serving
    <2>4. Serving'
      BY <2>1 DEF Serving
    <2>5. exit' = exit /\ program' # "closed" /\ program' # "library"
      BY <2>1
    <2> QED  BY <1>1, <1>2, <1>5, <2>2, <2>3, <2>4, <2>5, MainGoesOn
  <1> QED  BY <1>6, <1>7
\* stop_tree goes on, and periodic tasks end.
LEMMA TreeStopKeeps ==
    ASSUME RouterInv, ServerInv, RouterInv', InMain,
           \/ TickerStopped \/ CloseNats
           \/ \E k \in DOMAIN ticking : TickEnds(k) \/ TickFails(k)
    PROVE  ServerInv'
  <1>1. NotBegun /\ Stages /\ Serving /\ Ending /\ ProgramTypes
    BY DEF ServerInv, ServerTypeOK, ProgramTypes
  <1>2. DOMAIN ticking = DOMAIN TickOrder
    BY <1>1 DEF ProgramTypes
  <1>3. UNCHANGED <<routerVars, program, exit, coroutine, published, diagnosing>>
    BY DEF TickerStopped, CloseNats, TickEnds, TickFails
  <1>4. NotBegun' /\ Stages'
    BY <1>1, <1>3 DEF routerVars, NotBegun, Stages, Live, Working
  <1>5. ASSUME Ending', Serving', ProgramTypes'
        PROVE  ServerInv'
    BY <1>3, <1>4, <1>5, MainGoesOn DEF InMain
  <1>6. Working' = Working /\ UNCHANGED <<main, echo, stopTask>>
    BY <1>3 DEF routerVars, Working
  <1>7. CASE \E k \in DOMAIN ticking : TickEnds(k) \/ TickFails(k)
    <2> PICK k \in DOMAIN ticking : TickEnds(k) \/ TickFails(k)
      BY <1>7
    <2>1. /\ ticking' \in [DOMAIN TickOrder -> {"absent", "running", "over"}]
          /\ \A j \in DOMAIN TickOrder : ticking[j] = "over" => ticking'[j] = "over"
          /\ event' \in [Tickers -> {"clear", "set"}]
          /\ UNCHANGED <<nats, stopping>>
      BY <1>1, <1>2, Places DEF TickEnds, TickFails, ProgramTypes
    <2>2. ProgramTypes' /\ Serving'
      BY <1>1, <1>3, <2>1 DEF ProgramTypes, Serving
    <2>3. Ending'
      BY <1>1, <1>3, <1>6, <2>1 DEF Ending, Recorded
    <2> QED  BY <1>5, <2>2, <2>3
  <1>8. CASE TickerStopped
    <2>1. /\ stopping \in DOMAIN TickOrder /\ stopping' = stopping + 1
          /\ UNCHANGED <<nats, ticking>>
      BY <1>8 DEF TickerStopped, StopComponent
    <2>2. program = "ending"
      <3>1. stopping # 0
        BY <2>1, Places
      <3> QED  BY <1>1, <3>1 DEF InMain, ProgramTypes, Serving
    <2>3. event' \in [Tickers -> {"clear", "set"}]
      BY <1>1, <1>8, <2>1, Places DEF TickerStopped, StopComponent, ProgramTypes
    <2>4. ProgramTypes' /\ Serving'
      <3>1. stopping' \in 0 .. Len(TickOrder) + 2
        BY <2>1, Places
      <3> QED  BY <1>1, <1>3, <2>1, <2>2, <2>3, <3>1 DEF ProgramTypes, Serving
    <2>5. PICK m \in stopping .. Len(TickOrder) :
               TickOrder[m] = TickOrder[stopping] /\ Recorded(m) /\ ticking[m] = "over"
      BY <1>8 DEF TickerStopped
    <2>6. ASSUME NEW k \in DOMAIN TickOrder, NEW j \in DOMAIN TickOrder,
                 Recorded(k), j < stopping', TickOrder[j] = TickOrder[k]
          PROVE  ticking[k] = "over"
      <3>1. CASE j < stopping
        BY <1>1, <2>2, <2>6, <3>1 DEF Ending
      <3>2. CASE j = stopping
        <4>1. TickOrder[m] = TickOrder[k] /\ m \in DOMAIN TickOrder
          BY <2>1, <2>5, <2>6, <3>2, Places
        <4>2. m = k
          BY <2>5, <2>6, <4>1, Places DEF Recorded
        <4> QED  BY <2>5, <4>2
      <3> QED  BY <2>1, <2>6, <3>1, <3>2, Places
    <2>7. stopping' # Len(TickOrder) + 2
      BY <2>1, Places
    <2>8. Ending'
      BY <1>1, <1>3, <1>6, <2>1, <2>2, <2>6, <2>7 DEF Ending, Recorded
    <2> QED  BY <1>5, <2>4, <2>8
  <1>9. CASE CloseNats
    <2>1. /\ stopping = Len(TickOrder) + 1 /\ stopping' = stopping + 1
          /\ nats' = "closed" /\ UNCHANGED <<event, ticking>>
      BY <1>9 DEF CloseNats
    <2>2. program = "ending"
      <3>1. stopping # 0
        BY <2>1, Places
      <3> QED  BY <1>1, <3>1 DEF InMain, ProgramTypes, Serving
    <2>3. ProgramTypes' /\ Serving'
      <3>1. stopping' \in 0 .. Len(TickOrder) + 2
        BY <2>1, Places
      <3> QED  BY <1>1, <1>3, <2>1, <2>2, <3>1 DEF ProgramTypes, Serving
    <2>4. \A j \in DOMAIN TickOrder : j < stopping
      BY <2>1, Places
    <2>5. Ending'
      BY <1>1, <1>3, <1>6, <2>1, <2>2, <2>4 DEF Ending, Recorded
    <2> QED  BY <1>5, <2>3, <2>5
  <1> QED  BY <1>7, <1>8, <1>9

\* main is done: the end is in order because all that was to be stopped is.
LEMMA FinishKeeps ==
    ASSUME RouterInv, ServerInv, RouterInv', Finish
    PROVE  ServerInv'
  <1>1. InMain
    BY DEF Finish, InMain
  <1>2. Stages /\ Ending /\ ProgramTypes
    BY <1>1 DEF ServerInv, ServerTypeOK, ProgramTypes
  <1>3. ProgramTypes' /\ ~InMain' /\ program' = "closed" /\ UNCHANGED <<routerVars, treeVars>>
    BY <1>2 DEF Finish, Close, ProgramTypes, InMain, treeVars
  <1>4. nats = "closed" /\ \A k \in DOMAIN ticking : Recorded(k) => ticking[k] = "over"
    <2>1. stopping = Len(TickOrder) + 2 /\ program = "ending"
      BY DEF Finish, Gathered
    <2>2. DOMAIN ticking = DOMAIN TickOrder /\ \A k \in DOMAIN TickOrder : k < stopping
      <3>1. \A k \in 1 .. Len(TickOrder) : k < Len(TickOrder) + 2
        BY Places
      <3>2. DOMAIN ticking = DOMAIN TickOrder
        BY <1>2 DEF ProgramTypes
      <3> QED  BY <2>1, <3>1, <3>2, Places
    <2> QED  BY <1>2, <2>1, <2>2 DEF Ending
  <1>5. ~Alive(main) /\ (Alive(echo) => main = "failed")
    BY <1>2 DEF Finish, Gathered, Stages, Ending, Alive
  <1>6. \A r \in Live : task[r] \in {"cancelled", "unborn"}
    BY <1>2 DEF Finish, Ending, Working, Live, Alive, RouterInv, TypeOK, RequestStates
  <1>7. EndIsOrderly'
    BY <1>3, <1>4, <1>5, <1>6 DEF EndIsOrderly, routerVars, treeVars, Recorded, Live, Alive
  <1> QED  BY <1>3, <1>7 DEF RouterInv, ServerInv, ServerTypeOK, ProgramTypes

\* Every step of the program keeps it.
LEMMA ServerStep ==
    ASSUME RouterInv, ServerInv, RouterInv', [ServerNext]_vars
    PROVE  ServerInv'
  <1>1. CASE program = "closed" \/ UNCHANGED vars
    <2>1. UNCHANGED vars
      BY <1>1
      DEF ServerNext, vars, serverVars, LoopStep, Error, Library, RunTree, Publish, RunTreeFails, Interrupt,
          InterruptAgain, InMain
    <2>2. ServerTypeOK' /\ (program' = "library" => exit' = "none") /\ (InMain' <=> InMain)
      BY <2>1 DEF vars, serverVars, treeVars, ServerInv, ServerTypeOK, RouterInv, InMain
    <2>3. Working' = Working /\ Live' = Live /\ UNCHANGED <<routerVars, serverVars>>
      BY <2>1 DEF vars, routerVars, Working, Live
    <2>4. InMain => NotBegun' /\ Stages' /\ Serving'
      BY <2>3 DEF routerVars, serverVars, treeVars, ServerInv, NotBegun, Stages, Serving
    <2>5. InMain => Ending'
      BY <2>3 DEF routerVars, serverVars, treeVars, ServerInv, Ending, Recorded
    <2>6. EndIsOrderly'
      BY <2>3 DEF routerVars, serverVars, treeVars, ServerInv, EndIsOrderly, Recorded
    <2> QED  BY <2>2, <2>4, <2>5, <2>6 DEF ServerInv
  <1>2. CASE program = "library"
    <2>1. UNCHANGED serverVars \/ UNCHANGED vars
      BY <1>2 DEF ServerNext, LoopStep, Error, Library, RunTree, Publish, RunTreeFails, Interrupt,
                  InterruptAgain, InMain
    <2>2. UNCHANGED serverVars
      BY <2>1 DEF vars
    <2>3. exit = "none"
      BY <1>2 DEF ServerInv
    <2> QED
      BY <1>2, <2>2, <2>3
      DEF serverVars, treeVars, ServerInv, ServerTypeOK, RouterInv, InMain, EndIsOrderly
  <1>3. CASE InMain
    <2>1. CASE LoopStep \/ Error
      <3>1. StopStep \/ MainFails \/ (\E r \in Requests : RequestStep(r))
        BY <2>1 DEF LoopStep, Error
      <3>2. UNCHANGED serverVars
        BY <2>1 DEF LoopStep, Error
      <3>3. NotBegun' /\ Stages' /\ Serving' /\ Ending'
        BY <1>3, <3>1, <3>2, RouterMoves DEF ServerInv
      <3>4. ProgramTypes' /\ exit' = exit /\ program' # "closed" /\ program' # "library"
        BY <1>3, <3>2 DEF serverVars, treeVars, InMain, ServerInv, ServerTypeOK, ProgramTypes
      <3> QED  BY <1>3, <3>3, <3>4, MainGoesOn
    <2>2. CASE RunTree \/ Publish
      BY <2>2, OpeningKeeps
    <2>3. CASE Serve \/ MainIsOver \/ CoroutineEnds
      BY <1>3, <2>3, ServingKeeps
    <2>4. CASE Interrupt \/ RunTreeFails \/ ServingEnds
      BY <2>4, CleanUpKeeps DEF Interrupt, RunTreeFails, ServingEnds
    <2>5. CASE TickerStopped \/ CloseNats \/ \E k \in DOMAIN ticking : TickEnds(k) \/ TickFails(k)
      BY <1>3, <2>5, TreeStopKeeps
    <2>6. CASE Finish
      BY <2>6, FinishKeeps
    <2>7. CASE InterruptAgain
      <3>1. ProgramTypes'
        BY <2>7 DEF InterruptAgain, Close, treeVars, ServerInv, ServerTypeOK, ProgramTypes
      <3> QED  BY <2>7, <3>1, MainBreaksOff DEF InterruptAgain, Close
    <2> QED
      BY <1>1, <1>3, <2>1, <2>2, <2>3, <2>4, <2>5, <2>6, <2>7 DEF ServerNext, MainStep, Library, InMain
  <1> QED  BY <1>1, <1>2, <1>3 DEF ServerInv, ServerTypeOK, InMain

\* So it always holds.
LEMMA ServerInvariant == ServerSpec => []ServerInv
  <1>1. ServerSpec => []RouterInv
    BY ServerRunsRouter, RouterInvariant, PTL
  <1> QED  BY <1>1, ServerBegins, ServerStep, PTL DEF ServerSpec

\* Every variable of the program and of its router has its type: main, the coroutine of
\* the router and the tickers never bring each other into a state that is not named.
THEOREM ServerTypes == ServerSpec => []ServerTypeOK
  BY ServerInvariant, PTL DEF ServerInv

\* The router's list is exact and no answer leaves it while it stops, also when
\* the program starts and stops it.
THEOREM ServerTracks == ServerSpec => []Tracked
  BY ServerRunsRouter, TasksAreTracked, PTL

\* And no answer leaves while the program stops the router (stop, router.py 276).
THEOREM ServerStopsQuietly == ServerSpec => QuietWhileStopping
  BY ServerRunsRouter, StopIsQuiet, PTL

\* An answer leaves the router only while the tree runs.
THEOREM AnswersNeedTree == ServerSpec => AnswersWhileTreeRuns
  <1>1. ASSUME RouterInv, ServerInv, [ServerNext]_vars, sent' # sent, InMain
        PROVE  nats = "open" /\ stopping = 0
    <2>1. Working # {}
      BY <1>1, OnlyRepliesAnswer, ServerIsRouter
    <2>2. coroutine # "unborn"
      BY <1>1, <2>1 DEF ServerInv, NotBegun, Live, Alive, Working
    <2>3. program = "serving"
      BY <1>1, <2>1, <2>2 DEF ServerInv, ServerTypeOK, Serving, Ending, InMain
    <2> QED  BY <1>1, <2>3 DEF ServerInv, Serving
  <1>2. ServerSpec => []RouterInv
    BY ServerRunsRouter, RouterInvariant, PTL
  <1> QED  BY <1>1, <1>2, ServerInvariant, PTL DEF ServerSpec, AnswersWhileTreeRuns

\* When main has stopped the router and the tree, nothing it knows of works on.
THEOREM ServerEndsInOrder == ServerSpec => []EndIsOrderly
  BY ServerInvariant, PTL DEF ServerInv
=====================================================================================
