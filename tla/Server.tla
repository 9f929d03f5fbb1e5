---------------------------------- MODULE Server ----------------------------------
(***************************************************************************)
(* The server program (main.py) around the router and the tree: it starts  *)
(* the tree (run_tree), serves until it is interrupted or the router's     *)
(* main task fails (main_coroutine), stops the router and the tree at the  *)
(* same time and looks whether anything is left in the loop.  Or a program *)
(* of another kind, as the tests are, starts and stops the router itself.  *)
(*                                                                         *)
(* An action is what runs between two points where the program may wait.   *)
(* SIGINT raises KeyboardInterrupt between two callbacks of the loop, which *)
(* keeps the tasks it has and may be run again.                            *)
(***************************************************************************)
EXTENDS Router, Tree

CONSTANTS Tickers,      \* components with an OcaboxTask
          Diagnostics   \* what runtime_diagnostics.enabled may be

\* The components that make a periodic task, in the order run and stop come to
\* them.
TickOrder == SelectSeq(RunOrder, LAMBDA c : c \in Tickers)

\* The walk over the tree ends.
ASSUME ServerAssumption ==
    /\ Tickers \subseteq Components /\ Diagnostics \subseteq BOOLEAN
    /\ TickOrder \in Seq(Tickers)

VARIABLES program,     \* what main waits for
          exit,        \* how it ended
          coroutine,   \* the task of main_coroutine
          nats,        \* whether the messenger is connected
          published,   \* what it was told of the tree
          ticking,     \* the periodic tasks, in the order they were made
          event,       \* stop_running_event of each component that has one
          stopping,    \* stop_tree: the component it waits for; 0 before it begins
          diagnosing   \* the task of schedule_runtime_diagnostics

treeVars   == <<nats, published, ticking, event, stopping>>
serverVars == <<program, exit, coroutine, treeVars, diagnosing>>
vars       == <<routerVars, serverVars>>

ServerInit ==
    /\ Init
    /\ program \in (IF PushWired THEN {"opening"} ELSE {"closed"}) \cup {"library"}
    /\ exit = IF program = "closed" THEN "AssertionError" ELSE "none"
    /\ coroutine = "unborn"
    /\ nats = "closed" /\ published = {}
    /\ ticking = [k \in DOMAIN TickOrder |-> "absent"]
    /\ event = [c \in Tickers |-> "clear"]
    /\ stopping = 0
    /\ diagnosing \in Diagnostics

InMain == program \notin {"library", "closed"}
-------------------------------------------------------------------------------
(* run_tree.                                                               *)

\* The messenger is connected; no component's run waits for anything.
RunTree ==
    /\ program = "opening"
    /\ program' = "publishing"
    /\ nats' = "open"
    /\ ticking' = [k \in DOMAIN TickOrder |-> "running"]
    /\ UNCHANGED <<routerVars, exit, coroutine, published, event, stopping, diagnosing>>

\* The publisher's own errors do not count.
Publish ==
    /\ program = "publishing"
    /\ program' = "serving"
    /\ published' \in {Published, {}}
    /\ UNCHANGED <<routerVars, exit, coroutine, nats, ticking, event, stopping, diagnosing>>

\* Of the tasks of a component only the last is on record.
Recorded(k) == \A j \in k + 1 .. Len(TickOrder) : TickOrder[j] # TickOrder[k]

\* on_time_tick raised an error: the event is set.
TickFails(k) ==
    /\ ticking[k] = "running"
    /\ event' = [event EXCEPT ![TickOrder[k]] = "set"]
    /\ UNCHANGED <<routerVars, program, exit, coroutine, nats, published, ticking, stopping, diagnosing>>

\* A task looks for the event before every tick.
TickEnds(k) ==
    /\ ticking[k] = "running"
    /\ event[TickOrder[k]] = "set"
    /\ ticking' = [ticking EXCEPT ![k] = "over"]
    /\ UNCHANGED <<routerVars, program, exit, coroutine, nats, published, event, stopping, diagnosing>>
-------------------------------------------------------------------------------
(* main_coroutine.                                                         *)

Serve ==
    /\ program = "serving" /\ coroutine = "unborn"
    /\ Start
    /\ coroutine' = "serving"
    /\ UNCHANGED <<program, exit, treeVars, diagnosing>>

CallStop == IF IsStopped \/ stopTask # None THEN UNCHANGED routerVars ELSE Stop

\* How main_coroutine ends when nothing is left to wait for: with the error of
\* the main task, if it had one.
Verdict == IF main = "failed" THEN "failed" ELSE "returned"

\* The main task is over.
MainIsOver ==
    /\ coroutine = "serving" /\ ~Alive(main)
    /\ CallStop
    /\ coroutine' = IF IsStopped THEN Verdict ELSE "stopping"
    /\ UNCHANGED <<program, exit, treeVars, diagnosing>>

\* wait_for_stop: the error of the stop task is raised.
CoroutineEnds ==
    /\ coroutine = "stopping" /\ stopTask \in {None, "failed"}
    /\ coroutine' = Verdict
    /\ UNCHANGED <<routerVars, program, exit, treeVars, diagnosing>>
-------------------------------------------------------------------------------
(* The end of main.                                                        *)

Close(how) == program' = "closed" /\ exit' = how

\* stop_tree, on to component k: its event is set, its task is waited for.
StopComponent(k) ==
    /\ stopping' = k
    /\ event' = IF k <= Len(TickOrder) THEN [event EXCEPT ![TickOrder[k]] = "set"] ELSE event

\* A mutation for the runs: the tree is stopped without the router.
CleanUpTree ==
    /\ program' = "ending"
    /\ StopComponent(1)
    /\ UNCHANGED <<routerVars, exit, coroutine, nats, published, ticking, diagnosing>>

\* The outer finally.  Without a stop task gather is given None and raises a
\* TypeError; stop_tree is never awaited.
CleanUp ==
    /\ CallStop
    /\ IF stopTask' = None
       THEN Close("TypeError") /\ UNCHANGED <<event, stopping>>
       ELSE program' = "ending" /\ StopComponent(1) /\ UNCHANGED exit
    /\ UNCHANGED <<coroutine, nats, published, ticking, diagnosing>>

\* SIGINT in run_tree or main_coroutine.
Interrupt == program \in {"opening", "publishing", "serving"} /\ CleanUp

\* No connection to NATS within its time, or an error of another kind.
RunTreeFails == program \in {"opening", "publishing"} /\ CleanUp

\* main_coroutine ended by itself.
ServingEnds == program = "serving" /\ coroutine \in {"returned", "failed"} /\ CleanUp

TickerStopped ==
    /\ stopping \in DOMAIN TickOrder
    /\ \E k \in stopping .. Len(TickOrder) :
          TickOrder[k] = TickOrder[stopping] /\ Recorded(k) /\ ticking[k] = "over"
    /\ StopComponent(stopping + 1)
    /\ UNCHANGED <<routerVars, program, exit, coroutine, nats, published, ticking, diagnosing>>

\* The inner finally of stop_tree.
CloseNats ==
    /\ stopping = Len(TickOrder) + 1
    /\ nats' = "closed"
    /\ stopping' = stopping + 1
    /\ UNCHANGED <<routerVars, program, exit, coroutine, published, ticking, event, diagnosing>>

\* all_tasks.
Left == \/ Alive(main) \/ Alive(echo) \/ Live # {}
        \/ coroutine \in {"serving", "stopping"}
        \/ \E k \in DOMAIN ticking : ticking[k] = "running"
        \/ diagnosing

\* A mutation for the runs: main does not wait for stop_tree.
GatheredStop == stopTask \in {None, "failed"} /\ coroutine \notin {"serving", "stopping"}

\* gather is done.  A coroutine that waits for the stop task is woken before
\* run_until_complete hears of that.
Gathered == /\ stopTask \in {None, "failed"} /\ stopping = Len(TickOrder) + 2
            /\ coroutine \notin {"serving", "stopping"}

Finish ==
    /\ program = "ending" /\ Gathered
    /\ Close(CASE Left                                -> "RuntimeError"
               [] ~Left /\ coroutine = "failed"       -> "error of main"
               [] OTHER                               -> "0")
    /\ UNCHANGED <<routerVars, coroutine, treeVars, diagnosing>>

\* SIGINT once more: the loop is closed with all that is in it.
InterruptAgain ==
    /\ program = "ending"
    /\ Close("KeyboardInterrupt")
    /\ UNCHANGED <<routerVars, coroutine, treeVars, diagnosing>>
-------------------------------------------------------------------------------
LoopStep == /\ \/ StopStep
               \/ \E r \in Requests : RequestStep(r)
            /\ program # "closed" /\ UNCHANGED serverVars

Error == /\ MainFails
         /\ program # "closed" /\ UNCHANGED serverVars

Library == program = "library" /\ (Start \/ Stop) /\ UNCHANGED serverVars

\* What goes on by itself in main.
MainStep == \/ Serve \/ MainIsOver \/ CoroutineEnds \/ ServingEnds
            \/ TickerStopped \/ CloseNats \/ Finish
            \/ \E k \in DOMAIN ticking : TickEnds(k)

ServerNext == \/ LoopStep \/ Error \/ Library
              \/ RunTree \/ Publish \/ RunTreeFails \/ Interrupt \/ InterruptAgain
              \/ InMain /\ (MainStep \/ \E k \in DOMAIN ticking : TickFails(k))

ServerSpec == ServerInit /\ [][ServerNext]_vars

\* The event loop runs what is ready, requests have a time-out and cancelled
\* solvers end.
Runs(step) == program # "closed" /\ step /\ UNCHANGED serverVars

ServerFairness ==
    /\ WF_vars(Runs(StopStep))
    /\ \A r \in Requests : /\ WF_vars(Runs(Refuse(r) \/ BeginSolving(r)))
                          /\ WF_vars(Runs(TimeOut(r)))
                          /\ WF_vars(Runs(EndExpired(r) \/ EndUnborn(r)))
    /\ WF_vars(InMain /\ MainStep)

FairServer == ServerSpec /\ ServerFairness
-------------------------------------------------------------------------------
ServerTypeOK ==
    /\ TypeOK
    /\ program \in {"library", "opening", "publishing", "serving", "ending", "closed"}
    /\ exit \in {"none", "0", "AssertionError", "TypeError", "RuntimeError", "KeyboardInterrupt", "error of main"}
    /\ coroutine \in {"unborn", "serving", "stopping", "returned", "failed"}
    /\ nats \in {"open", "closed"}
    /\ published \subseteq Published
    /\ ticking \in [DOMAIN TickOrder -> {"absent", "running", "over"}]
    /\ event \in [Tickers -> {"clear", "set"}]
    /\ stopping \in 0 .. Len(TickOrder) + 2
    /\ diagnosing \in BOOLEAN

(* Requests are answered with the tree running: from the moment main        *)
(* begins to stop the tree no answer leaves the router.                    *)
AnswersWhileTreeRuns ==
    [][sent' # sent /\ InMain => nats = "open" /\ stopping = 0]_vars

(* A client that reads the published configuration finds each service it    *)
(* lists at <target>.<service>, and at <target> the observatory; and there *)
(* is nothing else to find there.                                          *)
Names == {Tree[c].name : c \in Named}
EndOf(adr) == Last(Way(adr, FALSE, Root, 1).steps).at
Reachable ==
    {x \in Names \X Names : Tree[EndOf(x)].kind = "handler" /\ Tree[EndOf(x)].name = x[2]}
    \cup {<<t, Nil>> : t \in {n \in Names : Tree[EndOf(<<n, Nil>>)].kind = "adapter"}}

PublishedIsReachable == [][published' # published => published' = Reachable]_vars

(* When main has stopped the router and the tree, and was not interrupted   *)
(* once more, the messenger is closed, no periodic task on record and no   *)
(* part of the router's serving is left.  What main may find left are the  *)
(* diagnostics, a periodic task not on record, a cancelled request, and    *)
(* the cancelled echo if the main task failed.                             *)
EndIsOrderly ==
    exit \in {"0", "error of main", "RuntimeError"} =>
        /\ nats = "closed"
        /\ \A k \in DOMAIN ticking : Recorded(k) => ticking[k] = "over"
        /\ ~Alive(main)
        /\ Alive(echo) => main = "failed"
        /\ \A r \in Live : task[r] \in {"cancelled", "unborn"}

\* Once main stops the router and the tree, the program ends, whatever the
\* requests under way and the periodic tasks do; and it does not outlive the
\* router's main task.
ProgramEnds ==
    /\ program = "ending" ~> program = "closed"
    /\ InMain /\ main = "failed" ~> program = "closed"

\* A request ends even if its solver never answers, unless the program ends
\* before.
TasksEnd == \A r \in Requests : Alive(task[r]) ~> task[r] = "over" \/ program = "closed"

(* "we stick to the main task closing mechanism, so this shouldn't happen"  *)
(* (main.py:133): when main looks, no task is left in the loop.            *)
AllTasksFinished == exit # "RuntimeError"
===============================================================================
