--------------------------------- MODULE Router ---------------------------------
(***************************************************************************)
(* The life of the router (router.py): a main task that takes requests off *)
(* the socket, an echo task, one task per request, and the stop task that  *)
(* is to wait for all of them.                                             *)
(*                                                                         *)
(* The solver of a request is left open: it answers, fails, or is cut off  *)
(* at the time-out of the request.  What a cancelled solver still does     *)
(* before it is over takes any number of turns of the event loop.          *)
(*                                                                         *)
(* Left out: an error nothing in _send_back catches (of the comparison of  *)
(* the time-out in line 137 or of the send in line 173, should obcom's or  *)
(* zmq's functions raise).  Its task would stay on the list, dead, and end *)
(* the stop task that awaits it.                                           *)
(***************************************************************************)
EXTENDS Naturals, Sequences, SequencesExt

CONSTANTS Requests,       \* messages that arrive on the socket
          None,           \* no stop task, nothing awaited
          EchoEnabled,    \* echo-task-enabled of the configuration
          CanFail,        \* the main task may die of an error of the socket
          MaxStarts       \* bound: how often the router is started

ASSUME RouterAssumption == /\ None \notin {"main", "echo", "messages", "failed"}
                           /\ None \notin Requests
                           /\ EchoEnabled \in BOOLEAN
                           /\ CanFail \in BOOLEAN
                           /\ MaxStarts \in Nat

VARIABLES main,          \* _main_task
          echo,          \* _echo_task
          task,          \* the task of each request
          messageTasks,  \* _message_tasks
          stopTask,      \* _stop_task: the stage it is in
          position,      \* of its iteration over _message_tasks
          awaited,       \* the request it waits for there
          starts,        \* how often start was called
          sent           \* requests answered

routerVars == <<main, echo, task, messageTasks, stopTask, position, awaited, starts, sent>>

Init == /\ main = "absent"
        /\ echo = "absent"
        /\ task = [r \in Requests |-> "absent"]
        /\ messageTasks = <<>>
        /\ stopTask = None
        /\ position = 1
        /\ awaited = None
        /\ starts = 0
        /\ sent = {}

Alive(state) == state \notin {"absent", "over", "failed"}

\* is_stopped: looks at the tasks the router has on record only.
IsStopped ==
    /\ ~Alive(main) /\ ~Alive(echo)
    /\ \A i \in DOMAIN messageTasks : ~Alive(task[messageTasks[i]])
    /\ stopTask \in {None, "failed"}

\* _start_main_task refuses while any task with the router's name is alive.
Start ==
    /\ starts < MaxStarts
    /\ IsStopped
    /\ \A r \in Requests : ~Alive(task[r])
    /\ starts' = starts + 1
    /\ main' = "running"
    /\ echo' = "running"
    /\ UNCHANGED <<task, messageTasks, stopTask, position, awaited, sent>>
-------------------------------------------------------------------------------
(* Requests.                                                               *)

\* _main: a message becomes a task.
Receive(r) ==
    /\ main = "running"
    /\ task[r] = "absent"
    /\ task' = [task EXCEPT ![r] = "created"]
    /\ messageTasks' = Append(messageTasks, r)
    /\ UNCHANGED <<main, echo, stopTask, position, awaited, starts, sent>>

\* A mutation for the runs: the task stays on record.
RemoveNothing(r) == messageTasks

\* remove_task_inner: the ValueError of a task no longer listed is caught.
RemoveTask(r) == RemoveFirst(messageTasks, r)

\* The task ends by one of the paths that take it off the list.
End(r) == /\ task' = [task EXCEPT ![r] = "over"]
          /\ messageTasks' = RemoveTask(r)
          /\ UNCHANGED <<main, echo, stopTask, position, awaited, starts>>

\* A broken envelope, or a request that has expired on the way: no answer.
Refuse(r) ==
    /\ task[r] = "created"
    /\ End(r)
    /\ UNCHANGED sent

BeginSolving(r) ==
    /\ task[r] = "created"
    /\ task' = [task EXCEPT ![r] = "solving"]
    /\ UNCHANGED <<main, echo, messageTasks, stopTask, position, awaited, starts, sent>>

Reply(r) ==
    /\ task[r] = "solving"
    /\ End(r)
    /\ sent' = sent \cup {r}

\* The solver raised an error, or its answer cannot be packed.
FailToSolve(r) ==
    /\ task[r] = "solving"
    /\ End(r)
    /\ UNCHANGED sent

\* A mutation for the runs: the request has no time-out.
NoTimeOut(r) == task[r] = "solving" /\ UNCHANGED routerVars

\* wait_for cancels the solver and waits for it.
TimeOut(r) ==
    /\ task[r] = "solving"
    /\ task' = [task EXCEPT ![r] = "expiring"]
    /\ UNCHANGED <<main, echo, messageTasks, stopTask, position, awaited, starts, sent>>

\* The solver of an expired or cancelled request is over, and so is its task.
EndExpired(r) ==
    /\ task[r] \in {"expiring", "cancelled"}
    /\ End(r)
    /\ UNCHANGED sent

\* A task cancelled before its first step never runs: nothing takes it off
\* the list.
EndUnborn(r) ==
    /\ task[r] = "unborn"
    /\ task' = [task EXCEPT ![r] = "over"]
    /\ UNCHANGED <<main, echo, messageTasks, stopTask, position, awaited, starts, sent>>

\* An error of the socket ends _main.
MainFails ==
    /\ CanFail
    /\ main = "running"
    /\ main' = "failed"
    /\ UNCHANGED <<echo, task, messageTasks, stopTask, position, awaited, starts, sent>>
-------------------------------------------------------------------------------
(* Stopping.                                                               *)

\* A mutation for the runs: task.cancel() never lets the coroutine clean up.
CancelledUnborn(state) == IF Alive(state) THEN "unborn" ELSE state

\* A mutation for the runs: stop forgets the tasks that loop.
CancelledRequest(state) ==
    CASE state = "created"                 -> "unborn"
      [] state \in {"solving", "expiring"} -> "cancelled"
      [] OTHER                             -> state

\* task.cancel() on whatever is alive.
Cancelled(state) ==
    CASE state = "created"                            -> "unborn"
      [] state \in {"running", "solving", "expiring"} -> "cancelled"
      [] OTHER                                        -> state

\* A mutation for the runs: _stop_router_tasks forgets the requests.
KeepRequests == task' = task

CancelRequests == task' = [r \in Requests |-> Cancelled(task[r])]

\* stop, which calls _stop_router_tasks.  A stop task on record counts as one
\* that still works.
Stop ==
    /\ ~IsStopped
    /\ stopTask = None
    /\ main' = Cancelled(main)
    /\ echo' = Cancelled(echo)
    /\ CancelRequests
    /\ stopTask' = "main"
    /\ position' = 1
    /\ UNCHANGED <<messageTasks, awaited, starts, sent>>

\* The tasks that stop cancelled raise CancelledError.
EndMain == /\ main = "cancelled"
           /\ main' = "over"
           /\ UNCHANGED <<echo, task, messageTasks, stopTask, position, awaited, starts, sent>>

EndEcho == /\ echo = "cancelled" \/ (echo = "running" /\ ~EchoEnabled)
           /\ echo' = "over"
           /\ UNCHANGED <<main, task, messageTasks, stopTask, position, awaited, starts, sent>>

\* _wait_for_stop: the main task.  Its error ends the stop task too, which
\* stays on record.
AwaitMain ==
    /\ stopTask = "main"
    /\ ~Alive(main)
    /\ IF main = "failed" THEN stopTask' = "failed" /\ UNCHANGED main
                          ELSE stopTask' = "echo" /\ main' = "absent"
    /\ UNCHANGED <<echo, task, messageTasks, position, awaited, starts, sent>>

AwaitEcho ==
    /\ stopTask = "echo"
    /\ ~Alive(echo)
    /\ stopTask' = "messages"
    /\ echo' = "absent"
    /\ UNCHANGED <<main, task, messageTasks, position, awaited, starts, sent>>

\* The stop task waits for nothing that still works.
Resumes == /\ stopTask = "messages"
           /\ awaited # None => ~Alive(task[awaited])

\* Awaiting a task that is over takes no time.
AliveAhead == {i \in DOMAIN messageTasks : /\ i >= position
                                           /\ Alive(task[messageTasks[i]])}

\* The iterator keeps its position in the list while the tasks it waits for
\* take themselves off it.
AwaitMessage ==
    /\ Resumes
    /\ AliveAhead # {}
    /\ LET i == Min(AliveAhead)
       IN /\ awaited' = messageTasks[i]
          /\ position' = i + 1
    /\ UNCHANGED <<main, echo, task, messageTasks, stopTask, starts, sent>>

EndStop ==
    /\ Resumes
    /\ AliveAhead = {}
    /\ messageTasks' = <<>>
    /\ stopTask' = None
    /\ position' = 1
    /\ awaited' = None
    /\ UNCHANGED <<main, echo, task, starts, sent>>
-------------------------------------------------------------------------------
(* Specification.                                                          *)

StopStep == EndMain \/ EndEcho \/ AwaitMain \/ AwaitEcho \/ AwaitMessage \/ EndStop

RequestStep(r) == \/ Receive(r) \/ Refuse(r) \/ BeginSolving(r) \/ Reply(r)
                  \/ FailToSolve(r) \/ TimeOut(r) \/ EndExpired(r) \/ EndUnborn(r)

Next == Start \/ Stop \/ MainFails \/ StopStep \/ \E r \in Requests : RequestStep(r)

Spec == Init /\ [][Next]_routerVars
-------------------------------------------------------------------------------
(* Properties.                                                             *)

LoopStates == {"absent", "running", "cancelled", "failed", "over"}

RequestStates == {"absent", "created", "unborn", "solving", "expiring", "cancelled", "over"}

\* The types, and that a request is listed at most once and awaited only by
\* the last stage of the stop task.
TypeOK ==
    /\ main \in LoopStates
    /\ echo \in LoopStates \ {"failed"}
    /\ task \in [Requests -> RequestStates]
    /\ messageTasks \in Seq(Requests)
    /\ IsInjective(messageTasks)
    /\ stopTask \in {None, "main", "echo", "messages", "failed"}
    /\ position \in Nat \ {0}
    /\ awaited \in Requests \cup {None}
    /\ awaited # None => stopTask = "messages"
    /\ starts \in 0..MaxStarts
    /\ sent \subseteq Requests

Live == {r \in Requests : Alive(task[r])}

\* While the router serves, the list holds exactly the tasks that are alive:
\* none of the many ways a request ends leaves its task behind, and no task
\* of an earlier life of the router works on unseen by is_stopped.
Tracked == main = "running" /\ stopTask = None => ToSet(messageTasks) = Live

\* Once stop has cancelled the tasks, no client gets an answer any more.
QuietWhileStopping ==
    [][sent' # sent => stopTask \in {None, "failed"}]_routerVars

\* When the stop task has done its work, nothing of the router works on: it
\* is there "to wait for all canceled previously to close" (router.py:278).
StopIsComplete ==
    [][stopTask = "messages" /\ stopTask' = None => Live' = {}]_routerVars

\* A router that serves can be stopped: stop is "responsible for canceling
\* all router tasks" (router.py:278).
CanBeStopped == main = "running" => stopTask = None
=============================================================================
