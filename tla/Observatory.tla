------------------------------- MODULE Observatory -------------------------------
(***************************************************************************)
(* Requests on their way through the tree, to the devices and back: the    *)
(* solver that makes a task of each request of a message (get_answer), the *)
(* components of Tree, the freezer that refreshes the value of a cycle     *)
(* query, the adapter with its time-out, and the connectors, of which one  *)
(* camera (IrisEndpoint) and one mount (PilarAction) keep a state.         *)
(*                                                                         *)
(* On its way down and up a request waits for nothing: a step takes it     *)
(* from where it waited to where it waits next.  What the freezer and the  *)
(* cache do with the time is CycleQuery's, what the blocker lets through   *)
(* AccessControl's; here either may happen.                                *)
(***************************************************************************)
EXTENDS AlpacaExchange, IrisEndpoint, PilarAction

CONSTANTS Requests,      \* the tasks
          Messages,      \* the messages they came with
          Loads,         \* what may be asked: for each task its request
          Uncachable,    \* addresses that match no_cachable_regex
          MaxRefreshes   \* max_unsuccessful_refreshes

Severities == {"TEMPORARY", "NORMAL", "CRITICAL"}

\* The way of a request from the solver, and what any way comes to: an answer, or
\* what the adapter asks a connector for.
FromRoot(l) == Way(l.address, l.put, Root, 1)
End(way)    == Last(way.steps)
Outcome(l, way) ==
    IF way.end # Arrived THEN way.end
    ELSE CASE Tree[End(way).at].kind = "handler" -> Ok
           [] Tree[End(way).at].kind = "adapter" ->
                DeviceHop(End(way).at, SubSeq(l.address, End(way).index, Len(l.address)), l.put)

Served(outcome) == outcome = Ok \/ "protocol" \in DOMAIN outcome

(* One reader of an address: the others would wait for its task in the     *)
(* cache.  A subscriber's refreshes do not go to the camera, whose model     *)
(* knows one call of each task.                                            *)
ASSUME ObservatoryAssumption ==
    /\ Calls = Requests /\ Actions = Requests
    /\ Nil \notin Requests \cup Severities
    /\ MaxRefreshes \in Nat \ {0}
    /\ \A l \in Loads : \A r \in Requests :
           /\ Len(l[r].address) \in Nat
           /\ \A s \in Requests \ {r} : l[r].address = l[s].address => l[r].put \/ l[s].put
           /\ l[r].cycle => LET o == Outcome(l[r], FromRoot(l[r]))
                             IN  "protocol" \in DOMAIN o => o.protocol # "iris"

VARIABLES load,     \* history: what is asked
          message,  \* the task that answers a message, in gather
          task      \* the task of each request

observatoryVars == <<load, message, task, irisVars, pilarVars>>

(* where: what the task waits for; end and asks: where the way from the    *)
(* solver ends and what it comes to; freezer and index: where in the tree  *)
(* and in the address its request is kept; tries and worst: refreshes that *)
(* failed and the severity kept of them; severities and arrivals: history, *)
(* the severities of the failures since the last success and where its     *)
(* request went; lacking: history, a driver's answer had no error number.  *)
NewTask == [where |-> "new", end |-> Nil, asks |-> Nil, freezer |-> Nil, index |-> 1, tries |-> 0, worst |-> Nil,
            answer |-> Nil, severities |-> {}, arrivals |-> {}, lacking |-> FALSE]

AtDevice == {"camera", "mount", "device"}
Waiting  == AtDevice \cup {"condition"}

ObservatoryInit ==
    /\ load \in Loads
    /\ message = [m \in Messages |-> "open"]
    /\ task = [r \in Requests |-> NewTask]
    /\ IrisInit
    /\ PilarInit

Address(r) == load[r].address
Become(r, t) == task' = [task EXCEPT ![r] = t]
-------------------------------------------------------------------------------
(* The freezer's loop, as the task t of the request r may be after it.     *)

Rank(severity) == CASE severity = Nil -> 0 [] severity = "TEMPORARY" -> 1
                    [] severity = "NORMAL" -> 2 [] severity = "CRITICAL" -> 3

\* A mutation for the runs: the last failure counts.
LastSeverity(worst, severity) == severity

\* compare_severity.
WorstSeverity(worst, severity) == IF Rank(severity) > Rank(worst) THEN severity ELSE worst

EndWith(t, a) == [t EXCEPT !.where = "answered", !.answer = a]

\* No severity at all makes a normal error.
TooManyFailures(t) == Answer("2003", IF t.worst = Nil THEN "NORMAL" ELSE t.worst)

\* A mutation for the runs: one failure too many.
GivesUpLate(t) == t.tries > MaxRefreshes

GivesUp(t) == t.tries >= MaxRefreshes

\* The top of the loop: the cache has news, or there were too many failures, or
\* the subscriber waits for either.  A value nobody has is never in the cache.
LoopTop(t) ==
    (IF Served(t.asks) THEN {EndWith(t, Ok)} ELSE {})
    \cup (IF GivesUp(t) THEN {EndWith(t, TooManyFailures(t))}
          ELSE {[t EXCEPT !.where = "condition"]})

\* A mutation for the runs: a success does not count.
CountNoSuccess(t, a) ==
    IF a = Ok THEN [t EXCEPT !.severities = {}]
    ELSE [t EXCEPT !.tries = @ + 1, !.worst = WorstSeverity(@, a.severity),
                   !.severities = @ \cup {a.severity}]

Count(t, a) ==
    IF a = Ok THEN [t EXCEPT !.tries = 0, !.worst = Nil, !.severities = {}]
    ELSE [t EXCEPT !.tries = @ + 1, !.worst = WorstSeverity(@, a.severity),
                   !.severities = @ \cup {a.severity}]

\* The answer a came back: to the client, or to the freezer.
After(t, a) == IF t.freezer = Nil THEN {EndWith(t, Surfaced(a))}
                                  ELSE LoopTop(Count(t, Surfaced(a)))
-------------------------------------------------------------------------------
(* The way down.                                                           *)

On(way, kind) == {s \in ToSet(way.steps) : Tree[s.at].kind = kind}

\* The answer goes up: nobody on the way waits.
Return(r, t, a) == \E u \in After(t, a) : Become(r, u)

CameraAnswer(outcome) ==
    CASE outcome = "ok"           -> Ok
      [] outcome = "device error" -> Answer("2002", "NORMAL")
      [] outcome = "unreachable"  -> Answer("4005", "NORMAL")

MountAnswer(outcome) ==
    CASE outcome = "ok"   -> Ok
      [] outcome = "2002" -> Answer("2002", "NORMAL")
      [] outcome = "3002" -> Answer("3002", "CRITICAL")
      [] outcome = "4005" -> Answer("4005", "NORMAL")

Camera(r, t) == /\ BeginCall(r)
                /\ Become(r, [t EXCEPT !.where = "camera"])
                /\ UNCHANGED pilarVars

\* A PUT to Pilar is an action, or does one step of its own.
Mount(r, t) == /\ BeginAction(r)
               /\ IF stage'[r] \in Over THEN Return(r, t, MountAnswer(stage'[r]))
                  ELSE Become(r, [t EXCEPT !.where = "mount"])
               /\ UNCHANGED irisVars

Device(r, t) == /\ Become(r, [t EXCEPT !.where = "device"])
                /\ UNCHANGED <<irisVars, pilarVars>>

\* The blocker lets a GET pass; of a PUT it may say 1004 or 1005.
Blocked(r, t, way) == /\ load[r].put
                      /\ On(way, "blocker") # {}
                      /\ \E code \in {"1004", "1005"} : Return(r, t, Answer(code, "NORMAL"))
                      /\ UNCHANGED <<irisVars, pilarVars>>

\* The device's own check of the arguments (_process_alpaca_put_parameters).
Misfit(r, t, end) == /\ end.checks
                     /\ Return(r, t, Answer("2002", "NORMAL"))
                     /\ UNCHANGED <<irisVars, pilarVars>>

\* get_value of the handler or the adapter at the end of the way.
Go(r, t, way) ==
    \/ Blocked(r, t, way)
    \/ \E u \in {[t EXCEPT !.arrivals = @ \cup {End(way)}]}, end \in {Outcome(load[r], way)} :
          \/ "code" \in DOMAIN end /\ Return(r, u, end) /\ UNCHANGED <<irisVars, pilarVars>>
          \/ /\ "protocol" \in DOMAIN end
             /\ \/ Misfit(r, u, end)
                \/ end.protocol = "iris" /\ Camera(r, u)
                \/ end.protocol = "pilar" /\ load[r].put /\ Mount(r, u)
                \/ end.protocol = "pilar" /\ ~load[r].put /\ Device(r, u)
                \/ end.protocol = "alpaca" /\ Device(r, u)

\* get_value of the freezer, up to the loop.  The client sends along how many
\* refreshes have failed already.
Freeze(r, t, s) ==
    /\ IF load[r].put \/ Address(r) \in Uncachable
       THEN Become(r, EndWith(t, Answer("4003", "CRITICAL")))
       ELSE \E n \in 0 .. MaxRefreshes :
              \E u \in LoopTop([t EXCEPT !.freezer = s.at, !.index = s.index, !.tries = n]) :
                Become(r, u)
    /\ UNCHANGED <<irisVars, pilarVars>>

\* get_single_answer.
Begin(r) ==
    /\ task[r].where = "new" /\ ~load[r].damaged
    /\ message[load[r].message] = "open"
    /\ \E way \in {FromRoot(load[r])} :
       \E t \in {[task[r] EXCEPT !.end = End(way), !.asks = Outcome(load[r], way)]} :
          IF load[r].cycle /\ On(way, "freezer") # {}
          THEN \E s \in On(way, "freezer") : Freeze(r, t, s)
          ELSE Go(r, t, way)
    /\ UNCHANGED <<load, message>>

\* A message that is no request.
BeginDamaged(r) ==
    /\ task[r].where = "new" /\ load[r].damaged
    /\ message[load[r].message] = "open"
    /\ Become(r, EndWith(task[r], Answer("4001", "CRITICAL")))
    /\ UNCHANGED <<load, message, irisVars, pilarVars>>

\* A mutation for the runs: the request itself goes down, and the providers it
\* comes by change its index.
SendOriginal(t, way) == [t EXCEPT !.index = Last(way.steps).index + 1]

\* A copy of the request goes down (request.copy()).
SendCopy(t, way) == t

Refresh(r) ==
    /\ task[r].where = "condition"
    /\ \E way \in {Way(Address(r), load[r].put, Tree[task[r].freezer].sub, task[r].index)} :
          Go(r, SendCopy(task[r], way), way)
    /\ UNCHANGED <<load, message>>

\* The condition is notified: some other client has refreshed the value.
Notified(r) ==
    /\ task[r].where = "condition" /\ Served(task[r].asks)
    /\ Become(r, EndWith(task[r], Ok))
    /\ UNCHANGED <<load, message, irisVars, pilarVars>>
-------------------------------------------------------------------------------
(* The way up.                                                             *)

\* A step of the connector, and what follows when it was the last.
CameraStep(r) ==
    /\ CallStep(r)
    /\ IF place'[r] \in Ended THEN Return(r, task[r], CameraAnswer(place'[r]))
                              ELSE UNCHANGED task
    /\ UNCHANGED <<load, message, pilarVars>>

MountStep(r) ==
    /\ ActionStep(r)
    /\ IF stage'[r] \in Over THEN Return(r, task[r], MountAnswer(stage'[r]))
                             ELSE UNCHANGED task
    /\ UNCHANGED <<load, message, irisVars>>

\* One exchange with a driver, or one GET to Pilar.
DeviceDone(r) ==
    /\ task[r].where = "device"
    /\ \/ /\ task[r].asks.protocol = "alpaca"
          /\ \E x \in Exchanges :
               Return(r, [task[r] EXCEPT !.lacking = @ \/ x = "no ErrorNumber"], AlpacaAnswer(x))
       \/ /\ task[r].asks.protocol = "pilar"
          /\ \E a \in {Ok, Answer("2002", "NORMAL"), Answer("4005", "NORMAL")} : Return(r, task[r], a)
    /\ UNCHANGED <<load, message, irisVars, pilarVars>>
-------------------------------------------------------------------------------
(* Time-outs.                                                              *)

\* A mutation for the runs: nobody cancels the connector's task.
Disregard(r) == task[r].where \in Waiting /\ UNCHANGED <<irisVars, pilarVars>>

\* The connector's task is cancelled and waited for (wait_for_psce).
Withdraw(r) ==
    \/ /\ task[r].where = "camera" /\ CancelCall(r)
       /\ UNCHANGED pilarVars
    \/ /\ task[r].where = "mount" /\ CancelAction(r)
       /\ UNCHANGED irisVars
    \/ /\ task[r].where \in {"device", "condition"}
       /\ UNCHANGED <<irisVars, pilarVars>>

\* Of the adapter: a share of the request's time.
AdapterTimeOut(r) ==
    /\ task[r].where \in AtDevice
    /\ Withdraw(r)
    /\ \E u \in After(task[r], Answer("2002", "NORMAL")) : Become(r, u)
    /\ UNCHANGED <<load, message>>

\* Of the freezer: just before the request's.
Expire(r) ==
    /\ task[r].freezer # Nil
    /\ task[r].where \in Waiting
    /\ Withdraw(r)
    /\ Become(r, EndWith(task[r], Answer("4004", "TEMPORARY")))
    /\ UNCHANGED <<load, message>>

\* Of the router, which has cancelled the message's task: gather cancels the
\* tasks of its requests.
Cancel(r) ==
    /\ message[load[r].message] = "cancelled"
    /\ \/ task[r].where = "new" /\ UNCHANGED <<irisVars, pilarVars>>
       \/ Withdraw(r)
    /\ Become(r, [task[r] EXCEPT !.where = "cancelled"])
    /\ UNCHANGED <<load, message>>

Tasks(m) == {r \in Requests : load[r].message = m}

GiveUp(m) ==
    /\ message[m] = "open" /\ Tasks(m) # {}
    /\ message' = [message EXCEPT ![m] = "cancelled"]
    /\ UNCHANGED <<load, task, irisVars, pilarVars>>

Reply(m) ==
    /\ message[m] = "open" /\ Tasks(m) # {}
    /\ \A r \in Tasks(m) : task[r].where = "answered"
    /\ message' = [message EXCEPT ![m] = "replied"]
    /\ UNCHANGED <<load, task, irisVars, pilarVars>>
-------------------------------------------------------------------------------
World == \/ /\ \/ \E x \in replies : Receive(x)
               \/ \E e \in DOMAIN future, lost \in BOOLEAN : SocketError(e, lost)
            /\ UNCHANGED pilarVars
         \/ /\ \E v \in Variables : Turn(v)
            /\ UNCHANGED irisVars

TaskStep(r) == \/ Begin(r) \/ BeginDamaged(r)
               \/ CameraStep(r) \/ MountStep(r) \/ DeviceDone(r)
               \/ Cancel(r)

ObservatoryNext ==
    \/ \E r \in Requests : \/ TaskStep(r) \/ Refresh(r) \/ Notified(r)
                           \/ AdapterTimeOut(r) \/ Expire(r)
    \/ World /\ UNCHANGED <<load, message, task>>
    \/ \E m \in Messages : GiveUp(m) \/ Reply(m)

ObservatorySpec == ObservatoryInit /\ [][ObservatoryNext]_observatoryVars

\* The event loop runs what is ready, the connectors' own time-outs and the
\* freezer's fire.  The adapter and the router may take any time to give up.
ObservatoryFairness ==
    \A r \in Requests :
        /\ WF_observatoryVars(TaskStep(r))
        /\ WF_observatoryVars(Expire(r))

FairObservatory == ObservatorySpec /\ ObservatoryFairness
-------------------------------------------------------------------------------
Done(r) == task[r].where \in {"answered", "cancelled"}
Answers(r) == task[r].where = "answered"

ObservatoryTypeOK ==
    /\ load \in Loads
    /\ message \in [Messages -> {"open", "cancelled", "replied"}]
    /\ \A r \in Requests :
          /\ task[r].where \in {"new", "answered", "cancelled"} \cup Waiting
          /\ task[r].freezer \in Components \cup {Nil}
          /\ task[r].tries \in 0 .. MaxRefreshes
          /\ task[r].worst \in Severities \cup {Nil}
          /\ task[r].severities \subseteq Severities
          /\ task[r].arrivals \subseteq [at : Components, index : Nat]
    /\ IrisTypeOK
    /\ PilarTypeOK

(* However often the freezer sends a request down again, it arrives where   *)
(* it arrived first and with the same part of the address: the providers   *)
(* take their names off a copy (request.copy, tree_conditional_freezer     *)
(* 255).                                                                   *)
RefreshesArriveAlike ==
    \A r \in Requests : task[r].arrivals \subseteq {task[r].end}

(* CRITICAL tells the client never to ask again.  An answer is CRITICAL    *)
(* only if asking again cannot help as long as the server and the driver   *)
(* stay as they are: the request is damaged, nobody serves the address,    *)
(* its value is not for subscribing to, an action's program names a        *)
(* variable Pilar does not have, or the driver's answer breaks its         *)
(* protocol.                                                               *)
PermanentMeansPermanent ==
    \A r \in Requests : Answers(r) /\ task[r].answer.severity = "CRITICAL" =>
        \/ load[r].damaged
        \/ ~Served(task[r].asks)
        \/ load[r].cycle /\ (load[r].put \/ Address(r) \in Uncachable)
        \/ stage[r] = "3002"
        \/ task[r].lacking

(* When the freezer gives up, its error is as severe as the most severe    *)
(* failure since the last value: neither the order of the failures nor     *)
(* those before a value count.                                             *)
SeverityIsWorst ==
    \A r \in Requests : Answers(r) /\ task[r].answer.code = "2003" =>
        Rank(task[r].answer.severity)
          = Max({Rank(s) : s \in IF task[r].severities = {} THEN {"NORMAL"} ELSE task[r].severities})

(* Whichever of the time-outs on its way ended a request, and wherever it   *)
(* was, it leaves nothing behind: no lock of the camera, no place in the    *)
(* queue for it, no lock of the mount, no action that goes on.             *)
NothingHeldAfterEnd ==
    \A r \in Requests : Done(r) => /\ holder # r /\ r \notin ToSet(queue)
                                 /\ mover # r /\ ~Live(r)

(* Every request ends, without the time-outs of the adapter and the        *)
(* router, unless it is at the camera and a call there has locked itself   *)
(* and everybody out (_get_endpoint under the lock, line 103).             *)
EndsOrStuck ==
    \A r \in Requests : <>(\/ Done(r)
                           \/ task[r].where = "camera" /\ \E c \in Calls : place[c] = "stuck")

(* "Component / method not found in tree | CRITICAL | Permanent under      *)
(* current tree schema" (doc/errors.md:90): 1002 is said of an address     *)
(* that nobody serves, and not because a driver sent what the connector    *)
(* did not expect.                                                         *)
NotFoundMeansNotFound ==
    \A r \in Requests : Answers(r) /\ task[r].answer.code = "1002" => ~Served(task[r].asks)

\* Nobody in the tree, or no device, is called so.
Missing(r) == task[r].asks \in [code : {"1002"}, severity : Severities]

(* "Component address doesn't exist in the tree (AddressError(1002)) |     *)
(* CRITICAL" (doc/errors.md:62): a GET or a subscription of a missing      *)
(* address is told not to ask again, unless its time was over.             *)
MissingIsPermanent ==
    \A r \in Requests :
        Answers(r) /\ Missing(r) /\ ~load[r].put /\ ~load[r].damaged /\ task[r].answer.code # "4004"
        => task[r].answer.severity = "CRITICAL"
===============================================================================
