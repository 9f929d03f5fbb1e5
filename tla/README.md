# A verification project for ocabox-server

ocabox-server puts telescopes behind a tree of addresses. Clients send
messages with requests (`GET`, `PUT`) over ZeroMQ; a router makes a task of each
message; each request walks down a tree of components - conditional freezer,
cache, request blocker, access grantor, connectors - and its answer walks back.
Everything runs on one asyncio event loop, so the hazards are not data races but
what happens between two awaits: state read before one and used after it, locks
and queues handed on, tasks cancelled half way, time-outs that race answers.

The models are written from the code under `src/`, `PROJECT.json` maps each
definition to the lines it stands for. Paths below are relative to `src/obsrv/`.

## 1. Inventory

| Component | State | Operations | What is hard | What makes it correct |
|---|---|---|---|---|
| **Conditional freezer** `tree_components/specialized_components/tree_conditional_freezer.py` | one `asyncio.Condition`; per request: deadline, failed refreshes and their severity, known change | `get_value` loop, `_waiter`, `_condition_wait`, `_update_value`, `set_change_event` | the look at the cache and the wait are separated by a `sleep(0)` and by the condition's lock; the wait's time-out races the notification; a refresh is cancelled anywhere | answers are in time, each is news to its client, every request ends; refreshes ask for the same thing each time; the error at the end is as severe as what happened |
| **Cache** `.../tree_cache_observatory.py` | one `_KnownValue` per address: value, stamp, change time, task | lookup, fetch by one task, others wait for it, update and report of a change | the report is awaited in the middle of the update; the fetching task fails or is cancelled | one fetch at a time; a value is never replaced by an older one |
| **Request blocker** `.../tree_base_request_blocker.py` | reservation (user, end), cutoff, white and black lists | verdict on each request, `make_reservation`, `break_reservation`, ... | a reservation runs out while nobody looks; the order of the checks | control is exclusive and bounded; the cutoff is stronger than every permission but its bypass |
| **Access grantor** `.../tree_blocker_access_grantor.py` | none of its own (drives the blocker), observables | `take_control`, `return_control`, `break_control`, cutoff commands, queries | the clock moves between two reads; its answers pass a cache that does not know users | answers are true for the user who asks |
| **Observable, push wiring** `utils/observable.py`, `utils/push_wiring.py` | value, `_dirty`, watchers | set, touch, fire on the next tick, subscribe; the walk that asserts the wiring | coalescing; a watcher that raises; set outside a loop | each change is followed by a notification; nothing push-driven is left unwired |
| **Router** `communication/router.py` | main, echo, message and stop tasks | `start`, `_main`, `_send_back`, `stop`, `_wait_for_stop`, `main_coroutine` | tasks end while the stop task iterates over their list; errors of the main task; solvers that never answer | the list of tasks is exact; stop is complete and always possible |
| **Message id deque** `communication/message_id_deque.py` | size, free ids | `get_id`, `release_id` | the pool shrinks by its highest id only | ids are unique, the pool shrinks again |
| **Request solver** `communication/*solver*.py` | the tree, the messenger to NATS | solve all requests of a message with `gather`, run, publish and stop the tree | one request of a message fails or is damaged; the message is cancelled while its requests are under way | nothing of a request is left when it ends; clients are told the truth about asking again |
| **Tree dispatch** `tree_components/base_components/` | providers of each broker, index in the address | dispatch, add provider, run, stop | names are taken off the request on its way; error codes change on the way back | a request reaches the component its address names, again and again |
| **Pilar connector** `protocols/pilar/pilar_connector.py` | pools of connections and ids, lock and breaker per address, lock per resource | `_ensure_connected`, take and return, `get`, `put`, `call` | Pilar restarts; cancellation between take and return; replacement of broken connections; actions of several steps | nothing is in two hands, the pool is bounded and heals, moves do not mix, an action reports what happened |
| **IRIS CCD connector** `protocols/iris_ccd/iris_ccd_connector.py` | a datagram endpoint and a lock per address | command and answer | late datagrams; the lock inside the lock; cancellation leaves the endpoint in use | an answer belongs to its command; the lock is released |
| **Alpaca connector** `protocols/alpaca/`, `tree_alpaca.py` | one HTTP session per exchange | get, put, errors translated | every way an exchange may break | codes and severities that fit |
| **Device tree** `telescope_devices/` | constant | find a device and the connector it uses | a device without a protocol of its own | - |
| **Periodic task, ephemeris** `utils/ocaboxtask.py`, `tree_ephemeris.py` | a task and a stop event | run, tick, stop | stop before run, run twice | every run can be stopped |
| **wait_for_psce** `utils/asyncio_util_functions.py` | - | `wait_for` with the cancellation races sorted out | outer and inner cancellation at once | no cancellation is lost |
| **Server program** `main.py`, `configuration/tree_build_example.py` | - | build, run, serve, interrupt, stop | interrupt during start; router and tree stopped at once; what is left in the loop | everything started is stopped; the program ends |
| Configuration, diagnostics, other connectors, stubs | constant, or none | - | the diagnostics' task is nobody's | - |

How they interact: the router calls the request solver, which calls the tree;
the freezer sits above the cache and asks it for refreshes, the cache calls the
freezer back (`set_change_event`) when a value changes; the grantor's
observables call the freezer directly; the grantor changes the blocker, through
which all `PUT`s go; adapters and the device tree hand requests to the connectors
at the leaves; `main` runs the tree and the router and stops both at once.

## 2. Modules

    MessageIdDeque       CycleQuery       PilarPool
    Reservation  <- INSTANCE -  AccessControl
    Tree  <- ExampleTree
      |  <- AlpacaExchange --+
      |     IrisEndpoint   --+-- Observatory
      |     PilarAction    --+
      +---- Server ---- Router

Two compositions stand on the components: **Observatory** is the path of requests
through the tree to the devices and back, **Server** the life of the program around the
router and the tree. The proofs of a component are in `<component>Proofs` (Router's with Server's; Tree's, PilarAction's and
AlpacaExchange's with Observatory's), its instances for TLC in `MC<component>`. **Facts** has the lemmas several of them need.

`list.remove` and a task that leaves the queue of an `asyncio.Lock` are `RemoveFirst` in Router, CycleQuery and IrisEndpoint:
they take off one element, not all that are equal; that there is but one is a theorem.

### MessageIdDeque
`size` and `free` are `_size` and `_free_id`; `held` is the id each message in
flight has (the users of the deque, external to it). `GetFree` and `GetNew` are the two
branches of `get_id`, `ReleaseId` is `release_id`. A user releases what it holds
and does so once: `release_id` does not check it. Only the tests of the
repository use the class so far.

### Reservation, AccessControl
AccessControl is the blocker with the grantor in front of it. `currentUser`, `timeout` and
`engaged` are the blocker's fields; `inFlight` is the `PUT` of each user between
the blocker and its device, `cached` the cache in front of the grantor, `reply` the
grantor's last answer. A handler has no await, so each is one step: `TakeControl`,
`BreakControl`, `ReturnControl`, `SetCutoff`, `SendPut`, `Ask`. But it may read the
clock twice, so `now` may advance by one inside a step (`\E t \in {now, now + 1}`).
Looking at a reservation that has run out cancels it; `Lapse` is that side
effect, in the handlers that look.
`CutoffList` entries of length one are bare names, which match in any component;
longer ones are dotted addresses.

Reservation is what they promise: a register that one user holds until a
moment at most `MaxControlTime` away, which nobody takes from its holder and which is free from
that moment on. AccessControl implements it (`KeepsRegister`) with the mapping `holder <- Owner`: the user on
record, if the reservation has not run out. The code keeps a reservation that
ran out on record until somebody looks, and cancels it then: a stutter of the register.

### CycleQuery
One address with its freezer, cache and device, and the pusher. An action is what one
task does between two points where it gives up the loop; `pc` names the
point. For a subscriber: `check` (loop head), `yield` (the `sleep(0)` after it),
`entering`/`entered` (lock of the condition), `waiting`, `woken`/`reentering`/
`leaving` (`Condition.wait` takes the lock back), `left` (the second
`sleep(0)`). For whoever uses the cache: `ask`, `join` (waits for the task that fetches),
`fetch`, `answered`, `reporting` (the notification waits for the lock).

* `lock`, `lockq` are the condition's `asyncio.Lock`: first come first served. On
  release it goes to the head of the queue (`HandOver`); `lock` is the holder or that heir.
  `behind` records that the heir runs before the task that released the lock and did `sleep(0)`.
* `sees` is the local `k_value` of the last look, `known` the client's
  `time_of_known_change`, `shown` the value it was sent with it, `failures` its count of failed refreshes, which travels with it.
  `penalty` is `wait_offset_error`, which stays set until a refresh succeeds; `minWait` is the `min_wait` of one call of `_waiter`, which
  uses it once and gets it anew after each look at the cache.
* A subscriber's request may be cancelled by its time-out at any point of a
  refresh (`CancelUpdate`); those that waited for it ask again.
* The device answers (`ArriveQuietly`, `ArriveChanged`), fails, or never answers.
* `Spec` lets time pass at any moment: the loop may be as slow as it likes. `FairSpec` adds `Fairness` to it, of actions
  that are all part of `Next`.
* `PromptSpec` is the same system on a loop that is fast compared with the unit of
  the clock: time passes, and answers of the device arrive, only when no task can run (`LoopIdle`), or when all that can run is a
  subscriber whose wait ended at exactly the tolerance. The cache still takes the value for fresh then (the comparison includes the
  bound) and the freezer asks again at once: it goes round until the clock has moved on (`GoesRound`).
  No liveness property is checked of `PromptSpec`.

### Router
`main`, `echo`, `task`, `messageTasks`, `stopTask` are the router's tasks.
The solver of a request is left open: it answers, fails, or never ends until it is
cancelled, and then takes any number of turns. Each ending of `_send_back` takes the task off the list. `_wait_for_stop` is
followed literally: `position` is the place of the list iterator, which stays
where it is when tasks that end take themselves off the list. A task
cancelled before its first step (`unborn`) never runs its `finally`.

### PilarPool
One address and one resource lock. `idle` and `freeIds` are the two queues (their order
is left open), `cmdId` and `conn` what each command has in hand, `mover` the holder
of the resource lock, `suppressed` the breaker. The places of a command: `resource`,
`connlock`, `connecting`, `id`, `conn`, `executing`, `replacing`. Every time-out and
every cancellation may strike at any time. A restart of Pilar (`GoDown`, `GoUp`) makes
all open connections `dead`.

### Tree, ExampleTree
What the server reads off the tree without waiting for anything, as functions.
`Hop` is `get_response` of each kind of component and `Way` what it comes to: the
components a request passes, each with the index into the address it has there, and the answer or the
component at the end. `DeviceHop` goes on in the device tree, to a protocol or an error. It knows of each device which methods
its class has itself (`own`, which go on to the connector under another name: one that Pilar and the camera do not have) and of which it checks the
arguments (`checked`), before anything is sent. How parameters and results are converted is left out: an error in that ends the exchange as a driver's error does.
`Surfaced` is what `get_response` of the adapter turns the connector's 3002 into: `TreeStructureError` there means "ask the
subcontractor", and the adapter has none, so 3001 comes out. `RunOrder` is the order in which `run` and `stop` come to the
components, `PushWired` the assertion on start, `Published` what is sent to NATS. ExampleTree
is `tree_build_example.py`: three telescopes and the global services.

### IrisEndpoint
One camera address. `holder` and `queue` are its `asyncio.Lock`, `cached` the endpoint in `_endpoints`,
`future` the `response_future` of each endpoint ever made, `replies` the datagrams that may still
arrive, and where. A call takes the lock twice, once for the endpoint and once
to use it; `place` is where it waits: `asking` and `turn` for the lock, `creating`, `sent` for the answer. A
closed transport sends it to `_get_endpoint` under the lock it holds: `stuck`. Datagrams name no
command, so `Receive` gives whatever comes to the future that is there. A time-out forgets
the endpoint, a cancellation does not (`CancelledError` is no `Exception`). `cutOff` is a
history of commands that ended without their answer.

### PilarAction
`call`: the steps of a program, each a `put` (with the resource lock for that step alone) or a
verify step that reads the variables one after another and again in a second. `SetRefused`
is the `put` that turns COMMAND FAILED into a result `call` does not look at. `alone` and `refused` are history.
A command that is cancelled or times out may have been accepted all the same (`CancelAction`, `SetLost`); Pilar hears it at once or never.
The mount turns in its own time (`Turn`).

### AlpacaExchange
Each way an HTTP exchange may end, the exception it becomes and the code and
severity the adapter makes of that.

### Observatory
A request is a task (`task[r]`) that waits in one of a few places: for its device (`camera`,
`mount`, `device`) or in the freezer (`condition`). Everything between is one step, because the
code does not wait there (`Misfit` is a device that finds fault with the arguments): `Begin` and `Refresh` walk down (`Way`, `Go`), a last step of a connector
walks up (`Return`, `After`, `LoopTop`). The time-outs of the adapter, the freezer and the router each withdraw the
connector's task (`Withdraw`). `message` is the task in `gather` of a message's requests:
one that answers when all are done, or is cancelled with them. What the freezer and the cache do with time is in CycleQuery and
what the blocker says in AccessControl: here a condition may be notified or not, and a
blocked `PUT` be refused or not.
An address has one reader at a time, because a second would wait for the first in the cache; subscriptions do not go to the camera,
whose module has one call per task.

### Server
`program` is where `main` waits: `opening`, `publishing` (run_tree), `serving` (main_coroutine),
`ending` (gather of the two stop tasks), `closed`. `coroutine` is the task of main_coroutine,
`ticking` and `event` the periodic tasks and their events, `stopping` the component `stop_tree` waits
for. SIGINT (`Interrupt`, `InterruptAgain`) may come whenever the loop is between two callbacks.
`CleanUp` is the outer `finally`. In a behaviour with program `library` the router is started and
stopped by somebody else, as the tests do, and may start again.

Each of the modules has definitions commented "a mutation for the runs": plausible
bugs that a run must find when they replace the definition that follows. They are
not part of the specification.

## 3. Runs

`tlc -workers 2 -config X.cfg M` in this directory, where M is the module in `PROJECT.json` (X itself for most). Distinct
states in brackets.

| Run | Instance | Shows |
|---|---|---|
| MCMessageIdDeque (304) | 4 messages, pool of 2 | `IInv`, the inductive invariant of the proofs; `UniqueIds`; `DrainsWhenQuiet`: with one sender left, the pool gets back to its size again and again |
| MCAccessControl (203 k) | 2 users, addresses that match the lists in every way, two queries, clock to 2 | `ReservationBounded`, `NoTakeover`, `CutoffHolds`, `OwnerOnly`; `ReportConsistent`: the two reads of `current_user` agree; `AccessAnswerIsTrue`: no other user's answer from the cache; `KeepsRegister`: the refinement of Reservation |
| MCCycleQuery (335 k) | 2 subscribers of different tolerances, pushes, failures, clock to 3, `FairSpec` | `SingleFlight`, `EveryRequestEnds`, on a loop of any speed |
| MCCyclePrompt (1055 k) | 2 subscribers of different tolerances and a reader, pushes, failures, patience of 3, clock to 4, `PromptSpec` | `InTime`: no subscriber's request outlives its time-out; `DeliversNews`: what a subscriber is sent is news to it |
| MCServer (105 k) | the example tree with its ephemeris twice, 2 requests, errors of the socket, diagnostics or not, 2 starts, `FairServer` | `Tracked`, `QuietWhileStopping`, `AnswersWhileTreeRuns`: no answer once router or tree stop; `PublishedIsReachable`; `EndIsOrderly`: what may be left at the end; `ProgramEnds`, `TasksEnd` |
| MCPilarPool (37 k) | 3 commands, 2 of them moves, 3 ids, 3 connections, pool of 2, `FairSpec` | `NothingShared`, `PoolBounded`, `LockFollowsMove`, `BreakerHolds`, `EveryCommandEnds` |
| MCObservatory (344 k) | 3 requests in 1 or 2 messages, 9 loads that cover every kind of address and answer of the example tree, 2 failed refreshes, 2 passes of a verify step | `RefreshesArriveAlike`, `PermanentMeansPermanent`, `SeverityIsWorst`, `NothingHeldAfterEnd`, `OneAtATime`, `WrongAnswerHasCause`, `SocketsBounded`, `VerifiedMeansThere` |
| MCRequestsEnd (26 k) | 3 loads with two requests that meet at the camera, the mount or an address, programs of one step of each kind, `FairObservatory` | `EndsOrStuck`: nothing but the lock inside the lock of the camera blocks a request |
| MCStaleDelivery | 2 subscribers and a reader, nothing fails, `Spec` | *violated*: `DeliversNews` on a loop under load: the time of a change is stored before the notification, the value after it; a subscriber that looks in between is sent what it has (`tree_cache_observatory.py` 182-184) |
| MCPushIsPrompt | 1 subscriber, pushes | *violated*: a push wakes the subscribers, the cache still has the old value, and they wait out the tolerance (`tree_blocker_access_grantor.py` 48) |
| MCPilarHeals | 2 commands, pool of 1, `BusySpec` | *violated*: a pool that ran dry stays registered and is never refilled (`pilar_connector.py` 184, 293) |
| MCCommandFailed | the loads of MCRequestsEnd, the programs of MCObservatory | *violated*: an action goes on after a refused command and reports success (`pilar_connector.py` 398, 476) |

Each module has a type invariant, which also bounds what the model counts:
the failed refreshes never pass `max_unsuccessful_refreshes`, in Router a
task is listed once and awaited in the last stage only.

Known violations that are stated in the modules and have a `.cfg` of their own, but are not
among the listed runs:

* `NeverOlder` (MCNeverOlder.cfg, module MCCycleQuery): a fetch that had to wait for the condition's lock stores its
  value over a newer one (`tree_cache_observatory.py` 180-184; the test of line 101 says the cache does not).
* `NoSleepOnNews` (MCSleepOnNews.cfg, MCCycleQuery): the subscriber goes to sleep with a change
  in the cache it has not been sent, since it gave up the loop after its look.
* `NothingMissed` on a loop under load (MCMissedChange.cfg, MCCycleQuery): a fetch that waited for the condition's lock stores its older
  value over a newer one that a subscriber was sent; the change it makes has a stamp the subscriber knows already, so the
  subscriber is not told of it (`tree_cache_observatory.py` 184).
* `AllTasksFinished` (MCAllFinished.cfg, MCServer): with diagnostics on nothing ends their task, so every orderly end of
  the server is a RuntimeError (`main.py` 107), of which the comment there says "this shouldn't happen" (133).
* `StopIsComplete` (MCRouterStopIsComplete.cfg, MCRouter): the stop task is "to wait for all canceled previously to close" (`router.py`
  278-279), skips tasks of the list it iterates over, and ends while they work (340).
* `CanBeStopped` (MCRouterCanBeStopped.cfg, MCRouter): an error of the main task ends the stop task
  before it has cleaned up (311); the restarted router then takes itself for stopping (297) and cannot be stopped.
* `Reconnects` (MCReconnects.cfg, MCObservatory): a call that finds its transport closed ("Reconnect logic if needed", `iris_ccd_connector.py` 101)
  asks for the lock it holds (103).
* `NotFoundMeansNotFound` (MCNotFound.cfg, MCObservatory): an answer of a driver without `ErrorNumber` is a `KeyError` (`alpaca_connector.py` 403), which
  the adapter reports as 1002, CRITICAL (`tree_alpaca.py` 103): "Component / method not found in tree" (`doc/errors.md` 90).
* `NoIdLost` (MCPilarNoIdLost.cfg, MCPilarPool): a command that times out waiting for a connection
  keeps its id for ever.
* `TakenMeansControl` (MCTakenMeansControl.cfg, MCAccessControl): `take_control` with a timeout in the past
  answers TRUE and gives no control.
* `AnswersMatch` (MCIrisAnswers.cfg, MCObservatory): the answer to a command that was cancelled arrives during
  the next one and is taken for its answer. `WrongAnswerHasCause` is what is left of it.
* `MissingIsPermanent` (MCMissing.cfg, MCObservatory): the brokers answer 1002 with severity NORMAL, so a client asks
  again for an address that will never exist; `doc/errors.md` 62 calls it CRITICAL.

### Bounds, and why they are enough
* `MaxTime` bounds the clocks of AccessControl (2, with reservations of 1: one ends and another follows) and
  CycleQuery (3 or 4, with a patience of 2 or 3:
  a request can start late, time out, and meet another one's refresh; with 3 a wait for the tolerance of 2 ends before the time-out does). A timer
  beyond the bound counts as the bound (`InUnits`).
* Two subscribers compete for the lock while a refresh or a push reports: the
  queue gets two long, and every order occurs. A fetch that fails while the
  other waits for it makes both ask (`AskAnyway`). A tolerance of 0 makes a refresh that is due ask the device; with a greater one it is answered
  from the cache at first and goes round (MCCycleQuery has both). `_max_recall` is 1 in the code, and in the runs.
* In DeviceChanges a notification that still waits for the lock stands for the next one.
* `MaxStarts` = 2: start, stop or failure, start again; the state of the router
  has no memory of more.
* PilarPool: pool of 2 and 3 commands, so the pool runs dry and one command waits; the
  third connection is a replacement while others are in hand.
* Observatory: three calls at one camera make one that uses the socket, one that waits, and one that ends or
  comes; two slews are what it takes to mix moves. A load is the
  largest number of requests that can meet at a device; requests to different devices share no state. `Passes` = 2: a verify
  step looks again once.
* The example tree has each kind of component there is; that the ephemeris stands in MCServer's tree twice is foreseen by
  `get_all_providers` and makes a task run that is off the record.
* Symmetry is used in runs of safety properties only, for users, readers and device values. The server,
  and requests that are all answered, may really stop, so MCServer and MCObservatory and the runs on their modules do not check for deadlock;
  nor do those of MCRouter. All others do.

### Fairness
* MessageIdDeque: one sender keeps sending; nothing is asked of the others.
* CycleQuery: asyncio runs each task that is ready (WF for each subscriber, cache user
  and the pusher) and time passes (WF `Tick`). Nothing makes the device answer or clients ask. Fairness is added to `Spec`, where time
  may pass whatever the tasks do, so no behaviour of a slow loop is left out.
  The lock is FIFO in the model itself, so no fairness is needed for it.
* Server: WF for the loop's own steps, for a request's time-out (requests have a
  finite one), for the end of a cancelled solver, and for the steps of `main` together. Nothing makes a solver answer, the
  socket fail or anybody interrupt.
* Observatory: WF of each task's steps, which include the connectors' own time-outs, and of the freezer's time-out, which is
  finite. The adapter's and the router's may take any time, and no datagram has to arrive.
* PilarPool: WF of a command's steps taken together, because each await has a time-out. That of `execute` is per line: while Pilar
  sends lines for other commands it starts anew, and only the adapter's time-out ends the command. So the fairness of a command that executes is
  of its own steps or its cancellation (`CancelExecute`), and of its own steps alone everywhere else;
  SF for getting a lock, because `asyncio.Lock` is FIFO and the model leaves the queue open;
  WF for the end of the breaker's cool-down. `BusySpec` adds clients that keep asking and get what
  there is, so that its violation is not one of starvation.

## 4. Theorems

Proved with TLAPS for every value of the constants that satisfies the modules'
assumptions (finite or infinite sets of users, ids, commands, calls; any clock bound, any tree).

* **MessageIdDequeProofs**: `DequeInvariant`, `IdsAreUnique`. `UniqueIds` is not inductive: an
  id could also be free, or stand in the deque twice. `IInv` adds that free and held ids
  partition `0 .. size - 1` and the deque has no duplicates. `PopLeft` and `PushRight` are
  the lemmas about the deque.
* **AccessControlProofs**: `AccessTypes`, `ReservationsAreBounded`, `ControlIsNotTakenOver`,
  `ReportsAreConsistent`, `AccessAnswersAreTrue`, `CutoffIsKept`, `OnlyTheOwnerCommands`, and `RegisterIsKept`: AccessControl implements Reservation.
  `StepKinds` sorts all steps by what they do to the
  reservation (leave it, cancel it, set it within the limit if nobody else has control); the
  bound, the absence of take-over and each step of the refinement follow from it and the clock going forward, the two
  action properties from `AdmittedForwards`. `AccessAnswersAreTrue` needs the types only: `Ask` passes the cache and reads the
  reservation with the clock of the moment it answers.
* **PilarPoolProofs**: `PilarTypes`, `NothingIsShared`, `LockFollowsTheMove`, `OneMoveAtATime`,
  `BreakerIsKept`, `PoolIsBounded`. The inductive invariant `Inv` is `TypeOK`, `Possession` (a command has an id and a
  connection at exactly the places where it should), `NothingShared` and
  `LockFollowsMove`; without `Possession` a command could return what it does not have.
  One lemma per action shows that it keeps `Inv`. The bound needs to count also the connections that are being replaced
  (`Budget`), and that one command at a time connects, before there is a pool.
* **CycleQueryProofs**: `OneFetchAtATime`, `LockIsNeverLost`, `CycleTypes`, `RequestsEndInTime`, `NewsIsDelivered`, `NothingIsMissed`.
  `FetchInv` says that whoever has a request under way is the task on record in the
  cache, unless it waited for others `MaxRecall` times. A step either brings nobody into flight (`Calmly`), or ends a task
  and takes it off the record (`Over`), or is `BecomeFetcher` or `AskAnyway`.
  `LockInv` is about the condition's lock: each place of a task has a stake in it (`Stake`: queues, holds, none); the queue has no task
  twice, has exactly the tasks that queue and have not been given it, and is empty when nobody has the lock. A step is one of five kinds
  (`LockStays`, `LockTaken`, `LockQueued`, `LockReleased`, `LockForgone`).
  The types need it (what leaves the queue is a task), and that a subscriber past the loop's head has a refresh left to fail (`CountInv`).
  `InTime` needs both and `TimeInv`: no timer is set beyond the deadline. The point of the argument is
  `IdleHasTime`: time passes when the loop is idle, then by `LockInv` nobody has the lock, hence nobody queues for it, and whoever
  waits for something else has a timer or a deadline ahead.
  `NewsIsDelivered` and `NothingIsMissed` are of `PromptSpec`, too. `IdleIsUnlocked` says that nobody has the lock when an answer of
  the device arrives, so no report waits for it (nobody is at `reporting`), and change time, stamp and value of the cache move together (`NewsInv`). The rest is that a
  client's stamp is never ahead of the cache's, and that a client whose value is not the cache's has a stamp before its change time. On a slow loop
  neither is true (MCStaleDelivery, MCMissedChange.cfg). `NothingMissed` is stated by no passing run: the theorem says more.
* **IrisEndpointProofs**: `OneCallAtATime`, `MixUpsHaveACause`, `SocketsAreBounded`, `CameraTypes`, `EndedCallsLeaveTheLock`.
  `IrisInv` adds to the lock discipline
  what is true of the datagrams on their way: each belongs to the call that waits for it or to one that gave its socket up.
  `SocketInv` counts sockets against the drops; one that is in use counts once more, and one is made only when there is none.
  The steps of a call are sorted into kinds (`Approaches`, `Sends`, `Ends`).
  `LineInv` is the queue: without duplicates, and who stands in it or holds the lock is at a place where one does (`InLine`, `AtLock`); a call that
  locked itself out is the one that may do both.
* **ServerProofs**: of the router alone `RouterTypes`, `TasksAreTracked` and `StopIsQuiet`; of the program
  `ServerRunsRouter`, `ServerTypes`, `ServerTracks`, `ServerStopsQuietly`, `AnswersNeedTree`, `ServerEndsInOrder`. `RouterInv` says that
  the list has exactly the tasks that work (`Listed`), unless a stop task works on it (`Halted`), and that a
  restarted router has nothing left of its earlier life. `ServerRunsRouter` is the composition: a step of Server is a step of Router or leaves
  it alone, so RouterInv holds of it. `ServerInv` adds what depends on there being one start: the stop task of the program leaves no
  main task (`Stages`), answers come while main_coroutine lives (`Serving`), and the order of the end (`Ending`).
* **ObservatoryProofs**, in five parts:
  - *The tree.* `Way` is a recursive function. That it exists, and where it leads, is proved by induction on the height of a component
    (`Induction` of Facts, from the least number that has not the property): each hop goes to a component that stands lower. `Leads` says that a way ends in
    an answer or at a component with a value, and that whoever sends the request from one of its steps gets it to the same end.
  - *The mount alone.* `ActionTypes`, `SlewsArrive`. The lock protects a single step of an action, so `VerifiedMeansThere` holds of an
    action that had the mount to itself. `MountInv` says of such an action (`Undisturbed`) that each variable it verifies stands still or is on its
    way to the value it verifies, and that what it has read stays there. This needs that a
    program verifies what it sets (`VerifiesItsOwn`).
  - *Refinement.* `CameraIsUsedAlike` and `MountIsUsedAlike` show that Observatory, for every tree and load, implements
    IrisEndpoint and PilarAction: each step is a step or a stutter of each. `OneRequestAtTheCamera`, `WrongAnswersHaveACause`,
    `CameraSocketsAreBounded` and `SlewsArriveForClients` carry the connectors' theorems over to requests that come down the tree.
  - *Requests.* `ServeInv` says of each request what its record, its call and its action may be together (`RequestInv`): where it goes is
    where the tree sends it (`OnItsWay`, `Frozen`), the freezer's count and the worst severity go together (`Counts`), and a CRITICAL answer is said only by those
    who may (`MaySay`). A call is under way only if the request is at the camera, an action only if it is at the mount.
  - *Its consequences.* `ServerWideTypes`, `RefreshesArrive`, `CriticalIsPermanent`, `FreezerSaysTheWorst`, `NothingIsLeftBehind`.

TLC checked `IInv`, `LockInv`, `TimeInv`, `MountInv` and `ServeInv` on the instances of the runs before they were proved.

### Assumptions
The assumptions are the named ASSUMEs of the modules: the constants have their types and distinguished values are
distinct. Those that say more:

* `TreeAssumption`: the tree is finite and nothing stands below itself (each component is given its subcontractors when it is made), and a
  freezer has a subcontractor (it takes itself to its cache when it is made, `tree_conditional_freezer.py` 55).
* `PilarActionAssumption`: the values a program verifies are those it sets for the same variable (`VerifiesItsOwn`), as all programs of
  `pilar_config.yml` do: both are the same argument of the call.
* `ObservatoryAssumption`: an address has one reader at a time, nobody subscribes to the camera, and the limit of failed refreshes is not 0 (it is 10).

TLC evaluates all of them on the instances of the runs.

### Only model-checked
* `PublishedIsReachable`: it is a fact about the tree of the repository and not about every tree.
* Liveness (`DrainsWhenQuiet`, `EveryRequestEnds`, `ProgramEnds`, `TasksEnd`, `EveryCommandEnds`, `EndsOrStuck`), which is out of the
  prover's reach together with ENABLED.

## 5. Not modelled

* Message content, service messages, parsing and formatting of values, logging.
* Freezer: `_delayer` (`no_send_before`), the argument check 1003, code 4006. Clock differences between client and server.
* Cache: that `_known_values` gets a record for every address ever asked for and keeps it.
* Router: cancellation of the stop task itself; an error nothing in `_send_back` catches (in the comparison of the time-out, `router.py` 137, or
  in the send, 173, whose future nobody awaits), which would leave a dead task on the list.
* Devices: the conversion of parameters and results, method by method.
* Pilar: an action called without an argument its program names (a ValueError before the step), lines of an earlier command that arrive late on a connection (ids run to 9900),
  several addresses (they share nothing) and several resource locks.
* IRIS: `call`, which no request comes to; several addresses (they share nothing).
* Alpaca: the permanent session, which nothing in the server creates, and `scan_connection`.
* Observable: `subscribe`, a watcher that raises, and `_dirty` after a set outside a loop: only one watcher is ever
  wired, and it is set on the loop.
* The races inside `wait_for_psce`; its effect is part of the actions that use it.
* `reload_nats_config`, the internal client, and changes to a broker's list, which happen while the tree is built.
* Other connectors (plain calls without shared state), reading of configuration, reporting of the diagnostics.

Seen while modelling, without a property of their own: an interrupt during `run_tree` makes `gather` raise a TypeError, and the tree
is not stopped (`CleanUp`); `AlpacaContentTypeError` is raised without its arguments, so what is not JSON becomes 1003 (`Raised`);
an unknown method is said to be 3002 (`doc/errors.md` 123) and reaches the client as 3001 (`Surfaced`); an action without
a verify step reports success before the mount has moved.

## 6. Plan

What is left, in this order:

1. **Observable** and **WaitForPsce** as small modules of their own, each with the hazard of its races.
2. A *change feed* (each client is sent increasing stamps and ends) that CycleQuery with one subscriber implements; a *lease*
   of ids and connections that PilarPool implements.
3. Proofs: `PushWired` of the tree, as an induction like that of the ways.
