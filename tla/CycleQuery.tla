------------------------------- MODULE CycleQuery -------------------------------
(***************************************************************************)
(* One address of the observatory tree as its subscribers see it: the      *)
(* conditional freezer (tree_conditional_freezer.py) over the cache        *)
(* (tree_cache_observatory.py) over a slow device, on one event loop.      *)
(*                                                                         *)
(* A subscriber's request stays in the freezer until the cache knows of a  *)
(* change the subscriber does not know, polling the device through the     *)
(* cache when the known value gets old, or until just before the request   *)
(* times out.  Readers are plain GET requests, which pass the freezer and  *)
(* use the cache only.  The pusher is the change notification an           *)
(* Observable of the grantor fires (observable.py, push_wiring.py).        *)
(*                                                                         *)
(* An action is what a task does between two points where it gives up the  *)
(* event loop.  Stamps of answers are distinct: an answer takes one unit   *)
(* of the clock.                                                           *)
(***************************************************************************)
EXTENDS Integers, Sequences, SequencesExt

CONSTANTS Subscribers, Readers,
          Pusher,             \* the task that fires change notifications
          None,               \* no task, no value
          Values,             \* what the device may show
          Tolerance,          \* time_of_data_tolerance of each task's requests
          MinTolerance,       \* min_time_of_data_tolerance
          Patience,           \* request timeout less alarm_timeout
          MaxRefreshes,       \* max_unsuccessful_refreshes
          MaxRecall,          \* _max_recall of the cache
          CanFail,            \* the device may answer with an error
          CanPush,            \* the device notifies of its own changes
          MaxTime             \* bound of the clock

Tasks == Subscribers \cup Readers

ASSUME CycleAssumption ==
    /\ Subscribers \cap Readers = {}
    /\ Pusher \notin Tasks /\ None \notin Tasks /\ None # Pusher
    /\ None \notin Values
    /\ Tolerance \in [Tasks -> Nat]
    /\ MinTolerance \in Nat \ {0}
    /\ Patience \in Nat /\ MaxRefreshes \in Nat /\ MaxTime \in Nat
    /\ MaxRecall \in Nat \ {0}
    /\ CanFail \in BOOLEAN /\ CanPush \in BOOLEAN

VARIABLES
    now,       \* time.time()
    device,    \* what the device shows
    kv,        \* the cache's _KnownValue: val, ts, change
    fetcher,   \* its task, when that is not done
    pc,        \* where each task waits for its turn
    joined,    \* the task a cache user waits for
    recall,    \* how often it has waited
    needed,    \* time_of_data of its request
    got,       \* the device's answer: val, ts
    known,     \* time_of_known_change: stamp of the value received last
    shown,     \* that value, as the client has it
    deadline,  \* waiting_timeout of the subscriber's request
    sees,      \* its k_value is not None
    failures,  \* nr_of_unsuccessful_refreshes
    penalty,   \* wait_offset_error is set: its last refresh failed
    minWait,   \* min_wait of _waiter: the next wait is at least the tolerance
    wait,      \* waiting_time computed for the next wait
    wake,      \* when the wait on the condition times out
    event,     \* the wait ended because of a notification
    lock,      \* who holds the condition's lock, or is given it next
    lockq,     \* tasks that wait for the lock, first come first served
    behind     \* who got the lock from it and runs before it

cacheVars == <<kv, fetcher, joined, recall, needed, got>>
timing    == <<deadline, sees, failures, penalty, minWait, wait, wake, event>>
locking   == <<lock, lockq, behind>>
vars == <<now, device, cacheVars, pc, known, shown, timing, locking>>

NoAnswer == [val |-> None, ts |-> 0]

Init == /\ now = 0
        /\ device \in Values
        /\ kv = [val |-> None, ts |-> 0, change |-> 0]
        /\ fetcher = None
        /\ pc = [t \in Tasks \cup {Pusher} |-> "idle"]
        /\ joined = [t \in Tasks |-> None]
        /\ recall = [t \in Tasks |-> 0]
        /\ needed = [t \in Tasks |-> 0]
        /\ got = [t \in Tasks |-> NoAnswer]
        /\ known = [s \in Subscribers |-> -1]
        /\ shown = [s \in Subscribers |-> None]
        /\ deadline = [s \in Subscribers |-> 0]
        /\ sees = [s \in Subscribers |-> FALSE]
        /\ failures = [s \in Subscribers |-> 0]
        /\ penalty = [s \in Subscribers |-> FALSE]
        /\ minWait = [s \in Subscribers |-> FALSE]
        /\ wait = [s \in Subscribers |-> 0]
        /\ wake = [s \in Subscribers |-> 0]
        /\ event = [s \in Subscribers |-> FALSE]
        /\ lock = None
        /\ lockq = <<>>
        /\ behind = [s \in Subscribers |-> None]

Goto(t, place) == pc' = [pc EXCEPT ![t] = place]

\* asyncio.Lock: whoever releases it gives it to the first that waits for it.
LockFree == lock = None

\* A mutation for the runs: the lock is not released.
KeptLock == lock

Heir == IF lockq = <<>> THEN None ELSE Head(lockq)

HandOver == lock' = Heir /\ lockq' = IF lockq = <<>> THEN <<>> ELSE Tail(lockq)

\* A task is cancelled while it waits for the lock.
Forgo(t) == IF lock = t THEN HandOver
                        ELSE lockq' = RemoveFirst(lockq, t) /\ UNCHANGED lock

\* Condition.notify_all: whoever waits on the condition has to get the lock.
Notified(places) == [t \in DOMAIN places |->
                        IF places[t] = "waiting" THEN "woken" ELSE places[t]]
EventAfterNotify == [s \in Subscribers |-> event[s] \/ pc[s] = "waiting"]
-------------------------------------------------------------------------------
(* The freezer: get_value of one subscriber's request.                     *)

\* A request arrives; the client repeats its count of failed refreshes.
Subscribe(s) ==
    /\ pc[s] = "idle"
    /\ now + Patience <= MaxTime
    /\ deadline' = [deadline EXCEPT ![s] = now + Patience]
    /\ Goto(s, "check")
    /\ UNCHANGED <<now, device, cacheVars, known, shown, locking>>
    /\ UNCHANGED <<sees, failures, penalty, minWait, wait, wake, event>>

\* The request ends and its locals are gone; the client keeps the count of
\* failures the answer carries.
Answer(s, failed) ==
    /\ Goto(s, "idle")
    /\ failures' = [failures EXCEPT ![s] = failed]
    /\ deadline' = [deadline EXCEPT ![s] = 0]
    /\ sees' = [sees EXCEPT ![s] = FALSE]
    /\ penalty' = [penalty EXCEPT ![s] = FALSE]
    /\ minWait' = [minWait EXCEPT ![s] = FALSE]
    /\ UNCHANGED <<wait, wake, event>>

\* A mutation for the runs: the value the client has counts as news.
HasAny(s) == kv.val # None /\ known[s] <= kv.change

\* The cache holds a change this subscriber has not heard of.
HasNews(s) == kv.val # None /\ known[s] < kv.change

\* The value goes to the client, which remembers its stamp.
Deliver(s) ==
    /\ pc[s] = "check"
    /\ HasNews(s)
    /\ known' = [known EXCEPT ![s] = kv.ts]
    /\ shown' = [shown EXCEPT ![s] = kv.val]
    /\ Answer(s, 0)
    /\ UNCHANGED <<now, device, cacheVars, locking>>

\* A mutation for the runs: one refresh more than the limit.
Exceeded(s) == failures[s] > MaxRefreshes

Exhausted(s) == failures[s] >= MaxRefreshes

\* Code 2003: the refreshes failed too often.
GiveUp(s) ==
    /\ pc[s] = "check"
    /\ ~HasNews(s)
    /\ Exhausted(s)
    /\ Answer(s, 0)
    /\ UNCHANGED <<now, device, cacheVars, known, shown, locking>>

\* Nothing to send yet: asyncio.sleep(0) before the waiting logic, which is
\* called with the minimum wait as long as the last refresh failed.
LetOthersWork(s) ==
    /\ pc[s] = "check"
    /\ ~HasNews(s)
    /\ ~Exhausted(s)
    /\ sees' = [sees EXCEPT ![s] = kv.val # None]
    /\ minWait' = [minWait EXCEPT ![s] = penalty[s]]
    /\ Goto(s, "yield")
    /\ UNCHANGED <<now, device, cacheVars, known, shown, locking>>
    /\ UNCHANGED <<deadline, failures, penalty, wait, wake, event>>

FreezerTolerance(s) == IF Tolerance[s] < MinTolerance THEN MinTolerance
                                                      ELSE Tolerance[s]

\* How long the known value is still young enough, but at least the tolerance
\* the first time after a failed refresh.
WaitingTime(s) ==
    LET age == IF sees[s] THEN kv.ts + FreezerTolerance(s) - now ELSE 0
    IN  IF minWait[s] /\ age < FreezerTolerance(s) THEN FreezerTolerance(s)
                                                   ELSE age

\* A mutation for the runs: the wait is not cut off at the time-out.
CutOffLate(s) == WaitingTime(s)

\* The wait is cut off at the time-out.
CutOff(s) == IF deadline[s] - now < WaitingTime(s) THEN deadline[s] - now
                                                   ELSE WaitingTime(s)

\* When a timer set now goes off; MaxTime stands for every later moment.
InUnits(time) == IF now + time > MaxTime THEN MaxTime ELSE now + time

MustWait(s) == WaitingTime(s) > 0 /\ deadline[s] > now

\* _waiter decides to wait and goes for the lock of the condition; the time
\* to wait is counted from when it gets the lock.
EnterWait(s) ==
    /\ pc[s] = "yield"
    /\ MustWait(s)
    /\ minWait' = [minWait EXCEPT ![s] = FALSE]
    /\ IF LockFree
       THEN /\ lock' = s
            /\ wake' = [wake EXCEPT ![s] = InUnits(CutOff(s))]
            /\ Goto(s, "entered")
            /\ UNCHANGED <<lockq, wait>>
       ELSE /\ lockq' = Append(lockq, s)
            /\ wait' = [wait EXCEPT ![s] = CutOff(s)]
            /\ Goto(s, "entering")
            /\ UNCHANGED <<lock, wake>>
    /\ UNCHANGED <<now, device, cacheVars, known, shown, behind>>
    /\ UNCHANGED <<deadline, sees, failures, penalty, event>>

\* _waiter sees that it is too late to refresh: code 4004.
Expire(s) ==
    /\ pc[s] = "yield"
    /\ ~MustWait(s)
    /\ deadline[s] <= now
    /\ Answer(s, failures[s])
    /\ UNCHANGED <<now, device, cacheVars, known, shown, locking>>

\* It is time to refresh.
StartUpdate(s) ==
    /\ pc[s] = "yield"
    /\ ~MustWait(s)
    /\ deadline[s] > now
    /\ minWait' = [minWait EXCEPT ![s] = FALSE]
    /\ Goto(s, "ask")
    /\ UNCHANGED <<now, device, cacheVars, known, shown, locking>>
    /\ UNCHANGED <<deadline, sees, failures, penalty, wait, wake, event>>
-------------------------------------------------------------------------------
(* Waiting on the condition: Condition.wait within wait_for_psce.          *)

GrantEntry(s) ==
    /\ lock = s
    /\ pc[s] = "entering"
    /\ wake' = [wake EXCEPT ![s] = InUnits(wait[s])]
    /\ wait' = [wait EXCEPT ![s] = 0]
    /\ Goto(s, "entered")
    /\ UNCHANGED <<now, device, cacheVars, known, shown, locking>>
    /\ UNCHANGED <<deadline, sees, failures, penalty, minWait, event>>

\* Condition.wait starts in a task of its own and releases the lock.
StartWait(s) ==
    /\ pc[s] = "entered"
    /\ HandOver
    /\ Goto(s, "waiting")
    /\ UNCHANGED <<now, device, cacheVars, known, shown, timing, behind>>

\* The wait times out.
TimeOutWait(s) ==
    /\ pc[s] = "waiting"
    /\ now >= wake[s]
    /\ Goto(s, "woken")
    /\ UNCHANGED <<now, device, cacheVars, known, shown, timing, locking>>

\* It times out after the notification but before it has the lock again: the
\* notification is lost, and so is the place in the queue.
TimeOutNotified(s) ==
    /\ pc[s] \in {"woken", "reentering"}
    /\ event[s]
    /\ now >= wake[s]
    /\ event' = [event EXCEPT ![s] = FALSE]
    /\ Forgo(s)
    /\ Goto(s, "woken")
    /\ UNCHANGED <<now, device, cacheVars, known, shown, behind>>
    /\ UNCHANGED <<deadline, sees, failures, penalty, minWait, wait, wake>>

\* Awake or cancelled, Condition.wait takes the lock before it returns.
Reenter(s) ==
    /\ pc[s] = "woken"
    /\ IF LockFree
       THEN lock' = s /\ Goto(s, "leaving") /\ UNCHANGED lockq
       ELSE lockq' = Append(lockq, s) /\ Goto(s, "reentering") /\ UNCHANGED lock
    /\ UNCHANGED <<now, device, cacheVars, known, shown, timing, behind>>

GrantReentry(s) ==
    /\ lock = s
    /\ pc[s] = "reentering"
    /\ Goto(s, "leaving")
    /\ UNCHANGED <<now, device, cacheVars, known, shown, timing, locking>>

\* Out of the condition, and asyncio.sleep(0): the one that got the lock runs
\* first.
LeaveWait(s) ==
    /\ pc[s] = "leaving"
    /\ HandOver
    /\ behind' = [behind EXCEPT ![s] = Heir]
    /\ Goto(s, "left")
    /\ UNCHANGED <<now, device, cacheVars, known, shown, timing>>

Queueing == {"entering", "reentering", "reporting"}

HasTurn(s) == behind[s] # None /\ lock = behind[s]
                  => pc[behind[s]] \notin Queueing

\* Look again after a notification, else compute the next wait without
\* looking.
Resume(s) ==
    /\ pc[s] = "left"
    /\ HasTurn(s)
    /\ Goto(s, IF event[s] THEN "check" ELSE "yield")
    /\ event' = [event EXCEPT ![s] = FALSE]
    /\ wake' = [wake EXCEPT ![s] = 0]
    /\ behind' = [behind EXCEPT ![s] = None]
    /\ UNCHANGED <<now, device, cacheVars, known, shown, lock, lockq>>
    /\ UNCHANGED <<deadline, sees, failures, penalty, minWait, wait>>
-------------------------------------------------------------------------------
(* The cache: get_value and what follows the answer of the device, for a   *)
(* subscriber's refresh and for a reader alike.                            *)

Read(r) ==
    /\ pc[r] = "idle"
    /\ needed' = [needed EXCEPT ![r] = now]
    /\ Goto(r, "ask")
    /\ UNCHANGED <<now, device, kv, fetcher, joined, recall, got>>
    /\ UNCHANGED <<known, shown, timing, locking>>

\* A subscriber's refresh asks for data of this moment.
Needed(t) == IF t \in Subscribers /\ recall[t] = 0 THEN now ELSE needed[t]

Fresh(t) == kv.val # None /\ kv.ts + Tolerance[t] >= Needed(t)

\* The task that uses the cache is over: those that wait for it ask again.
\* ok is the status of its response.
Finish(t, places, ok) ==
    /\ pc' = [u \in DOMAIN places |->
                IF u = t THEN (IF t \in Subscribers THEN "check" ELSE "idle")
                ELSE IF u \in Tasks /\ places[u] = "join" /\ joined[u] = t
                     THEN "ask" ELSE places[u]]
    /\ joined' = [u \in Tasks |-> IF joined[u] = t THEN None ELSE joined[u]]
    /\ recall' = [u \in Tasks |-> IF u = t THEN 0
                                  ELSE IF joined[u] = t THEN recall[u] + 1
                                  ELSE recall[u]]
    /\ needed' = [needed EXCEPT ![t] = 0]
    /\ got' = [got EXCEPT ![t] = NoAnswer]
    /\ fetcher' = IF fetcher = t THEN None ELSE fetcher
    /\ IF t \in Subscribers
       THEN /\ failures' = [failures EXCEPT ![t] = IF ok THEN 0 ELSE @ + 1]
            /\ penalty' = [penalty EXCEPT ![t] = ~ok]
       ELSE UNCHANGED <<failures, penalty>>
    /\ UNCHANGED <<deadline, sees, minWait, wait, wake>>

AnswerFromCache(t) ==
    /\ pc[t] = "ask"
    /\ Fresh(t)
    /\ Finish(t, pc, TRUE)
    /\ UNCHANGED <<now, device, kv, known, shown, event, locking>>

\* A mutation for the runs: whoever does not find the value asks the device.
NobodyFetches(t) == TRUE

\* The fetching task is done, or there is none.
NobodyElseFetches(t) == fetcher = None

\* Nobody fetches the value: this task does.
BecomeFetcher(t) ==
    /\ pc[t] = "ask"
    /\ ~Fresh(t)
    /\ NobodyElseFetches(t)
    /\ fetcher' = t
    /\ needed' = [needed EXCEPT ![t] = Needed(t)]
    /\ Goto(t, "fetch")
    /\ UNCHANGED <<now, device, kv, joined, recall, got>>
    /\ UNCHANGED <<known, shown, timing, locking>>

Join(t) ==
    /\ pc[t] = "ask"
    /\ ~Fresh(t)
    /\ ~NobodyElseFetches(t)
    /\ recall[t] < MaxRecall
    /\ joined' = [joined EXCEPT ![t] = fetcher]
    /\ needed' = [needed EXCEPT ![t] = Needed(t)]
    /\ Goto(t, "join")
    /\ UNCHANGED <<now, device, kv, fetcher, recall, got>>
    /\ UNCHANGED <<known, shown, timing, locking>>

\* It waited in vain: it asks the device too, without saying so.
AskAnyway(t) ==
    /\ pc[t] = "ask"
    /\ ~Fresh(t)
    /\ ~NobodyElseFetches(t)
    /\ recall[t] >= MaxRecall
    /\ Goto(t, "fetch")
    /\ UNCHANGED <<now, device, cacheVars, known, shown, timing, locking>>

\* The device reads its value; the answer is under way.
DeviceReads(t) ==
    /\ pc[t] = "fetch"
    /\ got' = [got EXCEPT ![t].val = device]
    /\ Goto(t, "answered")
    /\ UNCHANGED <<now, device, kv, fetcher, joined, recall, needed>>
    /\ UNCHANGED <<known, shown, timing, locking>>

DeviceFails(t) ==
    /\ CanFail
    /\ pc[t] = "fetch"
    /\ Finish(t, pc, FALSE)
    /\ UNCHANGED <<now, device, kv, known, shown, event, locking>>

\* _is_changed, against the value the cache holds at this moment.
IsChanged(v) == kv.val # v

\* The answer arrives, is stamped, and needs no notification.
ArriveQuietly(t) ==
    /\ pc[t] = "answered"
    /\ now < MaxTime
    /\ now' = now + 1
    /\ kv.val = None \/ ~IsChanged(got[t].val)
    /\ kv' = [val |-> got[t].val, ts |-> now',
              change |-> IF kv.val = None THEN now' ELSE kv.change]
    /\ Finish(t, pc, TRUE)
    /\ UNCHANGED <<device, known, shown, event, locking>>

\* It is a change: the freezer is notified first, the value stored after.
ArriveChanged(t) ==
    /\ pc[t] = "answered"
    /\ now < MaxTime
    /\ now' = now + 1
    /\ kv.val # None /\ IsChanged(got[t].val)
    /\ IF LockFree
       THEN /\ kv' = [val |-> got[t].val, ts |-> now', change |-> now']
            /\ event' = EventAfterNotify
            /\ Finish(t, Notified(pc), TRUE)
            /\ UNCHANGED <<device, known, shown, locking>>
       ELSE /\ kv' = [kv EXCEPT !.change = now']
            /\ got' = [got EXCEPT ![t].ts = now']
            /\ lockq' = Append(lockq, t)
            /\ Goto(t, "reporting")
            /\ UNCHANGED <<device, fetcher, joined, recall, needed, lock, behind>>
            /\ UNCHANGED <<known, shown, timing>>

\* A mutation for the runs: the value is not stored once the lock is there.
StoreNothing(t) == kv

\* kv.value = value, whatever was stored while this task waited for the lock.
Store(t) == [kv EXCEPT !.val = got[t].val, !.ts = got[t].ts]

\* The notification got the lock at last: notify_all, release, store.
GrantReport(t) ==
    /\ lock = t
    /\ pc[t] = "reporting"
    /\ HandOver
    /\ kv' = Store(t)
    /\ event' = EventAfterNotify
    /\ Finish(t, Notified(pc), TRUE)
    /\ UNCHANGED <<now, device, known, shown, behind>>

Updating == {"ask", "join", "fetch", "answered", "reporting"}

\* The subscriber's request is about to time out: its refresh is cancelled,
\* wherever it is, and the task the cache has on record is done.
CancelUpdate(s) ==
    /\ pc[s] \in Updating
    /\ now >= deadline[s]
    /\ pc' = [t \in DOMAIN pc |->
                IF t = s THEN "idle"
                ELSE IF t \in Tasks /\ pc[t] = "join" /\ joined[t] = s
                     THEN "ask" ELSE pc[t]]
    /\ joined' = [t \in Tasks |-> IF t = s \/ joined[t] = s THEN None ELSE joined[t]]
    /\ recall' = [t \in Tasks |-> IF t = s THEN 0
                                  ELSE IF joined[t] = s THEN recall[t] + 1
                                  ELSE recall[t]]
    /\ needed' = [needed EXCEPT ![s] = 0]
    /\ got' = [got EXCEPT ![s] = NoAnswer]
    /\ fetcher' = IF fetcher = s THEN None ELSE fetcher
    /\ Forgo(s)
    /\ deadline' = [deadline EXCEPT ![s] = 0]
    /\ sees' = [sees EXCEPT ![s] = FALSE]
    /\ penalty' = [penalty EXCEPT ![s] = FALSE]
    /\ UNCHANGED <<now, device, kv, known, shown, behind>>
    /\ UNCHANGED <<failures, minWait, wait, wake, event>>
-------------------------------------------------------------------------------
(* The world.                                                              *)

\* The device shows something else; a push-driven one schedules its watchers,
\* once however often it changes before they run.  Bound: a notification that
\* still waits for the lock stands for the next one, too.
DeviceChanges ==
    /\ device' \in Values \ {device}
    /\ IF CanPush /\ pc[Pusher] # "reporting" THEN Goto(Pusher, "fire")
                                              ELSE UNCHANGED pc
    /\ UNCHANGED <<now, cacheVars, known, shown, timing, locking>>

\* The watcher calls set_change_event.
Fire ==
    /\ pc[Pusher] = "fire"
    /\ IF LockFree
       THEN /\ pc' = [Notified(pc) EXCEPT ![Pusher] = "idle"]
            /\ event' = EventAfterNotify
            /\ UNCHANGED lockq
       ELSE /\ lockq' = Append(lockq, Pusher)
            /\ Goto(Pusher, "reporting")
            /\ UNCHANGED event
    /\ UNCHANGED <<now, device, cacheVars, known, shown, lock, behind>>
    /\ UNCHANGED <<deadline, sees, failures, penalty, minWait, wait, wake>>

GrantFire ==
    /\ lock = Pusher
    /\ HandOver
    /\ pc' = [Notified(pc) EXCEPT ![Pusher] = "idle"]
    /\ event' = EventAfterNotify
    /\ UNCHANGED <<now, device, cacheVars, known, shown, behind>>
    /\ UNCHANGED <<deadline, sees, failures, penalty, minWait, wait, wake>>

Tick ==
    /\ now < MaxTime
    /\ now' = now + 1
    /\ UNCHANGED <<device, cacheVars, pc, known, shown, timing, locking>>
-------------------------------------------------------------------------------
\* What the event loop runs for a subscriber once it can.
SubscriberStep(s) ==
    \/ Deliver(s) \/ GiveUp(s) \/ LetOthersWork(s)
    \/ EnterWait(s) \/ Expire(s) \/ StartUpdate(s)
    \/ GrantEntry(s) \/ StartWait(s) \/ TimeOutWait(s) \/ TimeOutNotified(s)
    \/ Reenter(s) \/ GrantReentry(s) \/ LeaveWait(s) \/ Resume(s)
    \/ CancelUpdate(s)

CacheStep(t) == \/ AnswerFromCache(t) \/ BecomeFetcher(t) \/ Join(t)
                \/ AskAnyway(t) \/ GrantReport(t)

PushStep == Fire \/ GrantFire

\* What the loop does, and what reaches it from outside.
LoopStep == \/ \E s \in Subscribers : SubscriberStep(s)
            \/ \E t \in Tasks : CacheStep(t)
            \/ PushStep

Arrival == \/ \E s \in Subscribers : Subscribe(s)
           \/ \E r \in Readers : Read(r)
           \/ \E t \in Tasks : DeviceReads(t) \/ DeviceFails(t)
           \/ DeviceChanges

Passing == Tick \/ \E t \in Tasks : ArriveQuietly(t) \/ ArriveChanged(t)

Next == LoopStep \/ Arrival \/ Passing

Spec == Init /\ [][Next]_vars

\* No task can run: the loop waits for its timers and sockets, whether some
\* task waits for a lock that nobody gives it or not.
Blocked(t) == \/ pc[t] \in {"idle", "join", "fetch", "answered"}
              \/ pc[t] \in Queueing /\ lock # t

\* A refresh at just the tolerance is answered from the cache, and the next one
\* is due at once: the task goes round until the clock has moved on.
GoesRound(s) == /\ pc[s] = "ask" /\ recall[s] = 0
                /\ Fresh(s) /\ now >= kv.ts + FreezerTolerance(s)
                /\ ~HasNews(s)

LoopIdle ==
    /\ \A s \in Subscribers :
         \/ pc[s] = "waiting" /\ now < wake[s]
         \/ Blocked(s) /\ ~(pc[s] = "reentering" /\ event[s] /\ now >= wake[s])
         \/ GoesRound(s)
    /\ \A s \in Subscribers : pc[s] \in Updating => now < deadline[s]
    /\ \A t \in Readers \cup {Pusher} : Blocked(t)

\* A loop that is fast compared with the unit of the clock: time passes when
\* nothing is left to do but to go round.
PromptSpec == Init /\ [][LoopStep \/ Arrival \/ (LoopIdle /\ Passing)]_vars

(* asyncio runs every task that is ready and serves a lock in the order of *)
(* the requests for it, and time does not stand still, however often the   *)
(* device changes.  Nothing makes the device answer or the clients ask.    *)
(* Each of these is part of Next, so that no behaviour of the code is left *)
(* out: the loop may be as slow as it likes.                               *)
Fairness == /\ \A s \in Subscribers : WF_vars(SubscriberStep(s))
            /\ \A t \in Tasks : WF_vars(CacheStep(t))
            /\ WF_vars(PushStep)
            /\ WF_vars(Tick)

FairSpec == Spec /\ Fairness
-------------------------------------------------------------------------------
Places == {"idle", "check", "yield", "entering", "entered", "waiting", "woken",
           "reentering", "leaving", "left"} \cup Updating

TypeOK ==
    /\ now \in 0..MaxTime
    /\ device \in Values
    /\ kv \in [val : Values \cup {None}, ts : 0..MaxTime, change : 0..MaxTime]
    /\ fetcher \in Tasks \cup {None}
    /\ \A s \in Subscribers : pc[s] \in Places
    /\ \A r \in Readers : pc[r] \in Updating \cup {"idle"}
    /\ pc[Pusher] \in {"idle", "fire", "reporting"}
    /\ known \in [Subscribers -> -1..MaxTime]
    /\ failures \in [Subscribers -> 0..MaxRefreshes]
    /\ lock \in Tasks \cup {Pusher, None}
    /\ lockq \in Seq(Tasks \cup {Pusher})
    /\ behind \in [Subscribers -> Tasks \cup {Pusher, None}]

(* Tasks that miss the value at the same time cause one request to the     *)
(* device ("only one task should ask the provider and the rest should wait *)
(* and download from the cache", test_tree_cache_observatory.py:176-177):  *)
(* a second one is under way only for a task that has waited _max_recall   *)
(* times for others in vain, however fetches fail or are cancelled.        *)
InFlight(t) == pc[t] \in {"fetch", "answered", "reporting"}

SingleFlight == \A t, u \in Tasks : InFlight(t) /\ InFlight(u) =>
                    t = u \/ recall[t] >= MaxRecall \/ recall[u] >= MaxRecall

(* What a subscriber is sent is news to it: the value is younger than the  *)
(* one it received last, although readers, refreshes and notifications     *)
(* interleave and the cache reports a change before it stores it.  This    *)
(* holds on a loop that is fast compared with the unit of the clock, where *)
(* no report waits for the lock of the condition.  On a loop under load it *)
(* does not: see the run MCStaleDelivery ("assertNotEqual(response.value.v,*)
(* 6000)" for a client that knows the value,                               *)
(* test_tree_conditional_freezer.py:213).                                  *)
DeliversNews == [][ \A s \in Subscribers : known'[s] >= known[s]
                      /\ (Deliver(s) => known'[s] > known[s]) ]_vars

(* No change is missed ("the value should always be reported immediately", *)
(* test_tree_conditional_freezer.py:317-318): a client that was sent       *)
(* another value than the cache holds has a change to be told of, so that  *)
(* its next look at the cache gives it the value.  It holds, and fails, on *)
(* the same loops as DeliversNews: see MCMissedChange.cfg.                 *)
NothingMissed == \A s \in Subscribers :
                     shown[s] \notin {None, kv.val} => known[s] < kv.change

(* A request is answered before the client's own timeout, alarm_timeout    *)
(* ahead of it at the latest: no wait for a change, for the lock of the    *)
(* condition or for the fetch of another task outlasts it.                 *)
InTime == \A s \in Subscribers : pc[s] # "idle" => now <= deadline[s]

(* Every subscriber's request is answered in the end, even if the device   *)
(* never answers and notifications keep waking everybody.                  *)
EveryRequestEnds == \A s \in Subscribers : pc[s] # "idle" ~> pc[s] = "idle"

(* A waiting subscriber is woken when the value changes ("the rest of the  *)
(* clients should be awakened by the condition", and "the value should     *)
(* always be reported immediately", test_tree_conditional_freezer.py:317): *)
(* none sleeps on the condition while the cache holds a change it has not  *)
(* been sent and no notification is on its way.                            *)
NoSleepOnNews == \A s \in Subscribers :
                     pc[s] = "waiting" /\ lock = None => ~HasNews(s)

(* The cache never replaces a value by an older one ("test do not change   *)
(* value to older", test_tree_cache_observatory.py:101).                    *)
NeverOlder == [][kv'.ts >= kv.ts]_kv

(* A push-driven change wakes its subscribers at once rather than within   *)
(* the tolerance (push_wiring.py:4-6): after the notification nobody waits *)
(* out the tolerance with the state from before the change.                *)
PushIsPrompt == \A s \in Subscribers :
                    pc[s] = "waiting" /\ pc[Pusher] = "idle" => kv.val = device
===============================================================================
