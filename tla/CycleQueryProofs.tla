----------------------------- MODULE CycleQueryProofs -----------------------------
(***************************************************************************)
(* For any subscribers, readers, tolerances and limits: the cache sends    *)
(* one request at a time to the device.  A task whose request is under way *)
(* is the one the cache has on record, unless it waited for others too     *)
(* often (FetchInv); that a task which is over is taken off the record,    *)
(* and nobody else is, keeps this through failures and cancellations.      *)
(* Further down: nobody is forgotten at the lock of the condition (LockInv),*)
(* and, on a loop that is fast compared with the unit of the clock, no     *)
(* request outlives its deadline (TimeInv) and what a subscriber is sent   *)
(* is news and all of it (NewsInv).                                        *)
(***************************************************************************)
EXTENDS CycleQuery, Facts

Everybody == Tasks \cup {Pusher}

FetchInv ==
    /\ pc = [u \in Everybody |-> pc[u]]
    /\ recall \in [Tasks -> Nat]
    /\ \A t \in Tasks : InFlight(t) /\ recall[t] < MaxRecall => fetcher = t

\* Nobody comes into flight, and nobody's count of vain waits gets smaller.
Calmly ==
    /\ pc' = [u \in Everybody |-> pc'[u]]
    /\ UNCHANGED <<recall, fetcher>>
    /\ \A t \in Tasks : InFlight(t)' => InFlight(t)

\* The task t is over: it is off the record, and whoever waited for it counts
\* that.
Over(t) ==
    /\ pc' = [u \in Everybody |-> pc'[u]]
    /\ fetcher' = IF fetcher = t THEN None ELSE fetcher
    /\ ~InFlight(t)'
    /\ recall' \in [Tasks -> Nat]
    /\ \A u \in Tasks \ {t} : recall'[u] >= recall[u]
    /\ \A u \in Tasks : InFlight(u)' => InFlight(u)

\* A task waits elsewhere.
LEMMA GotoCalmly ==
    ASSUME FetchInv, NEW t \in Everybody, NEW place,
           place \in {"fetch", "answered", "reporting"} =>
               t = Pusher \/ pc[t] \in {"fetch", "answered", "reporting"},
           Goto(t, place), UNCHANGED <<recall, fetcher>>
    PROVE  Calmly
  <1>1. pc' = [u \in Everybody |-> pc'[u]]
    BY DEF Goto, FetchInv
  <1>2. ASSUME NEW u \in Tasks, InFlight(u)'
        PROVE  InFlight(u)
    <2>1. u \in Everybody /\ u # Pusher
      BY CycleAssumption DEF Everybody
    <2> QED  BY <1>2, <2>1 DEF Goto, FetchInv, InFlight
  <1> QED  BY <1>1, <1>2 DEF Calmly

\* A notification changes the places of those that wait for it.
LEMMA NotifyCalmly ==
    ASSUME FetchInv
    PROVE  /\ Notified(pc) = [u \in Everybody |-> Notified(pc)[u]]
           /\ \A t \in Everybody :
                 /\ Notified(pc)[t] \in {"fetch", "answered", "reporting"}
                        => Notified(pc)[t] = pc[t]
                 /\ Notified(pc)[t] = "join" => pc[t] = "join"
  BY DEF Notified, FetchInv

LEMMA CalmlyKeeps ==
    ASSUME FetchInv, Calmly
    PROVE  FetchInv'
  BY DEF FetchInv, Calmly

LEMMA OverKeeps ==
    ASSUME FetchInv, NEW t \in Tasks, Over(t)
    PROVE  FetchInv'
  <1>1. ASSUME NEW u \in Tasks, InFlight(u)', recall'[u] < MaxRecall
        PROVE  fetcher' = u
    <2>1. u # t /\ InFlight(u)
      BY <1>1 DEF Over
    <2>2. recall[u] < MaxRecall
      <3>1. recall'[u] >= recall[u] /\ recall[u] \in Nat /\ recall'[u] \in Nat
        BY <2>1 DEF Over, FetchInv
      <3> QED  BY <1>1, <3>1, CycleAssumption
    <2>3. fetcher = u
      BY <2>1, <2>2 DEF FetchInv
    <2> QED  BY <2>1, <2>3 DEF Over
  <1> QED  BY <1>1 DEF FetchInv, Over

\* A task that used the cache is over, with everybody where `places` says.
LEMMA FinishOver ==
    ASSUME FetchInv, NEW t \in Tasks, NEW places, places = [u \in Everybody |-> places[u]], NEW ok,
           \A u \in Tasks : places[u] \in {"fetch", "answered", "reporting"} => InFlight(u),
           Finish(t, places, ok)
    PROVE  Over(t)
  <1>1. /\ pc' = [u \in Everybody |->
                    IF u = t THEN (IF t \in Subscribers THEN "check" ELSE "idle")
                    ELSE IF u \in Tasks /\ places[u] = "join" /\ joined[u] = t
                         THEN "ask" ELSE places[u]]
        /\ recall' = [u \in Tasks |-> IF u = t THEN 0
                                      ELSE IF joined[u] = t THEN recall[u] + 1
                                      ELSE recall[u]]
        /\ fetcher' = IF fetcher = t THEN None ELSE fetcher
    BY DEF Finish
  <1>2. pc' = [u \in Everybody |-> pc'[u]]
    BY <1>1
  <1>3. \A u \in Tasks : u \in Everybody
    BY DEF Everybody
  <1>4. ~InFlight(t)'
    BY <1>1, <1>3 DEF InFlight
  <1>5. \A u \in Tasks : InFlight(u)' => InFlight(u)
    BY <1>1, <1>3 DEF InFlight
  <1>6. recall' \in [Tasks -> Nat] /\ \A u \in Tasks \ {t} : recall'[u] >= recall[u]
    BY <1>1 DEF FetchInv
  <1> QED  BY <1>1, <1>2, <1>4, <1>5, <1>6 DEF Over

\* The same when a subscriber's request runs out of time.
LEMMA CancelOver ==
    ASSUME FetchInv, NEW s \in Subscribers, CancelUpdate(s)
    PROVE  Over(s)
  <1>1. /\ pc' = [t \in Everybody |->
                    IF t = s THEN "idle"
                    ELSE IF t \in Tasks /\ pc[t] = "join" /\ joined[t] = s
                         THEN "ask" ELSE pc[t]]
        /\ recall' = [t \in Tasks |-> IF t = s THEN 0
                                      ELSE IF joined[t] = s THEN recall[t] + 1
                                      ELSE recall[t]]
        /\ fetcher' = IF fetcher = s THEN None ELSE fetcher
    BY DEF CancelUpdate, FetchInv
  <1>2. pc' = [u \in Everybody |-> pc'[u]]
    BY <1>1 DEF FetchInv
  <1>3. s \in Tasks /\ \A u \in Tasks : u \in Everybody
    BY DEF Everybody, Tasks
  <1>4. ~InFlight(s)'
    BY <1>1, <1>3 DEF InFlight
  <1>5. \A u \in Tasks : InFlight(u)' => InFlight(u)
    BY <1>1, <1>3 DEF InFlight
  <1>6. recall' \in [Tasks -> Nat] /\ \A u \in Tasks \ {s} : recall'[u] >= recall[u]
    BY <1>1 DEF FetchInv
  <1> QED  BY <1>1, <1>2, <1>4, <1>5, <1>6 DEF Over
-------------------------------------------------------------------------------
\* What a subscriber does in the freezer is no request to the device.
LEMMA FreezerSteps ==
    ASSUME FetchInv, NEW s \in Subscribers,
           \/ Subscribe(s) \/ Deliver(s) \/ GiveUp(s) \/ LetOthersWork(s)
           \/ EnterWait(s) \/ Expire(s) \/ StartUpdate(s)
           \/ GrantEntry(s) \/ StartWait(s) \/ TimeOutWait(s) \/ TimeOutNotified(s)
           \/ Reenter(s) \/ GrantReentry(s) \/ LeaveWait(s) \/ Resume(s)
    PROVE  Calmly
  <1>1. /\ \E place \in {"check", "idle", "yield", "ask", "entered", "entering",
                         "waiting", "woken", "leaving", "reentering", "left"} :
              Goto(s, place)
        /\ UNCHANGED <<recall, fetcher>>
    <2>1. CASE Subscribe(s) \/ Deliver(s) \/ GiveUp(s) \/ LetOthersWork(s)
      BY <2>1 DEF Subscribe, Deliver, GiveUp, LetOthersWork, Answer, cacheVars
    <2>2. CASE EnterWait(s) \/ Expire(s) \/ StartUpdate(s) \/ GrantEntry(s)
      BY <2>2 DEF EnterWait, Expire, StartUpdate, GrantEntry, Answer, cacheVars
    <2>3. CASE \/ StartWait(s) \/ TimeOutWait(s) \/ TimeOutNotified(s) \/ Reenter(s)
               \/ GrantReentry(s) \/ LeaveWait(s) \/ Resume(s)
      BY <2>3 DEF StartWait, TimeOutWait, TimeOutNotified, Reenter, GrantReentry,
                  LeaveWait, Resume, cacheVars
    <2> QED  BY <2>1, <2>2, <2>3
  <1>2. s \in Everybody
    BY DEF Everybody, Tasks
  <1> QED  BY <1>1, <1>2, GotoCalmly

\* The cache, and the answers of the device.
LEMMA CacheSteps ==
    ASSUME FetchInv, NEW t \in Tasks,
           \/ AnswerFromCache(t) \/ BecomeFetcher(t) \/ Join(t) \/ AskAnyway(t)
           \/ GrantReport(t) \/ DeviceReads(t) \/ DeviceFails(t)
           \/ ArriveQuietly(t) \/ ArriveChanged(t)
    PROVE  FetchInv'
  <1> t \in Everybody
    BY DEF Everybody
  <1> DEFINE quiet == Notified(pc)
  <1>0. /\ pc = [u \in Everybody |-> pc[u]]
        /\ quiet = [u \in Everybody |-> quiet[u]]
        /\ \A u \in Tasks : pc[u] \in {"fetch", "answered", "reporting"} => InFlight(u)
        /\ \A u \in Tasks : quiet[u] \in {"fetch", "answered", "reporting"} => InFlight(u)
    BY NotifyCalmly DEF FetchInv, InFlight, Everybody
  <1> HIDE DEF quiet
  <1>1. CASE Finish(t, pc, TRUE) \/ Finish(t, pc, FALSE)
    BY <1>0, <1>1, FinishOver, OverKeeps
  <1>2. CASE Finish(t, Notified(pc), TRUE)
    <2>1. Finish(t, quiet, TRUE)
      BY <1>2 DEF quiet
    <2> QED  BY <1>0, <2>1, FinishOver, OverKeeps
  <1>3. CASE BecomeFetcher(t)
    <2>1. /\ fetcher = None /\ fetcher' = t /\ recall' = recall
          /\ pc' = [pc EXCEPT ![t] = "fetch"]
      BY <1>3 DEF BecomeFetcher, NobodyElseFetches, Goto
    <2>2. \A u \in Tasks : u # None /\ u \in Everybody
      BY CycleAssumption DEF Everybody
    <2>3. ASSUME NEW u \in Tasks, InFlight(u)', recall[u] < MaxRecall
          PROVE  u = t
      BY <2>1, <2>2, <2>3 DEF FetchInv, InFlight
    <2> QED  BY <2>1, <2>3 DEF FetchInv
  <1>4. CASE AskAnyway(t)
    <2>1. /\ recall[t] >= MaxRecall /\ recall' = recall /\ fetcher' = fetcher
          /\ pc' = [pc EXCEPT ![t] = "fetch"]
      BY <1>4 DEF AskAnyway, cacheVars, Goto
    <2>2. ~(recall[t] < MaxRecall)
      BY <2>1, CycleAssumption DEF FetchInv
    <2>3. \A u \in Tasks : u \in Everybody
      BY DEF Everybody
    <2> QED  BY <2>1, <2>2, <2>3 DEF FetchInv, InFlight
  <1>5. CASE Join(t) \/ DeviceReads(t)
    <2>1. \/ Goto(t, "join")
          \/ Goto(t, "answered") /\ pc[t] = "fetch"
      BY <1>5 DEF Join, DeviceReads
    <2>2. UNCHANGED <<recall, fetcher>>
      BY <1>5 DEF Join, DeviceReads
    <2> QED  BY <2>1, <2>2, GotoCalmly, CalmlyKeeps
  <1>6. CASE Goto(t, "reporting") /\ pc[t] = "answered" /\ UNCHANGED <<recall, fetcher>>
    BY <1>6, GotoCalmly, CalmlyKeeps
  <1>7. CASE \/ AnswerFromCache(t) \/ GrantReport(t) \/ DeviceFails(t)
             \/ ArriveQuietly(t) \/ ArriveChanged(t)
    BY <1>1, <1>2, <1>6, <1>7
       DEF AnswerFromCache, GrantReport, DeviceFails, ArriveQuietly, ArriveChanged
  <1> QED  BY <1>3, <1>4, <1>5, <1>7

\* The device and the pusher.
LEMMA WorldSteps ==
    ASSUME FetchInv, DeviceChanges \/ PushStep
    PROVE  Calmly
  <1> Pusher \in Everybody
    BY DEF Everybody
  <1>1. CASE UNCHANGED pc /\ UNCHANGED <<recall, fetcher>>
    BY <1>1 DEF FetchInv, Calmly, InFlight
  <1>2. CASE /\ Goto(Pusher, "fire") \/ Goto(Pusher, "reporting")
             /\ UNCHANGED <<recall, fetcher>>
    BY <1>2, GotoCalmly
  <1>3. CASE /\ pc' = [Notified(pc) EXCEPT ![Pusher] = "idle"]
             /\ UNCHANGED <<recall, fetcher>>
    <2> DEFINE quiet == Notified(pc)
    <2>1. /\ quiet = [u \in Everybody |-> quiet[u]]
          /\ \A u \in Everybody : quiet[u] \in {"fetch", "answered", "reporting"}
                                      => quiet[u] = pc[u]
      BY NotifyCalmly
    <2> HIDE DEF quiet
    <2>2. pc' = [quiet EXCEPT ![Pusher] = "idle"]
      BY <1>3 DEF quiet
    <2>3. \A u \in Tasks : u \in Everybody /\ u # Pusher
      BY CycleAssumption DEF Everybody
    <2>4. pc' = [u \in Everybody |-> pc'[u]]
      BY <2>1, <2>2
    <2>5. \A u \in Tasks : pc'[u] = quiet[u]
      BY <2>1, <2>2, <2>3
    <2> QED  BY <1>3, <2>1, <2>3, <2>4, <2>5 DEF Calmly, InFlight
  <1> QED
    BY <1>1, <1>2, <1>3 DEF DeviceChanges, PushStep, Fire, GrantFire, cacheVars

\* Whoever asks the device is the one on record, or waited in vain: however
\* refreshes fail, are cancelled or overtaken by notifications, the cache has
\* one request under way.
THEOREM OneFetchAtATime == Spec => []SingleFlight
  <1>1. Init => FetchInv
    <2> SUFFICES ASSUME Init
                 PROVE  FetchInv
      OBVIOUS
    <2>1. pc = [u \in Everybody |-> pc[u]] /\ recall \in [Tasks -> Nat]
      BY DEF Init, Everybody
    <2>2. \A t \in Tasks : ~InFlight(t)
      BY DEF Init, InFlight
    <2> QED  BY <2>1, <2>2 DEF FetchInv
  <1>2. FetchInv /\ [Next]_vars => FetchInv'
    <2> SUFFICES ASSUME FetchInv, [Next]_vars
                 PROVE  FetchInv'
      OBVIOUS
    <2>1. ASSUME NEW s \in Subscribers, Subscribe(s) \/ SubscriberStep(s)
          PROVE  FetchInv'
      <3>1. s \in Tasks
        BY DEF Tasks
      <3>2. CASE CancelUpdate(s)
        BY <3>1, <3>2, CancelOver, OverKeeps
      <3>3. CASE ~CancelUpdate(s)
        BY <2>1, <3>3, FreezerSteps, CalmlyKeeps DEF SubscriberStep
      <3> QED  BY <3>2, <3>3
    <2>2. ASSUME NEW t \in Tasks,
                 \/ CacheStep(t) \/ DeviceReads(t) \/ DeviceFails(t)
                 \/ ArriveQuietly(t) \/ ArriveChanged(t)
          PROVE  FetchInv'
      BY <2>2, CacheSteps DEF CacheStep
    <2>3. ASSUME NEW r \in Readers, Read(r)
          PROVE  FetchInv'
      <3>1. r \in Everybody
        BY DEF Everybody, Tasks
      <3> QED  BY <2>3, <3>1, GotoCalmly, CalmlyKeeps DEF Read
    <2>4. CASE DeviceChanges \/ PushStep
      BY <2>4, WorldSteps, CalmlyKeeps
    <2>5. CASE Tick \/ UNCHANGED vars
      BY <2>5 DEF Tick, vars, cacheVars, FetchInv, InFlight
    <2> QED
      BY <2>1, <2>2, <2>3, <2>4, <2>5 DEF Next, LoopStep, Arrival, Passing
  <1>3. FetchInv => SingleFlight
    <2> SUFFICES ASSUME FetchInv, NEW t \in Tasks, NEW u \in Tasks,
                        InFlight(t), InFlight(u), t # u
                 PROVE  recall[t] >= MaxRecall \/ recall[u] >= MaxRecall
      BY DEF SingleFlight
    <2>1. ~(recall[t] < MaxRecall) \/ ~(recall[u] < MaxRecall)
      BY DEF FetchInv
    <2> QED  BY <2>1, CycleAssumption DEF FetchInv
  <1> QED  BY <1>1, <1>2, <1>3, PTL DEF Spec
-------------------------------------------------------------------------------
(* The lock of the condition.                                              *)

Holding == {"entered", "leaving"}

Pushing == {"idle", "fire", "reporting"}

\* What a task at some place has to do with the lock.
Stake(place) == IF place \in Queueing THEN "queues"
                ELSE IF place \in Holding THEN "holds" ELSE "none"

\* Whoever has the lock knows it or is about to be told; whoever waits for it
\* stands in the queue, once; nobody waits for a lock that nobody has.
LockInv ==
    /\ pc = [u \in Everybody |-> pc[u]] /\ pc[Pusher] \in Pushing
    /\ lock \in Everybody \cup {None}
    /\ lockq \in Seq(Everybody) /\ IsInjective(lockq)
    /\ lock \notin ToSet(lockq)
    /\ lock = None => lockq = <<>>
    /\ \A u \in Everybody :
         /\ u = lock => Stake(pc[u]) # "none"
         /\ u \in ToSet(lockq) => Stake(pc[u]) = "queues"
         /\ Stake(pc[u]) = "queues" => u = lock \/ u \in ToSet(lockq)
         /\ Stake(pc[u]) = "holds" => u = lock

\* Apart from the task t, everybody has the same stake in the lock as before.
OthersKeep(t) ==
    /\ pc' = [u \in Everybody |-> pc'[u]] /\ pc'[Pusher] \in Pushing
    /\ \A u \in Everybody \ {t} : Stake(pc'[u]) = Stake(pc[u])

\* The lock is what it was.
LEMMA LockStays ==
    ASSUME LockInv, NEW t \in Everybody, OthersKeep(t), UNCHANGED <<lock, lockq>>,
           \/ Stake(pc'[t]) = Stake(pc[t])
           \/ t = lock /\ Stake(pc'[t]) # "none"
    PROVE  LockInv'
  BY DEF LockInv, OthersKeep

\* Nobody had it.
LEMMA LockTaken ==
    ASSUME LockInv, NEW t \in Everybody, OthersKeep(t), LockFree, lock' = t, UNCHANGED lockq,
           Stake(pc'[t]) = "holds"
    PROVE  LockInv'
  <1>1. lock = None /\ lockq = <<>> /\ ToSet(lockq) = {}
    BY DEF LockInv, LockFree, ToSet
  <1>2. t # None
    BY CycleAssumption DEF Everybody
  <1>3. None \notin Everybody
    BY CycleAssumption DEF Everybody
  <1> QED  BY <1>1, <1>2, <1>3 DEF LockInv, OthersKeep

\* Somebody has it.
LEMMA LockQueued ==
    ASSUME LockInv, NEW t \in Everybody, OthersKeep(t), ~LockFree, Stake(pc[t]) = "none",
           lockq' = Append(lockq, t), UNCHANGED lock, Stake(pc'[t]) = "queues"
    PROVE  LockInv'
  <1>1. t # lock /\ t \notin ToSet(lockq)
    BY DEF LockInv, Stake
  <1>2. /\ lockq' \in Seq(Everybody) /\ IsInjective(lockq')
        /\ ToSet(lockq') = ToSet(lockq) \cup {t}
    BY <1>1, AppendToList DEF LockInv
  <1>3. lock # None
    BY DEF LockFree
  <1> HIDE DEF Stake
  <1> QED  BY <1>1, <1>2, <1>3 DEF LockInv, OthersKeep

\* The one that has it gives it to the next.
LEMMA LockReleased ==
    ASSUME LockInv, NEW t \in Everybody, OthersKeep(t), t = lock, HandOver,
           Stake(pc'[t]) = "none"
    PROVE  LockInv'
  <1>1. CASE lockq = <<>>
    <2>1. lock' = None /\ lockq' = <<>> /\ ToSet(lockq) = {} /\ lockq' = lockq
      BY <1>1 DEF HandOver, Heir, ToSet
    <2>2. None \notin Everybody
      BY CycleAssumption DEF Everybody
    <2> QED  BY <2>1, <2>2 DEF LockInv, OthersKeep
  <1>2. CASE lockq # <<>>
    <2> DEFINE h == Head(lockq)
    <2>1. lock' = h /\ lockq' = Tail(lockq)
      BY <1>2 DEF HandOver, Heir
    <2>2. /\ lockq' \in Seq(Everybody) /\ IsInjective(lockq')
          /\ ToSet(lockq') = ToSet(lockq) \ {h}
      BY <1>2, <2>1, TailOfList DEF LockInv
    <2>3. h \in ToSet(lockq) /\ h \in Everybody
      BY <1>2 DEF LockInv, ToSet
    <2>4. h # t /\ h # None
      BY <2>3, CycleAssumption DEF LockInv, Everybody
    <2> HIDE DEF h
    <2> QED  BY <2>1, <2>2, <2>3, <2>4 DEF LockInv, OthersKeep
  <1> QED  BY <1>1, <1>2

\* A task that does not have it waits for it no more.
LEMMA LockForgone ==
    ASSUME LockInv, NEW t \in Everybody, OthersKeep(t), t # lock,
           lockq' = RemoveFirst(lockq, t), UNCHANGED lock, Stake(pc'[t]) = "none"
    PROVE  LockInv'
  <1>1. /\ lockq' \in Seq(Everybody) /\ IsInjective(lockq')
        /\ ToSet(lockq') = ToSet(lockq) \ {t}
    BY RemoveFromList DEF LockInv
  <1>2. lock = None => lockq' = <<>>
    <2>1. ASSUME lock = None
          PROVE  lockq' = <<>>
      <3>1. ToSet(lockq) = {}
        BY <2>1 DEF LockInv, ToSet
      <3>2. lockq' # <<>> => lockq'[1] \in ToSet(lockq')
        BY <1>1 DEF ToSet
      <3> QED  BY <1>1, <3>1, <3>2
    <2> QED  BY <2>1
  <1> QED  BY <1>1, <1>2 DEF LockInv, OthersKeep

\* Whether it has it or waits for it.
LEMMA LockGivenUp ==
    ASSUME LockInv, NEW t \in Everybody, OthersKeep(t), Forgo(t), Stake(pc'[t]) = "none"
    PROVE  LockInv'
  <1>1. CASE lock = t
    BY <1>1, LockReleased DEF Forgo
  <1>2. CASE lock # t
    BY <1>2, LockForgone DEF Forgo
  <1> QED  BY <1>1, <1>2

\* A task waits elsewhere.
LEMMA GotoOthers ==
    ASSUME pc = [u \in Everybody |-> pc[u]], pc[Pusher] \in Pushing,
           NEW t \in Everybody, NEW place, t = Pusher => place \in Pushing, Goto(t, place)
    PROVE  OthersKeep(t) /\ pc'[t] = place
  <1>1. Pusher \in Everybody
    BY DEF Everybody
  <1> QED  BY <1>1 DEF Goto, OthersKeep

\* A notification takes nobody the lock or the place in the queue.
LEMMA NotifyStakes ==
    ASSUME pc = [u \in Everybody |-> pc[u]], pc[Pusher] \in Pushing
    PROVE  /\ Notified(pc) = [u \in Everybody |-> Notified(pc)[u]]
           /\ Notified(pc)[Pusher] = pc[Pusher]
           /\ \A u \in Everybody : Stake(Notified(pc)[u]) = Stake(pc[u])
  BY DEF Notified, Stake, Queueing, Holding, Pushing, Everybody

\* Nor does a task that is over.
LEMMA FinishStakes ==
    ASSUME NEW t \in Tasks, NEW places, places = [u \in Everybody |-> places[u]], NEW ok,
           places[Pusher] \in Pushing, \A u \in Everybody : Stake(places[u]) = Stake(pc[u]),
           Finish(t, places, ok)
    PROVE  OthersKeep(t) /\ Stake(pc'[t]) = "none"
  <1>1. pc' = [u \in Everybody |->
                    IF u = t THEN (IF t \in Subscribers THEN "check" ELSE "idle")
                    ELSE IF u \in Tasks /\ places[u] = "join" /\ joined[u] = t
                         THEN "ask" ELSE places[u]]
    BY DEF Finish
  <1>2. Stake("check") = "none" /\ Stake("idle") = "none" /\ Stake("ask") = "none"
        /\ Stake("join") = "none"
    BY DEF Stake, Queueing, Holding
  <1>3. t \in Everybody /\ Pusher \in Everybody /\ Pusher \notin Tasks
    BY CycleAssumption DEF Everybody
  <1>4. pc' = [u \in Everybody |-> pc'[u]] /\ pc'[Pusher] \in Pushing
    BY <1>1, <1>3
  <1>5. Stake(pc'[t]) = "none"
    BY <1>1, <1>2, <1>3
  <1>6. ASSUME NEW u \in Everybody, u # t
        PROVE  Stake(pc'[u]) = Stake(pc[u])
    <2>1. CASE u \in Tasks /\ places[u] = "join" /\ joined[u] = t
      BY <1>1, <1>2, <1>6, <2>1
    <2>2. CASE ~(u \in Tasks /\ places[u] = "join" /\ joined[u] = t)
      BY <1>1, <1>6, <2>2
    <2> QED  BY <2>1, <2>2
  <1> QED  BY <1>4, <1>5, <1>6 DEF OthersKeep

LEMMA FreezerLocks ==
    ASSUME LockInv, NEW s \in Subscribers, Subscribe(s) \/ SubscriberStep(s)
    PROVE  LockInv'
  <1>0. /\ s \in Everybody /\ s # Pusher
        /\ pc = [u \in Everybody |-> pc[u]] /\ pc[Pusher] \in Pushing /\ Pusher \in Everybody
    BY CycleAssumption DEF Everybody, Tasks, LockInv
  <1>1. CASE \/ Subscribe(s) \/ Deliver(s) \/ GiveUp(s) \/ LetOthersWork(s)
             \/ Expire(s) \/ StartUpdate(s) \/ TimeOutWait(s) \/ Resume(s)
    <2>1. PICK place \in {"check", "idle", "yield", "ask", "woken"} : Goto(s, place)
      BY <1>1 DEF Subscribe, Deliver, GiveUp, LetOthersWork, Expire, StartUpdate, TimeOutWait,
                  Resume, Answer
    <2>2. /\ UNCHANGED <<lock, lockq>>
          /\ pc[s] \in {"idle", "check", "yield", "waiting", "left"}
      BY <1>1 DEF Subscribe, Deliver, GiveUp, LetOthersWork, Expire, StartUpdate, TimeOutWait,
                  Resume, locking
    <2>3. Stake(pc[s]) = "none" /\ Stake(place) = "none"
      BY <2>2 DEF Stake, Queueing, Holding
    <2> QED  BY <1>0, <2>1, <2>2, <2>3, GotoOthers, LockStays
  <1>2. CASE EnterWait(s) \/ Reenter(s)
    <2>1. Stake(pc[s]) = "none"
      BY <1>2 DEF EnterWait, Reenter, Stake, Queueing, Holding
    <2>2. \/ /\ LockFree /\ lock' = s /\ UNCHANGED lockq
             /\ Goto(s, "entered") \/ Goto(s, "leaving")
          \/ /\ ~LockFree /\ lockq' = Append(lockq, s) /\ UNCHANGED lock
             /\ Goto(s, "entering") \/ Goto(s, "reentering")
      BY <1>2 DEF EnterWait, Reenter
    <2>3. /\ Stake("entered") = "holds" /\ Stake("leaving") = "holds"
          /\ Stake("entering") = "queues" /\ Stake("reentering") = "queues"
      BY DEF Stake, Queueing, Holding
    <2> QED  BY <1>0, <2>1, <2>2, <2>3, GotoOthers, LockTaken, LockQueued
  <1>3. CASE GrantEntry(s) \/ GrantReentry(s)
    <2>1. /\ lock = s /\ UNCHANGED <<lock, lockq>>
          /\ Goto(s, "entered") \/ Goto(s, "leaving")
      BY <1>3 DEF GrantEntry, GrantReentry, locking
    <2>2. Stake("entered") # "none" /\ Stake("leaving") # "none"
      BY DEF Stake, Queueing, Holding
    <2> QED  BY <1>0, <2>1, <2>2, GotoOthers, LockStays
  <1>4. CASE StartWait(s) \/ LeaveWait(s)
    <2>1. /\ HandOver
          /\ Goto(s, "waiting") \/ Goto(s, "left")
          /\ pc[s] \in {"entered", "leaving"}
      BY <1>4 DEF StartWait, LeaveWait
    <2>2. Stake("waiting") = "none" /\ Stake("left") = "none" /\ Stake(pc[s]) = "holds"
      BY <2>1 DEF Stake, Queueing, Holding
    <2>3. s = lock
      BY <1>0, <2>2 DEF LockInv
    <2> QED  BY <1>0, <2>1, <2>2, <2>3, GotoOthers, LockReleased
  <1>5. CASE TimeOutNotified(s)
    <2>1. Forgo(s) /\ Goto(s, "woken")
      BY <1>5 DEF TimeOutNotified
    <2>2. Stake("woken") = "none"
      BY DEF Stake, Queueing, Holding
    <2> QED  BY <1>0, <2>1, <2>2, GotoOthers, LockGivenUp
  <1>6. CASE CancelUpdate(s)
    <2>1. /\ Forgo(s)
          /\ pc' = [t \in Everybody |->
                      IF t = s THEN "idle"
                      ELSE IF t \in Tasks /\ pc[t] = "join" /\ joined[t] = s
                           THEN "ask" ELSE pc[t]]
      BY <1>0, <1>6 DEF CancelUpdate
    <2>2. Stake("idle") = "none" /\ Stake("ask") = "none" /\ Stake("join") = "none"
      BY DEF Stake, Queueing, Holding
    <2>3. OthersKeep(s) /\ Stake(pc'[s]) = "none"
      <3>1. Pusher \notin Tasks
        BY CycleAssumption
      <3> QED  BY <1>0, <2>1, <2>2, <3>1 DEF OthersKeep
    <2> QED  BY <1>0, <2>1, <2>3, LockGivenUp
  <1> QED
    BY <1>1, <1>2, <1>3, <1>4, <1>5, <1>6 DEF SubscriberStep

LEMMA CacheLocks ==
    ASSUME LockInv, NEW t \in Tasks,
           \/ CacheStep(t) \/ DeviceReads(t) \/ DeviceFails(t)
           \/ ArriveQuietly(t) \/ ArriveChanged(t)
    PROVE  LockInv'
  <1>0. /\ t \in Everybody /\ t # Pusher
        /\ pc = [u \in Everybody |-> pc[u]] /\ pc[Pusher] \in Pushing
    BY CycleAssumption DEF Everybody, Tasks, LockInv
  <1> DEFINE quiet == Notified(pc)
  <1>1. /\ quiet = [u \in Everybody |-> quiet[u]] /\ quiet[Pusher] \in Pushing
        /\ \A u \in Everybody : Stake(quiet[u]) = Stake(pc[u])
    BY <1>0, NotifyStakes
  <1>2. ASSUME Finish(t, pc, TRUE) \/ Finish(t, pc, FALSE) \/ Finish(t, quiet, TRUE)
        PROVE  OthersKeep(t) /\ Stake(pc'[t]) = "none"
    <2> HIDE DEF quiet
    <2> QED  BY <1>0, <1>1, <1>2, FinishStakes
  <1>3. CASE BecomeFetcher(t) \/ Join(t) \/ AskAnyway(t) \/ DeviceReads(t)
    <2>1. PICK place \in {"fetch", "join", "answered"} : Goto(t, place)
      BY <1>3 DEF BecomeFetcher, Join, AskAnyway, DeviceReads
    <2>2. UNCHANGED <<lock, lockq>> /\ pc[t] \in {"ask", "fetch"}
      BY <1>3 DEF BecomeFetcher, Join, AskAnyway, DeviceReads, locking
    <2>3. Stake(pc[t]) = "none" /\ Stake(place) = "none"
      BY <2>2 DEF Stake, Queueing, Holding
    <2> QED  BY <1>0, <2>1, <2>2, <2>3, GotoOthers, LockStays
  <1>4. CASE GrantReport(t)
    <2>1. lock = t /\ HandOver /\ Finish(t, quiet, TRUE)
      BY <1>4 DEF GrantReport
    <2> QED  BY <1>0, <1>2, <2>1, LockReleased
  <1>5. CASE \/ AnswerFromCache(t) \/ DeviceFails(t) \/ ArriveQuietly(t)
             \/ ArriveChanged(t) /\ LockFree
    <2>1. /\ Finish(t, pc, TRUE) \/ Finish(t, pc, FALSE) \/ Finish(t, quiet, TRUE)
          /\ UNCHANGED <<lock, lockq>> /\ pc[t] \in {"ask", "fetch", "answered"}
      BY <1>5 DEF AnswerFromCache, DeviceFails, ArriveQuietly, ArriveChanged, locking
    <2>2. Stake(pc[t]) = "none"
      BY <2>1 DEF Stake, Queueing, Holding
    <2>3. OthersKeep(t) /\ Stake(pc'[t]) = "none"
      BY <1>2, <2>1
    <2> QED  BY <1>0, <2>1, <2>2, <2>3, LockStays
  <1>6. CASE ArriveChanged(t) /\ ~LockFree
    <2>1. pc[t] = "answered" /\ lockq' = Append(lockq, t) /\ Goto(t, "reporting") /\ UNCHANGED lock
      BY <1>6 DEF ArriveChanged
    <2>2. Stake("answered") = "none" /\ Stake("reporting") = "queues"
      BY DEF Stake, Queueing, Holding
    <2> QED  BY <1>0, <1>6, <2>1, <2>2, GotoOthers, LockQueued
  <1> QED  BY <1>3, <1>4, <1>5, <1>6 DEF CacheStep

LEMMA WorldLocks ==
    ASSUME LockInv, DeviceChanges \/ PushStep \/ Tick \/ (\E r \in Readers : Read(r))
                    \/ UNCHANGED vars
    PROVE  LockInv'
  <1>0. /\ Pusher \in Everybody /\ pc = [u \in Everybody |-> pc[u]] /\ pc[Pusher] \in Pushing
        /\ \A r \in Readers : r \in Everybody /\ r # Pusher
    BY CycleAssumption DEF Everybody, Tasks, LockInv
  <1>1. /\ Stake("idle") = "none" /\ Stake("ask") = "none" /\ Stake("fire") = "none"
        /\ Stake("reporting") = "queues"
    BY DEF Stake, Queueing, Holding
  <1>2. CASE UNCHANGED <<pc, lock, lockq>>
    BY <1>2 DEF LockInv
  <1>3. ASSUME NEW r \in Readers, Read(r)
        PROVE  LockInv'
    <2>1. pc[r] = "idle" /\ Goto(r, "ask") /\ UNCHANGED <<lock, lockq>>
      BY <1>3 DEF Read, locking
    <2> QED  BY <1>0, <1>1, <2>1, GotoOthers, LockStays
  <1>4. CASE DeviceChanges /\ pc' # pc
    <2>1. /\ pc[Pusher] # "reporting" /\ Goto(Pusher, "fire") /\ UNCHANGED <<lock, lockq>>
      BY <1>4 DEF DeviceChanges, locking
    <2>2. Stake(pc[Pusher]) = "none"
      BY <1>0, <1>1, <2>1 DEF Pushing
    <2>3. OthersKeep(Pusher) /\ pc'[Pusher] = "fire"
      BY <1>0, <2>1, GotoOthers DEF Pushing
    <2> QED  BY <1>0, <1>1, <2>1, <2>2, <2>3, LockStays
  <1>5. CASE Fire /\ ~LockFree
    <2>1. /\ pc[Pusher] = "fire" /\ lockq' = Append(lockq, Pusher) /\ UNCHANGED lock
          /\ Goto(Pusher, "reporting")
      BY <1>5 DEF Fire
    <2>2. OthersKeep(Pusher) /\ pc'[Pusher] = "reporting"
      BY <1>0, <2>1, GotoOthers DEF Pushing
    <2> QED  BY <1>0, <1>1, <1>5, <2>1, <2>2, LockQueued
  <1>6. CASE GrantFire \/ (Fire /\ LockFree)
    <2> DEFINE quiet == Notified(pc)
    <2>1. /\ quiet = [u \in Everybody |-> quiet[u]]
          /\ \A u \in Everybody : Stake(quiet[u]) = Stake(pc[u])
      BY <1>0, NotifyStakes
    <2>2. pc' = [quiet EXCEPT ![Pusher] = "idle"]
      BY <1>6 DEF Fire, GrantFire
    <2> HIDE DEF quiet
    <2>3. OthersKeep(Pusher) /\ Stake(pc'[Pusher]) = "none"
      BY <1>0, <1>1, <2>1, <2>2 DEF OthersKeep, Pushing
    <2>4. CASE GrantFire
      BY <1>0, <2>3, <2>4, LockReleased DEF GrantFire
    <2>5. CASE Fire /\ LockFree
      <3>1. pc[Pusher] = "fire" /\ UNCHANGED <<lock, lockq>>
        BY <2>5 DEF Fire
      <3> QED  BY <1>0, <1>1, <2>3, <3>1, LockStays
    <2> QED  BY <1>6, <2>4, <2>5
  <1> QED
    BY <1>2, <1>3, <1>4, <1>5, <1>6 DEF DeviceChanges, PushStep, Tick, vars, locking

LEMMA LockStep ==
    ASSUME LockInv, [Next]_vars
    PROVE  LockInv'
  <1>1. ASSUME NEW t \in Tasks, DeviceReads(t) \/ DeviceFails(t)
        PROVE  LockInv'
    BY <1>1, CacheLocks
  <1>2. ASSUME NEW t \in Tasks, ArriveQuietly(t) \/ ArriveChanged(t)
        PROVE  LockInv'
    BY <1>2, CacheLocks
  <1>3. CASE LoopStep
    BY <1>3, FreezerLocks, CacheLocks, WorldLocks DEF LoopStep
  <1>4. CASE Arrival
    BY <1>1, <1>4, FreezerLocks, WorldLocks DEF Arrival
  <1>5. CASE Passing \/ UNCHANGED vars
    BY <1>2, <1>5, WorldLocks DEF Passing
  <1> QED  BY <1>3, <1>4, <1>5 DEF Next

LEMMA LockInit ==
    ASSUME Init
    PROVE  LockInv
  <1>1. /\ pc = [u \in Everybody |-> "idle"]
        /\ \A u \in Everybody : pc[u] = "idle"
        /\ lock = None /\ lockq = <<>>
    BY DEF Init, Everybody
  <1>2. Stake("idle") = "none"
    BY DEF Stake, Queueing, Holding
  <1>3. <<>> \in Seq(Everybody) /\ IsInjective(<<>>) /\ ToSet(<<>>) = {}
    BY DEF IsInjective, ToSet
  <1>4. None \notin Everybody /\ Pusher \in Everybody
    BY CycleAssumption DEF Everybody
  <1> QED  BY <1>1, <1>2, <1>3, <1>4 DEF LockInv, Pushing

\* asyncio.Lock under notifications, time-outs and cancellations: nobody waits for a lock
\* that nobody has, nobody stands in its queue twice, and whoever has it knows or is
\* about to be told.
THEOREM LockIsNeverLost == Spec => []LockInv
  <1>1. Init => LockInv
    BY LockInit
  <1>2. LockInv /\ [Next]_vars => LockInv'
    BY LockStep
  <1> QED  BY <1>1, <1>2, PTL DEF Spec
-------------------------------------------------------------------------------
(* The types, and the count of failed refreshes.                           *)

\* A subscriber in the waiting logic has refreshes left to fail, and answers
\* under way are data the device gave.
TypeInv ==
    /\ TypeOK
    /\ got \in [Tasks -> [val : Values \cup {None}, ts : 0 .. MaxTime]]
    /\ \A s \in Subscribers : pc[s] \notin {"idle", "check"} => failures[s] < MaxRefreshes


Data == [val : Values \cup {None}, ts : 0 .. MaxTime]

\* Where a task may be.
Allowed(u, place) ==
    /\ u \in Subscribers => place \in Places
    /\ u \in Readers => place \in Updating \cup {"idle"}
    /\ u = Pusher => place \in Pushing

\* The parts of it: where the tasks are, what the freezer counts, and the rest.
PlacesInv == \A u \in Everybody : Allowed(u, pc[u])

CountInv ==
    /\ failures \in [Subscribers -> 0 .. MaxRefreshes]
    /\ \A s \in Subscribers : pc[s] \notin {"idle", "check"} => failures[s] < MaxRefreshes

DataInv ==
    /\ now \in 0 .. MaxTime
    /\ device \in Values
    /\ kv \in [val : Values \cup {None}, ts : 0 .. MaxTime, change : 0 .. MaxTime]
    /\ fetcher \in Tasks \cup {None}
    /\ got \in [Tasks -> Data]
    /\ known \in [Subscribers -> -1 .. MaxTime]
    /\ behind \in [Subscribers -> Everybody \cup {None}]

LEMMA TypeParts ==
    ASSUME LockInv
    PROVE  TypeInv <=> PlacesInv /\ CountInv /\ DataInv
  <1>1. /\ \A u \in Everybody : u \in Subscribers \/ u \in Readers \/ u = Pusher
        /\ Subscribers \subseteq Everybody /\ Readers \subseteq Everybody /\ Pusher \in Everybody
        /\ Everybody = Tasks \cup {Pusher} /\ Everybody \cup {None} = Tasks \cup {Pusher, None}
    BY DEF Everybody, Tasks
  <1>2. PlacesInv <=> /\ \A s \in Subscribers : pc[s] \in Places
                      /\ \A r \in Readers : pc[r] \in Updating \cup {"idle"}
                      /\ pc[Pusher] \in {"idle", "fire", "reporting"}
    BY <1>1 DEF PlacesInv, Allowed, Pushing
  <1>3. lock \in Tasks \cup {Pusher, None} /\ lockq \in Seq(Tasks \cup {Pusher})
    BY <1>1 DEF LockInv
  <1> QED  BY <1>1, <1>2, <1>3 DEF TypeInv, TypeOK, CountInv, DataInv, Data

\* A task goes to a place it may be at.
LEMMA GotoPlaces ==
    ASSUME LockInv, PlacesInv, NEW t \in Everybody, NEW place, Allowed(t, place), Goto(t, place)
    PROVE  PlacesInv'
  BY DEF LockInv, PlacesInv, Goto, Allowed

\* A task is over: those that waited for it look again.
LEMMA FinishPlaces ==
    ASSUME NEW t \in Tasks, NEW places, places = [u \in Everybody |-> places[u]], NEW ok,
           \A u \in Everybody : Allowed(u, places[u]), Finish(t, places, ok)
    PROVE  PlacesInv'
  <1>1. pc' = [u \in Everybody |->
                    IF u = t THEN (IF t \in Subscribers THEN "check" ELSE "idle")
                    ELSE IF u \in Tasks /\ places[u] = "join" /\ joined[u] = t
                         THEN "ask" ELSE places[u]]
    BY DEF Finish
  <1>2. \A u \in Tasks : Allowed(u, "ask") /\ Allowed(u, "idle") /\ (u \in Subscribers => Allowed(u, "check"))
    BY CycleAssumption DEF Allowed, Places, Updating, Tasks
  <1> HIDE DEF Allowed
  <1> QED  BY <1>1, <1>2 DEF PlacesInv

LEMMA NotifyPlaces ==
    ASSUME LockInv, PlacesInv
    PROVE  \A u \in Everybody : Allowed(u, Notified(pc)[u])
  <1> TAKE u \in Everybody
  <1>1. Notified(pc)[u] = IF pc[u] = "waiting" THEN "woken" ELSE pc[u]
    BY DEF Notified, LockInv
  <1> QED  BY <1>1 DEF PlacesInv, Allowed, Places, Updating, Pushing

LEMMA FreezerTypes ==
    ASSUME LockInv, PlacesInv, CountInv, DataInv, NEW s \in Subscribers,
           Subscribe(s) \/ SubscriberStep(s)
    PROVE  PlacesInv' /\ CountInv' /\ DataInv'
  <1>0. /\ s \in Everybody /\ s \in Tasks /\ s \notin Readers /\ s # Pusher
        /\ pc = [u \in Everybody |-> pc[u]]
        /\ MaxRefreshes \in Nat /\ MaxTime \in Nat
    BY CycleAssumption DEF Everybody, Tasks, LockInv
  <1>1. CASE Deliver(s)
    <2>1. /\ Goto(s, "idle") /\ known' = [known EXCEPT ![s] = kv.ts]
          /\ failures' = [failures EXCEPT ![s] = 0]
          /\ UNCHANGED <<now, device, kv, fetcher, got, behind>>
      BY <1>1 DEF Deliver, Answer, cacheVars, locking
    <2>2. Allowed(s, "idle")
      BY <1>0 DEF Allowed, Places
    <2>3. CountInv'
      BY <1>0, <2>1 DEF CountInv, Goto, Everybody, Tasks
    <2>4. DataInv'
      BY <2>1 DEF DataInv
    <2> QED  BY <1>0, <2>1, <2>2, <2>3, <2>4, GotoPlaces
  <1>2. ASSUME NEW place \in Places, Goto(s, place),
               \/ failures' = [failures EXCEPT ![s] = 0] /\ place = "idle"
               \/ failures' = [failures EXCEPT ![s] = failures[s]] /\ place = "idle"
               \/ /\ failures' = failures
                  /\ place \in {"idle", "check"} \/ failures[s] < MaxRefreshes,
               \/ behind' = behind
               \/ behind' = [behind EXCEPT ![s] = Heir]
               \/ behind' = [behind EXCEPT ![s] = None],
               UNCHANGED <<now, device, kv, fetcher, got, known>>
        PROVE  PlacesInv' /\ CountInv' /\ DataInv'
    <2>1. Allowed(s, place)
      BY <1>0, <1>2 DEF Allowed
    <2>2. failures' \in [Subscribers -> 0 .. MaxRefreshes]
      BY <1>0, <1>2 DEF CountInv
    <2>3. /\ pc'[s] = place
          /\ \A u \in Subscribers \ {s} : pc'[u] = pc[u] /\ failures'[u] = failures[u]
          /\ place \in {"idle", "check"} \/ failures'[s] < MaxRefreshes
      BY <1>0, <1>2 DEF CountInv, Goto, Everybody, Tasks
    <2>4. CountInv'
      BY <2>2, <2>3 DEF CountInv
    <2>5. Heir \in Everybody \cup {None}
      BY DEF Heir, LockInv
    <2>6. DataInv'
      BY <1>2, <2>5 DEF DataInv
    <2> QED  BY <1>0, <1>2, <2>1, <2>4, <2>6, GotoPlaces
  <1>3. pc[s] \notin {"idle", "check"} => failures[s] < MaxRefreshes
    BY DEF CountInv
  <1>4. CASE Subscribe(s) \/ GiveUp(s) \/ Expire(s) \/ StartUpdate(s)
    <2>1. /\ UNCHANGED <<now, device, kv, fetcher, got, known, behind>>
          /\ \/ Goto(s, "check") /\ failures' = failures
             \/ Goto(s, "idle") /\ failures' = [failures EXCEPT ![s] = 0]
             \/ Goto(s, "idle") /\ failures' = [failures EXCEPT ![s] = failures[s]]
             \/ Goto(s, "ask") /\ failures' = failures /\ pc[s] = "yield"
      BY <1>4 DEF Subscribe, GiveUp, Expire, StartUpdate, Answer, cacheVars, locking
    <2> QED  BY <1>2, <1>3, <2>1 DEF Places, Updating
  <1>5. CASE LetOthersWork(s)
    <2>1. /\ UNCHANGED <<now, device, kv, fetcher, got, known, behind, failures>>
          /\ Goto(s, "yield") /\ failures[s] < MaxRefreshes
      BY <1>0, <1>5 DEF LetOthersWork, Exhausted, cacheVars, locking, CountInv
    <2> QED  BY <1>2, <2>1 DEF Places
  <1>6. CASE EnterWait(s) \/ GrantEntry(s) \/ StartWait(s) \/ TimeOutWait(s)
    <2>1. /\ UNCHANGED <<now, device, kv, fetcher, got, known, behind, failures>>
          /\ pc[s] \notin {"idle", "check"}
          /\ \E place \in {"entering", "entered", "waiting", "woken"} : Goto(s, place)
      BY <1>6 DEF EnterWait, GrantEntry, StartWait, TimeOutWait, cacheVars, locking, timing
    <2> QED  BY <1>2, <1>3, <2>1 DEF Places
  <1>7. CASE TimeOutNotified(s) \/ Reenter(s) \/ GrantReentry(s)
    <2>1. /\ UNCHANGED <<now, device, kv, fetcher, got, known, behind, failures>>
          /\ pc[s] \notin {"idle", "check"}
          /\ \E place \in {"woken", "reentering", "leaving"} : Goto(s, place)
      BY <1>7 DEF TimeOutNotified, Reenter, GrantReentry, cacheVars, locking, timing
    <2> QED  BY <1>2, <1>3, <2>1 DEF Places
  <1>8. CASE LeaveWait(s) \/ Resume(s)
    <2>1. /\ UNCHANGED <<now, device, kv, fetcher, got, known, failures>>
          /\ behind' = [behind EXCEPT ![s] = Heir] \/ behind' = [behind EXCEPT ![s] = None]
          /\ pc[s] \notin {"idle", "check"}
          /\ \E place \in {"left", "check", "yield"} : Goto(s, place)
      BY <1>8 DEF LeaveWait, Resume, cacheVars, timing
    <2> QED  BY <1>2, <1>3, <2>1 DEF Places
  <1>9. CASE CancelUpdate(s)
    <2>1. /\ pc' = [t \in Everybody |->
                      IF t = s THEN "idle"
                      ELSE IF t \in Tasks /\ pc[t] = "join" /\ joined[t] = s
                           THEN "ask" ELSE pc[t]]
          /\ got' = [got EXCEPT ![s] = NoAnswer]
          /\ fetcher' = IF fetcher = s THEN None ELSE fetcher
          /\ UNCHANGED <<now, device, kv, known, failures, behind>>
      BY <1>0, <1>9 DEF CancelUpdate
    <2>2. \A u \in Tasks : Allowed(u, "ask") /\ Allowed(u, "idle")
      BY CycleAssumption DEF Allowed, Places, Updating, Tasks
    <2>3. PlacesInv'
      <3> HIDE DEF Allowed
      <3> QED  BY <1>0, <2>1, <2>2 DEF PlacesInv
    <2>4. CountInv'
      <3>1. \A u \in Subscribers : u \in Everybody
        BY DEF Everybody, Tasks
      <3> QED  BY <2>1, <3>1 DEF CountInv
    <2>5. DataInv'
      BY <1>0, <2>1 DEF DataInv, Data, NoAnswer
    <2> QED  BY <2>3, <2>4, <2>5
  <1> QED
    BY <1>1, <1>4, <1>5, <1>6, <1>7, <1>8, <1>9 DEF SubscriberStep

\* What is over changes neither a place that is not its own to one that counts, nor the
\* data but for the answer it drops.
LEMMA FinishTypes ==
    ASSUME LockInv, CountInv, DataInv, NEW t \in Tasks, NEW ok \in BOOLEAN,
           NEW places, places = [u \in Everybody |-> places[u]],
           \A u \in Everybody : Allowed(u, places[u]),
           \A u \in Subscribers : places[u] \in {pc[u], "woken"} /\ (places[u] = "woken" => pc[u] \notin {"idle", "check"}),
           Finish(t, places, ok), pc[t] \notin {"idle", "check"},
           now' \in 0 .. MaxTime, device' \in Values, UNCHANGED <<known, behind>>,
           kv' \in [val : Values \cup {None}, ts : 0 .. MaxTime, change : 0 .. MaxTime]
    PROVE  PlacesInv' /\ CountInv' /\ DataInv'
  <1>1. PlacesInv'
    BY FinishPlaces
  <1>2. /\ pc' = [u \in Everybody |->
                    IF u = t THEN (IF t \in Subscribers THEN "check" ELSE "idle")
                    ELSE IF u \in Tasks /\ places[u] = "join" /\ joined[u] = t
                         THEN "ask" ELSE places[u]]
        /\ fetcher' = IF fetcher = t THEN None ELSE fetcher
        /\ got' = [got EXCEPT ![t] = NoAnswer]
        /\ IF t \in Subscribers THEN failures' = [failures EXCEPT ![t] = IF ok THEN 0 ELSE @ + 1]
                                ELSE failures' = failures
    BY DEF Finish
  <1>3. MaxTime \in Nat /\ MaxRefreshes \in Nat /\ \A u \in Subscribers : u \in Everybody
    BY CycleAssumption DEF Everybody, Tasks
  <1>4. CountInv'
    <2>1. failures' \in [Subscribers -> 0 .. MaxRefreshes]
      <3>1. CASE t \in Subscribers
        <4>1. failures[t] \in 0 .. MaxRefreshes /\ failures[t] < MaxRefreshes
          BY <3>1 DEF CountInv
        <4> QED  BY <1>2, <1>3, <3>1, <4>1 DEF CountInv
      <3> QED  BY <1>2, <3>1 DEF CountInv
    <2>2. ASSUME NEW u \in Subscribers, pc'[u] \notin {"idle", "check"}
          PROVE  failures'[u] < MaxRefreshes
      <3>1. u # t /\ pc[u] \notin {"idle", "check"}
        BY <1>2, <1>3, <2>2
      <3> QED  BY <1>2, <3>1 DEF CountInv
    <2> QED  BY <2>1, <2>2 DEF CountInv
  <1>5. DataInv'
    BY <1>2, <1>3 DEF DataInv, Data, NoAnswer
  <1> QED  BY <1>1, <1>4, <1>5

LEMMA CacheTypes ==
    ASSUME LockInv, PlacesInv, CountInv, DataInv, NEW t \in Tasks,
           \/ CacheStep(t) \/ DeviceReads(t) \/ DeviceFails(t)
           \/ ArriveQuietly(t) \/ ArriveChanged(t)
    PROVE  PlacesInv' /\ CountInv' /\ DataInv'
  <1>0. /\ t \in Everybody /\ t # Pusher /\ pc = [u \in Everybody |-> pc[u]]
        /\ MaxTime \in Nat /\ \A u \in Everybody : Allowed(u, pc[u])
        /\ \A u \in Subscribers : u \in Everybody
    BY CycleAssumption DEF Everybody, Tasks, LockInv, PlacesInv
  <1> DEFINE quiet == Notified(pc)
             Stored == [val : Values \cup {None}, ts : 0 .. MaxTime, change : 0 .. MaxTime]
  <1>1. /\ quiet = [u \in Everybody |-> quiet[u]]
        /\ \A u \in Everybody : Allowed(u, quiet[u])
        /\ \A u \in Subscribers : /\ quiet[u] \in {pc[u], "woken"}
                                  /\ quiet[u] = "woken" => pc[u] \notin {"idle", "check"}
    BY <1>0, NotifyPlaces DEF Notified
  <1>2. ASSUME \/ Finish(t, pc, TRUE) \/ Finish(t, pc, FALSE) \/ Finish(t, quiet, TRUE),
               pc[t] \notin {"idle", "check"}, now' \in 0 .. MaxTime,
               UNCHANGED <<device, known, behind>>, kv' \in Stored
        PROVE  PlacesInv' /\ CountInv' /\ DataInv'
    <2>1. device' \in Values
      BY <1>2 DEF DataInv
    <2>2. CASE Finish(t, quiet, TRUE)
      <3> HIDE DEF quiet
      <3> QED  BY <1>1, <1>2, <2>1, <2>2, FinishTypes
    <2>3. ASSUME NEW ok \in BOOLEAN, Finish(t, pc, ok)
          PROVE  PlacesInv' /\ CountInv' /\ DataInv'
      BY <1>0, <1>2, <2>1, <2>3, FinishTypes
    <2> QED  BY <1>2, <2>2, <2>3
  <1>3. CASE BecomeFetcher(t) \/ Join(t) \/ AskAnyway(t) \/ DeviceReads(t)
             \/ (ArriveChanged(t) /\ ~LockFree)
    <2>1. PICK place \in {"fetch", "join", "answered", "reporting"} : Goto(t, place)
      BY <1>3 DEF BecomeFetcher, Join, AskAnyway, DeviceReads, ArriveChanged
    <2>2. /\ Allowed(t, place) /\ failures' = failures
          /\ pc[t] \in {"ask", "fetch", "answered"}
      BY <1>0, <1>3 DEF BecomeFetcher, Join, AskAnyway, DeviceReads, ArriveChanged, timing, Allowed,
                        Places, Updating
    <2>3. CountInv'
      BY <1>0, <2>1, <2>2 DEF CountInv, Goto
    <2>4. now' \in 0 .. MaxTime /\ UNCHANGED <<device, known, behind>>
      <3>1. /\ now' = now \/ (now < MaxTime /\ now' = now + 1)
            /\ UNCHANGED <<device, known, behind>>
        BY <1>3 DEF BecomeFetcher, Join, AskAnyway, DeviceReads, ArriveChanged, locking
      <3>2. now \in 0 .. MaxTime
        BY DEF DataInv
      <3> QED  BY <1>0, <3>1, <3>2
    <2>5. /\ fetcher' \in {fetcher, t}
          /\ \/ got' = got
             \/ got' = [got EXCEPT ![t].val = device]
             \/ got' = [got EXCEPT ![t].ts = now']
          /\ kv' = kv \/ kv' = [kv EXCEPT !.change = now']
      BY <1>3 DEF BecomeFetcher, Join, AskAnyway, DeviceReads, ArriveChanged, cacheVars
    <2>6. got' \in [Tasks -> Data]
      <3>1. got[t] \in Data
        BY DEF DataInv
      <3>2. [got[t] EXCEPT !.val = device] \in Data /\ [got[t] EXCEPT !.ts = now'] \in Data
        BY <2>4, <3>1 DEF DataInv, Data
      <3> QED  BY <2>5, <3>2 DEF DataInv
    <2>7. kv' \in Stored
      BY <2>4, <2>5 DEF DataInv
    <2>8. DataInv'
      BY <2>4, <2>5, <2>6, <2>7 DEF DataInv
    <2> QED  BY <1>0, <2>1, <2>2, <2>3, <2>8, GotoPlaces
  <1>4. CASE AnswerFromCache(t) \/ DeviceFails(t)
    <2>1. /\ Finish(t, pc, TRUE) \/ Finish(t, pc, FALSE)
          /\ UNCHANGED <<now, device, kv, known, behind>> /\ pc[t] \in {"ask", "fetch"}
      BY <1>4 DEF AnswerFromCache, DeviceFails, locking
    <2>2. now' \in 0 .. MaxTime /\ kv' \in Stored
      BY <2>1 DEF DataInv
    <2> QED  BY <1>2, <2>1, <2>2
  <1>5. CASE ArriveQuietly(t) \/ (ArriveChanged(t) /\ LockFree)
    <2>1. /\ Finish(t, pc, TRUE) \/ Finish(t, quiet, TRUE)
          /\ UNCHANGED <<device, known, behind>> /\ pc[t] = "answered"
          /\ now < MaxTime /\ now' = now + 1
      BY <1>5 DEF ArriveQuietly, ArriveChanged, locking
    <2>2. now' \in 0 .. MaxTime
      BY <1>0, <2>1 DEF DataInv
    <2>3. kv' \in Stored
      <3>1. got[t].val \in Values \cup {None} /\ kv.change \in 0 .. MaxTime
        BY DEF DataInv, Data
      <3>2. \/ kv' = [val |-> got[t].val, ts |-> now', change |-> now']
            \/ kv' = [val |-> got[t].val, ts |-> now', change |-> kv.change]
        BY <1>5 DEF ArriveQuietly, ArriveChanged
      <3> QED  BY <2>2, <3>1, <3>2
    <2> QED  BY <1>2, <2>1, <2>2, <2>3
  <1>6. CASE GrantReport(t)
    <2>1. /\ Finish(t, quiet, TRUE) /\ kv' = Store(t)
          /\ UNCHANGED <<now, device, known, behind>> /\ pc[t] = "reporting"
      BY <1>6 DEF GrantReport
    <2>2. now' \in 0 .. MaxTime
      BY <2>1 DEF DataInv
    <2>3. kv' \in Stored
      BY <2>1 DEF Store, DataInv, Data
    <2> QED  BY <1>2, <2>1, <2>2, <2>3
  <1> QED  BY <1>3, <1>4, <1>5, <1>6 DEF CacheStep

LEMMA WorldTypes ==
    ASSUME LockInv, PlacesInv, CountInv, DataInv,
           DeviceChanges \/ PushStep \/ Tick \/ (\E r \in Readers : Read(r)) \/ UNCHANGED vars
    PROVE  PlacesInv' /\ CountInv' /\ DataInv'
  <1>0. /\ Pusher \in Everybody /\ pc = [u \in Everybody |-> pc[u]]
        /\ \A r \in Readers : r \in Everybody /\ r # Pusher /\ r \notin Subscribers
        /\ \A u \in Subscribers : u \in Everybody /\ u # Pusher
        /\ MaxTime \in Nat
    BY CycleAssumption DEF Everybody, Tasks, LockInv
  <1>1. Allowed(Pusher, "idle") /\ Allowed(Pusher, "fire") /\ Allowed(Pusher, "reporting")
    BY CycleAssumption DEF Allowed, Pushing, Tasks
  <1>2. ASSUME UNCHANGED <<failures, kv, fetcher, known, behind>>, got' = got,
               now' \in 0 .. MaxTime, device' \in Values,
               \A u \in Subscribers : \/ pc'[u] = pc[u]
                                      \/ pc[u] \notin {"idle", "check"}
        PROVE  CountInv' /\ DataInv'
    <2>1. CountInv'
      BY <1>2 DEF CountInv
    <2> QED  BY <1>2, <2>1 DEF DataInv
  <1>3. CASE Tick \/ UNCHANGED vars
    BY <1>0, <1>2, <1>3 DEF Tick, vars, cacheVars, timing, locking, PlacesInv, DataInv
  <1>4. ASSUME NEW r \in Readers, Read(r)
        PROVE  PlacesInv' /\ CountInv' /\ DataInv'
    <2>1. /\ Goto(r, "ask") /\ got' = got
          /\ UNCHANGED <<now, device, failures, kv, fetcher, known, behind>>
      BY <1>4 DEF Read, timing, locking
    <2>2. Allowed(r, "ask")
      BY <1>0 DEF Allowed, Updating
    <2>3. \A u \in Subscribers : pc'[u] = pc[u]
      BY <1>0, <2>1 DEF Goto
    <2> QED  BY <1>0, <1>2, <2>1, <2>2, <2>3, GotoPlaces DEF DataInv
  <1>5. CASE DeviceChanges
    <2>1. /\ Goto(Pusher, "fire") \/ UNCHANGED pc
          /\ device' \in Values /\ got' = got
          /\ UNCHANGED <<now, failures, kv, fetcher, known, behind>>
      BY <1>5 DEF DeviceChanges, cacheVars, timing, locking
    <2>2. \A u \in Subscribers : pc'[u] = pc[u]
      BY <1>0, <2>1 DEF Goto
    <2>3. PlacesInv'
      <3>1. CASE UNCHANGED pc
        BY <3>1 DEF PlacesInv
      <3> QED  BY <1>0, <1>1, <2>1, <3>1, GotoPlaces
    <2> QED  BY <1>2, <2>1, <2>2, <2>3 DEF DataInv
  <1>6. CASE PushStep
    <2> DEFINE quiet == Notified(pc)
    <2>1. /\ UNCHANGED <<now, device, failures, kv, fetcher, known, behind>> /\ got' = got
          /\ Goto(Pusher, "reporting") \/ pc' = [quiet EXCEPT ![Pusher] = "idle"]
      BY <1>6 DEF PushStep, Fire, GrantFire, cacheVars
    <2>2. /\ quiet = [u \in Everybody |-> quiet[u]]
          /\ \A u \in Everybody : Allowed(u, quiet[u])
          /\ \A u \in Subscribers : quiet[u] = pc[u] \/ pc[u] = "waiting"
      BY <1>0, NotifyPlaces DEF Notified
    <2> HIDE DEF quiet
    <2>3. PlacesInv'
      <3>1. CASE pc' = [quiet EXCEPT ![Pusher] = "idle"]
        <4> HIDE DEF Allowed
        <4> QED  BY <1>1, <2>2, <3>1 DEF PlacesInv
      <3> QED  BY <1>0, <1>1, <2>1, <3>1, GotoPlaces
    <2>4. \A u \in Subscribers : pc'[u] = pc[u] \/ pc[u] \notin {"idle", "check"}
      BY <1>0, <2>1, <2>2 DEF Goto
    <2> QED  BY <1>2, <2>1, <2>3, <2>4 DEF DataInv
  <1> QED  BY <1>3, <1>4, <1>5, <1>6

LEMMA TypeStep ==
    ASSUME LockInv, TypeInv, [Next]_vars
    PROVE  TypeInv'
  <1>0. PlacesInv /\ CountInv /\ DataInv
    BY TypeParts
  <1> SUFFICES PlacesInv' /\ CountInv' /\ DataInv'
    <2>1. LockInv'
      BY LockStep
    <2>2. LockInv' => (TypeInv' <=> PlacesInv' /\ CountInv' /\ DataInv')
      BY TypeParts, PTL
    <2> QED  BY <2>1, <2>2
  <1>1. ASSUME NEW t \in Tasks, DeviceReads(t) \/ DeviceFails(t)
        PROVE  PlacesInv' /\ CountInv' /\ DataInv'
    BY <1>0, <1>1, CacheTypes
  <1>2. ASSUME NEW t \in Tasks, ArriveQuietly(t) \/ ArriveChanged(t)
        PROVE  PlacesInv' /\ CountInv' /\ DataInv'
    BY <1>0, <1>2, CacheTypes
  <1>3. CASE LoopStep
    BY <1>0, <1>3, FreezerTypes, CacheTypes, WorldTypes DEF LoopStep
  <1>4. CASE Arrival
    BY <1>0, <1>1, <1>4, FreezerTypes, WorldTypes DEF Arrival
  <1>5. CASE Passing \/ UNCHANGED vars
    BY <1>0, <1>2, <1>5, WorldTypes DEF Passing
  <1> QED  BY <1>3, <1>4, <1>5 DEF Next

LEMMA TypeInit ==
    ASSUME Init
    PROVE  TypeInv
  <1>0. MaxTime \in Nat /\ MaxRefreshes \in Nat
    BY CycleAssumption
  <1>1. \A u \in Everybody : pc[u] = "idle" /\ Allowed(u, "idle")
    BY DEF Init, Everybody, Allowed, Places, Updating, Pushing
  <1>2. PlacesInv
    BY <1>1 DEF PlacesInv
  <1>3. CountInv
    <2>1. \A s \in Subscribers : pc[s] = "idle"
      BY <1>1 DEF Everybody, Tasks
    <2> QED  BY <1>0, <2>1 DEF Init, CountInv
  <1>4. DataInv
    BY <1>0 DEF Init, DataInv, Data, NoAnswer
  <1> QED  BY <1>2, <1>3, <1>4, TypeParts, LockInit

\* The type invariant: in particular the client's count of failed refreshes never exceeds
\* max_unsuccessful_refreshes, however its requests and refreshes are cut short.
THEOREM CycleTypes == Spec => []TypeOK
  <1>1. Init => LockInv /\ TypeInv
    BY LockInit, TypeInit
  <1>2. LockInv /\ TypeInv /\ [Next]_vars => (LockInv /\ TypeInv)'
    BY LockStep, TypeStep
  <1>3. TypeInv => TypeOK
    BY DEF TypeInv
  <1> QED  BY <1>1, <1>2, <1>3, PTL DEF Spec
-------------------------------------------------------------------------------
(* Time, on a loop that is fast compared with the unit of the clock.       *)

\* No timer of a request is set beyond its end.
InTimeAt(s) ==
    /\ pc[s] # "idle" => now <= deadline[s]
    /\ pc[s] \in {"entered", "waiting"} => wake[s] <= deadline[s]
    /\ pc[s] = "entering" => now + wait[s] <= deadline[s]

TimeInv ==
    /\ deadline \in [Subscribers -> Nat]
    /\ wait \in [Subscribers -> Int] /\ wake \in [Subscribers -> Int]
    /\ \A s \in Subscribers : InTimeAt(s)

\* Of a subscriber, no timer is set later.
Unhurried(s) ==
    \/ pc'[s] = "idle"
    \/ /\ pc[s] # "idle" /\ deadline'[s] = deadline[s]
       /\ pc'[s] \notin {"entered", "waiting", "entering"}
    \/ /\ pc'[s] = pc[s] \/ (pc[s] = "entered" /\ pc'[s] = "waiting")
       /\ deadline'[s] = deadline[s] /\ wake'[s] = wake[s] /\ wait'[s] = wait[s]

LEMMA UnhurriedKeeps ==
    ASSUME NEW s, InTimeAt(s), Unhurried(s), now' = now
    PROVE  InTimeAt(s)'
  BY DEF InTimeAt, Unhurried

\* What a task does that is not s, or a notification, leaves the timers of s alone.
LEMMA AloneUnhurried ==
    ASSUME NEW s \in Subscribers, UNCHANGED <<deadline, wake, wait>>,
           \/ pc'[s] = pc[s]
           \/ pc[s] \in {"join", "waiting"} /\ pc'[s] \in {"ask", "woken"}
    PROVE  Unhurried(s)
  BY DEF Unhurried

\* The end of a task: others look again, or wake up.
LEMMA FinishTimes ==
    ASSUME NEW t \in Tasks, NEW places, places = [u \in Everybody |-> places[u]], NEW ok,
           \A u \in Subscribers : places[u] = pc[u] \/ (pc[u] = "waiting" /\ places[u] = "woken"),
           pc[t] # "idle", Finish(t, places, ok), NEW s \in Subscribers
    PROVE  /\ Unhurried(s) /\ UNCHANGED <<deadline, wait, wake>>
           /\ pc'[s] # "idle" => pc[s] # "idle"
           /\ pc'[s] \in {"entered", "waiting", "entering"} => pc'[s] = pc[s]
  <1>1. pc' = [u \in Everybody |->
                    IF u = t THEN (IF t \in Subscribers THEN "check" ELSE "idle")
                    ELSE IF u \in Tasks /\ places[u] = "join" /\ joined[u] = t
                         THEN "ask" ELSE places[u]]
    BY DEF Finish
  <1>2. UNCHANGED <<deadline, wait, wake>>
    BY DEF Finish
  <1>3. s \in Everybody
    BY DEF Everybody, Tasks
  <1>4. CASE s = t
    BY <1>1, <1>2, <1>3, <1>4 DEF Unhurried
  <1>5. CASE s # t /\ pc'[s] = "ask" /\ places[s] = "join"
    BY <1>2, <1>5 DEF Unhurried
  <1>6. CASE pc'[s] = places[s]
    BY <1>2, <1>6 DEF Unhurried
  <1> QED  BY <1>1, <1>3, <1>4, <1>5, <1>6

\* A subscriber's own step: it waits no longer than its request has.
LEMMA FreezerTimes ==
    ASSUME LockInv, DataInv, TimeInv, NEW s \in Subscribers, Subscribe(s) \/ SubscriberStep(s)
    PROVE  TimeInv'
  <1>0. /\ s \in Everybody /\ pc = [u \in Everybody |-> pc[u]]
        /\ \A u \in Subscribers : u \in Everybody
        /\ Patience \in Nat /\ MaxTime \in Nat /\ now \in Nat
        /\ deadline[s] \in Nat /\ wait[s] \in Int /\ wake[s] \in Int /\ InTimeAt(s)
    BY CycleAssumption DEF Everybody, Tasks, LockInv, DataInv, TimeInv
  <1>1. ASSUME now' = now,
               \E d \in Nat : deadline' = [deadline EXCEPT ![s] = d],
               \E d \in Int : wake' = [wake EXCEPT ![s] = d],
               \E d \in Int : wait' = [wait EXCEPT ![s] = d],
               \A u \in Subscribers \ {s} : \/ pc'[u] = pc[u]
                                            \/ pc[u] = "join" /\ pc'[u] = "ask",
               InTimeAt(s)'
        PROVE  TimeInv'
    <2>1. ASSUME NEW u \in Subscribers, u # s
          PROVE  InTimeAt(u)'
      <3>1. /\ pc'[u] = pc[u] \/ (pc[u] = "join" /\ pc'[u] = "ask")
            /\ deadline'[u] = deadline[u] /\ wake'[u] = wake[u] /\ wait'[u] = wait[u]
        BY <1>1, <2>1 DEF TimeInv
      <3>2. InTimeAt(u)
        BY DEF TimeInv
      <3> QED  BY <1>1, <3>1, <3>2 DEF InTimeAt
    <2>2. /\ deadline' \in [Subscribers -> Nat]
          /\ wait' \in [Subscribers -> Int] /\ wake' \in [Subscribers -> Int]
      BY <1>1 DEF TimeInv
    <2> QED  BY <1>1, <2>1, <2>2 DEF TimeInv
  <1>2. ASSUME NEW place, Goto(s, place)
        PROVE  pc'[s] = place /\ \A u \in Subscribers \ {s} : pc'[u] = pc[u]
    BY <1>0, <1>2 DEF Goto
  <1>3. /\ deadline = [deadline EXCEPT ![s] = deadline[s]]
        /\ wake = [wake EXCEPT ![s] = wake[s]]
        /\ wait = [wait EXCEPT ![s] = wait[s]]
    BY DEF TimeInv
  <1>4. CASE Subscribe(s)
    <2>1. /\ now' = now /\ UNCHANGED <<wake, wait>> /\ Goto(s, "check")
          /\ deadline' = [deadline EXCEPT ![s] = now + Patience]
      BY <1>4 DEF Subscribe
    <2>2. pc'[s] = "check" /\ deadline'[s] = now + Patience /\ now + Patience \in Nat
      BY <1>0, <1>2, <2>1 DEF TimeInv
    <2>3. InTimeAt(s)'
      BY <1>0, <2>1, <2>2 DEF InTimeAt
    <2> QED  BY <1>0, <1>1, <1>2, <1>3, <2>1, <2>2, <2>3
  <1>5. CASE Deliver(s) \/ GiveUp(s) \/ Expire(s)
    <2>1. /\ now' = now /\ UNCHANGED <<wake, wait>> /\ Goto(s, "idle")
          /\ deadline' = [deadline EXCEPT ![s] = 0]
      BY <1>5 DEF Deliver, GiveUp, Expire, Answer
    <2>2. InTimeAt(s)'
      BY <1>2, <2>1 DEF InTimeAt
    <2> QED  BY <1>0, <1>1, <1>2, <1>3, <2>1, <2>2
  <1>6. ASSUME now' = now, UNCHANGED <<deadline, wait>>,
               \E d \in Int : wake' = [wake EXCEPT ![s] = d],
               NEW place, Goto(s, place), Unhurried(s)
        PROVE  TimeInv'
    BY <1>0, <1>1, <1>2, <1>3, <1>6, UnhurriedKeeps
  <1>7. CASE \/ LetOthersWork(s) \/ StartUpdate(s) \/ StartWait(s) \/ TimeOutWait(s)
             \/ TimeOutNotified(s) \/ Reenter(s) \/ GrantReentry(s) \/ LeaveWait(s)
    <2>1. /\ now' = now /\ UNCHANGED <<deadline, wait, wake>>
          /\ pc[s] # "idle"
          /\ \/ \E place \in {"yield", "ask", "woken", "leaving", "reentering", "left"} :
                   Goto(s, place)
             \/ pc[s] = "entered" /\ Goto(s, "waiting")
      BY <1>7 DEF LetOthersWork, StartUpdate, StartWait, TimeOutWait, TimeOutNotified, Reenter,
                  GrantReentry, LeaveWait, timing
    <2>2. Unhurried(s)
      BY <1>2, <2>1 DEF Unhurried
    <2> QED  BY <1>0, <1>3, <1>6, <2>1, <2>2
  <1>8. CASE Resume(s)
    <2>1. /\ now' = now /\ UNCHANGED <<deadline, wait>> /\ pc[s] = "left"
          /\ wake' = [wake EXCEPT ![s] = 0]
          /\ Goto(s, "check") \/ Goto(s, "yield")
      BY <1>8 DEF Resume
    <2>2. Unhurried(s)
      BY <1>2, <2>1 DEF Unhurried
    <2>3. \E d \in Int : wake' = [wake EXCEPT ![s] = d]
      <3> WITNESS 0 \in Int
      <3> QED  BY <2>1
    <2> QED  BY <1>6, <2>1, <2>2, <2>3
  <1>9. CASE EnterWait(s)
    <2> DEFINE cut == CutOff(s)
    <2>1. WaitingTime(s) \in Int
      <3>1. kv.ts \in Int
        BY <1>0 DEF DataInv
      <3>2. FreezerTolerance(s) \in Int
        BY CycleAssumption DEF FreezerTolerance, Tasks
      <3> HIDE DEF FreezerTolerance
      <3> QED  BY <1>0, <3>1, <3>2 DEF WaitingTime
    <2>2. cut \in Int /\ now + cut <= deadline[s] /\ deadline[s] > now
      BY <1>0, <1>9, <2>1 DEF EnterWait, MustWait, CutOff
    <2> HIDE DEF cut
    <2>3. InUnits(cut) \in Int /\ InUnits(cut) <= deadline[s]
      BY <1>0, <2>2 DEF InUnits
    <2>4. /\ now' = now /\ UNCHANGED deadline /\ pc[s] = "yield"
          /\ \/ /\ wake' = [wake EXCEPT ![s] = InUnits(cut)]
                /\ Goto(s, "entered") /\ UNCHANGED wait
             \/ /\ wait' = [wait EXCEPT ![s] = cut]
                /\ Goto(s, "entering") /\ UNCHANGED wake
      BY <1>9 DEF EnterWait, cut
    <2>5. InTimeAt(s)'
      <3>1. CASE Goto(s, "entered") /\ wake' = [wake EXCEPT ![s] = InUnits(cut)]
        <4>1. pc'[s] = "entered" /\ wake'[s] = InUnits(cut)
          BY <1>2, <3>1 DEF TimeInv
        <4> QED  BY <1>0, <2>2, <2>3, <2>4, <4>1 DEF InTimeAt
      <3>2. CASE Goto(s, "entering") /\ wait' = [wait EXCEPT ![s] = cut]
        <4>1. pc'[s] = "entering" /\ wait'[s] = cut
          BY <1>2, <3>2 DEF TimeInv
        <4> QED  BY <1>0, <2>2, <2>4, <4>1 DEF InTimeAt
      <3> QED  BY <2>4, <3>1, <3>2
    <2> QED  BY <1>0, <1>1, <1>2, <1>3, <2>2, <2>3, <2>4, <2>5
  <1>10. CASE GrantEntry(s)
    <2>1. /\ now' = now /\ UNCHANGED deadline /\ pc[s] = "entering" /\ Goto(s, "entered")
          /\ wake' = [wake EXCEPT ![s] = InUnits(wait[s])]
          /\ wait' = [wait EXCEPT ![s] = 0]
      BY <1>10 DEF GrantEntry
    <2>2. now + wait[s] <= deadline[s] /\ now <= deadline[s]
      BY <1>0, <2>1 DEF InTimeAt
    <2>3. InUnits(wait[s]) \in Int /\ InUnits(wait[s]) <= deadline[s]
      BY <1>0, <2>2 DEF InUnits
    <2>4. pc'[s] = "entered" /\ wake'[s] = InUnits(wait[s])
      BY <1>2, <2>1 DEF TimeInv
    <2>5. InTimeAt(s)'
      BY <2>1, <2>2, <2>3, <2>4 DEF InTimeAt
    <2>6. \A u \in Subscribers \ {s} : pc'[u] = pc[u]
      BY <1>2, <2>1
    <2>7. deadline' = [deadline EXCEPT ![s] = deadline[s]]
      BY <1>3, <2>1
    <2>8. \E d \in Int : wait' = [wait EXCEPT ![s] = d]
      <3> WITNESS 0 \in Int
      <3> QED  BY <2>1
    <2> QED  BY <1>0, <1>1, <2>1, <2>3, <2>5, <2>6, <2>7, <2>8
  <1>11. CASE CancelUpdate(s)
    <2>1. /\ now' = now /\ UNCHANGED <<wake, wait>>
          /\ deadline' = [deadline EXCEPT ![s] = 0]
          /\ pc' = [t \in Everybody |->
                      IF t = s THEN "idle"
                      ELSE IF t \in Tasks /\ pc[t] = "join" /\ joined[t] = s
                           THEN "ask" ELSE pc[t]]
      BY <1>0, <1>11 DEF CancelUpdate
    <2>2. /\ pc'[s] = "idle"
          /\ \A u \in Subscribers \ {s} : pc'[u] = pc[u] \/ (pc[u] = "join" /\ pc'[u] = "ask")
      BY <1>0, <2>1
    <2>3. InTimeAt(s)'
      BY <2>2 DEF InTimeAt
    <2> QED  BY <1>0, <1>1, <1>3, <2>1, <2>2, <2>3
  <1> QED
    BY <1>4, <1>5, <1>7, <1>8, <1>9, <1>10, <1>11 DEF SubscriberStep

\* The cache and the pusher, while no time passes.
LEMMA OthersTimes ==
    ASSUME LockInv, DataInv, TimeInv,
           \/ \E t \in Tasks : CacheStep(t) \/ DeviceReads(t) \/ DeviceFails(t)
           \/ PushStep \/ DeviceChanges
           \/ \E r \in Readers : Read(r)
           \/ UNCHANGED vars
    PROVE  TimeInv'
  <1>0. /\ pc = [u \in Everybody |-> pc[u]]
        /\ \A u \in Subscribers : u \in Everybody /\ u # Pusher /\ u \notin Readers
        /\ Pusher \in Everybody /\ Tasks \subseteq Everybody /\ Readers \subseteq Tasks
    BY CycleAssumption DEF Everybody, Tasks, LockInv
  <1>1. ASSUME now' = now, UNCHANGED <<deadline, wait, wake>>,
               \A s \in Subscribers : Unhurried(s)
        PROVE  TimeInv'
    <2>1. ASSUME NEW s \in Subscribers
          PROVE  InTimeAt(s)'
      BY <1>1, UnhurriedKeeps DEF TimeInv
    <2> QED  BY <1>1, <2>1 DEF TimeInv
  <1> DEFINE quiet == Notified(pc)
  <1>2. /\ quiet = [u \in Everybody |-> quiet[u]]
        /\ \A u \in Subscribers : quiet[u] = pc[u] \/ (pc[u] = "waiting" /\ quiet[u] = "woken")
    BY <1>0 DEF Notified
  <1>3. ASSUME NEW t \in Tasks, NEW places \in {pc, quiet}, NEW ok, Finish(t, places, ok),
               pc[t] # "idle", now' = now
        PROVE  TimeInv'
    <2> HIDE DEF quiet
    <2>1. /\ places = [u \in Everybody |-> places[u]]
          /\ \A u \in Subscribers : places[u] = pc[u] \/ (pc[u] = "waiting" /\ places[u] = "woken")
      BY <1>0, <1>2, <1>3
    <2>2. UNCHANGED <<deadline, wait, wake>>
      BY <1>3 DEF Finish
    <2>3. \A s \in Subscribers : Unhurried(s)
      BY <1>3, <2>1, FinishTimes
    <2> QED  BY <1>1, <1>3, <2>2, <2>3
  <1>4. ASSUME NEW t \in Tasks, AnswerFromCache(t) \/ DeviceFails(t) \/ GrantReport(t)
        PROVE  TimeInv'
    <2>1. /\ Finish(t, pc, TRUE) \/ Finish(t, pc, FALSE) \/ Finish(t, quiet, TRUE)
          /\ pc[t] # "idle" /\ now' = now
      BY <1>4 DEF AnswerFromCache, DeviceFails, GrantReport
    <2> HIDE DEF quiet
    <2> QED  BY <1>3, <2>1
  <1>5. ASSUME NEW t \in Everybody, NEW place, Goto(t, place), now' = now,
               UNCHANGED <<deadline, wait, wake>>, t \in Subscribers => pc[t] # "idle",
               place \notin {"entered", "waiting", "entering"}
        PROVE  TimeInv'
    <2>1. ASSUME NEW s \in Subscribers
          PROVE  Unhurried(s)
      <3>1. pc'[s] = IF s = t THEN place ELSE pc[s]
        BY <1>0, <1>5 DEF Goto
      <3> QED  BY <1>5, <3>1 DEF Unhurried
    <2> QED  BY <1>1, <1>5, <2>1
  <1>6. ASSUME NEW t \in Tasks, BecomeFetcher(t) \/ Join(t) \/ AskAnyway(t) \/ DeviceReads(t)
        PROVE  TimeInv'
    <2>1. /\ Goto(t, "fetch") \/ Goto(t, "join") \/ Goto(t, "answered")
          /\ pc[t] # "idle" /\ now' = now /\ UNCHANGED <<deadline, wait, wake>>
      BY <1>6 DEF BecomeFetcher, Join, AskAnyway, DeviceReads, timing
    <2> QED  BY <1>0, <1>5, <2>1
  <1>7. ASSUME NEW r \in Readers, Read(r)
        PROVE  TimeInv'
    <2>1. Goto(r, "ask") /\ now' = now /\ UNCHANGED <<deadline, wait, wake>>
      BY <1>7 DEF Read, timing
    <2> QED  BY <1>0, <1>5, <2>1
  <1>8. CASE DeviceChanges \/ UNCHANGED vars
    <2>1. /\ Goto(Pusher, "fire") \/ UNCHANGED pc
          /\ now' = now /\ UNCHANGED <<deadline, wait, wake>>
      BY <1>8 DEF DeviceChanges, vars, timing
    <2>2. CASE UNCHANGED pc
      BY <1>1, <2>1, <2>2 DEF Unhurried
    <2> QED  BY <1>0, <1>5, <2>1, <2>2
  <1>9. CASE PushStep
    <2>1. /\ Goto(Pusher, "reporting") \/ pc' = [quiet EXCEPT ![Pusher] = "idle"]
          /\ now' = now /\ UNCHANGED <<deadline, wait, wake>>
      BY <1>9 DEF PushStep, Fire, GrantFire
    <2> HIDE DEF quiet
    <2>2. CASE pc' = [quiet EXCEPT ![Pusher] = "idle"]
      <3>1. ASSUME NEW s \in Subscribers
            PROVE  Unhurried(s)
        <4>1. pc'[s] = quiet[s]
          BY <1>0, <1>2, <2>2
        <4> QED  BY <1>2, <2>1, <4>1 DEF Unhurried
      <3> QED  BY <1>1, <2>1, <3>1
    <2> QED  BY <1>0, <1>5, <2>1, <2>2
  <1> QED  BY <1>4, <1>6, <1>7, <1>8, <1>9 DEF CacheStep

\* Nobody has the lock while the loop is idle: whoever has it can run.
LEMMA IdleIsUnlocked ==
    ASSUME LockInv, LoopIdle
    PROVE  /\ lock = None
           /\ \A u \in Everybody : pc[u] \notin Queueing
  <1>1. lock = None
    <2>1. SUFFICES ASSUME lock \in Everybody
                   PROVE  FALSE
      BY DEF LockInv
    <2>2. pc[lock] \in Queueing \cup Holding
      BY <2>1 DEF LockInv, Stake
    <2>3. ~Blocked(lock)
      BY <2>2 DEF Blocked, Queueing, Holding
    <2>4. pc[lock] \notin {"waiting", "ask"}
      BY <2>2 DEF Queueing, Holding
    <2>5. lock \in Subscribers \/ lock \in Readers \cup {Pusher}
      BY <2>1 DEF Everybody, Tasks
    <2> QED  BY <2>3, <2>4, <2>5 DEF LoopIdle, GoesRound
  <1>2. ASSUME NEW u \in Everybody
        PROVE  pc[u] \notin Queueing
    <2>1. ToSet(lockq) = {}
      BY <1>1 DEF LockInv, ToSet
    <2>2. u # lock
      BY <1>1, CycleAssumption DEF Everybody
    <2>3. Stake(pc[u]) # "queues"
      BY <2>1, <2>2 DEF LockInv
    <2> QED  BY <2>3 DEF Stake
  <1> QED  BY <1>1, <1>2

\* Whoever is idle for the loop has time left: its timer is not set later than its
\* request ends, and it does not wait for the lock.
LEMMA IdleHasTime ==
    ASSUME LockInv, PlacesInv, TimeInv, DataInv, LoopIdle, NEW s \in Subscribers, pc[s] # "idle"
    PROVE  now < deadline[s] /\ pc[s] # "entering"
  <1>0. s \in Everybody
    BY DEF Everybody, Tasks
  <1>1. pc[s] \notin Queueing
    BY <1>0, IdleIsUnlocked
  <1>2. CASE pc[s] = "waiting"
    <2>1. now < wake[s]
      BY <1>2 DEF LoopIdle, Blocked, Queueing, GoesRound
    <2>2. wake[s] <= deadline[s] /\ wake[s] \in Int /\ deadline[s] \in Nat /\ now \in Int
      BY <1>2, CycleAssumption DEF TimeInv, InTimeAt, DataInv
    <2> QED  BY <1>2, <2>1, <2>2
  <1>3. CASE pc[s] # "waiting"
    <2>1. Blocked(s) \/ pc[s] = "ask"
      BY <1>3 DEF LoopIdle, GoesRound
    <2>2. pc[s] \in {"join", "fetch", "answered", "ask"}
      BY <1>1, <2>1 DEF Blocked
    <2> QED  BY <2>2 DEF LoopIdle, Updating
  <1> QED  BY <1>2, <1>3

\* Time passes when the loop is idle.
LEMMA PassingTimes ==
    ASSUME LockInv, PlacesInv, DataInv, TimeInv, LoopIdle, Passing
    PROVE  TimeInv'
  <1>0. /\ pc = [u \in Everybody |-> pc[u]] /\ now \in Int
        /\ \A u \in Subscribers : u \in Everybody
    BY CycleAssumption DEF Everybody, Tasks, LockInv, DataInv
  <1> DEFINE quiet == Notified(pc)
  <1>1. /\ quiet = [u \in Everybody |-> quiet[u]]
        /\ \A u \in Subscribers : quiet[u] = pc[u] \/ (pc[u] = "waiting" /\ quiet[u] = "woken")
    BY <1>0 DEF Notified
  <1> HIDE DEF quiet
  <1>2. /\ now' = now + 1 /\ UNCHANGED <<deadline, wait, wake>>
        /\ \A s \in Subscribers :
              /\ pc'[s] # "idle" => pc[s] # "idle"
              /\ pc'[s] \in {"entered", "waiting", "entering"} => pc'[s] = pc[s]
    <2>1. CASE Tick
      BY <2>1 DEF Tick, timing
    <2>2. ASSUME NEW t \in Tasks, Finish(t, pc, TRUE) \/ Finish(t, quiet, TRUE), pc[t] # "idle"
          PROVE  /\ UNCHANGED <<deadline, wait, wake>>
                 /\ \A s \in Subscribers :
                       /\ pc'[s] # "idle" => pc[s] # "idle"
                       /\ pc'[s] \in {"entered", "waiting", "entering"} => pc'[s] = pc[s]
      <3>1. UNCHANGED <<deadline, wait, wake>>
        BY <2>2 DEF Finish
      <3> QED  BY <1>0, <1>1, <2>2, <3>1, FinishTimes
    <2>3. ASSUME NEW t \in Tasks, ArriveQuietly(t) \/ ArriveChanged(t)
          PROVE  /\ now' = now + 1 /\ pc[t] = "answered"
                 /\ \/ Finish(t, pc, TRUE) \/ Finish(t, quiet, TRUE)
                    \/ Goto(t, "reporting") /\ UNCHANGED <<deadline, wait, wake>>
      BY <2>3 DEF ArriveQuietly, ArriveChanged, timing, quiet
    <2>4. ASSUME NEW t \in Tasks, Goto(t, "reporting"), pc[t] = "answered", NEW s \in Subscribers
          PROVE  /\ pc'[s] # "idle" => pc[s] # "idle"
                 /\ pc'[s] \in {"entered", "waiting", "entering"} => pc'[s] = pc[s]
      BY <1>0, <2>4 DEF Goto
    <2> QED  BY <2>1, <2>2, <2>3, <2>4 DEF Passing
  <1>3. ASSUME NEW s \in Subscribers
        PROVE  InTimeAt(s)'
    <2>1. deadline[s] \in Nat /\ InTimeAt(s)
      BY DEF TimeInv
    <2>2. pc[s] # "idle" => now < deadline[s] /\ pc[s] # "entering"
      BY IdleHasTime
    <2> QED  BY <1>0, <1>2, <2>1, <2>2 DEF InTimeAt
  <1> QED  BY <1>2, <1>3 DEF TimeInv

PromptNext == LoopStep \/ Arrival \/ (LoopIdle /\ Passing)

\* No wait for a change, for the lock of the condition or for the fetch of another task
\* outlasts a request, as long as the loop is fast compared with the unit of the clock.
THEOREM RequestsEndInTime == PromptSpec => []InTime
  <1>1. Init => LockInv /\ TypeInv /\ TimeInv
    <2>1. Init => TimeInv
      <3>1. \A s \in Subscribers : s \in Tasks \cup {Pusher}
        BY DEF Tasks
      <3> QED  BY <3>1 DEF Init, TimeInv, InTimeAt
    <2> QED  BY <2>1, LockInit, TypeInit
  <1>2. LockInv /\ TypeInv /\ TimeInv /\ [PromptNext]_vars => (LockInv /\ TypeInv /\ TimeInv)'
    <2> SUFFICES ASSUME LockInv, TypeInv, TimeInv, [PromptNext]_vars
                 PROVE  LockInv' /\ TypeInv' /\ TimeInv'
      OBVIOUS
    <2>1. [Next]_vars
      BY DEF PromptNext, Next
    <2>2. LockInv' /\ TypeInv'
      BY <2>1, LockStep, TypeStep
    <2>3. PlacesInv /\ DataInv
      BY TypeParts
    <2>4. CASE LoopStep
      BY <2>2, <2>3, <2>4, FreezerTimes, OthersTimes DEF LoopStep
    <2>5. CASE Arrival
      BY <2>2, <2>3, <2>5, FreezerTimes, OthersTimes DEF Arrival
    <2>6. CASE UNCHANGED vars
      BY <2>2, <2>3, <2>6, OthersTimes
    <2>7. CASE LoopIdle /\ Passing
      BY <2>2, <2>3, <2>7, PassingTimes
    <2>8. TimeInv'
      BY <2>4, <2>5, <2>6, <2>7 DEF PromptNext
    <2> QED  BY <2>2, <2>8
  <1>3. TimeInv => InTime
    BY DEF TimeInv, InTimeAt, InTime
  <1> QED  BY <1>1, <1>2, <1>3, PTL DEF PromptSpec, PromptNext
-------------------------------------------------------------------------------
(* News, on such a loop: answers come when no report waits for the lock.   *)

\* No answer of the device waits for the lock of the condition.
Unreported == \A t \in Tasks : pc[t] # "reporting"

NewsInv ==
    /\ Unreported
    /\ kv.change <= kv.ts /\ kv.ts <= now
    /\ \A s \in Subscribers : known[s] <= kv.ts
    /\ shown = [s \in Subscribers |-> shown[s]]
    /\ NothingMissed

\* A task goes elsewhere.
LEMMA GotoUnreported ==
    ASSUME LockInv, Unreported, NEW t \in Everybody, NEW place, Goto(t, place),
           place = "reporting" => t = Pusher
    PROVE  Unreported'
  <1>1. \A u \in Tasks : u \in Everybody /\ u # Pusher
    BY CycleAssumption DEF Everybody
  <1> QED  BY <1>1 DEF Unreported, Goto, LockInv

\* A task is over.
LEMMA FinishUnreported ==
    ASSUME NEW t \in Tasks, NEW places, places = [u \in Everybody |-> places[u]], NEW ok,
           \A u \in Tasks : places[u] # "reporting", Finish(t, places, ok)
    PROVE  Unreported'
  <1>1. pc' = [u \in Everybody |->
                    IF u = t THEN (IF t \in Subscribers THEN "check" ELSE "idle")
                    ELSE IF u \in Tasks /\ places[u] = "join" /\ joined[u] = t
                         THEN "ask" ELSE places[u]]
    BY DEF Finish
  <1>2. \A u \in Tasks : u \in Everybody
    BY DEF Everybody
  <1> QED  BY <1>1, <1>2 DEF Unreported

LEMMA NotifyUnreported ==
    ASSUME LockInv, Unreported
    PROVE  /\ Notified(pc) = [u \in Everybody |-> Notified(pc)[u]]
           /\ \A u \in Tasks : Notified(pc)[u] # "reporting"
  BY DEF Notified, LockInv, Unreported, Everybody

\* What neither stores a value nor sends one.
LEMMA NewsStays ==
    ASSUME NewsInv, DataInv, Unreported', UNCHANGED <<kv, known, shown>>, now' \in Int, now <= now'
    PROVE  NewsInv'
  <1>1. kv.ts \in Int /\ now \in Int
    BY CycleAssumption DEF DataInv
  <1> QED  BY <1>1 DEF NewsInv, NothingMissed

\* What the client is sent is what the cache holds, and younger than what it knew.
LEMMA DeliverNews ==
    ASSUME NewsInv, LockInv, DataInv, NEW s \in Subscribers, Deliver(s)
    PROVE  /\ NewsInv'
           /\ \A u \in Subscribers : known'[u] >= known[u]
           /\ known'[s] > known[s]
  <1>1. /\ known' = [known EXCEPT ![s] = kv.ts] /\ shown' = [shown EXCEPT ![s] = kv.val]
        /\ known[s] < kv.change /\ UNCHANGED <<now, kv>> /\ Goto(s, "idle")
    BY DEF Deliver, HasNews, Answer, cacheVars
  <1>2. /\ kv.ts \in Int /\ kv.change \in Int /\ known \in [Subscribers -> Int]
    BY CycleAssumption DEF DataInv
  <1>3. Unreported'
    <2>1. s \in Everybody
      BY DEF Everybody, Tasks
    <2> QED  BY <1>1, <2>1, GotoUnreported DEF NewsInv
  <1>4. known'[s] > known[s] /\ \A u \in Subscribers : known'[u] >= known[u]
    BY <1>1, <1>2 DEF NewsInv
  <1>5. \A u \in Subscribers : known'[u] <= kv'.ts
    BY <1>1, <1>2 DEF NewsInv
  <1>6. NothingMissed'
    BY <1>1, <1>2 DEF NewsInv, NothingMissed
  <1>7. shown' = [u \in Subscribers |-> shown'[u]]
    BY <1>1 DEF NewsInv
  <1> QED  BY <1>1, <1>3, <1>4, <1>5, <1>6, <1>7 DEF NewsInv

\* An answer comes while the lock is free: it is stored at once, and as a change if it
\* is one.
LEMMA ArriveNews ==
    ASSUME NewsInv, LockInv, DataInv, LockFree, NEW t \in Tasks, ArriveQuietly(t) \/ ArriveChanged(t)
    PROVE  NewsInv' /\ UNCHANGED known
  <1>1. /\ now' = now + 1 /\ UNCHANGED <<known, shown>>
        /\ Finish(t, pc, TRUE) \/ Finish(t, Notified(pc), TRUE)
        /\ \/ kv' = [val |-> got[t].val, ts |-> now', change |-> now']
           \/ kv' = [val |-> kv.val, ts |-> now', change |-> kv.change]
    BY DEF ArriveQuietly, ArriveChanged, IsChanged
  <1>2. /\ kv.ts \in Int /\ kv.change \in Int /\ known \in [Subscribers -> Int] /\ now \in Int
    BY CycleAssumption DEF DataInv
  <1>3. Unreported'
    <2>1. pc = [u \in Everybody |-> pc[u]] /\ \A u \in Tasks : pc[u] # "reporting"
      BY DEF LockInv, NewsInv, Unreported
    <2>2. CASE Finish(t, pc, TRUE)
      BY <2>1, <2>2, FinishUnreported
    <2>3. CASE Finish(t, Notified(pc), TRUE)
      BY <2>3, NotifyUnreported, FinishUnreported DEF NewsInv
    <2> QED  BY <1>1, <2>2, <2>3
  <1>4. /\ kv'.change <= kv'.ts /\ kv'.ts <= now'
        /\ \A s \in Subscribers : known'[s] <= kv'.ts
    BY <1>1, <1>2 DEF NewsInv
  <1>5. NothingMissed'
    BY <1>1, <1>2 DEF NewsInv, NothingMissed
  <1> QED  BY <1>1, <1>3, <1>4, <1>5 DEF NewsInv

\* A subscriber's own steps, but for the delivery.
LEMMA FreezerNews ==
    ASSUME NewsInv, LockInv, DataInv, NEW s \in Subscribers, Subscribe(s) \/ SubscriberStep(s),
           ~Deliver(s)
    PROVE  NewsInv' /\ UNCHANGED known
  <1>0. s \in Everybody /\ now \in Int /\ Unreported /\ pc = [u \in Everybody |-> pc[u]]
    BY CycleAssumption DEF Everybody, Tasks, DataInv, NewsInv, LockInv
  <1>1. UNCHANGED <<now, kv, known, shown>>
    <2>1. CASE \/ Subscribe(s) \/ GiveUp(s) \/ LetOthersWork(s) \/ EnterWait(s) \/ Expire(s)
               \/ StartUpdate(s) \/ GrantEntry(s)
      BY <2>1 DEF Subscribe, GiveUp, LetOthersWork, EnterWait, Expire, StartUpdate, GrantEntry,
                  cacheVars
    <2>2. CASE \/ StartWait(s) \/ TimeOutWait(s) \/ TimeOutNotified(s) \/ Reenter(s)
               \/ GrantReentry(s) \/ LeaveWait(s) \/ Resume(s) \/ CancelUpdate(s)
      BY <2>2 DEF StartWait, TimeOutWait, TimeOutNotified, Reenter, GrantReentry, LeaveWait,
                  Resume, CancelUpdate, cacheVars
    <2> QED  BY <2>1, <2>2 DEF SubscriberStep
  <1>2. Unreported'
    <2>1. CASE CancelUpdate(s)
      <3>1. pc' = [t \in Everybody |->
                     IF t = s THEN "idle"
                     ELSE IF t \in Tasks /\ pc[t] = "join" /\ joined[t] = s
                          THEN "ask" ELSE pc[t]]
        BY <1>0, <2>1 DEF CancelUpdate
      <3>2. \A t \in Tasks : t \in Everybody
        BY DEF Everybody
      <3> QED  BY <1>0, <3>1, <3>2 DEF Unreported
    <2>2. CASE ~CancelUpdate(s)
      <3>1. \E place \in {"check", "idle", "yield", "ask", "entered", "entering", "waiting",
                           "woken", "leaving", "reentering", "left"} : Goto(s, place)
        <4>1. CASE Subscribe(s) \/ GiveUp(s) \/ LetOthersWork(s) \/ EnterWait(s) \/ Expire(s)
          BY <4>1 DEF Subscribe, GiveUp, LetOthersWork, EnterWait, Expire, Answer
        <4>2. CASE \/ StartUpdate(s) \/ GrantEntry(s) \/ StartWait(s) \/ TimeOutWait(s)
                   \/ TimeOutNotified(s) \/ Reenter(s) \/ GrantReentry(s) \/ LeaveWait(s)
                   \/ Resume(s)
          BY <4>2 DEF StartUpdate, GrantEntry, StartWait, TimeOutWait, TimeOutNotified, Reenter,
                      GrantReentry, LeaveWait, Resume
        <4> QED  BY <2>2, <4>1, <4>2 DEF SubscriberStep
      <3> QED  BY <1>0, <3>1, GotoUnreported
    <2> QED  BY <2>1, <2>2
  <1> QED  BY <1>0, <1>1, <1>2, NewsStays

\* The cache before the answer, the pusher, the clients and the device.
LEMMA OthersNews ==
    ASSUME NewsInv, LockInv, DataInv,
           \/ \E t \in Tasks : CacheStep(t) \/ DeviceReads(t) \/ DeviceFails(t)
           \/ PushStep \/ DeviceChanges \/ Tick
           \/ \E r \in Readers : Read(r)
           \/ UNCHANGED vars
    PROVE  NewsInv' /\ UNCHANGED known
  <1>0. /\ now \in Int /\ Unreported /\ pc = [u \in Everybody |-> pc[u]]
        /\ Pusher \in Everybody /\ Tasks \subseteq Everybody /\ Readers \subseteq Tasks
        /\ \A u \in Tasks : u # Pusher /\ pc[u] # "reporting"
    <2>1. now \in Int
      BY CycleAssumption DEF DataInv
    <2>2. Pusher \notin Tasks
      BY CycleAssumption
    <2> QED  BY <2>1, <2>2 DEF Everybody, Tasks, NewsInv, LockInv, Unreported
  <1>1. ASSUME NEW t \in Tasks, CacheStep(t) \/ DeviceReads(t) \/ DeviceFails(t)
        PROVE  NewsInv' /\ UNCHANGED known
    <2>1. ~GrantReport(t)
      BY <1>0 DEF GrantReport
    <2>2. /\ UNCHANGED <<now, kv, known, shown>>
          /\ \/ Finish(t, pc, TRUE) \/ Finish(t, pc, FALSE)
             \/ Goto(t, "fetch") \/ Goto(t, "join") \/ Goto(t, "answered")
      BY <1>1, <2>1 DEF CacheStep, AnswerFromCache, BecomeFetcher, Join, AskAnyway, DeviceReads,
                        DeviceFails, cacheVars
    <2>3. Unreported'
      BY <1>0, <2>2, FinishUnreported, GotoUnreported
    <2> QED  BY <1>0, <2>2, <2>3, NewsStays
  <1>2. CASE PushStep
    <2>1. /\ UNCHANGED <<now, kv, known, shown>>
          /\ Goto(Pusher, "reporting") \/ pc' = [Notified(pc) EXCEPT ![Pusher] = "idle"]
      BY <1>2 DEF PushStep, Fire, GrantFire, cacheVars
    <2>2. Unreported'
      <3>1. CASE pc' = [Notified(pc) EXCEPT ![Pusher] = "idle"]
        BY <1>0, <3>1, NotifyUnreported DEF Unreported
      <3> QED  BY <1>0, <2>1, <3>1, GotoUnreported
    <2> QED  BY <1>0, <2>1, <2>2, NewsStays
  <1>3. CASE DeviceChanges \/ Tick \/ UNCHANGED vars
    <2>1. /\ UNCHANGED <<kv, known, shown>>
          /\ now' = now \/ now' = now + 1
          /\ Goto(Pusher, "fire") \/ UNCHANGED pc
      BY <1>3 DEF DeviceChanges, Tick, vars, cacheVars
    <2>2. Unreported'
      <3>1. CASE UNCHANGED pc
        BY <1>0, <3>1 DEF Unreported
      <3> QED  BY <1>0, <2>1, <3>1, GotoUnreported
    <2>3. now' \in Int /\ now <= now'
      BY <1>0, <2>1
    <2> QED  BY <2>1, <2>2, <2>3, NewsStays
  <1>4. ASSUME NEW r \in Readers, Read(r)
        PROVE  NewsInv' /\ UNCHANGED known
    <2>1. UNCHANGED <<now, kv, known, shown>> /\ Goto(r, "ask")
      BY <1>4 DEF Read
    <2>2. Unreported'
      BY <1>0, <2>1, GotoUnreported
    <2> QED  BY <1>0, <2>1, <2>2, NewsStays
  <1> QED  BY <1>1, <1>2, <1>3, <1>4

LEMMA NewsStep ==
    ASSUME NewsInv, LockInv, DataInv, [PromptNext]_vars
    PROVE  /\ NewsInv'
           /\ \A s \in Subscribers : /\ known'[s] >= known[s]
                                     /\ Deliver(s) => known'[s] > known[s]
  <1>0. /\ known \in [Subscribers -> Int]
        /\ UNCHANGED known => \A s \in Subscribers : known'[s] >= known[s]
    BY CycleAssumption DEF DataInv
  <1>1. ASSUME NEW s \in Subscribers, Deliver(s)
        PROVE  /\ NewsInv' /\ \A u \in Subscribers : known'[u] >= known[u]
               /\ known'[s] > known[s]
    BY <1>1, DeliverNews
  <1>2. ASSUME \A s \in Subscribers : ~Deliver(s)
        PROVE  NewsInv' /\ UNCHANGED known
    <2>1. CASE LoopStep
      BY <1>2, <2>1, FreezerNews, OthersNews DEF LoopStep
    <2>2. CASE Arrival
      BY <1>2, <2>2, FreezerNews, OthersNews DEF Arrival
    <2>3. CASE LoopIdle /\ Passing
      <3>1. LockFree
        BY <2>3, IdleIsUnlocked DEF LockFree
      <3> QED  BY <2>3, <3>1, ArriveNews, OthersNews DEF Passing
    <2>4. CASE UNCHANGED vars
      BY <2>4, OthersNews
    <2> QED  BY <2>1, <2>2, <2>3, <2>4 DEF PromptNext
  <1> QED  BY <1>0, <1>1, <1>2

LEMMA NewsInit ==
    ASSUME Init
    PROVE  NewsInv
  <1>1. /\ \A t \in Tasks : pc[t] = "idle"
        /\ kv.val = None /\ kv.ts = 0 /\ kv.change = 0 /\ now = 0
        /\ known = [s \in Subscribers |-> -1] /\ shown = [s \in Subscribers |-> None]
    BY DEF Init
  <1>2. Unreported /\ NothingMissed
    BY <1>1 DEF Unreported, NothingMissed
  <1> QED  BY <1>1, <1>2 DEF NewsInv

NewsAndTypes == LockInv /\ TypeInv /\ NewsInv

\* The invariant behind both: the value a client knows is not younger than the cache's,
\* and if it is another one, the cache's change is younger than it.
LEMMA NewsKept ==
    ASSUME NewsAndTypes, [PromptNext]_vars
    PROVE  /\ NewsAndTypes'
           /\ \A s \in Subscribers : /\ known'[s] >= known[s]
                                     /\ Deliver(s) => known'[s] > known[s]
  <1>1. [Next]_vars
    BY DEF PromptNext, Next
  <1>2. LockInv' /\ TypeInv'
    BY <1>1, LockStep, TypeStep DEF NewsAndTypes
  <1>3. DataInv
    BY TypeParts DEF NewsAndTypes
  <1> QED  BY <1>2, <1>3, NewsStep DEF NewsAndTypes

\* However many subscribers, readers and notifications: on a loop that is fast compared
\* with the unit of the clock, what a subscriber is sent is younger than what it knew.
THEOREM NewsIsDelivered == PromptSpec => DeliversNews
  <1>1. Init => NewsAndTypes
    BY LockInit, TypeInit, NewsInit DEF NewsAndTypes
  <1>2. NewsAndTypes /\ [PromptNext]_vars =>
            /\ NewsAndTypes'
            /\ [ \A s \in Subscribers : known'[s] >= known[s]
                  /\ (Deliver(s) => known'[s] > known[s]) ]_vars
    BY NewsKept
  <1> QED  BY <1>1, <1>2, PTL DEF PromptSpec, PromptNext, DeliversNews

\* And no change of the value is lost on it: whoever has another value than the cache
\* has a change to be told of.
THEOREM NothingIsMissed == PromptSpec => []NothingMissed
  <1>1. Init => NewsAndTypes
    BY LockInit, TypeInit, NewsInit DEF NewsAndTypes
  <1>2. NewsAndTypes /\ [PromptNext]_vars => NewsAndTypes'
    BY NewsKept
  <1>3. NewsAndTypes => NothingMissed
    BY DEF NewsAndTypes, NewsInv
  <1> QED  BY <1>1, <1>2, <1>3, PTL DEF PromptSpec, PromptNext
===============================================================================
