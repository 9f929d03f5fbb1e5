-------------------------------- MODULE PilarPool --------------------------------
(***************************************************************************)
(* The connections of the Pilar connector (pilar_connector.py) to one      *)
(* address: the pool of TCP connections and the pool of command ids that   *)
(* are taken for each command and given back after it, the lock under      *)
(* which the pool is made, the breaker that keeps off an unreachable       *)
(* Pilar, and the lock of one resource (the mount, say) that is held       *)
(* through a command that moves it.                                        *)
(*                                                                         *)
(* An action is what a command does between two points where it gives up   *)
(* the event loop.  A time-out may strike at any time, and so may the      *)
(* cancellation of a command by the request it works for.  The order of    *)
(* the two queues is left open.                                            *)
(***************************************************************************)
EXTENDS Naturals, FiniteSets

CONSTANTS Commands,      \* tasks that talk to this address
          Moves,         \* those that need the resource
          Ids,           \* id_pool_range
          Connections,   \* TCP connections that can be told apart
          PoolSize,      \* connection_pool_size
          None

ASSUME PilarAssumption == /\ Moves \subseteq Commands
                          /\ PoolSize \in Nat \ {0}
                          /\ IsFiniteSet(Connections)
                          /\ None \notin Commands \cup Ids \cup Connections

VARIABLES up,           \* Pilar accepts connections, and in time
          dead,         \* connections Pilar no longer serves
          hasPool,      \* address in _connection_pools
          hasIds,       \* address in _id_pools
          idle,         \* the connections in the pool
          freeIds,      \* the ids in theirs
          suppressed,   \* before _reconnect_suppressed_until
          pc,           \* where each command waits
          cmdId,        \* the id it has
          conn,         \* the connection it has
          mover         \* who holds the lock of the resource

pools == <<hasPool, hasIds, idle, freeIds>>
held  == <<cmdId, conn>>
vars  == <<up, dead, pools, suppressed, pc, held, mover>>

Init == /\ up \in BOOLEAN
        /\ dead = {}
        /\ hasPool = FALSE /\ hasIds = FALSE
        /\ idle = {} /\ freeIds = {}
        /\ suppressed = FALSE
        /\ pc = [c \in Commands |-> "done"]
        /\ cmdId = [c \in Commands |-> None]
        /\ conn = [c \in Commands |-> None]
        /\ mover = None

Goto(c, place) == pc' = [pc EXCEPT ![c] = place]

InHand == {conn[c] : c \in Commands} \ {None}
Opened == idle \cup InHand

\* A mutation for the runs: the lock of the resource outlasts a failure.
KeepResource(c) == UNCHANGED mover

\* async with lock: released however the command ends.
ReleaseResource(c) == mover' = IF mover = c THEN None ELSE mover

\* The command ends, with a result or an error.
Leave(c) == Goto(c, "done") /\ ReleaseResource(c)
-------------------------------------------------------------------------------
(* From the request to an id and a connection.                             *)

\* The breaker is open: code 4005.
Unreachable == ~hasPool /\ suppressed

\* _ensure_connected before its lock.
Ensure(c) == Goto(c, IF hasPool THEN "id" ELSE "connlock")

\* get, and put of what needs no resource; an unreachable Pilar ends it at once.
Begin(c) ==
    /\ pc[c] = "done"
    /\ c \notin Moves
    /\ ~Unreachable
    /\ Ensure(c)
    /\ UNCHANGED <<up, dead, pools, suppressed, held, mover>>

\* put of a command in resource_locks.
BeginMove(c) ==
    /\ pc[c] = "done"
    /\ c \in Moves
    /\ Goto(c, "resource")
    /\ UNCHANGED <<up, dead, pools, suppressed, held, mover>>

TakeResource(c) ==
    /\ pc[c] = "resource"
    /\ mover = None
    /\ IF Unreachable THEN Leave(c)
                      ELSE Ensure(c) /\ mover' = c
    /\ UNCHANGED <<up, dead, pools, suppressed, held>>

\* Mutations for the runs: the second look under the lock is dropped.
ForgetsPool(c) == ~suppressed
ForgetsBreaker(c) == ~hasPool

\* The second look, under the lock.
MustConnect(c) == ~hasPool /\ ~suppressed

\* The lock is held while the connections are made, and then only.  The pool
\* of ids is made once.
EnterConnect(c) ==
    /\ pc[c] = "connlock"
    /\ \A d \in Commands : pc[d] # "connecting"
    /\ IF MustConnect(c) THEN /\ Goto(c, "connecting")
                              /\ hasIds' = TRUE
                              /\ freeIds' = IF hasIds THEN freeIds ELSE Ids
                              /\ UNCHANGED mover
       ELSE /\ IF hasPool THEN Goto(c, "id") /\ UNCHANGED mover ELSE Leave(c)
            /\ UNCHANGED <<hasIds, freeIds>>
    /\ UNCHANGED <<up, dead, hasPool, idle, suppressed, held>>

\* PoolSize connections were tried at once, and at least one was made.
Connected(c) ==
    /\ pc[c] = "connecting"
    /\ up
    /\ \E made \in SUBSET (Connections \ Opened) :
          /\ made # {}
          /\ Cardinality(made) <= PoolSize
          /\ idle' = made
          /\ dead' = dead \ made
    /\ hasPool' = TRUE
    /\ suppressed' = FALSE
    /\ Goto(c, "id")
    /\ UNCHANGED <<up, hasIds, freeIds, held, mover>>

ConnectFails(c) ==
    /\ pc[c] = "connecting"
    /\ ~up
    /\ suppressed' = TRUE
    /\ Leave(c)
    /\ UNCHANGED <<up, dead, pools, held>>

\* _get_connection_resources: an id first, then a connection.
TakeId(c) ==
    /\ pc[c] = "id"
    /\ \E i \in freeIds : /\ cmdId' = [cmdId EXCEPT ![c] = i]
                          /\ freeIds' = freeIds \ {i}
    /\ Goto(c, "conn")
    /\ UNCHANGED <<up, dead, hasPool, hasIds, idle, suppressed, conn, mover>>

TakeConnection(c) ==
    /\ pc[c] = "conn"
    /\ \E n \in idle : /\ conn' = [conn EXCEPT ![c] = n]
                       /\ idle' = idle \ {n}
    /\ Goto(c, "executing")
    /\ UNCHANGED <<up, dead, hasPool, hasIds, freeIds, suppressed, cmdId, mover>>

\* The wait for either times out; the id in hand is not given back.
GiveUp(c) ==
    /\ pc[c] \in {"id", "conn"}
    /\ cmdId' = [cmdId EXCEPT ![c] = None]
    /\ Leave(c)
    /\ UNCHANGED <<up, dead, pools, suppressed, conn>>
-------------------------------------------------------------------------------
(* The command and what becomes of the id and the connection.              *)

\* A mutation for the runs: the id is given back after it is forgotten.
ReturnForgotten(c) == /\ freeIds' = freeIds \cup {None}
                      /\ cmdId' = [cmdId EXCEPT ![c] = None]

ReturnId(c) == /\ freeIds' = freeIds \cup {cmdId[c]}
               /\ cmdId' = [cmdId EXCEPT ![c] = None]

\* Pilar answered, with COMMAND COMPLETE or with an error.
Complete(c) ==
    /\ pc[c] = "executing"
    /\ conn[c] \notin dead
    /\ idle' = idle \cup {conn[c]}
    /\ conn' = [conn EXCEPT ![c] = None]
    /\ ReturnId(c)
    /\ Leave(c)
    /\ UNCHANGED <<up, dead, hasPool, hasIds, suppressed>>

\* A mutation for the runs: the broken connection goes back into the pool, too.
CloseAndReturn(c) == /\ idle' = idle \cup {conn[c]}
                     /\ UNCHANGED <<conn, dead>>

\* writer.close(): the broken connection is gone.
Close(c) == /\ conn' = [conn EXCEPT ![c] = None]
            /\ dead' = dead \ {conn[c]}
            /\ UNCHANGED idle

\* Broken or timed out: it is closed and replaced.
Break(c) ==
    /\ pc[c] = "executing"
    /\ Close(c)
    /\ Goto(c, "replacing")
    /\ UNCHANGED <<up, hasPool, hasIds, freeIds, suppressed, cmdId, mover>>

Replaced(c) ==
    /\ pc[c] = "replacing"
    /\ up
    /\ \E n \in Connections \ Opened : idle' = idle \cup {n}
    /\ ReturnId(c)
    /\ Leave(c)
    /\ UNCHANGED <<up, dead, hasPool, hasIds, suppressed, conn>>

\* No replacement: the pool has shrunk.
ReplaceFails(c) ==
    /\ pc[c] = "replacing"
    /\ ~up
    /\ ReturnId(c)
    /\ Leave(c)
    /\ UNCHANGED <<up, dead, hasPool, hasIds, idle, suppressed, conn>>

\* The request is cancelled while its command works: the finally clause gives
\* back a connection that is not known to be broken.
CancelExecute(c) ==
    /\ pc[c] = "executing"
    /\ idle' = idle \cup {conn[c]}
    /\ conn' = [conn EXCEPT ![c] = None]
    /\ ReturnId(c)
    /\ Leave(c)
    /\ UNCHANGED <<up, dead, hasPool, hasIds, suppressed>>

\* Anywhere else it takes what it has along: no except clause catches it.
CancelElsewhere(c) ==
    /\ pc[c] \in {"resource", "connlock", "connecting", "id", "conn", "replacing"}
    /\ cmdId' = [cmdId EXCEPT ![c] = None]
    /\ Leave(c)
    /\ UNCHANGED <<up, dead, pools, suppressed, conn>>
-------------------------------------------------------------------------------
(* Pilar and the clock.                                                    *)

GoDown == /\ up
          /\ up' = FALSE
          /\ dead' = Opened
          /\ UNCHANGED <<pools, suppressed, pc, held, mover>>

GoUp == /\ ~up
        /\ up' = TRUE
        /\ UNCHANGED <<dead, pools, suppressed, pc, held, mover>>

CooldownEnds == /\ suppressed
                /\ suppressed' = FALSE
                /\ UNCHANGED <<up, dead, pools, pc, held, mover>>
-------------------------------------------------------------------------------
\* What a command does on its own, time-outs included.
Advance(c) == \/ Connected(c) \/ ConnectFails(c)
              \/ TakeId(c) \/ TakeConnection(c) \/ GiveUp(c)
              \/ Complete(c) \/ Break(c) \/ Replaced(c) \/ ReplaceFails(c)

Queue(c) == TakeResource(c) \/ EnterConnect(c)

Request(c) == Begin(c) \/ BeginMove(c)

Cancel(c) == CancelExecute(c) \/ CancelElsewhere(c)

Next == \/ \E c \in Commands : Advance(c) \/ Queue(c) \/ Request(c) \/ Cancel(c)
        \/ GoDown \/ GoUp \/ CooldownEnds

Spec == Init /\ [][Next]_vars

(* Every await of a command has a time-out, asyncio.Lock serves whoever    *)
(* waits in turn, and the breaker's time passes.  That of execute starts   *)
(* anew with each line Pilar sends (lines 45-47): as long as lines for     *)
(* others keep coming only the request's own time-out ends the command.    *)
Fairness == /\ \A c \in Commands : /\ WF_vars(Advance(c) \/ CancelExecute(c))
                                   /\ SF_vars(Queue(c))
            /\ WF_vars(CooldownEnds)

FairSpec == Spec /\ Fairness

\* The clients keep asking, as the subscribers of a telescope do, and get the
\* connection or the id if there is one.
BusySpec == /\ FairSpec
            /\ \A c \in Commands : /\ WF_vars(Request(c))
                                   /\ SF_vars(TakeId(c) \/ TakeConnection(c))
                                   /\ SF_vars(Replaced(c))
-------------------------------------------------------------------------------
TypeOK ==
    /\ up \in BOOLEAN /\ hasPool \in BOOLEAN
    /\ hasIds \in BOOLEAN /\ suppressed \in BOOLEAN
    /\ dead \subseteq Connections
    /\ idle \subseteq Connections
    /\ freeIds \subseteq Ids
    /\ pc \in [Commands -> {"done", "resource", "connlock", "connecting",
                            "id", "conn", "executing", "replacing"}]
    /\ cmdId \in [Commands -> Ids \cup {None}]
    /\ conn \in [Commands -> Connections \cup {None}]
    /\ mover \in Moves \cup {None}

(* What a command uses is its own: no other command has its id or its      *)
(* connection, and neither waits in a pool to be given out again, whatever *)
(* breaks, is replaced or is cancelled on the way.  A shared id or socket  *)
(* would hand one command the answer to another (execute, lines 57-58).    *)
NothingShared ==
    /\ \A c, d \in Commands : c # d =>
         /\ cmdId[c] # None => cmdId[c] # cmdId[d]
         /\ conn[c] # None => conn[c] # conn[d]
    /\ \A c \in Commands : cmdId[c] \notin freeIds /\ conn[c] \notin idle

(* There are never more than connection_pool_size connections, in the pool *)
(* and in hand, although any number of requests may find the pool missing  *)
(* at once and every broken connection is replaced.                        *)
PoolBounded == Cardinality(Opened) <= PoolSize

(* While the breaker is open nobody tries to connect: not even a request   *)
(* that found it closed and then queued behind the failing attempt.        *)
BreakerHolds ==
    [][ \A c \in Commands : suppressed /\ pc'[c] = "connecting"
                                => pc[c] = "connecting" ]_vars

Moving(c) == c \in Moves /\ pc[c] \notin {"done", "resource"}

(* The lock of the resource is held by the command that moves it for       *)
(* exactly as long as that works: two moves never mix, and no failed or    *)
(* cancelled one leaves the mount locked.                                  *)
LockFollowsMove == \A c \in Commands : Moving(c) <=> mover = c

(* Every command ends, by its time-outs at the latest, even if Pilar never *)
(* answers and the pool is dry.                                            *)
EveryCommandEnds == \A c \in Commands : pc[c] # "done" ~> pc[c] = "done"

(* "returns the resources to the pool after the command" (docstring of     *)
(* _return_connection_resources, line 277): an id is free or in use.       *)
NoIdLost == hasIds => Ids \subseteq freeIds \cup {cmdId[c] : c \in Commands}

(* "so that the pool heals itself after a restart of Pilar" (line 279):    *)
(* once Pilar is back for good there is a connection it serves again.      *)
Heals == <>[]up => []<>(Opened \ dead # {} \/ ~hasPool)
===============================================================================
