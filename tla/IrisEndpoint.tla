------------------------------ MODULE IrisEndpoint ------------------------------
(***************************************************************************)
(* The IRIS CCD connector (iris_ccd_connector.py) and one camera address:  *)
(* the datagram endpoint all calls share, the asyncio lock under which it  *)
(* is made and then used, and the datagrams on the way.                    *)
(*                                                                         *)
(* An action is what a call does between two points where it gives up the  *)
(* event loop: asyncio.Lock is taken without a pause when nobody holds it  *)
(* or waits for it, and is handed on in the order of arrival.  Datagrams   *)
(* overtake each other and get lost; a lost one is simply never delivered. *)
(***************************************************************************)
EXTENDS Naturals, Sequences, SequencesExt, FiniteSets

CONSTANTS Calls,  \* tasks in get or put of the connector, a command each
          None

ASSUME IrisAssumption == Calls \cap {None, "nothing", "error", "abandoned"} = {}

VARIABLES holder,   \* who holds the lock of the address
          queue,    \* who waits for it
          cached,   \* _endpoints[address]: a number, 0 if it is not there
          future,   \* for each endpoint made, its protocol's response_future
          closing,  \* endpoints whose transport is closing
          replies,  \* datagrams that may still arrive, and where
          place,    \* where each call waits, or how it ended
          endpoint, \* the endpoint it got in line 96
          cutOff    \* history: commands that ended without an answer, where and how

lockVars == <<holder, queue>>
irisVars == <<lockVars, cached, future, closing, replies, place, endpoint, cutOff>>

Ended == {"ok", "device error", "unreachable", "cancelled"}

Futures == [command : Calls, got : Calls \cup {"nothing", "error", "abandoned"}]

IrisInit == /\ holder = None /\ queue = <<>>
            /\ cached = 0 /\ future = <<>> /\ closing = {}
            /\ replies = {}
            /\ place = [c \in Calls |-> "new"]
            /\ endpoint = [c \in Calls |-> 0]
            /\ cutOff = {}

Put(c, where) == place' = [place EXCEPT ![c] = where]

CutOff(c, e, how) == cutOff' = cutOff \cup {[command |-> c, at |-> e, how |-> how]}

\* A mutation for the runs: there is no lock.
AlwaysFree == TRUE

Free == holder = None

\* asyncio.Lock.acquire does not wait if nobody else does.
Alone(waiting) == waiting = <<>>
-------------------------------------------------------------------------------
(* A command, from the lock to the socket.  In these operators nobody      *)
(* holds the lock and `waiting` are those who wait for it.                 *)

\* Lines 100-114, the lock taken.  A closing transport is dropped and a new
\* one asked for, under the lock that is held already.
Transmit(c, e, waiting) ==
    /\ holder' = c
    /\ endpoint' = [endpoint EXCEPT ![c] = e]
    /\ IF e \in closing
       THEN /\ cached' = 0
            /\ Put(c, "stuck")
            /\ queue' = Append(waiting, c)
            /\ CutOff(c, e, "stuck")
            /\ UNCHANGED <<future, replies>>
       ELSE /\ future' = [future EXCEPT ![e] = [command |-> c, got |-> "nothing"]]
            /\ replies' = replies \cup {[at |-> e, to |-> c]}
            /\ Put(c, "sent")
            /\ queue' = waiting
            /\ UNCHANGED <<cached, cutOff>>

\* Line 99, with the endpoint of line 96.
TakeTurn(c, e, waiting) ==
    \/ /\ Alone(waiting)
       /\ Transmit(c, e, waiting)
    \/ /\ ~Alone(waiting)
       /\ holder' = None
       /\ queue' = Append(waiting, c)
       /\ endpoint' = [endpoint EXCEPT ![c] = e]
       /\ Put(c, "turn")
       /\ UNCHANGED <<cached, future, replies, cutOff>>

\* _get_endpoint, the lock taken: a cached endpoint is returned at once.
LookUp(c, waiting) ==
    \/ cached # 0 /\ TakeTurn(c, cached, waiting)
    \/ /\ cached = 0
       /\ holder' = c
       /\ queue' = waiting
       /\ Put(c, "creating")
       /\ UNCHANGED <<cached, future, replies, endpoint, cutOff>>

\* _get_endpoint from line 96.
GetEndpoint(c, waiting) ==
    \/ Alone(waiting) /\ LookUp(c, waiting)
    \/ /\ ~Alone(waiting)
       /\ holder' = None
       /\ queue' = Append(waiting, c)
       /\ Put(c, "asking")
       /\ UNCHANGED <<cached, future, replies, endpoint, cutOff>>

\* get or put.
BeginCall(c) ==
    /\ place[c] = "new"
    /\ \/ Free /\ GetEndpoint(c, queue)
       \/ /\ ~Free
          /\ queue' = Append(queue, c)
          /\ Put(c, "asking")
          /\ UNCHANGED <<holder, cached, future, replies, endpoint, cutOff>>
    /\ UNCHANGED closing

\* The lock is handed to the first who waits for it.
Wake(c) ==
    /\ Free
    /\ queue # <<>> /\ Head(queue) = c
    /\ \/ place[c] = "asking" /\ LookUp(c, Tail(queue))
       \/ place[c] = "turn" /\ Transmit(c, endpoint[c], Tail(queue))
    /\ UNCHANGED closing

\* create_datagram_endpoint is done; its protocol has a future nobody waits for.
Created(c) ==
    LET e == Len(future) + 1
        made == Append(future, [command |-> c, got |-> "nothing"])
    IN  /\ place[c] = "creating"
        /\ cached' = e
        /\ endpoint' = [endpoint EXCEPT ![c] = e]
        /\ \/ /\ Alone(queue)
              /\ future' = made
              /\ replies' = replies \cup {[at |-> e, to |-> c]}
              /\ Put(c, "sent")
              /\ UNCHANGED lockVars
           \/ /\ ~Alone(queue)
              /\ future' = [made EXCEPT ![e].got = "abandoned"]
              /\ holder' = None
              /\ queue' = Append(queue, c)
              /\ Put(c, "turn")
              /\ UNCHANGED replies
        /\ UNCHANGED <<closing, cutOff>>

CreateFails(c) ==
    /\ place[c] = "creating"
    /\ holder' = None
    /\ Put(c, "unreachable")
    /\ UNCHANGED <<queue, cached, future, closing, replies, endpoint, cutOff>>
-------------------------------------------------------------------------------
(* The answer.                                                             *)

Awaited(c) == place[c] = "sent" /\ future[endpoint[c]].got = "nothing"
Got(c) == future[endpoint[c]].got

\* async with ends, with the socket as it is.
Finish(c, outcome) ==
    /\ holder' = None
    /\ Put(c, outcome)
    /\ UNCHANGED <<queue, cached, future, replies, endpoint>>

\* The future is done: OKAY, another text (2002), or an error of the socket
\* (4005).
Answered(c) ==
    /\ place[c] = "sent"
    /\ \/ /\ Got(c) \in Calls
          /\ Finish(c, "ok") \/ Finish(c, "device error")
          /\ UNCHANGED cutOff
       \/ /\ Got(c) = "error"
          /\ Finish(c, "unreachable")
          /\ CutOff(c, endpoint[c], "error")
    /\ UNCHANGED closing

\* "Force reconnect on timeout to be safe": the transport is not closed.
ForgetEndpoint == 0

\* wait_for cancels the future.
Abandon(c) == future' = [future EXCEPT ![endpoint[c]].got = "abandoned"]

TimeOut(c) ==
    /\ Awaited(c)
    /\ Abandon(c)
    /\ cached' = ForgetEndpoint
    /\ CutOff(c, endpoint[c], "timeout")
    /\ holder' = None
    /\ Put(c, "unreachable")
    /\ UNCHANGED <<queue, closing, replies, endpoint>>

\* The request is over its time, or given up by the router.  CancelledError is
\* no Exception: the endpoint stays where it is.
CancelCall(c) ==
    /\ place[c] \notin Ended \cup {"new"}
    /\ holder' = IF holder = c THEN None ELSE holder
    /\ queue' = RemoveFirst(queue, c)
    /\ IF place[c] = "sent" THEN Abandon(c) /\ CutOff(c, endpoint[c], "cancelled")
                            ELSE UNCHANGED <<future, cutOff>>
    /\ Put(c, "cancelled")
    /\ UNCHANGED <<cached, closing, replies, endpoint>>
-------------------------------------------------------------------------------
(* The network: IrisCcdProtocol.                                           *)

\* datagram_received: who the datagram is for is not known.
Receive(r) ==
    /\ r \in replies
    /\ r.at \notin closing
    /\ replies' = replies \ {r}
    /\ future' = IF future[r.at].got = "nothing"
                 THEN [future EXCEPT ![r.at].got = r.to] ELSE future
    /\ UNCHANGED <<lockVars, cached, closing, place, endpoint, cutOff>>

\* error_received, and connection_lost with the transport closing.
SocketError(e, lost) ==
    /\ e \in DOMAIN future \ closing
    /\ \/ lost
       \/ future[e].got = "nothing"
    /\ future' = IF future[e].got = "nothing"
                 THEN [future EXCEPT ![e].got = "error"] ELSE future
    /\ closing' = IF lost THEN closing \cup {e} ELSE closing
    /\ UNCHANGED <<lockVars, cached, replies, place, endpoint, cutOff>>
-------------------------------------------------------------------------------
CallStep(c) == Wake(c) \/ Created(c) \/ CreateFails(c) \/ Answered(c) \/ TimeOut(c)

IrisNext == \/ \E c \in Calls : BeginCall(c) \/ CallStep(c) \/ CancelCall(c)
            \/ \E r \in replies : Receive(r)
            \/ \E e \in DOMAIN future, lost \in BOOLEAN : SocketError(e, lost)

IrisSpec == IrisInit /\ [][IrisNext]_irisVars
-------------------------------------------------------------------------------
IrisTypeOK ==
    /\ holder \in Calls \cup {None}
    /\ queue \in Seq(Calls)
    /\ future \in Seq(Futures)
    /\ cached \in 0 .. Len(future)
    /\ closing \subseteq DOMAIN future
    /\ replies \subseteq [at : DOMAIN future, to : Calls]
    /\ place \in [Calls -> {"new", "asking", "creating", "turn", "stuck", "sent"} \cup Ended]
    /\ endpoint \in [Calls -> 0 .. Len(future)]
    /\ cutOff \subseteq [command : Calls, at : DOMAIN future, how : {"timeout", "cancelled", "stuck", "error"}]

Cut(how) == {x.at : x \in {y \in cutOff : y.how = how}}

(* One command at a time uses the socket ("Lock per address to ensure      *)
(* sequential request-response on the same socket", line 98): the future   *)
(* of the protocol is the one of the call that waits for it.               *)
OneAtATime ==
    \A c \in Calls : place[c] = "sent" =>
        /\ holder = c
        /\ future[endpoint[c]].command = c

(* A call is handed the answer to another command only on a socket that a  *)
(* command gave up on before, cancelled, timed out or refused by an error   *)
(* of the socket: no interleaving of calls alone mixes up their answers.   *)
WrongAnswerHasCause ==
    \A c \in Calls : place[c] = "sent" /\ Got(c) \in Calls \ {c}
        => endpoint[c] \in Cut("timeout") \cup Cut("cancelled") \cup Cut("error")

(* A dropped socket is never closed, but a new one is made only when one   *)
(* was dropped: by a time-out or because its transport was closing.        *)
SocketsBounded ==
    Len(future) <= 1 + Cardinality({x \in cutOff : x.how \in {"timeout", "stuck"}})

(* "Reconnect logic if needed" (line 101): a call that finds its transport *)
(* closed gets another, and does not wait for the lock it holds.           *)
Reconnects == \A c \in Calls : holder = c => c \notin ToSet(queue)

(* "to ensure sequential request-response on the same socket" (line 98):   *)
(* a call gets the answer to its own command.                              *)
AnswersMatch ==
    \A c \in Calls : place[c] = "sent" /\ Got(c) \in Calls
        => Got(c) = c
===============================================================================
