----------------------------- MODULE IrisEndpointProofs -----------------------------
(***************************************************************************)
(* Theorems about IrisEndpoint for any set of calls.  The lock admits one  *)
(* call to the socket, so a datagram finds the future of the call that     *)
(* holds the lock; IrisInv adds what is true of the datagrams still on     *)
(* their way: each belongs to the call that waits for it, or to one that   *)
(* gave its socket up.  A step of a call is one of four kinds, which say   *)
(* what it does to the futures and the datagrams and leave the queue of    *)
(* the lock aside.  Of the queue LineInv says that exactly the calls that  *)
(* wait are in it, each once: so a call that has ended left it.            *)
(***************************************************************************)
EXTENDS IrisEndpoint, Facts

Endpoints == 1 .. Len(future)

\* Before the socket, or in vain.
Underway == {"asking", "turn", "creating", "stuck"}
Places   == {"new", "sent"} \cup Underway \cup Ended

IrisTypes ==
    /\ holder \in Calls \cup {None}
    /\ future \in Seq(Futures)
    /\ cached \in 0 .. Len(future)
    /\ replies \subseteq [at : Endpoints, to : Calls]
    /\ place \in [Calls -> Places]
    /\ endpoint \in [Calls -> 0 .. Len(future)]

\* A command on this socket ended without an answer.
Gone(e) == \E x \in cutOff : x.at = e /\ x.how \in {"timeout", "cancelled", "error"}

IrisInv ==
    /\ IrisTypes
    /\ \A c \in Calls : place[c] \in {"creating", "sent"} => holder = c
    /\ \A c \in Calls : place[c] \in {"turn", "sent"} => endpoint[c] \in Endpoints
    /\ \A c \in Calls : place[c] = "sent" =>
          /\ future[endpoint[c]].command = c
          /\ Got(c) \in Calls \ {c} => Gone(endpoint[c])
    /\ \A r \in replies :
          /\ endpoint[r.to] = r.at
          /\ \/ place[r.to] = "sent" /\ Got(r.to) # r.to
             \/ place[r.to] \in Ended /\ Gone(r.at)
-------------------------------------------------------------------------------
(* The kinds of steps of a call.                                           *)

\* It comes nearer to the socket, with an endpoint, without one, or stuck.
Approaches(c) ==
    /\ place[c] \in {"new", "asking", "turn"}
    /\ cutOff \subseteq cutOff'
    /\ cached' \in {0, cached}
    /\ UNCHANGED <<future, replies>>
    /\ holder' = holder \/ (holder = None /\ holder' = c)
    /\ \E p \in Underway, e \in 0 .. Len(future) :
          /\ place' = [place EXCEPT ![c] = p]
          /\ endpoint' = [endpoint EXCEPT ![c] = e]
          /\ p = "turn" => e # 0
          /\ p = "creating" => holder' = c

\* It has the lock and sends.
Sends(c) ==
    /\ place[c] \in {"new", "asking", "turn"}
    /\ UNCHANGED <<cached, cutOff>>
    /\ holder = None /\ holder' = c
    /\ place' = [place EXCEPT ![c] = "sent"]
    /\ \E e \in Endpoints :
          /\ endpoint' = [endpoint EXCEPT ![c] = e]
          /\ future' = [future EXCEPT ![e] = [command |-> c, got |-> "nothing"]]
          /\ replies' = replies \cup {[at |-> e, to |-> c]}

\* It ends; if it waited for an answer, with its own or giving the socket up.
Ends(c) ==
    /\ place[c] \in {"sent"} \cup Underway
    /\ cutOff \subseteq cutOff'
    /\ cached' \in {0, cached}
    /\ UNCHANGED <<replies, endpoint>>
    /\ holder' = IF holder = c THEN None ELSE holder
    /\ \E p \in Ended : place' = [place EXCEPT ![c] = p]
    /\ \/ place[c] # "sent" /\ UNCHANGED future
       \/ /\ place[c] = "sent"
          /\ Got(c) = c \/ Gone(endpoint[c])'
          /\ \/ UNCHANGED future
             \/ future' = [future EXCEPT ![endpoint[c]].got = "abandoned"]

\* The lock taken, with an endpoint.
LEMMA TransmitKinds ==
    ASSUME IrisInv, NEW c \in Calls, holder = None,
           place[c] \in {"new", "asking", "turn"},
           NEW e \in Endpoints, NEW waiting, Transmit(c, e, waiting)
    PROVE  Approaches(c) \/ Sends(c)
  <1>1. CASE e \in closing
    <2>1. e \in 0 .. Len(future) /\ "stuck" \in Underway
      BY DEF Endpoints, Underway
    <2> QED  BY <1>1, <2>1 DEF Transmit, Approaches, CutOff, Put
  <1>2. CASE e \notin closing
    BY <1>2 DEF Transmit, Sends, Put
  <1> QED  BY <1>1, <1>2

\* The lock taken, in _get_endpoint.
LEMMA LookUpKinds ==
    ASSUME IrisInv, NEW c \in Calls, holder = None,
           place[c] \in {"new", "asking"},
           NEW waiting, LookUp(c, waiting)
    PROVE  Approaches(c) \/ Sends(c)
  <1>0. /\ endpoint \in [Calls -> 0 .. Len(future)] /\ cached \in 0 .. Len(future)
        /\ endpoint = [endpoint EXCEPT ![c] = endpoint[c]]
    BY DEF IrisInv, IrisTypes
  <1>1. CASE cached # 0 /\ TakeTurn(c, cached, waiting)
    <2>1. cached \in Endpoints
      BY <1>0, <1>1 DEF Endpoints
    <2>2. CASE Transmit(c, cached, waiting)
      BY <2>1, <2>2, TransmitKinds
    <2>3. CASE ~Alone(waiting)
      BY <1>0, <1>1, <2>3 DEF TakeTurn, Approaches, Underway, Put
    <2> QED  BY <1>1, <2>2, <2>3 DEF TakeTurn
  <1>2. CASE cached = 0
    <2>1. "creating" \in Underway /\ "creating" # "turn"
      BY DEF Underway
    <2> QED  BY <1>0, <1>2, <2>1 DEF LookUp, Approaches, Put
  <1> QED  BY <1>1, <1>2 DEF LookUp

\* A call that begins.
LEMMA BeginCallKinds ==
    ASSUME IrisInv, NEW c \in Calls, BeginCall(c)
    PROVE  Approaches(c) \/ Sends(c)
  <1>0. /\ endpoint \in [Calls -> 0 .. Len(future)]
        /\ endpoint = [endpoint EXCEPT ![c] = endpoint[c]]
    BY DEF IrisInv, IrisTypes
  <1>1. CASE Free /\ LookUp(c, queue)
    BY <1>1, LookUpKinds DEF BeginCall, Free
  <1>2. CASE /\ Free /\ holder' = None
             /\ Put(c, "asking")
             /\ UNCHANGED <<cached, future, replies, endpoint, cutOff>>
    BY <1>0, <1>2 DEF BeginCall, Free, Approaches, Underway, Put
  <1>3. CASE ~Free
    BY <1>0, <1>3 DEF BeginCall, Approaches, Underway, Put
  <1> QED  BY <1>1, <1>2, <1>3 DEF BeginCall, GetEndpoint

\* A call the lock is handed to.
LEMMA WakeKinds ==
    ASSUME IrisInv, NEW c \in Calls, Wake(c)
    PROVE  Approaches(c) \/ Sends(c)
  <1>1. CASE place[c] = "asking" /\ LookUp(c, Tail(queue))
    BY <1>1, LookUpKinds DEF Wake, Free
  <1>2. CASE place[c] = "turn" /\ Transmit(c, endpoint[c], Tail(queue))
    <2>1. endpoint[c] \in Endpoints
      BY <1>2 DEF IrisInv
    <2> QED  BY <1>2, <2>1, TransmitKinds DEF Wake, Free
  <1> QED  BY <1>1, <1>2 DEF Wake

\* What is recorded of a command that ends without an answer.
LEMMA CutOffGone ==
    ASSUME NEW c, NEW how \in {"timeout", "cancelled", "error"},
           CutOff(c, endpoint[c], how), UNCHANGED endpoint
    PROVE  Gone(endpoint[c])' /\ cutOff \subseteq cutOff'
  <1> DEFINE x == [command |-> c, at |-> endpoint[c], how |-> how]
  <1>1. cutOff' = cutOff \cup {x}
    BY DEF CutOff
  <1>2. x.at = endpoint'[c] /\ x.how \in {"timeout", "cancelled", "error"}
    OBVIOUS
  <1> HIDE DEF x
  <1>3. x \in cutOff'
    BY <1>1
  <1> QED  BY <1>1, <1>2, <1>3 DEF Gone

\* A call that ends.
LEMMA EndKinds ==
    ASSUME IrisInv, NEW c \in Calls,
           CreateFails(c) \/ Answered(c) \/ TimeOut(c) \/ CancelCall(c)
    PROVE  Ends(c)
  <1>0. /\ place[c] \in Places
        /\ place[c] \in {"creating", "sent"} => holder = c
        /\ place[c] = "sent" /\ Got(c) \in Calls \ {c} => Gone(endpoint[c])
    BY DEF IrisInv, IrisTypes
  <1>1. CASE CreateFails(c)
    BY <1>0, <1>1 DEF CreateFails, Ends, Underway, Ended, Put
  <1>2. CASE Answered(c)
    <2>1. /\ place[c] = "sent" /\ holder = c /\ holder' = None
          /\ UNCHANGED <<cached, future, replies, endpoint>>
          /\ \E p \in Ended : place' = [place EXCEPT ![c] = p]
          /\ cutOff \subseteq cutOff'
      BY <1>0, <1>2 DEF Answered, Finish, Put, CutOff, Ended
    <2>2. CASE Got(c) \in Calls
      <3>1. Got(c) = c \/ Gone(endpoint[c])'
        BY <1>0, <2>1, <2>2 DEF Gone
      <3> QED  BY <2>1, <3>1 DEF Ends
    <2>3. CASE CutOff(c, endpoint[c], "error")
      <3>1. Gone(endpoint[c])'
        BY <2>1, <2>3, CutOffGone
      <3> QED  BY <2>1, <3>1 DEF Ends
    <2> QED  BY <1>2, <2>2, <2>3 DEF Answered
  <1>3. CASE TimeOut(c)
    <2>1. /\ place[c] = "sent" /\ holder = c
          /\ Gone(endpoint[c])' /\ cutOff \subseteq cutOff'
      BY <1>0, <1>3, CutOffGone DEF TimeOut, Awaited
    <2> QED  BY <1>3, <2>1 DEF TimeOut, Ends, Abandon, ForgetEndpoint, Put, Ended
  <1>4. CASE CancelCall(c)
    <2>1. place[c] \in {"sent"} \cup Underway
      BY <1>0, <1>4 DEF CancelCall, Places
    <2>2. "cancelled" \in Ended
      BY DEF Ended
    <2>3. CASE place[c] = "sent"
      <3>1. Gone(endpoint[c])' /\ cutOff \subseteq cutOff'
        BY <1>4, <2>3, CutOffGone DEF CancelCall
      <3> QED  BY <1>4, <2>1, <2>2, <2>3, <3>1 DEF CancelCall, Ends, Abandon, Put
    <2>4. CASE place[c] # "sent"
      BY <1>4, <2>1, <2>2, <2>4 DEF CancelCall, Ends, Put
    <2> QED  BY <2>3, <2>4
  <1> QED  BY <1>1, <1>2, <1>3, <1>4
-------------------------------------------------------------------------------
(* The invariant through each kind of step.                                *)

\* A future is done, with what came for it.
LEMMA FutureStays ==
    ASSUME future \in Seq(Futures), NEW e \in Endpoints,
           NEW x \in Calls \cup {"nothing", "error", "abandoned"}
    PROVE  LET f == [future EXCEPT ![e].got = x]
           IN  /\ f \in Seq(Futures) /\ Len(f) = Len(future)
               /\ \A i \in Endpoints : /\ f[i].command = future[i].command
                                       /\ f[i].got = IF i = e THEN x ELSE future[i].got
  <1> DEFINE y == [future[e] EXCEPT !.got = x]
             f == [future EXCEPT ![e] = y]
  <1>1. future[e] \in Futures
    BY DEF Endpoints
  <1>2. y \in Futures /\ y.command = future[e].command /\ y.got = x
    BY <1>1 DEF Futures
  <1>3. f = [future EXCEPT ![e].got = x]
    OBVIOUS
  <1> HIDE DEF y
  <1>4. f \in Seq(Futures) /\ Len(f) = Len(future)
    BY <1>2 DEF Endpoints
  <1>5. \A i \in Endpoints : f[i] = IF i = e THEN y ELSE future[i]
    BY DEF Endpoints
  <1> QED  BY <1>2, <1>3, <1>4, <1>5

\* A call that comes nearer to the socket.
LEMMA ApproachKeeps ==
    ASSUME IrisInv, NEW c \in Calls, Approaches(c)
    PROVE  IrisInv'
  <1> USE IrisAssumption
  <1>0. IrisTypes
    BY DEF IrisInv
  <1>1. PICK p \in Underway, e \in 0 .. Len(future) :
          /\ place' = [place EXCEPT ![c] = p]
          /\ endpoint' = [endpoint EXCEPT ![c] = e]
          /\ p = "turn" => e # 0
          /\ p = "creating" => holder' = c
    BY DEF Approaches
  <1>2. /\ future' = future /\ replies' = replies /\ Endpoints' = Endpoints
        /\ cutOff \subseteq cutOff'
    BY DEF Approaches, Endpoints
  <1>3. IrisTypes'
    <2>1. place' \in [Calls -> Places]
      BY <1>0, <1>1 DEF IrisTypes, Places
    <2>2. endpoint' \in [Calls -> 0 .. Len(future)]
      BY <1>0, <1>1 DEF IrisTypes
    <2>3. cached' \in 0 .. Len(future) /\ holder' \in Calls \cup {None}
      BY <1>0 DEF IrisTypes, Approaches
    <2> QED  BY <1>0, <1>2, <2>1, <2>2, <2>3 DEF IrisTypes
  <1>4. ASSUME NEW d \in Calls, place'[d] \in {"creating", "sent"}
        PROVE  holder' = d
    <2>1. CASE d = c
      BY <1>0, <1>1, <1>4, <2>1 DEF IrisTypes, Underway
    <2>2. CASE d # c
      BY <1>0, <1>1, <1>4, <2>2 DEF IrisInv, IrisTypes, Approaches
    <2> QED  BY <2>1, <2>2
  <1>5. ASSUME NEW d \in Calls, place'[d] \in {"turn", "sent"}
        PROVE  endpoint'[d] \in Endpoints'
    <2>1. CASE d = c
      BY <1>0, <1>1, <1>2, <1>5, <2>1 DEF IrisTypes, Underway, Endpoints
    <2>2. CASE d # c
      BY <1>0, <1>1, <1>2, <1>5, <2>2 DEF IrisInv, IrisTypes
    <2> QED  BY <2>1, <2>2
  <1>6. ASSUME NEW d \in Calls, place'[d] = "sent"
        PROVE  /\ d # c /\ place[d] = "sent" /\ endpoint'[d] = endpoint[d]
               /\ Got(d)' = Got(d)
    BY <1>0, <1>1, <1>2, <1>6 DEF IrisTypes, Underway, Got
  <1>7. ASSUME NEW d \in Calls, place'[d] = "sent"
        PROVE  /\ future'[endpoint'[d]].command = d
               /\ Got(d)' \in Calls \ {d} => Gone(endpoint[d])'
    <2>1. Got(d) \in Calls \ {d} => Gone(endpoint[d])
      BY <1>6, <1>7 DEF IrisInv
    <2>2. Gone(endpoint[d]) => Gone(endpoint[d])'
      BY <1>2, <1>6, <1>7 DEF Gone
    <2> QED  BY <1>2, <1>6, <1>7, <2>1, <2>2 DEF IrisInv
  <1>8. ASSUME NEW r \in replies'
        PROVE  /\ endpoint'[r.to] = r.at
               /\ \/ place'[r.to] = "sent" /\ Got(r.to)' # r.to
                  \/ place'[r.to] \in Ended /\ Gone(r.at)'
    <2>1. /\ r \in replies /\ r.to \in Calls
          /\ endpoint[r.to] = r.at
          /\ \/ place[r.to] = "sent" /\ Got(r.to) # r.to
             \/ place[r.to] \in Ended /\ Gone(r.at)
      BY <1>0, <1>2, <1>8 DEF IrisInv, IrisTypes
    <2>2. r.to # c
      BY <2>1 DEF Approaches, Ended
    <2>3. endpoint'[r.to] = endpoint[r.to] /\ place'[r.to] = place[r.to]
      BY <1>0, <1>1, <2>1, <2>2 DEF IrisTypes
    <2>4. Got(r.to)' = Got(r.to)
      BY <1>2, <2>3 DEF Got
    <2>5. Gone(r.at) => Gone(r.at)'
      BY <1>2 DEF Gone
    <2> QED  BY <2>1, <2>3, <2>4, <2>5
  <1> QED  BY <1>3, <1>4, <1>5, <1>7, <1>8 DEF IrisInv

\* A call that sends: the future is its own, and nothing came for it yet.
LEMMA SendKeeps ==
    ASSUME IrisInv, NEW c \in Calls, Sends(c)
    PROVE  IrisInv'
  <1> USE IrisAssumption
  <1>0. IrisTypes
    BY DEF IrisInv
  <1>1. PICK e \in Endpoints :
          /\ endpoint' = [endpoint EXCEPT ![c] = e]
          /\ future' = [future EXCEPT ![e] = [command |-> c, got |-> "nothing"]]
          /\ replies' = replies \cup {[at |-> e, to |-> c]}
    BY DEF Sends
  <1>2. /\ place' = [place EXCEPT ![c] = "sent"] /\ holder' = c
        /\ cached' = cached /\ cutOff' = cutOff
        /\ Len(future') = Len(future) /\ future' \in Seq(Futures)
    <2>1. [command |-> c, got |-> "nothing"] \in Futures
      BY DEF Futures
    <2> QED  BY <1>0, <1>1, <2>1 DEF Sends, IrisTypes, Endpoints
  <1>3. Endpoints' = Endpoints
    BY <1>2 DEF Endpoints
  <1>4. IrisTypes'
    <2>1. place' \in [Calls -> Places] /\ endpoint' \in [Calls -> 0 .. Len(future)]
      BY <1>0, <1>1, <1>2 DEF IrisTypes, Places, Endpoints
    <2>2. replies' \subseteq [at : Endpoints, to : Calls]
      BY <1>0, <1>1 DEF IrisTypes
    <2> QED  BY <1>0, <1>2, <1>3, <2>1, <2>2 DEF IrisTypes
  <1>5. ASSUME NEW d \in Calls, d # c
        PROVE  place'[d] \notin {"creating", "sent"} /\ place'[d] = place[d]
    BY <1>0, <1>2, <1>5 DEF IrisInv, IrisTypes, Sends
  <1>6. \A d \in Calls : place'[d] \in {"creating", "sent"} => holder' = d
    BY <1>2, <1>5
  <1>7. \A d \in Calls : place'[d] \in {"turn", "sent"} => endpoint'[d] \in Endpoints'
    BY <1>0, <1>1, <1>3, <1>5 DEF IrisInv, IrisTypes
  <1>8. Got(c)' = "nothing" /\ future'[endpoint'[c]].command = c
    BY <1>0, <1>1 DEF IrisTypes, Got, Endpoints
  <1>9. ASSUME NEW d \in Calls, place'[d] = "sent"
        PROVE  /\ future'[endpoint'[d]].command = d
               /\ Got(d)' \in Calls \ {d} => Gone(endpoint[d])'
    BY <1>5, <1>8, <1>9
  <1>10. ASSUME NEW r \in replies'
         PROVE  /\ endpoint'[r.to] = r.at
                /\ \/ place'[r.to] = "sent" /\ Got(r.to)' # r.to
                   \/ place'[r.to] \in Ended /\ Gone(r.at)'
    <2>1. CASE r = [at |-> e, to |-> c]
      <3>1. r.to = c /\ r.at = e
        BY <2>1
      <3>2. endpoint'[c] = e /\ place'[c] = "sent"
        BY <1>0, <1>1, <1>2 DEF IrisTypes
      <3> QED  BY <1>8, <3>1, <3>2
    <2>2. CASE r \in replies
      <3>1. /\ r.to \in Calls /\ endpoint[r.to] = r.at
            /\ \/ place[r.to] = "sent"
               \/ place[r.to] \in Ended /\ Gone(r.at)
        BY <1>0, <2>2 DEF IrisInv, IrisTypes
      <3>2. r.to # c
        BY <3>1 DEF Sends, Ended
      <3>3. place[r.to] \in Ended /\ Gone(r.at) /\ place'[r.to] = place[r.to]
        BY <1>5, <3>1, <3>2
      <3>4. endpoint'[r.to] = endpoint[r.to]
        BY <1>0, <1>1, <3>1, <3>2 DEF IrisTypes
      <3>5. Gone(r.at)'
        BY <1>2, <3>3 DEF Gone
      <3> QED  BY <3>1, <3>3, <3>4, <3>5
    <2> QED  BY <1>1, <2>1, <2>2
  <1> QED  BY <1>4, <1>6, <1>7, <1>9, <1>10 DEF IrisInv

\* A call that ends.
LEMMA EndKeeps ==
    ASSUME IrisInv, NEW c \in Calls, Ends(c)
    PROVE  IrisInv'
  <1> USE IrisAssumption
  <1>0. IrisTypes
    BY DEF IrisInv
  <1>1. PICK p \in Ended : place' = [place EXCEPT ![c] = p]
    BY DEF Ends
  <1>2. /\ replies' = replies /\ endpoint' = endpoint
        /\ cutOff \subseteq cutOff' /\ cached' \in {0, cached}
        /\ holder' = IF holder = c THEN None ELSE holder
    BY DEF Ends
  <1>3. /\ future' \in Seq(Futures) /\ Len(future') = Len(future)
        /\ \A d \in Calls \ {c} : place[d] = "sent" => UNCHANGED future
    <2>1. CASE UNCHANGED future
      BY <1>0, <2>1 DEF IrisTypes
    <2>2. CASE /\ place[c] = "sent"
               /\ future' = [future EXCEPT ![endpoint[c]].got = "abandoned"]
      <3>1. endpoint[c] \in Endpoints
        BY <2>2 DEF IrisInv
      <3>2. future \in Seq(Futures)
        BY <1>0 DEF IrisTypes
      <3>3. future' \in Seq(Futures) /\ Len(future') = Len(future)
        BY <2>2, <3>1, <3>2, FutureStays
      <3>4. \A d \in Calls \ {c} : place[d] # "sent"
        BY <2>2 DEF IrisInv
      <3> QED  BY <3>3, <3>4
    <2> QED  BY <2>1, <2>2 DEF Ends
  <1>4. Endpoints' = Endpoints
    BY <1>3 DEF Endpoints
  <1>5. IrisTypes'
    <2>1. place' \in [Calls -> Places]
      BY <1>0, <1>1 DEF IrisTypes, Places
    <2> QED  BY <1>0, <1>2, <1>3, <1>4, <2>1 DEF IrisTypes
  <1>6. place'[c] \in Ended
    BY <1>0, <1>1 DEF IrisTypes
  <1>7. ASSUME NEW d \in Calls, place'[d] \notin Ended
        PROVE  /\ d # c /\ place'[d] = place[d]
               /\ place[d] = "sent" => UNCHANGED future /\ Got(d)' = Got(d)
    BY <1>0, <1>1, <1>2, <1>3, <1>6, <1>7 DEF IrisTypes, Got
  <1>8. ASSUME NEW d \in Calls, place'[d] \in {"creating", "sent"}
        PROVE  holder' = d
    <2>1. d # c /\ holder = d
      BY <1>7, <1>8 DEF IrisInv, Ended
    <2> QED  BY <1>2, <2>1
  <1>9. ASSUME NEW d \in Calls, place'[d] \in {"turn", "sent"}
        PROVE  endpoint'[d] \in Endpoints'
    BY <1>2, <1>4, <1>7, <1>9 DEF IrisInv, Ended
  <1>10. ASSUME NEW d \in Calls, place'[d] = "sent"
         PROVE  /\ future'[endpoint'[d]].command = d
                /\ Got(d)' \in Calls \ {d} => Gone(endpoint[d])'
    <2>1. place[d] = "sent" /\ future' = future /\ Got(d)' = Got(d)
      BY <1>7, <1>10 DEF Ended
    <2> QED  BY <1>2, <2>1 DEF IrisInv, Gone
  <1>11. ASSUME NEW r \in replies'
         PROVE  /\ endpoint'[r.to] = r.at
                /\ \/ place'[r.to] = "sent" /\ Got(r.to)' # r.to
                   \/ place'[r.to] \in Ended /\ Gone(r.at)'
    <2>1. /\ r \in replies /\ r.to \in Calls /\ endpoint[r.to] = r.at
          /\ \/ place[r.to] = "sent" /\ Got(r.to) # r.to
             \/ place[r.to] \in Ended /\ Gone(r.at)
      BY <1>0, <1>2, <1>11 DEF IrisInv, IrisTypes
    <2>2. Gone(r.at) => Gone(r.at)'
      BY <1>2 DEF Gone
    <2>3. CASE r.to = c
      <3>1. place[c] = "sent" /\ Got(c) # c
        BY <2>1, <2>3 DEF Ends, Underway, Ended
      <3>2. Gone(r.at)'
        BY <1>2, <2>1, <2>3, <3>1 DEF Ends, Gone
      <3> QED  BY <1>2, <1>6, <2>1, <2>3, <3>2
    <2>4. CASE r.to # c
      <3>1. place'[r.to] = place[r.to]
        BY <1>0, <1>1, <2>1, <2>4 DEF IrisTypes
      <3>2. CASE place[r.to] = "sent"
        BY <1>2, <1>7, <2>1, <3>1, <3>2 DEF Ended
      <3>3. CASE place[r.to] \in Ended
        BY <1>2, <2>1, <2>2, <3>1, <3>3 DEF Ended
      <3> QED  BY <2>1, <3>2, <3>3
    <2> QED  BY <2>3, <2>4
  <1> QED  BY <1>5, <1>8, <1>9, <1>10, <1>11 DEF IrisInv

\* A new endpoint: the call sends, or waits for its turn.
LEMMA CreatedKeeps ==
    ASSUME IrisInv, NEW c \in Calls, Created(c)
    PROVE  IrisInv'
  <1> USE IrisAssumption
  <1> DEFINE e == Len(future) + 1
  <1>0. /\ IrisTypes
        /\ holder = c
        /\ \A d \in Calls \ {c} : place[d] \notin {"creating", "sent"}
    BY DEF IrisInv, Created
  <1>1. /\ cached' = e /\ cutOff' = cutOff
        /\ endpoint' = [endpoint EXCEPT ![c] = e]
        /\ \/ /\ place' = [place EXCEPT ![c] = "sent"] /\ holder' = holder
              /\ replies' = replies \cup {[at |-> e, to |-> c]}
           \/ /\ place' = [place EXCEPT ![c] = "turn"] /\ holder' = None
              /\ replies' = replies
    BY DEF Created, Put, lockVars
  <1>2. /\ Len(future') = e /\ future' \in Seq(Futures)
        /\ future'[e].command = c
        /\ place'[c] = "sent" => future'[e].got = "nothing"
    <2> DEFINE new == [command |-> c, got |-> "nothing"]
               made == Append(future, new)
    <2>1. new \in Futures /\ new.command = c /\ new.got = "nothing"
      BY DEF Futures
    <2> HIDE DEF new
    <2>2. /\ made \in Seq(Futures) /\ Len(made) = e /\ made[e] = new
          /\ e \in 1 .. Len(made)
      BY <1>0, <2>1 DEF IrisTypes
    <2>3. [made EXCEPT ![e].got = "abandoned"] = [made EXCEPT ![e] = [new EXCEPT !.got = "abandoned"]]
      BY <2>2
    <2>4. [new EXCEPT !.got = "abandoned"] \in Futures /\ [new EXCEPT !.got = "abandoned"].command = c
      BY <2>1 DEF Futures
    <2>5. CASE future' = made
      BY <2>1, <2>2, <2>5
    <2>6. CASE /\ future' = [made EXCEPT ![e].got = "abandoned"]
               /\ place' = [place EXCEPT ![c] = "turn"]
      <3>1. place'[c] = "turn"
        BY <1>0, <2>6 DEF IrisTypes
      <3> HIDE DEF made
      <3> QED  BY <2>2, <2>3, <2>4, <2>6, <3>1
    <2> QED  BY <2>5, <2>6 DEF Created, Put, new
  <1>3. e \in Nat /\ Endpoints \subseteq Endpoints' /\ e \in Endpoints' /\ e \notin Endpoints
    BY <1>0, <1>2 DEF Endpoints, IrisTypes
  <1>4. Len(future) \in Nat /\ Endpoints = 1 .. Len(future) /\ Endpoints' = 1 .. e
    BY <1>0, <1>2 DEF Endpoints, IrisTypes
  <1> HIDE DEF e
  <1>5. IrisTypes'
    <2>1. place' \in [Calls -> Places] /\ holder' \in Calls \cup {None}
      BY <1>0, <1>1 DEF IrisTypes, Places, Underway
    <2>2. endpoint' \in [Calls -> 0 .. Len(future)'] /\ cached' \in 0 .. Len(future)'
      BY <1>0, <1>1, <1>2, <1>3, <1>4 DEF IrisTypes, e
    <2>3. replies' \subseteq [at : Endpoints', to : Calls]
      <3>1. replies \subseteq [at : Endpoints', to : Calls]
        BY <1>0, <1>3 DEF IrisTypes
      <3>2. [at |-> e, to |-> c] \in [at : Endpoints', to : Calls]
        BY <1>3
      <3> QED  BY <1>1, <3>1, <3>2
    <2> QED  BY <1>2, <2>1, <2>2, <2>3 DEF IrisTypes
  <1>6. /\ endpoint'[c] = e
        /\ place'[c] \in {"sent", "turn"}
        /\ place'[c] = "sent" => holder' = c
    BY <1>0, <1>1 DEF IrisTypes
  <1>7. \A d \in Calls \ {c} : endpoint'[d] = endpoint[d] /\ place'[d] = place[d]
    BY <1>0, <1>1 DEF IrisTypes
  <1>8. \A d \in Calls : place'[d] \in {"creating", "sent"} => holder' = d
    BY <1>0, <1>6, <1>7
  <1>9. \A d \in Calls : place'[d] \in {"turn", "sent"} => endpoint'[d] \in Endpoints'
    BY <1>3, <1>6, <1>7 DEF IrisInv
  <1>10. ASSUME NEW d \in Calls, place'[d] = "sent"
         PROVE  /\ future'[endpoint'[d]].command = d
                /\ Got(d)' \in Calls \ {d} => Gone(endpoint[d])'
    <2>1. d = c
      BY <1>0, <1>7, <1>10
    <2>2. Got(d)' = "nothing"
      BY <1>2, <1>6, <1>10, <2>1 DEF Got
    <2> QED  BY <1>2, <1>6, <2>1, <2>2
  <1>11. ASSUME NEW r \in replies'
         PROVE  /\ endpoint'[r.to] = r.at
                /\ \/ place'[r.to] = "sent" /\ Got(r.to)' # r.to
                   \/ place'[r.to] \in Ended /\ Gone(r.at)'
    <2>1. CASE r = [at |-> e, to |-> c] /\ place' = [place EXCEPT ![c] = "sent"]
      <3>1. r.to = c /\ r.at = e /\ place'[c] = "sent"
        BY <1>0, <2>1 DEF IrisTypes
      <3>2. Got(c)' = "nothing"
        BY <1>2, <1>6, <3>1 DEF Got
      <3> QED  BY <1>6, <3>1, <3>2
    <2>2. CASE r \in replies
      <3>1. /\ r.to \in Calls /\ endpoint[r.to] = r.at
            /\ \/ place[r.to] = "sent"
               \/ place[r.to] \in Ended /\ Gone(r.at)
        BY <1>0, <2>2 DEF IrisInv, IrisTypes
      <3>2. r.to # c
        BY <3>1 DEF Created, Ended
      <3>3. place[r.to] \in Ended /\ Gone(r.at)
        BY <1>0, <3>1, <3>2
      <3>4. Gone(r.at)'
        BY <1>1, <3>3 DEF Gone
      <3> QED  BY <1>7, <3>1, <3>2, <3>3, <3>4
    <2> QED  BY <1>1, <2>1, <2>2
  <1> QED  BY <1>5, <1>8, <1>9, <1>10, <1>11 DEF IrisInv

\* Something comes for the future of the endpoint e: a datagram or an error.
LEMMA ArrivalKeeps ==
    ASSUME IrisInv, UNCHANGED <<lockVars, cached, place, endpoint, cutOff>>,
           NEW e \in Endpoints, NEW x \in Calls \cup {"error"},
           \/ UNCHANGED future
           \/ /\ future[e].got = "nothing"
              /\ future' = [future EXCEPT ![e].got = x],
           \/ x = "error" /\ UNCHANGED replies
           \/ [at |-> e, to |-> x] \in replies /\ replies' = replies \ {[at |-> e, to |-> x]}
    PROVE  IrisInv'
  <1> USE IrisAssumption
  <1>0. IrisTypes
    BY DEF IrisInv
  <1>1. /\ holder' = holder /\ cached' = cached /\ place' = place
        /\ endpoint' = endpoint /\ cutOff' = cutOff /\ replies' \subseteq replies
    BY DEF lockVars
  <1>2. /\ future' \in Seq(Futures) /\ Len(future') = Len(future)
        /\ \A i \in Endpoints :
              /\ future'[i].command = future[i].command
              /\ future'[i].got = future[i].got \/ (i = e /\ future'[i].got = x)
    <2>1. future \in Seq(Futures)
      BY <1>0 DEF IrisTypes
    <2>2. CASE UNCHANGED future
      BY <2>1, <2>2
    <2>3. CASE future' = [future EXCEPT ![e].got = x]
      <3> DEFINE f == [future EXCEPT ![e].got = x]
      <3>1. /\ f \in Seq(Futures) /\ Len(f) = Len(future)
            /\ \A i \in Endpoints : /\ f[i].command = future[i].command
                                    /\ f[i].got = IF i = e THEN x ELSE future[i].got
        BY <2>1, FutureStays
      <3> HIDE DEF f
      <3>2. future' = f
        BY <2>3 DEF f
      <3> QED  BY <3>1, <3>2
    <2> QED  BY <2>2, <2>3
  <1>3. Endpoints' = Endpoints
    BY <1>2 DEF Endpoints
  <1>4. IrisTypes'
    BY <1>0, <1>1, <1>2, <1>3 DEF IrisTypes
  <1>5. \A i : Gone(i) => Gone(i)'
    BY <1>1 DEF Gone
  <1>6. ASSUME x \in Calls, [at |-> e, to |-> x] \in replies
        PROVE  /\ endpoint[x] = e
               /\ place[x] = "sent" \/ (place[x] \in Ended /\ Gone(e))
    BY <1>6 DEF IrisInv
  <1>7. ASSUME NEW d \in Calls, place[d] = "sent"
        PROVE  /\ endpoint[d] \in Endpoints
               /\ Got(d)' = Got(d) \/ (endpoint[d] = e /\ Got(d)' = x)
    <2>1. endpoint[d] \in Endpoints
      BY <1>7 DEF IrisInv
    <2> QED  BY <1>1, <1>2, <2>1 DEF Got
  <1>8. ASSUME NEW d \in Calls, place[d] = "sent"
        PROVE  /\ future'[endpoint'[d]].command = d
               /\ Got(d)' \in Calls \ {d} => Gone(endpoint[d])'
    <2>1. future'[endpoint'[d]].command = d
      BY <1>1, <1>2, <1>7, <1>8 DEF IrisInv
    <2>2. ASSUME Got(d)' \in Calls \ {d}
          PROVE  Gone(endpoint[d])
      <3>1. CASE Got(d)' = Got(d)
        BY <1>8, <2>2, <3>1 DEF IrisInv
      <3>2. CASE endpoint[d] = e /\ Got(d)' = x
        <4>1. x \in Calls /\ x # d /\ [at |-> e, to |-> x] \in replies
          BY <2>2, <3>2
        <4>2. place[x] # "sent"
          BY <1>8, <4>1 DEF IrisInv
        <4> QED  BY <1>6, <3>2, <4>1, <4>2
      <3> QED  BY <1>7, <1>8, <3>1, <3>2
    <2>3. Gone(endpoint[d]) => Gone(endpoint[d])'
      BY <1>1 DEF Gone
    <2> QED  BY <2>1, <2>2, <2>3
  <1>9. ASSUME NEW r \in replies'
        PROVE  /\ endpoint'[r.to] = r.at
               /\ \/ place'[r.to] = "sent" /\ Got(r.to)' # r.to
                  \/ place'[r.to] \in Ended /\ Gone(r.at)'
    <2>1. /\ r \in replies /\ r.to \in Calls /\ endpoint[r.to] = r.at
          /\ \/ place[r.to] = "sent" /\ Got(r.to) # r.to
             \/ place[r.to] \in Ended /\ Gone(r.at)
          /\ r = [at |-> r.at, to |-> r.to]
      BY <1>0, <1>1, <1>9 DEF IrisInv, IrisTypes
    <2>2. CASE place[r.to] \in Ended /\ Gone(r.at)
      BY <1>1, <1>5, <2>1, <2>2
    <2>3. CASE place[r.to] = "sent" /\ Got(r.to) # r.to
      <3>1. CASE Got(r.to)' = Got(r.to)
        BY <1>1, <2>1, <2>3, <3>1
      <3>2. CASE endpoint[r.to] = e /\ Got(r.to)' = x
        <4>1. r.at = e
          BY <2>1, <3>2
        <4>2. x # r.to
          BY <1>9, <2>1, <4>1
        <4> QED  BY <1>1, <2>1, <2>3, <3>2, <4>2
      <3> QED  BY <1>7, <2>1, <2>3, <3>1, <3>2
    <2> QED  BY <2>1, <2>2, <2>3
  <1>10. \A d \in Calls : place'[d] \in {"creating", "sent"} => holder' = d
    BY <1>1 DEF IrisInv
  <1>11. \A d \in Calls : place'[d] \in {"turn", "sent"} => endpoint'[d] \in Endpoints'
    BY <1>1, <1>3 DEF IrisInv
  <1> QED  BY <1>1, <1>4, <1>8, <1>9, <1>10, <1>11 DEF IrisInv
-------------------------------------------------------------------------------
\* IrisInv through every step.
LEMMA IrisStep ==
    ASSUME IrisInv, [IrisNext]_irisVars
    PROVE  IrisInv'
  <1>1. ASSUME NEW c \in Calls, BeginCall(c) \/ Wake(c)
        PROVE  IrisInv'
    BY <1>1, BeginCallKinds, WakeKinds, ApproachKeeps, SendKeeps
  <1>2. ASSUME NEW c \in Calls, Created(c)
        PROVE  IrisInv'
    BY <1>2, CreatedKeeps
  <1>3. ASSUME NEW c \in Calls,
               CreateFails(c) \/ Answered(c) \/ TimeOut(c) \/ CancelCall(c)
        PROVE  IrisInv'
    BY <1>3, EndKinds, EndKeeps
  <1>4. ASSUME NEW r \in replies, Receive(r)
        PROVE  IrisInv'
    <2>1. r.at \in Endpoints /\ r.to \in Calls /\ r = [at |-> r.at, to |-> r.to]
      BY DEF IrisInv, IrisTypes
    <2> DEFINE e == r.at
               x == r.to
    <2>2. /\ e \in Endpoints /\ x \in Calls /\ [at |-> e, to |-> x] \in replies
          /\ replies' = replies \ {[at |-> e, to |-> x]}
          /\ UNCHANGED <<lockVars, cached, place, endpoint, cutOff>>
      BY <1>4, <2>1 DEF Receive
    <2>3. \/ UNCHANGED future
          \/ /\ future[e].got = "nothing"
             /\ future' = [future EXCEPT ![e].got = x]
      BY <1>4 DEF Receive
    <2> HIDE DEF e, x
    <2> QED  BY <2>2, <2>3, ArrivalKeeps
  <1>5. ASSUME NEW e \in DOMAIN future, NEW lost \in BOOLEAN, SocketError(e, lost)
        PROVE  IrisInv'
    <2>1. e \in Endpoints
      BY DEF IrisInv, IrisTypes, Endpoints
    <2>2. /\ UNCHANGED <<lockVars, cached, place, endpoint, cutOff>>
          /\ UNCHANGED replies
          /\ \/ UNCHANGED future
             \/ /\ future[e].got = "nothing"
                /\ future' = [future EXCEPT ![e].got = "error"]
      BY <1>5 DEF SocketError
    <2> QED  BY <2>1, <2>2, ArrivalKeeps
  <1>6. CASE UNCHANGED irisVars
    BY <1>6 DEF irisVars, lockVars, IrisInv, IrisTypes, Endpoints, Gone, Got
  <1> QED  BY <1>1, <1>2, <1>3, <1>4, <1>5, <1>6 DEF IrisNext, CallStep

\* So the invariant always holds.
LEMMA IrisAlways == IrisSpec => []IrisInv
  <1>1. IrisInit => IrisInv
    <2> SUFFICES ASSUME IrisInit
                 PROVE  IrisInv
      OBVIOUS
    <2>1. IrisTypes
      BY DEF IrisInit, IrisTypes, Places
    <2> QED  BY <2>1 DEF IrisInit, IrisInv
  <1> QED  BY <1>1, IrisStep, PTL DEF IrisSpec

\* The lock of the address keeps all other calls off the socket while one
\* waits for its answer there, however calls are cancelled, time out, or find
\* the endpoint gone.
THEOREM OneCallAtATime == IrisSpec => []OneAtATime
  <1>1. IrisInv => OneAtATime
    BY DEF IrisInv, OneAtATime
  <1> QED  BY <1>1, IrisAlways, PTL

\* Answers are mixed up only on a socket whose command ended without one, by a
\* time-out, a cancellation or an error of the socket.
THEOREM MixUpsHaveACause == IrisSpec => []WrongAnswerHasCause
  <1>1. \A e : Gone(e) => e \in Cut("timeout") \cup Cut("cancelled") \cup Cut("error")
    BY DEF Gone, Cut
  <1>2. IrisInv => WrongAnswerHasCause
    BY <1>1 DEF IrisInv, WrongAnswerHasCause
  <1> QED  BY <1>2, IrisAlways, PTL
-------------------------------------------------------------------------------
(* The number of sockets.                                                  *)

\* What made a call drop the endpoint.
Drops == {x \in cutOff : x.how \in {"timeout", "stuck"}}

SocketInv ==
    /\ IsFiniteSet(cutOff)
    /\ \A x \in cutOff : x.command \in Calls => place[x.command] \in Ended \cup {"stuck"}
    /\ Len(future) <= Cardinality(Drops) + (IF cached = 0 THEN 0 ELSE 1)
    /\ \A c \in Calls : place[c] = "creating" => cached = 0

\* The call c moves on; from its end it never does, from the deadlock only to
\* its end.
Proceeds(c) == /\ place[c] \notin Ended
               /\ \A d \in Calls \ {c} : place'[d] = place[d]
               /\ place[c] = "stuck" => place'[c] \in Ended

\* A record more makes the set of drops no smaller.
LEMMA OneMoreRecord ==
    ASSUME IsFiniteSet(cutOff), NEW y, cutOff' = cutOff \cup {y}
    PROVE  /\ IsFiniteSet(cutOff') /\ IsFiniteSet(Drops)
           /\ Cardinality(Drops) \in Nat /\ Cardinality(Drops') \in Nat
           /\ Cardinality(Drops) <= Cardinality(Drops')
           /\ y \notin cutOff /\ y.how \in {"timeout", "stuck"} =>
                  Cardinality(Drops') = Cardinality(Drops) + 1
  <1>1. IsFiniteSet(cutOff')
    BY FS_AddElement
  <1>2. Drops \subseteq cutOff /\ Drops' \subseteq cutOff' /\ Drops \subseteq Drops'
    BY DEF Drops
  <1>3. IsFiniteSet(Drops) /\ IsFiniteSet(Drops')
    BY <1>1, <1>2, FS_Subset
  <1>4. /\ Cardinality(Drops) \in Nat /\ Cardinality(Drops') \in Nat
        /\ Cardinality(Drops) <= Cardinality(Drops')
    BY <1>2, <1>3, FS_Subset, FS_CardinalityType
  <1>5. ASSUME y \notin cutOff, y.how \in {"timeout", "stuck"}
        PROVE  Cardinality(Drops') = Cardinality(Drops) + 1
    <2>1. Drops' = Drops \cup {y} /\ y \notin Drops
      BY <1>5 DEF Drops
    <2> QED  BY <1>3, <2>1, FS_AddElement
  <1> QED  BY <1>1, <1>3, <1>4, <1>5

\* A call moves on with the endpoint in use as it is.
LEMMA SameSockets ==
    ASSUME IrisTypes, SocketInv, NEW c \in Calls, Proceeds(c),
           UNCHANGED cached, Len(future') = Len(future),
           place'[c] = "creating" => cached = 0,
           \/ UNCHANGED cutOff
           \/ /\ place'[c] \in Ended
              /\ \E e, how : CutOff(c, e, how)
    PROVE  SocketInv'
  <1>1. CASE UNCHANGED cutOff
    <2>1. Drops' = Drops
      BY <1>1 DEF Drops
    <2>2. \A x \in cutOff : x.command \in Calls => place'[x.command] \in Ended \cup {"stuck"}
      BY DEF SocketInv, Proceeds
    <2> QED  BY <1>1, <2>1, <2>2 DEF SocketInv, Proceeds
  <1>2. ASSUME NEW e, NEW how, CutOff(c, e, how), place'[c] \in Ended
        PROVE  SocketInv'
    <2> DEFINE y == [command |-> c, at |-> e, how |-> how]
    <2>1. cutOff' = cutOff \cup {y} /\ y.command = c
      BY <1>2 DEF CutOff
    <2> HIDE DEF y
    <2>2. /\ IsFiniteSet(cutOff')
          /\ Cardinality(Drops) \in Nat /\ Cardinality(Drops') \in Nat
          /\ Cardinality(Drops) <= Cardinality(Drops')
      BY <2>1, OneMoreRecord DEF SocketInv
    <2>3. Len(future') <= Cardinality(Drops') + (IF cached' = 0 THEN 0 ELSE 1)
      BY <2>2 DEF SocketInv, IrisTypes
    <2>4. \A x \in cutOff' : x.command \in Calls => place'[x.command] \in Ended \cup {"stuck"}
      BY <1>2, <2>1 DEF SocketInv, Proceeds
    <2> QED  BY <2>2, <2>3, <2>4 DEF SocketInv, Proceeds
  <1> QED  BY <1>1, <1>2

\* A call drops the endpoint, and is on record for it.
LEMMA DroppedSocket ==
    ASSUME IrisTypes, SocketInv, NEW c \in Calls, NEW e,
           NEW how \in {"timeout", "stuck"}, CutOff(c, e, how),
           Proceeds(c), place[c] # "stuck", place'[c] \in Ended \cup {"stuck"},
           cached' = 0, Len(future') = Len(future)
    PROVE  SocketInv'
  <1> DEFINE y == [command |-> c, at |-> e, how |-> how]
  <1>1. /\ cutOff' = cutOff \cup {y} /\ y.command = c
        /\ y.how \in {"timeout", "stuck"}
    BY DEF CutOff
  <1> HIDE DEF y
  <1>2. y \notin cutOff
    BY <1>1 DEF SocketInv, Proceeds
  <1>3. /\ IsFiniteSet(cutOff') /\ Cardinality(Drops) \in Nat
        /\ Cardinality(Drops') = Cardinality(Drops) + 1
    BY <1>1, <1>2, OneMoreRecord DEF SocketInv
  <1>4. Len(future') <= Cardinality(Drops')
    BY <1>3 DEF SocketInv, IrisTypes
  <1>5. \A x \in cutOff' : x.command \in Calls => place'[x.command] \in Ended \cup {"stuck"}
    BY <1>1 DEF SocketInv, Proceeds
  <1>6. Cardinality(Drops') \in Nat
    BY <1>3
  <1> QED  BY <1>3, <1>4, <1>5, <1>6 DEF SocketInv

\* The first endpoint, or one in the place of a dropped one.
LEMMA OneMoreSocket ==
    ASSUME IrisInv, SocketInv, NEW c \in Calls, Created(c)
    PROVE  SocketInv'
  <1>1. /\ IrisTypes /\ cached = 0
        /\ \A d \in Calls \ {c} : place[d] # "creating" /\ place'[d] = place[d]
        /\ place[c] = "creating" /\ place'[c] \in {"sent", "turn"}
    BY DEF IrisInv, IrisTypes, SocketInv, Created, Put
  <1>2. /\ cached' = Len(future) + 1 /\ Len(future) \in Nat
        /\ cutOff' = cutOff
        /\ Len(future') = Len(future) + 1
    <2> DEFINE made == Append(future, [command |-> c, got |-> "nothing"])
               e == Len(future) + 1
    <2>1. [command |-> c, got |-> "nothing"] \in Futures
      BY DEF Futures
    <2>2. made \in Seq(Futures) /\ Len(made) = e /\ Len(future) \in Nat
      BY <1>1, <2>1 DEF IrisTypes
    <2>3. Len([made EXCEPT ![e].got = "abandoned"]) = e
      BY <2>2
    <2> QED  BY <2>2, <2>3 DEF Created
  <1>3. Drops' = Drops /\ IsFiniteSet(Drops)
    <2>1. IsFiniteSet(cutOff) /\ Drops \subseteq cutOff
      BY DEF SocketInv, Drops
    <2> QED  BY <1>2, <2>1, FS_Subset DEF Drops
  <1>4. Cardinality(Drops) \in Nat
    BY <1>3, FS_CardinalityType
  <1>5. Len(future') <= Cardinality(Drops') + (IF cached' = 0 THEN 0 ELSE 1)
    BY <1>1, <1>2, <1>3, <1>4 DEF SocketInv
  <1>6. \A x \in cutOff' : x.command \in Calls => place'[x.command] \in Ended \cup {"stuck"}
    BY <1>1, <1>2 DEF SocketInv, Ended
  <1> QED  BY <1>1, <1>2, <1>5, <1>6 DEF SocketInv

\* On its way to the socket a call has the endpoint in use, or drops it.
LEMMA TransmitSockets ==
    ASSUME IrisInv, SocketInv, NEW c \in Calls,
           place[c] \in {"new", "asking", "turn"},
           NEW e \in Endpoints, NEW waiting, Transmit(c, e, waiting)
    PROVE  SocketInv'
  <1>1. IrisTypes
    BY DEF IrisInv
  <1>2. CASE e \in closing
    <2>1. /\ place' = [place EXCEPT ![c] = "stuck"] /\ cached' = 0
          /\ CutOff(c, e, "stuck") /\ future' = future
      BY <1>2 DEF Transmit, Put
    <2>2. Proceeds(c) /\ place'[c] = "stuck"
      BY <1>1, <2>1 DEF Proceeds, IrisTypes, Ended
    <2> QED  BY <1>1, <2>1, <2>2, DroppedSocket
  <1>3. CASE e \notin closing
    <2>1. /\ place' = [place EXCEPT ![c] = "sent"]
          /\ future' = [future EXCEPT ![e] = [command |-> c, got |-> "nothing"]]
          /\ UNCHANGED <<cached, cutOff>>
      BY <1>3 DEF Transmit, Put
    <2>2. Proceeds(c) /\ place'[c] = "sent"
      BY <1>1, <2>1 DEF Proceeds, IrisTypes, Ended
    <2>3. [command |-> c, got |-> "nothing"] \in Futures
      BY DEF Futures
    <2>4. Len(future') = Len(future)
      BY <1>1, <2>1, <2>3 DEF IrisTypes, Endpoints
    <2> QED  BY <1>1, <2>1, <2>2, <2>4, SameSockets
  <1> QED  BY <1>2, <1>3

\* Looking an endpoint up makes none.
LEMMA LookUpSockets ==
    ASSUME IrisInv, SocketInv, NEW c \in Calls,
           place[c] \in {"new", "asking"}, NEW waiting, LookUp(c, waiting)
    PROVE  SocketInv'
  <1>1. IrisTypes
    BY DEF IrisInv
  <1>2. CASE cached # 0 /\ Transmit(c, cached, waiting)
    <2>1. cached \in Endpoints
      BY <1>1, <1>2 DEF IrisTypes, Endpoints
    <2> QED  BY <1>2, <2>1, TransmitSockets
  <1>3. ASSUME NEW p \in {"turn", "creating"},
               place' = [place EXCEPT ![c] = p], p = "creating" => cached = 0,
               UNCHANGED <<cached, future, cutOff>>
        PROVE  SocketInv'
    <2>1. Proceeds(c) /\ place'[c] = p
      BY <1>1, <1>3 DEF Proceeds, IrisTypes, Ended
    <2> QED  BY <1>1, <1>3, <2>1, SameSockets
  <1> QED  BY <1>2, <1>3 DEF LookUp, TakeTurn, Put

\* Giving up a future loses no endpoint.
LEMMA AbandonLength ==
    ASSUME IrisInv, NEW c \in Calls, place[c] = "sent", Abandon(c)
    PROVE  Len(future') = Len(future)
  <1>1. endpoint[c] \in Endpoints /\ future \in Seq(Futures)
    BY DEF IrisInv, IrisTypes
  <1> QED  BY <1>1, FutureStays DEF Abandon

\* Every step keeps the count of the sockets.
LEMMA SocketStep ==
    ASSUME IrisInv, SocketInv, [IrisNext]_irisVars
    PROVE  SocketInv'
  <1>1. IrisTypes
    BY DEF IrisInv
  <1>2. ASSUME NEW c \in Calls, place[c] = "new", Put(c, "asking"),
               UNCHANGED <<cached, future, cutOff>>
        PROVE  SocketInv'
    <2>1. Proceeds(c) /\ place'[c] = "asking"
      BY <1>1, <1>2 DEF Proceeds, IrisTypes, Ended, Put
    <2> QED  BY <1>1, <1>2, <2>1, SameSockets
  <1>3. ASSUME NEW c \in Calls, BeginCall(c)
        PROVE  SocketInv'
    BY <1>2, <1>3, LookUpSockets DEF BeginCall, GetEndpoint
  <1>4. ASSUME NEW c \in Calls, Wake(c)
        PROVE  SocketInv'
    <2>1. place[c] = "turn" => endpoint[c] \in Endpoints
      BY DEF IrisInv
    <2> QED  BY <1>4, <2>1, LookUpSockets, TransmitSockets DEF Wake
  <1>5. ASSUME NEW c \in Calls, TimeOut(c)
        PROVE  SocketInv'
    <2>1. /\ place[c] = "sent" /\ place' = [place EXCEPT ![c] = "unreachable"]
          /\ CutOff(c, endpoint[c], "timeout") /\ cached' = 0
      BY <1>5 DEF TimeOut, Awaited, Put, ForgetEndpoint
    <2>2. Proceeds(c) /\ place'[c] \in Ended
      BY <1>1, <2>1 DEF Proceeds, IrisTypes, Ended
    <2>3. Len(future') = Len(future)
      BY <1>1, <1>5, AbandonLength DEF TimeOut, Awaited
    <2> QED  BY <1>1, <2>1, <2>2, <2>3, DroppedSocket
  <1>6. ASSUME NEW c \in Calls, CreateFails(c) \/ Answered(c) \/ CancelCall(c)
        PROVE  SocketInv'
    <2>1. /\ UNCHANGED cached
          /\ \E p \in Ended : place' = [place EXCEPT ![c] = p]
          /\ place[c] \notin Ended
          /\ UNCHANGED cutOff \/ \E e, how : CutOff(c, e, how)
      BY <1>6 DEF CreateFails, Answered, Finish, CancelCall, Put, Ended
    <2>2. Len(future') = Len(future)
      BY <1>6, AbandonLength DEF CreateFails, Answered, Finish, CancelCall
    <2>3. Proceeds(c) /\ place'[c] \in Ended
      BY <1>1, <2>1 DEF Proceeds, IrisTypes
    <2>4. place'[c] # "creating"
      BY <2>3 DEF Ended
    <2> QED  BY <1>1, <2>1, <2>2, <2>3, <2>4, SameSockets
  <1>7. ASSUME UNCHANGED <<cached, place, cutOff>>, Len(future') = Len(future)
        PROVE  SocketInv'
    BY <1>7 DEF SocketInv, Drops
  <1>8. ASSUME NEW r, Receive(r)
        PROVE  SocketInv'
    <2>1. r.at \in Endpoints /\ r.to \in Calls
      BY <1>1, <1>8 DEF Receive, IrisTypes
    <2>2. Len(future') = Len(future)
      BY <1>1, <1>8, <2>1, FutureStays DEF Receive, IrisTypes
    <2> QED  BY <1>7, <1>8, <2>2 DEF Receive
  <1>9. ASSUME NEW e, NEW lost, SocketError(e, lost)
        PROVE  SocketInv'
    <2>1. e \in Endpoints
      BY <1>1, <1>9 DEF SocketError, IrisTypes, Endpoints
    <2>2. Len(future') = Len(future)
      BY <1>1, <1>9, <2>1, FutureStays DEF SocketError, IrisTypes
    <2> QED  BY <1>7, <1>9, <2>2 DEF SocketError
  <1>10. CASE UNCHANGED irisVars
    BY <1>7, <1>10 DEF irisVars
  <1> QED  BY <1>3, <1>4, <1>5, <1>6, <1>8, <1>9, <1>10, OneMoreSocket DEF IrisNext, CallStep

\* Endpoints are made anew only for endpoints that were dropped: however many
\* calls there are, and however they end, there is at most one more than
\* time-outs and closed transports account for.
THEOREM SocketsAreBounded == IrisSpec => []SocketsBounded
  <1>1. IrisInit => SocketInv
    <2> SUFFICES ASSUME IrisInit PROVE SocketInv
      OBVIOUS
    <2>1. cutOff = {} /\ Drops = {} /\ cached = 0 /\ Len(future) = 0
      BY DEF IrisInit, Drops
    <2> QED  BY <2>1, FS_EmptySet DEF SocketInv
  <1>2. IrisInv /\ SocketInv => SocketsBounded
    <2> SUFFICES ASSUME IrisInv, SocketInv PROVE SocketsBounded
      OBVIOUS
    <2>1. IsFiniteSet(Drops) /\ Len(future) \in Nat
      BY FS_Subset DEF SocketInv, Drops, IrisInv, IrisTypes
    <2>2. Cardinality(Drops) \in Nat
      BY <2>1, FS_CardinalityType
    <2> QED  BY <2>1, <2>2 DEF SocketInv, SocketsBounded, Drops
  <1> QED  BY <1>1, <1>2, IrisAlways, SocketStep, PTL DEF IrisSpec
-------------------------------------------------------------------------------
(* The lock: who has it and who waits for it.                              *)

\* Where a call waits for the lock, and where it has it; stuck, it does both.
InLine == {"asking", "turn", "stuck"}
AtLock == {"creating", "sent", "stuck"}

\* What is recorded of commands cut off.
Records == [command : Calls, at : Endpoints, how : {"timeout", "cancelled", "stuck", "error"}]

\* Exactly the calls that wait are in the queue, each once, and whoever has the lock
\* is at it.
LineInv ==
    /\ queue \in Seq(Calls) /\ IsInjective(queue)
    /\ ToSet(queue) = {c \in Calls : place[c] \in InLine}
    /\ holder # None => place[holder] \in AtLock
    /\ closing \subseteq Endpoints
    /\ cutOff \subseteq Records

\* It comes nearer to the lock, from the line `waiting` of the others: it stands
\* behind them, or has the lock, or both.
StandsIn(c, waiting) ==
    /\ \E p \in InLine \cup AtLock :
          /\ place' = [place EXCEPT ![c] = p]
          /\ queue' = IF p \in InLine THEN Append(waiting, c) ELSE waiting
          /\ holder' = IF p \in AtLock THEN c ELSE IF holder = c THEN None ELSE holder
    /\ \/ UNCHANGED cutOff
       \/ \E e \in Endpoints : CutOff(c, e, "stuck")
    /\ UNCHANGED closing

\* It leaves the line and the lock.
Leaves(c) ==
    /\ \E p \in Ended : place' = [place EXCEPT ![c] = p]
    /\ \/ queue' = queue /\ place[c] \notin InLine
       \/ queue' = RemoveFirst(queue, c)
    /\ holder' = IF holder = c THEN None ELSE holder
    /\ \/ UNCHANGED cutOff
       \/ \E e \in Endpoints, how \in {"timeout", "cancelled", "error"} : CutOff(c, e, how)
    /\ UNCHANGED closing

\* No endpoint gets lost.
LEMMA EndpointsStay ==
    ASSUME IrisInv, [IrisNext]_irisVars
    PROVE  Endpoints \subseteq Endpoints'
  <1>1. future \in Seq(Futures) /\ future' \in Seq(Futures)
    BY IrisStep DEF IrisInv, IrisTypes
  <1>2. Endpoints = DOMAIN future /\ Endpoints' = DOMAIN future'
    BY <1>1 DEF Endpoints
  <1>3. ASSUME NEW c \in Calls, Created(c)
        PROVE  DOMAIN future \subseteq DOMAIN future'
    <2> DEFINE made == Append(future, [command |-> c, got |-> "nothing"])
    <2>1. DOMAIN future \subseteq DOMAIN made
      BY <1>1
    <2>2. DOMAIN future' = DOMAIN made
      BY <1>3 DEF Created
    <2> QED  BY <2>1, <2>2
  <1>4. ASSUME NEW c \in Calls, BeginCall(c) \/ Wake(c)
        PROVE  DOMAIN future' = DOMAIN future
    BY <1>4 DEF BeginCall, Wake, GetEndpoint, LookUp, TakeTurn, Transmit
  <1>5. ASSUME NEW c \in Calls, CreateFails(c) \/ Answered(c) \/ TimeOut(c) \/ CancelCall(c)
        PROVE  DOMAIN future' = DOMAIN future
    BY <1>5 DEF CreateFails, Answered, Finish, TimeOut, CancelCall, Abandon
  <1>6. ASSUME NEW r, Receive(r)
        PROVE  DOMAIN future' = DOMAIN future
    BY <1>6 DEF Receive
  <1>7. ASSUME NEW e, NEW lost, SocketError(e, lost)
        PROVE  DOMAIN future' = DOMAIN future
    BY <1>7 DEF SocketError
  <1> QED  BY <1>2, <1>3, <1>4, <1>5, <1>6, <1>7 DEF IrisNext, CallStep, irisVars

\* What is recorded of a command is a record.
LEMMA CutOffRecords ==
    ASSUME cutOff \subseteq Records, Endpoints \subseteq Endpoints', NEW c \in Calls,
           NEW e \in Endpoints, NEW how \in {"timeout", "cancelled", "stuck", "error"}, CutOff(c, e, how)
    PROVE  cutOff' \subseteq Records'
  BY DEF CutOff, Records

\* A call that comes nearer to the lock.
LEMMA StandsInKeeps ==
    ASSUME IrisInv, LineInv, [IrisNext]_irisVars, NEW c \in Calls, NEW waiting,
           waiting \in Seq(Calls), IsInjective(waiting), ToSet(waiting) = ToSet(queue) \ {c},
           holder \in {None, c} \/ (place[c] = "new" /\ holder' = holder),
           StandsIn(c, waiting)
    PROVE  LineInv'
  <1>1. PICK p \in InLine \cup AtLock :
          /\ place' = [place EXCEPT ![c] = p]
          /\ queue' = IF p \in InLine THEN Append(waiting, c) ELSE waiting
          /\ holder' = IF p \in AtLock THEN c ELSE IF holder = c THEN None ELSE holder
    BY DEF StandsIn
  <1>2. /\ place'[c] = p /\ \A d \in Calls \ {c} : place'[d] = place[d]
        /\ holder \in Calls \cup {None}
    BY <1>1 DEF IrisInv, IrisTypes
  <1>3. /\ queue' \in Seq(Calls) /\ IsInjective(queue')
        /\ ToSet(queue') = IF p \in InLine THEN ToSet(waiting) \cup {c} ELSE ToSet(waiting)
    <2>1. c \notin ToSet(waiting)
      OBVIOUS
    <2>2. /\ Append(waiting, c) \in Seq(Calls) /\ IsInjective(Append(waiting, c))
          /\ ToSet(Append(waiting, c)) = ToSet(waiting) \cup {c}
      BY <2>1, AppendToList
    <2> QED  BY <1>1, <2>2
  <1>4. ToSet(queue') = {d \in Calls : place'[d] \in InLine}
    BY <1>2, <1>3 DEF LineInv
  <1>5. holder' # None => place'[holder'] \in AtLock
    <2>1. CASE p \in AtLock
      BY <1>1, <1>2, <2>1
    <2>2. CASE p \notin AtLock /\ holder \in {None, c}
      BY <1>1, <2>2
    <2>3. CASE place[c] = "new" /\ holder' = holder
      BY <1>2, <2>3 DEF LineInv, AtLock
    <2> QED  BY <2>1, <2>2, <2>3
  <1>6. closing' \subseteq Endpoints' /\ cutOff' \subseteq Records'
    <2>1. Endpoints \subseteq Endpoints'
      BY EndpointsStay
    <2> QED  BY <2>1, CutOffRecords DEF LineInv, StandsIn, Records
  <1> QED  BY <1>3, <1>4, <1>5, <1>6 DEF LineInv

\* A call that ends.
LEMMA LeavesKeeps ==
    ASSUME IrisInv, LineInv, [IrisNext]_irisVars, NEW c \in Calls, Leaves(c)
    PROVE  LineInv'
  <1>1. PICK p \in Ended : place' = [place EXCEPT ![c] = p]
    BY DEF Leaves
  <1>2. /\ place'[c] = p /\ \A d \in Calls \ {c} : place'[d] = place[d]
        /\ holder \in Calls \cup {None} /\ p \notin InLine
    BY <1>1 DEF IrisInv, IrisTypes, Ended, InLine
  <1>3. /\ queue' \in Seq(Calls) /\ IsInjective(queue')
        /\ ToSet(queue') = ToSet(queue) \ {c}
    <2>1. CASE queue' = queue /\ place[c] \notin InLine
      BY <2>1 DEF LineInv
    <2>2. CASE queue' = RemoveFirst(queue, c)
      BY <2>2, RemoveFromList DEF LineInv
    <2> QED  BY <2>1, <2>2 DEF Leaves
  <1>4. ToSet(queue') = {d \in Calls : place'[d] \in InLine}
    BY <1>2, <1>3 DEF LineInv
  <1>5. holder' # None => place'[holder'] \in AtLock
    BY <1>2 DEF LineInv, Leaves
  <1>6. closing' \subseteq Endpoints' /\ cutOff' \subseteq Records'
    <2>1. Endpoints \subseteq Endpoints'
      BY EndpointsStay
    <2> QED  BY <2>1, CutOffRecords DEF LineInv, Leaves, Records
  <1> QED  BY <1>3, <1>4, <1>5, <1>6 DEF LineInv

\* The lock taken, with an endpoint: the call has the lock, and when it is stuck
\* waits for it too.
LEMMA TransmitStands ==
    ASSUME LineInv, NEW c \in Calls, NEW e \in Endpoints, NEW waiting, Transmit(c, e, waiting), UNCHANGED closing
    PROVE  StandsIn(c, waiting)
  BY DEF Transmit, StandsIn, InLine, AtLock, Put

\* The lock taken, in _get_endpoint.
LEMMA LookUpStands ==
    ASSUME IrisInv, LineInv, NEW c \in Calls, holder = None, NEW waiting, LookUp(c, waiting), UNCHANGED closing
    PROVE  StandsIn(c, waiting)
  <1>1. CASE cached # 0 /\ TakeTurn(c, cached, waiting)
    <2>1. cached \in Endpoints
      BY <1>1 DEF IrisInv, IrisTypes, Endpoints
    <2> QED  BY <1>1, <2>1, TransmitStands DEF TakeTurn, StandsIn, InLine, AtLock, Put
  <1>2. CASE cached = 0
    BY <1>2 DEF LookUp, StandsIn, InLine, AtLock, Put
  <1> QED  BY <1>1, <1>2 DEF LookUp

\* Every step keeps the line in order.
LEMMA LineStep ==
    ASSUME IrisInv, LineInv, [IrisNext]_irisVars
    PROVE  LineInv'
  <1>1. ASSUME NEW c \in Calls, BeginCall(c)
        PROVE  LineInv'
    <2>1. place[c] = "new" /\ c \notin ToSet(queue) /\ holder # c
      BY <1>1, IrisAssumption DEF BeginCall, LineInv, InLine, AtLock
    <2>2. StandsIn(c, queue) /\ (holder = None \/ holder' = holder)
      <3>1. CASE Free
        BY <1>1, <3>1, LookUpStands DEF BeginCall, GetEndpoint, Free, StandsIn, InLine, AtLock, Put
      <3>2. CASE ~Free
        BY <1>1, <2>1, <3>2 DEF BeginCall, StandsIn, InLine, AtLock, Put
      <3> QED  BY <3>1, <3>2
    <2>3. queue \in Seq(Calls) /\ IsInjective(queue) /\ ToSet(queue) = ToSet(queue) \ {c}
      BY <2>1 DEF LineInv
    <2> QED  BY <2>1, <2>2, <2>3, StandsInKeeps
  <1>2. ASSUME NEW c \in Calls, Wake(c)
        PROVE  LineInv'
    <2>1. holder = None /\ queue # <<>> /\ Head(queue) = c
      BY <1>2 DEF Wake, Free
    <2>2. StandsIn(c, Tail(queue))
      <3>1. place[c] = "turn" => endpoint[c] \in Endpoints
        BY DEF IrisInv
      <3> QED  BY <1>2, <2>1, <3>1, LookUpStands, TransmitStands DEF Wake
    <2>3. /\ Tail(queue) \in Seq(Calls) /\ IsInjective(Tail(queue))
          /\ ToSet(Tail(queue)) = ToSet(queue) \ {c}
      BY <2>1, TailOfList DEF LineInv
    <2> QED  BY <2>1, <2>2, <2>3, StandsInKeeps
  <1>3. ASSUME NEW c \in Calls, Created(c)
        PROVE  LineInv'
    <2>1. place[c] = "creating" /\ holder = c /\ c \notin ToSet(queue)
      BY <1>3 DEF Created, IrisInv, LineInv, InLine
    <2>2. StandsIn(c, queue)
      BY <1>3, <2>1, IrisAssumption DEF Created, StandsIn, InLine, AtLock, Put, lockVars
    <2>3. queue \in Seq(Calls) /\ IsInjective(queue) /\ ToSet(queue) = ToSet(queue) \ {c}
      BY <2>1 DEF LineInv
    <2> QED  BY <2>1, <2>2, <2>3, StandsInKeeps
  <1>4. ASSUME NEW c \in Calls, CreateFails(c) \/ Answered(c) \/ TimeOut(c) \/ CancelCall(c)
        PROVE  LineInv'
    <2>1. /\ place[c] \in {"creating", "sent"} => holder = c
          /\ place[c] = "sent" => endpoint[c] \in Endpoints
      BY DEF IrisInv
    <2>2. Leaves(c)
      BY <1>4, <2>1 DEF CreateFails, Answered, Finish, TimeOut, Awaited, CancelCall, Leaves, InLine, Ended, Put
    <2> QED  BY <2>2, LeavesKeeps
  <1>5. CASE UNCHANGED <<lockVars, place, cutOff>> /\ closing' \subseteq Endpoints'
    <2>1. Endpoints \subseteq Endpoints'
      BY EndpointsStay
    <2>2. cutOff \subseteq Records'
      BY <2>1 DEF LineInv, Records
    <2> QED  BY <1>5, <2>2 DEF lockVars, LineInv
  <1>6. ASSUME NEW r, Receive(r)
        PROVE  LineInv'
    BY <1>5, <1>6, EndpointsStay DEF Receive, LineInv
  <1>7. ASSUME NEW e \in DOMAIN future, NEW lost, SocketError(e, lost)
        PROVE  LineInv'
    <2>1. e \in Endpoints
      BY <1>7 DEF IrisInv, IrisTypes, Endpoints
    <2> QED  BY <1>5, <1>7, <2>1, EndpointsStay DEF SocketError, LineInv
  <1>8. CASE UNCHANGED irisVars
    BY <1>5, <1>8, EndpointsStay DEF irisVars, LineInv
  <1> QED  BY <1>1, <1>2, <1>3, <1>4, <1>6, <1>7, <1>8 DEF IrisNext, CallStep

\* So the line is always in order.
LEMMA LineAlways == IrisSpec => [](IrisInv /\ LineInv)
  <1>1. IrisInit => LineInv
    <2> SUFFICES ASSUME IrisInit
                 PROVE  LineInv
      OBVIOUS
    <2>1. <<>> \in Seq(Calls) /\ IsInjective(<<>>) /\ ToSet(<<>>) = {}
      BY DEF IsInjective, ToSet
    <2> QED  BY <2>1 DEF IrisInit, LineInv, InLine
  <1> QED  BY <1>1, LineStep, IrisAlways, PTL DEF IrisSpec

\* Every variable of the connector has its type: nobody is on the list of the lock
\* who is no call, and no datagram or future belongs to a socket never made.
THEOREM CameraTypes == IrisSpec => []IrisTypeOK
  <1>1. IrisInv /\ LineInv => IrisTypeOK
    BY DEF IrisInv, IrisTypes, LineInv, IrisTypeOK, Endpoints, Records, Places, Underway
  <1> QED  BY <1>1, LineAlways, PTL

\* A call that has ended, or not begun, leaves the lock to others.
LeftAlone ==
    \A c \in Calls : place[c] \in Ended \cup {"new"} => holder # c /\ c \notin ToSet(queue)

\* However a call ended, answered, failed or cancelled wherever it waited, it neither
\* has the lock of its address nor waits for it (async with, iris_ccd_connector.py 99).
THEOREM EndedCallsLeaveTheLock == IrisSpec => []LeftAlone
  <1>1. IrisInv /\ LineInv => LeftAlone
    BY IrisAssumption DEF LineInv, LeftAlone, InLine, AtLock, Ended
  <1> QED  BY <1>1, LineAlways, PTL
===============================================================================
