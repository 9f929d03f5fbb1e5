----------------------------- MODULE AccessControl -----------------------------
(***************************************************************************)
(* Who may send commands to the telescope: the request blocker             *)
(* (tree_base_request_blocker.py), the access grantor that drives it       *)
(* (tree_blocker_access_grantor.py), and the requests the blocker has let  *)
(* through that have not yet reached the device.                           *)
(*                                                                         *)
(* An address is the sequence of names that is left of it at the blocker   *)
(* (request.address[request.index:]).  Time is a clock that a handler may  *)
(* read twice: a handler is one step, and the clock may advance in it.     *)
(***************************************************************************)
EXTENDS Integers, Sequences, SequencesExt

CONSTANTS Users, NoUser,     \* users, and the absence of one
          NoTime,            \* no timeout given or reported (None)
          Addresses,         \* relative addresses of the PUT requests
          WhiteList,         \* addresses of the PUT white list
          BlackList,         \* addresses of the PUT black list
          CutoffList,        \* safety_cutoff_list: names, or dotted addresses
          Timeouts,          \* timeout_reservation values users ask for
          Queries,           \* GET commands users send to the grantor
          Tolerances,        \* time_of_data_tolerance of these GET commands
          DefaultControlTime, MaxControlTime,
          MaxTime            \* bound of the clock

ASSUME AccessAssumption ==
    /\ NoUser \notin Users
    /\ NoTime \notin Int
    /\ Timeouts \subseteq Int \cup {NoTime}
    /\ DefaultControlTime \in Nat /\ MaxControlTime \in Nat /\ MaxTime \in Nat

VARIABLES now,           \* time.time()
          currentUser,   \* blocker._current_user
          timeout,       \* blocker._timeout_reservation
          engaged,       \* blocker._safety_cutoff_engaged
          inFlight,      \* the PUT of each user between blocker and device
          cached,        \* the cache in front of the grantor: answers by command
          reply          \* the last answer of the grantor

vars == <<now, currentUser, timeout, engaged, inFlight, cached, reply>>
reservation == <<currentUser, timeout>>

Request == [adr : Addresses, special : BOOLEAN, bypass : BOOLEAN]
Nothing == <<>>

Init == /\ now = 0
        /\ currentUser = NoUser
        /\ timeout = 0
        /\ engaged = FALSE
        /\ inFlight = [u \in Users |-> Nothing]
        /\ cached = [q \in Queries |-> Nothing]
        /\ reply = Nothing
-------------------------------------------------------------------------------
(* The reservation.                                                        *)

\* A mutation for the runs: it lasts through its timeout.
LiveThroughEnd(t) == currentUser # NoUser /\ timeout >= t

\* A reservation is over from its timeout on.
Live(t) == currentUser # NoUser /\ timeout > t

\* _get_current_reservation at time t: who has control.
Reserved(t) == IF Live(t) THEN currentUser ELSE NoUser

\* A mutation for the runs: the timeout is reset to None.
CancelToNone == currentUser' = NoUser /\ timeout' = NoTime

CancelReservation == currentUser' = NoUser /\ timeout' = 0

\* What it does to a reservation that is over.
Lapse(t) == IF currentUser # NoUser /\ timeout <= t
            THEN CancelReservation
            ELSE UNCHANGED reservation

\* A mutation for the runs: a user is in the way only of its own reservation.
RefusedSelf(u, t) == Reserved(t) = u

\* A reservation of another user is never overwritten.
Refused(u, t) == Reserved(t) \notin {NoUser, u}

\* A mutation for the runs: the limit is never looked at.
NeverTooLong(end, t) == FALSE

TooLong(end, t) == end - t > MaxControlTime

Answer(cmd, u, v) == reply' = [cmd |-> cmd, user |-> u, v |-> v]

\* take_control: make_reservation reads the clock again for its two sums.
TakeControl(u, asked) ==
    \E t \in {now, now + 1} :
        LET end == IF asked = NoTime THEN t + DefaultControlTime ELSE asked
            fails == Refused(u, now) \/ TooLong(end, t)
        IN  /\ t <= MaxTime
            /\ now' = t
            /\ IF fails
               THEN Lapse(now)
               ELSE currentUser' = u /\ timeout' = end
            /\ Answer("take_control", u, ~fails)
            /\ UNCHANGED <<engaged, inFlight, cached>>

\* break_control: anybody may end anybody's reservation.
BreakControl(u) ==
    /\ IF currentUser = NoUser THEN UNCHANGED reservation
                               ELSE CancelReservation
    /\ Answer("break_control", u, TRUE)
    /\ UNCHANGED <<now, engaged, inFlight, cached>>

ReturnControl(u) ==
    /\ IF Reserved(now) \in {NoUser, u} THEN CancelReservation
                                        ELSE UNCHANGED reservation
    /\ Answer("return_control", u, Reserved(now) \in {NoUser, u})
    /\ UNCHANGED <<now, engaged, inFlight, cached>>

\* engage_safety_cutoff and disengage_safety_cutoff.
SetCutoff(u, b) ==
    /\ engaged' = b
    /\ Answer(IF b THEN "engage_safety_cutoff" ELSE "disengage_safety_cutoff",
              u, TRUE)
    /\ UNCHANGED <<now, currentUser, timeout, inFlight, cached>>
-------------------------------------------------------------------------------
(* The blocker's verdict on a PUT request r of user u.                     *)

\* A name in the list stops the command in any component, a dotted address
\* stops that address only.
IsCutoffBlocked(adr) ==
    \E p \in CutoffList :
        IF Len(p) > 1 THEN adr = p ELSE <<Last(adr)>> = p

\* A mutation for the runs: the white list is looked at before the cutoff.
CutOffUnlisted(r) == /\ engaged
                     /\ r.adr \notin WhiteList
                     /\ IsCutoffBlocked(r.adr)
                     /\ ~r.bypass

CutOff(r) == engaged /\ IsCutoffBlocked(r.adr) /\ ~r.bypass

\* What goes ahead whoever has control, if black list and cutoff permit.
FreeForAll(r) == r.adr \in WhiteList \/ r.special

\* A mutation for the runs: the owner is whoever reserved last.
ForwardsLast(u, r) ==
    /\ r.adr \notin BlackList
    /\ ~CutOff(r)
    /\ FreeForAll(r) \/ currentUser = u

Forwards(u, r) == /\ r.adr \notin BlackList
                  /\ ~CutOff(r)
                  /\ FreeForAll(r) \/ Reserved(now) = u

\* get_value of the blocker: only the last check looks at the reservation.
SendPut(u, r) ==
    /\ inFlight[u] = Nothing
    /\ inFlight' = [inFlight EXCEPT ![u] = IF Forwards(u, r) THEN r ELSE @]
    /\ IF r.adr \in BlackList \/ CutOff(r) \/ FreeForAll(r)
       THEN UNCHANGED reservation
       ELSE Lapse(now)
    /\ UNCHANGED <<now, engaged, cached, reply>>

\* The forwarded request reaches the device, after the awaits of its connector.
Execute(u) ==
    /\ inFlight[u] # Nothing
    /\ inFlight' = [inFlight EXCEPT ![u] = Nothing]
    /\ UNCHANGED <<now, currentUser, timeout, engaged, cached, reply>>
-------------------------------------------------------------------------------
(* Questions to the grantor, which pass the cache of its telescope.        *)

\* A mutation for the runs: the user is read before the timeout.
UserFirst(t1, t2) == [name |-> Reserved(t1),
                      until |-> IF Live(t2) THEN timeout ELSE NoTime]

\* The two reads of current_user, each with its own look at the clock.
UserAndTimeout(t1, t2) == [name |-> Reserved(t2),
                           until |-> IF Live(t1) THEN timeout ELSE NoTime]

CurrentUser(t1, t2) == IF UserAndTimeout(t1, t2).name = NoUser
                       THEN [name |-> NoUser, until |-> NoTime]
                       ELSE UserAndTimeout(t1, t2)

\* get_value of the grantor for the commands that only ask.
Value(cmd, u, t1, t2) ==
    CASE cmd = "current_user"        -> CurrentUser(t1, t2)
      [] cmd = "timeout_current_control"
                                     -> IF Live(t2) THEN timeout ELSE NoTime
      [] cmd = "is_access"           -> Reserved(t2) = u
      [] cmd = "safety_cutoff_state" -> engaged

\* A mutation for the runs: no_cachable_regex is empty.
IsAnyCachable(cmd) == TRUE

\* no_cachable_regex of the configuration names is_access.
IsCachable(cmd) == cmd # "is_access"

\* The cache answers by address alone: the user is not part of its key.
Ask(u, cmd, tolerance) ==
    LET hit == /\ IsCachable(cmd)
               /\ cached[cmd] # Nothing
               /\ cached[cmd].ts + tolerance >= now
    IN  \/ /\ hit
           /\ Answer(cmd, u, cached[cmd].v)
           /\ UNCHANGED <<now, currentUser, timeout, cached>>
           /\ UNCHANGED <<engaged, inFlight>>
        \/ /\ ~hit
           /\ \E t \in {now, now + 1} :
                LET v == Value(cmd, u, now, t)
                IN  /\ t <= MaxTime
                    /\ now' = t
                    /\ IF cmd = "safety_cutoff_state" THEN UNCHANGED reservation
                                                      ELSE Lapse(t)
                    /\ Answer(cmd, u, v)
                    /\ cached' = IF IsCachable(cmd)
                                 THEN [cached EXCEPT ![cmd] = [v |-> v, ts |-> t]]
                                 ELSE cached
           /\ UNCHANGED <<engaged, inFlight>>
-------------------------------------------------------------------------------
Tick == /\ now < MaxTime
        /\ now' = now + 1
        /\ UNCHANGED <<currentUser, timeout, engaged, inFlight, cached, reply>>

UserStep(u) == \/ \E asked \in Timeouts : TakeControl(u, asked)
               \/ BreakControl(u)
               \/ ReturnControl(u)
               \/ \E b \in BOOLEAN : SetCutoff(u, b)
               \/ \E r \in Request : SendPut(u, r)
               \/ Execute(u)
               \/ \E q \in Queries, d \in Tolerances : Ask(u, q, d)

Next == Tick \/ \E u \in Users : UserStep(u)

Spec == Init /\ [][Next]_vars
-------------------------------------------------------------------------------
TypeOK == /\ now \in 0..MaxTime
          /\ currentUser \in Users \cup {NoUser}
          /\ timeout \in Int
          /\ engaged \in BOOLEAN
          /\ inFlight \in [Users -> Request \cup {Nothing}]

\* Who has control now.
Owner == Reserved(now)

(* All the traffic of questions, refused requests and reservations that     *)
(* are over but still recorded comes to a register of who has control      *)
(* until when (Reservation): nobody loses it before its end but by a       *)
(* release, nobody has it after.                                           *)
Register == INSTANCE Reservation WITH
                clock <- now,
                holder <- Owner,
                until <- IF Owner = NoUser THEN 0 ELSE timeout

KeepsRegister == Register!ReservationSpec

(* Nobody keeps the telescope for longer than max_control_time without     *)
(* taking control again (make_reservation, line 98), whatever timeout was  *)
(* asked for and however often an earlier reservation was extended.        *)
ReservationBounded == currentUser # NoUser => timeout - now <= MaxControlTime

(* Control never passes straight from one user to another: in between      *)
(* nobody has it, because the owner gave it up, somebody broke it or it    *)
(* ran out (make_reservation, line 94), although a reservation that ran    *)
(* out stays recorded until the next call looks at it.                     *)
NoTakeover == [][ Owner # NoUser => Owner' \in {Owner, NoUser} ]_vars

Admitted(u) == inFlight[u] = Nothing /\ inFlight'[u] # Nothing

(* While the safety cutoff is engaged a dangerous command gets past the    *)
(* blocker with the dedicated bypass only: neither the special permission  *)
(* nor a white list opens the way (docstring, lines 23-25).                *)
CutoffHolds ==
    [][ \A u \in Users :
          (Admitted(u) /\ engaged /\ IsCutoffBlocked(inFlight'[u].adr))
              => inFlight'[u].bypass ]_vars

(* A PUT that neither a white list nor the special permission lets through *)
(* gets past the blocker for the user whose reservation runs at that very  *)
(* moment, not for the last one recorded.                                  *)
OwnerOnly ==
    [][ \A u \in Users :
          (Admitted(u) /\ ~FreeForAll(inFlight'[u])) => Owner = u ]_vars

(* current_user reports a user only with the end of that user's own        *)
(* reservation, even if the reservation ends while the answer is put       *)
(* together (comment at line 95 of the grantor).                           *)
ReportConsistent ==
    (reply # Nothing /\ reply.cmd = "current_user")
        => (reply.v.name = NoUser <=> reply.v.until = NoTime)

(* is_access answers for the user who asks ("a shared cache would lie",    *)
(* config.yaml:86): yes exactly if that user has control when the answer   *)
(* is given, although the cache knows addresses and no users.              *)
AccessAnswerIsTrue ==
    [][ \A u \in Users, d \in Tolerances :
          ("is_access" \in Queries /\ Ask(u, "is_access", d))
              => (reply'.v <=> Owner' = u) ]_vars

(* "take_control - this command reserves access for the user" (docstring of *)
(* the grantor, line 20; a timeout in the past disagrees): the answer      *)
(* TRUE means the user has control then.                                   *)
TakenMeansControl ==
    [][ \A u \in Users, asked \in Timeouts :
          (TakeControl(u, asked) /\ reply'.v) => Owner' = u ]_vars
===============================================================================
