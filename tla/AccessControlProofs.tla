--------------------------- MODULE AccessControlProofs ---------------------------
(***************************************************************************)
(* Theorems about AccessControl for any users, addresses, lists, timeouts  *)
(* and control times.  Every action does one of three things to the        *)
(* reservation: it leaves it alone, drops it, or makes one for a user whom *)
(* no other user's reservation is in the way of (StepKinds).  The theorems *)
(* about the reservation follow from these three cases, the theorems about *)
(* commands from the one action that admits them.                          *)
(***************************************************************************)
EXTENDS AccessControl, TLAPS

\* What a step may do to the reservation.
Keeps == UNCHANGED reservation
Drops == currentUser' = NoUser /\ timeout' = 0
Takes(u) == /\ Reserved(now) \in {NoUser, u}
            /\ currentUser' = u
            /\ timeout' \in Int
            /\ timeout' - now' <= MaxControlTime

\* Looking at the reservation keeps it or drops it.
LEMMA LapseKinds ==
    ASSUME NEW t, Lapse(t)
    PROVE  Keeps \/ Drops
  BY DEF Lapse, CancelReservation, Keeps, Drops

\* Taking control is refused, or makes a reservation that is short enough.
LEMMA TakeKinds ==
    ASSUME TypeOK, NEW u \in Users, NEW asked \in Timeouts, TakeControl(u, asked)
    PROVE  /\ now' \in Nat /\ now <= now' /\ now' <= MaxTime
           /\ Keeps \/ Drops \/ Takes(u)
  <1> USE AccessAssumption
  <1> now \in Nat
    BY DEF TypeOK
  <1>1. PICK t \in {now, now + 1} :
           LET end == IF asked = NoTime THEN t + DefaultControlTime ELSE asked
               fails == Refused(u, now) \/ TooLong(end, t)
           IN  /\ t <= MaxTime
               /\ now' = t
               /\ IF fails
                  THEN Lapse(now)
                  ELSE currentUser' = u /\ timeout' = end
    BY DEF TakeControl
  <1> DEFINE end == IF asked = NoTime THEN t + DefaultControlTime ELSE asked
  <1>2. now' = t /\ t \in Nat /\ now <= t /\ t <= MaxTime
    BY <1>1
  <1>3. end \in Int
    BY <1>2
  <1>4. CASE Refused(u, now) \/ TooLong(end, t)
    <2>1. Lapse(now)
      BY <1>1, <1>4
    <2> QED  BY <1>2, <2>1, LapseKinds
  <1>5. CASE ~(Refused(u, now) \/ TooLong(end, t))
    <2>1. currentUser' = u /\ timeout' = end
      BY <1>1, <1>5
    <2>2. Reserved(now) \in {NoUser, u}
      BY <1>5 DEF Refused
    <2>3. end - t <= MaxControlTime
      BY <1>2, <1>3, <1>5 DEF TooLong
    <2> QED  BY <1>2, <1>3, <2>1, <2>2, <2>3 DEF Takes
  <1> QED  BY <1>4, <1>5

\* What every step does to the clock and to the reservation.
LEMMA StepKinds ==
    ASSUME TypeOK, [Next]_vars
    PROVE  /\ now' \in 0..MaxTime /\ now <= now'
           /\ \/ Keeps
              \/ Drops
              \/ \E u \in Users : Takes(u)
  <1> USE AccessAssumption
  <1> now \in Nat /\ now <= MaxTime
    BY DEF TypeOK
  <1>1. CASE Tick
    BY <1>1 DEF Tick, Keeps, reservation
  <1>2. ASSUME NEW u \in Users, NEW asked \in Timeouts, TakeControl(u, asked)
        PROVE  /\ now' \in 0..MaxTime /\ now <= now'
               /\ Keeps \/ Drops \/ \E v \in Users : Takes(v)
    BY <1>2, TakeKinds
  <1>3. ASSUME NEW u \in Users, BreakControl(u)
        PROVE  now' = now /\ (Keeps \/ Drops)
    BY <1>3 DEF BreakControl, CancelReservation, Keeps, Drops
  <1>4. ASSUME NEW u \in Users, ReturnControl(u)
        PROVE  now' = now /\ (Keeps \/ Drops)
    BY <1>4 DEF ReturnControl, CancelReservation, Keeps, Drops
  <1>5. ASSUME NEW u \in Users, NEW b \in BOOLEAN, SetCutoff(u, b)
        PROVE  now' = now /\ Keeps
    BY <1>5 DEF SetCutoff, Keeps, reservation
  <1>6. ASSUME NEW u \in Users, NEW r \in Request, SendPut(u, r)
        PROVE  now' = now /\ (Keeps \/ Drops)
    <2>1. now' = now /\ (Keeps \/ Lapse(now))
      BY <1>6 DEF SendPut, Keeps
    <2> QED  BY <2>1, LapseKinds
  <1>7. ASSUME NEW u \in Users, Execute(u)
        PROVE  now' = now /\ Keeps
    BY <1>7 DEF Execute, Keeps, reservation
  <1>8. ASSUME NEW u \in Users, NEW q \in Queries, NEW d \in Tolerances,
               Ask(u, q, d)
        PROVE  now' \in 0..MaxTime /\ now <= now' /\ (Keeps \/ Drops)
    <2>1. \/ UNCHANGED <<now, currentUser, timeout>>
          \/ \E t \in {now, now + 1} :
                /\ t <= MaxTime
                /\ now' = t
                /\ Keeps \/ Lapse(t)
      BY <1>8 DEF Ask, Keeps
    <2>2. CASE UNCHANGED <<now, currentUser, timeout>>
      BY <2>2 DEF Keeps, reservation
    <2>3. ASSUME NEW t \in {now, now + 1},
                 t <= MaxTime, now' = t, Keeps \/ Lapse(t)
          PROVE  now' \in 0..MaxTime /\ now <= now' /\ (Keeps \/ Drops)
      BY <2>3, LapseKinds
    <2> QED  BY <2>1, <2>2, <2>3
  <1>9. CASE UNCHANGED vars
    BY <1>9 DEF vars, Keeps, reservation
  <1> QED
    BY <1>1, <1>2, <1>3, <1>4, <1>5, <1>6, <1>7, <1>8, <1>9 DEF Next, UserStep
-------------------------------------------------------------------------------
(* Types.                                                                  *)

\* A step leaves the cutoff a switch and every forwarded command a request.
LEMMA CommandTypes ==
    ASSUME TypeOK, [Next]_vars
    PROVE  engaged' \in BOOLEAN /\ inFlight' \in [Users -> Request \cup {Nothing}]
  <1> engaged \in BOOLEAN /\ inFlight \in [Users -> Request \cup {Nothing}]
    BY DEF TypeOK
  <1>1. CASE Tick
    BY <1>1 DEF Tick
  <1>2. ASSUME NEW u \in Users, NEW asked \in Timeouts, TakeControl(u, asked)
        PROVE  UNCHANGED <<engaged, inFlight>>
    BY <1>2 DEF TakeControl
  <1>3. ASSUME NEW u \in Users, BreakControl(u) \/ ReturnControl(u)
        PROVE  UNCHANGED <<engaged, inFlight>>
    BY <1>3 DEF BreakControl, ReturnControl
  <1>4. ASSUME NEW u \in Users, NEW b \in BOOLEAN, SetCutoff(u, b)
        PROVE  engaged' \in BOOLEAN /\ UNCHANGED inFlight
    BY <1>4 DEF SetCutoff
  <1>5. ASSUME NEW u \in Users, NEW r \in Request, SendPut(u, r)
        PROVE  /\ UNCHANGED engaged
               /\ inFlight' \in [Users -> Request \cup {Nothing}]
    BY <1>5 DEF SendPut
  <1>6. ASSUME NEW u \in Users, Execute(u)
        PROVE  /\ UNCHANGED engaged
               /\ inFlight' \in [Users -> Request \cup {Nothing}]
    BY <1>6 DEF Execute
  <1>7. ASSUME NEW u \in Users, NEW q \in Queries, NEW d \in Tolerances,
               Ask(u, q, d)
        PROVE  UNCHANGED <<engaged, inFlight>>
    BY <1>7 DEF Ask
  <1>8. CASE UNCHANGED vars
    BY <1>8 DEF vars
  <1> QED
    BY <1>1, <1>2, <1>3, <1>4, <1>5, <1>6, <1>7, <1>8 DEF Next, UserStep

\* The clock, the reservation, the cutoff and the commands under way keep
\* their types in every execution of the blocker and the grantor.
THEOREM AccessTypes == Spec => []TypeOK
  <1>1. Init => TypeOK
    <2> SUFFICES ASSUME Init
                 PROVE  TypeOK
      OBVIOUS
    <2>1. inFlight \in [Users -> Request \cup {Nothing}]
      BY DEF Init
    <2>2. now \in 0..MaxTime /\ timeout \in Int
      BY AccessAssumption DEF Init
    <2>3. currentUser \in Users \cup {NoUser} /\ engaged \in BOOLEAN
      BY DEF Init
    <2> QED  BY <2>1, <2>2, <2>3 DEF TypeOK
  <1>2. TypeOK /\ [Next]_vars => TypeOK'
    <2> SUFFICES ASSUME TypeOK, [Next]_vars
                 PROVE  TypeOK'
      OBVIOUS
    <2>1. now' \in 0..MaxTime
      BY StepKinds
    <2>2. currentUser' \in Users \cup {NoUser} /\ timeout' \in Int
      BY StepKinds DEF Keeps, Drops, Takes, reservation, TypeOK
    <2> QED  BY <2>1, <2>2, CommandTypes DEF TypeOK
  <1> QED  BY <1>1, <1>2, PTL DEF Spec
-------------------------------------------------------------------------------
(* The reservation.                                                        *)

\* Of a time to go there is less when the clock has advanced.
LEMMA LessIsLeft ==
    ASSUME NEW t \in Int, NEW m \in Int, NEW n \in Int, NEW max \in Nat,
           m <= n, t - m <= max
    PROVE  t - n <= max
  OBVIOUS

\* No reservation, however asked for or extended, reaches further than
\* max_control_time ahead (the check of make_reservation): a step that keeps
\* it lets time pass only, one that makes it has checked it.
THEOREM ReservationsAreBounded == Spec => []ReservationBounded
  <1>1. Init => ReservationBounded
    BY DEF Init, ReservationBounded
  <1>2. TypeOK /\ ReservationBounded /\ [Next]_vars => ReservationBounded'
    <2> SUFFICES ASSUME TypeOK, ReservationBounded, [Next]_vars
                 PROVE  ReservationBounded'
      OBVIOUS
    <2>0. now \in Int /\ timeout \in Int /\ now' \in Int /\ now <= now'
      BY StepKinds, AccessAssumption DEF TypeOK
    <2>1. CASE Keeps
      <3>1. currentUser' = currentUser /\ timeout' = timeout
        BY <2>1 DEF Keeps, reservation
      <3>2. timeout - now <= MaxControlTime => timeout - now' <= MaxControlTime
        BY <2>0, LessIsLeft, AccessAssumption
      <3>3. CASE currentUser = NoUser
        BY <3>1, <3>3 DEF ReservationBounded
      <3>4. CASE currentUser # NoUser
        <4>1. timeout - now <= MaxControlTime
          BY <3>4 DEF ReservationBounded
        <4>2. timeout - now' <= MaxControlTime
          BY <3>2, <4>1
        <4> QED  BY <3>1, <4>2 DEF ReservationBounded
      <3> QED  BY <3>3, <3>4
    <2>2. CASE Drops
      BY <2>2 DEF Drops, ReservationBounded
    <2>3. ASSUME NEW u \in Users, Takes(u)
          PROVE  ReservationBounded'
      BY <2>3 DEF Takes, ReservationBounded
    <2> QED  BY <2>1, <2>2, <2>3, StepKinds
  <1> QED  BY <1>1, <1>2, AccessTypes, PTL DEF Spec

\* Nobody takes control from a user whose reservation runs: control goes to
\* another user by way of nobody, in one step of any user's request or of the
\* clock.
THEOREM ControlIsNotTakenOver == Spec => NoTakeover
  <1>1. TypeOK /\ [Next]_vars => [Owner # NoUser => Owner' \in {Owner, NoUser}]_vars
    <2> SUFFICES ASSUME TypeOK, [Next]_vars, Owner # NoUser
                 PROVE  Owner' \in {Owner, NoUser}
      OBVIOUS
    <2>0. now \in Int /\ timeout \in Int /\ now' \in Int /\ now <= now'
      BY StepKinds, AccessAssumption DEF TypeOK
    <2>1. Owner = currentUser
      BY DEF Owner, Reserved
    <2>2. Owner' \in {currentUser', NoUser}
      BY DEF Owner, Reserved
    <2>3. CASE Keeps
      BY <2>0, <2>1, <2>2, <2>3 DEF Keeps, reservation
    <2>4. CASE Drops
      BY <2>2, <2>4 DEF Drops
    <2>5. ASSUME NEW u \in Users, Takes(u)
          PROVE  Owner' \in {Owner, NoUser}
      BY <2>2, <2>5 DEF Takes, Owner
    <2> QED  BY <2>3, <2>4, <2>5, StepKinds
  <1> QED  BY <1>1, AccessTypes, PTL DEF Spec, NoTakeover

\* A reservation that is short enough ends early enough.
LEMMA EndsInTime ==
    ASSUME NEW t \in Int, NEW n \in Int, NEW max \in Int, t - n <= max
    PROVE  t <= n + max
  OBVIOUS

\* Every step of the blocker and the grantor is one of the register of who has
\* control: it lets time pass, possibly past the end of a reservation, releases
\* the control, or takes it for a user nobody else is in the way of.
THEOREM RegisterIsKept == Spec => KeepsRegister
  <1> USE AccessAssumption
  <1>1. Init => Register!ReservationInit
    BY DEF Init, Register!ReservationInit, Owner, Reserved, Live
  <1>2. TypeOK /\ [Next]_vars => [Register!ReservationNext]_(Register!registerVars)
    <2> SUFFICES ASSUME TypeOK, [Next]_vars
                 PROVE  Register!ReservationNext
      OBVIOUS
    <2>1. now \in Int /\ timeout \in Int /\ now' \in Nat /\ now <= now'
      BY StepKinds DEF TypeOK
    <2>2. ASSUME Owner' = NoUser
          PROVE  Register!Release
      BY <2>2 DEF Register!Release
    <2>3. CASE Keeps
      <3>1. currentUser' = currentUser /\ timeout' = timeout
        BY <2>3 DEF Keeps, reservation
      <3>2. CASE Owner' # NoUser
        <4>1. timeout > now' /\ Owner = currentUser /\ Owner' = currentUser
          BY <2>1, <3>1, <3>2 DEF Owner, Reserved, Live
        <4>2. Register!Pass
          BY <3>1, <3>2, <4>1 DEF Register!Pass
        <4> QED  BY <2>1, <4>2 DEF Register!ReservationNext
      <3> QED  BY <2>2, <3>2, <2>1 DEF Register!ReservationNext
    <2>4. CASE Drops
      BY <2>1, <2>2, <2>4 DEF Drops, Owner, Reserved, Live, Register!ReservationNext
    <2>5. ASSUME NEW u \in Users, Takes(u)
          PROVE  Register!ReservationNext
      <3>1. CASE Owner' # NoUser
        <4>1. timeout' \in Int /\ timeout' - now' <= MaxControlTime
          BY <2>5 DEF Takes
        <4>2. timeout' <= now' + MaxControlTime
          <5>1. now' \in Int /\ MaxControlTime \in Int
            BY <2>1
          <5> QED  BY <4>1, <5>1, EndsInTime, Zenon
        <4>3. Owner' = u /\ timeout' > now'
          BY <2>5, <3>1 DEF Takes, Owner, Reserved, Live
        <4>4. Owner \in {NoUser, u}
          BY <2>5 DEF Takes, Owner
        <4>5. Register!Take(u)
          BY <3>1, <4>2, <4>3, <4>4 DEF Register!Take
        <4> QED  BY <2>1, <4>5 DEF Register!ReservationNext
      <3> QED  BY <2>1, <2>2, <3>1 DEF Register!ReservationNext
    <2> QED  BY <2>3, <2>4, <2>5, StepKinds DEF Register!ReservationNext
  <1> QED
    BY <1>1, <1>2, AccessTypes, PTL
       DEF Spec, KeepsRegister, Register!ReservationSpec
-------------------------------------------------------------------------------
(* Answers.                                                                *)

Consistent(v) == v.name = NoUser <=> v.until = NoTime

\* What the cache keeps of current_user is as good as what was answered.
ReportsConsistent ==
    /\ ReportConsistent
    /\ cached = [q \in Queries |-> cached[q]]
    /\ \A q \in Queries : q = "current_user" /\ cached[q] # Nothing
                              => Consistent(cached[q].v)

\* A reservation that runs at the second look ran at the first.
LEMMA CurrentUserConsistent ==
    ASSUME TypeOK, NEW t \in {now, now + 1}
    PROVE  Consistent(CurrentUser(now, t))
  <1> USE AccessAssumption
  <1>1. now \in Int /\ timeout \in Int /\ timeout # NoTime
    BY DEF TypeOK
  <1>2. CASE Reserved(t) = NoUser
    BY <1>2 DEF Consistent, CurrentUser, UserAndTimeout
  <1>3. CASE Reserved(t) # NoUser
    <2>1. Live(t) /\ Live(now)
      BY <1>1, <1>3 DEF Reserved, Live
    <2> QED  BY <1>1, <1>3, <2>1 DEF Consistent, CurrentUser, UserAndTimeout
  <1> QED  BY <1>2, <1>3

\* A question is answered from the cache, or with a value that the cache may
\* keep for it.
LEMMA AskConsistent ==
    ASSUME TypeOK, ReportsConsistent, NEW u \in Users, NEW q \in Queries,
           NEW d \in Tolerances, Ask(u, q, d)
    PROVE  ReportsConsistent'
  <1>1. CASE UNCHANGED cached /\ cached[q] # Nothing /\ Answer(q, u, cached[q].v)
    BY <1>1 DEF ReportsConsistent, ReportConsistent, Consistent, Answer
  <1>2. ASSUME NEW t \in {now, now + 1},
               Answer(q, u, Value(q, u, now, t)),
               cached' = IF IsCachable(q)
                         THEN [cached EXCEPT ![q] = [v |-> Value(q, u, now, t),
                                                     ts |-> t]]
                         ELSE cached
        PROVE  ReportsConsistent'
    <2>1. q = "current_user" => Consistent(Value(q, u, now, t))
      BY CurrentUserConsistent DEF Value
    <2>2. ReportConsistent'
      BY <1>2, <2>1 DEF ReportConsistent, Consistent, Answer
    <2>3. cached' = [p \in Queries |-> cached'[p]]
      BY <1>2 DEF ReportsConsistent
    <2>4. ASSUME NEW p \in Queries, p = "current_user", cached'[p] # Nothing
          PROVE  Consistent(cached'[p].v)
      <3>1. CASE p = q /\ IsCachable(q)
        <4>1. cached'[p].v = Value(q, u, now, t)
          BY <1>2, <3>1 DEF ReportsConsistent
        <4> QED  BY <2>1, <2>4, <3>1, <4>1
      <3>2. CASE ~(p = q /\ IsCachable(q))
        <4>1. cached'[p] = cached[p]
          BY <1>2, <3>2 DEF ReportsConsistent
        <4> QED  BY <2>4, <4>1 DEF ReportsConsistent
      <3> QED  BY <3>1, <3>2
    <2>5. \A v : Consistent(v)' <=> Consistent(v')
      BY DEF Consistent
    <2> QED  BY <2>2, <2>3, <2>4, <2>5 DEF ReportsConsistent, Consistent
  <1> QED
    BY <1>1, <1>2 DEF Ask

\* current_user names a user only together with the end of that user's
\* reservation, however long ago the cache was told.
THEOREM ReportsAreConsistent == Spec => []ReportConsistent
  <1>1. Init => ReportsConsistent
    BY DEF Init, ReportsConsistent, ReportConsistent
  <1>2. TypeOK /\ ReportsConsistent /\ [Next]_vars => ReportsConsistent'
    <2> SUFFICES ASSUME TypeOK, ReportsConsistent, [Next]_vars
                 PROVE  ReportsConsistent'
      OBVIOUS
    <2>1. ASSUME NEW cmd, NEW u, NEW v, cmd # "current_user",
                 Answer(cmd, u, v), UNCHANGED cached
          PROVE  ReportsConsistent'
      BY <2>1 DEF ReportsConsistent, ReportConsistent, Consistent, Answer
    <2>2. CASE UNCHANGED <<cached, reply>>
      BY <2>2 DEF ReportsConsistent, ReportConsistent, Consistent
    <2>3. ASSUME NEW u \in Users, NEW asked \in Timeouts, TakeControl(u, asked)
          PROVE  ReportsConsistent'
      BY <2>1, <2>3 DEF TakeControl
    <2>4. ASSUME NEW u \in Users, BreakControl(u)
          PROVE  ReportsConsistent'
      BY <2>1, <2>4 DEF BreakControl
    <2>5. ASSUME NEW u \in Users, ReturnControl(u)
          PROVE  ReportsConsistent'
      BY <2>1, <2>5 DEF ReturnControl
    <2>6. ASSUME NEW u \in Users, NEW b \in BOOLEAN, SetCutoff(u, b)
          PROVE  ReportsConsistent'
      BY <2>1, <2>6 DEF SetCutoff
    <2>7. ASSUME NEW u \in Users, NEW r \in Request, SendPut(u, r)
          PROVE  ReportsConsistent'
      BY <2>2, <2>7 DEF SendPut
    <2>8. ASSUME NEW u \in Users, Execute(u)
          PROVE  ReportsConsistent'
      BY <2>2, <2>8 DEF Execute
    <2>9. CASE Tick \/ UNCHANGED vars
      BY <2>2, <2>9 DEF Tick, vars
    <2> QED
      BY <2>3, <2>4, <2>5, <2>6, <2>7, <2>8, <2>9, AskConsistent
         DEF Next, UserStep
  <1>3. ReportsConsistent => ReportConsistent
    BY DEF ReportsConsistent
  <1> QED  BY <1>1, <1>2, <1>3, AccessTypes, PTL DEF Spec
-------------------------------------------------------------------------------
(* Commands.                                                               *)

\* Only SendPut admits a command, and only one the blocker's checks forward.
LEMMA AdmittedForwards ==
    ASSUME TypeOK, [Next]_vars, NEW u \in Users, Admitted(u)
    PROVE  inFlight'[u] \in Request /\ Forwards(u, inFlight'[u])
  <1> inFlight \in [Users -> Request \cup {Nothing}]
    BY DEF TypeOK
  <1>1. CASE UNCHANGED inFlight
    BY <1>1 DEF Admitted
  <1>2. ASSUME NEW v \in Users, NEW r \in Request, SendPut(v, r)
        PROVE  inFlight'[u] \in Request /\ Forwards(u, inFlight'[u])
    <2>1. inFlight' = [inFlight EXCEPT ![v] = IF Forwards(v, r) THEN r ELSE @]
      BY <1>2 DEF SendPut
    <2>2. u = v /\ Forwards(v, r) /\ inFlight'[u] = r
      BY <2>1 DEF Admitted
    <2> QED  BY <2>2
  <1>3. ASSUME NEW v \in Users, Execute(v)
        PROVE  FALSE
    BY <1>3 DEF Execute, Admitted
  <1>4. ASSUME NEW v \in Users, NEW asked \in Timeouts, TakeControl(v, asked)
        PROVE  UNCHANGED inFlight
    BY <1>4 DEF TakeControl
  <1>5. ASSUME NEW v \in Users, BreakControl(v) \/ ReturnControl(v)
        PROVE  UNCHANGED inFlight
    BY <1>5 DEF BreakControl, ReturnControl
  <1>6. ASSUME NEW v \in Users, NEW b \in BOOLEAN, SetCutoff(v, b)
        PROVE  UNCHANGED inFlight
    BY <1>6 DEF SetCutoff
  <1>7. ASSUME NEW v \in Users, NEW q \in Queries, NEW d \in Tolerances,
               Ask(v, q, d)
        PROVE  UNCHANGED inFlight
    BY <1>7 DEF Ask
  <1>8. CASE Tick \/ UNCHANGED vars
    BY <1>1, <1>8 DEF Tick, vars
  <1> QED
    BY <1>1, <1>2, <1>3, <1>4, <1>5, <1>6, <1>7, <1>8 DEF Next, UserStep

\* No white list and no special permission brings a dangerous command past the
\* blocker while the cutoff is engaged: only the bypass does.
THEOREM CutoffIsKept == Spec => CutoffHolds
  <1>1. TypeOK /\ [Next]_vars =>
          [\A u \in Users :
             (Admitted(u) /\ engaged /\ IsCutoffBlocked(inFlight'[u].adr))
                 => inFlight'[u].bypass]_vars
    <2> SUFFICES ASSUME TypeOK, [Next]_vars, NEW u \in Users, Admitted(u),
                        engaged, IsCutoffBlocked(inFlight'[u].adr)
                 PROVE  inFlight'[u].bypass
      OBVIOUS
    <2>1. Forwards(u, inFlight'[u])
      BY AdmittedForwards
    <2> QED  BY <2>1 DEF Forwards, CutOff
  <1> QED  BY <1>1, AccessTypes, PTL DEF Spec, CutoffHolds

\* A command that needs control is forwarded for the user whose reservation
\* runs when the blocker looks at it, and for nobody else.
THEOREM OnlyTheOwnerCommands == Spec => OwnerOnly
  <1>1. TypeOK /\ [Next]_vars =>
          [\A u \in Users :
             (Admitted(u) /\ ~FreeForAll(inFlight'[u])) => Owner = u]_vars
    <2> SUFFICES ASSUME TypeOK, [Next]_vars, NEW u \in Users, Admitted(u),
                        ~FreeForAll(inFlight'[u])
                 PROVE  Owner = u
      OBVIOUS
    <2>1. Forwards(u, inFlight'[u])
      BY AdmittedForwards
    <2> QED  BY <2>1 DEF Forwards, Owner
  <1> QED  BY <1>1, AccessTypes, PTL DEF Spec, OwnerOnly

\* is_access is true for the user who asks: the answer comes from the blocker and not
\* from the cache, and the clock may move between the look at the reservation and the
\* look at the time.
THEOREM AccessAnswersAreTrue == Spec => AccessAnswerIsTrue
  <1> DEFINE Truth == \A u \in Users, d \in Tolerances :
                          ("is_access" \in Queries /\ Ask(u, "is_access", d))
                              => (reply'.v <=> Owner' = u)
  <1>1. TypeOK /\ [Next]_vars => [Truth]_vars
    <2> SUFFICES ASSUME TypeOK, NEW u \in Users, NEW d \in Tolerances, Ask(u, "is_access", d)
                 PROVE  reply'.v <=> Owner' = u
      OBVIOUS
    <2>1. PICK t \in {now, now + 1} :
             /\ now' = t /\ Lapse(t)
             /\ reply' = [cmd |-> "is_access", user |-> u, v |-> Reserved(t) = u]
      BY DEF Ask, IsCachable, Answer, Value
    <2>2. Owner' = Reserved(t)
      <3>1. t \in Int /\ timeout \in Int
        BY DEF TypeOK
      <3> QED  BY <2>1, <3>1 DEF Lapse, CancelReservation, reservation, Owner, Reserved, Live
    <2> QED  BY <2>1, <2>2
  <1> QED  BY <1>1, AccessTypes, PTL DEF Spec, AccessAnswerIsTrue
===============================================================================
