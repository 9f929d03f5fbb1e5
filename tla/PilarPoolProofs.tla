----------------------------- MODULE PilarPoolProofs -----------------------------
(***************************************************************************)
(* Proofs about PilarPool for every set of commands, ids and connections.  *)
(***************************************************************************)
EXTENDS PilarPool, FiniteSetTheorems, TLAPS

\* Where a command has an id, and where it has a connection.
HasId == {"conn", "executing", "replacing"}

\* What a command has follows from where it waits; moves only wait for the
\* resource; before the pool of ids is made nobody is past the lock.
Possession ==
    /\ \A c \in Commands : /\ pc[c] \in HasId <=> cmdId[c] # None
                           /\ pc[c] = "executing" <=> conn[c] # None
                           /\ pc[c] = "resource" => c \in Moves
    /\ hasPool => hasIds
    /\ ~hasIds => \A c \in Commands : pc[c] \in {"done", "resource", "connlock"}

Inv == TypeOK /\ Possession /\ NothingShared /\ LockFollowsMove

-------------------------------------------------------------------------------
(* Each action keeps each part of Inv.                                     *)

\* A command that needs no resource sets out.
LEMMA BeginKeeps ==
    ASSUME Inv, NEW c \in Commands, Begin(c)
    PROVE  Inv'
<1>. USE PilarAssumption DEF Inv, TypeOK, Possession, HasId, pools, held,
         Begin, Unreachable, Ensure, Goto
<1>1. TypeOK'
  OBVIOUS
<1>2. Possession'
  OBVIOUS
<1>3. NothingShared'
  BY DEF NothingShared
<1>4. LockFollowsMove'
  BY DEF LockFollowsMove, Moving
<1>5. QED
  BY <1>1, <1>2, <1>3, <1>4

\* A move queues for the resource.
LEMMA BeginMoveKeeps ==
    ASSUME Inv, NEW c \in Commands, BeginMove(c)
    PROVE  Inv'
<1>. USE PilarAssumption DEF Inv, TypeOK, Possession, HasId, pools, held,
         BeginMove, Goto
<1>1. TypeOK'
  OBVIOUS
<1>2. Possession'
  OBVIOUS
<1>3. NothingShared'
  BY DEF NothingShared
<1>4. LockFollowsMove'
  BY DEF LockFollowsMove, Moving
<1>5. QED
  BY <1>1, <1>2, <1>3, <1>4

\* It gets the resource and holds it, or lets go of it at once.
LEMMA TakeResourceKeeps ==
    ASSUME Inv, NEW c \in Commands, TakeResource(c)
    PROVE  Inv'
<1>. USE PilarAssumption DEF Inv, TypeOK, Possession, HasId, pools, held,
         TakeResource, Unreachable, Ensure, Leave, ReleaseResource, Goto
<1>1. TypeOK'
  OBVIOUS
<1>2. Possession'
  OBVIOUS
<1>3. NothingShared'
  BY DEF NothingShared
<1>4. LockFollowsMove'
  BY DEF LockFollowsMove, Moving
<1>5. QED
  BY <1>1, <1>2, <1>3, <1>4

\* The ids come into being when nobody has one yet.
LEMMA EnterConnectKeeps ==
    ASSUME Inv, NEW c \in Commands, EnterConnect(c)
    PROVE  Inv'
<1>. USE PilarAssumption DEF Inv, TypeOK, Possession, HasId, pools, held,
         EnterConnect, MustConnect, Leave, ReleaseResource, Goto
<1>1. TypeOK'
  <2>1. CASE MustConnect(c)
    BY <2>1
  <2>2. CASE ~MustConnect(c)
    BY <2>2
  <2>3. QED
    BY <2>1, <2>2
<1>2. Possession'
  OBVIOUS
<1>3. NothingShared'
  BY DEF NothingShared
<1>4. LockFollowsMove'
  BY DEF LockFollowsMove, Moving
<1>5. QED
  BY <1>1, <1>2, <1>3, <1>4

\* The new pool has connections that nobody has.
LEMMA ConnectedKeeps ==
    ASSUME Inv, NEW c \in Commands, Connected(c)
    PROVE  Inv'
<1>. USE PilarAssumption DEF Inv, TypeOK, Possession, HasId, pools, held,
         Connected, Opened, InHand, Goto
<1>1. TypeOK'
  OBVIOUS
<1>2. Possession'
  OBVIOUS
<1>3. NothingShared'
  BY DEF NothingShared
<1>4. LockFollowsMove'
  BY DEF LockFollowsMove, Moving
<1>5. QED
  BY <1>1, <1>2, <1>3, <1>4

\* A failed attempt frees the resource.
LEMMA ConnectFailsKeeps ==
    ASSUME Inv, NEW c \in Commands, ConnectFails(c)
    PROVE  Inv'
<1>. USE PilarAssumption DEF Inv, TypeOK, Possession, HasId, pools, held,
         ConnectFails, Leave, ReleaseResource, Goto
<1>1. TypeOK'
  OBVIOUS
<1>2. Possession'
  OBVIOUS
<1>3. NothingShared'
  BY DEF NothingShared
<1>4. LockFollowsMove'
  BY DEF LockFollowsMove, Moving
<1>5. QED
  BY <1>1, <1>2, <1>3, <1>4

\* An id that is taken is not free any more.
LEMMA TakeIdKeeps ==
    ASSUME Inv, NEW c \in Commands, TakeId(c)
    PROVE  Inv'
<1>. USE PilarAssumption DEF Inv, TypeOK, Possession, HasId, pools, held,
         TakeId, Goto
<1>1. TypeOK'
  OBVIOUS
<1>2. Possession'
  OBVIOUS
<1>3. NothingShared'
  BY DEF NothingShared
<1>4. LockFollowsMove'
  BY DEF LockFollowsMove, Moving
<1>5. QED
  BY <1>1, <1>2, <1>3, <1>4

\* A connection that is taken is not idle any more.
LEMMA TakeConnectionKeeps ==
    ASSUME Inv, NEW c \in Commands, TakeConnection(c)
    PROVE  Inv'
<1>. USE PilarAssumption DEF Inv, TypeOK, Possession, HasId, pools, held,
         TakeConnection, Goto
<1>1. TypeOK'
  OBVIOUS
<1>2. Possession'
  OBVIOUS
<1>3. NothingShared'
  BY DEF NothingShared
<1>4. LockFollowsMove'
  BY DEF LockFollowsMove, Moving
<1>5. QED
  BY <1>1, <1>2, <1>3, <1>4

\* A time-out forgets the id and frees the resource.
LEMMA GiveUpKeeps ==
    ASSUME Inv, NEW c \in Commands, GiveUp(c)
    PROVE  Inv'
<1>. USE PilarAssumption DEF Inv, TypeOK, Possession, HasId, pools, held,
         GiveUp, Leave, ReleaseResource, Goto
<1>1. TypeOK'
  OBVIOUS
<1>2. Possession'
  OBVIOUS
<1>3. NothingShared'
  BY DEF NothingShared
<1>4. LockFollowsMove'
  BY DEF LockFollowsMove, Moving
<1>5. QED
  BY <1>1, <1>2, <1>3, <1>4

\* What was in hand goes back as it leaves the hand.
LEMMA CompleteKeeps ==
    ASSUME Inv, NEW c \in Commands, Complete(c)
    PROVE  Inv'
<1>. USE PilarAssumption DEF Inv, TypeOK, Possession, HasId, pools, held,
         Complete, ReturnId, Leave, ReleaseResource, Goto
<1>1. TypeOK'
  OBVIOUS
<1>2. Possession'
  OBVIOUS
<1>3. NothingShared'
  BY DEF NothingShared
<1>4. LockFollowsMove'
  BY DEF LockFollowsMove, Moving
<1>5. QED
  BY <1>1, <1>2, <1>3, <1>4

\* The broken connection is nowhere.
LEMMA BreakKeeps ==
    ASSUME Inv, NEW c \in Commands, Break(c)
    PROVE  Inv'
<1>. USE PilarAssumption DEF Inv, TypeOK, Possession, HasId, pools, held,
         Break, Close, Goto
<1>1. TypeOK'
  OBVIOUS
<1>2. Possession'
  OBVIOUS
<1>3. NothingShared'
  BY DEF NothingShared
<1>4. LockFollowsMove'
  BY DEF LockFollowsMove, Moving
<1>5. QED
  BY <1>1, <1>2, <1>3, <1>4

\* The replacement is a connection that nobody has.
LEMMA ReplacedKeeps ==
    ASSUME Inv, NEW c \in Commands, Replaced(c)
    PROVE  Inv'
<1>. USE PilarAssumption DEF Inv, TypeOK, Possession, HasId, pools, held,
         Replaced, ReturnId, Leave, ReleaseResource, Goto, Opened, InHand
<1>1. TypeOK'
  OBVIOUS
<1>2. Possession'
  OBVIOUS
<1>3. NothingShared'
  BY DEF NothingShared
<1>4. LockFollowsMove'
  BY DEF LockFollowsMove, Moving
<1>5. QED
  BY <1>1, <1>2, <1>3, <1>4

\* The id goes back without a connection.
LEMMA ReplaceFailsKeeps ==
    ASSUME Inv, NEW c \in Commands, ReplaceFails(c)
    PROVE  Inv'
<1>. USE PilarAssumption DEF Inv, TypeOK, Possession, HasId, pools, held,
         ReplaceFails, ReturnId, Leave, ReleaseResource, Goto
<1>1. TypeOK'
  OBVIOUS
<1>2. Possession'
  OBVIOUS
<1>3. NothingShared'
  BY DEF NothingShared
<1>4. LockFollowsMove'
  BY DEF LockFollowsMove, Moving
<1>5. QED
  BY <1>1, <1>2, <1>3, <1>4

\* A cancelled command gives back what it has.
LEMMA CancelExecuteKeeps ==
    ASSUME Inv, NEW c \in Commands, CancelExecute(c)
    PROVE  Inv'
<1>. USE PilarAssumption DEF Inv, TypeOK, Possession, HasId, pools, held,
         CancelExecute, ReturnId, Leave, ReleaseResource, Goto
<1>1. TypeOK'
  OBVIOUS
<1>2. Possession'
  OBVIOUS
<1>3. NothingShared'
  BY DEF NothingShared
<1>4. LockFollowsMove'
  BY DEF LockFollowsMove, Moving
<1>5. QED
  BY <1>1, <1>2, <1>3, <1>4

\* Elsewhere it forgets it.
LEMMA CancelElsewhereKeeps ==
    ASSUME Inv, NEW c \in Commands, CancelElsewhere(c)
    PROVE  Inv'
<1>. USE PilarAssumption DEF Inv, TypeOK, Possession, HasId, pools, held,
         CancelElsewhere, Leave, ReleaseResource, Goto
<1>1. TypeOK'
  OBVIOUS
<1>2. Possession'
  OBVIOUS
<1>3. NothingShared'
  BY DEF NothingShared
<1>4. LockFollowsMove'
  BY DEF LockFollowsMove, Moving
<1>5. QED
  BY <1>1, <1>2, <1>3, <1>4

\* Pilar and the clock touch nothing a command has.
LEMMA WorldKeeps ==
    ASSUME Inv, GoDown \/ GoUp \/ CooldownEnds
    PROVE  Inv'
<1>1. TypeOK'
  BY DEF Inv, TypeOK, GoDown, GoUp, CooldownEnds, Opened, InHand, pools, held
<1>2. UNCHANGED <<hasPool, hasIds, idle, freeIds, pc, cmdId, conn, mover>>
  BY DEF GoDown, GoUp, CooldownEnds, pools, held
<1>3. (Possession /\ NothingShared /\ LockFollowsMove)'
  BY <1>2 DEF Inv, Possession, NothingShared, LockFollowsMove, Moving
<1>4. QED
  BY <1>1, <1>3 DEF Inv

\* Nobody has anything at first.
LEMMA StartsWell == Init => Inv
<1>. SUFFICES ASSUME Init PROVE Inv
  OBVIOUS
<1>1. TypeOK
  BY DEF Init, TypeOK
<1>2. Possession
  BY DEF Init, Possession, HasId
<1>3. NothingShared
  BY DEF Init, NothingShared
<1>4. LockFollowsMove
  BY PilarAssumption DEF Init, LockFollowsMove, Moving
<1>5. QED
  BY <1>1, <1>2, <1>3, <1>4 DEF Inv

\* The invariant is inductive.
LEMMA StepsKeep == Inv /\ [Next]_vars => Inv'
<1>. SUFFICES ASSUME Inv, [Next]_vars PROVE Inv'
  OBVIOUS
<1>1. CASE UNCHANGED vars
  BY <1>1 DEF vars, pools, held, Inv, TypeOK, Possession, NothingShared,
              LockFollowsMove, Moving
<1>2. CASE GoDown \/ GoUp \/ CooldownEnds
  BY <1>2, WorldKeeps
<1>3. ASSUME NEW c \in Commands, Advance(c)
      PROVE  Inv'
  BY <1>3, ConnectedKeeps, ConnectFailsKeeps, TakeIdKeeps, TakeConnectionKeeps,
     GiveUpKeeps, CompleteKeeps, BreakKeeps, ReplacedKeeps, ReplaceFailsKeeps
     DEF Advance
<1>4. ASSUME NEW c \in Commands, Queue(c) \/ Request(c) \/ Cancel(c)
      PROVE  Inv'
  BY <1>4, TakeResourceKeeps, EnterConnectKeeps, BeginKeeps, BeginMoveKeeps,
     CancelExecuteKeeps, CancelElsewhereKeeps
     DEF Queue, Request, Cancel
<1>5. QED
  BY <1>1, <1>2, <1>3, <1>4 DEF Next

\* So it holds always.
LEMMA Invariance == Spec => []Inv
  BY StartsWell, StepsKeep, PTL DEF Spec

-------------------------------------------------------------------------------
\* Every variable keeps its type.
THEOREM PilarTypes == Spec => []TypeOK
<1>1. Inv => TypeOK
  BY DEF Inv
<1>2. QED
  BY <1>1, Invariance, PTL

\* No two commands ever have the same id or the same connection, and what one
\* of them has is not given out again (NothingShared).
THEOREM NothingIsShared == Spec => []NothingShared
<1>1. Inv => NothingShared
  BY DEF Inv
<1>2. QED
  BY <1>1, Invariance, PTL

\* The resource is locked exactly while a command moves it (LockFollowsMove).
THEOREM LockFollowsTheMove == Spec => []LockFollowsMove
<1>1. Inv => LockFollowsMove
  BY DEF Inv
<1>2. QED
  BY <1>1, Invariance, PTL

\* Two moves are never under way at once.
THEOREM OneMoveAtATime ==
    Spec => [](\A c, d \in Commands : Moving(c) /\ Moving(d) => c = d)
<1>1. LockFollowsMove => \A c, d \in Commands : Moving(c) /\ Moving(d) => c = d
  BY DEF LockFollowsMove
<1>2. QED
  BY <1>1, LockFollowsTheMove, PTL

\* A command that goes into the connecting state has looked at the breaker in
\* the same step.
LEMMA OnlyClosedBreakerConnects ==
    ASSUME TypeOK, [Next]_vars, NEW c \in Commands, suppressed, pc'[c] = "connecting"
    PROVE  pc[c] = "connecting"
<1>1. CASE UNCHANGED vars
  BY <1>1 DEF vars
<1>2. CASE GoDown \/ GoUp \/ CooldownEnds
  BY <1>2 DEF GoDown, GoUp, CooldownEnds
<1>3. ASSUME NEW d \in Commands, Advance(d)
      PROVE  pc[c] = "connecting"
  BY <1>3 DEF TypeOK, Advance, Connected, ConnectFails, TakeId, TakeConnection,
              GiveUp, Complete, Break, Replaced, ReplaceFails, Leave, Goto
<1>4. ASSUME NEW d \in Commands, Queue(d)
      PROVE  pc[c] = "connecting"
  BY <1>4 DEF TypeOK, Queue, TakeResource, EnterConnect, MustConnect, Ensure,
              Leave, Goto
<1>5. ASSUME NEW d \in Commands, Request(d) \/ Cancel(d)
      PROVE  pc[c] = "connecting"
  BY <1>5 DEF TypeOK, Request, Begin, BeginMove, Ensure, Cancel, CancelExecute,
              CancelElsewhere, Leave, Goto
<1>6. QED
  BY <1>1, <1>2, <1>3, <1>4, <1>5 DEF Next

\* Nobody starts to connect while the breaker is open (BreakerHolds).
THEOREM BreakerIsKept == Spec => BreakerHolds
<1>1. TypeOK /\ [Next]_vars =>
        [\A c \in Commands : suppressed /\ pc'[c] = "connecting"
                                 => pc[c] = "connecting"]_vars
  BY OnlyClosedBreakerConnects
<1>2. QED
  BY <1>1, PilarTypes, PTL DEF Spec, BreakerHolds

-------------------------------------------------------------------------------
(* The number of connections: those that are being replaced count as well. *)

Replacing == {c \in Commands : pc[c] = "replacing"}

Budget ==
    /\ IsFiniteSet(Opened) /\ IsFiniteSet(Replacing)
    /\ Cardinality(Opened) + Cardinality(Replacing) <= PoolSize
    /\ ~hasPool => Opened = {} /\ Replacing = {}
    /\ \A c \in Commands : pc[c] = "connecting" =>
          /\ ~hasPool
          /\ \A d \in Commands : pc[d] = "connecting" => d = c

\* Nobody starts to connect, and the pool is there as before.
Steady == /\ hasPool' = hasPool
          /\ \A c \in Commands : pc'[c] = "connecting" => pc[c] = "connecting"

\* As many connections and no more replacements: the budget is kept.
LEMMA SameBudget ==
    ASSUME Budget, Steady, Opened' = Opened, Replacing' \subseteq Replacing
    PROVE  Budget'
<1>1. /\ IsFiniteSet(Replacing') /\ Cardinality(Replacing') <= Cardinality(Replacing)
      /\ Cardinality(Replacing') \in Nat /\ Cardinality(Replacing) \in Nat
      /\ Cardinality(Opened) \in Nat
  BY FS_Subset, FS_CardinalityType DEF Budget
<1>2. Cardinality(Opened') + Cardinality(Replacing') <= PoolSize
  BY <1>1, PilarAssumption DEF Budget
<1>3. QED
  BY <1>1, <1>2 DEF Budget, Steady

\* A connection in hand is nobody else's and in no pool.
LEMMA OutOfHand ==
    ASSUME Inv, NEW c \in Commands, pc[c] = "executing",
           conn' = [conn EXCEPT ![c] = None]
    PROVE  /\ InHand' = InHand \ {conn[c]}
           /\ conn[c] \in InHand /\ conn[c] \notin idle
<1>. USE DEF Inv, TypeOK, Possession, NothingShared
<1>1. conn[c] # None /\ conn[c] \notin idle
  OBVIOUS
<1>2. \A d \in Commands : conn'[d] = IF d = c THEN None ELSE conn[d]
  OBVIOUS
<1>3. \A d \in Commands : d # c => conn[d] # conn[c]
  BY <1>1
<1>4. QED
  BY <1>1, <1>2, <1>3 DEF InHand

\* A command that takes a connection, or gives it back as it is.
LEMMA HandlingKeepsOpened ==
    ASSUME Inv, NEW c \in Commands, TakeConnection(c) \/ Complete(c) \/ CancelExecute(c)
    PROVE  Opened' = Opened /\ Replacing' \subseteq Replacing /\ Steady
<1>1. CASE TakeConnection(c)
  <2>1. PICK n \in idle : conn' = [conn EXCEPT ![c] = n] /\ idle' = idle \ {n}
    BY <1>1 DEF TakeConnection
  <2>2. conn[c] = None /\ n # None
    BY <1>1, PilarAssumption DEF TakeConnection, Inv, Possession, TypeOK
  <2>3. \A d \in Commands : conn'[d] = IF d = c THEN n ELSE conn[d]
    BY <2>1 DEF Inv, TypeOK
  <2>4. InHand' = InHand \cup {n}
    BY <2>2, <2>3 DEF InHand
  <2>5. Replacing' \subseteq Replacing /\ Steady
    BY <1>1 DEF TakeConnection, Goto, Replacing, Steady, Inv, TypeOK
  <2>6. QED
    BY <2>1, <2>4, <2>5 DEF Opened
<1>2. CASE Complete(c) \/ CancelExecute(c)
  <2>1. /\ pc[c] = "executing" /\ idle' = idle \cup {conn[c]}
        /\ conn' = [conn EXCEPT ![c] = None]
        /\ pc' = [pc EXCEPT ![c] = "done"] /\ hasPool' = hasPool
    BY <1>2 DEF Complete, CancelExecute, Leave, Goto
  <2>2. Opened' = Opened
    BY <2>1, OutOfHand DEF Opened
  <2>3. Replacing' \subseteq Replacing /\ Steady
    BY <2>1 DEF Replacing, Steady, Inv, TypeOK
  <2>4. QED
    BY <2>2, <2>3
<1>3. QED
  BY <1>1, <1>2

\* A broken connection leaves a gap of its own.
LEMMA BreakKeepsBudget ==
    ASSUME Inv, Budget, NEW c \in Commands, Break(c)
    PROVE  Budget'
<1>1. /\ pc[c] = "executing" /\ idle' = idle
      /\ conn' = [conn EXCEPT ![c] = None]
      /\ pc' = [pc EXCEPT ![c] = "replacing"] /\ hasPool' = hasPool
  BY DEF Break, Close, Goto
<1>2. conn[c] \in Opened /\ Opened' = Opened \ {conn[c]}
  BY <1>1, OutOfHand DEF Opened
<1>3. c \notin Replacing /\ Replacing' = Replacing \cup {c}
  BY <1>1 DEF Replacing, Inv, TypeOK
<1>4. /\ IsFiniteSet(Opened') /\ Cardinality(Opened') = Cardinality(Opened) - 1
      /\ Cardinality(Opened) \in Nat
  BY <1>2, FS_RemoveElement, FS_CardinalityType DEF Budget
<1>5. /\ IsFiniteSet(Replacing') /\ Cardinality(Replacing') = Cardinality(Replacing) + 1
      /\ Cardinality(Replacing) \in Nat
  BY <1>3, FS_AddElement, FS_CardinalityType DEF Budget
<1>6. Cardinality(Opened') + Cardinality(Replacing') <= PoolSize
  BY <1>4, <1>5, PilarAssumption DEF Budget
<1>7. Steady
  BY <1>1 DEF Steady, Inv, TypeOK
<1>8. hasPool
  BY <1>2 DEF Budget
<1>9. QED
  BY <1>4, <1>5, <1>6, <1>7, <1>8 DEF Budget, Steady

\* A replacement fills it.
LEMMA ReplacedKeepsBudget ==
    ASSUME Inv, Budget, NEW c \in Commands, Replaced(c)
    PROVE  Budget'
<1>1. PICK n \in Connections \ Opened : idle' = idle \cup {n}
  BY DEF Replaced
<1>2. /\ pc[c] = "replacing" /\ conn' = conn
      /\ pc' = [pc EXCEPT ![c] = "done"] /\ hasPool' = hasPool
  BY DEF Replaced, Leave, Goto
<1>3. Opened' = Opened \cup {n}
  BY <1>1, <1>2 DEF Opened, InHand
<1>4. c \in Replacing /\ Replacing' = Replacing \ {c}
  BY <1>2 DEF Replacing, Inv, TypeOK
<1>5. /\ IsFiniteSet(Opened') /\ Cardinality(Opened') = Cardinality(Opened) + 1
      /\ Cardinality(Opened) \in Nat
  BY <1>1, <1>3, FS_AddElement, FS_CardinalityType DEF Budget
<1>6. /\ IsFiniteSet(Replacing') /\ Cardinality(Replacing') = Cardinality(Replacing) - 1
      /\ Cardinality(Replacing) \in Nat
  BY <1>4, FS_RemoveElement, FS_CardinalityType DEF Budget
<1>7. Cardinality(Opened') + Cardinality(Replacing') <= PoolSize
  BY <1>5, <1>6, PilarAssumption DEF Budget
<1>8. Steady /\ hasPool
  BY <1>2, <1>4 DEF Steady, Inv, TypeOK, Budget
<1>9. QED
  BY <1>5, <1>6, <1>7, <1>8 DEF Budget, Steady

\* A new pool is made where there is none.
LEMMA ConnectedKeepsBudget ==
    ASSUME Inv, Budget, NEW c \in Commands, Connected(c)
    PROVE  Budget'
<1>1. PICK made \in SUBSET Connections : Cardinality(made) <= PoolSize /\ idle' = made
  BY DEF Connected
<1>2. /\ pc[c] = "connecting" /\ conn' = conn
      /\ pc' = [pc EXCEPT ![c] = "id"] /\ hasPool'
  BY DEF Connected, Goto, held
<1>3. Opened = {} /\ Replacing = {} /\ \A d \in Commands : pc[d] = "connecting" => d = c
  BY <1>2 DEF Budget
<1>4. Opened' = made /\ Replacing' = {}
  BY <1>1, <1>2, <1>3 DEF Opened, InHand, Replacing, Inv, TypeOK
<1>5. IsFiniteSet(made) /\ Cardinality(made) \in Nat
  BY FS_Subset, FS_CardinalityType, PilarAssumption
<1>6. IsFiniteSet({}) /\ Cardinality({}) = 0
  BY FS_EmptySet
<1>7. Cardinality(Opened') + Cardinality(Replacing') <= PoolSize
  BY <1>1, <1>4, <1>5, <1>6, PilarAssumption
<1>8. \A d \in Commands : pc'[d] # "connecting"
  BY <1>2, <1>3 DEF Inv, TypeOK
<1>9. QED
  BY <1>2, <1>4, <1>5, <1>6, <1>7, <1>8 DEF Budget

\* Nobody else connects, and there is no pool.
LEMMA EnterConnectKeepsBudget ==
    ASSUME Inv, Budget, NEW c \in Commands, EnterConnect(c)
    PROVE  Budget'
<1>1. Opened' = Opened /\ hasPool' = hasPool
  BY DEF EnterConnect, held, Opened, InHand
<1>2. Replacing' \subseteq Replacing
  BY DEF EnterConnect, Goto, Leave, Replacing, Inv, TypeOK
<1>3. CASE MustConnect(c)
  <2>1. /\ pc' = [pc EXCEPT ![c] = "connecting"] /\ ~hasPool
        /\ \A d \in Commands : pc[d] # "connecting"
    BY <1>3 DEF EnterConnect, MustConnect, Goto
  <2>2. Opened = {} /\ Replacing = {} /\ Replacing' = {}
    BY <1>2, <2>1 DEF Budget
  <2>3. QED
    BY <1>1, <2>1, <2>2 DEF Budget, Inv, TypeOK
<1>4. CASE ~MustConnect(c)
  <2>1. Steady
    BY <1>1, <1>4 DEF EnterConnect, Goto, Leave, Steady, Inv, TypeOK
  <2>2. QED
    BY <1>1, <1>2, <2>1, SameBudget
<1>5. QED
  BY <1>3, <1>4

\* Every step keeps the budget.
LEMMA StepsKeepBudget == Inv /\ Budget /\ [Next]_vars => Budget'
<1>. SUFFICES ASSUME Inv, Budget, [Next]_vars PROVE Budget'
  OBVIOUS
<1>1. CASE UNCHANGED <<idle, conn, pc, hasPool>>
  <2>1. Opened' = Opened /\ Replacing' \subseteq Replacing /\ Steady
    BY <1>1 DEF Opened, InHand, Replacing, Steady
  <2>2. QED
    BY <2>1, SameBudget
<1>2. CASE GoDown \/ GoUp \/ CooldownEnds \/ UNCHANGED vars
  BY <1>1, <1>2 DEF GoDown, GoUp, CooldownEnds, vars, pools, held
<1>3. ASSUME NEW c \in Commands,
             \/ Begin(c) \/ BeginMove(c) \/ TakeResource(c) \/ ConnectFails(c)
             \/ TakeId(c) \/ GiveUp(c) \/ ReplaceFails(c) \/ CancelElsewhere(c)
      PROVE  Budget'
  <2>1. /\ UNCHANGED <<idle, conn, hasPool>>
        /\ \E place \in {"done", "resource", "connlock", "id", "conn"} : Goto(c, place)
    BY <1>3 DEF Begin, BeginMove, TakeResource, ConnectFails, TakeId, GiveUp,
                ReplaceFails, CancelElsewhere, Ensure, Leave, pools, held
  <2>2. Opened' = Opened
    BY <2>1 DEF Opened, InHand
  <2>3. Replacing' \subseteq Replacing /\ Steady
    BY <2>1 DEF Goto, Replacing, Steady, Inv, TypeOK
  <2>4. QED
    BY <2>2, <2>3, SameBudget
<1>4. ASSUME NEW c \in Commands, TakeConnection(c) \/ Complete(c) \/ CancelExecute(c)
      PROVE  Budget'
  BY <1>4, HandlingKeepsOpened, SameBudget
<1>5. QED
  BY <1>2, <1>3, <1>4, BreakKeepsBudget, ReplacedKeepsBudget, ConnectedKeepsBudget,
     EnterConnectKeepsBudget
     DEF Next, Advance, Queue, Request, Cancel

\* Every gap in the pool is one that a command is about to fill, so there are
\* never more connections than the pool was made for (PoolBounded).
THEOREM PoolIsBounded == Spec => []PoolBounded
<1>1. Init => Budget
  <2>. SUFFICES ASSUME Init PROVE Budget
    OBVIOUS
  <2>1. Opened = {} /\ Replacing = {}
    BY DEF Init, Opened, InHand, Replacing
  <2>2. IsFiniteSet({}) /\ Cardinality({}) = 0
    BY FS_EmptySet
  <2>3. QED
    BY <2>1, <2>2, PilarAssumption DEF Init, Budget
<1>2. Budget => PoolBounded
  <2>. SUFFICES ASSUME Budget PROVE Cardinality(Opened) <= PoolSize
    BY DEF PoolBounded
  <2>1. Cardinality(Opened) \in Nat /\ Cardinality(Replacing) \in Nat
    BY FS_CardinalityType DEF Budget
  <2>2. QED
    BY <2>1, PilarAssumption DEF Budget
<1>3. QED
  BY <1>1, <1>2, StepsKeepBudget, Invariance, PTL DEF Spec
===============================================================================
