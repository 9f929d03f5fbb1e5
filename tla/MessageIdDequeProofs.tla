------------------------- MODULE MessageIdDequeProofs -------------------------
(***************************************************************************)
(* For every set of messages and every min_size: two messages in flight    *)
(* never carry the same identifier.  IInv is the inductive invariant; the  *)
(* three actions disturb disjoint parts of it, which the lemmas about the  *)
(* two ends of the deque make precise.                                     *)
(***************************************************************************)
EXTENDS MessageIdDeque, TLAPS

\* The constructor leaves a minimal size that is a natural number.
LEMMA MinSizeNat == MinSize \in Nat
  BY DequeAssumption DEF MinSize

(* Of a sequence without duplicates, popping the left end leaves the other *)
(* elements, and not that one.                                             *)
LEMMA PopLeft ==
  ASSUME NEW s \in Seq(Nat), s # <<>>, IsInjective(s)
  PROVE  /\ Tail(s) \in Seq(Nat)
         /\ Range(Tail(s)) = Range(s) \ {Head(s)}
         /\ IsInjective(Tail(s))
         /\ Head(s) \in Nat
         /\ Head(s) \in Range(s)
<1> DEFINE t == Tail(s)
<1>1. /\ t \in Seq(Nat)
      /\ DOMAIN s = 1..Len(s) /\ DOMAIN t = 1..Len(t)
      /\ Len(s) \in Nat /\ Len(s) >= 1 /\ Len(t) = Len(s) - 1
      /\ Head(s) = s[1] /\ Head(s) \in Nat
  OBVIOUS
<1>2. \A i \in 1..Len(t) : t[i] = s[i + 1]
  OBVIOUS
<1> HIDE DEF t
<1>3. \A i, j \in 1..Len(s) : s[i] = s[j] => i = j
  BY <1>1 DEF IsInjective
<1>4. IsInjective(t)
  <2> SUFFICES ASSUME NEW i \in 1..Len(t), NEW j \in 1..Len(t), t[i] = t[j]
               PROVE  i = j
    BY <1>1 DEF IsInjective
  <2>1. i + 1 \in 1..Len(s) /\ j + 1 \in 1..Len(s)
    BY <1>1
  <2> QED
    BY <1>2, <1>3, <2>1
<1>5. Range(t) \subseteq Range(s) \ {Head(s)}
  <2> SUFFICES ASSUME NEW i \in 1..Len(t)
               PROVE  t[i] \in Range(s) \ {Head(s)}
    BY <1>1 DEF Range
  <2>1. i + 1 \in 1..Len(s) /\ i + 1 # 1 /\ 1 \in 1..Len(s)
    BY <1>1
  <2> QED
    BY <1>1, <1>2, <1>3, <2>1 DEF Range
<1>6. ASSUME NEW x \in Range(s), x # Head(s)
      PROVE  x \in Range(t)
  <2>1. PICK k \in 1..Len(s) : x = s[k]
    BY <1>1 DEF Range
  <2>2. k # 1 /\ k - 1 \in 1..Len(t)
    BY <1>1, <1>6, <2>1
  <2>3. t[k - 1] = x
    BY <1>2, <2>1, <2>2
  <2> QED
    BY <1>1, <2>2, <2>3 DEF Range
<1>7. Head(s) \in Range(s)
  <2>1. 1 \in DOMAIN s /\ s[1] = Head(s)
    BY <1>1
  <2>2. QED
    BY <2>1 DEF Range
<1> QED
  BY <1>1, <1>4, <1>5, <1>6, <1>7 DEF t

\* Appending an element that is not there adds it, once.
LEMMA PushRight ==
  ASSUME NEW s \in Seq(Nat), IsInjective(s), NEW id \in Nat, id \notin Range(s)
  PROVE  /\ Append(s, id) \in Seq(Nat)
         /\ Range(Append(s, id)) = Range(s) \cup {id}
         /\ IsInjective(Append(s, id))
<1> DEFINE t == Append(s, id)
<1>1. /\ t \in Seq(Nat)
      /\ DOMAIN s = 1..Len(s) /\ DOMAIN t = 1..Len(t)
      /\ Len(s) \in Nat /\ Len(t) = Len(s) + 1
      /\ t[Len(s) + 1] = id
  OBVIOUS
<1>2. \A i \in 1..Len(s) : t[i] = s[i]
  OBVIOUS
<1> HIDE DEF t
<1>3. 1..Len(t) = (1..Len(s)) \cup {Len(s) + 1}
  BY <1>1
<1>4. Range(t) = Range(s) \cup {id}
  BY <1>1, <1>2, <1>3 DEF Range
<1>5. \A i \in 1..Len(s) : s[i] # id
  BY <1>1 DEF Range
<1>6. IsInjective(t)
  BY <1>1, <1>2, <1>3, <1>5 DEF IsInjective
<1> QED
  BY <1>1, <1>4, <1>6 DEF t

LEMMA InitHolds == Init => IInv
<1> SUFFICES ASSUME Init
             PROVE  IInv
  OBVIOUS
<1>1. MinSize \in Nat
  BY MinSizeNat
<1>2. /\ size = MinSize
      /\ free \in Seq(Nat)
      /\ Len(free) = MinSize
      /\ \A i \in 1..MinSize : free[i] = i - 1
      /\ \A u \in Users : held[u] = NoId
      /\ held \in [Users -> Nat \cup {NoId}]
  BY <1>1 DEF Init
<1>3. Held = {}
  BY <1>2 DEF Held, Range
<1>4. Range(free) = 0..(size - 1)
  <2>1. ASSUME NEW x \in 0..(size - 1)
        PROVE  x \in Range(free)
    <3>1. x + 1 \in 1..MinSize /\ free[x + 1] = x
      BY <1>1, <1>2
    <3>2. x + 1 \in DOMAIN free
      BY <1>2, <3>1
    <3> QED
      BY <3>1, <3>2 DEF Range
  <2>2. Range(free) \subseteq 0..(size - 1)
    BY <1>1, <1>2 DEF Range
  <2> QED
    BY <2>1, <2>2
<1>5. NoDuplicateFree
  BY <1>1, <1>2 DEF NoDuplicateFree, IsInjective
<1> QED
  BY <1>1, <1>2, <1>3, <1>4, <1>5
     DEF IInv, TypeOK, UniqueIds, Partition

LEMMA GetFreeKeeps ==
  ASSUME IInv, NEW u \in Users, GetFree(u)
  PROVE  IInv'
<1> DEFINE id == Head(free)
<1>1. /\ size \in Nat /\ free \in Seq(Nat) /\ free # <<>>
      /\ held \in [Users -> Nat \cup {NoId}]
      /\ held[u] = NoId
      /\ held' = [held EXCEPT ![u] = id]
      /\ free' = Tail(free) /\ size' = size
      /\ NoDuplicateFree /\ UniqueIds /\ Partition /\ size >= MinSize
  BY DEF IInv, TypeOK, GetFree
<1>2. /\ free' \in Seq(Nat)
      /\ Range(free') = Range(free) \ {id}
      /\ NoDuplicateFree'
      /\ id \in Nat /\ id \in Range(free)
  BY <1>1, PopLeft DEF NoDuplicateFree
<1>3. id # NoId /\ NoId \notin Nat
  BY <1>2, DequeAssumption
<1>4. /\ held'[u] = id
      /\ \A v \in Users \ {u} : held'[v] = held[v]
  BY <1>1
<1>5. Held' = Held \cup {id}
  BY <1>1, <1>3, <1>4 DEF Held, Range
<1>6. Partition'
  BY <1>1, <1>2, <1>5 DEF Partition
<1>7. UniqueIds'
  <2>1. \A v \in Users : held[v] # id
    BY <1>1, <1>2, <1>3 DEF Partition, Held, Range
  <2> QED
    BY <1>1, <1>4, <2>1 DEF UniqueIds
<1>8. TypeOK'
  BY <1>1, <1>2 DEF TypeOK
<1> QED
  BY <1>1, <1>2, <1>6, <1>7, <1>8, MinSizeNat DEF IInv, MinSize

LEMMA GetNewKeeps ==
  ASSUME IInv, NEW u \in Users, GetNew(u)
  PROVE  IInv'
<1>1. /\ size \in Nat /\ free \in Seq(Nat)
      /\ held \in [Users -> Nat \cup {NoId}]
      /\ held[u] = NoId
      /\ held' = [held EXCEPT ![u] = size]
      /\ free' = free /\ size' = size + 1
      /\ NoDuplicateFree /\ UniqueIds /\ Partition /\ size >= MinSize
  BY DEF IInv, TypeOK, GetNew
<1>2. Range(free') = Range(free) /\ NoDuplicateFree'
  BY <1>1 DEF NoDuplicateFree
<1>3. size # NoId
  BY <1>1, DequeAssumption
<1>4. /\ held'[u] = size
      /\ \A v \in Users \ {u} : held'[v] = held[v]
  BY <1>1
<1>5. Held' = Held \cup {size}
  BY <1>1, <1>3, <1>4 DEF Held, Range
<1>6. size \notin Held \cup Range(free)
  BY <1>1 DEF Partition
<1>7. Partition'
  <2>1. 0..(size' - 1) = 0..(size - 1) \cup {size}
    BY <1>1
  <2> QED
    BY <1>1, <1>2, <1>5, <1>6, <2>1 DEF Partition
<1>8. UniqueIds'
  <2>1. \A v \in Users : held[v] # size
    BY <1>1, <1>3, <1>6 DEF Held, Range
  <2> QED
    BY <1>1, <1>4, <2>1 DEF UniqueIds
<1>9. TypeOK'
  BY <1>1 DEF TypeOK
<1> QED
  BY <1>1, <1>2, <1>7, <1>8, <1>9, MinSizeNat DEF IInv, MinSize

LEMMA ReleaseKeeps ==
  ASSUME IInv, NEW u \in Users, ReleaseId(u)
  PROVE  IInv'
<1> DEFINE id == held[u]
<1>1. /\ size \in Nat /\ free \in Seq(Nat)
      /\ held \in [Users -> Nat \cup {NoId}]
      /\ id # NoId
      /\ held' = [held EXCEPT ![u] = NoId]
      /\ NoDuplicateFree /\ UniqueIds /\ Partition /\ size >= MinSize
  BY DEF IInv, TypeOK, ReleaseId
<1>2. /\ held'[u] = NoId
      /\ \A v \in Users \ {u} : held'[v] = held[v]
  BY <1>1
<1>3. id \in Held /\ id \in Nat
  BY <1>1 DEF Held, Range
<1>4. Held' = Held \ {id}
  <2>1. \A v \in Users \ {u} : held[v] # id
    BY <1>1 DEF UniqueIds
  <2> QED
    BY <1>1, <1>2, <2>1 DEF Held, Range
<1>5. UniqueIds'
  BY <1>1, <1>2 DEF UniqueIds
<1>6. id \in 0..(size - 1) /\ id \notin Range(free)
  BY <1>1, <1>3 DEF Partition
<1>7. CASE IsAboveState(id)
  <2>1. size' = size - 1 /\ free' = free
    BY <1>6, <1>7 DEF ReleaseId
  <2>2. id = size - 1 /\ size > MinSize
    BY <1>7 DEF IsAboveState
  <2>3. Range(free') = Range(free) /\ NoDuplicateFree'
    BY <1>1, <2>1 DEF NoDuplicateFree
  <2>4. size' \in Nat /\ size' >= MinSize
    BY <1>1, <2>1, <2>2, MinSizeNat
  <2>5. 0..(size' - 1) = 0..(size - 1) \ {id}
    BY <1>1, <2>1, <2>2
  <2>6. Partition'
    BY <1>1, <1>4, <1>6, <2>3, <2>5 DEF Partition
  <2>7. TypeOK'
    BY <1>1, <2>1, <2>4 DEF TypeOK
  <2> QED
    BY <1>5, <2>3, <2>4, <2>6, <2>7 DEF IInv, MinSize
<1>8. CASE ~IsAboveState(id)
  <2>1. size' = size /\ free' = Append(free, id)
    BY <1>6, <1>8 DEF ReleaseId
  <2>2. /\ free' \in Seq(Nat)
        /\ Range(free') = Range(free) \cup {id}
        /\ NoDuplicateFree'
    BY <1>1, <1>3, <1>6, <2>1, PushRight DEF NoDuplicateFree
  <2>3. Partition'
    BY <1>1, <1>3, <1>4, <2>1, <2>2 DEF Partition
  <2>4. TypeOK'
    BY <1>1, <2>1, <2>2 DEF TypeOK
  <2> QED
    BY <1>1, <1>5, <2>1, <2>2, <2>3, <2>4 DEF IInv, MinSize
<1> QED
  BY <1>7, <1>8

(* get_id's promise (message_id_deque.py:54), for every pool: the          *)
(* invariant UniqueIds, with the partition of 0 .. size - 1 into free and  *)
(* issued identifiers that makes it inductive.                             *)
THEOREM DequeInvariant == Spec => []IInv
<1>1. IInv /\ [Next]_vars => IInv'
  <2> SUFFICES ASSUME IInv, [Next]_vars
               PROVE  IInv'
    OBVIOUS
  <2>1. CASE Next
    BY <2>1, GetFreeKeeps, GetNewKeeps, ReleaseKeeps DEF Next
  <2>2. CASE UNCHANGED vars
    BY <2>2 DEF vars, IInv, TypeOK, UniqueIds, Partition, NoDuplicateFree,
                Held, MinSize
  <2> QED
    BY <2>1, <2>2
<1> QED
  BY InitHolds, <1>1, PTL DEF Spec

\* Two messages in flight never carry the same identifier.
THEOREM IdsAreUnique == Spec => []UniqueIds
<1>1. IInv => UniqueIds
  BY DEF IInv
<1> QED
  BY DequeInvariant, <1>1, PTL
===============================================================================
