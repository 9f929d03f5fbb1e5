----------------------------------- MODULE Facts -----------------------------------
(***************************************************************************)
(* What the proofs of several components need: induction over the natural  *)
(* numbers, least elements, and list.remove on a list without duplicates.  *)
(***************************************************************************)
EXTENDS Integers, Sequences, SequencesExt, FiniteSetTheorems, SequenceTheorems, TLAPS

\* Induction, with the set of the numbers that have the property.  If n were missing,
\* x |-> x + 1 would squeeze the members of S up to n into those above 0.
LEMMA Induction ==
    ASSUME NEW S, 0 \in S, \A n \in Nat : n \in S => n + 1 \in S
    PROVE  Nat \subseteq S
  <1> SUFFICES ASSUME NEW n \in Nat, n \notin S
               PROVE  FALSE
    OBVIOUS
  <1> DEFINE A == S \cap (0 .. n)
             B == A \ {0}
             f == [x \in A |-> x + 1]
  <1>1. IsFiniteSet(A) /\ Cardinality(A) \in Nat
    BY FS_Interval, FS_Subset, FS_CardinalityType, 0 \in Int, n \in Int
  <1>2. IsFiniteSet(B) /\ Cardinality(B) = Cardinality(A) - 1
    BY <1>1, FS_RemoveElement, 0 \in A
  <1>3. f \in [A -> B]
    <2> SUFFICES ASSUME NEW x \in A
                 PROVE  x + 1 \in B
      OBVIOUS
    <2> x \in Nat /\ x <= n /\ x # n /\ x \in S
      OBVIOUS
    <2> QED  OBVIOUS
  <1>4. Cardinality(B) < Cardinality(A)
    BY <1>1, <1>2
  <1> HIDE DEF A, B, f
  <1>5. PICK x \in A, y \in A : x # y /\ f[x] = f[y]
    BY <1>1, <1>2, <1>3, <1>4, FS_PigeonHole
  <1> QED  BY <1>5 DEF A, f

\* A set of natural numbers has a least one.
LEMMA LeastNatural ==
    ASSUME NEW S \in SUBSET Nat, S # {}
    PROVE  Min(S) \in S /\ \A x \in S : Min(S) <= x
  <1> DEFINE Below == {n \in Nat : \A x \in S : n <= x}
  <1>1. 0 \in Below
    OBVIOUS
  <1>2. PICK n \in Nat : n \in Below /\ n + 1 \notin Below
    <2> SUFFICES ASSUME \A n \in Nat : n \in Below => n + 1 \in Below
                 PROVE  FALSE
      OBVIOUS
    <2>1. Nat \subseteq Below
      <3> HIDE DEF Below
      <3> QED  BY <1>1, Induction
    <2>2. PICK x \in S : TRUE
      OBVIOUS
    <2>3. x + 1 \in Below
      BY <2>1
    <2> QED  BY <2>2, <2>3
  <1>3. PICK x \in S : ~(n + 1 <= x)
    BY <1>2
  <1>4. x = n /\ \A y \in S : x <= y
    BY <1>2, <1>3
  <1> QED  BY <1>4 DEF Min

\* What is left of a sequence without its element at i.
LEMMA RemoveAtProperties ==
    ASSUME NEW T, NEW s \in Seq(T), NEW i \in 1 .. Len(s)
    PROVE  /\ RemoveAt(s, i) \in Seq(T)
           /\ Len(RemoveAt(s, i)) = Len(s) - 1
           /\ \A j \in 1 .. Len(s) - 1 : RemoveAt(s, i)[j] = IF j < i THEN s[j] ELSE s[j + 1]
  <1> DEFINE a == SubSeq(s, 1, i - 1)
             b == SubSeq(s, i + 1, Len(s))
  <1>1. /\ a \in Seq(T) /\ Len(a) = i - 1
        /\ \A j \in 1 .. i - 1 : a[j] = s[j]
    OBVIOUS
  <1>2. /\ b \in Seq(T) /\ Len(b) = Len(s) - i
        /\ \A j \in 1 .. Len(s) - i : b[j] = s[i + j]
    OBVIOUS
  <1>3. RemoveAt(s, i) = a \o b
    BY DEF RemoveAt
  <1> HIDE DEF a, b
  <1>4. /\ a \o b \in Seq(T) /\ Len(a \o b) = Len(a) + Len(b)
        /\ \A j \in 1 .. Len(a) + Len(b) : (a \o b)[j] = IF j <= Len(a) THEN a[j] ELSE b[j - Len(a)]
    BY <1>1, <1>2, ConcatProperties
  <1>5. Len(a) + Len(b) = Len(s) - 1
    BY <1>1, <1>2
  <1>6. ASSUME NEW j \in 1 .. Len(s) - 1
        PROVE  (a \o b)[j] = IF j < i THEN s[j] ELSE s[j + 1]
    <2>1. CASE j < i
      BY <1>1, <1>4, <1>5, <2>1
    <2>2. CASE ~(j < i)
      <3>1. (a \o b)[j] = b[j - (i - 1)] /\ j - (i - 1) \in 1 .. Len(s) - i
        BY <1>1, <1>4, <1>5, <2>2
      <3>2. b[j - (i - 1)] = s[i + (j - (i - 1))] /\ i + (j - (i - 1)) = j + 1
        BY <1>2, <3>1
      <3> QED  BY <2>2, <3>1, <3>2
    <2> QED  BY <2>1, <2>2
  <1> QED  BY <1>3, <1>4, <1>5, <1>6

\* list.remove takes one element off, wherever it stands.
LEMMA RemoveFromList ==
    ASSUME NEW T, NEW s \in Seq(T), NEW e, IsInjective(s)
    PROVE  /\ RemoveFirst(s, e) \in Seq(T)
           /\ IsInjective(RemoveFirst(s, e))
           /\ ToSet(RemoveFirst(s, e)) = ToSet(s) \ {e}
  <1> DEFINE I == {i \in 1 .. Len(s) : s[i] = e}
  <1>1. CASE I = {}
    <2>1. RemoveFirst(s, e) = s
      BY <1>1 DEF RemoveFirst
    <2> QED  BY <1>1, <2>1 DEF ToSet
  <1>2. CASE I # {}
    <2> DEFINE i == Min(I)
               q == RemoveAt(s, i)
    <2>1. i \in I
      BY <1>2, LeastNatural, I \in SUBSET Nat
    <2>2. RemoveFirst(s, e) = q
      BY <1>2 DEF RemoveFirst, SelectInSeq
    <2>3. i \in 1 .. Len(s) /\ s[i] = e
      BY <2>1
    <2> HIDE DEF I, i
    <2>4. /\ q \in Seq(T) /\ Len(q) = Len(s) - 1
          /\ \A j \in 1 .. Len(s) - 1 : q[j] = IF j < i THEN s[j] ELSE s[j + 1]
      BY <2>3, RemoveAtProperties
    <2> HIDE DEF q
    <2>5. DOMAIN s = 1 .. Len(s) /\ DOMAIN q = 1 .. Len(s) - 1
      BY <2>4
    <2>6. IsInjective(q)
      <3> SUFFICES ASSUME NEW j \in DOMAIN q, NEW k \in DOMAIN q, q[j] = q[k]
                   PROVE  j = k
        BY DEF IsInjective
      <3> DEFINE at(m) == IF m < i THEN m ELSE m + 1
      <3>1. at(j) \in DOMAIN s /\ at(k) \in DOMAIN s /\ s[at(j)] = s[at(k)]
        BY <2>3, <2>4, <2>5
      <3>2. at(j) = at(k)
        BY <3>1 DEF IsInjective
      <3> QED  BY <2>3, <2>5, <3>2
    <2>7. ToSet(q) \subseteq ToSet(s) \ {e}
      <3> SUFFICES ASSUME NEW j \in DOMAIN q
                   PROVE  q[j] \in ToSet(s) /\ q[j] # e
        BY DEF ToSet
      <3> DEFINE m == IF j < i THEN j ELSE j + 1
      <3>1. m \in DOMAIN s /\ m # i /\ q[j] = s[m]
        BY <2>3, <2>4, <2>5
      <3>2. s[m] # s[i]
        BY <2>3, <2>5, <3>1 DEF IsInjective
      <3> QED  BY <2>3, <3>1, <3>2 DEF ToSet
    <2>8. ToSet(s) \ {e} \subseteq ToSet(q)
      <3> SUFFICES ASSUME NEW m \in DOMAIN s, s[m] # e
                   PROVE  s[m] \in ToSet(q)
        BY DEF ToSet
      <3> DEFINE j == IF m < i THEN m ELSE m - 1
      <3>1. m # i
        BY <2>3
      <3>2. j \in DOMAIN q /\ q[j] = s[m]
        BY <2>3, <2>4, <2>5, <3>1
      <3> QED  BY <3>2 DEF ToSet
    <2> QED  BY <2>2, <2>4, <2>6, <2>7, <2>8
  <1> QED  BY <1>1, <1>2

\* Of a list without duplicates, what is left behind the first element.
LEMMA TailOfList ==
    ASSUME NEW T, NEW s \in Seq(T), s # <<>>, IsInjective(s)
    PROVE  /\ Tail(s) \in Seq(T)
           /\ IsInjective(Tail(s))
           /\ ToSet(Tail(s)) = ToSet(s) \ {Head(s)}
  <1> DEFINE q == Tail(s)
  <1>1. /\ q \in Seq(T) /\ DOMAIN s = 1 .. Len(s) /\ DOMAIN q = 1 .. Len(s) - 1 /\ Len(s) \in Nat \ {0}
        /\ \A i \in 1 .. Len(s) - 1 : q[i] = s[i + 1]
        /\ Head(s) = s[1]
    OBVIOUS
  <1> HIDE DEF q
  <1>2. IsInjective(q)
    <2> SUFFICES ASSUME NEW i \in DOMAIN q, NEW j \in DOMAIN q, q[i] = q[j]
                 PROVE  i = j
      BY DEF IsInjective
    <2>1. s[i + 1] = s[j + 1] /\ i + 1 \in DOMAIN s /\ j + 1 \in DOMAIN s
      BY <1>1
    <2>2. i + 1 = j + 1
      BY <2>1 DEF IsInjective
    <2> QED  BY <1>1, <2>2
  <1>3. \A i \in DOMAIN s : i # 1 => s[i] # s[1]
    BY <1>1 DEF IsInjective
  <1>4. ToSet(q) \subseteq ToSet(s) \ {Head(s)}
    <2> SUFFICES ASSUME NEW i \in DOMAIN q
                 PROVE  q[i] \in ToSet(s) /\ q[i] # s[1]
      BY <1>1 DEF ToSet
    <2>1. i + 1 \in DOMAIN s /\ q[i] = s[i + 1] /\ i + 1 # 1
      BY <1>1
    <2> QED  BY <1>3, <2>1 DEF ToSet
  <1>5. ToSet(s) \ {Head(s)} \subseteq ToSet(q)
    <2> SUFFICES ASSUME NEW m \in DOMAIN s, s[m] # s[1]
                 PROVE  s[m] \in ToSet(q)
      BY <1>1 DEF ToSet
    <2>1. m - 1 \in DOMAIN q /\ q[m - 1] = s[m]
      BY <1>1
    <2> QED  BY <2>1 DEF ToSet
  <1> QED  BY <1>1, <1>2, <1>4, <1>5 DEF q

\* An element that is not listed yet is listed behind the others.
LEMMA AppendToList ==
    ASSUME NEW T, NEW s \in Seq(T), NEW e \in T, IsInjective(s), e \notin ToSet(s)
    PROVE  /\ Append(s, e) \in Seq(T)
           /\ IsInjective(Append(s, e))
           /\ ToSet(Append(s, e)) = ToSet(s) \cup {e}
  <1> DEFINE q == Append(s, e)
  <1>1. /\ q \in Seq(T) /\ Len(q) = Len(s) + 1 /\ q[Len(s) + 1] = e
        /\ \A i \in 1 .. Len(s) : q[i] = s[i]
    OBVIOUS
  <1>2. DOMAIN s = 1 .. Len(s) /\ DOMAIN q = 1 .. Len(s) + 1
    BY <1>1
  <1>3. \A i \in 1 .. Len(s) : s[i] # e
    BY <1>2 DEF ToSet
  <1> HIDE DEF q
  <1>4. IsInjective(q)
    <2> SUFFICES ASSUME NEW i \in DOMAIN q, NEW j \in DOMAIN q, q[i] = q[j]
                 PROVE  i = j
      BY DEF IsInjective
    <2>1. CASE i \in 1 .. Len(s) /\ j \in 1 .. Len(s)
      BY <1>1, <1>2, <2>1 DEF IsInjective
    <2>2. CASE ~(i \in 1 .. Len(s) /\ j \in 1 .. Len(s))
      BY <1>1, <1>2, <1>3, <2>2
    <2> QED  BY <2>1, <2>2
  <1>5. ToSet(q) = ToSet(s) \cup {e}
    <2>1. ToSet(q) \subseteq ToSet(s) \cup {e}
      BY <1>1, <1>2 DEF ToSet
    <2>2. ToSet(s) \subseteq ToSet(q)
      BY <1>1, <1>2 DEF ToSet
    <2>3. e \in ToSet(q)
      BY <1>1, <1>2 DEF ToSet
    <2> QED  BY <2>1, <2>2, <2>3
  <1> QED  BY <1>1, <1>4, <1>5 DEF q
====================================================================================
