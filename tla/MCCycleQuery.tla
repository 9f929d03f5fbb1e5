----------------------------- MODULE MCCycleQuery -----------------------------
(***************************************************************************)
(* Small instances of CycleQuery: one or two subscribers, one or two       *)
(* readers, a device with two values.                                      *)
(***************************************************************************)
EXTENDS CycleQuery, TLC

CONSTANTS ula, jan,     \* subscribers
          rob, ewa,     \* readers
          v1, v2

OneSubscriber == {ula}
TwoSubscribers == {ula, jan}
NoReaders == {}
OneReader == {rob}
TwoReaders == {rob, ewa}
TwoValues == {v1, v2}

\* A subscriber tolerates old data, a reader wants it as it is now.
WideTolerance == [t \in Tasks |-> IF t \in Subscribers THEN 2 ELSE 0]
MixedTolerance == [t \in Tasks |-> CASE t = ula -> 2 [] t = jan -> 1 [] t \in Readers -> 0]
SmallTolerance == [t \in Tasks |-> IF t = ula THEN 1 ELSE 0]

ValuesAlike == Permutations(Values)
Alike == Permutations(Readers) \cup Permutations(Values)
===============================================================================
