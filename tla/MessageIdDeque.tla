---------------------------- MODULE MessageIdDeque ----------------------------
(***************************************************************************)
(* The pool of message identifiers of                                      *)
(* obsrv/communication/message_id_deque.py.  Free identifiers queue in a   *)
(* deque; the pool grows when the deque is empty and gives an identifier   *)
(* back for good when the highest one is released.  Each user is one       *)
(* message in flight: it takes one identifier and releases it once.        *)
(***************************************************************************)
EXTENDS Integers, Sequences, Functions

CONSTANTS Users,          \* messages that may be in flight together
          RequestedMin,   \* the constructor's min_size argument
          NoId            \* a user that holds no identifier

ASSUME DequeAssumption == RequestedMin \in Int /\ NoId \notin Int

VARIABLES size,           \* self._size
          free,           \* self._free_id, left end first
          held            \* the identifier each user holds

vars == <<size, free, held>>

\* A negative min_size is replaced by _DEFAULT_MIN_SIZE.
MinSize == IF RequestedMin >= 0 THEN RequestedMin ELSE 5

\* _initialize_deque: 0, 1, ... MinSize - 1 from the left.
Init == /\ size = MinSize
        /\ free = [i \in 1..MinSize |-> i - 1]
        /\ held = [u \in Users |-> NoId]

\* A mutation for the runs: the deque used as a stack.
GetFreeRight(u) == /\ held[u] = NoId
                   /\ free # <<>>
                   /\ held' = [held EXCEPT ![u] = free[Len(free)]]
                   /\ free' = SubSeq(free, 1, Len(free) - 1)
                   /\ UNCHANGED size

\* get_id takes the left end of the deque, or extends the pool (_get_new_id).
GetFree(u) == /\ held[u] = NoId
              /\ free # <<>>
              /\ held' = [held EXCEPT ![u] = Head(free)]
              /\ free' = Tail(free)
              /\ UNCHANGED size

GetNew(u) == /\ held[u] = NoId
             /\ free = <<>>
             /\ held' = [held EXCEPT ![u] = size]
             /\ size' = size + 1
             /\ UNCHANGED free

\* A mutation for the runs: any release shrinks a pool that has grown.
IsGrown(id) == size > MinSize

\* _is_above_state: the highest identifier of a pool grown beyond its minimum.
IsAboveState(id) == id = size - 1 /\ size > MinSize

\* release_id: an identifier outside the pool is ignored.
ReleaseId(u) ==
    /\ held[u] # NoId
    /\ held' = [held EXCEPT ![u] = NoId]
    /\ IF held[u] \notin 0..(size - 1)
       THEN UNCHANGED <<size, free>>
       ELSE IF IsAboveState(held[u])
            THEN size' = size - 1 /\ UNCHANGED free
            ELSE free' = Append(free, held[u]) /\ UNCHANGED size

Next == \E u \in Users : GetFree(u) \/ GetNew(u) \/ ReleaseId(u)

Spec == Init /\ [][Next]_vars

\* A user u that never stops sending messages one after the other.
KeepsSending(u) == /\ WF_vars(GetFree(u) \/ GetNew(u))
                   /\ WF_vars(ReleaseId(u))
-------------------------------------------------------------------------------
Held == Range(held) \ {NoId}

TypeOK == /\ size \in Nat
          /\ free \in Seq(Nat)
          /\ held \in [Users -> Nat \cup {NoId}]

(* No identifier is lost and none is invented: those in flight and those   *)
(* that are free make up exactly 0 .. size - 1, and no identifier is both. *)
Partition == /\ Held \cup Range(free) = 0..(size - 1)
             /\ Held \cap Range(free) = {}

\* No identifier stands twice in the deque.
NoDuplicateFree == IsInjective(free)

(* get_id promises a unique identifier (message_id_deque.py:54): two       *)
(* messages in flight never carry the same one, however the pool grew and  *)
(* shrank before.                                                          *)
UniqueIds == \A u, v \in Users :
                 u # v /\ held[u] # NoId => held[u] # held[v]

\* What makes UniqueIds inductive.
IInv == /\ TypeOK
        /\ UniqueIds
        /\ Partition
        /\ NoDuplicateFree
        /\ size >= MinSize

(* The pool gets back to its minimal length when the extra identifiers are *)
(* no longer needed (test/communication/message_id_deque.py:66-79): from   *)
(* some point on only u sends, one message at a time, and that alone       *)
(* drains the pool again and again, whatever order the deque was left in.  *)
DrainsTo(u) == (<>[](\A v \in Users \ {u} : held[v] = NoId))
                  => []<>(size = MinSize)
===============================================================================
