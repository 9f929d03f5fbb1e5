--------------------------- MODULE MCMessageIdDeque ---------------------------
(***************************************************************************)
(* The identifier pool on four messages and a pool of two, so that it has  *)
(* to grow by two and to shrink again from every order of releases.        *)
(***************************************************************************)
EXTENDS MessageIdDeque

CONSTANTS u1, u2, u3, u4

MCUsers == {u1, u2, u3, u4}

FairSpec == Spec /\ KeepsSending(u1)

\* The pool shrinks once only u1 keeps sending (see DrainsTo).
DrainsWhenQuiet == DrainsTo(u1)
===============================================================================
