-------------------------------- MODULE Reservation --------------------------------
(***************************************************************************)
(* What the blocker and the grantor promise of the control over a          *)
(* telescope, whatever they record: one user has it at a time, for a       *)
(* limited time it was given for, or nobody.                               *)
(***************************************************************************)
EXTENDS Naturals

CONSTANTS Users, NoUser,
          MaxControlTime   \* the longest a user may have control without taking it anew

VARIABLES clock,
          holder,  \* who has control
          until    \* the moment it ends

registerVars == <<clock, holder, until>>

ReservationInit == clock = 0 /\ holder = NoUser /\ until = 0

\* By a user nobody else is in the way of.
Take(u) == /\ holder \in {NoUser, u}
           /\ holder' = u
           /\ until' > clock'
           /\ until' <= clock' + MaxControlTime

Release == holder' = NoUser /\ until' = 0

\* A reservation is over from its end on.
Pass == IF until > clock' THEN UNCHANGED <<holder, until>> ELSE Release

\* While any of this is done, time may pass.
ReservationNext ==
    /\ clock' \in Nat /\ clock' >= clock
    /\ \/ Release \/ Pass
       \/ \E u \in Users : Take(u)

ReservationSpec == ReservationInit /\ [][ReservationNext]_registerVars
===============================================================================
