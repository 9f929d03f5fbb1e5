------------------------------- MODULE PilarAction -------------------------------
(***************************************************************************)
(* Actions of the Pilar connector (put and call of pilar_connector.py): a  *)
(* PUT that names an action becomes its steps of the configuration, each a *)
(* put of its own or a wait until the mount stands where it was sent.      *)
(*                                                                         *)
(* Connections and ids are PilarPool's; here a command to Pilar is         *)
(* accepted, refused, or fails for want of a connection.  The mount turns  *)
(* to its target in its own time.                                          *)
(***************************************************************************)
EXTENDS Naturals, Sequences

CONSTANTS Actions,    \* tasks in put with the name of an action
          Programs,   \* the steps an action may have, in pilar_config.yml
          Variables,  \* the variables they set and verify
          Locked,     \* those in resource_locks, all for one resource
          Positions,  \* values they take
          Parked,     \* the one at first
          Passes,     \* how often a verify step looks before it gives up
          Nobody

(* A step sets a variable, which the command map may lack, or verifies     *)
(* some, in an order.                                                      *)
Steps == [kind : {"set"}, variable : Variables, value : Positions]
         \cup [kind : {"unmapped"}]
         \cup [kind : {"verify"}, targets : Seq(Variables \X Positions) \ {<<>>}]

(* What a program verifies is what it sets: the values of a verify step    *)
(* are those of the variables above it (slewtocoordinates, slewtoaltaz).   *)
VerifiesItsOwn(p) ==
    \A n, k \in DOMAIN p : p[n].kind = "verify" /\ p[k].kind = "set" =>
        \A i \in DOMAIN p[n].targets :
            p[n].targets[i][1] = p[k].variable => p[n].targets[i][2] = p[k].value

ASSUME PilarActionAssumption ==
    /\ Programs \subseteq Seq(Steps)
    /\ \A p \in Programs : VerifiesItsOwn(p)
    /\ Locked \subseteq Variables
    /\ Parked \in Positions
    /\ Passes \in Nat \ {0}
    /\ Nobody \notin Actions

VARIABLES target,    \* where each variable was last sent
          position,  \* where it is
          mover,     \* who holds the lock of the resource
          stage,     \* where each action waits, or how it ended
          program,   \* its steps
          at,        \* the step it is at
          looking,   \* of a verify step: the variable it reads next
          pass,      \* and how often it looked
          refused,   \* history: Pilar refused a command of this action
          alone      \* history: nobody else moved anything since it began

mountVars  == <<target, position>>
verifyVars == <<looking, pass>>
pilarVars  == <<mountVars, mover, stage, program, at, verifyVars, refused, alone>>

Over == {"ok", "2002", "3002", "4005", "given up"}
Live(a) == stage[a] \notin Over \cup {"none"}

PilarInit == /\ target = [v \in Variables |-> Parked]
             /\ position = target
             /\ mover = Nobody
             /\ stage = [a \in Actions |-> "none"]
             /\ program = [a \in Actions |-> <<>>]
             /\ at = [a \in Actions |-> 1]
             /\ looking = [a \in Actions |-> 1]
             /\ pass = [a \in Actions |-> 1]
             /\ refused = [a \in Actions |-> FALSE]
             /\ alone = [a \in Actions |-> FALSE]

Step(a) == program[a][at[a]]
ThisTarget(a) == Step(a).targets[looking[a]]

\* Where step n of the program p waits first.  A variable the command map does
\* not have is code 3002.
Entry(p, n) ==
    IF n > Len(p) THEN "ok"
    ELSE CASE p[n].kind = "set"       -> IF p[n].variable \in Locked THEN "lock" ELSE "setting"
           [] p[n].kind = "verify"    -> "reading"
           [] p[n].kind = "unmapped"  -> "3002"

EnterStep(a, n) == /\ at' = [at EXCEPT ![a] = n]
                   /\ stage' = [stage EXCEPT ![a] = Entry(program[a], n)]
                   /\ looking' = [looking EXCEPT ![a] = 1]
                   /\ pass' = [pass EXCEPT ![a] = 1]

\* A mutation for the runs: the lock is kept.
KeepLock(a) == UNCHANGED mover

Unlock(a) == mover' = IF mover = a THEN Nobody ELSE mover

\* The action ends, and the lock with it.
EndAction(a, how) == /\ stage' = [stage EXCEPT ![a] = how]
                     /\ Unlock(a)
                     /\ UNCHANGED <<program, at, verifyVars, alone>>
-------------------------------------------------------------------------------
Resting == position = target /\ \A a \in Actions : ~Live(a)

BeginAction(a) ==
    /\ stage[a] = "none"
    /\ \E p \in Programs : /\ program' = [program EXCEPT ![a] = p]
                           /\ stage' = [stage EXCEPT ![a] = Entry(p, 1)]
    /\ alone' = [b \in Actions |-> b = a /\ Resting]
    /\ UNCHANGED <<mountVars, mover, at, verifyVars, refused>>

\* async with lock, for this command only.
TakeLock(a) ==
    /\ stage[a] = "lock"
    /\ mover = Nobody
    /\ mover' = a
    /\ stage' = [stage EXCEPT ![a] = "setting"]
    /\ UNCHANGED <<mountVars, program, at, verifyVars, refused, alone>>

Accept(a) == target' = [target EXCEPT ![Step(a).variable] = Step(a).value]

\* COMMAND COMPLETE.
SetAccepted(a) ==
    /\ stage[a] = "setting"
    /\ Accept(a)
    /\ Unlock(a)
    /\ EnterStep(a, at[a] + 1)
    /\ UNCHANGED <<position, program, refused, alone>>

\* A mutation for the runs: the error of a refused command ends the action.
RefusalEnds(a) == EndAction(a, "2002")

\* put returns {"status": "failed"}, which call does not look at.
RefusalIgnored(a) ==
    /\ Unlock(a)
    /\ EnterStep(a, at[a] + 1)
    /\ UNCHANGED <<program, alone>>

\* COMMAND FAILED.
SetRefused(a) ==
    /\ stage[a] = "setting"
    /\ refused' = [refused EXCEPT ![a] = TRUE]
    /\ RefusalIgnored(a)
    /\ UNCHANGED mountVars

\* The connection broke or timed out, before or after Pilar heard the command.
SetLost(a) ==
    /\ stage[a] = "setting"
    /\ Accept(a) \/ UNCHANGED target
    /\ EndAction(a, "4005")
    /\ UNCHANGED <<position, refused>>
-------------------------------------------------------------------------------
(* The verify step.                                                        *)

\* A mutation for the runs: it looks at the first variable only.
LastIsFirst(a) == TRUE
LastTarget(a) == looking[a] = Len(Step(a).targets)

Matches(a) == position[ThisTarget(a)[1]] = ThisTarget(a)[2]

\* One variable is read and within the tolerance; with the last the step is over.
ReadMatch(a) ==
    /\ stage[a] = "reading"
    /\ Matches(a)
    /\ IF LastTarget(a) THEN EnterStep(a, at[a] + 1)
                  ELSE /\ looking' = [looking EXCEPT ![a] = looking[a] + 1]
                       /\ UNCHANGED <<stage, at, pass>>
    /\ UNCHANGED <<mountVars, mover, program, refused, alone>>

\* It is not, or Pilar has no value: all of them are read again in a second.
ReadMismatch(a) ==
    /\ stage[a] = "reading"
    /\ IF pass[a] < Passes
       THEN /\ stage' = [stage EXCEPT ![a] = "sleeping"]
            /\ UNCHANGED <<mover, program, at, verifyVars, alone>>
       ELSE EndAction(a, "2002")
    /\ UNCHANGED <<mountVars, refused>>

WakeUp(a) ==
    /\ stage[a] = "sleeping"
    /\ stage' = [stage EXCEPT ![a] = "reading"]
    /\ looking' = [looking EXCEPT ![a] = 1]
    /\ pass' = [pass EXCEPT ![a] = pass[a] + 1]
    /\ UNCHANGED <<mountVars, mover, program, at, refused, alone>>

ReadFails(a) ==
    /\ stage[a] = "reading"
    /\ EndAction(a, "4005") \/ EndAction(a, "2002")
    /\ UNCHANGED <<mountVars, refused>>

\* The request is over its time.  A command that is already written is out of
\* its hands: Pilar accepts it at once or never.
CancelAction(a) ==
    /\ Live(a)
    /\ UNCHANGED target \/ (stage[a] = "setting" /\ Accept(a))
    /\ EndAction(a, "given up")
    /\ UNCHANGED <<position, refused>>

Turn(v) == /\ position[v] # target[v]
           /\ position' = [position EXCEPT ![v] = target[v]]
           /\ UNCHANGED <<target, mover, stage, program, at, verifyVars, refused, alone>>
-------------------------------------------------------------------------------
ActionStep(a) == \/ TakeLock(a)
                 \/ SetAccepted(a) \/ SetRefused(a) \/ SetLost(a)
                 \/ ReadMatch(a) \/ ReadMismatch(a) \/ ReadFails(a) \/ WakeUp(a)

PilarNext == \/ \E a \in Actions : BeginAction(a) \/ ActionStep(a) \/ CancelAction(a)
             \/ \E v \in Variables : Turn(v)

PilarSpec == PilarInit /\ [][PilarNext]_pilarVars
-------------------------------------------------------------------------------
PilarTypeOK ==
    /\ target \in [Variables -> Positions]
    /\ position \in [Variables -> Positions]
    /\ mover \in Actions \cup {Nobody}
    /\ stage \in [Actions -> {"none", "lock", "setting", "reading", "sleeping"} \cup Over]
    /\ program \in [Actions -> Programs \cup {<<>>}]
    /\ at \in [Actions -> Nat]
    /\ looking \in [Actions -> Nat]
    /\ pass \in [Actions -> 1 .. Passes]
    /\ refused \in [Actions -> BOOLEAN]
    /\ alone \in [Actions -> BOOLEAN]

Verified(p) == {p[n] : n \in {k \in DOMAIN p : p[k].kind = "verify"}}

(* A slew that reports success, undisturbed and begun with the mount at    *)
(* rest, has the mount where it was sent: the verify step makes up for     *)
(* refused commands whose failure call ignores.                            *)
VerifiedMeansThere ==
    [][ \A a \in Actions : stage[a] = "reading" /\ stage'[a] = "ok" /\ alone[a] =>
          \A s \in Verified(program[a]) : \A i \in DOMAIN s.targets :
             LET v == s.targets[i][1] IN position[v] = s.targets[i][2] /\ target[v] = position[v] ]_pilarVars

(* "an exception COMMAND FAILED below goes to oca-box at once" (comment in *)
(* call, line 476): an action of which a command was refused never reports *)
(* success.                                                                *)
RefusedIsReported == \A a \in Actions : stage[a] = "ok" => ~refused[a]
===============================================================================
