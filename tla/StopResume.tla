---------------------------- MODULE StopResume ----------------------------
(***************************************************************************)
(* What EmSession promises to the rest of the program (EmSession.h:135 and *)
(* EmSession.h:374): a client asks for the guest to be stopped, is granted *)
(* the stop, and from then until it lets go of the session the guest runs  *)
(* no code of its own.  Nothing is said of how the guest is stopped.       *)
(***************************************************************************)
EXTENDS Naturals

VARIABLES
  asked,    \* a client waits for the guest to stop
  granted,  \* how many stops are in force
  running   \* the guest runs its own code

vars == <<asked, granted, running>>

Init == asked = FALSE /\ granted = 0 /\ running = TRUE

Ask == ~asked /\ asked' = TRUE /\ UNCHANGED <<granted, running>>

Grant == asked /\ ~running /\ asked' = FALSE /\ granted' = granted + 1 /\ UNCHANGED running

\* The guest is stopped already: asking and granting are one step.
GrantNow == ~asked /\ ~running /\ granted' = granted + 1 /\ UNCHANGED <<asked, running>>

\* The guest stopped, but not in the way the client needs: it is told so.
Refuse == asked /\ ~running /\ asked' = FALSE /\ UNCHANGED <<granted, running>>

LetGo == granted > 0 /\ granted' = granted - 1 /\ UNCHANGED <<asked, running>>

Halt == running /\ running' = FALSE /\ UNCHANGED <<asked, granted>>

Start == ~running /\ granted = 0 /\ running' = TRUE /\ UNCHANGED <<asked, granted>>

Next == Ask \/ Grant \/ GrantNow \/ Refuse \/ LetGo \/ Halt \/ Start

Spec == Init /\ [][Next]_vars

\* A client that asks gets an answer, whatever the guest is doing.
FairSpec == Spec /\ (asked ~> ~asked)

\* A stop in force and a guest at work exclude each other.
Exclusion == granted > 0 => ~running
=============================================================================
