------------------------- MODULE ConditionVariable -------------------------
(***************************************************************************)
(* What omni_condition promises its callers (omnithread/omnithread.h:270), *)
(* with nothing of how: a wait releases the mutex and begins to wait in    *)
(* one step; a signal ends exactly one wait, if there is any (the header   *)
(* would allow more), and a broadcast all of them; a wait ends in no other *)
(* way than by a signal or, for timedwait, by the time; the result tells   *)
(* which; and the caller comes back with the mutex locked.                 *)
(***************************************************************************)
EXTENDS Naturals

CONSTANTS Threads, Conditions, NoThread

VARIABLES
  mutex,    \* the thread that holds each condition's mutex
  at,       \* the condition each thread uses, or last used
  phase,    \* what each thread does there
  timed,    \* the thread's wait is a timedwait
  result    \* what the thread's wait returns: 1 if it was signalled

vars == <<mutex, at, phase, timed, result>>

Phases == {"out", "in", "waiting", "woken"}

Waiting(c) == {t \in Threads : phase[t] = "waiting" /\ at[t] = c}

Init ==
  /\ mutex = [c \in Conditions |-> NoThread]
  /\ at \in [Threads -> Conditions]
  /\ phase = [t \in Threads |-> "out"]
  /\ timed = [t \in Threads |-> FALSE]
  /\ result = [t \in Threads |-> 1]

Lock(t, c) ==
  /\ phase[t] = "out" /\ mutex[c] = NoThread
  /\ mutex' = [mutex EXCEPT ![c] = t]
  /\ at' = [at EXCEPT ![t] = c]
  /\ phase' = [phase EXCEPT ![t] = "in"]
  /\ UNCHANGED <<timed, result>>

Unlock(t) ==
  /\ phase[t] = "in"
  /\ mutex' = [mutex EXCEPT ![at[t]] = NoThread]
  /\ phase' = [phase EXCEPT ![t] = "out"]
  /\ UNCHANGED <<at, timed, result>>

Wait(t, withTime) ==
  /\ phase[t] = "in"
  /\ mutex' = [mutex EXCEPT ![at[t]] = NoThread]
  /\ phase' = [phase EXCEPT ![t] = "waiting"]
  /\ timed' = [timed EXCEPT ![t] = withTime]
  /\ UNCHANGED <<at, result>>

\* The threads of W stop waiting, because they were signalled.
Wake(W) ==
  /\ phase' = [t \in Threads |-> IF t \in W THEN "woken" ELSE phase[t]]
  /\ result' = [t \in Threads |-> IF t \in W THEN 1 ELSE result[t]]
  /\ UNCHANGED <<mutex, at, timed>>

Signal(c) == \E t \in Waiting(c) : Wake({t})

Broadcast(c) == Wake(Waiting(c))

\* Only a timedwait may end without a signal, and then it says so.
TimeOut(t) ==
  /\ phase[t] = "waiting" /\ timed[t]
  /\ phase' = [phase EXCEPT ![t] = "woken"]
  /\ result' = [result EXCEPT ![t] = 0]
  /\ UNCHANGED <<mutex, at, timed>>

Return(t) ==
  /\ phase[t] = "woken" /\ mutex[at[t]] = NoThread
  /\ mutex' = [mutex EXCEPT ![at[t]] = t]
  /\ phase' = [phase EXCEPT ![t] = "in"]
  /\ UNCHANGED <<at, timed, result>>

Next ==
  \/ \E t \in Threads :
       \/ \E c \in Conditions : Lock(t, c)
       \/ Unlock(t) \/ TimeOut(t) \/ Return(t)
       \/ \E withTime \in BOOLEAN : Wait(t, withTime)
  \/ \E c \in Conditions : Signal(c) \/ Broadcast(c)

Spec == Init /\ [][Next]_vars
=============================================================================
