--------------------------- MODULE OmniCondition ---------------------------
(***************************************************************************)
(* omni_condition on Windows (omnithread/nt.cpp): a list of waiting        *)
(* threads per condition, guarded by a critical section, and one semaphore *)
(* per thread, which every condition the thread waits on shares.  Each     *)
(* action is a critical section or a call of the operating system; between *)
(* two of them any other thread may run.                                   *)
(***************************************************************************)
EXTENDS Integers, SequencesExt

CONSTANTS
  Threads,
  Conditions,   \* each with a mutex of its own
  NoThread

ASSUME NoThreadAssumption == NoThread \notin Threads

VARIABLES
  mutex,        \* omni_mutex: the thread that holds each condition's mutex
  crit,         \* the thread inside broadcast's loop, in the critical section
  list,         \* waiting_head .. waiting_tail
  condWaiting,  \* cond_waiting of each thread
  semaphore,    \* cond_semaphore of each thread
  at,           \* the condition each thread uses, or last used
  pc,           \* where in wait, timedwait or broadcast each thread is
  timed,        \* the thread is in timedwait
  result        \* what its wait returns

waits == <<list, condWaiting, semaphore>>
vars == <<mutex, crit, waits, at, pc, timed, result>>

Init ==
  /\ mutex = [c \in Conditions |-> NoThread]
  /\ crit = [c \in Conditions |-> NoThread]
  /\ list = [c \in Conditions |-> <<>>]
  /\ condWaiting = [t \in Threads |-> FALSE]
  /\ semaphore = [t \in Threads |-> 0]
  /\ at \in [Threads -> Conditions]
  /\ pc = [t \in Threads |-> "out"]
  /\ timed = [t \in Threads |-> FALSE]
  /\ result = [t \in Threads |-> 1]

Go(t, place) == pc' = [pc EXCEPT ![t] = place]

Lock(t, c) ==
  /\ pc[t] = "out" /\ mutex[c] = NoThread
  /\ mutex' = [mutex EXCEPT ![c] = t]
  /\ at' = [at EXCEPT ![t] = c]
  /\ Go(t, "in")
  /\ UNCHANGED <<crit, waits, timed, result>>

Unlock(t) ==
  /\ pc[t] = "in"
  /\ mutex' = [mutex EXCEPT ![at[t]] = NoThread]
  /\ Go(t, "out")
  /\ UNCHANGED <<crit, waits, at, timed, result>>

----------------------------------------------------------------------------
(* wait and timedwait                                                      *)

\* The thread appends itself to the list, still holding the mutex.
Enlist(t, withTime) ==
  /\ pc[t] = "in" /\ crit[at[t]] = NoThread
  /\ list' = [list EXCEPT ![at[t]] = Append(@, t)]
  /\ condWaiting' = [condWaiting EXCEPT ![t] = TRUE]
  /\ timed' = [timed EXCEPT ![t] = withTime]
  /\ Go(t, "enlisted")
  /\ UNCHANGED <<mutex, crit, semaphore, at, result>>

Release(t) ==
  /\ pc[t] = "enlisted"
  /\ mutex' = [mutex EXCEPT ![at[t]] = NoThread]
  /\ Go(t, "asleep")
  /\ UNCHANGED <<crit, waits, at, timed, result>>

\* Mutant: the thread does not wait for its semaphore.
AwakeAnyhow(t) ==
  /\ pc[t] \in {"asleep", "owed"}
  /\ semaphore' = [semaphore EXCEPT ![t] = @ - 1]
  /\ result' = [result EXCEPT ![t] = 1]
  /\ Go(t, "relock")
  /\ UNCHANGED <<mutex, crit, list, condWaiting, at, timed>>

\* WaitForSingleObject takes the semaphore, in the first call or the second.
Awake(t) ==
  /\ pc[t] \in {"asleep", "owed"} /\ semaphore[t] > 0
  /\ semaphore' = [semaphore EXCEPT ![t] = @ - 1]
  /\ result' = [result EXCEPT ![t] = 1]
  /\ Go(t, "relock")
  /\ UNCHANGED <<mutex, crit, list, condWaiting, at, timed>>

\* Mutant: a wait without a time ends by the time.
ExpireAnyhow(t) ==
  /\ pc[t] = "asleep" /\ semaphore[t] = 0
  /\ Go(t, "expired")
  /\ UNCHANGED <<mutex, crit, waits, at, timed, result>>

\* The first call returns WAIT_TIMEOUT: at that moment it was not signalled.
Expire(t) ==
  /\ pc[t] = "asleep" /\ timed[t] /\ semaphore[t] = 0
  /\ Go(t, "expired")
  /\ UNCHANGED <<mutex, crit, waits, at, timed, result>>

Position(t) == CHOOSE i \in 1 .. Len(list[at[t]]) : list[at[t]][i] = t

\* Mutant: the thread stays on the list.
GiveUpButStay(t) ==
  /\ pc[t] = "expired" /\ crit[at[t]] = NoThread /\ condWaiting[t]
  /\ condWaiting' = [condWaiting EXCEPT ![t] = FALSE]
  /\ result' = [result EXCEPT ![t] = 0]
  /\ Go(t, "relock")
  /\ UNCHANGED <<mutex, crit, list, semaphore, at, timed>>

\* Nobody has signalled it since: the thread leaves the list.
GiveUp(t) ==
  /\ pc[t] = "expired" /\ crit[at[t]] = NoThread /\ condWaiting[t]
  /\ list' = [list EXCEPT ![at[t]] = RemoveAt(@, Position(t))]
  /\ condWaiting' = [condWaiting EXCEPT ![t] = FALSE]
  /\ result' = [result EXCEPT ![t] = 0]
  /\ Go(t, "relock")
  /\ UNCHANGED <<mutex, crit, semaphore, at, timed>>

\* Mutant: it leaves the semaphore for its next wait.
OwedButGone(t) ==
  /\ pc[t] = "expired" /\ crit[at[t]] = NoThread /\ ~condWaiting[t]
  /\ Go(t, "relock")
  /\ UNCHANGED <<mutex, crit, waits, at, timed, result>>

\* Somebody has: it goes back for the semaphore it was given.
Owed(t) ==
  /\ pc[t] = "expired" /\ crit[at[t]] = NoThread /\ ~condWaiting[t]
  /\ Go(t, "owed")
  /\ UNCHANGED <<mutex, crit, waits, at, timed, result>>

Relock(t) ==
  /\ pc[t] = "relock" /\ mutex[at[t]] = NoThread
  /\ mutex' = [mutex EXCEPT ![at[t]] = t]
  /\ Go(t, "in")
  /\ UNCHANGED <<crit, waits, at, timed, result>>

----------------------------------------------------------------------------
(* signal and broadcast, with or without the mutex                         *)

\* Mutant: the semaphore is not released.
KickHeadQuietly(c) ==
  LET t == Head(list[c])
  IN  /\ list[c] # <<>>
      /\ list' = [list EXCEPT ![c] = Tail(@)]
      /\ condWaiting' = [condWaiting EXCEPT ![t] = FALSE]
      /\ UNCHANGED semaphore

\* The head of the list is taken off it and its semaphore is released.
KickHead(c) ==
  LET t == Head(list[c])
  IN  /\ list[c] # <<>>
      /\ list' = [list EXCEPT ![c] = Tail(@)]
      /\ condWaiting' = [condWaiting EXCEPT ![t] = FALSE]
      /\ semaphore' = [semaphore EXCEPT ![t] = @ + 1]

Uses(t, c) == pc[t] = "out" \/ (pc[t] = "in" /\ at[t] = c)

Signal(t, c) ==
  /\ Uses(t, c) /\ crit[c] = NoThread
  /\ KickHead(c)
  /\ UNCHANGED <<mutex, crit, at, pc, timed, result>>

BeginBroadcast(t, c) ==
  /\ Uses(t, c) /\ crit[c] = NoThread
  /\ crit' = [crit EXCEPT ![c] = t]
  /\ Go(t, "broadcast")
  /\ UNCHANGED <<mutex, waits, at, timed, result>>

BroadcastNext(t, c) ==
  /\ crit[c] = t
  /\ KickHead(c)
  /\ UNCHANGED <<mutex, crit, at, pc, timed, result>>

EndBroadcast(t, c) ==
  /\ crit[c] = t /\ list[c] = <<>>
  /\ crit' = [crit EXCEPT ![c] = NoThread]
  /\ Go(t, IF mutex[at[t]] = t THEN "in" ELSE "out")
  /\ UNCHANGED <<mutex, waits, at, timed, result>>

----------------------------------------------------------------------------
\* What a thread does next, once it has entered wait, timedwait or broadcast.
Proceed(t) ==
  \/ Release(t) \/ Awake(t) \/ Expire(t) \/ GiveUp(t) \/ Owed(t) \/ Relock(t)
  \/ \E c \in Conditions : BroadcastNext(t, c) \/ EndBroadcast(t, c)

Next ==
  \E t \in Threads :
    \/ Unlock(t)
    \/ \E withTime \in BOOLEAN : Enlist(t, withTime)
    \/ Proceed(t)
    \/ \E c \in Conditions : Lock(t, c) \/ Signal(t, c) \/ BeginBroadcast(t, c)

Spec == Init /\ [][Next]_vars

\* Threads run, time passes, no thread is starved of a lock that is free again
\* and again, and callers give up their mutex sooner or later.
Fairness == \A t \in Threads : SF_vars(Proceed(t)) /\ SF_vars(Unlock(t))

FairSpec == Spec /\ Fairness

----------------------------------------------------------------------------
(* Properties                                                              *)

Places == {"out", "in", "enlisted", "asleep", "expired", "owed", "relock", "broadcast"}

TypeOK ==
  /\ mutex \in [Conditions -> Threads \cup {NoThread}]
  /\ crit \in [Conditions -> Threads \cup {NoThread}]
  /\ list \in [Conditions -> Seq(Threads)]
  /\ condWaiting \in [Threads -> BOOLEAN]
  /\ semaphore \in [Threads -> Nat]
  /\ at \in [Threads -> Conditions]
  /\ pc \in [Threads -> Places]
  /\ timed \in [Threads -> BOOLEAN]
  /\ result \in [Threads -> {0, 1}]

InWait(t) == pc[t] \in {"enlisted", "asleep", "expired"}
Listed(t, c) == Contains(list[c], t)

\* A thread is on the list of the condition it waits on, once, and on no other,
\* exactly as long as its cond_waiting says so (nt.cpp:185-192, 246-255): a
\* signal can find it there, and a thread that has left is not found.
ListMatchesFlags ==
  /\ \A t \in Threads, c \in Conditions :
       Listed(t, c) <=> (condWaiting[t] /\ InWait(t) /\ at[t] = c)
  /\ \A c \in Conditions : IsInjective(list[c])

\* The semaphore of a thread holds the one signal it was given and has not
\* taken, and nothing else (nt.cpp:83-101).  A count left behind would end the
\* next wait of the thread, on whatever condition, before its time.
SemaphoreInStep ==
  \A t \in Threads :
    semaphore[t] = IF (InWait(t) /\ ~condWaiting[t]) \/ pc[t] = "owed" THEN 1 ELSE 0

\* A thread in a wait that was signalled, or that a broadcast will come to.
Signalled(t) ==
  \/ InWait(t) /\ (condWaiting[t] => crit[at[t]] # NoThread)
  \/ pc[t] = "owed"

\* Whoever is signalled returns and is told so, even if its time ran out
\* (nt.cpp:262-272); and a timedwait returns whether or not it is signalled.
WaitsEnd ==
  \A t \in Threads :
    /\ Signalled(t) ~> (pc[t] = "in" /\ result[t] = 1)
    /\ (InWait(t) /\ timed[t]) ~> pc[t] = "in"

\* The condition variable that callers see: the mutex is released as soon as
\* the thread is on the list, and a broadcast ends all waits when it begins.
PhaseOf(t) ==
  IF pc[t] = "broadcast" THEN (IF mutex[at[t]] = t THEN "in" ELSE "out")
  ELSE IF Signalled(t) \/ pc[t] = "relock" THEN "woken"
  ELSE IF InWait(t) THEN "waiting" ELSE pc[t]
HolderOf(c) ==
  IF mutex[c] \in Threads /\ pc[mutex[c]] = "enlisted" THEN NoThread ELSE mutex[c]

CV == INSTANCE ConditionVariable WITH
        phase <- [t \in Threads |-> PhaseOf(t)],
        mutex <- [c \in Conditions |-> HolderOf(c)],
        result <- [t \in Threads |-> IF Signalled(t) THEN 1 ELSE result[t]]

\* The code implements the condition variable of omnithread.h: no signal is
\* lost, none wakes two threads, and none is kept for a later wait.
IsConditionVariable == CV!Spec
=============================================================================
