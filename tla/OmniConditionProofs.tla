------------------------ MODULE OmniConditionProofs ------------------------
(***************************************************************************)
(* Proofs about condition variables, for any number of threads and of      *)
(* conditions: the semaphores stay in step with the lists, and the code    *)
(* implements the condition variable that omnithread.h describes.          *)
(***************************************************************************)
EXTENDS OmniCondition, SequenceFoldsProofs

----------------------------------------------------------------------------
(* Lists without repetitions.                                              *)

LEMMA Pushed ==
  ASSUME NEW S, NEW s \in Seq(S), NEW x \in S, IsInjective(s), ~Contains(s, x)
  PROVE  LET r == Append(s, x)
         IN  /\ r \in Seq(S)
             /\ IsInjective(r)
             /\ \A y : Contains(r, y) <=> Contains(s, y) \/ y = x
<1> DEFINE r == Append(s, x)
<1>1. /\ r \in Seq(S) /\ Len(s) \in Nat /\ Len(r) = Len(s) + 1
      /\ r[Len(s) + 1] = x /\ \A i \in 1 .. Len(s) : r[i] = s[i]
      /\ DOMAIN s = 1 .. Len(s) /\ DOMAIN r = 1 .. Len(s) + 1
  BY AppendProperties
<1> HIDE DEF r
<1>2. \A i \in 1 .. Len(s) : s[i] # x
  BY DEF Contains
<1>3. IsInjective(r)
  BY <1>1, <1>2 DEF IsInjective
<1>4. \A y : Contains(r, y) <=> Contains(s, y) \/ y = x
  BY <1>1 DEF Contains
<1>5. QED
  BY <1>1, <1>3, <1>4 DEF r

LEMMA Popped ==
  ASSUME NEW S, NEW s \in Seq(S), s # <<>>, IsInjective(s)
  PROVE  LET r == Tail(s)
         IN  /\ r \in Seq(S)
             /\ Head(s) \in S
             /\ Contains(s, Head(s))
             /\ IsInjective(r)
             /\ \A y : Contains(r, y) <=> Contains(s, y) /\ y # Head(s)
<1> DEFINE r == Tail(s)
<1>1. /\ r \in Seq(S) /\ Len(s) \in Nat \ {0} /\ Len(r) = Len(s) - 1
      /\ \A i \in 1 .. Len(r) : r[i] = s[i + 1]
      /\ DOMAIN s = 1 .. Len(s) /\ DOMAIN r = 1 .. Len(r)
      /\ Head(s) = s[1] /\ Head(s) \in S
  BY HeadTailProperties, EmptySeq, LenProperties
<1> HIDE DEF r
<1>2. IsInjective(r)
  <2>1. SUFFICES ASSUME NEW i \in 1 .. Len(r), NEW j \in 1 .. Len(r), r[i] = r[j]
                 PROVE  i = j
    BY <1>1 DEF IsInjective
  <2>2. i + 1 \in DOMAIN s /\ j + 1 \in DOMAIN s
    BY <1>1
  <2>3. r[i] = s[i + 1] /\ r[j] = s[j + 1]
    BY <1>1
  <2>4. i + 1 = j + 1
    BY <2>1, <2>2, <2>3 DEF IsInjective
  <2>5. QED
    BY <1>1, <2>4
<1>3. Contains(s, Head(s))
  BY <1>1 DEF Contains
<1>4. ASSUME NEW y PROVE Contains(r, y) <=> Contains(s, y) /\ y # Head(s)
  <2>1. ASSUME Contains(r, y) PROVE Contains(s, y) /\ y # Head(s)
    <3>1. PICK i \in 1 .. Len(r) : r[i] = y
      BY <2>1 DEF Contains
    <3>2. i + 1 \in 1 .. Len(s) /\ s[i + 1] = y /\ i + 1 # 1
      BY <1>1, <3>1
    <3>3. QED
      BY <1>1, <3>2 DEF Contains, IsInjective
  <2>2. ASSUME Contains(s, y), y # Head(s) PROVE Contains(r, y)
    <3>1. PICK i \in 1 .. Len(s) : s[i] = y
      BY <2>2 DEF Contains
    <3>2. i - 1 \in 1 .. Len(r) /\ r[i - 1] = y
      BY <1>1, <2>2, <3>1
    <3>3. QED
      BY <3>2 DEF Contains
  <2>3. QED
    BY <2>1, <2>2
<1>5. QED
  BY <1>1, <1>2, <1>3, <1>4 DEF r

LEMMA Unlinked ==
  ASSUME NEW S, NEW s \in Seq(S), IsInjective(s), NEW k \in 1 .. Len(s)
  PROVE  LET r == RemoveAt(s, k)
         IN  /\ r \in Seq(S)
             /\ IsInjective(r)
             /\ \A y : Contains(r, y) <=> Contains(s, y) /\ y # s[k]
<1> DEFINE r == RemoveAt(s, k)
<1>1. Len(s) \in Nat /\ DOMAIN s = 1 .. Len(s)
  BY LenProperties
<1>2. /\ r \in Seq(S) /\ Len(r) = Len(s) - 1 /\ DOMAIN r = 1 .. Len(r)
      /\ \A i \in 1 .. Len(r) : r[i] = IF i < k THEN s[i] ELSE s[i + 1]
  BY Removed
<1> HIDE DEF r
<1>3. IsInjective(r)
  <2>1. SUFFICES ASSUME NEW i \in 1 .. Len(r), NEW j \in 1 .. Len(r), r[i] = r[j]
                 PROVE  i = j
    BY <1>2 DEF IsInjective
  <2> DEFINE Place(n) == IF n < k THEN n ELSE n + 1
  <2>2. \A n \in 1 .. Len(r) : Place(n) \in DOMAIN s /\ r[n] = s[Place(n)]
    BY <1>1, <1>2
  <2>3. Place(i) = Place(j)
    BY <2>1, <2>2 DEF IsInjective
  <2>4. QED
    BY <1>1, <1>2, <2>3
<1>4. ASSUME NEW y PROVE Contains(r, y) <=> Contains(s, y) /\ y # s[k]
  <2>1. ASSUME Contains(r, y) PROVE Contains(s, y) /\ y # s[k]
    <3>1. PICK i \in 1 .. Len(r) : r[i] = y
      BY <2>1 DEF Contains
    <3>2. PICK j \in 1 .. Len(s) : s[j] = y /\ j # k
      BY <1>1, <1>2, <3>1
    <3>3. QED
      BY <1>1, <3>2 DEF Contains, IsInjective
  <2>2. ASSUME Contains(s, y), y # s[k] PROVE Contains(r, y)
    <3>1. PICK i \in 1 .. Len(s) : s[i] = y /\ i # k
      BY <2>2 DEF Contains
    <3> DEFINE j == IF i < k THEN i ELSE i - 1
    <3>2. j \in 1 .. Len(r) /\ (j < k <=> i < k) /\ (j < k => j = i) /\ (~ j < k => j + 1 = i)
      BY <1>1, <1>2, <3>1
    <3> HIDE DEF j
    <3>3. r[j] = y
      BY <1>2, <3>1, <3>2
    <3>4. QED
      BY <3>2, <3>3 DEF Contains
  <2>3. QED
    BY <2>1, <2>2
<1>5. QED
  BY <1>2, <1>3, <1>4 DEF r
----------------------------------------------------------------------------
(* The invariant: beside what the runs check, who holds which lock.        *)

LocksHeld ==
  /\ \A c \in Conditions : mutex[c] \in Threads =>
       at[mutex[c]] = c /\ pc[mutex[c]] \in {"in", "enlisted", "broadcast"}
  /\ \A t \in Threads : pc[t] \in {"in", "enlisted"} => mutex[at[t]] = t
  /\ \A c \in Conditions : crit[c] \in Threads => pc[crit[c]] = "broadcast"
  /\ \A c, d \in Conditions : crit[c] \in Threads /\ crit[c] = crit[d] => c = d

Inv == TypeOK /\ ListMatchesFlags /\ SemaphoreInStep /\ LocksHeld

LEMMA InvInit == Init => Inv
<1> SUFFICES ASSUME Init PROVE Inv
  OBVIOUS
<1>1. TypeOK
  BY EmptySeq DEF Init, TypeOK, Places
<1>2. ListMatchesFlags
  BY DEF Init, ListMatchesFlags, Listed, Contains, InWait, IsInjective
<1>3. SemaphoreInStep
  BY DEF Init, SemaphoreInStep, InWait
<1>4. LocksHeld
  BY NoThreadAssumption DEF Init, LocksHeld
<1>5. QED
  BY <1>1, <1>2, <1>3, <1>4 DEF Inv

(* The steps that leave the lists, the flags and the semaphores alone.     *)

LEMMA InvLock ==
  ASSUME Inv, NEW t \in Threads, NEW c \in Conditions, Lock(t, c)
  PROVE  Inv'
<1> USE NoThreadAssumption DEF Lock, Go, waits, TypeOK, Places, LocksHeld
<1>1. TypeOK'
  BY DEF Inv
<1>2. ListMatchesFlags'
  BY DEF Inv, ListMatchesFlags, Listed, InWait
<1>3. SemaphoreInStep'
  BY DEF Inv, SemaphoreInStep, InWait
<1>4. LocksHeld'
  BY DEF Inv
<1>5. QED
  BY <1>1, <1>2, <1>3, <1>4 DEF Inv

LEMMA InvUnlock ==
  ASSUME Inv, NEW t \in Threads, Unlock(t)
  PROVE  Inv'
<1> USE NoThreadAssumption DEF Unlock, Go, waits, TypeOK, Places, LocksHeld
<1>1. TypeOK'
  BY DEF Inv
<1>2. ListMatchesFlags'
  BY DEF Inv, ListMatchesFlags, Listed, InWait
<1>3. SemaphoreInStep'
  BY DEF Inv, SemaphoreInStep, InWait
<1>4. LocksHeld'
  BY DEF Inv
<1>5. QED
  BY <1>1, <1>2, <1>3, <1>4 DEF Inv

LEMMA InvRelease ==
  ASSUME Inv, NEW t \in Threads, Release(t)
  PROVE  Inv'
<1> USE NoThreadAssumption DEF Release, Go, waits, TypeOK, Places, LocksHeld
<1>1. TypeOK'
  BY DEF Inv
<1>2. ListMatchesFlags'
  BY DEF Inv, ListMatchesFlags, Listed, InWait
<1>3. SemaphoreInStep'
  BY DEF Inv, SemaphoreInStep, InWait
<1>4. LocksHeld'
  BY DEF Inv
<1>5. QED
  BY <1>1, <1>2, <1>3, <1>4 DEF Inv

LEMMA InvExpire ==
  ASSUME Inv, NEW t \in Threads, Expire(t)
  PROVE  Inv'
<1> USE NoThreadAssumption DEF Expire, Go, waits, TypeOK, Places, LocksHeld
<1>1. TypeOK'
  BY DEF Inv
<1>2. ListMatchesFlags'
  BY DEF Inv, ListMatchesFlags, Listed, InWait
<1>3. SemaphoreInStep'
  BY DEF Inv, SemaphoreInStep, InWait
<1>4. LocksHeld'
  BY DEF Inv
<1>5. QED
  BY <1>1, <1>2, <1>3, <1>4 DEF Inv

LEMMA InvOwed ==
  ASSUME Inv, NEW t \in Threads, Owed(t)
  PROVE  Inv'
<1> USE NoThreadAssumption DEF Owed, Go, waits, TypeOK, Places, LocksHeld
<1>1. TypeOK'
  BY DEF Inv
<1>2. ListMatchesFlags'
  BY DEF Inv, ListMatchesFlags, Listed, InWait
<1>3. SemaphoreInStep'
  BY DEF Inv, SemaphoreInStep, InWait
<1>4. LocksHeld'
  BY DEF Inv
<1>5. QED
  BY <1>1, <1>2, <1>3, <1>4 DEF Inv

LEMMA InvRelock ==
  ASSUME Inv, NEW t \in Threads, Relock(t)
  PROVE  Inv'
<1> USE NoThreadAssumption DEF Relock, Go, waits, TypeOK, Places, LocksHeld
<1>1. TypeOK'
  BY DEF Inv
<1>2. ListMatchesFlags'
  BY DEF Inv, ListMatchesFlags, Listed, InWait
<1>3. SemaphoreInStep'
  BY DEF Inv, SemaphoreInStep, InWait
<1>4. LocksHeld'
  BY DEF Inv
<1>5. QED
  BY <1>1, <1>2, <1>3, <1>4 DEF Inv

LEMMA InvBeginBroadcast ==
  ASSUME Inv, NEW t \in Threads, NEW c \in Conditions, BeginBroadcast(t, c)
  PROVE  Inv'
<1> USE NoThreadAssumption DEF BeginBroadcast, Uses, Go, waits, TypeOK, Places, LocksHeld
<1>1. TypeOK'
  BY DEF Inv
<1>2. ListMatchesFlags'
  BY DEF Inv, ListMatchesFlags, Listed, InWait
<1>3. SemaphoreInStep'
  BY DEF Inv, SemaphoreInStep, InWait
<1>4. LocksHeld'
  BY DEF Inv
<1>5. QED
  BY <1>1, <1>2, <1>3, <1>4 DEF Inv

LEMMA InvEndBroadcast ==
  ASSUME Inv, NEW t \in Threads, NEW c \in Conditions, EndBroadcast(t, c)
  PROVE  Inv'
<1> USE NoThreadAssumption DEF EndBroadcast, Go, waits, TypeOK, Places, LocksHeld
<1>1. TypeOK'
  BY DEF Inv
<1>2. ListMatchesFlags'
  BY DEF Inv, ListMatchesFlags, Listed, InWait
<1>3. SemaphoreInStep'
  BY DEF Inv, SemaphoreInStep, InWait
<1>4. LocksHeld'
  BY DEF Inv
<1>5. QED
  BY <1>1, <1>2, <1>3, <1>4 DEF Inv

LEMMA InvAwake ==
  ASSUME Inv, NEW t \in Threads, Awake(t)
  PROVE  Inv'
<1> USE DEF Awake, Go, TypeOK, Places
<1>1. TypeOK'
  BY DEF Inv
<1>2. ~(InWait(t) /\ condWaiting[t])
  BY DEF Inv, SemaphoreInStep, InWait
<1>3. ListMatchesFlags'
  BY <1>2 DEF Inv, ListMatchesFlags, Listed, InWait
<1>4. SemaphoreInStep'
  BY DEF Inv, SemaphoreInStep, InWait
<1>5. LocksHeld'
  BY NoThreadAssumption DEF Inv, LocksHeld
<1>6. QED
  BY <1>1, <1>3, <1>4, <1>5 DEF Inv

(* A thread joins the list of the condition whose mutex it holds.          *)
LEMMA InvEnlist ==
  ASSUME Inv, NEW t \in Threads, NEW withTime \in BOOLEAN, Enlist(t, withTime)
  PROVE  Inv'
<1> USE DEF Enlist, Go, TypeOK, Places
<1> DEFINE r == Append(list[at[t]], t)
<1>1. /\ r \in Seq(Threads) /\ IsInjective(r)
      /\ \A y : Contains(r, y) <=> Contains(list[at[t]], y) \/ y = t
  <2>1. /\ list[at[t]] \in Seq(Threads) /\ IsInjective(list[at[t]])
        /\ ~Contains(list[at[t]], t)
    BY DEF Inv, ListMatchesFlags, Listed, InWait
  <2>2. QED
    BY <2>1, Pushed
<1>2. list' = [list EXCEPT ![at[t]] = r]
  OBVIOUS
<1> HIDE DEF r
<1>3. TypeOK'
  BY <1>1, <1>2 DEF Inv
<1>4. ListMatchesFlags'
  <2>1. \A c \in Conditions : IsInjective(list'[c])
    BY <1>1, <1>2 DEF Inv, ListMatchesFlags
  <2>2. ASSUME NEW u \in Threads, NEW c \in Conditions
        PROVE  Contains(list'[c], u) <=> (condWaiting'[u] /\ InWait(u)' /\ at'[u] = c)
    <3>1. Contains(list[c], u) <=> (condWaiting[u] /\ InWait(u) /\ at[u] = c)
      BY DEF Inv, ListMatchesFlags, Listed
    <3>2. list'[c] = IF c = at[t] THEN r ELSE list[c]
      BY <1>2 DEF Inv
    <3>3. Contains(list'[c], u) <=> Contains(list[c], u) \/ (u = t /\ c = at[t])
      BY <1>1, <3>2
    <3>4. (condWaiting'[u] /\ InWait(u)' /\ at'[u] = c)
            <=> (condWaiting[u] /\ InWait(u) /\ at[u] = c) \/ (u = t /\ c = at[t])
      BY DEF Inv, InWait
    <3>5. QED
      BY <3>1, <3>3, <3>4
  <2>3. QED
    BY <2>1, <2>2 DEF ListMatchesFlags, Listed
<1>5. SemaphoreInStep'
  BY DEF Inv, SemaphoreInStep, InWait
<1>6. LocksHeld'
  BY NoThreadAssumption DEF Inv, LocksHeld
<1>7. QED
  BY <1>3, <1>4, <1>5, <1>6 DEF Inv

(* A thread that was not signalled in time leaves the list.                *)
LEMMA InvGiveUp ==
  ASSUME Inv, NEW t \in Threads, GiveUp(t)
  PROVE  Inv'
<1> USE DEF GiveUp, Go, TypeOK, Places
<1> DEFINE r == RemoveAt(list[at[t]], Position(t))
<1>1. /\ r \in Seq(Threads) /\ IsInjective(r)
      /\ \A y : Contains(r, y) <=> Contains(list[at[t]], y) /\ y # t
  <2>1. list[at[t]] \in Seq(Threads) /\ IsInjective(list[at[t]]) /\ Contains(list[at[t]], t)
    BY DEF Inv, ListMatchesFlags, Listed, InWait
  <2>2. Position(t) \in 1 .. Len(list[at[t]]) /\ list[at[t]][Position(t)] = t
    BY <2>1 DEF Position, Contains
  <2>3. QED
    BY <2>1, <2>2, Unlinked
<1>2. list' = [list EXCEPT ![at[t]] = r]
  OBVIOUS
<1> HIDE DEF r
<1>3. TypeOK'
  BY <1>1, <1>2 DEF Inv
<1>4. ListMatchesFlags'
  <2>1. \A c \in Conditions : IsInjective(list'[c])
    BY <1>1, <1>2 DEF Inv, ListMatchesFlags
  <2>2. ASSUME NEW u \in Threads, NEW c \in Conditions
        PROVE  Contains(list'[c], u) <=> (condWaiting'[u] /\ InWait(u)' /\ at'[u] = c)
    <3>1. Contains(list[c], u) <=> (condWaiting[u] /\ InWait(u) /\ at[u] = c)
      BY DEF Inv, ListMatchesFlags, Listed
    <3>2. list'[c] = IF c = at[t] THEN r ELSE list[c]
      BY <1>2 DEF Inv
    <3>3. Contains(list'[c], u) <=> Contains(list[c], u) /\ ~(u = t /\ c = at[t])
      BY <1>1, <3>2
    <3>4. (condWaiting'[u] /\ InWait(u)' /\ at'[u] = c)
            <=> (condWaiting[u] /\ InWait(u) /\ at[u] = c) /\ ~(u = t /\ c = at[t])
      BY DEF Inv, InWait
    <3>5. QED
      BY <3>1, <3>3, <3>4
  <2>3. QED
    BY <2>1, <2>2 DEF ListMatchesFlags, Listed
<1>5. SemaphoreInStep'
  BY DEF Inv, SemaphoreInStep, InWait
<1>6. LocksHeld'
  BY NoThreadAssumption DEF Inv, LocksHeld
<1>7. QED
  BY <1>3, <1>4, <1>5, <1>6 DEF Inv

(* What a signal does to the thread at the head of the list.               *)
LEMMA Kicked ==
  ASSUME Inv, NEW c \in Conditions, KickHead(c)
  PROVE  LET u == Head(list[c])
         IN  /\ u \in Threads
             /\ condWaiting[u] /\ InWait(u) /\ at[u] = c /\ semaphore[u] = 0
             /\ list' \in [Conditions -> Seq(Threads)]
             /\ condWaiting' = [condWaiting EXCEPT ![u] = FALSE]
             /\ semaphore' = [semaphore EXCEPT ![u] = 1]
             /\ \A d \in Conditions :
                  /\ IsInjective(list'[d])
                  /\ \A y : Contains(list'[d], y) <=>
                              Contains(list[d], y) /\ ~(d = c /\ y = u)
<1> DEFINE u == Head(list[c])
           r == Tail(list[c])
<1>1. /\ list[c] \in Seq(Threads) /\ list[c] # <<>> /\ IsInjective(list[c])
      /\ list \in [Conditions -> Seq(Threads)] /\ semaphore \in [Threads -> Nat]
  BY DEF Inv, TypeOK, ListMatchesFlags, KickHead
<1>2. /\ r \in Seq(Threads) /\ u \in Threads /\ Contains(list[c], u) /\ IsInjective(r)
      /\ \A y : Contains(r, y) <=> Contains(list[c], y) /\ y # u
  BY <1>1, Popped
<1>3. /\ list' = [list EXCEPT ![c] = r]
      /\ condWaiting' = [condWaiting EXCEPT ![u] = FALSE]
      /\ semaphore' = [semaphore EXCEPT ![u] = semaphore[u] + 1]
  BY DEF KickHead
<1> HIDE DEF u, r
<1>4. condWaiting[u] /\ InWait(u) /\ at[u] = c
  BY <1>2 DEF Inv, ListMatchesFlags, Listed
<1>5. semaphore[u] = 0
  BY <1>2, <1>4 DEF Inv, SemaphoreInStep, InWait
<1>6. \A d \in Conditions : list'[d] = IF d = c THEN r ELSE list[d]
  BY <1>1, <1>3
<1>7. ASSUME NEW d \in Conditions
      PROVE  /\ IsInjective(list'[d])
             /\ \A y : Contains(list'[d], y) <=> Contains(list[d], y) /\ ~(d = c /\ y = u)
  <2>1. IsInjective(list[d])
    BY DEF Inv, ListMatchesFlags
  <2>2. QED
    BY <1>2, <1>6, <2>1
<1>8. list' \in [Conditions -> Seq(Threads)]
  BY <1>1, <1>2, <1>3
<1>9. semaphore' = [semaphore EXCEPT ![u] = 1]
  BY <1>3, <1>5
<1>10. QED
  BY <1>2, <1>3, <1>4, <1>5, <1>7, <1>8, <1>9 DEF u

LEMMA InvKick ==
  ASSUME Inv, NEW c \in Conditions, KickHead(c),
         UNCHANGED <<mutex, crit, at, pc, timed, result>>
  PROVE  Inv'
<1> DEFINE u == Head(list[c])
<1>1. /\ u \in Threads
      /\ condWaiting[u] /\ InWait(u) /\ at[u] = c /\ semaphore[u] = 0
      /\ list' \in [Conditions -> Seq(Threads)]
      /\ condWaiting' = [condWaiting EXCEPT ![u] = FALSE]
      /\ semaphore' = [semaphore EXCEPT ![u] = 1]
      /\ \A d \in Conditions :
           /\ IsInjective(list'[d])
           /\ \A y : Contains(list'[d], y) <=> Contains(list[d], y) /\ ~(d = c /\ y = u)
  BY Kicked
<1> HIDE DEF u
<1>2. TypeOK'
  BY <1>1 DEF Inv, TypeOK
<1>3. ListMatchesFlags'
  <2>1. ASSUME NEW t \in Threads, NEW d \in Conditions
        PROVE  Contains(list'[d], t) <=> (condWaiting'[t] /\ InWait(t)' /\ at'[t] = d)
    <3>1. Contains(list[d], t) <=> (condWaiting[t] /\ InWait(t) /\ at[t] = d)
      BY DEF Inv, ListMatchesFlags, Listed
    <3>2. condWaiting'[t] = (condWaiting[t] /\ t # u)
      BY <1>1 DEF Inv, TypeOK
    <3>3. InWait(t)' = InWait(t) /\ at'[t] = at[t]
      BY DEF InWait
    <3>4. QED
      BY <1>1, <3>1, <3>2, <3>3
  <2>2. QED
    BY <1>1, <2>1 DEF ListMatchesFlags, Listed
<1>4. SemaphoreInStep'
  BY <1>1 DEF Inv, TypeOK, SemaphoreInStep, InWait
<1>5. LocksHeld'
  BY DEF Inv, LocksHeld
<1>6. QED
  BY <1>2, <1>3, <1>4, <1>5 DEF Inv

LEMMA InvNext == Inv /\ [Next]_vars => Inv'
<1> SUFFICES ASSUME Inv, [Next]_vars PROVE Inv'
  OBVIOUS
<1>1. CASE UNCHANGED vars
  BY <1>1 DEF vars, waits, Inv, TypeOK, Places, ListMatchesFlags, Listed, SemaphoreInStep,
              InWait, LocksHeld
<1>2. CASE Next
  <2>1. PICK t \in Threads :
          \/ Unlock(t) \/ Proceed(t)
          \/ \E withTime \in BOOLEAN : Enlist(t, withTime)
          \/ \E c \in Conditions : Lock(t, c) \/ Signal(t, c) \/ BeginBroadcast(t, c)
    BY <1>2 DEF Next
  <2>2. CASE Unlock(t)
    BY <2>2, InvUnlock
  <2>3. CASE \E withTime \in BOOLEAN : Enlist(t, withTime)
    BY <2>3, InvEnlist
  <2>4. ASSUME NEW c \in Conditions, Lock(t, c) PROVE Inv'
    BY <2>4, InvLock
  <2>5. ASSUME NEW c \in Conditions, Signal(t, c) PROVE Inv'
    BY <2>5, InvKick DEF Signal
  <2>6. ASSUME NEW c \in Conditions, BeginBroadcast(t, c) PROVE Inv'
    BY <2>6, InvBeginBroadcast
  <2>7. ASSUME NEW c \in Conditions, BroadcastNext(t, c) PROVE Inv'
    BY <2>7, InvKick DEF BroadcastNext
  <2>8. ASSUME NEW c \in Conditions, EndBroadcast(t, c) PROVE Inv'
    BY <2>8, InvEndBroadcast
  <2>9. CASE Release(t)
    BY <2>9, InvRelease
  <2>10. CASE Awake(t)
    BY <2>10, InvAwake
  <2>11. CASE Expire(t)
    BY <2>11, InvExpire
  <2>12. CASE GiveUp(t)
    BY <2>12, InvGiveUp
  <2>13. CASE Owed(t)
    BY <2>13, InvOwed
  <2>14. CASE Relock(t)
    BY <2>14, InvRelock
  <2>15. QED
    BY <2>1, <2>2, <2>3, <2>4, <2>5, <2>6, <2>7, <2>8, <2>9, <2>10, <2>11, <2>12,
       <2>13, <2>14 DEF Proceed
<1>3. QED
  BY <1>1, <1>2

LEMMA InvHolds == Spec => []Inv
BY InvInit, InvNext, PTL DEF Spec

\* Each place a thread can be in is one that wait, timedwait and broadcast
\* know, and whoever is on a list or holds a mutex is a thread; a semaphore is
\* never taken below zero (nt.cpp:179-280).
THEOREM ConditionsAreTyped == Spec => []TypeOK
<1>1. Inv => TypeOK
  BY DEF Inv
<1>2. QED
  BY <1>1, InvHolds, PTL

\* A signal finds the threads that wait, and only those, however wait, timedwait,
\* signal and broadcast interleave (nt.cpp:185-192, 246-255).
THEOREM ListsAreRight == Spec => []ListMatchesFlags
<1>1. Inv => ListMatchesFlags
  BY DEF Inv
<1>2. QED
  BY <1>1, InvHolds, PTL

\* The semaphore of a thread is never out of step: binary, as the comment at
\* nt.cpp:84 says, and empty whenever the thread begins a wait.
THEOREM SemaphoresStayInStep == Spec => []SemaphoreInStep
<1>1. Inv => SemaphoreInStep
  BY DEF Inv
<1>2. QED
  BY <1>1, InvHolds, PTL
----------------------------------------------------------------------------
(* The refinement.                                                         *)

phaseBar == [t \in Threads |-> PhaseOf(t)]
mutexBar == [c \in Conditions |-> HolderOf(c)]
ResultOf(t) == IF Signalled(t) THEN 1 ELSE result[t]
resultBar == [t \in Threads |-> ResultOf(t)]

Bars == <<mutexBar, at, phaseBar, timed, resultBar>>

LEMMA RefInit == Init => CV!Init
<1> SUFFICES ASSUME Init PROVE CV!Init
  OBVIOUS
<1>1. \A t \in Threads : PhaseOf(t) = "out" /\ ~Signalled(t)
  BY DEF Init, PhaseOf, Signalled, InWait
<1>2. \A c \in Conditions : HolderOf(c) = NoThread
  BY NoThreadAssumption DEF Init, HolderOf
<1>3. QED
  BY <1>1, <1>2 DEF Init, CV!Init

(* A step that changes nothing a caller can see.                           *)
LEMMA Unseen ==
  ASSUME \A t \in Threads : PhaseOf(t)' = PhaseOf(t) /\ ResultOf(t)' = ResultOf(t),
         \A c \in Conditions : HolderOf(c)' = HolderOf(c),
         UNCHANGED <<at, timed>>
  PROVE  UNCHANGED CV!vars
<1>1. phaseBar' = phaseBar /\ resultBar' = resultBar
  BY DEF phaseBar, resultBar
<1>2. mutexBar' = mutexBar
  BY DEF mutexBar
<1>3. QED
  BY <1>1, <1>2 DEF CV!vars, phaseBar, resultBar, mutexBar, ResultOf

LEMMA RefRelease ==
  ASSUME Inv, NEW t \in Threads, Release(t)
  PROVE  UNCHANGED CV!vars
<1> USE NoThreadAssumption DEF Inv, TypeOK, LocksHeld, Release, Go, waits
<1>1. \A u \in Threads : PhaseOf(u)' = PhaseOf(u)
  BY DEF PhaseOf, Signalled, InWait
<1>2. \A u \in Threads : ResultOf(u)' = ResultOf(u)
  BY DEF ResultOf, Signalled, InWait
<1>3. \A d \in Conditions : HolderOf(d)' = HolderOf(d)
  BY DEF HolderOf
<1>4. QED
  BY <1>1, <1>2, <1>3, Unseen

LEMMA RefAwake ==
  ASSUME Inv, NEW t \in Threads, Awake(t)
  PROVE  UNCHANGED CV!vars
<1> USE NoThreadAssumption DEF Inv, TypeOK, LocksHeld, SemaphoreInStep, Awake, Go, waits
<1>1. \A u \in Threads : PhaseOf(u)' = PhaseOf(u)
  BY DEF PhaseOf, Signalled, InWait
<1>2. \A u \in Threads : ResultOf(u)' = ResultOf(u)
  BY DEF ResultOf, Signalled, InWait
<1>3. \A d \in Conditions : HolderOf(d)' = HolderOf(d)
  BY DEF HolderOf
<1>4. QED
  BY <1>1, <1>2, <1>3, Unseen

LEMMA RefExpire ==
  ASSUME Inv, NEW t \in Threads, Expire(t)
  PROVE  UNCHANGED CV!vars
<1> USE NoThreadAssumption DEF Inv, TypeOK, LocksHeld, Expire, Go, waits
<1>1. \A u \in Threads : PhaseOf(u)' = PhaseOf(u)
  BY DEF PhaseOf, Signalled, InWait
<1>2. \A u \in Threads : ResultOf(u)' = ResultOf(u)
  BY DEF ResultOf, Signalled, InWait
<1>3. \A d \in Conditions : HolderOf(d)' = HolderOf(d)
  BY DEF HolderOf
<1>4. QED
  BY <1>1, <1>2, <1>3, Unseen

LEMMA RefOwed ==
  ASSUME Inv, NEW t \in Threads, Owed(t)
  PROVE  UNCHANGED CV!vars
<1> USE NoThreadAssumption DEF Inv, TypeOK, LocksHeld, Owed, Go, waits
<1>1. \A u \in Threads : PhaseOf(u)' = PhaseOf(u)
  BY DEF PhaseOf, Signalled, InWait
<1>2. \A u \in Threads : ResultOf(u)' = ResultOf(u)
  BY DEF ResultOf, Signalled, InWait
<1>3. \A d \in Conditions : HolderOf(d)' = HolderOf(d)
  BY DEF HolderOf
<1>4. QED
  BY <1>1, <1>2, <1>3, Unseen

LEMMA RefEndBroadcast ==
  ASSUME Inv, NEW t \in Threads, NEW c \in Conditions, EndBroadcast(t, c)
  PROVE  UNCHANGED CV!vars
<1> USE NoThreadAssumption DEF Inv, TypeOK, LocksHeld, ListMatchesFlags, Listed, Contains, EndBroadcast, Go, waits
<1>1. \A u \in Threads : PhaseOf(u)' = PhaseOf(u)
  BY DEF PhaseOf, Signalled, InWait
<1>2. \A u \in Threads : ResultOf(u)' = ResultOf(u)
  BY DEF ResultOf, Signalled, InWait
<1>3. \A d \in Conditions : HolderOf(d)' = HolderOf(d)
  BY DEF HolderOf
<1>4. QED
  BY <1>1, <1>2, <1>3, Unseen

(* The steps a caller sees.                                                *)

LEMMA SeenLock ==
  ASSUME NEW t \in Threads, NEW c \in Conditions, PhaseOf(t) = "out", HolderOf(c) = NoThread,
         \A u \in Threads : PhaseOf(u)' = IF u = t THEN "in" ELSE PhaseOf(u),
         \A u \in Threads : ResultOf(u)' = ResultOf(u),
         \A d \in Conditions : HolderOf(d)' = IF d = c THEN t ELSE HolderOf(d),
         at' = [at EXCEPT ![t] = c], timed' = timed
  PROVE  CV!Lock(t, c)
<1>1. phaseBar' = [phaseBar EXCEPT ![t] = "in"] /\ phaseBar[t] = "out"
  BY DEF phaseBar
<1>2. mutexBar' = [mutexBar EXCEPT ![c] = t] /\ mutexBar[c] = NoThread
  BY DEF mutexBar
<1>3. resultBar' = resultBar
  BY DEF resultBar
<1>4. QED
  BY <1>1, <1>2, <1>3 DEF CV!Lock, phaseBar, mutexBar, resultBar, ResultOf

LEMMA SeenUnlock ==
  ASSUME NEW t \in Threads, PhaseOf(t) = "in",
         \A u \in Threads : PhaseOf(u)' = IF u = t THEN "out" ELSE PhaseOf(u),
         \A u \in Threads : ResultOf(u)' = ResultOf(u),
         \A d \in Conditions : HolderOf(d)' = IF d = at[t] THEN NoThread ELSE HolderOf(d),
         UNCHANGED <<at, timed>>
  PROVE  CV!Unlock(t)
<1>1. phaseBar' = [phaseBar EXCEPT ![t] = "out"] /\ phaseBar[t] = "in"
  BY DEF phaseBar
<1>2. mutexBar' = [mutexBar EXCEPT ![at[t]] = NoThread]
  BY DEF mutexBar
<1>3. resultBar' = resultBar
  BY DEF resultBar
<1>4. QED
  BY <1>1, <1>2, <1>3 DEF CV!Unlock, phaseBar, mutexBar, resultBar, ResultOf

LEMMA SeenReturn ==
  ASSUME NEW t \in Threads, at[t] \in Conditions,
         PhaseOf(t) = "woken", HolderOf(at[t]) = NoThread,
         \A u \in Threads : PhaseOf(u)' = IF u = t THEN "in" ELSE PhaseOf(u),
         \A u \in Threads : ResultOf(u)' = ResultOf(u),
         \A d \in Conditions : HolderOf(d)' = IF d = at[t] THEN t ELSE HolderOf(d),
         UNCHANGED <<at, timed>>
  PROVE  CV!Return(t)
<1>1. phaseBar' = [phaseBar EXCEPT ![t] = "in"] /\ phaseBar[t] = "woken"
  BY DEF phaseBar
<1>2. mutexBar' = [mutexBar EXCEPT ![at[t]] = t] /\ mutexBar[at[t]] = NoThread
  BY DEF mutexBar
<1>3. resultBar' = resultBar
  BY DEF resultBar
<1>4. QED
  BY <1>1, <1>2, <1>3 DEF CV!Return, phaseBar, mutexBar, resultBar, ResultOf

LEMMA RefLock ==
  ASSUME Inv, NEW t \in Threads, NEW c \in Conditions, Lock(t, c)
  PROVE  CV!Lock(t, c)
<1> USE NoThreadAssumption DEF Inv, TypeOK, LocksHeld, Lock, Go, waits
<1>1. \A u \in Threads : PhaseOf(u)' = IF u = t THEN "in" ELSE PhaseOf(u)
  BY DEF PhaseOf, Signalled, InWait
<1>2. \A u \in Threads : ResultOf(u)' = ResultOf(u)
  BY DEF ResultOf, Signalled, InWait
<1>3. \A d \in Conditions : HolderOf(d)' = IF d = c THEN t ELSE HolderOf(d)
  BY DEF HolderOf
<1>4. PhaseOf(t) = "out" /\ HolderOf(c) = NoThread
  BY DEF PhaseOf, HolderOf, Signalled, InWait
<1>5. at' = [at EXCEPT ![t] = c] /\ timed' = timed
  OBVIOUS
<1>6. QED
  BY ONLY t \in Threads, c \in Conditions, <1>1, <1>2, <1>3, <1>4, <1>5, SeenLock

LEMMA RefUnlock ==
  ASSUME Inv, NEW t \in Threads, Unlock(t)
  PROVE  CV!Unlock(t)
<1> USE NoThreadAssumption DEF Inv, TypeOK, LocksHeld, Unlock, Go, waits
<1>1. \A u \in Threads : PhaseOf(u)' = IF u = t THEN "out" ELSE PhaseOf(u)
  BY DEF PhaseOf, Signalled, InWait
<1>2. \A u \in Threads : ResultOf(u)' = ResultOf(u)
  BY DEF ResultOf, Signalled, InWait
<1>3. \A d \in Conditions : HolderOf(d)' = IF d = at[t] THEN NoThread ELSE HolderOf(d)
  BY DEF HolderOf
<1>4. PhaseOf(t) = "in"
  BY DEF PhaseOf, Signalled, InWait
<1>5. UNCHANGED <<at, timed>>
  OBVIOUS
<1>6. QED
  BY ONLY t \in Threads, <1>1, <1>2, <1>3, <1>4, <1>5, SeenUnlock

LEMMA SeenWait ==
  ASSUME NEW t \in Threads, NEW withTime, PhaseOf(t) = "in",
         \A u \in Threads : PhaseOf(u)' = IF u = t THEN "waiting" ELSE PhaseOf(u),
         \A u \in Threads : ResultOf(u)' = ResultOf(u),
         \A d \in Conditions : HolderOf(d)' = IF d = at[t] THEN NoThread ELSE HolderOf(d),
         timed' = [timed EXCEPT ![t] = withTime], at' = at
  PROVE  CV!Wait(t, withTime)
<1>1. phaseBar' = [phaseBar EXCEPT ![t] = "waiting"]
  BY DEF phaseBar
<1>2. mutexBar' = [mutexBar EXCEPT ![at[t]] = NoThread]
  BY DEF mutexBar
<1>3. resultBar' = resultBar
  BY DEF resultBar
<1>4. QED
  BY <1>1, <1>2, <1>3 DEF CV!Wait, phaseBar, mutexBar, resultBar, ResultOf

LEMMA SeenTimeOut ==
  ASSUME NEW t \in Threads, PhaseOf(t) = "waiting", timed[t],
         \A u \in Threads : PhaseOf(u)' = IF u = t THEN "woken" ELSE PhaseOf(u),
         \A u \in Threads : ResultOf(u)' = IF u = t THEN 0 ELSE ResultOf(u),
         \A d \in Conditions : HolderOf(d)' = HolderOf(d),
         UNCHANGED <<at, timed>>
  PROVE  CV!TimeOut(t)
<1>1. phaseBar' = [phaseBar EXCEPT ![t] = "woken"]
  BY DEF phaseBar
<1>2. mutexBar' = mutexBar
  BY DEF mutexBar
<1>3. resultBar' = [resultBar EXCEPT ![t] = 0]
  BY DEF resultBar
<1>4. QED
  BY <1>1, <1>2, <1>3 DEF CV!TimeOut, phaseBar, mutexBar, resultBar, ResultOf

LEMMA RefEnlist ==
  ASSUME Inv, NEW t \in Threads, NEW withTime \in BOOLEAN, Enlist(t, withTime)
  PROVE  CV!Wait(t, withTime)
<1> USE NoThreadAssumption DEF Inv, TypeOK, LocksHeld, Enlist, Go
<1>1. \A u \in Threads : PhaseOf(u)' = IF u = t THEN "waiting" ELSE PhaseOf(u)
  BY DEF PhaseOf, Signalled, InWait
<1>2. \A u \in Threads : ResultOf(u)' = ResultOf(u)
  BY DEF ResultOf, Signalled, InWait
<1>3. \A d \in Conditions : HolderOf(d)' = IF d = at[t] THEN NoThread ELSE HolderOf(d)
  BY DEF HolderOf
<1>4. PhaseOf(t) = "in"
  BY DEF PhaseOf, Signalled, InWait
<1>5. timed' = [timed EXCEPT ![t] = withTime] /\ at' = at
  OBVIOUS
<1>6. QED
  BY ONLY t \in Threads, <1>1, <1>2, <1>3, <1>4, <1>5, SeenWait

LEMMA RefGiveUp ==
  ASSUME Inv, NEW t \in Threads, timed[t], GiveUp(t)
  PROVE  CV!TimeOut(t)
<1> USE NoThreadAssumption DEF Inv, TypeOK, LocksHeld, GiveUp, Go
<1>1. \A u \in Threads : PhaseOf(u)' = IF u = t THEN "woken" ELSE PhaseOf(u)
  BY DEF PhaseOf, Signalled, InWait
<1>2. \A u \in Threads : ResultOf(u)' = IF u = t THEN 0 ELSE ResultOf(u)
  BY DEF ResultOf, Signalled, InWait
<1>3. \A d \in Conditions : HolderOf(d)' = HolderOf(d)
  BY DEF HolderOf
<1>4. PhaseOf(t) = "waiting" /\ timed[t]
  BY DEF PhaseOf, Signalled, InWait
<1>5. UNCHANGED <<at, timed>>
  OBVIOUS
<1>6. QED
  BY ONLY t \in Threads, <1>1, <1>2, <1>3, <1>4, <1>5, SeenTimeOut

LEMMA RefRelock ==
  ASSUME Inv, NEW t \in Threads, Relock(t)
  PROVE  CV!Return(t)
<1> USE NoThreadAssumption DEF Inv, TypeOK, LocksHeld, Relock, Go, waits
<1>1. \A u \in Threads : PhaseOf(u)' = IF u = t THEN "in" ELSE PhaseOf(u)
  BY DEF PhaseOf, Signalled, InWait
<1>2. \A u \in Threads : ResultOf(u)' = ResultOf(u)
  BY DEF ResultOf, Signalled, InWait
<1>3. \A d \in Conditions : HolderOf(d)' = IF d = at[t] THEN t ELSE HolderOf(d)
  BY DEF HolderOf
<1>4. PhaseOf(t) = "woken" /\ HolderOf(at[t]) = NoThread
  BY DEF PhaseOf, HolderOf, Signalled, InWait
<1>5. at[t] \in Conditions /\ UNCHANGED <<at, timed>>
  OBVIOUS
<1>6. QED
  BY ONLY t \in Threads, <1>1, <1>2, <1>3, <1>4, <1>5, SeenReturn

(* The threads of W, which were waiting, have been signalled.              *)
LEMMA Woken ==
  ASSUME NEW W,
         \A u \in Threads : PhaseOf(u)' = IF u \in W THEN "woken" ELSE PhaseOf(u),
         \A u \in Threads : ResultOf(u)' = IF u \in W THEN 1 ELSE ResultOf(u),
         \A d \in Conditions : HolderOf(d)' = HolderOf(d),
         UNCHANGED <<at, timed>>
  PROVE  CV!Wake(W)
BY DEF CV!Wake, ResultOf

LEMMA RefSignal ==
  ASSUME Inv, NEW t \in Threads, NEW c \in Conditions, Signal(t, c)
  PROVE  CV!Signal(c)
<1>1. PICK u \in Threads :
        /\ condWaiting[u] /\ InWait(u) /\ at[u] = c
        /\ condWaiting' = [condWaiting EXCEPT ![u] = FALSE]
  BY Kicked DEF Signal
<1> USE NoThreadAssumption DEF Inv, TypeOK, Signal
<1>2. \A v \in Threads : Signalled(v)' <=> (Signalled(v) \/ v = u)
  BY <1>1 DEF Signalled, InWait
<1>3. ~Signalled(u) /\ InWait(u)
  BY <1>1 DEF Signalled, InWait
<1>4. \A v \in Threads : PhaseOf(v)' = IF v = u THEN "woken" ELSE PhaseOf(v)
  <2>1. PhaseOf(u)' = "woken"
    BY <1>1, <1>2, <1>3 DEF PhaseOf, InWait
  <2>2. ASSUME NEW v \in Threads, v # u PROVE PhaseOf(v)' = PhaseOf(v)
    <3>1. (Signalled(v)' <=> Signalled(v)) /\ (InWait(v)' <=> InWait(v))
      BY <1>2, <2>2 DEF InWait
    <3>2. QED
      BY <3>1 DEF PhaseOf
  <2>3. QED
    BY <2>1, <2>2
<1>5. \A v \in Threads : ResultOf(v)' = IF v = u THEN 1 ELSE ResultOf(v)
  BY <1>2 DEF ResultOf
<1>6. \A d \in Conditions : HolderOf(d)' = HolderOf(d)
  BY DEF HolderOf
<1>7. CV!Wake({u})
  <2>1. \A v \in Threads : PhaseOf(v)' = IF v \in {u} THEN "woken" ELSE PhaseOf(v)
    BY <1>4
  <2>2. \A v \in Threads : ResultOf(v)' = IF v \in {u} THEN 1 ELSE ResultOf(v)
    BY <1>5
  <2>3. UNCHANGED <<at, timed>>
    OBVIOUS
  <2>4. QED
    BY ONLY <1>6, <2>1, <2>2, <2>3, Woken
<1>8. u \in CV!Waiting(c)
  <2>1. PhaseOf(u) = "waiting"
    BY <1>3 DEF PhaseOf, InWait
  <2>2. QED
    BY ONLY <1>1, <2>1 DEF CV!Waiting
<1>9. QED
  BY ONLY <1>7, <1>8 DEF CV!Signal

LEMMA RefBeginBroadcast ==
  ASSUME Inv, NEW t \in Threads, NEW c \in Conditions, BeginBroadcast(t, c)
  PROVE  CV!Broadcast(c)
<1> USE NoThreadAssumption DEF Inv, TypeOK, LocksHeld, BeginBroadcast, Uses, Go, waits
<1>0. PICK W : W = {v \in Threads : InWait(v) /\ ~Signalled(v) /\ at[v] = c}
  OBVIOUS
<1>1. CV!Waiting(c) = W
  <2>1. ASSUME NEW v \in Threads PROVE PhaseOf(v) = "waiting" <=> InWait(v) /\ ~Signalled(v)
    BY DEF PhaseOf, InWait, Signalled, Places
  <2>2. QED
    BY <1>0, <2>1 DEF CV!Waiting
<1>2. \A v \in Threads : Signalled(v)' <=> (Signalled(v) \/ v \in W)
  BY <1>0 DEF Signalled, InWait
<1>3. \A v \in Threads : PhaseOf(v)' = IF v \in W THEN "woken" ELSE PhaseOf(v)
  <2>1. t \notin W /\ PhaseOf(t)' = PhaseOf(t)
    BY <1>0 DEF PhaseOf, Signalled, InWait
  <2>2. ASSUME NEW v \in Threads, v # t
        PROVE  PhaseOf(v)' = IF v \in W THEN "woken" ELSE PhaseOf(v)
    <3>1. (InWait(v)' <=> InWait(v)) /\ pc'[v] = pc[v] /\ mutex' = mutex /\ at' = at
      BY <2>2 DEF InWait
    <3>2. v \in W => InWait(v) /\ Signalled(v)'
      BY <1>0, <1>2
    <3>3. v \notin W => (Signalled(v)' <=> Signalled(v))
      BY <1>2
    <3>4. QED
      BY <3>1, <3>2, <3>3 DEF PhaseOf, InWait
  <2>3. QED
    BY <2>1, <2>2
<1>4. \A v \in Threads : ResultOf(v)' = IF v \in W THEN 1 ELSE ResultOf(v)
  BY <1>2 DEF ResultOf
<1>5. \A d \in Conditions : HolderOf(d)' = HolderOf(d)
  BY DEF HolderOf
<1>6. UNCHANGED <<at, timed>>
  OBVIOUS
<1>7. CV!Wake(W)
  BY ONLY <1>3, <1>4, <1>5, <1>6, Woken
<1>8. QED
  BY ONLY <1>1, <1>7 DEF CV!Broadcast, CV!Wake

(* While a broadcast goes on, its threads are woken already.               *)
LEMMA RefBroadcastNext ==
  ASSUME Inv, NEW t \in Threads, NEW c \in Conditions, BroadcastNext(t, c)
  PROVE  UNCHANGED CV!vars
<1>1. PICK u \in Threads :
        /\ condWaiting[u] /\ InWait(u) /\ at[u] = c
        /\ condWaiting' = [condWaiting EXCEPT ![u] = FALSE]
  BY Kicked DEF BroadcastNext
<1> USE NoThreadAssumption DEF Inv, TypeOK, BroadcastNext
<1>2. \A v \in Threads : Signalled(v)' = Signalled(v)
  BY <1>1 DEF Signalled, InWait
<1>3. \A v \in Threads : PhaseOf(v)' = PhaseOf(v) /\ ResultOf(v)' = ResultOf(v)
  BY <1>2 DEF PhaseOf, ResultOf, InWait
<1>4. \A d \in Conditions : HolderOf(d)' = HolderOf(d)
  BY DEF HolderOf
<1>5. QED
  BY <1>3, <1>4, Unseen

(* Only a timedwait expires.                                               *)
TimedOnly == \A t \in Threads : pc[t] = "expired" => timed[t]

LEMMA TimedNext == Inv /\ TimedOnly /\ [Next]_vars => TimedOnly'
<1> SUFFICES ASSUME Inv, TimedOnly, [Next]_vars, NEW u \in Threads, pc'[u] = "expired"
             PROVE  timed'[u]
  BY DEF TimedOnly
<1> USE DEF Inv, TypeOK, TimedOnly, Go, waits
<1>1. CASE UNCHANGED vars
  BY <1>1 DEF vars
<1>2. ASSUME NEW t \in Threads, Proceed(t) PROVE timed'[u]
  BY <1>2 DEF Proceed, Release, Awake, Expire, GiveUp, Owed, Relock, BroadcastNext, EndBroadcast
<1>3. ASSUME NEW t \in Threads, Unlock(t) PROVE timed'[u]
  BY <1>3 DEF Unlock
<1>4. ASSUME NEW t \in Threads, NEW withTime \in BOOLEAN, Enlist(t, withTime) PROVE timed'[u]
  BY <1>4 DEF Enlist
<1>5. ASSUME NEW t \in Threads, NEW c \in Conditions,
             Lock(t, c) \/ Signal(t, c) \/ BeginBroadcast(t, c)
      PROVE  timed'[u]
  BY <1>5 DEF Lock, Signal, BeginBroadcast
<1>6. QED
  BY <1>1, <1>2, <1>3, <1>4, <1>5 DEF Next

LEMMA TimedHolds == Spec => []TimedOnly
<1>1. Init => TimedOnly
  BY DEF Init, TimedOnly
<1>2. QED
  BY <1>1, InvHolds, TimedNext, PTL DEF Spec

LEMMA RefNext == Inv /\ TimedOnly /\ [Next]_vars => [CV!Next]_(CV!vars)
<1> SUFFICES ASSUME Inv, TimedOnly, [Next]_vars PROVE [CV!Next]_(CV!vars)
  OBVIOUS
<1>1. CASE UNCHANGED vars
  <2>1. \A t \in Threads : PhaseOf(t)' = PhaseOf(t) /\ ResultOf(t)' = ResultOf(t)
    BY <1>1 DEF vars, waits, PhaseOf, ResultOf, Signalled, InWait
  <2>2. \A c \in Conditions : HolderOf(c)' = HolderOf(c)
    BY <1>1 DEF vars, HolderOf
  <2>3. QED
    BY <1>1, <2>1, <2>2, Unseen DEF vars
<1>2. CASE Next
  <2>1. PICK t \in Threads :
          \/ Unlock(t) \/ Proceed(t)
          \/ \E withTime \in BOOLEAN : Enlist(t, withTime)
          \/ \E c \in Conditions : Lock(t, c) \/ Signal(t, c) \/ BeginBroadcast(t, c)
    BY <1>2 DEF Next
  <2>2. CASE Unlock(t)
    BY <2>2, RefUnlock DEF CV!Next
  <2>3. CASE \E withTime \in BOOLEAN : Enlist(t, withTime)
    BY <2>3, RefEnlist DEF CV!Next
  <2>4. ASSUME NEW c \in Conditions, Lock(t, c) PROVE CV!Next
    BY <2>4, RefLock DEF CV!Next
  <2>5. ASSUME NEW c \in Conditions, Signal(t, c) PROVE CV!Next
    BY <2>5, RefSignal DEF CV!Next
  <2>6. ASSUME NEW c \in Conditions, BeginBroadcast(t, c) PROVE CV!Next
    BY <2>6, RefBeginBroadcast DEF CV!Next
  <2>7. CASE Proceed(t)
    <3>1. ASSUME NEW c \in Conditions, BroadcastNext(t, c) PROVE UNCHANGED CV!vars
      BY <3>1, RefBroadcastNext
    <3>2. ASSUME NEW c \in Conditions, EndBroadcast(t, c) PROVE UNCHANGED CV!vars
      BY <3>2, RefEndBroadcast
    <3>3. CASE Release(t)
      BY <3>3, RefRelease
    <3>4. CASE Awake(t)
      BY <3>4, RefAwake
    <3>5. CASE Expire(t)
      BY <3>5, RefExpire
    <3>6. CASE Owed(t)
      BY <3>6, RefOwed
    <3>7. CASE GiveUp(t)
      BY <3>7, RefGiveUp DEF CV!Next, GiveUp, TimedOnly
    <3>8. CASE Relock(t)
      BY <3>8, RefRelock DEF CV!Next
    <3>9. QED
      BY <2>7, <3>1, <3>2, <3>3, <3>4, <3>5, <3>6, <3>7, <3>8 DEF Proceed
  <2>8. QED
    BY <2>1, <2>2, <2>3, <2>4, <2>5, <2>6, <2>7
<1>3. QED
  BY <1>1, <1>2

\* The lists, flags and semaphores of nt.cpp are the condition variable of
\* omnithread.h:270-316: no signal is lost or kept, and none wakes two threads.
THEOREM ImplementsConditionVariable == Spec => IsConditionVariable
BY RefInit, RefNext, InvHolds, TimedHolds, PTL DEF Spec, CV!Spec, IsConditionVariable
=============================================================================
