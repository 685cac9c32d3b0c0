---------------------------- MODULE EmRPCProofs ----------------------------
(***************************************************************************)
(* Signals, for any finite set of scripts: the types, that each script that*)
(* waits has exactly one wait still to be answered, that no wait is left   *)
(* with a closed socket, and that the guest is only suspended for a script *)
(* that was signalled.                                                     *)
(***************************************************************************)
EXTENDS EmRPC, SequenceFoldsProofs, FiniteSetTheorems

(* The parts of the inductive invariant.                                   *)

OneWaitEach ==
  \A i, j \in DOMAIN gSLPTimeouts : gSLPTimeouts[i].client = gSLPTimeouts[j].client => i = j

\* What is in the vector waits, or has just been signalled from it.
ListedWait ==
  \A i \in DOMAIN gSLPTimeouts :
    \/ client[gSLPTimeouts[i].client] = "waiting"
    \/ walk \in Signals \union {"undefined"} /\ client[gSLPTimeouts[i].client] = "signalled"

WalkInVector == calm /\ walk \in Signals \union {"timeouts"} => iter <= Len(gSLPTimeouts) + 1

\* A walk that may suspend the guest began with the guest running.
MaySuspend == (walk \in {"idle", "send"} => external = 0) /\ (walk = "quit" => guest = "closed")

Unanswered(c) == \E i \in DOMAIN gSLPTimeouts \ Answered : gSLPTimeouts[i].client = c

NoneForgotten == calm => \A c \in Clients : client[c] = "waiting" <=> Unanswered(c)

SignalHeard ==
  calm /\ (external > 0 \/ (walk \in Signals /\ signalledOne)) =>
    abandoned \/ \E c \in Clients : client[c] = "signalled"

ScriptTypes ==
  /\ client \in [Clients -> {"gone", "ready", "waiting", "signalled"}]
  /\ gSLPTimeouts \in Seq(Waits)
  /\ expired \in SUBSET Clients /\ due \in SUBSET Clients

WalkTypes ==
  /\ walk \in Walks /\ iter \in 1..(Cardinality(Clients) + 1)
  /\ guest \in {"awake", "dozing", "closed"} /\ external \in 0..1

FlagTypes ==
  signalledOne \in BOOLEAN /\ woken \in BOOLEAN /\ calm \in BOOLEAN /\ abandoned \in BOOLEAN

RPCInv ==
  /\ ScriptTypes /\ WalkTypes /\ FlagTypes
  /\ OneWaitEach /\ ListedWait /\ WalkInVector /\ MaySuspend /\ NoneForgotten /\ SignalHeard

----------------------------------------------------------------------------
(* The vector.                                                             *)

LEMMA IntervalSize ==
  ASSUME NEW n \in Nat
  PROVE  IsFiniteSet(1 .. n) /\ Cardinality(1 .. n) = n
<1>1. 1 \in Int /\ n \in Int
  OBVIOUS
<1>2. IsFiniteSet(1 .. n) /\ Cardinality(1 .. n) = IF 1 > n THEN 0 ELSE n - 1 + 1
  BY <1>1, FS_Interval
<1>3. QED
  BY <1>2

LEMMA TypeParts == TypeOK <=> ScriptTypes /\ WalkTypes /\ FlagTypes
BY DEF TypeOK, ScriptTypes, WalkTypes, FlagTypes

LEMMA WaitTyped ==
  /\ \A w \in Waits : w.client \in Clients
  /\ \A c \in Clients : \A w \in Wait(c) : w \in Waits /\ w.client = c
BY DEF Waits, Wait

LEMMA VectorFacts ==
  ASSUME ScriptTypes, WalkTypes
  PROVE  /\ Len(gSLPTimeouts) \in Nat /\ DOMAIN gSLPTimeouts = 1 .. Len(gSLPTimeouts)
         /\ \A i \in 1 .. Len(gSLPTimeouts) :
              gSLPTimeouts[i] \in Waits /\ gSLPTimeouts[i].client \in Clients
         /\ iter \in Nat /\ iter >= 1 /\ Cardinality(Clients) \in Nat
<1>1. gSLPTimeouts \in Seq(Waits)
  BY DEF ScriptTypes
<1>2. /\ Len(gSLPTimeouts) \in Nat /\ DOMAIN gSLPTimeouts = 1 .. Len(gSLPTimeouts)
      /\ \A i \in 1 .. Len(gSLPTimeouts) : gSLPTimeouts[i] \in Waits
  BY <1>1, LenProperties, ElementOfSeq
<1>3. Cardinality(Clients) \in Nat
  BY ClientsAssumption, FS_CardinalityType
<1>4. iter \in Nat /\ iter >= 1
  BY <1>3 DEF WalkTypes
<1>5. QED
  BY <1>2, <1>3, <1>4, WaitTyped

(* No more waits than scripts.                                             *)
LEMMA VectorBounded ==
  ASSUME ScriptTypes, WalkTypes, OneWaitEach
  PROVE  Len(gSLPTimeouts) <= Cardinality(Clients)
<1> DEFINE n == Len(gSLPTimeouts)
           who == [i \in 1 .. n |-> gSLPTimeouts[i].client]
<1>1. /\ n \in Nat /\ DOMAIN gSLPTimeouts = 1 .. n
      /\ \A i \in 1 .. n : gSLPTimeouts[i].client \in Clients
  BY VectorFacts
<1> HIDE DEF n
<1>2. who \in [1 .. n -> Clients] /\ \A i, j \in 1 .. n : who[i] = who[j] => i = j
  BY <1>1 DEF OneWaitEach
<1> HIDE DEF who
<1>3. who \in Injection(1 .. n, Clients)
  BY <1>2 DEF Injection, IsInjective
<1>4. Cardinality(1 .. n) <= Cardinality(Clients)
  BY <1>3, ClientsAssumption, FS_Injection
<1>5. Cardinality(1 .. n) = n
  BY <1>1, IntervalSize
<1>6. QED
  BY <1>4, <1>5 DEF n

\* The scripts of these waits are all different.
Distinct(s) == \A i, j \in 1 .. Len(s) : s[i].client = s[j].client => i = j

\* Every wait in r is one of s.
Within(r, s) == \A i \in 1 .. Len(r) : \E k \in 1 .. Len(s) : r[i] = s[k]

\* All waits of s but those of c are in r.
Without(r, s, c) ==
  /\ \A i \in 1 .. Len(r) : r[i].client # c
  /\ \A k \in 1 .. Len(s) : s[k].client # c => \E i \in 1 .. Len(r) : r[i] = s[k]

(* The waits of a closed socket are gone, all others are there.            *)
LEMMA SocketDropped ==
  ASSUME ScriptTypes, WalkTypes, NEW c \in Clients
  PROVE  LET s == gSLPTimeouts
             r == WithoutSocket(c)
         IN  /\ r \in Seq(Waits) /\ Len(r) \in Nat /\ DOMAIN r = 1 .. Len(r)
             /\ Within(r, s) /\ Without(r, s, c) /\ (OneWaitEach => Distinct(r))
<1> DEFINE s == gSLPTimeouts
           r == WithoutSocket(c)
           T == {w \in Waits : w.client # c}
<1>1. /\ s \in Seq(Waits) /\ Len(s) \in Nat /\ DOMAIN s = 1 .. Len(s)
      /\ \A i \in 1 .. Len(s) : s[i] \in Waits
  BY VectorFacts DEF ScriptTypes
<1>2. r = Only(s, T)
  BY DEF WithoutSocket
<1> HIDE DEF s, r, T
<1>3. r \in Seq(Waits) /\ \E e : KeptAt(e, r, s, Len(s), T)
  BY <1>1, <1>2, OnlyPlaces
<1>4. PICK e : KeptAt(e, r, s, Len(s), T)
  BY <1>3
<1>5. Len(r) \in Nat /\ DOMAIN r = 1 .. Len(r)
  BY <1>3, LenProperties
<1>6. /\ e \in [1 .. Len(r) -> 1 .. Len(s)]
      /\ \A i \in 1 .. Len(r) : r[i] = s[e[i]] /\ r[i] \in T
      /\ \A i, j \in 1 .. Len(r) : i < j => e[i] < e[j]
      /\ \A p \in 1 .. Len(s) : s[p] \in T => \E i \in 1 .. Len(r) : e[i] = p
  BY <1>4 DEF KeptAt
<1>7. \A i, j \in 1 .. Len(r) : e[i] = e[j] => i = j
  BY <1>5, <1>6
<1>9. \A i \in 1 .. Len(r) : r[i].client # c
  BY <1>6 DEF T
<1>10. ASSUME OneWaitEach, NEW i \in 1 .. Len(r), NEW j \in 1 .. Len(r), r[i].client = r[j].client
       PROVE  i = j
  <2>1. e[i] = e[j]
    BY <1>1, <1>6, <1>10 DEF OneWaitEach, s
  <2>2. QED
    BY <1>7, <2>1
<1>11. ASSUME NEW k \in 1 .. Len(s), s[k].client # c
       PROVE  \E i \in 1 .. Len(r) : r[i] = s[k]
  <2>1. s[k] \in T
    BY <1>1, <1>11 DEF T
  <2>2. PICK i \in 1 .. Len(r) : e[i] = k
    BY <1>6, <2>1
  <2>3. QED
    BY <1>6, <2>2
<1>12. \A i \in 1 .. Len(r) : \E k \in 1 .. Len(s) : r[i] = s[k]
  BY <1>6
<1>13. Within(r, s) /\ Without(r, s, c) /\ (OneWaitEach => Distinct(r))
  BY <1>9, <1>10, <1>11, <1>12 DEF Within, Without, Distinct
<1>14. QED
  BY <1>3, <1>5, <1>13 DEF s, r

----------------------------------------------------------------------------
(* Steps that leave the vector, the scripts and the walks alone.           *)

LEMMA InitRight == Init => RPCInv
<1> SUFFICES ASSUME Init PROVE RPCInv
  OBVIOUS
<1>1. /\ gSLPTimeouts = <<>> /\ walk = "none" /\ iter = 1 /\ external = 0 /\ calm
      /\ \A c \in Clients : client[c] = "gone"
  BY DEF Init
<1>2. ScriptTypes /\ WalkTypes /\ FlagTypes
  <2>1. Cardinality(Clients) \in Nat
    BY ClientsAssumption, FS_CardinalityType
  <2>2. WalkTypes
    BY <2>1 DEF Init, WalkTypes, Walks
  <2>3. ScriptTypes
    BY DEF Init, ScriptTypes
  <2>4. FlagTypes
    BY DEF Init, FlagTypes
  <2>5. QED
    BY <2>2, <2>3, <2>4
<1>3. DOMAIN gSLPTimeouts = {} /\ Len(gSLPTimeouts) = 0
  BY <1>1
<1>4. OneWaitEach /\ ListedWait
  BY <1>3 DEF OneWaitEach, ListedWait
<1>5. WalkInVector /\ MaySuspend /\ SignalHeard
  BY <1>1, <1>3 DEF WalkInVector, MaySuspend, SignalHeard, Signals
<1>6. NoneForgotten
  BY <1>1, <1>3 DEF NoneForgotten, Unanswered
<1>7. QED
  BY <1>2, <1>4, <1>5, <1>6 DEF RPCInv

LEMMA GuestSteps ==
  ASSUME RPCInv, \/ UNCHANGED vars \/ GuestIsWoken \/ GuestGetsEvent \/ \E c \in Clients : TimePasses(c)
  PROVE  RPCInv'
<1>1. /\ UNCHANGED <<client, gSLPTimeouts, walk, iter, due, signalledOne, external, calm, abandoned>>
      /\ walk = "quit" => guest' = guest
  BY DEF vars, walking, GuestIsWoken, GuestGetsEvent, TimePasses, CanDoze, RPCInv, MaySuspend
<1>2. ScriptTypes' /\ WalkTypes' /\ FlagTypes'
  <2>1. ScriptTypes'
    BY <1>1 DEF RPCInv, ScriptTypes, GuestIsWoken, GuestGetsEvent, TimePasses, vars
  <2>2. WalkTypes'
    BY <1>1 DEF RPCInv, WalkTypes, GuestIsWoken, GuestGetsEvent, TimePasses, vars
  <2>3. FlagTypes'
    BY <1>1 DEF RPCInv, FlagTypes, GuestIsWoken, GuestGetsEvent, TimePasses, vars
  <2>4. QED
    BY <2>1, <2>2, <2>3
<1>3. OneWaitEach' /\ ListedWait' /\ WalkInVector' /\ MaySuspend'
  BY <1>1 DEF RPCInv, OneWaitEach, ListedWait, WalkInVector, MaySuspend
<1>4. NoneForgotten' /\ SignalHeard'
  BY <1>1 DEF RPCInv, NoneForgotten, Unanswered, Answered, SignalHeard
<1>5. QED
  BY <1>2, <1>3, <1>4 DEF RPCInv

(* A walk begins with nobody answered.                                     *)
LEMMA WalkBegins ==
  ASSUME RPCInv, SignalWaiters \/ SignalQuit \/ Idle
  PROVE  RPCInv'
<1>1. /\ UNCHANGED <<client, gSLPTimeouts, expired, woken, external, calm, abandoned>>
      /\ walk = "none" /\ walk' \in {"idle", "send", "quit", "timeouts"} /\ iter' = 1 /\ signalledOne' = FALSE
      /\ walk' \in {"idle", "send"} => external = 0
      /\ walk' = "quit" => guest' = "closed"
      /\ guest' \in {guest, "closed"}
      /\ due' \in {due, expired}
  BY DEF SignalWaiters, SignalQuit, Idle, Start
<1>2. Len(gSLPTimeouts) \in Nat /\ Cardinality(Clients) \in Nat
  BY VectorFacts DEF RPCInv
<1>3. ScriptTypes' /\ WalkTypes' /\ FlagTypes'
  <2>1. ScriptTypes'
    BY <1>1, <1>2 DEF RPCInv, ScriptTypes, Walks, Signals
  <2>2. WalkTypes'
    BY <1>1, <1>2 DEF RPCInv, WalkTypes, Walks, Signals
  <2>3. FlagTypes'
    BY <1>1, <1>2 DEF RPCInv, FlagTypes, Walks, Signals
  <2>4. QED
    BY <2>1, <2>2, <2>3
<1>4. OneWaitEach' /\ ListedWait' /\ WalkInVector' /\ MaySuspend' /\ SignalHeard'
  BY <1>1, <1>2 DEF RPCInv, OneWaitEach, ListedWait, WalkInVector, MaySuspend, SignalHeard, Signals
<1>5. Answered = {} /\ Answered' = {}
  BY <1>1 DEF Answered, Signals
<1>6. NoneForgotten'
  BY <1>1, <1>5 DEF RPCInv, NoneForgotten, Unanswered
<1>7. QED
  BY <1>3, <1>4, <1>6 DEF RPCInv

(* Calls of a script that is not in the vector.                            *)

LEMMA ConnectRight ==
  ASSUME RPCInv, NEW c \in Clients, Connect(c)
  PROVE  RPCInv'
<1>1. /\ UNCHANGED <<gSLPTimeouts, walk, iter, signalledOne, guest, external, calm, abandoned>>
      /\ client[c] = "gone" /\ client' = [client EXCEPT ![c] = "ready"]
  BY DEF Connect, walking
<1>2. ScriptTypes' /\ WalkTypes' /\ FlagTypes'
  <2>1. ScriptTypes'
    BY <1>1 DEF RPCInv, ScriptTypes, Connect, walking
  <2>2. WalkTypes'
    BY <1>1 DEF RPCInv, WalkTypes, Connect, walking
  <2>3. FlagTypes'
    BY <1>1 DEF RPCInv, FlagTypes, Connect, walking
  <2>4. QED
    BY <2>1, <2>2, <2>3
<1>3. client'[c] = "ready" /\ \A d \in Clients : d # c => client'[d] = client[d]
  BY <1>1 DEF RPCInv, ScriptTypes
<1>4. \A i \in DOMAIN gSLPTimeouts : gSLPTimeouts[i].client \in Clients \ {c}
  BY <1>1, VectorFacts DEF RPCInv, ListedWait
<1>5. OneWaitEach' /\ ListedWait' /\ WalkInVector' /\ MaySuspend'
  BY <1>1, <1>3, <1>4 DEF RPCInv, OneWaitEach, ListedWait, WalkInVector, MaySuspend
<1>6. NoneForgotten'
  BY <1>1, <1>3, <1>4 DEF RPCInv, NoneForgotten, Unanswered, Answered
<1>7. SignalHeard'
  BY <1>1, <1>3 DEF RPCInv, SignalHeard
<1>8. QED
  BY <1>2, <1>5, <1>6, <1>7 DEF RPCInv

LEMMA FreeIsUnlisted ==
  ASSUME RPCInv, walk = "none", NEW c \in Clients, Free(c)
  PROVE  /\ \A i \in DOMAIN gSLPTimeouts : gSLPTimeouts[i].client \in Clients \ {c}
         /\ \A i \in DOMAIN gSLPTimeouts : client[gSLPTimeouts[i].client] = "waiting"
BY VectorFacts DEF RPCInv, ListedWait, Signals, Free

LEMMA ResumeRight ==
  ASSUME RPCInv, NEW c \in Clients, HostSignalResume(c)
  PROVE  RPCInv'
<1>1. /\ UNCHANGED <<gSLPTimeouts, walk, iter, signalledOne, guest, calm>>
      /\ walk = "none" /\ Free(c) /\ client' = [client EXCEPT ![c] = "ready"]
      /\ external' = 0
  BY DEF HostSignalResume, walking, ScheduleResumeExternal
<1>2. ScriptTypes' /\ WalkTypes' /\ FlagTypes'
  <2>1. ScriptTypes'
    BY <1>1 DEF RPCInv, ScriptTypes, HostSignalResume, walking, ScheduleResumeExternal
  <2>2. WalkTypes'
    BY <1>1 DEF RPCInv, WalkTypes, HostSignalResume, walking, ScheduleResumeExternal
  <2>3. FlagTypes'
    BY <1>1 DEF RPCInv, FlagTypes, HostSignalResume, walking, ScheduleResumeExternal
  <2>4. QED
    BY <2>1, <2>2, <2>3
<1>3. client'[c] = "ready" /\ client[c] # "waiting" /\ \A d \in Clients : d # c => client'[d] = client[d]
  BY <1>1 DEF RPCInv, ScriptTypes, Free
<1>4. \A i \in DOMAIN gSLPTimeouts : gSLPTimeouts[i].client \in Clients \ {c}
  BY <1>1, FreeIsUnlisted
<1>5. OneWaitEach' /\ ListedWait' /\ WalkInVector' /\ MaySuspend'
  BY <1>1, <1>3, <1>4 DEF RPCInv, OneWaitEach, ListedWait, WalkInVector, MaySuspend
<1>6. NoneForgotten'
  BY <1>1, <1>3, <1>4 DEF RPCInv, NoneForgotten, Unanswered, Answered
<1>7. SignalHeard'
  BY <1>1, <1>3 DEF RPCInv, SignalHeard, Signals
<1>8. QED
  BY <1>2, <1>5, <1>6, <1>7 DEF RPCInv

LEMMA WaitRight ==
  ASSUME RPCInv, NEW c \in Clients, HostSignalWait(c)
  PROVE  RPCInv'
<1> DEFINE s == gSLPTimeouts
           n == Len(s)
<1>1. /\ UNCHANGED <<walk, iter, signalledOne, guest, calm>>
      /\ walk = "none" /\ Free(c) /\ client' = [client EXCEPT ![c] = "waiting"]
      /\ external' = 0
  BY DEF HostSignalWait, walking, ScheduleResumeExternal
<1>2. PICK w \in Wait(c) : gSLPTimeouts' = Append(gSLPTimeouts, w)
  BY DEF HostSignalWait
<1>3. w \in Waits /\ w.client = c
  BY WaitTyped
<1>4. s \in Seq(Waits) /\ n \in Nat /\ DOMAIN s = 1 .. n
  BY VectorFacts DEF RPCInv, ScriptTypes
<1>5. /\ gSLPTimeouts' \in Seq(Waits) /\ Len(gSLPTimeouts') = n + 1 /\ DOMAIN gSLPTimeouts' = 1 .. n + 1
      /\ gSLPTimeouts'[n + 1] = w /\ \A i \in 1 .. n : gSLPTimeouts'[i] = s[i]
  BY <1>2, <1>3, <1>4, AppendProperties
<1>6. ScriptTypes' /\ WalkTypes' /\ FlagTypes'
  <2>1. ScriptTypes'
    BY <1>1, <1>5 DEF RPCInv, ScriptTypes, HostSignalWait, walking, ScheduleResumeExternal
  <2>2. WalkTypes'
    BY <1>1, <1>5 DEF RPCInv, WalkTypes, HostSignalWait, walking, ScheduleResumeExternal
  <2>3. FlagTypes'
    BY <1>1, <1>5 DEF RPCInv, FlagTypes, HostSignalWait, walking, ScheduleResumeExternal
  <2>4. QED
    BY <2>1, <2>2, <2>3
<1>7. client'[c] = "waiting" /\ client[c] # "waiting" /\ \A d \in Clients : d # c => client'[d] = client[d]
  BY <1>1 DEF RPCInv, ScriptTypes, Free
<1>8. \A i \in 1 .. n : s[i].client \in Clients \ {c} /\ client[s[i].client] = "waiting"
  BY <1>1, <1>4, FreeIsUnlisted
<1> HIDE DEF s, n
<1>9. OneWaitEach'
  <2>1. SUFFICES ASSUME NEW i \in 1 .. n + 1, NEW j \in 1 .. n + 1,
                        gSLPTimeouts'[i].client = gSLPTimeouts'[j].client
                 PROVE  i = j
    BY <1>5 DEF OneWaitEach
  <2>2. ASSUME NEW k \in 1 .. n + 1
        PROVE  k = n + 1 \/ (k \in 1 .. n /\ gSLPTimeouts'[k] = s[k] /\ s[k].client # c)
    BY <1>4, <1>5, <1>8
  <2>3. \A k, m \in 1 .. n : s[k].client = s[m].client => k = m
    BY <1>4 DEF RPCInv, OneWaitEach, s
  <2>4. QED
    BY <1>3, <1>5, <2>1, <2>2, <2>3
<1>10. ASSUME NEW i \in DOMAIN gSLPTimeouts' PROVE client'[gSLPTimeouts'[i].client] = "waiting"
  BY <1>3, <1>4, <1>5, <1>7, <1>8
<1>11. ListedWait' /\ WalkInVector' /\ MaySuspend'
  BY <1>1, <1>10 DEF ListedWait, WalkInVector, MaySuspend, Signals
<1>12. NoneForgotten'
  <2>1. SUFFICES ASSUME calm, NEW d \in Clients PROVE (client'[d] = "waiting") <=> Unanswered(d)'
    BY <1>1 DEF NoneForgotten
  <2>2. Answered = {} /\ Answered' = {}
    BY <1>1 DEF Answered, Signals
  <2>3. Unanswered(d)' <=> \E i \in 1 .. n + 1 : gSLPTimeouts'[i].client = d
    BY <1>5, <2>2 DEF Unanswered
  <2>4. (client[d] = "waiting") <=> \E i \in 1 .. n : s[i].client = d
    BY <1>4, <2>1, <2>2 DEF RPCInv, NoneForgotten, Unanswered, s
  <2>5. n + 1 \in 1 .. n + 1 /\ \A i \in 1 .. n : i \in 1 .. n + 1
    BY <1>4
  <2>6. CASE d = c
    BY <1>3, <1>5, <1>7, <2>3, <2>5, <2>6
  <2>7. CASE d # c
    <3>1. \A i \in 1 .. n + 1 : i # n + 1 => i \in 1 .. n
      BY <1>4
    <3>2. QED
      BY <1>3, <1>5, <1>7, <2>3, <2>4, <2>5, <2>7, <3>1
  <2>8. QED
    BY <2>6, <2>7
<1>13. SignalHeard'
  BY <1>1 DEF SignalHeard, Signals
<1>14. QED
  BY <1>6, <1>9, <1>11, <1>12, <1>13 DEF RPCInv

----------------------------------------------------------------------------
(* Steps that take waits out of the vector.                                *)

LEMMA WaitRemoved ==
  ASSUME NEW s \in Seq(Waits), Distinct(s), NEW k \in 1 .. Len(s)
  PROVE  LET r == RemoveAt(s, k)
         IN  /\ r \in Seq(Waits) /\ Len(r) = Len(s) - 1 /\ Distinct(r) /\ Within(r, s)
             /\ Without(r, s, s[k].client)
<1> DEFINE r == RemoveAt(s, k)
           n == Len(s)
<1>1. /\ r \in Seq(Waits) /\ Len(r) = n - 1
      /\ \A i \in 1 .. n - 1 : r[i] = IF i < k THEN s[i] ELSE s[i + 1]
  BY Removed
<1>2. n \in Nat /\ k \in 1 .. n
  BY LenProperties
<1>3. \A i, j \in 1 .. n : s[i].client = s[j].client => i = j
  BY DEF Distinct
<1> HIDE DEF r, n
<1>4. \A i \in 1 .. n - 1 : \E m \in 1 .. n : m # k /\ m = (IF i < k THEN i ELSE i + 1) /\ r[i] = s[m]
  <2>1. SUFFICES ASSUME NEW i \in 1 .. n - 1
                 PROVE  \E m \in 1 .. n : m # k /\ m = (IF i < k THEN i ELSE i + 1) /\ r[i] = s[m]
    OBVIOUS
  <2>2. CASE i < k
    BY <1>1, <1>2, <2>2
  <2>3. CASE ~(i < k)
    BY <1>1, <1>2, <2>3
  <2>4. QED
    BY <2>2, <2>3
<1>5. Distinct(r)
  <2>1. SUFFICES ASSUME NEW i \in 1 .. n - 1, NEW j \in 1 .. n - 1, r[i].client = r[j].client PROVE i = j
    BY <1>1 DEF Distinct
  <2>2. PICK p \in 1 .. n : p = (IF i < k THEN i ELSE i + 1) /\ r[i] = s[p]
    BY <1>4
  <2>3. PICK q \in 1 .. n : q = (IF j < k THEN j ELSE j + 1) /\ r[j] = s[q]
    BY <1>4
  <2>4. p = q
    BY <1>3, <2>1, <2>2, <2>3
  <2>5. QED
    BY <1>2, <2>2, <2>3, <2>4
<1>6. Within(r, s) /\ \A i \in 1 .. n - 1 : r[i].client # s[k].client
  BY <1>1, <1>2, <1>3, <1>4 DEF Within, n
<1>7. ASSUME NEW m \in 1 .. n, m # k PROVE \E i \in 1 .. n - 1 : r[i] = s[m]
  <2>1. CASE m < k
    BY <1>1, <1>2, <2>1
  <2>2. CASE m > k
    <3>1. m - 1 \in 1 .. n - 1 /\ ~(m - 1 < k) /\ (m - 1) + 1 = m
      BY <1>2, <2>2
    <3>2. r[m - 1] = s[m]
      BY <1>1, <3>1
    <3>3. QED
      BY <3>1, <3>2
  <2>3. QED
    BY <1>2, <1>7, <2>1, <2>2
<1>8. Without(r, s, s[k].client)
  BY <1>1, <1>2, <1>6, <1>7 DEF Without, n
<1>9. QED
  BY <1>1, <1>5, <1>6, <1>8 DEF r, n

(* A vector of some of the waits, none of them of c, with c changed.       *)
LEMMA VectorShrinks ==
  ASSUME RPCInv, NEW c \in Clients, NEW x \in {"gone", "ready"},
         gSLPTimeouts' \in Seq(Waits), Distinct(gSLPTimeouts'), Within(gSLPTimeouts', gSLPTimeouts),
         \A i \in 1 .. Len(gSLPTimeouts') : gSLPTimeouts'[i].client # c,
         client' = [client EXCEPT ![c] = x],
         walk' \in {walk, "undefined"}
  PROVE  OneWaitEach' /\ ListedWait'
<1> DEFINE s == gSLPTimeouts
           r == gSLPTimeouts'
<1>1. Len(r) \in Nat /\ DOMAIN r = 1 .. Len(r) /\ DOMAIN s = 1 .. Len(s)
  BY VectorFacts, LenProperties DEF RPCInv
<1>2. OneWaitEach'
  BY <1>1 DEF Distinct, OneWaitEach
<1>3. ASSUME NEW i \in DOMAIN r
      PROVE  \/ client'[r[i].client] = "waiting"
             \/ walk' \in Signals \union {"undefined"} /\ client'[r[i].client] = "signalled"
  <2>1. PICK k \in 1 .. Len(s) : r[i] = s[k]
    BY <1>1, <1>3 DEF Within
  <2>2. r[i].client # c /\ r[i].client \in Clients
    BY <1>1, <1>3, <2>1, VectorFacts DEF RPCInv
  <2>3. client'[r[i].client] = client[s[k].client]
    BY <2>1, <2>2 DEF RPCInv, ScriptTypes
  <2>4. QED
    BY <1>1, <2>3 DEF RPCInv, ListedWait
<1>4. QED
  BY <1>2, <1>3 DEF ListedWait

LEMMA Closes ==
  ASSUME RPCInv, NEW c \in Clients, Close(c), UNCHANGED walk
  PROVE  /\ OneWaitEach' /\ ListedWait'
         /\ client' \in [Clients -> {"gone", "ready", "waiting", "signalled"}]
         /\ gSLPTimeouts' \in Seq(Waits) /\ expired' \in SUBSET Clients
         /\ client'[c] = "gone" /\ \A d \in Clients : d # c => client'[d] = client[d]
<1>1. /\ client' = [client EXCEPT ![c] = "gone"] /\ gSLPTimeouts' = WithoutSocket(c)
      /\ expired' = expired \ {c}
  BY DEF Close
<1>2. /\ gSLPTimeouts' \in Seq(Waits) /\ Distinct(gSLPTimeouts') /\ Within(gSLPTimeouts', gSLPTimeouts)
      /\ Without(gSLPTimeouts', gSLPTimeouts, c)
  BY <1>1, SocketDropped DEF RPCInv
<1>3. OneWaitEach' /\ ListedWait'
  BY <1>1, <1>2, VectorShrinks DEF Without
<1>4. QED
  BY <1>1, <1>2, <1>3 DEF RPCInv, ScriptTypes

LEMMA DisconnectRight ==
  ASSUME RPCInv, NEW c \in Clients, Disconnect(c)
  PROVE  RPCInv'
<1>1. /\ Close(c) /\ UNCHANGED <<walk, iter, due, signalledOne, guest, woken, external>>
      /\ calm' = (calm /\ walk = "none") /\ abandoned' = (abandoned \/ client[c] = "signalled")
  BY DEF Disconnect, Close, walking
<1>2. /\ OneWaitEach' /\ ListedWait'
      /\ client' \in [Clients -> {"gone", "ready", "waiting", "signalled"}]
      /\ gSLPTimeouts' \in Seq(Waits) /\ expired' \in SUBSET Clients
      /\ client'[c] = "gone" /\ \A d \in Clients : d # c => client'[d] = client[d]
  BY <1>1, Closes
<1>3. ScriptTypes' /\ WalkTypes' /\ FlagTypes'
  <2>1. ScriptTypes'
    BY <1>1, <1>2 DEF RPCInv, ScriptTypes
  <2>2. WalkTypes'
    BY <1>1 DEF RPCInv, WalkTypes
  <2>3. FlagTypes'
    BY <1>1 DEF RPCInv, FlagTypes
  <2>4. QED
    BY <2>1, <2>2, <2>3
<1>4. MaySuspend'
  BY <1>1 DEF RPCInv, MaySuspend
<1>5. WalkInVector'
  BY <1>1 DEF WalkInVector, Signals
<1>6. SignalHeard'
  BY <1>1, <1>2 DEF RPCInv, SignalHeard
<1>7. NoneForgotten'
  <2>1. SUFFICES ASSUME calm, walk = "none", NEW d \in Clients
                 PROVE  (client'[d] = "waiting") <=> Unanswered(d)'
    BY <1>1 DEF NoneForgotten
  <2>2. Answered = {} /\ Answered' = {}
    BY <1>1, <2>1 DEF Answered, Signals
  <2>3. DOMAIN gSLPTimeouts = 1 .. Len(gSLPTimeouts) /\ DOMAIN gSLPTimeouts' = 1 .. Len(gSLPTimeouts')
    BY <1>2, LenProperties, VectorFacts DEF RPCInv
  <2>4. /\ \A i \in DOMAIN gSLPTimeouts' : gSLPTimeouts'[i].client # c
        /\ \A i \in DOMAIN gSLPTimeouts' : \E k \in DOMAIN gSLPTimeouts : gSLPTimeouts'[i] = gSLPTimeouts[k]
        /\ \A k \in DOMAIN gSLPTimeouts : gSLPTimeouts[k].client # c =>
             \E i \in DOMAIN gSLPTimeouts' : gSLPTimeouts'[i] = gSLPTimeouts[k]
    <3>1. Within(gSLPTimeouts', gSLPTimeouts) /\ Without(gSLPTimeouts', gSLPTimeouts, c)
      BY <1>1, SocketDropped DEF RPCInv, Close
    <3>2. QED
      BY <2>3, <3>1 DEF Within, Without
  <2>5. CASE d = c
    BY <1>2, <2>4, <2>5 DEF Unanswered
  <2>6. CASE d # c
    <3>1. (client[d] = "waiting") <=> \E i \in DOMAIN gSLPTimeouts : gSLPTimeouts[i].client = d
      BY <2>1, <2>2 DEF RPCInv, NoneForgotten, Unanswered
    <3>2. Unanswered(d)' <=> \E i \in DOMAIN gSLPTimeouts' : gSLPTimeouts'[i].client = d
      BY <2>2 DEF Unanswered
    <3>3. QED
      BY <1>2, <2>4, <2>6, <3>1, <3>2
  <2>7. QED
    BY <2>5, <2>6
<1>8. QED
  BY <1>2, <1>3, <1>4, <1>5, <1>6, <1>7 DEF RPCInv

----------------------------------------------------------------------------
(* The walks.                                                              *)

LEMMA WaiterFacts ==
  ASSUME RPCInv, iter <= Len(gSLPTimeouts)
  PROVE  /\ iter \in 1 .. Len(gSLPTimeouts) /\ iter \in DOMAIN gSLPTimeouts /\ Waiter \in Clients
         /\ iter + 1 \in 1 .. (Cardinality(Clients) + 1)
         /\ iter + 1 \in Nat /\ Len(gSLPTimeouts) \in Nat
         /\ gSLPTimeouts \in Seq(Waits) /\ Distinct(gSLPTimeouts)
         /\ \A i \in DOMAIN gSLPTimeouts : gSLPTimeouts[i].client = Waiter => i = iter
<1>1. /\ iter \in Nat /\ iter >= 1 /\ Len(gSLPTimeouts) \in Nat /\ Cardinality(Clients) \in Nat
      /\ DOMAIN gSLPTimeouts = 1 .. Len(gSLPTimeouts)
      /\ \A i \in 1 .. Len(gSLPTimeouts) : gSLPTimeouts[i].client \in Clients
  BY VectorFacts DEF RPCInv
<1>2. Len(gSLPTimeouts) <= Cardinality(Clients)
  BY VectorBounded DEF RPCInv
<1>3. iter \in 1 .. Len(gSLPTimeouts) /\ iter + 1 \in 1 .. (Cardinality(Clients) + 1)
  BY <1>1, <1>2
<1>4. Distinct(gSLPTimeouts) /\ gSLPTimeouts \in Seq(Waits)
  BY <1>1 DEF RPCInv, OneWaitEach, Distinct, ScriptTypes
<1>5. QED
  BY <1>1, <1>3, <1>4 DEF Waiter, Distinct

LEMMA SignalRight ==
  ASSUME RPCInv, Signal
  PROVE  RPCInv'
<1> DEFINE c == Waiter
<1>1. /\ walk \in Signals /\ iter <= Len(gSLPTimeouts) /\ iter' = iter + 1
      /\ UNCHANGED <<walk, due, guest, woken, external>>
  BY DEF Signal
<1>2. /\ iter \in 1 .. Len(gSLPTimeouts) /\ iter \in DOMAIN gSLPTimeouts /\ c \in Clients
      /\ iter + 1 \in 1 .. (Cardinality(Clients) + 1)
      /\ iter + 1 \in Nat /\ Len(gSLPTimeouts) \in Nat
      /\ \A i \in DOMAIN gSLPTimeouts : gSLPTimeouts[i].client = c => i = iter
  BY <1>1, WaiterFacts
<1>3. gSLPTimeouts[iter].client = c
  BY DEF Waiter
<1> HIDE DEF c
<1>4. WalkTypes' /\ MaySuspend'
  BY <1>1, <1>2 DEF RPCInv, WalkTypes, MaySuspend
<1>5. CASE Sent("signalled") /\ signalledOne' = TRUE
  <2>1. /\ client' = [client EXCEPT ![c] = "signalled"] /\ signalledOne' = TRUE
        /\ UNCHANGED <<gSLPTimeouts, calm, abandoned>> /\ expired' = expired \ {c}
    BY <1>5 DEF Sent, c
  <2>2. client'[c] = "signalled" /\ \A d \in Clients : d # c => client'[d] = client[d]
    BY <1>2, <2>1 DEF RPCInv, ScriptTypes
  <2>3. ScriptTypes'
    BY <1>1, <1>2, <2>1 DEF RPCInv, ScriptTypes
  <2>4. FlagTypes'
    BY <1>1, <2>1 DEF RPCInv, FlagTypes
  <2>5. OneWaitEach'
    BY <2>1 DEF RPCInv, OneWaitEach
  <2>6. ListedWait'
    <3>1. \A i \in DOMAIN gSLPTimeouts : gSLPTimeouts[i].client \in Clients
      BY VectorFacts DEF RPCInv
    <3>2. QED
      BY <1>1, <2>1, <2>2, <3>1 DEF RPCInv, ListedWait
  <2>7. WalkInVector'
    BY <1>1, <1>2, <2>1 DEF WalkInVector
  <2>8. SignalHeard'
    BY <1>2, <2>2 DEF SignalHeard
  <2>9. NoneForgotten'
    <3>1. SUFFICES ASSUME calm, NEW d \in Clients PROVE (client'[d] = "waiting") <=> Unanswered(d)'
      BY <2>1 DEF NoneForgotten
    <3>2. Answered = 1 .. iter - 1 /\ Answered' = 1 .. iter
      <4>1. Answered' = 1 .. iter' - 1
        BY <1>1 DEF Answered
      <4>2. iter' - 1 = iter
        BY <1>1, <1>2
      <4>3. QED
        BY <1>1, <4>1, <4>2 DEF Answered
    <3>3. \A i \in DOMAIN gSLPTimeouts : i \in Answered' <=> i \in Answered \/ i = iter
      BY <1>2, <3>2, VectorFacts DEF RPCInv
    <3>4. (client[d] = "waiting") <=> Unanswered(d)
      BY <3>1 DEF RPCInv, NoneForgotten
    <3>5. CASE d = c
      BY <1>2, <2>1, <2>2, <3>3, <3>5 DEF Unanswered
    <3>6. CASE d # c
      BY <1>3, <2>1, <2>2, <3>3, <3>4, <3>6 DEF Unanswered
    <3>7. QED
      BY <3>5, <3>6
  <2>10. QED
    BY <1>4, <2>3, <2>4, <2>5, <2>6, <2>7, <2>8, <2>9 DEF RPCInv
<1>6. CASE NotSent /\ signalledOne' \in {signalledOne, TRUE}
  <2>1. Close(c) /\ ~calm'
    BY <1>1, <1>6 DEF NotSent, Close, Signals, c
  <2>2. /\ OneWaitEach' /\ ListedWait'
        /\ client' \in [Clients -> {"gone", "ready", "waiting", "signalled"}]
        /\ gSLPTimeouts' \in Seq(Waits) /\ expired' \in SUBSET Clients
    BY <1>1, <1>2, <2>1, Closes
  <2>3. ScriptTypes'
    BY <1>1, <2>2 DEF RPCInv, ScriptTypes
  <2>4. FlagTypes'
    <3>1. calm' \in BOOLEAN /\ abandoned' \in BOOLEAN
      BY <2>1 DEF Close
    <3>2. signalledOne' \in BOOLEAN /\ woken' \in BOOLEAN
      BY <1>1, <1>6 DEF RPCInv, FlagTypes
    <3>3. QED
      BY <3>1, <3>2 DEF FlagTypes
  <2>5. WalkInVector' /\ NoneForgotten' /\ SignalHeard'
    BY <2>1 DEF WalkInVector, NoneForgotten, SignalHeard
  <2>6. QED
    BY <1>4, <2>2, <2>3, <2>4, <2>5 DEF RPCInv
<1>7. QED
  BY <1>5, <1>6 DEF Signal

LEMMA SignalledAllRight ==
  ASSUME RPCInv, SignalledAll
  PROVE  RPCInv'
<1>1. /\ walk \in Signals /\ iter = Len(gSLPTimeouts) + 1 /\ gSLPTimeouts' = <<>>
      /\ walk' = "none" /\ iter' = 1 /\ signalledOne' = FALSE
      /\ external' = IF signalledOne /\ guest # "closed" THEN external + 1 ELSE external
      /\ guest' \in {"dozing", guest}
      /\ UNCHANGED <<client, expired, due, woken, calm, abandoned>>
  BY DEF SignalledAll, EndSignal
<1>2. Len(gSLPTimeouts) \in Nat /\ Cardinality(Clients) \in Nat /\ DOMAIN gSLPTimeouts = 1 .. Len(gSLPTimeouts)
  BY VectorFacts DEF RPCInv
<1>3. DOMAIN gSLPTimeouts' = {}
  BY <1>1
<1>4. ScriptTypes'
  BY <1>1 DEF RPCInv, ScriptTypes
<1>5. WalkTypes'
  <2>1. external' \in 0 .. 1
    BY <1>1 DEF RPCInv, WalkTypes, MaySuspend, Signals
  <2>2. QED
    BY <1>1, <1>2, <2>1 DEF RPCInv, WalkTypes, Walks
<1>6. FlagTypes'
  BY <1>1 DEF RPCInv, FlagTypes
<1>7. OneWaitEach' /\ ListedWait' /\ WalkInVector' /\ MaySuspend'
  BY <1>1, <1>3 DEF OneWaitEach, ListedWait, WalkInVector, MaySuspend, Signals
<1>8. NoneForgotten'
  <2>1. Answered = 1 .. Len(gSLPTimeouts)
    BY <1>1, <1>2 DEF Answered
  <2>2. \A c \in Clients : ~Unanswered(c) /\ ~Unanswered(c)'
    BY <1>2, <1>3, <2>1 DEF Unanswered
  <2>3. QED
    BY <1>1, <2>2 DEF RPCInv, NoneForgotten
<1>9. SignalHeard'
  BY <1>1 DEF RPCInv, SignalHeard, Signals
<1>10. QED
  BY <1>4, <1>5, <1>6, <1>7, <1>8, <1>9 DEF RPCInv

LEMMA TimeOutRight ==
  ASSUME RPCInv, TimeOut
  PROVE  RPCInv'
<1> DEFINE c == Waiter
           s == gSLPTimeouts
<1>1. /\ walk = "timeouts" /\ iter <= Len(s)
      /\ UNCHANGED <<iter, due, signalledOne, guest, woken, external, abandoned>>
      /\ expired' = expired \ {c}
  BY DEF TimeOut
<1>2. /\ iter \in 1 .. Len(s) /\ c \in Clients /\ Len(s) \in Nat
      /\ s \in Seq(Waits) /\ Distinct(s) /\ DOMAIN s = 1 .. Len(s)
      /\ s[iter].client = c /\ \A i \in 1 .. Len(s) : s[i].client = c => i = iter
  BY <1>1, WaiterFacts, VectorFacts DEF RPCInv, Waiter
<1>3. client[c] = "waiting"
  BY <1>1, <1>2 DEF RPCInv, ListedWait, Signals
<1> HIDE DEF c
<1>4. CASE /\ client' = [client EXCEPT ![c] = "ready"]
           /\ gSLPTimeouts' = RemoveAt(s, iter)
           /\ UNCHANGED <<walk, calm, abandoned>>
  <2> DEFINE r == gSLPTimeouts'
  <2>1. /\ r \in Seq(Waits) /\ Len(r) = Len(s) - 1 /\ Distinct(r) /\ Within(r, s)
        /\ Without(r, s, c)
    BY <1>2, <1>4, WaitRemoved
  <2>2. OneWaitEach' /\ ListedWait'
    BY <1>2, <1>4, <2>1, VectorShrinks DEF Without
  <2>3. client'[c] = "ready" /\ \A d \in Clients : d # c => client'[d] = client[d]
    BY <1>2, <1>4 DEF RPCInv, ScriptTypes
  <2>4. ScriptTypes' /\ WalkTypes' /\ FlagTypes'
    <3>1. ScriptTypes'
      BY <1>1, <1>2, <1>4, <2>1 DEF RPCInv, ScriptTypes
    <3>2. WalkTypes'
      BY <1>1, <1>4 DEF RPCInv, WalkTypes
    <3>3. FlagTypes'
      BY <1>1, <1>4 DEF RPCInv, FlagTypes
    <3>4. QED
      BY <3>1, <3>2, <3>3
  <2>5. MaySuspend' /\ WalkInVector'
    BY <1>1, <1>2, <1>4, <2>1 DEF MaySuspend, WalkInVector
  <2>6. SignalHeard'
    BY <1>1, <1>3, <1>4, <2>3 DEF RPCInv, SignalHeard, Signals
  <2>7. NoneForgotten'
    <3>1. SUFFICES ASSUME calm, NEW d \in Clients PROVE (client'[d] = "waiting") <=> Unanswered(d)'
      BY <1>4 DEF NoneForgotten
    <3>2. Answered = {} /\ Answered' = {}
      BY <1>1, <1>4 DEF Answered, Signals
    <3>3. DOMAIN r = 1 .. Len(r)
      BY <2>1, LenProperties
    <3>4. Unanswered(d)' <=> \E i \in 1 .. Len(r) : r[i].client = d
      BY <3>2, <3>3 DEF Unanswered
    <3>5. (client[d] = "waiting") <=> \E i \in 1 .. Len(s) : s[i].client = d
      BY <1>2, <3>1, <3>2 DEF RPCInv, NoneForgotten, Unanswered
    <3> HIDE DEF r, s
    <3>6. CASE d = c
      BY <2>1, <2>3, <3>4, <3>6 DEF Without
    <3>7. CASE d # c
      <4>1. ASSUME NEW i \in 1 .. Len(r), r[i].client = d PROVE \E m \in 1 .. Len(s) : s[m].client = d
        BY <2>1, <4>1 DEF Within
      <4>2. ASSUME NEW m \in 1 .. Len(s), s[m].client = d PROVE \E i \in 1 .. Len(r) : r[i].client = d
        BY <2>1, <3>7, <4>2 DEF Without
      <4>3. QED
        BY <2>3, <3>4, <3>5, <3>7, <4>1, <4>2
    <3>8. QED
      BY <3>6, <3>7
  <2>8. QED
    BY <2>2, <2>4, <2>5, <2>6, <2>7 DEF RPCInv
<1>5. CASE /\ client' = [client EXCEPT ![c] = "gone"] /\ calm' = FALSE
           /\ LET left == WithoutSocket(c)
              IN  IF iter <= Len(left)
                    THEN gSLPTimeouts' = RemoveAt(left, iter) /\ walk' = walk
                    ELSE gSLPTimeouts' = left /\ walk' = "undefined"
  <2> DEFINE left == WithoutSocket(c)
             r == gSLPTimeouts'
  <2>1. /\ left \in Seq(Waits) /\ Len(left) \in Nat /\ Within(left, s) /\ Distinct(left)
        /\ Without(left, s, c)
    BY <1>2, SocketDropped DEF RPCInv
  <2>2. /\ IF iter <= Len(left) THEN r = RemoveAt(left, iter) /\ walk' = walk
                                ELSE r = left /\ walk' = "undefined"
    BY <1>5
  <2> HIDE DEF left, r
  <2>3. r \in Seq(Waits) /\ Distinct(r) /\ Within(r, left)
    <3>1. CASE iter <= Len(left)
      <4>1. iter \in 1 .. Len(left)
        BY <1>2, <2>1, <3>1
      <4>2. QED
        BY <2>1, <2>2, <3>1, <4>1, WaitRemoved
    <3>2. CASE ~(iter <= Len(left))
      BY <2>1, <2>2, <3>2 DEF Within
    <3>3. QED
      BY <3>1, <3>2
  <2>4. Within(r, s) /\ \A i \in 1 .. Len(r) : r[i].client # c
    <3>1. SUFFICES ASSUME NEW i \in 1 .. Len(r)
                   PROVE  r[i].client # c /\ \E k \in 1 .. Len(s) : r[i] = s[k]
      BY DEF Within
    <3>2. PICK m \in 1 .. Len(left) : r[i] = left[m]
      BY <2>3 DEF Within
    <3>3. left[m].client # c /\ \E k \in 1 .. Len(s) : left[m] = s[k]
      BY <2>1 DEF Within, Without
    <3>4. QED
      BY <3>2, <3>3
  <2>5. walk' \in {walk, "undefined"}
    BY <2>2
  <2>6. OneWaitEach' /\ ListedWait'
    BY <1>2, <1>5, <2>3, <2>4, <2>5, VectorShrinks DEF r
  <2>7. ScriptTypes' /\ WalkTypes' /\ FlagTypes'
    <3>1. ScriptTypes'
      BY <1>1, <1>2, <1>5, <2>3 DEF RPCInv, ScriptTypes, r
    <3>2. WalkTypes'
      BY <1>1, <2>5 DEF RPCInv, WalkTypes, Walks
    <3>3. FlagTypes'
      BY <1>1, <1>5 DEF RPCInv, FlagTypes
    <3>4. QED
      BY <3>1, <3>2, <3>3
  <2>8. MaySuspend'
    BY <1>1, <2>5 DEF MaySuspend
  <2>9. WalkInVector' /\ NoneForgotten' /\ SignalHeard'
    BY <1>5 DEF WalkInVector, NoneForgotten, SignalHeard
  <2>10. QED
    BY <2>6, <2>7, <2>8, <2>9 DEF RPCInv
<1>6. QED
  BY <1>4, <1>5 DEF TimeOut, c

LEMMA OtherWalks ==
  ASSUME RPCInv, NotDue \/ TimedOutAll \/ PastTheEnd
  PROVE  RPCInv'
<1>1. /\ UNCHANGED <<client, gSLPTimeouts, expired, signalledOne, guest, woken, external, calm, abandoned>>
      /\ due' \in {due, {}}
      /\ walk \in Signals \union {"timeouts"}
      /\ \/ walk = "timeouts" /\ walk' = walk /\ iter <= Len(gSLPTimeouts) /\ iter' = iter + 1
         \/ walk = "timeouts" /\ walk' = "none" /\ iter' = 1
         \/ walk' = "undefined" /\ iter' = iter /\ iter > Len(gSLPTimeouts) + 1
  BY DEF NotDue, TimedOutAll, PastTheEnd
<1>2. iter \in Nat /\ iter >= 1 /\ Len(gSLPTimeouts) \in Nat /\ Cardinality(Clients) \in Nat
  BY VectorFacts DEF RPCInv
<1>3. iter' \in 1 .. (Cardinality(Clients) + 1)
  BY <1>1, <1>2, WaiterFacts DEF RPCInv, WalkTypes
<1>4. ScriptTypes' /\ WalkTypes' /\ FlagTypes'
  <2>1. ScriptTypes'
    BY <1>1 DEF RPCInv, ScriptTypes
  <2>2. WalkTypes'
    BY <1>1, <1>3 DEF RPCInv, WalkTypes, Walks
  <2>3. FlagTypes'
    BY <1>1 DEF RPCInv, FlagTypes
  <2>4. QED
    BY <2>1, <2>2, <2>3
<1>5. OneWaitEach' /\ ListedWait' /\ MaySuspend'
  BY <1>1 DEF RPCInv, OneWaitEach, ListedWait, MaySuspend, Signals
<1>6. walk' = "undefined" => ~calm
  BY <1>1, <1>2 DEF RPCInv, WalkInVector
<1>7. WalkInVector' /\ SignalHeard'
  BY <1>1, <1>2, <1>6 DEF RPCInv, WalkInVector, SignalHeard, Signals
<1>8. NoneForgotten'
  <2>1. SUFFICES ASSUME calm PROVE NoneForgotten'
    BY <1>1 DEF NoneForgotten
  <2>2. Answered = {} /\ Answered' = {}
    BY <1>1, <1>6, <2>1 DEF Answered, Signals
  <2>3. QED
    BY <1>1, <2>2 DEF RPCInv, NoneForgotten, Unanswered
<1>9. QED
  BY <1>4, <1>5, <1>7, <1>8 DEF RPCInv

LEMMA RPCInvariant == Spec => []RPCInv
<1>1. RPCInv /\ [Next]_vars => RPCInv'
  BY GuestSteps, WalkBegins, ConnectRight, DisconnectRight, WaitRight, ResumeRight,
     SignalRight, SignalledAllRight, TimeOutRight, OtherWalks
  DEF Next, Calls, Walking
<1>2. QED
  BY <1>1, InitRight, PTL DEF Spec

----------------------------------------------------------------------------

(* RPC, SLP and CTCPSocket keep the types; a walk stays within the vector  *)
(* and one place past it, also when waits are taken out during the walk,   *)
(* and a script's signal never adds up with another's.                     *)
THEOREM RPCIsTyped == Spec => []TypeOK
BY RPCInvariant, TypeParts, PTL DEF RPCInv

(* A script that waits has exactly one wait that is still to be answered,  *)
(* and no other script has one, while no connection is lost during a walk: *)
(* SignalWaiters and Idle forget nobody and answer nobody twice.           *)
THEOREM NobodyIsForgotten == Spec => []WaitersAreListed
<1>1. ASSUME RPCInv PROVE WaitersAreListed
  <2>1. SUFFICES ASSUME calm, NEW c \in Clients
                 PROVE  Cardinality({i \in DOMAIN gSLPTimeouts \ Answered : gSLPTimeouts[i].client = c})
                          = IF client[c] = "waiting" THEN 1 ELSE 0
    BY DEF WaitersAreListed
  <2> DEFINE places == {i \in DOMAIN gSLPTimeouts \ Answered : gSLPTimeouts[i].client = c}
  <2>2. (client[c] = "waiting") <=> places # {}
    BY <1>1, <2>1 DEF RPCInv, NoneForgotten, Unanswered
  <2>3. \A i, j \in places : i = j
    BY <1>1 DEF RPCInv, OneWaitEach
  <2> HIDE DEF places
  <2>4. CASE places = {}
    BY <2>2, <2>4, FS_EmptySet DEF places
  <2>5. CASE places # {}
    <3>1. \E i : places = {i}
      BY <2>3, <2>5
    <3>2. Cardinality(places) = 1
      BY <3>1, FS_Singleton
    <3>3. QED
      BY <2>2, <2>5, <3>2 DEF places
  <2>6. QED
    BY <2>4, <2>5
<1>2. QED
  BY <1>1, RPCInvariant, PTL

(* No wait is left with a socket that was closed, whichever thread closed  *)
(* it and at whatever place of a walk (RPC::EventCallback).                *)
THEOREM NoSocketDangles == Spec => []NoDanglingSocket
<1>1. RPCInv => NoDanglingSocket
  BY DEF RPCInv, ListedWait, NoDanglingSocket
<1>2. QED
  BY <1>1, RPCInvariant, PTL

(* HostSignalSend and the idle guest are suspended because a script was    *)
(* signalled, which has not called back and has not just gone away.        *)
THEOREM SuspensionHasItsScript == Spec => []SuspendedForAScript
<1>1. RPCInv => SuspendedForAScript
  BY DEF RPCInv, SignalHeard, SuspendedForAScript
<1>2. QED
  BY <1>1, RPCInvariant, PTL
=============================================================================
