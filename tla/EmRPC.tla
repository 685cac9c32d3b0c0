-------------------------------- MODULE EmRPC --------------------------------
(***************************************************************************)
(* Signals: a script connected to the RPC port calls HostSignalWait and    *)
(* gets no reply until the guest is idle, an application in it sends a     *)
(* signal, or a timeout passes.  The guest is suspended after a signal,    *)
(* until a script calls HostSignalResume or waits again.                   *)
(*                                                                         *)
(* The waits are in a vector.  The CPU thread walks it to signal, the UI   *)
(* thread to time waits out, both with gMutex held; a connection found     *)
(* closed takes its waits out of the vector without gMutex, also from      *)
(* within the walk that wrote to it.  The module holds RPC, the parts of   *)
(* SLP and CTCPSocket under it, and the host functions for signals.        *)
(***************************************************************************)
EXTENDS Integers, SequencesExt, FiniteSets, SequenceFolds

CONSTANT Clients  \* scripts, each with at most one call under way

ASSUME ClientsAssumption == IsFiniteSet(Clients)

VARIABLES
  client,        \* a script: "gone", "ready", "waiting", or "signalled" and at work
  gSLPTimeouts,  \* the waits: whose, and whether for ever
  expired,       \* clients whose timeout has passed
  walk,          \* who holds gMutex and walks gSLPTimeouts
  iter,          \* where the walk is
  due,           \* what `now' tells the walk of RPC::Idle
  signalledOne,  \* of SignalWaiters
  guest,         \* the guest: "awake", "dozing" in EvtGetEvent, or "closed"
  woken,         \* EvtWakeup was called
  external,      \* fSuspendByExternal
  calm,          \* no connection was found closed during a walk
  abandoned      \* a signalled script closed its connection

walking == <<walk, iter, due, signalledOne>>
vars == <<client, gSLPTimeouts, expired, walking, guest, woken, external, calm, abandoned>>

\* "idle": SysEvGroupWait.  "send": HostSignalSend.  "quit": Shutdown.
Signals == {"idle", "send", "quit"}
OnCPUThread == walk \in {"idle", "send"}

\* "undefined": the walk has run past the end of the vector.
Walks == Signals \union {"none", "timeouts", "undefined"}

Wait(c) == [client : {c}, forever : BOOLEAN]
Waits == UNION {Wait(c) : c \in Clients}
Listed(c) == \E i \in DOMAIN gSLPTimeouts : gSLPTimeouts[i].client = c
\* Mutant: a closed connection leaves its waits behind.
WithClosedSocket(c) == gSLPTimeouts

WithoutSocket(c) == Only(gSLPTimeouts, {w \in Waits : w.client # c})

Init ==
  /\ client = [c \in Clients |-> "gone"]
  /\ gSLPTimeouts = <<>>
  /\ expired = {}
  /\ walk = "none" /\ iter = 1 /\ due = {} /\ signalledOne = FALSE
  /\ guest = "awake" /\ woken = FALSE /\ external = 0
  /\ calm = TRUE /\ abandoned = FALSE

-----------------------------------------------------------------------------
(* Connections, served by the UI thread when it is idle. *)

UIThreadIsFree == walk \notin {"timeouts", "quit", "undefined"}

Connect(c) ==
  /\ UIThreadIsFree /\ guest # "closed" /\ client[c] = "gone"
  /\ client' = [client EXCEPT ![c] = "ready"]
  /\ UNCHANGED <<gSLPTimeouts, expired, walking, guest, woken, external, calm, abandoned>>

\* CTCPSocket::Close and EventCallback, on whichever thread.
Close(c) ==
  /\ client' = [client EXCEPT ![c] = "gone"]
  /\ gSLPTimeouts' = WithoutSocket(c)
  /\ expired' = expired \ {c}
  /\ calm' = (calm /\ walk = "none")
  /\ abandoned' = (abandoned \/ client[c] = "signalled")

\* IdleAll finds the connection closed; the CPU thread may be in a walk.
Disconnect(c) ==
  /\ UIThreadIsFree /\ guest # "closed" /\ client[c] # "gone"
  /\ Close(c)
  /\ UNCHANGED <<walking, guest, woken, external>>

-----------------------------------------------------------------------------
(* Calls of the host functions by packets, for which the session is stopped *)
(* at a system call: the CPU thread is in no walk.                          *)

Free(c) == client[c] \in {"ready", "signalled"}

\* Mutant: the counter goes below zero, and stays there.
ResumeBelowZero == external' = external - 1 /\ abandoned' = FALSE

\* The call is nested: what it takes from the counter is taken from the
\* counter it was saved with, if anything is left there.
ScheduleResumeExternal == external' = 0 /\ abandoned' = FALSE

\* Mutant: the guest is not woken up.
WaitInVain(c) ==
  /\ walk = "none" /\ guest # "closed" /\ Free(c)
  /\ ScheduleResumeExternal
  /\ \E w \in Wait(c) : gSLPTimeouts' = Append(gSLPTimeouts, w)
  /\ client' = [client EXCEPT ![c] = "waiting"]
  /\ UNCHANGED <<expired, walking, guest, woken, calm>>

HostSignalWait(c) ==
  /\ walk = "none" /\ guest # "closed" /\ Free(c)
  /\ ScheduleResumeExternal
  /\ \E w \in Wait(c) : gSLPTimeouts' = Append(gSLPTimeouts, w)
  /\ client' = [client EXCEPT ![c] = "waiting"]
  /\ woken' = TRUE
  /\ UNCHANGED <<expired, walking, guest, calm>>

HostSignalResume(c) ==
  /\ walk = "none" /\ guest # "closed" /\ Free(c)
  /\ ScheduleResumeExternal
  /\ client' = [client EXCEPT ![c] = "ready"]
  /\ UNCHANGED <<gSLPTimeouts, expired, walking, guest, woken, calm>>

-----------------------------------------------------------------------------
(* SendPacket, of the wait at iter.  Write finds the connection closed     *)
(* before it sends, and says nothing of it, or when it sends, an error.    *)

Waiter == gSLPTimeouts[iter].client

Sent(answer) ==
  /\ client' = [client EXCEPT ![Waiter] = answer]
  /\ UNCHANGED <<gSLPTimeouts, calm, abandoned>>
  /\ expired' = expired \ {Waiter}

NotSent == Close(Waiter)

-----------------------------------------------------------------------------
(* RPC::SignalWaiters. *)

Start(who) == walk' = who /\ iter' = 1 /\ signalledOne' = FALSE

SignalWaiters ==
  /\ walk = "none" /\ guest = "awake" /\ external = 0
  /\ \E signal \in {"idle", "send"} : Start(signal)
  /\ UNCHANGED <<client, gSLPTimeouts, expired, due, guest, woken, external, calm, abandoned>>

\* EmApplication::Shutdown, with the session gone.
SignalQuit ==
  /\ walk = "none" /\ guest # "closed"
  /\ Start("quit")
  /\ guest' = "closed"
  /\ UNCHANGED <<client, gSLPTimeouts, expired, due, woken, external, calm, abandoned>>

Signal ==
  /\ walk \in Signals /\ iter <= Len(gSLPTimeouts)
  /\ iter' = iter + 1
  /\ \/ Sent("signalled") /\ signalledOne' = TRUE
     \/ NotSent /\ signalledOne' \in {signalledOne, TRUE}
  /\ UNCHANGED <<walk, due, guest, woken, external>>

\* gSLPTimeouts.clear, and the suspension.  The guest goes on to wait for an
\* event, which is there if it was woken up.
EndSignal(last, suspends) ==
  /\ walk \in Signals /\ iter = last
  /\ gSLPTimeouts' = <<>>
  /\ walk' = "none" /\ iter' = 1 /\ signalledOne' = FALSE
  /\ external' = IF suspends /\ guest # "closed" THEN external + 1 ELSE external
  /\ guest' = IF walk = "idle" THEN "dozing" ELSE guest
  /\ UNCHANGED <<client, expired, due, woken, calm, abandoned>>

\* Mutant: the guest is suspended for nobody.
SignalledNobody == EndSignal(Len(gSLPTimeouts) + 1, TRUE)

SignalledAll == EndSignal(Len(gSLPTimeouts) + 1, signalledOne)

-----------------------------------------------------------------------------
(* RPC::Idle. *)

TimePasses(c) ==
  /\ \E i \in DOMAIN gSLPTimeouts : gSLPTimeouts[i] = [client |-> c, forever |-> FALSE]
  /\ expired' = expired \union {c}
  /\ UNCHANGED <<client, gSLPTimeouts, walking, guest, woken, external, calm, abandoned>>

\* Mutant: waits are timed only while the guest is awake.
IdleOfAwakeGuest ==
  /\ walk = "none" /\ guest = "awake"
  /\ Start("timeouts")
  /\ due' = expired
  /\ UNCHANGED <<client, gSLPTimeouts, expired, guest, woken, external, calm, abandoned>>

Idle ==
  /\ walk = "none" /\ guest # "closed"
  /\ Start("timeouts")
  /\ due' = expired
  /\ UNCHANGED <<client, gSLPTimeouts, expired, guest, woken, external, calm, abandoned>>

NotDue ==
  /\ walk = "timeouts" /\ iter <= Len(gSLPTimeouts) /\ Waiter \notin due
  /\ iter' = iter + 1
  /\ UNCHANGED <<client, gSLPTimeouts, expired, walk, due, signalledOne, guest, woken, external,
                 calm, abandoned>>

\* Mutant: what was answered stays in the vector.
TimeOutAndKeep ==
  /\ walk = "timeouts" /\ iter <= Len(gSLPTimeouts) /\ Waiter \in due
  /\ iter' = iter + 1
  /\ client' = [client EXCEPT ![Waiter] = "ready"]
  /\ expired' = expired \ {Waiter}
  /\ UNCHANGED <<gSLPTimeouts, walk, due, signalledOne, guest, woken, external, calm, abandoned>>

\* The reply is sent, then whatever is at iter is erased.
TimeOut ==
  /\ walk = "timeouts" /\ iter <= Len(gSLPTimeouts) /\ Waiter \in due
  /\ \/ /\ client' = [client EXCEPT ![Waiter] = "ready"]
        /\ gSLPTimeouts' = RemoveAt(gSLPTimeouts, iter)
        /\ expired' = expired \ {Waiter}
        /\ UNCHANGED <<walk, calm, abandoned>>
     \/ LET left == WithoutSocket(Waiter) IN
        /\ client' = [client EXCEPT ![Waiter] = "gone"]
        /\ expired' = expired \ {Waiter}
        /\ IF iter <= Len(left)
             THEN gSLPTimeouts' = RemoveAt(left, iter) /\ walk' = walk
             ELSE gSLPTimeouts' = left /\ walk' = "undefined"
        /\ calm' = FALSE
        /\ UNCHANGED abandoned
  /\ UNCHANGED <<iter, due, signalledOne, guest, woken, external>>

TimedOutAll ==
  /\ walk = "timeouts" /\ iter = Len(gSLPTimeouts) + 1
  /\ walk' = "none" /\ iter' = 1 /\ due' = {}
  /\ UNCHANGED <<client, gSLPTimeouts, expired, signalledOne, guest, woken, external, calm,
                 abandoned>>

\* iter is past the end of the vector: there is no saying what comes next.
PastTheEnd ==
  /\ walk \in Signals \union {"timeouts"} /\ iter > Len(gSLPTimeouts) + 1
  /\ walk' = "undefined"
  /\ UNCHANGED <<client, gSLPTimeouts, expired, iter, due, signalledOne, guest, woken, external,
                 calm, abandoned>>

-----------------------------------------------------------------------------
(* The guest. *)

CanDoze == walk # "undefined" /\ guest = "dozing" /\ external = 0

GuestIsWoken ==
  /\ CanDoze /\ woken
  /\ guest' = "awake" /\ woken' = FALSE
  /\ UNCHANGED <<client, gSLPTimeouts, expired, walking, external, calm, abandoned>>

GuestGetsEvent ==
  /\ CanDoze
  /\ guest' = "awake"
  /\ UNCHANGED <<client, gSLPTimeouts, expired, walking, woken, external, calm, abandoned>>

-----------------------------------------------------------------------------
Calls ==
  \E c \in Clients : Connect(c) \/ Disconnect(c) \/ HostSignalWait(c) \/ HostSignalResume(c)

Walking == Signal \/ SignalledAll \/ NotDue \/ TimeOut \/ TimedOutAll \/ PastTheEnd

Next ==
  \/ Calls \/ Walking \/ SignalWaiters \/ SignalQuit \/ Idle
  \/ \E c \in Clients : TimePasses(c)
  \/ GuestIsWoken \/ GuestGetsEvent

Spec == Init /\ [][Next]_vars

\* The UI thread idles, threads go on in a walk, time passes.  Nothing is
\* said of the guest, which may be stopped, and of scripts.
FairSpec ==
  /\ Spec
  /\ WF_vars(Walking)
  /\ SF_vars(Idle)
  /\ \A c \in Clients : WF_vars(TimePasses(c))

-----------------------------------------------------------------------------
TypeOK ==
  /\ client \in [Clients -> {"gone", "ready", "waiting", "signalled"}]
  /\ gSLPTimeouts \in Seq(Waits)
  /\ expired \in SUBSET Clients /\ due \in SUBSET Clients
  /\ walk \in Walks /\ iter \in 1..(Cardinality(Clients) + 1)
  /\ signalledOne \in BOOLEAN
  /\ guest \in {"awake", "dozing", "closed"} /\ woken \in BOOLEAN
  /\ external \in 0..1
  /\ calm \in BOOLEAN /\ abandoned \in BOOLEAN

Answered == IF walk \in Signals THEN 1..(iter - 1) ELSE {}

\* A script that waits has one wait in the vector that is still to be
\* answered, and only such scripts have one: none is forgotten and none gets
\* two answers, by a signal and by its timeout say.  It holds as long as no
\* connection is found closed during a walk.
WaitersAreListed ==
  calm => \A c \in Clients :
            Cardinality({i \in DOMAIN gSLPTimeouts \ Answered : gSLPTimeouts[i].client = c})
              = (IF client[c] = "waiting" THEN 1 ELSE 0)

\* The waits hold pointers to the sockets of their scripts.  No wait is left
\* with a socket that was closed, which CSocket::DeletePending frees, also
\* when the connection is lost in the middle of a walk.
NoDanglingSocket ==
  \A i \in DOMAIN gSLPTimeouts : client[gSLPTimeouts[i].client] # "gone"

\* The guest is suspended because a script that was signalled is at work, or
\* went away without a word; never with every script still waiting or ready,
\* when nothing would resume it.
SuspendedForAScript ==
  calm /\ external > 0 => abandoned \/ \E c \in Clients : client[c] = "signalled"

\* A wait with a timeout ends, however long the guest is away.
TimedWaitsEnd ==
  \A c \in Clients :
    (\E i \in DOMAIN gSLPTimeouts : gSLPTimeouts[i] = [client |-> c, forever |-> FALSE])
      ~> (client[c] # "waiting" \/ ~calm)

\* If the guest, unless suspended, always comes back to wait for an event once
\* it is woken up, every wait ends, also one for ever that began while the
\* guest was dozing: HostSignalWait resumes it and wakes it up.
GuestComesBack == WF_vars(GuestIsWoken) /\ SF_vars(SignalWaiters)
WaitsEnd ==
  GuestComesBack => \A c \in Clients : client[c] = "waiting" ~> (client[c] # "waiting" \/ ~calm)

\* The wait of c goes out of the vector although c still waits: it was not
\* answered, and its connection is not closed.
Forgotten(c) == Listed(c) /\ ~Listed(c)' /\ client'[c] = "waiting"

\* "If we had anything on that socket waiting for us to signal it, forget
\* about it" (EmRPC.cpp:399), said of a disconnection, which SendPacket may
\* meet: SignalWaiters forgets no wait on another socket for that.
SignalForgetsNobody == [][\A c \in Clients : walk \in Signals => ~Forgotten(c)]_vars
=============================================================================
