-------------------------- MODULE EmSessionProofs --------------------------
(***************************************************************************)
(* Proofs about the session, for every bound.  With any Features: its type *)
(* invariant, with the shape of the stacks that it needs, and that the     *)
(* answer to a dialog reaches whoever asked.  With Calm ones: that a stop  *)
(* in force excludes the guest, and that the assertions of the code hold.  *)
(***************************************************************************)
EXTENDS EmSessionProperties, FiniteSetTheorems, SequenceTheorems, TLAPS

(* What Front and Last are of a sequence that has elements.                *)
LEMMA FrontLast ==
  ASSUME NEW S, NEW s \in Seq(S), s # <<>>
  PROVE  /\ Front(s) \in Seq(S)
         /\ Len(Front(s)) = Len(s) - 1
         /\ \A i \in 1 .. Len(s) - 1 : Front(s)[i] = s[i]
         /\ Last(s) \in S
         /\ Last(s) = s[Len(s)]
         /\ Len(s) \in Nat \ {0}
<1> DEFINE n == Len(s) - 1
<1>1. Len(s) \in Nat \ {0} /\ \A i \in 1 .. Len(s) : s[i] \in S
  BY EmptySeq, LenProperties, ElementOfSeq
<1>2. n \in Int /\ 1 \in Int /\ \A i \in 1 .. n : s[i] \in S
  BY <1>1
<1>3. Len(s) = n + 1
  BY <1>1
<1> HIDE DEF n
<1>4. /\ SubSeq(s, 1, n) \in Seq(S)
      /\ Len(SubSeq(s, 1, n)) = IF 1 <= n THEN n - 1 + 1 ELSE 0
      /\ \A i \in 1 .. n - 1 + 1 : SubSeq(s, 1, n)[i] = s[1 + i - 1]
  BY <1>2, SubSeqProperties
<1>5. /\ Len(SubSeq(s, 1, n)) = n
      /\ \A i \in 1 .. n : SubSeq(s, 1, n)[i] = s[i]
  BY <1>1, <1>2, <1>3, <1>4
<1>6. Front(s) = SubSeq(s, 1, n)
  BY DEF Front, n
<1>7. Last(s) \in S /\ Last(s) = s[Len(s)]
  BY <1>1 DEF Last
<1>8. QED
  BY <1>1, <1>3, <1>4, <1>5, <1>6, <1>7 DEF n

(* Adding an element to a sequence.                                        *)
LEMMA AddLast ==
  ASSUME NEW S, NEW s \in Seq(S), NEW x \in S
  PROVE  LET r == Append(s, x)
         IN  /\ r \in Seq(S)
             /\ r # <<>>
             /\ Len(s) \in Nat
             /\ Len(r) = Len(s) + 1
             /\ r[Len(s) + 1] = x
             /\ \A i \in 1 .. Len(s) : r[i] = s[i]
             /\ DOMAIN s = 1 .. Len(s) /\ DOMAIN r = 1 .. Len(s) + 1
BY AppendProperties

(* Replacing the last element of a sequence.                               *)
LEMMA ReplaceLast ==
  ASSUME NEW S, NEW s \in Seq(S), s # <<>>, NEW x \in S
  PROVE  LET r == Append(Front(s), x)
         IN  /\ r \in Seq(S)
             /\ r # <<>>
             /\ Len(r) = Len(s)
             /\ r[Len(s)] = x
             /\ \A i \in 1 .. Len(s) - 1 : r[i] = s[i]
<1>1. QED
  BY FrontLast, AppendProperties

----------------------------------------------------------------------------
(* Type correctness.                                                       *)

(* SignalSend changes two counters at once.                                *)
LEMMA SignalCounted ==
  ASSUME NEW c \in Counters
  PROVE  [c EXCEPT !.ext = @ + 1, !.sys = 1] \in Counters
<1>1. [c EXCEPT !.ext = @ + 1] \in Counters
  BY DEF Counters
<1>2. QED
  BY <1>1 DEF Counters

TypeInv == TypeOK /\ StackShape

LEMMA TypeInit == Init => TypeInv
<1> SUFFICES ASSUME Init PROVE TypeInv
  OBVIOUS
<1>1. NoCounters \in Counters
  BY DEF NoCounters, Counters
<1>2. calls \in [Threads -> Seq(Frames)] /\ stoppers \in Seq(Stoppers)
  BY EmptySeq DEF Init
<1>3. /\ pc \in [Threads -> CPULabels \cup UILabels]
      /\ pc["cpu"] = "run" /\ pc["ui"] = "idle"
      /\ pc["cpu"] \in CPULabels /\ pc["ui"] \in UILabels
  BY DEF Init, Threads, CPULabels, UILabels
<1>4. thrown \in [Threads -> Exceptions]
  BY DEF Init, Exceptions
<1>5. TypeOK
  BY <1>1, <1>2, <1>3, <1>4 DEF Init, TypeOK, States, Dialogs, Answers
<1>6. calls["cpu"] = <<>> /\ calls["ui"] = <<>>
  BY DEF Init, Threads
<1>7. StackShape
  BY <1>3, <1>6 DEF StackShape, StackKinds, StackLabels
<1>8. QED
  BY <1>5, <1>7 DEF TypeInv

(* The CPU thread outside its loops, and at a system call.                 *)
LEMMA TypeRun ==
  ASSUME TypeOK, StackShape,
         RunSuspend \/ RunStop \/ Catch \/ SuspendSysCall \/ IgnoreSysCall
  PROVE  TypeInv'
<1>0. fSuspend \in Counters /\ snapshot \in Counters
  BY DEF TypeOK
<1>1. CASE RunSuspend
  <2>1. /\ fState' = fState \/ fState' = "kSuspended"
        /\ pc' = [pc EXCEPT !["cpu"] = "inner"]
        /\ waiting' = {"cpu"}
        /\ UNCHANGED <<fStop, fSuspend, fBreakOnSysCall, fNestLevel, stack, flags,
           stoppers, dialog, guest>>
    BY <1>1 DEF RunSuspend, Goto, BroadcastAndWait
  <2>2. TypeOK'
    BY <2>1 DEF TypeOK, Threads, CPULabels, UILabels, States, flow, state, stack,
       flags, dialog, guest
  <2>3. StackShape'
    BY <2>1 DEF TypeOK, StackShape, StackKinds, StackLabels, Threads, CPULabels,
       UILabels, stack, dialog, flow
  <2>4. QED
    BY <2>2, <2>3 DEF TypeInv
<1>2. CASE RunStop
  <2>1. /\ fState' = "kStopped"
        /\ pc' = [pc EXCEPT !["cpu"] = "stopped"]
        /\ waiting' = {}
        /\ UNCHANGED <<fStop, fSuspend, fBreakOnSysCall, fNestLevel, stack, flags,
           stoppers, dialog, guest>>
    BY <1>2 DEF RunStop, Goto, Broadcast
  <2>2. TypeOK'
    BY <2>1 DEF TypeOK, Threads, CPULabels, UILabels, States, flow, state, stack,
       flags, dialog, guest
  <2>3. StackShape'
    BY <2>1 DEF TypeOK, StackShape, StackKinds, StackLabels, Threads, CPULabels,
       UILabels, stack, dialog, flow
  <2>4. QED
    BY <2>2, <2>3 DEF TypeInv
<1>3. CASE Catch
  <2>1. /\ thrown' = [thrown EXCEPT !["cpu"] = "none"]
        /\ \/ pc' = [pc EXCEPT !["cpu"] = "asking"] /\ asking' = "display"
           \/ pc' = [pc EXCEPT !["cpu"] = "reset"] /\ asking' = asking
           \/ pc' = [pc EXCEPT !["cpu"] = "run"] /\ asking' = asking
        /\ UNCHANGED <<waiting, state, fSuspend, fBreakOnSysCall, calls, flags,
           stoppers, queued, result, gDocument, guest>>
    BY <1>3 DEF Catch, Goto
  <2>2. TypeOK'
    BY <2>1 DEF TypeOK, Threads, CPULabels, UILabels, Dialogs, Exceptions, flow,
       state, stack, flags, dialog, guest
  <2>3. StackShape'
    BY <2>1 DEF TypeOK, StackShape, StackKinds, StackLabels, Threads, CPULabels,
       UILabels, stack, dialog, flow
  <2>4. QED
    BY <2>2, <2>3 DEF TypeInv
<1>4. CASE SuspendSysCall
  <2>1. /\ fSuspend' = [fSuspend EXCEPT !.sys = 1]
        /\ endOfCycle' \in BOOLEAN /\ atSysCall' \in BOOLEAN
        /\ pc["cpu"] = "sysCall"
        /\ pc' = [pc EXCEPT !["cpu"] = "exec"]
        /\ UNCHANGED <<waiting, state, fBreakOnSysCall, stack, fReset, stoppers,
           dialog, snapshot>>
    BY <1>4 DEF SuspendSysCall, Schedule, Goto
  <2>2. fSuspend' \in Counters
    BY <1>0, <2>1 DEF Counters
  <2>3. TypeOK'
    BY <2>1, <2>2 DEF TypeOK, Threads, CPULabels, UILabels, flow, state, stack,
       flags, dialog, guest
  <2>4. StackShape'
    BY <2>1 DEF TypeOK, StackShape, StackKinds, StackLabels, Threads, CPULabels,
       UILabels, stack, dialog, flow
  <2>5. QED
    BY <2>3, <2>4 DEF TypeInv
<1>5. CASE IgnoreSysCall
  <2>1. /\ pc["cpu"] = "sysCall"
        /\ pc' = [pc EXCEPT !["cpu"] = "exec"]
        /\ UNCHANGED <<waiting, state, fSuspend, fBreakOnSysCall, stack, flags,
           stoppers, dialog, guest>>
    BY <1>5 DEF IgnoreSysCall, Goto
  <2>2. TypeOK'
    BY <2>1 DEF TypeOK, Threads, CPULabels, UILabels, flow, state, stack, flags,
       dialog, guest
  <2>3. StackShape'
    BY <2>1 DEF TypeOK, StackShape, StackKinds, StackLabels, Threads, CPULabels,
       UILabels, stack, dialog, flow
  <2>4. QED
    BY <2>2, <2>3 DEF TypeInv
<1>6. QED
  BY <1>1, <1>2, <1>3, <1>4, <1>5

(* The CPU thread around its dialogs.                                       *)
LEMMA TypeDialog ==
  ASSUME TypeOK, StackShape,
         NeedDialog \/ DeferredError \/ BlockOnDialog \/ Crash
         \/ StillBlocked \/ Unblock \/ DebugButton
  PROVE  TypeInv'
<1>0. fSuspend \in Counters /\ snapshot \in Counters
  BY DEF TypeOK
<1>1. CASE NeedDialog
  <2>1. /\ \/ asking' = "host" /\ pc' = [pc EXCEPT !["cpu"] = "asking"]
           \/ asking' = "error" /\ pc' = [pc EXCEPT !["cpu"] = "asking"]
           \/ asking' = "error" /\ pc' = [pc EXCEPT !["cpu"] = "debug"]
        /\ pc["cpu"] = "exec"
        /\ atSysCall' \in BOOLEAN
        /\ UNCHANGED <<waiting, state, fSuspend, fBreakOnSysCall, stack, flags,
           stoppers, queued, result, gDocument, snapshot>>
    BY <1>1 DEF TypeOK, NeedDialog, GuestStep, CanStep, Executing, Goto
  <2>2. TypeOK'
    BY <2>1 DEF TypeOK, Threads, CPULabels, UILabels, Dialogs, flow, state, stack,
       flags, dialog, guest
  <2>3. StackShape'
    BY <2>1 DEF TypeOK, StackShape, StackKinds, StackLabels, Threads, CPULabels,
       UILabels, stack, dialog, flow
  <2>4. QED
    BY <2>2, <2>3 DEF TypeInv
<1>2. CASE DeferredError
  <2>1. /\ endOfCycle' \in BOOLEAN
        /\ asking' = "error"
        /\ pc["cpu"] = "exec"
        /\ pc' = [pc EXCEPT !["cpu"] = "asking"]
        /\ atSysCall' \in BOOLEAN
        /\ UNCHANGED <<waiting, state, fSuspend, fBreakOnSysCall, stack, fReset,
           stoppers, queued, result, gDocument, snapshot>>
    BY <1>2 DEF TypeOK, DeferredError, Executing, Goto
  <2>2. TypeOK'
    BY <2>1 DEF TypeOK, Threads, CPULabels, UILabels, Dialogs, flow, state, stack,
       flags, dialog, guest
  <2>3. StackShape'
    BY <2>1 DEF TypeOK, StackShape, StackKinds, StackLabels, Threads, CPULabels,
       UILabels, stack, dialog, flow
  <2>4. QED
    BY <2>2, <2>3 DEF TypeInv
<1>3. CASE BlockOnDialog
  <2>1. /\ queued' \in BOOLEAN
        /\ result' = "none"
        /\ fState' = "kBlockedOnUI"
        /\ pc["cpu"] = "asking"
        /\ pc' = [pc EXCEPT !["cpu"] = "blocked"]
        /\ waiting' = {"cpu"}
        /\ UNCHANGED <<fStop, fNestLevel, fSuspend, fBreakOnSysCall, stack, flags,
           stoppers, asking, gDocument, guest>>
    BY <1>3 DEF BlockOnDialog, BroadcastAndWait, Goto
  <2>2. TypeOK'
    BY <2>1 DEF TypeOK, Threads, CPULabels, UILabels, States, flow, state, stack,
       flags, dialog, guest
  <2>3. StackShape'
    BY <2>1 DEF TypeOK, StackShape, StackKinds, StackLabels, Threads, CPULabels,
       UILabels, stack, dialog, flow
  <2>4. QED
    BY <2>2, <2>3 DEF TypeInv
<1>4. CASE Crash
  <2>1. /\ pc' = [pc EXCEPT !["cpu"] = "crashed"]
        /\ UNCHANGED <<waiting, state, fSuspend, fBreakOnSysCall, stack, flags,
           stoppers, dialog, guest>>
    BY <1>4 DEF Crash, Goto
  <2>2. TypeOK'
    BY <2>1 DEF TypeOK, Threads, CPULabels, UILabels, flow, state, stack, flags,
       dialog, guest
  <2>3. StackShape'
    BY <2>1 DEF TypeOK, StackShape, StackKinds, StackLabels, Threads, CPULabels,
       UILabels, stack, dialog, flow
  <2>4. QED
    BY <2>2, <2>3 DEF TypeInv
<1>5. CASE StillBlocked
  <2>1. /\ waiting' = waiting \cup {"cpu"}
        /\ UNCHANGED <<pc, state, fSuspend, fBreakOnSysCall, stack, flags, stoppers,
           dialog, guest>>
    BY <1>5 DEF StillBlocked
  <2>2. TypeOK'
    BY <2>1 DEF TypeOK, Threads, CPULabels, UILabels, flow, state, stack, flags,
       dialog, guest
  <2>3. StackShape'
    BY <2>1 DEF TypeOK, StackShape, StackKinds, StackLabels, Threads, CPULabels,
       UILabels, stack, dialog, flow
  <2>4. QED
    BY <2>2, <2>3 DEF TypeInv
<1>6. CASE Unblock
  <2>1. /\ fState' = "kRunning"
        /\ waiting' = {}
        /\ pc["cpu"] = "blocked"
        /\ \/ asking # "display" /\ pc' = [pc EXCEPT !["cpu"] = "exec"] /\ asking' = "none" /\ thrown' = thrown
           \/ pc' = [pc EXCEPT !["cpu"] = "reset"] /\ asking' = "none" /\ thrown' = thrown
           \/ asking # "display" /\ pc' = [pc EXCEPT !["cpu"] = "debug"] /\ asking' = "none" /\ thrown' = thrown
           \/ asking # "display" /\ pc' = [pc EXCEPT !["cpu"] = "asking"] /\ asking' = "resetType" /\ thrown' = thrown
           \/ /\ asking # "display" /\ pc' = [pc EXCEPT !["cpu"] = "leave"] /\ asking' = "none"
              /\ thrown' = [thrown EXCEPT !["cpu"] = "reset"]
           \/ asking # "display" /\ pc' = [pc EXCEPT !["cpu"] = "asking"] /\ asking' = "error" /\ thrown' = thrown
        /\ result' = "none"
        /\ UNCHANGED <<fStop, fNestLevel, fSuspend, fBreakOnSysCall, calls, flags,
           stoppers, queued, gDocument, guest>>
    BY <1>6 DEF Unblock, Broadcast, ActOn, ThrowTo, Goto
  <2>2. TypeOK'
    BY <2>1 DEF TypeOK, Threads, CPULabels, UILabels, States, Dialogs, Exceptions,
       flow, state, stack, flags, dialog, guest
  <2>3. StackShape'
    BY <2>1 DEF TypeOK, StackShape, StackKinds, StackLabels, Threads, CPULabels,
       UILabels, stack, dialog, flow
  <2>4. QED
    BY <2>2, <2>3 DEF TypeInv
<1>7. CASE DebugButton
  <2>1. /\ \/ /\ fSuspend' = [fSuspend EXCEPT !.dbg = @ + 1] /\ endOfCycle' \in BOOLEAN
              /\ thrown' = [thrown EXCEPT !["cpu"] = "debugger"]
              /\ pc' = [pc EXCEPT !["cpu"] = "leave"] /\ asking' = "none"
           \/ /\ pc' = [pc EXCEPT !["cpu"] = "asking"] /\ asking' = "error"
              /\ fSuspend' = fSuspend /\ endOfCycle' = endOfCycle /\ thrown' = thrown
        /\ pc["cpu"] = "debug"
        /\ UNCHANGED <<waiting, state, fBreakOnSysCall, calls, fReset, stoppers,
           queued, result, gDocument, guest>>
    BY <1>7 DEF DebugButton, Schedule, ThrowTo, Goto
  <2>2. fSuspend' \in Counters
    BY <1>0, <2>1 DEF Counters
  <2>3. TypeOK'
    BY <2>1, <2>2 DEF TypeOK, Threads, CPULabels, UILabels, Dialogs, Exceptions,
       flow, state, stack, flags, dialog, guest
  <2>4. StackShape'
    BY <2>1 DEF TypeOK, StackShape, StackKinds, StackLabels, Threads, CPULabels,
       UILabels, stack, dialog, flow
  <2>5. QED
    BY <2>3, <2>4 DEF TypeInv
<1>8. QED
  BY <1>1, <1>2, <1>3, <1>4, <1>5, <1>6, <1>7

(* The UI thread, when it makes or drops no stopper.                       *)
LEMMA TypeUI ==
  ASSUME TypeOK, StackShape,
         CatchInSLP \/ DoReset \/ ExitDebugger \/ SetSuspendState
         \/ OpenDialog \/ AnswerDialog \/ UnblockDialog \/ DropDialogs
         \/ CloseDocument \/ DestroyThread \/ AwaitStopped
  PROVE  TypeInv'
<1>0. fSuspend \in Counters /\ snapshot \in Counters
  BY DEF TypeOK
<1>1. CASE CatchInSLP
  <2>1. /\ pc["ui"] = "caught"
        /\ pc' = [pc EXCEPT !["ui"] = "reset"]
        /\ UNCHANGED <<waiting, state, fSuspend, fBreakOnSysCall, stack, flags,
           stoppers, dialog, guest>>
    BY <1>1 DEF CatchInSLP, Goto
  <2>2. TypeOK'
    BY <2>1 DEF TypeOK, Threads, CPULabels, UILabels, flow, state, stack, flags,
       dialog, guest
  <2>3. StackShape'
    BY <2>1 DEF TypeOK, StackShape, StackKinds, StackLabels, Threads, CPULabels,
       UILabels, stack, dialog, flow
  <2>4. QED
    BY <2>2, <2>3 DEF TypeInv
<1>2. CASE DoReset
  <2>1. /\ pc["ui"] = "idle"
        /\ pc' = [pc EXCEPT !["ui"] = "reset"]
        /\ UNCHANGED <<waiting, state, fSuspend, fBreakOnSysCall, stack, flags,
           stoppers, dialog, guest>>
    BY <1>2 DEF DoReset, Free, Goto
  <2>2. TypeOK'
    BY <2>1 DEF TypeOK, Threads, CPULabels, UILabels, flow, state, stack, flags,
       dialog, guest
  <2>3. StackShape'
    BY <2>1 DEF TypeOK, StackShape, StackKinds, StackLabels, Threads, CPULabels,
       UILabels, stack, dialog, flow
  <2>4. QED
    BY <2>2, <2>3 DEF TypeInv
<1>3. CASE ExitDebugger
  <2>1. /\ snapshot' = [fSuspend EXCEPT !.dbg = 0]
        /\ pc["ui"] = "idle"
        /\ pc' = [pc EXCEPT !["ui"] = "exitDebugger"]
        /\ UNCHANGED <<waiting, state, fSuspend, fBreakOnSysCall, stack, flags,
           stoppers, dialog, atSysCall>>
    BY <1>3 DEF ExitDebugger, Free, Goto
  <2>2. snapshot' \in Counters
    BY <1>0, <2>1 DEF Counters
  <2>3. TypeOK'
    BY <2>1, <2>2 DEF TypeOK, Threads, CPULabels, UILabels, flow, state, stack,
       flags, dialog, guest
  <2>4. StackShape'
    BY <2>1 DEF TypeOK, StackShape, StackKinds, StackLabels, Threads, CPULabels,
       UILabels, stack, dialog, flow
  <2>5. QED
    BY <2>3, <2>4 DEF TypeInv
<1>4. CASE SetSuspendState
  <2>1. /\ fSuspend' = snapshot /\ snapshot' = NoCounters
        /\ pc["ui"] = "exitDebugger"
        /\ pc' = [pc EXCEPT !["ui"] = "idle"]
        /\ UNCHANGED <<waiting, state, fBreakOnSysCall, stack, flags, stoppers,
           dialog, atSysCall>>
    BY <1>4 DEF SetSuspendState, Goto
  <2>2. fSuspend' \in Counters /\ snapshot' \in Counters
    BY <1>0, <2>1 DEF Counters, NoCounters
  <2>3. TypeOK'
    BY <2>1, <2>2 DEF TypeOK, Threads, CPULabels, UILabels, flow, state, stack,
       flags, dialog, guest
  <2>4. StackShape'
    BY <2>1 DEF TypeOK, StackShape, StackKinds, StackLabels, Threads, CPULabels,
       UILabels, stack, dialog, flow
  <2>5. QED
    BY <2>3, <2>4 DEF TypeInv
<1>5. CASE OpenDialog
  <2>1. /\ queued' \in BOOLEAN
        /\ pc["ui"] = "idle"
        /\ pc' = [pc EXCEPT !["ui"] = "dialog"]
        /\ UNCHANGED <<waiting, state, fSuspend, fBreakOnSysCall, stack, flags,
           stoppers, asking, result, gDocument, guest>>
    BY <1>5 DEF OpenDialog, Free, Goto
  <2>2. TypeOK'
    BY <2>1 DEF TypeOK, Threads, CPULabels, UILabels, flow, state, stack, flags,
       dialog, guest
  <2>3. StackShape'
    BY <2>1 DEF TypeOK, StackShape, StackKinds, StackLabels, Threads, CPULabels,
       UILabels, stack, dialog, flow
  <2>4. QED
    BY <2>2, <2>3 DEF TypeInv
<1>6. CASE AnswerDialog
  <2>1. /\ result' \in Answers
        /\ pc["ui"] = "dialog"
        /\ pc' = [pc EXCEPT !["ui"] = "answered"]
        /\ UNCHANGED <<waiting, state, fSuspend, fBreakOnSysCall, stack, flags,
           stoppers, asking, queued, gDocument, guest>>
    BY <1>6 DEF AnswerDialog, AnswersTo, Answers, Goto
  <2>2. TypeOK'
    BY <2>1 DEF TypeOK, Threads, CPULabels, UILabels, flow, state, stack, flags,
       dialog, guest
  <2>3. StackShape'
    BY <2>1 DEF TypeOK, StackShape, StackKinds, StackLabels, Threads, CPULabels,
       UILabels, stack, dialog, flow
  <2>4. QED
    BY <2>2, <2>3 DEF TypeInv
<1>7. CASE UnblockDialog
  <2>1. /\ waiting' = {}
        /\ pc["ui"] = "answered"
        /\ pc' = [pc EXCEPT !["ui"] = "idle"]
        /\ UNCHANGED <<state, fSuspend, fBreakOnSysCall, stack, flags, stoppers,
           dialog, guest>>
    BY <1>7 DEF UnblockDialog, Broadcast, Goto
  <2>2. TypeOK'
    BY <2>1 DEF TypeOK, Threads, CPULabels, UILabels, flow, state, stack, flags,
       dialog, guest
  <2>3. StackShape'
    BY <2>1 DEF TypeOK, StackShape, StackKinds, StackLabels, Threads, CPULabels,
       UILabels, stack, dialog, flow
  <2>4. QED
    BY <2>2, <2>3 DEF TypeInv
<1>8. CASE DropDialogs
  <2>1. /\ queued' \in BOOLEAN
        /\ UNCHANGED <<flow, state, fSuspend, fBreakOnSysCall, stack, flags,
           stoppers, asking, result, gDocument, guest>>
    BY <1>8 DEF DropDialogs
  <2>2. TypeOK'
    BY <2>1 DEF TypeOK, Threads, CPULabels, UILabels, flow, state, stack, flags,
       dialog, guest
  <2>3. StackShape'
    BY <2>1 DEF TypeOK, StackShape, StackKinds, StackLabels, Threads, CPULabels,
       UILabels, stack, dialog, flow
  <2>4. QED
    BY <2>2, <2>3 DEF TypeInv
<1>9. CASE CloseDocument
  <2>1. /\ gDocument' \in BOOLEAN
        /\ pc["ui"] = "idle"
        /\ pc' = [pc EXCEPT !["ui"] = "closing"]
        /\ UNCHANGED <<waiting, state, fSuspend, fBreakOnSysCall, stack, flags,
           stoppers, asking, queued, result, guest>>
    BY <1>9 DEF CloseDocument, Free, Goto
  <2>2. TypeOK'
    BY <2>1 DEF TypeOK, Threads, CPULabels, UILabels, flow, state, stack, flags,
       dialog, guest
  <2>3. StackShape'
    BY <2>1 DEF TypeOK, StackShape, StackKinds, StackLabels, Threads, CPULabels,
       UILabels, stack, dialog, flow
  <2>4. QED
    BY <2>2, <2>3 DEF TypeInv
<1>10. CASE DestroyThread
  <2>1. /\ fStop' \in BOOLEAN
        /\ fSuspend' = [fSuspend EXCEPT !.ui = @ + 1]
        /\ pc["ui"] = "closing"
        /\ pc' = [pc EXCEPT !["ui"] = "destroying"]
        /\ waiting' = {"ui"}
        /\ UNCHANGED <<fState, fNestLevel, fBreakOnSysCall, stack, flags, stoppers,
           dialog, guest>>
    BY <1>10 DEF DestroyThread, BroadcastAndWait, Goto
  <2>2. fSuspend' \in Counters
    BY <1>0, <2>1 DEF Counters
  <2>3. TypeOK'
    BY <2>1, <2>2 DEF TypeOK, Threads, CPULabels, UILabels, flow, state, stack,
       flags, dialog, guest
  <2>4. StackShape'
    BY <2>1 DEF TypeOK, StackShape, StackKinds, StackLabels, Threads, CPULabels,
       UILabels, stack, dialog, flow
  <2>5. QED
    BY <2>3, <2>4 DEF TypeInv
<1>11. CASE AwaitStopped
  <2>1. /\ pc' = pc \/ pc' = [pc EXCEPT !["ui"] = "gone"]
        /\ waiting' \subseteq Threads
        /\ pc["ui"] = "destroying"
        /\ UNCHANGED <<state, fSuspend, fBreakOnSysCall, stack, flags, stoppers,
           dialog, guest>>
    BY <1>11 DEF TypeOK, Threads, AwaitStopped, Goto
  <2>2. TypeOK'
    BY <2>1 DEF TypeOK, Threads, CPULabels, UILabels, flow, state, stack, flags,
       dialog, guest
  <2>3. StackShape'
    BY <2>1 DEF TypeOK, StackShape, StackKinds, StackLabels, Threads, CPULabels,
       UILabels, stack, dialog, flow
  <2>4. QED
    BY <2>2, <2>3 DEF TypeInv
<1>12. QED
  BY <1>1, <1>2, <1>3, <1>4, <1>5, <1>6, <1>7, <1>8, <1>9, <1>10, <1>11

(* Either thread in the CPU loop, when no call begins or ends.              *)
LEMMA TypeLoop ==
  ASSUME TypeOK, StackShape, NEW t \in Threads,
         CycleSlowly(t) \/ ExecuteSpecialNested(t) \/ ExecuteSpecial(t)
         \/ ExecuteReset(t) \/ Reset(t) \/ PatchDone(t)
  PROVE  TypeInv'
<1>0. fSuspend \in Counters /\ snapshot \in Counters
  BY DEF TypeOK
<1>1. CASE CycleSlowly(t)
  <2>1. /\ endOfCycle' \in BOOLEAN
        /\ UNCHANGED <<flow, state, fSuspend, fBreakOnSysCall, stack, fReset,
           stoppers, dialog, guest>>
    BY <1>1 DEF CycleSlowly
  <2>2. TypeOK'
    BY <2>1 DEF TypeOK, Threads, CPULabels, UILabels, flow, state, stack, flags,
       dialog, guest
  <2>3. StackShape'
    BY <2>1 DEF TypeOK, StackShape, StackKinds, StackLabels, Threads, CPULabels,
       UILabels, stack, dialog, flow
  <2>4. QED
    BY <2>2, <2>3 DEF TypeInv
<1>2. CASE ExecuteSpecialNested(t)
  <2>1. /\ pc[t] = "exec"
        /\ pc' = [pc EXCEPT ![t] = "leave"]
        /\ UNCHANGED <<waiting, state, fSuspend, fBreakOnSysCall, stack, flags,
           stoppers, dialog, guest>>
    BY <1>2 DEF ExecuteSpecialNested, Executing, Goto
  <2>2. TypeOK'
    BY <2>1 DEF TypeOK, Threads, CPULabels, UILabels, flow, state, stack, flags,
       dialog, guest
  <2>3. StackShape'
    BY <2>1 DEF TypeOK, StackShape, StackKinds, StackLabels, Threads, CPULabels,
       UILabels, stack, dialog, flow
  <2>4. QED
    BY <2>2, <2>3 DEF TypeInv
<1>3. CASE ExecuteSpecial(t)
  <2>1. /\ endOfCycle' \in BOOLEAN
        /\ pc[t] = "exec"
        /\ pc' = pc \/ pc' = [pc EXCEPT ![t] = "leave"]
        /\ UNCHANGED <<waiting, state, fSuspend, fBreakOnSysCall, stack, fReset,
           stoppers, dialog, guest>>
    BY <1>3 DEF ExecuteSpecial, Executing, Goto
  <2>2. TypeOK'
    BY <2>1 DEF TypeOK, Threads, CPULabels, UILabels, flow, state, stack, flags,
       dialog, guest
  <2>3. StackShape'
    BY <2>1 DEF TypeOK, StackShape, StackKinds, StackLabels, Threads, CPULabels,
       UILabels, stack, dialog, flow
  <2>4. QED
    BY <2>2, <2>3 DEF TypeInv
<1>4. CASE ExecuteReset(t)
  <2>1. /\ fReset' \in BOOLEAN
        /\ pc[t] = "exec"
        /\ pc' = [pc EXCEPT ![t] = "reset"]
        /\ UNCHANGED <<waiting, state, fSuspend, fBreakOnSysCall, stack, endOfCycle,
           stoppers, dialog, guest>>
    BY <1>4 DEF ExecuteReset, Executing, Goto
  <2>2. TypeOK'
    BY <2>1 DEF TypeOK, Threads, CPULabels, UILabels, flow, state, stack, flags,
       dialog, guest
  <2>3. StackShape'
    BY <2>1 DEF TypeOK, StackShape, StackKinds, StackLabels, Threads, CPULabels,
       UILabels, stack, dialog, flow
  <2>4. QED
    BY <2>2, <2>3 DEF TypeInv
<1>5. CASE Reset(t)
  <2>1. /\ fSuspend' = [NoCounters EXCEPT !.ui = fSuspend.ui]
        /\ fBreakOnSysCall' \in BOOLEAN /\ fNestLevel' = 0 /\ fReset' \in BOOLEAN
        /\ endOfCycle' \in BOOLEAN /\ atSysCall' \in BOOLEAN
        /\ \/ calls[t] # <<>> /\ pc' = [pc EXCEPT ![t] = "exec"]
           \/ calls[t] = <<>> /\ t = "ui" /\ pc' = [pc EXCEPT ![t] = "idle"]
           \/ calls[t] = <<>> /\ t # "ui" /\ pc' = [pc EXCEPT ![t] = "run"]
        /\ UNCHANGED <<waiting, fStop, fState, stack, stoppers, dialog, snapshot>>
    BY <1>5 DEF Reset, CountersAfterReset, Goto
  <2>2. fSuspend' \in Counters
    BY <1>0, <2>1 DEF NoCounters, Counters
  <2>3. TypeOK'
    BY <2>1, <2>2 DEF TypeOK, Threads, CPULabels, UILabels, flow, state, stack,
       flags, dialog, guest
  <2>4. StackShape'
    BY <2>1 DEF TypeOK, StackShape, StackKinds, StackLabels, Threads, CPULabels,
       UILabels, stack, dialog, flow
  <2>5. QED
    BY <2>3, <2>4 DEF TypeInv
<1>6. CASE PatchDone(t)
  <2>1. /\ pc[t] = "patch"
        /\ pc' = [pc EXCEPT ![t] = "exec"]
        /\ UNCHANGED <<waiting, state, fSuspend, fBreakOnSysCall, stack, flags,
           stoppers, dialog, guest>>
    BY <1>6 DEF PatchDone, Goto
  <2>2. TypeOK'
    BY <2>1 DEF TypeOK, Threads, CPULabels, UILabels, flow, state, stack, flags,
       dialog, guest
  <2>3. StackShape'
    BY <2>1 DEF TypeOK, StackShape, StackKinds, StackLabels, Threads, CPULabels,
       UILabels, stack, dialog, flow
  <2>4. QED
    BY <2>2, <2>3 DEF TypeInv
<1>7. QED
  BY <1>1, <1>2, <1>3, <1>4, <1>5, <1>6

(* The guest's own steps.                                                   *)
LEMMA TypeGuest ==
  ASSUME TypeOK, StackShape, NEW t \in Threads,
         SubroutineReturn(t) \/ SignalSend(t) \/ SignalResume(t)
         \/ Breakpoint(t) \/ NestedError(t) \/ ScheduleReset(t)
  PROVE  TypeInv'
<1>0. fSuspend \in Counters /\ snapshot \in Counters
  BY DEF TypeOK
<1>1. CASE SubroutineReturn(t)
  <2>1. /\ fSuspend' = [fSuspend EXCEPT !.sub = 1]
        /\ endOfCycle' \in BOOLEAN
        /\ atSysCall' \in BOOLEAN
        /\ UNCHANGED <<flow, state, fBreakOnSysCall, stack, fReset, stoppers, dialog,
           snapshot>>
    BY <1>1 DEF TypeOK, SubroutineReturn, GuestStep, Schedule
  <2>2. fSuspend' \in Counters
    BY <1>0, <2>1 DEF Counters
  <2>3. TypeOK'
    BY <2>1, <2>2 DEF TypeOK, Threads, CPULabels, UILabels, flow, state, stack,
       flags, dialog, guest
  <2>4. StackShape'
    BY <2>1 DEF TypeOK, StackShape, StackKinds, StackLabels, Threads, CPULabels,
       UILabels, stack, dialog, flow
  <2>5. QED
    BY <2>3, <2>4 DEF TypeInv
<1>2. CASE SignalSend(t)
  <2>1. /\ fSuspend' = [fSuspend EXCEPT !.ext = @ + 1, !.sys = 1]
        /\ endOfCycle' \in BOOLEAN
        /\ atSysCall' \in BOOLEAN
        /\ UNCHANGED <<flow, state, fBreakOnSysCall, stack, fReset, stoppers, dialog,
           snapshot>>
    BY <1>2 DEF TypeOK, SignalSend, Schedule
  <2>2. fSuspend' \in Counters
    BY <1>0, <2>1, SignalCounted
  <2>3. TypeOK'
    BY <2>1, <2>2 DEF TypeOK, Threads, CPULabels, UILabels, flow, state, stack,
       flags, dialog, guest
  <2>4. StackShape'
    BY <2>1 DEF TypeOK, StackShape, StackKinds, StackLabels, Threads, CPULabels,
       UILabels, stack, dialog, flow
  <2>5. QED
    BY <2>3, <2>4 DEF TypeInv
<1>3. CASE SignalResume(t)
  <2>1. /\ fSuspend' = [fSuspend EXCEPT !.ext = @ - 1]
        /\ atSysCall' \in BOOLEAN
        /\ UNCHANGED <<flow, state, fBreakOnSysCall, stack, flags, stoppers, dialog,
           snapshot>>
    BY <1>3 DEF TypeOK, SignalResume, GuestStep
  <2>2. fSuspend' \in Counters
    BY <1>0, <2>1 DEF Counters
  <2>3. TypeOK'
    BY <2>1, <2>2 DEF TypeOK, Threads, CPULabels, UILabels, flow, state, stack,
       flags, dialog, guest
  <2>4. StackShape'
    BY <2>1 DEF TypeOK, StackShape, StackKinds, StackLabels, Threads, CPULabels,
       UILabels, stack, dialog, flow
  <2>5. QED
    BY <2>3, <2>4 DEF TypeInv
<1>4. CASE Breakpoint(t)
  <2>1. /\ fSuspend' = [fSuspend EXCEPT !.dbg = @ + 1]
        /\ endOfCycle' \in BOOLEAN
        /\ atSysCall' \in BOOLEAN
        /\ UNCHANGED <<flow, state, fBreakOnSysCall, stack, fReset, stoppers, dialog,
           snapshot>>
    BY <1>4 DEF TypeOK, Breakpoint, GuestStep, Schedule
  <2>2. fSuspend' \in Counters
    BY <1>0, <2>1 DEF Counters
  <2>3. TypeOK'
    BY <2>1, <2>2 DEF TypeOK, Threads, CPULabels, UILabels, flow, state, stack,
       flags, dialog, guest
  <2>4. StackShape'
    BY <2>1 DEF TypeOK, StackShape, StackKinds, StackLabels, Threads, CPULabels,
       UILabels, stack, dialog, flow
  <2>5. QED
    BY <2>3, <2>4 DEF TypeInv
<1>5. CASE NestedError(t)
  <2>1. /\ thrown' = [thrown EXCEPT ![t] = "resetMessage"]
        /\ pc[t] = "exec"
        /\ pc' = [pc EXCEPT ![t] = "leave"]
        /\ atSysCall' \in BOOLEAN
        /\ UNCHANGED <<waiting, state, fSuspend, fBreakOnSysCall, calls, flags,
           stoppers, dialog, snapshot>>
    BY <1>5 DEF TypeOK, NestedError, GuestStep, CanStep, Executing, Goto
  <2>2. TypeOK'
    BY <2>1 DEF TypeOK, Threads, CPULabels, UILabels, Exceptions, flow, state, stack,
       flags, dialog, guest
  <2>3. StackShape'
    BY <2>1 DEF TypeOK, StackShape, StackKinds, StackLabels, Threads, CPULabels,
       UILabels, stack, dialog, flow
  <2>4. QED
    BY <2>2, <2>3 DEF TypeInv
<1>6. CASE ScheduleReset(t)
  <2>1. /\ fReset' \in BOOLEAN /\ endOfCycle' \in BOOLEAN
        /\ atSysCall' \in BOOLEAN
        /\ UNCHANGED <<flow, state, fSuspend, fBreakOnSysCall, stack, stoppers,
           dialog, snapshot>>
    BY <1>6 DEF TypeOK, ScheduleReset, GuestStep
  <2>2. TypeOK'
    BY <2>1 DEF TypeOK, Threads, CPULabels, UILabels, flow, state, stack, flags,
       dialog, guest
  <2>3. StackShape'
    BY <2>1 DEF TypeOK, StackShape, StackKinds, StackLabels, Threads, CPULabels,
       UILabels, stack, dialog, flow
  <2>4. QED
    BY <2>2, <2>3 DEF TypeInv
<1>7. QED
  BY <1>1, <1>2, <1>3, <1>4, <1>5, <1>6

----------------------------------------------------------------------------
(* Calls begin and end: the stacks.                                        *)

(* A call into the ROM pushes a frame.                                     *)
LEMMA TypeBegin ==
  ASSUME TypeOK, StackShape, NEW t \in Threads, NEW kind \in CallKinds, BeginCall(t, kind),
         IF calls[t] = <<>> THEN t = "ui" /\ kind = "rom"
                            ELSE kind \in IF t = "cpu" THEN {"taskInfo", "patch"} ELSE {"patch"}
  PROVE  TypeInv'
<1> DEFINE f == [kind |-> kind, old |-> fSuspend, nest |-> fNestLevel, saved |-> fState]
<1>1. f \in Frames /\ f.kind = kind
  BY DEF TypeOK, Frames
<1>2. calls[t] \in Seq(Frames)
  BY DEF TypeOK
<1>3. /\ calls' = [calls EXCEPT ![t] = Append(calls[t], f)]
      /\ fSuspend' = NoCounters /\ fNestLevel' = fNestLevel + 1
      /\ pc' = [pc EXCEPT ![t] = "call"]
      /\ waiting' = {}
      /\ UNCHANGED <<fStop, fState, fBreakOnSysCall, thrown, flags, stoppers, dialog, guest>>
  BY DEF BeginCall, Goto, Broadcast
<1> HIDE DEF f
<1> DEFINE s == Append(calls[t], f)
<1>4. /\ s \in Seq(Frames) /\ s # <<>> /\ Len(s) = Len(calls[t]) + 1
      /\ \A i \in 1 .. Len(calls[t]) : s[i] = calls[t][i]
      /\ s[Len(calls[t]) + 1] = f
      /\ DOMAIN s = 1 .. Len(calls[t]) + 1 /\ DOMAIN calls[t] = 1 .. Len(calls[t])
      /\ Len(calls[t]) \in Nat /\ (calls[t] = <<>> <=> Len(calls[t]) = 0)
  BY <1>1, <1>2, AddLast, EmptySeq
<1>5. calls' = [calls EXCEPT ![t] = s]
  BY <1>3
<1> HIDE DEF s
<1>6. calls' \in [Threads -> Seq(Frames)]
  BY <1>4, <1>5 DEF TypeOK
<1>7. fSuspend' \in Counters
  BY <1>3 DEF Counters, NoCounters
<1>8. TypeOK'
  BY <1>3, <1>6, <1>7 DEF TypeOK, Threads, CPULabels, UILabels, flags, dialog, guest
<1>9. StackShape'
  <2>1. CASE t = "cpu"
    BY <1>1, <1>3, <1>4, <1>5, <2>1 DEF TypeOK, StackShape, StackKinds, StackLabels, Threads, dialog
  <2>2. CASE t = "ui"
    BY <1>1, <1>3, <1>4, <1>5, <2>2 DEF TypeOK, StackShape, StackKinds, StackLabels, Threads, dialog
  <2>3. QED
    BY <2>1, <2>2 DEF Threads
<1>10. QED
  BY <1>8, <1>9 DEF TypeInv

(* The frame on top is replaced by another of the same kind.               *)
LEMMA TopReplaced ==
  ASSUME TypeOK, NEW t \in Threads, calls[t] # <<>>,
         NEW f \in Frames, f.kind = Top(t).kind,
         calls' = [calls EXCEPT ![t] = Append(Front(@), f)]
  PROVE  /\ calls' \in [Threads -> Seq(Frames)]
         /\ calls'[t] # <<>> /\ Len(calls'[t]) = Len(calls[t])
         /\ DOMAIN calls'[t] = DOMAIN calls[t]
         /\ \A i \in DOMAIN calls[t] : calls'[t][i].kind = calls[t][i].kind
         /\ \A u \in Threads : u # t => calls'[u] = calls[u]
         /\ StackKinds => StackKinds'
<1> DEFINE s == Append(Front(calls[t]), f)
<1>1. calls[t] \in Seq(Frames)
  BY DEF TypeOK
<1>2. /\ s \in Seq(Frames) /\ s # <<>> /\ Len(s) = Len(calls[t])
      /\ s[Len(calls[t])] = f
      /\ \A i \in 1 .. Len(calls[t]) - 1 : s[i] = calls[t][i]
  BY <1>1, ReplaceLast
<1>3. Top(t) = calls[t][Len(calls[t])] /\ Len(calls[t]) \in Nat \ {0}
  BY <1>1, FrontLast DEF Top
<1>4. calls' = [calls EXCEPT ![t] = s]
  OBVIOUS
<1> HIDE DEF s
<1>5. DOMAIN s = 1 .. Len(calls[t]) /\ DOMAIN calls[t] = 1 .. Len(calls[t])
  BY <1>1, <1>2
<1>6. \A i \in DOMAIN calls[t] : s[i].kind = calls[t][i].kind
  BY <1>2, <1>3, <1>5
<1>7. /\ calls' \in [Threads -> Seq(Frames)] /\ calls'[t] = s
      /\ \A u \in Threads : u # t => calls'[u] = calls[u]
  BY <1>2, <1>4 DEF TypeOK
<1>8. ASSUME StackKinds PROVE StackKinds'
  <2>1. \A u \in Threads : /\ DOMAIN calls'[u] = DOMAIN calls[u]
                            /\ \A i \in DOMAIN calls'[u] : calls'[u][i].kind = calls[u][i].kind
    BY <1>5, <1>6, <1>7
  <2>2. QED
    BY <1>8, <2>1 DEF StackKinds, Threads
<1>9. QED
  BY <1>2, <1>5, <1>6, <1>7, <1>8

(* The frame on top is removed.                                            *)
LEMMA TopRemoved ==
  ASSUME TypeOK, NEW t \in Threads, calls[t] # <<>>,
         calls' = [calls EXCEPT ![t] = Front(@)]
  PROVE  /\ calls' \in [Threads -> Seq(Frames)]
         /\ Len(calls'[t]) = Len(calls[t]) - 1 /\ Len(calls[t]) \in Nat \ {0}
         /\ calls'[t] = <<>> <=> Len(calls[t]) = 1
         /\ DOMAIN calls'[t] = 1 .. Len(calls[t]) - 1 /\ DOMAIN calls[t] = 1 .. Len(calls[t])
         /\ \A i \in 1 .. Len(calls[t]) - 1 : calls'[t][i] = calls[t][i]
         /\ \A u \in Threads : u # t => calls'[u] = calls[u]
         /\ Top(t) \in Frames /\ Top(t) = calls[t][Len(calls[t])]
         /\ StackKinds => StackKinds'
<1>1. calls[t] \in Seq(Frames)
  BY DEF TypeOK
<1> DEFINE s == Front(calls[t])
<1>2. /\ s \in Seq(Frames) /\ Len(s) = Len(calls[t]) - 1 /\ Len(calls[t]) \in Nat \ {0}
      /\ \A i \in 1 .. Len(calls[t]) - 1 : s[i] = calls[t][i]
      /\ Top(t) \in Frames /\ Top(t) = calls[t][Len(calls[t])]
  BY <1>1, FrontLast DEF Top
<1>3. calls' = [calls EXCEPT ![t] = s]
  OBVIOUS
<1> HIDE DEF s
<1>4. DOMAIN s = 1 .. Len(calls[t]) - 1 /\ DOMAIN calls[t] = 1 .. Len(calls[t])
  BY <1>1, <1>2
<1>5. s = <<>> <=> Len(s) = 0
  BY <1>2, EmptySeq
<1>6. /\ calls' \in [Threads -> Seq(Frames)] /\ calls'[t] = s
      /\ \A u \in Threads : u # t => calls'[u] = calls[u]
  BY <1>2, <1>3 DEF TypeOK
<1>7. ASSUME StackKinds PROVE StackKinds'
  <2>1. \A u \in Threads : /\ DOMAIN calls'[u] \subseteq DOMAIN calls[u]
                            /\ \A i \in DOMAIN calls'[u] : calls'[u][i] = calls[u][i]
    BY <1>2, <1>4, <1>6
  <2>2. QED
    BY <1>7, <2>1 DEF StackKinds, Threads
<1>8. QED
  BY <1>2, <1>4, <1>5, <1>6, <1>7

(* The frame on top, of a thread that is inside a loop.                    *)
LEMMA TopTyped ==
  ASSUME TypeOK, NEW t \in Threads, calls[t] # <<>>
  PROVE  Top(t) \in Frames
BY FrontLast DEF TypeOK, Top

LEMMA TypeCallCPU ==
  ASSUME TypeOK, StackShape, NEW t \in Threads, CallCPU(t)
  PROVE  TypeInv'
<1> DEFINE f == [Top(t) EXCEPT !.saved = fState]
<1>1. pc[t] = "call" /\ calls[t] # <<>>
  BY DEF CallCPU, StackShape, StackKinds, StackLabels, Threads
<1>2. f \in Frames /\ f.kind = Top(t).kind
  <2>1. Top(t) \in Frames /\ fState \in States
    BY <1>1, TopTyped DEF TypeOK
  <2>2. QED
    BY <2>1 DEF Frames
<1>3. /\ calls' = [calls EXCEPT ![t] = Append(Front(@), f)]
      /\ fState' = "kRunning"
      /\ pc' = [pc EXCEPT ![t] = "exec"]
      /\ UNCHANGED <<waiting, fStop, fSuspend, fBreakOnSysCall, fNestLevel, thrown,
                     flags, stoppers, dialog, guest>>
  BY DEF CallCPU, Goto
<1> HIDE DEF f
<1>4. /\ calls' \in [Threads -> Seq(Frames)]
      /\ calls'[t] # <<>> /\ Len(calls'[t]) = Len(calls[t])
      /\ DOMAIN calls'[t] = DOMAIN calls[t]
      /\ \A i \in DOMAIN calls[t] : calls'[t][i].kind = calls[t][i].kind
      /\ \A u \in Threads : u # t => calls'[u] = calls[u]
      /\ StackKinds'
  BY <1>1, <1>2, <1>3, TopReplaced DEF StackShape
<1>5. TypeOK'
  BY <1>3, <1>4 DEF TypeOK, Threads, States, CPULabels, UILabels, flags, dialog, guest
<1>6. StackShape'
  BY <1>1, <1>3, <1>4 DEF TypeOK, StackShape, StackLabels, Threads, dialog
<1>7. QED
  BY <1>5, <1>6 DEF TypeInv

(* What is folded into a frame's counters are counters again.              *)
LEMMA FoldedTyped ==
  ASSUME fSuspend \in Counters, NEW f, f.old \in Counters
  PROVE  /\ Folded(f) \in Counters
         /\ Folded(f).ui = f.old.ui + fSuspend.ui
<1> DEFINE c == f.old
           d == [c EXCEPT !.ui = @ + fSuspend.ui]
           e == [d EXCEPT !.dbg = @ + fSuspend.dbg]
<1>1. c \in Counters
  OBVIOUS
<1> HIDE DEF c
<1>2. d \in Counters /\ d.ui = c.ui + fSuspend.ui
  BY <1>1 DEF Counters
<1> HIDE DEF d
<1>3. e \in Counters /\ e.ui = d.ui
  BY <1>2 DEF Counters
<1> HIDE DEF e
<1>4. [e EXCEPT !.ext = @ + fSuspend.ext] \in Counters
  BY <1>3 DEF Counters
<1>5. [e EXCEPT !.ext = @ + fSuspend.ext].ui = e.ui
  BY <1>3 DEF Counters
<1>6. Folded(f) = [e EXCEPT !.ext = @ + fSuspend.ext]
  BY DEF Folded, c, d, e
<1>7. QED
  BY <1>2, <1>3, <1>4, <1>5, <1>6 DEF c

LEMMA TypeReenter ==
  ASSUME TypeOK, StackShape, NEW t \in Threads, ReenterCall(t)
  PROVE  TypeInv'
<1> DEFINE f == [Top(t) EXCEPT !.old = Folded(Top(t))]
<1>1. pc[t] = "return" /\ calls[t] # <<>>
  BY EmptySeq DEF ReenterCall, StackShape, StackKinds, StackLabels, Threads
<1>2. Top(t) \in Frames /\ fSuspend \in Counters
  BY <1>1, TopTyped DEF TypeOK
<1>3. Top(t).old \in Counters /\ Top(t).nest \in Nat
  BY <1>2 DEF Frames
<1>4. Folded(Top(t)) \in Counters
  BY <1>2, <1>3, FoldedTyped
<1>5. f \in Frames /\ f.kind = Top(t).kind
  BY <1>2, <1>4 DEF Frames
<1>6. /\ calls' = [calls EXCEPT ![t] = Append(Front(@), f)]
      /\ fSuspend' = NoCounters
      /\ fNestLevel' = Top(t).nest + 1
      /\ pc' = [pc EXCEPT ![t] = "call"]
      /\ waiting' = {}
      /\ UNCHANGED <<fStop, fState, fBreakOnSysCall, thrown, flags, stoppers, dialog, guest>>
  BY DEF ReenterCall, LevelBefore, Goto, Broadcast
<1> HIDE DEF f
<1>7. /\ calls' \in [Threads -> Seq(Frames)]
      /\ calls'[t] # <<>> /\ Len(calls'[t]) = Len(calls[t])
      /\ DOMAIN calls'[t] = DOMAIN calls[t]
      /\ \A i \in DOMAIN calls[t] : calls'[t][i].kind = calls[t][i].kind
      /\ \A u \in Threads : u # t => calls'[u] = calls[u]
      /\ StackKinds'
  BY <1>1, <1>5, <1>6, TopReplaced DEF StackShape
<1>8. fSuspend' \in Counters /\ fNestLevel' \in Nat
  BY <1>3, <1>6 DEF Counters, NoCounters
<1>9. TypeOK'
  BY <1>6, <1>7, <1>8 DEF TypeOK, Threads, CPULabels, UILabels, flags, dialog, guest
<1>10. StackShape'
  BY <1>1, <1>6, <1>7 DEF TypeOK, StackShape, StackLabels, Threads, dialog
<1>11. QED
  BY <1>9, <1>10 DEF TypeInv

LEMMA TypeReturn ==
  ASSUME TypeOK, StackShape, NEW t \in Threads, ReturnFromCall(t)
  PROVE  TypeInv'
<1> DEFINE kept == Folded(Top(t))
           after == AfterCall[Top(t).kind]
<1>1. pc[t] = "return" /\ calls[t] # <<>>
  BY EmptySeq DEF ReturnFromCall, StackShape, StackKinds, StackLabels, Threads
<1>2. Top(t) \in Frames /\ fSuspend \in Counters
  BY <1>1, TopTyped DEF TypeOK
<1>3. Top(t).old \in Counters /\ Top(t).nest \in Nat
  BY <1>2 DEF Frames
<1>4. kept \in Counters
  BY <1>2, <1>3, FoldedTyped
<1>5. /\ calls' = [calls EXCEPT ![t] = Front(@)]
      /\ fSuspend' = [kept EXCEPT !.ext = IF @ < 0 THEN 0 ELSE @]
      /\ endOfCycle' \in BOOLEAN
      /\ fNestLevel' = Top(t).nest
      /\ pc' = [pc EXCEPT ![t] = after]
      /\ waiting' = {}
      /\ UNCHANGED <<fStop, fState, fBreakOnSysCall, thrown, fReset, stoppers, dialog, guest>>
  BY DEF ReturnFromCall, LevelBefore, Goto, Broadcast, Schedule
<1> HIDE DEF kept, after
<1>6. fSuspend' \in Counters
  BY <1>4, <1>5 DEF Counters
<1>7. /\ calls' \in [Threads -> Seq(Frames)]
      /\ Len(calls'[t]) = Len(calls[t]) - 1 /\ Len(calls[t]) \in Nat \ {0}
      /\ calls'[t] = <<>> <=> Len(calls[t]) = 1
      /\ DOMAIN calls'[t] = 1 .. Len(calls[t]) - 1 /\ DOMAIN calls[t] = 1 .. Len(calls[t])
      /\ \A i \in 1 .. Len(calls[t]) - 1 : calls'[t][i] = calls[t][i]
      /\ \A u \in Threads : u # t => calls'[u] = calls[u]
      /\ Top(t) = calls[t][Len(calls[t])]
      /\ StackKinds'
  BY <1>1, <1>5, TopRemoved DEF StackShape
<1>8. CASE t = "cpu"
  <2>1. Len(calls[t]) > 1
    BY <1>1, <1>8 DEF StackShape, StackKinds, StackLabels
  <2>2. Top(t).kind \in {"taskInfo", "patch"}
    BY <1>7, <1>8, <2>1 DEF StackShape, StackKinds, StackLabels
  <2>3. after \in {"sysCall", "patch"}
    BY <2>2 DEF after, AfterCall
  <2>4. TypeOK'
    BY <1>3, <1>5, <1>6, <1>7, <1>8, <2>3
    DEF TypeOK, Threads, CPULabels, UILabels, dialog, guest
  <2>5. StackShape'
    BY <1>1, <1>5, <1>7, <1>8, <2>1, <2>3 DEF TypeOK, StackShape, StackLabels, Threads, dialog
  <2>6. QED
    BY <2>4, <2>5 DEF TypeInv
<1>9. CASE t = "ui"
  <2>1. Top(t).kind = IF Len(calls[t]) = 1 THEN "rom" ELSE "patch"
    BY <1>7, <1>9 DEF StackShape, StackKinds, StackLabels
  <2>2. after = IF Len(calls[t]) = 1 THEN "idle" ELSE "patch"
    BY <2>1 DEF after, AfterCall
  <2>3. TypeOK'
    BY <1>3, <1>5, <1>6, <1>7, <1>9, <2>2
    DEF TypeOK, Threads, CPULabels, UILabels, dialog, guest
  <2>4. StackShape'
    BY <1>1, <1>5, <1>7, <1>9, <2>2 DEF TypeOK, StackShape, StackLabels, Threads, dialog
  <2>5. QED
    BY <2>3, <2>4 DEF TypeInv
<1>10. QED
  BY <1>8, <1>9 DEF Threads

LEMMA TypeUnwind ==
  ASSUME TypeOK, StackShape, NEW t \in Threads, Unwind(t)
  PROVE  TypeInv'
<1> DEFINE after == IF Len(calls[t]) > 1 THEN "leave" ELSE "caught"
<1>1. pc[t] = "return" /\ calls[t] # <<>>
  BY EmptySeq DEF Unwind, StackShape, StackKinds, StackLabels, Threads
<1>2. Top(t).nest \in Nat
  BY <1>1, TopTyped DEF Frames
<1>3. /\ calls' = [calls EXCEPT ![t] = Front(@)]
      /\ fNestLevel' = Top(t).nest
      /\ pc' = [pc EXCEPT ![t] = after]
      /\ UNCHANGED <<waiting, fStop, fState, fSuspend, fBreakOnSysCall, thrown,
                     flags, stoppers, dialog, guest>>
  BY DEF Unwind, LevelBefore, Goto
<1>4. /\ calls' \in [Threads -> Seq(Frames)]
      /\ Len(calls'[t]) = Len(calls[t]) - 1 /\ Len(calls[t]) \in Nat \ {0}
      /\ calls'[t] = <<>> <=> Len(calls[t]) = 1
      /\ DOMAIN calls'[t] = 1 .. Len(calls[t]) - 1 /\ DOMAIN calls[t] = 1 .. Len(calls[t])
      /\ \A i \in 1 .. Len(calls[t]) - 1 : calls'[t][i] = calls[t][i]
      /\ \A u \in Threads : u # t => calls'[u] = calls[u]
      /\ StackKinds'
  BY <1>1, <1>3, TopRemoved DEF StackShape
<1>5. TypeOK'
  BY <1>2, <1>3, <1>4 DEF TypeOK, Threads, CPULabels, UILabels, flags, dialog, guest
<1>6. CASE t = "cpu"
  <2>1. Len(calls[t]) > 1
    BY <1>1, <1>6 DEF StackShape, StackKinds, StackLabels
  <2>2. StackShape'
    BY <1>1, <1>3, <1>4, <1>6, <2>1 DEF TypeOK, StackShape, StackLabels, Threads, dialog
  <2>3. QED
    BY <1>5, <2>2 DEF TypeInv
<1>7. CASE t = "ui"
  <2>1. StackShape'
    BY <1>1, <1>3, <1>4, <1>7 DEF TypeOK, StackShape, StackLabels, Threads, dialog
  <2>2. QED
    BY <1>5, <2>1 DEF TypeInv
<1>8. QED
  BY <1>6, <1>7 DEF Threads

LEMMA TypeLeave ==
  ASSUME TypeOK, StackShape, NEW t \in Threads, LeaveCPU(t)
  PROVE  TypeInv'
<1>1. pc[t] = "leave" /\ calls[t] # <<>>
  BY DEF LeaveCPU, StackShape, StackKinds, StackLabels, Threads
<1>2. Top(t).saved \in States
  BY <1>1, TopTyped DEF Frames
<1>3. /\ fState' = Top(t).saved
      /\ UNCHANGED <<waiting, fStop, fSuspend, fBreakOnSysCall, fNestLevel, thrown,
                     flags, stoppers, dialog, guest>>
  BY DEF LeaveCPU
<1>4. calls[t] \in Seq(Frames) /\ Len(calls[t]) \in Nat \ {0} /\ Top(t) = calls[t][Len(calls[t])]
  BY <1>1, FrontLast DEF TypeOK, Top
<1>5. CASE Top(t).kind = "run"
  <2>0. Len(calls[t]) \in DOMAIN calls[t]
    BY <1>4
  <2>1. Len(calls[t]) = 1 /\ t = "cpu"
    BY <2>0, <1>4, <1>5 DEF StackShape, StackKinds, StackLabels, Threads
  <2>2. /\ calls' = [calls EXCEPT !["cpu"] = <<>>]
        /\ pc' = [pc EXCEPT !["cpu"] = IF thrown["cpu"] = "none" THEN "run" ELSE "caught"]
    BY <1>5, <2>1 DEF LeaveCPU, Goto
  <2>3. /\ calls' \in [Threads -> Seq(Frames)]
        /\ calls'["cpu"] = <<>> /\ calls'["ui"] = calls["ui"]
    BY <2>2, EmptySeq DEF TypeOK, Threads
  <2>4. TypeOK'
    BY <1>2, <1>3, <2>2, <2>3 DEF TypeOK, Threads, CPULabels, UILabels, flags, dialog, guest
  <2>5. StackShape'
    BY <1>3, <2>2, <2>3 DEF TypeOK, StackShape, StackKinds, StackLabels, Threads, dialog
  <2>6. QED
    BY <2>4, <2>5 DEF TypeInv
<1>6. CASE Top(t).kind # "run"
  <2>1. calls' = calls /\ pc' = [pc EXCEPT ![t] = "return"]
    BY <1>6 DEF LeaveCPU, Goto
  <2>2. t = "cpu" => Len(calls[t]) > 1
    BY <1>4, <1>6 DEF StackShape, StackKinds, StackLabels
  <2>3. TypeOK'
    BY <1>2, <1>3, <2>1 DEF TypeOK, Threads, CPULabels, UILabels, flags, dialog, guest
  <2>4. StackShape'
    BY <1>1, <1>3, <2>1, <2>2 DEF TypeOK, StackShape, StackKinds, StackLabels, Threads, dialog
  <2>5. QED
    BY <2>3, <2>4 DEF TypeInv
<1>7. QED
  BY <1>5, <1>6

LEMMA TypeRunCall ==
  ASSUME TypeOK, StackShape, RunCall
  PROVE  TypeInv'
<1> DEFINE f == [kind |-> "run", old |-> NoCounters, nest |-> 0, saved |-> fState]
<1>1. NoCounters \in Counters
  BY DEF Counters, NoCounters
<1>2. f \in Frames /\ f.kind = "run"
  BY <1>1 DEF TypeOK, Frames, CallKinds
<1>3. /\ calls' = [calls EXCEPT !["cpu"] = <<f>>]
      /\ pc' = [pc EXCEPT !["cpu"] = "call"]
      /\ UNCHANGED <<waiting, state, fSuspend, fBreakOnSysCall, thrown, flags,
                     stoppers, dialog, guest>>
  BY DEF RunCall, Goto
<1> HIDE DEF f
<1>4. <<f>> \in Seq(Frames) /\ <<f>>[1] = f /\ DOMAIN <<f>> = {1} /\ <<f>> # <<>>
  BY <1>2
<1>5. /\ calls' \in [Threads -> Seq(Frames)]
      /\ calls'["cpu"] = <<f>> /\ calls'["ui"] = calls["ui"]
  BY <1>3, <1>4 DEF TypeOK, Threads
<1>6. TypeOK'
  BY <1>3, <1>5 DEF TypeOK, Threads, CPULabels, UILabels, state, flags, dialog, guest
<1>7. StackShape'
  BY <1>2, <1>3, <1>4, <1>5 DEF TypeOK, StackShape, StackKinds, StackLabels, Threads, dialog
<1>8. QED
  BY <1>6, <1>7 DEF TypeInv

----------------------------------------------------------------------------
(* The stoppers.                                                           *)

(* A turn of SuspendThread's loop, with others the stoppers made before.   *)
LEMMA TypeSuspend ==
  ASSUME TypeOK, StackShape, calls["ui"] = <<>>,
         NEW how \in StopMethods, NEW counters \in Counters, NEW others \in Seq(Stoppers),
         SuspendLoop(how, counters, others)
  PROVE  TypeInv'
<1>1. UNCHANGED <<state, stack, flags, dialog, guest>>
  BY DEF SuspendLoop
<1>2. CASE fState = "kRunning"
  <2> DEFINE s == [how |-> how, got |-> FALSE, on |-> "none"]
  <2>1. /\ fSuspend' = counters /\ fBreakOnSysCall' \in BOOLEAN
        /\ stoppers' = Append(others, s)
        /\ pc' = [pc EXCEPT !["ui"] = "suspending"] /\ waiting' = {"ui"}
    BY <1>2 DEF SuspendLoop, WaitToSuspend, Goto, BroadcastAndWait
  <2>2. s \in Stoppers
    BY DEF Stoppers
  <2> HIDE DEF s
  <2>3. stoppers' \in Seq(Stoppers) /\ stoppers' # <<>>
    BY <2>1, <2>2, AppendProperties
  <2>4. TypeOK'
    BY <1>1, <2>1, <2>3
    DEF TypeOK, Threads, CPULabels, UILabels, state, stack, flags, dialog, guest
  <2>5. StackShape'
    BY <1>1, <2>1, <2>3
    DEF TypeOK, StackShape, StackKinds, StackLabels, Threads, stack, dialog
  <2>6. QED
    BY <2>4, <2>5 DEF TypeInv
<1>3. CASE fState # "kRunning"
  <2> DEFINE got == Granted(how, counters)
             s == [how |-> how, got |-> got, on |-> fState]
  <2>1. /\ fSuspend' = IF got /\ how = "kStopOnSysCall"
                         THEN [counters EXCEPT !.ui = @ + 1] ELSE counters
        /\ fBreakOnSysCall' \in BOOLEAN
        /\ stoppers' = Append(others, s)
        /\ pc' = [pc EXCEPT !["ui"] = "idle"] /\ waiting' = waiting
    BY <1>3 DEF SuspendLoop, FinishSuspend, Goto
  <2>2. got \in BOOLEAN
    BY DEF Granted
  <2> HIDE DEF got
  <2>3. s \in Stoppers
    BY <2>2 DEF Stoppers, TypeOK
  <2> HIDE DEF s
  <2>4. stoppers' \in Seq(Stoppers) /\ stoppers' # <<>>
    BY <2>1, <2>3, AppendProperties
  <2>5. fSuspend' \in Counters
    BY <2>1 DEF Counters
  <2>6. TypeOK'
    BY <1>1, <2>1, <2>4, <2>5
    DEF TypeOK, Threads, CPULabels, UILabels, state, stack, flags, dialog, guest
  <2>7. StackShape'
    BY <1>1, <2>1, <2>4
    DEF TypeOK, StackShape, StackKinds, StackLabels, Threads, stack, dialog
  <2>8. QED
    BY <2>6, <2>7 DEF TypeInv
<1>4. QED
  BY <1>2, <1>3

LEMMA TypeSuspendThread ==
  ASSUME TypeOK, StackShape, NEW how \in StopMethods, SuspendThread(how)
  PROVE  TypeInv'
<1> DEFINE counters == IF how = "kStopNow" THEN [fSuspend EXCEPT !.ui = @ + 1] ELSE fSuspend
<1>1. fSuspend \in Counters /\ stoppers \in Seq(Stoppers)
  BY DEF TypeOK
<1>2. counters \in Counters
  BY <1>1 DEF Counters
<1>3. calls["ui"] = <<>>
  BY DEF SuspendThread, Free, StackShape, StackLabels
<1>4. SuspendLoop(how, counters, stoppers)
  BY DEF SuspendThread
<1>5. QED
  BY <1>1, <1>2, <1>3, <1>4, TypeSuspend

LEMMA TypeAwaitSuspend ==
  ASSUME TypeOK, StackShape, AwaitSuspend
  PROVE  TypeInv'
<1>1. fSuspend \in Counters /\ stoppers \in Seq(Stoppers)
  BY DEF TypeOK
<1>2. stoppers # <<>> /\ calls["ui"] = <<>>
  BY DEF AwaitSuspend, StackShape, StackLabels
<1>3. Front(stoppers) \in Seq(Stoppers) /\ Stopper \in Stoppers
  BY <1>1, <1>2, FrontLast DEF Stopper
<1>4. Stopper.how \in StopMethods
  BY <1>3 DEF Stoppers
<1>5. SuspendLoop(Stopper.how, fSuspend, Front(stoppers))
  BY DEF AwaitSuspend
<1>6. QED
  BY <1>1, <1>2, <1>3, <1>4, <1>5, TypeSuspend

(* One request is taken away, the system call with the last of them.       *)
LEMMA ResumedTyped ==
  ASSUME fSuspend \in Counters
  PROVE  Resumed \in Counters /\ Resumed.ui = fSuspend.ui - 1
<1> DEFINE c == [fSuspend EXCEPT !.ui = @ - 1]
           b == IF fSuspend.ui - 1 = 0 /\ fSuspend.ext = 0 THEN 0 ELSE c.sys
<1>1. c \in Counters /\ c.ui = fSuspend.ui - 1
  BY DEF Counters
<1>2. b \in {0, 1}
  BY <1>1 DEF Counters
<1>3. Resumed = [c EXCEPT !.sys = b]
  BY DEF Resumed
<1> HIDE DEF c, b
<1>4. QED
  BY <1>1, <1>2, <1>3 DEF Counters

LEMMA TypeResumeThread ==
  ASSUME TypeOK, StackShape, ResumeThread
  PROVE  TypeInv'
<1>1. /\ stoppers # <<>> /\ stoppers' = Front(stoppers) /\ pc["ui"] = "idle"
      /\ UNCHANGED <<pc, fStop, fNestLevel, fBreakOnSysCall, calls, flags, dialog, guest>>
  BY DEF ResumeThread
<1>2. stoppers' \in Seq(Stoppers)
  BY <1>1, FrontLast DEF TypeOK
<1>3. thrown' \in [Threads -> Exceptions]
  <2>1. thrown' = thrown \/ thrown' = [thrown EXCEPT !["ui"] = "none"]
    BY DEF ResumeThread
  <2>2. QED
    BY <2>1 DEF TypeOK, Exceptions
<1>4. fState' \in States /\ waiting' \subseteq Threads
  BY DEF ResumeThread, LetGo, Restarted, Broadcast, TypeOK, States
<1>5. fSuspend' \in Counters
  <2>1. fSuspend \in Counters
    BY DEF TypeOK
  <2>2. Resumed \in Counters
    BY <2>1, ResumedTyped
  <2>3. fSuspend' = fSuspend \/ fSuspend' = Resumed
    BY DEF ResumeThread, LetGo
  <2>4. QED
    BY <2>1, <2>2, <2>3
<1>6. TypeOK'
  BY <1>1, <1>2, <1>3, <1>4, <1>5 DEF TypeOK, flags, dialog, guest
<1>7. StackShape'
  BY <1>1 DEF StackShape, StackKinds, StackLabels, dialog
<1>8. QED
  BY <1>6, <1>7 DEF TypeInv

----------------------------------------------------------------------------
LEMMA TypeStep ==
  ASSUME TypeOK, StackShape, [Next]_vars
  PROVE  TypeInv'
<1>1. CASE CPUThread
  <2>1. CASE RunSuspend \/ RunStop \/ Catch \/ SuspendSysCall \/ IgnoreSysCall
    BY <2>1, TypeRun
  <2>2. CASE NeedDialog \/ DeferredError \/ BlockOnDialog \/ Crash \/ StillBlocked
             \/ Unblock \/ DebugButton
    BY <2>2, TypeDialog
  <2>3. CASE RunCall
    BY <2>3, TypeRunCall
  <2>4. CASE BreakOnSysCall
    <3>1. pc["cpu"] = "exec" /\ BeginCall("cpu", "taskInfo")
      BY <2>4 DEF BreakOnSysCall, CanStep, Executing
    <3>2. QED
      BY <3>1, TypeBegin DEF StackShape, StackLabels, Threads, CallKinds
  <2>5. CASE WakeUITask
    <3>1. pc["cpu"] = "sysCall" /\ BeginCall("cpu", "patch")
      BY <2>5 DEF WakeUITask
    <3>2. QED
      BY <3>1, TypeBegin DEF StackShape, StackLabels, Threads, CallKinds
  <2>6. QED
    BY <1>1, <2>1, <2>2, <2>3, <2>4, <2>5 DEF CPUThread
<1>2. CASE UIThread
  <2>1. CASE SuspendThread("kStopNow") \/ SuspendThread("kStopOnSysCall")
    BY <2>1, TypeSuspendThread DEF StopMethods
  <2>2. CASE AwaitSuspend
    BY <2>2, TypeAwaitSuspend
  <2>3. CASE ResumeThread
    BY <2>3, TypeResumeThread
  <2>4. CASE CallROM
    <3>1. pc["ui"] = "idle" /\ BeginCall("ui", "rom")
      BY <2>4 DEF CallROM, Free
    <3>2. QED
      BY <3>1, TypeBegin DEF StackShape, StackLabels, Threads, CallKinds
  <2>5. CASE CatchInSLP \/ DoReset \/ ExitDebugger \/ SetSuspendState \/ OpenDialog
             \/ AnswerDialog \/ UnblockDialog \/ DropDialogs \/ CloseDocument
             \/ DestroyThread \/ AwaitStopped
    BY <2>5, TypeUI
  <2>6. QED
    BY <1>2, <2>1, <2>2, <2>3, <2>4, <2>5 DEF UIThread
<1>3. ASSUME NEW t \in Threads, Loop(t) PROVE TypeInv'
  <2>1. CASE CallCPU(t)
    BY <2>1, TypeCallCPU
  <2>2. CASE LeaveCPU(t)
    BY <2>2, TypeLeave
  <2>3. CASE ReenterCall(t)
    BY <2>3, TypeReenter
  <2>4. CASE ReturnFromCall(t)
    BY <2>4, TypeReturn
  <2>5. CASE Unwind(t)
    BY <2>5, TypeUnwind
  <2>6. CASE CycleSlowly(t) \/ ExecuteSpecialNested(t) \/ ExecuteSpecial(t)
             \/ ExecuteReset(t) \/ Reset(t) \/ PatchDone(t)
    BY <2>6, TypeLoop
  <2>7. QED
    BY <1>3, <2>1, <2>2, <2>3, <2>4, <2>5, <2>6 DEF Loop
<1>4. ASSUME NEW t \in Threads, Guest(t) PROVE TypeInv'
  <2>1. CASE PatchCall(t)
    <3>1. pc[t] \in {"exec", "patch"} /\ BeginCall(t, "patch")
      BY <2>1 DEF PatchCall, CanStep, Executing
    <3>2. calls[t] # <<>>
      BY <3>1 DEF StackShape, StackLabels, Threads
    <3>3. QED
      BY <3>1, <3>2, TypeBegin DEF Threads, CallKinds
  <2>2. CASE SubroutineReturn(t) \/ SignalSend(t) \/ SignalResume(t) \/ Breakpoint(t)
             \/ NestedError(t) \/ ScheduleReset(t)
    BY <2>2, TypeGuest
  <2>3. QED
    BY <1>4, <2>1, <2>2 DEF Guest
<1>5. CASE UNCHANGED vars
  BY <1>5 DEF TypeInv, TypeOK, StackShape, StackKinds, StackLabels,
              vars, flow, state, stack, flags, dialog, guest
<1>6. QED
  BY <1>1, <1>2, <1>3, <1>4, <1>5 DEF Next

(* Each thread's stack of CPU loops fits what the thread is doing.         *)
LEMMA TypeInvariant == Spec => []TypeInv
<1>1. Init => TypeInv
  BY TypeInit
<1>2. TypeInv /\ [Next]_vars => TypeInv'
  BY TypeStep DEF TypeInv
<1>3. QED
  BY <1>1, <1>2, PTL DEF Spec

(* The session's variables have their types, with any features and bounds: *)
(* no operation on a stack of calls, or of stoppers, meets an empty one.   *)
THEOREM TypeCorrect == Spec => []TypeOK
<1>1. TypeInv => TypeOK
  BY DEF TypeInv
<1>2. QED
  BY <1>1, TypeInvariant, PTL

----------------------------------------------------------------------------
(* Dialogs.                                                                *)

Gone == {"closing", "destroying", "gone"}

\* A dialog that is queued, or open, is the one the CPU thread is blocked on,
\* and nothing but its answer lets the thread go on: fStop is set only when
\* the document is closed, and then there is no dialog any more.
DialogHeld ==
  /\ queued /\ gDocument => pc["cpu"] = "blocked" /\ result = "none"
  /\ pc["ui"] = "dialog" => pc["cpu"] = "blocked" /\ result = "none" /\ ~queued
  /\ pc["ui"] \in Gone <=> ~gDocument
  /\ fStop => ~gDocument

(* Steps that have nothing to do with dialogs.                             *)
LEMMA DialogLeftAlone ==
  ASSUME DialogHeld, UNCHANGED <<queued, result, gDocument, fStop>>,
         pc'["cpu"] # pc["cpu"] => pc["cpu"] # "blocked",
         pc'["ui"] # pc["ui"] => {pc["ui"], pc'["ui"]} \cap (Gone \cup {"dialog"}) = {}
  PROVE  DialogHeld'
BY DEF DialogHeld, Gone

LEMMA CPUDialogs ==
  ASSUME TypeOK, DialogHeld, CPUThread
  PROVE  DialogHeld'
<1>1. pc \in [Threads -> CPULabels \cup UILabels]
  BY DEF TypeOK
<1>2. CASE RunSuspend \/ RunCall \/ RunStop \/ Catch \/ Crash \/ StillBlocked \/ DebugButton
  <2>1. /\ UNCHANGED <<queued, result, gDocument, fStop>> /\ pc'["ui"] = pc["ui"]
        /\ pc'["cpu"] # pc["cpu"] => pc["cpu"] # "blocked"
    BY <1>1, <1>2
    DEF RunSuspend, RunCall, RunStop, Catch, Crash, StillBlocked, DebugButton, InRun, ThrowTo,
        Goto, dialog, state, Threads
  <2>2. QED
    BY <2>1, DialogLeftAlone
<1>3. CASE BreakOnSysCall \/ SuspendSysCall \/ IgnoreSysCall \/ WakeUITask
           \/ NeedDialog \/ DeferredError
  <2>1. /\ UNCHANGED <<queued, result, gDocument, fStop>> /\ pc'["ui"] = pc["ui"]
        /\ pc["cpu"] # "blocked"
    BY <1>1, <1>3
    DEF BreakOnSysCall, SuspendSysCall, IgnoreSysCall, WakeUITask, NeedDialog, DeferredError,
        BeginCall, GuestStep, CanStep, Executing, Goto, dialog, state, Threads
  <2>2. QED
    BY <2>1, DialogLeftAlone
<1>4. CASE BlockOnDialog
  <2>1. /\ pc["cpu"] = "asking" /\ pc'["cpu"] = "blocked" /\ pc'["ui"] = pc["ui"]
        /\ result' = "none" /\ UNCHANGED <<gDocument, fStop>>
    BY <1>1, <1>4 DEF BlockOnDialog, Goto, Threads
  <2>2. QED
    BY <2>1 DEF DialogHeld, Gone
<1>5. CASE Unblock
  <2>1. pc'["ui"] = pc["ui"]
    BY <1>1, <1>5 DEF Unblock, ActOn, ThrowTo, Goto, Threads
  <2>2. UNCHANGED <<queued, gDocument, fStop>> /\ (result # "none" \/ fStop)
    BY <1>5 DEF Unblock, Answered
  <2>3. QED
    BY <2>1, <2>2 DEF DialogHeld, Gone
<1>6. QED
  BY <1>2, <1>3, <1>4, <1>5 DEF CPUThread

LEMMA UIDialogs ==
  ASSUME TypeOK, DialogHeld, UIThread
  PROVE  DialogHeld'
<1>1. pc \in [Threads -> CPULabels \cup UILabels]
  BY DEF TypeOK
<1>2. ASSUME NEW how, SuspendThread(how) PROVE DialogHeld'
  <2>1. /\ UNCHANGED <<queued, result, gDocument, fStop>> /\ pc'["cpu"] = pc["cpu"]
        /\ pc["ui"] = "idle" /\ pc'["ui"] \in {"idle", "suspending"}
    BY <1>1, <1>2
    DEF SuspendThread, Free, SuspendLoop, WaitToSuspend, FinishSuspend, Goto, dialog, state, Threads
  <2>2. QED
    BY <2>1, DialogLeftAlone DEF Gone
<1>3. CASE AwaitSuspend
  <2>1. /\ UNCHANGED <<queued, result, gDocument, fStop>> /\ pc'["cpu"] = pc["cpu"]
        /\ pc["ui"] = "suspending" /\ pc'["ui"] \in {"idle", "suspending"}
    BY <1>1, <1>3
    DEF AwaitSuspend, SuspendLoop, WaitToSuspend, FinishSuspend, Goto, dialog, state, Threads
  <2>2. QED
    BY <2>1, DialogLeftAlone DEF Gone
<1>4. CASE ResumeThread \/ CallROM \/ CatchInSLP \/ DoReset \/ ExitDebugger \/ SetSuspendState
  <2>1. /\ UNCHANGED <<queued, result, gDocument, fStop>> /\ pc'["cpu"] = pc["cpu"]
        /\ {pc["ui"], pc'["ui"]} \subseteq {"idle", "call", "caught", "reset", "exitDebugger"}
    BY <1>1, <1>4
    DEF ResumeThread, CallROM, BeginCall, CatchInSLP, DoReset, ExitDebugger, SetSuspendState,
        Free, Goto, dialog, state, Threads
  <2>2. QED
    BY <2>1, DialogLeftAlone DEF Gone
<1>5. CASE OpenDialog
  <2>1. /\ queued /\ gDocument /\ ~queued' /\ pc["ui"] = "idle" /\ pc'["ui"] = "dialog"
        /\ pc'["cpu"] = pc["cpu"] /\ UNCHANGED <<result, gDocument, fStop>>
    BY <1>1, <1>5 DEF OpenDialog, Free, Goto, state, Threads
  <2>2. QED
    BY <2>1 DEF DialogHeld, Gone
<1>6. CASE AnswerDialog
  <2>1. /\ pc["ui"] = "dialog" /\ pc'["ui"] = "answered"
        /\ pc'["cpu"] = pc["cpu"] /\ UNCHANGED <<queued, gDocument, fStop>>
    BY <1>1, <1>6 DEF AnswerDialog, Goto, state, Threads
  <2>2. QED
    BY <2>1 DEF DialogHeld, Gone
<1>7. CASE UnblockDialog
  <2>1. /\ UNCHANGED <<queued, result, gDocument, fStop>> /\ pc'["cpu"] = pc["cpu"]
        /\ pc["ui"] = "answered" /\ pc'["ui"] = "idle"
    BY <1>1, <1>7 DEF UnblockDialog, Goto, dialog, state, Threads
  <2>2. QED
    BY <2>1, DialogLeftAlone DEF Gone
<1>8. CASE DropDialogs
  BY <1>8 DEF DropDialogs, DialogHeld, flow, state
<1>9. CASE CloseDocument
  <2>1. /\ ~gDocument' /\ pc["ui"] = "idle" /\ pc'["ui"] = "closing"
        /\ pc'["cpu"] = pc["cpu"] /\ UNCHANGED <<queued, result, fStop>>
    BY <1>1, <1>9 DEF CloseDocument, Free, Goto, state, Threads
  <2>2. QED
    BY <2>1 DEF DialogHeld, Gone
<1>10. CASE DestroyThread \/ AwaitStopped
  <2>1. /\ pc["ui"] \in Gone /\ pc'["ui"] \in Gone
        /\ pc'["cpu"] = pc["cpu"] /\ UNCHANGED gDocument
    BY <1>1, <1>10 DEF DestroyThread, AwaitStopped, Goto, dialog, Threads, Gone
  <2>2. QED
    BY <2>1 DEF DialogHeld, Gone
<1>11. QED
  BY <1>2, <1>3, <1>4, <1>5, <1>6, <1>7, <1>8, <1>9, <1>10 DEF UIThread

(* Where a thread that runs or calls the guest goes, and what it leaves.   *)
Busy == {"idle", "run", "call", "exec", "leave", "return", "caught", "reset", "sysCall", "patch"}

LEMMA LoopMoves ==
  ASSUME TypeInv, NEW t \in Threads, Loop(t) \/ Guest(t)
  PROVE  /\ UNCHANGED <<queued, result, gDocument, fStop, stoppers, snapshot>>
         /\ pc[t] \in Busy
         /\ \E label : pc' = [pc EXCEPT ![t] = label] /\ (t = "ui" => label \in Busy)
<1> USE DEF Busy
<1>1. pc \in [Threads -> CPULabels \cup UILabels]
  BY DEF TypeInv, TypeOK
<1>2. CASE CallCPU(t) \/ ReenterCall(t) \/ Unwind(t) \/ LeaveCPU(t) \/ Reset(t) \/ PatchDone(t)
  BY <1>2 DEF CallCPU, ReenterCall, Unwind, LeaveCPU, Reset, PatchDone, Goto, dialog, state, guest
<1>3. CASE ReturnFromCall(t)
  <2> DEFINE after == AfterCall[Top(t).kind]
  <2>1. /\ UNCHANGED <<queued, result, gDocument, fStop, stoppers, snapshot>> /\ pc[t] = "return"
        /\ pc' = [pc EXCEPT ![t] = after]
    BY <1>3 DEF ReturnFromCall, Goto, dialog, guest
  <2>2. ASSUME t = "ui" PROVE after \in Busy
    <3>1. calls[t] \in Seq(Frames) /\ calls[t] # <<>>
      BY <2>1, <2>2 DEF TypeInv, TypeOK, StackShape, StackLabels
    <3>2. Top(t) = calls[t][Len(calls[t])] /\ Len(calls[t]) \in Nat \ {0}
      BY <3>1, FrontLast DEF Top
    <3>3. Top(t).kind \in {"rom", "patch"}
      BY <2>2, <3>1, <3>2 DEF TypeInv, StackShape, StackKinds
    <3>4. QED
      BY <3>3 DEF AfterCall
  <2> HIDE DEF after
  <2>3. QED
    BY <2>1, <2>2
<1>4. CASE ExecuteSpecialNested(t) \/ ExecuteReset(t) \/ PatchCall(t) \/ NestedError(t)
  BY <1>4
  DEF ExecuteSpecialNested, ExecuteReset, PatchCall, NestedError, GuestStep, CanStep,
      Executing, BeginCall, Goto, dialog, state, guest
<1>5. ASSUME pc[t] = "exec", pc' = pc, UNCHANGED <<queued, result, gDocument, fStop, stoppers, snapshot>>
      PROVE  pc' = [pc EXCEPT ![t] = "exec"]
  BY <1>1, <1>5
<1>6. CASE \/ CycleSlowly(t) \/ SubroutineReturn(t) \/ SignalSend(t) \/ SignalResume(t)
           \/ Breakpoint(t) \/ ScheduleReset(t)
  BY <1>5, <1>6
  DEF CycleSlowly, SubroutineReturn, SignalSend, SignalResume, Breakpoint, ScheduleReset,
      GuestStep, CanStep, Executing, flow, dialog, state, guest
<1>7. CASE ExecuteSpecial(t)
  BY <1>5, <1>7 DEF ExecuteSpecial, Executing, Goto, dialog, state, guest
<1>8. QED
  BY <1>2, <1>3, <1>4, <1>6, <1>7 DEF Loop, Guest

LEMMA LoopDialogs ==
  ASSUME TypeInv, DialogHeld, NEW t \in Threads, Loop(t) \/ Guest(t)
  PROVE  DialogHeld'
<1>1. pc \in [Threads -> CPULabels \cup UILabels]
  BY DEF TypeInv, TypeOK
<1>2. /\ UNCHANGED <<queued, result, gDocument, fStop>> /\ pc[t] \in Busy
      /\ \E label : pc' = [pc EXCEPT ![t] = label] /\ (t = "ui" => label \in Busy)
  BY LoopMoves
<1>3. /\ pc'["cpu"] # pc["cpu"] => pc["cpu"] # "blocked"
      /\ pc'["ui"] # pc["ui"] => {pc["ui"], pc'["ui"]} \cap (Gone \cup {"dialog"}) = {}
  BY <1>1, <1>2 DEF Busy, Gone, Threads
<1>4. QED
  BY <1>2, <1>3, DialogLeftAlone

(* The answer to a dialog finds the frame that asked, and finds it waiting:*)
(* with any features, even when the document is closed meanwhile.          *)
THEOREM AnswersReachTheAsker == Spec => []AnswerReachesAsker
<1>1. Init => DialogHeld
  BY DEF Init, DialogHeld, Gone, Threads
<1>2. TypeInv /\ DialogHeld /\ [Next]_vars => DialogHeld'
  <2>1. ASSUME TypeOK, DialogHeld, UNCHANGED vars PROVE DialogHeld'
    BY <2>1 DEF DialogHeld, vars, flow, state, dialog
  <2>2. QED
    BY <2>1, CPUDialogs, UIDialogs, LoopDialogs DEF TypeInv, Next
<1>3. DialogHeld => AnswerReachesAsker
  BY DEF DialogHeld, AnswerReachesAsker
<1>4. QED
  BY <1>1, <1>2, <1>3, TypeInvariant, PTL DEF Spec
-----------------------------------------------------------------------------
(* Stops, when no exception unwinds a call, the CPU thread shows no dialog,*)
(* and nobody resets the session without stopping it (Calm): StopDiscipline*)
(* is inductive, and with it a stop in force excludes the guest.           *)

Discipline == TypeInv /\ StopDiscipline

(* What the types say of the stacks and the counters.                      *)
LEMMA StackFacts ==
  ASSUME TypeOK
  PROVE  /\ fSuspend.ui \in Int /\ snapshot.ui \in Int /\ fNestLevel \in Nat
         /\ \A t \in Threads :
              /\ Depth(t) \in Nat /\ DOMAIN calls[t] = 1 .. Depth(t)
              /\ calls[t] = <<>> <=> Depth(t) = 0
              /\ \A i \in DOMAIN calls[t] : calls[t][i] \in Frames /\ calls[t][i].old.ui \in Int
<1>1. fSuspend.ui \in Int /\ snapshot.ui \in Int /\ fNestLevel \in Nat
  BY DEF TypeOK, Counters
<1>2. ASSUME NEW t \in Threads
      PROVE  /\ Depth(t) \in Nat /\ DOMAIN calls[t] = 1 .. Depth(t)
             /\ calls[t] = <<>> <=> Depth(t) = 0
             /\ \A i \in DOMAIN calls[t] : calls[t][i] \in Frames /\ calls[t][i].old.ui \in Int
  <2>1. calls[t] \in Seq(Frames)
    BY DEF TypeOK
  <2>2. Len(calls[t]) \in Nat /\ DOMAIN calls[t] = 1 .. Len(calls[t])
    BY <2>1
  <2>3. calls[t] = <<>> <=> Len(calls[t]) = 0
    BY <2>1, EmptySeq
  <2>4. \A i \in DOMAIN calls[t] : calls[t][i] \in Frames
    BY <2>1
  <2>5. \A f \in Frames : f.old.ui \in Int
    BY DEF Frames, Counters
  <2>6. QED
    BY <2>2, <2>3, <2>4, <2>5 DEF Depth
<1>3. QED
  BY <1>1, <1>2

(* The stops in force are finitely many.                                   *)
LEMMA StopsFinite ==
  ASSUME TypeOK
  PROVE  /\ IsFiniteSet(Stops) /\ Cardinality(Stops) \in Nat
         /\ Stops = {} <=> Cardinality(Stops) = 0
<1>1. stoppers \in Seq(Stoppers)
  BY DEF TypeOK
<1>2. Len(stoppers) \in Nat /\ DOMAIN stoppers = 1 .. Len(stoppers)
  BY <1>1
<1>3. IsFiniteSet(1 .. Len(stoppers))
  BY <1>2, FS_Interval
<1>4. IsFiniteSet(Stops)
  BY <1>2, <1>3, FS_Subset DEF Stops
<1>5. QED
  BY <1>4, FS_CardinalityType, FS_EmptySet

----------------------------------------------------------------------------
LEMMA DisciplineInit == Init => StopDiscipline
<1> SUFFICES ASSUME Init PROVE StopDiscipline
  OBVIOUS
<1>1. /\ calls["cpu"] = <<>> /\ calls["ui"] = <<>> /\ stoppers = <<>>
      /\ pc["cpu"] = "run" /\ pc["ui"] = "idle" /\ fSuspend.ui = 0
      /\ fState = "kRunning" /\ fNestLevel = 0 /\ fStop = FALSE
      /\ \A t \in Threads : thrown[t] = "none"
  BY DEF Init, Threads, NoCounters
<1>2. Stops = {} /\ Cardinality(Stops) = 0 /\ Depth("ui") = 0
  BY <1>1, FS_EmptySet, EmptySeq DEF Stops, Depth
<1>3. StackShape
  BY TypeInit DEF TypeInv
<1>4. NoException /\ NoNegativeRequest /\ FramesRestore /\ LevelIsDepth
  BY <1>1, <1>2 DEF NoException, NoNegativeRequest, FramesRestore, CPUFrames, UIFrames, LevelIsDepth, Threads
<1>5. CPUAtWork /\ CPUWaits /\ StopsInForce /\ StopRequested /\ Closing
  BY <1>1, <1>2 DEF CPUAtWork, CPUWaits, StopsInForce, RequestsKept, StopRequested, Closing
<1>6. QED
  BY <1>3, <1>4, <1>5 DEF StopDiscipline

----------------------------------------------------------------------------
(* A thread that runs the guest's code goes on to another part of its loop.*)
LEMMA WorkKeeps ==
  ASSUME Discipline, TypeInv', NEW t \in Threads,
         NEW label \in {"exec", "leave", "reset"},
         pc[t] \in {"exec", "patch", "sysCall"},
         label = "reset" => ~Nested,
         pc' = [pc EXCEPT ![t] = label],
         fSuspend'.ui = fSuspend.ui,
         UNCHANGED <<fStop, fState, fNestLevel, calls, thrown, stoppers, snapshot>>
  PROVE  StopDiscipline'
<1>1. TypeOK /\ StackShape'
  BY DEF Discipline, TypeInv
<1>2. Stops' = Stops /\ Cardinality(Stops)' = Cardinality(Stops)
  BY DEF Stops
<1>3. RequestsKept' = RequestsKept
  BY DEF RequestsKept
<1>4. /\ pc'[t] = label /\ \A u \in Threads : Depth(u)' = Depth(u)
      /\ \A u \in Threads : u # t => pc'[u] = pc[u]
  BY <1>1 DEF TypeOK, Depth
<1>5. NoException' /\ NoNegativeRequest' /\ FramesRestore' /\ LevelIsDepth'
  BY <1>4 DEF Discipline, StopDiscipline, NoException, NoNegativeRequest, FramesRestore, CPUFrames, UIFrames,
              LevelIsDepth, Threads
<1>6. ASSUME t = "cpu" PROVE CPUAtWork' /\ CPUWaits' /\ StopsInForce'
  <2>0. calls["cpu"] # <<>> /\ calls["ui"] = <<>> /\ Stops = {} /\ fState = "kRunning"
    BY <1>6 DEF Discipline, StopDiscipline, CPUAtWork
  <2>1. label = "reset" => Depth("cpu") = 1
    <3>1. fNestLevel = Depth("cpu") - 1
      BY <2>0 DEF Discipline, StopDiscipline, LevelIsDepth
    <3>2. fNestLevel \in Nat /\ Depth("cpu") \in Nat
      BY <1>1, StackFacts DEF Threads
    <3>3. label = "reset" => ~(fNestLevel > 0)
      BY DEF Nested
    <3>4. QED
      BY <3>1, <3>2, <3>3
  <2>2. CPUAtWork' /\ CPUWaits'
    BY <1>2, <1>4, <1>6, <2>0, <2>1 DEF CPUAtWork, CPUWaits, Threads
  <2>3. StopsInForce'
    BY <1>2, <1>3, <1>4, <1>6, <2>0 DEF Discipline, StopDiscipline, StopsInForce, Threads
  <2>4. QED
    BY <2>2, <2>3
<1>7. ASSUME t = "ui" PROVE CPUAtWork' /\ CPUWaits' /\ StopsInForce'
  <2>1. calls["ui"] # <<>>
    <3>1. pc["ui"] \in {"exec", "patch"}
      BY <1>1, <1>7 DEF TypeOK, UILabels
    <3>2. QED
      BY <3>1 DEF Discipline, TypeInv, StackShape, StackLabels
  <2>2. pc["cpu"] = "inner" /\ calls["cpu"] = <<>>
    BY <2>1 DEF Discipline, StopDiscipline, CPUAtWork
  <2>3. label # "reset"
    BY <1>1, <2>1, <2>2, StackFacts DEF Discipline, StopDiscipline, LevelIsDepth, Nested, Threads
  <2>4. CPUAtWork' /\ CPUWaits'
    BY <1>4, <1>7, <2>1, <2>2, <2>3 DEF CPUAtWork, CPUWaits, Threads
  <2>5. StopsInForce'
    BY <1>2, <1>3, <1>4, <1>7, <2>1, <2>3 DEF Discipline, StopDiscipline, StopsInForce, Threads
  <2>6. QED
    BY <2>4, <2>5
<1>8. CPUAtWork' /\ CPUWaits' /\ StopsInForce'
  BY <1>6, <1>7 DEF Threads
<1>9. /\ StopRequested' /\ Closing'
  BY <1>2, <1>4 DEF Discipline, StopDiscipline, StopRequested, Closing, Threads, Stopper
<1>10. QED
  BY <1>1, <1>5, <1>8, <1>9 DEF StopDiscipline

----------------------------------------------------------------------------
(* While the CPU thread is outside Run's inner loop nobody holds the guest.*)
LEMMA GuestFree ==
  ASSUME Discipline, pc["cpu"] # "inner"
  PROVE  Stops = {} /\ calls["ui"] = <<>>
BY DEF Discipline, StopDiscipline, CPUAtWork

(* A stop in force: the CPU thread is in its inner loop, outside any call. *)
LEMMA StopHolds ==
  ASSUME Discipline, Stops # {} \/ calls["ui"] # <<>>
  PROVE  /\ pc["cpu"] = "inner" /\ calls["cpu"] = <<>>
         /\ Stops # {} /\ fNestLevel = Depth("ui")
         /\ calls["ui"] = <<>> => fState = "kSuspended" /\ fNestLevel = 0
<1>1. Stops # {} /\ pc["cpu"] = "inner"
  BY DEF Discipline, StopDiscipline, StopsInForce, CPUAtWork
<1>2. calls["cpu"] = <<>>
  BY <1>1 DEF Discipline, StopDiscipline, CPUAtWork
<1>3. fNestLevel = Depth("ui")
  BY <1>2 DEF Discipline, StopDiscipline, LevelIsDepth
<1>4. calls["ui"] = <<>> => Depth("ui") = 0
  BY StackFacts DEF Discipline, TypeInv, Threads
<1>5. QED
  BY <1>1, <1>2, <1>3, <1>4 DEF Discipline, StopDiscipline, StopsInForce

(* The UI thread, outside any call, turns to something else.               *)
LEMMA UIKeeps ==
  ASSUME Discipline, TypeInv', NEW label \in UILabels,
         calls["ui"] = <<>>, label \notin {"suspending", "caught"},
         label \in {"reset", "exitDebugger"} => Stops # {},
         label = "exitDebugger" => snapshot'.ui >= Cardinality(Stops),
         fStop => label \in {"destroying", "gone"},
         label \in {"closing", "destroying", "gone"} => stoppers = <<>>,
         pc'["ui"] = label, pc'["cpu"] = pc["cpu"],
         UNCHANGED <<fStop, fState, fSuspend, fNestLevel, calls, thrown, stoppers>>
  PROVE  StopDiscipline'
<1>1. StackShape'
  BY DEF TypeInv
<1>2. Stops' = Stops /\ Cardinality(Stops)' = Cardinality(Stops)
  BY DEF Stops
<1>3. RequestsKept' = RequestsKept /\ \A u \in Threads : Depth(u)' = Depth(u)
  BY DEF RequestsKept, Depth
<1>4. NoException' /\ NoNegativeRequest' /\ FramesRestore' /\ LevelIsDepth'
  BY <1>3 DEF Discipline, StopDiscipline, NoException, NoNegativeRequest, FramesRestore, CPUFrames, UIFrames,
              LevelIsDepth, Threads
<1>5. CPUAtWork' /\ CPUWaits'
  BY <1>2, <1>3 DEF Discipline, StopDiscipline, CPUAtWork, CPUWaits, Threads
<1>6. StopsInForce'
  BY <1>2, <1>3 DEF Discipline, StopDiscipline, StopsInForce
<1>7. StopRequested' /\ Closing'
  BY <1>2 DEF Discipline, StopDiscipline, StopRequested, Closing
<1>8. QED
  BY <1>1, <1>4, <1>5, <1>6, <1>7 DEF StopDiscipline

----------------------------------------------------------------------------
(* The CPU thread's outer loop.                                            *)

LEMMA RunSuspendKeeps ==
  ASSUME Discipline, TypeInv', RunSuspend
  PROVE  StopDiscipline'
<1>1. TypeOK /\ StackShape'
  BY DEF Discipline, TypeInv
<1>2. /\ pc'["cpu"] = "inner" /\ pc'["ui"] = pc["ui"] /\ pc["cpu"] \in {"run", "inner"}
      /\ fState' = IF Nested THEN fState ELSE "kSuspended"
      /\ Nested \/ fSuspend # NoCounters
      /\ UNCHANGED <<fStop, fSuspend, fNestLevel, calls, thrown, stoppers, snapshot>>
  BY <1>1 DEF RunSuspend, InRun, MustBlock, Goto, TypeOK, Threads, stack, guest
<1>3. Stops' = Stops /\ Cardinality(Stops)' = Cardinality(Stops)
  BY <1>2 DEF Stops
<1>4. RequestsKept' = RequestsKept /\ \A u \in Threads : Depth(u)' = Depth(u)
  BY <1>2 DEF RequestsKept, Depth
<1>5. calls["cpu"] = <<>> /\ fNestLevel = Depth("ui")
  BY <1>2 DEF Discipline, StopDiscipline, CPUAtWork, LevelIsDepth
<1>6. Nested <=> calls["ui"] # <<>>
  BY <1>1, <1>5, StackFacts DEF Nested, Threads
<1>7. NoException' /\ NoNegativeRequest' /\ FramesRestore' /\ LevelIsDepth'
  BY <1>2, <1>4 DEF Discipline, StopDiscipline, NoException, NoNegativeRequest, FramesRestore, CPUFrames, UIFrames,
              LevelIsDepth, Threads
<1>8. CPUAtWork' /\ CPUWaits'
  BY <1>2, <1>3, <1>5, <1>6 DEF CPUAtWork, CPUWaits
<1>9. StopsInForce'
  <2>1. fState' = IF calls["ui"] # <<>> THEN fState ELSE "kSuspended"
    BY <1>2, <1>6
  <2>2. CASE calls["ui"] = <<>>
    BY <1>2, <1>3, <1>4, <2>1, <2>2 DEF Discipline, StopDiscipline, StopsInForce
  <2>3. CASE calls["ui"] # <<>>
    <3>1. fState' = fState
      BY <2>1, <2>3
    <3>2. StopsInForce
      BY DEF Discipline, StopDiscipline
    <3>3. /\ RequestsKept' >= Cardinality(Stops)'
          /\ pc'["ui"] \notin {"reset", "exitDebugger"}
          /\ Stops' # {} /\ calls'["ui"] # <<>>
      BY <1>2, <1>3, <1>4, <2>3, <3>2 DEF StopsInForce
    <3>4. fState' = IF Depth("ui")' = 1 /\ pc'["ui"] \in {"call", "return"}
                      THEN "kSuspended" ELSE "kRunning"
      BY <1>2, <1>4, <2>3, <3>1, <3>2 DEF StopsInForce, Threads
    <3>5. QED
      BY <3>3, <3>4 DEF StopsInForce
  <2>4. QED
    BY <2>2, <2>3
<1>10. StopRequested' /\ Closing'
  BY <1>2, <1>3 DEF Discipline, StopDiscipline, StopRequested, Closing, Stopper
<1>11. QED
  BY <1>1, <1>7, <1>8, <1>9, <1>10 DEF StopDiscipline

(* Only a reason to run, and nobody's stop, ends the inner loop.           *)
LEMMA RunCallKeeps ==
  ASSUME Discipline, TypeInv', RunCall
  PROVE  StopDiscipline'
<1> DEFINE f == [kind |-> "run", old |-> NoCounters, nest |-> 0, saved |-> fState]
<1>1. TypeOK /\ StackShape'
  BY DEF Discipline, TypeInv
<1>2. /\ pc["cpu"] \in {"run", "inner"} /\ fSuspend = NoCounters
      /\ pc["cpu"] = "inner" => ~Nested
      /\ pc'["cpu"] = "call" /\ pc'["ui"] = pc["ui"]
      /\ calls'["cpu"] = <<f>> /\ calls'["ui"] = calls["ui"]
      /\ UNCHANGED <<fStop, fState, fSuspend, fNestLevel, thrown, stoppers, snapshot>>
  BY <1>1 DEF RunCall, InRun, MustBlock, Goto, TypeOK, Threads, state, guest
<1>3. Stops' = Stops /\ Cardinality(Stops)' = Cardinality(Stops)
  BY <1>2 DEF Stops
<1>4. fSuspend.ui = 0
  BY <1>2 DEF NoCounters
<1>5. calls["cpu"] = <<>> /\ fNestLevel = Depth("ui")
  BY <1>2 DEF Discipline, StopDiscipline, CPUAtWork, LevelIsDepth
<1>6. calls["ui"] = <<>> /\ fNestLevel = 0
  <2>1. CASE pc["cpu"] = "run"
    BY <1>1, <1>5, <2>1, GuestFree, StackFacts DEF Threads
  <2>2. CASE pc["cpu"] = "inner"
    BY <1>1, <1>2, <1>5, <2>2, StackFacts DEF Nested, Threads
  <2>3. QED
    BY <1>2, <2>1, <2>2
<1>7. Stops = {}
  BY <1>1, <1>4, <1>6, StopsFinite DEF Discipline, StopDiscipline, StopsInForce, RequestsKept
<1>8. fState = "kRunning"
  BY <1>2, <1>6 DEF Discipline, StopDiscipline, CPUAtWork, CPUWaits
<1>9. f.saved = "kRunning" /\ f.old.ui = 0
  BY <1>8 DEF NoCounters
<1> HIDE DEF f
<1>10. DOMAIN calls'["cpu"] = {1} /\ calls'["cpu"][1] = f /\ calls'["cpu"] # <<>> /\ Depth("cpu")' = 1
  BY <1>2 DEF Depth
<1>11. NoException' /\ NoNegativeRequest' /\ FramesRestore' /\ LevelIsDepth'
  BY <1>2, <1>4, <1>6, <1>9, <1>10
  DEF Discipline, StopDiscipline, NoException, NoNegativeRequest, FramesRestore, CPUFrames, UIFrames, LevelIsDepth, Threads
<1>12. CPUAtWork' /\ CPUWaits'
  BY <1>2, <1>3, <1>6, <1>7, <1>8, <1>10 DEF CPUAtWork, CPUWaits
<1>13. StopsInForce'
  BY <1>2, <1>3, <1>6, <1>7 DEF Discipline, StopDiscipline, StopsInForce, RequestsKept
<1>14. StopRequested' /\ Closing'
  <2>1. pc["ui"] = "suspending" => Stopper.how # "kStopNow"
    BY <1>1, <1>4, <1>5, StackFacts DEF Discipline, StopDiscipline, StopRequested, Threads
  <2>2. QED
    BY <1>2, <1>3, <1>7, <2>1 DEF Discipline, StopDiscipline, StopRequested, Closing, Stopper
<1>15. QED
  BY <1>1, <1>11, <1>12, <1>13, <1>14 DEF StopDiscipline

LEMMA RunStopKeeps ==
  ASSUME Discipline, TypeInv', RunStop
  PROVE  StopDiscipline'
<1>1. TypeOK /\ StackShape'
  BY DEF Discipline, TypeInv
<1>2. /\ pc'["cpu"] = "stopped" /\ pc'["ui"] = pc["ui"] /\ pc["cpu"] \in {"run", "inner"}
      /\ fState' = "kStopped" /\ fStop
      /\ UNCHANGED <<fStop, fSuspend, fNestLevel, calls, thrown, stoppers, snapshot>>
  BY <1>1 DEF RunStop, InRun, Goto, TypeOK, Threads, stack, guest
<1>3. Stops' = Stops /\ Cardinality(Stops)' = Cardinality(Stops)
  BY <1>2 DEF Stops
<1>4. RequestsKept' = RequestsKept /\ \A u \in Threads : Depth(u)' = Depth(u)
  BY <1>2 DEF RequestsKept, Depth
<1>5. pc["ui"] \in {"destroying", "gone"} /\ stoppers = <<>>
  BY <1>2 DEF Discipline, StopDiscipline, Closing
<1>6. calls["ui"] = <<>> /\ Stops = {}
  BY <1>5 DEF Discipline, TypeInv, StackShape, StackLabels, Stops
<1>7. calls["cpu"] = <<>>
  BY <1>2 DEF Discipline, StopDiscipline, CPUAtWork
<1>8. NoException' /\ NoNegativeRequest' /\ FramesRestore' /\ LevelIsDepth'
  BY <1>2, <1>4 DEF Discipline, StopDiscipline, NoException, NoNegativeRequest, FramesRestore, CPUFrames, UIFrames,
              LevelIsDepth, Threads
<1>9. CPUAtWork' /\ CPUWaits'
  BY <1>2, <1>3, <1>6, <1>7 DEF CPUAtWork, CPUWaits
<1>10. StopsInForce'
  BY <1>2, <1>3, <1>4, <1>5, <1>6 DEF Discipline, StopDiscipline, StopsInForce
<1>11. StopRequested' /\ Closing'
  BY <1>2, <1>5 DEF Discipline, StopDiscipline, StopRequested, Closing
<1>12. QED
  BY <1>1, <1>8, <1>9, <1>10, <1>11 DEF StopDiscipline

----------------------------------------------------------------------------
(* Calls: what they set aside they give back.                              *)

(* A call made by the CPU thread, which runs the guest.                    *)
LEMMA CPUBegins ==
  ASSUME Discipline, TypeInv', NEW kind \in CallKinds \ {"run"},
         pc["cpu"] \in {"exec", "patch", "sysCall"}, BeginCall("cpu", kind)
  PROVE  StopDiscipline'
<1> DEFINE f == [kind |-> kind, old |-> fSuspend, nest |-> fNestLevel, saved |-> fState]
           n == Depth("cpu")
<1>1. TypeOK /\ StackShape'
  BY DEF Discipline, TypeInv
<1>2. /\ pc'["cpu"] = "call" /\ pc'["ui"] = pc["ui"]
      /\ fSuspend' = NoCounters /\ fNestLevel' = fNestLevel + 1
      /\ calls'["cpu"] = Append(calls["cpu"], f) /\ calls'["ui"] = calls["ui"]
      /\ UNCHANGED <<fStop, fState, thrown, stoppers, snapshot>>
  BY <1>1 DEF BeginCall, Goto, TypeOK, Threads, guest
<1>3. f.saved = fState /\ f.old.ui = fSuspend.ui /\ f.nest = fNestLevel
  OBVIOUS
<1> HIDE DEF f
<1>4. /\ n \in Nat /\ DOMAIN calls["cpu"] = 1 .. n /\ DOMAIN calls'["cpu"] = 1 .. n + 1
      /\ Depth("cpu")' = n + 1 /\ calls'["cpu"][n + 1] = f
      /\ \A i \in 1 .. n : calls'["cpu"][i] = calls["cpu"][i]
      /\ calls'["cpu"] # <<>>
  <2>1. calls["cpu"] \in Seq(Frames)
    BY <1>1 DEF TypeOK, Threads
  <2>2. f \in Frames
    BY <1>1 DEF f, Frames, TypeOK
  <2>3. QED
    BY <1>2, <2>1, <2>2, AddLast DEF Depth
<1> HIDE DEF n
<1>5. /\ calls["cpu"] # <<>> /\ calls["ui"] = <<>> /\ Stops = {}
      /\ fState = "kRunning" /\ fNestLevel = n - 1
  BY DEF Discipline, StopDiscipline, CPUAtWork, LevelIsDepth, n
<1>6. Stops' = Stops /\ Cardinality(Stops)' = Cardinality(Stops)
  BY <1>2 DEF Stops
<1>7. n # 0 /\ fSuspend.ui \in Int
  BY <1>1, <1>5, StackFacts DEF n, Threads
<1>8. NoException' /\ NoNegativeRequest'
  <2>1. NoException'
    BY <1>2 DEF Discipline, StopDiscipline, NoException, Threads
  <2>2. fSuspend.ui >= 0 /\ fSuspend'.ui = 0
    BY <1>2 DEF Discipline, StopDiscipline, NoNegativeRequest, NoCounters
  <2>3. \A i \in 1 .. n + 1 : i = n + 1 \/ i \in 1 .. n
    BY <1>4
  <2>4. \A i \in DOMAIN calls'["cpu"] : calls'["cpu"][i].old.ui >= 0
    BY <1>3, <1>4, <2>2, <2>3 DEF Discipline, StopDiscipline, NoNegativeRequest, Threads
  <2>5. \A i \in DOMAIN calls'["ui"] : calls'["ui"][i].old.ui >= 0
    BY <1>2 DEF Discipline, StopDiscipline, NoNegativeRequest, Threads
  <2>6. NoNegativeRequest'
    BY <2>2, <2>4, <2>5 DEF NoNegativeRequest, Threads
  <2>7. QED
    BY <2>1, <2>6
<1>9. FramesRestore' /\ LevelIsDepth'
  BY <1>2, <1>3, <1>4, <1>5, <1>7
  DEF Discipline, StopDiscipline, FramesRestore, CPUFrames, UIFrames, LevelIsDepth
<1>10. CPUAtWork' /\ CPUWaits'
  BY <1>2, <1>4, <1>5, <1>6 DEF CPUAtWork, CPUWaits
<1>11. StopsInForce'
  BY <1>1, <1>2, <1>5, <1>6, StopsFinite
  DEF Discipline, StopDiscipline, StopsInForce, RequestsKept, NoCounters
<1>12. StopRequested' /\ Closing'
  <2>1. fSuspend.ui > 0 => \E i \in DOMAIN calls'["cpu"] : calls'["cpu"][i].old.ui > 0
    <3>1. n + 1 \in DOMAIN calls'["cpu"]
      BY <1>4
    <3>2. calls'["cpu"][n + 1].old.ui = fSuspend.ui
      BY <1>3, <1>4
    <3>3. QED
      BY <3>1, <3>2
  <2>2. ASSUME NEW i \in DOMAIN calls["cpu"], calls["cpu"][i].old.ui > 0
        PROVE  \E j \in DOMAIN calls'["cpu"] : calls'["cpu"][j].old.ui > 0
    BY <1>4, <2>2
  <2>3. QED
    BY <1>2, <1>6, <2>1, <2>2 DEF Discipline, StopDiscipline, StopRequested, Closing, Stopper
<1>13. QED
  BY <1>1, <1>8, <1>9, <1>10, <1>11, <1>12 DEF StopDiscipline

(* A call made by the UI thread: into the ROM, or from a patch in the ROM. *)
LEMMA UIBegins ==
  ASSUME Discipline, TypeInv', NEW kind \in CallKinds, BeginCall("ui", kind),
         IF calls["ui"] = <<>> THEN pc["ui"] = "idle" /\ Stops # {}
                              ELSE pc["ui"] \in {"exec", "patch"}
  PROVE  StopDiscipline'
<1> DEFINE f == [kind |-> kind, old |-> fSuspend, nest |-> fNestLevel, saved |-> fState]
           n == Depth("ui")
<1>1. TypeOK /\ StackShape'
  BY DEF Discipline, TypeInv
<1>2. /\ pc'["ui"] = "call" /\ pc'["cpu"] = pc["cpu"]
      /\ fSuspend' = NoCounters /\ fNestLevel' = fNestLevel + 1
      /\ calls'["ui"] = Append(calls["ui"], f) /\ calls'["cpu"] = calls["cpu"]
      /\ UNCHANGED <<fStop, fState, thrown, stoppers, snapshot>>
  BY <1>1 DEF BeginCall, Goto, TypeOK, Threads, guest
<1>3. f.saved = fState /\ f.old.ui = fSuspend.ui /\ f.nest = fNestLevel
  OBVIOUS
<1> HIDE DEF f
<1>4. /\ n \in Nat /\ DOMAIN calls["ui"] = 1 .. n /\ DOMAIN calls'["ui"] = 1 .. n + 1
      /\ Depth("ui")' = n + 1 /\ calls'["ui"][n + 1] = f
      /\ \A i \in 1 .. n : calls'["ui"][i] = calls["ui"][i]
      /\ calls'["ui"] # <<>>
  <2>1. calls["ui"] \in Seq(Frames)
    BY <1>1 DEF TypeOK, Threads
  <2>2. f \in Frames
    BY <1>1 DEF f, Frames, TypeOK
  <2>3. QED
    BY <1>2, <2>1, <2>2, AddLast DEF Depth
<1> HIDE DEF n
<1>5. /\ pc["cpu"] = "inner" /\ calls["cpu"] = <<>> /\ Stops # {} /\ fNestLevel = n
      /\ fState = IF calls["ui"] = <<>> THEN "kSuspended" ELSE "kRunning"
  BY StopHolds DEF Discipline, StopDiscipline, StopsInForce, n
<1>6. Stops' = Stops /\ Cardinality(Stops)' = Cardinality(Stops)
  BY <1>2 DEF Stops
<1>7. (calls["ui"] = <<>> <=> n = 0) /\ fSuspend.ui \in Int
  BY <1>1, StackFacts DEF n, Threads
<1>8. NoException' /\ NoNegativeRequest'
  <2>1. NoException'
    BY <1>2 DEF Discipline, StopDiscipline, NoException, Threads
  <2>2. fSuspend.ui >= 0 /\ fSuspend'.ui = 0
    BY <1>2 DEF Discipline, StopDiscipline, NoNegativeRequest, NoCounters
  <2>3. NoNegativeRequest'
    <3>1. \A i \in 1 .. n + 1 : i = n + 1 \/ i \in 1 .. n
      BY <1>4
    <3>2. \A i \in DOMAIN calls'["ui"] : calls'["ui"][i].old.ui >= 0
      BY <1>3, <1>4, <2>2, <3>1 DEF Discipline, StopDiscipline, NoNegativeRequest, Threads
    <3>3. \A i \in DOMAIN calls'["cpu"] : calls'["cpu"][i].old.ui >= 0
      BY <1>2 DEF Discipline, StopDiscipline, NoNegativeRequest, Threads
    <3>4. QED
      BY <2>2, <3>2, <3>3 DEF NoNegativeRequest, Threads
  <2>4. QED
    BY <2>1, <2>3
<1>9. FramesRestore' /\ LevelIsDepth'
  BY <1>2, <1>3, <1>4, <1>5, <1>7
  DEF Discipline, StopDiscipline, FramesRestore, CPUFrames, UIFrames, LevelIsDepth
<1>10. CPUAtWork' /\ CPUWaits'
  BY <1>2, <1>4, <1>5, <1>6 DEF CPUAtWork, CPUWaits
<1>11. RequestsKept' = RequestsKept
  BY <1>2, <1>3, <1>4, <1>7 DEF RequestsKept
<1>12. StopsInForce'
  BY <1>2, <1>4, <1>5, <1>6, <1>7, <1>11
  DEF Discipline, StopDiscipline, StopsInForce
<1>13. StopRequested' /\ Closing'
  <2>1. pc["ui"] \in {"idle", "exec", "patch"}
    OBVIOUS
  <2>2. QED
    BY <1>2, <2>1 DEF Discipline, StopDiscipline, StopRequested, Closing
<1>14. QED
  BY <1>1, <1>8, <1>9, <1>10, <1>12, <1>13 DEF StopDiscipline

(* The thread enters its loop, or goes on with it after a broadcast.       *)
LEMMA CallCPUKeeps ==
  ASSUME Discipline, TypeInv', NEW t \in Threads, CallCPU(t)
  PROVE  StopDiscipline'
<1> DEFINE f == [Top(t) EXCEPT !.saved = fState]
           n == Depth(t)
<1>1. TypeOK /\ StackShape'
  BY DEF Discipline, TypeInv
<1>2. pc[t] = "call" /\ calls[t] # <<>>
  BY DEF CallCPU, Discipline, TypeInv, StackShape, StackLabels, Threads
<1>3. /\ pc'[t] = "exec" /\ \A u \in Threads : u # t => pc'[u] = pc[u] /\ calls'[u] = calls[u]
      /\ fState' = "kRunning"
      /\ calls'[t] = Append(Front(calls[t]), f)
      /\ UNCHANGED <<fStop, fSuspend, fNestLevel, thrown, stoppers, snapshot>>
  BY <1>1 DEF CallCPU, Goto, TypeOK, guest
<1>4. /\ n \in Nat \ {0} /\ Top(t) = calls[t][n] /\ Top(t) \in Frames
      /\ calls[t] \in Seq(Frames)
  BY <1>1, <1>2, FrontLast DEF TypeOK, Top, Depth
<1>5. f \in Frames /\ f.saved = fState /\ f.old = Top(t).old /\ f.nest = Top(t).nest
  BY <1>1, <1>4 DEF Frames, TypeOK
<1> HIDE DEF f
<1>6. /\ Depth(t)' = n /\ DOMAIN calls'[t] = 1 .. n /\ DOMAIN calls[t] = 1 .. n
      /\ calls'[t] # <<>> /\ calls'[t][n] = f
      /\ \A i \in 1 .. n - 1 : calls'[t][i] = calls[t][i]
  BY <1>2, <1>3, <1>4, <1>5, ReplaceLast DEF Depth
<1> HIDE DEF n
<1>7. \A i \in 1 .. n : /\ calls'[t][i].old = calls[t][i].old
                        /\ calls'[t][i].nest = calls[t][i].nest
                        /\ i # n => calls'[t][i].saved = calls[t][i].saved
  BY <1>4, <1>5, <1>6
<1>8. Stops' = Stops /\ Cardinality(Stops)' = Cardinality(Stops)
  BY <1>3 DEF Stops
<1>9. \A u \in Threads : Depth(u)' = Depth(u) /\ (calls'[u] = <<>> <=> calls[u] = <<>>)
  BY <1>2, <1>3, <1>6 DEF Depth, n
<1>10. RequestsKept' = RequestsKept
  BY <1>3, <1>4, <1>6, <1>7, <1>9 DEF RequestsKept, Threads
<1>11. NoException' /\ NoNegativeRequest' /\ LevelIsDepth'
  <2>1. NoException' /\ LevelIsDepth'
    BY <1>3, <1>9 DEF Discipline, StopDiscipline, NoException, LevelIsDepth, Threads
  <2>2. \A u \in Threads : /\ DOMAIN calls'[u] = DOMAIN calls[u]
                            /\ \A i \in DOMAIN calls[u] : calls'[u][i].old = calls[u][i].old
    BY <1>3, <1>6, <1>7
  <2>3. NoNegativeRequest'
    BY <1>3, <2>2 DEF Discipline, StopDiscipline, NoNegativeRequest
  <2>4. QED
    BY <2>1, <2>3
<1>12. CASE t = "cpu"
  <2>1. /\ calls["ui"] = <<>> /\ Stops = {} /\ fState = "kRunning"
        /\ calls'["ui"] = calls["ui"] /\ pc'["ui"] = pc["ui"]
    BY <1>2, <1>3, <1>12 DEF Discipline, StopDiscipline, CPUAtWork, Threads
  <2>2. FramesRestore'
    <3>1. \A i \in 1 .. n : calls'["cpu"][i].saved = "kRunning"
      BY <1>4, <1>5, <1>6, <1>7, <1>12, <2>1 DEF Discipline, StopDiscipline, FramesRestore, CPUFrames, UIFrames
    <3>2. FramesRestore
      BY DEF Discipline, StopDiscipline
    <3>3. \A i \in 1 .. n : /\ i = 1 => calls'["cpu"][i].old.ui = 0
                            /\ i > 1 => calls'["cpu"][i].nest = i - 2
      <4>1. \A i \in 1 .. n : /\ i = 1 => calls["cpu"][i].old.ui = 0
                              /\ i > 1 => calls["cpu"][i].nest = i - 2
        BY <1>6, <1>12, <3>2 DEF FramesRestore, CPUFrames
      <4>2. QED
        BY <1>7, <1>12, <4>1
    <3>4. CPUFrames'
      BY <1>6, <1>12, <3>1, <3>3 DEF CPUFrames
    <3>5. UIFrames'
      BY <2>1, <3>2 DEF FramesRestore, UIFrames
    <3>6. QED
      BY <3>4, <3>5 DEF FramesRestore
  <2>3. CPUAtWork' /\ CPUWaits'
    BY <1>3, <1>6, <1>8, <1>12, <2>1 DEF CPUAtWork, CPUWaits
  <2>4. StopsInForce'
    BY <1>3, <1>8, <1>10, <2>1 DEF Discipline, StopDiscipline, StopsInForce
  <2>5. StopRequested' /\ Closing'
    <3>1. ASSUME NEW i \in DOMAIN calls["cpu"], calls["cpu"][i].old.ui > 0
          PROVE  \E j \in DOMAIN calls'["cpu"] : calls'["cpu"][j].old.ui > 0
      BY <1>6, <1>7, <1>12, <3>1
    <3>2. QED
      BY <1>3, <1>8, <2>1, <3>1 DEF Discipline, StopDiscipline, StopRequested, Closing, Stopper
  <2>6. QED
    BY <1>1, <1>11, <2>2, <2>3, <2>4, <2>5 DEF StopDiscipline
<1>13. CASE t = "ui"
  <2>1. /\ pc["cpu"] = "inner" /\ calls["cpu"] = <<>> /\ Stops # {}
        /\ fState = IF n = 1 THEN "kSuspended" ELSE "kRunning"
        /\ calls'["cpu"] = calls["cpu"] /\ pc'["cpu"] = pc["cpu"]
    BY <1>2, <1>3, <1>13, StopHolds DEF Discipline, StopDiscipline, StopsInForce, Threads, n
  <2>2. FramesRestore'
    <3>1. \A i \in 1 .. n : calls'["ui"][i].saved = IF i = 1 THEN "kSuspended" ELSE "kRunning"
      BY <1>4, <1>5, <1>6, <1>7, <1>13, <2>1 DEF Discipline, StopDiscipline, FramesRestore, CPUFrames, UIFrames
    <3>2. FramesRestore
      BY DEF Discipline, StopDiscipline
    <3>3. \A i \in 1 .. n : calls'["ui"][i].nest = i - 1
      <4>1. \A i \in 1 .. n : calls["ui"][i].nest = i - 1
        BY <1>6, <1>13, <3>2 DEF FramesRestore, UIFrames
      <4>2. QED
        BY <1>7, <1>13, <4>1
    <3>4. UIFrames'
      BY <1>6, <1>13, <3>1, <3>3 DEF UIFrames
    <3>5. CPUFrames'
      BY <2>1, <3>2 DEF FramesRestore, CPUFrames
    <3>6. QED
      BY <3>4, <3>5 DEF FramesRestore
  <2>3. CPUAtWork' /\ CPUWaits'
    BY <1>3, <1>6, <1>8, <1>13, <2>1 DEF CPUAtWork, CPUWaits
  <2>4. StopsInForce'
    BY <1>3, <1>6, <1>8, <1>10, <1>13, <2>1 DEF Discipline, StopDiscipline, StopsInForce
  <2>5. StopRequested' /\ Closing'
    BY <1>2, <1>3, <1>13 DEF Discipline, StopDiscipline, StopRequested, Closing
  <2>6. QED
    BY <1>1, <1>11, <2>2, <2>3, <2>4, <2>5 DEF StopDiscipline
<1>14. QED
  BY <1>12, <1>13 DEF Threads

(* The thread comes out of its loop: fState is as it was on the way in.    *)
LEMMA LeaveKeeps ==
  ASSUME Discipline, TypeInv', NEW t \in Threads, LeaveCPU(t)
  PROVE  StopDiscipline'
<1> DEFINE n == Depth(t)
<1>1. TypeOK /\ StackShape'
  BY DEF Discipline, TypeInv
<1>2. pc[t] = "leave" /\ calls[t] # <<>> /\ thrown[t] = "none"
  BY DEF LeaveCPU, Discipline, StopDiscipline, NoException, StackShape, StackLabels, Threads
<1>3. /\ n \in Nat \ {0} /\ Top(t) = calls[t][n] /\ DOMAIN calls[t] = 1 .. n
  <2>1. calls[t] \in Seq(Frames)
    BY <1>1 DEF TypeOK
  <2>2. n \in Nat \ {0} /\ Top(t) = calls[t][n]
    BY <1>2, <2>1, FrontLast DEF Top, Depth
  <2>3. DOMAIN calls[t] = 1 .. n
    BY <2>1 DEF Depth
  <2>4. QED
    BY <2>2, <2>3
<1>4. /\ \A u \in Threads : u # t => pc'[u] = pc[u] /\ calls'[u] = calls[u]
      /\ fState' = Top(t).saved
      /\ IF Top(t).kind = "run" THEN calls'[t] = <<>> /\ pc'[t] = "run"
                                ELSE calls'[t] = calls[t] /\ pc'[t] = "return"
      /\ UNCHANGED <<fStop, fSuspend, fNestLevel, thrown, stoppers, snapshot>>
  BY <1>1, <1>2 DEF LeaveCPU, Goto, TypeOK, guest
<1>5. Stops' = Stops /\ Cardinality(Stops)' = Cardinality(Stops)
  BY <1>4 DEF Stops
<1>6. CASE t = "cpu"
  <2>1. /\ calls["ui"] = <<>> /\ Stops = {} /\ fState = "kRunning" /\ fNestLevel = n - 1
        /\ calls'["ui"] = <<>> /\ pc'["ui"] = pc["ui"]
    BY <1>2, <1>4, <1>6 DEF Discipline, StopDiscipline, CPUAtWork, LevelIsDepth, Threads
  <2>2. fState' = "kRunning"
    BY <1>3, <1>4, <1>6 DEF Discipline, StopDiscipline, FramesRestore, CPUFrames
  <2>3. StopsInForce'
    BY <1>4, <1>5, <2>1 DEF Discipline, StopDiscipline, StopsInForce, RequestsKept
  <2>4. CASE Top(t).kind = "run"
    <3>1. n = 1
      BY <1>3, <1>6, <2>4 DEF Discipline, TypeInv, StackShape, StackKinds
    <3>2. calls'["cpu"] = <<>> /\ pc'["cpu"] = "run"
      BY <1>4, <1>6, <2>4
    <3>3. Depth("ui")' = 0 /\ fNestLevel = 0
      BY <2>1, <3>1, EmptySeq DEF Depth
    <3>4. NoException' /\ NoNegativeRequest' /\ FramesRestore' /\ LevelIsDepth'
      BY <1>4, <2>1, <3>2, <3>3
      DEF Discipline, StopDiscipline, NoException, NoNegativeRequest, FramesRestore,
          CPUFrames, UIFrames, LevelIsDepth, Threads
    <3>5. CPUAtWork' /\ CPUWaits'
      BY <1>5, <2>1, <2>2, <3>2 DEF CPUAtWork, CPUWaits
    <3>6. \A i \in DOMAIN calls["cpu"] : ~(calls["cpu"][i].old.ui > 0)
      BY <1>3, <1>6, <3>1 DEF Discipline, StopDiscipline, FramesRestore, CPUFrames
    <3>7. StopRequested' /\ Closing'
      BY <1>4, <1>5, <2>1, <3>6 DEF Discipline, StopDiscipline, StopRequested, Closing, Stopper
    <3>8. QED
      BY <1>1, <2>3, <3>4, <3>5, <3>7 DEF StopDiscipline
  <2>5. CASE Top(t).kind # "run"
    <3>1. /\ calls'["cpu"] = calls["cpu"] /\ pc'["cpu"] = "return"
          /\ \A u \in Threads : Depth(u)' = Depth(u)
      BY <1>4, <1>6, <2>1, <2>5 DEF Depth, Threads
    <3>2. NoException' /\ NoNegativeRequest' /\ FramesRestore' /\ LevelIsDepth'
      BY <1>4, <2>1, <3>1
      DEF Discipline, StopDiscipline, NoException, NoNegativeRequest, FramesRestore,
          CPUFrames, UIFrames, LevelIsDepth, Threads
    <3>3. CPUAtWork' /\ CPUWaits'
      BY <1>2, <1>5, <1>6, <2>1, <2>2, <3>1 DEF CPUAtWork, CPUWaits
    <3>4. StopRequested' /\ Closing'
      BY <1>4, <1>5, <2>1, <3>1 DEF Discipline, StopDiscipline, StopRequested, Closing, Stopper
    <3>5. QED
      BY <1>1, <2>3, <3>2, <3>3, <3>4 DEF StopDiscipline
  <2>6. QED
    BY <2>4, <2>5
<1>7. CASE t = "ui"
  <2>1. /\ pc["cpu"] = "inner" /\ calls["cpu"] = <<>> /\ Stops # {}
        /\ calls'["cpu"] = calls["cpu"] /\ pc'["cpu"] = pc["cpu"]
    BY <1>2, <1>4, <1>7, StopHolds DEF Threads
  <2>2. Top(t).kind # "run"
    BY <1>3, <1>7 DEF Discipline, TypeInv, StackShape, StackKinds
  <2>3. /\ calls'["ui"] = calls["ui"] /\ pc'["ui"] = "return"
        /\ \A u \in Threads : Depth(u)' = Depth(u)
    BY <1>4, <1>7, <2>1, <2>2 DEF Depth, Threads
  <2>4. fState' = IF n = 1 THEN "kSuspended" ELSE "kRunning"
    BY <1>3, <1>4, <1>7 DEF Discipline, StopDiscipline, FramesRestore, UIFrames
  <2>5. NoException' /\ NoNegativeRequest' /\ FramesRestore' /\ LevelIsDepth'
    BY <1>4, <2>1, <2>3
    DEF Discipline, StopDiscipline, NoException, NoNegativeRequest, FramesRestore,
        CPUFrames, UIFrames, LevelIsDepth, Threads
  <2>6. CPUAtWork' /\ CPUWaits'
    BY <1>2, <1>5, <1>7, <2>1, <2>3 DEF CPUAtWork, CPUWaits
  <2>7. StopsInForce'
    BY <1>2, <1>4, <1>5, <1>7, <2>1, <2>3, <2>4
    DEF Discipline, StopDiscipline, StopsInForce, RequestsKept, Threads
  <2>8. StopRequested' /\ Closing'
    BY <1>2, <1>4, <1>7, <2>3 DEF Discipline, StopDiscipline, StopRequested, Closing
  <2>9. QED
    BY <1>1, <2>5, <2>6, <2>7, <2>8 DEF StopDiscipline
<1>8. QED
  BY <1>6, <1>7 DEF Threads

(* A call that goes on keeps the requests that arrived meanwhile.          *)
LEMMA ReenterKeeps ==
  ASSUME Discipline, TypeInv', NEW t \in Threads, ReenterCall(t)
  PROVE  StopDiscipline'
<1> DEFINE f == [Top(t) EXCEPT !.old = Folded(Top(t))]
           n == Depth(t)
<1>1. TypeOK /\ StackShape'
  BY DEF Discipline, TypeInv
<1>2. pc[t] = "return" /\ calls[t] # <<>>
  BY EmptySeq DEF ReenterCall, Discipline, TypeInv, StackShape, StackLabels, Threads
<1>3. /\ pc'[t] = "call" /\ \A u \in Threads : u # t => pc'[u] = pc[u] /\ calls'[u] = calls[u]
      /\ fSuspend' = NoCounters /\ fNestLevel' = Top(t).nest + 1
      /\ calls'[t] = Append(Front(calls[t]), f)
      /\ UNCHANGED <<fStop, fState, thrown, stoppers, snapshot>>
  BY <1>1 DEF ReenterCall, LevelBefore, Goto, TypeOK, guest
<1>4. /\ n \in Nat \ {0} /\ Top(t) = calls[t][n] /\ Top(t) \in Frames
      /\ calls[t] \in Seq(Frames) /\ fSuspend \in Counters
  BY <1>1, <1>2, FrontLast DEF TypeOK, Top, Depth
<1>5. Folded(Top(t)) \in Counters /\ Folded(Top(t)).ui = Top(t).old.ui + fSuspend.ui
  <2>1. Top(t).old \in Counters
    BY <1>4 DEF Frames
  <2>2. QED
    BY <1>4, <2>1, FoldedTyped
<1>6. /\ f \in Frames /\ f.saved = Top(t).saved /\ f.nest = Top(t).nest
      /\ f.old = Folded(Top(t))
  BY <1>4, <1>5 DEF Frames
<1> HIDE DEF f
<1>7. /\ Depth(t)' = n /\ DOMAIN calls'[t] = 1 .. n /\ DOMAIN calls[t] = 1 .. n
      /\ calls'[t] # <<>> /\ calls'[t][n] = f
      /\ \A i \in 1 .. n - 1 : calls'[t][i] = calls[t][i]
  BY <1>2, <1>3, <1>4, <1>6, ReplaceLast DEF Depth
<1>8. /\ fSuspend.ui \in Int /\ fSuspend.ui >= 0
      /\ \A i \in 1 .. n : calls[t][i].old.ui \in Int /\ calls[t][i].old.ui >= 0
  BY <1>1, <1>7, StackFacts DEF Discipline, StopDiscipline, NoNegativeRequest
<1>9. \A u \in Threads : Depth(u)' = Depth(u) /\ (calls'[u] = <<>> <=> calls[u] = <<>>)
  BY <1>2, <1>3, <1>7 DEF Depth
<1> HIDE DEF n
<1>10. \A i \in 1 .. n : /\ i = n \/ i \in 1 .. n - 1
                         /\ calls'[t][i].nest = calls[t][i].nest
                         /\ calls'[t][i].saved = calls[t][i].saved
                         /\ calls'[t][i].old.ui >= calls[t][i].old.ui
                         /\ calls'[t][i].old.ui >= 0 /\ calls'[t][i].old.ui \in Int
                         /\ i # n => calls'[t][i].old.ui = calls[t][i].old.ui
  <2>1. \A i \in 1 .. n : i = n \/ i \in 1 .. n - 1
    BY <1>4
  <2>2. /\ calls'[t][n].nest = calls[t][n].nest /\ calls'[t][n].saved = calls[t][n].saved
        /\ calls'[t][n].old.ui = calls[t][n].old.ui + fSuspend.ui
        /\ n \in 1 .. n
    BY <1>4, <1>5, <1>6, <1>7
  <2>3. /\ calls'[t][n].old.ui >= calls[t][n].old.ui
        /\ calls'[t][n].old.ui >= 0 /\ calls'[t][n].old.ui \in Int
    BY <1>8, <2>2
  <2>4. ASSUME NEW i \in 1 .. n - 1
        PROVE  /\ i \in 1 .. n /\ calls'[t][i] = calls[t][i]
               /\ calls'[t][i].old.ui >= calls[t][i].old.ui
               /\ calls'[t][i].old.ui >= 0 /\ calls'[t][i].old.ui \in Int
    <3>1. i \in 1 .. n /\ calls'[t][i] = calls[t][i]
      BY <1>4, <1>7
    <3>2. QED
      BY <1>8, <3>1
  <2>5. QED
    BY <2>1, <2>2, <2>3, <2>4
<1>11. Stops' = Stops /\ Cardinality(Stops)' = Cardinality(Stops)
  BY <1>3 DEF Stops
<1>12. NoException' /\ NoNegativeRequest'
  <2>1. NoException'
    BY <1>3 DEF Discipline, StopDiscipline, NoException, Threads
  <2>2. \A i \in DOMAIN calls'[t] : calls'[t][i].old.ui >= 0
    BY <1>7, <1>10
  <2>3. \A u \in Threads : u # t => \A i \in DOMAIN calls'[u] : calls'[u][i].old.ui >= 0
    BY <1>3 DEF Discipline, StopDiscipline, NoNegativeRequest
  <2>4. fSuspend'.ui = 0
    BY <1>3 DEF NoCounters
  <2>5. QED
    BY <2>1, <2>2, <2>3, <2>4 DEF NoNegativeRequest
<1>13. CASE t = "cpu"
  <2>1. /\ calls["ui"] = <<>> /\ Stops = {} /\ fState = "kRunning"
        /\ calls'["ui"] = calls["ui"] /\ pc'["ui"] = pc["ui"]
    BY <1>2, <1>3, <1>13 DEF Discipline, StopDiscipline, CPUAtWork, Threads
  <2>2. n > 1
    BY <1>2, <1>13 DEF n, Depth, Discipline, TypeInv, StackShape, StackLabels
  <2>3. FramesRestore' /\ LevelIsDepth'
    <3>1. CPUFrames /\ UIFrames
      BY DEF Discipline, StopDiscipline, FramesRestore
    <3>2. CPUFrames'
      <4>1. \A i \in 1 .. n : /\ calls["cpu"][i].saved = "kRunning"
                              /\ i = 1 => calls["cpu"][i].old.ui = 0
                              /\ i > 1 => calls["cpu"][i].nest = i - 2
        BY <1>7, <1>13, <3>1 DEF CPUFrames
      <4>2. \A i \in 1 .. n : /\ calls'["cpu"][i].saved = calls["cpu"][i].saved
                              /\ calls'["cpu"][i].nest = calls["cpu"][i].nest
                              /\ i = 1 => calls'["cpu"][i].old.ui = calls["cpu"][i].old.ui
        BY <1>10, <1>13, <2>2
      <4>3. DOMAIN calls'["cpu"] = 1 .. n
        BY <1>7, <1>13
      <4>4. QED
        BY <4>1, <4>2, <4>3 DEF CPUFrames
    <3>3. UIFrames'
      BY <2>1, <3>1 DEF UIFrames
    <3>4. fNestLevel' = n - 1
      BY <1>3, <1>4, <1>7, <1>13, <2>2, <3>1 DEF CPUFrames
    <3>5. QED
      BY <1>2, <1>7, <1>9, <1>13, <3>2, <3>3, <3>4 DEF FramesRestore, LevelIsDepth
  <2>4. CPUAtWork' /\ CPUWaits'
    BY <1>3, <1>7, <1>11, <1>13, <2>1 DEF CPUAtWork, CPUWaits
  <2>5. StopsInForce'
    BY <1>1, <1>3, <1>11, <2>1, StopsFinite
    DEF Discipline, StopDiscipline, StopsInForce, RequestsKept, NoCounters
  <2>6. StopRequested' /\ Closing'
    <3>1. ASSUME NEW i \in DOMAIN calls["cpu"], calls["cpu"][i].old.ui > 0
          PROVE  calls'["cpu"][i].old.ui > 0 /\ i \in DOMAIN calls'["cpu"]
      <4>1. i \in 1 .. n
        BY <1>7, <1>13
      <4>2. /\ calls["cpu"][i].old.ui \in Int /\ calls'["cpu"][i].old.ui \in Int
            /\ calls'["cpu"][i].old.ui >= calls["cpu"][i].old.ui
        BY <1>8, <1>10, <1>13, <4>1
      <4>3. calls'["cpu"][i].old.ui > 0
        BY <3>1, <4>2
      <4>4. QED
        BY <1>7, <1>13, <4>1, <4>3
    <3>2. ASSUME fSuspend.ui > 0
          PROVE  calls'["cpu"][n].old.ui > 0 /\ n \in DOMAIN calls'["cpu"]
      BY <1>4, <1>5, <1>6, <1>7, <1>8, <1>13, <3>2
    <3>3. QED
      BY <1>3, <1>11, <2>1, <3>1, <3>2
      DEF Discipline, StopDiscipline, StopRequested, Closing, Stopper
  <2>7. QED
    BY <1>1, <1>12, <2>3, <2>4, <2>5, <2>6 DEF StopDiscipline
<1>14. CASE t = "ui"
  <2>1. /\ pc["cpu"] = "inner" /\ calls["cpu"] = <<>> /\ Stops # {}
        /\ fState = IF n = 1 THEN "kSuspended" ELSE "kRunning"
        /\ calls'["cpu"] = calls["cpu"] /\ pc'["cpu"] = pc["cpu"]
    BY <1>2, <1>3, <1>14, StopHolds DEF Discipline, StopDiscipline, StopsInForce, Threads, n
  <2>2. FramesRestore' /\ LevelIsDepth'
    <3>1. CPUFrames /\ UIFrames
      BY DEF Discipline, StopDiscipline, FramesRestore
    <3>2. UIFrames'
      <4>1. \A i \in 1 .. n : /\ calls["ui"][i].saved = IF i = 1 THEN "kSuspended" ELSE "kRunning"
                              /\ calls["ui"][i].nest = i - 1
        BY <1>7, <1>14, <3>1 DEF UIFrames
      <4>2. \A i \in 1 .. n : /\ calls'["ui"][i].saved = calls["ui"][i].saved
                              /\ calls'["ui"][i].nest = calls["ui"][i].nest
        BY <1>10, <1>14
      <4>3. DOMAIN calls'["ui"] = 1 .. n
        BY <1>7, <1>14
      <4>4. QED
        BY <4>1, <4>2, <4>3 DEF UIFrames
    <3>3. CPUFrames'
      BY <2>1, <3>1 DEF CPUFrames
    <3>4. fNestLevel' = n
      BY <1>3, <1>4, <1>7, <1>14, <3>1 DEF UIFrames
    <3>5. QED
      BY <1>7, <1>14, <2>1, <3>2, <3>3, <3>4 DEF FramesRestore, LevelIsDepth
  <2>3. CPUAtWork' /\ CPUWaits'
    BY <1>3, <1>7, <1>11, <1>14, <2>1 DEF CPUAtWork, CPUWaits
  <2>4. RequestsKept' >= Cardinality(Stops)
    <3>1. calls["ui"][1].old.ui >= Cardinality(Stops)
      BY <1>2, <1>14 DEF Discipline, StopDiscipline, StopsInForce, RequestsKept
    <3>2. calls'["ui"][1].old.ui >= calls["ui"][1].old.ui /\ calls["ui"][1].old.ui \in Int
      BY <1>4, <1>8, <1>10, <1>14
    <3>3. calls'["ui"][1].old.ui \in Int /\ Cardinality(Stops) \in Nat
      BY <1>1, <1>4, <1>10, <1>14, StopsFinite
    <3>4. RequestsKept' = calls'["ui"][1].old.ui
      BY <1>7, <1>14 DEF RequestsKept
    <3>5. QED
      BY <3>1, <3>2, <3>3, <3>4
  <2>5. StopsInForce'
    BY <1>3, <1>7, <1>11, <1>14, <2>1, <2>4 DEF StopsInForce
  <2>6. StopRequested' /\ Closing'
    BY <1>2, <1>3, <1>14 DEF Discipline, StopDiscipline, StopRequested, Closing
  <2>7. QED
    BY <1>1, <1>12, <2>2, <2>3, <2>5, <2>6 DEF StopDiscipline
<1>15. QED
  BY <1>13, <1>14 DEF Threads

(* A call that ends gives back what it set aside, and what came meanwhile. *)
LEMMA ReturnKeeps ==
  ASSUME Discipline, TypeInv', NEW t \in Threads, ReturnFromCall(t)
  PROVE  StopDiscipline'
<1> DEFINE n == Depth(t)
<1>1. TypeOK /\ StackShape'
  BY DEF Discipline, TypeInv
<1>2. pc[t] = "return" /\ calls[t] # <<>>
  BY EmptySeq DEF ReturnFromCall, Discipline, TypeInv, StackShape, StackLabels, Threads
<1>3. /\ n \in Nat \ {0} /\ Top(t) = calls[t][n] /\ Top(t) \in Frames
      /\ calls[t] \in Seq(Frames) /\ fSuspend \in Counters
  BY <1>1, <1>2, FrontLast DEF TypeOK, Top, Depth
<1>4. /\ \A u \in Threads : u # t => pc'[u] = pc[u] /\ calls'[u] = calls[u]
      /\ pc'[t] = AfterCall[Top(t).kind]
      /\ fNestLevel' = Top(t).nest
      /\ calls' = [calls EXCEPT ![t] = Front(@)]
      /\ UNCHANGED <<fStop, fState, thrown, stoppers, snapshot>>
  BY <1>1 DEF ReturnFromCall, LevelBefore, Goto, TypeOK, guest
<1>5. fSuspend'.ui = Top(t).old.ui + fSuspend.ui
  <2> DEFINE kept == Folded(Top(t))
  <2>1. Top(t).old \in Counters
    BY <1>3 DEF Frames
  <2>2. kept \in Counters /\ kept.ui = Top(t).old.ui + fSuspend.ui
    BY <1>3, <2>1, FoldedTyped
  <2>3. fSuspend' = [kept EXCEPT !.ext = IF @ < 0 THEN 0 ELSE @]
    BY DEF ReturnFromCall, Schedule
  <2> HIDE DEF kept
  <2>4. QED
    BY <2>2, <2>3 DEF Counters
<1>6. /\ Depth(t)' = n - 1 /\ DOMAIN calls'[t] = 1 .. n - 1 /\ DOMAIN calls[t] = 1 .. n
      /\ calls'[t] = <<>> <=> n = 1
      /\ \A i \in 1 .. n - 1 : calls'[t][i] = calls[t][i]
  BY <1>1, <1>2, <1>4, TopRemoved DEF Depth
<1>7. /\ fSuspend.ui \in Int /\ fSuspend.ui >= 0
      /\ \A i \in 1 .. n : calls[t][i].old.ui \in Int /\ calls[t][i].old.ui >= 0
      /\ n \in 1 .. n
  BY <1>1, <1>3, <1>6, StackFacts DEF Discipline, StopDiscipline, NoNegativeRequest
<1>8. \A u \in Threads : u # t => Depth(u)' = Depth(u)
  BY <1>4 DEF Depth
<1> HIDE DEF n
<1>9. /\ Top(t).old.ui \in Int /\ Top(t).old.ui >= 0
      /\ fSuspend'.ui \in Int /\ fSuspend'.ui >= 0
      /\ fSuspend'.ui >= fSuspend.ui /\ fSuspend'.ui >= Top(t).old.ui
  BY <1>3, <1>5, <1>7
<1>10. Stops' = Stops /\ Cardinality(Stops)' = Cardinality(Stops)
  BY <1>4 DEF Stops
<1>12. NoNegativeRequest'
  <2>1. \A u \in Threads : \A i \in DOMAIN calls'[u] :
          i \in DOMAIN calls[u] /\ calls'[u][i] = calls[u][i]
    BY <1>3, <1>4, <1>6
  <2>2. QED
    BY <1>9, <2>1 DEF Discipline, StopDiscipline, NoNegativeRequest
<1>13. ASSUME t = "cpu" PROVE StopDiscipline'
  <2>1. /\ calls["ui"] = <<>> /\ Stops = {} /\ fState = "kRunning"
        /\ calls'["ui"] = calls["ui"] /\ pc'["ui"] = pc["ui"] /\ Depth("ui")' = Depth("ui")
    BY <1>2, <1>4, <1>8, <1>13 DEF Discipline, StopDiscipline, CPUAtWork, Threads
  <2>2. n > 1
    BY <1>2, <1>13 DEF n, Depth, Discipline, TypeInv, StackShape, StackLabels
  <2>3. pc'["cpu"] \in {"sysCall", "patch"}
    <3>1. Top(t).kind \in {"taskInfo", "patch"}
      BY <1>3, <1>6, <1>7, <1>13, <2>2 DEF Discipline, TypeInv, StackShape, StackKinds
    <3>2. QED
      BY <1>4, <1>13, <3>1 DEF AfterCall
  <2>4. NoException'
    BY <1>4, <2>1, <2>3 DEF Discipline, StopDiscipline, NoException, Threads
  <2>5. FramesRestore' /\ LevelIsDepth'
    <3>1. CPUFrames /\ UIFrames
      BY DEF Discipline, StopDiscipline, FramesRestore
    <3>2. CPUFrames'
      BY <1>3, <1>6, <1>13, <3>1 DEF CPUFrames
    <3>3. UIFrames'
      BY <2>1, <3>1 DEF UIFrames
    <3>4. fNestLevel' = n - 2
      BY <1>3, <1>4, <1>6, <1>7, <1>13, <2>2, <3>1 DEF CPUFrames
    <3>5. calls'["cpu"] # <<>> /\ Depth("cpu")' - 1 = n - 2
      BY <1>3, <1>6, <1>13, <2>2
    <3>6. QED
      BY <3>2, <3>3, <3>4, <3>5 DEF FramesRestore, LevelIsDepth
  <2>6. CPUAtWork' /\ CPUWaits'
    BY <1>4, <1>6, <1>10, <1>13, <2>1, <2>2, <2>3 DEF CPUAtWork, CPUWaits
  <2>7. StopsInForce'
    <3>1. Cardinality(Stops) = 0
      BY <1>1, <2>1, StopsFinite
    <3>2. QED
      BY <1>4, <1>9, <1>10, <2>1, <3>1
      DEF Discipline, StopDiscipline, StopsInForce, RequestsKept
  <2>8. StopRequested' /\ Closing'
    <3>1. ASSUME fSuspend.ui > 0 \/ \E i \in DOMAIN calls["cpu"] : calls["cpu"][i].old.ui > 0
          PROVE  fSuspend'.ui > 0 \/ \E i \in DOMAIN calls'["cpu"] : calls'["cpu"][i].old.ui > 0
      <4>1. CASE fSuspend.ui > 0
        BY <1>7, <1>9, <4>1
      <4>2. ASSUME NEW i \in DOMAIN calls["cpu"], calls["cpu"][i].old.ui > 0
            PROVE  fSuspend'.ui > 0 \/ \E j \in DOMAIN calls'["cpu"] : calls'["cpu"][j].old.ui > 0
        <5>1. CASE i = n
          BY <1>3, <1>9, <1>13, <4>2, <5>1
        <5>2. CASE i # n
          BY <1>3, <1>6, <1>13, <4>2, <5>2
        <5>3. QED
          BY <5>1, <5>2
      <4>3. QED
        BY <3>1, <4>1, <4>2
    <3>2. QED
      BY <1>4, <1>10, <2>1, <3>1
      DEF Discipline, StopDiscipline, StopRequested, Closing, Stopper
  <2>9. QED
    BY <1>1, <1>12, <2>4, <2>5, <2>6, <2>7, <2>8 DEF StopDiscipline
<1>14. ASSUME t = "ui" PROVE StopDiscipline'
  <2>1. /\ pc["cpu"] = "inner" /\ calls["cpu"] = <<>> /\ Stops # {}
        /\ fState = IF n = 1 THEN "kSuspended" ELSE "kRunning"
        /\ calls'["cpu"] = calls["cpu"] /\ pc'["cpu"] = pc["cpu"]
    BY <1>2, <1>4, <1>14, StopHolds DEF Discipline, StopDiscipline, StopsInForce, Threads, n
  <2>2. pc'["ui"] = IF n = 1 THEN "idle" ELSE "patch"
    <3>1. Top(t).kind = IF n = 1 THEN "rom" ELSE "patch"
      <4>1. n \in DOMAIN calls["ui"] /\ Top(t) = calls["ui"][n]
        BY <1>3, <1>6, <1>7, <1>14
      <4>2. StackKinds
        BY DEF Discipline, TypeInv, StackShape
      <4>3. QED
        BY <4>1, <4>2 DEF StackKinds
    <3>2. QED
      BY <1>4, <1>14, <3>1 DEF AfterCall
  <2>3. NoException'
    BY <1>4, <2>1, <2>2 DEF Discipline, StopDiscipline, NoException, Threads
  <2>4. FramesRestore' /\ LevelIsDepth'
    <3>1. CPUFrames /\ UIFrames
      BY DEF Discipline, StopDiscipline, FramesRestore
    <3>2. UIFrames'
      BY <1>3, <1>6, <1>14, <3>1 DEF UIFrames
    <3>3. CPUFrames'
      BY <2>1, <3>1 DEF CPUFrames
    <3>4. fNestLevel' = n - 1
      BY <1>3, <1>4, <1>6, <1>7, <1>14, <3>1 DEF UIFrames
    <3>5. QED
      BY <1>6, <1>14, <2>1, <3>2, <3>3, <3>4 DEF FramesRestore, LevelIsDepth
  <2>5. calls["ui"][1].old.ui >= Cardinality(Stops) /\ Cardinality(Stops) \in Nat \ {0}
    <3>1. calls["ui"][1].old.ui >= Cardinality(Stops)
      BY <1>2, <1>14 DEF Discipline, StopDiscipline, StopsInForce, RequestsKept
    <3>2. QED
      BY <1>1, <2>1, <3>1, StopsFinite
  <2>6. n = 1 => fSuspend'.ui >= Cardinality(Stops) /\ fSuspend'.ui > 0
    BY <1>3, <1>9, <1>14, <2>5
  <2>7. RequestsKept' >= Cardinality(Stops)
    <3>1. CASE n = 1
      BY <1>6, <1>14, <2>6, <3>1 DEF RequestsKept
    <3>2. CASE n # 1
      <4>1. calls'["ui"] # <<>> /\ calls'["ui"][1] = calls["ui"][1]
        BY <1>3, <1>6, <1>14, <3>2
      <4>2. QED
        BY <2>5, <4>1 DEF RequestsKept
    <3>3. QED
      BY <3>1, <3>2
  <2>8. CPUAtWork' /\ CPUWaits'
    <3>1. calls'["ui"] = <<>> => fSuspend' # NoCounters
      BY <1>6, <1>14, <2>6 DEF NoCounters
    <3>2. fState \in {"kRunning", "kSuspended"}
      BY <2>1
    <3>3. QED
      BY <1>4, <1>10, <2>1, <3>1, <3>2 DEF CPUAtWork, CPUWaits
  <2>9. StopsInForce'
    BY <1>4, <1>6, <1>10, <1>14, <2>1, <2>2, <2>7 DEF StopsInForce
  <2>10. StopRequested' /\ Closing'
    BY <1>2, <1>4, <1>14, <2>2 DEF Discipline, StopDiscipline, StopRequested, Closing
  <2>11. QED
    BY <1>1, <1>12, <2>3, <2>4, <2>8, <2>9, <2>10 DEF StopDiscipline
<1>15. QED
  BY <1>13, <1>14 DEF Threads

(* A reset keeps the UI thread's requests; by then no call is in progress. *)
LEMMA ResetKeeps ==
  ASSUME Discipline, TypeInv', NEW t \in Threads, Reset(t)
  PROVE  StopDiscipline'
<1>1. TypeOK /\ StackShape'
  BY DEF Discipline, TypeInv
<1>2. /\ pc[t] = "reset"
      /\ \A u \in Threads : u # t => pc'[u] = pc[u]
      /\ pc'[t] = IF calls[t] # <<>> THEN "exec" ELSE IF t = "ui" THEN "idle" ELSE "run"
      /\ fNestLevel' = 0
      /\ UNCHANGED <<fStop, fState, calls, thrown, stoppers, snapshot>>
  BY <1>1 DEF Reset, Goto, TypeOK, stack
<1>3. fSuspend'.ui = fSuspend.ui
  BY DEF Reset, CountersAfterReset, NoCounters
<1>4. Stops' = Stops /\ Cardinality(Stops)' = Cardinality(Stops)
  BY <1>2 DEF Stops
<1>5. RequestsKept' = RequestsKept /\ \A u \in Threads : Depth(u)' = Depth(u)
  BY <1>2, <1>3 DEF RequestsKept, Depth
<1>6. NoException' /\ NoNegativeRequest' /\ FramesRestore'
  BY <1>2, <1>3
  DEF Discipline, StopDiscipline, NoException, NoNegativeRequest, FramesRestore,
      CPUFrames, UIFrames, Threads
<1>7. ASSUME t = "cpu" PROVE StopDiscipline'
  <2>1. /\ calls["ui"] = <<>> /\ Stops = {} /\ fState = "kRunning" /\ Depth("cpu") = 1
        /\ calls["cpu"] # <<>> /\ pc'["ui"] = pc["ui"] /\ pc'["cpu"] = "exec"
    BY <1>2, <1>7 DEF Discipline, StopDiscipline, CPUAtWork, Threads
  <2>2. LevelIsDepth'
    BY <1>2, <1>5, <2>1 DEF LevelIsDepth, Threads
  <2>3. CPUAtWork' /\ CPUWaits'
    BY <1>2, <1>4, <2>1 DEF CPUAtWork, CPUWaits
  <2>4. StopsInForce'
    BY <1>2, <1>4, <1>5, <2>1 DEF Discipline, StopDiscipline, StopsInForce
  <2>5. StopRequested' /\ Closing'
    BY <1>2, <1>3, <1>4, <2>1 DEF Discipline, StopDiscipline, StopRequested, Closing, Stopper
  <2>6. QED
    BY <1>1, <1>6, <2>2, <2>3, <2>4, <2>5 DEF StopDiscipline
<1>8. ASSUME t = "ui" PROVE StopDiscipline'
  <2>1. Stops # {} /\ calls["ui"] = <<>>
    BY <1>2, <1>8 DEF Discipline, StopDiscipline, StopsInForce
  <2>2. /\ pc["cpu"] = "inner" /\ calls["cpu"] = <<>> /\ fState = "kSuspended"
        /\ fNestLevel = 0 /\ Depth("ui") = 0
        /\ pc'["cpu"] = pc["cpu"] /\ pc'["ui"] = "idle"
    BY <1>2, <1>8, <2>1, StopHolds DEF Threads
  <2>3. LevelIsDepth'
    BY <1>2, <1>5, <2>2 DEF LevelIsDepth, Threads
  <2>4. fSuspend.ui > 0
    <3>1. fSuspend.ui >= Cardinality(Stops)
      BY <2>1 DEF Discipline, StopDiscipline, StopsInForce, RequestsKept
    <3>2. QED
      BY <1>1, <2>1, <3>1, StackFacts, StopsFinite
  <2>5. fSuspend' # NoCounters
    BY <1>3, <2>4 DEF NoCounters
  <2>6. CPUAtWork' /\ CPUWaits'
    BY <1>2, <1>4, <2>1, <2>2, <2>5 DEF CPUAtWork, CPUWaits
  <2>7. StopsInForce'
    BY <1>2, <1>4, <1>5, <2>1, <2>2 DEF Discipline, StopDiscipline, StopsInForce
  <2>8. StopRequested' /\ Closing'
    BY <1>2, <1>8, <2>2 DEF Discipline, StopDiscipline, StopRequested, Closing
  <2>9. QED
    BY <1>1, <1>6, <2>3, <2>6, <2>7, <2>8 DEF StopDiscipline
<1>9. QED
  BY <1>7, <1>8 DEF Threads
----------------------------------------------------------------------------
(* The UI thread's stoppers.                                               *)

LEMMA StopsAdded ==
  ASSUME TypeOK, NEW others \in Seq(Stoppers), NEW s \in Stoppers,
         {i \in DOMAIN others : others[i].got} = Stops,
         stoppers' = Append(others, s)
  PROVE  /\ Stops' = IF s.got THEN Stops \cup {Len(others) + 1} ELSE Stops
         /\ Cardinality(Stops)' = Cardinality(Stops) + (IF s.got THEN 1 ELSE 0)
         /\ Stopper' = s
<1> DEFINE n == Len(others) + 1
<1>1. /\ stoppers' \in Seq(Stoppers) /\ stoppers' # <<>>
      /\ Len(others) \in Nat /\ Len(stoppers') = n /\ stoppers'[n] = s
      /\ \A i \in 1 .. Len(others) : stoppers'[i] = others[i]
      /\ DOMAIN others = 1 .. Len(others) /\ DOMAIN stoppers' = 1 .. n
  BY AddLast
<1>2. Stopper' = s
  BY <1>1, FrontLast DEF Stopper
<1>3. n \notin Stops
  BY <1>1
<1>4. Stops' = IF s.got THEN Stops \cup {n} ELSE Stops
  BY <1>1 DEF Stops
<1>5. Cardinality(Stops \cup {n}) = Cardinality(Stops) + 1
  BY <1>3, StopsFinite, FS_AddElement
<1>6. Cardinality(Stops) \in Nat
  BY StopsFinite
<1> HIDE DEF n
<1>7. Cardinality(Stops)' = Cardinality(Stops) + (IF s.got THEN 1 ELSE 0)
  <2>1. Cardinality(Stops)' = Cardinality(Stops')
    OBVIOUS
  <2>2. CASE s.got
    BY <1>4, <1>5, <2>1, <2>2
  <2>3. CASE ~s.got
    BY <1>4, <1>6, <2>1, <2>3
  <2>4. QED
    BY <2>2, <2>3
<1>8. QED
  BY <1>2, <1>4, <1>7 DEF n

LEMMA StopsRemoved ==
  ASSUME TypeOK, stoppers # <<>>
  PROVE  LET others == Front(stoppers)
         IN  /\ others \in Seq(Stoppers) /\ Stopper \in Stoppers
             /\ Stopper.got <=> Len(stoppers) \in Stops
             /\ {i \in DOMAIN others : others[i].got} = Stops \ {Len(stoppers)}
             /\ Stopper.got => Cardinality(Stops \ {Len(stoppers)}) = Cardinality(Stops) - 1
<1> DEFINE others == Front(stoppers)
           n == Len(stoppers)
<1>1. stoppers \in Seq(Stoppers)
  BY DEF TypeOK
<1>2. /\ others \in Seq(Stoppers) /\ Len(others) = n - 1 /\ n \in Nat \ {0}
      /\ \A i \in 1 .. n - 1 : others[i] = stoppers[i]
      /\ Stopper \in Stoppers /\ Stopper = stoppers[n]
  BY <1>1, FrontLast DEF Stopper
<1>3. DOMAIN others = 1 .. n - 1 /\ DOMAIN stoppers = 1 .. n
  BY <1>1, <1>2
<1> HIDE DEF others, n
<1>4. Stopper.got <=> n \in Stops
  BY <1>2, <1>3 DEF Stops
<1>5. {i \in DOMAIN others : others[i].got} = Stops \ {n}
  BY <1>2, <1>3 DEF Stops
<1>6. n \in Stops => Cardinality(Stops \ {n}) = Cardinality(Stops) - 1
  BY StopsFinite, FS_RemoveElement
<1>7. QED
  BY <1>2, <1>4, <1>5, <1>6 DEF others, n

(* The UI thread, outside any call, finds the session suspended.           *)
LEMMA FoundSuspended ==
  ASSUME Discipline, pc["ui"] \in {"idle", "suspending"}, fState # "kRunning"
  PROVE  /\ pc["cpu"] = "inner" /\ calls["cpu"] = <<>> /\ calls["ui"] = <<>>
         /\ fState = "kSuspended" /\ fSuspend # NoCounters
<1>1. calls["ui"] = <<>>
  BY DEF Discipline, TypeInv, StackShape, StackLabels
<1>2. ~fStop
  BY DEF Discipline, StopDiscipline, Closing
<1>3. pc["cpu"] = "inner" /\ calls["cpu"] = <<>>
  BY <1>2 DEF Discipline, StopDiscipline, CPUAtWork
<1>4. QED
  BY <1>1, <1>3 DEF Discipline, StopDiscipline, CPUWaits

(* One turn of SuspendThread's loop; others are the older stoppers.        *)
LEMMA SuspendLoopKeeps ==
  ASSUME Discipline, TypeInv', NEW how \in StopMethods,
         NEW counters \in Counters, NEW others \in Seq(Stoppers),
         pc["ui"] \in {"idle", "suspending"},
         SuspendLoop(how, counters, others),
         {i \in DOMAIN others : others[i].got} = Stops,
         counters.ui >= fSuspend.ui, counters = fSuspend \/ counters.ui > 0,
         how = "kStopNow" =>
           IF fState = "kRunning"
             THEN counters.ui > 0 \/ \E i \in DOMAIN calls["cpu"] : calls["cpu"][i].old.ui > 0
             ELSE counters.ui > Cardinality(Stops)
  PROVE  StopDiscipline'
<1>1. TypeOK /\ StackShape'
  BY DEF Discipline, TypeInv
<1>2. /\ calls["ui"] = <<>> /\ ~fStop
      /\ fSuspend.ui >= Cardinality(Stops) /\ fSuspend.ui >= 0
      /\ Stops # {} => fState = "kSuspended"
  BY DEF Discipline, TypeInv, StackShape, StackLabels, StopDiscipline, Closing,
         StopsInForce, RequestsKept, NoNegativeRequest
<1>3. fSuspend.ui \in Int /\ counters.ui \in Int /\ Cardinality(Stops) \in Nat
  BY <1>1, StackFacts, StopsFinite DEF Counters
<1>4. /\ UNCHANGED <<fStop, fState, fNestLevel, calls, thrown, snapshot>>
      /\ \A u \in Threads : Depth(u)' = Depth(u)
  BY DEF SuspendLoop, state, stack, guest, Depth
<1>5. CASE fState = "kRunning"
  <2> DEFINE s == [how |-> how, got |-> FALSE, on |-> "none"]
  <2>1. /\ fSuspend' = counters /\ stoppers' = Append(others, s)
        /\ pc'["ui"] = "suspending" /\ pc'["cpu"] = pc["cpu"]
    BY <1>1, <1>5 DEF SuspendLoop, WaitToSuspend, Goto, TypeOK, Threads
  <2>2. s \in Stoppers /\ ~s.got /\ s.how = how
    BY DEF Stoppers
  <2> HIDE DEF s
  <2>3. /\ Stops = {} /\ Stops' = Stops /\ Stopper' = s
        /\ Cardinality(Stops)' = Cardinality(Stops)
    BY <1>1, <1>2, <1>3, <1>5, <2>1, <2>2, StopsAdded
  <2>4. NoException' /\ NoNegativeRequest' /\ FramesRestore' /\ LevelIsDepth'
    BY <1>2, <1>3, <1>4, <2>1
    DEF Discipline, StopDiscipline, NoException, NoNegativeRequest, FramesRestore,
        CPUFrames, UIFrames, LevelIsDepth, Threads
  <2>5. CPUAtWork' /\ CPUWaits'
    BY <1>2, <1>4, <1>5, <2>1, <2>3 DEF Discipline, StopDiscipline, CPUAtWork, CPUWaits, Threads
  <2>6. StopsInForce'
    BY <1>2, <1>3, <1>4, <2>1, <2>3 DEF StopsInForce, RequestsKept
  <2>7. StopRequested' /\ Closing'
    BY <1>2, <1>4, <1>5, <2>1, <2>2, <2>3 DEF StopRequested, Closing
  <2>8. QED
    BY <1>1, <2>4, <2>5, <2>6, <2>7 DEF StopDiscipline
<1>6. CASE fState # "kRunning"
  <2> DEFINE got == Granted(how, counters)
             s == [how |-> how, got |-> got, on |-> fState]
  <2>1. /\ pc["cpu"] = "inner" /\ calls["cpu"] = <<>> /\ calls["ui"] = <<>>
        /\ fState = "kSuspended" /\ fSuspend # NoCounters
    BY <1>6, FoundSuspended
  <2>2. /\ fSuspend' = IF got /\ how = "kStopOnSysCall"
                          THEN [counters EXCEPT !.ui = @ + 1] ELSE counters
        /\ stoppers' = Append(others, s)
        /\ pc'["ui"] = "idle" /\ pc'["cpu"] = pc["cpu"]
    BY <1>1, <1>6 DEF SuspendLoop, FinishSuspend, Goto, TypeOK, Threads
  <2>3. s \in Stoppers /\ s.got = got /\ got \in BOOLEAN
    BY <1>1 DEF Stoppers, Granted, TypeOK
  <2> HIDE DEF got, s
  <2>4. /\ Stops' = IF got THEN Stops \cup {Len(others) + 1} ELSE Stops
        /\ Cardinality(Stops)' = Cardinality(Stops) + (IF got THEN 1 ELSE 0)
    BY <1>1, <2>2, <2>3, StopsAdded
  <2>5. fSuspend'.ui = IF got /\ how = "kStopOnSysCall" THEN counters.ui + 1 ELSE counters.ui
    BY <2>2 DEF Counters
  <2>6. fSuspend'.ui \in Int /\ fSuspend'.ui >= 0
    BY <1>2, <1>3, <2>5
  <2>7. fSuspend'.ui >= Cardinality(Stops)'
    BY <1>2, <1>3, <1>6, <2>3, <2>4, <2>5 DEF StopMethods
  <2>8. fSuspend' # NoCounters
    <3>1. CASE got /\ how = "kStopOnSysCall"
      BY <1>2, <1>3, <2>5, <3>1 DEF NoCounters
    <3>2. CASE ~(got /\ how = "kStopOnSysCall")
      BY <2>1, <2>2, <3>2 DEF NoCounters
    <3>3. QED
      BY <3>1, <3>2
  <2>9. NoException' /\ NoNegativeRequest' /\ FramesRestore' /\ LevelIsDepth'
    BY <1>4, <2>2, <2>6
    DEF Discipline, StopDiscipline, NoException, NoNegativeRequest, FramesRestore,
        CPUFrames, UIFrames, LevelIsDepth, Threads
  <2>10. CPUAtWork' /\ CPUWaits'
    BY <1>4, <2>1, <2>2, <2>8 DEF CPUAtWork, CPUWaits
  <2>11. StopsInForce'
    BY <1>4, <2>1, <2>2, <2>7 DEF StopsInForce, RequestsKept
  <2>12. StopRequested' /\ Closing'
    BY <1>2, <1>4, <2>2 DEF StopRequested, Closing
  <2>13. QED
    BY <1>1, <2>9, <2>10, <2>11, <2>12 DEF StopDiscipline
<1>7. QED
  BY <1>5, <1>6
LEMMA SuspendThreadKeeps ==
  ASSUME Discipline, TypeInv', NEW how \in StopMethods, SuspendThread(how)
  PROVE  StopDiscipline'
<1> DEFINE counters == IF how = "kStopNow" THEN [fSuspend EXCEPT !.ui = @ + 1] ELSE fSuspend
<1>1. TypeOK
  BY DEF Discipline, TypeInv
<1>2. fSuspend \in Counters /\ stoppers \in Seq(Stoppers)
  BY <1>1 DEF TypeOK
<1>3. /\ counters \in Counters
      /\ counters.ui = fSuspend.ui + (IF how = "kStopNow" THEN 1 ELSE 0)
      /\ counters = fSuspend \/ how = "kStopNow"
  BY <1>2 DEF Counters
<1>4. pc["ui"] = "idle" /\ SuspendLoop(how, counters, stoppers)
  BY DEF SuspendThread, Free
<1> HIDE DEF counters
<1>5. calls["ui"] = <<>>
  BY <1>4 DEF Discipline, TypeInv, StackShape, StackLabels
<1>6. fSuspend.ui >= Cardinality(Stops) /\ fSuspend.ui >= 0
  BY <1>5 DEF Discipline, StopDiscipline, StopsInForce, RequestsKept, NoNegativeRequest
<1>7. fSuspend.ui \in Int /\ Cardinality(Stops) \in Nat
  BY <1>1, StackFacts, StopsFinite
<1>8. /\ counters.ui >= fSuspend.ui
      /\ how = "kStopNow" => counters.ui > 0 /\ counters.ui > Cardinality(Stops)
      /\ counters = fSuspend \/ counters.ui > 0
  BY <1>3, <1>6, <1>7
<1>9. {i \in DOMAIN stoppers : stoppers[i].got} = Stops
  BY DEF Stops
<1>10. QED
  BY <1>2, <1>3, <1>4, <1>8, <1>9, SuspendLoopKeeps

LEMMA AwaitSuspendKeeps ==
  ASSUME Discipline, TypeInv', AwaitSuspend
  PROVE  StopDiscipline'
<1>1. TypeOK /\ fSuspend \in Counters
  BY DEF Discipline, TypeInv, TypeOK
<1>2. pc["ui"] = "suspending" /\ SuspendLoop(Stopper.how, fSuspend, Front(stoppers))
  BY DEF AwaitSuspend
<1>3. stoppers # <<>> /\ Stops = {} /\ calls["ui"] = <<>>
  BY <1>2 DEF Discipline, TypeInv, StackShape, StackLabels, StopDiscipline, StopRequested
<1>4. /\ Front(stoppers) \in Seq(Stoppers) /\ Stopper.how \in StopMethods
      /\ {i \in DOMAIN Front(stoppers) : Front(stoppers)[i].got} = Stops
  BY <1>1, <1>3, StopsRemoved DEF Stoppers
<1>5. fSuspend.ui >= fSuspend.ui /\ Cardinality(Stops) = 0
  BY <1>1, <1>3, StackFacts, StopsFinite
<1>6. Stopper.how = "kStopNow" =>
        IF fState = "kRunning"
          THEN fSuspend.ui > 0 \/ \E i \in DOMAIN calls["cpu"] : calls["cpu"][i].old.ui > 0
          ELSE fSuspend.ui > Cardinality(Stops)
  <2>1. Stopper.how = "kStopNow" =>
          fSuspend.ui > 0 \/ \E i \in DOMAIN calls["cpu"] : calls["cpu"][i].old.ui > 0
    BY <1>2 DEF Discipline, StopDiscipline, StopRequested
  <2>2. fState # "kRunning" => DOMAIN calls["cpu"] = {}
    BY <1>2, FoundSuspended
  <2>3. QED
    BY <1>5, <2>1, <2>2
<1>7. QED
  BY <1>1, <1>2, <1>4, <1>5, <1>6, SuspendLoopKeeps

LEMMA ResumeThreadKeeps ==
  ASSUME Discipline, TypeInv', ResumeThread
  PROVE  StopDiscipline'
<1>1. TypeOK /\ StackShape' /\ fSuspend \in Counters
  BY DEF Discipline, TypeInv, TypeOK
<1>2. /\ pc["ui"] = "idle" /\ stoppers # <<>> /\ stoppers' = Front(stoppers)
      /\ UNCHANGED <<pc, fStop, fNestLevel, calls, snapshot>>
      /\ \A u \in Threads : Depth(u)' = Depth(u)
  BY DEF ResumeThread, guest, Depth
<1>3. \A u \in Threads : thrown'[u] = "none"
  BY <1>1 DEF ResumeThread, TypeOK, Discipline, StopDiscipline, NoException, Threads
<1>4. /\ Stops' = Stops \ {Len(stoppers)} /\ (Stopper.got <=> Len(stoppers) \in Stops)
      /\ Cardinality(Stops)' = IF Stopper.got THEN Cardinality(Stops) - 1 ELSE Cardinality(Stops)
  BY <1>1, <1>2, StopsRemoved DEF Stops
<1>5. /\ calls["ui"] = <<>> /\ ~fStop
      /\ fSuspend.ui >= Cardinality(Stops)
      /\ Stops # {} => fState = "kSuspended"
  BY <1>2 DEF Discipline, TypeInv, StackShape, StackLabels, StopDiscipline, Closing,
              StopsInForce, RequestsKept
<1>6. /\ fSuspend.ui \in Int /\ Cardinality(Stops) \in Nat
      /\ Stops = {} <=> Cardinality(Stops) = 0
  BY <1>1, StackFacts, StopsFinite
<1>7. ASSUME Stopper.got PROVE StopDiscipline'
  <2>1. fSuspend.ui > 0 /\ fState = "kSuspended" /\ Stops # {}
    BY <1>4, <1>5, <1>6, <1>7
  <2>2. pc["cpu"] = "inner" /\ calls["cpu"] = <<>>
    BY <1>5, <2>1, StopHolds
  <2>3. fSuspend' = Resumed /\ fState' = Restarted
    BY <1>7, <2>1 DEF ResumeThread, LetGo
  <2>4. Resumed.ui = fSuspend.ui - 1
    BY <1>1, ResumedTyped
  <2>5. /\ fState' \in {"kRunning", "kSuspended"}
        /\ fState' = "kSuspended" <=> fSuspend' # NoCounters
    BY <2>1, <2>3 DEF Restarted
  <2>6. /\ fSuspend'.ui >= Cardinality(Stops)' /\ fSuspend'.ui >= 0
        /\ Stops' # {} => fSuspend'.ui > 0
    <3>1. IsFiniteSet(Stops') /\ (Stops' # {} => Cardinality(Stops') # 0) /\ Cardinality(Stops') \in Nat
      <4>1. IsFiniteSet(Stops')
        BY <1>1, <1>4, StopsFinite, FS_Subset
      <4>2. QED
        BY <4>1, FS_EmptySet, FS_CardinalityType
    <3>2. Cardinality(Stops') = Cardinality(Stops) - 1 /\ Cardinality(Stops)' = Cardinality(Stops')
      BY <1>4, <1>7
    <3>3. QED
      BY <1>5, <1>6, <2>1, <2>3, <2>4, <3>1, <3>2
  <2>7. Stops' # {} => fState' = "kSuspended"
    BY <2>5, <2>6 DEF NoCounters
  <2>8. NoException' /\ NoNegativeRequest' /\ FramesRestore' /\ LevelIsDepth'
    BY <1>2, <1>3, <2>6
    DEF Discipline, StopDiscipline, NoException, NoNegativeRequest, FramesRestore,
        CPUFrames, UIFrames, LevelIsDepth, Threads
  <2>9. CPUAtWork' /\ CPUWaits'
    BY <1>2, <2>2, <2>5 DEF CPUAtWork, CPUWaits
  <2>10. StopsInForce'
    BY <1>2, <1>5, <2>6, <2>7 DEF StopsInForce, RequestsKept
  <2>11. StopRequested' /\ Closing'
    BY <1>2, <1>5 DEF StopRequested, Closing
  <2>12. QED
    BY <1>1, <2>8, <2>9, <2>10, <2>11 DEF StopDiscipline
<1>8. ASSUME ~Stopper.got PROVE StopDiscipline'
  <2>1. UNCHANGED <<fSuspend, fState>>
    BY <1>8 DEF ResumeThread
  <2>2. Stops' = Stops /\ Cardinality(Stops)' = Cardinality(Stops)
    BY <1>4, <1>8
  <2>3. NoException' /\ NoNegativeRequest' /\ FramesRestore' /\ LevelIsDepth'
    BY <1>2, <1>3, <2>1
    DEF Discipline, StopDiscipline, NoException, NoNegativeRequest, FramesRestore,
        CPUFrames, UIFrames, LevelIsDepth, Threads
  <2>4. CPUAtWork' /\ CPUWaits'
    BY <1>2, <2>1, <2>2 DEF Discipline, StopDiscipline, CPUAtWork, CPUWaits, Threads
  <2>5. StopsInForce'
    BY <1>2, <1>5, <2>1, <2>2 DEF StopsInForce, RequestsKept
  <2>6. StopRequested' /\ Closing'
    BY <1>2, <1>5 DEF StopRequested, Closing
  <2>7. QED
    BY <1>1, <2>3, <2>4, <2>5, <2>6 DEF StopDiscipline
<1>9. QED
  BY <1>7, <1>8

(* The debugger's counters may be restored: the stopper's was among them.  *)
LEMMA SetSuspendStateKeeps ==
  ASSUME Discipline, TypeInv', SetSuspendState
  PROVE  StopDiscipline'
<1>1. TypeOK /\ StackShape'
  BY DEF Discipline, TypeInv
<1>2. /\ pc["ui"] = "exitDebugger" /\ pc'["ui"] = "idle" /\ pc'["cpu"] = pc["cpu"]
      /\ fSuspend' = snapshot
      /\ UNCHANGED <<fStop, fState, fNestLevel, calls, thrown, stoppers>>
      /\ \A u \in Threads : Depth(u)' = Depth(u)
  BY <1>1 DEF SetSuspendState, Goto, TypeOK, Threads, state, stack, Depth
<1>3. Stops' = Stops /\ Cardinality(Stops)' = Cardinality(Stops)
  BY <1>2 DEF Stops
<1>4. Stops # {} /\ calls["ui"] = <<>> /\ snapshot.ui >= Cardinality(Stops)
  BY <1>2 DEF Discipline, StopDiscipline, StopsInForce
<1>5. pc["cpu"] = "inner" /\ calls["cpu"] = <<>> /\ fState = "kSuspended" /\ ~fStop
  BY <1>2, <1>4, StopHolds DEF Discipline, StopDiscipline, Closing
<1>6. snapshot.ui \in Int /\ snapshot.ui > 0
  BY <1>1, <1>4, StackFacts, StopsFinite
<1>7. NoException' /\ NoNegativeRequest' /\ FramesRestore' /\ LevelIsDepth'
  BY <1>2, <1>6
  DEF Discipline, StopDiscipline, NoException, NoNegativeRequest, FramesRestore,
      CPUFrames, UIFrames, LevelIsDepth, Threads
<1>8. CPUAtWork' /\ CPUWaits'
  BY <1>2, <1>5, <1>6 DEF CPUAtWork, CPUWaits, NoCounters
<1>9. StopsInForce'
  BY <1>2, <1>3, <1>4, <1>5 DEF StopsInForce, RequestsKept
<1>10. StopRequested' /\ Closing'
  BY <1>2, <1>5 DEF StopRequested, Closing
<1>11. QED
  BY <1>1, <1>7, <1>8, <1>9, <1>10 DEF StopDiscipline

LEMMA DestroyThreadKeeps ==
  ASSUME Discipline, TypeInv', DestroyThread
  PROVE  StopDiscipline'
<1>1. TypeOK /\ StackShape' /\ fSuspend \in Counters
  BY DEF Discipline, TypeInv, TypeOK
<1>2. /\ pc["ui"] = "closing" /\ pc'["ui"] = "destroying" /\ pc'["cpu"] = pc["cpu"]
      /\ fStop' = TRUE /\ fSuspend' = [fSuspend EXCEPT !.ui = @ + 1]
      /\ UNCHANGED <<fState, fNestLevel, calls, thrown, stoppers>>
      /\ \A u \in Threads : Depth(u)' = Depth(u)
  BY <1>1 DEF DestroyThread, Goto, TypeOK, Threads, stack, Depth
<1>3. fSuspend.ui \in Int /\ fSuspend'.ui = fSuspend.ui + 1 /\ fSuspend.ui >= 0
  BY <1>1, <1>2, StackFacts DEF Counters, Discipline, StopDiscipline, NoNegativeRequest
<1>4. stoppers = <<>> /\ calls["ui"] = <<>>
  BY <1>2 DEF Discipline, TypeInv, StackShape, StackLabels, StopDiscipline, Closing
<1>5. Stops' = Stops /\ Stops = {} /\ Cardinality(Stops)' = 0
  BY <1>2, <1>4, FS_EmptySet DEF Stops
<1>6. NoException' /\ NoNegativeRequest' /\ FramesRestore' /\ LevelIsDepth'
  BY <1>2, <1>3
  DEF Discipline, StopDiscipline, NoException, NoNegativeRequest, FramesRestore,
      CPUFrames, UIFrames, LevelIsDepth, Threads
<1>7. fSuspend' # NoCounters
  BY <1>3 DEF NoCounters
<1>8. CPUAtWork' /\ CPUWaits'
  BY <1>2, <1>4, <1>5, <1>7 DEF Discipline, StopDiscipline, CPUAtWork, CPUWaits, Threads
<1>9. StopsInForce'
  BY <1>2, <1>3, <1>4, <1>5 DEF StopsInForce, RequestsKept
<1>10. StopRequested' /\ Closing'
  BY <1>2, <1>4 DEF StopRequested, Closing
<1>11. QED
  BY <1>1, <1>6, <1>8, <1>9, <1>10 DEF StopDiscipline
----------------------------------------------------------------------------
(* What is left: actions that do not touch the stops, and those that the   *)
(* Calm features rule out.                                                 *)

LEMMA WorkStep ==
  ASSUME Discipline, TypeInv', NEW t \in Threads,
         \/ CycleSlowly(t) \/ ExecuteSpecialNested(t) \/ ExecuteSpecial(t)
         \/ ExecuteReset(t) \/ PatchDone(t)
         \/ SubroutineReturn(t) \/ SignalSend(t) \/ SignalResume(t)
         \/ Breakpoint(t) \/ ScheduleReset(t)
  PROVE  StopDiscipline'
<1>1. fSuspend \in Counters /\ pc = [pc EXCEPT ![t] = pc[t]]
  BY DEF Discipline, TypeInv, TypeOK
<1>2. pc[t] \in {"exec", "patch"}
  BY DEF CycleSlowly, ExecuteSpecialNested, ExecuteSpecial, ExecuteReset, PatchDone,
         SubroutineReturn, SignalSend, SignalResume, Breakpoint, ScheduleReset,
         GuestStep, CanStep, Executing
<1>3. fSuspend'.ui = fSuspend.ui
  BY <1>1 DEF CycleSlowly, ExecuteSpecialNested, ExecuteSpecial, ExecuteReset, PatchDone,
         SubroutineReturn, SignalSend, SignalResume, Breakpoint, ScheduleReset,
         Schedule, Counters
<1>4. UNCHANGED <<fStop, fState, fNestLevel, calls, thrown, stoppers, snapshot>>
  BY DEF CycleSlowly, ExecuteSpecialNested, ExecuteSpecial, ExecuteReset, PatchDone,
         SubroutineReturn, SignalSend, SignalResume, Breakpoint, ScheduleReset,
         state, stack, guest
<1>5. \E label \in {"exec", "leave", "reset"} :
        pc' = [pc EXCEPT ![t] = label] /\ (label = "reset" => ~Nested)
  BY <1>1 DEF CycleSlowly, ExecuteSpecialNested, ExecuteSpecial, ExecuteReset, PatchDone,
         SubroutineReturn, SignalSend, SignalResume, Breakpoint, ScheduleReset,
         GuestStep, CanStep, Executing, Goto, flow
<1>6. QED
  BY <1>2, <1>3, <1>4, <1>5, WorkKeeps

LEMMA CPUStep ==
  ASSUME Discipline, TypeInv', Calm, CPUThread
  PROVE  StopDiscipline'
<1>1. CASE RunSuspend \/ RunCall \/ RunStop
  BY <1>1, RunSuspendKeeps, RunCallKeeps, RunStopKeeps
<1>2. CASE BreakOnSysCall
  BY <1>2, CPUBegins DEF BreakOnSysCall, CanStep, Executing, CallKinds
<1>3. CASE WakeUITask
  BY <1>3, CPUBegins DEF WakeUITask, CallKinds
<1>4. CASE SuspendSysCall \/ IgnoreSysCall
  <2>1. fSuspend \in Counters
    BY DEF Discipline, TypeInv, TypeOK
  <2>2. /\ pc["cpu"] = "sysCall" /\ fSuspend'.ui = fSuspend.ui
        /\ pc' = [pc EXCEPT !["cpu"] = "exec"]
        /\ UNCHANGED <<fStop, fState, fNestLevel, calls, thrown, stoppers, snapshot>>
    BY <1>4, <2>1 DEF SuspendSysCall, IgnoreSysCall, Schedule, Goto, Counters, state, stack, guest
  <2>3. QED
    BY <2>2, WorkKeeps DEF Threads
<1>5. CASE NeedDialog \/ DeferredError
  BY <1>5 DEF NeedDialog, DeferredError, Calm
<1>6. CASE Catch \/ BlockOnDialog \/ Crash \/ StillBlocked \/ Unblock \/ DebugButton
  <2>1. pc["cpu"] \in {"caught", "asking", "blocked", "debug"}
    BY <1>6 DEF Catch, BlockOnDialog, Crash, StillBlocked, Unblock, DebugButton
  <2>2. QED
    BY <2>1 DEF Discipline, StopDiscipline, NoException, Threads
<1>7. QED
  BY <1>1, <1>2, <1>3, <1>4, <1>5, <1>6 DEF CPUThread

LEMMA ThreadStep ==
  ASSUME Discipline, TypeInv', Calm, NEW t \in Threads, Loop(t) \/ Guest(t)
  PROVE  StopDiscipline'
<1>1. CASE CallCPU(t) \/ LeaveCPU(t) \/ ReenterCall(t) \/ ReturnFromCall(t) \/ Reset(t)
  BY <1>1, CallCPUKeeps, LeaveKeeps, ReenterKeeps, ReturnKeeps, ResetKeeps
<1>2. CASE Unwind(t)
  BY <1>2 DEF Unwind, Discipline, StopDiscipline, NoException
<1>3. CASE PatchCall(t)
  <2>1. pc[t] \in {"exec", "patch"} /\ BeginCall(t, "patch")
    BY <1>3 DEF PatchCall, CanStep, Executing
  <2>2. CASE t = "cpu"
    BY <2>1, <2>2, CPUBegins DEF CallKinds
  <2>3. CASE t = "ui"
    <3>1. calls["ui"] # <<>>
      BY <2>1, <2>3 DEF Discipline, TypeInv, StackShape, StackLabels
    <3>2. QED
      BY <2>1, <2>3, <3>1, UIBegins DEF CallKinds
  <2>4. QED
    BY <2>2, <2>3 DEF Threads
<1>4. CASE NestedError(t)
  BY <1>4 DEF NestedError, Calm
<1>5. QED
  BY <1>1, <1>2, <1>3, <1>4, WorkStep DEF Loop, Guest

LEMMA UIStep ==
  ASSUME Discipline, TypeInv', Calm, UIThread
  PROVE  StopDiscipline'
<1>1. TypeOK
  BY DEF Discipline, TypeInv
<1>2. CASE \E how \in StopMethods : SuspendThread(how)
  BY <1>2, SuspendThreadKeeps
<1>3. CASE AwaitSuspend \/ ResumeThread \/ SetSuspendState \/ DestroyThread
  BY <1>3, AwaitSuspendKeeps, ResumeThreadKeeps, SetSuspendStateKeeps, DestroyThreadKeeps
<1>4. ASSUME Free PROVE /\ calls["ui"] = <<>> /\ ~fStop
                       /\ fSuspend.ui >= Cardinality(Stops)
  BY <1>4 DEF Free, Discipline, TypeInv, StackShape, StackLabels, StopDiscipline,
              Closing, StopsInForce, RequestsKept
<1>5. ASSUME NEW how \in StopMethods, Holds(how) PROVE Stops # {}
  BY <1>1, <1>5, StopsRemoved DEF Holds
<1>6. CASE CallROM
  <2>1. Free /\ Holds("kStopOnSysCall") /\ BeginCall("ui", "rom")
    BY <1>6 DEF CallROM
  <2>2. pc["ui"] = "idle" /\ calls["ui"] = <<>> /\ Stops # {}
    BY <1>4, <1>5, <2>1 DEF Free, StopMethods
  <2>3. QED
    BY <2>1, <2>2, UIBegins DEF CallKinds
<1>7. CASE CatchInSLP
  BY <1>7 DEF CatchInSLP, Discipline, StopDiscipline, NoException, Threads
<1>8. CASE DoReset
  <2>1. /\ Free /\ Holds("kStopNow") /\ pc'["ui"] = "reset" /\ pc'["cpu"] = pc["cpu"]
        /\ UNCHANGED <<fStop, fState, fSuspend, fNestLevel, calls, thrown, stoppers>>
    BY <1>1, <1>8 DEF DoReset, Calm, Goto, TypeOK, Threads, state, stack
  <2>2. calls["ui"] = <<>> /\ Stops # {} /\ ~fStop
    BY <1>4, <1>5, <2>1 DEF StopMethods
  <2>3. QED
    BY <2>1, <2>2, UIKeeps DEF UILabels
<1>9. CASE ExitDebugger
  <2>1. /\ Free /\ Holds("kStopNow") /\ pc'["ui"] = "exitDebugger" /\ pc'["cpu"] = pc["cpu"]
        /\ snapshot' = [fSuspend EXCEPT !.dbg = 0]
        /\ UNCHANGED <<fStop, fState, fSuspend, fNestLevel, calls, thrown, stoppers>>
    BY <1>1, <1>9 DEF ExitDebugger, Goto, TypeOK, Threads, state, stack
  <2>2. calls["ui"] = <<>> /\ Stops # {} /\ ~fStop /\ fSuspend.ui >= Cardinality(Stops)
    BY <1>4, <1>5, <2>1 DEF StopMethods
  <2>3. snapshot'.ui = fSuspend.ui
    BY <1>1, <2>1 DEF TypeOK, Counters
  <2>4. QED
    BY <2>1, <2>2, <2>3, UIKeeps DEF UILabels
<1>10. CASE OpenDialog \/ CloseDocument \/ DropDialogs
  <2>1. /\ Free /\ stoppers = <<>> /\ pc'["cpu"] = pc["cpu"]
        /\ pc'["ui"] \in {"idle", "dialog", "closing"}
        /\ UNCHANGED <<fStop, fState, fSuspend, fNestLevel, calls, thrown, stoppers>>
    BY <1>1, <1>10
    DEF OpenDialog, CloseDocument, DropDialogs, Free, Goto, TypeOK, Threads, flow, state, stack
  <2>2. calls["ui"] = <<>> /\ ~fStop
    BY <1>4, <2>1
  <2>3. QED
    BY <2>1, <2>2, UIKeeps DEF UILabels
<1>11. CASE AnswerDialog \/ UnblockDialog
  <2>1. /\ pc["ui"] \in {"dialog", "answered"} /\ pc'["ui"] \in {"answered", "idle"}
        /\ pc'["cpu"] = pc["cpu"]
        /\ UNCHANGED <<fStop, fState, fSuspend, fNestLevel, calls, thrown, stoppers>>
    BY <1>1, <1>11 DEF AnswerDialog, UnblockDialog, Goto, TypeOK, Threads, state, stack
  <2>2. calls["ui"] = <<>> /\ ~fStop
    BY <2>1 DEF Discipline, TypeInv, StackShape, StackLabels, StopDiscipline, Closing
  <2>3. QED
    BY <2>1, <2>2, UIKeeps DEF UILabels
<1>12. CASE AwaitStopped
  <2>1. /\ pc["ui"] = "destroying" /\ pc'["ui"] \in {"destroying", "gone"}
        /\ pc'["cpu"] = pc["cpu"]
        /\ UNCHANGED <<fStop, fState, fSuspend, fNestLevel, calls, thrown, stoppers>>
    BY <1>1, <1>12 DEF AwaitStopped, Goto, TypeOK, Threads, state, stack
  <2>2. calls["ui"] = <<>> /\ stoppers = <<>>
    BY <2>1 DEF Discipline, TypeInv, StackShape, StackLabels, StopDiscipline, Closing
  <2>3. QED
    BY <2>1, <2>2, UIKeeps DEF UILabels
<1>13. QED
  BY <1>2, <1>3, <1>6, <1>7, <1>8, <1>9, <1>10, <1>11, <1>12 DEF UIThread, StopMethods

LEMMA DisciplineStep ==
  ASSUME Discipline, TypeInv', Calm, [Next]_vars
  PROVE  StopDiscipline'
<1>1. CASE Next
  BY <1>1, CPUStep, UIStep, ThreadStep DEF Next
<1>2. CASE UNCHANGED vars
  <2>1. UNCHANGED <<pc, fStop, fState, fSuspend, fNestLevel, calls, thrown, stoppers, snapshot>>
    BY <1>2 DEF vars, flow, state, stack, guest
  <2>2. TypeInv' /\ Stops' = Stops /\ Cardinality(Stops)' = Cardinality(Stops)
        /\ RequestsKept' = RequestsKept /\ Stopper' = Stopper
        /\ \A u \in Threads : Depth(u)' = Depth(u)
    BY <2>1 DEF Stops, RequestsKept, Stopper, Depth
  <2>3. NoException' /\ NoNegativeRequest' /\ FramesRestore' /\ LevelIsDepth'
    BY <2>1, <2>2
    DEF Discipline, StopDiscipline, NoException, NoNegativeRequest, FramesRestore,
        CPUFrames, UIFrames, LevelIsDepth, Threads
  <2>4. CPUAtWork' /\ CPUWaits' /\ StopsInForce' /\ StopRequested' /\ Closing'
    BY <2>1, <2>2
    DEF Discipline, StopDiscipline, CPUAtWork, CPUWaits, StopsInForce, StopRequested,
        Closing, Threads
  <2>5. QED
    BY <2>2, <2>3, <2>4 DEF TypeInv, StopDiscipline
<1>3. QED
  BY <1>1, <1>2

(* Whatever the two threads do, the parts of the discipline stay true.     *)
THEOREM StopsAreDisciplined ==
  ASSUME Calm PROVE Spec => []StopDiscipline
<1>1. Init => StopDiscipline
  BY DisciplineInit
<1>2. TypeInv /\ TypeInv' /\ StopDiscipline /\ [Next]_vars => StopDiscipline'
  BY DisciplineStep DEF Discipline
<1>3. QED
  BY <1>1, <1>2, TypeInvariant, PTL DEF Spec

(* A stopper that found the CPU thread suspended keeps it in Run's inner   *)
(* loop for as long as it lives: SuspendThread's promise to its caller.    *)
THEOREM StopsExcludeTheGuest ==
  ASSUME Calm PROVE Spec => []StopExcludesGuest
<1>1. StopDiscipline => StopExcludesGuest
  BY DEF StopDiscipline, CPUAtWork, StopExcludesGuest
<1>2. QED
  BY <1>1, StopsAreDisciplined, PTL
----------------------------------------------------------------------------
(* Run's assertions: back from the CPU loop nothing is nested, and the     *)
(* inner loop is left only when nobody asks for a suspension.              *)
LEMMA RunIsRight == ASSUME Discipline PROVE RunAssertions
<1>1. TypeOK
  BY DEF Discipline, TypeInv
<1>2. InRun => calls["cpu"] = <<>> /\ fNestLevel = Depth("ui")
  BY DEF InRun, Discipline, StopDiscipline, CPUAtWork, LevelIsDepth
<1>3. InRun => (calls["ui"] = <<>> <=> ~Nested)
  BY <1>1, <1>2, StackFacts DEF Nested, Threads
<1>4. ASSUME pc["cpu"] = "run" PROVE fState = "kRunning" /\ ~Nested
  <2>1. calls["cpu"] = <<>> /\ calls["ui"] = <<>> /\ fState = "kRunning" /\ fNestLevel = Depth("ui")
    BY <1>4 DEF Discipline, StopDiscipline, CPUAtWork, LevelIsDepth
  <2>2. QED
    BY <1>1, <2>1, StackFacts DEF Nested, Threads
<1>5. ASSUME InRun, ~MustBlock, ~fStop
      PROVE  fSuspend = NoCounters /\ ~Nested /\ fState = "kRunning"
  <2>1. CASE pc["cpu"] = "run"
    BY <1>4, <1>5, <2>1 DEF MustBlock
  <2>2. CASE pc["cpu"] = "inner"
    <3>1. fSuspend = NoCounters /\ ~Nested
      BY <1>5, <2>2 DEF MustBlock
    <3>2. calls["ui"] = <<>>
      BY <1>3, <1>5, <3>1
    <3>3. QED
      BY <2>2, <3>1, <3>2 DEF Discipline, StopDiscipline, CPUWaits
  <2>3. QED
    BY <1>5, <2>1, <2>2 DEF InRun
<1>6. QED
  BY <1>4, <1>5 DEF RunAssertions

(* Both threads enter and leave calls with fState as the code asserts: the *)
(* CPU thread while it runs, the UI thread while the guest is stopped, or  *)
(* while it runs the guest itself.                                         *)
LEMMA CallsAreRight == ASSUME Discipline PROVE CallAssertions
<1>1. TypeOK
  BY DEF Discipline, TypeInv
<1>2. pc["cpu"] \in {"exec", "sysCall", "patch", "exitDebugger", "return"} => fState = "kRunning"
  BY DEF Discipline, StopDiscipline, CPUAtWork
<1>3. ASSUME calls["ui"] # <<>>
      PROVE  /\ fNestLevel = Depth("ui") /\ Depth("ui") \in Nat \ {0}
             /\ LevelBefore("ui") = Depth("ui") - 1
  <2>1. fNestLevel = Depth("ui") /\ Depth("ui") \in Nat \ {0}
    BY <1>1, <1>3, StopHolds, StackFacts DEF Threads
  <2>2. Top("ui") = calls["ui"][Depth("ui")] /\ DOMAIN calls["ui"] = 1 .. Depth("ui")
    BY <1>1, <1>3, FrontLast, StackFacts DEF Top, Depth, TypeOK, Threads
  <2>3. QED
    BY <2>1, <2>2 DEF LevelBefore, Discipline, StopDiscipline, FramesRestore, UIFrames
<1>4. pc["ui"] \in {"exec", "patch"} => AtLevel("ui", fNestLevel)
  <2>1. ASSUME pc["ui"] \in {"exec", "patch"} PROVE fState = "kRunning" /\ fNestLevel > 0
    <3>1. calls["ui"] # <<>>
      BY <2>1 DEF Discipline, TypeInv, StackShape, StackLabels
    <3>2. fState = "kRunning"
      BY <2>1, <3>1 DEF Discipline, StopDiscipline, StopsInForce
    <3>3. QED
      BY <1>3, <3>1, <3>2
  <2>2. QED
    BY <2>1 DEF AtLevel
<1>5. pc["ui"] = "return" => AtLevel("ui", LevelBefore("ui"))
  <2>1. ASSUME pc["ui"] = "return"
        PROVE  fState = IF LevelBefore("ui") > 0 THEN "kRunning" ELSE "kSuspended"
    <3>1. calls["ui"] # <<>>
      BY <2>1 DEF Discipline, TypeInv, StackShape, StackLabels
    <3>2. fState = IF Depth("ui") = 1 THEN "kSuspended" ELSE "kRunning"
      BY <2>1, <3>1 DEF Discipline, StopDiscipline, StopsInForce
    <3>3. QED
      BY <1>3, <3>1, <3>2
  <2>2. QED
    BY <2>1 DEF AtLevel
<1>6. calls["ui"] = <<>> /\ Stops # {} => AtLevel("ui", fNestLevel)
  BY StopHolds DEF AtLevel
<1>7. pc["ui"] \notin {"sysCall"}
  BY <1>1 DEF TypeOK, UILabels
<1>8. pc["ui"] = "exitDebugger" => calls["ui"] = <<>> /\ Stops # {}
  BY DEF Discipline, StopDiscipline, StopsInForce
<1>9. Free => calls["ui"] = <<>>
  BY DEF Free, Discipline, TypeInv, StackShape, StackLabels
<1>10. QED
  BY <1>2, <1>4, <1>5, <1>6, <1>7, <1>8, <1>9 DEF CallAssertions, AtLevel, Threads

(* The assertions that Run makes around the CPU loop never fail.           *)
THEOREM RunIsAsserted ==
  ASSUME Calm PROVE Spec => []RunAssertions
<1>1. TypeInv /\ StopDiscipline => RunAssertions
  BY RunIsRight DEF Discipline
<1>2. QED
  BY <1>1, TypeInvariant, StopsAreDisciplined, PTL

(* Nor do those of ExecuteSubroutine, GetSuspendState and SetSuspendState. *)
THEOREM CallsAreAsserted ==
  ASSUME Calm PROVE Spec => []CallAssertions
<1>1. TypeInv /\ StopDiscipline => CallAssertions
  BY CallsAreRight DEF Discipline
<1>2. QED
  BY <1>1, TypeInvariant, StopsAreDisciplined, PTL
=============================================================================
