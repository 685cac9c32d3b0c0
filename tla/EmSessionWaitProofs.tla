------------------------ MODULE EmSessionWaitProofs ------------------------
(***************************************************************************)
(* What the session owes to a stop, for every bound, when StopDiscipline   *)
(* holds: it implements StopResume; the CPU thread sleeps only for a reason*)
(* that somebody will lift; a stop on a system call leaves the guest at    *)
(* one; every request to stop is counted once, and so is every call.       *)
(***************************************************************************)
EXTENDS EmSessionProofs, SequenceFoldsProofs

(* The refinement: the session implements StopResume, step by step.  What  *)
(* remains for TLC is that a client which asks is answered.                *)

Asked == pc["ui"] = "suspending"

(* A step that leaves the stoppers and the question alone moves the guest  *)
(* at most: it halts, or it starts when no stop is in force.               *)
LEMMA GuestMoves ==
  ASSUME Discipline, StopDiscipline', UNCHANGED stoppers, Asked' = Asked
  PROVE  [Abstract!Next]_Abstract!vars
<1>1. Cardinality(Stops)' = Cardinality(Stops)
  BY DEF Stops
<1>2. CASE (pc["cpu"] # "inner")' = (pc["cpu"] # "inner")
  BY <1>1, <1>2 DEF Abstract!vars, Asked
<1>3. CASE pc["cpu"] # "inner" /\ pc'["cpu"] = "inner"
  <2>1. Abstract!Halt
    BY <1>1, <1>3 DEF Abstract!Halt, Asked
  <2>2. QED
    BY <2>1 DEF Abstract!Next
<1>4. CASE pc["cpu"] = "inner" /\ pc'["cpu"] # "inner"
  <2>1. Stops' = {} /\ Stops' = Stops
    BY <1>4 DEF StopDiscipline, CPUAtWork, Stops
  <2>2. Cardinality(Stops) = 0
    BY <2>1, StopsFinite DEF Discipline, TypeInv
  <2>3. Abstract!Start
    BY <1>1, <1>4, <2>2 DEF Abstract!Start, Asked
  <2>4. QED
    BY <2>3 DEF Abstract!Next
<1>5. QED
  BY <1>2, <1>3, <1>4

(* One turn of SuspendThread's loop; others are the older stoppers.        *)
LEMMA LoopAnswers ==
  ASSUME Discipline, NEW how \in StopMethods, NEW counters, NEW others \in Seq(Stoppers),
         {i \in DOMAIN others : others[i].got} = Stops,
         pc["ui"] \in {"idle", "suspending"}, SuspendLoop(how, counters, others)
  PROVE  [Abstract!Next]_Abstract!vars
<1>1. TypeOK /\ fState \in States \cup {"none"} /\ pc \in [Threads -> CPULabels \cup UILabels]
  BY DEF Discipline, TypeInv, TypeOK
<1>2. Cardinality(Stops) \in Nat
  BY <1>1, StopsFinite
<1>3. CASE fState = "kRunning"
  <2> DEFINE s == [how |-> how, got |-> FALSE, on |-> "none"]
  <2>1. stoppers' = Append(others, s) /\ s \in Stoppers /\ ~s.got
    BY <1>3 DEF SuspendLoop, WaitToSuspend, Stoppers
  <2>2. Asked' = TRUE /\ pc'["cpu"] = pc["cpu"]
    BY <1>1, <1>3 DEF SuspendLoop, WaitToSuspend, Goto, Asked, Threads
  <2> HIDE DEF s
  <2>3. Cardinality(Stops)' = Cardinality(Stops)
    BY <1>1, <1>2, <2>1, StopsAdded
  <2>4. CASE Asked
    BY <2>2, <2>3, <2>4 DEF Abstract!vars, Asked
  <2>5. CASE ~Asked
    <3>1. Abstract!Ask
      BY <2>2, <2>3, <2>5 DEF Abstract!Ask, Asked
    <3>2. QED
      BY <3>1 DEF Abstract!Next
  <2>6. QED
    BY <2>4, <2>5
<1>4. CASE fState # "kRunning"
  <2> DEFINE s == [how |-> how, got |-> Granted(how, counters), on |-> fState]
  <2>1. pc["cpu"] = "inner"
    BY <1>4, FoundSuspended
  <2>2. Granted(how, counters) \in BOOLEAN
    BY DEF Granted
  <2>3. stoppers' = Append(others, s) /\ s \in Stoppers
    BY <1>1, <1>4, <2>2 DEF SuspendLoop, FinishSuspend, Stoppers
  <2>4. Asked' = FALSE /\ pc'["cpu"] = pc["cpu"]
    BY <1>1, <1>4 DEF SuspendLoop, FinishSuspend, Goto, Asked, Threads
  <2> HIDE DEF s
  <2>5. Cardinality(Stops)' = Cardinality(Stops) + (IF s.got THEN 1 ELSE 0)
    BY <1>1, <2>3, StopsAdded
  <2>6. CASE s.got
    <3>1. Cardinality(Stops)' = Cardinality(Stops) + 1
      BY <2>5, <2>6
    <3>2. Abstract!Grant \/ Abstract!GrantNow
      BY <2>1, <2>4, <3>1 DEF Abstract!Grant, Abstract!GrantNow, Asked
    <3>3. QED
      BY <3>2 DEF Abstract!Next
  <2>7. CASE ~s.got
    <3>1. Cardinality(Stops)' = Cardinality(Stops)
      BY <1>2, <2>5, <2>7
    <3>2. CASE Asked
      <4>1. Abstract!Refuse
        BY <2>1, <2>4, <3>1, <3>2 DEF Abstract!Refuse, Asked
      <4>2. QED
        BY <4>1 DEF Abstract!Next
    <3>3. CASE ~Asked
      BY <2>1, <2>4, <3>1, <3>3 DEF Abstract!vars, Asked
    <3>4. QED
      BY <3>2, <3>3
  <2>8. QED
    BY <2>6, <2>7
<1>5. QED
  BY <1>3, <1>4

LEMMA SuspendThreadAnswers ==
  ASSUME Discipline, NEW how \in StopMethods, SuspendThread(how)
  PROVE  [Abstract!Next]_Abstract!vars
<1> DEFINE counters == IF how = "kStopNow" THEN [fSuspend EXCEPT !.ui = @ + 1] ELSE fSuspend
<1>1. pc["ui"] = "idle" /\ SuspendLoop(how, counters, stoppers)
  BY DEF SuspendThread, Free
<1>2. stoppers \in Seq(Stoppers) /\ {i \in DOMAIN stoppers : stoppers[i].got} = Stops
  BY DEF Discipline, TypeInv, TypeOK, Stops
<1> HIDE DEF counters
<1>3. QED
  BY <1>1, <1>2, LoopAnswers

LEMMA AwaitSuspendAnswers ==
  ASSUME Discipline, AwaitSuspend
  PROVE  [Abstract!Next]_Abstract!vars
<1>1. TypeOK
  BY DEF Discipline, TypeInv
<1>2. pc["ui"] = "suspending" /\ SuspendLoop(Stopper.how, fSuspend, Front(stoppers))
  BY DEF AwaitSuspend
<1>3. stoppers # <<>> /\ Stops = {}
  BY <1>2 DEF Discipline, TypeInv, StackShape, StackLabels, StopDiscipline, StopRequested
<1>4. /\ Front(stoppers) \in Seq(Stoppers) /\ Stopper.how \in StopMethods
      /\ {i \in DOMAIN Front(stoppers) : Front(stoppers)[i].got} = Stops
  BY <1>1, <1>3, StopsRemoved DEF Stoppers
<1>5. QED
  BY <1>2, <1>4, LoopAnswers

(* The end of a stop that was granted is LetGo; of another, nothing.       *)
LEMMA ResumeThreadLetsGo ==
  ASSUME Discipline, ResumeThread
  PROVE  [Abstract!Next]_Abstract!vars
<1>1. TypeOK
  BY DEF Discipline, TypeInv
<1>2. stoppers # <<>> /\ stoppers' = Front(stoppers) /\ pc' = pc
  BY DEF ResumeThread
<1>3. /\ Stops' = Stops \ {Len(stoppers)} /\ (Stopper.got <=> Len(stoppers) \in Stops)
      /\ Stopper.got => Cardinality(Stops \ {Len(stoppers)}) = Cardinality(Stops) - 1
  BY <1>1, <1>2, StopsRemoved DEF Stops
<1>4. Cardinality(Stops)' = Cardinality(Stops')
  OBVIOUS
<1>5. CASE Stopper.got
  <2>1. Cardinality(Stops)' = Cardinality(Stops) - 1
    BY <1>3, <1>4, <1>5
  <2>2. Cardinality(Stops) > 0
    BY <1>1, <1>3, <1>5, StopsFinite
  <2>3. Abstract!LetGo
    BY <1>2, <2>1, <2>2 DEF Abstract!LetGo
  <2>4. QED
    BY <2>3 DEF Abstract!Next
<1>6. CASE ~Stopper.got
  <2>1. Stops' = Stops
    BY <1>3, <1>6
  <2>2. Cardinality(Stops)' = Cardinality(Stops)
    BY <1>4, <2>1
  <2>3. QED
    BY <1>2, <2>2 DEF Abstract!vars
<1>7. QED
  BY <1>5, <1>6

----------------------------------------------------------------------------
(* No other step changes the stoppers, or begins or ends a question.       *)

(* What a thread does in a loop, or a guest's code in it.                  *)
LEMMA LoopKeepsStoppers ==
  ASSUME TypeInv, NEW t \in Threads, Loop(t) \/ Guest(t)
  PROVE  UNCHANGED stoppers /\ Asked' = Asked
<1>1. pc \in [Threads -> CPULabels \cup UILabels]
  BY DEF TypeInv, TypeOK
<1>2. /\ UNCHANGED stoppers /\ pc[t] \in Busy
      /\ \E label : pc' = [pc EXCEPT ![t] = label] /\ (t = "ui" => label \in Busy)
  BY LoopMoves
<1>3. QED
  BY <1>1, <1>2 DEF Busy, Asked, Threads

LEMMA CPUKeepsStoppers ==
  ASSUME TypeOK, CPUThread
  PROVE  UNCHANGED stoppers /\ Asked' = Asked
<1>1. pc \in [Threads -> CPULabels \cup UILabels]
  BY DEF TypeOK
<1>2. CASE RunSuspend \/ RunCall \/ RunStop \/ Catch
  BY <1>1, <1>2 DEF RunSuspend, RunCall, RunStop, Catch, Goto, Asked, Threads
<1>3. CASE BreakOnSysCall \/ SuspendSysCall \/ IgnoreSysCall \/ WakeUITask
  BY <1>1, <1>3
  DEF BreakOnSysCall, SuspendSysCall, IgnoreSysCall, WakeUITask, BeginCall, Goto, Asked, Threads
<1>4. CASE NeedDialog \/ DeferredError
  BY <1>1, <1>4 DEF NeedDialog, DeferredError, Goto, Asked, Threads
<1>5. CASE BlockOnDialog \/ Crash \/ StillBlocked
  BY <1>1, <1>5 DEF BlockOnDialog, Crash, StillBlocked, Goto, Asked, Threads
<1>6. CASE Unblock
  BY <1>1, <1>6 DEF Unblock, ActOn, ThrowTo, Goto, Asked, Threads
<1>7. CASE DebugButton
  BY <1>1, <1>7 DEF DebugButton, ThrowTo, Goto, Asked, Threads
<1>8. QED
  BY <1>2, <1>3, <1>4, <1>5, <1>6, <1>7 DEF CPUThread

LEMMA UIKeepsStoppers ==
  ASSUME TypeOK,
         \/ CallROM \/ CatchInSLP \/ DoReset \/ ExitDebugger \/ SetSuspendState
         \/ OpenDialog \/ AnswerDialog \/ UnblockDialog \/ DropDialogs
         \/ CloseDocument \/ DestroyThread \/ AwaitStopped
  PROVE  UNCHANGED stoppers /\ Asked' = Asked
<1>1. pc \in [Threads -> CPULabels \cup UILabels]
  BY DEF TypeOK
<1>2. CASE CallROM \/ CatchInSLP \/ DoReset
  BY <1>1, <1>2 DEF CallROM, CatchInSLP, DoReset, Free, BeginCall, Goto, Asked, Threads
<1>3. CASE ExitDebugger \/ SetSuspendState
  BY <1>1, <1>3 DEF ExitDebugger, SetSuspendState, Free, Goto, Asked, Threads
<1>4. CASE OpenDialog \/ AnswerDialog \/ UnblockDialog \/ DropDialogs
  BY <1>1, <1>4
  DEF OpenDialog, AnswerDialog, UnblockDialog, DropDialogs, Free, Goto, flow, Asked, Threads
<1>5. CASE CloseDocument \/ DestroyThread \/ AwaitStopped
  BY <1>1, <1>5 DEF CloseDocument, DestroyThread, AwaitStopped, Free, Goto, Asked, Threads
<1>6. QED
  BY <1>2, <1>3, <1>4, <1>5

(* Every step of the session is one of StopResume, or a stutter.           *)
LEMMA AbstractStep ==
  ASSUME Discipline, StopDiscipline', [Next]_vars
  PROVE  [Abstract!Next]_Abstract!vars
<1>1. TypeOK
  BY DEF Discipline, TypeInv
<1>2. CASE \E how \in StopMethods : SuspendThread(how)
  BY <1>2, SuspendThreadAnswers
<1>3. CASE AwaitSuspend \/ ResumeThread
  BY <1>3, AwaitSuspendAnswers, ResumeThreadLetsGo
<1>4. ASSUME UNCHANGED stoppers, Asked' = Asked PROVE [Abstract!Next]_Abstract!vars
  BY <1>4, GuestMoves
<1>5. CASE UNCHANGED vars
  BY <1>4, <1>5 DEF vars, flow, Asked
<1>6. CASE Next
  <2>1. CASE CPUThread \/ \E t \in Threads : Loop(t) \/ Guest(t)
    BY <1>1, <1>4, <2>1, CPUKeepsStoppers, LoopKeepsStoppers DEF Discipline
  <2>2. CASE UIThread
    BY <1>1, <1>2, <1>3, <1>4, <2>2, UIKeepsStoppers DEF UIThread, StopMethods
  <2>3. QED
    BY <1>6, <2>1, <2>2 DEF Next
<1>7. QED
  BY <1>5, <1>6

(* The session does what EmSession.h promises of a stop: it is granted or  *)
(* refused while the guest is suspended, and the guest starts again only   *)
(* when every granted stop has been let go.                                *)
THEOREM ImplementsStopResume ==
  ASSUME Calm PROVE Spec => Abstract!Spec
<1>1. Init => Abstract!Init
  <2>1. ASSUME Init PROVE Abstract!Init
    <3>1. Stops = {}
      BY <2>1 DEF Init, Stops
    <3>2. Cardinality(Stops) = 0
      BY <3>1, FS_EmptySet
    <3>3. pc["ui"] = "idle" /\ pc["cpu"] = "run"
      BY <2>1 DEF Init
    <3>4. QED
      BY <3>2, <3>3 DEF Abstract!Init
  <2>2. QED
    BY <2>1
<1>2. TypeInv /\ StopDiscipline /\ StopDiscipline' /\ [Next]_vars
        => [Abstract!Next]_Abstract!vars
  BY AbstractStep DEF Discipline
<1>3. QED
  BY <1>1, <1>2, TypeInvariant, StopsAreDisciplined, PTL DEF Spec, Abstract!Spec
-----------------------------------------------------------------------------

(* Asleep outside any call of the UI thread, the CPU thread has said so:   *)
(* with CPUWaits, there is then a reason in the counters.                  *)
WaitsSuspended ==
  pc["cpu"] = "inner" /\ ~Awake("cpu") /\ calls["ui"] = <<>> => fState = "kSuspended"

(* The CPU thread falls asleep in RunSuspend; awake, it is somewhere else. *)
LEMMA CPUThreadWaits ==
  ASSUME Discipline, CPUThread, pc'["cpu"] = "inner", calls'["ui"] = <<>>
  PROVE  fState' = "kSuspended"
<1>1. TypeOK /\ pc \in [Threads -> CPULabels \cup UILabels]
  BY DEF Discipline, TypeInv, TypeOK
<1>2. CASE RunSuspend
  <2>1. /\ pc["cpu"] \in {"run", "inner"} /\ calls["ui"] = <<>>
        /\ fState' = IF Nested THEN fState ELSE "kSuspended"
    BY <1>2 DEF RunSuspend, InRun, stack
  <2>2. calls["cpu"] = <<>>
    BY <2>1 DEF Discipline, StopDiscipline, CPUAtWork
  <2>3. fNestLevel = Depth("ui") /\ Depth("ui") = 0
    BY <1>1, <2>1, <2>2, StackFacts DEF Discipline, StopDiscipline, LevelIsDepth, Threads
  <2>4. QED
    BY <2>1, <2>3 DEF Nested
<1>3. CASE RunCall \/ RunStop
  BY <1>1, <1>3 DEF RunCall, RunStop, Goto, Threads
<1>4. CASE BreakOnSysCall \/ SuspendSysCall \/ IgnoreSysCall \/ WakeUITask
  BY <1>1, <1>4 DEF BreakOnSysCall, SuspendSysCall, IgnoreSysCall, WakeUITask, BeginCall, Goto, Threads
<1>5. CASE NeedDialog \/ DeferredError
  BY <1>1, <1>5 DEF NeedDialog, DeferredError, Goto, Threads
<1>6. CASE Catch \/ BlockOnDialog \/ Crash \/ StillBlocked \/ Unblock \/ DebugButton
  BY <1>6 DEF Catch, BlockOnDialog, Crash, StillBlocked, Unblock, DebugButton,
              Discipline, StopDiscipline, NoException, Threads
<1>7. QED
  BY <1>2, <1>3, <1>4, <1>5, <1>6 DEF CPUThread

LEMMA LoopWaits ==
  ASSUME Discipline, Calm, WaitsSuspended, NEW t \in Threads, Loop(t) \/ Guest(t)
  PROVE  WaitsSuspended'
<1>1. /\ TypeOK /\ pc \in [Threads -> CPULabels \cup UILabels]
      /\ fNestLevel \in Nat
  BY DEF Discipline, TypeInv, TypeOK
<1>2. CASE ReenterCall(t) \/ ReturnFromCall(t) \/ PatchCall(t)
  BY <1>2 DEF ReenterCall, ReturnFromCall, PatchCall, BeginCall, Broadcast, WaitsSuspended, Awake
<1>3. CASE Unwind(t) \/ NestedError(t)
  BY <1>3 DEF Unwind, NestedError, Calm, Discipline, StopDiscipline, NoException
<1>4. CASE CallCPU(t)
  <2>1. CASE t = "cpu"
    BY <1>1, <1>4, <2>1 DEF CallCPU, Goto, WaitsSuspended, Threads
  <2>2. CASE t = "ui"
    <3>1. calls["ui"] # <<>> /\ calls["ui"] \in Seq(Frames)
      BY <1>1, <1>4, <2>2 DEF CallCPU, Discipline, TypeInv, TypeOK, StackShape, StackLabels, Threads
    <3>2. calls'["ui"] = Append(Front(calls["ui"]), [Top("ui") EXCEPT !.saved = fState])
      BY <1>1, <1>4, <2>2 DEF CallCPU, TypeOK, Threads
    <3>3. Front(calls["ui"]) \in Seq(Frames) /\ Top("ui") \in Frames
      BY <3>1, FrontLast DEF Top
    <3>4. [Top("ui") EXCEPT !.saved = fState] \in Frames
      BY <1>1, <3>3 DEF Frames, TypeOK
    <3>5. calls'["ui"] # <<>>
      BY <3>2, <3>3, <3>4, AddLast
    <3>6. QED
      BY <3>5 DEF WaitsSuspended
  <2>3. QED
    BY <2>1, <2>2 DEF Threads
<1>5. CASE LeaveCPU(t)
  <2>1. CASE t = "cpu"
    <3>1. \E label : label # "inner" /\ Goto("cpu", label)
      BY <1>5, <2>1 DEF LeaveCPU
    <3>2. QED
      BY <1>1, <3>1 DEF Goto, WaitsSuspended, Threads
  <2>2. CASE t = "ui"
    <3>1. calls["ui"] # <<>>
      BY <1>5, <2>2 DEF LeaveCPU, Discipline, TypeInv, StackShape, StackLabels
    <3>2. Top("ui").kind # "run"
      <4>1. Top("ui") = calls["ui"][Len(calls["ui"])] /\ Len(calls["ui"]) \in Nat \ {0}
        BY <1>1, <3>1, FrontLast DEF Top, TypeOK, Threads
      <4>2. DOMAIN calls["ui"] = 1 .. Len(calls["ui"])
        BY <1>1, StackFacts DEF Depth, Threads
      <4>3. QED
        BY <4>1, <4>2 DEF Discipline, TypeInv, StackShape, StackKinds
    <3>3. calls'["ui"] = calls["ui"]
      BY <1>5, <2>2, <3>2 DEF LeaveCPU
    <3>4. QED
      BY <3>1, <3>3 DEF WaitsSuspended
  <2>3. QED
    BY <2>1, <2>2 DEF Threads
<1>6. CASE \/ CycleSlowly(t) \/ ExecuteSpecialNested(t) \/ ExecuteSpecial(t) \/ ExecuteReset(t)
           \/ Reset(t) \/ PatchDone(t)
           \/ SubroutineReturn(t) \/ SignalSend(t) \/ SignalResume(t)
           \/ Breakpoint(t) \/ ScheduleReset(t)
  <2>1. UNCHANGED <<fState, waiting, calls>>
    BY <1>6 DEF CycleSlowly, ExecuteSpecialNested, ExecuteSpecial, ExecuteReset, Reset, PatchDone,
         SubroutineReturn, SignalSend, SignalResume, Breakpoint, ScheduleReset,
         flow, state, stack
  <2>2. pc'["cpu"] = pc["cpu"] \/ pc'["cpu"] # "inner"
    BY <1>1, <1>6
    DEF CycleSlowly, ExecuteSpecialNested, ExecuteSpecial, ExecuteReset, Reset, PatchDone,
        SubroutineReturn, SignalSend, SignalResume, Breakpoint, ScheduleReset, Goto, flow, Threads
  <2>3. QED
    BY <2>1, <2>2 DEF WaitsSuspended, Awake
<1>7. QED
  BY <1>2, <1>3, <1>4, <1>5, <1>6 DEF Loop, Guest

(* The UI thread leaves the sleeper and its state alone, or wakes it.      *)
LEMMA UIWaits ==
  ASSUME Discipline, WaitsSuspended, UIThread
  PROVE  WaitsSuspended'
<1>1. pc \in [Threads -> CPULabels \cup UILabels]
  BY DEF Discipline, TypeInv, TypeOK
<1>2. ASSUME "cpu" \notin waiting' PROVE WaitsSuspended'
  BY <1>2 DEF WaitsSuspended, Awake
<1>3. ASSUME UNCHANGED <<fState, waiting, calls>>, pc'["cpu"] = pc["cpu"]
      PROVE  WaitsSuspended'
  BY <1>3 DEF WaitsSuspended, Awake
<1>4. ASSUME NEW how, NEW counters, NEW others, SuspendLoop(how, counters, others)
      PROVE  WaitsSuspended'
  <2>1. CASE fState = "kRunning"
    BY <1>2, <1>4, <2>1 DEF SuspendLoop, WaitToSuspend, BroadcastAndWait
  <2>2. CASE fState # "kRunning"
    BY <1>1, <1>3, <1>4, <2>2 DEF SuspendLoop, FinishSuspend, Goto, state, stack, Threads
  <2>3. QED
    BY <2>1, <2>2
<1>5. CASE AwaitSuspend \/ \E how \in StopMethods : SuspendThread(how)
  BY <1>4, <1>5 DEF AwaitSuspend, SuspendThread
<1>6. CASE ResumeThread
  <2>1. CASE Stopper.got /\ fSuspend.ui > 0
    BY <1>2, <1>6, <2>1 DEF ResumeThread, LetGo, Broadcast
  <2>2. CASE ~(Stopper.got /\ fSuspend.ui > 0)
    BY <1>3, <1>6, <2>2 DEF ResumeThread
  <2>3. QED
    BY <2>1, <2>2
<1>7. CASE CallROM \/ DestroyThread \/ UnblockDialog
  BY <1>2, <1>7 DEF CallROM, BeginCall, DestroyThread, UnblockDialog, Broadcast, BroadcastAndWait
<1>8. CASE CatchInSLP \/ DoReset \/ ExitDebugger \/ SetSuspendState
  BY <1>1, <1>3, <1>8
  DEF CatchInSLP, DoReset, ExitDebugger, SetSuspendState, Goto, state, stack, Threads
<1>9. CASE OpenDialog \/ AnswerDialog \/ DropDialogs \/ CloseDocument
  BY <1>1, <1>3, <1>9
  DEF OpenDialog, AnswerDialog, DropDialogs, CloseDocument, Goto, flow, state, stack, Threads
<1>10. CASE AwaitStopped
  <2>1. /\ UNCHANGED <<fState, calls>> /\ pc'["cpu"] = pc["cpu"]
        /\ "cpu" \in waiting' => "cpu" \in waiting
    BY <1>1, <1>10 DEF AwaitStopped, Goto, state, stack, Threads
  <2>2. QED
    BY <2>1 DEF WaitsSuspended, Awake
<1>11. QED
  BY <1>5, <1>6, <1>7, <1>8, <1>9, <1>10 DEF UIThread, StopMethods

LEMMA WaitsStep ==
  ASSUME Discipline, Calm, WaitsSuspended, [Next]_vars
  PROVE  WaitsSuspended'
<1>1. CASE CPUThread
  BY <1>1, CPUThreadWaits DEF WaitsSuspended
<1>2. CASE UNCHANGED vars
  BY <1>2 DEF vars, flow, state, stack, WaitsSuspended, Awake
<1>3. QED
  BY <1>1, <1>2, UIWaits, LoopWaits DEF Next

(* The CPU thread sleeps in Run only for a reason that somebody will lift. *)
THEOREM NobodySleepsForNothing ==
  ASSUME Calm PROVE Spec => []NoLostWakeup
<1>1. Init => WaitsSuspended
  BY DEF Init, WaitsSuspended
<1>2. TypeInv /\ StopDiscipline /\ WaitsSuspended /\ [Next]_vars => WaitsSuspended'
  BY WaitsStep DEF Discipline
<1>3. TypeInv /\ StopDiscipline /\ WaitsSuspended => NoLostWakeup
  <2>1. ASSUME TypeInv, StopDiscipline, WaitsSuspended,
               pc["cpu"] = "inner", ~Awake("cpu"), Free
        PROVE  fSuspend # NoCounters
    <3>1. calls["ui"] = <<>>
      BY <2>1 DEF Free, TypeInv, StackShape, StackLabels
    <3>2. QED
      BY <2>1, <3>1 DEF WaitsSuspended, StopDiscipline, CPUWaits
  <2>2. QED
    BY <2>1 DEF NoLostWakeup
<1>4. QED
  BY <1>1, <1>2, <1>3, TypeInvariant, StopsAreDisciplined, PTL DEF Spec

----------------------------------------------------------------------------
(* Stops on a system call.                                                 *)

(* The flag of a system call, where the first call of the UI thread put it.*)
SysKept == IF calls["ui"] = <<>> THEN fSuspend.sys ELSE calls["ui"][1].old.sys

\* The CPU thread, outside any call: the flag is set at a system call, and
\* the loop then ends without another step.  No call sets the flag aside.
CPUAtSysCall ==
  /\ Depth("cpu") = 1 /\ fSuspend.sys = 1 =>
       /\ atSysCall /\ pc["cpu"] \in {"exec", "leave", "reset"}
       /\ pc["cpu"] = "exec" => endOfCycle
  /\ Depth("cpu") > 1 => calls["cpu"][2].old.sys = 0

\* The CPU thread waits, or is about to.
HeldAtSysCall == calls["cpu"] = <<>> /\ SysKept = 1 => atSysCall

SnapAtSysCall == pc["ui"] = "exitDebugger" /\ snapshot.sys = 1 => atSysCall

SysStops == {i \in Stops : stoppers[i].how = "kStopOnSysCall"}

StopsAtSysCall ==
  /\ SysStops # {} => atSysCall
  /\ pc["ui"] = "reset" => SysStops = {}

AtSysCall == CPUAtSysCall /\ HeldAtSysCall /\ SnapAtSysCall /\ StopsAtSysCall

LEMMA FoldedSys ==
  ASSUME NEW f, f.old \in Counters
  PROVE  Folded(f).sys = f.old.sys
BY DEF Folded, Counters

(* A step of the CPU thread, outside Run's inner loop: nobody holds it.    *)
LEMMA CPUAlone ==
  ASSUME Discipline, pc["cpu"] # "inner", UNCHANGED stoppers, pc'["ui"] = pc["ui"]
  PROVE  SnapAtSysCall' /\ StopsAtSysCall' /\ calls["ui"] = <<>>
<1>1. Stops = {} /\ calls["ui"] = <<>>
  BY GuestFree
<1>2. SysStops' = {}
  BY <1>1 DEF SysStops, Stops
<1>3. pc'["ui"] \notin {"reset", "exitDebugger"}
  BY <1>1 DEF Discipline, StopDiscipline, StopsInForce
<1>4. QED
  BY <1>1, <1>2, <1>3 DEF SnapAtSysCall, StopsAtSysCall

(* A step of the UI thread inside a call, or entering or leaving one: the  *)
(* flag it set aside is kept, and the guest's place with it.               *)
LEMMA UICalls ==
  ASSUME Discipline, AtSysCall, Stops # {} \/ calls["ui"] # <<>>,
         SysKept' = SysKept, pc'["ui"] \notin {"reset", "exitDebugger"},
         UNCHANGED <<stoppers, atSysCall>>, calls'["cpu"] = calls["cpu"]
  PROVE  AtSysCall'
<1>1. calls["cpu"] = <<>> /\ Depth("cpu")' = 0
  BY StopHolds, EmptySeq DEF Depth
<1>2. SysStops' = SysStops
  BY DEF SysStops, Stops
<1>3. CPUAtSysCall'
  BY <1>1 DEF CPUAtSysCall
<1>4. HeldAtSysCall' /\ SnapAtSysCall' /\ StopsAtSysCall'
  BY <1>1, <1>2 DEF AtSysCall, HeldAtSysCall, SnapAtSysCall, StopsAtSysCall
<1>5. QED
  BY <1>3, <1>4 DEF AtSysCall

(* A step of the UI thread outside any call, which lets stops go at most.  *)
LEMMA UIQuiet ==
  ASSUME Discipline, AtSysCall, calls["ui"] = <<>>,
         fSuspend'.sys \in {0, fSuspend.sys},
         pc'["ui"] = "exitDebugger" => Stops # {} /\ snapshot'.sys = fSuspend.sys,
         SysStops' = {} \/ SysStops # {},
         UNCHANGED <<calls, atSysCall, endOfCycle>>, pc'["cpu"] = pc["cpu"],
         pc'["ui"] = "reset" => SysStops' = {}
  PROVE  AtSysCall'
<1>1. Depth("cpu")' = Depth("cpu") /\ SysKept = fSuspend.sys /\ SysKept' = fSuspend'.sys
  BY DEF Depth, SysKept
<1>2. CPUAtSysCall' /\ HeldAtSysCall'
  BY <1>1 DEF AtSysCall, CPUAtSysCall, HeldAtSysCall
<1>3. SnapAtSysCall'
  BY <1>1, StopHolds DEF AtSysCall, HeldAtSysCall, SnapAtSysCall
<1>4. StopsAtSysCall'
  BY DEF AtSysCall, StopsAtSysCall
<1>5. QED
  BY <1>2, <1>3, <1>4 DEF AtSysCall

----------------------------------------------------------------------------
(* The CPU thread outside any call takes no step with the flag set.        *)
LEMMA StepsWithoutFlag ==
  ASSUME Discipline, AtSysCall, Depth("cpu") = 1,
         CanStep("cpu") \/ pc["cpu"] \notin {"exec", "leave", "reset"}
  PROVE  fSuspend.sys = 0 /\ fNestLevel = 0 /\ ~Nested
<1>1. calls["cpu"] # <<>> /\ fSuspend.sys \in {0, 1} /\ fNestLevel \in Nat
  BY StackFacts DEF Discipline, TypeInv, TypeOK, Counters, Threads
<1>2. fNestLevel = 0
  BY <1>1 DEF Discipline, StopDiscipline, LevelIsDepth
<1>3. ~Nested
  BY <1>2 DEF Nested
<1>4. CanStep("cpu") => pc["cpu"] = "exec" /\ ~endOfCycle
  BY <1>3 DEF CanStep, Executing
<1>5. QED
  BY <1>1, <1>2, <1>3, <1>4 DEF AtSysCall, CPUAtSysCall

LEMMA CPUBeginsAtSysCall ==
  ASSUME Discipline, AtSysCall, NEW kind \in CallKinds, BeginCall("cpu", kind),
         CanStep("cpu") \/ pc["cpu"] \in {"patch", "sysCall"}
  PROVE  AtSysCall'
<1> DEFINE f == [kind |-> kind, old |-> fSuspend, nest |-> fNestLevel, saved |-> fState]
           n == Depth("cpu")
<1>1. TypeOK
  BY DEF Discipline, TypeInv
<1>2. /\ pc'["cpu"] = "call" /\ pc'["ui"] = pc["ui"] /\ UNCHANGED stoppers
      /\ fSuspend' = NoCounters /\ calls'["cpu"] = Append(calls["cpu"], f)
  BY <1>1 DEF BeginCall, Goto, TypeOK, Threads
<1>3. f.old = fSuspend
  OBVIOUS
<1> HIDE DEF f
<1>4. /\ n \in Nat /\ Depth("cpu")' = n + 1 /\ calls'["cpu"] # <<>>
      /\ calls'["cpu"][n + 1] = f /\ \A i \in 1 .. n : calls'["cpu"][i] = calls["cpu"][i]
  <2>1. calls["cpu"] \in Seq(Frames) /\ f \in Frames
    BY <1>1 DEF f, Frames, TypeOK, Threads
  <2>2. QED
    BY <1>2, <2>1, AddLast DEF Depth
<1>5. n # 0 /\ pc["cpu"] # "inner"
  <2>1. pc["cpu"] \in {"exec", "patch", "sysCall"}
    BY DEF CanStep, Executing
  <2>2. calls["cpu"] # <<>>
    BY <2>1 DEF Discipline, StopDiscipline, CPUAtWork
  <2>3. QED
    BY <1>1, <2>1, <2>2, StackFacts DEF Threads
<1>6. calls'["cpu"][2].old.sys = 0
  <2>1. CASE n = 1
    BY <1>3, <1>4, <2>1, StepsWithoutFlag
  <2>2. CASE n # 1
    <3>1. n > 1 /\ calls'["cpu"][2] = calls["cpu"][2]
      BY <1>4, <1>5, <2>2
    <3>2. QED
      BY <3>1 DEF AtSysCall, CPUAtSysCall
  <2>3. QED
    BY <2>1, <2>2
<1>7. CPUAtSysCall' /\ HeldAtSysCall'
  BY <1>2, <1>4, <1>6 DEF CPUAtSysCall, HeldAtSysCall, NoCounters
<1>8. QED
  BY <1>2, <1>5, <1>7, CPUAlone DEF AtSysCall

LEMMA UIBeginsAtSysCall ==
  ASSUME Discipline, AtSysCall, NEW kind \in CallKinds, BeginCall("ui", kind),
         Stops # {} \/ calls["ui"] # <<>>
  PROVE  AtSysCall'
<1> DEFINE f == [kind |-> kind, old |-> fSuspend, nest |-> fNestLevel, saved |-> fState]
           n == Depth("ui")
<1>1. TypeOK
  BY DEF Discipline, TypeInv
<1>2. /\ pc'["ui"] = "call" /\ calls'["ui"] = Append(calls["ui"], f)
      /\ calls'["cpu"] = calls["cpu"] /\ UNCHANGED <<stoppers, atSysCall>>
  BY <1>1 DEF BeginCall, Goto, TypeOK, Threads, guest
<1>3. f.old = fSuspend
  OBVIOUS
<1> HIDE DEF f
<1>4. /\ n \in Nat /\ calls'["ui"] # <<>> /\ calls'["ui"][n + 1] = f
      /\ \A i \in 1 .. n : calls'["ui"][i] = calls["ui"][i]
      /\ calls["ui"] = <<>> <=> n = 0
  <2>1. calls["ui"] \in Seq(Frames) /\ f \in Frames
    BY <1>1 DEF f, Frames, TypeOK, Threads
  <2>2. calls["ui"] = <<>> <=> n = 0
    BY <1>1, StackFacts DEF Threads
  <2>3. QED
    BY <1>2, <2>1, <2>2, AddLast DEF Depth
<1> HIDE DEF n
<1>5. SysKept' = SysKept
  BY <1>3, <1>4 DEF SysKept
<1>6. QED
  BY <1>2, <1>5, UICalls

(* The frame on top is replaced by one with the same flag.                 *)
LEMMA FlagsKept ==
  ASSUME TypeOK, NEW t \in Threads, calls[t] # <<>>,
         NEW f \in Frames, f.old.sys = Top(t).old.sys,
         calls' = [calls EXCEPT ![t] = Append(Front(@), f)]
  PROVE  /\ Depth(t) \in Nat \ {0} /\ Depth(t)' = Depth(t) /\ calls'[t] # <<>>
         /\ \A i \in 1 .. Depth(t) : calls'[t][i].old.sys = calls[t][i].old.sys
         /\ \A u \in Threads : u # t => calls'[u] = calls[u]
<1> DEFINE s == Append(Front(calls[t]), f)
           n == Depth(t)
<1>1. calls[t] \in Seq(Frames) /\ calls \in [Threads -> Seq(Frames)]
  BY DEF TypeOK
<1>2. /\ s \in Seq(Frames) /\ s # <<>> /\ Len(s) = n /\ s[n] = f
      /\ \A i \in 1 .. n - 1 : s[i] = calls[t][i]
  <2>1. /\ s \in Seq(Frames) /\ s # <<>> /\ Len(s) = Len(calls[t])
        /\ s[Len(calls[t])] = f
        /\ \A i \in 1 .. Len(calls[t]) - 1 : s[i] = calls[t][i]
    BY <1>1, ReplaceLast
  <2>2. n = Len(calls[t])
    BY DEF Depth
  <2> HIDE DEF s, n
  <2>3. QED
    BY <2>1, <2>2
<1>3. n \in Nat \ {0} /\ Top(t) = calls[t][n]
  BY <1>1, FrontLast DEF Top, Depth
<1>4. calls' = [calls EXCEPT ![t] = s]
  OBVIOUS
<1> HIDE DEF s, n
<1>5. calls'[t] = s /\ \A u \in Threads : u # t => calls'[u] = calls[u]
  BY <1>1, <1>4
<1>6. \A i \in 1 .. n : s[i].old.sys = calls[t][i].old.sys
  <2>1. \A i \in 1 .. n : i = n \/ i \in 1 .. n - 1
    BY <1>3
  <2>2. QED
    BY <1>2, <1>3, <2>1
<1>7. Depth(t)' = n
  BY <1>2, <1>5 DEF Depth
<1>8. QED
  BY <1>2, <1>3, <1>5, <1>6, <1>7 DEF n

(* The thread enters its loop, or goes on with it.                         *)
LEMMA EnterAtSysCall ==
  ASSUME Discipline, AtSysCall, NEW t \in Threads, CallCPU(t) \/ ReenterCall(t)
  PROVE  AtSysCall'
<1>1. TypeOK /\ pc \in [Threads -> CPULabels \cup UILabels]
  BY DEF Discipline, TypeInv, TypeOK
<1>2. pc[t] \in {"call", "return"} /\ calls[t] # <<>>
  BY EmptySeq DEF CallCPU, ReenterCall, Discipline, TypeInv, StackShape, StackLabels, Threads
<1>3. /\ UNCHANGED <<stoppers, atSysCall>>
      /\ \A u \in Threads : u # t => pc'[u] = pc[u]
      /\ pc'[t] \in {"exec", "call"}
      /\ fSuspend'.sys \in {0, fSuspend.sys}
  <2>1. UNCHANGED <<stoppers, atSysCall>> /\ fSuspend'.sys \in {0, fSuspend.sys}
    BY DEF CallCPU, ReenterCall, guest, NoCounters
  <2>2. Goto(t, "exec") \/ Goto(t, "call")
    BY DEF CallCPU, ReenterCall
  <2>3. QED
    BY <1>1, <2>1, <2>2 DEF Goto
<1>4. \E f \in Frames : /\ f.old.sys = Top(t).old.sys
                        /\ calls' = [calls EXCEPT ![t] = Append(Front(@), f)]
  <2>1. Top(t) \in Frames /\ Top(t).old \in Counters
    <3>1. Top(t) \in Frames
      BY <1>1, <1>2, TopTyped
    <3>2. QED
      BY <3>1 DEF Frames
  <2>2. CASE CallCPU(t)
    <3> DEFINE f == [Top(t) EXCEPT !.saved = fState]
    <3>1. f \in Frames /\ f.old = Top(t).old
      BY <1>1, <2>1 DEF Frames, TypeOK
    <3>2. calls' = [calls EXCEPT ![t] = Append(Front(@), f)]
      BY <2>2 DEF CallCPU
    <3> HIDE DEF f
    <3>3. QED
      BY <3>1, <3>2
  <2>3. CASE ReenterCall(t)
    <3> DEFINE old == Folded(Top(t))
               f == [Top(t) EXCEPT !.old = old]
    <3>1. old \in Counters /\ old.sys = Top(t).old.sys
      BY <1>1, <2>1, FoldedTyped, FoldedSys DEF TypeOK
    <3>2. calls' = [calls EXCEPT ![t] = Append(Front(@), f)]
      BY <2>3 DEF ReenterCall
    <3> HIDE DEF old
    <3>3. f \in Frames /\ f.old = old
      BY <2>1, <3>1 DEF Frames
    <3> HIDE DEF f
    <3>4. QED
      BY <3>1, <3>2, <3>3
  <2>4. QED
    BY <2>2, <2>3
<1>5. /\ Depth(t) \in Nat \ {0} /\ Depth(t)' = Depth(t) /\ calls'[t] # <<>>
      /\ \A i \in 1 .. Depth(t) : calls'[t][i].old.sys = calls[t][i].old.sys
      /\ \A u \in Threads : u # t => calls'[u] = calls[u]
  BY <1>1, <1>2, <1>4, FlagsKept
<1>6. CASE t = "cpu"
  <2>1. pc["cpu"] # "inner" /\ pc'["ui"] = pc["ui"]
    BY <1>2, <1>3, <1>6 DEF Threads
  <2>2. Depth("cpu") = 1 => fSuspend'.sys = 0
    BY <1>2, <1>3, <1>6, StepsWithoutFlag
  <2>3. Depth("cpu") > 1 => calls'["cpu"][2].old.sys = 0
    BY <1>5, <1>6 DEF AtSysCall, CPUAtSysCall
  <2>4. CPUAtSysCall' /\ HeldAtSysCall'
    BY <1>5, <1>6, <2>2, <2>3 DEF CPUAtSysCall, HeldAtSysCall
  <2>5. QED
    BY <1>3, <2>1, <2>4, CPUAlone DEF AtSysCall
<1>7. CASE t = "ui"
  <2>1. SysKept' = SysKept
    BY <1>2, <1>5, <1>7 DEF SysKept
  <2>2. QED
    BY <1>2, <1>3, <1>5, <1>7, <2>1, UICalls DEF Threads
<1>8. QED
  BY <1>6, <1>7 DEF Threads

(* The CPU thread comes out of its loop at the system call it stopped at.  *)
LEMMA LeaveAtSysCall ==
  ASSUME Discipline, AtSysCall, NEW t \in Threads, LeaveCPU(t)
  PROVE  AtSysCall'
<1>1. TypeOK /\ pc \in [Threads -> CPULabels \cup UILabels]
  BY DEF Discipline, TypeInv, TypeOK
<1>2. pc[t] = "leave" /\ calls[t] # <<>>
  BY DEF LeaveCPU, Discipline, TypeInv, StackShape, StackLabels, Threads
<1>3. /\ Depth(t) \in Nat \ {0} /\ Top(t) = calls[t][Depth(t)]
      /\ DOMAIN calls[t] = 1 .. Depth(t)
  <2>1. calls[t] \in Seq(Frames)
    BY <1>1 DEF TypeOK
  <2>2. QED
    BY <1>1, <1>2, <2>1, FrontLast, StackFacts DEF Top, Depth
<1>4. /\ \A u \in Threads : u # t => pc'[u] = pc[u] /\ calls'[u] = calls[u]
      /\ UNCHANGED <<fSuspend, stoppers, atSysCall>>
      /\ IF Top(t).kind = "run" THEN calls'[t] = <<>> ELSE calls'[t] = calls[t] /\ pc'[t] = "return"
  BY <1>1, <1>2 DEF LeaveCPU, Goto, TypeOK, guest
<1>5. CASE t = "cpu"
  <2>1. pc["cpu"] # "inner" /\ pc'["ui"] = pc["ui"]
    BY <1>2, <1>4, <1>5 DEF Threads
  <2>2. SnapAtSysCall' /\ StopsAtSysCall' /\ calls["ui"] = <<>> /\ calls'["ui"] = <<>>
    BY <1>4, <1>5, <2>1, CPUAlone DEF Threads
  <2>3. CASE Top(t).kind = "run"
    <3>1. Depth("cpu") = 1
      BY <1>3, <1>5, <2>3 DEF Discipline, TypeInv, StackShape, StackKinds
    <3>2. calls'["cpu"] = <<>> /\ Depth("cpu")' = 0
      BY <1>4, <1>5, <2>3, EmptySeq DEF Depth
    <3>3. CPUAtSysCall' /\ HeldAtSysCall'
      BY <1>4, <2>2, <3>1, <3>2 DEF AtSysCall, CPUAtSysCall, HeldAtSysCall, SysKept
    <3>4. QED
      BY <2>2, <3>3 DEF AtSysCall
  <2>4. CASE Top(t).kind # "run"
    <3>1. Depth("cpu") # 1
      BY <1>3, <1>5, <2>4 DEF Discipline, TypeInv, StackShape, StackKinds
    <3>2. calls'["cpu"] = calls["cpu"] /\ Depth("cpu")' = Depth("cpu")
      BY <1>4, <1>5, <2>4 DEF Depth
    <3>3. CPUAtSysCall' /\ HeldAtSysCall'
      BY <1>2, <1>5, <3>1, <3>2 DEF AtSysCall, CPUAtSysCall, HeldAtSysCall
    <3>4. QED
      BY <2>2, <3>3 DEF AtSysCall
  <2>5. QED
    BY <2>3, <2>4
<1>6. CASE t = "ui"
  <2>1. Top(t).kind # "run"
    BY <1>3, <1>6 DEF Discipline, TypeInv, StackShape, StackKinds
  <2>2. calls'["ui"] = calls["ui"] /\ SysKept' = SysKept
    BY <1>4, <1>6, <2>1 DEF SysKept
  <2>3. QED
    BY <1>2, <1>4, <1>6, <2>1, <2>2, UICalls DEF Threads
<1>7. QED
  BY <1>5, <1>6 DEF Threads

(* A call that ends gives the flag back as it was.                         *)
LEMMA ReturnAtSysCall ==
  ASSUME Discipline, AtSysCall, NEW t \in Threads, ReturnFromCall(t)
  PROVE  AtSysCall'
<1> DEFINE n == Depth(t)
<1>1. TypeOK /\ pc \in [Threads -> CPULabels \cup UILabels]
  BY DEF Discipline, TypeInv, TypeOK
<1>2. pc[t] = "return" /\ calls[t] # <<>>
  BY EmptySeq DEF ReturnFromCall, Discipline, TypeInv, StackShape, StackLabels, Threads
<1>3. /\ UNCHANGED <<stoppers, atSysCall>> /\ calls' = [calls EXCEPT ![t] = Front(@)]
      /\ \A u \in Threads : u # t => pc'[u] = pc[u]
      /\ pc'[t] = AfterCall[Top(t).kind]
  BY <1>1 DEF ReturnFromCall, Goto, guest
<1>4. /\ Depth(t)' = n - 1 /\ n \in Nat \ {0} /\ DOMAIN calls[t] = 1 .. n
      /\ calls'[t] = <<>> <=> n = 1
      /\ \A i \in 1 .. n - 1 : calls'[t][i] = calls[t][i]
      /\ \A u \in Threads : u # t => calls'[u] = calls[u]
      /\ Top(t) \in Frames /\ Top(t) = calls[t][n]
  BY <1>1, <1>2, <1>3, TopRemoved DEF Depth
<1> HIDE DEF n
<1>5. fSuspend'.sys = Top(t).old.sys
  <2> DEFINE kept == Folded(Top(t))
  <2>1. Top(t).old \in Counters
    BY <1>4 DEF Frames
  <2>2. kept \in Counters /\ kept.sys = Top(t).old.sys
    BY <1>1, <2>1, FoldedTyped, FoldedSys DEF TypeOK
  <2>3. fSuspend' = [kept EXCEPT !.ext = IF @ < 0 THEN 0 ELSE @]
    BY DEF ReturnFromCall, Schedule
  <2> HIDE DEF kept
  <2>4. QED
    BY <2>2, <2>3 DEF Counters
<1>6. CASE t = "cpu"
  <2>1. pc["cpu"] # "inner" /\ pc'["ui"] = pc["ui"]
    BY <1>2, <1>3, <1>6 DEF Threads
  <2>2. n > 1
    BY <1>2, <1>6 DEF n, Depth, Discipline, TypeInv, StackShape, StackLabels
  <2>3. calls["cpu"][2].old.sys = 0
    BY <1>6, <2>2 DEF n, AtSysCall, CPUAtSysCall
  <2>4. Depth("cpu")' = 1 => fSuspend'.sys = 0
    BY <1>4, <1>5, <1>6, <2>2, <2>3
  <2>5. Depth("cpu")' > 1 => calls'["cpu"][2].old.sys = 0
    <3>1. ASSUME Depth("cpu")' > 1 PROVE 2 \in 1 .. n - 1
      BY <1>4, <1>6, <3>1
    <3>2. QED
      BY <1>4, <1>6, <2>3, <3>1
  <2>6. calls'["cpu"] # <<>>
    BY <1>4, <1>6, <2>2
  <2>7. CPUAtSysCall' /\ HeldAtSysCall'
    BY <2>4, <2>5, <2>6 DEF CPUAtSysCall, HeldAtSysCall
  <2>8. QED
    BY <1>3, <2>1, <2>7, CPUAlone DEF AtSysCall
<1>7. CASE t = "ui"
  <2>1. SysKept' = SysKept
    <3>1. CASE n = 1
      BY <1>2, <1>4, <1>5, <1>7, <3>1 DEF SysKept
    <3>2. CASE n # 1
      <4>1. calls'["ui"] # <<>> /\ calls'["ui"][1] = calls["ui"][1]
        BY <1>4, <1>7, <3>2
      <4>2. QED
        BY <1>2, <1>7, <4>1 DEF SysKept
    <3>3. QED
      BY <3>1, <3>2
  <2>2. pc'["ui"] \notin {"reset", "exitDebugger"}
    <3>1. n \in DOMAIN calls["ui"] /\ Top(t) = calls["ui"][n]
      BY <1>4, <1>7
    <3>2. Top(t).kind \in {"rom", "patch"}
      BY <3>1 DEF Discipline, TypeInv, StackShape, StackKinds
    <3>3. QED
      BY <1>3, <1>7, <3>2 DEF AfterCall
  <2>3. QED
    BY <1>2, <1>3, <1>4, <1>7, <2>1, <2>2, UICalls DEF Threads
<1>8. QED
  BY <1>6, <1>7 DEF Threads

(* A reset forgets the flag and the guest's place; nobody needs either.    *)
LEMMA ResetAtSysCall ==
  ASSUME Discipline, AtSysCall, NEW t \in Threads, Reset(t)
  PROVE  AtSysCall'
<1>1. pc \in [Threads -> CPULabels \cup UILabels]
  BY DEF Discipline, TypeInv, TypeOK
<1>2. /\ pc[t] = "reset" /\ fSuspend'.sys = 0
      /\ UNCHANGED <<calls, stoppers, snapshot>>
      /\ \A u \in Threads : u # t => pc'[u] = pc[u]
      /\ pc'[t] \notin {"reset", "exitDebugger"}
  BY <1>1 DEF Reset, CountersAfterReset, NoCounters, Goto, stack
<1>3. \A u \in Threads : Depth(u)' = Depth(u)
  BY <1>2 DEF Depth
<1>4. SysStops' = SysStops
  BY <1>2 DEF SysStops, Stops
<1>5. CASE t = "cpu"
  <2>1. pc["cpu"] # "inner" /\ pc'["ui"] = pc["ui"]
    BY <1>2, <1>5 DEF Threads
  <2>2. SnapAtSysCall' /\ StopsAtSysCall' /\ calls["ui"] = <<>>
    BY <1>2, <2>1, CPUAlone
  <2>3. CPUAtSysCall' /\ HeldAtSysCall'
    BY <1>2, <1>3, <2>2 DEF AtSysCall, CPUAtSysCall, HeldAtSysCall, SysKept, Threads
  <2>4. QED
    BY <2>2, <2>3 DEF AtSysCall
<1>6. CASE t = "ui"
  <2>1. calls["ui"] = <<>> /\ SysStops = {}
    BY <1>2, <1>6 DEF Discipline, StopDiscipline, StopsInForce, AtSysCall, StopsAtSysCall
  <2>2. CPUAtSysCall' /\ HeldAtSysCall'
    BY <1>2, <1>3, <2>1 DEF AtSysCall, CPUAtSysCall, HeldAtSysCall, SysKept, Threads
  <2>3. SnapAtSysCall' /\ StopsAtSysCall'
    BY <1>2, <1>4, <1>6, <2>1 DEF SnapAtSysCall, StopsAtSysCall
  <2>4. QED
    BY <2>2, <2>3 DEF AtSysCall
<1>7. QED
  BY <1>5, <1>6 DEF Threads

(* The guest's own steps, and the loop's between them.                     *)
LEMMA WorkAtSysCall ==
  ASSUME Discipline, AtSysCall, NEW t \in Threads,
         \/ CycleSlowly(t) \/ ExecuteSpecialNested(t) \/ ExecuteSpecial(t)
         \/ ExecuteReset(t) \/ PatchDone(t)
         \/ SubroutineReturn(t) \/ SignalSend(t) \/ SignalResume(t)
         \/ Breakpoint(t) \/ ScheduleReset(t)
  PROVE  AtSysCall'
<1>1. /\ fSuspend \in Counters /\ fNestLevel \in Nat
      /\ pc \in [Threads -> CPULabels \cup UILabels]
      /\ calls["cpu"] = <<>> <=> Depth("cpu") = 0
  BY StackFacts DEF Discipline, TypeInv, TypeOK, Threads
<1>2. pc[t] \in {"exec", "patch"}
  BY DEF CycleSlowly, ExecuteSpecialNested, ExecuteSpecial, ExecuteReset, PatchDone,
         SubroutineReturn, SignalSend, SignalResume, Breakpoint, ScheduleReset,
         GuestStep, CanStep, Executing
<1>3. UNCHANGED <<calls, stoppers, snapshot>>
  BY DEF CycleSlowly, ExecuteSpecialNested, ExecuteSpecial, ExecuteReset, PatchDone,
         SubroutineReturn, SignalSend, SignalResume, Breakpoint, ScheduleReset,
         stack, guest
<1>4. /\ \A u \in Threads : u # t => pc'[u] = pc[u]
      /\ pc'[t] \in {"exec", "leave", "reset"}
      /\ pc'[t] = "reset" => ~Nested
  BY <1>1 DEF CycleSlowly, ExecuteSpecialNested, ExecuteSpecial, ExecuteReset, PatchDone,
         SubroutineReturn, SignalSend, SignalResume, Breakpoint, ScheduleReset,
         GuestStep, CanStep, Executing, Goto, flow
<1>5. Nested => atSysCall' = atSysCall
  BY DEF CycleSlowly, ExecuteSpecialNested, ExecuteSpecial, ExecuteReset, PatchDone,
         SubroutineReturn, SignalSend, SignalResume, Breakpoint, ScheduleReset,
         GuestStep, guest, Discipline, TypeInv, TypeOK
<1>6. CASE t = "cpu"
  <2>1. pc["cpu"] # "inner" /\ pc'["ui"] = pc["ui"] /\ calls["cpu"] # <<>>
    <3>1. calls["cpu"] # <<>>
      BY <1>2, <1>6 DEF Discipline, StopDiscipline, CPUAtWork
    <3>2. QED
      BY <1>2, <1>4, <1>6, <3>1 DEF Threads
  <2>2. Depth("cpu")' = Depth("cpu")
    BY <1>3 DEF Depth
  <2>3. ASSUME Depth("cpu") = 1, fSuspend'.sys = 1
        PROVE  atSysCall' /\ (pc'["cpu"] = "exec" => endOfCycle')
    <3>1. fNestLevel = 0
      BY <2>1, <2>3 DEF Discipline, StopDiscipline, LevelIsDepth
    <3>2. ~Nested
      BY <3>1 DEF Nested
    <3>3. CASE SignalSend("cpu")
      BY <3>2, <3>3 DEF SignalSend, Schedule
    <3>4. CASE SubroutineReturn("cpu")
      BY <3>2, <3>4 DEF SubroutineReturn
    <3>5. CASE SignalResume("cpu") \/ Breakpoint("cpu") \/ ScheduleReset("cpu")
      <4>1. CanStep("cpu") /\ fSuspend'.sys = fSuspend.sys
        BY <1>1, <3>5 DEF SignalResume, Breakpoint, ScheduleReset, GuestStep, Schedule, Counters
      <4>2. QED
        BY <2>3, <4>1, StepsWithoutFlag
    <3>6. CASE PatchDone("cpu")
      <4>1. pc["cpu"] = "patch" /\ fSuspend' = fSuspend
        BY <3>6 DEF PatchDone
      <4>2. QED
        BY <2>3, <4>1, StepsWithoutFlag
    <3>7. CASE CycleSlowly("cpu") \/ ExecuteSpecialNested("cpu") \/ ExecuteSpecial("cpu")
               \/ ExecuteReset("cpu")
      <4>1. fSuspend' = fSuspend /\ atSysCall' = atSysCall
        BY <3>7 DEF CycleSlowly, ExecuteSpecialNested, ExecuteSpecial, ExecuteReset, guest
      <4>2. fSuspend # NoCounters /\ atSysCall
        BY <2>3, <4>1 DEF NoCounters, AtSysCall, CPUAtSysCall
      <4>3. pc'["cpu"] = "exec" => endOfCycle'
        BY <1>1, <3>2, <3>7, <4>2
        DEF CycleSlowly, ExecuteSpecialNested, ExecuteSpecial, ExecuteReset, CheckForBreak, Goto, Threads
      <4>4. QED
        BY <4>1, <4>2, <4>3
    <3>8. QED
      BY <1>6, <3>3, <3>4, <3>5, <3>6, <3>7
  <2>4. CPUAtSysCall' /\ HeldAtSysCall'
    BY <1>3, <1>4, <1>6, <2>1, <2>2, <2>3 DEF AtSysCall, CPUAtSysCall, HeldAtSysCall
  <2>5. QED
    BY <1>3, <2>1, <2>4, CPUAlone DEF AtSysCall
<1>7. CASE t = "ui"
  <2>1. calls["ui"] # <<>>
    BY <1>2, <1>7 DEF Discipline, TypeInv, StackShape, StackLabels
  <2>2. Nested
    BY <2>1, StopHolds, StackFacts DEF Nested, Discipline, TypeInv, Threads
  <2>3. SysKept' = SysKept
    BY <1>3, <2>1 DEF SysKept
  <2>4. QED
    BY <1>3, <1>4, <1>5, <1>7, <2>1, <2>2, <2>3, UICalls DEF Threads
<1>8. QED
  BY <1>6, <1>7 DEF Threads

LEMMA CPUThreadAtSysCall ==
  ASSUME Discipline, Calm, AtSysCall, CPUThread
  PROVE  AtSysCall'
<1>1. TypeOK /\ pc \in [Threads -> CPULabels \cup UILabels]
  BY DEF Discipline, TypeInv, TypeOK
<1>2. CASE RunSuspend \/ RunStop
  <2>1. /\ UNCHANGED <<fSuspend, calls, stoppers, atSysCall, snapshot>> /\ pc'["ui"] = pc["ui"]
        /\ pc["cpu"] \in {"run", "inner"}
    BY <1>1, <1>2 DEF RunSuspend, RunStop, InRun, Goto, stack, guest, Threads
  <2>2. calls["cpu"] = <<>> /\ Depth("cpu")' = 0
    BY <2>1, EmptySeq DEF Discipline, StopDiscipline, CPUAtWork, Depth
  <2>3. SysStops' = SysStops /\ SysKept' = SysKept
    BY <2>1 DEF SysStops, Stops, SysKept
  <2>4. CPUAtSysCall'
    BY <2>2 DEF CPUAtSysCall
  <2>5. QED
    BY <2>1, <2>3, <2>4 DEF AtSysCall, HeldAtSysCall, SnapAtSysCall, StopsAtSysCall
<1>3. CASE RunCall
  <2> DEFINE f == [kind |-> "run", old |-> NoCounters, nest |-> 0, saved |-> fState]
  <2>1. /\ pc["cpu"] \in {"run", "inner"} /\ fSuspend = NoCounters
        /\ calls'["cpu"] = <<f>> /\ pc'["ui"] = pc["ui"]
        /\ UNCHANGED <<fSuspend, stoppers, snapshot, atSysCall>>
    BY <1>1, <1>3 DEF RunCall, InRun, MustBlock, Goto, guest, Threads, TypeOK
  <2> HIDE DEF f
  <2>2. calls'["cpu"] # <<>> /\ Depth("cpu")' = 1
    BY <2>1 DEF Depth
  <2>3. CPUAtSysCall' /\ HeldAtSysCall'
    BY <2>1, <2>2 DEF CPUAtSysCall, HeldAtSysCall, NoCounters
  <2>4. SysStops' = SysStops
    BY <2>1 DEF SysStops, Stops
  <2>5. QED
    BY <2>1, <2>3, <2>4 DEF AtSysCall, SnapAtSysCall, StopsAtSysCall
<1>4. CASE BreakOnSysCall
  BY <1>4, CPUBeginsAtSysCall DEF BreakOnSysCall, CallKinds
<1>5. CASE WakeUITask
  BY <1>5, CPUBeginsAtSysCall DEF WakeUITask, CallKinds
<1>6. CASE SuspendSysCall \/ IgnoreSysCall
  <2>1. /\ pc["cpu"] = "sysCall" /\ pc'["cpu"] = "exec" /\ pc'["ui"] = pc["ui"]
        /\ UNCHANGED <<calls, stoppers>> /\ Depth("cpu")' = Depth("cpu")
    BY <1>1, <1>6 DEF SuspendSysCall, IgnoreSysCall, Goto, stack, Threads, Depth
  <2>2. calls["cpu"] # <<>>
    BY <2>1 DEF Discipline, StopDiscipline, CPUAtWork
  <2>3. Depth("cpu") = 1 /\ fSuspend'.sys = 1 => atSysCall' /\ endOfCycle'
    <3>1. CASE SuspendSysCall
      BY <3>1 DEF SuspendSysCall, Schedule
    <3>2. CASE IgnoreSysCall
      BY <2>1, <3>2, StepsWithoutFlag DEF IgnoreSysCall
    <3>3. QED
      BY <1>6, <3>1, <3>2
  <2>4. CPUAtSysCall' /\ HeldAtSysCall'
    BY <2>1, <2>2, <2>3 DEF AtSysCall, CPUAtSysCall, HeldAtSysCall
  <2>5. QED
    BY <2>1, <2>4, CPUAlone DEF AtSysCall
<1>7. CASE NeedDialog \/ DeferredError
  BY <1>7 DEF NeedDialog, DeferredError, Calm
<1>8. CASE Catch \/ BlockOnDialog \/ Crash \/ StillBlocked \/ Unblock \/ DebugButton
  BY <1>8 DEF Catch, BlockOnDialog, Crash, StillBlocked, Unblock, DebugButton,
              Discipline, StopDiscipline, NoException, Threads
<1>9. QED
  BY <1>2, <1>3, <1>4, <1>5, <1>6, <1>7, <1>8 DEF CPUThread

LEMMA LoopAtSysCall ==
  ASSUME Discipline, Calm, AtSysCall, NEW t \in Threads, Loop(t) \/ Guest(t)
  PROVE  AtSysCall'
<1>1. CASE PatchCall(t)
  <2>1. BeginCall(t, "patch") /\ (CanStep(t) \/ pc[t] = "patch") /\ "patch" \in CallKinds
    BY <1>1 DEF PatchCall, CallKinds
  <2>2. CASE t = "cpu"
    BY <2>1, <2>2, CPUBeginsAtSysCall
  <2>3. CASE t = "ui"
    <3>1. calls["ui"] # <<>>
      BY <2>1, <2>3 DEF CanStep, Executing, Discipline, TypeInv, StackShape, StackLabels
    <3>2. QED
      BY <2>1, <2>3, <3>1, UIBeginsAtSysCall
  <2>4. QED
    BY <2>2, <2>3 DEF Threads
<1>2. CASE Unwind(t) \/ NestedError(t)
  BY <1>2 DEF Unwind, NestedError, Calm, Discipline, StopDiscipline, NoException
<1>3. QED
  BY <1>1, <1>2, EnterAtSysCall, LeaveAtSysCall, ReturnAtSysCall, ResetAtSysCall, WorkAtSysCall
  DEF Loop, Guest

----------------------------------------------------------------------------
(* A stop on a system call is granted only with the flag set.              *)
LEMMA StopGranted ==
  ASSUME Discipline, AtSysCall, NEW how \in StopMethods,
         NEW counters \in Counters, NEW others \in Seq(Stoppers),
         pc["ui"] \in {"idle", "suspending"},
         {i \in DOMAIN others : others[i].got} = Stops,
         \A i \in Stops : others[i] = stoppers[i],
         counters.sys = fSuspend.sys,
         SuspendLoop(how, counters, others)
  PROVE  AtSysCall'
<1>1. pc \in [Threads -> CPULabels \cup UILabels] /\ fState \in States
  BY DEF Discipline, TypeInv, TypeOK
<1>2. calls["ui"] = <<>>
  BY DEF Discipline, TypeInv, StackShape, StackLabels
<1>3. /\ UNCHANGED <<calls, atSysCall, endOfCycle>> /\ pc'["cpu"] = pc["cpu"]
      /\ pc'["ui"] \in {"idle", "suspending"}
  BY <1>1 DEF SuspendLoop, WaitToSuspend, FinishSuspend, Goto, stack, flags, guest, Threads
<1>4. fSuspend'.sys = fSuspend.sys
  <2>1. CASE fState = "kRunning"
    BY <2>1 DEF SuspendLoop, WaitToSuspend
  <2>2. CASE fState # "kRunning"
    BY <2>2 DEF SuspendLoop, FinishSuspend, Counters
  <2>3. QED
    BY <2>1, <2>2
<1>5. \E s \in Stoppers : /\ stoppers' = Append(others, s)
                          /\ s.got /\ s.how = "kStopOnSysCall" =>
                               fState = "kSuspended" /\ fSuspend.sys = 1
  <2>1. CASE fState = "kRunning"
    <3> DEFINE s == [how |-> how, got |-> FALSE, on |-> "none"]
    <3>1. stoppers' = Append(others, s) /\ s \in Stoppers /\ ~s.got
      BY <2>1 DEF SuspendLoop, WaitToSuspend, Stoppers
    <3> HIDE DEF s
    <3>2. QED
      BY <3>1
  <2>2. CASE fState # "kRunning"
    <3> DEFINE got == Granted(how, counters)
               s == [how |-> how, got |-> got, on |-> fState]
    <3>1. stoppers' = Append(others, s) /\ s.got = got /\ s.how = how
      BY <2>2 DEF SuspendLoop, FinishSuspend
    <3>2. got \in BOOLEAN
      BY DEF Granted
    <3>3. s \in Stoppers
      BY <1>1, <3>2 DEF Stoppers
    <3>4. got /\ how = "kStopOnSysCall" => fState = "kSuspended" /\ fSuspend.sys = 1
      BY DEF Granted
    <3> HIDE DEF s
    <3>5. QED
      BY <3>1, <3>3, <3>4
  <2>3. QED
    BY <2>1, <2>2
<1>6. SysStops' # {} => atSysCall
  <2>1. PICK s \in Stoppers : /\ stoppers' = Append(others, s)
                              /\ s.got /\ s.how = "kStopOnSysCall" =>
                                   fState = "kSuspended" /\ fSuspend.sys = 1
    BY <1>5
  <2>2. /\ Len(others) \in Nat /\ stoppers'[Len(others) + 1] = s
        /\ \A i \in 1 .. Len(others) : stoppers'[i] = others[i]
        /\ DOMAIN others = 1 .. Len(others) /\ DOMAIN stoppers' = 1 .. Len(others) + 1
    BY <2>1, AddLast
  <2>3. ASSUME NEW i \in SysStops' PROVE atSysCall
    <3>1. i \in DOMAIN stoppers' /\ stoppers'[i].got /\ stoppers'[i].how = "kStopOnSysCall"
      BY <2>3 DEF SysStops, Stops
    <3>2. CASE i \in DOMAIN others
      <4>1. stoppers'[i] = others[i] /\ i \in Stops
        BY <2>2, <3>1, <3>2
      <4>2. i \in SysStops
        BY <3>1, <4>1 DEF SysStops
      <4>3. QED
        BY <4>2 DEF AtSysCall, StopsAtSysCall
    <3>3. CASE i \notin DOMAIN others
      <4>1. i = Len(others) + 1
        BY <2>2, <3>1, <3>3
      <4>2. fState = "kSuspended" /\ fSuspend.sys = 1
        BY <2>1, <2>2, <3>1, <4>1
      <4>3. calls["cpu"] = <<>>
        BY <4>2, FoundSuspended
      <4>4. QED
        BY <1>2, <4>2, <4>3 DEF AtSysCall, HeldAtSysCall, SysKept
    <3>4. QED
      BY <3>2, <3>3
  <2>4. QED
    BY <2>3
<1>7. Depth("cpu")' = Depth("cpu") /\ SysKept' = SysKept
  BY <1>2, <1>3, <1>4 DEF Depth, SysKept
<1>8. QED
  BY <1>3, <1>4, <1>6, <1>7
  DEF AtSysCall, CPUAtSysCall, HeldAtSysCall, SnapAtSysCall, StopsAtSysCall

LEMMA AskAtSysCall ==
  ASSUME Discipline, AtSysCall,
         AwaitSuspend \/ \E how \in StopMethods : SuspendThread(how)
  PROVE  AtSysCall'
<1>1. TypeOK /\ fSuspend \in Counters /\ stoppers \in Seq(Stoppers)
  BY DEF Discipline, TypeInv, TypeOK
<1>2. ASSUME NEW how \in StopMethods, SuspendThread(how) PROVE AtSysCall'
  <2> DEFINE counters == IF how = "kStopNow" THEN [fSuspend EXCEPT !.ui = @ + 1] ELSE fSuspend
  <2>1. counters \in Counters /\ counters.sys = fSuspend.sys
    BY <1>1 DEF Counters
  <2>2. pc["ui"] = "idle" /\ SuspendLoop(how, counters, stoppers)
    BY <1>2 DEF SuspendThread, Free
  <2> HIDE DEF counters
  <2>3. {i \in DOMAIN stoppers : stoppers[i].got} = Stops
    BY DEF Stops
  <2>4. QED
    BY <1>1, <2>1, <2>2, <2>3, StopGranted
<1>3. CASE AwaitSuspend
  <2>1. pc["ui"] = "suspending" /\ SuspendLoop(Stopper.how, fSuspend, Front(stoppers))
    BY <1>3 DEF AwaitSuspend
  <2>2. stoppers # <<>> /\ Stops = {}
    BY <2>1 DEF Discipline, TypeInv, StackShape, StackLabels, StopDiscipline, StopRequested
  <2>3. /\ Front(stoppers) \in Seq(Stoppers) /\ Stopper.how \in StopMethods
        /\ {i \in DOMAIN Front(stoppers) : Front(stoppers)[i].got} = Stops
    BY <1>1, <2>2, StopsRemoved DEF Stoppers
  <2>4. QED
    BY <1>1, <2>1, <2>2, <2>3, StopGranted
<1>4. QED
  BY <1>2, <1>3

(* The stopper on top, and the stops that are left without it.             *)
LEMMA TopStopper ==
  ASSUME TypeOK, stoppers # <<>>
  PROVE  /\ Len(stoppers) \in Nat \ {0} /\ Stopper = stoppers[Len(stoppers)]
         /\ DOMAIN stoppers = 1 .. Len(stoppers)
         /\ stoppers' = Front(stoppers) => SysStops' \subseteq SysStops
<1>1. stoppers \in Seq(Stoppers)
  BY DEF TypeOK
<1>2. /\ Front(stoppers) \in Seq(Stoppers) /\ Len(Front(stoppers)) = Len(stoppers) - 1
      /\ Len(stoppers) \in Nat \ {0} /\ Stopper = stoppers[Len(stoppers)]
      /\ \A i \in 1 .. Len(stoppers) - 1 : Front(stoppers)[i] = stoppers[i]
  BY <1>1, FrontLast DEF Stopper
<1>3. /\ DOMAIN stoppers = 1 .. Len(stoppers)
      /\ DOMAIN Front(stoppers) = 1 .. Len(stoppers) - 1
  BY <1>1, <1>2
<1>4. ASSUME stoppers' = Front(stoppers) PROVE SysStops' \subseteq SysStops
  BY <1>2, <1>3, <1>4 DEF SysStops, Stops
<1>5. QED
  BY <1>2, <1>3, <1>4

LEMMA UIAtSysCall ==
  ASSUME Discipline, Calm, AtSysCall, UIThread
  PROVE  AtSysCall'
<1>1. /\ TypeOK /\ fSuspend \in Counters
      /\ pc \in [Threads -> CPULabels \cup UILabels]
  BY DEF Discipline, TypeInv, TypeOK
<1>2. ASSUME pc["ui"] \notin {"call", "exec", "leave", "return", "patch", "reset"}
      PROVE  calls["ui"] = <<>>
  BY <1>2 DEF Discipline, TypeInv, StackShape, StackLabels
<1>3. ASSUME NEW how, Holds(how)
      PROVE  /\ Len(stoppers) \in Stops /\ stoppers[Len(stoppers)].how = how
             /\ DOMAIN stoppers = 1 .. Len(stoppers)
  BY <1>1, <1>3, TopStopper DEF Holds, Stops
<1>4. CASE AwaitSuspend \/ \E how \in StopMethods : SuspendThread(how)
  BY <1>4, AskAtSysCall
<1>5. CASE ResumeThread
  <2>1. /\ pc["ui"] = "idle" /\ UNCHANGED <<pc, calls, endOfCycle, atSysCall>>
        /\ stoppers # <<>> /\ stoppers' = Front(stoppers)
    BY <1>5 DEF ResumeThread, flags, guest
  <2>2. calls["ui"] = <<>>
    BY <1>2, <2>1
  <2>3. fSuspend'.sys \in {0, fSuspend.sys}
    <3>1. Resumed.sys \in {0, fSuspend.sys}
      BY <1>1 DEF Resumed, Counters
    <3>2. fSuspend' = Resumed \/ fSuspend' = fSuspend
      BY <1>5 DEF ResumeThread, LetGo
    <3>3. QED
      BY <3>1, <3>2
  <2>4. SysStops' \subseteq SysStops
    BY <1>1, <2>1, TopStopper
  <2>5. QED
    BY <2>1, <2>2, <2>3, <2>4, UIQuiet
<1>6. CASE CallROM
  <2>1. Holds("kStopOnSysCall") /\ BeginCall("ui", "rom") /\ "rom" \in CallKinds
    BY <1>6 DEF CallROM, CallKinds
  <2>2. QED
    BY <1>3, <2>1, UIBeginsAtSysCall
<1>7. CASE CatchInSLP
  BY <1>7 DEF CatchInSLP, Discipline, StopDiscipline, NoException, Threads
<1>8. CASE DoReset
  <2>1. /\ Holds("kStopNow") /\ Len(stoppers) = 1 /\ pc["ui"] = "idle"
        /\ UNCHANGED <<fSuspend, calls, stoppers, endOfCycle, atSysCall>>
        /\ pc'["cpu"] = pc["cpu"] /\ pc'["ui"] = "reset"
    BY <1>1, <1>8 DEF DoReset, Calm, Free, Goto, stack, flags, guest, Threads
  <2>2. stoppers[1].how = "kStopNow" /\ DOMAIN stoppers = {1}
    BY <1>3, <2>1
  <2>3. SysStops = {} /\ SysStops' = {}
    BY <2>1, <2>2 DEF SysStops, Stops
  <2>4. calls["ui"] = <<>>
    BY <1>2, <2>1
  <2>5. QED
    BY <2>1, <2>3, <2>4, UIQuiet
<1>9. CASE ExitDebugger
  <2>1. /\ Holds("kStopNow") /\ pc["ui"] = "idle"
        /\ UNCHANGED <<fSuspend, calls, stoppers, endOfCycle, atSysCall>>
        /\ snapshot'.sys = fSuspend.sys
        /\ pc'["cpu"] = pc["cpu"] /\ pc'["ui"] = "exitDebugger"
    BY <1>1, <1>9 DEF ExitDebugger, Free, Goto, Counters, stack, flags, Threads
  <2>2. Stops # {} /\ calls["ui"] = <<>> /\ SysStops' = SysStops
    BY <1>2, <1>3, <2>1 DEF SysStops, Stops
  <2>3. QED
    BY <2>1, <2>2, UIQuiet
<1>10. CASE SetSuspendState
  <2>1. /\ pc["ui"] = "exitDebugger" /\ fSuspend' = snapshot /\ pc'["ui"] = "idle"
        /\ UNCHANGED <<calls, stoppers, atSysCall>>
    BY <1>1, <1>10 DEF SetSuspendState, Goto, stack, Threads
  <2>2. calls["ui"] = <<>> /\ Stops # {}
    BY <2>1 DEF Discipline, StopDiscipline, StopsInForce
  <2>3. calls["cpu"] = <<>> /\ Depth("cpu")' = 0
    BY <2>1, <2>2, StopHolds, EmptySeq DEF Depth
  <2>4. SysStops' = SysStops /\ SysKept' = snapshot.sys
    BY <2>1, <2>2 DEF SysStops, Stops, SysKept
  <2>5. CPUAtSysCall' /\ HeldAtSysCall'
    BY <2>1, <2>3, <2>4 DEF AtSysCall, SnapAtSysCall, CPUAtSysCall, HeldAtSysCall
  <2>6. QED
    BY <2>1, <2>4, <2>5 DEF AtSysCall, SnapAtSysCall, StopsAtSysCall
<1>11. CASE \/ OpenDialog \/ AnswerDialog \/ UnblockDialog \/ DropDialogs
            \/ CloseDocument \/ DestroyThread \/ AwaitStopped
  <2>1. /\ pc["ui"] \in {"idle", "dialog", "answered", "closing", "destroying"}
        /\ pc'["ui"] \notin {"reset", "exitDebugger"} /\ pc'["cpu"] = pc["cpu"]
        /\ UNCHANGED <<calls, stoppers, endOfCycle, atSysCall>>
    BY <1>1, <1>11
    DEF OpenDialog, AnswerDialog, UnblockDialog, DropDialogs, CloseDocument, DestroyThread,
        AwaitStopped, Free, Goto, flow, stack, flags, guest, Threads
  <2>2. fSuspend'.sys = fSuspend.sys
    BY <1>1, <1>11
    DEF OpenDialog, AnswerDialog, UnblockDialog, DropDialogs, CloseDocument, DestroyThread,
        AwaitStopped, Counters
  <2>3. calls["ui"] = <<>> /\ SysStops' = SysStops
    BY <1>2, <2>1 DEF SysStops, Stops
  <2>4. QED
    BY <2>1, <2>2, <2>3, UIQuiet
<1>12. QED
  BY <1>4, <1>5, <1>6, <1>7, <1>8, <1>9, <1>10, <1>11 DEF UIThread, StopMethods

LEMMA SysCallStep ==
  ASSUME Discipline, Calm, AtSysCall, [Next]_vars
  PROVE  AtSysCall'
<1>1. CASE UNCHANGED vars
  <2>1. UNCHANGED <<pc, fSuspend, calls, stoppers, endOfCycle, atSysCall, snapshot>>
    BY <1>1 DEF vars, flow, stack, flags, guest
  <2>2. SysStops' = SysStops /\ SysKept' = SysKept /\ Depth("cpu")' = Depth("cpu")
    BY <2>1 DEF SysStops, Stops, SysKept, Depth
  <2>3. QED
    BY <2>1, <2>2
    DEF AtSysCall, CPUAtSysCall, HeldAtSysCall, SnapAtSysCall, StopsAtSysCall
<1>2. QED
  BY <1>1, CPUThreadAtSysCall, LoopAtSysCall, UIAtSysCall DEF Next

(* A stop on a system call leaves the guest at one, for as long as it is in*)
(* force, whatever calls the UI thread makes into the ROM meanwhile.       *)
THEOREM SysCallStopsAreFit ==
  ASSUME Calm PROVE Spec => []StoppedAtSysCall
<1>1. Init => AtSysCall
  <2>1. ASSUME Init PROVE AtSysCall
    <3>1. /\ fSuspend.sys = 0 /\ calls["cpu"] = <<>> /\ calls["ui"] = <<>>
          /\ stoppers = <<>> /\ pc["ui"] = "idle"
      BY <2>1 DEF Init, NoCounters, Threads
    <3>2. Depth("cpu") = 0 /\ SysKept = 0 /\ SysStops = {}
      BY <3>1, EmptySeq DEF Depth, SysKept, SysStops, Stops
    <3>3. QED
      BY <3>1, <3>2 DEF AtSysCall, CPUAtSysCall, HeldAtSysCall, SnapAtSysCall, StopsAtSysCall
  <2>2. QED
    BY <2>1
<1>2. TypeInv /\ StopDiscipline /\ AtSysCall /\ [Next]_vars => AtSysCall'
  BY SysCallStep DEF Discipline
<1>3. AtSysCall => StoppedAtSysCall
  BY DEF AtSysCall, StopsAtSysCall, SysStops, StoppedAtSysCall
<1>4. QED
  BY <1>1, <1>2, <1>3, TypeInvariant, StopsAreDisciplined, PTL DEF Spec
----------------------------------------------------------------------------
(* The requests of the UI thread.                                          *)

Pending == fSuspend.ui + SetAside("cpu") + SetAside("ui")

\* SetSuspendState puts back what GetSuspendState read.
SnapshotKept == pc["ui"] = "exitDebugger" => snapshot.ui = fSuspend.ui

Balance == Pending = Requests /\ SnapshotKept

LEMMA OldUITyped ==
  ASSUME NEW s \in Seq(Frames)
  PROVE  /\ OldUI(s) \in Seq(Int) /\ Len(OldUI(s)) = Len(s)
         /\ \A i \in 1 .. Len(s) : OldUI(s)[i] = s[i].old.ui
<1>1. Len(s) \in Nat /\ DOMAIN s = 1 .. Len(s) /\ \A i \in 1 .. Len(s) : s[i] \in Frames
  BY ElementOfSeq, LenProperties
<1>2. \A f \in Frames : f.old.ui \in Int
  BY DEF Frames, Counters
<1>3. OldUI(s) \in [1 .. Len(s) -> Int]
  BY <1>1, <1>2 DEF OldUI
<1>4. QED
  BY <1>1, <1>3 DEF OldUI

LEMMA OldUIPushed ==
  ASSUME NEW s \in Seq(Frames), NEW f \in Frames
  PROVE  /\ Total(OldUI(s)) \in Int
         /\ Total(OldUI(Append(s, f))) = Total(OldUI(s)) + f.old.ui
<1> DEFINE r == Append(s, f)
           x == f.old.ui
<1>1. /\ r \in Seq(Frames) /\ Len(s) \in Nat /\ Len(r) = Len(s) + 1
      /\ r[Len(s) + 1] = f /\ \A i \in 1 .. Len(s) : r[i] = s[i]
  BY AppendProperties
<1> HIDE DEF r
<1>2. x \in Int
  BY DEF Frames, Counters
<1>3. /\ OldUI(s) \in Seq(Int) /\ Len(OldUI(s)) = Len(s)
      /\ \A i \in 1 .. Len(s) : OldUI(s)[i] = s[i].old.ui
      /\ OldUI(r) \in Seq(Int) /\ Len(OldUI(r)) = Len(r)
      /\ \A i \in 1 .. Len(r) : OldUI(r)[i] = r[i].old.ui
  BY <1>1, OldUITyped
<1>4. OldUI(r)[Len(s) + 1] = x
  BY <1>1, <1>3
<1> HIDE DEF x
<1>5. OldUI(r) = Append(OldUI(s), x)
  <2> DEFINE q == Append(OldUI(s), x)
  <2>1. /\ q \in Seq(Int) /\ Len(q) = Len(s) + 1 /\ q[Len(s) + 1] = x
        /\ \A i \in 1 .. Len(s) : q[i] = OldUI(s)[i]
    BY <1>2, <1>3, AppendProperties
  <2> HIDE DEF q
  <2>2. ASSUME NEW i \in 1 .. Len(r) PROVE OldUI(r)[i] = q[i]
    <3>1. CASE i = Len(s) + 1
      BY <1>4, <2>1, <3>1
    <3>2. CASE i # Len(s) + 1
      <4>1. i \in 1 .. Len(s)
        BY <1>1, <3>2
      <4>2. QED
        BY <1>1, <1>3, <2>1, <4>1
    <3>3. QED
      BY <3>1, <3>2
  <2>3. OldUI(r) = q
    BY <1>1, <1>3, <2>1, <2>2, SeqEqual
  <2>4. QED
    BY <2>3 DEF q
<1>6. QED
  BY <1>2, <1>3, <1>5, TotalAppend DEF r, x

LEMMA OldUIPopped ==
  ASSUME NEW s \in Seq(Frames), s # <<>>
  PROVE  Front(s) \in Seq(Frames) /\ Total(OldUI(s)) = Total(OldUI(Front(s))) + Last(s).old.ui
<1> DEFINE a == Front(s)
           x == Last(s)
           r == Append(a, x)
<1>1. /\ a \in Seq(Frames) /\ Len(a) = Len(s) - 1 /\ Len(s) \in Nat \ {0}
      /\ \A i \in 1 .. Len(s) - 1 : a[i] = s[i]
      /\ x \in Frames /\ x = s[Len(s)]
  BY FrontLast
<1> HIDE DEF a, x
<1>2. /\ r \in Seq(Frames) /\ Len(r) = Len(s) /\ r[Len(s)] = x
      /\ \A i \in 1 .. Len(s) - 1 : r[i] = s[i]
  BY <1>1, AppendProperties
<1> HIDE DEF r
<1>3. \A i \in 1 .. Len(s) : r[i] = s[i]
  BY <1>1, <1>2
<1>4. r = s
  BY <1>2, <1>3, SeqEqual
<1>5. QED
  BY <1>1, <1>4, OldUIPushed DEF r, a, x

(* What changes on one stack is what the counter of the session gets.      *)
LEMMA SameBalance ==
  ASSUME TypeOK, NEW t \in Threads, calls' \in [Threads -> Seq(Frames)],
         \A u \in Threads : u # t => calls'[u] = calls[u],
         fSuspend'.ui \in Int,
         fSuspend'.ui + SetAside(t)' = fSuspend.ui + SetAside(t)
  PROVE  Pending' = Pending
<1>1. \A u \in Threads : calls[u] \in Seq(Frames) /\ calls'[u] \in Seq(Frames)
  BY DEF TypeOK
<1>2. \E f : f \in Frames
  <2>1. [kind |-> "run", old |-> NoCounters, nest |-> 0, saved |-> "kRunning"] \in Frames
    BY DEF Frames, CallKinds, NoCounters, Counters, States
  <2>2. QED
    BY <2>1
<1>3. \A u \in Threads : SetAside(u) \in Int /\ SetAside(u)' \in Int
  BY <1>1, <1>2, OldUIPushed DEF SetAside
<1>4. \A u \in Threads : u # t => SetAside(u)' = SetAside(u)
  BY DEF SetAside
<1>5. fSuspend.ui \in Int
  BY DEF TypeOK, Counters
<1>6. fSuspend'.ui + SetAside("cpu")' + SetAside("ui")' = fSuspend.ui + SetAside("cpu") + SetAside("ui")
  <2> DEFINE n == fSuspend.ui
             m == fSuspend'.ui
             a == SetAside("cpu")
             b == SetAside("ui")
             x == SetAside("cpu")'
             y == SetAside("ui")'
  <2>1. n \in Int /\ m \in Int /\ a \in Int /\ b \in Int /\ x \in Int /\ y \in Int
    BY <1>3, <1>5 DEF Threads
  <2>2. (m + x = n + a /\ y = b) \/ (m + y = n + b /\ x = a)
    BY <1>4 DEF Threads
  <2> HIDE DEF n, m, a, b, x, y
  <2>3. m + x + y = n + a + b
    BY <2>1, <2>2
  <2>4. QED
    BY <2>3 DEF n, m, a, b, x, y
<1>7. QED
  BY <1>6 DEF Pending

(* A call is begun: the requests so far are set aside.                     *)
LEMMA BeginBalance ==
  ASSUME TypeOK, NEW t \in Threads, NEW kind \in CallKinds, BeginCall(t, kind)
  PROVE  Pending' = Pending
<1> DEFINE f == [kind |-> kind, old |-> fSuspend, nest |-> fNestLevel, saved |-> fState]
<1>1. f \in Frames /\ f.old.ui = fSuspend.ui /\ calls[t] \in Seq(Frames) /\ fSuspend.ui \in Int
  BY DEF TypeOK, Frames, Counters
<1>2. fSuspend'.ui = 0 /\ calls' = [calls EXCEPT ![t] = Append(calls[t], f)]
  BY DEF BeginCall, NoCounters
<1> HIDE DEF f
<1>3. Append(calls[t], f) \in Seq(Frames)
  BY <1>1, AppendProperties
<1>4. /\ calls' \in [Threads -> Seq(Frames)] /\ calls'[t] = Append(calls[t], f)
      /\ \A u \in Threads : u # t => calls'[u] = calls[u]
  BY <1>2, <1>3 DEF TypeOK
<1>5. SetAside(t) \in Int /\ SetAside(t)' = SetAside(t) + fSuspend.ui
  BY <1>1, <1>4, OldUIPushed DEF SetAside
<1>6. QED
  BY <1>1, <1>2, <1>4, <1>5, SameBalance

(* The frame on top is replaced, or its counters are added up.             *)
LEMMA TopBalance ==
  ASSUME TypeOK, NEW t \in Threads, calls[t] # <<>>, NEW f \in Frames,
         calls' = [calls EXCEPT ![t] = Append(Front(@), f)],
         fSuspend'.ui \in Int,
         fSuspend'.ui + f.old.ui = fSuspend.ui + Top(t).old.ui
  PROVE  Pending' = Pending
<1> DEFINE a == Front(calls[t])
           r == Append(a, f)
<1>1. calls[t] \in Seq(Frames) /\ Top(t) = Last(calls[t])
  BY DEF TypeOK, Top
<1>2. a \in Seq(Frames) /\ Top(t) \in Frames /\ SetAside(t) = Total(OldUI(a)) + Top(t).old.ui
  BY <1>1, OldUIPopped, FrontLast DEF SetAside
<1>3. calls' = [calls EXCEPT ![t] = r]
  OBVIOUS
<1> HIDE DEF a
<1>4. Total(OldUI(a)) \in Int /\ Total(OldUI(r)) = Total(OldUI(a)) + f.old.ui /\ r \in Seq(Frames)
  BY <1>2, OldUIPushed, AppendProperties
<1> HIDE DEF r
<1>5. /\ calls' \in [Threads -> Seq(Frames)] /\ calls'[t] = r
      /\ \A u \in Threads : u # t => calls'[u] = calls[u]
  BY <1>3, <1>4 DEF TypeOK
<1>6. SetAside(t)' = Total(OldUI(a)) + f.old.ui
  BY <1>4, <1>5 DEF SetAside
<1>7. f.old.ui \in Int /\ Top(t).old.ui \in Int /\ fSuspend.ui \in Int
  BY <1>2 DEF Frames, Counters, TypeOK
<1>8. fSuspend'.ui + SetAside(t)' = fSuspend.ui + SetAside(t)
  <2> DEFINE m == fSuspend'.ui
             n == fSuspend.ui
             new == f.old.ui
             old == Top(t).old.ui
             rest == Total(OldUI(a))
  <2>1. /\ m \in Int /\ n \in Int /\ new \in Int /\ old \in Int /\ rest \in Int
        /\ m + new = n + old
    BY <1>4, <1>7
  <2> HIDE DEF m, n, new, old, rest
  <2>2. m + (rest + new) = n + (rest + old)
    BY <2>1
  <2>3. QED
    BY <1>2, <1>6, <2>2 DEF m, n, new, old, rest
<1>9. QED
  BY <1>5, <1>8, SameBalance

LEMMA ReturnBalance ==
  ASSUME TypeOK, NEW t \in Threads, calls[t] # <<>>,
         calls' = [calls EXCEPT ![t] = Front(@)],
         fSuspend'.ui = fSuspend.ui + Top(t).old.ui
  PROVE  Pending' = Pending
<1> DEFINE a == Front(calls[t])
<1>1. calls[t] \in Seq(Frames) /\ Top(t) = Last(calls[t])
  BY DEF TypeOK, Top
<1>2. a \in Seq(Frames) /\ Top(t) \in Frames /\ SetAside(t) = Total(OldUI(a)) + Top(t).old.ui
  BY <1>1, OldUIPopped, FrontLast DEF SetAside
<1>3. calls' = [calls EXCEPT ![t] = a]
  OBVIOUS
<1> HIDE DEF a
<1>4. /\ calls' \in [Threads -> Seq(Frames)] /\ calls'[t] = a
      /\ \A u \in Threads : u # t => calls'[u] = calls[u]
  BY <1>2, <1>3 DEF TypeOK
<1>5. SetAside(t)' = Total(OldUI(a)) /\ Total(OldUI(a)) \in Int
  BY <1>2, <1>4, OldUIPushed DEF SetAside
<1>6. Top(t).old.ui \in Int /\ fSuspend.ui \in Int
  BY <1>2 DEF Frames, Counters, TypeOK
<1>7. fSuspend'.ui + SetAside(t)' = fSuspend.ui + SetAside(t) /\ fSuspend'.ui \in Int
  BY <1>2, <1>5, <1>6
<1>8. QED
  BY <1>4, <1>7, SameBalance

LEMMA QuietBalance ==
  ASSUME UNCHANGED calls, fSuspend'.ui = fSuspend.ui
  PROVE  Pending' = Pending
BY DEF Pending, SetAside

LEMMA LoopBalance ==
  ASSUME Discipline, Calm, NEW t \in Threads, Loop(t) \/ Guest(t)
  PROVE  Pending' = Pending
<1>1. TypeOK /\ fSuspend \in Counters
  BY DEF Discipline, TypeInv, TypeOK
<1>2. ASSUME pc[t] \in {"call", "exec", "leave", "return", "patch"}
      PROVE  calls[t] # <<>> /\ Top(t) \in Frames /\ Top(t).old \in Counters
  <2>1. calls[t] # <<>>
    BY <1>2 DEF Discipline, TypeInv, StackShape, StackLabels, Threads
  <2>2. QED
    BY <1>1, <2>1, TopTyped DEF Frames
<1>3. CASE CallCPU(t)
  <2> DEFINE f == [Top(t) EXCEPT !.saved = fState]
  <2>1. /\ calls[t] # <<>> /\ Top(t) \in Frames
        /\ calls' = [calls EXCEPT ![t] = Append(Front(@), f)] /\ fSuspend' = fSuspend
    BY <1>2, <1>3 DEF CallCPU
  <2>2. f \in Frames /\ f.old = Top(t).old
    BY <1>1, <2>1 DEF Frames, TypeOK
  <2> HIDE DEF f
  <2>3. QED
    BY <1>1, <2>1, <2>2, TopBalance DEF Counters
<1>4. CASE LeaveCPU(t)
  <2>1. calls[t] # <<>> /\ fSuspend' = fSuspend
    BY <1>2, <1>4 DEF LeaveCPU
  <2>2. CASE Top(t).kind # "run"
    BY <1>4, <2>1, <2>2, QuietBalance DEF LeaveCPU
  <2>3. CASE Top(t).kind = "run"
    <3> calls[t] \in Seq(Frames)
      BY <1>1 DEF TypeOK
    <3>1. /\ Depth(t) \in Nat \ {0} /\ DOMAIN calls[t] = 1 .. Depth(t)
          /\ Top(t) = calls[t][Depth(t)]
      <4>1. Len(calls[t]) \in Nat \ {0} /\ Last(calls[t]) = calls[t][Len(calls[t])]
        BY <2>1, FrontLast
      <4>2. DOMAIN calls[t] = 1 .. Len(calls[t])
        OBVIOUS
      <4>3. QED
        BY <4>1, <4>2 DEF Top, Depth
    <3>2. t = "cpu" /\ Depth(t) = 1
      BY <2>3, <3>1 DEF Discipline, TypeInv, StackShape, StackKinds, Threads
    <3>3. Top(t).old.ui = 0
      BY <3>1, <3>2 DEF Discipline, StopDiscipline, FramesRestore, CPUFrames
    <3>4. Front(calls[t]) = <<>>
      BY <3>1, <3>2, FrontLast, EmptySeq DEF Depth
    <3>5. calls' = [calls EXCEPT ![t] = Front(@)]
      BY <1>4, <2>3, <3>4 DEF LeaveCPU
    <3>6. fSuspend'.ui = fSuspend.ui + Top(t).old.ui
      BY <1>1, <2>1, <3>3 DEF Counters
    <3>7. QED
      BY <1>1, <2>1, <3>5, <3>6, ReturnBalance
  <2>4. QED
    BY <2>2, <2>3
<1>5. CASE ReenterCall(t)
  <2> DEFINE f == [Top(t) EXCEPT !.old = Folded(Top(t))]
  <2>1. /\ calls[t] # <<>> /\ Top(t) \in Frames /\ Top(t).old \in Counters
        /\ calls' = [calls EXCEPT ![t] = Append(Front(@), f)] /\ fSuspend'.ui = 0
    BY <1>2, <1>5 DEF ReenterCall, NoCounters
  <2>2. Folded(Top(t)) \in Counters /\ Folded(Top(t)).ui = Top(t).old.ui + fSuspend.ui
    BY <1>1, <2>1, FoldedTyped
  <2>3. f \in Frames /\ f.old = Folded(Top(t))
    BY <2>1, <2>2 DEF Frames
  <2> HIDE DEF f
  <2>4. fSuspend'.ui \in Int /\ fSuspend'.ui + f.old.ui = fSuspend.ui + Top(t).old.ui
    <3>1. fSuspend.ui \in Int /\ Top(t).old.ui \in Int
      BY <1>1, <2>1 DEF Counters
    <3>2. f.old.ui = Top(t).old.ui + fSuspend.ui
      BY <2>2, <2>3
    <3>3. QED
      BY <2>1, <3>1, <3>2
  <2>5. QED
    BY <1>1, <2>1, <2>2, <2>3, <2>4, TopBalance
<1>6. CASE ReturnFromCall(t)
  <2> DEFINE kept == Folded(Top(t))
  <2>1. /\ calls[t] # <<>> /\ Top(t).old \in Counters
        /\ calls' = [calls EXCEPT ![t] = Front(@)]
        /\ fSuspend' = [kept EXCEPT !.ext = IF @ < 0 THEN 0 ELSE @]
    BY <1>2, <1>6 DEF ReturnFromCall, Schedule
  <2>2. kept \in Counters /\ kept.ui = Top(t).old.ui + fSuspend.ui
    BY <1>1, <2>1, FoldedTyped
  <2> HIDE DEF kept
  <2>3. fSuspend'.ui = fSuspend.ui + Top(t).old.ui
    BY <1>1, <2>1, <2>2 DEF Counters
  <2>4. QED
    BY <1>1, <2>1, <2>3, ReturnBalance
<1>7. CASE Unwind(t) \/ NestedError(t)
  BY <1>7 DEF Unwind, NestedError, Discipline, StopDiscipline, NoException, Calm
<1>8. CASE PatchCall(t)
  BY <1>1, <1>8, BeginBalance DEF PatchCall, CallKinds
<1>9. CASE Reset(t)
  <2>1. UNCHANGED calls /\ fSuspend' = CountersAfterReset
    BY <1>9 DEF Reset, stack
  <2>2. CountersAfterReset.ui = fSuspend.ui
    BY DEF CountersAfterReset, NoCounters
  <2>3. QED
    BY <2>1, <2>2, QuietBalance
<1>10. CASE \/ CycleSlowly(t) \/ ExecuteSpecialNested(t) \/ ExecuteSpecial(t)
            \/ ExecuteReset(t) \/ PatchDone(t) \/ ScheduleReset(t)
  BY <1>10, QuietBalance
  DEF CycleSlowly, ExecuteSpecialNested, ExecuteSpecial, ExecuteReset, PatchDone, ScheduleReset, stack
<1>11. CASE SubroutineReturn(t) \/ SignalSend(t) \/ SignalResume(t) \/ Breakpoint(t)
  <2>1. UNCHANGED calls
    BY <1>11 DEF SubroutineReturn, SignalSend, SignalResume, Breakpoint, stack
  <2>2. fSuspend'.ui = fSuspend.ui
    BY <1>1, <1>11 DEF SubroutineReturn, SignalSend, SignalResume, Breakpoint, Schedule, Counters
  <2>3. QED
    BY <2>1, <2>2, QuietBalance
<1>12. QED
  BY <1>3, <1>4, <1>5, <1>6, <1>7, <1>8, <1>9, <1>10, <1>11 DEF Loop, Guest

LEMMA CPUBalance ==
  ASSUME Discipline, Calm, CPUThread
  PROVE  Pending' = Pending
<1>1. TypeOK /\ fSuspend \in Counters /\ "cpu" \in Threads
  BY DEF Discipline, TypeInv, TypeOK, Threads
<1>2. CASE RunCall
  <2> DEFINE f == [kind |-> "run", old |-> NoCounters, nest |-> 0, saved |-> fState]
  <2>1. /\ calls' = [calls EXCEPT !["cpu"] = <<f>>] /\ fSuspend' = fSuspend
        /\ pc["cpu"] \in {"run", "inner"}
    BY <1>2 DEF RunCall, InRun
  <2>2. calls["cpu"] = <<>>
    BY <2>1 DEF Discipline, StopDiscipline, CPUAtWork
  <2>3. f \in Frames /\ f.old.ui = 0
    BY <1>1 DEF Frames, CallKinds, NoCounters, Counters, TypeOK
  <2> HIDE DEF f
  <2>4. <<>> \in Seq(Frames) /\ Append(<<>>, f) \in Seq(Frames) /\ Append(<<>>, f) = <<f>>
    BY <2>3
  <2>5. /\ calls' \in [Threads -> Seq(Frames)] /\ calls'["cpu"] = Append(calls["cpu"], f)
        /\ \A u \in Threads : u # "cpu" => calls'[u] = calls[u]
    BY <1>1, <2>1, <2>2, <2>4 DEF TypeOK, Threads
  <2>6. SetAside("cpu")' = SetAside("cpu") + f.old.ui /\ SetAside("cpu") \in Int
    BY <2>2, <2>3, <2>4, <2>5, OldUIPushed DEF SetAside
  <2>7. fSuspend'.ui \in Int /\ fSuspend'.ui + SetAside("cpu")' = fSuspend.ui + SetAside("cpu")
    BY <1>1, <2>1, <2>3, <2>6 DEF Counters
  <2>8. QED
    BY <1>1, <2>5, <2>7, SameBalance
<1>3. CASE BreakOnSysCall \/ WakeUITask
  BY <1>1, <1>3, BeginBalance DEF BreakOnSysCall, WakeUITask, CallKinds
<1>4. CASE SuspendSysCall
  <2>1. UNCHANGED calls /\ fSuspend'.ui = fSuspend.ui
    BY <1>1, <1>4 DEF SuspendSysCall, Schedule, Counters, stack
  <2>2. QED
    BY <2>1, QuietBalance
<1>5. CASE RunSuspend \/ RunStop \/ IgnoreSysCall \/ NeedDialog \/ DeferredError
  BY <1>5, QuietBalance DEF RunSuspend, RunStop, IgnoreSysCall, NeedDialog, DeferredError, stack
<1>6. CASE Catch \/ BlockOnDialog \/ Crash \/ StillBlocked \/ Unblock \/ DebugButton
  BY <1>6 DEF Catch, BlockOnDialog, Crash, StillBlocked, Unblock, DebugButton,
              Discipline, StopDiscipline, NoException, Threads
<1>7. QED
  BY <1>2, <1>3, <1>4, <1>5, <1>6 DEF CPUThread

LEMMA SetAsideTyped ==
  ASSUME TypeOK
  PROVE  fSuspend.ui \in Int /\ SetAside("cpu") \in Int /\ SetAside("ui") \in Int
<1>1. \A t \in Threads : calls[t] \in Seq(Frames)
  BY DEF TypeOK
<1>2. [kind |-> "run", old |-> NoCounters, nest |-> 0, saved |-> "kRunning"] \in Frames
  BY DEF Frames, CallKinds, NoCounters, Counters, States
<1>3. \A t \in Threads : SetAside(t) \in Int
  BY <1>1, <1>2, OldUIPushed DEF SetAside
<1>4. QED
  BY <1>3 DEF TypeOK, Counters, Threads

LEMMA SameRequests ==
  ASSUME UNCHANGED <<stoppers, fStop>>, pc'["ui"] = "suspending" <=> pc["ui"] = "suspending"
  PROVE  Requests' = Requests
BY DEF Requests, Stops, Stopper

(* The guest, whoever runs it, neither asks nor lifts.                     *)
LEMMA GuestBalance ==
  ASSUME Discipline, Calm, Balance, NEW t \in Threads, Loop(t) \/ Guest(t)
  PROVE  Balance'
<1>1. TypeInv /\ pc \in [Threads -> CPULabels \cup UILabels]
  BY DEF Discipline, TypeInv, TypeOK
<1>2. /\ UNCHANGED <<fStop, stoppers, snapshot>> /\ pc[t] \in Busy
      /\ \E label : pc' = [pc EXCEPT ![t] = label] /\ (t = "ui" => label \in Busy)
  BY <1>1, LoopMoves
<1>3. \/ t = "cpu" /\ pc'["ui"] = pc["ui"]
      \/ t = "ui" /\ pc["ui"] \in Busy /\ pc'["ui"] \in Busy
  BY <1>1, <1>2 DEF Threads
<1>4. Pending' = Pending /\ Requests' = Requests
  BY <1>2, <1>3, LoopBalance, SameRequests DEF Busy
<1>5. pc'["ui"] # "exitDebugger"
  <2>1. SUFFICES ASSUME pc["ui"] = "exitDebugger", t = "cpu" PROVE FALSE
    BY <1>3 DEF Busy
  <2>2. pc["cpu"] = "inner"
    BY <2>1, StopHolds DEF Discipline, StopDiscipline, StopsInForce
  <2>3. QED
    BY <1>2, <2>1, <2>2 DEF Busy
<1>6. QED
  BY <1>4, <1>5 DEF Balance, SnapshotKept

LEMMA CPUThreadBalance ==
  ASSUME Discipline, Calm, Balance, CPUThread
  PROVE  Balance'
<1>1. TypeInv /\ pc \in [Threads -> CPULabels \cup UILabels]
  BY DEF Discipline, TypeInv, TypeOK
<1>2. UNCHANGED stoppers
  BY <1>1, CPUKeepsStoppers DEF TypeInv
<1>3. UNCHANGED <<fStop, snapshot>> /\ pc'["ui"] = pc["ui"] /\ (pc["cpu"] = "inner" => fSuspend' = fSuspend)
  <2>1. CASE RunSuspend \/ RunCall \/ RunStop \/ Catch
    BY <1>1, <2>1 DEF RunSuspend, RunCall, RunStop, Catch, Goto, Threads, state, guest
  <2>2. CASE BreakOnSysCall \/ SuspendSysCall \/ IgnoreSysCall \/ WakeUITask
    BY <1>1, <2>2 DEF BreakOnSysCall, SuspendSysCall, IgnoreSysCall, WakeUITask, BeginCall, CanStep, Executing, Goto, Threads, state, guest
  <2>3. CASE NeedDialog \/ DeferredError
    BY <1>1, <2>3 DEF NeedDialog, DeferredError, Goto, Threads, state, guest
  <2>4. CASE BlockOnDialog \/ Crash \/ StillBlocked \/ Unblock \/ DebugButton
    BY <2>4 DEF BlockOnDialog, Crash, StillBlocked, Unblock, DebugButton,
              Discipline, StopDiscipline, NoException, Threads
  <2>5. QED
    BY <2>1, <2>2, <2>3, <2>4 DEF CPUThread
<1>4. Pending' = Pending /\ Requests' = Requests
  BY <1>2, <1>3, CPUBalance, SameRequests
<1>5. SnapshotKept'
  <2>1. SUFFICES ASSUME pc["ui"] = "exitDebugger" PROVE fSuspend' = fSuspend
    BY <1>3 DEF Balance, SnapshotKept
  <2>2. pc["cpu"] = "inner"
    BY <2>1, StopHolds DEF Discipline, StopDiscipline, StopsInForce
  <2>3. QED
    BY <1>3, <2>2
<1>6. QED
  BY <1>4, <1>5 DEF Balance

(* One turn of SuspendThread's loop; others are the older stoppers.        *)
LEMMA SuspendLoopBalance ==
  ASSUME Discipline, NEW how \in StopMethods, NEW counters \in Counters, NEW others \in Seq(Stoppers),
         pc["ui"] \in {"idle", "suspending"},
         SuspendLoop(how, counters, others),
         {i \in DOMAIN others : others[i].got} = Stops,
         counters.ui + SetAside("cpu") + SetAside("ui") =
           Cardinality(Stops) + (IF how = "kStopNow" THEN 1 ELSE 0)
  PROVE  Balance'
<1>1. TypeOK
  BY DEF Discipline, TypeInv
<1>2. ~fStop /\ UNCHANGED <<calls, fStop>> /\ SetAside("cpu")' = SetAside("cpu") /\ SetAside("ui")' = SetAside("ui")
  BY DEF Discipline, StopDiscipline, Closing, SuspendLoop, state, stack, SetAside
<1> DEFINE set == SetAside("cpu")
           aside == SetAside("ui")
           stops == Cardinality(Stops)
           asked == counters.ui
<1>3. set \in Int /\ aside \in Int /\ stops \in Nat /\ asked \in Int
  BY <1>1, SetAsideTyped, StopsFinite DEF Counters
<1>4. asked + set + aside = stops + (IF how = "kStopNow" THEN 1 ELSE 0)
  OBVIOUS
<1> HIDE DEF set, aside, stops, asked
<1>5. CASE fState = "kRunning"
  <2> DEFINE s == [how |-> how, got |-> FALSE, on |-> "none"]
  <2>1. fSuspend' = counters /\ stoppers' = Append(others, s) /\ pc'["ui"] = "suspending"
    BY <1>1, <1>5 DEF SuspendLoop, WaitToSuspend, Goto, TypeOK, Threads
  <2>2. s \in Stoppers /\ ~s.got /\ s.how = how
    BY DEF Stoppers
  <2> HIDE DEF s
  <2>3. Cardinality(Stops)' = stops /\ Stopper' = s
    BY <1>1, <1>3, <2>1, <2>2, StopsAdded DEF stops
  <2>4. Requests' = stops + (IF how = "kStopNow" THEN 1 ELSE 0) /\ Pending' = asked + set + aside
    BY <1>2, <1>3, <2>1, <2>2, <2>3 DEF Requests, Pending, set, aside, asked
  <2>5. QED
    BY <1>4, <2>1, <2>4 DEF Balance, SnapshotKept
<1>6. CASE fState # "kRunning"
  <2> DEFINE got == Granted(how, counters)
             s == [how |-> how, got |-> got, on |-> fState]
  <2>1. /\ fSuspend' = IF got /\ how = "kStopOnSysCall"
                          THEN [counters EXCEPT !.ui = @ + 1] ELSE counters
        /\ stoppers' = Append(others, s) /\ pc'["ui"] = "idle"
    BY <1>1, <1>6 DEF SuspendLoop, FinishSuspend, Goto, TypeOK, Threads
  <2>2. s \in Stoppers /\ s.got = got /\ got \in BOOLEAN /\ (how = "kStopNow" => got)
    BY <1>1 DEF Stoppers, Granted, TypeOK
  <2> HIDE DEF got, s
  <2>3. Cardinality(Stops)' = stops + (IF got THEN 1 ELSE 0)
    BY <1>1, <2>1, <2>2, StopsAdded DEF stops
  <2>4. fSuspend'.ui = asked + (IF got /\ how = "kStopOnSysCall" THEN 1 ELSE 0)
    BY <1>3, <2>1 DEF Counters, asked
  <2>5. Requests' = stops + (IF got THEN 1 ELSE 0)
    BY <1>2, <1>3, <2>1, <2>3 DEF Requests
  <2>6. Pending' = asked + (IF got /\ how = "kStopOnSysCall" THEN 1 ELSE 0) + set + aside
    BY <1>2, <2>4 DEF Pending, set, aside
  <2>7. Pending' = Requests'
    BY <1>3, <1>4, <2>2, <2>5, <2>6 DEF StopMethods
  <2>8. QED
    BY <2>1, <2>7 DEF Balance, SnapshotKept
<1>7. QED
  BY <1>5, <1>6

LEMMA SuspendBalance ==
  ASSUME Discipline, Balance,
         AwaitSuspend \/ \E how \in StopMethods : SuspendThread(how)
  PROVE  Balance'
<1>1. TypeOK /\ fSuspend \in Counters /\ stoppers \in Seq(Stoppers)
  BY DEF Discipline, TypeInv, TypeOK
<1>2. fSuspend.ui \in Int /\ SetAside("cpu") \in Int /\ SetAside("ui") \in Int /\ Cardinality(Stops) \in Nat
  BY <1>1, SetAsideTyped, StopsFinite
<1>3. Pending = Requests
  BY DEF Balance
<1>4. ASSUME NEW how \in StopMethods, SuspendThread(how) PROVE Balance'
  <2> DEFINE counters == IF how = "kStopNow" THEN [fSuspend EXCEPT !.ui = @ + 1] ELSE fSuspend
  <2>1. pc["ui"] = "idle" /\ SuspendLoop(how, counters, stoppers)
    BY <1>4 DEF SuspendThread, Free
  <2>2. counters \in Counters /\ counters.ui = fSuspend.ui + (IF how = "kStopNow" THEN 1 ELSE 0)
    BY <1>1 DEF Counters
  <2>3. ~fStop
    BY <2>1 DEF Discipline, StopDiscipline, Closing
  <2>4. fSuspend.ui + SetAside("cpu") + SetAside("ui") = Cardinality(Stops)
    BY <1>2, <1>3, <2>1, <2>3 DEF Pending, Requests
  <2> HIDE DEF counters
  <2>5. counters.ui + SetAside("cpu") + SetAside("ui") = Cardinality(Stops) + (IF how = "kStopNow" THEN 1 ELSE 0)
    <3> DEFINE n == fSuspend.ui
               a == SetAside("cpu")
               b == SetAside("ui")
    <3> HIDE DEF n, a, b
    <3>1. n \in Int /\ a \in Int /\ b \in Int /\ n + a + b = Cardinality(Stops)
      BY <1>2, <2>4 DEF n, a, b
    <3>2. \A k \in Int : (n + k) + a + b = Cardinality(Stops) + k
      BY <3>1
    <3>3. QED
      BY <2>2, <3>2 DEF n, a, b
  <2>6. {i \in DOMAIN stoppers : stoppers[i].got} = Stops
    BY DEF Stops
  <2>7. QED
    BY <1>1, <2>1, <2>2, <2>5, <2>6, SuspendLoopBalance
<1>5. CASE AwaitSuspend
  <2>1. pc["ui"] = "suspending" /\ SuspendLoop(Stopper.how, fSuspend, Front(stoppers))
    BY <1>5 DEF AwaitSuspend
  <2>2. stoppers # <<>> /\ Stops = {} /\ ~fStop
    BY <2>1 DEF Discipline, TypeInv, StackShape, StackLabels, StopDiscipline, StopRequested, Closing
  <2>3. /\ Front(stoppers) \in Seq(Stoppers) /\ Stopper.how \in StopMethods
        /\ {i \in DOMAIN Front(stoppers) : Front(stoppers)[i].got} = Stops
    BY <1>1, <2>2, StopsRemoved DEF Stoppers
  <2>4. fSuspend.ui + SetAside("cpu") + SetAside("ui") =
          Cardinality(Stops) + (IF Stopper.how = "kStopNow" THEN 1 ELSE 0)
    BY <1>2, <1>3, <2>1, <2>2 DEF Pending, Requests
  <2>5. QED
    BY <1>1, <2>1, <2>3, <2>4, SuspendLoopBalance
<1>6. QED
  BY <1>4, <1>5

LEMMA ResumeBalance ==
  ASSUME Discipline, Balance, ResumeThread
  PROVE  Balance'
<1>1. TypeOK /\ fSuspend \in Counters
  BY DEF Discipline, TypeInv, TypeOK
<1>2. /\ pc["ui"] = "idle" /\ pc'["ui"] = "idle" /\ stoppers # <<>> /\ stoppers' = Front(stoppers)
      /\ UNCHANGED <<calls, fStop>>
  BY DEF ResumeThread
<1>3. /\ SetAside("cpu")' = SetAside("cpu") /\ SetAside("ui")' = SetAside("ui")
      /\ calls["ui"] = <<>> /\ ~fStop
  BY <1>2 DEF SetAside, Discipline, TypeInv, StackShape, StackLabels, StopDiscipline, Closing
<1>4. /\ Stops' = Stops \ {Len(stoppers)} /\ (Stopper.got <=> Len(stoppers) \in Stops)
      /\ Cardinality(Stops)' = IF Stopper.got THEN Cardinality(Stops) - 1 ELSE Cardinality(Stops)
  BY <1>1, <1>2, StopsRemoved DEF Stops
<1> DEFINE n == fSuspend.ui
           a == SetAside("cpu")
           b == SetAside("ui")
           stops == Cardinality(Stops)
<1>5. n \in Int /\ a \in Int /\ b \in Int /\ stops \in Nat /\ (Stops = {} <=> stops = 0) /\ n >= stops
  BY <1>1, <1>3, SetAsideTyped, StopsFinite DEF Discipline, StopDiscipline, StopsInForce, RequestsKept
<1>6. n + a + b = stops
  BY <1>2, <1>3, <1>5 DEF Balance, Pending, Requests
<1>7. fSuspend'.ui = IF Stopper.got THEN n - 1 ELSE n
  <2>1. CASE Stopper.got
    <3>1. fSuspend.ui > 0
      BY <1>4, <1>5, <2>1
    <3>2. fSuspend' = Resumed
      BY <2>1, <3>1 DEF ResumeThread, LetGo
    <3>3. QED
      BY <1>1, <2>1, <3>2, ResumedTyped
  <2>2. CASE ~Stopper.got
    BY <2>2 DEF ResumeThread
  <2>3. QED
    BY <2>1, <2>2
<1>8. /\ Pending' = (IF Stopper.got THEN n - 1 ELSE n) + a + b
      /\ Requests' = IF Stopper.got THEN stops - 1 ELSE stops
  BY <1>2, <1>3, <1>4, <1>5, <1>7 DEF Pending, Requests
<1> HIDE DEF n, a, b, stops
<1>9. Pending' = Requests'
  BY <1>5, <1>6, <1>8
<1>10. QED
  BY <1>2, <1>9 DEF Balance, SnapshotKept

LEMMA UIBalance ==
  ASSUME Discipline, Balance, UIThread
  PROVE  Balance'
<1>1. TypeOK /\ fSuspend \in Counters /\ pc \in [Threads -> CPULabels \cup UILabels] /\ "ui" \in Threads
  BY DEF Discipline, TypeInv, TypeOK, Threads
<1>2. CASE \/ AwaitSuspend \/ SuspendThread("kStopNow") \/ SuspendThread("kStopOnSysCall")
  BY <1>2, SuspendBalance DEF StopMethods
<1>3. CASE ResumeThread
  BY <1>3, ResumeBalance
<1>4. ASSUME Pending' = Pending, UNCHANGED <<stoppers, fStop>>, {pc["ui"], pc'["ui"]} \cap {"suspending"} = {}, SnapshotKept'
      PROVE  Balance'
  BY <1>4, SameRequests DEF Balance
<1>5. CASE CallROM
  <2>1. pc["ui"] = "idle" /\ pc'["ui"] = "call" /\ UNCHANGED <<stoppers, fStop>> /\ BeginCall("ui", "rom")
    BY <1>1, <1>5 DEF CallROM, Free, BeginCall, Goto
  <2>2. Pending' = Pending
    BY <1>1, <2>1, BeginBalance DEF CallKinds
  <2>3. QED
    BY <1>4, <2>1, <2>2 DEF SnapshotKept
<1>6. CASE ExitDebugger
  <2>1. /\ pc["ui"] = "idle" /\ pc'["ui"] = "exitDebugger"
        /\ UNCHANGED <<stoppers, fStop, calls, fSuspend>> /\ snapshot'.ui = fSuspend.ui
    BY <1>1, <1>6 DEF ExitDebugger, Free, Goto, state, stack, Counters
  <2>2. QED
    BY <1>4, <2>1, QuietBalance DEF SnapshotKept
<1>7. CASE SetSuspendState
  <2>1. /\ pc["ui"] = "exitDebugger" /\ pc'["ui"] = "idle"
        /\ UNCHANGED <<stoppers, fStop, calls>> /\ fSuspend' = snapshot
    BY <1>1, <1>7 DEF SetSuspendState, Goto, state, stack
  <2>2. fSuspend'.ui = fSuspend.ui
    BY <2>1 DEF Balance, SnapshotKept
  <2>3. QED
    BY <1>4, <2>1, <2>2, QuietBalance DEF SnapshotKept
<1>8. CASE DestroyThread
  <2>1. /\ pc["ui"] = "closing" /\ pc'["ui"] = "destroying" /\ fStop' = TRUE
        /\ fSuspend'.ui = fSuspend.ui + 1 /\ UNCHANGED <<calls, stoppers>>
    BY <1>1, <1>8 DEF DestroyThread, Goto, stack, Counters
  <2>2. ~fStop
    BY <2>1 DEF Discipline, StopDiscipline, Closing
  <2>3. Cardinality(Stops)' = Cardinality(Stops) /\ SetAside("cpu")' = SetAside("cpu") /\ SetAside("ui")' = SetAside("ui")
    BY <2>1 DEF Stops, SetAside
  <2>4. fSuspend.ui \in Int /\ SetAside("cpu") \in Int /\ SetAside("ui") \in Int /\ Cardinality(Stops) \in Nat
    BY <1>1, SetAsideTyped, StopsFinite
  <2>5. Requests = Cardinality(Stops) /\ Requests' = Cardinality(Stops) + 1
    BY <2>1, <2>2, <2>3, <2>4 DEF Requests
  <2>6. Pending' = Pending + 1
    BY <2>1, <2>3, <2>4 DEF Pending
  <2>7. QED
    BY <2>1, <2>5, <2>6 DEF Balance, SnapshotKept
<1>9. CASE \/ CatchInSLP \/ DoReset \/ OpenDialog \/ AnswerDialog \/ UnblockDialog
           \/ DropDialogs \/ CloseDocument \/ AwaitStopped
  <2>1. /\ UNCHANGED <<stoppers, fStop, calls, fSuspend>>
        /\ {pc["ui"], pc'["ui"]} \cap {"suspending", "exitDebugger"} = {}
    BY <1>1, <1>9
    DEF CatchInSLP, DoReset, OpenDialog, AnswerDialog, UnblockDialog, DropDialogs,
        CloseDocument, AwaitStopped, Free, Goto, flow, state, stack
  <2>2. QED
    BY <1>4, <2>1, QuietBalance DEF SnapshotKept
<1>10. QED
  BY <1>2, <1>3, <1>5, <1>6, <1>7, <1>8, <1>9 DEF UIThread

LEMMA BalanceInit == Init => Balance
<1> SUFFICES ASSUME Init PROVE Balance
  OBVIOUS
<1>1. /\ fSuspend.ui = 0 /\ calls["cpu"] = <<>> /\ calls["ui"] = <<>> /\ stoppers = <<>>
      /\ pc["ui"] = "idle" /\ ~fStop
  BY DEF Init, NoCounters, Threads
<1>2. OldUI(<<>>) = <<>>
  BY DEF OldUI
<1>3. SetAside("cpu") = 0 /\ SetAside("ui") = 0
  BY <1>1, <1>2, TotalEmpty DEF SetAside
<1>4. Stops = {}
  BY <1>1 DEF Stops
<1>5. Requests = 0
  BY <1>1, <1>4, FS_EmptySet DEF Requests
<1>6. QED
  BY <1>1, <1>3, <1>5 DEF Balance, Pending, SnapshotKept

(* Every request of the UI thread is counted exactly once, in fSuspend or  *)
(* in the counters that a call in progress will give back, until it is     *)
(* lifted: neither a nested call nor the debugger loses or doubles one.    *)
THEOREM RequestsAreCounted ==
  ASSUME Calm PROVE Spec => []RequestsCounted
<1>1. Init => Balance
  BY BalanceInit
<1>2. Discipline /\ Balance /\ [Next]_vars => Balance'
  <2>1. ASSUME UNCHANGED vars, Balance PROVE Balance'
    <3>1. UNCHANGED <<calls, fSuspend, stoppers, fStop, pc, snapshot>>
      BY <2>1 DEF vars, flow, state, stack, guest
    <3>2. QED
      BY <2>1, <3>1, QuietBalance, SameRequests DEF Balance, SnapshotKept
  <2>2. QED
    BY <2>1, GuestBalance, CPUThreadBalance, UIBalance DEF Next
<1>3. Balance => RequestsCounted
  BY DEF Balance, Pending, RequestsCounted
<1>4. QED
  BY <1>1, <1>2, <1>3, TypeInvariant, StopsAreDisciplined, PTL DEF Spec, Discipline
----------------------------------------------------------------------------
(* The level counts the calls in progress: the CPU thread's first frame is *)
(* Run's own, every other frame of the two stacks is a call into the ROM,  *)
(* and only one of the stacks is in use.                                   *)
THEOREM LevelCountsTheCalls ==
  ASSUME Calm PROVE Spec => []NestLevelCounts
<1>1. ASSUME Discipline PROVE NestLevelCounts
  <2> DEFINE deeper == {i \in DOMAIN calls["cpu"] : calls["cpu"][i].kind # "run"}
  <2>1. TypeOK
    BY <1>1 DEF Discipline, TypeInv
  <2>2. /\ Depth("cpu") \in Nat /\ DOMAIN calls["cpu"] = 1 .. Depth("cpu") /\ Depth("ui") \in Nat
        /\ (calls["cpu"] = <<>> <=> Depth("cpu") = 0) /\ (calls["ui"] = <<>> <=> Depth("ui") = 0)
    BY <2>1, StackFacts DEF Threads
  <2>3. deeper = 2 .. Depth("cpu")
    BY <1>1, <2>2 DEF Discipline, TypeInv, StackShape, StackKinds
  <2> DEFINE n == Depth("cpu")
  <2> HIDE DEF deeper, n
  <2>4. Cardinality(deeper) = IF 2 > n THEN 0 ELSE n - 1
    <3>1. n \in Int /\ 2 \in Int
      BY <2>2 DEF n
    <3>2. Cardinality(2 .. n) = IF 2 > n THEN 0 ELSE n - 2 + 1
      BY <3>1, FS_Interval
    <3>3. QED
      BY <2>3, <3>1, <3>2 DEF n
  <2>5. calls["cpu"] # <<>> => calls["ui"] = <<>>
    BY <1>1 DEF Discipline, StopDiscipline, CPUAtWork
  <2>6. fNestLevel = Depth("ui") + Cardinality(deeper)
    BY <1>1, <2>2, <2>4, <2>5 DEF n, Discipline, StopDiscipline, LevelIsDepth
  <2>7. QED
    BY <2>6 DEF NestLevelCounts, Depth, deeper
<1>2. QED
  BY <1>1, TypeInvariant, StopsAreDisciplined, PTL DEF Discipline
=============================================================================
