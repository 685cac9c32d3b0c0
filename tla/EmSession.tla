----------------------------- MODULE EmSession -----------------------------
(***************************************************************************)
(* The session: the object through which the UI thread ("ui") controls the *)
(* thread that emulates the 68K ("cpu").  Both threads share one mutex     *)
(* (fSharedLock) and one condition variable (fSharedCondition).  Each      *)
(* action is one critical section, or one step of unlocked code; a thread  *)
(* that calls fSharedCondition.wait () is in `waiting' until a broadcast.  *)
(*                                                                         *)
(* The module models SuspendThread and ResumeThread, the CPU loop with its *)
(* break conditions, nested ROM calls made by either thread, exceptions    *)
(* that unwind them, dialogs the CPU thread blocks on, the debugger, resets*)
(* and the destruction of the thread.                                      *)
(***************************************************************************)
EXTENDS Integers, SequencesExt

CONSTANTS
  Features,     \* which optional operations the two threads perform
  MaxStoppers,  \* EmSessionStopper objects alive at once
  MaxCalls,     \* CPU loops on one thread's stack
  MaxCount      \* bound of fSuspendByDebugger and |fSuspendByExternal|

FeatureNames ==
  { "sysCall",     \* stops that wait for a system call, and calls into the ROM
    "patches",     \* patches and HostControl calls that call back into the ROM
    "errors",      \* errors inside nested calls, which unwind them
    "dialogs",     \* the CPU thread asks the UI thread to show a dialog
    "signals",     \* HostSignalSend and HostSignalResume
    "appResume",   \* HostSignalResume called by an application, not by RPC
    "debugger",    \* breakpoints and an external debugger
    "reset",       \* the guest or the user resets the device
    "softReset",   \* the menu command that resets without stopping the CPU
    "dropDialogs", \* an action that fails discards the actions queued after it
    "close" }      \* the document is closed

ASSUME FeaturesAssumption == Features \subseteq FeatureNames
ASSUME BoundsAssumption ==
  /\ MaxStoppers \in Nat \ {0}
  /\ MaxCalls \in Nat \ {0}
  /\ MaxCount \in Nat \ {0}

VARIABLES
  fStop, fState, fSuspend, fBreakOnSysCall, fNestLevel, fReset,
  endOfCycle,   \* SPCFLAG_END_OF_CYCLE in regs.spcflags
  waiting,      \* the threads blocked in fSharedCondition.wait ()
  pc, calls,    \* where each thread is, and the CPU loops on its stack
  thrown,       \* the exception in flight on each thread
  stoppers,     \* the UI thread's EmSessionStopper objects, the oldest first
  asking, queued, result,  \* the CPU thread's dialog, its EmActionDialog, the answer
  gDocument,    \* gDocument # NULL
  snapshot,     \* what ExitDebugger got from GetSuspendState
  atSysCall     \* the guest stands at a system call it has not yet executed

flow == <<pc, waiting>>
state == <<fStop, fState, fNestLevel>>
stack == <<calls, thrown>>
flags == <<fReset, endOfCycle>>
dialog == <<asking, queued, result, gDocument>>
guest == <<atSysCall, snapshot>>
vars == <<flow, state, fSuspend, fBreakOnSysCall, stack, flags, stoppers,
          dialog, guest>>

Threads == {"ui", "cpu"}
States == {"kSuspended", "kRunning", "kBlockedOnUI", "kStopped"}
StopMethods == {"kStopNow", "kStopOnSysCall"}
CallKinds == {"run", "rom", "taskInfo", "patch"}
Exceptions == {"none", "resetMessage", "reset", "debugger"}
Answers == {"continue", "debug", "reset", "ok", "cancel"}
Dialogs == {"none", "host", "error", "resetType", "display"}

\* EmSuspendCounters, without the counters of the timeout and of kStopOnCycle,
\* which nothing sets.
Counters == [ui : Int, dbg : Int, ext : Int, sys : {0, 1}, sub : {0, 1}]
NoCounters == [ui |-> 0, dbg |-> 0, ext |-> 0, sys |-> 0, sub |-> 0]

Nested == fNestLevel > 0
Top(t) == Last(calls[t])
Stopper == Last(stoppers)

\* A loop running the guest's own code, rather than a call made for Poser.
Executing(t) == pc[t] = "exec"

----------------------------------------------------------------------------
(* Condition variable and program counters.                                *)

Goto(t, label) == pc' = [pc EXCEPT ![t] = label]
Broadcast == waiting' = {}
BroadcastAndWait(t) == waiting' = {t}
Awake(t) == t \notin waiting

\* Mutant: only the UI thread's requests end the loop.
CheckForUI == fSuspend.ui # 0 \/ fSuspend.sub # 0

(* EmCPU68K::CheckForBreak: a nested loop leaves fSuspendByExternal alone.  *)
CheckForBreak ==
  IF Nested THEN [fSuspend EXCEPT !.ext = 0] # NoCounters
            ELSE fSuspend # NoCounters

(* The loop looks at spcflags after every opcode; a nested loop goes on if *)
(* nothing asks it to stop and leaves END_OF_CYCLE set.                    *)
CanStep(t) ==
  /\ Executing(t)
  /\ endOfCycle => Nested /\ ~CheckForBreak

Schedule(counters) ==
  /\ fSuspend' = counters
  /\ endOfCycle' = TRUE

----------------------------------------------------------------------------
(* Initially: EmDocument::DoNew has called CreateThread (false).           *)

Init ==
  /\ fStop = FALSE
  /\ fState = "kRunning"
  /\ fSuspend = NoCounters
  /\ fBreakOnSysCall = FALSE
  /\ fNestLevel = 0
  /\ fReset = FALSE
  /\ endOfCycle = FALSE
  /\ waiting = {}
  /\ pc = [ui |-> "idle", cpu |-> "run"]
  /\ calls = [t \in Threads |-> <<>>]
  /\ thrown = [t \in Threads |-> "none"]
  /\ stoppers = <<>>
  /\ asking = "none"
  /\ queued = FALSE
  /\ result = "none"
  /\ gDocument = TRUE
  /\ snapshot = NoCounters
  /\ atSysCall = FALSE

----------------------------------------------------------------------------
(* The CPU thread's outer loop, EmSession::Run.                            *)

InRun == pc["cpu"] \in {"run", "inner"} /\ Awake("cpu")

\* Mutants: the inner loop forgets calls in progress; it forgets fStop.
MustBlockUnnested == ~fStop /\ fSuspend # NoCounters
MustBlockUnstoppably == Nested \/ fSuspend # NoCounters

\* The inner loop, once entered, is left only when no call is in progress.
MustBlock ==
  IF pc["cpu"] = "run"
    THEN ~fStop /\ fSuspend # NoCounters
    ELSE Nested \/ (~fStop /\ fSuspend # NoCounters)

RunSuspend ==
  /\ InRun /\ MustBlock
  /\ fState' = IF Nested THEN fState ELSE "kSuspended"
  /\ Goto("cpu", "inner")
  /\ BroadcastAndWait("cpu")
  /\ UNCHANGED <<fStop, fSuspend, fBreakOnSysCall, fNestLevel, stack, flags,
                 stoppers, dialog, guest>>

RunCall ==
  /\ InRun /\ ~MustBlock /\ ~fStop
  /\ calls' = [calls EXCEPT !["cpu"] =
       <<[kind |-> "run", old |-> NoCounters, nest |-> 0, saved |-> fState]>>]
  /\ Goto("cpu", "call")
  /\ UNCHANGED <<waiting, state, fSuspend, fBreakOnSysCall, thrown, flags,
                 stoppers, dialog, guest>>

RunStop ==
  /\ InRun /\ ~MustBlock /\ fStop
  /\ fState' = "kStopped"
  /\ Goto("cpu", "stopped")
  /\ Broadcast
  /\ UNCHANGED <<fStop, fSuspend, fBreakOnSysCall, fNestLevel, stack, flags,
                 stoppers, dialog, guest>>

(* Run's handlers: EmExceptionReset displays its message, if it has one and*)
(* is not merely logged, and resets; a stop for the debugger just goes on. *)
Catch ==
  /\ pc["cpu"] = "caught"
  /\ thrown' = [thrown EXCEPT !["cpu"] = "none"]
  /\ \/ thrown["cpu"] = "resetMessage" /\ Goto("cpu", "asking") /\ asking' = "display"
     \/ thrown["cpu"] # "debugger" /\ Goto("cpu", "reset") /\ asking' = asking
     \/ thrown["cpu"] = "debugger" /\ Goto("cpu", "run") /\ asking' = asking
  /\ UNCHANGED <<waiting, state, fSuspend, fBreakOnSysCall, calls, flags,
                 stoppers, queued, result, gDocument, guest>>

----------------------------------------------------------------------------
(* ExecuteSubroutine and CallCPU: entering and leaving a loop.             *)

BeginCall(t, kind) ==
  /\ Len(calls[t]) < MaxCalls
  /\ calls' = [calls EXCEPT ![t] = Append(@,
       [kind |-> kind, old |-> fSuspend, nest |-> fNestLevel, saved |-> fState])]
  /\ fSuspend' = NoCounters
  /\ fNestLevel' = fNestLevel + 1
  /\ Goto(t, "call")
  /\ Broadcast
  /\ UNCHANGED <<fStop, fState, fBreakOnSysCall, thrown, flags, stoppers,
                 dialog, guest>>

CallCPU(t) ==
  /\ pc[t] = "call"
  /\ calls' = [calls EXCEPT ![t] = Append(Front(@), [Top(t) EXCEPT !.saved = fState])]
  /\ fState' = "kRunning"
  /\ Goto(t, "exec")
  /\ UNCHANGED <<waiting, fStop, fSuspend, fBreakOnSysCall, fNestLevel, thrown,
                 flags, stoppers, dialog, guest>>

(* EmCPU::Execute has returned or thrown: CallCPU restores fState.         *)
LeaveCPU(t) ==
  /\ pc[t] = "leave"
  /\ fState' = Top(t).saved
  /\ IF Top(t).kind = "run"
       THEN /\ calls' = [calls EXCEPT ![t] = <<>>]
            /\ Goto(t, IF thrown[t] = "none" THEN "run" ELSE "caught")
       ELSE /\ calls' = calls
            /\ Goto(t, "return")
  /\ UNCHANGED <<waiting, fStop, fSuspend, fBreakOnSysCall, fNestLevel, thrown,
                 flags, stoppers, dialog, guest>>

\* Mutants: the fold forgets the UI thread; it adds up what is only a flag.
FoldedWithoutUI(f) == [f.old EXCEPT !.dbg = @ + fSuspend.dbg, !.ext = @ + fSuspend.ext]
FoldedWithFlags(f) == [f.old EXCEPT !.ui = @ + fSuspend.ui, !.sys = @ + fSuspend.sys]

\* What is kept of the requests that arrived during the call, for its caller...
Folded(f) == [f.old EXCEPT !.ui = @ + fSuspend.ui,
                           !.dbg = @ + fSuspend.dbg,
                           !.ext = @ + fSuspend.ext]

\* Mutant: leaving a call does not give the level back.
LevelKept(t) == fNestLevel

LevelBefore(t) == Top(t).nest

\* ... and what makes the call itself end.
Ending == fSuspend.dbg # 0 \/ fSuspend.sub # 0

ReenterCall(t) ==
  /\ pc[t] = "return" /\ thrown[t] = "none" /\ ~Ending
  /\ calls' = [calls EXCEPT ![t] = Append(Front(@), [Top(t) EXCEPT !.old = Folded(Top(t))])]
  /\ fSuspend' = NoCounters
  /\ fNestLevel' = LevelBefore(t) + 1
  /\ Goto(t, "call")
  /\ Broadcast
  /\ UNCHANGED <<fStop, fState, fBreakOnSysCall, thrown, flags, stoppers,
                 dialog, guest>>

AfterCall == [rom |-> "idle", taskInfo |-> "sysCall", patch |-> "patch"]

ReturnFromCall(t) ==
  /\ pc[t] = "return" /\ thrown[t] = "none" /\ Ending
  /\ LET kept == Folded(Top(t))
     IN  Schedule([kept EXCEPT !.ext = IF @ < 0 THEN 0 ELSE @])
  /\ fNestLevel' = LevelBefore(t)
  /\ calls' = [calls EXCEPT ![t] = Front(@)]
  /\ Goto(t, AfterCall[Top(t).kind])
  /\ Broadcast
  /\ UNCHANGED <<fStop, fState, fBreakOnSysCall, thrown, fReset, stoppers,
                 dialog, guest>>

(* An exception leaves ExecuteSubroutine: the nest level is restored, the  *)
(* counters saved on entry are not.                                        *)
Unwind(t) ==
  /\ pc[t] = "return" /\ thrown[t] # "none"
  /\ fNestLevel' = LevelBefore(t)
  /\ calls' = [calls EXCEPT ![t] = Front(@)]
  /\ Goto(t, IF Len(calls[t]) > 1 THEN "leave" ELSE "caught")
  /\ UNCHANGED <<waiting, fStop, fState, fSuspend, fBreakOnSysCall, thrown,
                 flags, stoppers, dialog, guest>>

----------------------------------------------------------------------------
(* The loop itself: EmCPU68K::Execute and ExecuteSpecial.                  *)

(* Every 0x8000 opcodes, or at each turn of the loop of a stopped CPU.     *)
CycleSlowly(t) ==
  /\ Executing(t) /\ ~Nested
  /\ fSuspend # NoCounters
  /\ ~endOfCycle
  /\ endOfCycle' = TRUE
  /\ UNCHANGED <<flow, state, fSuspend, fBreakOnSysCall, stack, fReset,
                 stoppers, dialog, guest>>

\* Interrupts and tracing are special flags too: any opcode may lead here.
ExecuteSpecialNested(t) ==
  /\ Executing(t) /\ Nested /\ CheckForBreak
  /\ Goto(t, "leave")
  /\ UNCHANGED <<waiting, state, fSuspend, fBreakOnSysCall, stack, flags,
                 stoppers, dialog, guest>>

ExecuteSpecial(t) ==
  /\ Executing(t) /\ ~Nested
  /\ endOfCycle \/ CheckForBreak
  /\ ~(endOfCycle /\ fReset)
  /\ endOfCycle' = FALSE
  /\ IF CheckForBreak THEN Goto(t, "leave") ELSE pc' = pc
  /\ UNCHANGED <<waiting, state, fSuspend, fBreakOnSysCall, stack, fReset,
                 stoppers, dialog, guest>>

ExecuteReset(t) ==
  /\ Executing(t) /\ ~Nested /\ endOfCycle /\ fReset
  /\ fReset' = FALSE
  /\ Goto(t, "reset")
  /\ UNCHANGED <<waiting, state, fSuspend, fBreakOnSysCall, stack, endOfCycle,
                 stoppers, dialog, guest>>

CountersAfterReset == [NoCounters EXCEPT !.ui = fSuspend.ui]

(* The second half of EmSession::Reset: the other subsystems were reset    *)
(* without the lock, then the session's own state is, with it.  A reset    *)
(* made by ExecuteSpecial is followed by a check for a break.              *)
Reset(t) ==
  /\ pc[t] = "reset"
  /\ fSuspend' = CountersAfterReset
  /\ fBreakOnSysCall' = FALSE
  /\ fNestLevel' = 0
  /\ fReset' = FALSE
  /\ endOfCycle' = (calls[t] # <<>>)
  /\ atSysCall' = FALSE
  /\ Goto(t, IF calls[t] # <<>> THEN "exec" ELSE IF t = "ui" THEN "idle" ELSE "run")
  /\ UNCHANGED <<waiting, fStop, fState, stack, stoppers, dialog, snapshot>>

----------------------------------------------------------------------------
(* What the guest's code does to the session while a thread runs it.       *)

\* Every value a counter has, now and on the stacks: the bound is on these.
Outstanding(counter) ==
  {fSuspend[counter]} \cup
  UNION {{calls[t][i].old[counter] : i \in DOMAIN calls[t]} : t \in Threads}

\* A step outside any call leaves the system call the guest stood at.
GuestStep(t) == CanStep(t) /\ atSysCall' = (Nested /\ atSysCall)

(* A patch may call back into the ROM, several times for one opcode.       *)
PatchCall(t) ==
  /\ "patches" \in Features
  /\ CanStep(t) \/ pc[t] = "patch"
  /\ BeginCall(t, "patch")

PatchDone(t) ==
  /\ pc[t] = "patch"
  /\ Goto(t, "exec")
  /\ UNCHANGED <<waiting, state, fSuspend, fBreakOnSysCall, stack, flags,
                 stoppers, dialog, guest>>

(* TRAP $C, which follows the TRAP $F of every call that Poser makes.      *)
SubroutineReturn(t) ==
  /\ GuestStep(t) /\ Nested
  /\ Schedule([fSuspend EXCEPT !.sub = 1])
  /\ UNCHANGED <<flow, state, fBreakOnSysCall, stack, fReset, stoppers, dialog, snapshot>>

(* HandleSystemCall, when the UI thread wants to stop on a system call: ask*)
(* the ROM for the current task, and suspend if that is the UI task.       *)
BreakOnSysCall ==
  /\ CanStep("cpu") /\ ~Nested /\ fBreakOnSysCall
  /\ BeginCall("cpu", "taskInfo")

SuspendSysCall ==
  /\ pc["cpu"] = "sysCall"
  /\ Schedule([fSuspend EXCEPT !.sys = 1])
  /\ atSysCall' = TRUE
  /\ Goto("cpu", "exec")
  /\ UNCHANGED <<waiting, state, fBreakOnSysCall, stack, fReset, stoppers, dialog, snapshot>>

\* In another task: in AMX's root task EvtWakeup is called, then the system
\* call goes on.
IgnoreSysCall ==
  /\ pc["cpu"] = "sysCall"
  /\ Goto("cpu", "exec")
  /\ UNCHANGED <<waiting, state, fSuspend, fBreakOnSysCall, stack, flags,
                 stoppers, dialog, guest>>

WakeUITask ==
  /\ pc["cpu"] = "sysCall"
  /\ BeginCall("cpu", "patch")

(* HostSignalSend, and the head patch of SysDoze, when a client waits.     *)
SignalSend(t) ==
  /\ "signals" \in Features
  /\ CanStep(t)
  /\ \A n \in Outstanding("ext") : n < MaxCount
  /\ Schedule([fSuspend EXCEPT !.ext = @ + 1, !.sys = 1])
  /\ atSysCall' = (Nested => atSysCall)
  /\ UNCHANGED <<flow, state, fBreakOnSysCall, stack, fReset, stoppers, dialog, snapshot>>

(* HostSignalResume and HostSignalWait, run for a client by an RPC packet, *)
(* or called by an application.                                            *)
SignalResume(t) ==
  /\ ("signals" \in Features /\ Nested) \/ "appResume" \in Features
  /\ GuestStep(t)
  /\ \A n \in Outstanding("ext") : n > -MaxCount
  /\ fSuspend' = [fSuspend EXCEPT !.ext = @ - 1]
  /\ UNCHANGED <<flow, state, fBreakOnSysCall, stack, flags, stoppers, dialog, snapshot>>

(* Debug::HandleInstructionBreak reaches Debug::EnterDebugger.             *)
Breakpoint(t) ==
  /\ "debugger" \in Features
  /\ GuestStep(t)
  /\ \A n \in Outstanding("dbg") : n < MaxCount
  /\ Schedule([fSuspend EXCEPT !.dbg = @ + 1])
  /\ UNCHANGED <<flow, state, fBreakOnSysCall, stack, fReset, stoppers, dialog, snapshot>>

(* An error of the guest during a call is thrown up to whoever called.     *)
NestedError(t) ==
  /\ "errors" \in Features
  /\ GuestStep(t) /\ Nested
  /\ thrown' = [thrown EXCEPT ![t] = "resetMessage"]
  /\ Goto(t, "leave")
  /\ UNCHANGED <<waiting, state, fSuspend, fBreakOnSysCall, calls, flags,
                 stoppers, dialog, snapshot>>

(* SysReset's patch and the RESET opcode call ScheduleReset.               *)
ScheduleReset(t) ==
  /\ "reset" \in Features
  /\ GuestStep(t)
  /\ ~fReset
  /\ fReset' = TRUE
  /\ endOfCycle' = TRUE
  /\ UNCHANGED <<flow, state, fSuspend, fBreakOnSysCall, stack, stoppers, dialog, snapshot>>

----------------------------------------------------------------------------
(* Dialogs of the CPU thread.                                              *)

(* An error outside any call asks the user what to do, or enters the       *)
(* debugger first; a HostControl call may show a dialog at any depth.      *)
NeedDialog ==
  /\ "dialogs" \in Features
  /\ GuestStep("cpu")
  /\ \/ asking' = "host" /\ Goto("cpu", "asking")
     \/ ~Nested /\ asking' = "error" /\ Goto("cpu", "asking")
     \/ ~Nested /\ asking' = "error" /\ Goto("cpu", "debug")
  /\ UNCHANGED <<waiting, state, fSuspend, fBreakOnSysCall, stack, flags,
                 stoppers, queued, result, gDocument, snapshot>>

(* EmSession::ExecuteSpecial reports the errors deferred to the end of the *)
(* opcode, or of the nested call, with END_OF_CYCLE still set.             *)
DeferredError ==
  /\ "dialogs" \in Features
  /\ Executing("cpu") /\ ~Nested /\ ~fReset
  /\ endOfCycle' = TRUE
  /\ asking' = "error"
  /\ Goto("cpu", "asking")
  /\ atSysCall' = (endOfCycle /\ atSysCall)
  /\ UNCHANGED <<waiting, state, fSuspend, fBreakOnSysCall, stack, fReset,
                 stoppers, queued, result, gDocument, snapshot>>

\* Mutant: any broadcast ends the wait.
AnsweredAnyhow == TRUE

\* The condition BlockOnDialog waits for.
Answered == result # "none" \/ fStop

BlockOnDialog ==
  /\ pc["cpu"] = "asking" /\ gDocument
  /\ queued' = TRUE
  /\ result' = "none"
  /\ fState' = "kBlockedOnUI"
  /\ Goto("cpu", "blocked")
  /\ BroadcastAndWait("cpu")
  /\ UNCHANGED <<fStop, fNestLevel, fSuspend, fBreakOnSysCall, stack, flags,
                 stoppers, asking, gDocument, guest>>

\* BlockOnDialog's EmAssert (gDocument), or the dereference that follows it.
Crash ==
  /\ pc["cpu"] = "asking" /\ ~gDocument
  /\ Goto("cpu", "crashed")
  /\ UNCHANGED <<waiting, state, fSuspend, fBreakOnSysCall, stack, flags,
                 stoppers, dialog, guest>>

StillBlocked ==
  /\ pc["cpu"] = "blocked" /\ Awake("cpu")
  /\ ~Answered
  /\ waiting' = waiting \cup {"cpu"}
  /\ UNCHANGED <<pc, state, fSuspend, fBreakOnSysCall, stack, flags, stoppers,
                 dialog, guest>>

\* Where HandleDialog, or Run's handler, goes on with the user's answer.
ThrowTo(exception) ==
  /\ thrown' = [thrown EXCEPT !["cpu"] = exception]
  /\ Goto("cpu", "leave")
  /\ asking' = "none"

ActOn(kind, answer) ==
  CASE kind = "host" \/ (kind = "error" /\ answer = "continue") ->
         Goto("cpu", "exec") /\ asking' = "none" /\ thrown' = thrown
    [] kind = "display" ->
         Goto("cpu", "reset") /\ asking' = "none" /\ thrown' = thrown
    [] kind = "error" /\ answer = "debug" ->
         Goto("cpu", "debug") /\ asking' = "none" /\ thrown' = thrown
    [] kind = "error" /\ answer = "reset" ->
         Goto("cpu", "asking") /\ asking' = "resetType" /\ thrown' = thrown
    [] kind = "resetType" /\ answer = "ok" -> ThrowTo("reset")
    [] OTHER ->  \* no answer, or no debugger, or the reset cancelled: ask again
         Goto("cpu", "asking") /\ asking' = "error" /\ thrown' = thrown

Unblock ==
  /\ pc["cpu"] = "blocked" /\ Awake("cpu")
  /\ Answered
  /\ fState' = "kRunning"
  /\ Broadcast
  /\ ActOn(asking, result)
  /\ result' = "none"
  /\ UNCHANGED <<fStop, fNestLevel, fSuspend, fBreakOnSysCall, calls, flags,
                 stoppers, queued, gDocument, guest>>

(* The Debug button: EnterDebugger succeeds if a debugger is connected.    *)
DebugButton ==
  /\ pc["cpu"] = "debug"
  /\ \/ /\ "debugger" \in Features
        /\ \A n \in Outstanding("dbg") : n < MaxCount
        /\ Schedule([fSuspend EXCEPT !.dbg = @ + 1])
        /\ ThrowTo("debugger")
     \/ /\ Goto("cpu", "asking")
        /\ asking' = "error"
        /\ UNCHANGED <<fSuspend, endOfCycle, thrown>>
  /\ UNCHANGED <<waiting, state, fBreakOnSysCall, calls, fReset, stoppers,
                 queued, result, gDocument, guest>>

----------------------------------------------------------------------------
(* The UI thread: EmSessionStopper, that is SuspendThread and ResumeThread.*)

\* Not while an exception is on its way out of the stoppers.
Free == pc["ui"] = "idle" /\ thrown["ui"] = "none"

\* Mutant: any suspended thread will do.
GrantedAnywhere(how, counters) == how = "kStopNow" \/ fState = "kSuspended"

Granted(how, counters) ==
  how = "kStopNow" \/ (fState = "kSuspended" /\ counters.sys = 1)

(* The end of SuspendThread, once fState is no longer kRunning.            *)
FinishSuspend(how, counters, others) ==
  LET got == Granted(how, counters)
  IN  /\ fSuspend' = IF got /\ how = "kStopOnSysCall"
                       THEN [counters EXCEPT !.ui = @ + 1] ELSE counters
      /\ stoppers' = Append(others, [how |-> how, got |-> got, on |-> fState])
      /\ fBreakOnSysCall' = FALSE
      /\ Goto("ui", "idle")
      /\ waiting' = waiting

(* One turn of its loop: say how to stop, then wait for a broadcast.       *)
WaitToSuspend(how, counters, others) ==
  /\ fSuspend' = counters
  /\ stoppers' = Append(others, [how |-> how, got |-> FALSE, on |-> "none"])
  /\ fBreakOnSysCall' = (how = "kStopOnSysCall")
  /\ Goto("ui", "suspending")
  /\ BroadcastAndWait("ui")

SuspendLoop(how, counters, others) ==
  /\ IF fState = "kRunning" THEN WaitToSuspend(how, counters, others)
                            ELSE FinishSuspend(how, counters, others)
  /\ UNCHANGED <<state, stack, flags, dialog, guest>>

SuspendThread(how) ==
  /\ Free /\ gDocument
  /\ Len(stoppers) < MaxStoppers
  /\ \A n \in Outstanding("ui") : n < MaxStoppers
  /\ SuspendLoop(how,
       IF how = "kStopNow" THEN [fSuspend EXCEPT !.ui = @ + 1] ELSE fSuspend,
       stoppers)

AwaitSuspend ==
  /\ pc["ui"] = "suspending" /\ Awake("ui")
  /\ SuspendLoop(Stopper.how, fSuspend, Front(stoppers))

\* Mutant: the system call stays a reason to be suspended.
ResumedAtSysCall == [fSuspend EXCEPT !.ui = @ - 1]

(* The counters after ResumeThread has taken one request away.             *)
Resumed ==
  LET left == fSuspend.ui - 1
  IN  [fSuspend EXCEPT !.ui = left,
                       !.sys = IF left = 0 /\ fSuspend.ext = 0 THEN 0 ELSE @]

Restarted ==
  IF Resumed = NoCounters /\ fState = "kSuspended" THEN "kRunning" ELSE fState

\* Mutant: nobody is told.
LetGoQuietly == fSuspend' = Resumed /\ fState' = Restarted /\ waiting' = waiting

LetGo == fSuspend' = Resumed /\ fState' = Restarted /\ Broadcast

ResumeThread ==
  /\ pc["ui"] = "idle" /\ stoppers # <<>>
  /\ stoppers' = Front(stoppers)
  /\ thrown' = IF Len(stoppers) = 1 THEN [thrown EXCEPT !["ui"] = "none"] ELSE thrown
  /\ IF Stopper.got /\ fSuspend.ui > 0
       THEN LetGo
       ELSE UNCHANGED <<fSuspend, fState, waiting>>
  /\ UNCHANGED <<pc, fStop, fNestLevel, fBreakOnSysCall, calls, flags, dialog, guest>>

----------------------------------------------------------------------------
(* What the UI thread does with a session it has stopped, or has not.      *)

Holds(how) == stoppers # <<>> /\ Stopper.got /\ Stopper.how = how

(* EmSessionStopper::CanCall, then a call into the ROM.                    *)
CallROM == Free /\ Holds("kStopOnSysCall") /\ BeginCall("ui", "rom")

(* SLP::HandleNewPacket catches EmExceptionReset, resets the session and   *)
(* throws the exception again: CTCPSocket::Idle catches it.                *)
CatchInSLP ==
  /\ pc["ui"] = "caught"
  /\ Goto("ui", "reset")
  /\ UNCHANGED <<waiting, state, fSuspend, fBreakOnSysCall, stack, flags,
                 stoppers, dialog, guest>>

(* EmDocument::DoReset holds a stopper, DoSoftReset does not.              *)
DoReset ==
  /\ Free /\ gDocument
  /\ \/ "reset" \in Features /\ Holds("kStopNow") /\ Len(stoppers) = 1
     \/ "softReset" \in Features /\ stoppers = <<>>
  /\ Goto("ui", "reset")
  /\ UNCHANGED <<waiting, state, fSuspend, fBreakOnSysCall, stack, flags,
                 stoppers, dialog, guest>>

(* A packet of the external debugger: GetSuspendState, then SetSuspendState*)
ExitDebugger ==
  /\ Free /\ Holds("kStopNow") /\ "debugger" \in Features
  /\ snapshot' = [fSuspend EXCEPT !.dbg = 0]
  /\ Goto("ui", "exitDebugger")
  /\ UNCHANGED <<waiting, state, fSuspend, fBreakOnSysCall, stack, flags,
                 stoppers, dialog, atSysCall>>

SetSuspendState ==
  /\ pc["ui"] = "exitDebugger"
  /\ fSuspend' = snapshot
  /\ snapshot' = NoCounters
  /\ Goto("ui", "idle")
  /\ UNCHANGED <<waiting, state, fBreakOnSysCall, stack, flags, stoppers,
                 dialog, atSysCall>>

(* EmActionHandler::DoAll runs the queued EmActionDialog at idle time.     *)
OpenDialog ==
  /\ Free /\ stoppers = <<>> /\ queued /\ gDocument
  /\ queued' = FALSE
  /\ Goto("ui", "dialog")
  /\ UNCHANGED <<waiting, state, fSuspend, fBreakOnSysCall, stack, flags,
                 stoppers, asking, result, gDocument, guest>>

AnswersTo(kind) ==
  CASE kind = "error"     -> {"continue", "debug", "reset"}
    [] kind = "resetType" -> {"ok", "cancel"}
    [] OTHER              -> {"continue"}

(* EmActionDialog::Do stores the answer without the lock, then broadcasts. *)
AnswerDialog ==
  /\ pc["ui"] = "dialog"
  /\ result' \in AnswersTo(asking)
  /\ Goto("ui", "answered")
  /\ UNCHANGED <<waiting, state, fSuspend, fBreakOnSysCall, stack, flags,
                 stoppers, asking, queued, gDocument, guest>>

\* Mutant: the CPU thread is not told.
UnblockDialogQuietly ==
  /\ pc["ui"] = "answered"
  /\ Goto("ui", "idle")
  /\ UNCHANGED <<waiting, state, fSuspend, fBreakOnSysCall, stack, flags, stoppers,
                 dialog, guest>>

UnblockDialog ==
  /\ pc["ui"] = "answered"
  /\ Goto("ui", "idle")
  /\ Broadcast
  /\ UNCHANGED <<state, fSuspend, fBreakOnSysCall, stack, flags, stoppers,
                 dialog, guest>>

(* DoAll deletes the whole queue when one of its actions throws an ErrCode.*)
DropDialogs ==
  /\ "dropDialogs" \in Features
  /\ Free /\ stoppers = <<>> /\ queued
  /\ queued' = FALSE
  /\ UNCHANGED <<flow, state, fSuspend, fBreakOnSysCall, stack, flags, stoppers,
                 asking, result, gDocument, guest>>

(* EmDocument's destructor clears gDocument, then deletes the session.     *)
CloseDocument ==
  /\ "close" \in Features
  /\ Free /\ gDocument /\ stoppers = <<>>
  /\ gDocument' = FALSE
  /\ Goto("ui", "closing")
  /\ UNCHANGED <<waiting, state, fSuspend, fBreakOnSysCall, stack, flags,
                 stoppers, asking, queued, result, guest>>

DestroyThread ==
  /\ pc["ui"] = "closing"
  /\ fStop' = TRUE
  /\ fSuspend' = [fSuspend EXCEPT !.ui = @ + 1]
  /\ Goto("ui", "destroying")
  /\ BroadcastAndWait("ui")
  /\ UNCHANGED <<fState, fNestLevel, fBreakOnSysCall, stack, flags, stoppers,
                 dialog, guest>>

AwaitStopped ==
  /\ pc["ui"] = "destroying" /\ Awake("ui")
  /\ IF fState = "kStopped"
       THEN Goto("ui", "gone") /\ waiting' = waiting
       ELSE pc' = pc /\ waiting' = waiting \cup {"ui"}
  /\ UNCHANGED <<state, fSuspend, fBreakOnSysCall, stack, flags, stoppers,
                 dialog, guest>>

----------------------------------------------------------------------------
Loop(t) ==
  \/ CallCPU(t) \/ LeaveCPU(t) \/ ReenterCall(t) \/ ReturnFromCall(t) \/ Unwind(t)
  \/ CycleSlowly(t) \/ ExecuteSpecialNested(t) \/ ExecuteSpecial(t)
  \/ ExecuteReset(t) \/ Reset(t) \/ PatchDone(t)

Guest(t) ==
  \/ PatchCall(t) \/ SubroutineReturn(t) \/ SignalSend(t) \/ SignalResume(t)
  \/ Breakpoint(t) \/ NestedError(t) \/ ScheduleReset(t)

CPUThread ==
  \/ RunSuspend \/ RunCall \/ RunStop \/ Catch
  \/ BreakOnSysCall \/ SuspendSysCall \/ IgnoreSysCall \/ WakeUITask
  \/ NeedDialog \/ DeferredError \/ BlockOnDialog \/ Crash \/ StillBlocked
  \/ Unblock \/ DebugButton

UIThread ==
  \/ SuspendThread("kStopNow")
  \/ "sysCall" \in Features /\ SuspendThread("kStopOnSysCall")
  \/ AwaitSuspend \/ ResumeThread \/ CallROM \/ CatchInSLP \/ DoReset
  \/ ExitDebugger \/ SetSuspendState
  \/ OpenDialog \/ AnswerDialog \/ UnblockDialog \/ DropDialogs
  \/ CloseDocument \/ DestroyThread \/ AwaitStopped

Next == CPUThread \/ UIThread \/ \E t \in Threads : Loop(t) \/ Guest(t)

Spec == Init /\ [][Next]_vars

----------------------------------------------------------------------------
Frames == [kind : CallKinds, old : Counters, nest : Nat, saved : States]
Stoppers == [how : StopMethods, got : BOOLEAN, on : States \cup {"none"}]

CPULabels == {"run", "inner", "call", "exec", "leave", "return", "caught", "reset",
              "sysCall", "patch", "asking", "blocked", "debug", "stopped", "crashed"}
UILabels == {"idle", "suspending", "call", "exec", "leave", "return", "caught",
             "reset", "patch", "exitDebugger", "dialog", "answered", "closing",
             "destroying", "gone"}

TypeOK ==
  /\ fStop \in BOOLEAN
  /\ fState \in States
  /\ fSuspend \in Counters
  /\ fBreakOnSysCall \in BOOLEAN
  /\ fNestLevel \in Nat
  /\ fReset \in BOOLEAN
  /\ endOfCycle \in BOOLEAN
  /\ waiting \subseteq Threads
  /\ pc \in [Threads -> CPULabels \cup UILabels]
  /\ pc["cpu"] \in CPULabels /\ pc["ui"] \in UILabels
  /\ calls \in [Threads -> Seq(Frames)]
  /\ thrown \in [Threads -> Exceptions]
  /\ stoppers \in Seq(Stoppers)
  /\ asking \in Dialogs
  /\ queued \in BOOLEAN
  /\ result \in Answers \cup {"none"}
  /\ gDocument \in BOOLEAN
  /\ snapshot \in Counters
  /\ atSysCall \in BOOLEAN
=============================================================================
