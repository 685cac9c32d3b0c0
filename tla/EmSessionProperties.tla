------------------------ MODULE EmSessionProperties ------------------------
(***************************************************************************)
(* What the session owes its clients: the assertions of its own code, the  *)
(* mutual exclusion of the guest and a stopper, the conservation of the    *)
(* requests to stop, and that neither thread waits for ever.               *)
(***************************************************************************)
EXTENDS EmSession, SequenceFolds

----------------------------------------------------------------------------
(* Fairness: both threads are scheduled, and what one has begun it goes on *)
(* with; a stopper is a block's local, so it is destroyed; queued dialogs  *)
(* are shown.  The guest's code does not stand still either: a function of *)
(* the ROM returns, at each depth, a patch makes finitely many calls, and  *)
(* the UI task reaches a system call again and again.                      *)

CPUBusy == CPUThread \/ Loop("cpu") \/ Guest("cpu")

UIBusy ==
  \/ AwaitSuspend \/ CatchInSLP \/ SetSuspendState \/ AnswerDialog \/ UnblockDialog
  \/ DestroyThread \/ AwaitStopped \/ Loop("ui") \/ Guest("ui")

Fairness ==
  /\ WF_vars(CPUBusy)
  /\ WF_vars(UIBusy)
  /\ SF_vars(ResumeThread)
  /\ SF_vars(OpenDialog)
  /\ SF_vars(BreakOnSysCall)
  /\ SF_vars(SuspendSysCall)
  /\ \A t \in Threads, depth \in 1 .. MaxCalls :
       /\ SF_vars(PatchDone(t) /\ Len(calls[t]) = depth)
       /\ SF_vars(SubroutineReturn(t) /\ Len(calls[t]) = depth)

FairSpec == Spec /\ Fairness

----------------------------------------------------------------------------
(* Safety.                                                                 *)

Stops == {i \in DOMAIN stoppers : stoppers[i].got}

(* A stopper that found the CPU thread suspended keeps it in Run's inner   *)
(* loop for as long as it lives, whatever the UI thread does meanwhile.    *)
StopExcludesGuest ==
  \A i \in Stops : stoppers[i].on = "kSuspended" => pc["cpu"] = "inner"

(* A stop on a system call leaves the guest at one, fit to be called.      *)
StoppedAtSysCall ==
  \A i \in Stops :
    stoppers[i].how = "kStopOnSysCall" /\ thrown["ui"] = "none" => atSysCall

(* Run's assertions: when it has come back from the CPU loop               *)
(* (EmSession.cpp:2427), and before it lets the guest go on (:2394).       *)
RunAssertions ==
  /\ pc["cpu"] = "run" => fState = "kRunning" /\ ~Nested
  /\ InRun /\ ~MustBlock /\ ~fStop =>
       fSuspend = NoCounters /\ ~Nested /\ fState = "kRunning"

(* The assertions of ExecuteSubroutine, GetSuspendState and SetSuspendState*)
(* (EmSession.cpp:1222, 1312, 1098, 1117): the CPU thread calls them only  *)
(* while it runs, the UI thread only while the guest is stopped or while it*)
(* runs the guest itself, at a deeper level.                               *)
AtLevel(t, level) ==
  IF t = "cpu" THEN fState = "kRunning" ELSE (level > 0) <=> (fState = "kRunning")

CallAssertions ==
  /\ \A t \in Threads :
       /\ pc[t] \in {"exec", "sysCall", "patch", "exitDebugger"} => AtLevel(t, fNestLevel)
       /\ pc[t] = "return" /\ thrown[t] = "none" => AtLevel(t, LevelBefore(t))
  /\ Free /\ Stops # {} => AtLevel("ui", fNestLevel)

(* Every request of the UI thread is counted exactly once, in the counters *)
(* or in those that a call in progress will give back, until it is lifted. *)
OldUI(frames) == [i \in DOMAIN frames |-> frames[i].old.ui]
SetAside(t) == Total(OldUI(calls[t]))

Requests ==
  Cardinality(Stops)
  + (IF pc["ui"] = "suspending" /\ Stopper.how = "kStopNow" THEN 1 ELSE 0)
  + (IF fStop THEN 1 ELSE 0)

RequestsCounted == fSuspend.ui + SetAside("cpu") + SetAside("ui") = Requests

(* The CPU thread sleeps in Run only for a reason that somebody will lift. *)
NoLostWakeup ==
  pc["cpu"] = "inner" /\ ~Awake("cpu") /\ Free /\ ~fStop => fSuspend # NoCounters

(* fNestLevel counts the calls into the ROM in progress on the two stacks. *)
NestLevelCounts ==
  fNestLevel =
    Len(calls["ui"]) + Cardinality({i \in DOMAIN calls["cpu"] : calls["cpu"][i].kind # "run"})

(* The answer is stored through a reference into the frame that asked:     *)
(* while the dialog is open that frame is there, waiting for it.           *)
AnswerReachesAsker == pc["ui"] = "dialog" => pc["cpu"] = "blocked" /\ result = "none"

----------------------------------------------------------------------------
(* Why StopExcludesGuest holds: the parts of an inductive invariant.       *)

\* Each stack has the shape its thread gives it...
StackKinds ==
  /\ \A i \in DOMAIN calls["cpu"] :
       calls["cpu"][i].kind \in IF i = 1 THEN {"run"} ELSE {"taskInfo", "patch"}
  /\ \A i \in DOMAIN calls["ui"] :
       calls["ui"][i].kind \in IF i = 1 THEN {"rom"} ELSE {"patch"}

\* ... and each label its stack.
StackLabels ==
  /\ pc["cpu"] \in {"call", "exec", "leave", "return", "sysCall", "patch", "debug"} =>
       calls["cpu"] # <<>>
  /\ pc["cpu"] \in {"asking", "blocked"} /\ asking # "display" => calls["cpu"] # <<>>
  /\ pc["cpu"] = "return" => Len(calls["cpu"]) > 1
  /\ pc["ui"] \in {"call", "exec", "leave", "return", "patch"} => calls["ui"] # <<>>
  /\ calls["ui"] # <<>> => pc["ui"] \in {"call", "exec", "leave", "return", "patch", "reset"}
  /\ pc["ui"] = "suspending" => stoppers # <<>>

StackShape == StackKinds /\ StackLabels

\* Features whose exceptions and races with dialogs the argument excludes.
Calm == Features \cap {"errors", "dialogs", "softReset"} = {}

NoException ==
  /\ \A t \in Threads : thrown[t] = "none" /\ pc[t] # "caught"
  /\ pc["cpu"] \notin {"asking", "blocked", "debug", "crashed"}

NoNegativeRequest ==
  /\ fSuspend.ui >= 0
  /\ \A t \in Threads : \A i \in DOMAIN calls[t] : calls[t][i].old.ui >= 0

\* What each frame will restore.
CPUFrames ==
  \A i \in DOMAIN calls["cpu"] :
    /\ calls["cpu"][i].saved = "kRunning"
    /\ i = 1 => calls["cpu"][i].old.ui = 0
    /\ i > 1 => calls["cpu"][i].nest = i - 2

UIFrames ==
  \A i \in DOMAIN calls["ui"] :
    /\ calls["ui"][i].saved = IF i = 1 THEN "kSuspended" ELSE "kRunning"
    /\ calls["ui"][i].nest = i - 1

FramesRestore == CPUFrames /\ UIFrames

Depth(t) == Len(calls[t])

LevelIsDepth ==
  fNestLevel = IF calls["cpu"] = <<>> THEN Depth("ui") ELSE Depth("cpu") - 1

\* The CPU thread runs the guest: the UI thread neither holds nor calls it.
CPUAtWork ==
  /\ calls["cpu"] # <<>> <=> pc["cpu"] \notin {"run", "inner", "stopped"}
  /\ pc["cpu"] = "reset" => Depth("cpu") = 1
  /\ pc["cpu"] \notin {"inner", "stopped"} => fState = "kRunning"
  /\ pc["cpu"] # "inner" => Stops = {} /\ calls["ui"] = <<>>
  /\ pc["cpu"] = "stopped" => fStop

\* The CPU thread waits: its state says so, for a reason.
CPUWaits ==
  pc["cpu"] = "inner" /\ calls["ui"] = <<>> =>
    /\ fState \in {"kRunning", "kSuspended"}
    /\ fState = "kSuspended" => fSuspend # NoCounters

\* Where the requests of the stops in force are: set aside by the first call.
RequestsKept == IF calls["ui"] = <<>> THEN fSuspend.ui ELSE calls["ui"][1].old.ui

StopsInForce ==
  /\ RequestsKept >= Cardinality(Stops)
  /\ Stops # {} /\ calls["ui"] = <<>> => fState = "kSuspended"
  /\ pc["ui"] \in {"reset", "exitDebugger"} => Stops # {} /\ calls["ui"] = <<>>
  /\ pc["ui"] = "exitDebugger" => snapshot.ui >= Cardinality(Stops)
  /\ calls["ui"] # <<>> =>
       /\ Stops # {}
       /\ fState = IF Depth("ui") = 1 /\ pc["ui"] \in {"call", "return"}
                     THEN "kSuspended" ELSE "kRunning"

\* A request to stop now, until it is granted, is in the CPU thread's hands.
StopRequested ==
  pc["ui"] = "suspending" =>
    /\ Stops = {}
    /\ Stopper.how = "kStopNow" =>
         fSuspend.ui > 0 \/ \E i \in DOMAIN calls["cpu"] : calls["cpu"][i].old.ui > 0

Closing ==
  /\ fStop => pc["ui"] \in {"destroying", "gone"}
  /\ pc["ui"] \in {"closing", "destroying", "gone"} => stoppers = <<>>

StopDiscipline ==
  /\ StackShape /\ NoException /\ NoNegativeRequest /\ FramesRestore /\ LevelIsDepth
  /\ CPUAtWork /\ CPUWaits /\ StopsInForce /\ StopRequested /\ Closing

----------------------------------------------------------------------------
(* Liveness.                                                               *)

(* Once the UI thread leaves the session alone, the guest runs on.         *)
EmulationGoesOn == <>[](stoppers = <<>> /\ gDocument) => []<>Executing("cpu")

(* Closing the document ends: DestroyThread does not wait for ever.        *)
CloseCompletes == pc["ui"] = "closing" ~> pc["ui"] = "gone"

(* A dialog of the CPU thread is answered.                                 *)
DialogAnswered == pc["cpu"] = "blocked" ~> pc["cpu"] # "blocked"

----------------------------------------------------------------------------
(* The session implements StopResume: stops and the guest exclude each     *)
(* other, and whoever asks for a stop gets an answer.                      *)

Abstract == INSTANCE StopResume WITH
  asked <- pc["ui"] = "suspending",
  granted <- Cardinality(Stops),
  running <- pc["cpu"] # "inner"

StopsAreAnswered == Abstract!FairSpec
=============================================================================
