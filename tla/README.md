# TLA+ models of Poser

Poser (the Palm OS Emulator, here with Sony's extensions) runs a 68K program - the
*guest* - on one thread and its windows, sockets and debugger on another.  Most of its
lines are tables: opcodes, registers, ROM calls, file formats.  Its logic, and nearly all
that can go wrong in an order nobody tried, is in a few classes that the two threads share
or that act on the guest between two instructions: the session, the condition variables
under it, the queues of the user's input, the scripts that wait for the guest, the Gremlins
that test it, and the search for the events that made it fail.  This directory holds models
of these six, the properties they should have, the runs of TLC that check them, and TLAPS
proofs of the most important.

## 1. The system

The *CPU thread* (`EmSession::Run`) executes opcodes; the *UI thread* handles menus, mouse,
sockets and dialogs.

| Component | State it keeps | Operations | Meets the others by | What makes it correct |
|---|---|---|---|---|
| Session: thread control (`EmSession`) | `fState`, `fStop`, `fSuspendState`, `fBreakOnSysCall`, `fNestLevel`, the dialog's result | Suspend/ResumeThread, Run, ExecuteSubroutine, CallCPU, BlockOnDialog, Reset, DestroyThread, Schedule* | lock, condition variable, flags | a granted stop excludes the guest; no request is lost; nobody waits for ever; its own assertions hold |
| CPU loop (`EmCPU68K`) | `regs.spcflags` | Execute, ExecuteSpecial, CycleSlowly, CheckAfterCycle, ExecuteStoppedLoop | flags set by both threads | a request is noticed; a nested loop ends only for its own reasons |
| System calls, ROM calls (`EmPalmOS`, `EmSubroutine`, `ATraps`) | stack of calls | HandleSystemCall, Call | nested CPU loops | what was set aside on entry is given back on return |
| Errors (`ErrorHandling`, `EmException`) | the pending error | HandleDialog, the handlers | exceptions, dialogs, Hordes, EmMinimize | levels and counters are restored on every way out |
| Actions, document (`EmAction`, `EmDocument`) | queue of actions, `gDocument` | DoAll, DeleteAll, DoReset, DoSoftReset, HandleKey, close | queued dialogs, stoppers | each dialog is answered, once, to a frame still there |
| Condition variables (`omnithread/nt.cpp`) | a list of waiters per condition, a semaphore per thread | wait, timedwait, signal, broadcast | the session's and the queues' locks | no signal is lost, none kept for a later wait |
| User input (`EmWindow`, `EmSession`, `EmThreadSafeQueue`, `PuppetString`) | what the window tracks; pen, key and button queues; the throttle | HandlePenEvent, Post*Event, PrvWakeUpCPU, Get, ButtonEvent | a wake-up of the guest under a stopper | no event is slept over, no press without its release |
| RPC, SLP, sockets (`EmRPC`, `SLP`, `SocketMessaging`, `HostControl`) | the waits, their timeouts, the guest's external suspension | HostSignalWait, -Send, -Resume, SignalWaiters, Idle, EventCallback | both threads walk one vector | each wait gets one answer; the guest is suspended for somebody |
| Gremlins (`Hordes`, `CGremlins`) | the range, the depth, who halted, files, requests to the session | New, PostFakeEvent, StopEventReached, ErrorEncountered, NextGremlin, Stop, Step, Resume | end-of-cycle requests, `EmEventPlayback` | Gremlins take turns, each from where it was; their events are recorded |
| Event recording, minimization (`EmEventPlayback`, `EmMinimize`) | the events, their mask, the stack of ranges, the pass | Start, ErrorOccurred, NoErrorOccurred, Stop, ... | saved sessions, the guest's calls for events | the error is kept; nothing left over; it ends |
| Debugger (`DebugMgr`, `SystemPacket`) | breakpoints, packets | EnterDebugger, ExitDebugger | stoppers, counters | no counter is overwritten |
| Patches (`EmPatchMgr`) | tables of patches | install, dispatch | ROM calls | head, ROM and tail run in order |
| Heaps, banks, registers, UART (`MetaMemory`, `EmHAL`, ...) | the emulated hardware | reads and writes | the CPU loop | data; no concurrency |
| Files, logs, preferences (`ChunkFile`, `Logging`, `PreferenceMgr`) | bytes | read, write | - | pure algorithms |
| ROM transfer, installing, NetLib, windows, Sony libraries | their own | - | stoppers, calls | I/O mostly |
| Gzip, JPEG, UAE tables, Palm headers | - | - | - | vendored or generated |

`PROJECT.json` lists each with its sources and what of it is modelled, and under `hazards`
each place where an order nobody tested may bite, at its line, with the property that watches
it.

What is hard here:

* **Interleaving.** `SuspendThread` waits in a loop while `Run`, nested calls and resets
  change the very counters it waits on; the two threads walk, and shrink, one vector of
  waits; an event is posted between the guest's look at the queue and its sleep.
* **Nesting.** `ExecuteSubroutine` sets the counters aside, runs the CPU loop in place, and
  merges what it set aside with what arrived meanwhile - also on the UI thread, while the CPU
  thread waits in its inner loop and is woken by the broadcasts.
* **Exceptions and failed sends** unwind calls without the second half of that bookkeeping.
* **Dialogs**: the CPU thread gives up the lock in the middle of an opcode until the UI
  thread has answered, and counts as stopped meanwhile.
* **Shutdown, reset, disconnection** change the session under both threads.
* **Bookkeeping across reloads.** A horde and a minimization load saved sessions under their
  own feet, and keep indices, depths and numbers that must fit what was loaded.

## 2. Modules

| Module | Contents |
|---|---|
| `StopResume` | What a client of the session is promised, without threads: it asks, is granted or refused, and while a stop is in force the guest does not run. |
| `EmSession`, `EmSessionProperties` | The session and everything that acts on it; its fairness, properties, inductive invariant and the mapping to `StopResume`. |
| `ConditionVariable` | What `omnithread.h` promises of a condition variable. |
| `OmniCondition` | How `nt.cpp` builds it from lists and semaphores, and the mapping. |
| `UserInput` | The user's mouse and keys on their way to a guest that dozes or sleeps. |
| `EmRPC` | Scripts that wait for signals. |
| `Hordes` | A horde of Gremlins and its requests to the session. |
| `EmMinimize` | The search for the fewest events that make a guest fail. |
| `SequenceFolds` | Filter, sum and match of a sequence, for the models above, in a form that can be proved about. |
| `MC...` | For TLC: the values of the constants, and one `.cfg` per run. |
| `...Proofs` | The theorems (section 5). |

The modules meet at narrow places, and each takes from the others what they promise.
`EmSession` uses an ideal condition variable; `OmniCondition` shows the code's to be one.
`UserInput` and `EmRPC` ask for a stop and are granted or refused it, which is `StopResume`.
`Hordes` and `EmMinimize` act within the cycle of the CPU thread, which `EmSession` shows
to be interrupted by nobody with a stop; what they ask of the session at the end of the cycle
is a set of `requests`, or `loadState`.  `Hordes` produces the recording that `EmMinimize`
begins with.

### EmSession

An action is one critical section under `fSharedLock`, or one step of unlocked code up to
the next access to what is shared.  `pc[t]` says where each thread is; `calls[t]` is the
stack of CPU loops it is in, one record per activation of `ExecuteSubroutine` or of
`CallCPU` from `Run`, with that function's locals: `old` (`oldState`), `nest` (what
`EmValueChanger` restores in `fNestLevel`) and `saved` (what `CallCPU` restores in `fState`).
`waiting` holds the threads inside `fSharedCondition.wait ()`; `Broadcast` empties it.
`stoppers` are the UI thread's live `EmSessionStopper` objects; `got` is `fStopped`.  `on`
is for the properties: the `fState` the stop was granted in.

| Code | Actions |
|---|---|
| `EmSession::Run`: the inner loop, the call, the end, the handlers | `RunSuspend`, `RunCall`, `RunStop`, `Catch` |
| `ExecuteSubroutine`, `CallCPU` | `BeginCall`, `CallCPU`, `LeaveCPU`, `ReenterCall`, `ReturnFromCall`, `Unwind` |
| `EmCPU68K::Execute`, `ExecuteSpecial`, `CycleSlowly` | `CycleSlowly`, `ExecuteSpecial`, `ExecuteSpecialNested`, `ExecuteReset` |
| `EmSession::Reset` | `Reset`, after the caller has reset the other subsystems without the lock |
| `EmPalmOS::HandleSystemCall` | `BreakOnSysCall`, `SuspendSysCall`, `IgnoreSysCall`, `WakeUITask` |
| the guest: patches, TRAP $C, HostSignal*, breakpoints, errors, SysReset | `PatchCall`, `PatchDone`, `SubroutineReturn`, `SignalSend`, `SignalResume`, `Breakpoint`, `NestedError`, `ScheduleReset` |
| `Errors::HandleDialog`, `BlockOnDialog` | `NeedDialog`, `DeferredError`, `BlockOnDialog`, `StillBlocked`, `Unblock`, `DebugButton`, `Crash` |
| `SuspendThread`, `ResumeThread` (by `EmSessionStopper`) | `SuspendThread`, `AwaitSuspend`, `ResumeThread` |
| ROM calls of the UI thread, SLP, reset, debugger | `CallROM`, `CatchInSLP`, `DoReset`, `ExitDebugger`, `SetSuspendState` |
| the queue of actions, `EmActionDialog` | `OpenDialog`, `AnswerDialog`, `UnblockDialog`, `DropDialogs` |
| closing the document, `DestroyThread` | `CloseDocument`, `DestroyThread`, `AwaitStopped` |

`Features` says which of the optional operations a run (or a theorem) admits:

| Feature | Admits |
|---|---|
| `sysCall` | `kStopOnSysCall`, and calls into the ROM under such a stop |
| `patches` | patches and HostControl functions that call back into the ROM |
| `errors` | errors inside nested calls, thrown to whoever called |
| `dialogs` | dialogs of the CPU thread |
| `signals`, `appResume` | HostSignalSend and, under RPC or by an application itself, HostSignalResume |
| `debugger` | breakpoints, an external debugger |
| `reset`, `softReset` | resets by the guest or under a stopper; the menu's Soft Reset, without one |
| `dropDialogs` | an action that fails and takes the queue with it |
| `close` | closing the document |

They exist because some of these operations break the others' guarantees (section 4): a
property is checked with as many features as it survives, and a violation with as few as
show it.

Abstractions.  Which opcode, function, error or packet it is does not matter; the guest's
code is a free choice among what it can do to the session.  `kStopOnCycle` has no caller
and the suspension by a timeout none that runs, so neither counter is modelled; counters
are unbounded integers, though in the code they are fields of 4 bits (1 for the flags).
`Sleep`, and the build without threads, are left out.  The window between storing a
dialog's answer and the broadcast is kept, since no lock covers it.

### OmniCondition

One action per critical section or call of the operating system.  `mutex`, `list` and `crit`
belong to a condition; `condWaiting` and `semaphore` to a thread, and every condition the
thread uses shares them.  `Enlist`, `Release` (the mutex), then `Awake` (the semaphore) or
`Expire` (the time), then `GiveUp` or `Owed` (timed out, but signalled meanwhile), then
`Relock` are `wait` and `timedwait`; `Signal`, and `BeginBroadcast`, `BroadcastNext`,
`EndBroadcast`, the other side.  A signal may be sent with the mutex or without.

### UserInput

`EmWindow::HandlePenEvent` is `MouseButton` and `Track`, `EmDocument::HandleKey` is
`HandleKey`; what they post goes to queues under `PrvCanBotherCPU`, and a posted pen or key
event makes the UI thread enter `PrvWakeUpCPU`, granted or refused its stop.
`PuppetString` is the guest when it is about to wait for an event, `WaitEnds` that it was
woken, `CycleSlowly` the poll of the button queue behind `HasRecentButtonEvent`, and
`ExecuteStoppedLoop` a sleeping device whose Power button Gremlins press.  A pen event that
moves nothing is merged, as in the code.  Places and buttons are opaque.

### EmRPC

`gSLPTimeouts` is the vector of waits.  `walk` says who holds `gMutex` and goes through it
(the CPU thread for an idle guest or a sent signal, the UI thread for timeouts or at the end),
`iter` where it is: one entry per action, so that the UI thread's `Disconnect`, which erases
without the mutex, can come between two.  A send that finds its connection closed calls back
at once, within the walk, as in `CTCPSocket`, and tells its caller of the failure or does not.  `due` is what
the walk's one reading of the time makes of each wait, and `external` is
`fSuspendByExternal`.  Packets, ports and framing are left out.

### Hordes

`info` is the dialog's `HordeInfo`, with -1 for "forever".  A Gremlin's run is the sequence
`ran` of its events (pairs of its number and its counter), so that what a saved state, an
event file and the recording hold can be compared.  `requests` is the set of the session's
`fHorde...` flags, and each is handled by an action that comes before the guest's next one.
Errors, resets and debugger stops may come at any event, files may fail to load, and the
user may stop, step and resume.

### EmMinimize

The functions of the search call each other; `call` is the one about to be entered, so that
the user's `Stop` may come between any two.  Two ways end a replay, as in the code: the guest
fails (`ErrorOccurred`), or asks for an event when none is left (`NoErrorOccurred`).  The guest
is a set of patterns of events, each of which makes it fail; in a replay it follows the pen
with `GetPen` or takes pen ups with `GetEvent`.  Some events may turn the device off (`OffEvents`):
it then falls asleep and is woken up, as often as the guest comes to such an event, and the list
is rewound each time without the session being loaded; the user's Stop may come then, too.  `calm`
remembers that a device slept or that an instruction failed twice, after which some properties no
longer hold.

## 3. What is checked

### Session

* `StopExcludesGuest`: a stopper that found the CPU thread suspended keeps it in `Run`'s
  inner loop as long as it lives.
* `StoppedAtSysCall`: a stop on a system call leaves the guest at one, even if another
  stopper, a reset or a signal comes in between.
* `RequestsCounted`: every request of the UI thread is in `fSuspendByUIThread`, or in the
  counters that a call in progress will give back, exactly once.
* `NoLostWakeup`: the CPU thread sleeps only while some counter gives it a reason.
* `NestLevelCounts`: `fNestLevel` is the number of calls on both stacks.
* `AnswerReachesAsker`: a dialog's answer is written, without a lock, to a local of a frame
  that still waits for it.
* `RunAssertions`, `CallAssertions`: the assertions in the code of `Run`,
  `ExecuteSubroutine`, `GetSuspendState` and `SetSuspendState`.
* `StopsAreAnswered`: `EmSession` implements `StopResume!FairSpec` (`asked` is a thread in
  `SuspendThread`, `granted` the number of live granted stoppers, `running` that the CPU
  thread is outside the inner loop); that includes that whoever asks for a stop is answered.
* `EmulationGoesOn`: once there is no stopper and the document stays open, the guest executes
  again and again.  `CloseCompletes`, `DialogAnswered`: closing ends, dialogs are answered.

### Condition variables

* `ListMatchesFlags`: a thread is on the list of the condition it waits on, once and on no
  other, as long as its flag says so.
* `SemaphoreInStep`: a semaphore holds the one signal its thread is owed, and nothing that
  would end its next wait early.
* `IsConditionVariable`: the code implements `ConditionVariable`.  `WaitsEnd`: whoever is
  signalled returns, and is told so even if its time ran out.

### Input, scripts

* `NoEventSleptOver`: no guest dozes over an event without a wake-up made or on its way.
* `NothingStaysPressed`: with the mouse up and the queues empty nothing is down.
* `InputIsTaken`: a guest that stays awake and is left alone takes all input.
* `WaitersAreListed`: a script that waits has one wait in the vector that is still to be
  answered, and only such scripts have one.
* `NoDanglingSocket`: no wait holds a socket that is gone.
* `SuspendedForAScript`: the guest is not suspended with every script waiting.
* `TimedWaitsEnd`, `WaitsEnd`: waits end, those without a timeout if the guest comes back.

### Gremlins, minimization

* `OneRequest`: the assertions at the end of a cycle, that one request excludes the others.
* `SuspendedInStep`: before and after the current Gremlin, the others are suspended at the
  depth of this round or of the last, so that there is a file to go on from.
* `RightGremlinRuns`: the Gremlin that makes events is the horde's current one, not halted.
* `NoEventLost`: what a run went through is in its recording, in order.
* `EndsWhenDone`, `HordeEnds`: a horde ends, and not before each Gremlin is done.
* `StackCoversRest`: the ranges on the stack follow each other to the end of the list, and
  nothing after the one under test has been left out.
* `ErrorKept`: the events not discarded still make the guest fail.
* `ResultIsMinimal`: none of the events of the result can be left out.
* `LastPassEndsInError`: the comment of that wording in `EmMinimize.cpp`.
* `SearchEnds`: the search ends, with or without the user's Stop, provided that the device
  sleeps finitely often.  Without that premise it need not end (section 4).

### What the code says of itself and does not keep

Each is violated by what the code does; section 4 says how.

* `DialogAnswered` when actions may be dropped (`session_v_drop`).
* `NoEventsAtRoot`: the root state of a horde has no events in the recording.
* `SignalForgetsNobody`: a signal that finds a connection closed makes nobody else's wait go.

### Runs

| Run | Instance | States | Shows |
|---|---|---|---|
| `session_core` | sysCall, patches, signals, debugger, reset; 2 stoppers, 3 calls | 30 814 | the safety of stops and calls; no deadlock |
| `session_live` | sysCall, patches, close; 2 stoppers, 2 calls | 379 | the refinement of `StopResume` with its liveness, the guest goes on, closing ends |
| `session_dialogs` | sysCall, patches, dialogs, close; 1 stopper, 2 calls | 2 405 | dialogs at any level are answered, and the level counts |
| `session_edges` | dialogs, close, dropDialogs, softReset, appResume, sysCall, errors, reset; 2, 2 | 313 467 | `AnswerReachesAsker`, whatever goes wrong around it |
| `omni` | 3 threads, 1 condition | 31 024 | the lists and semaphores, the refinement, waits end |
| `input` | 2 places, 2 buttons, 3 posts | 402 450 | the way of the user's input |
| `rpc` | 3 scripts | 139 633 | waits, signals, timeouts and disconnections |
| `hordes` | 8 hordes of 1 to 3 Gremlins | 909 713 | turns, recordings, the end |
| `minimize` | 3 recordings of 6 events, guests with 1 or 2 patterns, no event or some that turn the device off, `kMaxRange` 2 | 136 678 | the search |
| `session_v_drop`, `rpc_v_signal`, `hordes_v_root` | as little as shows it | - | the disagreements of section 4 |

Deadlock is checked in `session_core`, where the system never stops.  Elsewhere it may: a
closed document, a search or a horde that is done, a user with no posts left are ends, and
after some events of section 4 one thread waits for good.

Bounds.  `MaxStoppers` = 2 lets a stopper be made while another of either kind holds, and be
destroyed before it.  `MaxCalls` = 3 gives the CPU thread its own loop, a call, and a call
inside that; the code treats deeper levels alike, by the same record.  `MaxCount` = 1 bounds
the external and the debugger's counters in both directions: what matters is whether they
are negative, zero or positive.  Three threads let one time out while another signals a
third.  Three scripts give a walk a first wait, one in the middle and a last.  `kMaxPosts` = 3
fits a press, a move and a release, or a key among them; each queue then holds more than
one event.  The hordes leave each depth out in turn, meet the last depth at a switch,
between two and before the first, and `kMaxCounter` = 7 (events of a Gremlin without limit),
`kMaxPens` = 1 and `kMaxUser` = 1 are enough for two rounds with one disturbance.  Six events
with `kMaxRange` = 2 (1024 in the code) let a range be split, tested as a whole because it
is small, and split again.  The theorems have no such bounds.

Each property is broken by a mutant of the model - a dropped guard, a forgotten broadcast,
a number off by one - recorded in `PROJECT.json`; the mutated operators stand beside the
originals, marked "Mutant".

### Fairness

* `EmSession`: the operating system schedules both threads (`WF` of what each can do on its
  own: `CPUBusy`, `UIBusy`).  A stopper is a local of a block, so it is destroyed; a queued
  action is run at idle time, which comes back between stoppers (`SF` of `ResumeThread` and
  `OpenDialog`).  Of the guest it is assumed that a function of the ROM returns, whatever
  its depth, that a patch makes finitely many calls, and that the UI task reaches system
  calls again and again: without that, `kStopOnSysCall` and nested calls wait for ever in
  the code, too.  `SF` rather than `WF`, since the guest may be interrupted at each of these.
* `OmniCondition`: threads run, none is starved of a lock that is freed again and again, and
  callers give up their mutex (`SF` of `Proceed` and `Unlock`).
* `UserInput`: the UI thread goes on once its stop is granted or refused, the guest comes back
  to wait and is woken, cycles slowly, and time passes.  `InputIsTaken` speaks of behaviours
  that leave the guest alone from some point on.
* `EmRPC`: a walk goes on (`WF`), the UI thread idles (`SF`, since the mutex may be taken), time
  passes.  Nothing of scripts, and of the guest only in `WaitsEnd`, which has it as a premise.
* `Hordes`: the end of a cycle comes, and the guest comes back for its next event.
* `EmMinimize`: the CPU thread runs (`WF` of `CPU`, all it does, falling asleep at an event that
  turns the device off and waking up included; the user's Stop is not fair).

## 4. What the code does not keep

Three runs look for, and find, a disagreement between the code and its own comments (`findings`
quotes them):

* `session_v_drop`: a failing action deletes the queue with the dialog the CPU thread waits
  for; `BlockOnDialog` waits on.
* `rpc_v_signal`: `SignalWaiters` finds the connection of one script closed; the callback
  erases its wait, the walk steps over the next one, and `clear` drops that one unanswered.
* `hordes_v_root`: a Gremlin that starts from the root state has the events of its
  predecessors in its recording, which is not cleared when one gives way to the next.

The following were met while modelling.  They limit what the properties can say, so each is
excluded where it is named, by a feature, by a variable that remembers it (`calm`, `strayed`,
`refused`, `abandoned`, `hung`, `byUser`) or by leaving the operation out.

Session:

* `kStopNow` is granted while the CPU thread is "blocked" on a dialog that is already answered
  (`EmSession.cpp:958`, against "Suspend now, no matter what." in `EmSession.h:147`); the guest
  then runs under the stopper.  If it makes a ROM call, the stopper's request is set aside
  there, its release finds nothing to decrement, and the request comes back afterwards: the
  CPU thread stays suspended.  `EmulationGoesOn` and `CloseCompletes` are therefore checked
  without dialogs, and the theorems on stops do without them.
* An exception that leaves `ExecuteSubroutine` drops the counters saved on entry
  (`EmSession.cpp:1230`).  In a patch's call, the request of a UI thread that waits is lost,
  against `SuspendThread`'s assertion when it wakes up (`EmSession.cpp:886`); in a call that the
  UI thread makes for a packet (`SLP.cpp:340`), its own request is, and the CPU thread leaves the
  inner loop under the stopper, against `Run`'s assertion (`EmSession.cpp:2396`) (`errors`).
* Soft Reset resets the session with no stopper (`EmDocument.cpp:879`), perhaps during a call,
  against `Reset`'s assertion that none is in progress (`EmSession.cpp:438`).
* `Reset` clears `fBreakOnSysCall` under a UI thread that waits for a system call
  (`EmSession.cpp:487`) without a broadcast, so the loop that would set it again
  (see the comment at `EmSession.cpp:850`) is not woken.
* HostSignalResume and HostSignalWait by an application with nothing to resume take the
  external counter to -1 (`EmSession.cpp:2040`); a nonzero counter suspends, and nobody lifts it.
* The document's destructor clears `gDocument` before it stops the CPU thread, which may need
  a dialog in between and then dereferences it (`Crash`, part of `session_edges`).
* `NestLevelCounts` fails with soft resets, with errors in nested calls, and, with dialogs, when
  the session is reset or the UI thread calls the ROM under a stop that was granted while the CPU
  thread was blocked.

Minimization:

* A device that a replayed event turns off is woken up at once, and waking it up rewinds the list
  (`EmCPU68K.cpp:808`, `ReplayEvents (true)`) without loading the session or changing the mask.
  If the event turns the device off each time, no replay ends, and the search goes on for ever
  unless the user stops it, against "Minimization proceeds with this iteration until it has a set
  of events it can no longer reduce." (`EmMinimize.cpp:108`).  The model has it; `SearchEnds`
  has as its premise that the sleeping ends.
* Stop, pressed between `ErrorOccurred` and `StartAgain`, turns replaying off, and the rest
  of the search turns it on again (`EmMinimize.cpp:428`: "Stop the entire minimization process.").
  `SearchEnds` holds; the guest gets the events of one more replay.
* A second error in the instruction of the first disables all events not yet played; waking a
  device that sleeps rewinds the list without loading the session, and may undo a Stop.
  Both make `calm` false.
* A guest that follows the pen with EvtGetPen is given a second pen up, since
  `ReplayGetPen` does not record that the pen is up; such guests with patterns over pen ups
  are excluded.
* `ErrorOccurred` calls `InitialLevel` with `fgMutex` held, which takes it again.  A
  critical section of Windows allows that; the model takes it as one action.

Hordes:

* An event posted after a Gremlin's state was saved, before it gives way, is in the event file
  but not in the state, and so there twice once the Gremlin has gone on from it (`NoEventLost`
  asks that none is missing, in order, not that none is too many).
* `Step` lets two events pass, not one; `Resume` sets the limit to the final one.
* After a horde has ended, the current Gremlin need not be the one in the device, and stepping
  it writes its events into another's file (`Undisturbed` excludes it).
* A Gremlin without limit that is stepped and then fails leaves `NextGremlin` in a loop
  (`hung`).
* A switching depth of 0 or -1 with a last depth ends the horde at the first error (`HasDepth`).
* The flags of halted Gremlins are saved for numbers below MAXGREMLINS only; "Continue" after
  an error, Autosave and an error deferred to the end of a cycle that has a request are left out.

Scripts:

* A write that finds the connection broken returns no error, so that a signal to nobody may
  suspend the guest; a script that goes away after its signal leaves it suspended
  (`abandoned`).
* Connections are closed, and waits erased, on the UI thread without the mutex under which the
  CPU thread walks (`calm`); past the end of the vector (`undefined`) nothing is said.
* `RPC::Idle`, like `SignalWaiters`, may find the connection closed to which it answers a
  timeout: the callback erases its wait, and `Idle` then erases what its iterator points to by
  now, the wait of another script (or the end of the vector; `EmRPC.cpp:158`).
* There is one counter for all signalled scripts, so the first to finish resumes the guest
  under the others.
* A packet that comes while a stop is refused is dropped without a reply.

Input:

* A touchscreen press whose release comes when the device has turned off is never released:
  the function returns early and the window keeps tracking (`EmWindow.cpp:315`).  A release
  when Gremlins have started in between is dropped.  Both make `strayed` true.
* A key typed while the device sleeps asks for a stop at a system call, which a sleeping guest
  does not make: the UI thread waits in `PrvWakeUpCPU` until the device wakes.
* When the stop for a wake-up is refused, the event stays until something else wakes the
  guest (`refused`).
* Keys overtake pen events, since each queue is looked at in turn.
* A reset by the system keeps the queues and forgets the last pen event.  The
  button events posted by a hard reset, and Sony's own controls, are left out.

## 5. What is proved

For every value of the constants, under the named assumptions:

| Module | Theorem | Says |
|---|---|---|
| `EmSessionProofs` | `TypeCorrect` | `[]TypeOK`, for all features and bounds |
| | `AnswersReachTheAsker` | `AnswerReachesAsker`, for all features and bounds |
| | `StopsAreDisciplined` | the inductive invariant, for `Calm` features |
| | `StopsExcludeTheGuest`, `RunIsAsserted`, `CallsAreAsserted` | `StopExcludesGuest`, `RunAssertions`, `CallAssertions` (`Calm`) |
| `EmSessionWaitProofs` | `ImplementsStopResume` | the refinement of `StopResume!Spec` (`Calm`) |
| | `NobodySleepsForNothing`, `SysCallStopsAreFit` | `NoLostWakeup`, `StoppedAtSysCall` (`Calm`) |
| | `RequestsAreCounted`, `LevelCountsTheCalls` | `RequestsCounted`, `NestLevelCounts` (`Calm`) |
| `OmniConditionProofs` | `ConditionsAreTyped` | `TypeOK` |
| | `ListsAreRight`, `SemaphoresStayInStep` | `ListMatchesFlags`, `SemaphoreInStep` |
| | `ImplementsConditionVariable` | the refinement of `ConditionVariable` |
| `UserInputProofs` | `InputIsTyped`, `NothingIsSleptOver`, `NothingIsStuck` | `TypeOK`, `NoEventSleptOver`, `NothingStaysPressed` |
| `HordesProofs` | `RequestsExclude`, `RunnerIsRight` | `OneRequest`, `RightGremlinRuns` |
| | `NothingIsLost` | `NoEventLost` |
| | `GremlinsTakeTurns`, `HordeIsDone` | `SuspendedInStep`, `EndsWhenDone`, when `DepthsAreMeant` |
| `EmRPCProofs` | `RPCIsTyped`, `NobodyIsForgotten` | `TypeOK`, `WaitersAreListed` |
| | `NoSocketDangles`, `SuspensionHasItsScript` | `NoDanglingSocket`, `SuspendedForAScript` |
| `EmMinimizeProofs` | `MinimizationIsTyped`, `RangesCoverTheRest` | `TypeOK`, `StackCoversRest` |
| | `TheErrorIsKept`, `TheResultIsMinimal`, `TheLastPassFails` | `ErrorKept`, `ResultIsMinimal`, `LastPassEndsInError` |
| `SequenceFoldsProofs` | lemmas | what the folds of `SequenceFolds` return, for every sequence |

Assumptions.  `FeaturesAssumption` and `BoundsAssumption` in `EmSession` and, for stops,
`Calm`: no `errors`, `dialogs` or `softReset`, whose effects section 4 shows.
`NoThreadAssumption` (nobody is not a thread), `ButtonsAssumption` and `BoundAssumption`
(places and buttons differ; the bound is a number), `RecordingsAssumption` and
`kMaxRangeAssumption` (a recording is a sequence of kinds of events; a range to test has a
positive size), `InfosAssumption` (a horde has a first and
a last number, in this order), `UserAssumption` and `ClientsAssumption` (scripts are finitely
many).  Two theorems on hordes assume `DepthsAreMeant`: the switching depth and the last depth
are numbers or without limit.  The dialog gives only such ones (`EmStructs.h:320`: positive,
or -1 for none) and `Hordes::New` turns a last depth of 0 into none (`Hordes.cpp:197`); the host
functions pass on what the guest says, and a negative depth other than -1 is outside.

**Session types.**  `TypeOK` is not inductive alone - a frame is read from a stack that must
not be empty - so `StackShape` (the kind of each frame, and which labels need a stack) is
proved with it.

**Answers.**  `DialogHeld` says that, with a document, a question that is still queued or shown
has the CPU thread blocked at it and no answer yet, and that the UI thread is out of its loop
exactly when the document is gone.  It needs no `Calm`.

**Stops.**  `StopExcludesGuest` says where the CPU thread is, and nothing of why.  The reason:
the inner loop is left only when `fNestLevel` is 0 and no counter is set (`MustBlock`).  So the
invariant `StopDiscipline` tracks where the requests of the stops in force are.  With no call of
the UI thread they are in `fSuspend.ui`, at least one for each granted stop (`StopsInForce`, by
cardinality); with one, in the `old` counters of its first frame (`RequestsKept`), and then
`fNestLevel` equals the depth of the UI thread's stack (`LevelIsDepth`) and the CPU thread
cannot leave either.  That a return restores the level and `fState` is `FramesRestore`; that
a request still waiting is not granted against a running CPU is `CPUAtWork` and
`StopRequested`; that a debugger's `SetSuspendState` does not overwrite the stops is in
`StopsInForce`, by the counters it read under the same stopper.  One lemma per action shows
the step; `WorkKeeps` and `UIKeeps` serve all the actions that only move a thread on.

**Refinement.**  Only `SuspendThread`, its loop and `ResumeThread` change the stoppers or the
question.  `LoopAnswers` shows that a turn of the loop asks, goes on asking, is refused or is
granted, and that the guest is halted whenever it is granted, since `fState` is then
`kSuspended` and `CPUAtWork` puts the CPU thread in its inner loop.  Every other step at most
moves the guest, and `GuestMoves` shows that it starts only when no stop is in force, by
`StopDiscipline` in the new state.

**Sleep.**  `CPUWaits` says that a state of `kSuspended` has a reason in the counters;
`WaitsSuspended` adds that a sleeping CPU thread has set that state, unless the UI thread is in
a call, since each step that would end the suspension broadcasts.

**System calls.**  `AtSysCall` follows `fSuspendBySysCall` as it moves.  Outside any call the
CPU thread sets it at a system call, with `END_OF_CYCLE`, so that the loop ends before another
opcode (`CPUAtSysCall`); its outermost call never sets it aside, so that none can give it back
later, when the guest has gone on, and a signal sent inside a call is not folded out of it.  A call of the UI thread sets it aside in its first frame
(`SysKept`), and the nested loop leaves the guest's own place alone.  A debugger's snapshot may
bring it back, but under the stopper that took it; a reset clears it, but no stop on a system
call is in force then (`StopsAtSysCall`).

**Condition variables.**  The invariant is `ListMatchesFlags` with `SemaphoreInStep` and the
places where a thread holds its mutex (`LocksHeld`).  From it, each step of `OmniCondition` is a
step of `ConditionVariable` or a stutter: the wait begins where the mutex is released in
the mapping (`Enlist`), a broadcast takes effect where it begins, and what its loop does is a
stutter, as is `Owed`, since a thread that is kicked after its time ran out already
counts as woken.

**Input.**  `NothingStaysPressed` speaks of empty queues; the invariant `InputFollows` says
what will be pressed once a queue is empty, by the last event of each kind in it, and that
only what the window tracks will be.  Lemmas on the first and the last word of a queue show
that putting at one end and taking at the other keeps it.

**Hordes.**  `OneRequest` needs that requests are made only with none pending; that the
current Gremlin runs needs, in an undisturbed horde, that each state file is the file of the
Gremlin it is named after (`FilesAreOwn`), that whom `NextGremlin` chooses has not halted
(`NextIsAlive`), and that a state is saved only while its Gremlin is on (`SavedWhileOn`).

`EventInv` adds what is recorded: the run of the Gremlin that is on and that of its own state
file are in the recording, as its file holds the events of all its turns; the run in each state
file is in its event file; and a Gremlin starts from the root state only in the first round,
when it has no state file (`FirstRound`).  `RunIsIn` is a greedy match, of which `MatchedLonger`
shows that a longer recording matches no less, and `MatchedBoth` that an event put at the end of
both matches again.  `TurnInv` adds the depth: the counter of the Gremlin that runs
is between the limits of this round and the last, and each Gremlin that has not halted waits at the
limit of the round it was in.  Its hard step is `NextGremlin`, which looks through the numbers
from the current one on and around (`Place`): those it passes over have halted, so a new round
begins only when all the others have been through this one.

**Minimization.**  A guest fails on a set of events, and a replay gives it those let through up
to a place; so everything is said of places.  `PenOf` and `PlacesOf` are the pass over the list
that decides which are let through, `FedOf` what the guest has been given up to a place, and
`Errs` that it fails at one.  Three lemmas on these carry the proof: `SameMasks` (only the
events that are not pen ups have a say, those go by the pen), `Passing` (the next event the
code finds is the next let through) and `Culled` (a list without the events left out gives the
guest the same, and the pen is where it was; `NothingCulled` if none was).  `SearchInv` is the
stack of ranges, on which `RangesCoverTheRest` rests: an event that is left out lies before the
end of the range under test, so a range can be given up, split or put back without a look at
what follows.

What the replays show is `CalmInv`.  `GivenSoFar` ties the guest to its place in the list.
`ErrorLeft` says that with the range under test put back the guest fails, though a guest may
fail *less* on more events: so the proof needs that what is put back is exactly what was taken
out.  That the result is minimal rests on `RangesTried`: if no event before a place has been
left out, then each of them was tested, alone, against the whole list.  An error breaks the
premise for good, as the range that is dropped holds an event that is no pen up (`RangeOut`, by
`UpAfterDown`); a range of one that is put back shows it for that event (`NoErrorSearched`).  A
pass that drops nothing ends at the end of the list, and only such a pass leads to the last
(`LastPass`), which replays the list that `ErrorLeft` speaks of and so ends in the error.

**Signals.**  `WaitersAreListed` counts waits that a walk has not passed, while the walk erases
what it stands on and everything behind moves up.  The invariant is that no two waits are of one
script (`OneWaitEach`), that a listed script waits unless this walk has just signalled it
(`ListedWait`), and that exactly the waiting ones have an unanswered wait (`NoneForgotten`).
`SignalHeard` joins the suspension to it: a walk that has signalled somebody leaves a script to
resume the guest.  A connection that goes takes its waits with it, by `Only`.

**Folds.**  The prover's induction theorems take an operator, which its backends cannot
instantiate.  `SequenceFoldsProofs` therefore states induction for a *set* of numbers
(`Induction`, from the well-ordering of the naturals by `LeastNumber`) and existence and
uniqueness of a recursive function for a step that is itself a function (`RecursionExists`,
`RecursionUnique`).  With them it shows what `Only`, `Total` and `Matched` return on any sequence:
`OnlyPlaces` (what is kept, and that the order stays), `TotalAppend`, `MatchedLonger`.  The
models use these instead of the libraries' `SelectSeq` and `FoldSeq`, of which nothing can be
proved.  `RequestsCounted` and `NestLevelCounts` sum over both stacks: each call moves the counters
into its frame, each return moves them back, and `Total` changes by as much.

Only model-checked: liveness and fairness everywhere, and so what `StopResume!FairSpec` adds to
`StopResume!Spec`; the properties of the session under `errors`, `dialogs` and `softReset`, but for
`TypeOK` and `AnswerReachesAsker`.  Every safety property that a passing run checks is a theorem
as well, some under the assumptions named above.

## 6. What is not modelled, and what is left

Next in the plan, in this order:

1. `DebugMgr` with `SystemPacket`: packets, the tables of breakpoints and the debugger's
   state over stoppers; `EmSession` has only its effect on the counters.
2. The document's commands (`DoGremlinNew` and others), which do not look whether their stopper
   was granted: their composition with `Hordes` and `EmMinimize`.
3. The UART's FIFOs and transports; reading and framing in `SocketMessaging` and `SLP`.
4. Pure algorithms against a reference definition: chunk files, the circular log, the widths of
   the suspend counters.
5. Theorems: those of the session without `Calm`, as far as section 4 leaves them true.

Not planned, with the reasons in `PROJECT.json`: opcodes, addressing, memory banks and access
checks, hardware registers and timers, drawing, skins and dialogs, the formats of session
files and preferences, NetLib's translation of calls, ROM transfer (its other side is not in
the repository), installing, Sony's libraries, the Palm headers and vendored code.  These are
data or I/O, one step after the other, in which order plays no part; they are also by far
the largest part of the repository, which is why the models stand for a small share of its lines.
