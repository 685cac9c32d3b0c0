----------------------------- MODULE EmMinimize -----------------------------
(***************************************************************************)
(* Event minimization: the recorded events that led the guest to an error  *)
(* are replayed from the saved session again and again, each time with a   *)
(* range of them left out, until none can be left out.  The module holds   *)
(* EmMinimize (the search), EmEventPlayback (the list, its mask and the    *)
(* replay) and the guest that asks for the events.                         *)
(*                                                                         *)
(* The search is a set of functions that call each other; `call' is the    *)
(* one the CPU thread is about to enter.  The UI thread may stop it at any *)
(* moment.  The guest is deterministic: from the saved session, what it    *)
(* does depends on the events it is given and on nothing else.             *)
(***************************************************************************)
EXTENDS Integers, SequencesExt, SequenceFolds

CONSTANTS
  Recordings,  \* the kinds of the events of a recording, one after the other
  Guests,      \* what makes the guest fail: see Fails
  OffEvents,   \* the events that turn the device off, in different guests
  kMaxRange    \* 1024 in the code

ASSUME RecordingsAssumption == Recordings \subseteq Seq({"key", "down", "up"})
ASSUME kMaxRangeAssumption == kMaxRange \in Nat \ {0}

VARIABLES
  kind, guest, tracks, offs,  \* the recording and the guest, which do not change
  events,     \* fgEvents: the events that are left, by their first positions
  mask,       \* fgMask
  levels,     \* fgState.fLevels, the top last; a range is from begin to before end
  passNumber, fgIsOn,
  replaying, index, penIsDown,  \* fgReplaying, fgIterationState
  loadState,  \* fMinimizeLoadState: at the end of the cycle, back to the start
  call,       \* the function of EmMinimize the CPU thread is about to enter
  endedInError,  \* fgPassEndedInError
  given,      \* the set of events the guest was given since the session was loaded
  stage,      \* the guest: not yet loaded, running, failing, after its error, off, or asleep
  penPolled,  \* the guest follows the pen with EvtGetPen
  wasOn,      \* playbackWasOn and minimizationWasOn, while the device is woken
  stopped,    \* the user pressed Stop
  calm        \* no device slept and no instruction failed twice

program == <<kind, guest, tracks, offs>>
list == <<events, mask>>
replay == <<replaying, index, penIsDown>>
search == <<levels, passNumber, endedInError>>
device == <<given, stage, penPolled, wasOn>>
vars == <<program, list, replay, search, device, fgIsOn, loadState, call, stopped, calm>>

kLastPass == 0
N == Len(events)
IsUp(p) == kind[events[p]] = "up"
IsDown(p) == kind[events[p]] = "down"

\* A guest fails when it has all events of one pattern's `has', none of its `not'.
Fails(seen) == \E p \in guest : p.has \subseteq seen /\ p.not \cap seen = {}

\* A guest that is given these events, one after the other, fails on the way.
Reproduces(seq) == \E i \in 0 .. Len(seq) : Fails(Range(SubSeq(seq, 1, i)))

----------------------------------------------------------------------------
(* EmEventPlayback                                                         *)

\* GetNextReplayEvent: a pen up goes by the pen, any other event by the mask.
Deliverable == {p \in index + 1 .. N : IF IsUp(p) THEN penIsDown ELSE mask[p]}

\* The pass over the list that CullEvents makes: whether, after each position,
\* the last event kept put the pen down; and what is left, which for a pen up
\* goes by the pen.
PenAfter(m) ==
  LET pen[p \in 0 .. N] ==
        IF p = 0 \/ IsUp(p) THEN FALSE
        ELSE IF m[p] THEN IsDown(p) ELSE pen[p - 1]
  IN  pen
KeptPlaces(m) ==
  LET pen == PenAfter(m) IN {p \in 1 .. N : IF IsUp(p) THEN pen[p - 1] ELSE m[p]}
Kept(m) == Only([p \in 1 .. N |-> p], KeptPlaces(m))

\* What a replay of the whole list with this mask gives the guest.
Replayed(m) ==
  LET kept == Kept(m) IN [i \in 1 .. Len(kept) |-> events[kept[i]]]

CullEvents ==
  /\ events' = Replayed(mask)
  /\ mask' = [i \in DOMAIN events' |-> TRUE]

EnableEvents(b, e, on) == mask' = [p \in 1 .. N |-> IF b <= p /\ p < e THEN on ELSE mask[p]]

\* ReplayEvents (true): from the beginning of the list.
Rewind == replaying' = TRUE /\ index' = 0 /\ penIsDown' = FALSE

Ready == stage = "running" /\ call = "none" /\ ~loadState

Give(p) ==
  /\ index' = p
  /\ given' = given \cup {events[p]}
  /\ stage' = IF Fails(given') THEN "failing" ELSE IF events[p] \in offs THEN "off" ELSE "running"
  /\ penPolled' = (tracks /\ IsDown(p))

\* The guest waits for an event (ReplayGetEvent).
GetEvent ==
  /\ Ready /\ replaying /\ ~penPolled
  /\ IF Deliverable # {}
     THEN LET p == Min(Deliverable)
          IN  Give(p) /\ penIsDown' = IsDown(p) /\ UNCHANGED <<replaying, call>>
     ELSE /\ replaying' = FALSE /\ index' = N
          /\ call' = IF fgIsOn THEN "NoErrorOccurred" ELSE "none"
          /\ UNCHANGED <<given, stage, penPolled, penIsDown>>
  /\ UNCHANGED <<program, list, search, wasOn, fgIsOn, loadState, stopped, calm>>

\* The guest follows the pen (ReplayGetPen): where the list has no pen event,
\* it is told that the pen is up, and the event found stays in the list.
GetPen ==
  /\ Ready /\ replaying /\ penPolled
  /\ IF Deliverable # {} /\ kind[events[Min(Deliverable)]] # "key"
     THEN Give(Min(Deliverable)) /\ UNCHANGED penIsDown
     ELSE /\ index' = IF Deliverable = {} THEN N ELSE index
          /\ penIsDown' = FALSE /\ penPolled' = FALSE
          /\ UNCHANGED <<given, stage>>
  /\ UNCHANGED <<program, list, search, replaying, wasOn, fgIsOn, loadState, call, stopped, calm>>

----------------------------------------------------------------------------
(* EmMinimize                                                              *)

Level(b, e, checked) == [begin |-> b, end |-> e, checked |-> checked]
Size(level) == level.end - level.begin
Top == Last(levels)

\* Mutant: the first event of the range is left out.
InRangeAfterFirst(p) == levels # <<>> /\ Top.begin < p /\ p < Top.end

\* CurrentRange: the range at the top of the stack, or an empty one.
InCurrentRange(p) == levels # <<>> /\ Top.begin <= p /\ p < Top.end

\* Mutant: the event that was played last goes with those after it.
FirstUnplayedTooEarly == index

FirstUnplayed == index + 1

\* The guest fails.  Without minimization the user is told; with it, the events
\* after the one that was played last go at once, or the range under test goes.
ErrorOccurred ==
  /\ stage' = "failed"
  /\ IF ~fgIsOn THEN UNCHANGED <<list, search, call>>
     ELSE /\ endedInError' = TRUE
          /\ UNCHANGED <<events, passNumber>>
          /\ IF index < N
             THEN /\ EnableEvents(FirstUnplayed, N + 1, FALSE)
                  /\ levels' = <<>>
                  /\ call' = "MinimizationPassComplete"
             ELSE call' = "NextSubRange" /\ UNCHANGED <<mask, levels>>
  /\ UNCHANGED <<program, replay, given, penPolled, wasOn, fgIsOn, loadState, stopped>>

FirstError == stage = "failing" /\ call = "none" /\ ErrorOccurred /\ UNCHANGED calm

\* The instruction that failed goes on, and may fail again before the end of the
\* cycle: HandleDialog calls ErrorOccurred again.
SecondError ==
  /\ stage = "failed" /\ call = "none" /\ loadState /\ fgIsOn
  /\ ErrorOccurred /\ calm' = FALSE

CallStep(function) ==
  call = function /\ UNCHANGED <<program, device, stopped, calm>>

NoErrorOccurred ==
  /\ CallStep("NoErrorOccurred")
  /\ endedInError' = FALSE
  /\ mask' = [p \in 1 .. N |-> InCurrentRange(p) \/ mask[p]]
  /\ IF passNumber = kLastPass
     THEN levels' = <<>> /\ call' = "MinimizationPassComplete"
     ELSE /\ levels' = [levels EXCEPT ![Len(levels)].checked = TRUE]
          /\ call' = "SplitAndStartAgain"
  /\ UNCHANGED <<events, replay, passNumber, fgIsOn, loadState>>

\* Mutant: a range of one is split.
CanSplitOne == Size(Top) > 0

CanSplit == Size(Top) > 1

Half(b, e) == Level(b, e, Top.checked /\ e - b > 1)
Midpoint == (Top.begin + Top.end) \div 2

\* Mutant: the right half goes on top.
HalvesSwapped == <<Half(Top.begin, Midpoint), Half(Midpoint, Top.end)>>

\* Mutant: one event is in neither half.
HalvesApart == <<Half(Midpoint + 1, Top.end), Half(Top.begin, Midpoint)>>

Halves == <<Half(Midpoint, Top.end), Half(Top.begin, Midpoint)>>

\* One turn of SplitCurrentLevel's loop, which goes on while the left half is
\* too large; and what follows when there is nothing to split.
SplitAndStartAgain ==
  /\ CallStep("SplitAndStartAgain")
  /\ IF ~CanSplit
     THEN /\ levels' = [i \in DOMAIN levels |-> [levels[i] EXCEPT !.checked = FALSE]]
          /\ call' = "NextSubRange"
     ELSE /\ levels' = Front(levels) \o Halves
          /\ call' = IF Size(Last(Halves)) <= kMaxRange THEN "DisableAndStartAgain" ELSE call
  /\ UNCHANGED <<list, replay, passNumber, endedInError, fgIsOn, loadState>>

\* A pen up alone is not worth a run.
DisableAndStartAgain ==
  /\ CallStep("DisableAndStartAgain")
  /\ IF Size(Top) = 1 /\ IsUp(Top.begin)
     THEN call' = "NextSubRange" /\ UNCHANGED mask
     ELSE call' = "StartAgain" /\ EnableEvents(Top.begin, Top.end, FALSE)
  /\ UNCHANGED <<events, replay, search, fgIsOn, loadState>>

NextSubRange ==
  /\ CallStep("NextSubRange")
  /\ levels' = Front(levels)
  /\ call' = IF levels' = <<>> THEN "MinimizationPassComplete"
             ELSE IF Last(levels').checked \/ Size(Last(levels')) > kMaxRange
             THEN "SplitAndStartAgain" ELSE "DisableAndStartAgain"
  /\ UNCHANGED <<list, replay, passNumber, endedInError, fgIsOn, loadState>>

\* ReplayEvents (true), and LoadInitialState asks for the session to be loaded.
StartAgain ==
  /\ CallStep("StartAgain")
  /\ Rewind /\ loadState' = TRUE /\ call' = "none"
  /\ UNCHANGED <<list, search, fgIsOn>>

\* Mutant: the range is that of the list before CullEvents.
InitialLevelOfOldList == levels' = Append(levels, Level(1, N + 1, FALSE))

InitialLevel == levels' = Append(levels, Level(1, Len(events') + 1, FALSE))

\* Another pass if this one removed an event, then the last pass, then the end.
MinimizationPassComplete ==
  /\ CallStep("MinimizationPassComplete")
  /\ CullEvents
  /\ index' = N /\ penIsDown' = (events' # <<>> /\ kind[Last(events')] = "down")
  /\ UNCHANGED endedInError
  /\ \/ /\ Len(events') < N
        /\ passNumber' = passNumber + 1
        /\ InitialLevel /\ call' = "SplitAndStartAgain"
        /\ UNCHANGED <<replaying, fgIsOn, loadState>>
     \/ /\ Len(events') = N /\ passNumber # kLastPass
        /\ passNumber' = kLastPass
        /\ InitialLevel /\ call' = "StartAgain"
        /\ UNCHANGED <<replaying, fgIsOn, loadState>>
     \/ /\ Len(events') = N /\ passNumber = kLastPass
        /\ fgIsOn' = FALSE /\ replaying' = FALSE  \* MinimizationComplete
        /\ loadState' = TRUE /\ call' = "none"
        /\ UNCHANGED <<levels, passNumber>>

----------------------------------------------------------------------------
(* The rest of the program                                                 *)

\* The end of the cycle of the CPU's loop: RealLoadInitialState.
LoadState ==
  /\ loadState /\ call = "none" /\ stage \in {"starting", "running", "failed"}
  /\ loadState' = FALSE
  /\ given' = {} /\ stage' = "running" /\ penPolled' = FALSE
  /\ UNCHANGED <<program, list, replay, search, wasOn, fgIsOn, call, stopped, calm>>

\* The user presses Stop, on the UI thread and at any time after Start, which
\* opens the dialog at its end; also while the search is off for the moment in
\* which the device is woken.  The dialog closes with it.
Stop ==
  /\ fgIsOn \/ (stage = "asleep" /\ wasOn.minimization)
  /\ ~stopped /\ (stage = "starting" => call = "none")
  /\ fgIsOn' = FALSE /\ replaying' = FALSE /\ stopped' = TRUE
  /\ UNCHANGED <<program, list, index, penIsDown, search, device, loadState, call, calm>>

\* An event made the device sleep: everything is turned off for a moment, so that
\* the power button can be posted, ...
FallAsleep ==
  /\ stage = "off" /\ (replaying \/ fgIsOn)
  /\ wasOn' = [playback |-> replaying, minimization |-> fgIsOn]
  /\ fgIsOn' = FALSE /\ replaying' = FALSE
  /\ stage' = "asleep" /\ calm' = FALSE
  /\ UNCHANGED <<program, list, index, penIsDown, search, given, penPolled, loadState, call, stopped>>

\* ... and on again, which rewinds the list but does not load the session.
WakeUp ==
  /\ stage = "asleep"
  /\ stage' = "running"
  /\ fgIsOn' = (fgIsOn \/ wasOn.minimization)
  /\ IF wasOn.playback THEN Rewind ELSE UNCHANGED replay
  /\ UNCHANGED <<program, list, search, given, penPolled, wasOn, loadState, call, stopped, calm>>

----------------------------------------------------------------------------

\* EmMinimize::Start: the events of a recording that ended in an error, which
\* are those before it (LoadEvents, FindFirstError, CullEvents); the minimizer
\* turns itself on and makes the first range.
Init ==
  /\ kind \in Recordings /\ guest \in Guests /\ tracks \in BOOLEAN /\ offs \in OffEvents
  /\ events = [i \in 1 .. Len(kind) |-> i]
  /\ mask = [i \in 1 .. Len(kind) |-> TRUE]
  /\ Kept(mask) = events
  /\ Fails(Range(events)) /\ ~Reproduces(Front(events))
  /\ tracks => \A p \in guest : \A i \in p.has \cup p.not : kind[i] # "up"
  /\ levels = <<Level(1, Len(kind) + 1, FALSE)>>
  /\ passNumber = 1 /\ endedInError = FALSE
  /\ fgIsOn = TRUE /\ call = "SplitAndStartAgain" /\ loadState = FALSE
  /\ replaying = FALSE /\ index = 0 /\ penIsDown = FALSE
  /\ given = {} /\ stage = "starting" /\ penPolled = FALSE
  /\ wasOn = [playback |-> FALSE, minimization |-> FALSE]
  /\ stopped = FALSE /\ calm = TRUE

Calls ==
  \/ NoErrorOccurred \/ SplitAndStartAgain \/ DisableAndStartAgain
  \/ NextSubRange \/ StartAgain \/ MinimizationPassComplete

CPU == GetEvent \/ GetPen \/ FirstError \/ Calls \/ LoadState \/ FallAsleep \/ WakeUp

Next == CPU \/ SecondError \/ Stop

Spec == Init /\ [][Next]_vars
FairSpec == Spec /\ WF_vars(CPU)

----------------------------------------------------------------------------
(* Properties                                                              *)

\* The values of the variables.
TypeOK ==
  /\ Range(events) \subseteq DOMAIN kind /\ mask \in [1 .. N -> BOOLEAN]
  /\ \A i \in DOMAIN levels :
       levels[i] \in [begin : 1 .. N + 1, end : 1 .. N + 1, checked : BOOLEAN]
  /\ passNumber \in 0 .. Len(kind) + 1 /\ index \in 0 .. Len(kind)
  /\ {fgIsOn, replaying, penIsDown, loadState, endedInError, penPolled, stopped, calm} \subseteq BOOLEAN
  /\ call \in {"none", "NoErrorOccurred", "SplitAndStartAgain", "DisableAndStartAgain",
               "NextSubRange", "StartAgain", "MinimizationPassComplete"}
  /\ stage \in {"starting", "running", "failing", "failed", "off", "asleep"}
  /\ given \subseteq DOMAIN kind

\* The ranges on the stack follow each other up to the end of the list, the
\* next one to test at the top, and no event after the top range has been
\* left out; a function that looks at the top of the stack finds one, and
\* InitialLevel finds none (the assertions of EmMinimize.cpp:918, 964, 1160).
StackCoversRest ==
  /\ levels # <<>> =>
       /\ levels[1].end = N + 1
       /\ \A i \in 1 .. Len(levels) - 1 :
            levels[i].begin = levels[i + 1].end /\ levels[i].begin < levels[i].end
       /\ \A p \in Top.end .. N : mask[p]
  /\ call \in {"SplitAndStartAgain", "DisableAndStartAgain", "NextSubRange"} => levels # <<>>
  /\ call = "MinimizationPassComplete" => levels = <<>>

\* The search never loses the error: the events not discarded, with the range
\* under test among them, still make the guest fail (discarding is
\* ErrorOccurred's, and it is final: CullEvents removes the events).
ErrorKept ==
  calm => Reproduces(Replayed([p \in 1 .. N |-> mask[p] \/ InCurrentRange(p)]))

\* When the search ends undisturbed no event of the result can be left out,
\* pen ups apart (those go with their pen down), unless one event is all there is.
ResultIsMinimal ==
  calm /\ ~fgIsOn /\ ~stopped /\ N > 1 =>
    \A p \in 1 .. N : ~IsUp(p) => ~Reproduces(Replayed([mask EXCEPT ![p] = FALSE]))

\* EmMinimize.cpp:484: `The "last pass" was supposed to be guaranteed to end in
\* an error'; and so it does, but for the cases that `calm' excludes.
LastPassEndsInError == calm /\ passNumber = kLastPass => call # "NoErrorOccurred"

\* The search ends, by itself or by the user's Stop, however often it is
\* disturbed, unless events of the recording put the device to sleep again and
\* again: each wake-up then rewinds the list (EmCPU68K.cpp:808) with the same
\* mask and no session loaded, and no replay ends.
AtRest == ~fgIsOn /\ call = "none" /\ ~loadState
SearchEnds == <>[](stage # "asleep") => <>[]AtRest
=============================================================================
