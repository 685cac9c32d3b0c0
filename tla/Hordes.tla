------------------------------- MODULE Hordes -------------------------------
(***************************************************************************)
(* Gremlin hordes: a range of Gremlins, each a generator of events with a  *)
(* seed of its own, takes turns on the device.  All start from one saved   *)
(* root state, run to the next switching depth, are suspended to a file,   *)
(* and go on from it when the others have had their turn; one that makes   *)
(* the guest fail halts.  The events are recorded, to be minimized later.  *)
(*                                                                         *)
(* The module holds Hordes, the Gremlin (CGremlins), the recording half of *)
(* EmEventPlayback, and the requests by which the horde asks the session   *)
(* to save or load its state when the current instruction has ended.       *)
(***************************************************************************)
EXTENDS Integers, SequencesExt, SequenceFolds

CONSTANTS
  Infos,       \* the HordeInfos of the dialog: start, stop, switchDepth, maxDepth
  kMaxCounter, \* bound on the events of a Gremlin that has no limit
  kMaxPens,    \* bound on the events by which the guest follows the pen
  kMaxUser     \* bound on the user's Stop, Step and Resume

Forever == -1

ASSUME InfosAssumption ==
  \A i \in Infos : i.start \in Nat /\ i.stop \in Nat /\ i.start <= i.stop
ASSUME UserAssumption == kMaxUser \in Nat

VARIABLES
  info,           \* what New was called with
  gGremlinStartNumber, gGremlinStopNumber, gCurrentGremlin, gCurrentDepth,
  halted,         \* gGremlinHaltedInError
  gIsOn,          \* and whether events are recorded: TurnOn changes both
  gremlin,        \* gTheGremlin: number, counter, until, finalUntil, inited
  ran,            \* the events the session's state has seen since the root state
  recorded,       \* fgEvents
  suspended,      \* the suspended state files: a session's state, or none
  eventFile,      \* the event files
  requests,       \* the fHorde... flags of the session that are set
  ended,          \* EndHordes has run
  hung,           \* NextGremlin is in a loop that it cannot leave
  pens, byUser    \* what kMaxPens and kMaxUser bound

range == <<info, gGremlinStartNumber, gGremlinStopNumber>>
place == <<gCurrentGremlin, gCurrentDepth>>
device == <<gremlin, ran>>
files == <<suspended, eventFile>>
vars == <<range, place, halted, gIsOn, device, recorded, files, requests, ended, hung, pens, byUser>>

none == [number |-> -1]
error == <<"error">>

Positive(n) == IF n = 0 THEN Forever ELSE n
gMaxDepth == Positive(info.maxDepth)
gSwitchDepth ==
  Positive(IF info.switchDepth = Forever \/ info.start = info.stop
           THEN info.maxDepth ELSE info.switchDepth)

\* GremlinInfo::fSteps of a Gremlin that starts.
Steps == IF gMaxDepth = Forever THEN gSwitchDepth ELSE Min({gSwitchDepth, gMaxDepth})

NewGremlin(n) ==
  [number |-> n, counter |-> 0, until |-> Steps, finalUntil |-> gMaxDepth, inited |-> TRUE]

\* The state that New saves: Gremlins are off, and `until' is not read back.
root == [number |-> info.start, counter |-> 0, finalUntil |-> gMaxDepth, ran |-> <<>>]

Snapshot ==
  [number |-> gremlin.number, counter |-> gremlin.counter,
   finalUntil |-> gremlin.finalUntil, ran |-> ran]

\* Gremlins::Load: "sync until to finalUntil".
Loaded(s) ==
  [number |-> s.number, counter |-> s.counter, until |-> s.finalUntil,
   finalUntil |-> s.finalUntil, inited |-> TRUE]

InSingleGremlinMode == gGremlinStartNumber = gGremlinStopNumber

\* Mutant: what is left after the last switch is not run.
IsEndOfTooEarly(depth) ==
  gMaxDepth # Forever /\ (gSwitchDepth = Forever \/ depth >= gMaxDepth \div gSwitchDepth)

\* Whether a depth is past the one at which gMaxDepth is met.  Divided by a
\* switching depth of -1, gMaxDepth is past at once.
IsEndOf(depth) ==
  /\ gMaxDepth # Forever
  /\ \/ gSwitchDepth = Forever
     \/ depth > gMaxDepth \div gSwitchDepth
     \/ depth = gMaxDepth \div gSwitchDepth /\ gMaxDepth % gSwitchDepth = 0

----------------------------------------------------------------------------
(* The search for the next Gremlin                                         *)

Count == gGremlinStopNumber - gGremlinStartNumber + 1
Place(k) == gCurrentGremlin - gGremlinStartNumber + k

\* ProposeNextGremlin, k times from the current one; k is at most Count.
Proposed(k) == gGremlinStartNumber + (Place(k) % Count)
ProposedDepth(k) ==
  IF Place(k) >= Count /\ gCurrentDepth >= 0 THEN gCurrentDepth + 1 ELSE gCurrentDepth

\* Mutant: a Gremlin that has halted runs again.
Anybody(out) == 1 .. Count

Alive(out) == {k \in 1 .. Count : ~out[Proposed(k)]}

\* EndHordes, but for the log: only a horde loads the root state.
EndHordes ==
  /\ ended' = TRUE /\ recorded' = <<>>
  /\ requests' = IF InSingleGremlinMode THEN requests ELSE requests \cup {"LoadRootState"}

\* The first Gremlin, from the next one on and round to the current one, that
\* has not halted runs next, if the depth is not past the last.  The caller
\* leaves `out' in gGremlinHaltedInError and `events' in fgEvents.  If all have
\* halted, the loop sees that it has come round by the depth, which must grow.
NextGremlin(out, events) ==
  /\ gIsOn' = FALSE
  /\ \/ \E k \in Alive(out) :
          /\ \A j \in Alive(out) : k <= j
          /\ gCurrentGremlin' = Proposed(k) /\ gCurrentDepth' = ProposedDepth(k)
          /\ hung' = FALSE
          /\ IF IsEndOf(gCurrentDepth') THEN EndHordes
             ELSE /\ requests' = requests \cup
                       {IF gCurrentDepth' = 0 THEN "NextGremlinFromRootState"
                                              ELSE "NextGremlinFromSuspendState"}
                  /\ recorded' = events /\ UNCHANGED ended
     \/ /\ Alive(out) = {} /\ UNCHANGED place
        /\ hung' = (ProposedDepth(Count) <= gCurrentDepth)
        /\ IF hung' THEN recorded' = events /\ UNCHANGED <<requests, ended>> ELSE EndHordes

----------------------------------------------------------------------------
(* The CPU thread, in one instruction: the guest waits for an event        *)

\* Mutant: the guest goes on before the requests are handled.
RunningOn == gIsOn /\ ~hung

Running == gIsOn /\ requests = {} /\ ~hung

\* The events are numbered from one in the order the Gremlin makes them.
Post ==
  /\ gremlin' = [gremlin EXCEPT !.counter = @ + 1]
  /\ ran' = Append(ran, <<gremlin.number, gremlin.counter + 1>>)
  /\ recorded' = Append(recorded, <<gremlin.number, gremlin.counter + 1>>)

\* Mutant: the state is saved one event too late.
BumpCounterLate ==
  requests' = requests \cup
    (IF gremlin.until > 0 /\ gremlin'.counter = gremlin.until + 1
     THEN {"SaveSuspendedState"} ELSE {})

\* BumpCounter asks for the state to be saved when the limit is met.
BumpCounter ==
  requests' = requests \cup
    (IF gremlin.until > 0 /\ gremlin'.counter = gremlin.until
     THEN {"SaveSuspendedState"} ELSE {})

\* Mutant: a Gremlin that is further past its limit goes on.
AtLimitExactly == gremlin.until > 0 /\ gremlin.counter = gremlin.until + 1

AtLimit == gremlin.until > 0 /\ gremlin.counter > gremlin.until

\* StopEventReached saves the events and moves on.
StopEventReached ==
  /\ Running /\ AtLimit
  /\ eventFile' = [eventFile EXCEPT ![gCurrentGremlin] = recorded]
  /\ NextGremlin(halted, recorded)
  /\ UNCHANGED <<range, halted, device, suspended, pens, byUser>>

\* The Gremlin makes an event; with `until' zero it thinks that it is done
\* (Gremlins compares unsigned), and only the counter goes on.
PostFakeEvent ==
  /\ Running /\ ~AtLimit /\ gremlin.counter < kMaxCounter
  /\ IF gremlin.until = 0 /\ gremlin.counter > 0
     THEN gremlin' = [gremlin EXCEPT !.counter = @ + 1] /\ UNCHANGED <<ran, recorded>>
     ELSE Post
  /\ BumpCounter
  /\ UNCHANGED <<range, place, halted, gIsOn, files, ended, hung, pens, byUser>>

\* The guest follows the pen: no limit is looked at.
PostFakePenEvent ==
  /\ Running /\ gremlin.counter > 0 /\ pens < kMaxPens
  /\ gremlin.counter < kMaxCounter
  /\ Post /\ BumpCounter
  /\ pens' = pens + 1
  /\ UNCHANGED <<range, place, halted, gIsOn, files, ended, hung, byUser>>

\* The guest fails: the error is recorded.  On Next Gremlin (the user's choice
\* or the preferences') the events are saved and the Gremlin is out.
ErrorEncountered ==
  /\ Running /\ gremlin.counter > 0
  /\ halted' = [halted EXCEPT ![gCurrentGremlin] = TRUE]
  /\ eventFile' = [eventFile EXCEPT ![gCurrentGremlin] = Append(recorded, error)]
  /\ NextGremlin(halted', Append(recorded, error))
  /\ UNCHANGED <<range, device, suspended, pens, byUser>>

\* On Debug or Reset the events are saved and the Gremlin stops; after a reset
\* there is nothing to resume.
DebugOrReset(reset) ==
  /\ Running /\ gremlin.counter > 0
  /\ recorded' = Append(recorded, error)
  /\ eventFile' = [eventFile EXCEPT ![gCurrentGremlin] = recorded']
  /\ gIsOn' = FALSE
  /\ gremlin' = [gremlin EXCEPT !.inited = ~reset]
  /\ ran' = IF reset THEN <<>> ELSE ran
  /\ UNCHANGED <<range, place, halted, suspended, requests, ended, hung, pens, byUser>>

----------------------------------------------------------------------------
(* The CPU thread, when the instruction has ended (EmSession::ExecuteSpecial) *)

Handle(request) == request \in requests /\ requests' = requests \ {request}

SaveSuspendedState ==
  /\ Handle("SaveSuspendedState")
  /\ suspended' = [suspended EXCEPT ![gCurrentGremlin] = Snapshot]
  /\ eventFile' = [eventFile EXCEPT ![gCurrentGremlin] = recorded]
  /\ UNCHANGED <<range, place, halted, gIsOn, device, recorded, ended, hung, pens, byUser>>

LoadRootState ==
  /\ Handle("LoadRootState")
  /\ gremlin' = Loaded(root) /\ ran' = root.ran /\ gIsOn' = FALSE
  /\ UNCHANGED <<range, place, halted, recorded, files, ended, hung, pens, byUser>>

NextGremlinFromRootState ==
  /\ Handle("NextGremlinFromRootState")
  /\ ran' = root.ran
  /\ gremlin' = NewGremlin(gCurrentGremlin) /\ gIsOn' = TRUE
  /\ UNCHANGED <<range, place, halted, recorded, files, ended, hung, pens, byUser>>

\* StartGremlinFromLoadedSuspendedState: to the next depth, or to the last.
NextUntil ==
  LET next == gSwitchDepth * (gCurrentDepth + 1)
  IN  IF gMaxDepth = Forever THEN next ELSE Min({next, gMaxDepth})

\* Mutant: the events begin anew.
NoEvents(n) == <<>>

\* LoadEvents.
LoadedEvents(n) == eventFile[n]

NextGremlinFromSuspendState ==
  LET file == suspended[gCurrentGremlin]
  IN  /\ Handle("NextGremlinFromSuspendState")
      /\ file # none
      /\ gremlin' = [Loaded(file) EXCEPT !.until = NextUntil]
      /\ ran' = file.ran /\ recorded' = LoadedEvents(gCurrentGremlin)
      /\ gIsOn' = TRUE
      /\ UNCHANGED <<range, place, halted, files, ended, hung, pens, byUser>>

\* A file that is missing or cannot be read stops the horde.
LoadFails ==
  /\ \E r \in {"LoadRootState", "NextGremlinFromRootState", "NextGremlinFromSuspendState"} : Handle(r)
  /\ gIsOn' = FALSE
  /\ UNCHANGED <<range, place, halted, device, recorded, files, ended, hung, pens, byUser>>

----------------------------------------------------------------------------
(* The UI thread, while the session is stopped                             *)

Stop ==
  /\ Running
  /\ gIsOn' = FALSE
  /\ UNCHANGED <<range, place, halted, device, recorded, files, requests, ended, hung, pens, byUser>>

GoOn ==
  /\ ~gIsOn /\ requests = {} /\ gremlin.inited /\ ~hung /\ byUser < kMaxUser
  /\ gIsOn' = TRUE /\ byUser' = byUser + 1
  /\ UNCHANGED <<info, gCurrentGremlin, halted, ran, recorded, files, requests, ended, hung, pens>>

\* One event more, "as if this was a single Gremlin run".
Step ==
  /\ GoOn
  /\ gCurrentDepth' = gMaxDepth
  /\ gGremlinStartNumber' = gCurrentGremlin /\ gGremlinStopNumber' = gCurrentGremlin
  /\ gremlin' = [gremlin EXCEPT !.until = gremlin.counter + 1]

Resume ==
  /\ GoOn
  /\ gremlin' = [gremlin EXCEPT !.until = gremlin.finalUntil]
  /\ UNCHANGED <<gCurrentDepth, gGremlinStartNumber, gGremlinStopNumber>>

----------------------------------------------------------------------------

\* Hordes::New: everything is clean, and the root state is saved.
Init ==
  /\ info \in Infos
  /\ gGremlinStartNumber = info.start /\ gGremlinStopNumber = info.stop
  /\ gCurrentGremlin = info.start /\ gCurrentDepth = 0
  /\ halted = [n \in info.start .. info.stop |-> FALSE]
  /\ gIsOn = TRUE /\ gremlin = NewGremlin(info.start)
  /\ ran = <<>> /\ recorded = <<>>
  /\ suspended = [n \in info.start .. info.stop |-> none]
  /\ eventFile = [n \in info.start .. info.stop |-> <<>>]
  /\ requests = {} /\ ended = FALSE /\ hung = FALSE
  /\ pens = 0 /\ byUser = 0

EndOfCycle ==
  \/ SaveSuspendedState \/ LoadRootState
  \/ NextGremlinFromRootState \/ NextGremlinFromSuspendState \/ LoadFails

Next ==
  \/ StopEventReached \/ PostFakeEvent \/ PostFakePenEvent
  \/ ErrorEncountered \/ \E reset \in BOOLEAN : DebugOrReset(reset)
  \/ EndOfCycle
  \/ Stop \/ Step \/ Resume

Spec == Init /\ [][Next]_vars

\* The CPU thread runs, and the guest comes back to wait for events.
FairSpec == Spec /\ WF_vars(EndOfCycle) /\ WF_vars(StopEventReached \/ PostFakeEvent)

----------------------------------------------------------------------------
(* Properties                                                              *)

Gremlins == info.start .. info.stop

\* The end of a cycle finds at most one request: what the assertions at
\* EmSession.cpp:1403-1466 say, though each request is made by code that
\* does not know of the others.
OneRequest == Cardinality(requests) <= 1

Undisturbed == byUser = 0
HasDepth == gSwitchDepth # Forever
Limit(depth) ==
  IF gMaxDepth = Forever THEN gSwitchDepth * depth ELSE Min({gSwitchDepth * depth, gMaxDepth})
SuspendedAt(n, depth) ==
  suspended[n] # none /\ suspended[n].number = n /\ suspended[n].counter = Limit(depth)

\* Gremlins take turns: those before the current one, unless they halted, were
\* suspended at the end of this round, those after it at the end of the last
\* one, and there is a file to load for each that will run again.
SuspendedInStep ==
  Undisturbed /\ HasDepth /\ ~ended =>
    \A n \in Gremlins : ~halted[n] =>
      /\ n < gCurrentGremlin => SuspendedAt(n, gCurrentDepth + 1)
      /\ n > gCurrentGremlin /\ gCurrentDepth > 0 => SuspendedAt(n, gCurrentDepth)
      /\ n = gCurrentGremlin /\ gCurrentDepth > 0 =>
           SuspendedAt(n, gCurrentDepth) \/ SuspendedAt(n, gCurrentDepth + 1)

\* The Gremlin that makes events is the one the horde thinks it is, under whose
\* number its files are written, and it has not halted.
RightGremlinRuns ==
  Undisturbed /\ gIsOn => gremlin.number = gCurrentGremlin /\ ~halted[gCurrentGremlin]

\* An event of the run that is not in the recording is lost to minimization.
RunIsIn(recording, run) == Matched(recording, run) = Len(run)

\* What the guest went through from the root state to where it is, or to where
\* it was suspended, is in the recording, or in the event file, in this order.
NoEventLost ==
  Undisturbed =>
    /\ gIsOn => RunIsIn(recorded, ran)
    /\ \A n \in Gremlins : suspended[n] # none => RunIsIn(eventFile[n], suspended[n].ran)

\* A horde ends when each Gremlin has halted or reached the last depth.
EndsWhenDone ==
  Undisturbed /\ ended /\ (HasDepth \/ gMaxDepth = Forever) =>
    \A n \in Gremlins : halted[n] \/ (suspended[n] # none /\ suspended[n].counter = gMaxDepth)

\* With a last depth and a switching depth, Gremlins end, also when the user
\* stops, steps and resumes them.
HordeEnds == gMaxDepth # Forever /\ HasDepth => <>[](~gIsOn /\ requests = {})

\* Hordes.cpp:1696: `there should not be any events associated with the root
\* state (none have been generated!)'.
NoEventsAtRoot == gIsOn /\ ran = <<>> => recorded = <<>>
=============================================================================
