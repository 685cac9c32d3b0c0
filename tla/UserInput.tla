------------------------------ MODULE UserInput ------------------------------
(***************************************************************************)
(* The way of the user's input to the guest.  The window (EmWindow) tracks *)
(* the mouse and posts pen and button events, the document posts keys; the *)
(* session keeps them in queues (EmSession, EmThreadSafeQueue) and wakes a *)
(* guest that dozes.  The CPU thread takes pen and key events when the     *)
(* guest is about to wait for one (EmPatchMgr), and button events at a     *)
(* limited rate, from its slow cycle (EmRegsEZ).                           *)
(***************************************************************************)
EXTENDS Integers, Sequences

CONSTANTS
  Places,      \* points of the touchscreen
  Buttons,     \* buttons of the skin, the Power button among them
  PowerButton,
  kMaxPosts    \* bound on the events of the user

None == "none"
Touchscreen == "touchscreen"

ASSUME ButtonsAssumption ==
  /\ PowerButton \in Buttons
  /\ {None, Touchscreen} \cap (Places \union Buttons) = {} /\ Places \cap Buttons = {}
ASSUME BoundAssumption == kMaxPosts \in Nat

VARIABLES
  mouse,          \* whether the mouse button is down
  fCurrentButton, \* what the window tracks
  fKeyQueue, fPenQueue, fButtonQueue,
  fLastPenEvent,
  throttled,      \* gLastButtonEvent is less than kButtonEventThreshold ago
  ui,             \* the UI thread: "idle", or "waking" the guest in PrvWakeUpCPU
  guest,          \* "app", "wait" for an event, or "asleep" with the LCD off
  woken,          \* the guest has an event, or EvtWakeup was called
  debugged,       \* the session is stopped and not at a system call
  gremlins,       \* Hordes::IsOn, or events are replayed
  pen,            \* the pen, as the guest was told
  fKeyBits,       \* the buttons that the hardware shows as pressed
  refused,        \* a wake-up was given up
  strayed,        \* a release was not posted
  posts           \* what kMaxPosts bounds

tracking == <<mouse, fCurrentButton>>
queues == <<fKeyQueue, fPenQueue, fButtonQueue, fLastPenEvent, throttled>>
device == <<guest, woken, pen, fKeyBits>>
history == <<refused, strayed, posts>>
vars == <<tracking, queues, ui, device, debugged, gremlins, history>>

Down(place) == [place |-> place, down |-> TRUE]
PenUp == [place |-> None, down |-> FALSE]
PenEvents == {Down(p) : p \in Places \union Buttons} \union {PenUp}
ButtonEvents == [button : Buttons, down : BOOLEAN]

Init ==
  /\ mouse = FALSE /\ fCurrentButton = None
  /\ fKeyQueue = <<>> /\ fPenQueue = <<>> /\ fButtonQueue = <<>>
  /\ fLastPenEvent = PenUp /\ throttled = FALSE
  /\ ui = "idle"
  /\ guest = "app" /\ woken = FALSE /\ pen = FALSE /\ fKeyBits = {}
  /\ debugged = FALSE /\ gremlins = FALSE
  /\ refused = FALSE /\ strayed = FALSE /\ posts = 0

-----------------------------------------------------------------------------
(* EmSession: posting. *)

PrvCanBotherCPU == ~gremlins

PostPenEvent(event) ==
  /\ UNCHANGED <<fKeyQueue, fButtonQueue, throttled>>
  /\ IF ~PrvCanBotherCPU \/ (event.down /\ event = fLastPenEvent)
       THEN UNCHANGED <<fPenQueue, fLastPenEvent, ui>>
       ELSE /\ fPenQueue' = Append(fPenQueue, event)
            /\ fLastPenEvent' = event
            /\ ui' = "waking"

PostButtonEvent(event) ==
  /\ fButtonQueue' = IF PrvCanBotherCPU THEN Append(fButtonQueue, event) ELSE fButtonQueue
  /\ UNCHANGED <<fKeyQueue, fPenQueue, fLastPenEvent, throttled, ui>>

\* Mutant: a key does not wake the guest.
PostKeyQuietly ==
  /\ PrvCanBotherCPU
  /\ fKeyQueue' = Append(fKeyQueue, "key")
  /\ UNCHANGED <<fPenQueue, fButtonQueue, fLastPenEvent, throttled, ui>>

PostKeyEvent ==
  /\ PrvCanBotherCPU
  /\ fKeyQueue' = Append(fKeyQueue, "key")
  /\ ui' = "waking"
  /\ UNCHANGED <<fPenQueue, fButtonQueue, fLastPenEvent, throttled>>

-----------------------------------------------------------------------------
(* EmWindow::HandlePenEvent. *)

Element(where) == IF where \in Places THEN Touchscreen ELSE where

\* Mutant: a release goes to what is under the mouse.
WhatIsThere(where, down) == IF down /\ fCurrentButton # None THEN fCurrentButton ELSE Element(where)

\* "If the mouse button is down and we aren't currently tracking anything,
\* find out what the user clicked on ... otherwise stick with it."
What(where, down) ==
  IF down /\ fCurrentButton = None THEN Element(where) ELSE fCurrentButton

GetLCDScreenOn == guest # "asleep"

\* Mutant: after a release the window tracks its own frame.
TracksFrame(what, down) ==
  /\ fCurrentButton' = IF down THEN what ELSE "frame"
  /\ strayed' = (strayed \/ (~down /\ what # None /\ ~PrvCanBotherCPU))

Tracks(what, down) ==
  /\ fCurrentButton' = IF down THEN what ELSE None
  /\ strayed' = (strayed \/ (~down /\ what # None /\ ~PrvCanBotherCPU))

HandlePenEvent(where, down) ==
  LET what == What(where, down) IN
    \/ /\ what = Touchscreen /\ GetLCDScreenOn
       /\ PostPenEvent(IF down THEN Down(where) ELSE PenUp)
       /\ Tracks(what, down)
    \/ /\ what = Touchscreen /\ ~GetLCDScreenOn
       /\ strayed' = (strayed \/ ~down)
       /\ UNCHANGED <<fCurrentButton, queues, ui>>
    \/ /\ what \in Buttons
       /\ PostButtonEvent([button |-> what, down |-> down])
       /\ Tracks(what, down)
    \/ /\ what = None
       /\ Tracks(what, down)
       /\ UNCHANGED <<queues, ui>>

MouseButton(where, down) ==
  /\ ui = "idle" /\ mouse = ~down
  /\ down => posts < kMaxPosts
  /\ mouse' = down
  /\ HandlePenEvent(where, down)
  /\ posts' = IF down THEN posts + 1 ELSE posts
  /\ UNCHANGED <<device, debugged, gremlins, refused>>

\* EmWindow::HandleIdle: the pen follows the mouse.
Track(where) ==
  /\ ui = "idle" /\ fCurrentButton = Touchscreen /\ posts < kMaxPosts
  /\ HandlePenEvent(where, TRUE)
  /\ posts' = posts + 1
  /\ UNCHANGED <<mouse, device, debugged, gremlins, refused>>

HandleKey ==
  /\ ui = "idle" /\ posts < kMaxPosts
  /\ PostKeyEvent
  /\ posts' = posts + 1
  /\ UNCHANGED <<tracking, device, debugged, gremlins, refused, strayed>>

-----------------------------------------------------------------------------
(* PrvWakeUpCPU: a stop at a system call, for EvtWakeup.  A guest that is   *)
(* asleep makes no system call.                                            *)

PrvWakeUpCPU ==
  /\ ui = "waking"
  /\ \/ ~debugged /\ guest # "asleep" /\ woken' = TRUE /\ UNCHANGED refused
     \/ debugged /\ refused' = TRUE /\ UNCHANGED woken
  /\ ui' = "idle"
  /\ UNCHANGED <<tracking, queues, guest, pen, fKeyBits, debugged, gremlins, strayed, posts>>

-----------------------------------------------------------------------------
(* EmPatchMgr::PuppetString, before the guest waits for an event. *)

Runs(where) == ~debugged /\ guest = where

GetKeyEvent ==
  /\ fKeyQueue # <<>>
  /\ fKeyQueue' = Tail(fKeyQueue) /\ woken' = TRUE
  /\ UNCHANGED <<fPenQueue, pen>>

GetPenEvent ==
  /\ fKeyQueue = <<>> /\ fPenQueue # <<>>
  /\ fPenQueue' = Tail(fPenQueue) /\ pen' = Head(fPenQueue).down /\ woken' = TRUE
  /\ UNCHANGED fKeyQueue

NoEvent ==
  /\ fKeyQueue = <<>> /\ fPenQueue = <<>>
  /\ UNCHANGED <<fKeyQueue, fPenQueue, pen, woken>>

\* Gremlins post events of their own and let no wait be endless.
FakeEvent == woken' = TRUE /\ UNCHANGED <<fKeyQueue, fPenQueue, pen>>

PuppetString ==
  /\ Runs("app")
  /\ guest' = "wait"
  /\ IF gremlins THEN FakeEvent ELSE GetKeyEvent \/ GetPenEvent \/ NoEvent
  /\ UNCHANGED <<tracking, fButtonQueue, fLastPenEvent, throttled, ui, fKeyBits, debugged,
                 gremlins, history>>

WaitEnds ==
  /\ Runs("wait") /\ woken
  /\ guest' = "app" /\ woken' = FALSE
  /\ UNCHANGED <<tracking, queues, ui, pen, fKeyBits, debugged, gremlins, history>>

-----------------------------------------------------------------------------
(* Buttons. *)

\* Mutant: events are given out only within the threshold.
HasRecentButtonEvent == throttled /\ fButtonQueue # <<>>

HasButtonEvent == ~throttled /\ fButtonQueue # <<>>

\* EmRegsEZ::ButtonEvent: an interrupt for a button that goes down.
ButtonEvent(event) ==
  IF event.down
    THEN /\ fKeyBits' = fKeyBits \union {event.button}
         /\ guest' = IF guest = "asleep" /\ event.button \notin fKeyBits THEN "app" ELSE guest
    ELSE fKeyBits' = fKeyBits \ {event.button} /\ UNCHANGED guest

CycleSlowly ==
  /\ ~debugged /\ HasButtonEvent
  /\ fButtonQueue' = Tail(fButtonQueue) /\ throttled' = TRUE
  /\ ButtonEvent(Head(fButtonQueue))
  /\ UNCHANGED <<tracking, fKeyQueue, fPenQueue, fLastPenEvent, ui, woken, pen, debugged,
                 gremlins, history>>

TimePasses ==
  /\ throttled
  /\ throttled' = FALSE
  /\ UNCHANGED <<tracking, fKeyQueue, fPenQueue, fButtonQueue, fLastPenEvent, ui, device,
                 debugged, gremlins, history>>

FallAsleep ==
  /\ Runs("app")
  /\ guest' = "asleep"
  /\ UNCHANGED <<tracking, queues, ui, woken, pen, fKeyBits, debugged, gremlins, history>>

\* EmCPU68K::ExecuteStoppedLoop: Gremlins press the Power button; kMaxPosts
\* bounds how often.
ExecuteStoppedLoop ==
  /\ Runs("asleep") /\ gremlins /\ ~HasButtonEvent /\ posts < kMaxPosts
  /\ fButtonQueue' = Append(Append(fButtonQueue, [button |-> PowerButton, down |-> TRUE]),
                            [button |-> PowerButton, down |-> FALSE])
  /\ throttled' = FALSE
  /\ posts' = posts + 1
  /\ UNCHANGED <<tracking, fKeyQueue, fPenQueue, fLastPenEvent, ui, device, debugged, gremlins,
                 refused, strayed>>

-----------------------------------------------------------------------------
(* What else goes on. *)

StartOrStopGremlins ==
  /\ ui = "idle" /\ ~debugged
  /\ gremlins' = ~gremlins
  /\ UNCHANGED <<tracking, queues, ui, device, debugged, history>>

StopOrContinue ==
  /\ debugged' = ~debugged
  /\ UNCHANGED <<tracking, queues, ui, device, gremlins, history>>

\* EmSession::Reset, other than by the system.
Reset ==
  /\ ~debugged
  /\ fKeyQueue' = <<>> /\ fPenQueue' = <<>> /\ fButtonQueue' = <<>>
  /\ fLastPenEvent' = PenUp
  /\ guest' = "app" /\ woken' = FALSE /\ pen' = FALSE /\ fKeyBits' = {}
  /\ UNCHANGED <<tracking, throttled, ui, debugged, gremlins, history>>

-----------------------------------------------------------------------------
UIThread ==
  \/ \E where \in Places \union Buttons : \E down \in BOOLEAN : MouseButton(where, down)
  \/ \E where \in Places \union Buttons : Track(where)
  \/ HandleKey \/ PrvWakeUpCPU

CPUThread ==
  \/ PuppetString \/ WaitEnds \/ CycleSlowly \/ FallAsleep \/ ExecuteStoppedLoop \/ Reset

Next == UIThread \/ CPUThread \/ TimePasses \/ StartOrStopGremlins \/ StopOrContinue

Spec == Init /\ [][Next]_vars

\* The UI thread goes on when its stop is granted or refused; the guest comes
\* back to wait for an event, cycles slowly as it goes, and time passes.
FairSpec ==
  /\ Spec
  /\ WF_vars(PrvWakeUpCPU)
  /\ WF_vars(PuppetString) /\ WF_vars(WaitEnds) /\ WF_vars(CycleSlowly) /\ WF_vars(TimePasses)

-----------------------------------------------------------------------------
TypeOK ==
  /\ mouse \in BOOLEAN /\ fCurrentButton \in {None, Touchscreen} \union Buttons
  /\ fKeyQueue \in Seq({"key"}) /\ fPenQueue \in Seq(PenEvents)
  /\ fButtonQueue \in Seq(ButtonEvents)
  /\ fLastPenEvent \in PenEvents /\ throttled \in BOOLEAN
  /\ ui \in {"idle", "waking"}
  /\ guest \in {"app", "wait", "asleep"} /\ woken \in BOOLEAN
  /\ debugged \in BOOLEAN /\ gremlins \in BOOLEAN
  /\ pen \in BOOLEAN /\ fKeyBits \in SUBSET Buttons
  /\ refused \in BOOLEAN /\ strayed \in BOOLEAN /\ posts \in 0..kMaxPosts

Waiting == fKeyQueue # <<>> \/ fPenQueue # <<>>

\* A guest does not doze over an event: one that is posted after the guest
\* looked for events and before, or while, it dozes comes with a wake-up, that
\* was made or is on its way - unless the stop for it was refused.
NoEventSleptOver ==
  guest = "wait" /\ Waiting /\ ~refused => woken \/ ui = "waking"

\* When the user has let go of the mouse and the guest has had all events,
\* neither the pen nor a button is down: no release was dropped, merged with
\* another event or overtaken by the press it belongs to - unless the window
\* or the session did not take the release.
NothingStaysPressed ==
  ~mouse /\ ~strayed =>
    /\ fPenQueue = <<>> => ~pen
    /\ fButtonQueue = <<>> => fKeyBits = {}

(* Why NothingStaysPressed holds: the parts of an inductive invariant. *)

\* The window tracks something only while the mouse button is down ...
TracksWhileDown == fCurrentButton # None => mouse

\* ... the pen will be up when the queue is empty, unless the window tracks it ...
PenWillBeDown(down, queue) == IF queue = <<>> THEN down ELSE queue[Len(queue)].down
PenFollows == PenWillBeDown(pen, fPenQueue) => fCurrentButton = Touchscreen

\* ... and so will each button.
WillBeDown(b, bits, queue) ==
  \/ b \in bits /\ \A j \in 1..Len(queue) : queue[j].button # b
  \/ \E i \in 1..Len(queue) :
       /\ queue[i] = [button |-> b, down |-> TRUE]
       /\ \A j \in 1..Len(queue) : j > i => queue[j].button # b
ButtonsFollow == \A b \in Buttons : WillBeDown(b, fKeyBits, fButtonQueue) => fCurrentButton = b

InputFollows == ~strayed => TracksWhileDown /\ PenFollows /\ ButtonsFollow

\* With a guest that stays awake and is left alone, all input is taken.
LeftAlone == guest # "asleep" /\ ~debugged /\ ~gremlins /\ ~refused
InputIsTaken == <>[]LeftAlone => []<>(~Waiting /\ fButtonQueue = <<>>)
=============================================================================
