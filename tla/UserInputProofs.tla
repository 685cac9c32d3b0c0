--------------------------- MODULE UserInputProofs ---------------------------
(***************************************************************************)
(* What UserInput promises of the user's input, for every screen and every *)
(* set of buttons: no event is slept over, and nothing stays pressed.      *)
(***************************************************************************)
EXTENDS UserInput, SequenceTheorems, TLAPS

(* The last element of a sequence, and what is left of it, without its head *)
(* and with one more element.                                              *)
LEMMA TailFacts ==
  ASSUME NEW S, NEW q \in Seq(S), q # <<>>
  PROVE  /\ Tail(q) \in Seq(S) /\ Len(Tail(q)) = Len(q) - 1
         /\ Len(q) > 0 /\ Head(q) = q[1] /\ q[1] \in S
         /\ DOMAIN Tail(q) = 1..(Len(q) - 1)
         /\ \A i \in 1..(Len(q) - 1) : Tail(q)[i] = q[i + 1]
         /\ Tail(q) = <<>> <=> Len(q) = 1
<1>1. /\ Head(q) \in S /\ Tail(q) \in Seq(S) /\ Len(Tail(q)) = Len(q) - 1
      /\ \A i \in 1..Len(Tail(q)) : Tail(q)[i] = q[i + 1]
  BY HeadTailProperties
<1>2. Len(q) \in Nat /\ Len(q) > 0 /\ Head(q) = q[1]
  OBVIOUS
<1>3. DOMAIN Tail(q) = 1..Len(Tail(q)) /\ (Tail(q) = <<>> <=> Len(Tail(q)) = 0)
  BY <1>1
<1> QED BY <1>1, <1>2, <1>3

LEMMA AppendFacts ==
  ASSUME NEW S, NEW q \in Seq(S), NEW e \in S
  PROVE  /\ Append(q, e) \in Seq(S) /\ Len(Append(q, e)) = Len(q) + 1
         /\ DOMAIN Append(q, e) = 1..(Len(q) + 1)
         /\ \A i \in 1..Len(q) : Append(q, e)[i] = q[i]
         /\ Append(q, e)[Len(q) + 1] = e
         /\ Append(q, e) # <<>>
OBVIOUS

-----------------------------------------------------------------------------
(* Types. *)

LEMMA EventTypes ==
  /\ \A where \in Places \union Buttons : Down(where) \in PenEvents
  /\ PenUp \in PenEvents
  /\ \A e \in PenEvents : e.down \in BOOLEAN
  /\ \A b \in Buttons : \A d \in BOOLEAN : [button |-> b, down |-> d] \in ButtonEvents
  /\ PowerButton \in Buttons
<1>1. \A where \in Places \union Buttons : Down(where) \in PenEvents
  BY DEF PenEvents
<1>2. PenUp \in PenEvents
  BY DEF PenEvents
<1>3. ASSUME NEW e \in PenEvents PROVE e.down \in BOOLEAN
  <2>1. CASE e = PenUp
    BY <2>1 DEF PenUp
  <2>2. CASE e # PenUp
    <3>1. PICK where \in Places \union Buttons : e = Down(where)
      BY <2>2, <1>3 DEF PenEvents
    <3> QED BY <3>1 DEF Down
  <2> QED BY <2>1, <2>2
<1>4. \A b \in Buttons : \A d \in BOOLEAN : [button |-> b, down |-> d] \in ButtonEvents
  BY DEF ButtonEvents
<1> QED BY <1>1, <1>2, <1>3, <1>4, ButtonsAssumption

LEMMA EmptyQueues ==
  <<>> \in Seq({"key"}) /\ <<>> \in Seq(PenEvents) /\ <<>> \in Seq(ButtonEvents)
OBVIOUS

LEMMA PostPenType ==
  ASSUME TypeOK, NEW e \in PenEvents, PostPenEvent(e)
  PROVE  /\ fPenQueue' \in Seq(PenEvents) /\ fLastPenEvent' \in PenEvents
         /\ ui' \in {"idle", "waking"}
         /\ UNCHANGED <<fKeyQueue, fButtonQueue, throttled>>
<1>1. /\ fPenQueue \in Seq(PenEvents) /\ fLastPenEvent \in PenEvents
      /\ ui \in {"idle", "waking"}
  BY DEF TypeOK
<1>2. Append(fPenQueue, e) \in Seq(PenEvents)
  BY <1>1, AppendFacts
<1>3. \/ UNCHANGED <<fPenQueue, fLastPenEvent, ui>>
      \/ fPenQueue' = Append(fPenQueue, e) /\ fLastPenEvent' = e /\ ui' = "waking"
  BY DEF PostPenEvent
<1>4. UNCHANGED <<fKeyQueue, fButtonQueue, throttled>>
  BY DEF PostPenEvent
<1> QED BY ONLY e \in PenEvents, <1>1, <1>2, <1>3, <1>4

LEMMA PostButtonType ==
  ASSUME TypeOK, NEW e \in ButtonEvents, PostButtonEvent(e)
  PROVE  /\ fButtonQueue' \in Seq(ButtonEvents)
         /\ UNCHANGED <<fKeyQueue, fPenQueue, fLastPenEvent, throttled, ui>>
BY AppendFacts DEF TypeOK, PostButtonEvent

LEMMA HandlePenType ==
  ASSUME TypeOK, NEW where \in Places \union Buttons, NEW down \in BOOLEAN,
         HandlePenEvent(where, down)
  PROVE  /\ fCurrentButton' \in {None, Touchscreen} \union Buttons
         /\ fKeyQueue' \in Seq({"key"}) /\ fPenQueue' \in Seq(PenEvents)
         /\ fButtonQueue' \in Seq(ButtonEvents)
         /\ fLastPenEvent' \in PenEvents /\ throttled' \in BOOLEAN
         /\ ui' \in {"idle", "waking"} /\ strayed' \in BOOLEAN
<1> DEFINE what == What(where, down)
<1>1. what \in {None, Touchscreen} \union Buttons
  BY DEF What, Element, TypeOK
<1>2. strayed' \in BOOLEAN
  BY DEF HandlePenEvent, Tracks, TypeOK, PrvCanBotherCPU
<1>3. fCurrentButton' \in {None, Touchscreen} \union Buttons
  BY <1>1 DEF HandlePenEvent, Tracks, TypeOK
<1>4. CASE PostPenEvent(IF down THEN Down(where) ELSE PenUp)
  <2>1. (IF down THEN Down(where) ELSE PenUp) \in PenEvents
    BY EventTypes
  <2> QED BY <1>2, <1>3, <1>4, <2>1, PostPenType DEF TypeOK
<1>5. CASE what \in Buttons /\ PostButtonEvent([button |-> what, down |-> down])
  <2>1. [button |-> what, down |-> down] \in ButtonEvents
    BY <1>5, EventTypes
  <2> QED BY <1>2, <1>3, <1>5, <2>1, PostButtonType DEF TypeOK
<1>6. CASE UNCHANGED <<queues, ui>>
  BY <1>2, <1>3, <1>6 DEF TypeOK, queues
<1> QED BY <1>4, <1>5, <1>6 DEF HandlePenEvent

(* TypeOK in two parts: what is a sequence or an event, and the rest.       *)
QueuesTyped ==
  /\ fKeyQueue \in Seq({"key"}) /\ fPenQueue \in Seq(PenEvents)
  /\ fButtonQueue \in Seq(ButtonEvents) /\ fLastPenEvent \in PenEvents

RestTyped ==
  /\ mouse \in BOOLEAN /\ fCurrentButton \in {None, Touchscreen} \union Buttons
  /\ throttled \in BOOLEAN /\ ui \in {"idle", "waking"}
  /\ guest \in {"app", "wait", "asleep"} /\ woken \in BOOLEAN
  /\ debugged \in BOOLEAN /\ gremlins \in BOOLEAN
  /\ pen \in BOOLEAN /\ fKeyBits \in SUBSET Buttons
  /\ refused \in BOOLEAN /\ strayed \in BOOLEAN /\ posts \in 0..kMaxPosts

LEMMA TypeParts ==
  /\ TypeOK => QueuesTyped /\ RestTyped
  /\ QueuesTyped' /\ RestTyped' => TypeOK'
BY DEF TypeOK, QueuesTyped, RestTyped

LEMMA QueuesKept == QueuesTyped /\ UNCHANGED queues => QueuesTyped'
BY DEF QueuesTyped, queues

LEMMA TypeStep == TypeOK /\ [Next]_vars => TypeOK'
<1> SUFFICES ASSUME TypeOK, [Next]_vars PROVE TypeOK'
  OBVIOUS
<1>0. RestTyped
  BY TypeParts
<1>1. ASSUME NEW where \in Places \union Buttons, NEW down \in BOOLEAN, MouseButton(where, down)
      PROVE  TypeOK'
  <2>1. HandlePenEvent(where, down)
    BY <1>1 DEF MouseButton
  <2> QED BY <1>1, <2>1, HandlePenType, BoundAssumption DEF MouseButton, TypeOK, device
<1>2. ASSUME NEW where \in Places \union Buttons, Track(where)
      PROVE  TypeOK'
  <2>1. HandlePenEvent(where, TRUE)
    BY <1>2 DEF Track
  <2>2. posts' \in 0..kMaxPosts
    BY <1>2, BoundAssumption DEF Track, TypeOK
  <2>3. mouse' \in BOOLEAN /\ guest' \in {"app", "wait", "asleep"} /\ woken' \in BOOLEAN
        /\ debugged' \in BOOLEAN /\ gremlins' \in BOOLEAN /\ pen' \in BOOLEAN
        /\ fKeyBits' \in SUBSET Buttons /\ refused' \in BOOLEAN
    BY <1>2 DEF Track, TypeOK, device
  <2> QED BY <2>1, <2>2, <2>3, HandlePenType DEF TypeOK
<1>3. CASE HandleKey
  BY <1>3, BoundAssumption DEF HandleKey, PostKeyEvent, TypeOK, tracking, device
<1>4. CASE PrvWakeUpCPU
  <2>1. QueuesTyped'
    BY <1>4, TypeParts, QueuesKept DEF PrvWakeUpCPU
  <2>2. RestTyped'
    BY ONLY <1>0, <1>4 DEF PrvWakeUpCPU, RestTyped, tracking, queues
  <2> QED BY <2>1, <2>2, TypeParts
<1>5. CASE PuppetString
  <2>1. /\ fKeyQueue' \in Seq({"key"}) /\ fPenQueue' \in Seq(PenEvents)
        /\ woken' \in BOOLEAN /\ pen' \in BOOLEAN
    <3>1. CASE FakeEvent \/ NoEvent
      BY <3>1 DEF FakeEvent, NoEvent, TypeOK
    <3>2. CASE GetKeyEvent
      BY <3>2, TailFacts DEF GetKeyEvent, TypeOK
    <3>3. CASE GetPenEvent
      BY <3>3, TailFacts, EventTypes DEF GetPenEvent, TypeOK
    <3> QED BY <1>5, <3>1, <3>2, <3>3 DEF PuppetString
  <2> QED BY <1>5, <2>1 DEF PuppetString, TypeOK, tracking, history
<1>6. CASE WaitEnds
  BY <1>6 DEF WaitEnds, TypeOK, tracking, queues, history
<1>7. CASE CycleSlowly
  <2>1. fButtonQueue' \in Seq(ButtonEvents) /\ Head(fButtonQueue) \in ButtonEvents
    BY <1>7, TailFacts DEF CycleSlowly, HasButtonEvent, TypeOK
  <2>2. fKeyBits' \in SUBSET Buttons /\ guest' \in {"app", "wait", "asleep"}
    BY <1>7, <2>1 DEF CycleSlowly, ButtonEvent, ButtonEvents, TypeOK
  <2> QED BY <1>7, <2>1, <2>2 DEF CycleSlowly, TypeOK, tracking, history
<1>8. CASE FallAsleep
  BY <1>8 DEF FallAsleep, TypeOK, tracking, queues, history
<1>9. CASE ExecuteStoppedLoop
  <2>1. fButtonQueue' \in Seq(ButtonEvents)
    <3> DEFINE down == [button |-> PowerButton, down |-> TRUE]
               up == [button |-> PowerButton, down |-> FALSE]
    <3>1. down \in ButtonEvents /\ up \in ButtonEvents
      BY EventTypes
    <3>2. fButtonQueue' = Append(Append(fButtonQueue, down), up)
      BY <1>9 DEF ExecuteStoppedLoop
    <3> HIDE DEF down, up
    <3> QED BY <3>1, <3>2, AppendFacts DEF TypeOK
  <2>2. posts < kMaxPosts /\ posts' = posts + 1
    BY <1>9 DEF ExecuteStoppedLoop
  <2>3. posts \in 0..kMaxPosts
    BY DEF TypeOK
  <2>4. posts' \in 0..kMaxPosts
    BY <2>2, <2>3, BoundAssumption
  <2>5. QueuesTyped'
    BY <1>9, <2>1, TypeParts DEF ExecuteStoppedLoop, QueuesTyped
  <2>6. RestTyped'
    BY ONLY <1>0, <1>9, <2>4 DEF ExecuteStoppedLoop, RestTyped, tracking, device
  <2> QED BY <2>5, <2>6, TypeParts
<1>10. CASE Reset
  <2>1. QueuesTyped'
    BY <1>10, EventTypes, EmptyQueues DEF Reset, QueuesTyped
  <2>2. UNCHANGED <<mouse, fCurrentButton, throttled, ui, debugged, gremlins>>
    BY ONLY <1>10 DEF Reset, tracking
  <2>3. UNCHANGED <<refused, strayed, posts>>
    BY ONLY <1>10 DEF Reset, history
  <2>4. guest' = "app" /\ woken' = FALSE /\ pen' = FALSE /\ fKeyBits' = {}
    BY ONLY <1>10 DEF Reset
  <2>5. RestTyped'
    BY ONLY <1>0, <2>2, <2>3, <2>4 DEF RestTyped
  <2> QED BY <2>1, <2>5, TypeParts
<1>11. CASE TimePasses
  <2>1. QueuesTyped'
    BY <1>11, TypeParts DEF TimePasses, QueuesTyped
  <2>2. /\ UNCHANGED <<mouse, fCurrentButton, ui, debugged, gremlins>>
        /\ UNCHANGED <<refused, strayed, posts>>
    BY ONLY <1>11 DEF TimePasses, tracking, history
  <2>3. UNCHANGED <<guest, woken, pen, fKeyBits>>
    BY ONLY <1>11 DEF TimePasses, device
  <2>4. throttled' \in BOOLEAN
    BY ONLY <1>11 DEF TimePasses
  <2>5. RestTyped'
    BY ONLY <1>0, <2>2, <2>3, <2>4 DEF RestTyped
  <2> QED BY <2>1, <2>5, TypeParts
<1>12. CASE StartOrStopGremlins \/ StopOrContinue
  <2>1. QueuesTyped'
    BY <1>12, TypeParts, QueuesKept DEF StartOrStopGremlins, StopOrContinue
  <2>2. /\ UNCHANGED <<mouse, fCurrentButton, throttled, ui, refused, strayed, posts>>
        /\ UNCHANGED <<guest, woken, pen, fKeyBits>>
    BY ONLY <1>12 DEF StartOrStopGremlins, StopOrContinue, tracking, queues, device, history
  <2>3. gremlins \in BOOLEAN /\ debugged \in BOOLEAN
    BY ONLY <1>0 DEF RestTyped
  <2>4. gremlins' \in BOOLEAN /\ debugged' \in BOOLEAN
    BY ONLY <1>12, <2>3 DEF StartOrStopGremlins, StopOrContinue
  <2>5. RestTyped'
    BY ONLY <1>0, <2>2, <2>4 DEF RestTyped
  <2> QED BY <2>1, <2>5, TypeParts
<1>13. CASE UNCHANGED vars
  BY <1>13 DEF vars, TypeOK, tracking, queues, device, history
<1> QED
  BY <1>1, <1>2, <1>3, <1>4, <1>5, <1>6, <1>7, <1>8, <1>9, <1>10, <1>11, <1>12, <1>13
     DEF Next, UIThread, CPUThread

(* The state of UserInput is always of its type: events reach the queues,  *)
(* the guest and the hardware as events, whatever the user, the guest and  *)
(* Gremlins do.                                                            *)
THEOREM InputIsTyped == Spec => []TypeOK
<1>1. Init => TypeOK
  <2> SUFFICES ASSUME Init PROVE TypeOK
    OBVIOUS
  <2>1. fKeyQueue \in Seq({"key"}) /\ fPenQueue \in Seq(PenEvents)
        /\ fButtonQueue \in Seq(ButtonEvents) /\ fLastPenEvent \in PenEvents
    BY EventTypes, EmptyQueues DEF Init
  <2>2. posts \in 0..kMaxPosts /\ fKeyBits \in SUBSET Buttons
    BY BoundAssumption DEF Init
  <2> QED BY <2>1, <2>2 DEF Init, TypeOK
<1> QED BY <1>1, TypeStep, PTL DEF Spec

-----------------------------------------------------------------------------
(* Nothing is slept over. *)

LEMMA PostPenWakes ==
  ASSUME NEW e, PostPenEvent(e)
  PROVE  ui' = "waking" \/ UNCHANGED <<fKeyQueue, fPenQueue, ui>>
BY DEF PostPenEvent

LEMMA HandlePenWakes ==
  ASSUME NEW where, NEW down, HandlePenEvent(where, down)
  PROVE  ui' = "waking" \/ UNCHANGED <<fKeyQueue, fPenQueue, ui>>
<1> DEFINE what == What(where, down)
<1>1. CASE PostPenEvent(IF down THEN Down(where) ELSE PenUp)
  BY <1>1, PostPenWakes
<1>2. CASE PostButtonEvent([button |-> what, down |-> down])
  BY <1>2 DEF PostButtonEvent
<1>3. CASE UNCHANGED <<queues, ui>>
  BY <1>3 DEF queues
<1> QED BY <1>1, <1>2, <1>3 DEF HandlePenEvent

LEMMA SleptOverStep == NoEventSleptOver /\ [Next]_vars => NoEventSleptOver'
<1> SUFFICES ASSUME NoEventSleptOver, [Next]_vars PROVE NoEventSleptOver'
  OBVIOUS
<1> USE DEF NoEventSleptOver, Waiting
<1>1. ASSUME NEW where, NEW down, MouseButton(where, down) PROVE NoEventSleptOver'
  BY <1>1, HandlePenWakes DEF MouseButton, device
<1>2. ASSUME NEW where, Track(where) PROVE NoEventSleptOver'
  BY <1>2, HandlePenWakes DEF Track, device
<1>3. CASE HandleKey
  BY <1>3 DEF HandleKey, PostKeyEvent
<1>4. CASE PrvWakeUpCPU
  BY <1>4 DEF PrvWakeUpCPU, queues
<1>5. CASE PuppetString
  BY <1>5 DEF PuppetString, FakeEvent, GetKeyEvent, GetPenEvent, NoEvent
<1>6. CASE WaitEnds
  BY <1>6 DEF WaitEnds
<1>7. CASE CycleSlowly
  BY <1>7 DEF CycleSlowly, ButtonEvent, history
<1>8. CASE FallAsleep
  BY <1>8 DEF FallAsleep
<1>9. CASE ExecuteStoppedLoop
  BY <1>9 DEF ExecuteStoppedLoop, Runs, device
<1>10. CASE Reset
  BY <1>10 DEF Reset
<1>11. CASE TimePasses
  BY <1>11 DEF TimePasses, device, history
<1>12. CASE StartOrStopGremlins \/ StopOrContinue
  BY <1>12 DEF StartOrStopGremlins, StopOrContinue, queues, device, history
<1>13. CASE UNCHANGED vars
  BY <1>13 DEF vars, queues, device, history
<1> QED
  BY <1>1, <1>2, <1>3, <1>4, <1>5, <1>6, <1>7, <1>8, <1>9, <1>10, <1>11, <1>12, <1>13
     DEF Next, UIThread, CPUThread

(* No guest dozes over an event of the user: the wake-up that PrvWakeUpCPU *)
(* owes it has been made, is on its way or was refused.                    *)
THEOREM NothingIsSleptOver == Spec => []NoEventSleptOver
<1>1. Init => NoEventSleptOver
  BY DEF Init, NoEventSleptOver
<1> QED BY <1>1, SleptOverStep, PTL DEF Spec

-----------------------------------------------------------------------------
(* Nothing stays pressed. *)

(* An event that joins the queue has the last word on its button, and no   *)
(* word on another one.                                                    *)
LEMMA LastWord ==
  ASSUME NEW queue \in Seq(ButtonEvents), NEW e \in ButtonEvents, NEW bits,
         NEW b \in Buttons, WillBeDown(b, bits, Append(queue, e))
  PROVE  /\ e.button = b => e.down
         /\ e.button # b => WillBeDown(b, bits, queue)
<1> DEFINE q == Append(queue, e)
<1>1. /\ Len(q) = Len(queue) + 1 /\ q[Len(queue) + 1] = e
      /\ \A i \in 1..Len(queue) : q[i] = queue[i] /\ i \in 1..Len(q)
  BY AppendFacts
<1>2. Len(queue) \in Nat /\ Len(q) \in 1..Len(q)
  BY <1>1
<1> HIDE DEF q
<1>3. CASE b \in bits /\ \A j \in 1..Len(q) : q[j].button # b
  BY <1>1, <1>2, <1>3 DEF WillBeDown
<1>4. ASSUME NEW i \in 1..Len(q), q[i] = [button |-> b, down |-> TRUE],
             \A j \in 1..Len(q) : j > i => q[j].button # b
      PROVE  /\ e.button = b => e.down
             /\ e.button # b => WillBeDown(b, bits, queue)
  <2>1. CASE i = Len(q)
    BY <1>1, <1>4, <2>1
  <2>2. CASE i # Len(q)
    <3>1. i \in 1..Len(queue) /\ Len(q) > i
      BY <1>1, <1>2, <2>2
    <3>2. queue[i] = [button |-> b, down |-> TRUE] /\ e.button # b
      BY <1>1, <1>2, <1>4, <3>1
    <3>3. \A j \in 1..Len(queue) : j > i => queue[j].button # b
      BY <1>1, <1>4
    <3> QED BY <3>1, <3>2, <3>3 DEF WillBeDown
  <2> QED BY <2>1, <2>2
<1> QED BY <1>3, <1>4 DEF WillBeDown, q

(* The first event of the queue does to the buttons what the queue said. *)
LEMMA FirstWord ==
  ASSUME NEW queue \in Seq(ButtonEvents), queue # <<>>, NEW bits, NEW b \in Buttons,
         NEW bits2,
         bits2 = IF Head(queue).down THEN bits \union {Head(queue).button}
                                     ELSE bits \ {Head(queue).button},
         WillBeDown(b, bits2, Tail(queue))
  PROVE  WillBeDown(b, bits, queue)
<1> DEFINE q == Tail(queue)
<1>1. /\ Len(q) = Len(queue) - 1 /\ Head(queue) = queue[1] /\ queue[1] \in ButtonEvents
      /\ \A i \in 1..Len(q) : q[i] = queue[i + 1] /\ i + 1 \in 1..Len(queue)
      /\ 1 \in 1..Len(queue) /\ Len(queue) \in Nat
  BY TailFacts
<1>2. WillBeDown(b, bits2, q)
  OBVIOUS
<1> HIDE DEF q
<1>3. \A j \in 1..Len(queue) : j = 1 \/ (j - 1 \in 1..Len(q) /\ queue[j] = q[j - 1])
  BY <1>1
<1>4. CASE b \in bits2 /\ \A j \in 1..Len(q) : q[j].button # b
  <2>1. \A j \in 1..Len(queue) : j > 1 => queue[j].button # b
    BY <1>3, <1>4
  <2>2. CASE queue[1].button = b
    <3>1. queue[1].down
      BY <1>1, <1>4, <2>2
    <3>2. queue[1] = [button |-> b, down |-> TRUE]
      BY <1>1, <2>2, <3>1 DEF ButtonEvents
    <3> QED BY <1>1, <2>1, <3>2 DEF WillBeDown
  <2>3. CASE queue[1].button # b
    <3>1. b \in bits
      BY <1>1, <1>4, <2>3
    <3>2. \A j \in 1..Len(queue) : queue[j].button # b
      BY <1>3, <1>4, <2>3
    <3> QED BY <3>1, <3>2 DEF WillBeDown
  <2> QED BY <2>2, <2>3
<1>5. ASSUME NEW i \in 1..Len(q), q[i] = [button |-> b, down |-> TRUE],
             \A j \in 1..Len(q) : j > i => q[j].button # b
      PROVE  WillBeDown(b, bits, queue)
  <2>1. i + 1 \in 1..Len(queue) /\ queue[i + 1] = [button |-> b, down |-> TRUE]
    BY <1>1, <1>5
  <2>2. ASSUME NEW j \in 1..Len(queue), j > i + 1 PROVE queue[j].button # b
    <3>1. j - 1 \in 1..Len(q) /\ queue[j] = q[j - 1] /\ j - 1 > i
      BY <1>1, <1>3, <2>2
    <3> QED BY <1>5, <3>1
  <2> QED BY <2>1, <2>2 DEF WillBeDown
<1> QED BY <1>2, <1>4, <1>5 DEF WillBeDown

LEMMA PostPenFollows ==
  ASSUME TypeOK, NEW e \in PenEvents, PostPenEvent(e)
  PROVE  PenWillBeDown(pen, fPenQueue') => e.down \/ ~PrvCanBotherCPU
<1>1. CASE UNCHANGED <<fPenQueue, fLastPenEvent, ui>> /\ e.down
  BY <1>1
<1>2. CASE UNCHANGED <<fPenQueue, fLastPenEvent, ui>> /\ ~e.down
  BY <1>2 DEF PostPenEvent, PrvCanBotherCPU, TypeOK
<1>3. CASE fPenQueue' = Append(fPenQueue, e)
  BY <1>3, AppendFacts DEF PenWillBeDown, TypeOK
<1> QED BY <1>1, <1>2, <1>3 DEF PostPenEvent

(* What a press and a release do, by what the window tracks. *)
LEMMA HandlePenFollows ==
  ASSUME TypeOK, InputFollows, ~strayed, NEW where \in Places \union Buttons,
         NEW down \in BOOLEAN, HandlePenEvent(where, down), ~strayed',
         UNCHANGED <<pen, fKeyBits>>,
         down => mouse' /\ (mouse => fCurrentButton = Touchscreen),
         ~down => mouse
  PROVE  InputFollows'
<1> DEFINE what == What(where, down)
<1>a. /\ None # Touchscreen /\ None \notin Buttons /\ Touchscreen \notin Buttons
      /\ Element(where) # None
  BY ButtonsAssumption DEF None, Touchscreen, Element
<1>b. /\ fCurrentButton # None => mouse
      /\ PenWillBeDown(pen, fPenQueue) => fCurrentButton = Touchscreen
      /\ \A b \in Buttons : WillBeDown(b, fKeyBits, fButtonQueue) => fCurrentButton = b
  BY DEF InputFollows, TracksWhileDown, PenFollows, ButtonsFollow
<1>c. what = IF down /\ fCurrentButton = None THEN Element(where) ELSE fCurrentButton
  BY DEF What
<1>d. fCurrentButton = None \/ what = fCurrentButton
  BY <1>c
<1> SUFFICES /\ fCurrentButton' # None => mouse'
             /\ PenWillBeDown(pen, fPenQueue') => fCurrentButton' = Touchscreen
             /\ \A b \in Buttons : WillBeDown(b, fKeyBits, fButtonQueue') => fCurrentButton' = b
  BY DEF InputFollows, TracksWhileDown, PenFollows, ButtonsFollow
<1> HIDE DEF what
<1>1. CASE /\ what = Touchscreen /\ PostPenEvent(IF down THEN Down(where) ELSE PenUp)
           /\ Tracks(what, down)
  <2> DEFINE e == IF down THEN Down(where) ELSE PenUp
  <2>1. e \in PenEvents /\ (e.down => down)
    BY EventTypes DEF Down, PenUp
  <2>2. fCurrentButton' = (IF down THEN Touchscreen ELSE None) /\ (~down => PrvCanBotherCPU)
    BY <1>1, <1>a DEF Tracks
  <2>3. fButtonQueue' = fButtonQueue
    BY <1>1 DEF PostPenEvent
  <2>4. PostPenEvent(e)
    BY <1>1
  <2> HIDE DEF e
  <2>5. PenWillBeDown(pen, fPenQueue') => fCurrentButton' = Touchscreen
    BY <2>1, <2>2, <2>4, PostPenFollows
  <2>6. \A b \in Buttons : ~WillBeDown(b, fKeyBits, fButtonQueue)
    BY <1>1, <1>a, <1>b, <1>d
  <2> QED BY <2>2, <2>3, <2>5, <2>6
<1>2. CASE /\ what = Touchscreen /\ strayed' = (strayed \/ ~down)
           /\ UNCHANGED <<fCurrentButton, queues, ui>>
  BY <1>2, <1>b DEF queues
<1>3. CASE /\ what \in Buttons /\ PostButtonEvent([button |-> what, down |-> down])
           /\ Tracks(what, down)
  <2> DEFINE e == [button |-> what, down |-> down]
  <2>1. e \in ButtonEvents /\ e.button = what /\ e.down = down
    BY <1>3, EventTypes
  <2>2. fCurrentButton' = (IF down THEN what ELSE None) /\ (~down => PrvCanBotherCPU)
    BY <1>3, <1>a DEF Tracks
  <2>3. UNCHANGED fPenQueue /\ ~PenWillBeDown(pen, fPenQueue)
    BY <1>3, <1>a, <1>b, <1>d DEF PostButtonEvent
  <2>4. fButtonQueue' = IF PrvCanBotherCPU THEN Append(fButtonQueue, e) ELSE fButtonQueue
    BY <1>3 DEF PostButtonEvent
  <2> HIDE DEF e
  <2>5. ASSUME NEW b \in Buttons, WillBeDown(b, fKeyBits, fButtonQueue')
        PROVE  fCurrentButton' = b
    <3>1. WillBeDown(b, fKeyBits, fButtonQueue) => what = b
      BY <1>a, <1>b, <1>d
    <3>2. CASE fButtonQueue' = fButtonQueue /\ ~PrvCanBotherCPU
      BY <2>2, <2>5, <3>1, <3>2
    <3>3. CASE fButtonQueue' = Append(fButtonQueue, e)
      <4>1. WillBeDown(b, fKeyBits, Append(fButtonQueue, e))
        BY <2>5, <3>3
      <4>2. fButtonQueue \in Seq(ButtonEvents)
        BY DEF TypeOK
      <4>3. (e.button = b => e.down) /\ (e.button # b => WillBeDown(b, fKeyBits, fButtonQueue))
        BY <2>1, <4>1, <4>2, LastWord
      <4> QED BY <2>1, <2>2, <3>1, <4>3
    <3> QED BY <2>4, <3>2, <3>3
  <2>6. ~down => fCurrentButton' = None
    BY <2>2
  <2> QED BY <2>2, <2>3, <2>5, <2>6
<1>4. CASE what = None /\ Tracks(what, down) /\ UNCHANGED <<queues, ui>>
  <2>1. ~down /\ fCurrentButton = None
    BY <1>4, <1>a, <1>c
  <2>2. fCurrentButton' = None /\ UNCHANGED <<fPenQueue, fButtonQueue>>
    BY <1>4, <2>1 DEF Tracks, queues
  <2> QED BY <1>b, <2>1, <2>2
<1> QED BY <1>1, <1>2, <1>3, <1>4 DEF HandlePenEvent, what

LEMMA FollowsStep == TypeOK /\ InputFollows /\ [Next]_vars => InputFollows'
<1> SUFFICES ASSUME TypeOK, InputFollows, [Next]_vars, ~strayed' PROVE InputFollows'
  BY DEF InputFollows
<1> DEFINE Unchanged == UNCHANGED <<mouse, fCurrentButton, fPenQueue, fButtonQueue, pen, fKeyBits>>
<1>a. ASSUME Unchanged, ~strayed PROVE InputFollows'
  BY <1>a DEF InputFollows, TracksWhileDown, PenFollows, ButtonsFollow
<1>b. None # Touchscreen
  BY DEF None, Touchscreen
<1>1. ASSUME NEW where \in Places \union Buttons, NEW down \in BOOLEAN, MouseButton(where, down)
      PROVE  InputFollows'
  <2>1. HandlePenEvent(where, down) /\ mouse = ~down /\ mouse' = down /\ UNCHANGED <<pen, fKeyBits>>
    BY <1>1 DEF MouseButton, device
  <2>2. ~strayed
    BY <2>1 DEF HandlePenEvent, Tracks, PostButtonEvent
  <2> QED BY <2>1, <2>2, HandlePenFollows
<1>2. ASSUME NEW where \in Places \union Buttons, Track(where) PROVE InputFollows'
  <2>1. /\ HandlePenEvent(where, TRUE) /\ fCurrentButton = Touchscreen
        /\ mouse' = mouse /\ UNCHANGED <<pen, fKeyBits>>
    BY <1>2 DEF Track, device
  <2>2. ~strayed
    BY <2>1 DEF HandlePenEvent, Tracks
  <2>3. mouse
    BY <2>1, <2>2, <1>b DEF InputFollows, TracksWhileDown
  <2> QED BY <2>1, <2>2, <2>3, HandlePenFollows
<1>3. CASE HandleKey
  BY <1>3, <1>a DEF HandleKey, PostKeyEvent, tracking, device
<1>4. CASE PrvWakeUpCPU
  BY <1>4, <1>a DEF PrvWakeUpCPU, tracking, queues
<1>5. CASE PuppetString
  <2>1. UNCHANGED <<mouse, fCurrentButton, fButtonQueue, fKeyBits, strayed>>
    BY <1>5 DEF PuppetString, tracking, history
  <2>2. CASE UNCHANGED <<fPenQueue, pen>>
    BY <1>a, <2>1, <2>2
  <2>3. CASE GetPenEvent
    <3> DEFINE n == Len(fPenQueue)
    <3>1. fPenQueue # <<>> /\ fPenQueue' = Tail(fPenQueue) /\ pen' = Head(fPenQueue).down
      BY <2>3 DEF GetPenEvent
    <3>2. /\ Len(Tail(fPenQueue)) = n - 1 /\ n \in Nat /\ n > 0
          /\ Head(fPenQueue) = fPenQueue[1]
          /\ \A i \in 1..(n - 1) : Tail(fPenQueue)[i] = fPenQueue[i + 1]
          /\ Tail(fPenQueue) = <<>> <=> n = 1
      BY <3>1, TailFacts DEF TypeOK
    <3>3. PenWillBeDown(pen', fPenQueue') = fPenQueue[n].down
      <4>1. CASE n = 1
        BY <3>1, <3>2, <4>1 DEF PenWillBeDown
      <4>2. CASE n # 1
        <5>1. Tail(fPenQueue)[n - 1] = fPenQueue[n]
          BY <3>2, <4>2
        <5> QED BY <3>1, <3>2, <4>2, <5>1 DEF PenWillBeDown
      <4> QED BY <4>1, <4>2
    <3>4. PenWillBeDown(pen, fPenQueue) = fPenQueue[n].down
      BY <3>1 DEF PenWillBeDown
    <3>5. PenWillBeDown(pen', fPenQueue') <=> PenWillBeDown(pen, fPenQueue)
      BY <3>3, <3>4
    <3> QED BY <2>1, <3>5 DEF InputFollows, TracksWhileDown, PenFollows, ButtonsFollow
  <2> QED BY <1>5, <2>2, <2>3 DEF PuppetString, FakeEvent, GetKeyEvent, NoEvent
<1>6. CASE WaitEnds
  BY <1>6, <1>a DEF WaitEnds, tracking, queues, history
<1>7. CASE CycleSlowly
  <2>1. /\ fButtonQueue # <<>> /\ fButtonQueue' = Tail(fButtonQueue)
        /\ ButtonEvent(Head(fButtonQueue))
        /\ UNCHANGED <<mouse, fCurrentButton, fPenQueue, pen, strayed>>
    BY <1>7 DEF CycleSlowly, HasButtonEvent, tracking, history
  <2>2. fKeyBits' = IF Head(fButtonQueue).down
                      THEN fKeyBits \union {Head(fButtonQueue).button}
                      ELSE fKeyBits \ {Head(fButtonQueue).button}
    BY <2>1 DEF ButtonEvent
  <2>3. fButtonQueue \in Seq(ButtonEvents)
    BY DEF TypeOK
  <2>4. \A b \in Buttons : WillBeDown(b, fKeyBits', Tail(fButtonQueue))
                             => WillBeDown(b, fKeyBits, fButtonQueue)
    BY <2>1, <2>2, <2>3, FirstWord
  <2> QED BY <2>1, <2>4 DEF InputFollows, TracksWhileDown, PenFollows, ButtonsFollow
<1>8. CASE FallAsleep
  BY <1>8, <1>a DEF FallAsleep, tracking, queues, history
<1>9. CASE ExecuteStoppedLoop
  <2> DEFINE down == [button |-> PowerButton, down |-> TRUE]
             up == [button |-> PowerButton, down |-> FALSE]
             one == Append(fButtonQueue, down)
             both == Append(one, up)
  <2>1. /\ fButtonQueue' = Append(Append(fButtonQueue, down), up)
        /\ UNCHANGED <<mouse, fCurrentButton, fPenQueue, pen, fKeyBits, strayed>>
    BY <1>9 DEF ExecuteStoppedLoop, tracking, device
  <2>2. /\ down \in ButtonEvents /\ up \in ButtonEvents
        /\ up.button = PowerButton /\ ~up.down /\ down.button = PowerButton
    BY EventTypes
  <2>3. fButtonQueue \in Seq(ButtonEvents)
    BY DEF TypeOK
  <2>4. one \in Seq(ButtonEvents)
    BY <2>2, <2>3, AppendFacts
  <2>5. fButtonQueue' = both
    BY <2>1
  <2> HIDE DEF down, up
  <2>6. ASSUME NEW b \in Buttons, WillBeDown(b, fKeyBits, both)
        PROVE  WillBeDown(b, fKeyBits, fButtonQueue)
    <3>1. b # PowerButton /\ WillBeDown(b, fKeyBits, one)
      BY <2>2, <2>4, <2>6, LastWord
    <3> QED BY <2>2, <2>3, <3>1, LastWord
  <2> QED BY <2>1, <2>5, <2>6 DEF InputFollows, TracksWhileDown, PenFollows, ButtonsFollow
<1>10. CASE Reset
  <2>1. /\ fPenQueue' = <<>> /\ fButtonQueue' = <<>> /\ ~pen' /\ fKeyBits' = {}
        /\ UNCHANGED <<mouse, fCurrentButton, strayed>>
    BY <1>10 DEF Reset, tracking, history
  <2>2. ~PenWillBeDown(pen', fPenQueue')
    BY <2>1 DEF PenWillBeDown
  <2>3. \A b : ~WillBeDown(b, fKeyBits', fButtonQueue')
    BY <2>1 DEF WillBeDown
  <2> QED BY <2>1, <2>2, <2>3 DEF InputFollows, TracksWhileDown, PenFollows, ButtonsFollow
<1>11. CASE TimePasses
  BY <1>11, <1>a DEF TimePasses, tracking, device, history
<1>12. CASE StartOrStopGremlins \/ StopOrContinue
  BY <1>12, <1>a DEF StartOrStopGremlins, StopOrContinue, tracking, queues, device, history
<1>13. CASE UNCHANGED vars
  BY <1>13, <1>a DEF vars, tracking, queues, device, history
<1> QED
  BY <1>1, <1>2, <1>3, <1>4, <1>5, <1>6, <1>7, <1>8, <1>9, <1>10, <1>11, <1>12, <1>13
     DEF Next, UIThread, CPUThread

(* When the mouse is up and the guest has taken all events, neither the    *)
(* pen nor a button is down, unless a release was not posted.              *)
THEOREM NothingIsStuck == Spec => []NothingStaysPressed
<1>1. Init => InputFollows
  BY DEF Init, InputFollows, TracksWhileDown, PenFollows, ButtonsFollow, PenWillBeDown, WillBeDown
<1>2. TypeOK /\ InputFollows => NothingStaysPressed
  <2> SUFFICES ASSUME TypeOK, InputFollows, ~mouse, ~strayed
               PROVE  /\ fPenQueue = <<>> => ~pen
                      /\ fButtonQueue = <<>> => fKeyBits = {}
    BY DEF NothingStaysPressed
  <2>1. fCurrentButton = None /\ None # Touchscreen /\ None \notin Buttons
    BY ButtonsAssumption DEF InputFollows, TracksWhileDown, None, Touchscreen
  <2>2. fPenQueue = <<>> => ~pen
    BY <2>1 DEF InputFollows, PenFollows, PenWillBeDown
  <2>3. fButtonQueue = <<>> => \A b \in Buttons : b \notin fKeyBits
    BY <2>1 DEF InputFollows, ButtonsFollow, WillBeDown
  <2>4. fKeyBits \in SUBSET Buttons
    BY DEF TypeOK
  <2> QED BY <2>2, <2>3, <2>4
<1> QED BY <1>1, <1>2, FollowsStep, InputIsTyped, PTL DEF Spec
=============================================================================
