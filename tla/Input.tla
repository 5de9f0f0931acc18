-------------------------------- MODULE Input --------------------------------
(***************************************************************************)
(* The input side of the GUI's StreamSession (gui/src/streamsession.cpp,   *)
(* gui/src/controllermanager.cpp) over Setsu and FeedbackSender: the main  *)
(* thread takes keys, controllers and touchpad events one at a time, each  *)
(* into a state of its own, and gives the union of them to the session.    *)
(***************************************************************************)
EXTENDS FeedbackSender, Setsu

CONSTANTS
  MaxInputs   \* what the user does (a bound)

ASSUME InputAssumption == MaxInputs \in Nat /\ "cross" \in Range(Order)

VARIABLES
  keyboard,  \* keyboard_state
  pad,       \* the state of an open game controller, or none
  setsu,     \* setsu_state
  ids,       \* setsu_ids: tracking id -> touch id, as pairs
  todo,      \* events of this setsu_poll still to be handled
  inputs     \* how much the user has done

stateVars == <<keyboard, pad, setsu>>
mainVars == <<stateVars, ids, todo>>
inputVars == <<senderVars, netVars, mainVars, inputs, setsuVars>>

Closed == [open |-> FALSE, state |-> Idle]

\* SendFeedbackState, with these states.
Merged(s, p, k) == Or(IF p.open THEN Or(s, p.state) ELSE s, k)
SendFeedbackState(s, p, k) ==
  /\ setsu' = s /\ pad' = p /\ keyboard' = k
  /\ SetState(Merged(s, p, k))
  /\ UNCHANGED <<active, prev, sender, ring, log, lastState, replaced, netVars>>

Does == inputs < MaxInputs /\ inputs' = inputs + 1
Atomic == todo = <<>> /\ UNCHANGED <<ids, todo, setsuVars>>

Toggle(s, b) ==
  CASE b = "l2"    -> [s EXCEPT !.l2 = 255 - @]
    [] b = "stick" -> [s EXCEPT !.stick = IF @ = 0 THEN -1 ELSE 0]
    [] OTHER       -> [s EXCEPT !.buttons = IF b \in @ THEN @ \ {b} ELSE @ \cup {b}]

\* HandleKeyboardEvent, for two of the keys.
Key ==
  /\ Does /\ Atomic
  /\ \E b \in {"cross", "stick"} : SendFeedbackState(setsu, pad, Toggle(keyboard, b))

\* ControllerManager's events of an open controller: UpdateState, for two of them.
PadEvent ==
  /\ pad.open /\ Does /\ Atomic
  /\ \E b \in {"cross", "l2"} : SendFeedbackState(setsu, [pad EXCEPT !.state = Toggle(@, b)], keyboard)

\* UpdateGamepads opens a new controller, or deletes one that is gone.
Replaced(p) == IF p.open THEN Closed ELSE [open |-> TRUE, state |-> Idle]

\* AvailableControllersUpdated.
UpdateGamepads ==
  /\ Does /\ Atomic
  /\ SendFeedbackState(setsu, Replaced(pad), keyboard)

(***************************************************************************)
(* Setsu                                                                   *)
(***************************************************************************)
TouchOf(p) == p[2]
Ids == {TouchOf(p) : p \in ids}
Released(s, which) ==
  [s EXCEPT !.touches = [i \in Slots |-> IF s.touches[i].id \in which THEN [s.touches[i] EXCEPT !.id = -1]
                                         ELSE s.touches[i]]]

\* Broken variant: the touches of a device that is gone are only forgotten.
RemovedOnly(s) == s
\* SETSU_EVENT_DEVICE_REMOVED: its touches end, its button does not.
Removed(s) == Released(s, Ids)

\* The hotplug half of setsu_poll: the device is connected, or disconnected
\* after the event that tells so.
PollDevices ==
  /\ todo = <<>> /\ (udev # <<>> \/ avail.connect \/ avail.disconnect)
  /\ udev' = <<>>
  /\ LET a == Updated
     IN  /\ avail' = IF a.disconnect THEN NoDevice ELSE [a EXCEPT !.connect = FALSE]
         /\ dev' = (~a.disconnect /\ (dev \/ a.connect))
         /\ IF a.disconnect
            THEN SendFeedbackState(Removed(setsu), pad, keyboard) /\ ids' = {}
            ELSE UNCHANGED <<stateVars, ids, senderVars, netVars>>
         /\ IF a.connect \/ a.disconnect
            THEN slots' = Untouched /\ buttonPrev' = FALSE /\ buttonCur' = FALSE /\ frames' = <<>>
            ELSE UNCHANGED <<slots, buttonPrev, buttonCur, frames>>
  /\ UNCHANGED <<todo, inputs, plugged, finger, lastId, pressed>>

\* The other half: the frames are read, and their events handled below.
PollDevice ==
  /\ todo = <<>> /\ udev = <<>> /\ dev /\ frames # <<>>
  /\ slots' = Polled.slots /\ buttonPrev' = Polled.button /\ buttonCur' = Polled.button
  /\ todo' = Polled.events /\ frames' = <<>>
  /\ UNCHANGED <<stateVars, ids, inputs, senderVars, netVars, plugged, finger, lastId, pressed, udev, avail, dev>>

Of(id) == {p \in ids : p[1] = id}

\* HandleSetsuEvent.  Touches and positions are sent, the button is not.
HandleSetsuEvent ==
  /\ todo # <<>> /\ todo' = Tail(todo)
  /\ LET e == Head(todo)
     IN  \/ /\ e.kind = "up"
            /\ SendFeedbackState(Released(setsu, {TouchOf(p) : p \in Of(e.id)}), pad, keyboard)
            /\ ids' = ids \ Of(e.id)
         \/ /\ e.kind = "position" /\ Of(e.id) # {}
            /\ SendFeedbackState(SetTouchPos(setsu, TouchOf(CHOOSE p \in Of(e.id) : TRUE), e.pos), pad, keyboard)
            /\ UNCHANGED ids
         \/ /\ e.kind = "position" /\ Of(e.id) = {} /\ StartedId(setsu) >= 0
            /\ SendFeedbackState(StartTouch(setsu, e.pos), pad, keyboard)
            /\ ids' = ids \cup {<<e.id, StartedId(setsu)>>}
         \/ /\ e.kind \in {"button_down", "button_up"}
            /\ setsu' = [setsu EXCEPT !.buttons = IF e.kind = "button_down" THEN @ \cup {"touchpad"} ELSE @ \ {"touchpad"}]
            /\ UNCHANGED <<keyboard, pad, ids, senderVars, netVars>>
         \/ /\ e.kind = "down" \/ (e.kind = "position" /\ Of(e.id) = {} /\ StartedId(setsu) < 0)
            /\ UNCHANGED <<stateVars, ids, senderVars, netVars>>
  /\ UNCHANGED <<inputs, setsuVars>>

\* The timer's end, when the motion device moved (orient_dirty).
Motion == Atomic /\ SendFeedbackState(setsu, pad, keyboard) /\ UNCHANGED inputs

\* The user at the touchpad.
Pad ==
  /\ Does /\ (Fingers \/ PressPad \/ Plug)
  /\ UNCHANGED <<mainVars, senderVars, netVars>>

InputInit ==
  /\ SenderInit /\ SetsuInit
  /\ keyboard = Idle /\ pad = Closed /\ setsu = Idle /\ ids = {} /\ todo = <<>> /\ inputs = 0

Main == PollDevices \/ PollDevice \/ HandleSetsuEvent
InputNext ==
  \/ Key \/ PadEvent \/ UpdateGamepads \/ Main \/ Motion \/ Pad
  \/ SenderStep /\ UNCHANGED <<mainVars, inputs, setsuVars>>

InputSpec == InputInit /\ [][InputNext]_inputVars
(***************************************************************************)
(* Properties                                                              *)
(***************************************************************************)
InputTypeOK ==
  /\ todo \in Seq([kind : {"up", "down", "position", "button_down", "button_up"}, id : Int, pos : Nat])
  /\ DOMAIN ring.events = 0..(HistorySize - 1) /\ ring.len <= HistorySize
  /\ sender \in {"none", "waits", "stops", "ended"}

Sent == sender = "waits" /\ ~changed

\* What is held on any of the devices is what the console is told: once the
\* sender has nothing left to send, its events leave held the buttons, the
\* trigger and the touches that some device holds, and its last state is where
\* the stick is.  Two things are not covered: the touchpad's button, which waits
\* for the next state that is sent (streamsession.cpp:674-679), and a touch that
\* took the place of another one between two turns, of which only the end is told
\* (feedbacksender.c:216-224).
InputArrives ==
  /\ InputTypeOK
  /\ Sent =>
       LET devices == {keyboard, setsu} \cup (IF pad.open THEN {pad.state} ELSE {})
       IN  /\ HeldButtons(log) \ {"touchpad"} = (UNION {s.buttons : s \in devices}) \ {"touchpad"}
           /\ HeldTrigger(log) = (IF \E s \in devices : s.l2 = 255 THEN 255 ELSE 0)
           /\ lastState = (IF \E s \in devices : s.stick # 0 THEN -1 ELSE 0)
           /\ ~replaced => HeldTouches(log) = {<<t.id, t.pos>> : t \in {u \in Range(setsu.touches) : u.id >= 0}}

\* The console knows every event up to the packet it took last, whatever was
\* lost before it, unless more than the history's size were lost in a row
\* (feedback.c:187-212).
LossIsCovered == heard.missed \/ heard.events = SubSeq(log, 1, heard.number)

\* Every touch of setsu_state is one finger's, and no finger that was lifted,
\* moved to another slot or unplugged leaves its touch behind.  Only a finger
\* that was down already when the touchpad was connected may: its tracking id
\* is not known, it moves as -1 and nothing tells that it is lifted
\* (setsu.c:346-350, device_event).
TouchesAreHeld ==
  /\ Cardinality(Ids) = Cardinality(ids)
  /\ Ids = {setsu.touches[i].id : i \in Slots} \ {-1}
  /\ todo = <<>> /\ frames = <<>> /\ udev = <<>> /\ plugged =>
       {p[1] : p \in ids} \ {-1} \subseteq Range(finger)
  /\ ~dev => ids = {}
=============================================================================
