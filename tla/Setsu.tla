-------------------------------- MODULE Setsu --------------------------------
(***************************************************************************)
(* setsu/src/setsu.c: the GUI's access to the touchpad of a controller     *)
(* over udev and evdev.  Everything here runs in setsu_poll, in the GUI's  *)
(* main thread; the kernel's frames and udev's messages wait for it.  One  *)
(* touchpad, of one path, is modelled.                                     *)
(***************************************************************************)
EXTENDS Integers, Sequences, SequencesExt

CONSTANTS
  EvSlots,    \* multitouch slots the touchpad uses
  MaxFrames   \* frames that wait in the kernel (a bound)

ASSUME SetsuAssumption == EvSlots \in Nat \ {0} /\ MaxFrames \in Nat \ {0}

VARIABLES
  plugged,   \* the touchpad is plugged in
  finger,    \* tracking id of the finger in each of its slots, or -1
  lastId,    \* the last tracking id it gave
  pressed,   \* its button
  udev,      \* messages of the udev monitor
  avail,     \* the SetsuAvailDevice: none, or its dirty flags
  dev,       \* the SetsuDevice is connected
  slots,     \* its slots
  buttonPrev, buttonCur,
  frames     \* frames the kernel holds for it

setsuVars == <<plugged, finger, lastId, pressed, udev, avail, dev, slots, buttonPrev, buttonCur, frames>>

NoDevice == [connect |-> FALSE, disconnect |-> FALSE, known |-> FALSE]
Empty == [prev |-> -1, id |-> -1, pos |-> 0, downed |-> FALSE, dirty |-> FALSE]

(***************************************************************************)
(* A frame: what device_event makes of its events, and device_drain of the *)
(* slots                                                                   *)
(***************************************************************************)

\* ABS_MT_TRACKING_ID.
SetTracking(s, id) ==
  LET up == s.id # -1 /\ s.prev = -1
      t  == IF up THEN [s EXCEPT !.prev = s.id, !.pos = 0, !.dirty = FALSE] ELSE s
  IN  [t EXCEPT !.id = id, !.downed = @ \/ id # -1]

\* ABS_MT_POSITION_X and _Y.
SetPosition(s, pos) == [s EXCEPT !.pos = pos, !.dirty = TRUE]

AfterFrame(s, frame) ==
  CASE frame.kind = "up"   -> SetTracking(s, -1)
    [] frame.kind = "down" -> SetPosition(SetTracking(s, frame.id), frame.pos)
    [] frame.kind = "swap" -> SetPosition(SetTracking(SetTracking(s, -1), frame.id), frame.pos)
    [] frame.kind = "move" -> SetPosition(s, frame.pos)
    [] OTHER -> s

When(cond, event) == IF cond THEN <<event>> ELSE <<>>
Event(kind, id, pos) == [kind |-> kind, id |-> id, pos |-> pos]

\* device_drain, for one slot and for the buttons.
SlotEvents(s) ==
  When(s.prev # -1, Event("up", s.prev, 0)) \o When(s.downed, Event("down", s.id, 0))
  \o When(s.dirty, Event("position", s.id, s.pos))
Drained(s) == [s EXCEPT !.prev = -1, !.downed = FALSE, !.dirty = FALSE]
ButtonEvents(a, b) == When(a # b, Event(IF b THEN "button_down" ELSE "button_up", -1, 0))

\* poll_device: all the frames that wait, and the events they make.
Polled ==
  LET f[n \in 0..Len(frames)] ==
        IF n = 0 THEN [slots |-> slots, button |-> buttonPrev, events |-> <<>>]
        ELSE LET fr == frames[n]
                 p  == f[n - 1]
                 b  == IF fr.kind = "button" THEN fr.id = 1 ELSE p.button
                 s  == IF fr.kind = "button" THEN p.slots ELSE [p.slots EXCEPT ![fr.slot] = AfterFrame(@, fr)]
             IN  [slots  |-> [i \in 1..EvSlots |-> Drained(s[i])], button |-> b,
                  events |-> p.events \o FlattenSeq([i \in 1..EvSlots |-> SlotEvents(s[i])])
                             \o ButtonEvents(p.button, b)]
  IN  f[Len(frames)]

(***************************************************************************)
(* Devices                                                                 *)
(***************************************************************************)

\* update_udev_device, for each of the messages: one that comes for a path
\* that is known is dropped.
Updated ==
  LET f[n \in 0..Len(udev)] ==
        IF n = 0 THEN avail
        ELSE LET a == f[n - 1]
             IN  IF udev[n] = "add" THEN (IF a.known THEN a ELSE [connect |-> TRUE, disconnect |-> FALSE, known |-> TRUE])
                 ELSE (IF a.known THEN [a EXCEPT !.disconnect = TRUE] ELSE a)
  IN  f[Len(udev)]

\* setsu_connect: no slot is touched yet.
Untouched == [i \in 1..EvSlots |-> Empty]

(***************************************************************************)
(* The touchpad and the kernel (external)                                  *)
(***************************************************************************)
Unchanged == UNCHANGED <<udev, avail, dev, slots, buttonPrev, buttonCur>>
Frame(f) == frames' = IF dev /\ plugged THEN Append(frames, f) ELSE frames

Fingers ==
  /\ plugged /\ Len(frames) < MaxFrames
  /\ \E i \in 1..EvSlots :
       \/ /\ finger[i] = -1
          /\ finger' = [finger EXCEPT ![i] = lastId + 1] /\ lastId' = lastId + 1
          /\ Frame([kind |-> "down", slot |-> i, id |-> lastId + 1, pos |-> 1])
       \/ /\ finger[i] # -1 /\ finger' = [finger EXCEPT ![i] = -1] /\ UNCHANGED lastId
          /\ Frame([kind |-> "up", slot |-> i, id |-> -1, pos |-> 0])
       \/ /\ finger[i] # -1
          /\ finger' = [finger EXCEPT ![i] = lastId + 1] /\ lastId' = lastId + 1
          /\ Frame([kind |-> "swap", slot |-> i, id |-> lastId + 1, pos |-> 1])
       \/ /\ finger[i] # -1 /\ UNCHANGED <<finger, lastId>>
          /\ Frame([kind |-> "move", slot |-> i, id |-> finger[i], pos |-> 2])
  /\ UNCHANGED <<plugged, pressed>> /\ Unchanged

PressPad ==
  /\ plugged /\ Len(frames) < MaxFrames
  /\ pressed' = ~pressed
  /\ Frame([kind |-> "button", slot |-> 0, id |-> IF pressed THEN 0 ELSE 1, pos |-> 0])
  /\ UNCHANGED <<plugged, finger, lastId>> /\ Unchanged

Plug ==
  /\ plugged' = ~plugged
  /\ udev' = Append(udev, IF plugged THEN "remove" ELSE "add")
  /\ finger' = [i \in 1..EvSlots |-> -1] /\ pressed' = FALSE /\ frames' = <<>>
  /\ UNCHANGED <<lastId, avail, dev, slots, buttonPrev, buttonCur>>

SetsuInit ==
  /\ plugged = TRUE /\ finger = [i \in 1..EvSlots |-> -1] /\ lastId = 0 /\ pressed = FALSE
  /\ udev = <<>> /\ avail = [connect |-> TRUE, disconnect |-> FALSE, known |-> TRUE]
  /\ dev = FALSE /\ slots = Untouched /\ buttonPrev = FALSE /\ buttonCur = FALSE /\ frames = <<>>
=============================================================================
