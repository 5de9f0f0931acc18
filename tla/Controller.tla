----------------------------- MODULE Controller -----------------------------
(***************************************************************************)
(* lib/src/controller.c: the state of a controller, as the front ends      *)
(* build it and the feedback sender sends it.  One stick axis stands for   *)
(* the four, one trigger for both; motion is left out.                     *)
(***************************************************************************)
EXTENDS Integers, FiniteSets, Sequences

CONSTANTS
  TouchIds   \* TOUCH_ID_MASK + 1

ASSUME ControllerAssumption == TouchIds \in Nat \ {0}

Slots == 1..2    \* CHIAKI_CONTROLLER_TOUCHES_MAX
NoTouch == [id |-> -1, pos |-> 0]

\* chiaki_controller_state_set_idle.
Idle == [buttons |-> {}, l2 |-> 0, stick |-> 0, next |-> 0, touches |-> [i \in Slots |-> NoTouch]]

First(S) == CHOOSE i \in S : \A j \in S : i <= j
Free(state) == {i \in Slots : state.touches[i].id < 0}

\* The id chiaki_controller_state_start_touch returns, and the state after it.
StartedId(state) == IF Free(state) = {} THEN -1 ELSE state.next
StartTouch(state, pos) ==
  IF Free(state) = {} THEN state
  ELSE [state EXCEPT !.touches[First(Free(state))] = [id |-> state.next, pos |-> pos],
                     !.next = (@ + 1) % TouchIds]

With(state, id) == {i \in Slots : state.touches[i].id = id}

\* chiaki_controller_state_stop_touch: the position stays.
StopTouch(state, id) ==
  IF With(state, id) = {} THEN state ELSE [state EXCEPT !.touches[First(With(state, id))].id = -1]

\* chiaki_controller_state_set_touch_pos.
SetTouchPos(state, id, pos) ==
  IF With(state, id) = {} THEN state ELSE [state EXCEPT !.touches[First(With(state, id))].pos = pos]

SameTouches(a, b) ==
  \A i \in Slots : /\ a.touches[i].id = b.touches[i].id
                   /\ a.touches[i].id >= 0 => a.touches[i].pos = b.touches[i].pos

\* chiaki_controller_state_equals.
Equals(a, b) ==
  a.buttons = b.buttons /\ a.l2 = b.l2 /\ a.stick = b.stick /\ SameTouches(a, b)

Abs(n) == IF n > 0 THEN n ELSE -n

\* Broken variant: what both have.
OrOfBoth(a, b) ==
  [buttons |-> a.buttons \cap b.buttons, l2 |-> a.l2, stick |-> a.stick, next |-> 0, touches |-> a.touches]
\* chiaki_controller_state_or.
Or(a, b) ==
  [buttons |-> a.buttons \cup b.buttons,
   l2      |-> IF a.l2 > b.l2 THEN a.l2 ELSE b.l2,
   stick   |-> IF Abs(a.stick) > Abs(b.stick) THEN a.stick ELSE b.stick,
   next    |-> 0,
   touches |-> [i \in Slots |-> IF a.touches[i].id >= 0 THEN a.touches[i]
                                ELSE IF b.touches[i].id >= 0 THEN b.touches[i] ELSE NoTouch]]
=============================================================================
