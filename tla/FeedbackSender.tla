--------------------------- MODULE FeedbackSender ---------------------------
(***************************************************************************)
(* lib/src/feedbacksender.c and the history of feedback.c: a thread sends  *)
(* the controller's state as it changes, or every 200 ms, and each change  *)
(* of a button, trigger or touch as an event in a packet that repeats the  *)
(* last ones.  The packets are datagrams: they come late, once, or never.  *)
(* The state is also kept in the session (session.c), which gives it to    *)
(* the sender once the stream connection has started it.                   *)
(***************************************************************************)
EXTENDS Controller, SequencesExt

CONSTANTS
  HistorySize,   \* FEEDBACK_HISTORY_BUFFER_SIZE
  Order          \* the buttons in the order of their bits

ASSUME FeedbackAssumption == HistorySize \in Nat \ {0} /\ IsInjective(Order)
ASSUME OrderAssumption == Order \in Seq(STRING)

VARIABLES
  session,    \* session.controller_state
  active,     \* feedback_sender_active
  cur, prev,  \* controller_state and controller_state_prev
  changed,    \* controller_state_changed
  sender,     \* the thread: none, waits, stops (should_stop), ended
  ring,       \* the history buffer: events, begin, len
  log,        \* every event pushed
  lastState,  \* the last feedback state sent
  replaced,   \* a touch took the place of another one between two turns
  net,        \* history packets sent: number and events
  heard     \* what the console made of them: number, events, whether it missed some

senderVars == <<session, active, cur, prev, changed, sender, ring, log, lastState, replaced>>
netVars == <<net, heard>>

(***************************************************************************)
(* The history                                                             *)
(***************************************************************************)
Button(b, down) == [kind |-> "button", what |-> b, value |-> IF down THEN 255 ELSE 0]
Trigger(v) == [kind |-> "trigger", what |-> "l2", value |-> v]
Touch(down, t) == [kind |-> IF down THEN "down" ELSE "up", what |-> t.id, value |-> t.pos]

If(cond, event) == IF cond THEN <<event>> ELSE <<>>

\* feedback_sender_send_history: an event for each difference.
TouchEvents(a, b) ==
  IF a.id # b.id /\ a.id >= 0 THEN <<Touch(FALSE, a)>>
  ELSE If(b.id >= 0 /\ (a.id # b.id \/ a.pos # b.pos), Touch(TRUE, b))
Events(a, b) ==
  FlattenSeq([i \in DOMAIN Order |->
                If((Order[i] \in a.buttons) # (Order[i] \in b.buttons), Button(Order[i], Order[i] \in b.buttons))])
  \o If(a.l2 # b.l2, Trigger(b.l2))
  \o FlattenSeq([i \in Slots |-> TouchEvents(a.touches[i], b.touches[i])])

\* Broken variant: the newest event is put behind the others.
PushBehind(r, event) ==
  [events |-> [r.events EXCEPT ![(r.begin + r.len) % HistorySize] = event],
   begin |-> r.begin, len |-> IF r.len + 1 >= HistorySize THEN HistorySize ELSE r.len + 1]
\* chiaki_feedback_history_buffer_push.
Push(r, event) ==
  LET begin == (r.begin + HistorySize - 1) % HistorySize
  IN  [events |-> [r.events EXCEPT ![begin] = event],
       begin  |-> begin,
       len    |-> IF r.len + 1 >= HistorySize THEN HistorySize ELSE r.len + 1]

\* chiaki_feedback_history_buffer_format: the newest first.
Format(r) == [i \in 1..r.len |-> r.events[(r.begin + i - 1) % HistorySize]]

\* The ring after the first n of these events.
Pushed(events) ==
  LET f[n \in 0..Len(events)] == IF n = 0 THEN ring ELSE Push(f[n - 1], events[n])
  IN  f

(***************************************************************************)
(* The sender                                                              *)
(***************************************************************************)

\* chiaki_session_set_controller_state, and in it
\* chiaki_feedback_sender_set_controller_state while the sender is active: what
\* the front end calls with its merged state.
SetState(state) ==
  /\ session' = state
  /\ IF active /\ ~Equals(cur, state)
     THEN cur' = state /\ changed' = TRUE ELSE UNCHANGED <<cur, changed>>

\* The stream connection starts the sender with the state the session has.
Start ==
  /\ sender = "none"
  /\ sender' = "waits" /\ active' = TRUE
  /\ cur' = session /\ changed' = ~Equals(Idle, session)
  /\ UNCHANGED <<session, prev, ring, log, lastState, replaced, netVars>>

\* !controller_state_equals_for_feedback_state.
Relevant(a, b) == a.stick # b.stick

\* One turn of feedback_sender_thread_func, whole under state_mutex: woken by a
\* change or, with none, by the timeout.
Turn ==
  /\ sender = "waits"
  /\ LET events == IF changed THEN Events(prev, cur) ELSE <<>>
         rings  == Pushed(events)
     IN  /\ ring' = rings[Len(events)]
         /\ log' = log \o events
         /\ net' = net \cup {[number |-> Len(log) + i, events |-> Format(rings[i])] : i \in 1..Len(events)}
         /\ lastState' = IF changed /\ ~Relevant(cur, prev) THEN lastState ELSE cur.stick
         /\ replaced' = (replaced \/ \E i \in Slots : /\ prev.touches[i].id # cur.touches[i].id
                                                      /\ {prev.touches[i].id, cur.touches[i].id} \subseteq Nat)
  /\ changed' = FALSE /\ prev' = cur
  /\ UNCHANGED <<session, active, cur, sender, heard>>

\* The wait of the thread fails, or its first lock: it is gone with nothing told
\* to anybody, and the sender counts as active.
SenderFails ==
  /\ sender = "waits"
  /\ sender' = "ended"
  /\ UNCHANGED <<session, active, cur, prev, changed, ring, log, lastState, replaced, netVars>>

\* chiaki_feedback_sender_fini, which the session thread calls and waits in.
Fini ==
  /\ active
  /\ sender' = (IF sender = "waits" THEN "stops" ELSE sender) /\ active' = FALSE
  /\ UNCHANGED <<session, cur, prev, changed, ring, log, lastState, replaced, netVars>>

\* The thread ends without a last turn.
Ends ==
  /\ sender = "stops"
  /\ sender' = "ended"
  /\ UNCHANGED <<session, active, cur, prev, changed, ring, log, lastState, replaced, netVars>>

(***************************************************************************)
(* The network and the console (external)                                *)
(***************************************************************************)

\* A packet is taken if it is newer than the last one, for the events it has
\* that are newer than that one's.  It stays in net: it may come late, or never,
\* and again, which changes nothing.
ConsoleTakes ==
  /\ \E p \in net :
       /\ p.number > heard.number
       /\ LET new == p.number - heard.number
                   n   == IF new > Len(p.events) THEN Len(p.events) ELSE new
               IN  heard' = [number |-> p.number,
                               events |-> heard.events \o Reverse(SubSeq(p.events, 1, n)),
                               missed |-> heard.missed \/ new > Len(p.events)]
  /\ UNCHANGED <<senderVars, net>>

SenderInit ==
  /\ session = Idle /\ active = FALSE /\ cur = Idle /\ prev = Idle /\ changed = FALSE
  /\ sender = "none"
  /\ ring = [events |-> [i \in 0..(HistorySize - 1) |-> Trigger(0)], begin |-> 0, len |-> 0]
  /\ log = <<>> /\ lastState = 0 /\ replaced = FALSE
  /\ net = {} /\ heard = [number |-> 0, events |-> <<>>, missed |-> FALSE]

SenderStep == Start \/ Turn \/ SenderFails \/ Fini \/ Ends \/ ConsoleTakes

(***************************************************************************)
(* What the events mean                                                    *)
(***************************************************************************)

\* Buttons and touches the events leave held.
HeldButtons(events) ==
  {b \in Range(Order) :
     \E i \in DOMAIN events : /\ events[i] = Button(b, TRUE)
                              /\ \A j \in (i + 1)..Len(events) : events[j] # Button(b, FALSE)}
HeldTouches(events) ==
  {<<e.what, e.value>> : e \in {events[i] : i \in
     {i \in DOMAIN events : events[i].kind = "down"
        /\ \A j \in (i + 1)..Len(events) : ~(events[j].kind \in {"down", "up"} /\ events[j].what = events[i].what)}}}
HeldTrigger(events) ==
  LET at == {i \in DOMAIN events : events[i].kind = "trigger"}
  IN  IF at = {} THEN 0 ELSE events[CHOOSE i \in at : \A j \in at : j <= i].value
=============================================================================
