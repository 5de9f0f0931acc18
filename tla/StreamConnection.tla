-------------------------- MODULE StreamConnection --------------------------
(***************************************************************************)
(* lib/src/streamconnection.c: the life of one stream, as four threads see *)
(* it.  chiaki_stream_connection_run runs in the session thread; it owns   *)
(* the Takion thread (lib/src/takion.c), the congestion control thread     *)
(* (congestioncontrol.c) and the feedback sender (feedbacksender.c), and   *)
(* users call chiaki_stream_connection_stop and                            *)
(* chiaki_session_set_controller_state at any time.                        *)
(*                                                                         *)
(* L is state_mutex, F is feedback_sender_mutex.  A wait of run releases   *)
(* L; a join does not, and joining the feedback sender keeps F as well.    *)
(* Every wait of run has a timeout, so a missed signal only delays it.     *)
(*                                                                         *)
(* The console is external: it answers BIG with one BANG, sends STREAMINFO *)
(* after an accepted BANG, and may disconnect at any time.  Failing        *)
(* allocations and thread creations are left out.                          *)
(***************************************************************************)
EXTENDS Naturals

CONSTANT WaitFails  \* may pthread_cond_timedwait fail (thread.c:246)?

ASSUME WaitFailsAssumption == WaitFails \in BOOLEAN

VARIABLES
  run,              \* where chiaki_stream_connection_run is
  err,              \* what it is going to return
  state, state_finished, state_failed,
  should_stop, remote_disconnected,
  crypt,            \* ecdh_secret and both gkcrypts are set
  feedback_sender_active,
  feedback,         \* "none", its thread "wait", "sending", "exited"; "finished"
  feedback_stop,
  congestion,       \* "none", its thread "wait", "sending", "exited"
  congestion_stop,
  takion,           \* its thread: where it is
  takion_stop,      \* the token in takion's stop pipe
  takion_closed,    \* chiaki_takion_close is through: mutexes and pipe are gone
  data,             \* the message the Takion thread is about to handle
  updating,         \* a user is inside chiaki_feedback_sender_set_controller_state
  console,          \* how far the console is
  sent,             \* the messages handed to Takion for the console
  informed          \* a STREAMINFO was handed to the stream connection

phase == <<state, state_finished, state_failed>>
flags == <<should_stop, remote_disconnected, crypt, informed>>
feedbackVars == <<feedback_sender_active, feedback, feedback_stop>>
congestionVars == <<congestion, congestion_stop>>
takionVars == <<takion, takion_stop, takion_closed, data>>
vars == <<run, err, phase, flags, feedbackVars, congestionVars, takionVars,
          updating, console, sent>>

Datas == {"bang", "bad_bang", "streaminfo", "bad_streaminfo", "disconnect",
          "effect", "other"}
Messages == {"BIG", "CONTROLLERCONNECTION", "STREAMINFOACK", "HEARTBEAT", "DISCONNECT"}

TypeOK ==
  /\ run \in {"start", "takion", "send_big", "bang", "streaminfo", "feedback",
              "event", "idle", "heartbeat", "fini_feedback", "stop_feedback",
              "join_feedback", "disconnect", "stop_congestion",
              "join_congestion", "close", "join_takion", "returned"}
  /\ err \in {"success", "timeout", "unknown", "network", "canceled",
              "disconnected"}
  /\ state \in {"idle", "takion_connect", "expect_bang", "expect_streaminfo"}
  /\ state_finished \in BOOLEAN /\ state_failed \in BOOLEAN
  /\ should_stop \in BOOLEAN /\ remote_disconnected \in BOOLEAN
  /\ crypt \in BOOLEAN /\ informed \in BOOLEAN
  /\ feedback_sender_active \in BOOLEAN /\ feedback_stop \in BOOLEAN
  /\ feedback \in {"none", "wait", "sending", "exited", "finished"}
  /\ congestion \in {"none", "wait", "sending", "exited"}
  /\ congestion_stop \in BOOLEAN
  /\ takion \in {"none", "handshake", "connected", "loop", "data",
                 "disconnect", "exited"}
  /\ takion_stop \in BOOLEAN /\ takion_closed \in BOOLEAN
  /\ data \in Datas
  /\ updating \in BOOLEAN
  /\ console \in {"waits", "asked", "accepted", "silent"}
  /\ sent \subseteq Messages

\* chiaki_stream_connection_init
Init ==
  /\ run = "start" /\ err = "success"
  /\ state = "idle" /\ state_finished = FALSE /\ state_failed = FALSE
  /\ should_stop = FALSE /\ remote_disconnected = FALSE
  /\ crypt = FALSE /\ informed = FALSE
  /\ feedback_sender_active = FALSE /\ feedback = "none" /\ feedback_stop = FALSE
  /\ congestion = "none" /\ congestion_stop = FALSE
  /\ takion = "none" /\ takion_stop = FALSE /\ takion_closed = FALSE
  /\ data = "other"
  /\ updating = FALSE /\ console = "waits" /\ sent = {}

LFree == run \in {"start", "takion", "bang", "streaminfo", "event", "idle",
                  "join_takion", "returned"}
FFree == ~updating /\ run \notin {"stop_feedback", "join_feedback"}

\* Broken variants: the predicate forgets the stop, or the disconnect.
FinishedNoStop == state_finished \/ remote_disconnected
FinishedNoRemote == state_finished \/ should_stop

\* state_finished_cond_check
Finished == state_finished \/ should_stop \/ remote_disconnected
WaitEnds(result) == result = "success" => Finished
-----------------------------------------------------------------------------
(* chiaki_stream_connection_run *)

RunOnly == UNCHANGED <<flags, takionVars, updating>>

\* A message of the given type is encoded and handed to Takion; whether it can
\* be is another matter.
Send(message) == sent' = sent \cup {message}

\* Broken variant: state_finished keeps what the previous state left.
EnterKeeps(next) == state' = next /\ UNCHANGED <<state_finished, state_failed>>

Enter(next) == state' = next /\ state_finished' = FALSE /\ state_failed' = FALSE

Connect ==
  /\ run = "start"
  /\ Enter("takion_connect")
  /\ \/ run' = "takion" /\ takion' = "handshake" /\ congestion' = "wait"
        /\ UNCHANGED err
     \/ run' = "returned" /\ err' = "network" /\ UNCHANGED <<takion, congestion>>
  /\ UNCHANGED <<flags, feedbackVars, congestion_stop, takion_stop, takion_closed,
                 data, updating, console, sent>>

\* CHECK_STOP(close_takion) comes first and leaves congestion control alone.
TakionWaitEnds(result) ==
  /\ run = "takion" /\ WaitEnds(result)
  /\ err' = result
  /\ IF should_stop THEN run' = "close" /\ UNCHANGED phase
     ELSE IF result = "timeout" THEN run' = "stop_congestion" /\ UNCHANGED phase
     ELSE run' = "send_big" /\ Enter("expect_bang")
  /\ RunOnly /\ UNCHANGED <<feedbackVars, congestionVars, console, sent>>

\* stream_connection_send_big: the launch spec is formatted and encrypted and
\* the ECDH key signed before BIG goes out with them, or one of it all fails.
BigIsSent ==
  /\ Send("BIG") /\ UNCHANGED err
  /\ console' = IF console = "waits" THEN "asked" ELSE console

BigFails ==
  /\ err' \in {"network", "unknown"} /\ UNCHANGED console
  /\ Send("BIG") \/ UNCHANGED sent

SendBig ==
  /\ run = "send_big"
  /\ \/ run' = "bang" /\ BigIsSent
     \/ run' = "disconnect" /\ BigFails
  /\ RunOnly /\ UNCHANGED <<phase, feedbackVars, congestionVars>>

\* Broken variant: a stop leaves without a word, as it may before BIG.
ExpectedOrLeave(result, next) ==
  IF should_stop THEN run' = "close" /\ UNCHANGED <<err, phase>>
  ELSE IF ~state_finished THEN run' = "disconnect" /\ err' = "unknown" /\ UNCHANGED phase
  ELSE run' = next /\ err' = result

\* A stop goes to disconnect as it is, a state that did not finish as an error.
Expected(result, next) ==
  IF should_stop \/ ~state_finished
  THEN /\ run' = "disconnect"
       /\ err' = IF should_stop THEN result ELSE "unknown"
       /\ UNCHANGED phase
  ELSE run' = next /\ err' = result

BangWaitEnds(result) ==
  /\ run = "bang" /\ WaitEnds(result)
  /\ Expected(result, "streaminfo")
  /\ run' = "streaminfo" => Enter("expect_streaminfo")
  /\ RunOnly /\ UNCHANGED <<feedbackVars, congestionVars, console, sent>>

StreamInfoWaitEnds(result) ==
  /\ run = "streaminfo" /\ WaitEnds(result)
  /\ Expected(result, "feedback")
  /\ UNCHANGED phase
  /\ RunOnly /\ UNCHANGED <<feedbackVars, congestionVars, console, sent>>

StartFeedback ==
  /\ run = "feedback" /\ FFree
  /\ feedback' = "wait" /\ feedback_sender_active' = TRUE
  /\ Enter("idle")
  /\ run' = "event"
  /\ RunOnly /\ UNCHANGED <<err, feedback_stop, congestionVars, console, sent>>

\* A wait whose predicate holds already returns at once.
AwaitHeartbeat == run' = IF Finished THEN "fini_feedback" ELSE "idle"

\* The CONNECTED event was sent without L.
Connected ==
  /\ run = "event"
  /\ AwaitHeartbeat
  /\ RunOnly /\ UNCHANGED <<err, phase, feedbackVars, congestionVars, console, sent>>

IdleWaitEnds(result) ==
  /\ run = "idle" /\ WaitEnds(result)
  /\ run' = IF result = "timeout" THEN "heartbeat" ELSE "fini_feedback"
  /\ RunOnly /\ UNCHANGED <<err, phase, feedbackVars, congestionVars, console, sent>>

\* stream_connection_send_heartbeat: to fail makes no difference.
SendHeartbeat == Send("HEARTBEAT")

Heartbeat ==
  /\ run = "heartbeat"
  /\ AwaitHeartbeat /\ SendHeartbeat
  /\ RunOnly /\ UNCHANGED <<err, phase, feedbackVars, congestionVars, console>>

\* Broken variants: F is not taken; the feedback thread is not joined.
MayFinishFeedbackAlways == TRUE
FeedbackJoinedAnyway == TRUE

MayFinishFeedback == FFree

FiniFeedback ==
  /\ run = "fini_feedback" /\ MayFinishFeedback
  /\ feedback_sender_active' = FALSE
  /\ run' = "stop_feedback"
  /\ RunOnly /\ UNCHANGED <<err, phase, feedback, feedback_stop, congestionVars,
                            console, sent>>

\* chiaki_feedback_sender_fini takes the mutex its thread sends under.
StopFeedback ==
  /\ run = "stop_feedback" /\ feedback # "sending"
  /\ feedback_stop' = TRUE
  /\ run' = "join_feedback"
  /\ RunOnly /\ UNCHANGED <<err, phase, feedback, feedback_sender_active,
                            congestionVars, console, sent>>

FeedbackJoined == feedback = "exited"

JoinFeedback ==
  /\ run = "join_feedback" /\ FeedbackJoined
  /\ feedback' = IF feedback = "exited" THEN "finished" ELSE feedback
  /\ err' = "success" /\ run' = "disconnect"
  /\ RunOnly /\ UNCHANGED <<phase, feedback_sender_active, feedback_stop,
                            congestionVars, console, sent>>

\* Broken variants: a disconnect is not looked at; a quit reason is returned.
EndOfPlain(e) == IF should_stop THEN "canceled" ELSE e
EndOfReason(e) == IF should_stop THEN "stopped" ELSE e

\* What run returns in the end.
EndOf(e) == IF should_stop THEN "canceled"
            ELSE IF remote_disconnected THEN "disconnected" ELSE e

\* stream_connection_send_disconnect, whether it arrives or not
SendDisconnect == Send("DISCONNECT")

\* The label disconnect
Disconnect ==
  /\ run = "disconnect"
  /\ SendDisconnect
  /\ err' = EndOf(err)
  /\ run' = "stop_congestion"
  /\ RunOnly /\ UNCHANGED <<phase, feedbackVars, congestionVars, console>>

\* chiaki_congestion_control_stop, with L held throughout
StopCongestion ==
  /\ run = "stop_congestion" /\ congestion # "sending"
  /\ congestion_stop' = TRUE
  /\ run' = "join_congestion"
  /\ RunOnly /\ UNCHANGED <<err, phase, feedbackVars, congestion, console, sent>>

JoinCongestion ==
  /\ run = "join_congestion" /\ congestion = "exited"
  /\ run' = "close"
  /\ RunOnly /\ UNCHANGED <<err, phase, feedbackVars, congestionVars, console, sent>>

\* The label close_takion; chiaki_takion_close
Close ==
  /\ run = "close"
  /\ takion_stop' = TRUE
  /\ run' = "join_takion"
  /\ UNCHANGED <<err, phase, flags, feedbackVars, congestionVars, takion,
                 takion_closed, data, updating, console, sent>>

\* Broken variant: the receivers are freed without waiting.
TakionJoinedAnyway == TRUE
TakionJoined == takion = "exited"

\* The receivers are freed and run returns.
JoinTakion ==
  /\ run = "join_takion" /\ TakionJoined
  /\ takion_closed' = TRUE
  /\ run' = "returned"
  /\ UNCHANGED <<err, phase, flags, feedbackVars, congestionVars, takion,
                 takion_stop, data, updating, console, sent>>

WaitResults == {"success", "timeout"}

Run ==
  \/ Connect \/ SendBig \/ StartFeedback \/ Connected \/ Heartbeat
  \/ \E r \in WaitResults : \/ TakionWaitEnds(r) \/ BangWaitEnds(r)
                            \/ StreamInfoWaitEnds(r) \/ IdleWaitEnds(r)
  \/ FiniFeedback \/ StopFeedback \/ JoinFeedback \/ Disconnect
  \/ StopCongestion \/ JoinCongestion \/ Close \/ JoinTakion
-----------------------------------------------------------------------------
(* The Takion thread: takion_thread_func and the callback it calls *)

TakionOnly == UNCHANGED <<run, err, feedbackVars, congestionVars, takion_stop,
                          takion_closed, updating, should_stop>>

HandshakeDone ==
  /\ takion = "handshake"
  /\ takion' = "connected"
  /\ TakionOnly
  /\ UNCHANGED <<phase, remote_disconnected, crypt, informed, data, console, sent>>

\* No INIT_ACK or COOKIE_ACK in time, or stopped.
HandshakeFails ==
  /\ takion = "handshake"
  /\ takion' = "disconnect"
  /\ TakionOnly
  /\ UNCHANGED <<phase, remote_disconnected, crypt, informed, data,
                 console, sent>>

\* stream_connection_takion_cb for CONNECTED and DISCONNECT
TakionEvent(connected) ==
  IF state = "takion_connect"
  THEN state_finished' = connected /\ state_failed' = ~connected /\ UNCHANGED state
  ELSE UNCHANGED phase

ConnectedEvent ==
  /\ takion = "connected" /\ LFree
  /\ TakionEvent(TRUE)
  /\ takion' = "loop"
  /\ TakionOnly
  /\ UNCHANGED <<remote_disconnected, crypt, informed, data, console, sent>>

\* The socket is closed after the callback.
DisconnectEvent ==
  /\ takion = "disconnect" /\ LFree
  /\ TakionEvent(FALSE)
  /\ takion' = "exited"
  /\ TakionOnly
  /\ UNCHANGED <<remote_disconnected, crypt, informed, data, console, sent>>

\* What the console may send now, and what it is then up to.
Sends(d, next) ==
  \/ d = "bang" /\ console = "asked" /\ next = "accepted"
  \/ d = "bad_bang" /\ console = "asked" /\ next = "silent"
  \/ d \in {"streaminfo", "bad_streaminfo"} /\ console = "accepted" /\ next = "silent"
  \/ d \in {"disconnect", "effect", "other"} /\ next = console

\* takion_recv; select prefers the stop pipe.
Receive(d, next) ==
  /\ takion = "loop" /\ ~takion_stop /\ Sends(d, next)
  /\ takion' = "data" /\ data' = d /\ console' = next
  /\ TakionOnly
  /\ UNCHANGED <<phase, remote_disconnected, crypt, informed, sent>>

\* Stopped, or recv failed.
ReceiveEnds ==
  /\ takion = "loop"
  /\ takion' = "disconnect"
  /\ TakionOnly
  /\ UNCHANGED <<phase, remote_disconnected, crypt, informed, data, console, sent>>

DataDisconnect ==
  /\ data = "disconnect"
  /\ remote_disconnected' = TRUE
  /\ UNCHANGED <<phase, crypt, sent>>

\* stream_connection_send_controller_connection: to fail comes too late to matter.
SendControllerConnection ==
  /\ Send("CONTROLLERCONNECTION")
  /\ state_failed' \in {state_failed, TRUE}

DataBang ==
  /\ data = "bang" /\ state = "expect_bang"
  /\ crypt' = TRUE /\ state_finished' = TRUE
  /\ SendControllerConnection
  /\ UNCHANGED <<state, remote_disconnected>>

\* stream_connection_send_streaminfo_ack, whose result nobody looks at
SendStreamInfoAck == Send("STREAMINFOACK")

DataStreamInfo ==
  /\ data = "streaminfo" /\ state = "expect_streaminfo"
  /\ SendStreamInfoAck
  /\ state_finished' = TRUE
  /\ UNCHANGED <<state, state_failed, remote_disconnected, crypt>>

DataRefused ==
  /\ \/ data = "bad_bang" /\ state = "expect_bang"
     \/ data = "bad_streaminfo" /\ state = "expect_streaminfo"
  /\ state_failed' = TRUE
  /\ UNCHANGED <<state, state_finished, remote_disconnected, crypt, sent>>

\* Anything else is logged and forgotten.
DataUnexpected ==
  /\ \/ data = "other"
     \/ data \in {"bang", "bad_bang"} /\ state # "expect_bang"
     \/ data \in {"streaminfo", "bad_streaminfo"} /\ state # "expect_streaminfo"
  /\ UNCHANGED <<phase, remote_disconnected, crypt, sent>>

\* stream_connection_takion_data_protobuf
HandleData ==
  /\ takion = "data" /\ data # "effect" /\ LFree
  /\ DataDisconnect \/ DataBang \/ DataStreamInfo \/ DataRefused \/ DataUnexpected
  /\ informed' = (informed \/ data = "streaminfo")
  /\ takion' = "loop"
  /\ TakionOnly
  /\ UNCHANGED <<data, console>>

\* stream_connection_takion_data_rumble and _trigger_effects: an event for the
\* user, without the mutex.
HandleEffect ==
  /\ takion = "data" /\ data = "effect"
  /\ takion' = "loop"
  /\ TakionOnly
  /\ UNCHANGED <<phase, remote_disconnected, crypt, informed, data, console, sent>>

Takion ==
  \/ HandshakeDone \/ HandshakeFails \/ ConnectedEvent \/ DisconnectEvent
  \/ \E d \in Datas, next \in {"waits", "asked", "accepted", "silent"} :
       Receive(d, next)
  \/ ReceiveEnds \/ HandleData \/ HandleEffect
-----------------------------------------------------------------------------
(* The congestion control and feedback sender threads, and the users *)

Others == UNCHANGED <<run, err, phase, remote_disconnected, crypt, informed,
                      takionVars, console, sent>>

\* Every 200 ms a report is sent, with stop_cond's mutex held.
Congestion ==
  /\ \/ congestion = "wait" /\ congestion_stop /\ congestion' = "exited"
     \/ congestion = "wait" /\ ~congestion_stop /\ congestion' = "sending"
     \/ congestion = "sending" /\ congestion' = "wait"
     \/ congestion = "wait" /\ WaitFails /\ congestion' = "exited"
  /\ Others /\ UNCHANGED <<should_stop, congestion_stop, feedbackVars, updating>>

\* Every 200 ms, or when the controller state changed.
Feedback ==
  /\ \/ feedback = "wait" /\ feedback_stop /\ feedback' = "exited"
     \/ feedback = "wait" /\ ~feedback_stop /\ feedback' = "sending"
     \/ feedback = "sending" /\ feedback' = "wait"
     \/ feedback = "wait" /\ WaitFails /\ feedback' = "exited"
  /\ Others /\ UNCHANGED <<should_stop, congestionVars, feedback_stop,
                           feedback_sender_active, updating>>

\* chiaki_stream_connection_stop
Stop ==
  /\ LFree /\ ~should_stop
  /\ should_stop' = TRUE
  /\ Others /\ UNCHANGED <<congestionVars, feedbackVars, updating>>

\* chiaki_session_set_controller_state, while the sender is active
BeginUpdate ==
  /\ FFree /\ feedback_sender_active
  /\ updating' = TRUE
  /\ Others /\ UNCHANGED <<should_stop, congestionVars, feedbackVars>>

EndUpdate ==
  /\ updating
  /\ updating' = FALSE
  /\ Others /\ UNCHANGED <<should_stop, congestionVars, feedbackVars>>

Done == run = "returned" /\ UNCHANGED vars

Next ==
  \/ Run \/ Takion \/ Congestion \/ Feedback
  \/ Stop \/ BeginUpdate \/ EndUpdate \/ Done

Spec == Init /\ [][Next]_vars

\* Every thread that can run does, timeouts pass, and the handshake ends by
\* its own timeouts.  Nothing is assumed of the console.
Fairness ==
  /\ WF_vars(Run) /\ WF_vars(HandshakeFails)
  /\ WF_vars(ConnectedEvent \/ DisconnectEvent \/ HandleData
             \/ HandleEffect)
  /\ WF_vars(takion_stop /\ ReceiveEnds)
  /\ WF_vars(Congestion) /\ WF_vars(Feedback) /\ WF_vars(EndUpdate)
  /\ SF_vars(FiniFeedback) /\ SF_vars(StopFeedback)
  /\ SF_vars(StopCongestion)

FairSpec == Spec /\ Fairness
-----------------------------------------------------------------------------
(* Properties *)

\* session.c turns SUCCESS and CANCELED into STOPPED and prints a reason
\* for DISCONNECTED: run returns them only after a stop, and only after the
\* console gave a reason.  A console that was asked for a stream is told when
\* it ends, however it ends.
EndIsExplained ==
  TypeOK /\
  (run = "returned" =>
    /\ err \in {"success", "canceled"} => should_stop
    /\ err = "disconnected" => remote_disconnected
    /\ "BIG" \in sent => "DISCONNECT" \in sent)

\* The CONNECTED event and the feedback sender come only after an accepted
\* BANG, which set the keys, and a STREAMINFO: no phase takes the answer of
\* an earlier one for its own.  What the console is sent keeps that order too.
ConnectedIsComplete ==
  /\ feedback # "none" \/ run \in {"feedback", "event"} => crypt /\ informed
  /\ "HEARTBEAT" \in sent => {"BIG", "CONTROLLERCONNECTION", "STREAMINFOACK"} \subseteq sent
  /\ "STREAMINFOACK" \in sent => "CONTROLLERCONNECTION" \in sent /\ informed
  /\ "CONTROLLERCONNECTION" \in sent => "BIG" \in sent /\ crypt

\* A user who updates the controller state never finds a feedback sender
\* that was already torn down.
UpdateHasSender == updating => feedback \in {"wait", "sending", "exited"}

\* The thread of the feedback sender is gone before Takion, which it sends
\* through, is closed.
FeedbackEndsFirst == takion_closed => feedback \in {"none", "finished"}

\* When run has returned and the receivers are freed, the Takion thread,
\* which feeds them, is gone.
TakionEndsFirst == run = "returned" => takion \in {"none", "exited"}

\* What the other threads use outlives them: see the three parts.
ThreadsEndFirst == UpdateHasSender /\ FeedbackEndsFirst /\ TakionEndsFirst

\* A stop ends run, whatever the four threads are doing.
StopEnds == should_stop ~> run = "returned"

\* So does a disconnect by the console, and a handshake that fails.
DisconnectEnds ==
  (remote_disconnected \/ (state = "takion_connect" /\ takion = "exited"))
    ~> run = "returned"

\* Both: run ends when the user, the console or the handshake ends it.
RunEnds == StopEnds /\ DisconnectEnds

\* takion.h: chiaki_takion_send_congestion is "Thread-safe while Takion is
\* running", which it is not once it was closed.
CongestionWhileRunning == congestion = "sending" => ~takion_closed

\* streamconnection.c: "StreamConnection didn't receive streaminfo".
MissingStreamInfoIsMissing ==
  [][run = "streaminfo" /\ run' = "disconnect" /\ ~should_stop => ~informed]_vars
=============================================================================
