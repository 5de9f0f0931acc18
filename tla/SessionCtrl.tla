---------------------------- MODULE SessionCtrl ----------------------------
(***************************************************************************)
(* The session thread (lib/src/session.c), the ctrl thread (lib/src/ctrl.c) *)
(* and the calls a user makes on a session.                                *)
(*                                                                         *)
(* Two mutexes: M, the session's state_mutex, and N, ctrl's notif_mutex.   *)
(* A thread that blocks or calls out while it owns one keeps it from one   *)
(* step to the next; MFree and NFree tell that from the program counters.  *)
(* A critical section without such a point is one step.  A pipe is the     *)
(* level-triggered token of lib/src/stoppipe.c: TRUE while readable.  The  *)
(* session's own stop_pipe is written together with should_stop and never  *)
(* reset, so should_stop stands for both.                                  *)
(*                                                                         *)
(* Failing allocations are left out, but for those of Senkusha and the     *)
(* keys.  The console, Senkusha and the stream connection appear by what   *)
(* they answer.                                                            *)
(***************************************************************************)
EXTENDS Naturals, Sequences

CONSTANTS
  Addresses,    \* how many addresses the host name has
  Answers,      \* what the console may answer to the session request
  Messages,     \* what it may send to ctrl
  Batch,        \* bound: messages one recv may return
  PinEntered,   \* does the user ever enter a PIN?
  Callers,      \* threads that call chiaki_ctrl_send_message
  MaxQueue      \* bound: messages waiting in msg_queue

AllAnswers == {"ok", "bad_nonce", "version", "unknown_version",
               "bare_version", "in_use", "crash", "other"}
AllMessages == {"session_id", "pin_req", "login_ok", "login_bad",
                "other", "overflow"}

ASSUME SessionCtrlAssumption ==
  /\ Addresses \in Nat \ {0}
  /\ Answers \subseteq AllAnswers
  /\ Messages \subseteq AllMessages
  /\ Batch \in Nat \ {0} /\ MaxQueue \in Nat
  /\ PinEntered \in BOOLEAN

VARIABLES
  (* the session thread *)
  s,             \* where it is
  attempt,       \* 1 .. 3: calls of session_thread_request_session
  address,       \* the address being tried
  known,         \* server_target is not unknown
  (* protected by M *)
  should_stop, quit_reason, ctrl_failed, ctrl_session_id_received,
  ctrl_login_pin_requested, login_pin_entered,
  (* the ctrl thread *)
  c,             \* where it is
  recv_buf,      \* complete messages in the receive buffer
  failing,       \* reasons it still has to pass to ctrl_failed
  sock,          \* "none" while ctrl->sock is not set
  login_pin_requested,
  (* protected by N *)
  c_should_stop, c_login_pin_entered, msg_queue,
  notif_pipe,
  (* the users, and history *)
  caller,        \* per caller: "idle" or "queued", its message unannounced
  pin_sent,      \* has a PIN been sent to the console?
  unprepared     \* ctrl's thread, Senkusha or the keys could not be set up

sVars == <<s, attempt, address, known>>
mVars == <<should_stop, quit_reason, ctrl_failed, ctrl_session_id_received,
           ctrl_login_pin_requested, login_pin_entered>>
cVars == <<c, recv_buf, failing, sock, login_pin_requested>>
nVars == <<c_should_stop, c_login_pin_entered, msg_queue, notif_pipe>>
hVars == <<caller, pin_sent, unprepared>>
vars == <<sVars, mVars, cVars, nVars, hVars>>

RequestReasons == {"request_unknown", "request_refused", "in_use", "crash",
                   "version_mismatch"}
Reasons == RequestReasons \cup
           {"none", "stopped", "ctrl_unknown", "ctrl_connect_failed",
            "ctrl_refused", "stream_unknown", "remote_disconnected"}

SessionStates == {"start", "connect", "http", "nap", "wait_ctrl", "wait_pin",
                  "forward_pin", "wait_again", "senkusha", "stream",
                  "stop_ctrl", "join_ctrl", "quit", "done"}
CtrlStates == {"off", "start", "connect", "http", "handle", "failing",
               "select", "canceled", "data", "exited"}

TypeOK ==
  /\ s \in SessionStates /\ attempt \in 1 .. 3 /\ address \in 1 .. Addresses
  /\ known \in BOOLEAN
  /\ should_stop \in BOOLEAN /\ quit_reason \in Reasons
  /\ ctrl_failed \in BOOLEAN /\ ctrl_session_id_received \in BOOLEAN
  /\ ctrl_login_pin_requested \in BOOLEAN /\ login_pin_entered \in BOOLEAN
  /\ c \in CtrlStates /\ recv_buf \in Seq(AllMessages)
  /\ failing \in Seq(Reasons) /\ sock \in {"none", "open"}
  /\ login_pin_requested \in BOOLEAN
  /\ c_should_stop \in BOOLEAN /\ c_login_pin_entered \in BOOLEAN
  /\ msg_queue \in 0 .. MaxQueue /\ notif_pipe \in BOOLEAN
  /\ caller \in [Callers -> {"idle", "queued"}]
  /\ pin_sent \in BOOLEAN /\ unprepared \in BOOLEAN

\* chiaki_session_init and chiaki_session_start
Init ==
  /\ s = "start" /\ attempt = 1 /\ address = 1 /\ known = FALSE
  /\ should_stop = FALSE /\ quit_reason = "none" /\ ctrl_failed = FALSE
  /\ ctrl_session_id_received = FALSE /\ ctrl_login_pin_requested = FALSE
  /\ login_pin_entered = FALSE
  /\ c = "off" /\ recv_buf = <<>> /\ failing = <<>> /\ sock = "none"
  /\ login_pin_requested = FALSE
  /\ c_should_stop = FALSE /\ c_login_pin_entered = FALSE /\ msg_queue = 0
  /\ notif_pipe = FALSE
  /\ caller = [u \in Callers |-> "idle"]
  /\ pin_sent = FALSE /\ unprepared = FALSE

MFree == s \notin {"forward_pin", "senkusha"}
NFree == c \notin {"http", "handle", "failing"}
-----------------------------------------------------------------------------
(* The session request: session_thread_request_session and its callers *)

SessionOnly == UNCHANGED <<ctrl_failed, ctrl_session_id_received, should_stop,
                           ctrl_login_pin_requested, login_pin_entered,
                           cVars, nVars, hVars>>

\* A stop requested before the thread starts.
SessionStart ==
  /\ s = "start"
  /\ IF should_stop
     THEN s' = "quit" /\ quit_reason' = "stopped"
     ELSE s' = "connect" /\ UNCHANGED quit_reason
  /\ SessionOnly /\ UNCHANGED <<attempt, address, known>>

\* stop_pipe_connect is canceled; M is free while it blocks.
ConnectCanceled ==
  /\ s = "connect" /\ should_stop
  /\ s' = "quit" /\ quit_reason' = "stopped"
  /\ SessionOnly /\ UNCHANGED <<attempt, address, known>>

\* One address fails; after the last one the request does.
ConnectFails(reason) ==
  /\ s = "connect"
  /\ IF address < Addresses
     THEN s' = s /\ address' = address + 1 /\ quit_reason' = reason
     ELSE /\ s' = "quit" /\ UNCHANGED address
          /\ quit_reason' = IF reason = "none" THEN "request_unknown" ELSE reason
  /\ SessionOnly /\ UNCHANGED <<attempt, known>>

\* The request is sent, or send fails.
Connected ==
  /\ s = "connect"
  /\ \/ s' = "http" /\ UNCHANGED quit_reason
     \/ s' = "quit" /\ quit_reason' = "request_unknown"
  /\ SessionOnly /\ UNCHANGED <<attempt, address, known>>

HttpCanceled ==
  /\ s = "http" /\ should_stop
  /\ s' = "quit" /\ quit_reason' = "stopped"
  /\ SessionOnly /\ UNCHANGED <<attempt, address, known>>

\* No answer within SESSION_EXPECT_TIMEOUT_MS, or none that parses.
HttpFails ==
  /\ s = "http"
  /\ s' = "quit" /\ quit_reason' = "request_unknown"
  /\ SessionOnly /\ UNCHANGED <<attempt, address, known>>

\* Broken variant: an accepted answer leaves the reason of a bad nonce.
AnswerReasonLate(a) ==
  CASE a \in {"ok", "bad_nonce"} -> "request_unknown"
    [] a \in {"in_use", "crash"} -> a
    [] OTHER -> "version_mismatch"

\* Without target_out (the third attempt) a version is an error like others.
AnswerReason(a) ==
  CASE a \in {"ok"} -> quit_reason
    [] a = "version" /\ attempt < 3 -> quit_reason
    [] a = "version" /\ attempt = 3 -> "version_mismatch"
    [] a \in {"unknown_version", "bare_version"} -> "version_mismatch"
    [] a \in {"in_use", "crash"} -> a
    [] OTHER -> "request_unknown"

\* Broken variant: a fourth attempt.
AgainOnceMore(a) ==
  \/ a = "version"
  \/ a = "bare_version" /\ known

\* Request again: the answer was a mismatch and server_target is known.
Again(a) ==
  /\ attempt < 3
  /\ \/ a = "version"
     \/ a = "bare_version" /\ known

HttpAnswer(a) ==
  /\ s = "http"
  /\ quit_reason' = AnswerReason(a)
  /\ known' = IF attempt = 3 THEN known
              ELSE IF a = "version" THEN TRUE
              ELSE IF a = "unknown_version" THEN FALSE ELSE known
  /\ IF Again(a)
     THEN s' = "connect" /\ attempt' = attempt + 1 /\ address' = 1
     ELSE /\ s' = IF a = "ok" THEN "nap" ELSE "quit"
          /\ UNCHANGED <<attempt, address>>
  /\ SessionOnly
-----------------------------------------------------------------------------
(* Waiting for ctrl: session_thread_func *)

\* Wakes after 10 ms, or for a stop; chiaki_ctrl_start, which fails if the
\* thread cannot be created.
StartCtrl ==
  /\ s = "nap"
  /\ \/ s' = "wait_ctrl" /\ c' = "start" /\ UNCHANGED unprepared
     \/ s' = "quit" /\ unprepared' = TRUE /\ UNCHANGED c
  /\ UNCHANGED <<attempt, address, known, mVars, recv_buf, failing, sock,
                 login_pin_requested, nVars, caller, pin_sent>>

\* Broken variant: nothing is reported when ctrl gave no reason.
CtrlFailedReasonAsIs == quit_reason

\* The label ctrl_failed.
CtrlFailedReason == IF quit_reason = "none" THEN "ctrl_unknown" ELSE quit_reason

Leave(reason) ==
  /\ s' = "stop_ctrl" /\ quit_reason' = reason
  /\ UNCHANGED <<ctrl_login_pin_requested>>

\* One round of the PIN loop up to its wait: the event goes out.
RequestPin ==
  /\ s' = "wait_pin"
  /\ ctrl_login_pin_requested' = FALSE
  /\ UNCHANGED quit_reason

Proceed ==
  /\ s' = "senkusha"
  /\ UNCHANGED <<quit_reason, ctrl_login_pin_requested>>

\* Broken variant: a failed ctrl is never looked at.
AfterWaitBlind(checksFailure) ==
  IF should_stop THEN Leave("stopped")
  ELSE IF ctrl_login_pin_requested THEN RequestPin
  ELSE IF ~ctrl_session_id_received THEN Leave(CtrlFailedReason)
  ELSE Proceed

AfterWait(checksFailure) ==
  IF should_stop THEN Leave("stopped")
  ELSE IF checksFailure /\ ctrl_failed THEN Leave(CtrlFailedReason)
  ELSE IF ctrl_login_pin_requested THEN RequestPin
  ELSE IF ~ctrl_session_id_received THEN Leave(CtrlFailedReason)
  ELSE Proceed

\* The predicate holds or SESSION_EXPECT_TIMEOUT_MS passed: both wake it.
\* Only the first wait looks at ctrl_failed afterwards.
WaitCtrl ==
  /\ \/ s = "wait_ctrl" /\ AfterWait(TRUE)
     \/ s = "wait_again" /\ AfterWait(FALSE)
  /\ UNCHANGED <<attempt, address, known, should_stop, ctrl_failed,
                 ctrl_session_id_received, login_pin_entered, cVars, nVars,
                 hVars>>

\* This wait has no timeout.  With a PIN, M is kept until ctrl took it.
WaitPin ==
  /\ s = "wait_pin"
  /\ should_stop \/ ctrl_failed \/ login_pin_entered
  /\ IF should_stop THEN Leave("stopped")
     ELSE IF ctrl_failed THEN Leave(CtrlFailedReason)
     ELSE /\ s' = "forward_pin"
          /\ UNCHANGED <<quit_reason, ctrl_login_pin_requested>>
  /\ UNCHANGED <<attempt, address, known, should_stop, ctrl_failed,
                 ctrl_session_id_received, login_pin_entered, cVars, nVars,
                 hVars>>

\* chiaki_ctrl_set_login_pin takes N while M is held.
ForwardPin ==
  /\ s = "forward_pin" /\ NFree
  /\ s' = "wait_again"
  /\ c_login_pin_entered' = TRUE /\ notif_pipe' = TRUE
  /\ login_pin_entered' = FALSE
  /\ UNCHANGED <<attempt, address, known, should_stop,
                 quit_reason, ctrl_failed, ctrl_session_id_received,
                 ctrl_login_pin_requested, cVars, c_should_stop, msg_queue, hVars>>

\* Senkusha ends by its timeouts; that its run failed changes nothing here.
\* If it cannot be set up or is canceled, or without the handshake key or the
\* keys of ECDH, the session leaves, and no reason is set.
SenkushaEnds ==
  /\ s = "senkusha"
  /\ \/ s' = "stream" /\ UNCHANGED unprepared
     \/ s' = "stop_ctrl" /\ unprepared' = TRUE
  /\ UNCHANGED <<attempt, address, known, mVars, cVars, nVars, caller, pin_sent>>

\* chiaki_stream_connection_run returns: CANCELED and SUCCESS only after a
\* stop (StreamConnection.tla), DISCONNECTED or an error at any time.
\* Broken variant: every end counts as a stop.
StreamReasonsAny == {"stopped", "remote_disconnected", "stream_unknown"}
StreamReasons == {"remote_disconnected", "stream_unknown"} \cup
                 IF should_stop THEN {"stopped"} ELSE {}

StreamEnds ==
  /\ s = "stream"
  /\ quit_reason' \in StreamReasons
  /\ s' = "stop_ctrl"
  /\ UNCHANGED <<attempt, address, known, should_stop, ctrl_failed,
                 ctrl_session_id_received, ctrl_login_pin_requested,
                 login_pin_entered, cVars, nVars, hVars>>

\* chiaki_ctrl_stop
StopCtrl ==
  /\ s = "stop_ctrl" /\ NFree
  /\ s' = "join_ctrl"
  /\ c_should_stop' = TRUE /\ notif_pipe' = TRUE
  /\ UNCHANGED <<attempt, address, known, mVars, cVars,
                 c_login_pin_entered, msg_queue, hVars>>

\* Broken variant: the thread is not waited for.
JoinedAnyway == TRUE
Joined == c = "exited"

JoinCtrl ==
  /\ s = "join_ctrl" /\ Joined
  /\ s' = "quit"
  /\ UNCHANGED <<attempt, address, known, mVars, cVars, nVars,
                 hVars>>

\* The quit event; the user may now join and free the session.
Quit ==
  /\ s = "quit"
  /\ s' = "done"
  /\ UNCHANGED <<attempt, address, known, mVars, cVars, nVars,
                 hVars>>

Session ==
  \/ SessionStart \/ ConnectCanceled \/ Connected \/ HttpCanceled \/ HttpFails
  \/ \E r \in {"none", "request_refused"} : ConnectFails(r)
  \/ \E a \in Answers : HttpAnswer(a)
  \/ StartCtrl \/ WaitCtrl \/ WaitPin \/ ForwardPin \/ SenkushaEnds
  \/ StreamEnds \/ StopCtrl \/ JoinCtrl \/ Quit
-----------------------------------------------------------------------------
(* ctrl_connect *)

CtrlOnly == UNCHANGED <<sVars, mVars, nVars, hVars>>

\* Leave the thread through ctrl_failed, once per reason, N held throughout.
Fail(rs) == c' = "failing" /\ failing' = rs

\* socket() may fail; stop_pipe_connect runs without N.
CtrlStart ==
  /\ c = "start"
  /\ \/ c' = "connect" /\ UNCHANGED failing
     \/ Fail(<<"ctrl_unknown", "ctrl_connect_failed">>)
  /\ CtrlOnly /\ UNCHANGED <<recv_buf, sock, login_pin_requested>>

\* Any token cancels the connect, whoever wrote it.
CtrlConnectCanceled ==
  /\ c = "connect" /\ notif_pipe
  /\ Fail(<<"ctrl_connect_failed">>)
  /\ CtrlOnly /\ UNCHANGED <<recv_buf, sock, login_pin_requested>>

CtrlConnectFails ==
  /\ c = "connect"
  /\ \/ Fail(<<"ctrl_refused", "ctrl_connect_failed">>)
     \/ Fail(<<"ctrl_unknown", "ctrl_connect_failed">>)
  /\ CtrlOnly /\ UNCHANGED <<recv_buf, sock, login_pin_requested>>

\* A failing send returns err, which is still SUCCESS: the loop runs with
\* ctrl->sock not set.
CtrlConnected ==
  /\ c = "connect"
  /\ c' \in {"http", "select"}
  /\ CtrlOnly /\ UNCHANGED <<recv_buf, failing, sock, login_pin_requested>>

\* Canceled, timed out, not parsed or not 200.
CtrlHttpFails ==
  /\ c = "http"
  /\ Fail(<<"ctrl_connect_failed">>)
  /\ CtrlOnly /\ UNCHANGED <<recv_buf, sock, login_pin_requested>>

Received == UNION {[1 .. n -> Messages] : n \in 1 .. Batch}

\* The answer may already carry the first messages.
CtrlHttpAnswer ==
  /\ c = "http"
  /\ sock' = "open"
  /\ \/ c' = "select" /\ UNCHANGED recv_buf
     \/ c' = "handle" /\ recv_buf' \in Received
  /\ CtrlOnly /\ UNCHANGED <<failing, login_pin_requested>>
-----------------------------------------------------------------------------
(* ctrl_thread_func, with N held: ctrl_failed and ctrl_message_received *)

CtrlFailed ==
  /\ c = "failing" /\ MFree
  /\ quit_reason' = Head(failing) /\ ctrl_failed' = TRUE
  /\ failing' = Tail(failing)
  /\ c' = IF Len(failing) = 1 THEN "exited" ELSE "failing"
  /\ UNCHANGED <<sVars, should_stop, ctrl_session_id_received,
                 ctrl_login_pin_requested, login_pin_entered, recv_buf, sock,
                 login_pin_requested, nVars, hVars>>

\* The next message of the buffer, or back to select without N.
Next1 == /\ recv_buf' = Tail(recv_buf)
         /\ c' = IF Len(recv_buf) = 1 THEN "select" ELSE "handle"

HandleSessionId ==
  /\ c = "handle" /\ Head(recv_buf) = "session_id"
  /\ ctrl_session_id_received \/ MFree
  /\ ctrl_session_id_received' = TRUE
  /\ Next1
  /\ UNCHANGED <<sVars, should_stop, quit_reason, ctrl_failed,
                 ctrl_login_pin_requested, login_pin_entered, failing, sock,
                 login_pin_requested, nVars, hVars>>

HandlePinReq ==
  /\ c = "handle" /\ Head(recv_buf) = "pin_req"
  /\ MFree
  /\ login_pin_requested' = TRUE
  /\ ctrl_login_pin_requested' = TRUE
  /\ Next1
  /\ UNCHANGED <<sVars, should_stop, quit_reason, ctrl_failed,
                 ctrl_session_id_received, login_pin_entered, failing, sock,
                 nVars, hVars>>

\* Rejected although no PIN was asked for: only a warning.
HandleLoginBad ==
  /\ c = "handle" /\ Head(recv_buf) = "login_bad"
  /\ login_pin_requested => MFree
  /\ ctrl_login_pin_requested' = (ctrl_login_pin_requested \/ login_pin_requested)
  /\ Next1
  /\ UNCHANGED <<sVars, should_stop, quit_reason, ctrl_failed,
                 ctrl_session_id_received, login_pin_entered, failing, sock,
                 login_pin_requested, nVars, hVars>>

\* Messages that stay inside ctrl: login success, heartbeat, keyboard.
HandleOther ==
  /\ c = "handle" /\ Head(recv_buf) \in {"login_ok", "other"}
  /\ login_pin_requested' = (login_pin_requested /\ Head(recv_buf) # "login_ok")
  /\ Next1
  /\ CtrlOnly /\ UNCHANGED <<failing, sock>>

HandleOverflow ==
  /\ c = "handle" /\ Head(recv_buf) = "overflow"
  /\ Fail(<<"ctrl_unknown">>)
  /\ CtrlOnly /\ UNCHANGED <<recv_buf, sock, login_pin_requested>>

\* select prefers the pipe; what it returned is acted upon once N is taken.
Select ==
  /\ c = "select"
  /\ c' = IF notif_pipe THEN "canceled" ELSE "data"
  /\ CtrlOnly /\ UNCHANGED <<recv_buf, failing, sock, login_pin_requested>>

\* What the loop over the queue leaves.  Broken variant: it sends one message.
UnsentRest(n) == IF n > 0 THEN n - 1 ELSE 0
Unsent(n) == 0

\* Broken variant: a stop waits until there is nothing to send.
ExitsIfIdle == c_should_stop /\ msg_queue = 0
Exits == c_should_stop

\* The queue is sent first, then the PIN; with a PIN should_stop waits for
\* the next token.
Canceled ==
  /\ c = "canceled"
  /\ msg_queue' = Unsent(msg_queue)
  /\ IF c_login_pin_entered
     THEN /\ c' = "select"
          /\ c_login_pin_entered' = FALSE /\ notif_pipe' = FALSE
          /\ pin_sent' = TRUE
     ELSE /\ c' = IF Exits THEN "exited" ELSE "select"
          /\ notif_pipe' = (Exits \/ msg_queue = 0)
          /\ UNCHANGED <<c_login_pin_entered, pin_sent>>
  /\ UNCHANGED <<sVars, mVars, recv_buf, failing, sock, login_pin_requested,
                 c_should_stop, caller, unprepared>>

Recv ==
  /\ c = "data" /\ sock = "open"
  /\ \/ c' = "select" /\ UNCHANGED recv_buf    \* less than a message
     \/ c' = "handle" /\ recv_buf' \in Received
     \/ c' = "exited" /\ UNCHANGED recv_buf    \* closed by the console
  /\ CtrlOnly /\ UNCHANGED <<failing, sock, login_pin_requested>>

RecvError ==
  /\ c = "data"
  /\ Fail(<<"ctrl_unknown">>)
  /\ CtrlOnly /\ UNCHANGED <<recv_buf, sock, login_pin_requested>>

Ctrl ==
  \/ CtrlStart \/ CtrlConnectCanceled \/ CtrlConnectFails \/ CtrlConnected
  \/ CtrlHttpFails \/ CtrlHttpAnswer \/ CtrlFailed
  \/ HandleSessionId \/ HandlePinReq \/ HandleLoginBad \/ HandleOther
  \/ HandleOverflow \/ Select \/ Canceled \/ Recv \/ RecvError
-----------------------------------------------------------------------------
(* The user *)

UserOnly == UNCHANGED <<sVars, cVars, pin_sent, unprepared>>

\* chiaki_session_stop
Stop ==
  /\ ~should_stop /\ MFree /\ s # "done"
  /\ should_stop' = TRUE
  /\ UserOnly
  /\ UNCHANGED <<quit_reason, ctrl_failed, ctrl_session_id_received,
                 ctrl_login_pin_requested, login_pin_entered, nVars, caller>>

\* chiaki_session_set_login_pin
SetLoginPin ==
  /\ PinEntered
  /\ ~login_pin_entered /\ MFree /\ s # "done"
  /\ login_pin_entered' = TRUE
  /\ UserOnly
  /\ UNCHANGED <<should_stop, quit_reason, ctrl_failed,
                 ctrl_session_id_received, ctrl_login_pin_requested, nVars, caller>>

\* chiaki_ctrl_send_message: the queue under N, the pipe after N is released.
QueueMessage(u) ==
  /\ caller[u] = "idle" /\ NFree /\ msg_queue < MaxQueue /\ s # "done"
  /\ msg_queue' = msg_queue + 1
  /\ caller' = [caller EXCEPT ![u] = "queued"]
  /\ UserOnly
  /\ UNCHANGED <<mVars, c_should_stop, c_login_pin_entered, notif_pipe>>

Announce(u) ==
  /\ caller[u] = "queued"
  /\ notif_pipe' = TRUE
  /\ caller' = [caller EXCEPT ![u] = "idle"]
  /\ UserOnly
  /\ UNCHANGED <<mVars, c_should_stop, c_login_pin_entered, msg_queue>>

User == Stop \/ SetLoginPin \/ \E u \in Callers : QueueMessage(u) \/ Announce(u)

Done == s = "done" /\ UNCHANGED vars

Next == Session \/ Ctrl \/ User \/ Done

Spec == Init /\ [][Next]_vars

\* Threads that can run do, and timeouts pass: every wait but the one for a
\* PIN, and every select on a pipe that is readable.  A mutex that is free
\* again and again is got at last.  The console is under no fairness.
Fairness ==
  /\ WF_vars(SessionStart \/ ConnectCanceled \/ HttpCanceled \/ HttpFails)
  /\ WF_vars(StartCtrl \/ WaitCtrl \/ WaitPin \/ SenkushaEnds)
  /\ SF_vars(StopCtrl) /\ WF_vars(JoinCtrl \/ Quit)
  /\ WF_vars(should_stop /\ StreamEnds)
  /\ WF_vars(CtrlStart \/ CtrlConnectCanceled \/ CtrlHttpFails \/ CtrlFailed)
  /\ WF_vars(HandleSessionId \/ HandlePinReq \/ HandleLoginBad \/ HandleOther
             \/ HandleOverflow)
  /\ WF_vars(notif_pipe /\ Select) /\ WF_vars(Canceled)
  /\ WF_vars(Recv \/ RecvError)
  /\ \A u \in Callers : WF_vars(Announce(u))

FairSpec == Spec /\ Fairness
-----------------------------------------------------------------------------
(* Properties *)

\* The quit event carries a reason, unless the session could not set up ctrl's
\* thread, Senkusha or its keys: those exits report what reason there is.
QuitHasReason == s = "done" /\ quit_reason = "none" => unprepared

\* STOPPED is reported only if the user asked for it.
StoppedWasAsked == quit_reason = "stopped" => should_stop

\* When the quit event is out, the ctrl thread is gone: it touches neither
\* the session, which may be freed, nor the reason that was reported.
NoThreadAfterQuit == s \in {"quit", "done"} => c \in {"off", "exited"}

\* Once the console accepted the request, a reason of the request can only be
\* left over from an address or an attempt that failed before it; the code
\* clears neither, and a failing ctrl reports what is left over as its own.
RequestReasonIsLeftOver ==
  s \notin {"start", "connect", "http", "quit", "done"}
    /\ quit_reason \in RequestReasons
  => \/ quit_reason = "request_refused" /\ (address > 1 \/ attempt > 1)
     \/ quit_reason = "version_mismatch" /\ attempt > 1

\* A queued message always has a token on its way to a sleeping ctrl thread.
MessageHasToken ==
  msg_queue > 0 /\ c = "select" =>
    notif_pipe \/ \E u \in Callers : caller[u] = "queued"

\* The stop token reaches the ctrl thread, unless a PIN took it along.
StopHasToken == c_should_stop /\ c = "select" => notif_pipe \/ pin_sent

\* The reason that is reported is right: see the three parts.
ReasonIsRight ==
  TypeOK /\ QuitHasReason /\ StoppedWasAsked /\ RequestReasonIsLeftOver

\* No wakeup of the ctrl thread is lost: see the two parts.
TokensAreKept == MessageHasToken /\ StopHasToken

\* A stop always ends the session, unless a PIN was entered, which may take the
\* stop's token along (ctrl.c:347) or find the two mutexes taken in the other
\* order (session.c:445); and a failing ctrl connection ends a session that
\* waits for it.
PinUsed == login_pin_entered \/ c_login_pin_entered \/ pin_sent
SessionEnds ==
  /\ should_stop ~> (s = "done" \/ PinUsed)
  /\ (ctrl_failed /\ s = "wait_ctrl") ~> (s = "done" \/ PinUsed)

\* Once the session took a stop, STOPPED is what it reports.
StopIsReported ==
  [][quit_reason = "stopped" => quit_reason' = "stopped"]_vars
=============================================================================
