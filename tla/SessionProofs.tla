---------------------------- MODULE SessionProofs ----------------------------
(***************************************************************************)
(* The session, from within and from its front ends.  First the safety     *)
(* invariants of SessionCtrl, for every number of addresses, every set of  *)
(* answers and messages, every batch, and every number of callers and of   *)
(* queued messages.  Then those of FrontEnds, for every number of frames,  *)
(* PINs and sessions and every ring of chunks: the window, the activity    *)
(* and the audio ring each have an invariant of their own.                 *)
(***************************************************************************)
EXTENDS SessionCtrl, FrontEnds, WellFoundedInduction, FiniteSetTheorems, SequenceTheorems, TLAPS

CtrlReasons == {"ctrl_unknown", "ctrl_connect_failed", "ctrl_refused"}

(* The type invariant, by owner, with what the receive buffer and the list *)
(* of reasons hold where they are read.                                    *)
SType == /\ s \in SessionStates
         /\ attempt \in 1 .. 3 /\ address \in 1 .. Addresses /\ known \in BOOLEAN
MType == /\ should_stop \in BOOLEAN /\ quit_reason \in Reasons
         /\ ctrl_failed \in BOOLEAN /\ ctrl_session_id_received \in BOOLEAN
         /\ ctrl_login_pin_requested \in BOOLEAN /\ login_pin_entered \in BOOLEAN
CType == /\ c \in CtrlStates
         /\ recv_buf \in Seq(AllMessages) /\ failing \in Seq(CtrlReasons)
         /\ c = "failing" => failing # <<>>
         /\ c = "handle" => recv_buf # <<>>
         /\ sock \in {"none", "open"} /\ login_pin_requested \in BOOLEAN
NType == /\ c_should_stop \in BOOLEAN /\ c_login_pin_entered \in BOOLEAN
         /\ msg_queue \in 0 .. MaxQueue /\ notif_pipe \in BOOLEAN
HType == /\ caller \in [Callers -> {"idle", "queued"}] /\ pin_sent \in BOOLEAN
         /\ unprepared \in BOOLEAN

TInv == SType /\ MType /\ CType /\ NType /\ HType

\* The parts together are the type invariant of the runs.
LEMMA TypeParts == TInv => TypeOK
<1> SUFFICES ASSUME TInv PROVE TypeOK
  OBVIOUS
<1>1. CtrlReasons \subseteq Reasons
  BY DEF CtrlReasons, Reasons
<1>2. failing \in Seq(CtrlReasons)
  BY DEF TInv, CType
<1>3. failing \in Seq(Reasons)
  BY <1>1, <1>2
<1> QED BY <1>3 DEF TInv, SType, MType, CType, NType, HType, TypeOK

\* It holds when the session has just been started.
LEMMA TypeInit == Init => TInv
<1> SUFFICES ASSUME Init PROVE TInv
  OBVIOUS
<1>1. <<>> \in Seq(AllMessages) /\ <<>> \in Seq(CtrlReasons)
  OBVIOUS
<1>2. 1 \in 1 .. 3 /\ 1 \in 1 .. Addresses /\ 0 \in 0 .. MaxQueue
  BY SessionCtrlAssumption
<1> QED
  BY <1>1, <1>2 DEF Init, TInv, SType, MType, CType, NType, HType, SessionStates,
     CtrlStates, Reasons

\* Whatever recv returned is a non-empty sequence of messages.
LEMMA ReceivedType ==
  \A b \in Received : b \in Seq(AllMessages) /\ b # <<>>
<1> SUFFICES ASSUME NEW n \in 1 .. Batch, NEW b \in [1 .. n -> Messages]
             PROVE  b \in Seq(AllMessages) /\ b # <<>>
  BY DEF Received
<1>1. Messages \subseteq AllMessages /\ Batch \in Nat
  BY SessionCtrlAssumption
<1>2. b \in Seq(Messages) /\ Len(b) = n
  BY <1>1
<1>3. b \in Seq(AllMessages)
  BY <1>1, <1>2
<1> QED BY <1>2, <1>3

\* The session thread starts the ctrl thread; it never touches its state.
LEMMA SessionLeavesCtrl ==
  Session => /\ UNCHANGED <<recv_buf, failing, sock, login_pin_requested>>
             /\ c' = c \/ c' = "start"
             /\ UNCHANGED <<caller, pin_sent>>
             /\ unprepared' \in {unprepared, TRUE}
BY DEF Session, SessionStart, ConnectCanceled, Connected, HttpCanceled, HttpFails,
   ConnectFails, HttpAnswer, StartCtrl, WaitCtrl, WaitPin, ForwardPin, SenkushaEnds,
   StreamEnds, StopCtrl, JoinCtrl, Quit, SessionOnly, cVars, hVars

\* Where the waits lead, and with which reason.
LEMMA WaitCtrlOutcome ==
  ASSUME WaitCtrl
  PROVE  /\ UNCHANGED <<attempt, address, known, should_stop, ctrl_failed,
                        ctrl_session_id_received, login_pin_entered, cVars,
                        nVars, hVars>>
         /\ s' \in {"stop_ctrl", "wait_pin", "senkusha"}
         /\ quit_reason' \in {quit_reason, "stopped", "ctrl_unknown"}
         /\ quit_reason' = "stopped" => should_stop \/ quit_reason = "stopped"
         /\ s' = "stop_ctrl" => quit_reason' # "none"
         /\ s \in {"wait_ctrl", "wait_again"}
         /\ ctrl_login_pin_requested' \in {ctrl_login_pin_requested, FALSE}
BY DEF WaitCtrl, AfterWait, Leave, RequestPin, Proceed, CtrlFailedReason, hVars

\* The answer to the session request yields a reason of the list.
LEMMA AnswerReasonOutcome ==
  ASSUME NEW a \in AllAnswers, attempt \in 1 .. 3
  PROVE  /\ AnswerReason(a) \in {quit_reason} \cup RequestReasons
         /\ a = "ok" => AnswerReason(a) = quit_reason
         /\ a # "ok" /\ ~Again(a) => AnswerReason(a) \in RequestReasons
         /\ Again(a) => AnswerReason(a) \in {quit_reason, "version_mismatch"}
BY DEF AnswerReason, Again, RequestReasons, AllAnswers

\* The session thread keeps it.
LEMMA TypeSession == TInv /\ Session => TInv'
<1> SUFFICES ASSUME TInv, Session PROVE TInv'
  OBVIOUS
<1>c. CType' /\ HType'
  BY SessionLeavesCtrl DEF TInv, CType, HType, CtrlStates, hVars
<1>s. SType' /\ MType' /\ NType'
  <2> USE SessionCtrlAssumption
      DEF TInv, SType, MType, NType, SessionStates, Reasons, RequestReasons,
          nVars, mVars, SessionOnly
  <2>1. CASE SessionStart BY <2>1 DEF SessionStart
  <2>2. CASE ConnectCanceled BY <2>2 DEF ConnectCanceled
  <2>3. CASE Connected BY <2>3 DEF Connected
  <2>4. CASE HttpCanceled BY <2>4 DEF HttpCanceled
  <2>5. CASE HttpFails BY <2>5 DEF HttpFails
  <2>6. CASE \E r \in {"none", "request_refused"} : ConnectFails(r)
    BY <2>6 DEF ConnectFails
  <2>7. CASE \E a \in Answers : HttpAnswer(a)
    <3> PICK a \in AllAnswers : HttpAnswer(a)
      BY <2>7
    <3>1. quit_reason' \in Reasons
      BY AnswerReasonOutcome DEF HttpAnswer
    <3>2. known' \in BOOLEAN /\ s' \in SessionStates
      BY DEF HttpAnswer
    <3>3. attempt' \in 1 .. 3 /\ address' \in 1 .. Addresses
      BY DEF HttpAnswer, Again
    <3> QED BY <3>1, <3>2, <3>3 DEF HttpAnswer
  <2>8. CASE StartCtrl BY <2>8 DEF StartCtrl
  <2>9. CASE WaitCtrl
    <3>1. s' \in SessionStates
      BY <2>9, WaitCtrlOutcome
    <3>2. quit_reason' \in Reasons
      BY <2>9, WaitCtrlOutcome
    <3>3. ctrl_login_pin_requested' \in BOOLEAN
      BY <2>9, WaitCtrlOutcome
    <3>4. UNCHANGED <<attempt, address, known, should_stop, ctrl_failed,
                      ctrl_session_id_received, login_pin_entered, nVars>>
      BY <2>9, WaitCtrlOutcome
    <3> QED BY <3>1, <3>2, <3>3, <3>4
  <2>10. CASE WaitPin BY <2>10 DEF WaitPin, Leave, CtrlFailedReason
  <2>11. CASE ForwardPin BY <2>11 DEF ForwardPin
  <2>12. CASE SenkushaEnds BY <2>12 DEF SenkushaEnds
  <2>13. CASE StreamEnds BY <2>13 DEF StreamEnds, StreamReasons
  <2>14. CASE StopCtrl BY <2>14 DEF StopCtrl
  <2>15. CASE JoinCtrl BY <2>15 DEF JoinCtrl
  <2>16. CASE Quit BY <2>16 DEF Quit
  <2> QED BY <2>1, <2>2, <2>3, <2>4, <2>5, <2>6, <2>7, <2>8, <2>9, <2>10, <2>11,
             <2>12, <2>13, <2>14, <2>15, <2>16 DEF Session
<1> QED BY <1>c, <1>s DEF TInv

\* The ctrl thread writes into the session only what M protects, and into
\* its own shared state only in Canceled.
LEMMA CtrlLeavesSession ==
  Ctrl => /\ UNCHANGED <<sVars, should_stop, login_pin_entered, c_should_stop,
                         caller, unprepared>>
          /\ Canceled \/ UNCHANGED <<nVars, pin_sent>>
          /\ CtrlFailed \/ UNCHANGED <<quit_reason, ctrl_failed>>
BY DEF Ctrl, CtrlStart, CtrlConnectCanceled, CtrlConnectFails, CtrlConnected,
   CtrlHttpFails, CtrlHttpAnswer, CtrlFailed, HandleSessionId, HandlePinReq,
   HandleLoginBad, HandleOther, HandleOverflow, Select, Canceled, Recv, RecvError,
   CtrlOnly, mVars, nVars, hVars

\* Reasons for ctrl_failed are lists of one or two.
LEMMA FailType ==
  ASSUME NEW r \in {"ctrl_unknown", "ctrl_connect_failed"}
  PROVE  /\ <<r>> \in Seq(CtrlReasons) /\ <<r>> # <<>>
         /\ <<"ctrl_unknown", "ctrl_connect_failed">> \in Seq(CtrlReasons)
         /\ <<"ctrl_unknown", "ctrl_connect_failed">> # <<>>
         /\ <<"ctrl_refused", "ctrl_connect_failed">> \in Seq(CtrlReasons)
         /\ <<"ctrl_refused", "ctrl_connect_failed">> # <<>>
BY DEF CtrlReasons

\* Handling a message takes it out of the receive buffer.
LEMMA TailType ==
  ASSUME NEW S, NEW q \in Seq(S), q # <<>>
  PROVE  Tail(q) \in Seq(S) /\ (Len(q) # 1 => Tail(q) # <<>>)
<1>1. Len(q) \in Nat /\ Len(q) > 0
  OBVIOUS
<1>2. Tail(q) \in Seq(S) /\ Len(Tail(q)) = Len(q) - 1
  BY <1>1
<1>3. Len(q) # 1 => Len(Tail(q)) # 0
  BY <1>1, <1>2
<1> QED BY <1>2, <1>3

\* The ctrl thread keeps its own part.
LEMMA CTypeStep == TInv /\ Ctrl => CType'
<1> SUFFICES ASSUME TInv, Ctrl PROVE CType'
  OBVIOUS
<1> USE DEF TInv, CType, CtrlStates, Fail, CtrlOnly
<1>1. CASE CtrlStart BY <1>1, FailType DEF CtrlStart
<1>2. CASE CtrlConnectCanceled BY <1>2, FailType DEF CtrlConnectCanceled
<1>3. CASE CtrlConnectFails BY <1>3, FailType DEF CtrlConnectFails
<1>4. CASE CtrlConnected BY <1>4 DEF CtrlConnected
<1>5. CASE CtrlHttpFails BY <1>5, FailType DEF CtrlHttpFails
<1>6. CASE CtrlHttpAnswer BY <1>6, ReceivedType DEF CtrlHttpAnswer
<1>7. CASE CtrlFailed
  <2>1. /\ Tail(failing) \in Seq(CtrlReasons)
        /\ Len(failing) # 1 => Tail(failing) # <<>>
    BY <1>7, TailType DEF CtrlFailed
  <2> QED BY <1>7, <2>1 DEF CtrlFailed
<1>h. ASSUME c = "handle", Next1, UNCHANGED <<failing, sock>>,
             login_pin_requested' \in BOOLEAN
      PROVE  CType'
  <2>1. /\ Tail(recv_buf) \in Seq(AllMessages)
        /\ Len(recv_buf) # 1 => Tail(recv_buf) # <<>>
    BY <1>h, TailType
  <2> QED BY <1>h, <2>1 DEF Next1
<1>8. CASE HandleSessionId BY <1>8, <1>h DEF HandleSessionId
<1>9. CASE HandlePinReq BY <1>9, <1>h DEF HandlePinReq
<1>10. CASE HandleLoginBad BY <1>10, <1>h DEF HandleLoginBad
<1>11. CASE HandleOther BY <1>11, <1>h DEF HandleOther
<1>12. CASE HandleOverflow BY <1>12, FailType DEF HandleOverflow
<1>13. CASE Select BY <1>13 DEF Select
<1>14. CASE Canceled BY <1>14 DEF Canceled
<1>15. CASE Recv BY <1>15, ReceivedType DEF Recv
<1>16. CASE RecvError BY <1>16, FailType DEF RecvError
<1> QED BY <1>1, <1>2, <1>3, <1>4, <1>5, <1>6, <1>7, <1>8, <1>9, <1>10, <1>11,
           <1>12, <1>13, <1>14, <1>15, <1>16 DEF Ctrl

\* The ctrl thread keeps the rest too.
LEMMA TypeCtrl == TInv /\ Ctrl => TInv'
<1> SUFFICES ASSUME TInv, Ctrl PROVE TInv'
  OBVIOUS
<1>1. CType'
  BY CTypeStep
<1>2. SType'
  BY CtrlLeavesSession DEF TInv, SType, sVars
<1>3. HType' /\ NType'
  <2>1. CASE Canceled
    <3> USE <2>1 DEF Canceled
    <3>1. msg_queue' \in 0 .. MaxQueue
      BY SessionCtrlAssumption DEF Unsent
    <3>2. UNCHANGED <<c_should_stop, caller, unprepared>>
      OBVIOUS
    <3>3. c_login_pin_entered' \in BOOLEAN /\ pin_sent' \in BOOLEAN
      BY DEF TInv, HType, NType
    <3>4. notif_pipe' \in BOOLEAN
      OBVIOUS
    <3> QED BY <3>1, <3>2, <3>3, <3>4 DEF TInv, HType, NType
  <2>2. CASE ~Canceled
    BY <2>2, CtrlLeavesSession DEF TInv, HType, NType, nVars
  <2> QED BY <2>1, <2>2
<1>4. MType'
  <2>1. quit_reason' \in Reasons /\ ctrl_failed' \in BOOLEAN
    <3>1. CASE CtrlFailed
      BY <3>1 DEF CtrlFailed, TInv, CType, CtrlReasons, Reasons
    <3> QED BY <3>1, CtrlLeavesSession DEF TInv, MType
  <2>2. should_stop' \in BOOLEAN /\ login_pin_entered' \in BOOLEAN
    BY CtrlLeavesSession DEF TInv, MType
  <2>3. ctrl_session_id_received' \in BOOLEAN /\ ctrl_login_pin_requested' \in BOOLEAN
    BY DEF TInv, MType, CType, Ctrl, CtrlStart, CtrlConnectCanceled,
       CtrlConnectFails, CtrlConnected, CtrlHttpFails, CtrlHttpAnswer, CtrlFailed,
       HandleSessionId, HandlePinReq, HandleLoginBad, HandleOther, HandleOverflow,
       Select, Canceled, Recv, RecvError, CtrlOnly, mVars
  <2> QED BY <2>1, <2>2, <2>3 DEF MType
<1> QED BY <1>1, <1>2, <1>3, <1>4 DEF TInv

\* So do the callers of the library.
LEMMA TypeUser == TInv /\ User => TInv'
<1> SUFFICES ASSUME TInv, User PROVE TInv'
  OBVIOUS
<1> USE DEF TInv, SType, MType, CType, NType, HType, UserOnly, sVars, cVars, nVars, mVars
<1>1. CASE Stop BY <1>1 DEF Stop
<1>2. CASE SetLoginPin BY <1>2 DEF SetLoginPin
<1>3. CASE \E u \in Callers : QueueMessage(u)
  BY <1>3, SessionCtrlAssumption DEF QueueMessage
<1>4. CASE \E u \in Callers : Announce(u) BY <1>4 DEF Announce
<1> QED BY <1>1, <1>2, <1>3, <1>4 DEF User

\* And so does every step.
LEMMA TypeStep == TInv /\ [Next]_vars => TInv'
<1> SUFFICES ASSUME TInv, [Next]_vars PROVE TInv'
  OBVIOUS
<1>1. CASE UNCHANGED vars
  BY <1>1 DEF vars, sVars, mVars, cVars, nVars, hVars, TInv, SType, MType, CType,
     NType, HType
<1> QED BY <1>1, TypeSession, TypeCtrl, TypeUser DEF Next, Done

\* Every variable keeps its type, in every instance.
THEOREM TypeCorrect == Spec => []TypeOK
<1>1. Spec => []TInv
  BY TypeInit, TypeStep, PTL DEF Spec
<1> QED BY <1>1, TypeParts, PTL
-----------------------------------------------------------------------------
(* The reason of the quit event *)

\* Until the ctrl thread is started it cannot fail.
NotYet == s \in {"start", "connect", "http", "nap"} => c = "off"

\* The reason while it is being decided.
ReasonInv ==
  /\ NotYet
  /\ StoppedWasAsked
  /\ s = "start" => quit_reason = "none"
  /\ s \in {"stop_ctrl", "join_ctrl", "quit", "done"} =>
       quit_reason # "none" \/ unprepared
  /\ s \notin {"start", "quit", "done"} /\ quit_reason \in RequestReasons =>
       \/ quit_reason = "request_refused" /\ (address > 1 \/ attempt > 1)
       \/ quit_reason = "version_mismatch" /\ attempt > 1

\* The reasons are consistent at the start.
LEMMA ReasonInit == Init => ReasonInv
BY DEF Init, ReasonInv, NotYet, StoppedWasAsked, RequestReasons

\* The session thread keeps them consistent: what it assigns matches where it goes.
LEMMA ReasonSession == TInv /\ ReasonInv /\ Session => ReasonInv'
<1> SUFFICES ASSUME TInv, ReasonInv, Session PROVE ReasonInv'
  OBVIOUS
<1> USE DEF TInv, SType, MType, ReasonInv, NotYet, StoppedWasAsked, RequestReasons,
        SessionStates, cVars, hVars, HType, SessionOnly
<1>1. CASE SessionStart BY <1>1 DEF SessionStart
<1>2. CASE ConnectCanceled BY <1>2 DEF ConnectCanceled
<1>3. CASE Connected BY <1>3 DEF Connected
<1>4. CASE HttpCanceled BY <1>4 DEF HttpCanceled
<1>5. CASE HttpFails BY <1>5 DEF HttpFails
<1>6. CASE \E r \in {"none", "request_refused"} : ConnectFails(r)
  BY <1>6, SessionCtrlAssumption DEF ConnectFails
<1>7. CASE \E a \in Answers : HttpAnswer(a)
  <2> PICK a \in AllAnswers : HttpAnswer(a)
    BY <1>7, SessionCtrlAssumption
  <2>1. CASE Again(a)
    BY <2>1, AnswerReasonOutcome DEF HttpAnswer
  <2>2. CASE ~Again(a) /\ a = "ok"
    BY <2>2, AnswerReasonOutcome DEF HttpAnswer
  <2>3. CASE ~Again(a) /\ a # "ok"
    BY <2>3, AnswerReasonOutcome DEF HttpAnswer
  <2> QED BY <2>1, <2>2, <2>3
<1>8. CASE StartCtrl BY <1>8 DEF StartCtrl, mVars
<1>9. CASE WaitCtrl BY <1>9, WaitCtrlOutcome
<1>10. CASE WaitPin BY <1>10 DEF WaitPin, Leave, CtrlFailedReason
<1>11. CASE ForwardPin BY <1>11 DEF ForwardPin
<1>12. CASE SenkushaEnds BY <1>12 DEF SenkushaEnds, mVars
<1>13. CASE StreamEnds BY <1>13 DEF StreamEnds, StreamReasons
<1>14. CASE StopCtrl BY <1>14 DEF StopCtrl, mVars
<1>15. CASE JoinCtrl BY <1>15 DEF JoinCtrl, mVars
<1>16. CASE Quit BY <1>16 DEF Quit, mVars
<1> QED BY <1>1, <1>2, <1>3, <1>4, <1>5, <1>6, <1>7, <1>8, <1>9, <1>10, <1>11,
           <1>12, <1>13, <1>14, <1>15, <1>16 DEF Session

\* A ctrl thread that was not started does nothing, and one that ended stays.
LEMMA CtrlRuns == Ctrl => c \notin {"off", "exited"} /\ c' # "off"
BY DEF Ctrl, CtrlStart, CtrlConnectCanceled, CtrlConnectFails, CtrlConnected,
   CtrlHttpFails, CtrlHttpAnswer, CtrlFailed, HandleSessionId, HandlePinReq,
   HandleLoginBad, HandleOther, HandleOverflow, Select, Canceled, Recv, RecvError,
   Fail, Next1

\* The ctrl thread only replaces a reason by one of its own.
LEMMA ReasonCtrl == TInv /\ ReasonInv /\ Ctrl => ReasonInv'
<1> SUFFICES ASSUME TInv, ReasonInv, Ctrl PROVE ReasonInv'
  OBVIOUS
<1>1. UNCHANGED <<s, attempt, address, should_stop, unprepared>>
  BY CtrlLeavesSession DEF sVars
<1>2. quit_reason' = quit_reason \/ quit_reason' \in CtrlReasons
  <2>1. CASE CtrlFailed
    BY <2>1 DEF CtrlFailed, TInv, CType
  <2> QED BY <2>1, CtrlLeavesSession
<1>3. s \notin {"start", "connect", "http", "nap"}
  BY CtrlRuns DEF ReasonInv, NotYet
<1> QED BY <1>1, <1>2, <1>3 DEF ReasonInv, NotYet, StoppedWasAsked, RequestReasons,
           CtrlReasons

\* And so does every step.
LEMMA ReasonStep == TInv /\ ReasonInv /\ [Next]_vars => ReasonInv'
<1> SUFFICES ASSUME TInv, ReasonInv, [Next]_vars PROVE ReasonInv'
  OBVIOUS
<1>1. CASE User
  BY <1>1 DEF User, Stop, SetLoginPin, QueueMessage, Announce, UserOnly, sVars,
     cVars, mVars, hVars, ReasonInv, NotYet, StoppedWasAsked, RequestReasons
<1>2. CASE UNCHANGED vars
  BY <1>2 DEF vars, sVars, mVars, cVars, hVars, ReasonInv, NotYet, StoppedWasAsked
<1> QED BY <1>1, <1>2, ReasonSession, ReasonCtrl DEF Next, Done

\* The invariant behind ReasonGiven, StopAsked and LeftOver.
LEMMA Reason == Spec => []ReasonInv
<1>1. TInv /\ ReasonInv /\ [Next]_vars => TInv' /\ ReasonInv'
  BY TypeStep, ReasonStep
<1> QED BY TypeInit, ReasonInit, <1>1, PTL DEF Spec

\* The quit event carries a reason, unless something could not be set up.
THEOREM ReasonGiven == Spec => []QuitHasReason
<1>1. ReasonInv => QuitHasReason
  BY DEF ReasonInv, QuitHasReason
<1> QED BY Reason, <1>1, PTL

\* STOPPED is reported only if the user asked for it.
THEOREM StopAsked == Spec => []StoppedWasAsked
<1>1. ReasonInv => StoppedWasAsked
  BY DEF ReasonInv
<1> QED BY Reason, <1>1, PTL

\* Once the request was accepted, a reason of the request is a leftover.
THEOREM LeftOver == Spec => []RequestReasonIsLeftOver
<1>1. ReasonInv => RequestReasonIsLeftOver
  BY DEF ReasonInv, RequestReasonIsLeftOver
<1> QED BY Reason, <1>1, PTL
-----------------------------------------------------------------------------
(* The end of the ctrl thread, and the tokens of its notification pipe *)

\* Tokens are taken only together with what they stand for, and the session
\* ends only over a ctrl thread that ended or never began.
TokenInv ==
  /\ NotYet
  /\ NoThreadAfterQuit
  /\ msg_queue > 0 => notif_pipe \/ \E u \in Callers : caller[u] = "queued"
  /\ c_should_stop /\ c # "exited" => notif_pipe \/ pin_sent

\* No token is owed at the start.
LEMMA TokenInit == Init => TokenInv
BY DEF Init, TokenInv, NotYet, NoThreadAfterQuit

\* What the session thread writes for ctrl it announces in the same critical section.
LEMMA TokenSession == TInv /\ TokenInv /\ Session => TokenInv'
<1> SUFFICES ASSUME TInv, TokenInv, Session PROVE TokenInv'
  OBVIOUS
<1>1. NotYet' /\ NoThreadAfterQuit'
  BY DEF TokenInv, NotYet, NoThreadAfterQuit, Session, SessionStart, ConnectCanceled,
     Connected, HttpCanceled, HttpFails, ConnectFails, HttpAnswer, StartCtrl, WaitCtrl,
     AfterWait, Leave, RequestPin, Proceed, WaitPin, ForwardPin, SenkushaEnds,
     StreamEnds, StopCtrl, JoinCtrl, Joined, Quit, SessionOnly, cVars
<1>2. UNCHANGED <<msg_queue, caller, pin_sent>> /\ (c' = c \/ c' = "start")
  BY SessionLeavesCtrl DEF hVars, Session, SessionStart, ConnectCanceled, Connected,
     HttpCanceled, HttpFails, ConnectFails, HttpAnswer, StartCtrl, WaitCtrl, WaitPin,
     ForwardPin, SenkushaEnds, StreamEnds, StopCtrl, JoinCtrl, Quit, SessionOnly, nVars
<1>3. UNCHANGED <<notif_pipe, c_should_stop>> \/ notif_pipe' = TRUE
  BY DEF Session, SessionStart, ConnectCanceled, Connected,
     HttpCanceled, HttpFails, ConnectFails, HttpAnswer, StartCtrl, WaitCtrl, WaitPin,
     ForwardPin, SenkushaEnds, StreamEnds, StopCtrl, JoinCtrl, Quit, SessionOnly, nVars
<1>4. c = "exited" => c' = "exited"
  BY DEF TokenInv, NotYet, Session, SessionStart, ConnectCanceled, Connected,
     HttpCanceled, HttpFails, ConnectFails, HttpAnswer, StartCtrl, WaitCtrl, WaitPin,
     ForwardPin, SenkushaEnds, StreamEnds, StopCtrl, JoinCtrl, Quit, SessionOnly, cVars
<1> QED BY <1>1, <1>2, <1>3, <1>4 DEF TokenInv

\* The ctrl thread takes the token only together with what it announces.
LEMMA TokenCtrl == TInv /\ TokenInv /\ Ctrl => TokenInv'
<1> SUFFICES ASSUME TInv, TokenInv, Ctrl PROVE TokenInv'
  OBVIOUS
<1>1. UNCHANGED <<s, c_should_stop, caller>> /\ c \notin {"off", "exited"}
  BY CtrlLeavesSession, CtrlRuns DEF sVars
<1>2. CASE Canceled
  <2>1. msg_queue' = 0
    BY <1>2 DEF Canceled, Unsent
  <2>2. c' = "exited" \/ pin_sent' = TRUE \/ ~c_should_stop
    BY <1>2 DEF Canceled, Exits
  <2> QED BY <1>1, <2>1, <2>2 DEF TokenInv, NotYet, NoThreadAfterQuit
<1>3. CASE ~Canceled
  <2>1. UNCHANGED <<nVars, pin_sent>>
    BY <1>3, CtrlLeavesSession
  <2> QED BY <1>1, <2>1 DEF TokenInv, NotYet, NoThreadAfterQuit, nVars
<1> QED BY <1>2, <1>3

\* A caller announces the message it queued.
LEMMA TokenUser == TInv /\ TokenInv /\ User => TokenInv'
<1> SUFFICES ASSUME TInv, TokenInv, User PROVE TokenInv'
  OBVIOUS
<1>1. UNCHANGED <<s, c, pin_sent, c_should_stop>>
  BY DEF User, Stop, SetLoginPin, QueueMessage, Announce, UserOnly, sVars, cVars, nVars
<1>2. CASE Stop \/ SetLoginPin
  BY <1>1, <1>2 DEF Stop, SetLoginPin, nVars, TokenInv, NotYet, NoThreadAfterQuit
<1>3. ASSUME NEW u \in Callers, QueueMessage(u) PROVE TokenInv'
  <2>1. caller'[u] = "queued" /\ notif_pipe' = notif_pipe
    BY <1>3 DEF QueueMessage, TInv, HType
  <2> QED BY <1>1, <2>1 DEF TokenInv, NotYet, NoThreadAfterQuit
<1>4. ASSUME NEW u \in Callers, Announce(u) PROVE TokenInv'
  BY <1>1, <1>4 DEF Announce, TokenInv, NotYet, NoThreadAfterQuit
<1> QED BY <1>2, <1>3, <1>4 DEF User

\* The invariant behind ThreadEndsFirst, MessageToken and StopToken.
LEMMA Tokens == Spec => []TokenInv
<1>1. TInv /\ TokenInv /\ UNCHANGED vars => TokenInv'
  BY DEF vars, sVars, cVars, nVars, hVars, TokenInv, NotYet, NoThreadAfterQuit
<1>2. TInv /\ TokenInv /\ [Next]_vars => TInv' /\ TokenInv'
  BY <1>1, TypeStep, TokenSession, TokenCtrl, TokenUser DEF Next, Done
<1> QED BY TypeInit, TokenInit, <1>2, PTL DEF Spec

\* When the quit event goes out the ctrl thread is gone.
THEOREM ThreadEndsFirst == Spec => []NoThreadAfterQuit
<1>1. TokenInv => NoThreadAfterQuit
  BY DEF TokenInv
<1> QED BY Tokens, <1>1, PTL

\* A queued message always has a token on its way.
THEOREM MessageToken == Spec => []MessageHasToken
<1>1. TokenInv => MessageHasToken
  BY DEF TokenInv, MessageHasToken
<1> QED BY Tokens, <1>1, PTL

\* A stop keeps its token unless a PIN took it along.
THEOREM StopToken == Spec => []StopHasToken
<1>1. TokenInv => StopHasToken
  BY DEF TokenInv, StopHasToken
<1> QED BY Tokens, <1>1, PTL

\* The reason that is reported is right.
THEOREM ReasonRight == Spec => []ReasonIsRight
<1>1. TypeOK /\ QuitHasReason /\ StoppedWasAsked /\ RequestReasonIsLeftOver => ReasonIsRight
  BY DEF ReasonIsRight
<1> QED BY TypeCorrect, ReasonGiven, StopAsked, LeftOver, <1>1, PTL

\* No wakeup of the ctrl thread is lost.
THEOREM TokensKept == Spec => []TokensAreKept
<1>1. MessageHasToken /\ StopHasToken => TokensAreKept
  BY DEF TokensAreKept
<1> QED BY MessageToken, StopToken, <1>1, PTL

-----------------------------------------------------------------------------
(***************************************************************************)
(* The window.  A frame in the codec is newer than the one pulled last,    *)
(* and that is at least as new as the one in front; paintGL reads the one  *)
(* in front, which the uploader does not write.                            *)
(***************************************************************************)

\* The window's part of the state, as the proofs need it.
WindowTypes ==
  /\ main \in {"loop", "widget", "join", "gone"}
  /\ uploader \in {"idle", "write", "swap", "ended"}
  /\ fg \in {0, 1} /\ frames \in [{0, 1} -> [1 .. Planes -> Nat]]
  /\ plane \in 1 .. Planes /\ skipped \subseteq {0, 1}
  /\ got \in Nat /\ sent \in Nat /\ shown \in Nat
  /\ coded \subseteq 2 .. sent + 1

\* What the uploader has pulled lies between what is shown and what is coded.
PulledInOrder ==
  /\ got <= sent + 1 /\ \A n \in coded : n > got
  /\ shown = 1 \/ shown <= got
  /\ uploader \in {"write", "swap"} => got >= 2

\* The planes before the one Update has come to are those of the frame that was
\* pulled, unless one was skipped; so the frame in front is whole.
PlanesInOrder ==
  /\ \A i \in {0, 1}, p \in 1 .. Planes : frames[i][p] = 1 \/ frames[i][p] <= got
  /\ uploader # "write" => plane = 1
  /\ uploader = "write" /\ 1 - fg \notin skipped =>
       \A p \in 1 .. Planes : p < plane => frames[1 - fg][p] = got
  /\ uploader = "swap" /\ 1 - fg \notin skipped =>
       \A p \in 1 .. Planes : frames[1 - fg][p] = got
  /\ fg \notin skipped => \A p \in 1 .. Planes : frames[fg][p] = frames[fg][1]

\* What is painted is in front, and the uploader ends before the session.
PaintedInFront ==
  /\ painting \in {-1, fg}
  /\ fg \notin skipped => shown <= frames[fg][1]
  /\ main \in {"join", "gone"} => uploader = "ended"

WindowInv == WindowTypes /\ PulledInOrder /\ PlanesInOrder /\ PaintedInFront

(***************************************************************************)
(* The activity.                                                           *)
(***************************************************************************)

\* The UI thread is inside shutdown() of a session whose thread has ended, or
\* waits for that; if it holds the video decoder's mutex, kill_decoder waits
\* for ever.
Closing == {"join", "kill", "joinVideo", "delete", "audio", "joinAudio", "free"}
LibJoined ==
  ui \in {"joinVideo", "delete", "audio", "joinAudio", "free"} \/ (ui = "kill" /\ videoLock # "ui")

\* A session is freed after its thread has ended, and that ends after Takion's.
EndedFirst ==
  /\ LibJoined => lib = "ended"
  /\ lib = "ended" => takion = "idle"
  /\ takion = "sample" => videoLock = "takion"

\* Each decoder without a codec has no output thread that waits for one.
OutputsEnd ==
  /\ video = "none" => videoOut \in {"none", "ended"}
  /\ audio = "none" => audioOut # "waiting"
  /\ ui \in {"audio", "joinAudio", "free"} => video = "none"
  /\ ui = "free" => audio = "none"
  /\ ui = "delete" => videoOut = "ended" \/ starved
  /\ stray => starved

ThreadsInv == EndedFirst /\ OutputsEnd

Ends == {"failed", "shutdown", "stopped"}

\* dialogContents is a dialog on the screen.
Screen ==
  /\ contents \in {"none", "quit", "create", "pin"} /\ dialogs \subseteq {"quit", "create", "pin"}
  /\ contents # "none" => contents \in dialogs

\* Until the user is told of something, it is the value last posted.
ToldEnd ==
  session /\ lib = "ended" /\ ~finishing => pending \in Ends \/ "quit" \in dialogs \/ ui \in Closing
ToldPin ==
  session /\ lib = "pin" /\ ~finishing => pending = "pin" \/ "pin" \in dialogs \/ ui \in Closing
ToldNone ==
  ~session /\ ui = "loop" /\ activity = "resumed" /\ ~finishing => "create" \in dialogs

\* A session is left by a pause, or by a reconnect that makes another.
LeftFor ==
  /\ ui = "surface" => session
  /\ ui = "join" \/ LibJoined => after = "resume" \/ activity # "resumed"

Told == ToldEnd /\ ToldPin /\ ToldNone /\ LeftFor

Flags == session \in BOOLEAN /\ finishing \in BOOLEAN

ToldInv == Flags /\ Screen /\ Told
\* The numbers up to k are a proper subset of those up to m.
LEMMA Below ==
  ASSUME NEW k \in Nat, NEW m \in Nat, k < m
  PROVE  <<0 .. k, 0 .. m>> \in StrictSubsetOrdering(Nat)
<1>1. 0 .. k \subseteq 0 .. m /\ 0 .. k # 0 .. m
  <2>1. m \in 0 .. m /\ m \notin 0 .. k
    OBVIOUS
  <2> QED
    BY <2>1
<1>2. <<0 .. k, 0 .. m>> \in (SUBSET Nat) \X (SUBSET Nat)
  OBVIOUS
<1> DEFINE p == <<0 .. k, 0 .. m>>
<1>3. p[1] = 0 .. k /\ p[2] = 0 .. m
  OBVIOUS
<1> QED
  BY <1>1, <1>2, <1>3, Zenon DEF StrictSubsetOrdering

\* A set of natural numbers has a least element.
LEMMA LeastExists ==
  ASSUME NEW S \in SUBSET Nat, S # {}
  PROVE  \E m \in S : \A k \in S : m <= k
<1> DEFINE R == StrictSubsetOrdering(Nat)
           T == {0 .. n : n \in S}
<1>1. IsWellFoundedOn(R, FiniteSubsetsOf(Nat))
  BY FS_StrictSubsetOrderingWellFounded
<1>2. T \subseteq FiniteSubsetsOf(Nat)
  <2>1. ASSUME NEW n \in S PROVE 0 .. n \in FiniteSubsetsOf(Nat)
    <3>1. n \in Int /\ 0 \in Int /\ 0 .. n \in SUBSET Nat
      OBVIOUS
    <3>2. IsFiniteSet(0 .. n)
      BY <3>1, FS_Interval
    <3> QED
      BY <3>1, <3>2, Zenon DEF FiniteSubsetsOf
  <2> HIDE DEF R
  <2> QED
    BY <2>1, Zenon DEF T
<1>3. T # {}
  BY Zenon
<1> HIDE DEF T, R
<1>4. \E x \in T : \A y \in T : <<y, x>> \notin R
  BY <1>1, <1>2, <1>3, WFMin, Zenon
<1>5. PICK m \in S : \A k \in S : <<0 .. k, 0 .. m>> \notin R
  BY <1>4, Zenon DEF T
<1>6. ASSUME NEW k \in S, k < m PROVE FALSE
  BY <1>5, <1>6, Below DEF R
<1> QED
  BY <1>5, <1>6
-----------------------------------------------------------------------------
(* The window                                                              *)

\* A frame that is coded is the newest of those that are.
LEMMA NewestIs ==
  ASSUME NEW m \in Nat, NEW S \in SUBSET (2 .. m + 1), S # {}
  PROVE  Window!Newest(S) \in S
<1> DEFINE D == {k \in 0 .. m + 1 : m + 1 - k \in S}
<1>1. D \in SUBSET Nat /\ D # {}
  <2>1. PICK n \in S : TRUE
    OBVIOUS
  <2>2. m + 1 - n \in 0 .. m + 1 /\ m + 1 - (m + 1 - n) = n
    BY <2>1
  <2>3. m + 1 - n \in D
    BY <2>1, <2>2
  <2>4. D \in SUBSET Nat
    OBVIOUS
  <2> QED
    BY <2>3, <2>4
<1>2. PICK k \in D : \A j \in D : k <= j
  BY <1>1, LeastExists
<1>3. ASSUME NEW n \in S PROVE n <= m + 1 - k
  <2>1. n \in 2 .. m + 1 /\ m + 1 - n \in 0 .. m + 1 /\ m + 1 - (m + 1 - n) = n
    OBVIOUS
  <2>2. m + 1 - n \in D
    BY <2>1
  <2>3. k <= m + 1 - n /\ k \in Nat
    BY <1>1, <1>2, <2>2, Zenon
  <2> QED
    BY <2>1, <2>3
<1>4. m + 1 - k \in S
  BY <1>2
<1> HIDE DEF D
<1> QED
  BY <1>3, <1>4, Zenon DEF Window!Newest

\* Nothing is drawn, coded or freed.
DrawsNothing == UNCHANGED <<Window!codecVars, Window!frameVars>> /\ main' = main

\* What the user does, and the session's events.
LEMMA WindowQuiet ==
  \/ Window!UserCloses \/ Window!UserAnswers \/ Window!UserReads \/ Window!UserPins
  \/ Window!ConnectedEvent \/ Window!PinEvent \/ Window!QuitEvent \/ Window!AudioSettings
  => DrawsNothing
BY DEF DrawsNothing, Window!UserCloses, Window!UserAnswers, Window!UserReads, Window!UserPins,
  Window!ConnectedEvent, Window!PinEvent, Window!QuitEvent, Window!AudioSettings, Window!SessionDoes,
  Window!codecVars, Window!frameVars, Window!closeVars

\* The main thread draws nothing either; how far its destructors are.
LEMMA MainOutcome ==
  ASSUME Window!MainStep
  PROVE  /\ UNCHANGED <<got, frames, plane, skipped, fg, painting, shown, coded, sent>>
         /\ \/ uploader' = uploader /\ main' \in {main, "widget"} /\ main = "loop"
            \/ uploader = "idle" /\ uploader' = "ended" /\ main' = "join"
            \/ uploader' = uploader /\ main' = "gone" /\ main = "join"
BY DEF Window!MainStep, Window!HandleEvent, Window!DeleteWidget, Window!DeleteSession,
  Window!Looping, Window!InitAudio, Window!SessionQuit, Window!LoginPINRequested, Window!DeleteWindow,
  Window!WidgetGone, Window!soundVars, Window!codecVars, Window!frameVars, Window!libVars

\* The codec gets a frame that is newer than all it has had.
LEMMA SampleOutcome ==
  ASSUME Window!VideoSample
  PROVE  /\ UNCHANGED <<uploader, got, frames, plane, skipped, fg, painting, shown, main>>
         /\ sent' = sent + 1 /\ coded' \subseteq coded \cup {sent + 2}
<1>1. /\ sent' = sent + 1
      /\ UNCHANGED <<uploader, got, frames, plane, skipped, fg, painting, shown, main>>
  BY DEF Window!VideoSample, Window!closeVars, Window!frameVars
<1>2. coded' \subseteq coded \cup {sent + 2}
  <2>1. CASE UNCHANGED coded
    BY <2>1
  <2>2. CASE coded' = (IF Window!Cardinality(coded) < CodecMax THEN coded
                       ELSE coded \ {Window!Oldest(coded)}) \cup {sent + 2}
    BY <2>2
  <2> QED
    BY <2>1, <2>2 DEF Window!VideoSample
<1> QED
  BY <1>1, <1>2

\* Each step of the window keeps its invariant.
LEMMA WindowStep == WindowInv /\ Window!WindowNext => WindowInv'
<1> SUFFICES ASSUME WindowInv, Window!WindowNext PROVE WindowInv'
  OBVIOUS
<1>p. Planes \in Nat \ {0} /\ 1 \in 1 .. Planes
  BY FrontEndsAssumption DEF Window!WindowAssumption
<1> USE DEF WindowInv, WindowTypes, PulledInOrder, PlanesInOrder, PaintedInFront
<1>1. ASSUME DrawsNothing PROVE WindowInv'
  BY <1>1 DEF DrawsNothing, Window!codecVars, Window!frameVars
<1>2. CASE Window!MainStep
  BY <1>2, MainOutcome
<1>3. CASE Window!PaintGL
  <2>1. UNCHANGED <<main, uploader, got, sent, coded, frames, plane, skipped, fg>>
    BY <1>3 DEF Window!PaintGL, Window!closeVars, Window!codecVars
  <2>2. CASE painting' = fg /\ UNCHANGED shown
    BY <2>1, <2>2
  <2>3. CASE painting # -1 /\ painting' = -1
             /\ shown' = (IF painting \in skipped THEN shown ELSE frames[painting][1])
    <3>1. frames[fg][1] \in Nat /\ (frames[fg][1] = 1 \/ frames[fg][1] <= got)
      BY <1>p
    <3>2. painting = fg
      BY <2>3
    <3> QED
      BY <2>1, <2>3, <3>1, <3>2
  <2> QED
    BY <1>3, <2>2, <2>3 DEF Window!PaintGL
<1>4. CASE Window!VideoSample
  <2>1. /\ UNCHANGED <<uploader, got, frames, plane, skipped, fg, painting, shown, main>>
        /\ sent' = sent + 1
    BY <1>4, SampleOutcome
  <2>2. ASSUME NEW n \in coded' PROVE n \in 2 .. sent + 2 /\ n > got
    <3>1. n \in coded \/ n = sent + 2
      BY <1>4, SampleOutcome
    <3>2. got \in Nat /\ sent \in Nat /\ got <= sent + 1
      OBVIOUS
    <3>3. CASE n \in coded
      <4>1. n \in 2 .. sent + 1 /\ n > got
        BY <3>3
      <4> QED
        BY <3>2, <4>1
    <3>4. CASE n = sent + 2
      BY <3>2, <3>4
    <3> QED
      BY <3>1, <3>3, <3>4
  <2>3. coded' \subseteq 2 .. sent' + 1
    BY <2>1, <2>2
  <2> QED
    BY <2>1, <2>2, <2>3
<1>5. CASE Window!UpdateFrameFromDecoder
  <2>1. UNCHANGED <<sent, frames, plane, skipped, fg, painting, shown, main>>
    BY <1>5 DEF Window!UpdateFrameFromDecoder, Window!closeVars
  <2>2. CASE coded = {}
    BY <1>5, <2>1, <2>2 DEF Window!UpdateFrameFromDecoder
  <2>3. CASE coded # {}
    <3>1. uploader = "idle" /\ uploader' = "write" /\ got' = Window!Newest(coded) /\ coded' = {}
      BY <1>5, <2>3 DEF Window!UpdateFrameFromDecoder, Window!Pulled
    <3>2. got' \in coded
      BY <2>3, <3>1, NewestIs
    <3>3. got' \in Nat /\ got' >= 2 /\ got' > got /\ got' <= sent + 1 /\ plane = 1
      BY <3>1, <3>2
    <3>4. \A i \in {0, 1}, p \in 1 .. Planes :
            frames[i][p] \in Nat /\ (frames[i][p] = 1 \/ frames[i][p] <= got')
      <4> SUFFICES ASSUME NEW i \in {0, 1}, NEW p \in 1 .. Planes
                   PROVE  frames[i][p] \in Nat /\ (frames[i][p] = 1 \/ frames[i][p] <= got')
        OBVIOUS
      <4>1. frames[i][p] \in Nat
        OBVIOUS
      <4>2. frames[i][p] = 1 \/ frames[i][p] <= got
        OBVIOUS
      <4> QED
        BY <3>3, <4>1, <4>2
    <3> QED
      BY <2>1, <3>1, <3>3, <3>4
  <2> QED
    BY <2>2, <2>3
<1>6. CASE Window!UpdateRefuses
  BY <1>6 DEF Window!UpdateRefuses, Window!closeVars, Window!codecVars
<1>7. CASE Window!Update
  <2>1. UNCHANGED <<coded, sent, got, fg, painting, shown, main>> /\ uploader = "write"
    BY <1>7 DEF Window!Update, Window!closeVars, Window!codecVars
  <2> DEFINE bg == 1 - fg
  <2>2. bg \in {0, 1} /\ bg # fg /\ got \in Nat
    OBVIOUS
  <2>3. \/ /\ frames' = [frames EXCEPT ![bg][plane] = got]
           /\ skipped' = (IF plane = 1 THEN skipped \ {bg} ELSE skipped)
        \/ skipped' = skipped \cup {bg} /\ frames' = frames
    BY <1>7 DEF Window!Update
  <2>4. \/ plane < Planes /\ plane' = plane + 1 /\ uploader' = "write"
        \/ plane = Planes /\ plane' = 1 /\ uploader' = "swap"
    BY <1>7, <1>p, <2>1 DEF Window!Update
  <2> HIDE DEF bg
  <2>5. /\ frames' \in [{0, 1} -> [1 .. Planes -> Nat]] /\ frames'[fg] = frames[fg]
        /\ \A p \in 1 .. Planes : frames'[bg][p] \in {frames[bg][p], got}
        /\ \A p \in 1 .. Planes : p # plane => frames'[bg][p] = frames[bg][p]
        /\ bg \notin skipped' => frames'[bg][plane] = got
    <3>1. CASE frames' = [frames EXCEPT ![bg][plane] = got]
      <4>1. frames' = [frames EXCEPT ![bg] = [frames[bg] EXCEPT ![plane] = got]]
        BY <3>1
      <4>2. frames[bg] \in [1 .. Planes -> Nat]
        BY <2>2
      <4> DEFINE new == [frames[bg] EXCEPT ![plane] = got]
      <4>3. /\ new \in [1 .. Planes -> Nat] /\ new[plane] = got
            /\ \A p \in 1 .. Planes : p # plane => new[p] = frames[bg][p]
        BY <2>2, <4>2
      <4> HIDE DEF new
      <4>4. frames' = [frames EXCEPT ![bg] = new]
        BY <4>1 DEF new
      <4>5. /\ frames' \in [{0, 1} -> [1 .. Planes -> Nat]] /\ frames'[fg] = frames[fg]
            /\ frames'[bg] = new
        BY <2>2, <4>3, <4>4
      <4> QED
        BY <4>3, <4>5
    <3>2. CASE skipped' = skipped \cup {bg} /\ frames' = frames
      BY <2>2, <3>2
    <3> QED
      BY <2>3, <3>1, <3>2
  <2>6. skipped' \subseteq {0, 1} /\ (fg \in skipped' <=> fg \in skipped)
    BY <2>2, <2>3
  <2>7. bg \notin skipped' => plane = 1 \/ bg \notin skipped
    BY <2>2, <2>3
  <2>8. bg \notin skipped' => \A p \in 1 .. Planes : p <= plane => frames'[bg][p] = got
    <3> SUFFICES ASSUME bg \notin skipped', NEW p \in 1 .. Planes, p <= plane
                 PROVE  frames'[bg][p] = got
      OBVIOUS
    <3>1. CASE p = plane
      BY <2>5, <3>1
    <3>2. CASE p # plane
      <4>1. p < plane /\ plane # 1
        BY <1>p, <3>2
      <4>2. bg \notin skipped
        BY <2>7, <4>1
      <4>3. frames[bg][p] = got
        BY <2>1, <4>1, <4>2 DEF bg
      <4> QED
        BY <2>5, <3>2, <4>3
    <3> QED
      BY <3>1, <3>2
  <2>9. \A i \in {0, 1}, p \in 1 .. Planes : frames'[i][p] = 1 \/ frames'[i][p] <= got
    <3> SUFFICES ASSUME NEW i \in {0, 1}, NEW p \in 1 .. Planes
                 PROVE  frames'[i][p] = 1 \/ frames'[i][p] <= got
      OBVIOUS
    <3>1. CASE i = fg
      BY <2>5, <3>1
    <3>2. CASE i = bg
      BY <2>2, <2>5, <3>2
    <3> QED
      BY <2>2, <3>1, <3>2
  <2>10. plane' \in 1 .. Planes
    BY <1>p, <2>4
  <2>11. WindowTypes'
    BY <2>1, <2>4, <2>5, <2>6, <2>10
  <2>12. PulledInOrder'
    BY <2>1
  <2>13. 1 - fg' = bg
    BY <2>1 DEF bg
  <2>14. bg \notin skipped' =>
           /\ uploader' = "write" => \A p \in 1 .. Planes : p < plane' => frames'[bg][p] = got
           /\ uploader' = "swap" => \A p \in 1 .. Planes : frames'[bg][p] = got
    <3>1. \A p \in 1 .. Planes : (p < plane + 1 => p <= plane) /\ (plane = Planes => p <= plane)
      BY <1>p
    <3> QED
      BY <2>4, <2>8, <3>1
  <2>15. fg \notin skipped' => \A p \in 1 .. Planes : frames'[fg][p] = frames'[fg][1]
    BY <2>5, <2>6
  <2>16. PlanesInOrder'
    BY <2>1, <2>4, <2>9, <2>13, <2>14, <2>15
  <2>17. PaintedInFront'
    BY <2>1, <2>5, <2>6
  <2> QED
    BY <2>11, <2>12, <2>16, <2>17
<1>8. CASE Window!SwapFrames
  <2>1. /\ UNCHANGED <<coded, sent, got, painting, shown, main, frames, plane, skipped>>
        /\ uploader = "swap" /\ uploader' = "idle" /\ fg' = 1 - fg /\ painting = -1
    BY <1>8 DEF Window!SwapFrames, Window!MaySwap, Window!closeVars, Window!codecVars
  <2>2. fg' \in {0, 1} /\ plane = 1
    BY <2>1
  <2>3. fg' \notin skipped => \A p \in 1 .. Planes : frames[fg'][p] = got
    BY <2>1
  <2>4. shown <= got /\ got \in Nat
    BY <2>1
  <2>5. fg' \notin skipped => shown <= frames[fg'][1] /\ \A p \in 1 .. Planes : frames[fg'][p] = frames[fg'][1]
    BY <1>p, <2>3, <2>4
  <2> QED
    BY <2>1, <2>2, <2>5
<1> QED
  BY <1>1, <1>2, <1>3, <1>4, <1>5, <1>6, <1>7, <1>8, WindowQuiet
     DEF Window!WindowNext, Window!UploaderStep
-----------------------------------------------------------------------------
(* The activity                                                            *)

ActivityInv == ThreadsInv /\ ToldInv

USE DEF Activity!activityVars, Activity!dialogVars, Activity!sessionVars, Activity!videoVars,
  Activity!audioVars, Activity!ghosts

\* Of a step of the UI's loop only what it tells and where it goes on matters.
LEMMA LoopStep ==
  ASSUME ThreadsInv,
         Activity!Deliver \/ Activity!OnPause \/ Activity!OnDestroy \/ Activity!Answer
           \/ Activity!SurfaceCallback
  PROVE  ThreadsInv'
BY DEF ThreadsInv, EndedFirst, OutputsEnd, LibJoined, Activity!Deliver, Activity!OnPause,
  Activity!OnDestroy, Activity!Answer, Activity!SurfaceCallback, Activity!Shutdown, Activity!SetLoginPin

\* A session is created for no other, and by a UI thread that frees none.
LEMMA CreateStep ==
  ASSUME ThreadsInv, Activity!OnResume \/ Activity!Reconnect PROVE ThreadsInv'
BY DEF ThreadsInv, EndedFirst, OutputsEnd, LibJoined, Activity!OnResume, Activity!Reconnect,
  Activity!Create, Activity!CreateSession, Activity!CreateFails

\* The UI thread, in shutdown and with a surface.
LEMMA UiKeepsThreads == ThreadsInv /\ Activity!UiStep => ThreadsInv'
<1> SUFFICES ASSUME ThreadsInv, Activity!UiStep PROVE ThreadsInv'
  OBVIOUS
<1> USE DEF ThreadsInv, EndedFirst, OutputsEnd, LibJoined
<1>1. CASE Activity!SetSurface
  BY <1>1 DEF Activity!SetSurface
<1>2. CASE Activity!Join
  BY <1>2 DEF Activity!Join, Activity!ToAudio
<1>3. CASE Activity!Kill
  BY <1>3 DEF Activity!Kill
<1>4. CASE Activity!JoinVideo
  BY <1>4 DEF Activity!JoinVideo, Activity!VideoJoined
<1>5. CASE Activity!Delete
  BY <1>5 DEF Activity!Delete, Activity!ToAudio
<1>6. CASE Activity!KillAudio
  BY <1>6 DEF Activity!KillAudio
<1>7. CASE Activity!JoinAudio
  BY <1>7 DEF Activity!JoinAudio
<1>8. CASE Activity!Free
  BY <1>8 DEF Activity!Free, Activity!VideoFini, Activity!AudioFini
<1> QED
  BY <1>1, <1>2, <1>3, <1>4, <1>5, <1>6, <1>7, <1>8, CreateStep DEF Activity!UiStep

\* The library's threads and the decoders'.
LEMMA ThreadsStep ==
  ASSUME ThreadsInv,
         \/ Activity!Connected \/ Activity!LoginPinRequest \/ Activity!Quit \/ Activity!Callback
         \/ Activity!VideoOutput \/ Activity!AudioOutput
  PROVE  ThreadsInv'
<1> USE DEF ThreadsInv, EndedFirst, OutputsEnd, LibJoined, Activity!Running
<1>1. CASE Activity!Connected \/ Activity!LoginPinRequest \/ Activity!Quit
  BY <1>1 DEF Activity!Connected, Activity!LoginPinRequest, Activity!Quit, Activity!Event
<1>2. CASE Activity!VideoSample \/ Activity!Blocked
  BY <1>2 DEF Activity!VideoSample, Activity!Blocked, Activity!TakionDoes
<1>3. CASE Activity!AudioFrame
  BY <1>3 DEF Activity!AudioFrame, Activity!TakionDoes
<1>4. CASE Activity!AudioHeader
  BY <1>4 DEF Activity!AudioHeader, Activity!TakionDoes
<1>5. CASE Activity!VideoOutput \/ Activity!AudioOutput
  BY <1>5 DEF Activity!VideoOutput, Activity!AudioOutput, Activity!Leaves
<1> QED
  BY <1>1, <1>2, <1>3, <1>4, <1>5 DEF Activity!Callback

\* Show leaves a dialog on the screen, and those that are there.
LEMMA ShowKeeps ==
  ASSUME Screen, NEW d \in {"quit", "create", "pin"}, Activity!Show(d)
  PROVE  Screen' /\ dialogs \subseteq dialogs' /\ d \in dialogs'
<1>1. CASE contents = d
  <2>1. contents' = contents /\ dialogs' = dialogs
    BY <1>1 DEF Activity!Show
  <2> QED
    BY <1>1, <2>1 DEF Screen
<1>2. CASE contents # d
  BY <1>2 DEF Screen, Activity!Show
<1> QED
  BY <1>1, <1>2

\* A new value shows its dialog, or ends the activity, or changes nothing.
LEMMA ShownState ==
  ASSUME Screen, finishing \in BOOLEAN, NEW v, Activity!StateChanged(v)
  PROVE  /\ Screen' /\ finishing' \in BOOLEAN /\ dialogs \subseteq dialogs' /\ (finishing => finishing')
         /\ v = "createError" => "create" \in dialogs'
         /\ v \in Ends => "quit" \in dialogs' \/ finishing'
         /\ v = "pin" => "pin" \in dialogs'
<1> USE DEF Ends, Activity!Finish
<1>1. CASE v = "failed"
  <2>1. Activity!Show("quit") /\ UNCHANGED finishing
    BY <1>1, Zenon DEF Activity!StateChanged
  <2> QED
    BY <1>1, <2>1, ShowKeeps
<1>2. CASE v \in {"stopped", "shutdown"}
  <2>1. /\ UNCHANGED Activity!dialogVars
        /\ IF contents = "quit" THEN UNCHANGED finishing ELSE Activity!Finish
    BY <1>2, Zenon DEF Activity!StateChanged
  <2> QED
    BY <1>2, <2>1 DEF Screen
<1>3. CASE v = "createError"
  <2>1. Activity!Show("create") /\ UNCHANGED finishing
    BY <1>3, Zenon DEF Activity!StateChanged
  <2> QED
    BY <1>3, <2>1, ShowKeeps
<1>4. CASE v = "pin"
  <2>1. Activity!Show("pin") /\ UNCHANGED finishing
    BY <1>4, Zenon DEF Activity!StateChanged
  <2> QED
    BY <1>4, <2>1, ShowKeeps
<1>5. CASE v \notin {"failed", "createError", "pin", "stopped", "shutdown"}
  <2>1. UNCHANGED Activity!dialogVars /\ UNCHANGED finishing
    BY <1>5, Zenon DEF Activity!StateChanged
  <2> QED
    BY <1>5, <2>1 DEF Screen
<1> QED
  BY <1>1, <1>2, <1>3, <1>4, <1>5

\* The posted value is handed over.
LEMMA DeliverTells == ToldInv /\ Activity!Deliver => ToldInv'
<1> SUFFICES ASSUME ToldInv, Activity!Deliver PROVE ToldInv'
  OBVIOUS
<1>1. /\ Screen' /\ finishing' \in BOOLEAN /\ dialogs \subseteq dialogs' /\ (finishing => finishing')
      /\ pending \in Ends => "quit" \in dialogs' \/ finishing'
      /\ pending = "pin" => "pin" \in dialogs'
  BY ShownState DEF ToldInv, Flags, Activity!Deliver
<1> QED
  BY <1>1 DEF ToldInv, Flags, Told, ToldEnd, ToldPin, ToldNone, LeftFor, LibJoined, Activity!Deliver

\* With a new session there is nothing to tell yet; if there is none, that is.
LEMMA CreateTells == ToldInv /\ (Activity!OnResume \/ Activity!Reconnect) => ToldInv'
<1> SUFFICES ASSUME ToldInv, Activity!OnResume \/ Activity!Reconnect PROVE ToldInv'
  OBVIOUS
<1>1. CASE Activity!CreateSession
  <2>1. Screen' /\ finishing' \in BOOLEAN /\ dialogs \subseteq dialogs' /\ (finishing => finishing')
    BY <1>1, ShownState DEF ToldInv, Flags, Activity!CreateSession
  <2> QED
    BY <1>1, <2>1 DEF ToldInv, Flags, Told, ToldEnd, ToldPin, ToldNone, LeftFor, LibJoined, Activity!CreateSession
<1>2. CASE Activity!CreateFails
  <2>1. /\ Screen' /\ finishing' \in BOOLEAN /\ dialogs \subseteq dialogs' /\ (finishing => finishing')
        /\ "create" \in dialogs'
    BY <1>2, ShownState DEF ToldInv, Flags, Activity!CreateFails
  <2>2. UNCHANGED <<session, lib, pending, after, videoLock>> /\ ui' = "loop"
    BY <1>2 DEF Activity!CreateFails, Activity!OnResume, Activity!Reconnect
  <2>3. ui \in {"loop", "resume"}
    BY DEF Activity!OnResume, Activity!Reconnect
  <2> QED
    BY <2>1, <2>2, <2>3 DEF ToldInv, Flags, Told, ToldEnd, ToldPin, ToldNone, LeftFor, LibJoined, Closing
<1>3. CASE session /\ Activity!OnResume
  <2>1. UNCHANGED <<finishing, ui, contents, dialogs, session, lib, pending, after, videoLock>>
    BY <1>3 DEF Activity!OnResume
  <2>2. ui = "loop"
    BY <1>3 DEF Activity!OnResume
  <2> QED
    BY <1>3, <2>1, <2>2 DEF ToldInv, Flags, Screen, Told, ToldEnd, ToldPin, ToldNone, LeftFor, LibJoined
<1> QED
  BY <1>1, <1>2, <1>3 DEF Activity!OnResume, Activity!Reconnect, Activity!Create

\* What the user does closes a dialog with an effect, or the activity.
LEMMA UserTells ==
  ASSUME ToldInv,
         Activity!OnPause \/ Activity!OnDestroy \/ Activity!Answer \/ Activity!SurfaceCallback
  PROVE  ToldInv'
<1> USE DEF ToldInv, Flags, Screen, Told, ToldEnd, ToldPin, ToldNone, LeftFor, LibJoined, Closing
<1>1. CASE Activity!OnPause \/ Activity!OnDestroy
  <2>1. UNCHANGED <<finishing, contents, dialogs, session, lib, pending, videoLock>>
    BY <1>1 DEF Activity!OnPause, Activity!OnDestroy
  <2>2. activity' # "resumed" /\ ui' \in {"loop", "join"}
    BY <1>1 DEF Activity!OnPause, Activity!OnDestroy, Activity!Shutdown
  <2>3. ui = "loop"
    BY <1>1 DEF Activity!OnPause, Activity!OnDestroy
  <2> QED
    BY <2>1, <2>2, <2>3
<1>2. CASE Activity!SurfaceCallback
  BY <1>2 DEF Activity!SurfaceCallback
<1>3. CASE Activity!Answer
  BY <1>3 DEF Activity!Answer, Activity!Close, Activity!Finish, Activity!Shutdown, Activity!SetLoginPin
<1> QED
  BY <1>1, <1>2, <1>3

\* The UI thread tells nothing on its way through shutdown, nor do the
\* decoders' threads; the mutex it waits for is not the one it has itself.
LEMMA UiTells == ThreadsInv /\ ToldInv /\ Activity!UiStep => ToldInv'
<1> SUFFICES ASSUME ThreadsInv, ToldInv, Activity!UiStep PROVE ToldInv'
  OBVIOUS
<1> USE DEF ToldInv, Flags, Screen, Told, ToldEnd, ToldPin, ToldNone, LeftFor, LibJoined, Closing
<1>1. CASE Activity!SetSurface
  BY <1>1 DEF Activity!SetSurface
<1>2. CASE Activity!Join
  BY <1>2 DEF Activity!Join, Activity!ToAudio
<1>3. CASE Activity!Kill \/ Activity!JoinVideo \/ Activity!Delete
  BY <1>3 DEF Activity!Kill, Activity!JoinVideo, Activity!VideoJoined, Activity!Delete, Activity!ToAudio
<1>4. CASE Activity!KillAudio \/ Activity!JoinAudio
  BY <1>4 DEF Activity!KillAudio, Activity!JoinAudio
<1>5. CASE Activity!Free
  BY <1>5 DEF Activity!Free, Activity!VideoFini, Activity!AudioFini
<1> QED
  BY <1>1, <1>2, <1>3, <1>4, <1>5, CreateTells DEF Activity!UiStep

\* A step of other threads that leaves alone what was told.
LEMMA LeavesTold ==
  ASSUME ToldInv, UNCHANGED <<session, finishing, contents, dialogs, pending, lib, ui, activity, after>>,
         videoLock = "ui" => videoLock' = "ui"
  PROVE  ToldInv'
BY DEF ToldInv, Flags, Screen, Told, ToldEnd, ToldPin, ToldNone, LeftFor, LibJoined

\* The library's threads and the decoders'.
LEMMA ThreadsTell ==
  ASSUME ThreadsInv, ToldInv,
         \/ Activity!Connected \/ Activity!LoginPinRequest \/ Activity!Quit \/ Activity!Callback
         \/ Activity!VideoOutput \/ Activity!AudioOutput
  PROVE  ToldInv'
<1>1. CASE Activity!Connected \/ Activity!LoginPinRequest \/ Activity!Quit
  BY <1>1 DEF ThreadsInv, EndedFirst, ToldInv, Flags, Screen, Told, ToldEnd, ToldPin, ToldNone, LeftFor, LibJoined, Closing, Ends, Activity!Connected,
     Activity!LoginPinRequest, Activity!Quit, Activity!Event, Activity!Errors
<1>2. CASE Activity!Callback
  <2>1. UNCHANGED <<session, finishing, contents, dialogs, pending, lib, ui, activity, after>>
    BY <1>2 DEF Activity!Callback, Activity!VideoSample, Activity!Blocked, Activity!AudioFrame,
       Activity!AudioHeader, Activity!TakionDoes
  <2>2. videoLock = "ui" => videoLock' = "ui"
    BY <1>2 DEF ThreadsInv, EndedFirst, Activity!Callback, Activity!VideoSample, Activity!Blocked,
       Activity!AudioFrame, Activity!AudioHeader, Activity!TakionDoes
  <2> QED
    BY <2>1, <2>2, LeavesTold
<1>3. CASE Activity!VideoOutput \/ Activity!AudioOutput
  <2>1. UNCHANGED <<session, finishing, contents, dialogs, pending, lib, ui, activity, after, videoLock>>
    BY <1>3 DEF Activity!VideoOutput, Activity!AudioOutput
  <2> QED
    BY <2>1, LeavesTold
<1> QED
  BY <1>1, <1>2, <1>3

\* Each step of the activity keeps both.
LEMMA ActivityStep == ActivityInv /\ Activity!StreamNext => ActivityInv'
BY LoopStep, CreateStep, UiKeepsThreads, ThreadsStep, DeliverTells, CreateTells, UserTells, UiTells,
   ThreadsTell DEF ActivityInv, Activity!StreamNext
(***************************************************************************)
(* The ring.  Every chunk is in one place: in one of the queues, or in the *)
(* hand of a thread.  The full ones hold consecutive bytes, from those     *)
(* that the device has taken up to those that the decoder has pushed.      *)
(***************************************************************************)

Queues == {"free", "full"}
Places == 0 .. ChunksCount

\* How far place i is from a head; in how many places a queue has chunks, and
\* in which.
Off(h, i) == IF i >= h THEN i - h ELSE i - h + ChunksCount + 1
Count(q) == Off(head[q], tail[q])
Live(q, i) == Off(head[q], i) < Count(q)

\* A chunk is in a hand once its place is given up, until it is published.
Has(t) == chunk[t] # Ring!None /\ rstep[t] # "taking"
Hand(t) == IF Has(t) THEN 1 ELSE 0

\* The bytes given back by the device, those before the first full chunk, and
\* those before the decoder's.
Eaten == Len(popped) - (IF Has("pop") THEN done["pop"] ELSE 0)
Base == Eaten + (IF Has("pop") THEN ChunkSize ELSE 0)
Filled == pushed - (IF Has("push") THEN done["push"] ELSE 0)

Times(k) == k * ChunkSize

\* The first n bytes of m are numbered from the one after that.
Bytes(m, n, that) == Len(m) >= n /\ \A j \in 1 .. n : m[j] = that + j

QueueTypes ==
  /\ output \in {"closed", "open"}
  /\ head \in [Queues -> Places] /\ tail \in [Queues -> Places]
  /\ slot \in [Queues -> [Places -> Places]]
ThreadTypes ==
  /\ rstep \in [Ring!Threads -> {"idle", "loop", "taking", "give", "giving"}]
  /\ todo \in [Ring!Threads -> Nat] /\ done \in [Ring!Threads -> 0 .. ChunkSize]
  /\ chunk \in [Ring!Threads -> Ring!Chunks \cup {Ring!None}]
ByteTypes == mem \in [Ring!Chunks -> Seq(Nat)] /\ pushed \in Nat /\ popped \in Seq(Nat)

\* What is queued is a chunk, and in no other place.
QueuedOnce ==
  /\ \A q \in Queues : \A i \in Places : Live(q, i) => slot[q][i] \in Ring!Chunks
  /\ \A q, r \in Queues : \A i, j \in Places :
       Live(q, i) /\ Live(r, j) /\ slot[q][i] = slot[r][j] => q = r /\ i = j

\* Nor is a chunk in a hand.
HeldOnce ==
  /\ \A t \in Ring!Threads : Has(t) => \A q \in Queues : \A i \in Places :
       Live(q, i) => slot[q][i] # chunk[t]
  /\ Has("push") /\ Has("pop") => chunk["push"] # chunk["pop"]

\* None is lost.
NoneLost == Count("free") + Count("full") + Hand("push") + Hand("pop") = ChunksCount

\* What a thread has read, or written, is still there.
Steps ==
  \A t \in Ring!Threads :
    /\ rstep[t] = "taking" =>
         /\ Count(Ring!From(t)) > 0 /\ done[t] = 0
         /\ chunk[t] = slot[Ring!From(t)][head[Ring!From(t)]]
    /\ rstep[t] \in {"give", "giving"} => chunk[t] # Ring!None /\ done[t] = ChunkSize
    /\ rstep[t] = "giving" => slot[Ring!To(t)][tail[Ring!To(t)]] = chunk[t]

\* The bytes of the full chunks, and of those in the hands.
FullBytes ==
  \A i \in Places :
    Live("full", i) => Bytes(mem[slot["full"][i]], ChunkSize, Base + Times(Off(head["full"], i)))
HandBytes ==
  /\ Has("pop") => Bytes(mem[chunk["pop"]], ChunkSize, Eaten)
  /\ Has("push") => Bytes(mem[chunk["push"]], done["push"], Filled)
Balance == Filled = Base + Times(Count("full"))

\* What was played.
Numbered(p) == \A i \in 1 .. Len(p) : p[i] = i
InOrder == ~aborted /\ Numbered(popped)

RingInv ==
  /\ QueueTypes /\ ThreadTypes /\ ByteTypes /\ QueuedOnce /\ HeldOnce /\ NoneLost /\ Steps
  /\ FullBytes /\ HandBytes /\ Balance /\ InOrder
-----------------------------------------------------------------------------
(* The ring                                                                *)

\* The constants, as the proofs need them.
LEMMA RingConstants ==
  ChunksCount \in Nat \ {0} /\ ChunkSize \in Nat \ {0} /\ Frames \subseteq Nat
BY FrontEndsAssumption DEF Ring!RingAssumption

\* The place after the last is the first.
LEMMA NextPlaceIs ==
  ASSUME NEW i \in Places
  PROVE  Ring!NextPlace(i) = IF i = ChunksCount THEN 0 ELSE i + 1
<1>1. PICK n \in Nat : n = ChunksCount /\ n > 0
  BY RingConstants
<1>2. i \in 0 .. n
  BY <1>1 DEF Places
<1>3. Ring!NextPlace(i) = (i + 1) % (n + 1)
  BY <1>1 DEF Ring!NextPlace
<1>4. (i + 1) % (n + 1) = IF i = n THEN 0 ELSE i + 1
  BY <1>1, <1>2
<1> QED
  BY <1>1, <1>3, <1>4

\* A place is told by how far it is from the head.
LEMMA OffIs ==
  ASSUME NEW h \in Places, NEW i \in Places, NEW j \in Places
  PROVE  /\ Off(h, i) \in 0 .. ChunksCount
         /\ Off(h, i) = 0 <=> i = h
         /\ Off(h, i) = Off(h, j) => i = j
BY RingConstants DEF Off, Places

\* All are one less far from the next head.
LEMMA OffFromNext ==
  ASSUME NEW h \in Places, NEW i \in Places
  PROVE  /\ Ring!NextPlace(h) \in Places
         /\ i # h => Off(Ring!NextPlace(h), i) = Off(h, i) - 1
         /\ Off(Ring!NextPlace(h), h) = ChunksCount
BY RingConstants, NextPlaceIs DEF Off, Places

\* The next place is one farther, unless it is the head.
LEMMA OffOfNext ==
  ASSUME NEW h \in Places, NEW i \in Places
  PROVE  /\ Ring!NextPlace(i) = h <=> Off(h, i) = ChunksCount
         /\ Off(h, i) # ChunksCount => Off(h, Ring!NextPlace(i)) = Off(h, i) + 1
BY RingConstants, NextPlaceIs DEF Off, Places

\* The bytes of one more chunk.
LEMMA TimesIs ==
  ASSUME NEW k \in Nat
  PROVE  Times(k) \in Nat /\ Times(k + 1) = Times(k) + ChunkSize /\ Times(0) = 0
BY RingConstants DEF Times

\* The two threads, and their queues.
LEMMA Ends2 ==
  ASSUME NEW t \in Ring!Threads
  PROVE  /\ t \in {"push", "pop"} /\ Ring!From(t) \in Queues /\ Ring!To(t) \in Queues
         /\ Ring!From(t) # Ring!To(t)
         /\ \A u \in Ring!Threads : u # t => Ring!From(u) = Ring!To(t) /\ Ring!To(u) = Ring!From(t)
BY DEF Ring!Threads, Ring!From, Ring!To, Queues

\* How much is queued, and what the numbers of bytes are.
LEMMA CountsAre ==
  ASSUME QueueTypes, ThreadTypes, ByteTypes
  PROVE  /\ Count("free") \in 0 .. ChunksCount /\ Count("full") \in 0 .. ChunksCount
         /\ Hand("push") \in {0, 1} /\ Hand("pop") \in {0, 1}
         /\ Eaten \in Int /\ Base \in Int /\ Filled \in Int
<1>1. \A q \in Queues : Count(q) \in 0 .. ChunksCount
  BY OffIs DEF QueueTypes, Count
<1>2. Len(popped) \in Nat /\ pushed \in Nat /\ ChunkSize \in Nat
  BY RingConstants DEF ByteTypes
<1>3. done["push"] \in Nat /\ done["pop"] \in Nat
  BY <1>2 DEF ThreadTypes, Ring!Threads
<1> QED
  BY <1>1, <1>2, <1>3 DEF Queues, Hand, Eaten, Base, Filled

-----------------------------------------------------------------------------
(* Steps that move no chunk                                                *)

\* The parts of the invariant that speak of chunks and bytes.
Chunked == QueuedOnce /\ HeldOnce /\ NoneLost /\ FullBytes /\ HandBytes /\ Balance

\* Nothing is taken from a hand or put into one, nor written.
LEMMA ChunkedStays ==
  ASSUME Chunked, UNCHANGED <<head, tail, slot, mem, pushed, popped>>,
         \A t \in Ring!Threads :
           Has(t)' = Has(t) /\ (Has(t) => chunk'[t] = chunk[t] /\ done'[t] = done[t])
  PROVE  Chunked'
<1>1. /\ Has("push")' = Has("push") /\ Has("pop")' = Has("pop")
      /\ Has("push") => chunk'["push"] = chunk["push"] /\ done'["push"] = done["push"]
      /\ Has("pop") => chunk'["pop"] = chunk["pop"] /\ done'["pop"] = done["pop"]
  BY DEF Ring!Threads
<1>2. Eaten' = Eaten /\ Filled' = Filled /\ Hand("push")' = Hand("push") /\ Hand("pop")' = Hand("pop")
  BY <1>1 DEF Eaten, Filled, Hand
<1>3. Base' = Base
  BY <1>1, <1>2 DEF Base
<1>4. \A q \in Queues : Count(q)' = Count(q) /\ \A i \in Places : Live(q, i)' = Live(q, i)
  BY DEF Count, Live
<1>5. QueuedOnce'
  BY <1>4 DEF Chunked, QueuedOnce
<1>6. HeldOnce'
  BY <1>1, <1>4 DEF Chunked, HeldOnce, Ring!Threads
<1>7. NoneLost' /\ Balance'
  BY <1>2, <1>3, <1>4 DEF Chunked, NoneLost, Balance, Queues
<1>8. FullBytes'
  BY <1>3, <1>4 DEF Chunked, FullBytes, Queues
<1>9. HandBytes'
  BY <1>1, <1>2 DEF Chunked, HandBytes
<1> QED
  BY <1>5, <1>6, <1>7, <1>8, <1>9 DEF Chunked

\* A call begins or ends, or the stream is opened.
Waits ==
  /\ UNCHANGED <<slot, head, tail, mem, chunk, done, pushed, popped, aborted>>
  /\ \A t \in Ring!Threads :
       rstep'[t] = rstep[t] \/ (rstep[t] \in {"idle", "loop"} /\ rstep'[t] \in {"idle", "loop"})
  /\ output' \in {"closed", "open"} /\ todo' \in [Ring!Threads -> Nat]
  /\ rstep' \in [Ring!Threads -> {"idle", "loop", "taking", "give", "giving"}]

LEMMA WaitsStep ==
  ASSUME RingInv, Waits PROVE RingInv'
<1>1. QueueTypes' /\ ThreadTypes' /\ ByteTypes' /\ InOrder'
  BY DEF RingInv, Waits, QueueTypes, ThreadTypes, ByteTypes, InOrder
<1>2. \A t \in Ring!Threads : Has(t)' = Has(t)
  BY DEF Waits, Has
<1>3. Chunked'
  BY <1>2, ChunkedStays DEF RingInv, Chunked, Waits
<1>4. Steps'
  BY DEF RingInv, Steps, Waits, Count
<1> QED
  BY <1>1, <1>3, <1>4 DEF RingInv, Chunked

\* These are such steps.
LEMMA WaitingSteps ==
  ASSUME RingInv, NEW t \in Ring!Threads,
         \/ Ring!Settings \/ Ring!Finish(t) \/ \E n \in Frames : Ring!Call(t, n)
         \/ Ring!Look(t) /\ head[Ring!From(t)] = tail[Ring!From(t)]
  PROVE  Waits
<1> USE RingConstants DEF Waits, RingInv, QueueTypes, ThreadTypes
<1>1. CASE Ring!Settings
  BY <1>1 DEF Ring!Settings
<1>2. CASE Ring!Finish(t)
  BY <1>2 DEF Ring!Finish, Ring!Return
<1>3. CASE \E n \in Frames : Ring!Call(t, n)
  BY <1>3 DEF Ring!Call
<1>4. CASE Ring!Look(t) /\ head[Ring!From(t)] = tail[Ring!From(t)]
  BY <1>4 DEF Ring!Look, Ring!Return
<1> QED
  BY <1>1, <1>2, <1>3, <1>4

\* A place is looked at: what it has is not in the hand yet.
LEMMA LookStep ==
  ASSUME RingInv, NEW t \in Ring!Threads, Ring!Look(t), head[Ring!From(t)] # tail[Ring!From(t)]
  PROVE  RingInv'
<1> DEFINE q == Ring!From(t)
<1>1. /\ rstep[t] = "loop" /\ chunk[t] = Ring!None
      /\ chunk' = [chunk EXCEPT ![t] = slot[q][head[q]]] /\ done' = [done EXCEPT ![t] = 0]
      /\ rstep' = [rstep EXCEPT ![t] = "taking"]
      /\ UNCHANGED <<todo, output, slot, head, tail, mem, pushed, popped, aborted>>
  BY DEF Ring!Look
<1>2. q \in Queues /\ head[q] \in Places /\ tail[q] \in Places
  BY Ends2 DEF RingInv, QueueTypes
<1>3. Count(q) > 0 /\ Count(q) \in Nat /\ Live(q, head[q])
  BY <1>2, OffIs DEF Count, Live
<1>4. slot[q][head[q]] \in Ring!Chunks
  BY <1>2, <1>3 DEF RingInv, QueuedOnce
<1> HIDE DEF q
<1>5. QueueTypes' /\ ThreadTypes' /\ ByteTypes' /\ InOrder'
  BY <1>1, <1>4, RingConstants DEF RingInv, QueueTypes, ThreadTypes, ByteTypes, InOrder
<1>6. ~Has(t) /\ ~Has(t)'
  BY <1>1 DEF Has, RingInv, ThreadTypes
<1>7. \A u \in Ring!Threads :
        u # t => chunk'[u] = chunk[u] /\ done'[u] = done[u] /\ rstep'[u] = rstep[u]
  BY <1>1 DEF RingInv, ThreadTypes
<1>8. \A u \in Ring!Threads : Has(u)' = Has(u)
  BY <1>6, <1>7 DEF Has
<1>9. Chunked'
  BY <1>1, <1>6, <1>7, <1>8, ChunkedStays DEF RingInv, Chunked
<1>10. Steps'
  <2>1. \A r \in Queues : Count(r)' = Count(r)
    BY <1>1 DEF Count
  <2>2. ASSUME NEW u \in Ring!Threads, u # t PROVE Ring!From(u) \in Queues /\ Ring!To(u) \in Queues
    BY Ends2
  <2>3. rstep'[t] = "taking" /\ done'[t] = 0 /\ chunk'[t] = slot[q][head[q]]
    BY <1>1 DEF RingInv, ThreadTypes
  <2> QED
    BY <1>1, <1>2, <1>3, <1>7, <2>1, <2>2, <2>3 DEF RingInv, Steps, q
<1> QED
  BY <1>5, <1>9, <1>10 DEF RingInv, Chunked
-----------------------------------------------------------------------------
(* A chunk goes from a queue to a hand                                     *)

\* What Take changes.
Takes(t) ==
  /\ rstep[t] = "taking" /\ rstep' = [rstep EXCEPT ![t] = "loop"]
  /\ head' = [head EXCEPT ![Ring!From(t)] = Ring!NextPlace(head[Ring!From(t)])]
  /\ UNCHANGED <<output, slot, tail, mem, todo, chunk, done, pushed, popped, aborted>>

\* The place at the head is left, and all others are one nearer to it.
Leaves(q) ==
  /\ Count(q)' = Count(q) - 1 /\ head[q] \in Places
  /\ \A i \in Places : Live(q, i)' => Live(q, i) /\ i # head[q] /\ Off(head'[q], i) = Off(head[q], i) - 1

LEMMA TakeLeaves ==
  ASSUME RingInv, NEW t \in Ring!Threads, Takes(t)
  PROVE  /\ Leaves(Ring!From(t)) /\ Count(Ring!From(t)) > 0
         /\ head'[Ring!To(t)] = head[Ring!To(t)] /\ QueueTypes'
<1>1. PICK q \in Queues : q = Ring!From(t)
  BY Ends2
<1>2. head[q] \in Places /\ tail[q] \in Places /\ head \in [Queues -> Places]
  BY <1>1 DEF RingInv, QueueTypes
<1>3. head' = [head EXCEPT ![q] = Ring!NextPlace(head[q])] /\ tail' = tail
  BY <1>1 DEF Takes
<1>4. Ring!NextPlace(head[q]) \in Places
  BY <1>2, OffFromNext
<1>5. head' \in [Queues -> Places] /\ head'[q] = Ring!NextPlace(head[q])
  BY <1>2, <1>3, <1>4
<1>6. Count(q) > 0 /\ Count(q) \in 0 .. ChunksCount
  BY <1>1, <1>2, OffIs DEF RingInv, Steps, Takes, Count
<1>7. tail[q] # head[q]
  BY <1>2, <1>6, OffIs DEF Count
<1>8. Count(q)' = Count(q) - 1
  BY <1>2, <1>3, <1>5, <1>7, OffFromNext DEF Count
<1>9. ASSUME NEW i \in Places, Live(q, i)'
      PROVE  Live(q, i) /\ i # head[q] /\ Off(head'[q], i) = Off(head[q], i) - 1
  <2>1. Off(head'[q], i) < Count(q) - 1
    BY <1>8, <1>9 DEF Live
  <2>2. i # head[q]
    <3>1. Off(head'[q], head[q]) = ChunksCount
      BY <1>2, <1>5, OffFromNext
    <3> QED
      BY <1>6, <2>1, <3>1, RingConstants
  <2>3. Off(head'[q], i) = Off(head[q], i) - 1
    BY <1>2, <1>5, <2>2, OffFromNext
  <2>4. Off(head[q], i) \in 0 .. ChunksCount
    BY <1>2, OffIs
  <2> QED
    BY <1>6, <2>1, <2>2, <2>3, <2>4 DEF Live
<1>10. head'[Ring!To(t)] = head[Ring!To(t)]
  BY <1>1, <1>2, <1>3, Ends2
<1>11. QueueTypes'
  BY <1>5 DEF RingInv, QueueTypes, Takes
<1> QED
  BY <1>1, <1>2, <1>6, <1>8, <1>9, <1>10, <1>11 DEF Leaves

\* Then the chunk that was there has an owner still, and one only.
LEMMA TakeOwns ==
  ASSUME RingInv, NEW t \in Ring!Threads, Takes(t)
  PROVE  /\ Has(t)' /\ ~Has(t) /\ QueuedOnce' /\ HeldOnce' /\ NoneLost'
         /\ \A u \in Ring!Threads : u # t => Has(u)' = Has(u)
         /\ Count(Ring!To(t))' = Count(Ring!To(t))
<1>1. PICK q \in Queues, r \in Queues : q = Ring!From(t) /\ r = Ring!To(t) /\ q # r
  BY Ends2
<1>2. /\ Leaves(q) /\ head'[r] = head[r] /\ tail' = tail /\ slot' = slot /\ chunk' = chunk
      /\ Count(q) > 0 /\ QueueTypes'
  BY <1>1, TakeLeaves DEF Takes
<1>3. Count(r)' = Count(r) /\ \A i \in Places : Live(r, i)' = Live(r, i)
  BY <1>2 DEF Count, Live
<1>4. Queues = {q, r}
  BY <1>1 DEF Queues
<1>5. \A p \in Queues : \A i \in Places : Live(p, i)' => Live(p, i) /\ (p = q => i # head[q])
  BY <1>2, <1>3, <1>4 DEF Leaves
<1>6. head[q] \in Places /\ Live(q, head[q]) /\ chunk[t] = slot[q][head[q]]
  BY <1>1, <1>2, OffIs DEF RingInv, Steps, Takes, QueueTypes, Live
<1>7. chunk[t] \in Ring!Chunks
  BY <1>6 DEF RingInv, QueuedOnce
<1>8. /\ \A u \in Ring!Threads : u # t => rstep'[u] = rstep[u]
      /\ rstep'[t] = "loop" /\ rstep[t] = "taking"
  BY DEF Takes, RingInv, ThreadTypes
<1>9. Has(t)' /\ ~Has(t)
  BY <1>2, <1>7, <1>8, RingConstants DEF Has, Ring!Chunks, Ring!None
<1>10. \A u \in Ring!Threads : u # t => Has(u)' = Has(u)
  BY <1>2, <1>8 DEF Has
<1>11. QueuedOnce'
  BY <1>2, <1>5 DEF RingInv, QueuedOnce
<1>12. ASSUME NEW u \in Ring!Threads, Has(u)', NEW p \in Queues, NEW i \in Places, Live(p, i)'
       PROVE  slot'[p][i] # chunk'[u]
  <2>1. CASE u = t
    BY <1>2, <1>5, <1>6, <1>12, <2>1 DEF RingInv, QueuedOnce
  <2>2. CASE u # t
    BY <1>2, <1>5, <1>10, <1>12, <2>2 DEF RingInv, HeldOnce
  <2> QED
    BY <2>1, <2>2
<1>13. ASSUME NEW u \in Ring!Threads, u # t, Has(u)' PROVE chunk'[t] # chunk'[u]
  BY <1>2, <1>6, <1>10, <1>13 DEF RingInv, HeldOnce
<1>14. HeldOnce'
  <2>1. Has("push")' /\ Has("pop")' => chunk'["push"] # chunk'["pop"]
    BY <1>13, Ends2 DEF Ring!Threads
  <2> QED
    BY <1>12, <2>1 DEF HeldOnce
<1>15. NoneLost'
  <2>1. Count(q)' = Count(q) - 1
    BY <1>2 DEF Leaves
  <2>2. Count("free")' + Count("full")' = Count("free") + Count("full") - 1
    BY <1>1, <1>3, <2>1, CountsAre DEF Queues, RingInv
  <2>3. Hand("push")' + Hand("pop")' = Hand("push") + Hand("pop") + 1
    <3>1. CASE t = "push"
      <4>1. Hand("push")' = 1 /\ Hand("push") = 0 /\ Hand("pop")' = Hand("pop")
        BY <1>9, <1>10, <3>1 DEF Hand, Ring!Threads
      <4> QED
        BY <4>1 DEF Hand
    <3>2. CASE t = "pop"
      <4>1. Hand("pop")' = 1 /\ Hand("pop") = 0 /\ Hand("push")' = Hand("push")
        BY <1>9, <1>10, <3>2 DEF Hand, Ring!Threads
      <4> QED
        BY <4>1 DEF Hand
    <3> QED
      BY <3>1, <3>2, Ends2
  <2>4. \A p \in Queues : Count(p)' \in Int
    BY <1>2, OffIs DEF QueueTypes, Count
  <2>5. Hand("push")' \in Int /\ Hand("pop")' \in Int
    BY DEF Hand
  <2> QED
    BY <2>2, <2>3, <2>4, <2>5, CountsAre DEF RingInv, NoneLost, Queues
<1> QED
  BY <1>1, <1>3, <1>9, <1>10, <1>11, <1>14, <1>15

\* The bytes of the chunk are the next ones.
LEMMA TakeKeepsBytes ==
  ASSUME RingInv, NEW t \in Ring!Threads, Takes(t)
  PROVE  FullBytes' /\ HandBytes' /\ Balance'
<1> USE DEF RingInv
<1>1. /\ Has(t)' /\ ~Has(t) /\ \A u \in Ring!Threads : u # t => Has(u)' = Has(u)
      /\ Count(Ring!To(t))' = Count(Ring!To(t))
  BY TakeOwns
<1>2. /\ UNCHANGED <<slot, mem, chunk, done, pushed, popped>> /\ rstep[t] = "taking" /\ done[t] = 0
      /\ chunk[t] = slot[Ring!From(t)][head[Ring!From(t)]]
  BY DEF Takes, Steps
<1>3. Len(popped) \in Nat /\ pushed \in Nat /\ ChunkSize \in Nat
  BY RingConstants DEF ByteTypes
<1>4. Eaten \in Int /\ Base \in Int /\ Filled \in Int
  BY CountsAre
<1>5. CASE t = "push"
  <2>1. Has("push")' /\ ~Has("push") /\ Has("pop")' = Has("pop") /\ done'["push"] = 0
    BY <1>1, <1>2, <1>5 DEF Ring!Threads
  <2>2. Eaten' = Eaten /\ Filled' = Filled
    BY <1>2, <1>3, <2>1 DEF Eaten, Filled
  <2>3. Base' = Base
    BY <2>1, <2>2 DEF Base
  <2>4. Count("full")' = Count("full") /\ head'["full"] = head["full"]
    BY <1>1, <1>5, TakeLeaves DEF Ring!To
  <2>5. \A i \in Places : Live("full", i)' = Live("full", i)
    BY <2>4 DEF Live
  <2>6. FullBytes'
    BY <1>2, <2>3, <2>4, <2>5 DEF FullBytes
  <2>7. Balance'
    BY <2>2, <2>3, <2>4 DEF Balance
  <2>8. Bytes(mem[chunk["push"]], 0, Filled)
    <3>1. chunk["push"] \in Ring!Chunks
      BY <1>2, <1>5, TakeLeaves, OffIs DEF QueuedOnce, Live, Leaves, Ring!From, Queues
    <3>2. Len(mem[chunk["push"]]) \in Nat
      BY <3>1 DEF ByteTypes
    <3> QED
      BY <3>2 DEF Bytes
  <2>9. HandBytes'
    BY <1>2, <2>1, <2>2, <2>8 DEF HandBytes
  <2> QED
    BY <2>6, <2>7, <2>9
<1>6. CASE t = "pop"
  <2>1. Has("pop")' /\ ~Has("pop") /\ Has("push")' = Has("push") /\ done'["pop"] = 0
    BY <1>1, <1>2, <1>6 DEF Ring!Threads
  <2>2. Eaten' = Eaten /\ Filled' = Filled /\ Eaten = Base
    BY <1>2, <1>3, <1>4, <2>1 DEF Eaten, Filled, Base
  <2>3. Base' = Base + ChunkSize
    BY <2>1, <2>2 DEF Base
  <2>4. Leaves("full") /\ Count("full") > 0 /\ Count("full") \in Nat
    BY <1>6, TakeLeaves, CountsAre DEF Ring!From
  <2>5. ASSUME NEW i \in Places, Live("full", i)'
        PROVE  Bytes(mem'[slot'["full"][i]], ChunkSize, Base' + Times(Off(head'["full"], i)))
    <3>1. PICK k \in Nat : k + 1 = Off(head["full"], i) /\ k = Off(head'["full"], i)
      <4>1. i # head["full"] /\ Off(head'["full"], i) = Off(head["full"], i) - 1
        BY <2>4, <2>5 DEF Leaves
      <4>2. Off(head["full"], i) \in 0 .. ChunksCount /\ Off(head["full"], i) # 0
        BY <2>4, <4>1, OffIs DEF Leaves
      <4> QED
        BY <4>1, <4>2
    <3>2. Base' + Times(k) = Base + Times(k + 1)
      BY <1>3, <1>4, <2>3, TimesIs
    <3>3. Bytes(mem[slot["full"][i]], ChunkSize, Base + Times(k + 1))
      BY <2>4, <2>5, <3>1 DEF FullBytes, Leaves
    <3> QED
      BY <1>2, <3>1, <3>2, <3>3
  <2>6. FullBytes'
    BY <2>5 DEF FullBytes
  <2>7. Balance'
    <3>1. PICK k \in Nat : k + 1 = Count("full") /\ k = Count("full")'
      BY <2>4 DEF Leaves
    <3>2. Base' + Times(k) = Base + Times(k + 1)
      BY <1>3, <1>4, <2>3, TimesIs
    <3> QED
      BY <2>2, <3>1, <3>2 DEF Balance
  <2>8. Bytes(mem[chunk["pop"]], ChunkSize, Eaten)
    <3>1. head["full"] \in Places /\ Off(head["full"], head["full"]) = 0
      BY <2>4, OffIs DEF Leaves
    <3>2. Live("full", head["full"]) /\ chunk["pop"] = slot["full"][head["full"]]
      BY <1>2, <1>6, <2>4, <3>1 DEF Live, Ring!From
    <3>3. Bytes(mem[chunk["pop"]], ChunkSize, Base + Times(0))
      BY <3>1, <3>2 DEF FullBytes
    <3>4. Base + Times(0) = Eaten
      BY <1>4, <2>2, TimesIs
    <3> QED
      BY <3>3, <3>4
  <2>9. Has("push")' => Bytes(mem'[chunk'["push"]], done'["push"], Filled')
    BY <1>2, <2>1, <2>2 DEF HandBytes
  <2>10. HandBytes'
    BY <1>2, <2>2, <2>8, <2>9 DEF HandBytes
  <2> QED
    BY <2>6, <2>7, <2>10
<1> QED
  BY <1>5, <1>6, Ends2

\* A place is given up.
LEMMA TakeStep ==
  ASSUME RingInv, NEW t \in Ring!Threads, Ring!Take(t) PROVE RingInv'
<1>1. Takes(t)
  BY DEF Takes, Ring!Take
<1>2. QueueTypes'
  BY <1>1, TakeLeaves
<1>3. ThreadTypes' /\ ByteTypes' /\ InOrder'
  BY <1>1 DEF Takes, RingInv, ThreadTypes, ByteTypes, InOrder
<1>4. Steps'
  <2>1. ASSUME NEW u \in Ring!Threads, u # t
        PROVE  /\ rstep'[u] = rstep[u] /\ head'[Ring!From(u)] = head[Ring!From(u)]
               /\ Count(Ring!From(u))' = Count(Ring!From(u))
    BY <1>1, <2>1, Ends2, TakeLeaves, TakeOwns DEF Takes, RingInv, ThreadTypes
  <2>2. rstep'[t] = "loop"
    BY <1>1 DEF Takes, RingInv, ThreadTypes
  <2> QED
    BY <1>1, <2>1, <2>2 DEF Takes, RingInv, Steps
<1> QED
  BY <1>1, <1>2, <1>3, <1>4, TakeOwns, TakeKeepsBytes DEF RingInv
-----------------------------------------------------------------------------
(* Bytes are copied into a chunk, or from one                              *)

\* What is queued, held and given is the same afterwards.
LEMMA CopyOwns ==
  ASSUME RingInv, NEW t \in Ring!Threads, rstep[t] = "loop", chunk[t] # Ring!None,
         NEW st \in {"loop", "give"}, rstep' = [rstep EXCEPT ![t] = st],
         UNCHANGED <<slot, head, tail, chunk>>,
         \A u \in Ring!Threads : u # t => done'[u] = done[u],
         st = "give" => done'[t] = ChunkSize
  PROVE  /\ Has(t) /\ \A u \in Ring!Threads : Has(u)' = Has(u)
         /\ QueuedOnce' /\ HeldOnce' /\ NoneLost' /\ Steps'
         /\ Count("full")' = Count("full") /\ \A i \in Places : Live("full", i)' = Live("full", i)
<1>1. /\ rstep'[t] = st /\ \A u \in Ring!Threads : u # t => rstep'[u] = rstep[u]
  BY DEF RingInv, ThreadTypes
<1>2. Has(t) /\ \A u \in Ring!Threads : Has(u)' = Has(u)
  BY <1>1 DEF Has
<1>3. \A q \in Queues : Count(q)' = Count(q) /\ \A i \in Places : Live(q, i)' = Live(q, i)
  BY DEF Count, Live
<1>4. QueuedOnce' /\ HeldOnce'
  BY <1>2, <1>3 DEF RingInv, QueuedOnce, HeldOnce, Ring!Threads
<1>5. NoneLost'
  BY <1>2, <1>3 DEF RingInv, NoneLost, Hand, Ring!Threads, Queues
<1>6. Steps'
  BY <1>1, <1>3, Ends2 DEF RingInv, Steps
<1> QED
  BY <1>2, <1>3, <1>4, <1>5, <1>6 DEF Queues

\* The d bytes of a, and behind them the n of b.
Both(s0, a, d, b, n) ==
  /\ s0 \in Seq(Nat) /\ Len(s0) = d + n
  /\ \A j \in 1 .. d : s0[j] = a[j]
  /\ \A k \in 1 .. n : s0[d + k] = b[k]

\* That is what concatenation makes.
LEMMA Behind ==
  ASSUME NEW a \in Seq(Nat), NEW b \in Seq(Nat), NEW d \in Nat, NEW n \in Nat, Len(a) = d, Len(b) = n
  PROVE  Both(a \o b, a, d, b, n)
<1>1. a \o b \in Seq(Nat) /\ Len(a \o b) = Len(a) + Len(b)
  BY ConcatProperties
<1>2. \A j \in 1 .. Len(a) + Len(b) :
        (a \o b)[j] = IF j <= Len(a) THEN a[j] ELSE b[j - Len(a)]
  BY ConcatProperties
<1>3. ASSUME NEW j \in 1 .. d PROVE (a \o b)[j] = a[j]
  <2>1. j \in 1 .. Len(a) + Len(b) /\ j <= Len(a)
    OBVIOUS
  <2> QED
    BY <1>2, <2>1
<1>4. ASSUME NEW k \in 1 .. n PROVE (a \o b)[d + k] = b[k]
  <2>1. d + k \in 1 .. Len(a) + Len(b) /\ ~(d + k <= Len(a)) /\ d + k - Len(a) = k
    OBVIOUS
  <2> QED
    BY <1>2, <2>1
<1> QED
  BY <1>1, <1>3, <1>4 DEF Both

\* Bytes put behind the first d.
LEMMA FilledUp ==
  ASSUME NEW m \in Seq(Nat), NEW d \in Nat, NEW n \in Nat, NEW p \in Nat, NEW that \in Int,
         Bytes(m, d, that), that + d = p
  PROVE  /\ SubSeq(m, 1, d) \o [i \in 1 .. n |-> p + i] \in Seq(Nat)
         /\ Bytes(SubSeq(m, 1, d) \o [i \in 1 .. n |-> p + i], d + n, that)
<1> DEFINE a == SubSeq(m, 1, d)
           b == [i \in 1 .. n |-> p + i]
<1>1. a \in Seq(Nat) /\ Len(a) = d /\ \A j \in 1 .. d : a[j] = m[j]
  BY DEF Bytes
<1>2. b \in Seq(Nat) /\ Len(b) = n /\ \A j \in 1 .. n : b[j] = p + j
  OBVIOUS
<1> HIDE DEF a, b
<1>3. Both(a \o b, a, d, b, n)
  BY <1>1, <1>2, Behind
<1>4. ASSUME NEW j \in 1 .. d + n PROVE (a \o b)[j] = that + j
  <2>1. CASE j \in 1 .. d
    <3>1. (a \o b)[j] = a[j] /\ a[j] = m[j]
      BY <1>1, <1>3, <2>1 DEF Both
    <3>2. m[j] = that + j
      BY <2>1 DEF Bytes
    <3> QED
      BY <3>1, <3>2
  <2>2. CASE j \notin 1 .. d
    <3>1. PICK k \in 1 .. n : j = d + k
      <4>1. j - d \in 1 .. n /\ j = d + (j - d)
        BY <2>2
      <4> QED
        BY <4>1
    <3>2. (a \o b)[j] = p + k
      BY <1>2, <1>3, <3>1 DEF Both
    <3> QED
      BY <3>1, <3>2
  <2> QED
    BY <2>1, <2>2
<1>5. Bytes(a \o b, d + n, that)
  <2>1. Len(a \o b) >= d + n
    BY <1>3 DEF Both
  <2> QED
    BY <1>4, <2>1 DEF Bytes
<1> QED
  BY <1>3, <1>5 DEF a, b, Both

\* Bytes taken from behind the first d.
LEMMA TakenOff ==
  ASSUME NEW m \in Seq(Nat), NEW d \in Nat, NEW n \in Nat, NEW z \in Nat, NEW that \in Int,
         Bytes(m, z, that), d + n <= z,
         NEW p \in Seq(Nat), Numbered(p), that + d = Len(p)
  PROVE  /\ p \o SubSeq(m, d + 1, d + n) \in Seq(Nat)
         /\ Len(p \o SubSeq(m, d + 1, d + n)) = Len(p) + n
         /\ Numbered(p \o SubSeq(m, d + 1, d + n))
<1> DEFINE b == SubSeq(m, d + 1, d + n)
<1>1. Len(m) \in Nat /\ d + n <= Len(m)
  BY DEF Bytes
<1>2. b \in Seq(Nat) /\ Len(b) = n /\ \A j \in 1 .. n : b[j] = m[d + j]
  <2>1. \A j \in d + 1 .. d + n : m[j] \in Nat
    BY <1>1
  <2>2. /\ b \in Seq(Nat) /\ Len(b) = IF d + 1 <= d + n THEN d + n - (d + 1) + 1 ELSE 0
        /\ \A j \in 1 .. d + n - (d + 1) + 1 : b[j] = m[d + 1 + j - 1]
    BY <2>1, d + 1 \in Int, d + n \in Int, SubSeqProperties
  <2>3. ASSUME NEW j \in 1 .. n PROVE b[j] = m[d + j]
    <3>1. j \in 1 .. d + n - (d + 1) + 1 /\ d + 1 + j - 1 = d + j
      OBVIOUS
    <3> QED
      BY <2>2, <3>1
  <2>4. Len(b) = n
    BY <2>2
  <2> QED
    BY <2>2, <2>3, <2>4
<1> HIDE DEF b
<1>3. PICK l \in Nat : l = Len(p)
  OBVIOUS
<1>4. Both(p \o b, p, l, b, n)
  BY <1>2, <1>3, Behind
<1>5. ASSUME NEW i \in 1 .. l + n PROVE (p \o b)[i] = i
  <2>1. CASE i \in 1 .. l
    BY <1>3, <1>4, <2>1 DEF Numbered, Both
  <2>2. CASE i \notin 1 .. l
    <3>1. PICK k \in 1 .. n : i = l + k
      <4>1. i - l \in 1 .. n /\ i = l + (i - l)
        BY <2>2
      <4> QED
        BY <4>1
    <3>2. b[k] = m[d + k]
      BY <1>2
    <3>3. d + k \in 1 .. z
      OBVIOUS
    <3>4. m[d + k] = that + (d + k)
      BY <3>3 DEF Bytes
    <3>5. that + (d + k) = i
      BY <1>3, <3>1
    <3> QED
      BY <1>4, <3>1, <3>2, <3>4, <3>5 DEF Both
  <2> QED
    BY <2>1, <2>2
<1>6. Numbered(p \o b)
  BY <1>4, <1>5 DEF Numbered, Both
<1> QED
  BY <1>3, <1>4, <1>6 DEF b, Both

\* What Copy does for both.
LEMMA CopyIs ==
  ASSUME RingInv, NEW t \in Ring!Threads, Ring!Copy(t)
  PROVE  \E n \in Nat : \E st \in {"loop", "give"} :
           /\ n <= todo[t] /\ done[t] + n <= ChunkSize /\ rstep[t] = "loop" /\ chunk[t] \in Ring!Chunks
           /\ st = "give" => done[t] + n = ChunkSize
           /\ done' = [done EXCEPT ![t] = done[t] + n] /\ todo' = [todo EXCEPT ![t] = todo[t] - n]
           /\ rstep' = [rstep EXCEPT ![t] = st]
           /\ UNCHANGED <<output, slot, head, tail, chunk, aborted>>
           /\ IF t = "push"
              THEN /\ mem' = [mem EXCEPT ![chunk[t]] =
                                SubSeq(mem[chunk[t]], 1, done[t]) \o [i \in 1 .. n |-> pushed + i]]
                   /\ pushed' = pushed + n /\ popped' = popped
              ELSE /\ popped' = popped \o SubSeq(mem[chunk[t]], done[t] + 1, done[t] + n)
                   /\ mem' = mem /\ pushed' = pushed
<1> DEFINE n == Ring!Least(todo[t], ChunkSize - done[t])
           st == IF done[t] + n = ChunkSize THEN "give" ELSE "loop"
<1>1. done[t] \in 0 .. ChunkSize /\ todo[t] \in Nat /\ chunk[t] \in Ring!Chunks \cup {Ring!None}
  BY DEF RingInv, ThreadTypes
<1>2. n \in Nat /\ n <= todo[t] /\ done[t] + n <= ChunkSize
  BY <1>1, RingConstants DEF Ring!Least
<1>3. st \in {"loop", "give"} /\ (st = "give" => done[t] + n = ChunkSize)
  OBVIOUS
<1>4. rstep[t] = "loop" /\ chunk[t] \in Ring!Chunks
  BY <1>1 DEF Ring!Copy
<1>5. /\ done' = [done EXCEPT ![t] = done[t] + n] /\ todo' = [todo EXCEPT ![t] = todo[t] - n]
      /\ rstep' = [rstep EXCEPT ![t] = st]
      /\ UNCHANGED <<output, slot, head, tail, chunk, aborted>>
  BY DEF Ring!Copy
<1>6. IF t = "push"
      THEN /\ mem' = [mem EXCEPT ![chunk[t]] =
                        SubSeq(mem[chunk[t]], 1, done[t]) \o [i \in 1 .. n |-> pushed + i]]
           /\ pushed' = pushed + n /\ popped' = popped
      ELSE /\ popped' = popped \o SubSeq(mem[chunk[t]], done[t] + 1, done[t] + n)
           /\ mem' = mem /\ pushed' = pushed
  BY DEF Ring!Copy
<1> HIDE DEF n, st
<1> QED
  BY <1>2, <1>3, <1>4, <1>5, <1>6

\* The decoder's chunk is filled.
LEMMA FillStep ==
  ASSUME RingInv, Ring!Copy("push") PROVE RingInv'
<1>0. "push" \in Ring!Threads /\ "pop" \in Ring!Threads
  BY DEF Ring!Threads
<1>1. PICK n \in Nat, st \in {"loop", "give"} :
        /\ n <= todo["push"] /\ done["push"] + n <= ChunkSize /\ rstep["push"] = "loop"
        /\ chunk["push"] \in Ring!Chunks /\ (st = "give" => done["push"] + n = ChunkSize)
        /\ done' = [done EXCEPT !["push"] = done["push"] + n]
        /\ todo' = [todo EXCEPT !["push"] = todo["push"] - n]
        /\ rstep' = [rstep EXCEPT !["push"] = st]
        /\ UNCHANGED <<output, slot, head, tail, chunk, aborted, popped>>
        /\ mem' = [mem EXCEPT ![chunk["push"]] =
                     SubSeq(mem[chunk["push"]], 1, done["push"]) \o [i \in 1 .. n |-> pushed + i]]
        /\ pushed' = pushed + n
  BY <1>0, CopyIs, Zenon
<1>2. PICK d \in Nat, k \in Ring!Chunks, m \in Seq(Nat) :
        d = done["push"] /\ k = chunk["push"] /\ m = mem[chunk["push"]]
  BY <1>0, <1>1, RingConstants DEF RingInv, ThreadTypes, ByteTypes
<1>3. done' \in [Ring!Threads -> 0 .. ChunkSize] /\ done'["push"] = d + n /\ done'["pop"] = done["pop"]
  BY <1>0, <1>1, <1>2, RingConstants DEF RingInv, ThreadTypes
<1>4. ThreadTypes'
  <2>1. todo["push"] \in Nat /\ todo \in [Ring!Threads -> Nat]
    BY <1>0 DEF RingInv, ThreadTypes
  <2>2. todo["push"] - n \in Nat
    BY <1>1, <2>1
  <2>3. todo' \in [Ring!Threads -> Nat]
    BY <1>1, <2>1, <2>2
  <2> QED
    BY <1>1, <1>3, <2>3 DEF RingInv, ThreadTypes
<1>5. /\ Has("push") /\ Has("push")' /\ Has("pop")' = Has("pop")
      /\ QueuedOnce' /\ HeldOnce' /\ NoneLost' /\ Steps'
      /\ Count("full")' = Count("full") /\ \A i \in Places : Live("full", i)' = Live("full", i)
  <2>1. chunk["push"] # Ring!None
    BY <1>1, RingConstants DEF Ring!Chunks, Ring!None
  <2>2. st = "give" => done'["push"] = ChunkSize
    BY <1>1, <1>2, <1>3
  <2>3. \A u \in Ring!Threads : u # "push" => done'[u] = done[u]
    BY <1>3 DEF Ring!Threads
  <2> QED
    BY <1>0, <1>1, <2>1, <2>2, <2>3, CopyOwns
<1>6. pushed \in Nat /\ Filled \in Int /\ Eaten \in Int /\ Base \in Int
  BY CountsAre DEF RingInv, ByteTypes
<1>7. Filled = pushed - d /\ Filled' = Filled
  BY <1>1, <1>2, <1>3, <1>5, <1>6 DEF Filled
<1>8. Eaten' = Eaten
  BY <1>1, <1>3, <1>5 DEF Eaten
<1>9. Base' = Base
  BY <1>5, <1>8 DEF Base
<1> DEFINE z == SubSeq(m, 1, d) \o [i \in 1 .. n |-> pushed + i]
<1>10. z \in Seq(Nat) /\ Bytes(z, d + n, Filled)
  <2>1. Bytes(m, d, Filled)
    BY <1>2, <1>5 DEF RingInv, HandBytes
  <2>2. PICK that \in Int, p \in Nat : that = Filled /\ p = pushed
    BY <1>6
  <2> QED
    BY <1>6, <1>7, <2>1, <2>2, FilledUp
<1>11. mem' = [mem EXCEPT ![k] = z]
  BY <1>1, <1>2
<1> HIDE DEF z
<1>12. /\ ByteTypes' /\ mem'[k] = z
       /\ \A j \in Ring!Chunks : j # k => mem'[j] = mem[j]
  <2>1. mem \in [Ring!Chunks -> Seq(Nat)] /\ popped \in Seq(Nat)
    BY DEF RingInv, ByteTypes
  <2>2. /\ mem' \in [Ring!Chunks -> Seq(Nat)] /\ mem'[k] = z
        /\ \A j \in Ring!Chunks : j # k => mem'[j] = mem[j]
    BY <1>10, <1>11, <2>1
  <2>3. pushed' \in Nat /\ popped' \in Seq(Nat)
    BY <1>1, <1>6, <2>1
  <2> QED
    BY <2>2, <2>3 DEF ByteTypes
<1>13. QueueTypes' /\ InOrder'
  BY <1>1 DEF RingInv, QueueTypes, InOrder
<1>14. FullBytes'
  <2>1. ASSUME NEW i \in Places, Live("full", i)
        PROVE  mem'[slot["full"][i]] = mem[slot["full"][i]]
    <3>1. slot["full"][i] # chunk["push"] /\ slot["full"][i] \in Ring!Chunks
      BY <1>0, <1>5, <2>1 DEF RingInv, HeldOnce, QueuedOnce, Queues
    <3> QED
      BY <1>2, <1>12, <3>1
  <2> QED
    BY <1>1, <1>5, <1>9, <2>1 DEF RingInv, FullBytes
<1>15. HandBytes'
  <2>1. Has("pop") => mem'[chunk["pop"]] = mem[chunk["pop"]]
    <3>1. Has("pop") => chunk["pop"] # chunk["push"] /\ chunk["pop"] \in Ring!Chunks
      BY <1>0, <1>5 DEF RingInv, HeldOnce, ThreadTypes, Has
    <3> QED
      BY <1>2, <1>12, <3>1
  <2>2. Has("pop")' => Bytes(mem'[chunk'["pop"]], ChunkSize, Eaten')
    BY <1>1, <1>5, <1>8, <2>1 DEF RingInv, HandBytes
  <2>3. Bytes(mem'[chunk'["push"]], done'["push"], Filled')
    BY <1>1, <1>2, <1>3, <1>7, <1>10, <1>12
  <2> QED
    BY <2>2, <2>3 DEF HandBytes
<1>16. Balance'
  BY <1>5, <1>7, <1>9 DEF RingInv, Balance
<1> QED
  BY <1>4, <1>5, <1>12, <1>13, <1>14, <1>15, <1>16 DEF RingInv

\* The device's chunk is taken from.
LEMMA PlayStep ==
  ASSUME RingInv, Ring!Copy("pop") PROVE RingInv'
<1>0. "push" \in Ring!Threads /\ "pop" \in Ring!Threads /\ "pop" # "push"
  BY DEF Ring!Threads
<1>1. PICK n \in Nat, st \in {"loop", "give"} :
        /\ n <= todo["pop"] /\ done["pop"] + n <= ChunkSize /\ rstep["pop"] = "loop"
        /\ chunk["pop"] \in Ring!Chunks /\ (st = "give" => done["pop"] + n = ChunkSize)
        /\ done' = [done EXCEPT !["pop"] = done["pop"] + n]
        /\ todo' = [todo EXCEPT !["pop"] = todo["pop"] - n]
        /\ rstep' = [rstep EXCEPT !["pop"] = st]
        /\ UNCHANGED <<output, slot, head, tail, chunk, aborted, mem, pushed>>
        /\ popped' = popped \o SubSeq(mem[chunk["pop"]], done["pop"] + 1, done["pop"] + n)
  BY <1>0, CopyIs, Zenon
<1>2. PICK d \in Nat, m \in Seq(Nat) : d = done["pop"] /\ m = mem[chunk["pop"]]
  BY <1>0, <1>1, RingConstants DEF RingInv, ThreadTypes, ByteTypes
<1>3. done' \in [Ring!Threads -> 0 .. ChunkSize] /\ done'["pop"] = d + n /\ done'["push"] = done["push"]
  BY <1>0, <1>1, <1>2, RingConstants DEF RingInv, ThreadTypes
<1>4. ThreadTypes'
  <2>1. todo["pop"] \in Nat /\ todo \in [Ring!Threads -> Nat]
    BY <1>0 DEF RingInv, ThreadTypes
  <2>2. todo["pop"] - n \in Nat
    BY <1>1, <2>1
  <2>3. todo' \in [Ring!Threads -> Nat]
    BY <1>1, <2>1, <2>2
  <2> QED
    BY <1>1, <1>3, <2>3 DEF RingInv, ThreadTypes
<1>5. /\ Has("pop") /\ Has("pop")' /\ Has("push")' = Has("push")
      /\ QueuedOnce' /\ HeldOnce' /\ NoneLost' /\ Steps'
      /\ Count("full")' = Count("full") /\ \A i \in Places : Live("full", i)' = Live("full", i)
  <2>1. chunk["pop"] # Ring!None
    BY <1>1, RingConstants DEF Ring!Chunks, Ring!None
  <2>2. st = "give" => done'["pop"] = ChunkSize
    BY <1>1, <1>2, <1>3
  <2>3. \A u \in Ring!Threads : u # "pop" => done'[u] = done[u]
    BY <1>3 DEF Ring!Threads
  <2> QED
    BY <1>0, <1>1, <2>1, <2>2, <2>3, CopyOwns
<1>6. pushed \in Nat /\ Filled \in Int /\ Eaten \in Int /\ Base \in Int /\ popped \in Seq(Nat)
  BY CountsAre DEF RingInv, ByteTypes
<1>7. Eaten = Len(popped) - d /\ Len(popped) \in Nat
  BY <1>2, <1>5, <1>6 DEF Eaten
<1>8. /\ popped' \in Seq(Nat) /\ Len(popped') = Len(popped) + n
      /\ Numbered(popped')
  <2>1. Bytes(m, ChunkSize, Eaten)
    BY <1>2, <1>5 DEF RingInv, HandBytes
  <2>2. PICK that \in Int, p \in Seq(Nat), z \in Nat : that = Eaten /\ p = popped /\ z = ChunkSize
    BY <1>6, RingConstants
  <2>3. Numbered(p)
    BY <2>2 DEF RingInv, InOrder
  <2>4. that + d = Len(p)
    BY <1>2, <1>7, <2>2
  <2>5. d + n <= z
    BY <1>1, <1>2, <2>2
  <2>6. popped' = p \o SubSeq(m, d + 1, d + n)
    BY <1>1, <1>2, <2>2
  <2>7. Bytes(m, z, that)
    BY <2>1, <2>2
  <2>8. /\ p \o SubSeq(m, d + 1, d + n) \in Seq(Nat)
        /\ Len(p \o SubSeq(m, d + 1, d + n)) = Len(p) + n
        /\ Numbered(p \o SubSeq(m, d + 1, d + n))
    BY <2>3, <2>4, <2>5, <2>7, TakenOff
  <2> QED
    BY <2>2, <2>6, <2>8, Zenon
<1>9. Eaten' = Eaten
  BY <1>3, <1>5, <1>7, <1>8 DEF Eaten
<1>10. Base' = Base
  BY <1>5, <1>9 DEF Base
<1>11. Filled' = Filled
  BY <1>1, <1>3, <1>5 DEF Filled
<1>12. ByteTypes' /\ InOrder' /\ QueueTypes'
  BY <1>1, <1>8 DEF RingInv, ByteTypes, InOrder, QueueTypes
<1>13. FullBytes'
  BY <1>1, <1>5, <1>10 DEF RingInv, FullBytes
<1>14. HandBytes'
  BY <1>1, <1>3, <1>5, <1>9, <1>11 DEF RingInv, HandBytes
<1>15. Balance'
  BY <1>5, <1>10, <1>11 DEF RingInv, Balance
<1> QED
  BY <1>4, <1>5, <1>12, <1>13, <1>14, <1>15 DEF RingInv
-----------------------------------------------------------------------------
(* A chunk goes from a hand to a queue                                     *)

\* There is a place for it.
LEMMA HasRoomIs ==
  ASSUME RingInv, NEW t \in Ring!Threads, Has(t)
  PROVE  Ring!HasRoom(Ring!To(t)) /\ Count(Ring!To(t)) < ChunksCount
<1>1. PICK q \in Queues : q = Ring!To(t)
  BY Ends2
<1>2. head[q] \in Places /\ tail[q] \in Places
  BY DEF RingInv, QueueTypes
<1>3. Hand(t) = 1 /\ Hand("push") \in {0, 1} /\ Hand("pop") \in {0, 1} /\ t \in {"push", "pop"}
  BY Ends2 DEF Hand
<1>4. Hand("push") + Hand("pop") >= 1
  BY <1>3
<1>5. Count("free") + Count("full") < ChunksCount
  BY <1>3, <1>4, CountsAre, RingConstants DEF RingInv, NoneLost
<1>6. Count(q) < ChunksCount
  BY <1>5, CountsAre, RingConstants DEF RingInv, Queues
<1>7. Ring!HasRoom(q)
  BY <1>2, <1>6, OffOfNext, RingConstants DEF Ring!HasRoom, Count
<1> QED
  BY <1>1, <1>6, <1>7

\* It is written to the place at the tail, which nobody reads yet.
LEMMA GiveStep ==
  ASSUME RingInv, NEW t \in Ring!Threads, Ring!Give(t) PROVE RingInv'
<1>1. PICK q \in Queues : q = Ring!To(t)
  BY Ends2
<1>2. rstep[t] = "give" /\ chunk[t] # Ring!None /\ done[t] = ChunkSize /\ Has(t)
  BY DEF Ring!Give, RingInv, Steps, Has
<1>3. /\ slot' = [slot EXCEPT ![q][tail[q]] = chunk[t]] /\ rstep' = [rstep EXCEPT ![t] = "giving"]
      /\ UNCHANGED <<chunk, aborted, output, head, tail, mem, todo, done, pushed, popped>>
  BY <1>1, <1>2, HasRoomIs DEF Ring!Give
<1>4. /\ head \in [Queues -> Places] /\ tail \in [Queues -> Places]
      /\ slot \in [Queues -> [Places -> Places]]
  BY DEF RingInv, QueueTypes
<1>5. chunk[t] \in Ring!Chunks /\ chunk[t] \in Places
  BY <1>2, RingConstants DEF RingInv, ThreadTypes, Ring!Chunks, Places
<1>6. PICK h \in Places, z \in Places : h = head[q] /\ z = tail[q]
  BY <1>4
<1>7. /\ slot' \in [Queues -> [Places -> Places]] /\ slot'[q][z] = chunk[t]
      /\ \A r \in Queues : \A i \in Places : r # q \/ i # z => slot'[r][i] = slot[r][i]
  BY <1>3, <1>4, <1>5, <1>6
<1>8. /\ rstep'[t] = "giving" /\ \A u \in Ring!Threads : u # t => rstep'[u] = rstep[u]
      /\ rstep' \in [Ring!Threads -> {"idle", "loop", "taking", "give", "giving"}]
  BY <1>3 DEF RingInv, ThreadTypes
<1>9. \A r \in Queues : Count(r)' = Count(r) /\ \A i \in Places : Live(r, i)' = Live(r, i)
  BY <1>3 DEF Count, Live
<1>10. ASSUME NEW r \in Queues, NEW i \in Places, Live(r, i) PROVE slot'[r][i] = slot[r][i]
  <2>1. r = q => i # z
    BY <1>6, <1>10, OffIs DEF Live, Count
  <2> QED
    BY <1>7, <2>1
<1>11. \A u \in Ring!Threads : Has(u)' = Has(u)
  BY <1>2, <1>3, <1>8 DEF Has
<1>12. QueueTypes' /\ ThreadTypes' /\ ByteTypes' /\ InOrder'
  BY <1>3, <1>7, <1>8 DEF RingInv, QueueTypes, ThreadTypes, ByteTypes, InOrder
<1>13. QueuedOnce'
  BY <1>9, <1>10 DEF RingInv, QueuedOnce
<1>14. HeldOnce'
  BY <1>3, <1>9, <1>10, <1>11 DEF RingInv, HeldOnce, Ring!Threads
<1>15. Hand("push")' = Hand("push") /\ Hand("pop")' = Hand("pop") /\ Eaten' = Eaten /\ Filled' = Filled
  BY <1>3, <1>11 DEF Hand, Ring!Threads, Eaten, Filled
<1>16. Base' = Base
  BY <1>11, <1>15 DEF Base, Ring!Threads
<1>17. NoneLost' /\ Balance'
  BY <1>9, <1>15, <1>16 DEF RingInv, NoneLost, Balance, Queues
<1>18. FullBytes'
  BY <1>3, <1>9, <1>10, <1>16 DEF RingInv, FullBytes, Queues
<1>19. HandBytes'
  BY <1>3, <1>11, <1>15 DEF RingInv, HandBytes, Ring!Threads
<1>20. Steps'
  <2>1. ASSUME NEW u \in Ring!Threads, rstep'[u] = "taking"
        PROVE  /\ Count(Ring!From(u))' > 0 /\ done'[u] = 0
               /\ chunk'[u] = slot'[Ring!From(u)][head'[Ring!From(u)]]
    <3>1. u # t /\ rstep[u] = "taking"
      BY <1>8, <2>1
    <3>2. PICK r \in Queues : r = Ring!From(u)
      BY Ends2
    <3>3. Count(r) > 0 /\ done[u] = 0 /\ chunk[u] = slot[r][head[r]]
      BY <3>1, <3>2 DEF RingInv, Steps
    <3>4. head[r] \in Places /\ Live(r, head[r])
      BY <1>4, <3>3, OffIs DEF Live
    <3> QED
      BY <1>3, <1>9, <1>10, <3>2, <3>3, <3>4
  <2>2. ASSUME NEW u \in Ring!Threads, rstep'[u] \in {"give", "giving"}
        PROVE  chunk'[u] # Ring!None /\ done'[u] = ChunkSize
    BY <1>2, <1>3, <1>8, <2>2 DEF RingInv, Steps
  <2>3. ASSUME NEW u \in Ring!Threads, rstep'[u] = "giving"
        PROVE  slot'[Ring!To(u)][tail'[Ring!To(u)]] = chunk'[u]
    <3>1. CASE u = t
      BY <1>1, <1>3, <1>6, <1>7, <3>1
    <3>2. CASE u # t
      <4>1. PICK r \in Queues : r = Ring!To(u)
        BY Ends2
      <4>2. r # q /\ tail[r] \in Places
        BY <1>1, <1>4, <3>2, <4>1, Ends2
      <4>3. slot[r][tail[r]] = chunk[u]
        BY <1>8, <2>3, <3>2, <4>1 DEF RingInv, Steps
      <4> QED
        BY <1>3, <1>7, <4>1, <4>2, <4>3
    <3> QED
      BY <3>1, <3>2
  <2> QED
    BY <2>1, <2>2, <2>3 DEF Steps
<1> QED
  BY <1>12, <1>13, <1>14, <1>17, <1>18, <1>19, <1>20 DEF RingInv

\* What Publish changes.
Publishes(t) ==
  /\ rstep[t] = "giving" /\ rstep' = [rstep EXCEPT ![t] = "loop"]
  /\ chunk' = [chunk EXCEPT ![t] = Ring!None]
  /\ tail' = [tail EXCEPT ![Ring!To(t)] = Ring!NextPlace(tail[Ring!To(t)])]
  /\ UNCHANGED <<output, slot, head, mem, todo, done, pushed, popped, aborted>>

\* The chunk of that hand, and no other, is queued behind those that are.
Joins(t, q) ==
  /\ Count(q)' = Count(q) + 1 /\ tail[q] \in Places /\ slot[q][tail[q]] = chunk[t]
  /\ \A i \in Places : Live(q, i)' => Live(q, i) \/ i = tail[q]

LEMMA PublishJoins ==
  ASSUME RingInv, NEW t \in Ring!Threads, Publishes(t)
  PROVE  /\ Joins(t, Ring!To(t)) /\ tail'[Ring!From(t)] = tail[Ring!From(t)] /\ QueueTypes'
         /\ Has(t) /\ ~Has(t)' /\ done[t] = ChunkSize /\ chunk[t] \in Ring!Chunks
         /\ \A u \in Ring!Threads : u # t => Has(u)' = Has(u) /\ chunk'[u] = chunk[u]
<1>1. PICK q \in Queues : q = Ring!To(t)
  BY Ends2
<1>2. head[q] \in Places /\ tail[q] \in Places /\ tail \in [Queues -> Places]
  BY <1>1 DEF RingInv, QueueTypes
<1>3. /\ rstep[t] = "giving" /\ chunk[t] # Ring!None /\ done[t] = ChunkSize
      /\ slot[q][tail[q]] = chunk[t]
  BY <1>1 DEF Publishes, RingInv, Steps
<1>4. Has(t) /\ chunk[t] \in Ring!Chunks
  BY <1>3 DEF Has, RingInv, ThreadTypes
<1>5. Count(q) < ChunksCount /\ Count(q) \in 0 .. ChunksCount
  BY <1>1, <1>2, <1>4, HasRoomIs, OffIs DEF Count
<1>6. tail' = [tail EXCEPT ![q] = Ring!NextPlace(tail[q])] /\ head' = head
  BY <1>1 DEF Publishes
<1>7. Ring!NextPlace(tail[q]) \in Places
  BY <1>2, OffFromNext
<1>8. tail' \in [Queues -> Places] /\ tail'[q] = Ring!NextPlace(tail[q])
  BY <1>2, <1>6, <1>7
<1>9. Count(q)' = Count(q) + 1
  BY <1>2, <1>5, <1>6, <1>8, OffOfNext, RingConstants DEF Count
<1>10. ASSUME NEW i \in Places, Live(q, i)' PROVE Live(q, i) \/ i = tail[q]
  <2>1. Off(head[q], i) < Count(q) + 1 /\ Off(head[q], i) \in Int
    BY <1>2, <1>6, <1>9, <1>10, OffIs DEF Live
  <2>2. Off(head[q], i) < Count(q) \/ Off(head[q], i) = Off(head[q], tail[q])
    BY <1>5, <2>1 DEF Count
  <2> QED
    BY <1>2, <2>2, OffIs DEF Live
<1>11. tail'[Ring!From(t)] = tail[Ring!From(t)]
  BY <1>1, <1>2, <1>6, Ends2
<1>12. QueueTypes'
  BY <1>8 DEF RingInv, QueueTypes, Publishes
<1>13. /\ chunk'[t] = Ring!None
       /\ \A u \in Ring!Threads : u # t => rstep'[u] = rstep[u] /\ chunk'[u] = chunk[u]
  BY DEF Publishes, RingInv, ThreadTypes
<1>14. ~Has(t)' /\ \A u \in Ring!Threads : u # t => Has(u)' = Has(u) /\ chunk'[u] = chunk[u]
  BY <1>13 DEF Has
<1> QED
  BY <1>1, <1>2, <1>3, <1>4, <1>9, <1>10, <1>11, <1>12, <1>14 DEF Joins

\* It was in no queue, and so it is in one.
LEMMA PublishOwns ==
  ASSUME RingInv, NEW t \in Ring!Threads, Publishes(t)
  PROVE  /\ QueuedOnce' /\ HeldOnce' /\ NoneLost'
         /\ Count(Ring!From(t))' = Count(Ring!From(t))
<1>1. PICK q \in Queues, r \in Queues : q = Ring!To(t) /\ r = Ring!From(t) /\ q # r
  BY Ends2
<1>2. /\ Joins(t, q) /\ tail'[r] = tail[r] /\ head' = head /\ slot' = slot /\ QueueTypes'
      /\ Has(t) /\ ~Has(t)' /\ chunk[t] \in Ring!Chunks
      /\ \A u \in Ring!Threads : u # t => Has(u)' = Has(u) /\ chunk'[u] = chunk[u]
  BY <1>1, PublishJoins DEF Publishes
<1>3. Count(r)' = Count(r) /\ \A i \in Places : Live(r, i)' = Live(r, i)
  BY <1>2 DEF Count, Live
<1>4. Queues = {q, r}
  BY <1>1 DEF Queues
<1>5. \A p \in Queues : \A i \in Places :
        Live(p, i)' => Live(p, i) \/ (p = q /\ i = tail[q] /\ slot[p][i] = chunk[t])
  BY <1>2, <1>3, <1>4 DEF Joins
<1>6. \A p \in Queues : \A i \in Places : Live(p, i) => slot[p][i] # chunk[t]
  BY <1>2 DEF RingInv, HeldOnce
<1>7. QueuedOnce'
  <2>1. ASSUME NEW p \in Queues, NEW i \in Places, Live(p, i)' PROVE slot'[p][i] \in Ring!Chunks
    BY <1>2, <1>5, <2>1 DEF RingInv, QueuedOnce
  <2>2. ASSUME NEW p \in Queues, NEW i \in Places, Live(p, i)',
               NEW o \in Queues, NEW j \in Places, Live(o, j)', slot[p][i] = slot[o][j]
        PROVE  p = o /\ i = j
    <3>1. CASE Live(p, i) /\ Live(o, j)
      BY <2>2, <3>1 DEF RingInv, QueuedOnce
    <3>2. CASE ~Live(p, i) \/ ~Live(o, j)
      BY <1>5, <1>6, <2>2, <3>2
    <3> QED
      BY <3>1, <3>2
  <2> QED
    BY <1>2, <2>1, <2>2 DEF QueuedOnce
<1>8. ASSUME NEW u \in Ring!Threads, Has(u)'
      PROVE  u # t /\ Has(u) /\ chunk'[u] = chunk[u] /\ chunk[u] # chunk[t]
  <2>1. u # t /\ Has(u) /\ chunk'[u] = chunk[u]
    BY <1>2, <1>8
  <2>2. (u = "push" /\ t = "pop") \/ (u = "pop" /\ t = "push")
    BY <2>1 DEF Ring!Threads
  <2>3. Has("push") /\ Has("pop")
    BY <1>2, <2>1, <2>2
  <2>4. chunk["push"] # chunk["pop"]
    BY <2>3 DEF RingInv, HeldOnce
  <2> QED
    BY <2>1, <2>2, <2>4
<1>9. HeldOnce'
  <2>1. ~(Has("push")' /\ Has("pop")')
    BY <1>2, Ends2
  <2>2. ASSUME NEW u \in Ring!Threads, Has(u)', NEW p \in Queues, NEW i \in Places, Live(p, i)'
        PROVE  slot'[p][i] # chunk'[u]
    BY <1>2, <1>5, <1>8, <2>2 DEF RingInv, HeldOnce
  <2> QED
    BY <2>1, <2>2 DEF HeldOnce
<1>10. NoneLost'
  <2>1. Count(q)' = Count(q) + 1
    BY <1>2 DEF Joins
  <2>2. Count("free")' + Count("full")' = Count("free") + Count("full") + 1
    BY <1>1, <1>3, <2>1, CountsAre DEF Queues, RingInv
  <2>3. Hand("push")' + Hand("pop")' = Hand("push") + Hand("pop") - 1
    <3>1. CASE t = "push"
      <4>1. Hand("push")' = 0 /\ Hand("push") = 1 /\ Hand("pop")' = Hand("pop")
        BY <1>2, <3>1 DEF Hand, Ring!Threads
      <4> QED
        BY <4>1 DEF Hand
    <3>2. CASE t = "pop"
      <4>1. Hand("pop")' = 0 /\ Hand("pop") = 1 /\ Hand("push")' = Hand("push")
        BY <1>2, <3>2 DEF Hand, Ring!Threads
      <4> QED
        BY <4>1 DEF Hand
    <3> QED
      BY <3>1, <3>2, Ends2
  <2>4. \A p \in Queues : Count(p)' \in Int
    BY <1>2, OffIs DEF QueueTypes, Count
  <2>5. Hand("push")' \in Int /\ Hand("pop")' \in Int
    BY DEF Hand
  <2> QED
    BY <2>2, <2>3, <2>4, <2>5, CountsAre DEF RingInv, NoneLost, Queues
<1> QED
  BY <1>1, <1>3, <1>7, <1>9, <1>10

\* The bytes of a full chunk follow those of the last, and an empty one has
\* none that are missing.
LEMMA PublishKeepsBytes ==
  ASSUME RingInv, NEW t \in Ring!Threads, Publishes(t)
  PROVE  FullBytes' /\ HandBytes' /\ Balance'
<1> USE DEF RingInv
<1>1. /\ Has(t) /\ ~Has(t)' /\ done[t] = ChunkSize
      /\ \A u \in Ring!Threads : u # t => Has(u)' = Has(u) /\ chunk'[u] = chunk[u]
      /\ Count(Ring!From(t))' = Count(Ring!From(t))
      /\ UNCHANGED <<slot, head, mem, done, pushed, popped>>
  BY PublishJoins, PublishOwns DEF Publishes
<1>2. Len(popped) \in Nat /\ pushed \in Nat /\ ChunkSize \in Nat
  BY RingConstants DEF ByteTypes
<1>3. Eaten \in Int /\ Base \in Int /\ Filled \in Int
  BY CountsAre
<1>4. CASE t = "push"
  <2>1. /\ Has("push") /\ ~Has("push")' /\ Has("pop")' = Has("pop") /\ chunk'["pop"] = chunk["pop"]
        /\ done["push"] = ChunkSize
    BY <1>1, <1>4 DEF Ring!Threads
  <2>2. Eaten' = Eaten /\ Filled' = Filled + ChunkSize
    BY <1>1, <1>2, <2>1 DEF Eaten, Filled
  <2>3. Base' = Base
    BY <2>1, <2>2 DEF Base
  <2>4. Joins("push", "full") /\ Count("full") \in Nat
    BY <1>4, PublishJoins, CountsAre DEF Ring!To
  <2>5. Balance'
    <3>1. PICK k \in Nat : k = Count("full")
      BY <2>4
    <3>2. Filled = Base + Times(k)
      BY <3>1 DEF Balance
    <3>3. Times(k) \in Int /\ Times(k + 1) = Times(k) + ChunkSize
      BY <3>1, TimesIs
    <3>4. Filled + ChunkSize = Base + Times(k + 1)
      BY <1>2, <1>3, <3>2, <3>3
    <3> QED
      BY <2>2, <2>3, <2>4, <3>1, <3>4 DEF Balance, Joins
  <2>6. ASSUME NEW i \in Places, Live("full", i)'
        PROVE  Bytes(mem[slot["full"][i]], ChunkSize, Base + Times(Off(head["full"], i)))
    <3>1. CASE Live("full", i)
      BY <3>1 DEF FullBytes
    <3>2. CASE ~Live("full", i)
      <4>1. i = tail["full"] /\ slot["full"][i] = chunk["push"]
        BY <2>4, <2>6, <3>2 DEF Joins
      <4>2. Base + Times(Off(head["full"], i)) = Filled
        BY <4>1 DEF Balance, Count
      <4> QED
        BY <2>1, <4>1, <4>2 DEF HandBytes
    <3> QED
      BY <3>1, <3>2
  <2>7. FullBytes'
    BY <1>1, <2>3, <2>6 DEF FullBytes
  <2>8. HandBytes'
    BY <1>1, <2>1, <2>2 DEF HandBytes
  <2> QED
    BY <2>5, <2>7, <2>8
<1>5. CASE t = "pop"
  <2>1. /\ Has("pop") /\ ~Has("pop")' /\ Has("push")' = Has("push") /\ chunk'["push"] = chunk["push"]
        /\ done["pop"] = ChunkSize
    BY <1>1, <1>5 DEF Ring!Threads
  <2>2. Eaten' = Base /\ Filled' = Filled
    BY <1>1, <1>2, <1>3, <2>1 DEF Eaten, Filled, Base
  <2>3. Base' = Base
    <3>1. Base' = Eaten' + 0
      BY <2>1 DEF Base
    <3> QED
      BY <1>3, <2>2, <3>1
  <2>4. Count("full")' = Count("full") /\ tail'["full"] = tail["full"]
    BY <1>1, <1>5, PublishJoins DEF Ring!From
  <2>5. \A i \in Places : Live("full", i)' = Live("full", i)
    BY <1>1, <2>4 DEF Live
  <2>6. FullBytes' /\ Balance'
    BY <1>1, <2>2, <2>3, <2>4, <2>5 DEF FullBytes, Balance
  <2>7. HandBytes'
    BY <1>1, <2>1, <2>2 DEF HandBytes
  <2> QED
    BY <2>6, <2>7
<1> QED
  BY <1>4, <1>5, Ends2

\* A place is published.
LEMMA PublishStep ==
  ASSUME RingInv, NEW t \in Ring!Threads, Ring!Publish(t) PROVE RingInv'
<1>1. Publishes(t)
  BY DEF Publishes, Ring!Publish, Ring!Given
<1>2. QueueTypes'
  BY <1>1, PublishJoins
<1>3. ThreadTypes' /\ ByteTypes' /\ InOrder'
  BY <1>1 DEF Publishes, RingInv, ThreadTypes, ByteTypes, InOrder
<1>4. Steps'
  <2>1. ASSUME NEW u \in Ring!Threads, u # t
        PROVE  /\ tail'[Ring!To(u)] = tail[Ring!To(u)] /\ Ring!From(u) = Ring!To(t)
               /\ Count(Ring!From(u))' = Count(Ring!From(u)) + 1
               /\ Count(Ring!From(u)) \in Nat
    <3>1. Ring!From(u) = Ring!To(t) /\ Ring!To(u) = Ring!From(t) /\ Ring!To(t) \in Queues
      BY <2>1, Ends2
    <3>2. Count(Ring!To(t)) \in Nat
      BY <3>1, CountsAre, RingConstants DEF RingInv, Queues
    <3>3. Joins(t, Ring!To(t)) /\ tail'[Ring!From(t)] = tail[Ring!From(t)]
      BY <1>1, PublishJoins
    <3> QED
      BY <3>1, <3>2, <3>3 DEF Joins
  <2>2. /\ rstep'[t] = "loop" /\ slot' = slot /\ head' = head /\ done' = done
        /\ \A u \in Ring!Threads : u # t => rstep'[u] = rstep[u] /\ chunk'[u] = chunk[u]
    BY <1>1 DEF Publishes, RingInv, ThreadTypes
  <2>3. ASSUME NEW u \in Ring!Threads, u # t
        PROVE  /\ rstep'[u] = "taking" =>
                    /\ Count(Ring!From(u))' > 0 /\ done'[u] = 0
                    /\ chunk'[u] = slot'[Ring!From(u)][head'[Ring!From(u)]]
               /\ rstep'[u] \in {"give", "giving"} =>
                    chunk'[u] # Ring!None /\ done'[u] = ChunkSize
               /\ rstep'[u] = "giving" => slot'[Ring!To(u)][tail'[Ring!To(u)]] = chunk'[u]
    BY <2>1, <2>2, <2>3 DEF RingInv, Steps
  <2> QED
    BY <2>2, <2>3 DEF Steps
<1> QED
  BY <1>1, <1>2, <1>3, <1>4, PublishOwns, PublishKeepsBytes DEF RingInv

\* Each step of the ring keeps its invariant.
LEMMA RingStep == RingInv /\ Ring!RingNext => RingInv'
<1> SUFFICES ASSUME RingInv, Ring!RingNext PROVE RingInv'
  OBVIOUS
<1>1. CASE Ring!Settings
  <2>1. "push" \in Ring!Threads
    BY DEF Ring!Threads
  <2> QED
    BY <1>1, <2>1, WaitingSteps, WaitsStep
<1>2. ASSUME NEW t \in Ring!Threads, Ring!RingStep(t) \/ \E n \in Frames : Ring!Call(t, n)
      PROVE  RingInv'
  <2>1. CASE Ring!Look(t)
    BY <2>1, LookStep, WaitingSteps, WaitsStep
  <2>2. CASE Ring!Copy(t)
    BY <2>2, FillStep, PlayStep, Ends2
  <2>3. CASE Ring!Finish(t) \/ \E n \in Frames : Ring!Call(t, n)
    BY <2>3, WaitingSteps, WaitsStep
  <2> QED
    BY <1>2, <2>1, <2>2, <2>3, TakeStep, GiveStep, PublishStep DEF Ring!RingStep
<1> QED
  BY <1>1, <1>2 DEF Ring!RingNext

-----------------------------------------------------------------------------
(* The front ends                                                          *)

\* Each part's invariant; one part runs, and the others keep theirs.
FrontInv == WindowInv /\ ActivityInv /\ RingInv

\* The first frame is in front, and no other is pulled.
LEMMA WindowStarts == Window!WindowInit => WindowInv
<1> SUFFICES ASSUME Window!WindowInit PROVE WindowInv
  OBVIOUS
<1>1. /\ main = "loop" /\ uploader = "idle" /\ fg = 0 /\ painting = -1 /\ shown = 1
      /\ got = 0 /\ sent = 0 /\ coded = {} /\ plane = 1 /\ skipped = {}
      /\ frames = [i \in {0, 1} |-> [p \in 1 .. Planes |-> 1]]
  BY DEF Window!WindowInit, Window!DecoderInit, Window!FramesInit
<1> QED
  BY <1>1, FrontEndsAssumption
     DEF WindowInv, WindowTypes, PulledInOrder, PlanesInOrder, PaintedInFront, Window!WindowAssumption

\* There is no session, and nothing to tell.
LEMMA ActivityStarts == Activity!StreamInit => ActivityInv
BY DEF Activity!StreamInit, Activity!VideoInit, Activity!AudioInit, ActivityInv, ThreadsInv,
       EndedFirst, OutputsEnd, LibJoined, ToldInv, Flags, Screen, Told, ToldEnd, ToldPin, ToldNone,
       LeftFor

\* The decoder holds the first chunk, and the others are free in order.
LEMMA RingStarts == Ring!RingInit => RingInv
<1> SUFFICES ASSUME Ring!RingInit PROVE RingInv
  OBVIOUS
<1>1. PICK n \in Nat \ {0} : n = ChunksCount
  BY RingConstants
<1>2. /\ output = "closed" /\ mem = [c0 \in Ring!Chunks |-> <<>>]
      /\ rstep = [t \in Ring!Threads |-> "idle"] /\ todo = [t \in Ring!Threads |-> 0]
      /\ done = [t \in Ring!Threads |-> 0] /\ pushed = 0 /\ popped = <<>> /\ aborted = FALSE
  BY DEF Ring!RingInit
<1>3. /\ chunk["push"] = 0 /\ chunk["pop"] = Ring!None /\ 0 \in Ring!Chunks /\ 0 # Ring!None
      /\ chunk \in [Ring!Threads -> Ring!Chunks \cup {Ring!None}]
  BY <1>1 DEF Ring!RingInit, Ring!Threads, Ring!Chunks, Ring!None
<1>4. /\ head = [q \in Queues |-> 0] /\ head["free"] = 0 /\ head["full"] = 0
      /\ tail["free"] = n - 1 /\ tail["full"] = 0
      /\ head \in [Queues -> Places] /\ tail \in [Queues -> Places]
  BY <1>1 DEF Ring!RingInit, Queues, Places
<1>5. \A i \in Places : Ring!NextPlace(i) \in Places /\ (i < n - 1 => Ring!NextPlace(i) = i + 1)
  BY <1>1, NextPlaceIs, OffFromNext DEF Places
<1>6. /\ slot \in [Queues -> [Places -> Places]]
      /\ \A i \in Places : slot["free"][i] = Ring!NextPlace(i)
  <2>1. slot = [q \in Queues |-> [i \in Places |-> IF q = "free" THEN Ring!NextPlace(i) ELSE 0]]
    BY DEF Ring!RingInit, Queues, Places
  <2>2. 0 \in Places /\ "free" \in Queues
    BY <1>1 DEF Places, Queues
  <2> QED
    BY <1>5, <2>1, <2>2
<1>7. Count("free") = n - 1 /\ Count("full") = 0
  BY <1>1, <1>4 DEF Count, Off
<1>8. /\ \A i \in Places : Live("free", i) => i < n - 1
      /\ \A i \in Places : ~Live("full", i)
  BY <1>1, <1>4, <1>7 DEF Live, Off, Places
<1>9. Has("push") /\ ~Has("pop")
  BY <1>2, <1>3 DEF Has, Ring!Threads
<1>10. QueueTypes /\ ThreadTypes
  <2>1. 0 \in 0 .. ChunkSize
    BY RingConstants
  <2> QED
    BY <1>2, <1>3, <1>4, <1>6, <2>1 DEF QueueTypes, ThreadTypes
<1>11. ByteTypes /\ InOrder
  BY <1>2 DEF ByteTypes, InOrder, Numbered
<1>12. ASSUME NEW i \in Places, Live("free", i)
       PROVE  slot["free"][i] = i + 1 /\ i + 1 \in 1 .. n - 1
  <2>1. i < n - 1 /\ i \in 0 .. n
    BY <1>1, <1>8, <1>12 DEF Places
  <2>2. slot["free"][i] = i + 1
    BY <1>5, <1>6, <2>1
  <2> QED
    BY <1>1, <2>1, <2>2
<1>13. QueuedOnce
  BY <1>1, <1>8, <1>12 DEF QueuedOnce, Queues, Ring!Chunks, Places
<1>14. HeldOnce
  <2>1. \A i \in Places : Live("free", i) => slot["free"][i] # chunk["push"]
    BY <1>3, <1>12
  <2> QED
    BY <1>8, <1>9, <2>1 DEF HeldOnce, Queues, Ring!Threads
<1>15. NoneLost
  BY <1>1, <1>7, <1>9 DEF NoneLost, Hand
<1>16. Steps
  BY <1>2 DEF Steps
<1>17. Eaten = 0 /\ Base = 0 /\ Filled = 0
  <2>1. Len(popped) = 0 /\ done["push"] = 0
    BY <1>2 DEF Ring!Threads
  <2> QED
    BY <1>2, <1>9, <2>1 DEF Eaten, Base, Filled
<1>18. FullBytes /\ Balance
  BY <1>7, <1>8, <1>17, TimesIs DEF FullBytes, Balance
<1>19. HandBytes
  <2>1. done["push"] = 0 /\ mem[chunk["push"]] = <<>>
    BY <1>2, <1>3 DEF Ring!Threads
  <2> QED
    BY <1>9, <2>1 DEF HandBytes, Bytes
<1> QED
  BY <1>10, <1>11, <1>13, <1>14, <1>15, <1>16, <1>18, <1>19 DEF RingInv

\* What is left alone keeps its invariant.
LEMMA WindowIdle == WindowInv /\ UNCHANGED windowVars => WindowInv'
BY DEF windowVars, WindowInv, WindowTypes, PulledInOrder, PlanesInOrder, PaintedInFront

LEMMA ActivityIdle == ActivityInv /\ UNCHANGED activityVars => ActivityInv'
BY DEF activityVars, ActivityInv, ThreadsInv, EndedFirst, OutputsEnd, LibJoined, ToldInv, Flags, Screen,
       Told, ToldEnd, ToldPin, ToldNone, LeftFor

LEMMA RingIdle == RingInv /\ UNCHANGED ringVars => RingInv'
<1> SUFFICES ASSUME RingInv, UNCHANGED ringVars PROVE RingInv'
  OBVIOUS
<1>1. /\ UNCHANGED <<output, slot, head, tail, mem, rstep, todo>>
      /\ UNCHANGED <<chunk, done, pushed, popped, aborted>>
  BY DEF ringVars
<1>2. output' \in {"closed", "open"} /\ todo' \in [Ring!Threads -> Nat]
  BY <1>1 DEF RingInv, QueueTypes, ThreadTypes
<1>3. rstep' \in [Ring!Threads -> {"idle", "loop", "taking", "give", "giving"}]
  BY <1>1 DEF RingInv, ThreadTypes
<1> QED
  BY <1>1, <1>2, <1>3, WaitsStep DEF Waits

\* Whichever part runs, all keep their invariants.
LEMMA FrontStep == FrontInv /\ [FrontNext]_frontVars => FrontInv'
<1> SUFFICES ASSUME FrontInv, [FrontNext]_frontVars PROVE FrontInv'
  OBVIOUS
<1>1. CASE Windowed(Window!WindowNext)
  BY <1>1, WindowStep, ActivityIdle, RingIdle DEF Windowed, FrontInv
<1>2. CASE Streamed(Activity!StreamNext)
  BY <1>2, ActivityStep, WindowIdle, RingIdle DEF Streamed, FrontInv
<1>3. CASE Played(Ring!RingNext)
  BY <1>3, RingStep, WindowIdle, ActivityIdle DEF Played, FrontInv
<1>4. CASE UNCHANGED frontVars
  BY <1>4, WindowIdle, ActivityIdle, RingIdle DEF frontVars, FrontInv
<1> QED
  BY <1>1, <1>2, <1>3, <1>4 DEF FrontNext

\* The invariants of the three parts hold in every state.
THEOREM FrontCorrect == FrontSpec => []FrontInv
<1>1. FrontInit => FrontInv
  BY WindowStarts, ActivityStarts, RingStarts DEF FrontInit, FrontInv
<1> QED
  BY <1>1, FrontStep, PTL DEF FrontSpec

\* What paintGL reads is not being written, it is one frame in all its planes
\* and none older than the one shown last, unless a plane of it could not be
\* mapped; the uploader has ended before the window is gone.
THEOREM ShownWhole == FrontSpec => []ShownIsWhole
<1>1. FrontInv => ShownIsWhole
  <2> SUFFICES ASSUME FrontInv PROVE ShownIsWhole
    OBVIOUS
  <2>1. painting # -1 => painting = fg
    BY DEF FrontInv, WindowInv, WindowTypes, PaintedInFront
  <2>2. fg \notin skipped =>
          \A p \in 1 .. Planes : frames[fg][p] = frames[fg][1] /\ frames[fg][p] >= shown
    <3> SUFFICES ASSUME fg \notin skipped, NEW p \in 1 .. Planes
                 PROVE  frames[fg][p] = frames[fg][1] /\ frames[fg][p] >= shown
      OBVIOUS
    <3>1. frames[fg][p] = frames[fg][1] /\ shown <= frames[fg][1]
      BY DEF FrontInv, WindowInv, PlanesInOrder, PaintedInFront
    <3>2. frames[fg][p] \in Nat /\ shown \in Nat
      BY DEF FrontInv, WindowInv, WindowTypes
    <3> QED
      BY <3>1, <3>2
  <2>3. main = "gone" => uploader = "ended"
    BY DEF FrontInv, WindowInv, PaintedInFront
  <2> QED
    BY <2>1, <2>2, <2>3 DEF ShownIsWhole, Window!ShownIsWhole
<1> QED
  BY <1>1, FrontCorrect, PTL

\* An activity that rests has told its user that the session ended, asks for a
\* PIN, or could make none.
THEOREM UserTold == FrontSpec => []UserIsTold
<1>1. FrontInv => UserIsTold
  BY DEF FrontInv, ActivityInv, ToldInv, Flags, Told, ToldEnd, ToldPin, ToldNone, Ends, Closing,
         UserIsTold, Activity!UserIsTold
<1> QED
  BY <1>1, FrontCorrect, PTL

\* No thread of an activity's session outlives what it uses, but that of a
\* codec that had no buffer for the end of the stream.
THEOREM NoneLeft == FrontSpec => []NoneOutlives
<1>1. FrontInv => NoneOutlives
  BY DEF FrontInv, ActivityInv, ThreadsInv, OutputsEnd, NoneOutlives, Activity!NoneOutlives
<1> QED
  BY <1>1, FrontCorrect, PTL

\* The device plays the bytes pushed, each once and in order, and the buffer's
\* assertions hold.
THEOREM AllPlayed == FrontSpec => []PlayedInOrder
<1>1. FrontInv => PlayedInOrder
  <2> SUFFICES ASSUME FrontInv PROVE PlayedInOrder
    OBVIOUS
  <2>1. Ring!RingTypeOK
    BY DEF FrontInv, RingInv, QueueTypes, ThreadTypes, Ring!RingTypeOK, Queues, Places
  <2>2. ~aborted /\ \A i \in DOMAIN popped : popped[i] = i
    BY DEF FrontInv, RingInv, ByteTypes, InOrder, Numbered
  <2> QED
    BY <2>1, <2>2 DEF PlayedInOrder, Ring!PlayedInOrder
<1> QED
  BY <1>1, FrontCorrect, PTL
=============================================================================
