---------------------------- MODULE StreamProofs ----------------------------
(***************************************************************************)
(* StreamConnection: why run returns what it returns, which phase answers  *)
(* which message, and in which order the threads end, whether waits may    *)
(* fail or not.  Every property needs to know where run is while another   *)
(* thread acts: the parts of Inv say that.                                 *)
(*                                                                         *)
(* Input: what the console knows of the events that are pushed (LossInv),  *)
(* and whose finger every touch is (TouchpadInv).                          *)
(***************************************************************************)
EXTENDS StreamConnection, Input, WellFoundedInduction, FiniteSetTheorems, SequenceTheorems, TLAPS

USE DEF phase, flags, feedbackVars, congestionVars, takionVars

-----------------------------------------------------------------------------
(* The inductive invariant *)

\* What run owns.
RunTypes ==
  /\ run \in {"start", "takion", "send_big", "bang", "streaminfo", "feedback",
              "event", "idle", "heartbeat", "fini_feedback", "stop_feedback",
              "join_feedback", "disconnect", "stop_congestion",
              "join_congestion", "close", "join_takion", "returned"}
  /\ err \in {"success", "timeout", "unknown", "network", "canceled",
              "disconnected"}

\* The flags, most of them shared under the mutex L.
FlagTypes ==
  /\ state_finished \in BOOLEAN /\ state_failed \in BOOLEAN
  /\ should_stop \in BOOLEAN /\ remote_disconnected \in BOOLEAN
  /\ crypt \in BOOLEAN /\ informed \in BOOLEAN

\* What the congestion control and feedback sender threads own.
SenderTypes ==
  /\ feedback_sender_active \in BOOLEAN /\ feedback_stop \in BOOLEAN
  /\ feedback \in {"none", "wait", "sending", "exited", "finished"}
  /\ congestion \in {"none", "wait", "sending", "exited"}
  /\ congestion_stop \in BOOLEAN /\ updating \in BOOLEAN

\* What the Takion thread owns.
TakionTypes ==
  /\ state \in {"idle", "takion_connect", "expect_bang", "expect_streaminfo"}
  /\ takion \in {"none", "handshake", "connected", "loop", "data",
                 "disconnect", "exited"}
  /\ takion_stop \in BOOLEAN /\ takion_closed \in BOOLEAN /\ data \in Datas

\* The console, and what it was sent.
ConsoleTypes ==
  /\ console \in {"waits", "asked", "accepted", "silent"}
  /\ \A message \in sent : message \in Messages

Types == RunTypes /\ FlagTypes /\ SenderTypes /\ TakionTypes /\ ConsoleTypes

\* The groups above are the types of the model.
LEMMA TypesAre == Types <=> TypeOK
BY DEF Types, RunTypes, FlagTypes, SenderTypes, TakionTypes, ConsoleTypes, TypeOK

Before == {"start", "takion", "send_big", "bang", "streaminfo", "feedback"}
Leaving == {"stop_congestion", "join_congestion", "close", "join_takion",
            "returned"}

\* run waits in the state it entered, and that state is still unfinished once
\* the stream is up.
PhaseIsKept ==
  /\ run = "takion" => state = "takion_connect"
  /\ run \in {"send_big", "bang"} => state = "expect_bang"
  /\ run = "streaminfo" => state = "expect_streaminfo"
  /\ run \in {"event", "idle", "heartbeat"} => state = "idle" /\ ~state_finished

\* Each message goes out after the one it answers.
Told(message) == message \in sent
MessagesInOrder ==
  /\ console # "waits" \/ data = "bang" => Told("BIG")
  /\ Told("CONTROLLERCONNECTION") => Told("BIG") /\ crypt
  /\ Told("STREAMINFOACK") => Told("CONTROLLERCONNECTION") /\ informed
  /\ Told("HEARTBEAT") => Told("STREAMINFOACK")

\* A state is finished, and the next one entered, only with its answer.
AnswersAreOwn ==
  /\ state = "expect_bang" /\ state_finished => Told("CONTROLLERCONNECTION")
  /\ state = "expect_streaminfo" => Told("CONTROLLERCONNECTION")
  /\ state = "expect_streaminfo" /\ state_finished => Told("STREAMINFOACK")
  /\ feedback # "none" \/ run \in {"feedback", "event", "idle", "heartbeat"}
       => Told("STREAMINFOACK")

\* Why run is on its way out.
LeavesForReason ==
  /\ run \in {"start", "takion"} => ~Told("BIG")
  /\ run \in {"fini_feedback", "stop_feedback", "join_feedback"}
       => should_stop \/ remote_disconnected
  /\ run = "disconnect" =>
       /\ err \notin {"canceled", "disconnected"}
       /\ err = "success" => should_stop \/ remote_disconnected
  /\ run \in Leaving =>
       /\ err \in {"success", "canceled"} => should_stop
       /\ err = "disconnected" => remote_disconnected
       /\ Told("BIG") => Told("DISCONNECT")

\* Who is still there while run is where it is.
Lifetimes ==
  /\ feedback_sender_active \/ updating =>
       /\ feedback \in {"wait", "sending", "exited"}
       /\ run \in {"event", "idle", "heartbeat", "fini_feedback"}
  /\ run \in Before => feedback = "none"
  /\ run \in Leaving \cup {"disconnect"} => feedback \in {"none", "finished"}
  /\ takion_closed => run = "returned"
  /\ run = "start" => takion = "none"
  /\ run = "returned" => takion \in {"none", "exited"}

Inv == Types /\ PhaseIsKept /\ MessagesInOrder /\ AnswersAreOwn
       /\ LeavesForReason /\ Lifetimes

\* run has not begun, and no thread of the connection exists.
LEMMA InvInit == Init => Inv
BY DEF Init, Inv, Types, RunTypes, FlagTypes, SenderTypes, TakionTypes,
       ConsoleTypes, PhaseIsKept, MessagesInOrder, AnswersAreOwn,
       LeavesForReason, Lifetimes, Told, Before, Leaving, Messages, Datas
-----------------------------------------------------------------------------
(* Every step keeps each part: a step of run, of the Takion thread, of the *)
(* other threads and the users.                                            *)

\* What run owns.
LEMMA RunTypesStep == Inv /\ [Next]_vars => RunTypes'
<1> SUFFICES ASSUME Inv, [Next]_vars PROVE RunTypes'
  OBVIOUS
<1>1. CASE Run
  BY <1>1
  DEF Inv, Types, RunTypes, WaitResults, Run, Connect, SendBig, BigIsSent,
      BigFails, StartFeedback, Connected, Heartbeat, AwaitHeartbeat,
      SendHeartbeat, TakionWaitEnds, BangWaitEnds, StreamInfoWaitEnds,
      IdleWaitEnds, Expected, FiniFeedback, MayFinishFeedback, StopFeedback,
      JoinFeedback, FeedbackJoined, Disconnect, SendDisconnect, EndOf,
      StopCongestion, JoinCongestion, Close, JoinTakion, TakionJoined, RunOnly,
      Enter, Send, FFree, Finished, WaitEnds
<1>2. CASE Takion
  BY <1>2
  DEF Inv, Types, RunTypes, Takion, HandshakeDone, HandshakeFails,
      ConnectedEvent, DisconnectEvent, TakionEvent, Receive, Sends,
      ReceiveEnds, HandleData, DataDisconnect, DataBang, DataStreamInfo,
      DataRefused, DataUnexpected, SendControllerConnection, SendStreamInfoAck,
      HandleEffect, TakionOnly, Send, LFree
<1>3. CASE Congestion \/ Feedback \/ Stop \/ BeginUpdate \/ EndUpdate
  BY <1>3
  DEF Inv, Types, RunTypes, Congestion, Feedback, Stop, BeginUpdate, EndUpdate,
      Others, FFree
<1>4. CASE Done \/ UNCHANGED vars
  BY <1>4
  DEF Inv, Types, RunTypes, Done, vars
<1> QED
  BY <1>1, <1>2, <1>3, <1>4 DEF Next

\* The flags, most of them shared under the mutex L.
LEMMA FlagTypesStep == Inv /\ [Next]_vars => FlagTypes'
<1> SUFFICES ASSUME Inv, [Next]_vars PROVE FlagTypes'
  OBVIOUS
<1>1. CASE Run
  <2>1. CASE Connect \/ SendBig \/ StartFeedback \/ Connected \/ Heartbeat
    BY <2>1
    DEF Inv, Types, FlagTypes, Connect, SendBig, BigIsSent, BigFails,
        StartFeedback, Connected, Heartbeat, AwaitHeartbeat, SendHeartbeat,
        RunOnly, Enter, Send, FFree, EndOf, Finished
  <2>2. ASSUME NEW r \in WaitResults, \/ TakionWaitEnds(r) \/ BangWaitEnds(r)
                                      \/ StreamInfoWaitEnds(r) \/ IdleWaitEnds(r)
        PROVE  FlagTypes'
    BY <2>2
    DEF Inv, Types, FlagTypes, TakionWaitEnds, BangWaitEnds, StreamInfoWaitEnds,
        IdleWaitEnds, Expected, RunOnly, Enter, Finished, WaitEnds, EndOf
  <2>3. CASE FiniFeedback \/ StopFeedback \/ JoinFeedback \/ Disconnect
    BY <2>3
    DEF Inv, Types, FlagTypes, FiniFeedback, MayFinishFeedback, StopFeedback,
        JoinFeedback, FeedbackJoined, Disconnect, SendDisconnect, RunOnly, Enter,
        Send, FFree, EndOf
  <2>4. CASE StopCongestion \/ JoinCongestion \/ Close \/ JoinTakion
    BY <2>4
    DEF Inv, Types, FlagTypes, StopCongestion, JoinCongestion, Close, JoinTakion,
        TakionJoined, RunOnly, Enter, EndOf
  <2> QED
    BY <1>1, <2>1, <2>2, <2>3, <2>4 DEF Run
<1>2. CASE Takion
  <2>1. CASE HandshakeDone \/ HandshakeFails \/ ReceiveEnds \/ HandleEffect
    BY <2>1
    DEF Inv, Types, FlagTypes, HandshakeDone, HandshakeFails, ReceiveEnds,
        HandleEffect, TakionOnly
  <2>2. ASSUME NEW d \in Datas, NEW next \in {"waits", "asked", "accepted", "silent"},
               Receive(d, next)
        PROVE  FlagTypes'
    BY <2>2
    DEF Inv, Types, FlagTypes, Receive, Sends, TakionOnly
  <2>3. CASE ConnectedEvent
    BY <2>3
    DEF Inv, Types, FlagTypes, ConnectedEvent, TakionEvent, TakionOnly, LFree
  <2>4. CASE DisconnectEvent
    BY <2>4
    DEF Inv, Types, FlagTypes, DisconnectEvent, TakionEvent, TakionOnly, LFree
  <2>5. CASE HandleData /\ DataDisconnect
    BY <2>5
    DEF Inv, Types, FlagTypes, HandleData, TakionOnly, LFree, DataDisconnect
  <2>6. CASE HandleData /\ DataBang
    BY <2>6
    DEF Inv, Types, FlagTypes, HandleData, TakionOnly, LFree, DataBang,
        SendControllerConnection, Send
  <2>7. CASE HandleData /\ DataStreamInfo
    BY <2>7
    DEF Inv, Types, FlagTypes, HandleData, TakionOnly, LFree, DataStreamInfo,
        SendStreamInfoAck, Send
  <2>8. CASE HandleData /\ DataRefused
    BY <2>8
    DEF Inv, Types, FlagTypes, HandleData, TakionOnly, LFree, DataRefused
  <2>9. CASE HandleData /\ DataUnexpected
    BY <2>9
    DEF Inv, Types, FlagTypes, HandleData, TakionOnly, LFree, DataUnexpected
  <2> QED
    BY <1>2, <2>1, <2>2, <2>3, <2>4, <2>5, <2>6, <2>7, <2>8, <2>9
    DEF Takion, HandleData
<1>3. CASE Congestion \/ Feedback \/ Stop \/ BeginUpdate \/ EndUpdate
  BY <1>3
  DEF Inv, Types, FlagTypes, Congestion, Feedback, Stop, BeginUpdate,
      EndUpdate, Others, FFree
<1>4. CASE Done \/ UNCHANGED vars
  BY <1>4
  DEF Inv, Types, FlagTypes, Done, vars
<1> QED
  BY <1>1, <1>2, <1>3, <1>4 DEF Next

\* What the congestion control and feedback sender threads own.
LEMMA SenderTypesStep == Inv /\ [Next]_vars => SenderTypes'
<1> SUFFICES ASSUME Inv, [Next]_vars PROVE SenderTypes'
  OBVIOUS
<1>1. CASE Run
  BY <1>1
  DEF Inv, Types, SenderTypes, Run, Connect, SendBig, BigIsSent, BigFails,
      StartFeedback, Connected, Heartbeat, AwaitHeartbeat, SendHeartbeat,
      TakionWaitEnds, BangWaitEnds, StreamInfoWaitEnds, IdleWaitEnds, Expected,
      FiniFeedback, MayFinishFeedback, StopFeedback, JoinFeedback,
      FeedbackJoined, Disconnect, SendDisconnect, EndOf, StopCongestion,
      JoinCongestion, Close, JoinTakion, TakionJoined, RunOnly, Enter, Send,
      FFree, Finished, WaitEnds
<1>2. CASE Takion
  BY <1>2
  DEF Inv, Types, SenderTypes, Takion, HandshakeDone, HandshakeFails,
      ConnectedEvent, DisconnectEvent, TakionEvent, Receive, Sends,
      ReceiveEnds, HandleData, DataDisconnect, DataBang, DataStreamInfo,
      DataRefused, DataUnexpected, SendControllerConnection, SendStreamInfoAck,
      HandleEffect, TakionOnly, Send, LFree
<1>3. CASE Congestion \/ Feedback \/ Stop \/ BeginUpdate \/ EndUpdate
  BY <1>3
  DEF Inv, Types, SenderTypes, Congestion, Feedback, Stop, BeginUpdate,
      EndUpdate, Others, FFree
<1>4. CASE Done \/ UNCHANGED vars
  BY <1>4
  DEF Inv, Types, SenderTypes, Done, vars
<1> QED
  BY <1>1, <1>2, <1>3, <1>4 DEF Next

\* What the Takion thread owns.
LEMMA TakionTypesStep == Inv /\ [Next]_vars => TakionTypes'
<1> SUFFICES ASSUME Inv, [Next]_vars PROVE TakionTypes'
  OBVIOUS
<1>1. CASE Run
  BY <1>1
  DEF Inv, Types, TakionTypes, Run, Connect, SendBig, BigIsSent, BigFails,
      StartFeedback, Connected, Heartbeat, AwaitHeartbeat, SendHeartbeat,
      TakionWaitEnds, BangWaitEnds, StreamInfoWaitEnds, IdleWaitEnds, Expected,
      FiniFeedback, MayFinishFeedback, StopFeedback, JoinFeedback,
      FeedbackJoined, Disconnect, SendDisconnect, EndOf, StopCongestion,
      JoinCongestion, Close, JoinTakion, TakionJoined, RunOnly, Enter, Send,
      FFree, Finished, WaitEnds
<1>2. CASE Takion
  BY <1>2
  DEF Inv, Types, TakionTypes, Datas, Takion, HandshakeDone, HandshakeFails,
      ConnectedEvent, DisconnectEvent, TakionEvent, Receive, Sends,
      ReceiveEnds, HandleData, DataDisconnect, DataBang, DataStreamInfo,
      DataRefused, DataUnexpected, SendControllerConnection, SendStreamInfoAck,
      HandleEffect, TakionOnly, Send, LFree
<1>3. CASE Congestion \/ Feedback \/ Stop \/ BeginUpdate \/ EndUpdate
  BY <1>3
  DEF Inv, Types, TakionTypes, Datas, Congestion, Feedback, Stop, BeginUpdate,
      EndUpdate, Others, FFree
<1>4. CASE Done \/ UNCHANGED vars
  BY <1>4
  DEF Inv, Types, TakionTypes, Datas, Done, vars
<1> QED
  BY <1>1, <1>2, <1>3, <1>4 DEF Next

\* The console, and what it was sent.
LEMMA ConsoleTypesStep == Inv /\ [Next]_vars => ConsoleTypes'
<1> SUFFICES ASSUME Inv, [Next]_vars PROVE ConsoleTypes'
  OBVIOUS
<1>1. CASE Run
  BY <1>1
  DEF Inv, Types, ConsoleTypes, Messages, Run, Connect, SendBig, BigIsSent,
      BigFails, StartFeedback, Connected, Heartbeat, AwaitHeartbeat,
      SendHeartbeat, TakionWaitEnds, BangWaitEnds, StreamInfoWaitEnds,
      IdleWaitEnds, Expected, FiniFeedback, MayFinishFeedback, StopFeedback,
      JoinFeedback, FeedbackJoined, Disconnect, SendDisconnect, EndOf,
      StopCongestion, JoinCongestion, Close, JoinTakion, TakionJoined, RunOnly,
      Enter, Send, FFree, Finished, WaitEnds
<1>2. CASE Takion
  BY <1>2
  DEF Inv, Types, ConsoleTypes, Messages, Takion, HandshakeDone,
      HandshakeFails, ConnectedEvent, DisconnectEvent, TakionEvent, Receive,
      Sends, ReceiveEnds, HandleData, DataDisconnect, DataBang, DataStreamInfo,
      DataRefused, DataUnexpected, SendControllerConnection, SendStreamInfoAck,
      HandleEffect, TakionOnly, Send, LFree
<1>3. CASE Congestion \/ Feedback \/ Stop \/ BeginUpdate \/ EndUpdate
  BY <1>3
  DEF Inv, Types, ConsoleTypes, Messages, Congestion, Feedback, Stop,
      BeginUpdate, EndUpdate, Others, FFree
<1>4. CASE Done \/ UNCHANGED vars
  BY <1>4
  DEF Inv, Types, ConsoleTypes, Messages, Done, vars
<1> QED
  BY <1>1, <1>2, <1>3, <1>4 DEF Next

\* Only run enters a state, and no callback finishes the state "idle".
LEMMA PhaseIsKeptStep == Inv /\ [Next]_vars => PhaseIsKept'
<1> SUFFICES ASSUME Inv, [Next]_vars PROVE PhaseIsKept'
  OBVIOUS
<1>1. CASE Run
  BY <1>1
  DEF Inv, PhaseIsKept, Run, Connect, SendBig, BigIsSent, BigFails,
      StartFeedback, Connected, Heartbeat, AwaitHeartbeat, SendHeartbeat,
      TakionWaitEnds, BangWaitEnds, StreamInfoWaitEnds, IdleWaitEnds, Expected,
      FiniFeedback, MayFinishFeedback, StopFeedback, JoinFeedback,
      FeedbackJoined, Disconnect, SendDisconnect, EndOf, StopCongestion,
      JoinCongestion, Close, JoinTakion, TakionJoined, RunOnly, Enter, Send,
      FFree, Finished, WaitEnds
<1>2. CASE Takion
  <2>1. CASE HandshakeDone \/ HandshakeFails \/ ReceiveEnds \/ HandleEffect
    BY <2>1
    DEF Inv, PhaseIsKept, HandshakeDone, HandshakeFails, ReceiveEnds,
        HandleEffect, TakionOnly
  <2>2. ASSUME NEW d \in Datas, NEW next \in {"waits", "asked", "accepted", "silent"},
               Receive(d, next)
        PROVE  PhaseIsKept'
    BY <2>2
    DEF Inv, PhaseIsKept, Receive, Sends, TakionOnly
  <2>3. CASE ConnectedEvent
    BY <2>3
    DEF Inv, PhaseIsKept, ConnectedEvent, TakionEvent, TakionOnly, LFree
  <2>4. CASE DisconnectEvent
    BY <2>4
    DEF Inv, PhaseIsKept, DisconnectEvent, TakionEvent, TakionOnly, LFree
  <2>5. CASE HandleData /\ DataDisconnect
    BY <2>5
    DEF Inv, PhaseIsKept, HandleData, TakionOnly, LFree, DataDisconnect
  <2>6. CASE HandleData /\ DataBang
    BY <2>6
    DEF Inv, PhaseIsKept, HandleData, TakionOnly, LFree, DataBang,
        SendControllerConnection, Send
  <2>7. CASE HandleData /\ DataStreamInfo
    BY <2>7
    DEF Inv, PhaseIsKept, HandleData, TakionOnly, LFree, DataStreamInfo,
        SendStreamInfoAck, Send
  <2>8. CASE HandleData /\ DataRefused
    BY <2>8
    DEF Inv, PhaseIsKept, HandleData, TakionOnly, LFree, DataRefused
  <2>9. CASE HandleData /\ DataUnexpected
    BY <2>9
    DEF Inv, PhaseIsKept, HandleData, TakionOnly, LFree, DataUnexpected
  <2> QED
    BY <1>2, <2>1, <2>2, <2>3, <2>4, <2>5, <2>6, <2>7, <2>8, <2>9
    DEF Takion, HandleData
<1>3. CASE Congestion \/ Feedback \/ Stop \/ BeginUpdate \/ EndUpdate
  BY <1>3
  DEF Inv, PhaseIsKept, Congestion, Feedback, Stop, BeginUpdate, EndUpdate,
      Others, FFree
<1>4. CASE Done \/ UNCHANGED vars
  BY <1>4
  DEF Inv, PhaseIsKept, Done, vars
<1> QED
  BY <1>1, <1>2, <1>3, <1>4 DEF Next

\* A message goes out, and an answer comes in, after what it belongs to.
LEMMA MessagesInOrderStep == Inv /\ [Next]_vars => MessagesInOrder'
<1> SUFFICES ASSUME Inv, [Next]_vars PROVE MessagesInOrder'
  OBVIOUS
<1>1. CASE Run
  BY <1>1
  DEF Inv, MessagesInOrder, AnswersAreOwn, LeavesForReason, Told, Run, Connect,
      SendBig, BigIsSent, BigFails, StartFeedback, Connected, Heartbeat,
      AwaitHeartbeat, SendHeartbeat, TakionWaitEnds, BangWaitEnds,
      StreamInfoWaitEnds, IdleWaitEnds, Expected, FiniFeedback,
      MayFinishFeedback, StopFeedback, JoinFeedback, FeedbackJoined,
      Disconnect, SendDisconnect, EndOf, StopCongestion, JoinCongestion, Close,
      JoinTakion, TakionJoined, RunOnly, Enter, Send, FFree, Finished, WaitEnds
<1>2. CASE Takion
  BY <1>2
  DEF Inv, MessagesInOrder, AnswersAreOwn, LeavesForReason, Told, Takion,
      HandshakeDone, HandshakeFails, ConnectedEvent, DisconnectEvent,
      TakionEvent, Receive, Sends, ReceiveEnds, HandleData, DataDisconnect,
      DataBang, DataStreamInfo, DataRefused, DataUnexpected,
      SendControllerConnection, SendStreamInfoAck, HandleEffect, TakionOnly,
      Send, LFree
<1>3. CASE Congestion \/ Feedback \/ Stop \/ BeginUpdate \/ EndUpdate
  BY <1>3
  DEF Inv, MessagesInOrder, AnswersAreOwn, LeavesForReason, Told, Congestion,
      Feedback, Stop, BeginUpdate, EndUpdate, Others, FFree
<1>4. CASE Done \/ UNCHANGED vars
  BY <1>4
  DEF Inv, MessagesInOrder, Told, Done, vars
<1> QED
  BY <1>1, <1>2, <1>3, <1>4 DEF Next

\* Entering a state forgets that the one before was finished; a callback
\* finishes only the state its message belongs to.
LEMMA AnswersAreOwnStep == Inv /\ [Next]_vars => AnswersAreOwn'
<1> SUFFICES ASSUME Inv, [Next]_vars PROVE AnswersAreOwn'
  OBVIOUS
<1>1. CASE Run
  BY <1>1
  DEF Inv, AnswersAreOwn, PhaseIsKept, MessagesInOrder, Lifetimes, Told,
      Before, Run, Connect, SendBig, BigIsSent, BigFails, StartFeedback,
      Connected, Heartbeat, AwaitHeartbeat, SendHeartbeat, TakionWaitEnds,
      BangWaitEnds, StreamInfoWaitEnds, IdleWaitEnds, Expected, FiniFeedback,
      MayFinishFeedback, StopFeedback, JoinFeedback, FeedbackJoined,
      Disconnect, SendDisconnect, EndOf, StopCongestion, JoinCongestion, Close,
      JoinTakion, TakionJoined, RunOnly, Enter, Send, FFree, Finished, WaitEnds
<1>2. CASE Takion
  <2>1. CASE HandshakeDone \/ HandshakeFails \/ ReceiveEnds \/ HandleEffect
    BY <2>1
    DEF Inv, AnswersAreOwn, PhaseIsKept, MessagesInOrder, Lifetimes, Told,
        HandshakeDone, HandshakeFails, ReceiveEnds, HandleEffect, TakionOnly
  <2>2. ASSUME NEW d \in Datas, NEW next \in {"waits", "asked", "accepted", "silent"},
               Receive(d, next)
        PROVE  AnswersAreOwn'
    BY <2>2
    DEF Inv, AnswersAreOwn, PhaseIsKept, MessagesInOrder, Lifetimes, Told,
        Receive, Sends, TakionOnly
  <2>3. CASE ConnectedEvent
    BY <2>3
    DEF Inv, AnswersAreOwn, PhaseIsKept, MessagesInOrder, Lifetimes, Told,
        ConnectedEvent, TakionEvent, TakionOnly, LFree
  <2>4. CASE DisconnectEvent
    BY <2>4
    DEF Inv, AnswersAreOwn, PhaseIsKept, MessagesInOrder, Lifetimes, Told,
        DisconnectEvent, TakionEvent, TakionOnly, LFree
  <2>5. CASE HandleData /\ DataDisconnect
    BY <2>5
    DEF Inv, AnswersAreOwn, PhaseIsKept, MessagesInOrder, Lifetimes, Told,
        HandleData, TakionOnly, LFree, DataDisconnect
  <2>6. CASE HandleData /\ DataBang
    BY <2>6
    DEF Inv, AnswersAreOwn, PhaseIsKept, MessagesInOrder, Lifetimes, Told,
        HandleData, TakionOnly, LFree, DataBang, SendControllerConnection, Send
  <2>7. CASE HandleData /\ DataStreamInfo
    BY <2>7
    DEF Inv, AnswersAreOwn, PhaseIsKept, MessagesInOrder, Lifetimes, Told,
        HandleData, TakionOnly, LFree, DataStreamInfo, SendStreamInfoAck, Send
  <2>8. CASE HandleData /\ DataRefused
    BY <2>8
    DEF Inv, AnswersAreOwn, PhaseIsKept, MessagesInOrder, Lifetimes, Told,
        HandleData, TakionOnly, LFree, DataRefused
  <2>9. CASE HandleData /\ DataUnexpected
    BY <2>9
    DEF Inv, AnswersAreOwn, PhaseIsKept, MessagesInOrder, Lifetimes, Told,
        HandleData, TakionOnly, LFree, DataUnexpected
  <2> QED
    BY <1>2, <2>1, <2>2, <2>3, <2>4, <2>5, <2>6, <2>7, <2>8, <2>9
    DEF Takion, HandleData
<1>3. CASE Congestion \/ Feedback \/ Stop \/ BeginUpdate \/ EndUpdate
  BY <1>3
  DEF Inv, AnswersAreOwn, PhaseIsKept, MessagesInOrder, Lifetimes, Told,
      Congestion, Feedback, Stop, BeginUpdate, EndUpdate, Others, FFree
<1>4. CASE Done \/ UNCHANGED vars
  BY <1>4
  DEF Inv, AnswersAreOwn, Told, Done, vars
<1> QED
  BY <1>1, <1>2, <1>3, <1>4 DEF Next

\* run leaves on an error, a stop or a disconnect, and says which.
LEMMA LeavesForReasonStep == Inv /\ [Next]_vars => LeavesForReason'
<1> SUFFICES ASSUME Inv, [Next]_vars PROVE LeavesForReason'
  OBVIOUS
<1>1. CASE Run
  BY <1>1
  DEF Inv, LeavesForReason, PhaseIsKept, MessagesInOrder, Types, RunTypes,
      Told, Leaving, WaitResults, Run, Connect, SendBig, BigIsSent, BigFails,
      StartFeedback, Connected, Heartbeat, AwaitHeartbeat, SendHeartbeat,
      TakionWaitEnds, BangWaitEnds, StreamInfoWaitEnds, IdleWaitEnds, Expected,
      FiniFeedback, MayFinishFeedback, StopFeedback, JoinFeedback,
      FeedbackJoined, Disconnect, SendDisconnect, EndOf, StopCongestion,
      JoinCongestion, Close, JoinTakion, TakionJoined, RunOnly, Enter, Send,
      FFree, Finished, WaitEnds
<1>2. CASE Takion
  <2>1. CASE HandshakeDone \/ HandshakeFails \/ ReceiveEnds \/ HandleEffect
    BY <2>1
    DEF Inv, LeavesForReason, PhaseIsKept, MessagesInOrder, Types, RunTypes,
        Told, Leaving, HandshakeDone, HandshakeFails, ReceiveEnds, HandleEffect,
        TakionOnly
  <2>2. ASSUME NEW d \in Datas, NEW next \in {"waits", "asked", "accepted", "silent"},
               Receive(d, next)
        PROVE  LeavesForReason'
    BY <2>2
    DEF Inv, LeavesForReason, PhaseIsKept, MessagesInOrder, Types, RunTypes,
        Told, Leaving, Receive, Sends, TakionOnly
  <2>3. CASE ConnectedEvent
    BY <2>3
    DEF Inv, LeavesForReason, PhaseIsKept, MessagesInOrder, Types, RunTypes,
        Told, Leaving, ConnectedEvent, TakionEvent, TakionOnly, LFree
  <2>4. CASE DisconnectEvent
    BY <2>4
    DEF Inv, LeavesForReason, PhaseIsKept, MessagesInOrder, Types, RunTypes,
        Told, Leaving, DisconnectEvent, TakionEvent, TakionOnly, LFree
  <2>5. CASE HandleData /\ DataDisconnect
    BY <2>5
    DEF Inv, LeavesForReason, PhaseIsKept, MessagesInOrder, Types, RunTypes,
        Told, Leaving, HandleData, TakionOnly, LFree, DataDisconnect
  <2>6. CASE HandleData /\ DataBang
    BY <2>6
    DEF Inv, LeavesForReason, PhaseIsKept, MessagesInOrder, Types, RunTypes,
        Told, Leaving, HandleData, TakionOnly, LFree, DataBang,
        SendControllerConnection, Send
  <2>7. CASE HandleData /\ DataStreamInfo
    BY <2>7
    DEF Inv, LeavesForReason, PhaseIsKept, MessagesInOrder, Types, RunTypes,
        Told, Leaving, HandleData, TakionOnly, LFree, DataStreamInfo,
        SendStreamInfoAck, Send
  <2>8. CASE HandleData /\ DataRefused
    BY <2>8
    DEF Inv, LeavesForReason, PhaseIsKept, MessagesInOrder, Types, RunTypes,
        Told, Leaving, HandleData, TakionOnly, LFree, DataRefused
  <2>9. CASE HandleData /\ DataUnexpected
    BY <2>9
    DEF Inv, LeavesForReason, PhaseIsKept, MessagesInOrder, Types, RunTypes,
        Told, Leaving, HandleData, TakionOnly, LFree, DataUnexpected
  <2> QED
    BY <1>2, <2>1, <2>2, <2>3, <2>4, <2>5, <2>6, <2>7, <2>8, <2>9
    DEF Takion, HandleData
<1>3. CASE Congestion \/ Feedback \/ Stop \/ BeginUpdate \/ EndUpdate
  BY <1>3
  DEF Inv, LeavesForReason, PhaseIsKept, MessagesInOrder, Types, RunTypes,
      Told, Leaving, Congestion, Feedback, Stop, BeginUpdate, EndUpdate,
      Others, FFree
<1>4. CASE Done \/ UNCHANGED vars
  BY <1>4
  DEF Inv, LeavesForReason, Told, Leaving, Done, vars
<1> QED
  BY <1>1, <1>2, <1>3, <1>4 DEF Next

\* The feedback sender lives from "feedback" to "join_feedback", the Takion
\* thread from "start" to "join_takion".
LEMMA LifetimesStep == Inv /\ [Next]_vars => Lifetimes'
<1> SUFFICES ASSUME Inv, [Next]_vars PROVE Lifetimes'
  OBVIOUS
<1>1. CASE Run
  BY <1>1
  DEF Inv, Lifetimes, Types, SenderTypes, Before, Leaving, Run, Connect,
      SendBig, BigIsSent, BigFails, StartFeedback, Connected, Heartbeat,
      AwaitHeartbeat, SendHeartbeat, TakionWaitEnds, BangWaitEnds,
      StreamInfoWaitEnds, IdleWaitEnds, Expected, FiniFeedback,
      MayFinishFeedback, StopFeedback, JoinFeedback, FeedbackJoined,
      Disconnect, SendDisconnect, EndOf, StopCongestion, JoinCongestion, Close,
      JoinTakion, TakionJoined, RunOnly, Enter, Send, FFree, Finished, WaitEnds
<1>2. CASE Takion
  <2>1. CASE HandshakeDone \/ HandshakeFails \/ ReceiveEnds \/ HandleEffect
    BY <2>1
    DEF Inv, Lifetimes, Types, SenderTypes, Before, Leaving, HandshakeDone,
        HandshakeFails, ReceiveEnds, HandleEffect, TakionOnly
  <2>2. ASSUME NEW d \in Datas, NEW next \in {"waits", "asked", "accepted", "silent"},
               Receive(d, next)
        PROVE  Lifetimes'
    BY <2>2
    DEF Inv, Lifetimes, Types, SenderTypes, Before, Leaving, Receive, Sends,
        TakionOnly
  <2>3. CASE ConnectedEvent
    BY <2>3
    DEF Inv, Lifetimes, Types, SenderTypes, Before, Leaving, ConnectedEvent,
        TakionEvent, TakionOnly, LFree
  <2>4. CASE DisconnectEvent
    BY <2>4
    DEF Inv, Lifetimes, Types, SenderTypes, Before, Leaving, DisconnectEvent,
        TakionEvent, TakionOnly, LFree
  <2>5. CASE HandleData /\ DataDisconnect
    BY <2>5
    DEF Inv, Lifetimes, Types, SenderTypes, Before, Leaving, HandleData,
        TakionOnly, LFree, DataDisconnect
  <2>6. CASE HandleData /\ DataBang
    BY <2>6
    DEF Inv, Lifetimes, Types, SenderTypes, Before, Leaving, HandleData,
        TakionOnly, LFree, DataBang, SendControllerConnection, Send
  <2>7. CASE HandleData /\ DataStreamInfo
    BY <2>7
    DEF Inv, Lifetimes, Types, SenderTypes, Before, Leaving, HandleData,
        TakionOnly, LFree, DataStreamInfo, SendStreamInfoAck, Send
  <2>8. CASE HandleData /\ DataRefused
    BY <2>8
    DEF Inv, Lifetimes, Types, SenderTypes, Before, Leaving, HandleData,
        TakionOnly, LFree, DataRefused
  <2>9. CASE HandleData /\ DataUnexpected
    BY <2>9
    DEF Inv, Lifetimes, Types, SenderTypes, Before, Leaving, HandleData,
        TakionOnly, LFree, DataUnexpected
  <2> QED
    BY <1>2, <2>1, <2>2, <2>3, <2>4, <2>5, <2>6, <2>7, <2>8, <2>9
    DEF Takion, HandleData
<1>3. CASE Congestion \/ Feedback \/ Stop \/ BeginUpdate \/ EndUpdate
  BY <1>3
  DEF Inv, Lifetimes, Types, SenderTypes, Before, Leaving, Congestion,
      Feedback, Stop, BeginUpdate, EndUpdate, Others, FFree
<1>4. CASE Done \/ UNCHANGED vars
  BY <1>4
  DEF Inv, Lifetimes, Before, Leaving, Done, vars
<1> QED
  BY <1>1, <1>2, <1>3, <1>4 DEF Next

-----------------------------------------------------------------------------
(* Theorems *)

\* The invariant holds in every state.
THEOREM Invariant == Spec => []Inv
<1>1. Inv /\ [Next]_vars => Inv'
  BY RunTypesStep, FlagTypesStep, SenderTypesStep, TakionTypesStep, ConsoleTypesStep,
     PhaseIsKeptStep, MessagesInOrderStep, AnswersAreOwnStep,
     LeavesForReasonStep, LifetimesStep DEF Inv, Types
<1> QED
  BY <1>1, InvInit, PTL DEF Spec

\* run returns SUCCESS and CANCELED only after a stop, DISCONNECTED only after
\* the console disconnected, and a console that was asked for a stream is told
\* that it ends (streamconnection.c:340-385).
THEOREM EndExplained == Spec => []EndIsExplained
<1>1. Inv => EndIsExplained
  BY TypesAre DEF Inv, LeavesForReason, Leaving, Told, EndIsExplained
<1> QED
  BY <1>1, Invariant, PTL

\* CONNECTED and the feedback sender come only after an accepted BANG and a
\* STREAMINFO, and the console is sent BIG, CONTROLLERCONNECTION, STREAMINFOACK
\* and heartbeats in this order only (streamconnection.c:248-340, :560-770).
THEOREM ConnectedComplete == Spec => []ConnectedIsComplete
<1>1. Inv => ConnectedIsComplete
  BY DEF Inv, AnswersAreOwn, MessagesInOrder, Told, ConnectedIsComplete
<1> QED
  BY <1>1, Invariant, PTL

\* A user who updates the controller state finds a feedback sender that is
\* alive; its thread ends before Takion is closed, and the Takion thread before
\* run returns (streamconnection.c:340-385).
THEOREM EndInOrder == Spec => []ThreadsEndFirst
<1>1. Inv => ThreadsEndFirst
  BY DEF Inv, Lifetimes, Leaving, ThreadsEndFirst, UpdateHasSender,
         FeedbackEndsFirst, TakionEndsFirst
<1> QED
  BY <1>1, Invariant, PTL

-----------------------------------------------------------------------------
(* Input: induction, and functions defined by recursion                    *)

\* The numbers up to k are a proper subset of those up to m.
LEMMA Below ==
  ASSUME NEW k \in Nat, NEW m \in Nat, k < m
  PROVE  <<0 .. k, 0 .. m>> \in StrictSubsetOrdering(Nat)
<1>1. 0 .. k \subseteq 0 .. m /\ 0 .. k # 0 .. m
  <2>1. m \in 0 .. m /\ m \notin 0 .. k
    OBVIOUS
  <2> QED
    BY <2>1
<1>2. <<0 .. k, 0 .. m>> \in (SUBSET Nat) \X (SUBSET Nat)
  OBVIOUS
<1> DEFINE p == <<0 .. k, 0 .. m>>
<1>3. p[1] = 0 .. k /\ p[2] = 0 .. m
  OBVIOUS
<1> QED
  BY <1>1, <1>2, <1>3, Zenon DEF StrictSubsetOrdering

\* A set of natural numbers has a least element.
LEMMA LeastExists ==
  ASSUME NEW S \in SUBSET Nat, S # {}
  PROVE  \E m \in S : \A k \in S : m <= k
<1> DEFINE R == StrictSubsetOrdering(Nat)
           T == {0 .. n : n \in S}
<1>1. IsWellFoundedOn(R, FiniteSubsetsOf(Nat))
  BY FS_StrictSubsetOrderingWellFounded
<1>2. T \subseteq FiniteSubsetsOf(Nat)
  <2>1. ASSUME NEW n \in S PROVE 0 .. n \in FiniteSubsetsOf(Nat)
    <3>1. n \in Int /\ 0 \in Int /\ 0 .. n \in SUBSET Nat
      OBVIOUS
    <3>2. IsFiniteSet(0 .. n)
      BY <3>1, FS_Interval
    <3> QED
      BY <3>1, <3>2, Zenon DEF FiniteSubsetsOf
  <2> HIDE DEF R
  <2> QED
    BY <2>1, Zenon DEF T
<1>3. T # {}
  BY Zenon
<1> HIDE DEF T, R
<1>4. \E x \in T : \A y \in T : <<y, x>> \notin R
  BY <1>1, <1>2, <1>3, WFMin, Zenon
<1>5. PICK m \in S : \A k \in S : <<0 .. k, 0 .. m>> \notin R
  BY <1>4, Zenon DEF T
<1>6. ASSUME NEW k \in S, k < m PROVE FALSE
  BY <1>5, <1>6, Below DEF R
<1> QED
  BY <1>5, <1>6

\* What holds at 0, and from each number at the next one, holds up to N.
LEMMA Induct ==
  ASSUME NEW N \in Nat, NEW S, 0 \in S, \A n \in 1 .. N : n - 1 \in S => n \in S
  PROVE  \A n \in 0 .. N : n \in S
<1> SUFFICES ASSUME NEW k \in 0 .. N, k \notin S PROVE FALSE
  OBVIOUS
<1> DEFINE B == {n \in 0 .. N : n \notin S}
<1>1. B \subseteq Nat /\ B # {}
  OBVIOUS
<1>2. PICK m \in B : \A j \in B : m <= j
  BY <1>1, LeastExists
<1>3. m # 0 /\ m \in 1 .. N /\ m - 1 \in 0 .. N
  BY <1>2
<1>4. m - 1 \in S
  BY <1>2, <1>3
<1> QED
  BY <1>2, <1>3, <1>4

\* A value for each step, from the value before.
Recurs(f, N, D, base, h) ==
  f \in [0 .. N -> D] /\ f[0] = base /\ \A k \in 1 .. N : f[k] = h[<<f[k - 1], k>>]

\* There is one.
LEMMA Recursion ==
  ASSUME NEW N \in Nat, NEW D, NEW base \in D, NEW h \in [D \X (1 .. N) -> D]
  PROVE  \E f : Recurs(f, N, D, base, h)
<1> DEFINE Good(m) == \E f \in [0 .. m -> D] :
                        f[0] = base /\ \A k \in 1 .. m : f[k] = h[<<f[k - 1], k>>]
           S == {m \in 0 .. N : Good(m)}
<1>1. 0 \in S
  <2> DEFINE f == [x \in 0 .. 0 |-> base]
  <2>1. f \in [0 .. 0 -> D] /\ f[0] = base /\ \A k \in 1 .. 0 : f[k] = h[<<f[k - 1], k>>]
    OBVIOUS
  <2> HIDE DEF f
  <2>2. Good(0)
    BY <2>1
  <2> QED
    BY <2>2
<1>2. ASSUME NEW n \in 1 .. N, n - 1 \in S PROVE n \in S
  <2>1. PICK f \in [0 .. n - 1 -> D] :
          f[0] = base /\ \A k \in 1 .. n - 1 : f[k] = h[<<f[k - 1], k>>]
    BY <1>2
  <2> DEFINE g == [k \in 0 .. n |-> IF k = n THEN h[<<f[n - 1], n>>] ELSE f[k]]
  <2>2. n - 1 \in 0 .. n - 1 /\ f[n - 1] \in D
    OBVIOUS
  <2>3. h[<<f[n - 1], n>>] \in D
    BY <2>2
  <2>4. g \in [0 .. n -> D]
    BY <2>3
  <2>5. g[0] = base
    BY <2>1
  <2>6. ASSUME NEW k \in 1 .. n PROVE g[k] = h[<<g[k - 1], k>>]
    <3>1. g[k - 1] = f[k - 1]
      OBVIOUS
    <3>2. CASE k = n
      BY <3>1, <3>2
    <3>3. CASE k # n
      <4>1. k \in 1 .. n - 1 /\ g[k] = f[k]
        BY <3>3
      <4> QED
        BY <2>1, <3>1, <4>1
    <3> QED
      BY <3>2, <3>3
  <2> HIDE DEF g
  <2>7. Good(n)
    BY <2>4, <2>5, <2>6
  <2> QED
    BY <2>7
<1> HIDE DEF Good
<1>3. \A n \in 0 .. N : n \in S
  BY <1>1, <1>2, Induct
<1>4. Good(N)
  BY <1>3
<1> QED
  BY <1>4 DEF Good, Recurs

\* What a concatenation consists of.
Chain(s, a, b, E) ==
  /\ s \in Seq(E) /\ Len(s) = Len(a) + Len(b)
  /\ \A i \in 1 .. Len(a) : s[i] = a[i]
  /\ \A i \in 1 .. Len(b) : s[Len(a) + i] = b[i]
  /\ Range(s) = Range(a) \cup Range(b)

\* Two sequences together, by their parts.
LEMMA BothRange ==
  ASSUME NEW E, NEW a \in Seq(E), NEW b \in Seq(E)
  PROVE  Chain(a \o b, a, b, E)
<1>1. a \o b \in Seq(E) /\ Len(a \o b) = Len(a) + Len(b)
  BY ConcatProperties
<1>2. \A i \in 1 .. Len(a) + Len(b) :
        (a \o b)[i] = IF i <= Len(a) THEN a[i] ELSE b[i - Len(a)]
  BY ConcatProperties
<1>3. PICK m \in Nat, n \in Nat : m = Len(a) /\ n = Len(b)
  OBVIOUS
<1>4. DOMAIN a = 1 .. m /\ DOMAIN b = 1 .. n /\ DOMAIN (a \o b) = 1 .. m + n
  BY <1>1, <1>3
<1>5. ASSUME NEW i \in 1 .. m PROVE (a \o b)[i] = a[i] /\ i \in 1 .. m + n
  BY <1>2, <1>3
<1>6. ASSUME NEW i \in 1 .. n PROVE (a \o b)[m + i] = b[i] /\ m + i \in 1 .. m + n
  <2>1. m + i \in 1 .. m + n /\ ~(m + i <= m) /\ (m + i) - m = i
    OBVIOUS
  <2> QED
    BY <1>2, <1>3, <2>1
<1>7. ASSUME NEW i \in 1 .. m + n, i \notin 1 .. m PROVE \E k \in 1 .. n : i = m + k
  <2>1. i - m \in 1 .. n /\ i = m + (i - m)
    BY <1>7
  <2> QED
    BY <2>1
<1>8. Range(a \o b) = Range(a) \cup Range(b)
  <2>1. ASSUME NEW x \in Range(a \o b) PROVE x \in Range(a) \cup Range(b)
    <3>1. PICK i \in 1 .. m + n : x = (a \o b)[i]
      BY <1>4, <2>1 DEF Range
    <3>2. CASE i \in 1 .. m
      BY <1>4, <1>5, <3>1, <3>2 DEF Range
    <3>3. CASE i \notin 1 .. m
      BY <1>4, <1>6, <1>7, <3>1, <3>3 DEF Range
    <3> QED
      BY <3>2, <3>3
  <2>2. ASSUME NEW x \in Range(a) PROVE x \in Range(a \o b)
    BY <1>4, <1>5, <2>2 DEF Range
  <2>3. ASSUME NEW x \in Range(b) PROVE x \in Range(a \o b)
    BY <1>4, <1>6, <2>3 DEF Range
  <2> QED
    BY <2>1, <2>2, <2>3
<1> QED
  BY <1>1, <1>3, <1>5, <1>6, <1>8 DEF Chain

\* FlattenSeq appends one sequence after the other.
Flattens(f, ss, E) ==
  /\ f \in [0 .. Len(ss) -> Seq(E)] /\ f[0] = <<>> /\ f[Len(ss)] = FlattenSeq(ss)
  /\ \A k \in 1 .. Len(ss) : f[k] = f[k - 1] \o ss[k]

\* Such a chain of sums exists for every sequence of sequences.
LEMMA FlattenIs ==
  ASSUME NEW E, NEW ss \in Seq(Seq(E))
  PROVE  \E f : Flattens(f, ss, E)
<1>1. PICK N \in Nat : N = Len(ss)
  OBVIOUS
<1> DEFINE h == [x \in Seq(E) \X (1 .. N) |-> x[1] \o ss[x[2]]]
<1>2. \A q \in Seq(E), k \in 1 .. N : h[<<q, k>>] = q \o ss[k]
  OBVIOUS
<1>3. h \in [Seq(E) \X (1 .. N) -> Seq(E)]
  <2>1. ASSUME NEW x \in Seq(E) \X (1 .. N) PROVE x[1] \o ss[x[2]] \in Seq(E)
    <3>1. x[1] \in Seq(E) /\ ss[x[2]] \in Seq(E)
      BY <1>1
    <3> QED
      BY <3>1, ConcatProperties
  <2> QED
    BY <2>1
<1>4. <<>> \in Seq(E)
  OBVIOUS
<1> HIDE DEF h
<1>5. PICK f \in [0 .. N -> Seq(E)] : f[0] = <<>> /\ \A k \in 1 .. N : f[k] = h[<<f[k - 1], k>>]
  <2>1. PICK D, base : D = Seq(E) /\ base = <<>>
    OBVIOUS
  <2>2. h \in [D \X (1 .. N) -> D] /\ base \in D
    BY <1>3, <1>4, <2>1
  <2>3. \E f : Recurs(f, N, D, base, h)
    BY <1>1, <2>2, Recursion
  <2> QED
    BY <2>1, <2>3 DEF Recurs
<1>6. ASSUME NEW k \in 1 .. N PROVE f[k - 1] \in Seq(E) /\ f[k] = f[k - 1] \o ss[k]
  <2>1. k - 1 \in 0 .. N
    OBVIOUS
  <2> QED
    BY <1>2, <1>5, <2>1
<1>9. N # 0 => f[1] = ss[1]
  <2>1. ASSUME N # 0 PROVE f[1] = <<>> \o ss[1] /\ ss[1] \in Seq(E)
    <3>1. 1 \in 1 .. N /\ 1 - 1 = 0
      BY <2>1
    <3>2. ss[1] \in Seq(E)
      BY <1>1, <3>1
    <3> QED
      BY <1>5, <1>6, <3>1, <3>2
  <2> QED
    BY <2>1
<1>7. CASE N = 0
  <2>1. ss = <<>>
    BY <1>1, <1>7, EmptySeq
  <2>2. FlattenSeq(ss) = ss
    BY <1>1, <1>7 DEF FlattenSeq
  <2> QED
    BY <1>1, <1>5, <1>6, <1>7, <2>1, <2>2 DEF Flattens
<1>8. CASE N # 0
  <2> DEFINE Flat(g) == g = [i \in 1 .. N |-> IF i = 1 THEN ss[i] ELSE g[i - 1] \o ss[i]]
             c == CHOOSE g : Flat(g)
  <2>1. Flat([k \in 1 .. N |-> f[k]])
    <3> DEFINE g == [k \in 1 .. N |-> f[k]]
    <3>1. ASSUME NEW i \in 1 .. N PROVE f[i] = IF i = 1 THEN ss[i] ELSE g[i - 1] \o ss[i]
      <4>1. CASE i = 1
        BY <1>9, <4>1
      <4>2. CASE i # 1
        <5>1. i - 1 \in 1 .. N
          BY <4>2
        <5>2. g[i - 1] = f[i - 1]
          BY <5>1
        <5> QED
          BY <1>6, <4>2, <5>2
      <4> QED
        BY <4>1, <4>2
    <3> QED
      BY <3>1
  <2>2. Flat(c)
    BY <2>1
  <2>3. FlattenSeq(ss) = c[N]
    BY <1>1, <1>8 DEF FlattenSeq
  <2> HIDE DEF c
  <2>4. \A i \in 1 .. N : c[i] = IF i = 1 THEN ss[i] ELSE c[i - 1] \o ss[i]
    BY <2>2
  <2> DEFINE S == {i \in 0 .. N : i = 0 \/ c[i] = f[i]}
  <2>5. 0 \in S
    OBVIOUS
  <2>6. ASSUME NEW i \in 1 .. N, i - 1 \in S PROVE i \in S
    <3>1. CASE i = 1
      BY <1>9, <2>4, <3>1
    <3>2. CASE i # 1
      <4>1. c[i - 1] = f[i - 1]
        BY <2>6, <3>2
      <4>2. c[i] = c[i - 1] \o ss[i]
        BY <2>4, <3>2
      <4> QED
        <5>1. c[i] = f[i]
          BY <1>6, <4>1, <4>2, Zenon
        <5> QED
          BY <5>1
    <3> QED
      BY <3>1, <3>2
  <2> HIDE DEF Flat
  <2>7. \A n \in 0 .. N : n \in S
    <3> HIDE DEF S
    <3> QED
      BY <2>5, <2>6, Induct
  <2>8. c[N] = f[N]
    BY <1>8, <2>7
  <2> QED
    BY <1>1, <1>5, <1>6, <2>3, <2>8 DEF Flattens
<1> QED
  BY <1>7, <1>8

\* It consists of what they consist of.
LEMMA FlattenRange ==
  ASSUME NEW E, NEW ss \in Seq(Seq(E))
  PROVE  /\ FlattenSeq(ss) \in Seq(E)
         /\ Range(FlattenSeq(ss)) = UNION {Range(ss[i]) : i \in 1 .. Len(ss)}
<1>1. PICK f : Flattens(f, ss, E)
  BY FlattenIs
<1>2. PICK N \in Nat : N = Len(ss)
  OBVIOUS
<1> DEFINE S == {n \in 0 .. N : Range(f[n]) = UNION {Range(ss[i]) : i \in 1 .. n}}
<1>3. 0 \in S
  BY <1>1 DEF Flattens, Range
<1>4. ASSUME NEW n \in 1 .. N, n - 1 \in S PROVE n \in S
  <2>1. n - 1 \in 0 .. N /\ ss[n] \in Seq(E)
    BY <1>2
  <2>3. f[n - 1] \in Seq(E) /\ f[n] = f[n - 1] \o ss[n]
    BY <1>1, <1>2, <2>1 DEF Flattens
  <2>2. Range(f[n]) = Range(f[n - 1]) \cup Range(ss[n])
    BY <2>1, <2>3, BothRange DEF Chain
  <2>4. 1 .. n = (1 .. n - 1) \cup {n}
    OBVIOUS
  <2> QED
    BY <1>4, <2>2, <2>4
<1> HIDE DEF S
<1>5. \A n \in 0 .. N : n \in S
  BY <1>3, <1>4, Induct
<1>6. N \in S
  BY <1>5
<1> QED
  BY <1>1, <1>2, <1>6 DEF S, Flattens

-----------------------------------------------------------------------------
(* The history                                                             *)

Marked == {"cross", "touchpad"}
Touches == [id : Int, pos : Nat]
States ==
  [buttons : SUBSET Marked, l2 : {0, 255}, stick : {-1, 0}, next : Nat, touches : [Slots -> Touches]]

\* The events that a difference of two states makes.
ButtonMarks == [kind : {"button"}, what : Range(Order), value : {0, 255}]
TriggerMarks == [kind : {"trigger"}, what : {"l2"}, value : {0, 255}]
TouchMarks == [kind : {"down", "up"}, what : Nat, value : Nat]
FeedbackEvents == ButtonMarks \cup TriggerMarks \cup TouchMarks

Rings ==
  [events : [0 .. HistorySize - 1 -> FeedbackEvents], begin : 0 .. HistorySize - 1,
   len : 0 .. HistorySize]

\* The ring holds the newest of the first k events of a log, backwards.
Latest(r, l, k) ==
  /\ r.len = (IF k < HistorySize THEN k ELSE HistorySize)
  /\ \A i \in 1 .. r.len : r.events[(r.begin + i - 1) % HistorySize] = l[k + 1 - i]

\* The remainder of what is less than twice n.
LEMMA ModIs ==
  ASSUME NEW n \in Nat \ {0}, NEW x \in 0 .. 2 * n - 1
  PROVE  x % n = IF x < n THEN x ELSE x - n
<1>1. CASE x < n
  BY <1>1
<1>2. CASE ~(x < n)
  <2>1. x - n \in 0 .. n - 1 /\ x = (x - n) + n
    BY <1>2
  <2>2. PICK y \in 0 .. n - 1 : y = x - n
    BY <2>1
  <2>3. x = y + n * 1
    BY <2>2
  <2>4. (y + n * 1) % n = y
    BY <2>2
  <2> QED
    BY <1>2, <2>2, <2>3, <2>4
<1> QED
  BY <1>1, <1>2

\* Pushing one.
LEMMA PushIs ==
  ASSUME NEW r \in Rings, NEW e \in FeedbackEvents
  PROVE  /\ Push(r, e) \in Rings
         /\ \A l : \A k \in Nat : Latest(r, l, k) /\ l[k + 1] = e => Latest(Push(r, e), l, k + 1)
<1>1. PICK n \in Nat \ {0} : n = HistorySize
  BY FeedbackAssumption
<1>2. PICK b \in 0 .. n - 1, m \in 0 .. n, ee \in [0 .. n - 1 -> FeedbackEvents] :
        r = [events |-> ee, begin |-> b, len |-> m]
  BY <1>1 DEF Rings
<1>3. PICK c \in 0 .. n - 1 : c = IF b = 0 THEN n - 1 ELSE b - 1
  OBVIOUS
<1>4. (b + n - 1) % n = c
  <2>1. b + n - 1 \in 0 .. 2 * n - 1
    OBVIOUS
  <2>2. (b + n - 1) % n = IF b + n - 1 < n THEN b + n - 1 ELSE b + n - 1 - n
    <3>1. PICK x \in 0 .. 2 * n - 1 : x = b + n - 1
      BY <2>1
    <3>2. x % n = IF x < n THEN x ELSE x - n
      BY ModIs
    <3> QED
      BY <3>1, <3>2
  <2> QED
    BY <1>3, <2>2
<1>5. Push(r, e) = [events |-> [ee EXCEPT ![c] = e], begin |-> c,
                    len |-> IF m + 1 >= n THEN n ELSE m + 1]
  BY <1>1, <1>2, <1>4 DEF Push
<1>6. Push(r, e) \in Rings
  BY <1>1, <1>5 DEF Rings
<1> SUFFICES ASSUME NEW l, NEW k \in Nat, Latest(r, l, k), l[k + 1] = e
             PROVE  Latest(Push(r, e), l, k + 1)
  BY <1>6
<1>8. m = (IF k < n THEN k ELSE n) /\ \A i \in 1 .. m : ee[(b + i - 1) % n] = l[k + 1 - i]
  BY <1>1, <1>2 DEF Latest
<1> DEFINE mm == IF m + 1 >= n THEN n ELSE m + 1
<1>9. mm \in 1 .. n /\ mm = (IF k + 1 < n THEN k + 1 ELSE n)
  BY <1>8
<1>10. ASSUME NEW i \in 1 .. mm
       PROVE  [ee EXCEPT ![c] = e][(c + i - 1) % n] = l[k + 2 - i]
  <2>1. (c + i - 1) % n = IF c + i - 1 < n THEN c + i - 1 ELSE c + i - 1 - n
    <3>1. c + i - 1 \in 0 .. 2 * n - 1
      BY <1>9
    <3>2. PICK x \in 0 .. 2 * n - 1 : x = c + i - 1
      BY <3>1
    <3>3. x % n = IF x < n THEN x ELSE x - n
      BY ModIs
    <3> QED
      BY <3>2, <3>3
  <2>2. CASE i = 1
    <3>1. (c + i - 1) % n = c /\ k + 2 - i = k + 1
      BY <2>1, <2>2
    <3> QED
      BY <3>1
  <2>3. CASE i # 1
    <3>1. i - 1 \in 1 .. m /\ i - 1 \in 1 .. n - 1
      BY <1>8, <1>9, <2>3
    <3>2. (b + (i - 1) - 1) % n = IF b + i - 2 < n THEN b + i - 2 ELSE b + i - 2 - n
      <4>1. b + (i - 1) - 1 \in 0 .. 2 * n - 1
        BY <3>1
      <4>2. PICK x \in 0 .. 2 * n - 1 : x = b + (i - 1) - 1
        BY <4>1
      <4>3. x % n = IF x < n THEN x ELSE x - n
        BY ModIs
      <4> QED
        BY <4>2, <4>3
    <3>3. (c + i - 1) % n = (b + (i - 1) - 1) % n /\ (c + i - 1) % n # c
          /\ (c + i - 1) % n \in 0 .. n - 1
      BY <1>3, <2>1, <3>1, <3>2
    <3>4. ee[(b + (i - 1) - 1) % n] = l[k + 1 - (i - 1)]
      BY <1>8, <3>1
    <3>5. k + 1 - (i - 1) = k + 2 - i /\ k + 2 - i \in 1 .. k
      BY <1>8, <3>1
    <3>7. [ee EXCEPT ![c] = e][(c + i - 1) % n] = ee[(b + (i - 1) - 1) % n]
      BY <3>3
    <3> QED
      BY <3>4, <3>5, <3>7
  <2> QED
    BY <2>2, <2>3
<1>11. /\ Push(r, e).events = [ee EXCEPT ![c] = e] /\ Push(r, e).begin = c
       /\ Push(r, e).len = mm
  BY <1>5
<1>12. \A i \in 1 .. mm : k + 1 + 1 - i = k + 2 - i
  BY <1>9
<1> HIDE DEF mm
<1> QED
  BY <1>1, <1>9, <1>10, <1>11, <1>12 DEF Latest

\* The ring after each of a turn's events.
Pushes(f, ev) ==
  /\ f \in [0 .. Len(ev) -> Rings] /\ f[0] = ring
  /\ \A k \in 1 .. Len(ev) : f[k] = Push(f[k - 1], ev[k])

\* Pushed, by its recursion: each ring is the one before it and one event.
LEMMA PushedIs ==
  ASSUME ring \in Rings, NEW ev \in Seq(FeedbackEvents)
  PROVE  Pushes(Pushed(ev), ev)
<1>1. PICK N \in Nat : N = Len(ev)
  OBVIOUS
<1> DEFINE h == [x \in Rings \X (1 .. N) |-> Push(x[1], ev[x[2]])]
<1>2. \A q \in Rings, k \in 1 .. N : h[<<q, k>>] = Push(q, ev[k])
  OBVIOUS
<1>3. h \in [Rings \X (1 .. N) -> Rings]
  <2>1. ASSUME NEW x \in Rings \X (1 .. N) PROVE Push(x[1], ev[x[2]]) \in Rings
    <3>1. x[1] \in Rings /\ ev[x[2]] \in FeedbackEvents
      BY <1>1
    <3> QED
      BY <3>1, PushIs
  <2> QED
    BY <2>1
<1> HIDE DEF h
<1>4. PICK f : Recurs(f, N, Rings, ring, h)
  BY <1>3, Recursion
<1>5. ASSUME NEW k \in 1 .. N PROVE f[k - 1] \in Rings /\ f[k] = Push(f[k - 1], ev[k])
  <2>1. k - 1 \in 0 .. N
    OBVIOUS
  <2> QED
    BY <1>2, <1>4, <2>1 DEF Recurs
<1> DEFINE Ringed(g) == g = [n \in 0 .. N |-> IF n = 0 THEN ring ELSE Push(g[n - 1], ev[n])]
           c == CHOOSE g : Ringed(g)
<1>6. Ringed(f)
  <2>1. f \in [0 .. N -> Rings] /\ f[0] = ring
    BY <1>4 DEF Recurs
  <2>2. \A n \in 0 .. N : f[n] = IF n = 0 THEN ring ELSE Push(f[n - 1], ev[n])
    BY <1>5, <2>1
  <2> QED
    BY <2>1, <2>2
<1>7. Ringed(c)
  BY <1>6
<1>8. Pushed(ev) = c
  BY <1>1 DEF Pushed
<1> HIDE DEF c
<1>9. /\ c = [n \in 0 .. N |-> c[n]] /\ c[0] = ring
      /\ \A k \in 1 .. N : c[k] = Push(c[k - 1], ev[k])
  <2>1. c = [n \in 0 .. N |-> IF n = 0 THEN ring ELSE Push(c[n - 1], ev[n])]
    BY <1>7
  <2>2. \A n \in 0 .. N : c[n] = IF n = 0 THEN ring ELSE Push(c[n - 1], ev[n])
    BY <2>1
  <2>3. c = [n \in 0 .. N |-> c[n]]
    BY <2>1, <2>2
  <2> QED
    BY <2>2, <2>3
<1> HIDE DEF Ringed
<1> DEFINE S == {n \in 0 .. N : c[n] \in Rings}
<1>10. 0 \in S
  BY <1>9
<1>11. ASSUME NEW n \in 1 .. N, n - 1 \in S PROVE n \in S
  <2>1. ev[n] \in FeedbackEvents
    BY <1>1
  <2>2. c[n - 1] \in Rings
    BY <1>11
  <2>3. Push(c[n - 1], ev[n]) \in Rings
    BY <2>1, <2>2, PushIs
  <2> QED
    BY <1>9, <2>3
<1>12. \A n \in 0 .. N : n \in S
  <2> HIDE DEF S
  <2> QED
    BY <1>10, <1>11, Induct
<1>13. c \in [0 .. N -> Rings]
  BY <1>9, <1>12
<1> QED
  BY <1>1, <1>8, <1>9, <1>13 DEF Pushes

\* They hold the newest of a log that ends with these events.
LEMMA PushedLatest ==
  ASSUME ring \in Rings, NEW ev \in Seq(FeedbackEvents), NEW l, NEW m \in Nat,
         Latest(ring, l, m), \A k \in 1 .. Len(ev) : l[m + k] = ev[k]
  PROVE  \A k \in 0 .. Len(ev) : Latest(Pushed(ev)[k], l, m + k)
<1>0. PICK f : f = Pushed(ev)
  OBVIOUS
<1>1. PICK N \in Nat : N = Len(ev) /\ f = Pushed(ev)
  BY <1>0
<1>2. /\ f \in [0 .. N -> Rings] /\ f[0] = ring
      /\ \A k \in 1 .. N : f[k] = Push(f[k - 1], ev[k]) /\ ev[k] \in FeedbackEvents
  <2>1. Pushes(f, ev)
    BY <1>1, PushedIs
  <2> QED
    BY <1>1, <2>1 DEF Pushes
<1> DEFINE S == {k \in 0 .. N : Latest(f[k], l, m + k)}
<1>3. 0 \in S
  BY <1>2
<1>4. ASSUME NEW k \in 1 .. N, k - 1 \in S PROVE k \in S
  <2>1. f[k - 1] \in Rings /\ ev[k] \in FeedbackEvents /\ Latest(f[k - 1], l, m + (k - 1))
    BY <1>2, <1>4
  <2>2. PICK j \in Nat : j = m + (k - 1) /\ j + 1 = m + k
    OBVIOUS
  <2>3. l[j + 1] = ev[k]
    BY <1>1, <2>2
  <2>4. Latest(Push(f[k - 1], ev[k]), l, j + 1)
    BY <2>1, <2>2, <2>3, PushIs
  <2> QED
    BY <1>2, <2>2, <2>4
<1>5. \A k \in 0 .. N : k \in S
  <2> HIDE DEF S
  <2> QED
    BY <1>3, <1>4, Induct
<1> QED
  BY <1>1, <1>5

\* A packet has the events up to its number, backwards.
PacketIs(p, l) ==
  /\ p.number \in Nat /\ p.number <= Len(l)
  /\ p.events \in Seq(FeedbackEvents) /\ Len(p.events) <= p.number
  /\ \A i \in 1 .. Len(p.events) : p.events[i] = l[p.number + 1 - i]

\* The first n events of a log.
Knows(es, l, n) == es \in Seq(FeedbackEvents) /\ Len(es) = n /\ \A i \in 1 .. n : es[i] = l[i]

HeardIs ==
  /\ heard.number \in Nat /\ heard.number <= Len(log) /\ heard.missed \in BOOLEAN
  /\ heard.missed \/ Knows(heard.events, log, heard.number)

HistoryInv ==
  /\ ring \in Rings /\ log \in Seq(FeedbackEvents) /\ Latest(ring, log, Len(log))
  /\ \A p \in net : PacketIs(p, log)
  /\ HeardIs

\* What format makes of the ring.
LEMMA FormatIs ==
  ASSUME NEW r \in Rings, NEW l \in Seq(FeedbackEvents), NEW k \in 0 .. Len(l), Latest(r, l, k)
  PROVE  PacketIs([number |-> k, events |-> Format(r)], l)
<1>1. PICK n \in Nat \ {0} : n = HistorySize
  BY FeedbackAssumption
<1>2. r.len \in 0 .. k /\ \A i \in 1 .. r.len : r.events[(r.begin + i - 1) % HistorySize] = l[k + 1 - i]
  BY <1>1 DEF Latest
<1>3. Format(r) = [i \in 1 .. r.len |-> r.events[(r.begin + i - 1) % HistorySize]]
  BY DEF Format
<1>4. \A i \in 1 .. r.len : Format(r)[i] = l[k + 1 - i] /\ l[k + 1 - i] \in FeedbackEvents
  <2>1. ASSUME NEW i \in 1 .. r.len PROVE k + 1 - i \in 1 .. Len(l)
    BY <1>2
  <2> QED
    BY <1>2, <1>3, <2>1
<1>5. Format(r) \in Seq(FeedbackEvents) /\ Len(Format(r)) = r.len
  <2>1. PICK z \in Nat : z = r.len
    BY <1>2
  <2>2. PICK s : s = Format(r)
    OBVIOUS
  <2>3. s = [i \in 1 .. z |-> s[i]]
    BY <1>3, <2>1, <2>2
  <2>4. \A i \in 1 .. z : s[i] \in FeedbackEvents
    BY <1>4, <2>1, <2>2
  <2>5. s \in [1 .. z -> FeedbackEvents]
    BY <2>3, <2>4
  <2>6. s \in Seq(FeedbackEvents) /\ Len(s) = z
    BY <2>5
  <2> QED
    BY <2>1, <2>2, <2>6
<1> QED
  BY <1>2, <1>4, <1>5 DEF PacketIs

\* What was true of a log is true of a longer one.
LEMMA LogGrows ==
  ASSUME NEW l \in Seq(FeedbackEvents), NEW ev \in Seq(FeedbackEvents)
  PROVE  /\ l \o ev \in Seq(FeedbackEvents) /\ Len(l \o ev) = Len(l) + Len(ev)
         /\ \A p : PacketIs(p, l) => PacketIs(p, l \o ev)
         /\ \A es : \A n \in 0 .. Len(l) : Knows(es, l, n) => Knows(es, l \o ev, n)
         /\ \A r \in Rings : Latest(r, l, Len(l)) => Latest(r, l \o ev, Len(l))
         /\ \A k \in 1 .. Len(ev) : (l \o ev)[Len(l) + k] = ev[k]
<1>0. Chain(l \o ev, l, ev, FeedbackEvents)
  BY BothRange
<1>10. PICK m \in Nat : m = Len(l)
  OBVIOUS
<1>1. PICK b \in Seq(FeedbackEvents) : m = Len(l) /\ b = l \o ev
  BY <1>0, <1>10 DEF Chain
<1>2. /\ Len(b) = m + Len(ev) /\ \A i \in 1 .. m : b[i] = l[i]
      /\ \A i \in 1 .. Len(ev) : b[m + i] = ev[i]
  BY <1>0, <1>1 DEF Chain
<1>3. ASSUME NEW p, PacketIs(p, l) PROVE PacketIs(p, b)
  <2>1. \A i \in 1 .. Len(p.events) : p.number + 1 - i \in 1 .. m
    BY <1>1, <1>3 DEF PacketIs
  <2>2. p.number <= Len(b)
    BY <1>1, <1>2, <1>3 DEF PacketIs
  <2> QED
    BY <1>2, <1>3, <2>1, <2>2 DEF PacketIs
<1>4. ASSUME NEW es, NEW n \in 0 .. m, Knows(es, l, n) PROVE Knows(es, b, n)
  BY <1>2, <1>4 DEF Knows
<1>5. ASSUME NEW r \in Rings, Latest(r, l, m) PROVE Latest(r, b, m)
  <2>1. PICK n \in Nat \ {0} : n = HistorySize
    BY FeedbackAssumption
  <2>2. r.len \in 0 .. m
    BY <1>5, <2>1 DEF Latest
  <2>3. \A i \in 1 .. r.len : m + 1 - i \in 1 .. m
    BY <2>2
  <2> QED
    BY <1>2, <1>5, <2>3 DEF Latest
<1> QED
  BY <1>1, <1>2, <1>3, <1>4, <1>5

\* A turn pushes events and sends a packet for each.
Tells(ev) ==
  /\ ring' = Pushed(ev)[Len(ev)] /\ log' = log \o ev /\ heard' = heard
  /\ net' = net \cup {[number |-> Len(log) + i, events |-> Format(Pushed(ev)[i])] : i \in 1 .. Len(ev)}

\* It keeps the history.
LEMMA TellsHistory ==
  ASSUME HistoryInv, NEW ev \in Seq(FeedbackEvents), Tells(ev) PROVE HistoryInv'
<1>0. log \in Seq(FeedbackEvents) /\ Chain(log \o ev, log, ev, FeedbackEvents)
  BY BothRange DEF HistoryInv
<1>10. PICK m \in Nat, N \in Nat : m = Len(log) /\ N = Len(ev)
  BY <1>0
<1>1. PICK l \in Seq(FeedbackEvents) : l = log \o ev /\ m = Len(log) /\ N = Len(ev)
  BY <1>0, <1>10 DEF Chain
<1>2. /\ log \in Seq(FeedbackEvents) /\ ring \in Rings /\ Latest(ring, log, m)
      /\ Len(l) = m + N /\ \A k \in 1 .. N : l[m + k] = ev[k]
  BY <1>1, LogGrows DEF HistoryInv
<1>3. Latest(ring, l, m)
  BY <1>1, <1>2, LogGrows
<1>4. \A k \in 0 .. N : Latest(Pushed(ev)[k], l, m + k)
  BY <1>1, <1>2, <1>3, PushedLatest
<1>5. \A k \in 0 .. N : Pushed(ev)[k] \in Rings
  BY <1>1, <1>2, PushedIs DEF Pushes
<1>6. \A p \in net' : PacketIs(p, l)
  <2>1. \A p \in net : PacketIs(p, l)
    BY <1>1, <1>2, LogGrows DEF HistoryInv
  <2>2. ASSUME NEW i \in 1 .. N
        PROVE  PacketIs([number |-> m + i, events |-> Format(Pushed(ev)[i])], l)
    <3>1. PICK k \in 0 .. Len(l), r \in Rings : k = m + i /\ r = Pushed(ev)[i] /\ Latest(r, l, k)
      BY <1>2, <1>4, <1>5
    <3>2. PacketIs([number |-> k, events |-> Format(r)], l)
      BY <3>1, FormatIs
    <3> QED
      BY <3>1, <3>2
  <2> QED
    BY <1>1, <2>1, <2>2 DEF Tells
<1>7. HeardIs'
  <2>1. heard' = heard /\ log' = l
    BY <1>1 DEF Tells
  <2>2. heard.number \in 0 .. m /\ heard.missed \in BOOLEAN
    BY <1>1 DEF HistoryInv, HeardIs
  <2>3. heard.missed \/ Knows(heard.events, l, heard.number)
    BY <1>1, <1>2, <2>2, LogGrows DEF HistoryInv, HeardIs
  <2> QED
    BY <1>1, <1>2, <2>1, <2>2, <2>3 DEF HeardIs
<1>8. Latest(ring', l, Len(l)) /\ ring' \in Rings /\ log' = l
  BY <1>1, <1>2, <1>4, <1>5 DEF Tells
<1> QED
  BY <1>6, <1>7, <1>8 DEF HistoryInv

\* The console takes a packet for what it does not know yet.
LEMMA TakesHistory ==
  ASSUME HistoryInv, ConsoleTakes PROVE HistoryInv'
<1>1. PICK p \in net :
        /\ p.number > heard.number
        /\ LET new == p.number - heard.number
               n   == IF new > Len(p.events) THEN Len(p.events) ELSE new
           IN  heard' = [number |-> p.number,
                         events |-> heard.events \o Reverse(SubSeq(p.events, 1, n)),
                         missed |-> heard.missed \/ new > Len(p.events)]
  BY DEF ConsoleTakes
<1>2. UNCHANGED <<ring, log, net>>
  BY DEF ConsoleTakes, senderVars
<1>3. PICK l \in Seq(FeedbackEvents) : l = log
  BY DEF HistoryInv
<1>4. PacketIs(p, l)
  BY <1>3 DEF HistoryInv
<1>5. PICK a \in Nat, b \in Nat, es \in Seq(FeedbackEvents) :
        a = heard.number /\ b = p.number /\ es = p.events
  BY <1>4 DEF HistoryInv, HeardIs, PacketIs
<1>6. a < b /\ b <= Len(l) /\ Len(es) <= b /\ \A i \in 1 .. Len(es) : es[i] = l[b + 1 - i]
  BY <1>1, <1>4, <1>5 DEF PacketIs
<1>7. CASE b - a > Len(es)
  <2>1. heard'.number = b /\ heard'.missed = TRUE
    BY <1>1, <1>5, <1>7
  <2>2. HeardIs'
    BY <1>2, <1>3, <1>6, <2>1 DEF HeardIs
  <2> QED
    BY <1>2, <2>2 DEF HistoryInv
<1>8. CASE ~(b - a > Len(es))
  <2>1. PICK d \in Nat : d = b - a /\ d <= Len(es)
    BY <1>6, <1>8
  <2>2. /\ heard'.number = b /\ heard'.missed = heard.missed
        /\ heard'.events = heard.events \o Reverse(SubSeq(es, 1, d))
    BY <1>1, <1>5, <1>8, <2>1 DEF HistoryInv, HeardIs
  <2>3. PICK q \in Seq(FeedbackEvents) : q = Reverse(SubSeq(es, 1, d)) /\ Len(q) = d
                                        /\ \A i \in 1 .. d : q[i] = l[a + i]
    <3>1. SubSeq(es, 1, d) \in Seq(FeedbackEvents) /\ Len(SubSeq(es, 1, d)) = d
          /\ \A i \in 1 .. d : SubSeq(es, 1, d)[i] = es[i]
      BY <2>1
    <3>2. PICK u \in Seq(FeedbackEvents) : u = SubSeq(es, 1, d) /\ Len(u) = d
      BY <3>1
    <3>3. Reverse(u) = [i \in 1 .. d |-> u[d - i + 1]]
      BY <3>2 DEF Reverse
    <3>4. ASSUME NEW i \in 1 .. d PROVE u[d - i + 1] = l[a + i] /\ u[d - i + 1] \in FeedbackEvents
      <4>1. PICK j \in 1 .. d : j = d - i + 1 /\ j \in 1 .. Len(es) /\ b + 1 - j = a + i
        BY <2>1
      <4>2. u[j] = es[j]
        BY <3>1, <3>2
      <4>3. es[j] = l[b + 1 - j] /\ es[j] \in FeedbackEvents
        BY <1>6, <4>1
      <4> QED
        BY <4>1, <4>2, <4>3
    <3>5. PICK v : v = [i \in 1 .. d |-> u[d - i + 1]]
      OBVIOUS
    <3>6. v \in [1 .. d -> FeedbackEvents]
      BY <3>4, <3>5
    <3>7. v \in Seq(FeedbackEvents) /\ Len(v) = d /\ \A i \in 1 .. d : v[i] = l[a + i]
      BY <3>4, <3>5, <3>6
    <3> QED
      BY <3>2, <3>3, <3>5, <3>7
  <2>4. ASSUME Knows(heard.events, l, a) PROVE Knows(heard'.events, l, b)
    <3>1. PICK z \in Seq(FeedbackEvents) : z = heard.events /\ Len(z) = a /\ \A i \in 1 .. a : z[i] = l[i]
      BY <2>4 DEF Knows
    <3>2. /\ z \o q \in Seq(FeedbackEvents) /\ Len(z \o q) = a + d
          /\ \A i \in 1 .. a : (z \o q)[i] = z[i]
          /\ \A i \in 1 .. d : (z \o q)[a + i] = q[i]
      <4>1. Chain(z \o q, z, q, FeedbackEvents)
        BY <2>3, <3>1, BothRange
      <4> QED
        BY <2>3, <3>1, <4>1 DEF Chain
    <3>3. ASSUME NEW i \in 1 .. b PROVE (z \o q)[i] = l[i]
      <4>1. CASE i \in 1 .. a
        BY <3>1, <3>2, <4>1
      <4>2. CASE i \notin 1 .. a
        <5>1. PICK k \in 1 .. d : i = a + k
          <6>1. i - a \in 1 .. d /\ i = a + (i - a)
            BY <2>1, <4>2
          <6> QED
            BY <6>1
        <5> QED
          BY <2>3, <3>2, <5>1
      <4> QED
        BY <4>1, <4>2
    <3>4. heard'.events = z \o q /\ a + d = b
      BY <2>1, <2>2, <2>3, <3>1
    <3> QED
      BY <3>2, <3>3, <3>4 DEF Knows
  <2>5. HeardIs'
    BY <1>2, <1>3, <1>5, <1>6, <2>2, <2>4 DEF HeardIs, HistoryInv
  <2> QED
    BY <1>2, <2>5 DEF HistoryInv
<1> QED
  BY <1>7, <1>8

-----------------------------------------------------------------------------
(* States and the events of their difference                               *)

\* An event or none.
LEMMA ConditionalEvent ==
  ASSUME NEW c \in BOOLEAN, NEW e, c => e \in FeedbackEvents
  PROVE  If(c, e) \in Seq(FeedbackEvents)
<1>1. CASE c
  <2>1. e \in FeedbackEvents
    BY <1>1
  <2>2. <<e>> \in Seq(FeedbackEvents)
    BY <2>1
  <2> QED
    BY <1>1, <2>2 DEF If
<1>2. CASE ~c
  BY <1>2 DEF If
<1> QED
  BY <1>1, <1>2

\* The events of one touch.
LEMMA TouchEventsAre ==
  ASSUME NEW a \in Touches, NEW b \in Touches
  PROVE  TouchEvents(a, b) \in Seq(FeedbackEvents)
<1>1. /\ a.id >= 0 => Touch(FALSE, a) \in FeedbackEvents
      /\ b.id >= 0 => Touch(TRUE, b) \in FeedbackEvents
  BY DEF FeedbackEvents, TouchMarks, Touch, Touches
<1>2. CASE a.id # b.id /\ a.id >= 0
  <2>1. PICK e \in FeedbackEvents : e = Touch(FALSE, a)
    BY <1>1, <1>2
  <2>2. TouchEvents(a, b) = <<e>>
    BY <1>2, <2>1, Zenon DEF TouchEvents
  <2> QED
    BY <2>2
<1>3. CASE ~(a.id # b.id /\ a.id >= 0)
  <2>1. PICK c \in BOOLEAN : c = (b.id >= 0 /\ (a.id # b.id \/ a.pos # b.pos))
    BY Zenon
  <2>2. PICK f : f = Touch(TRUE, b)
    OBVIOUS
  <2>3. If(c, f) \in Seq(FeedbackEvents)
    <3>1. CASE c
      BY <1>1, <2>1, <2>2, <3>1, ConditionalEvent
    <3>2. CASE ~c
      BY <3>2 DEF If
    <3> QED
      BY <3>1, <3>2
  <2>4. TouchEvents(a, b) = If(c, f)
    BY <1>3, <2>1, <2>2, Zenon DEF TouchEvents
  <2> QED
    BY <2>3, <2>4
<1> QED
  BY <1>2, <1>3

\* The events of a turn: the buttons that differ, the trigger, then each touch.
Turns(q, x, y, u, v, a, b) ==
  /\ q = (x \o y) \o (u \o v)
  /\ x \in Seq(FeedbackEvents) /\ u \in Seq(FeedbackEvents) /\ v \in Seq(FeedbackEvents)
  /\ Range(x) = {Button(o, o \in b.buttons) :
                   o \in {p \in Range(Order) : (p \in a.buttons) # (p \in b.buttons)}}
  /\ y \in Seq(FeedbackEvents) /\ y = If(a.l2 # b.l2, Trigger(b.l2))
  /\ u = TouchEvents(a.touches[1], b.touches[1]) /\ v = TouchEvents(a.touches[2], b.touches[2])

\* Events is made of these parts.
LEMMA EventParts ==
  ASSUME NEW a \in States, NEW b \in States
  PROVE  \E x, y, u, v : Turns(Events(a, b), x, y, u, v, a, b)
<1> DEFINE bs == [i \in DOMAIN Order |->
                    If((Order[i] \in a.buttons) # (Order[i] \in b.buttons),
                       Button(Order[i], Order[i] \in b.buttons))]
           ts == [i \in Slots |-> TouchEvents(a.touches[i], b.touches[i])]
           ls == If(a.l2 # b.l2, Trigger(b.l2))
<1>1. PICK n \in Nat : n = Len(Order) /\ DOMAIN Order = 1 .. n
  BY OrderAssumption
<1>2. ASSUME NEW i \in 1 .. n
      PROVE  /\ bs[i] \in Seq(FeedbackEvents)
             /\ Range(bs[i]) = IF (Order[i] \in a.buttons) # (Order[i] \in b.buttons)
                               THEN {Button(Order[i], Order[i] \in b.buttons)} ELSE {}
  <2>1. PICK c \in BOOLEAN : c = ((Order[i] \in a.buttons) # (Order[i] \in b.buttons))
    BY Zenon
  <2>2. Order[i] \in Range(Order)
    BY <1>1 DEF Range
  <2>3. PICK e : e = Button(Order[i], Order[i] \in b.buttons)
    OBVIOUS
  <2>4. e \in FeedbackEvents
    BY <2>2, <2>3 DEF FeedbackEvents, ButtonMarks, Button
  <2>5. If(c, e) \in Seq(FeedbackEvents)
    BY <2>4, ConditionalEvent
  <2>6. bs[i] = If(c, e)
    BY <1>1, <2>1, <2>3, Zenon
  <2>7. Range(If(c, e)) = IF c THEN {e} ELSE {}
    BY DEF If, Range
  <2> QED
    BY <2>1, <2>3, <2>5, <2>6, <2>7
<1>3. bs \in Seq(Seq(FeedbackEvents)) /\ Len(bs) = n
  <2>1. bs = [i \in 1 .. n |-> bs[i]]
    BY <1>1
  <2> HIDE DEF bs
  <2>2. PICK D : D = Seq(FeedbackEvents)
    OBVIOUS
  <2>3. bs \in [1 .. n -> D]
    BY <1>2, <2>1, <2>2
  <2>4. bs \in Seq(D) /\ Len(bs) = n
    BY <2>3
  <2> QED
    BY <2>2, <2>4
<1>4. ls \in Seq(FeedbackEvents)
  <2>1. Trigger(b.l2) \in FeedbackEvents
    BY DEF FeedbackEvents, TriggerMarks, Trigger, States
  <2> QED
    BY <2>1, ConditionalEvent
<1>5. \A i \in 1 .. 2 : ts[i] \in Seq(FeedbackEvents) /\ ts[i] = TouchEvents(a.touches[i], b.touches[i])
  <2>1. \A i \in Slots : a.touches[i] \in Touches /\ b.touches[i] \in Touches
    BY DEF States
  <2>2. \A i \in Slots : TouchEvents(a.touches[i], b.touches[i]) \in Seq(FeedbackEvents)
    BY <2>1, TouchEventsAre, Zenon
  <2>3. \A i \in Slots : ts[i] = TouchEvents(a.touches[i], b.touches[i])
    OBVIOUS
  <2>4. Slots = 1 .. 2
    BY DEF Slots
  <2> QED
    BY <2>2, <2>3, <2>4, Zenon
<1>6. ts \in Seq(Seq(FeedbackEvents)) /\ Len(ts) = 2
  <2>1. ts = [i \in 1 .. 2 |-> ts[i]]
    BY DEF Slots
  <2> HIDE DEF ts
  <2>2. PICK D : D = Seq(FeedbackEvents)
    OBVIOUS
  <2>3. PICK m \in Nat : m = 2
    OBVIOUS
  <2>4. ts \in [1 .. m -> D]
    BY <1>5, <2>1, <2>2, <2>3
  <2>5. ts \in Seq(D) /\ Len(ts) = m
    BY <2>4
  <2> QED
    BY <2>2, <2>3, <2>5
<1>7. Events(a, b) = FlattenSeq(bs) \o ls \o FlattenSeq(ts)
  BY DEF Events
<1> HIDE DEF bs, ts
<1>8. PICK x \in Seq(FeedbackEvents) :
        x = FlattenSeq(bs) /\ Range(x) = UNION {Range(bs[i]) : i \in 1 .. n}
  BY <1>3, FlattenRange
<1>9. Range(x) = {Button(o, o \in b.buttons) :
                    o \in {p \in Range(Order) : (p \in a.buttons) # (p \in b.buttons)}}
  <2>1. \A o \in Range(Order) : \E i \in 1 .. n : o = Order[i]
    BY <1>1 DEF Range
  <2>2. \A i \in 1 .. n : Order[i] \in Range(Order)
    BY <1>1 DEF Range
  <2>3. ASSUME NEW e \in Range(x)
        PROVE  \E o \in {p \in Range(Order) : (p \in a.buttons) # (p \in b.buttons)} :
                 e = Button(o, o \in b.buttons)
    <3>1. PICK i \in 1 .. n : e \in Range(bs[i])
      BY <1>8, <2>3
    <3>2. (Order[i] \in a.buttons) # (Order[i] \in b.buttons) /\ e = Button(Order[i], Order[i] \in b.buttons)
      BY <1>2, <3>1, Zenon
    <3> QED
      BY <2>2, <3>2, Zenon
  <2>4. ASSUME NEW o \in Range(Order), (o \in a.buttons) # (o \in b.buttons)
        PROVE  Button(o, o \in b.buttons) \in Range(x)
    <3>1. PICK i \in 1 .. n : o = Order[i]
      BY <2>1
    <3>2. Button(o, o \in b.buttons) \in Range(bs[i])
      BY <1>2, <2>4, <3>1, Zenon
    <3> QED
      BY <1>8, <3>2
  <2> QED
    BY <2>3, <2>4, Zenon
<1>10. PICK u \in Seq(FeedbackEvents), v \in Seq(FeedbackEvents) :
         /\ u = ts[1] /\ u = TouchEvents(a.touches[1], b.touches[1])
         /\ v = ts[2] /\ v = TouchEvents(a.touches[2], b.touches[2])
  BY <1>5
<1>11. FlattenSeq(ts) = u \o v
  <2>1. PICK f : Flattens(f, ts, FeedbackEvents)
    BY <1>6, FlattenIs
  <2>2. f[0] = <<>> /\ f[2] = FlattenSeq(ts) /\ f[1] = f[0] \o ts[1] /\ f[2] = f[1] \o ts[2]
    <3>1. PICK m \in Nat : m = Len(ts) /\ m = 2 /\ f[m] = FlattenSeq(ts) /\ f[0] = <<>>
      BY <1>6, <2>1 DEF Flattens
    <3>2. \A k \in 1 .. m : f[k] = f[k - 1] \o ts[k]
      BY <2>1, <3>1 DEF Flattens
    <3>3. \A k \in 1 .. m : \A j \in 0 .. m : j = k - 1 => f[k] = f[j] \o ts[k]
      BY <3>2
    <3>4. 1 \in 1 .. m /\ 2 \in 1 .. m /\ 0 \in 0 .. m /\ 1 \in 0 .. m /\ 0 = 1 - 1 /\ 1 = 2 - 1
      BY <3>1
    <3>5. f[1] = f[0] \o ts[1] /\ f[2] = f[1] \o ts[2]
      BY <3>3, <3>4, Zenon
    <3> QED
      BY <3>1, <3>5
  <2>3. <<>> \o u = u
    OBVIOUS
  <2> QED
    BY <1>10, <2>2, <2>3
<1>12. Turns(Events(a, b), x, ls, u, v, a, b)
  BY <1>4, <1>7, <1>8, <1>9, <1>10, <1>11, Zenon DEF Turns
<1> QED
  BY <1>12

\* The range of the events of a turn.
LEMMA TurnRange ==
  ASSUME NEW a \in States, NEW b \in States, NEW q, NEW x, NEW y, NEW u, NEW v,
         Turns(q, x, y, u, v, a, b)
  PROVE  /\ q \in Seq(FeedbackEvents)
         /\ Range(q) = (Range(x) \cup Range(y)) \cup (Range(u) \cup Range(v))
         /\ Range(y) = (IF a.l2 # b.l2 THEN {Trigger(b.l2)} ELSE {})
<1>1. x \in Seq(FeedbackEvents) /\ y \in Seq(FeedbackEvents) /\ u \in Seq(FeedbackEvents)
      /\ v \in Seq(FeedbackEvents) /\ q = (x \o y) \o (u \o v)
  BY DEF Turns
<1>2. Chain(x \o y, x, y, FeedbackEvents) /\ Chain(u \o v, u, v, FeedbackEvents)
  BY <1>1, BothRange
<1>3. PICK s \in Seq(FeedbackEvents), t \in Seq(FeedbackEvents) :
        /\ s = x \o y /\ t = u \o v
        /\ Range(s) = Range(x) \cup Range(y) /\ Range(t) = Range(u) \cup Range(v)
  BY <1>2 DEF Chain
<1>4. Chain(s \o t, s, t, FeedbackEvents)
  BY BothRange
<1>5. Range(y) = (IF a.l2 # b.l2 THEN {Trigger(b.l2)} ELSE {})
  <2>1. y = If(a.l2 # b.l2, Trigger(b.l2))
    BY DEF Turns
  <2>2. CASE a.l2 # b.l2
    BY <2>1, <2>2 DEF If, Range
  <2>3. CASE a.l2 = b.l2
    BY <2>1, <2>3 DEF If, Range
  <2> QED
    BY <2>2, <2>3
<1> QED
  BY <1>1, <1>3, <1>4, <1>5 DEF Chain

\* The events of two states' difference are the feedback's.
LEMMA EventsAre ==
  ASSUME NEW a \in States, NEW b \in States
  PROVE  Events(a, b) \in Seq(FeedbackEvents)
  BY EventParts, TurnRange

\* What the front end does to a state.
LEMMA IdleIs == Idle \in States
  BY DEF Idle, States, Touches, NoTouch

\* A key or a controller's button or axis.
LEMMA ToggledIs ==
  ASSUME NEW s \in States
  PROVE  \A b \in {"cross", "l2", "stick"} : Toggle(s, b) \in States
<1>1. Toggle(s, "cross") = [s EXCEPT !.buttons = IF "cross" \in @ THEN @ \ {"cross"} ELSE @ \cup {"cross"}]
  BY Zenon DEF Toggle
<1>2. Toggle(s, "l2") = [s EXCEPT !.l2 = 255 - @]
  BY Zenon DEF Toggle
<1>3. Toggle(s, "stick") = [s EXCEPT !.stick = IF @ = 0 THEN -1 ELSE 0]
  BY Zenon DEF Toggle
<1>4. Toggle(s, "cross") \in States
  BY <1>1 DEF States, Marked
<1>5. Toggle(s, "l2") \in States
  BY <1>2 DEF States
<1>6. Toggle(s, "stick") \in States
  BY <1>3 DEF States
<1> QED
  BY <1>4, <1>5, <1>6

\* chiaki_controller_state_or of two states is a state.
LEMMA OrIs ==
  ASSUME NEW a \in States, NEW b \in States
  PROVE  Or(a, b) \in States
<1>1. a.buttons \cup b.buttons \in SUBSET Marked
  BY DEF States
<1>2. (IF a.l2 > b.l2 THEN a.l2 ELSE b.l2) \in {0, 255}
  BY DEF States
<1>3. (IF Abs(a.stick) > Abs(b.stick) THEN a.stick ELSE b.stick) \in {-1, 0}
  BY DEF States
<1>4. [i \in Slots |-> IF a.touches[i].id >= 0 THEN a.touches[i]
                       ELSE IF b.touches[i].id >= 0 THEN b.touches[i] ELSE NoTouch] \in [Slots -> Touches]
  <2>1. NoTouch \in Touches
    BY DEF NoTouch, Touches
  <2>2. \A i \in Slots : a.touches[i] \in Touches /\ b.touches[i] \in Touches
    BY DEF States
  <2> QED
    BY <2>1, <2>2
<1> QED
  BY <1>1, <1>2, <1>3, <1>4 DEF Or, States

\* So is what the session is given.
LEMMA MergedIs ==
  ASSUME NEW s \in States, NEW p \in [open : BOOLEAN, state : States], NEW k \in States
  PROVE  Merged(s, p, k) \in States
<1>1. p.state \in States
  OBVIOUS
<1>2. Or(s, p.state) \in States
  BY <1>1, OrIs
<1>3. PICK m \in States : m = IF p.open THEN Or(s, p.state) ELSE s
  BY <1>2
<1> QED
  BY <1>3, OrIs DEF Merged

\* A touch that has an id, in a place of its own.
LEMMA FirstIs ==
  ASSUME NEW S \in SUBSET Slots, S # {}
  PROVE  First(S) \in S
<1>1. \A i \in S : i = 1 \/ i = 2
  BY DEF Slots
<1>2. \E i \in S : \A j \in S : i <= j
  <2>1. CASE 1 \in S
    BY <1>1, <2>1
  <2>2. CASE 1 \notin S
    BY <1>1, <2>2
  <2> QED
    BY <2>1, <2>2
<1> QED
  BY <1>2 DEF First

\* A touch that starts, moves or ends.
LEMMA TouchedIs ==
  ASSUME NEW s \in States, NEW pos \in Nat, NEW id, NEW which
  PROVE  /\ StartTouch(s, pos) \in States /\ SetTouchPos(s, id, pos) \in States
         /\ Released(s, which) \in States
<1>1. StartTouch(s, pos) \in States
  <2>1. CASE Free(s) = {}
    BY <2>1 DEF StartTouch
  <2>2. CASE Free(s) # {}
    <3>1. PICK i \in Slots : i = First(Free(s))
      BY <2>2, FirstIs DEF Free
    <3>0. [id |-> s.next, pos |-> pos] \in Touches /\ s.touches \in [Slots -> Touches]
      BY DEF States, Touches
    <3>2. PICK t \in [Slots -> Touches] : t = [s.touches EXCEPT ![i] = [id |-> s.next, pos |-> pos]]
      BY <3>0
    <3>3. PICK n \in Nat : n = (s.next + 1) % TouchIds
      BY ControllerAssumption DEF States
    <3>4. StartTouch(s, pos) = [s EXCEPT !.touches = t, !.next = n]
      BY <2>2, <3>1, <3>2, <3>3 DEF StartTouch
    <3>5. [s EXCEPT !.touches = t, !.next = n] \in States
      BY DEF States
    <3> QED
      BY <3>4, <3>5
  <2> QED
    BY <2>1, <2>2
<1>2. SetTouchPos(s, id, pos) \in States
  <2>1. CASE With(s, id) = {}
    BY <2>1 DEF SetTouchPos
  <2>2. CASE With(s, id) # {}
    <3>1. PICK i \in Slots : i = First(With(s, id))
      BY <2>2, FirstIs DEF With
    <3>2. SetTouchPos(s, id, pos) = [s EXCEPT !.touches[i].pos = pos]
      BY <2>2, <3>1 DEF SetTouchPos
    <3> QED
      BY <3>2 DEF States, Touches
  <2> QED
    BY <2>1, <2>2
<1>3. Released(s, which) \in States
  <2>1. [i \in Slots |-> IF s.touches[i].id \in which THEN [s.touches[i] EXCEPT !.id = -1]
                         ELSE s.touches[i]] \in [Slots -> Touches]
    BY DEF States, Touches
  <2> QED
    BY <2>1 DEF Released, States
<1> QED
  BY <1>1, <1>2, <1>3

-----------------------------------------------------------------------------
(* The touchpad: what setsu_poll makes of a frame                          *)

PadEvents == [kind : {"up", "down", "position", "button_down", "button_up"}, id : Int, pos : Nat]
SlotStates == [prev : Int, id : Int, pos : Nat, downed : BOOLEAN, dirty : BOOLEAN]
Quiet == {s \in SlotStates : s.prev = -1 /\ s.downed = FALSE /\ s.dirty = FALSE}
TrackFrames == [kind : {"down", "up", "swap", "move"}, slot : 1 .. EvSlots, id : Int, pos : Nat]
PressFrames == [kind : {"button"}, slot : {0}, id : {0, 1}, pos : {0}]
PadFrames == TrackFrames \cup PressFrames

\* Up to three events: the first e if there is one, a third only at the end.
ThreeTell(q, c, e, f, g) ==
  /\ q \in Seq(PadEvents) /\ (c => Len(q) >= 1 /\ q[1] = e)
  /\ \A k \in 1 .. Len(q) : q[k] = e \/ q[k] = f \/ (k = Len(q) /\ q[k] = g)

\* What device_drain makes of a slot has that form.
LEMMA ThreeEvents ==
  ASSUME NEW c \in BOOLEAN, NEW d \in BOOLEAN, NEW p \in BOOLEAN,
         NEW e \in PadEvents, NEW f \in PadEvents, NEW g \in PadEvents
  PROVE  ThreeTell(When(c, e) \o When(d, f) \o When(p, g), c, e, f, g)
<1>1. When(c, e) \in Seq(PadEvents) /\ When(c, e) = IF c THEN <<e>> ELSE <<>>
  BY DEF When
<1>2. When(d, f) \in Seq(PadEvents) /\ When(d, f) = IF d THEN <<f>> ELSE <<>>
  BY DEF When
<1>3. When(p, g) \in Seq(PadEvents) /\ When(p, g) = IF p THEN <<g>> ELSE <<>>
  BY DEF When
<1>4. PICK x \in Seq(PadEvents), y \in Seq(PadEvents), z \in Seq(PadEvents) :
        /\ x = When(c, e) /\ y = When(d, f) /\ z = When(p, g)
        /\ x = (IF c THEN <<e>> ELSE <<>>) /\ y = (IF d THEN <<f>> ELSE <<>>)
        /\ z = IF p THEN <<g>> ELSE <<>>
  BY <1>1, <1>2, <1>3
<1>5. /\ Len(x) = (IF c THEN 1 ELSE 0) /\ (c => x[1] = e)
      /\ Len(y) = (IF d THEN 1 ELSE 0) /\ (d => y[1] = f)
      /\ Len(z) = (IF p THEN 1 ELSE 0) /\ (p => z[1] = g)
  BY <1>4
<1>6. PICK w : w = x \o y /\ Chain(w, x, y, PadEvents)
  BY BothRange
<1>7. w \in Seq(PadEvents) /\ \A k \in 1 .. Len(w) : w[k] = e \/ w[k] = f
  <2>1. ASSUME NEW k \in 1 .. Len(w) PROVE w[k] = e \/ w[k] = f
    <3>1. CASE k \in 1 .. Len(x)
      <4>1. k = 1 /\ c /\ w[k] = x[k]
        BY <1>5, <1>6, <3>1 DEF Chain
      <4> QED
        BY <1>5, <4>1
    <3>2. CASE k \notin 1 .. Len(x)
      <4>1. k = Len(x) + 1 /\ d /\ 1 \in 1 .. Len(y)
        BY <1>5, <1>6, <3>2 DEF Chain
      <4>2. w[Len(x) + 1] = y[1]
        BY <1>6, <4>1 DEF Chain
      <4> QED
        BY <1>5, <4>1, <4>2
    <3> QED
      BY <3>1, <3>2
  <2> QED
    BY <1>6, <2>1 DEF Chain
<1>8. c => Len(w) >= 1 /\ w[1] = e
  <2>1. ASSUME c PROVE Len(w) >= 1 /\ w[1] = e
    <3>1. 1 \in 1 .. Len(x) /\ x[1] = e
      BY <1>5, <2>1
    <3> QED
      BY <1>6, <3>1 DEF Chain
  <2> QED
    BY <2>1
<1>9. PICK q : q = w \o z /\ Chain(q, w, z, PadEvents)
  BY <1>7, BothRange
<1>10. ASSUME NEW k \in 1 .. Len(q) PROVE q[k] = e \/ q[k] = f \/ (k = Len(q) /\ q[k] = g)
  <2>1. CASE k \in 1 .. Len(w)
    BY <1>7, <1>9, <2>1 DEF Chain
  <2>2. CASE k \notin 1 .. Len(w)
    <3>1. k = Len(w) + 1 /\ p /\ 1 \in 1 .. Len(z) /\ Len(q) = Len(w) + 1
      BY <1>5, <1>7, <1>9, <2>2 DEF Chain
    <3>2. q[Len(w) + 1] = z[1]
      BY <1>9, <3>1 DEF Chain
    <3> QED
      BY <1>5, <3>1, <3>2
  <2> QED
    BY <2>1, <2>2
<1>11. c => Len(q) >= 1 /\ q[1] = e
  <2>1. ASSUME c PROVE Len(q) >= 1 /\ q[1] = e
    <3>1. 1 \in 1 .. Len(w) /\ w[1] = e
      BY <1>7, <1>8, <2>1
    <3> QED
      BY <1>9, <3>1 DEF Chain
  <2> QED
    BY <2>1
<1>12. ThreeTell(q, c, e, f, g)
  BY <1>9, <1>10, <1>11 DEF ThreeTell, Chain
<1> QED
  BY <1>4, <1>6, <1>9, <1>12

\* The id a slot has after a frame.
IdAfter(id, fr) == IF fr.kind = "move" THEN id ELSE IF fr.kind = "up" THEN -1 ELSE fr.id

\* A slot that is not quiet: its id is new, and the old one is told to be up.
FrameMakes(s, a, fr) ==
  /\ a \in SlotStates /\ a.id = IdAfter(s.id, fr)
  /\ s.id # -1 /\ fr.kind # "move" => a.prev = s.id

\* A new tracking id: the old one is remembered unless one is already.
LEMMA TrackingIs ==
  ASSUME NEW s \in SlotStates, NEW id \in Int
  PROVE  /\ SetTracking(s, id) \in SlotStates /\ SetTracking(s, id).id = id
         /\ SetTracking(s, id).prev = IF s.id # -1 /\ s.prev = -1 THEN s.id ELSE s.prev
<1>1. PICK d \in BOOLEAN : d = (s.downed \/ id # -1)
  BY DEF SlotStates
<1>2. CASE s.id # -1 /\ s.prev = -1
  <2>1. PICK t : t = [s EXCEPT !.prev = s.id, !.pos = 0, !.dirty = FALSE]
    OBVIOUS
  <2>2. t \in SlotStates /\ t.downed = s.downed /\ t.prev = s.id
    BY <2>1 DEF SlotStates
  <2>3. SetTracking(s, id) = [t EXCEPT !.id = id, !.downed = d]
    BY <1>1, <1>2, <2>1, <2>2 DEF SetTracking
  <2> QED
    BY <1>2, <2>2, <2>3 DEF SlotStates
<1>3. CASE ~(s.id # -1 /\ s.prev = -1)
  <2>1. SetTracking(s, id) = [s EXCEPT !.id = id, !.downed = d]
    BY <1>1, <1>3 DEF SetTracking
  <2> QED
    BY <1>3, <2>1 DEF SlotStates
<1> QED
  BY <1>2, <1>3

\* A position changes no id.
LEMMA PositionIs ==
  ASSUME NEW s \in SlotStates, NEW pos \in Nat
  PROVE  /\ SetPosition(s, pos) \in SlotStates /\ SetPosition(s, pos).id = s.id
         /\ SetPosition(s, pos).prev = s.prev
  BY DEF SetPosition, SlotStates

\* Each of the kinds of frames does so.
LEMMA AfterFrameIs ==
  ASSUME NEW s \in Quiet, NEW fr \in TrackFrames
  PROVE  FrameMakes(s, AfterFrame(s, fr), fr)
<1>0. s \in SlotStates /\ s.prev = -1 /\ s.id \in Int
  BY DEF Quiet, SlotStates
<1>1. PICK id \in Int, pos \in Nat : id = fr.id /\ pos = fr.pos
  BY DEF TrackFrames
<1>2. PICK t, u, v : t = SetTracking(s, -1) /\ u = SetTracking(t, id) /\ v = SetTracking(s, id)
  OBVIOUS
<1>3. t \in SlotStates /\ t.id = -1 /\ t.prev = s.id
  BY <1>0, <1>2, TrackingIs
<1>4. u \in SlotStates /\ u.id = id /\ u.prev = s.id
  BY <1>2, <1>3, TrackingIs
<1>5. v \in SlotStates /\ v.id = id /\ v.prev = s.id
  BY <1>0, <1>2, TrackingIs
<1>6. CASE fr.kind = "up"
  <2>1. AfterFrame(s, fr) = t
    BY <1>2, <1>6, Zenon DEF AfterFrame
  <2> QED
    BY <1>3, <1>6, <2>1 DEF FrameMakes, IdAfter
<1>7. CASE fr.kind = "down"
  <2>1. AfterFrame(s, fr) = SetPosition(v, pos)
    BY <1>1, <1>2, <1>7, Zenon DEF AfterFrame
  <2> QED
    BY <1>1, <1>5, <1>7, <2>1, PositionIs DEF FrameMakes, IdAfter
<1>8. CASE fr.kind = "swap"
  <2>1. AfterFrame(s, fr) = SetPosition(u, pos)
    BY <1>1, <1>2, <1>8, Zenon DEF AfterFrame
  <2> QED
    BY <1>1, <1>4, <1>8, <2>1, PositionIs DEF FrameMakes, IdAfter
<1>9. CASE fr.kind = "move"
  <2>1. AfterFrame(s, fr) = SetPosition(s, pos)
    BY <1>1, <1>9, Zenon DEF AfterFrame
  <2> QED
    BY <1>0, <1>9, <2>1, PositionIs DEF FrameMakes, IdAfter
<1>10. fr.kind = "down" \/ fr.kind = "up" \/ fr.kind = "swap" \/ fr.kind = "move"
  BY DEF TrackFrames
<1> QED
  BY <1>6, <1>7, <1>8, <1>9, <1>10

\* The events of a slot tell that its old finger is up, and at most one
\* position, of its new one, at their end.
SlotTells(q, a) ==
  /\ q \in Seq(PadEvents)
  /\ a.prev # -1 => \E k \in 1 .. Len(q) : q[k].kind = "up" /\ q[k].id = a.prev
  /\ \A k \in 1 .. Len(q) : q[k].kind = "position" => k = Len(q) /\ q[k].id = a.id

\* device_drain of one slot, which is quiet afterwards.
LEMMA SlotEventsAre ==
  ASSUME NEW a \in SlotStates
  PROVE  SlotTells(SlotEvents(a), a) /\ Drained(a) \in Quiet /\ Drained(a).id = a.id
<1>1. PICK c \in BOOLEAN, d \in BOOLEAN, p \in BOOLEAN : c = (a.prev # -1) /\ d = a.downed /\ p = a.dirty
  BY DEF SlotStates
<1>2. PICK e \in PadEvents, f \in PadEvents, g \in PadEvents :
        e = Event("up", a.prev, 0) /\ f = Event("down", a.id, 0) /\ g = Event("position", a.id, a.pos)
  BY DEF Event, SlotStates, PadEvents
<1>3. PICK q : q = When(c, e) \o When(d, f) \o When(p, g)
  OBVIOUS
<1>4. q = SlotEvents(a)
  BY <1>1, <1>2, <1>3 DEF SlotEvents
<1>5. ThreeTell(q, c, e, f, g)
  BY <1>3, ThreeEvents
<1>6. e.kind = "up" /\ e.id = a.prev /\ f.kind = "down" /\ g.kind = "position" /\ g.id = a.id
  BY <1>2 DEF Event
<1>7. SlotTells(q, a)
  <2>1. ASSUME a.prev # -1 PROVE \E k \in 1 .. Len(q) : q[k].kind = "up" /\ q[k].id = a.prev
    <3>0. c
      BY <1>1, <2>1, Zenon
    <3>1. 1 \in 1 .. Len(q) /\ q[1] = e
      BY <1>5, <3>0 DEF ThreeTell
    <3> QED
      BY <1>6, <3>1
  <2> QED
    BY <1>5, <1>6, <2>1 DEF SlotTells, ThreeTell
<1>8. Drained(a) \in Quiet /\ Drained(a).id = a.id
  <2>0. PICK t : t = [a EXCEPT !.prev = -1]
    OBVIOUS
  <2>3. t \in SlotStates /\ t.id = a.id
    BY <2>0 DEF SlotStates
  <2>1. Drained(a) \in SlotStates /\ Drained(a).id = a.id
    <3>1. Drained(a) = [t EXCEPT !.downed = FALSE, !.dirty = FALSE]
      BY <2>0 DEF Drained, SlotStates
    <3>2. [t EXCEPT !.downed = FALSE, !.dirty = FALSE] \in SlotStates
      BY <2>3 DEF SlotStates
    <3>3. [t EXCEPT !.downed = FALSE, !.dirty = FALSE].id = t.id
      BY <2>3 DEF SlotStates
    <3> QED
      BY <2>3, <3>1, <3>2, <3>3
  <2>2. Drained(a).prev = -1 /\ Drained(a).downed = FALSE /\ Drained(a).dirty = FALSE
    BY DEF Drained, SlotStates
  <2> QED
    BY <2>1, <2>2 DEF Quiet
<1> QED
  BY <1>4, <1>7, <1>8

\* A slot that no event came for tells nothing.
LEMMA QuietSlot ==
  ASSUME NEW s \in Quiet
  PROVE  SlotEvents(s) = <<>> /\ Drained(s) = s /\ s \in SlotStates
<1>0. s.prev = -1 /\ s.downed = FALSE /\ s.dirty = FALSE
  BY DEF Quiet
<1>1. s \in SlotStates /\ Drained(s) = s
  BY <1>0 DEF Quiet, SlotStates, Drained
<1>2. /\ \A e : When(s.prev # -1, e) = <<>>
      /\ \A e : When(s.downed, e) = <<>>
      /\ \A e : When(s.dirty, e) = <<>>
  BY <1>0 DEF When
<1>4. SlotEvents(s) = <<>> \o <<>> \o <<>>
  BY <1>2, Zenon DEF SlotEvents
<1> QED
  BY <1>1, <1>4

\* Only the slot of the frame has events.
LEMMA OneSlotTells ==
  ASSUME NEW s \in [1 .. EvSlots -> SlotStates], NEW k \in 1 .. EvSlots,
         \A i \in 1 .. EvSlots : i # k => s[i] \in Quiet
  PROVE  FlattenSeq([i \in 1 .. EvSlots |-> SlotEvents(s[i])]) = SlotEvents(s[k])
<1>1. PICK n \in Nat \ {0} : n = EvSlots
  BY SetsuAssumption
<1> DEFINE ss == [i \in 1 .. n |-> SlotEvents(s[i])]
<1>2. \A i \in 1 .. n : ss[i] \in Seq(PadEvents)
  BY <1>1, SlotEventsAre DEF SlotTells
<1>3. ss \in Seq(Seq(PadEvents)) /\ Len(ss) = n
  <2>1. ss = [i \in 1 .. n |-> ss[i]]
    OBVIOUS
  <2> HIDE DEF ss
  <2>2. PICK D : D = Seq(PadEvents)
    OBVIOUS
  <2>3. ss \in [1 .. n -> D]
    BY <1>2, <2>1, <2>2
  <2>4. ss \in Seq(D) /\ Len(ss) = n
    BY <2>3
  <2> QED
    BY <2>2, <2>4
<1>4. PICK q \in Seq(PadEvents) : q = ss[k]
  BY <1>1, <1>2
<1>5. \A i \in 1 .. n : ss[i] = IF i = k THEN q ELSE <<>>
  BY <1>1, <1>4, QuietSlot
<1>6. FlattenSeq(ss) = q
  <2> HIDE DEF ss
  <2>1. PICK f : Flattens(f, ss, PadEvents)
    BY <1>3, FlattenIs
  <2> DEFINE S == {j \in 0 .. n : f[j] = IF j < k THEN <<>> ELSE q}
  <2>2. 0 \in S
    BY <2>1 DEF Flattens
  <2>3. ASSUME NEW j \in 1 .. n, j - 1 \in S PROVE j \in S
    <3>1. f[j] = f[j - 1] \o ss[j]
      BY <1>3, <2>1 DEF Flattens
    <3>2. /\ f[j - 1] = (IF j - 1 < k THEN <<>> ELSE q)
          /\ ss[j] = IF j = k THEN q ELSE <<>>
      BY <1>5, <2>3
    <3>3. <<>> \o <<>> = <<>> /\ <<>> \o q = q /\ q \o <<>> = q
      OBVIOUS
    <3>4. CASE j < k
      <4>1. j - 1 < k /\ j # k
        BY <1>1, <3>4
      <4>2. f[j] = <<>>
        BY <3>1, <3>2, <3>3, <4>1, Zenon
      <4> QED
        BY <3>4, <4>2
    <3>5. CASE j = k
      BY <1>1, <3>1, <3>2, <3>3, <3>5
    <3>6. CASE j > k
      <4>1. ~(j - 1 < k) /\ j # k /\ ~(j < k)
        BY <1>1, <3>6
      <4>2. f[j] = q
        BY <3>1, <3>2, <3>3, <4>1, Zenon
      <4> QED
        BY <4>1, <4>2
    <3> QED
      BY <1>1, <3>4, <3>5, <3>6
  <2>4. \A j \in 0 .. n : j \in S
    <3> HIDE DEF S
    <3> QED
      BY <2>2, <2>3, Induct
  <2>5. f[n] = q
    BY <1>1, <2>4
  <2> QED
    BY <1>3, <2>1, <2>5 DEF Flattens
<1> QED
  BY <1>1, <1>4, <1>6

\* One frame of poll_device, and what it comes to: only its slot changes.
DrainedAfter(p, fr) ==
  LET b == IF fr.kind = "button" THEN fr.id = 1 ELSE p.button
      s == IF fr.kind = "button" THEN p.slots ELSE [p.slots EXCEPT ![fr.slot] = AfterFrame(@, fr)]
  IN  [slots  |-> [i \in 1 .. EvSlots |-> Drained(s[i])], button |-> b,
       events |-> p.events \o FlattenSeq([i \in 1 .. EvSlots |-> SlotEvents(s[i])])
                  \o ButtonEvents(p.button, b)]

PollStates == [slots : [1 .. EvSlots -> Quiet], button : BOOLEAN, events : Seq(PadEvents)]

Presses(q) == q \in Seq(PadEvents) /\ \A k \in 1 .. Len(q) : q[k].kind \in {"button_down", "button_up"}

\* From p to r by the frame fr, which makes the events q.
FrameStep(p, r, q, fr) ==
  /\ r \in PollStates /\ q \in Seq(PadEvents) /\ r.events = p.events \o q
  /\ fr \in PressFrames => r.slots = p.slots /\ Presses(q)
  /\ fr \in TrackFrames =>
       LET s == p.slots[fr.slot]
       IN  /\ r.slots = [p.slots EXCEPT ![fr.slot] = r.slots[fr.slot]]
           /\ r.slots[fr.slot].id = IdAfter(s.id, fr)
           /\ s.id # -1 /\ fr.kind # "move" => \E k \in 1 .. Len(q) : q[k].kind = "up" /\ q[k].id = s.id
           /\ \A k \in 1 .. Len(q) : q[k].kind = "position" => k = Len(q) /\ q[k].id = IdAfter(s.id, fr)

\* The button's events, and none if it did not change.
LEMMA ButtonEventsAre ==
  ASSUME NEW a \in BOOLEAN, NEW b \in BOOLEAN
  PROVE  Presses(ButtonEvents(a, b)) /\ ButtonEvents(a, a) = <<>>
<1>1. PICK k \in {"button_down", "button_up"} : k = IF b THEN "button_down" ELSE "button_up"
  OBVIOUS
<1>2. PICK e : e = Event(k, -1, 0)
  OBVIOUS
<1>3. e \in PadEvents /\ e.kind = k
  BY <1>2 DEF Event, PadEvents
<1>4. ButtonEvents(a, b) = <<e>> \/ ButtonEvents(a, b) = <<>>
  BY <1>1, <1>2, Zenon DEF ButtonEvents, When
<1>5. Presses(<<e>>) /\ Presses(<<>>)
  BY <1>3 DEF Presses
<1>6. ButtonEvents(a, a) = <<>>
  BY Zenon DEF ButtonEvents, When
<1> QED
  BY <1>4, <1>5, <1>6

\* A button's frame.
LEMMA PressFrameStep ==
  ASSUME NEW p \in PollStates, NEW fr \in PressFrames
  PROVE  \E q : FrameStep(p, DrainedAfter(p, fr), q, fr)
<1>1. fr.kind = "button" /\ fr \notin TrackFrames
  BY DEF PressFrames, TrackFrames
<1>2. PICK b \in BOOLEAN, c \in BOOLEAN : b = (fr.id = 1) /\ c = p.button
  BY DEF PollStates
<1>3. PICK s \in [1 .. EvSlots -> Quiet], es \in Seq(PadEvents) : s = p.slots /\ es = p.events
  BY DEF PollStates
<1>4. PICK q \in Seq(PadEvents) : q = ButtonEvents(c, b) /\ Presses(q)
  BY ButtonEventsAre DEF Presses
<1>5. [i \in 1 .. EvSlots |-> Drained(s[i])] = s
  BY QuietSlot
<1>6. FlattenSeq([i \in 1 .. EvSlots |-> SlotEvents(s[i])]) = <<>>
  <2>1. s \in [1 .. EvSlots -> SlotStates] /\ 1 \in 1 .. EvSlots
    BY SetsuAssumption DEF Quiet
  <2>2. FlattenSeq([i \in 1 .. EvSlots |-> SlotEvents(s[i])]) = SlotEvents(s[1])
    BY <2>1, OneSlotTells
  <2> QED
    BY <2>1, <2>2, QuietSlot
<1>7. DrainedAfter(p, fr) = [slots |-> s, button |-> b, events |-> es \o <<>> \o q]
  BY <1>1, <1>2, <1>3, <1>4, <1>5, <1>6, Zenon DEF DrainedAfter
<1>8. es \o <<>> \o q = es \o q /\ es \o q \in Seq(PadEvents)
  OBVIOUS
<1>9. PICK r : r = [slots |-> s, button |-> b, events |-> es \o q]
  OBVIOUS
<1>10. r \in PollStates /\ r.slots = s /\ r.events = es \o q
  BY <1>8, <1>9 DEF PollStates
<1>11. FrameStep(p, r, q, fr)
  BY <1>1, <1>3, <1>4, <1>10 DEF FrameStep
<1> QED
  BY <1>7, <1>8, <1>9, <1>11

\* A finger's frame.
LEMMA TrackFrameStep ==
  ASSUME NEW p \in PollStates, NEW fr \in TrackFrames
  PROVE  \E q : FrameStep(p, DrainedAfter(p, fr), q, fr)
<1>1. fr.kind # "button" /\ fr.slot \in 1 .. EvSlots /\ fr \notin PressFrames
  BY DEF PressFrames, TrackFrames
<1>2. PICK c \in BOOLEAN : c = p.button
  BY DEF PollStates
<1>3. PICK s \in [1 .. EvSlots -> Quiet], es \in Seq(PadEvents) : s = p.slots /\ es = p.events
  BY DEF PollStates
<1>4. PICK x \in 1 .. EvSlots : x = fr.slot
  BY <1>1
<1>5. PICK a : a = AfterFrame(s[x], fr) /\ FrameMakes(s[x], a, fr)
  BY AfterFrameIs
<1>6. PICK d : d = Drained(a)
  OBVIOUS
<1>7. a \in SlotStates /\ d \in Quiet /\ d.id = a.id /\ SlotTells(SlotEvents(a), a)
  BY <1>5, <1>6, SlotEventsAre DEF FrameMakes
<1>8. PICK q \in Seq(PadEvents) : q = SlotEvents(a) /\ SlotTells(q, a)
  BY <1>7 DEF SlotTells
<1>9. PICK t : t = [s EXCEPT ![x] = a]
  OBVIOUS
<1>10. t \in [1 .. EvSlots -> SlotStates] /\ t[x] = a /\ \A i \in 1 .. EvSlots : i # x => t[i] = s[i]
  BY <1>7, <1>9 DEF Quiet
<1>11. FlattenSeq([i \in 1 .. EvSlots |-> SlotEvents(t[i])]) = q
  BY <1>8, <1>10, OneSlotTells
<1>12. PICK u \in [1 .. EvSlots -> Quiet] : u = [s EXCEPT ![x] = d]
  BY <1>7
<1>13. [i \in 1 .. EvSlots |-> Drained(t[i])] = u
  <2>1. ASSUME NEW i \in 1 .. EvSlots PROVE Drained(t[i]) = u[i]
    BY <1>6, <1>10, <1>12, QuietSlot
  <2> QED
    BY <1>12, <2>1
<1>14. ButtonEvents(c, c) = <<>>
  BY ButtonEventsAre
<1>15. DrainedAfter(p, fr) = [slots |-> u, button |-> c, events |-> es \o q \o <<>>]
  BY <1>1, <1>2, <1>3, <1>4, <1>5, <1>9, <1>11, <1>13, <1>14, Zenon DEF DrainedAfter
<1>16. es \o q \o <<>> = es \o q /\ es \o q \in Seq(PadEvents)
  OBVIOUS
<1>17. PICK r : r = [slots |-> u, button |-> c, events |-> es \o q]
  OBVIOUS
<1>18. r \in PollStates /\ r.slots = u /\ r.events = es \o q
  BY <1>16, <1>17 DEF PollStates
<1>19. r.slots = [p.slots EXCEPT ![fr.slot] = r.slots[fr.slot]] /\ r.slots[fr.slot] = d
  BY <1>3, <1>4, <1>12, <1>18
<1>20. d.id = IdAfter(s[x].id, fr)
  BY <1>5, <1>7 DEF FrameMakes
<1>21. s[x].id # -1 /\ fr.kind # "move" => \E k \in 1 .. Len(q) : q[k].kind = "up" /\ q[k].id = s[x].id
  <2>1. ASSUME s[x].id # -1, fr.kind # "move"
        PROVE  \E k \in 1 .. Len(q) : q[k].kind = "up" /\ q[k].id = s[x].id
    <3>1. a.prev = s[x].id /\ a.prev # -1
      BY <1>5, <2>1 DEF FrameMakes
    <3> QED
      BY <1>8, <3>1 DEF SlotTells
  <2> QED
    BY <2>1
<1>22. \A k \in 1 .. Len(q) : q[k].kind = "position" => k = Len(q) /\ q[k].id = IdAfter(s[x].id, fr)
  BY <1>7, <1>8, <1>20 DEF SlotTells
<1>23. FrameStep(p, r, q, fr)
  BY <1>1, <1>3, <1>4, <1>18, <1>19, <1>20, <1>21, <1>22 DEF FrameStep
<1> QED
  BY <1>15, <1>16, <1>17, <1>23

\* The states after each of the frames.
Polls(f) ==
  /\ f \in [0 .. Len(frames) -> PollStates] /\ f[Len(frames)] = Polled
  /\ f[0] = [slots |-> slots, button |-> buttonPrev, events |-> <<>>]
  /\ \A k \in 1 .. Len(frames) : \E q : FrameStep(f[k - 1], f[k], q, frames[k])

\* Polled, by its recursion over the frames.
LEMMA PolledIs ==
  ASSUME slots \in [1 .. EvSlots -> Quiet], buttonPrev \in BOOLEAN, frames \in Seq(PadFrames)
  PROVE  \E f : Polls(f)
<1>1. PICK N \in Nat : N = Len(frames)
  OBVIOUS
<1>2. PICK base : base = [slots |-> slots, button |-> buttonPrev, events |-> <<>>]
  OBVIOUS
<1>3. base \in PollStates
  BY <1>2 DEF PollStates
<1>4. ASSUME NEW p \in PollStates, NEW k \in 1 .. N
      PROVE  /\ DrainedAfter(p, frames[k]) \in PollStates
             /\ \E q : FrameStep(p, DrainedAfter(p, frames[k]), q, frames[k])
  <2>1. frames[k] \in TrackFrames \/ frames[k] \in PressFrames
    BY <1>1 DEF PadFrames
  <2>2. \E q : FrameStep(p, DrainedAfter(p, frames[k]), q, frames[k])
    BY <2>1, TrackFrameStep, PressFrameStep
  <2> QED
    BY <2>2 DEF FrameStep
<1> DEFINE h == [x \in PollStates \X (1 .. N) |-> DrainedAfter(x[1], frames[x[2]])]
<1>5. \A p \in PollStates, k \in 1 .. N : h[<<p, k>>] = DrainedAfter(p, frames[k])
  OBVIOUS
<1>6. h \in [PollStates \X (1 .. N) -> PollStates]
  <2>1. ASSUME NEW x \in PollStates \X (1 .. N) PROVE DrainedAfter(x[1], frames[x[2]]) \in PollStates
    BY <1>4
  <2> QED
    BY <2>1
<1> HIDE DEF h
<1>7. PICK f : Recurs(f, N, PollStates, base, h)
  BY <1>3, <1>6, Recursion
<1>8. ASSUME NEW k \in 1 .. N PROVE f[k - 1] \in PollStates /\ f[k] = DrainedAfter(f[k - 1], frames[k])
  <2>1. k - 1 \in 0 .. N
    OBVIOUS
  <2> QED
    BY <1>5, <1>7, <2>1 DEF Recurs
<1> DEFINE Drains(g) == g = [n \in 0 .. N |-> IF n = 0 THEN base ELSE DrainedAfter(g[n - 1], frames[n])]
           c == CHOOSE g : Drains(g)
<1>9. Drains(f)
  <2>1. f \in [0 .. N -> PollStates] /\ f[0] = base
    BY <1>7 DEF Recurs
  <2>2. \A n \in 0 .. N : f[n] = IF n = 0 THEN base ELSE DrainedAfter(f[n - 1], frames[n])
    BY <1>8, <2>1
  <2> QED
    BY <2>1, <2>2
<1>10. Drains(c)
  BY <1>9
<1>11. Polled = c[N]
  BY <1>1, <1>2 DEF Polled, DrainedAfter
<1> HIDE DEF c
<1>12. /\ c = [n \in 0 .. N |-> c[n]] /\ c[0] = base
       /\ \A k \in 1 .. N : c[k] = DrainedAfter(c[k - 1], frames[k])
  <2>1. c = [n \in 0 .. N |-> IF n = 0 THEN base ELSE DrainedAfter(c[n - 1], frames[n])]
    BY <1>10
  <2>2. \A n \in 0 .. N : c[n] = IF n = 0 THEN base ELSE DrainedAfter(c[n - 1], frames[n])
    BY <2>1
  <2>3. c = [n \in 0 .. N |-> c[n]]
    BY <2>1, <2>2
  <2>4. c[0] = base
    BY <2>2
  <2>5. ASSUME NEW k \in 1 .. N PROVE c[k] = DrainedAfter(c[k - 1], frames[k])
    <3>1. k \in 0 .. N /\ k # 0
      OBVIOUS
    <3> QED
      BY <2>2, <3>1, Zenon
  <2> QED
    BY <2>3, <2>4, <2>5
<1> HIDE DEF Drains
<1> DEFINE S == {n \in 0 .. N : c[n] \in PollStates}
<1>13. 0 \in S
  BY <1>3, <1>12
<1>14. ASSUME NEW n \in 1 .. N, n - 1 \in S PROVE n \in S
  BY <1>4, <1>12, <1>14
<1>15. \A n \in 0 .. N : n \in S
  <2> HIDE DEF S
  <2> QED
    BY <1>13, <1>14, Induct
<1>16. c \in [0 .. N -> PollStates]
  BY <1>12, <1>15
<1>17. ASSUME NEW k \in 1 .. N PROVE \E q : FrameStep(c[k - 1], c[k], q, frames[k])
  <2>0. k - 1 \in 0 .. N
    OBVIOUS
  <2>1. c[k - 1] \in PollStates /\ c[k] = DrainedAfter(c[k - 1], frames[k])
    BY <1>12, <1>16, <2>0
  <2> QED
    BY <1>4, <2>1
<1> QED
  BY <1>1, <1>2, <1>11, <1>12, <1>16, <1>17 DEF Polls

-----------------------------------------------------------------------------
(* What the console knows of the events                                    *)

StatesTyped ==
  /\ session \in States /\ cur \in States /\ prev \in States
  /\ keyboard \in States /\ setsu \in States /\ pad \in [open : BOOLEAN, state : States]
  /\ active \in BOOLEAN /\ changed \in BOOLEAN
  /\ sender \in {"none", "waits", "stops", "ended"}

PadTyped ==
  /\ slots \in [1 .. EvSlots -> Quiet] /\ buttonPrev \in BOOLEAN
  /\ frames \in Seq(PadFrames) /\ todo \in Seq(PadEvents)
  /\ finger \in [1 .. EvSlots -> Int] /\ lastId \in Nat /\ inputs \in Nat

LossInv == HistoryInv /\ StatesTyped /\ PadTyped

\* What the history consists of.
historyVars == <<ring, log, net, heard>>

\* The history is as it was when nothing of it changes.
LEMMA HistoryStays ==
  ASSUME HistoryInv, UNCHANGED historyVars PROVE HistoryInv'
  BY DEF HistoryInv, HeardIs, historyVars

\* A state that is sent.
LEMMA SendKeeps ==
  ASSUME StatesTyped, NEW s \in States, NEW p \in [open : BOOLEAN, state : States], NEW k \in States,
         SendFeedbackState(s, p, k)
  PROVE  StatesTyped' /\ UNCHANGED historyVars
<1>1. PICK m \in States : m = Merged(s, p, k)
  BY MergedIs
<1>2. setsu' = s /\ pad' = p /\ keyboard' = k /\ session' = m
  BY <1>1 DEF SendFeedbackState, SetState
<1>3. cur' \in States /\ changed' \in BOOLEAN
  <2>1. CASE active /\ ~Equals(cur, m)
    BY <1>1, <2>1 DEF SendFeedbackState, SetState
  <2>2. CASE ~(active /\ ~Equals(cur, m))
    BY <1>1, <2>2 DEF SendFeedbackState, SetState, StatesTyped
  <2> QED
    BY <2>1, <2>2
<1>4. prev' = prev /\ active' = active /\ sender' = sender /\ UNCHANGED historyVars
  BY DEF SendFeedbackState, netVars, historyVars
<1> QED
  BY <1>1, <1>2, <1>3, <1>4 DEF StatesTyped

\* The sender's steps.
LEMMA SenderKeepsLoss ==
  ASSUME LossInv, SenderStep, UNCHANGED <<mainVars, inputs, setsuVars>> PROVE LossInv'
<1>1. PadTyped' /\ UNCHANGED stateVars
  BY DEF LossInv, PadTyped, mainVars, setsuVars
<1>2. keyboard' \in States /\ setsu' \in States /\ pad' \in [open : BOOLEAN, state : States]
  BY <1>1 DEF LossInv, StatesTyped, stateVars
<1>3. CASE Start
  <2>1. StatesTyped' /\ UNCHANGED historyVars
    <3>1. changed' \in BOOLEAN
      BY <1>3 DEF Start
    <3>2. sender' = "waits" /\ active' = TRUE /\ cur' = session /\ session' = session /\ prev' = prev
      BY <1>3 DEF Start
    <3>3. UNCHANGED historyVars
      BY <1>3 DEF Start, netVars, historyVars
    <3> QED
      BY <1>2, <3>1, <3>2, <3>3 DEF LossInv, StatesTyped
  <2> QED
    BY <1>1, <2>1, HistoryStays DEF LossInv
<1>4. CASE Turn
  <2>1. PICK ev : ev = IF changed THEN Events(prev, cur) ELSE <<>>
    OBVIOUS
  <2>2. ev \in Seq(FeedbackEvents)
    BY <2>1, EventsAre DEF LossInv, StatesTyped
  <2>3. Tells(ev)
    BY <1>4, <2>1 DEF Turn, Tells
  <2>4. HistoryInv'
    BY <2>2, <2>3, TellsHistory DEF LossInv
  <2>5. StatesTyped'
    BY <1>2, <1>4 DEF Turn, LossInv, StatesTyped
  <2> QED
    BY <1>1, <2>4, <2>5 DEF LossInv
<1>5. CASE Fini
  <2>1. StatesTyped' /\ UNCHANGED historyVars
    BY <1>2, <1>5 DEF Fini, LossInv, StatesTyped, netVars, historyVars
  <2> QED
    BY <1>1, <2>1, HistoryStays DEF LossInv
<1>6. CASE Ends
  <2>1. StatesTyped' /\ UNCHANGED historyVars
    BY <1>2, <1>6 DEF Ends, LossInv, StatesTyped, netVars, historyVars
  <2> QED
    BY <1>1, <2>1, HistoryStays DEF LossInv
<1>8. CASE SenderFails
  <2>1. StatesTyped' /\ UNCHANGED historyVars
    BY <1>2, <1>8 DEF SenderFails, LossInv, StatesTyped, netVars, historyVars
  <2> QED
    BY <1>1, <2>1, HistoryStays DEF LossInv
<1>7. CASE ConsoleTakes
  <2>1. StatesTyped'
    BY <1>2, <1>7 DEF ConsoleTakes, LossInv, StatesTyped, senderVars
  <2>2. HistoryInv'
    BY <1>7, TakesHistory DEF LossInv
  <2> QED
    BY <1>1, <2>1, <2>2 DEF LossInv
<1> QED
  BY <1>3, <1>4, <1>5, <1>6, <1>7, <1>8 DEF SenderStep

\* What the user does with keys and controllers, and the timer.
LEMMA DevicesKeepLoss ==
  ASSUME LossInv, Key \/ PadEvent \/ UpdateGamepads \/ Motion PROVE LossInv'
<1>1. StatesTyped' /\ UNCHANGED historyVars
  <2>1. CASE Key
    <3>1. PICK b \in {"cross", "stick"} : SendFeedbackState(setsu, pad, Toggle(keyboard, b))
      BY <2>1 DEF Key
    <3>2. Toggle(keyboard, b) \in States
      BY ToggledIs DEF LossInv, StatesTyped
    <3> QED
      BY <3>1, <3>2, SendKeeps DEF LossInv, StatesTyped
  <2>2. CASE PadEvent
    <3>1. PICK b \in {"cross", "l2"} :
            SendFeedbackState(setsu, [pad EXCEPT !.state = Toggle(@, b)], keyboard)
      BY <2>2 DEF PadEvent
    <3>2. PICK t \in States : t = Toggle(pad.state, b)
      BY ToggledIs DEF LossInv, StatesTyped
    <3>3. [pad EXCEPT !.state = Toggle(@, b)] \in [open : BOOLEAN, state : States]
      BY <3>2 DEF LossInv, StatesTyped
    <3> QED
      BY <3>1, <3>3, SendKeeps DEF LossInv, StatesTyped
  <2>3. CASE UpdateGamepads
    <3>1. Replaced(pad) \in [open : BOOLEAN, state : States]
      BY IdleIs DEF Replaced, Closed
    <3> QED
      BY <2>3, <3>1, SendKeeps DEF UpdateGamepads, LossInv, StatesTyped
  <2>4. CASE Motion
    BY <2>4, SendKeeps DEF Motion, LossInv, StatesTyped
  <2> QED
    BY <2>1, <2>2, <2>3, <2>4
<1>2. PadTyped'
  <2>1. inputs' = inputs \/ inputs' = inputs + 1
    BY DEF Key, PadEvent, UpdateGamepads, Motion, Does
  <2>2. UNCHANGED <<todo, setsuVars>>
    BY DEF Key, PadEvent, UpdateGamepads, Motion, Atomic
  <2> QED
    BY <2>1, <2>2 DEF LossInv, PadTyped, setsuVars
<1> QED
  BY <1>1, <1>2, HistoryStays DEF LossInv

\* The touchpad's frames are handled.
LEMMA PollDeviceKeepsLoss ==
  ASSUME LossInv, PollDevice PROVE LossInv'
<1>1. PICK f : Polls(f)
  BY PolledIs DEF LossInv, PadTyped
<1>2. PICK n \in Nat : n = Len(frames)
  BY DEF LossInv, PadTyped
<1>3. PICK p \in PollStates : p = Polled
  BY <1>1, <1>2 DEF Polls
<1>4. slots' = p.slots /\ buttonPrev' = p.button /\ todo' = p.events /\ frames' = <<>>
  BY <1>3 DEF PollDevice
<1>5. PadTyped'
  <2>1. UNCHANGED <<finger, lastId, inputs>>
    BY DEF PollDevice
  <2>2. slots' \in [1 .. EvSlots -> Quiet] /\ buttonPrev' \in BOOLEAN /\ todo' \in Seq(PadEvents)
    BY <1>4 DEF PollStates
  <2>3. frames' \in Seq(PadFrames)
    BY <1>4
  <2> QED
    BY <2>1, <2>2, <2>3 DEF LossInv, PadTyped
<1>6. StatesTyped' /\ UNCHANGED historyVars
  BY DEF PollDevice, LossInv, StatesTyped, stateVars, senderVars, netVars, historyVars
<1> QED
  BY <1>5, <1>6, HistoryStays DEF LossInv

\* The touchpad is connected, or gone.
LEMMA PollDevicesKeepsLoss ==
  ASSUME LossInv, PollDevices PROVE LossInv'
<1>1. StatesTyped' /\ UNCHANGED historyVars
  <2>1. CASE SendFeedbackState(Removed(setsu), pad, keyboard)
    <3>1. Removed(setsu) \in States
      BY TouchedIs DEF Removed, LossInv, StatesTyped
    <3> QED
      BY <2>1, <3>1, SendKeeps DEF LossInv, StatesTyped
  <2>2. CASE UNCHANGED <<stateVars, ids, senderVars, netVars>>
    BY <2>2 DEF LossInv, StatesTyped, stateVars, senderVars, netVars, historyVars
  <2> QED
    BY <2>1, <2>2, Zenon DEF PollDevices
<1>2. PadTyped'
  <2>1. Untouched \in [1 .. EvSlots -> Quiet]
    BY DEF Untouched, Empty, Quiet, SlotStates
  <2>2. \/ slots' = Untouched /\ buttonPrev' = FALSE /\ frames' = <<>>
        \/ UNCHANGED <<slots, buttonPrev, frames>>
    BY Zenon DEF PollDevices
  <2>3. UNCHANGED <<todo, inputs, finger, lastId>>
    BY DEF PollDevices
  <2>4. CASE slots' = Untouched /\ buttonPrev' = FALSE /\ frames' = <<>>
    <3>1. frames' \in Seq(PadFrames)
      BY <2>4
    <3>2. slots' \in [1 .. EvSlots -> Quiet] /\ buttonPrev' \in BOOLEAN
      BY <2>1, <2>4
    <3> QED
      BY <2>3, <3>1, <3>2 DEF LossInv, PadTyped
  <2>5. CASE UNCHANGED <<slots, buttonPrev, frames>>
    BY <2>3, <2>5 DEF LossInv, PadTyped
  <2> QED
    BY <2>2, <2>4, <2>5
<1> QED
  BY <1>1, <1>2, HistoryStays DEF LossInv

\* One of its events is handled.
LEMMA HandleKeepsLoss ==
  ASSUME LossInv, HandleSetsuEvent PROVE LossInv'
<1>1. PadTyped'
  BY DEF HandleSetsuEvent, LossInv, PadTyped, setsuVars
<1>2. PICK e \in PadEvents : e = Head(todo)
  BY DEF HandleSetsuEvent, LossInv, PadTyped
<1>3. StatesTyped' /\ UNCHANGED historyVars
  <2>0. \A which, id : /\ StartTouch(setsu, e.pos) \in States /\ SetTouchPos(setsu, id, e.pos) \in States
                       /\ Released(setsu, which) \in States
    <3>1. e.pos \in Nat
      BY DEF PadEvents
    <3> QED
      BY <3>1, TouchedIs DEF LossInv, StatesTyped
  <2>1. CASE \E s \in States : SendFeedbackState(s, pad, keyboard)
    BY <2>1, SendKeeps DEF LossInv, StatesTyped
  <2>2. CASE e.kind \in {"button_down", "button_up"} /\ UNCHANGED <<keyboard, pad, ids, senderVars, netVars>>
             /\ setsu' = [setsu EXCEPT !.buttons = IF e.kind = "button_down" THEN @ \cup {"touchpad"}
                                                   ELSE @ \ {"touchpad"}]
    <3>1. setsu' \in States
      BY <2>2 DEF LossInv, StatesTyped, States, Marked
    <3> QED
      BY <2>2, <3>1 DEF LossInv, StatesTyped, senderVars, netVars, historyVars
  <2>3. CASE UNCHANGED <<stateVars, ids, senderVars, netVars>>
    BY <2>3 DEF LossInv, StatesTyped, stateVars, senderVars, netVars, historyVars
  <2>4. \/ SendFeedbackState(Released(setsu, {TouchOf(p) : p \in Of(e.id)}), pad, keyboard)
        \/ SendFeedbackState(SetTouchPos(setsu, TouchOf(CHOOSE p \in Of(e.id) : TRUE), e.pos), pad, keyboard)
        \/ SendFeedbackState(StartTouch(setsu, e.pos), pad, keyboard)
        \/ e.kind \in {"button_down", "button_up"} /\ UNCHANGED <<keyboard, pad, ids, senderVars, netVars>>
           /\ setsu' = [setsu EXCEPT !.buttons = IF e.kind = "button_down" THEN @ \cup {"touchpad"}
                                                 ELSE @ \ {"touchpad"}]
        \/ UNCHANGED <<stateVars, ids, senderVars, netVars>>
    BY <1>2, Zenon DEF HandleSetsuEvent
  <2> QED
    BY <2>0, <2>1, <2>2, <2>3, <2>4, Zenon
<1> QED
  BY <1>1, <1>3, HistoryStays DEF LossInv

\* The kernel's frames are frames.
LEMMA FramesAre ==
  ASSUME PadTyped, NEW fr, frames' = Append(frames, fr) \/ frames' = frames,
         fr \in PadFrames
  PROVE  frames' \in Seq(PadFrames)
<1>1. PICK q \in Seq(PadFrames) : q = frames
  BY DEF PadTyped
<1>2. Append(q, fr) \in Seq(PadFrames)
  OBVIOUS
<1> QED
  BY <1>1, <1>2

\* The user at the touchpad.
LEMMA PadKeepsLoss ==
  ASSUME LossInv, Pad PROVE LossInv'
<1>1. StatesTyped' /\ UNCHANGED historyVars
  BY DEF Pad, LossInv, StatesTyped, mainVars, stateVars, senderVars, netVars, historyVars
<1>2. inputs' \in Nat /\ todo' \in Seq(PadEvents)
  BY DEF Pad, Does, LossInv, PadTyped, mainVars
<1>3. PadTyped'
  <2>1. CASE Fingers
    <3>1. UNCHANGED <<slots, buttonPrev>>
      BY <2>1 DEF Fingers, Unchanged
    <3>2. PICK i \in 1 .. EvSlots :
            /\ lastId' = lastId + 1 \/ lastId' = lastId
            /\ \/ finger' = [finger EXCEPT ![i] = lastId + 1]
               \/ finger' = [finger EXCEPT ![i] = -1]
               \/ finger' = finger
            /\ \/ Frame([kind |-> "down", slot |-> i, id |-> lastId + 1, pos |-> 1])
               \/ Frame([kind |-> "up", slot |-> i, id |-> -1, pos |-> 0])
               \/ Frame([kind |-> "swap", slot |-> i, id |-> lastId + 1, pos |-> 1])
               \/ Frame([kind |-> "move", slot |-> i, id |-> finger[i], pos |-> 2])
      BY <2>1, Zenon DEF Fingers
    <3>3. finger[i] \in Int /\ lastId + 1 \in Int
      BY DEF LossInv, PadTyped
    <3>4. /\ [kind |-> "down", slot |-> i, id |-> lastId + 1, pos |-> 1] \in PadFrames
          /\ [kind |-> "up", slot |-> i, id |-> -1, pos |-> 0] \in PadFrames
          /\ [kind |-> "swap", slot |-> i, id |-> lastId + 1, pos |-> 1] \in PadFrames
          /\ [kind |-> "move", slot |-> i, id |-> finger[i], pos |-> 2] \in PadFrames
      BY <3>3 DEF PadFrames, TrackFrames
    <3>5. PICK fr \in PadFrames : frames' = Append(frames, fr) \/ frames' = frames
      BY <3>2, <3>4, Zenon DEF Frame
    <3>6. frames' \in Seq(PadFrames)
      BY <3>5, FramesAre DEF LossInv
    <3>7. finger' \in [1 .. EvSlots -> Int] /\ lastId' \in Nat
      BY <3>2, <3>3 DEF LossInv, PadTyped
    <3> QED
      BY <1>2, <3>1, <3>6, <3>7 DEF LossInv, PadTyped
  <2>2. CASE PressPad
    <3>1. UNCHANGED <<slots, buttonPrev, finger, lastId>>
      BY <2>2 DEF PressPad, Unchanged
    <3>2. PICK fr : /\ fr = [kind |-> "button", slot |-> 0, id |-> IF pressed THEN 0 ELSE 1, pos |-> 0]
                    /\ frames' = Append(frames, fr) \/ frames' = frames
      BY <2>2, Zenon DEF PressPad, Frame
    <3>3. fr \in PadFrames
      BY <3>2 DEF PadFrames, PressFrames
    <3>4. frames' \in Seq(PadFrames)
      BY <3>2, <3>3, FramesAre DEF LossInv
    <3> QED
      BY <1>2, <3>1, <3>4 DEF LossInv, PadTyped
  <2>3. CASE Plug
    <3>1. frames' = <<>> /\ finger' = [i \in 1 .. EvSlots |-> -1] /\ UNCHANGED <<lastId, slots, buttonPrev>>
      BY <2>3 DEF Plug
    <3> QED
      BY <1>2, <3>1 DEF LossInv, PadTyped
  <2> QED
    BY <2>1, <2>2, <2>3 DEF Pad
<1> QED
  BY <1>1, <1>3, HistoryStays DEF LossInv

\* At the start, where nothing was sent.
LEMMA LossInitially ==
  InputInit => LossInv
<1> SUFFICES ASSUME InputInit PROVE LossInv
  OBVIOUS
<1>1. StatesTyped
  BY IdleIs DEF InputInit, SenderInit, Closed, StatesTyped
<1>2. PadTyped
  <2>1. Untouched \in [1 .. EvSlots -> Quiet]
    BY DEF Untouched, Empty, Quiet, SlotStates
  <2>2. /\ slots = Untouched /\ buttonPrev = FALSE /\ frames = <<>> /\ todo = <<>>
        /\ finger = [i \in 1 .. EvSlots |-> -1] /\ lastId = 0 /\ inputs = 0
    BY DEF InputInit, SetsuInit
  <2>3. frames \in Seq(PadFrames) /\ todo \in Seq(PadEvents)
    BY <2>2
  <2>4. slots \in [1 .. EvSlots -> Quiet] /\ buttonPrev \in BOOLEAN
    BY <2>1, <2>2
  <2>5. finger \in [1 .. EvSlots -> Int] /\ lastId \in Nat /\ inputs \in Nat
    BY <2>2
  <2> QED
    BY <2>3, <2>4, <2>5 DEF PadTyped
<1>3. HistoryInv
  <2>1. PICK n \in Nat \ {0} : n = HistorySize
    BY FeedbackAssumption
  <2>2. Trigger(0) \in FeedbackEvents
    BY DEF FeedbackEvents, TriggerMarks, Trigger
  <2>3. ring \in Rings
    BY <2>1, <2>2 DEF InputInit, SenderInit, Rings
  <2>4. log = <<>> /\ net = {} /\ heard = [number |-> 0, events |-> <<>>, missed |-> FALSE] /\ ring.len = 0
    BY DEF InputInit, SenderInit
  <2>5. Latest(ring, log, Len(log))
    BY <2>1, <2>4 DEF Latest
  <2>6. HeardIs
    BY <2>4 DEF HeardIs, Knows
  <2> QED
    BY <2>3, <2>4, <2>5, <2>6 DEF HistoryInv
<1> QED
  BY <1>1, <1>2, <1>3 DEF LossInv

\* Every step of every thread and of the network keeps it.
LEMMA LossStays ==
  ASSUME LossInv, [InputNext]_inputVars PROVE LossInv'
<1>1. CASE UNCHANGED inputVars
  <2>1. UNCHANGED historyVars
    BY <1>1 DEF inputVars, senderVars, netVars, historyVars
  <2> QED
    BY <1>1, <2>1, HistoryStays
    DEF LossInv, StatesTyped, PadTyped, inputVars, senderVars, netVars, mainVars, stateVars, setsuVars
<1>2. CASE Key \/ PadEvent \/ UpdateGamepads \/ Motion
  BY <1>2, DevicesKeepLoss
<1>3. CASE PollDevices
  BY <1>3, PollDevicesKeepsLoss
<1>4. CASE PollDevice
  BY <1>4, PollDeviceKeepsLoss
<1>5. CASE HandleSetsuEvent
  BY <1>5, HandleKeepsLoss
<1>6. CASE Pad
  BY <1>6, PadKeepsLoss
<1>7. CASE SenderStep /\ UNCHANGED <<mainVars, inputs, setsuVars>>
  BY <1>7, SenderKeepsLoss
<1> QED
  BY <1>1, <1>2, <1>3, <1>4, <1>5, <1>6, <1>7 DEF InputNext, Main

\* What the console knows is the beginning of the log, unless it missed some.
LEMMA LossIs ==
  LossInv => LossIsCovered /\ InputTypeOK
<1> SUFFICES ASSUME LossInv PROVE LossIsCovered /\ InputTypeOK
  OBVIOUS
<1>1. ASSUME ~heard.missed PROVE heard.events = SubSeq(log, 1, heard.number)
  <2>1. PICK l \in Seq(FeedbackEvents), n \in Nat, es \in Seq(FeedbackEvents) :
          l = log /\ n = heard.number /\ es = heard.events /\ n <= Len(l) /\ Knows(es, l, n)
    BY <1>1 DEF LossInv, HistoryInv, HeardIs, Knows
  <2>2. SubSeq(l, 1, n) \in Seq(FeedbackEvents) /\ Len(SubSeq(l, 1, n)) = n
        /\ \A i \in 1 .. n : SubSeq(l, 1, n)[i] = l[i]
    BY <2>1
  <2>3. Len(es) = n /\ \A i \in 1 .. n : es[i] = SubSeq(l, 1, n)[i]
    BY <2>1, <2>2 DEF Knows
  <2>4. es = SubSeq(l, 1, n)
    BY <2>2, <2>3, SeqEqual
  <2> QED
    BY <2>1, <2>4
<1>2. InputTypeOK
  <2>1. todo \in Seq([kind : {"up", "down", "position", "button_down", "button_up"}, id : Int, pos : Nat])
    BY DEF LossInv, PadTyped, PadEvents
  <2>2. DOMAIN ring.events = 0 .. (HistorySize - 1) /\ ring.len <= HistorySize
    BY FeedbackAssumption DEF LossInv, HistoryInv, Rings
  <2> QED
    BY <2>1, <2>2 DEF InputTypeOK, LossInv, StatesTyped
<1> QED
  BY <1>1, <1>2 DEF LossIsCovered

\* Whatever packets are lost, late or taken again, the console knows every event
\* up to the one of the last packet it took, or more were lost in a row than the
\* history holds; for any size of the history.
THEOREM LossCovered == InputSpec => []LossIsCovered
<1>1. InputInit => LossInv
  BY LossInitially
<1>2. LossInv /\ [InputNext]_inputVars => LossInv'
  BY LossStays
<1>3. LossInv => LossIsCovered
  BY LossIs
<1> QED
  BY <1>1, <1>2, <1>3, PTL DEF InputSpec

-----------------------------------------------------------------------------
(* The touchpad as it comes and goes                                       *)

AvailStates == [connect : BOOLEAN, disconnect : BOOLEAN, known : BOOLEAN]

DeviceInv ==
  /\ avail \in AvailStates /\ dev \in BOOLEAN /\ plugged \in BOOLEAN /\ udev \in Seq({"add", "remove"})
  /\ ~avail.disconnect /\ (avail.connect => avail.known /\ ~dev) /\ (dev => avail.known)
  /\ avail.known /\ udev = <<>> => plugged
  /\ avail.known /\ udev # <<>> => udev[1] = "remove"
  /\ ~avail.known /\ udev # <<>> => (plugged <=> udev[Len(udev)] = "add")
  /\ ~dev => ids = {} /\ todo = <<>>

\* update_udev_device for one message.
AvailAfter(a, m) ==
  IF m = "add" THEN (IF a.known THEN a ELSE [connect |-> TRUE, disconnect |-> FALSE, known |-> TRUE])
  ELSE (IF a.known THEN [a EXCEPT !.disconnect = TRUE] ELSE a)

\* A message for a device that is known, and for one that is not.
LEMMA AvailAfterIs ==
  ASSUME NEW a \in AvailStates, NEW m \in {"add", "remove"}
  PROVE  /\ AvailAfter(a, m) \in AvailStates
         /\ a.known => AvailAfter(a, m).known /\ (AvailAfter(a, m).connect <=> a.connect)
                       /\ (AvailAfter(a, m).disconnect <=> a.disconnect \/ m = "remove")
         /\ ~a.known /\ m = "add" => AvailAfter(a, m).known /\ ~AvailAfter(a, m).disconnect
         /\ ~a.known /\ m = "remove" => AvailAfter(a, m) = a
<1>1. CASE a.known /\ m = "add"
  <2>1. AvailAfter(a, m) = a
    BY <1>1 DEF AvailAfter
  <2> QED
    BY <1>1, <2>1 DEF AvailStates
<1>2. CASE a.known /\ m = "remove"
  <2>1. AvailAfter(a, m) = [a EXCEPT !.disconnect = TRUE]
    BY <1>2 DEF AvailAfter
  <2> QED
    BY <1>2, <2>1 DEF AvailStates
<1>3. CASE ~a.known /\ m = "add"
  <2>1. AvailAfter(a, m) = [connect |-> TRUE, disconnect |-> FALSE, known |-> TRUE]
    BY <1>3 DEF AvailAfter
  <2>2. AvailAfter(a, m) \in AvailStates
    BY <2>1 DEF AvailStates
  <2>3. AvailAfter(a, m).known = TRUE /\ AvailAfter(a, m).disconnect = FALSE
    BY <2>1
  <2> QED
    BY <1>3, <2>2, <2>3
<1>4. CASE ~a.known /\ m = "remove"
  <2>1. AvailAfter(a, m) = a
    BY <1>4 DEF AvailAfter
  <2> QED
    BY <1>4, <2>1 DEF AvailStates
<1> QED
  BY <1>1, <1>2, <1>3, <1>4

\* After the first n messages.
AvailIs(a, n) ==
  /\ a \in AvailStates /\ (a.connect => a.known) /\ (a.disconnect => a.known)
  /\ avail.known => a.known /\ (a.connect <=> avail.connect) /\ (n >= 1 => a.disconnect)
  /\ ~avail.known => (n = 0 => ~a.known) /\ (n >= 1 /\ a.known /\ ~a.disconnect => udev[n] = "add")
  /\ n = 0 => a = avail

\* Updated, by its recursion over the messages.
LEMMA UpdatedIs ==
  ASSUME DeviceInv PROVE AvailIs(Updated, Len(udev))
<1>1. PICK N \in Nat : N = Len(udev)
  BY DEF DeviceInv
<1>2. ASSUME NEW k \in 1 .. N PROVE udev[k] \in {"add", "remove"}
  BY <1>1 DEF DeviceInv
<1>3. avail \in AvailStates
  BY DEF DeviceInv
<1> DEFINE h == [x \in AvailStates \X (1 .. N) |-> AvailAfter(x[1], udev[x[2]])]
<1>4. \A a \in AvailStates, k \in 1 .. N : h[<<a, k>>] = AvailAfter(a, udev[k])
  OBVIOUS
<1>5. h \in [AvailStates \X (1 .. N) -> AvailStates]
  <2>1. ASSUME NEW x \in AvailStates \X (1 .. N) PROVE AvailAfter(x[1], udev[x[2]]) \in AvailStates
    <3>1. x[1] \in AvailStates /\ udev[x[2]] \in {"add", "remove"}
      BY <1>2
    <3> QED
      BY <3>1, AvailAfterIs
  <2> QED
    BY <2>1
<1> HIDE DEF h
<1>6. PICK f : Recurs(f, N, AvailStates, avail, h)
  BY <1>3, <1>5, Recursion
<1>7. ASSUME NEW k \in 1 .. N PROVE f[k - 1] \in AvailStates /\ f[k] = AvailAfter(f[k - 1], udev[k])
  <2>1. k - 1 \in 0 .. N
    OBVIOUS
  <2> QED
    BY <1>4, <1>6, <2>1 DEF Recurs
<1> DEFINE Updates(g) == g = [n \in 0 .. N |-> IF n = 0 THEN avail ELSE AvailAfter(g[n - 1], udev[n])]
           c == CHOOSE g : Updates(g)
<1>8. Updates(f)
  <2>1. f \in [0 .. N -> AvailStates] /\ f[0] = avail
    BY <1>6 DEF Recurs
  <2>2. \A n \in 0 .. N : f[n] = IF n = 0 THEN avail ELSE AvailAfter(f[n - 1], udev[n])
    BY <1>7, <2>1
  <2> QED
    BY <2>1, <2>2
<1>9. Updates(c)
  BY <1>8
<1>10. Updated = c[N]
  BY <1>1 DEF Updated, AvailAfter
<1> HIDE DEF c
<1>11. \A n \in 0 .. N : c[n] = IF n = 0 THEN avail ELSE AvailAfter(c[n - 1], udev[n])
  BY <1>9
<1>12. c[0] = avail
  BY <1>11
<1>13. ASSUME NEW k \in 1 .. N PROVE c[k] = AvailAfter(c[k - 1], udev[k])
  <2>1. k \in 0 .. N /\ k # 0
    OBVIOUS
  <2> QED
    BY <1>11, <2>1, Zenon
<1> HIDE DEF Updates
<1> DEFINE S == {n \in 0 .. N : AvailIs(c[n], n)}
<1>14. 0 \in S
  BY <1>12 DEF AvailIs, DeviceInv
<1>15. ASSUME NEW n \in 1 .. N, n - 1 \in S PROVE n \in S
  <2>1. PICK a \in AvailStates, m \in {"add", "remove"}, i \in Nat :
          a = c[n - 1] /\ m = udev[n] /\ i = n - 1 /\ AvailIs(a, i)
    BY <1>2, <1>15 DEF AvailIs
  <2>2. PICK b : b = AvailAfter(a, m) /\ b = c[n]
    BY <1>13, <2>1
  <2>3. /\ b \in AvailStates
        /\ a.known => b.known /\ (b.connect <=> a.connect)
                      /\ (b.disconnect <=> a.disconnect \/ m = "remove")
        /\ ~a.known /\ m = "add" => b.known /\ ~b.disconnect
        /\ ~a.known /\ m = "remove" => b = a
    BY <2>2, AvailAfterIs
  <2>4. avail.known /\ i = 0 => m = "remove"
    BY <1>1, <2>1 DEF DeviceInv
  <2>5. AvailIs(b, n)
    BY <2>1, <2>3, <2>4 DEF AvailIs
  <2> QED
    BY <2>2, <2>5
<1>16. \A n \in 0 .. N : n \in S
  <2> HIDE DEF S
  <2> QED
    BY <1>14, <1>15, Induct
<1> QED
  BY <1>1, <1>10, <1>16

\* So the touchpad is plugged in when it is connected.
LEMMA ConnectedIs ==
  ASSUME DeviceInv, NEW a, a = Updated
  PROVE  /\ a \in AvailStates /\ (a.connect => a.known) /\ (a.connect /\ ~a.disconnect => ~dev)
         /\ a.known /\ ~a.disconnect => plugged
         /\ dev /\ ~a.disconnect => a = avail /\ udev = <<>>
<1>1. PICK n \in Nat : n = Len(udev) /\ AvailIs(a, n)
  BY UpdatedIs DEF DeviceInv
<1>2. n = 0 <=> udev = <<>>
  BY <1>1 DEF DeviceInv
<1>3. a.known /\ ~a.disconnect => plugged
  BY <1>1, <1>2 DEF AvailIs, DeviceInv
<1>4. dev /\ ~a.disconnect => a = avail /\ udev = <<>>
  BY <1>1, <1>2 DEF AvailIs, DeviceInv
<1> QED
  BY <1>1, <1>3, <1>4 DEF AvailIs, DeviceInv

-----------------------------------------------------------------------------
(* Fingers that are down, and what is told of them                         *)

Gone(q, k, t) == \E j \in k + 1 .. Len(q) : q[j].kind = "up" /\ q[j].id = t

\* A finger is in a slot, or a later event tells that it is up; -1 is none.
AliveAt(s, q, k, t) == t = -1 \/ (\E i \in 1 .. EvSlots : s[i].id = t) \/ Gone(q, k, t)
AliveIn(s, q) ==
  /\ \A p \in ids : AliveAt(s, q, 0, p[1])
  /\ \A k \in 1 .. Len(q) : q[k].kind = "position" => AliveAt(s, q, k, q[k].id)

\* The last frame that gives a slot an id, or the slot when none does.
Tracks(fr, i) == fr \in TrackFrames /\ fr.slot = i /\ fr.kind # "move"
Decides(i, k) ==
  /\ k = 0 \/ Tracks(frames[k], i)
  /\ \A j \in k + 1 .. Len(frames) : ~Tracks(frames[j], i)
Decided(i, k) == IF k = 0 THEN slots[i].id ELSE IdAfter(0, frames[k])
TrackInv ==
  dev /\ plugged /\ udev = <<>> =>
    \A i \in 1 .. EvSlots : \A k \in 0 .. Len(frames) : Decides(i, k) => Decided(i, k) \in {-1, finger[i]}

\* Each position has a number of its own, in their order.
Stamps(c, q, lo, hi) ==
  /\ c \in [1 .. Len(q) -> Nat]
  /\ \A k \in 1 .. Len(q) : q[k].kind = "position" =>
       /\ lo < c[k] /\ c[k] <= hi
       /\ \A j \in 1 .. k - 1 : q[j].kind = "position" => c[j] < c[k]
Stamped(q, lo, hi) == \E c : Stamps(c, q, lo, hi)

\* A frame leaves nothing behind.
LEMMA AliveStep ==
  ASSUME NEW p \in PollStates, NEW r, NEW q, NEW fr \in PadFrames, FrameStep(p, r, q, fr),
         NEW k \in 0 .. Len(p.events), NEW t, AliveAt(p.slots, p.events, k, t)
  PROVE  AliveAt(r.slots, r.events, k, t)
<1>1. p.events \in Seq(PadEvents) /\ q \in Seq(PadEvents) /\ r.events = p.events \o q
  BY DEF PollStates, FrameStep
<1>2. PICK m \in Nat, n \in Nat : m = Len(p.events) /\ n = Len(q)
  BY <1>1
<1>3. /\ Len(r.events) = m + n /\ \A i \in 1 .. m : r.events[i] = p.events[i]
      /\ \A i \in 1 .. n : r.events[m + i] = q[i]
  BY <1>1, <1>2, BothRange DEF Chain
<1>4. CASE t = -1
  BY <1>4 DEF AliveAt
<1>5. CASE Gone(p.events, k, t)
  <2>1. PICK j \in k + 1 .. m : p.events[j].kind = "up" /\ p.events[j].id = t
    BY <1>2, <1>5 DEF Gone
  <2>2. j \in 1 .. m /\ j \in k + 1 .. m + n
    BY <1>2
  <2> QED
    BY <1>3, <2>1, <2>2 DEF AliveAt, Gone
<1>6. CASE t # -1 /\ \E i \in 1 .. EvSlots : p.slots[i].id = t
  <2>1. PICK i \in 1 .. EvSlots : p.slots[i].id = t
    BY <1>6
  <2>2. CASE fr \in PressFrames
    BY <2>1, <2>2 DEF FrameStep, AliveAt
  <2>3. CASE fr \in TrackFrames /\ i # fr.slot
    <3>1. r.slots = [p.slots EXCEPT ![fr.slot] = r.slots[fr.slot]]
      BY <2>3 DEF FrameStep
    <3>2. r.slots[i] = p.slots[i]
      BY <2>3, <3>1 DEF PollStates
    <3> QED
      BY <2>1, <3>2 DEF AliveAt
  <2>4. CASE fr \in TrackFrames /\ i = fr.slot /\ fr.kind = "move"
    <3>1. r.slots[i].id = t
      BY <2>1, <2>4 DEF FrameStep, IdAfter
    <3> QED
      BY <3>1 DEF AliveAt
  <2>5. CASE fr \in TrackFrames /\ i = fr.slot /\ fr.kind # "move"
    <3>1. PICK j \in 1 .. n : q[j].kind = "up" /\ q[j].id = t
      BY <1>2, <1>6, <2>1, <2>5 DEF FrameStep
    <3>2. PICK x \in Nat : x = m + j /\ x \in k + 1 .. m + n /\ r.events[x] = q[j]
      <4>1. m + j \in Nat /\ m + j \in k + 1 .. m + n
        BY <1>2
      <4>2. r.events[m + j] = q[j]
        BY <1>3
      <4> QED
        BY <4>1, <4>2
    <3> QED
      BY <1>3, <3>1, <3>2 DEF AliveAt, Gone
  <2> QED
    BY <2>2, <2>3, <2>4, <2>5 DEF PadFrames
<1> QED
  BY <1>4, <1>5, <1>6 DEF AliveAt

\* What is alive stays so.
LEMMA AliveInStep ==
  ASSUME NEW p \in PollStates, NEW r, NEW q, NEW fr \in PadFrames, FrameStep(p, r, q, fr),
         AliveIn(p.slots, p.events)
  PROVE  AliveIn(r.slots, r.events)
<1>1. p.events \in Seq(PadEvents) /\ q \in Seq(PadEvents) /\ r.events = p.events \o q
  BY DEF PollStates, FrameStep
<1>2. PICK m \in Nat, n \in Nat : m = Len(p.events) /\ n = Len(q)
  BY <1>1
<1>3. /\ Len(r.events) = m + n /\ \A i \in 1 .. m : r.events[i] = p.events[i]
      /\ \A i \in 1 .. n : r.events[m + i] = q[i]
  BY <1>1, <1>2, BothRange DEF Chain
<1>4. ASSUME NEW x \in ids PROVE AliveAt(r.slots, r.events, 0, x[1])
  <2>1. 0 \in 0 .. Len(p.events) /\ AliveAt(p.slots, p.events, 0, x[1])
    BY <1>1 DEF AliveIn
  <2> QED
    BY <2>1, AliveStep
<1>5. ASSUME NEW k \in 1 .. m + n, r.events[k].kind = "position"
      PROVE  AliveAt(r.slots, r.events, k, r.events[k].id)
  <2>1. CASE k \in 1 .. m
    <3>1. k \in 0 .. Len(p.events) /\ AliveAt(p.slots, p.events, k, p.events[k].id)
      BY <1>2, <1>3, <1>5, <2>1 DEF AliveIn
    <3>2. AliveAt(r.slots, r.events, k, p.events[k].id)
      BY <3>1, AliveStep
    <3> QED
      BY <1>3, <2>1, <3>2
  <2>2. CASE k \notin 1 .. m
    <3>1. PICK j \in 1 .. n : k = m + j
      <4>1. k - m \in 1 .. n /\ k = m + (k - m)
        BY <2>2
      <4> QED
        BY <4>1
    <3>2. q[j].kind = "position" /\ r.events[k] = q[j]
      BY <1>3, <1>5, <3>1
    <3>3. fr \in TrackFrames
      <4>1. CASE fr \in PressFrames
        BY <1>2, <3>2, <4>1 DEF FrameStep, Presses
      <4> QED
        BY <4>1 DEF PadFrames
    <3>4. fr.slot \in 1 .. EvSlots
      BY <3>3 DEF TrackFrames
    <3>5. q[j].id = r.slots[fr.slot].id
      BY <1>2, <3>2, <3>3 DEF FrameStep
    <3> QED
      BY <3>2, <3>4, <3>5 DEF AliveAt
  <2> QED
    BY <2>1, <2>2
<1> QED
  BY <1>3, <1>4, <1>5 DEF AliveIn

\* Numbers for a frame's events.
LEMMA StampedStep ==
  ASSUME NEW p \in PollStates, NEW r, NEW q, NEW fr \in PadFrames, FrameStep(p, r, q, fr),
         NEW lo \in Nat, NEW hi \in Nat, lo <= hi, Stamped(p.events, lo, hi)
  PROVE  Stamped(r.events, lo, hi + 1)
<1>1. p.events \in Seq(PadEvents) /\ q \in Seq(PadEvents) /\ r.events = p.events \o q
  BY DEF PollStates, FrameStep
<1>2. PICK m \in Nat, n \in Nat : m = Len(p.events) /\ n = Len(q)
  BY <1>1
<1>3. /\ Len(r.events) = m + n /\ \A i \in 1 .. m : r.events[i] = p.events[i]
      /\ \A i \in 1 .. n : r.events[m + i] = q[i]
  BY <1>1, <1>2, BothRange DEF Chain
<1>4. PICK c : Stamps(c, p.events, lo, hi)
  BY DEF Stamped
<1> DEFINE d == [k \in 1 .. m + n |-> IF k <= m THEN c[k] ELSE hi + 1]
<1>5. /\ d \in [1 .. m + n -> Nat] /\ \A k \in 1 .. m : d[k] = c[k] /\ c[k] \in Nat
      /\ \A k \in 1 .. m + n : k \notin 1 .. m => d[k] = hi + 1
  <2>1. \A k \in 1 .. m : c[k] \in Nat
    BY <1>2, <1>4 DEF Stamps
  <2>2. \A k \in 1 .. m + n : k <= m => k \in 1 .. m
    OBVIOUS
  <2>3. \A k \in 1 .. m + n : d[k] = IF k <= m THEN c[k] ELSE hi + 1
    OBVIOUS
  <2>4. d \in [1 .. m + n -> Nat]
    BY <2>1, <2>2
  <2>5. \A k \in 1 .. m : k \in 1 .. m + n /\ k <= m
    OBVIOUS
  <2>6. \A k \in 1 .. m + n : k \notin 1 .. m => ~(k <= m)
    OBVIOUS
  <2> HIDE DEF d
  <2> QED
    BY <2>1, <2>3, <2>4, <2>5, <2>6
<1> HIDE DEF d
<1>6. \A k \in 1 .. n : q[k].kind = "position" => k = n
  BY <1>2 DEF FrameStep, PadFrames, Presses
<1>7. ASSUME NEW k \in 1 .. m + n, r.events[k].kind = "position"
      PROVE  /\ lo < d[k] /\ d[k] <= hi + 1
             /\ \A j \in 1 .. k - 1 : r.events[j].kind = "position" => d[j] < d[k]
  <2>1. CASE k \in 1 .. m
    <3>1. p.events[k].kind = "position" /\ d[k] = c[k] /\ c[k] \in Nat
      BY <1>3, <1>5, <1>7, <2>1
    <3>2. lo < c[k] /\ c[k] <= hi /\ \A j \in 1 .. k - 1 : p.events[j].kind = "position" => c[j] < c[k]
      BY <1>2, <1>4, <2>1, <3>1 DEF Stamps
    <3>3. ASSUME NEW j \in 1 .. k - 1, r.events[j].kind = "position" PROVE d[j] < d[k]
      <4>1. j \in 1 .. m
        BY <2>1
      <4>2. p.events[j].kind = "position" /\ d[j] = c[j]
        BY <1>3, <1>5, <3>3, <4>1
      <4>3. c[j] < c[k]
        BY <3>2, <4>2
      <4> QED
        BY <3>1, <4>2, <4>3
    <3> QED
      BY <3>1, <3>2, <3>3
  <2>2. CASE k \notin 1 .. m
    <3>1. d[k] = hi + 1
      BY <1>5, <2>2
    <3>2. PICK x \in 1 .. n : k = m + x
      <4>1. k - m \in 1 .. n /\ k = m + (k - m)
        BY <2>2
      <4> QED
        BY <4>1
    <3>3. x = n
      BY <1>3, <1>6, <1>7, <3>2
    <3>4. ASSUME NEW j \in 1 .. k - 1, r.events[j].kind = "position" PROVE d[j] < hi + 1
      <4>1. j \in 1 .. m
        <5>1. ASSUME j \notin 1 .. m PROVE FALSE
          <6>1. PICK y \in 1 .. n : j = m + y /\ y < n
            <7>1. j - m \in 1 .. n /\ j = m + (j - m) /\ j - m < n
              BY <3>2, <3>3, <5>1
            <7> QED
              BY <7>1
          <6>2. r.events[j] = q[y]
            BY <1>3, <6>1
          <6>3. y = n
            BY <1>6, <3>4, <6>2
          <6> QED
            BY <6>1, <6>3
        <5> QED
          BY <5>1
      <4>2. p.events[j].kind = "position"
        BY <1>3, <3>4, <4>1
      <4>3. c[j] <= hi
        BY <1>2, <1>4, <4>1, <4>2 DEF Stamps
      <4> QED
        BY <1>5, <4>1, <4>3
    <3> QED
      BY <3>1, <3>4
  <2> QED
    BY <2>1, <2>2
<1>8. Stamps(d, r.events, lo, hi + 1)
  BY <1>3, <1>5, <1>7 DEF Stamps
<1> QED
  BY <1>8 DEF Stamped

\* What a slot's id will be stays decided.
LEMMA DecidedStep ==
  ASSUME frames \in Seq(PadFrames), NEW n \in 1 .. Len(frames),
         NEW p \in PollStates, NEW r, NEW q, FrameStep(p, r, q, frames[n]),
         NEW i \in 1 .. EvSlots, NEW ok,
         \A k \in 1 .. Len(frames) : Decides(i, k) => Decided(i, k) \in ok,
         (\A j \in n .. Len(frames) : ~Tracks(frames[j], i)) => p.slots[i].id \in ok
  PROVE  (\A j \in n + 1 .. Len(frames) : ~Tracks(frames[j], i)) => r.slots[i].id \in ok
<1> SUFFICES ASSUME \A j \in n + 1 .. Len(frames) : ~Tracks(frames[j], i) PROVE r.slots[i].id \in ok
  OBVIOUS
<1>0. PICK N \in Nat, fr \in PadFrames : N = Len(frames) /\ fr = frames[n]
  OBVIOUS
<1>1. CASE Tracks(fr, i)
  <2>1. Decides(i, n)
    BY <1>0, <1>1 DEF Decides
  <2>2. IdAfter(0, fr) \in ok
    BY <1>0, <2>1 DEF Decided
  <2>3. r.slots[i].id = IdAfter(p.slots[i].id, fr)
    BY <1>0, <1>1 DEF Tracks, FrameStep
  <2>4. IdAfter(p.slots[i].id, fr) = IdAfter(0, fr)
    BY <1>1 DEF Tracks, IdAfter
  <2> QED
    BY <2>2, <2>3, <2>4
<1>2. CASE ~Tracks(fr, i)
  <2>1. p.slots[i].id \in ok
    <3>1. ASSUME NEW j \in n .. N PROVE ~Tracks(frames[j], i)
      <4>1. j = n \/ j \in n + 1 .. N
        BY <1>0
      <4> QED
        BY <1>0, <1>2, <4>1
    <3> QED
      BY <1>0, <3>1
  <2>2. r.slots[i].id = p.slots[i].id
    <3>1. CASE fr \in PressFrames
      BY <1>0, <3>1 DEF FrameStep
    <3>2. CASE fr \in TrackFrames /\ fr.slot # i
      <4>1. r.slots = [p.slots EXCEPT ![fr.slot] = r.slots[fr.slot]]
        BY <1>0, <3>2 DEF FrameStep
      <4> QED
        BY <3>2, <4>1 DEF PollStates
    <3>3. CASE fr \in TrackFrames /\ fr.slot = i
      BY <1>0, <1>2, <3>3 DEF Tracks, FrameStep, IdAfter
    <3> QED
      BY <3>1, <3>2, <3>3 DEF PadFrames
  <2> QED
    BY <2>1, <2>2
<1> QED
  BY <1>1, <1>2

TouchInv ==
  /\ ids \subseteq Int \X Nat /\ IsFiniteSet(ids)
  /\ \A p \in ids : p[2] < setsu.next /\ \A q \in ids : p[2] = q[2] => p = q
  /\ Ids = {setsu.touches[i].id : i \in Slots} \ {-1}

\* Every touch that was begun is a frame that was made.
CountInv ==
  /\ setsu.next + Len(frames) <= inputs /\ inputs <= MaxInputs
  /\ Stamped(todo, setsu.next, inputs - Len(frames))

TouchpadInv == DeviceInv /\ AliveIn(slots, todo) /\ TrackInv /\ TouchInv /\ CountInv

\* What poll_device leaves.
LEMMA PolledKeeps ==
  ASSUME PadTyped
  PROVE  /\ AliveIn(slots, <<>>) => AliveIn(Polled.slots, Polled.events)
         /\ \A lo \in Nat : Stamped(Polled.events, lo, lo + Len(frames))
         /\ \A i \in 1 .. EvSlots : \A ok :
              (\A k \in 0 .. Len(frames) : Decides(i, k) => Decided(i, k) \in ok) => Polled.slots[i].id \in ok
<1>1. PICK N \in Nat : N = Len(frames) /\ frames \in Seq(PadFrames)
  BY DEF PadTyped
<1>2. PICK f : Polls(f)
  BY PolledIs DEF PadTyped
<1>3. /\ f \in [0 .. N -> PollStates] /\ f[N] = Polled
      /\ f[0] = [slots |-> slots, button |-> buttonPrev, events |-> <<>>]
      /\ \A k \in 1 .. N : \E q : FrameStep(f[k - 1], f[k], q, frames[k])
  BY <1>1, <1>2 DEF Polls
<1>4. ASSUME NEW n \in 1 .. N
      PROVE  f[n - 1] \in PollStates /\ frames[n] \in PadFrames /\ n \in 1 .. Len(frames)
  <2>1. n - 1 \in 0 .. N
    OBVIOUS
  <2> QED
    BY <1>1, <1>3, <2>1
<1>5. f[0].slots = slots /\ f[0].events = <<>>
  BY <1>3
<1>6. ASSUME AliveIn(slots, <<>>) PROVE AliveIn(Polled.slots, Polled.events)
  <2> DEFINE S == {n \in 0 .. N : AliveIn(f[n].slots, f[n].events)}
  <2>1. 0 \in S
    BY <1>5, <1>6
  <2>2. ASSUME NEW n \in 1 .. N, n - 1 \in S PROVE n \in S
    <3>1. PICK q : FrameStep(f[n - 1], f[n], q, frames[n])
      BY <1>3
    <3>2. AliveIn(f[n - 1].slots, f[n - 1].events)
      BY <2>2
    <3>3. AliveIn(f[n].slots, f[n].events)
      BY <1>4, <3>1, <3>2, AliveInStep
    <3> QED
      BY <3>3
  <2>3. \A n \in 0 .. N : n \in S
    <3> HIDE DEF S
    <3> QED
      BY <2>1, <2>2, Induct
  <2> QED
    BY <1>3, <2>3
<1>7. ASSUME NEW lo \in Nat PROVE Stamped(Polled.events, lo, lo + N)
  <2> DEFINE S == {n \in 0 .. N : Stamped(f[n].events, lo, lo + n)}
  <2>1. 0 \in S
    <3>1. Stamps(<<>>, <<>>, lo, lo)
      BY DEF Stamps
    <3> QED
      BY <1>5, <3>1 DEF Stamped
  <2>2. ASSUME NEW n \in 1 .. N, n - 1 \in S PROVE n \in S
    <3>1. PICK q : FrameStep(f[n - 1], f[n], q, frames[n])
      BY <1>3
    <3>2. PICK hi \in Nat : hi = lo + (n - 1) /\ lo <= hi /\ hi + 1 = lo + n
      OBVIOUS
    <3>3. Stamped(f[n - 1].events, lo, hi)
      BY <2>2, <3>2
    <3>4. Stamped(f[n].events, lo, hi + 1)
      BY <1>4, <3>1, <3>2, <3>3, StampedStep
    <3> QED
      BY <3>2, <3>4
  <2>3. \A n \in 0 .. N : n \in S
    <3> HIDE DEF S
    <3> QED
      BY <2>1, <2>2, Induct
  <2> QED
    BY <1>3, <2>3
<1>8. ASSUME NEW i \in 1 .. EvSlots, NEW ok,
             \A k \in 0 .. N : Decides(i, k) => Decided(i, k) \in ok
      PROVE  Polled.slots[i].id \in ok
  <2> DEFINE None(m) == \A j \in m .. N : ~Tracks(frames[j], i)
             S == {n \in 0 .. N : None(n + 1) => f[n].slots[i].id \in ok}
  <2>1. 0 \in S
    <3>1. ASSUME None(1) PROVE slots[i].id \in ok
      <4>1. Decides(i, 0)
        BY <1>1, <3>1 DEF Decides
      <4> QED
        BY <1>8, <4>1 DEF Decided
    <3> QED
      BY <1>5, <3>1
  <2>2. ASSUME NEW n \in 1 .. N, n - 1 \in S PROVE n \in S
    <3>1. PICK q : FrameStep(f[n - 1], f[n], q, frames[n])
      BY <1>3
    <3>2. \A k \in 1 .. Len(frames) : Decides(i, k) => Decided(i, k) \in ok
      BY <1>1, <1>8
    <3>3. (\A j \in n .. Len(frames) : ~Tracks(frames[j], i)) => f[n - 1].slots[i].id \in ok
      BY <1>1, <2>2
    <3>4. (\A j \in n + 1 .. Len(frames) : ~Tracks(frames[j], i)) => f[n].slots[i].id \in ok
      BY <1>1, <1>4, <3>1, <3>2, <3>3, DecidedStep
    <3> QED
      BY <1>1, <3>4
  <2>3. \A n \in 0 .. N : n \in S
    <3> HIDE DEF S
    <3> QED
      BY <2>1, <2>2, Induct
  <2>4. None(N + 1)
    OBVIOUS
  <2> QED
    BY <1>3, <2>3, <2>4
<1> QED
  BY <1>1, <1>6, <1>7, <1>8

\* Numbers stay in order as the limits move apart.
LEMMA StampedMore ==
  ASSUME NEW q, NEW lo \in Int, NEW hi \in Int, NEW lower \in Int, NEW higher \in Int,
         Stamped(q, lo, hi), lower <= lo, hi <= higher
  PROVE  Stamped(q, lower, higher)
<1>1. PICK c : Stamps(c, q, lo, hi)
  BY DEF Stamped
<1>2. Stamps(c, q, lower, higher)
  BY <1>1 DEF Stamps
<1> QED
  BY <1>2 DEF Stamped

\* Without the first event.
LEMMA StampedTail ==
  ASSUME NEW q \in Seq(PadEvents), q # <<>>, NEW lo \in Nat, NEW hi \in Int, Stamped(q, lo, hi)
  PROVE  /\ Stamped(Tail(q), lo, hi)
         /\ q[1].kind = "position" => lo + 1 <= hi /\ Stamped(Tail(q), lo + 1, hi)
<1>1. PICK c : Stamps(c, q, lo, hi)
  BY DEF Stamped
<1>2. PICK n \in Nat : n + 1 = Len(q) /\ n = Len(Tail(q))
  BY HeadTailProperties
<1>3. PICK t : t = Tail(q) /\ Len(t) = n /\ \A k \in 1 .. n : t[k] = q[k + 1]
  BY <1>2, HeadTailProperties
<1> DEFINE d == [k \in 1 .. n |-> c[k + 1]]
<1>4. \A k \in 1 .. n : d[k] = c[k + 1] /\ k + 1 \in 1 .. Len(q) /\ c[k + 1] \in Nat
  BY <1>1, <1>2 DEF Stamps
<1>5. d \in [1 .. n -> Nat]
  BY <1>4
<1> HIDE DEF d
<1>6. ASSUME NEW k \in 1 .. n, t[k].kind = "position"
      PROVE  /\ lo < d[k] /\ d[k] <= hi
             /\ \A j \in 1 .. k - 1 : t[j].kind = "position" => d[j] < d[k]
             /\ q[1].kind = "position" => lo + 1 < d[k]
  <2>1. PICK m \in 2 .. n + 1 : m = k + 1 /\ m \in 1 .. Len(q) /\ q[m].kind = "position" /\ d[k] = c[m]
    BY <1>2, <1>3, <1>4, <1>6
  <2>2. lo < c[m] /\ c[m] <= hi /\ \A j \in 1 .. m - 1 : q[j].kind = "position" => c[j] < c[m]
    BY <1>1, <2>1 DEF Stamps
  <2>3. ASSUME NEW j \in 1 .. k - 1, t[j].kind = "position" PROVE d[j] < d[k]
    <3>1. PICK i \in 1 .. m - 1 : i = j + 1 /\ q[i].kind = "position" /\ d[j] = c[i]
      BY <1>3, <1>4, <2>1, <2>3
    <3> QED
      BY <2>1, <2>2, <3>1
  <2>4. ASSUME q[1].kind = "position" PROVE lo + 1 < d[k]
    <3>1. 1 \in 1 .. m - 1 /\ 1 \in 1 .. Len(q)
      BY <2>1
    <3>2. c[1] < c[m] /\ lo < c[1] /\ c[1] \in Nat /\ c[m] \in Nat
      BY <1>1, <2>1, <2>2, <2>4, <3>1 DEF Stamps
    <3> QED
      BY <2>1, <3>2
  <2> QED
    BY <2>1, <2>2, <2>3, <2>4
<1>7. Stamps(d, t, lo, hi)
  BY <1>3, <1>5, <1>6 DEF Stamps
<1>8. ASSUME q[1].kind = "position" PROVE lo + 1 <= hi /\ Stamps(d, t, lo + 1, hi)
  <2>1. lo < c[1] /\ c[1] <= hi /\ c[1] \in Nat
    BY <1>1, <1>2, <1>8 DEF Stamps
  <2>2. Stamps(d, t, lo + 1, hi)
    BY <1>3, <1>5, <1>6, <1>8 DEF Stamps
  <2> QED
    BY <2>1, <2>2
<1> QED
  BY <1>3, <1>7, <1>8 DEF Stamped

-----------------------------------------------------------------------------
(* The steps of the touchpad                                               *)

HeldInv == LossInv /\ TouchpadInv

\* What is counted are numbers.
LEMMA CountNumbers ==
  ASSUME HeldInv
  PROVE  /\ setsu.next \in Nat /\ Len(frames) \in Nat /\ inputs \in Nat
         /\ inputs - Len(frames) \in Nat /\ setsu.next <= inputs - Len(frames)
  BY DEF HeldInv, LossInv, StatesTyped, PadTyped, States, TouchpadInv, CountInv

\* Nothing of the touchpad changes.
LEMMA TouchpadStays ==
  ASSUME HeldInv, UNCHANGED <<setsu, ids, todo, setsuVars>>,
         inputs' = inputs \/ (Does)
  PROVE  TouchpadInv'
<1>1. DeviceInv'
  BY DEF HeldInv, TouchpadInv, DeviceInv, setsuVars
<1>2. AliveIn(slots, todo)'
  BY DEF HeldInv, TouchpadInv, AliveIn, setsuVars
<1>3. TrackInv'
  BY DEF HeldInv, TouchpadInv, TrackInv, Decides, Decided, setsuVars
<1>4. TouchInv'
  BY DEF HeldInv, TouchpadInv, TouchInv, Ids, setsuVars
<1>5. CountInv'
  <2>1. inputs' \in Nat /\ inputs <= inputs' /\ inputs' <= MaxInputs
    BY CountNumbers, InputAssumption DEF Does, HeldInv, TouchpadInv, CountInv
  <2>2. todo' = todo /\ setsu' = setsu /\ frames' = frames
    BY DEF setsuVars
  <2>3. Stamped(todo, setsu.next, inputs - Len(frames))
    BY DEF HeldInv, TouchpadInv, CountInv
  <2>4. Stamped(todo, setsu.next, inputs' - Len(frames))
    BY <2>1, <2>3, CountNumbers, StampedMore
  <2> QED
    BY <2>1, <2>2, <2>4, CountNumbers DEF CountInv
<1> QED
  BY <1>1, <1>2, <1>3, <1>4, <1>5 DEF TouchpadInv

\* The frames are handled.
LEMMA PollDeviceKeepsTouches ==
  ASSUME HeldInv, PollDevice PROVE TouchpadInv'
<1>1. /\ todo = <<>> /\ udev = <<>> /\ dev /\ slots' = Polled.slots /\ todo' = Polled.events
      /\ frames' = <<>>
      /\ UNCHANGED <<setsu, ids, inputs, plugged, finger, udev, avail, dev>>
  BY DEF PollDevice, stateVars
<1>2. PadTyped
  BY DEF HeldInv, LossInv
<1>3. DeviceInv'
  BY <1>1 DEF HeldInv, TouchpadInv, DeviceInv
<1>4. AliveIn(slots, todo)'
  <2>1. AliveIn(slots, <<>>)
    BY <1>1 DEF HeldInv, TouchpadInv
  <2>2. AliveIn(Polled.slots, Polled.events)
    BY <1>2, <2>1, PolledKeeps
  <2> QED
    BY <1>1, <2>2 DEF AliveIn
<1>5. TrackInv'
  <2>1. ASSUME plugged, NEW i \in 1 .. EvSlots PROVE slots'[i].id \in {-1, finger[i]}
    <3>1. PICK ok : ok = {-1, finger[i]}
      OBVIOUS
    <3>2. \A k \in 0 .. Len(frames) : Decides(i, k) => Decided(i, k) \in ok
      BY <1>1, <2>1, <3>1 DEF HeldInv, TouchpadInv, TrackInv
    <3>3. Polled.slots[i].id \in ok
      BY <1>2, <3>2, PolledKeeps
    <3> QED
      BY <1>1, <3>1, <3>3
  <2>2. Len(frames') = 0
    BY <1>1
  <2> QED
    BY <1>1, <2>1, <2>2 DEF TrackInv, Decided
<1>6. TouchInv'
  BY <1>1 DEF HeldInv, TouchpadInv, TouchInv, Ids
<1>7. CountInv'
  <2>1. PICK N \in Nat, lo \in Nat : N = Len(frames) /\ lo = setsu.next /\ lo + N <= inputs
    BY CountNumbers DEF HeldInv, TouchpadInv, CountInv
  <2>2. Stamped(Polled.events, lo, lo + N)
    BY <1>2, <2>1, PolledKeeps
  <2>3. Stamped(Polled.events, lo, inputs)
    BY <2>1, <2>2, CountNumbers, StampedMore
  <2>4. Len(frames') = 0 /\ inputs - 0 = inputs
    BY <1>1, CountNumbers
  <2> QED
    BY <1>1, <2>1, <2>3, <2>4, CountNumbers DEF CountInv, HeldInv, TouchpadInv
<1> QED
  BY <1>3, <1>4, <1>5, <1>6, <1>7 DEF TouchpadInv

\* Fingers on the touchpad.
LEMMA FingersKeepTouches ==
  ASSUME HeldInv, Does, Fingers, UNCHANGED mainVars PROVE TouchpadInv'
<1>1. PICK i \in 1 .. EvSlots, fr \in PadFrames :
        /\ fr.kind # "button" /\ fr.slot = i /\ Frame(fr)
        /\ IF fr.kind = "move" THEN finger' = finger
           ELSE finger' = [finger EXCEPT ![i] = IdAfter(0, fr)]
  <2>1. PICK i \in 1 .. EvSlots :
          \/ /\ finger' = [finger EXCEPT ![i] = lastId + 1]
             /\ Frame([kind |-> "down", slot |-> i, id |-> lastId + 1, pos |-> 1])
          \/ /\ finger' = [finger EXCEPT ![i] = -1]
             /\ Frame([kind |-> "up", slot |-> i, id |-> -1, pos |-> 0])
          \/ /\ finger' = [finger EXCEPT ![i] = lastId + 1]
             /\ Frame([kind |-> "swap", slot |-> i, id |-> lastId + 1, pos |-> 1])
          \/ /\ finger' = finger
             /\ Frame([kind |-> "move", slot |-> i, id |-> finger[i], pos |-> 2])
    BY Zenon DEF Fingers
  <2>2. finger[i] \in Int /\ lastId + 1 \in Int
    BY DEF HeldInv, LossInv, PadTyped
  <2>3. CASE /\ finger' = [finger EXCEPT ![i] = lastId + 1]
             /\ Frame([kind |-> "down", slot |-> i, id |-> lastId + 1, pos |-> 1])
    <3>1. PICK fr : fr = [kind |-> "down", slot |-> i, id |-> lastId + 1, pos |-> 1]
      OBVIOUS
    <3>2. fr \in PadFrames /\ fr.kind = "down" /\ fr.slot = i /\ IdAfter(0, fr) = lastId + 1
      BY <2>2, <3>1 DEF PadFrames, TrackFrames, IdAfter
    <3> QED
      BY <2>3, <3>1, <3>2
  <2>4. CASE /\ finger' = [finger EXCEPT ![i] = -1]
             /\ Frame([kind |-> "up", slot |-> i, id |-> -1, pos |-> 0])
    <3>1. PICK fr : fr = [kind |-> "up", slot |-> i, id |-> -1, pos |-> 0]
      OBVIOUS
    <3>2. fr \in PadFrames /\ fr.kind = "up" /\ fr.slot = i /\ IdAfter(0, fr) = -1
      BY <3>1 DEF PadFrames, TrackFrames, IdAfter
    <3> QED
      BY <2>4, <3>1, <3>2
  <2>5. CASE /\ finger' = [finger EXCEPT ![i] = lastId + 1]
             /\ Frame([kind |-> "swap", slot |-> i, id |-> lastId + 1, pos |-> 1])
    <3>1. PICK fr : fr = [kind |-> "swap", slot |-> i, id |-> lastId + 1, pos |-> 1]
      OBVIOUS
    <3>2. fr \in PadFrames /\ fr.kind = "swap" /\ fr.slot = i /\ IdAfter(0, fr) = lastId + 1
      BY <2>2, <3>1 DEF PadFrames, TrackFrames, IdAfter
    <3> QED
      BY <2>5, <3>1, <3>2
  <2>6. CASE /\ finger' = finger
             /\ Frame([kind |-> "move", slot |-> i, id |-> finger[i], pos |-> 2])
    <3>1. PICK fr : fr = [kind |-> "move", slot |-> i, id |-> finger[i], pos |-> 2]
      OBVIOUS
    <3>2. fr \in PadFrames /\ fr.kind = "move" /\ fr.slot = i
      BY <2>2, <3>1 DEF PadFrames, TrackFrames
    <3> QED
      BY <2>6, <3>1, <3>2
  <2> QED
    BY <2>1, <2>3, <2>4, <2>5, <2>6
<1>2. /\ UNCHANGED <<setsu, ids, todo, plugged, udev, avail, dev, slots>>
      /\ frames' = IF dev /\ plugged THEN Append(frames, fr) ELSE frames
  BY <1>1 DEF Fingers, Unchanged, mainVars, stateVars, Frame
<1>3. PICK N \in Nat : N = Len(frames) /\ frames \in Seq(PadFrames)
  BY DEF HeldInv, LossInv, PadTyped
<1>4. TrackInv'
  <2> SUFFICES ASSUME dev, plugged, udev = <<>>, NEW x \in 1 .. EvSlots, NEW k \in 0 .. Len(frames'),
                      Decides(x, k)'
               PROVE  Decided(x, k)' \in {-1, finger'[x]}
    BY <1>2 DEF TrackInv
  <2>1. PICK fs \in Seq(PadFrames) : fs = frames' /\ Len(fs) = N + 1 /\ fs[N + 1] = fr
                                    /\ \A j \in 1 .. N : fs[j] = frames[j]
    BY <1>2, <1>3
  <2>2. finger \in [1 .. EvSlots -> Int] /\ fr \in TrackFrames
    <3>1. fr \in TrackFrames
      BY <1>1 DEF PadFrames, PressFrames
    <3> QED
      BY <3>1 DEF HeldInv, LossInv, PadTyped
  <2>3. CASE Tracks(fr, x)
    <3>1. k = N + 1
      <4>1. ASSUME k < N + 1 PROVE FALSE
        <5>1. N + 1 \in k + 1 .. N + 1
          BY <4>1
        <5> QED
          BY <2>1, <2>3, <5>1 DEF Decides
      <4> QED
        BY <2>1, <4>1
    <3>2. Decided(x, k)' = IdAfter(0, fr)
      BY <2>1, <3>1 DEF Decided
    <3>3. finger'[x] = IdAfter(0, fr)
      BY <1>1, <2>2, <2>3 DEF Tracks
    <3> QED
      BY <3>2, <3>3
  <2>4. CASE ~Tracks(fr, x)
    <3>1. k \in 0 .. N
      <4>1. ASSUME k = N + 1 PROVE FALSE
        BY <2>1, <2>4, <4>1 DEF Decides
      <4> QED
        BY <2>1, <4>1
    <3>2. Decides(x, k) /\ Decided(x, k)' = Decided(x, k)
      <4>1. k = 0 \/ (k \in 1 .. N /\ fs[k] = frames[k])
        BY <2>1, <3>1
      <4>2. ASSUME NEW j \in k + 1 .. N PROVE ~Tracks(frames[j], x)
        <5>1. j \in 1 .. N /\ j \in k + 1 .. Len(fs)
          BY <2>1, <3>1
        <5> QED
          BY <2>1, <5>1 DEF Decides
      <4> QED
        BY <1>2, <1>3, <2>1, <4>1, <4>2 DEF Decides, Decided
    <3>3. Decided(x, k) \in {-1, finger[x]}
      BY <1>3, <3>1, <3>2 DEF HeldInv, TouchpadInv, TrackInv
    <3>4. finger'[x] = finger[x]
      BY <1>1, <2>2, <2>4 DEF Tracks
    <3> QED
      BY <3>2, <3>3, <3>4
  <2> QED
    BY <2>3, <2>4
<1>5. CountInv'
  <2>1. PICK M \in Nat : M = Len(frames') /\ N <= M /\ M <= N + 1
    BY <1>2, <1>3
  <2>2. inputs' = inputs + 1 /\ inputs' <= MaxInputs
    BY CountNumbers, InputAssumption DEF Does
  <2>3. Stamped(todo, setsu.next, inputs - N)
    BY <1>3 DEF HeldInv, TouchpadInv, CountInv
  <2>4. Stamped(todo, setsu.next, inputs' - M)
    BY <1>3, <2>1, <2>2, <2>3, CountNumbers, StampedMore
  <2> QED
    BY <1>2, <1>3, <2>1, <2>2, <2>4, CountNumbers DEF CountInv
<1>6. DeviceInv' /\ AliveIn(slots, todo)' /\ TouchInv'
  BY <1>2 DEF HeldInv, TouchpadInv, DeviceInv, AliveIn, TouchInv, Ids
<1> QED
  BY <1>4, <1>5, <1>6 DEF TouchpadInv

\* Its button.
LEMMA PressKeepsTouches ==
  ASSUME HeldInv, Does, PressPad, UNCHANGED mainVars PROVE TouchpadInv'
<1>1. UNCHANGED <<setsu, ids, todo, plugged, udev, avail, dev, slots, finger>>
  BY DEF PressPad, Unchanged, mainVars, stateVars
<1>2. PICK fr : /\ fr = [kind |-> "button", slot |-> 0, id |-> IF pressed THEN 0 ELSE 1, pos |-> 0]
                /\ frames' = IF dev /\ plugged THEN Append(frames, fr) ELSE frames
  BY Zenon DEF PressPad, Frame
<1>3. fr \in PadFrames /\ \A x : ~Tracks(fr, x)
  BY <1>2 DEF PadFrames, PressFrames, TrackFrames, Tracks
<1>4. PICK N \in Nat : N = Len(frames) /\ frames \in Seq(PadFrames)
  BY DEF HeldInv, LossInv, PadTyped
<1>5. TrackInv'
  <2> SUFFICES ASSUME dev, plugged, udev = <<>>, NEW x \in 1 .. EvSlots, NEW k \in 0 .. Len(frames'),
                      Decides(x, k)'
               PROVE  Decided(x, k)' \in {-1, finger'[x]}
    BY <1>1 DEF TrackInv
  <2>1. PICK fs \in Seq(PadFrames) : fs = frames' /\ Len(fs) = N + 1 /\ fs[N + 1] = fr
                                    /\ \A j \in 1 .. N : fs[j] = frames[j]
    BY <1>2, <1>3, <1>4
  <2>2. k \in 0 .. N
    <3>1. ASSUME k = N + 1 PROVE FALSE
      BY <1>3, <2>1, <3>1 DEF Decides
    <3> QED
      BY <2>1, <3>1
  <2>3. Decides(x, k) /\ Decided(x, k)' = Decided(x, k)
    <3>1. k = 0 \/ (k \in 1 .. N /\ fs[k] = frames[k])
      BY <2>1, <2>2
    <3>2. ASSUME NEW j \in k + 1 .. N PROVE ~Tracks(frames[j], x)
      <4>1. j \in 1 .. N /\ j \in k + 1 .. Len(fs)
        BY <2>1, <2>2
      <4> QED
        BY <2>1, <4>1 DEF Decides
    <3> QED
      BY <1>1, <1>4, <2>1, <3>1, <3>2 DEF Decides, Decided
  <2> QED
    BY <1>1, <1>4, <2>2, <2>3 DEF HeldInv, TouchpadInv, TrackInv
<1>6. CountInv'
  <2>1. PICK M \in Nat : M = Len(frames') /\ N <= M /\ M <= N + 1
    BY <1>2, <1>4
  <2>2. inputs' = inputs + 1 /\ inputs' <= MaxInputs
    BY CountNumbers, InputAssumption DEF Does
  <2>3. Stamped(todo, setsu.next, inputs - N)
    BY <1>4 DEF HeldInv, TouchpadInv, CountInv
  <2>4. Stamped(todo, setsu.next, inputs' - M)
    BY <1>4, <2>1, <2>2, <2>3, CountNumbers, StampedMore
  <2> QED
    BY <1>1, <1>4, <2>1, <2>2, <2>4, CountNumbers DEF CountInv
<1>7. DeviceInv' /\ AliveIn(slots, todo)' /\ TouchInv'
  BY <1>1 DEF HeldInv, TouchpadInv, DeviceInv, AliveIn, TouchInv, Ids
<1> QED
  BY <1>5, <1>6, <1>7 DEF TouchpadInv

\* It is plugged in, or pulled.
LEMMA PlugKeepsTouches ==
  ASSUME HeldInv, Does, Plug, UNCHANGED mainVars PROVE TouchpadInv'
<1>1. /\ UNCHANGED <<setsu, ids, todo, avail, dev, slots>> /\ plugged' = ~plugged /\ frames' = <<>>
      /\ udev' = Append(udev, IF plugged THEN "remove" ELSE "add")
  BY DEF Plug, mainVars, stateVars
<1>2. PICK n \in Nat : n = Len(udev) /\ udev \in Seq({"add", "remove"})
  BY DEF HeldInv, TouchpadInv, DeviceInv
<1>3. PICK m \in {"add", "remove"} : m = IF plugged THEN "remove" ELSE "add"
  OBVIOUS
<1>4. PICK u \in Seq({"add", "remove"}) :
        /\ u = udev' /\ Len(u) = n + 1 /\ u[n + 1] = m /\ u # <<>>
        /\ \A i \in 1 .. n : u[i] = udev[i]
  <2>0. PICK D : D = {"add", "remove"}
    OBVIOUS
  <2>1. PICK q \in Seq(D) : q = udev /\ m \in D
    BY <1>2, <2>0
  <2>2. Append(q, m) \in Seq(D) /\ Len(Append(q, m)) = n + 1 /\ Append(q, m)[n + 1] = m
        /\ \A i \in 1 .. n : Append(q, m)[i] = q[i]
    BY <1>2, <2>1
  <2> QED
    BY <1>1, <1>3, <2>0, <2>1, <2>2
<1>5. DeviceInv'
  <2>1. CASE avail.known /\ n = 0
    <3>2. udev = <<>>
      <4>1. PICK D : udev \in Seq(D) /\ Len(udev) = 0
        BY <1>2, <2>1
      <4> QED
        BY <4>1, EmptySeq
    <3>1. plugged
      BY <2>1, <3>2 DEF HeldInv, TouchpadInv, DeviceInv
    <3> QED
      BY <1>1, <1>3, <1>4, <2>1, <3>1 DEF HeldInv, TouchpadInv, DeviceInv
  <2>2. CASE avail.known /\ n # 0
    <3>1. udev[1] = "remove" /\ u[1] = udev[1]
      BY <1>2, <1>4, <2>2 DEF HeldInv, TouchpadInv, DeviceInv
    <3> QED
      BY <1>1, <1>4, <2>2, <3>1 DEF HeldInv, TouchpadInv, DeviceInv
  <2>3. CASE ~avail.known
    BY <1>1, <1>3, <1>4, <2>3 DEF HeldInv, TouchpadInv, DeviceInv
  <2> QED
    BY <2>1, <2>2, <2>3
<1>6. TrackInv'
  BY <1>4 DEF TrackInv
<1>7. CountInv'
  <2>1. Len(frames') = 0
    BY <1>1
  <2>2. inputs' = inputs + 1 /\ inputs' <= MaxInputs
    BY CountNumbers, InputAssumption DEF Does
  <2>3. Stamped(todo, setsu.next, inputs - Len(frames))
    BY DEF HeldInv, TouchpadInv, CountInv
  <2>4. Stamped(todo, setsu.next, inputs' - 0)
    BY <2>2, <2>3, CountNumbers, StampedMore
  <2> QED
    BY <1>1, <2>1, <2>2, <2>4, CountNumbers DEF CountInv
<1>8. AliveIn(slots, todo)' /\ TouchInv'
  BY <1>1 DEF HeldInv, TouchpadInv, AliveIn, TouchInv, Ids
<1> QED
  BY <1>5, <1>6, <1>7, <1>8 DEF TouchpadInv

\* The touches of a state, and after some were released.
TouchesOf(s) == {s.touches[i].id : i \in Slots} \ {-1}

\* A release takes these touches away and gives no id back.
LEMMA ReleasedIs ==
  ASSUME NEW s \in States, NEW which, -1 \notin which
  PROVE  /\ Released(s, which).next = s.next
         /\ TouchesOf(Released(s, which)) = TouchesOf(s) \ which
<1>1. PICK t : t = [i \in Slots |-> IF s.touches[i].id \in which THEN [s.touches[i] EXCEPT !.id = -1]
                                    ELSE s.touches[i]]
  OBVIOUS
<1>2. ASSUME NEW i \in Slots PROVE t[i].id = IF s.touches[i].id \in which THEN -1 ELSE s.touches[i].id
  BY <1>1 DEF States, Touches
<1>3. Released(s, which).touches = t /\ Released(s, which).next = s.next
  BY <1>1 DEF Released, States
<1>4. {t[i].id : i \in Slots} \ {-1} = ({s.touches[i].id : i \in Slots} \ {-1}) \ which
  BY <1>2
<1> QED
  BY <1>3, <1>4 DEF TouchesOf

\* The touchpad is connected, or gone.
LEMMA PollDevicesKeepsTouches ==
  ASSUME HeldInv, PollDevices PROVE TouchpadInv'
<1>1. PICK a : a = Updated
  OBVIOUS
<1>2. /\ a \in AvailStates /\ (a.connect => a.known) /\ (a.connect /\ ~a.disconnect => ~dev)
      /\ a.known /\ ~a.disconnect => plugged
      /\ dev /\ ~a.disconnect => a = avail /\ udev = <<>>
  BY <1>1, ConnectedIs DEF HeldInv, TouchpadInv
<1>3. /\ todo = <<>> /\ (udev # <<>> \/ avail.connect \/ avail.disconnect)
      /\ udev' = <<>> /\ UNCHANGED <<todo, inputs, plugged, finger, lastId, pressed>>
      /\ avail' = (IF a.disconnect THEN NoDevice ELSE [a EXCEPT !.connect = FALSE])
      /\ dev' = (~a.disconnect /\ (dev \/ a.connect))
      /\ IF a.disconnect
         THEN SendFeedbackState(Removed(setsu), pad, keyboard) /\ ids' = {}
         ELSE UNCHANGED <<stateVars, ids, senderVars, netVars>>
      /\ IF a.connect \/ a.disconnect
         THEN slots' = Untouched /\ frames' = <<>>
         ELSE UNCHANGED <<slots, frames>>
  BY <1>1, Zenon DEF PollDevices
<1>4. todo' = <<>> /\ Stamped(<<>>, 0, 0) /\ \A lo \in Int, hi \in Int : Stamped(<<>>, lo, hi)
  <2>1. \A lo, hi : Stamps(<<>>, <<>>, lo, hi)
    BY DEF Stamps
  <2> QED
    BY <1>3, <2>1 DEF Stamped
<1>5. CASE a.disconnect
  <2>1. /\ setsu' = Removed(setsu) /\ ids' = {} /\ avail' = NoDevice /\ dev' = FALSE
        /\ slots' = Untouched /\ frames' = <<>>
    BY <1>2, <1>3, <1>5 DEF SendFeedbackState
  <2>2. DeviceInv'
    <3>1. avail' \in AvailStates
      BY <2>1 DEF NoDevice, AvailStates
    <3>2. avail'.known = FALSE /\ avail'.connect = FALSE /\ avail'.disconnect = FALSE
      BY <2>1 DEF NoDevice
    <3>3. plugged' \in BOOLEAN
      BY <1>3 DEF HeldInv, TouchpadInv, DeviceInv
    <3>4. udev' \in Seq({"add", "remove"}) /\ udev' = <<>>
      BY <1>3
    <3> QED
      BY <1>4, <2>1, <3>1, <3>2, <3>3, <3>4 DEF DeviceInv
  <2>3. TouchInv' /\ setsu'.next = setsu.next
    <3>1. /\ Removed(setsu).next = setsu.next
          /\ TouchesOf(Removed(setsu)) = TouchesOf(setsu) \ Ids
      <4>1. -1 \notin Ids /\ setsu \in States
        BY DEF HeldInv, LossInv, StatesTyped, TouchpadInv, TouchInv
      <4> QED
        BY <4>1, ReleasedIs DEF Removed
    <3>2. {setsu'.touches[i].id : i \in Slots} \ {-1} = {}
      BY <2>1, <3>1 DEF HeldInv, TouchpadInv, TouchInv, TouchesOf
    <3>3. IsFiniteSet({})
      BY FS_EmptySet
    <3> QED
      BY <2>1, <3>1, <3>2, <3>3 DEF TouchInv, Ids
  <2>4. CountInv'
    <3>1. Len(frames') = 0
      BY <2>1
    <3> QED
      BY <1>3, <1>4, <2>3, <3>1, CountNumbers DEF CountInv, HeldInv, TouchpadInv
  <2>5. AliveIn(slots, todo)'
    BY <1>4, <2>1 DEF AliveIn
  <2>6. TrackInv'
    BY <2>1 DEF TrackInv
  <2> QED
    BY <2>2, <2>3, <2>4, <2>5, <2>6 DEF TouchpadInv
<1>6. CASE ~a.disconnect
  <2>1. UNCHANGED <<setsu, ids>> /\ avail' = [a EXCEPT !.connect = FALSE] /\ dev' = (dev \/ a.connect)
    BY <1>2, <1>3, <1>6 DEF stateVars
  <2>2. avail' \in AvailStates /\ ~avail'.connect /\ ~avail'.disconnect /\ (avail'.known <=> a.known)
    BY <1>2, <1>6, <2>1 DEF AvailStates
  <2>3. ~dev
    <3>1. ASSUME dev PROVE FALSE
      BY <1>2, <1>3, <1>6, <3>1 DEF HeldInv, TouchpadInv, DeviceInv
    <3> QED
      BY <3>1
  <2>4. ids = {}
    BY <2>3 DEF HeldInv, TouchpadInv, DeviceInv
  <2>5. DeviceInv'
    <3>1. dev' \in BOOLEAN /\ (dev' => a.known) /\ plugged \in BOOLEAN
      BY <1>2, <2>1, <2>3 DEF HeldInv, TouchpadInv, DeviceInv
    <3>2. udev' \in Seq({"add", "remove"})
      BY <1>3
    <3>3. ~dev' => ids' = {} /\ todo' = <<>>
      BY <1>4, <2>1, <2>4
    <3> QED
      BY <1>2, <1>3, <1>6, <2>2, <3>1, <3>2, <3>3 DEF DeviceInv
  <2>6. TouchInv'
    BY <2>1 DEF HeldInv, TouchpadInv, TouchInv, Ids
  <2>7. CountInv'
    <3>1. Len(frames') \in Nat /\ Len(frames') <= Len(frames)
      BY <1>3, CountNumbers
    <3> QED
      BY <1>3, <1>4, <2>1, <3>1, CountNumbers DEF CountInv, HeldInv, TouchpadInv
  <2>8. AliveIn(slots, todo)'
    BY <1>4, <2>1, <2>4 DEF AliveIn
  <2>9. TrackInv'
    <3>1. ASSUME dev' PROVE frames' = <<>> /\ \A i \in 1 .. EvSlots : slots'[i].id = -1
      <4>1. a.connect
        BY <2>1, <2>3, <3>1
      <4> QED
        BY <1>3, <4>1 DEF Untouched, Empty
    <3>2. ASSUME dev', NEW x \in 1 .. EvSlots, NEW k \in 0 .. Len(frames') PROVE Decided(x, k)' = -1
      <4>1. Len(frames') = 0
        BY <3>1, <3>2
      <4>2. k = 0
        BY <4>1
      <4> QED
        BY <3>1, <3>2, <4>2 DEF Decided
    <3> QED
      BY <3>2 DEF TrackInv
  <2> QED
    BY <2>5, <2>6, <2>7, <2>8, <2>9 DEF TouchpadInv
<1> QED
  BY <1>5, <1>6

\* What is alive beyond the first event is so without it.
LEMMA AliveTail ==
  ASSUME NEW s, NEW q \in Seq(PadEvents), q # <<>>, NEW t
  PROVE  /\ Tail(q) \in Seq(PadEvents) /\ Len(Tail(q)) + 1 = Len(q)
         /\ \A k \in 1 .. Len(Tail(q)) : Tail(q)[k] = q[k + 1] /\ k + 1 \in 1 .. Len(q)
         /\ \A k \in 0 .. Len(Tail(q)) : AliveAt(s, q, k + 1, t) => AliveAt(s, Tail(q), k, t)
         /\ AliveAt(s, q, 0, t) /\ ~(q[1].kind = "up" /\ q[1].id = t) => AliveAt(s, Tail(q), 0, t)
<1>0. /\ Tail(q) \in Seq(PadEvents) /\ Len(Tail(q)) = Len(q) - 1
      /\ \A k \in 1 .. Len(Tail(q)) : Tail(q)[k] = q[k + 1]
  BY HeadTailProperties
<1>1. PICK n \in Nat, r \in Seq(PadEvents) :
        r = Tail(q) /\ n = Len(r) /\ n + 1 = Len(q) /\ \A k \in 1 .. n : r[k] = q[k + 1]
  <2>1. PICK r \in Seq(PadEvents) : r = Tail(q) /\ Len(r) = Len(q) - 1
                                     /\ \A k \in 1 .. Len(r) : r[k] = q[k + 1]
    BY <1>0
  <2>2. Len(q) \in Nat /\ Len(r) \in Nat
    OBVIOUS
  <2>3. Len(r) \in Nat /\ Len(r) + 1 = Len(q)
    BY <2>1, <2>2
  <2> QED
    BY <2>1, <2>3
<1>2. ASSUME NEW k \in 0 .. n, NEW j \in k + 2 .. n + 1, q[j].kind = "up", q[j].id = t
      PROVE  AliveAt(s, r, k, t)
  <2>1. PICK i \in 1 .. n : i + 1 = j /\ i \in k + 1 .. n
    <3>1. j - 1 \in 1 .. n /\ (j - 1) + 1 = j /\ j - 1 \in k + 1 .. n
      OBVIOUS
    <3> QED
      BY <3>1
  <2> QED
    BY <1>1, <1>2, <2>1 DEF AliveAt, Gone
<1>3. ASSUME NEW k \in 0 .. n, AliveAt(s, q, k + 1, t) PROVE AliveAt(s, r, k, t)
  <2>1. CASE Gone(q, k + 1, t)
    <3>1. PICK j \in k + 2 .. n + 1 : q[j].kind = "up" /\ q[j].id = t
      BY <1>1, <2>1 DEF Gone
    <3> QED
      BY <1>2, <3>1
  <2>2. CASE ~Gone(q, k + 1, t)
    BY <1>3, <2>2 DEF AliveAt
  <2> QED
    BY <2>1, <2>2
<1>4. ASSUME AliveAt(s, q, 0, t), ~(q[1].kind = "up" /\ q[1].id = t) PROVE AliveAt(s, r, 0, t)
  <2>1. CASE Gone(q, 0, t)
    <3>1. PICK j \in 1 .. n + 1 : q[j].kind = "up" /\ q[j].id = t
      BY <1>1, <2>1 DEF Gone
    <3>2. j \in 0 + 2 .. n + 1
      BY <1>4, <3>1
    <3> QED
      BY <1>2, <3>1, <3>2
  <2>2. CASE ~Gone(q, 0, t)
    BY <1>4, <2>2 DEF AliveAt
  <2> QED
    BY <2>1, <2>2
<1> QED
  BY <1>1, <1>3, <1>4

\* What a step on the first event does to the touches.
TouchEnds(e) ==
  /\ e.kind = "up" /\ ids' = ids \ Of(e.id)
  /\ setsu' = Released(setsu, {TouchOf(p) : p \in Of(e.id)})
TouchStarts(e) ==
  /\ e.kind = "position" /\ Of(e.id) = {} /\ StartedId(setsu) >= 0
  /\ setsu' = StartTouch(setsu, e.pos) /\ ids' = ids \cup {<<e.id, StartedId(setsu)>>}
TouchesStay(e) ==
  e.kind # "up" /\ ids' = ids /\ setsu'.next = setsu.next /\ TouchesOf(setsu') = TouchesOf(setsu)
TouchStep(e) == TouchEnds(e) \/ TouchStarts(e) \/ TouchesStay(e)

\* What HandleSetsuEvent does to the touches, by the kind of the event.
LEMMA HandleIs ==
  ASSUME HeldInv, HandleSetsuEvent
  PROVE  todo # <<>> /\ todo[1] \in PadEvents /\ TouchStep(todo[1])
<1>1. PICK e : e = Head(todo)
  OBVIOUS
<1>2. todo # <<>> /\ todo \in Seq(PadEvents) /\ e \in PadEvents /\ e = todo[1]
  BY <1>1 DEF HandleSetsuEvent, HeldInv, LossInv, PadTyped
<1> SUFFICES TouchStep(e)
  BY <1>2
<1>3. setsu \in States
  BY DEF HeldInv, LossInv, StatesTyped
<1>4. \/ /\ e.kind = "up"
         /\ SendFeedbackState(Released(setsu, {TouchOf(p) : p \in Of(e.id)}), pad, keyboard)
         /\ ids' = ids \ Of(e.id)
      \/ /\ e.kind = "position" /\ ids' = ids
         /\ SendFeedbackState(SetTouchPos(setsu, TouchOf(CHOOSE p \in Of(e.id) : TRUE), e.pos), pad, keyboard)
      \/ /\ e.kind = "position" /\ Of(e.id) = {} /\ StartedId(setsu) >= 0
         /\ SendFeedbackState(StartTouch(setsu, e.pos), pad, keyboard)
         /\ ids' = ids \cup {<<e.id, StartedId(setsu)>>}
      \/ /\ e.kind \in {"button_down", "button_up"} /\ ids' = ids
         /\ \E B : setsu' = [setsu EXCEPT !.buttons = B]
      \/ e.kind \in {"down", "position"} /\ ids' = ids /\ setsu' = setsu
  BY <1>1, Zenon DEF HandleSetsuEvent, stateVars
<1>0. \A s, p, k : SendFeedbackState(s, p, k) => setsu' = s
  BY DEF SendFeedbackState
<1>5. CASE /\ e.kind = "up" /\ ids' = ids \ Of(e.id)
           /\ SendFeedbackState(Released(setsu, {TouchOf(p) : p \in Of(e.id)}), pad, keyboard)
  BY <1>0, <1>5, Zenon DEF TouchStep, TouchEnds
<1>6. CASE /\ e.kind = "position" /\ ids' = ids
           /\ SendFeedbackState(SetTouchPos(setsu, TouchOf(CHOOSE p \in Of(e.id) : TRUE), e.pos), pad, keyboard)
  <2>1. PICK d : d = TouchOf(CHOOSE p \in Of(e.id) : TRUE)
    OBVIOUS
  <2>2. setsu' = SetTouchPos(setsu, d, e.pos)
    BY <1>0, <1>6, <2>1
  <2>3. setsu'.next = setsu.next /\ \A i \in Slots : setsu'.touches[i].id = setsu.touches[i].id
    <3>1. CASE With(setsu, d) = {}
      BY <2>2, <3>1 DEF SetTouchPos
    <3>2. CASE With(setsu, d) # {}
      <4>1. PICK x \in Slots : x = First(With(setsu, d))
        BY <3>2, FirstIs DEF With
      <4>2. setsu' = [setsu EXCEPT !.touches[x].pos = e.pos]
        BY <2>2, <3>2, <4>1 DEF SetTouchPos
      <4> QED
        BY <1>3, <4>2 DEF States, Touches
    <3> QED
      BY <3>1, <3>2
  <2>4. TouchesOf(setsu') = TouchesOf(setsu)
    BY <2>3 DEF TouchesOf
  <2>5. e.kind # "up"
    BY <1>6
  <2> QED
    BY <1>6, <2>3, <2>4, <2>5 DEF TouchStep, TouchesStay
<1>7. CASE /\ e.kind = "position" /\ Of(e.id) = {} /\ StartedId(setsu) >= 0
           /\ SendFeedbackState(StartTouch(setsu, e.pos), pad, keyboard)
           /\ ids' = ids \cup {<<e.id, StartedId(setsu)>>}
  BY <1>0, <1>7, Zenon DEF TouchStep, TouchStarts
<1>8. CASE /\ e.kind \in {"button_down", "button_up"} /\ ids' = ids
           /\ \E B : setsu' = [setsu EXCEPT !.buttons = B]
  <2>1. setsu'.next = setsu.next /\ setsu'.touches = setsu.touches /\ e.kind # "up"
    BY <1>3, <1>8 DEF States
  <2>2. TouchesOf(setsu') = TouchesOf(setsu)
    BY <2>1 DEF TouchesOf
  <2> QED
    BY <1>8, <2>1, <2>2 DEF TouchStep, TouchesStay
<1>9. CASE e.kind \in {"down", "position"} /\ ids' = ids /\ setsu' = setsu
  <2>1. e.kind # "up"
    BY <1>9
  <2> QED
    BY <1>9, <2>1, Zenon DEF TouchStep, TouchesStay
<1> QED
  BY <1>4, <1>5, <1>6, <1>7, <1>8, <1>9

\* A touch that starts has an id of its own, below the next one.
LEMMA StartIs ==
  ASSUME HeldInv, NEW s, s = setsu, NEW pos \in Nat, StartedId(s) >= 0, s.next + 1 < TouchIds,
         TouchesOf(s) \subseteq Nat
  PROVE  /\ StartedId(s) = s.next /\ StartTouch(s, pos).next = s.next + 1
         /\ TouchesOf(StartTouch(s, pos)) = TouchesOf(s) \cup {s.next}
<1>1. s \in States
  BY DEF HeldInv, LossInv, StatesTyped
<1>2. Free(s) # {} /\ StartedId(s) = s.next
  BY DEF StartedId
<1>3. PICK x \in Slots : x = First(Free(s)) /\ s.touches[x].id < 0
  <2>1. Free(s) \in SUBSET Slots
    BY DEF Free
  <2>2. First(Free(s)) \in Free(s)
    BY <1>2, <2>1, FirstIs
  <2> QED
    BY <2>2 DEF Free
<1>4. s.touches[x].id = -1
  <2>1. s.touches[x].id \in Int /\ s.touches[x].id \notin Nat
    BY <1>1, <1>3 DEF States, Touches
  <2> QED
    BY <1>3, <2>1 DEF TouchesOf
<1>5. PICK n \in Nat : n = s.next /\ (n + 1) % TouchIds = n + 1
  <2>1. PICK n \in Nat, m \in Nat \ {0} : n = s.next /\ m = TouchIds /\ n + 1 < m
    BY <1>1, ControllerAssumption DEF States
  <2>2. (n + 1) % m = n + 1
    BY <2>1
  <2> QED
    BY <2>1, <2>2
<1>6. StartTouch(s, pos) = [s EXCEPT !.touches[x] = [id |-> n, pos |-> pos], !.next = n + 1]
  BY <1>1, <1>2, <1>3, <1>5 DEF StartTouch, States
<1>7. PICK t : t = [s.touches EXCEPT ![x] = [id |-> n, pos |-> pos]]
  OBVIOUS
<1>8. StartTouch(s, pos).next = n + 1 /\ StartTouch(s, pos).touches = t
  BY <1>1, <1>6, <1>7 DEF States
<1>9. t[x].id = n /\ \A i \in Slots : i # x => t[i].id = s.touches[i].id
  BY <1>1, <1>7 DEF States, Touches
<1>10. {t[i].id : i \in Slots} \ {-1} = ({s.touches[i].id : i \in Slots} \ {-1}) \cup {n}
  BY <1>4, <1>9
<1> QED
  BY <1>2, <1>5, <1>8, <1>10 DEF TouchesOf

\* One event is handled.
LEMMA HandleKeepsTouches ==
  ASSUME HeldInv, MaxInputs < TouchIds, HandleSetsuEvent PROVE TouchpadInv'
<1>1. PICK e \in PadEvents : todo # <<>> /\ e = todo[1] /\ TouchStep(e)
  BY HandleIs
<1>2. todo' = Tail(todo) /\ UNCHANGED <<inputs, setsuVars>> /\ todo \in Seq(PadEvents)
  BY DEF HandleSetsuEvent, HeldInv, LossInv, PadTyped
<1>3. UNCHANGED <<plugged, finger, udev, avail, dev, slots, frames>>
  BY <1>2 DEF setsuVars
<1>4. setsu \in States /\ setsu.next \in Nat
  BY DEF HeldInv, LossInv, StatesTyped, States
<1>5. PICK n \in Nat, hi \in Nat :
        n = setsu.next /\ hi = inputs - Len(frames) /\ n <= hi /\ hi <= MaxInputs /\ Stamped(todo, n, hi)
  BY CountNumbers, InputAssumption DEF HeldInv, TouchpadInv, CountInv
<1>6. /\ Stamped(Tail(todo), n, hi)
      /\ e.kind = "position" => n + 1 <= hi /\ Stamped(Tail(todo), n + 1, hi)
  BY <1>1, <1>2, <1>5, StampedTail
<1>7. DeviceInv'
  <2>1. dev
    BY <1>1 DEF HeldInv, TouchpadInv, DeviceInv
  <2> QED
    BY <1>3, <2>1 DEF HeldInv, TouchpadInv, DeviceInv
<1>8. TrackInv'
  BY <1>3 DEF HeldInv, TouchpadInv, TrackInv, Decides, Decided
<1>9. \A p \in ids : p \in Int \X Nat /\ p[1] \in Int /\ p[2] \in Nat /\ p[2] < n
  BY <1>5 DEF HeldInv, TouchpadInv, TouchInv
<1>20. TouchesOf(setsu) = Ids
  BY DEF HeldInv, TouchpadInv, TouchInv, TouchesOf
<1>10. CASE TouchEnds(e)
  <2>1. PICK W : W = {TouchOf(p) : p \in Of(e.id)}
    OBVIOUS
  <2>2. -1 \notin W
    BY <1>9, <2>1 DEF Of, TouchOf
  <2>3. setsu'.next = n /\ TouchesOf(setsu') = Ids \ W
    <3>1. setsu' = Released(setsu, W)
      BY <1>10, <2>1 DEF TouchEnds
    <3>2. Released(setsu, W).next = setsu.next /\ TouchesOf(Released(setsu, W)) = TouchesOf(setsu) \ W
      BY <1>4, <2>2, ReleasedIs
    <3> QED
      BY <1>5, <1>20, <3>1, <3>2
  <2>4. {TouchOf(p) : p \in ids \ Of(e.id)} = Ids \ W
    BY <2>1 DEF Of, TouchOf, Ids, HeldInv, TouchpadInv, TouchInv
  <2>5. TouchInv'
    <3>1. IsFiniteSet(ids \ Of(e.id))
      BY FS_Difference DEF HeldInv, TouchpadInv, TouchInv
    <3> QED
      BY <1>5, <1>10, <2>3, <2>4, <3>1 DEF HeldInv, TouchpadInv, TouchInv, Ids, TouchesOf, TouchEnds
  <2>6. CountInv'
    BY <1>2, <1>3, <1>5, <1>6, <2>3 DEF HeldInv, TouchpadInv, CountInv
  <2>7. AliveIn(slots, todo)'
    <3>1. ASSUME NEW p \in ids' PROVE AliveAt(slots, Tail(todo), 0, p[1])
      <4>1. p \in ids /\ p[1] # e.id /\ AliveAt(slots, todo, 0, p[1])
        BY <1>10, <3>1 DEF TouchEnds, Of, HeldInv, TouchpadInv, AliveIn
      <4> QED
        BY <1>1, <1>2, <4>1, AliveTail
    <3>2. ASSUME NEW k \in 1 .. Len(Tail(todo)), Tail(todo)[k].kind = "position"
          PROVE  AliveAt(slots, Tail(todo), k, Tail(todo)[k].id)
      <4>1. Tail(todo)[k] = todo[k + 1] /\ k + 1 \in 1 .. Len(todo) /\ k \in 0 .. Len(Tail(todo))
        BY <1>1, <1>2, AliveTail
      <4>2. AliveAt(slots, todo, k + 1, todo[k + 1].id)
        BY <3>2, <4>1 DEF HeldInv, TouchpadInv, AliveIn
      <4> QED
        BY <1>1, <1>2, <4>1, <4>2, AliveTail
    <3> QED
      BY <1>2, <1>3, <3>1, <3>2 DEF AliveIn
  <2> QED
    BY <1>7, <1>8, <2>5, <2>6, <2>7 DEF TouchpadInv
<1>11. ASSUME e.kind # "up", \A p \in ids' : p \in ids \/ (e.kind = "position" /\ p[1] = e.id)
       PROVE  AliveIn(slots, todo)'
  <2>1. ASSUME NEW p \in ids' PROVE AliveAt(slots, Tail(todo), 0, p[1])
    <3>1. CASE p \in ids
      <4>1. AliveAt(slots, todo, 0, p[1])
        BY <3>1 DEF HeldInv, TouchpadInv, AliveIn
      <4> QED
        BY <1>1, <1>2, <1>11, <4>1, AliveTail
    <3>2. CASE e.kind = "position" /\ p[1] = e.id
      <4>1. 1 \in 1 .. Len(todo) /\ 0 \in 0 .. Len(Tail(todo)) /\ 0 + 1 = 1
        BY <1>1, <1>2, AliveTail
      <4>2. AliveAt(slots, todo, 0 + 1, p[1])
        BY <1>1, <3>2, <4>1 DEF HeldInv, TouchpadInv, AliveIn
      <4> QED
        BY <1>1, <1>2, <4>1, <4>2, AliveTail
    <3> QED
      BY <1>11, <2>1, <3>1, <3>2
  <2>2. ASSUME NEW k \in 1 .. Len(Tail(todo)), Tail(todo)[k].kind = "position"
        PROVE  AliveAt(slots, Tail(todo), k, Tail(todo)[k].id)
    <3>1. Tail(todo)[k] = todo[k + 1] /\ k + 1 \in 1 .. Len(todo) /\ k \in 0 .. Len(Tail(todo))
      BY <1>1, <1>2, AliveTail
    <3>2. AliveAt(slots, todo, k + 1, todo[k + 1].id)
      BY <2>2, <3>1 DEF HeldInv, TouchpadInv, AliveIn
    <3> QED
      BY <1>1, <1>2, <3>1, <3>2, AliveTail
  <2> QED
    BY <1>2, <1>3, <2>1, <2>2 DEF AliveIn
<1>12. CASE TouchStarts(e)
  <2>1. e.id \in Int /\ e.pos \in Nat
    BY DEF PadEvents
  <2>2. n + 1 <= hi /\ n + 1 < TouchIds
    BY <1>5, <1>6, <1>12, InputAssumption, ControllerAssumption DEF TouchStarts
  <2>3. Ids \subseteq Nat
    BY <1>9 DEF HeldInv, TouchpadInv, TouchInv, Ids, TouchOf
  <2>4. StartedId(setsu) = n /\ setsu'.next = n + 1 /\ TouchesOf(setsu') = Ids \cup {n}
    <3>0. PICK s : s = setsu
      OBVIOUS
    <3>1. PICK pos \in Nat : s = setsu /\ pos = e.pos /\ StartedId(s) >= 0 /\ s.next + 1 < TouchIds
      BY <1>5, <1>12, <2>1, <2>2, <3>0 DEF TouchStarts
    <3>2. /\ StartedId(s) = s.next /\ StartTouch(s, pos).next = s.next + 1
          /\ TouchesOf(StartTouch(s, pos)) = TouchesOf(s) \cup {s.next}
      BY <1>20, <2>3, <3>1, StartIs
    <3> QED
      BY <1>5, <1>12, <1>20, <3>1, <3>2 DEF TouchStarts
  <2>5. ids' = ids \cup {<<e.id, n>>}
    BY <1>12, <2>4 DEF TouchStarts
  <2>6. TouchInv'
    <3>1. IsFiniteSet(ids')
      BY <2>5, FS_AddElement DEF HeldInv, TouchpadInv, TouchInv
    <3>2. Ids' = Ids \cup {n}
      <4>1. {TouchOf(p) : p \in ids \cup {<<e.id, n>>}} = Ids \cup {TouchOf(<<e.id, n>>)}
        BY DEF Ids
      <4> QED
        BY <2>5, <4>1 DEF Ids, TouchOf
    <3>3. ids' \subseteq Int \X Nat
      BY <1>9, <2>1, <2>5
    <3>4. ASSUME NEW p \in ids' PROVE p[2] < n + 1 /\ \A q \in ids' : p[2] = q[2] => p = q
      <4>1. (p \in ids /\ p[2] < n /\ p[2] \in Nat) \/ p = <<e.id, n>>
        BY <1>9, <2>5
      <4>2. ASSUME NEW q \in ids', p[2] = q[2] PROVE p = q
        <5>1. (q \in ids /\ q[2] < n /\ q[2] \in Nat) \/ q = <<e.id, n>>
          BY <1>9, <2>5
        <5> QED
          BY <4>1, <4>2, <5>1 DEF HeldInv, TouchpadInv, TouchInv
      <4> QED
        BY <4>1, <4>2
    <3> QED
      BY <2>4, <3>1, <3>2, <3>3, <3>4 DEF TouchInv, TouchesOf
  <2>7. CountInv'
    BY <1>2, <1>3, <1>5, <1>6, <1>12, <2>2, <2>4, CountNumbers DEF HeldInv, TouchpadInv, CountInv, TouchStarts
  <2>8. AliveIn(slots, todo)'
    <3>1. \A p \in ids' : p \in ids \/ p[1] = e.id
      BY <2>5
    <3> QED
      BY <1>11, <1>12, <3>1 DEF TouchStarts
  <2> QED
    BY <1>7, <1>8, <2>6, <2>7, <2>8 DEF TouchpadInv
<1>13. CASE TouchesStay(e)
  <2>1. TouchInv'
    BY <1>13, <1>20 DEF HeldInv, TouchpadInv, TouchInv, Ids, TouchesStay, TouchesOf
  <2>2. CountInv'
    BY <1>2, <1>3, <1>5, <1>6, <1>13 DEF HeldInv, TouchpadInv, CountInv, TouchesStay
  <2>3. AliveIn(slots, todo)'
    BY <1>11, <1>13 DEF TouchesStay
  <2> QED
    BY <1>7, <1>8, <2>1, <2>2, <2>3 DEF TouchpadInv
<1> QED
  BY <1>1, <1>10, <1>12, <1>13 DEF TouchStep

\* At the start nothing is touched.
LEMMA HeldInitially ==
  InputInit => HeldInv
<1> SUFFICES ASSUME InputInit PROVE HeldInv
  OBVIOUS
<1>1. LossInv
  BY LossInitially
<1>2. /\ plugged = TRUE /\ udev = <<>> /\ dev = FALSE /\ ids = {} /\ todo = <<>> /\ frames = <<>>
      /\ avail = [connect |-> TRUE, disconnect |-> FALSE, known |-> TRUE] /\ setsu = Idle /\ inputs = 0
  BY DEF InputInit, SetsuInit
<1>3. DeviceInv
  <2>1. avail \in AvailStates
    BY <1>2 DEF AvailStates
  <2>2. avail.connect = TRUE /\ avail.disconnect = FALSE /\ avail.known = TRUE
    BY <1>2
  <2>3. udev \in Seq({"add", "remove"})
    BY <1>2
  <2> QED
    BY <1>2, <2>1, <2>2, <2>3 DEF DeviceInv
<1>4. AliveIn(slots, todo) /\ TrackInv
  BY <1>2 DEF AliveIn, TrackInv
<1>5. TouchInv
  <2>1. {setsu.touches[i].id : i \in Slots} \ {-1} = {}
    BY <1>2 DEF Idle, NoTouch
  <2>2. IsFiniteSet({})
    BY FS_EmptySet
  <2> QED
    BY <1>2, <2>1, <2>2 DEF TouchInv, Ids
<1>6. CountInv
  <2>1. setsu.next = 0 /\ Len(frames) = 0
    BY <1>2 DEF Idle
  <2>2. Stamps(<<>>, <<>>, 0, 0)
    BY DEF Stamps
  <2> QED
    BY <1>2, <2>1, <2>2, InputAssumption DEF CountInv, Stamped
<1> QED
  BY <1>1, <1>3, <1>4, <1>5, <1>6 DEF HeldInv, TouchpadInv

\* Every step keeps the touches in order.
LEMMA HeldStays ==
  ASSUME MaxInputs < TouchIds, HeldInv, [InputNext]_inputVars PROVE HeldInv'
<1>1. LossInv'
  BY LossStays DEF HeldInv
<1>2. CASE UNCHANGED inputVars
  BY <1>1, <1>2, TouchpadStays DEF HeldInv, inputVars, mainVars, stateVars
<1>3. CASE Key \/ PadEvent \/ UpdateGamepads \/ Motion
  <2>1. UNCHANGED <<ids, todo, setsuVars>> /\ (inputs' = inputs \/ Does)
    BY <1>3 DEF Key, PadEvent, UpdateGamepads, Motion, Atomic
  <2>2. setsu' = setsu
    BY <1>3 DEF Key, PadEvent, UpdateGamepads, Motion, SendFeedbackState
  <2> QED
    BY <1>1, <2>1, <2>2, TouchpadStays DEF HeldInv
<1>4. CASE SenderStep /\ UNCHANGED <<mainVars, inputs, setsuVars>>
  BY <1>1, <1>4, TouchpadStays DEF HeldInv, mainVars, stateVars
<1>5. CASE PollDevices
  BY <1>1, <1>5, PollDevicesKeepsTouches DEF HeldInv
<1>6. CASE PollDevice
  BY <1>1, <1>6, PollDeviceKeepsTouches DEF HeldInv
<1>7. CASE HandleSetsuEvent
  BY <1>1, <1>7, HandleKeepsTouches DEF HeldInv
<1>8. CASE Pad
  BY <1>1, <1>8, FingersKeepTouches, PressKeepsTouches, PlugKeepsTouches DEF Pad, HeldInv
<1> QED
  BY <1>2, <1>3, <1>4, <1>5, <1>6, <1>7, <1>8 DEF InputNext, Main

\* Every touch is one finger's, by the parts of the invariant.
LEMMA HeldAre ==
  HeldInv => TouchesAreHeld
<1> SUFFICES ASSUME HeldInv PROVE TouchesAreHeld
  OBVIOUS
<1>1. Cardinality(Ids) = Cardinality(ids)
  <2>1. TouchInv
    BY DEF HeldInv, TouchpadInv
  <2> DEFINE f == [p \in ids |-> TouchOf(p)]
  <2>2. f \in Bijection(ids, Ids)
    <3>1. f \in [ids -> Ids] /\ \A y \in Ids : \E p \in ids : f[p] = y
      BY DEF Ids
    <3>2. \A p \in ids, q \in ids : f[p] = f[q] => p = q
      BY <2>1 DEF TouchInv, TouchOf
    <3> HIDE DEF f
    <3> QED
      BY <3>1, <3>2 DEF Bijection, Injection, Surjection, IsInjective
  <2> HIDE DEF f
  <2>3. IsFiniteSet(ids)
    BY <2>1 DEF TouchInv
  <2> QED
    BY <2>2, <2>3, FS_Bijection DEF ExistsBijection
<1>2. Ids = {setsu.touches[i].id : i \in Slots} \ {-1}
  BY DEF HeldInv, TouchpadInv, TouchInv
<1>3. ~dev => ids = {}
  BY DEF HeldInv, TouchpadInv, DeviceInv
<1>4. ASSUME todo = <<>>, frames = <<>>, udev = <<>>, plugged, NEW p \in ids, p[1] # -1
      PROVE  p[1] \in Range(finger)
  <2>1. dev /\ AliveAt(slots, todo, 0, p[1]) /\ TrackInv
    BY <1>3, <1>4 DEF HeldInv, TouchpadInv, AliveIn
  <2>2. ~Gone(todo, 0, p[1])
    BY <1>4 DEF Gone
  <2>3. PICK i \in 1 .. EvSlots : slots[i].id = p[1]
    BY <1>4, <2>1, <2>2 DEF AliveAt
  <2>4. Decides(i, 0) /\ 0 \in 0 .. Len(frames) /\ Decided(i, 0) = p[1]
    BY <1>4, <2>3 DEF Decides, Decided
  <2>5. p[1] = finger[i]
    BY <1>4, <2>1, <2>4 DEF TrackInv
  <2> QED
    BY <2>5 DEF Range, HeldInv, LossInv, PadTyped
<1> QED
  BY <1>1, <1>2, <1>3, <1>4 DEF TouchesAreHeld

\* While fewer touches are begun than there are ids, so that none is given twice,
\* each touch that the session is told of is one finger's and ends with it, for
\* any number of slots, of frames that wait and of devices that come and go.
THEOREM TouchesHeld ==
  ASSUME MaxInputs < TouchIds PROVE InputSpec => []TouchesAreHeld
<1>1. InputInit => HeldInv
  BY HeldInitially
<1>2. HeldInv /\ [InputNext]_inputVars => HeldInv'
  BY HeldStays
<1>3. HeldInv => TouchesAreHeld
  BY HeldAre
<1> QED
  BY <1>1, <1>2, <1>3, PTL DEF InputSpec

-----------------------------------------------------------------------------
(* What the events leave held                                              *)

\* An event that nothing of K comes after.
LastOf(l, e, K) == \E i \in 1 .. Len(l) : l[i] = e /\ \A j \in i + 1 .. Len(l) : l[j] \notin K
NoneOf(q, K) == \A j \in 1 .. Len(q) : q[j] \notin K

\* More events keep it, unless one of them is of K, or have one of their own.
LEMMA MoreEvents ==
  ASSUME NEW E, NEW l \in Seq(E), NEW q \in Seq(E), NEW e, NEW K
  PROVE  /\ LastOf(l \o q, e, K) <=> LastOf(q, e, K) \/ (LastOf(l, e, K) /\ NoneOf(q, K))
         /\ NoneOf(l \o q, K) <=> NoneOf(l, K) /\ NoneOf(q, K)
<1>1. PICK m \in Nat, n \in Nat : m = Len(l) /\ n = Len(q)
  OBVIOUS
<1>2. PICK s : s = l \o q /\ Len(s) = m + n /\ (\A i \in 1 .. m : s[i] = l[i])
               /\ \A i \in 1 .. n : s[m + i] = q[i]
  <2>1. Chain(l \o q, l, q, E)
    BY BothRange
  <2> QED
    BY <1>1, <2>1 DEF Chain
<1>3. ASSUME NEW j \in m + 1 .. m + n PROVE \E i \in 1 .. n : j = m + i /\ s[j] = q[i]
  <2>1. j - m \in 1 .. n /\ j = m + (j - m)
    BY <1>3
  <2> QED
    BY <1>2, <2>1
<1>4. ASSUME LastOf(s, e, K) PROVE LastOf(q, e, K) \/ (LastOf(l, e, K) /\ NoneOf(q, K))
  <2>1. PICK i \in 1 .. m + n : s[i] = e /\ \A j \in i + 1 .. m + n : s[j] \notin K
    BY <1>2, <1>4 DEF LastOf
  <2>2. CASE i <= m
    <3>1. \A j \in 1 .. n : m + j \in i + 1 .. m + n
      BY <2>2
    <3>2. NoneOf(q, K)
      BY <1>1, <1>2, <2>1, <3>1 DEF NoneOf
    <3>3. \A j \in i + 1 .. m : j \in i + 1 .. m + n /\ j \in 1 .. m
      BY <2>2
    <3>4. LastOf(l, e, K)
      BY <1>1, <1>2, <2>1, <2>2, <3>3 DEF LastOf
    <3> QED
      BY <3>2, <3>4
  <2>3. CASE i > m
    <3>1. PICK x \in 1 .. n : i = m + x /\ s[i] = q[x]
      BY <1>3, <2>3
    <3>2. \A j \in x + 1 .. n : m + j \in i + 1 .. m + n /\ j \in 1 .. n
      BY <3>1
    <3> QED
      BY <1>1, <1>2, <2>1, <3>1, <3>2 DEF LastOf
  <2> QED
    BY <2>2, <2>3
<1>5. ASSUME LastOf(q, e, K) PROVE LastOf(s, e, K)
  <2>1. PICK i \in 1 .. n : q[i] = e /\ \A j \in i + 1 .. n : q[j] \notin K
    BY <1>1, <1>5 DEF LastOf
  <2>2. PICK x \in 1 .. m + n : x = m + i
    OBVIOUS
  <2>3. ASSUME NEW j \in x + 1 .. m + n PROVE s[j] \notin K
    <3>1. j \in m + 1 .. m + n
      BY <2>2
    <3>2. PICK y \in 1 .. n : j = m + y /\ s[j] = q[y]
      BY <1>3, <3>1
    <3> QED
      BY <2>1, <2>2, <3>2
  <2> QED
    BY <1>2, <2>1, <2>2, <2>3 DEF LastOf
<1>6. ASSUME LastOf(l, e, K), NoneOf(q, K) PROVE LastOf(s, e, K)
  <2>1. PICK i \in 1 .. m : l[i] = e /\ \A j \in i + 1 .. m : l[j] \notin K
    BY <1>1, <1>6 DEF LastOf
  <2>2. ASSUME NEW j \in i + 1 .. m + n PROVE s[j] \notin K
    <3>1. CASE j <= m
      BY <1>2, <2>1, <3>1
    <3>2. CASE j > m
      <4>1. PICK y \in 1 .. n : j = m + y /\ s[j] = q[y]
        BY <1>3, <3>2
      <4> QED
        BY <1>1, <1>6, <4>1 DEF NoneOf
    <3> QED
      BY <3>1, <3>2
  <2>3. i \in 1 .. m + n /\ s[i] = e
    BY <1>2, <2>1
  <2> QED
    BY <1>2, <2>2, <2>3 DEF LastOf
<1>7. NoneOf(s, K) <=> NoneOf(l, K) /\ NoneOf(q, K)
  <2>1. ASSUME NoneOf(s, K) PROVE NoneOf(l, K) /\ NoneOf(q, K)
    <3>1. \A i \in 1 .. m : i \in 1 .. m + n
      OBVIOUS
    <3>2. \A i \in 1 .. n : m + i \in 1 .. m + n
      OBVIOUS
    <3> QED
      BY <1>1, <1>2, <2>1, <3>1, <3>2 DEF NoneOf
  <2>2. ASSUME NoneOf(l, K), NoneOf(q, K), NEW j \in 1 .. m + n PROVE s[j] \notin K
    <3>1. CASE j <= m
      BY <1>1, <1>2, <2>2, <3>1 DEF NoneOf
    <3>2. CASE j > m
      <4>1. PICK y \in 1 .. n : j = m + y /\ s[j] = q[y]
        BY <1>3, <3>2
      <4> QED
        BY <1>1, <2>2, <4>1 DEF NoneOf
    <3> QED
      BY <3>1, <3>2
  <2> QED
    BY <1>2, <2>1, <2>2 DEF NoneOf
<1> QED
  BY <1>2, <1>4, <1>5, <1>6, <1>7

\* By what is in a sequence.
LEMMA RangeTells ==
  ASSUME NEW E, NEW q \in Seq(E), NEW e, NEW K
  PROVE  /\ NoneOf(q, K) <=> Range(q) \cap K = {}
         /\ LastOf(q, e, K) => e \in Range(q)
         /\ e \in Range(q) /\ NoneOf(q, K) => LastOf(q, e, K)
<1>1. PICK n \in Nat : n = Len(q) /\ DOMAIN q = 1 .. n
  OBVIOUS
<1>2. \A j \in 1 .. n : q[j] \in Range(q)
  BY <1>1 DEF Range
<1>3. \A x \in Range(q) : \E j \in 1 .. n : q[j] = x
  BY <1>1 DEF Range
<1>4. \A i \in 1 .. n : \A j \in i + 1 .. n : j \in 1 .. n
  OBVIOUS
<1> QED
  BY <1>1, <1>2, <1>3, <1>4 DEF NoneOf, LastOf

\* The events of one touch: it ended, it began or moved, or nothing.
LEMMA TouchBecomes ==
  ASSUME NEW a \in Touches, NEW b \in Touches
  PROVE  /\ a.id # b.id /\ a.id >= 0 => TouchEvents(a, b) = <<Touch(FALSE, a)>>
         /\ ~(a.id # b.id /\ a.id >= 0) /\ b.id >= 0 /\ (a.id # b.id \/ a.pos # b.pos)
              => TouchEvents(a, b) = <<Touch(TRUE, b)>>
         /\ ~(a.id # b.id /\ a.id >= 0) /\ ~(b.id >= 0 /\ (a.id # b.id \/ a.pos # b.pos))
              => TouchEvents(a, b) = <<>>
         /\ Range(TouchEvents(a, b)) \subseteq TouchMarks
<1>1. (a.id >= 0 => Touch(FALSE, a) \in TouchMarks) /\ (b.id >= 0 => Touch(TRUE, b) \in TouchMarks)
  BY DEF TouchMarks, Touch, Touches
<1>2. CASE a.id # b.id /\ a.id >= 0
  <2>1. TouchEvents(a, b) = <<Touch(FALSE, a)>>
    BY <1>2, Zenon DEF TouchEvents
  <2>2. PICK e \in TouchMarks : e = Touch(FALSE, a)
    BY <1>1, <1>2
  <2>3. Range(TouchEvents(a, b)) \subseteq TouchMarks
    <3>1. Range(<<e>>) = {e}
      BY DEF Range
    <3>2. TouchEvents(a, b) = <<e>>
      BY <2>1, <2>2
    <3> QED
      BY <3>1, <3>2
  <2> QED
    BY <1>2, <2>1, <2>3, Zenon
<1>3. CASE ~(a.id # b.id /\ a.id >= 0) /\ b.id >= 0 /\ (a.id # b.id \/ a.pos # b.pos)
  <2>1. TouchEvents(a, b) = <<Touch(TRUE, b)>>
    BY <1>3, Zenon DEF TouchEvents, If
  <2>2. PICK e \in TouchMarks : e = Touch(TRUE, b)
    BY <1>1, <1>3
  <2>3. Range(TouchEvents(a, b)) \subseteq TouchMarks
    <3>1. Range(<<e>>) = {e}
      BY DEF Range
    <3>2. TouchEvents(a, b) = <<e>>
      BY <2>1, <2>2
    <3> QED
      BY <3>1, <3>2
  <2> QED
    BY <1>3, <2>1, <2>3, Zenon
<1>4. CASE ~(a.id # b.id /\ a.id >= 0) /\ ~(b.id >= 0 /\ (a.id # b.id \/ a.pos # b.pos))
  <2>1. TouchEvents(a, b) = <<>>
    BY <1>4, Zenon DEF TouchEvents, If
  <2>2. Range(<<>>) \subseteq TouchMarks
    BY DEF Range
  <2> QED
    BY <1>4, <2>1, <2>2, Zenon
<1> QED
  BY <1>2, <1>3, <1>4, Zenon

\* A state's buttons are those that the events leave held.
ButtonsTell(l, s) ==
  \A o \in Range(Order) : LastOf(l, Button(o, TRUE), {Button(o, FALSE)}) <=> o \in s.buttons

\* The events of a turn bring the buttons of one state to those of the other.
LEMMA ButtonsTold ==
  ASSUME NEW a \in States, NEW b \in States, NEW l \in Seq(FeedbackEvents), ButtonsTell(l, a)
  PROVE  ButtonsTell(l \o Events(a, b), b)
<1>1. PICK q, x, y, u, v : q = Events(a, b) /\ Turns(q, x, y, u, v, a, b)
  BY EventParts
<1>2. /\ q \in Seq(FeedbackEvents)
      /\ Range(q) = (Range(x) \cup Range(y)) \cup (Range(u) \cup Range(v))
      /\ Range(y) = (IF a.l2 # b.l2 THEN {Trigger(b.l2)} ELSE {})
  BY <1>1, TurnRange
<1>3. Range(u) \subseteq TouchMarks /\ Range(v) \subseteq TouchMarks
  <2>1. \A i \in Slots : a.touches[i] \in Touches /\ b.touches[i] \in Touches
    BY DEF States
  <2>2. \A i \in Slots : Range(TouchEvents(a.touches[i], b.touches[i])) \subseteq TouchMarks
    BY <2>1, TouchBecomes
  <2>3. 1 \in Slots /\ 2 \in Slots
    BY DEF Slots
  <2> QED
    BY <1>1, <2>2, <2>3 DEF Turns
<1>4. \A e \in (Range(y) \cup Range(u)) \cup Range(v) : e.kind # "button"
  BY <1>2, <1>3 DEF TouchMarks, Trigger
<1>5. ASSUME NEW o \in Range(Order)
      PROVE  /\ Button(o, TRUE) \in Range(q) <=> o \notin a.buttons /\ o \in b.buttons
             /\ Button(o, FALSE) \in Range(q) <=> o \in a.buttons /\ o \notin b.buttons
  <2>1. \A d \in BOOLEAN : Button(o, d) \in Range(q) <=> Button(o, d) \in Range(x)
    <3>1. \A d \in BOOLEAN : Button(o, d).kind = "button"
      BY DEF Button
    <3> QED
      BY <1>2, <1>4, <3>1
  <2>3. Range(x) = {Button(p, p \in b.buttons) :
                      p \in {r \in Range(Order) : (r \in a.buttons) # (r \in b.buttons)}}
    BY <1>1 DEF Turns
  <2>4. ASSUME NEW d \in BOOLEAN, Button(o, d) \in Range(x)
        PROVE  (d <=> o \in b.buttons) /\ (o \in a.buttons <=> o \notin b.buttons)
    <3>1. PICK p \in Range(Order) : /\ (p \in a.buttons) # (p \in b.buttons)
                                   /\ Button(o, d) = Button(p, p \in b.buttons)
      BY <2>3, <2>4
    <3>2. o = p /\ (d <=> p \in b.buttons)
      BY <3>1 DEF Button
    <3> QED
      BY <3>1, <3>2
  <2>5. ASSUME NEW d \in BOOLEAN, d <=> o \in b.buttons, o \in a.buttons <=> o \notin b.buttons
        PROVE  Button(o, d) \in Range(x)
    <3>1. (o \in a.buttons) # (o \in b.buttons)
      BY <2>5
    <3>2. Button(o, o \in b.buttons) \in Range(x)
      BY <2>3, <3>1, Zenon
    <3>3. Button(o, d) = Button(o, o \in b.buttons)
      BY <2>5 DEF Button
    <3> QED
      BY <3>2, <3>3
  <2> QED
    BY <2>1, <2>4, <2>5
<1>6. ASSUME NEW o \in Range(Order)
      PROVE  LastOf(l \o q, Button(o, TRUE), {Button(o, FALSE)}) <=> o \in b.buttons
  <2>1. PICK e, K : e = Button(o, TRUE) /\ K = {Button(o, FALSE)}
    OBVIOUS
  <2>2. LastOf(l \o q, e, K) <=> LastOf(q, e, K) \/ (LastOf(l, e, K) /\ NoneOf(q, K))
    BY <1>2, MoreEvents
  <2>3. /\ NoneOf(q, K) <=> Range(q) \cap K = {}
        /\ LastOf(q, e, K) => e \in Range(q)
        /\ e \in Range(q) /\ NoneOf(q, K) => LastOf(q, e, K)
    BY <1>2, RangeTells
  <2>4. LastOf(l, e, K) <=> o \in a.buttons
    BY <2>1 DEF ButtonsTell
  <2>5. NoneOf(q, K) <=> ~(o \in a.buttons /\ o \notin b.buttons)
    BY <1>5, <2>1, <2>3
  <2>6. e \in Range(q) <=> o \notin a.buttons /\ o \in b.buttons
    BY <1>5, <2>1
  <2> QED
    BY <2>1, <2>2, <2>3, <2>4, <2>5, <2>6
<1> QED
  BY <1>1, <1>6 DEF ButtonsTell

\* A state's trigger is the last one told, or none was told yet.
TriggerTells(l, s) ==
  (NoneOf(l, TriggerMarks) /\ s.l2 = 0) \/ LastOf(l, Trigger(s.l2), TriggerMarks)

\* So is the trigger.
LEMMA TriggerTold ==
  ASSUME NEW a \in States, NEW b \in States, NEW l \in Seq(FeedbackEvents), TriggerTells(l, a)
  PROVE  TriggerTells(l \o Events(a, b), b)
<1>1. PICK q, x, y, u, v : q = Events(a, b) /\ Turns(q, x, y, u, v, a, b)
  BY EventParts
<1>2. /\ q \in Seq(FeedbackEvents) /\ x \in Seq(FeedbackEvents) /\ y \in Seq(FeedbackEvents)
      /\ u \in Seq(FeedbackEvents) /\ v \in Seq(FeedbackEvents)
      /\ Range(y) = (IF a.l2 # b.l2 THEN {Trigger(b.l2)} ELSE {})
  <2>1. Turns(q, x, y, u, v, a, b)
    BY <1>1
  <2>2. q \in Seq(FeedbackEvents) /\ Range(y) = (IF a.l2 # b.l2 THEN {Trigger(b.l2)} ELSE {})
    BY <2>1, TurnRange
  <2> QED
    BY <2>1, <2>2 DEF Turns
<1>3. Range(u) \subseteq TouchMarks /\ Range(v) \subseteq TouchMarks
  <2>1. \A i \in Slots : a.touches[i] \in Touches /\ b.touches[i] \in Touches
    BY DEF States
  <2>2. \A i \in Slots : Range(TouchEvents(a.touches[i], b.touches[i])) \subseteq TouchMarks
    BY <2>1, TouchBecomes
  <2>3. 1 \in Slots /\ 2 \in Slots
    BY DEF Slots
  <2> QED
    BY <1>1, <2>2, <2>3 DEF Turns
<1>4. \A e \in TriggerMarks : e.kind = "trigger"
  BY DEF TriggerMarks
<1>5. NoneOf(x, TriggerMarks) /\ NoneOf(u, TriggerMarks) /\ NoneOf(v, TriggerMarks)
  <2>1. \A e \in TouchMarks : e.kind # "trigger"
    BY DEF TouchMarks
  <2>2. \A e \in Range(x) : e.kind # "trigger"
    <3>1. Range(x) = {Button(p, p \in b.buttons) :
                        p \in {r \in Range(Order) : (r \in a.buttons) # (r \in b.buttons)}}
      BY <1>1 DEF Turns
    <3>2. \A p, d : Button(p, d).kind # "trigger"
      BY DEF Button
    <3> QED
      BY <3>1, <3>2
  <2>3. Range(x) \cap TriggerMarks = {} /\ Range(u) \cap TriggerMarks = {}
        /\ Range(v) \cap TriggerMarks = {}
    BY <1>3, <1>4, <2>1, <2>2
  <2> QED
    BY <1>2, <2>3, RangeTells
<1>6. x \o y \in Seq(FeedbackEvents) /\ u \o v \in Seq(FeedbackEvents) /\ q = (x \o y) \o (u \o v)
  BY <1>1, <1>2 DEF Turns
<1>7. NoneOf(u \o v, TriggerMarks)
  BY <1>2, <1>5, MoreEvents
<1>8. CASE a.l2 = b.l2
  <2>1. NoneOf(y, TriggerMarks)
    BY <1>2, <1>8, RangeTells
  <2>2. NoneOf(x \o y, TriggerMarks)
    BY <1>2, <1>5, <2>1, MoreEvents
  <2>3. NoneOf(q, TriggerMarks)
    BY <1>6, <1>7, <2>2, MoreEvents
  <2>4. CASE NoneOf(l, TriggerMarks) /\ a.l2 = 0
    BY <1>1, <1>2, <1>8, <2>3, <2>4, MoreEvents DEF TriggerTells
  <2>5. CASE LastOf(l, Trigger(a.l2), TriggerMarks)
    <3>1. PICK e : e = Trigger(b.l2) /\ LastOf(l, e, TriggerMarks)
      BY <1>8, <2>5
    <3>2. LastOf(l \o q, e, TriggerMarks)
      BY <1>2, <2>3, <3>1, MoreEvents
    <3> QED
      BY <1>1, <3>1, <3>2 DEF TriggerTells
  <2> QED
    BY <2>4, <2>5 DEF TriggerTells
<1>9. CASE a.l2 # b.l2
  <2>1. PICK e : e = Trigger(b.l2) /\ y = <<e>>
    BY <1>1, <1>9 DEF Turns, If
  <2>2. LastOf(y, e, TriggerMarks)
    BY <2>1 DEF LastOf
  <2>3. LastOf(x \o y, e, TriggerMarks)
    BY <1>2, <2>2, MoreEvents
  <2>4. LastOf(q, e, TriggerMarks)
    BY <1>6, <1>7, <2>3, MoreEvents
  <2>5. LastOf(l \o q, e, TriggerMarks)
    BY <1>2, <2>4, MoreEvents
  <2> QED
    BY <1>1, <2>1, <2>5 DEF TriggerTells
<1> QED
  BY <1>8, <1>9

\* One event, and none.
LEMMA OneEvent ==
  ASSUME NEW e, NEW d, NEW K
  PROVE  /\ LastOf(<<e>>, d, K) <=> e = d
         /\ NoneOf(<<e>>, K) <=> e \notin K
         /\ ~LastOf(<<>>, d, K) /\ NoneOf(<<>>, K)
  BY DEF LastOf, NoneOf

\* The events about a touch, and the one that says where it is.
About(x) == {e \in TouchMarks : e.what = x}
Down(x, v) == Touch(TRUE, [id |-> x, pos |-> v])
Touching(t, x, v) == t.id = x /\ t.pos = v

\* What one place of the touches becomes is what its events say, unless another
\* touch took the place of the one there.
LEMMA TouchBy ==
  ASSUME NEW a \in Touches, NEW b \in Touches, NEW x \in Nat, NEW v \in Nat,
         ~(a.id # b.id /\ a.id >= 0 /\ b.id >= 0), NEW u, u = TouchEvents(a, b)
  PROVE  /\ a.id # x /\ b.id # x => NoneOf(u, About(x)) /\ ~LastOf(u, Down(x, v), About(x))
         /\ a.id = x \/ b.id = x =>
              (LastOf(u, Down(x, v), About(x)) \/ (Touching(a, x, v) /\ NoneOf(u, About(x)))
                 <=> Touching(b, x, v))
<1>1. PICK K, d : K = About(x) /\ d = Down(x, v)
  OBVIOUS
<1>2. d.what = x /\ d.kind = "down" /\ d.value = v
  BY <1>1 DEF Down, Touch
<1>3. CASE a.id # b.id /\ a.id >= 0
  <2>1. PICK e : e = Touch(FALSE, a) /\ u = <<e>> /\ e.kind = "up" /\ e.what = a.id /\ e \in TouchMarks
    <3>1. u = <<Touch(FALSE, a)>>
      BY <1>3, TouchBecomes, Zenon
    <3>2. Touch(FALSE, a).kind = "up" /\ Touch(FALSE, a).what = a.id /\ Touch(FALSE, a) \in TouchMarks
      BY <1>3 DEF Touch, TouchMarks, Touches
    <3> QED
      BY <3>1, <3>2
  <2>2. e # d
    BY <1>2, <2>1
  <2>3. ~LastOf(u, d, K) /\ (NoneOf(u, K) <=> e \notin K)
    <3>1. (LastOf(<<e>>, d, K) <=> e = d) /\ (NoneOf(<<e>>, K) <=> e \notin K)
      BY OneEvent, Zenon
    <3> QED
      BY <2>1, <2>2, <3>1, Zenon
  <2>4. e \in K <=> a.id = x
    BY <1>1, <2>1 DEF About
  <2>5. b.id < 0
    BY <1>3 DEF Touches
  <2> QED
    BY <1>1, <2>3, <2>4, <2>5 DEF Touching
<1>4. CASE ~(a.id # b.id /\ a.id >= 0) /\ b.id >= 0 /\ (a.id # b.id \/ a.pos # b.pos)
  <2>1. PICK e : e = Touch(TRUE, b) /\ u = <<e>> /\ e.what = b.id /\ e.value = b.pos /\ e \in TouchMarks
    <3>1. u = <<Touch(TRUE, b)>>
      BY <1>4, TouchBecomes, Zenon
    <3>2. Touch(TRUE, b).what = b.id /\ Touch(TRUE, b).value = b.pos /\ Touch(TRUE, b) \in TouchMarks
      BY <1>4 DEF Touch, TouchMarks, Touches
    <3> QED
      BY <3>1, <3>2
  <2>2. e = d <=> b.id = x /\ b.pos = v
    BY <1>1, <2>1 DEF Down, Touch
  <2>3. (LastOf(u, d, K) <=> e = d) /\ (NoneOf(u, K) <=> e \notin K)
    <3>1. (LastOf(<<e>>, d, K) <=> e = d) /\ (NoneOf(<<e>>, K) <=> e \notin K)
      BY OneEvent, Zenon
    <3> QED
      BY <2>1, <3>1, Zenon
  <2>4. e \in K <=> b.id = x
    BY <1>1, <2>1 DEF About
  <2>5. a.id = b.id \/ a.id < 0
    BY <1>4 DEF Touches
  <2> QED
    BY <1>1, <2>2, <2>3, <2>4, <2>5 DEF Touching
<1>5. CASE ~(a.id # b.id /\ a.id >= 0) /\ ~(b.id >= 0 /\ (a.id # b.id \/ a.pos # b.pos))
  <2>1. u = <<>>
    BY <1>5, TouchBecomes, Zenon
  <2>2. ~LastOf(u, d, K) /\ NoneOf(u, K)
    <3>1. ~LastOf(<<>>, d, K) /\ NoneOf(<<>>, K)
      BY OneEvent, Zenon
    <3> QED
      BY <2>1, <3>1, Zenon
  <2>3. (a.id = x <=> b.id = x) /\ (a.id = x => a.pos = b.pos)
    BY <1>5 DEF Touches
  <2> QED
    BY <1>1, <2>2, <2>3 DEF Touching
<1> QED
  BY <1>3, <1>4, <1>5, Zenon

\* A state's touches are those that the events leave down.
TouchesTell(l, s) ==
  \A x \in Nat, v \in Nat :
    LastOf(l, Down(x, v), About(x)) <=> \E i \in Slots : Touching(s.touches[i], x, v)

\* Each touch has a place of its own, which it keeps, and ids go up to n.
Homes(h, s, n) ==
  \A i \in Slots : s.touches[i].id >= 0 => s.touches[i].id < n /\ h[s.touches[i].id] = i

\* So are the touches, if none took another one's place.
LEMMA TouchesTold ==
  ASSUME NEW a \in States, NEW b \in States, NEW l \in Seq(FeedbackEvents), TouchesTell(l, a),
         NEW h, NEW n, Homes(h, a, n), Homes(h, b, n),
         \A i \in Slots : ~(a.touches[i].id # b.touches[i].id /\ a.touches[i].id >= 0
                            /\ b.touches[i].id >= 0)
  PROVE  TouchesTell(l \o Events(a, b), b)
<1>1. PICK q, g, y, u, w : q = Events(a, b) /\ Turns(q, g, y, u, w, a, b)
  BY EventParts
<1>2. /\ q \in Seq(FeedbackEvents) /\ g \in Seq(FeedbackEvents) /\ y \in Seq(FeedbackEvents)
      /\ u \in Seq(FeedbackEvents) /\ w \in Seq(FeedbackEvents)
      /\ Range(y) = (IF a.l2 # b.l2 THEN {Trigger(b.l2)} ELSE {})
      /\ q = (g \o y) \o (u \o w)
  <2>1. Turns(q, g, y, u, w, a, b)
    BY <1>1
  <2>2. q \in Seq(FeedbackEvents) /\ Range(y) = (IF a.l2 # b.l2 THEN {Trigger(b.l2)} ELSE {})
    BY <2>1, TurnRange
  <2> QED
    BY <2>1, <2>2 DEF Turns
<1>3. PICK a1 \in Touches, a2 \in Touches :
        a1 = a.touches[1] /\ a2 = a.touches[2]
  BY DEF States, Slots
<1>4. PICK b1 \in Touches, b2 \in Touches :
        b1 = b.touches[1] /\ b2 = b.touches[2]
  BY DEF States, Slots
<1>5. u = TouchEvents(a1, b1) /\ w = TouchEvents(a2, b2)
  BY <1>1, <1>3, <1>4 DEF Turns
<1>6. /\ ~(a1.id # b1.id /\ a1.id >= 0 /\ b1.id >= 0)
      /\ ~(a2.id # b2.id /\ a2.id >= 0 /\ b2.id >= 0)
  BY <1>3, <1>4 DEF Slots
<1>7. ASSUME NEW x \in Nat, NEW v \in Nat
      PROVE  LastOf(l \o q, Down(x, v), About(x)) <=> Touching(b1, x, v) \/ Touching(b2, x, v)
  <2>1. PICK K, d : K = About(x) /\ d = Down(x, v)
    OBVIOUS
  <2>2. \A e \in K : e.kind \in {"down", "up"}
    BY <2>1 DEF About, TouchMarks
  <2>3. d.kind = "down"
    BY <2>1 DEF Down, Touch
  <2>4. \A e \in Range(g) \cup Range(y) : e.kind \in {"button", "trigger"}
    <3>1. Range(g) = {Button(p, p \in b.buttons) :
                        p \in {r \in Range(Order) : (r \in a.buttons) # (r \in b.buttons)}}
      BY <1>1 DEF Turns
    <3>2. \A p, f : Button(p, f).kind = "button"
      BY DEF Button
    <3>3. \A f : Trigger(f).kind = "trigger"
      BY DEF Trigger
    <3> QED
      BY <1>2, <3>1, <3>2, <3>3
  <2>5. Range(g) \cap K = {} /\ Range(y) \cap K = {} /\ d \notin Range(g) /\ d \notin Range(y)
    BY <2>2, <2>3, <2>4
  <2>6. NoneOf(g, K) /\ NoneOf(y, K) /\ ~LastOf(g, d, K) /\ ~LastOf(y, d, K)
    BY <1>2, <2>5, RangeTells
  <2>7. NoneOf(g \o y, K) /\ ~LastOf(g \o y, d, K)
    BY <1>2, <2>6, MoreEvents
  <2>8. PICK s \in Seq(FeedbackEvents), t \in Seq(FeedbackEvents) :
          s = g \o y /\ t = u \o w /\ q = s \o t
    <3>1. g \o y \in Seq(FeedbackEvents) /\ u \o w \in Seq(FeedbackEvents)
      BY <1>2
    <3> QED
      BY <1>2, <3>1, Zenon
  <2>9. /\ LastOf(t, d, K) <=> LastOf(w, d, K) \/ (LastOf(u, d, K) /\ NoneOf(w, K))
        /\ NoneOf(t, K) <=> NoneOf(u, K) /\ NoneOf(w, K)
    BY <1>2, <2>8, MoreEvents
  <2>10. (LastOf(q, d, K) <=> LastOf(t, d, K)) /\ (NoneOf(q, K) <=> NoneOf(t, K))
    <3>1. /\ LastOf(s \o t, d, K) <=> LastOf(t, d, K) \/ (LastOf(s, d, K) /\ NoneOf(t, K))
          /\ NoneOf(s \o t, K) <=> NoneOf(s, K) /\ NoneOf(t, K)
      BY MoreEvents
    <3>2. NoneOf(s, K) /\ ~LastOf(s, d, K)
      BY <2>7, <2>8, Zenon
    <3>3. (LastOf(s \o t, d, K) <=> LastOf(t, d, K)) /\ (NoneOf(s \o t, K) <=> NoneOf(t, K))
      BY <3>1, <3>2, Zenon
    <3> QED
      BY <2>8, <3>3, Zenon
  <2>11. LastOf(l \o q, d, K) <=> LastOf(q, d, K) \/ (LastOf(l, d, K) /\ NoneOf(q, K))
    <3>1. q \in Seq(FeedbackEvents)
      BY <1>2, Zenon
    <3> QED
      BY <3>1, MoreEvents
  <2>12. LastOf(l, d, K) <=> Touching(a1, x, v) \/ Touching(a2, x, v)
    <3>1. LastOf(l, d, K) <=> \E i \in Slots : Touching(a.touches[i], x, v)
      BY <2>1 DEF TouchesTell
    <3>2. Slots = {1, 2}
      BY DEF Slots
    <3> QED
      BY <1>3, <3>1, <3>2
  <2>13. /\ a1.id # x /\ b1.id # x => NoneOf(u, K) /\ ~LastOf(u, d, K)
         /\ a1.id = x \/ b1.id = x =>
              (LastOf(u, d, K) \/ (Touching(a1, x, v) /\ NoneOf(u, K)) <=> Touching(b1, x, v))
    BY <1>5, <1>6, <2>1, TouchBy
  <2>14. /\ a2.id # x /\ b2.id # x => NoneOf(w, K) /\ ~LastOf(w, d, K)
         /\ a2.id = x \/ b2.id = x =>
              (LastOf(w, d, K) \/ (Touching(a2, x, v) /\ NoneOf(w, K)) <=> Touching(b2, x, v))
    BY <1>5, <1>6, <2>1, TouchBy
  <2>15. (a1.id = x \/ b1.id = x => h[x] = 1) /\ (a2.id = x \/ b2.id = x => h[x] = 2)
    BY <1>3, <1>4 DEF Homes, Slots
  <2>16. CASE a1.id = x \/ b1.id = x
    <3>1. a2.id # x /\ b2.id # x
      BY <2>15, <2>16
    <3>2. ~Touching(a2, x, v) /\ ~Touching(b2, x, v)
      BY <3>1 DEF Touching
    <3> QED
      BY <2>1, <2>9, <2>10, <2>11, <2>12, <2>13, <2>14, <2>16, <3>1, <3>2
  <2>17. CASE ~(a1.id = x \/ b1.id = x)
    <3>1. ~Touching(a1, x, v) /\ ~Touching(b1, x, v)
      BY <2>17 DEF Touching
    <3>2. CASE a2.id = x \/ b2.id = x
      BY <2>1, <2>9, <2>10, <2>11, <2>12, <2>13, <2>14, <2>17, <3>1, <3>2
    <3>3. CASE ~(a2.id = x \/ b2.id = x)
      <4>1. ~Touching(a2, x, v) /\ ~Touching(b2, x, v)
        BY <3>3 DEF Touching
      <4> QED
        BY <2>1, <2>9, <2>10, <2>11, <2>12, <2>13, <2>14, <2>17, <3>1, <3>3, <4>1
    <3> QED
      BY <3>2, <3>3
  <2> QED
    BY <2>16, <2>17
<1>8. Slots = {1, 2}
  BY DEF Slots
<1> QED
  BY <1>1, <1>4, <1>7, <1>8 DEF TouchesTell

-----------------------------------------------------------------------------
(* What is held and what the session is given                              *)

Untouching(s) == \A i \in Slots : s.touches[i].id < 0

\* The fields of what SendFeedbackState gives the session.
LEMMA OrBy ==
  ASSUME NEW a \in States, NEW b \in States
  PROVE  /\ Or(a, b).buttons = a.buttons \cup b.buttons
         /\ Or(a, b).l2 = (IF a.l2 = 255 \/ b.l2 = 255 THEN 255 ELSE 0)
         /\ Or(a, b).stick = (IF a.stick # 0 \/ b.stick # 0 THEN -1 ELSE 0)
         /\ Untouching(b) => \A i \in Slots : Or(a, b).touches[i] = IF a.touches[i].id >= 0 THEN a.touches[i]
                                                                   ELSE NoTouch
<1>1. a.l2 \in {0, 255} /\ b.l2 \in {0, 255} /\ a.stick \in {-1, 0} /\ b.stick \in {-1, 0}
  BY DEF States
<1>2. Or(a, b).buttons = a.buttons \cup b.buttons
  BY DEF Or
<1>3. Or(a, b).l2 = (IF a.l2 = 255 \/ b.l2 = 255 THEN 255 ELSE 0)
  <2>1. Or(a, b).l2 = IF a.l2 > b.l2 THEN a.l2 ELSE b.l2
    BY DEF Or
  <2> QED
    BY <1>1, <2>1
<1>4. Or(a, b).stick = (IF a.stick # 0 \/ b.stick # 0 THEN -1 ELSE 0)
  <2>1. Or(a, b).stick = IF Abs(a.stick) > Abs(b.stick) THEN a.stick ELSE b.stick
    BY DEF Or
  <2> QED
    BY <1>1, <2>1 DEF Abs
<1>5. ASSUME Untouching(b), NEW i \in Slots
      PROVE  Or(a, b).touches[i] = IF a.touches[i].id >= 0 THEN a.touches[i] ELSE NoTouch
  <2>1. Or(a, b).touches[i] = IF a.touches[i].id >= 0 THEN a.touches[i]
                              ELSE IF b.touches[i].id >= 0 THEN b.touches[i] ELSE NoTouch
    BY DEF Or
  <2>2. ~(b.touches[i].id >= 0)
    BY <1>5 DEF Untouching, States, Touches
  <2> QED
    BY <2>1, <2>2
<1> QED
  BY <1>2, <1>3, <1>4, <1>5

\* The devices that SendFeedbackState merges.
Devices(s, p, k) == {k, s} \cup (IF p.open THEN {p.state} ELSE {})

\* What is held on any of the devices, field by field.
MergedBy(m, s, D) ==
  /\ m \in States
  /\ m.buttons = UNION {d.buttons : d \in D}
  /\ m.l2 = (IF \E d \in D : d.l2 = 255 THEN 255 ELSE 0)
  /\ m.stick = (IF \E d \in D : d.stick # 0 THEN -1 ELSE 0)
  /\ \A i \in Slots : m.touches[i] = IF s.touches[i].id >= 0 THEN s.touches[i] ELSE NoTouch

\* The union of the devices, of which only the touchpad has touches.
LEMMA MergedFields ==
  ASSUME NEW s \in States, NEW p \in [open : BOOLEAN, state : States], NEW k \in States,
         Untouching(p.state), Untouching(k)
  PROVE  MergedBy(Merged(s, p, k), s, Devices(s, p, k))
<1>1. PICK c \in States : c = p.state
  OBVIOUS
<1>2. NoTouch.id = -1 /\ \A i \in Slots : s.touches[i].id \in Int
  BY DEF NoTouch, States, Touches
<1>3. Merged(s, p, k) \in States
  BY MergedIs
<1>4. CASE p.open
  <2>1. PICK o \in States : o = Or(s, c)
    BY OrIs
  <2>2. /\ o.buttons = s.buttons \cup c.buttons
        /\ o.l2 = (IF s.l2 = 255 \/ c.l2 = 255 THEN 255 ELSE 0)
        /\ o.stick = (IF s.stick # 0 \/ c.stick # 0 THEN -1 ELSE 0)
        /\ \A i \in Slots : o.touches[i] = IF s.touches[i].id >= 0 THEN s.touches[i] ELSE NoTouch
    BY <1>1, <2>1, OrBy
  <2>3. PICK m : m = Merged(s, p, k) /\ m = Or(o, k)
    BY <1>1, <1>4, <2>1 DEF Merged
  <2>4. /\ m.buttons = o.buttons \cup k.buttons
        /\ m.l2 = (IF o.l2 = 255 \/ k.l2 = 255 THEN 255 ELSE 0)
        /\ m.stick = (IF o.stick # 0 \/ k.stick # 0 THEN -1 ELSE 0)
        /\ \A i \in Slots : m.touches[i] = IF o.touches[i].id >= 0 THEN o.touches[i] ELSE NoTouch
    BY <2>3, OrBy
  <2>5. Devices(s, p, k) = {k, s, c}
    BY <1>1, <1>4 DEF Devices
  <2>6. UNION {d.buttons : d \in {k, s, c}} = (s.buttons \cup c.buttons) \cup k.buttons
    OBVIOUS
  <2>10. m.buttons = UNION {d.buttons : d \in {k, s, c}}
    BY <2>2, <2>4, <2>6, Zenon
  <2>11. m \in States
    BY <1>3, <2>3, Zenon
  <2>7. \A i \in Slots : m.touches[i] = IF s.touches[i].id >= 0 THEN s.touches[i] ELSE NoTouch
    BY <1>2, <2>2, <2>4
  <2>8. m.l2 = (IF \E d \in {k, s, c} : d.l2 = 255 THEN 255 ELSE 0)
    BY <2>2, <2>4
  <2>9. m.stick = (IF \E d \in {k, s, c} : d.stick # 0 THEN -1 ELSE 0)
    BY <2>2, <2>4
  <2>12. MergedBy(m, s, {k, s, c})
    BY <2>7, <2>8, <2>9, <2>10, <2>11, Zenon DEF MergedBy
  <2> QED
    BY <2>3, <2>5, <2>12, Zenon
<1>5. CASE ~p.open
  <2>1. PICK m : m = Merged(s, p, k) /\ m = Or(s, k)
    BY <1>5 DEF Merged
  <2>2. /\ m.buttons = s.buttons \cup k.buttons
        /\ m.l2 = (IF s.l2 = 255 \/ k.l2 = 255 THEN 255 ELSE 0)
        /\ m.stick = (IF s.stick # 0 \/ k.stick # 0 THEN -1 ELSE 0)
        /\ \A i \in Slots : m.touches[i] = IF s.touches[i].id >= 0 THEN s.touches[i] ELSE NoTouch
    BY <2>1, OrBy
  <2>3. Devices(s, p, k) = {k, s}
    BY <1>5 DEF Devices
  <2>4. m.buttons = UNION {d.buttons : d \in {k, s}}
    BY <2>2
  <2>5. m.l2 = (IF \E d \in {k, s} : d.l2 = 255 THEN 255 ELSE 0)
    BY <2>2
  <2>6. m.stick = (IF \E d \in {k, s} : d.stick # 0 THEN -1 ELSE 0)
    BY <2>2
  <2>7. m \in States
    BY <1>3, <2>1, Zenon
  <2>8. MergedBy(m, s, {k, s})
    BY <2>2, <2>4, <2>5, <2>6, <2>7, Zenon DEF MergedBy
  <2> QED
    BY <2>1, <2>3, <2>8, Zenon
<1> QED
  BY <1>4, <1>5

\* chiaki_controller_state_equals tells apart all that is held.
LEMMA EqualsIs ==
  ASSUME NEW a \in States, NEW b \in States
  PROVE  /\ Equals(a, a)
         /\ Equals(a, b) => /\ a.buttons = b.buttons /\ a.l2 = b.l2 /\ a.stick = b.stick
                            /\ \A i \in Slots : /\ a.touches[i].id = b.touches[i].id
                                                /\ a.touches[i].id >= 0 => a.touches[i] = b.touches[i]
<1>1. \A i \in Slots : a.touches[i] \in Touches /\ b.touches[i] \in Touches
  BY DEF States
<1>2. \A t \in Touches, z \in Touches : t.id = z.id /\ t.pos = z.pos => t = z
  BY DEF Touches
<1> QED
  BY <1>1, <1>2 DEF Equals, SameTouches

-----------------------------------------------------------------------------
(* What is held arrives                                                    *)

\* The sender's events leave held what its last state holds.
TellsPrev ==
  /\ sender = "waits" => active
  /\ sender = "none" => prev = Idle
  /\ sender = "waits" /\ ~changed => Equals(prev, cur)
  /\ lastState = prev.stick /\ replaced \in BOOLEAN
  /\ ButtonsTell(log, prev) /\ TriggerTells(log, prev) /\ (~replaced => TouchesTell(log, prev))

\* The session has what the devices hold, and the sender what the session has.
Agrees(a, b) ==
  /\ a.buttons \ {"touchpad"} = b.buttons \ {"touchpad"}
  /\ a.l2 = b.l2 /\ a.stick = b.stick /\ a.touches = b.touches
Given ==
  /\ active => Equals(cur, session)
  /\ Agrees(session, Merged(setsu, pad, keyboard))
  /\ Untouching(keyboard) /\ Untouching(pad.state)

\* No touch moves from one place to the other, in any of the states.
AllHomes(h, n) == Homes(h, prev, n) /\ Homes(h, cur, n) /\ Homes(h, session, n) /\ Homes(h, setsu, n)
Settled == \E h : AllHomes(h, setsu.next)

ArriveInv == HeldInv /\ TellsPrev /\ Given /\ Settled

\* What SendFeedbackState does, when no touch moves.
LEMMA SendArrives ==
  ASSUME ArriveInv, NEW s \in States, NEW p \in [open : BOOLEAN, state : States], NEW k \in States,
         Untouching(p.state), Untouching(k), SendFeedbackState(s, p, k),
         NEW h, Homes(h, prev, s.next), Homes(h, cur, s.next), Homes(h, s, s.next)
  PROVE  TellsPrev' /\ Given' /\ Settled'
<1>1. PICK m \in States : m = Merged(s, p, k) /\ MergedBy(m, s, Devices(s, p, k))
  BY MergedIs, MergedFields
<1>2. /\ setsu' = s /\ pad' = p /\ keyboard' = k /\ session' = m
      /\ UNCHANGED <<active, prev, sender, log, lastState, replaced>>
      /\ IF active /\ ~Equals(cur, m) THEN cur' = m /\ changed' = TRUE ELSE UNCHANGED <<cur, changed>>
  BY <1>1 DEF SendFeedbackState, SetState
<1>3. cur \in States /\ prev \in States
  BY DEF ArriveInv, HeldInv, LossInv, StatesTyped
<1>4. Homes(h, m, s.next)
  <2>1. \A i \in Slots : m.touches[i] = IF s.touches[i].id >= 0 THEN s.touches[i] ELSE NoTouch
    BY <1>1 DEF MergedBy
  <2>2. ~(NoTouch.id >= 0)
    BY DEF NoTouch
  <2> QED
    BY <2>1, <2>2 DEF Homes
<1>5. TellsPrev'
  BY <1>2 DEF ArriveInv, TellsPrev
<1>6. Given'
  <2>1. active' => Equals(cur', session')
    BY <1>2, <1>3, EqualsIs
  <2>2. Agrees(session', Merged(setsu', pad', keyboard'))
    BY <1>1, <1>2 DEF Agrees
  <2> QED
    BY <1>2, <2>1, <2>2 DEF Given
<1>7. Settled'
  <2>1. setsu'.next = s.next /\ Homes(h, cur', s.next)
    BY <1>2, <1>4
  <2>2. Homes(h, prev, s.next)' /\ Homes(h, cur, s.next)' /\ Homes(h, session, s.next)'
        /\ Homes(h, setsu, s.next)'
    BY <1>2, <1>4, <2>1 DEF Homes
  <2> QED
    BY <1>2, <2>2 DEF Settled, AllHomes
<1> QED
  BY <1>5, <1>6, <1>7

\* At the start nothing is held and nothing told.
LEMMA ArriveInitially ==
  InputInit => ArriveInv
<1> SUFFICES ASSUME InputInit PROVE ArriveInv
  OBVIOUS
<1>1. HeldInv
  BY HeldInitially
<1>2. /\ session = Idle /\ active = FALSE /\ cur = Idle /\ prev = Idle /\ changed = FALSE
      /\ sender = "none" /\ log = <<>> /\ lastState = 0 /\ replaced = FALSE
      /\ keyboard = Idle /\ pad = Closed /\ setsu = Idle
  BY DEF InputInit, SenderInit
<1>3. /\ Idle \in States /\ Idle.buttons = {} /\ Idle.l2 = 0 /\ Idle.stick = 0 /\ Idle.next = 0
      /\ Idle.touches = [i \in Slots |-> NoTouch] /\ NoTouch.id = -1
  BY IdleIs DEF Idle, NoTouch
<1>4. \A i \in Slots : Idle.touches[i] = NoTouch
  BY <1>3
<1>5. TellsPrev
  <2>1. ButtonsTell(log, prev)
    BY <1>2, <1>3, OneEvent DEF ButtonsTell
  <2>2. TriggerTells(log, prev)
    BY <1>2, <1>3, OneEvent DEF TriggerTells
  <2>3. TouchesTell(log, prev)
    <3>1. ASSUME NEW x \in Nat, NEW v \in Nat PROVE ~LastOf(<<>>, Down(x, v), About(x))
      BY OneEvent
    <3>2. ASSUME NEW x \in Nat, NEW v \in Nat, NEW i \in Slots PROVE ~Touching(Idle.touches[i], x, v)
      BY <1>3, <1>4 DEF Touching
    <3> QED
      BY <1>2, <3>1, <3>2 DEF TouchesTell
  <2> QED
    BY <1>2, <1>3, <2>1, <2>2, <2>3 DEF TellsPrev
<1>6. Given
  <2>1. Closed \in [open : BOOLEAN, state : States] /\ Closed.state = Idle /\ ~Closed.open
    BY <1>3 DEF Closed
  <2>2. Untouching(Idle)
    BY <1>3, <1>4 DEF Untouching
  <2>3. PICK m : m = Merged(Idle, Closed, Idle) /\ MergedBy(m, Idle, Devices(Idle, Closed, Idle))
    BY <1>3, <2>1, <2>2, MergedFields
  <2>4. Devices(Idle, Closed, Idle) = {Idle}
    BY <2>1 DEF Devices
  <2>5. /\ m \in States /\ m.buttons = UNION {d.buttons : d \in {Idle}}
        /\ m.l2 = (IF \E d \in {Idle} : d.l2 = 255 THEN 255 ELSE 0)
        /\ m.stick = (IF \E d \in {Idle} : d.stick # 0 THEN -1 ELSE 0)
        /\ \A i \in Slots : m.touches[i] = IF Idle.touches[i].id >= 0 THEN Idle.touches[i] ELSE NoTouch
    BY <2>3, <2>4 DEF MergedBy
  <2>6. m.touches = [i \in Slots |-> NoTouch]
    <3>1. \A i \in Slots : m.touches[i] = NoTouch
      BY <1>4, <2>5
    <3>2. m.touches \in [Slots -> Touches]
      BY <2>5 DEF States
    <3> QED
      BY <3>1, <3>2
  <2>7. m.buttons = {} /\ m.l2 = 0 /\ m.stick = 0
    BY <1>3, <2>5
  <2>8. Agrees(Idle, m)
    BY <1>3, <2>6, <2>7 DEF Agrees
  <2> QED
    BY <1>2, <2>1, <2>2, <2>3, <2>8 DEF Given
<1>7. Settled
  <2>1. \A h, n : Homes(h, Idle, n)
    BY <1>3, <1>4 DEF Homes
  <2> QED
    BY <1>2, <2>1 DEF Settled, AllHomes
<1> QED
  BY <1>1, <1>5, <1>6, <1>7 DEF ArriveInv

\* Nothing of what is held or told changes.
LEMMA ArriveStays ==
  ASSUME ArriveInv, UNCHANGED <<stateVars, senderVars>>
  PROVE  TellsPrev' /\ Given' /\ Settled'
<1>1. /\ UNCHANGED <<keyboard, pad, setsu>>
      /\ UNCHANGED <<session, active, cur, prev, changed, sender, log, lastState, replaced>>
  BY DEF stateVars, senderVars
<1>2. TellsPrev'
  BY <1>1 DEF ArriveInv, TellsPrev
<1>3. Given'
  BY <1>1 DEF ArriveInv, Given
<1>4. Settled'
  BY <1>1 DEF ArriveInv, Settled, AllHomes, Homes
<1> QED
  BY <1>2, <1>3, <1>4

\* What is told holds for another state that the code takes for the same.
LEMMA TellsAlike ==
  ASSUME NEW a \in States, NEW b \in States, Equals(a, b), NEW l
  PROVE  /\ ButtonsTell(l, a) => ButtonsTell(l, b)
         /\ TriggerTells(l, a) => TriggerTells(l, b)
         /\ TouchesTell(l, a) => TouchesTell(l, b)
<1>1. /\ a.buttons = b.buttons /\ a.l2 = b.l2
      /\ \A i \in Slots : /\ a.touches[i].id = b.touches[i].id
                          /\ a.touches[i].id >= 0 => a.touches[i] = b.touches[i]
  BY EqualsIs
<1>2. \A i \in Slots : \A x \in Nat, v \in Nat :
        Touching(a.touches[i], x, v) <=> Touching(b.touches[i], x, v)
  BY <1>1 DEF Touching
<1>3. TouchesTell(l, a) => TouchesTell(l, b)
  BY <1>2 DEF TouchesTell
<1> QED
  BY <1>1, <1>3 DEF ButtonsTell, TriggerTells

\* A turn of the sender tells the difference.
LEMMA TurnArrives ==
  ASSUME ArriveInv, Turn, UNCHANGED <<mainVars, inputs, setsuVars>>
  PROVE  TellsPrev' /\ Given' /\ Settled'
<1>1. prev \in States /\ cur \in States /\ log \in Seq(FeedbackEvents) /\ changed \in BOOLEAN
  BY DEF ArriveInv, HeldInv, LossInv, StatesTyped, HistoryInv
<1>2. /\ sender = "waits" /\ sender' = sender /\ active' = active /\ session' = session
      /\ cur' = cur /\ prev' = cur /\ changed' = FALSE
  BY DEF Turn
<1>3. UNCHANGED <<keyboard, pad, setsu>>
  BY DEF mainVars, stateVars
<1>4. lastState' = IF changed /\ ~Relevant(cur, prev) THEN lastState ELSE cur.stick
  BY DEF Turn
<1>5. lastState' = prev'.stick
  BY <1>2, <1>4 DEF ArriveInv, TellsPrev, Relevant
<1>6. replaced' = (replaced \/ \E i \in Slots : /\ prev.touches[i].id # cur.touches[i].id
                                                /\ {prev.touches[i].id, cur.touches[i].id} \subseteq Nat)
  BY DEF Turn
<1>7. ButtonsTell(log', cur) /\ TriggerTells(log', cur) /\ (~replaced' => TouchesTell(log', cur))
  <2>1. CASE changed
    <3>1. log' = log \o Events(prev, cur)
      BY <2>1 DEF Turn
    <3>2. ButtonsTell(log', cur) /\ TriggerTells(log', cur)
      BY <1>1, <3>1, ButtonsTold, TriggerTold DEF ArriveInv, TellsPrev
    <3>3. ASSUME ~replaced' PROVE TouchesTell(log', cur)
      <4>1. TouchesTell(log, prev)
        BY <1>6, <3>3 DEF ArriveInv, TellsPrev
      <4>2. \A i \in Slots : prev.touches[i].id \in Int /\ cur.touches[i].id \in Int
        BY <1>1 DEF States, Touches
      <4>3. \A i \in Slots : ~(prev.touches[i].id # cur.touches[i].id /\ prev.touches[i].id >= 0
                               /\ cur.touches[i].id >= 0)
        <5>1. \A i \in Slots : ~(/\ prev.touches[i].id # cur.touches[i].id
                                 /\ {prev.touches[i].id, cur.touches[i].id} \subseteq Nat)
          BY <1>6, <3>3, Zenon
        <5> QED
          BY <4>2, <5>1
      <4>4. PICK h : AllHomes(h, setsu.next)
        BY DEF ArriveInv, Settled
      <4>5. Homes(h, prev, setsu.next) /\ Homes(h, cur, setsu.next)
        BY <4>4 DEF AllHomes
      <4>8. PICK n : n = setsu.next
        OBVIOUS
      <4>6. PICK a \in States, b \in States, l \in Seq(FeedbackEvents) :
              a = prev /\ b = cur /\ l = log
        BY <1>1
      <4>7. TouchesTell(l \o Events(a, b), b)
        BY <4>1, <4>3, <4>5, <4>6, <4>8, TouchesTold
      <4> QED
        BY <3>1, <4>6, <4>7
    <3> QED
      BY <3>2, <3>3
  <2>2. CASE ~changed
    <3>1. log' = log
      <4>1. log' = log \o <<>>
        BY <2>2 DEF Turn
      <4> QED
        BY <1>1, <4>1
    <3>2. Equals(prev, cur)
      BY <1>2, <2>2 DEF ArriveInv, TellsPrev
    <3>3. ~replaced' => ~replaced
      BY <1>6
    <3> QED
      BY <1>1, <3>1, <3>2, <3>3, TellsAlike DEF ArriveInv, TellsPrev
  <2> QED
    BY <2>1, <2>2
<1>8. TellsPrev'
  <2>1. Equals(cur, cur)
    BY <1>1, EqualsIs
  <2>2. replaced' \in BOOLEAN
    BY <1>6, Zenon DEF ArriveInv, TellsPrev
  <2>3. sender' = "waits" => active'
    BY <1>2 DEF ArriveInv, TellsPrev
  <2> QED
    BY <1>2, <1>5, <1>7, <2>1, <2>2, <2>3 DEF TellsPrev
<1>9. Given'
  BY <1>2, <1>3 DEF ArriveInv, Given
<1>10. Settled'
  BY <1>2, <1>3 DEF ArriveInv, Settled, AllHomes, Homes
<1> QED
  BY <1>8, <1>9, <1>10

\* The sender's other steps, and the console's.
LEMMA SenderArrives ==
  ASSUME ArriveInv, SenderStep, UNCHANGED <<mainVars, inputs, setsuVars>>
  PROVE  TellsPrev' /\ Given' /\ Settled'
<1>1. UNCHANGED <<keyboard, pad, setsu>>
  BY DEF mainVars, stateVars
<1>2. session \in States /\ prev \in States /\ changed \in BOOLEAN /\ active \in BOOLEAN
  BY DEF ArriveInv, HeldInv, LossInv, StatesTyped
<1>3. CASE Start
  <2>1. /\ sender = "none" /\ sender' = "waits" /\ active' = TRUE /\ cur' = session
        /\ changed' = ~Equals(Idle, session)
        /\ UNCHANGED <<session, prev, log, lastState, replaced>>
    BY <1>3 DEF Start
  <2>2. prev = Idle
    BY <2>1 DEF ArriveInv, TellsPrev
  <2>3. ~changed' => Equals(prev', cur')
    BY <2>1, <2>2
  <2>4. TellsPrev'
    BY <2>1, <2>3 DEF ArriveInv, TellsPrev
  <2>5. Given'
    <3>1. Equals(session, session)
      BY <1>2, EqualsIs
    <3> QED
      BY <1>1, <2>1, <3>1 DEF ArriveInv, Given
  <2>6. Settled'
    BY <1>1, <2>1 DEF ArriveInv, Settled, AllHomes, Homes
  <2> QED
    BY <2>4, <2>5, <2>6
<1>4. CASE Turn
  BY <1>4, TurnArrives
<1>5. CASE Fini
  <2>1. /\ active /\ sender' = (IF sender = "waits" THEN "stops" ELSE sender) /\ active' = FALSE
        /\ UNCHANGED <<session, cur, prev, changed, log, lastState, replaced>>
    BY <1>5 DEF Fini
  <2>2. TellsPrev'
    <3>1. sender' # "waits" /\ (sender' = "none" => sender = "none")
      BY <2>1
    <3> QED
      BY <2>1, <3>1 DEF ArriveInv, TellsPrev
  <2>3. Given'
    BY <1>1, <2>1 DEF ArriveInv, Given
  <2>4. Settled'
    BY <1>1, <2>1 DEF ArriveInv, Settled, AllHomes, Homes
  <2> QED
    BY <2>2, <2>3, <2>4
<1>6. CASE Ends
  <2>1. /\ sender = "stops" /\ sender' = "ended"
        /\ UNCHANGED <<session, active, cur, prev, changed, log, lastState, replaced>>
    BY <1>6 DEF Ends
  <2>2. TellsPrev'
    BY <2>1 DEF ArriveInv, TellsPrev
  <2>3. Given'
    BY <1>1, <2>1 DEF ArriveInv, Given
  <2>4. Settled'
    BY <1>1, <2>1 DEF ArriveInv, Settled, AllHomes, Homes
  <2> QED
    BY <2>2, <2>3, <2>4
<1>8. CASE SenderFails
  <2>1. /\ sender = "waits" /\ sender' = "ended"
        /\ UNCHANGED <<session, active, cur, prev, changed, log, lastState, replaced>>
    BY <1>8 DEF SenderFails
  <2>2. TellsPrev'
    BY <2>1 DEF ArriveInv, TellsPrev
  <2>3. Given'
    BY <1>1, <2>1 DEF ArriveInv, Given
  <2>4. Settled'
    BY <1>1, <2>1 DEF ArriveInv, Settled, AllHomes, Homes
  <2> QED
    BY <2>2, <2>3, <2>4
<1>7. CASE ConsoleTakes
  <2>1. UNCHANGED <<stateVars, senderVars>>
    BY <1>7 DEF ConsoleTakes, mainVars
  <2> QED
    BY <2>1, ArriveStays
<1> QED
  BY <1>3, <1>4, <1>5, <1>6, <1>7, <1>8 DEF SenderStep

\* Keys, controllers and the timer: none of them has a touch.
LEMMA DevicesArrive ==
  ASSUME ArriveInv, Key \/ PadEvent \/ UpdateGamepads \/ Motion
  PROVE  TellsPrev' /\ Given' /\ Settled'
<1>1. keyboard \in States /\ setsu \in States /\ pad \in [open : BOOLEAN, state : States]
  BY DEF ArriveInv, HeldInv, LossInv, StatesTyped
<1>2. Untouching(keyboard) /\ Untouching(pad.state)
  BY DEF ArriveInv, Given
<1>3. PICK h : AllHomes(h, setsu.next)
  BY DEF ArriveInv, Settled
<1>4. Homes(h, prev, setsu.next) /\ Homes(h, cur, setsu.next) /\ Homes(h, setsu, setsu.next)
  BY <1>3 DEF AllHomes
<1>5. ASSUME NEW s \in States, NEW b \in {"cross", "l2", "stick"}, Untouching(s)
      PROVE  Toggle(s, b) \in States /\ Untouching(Toggle(s, b))
  <2>1. Toggle(s, b) \in States
    BY ToggledIs
  <2>2. Toggle(s, "cross").touches = s.touches
    <3>1. PICK B : Toggle(s, "cross") = [s EXCEPT !.buttons = B]
      BY Zenon DEF Toggle
    <3> QED
      BY <3>1 DEF States
  <2>3. Toggle(s, "l2").touches = s.touches
    <3>1. PICK B : Toggle(s, "l2") = [s EXCEPT !.l2 = B]
      BY Zenon DEF Toggle
    <3> QED
      BY <3>1 DEF States
  <2>4. Toggle(s, "stick").touches = s.touches
    <3>1. PICK B : Toggle(s, "stick") = [s EXCEPT !.stick = B]
      BY Zenon DEF Toggle
    <3> QED
      BY <3>1 DEF States
  <2> QED
    BY <1>5, <2>1, <2>2, <2>3, <2>4 DEF Untouching
<1>6. ASSUME NEW p \in [open : BOOLEAN, state : States], NEW k \in States,
             Untouching(p.state), Untouching(k), SendFeedbackState(setsu, p, k)
      PROVE  TellsPrev' /\ Given' /\ Settled'
  <2>1. PICK s \in States : s = setsu /\ SendFeedbackState(s, p, k)
    BY <1>1, <1>6
  <2>2. Homes(h, prev, s.next) /\ Homes(h, cur, s.next) /\ Homes(h, s, s.next)
    BY <1>4, <2>1
  <2> QED
    BY <1>6, <2>1, <2>2, SendArrives
<1>7. CASE Key
  <2>1. PICK b \in {"cross", "stick"} : SendFeedbackState(setsu, pad, Toggle(keyboard, b))
    BY <1>7 DEF Key
  <2>2. PICK k : k = Toggle(keyboard, b) /\ k \in States /\ Untouching(k)
    BY <1>1, <1>2, <1>5
  <2> QED
    BY <1>1, <1>2, <1>6, <2>1, <2>2
<1>8. CASE PadEvent
  <2>1. PICK b \in {"cross", "l2"} :
          SendFeedbackState(setsu, [pad EXCEPT !.state = Toggle(@, b)], keyboard)
    BY <1>8 DEF PadEvent
  <2>2. PICK t \in States : t = Toggle(pad.state, b) /\ Untouching(t)
    BY <1>1, <1>2, <1>5
  <2>3. PICK p : p = [pad EXCEPT !.state = Toggle(@, b)]
    OBVIOUS
  <2>4. p \in [open : BOOLEAN, state : States] /\ p.state = t
    BY <1>1, <2>2, <2>3
  <2> QED
    BY <1>1, <1>2, <1>6, <2>1, <2>2, <2>3, <2>4
<1>9. CASE UpdateGamepads
  <2>1. SendFeedbackState(setsu, Replaced(pad), keyboard)
    BY <1>9 DEF UpdateGamepads
  <2>2. Replaced(pad) \in [open : BOOLEAN, state : States] /\ Replaced(pad).state = Idle
    BY IdleIs DEF Replaced, Closed
  <2>3. Untouching(Idle)
    <3>1. \A i \in Slots : Idle.touches[i] = NoTouch
      BY DEF Idle
    <3> QED
      BY <3>1 DEF Untouching, NoTouch
  <2> QED
    BY <1>1, <1>2, <1>6, <2>1, <2>2, <2>3
<1>10. CASE Motion
  BY <1>1, <1>2, <1>6, <1>10 DEF Motion
<1> QED
  BY <1>7, <1>8, <1>9, <1>10

\* What setsu_state becomes when touches are released or moved: each touch stays
\* where it is or ends.
Stay(t, s) == t \in States /\ t.next = s.next /\ \A i \in Slots : t.touches[i].id \in {s.touches[i].id, -1}

\* So none moves.
LEMMA StayArrives ==
  ASSUME ArriveInv, NEW t, Stay(t, setsu), SendFeedbackState(t, pad, keyboard)
  PROVE  TellsPrev' /\ Given' /\ Settled'
<1>1. keyboard \in States /\ pad \in [open : BOOLEAN, state : States] /\ t \in States
  BY DEF ArriveInv, HeldInv, LossInv, StatesTyped, Stay
<1>2. Untouching(keyboard) /\ Untouching(pad.state)
  BY DEF ArriveInv, Given
<1>3. PICK h : AllHomes(h, setsu.next)
  BY DEF ArriveInv, Settled
<1>4. t.next = setsu.next /\ Homes(h, prev, setsu.next) /\ Homes(h, cur, setsu.next)
      /\ Homes(h, setsu, setsu.next)
  BY <1>3 DEF AllHomes, Stay
<1>5. Homes(h, t, t.next)
  <2>1. ASSUME NEW i \in Slots, t.touches[i].id >= 0
        PROVE  t.touches[i].id < t.next /\ h[t.touches[i].id] = i
    <3>1. t.touches[i].id = setsu.touches[i].id
      BY <2>1 DEF Stay
    <3> QED
      BY <1>4, <2>1, <3>1 DEF Homes
  <2> QED
    BY <2>1 DEF Homes
<1>6. Homes(h, prev, t.next) /\ Homes(h, cur, t.next)
  BY <1>4
<1> QED
  BY <1>1, <1>2, <1>5, <1>6, SendArrives

\* Touches are released or moved so.
LEMMA StayIs ==
  ASSUME NEW s \in States
  PROVE  /\ \A which : Stay(Released(s, which), s)
         /\ \A id : \A pos \in Nat : Stay(SetTouchPos(s, id, pos), s)
<1>1. ASSUME NEW which PROVE Stay(Released(s, which), s)
  <2>1. Released(s, which) \in States
    BY TouchedIs
  <2>2. PICK t : t = [i \in Slots |-> IF s.touches[i].id \in which THEN [s.touches[i] EXCEPT !.id = -1]
                                      ELSE s.touches[i]]
    OBVIOUS
  <2>3. ASSUME NEW i \in Slots PROVE t[i].id \in {s.touches[i].id, -1}
    BY <2>2 DEF States, Touches
  <2>4. Released(s, which).touches = t /\ Released(s, which).next = s.next
    BY <2>2 DEF Released, States
  <2> QED
    BY <2>1, <2>3, <2>4 DEF Stay
<1>2. ASSUME NEW id, NEW pos \in Nat PROVE Stay(SetTouchPos(s, id, pos), s)
  <2>1. SetTouchPos(s, id, pos) \in States
    BY TouchedIs
  <2>2. CASE With(s, id) = {}
    BY <2>1, <2>2 DEF SetTouchPos, Stay
  <2>3. CASE With(s, id) # {}
    <3>1. PICK x \in Slots : x = First(With(s, id))
      BY <2>3, FirstIs DEF With
    <3>2. PICK t : t = SetTouchPos(s, id, pos) /\ t = [s EXCEPT !.touches[x].pos = pos]
      BY <2>3, <3>1 DEF SetTouchPos
    <3>3. t.next = s.next /\ \A i \in Slots : t.touches[i].id = s.touches[i].id
      BY <3>2 DEF States, Touches
    <3> QED
      BY <2>1, <3>2, <3>3 DEF Stay
  <2> QED
    BY <2>2, <2>3
<1> QED
  BY <1>1, <1>2

\* The devices that come and go.
LEMMA PollDevicesArrives ==
  ASSUME ArriveInv, PollDevices PROVE TellsPrev' /\ Given' /\ Settled'
<1>1. \/ SendFeedbackState(Removed(setsu), pad, keyboard)
      \/ UNCHANGED <<stateVars, senderVars>>
  BY DEF PollDevices
<1>2. Stay(Removed(setsu), setsu)
  BY StayIs DEF Removed, ArriveInv, HeldInv, LossInv, StatesTyped
<1>3. CASE SendFeedbackState(Removed(setsu), pad, keyboard)
  BY <1>2, <1>3, StayArrives
<1> QED
  BY <1>1, <1>3, ArriveStays

\* A touch that begins has the next id, which no state has yet, and a free place.
LEMMA StartBy ==
  ASSUME NEW s \in States, NEW pos \in Nat, StartedId(s) >= 0, s.next + 1 < TouchIds
  PROVE  \E x \in Slots : /\ StartTouch(s, pos).touches = [s.touches EXCEPT ![x] = [id |-> s.next, pos |-> pos]]
                          /\ StartTouch(s, pos).next = s.next + 1 /\ s.touches[x].id < 0
<1>1. Free(s) # {}
  BY DEF StartedId
<1>2. PICK x \in Slots : x = First(Free(s)) /\ s.touches[x].id < 0
  <2>1. Free(s) \in SUBSET Slots
    BY DEF Free
  <2>2. First(Free(s)) \in Free(s)
    BY <1>1, <2>1, FirstIs
  <2> QED
    BY <2>2 DEF Free
<1>3. PICK n \in Nat : n = s.next /\ (n + 1) % TouchIds = n + 1
  <2>1. PICK n \in Nat, m \in Nat \ {0} : n = s.next /\ m = TouchIds /\ n + 1 < m
    BY ControllerAssumption DEF States
  <2>2. (n + 1) % m = n + 1
    BY <2>1
  <2> QED
    BY <2>1, <2>2
<1>4. StartTouch(s, pos) = [s EXCEPT !.touches[x] = [id |-> n, pos |-> pos], !.next = n + 1]
  BY <1>1, <1>2, <1>3 DEF StartTouch, States
<1>5. StartTouch(s, pos).touches = [s.touches EXCEPT ![x] = [id |-> n, pos |-> pos]]
      /\ StartTouch(s, pos).next = n + 1
  BY <1>4 DEF States
<1> QED
  BY <1>2, <1>3, <1>5

\* There is an id left, since each position that waits is one of the inputs.
LEMMA IdLeft ==
  ASSUME HeldInv, MaxInputs < TouchIds, todo # <<>>, todo[1].kind = "position"
  PROVE  setsu.next + 1 < TouchIds
<1>1. PICK e \in PadEvents : todo \in Seq(PadEvents) /\ e = todo[1]
  BY DEF HeldInv, LossInv, PadTyped
<1>2. PICK n \in Nat, hi \in Nat :
        n = setsu.next /\ hi = inputs - Len(frames) /\ n <= hi /\ hi <= MaxInputs /\ Stamped(todo, n, hi)
  BY CountNumbers, InputAssumption DEF HeldInv, TouchpadInv, CountInv
<1>3. n + 1 <= hi
  BY <1>1, <1>2, StampedTail
<1> QED
  BY <1>2, <1>3, InputAssumption, ControllerAssumption

\* A touch begins in the place that becomes its home.
LEMMA StartArrives ==
  ASSUME ArriveInv, NEW pos \in Nat, StartedId(setsu) >= 0, setsu.next + 1 < TouchIds,
         SendFeedbackState(StartTouch(setsu, pos), pad, keyboard)
  PROVE  TellsPrev' /\ Given' /\ Settled'
<1>1. /\ keyboard \in States /\ pad \in [open : BOOLEAN, state : States]
      /\ prev \in States /\ cur \in States /\ setsu \in States
  BY DEF ArriveInv, HeldInv, LossInv, StatesTyped
<1>2. Untouching(keyboard) /\ Untouching(pad.state)
  BY DEF ArriveInv, Given
<1>3. PICK n \in Nat : n = setsu.next /\ \E h : AllHomes(h, n)
  BY <1>1 DEF ArriveInv, Settled, States
<1>h. PICK h : AllHomes(h, n)
  BY <1>3
<1>4. PICK t \in States : t = StartTouch(setsu, pos)
  BY <1>1, TouchedIs
<1>5. PICK x \in Slots : t.touches = [setsu.touches EXCEPT ![x] = [id |-> n, pos |-> pos]] /\ t.next = n + 1
  BY <1>1, <1>3, <1>4, StartBy
<1>6. PICK g : g = [y \in Nat |-> IF y = n THEN x ELSE h[y]]
  OBVIOUS
<1>7. ASSUME NEW s \in States, Homes(h, s, n) PROVE Homes(g, s, n + 1)
  <2>1. ASSUME NEW i \in Slots, s.touches[i].id >= 0
        PROVE  s.touches[i].id < n + 1 /\ g[s.touches[i].id] = i
    <3>1. PICK y \in Int : y = s.touches[i].id
      BY DEF States, Touches
    <3>2. y < n /\ h[y] = i
      BY <1>7, <2>1, <3>1 DEF Homes
    <3> QED
      BY <1>6, <2>1, <3>1, <3>2
  <2> QED
    BY <2>1 DEF Homes
<1>8. Homes(g, t, n + 1)
  <2>1. Homes(g, setsu, n + 1)
    BY <1>1, <1>h, <1>7 DEF AllHomes
  <2>2. ASSUME NEW i \in Slots, t.touches[i].id >= 0
        PROVE  t.touches[i].id < n + 1 /\ g[t.touches[i].id] = i
    <3>1. CASE i = x
      <4>1. t.touches[i].id = n
        BY <1>1, <1>5, <3>1 DEF States
      <4> QED
        BY <1>6, <3>1, <4>1
    <3>2. CASE i # x
      <4>1. t.touches[i] = setsu.touches[i]
        BY <1>1, <1>5, <3>2 DEF States
      <4> QED
        BY <2>1, <2>2, <4>1 DEF Homes
    <3> QED
      BY <3>1, <3>2
  <2> QED
    BY <2>2 DEF Homes
<1>9. Homes(g, prev, t.next) /\ Homes(g, cur, t.next) /\ Homes(g, t, t.next)
  BY <1>1, <1>h, <1>5, <1>7, <1>8 DEF AllHomes
<1> QED
  BY <1>1, <1>2, <1>4, <1>9, SendArrives

\* The touchpad's button is not sent, and nothing else of what is held changes.
LEMMA ButtonArrives ==
  ASSUME ArriveInv, NEW B, setsu' = [setsu EXCEPT !.buttons = B],
         B \in SUBSET Marked, B \ {"touchpad"} = setsu.buttons \ {"touchpad"},
         UNCHANGED <<keyboard, pad, senderVars>>
  PROVE  TellsPrev' /\ Given' /\ Settled'
<1>1. keyboard \in States /\ setsu \in States /\ pad \in [open : BOOLEAN, state : States]
  BY DEF ArriveInv, HeldInv, LossInv, StatesTyped
<1>2. Untouching(keyboard) /\ Untouching(pad.state) /\ Agrees(session, Merged(setsu, pad, keyboard))
  BY DEF ArriveInv, Given
<1>3. /\ UNCHANGED <<session, active, cur, prev, changed, sender, log, lastState, replaced>>
      /\ UNCHANGED <<keyboard, pad>>
  BY DEF senderVars
<1>4. PICK s \in States : /\ s = setsu' /\ s.buttons = B /\ s.l2 = setsu.l2 /\ s.stick = setsu.stick
                          /\ s.touches = setsu.touches /\ s.next = setsu.next
  BY <1>1 DEF States
<1>5. TellsPrev'
  BY <1>3 DEF ArriveInv, TellsPrev
<1>6. Settled'
  BY <1>3, <1>4 DEF ArriveInv, Settled, AllHomes, Homes
<1>7. PICK P \in SUBSET States : P = IF pad.open THEN {pad.state} ELSE {}
  <2>1. (IF pad.open THEN {pad.state} ELSE {}) \in SUBSET States
    BY <1>1
  <2> QED
    BY <2>1
<1>8. /\ Devices(setsu, pad, keyboard) = {keyboard, setsu} \cup P
      /\ Devices(s, pad, keyboard) = {keyboard, s} \cup P
  BY <1>7 DEF Devices
<1>9. PICK m : m = Merged(setsu, pad, keyboard) /\ MergedBy(m, setsu, {keyboard, setsu} \cup P)
  BY <1>1, <1>2, <1>8, MergedFields
<1>10. PICK z : z = Merged(s, pad, keyboard) /\ MergedBy(z, s, {keyboard, s} \cup P)
  BY <1>1, <1>2, <1>8, MergedFields
<1>11. z.buttons \ {"touchpad"} = m.buttons \ {"touchpad"}
  <2>1. z.buttons = (keyboard.buttons \cup B) \cup UNION {d.buttons : d \in P}
    <3>1. z.buttons = UNION {d.buttons : d \in {keyboard, s} \cup P}
      BY <1>10 DEF MergedBy
    <3>2. UNION {d.buttons : d \in {keyboard, s} \cup P}
            = (keyboard.buttons \cup s.buttons) \cup UNION {d.buttons : d \in P}
      OBVIOUS
    <3> QED
      BY <1>4, <3>1, <3>2, Zenon
  <2>2. m.buttons = (keyboard.buttons \cup setsu.buttons) \cup UNION {d.buttons : d \in P}
    <3>1. m.buttons = UNION {d.buttons : d \in {keyboard, setsu} \cup P}
      BY <1>9 DEF MergedBy
    <3>2. UNION {d.buttons : d \in {keyboard, setsu} \cup P}
            = (keyboard.buttons \cup setsu.buttons) \cup UNION {d.buttons : d \in P}
      OBVIOUS
    <3> QED
      BY <3>1, <3>2, Zenon
  <2>3. PICK U : U = UNION {d.buttons : d \in P}
    OBVIOUS
  <2> QED
    BY <2>1, <2>2, <2>3
<1>12. z.l2 = m.l2 /\ z.stick = m.stick
  <2>1. /\ (\E d \in {keyboard, s} \cup P : d.l2 = 255) <=> (\E d \in {keyboard, setsu} \cup P : d.l2 = 255)
        /\ (\E d \in {keyboard, s} \cup P : d.stick # 0) <=> (\E d \in {keyboard, setsu} \cup P : d.stick # 0)
    <3>1. PICK A, C : A = {keyboard, s} \cup P /\ C = {keyboard, setsu} \cup P
      OBVIOUS
    <3>2. ASSUME NEW d \in A PROVE \E c \in C : c.l2 = d.l2 /\ c.stick = d.stick
      BY <1>4, <3>1, <3>2
    <3>3. ASSUME NEW c \in C PROVE \E d \in A : c.l2 = d.l2 /\ c.stick = d.stick
      BY <1>4, <3>1, <3>3
    <3>4. /\ (\E d \in A : d.l2 = 255) <=> (\E c \in C : c.l2 = 255)
          /\ (\E d \in A : d.stick # 0) <=> (\E c \in C : c.stick # 0)
      BY <3>2, <3>3
    <3> QED
      BY <3>1, <3>4, Zenon
  <2>2. z.l2 = m.l2
    BY <1>9, <1>10, <2>1 DEF MergedBy
  <2>3. z.stick = m.stick
    BY <1>9, <1>10, <2>1 DEF MergedBy
  <2> QED
    BY <2>2, <2>3
<1>13. z.touches = m.touches
  <2>1. \A i \in Slots : z.touches[i] = m.touches[i]
    BY <1>4, <1>9, <1>10 DEF MergedBy
  <2>2. z.touches \in [Slots -> Touches] /\ m.touches \in [Slots -> Touches]
    BY <1>9, <1>10 DEF MergedBy, States
  <2> QED
    BY <2>1, <2>2
<1>14. Agrees(session, z)
  BY <1>2, <1>9, <1>11, <1>12, <1>13 DEF Agrees
<1>15. Given'
  BY <1>2, <1>3, <1>4, <1>10, <1>14 DEF ArriveInv, Given
<1> QED
  BY <1>5, <1>6, <1>15

\* One event is handled.
LEMMA HandleArrives ==
  ASSUME ArriveInv, MaxInputs < TouchIds, HandleSetsuEvent
  PROVE  TellsPrev' /\ Given' /\ Settled'
<1>1. PICK e \in PadEvents : todo # <<>> /\ e = Head(todo) /\ e = todo[1] /\ e.pos \in Nat
  <2>1. todo # <<>> /\ todo \in Seq(PadEvents)
    BY DEF HandleSetsuEvent, ArriveInv, HeldInv, LossInv, PadTyped
  <2>2. Head(todo) = todo[1] /\ Head(todo) \in PadEvents
    BY <2>1
  <2>3. \A e \in PadEvents : e.pos \in Nat
    BY DEF PadEvents
  <2> QED
    BY <2>1, <2>2, <2>3
<1>2. setsu \in States
  BY DEF ArriveInv, HeldInv, LossInv, StatesTyped
<1>3. \/ \E which : SendFeedbackState(Released(setsu, which), pad, keyboard)
      \/ \E id : SendFeedbackState(SetTouchPos(setsu, id, e.pos), pad, keyboard)
      \/ /\ e.kind = "position" /\ StartedId(setsu) >= 0
         /\ SendFeedbackState(StartTouch(setsu, e.pos), pad, keyboard)
      \/ /\ \/ setsu' = [setsu EXCEPT !.buttons = @ \cup {"touchpad"}]
            \/ setsu' = [setsu EXCEPT !.buttons = @ \ {"touchpad"}]
         /\ UNCHANGED <<keyboard, pad, senderVars>>
      \/ UNCHANGED <<stateVars, senderVars>>
  <2>1. PICK f : f = Head(todo)
    OBVIOUS
  <2>2. \/ SendFeedbackState(Released(setsu, {TouchOf(p) : p \in Of(f.id)}), pad, keyboard)
        \/ SendFeedbackState(SetTouchPos(setsu, TouchOf(CHOOSE p \in Of(f.id) : TRUE), f.pos), pad, keyboard)
        \/ /\ f.kind = "position" /\ StartedId(setsu) >= 0
           /\ SendFeedbackState(StartTouch(setsu, f.pos), pad, keyboard)
        \/ /\ setsu' = [setsu EXCEPT !.buttons = IF f.kind = "button_down" THEN @ \cup {"touchpad"}
                                                 ELSE @ \ {"touchpad"}]
           /\ UNCHANGED <<keyboard, pad, senderVars>>
        \/ UNCHANGED <<stateVars, senderVars>>
    BY <2>1, Zenon DEF HandleSetsuEvent
  <2>3. f = e
    BY <1>1, <2>1
  <2> QED
    BY <2>2, <2>3, Zenon
<1>4. CASE \E which : SendFeedbackState(Released(setsu, which), pad, keyboard)
  BY <1>2, <1>4, StayIs, StayArrives
<1>5. CASE \E id : SendFeedbackState(SetTouchPos(setsu, id, e.pos), pad, keyboard)
  <2>1. PICK p \in Nat : p = e.pos
    BY <1>1
  <2>2. PICK id : SendFeedbackState(SetTouchPos(setsu, id, p), pad, keyboard)
    BY <1>5, <2>1
  <2>3. PICK t : t = SetTouchPos(setsu, id, p) /\ Stay(t, setsu)
    BY <1>2, StayIs
  <2> QED
    BY <2>2, <2>3, StayArrives
<1>6. CASE /\ e.kind = "position" /\ StartedId(setsu) >= 0
           /\ SendFeedbackState(StartTouch(setsu, e.pos), pad, keyboard)
  <2>1. setsu.next + 1 < TouchIds
    BY <1>1, <1>6, IdLeft DEF ArriveInv
  <2> QED
    BY <1>1, <1>6, <2>1, StartArrives
<1>7. CASE /\ \/ setsu' = [setsu EXCEPT !.buttons = @ \cup {"touchpad"}]
              \/ setsu' = [setsu EXCEPT !.buttons = @ \ {"touchpad"}]
           /\ UNCHANGED <<keyboard, pad, senderVars>>
  <2>1. PICK B : /\ setsu' = [setsu EXCEPT !.buttons = B]
                 /\ B = setsu.buttons \cup {"touchpad"} \/ B = setsu.buttons \ {"touchpad"}
    BY <1>7
  <2>2. B \in SUBSET Marked /\ B \ {"touchpad"} = setsu.buttons \ {"touchpad"}
    BY <1>2, <2>1 DEF States, Marked
  <2> QED
    BY <1>7, <2>1, <2>2, ButtonArrives
<1> QED
  BY <1>3, <1>4, <1>5, <1>6, <1>7, ArriveStays

\* Every step keeps it.
LEMMA ArriveInvStays ==
  ASSUME MaxInputs < TouchIds, ArriveInv, [InputNext]_inputVars PROVE ArriveInv'
<1>1. HeldInv'
  BY HeldStays DEF ArriveInv
<1>2. CASE UNCHANGED inputVars
  BY <1>1, <1>2, ArriveStays DEF ArriveInv, inputVars, mainVars
<1>3. CASE Key \/ PadEvent \/ UpdateGamepads \/ Motion
  BY <1>1, <1>3, DevicesArrive DEF ArriveInv
<1>4. CASE PollDevices
  BY <1>1, <1>4, PollDevicesArrives DEF ArriveInv
<1>5. CASE PollDevice
  BY <1>1, <1>5, ArriveStays DEF ArriveInv, PollDevice
<1>6. CASE HandleSetsuEvent
  BY <1>1, <1>6, HandleArrives DEF ArriveInv
<1>7. CASE Pad
  BY <1>1, <1>7, ArriveStays DEF ArriveInv, Pad, mainVars
<1>8. CASE SenderStep /\ UNCHANGED <<mainVars, inputs, setsuVars>>
  BY <1>1, <1>8, SenderArrives DEF ArriveInv
<1> QED
  BY <1>2, <1>3, <1>4, <1>5, <1>6, <1>7, <1>8 DEF InputNext, Main

\* What the events leave held, when they tell of this state.
LEMMA HeldButtonsAre ==
  ASSUME NEW l \in Seq(FeedbackEvents), NEW s \in States, ButtonsTell(l, s)
  PROVE  HeldButtons(l) = {b \in Range(Order) : b \in s.buttons}
<1>1. PICK n \in Nat : n = Len(l) /\ DOMAIN l = 1 .. n
  OBVIOUS
<1>2. ASSUME NEW b \in Range(Order)
      PROVE  (\E i \in DOMAIN l : /\ l[i] = Button(b, TRUE)
                                   /\ \A j \in (i + 1) .. Len(l) : l[j] # Button(b, FALSE))
               <=> b \in s.buttons
  <2>1. PICK e, f : e = Button(b, TRUE) /\ f = Button(b, FALSE)
    OBVIOUS
  <2>2. LastOf(l, e, {f}) <=> b \in s.buttons
    BY <2>1 DEF ButtonsTell
  <2>3. LastOf(l, e, {f}) <=> \E i \in 1 .. n : l[i] = e /\ \A j \in i + 1 .. n : l[j] # f
    BY <1>1 DEF LastOf
  <2> QED
    BY <1>1, <2>1, <2>2, <2>3
<1> QED
  BY <1>2, Zenon DEF HeldButtons

\* So for the trigger, whose last event counts.
LEMMA HeldTriggerIs ==
  ASSUME NEW l \in Seq(FeedbackEvents), NEW s \in States, TriggerTells(l, s)
  PROVE  HeldTrigger(l) = s.l2
<1>1. PICK n \in Nat : n = Len(l) /\ DOMAIN l = 1 .. n /\ \A i \in 1 .. n : l[i] \in FeedbackEvents
  OBVIOUS
<1>2. \A e \in FeedbackEvents : e.kind = "trigger" <=> e \in TriggerMarks
  BY DEF FeedbackEvents, ButtonMarks, TriggerMarks, TouchMarks
<1>3. PICK at : at = {i \in DOMAIN l : l[i].kind = "trigger"}
  OBVIOUS
<1>4. at = {i \in 1 .. n : l[i] \in TriggerMarks}
  BY <1>1, <1>2, <1>3
<1>5. HeldTrigger(l) = IF at = {} THEN 0 ELSE l[CHOOSE i \in at : \A j \in at : j <= i].value
  BY <1>3 DEF HeldTrigger
<1>6. CASE NoneOf(l, TriggerMarks) /\ s.l2 = 0
  <2>1. at = {}
    BY <1>1, <1>4, <1>6 DEF NoneOf
  <2> QED
    BY <1>5, <1>6, <2>1
<1>7. CASE LastOf(l, Trigger(s.l2), TriggerMarks)
  <2>1. PICK i \in 1 .. n : l[i] = Trigger(s.l2) /\ \A j \in i + 1 .. n : l[j] \notin TriggerMarks
    BY <1>1, <1>7 DEF LastOf
  <2>2. i \in at
    BY <1>1, <1>3, <2>1 DEF Trigger
  <2>3. \A j \in at : j <= i
    <3>1. \A j \in 1 .. n : ~(j <= i) => j \in i + 1 .. n
      OBVIOUS
    <3> QED
      BY <1>4, <2>1, <3>1
  <2>4. at \in SUBSET Int
    BY <1>4
  <2>5. (CHOOSE k \in at : \A j \in at : j <= k) = i
    <3>1. \A k \in at : (\A j \in at : j <= k) => k = i
      BY <2>2, <2>3, <2>4
    <3> QED
      BY <2>2, <2>3, <3>1, Zenon
  <2>6. l[i].value = s.l2
    BY <2>1 DEF Trigger
  <2> QED
    BY <1>5, <2>2, <2>5, <2>6
<1> QED
  BY <1>6, <1>7 DEF TriggerTells

\* And for the touches.
LEMMA HeldTouchesAre ==
  ASSUME NEW l \in Seq(FeedbackEvents), NEW s \in States, TouchesTell(l, s)
  PROVE  HeldTouches(l) = {<<t.id, t.pos>> : t \in {z \in Range(s.touches) : z.id >= 0}}
<1>1. PICK n \in Nat : n = Len(l) /\ DOMAIN l = 1 .. n /\ \A i \in 1 .. n : l[i] \in FeedbackEvents
  OBVIOUS
<1>2. \A e \in FeedbackEvents : e.kind \in {"down", "up"} <=> e \in TouchMarks
  BY DEF FeedbackEvents, ButtonMarks, TriggerMarks, TouchMarks
<1>3. PICK last : last = {i \in DOMAIN l : l[i].kind = "down"
        /\ \A j \in (i + 1) .. Len(l) : ~(l[j].kind \in {"down", "up"} /\ l[j].what = l[i].what)}
  OBVIOUS
<1>4. HeldTouches(l) = {<<e.what, e.value>> : e \in {l[i] : i \in last}}
  BY <1>3, Zenon DEF HeldTouches
<1>5. \A i \in last : i \in 1 .. n /\ l[i].kind = "down"
  BY <1>1, <1>3
<1>6. ASSUME NEW x \in Nat, NEW v \in Nat
      PROVE  (\E i \in last : l[i].what = x /\ l[i].value = v) <=> \E i \in Slots : Touching(s.touches[i], x, v)
  <2>1. \A i \in 1 .. n : l[i] = Down(x, v) <=> l[i].kind = "down" /\ l[i].what = x /\ l[i].value = v
    <3>1. \A e \in TouchMarks : e = Down(x, v) <=> e.kind = "down" /\ e.what = x /\ e.value = v
      BY DEF TouchMarks, Down, Touch
    <3>2. Down(x, v).kind = "down"
      BY DEF Down, Touch
    <3> QED
      BY <1>1, <1>2, <3>1, <3>2
  <2>2. \A j \in 1 .. n : l[j] \in About(x) <=> l[j].kind \in {"down", "up"} /\ l[j].what = x
    BY <1>1, <1>2 DEF About
  <2>3. \A i \in 1 .. n : \A j \in i + 1 .. n : j \in 1 .. n
    OBVIOUS
  <2>4. (\E i \in last : l[i].what = x /\ l[i].value = v) <=> LastOf(l, Down(x, v), About(x))
    <3>1. ASSUME NEW i \in last, l[i].what = x, l[i].value = v PROVE LastOf(l, Down(x, v), About(x))
      <4>1. i \in 1 .. n /\ l[i] = Down(x, v)
        BY <1>5, <2>1, <3>1
      <4>2. \A j \in i + 1 .. n : ~(l[j].kind \in {"down", "up"} /\ l[j].what = x)
        BY <1>1, <1>3, <3>1
      <4>3. \A j \in i + 1 .. n : l[j] \notin About(x)
        BY <2>2, <2>3, <4>1, <4>2
      <4> QED
        BY <1>1, <4>1, <4>3 DEF LastOf
    <3>2. ASSUME LastOf(l, Down(x, v), About(x)) PROVE \E i \in last : l[i].what = x /\ l[i].value = v
      <4>1. PICK i \in 1 .. n : l[i] = Down(x, v) /\ \A j \in i + 1 .. n : l[j] \notin About(x)
        BY <1>1, <3>2 DEF LastOf
      <4>2. l[i].kind = "down" /\ l[i].what = x /\ l[i].value = v
        BY <2>1, <4>1
      <4>3. \A j \in i + 1 .. n : ~(l[j].kind \in {"down", "up"} /\ l[j].what = l[i].what)
        BY <2>2, <2>3, <4>1, <4>2
      <4>4. i \in last
        BY <1>1, <1>3, <4>2, <4>3
      <4> QED
        BY <4>2, <4>4
    <3> QED
      BY <3>1, <3>2
  <2> QED
    BY <2>4 DEF TouchesTell
<1>7. \A i \in last : l[i].what \in Nat /\ l[i].value \in Nat
  <2>1. \A e \in TouchMarks : e.what \in Nat /\ e.value \in Nat
    BY DEF TouchMarks
  <2> QED
    BY <1>1, <1>2, <1>5, <2>1
<1>8. \A i \in Slots : s.touches[i].id \in Int /\ s.touches[i].pos \in Nat
  BY DEF States, Touches
<1>9. Range(s.touches) = {s.touches[i] : i \in Slots}
  BY DEF States, Range
<1>10. PICK A : A = {<<t.id, t.pos>> : t \in {z \in Range(s.touches) : z.id >= 0}}
  OBVIOUS
<1>11. ASSUME NEW p \in HeldTouches(l) PROVE p \in A
  <2>1. PICK i \in last : p = <<l[i].what, l[i].value>>
    BY <1>4
  <2>2. PICK x \in Nat, v \in Nat : x = l[i].what /\ v = l[i].value
    BY <1>7
  <2>3. PICK k \in Slots : Touching(s.touches[k], x, v)
    BY <1>6, <2>2
  <2>4. s.touches[k] \in {z \in Range(s.touches) : z.id >= 0}
    BY <1>9, <2>3 DEF Touching
  <2> QED
    BY <1>10, <2>1, <2>2, <2>3, <2>4 DEF Touching
<1>12. ASSUME NEW p \in A PROVE p \in HeldTouches(l)
  <2>1. PICK k \in Slots : s.touches[k].id >= 0 /\ p = <<s.touches[k].id, s.touches[k].pos>>
    BY <1>9, <1>10
  <2>2. PICK x \in Nat, v \in Nat : x = s.touches[k].id /\ v = s.touches[k].pos
    BY <1>8, <2>1
  <2>3. PICK i \in last : l[i].what = x /\ l[i].value = v
    BY <1>6, <2>2 DEF Touching
  <2> QED
    BY <1>4, <2>1, <2>2, <2>3
<1> QED
  BY <1>10, <1>11, <1>12

\* So what is held on the devices is what the console is told.
LEMMA ArriveIs ==
  ArriveInv => InputArrives
<1> SUFFICES ASSUME ArriveInv PROVE InputArrives
  OBVIOUS
<1>1. InputTypeOK
  BY LossIs DEF ArriveInv, HeldInv
<1>2. PICK D : D = {keyboard, setsu} \cup (IF pad.open THEN {pad.state} ELSE {})
  OBVIOUS
<1>3. ASSUME Sent
      PROVE  /\ HeldButtons(log) \ {"touchpad"} = (UNION {s.buttons : s \in D}) \ {"touchpad"}
             /\ HeldTrigger(log) = (IF \E s \in D : s.l2 = 255 THEN 255 ELSE 0)
             /\ lastState = (IF \E s \in D : s.stick # 0 THEN -1 ELSE 0)
             /\ ~replaced =>
                  HeldTouches(log) = {<<t.id, t.pos>> : t \in {z \in Range(setsu.touches) : z.id >= 0}}
  <2>1. /\ prev \in States /\ cur \in States /\ session \in States /\ setsu \in States /\ keyboard \in States
        /\ pad \in [open : BOOLEAN, state : States] /\ log \in Seq(FeedbackEvents)
    BY DEF ArriveInv, HeldInv, LossInv, StatesTyped, HistoryInv
  <2>2. Equals(prev, cur) /\ Equals(cur, session)
    BY <1>3 DEF Sent, ArriveInv, TellsPrev, Given
  <2>3. /\ ButtonsTell(log, prev) /\ TriggerTells(log, prev) /\ (~replaced => TouchesTell(log, prev))
        /\ lastState = prev.stick
    BY DEF ArriveInv, TellsPrev
  <2>4. /\ ButtonsTell(log, session) /\ TriggerTells(log, session)
        /\ (~replaced => TouchesTell(log, session)) /\ lastState = session.stick
    <3>1. /\ ButtonsTell(log, cur) /\ TriggerTells(log, cur)
          /\ (~replaced => TouchesTell(log, cur)) /\ prev.stick = cur.stick
      BY <2>1, <2>2, <2>3, TellsAlike, EqualsIs
    <3>2. cur.stick = session.stick
      BY <2>1, <2>2, EqualsIs
    <3> QED
      BY <2>1, <2>2, <2>3, <3>1, <3>2, TellsAlike
  <2>5. D = Devices(setsu, pad, keyboard)
    BY <1>2 DEF Devices
  <2>6. PICK m : m = Merged(setsu, pad, keyboard) /\ MergedBy(m, setsu, D) /\ Agrees(session, m)
    BY <2>1, <2>5, MergedFields DEF ArriveInv, Given
  <2>7. HeldButtons(log) \ {"touchpad"} = (UNION {s.buttons : s \in D}) \ {"touchpad"}
    <3>1. HeldButtons(log) = {b \in Range(Order) : b \in session.buttons}
      BY <2>1, <2>4, HeldButtonsAre
    <3>2. session.buttons \ {"touchpad"} = m.buttons \ {"touchpad"} /\ m.buttons = UNION {s.buttons : s \in D}
      BY <2>6 DEF Agrees, MergedBy
    <3>3. session.buttons \in SUBSET {"cross", "touchpad"} /\ "cross" \in Range(Order)
      BY <2>1, InputAssumption DEF States, Marked
    <3>4. \A b \in session.buttons : b # "touchpad" => b \in Range(Order)
      BY <3>3
    <3>5. HeldButtons(log) \ {"touchpad"} = session.buttons \ {"touchpad"}
      BY <3>1, <3>4
    <3>6. PICK U : U = UNION {s.buttons : s \in D} /\ m.buttons = U
      BY <3>2
    <3>7. HeldButtons(log) \ {"touchpad"} = U \ {"touchpad"}
      BY <3>2, <3>5, <3>6
    <3> QED
      BY <3>6, <3>7
  <2>8. HeldTrigger(log) = (IF \E s \in D : s.l2 = 255 THEN 255 ELSE 0)
    BY <2>1, <2>4, <2>6, HeldTriggerIs DEF Agrees, MergedBy
  <2>9. lastState = (IF \E s \in D : s.stick # 0 THEN -1 ELSE 0)
    BY <2>4, <2>6 DEF Agrees, MergedBy
  <2>10. ~replaced =>
           HeldTouches(log) = {<<t.id, t.pos>> : t \in {z \in Range(setsu.touches) : z.id >= 0}}
    <3>1. session.touches = m.touches
      BY <2>6 DEF Agrees
    <3>2. \A i \in Slots : m.touches[i] = IF setsu.touches[i].id >= 0 THEN setsu.touches[i] ELSE NoTouch
      BY <2>6 DEF MergedBy
    <3>3. Range(session.touches) = {session.touches[i] : i \in Slots}
          /\ Range(setsu.touches) = {setsu.touches[i] : i \in Slots}
      BY <2>1 DEF States, Range
    <3>4. {z \in Range(session.touches) : z.id >= 0} = {z \in Range(setsu.touches) : z.id >= 0}
      <4>1. ~(NoTouch.id >= 0)
        BY DEF NoTouch
      <4>2. \A i \in Slots : /\ session.touches[i].id >= 0 => session.touches[i] = setsu.touches[i]
                             /\ setsu.touches[i].id >= 0 => session.touches[i] = setsu.touches[i]
        BY <3>1, <3>2, <4>1
      <4> QED
        BY <3>3, <4>2
    <3>5. ASSUME ~replaced
          PROVE  HeldTouches(log) = {<<t.id, t.pos>> : t \in {z \in Range(session.touches) : z.id >= 0}}
      BY <2>1, <2>4, <3>5, HeldTouchesAre
    <3> QED
      BY <3>4, <3>5, Zenon
  <2> QED
    BY <2>7, <2>8, <2>9, <2>10, Zenon
<1> QED
  BY <1>1, <1>2, <1>3, Zenon DEF InputArrives

\* Once the sender has nothing left to send, what is held on any of the devices is
\* what its events leave held (feedbacksender.c:184-232): for every size of the
\* history, every order of the buttons and every number of inputs that does not
\* use up the touch ids, however the sender's turns and the user's steps interleave.
THEOREM InputArrive ==
  ASSUME MaxInputs < TouchIds PROVE InputSpec => []InputArrives
<1>1. InputInit => ArriveInv
  BY ArriveInitially
<1>2. ArriveInv /\ [InputNext]_inputVars => ArriveInv'
  BY ArriveInvStays
<1>3. ArriveInv => InputArrives
  BY ArriveIs
<1> QED
  BY <1>1, <1>2, <1>3, PTL DEF InputSpec
====
