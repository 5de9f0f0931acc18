---------------------------- MODULE AndroidStream ----------------------------
(***************************************************************************)
(* A stream in the Android app.  StreamActivity and StreamSession run on   *)
(* the UI thread and own a native session (chiaki-jni.c): one of the       *)
(* library, with a decoder for video and one for audio.  The session's     *)
(* thread posts its events to the UI by LiveData, which keeps the last one *)
(* only; its Takion thread calls the decoders; each decoder has a thread   *)
(* of its own that takes the output of an AMediaCodec.  The library and    *)
(* the codecs are external: what they answer is a choice.                  *)
(***************************************************************************)
EXTENDS Integers, FiniteSets

CONSTANTS
  MaxSessions    \* bound on the native sessions of an activity

VARIABLES
  activity,      \* "paused", "resumed" or "gone"
  finishing,     \* finish() was called
  surface,       \* there is a surface to draw on
  ui,            \* where the UI thread is: "loop", or inside a call
  after,         \* reconnect: "resume" follows the shutdown
  contents,      \* dialogContents
  dialogs,       \* the dialogs on the screen
  pending,       \* the value posted to the LiveData "state", or "none"
  session,       \* session # null
  made,          \* sessions created so far
  lib,           \* the library's thread: "none", "connecting", "pin", "connected" or "ended"
  stop,          \* chiaki_session_stop was called
  takion,        \* "idle", "sample", "header" or "old" in a callback
  videoLock,     \* who holds the video decoder's codec_mutex
  video,         \* its codec: "none", "started", "stopped"
  videoOut,      \* its output thread: "none", "waiting", "asking" or "ended"
  shutdownOutput,
  audio,         \* the audio decoder's codec: "none" or "started"
  audioOut,      \* its output thread: "none", "waiting" or "ended"
  audioEos,      \* the end of the stream was queued
  held,          \* the Takion thread returned with the audio decoder's codec_mutex
  removed,       \* ghost: the surface of a session was taken away
  starved,       \* ghost: the video codec had no buffer left for the end of the stream
  stray          \* ghost: a thread lives on that uses what was freed

activityVars == <<activity, finishing, surface>>
dialogVars == <<contents, dialogs>>
sessionVars == <<session, made, lib, stop>>
videoVars == <<videoLock, video, videoOut, shutdownOutput>>
audioVars == <<audio, audioOut, audioEos, held>>
ghosts == <<removed, starved, stray>>
streamVars == <<activityVars, ui, after, dialogVars, pending, sessionVars, takion, videoVars, audioVars, ghosts>>

Errors == {"failed", "shutdown"}    \* reasons of the library: an error, the console's shutdown

\* The decoders of a new session, and what is left of them when they are freed.
VideoInit == videoLock = "none" /\ video = "none" /\ videoOut = "none" /\ shutdownOutput = FALSE
AudioInit == audio = "none" /\ audioOut = "none" /\ audioEos = FALSE /\ held = FALSE
VideoFini == videoLock' = "none" /\ video' = "none" /\ videoOut' = "none" /\ shutdownOutput' = FALSE
AudioFini == audio' = "none" /\ audioOut' = "none" /\ audioEos' = FALSE /\ held' = FALSE

StreamInit ==
  /\ activity = "paused" /\ finishing = FALSE /\ surface = FALSE
  /\ ui = "loop" /\ after = "rest" /\ contents = "none" /\ dialogs = {}
  /\ pending = "none" /\ session = FALSE /\ made = 0
  /\ lib = "none" /\ stop = FALSE /\ takion = "idle" /\ VideoInit /\ AudioInit
  /\ removed = FALSE /\ starved = FALSE /\ stray = FALSE

-----------------------------------------------------------------------------
(* StreamActivity.stateChanged: what the UI does with a new value.  The    *)
(* property "dialog" is never assigned, so none is dismissed.              *)

\* As if the property's setter left dialogContents alone.
CloseOnly(d) == dialogs' = dialogs \ {d} /\ UNCHANGED contents
\* A button of a dialog, or its cancelling: dialog = null resets dialogContents.
Close(d) == dialogs' = dialogs \ {d} /\ contents' = "none"

Show(d) ==
  IF contents = d THEN UNCHANGED dialogVars ELSE contents' = d /\ dialogs' = dialogs \cup {d}

Finish == finishing' = TRUE
StateChanged(s) ==
  CASE s = "failed" -> Show("quit") /\ UNCHANGED finishing
    [] s \in {"stopped", "shutdown"} -> UNCHANGED dialogVars /\ (IF contents = "quit" THEN UNCHANGED finishing ELSE Finish)
    [] s = "createError" -> Show("create") /\ UNCHANGED finishing
    [] s = "pin" -> Show("pin") /\ UNCHANGED finishing
    [] OTHER -> UNCHANGED dialogVars /\ UNCHANGED finishing

\* The UI's loop hands the posted value over.
Deliver ==
  /\ ui = "loop" /\ pending # "none" /\ activity # "gone"
  /\ StateChanged(pending) /\ pending' = "none"
  /\ UNCHANGED <<activity, surface, ui, after, sessionVars, takion, videoVars, audioVars, ghosts>>

-----------------------------------------------------------------------------
(* StreamSession: resume, shutdown, and the surface.                       *)

\* Session(), start() and, if there is a surface already, setSurface().
CreateSession ==
  /\ session' = TRUE /\ made' = made + 1 /\ lib' = "connecting" /\ stop' = FALSE
  /\ ui' = IF surface THEN "surface" ELSE "loop"
  /\ StateChanged("connecting")
CreateFails == StateChanged("createError") /\ ui' = "loop" /\ UNCHANGED sessionVars

Create == made < MaxSessions /\ (CreateSession \/ CreateFails)

OnResume ==
  /\ ui = "loop" /\ activity = "paused" /\ ~finishing
  /\ activity' = "resumed"
  /\ IF session THEN UNCHANGED <<finishing, ui, dialogVars, sessionVars>> ELSE Create
  /\ UNCHANGED <<surface, after, pending, takion, videoVars, audioVars, ghosts>>

\* stop() and, in dispose(), sessionJoin: the UI waits there.
Shutdown(then) ==
  /\ after' = then
  /\ IF session
     THEN stop' = TRUE /\ ui' = "join"
     ELSE ui' = (IF then = "resume" THEN "resume" ELSE "loop") /\ UNCHANGED stop

OnPause ==
  /\ ui = "loop" /\ activity = "resumed"
  /\ activity' = IF finishing THEN "gone" ELSE "paused"
  /\ Shutdown("rest")
  /\ UNCHANGED <<finishing, surface, dialogVars, pending, session, made, lib, takion, videoVars, audioVars, ghosts>>

\* finish() of an activity that is paused already.
OnDestroy ==
  /\ ui = "loop" /\ activity = "paused" /\ finishing /\ activity' = "gone"
  /\ UNCHANGED <<finishing, surface, ui, after, dialogVars, pending, sessionVars, takion, videoVars, audioVars, ghosts>>

\* A PIN wakes the session that waits for one; another keeps it for later.
SetLoginPin == lib' = IF lib = "pin" THEN "connecting" ELSE lib

\* The buttons of the dialogs.
Answer ==
  /\ ui = "loop" /\ activity = "resumed" /\ ~finishing
  /\ \/ /\ "quit" \in dialogs /\ Close("quit") /\ made < MaxSessions     \* "Reconnect"
        /\ Shutdown("resume") /\ UNCHANGED <<finishing, lib>>
     \/ /\ "pin" \in dialogs /\ Close("pin")                             \* "Connect"
        /\ SetLoginPin
        /\ UNCHANGED <<finishing, ui, after, stop>>
     \/ \E d \in dialogs : Close(d) /\ Finish /\ UNCHANGED <<ui, after, stop, lib>>
  /\ UNCHANGED <<activity, surface, pending, session, made, takion, videoVars, audioVars, ghosts>>

\* surfaceChanged and surfaceDestroyed.
SurfaceCallback ==
  /\ ui = "loop" /\ activity # "gone"
  /\ \/ surface' = TRUE /\ UNCHANGED removed
     \/ surface /\ surface' = FALSE /\ removed' = (removed \/ session)
  /\ ui' = IF session THEN "surface" ELSE "loop"
  /\ UNCHANGED <<activity, finishing, after, dialogVars, pending, sessionVars, takion, videoVars, audioVars, starved, stray>>

\* android_chiaki_video_decoder_set_surface.  Without a surface it returns with
\* the mutex, or has kill_decoder lock it a second time.
SetSurface ==
  /\ ui = "surface" /\ videoLock = "none"
  /\ \/ /\ ~surface /\ videoLock' = "ui" /\ ui' = (IF video = "none" THEN "loop" ELSE "kill")
        /\ UNCHANGED <<video, videoOut>>
     \/ /\ surface /\ video = "none" /\ ui' = "loop"          \* errors leave no codec
        /\ \/ video' = "started" /\ videoOut' = "waiting"
           \/ UNCHANGED <<video, videoOut>>
        /\ UNCHANGED videoLock
     \/ surface /\ video # "none" /\ ui' = "loop" /\ UNCHANGED <<videoLock, video, videoOut>>
  /\ UNCHANGED <<activityVars, after, dialogVars, pending, sessionVars, takion, shutdownOutput, audioVars, ghosts>>

-----------------------------------------------------------------------------
(* sessionFree: the UI thread frees the session it has joined.             *)

ToAudio == IF audio = "none" THEN "free" ELSE "audio"
Join ==
  /\ ui = "join" /\ lib = "ended"
  /\ ui' = IF video = "none" THEN ToAudio ELSE "kill"
  /\ UNCHANGED <<activityVars, after, dialogVars, pending, sessionVars, takion, videoVars, audioVars, ghosts>>

\* kill_decoder: with a free buffer the end of the stream is queued and the
\* output thread joined, without one it is not.
Kill ==
  /\ ui = "kill" /\ videoLock = "none"
  /\ shutdownOutput' = TRUE /\ video' = "stopped"
  /\ \/ ui' = "joinVideo" /\ UNCHANGED starved
     \/ ui' = "delete" /\ starved' = TRUE
  /\ UNCHANGED <<activityVars, after, dialogVars, pending, sessionVars, takion, videoLock, videoOut, audioVars, removed, stray>>
\* As if the thread was not waited for.
VideoJoinedAnyway == ui = "joinVideo"
VideoJoined == ui = "joinVideo" /\ videoOut = "ended"
JoinVideo ==
  /\ VideoJoined /\ ui' = "delete"
  /\ UNCHANGED <<activityVars, after, dialogVars, pending, sessionVars, takion, videoVars, audioVars, ghosts>>
Delete ==
  /\ ui = "delete" /\ ui' = ToAudio
  /\ video' = "none" /\ shutdownOutput' = FALSE /\ videoOut' = "none"
  /\ stray' = (stray \/ videoOut # "ended")
  /\ UNCHANGED <<activityVars, after, dialogVars, pending, sessionVars, takion, videoLock, audioVars, removed, starved>>

\* android_chiaki_audio_decoder_shutdown_codec, from fini: a buffer is waited
\* for.  If the codec gives none, the thread is joined all the same.
KillAudio ==
  /\ ui = "audio" /\ ~held /\ audioEos' \in BOOLEAN /\ ui' = "joinAudio"
  /\ UNCHANGED <<activityVars, after, dialogVars, pending, sessionVars, takion, videoVars, audio, audioOut, held, ghosts>>
JoinAudio ==
  /\ ui = "joinAudio" /\ audioOut = "ended" /\ ui' = "free" /\ audio' = "none"
  /\ UNCHANGED <<activityVars, after, dialogVars, pending, sessionVars, takion, videoVars, audioOut, audioEos, held, ghosts>>

Free ==
  /\ ui = "free" /\ session' = FALSE
  /\ lib' = "none" /\ stop' = FALSE /\ takion' = "idle"
  /\ VideoFini /\ AudioFini
  /\ stray' = (stray \/ lib # "ended" \/ takion # "idle" \/ videoOut \in {"waiting", "asking"} \/ audioOut = "waiting")
  /\ ui' = IF after = "resume" THEN "resume" ELSE "loop"
  /\ UNCHANGED <<activityVars, after, dialogVars, pending, made, removed, starved>>

\* reconnect: shutdown() is followed by resume().
Reconnect ==
  /\ ui = "resume" /\ Create
  /\ UNCHANGED <<activity, surface, after, pending, takion, videoVars, audioVars, ghosts>>

UiStep == SetSurface \/ Join \/ Kill \/ JoinVideo \/ Delete \/ KillAudio \/ JoinAudio \/ Free \/ Reconnect

-----------------------------------------------------------------------------
(* The library's threads.                                                  *)

\* android_chiaki_event_cb: an event is posted to the UI, over the last one.
Event(l, s) ==
  /\ lib' = l /\ pending' = s
  /\ UNCHANGED <<activityVars, ui, after, dialogVars, session, made, stop, takion, videoVars, audioVars, ghosts>>
Connected == lib = "connecting" /\ Event("connected", "connected")
LoginPinRequest == lib = "connecting" /\ Event("pin", "pin")
\* The thread has joined Takion's; a session that was stopped says so.
Quit ==
  /\ lib \in {"connecting", "pin", "connected"} /\ takion = "idle"
  /\ \/ stop /\ Event("ended", "stopped")
     \/ \E s \in Errors : Event("ended", s)

Running == lib \in {"connecting", "connected"}
TakionDoes(t) ==
  /\ takion' = t
  /\ UNCHANGED <<activityVars, ui, after, dialogVars, pending, sessionVars, ghosts>>

\* A video sample waits for input buffers, for a while each, under the mutex.
VideoSample ==
  \/ /\ Running /\ takion = "idle" /\ videoLock = "none" /\ video # "none"
     /\ TakionDoes("sample") /\ videoLock' = "takion" /\ UNCHANGED <<video, videoOut, shutdownOutput, audioVars>>
  \/ /\ takion = "sample" /\ TakionDoes("idle") /\ videoLock' = "none"
     /\ UNCHANGED <<video, videoOut, shutdownOutput, audioVars>>
\* Without the mutex the callback waits, which is no step, if the UI keeps it.
Blocked == Running /\ takion = "idle" /\ videoLock = "ui" /\ TakionDoes("blocked") /\ UNCHANGED <<videoVars, audioVars>>

\* An audio frame whose wait is in vain returns with the mutex.
AudioFrame ==
  /\ Running /\ takion = "idle" /\ audio # "none" /\ ~held
  /\ TakionDoes("idle") /\ held' = TRUE /\ UNCHANGED <<videoVars, audio, audioOut, audioEos>>

\* A header ends the codec of the last one and starts another; three frames
\* that describe the stream follow.
AudioHeader ==
  \/ /\ Running /\ takion = "idle" /\ UNCHANGED <<videoVars, audio, audioOut, held>>
     /\ IF audio = "none" THEN TakionDoes("header") /\ UNCHANGED audioEos
        ELSE TakionDoes("old") /\ audioEos' \in BOOLEAN
  \/ /\ takion = "old" /\ audioOut = "ended" /\ TakionDoes("header")
     /\ audio' = "none" /\ audioOut' = "none" /\ audioEos' = FALSE /\ UNCHANGED <<videoVars, held>>
  \/ /\ takion = "header" /\ TakionDoes("idle")
     /\ \/ audio' = "started" /\ audioOut' = "waiting" /\ held' \in {held, TRUE}
        \/ UNCHANGED <<audio, audioOut, held>>
     /\ UNCHANGED <<videoVars, audioEos>>

Callback == VideoSample \/ Blocked \/ AudioFrame \/ AudioHeader

\* As if the flag had been forgotten, or cleared too early.
LeavesNever == FALSE
Leaves == shutdownOutput

\* The output threads.  That for video leaves with the end of the stream, or
\* when it is told so after an error; that for audio with the end only.
VideoOutput ==
  /\ \/ videoOut = "waiting" /\ video = "stopped" /\ videoOut' = "ended"
     \/ videoOut = "waiting" /\ video # "none" /\ videoOut' = "asking"
     \/ videoOut = "asking" /\ videoLock = "none" /\ videoOut' = IF Leaves THEN "ended" ELSE "waiting"
  /\ UNCHANGED <<activityVars, ui, after, dialogVars, pending, sessionVars, takion, videoLock, video, shutdownOutput, audioVars, ghosts>>
AudioOutput ==
  /\ audioOut = "waiting" /\ audioEos /\ audioOut' = "ended"
  /\ UNCHANGED <<activityVars, ui, after, dialogVars, pending, sessionVars, takion, videoVars, audio, audioEos, held, ghosts>>

-----------------------------------------------------------------------------
StreamNext ==
  \/ Deliver \/ OnResume \/ OnPause \/ OnDestroy \/ Answer \/ SurfaceCallback \/ UiStep
  \/ Connected \/ LoginPinRequest \/ Quit \/ Callback \/ VideoOutput \/ AudioOutput

StreamSpec == StreamInit /\ [][StreamNext]_streamVars

StreamFairness ==
  /\ SF_streamVars(SetSurface) /\ WF_streamVars(UiStep)
  /\ SF_streamVars(stop /\ Quit) /\ WF_streamVars(VideoSample /\ takion # "idle") /\ WF_streamVars(AudioHeader /\ takion # "idle")
  /\ SF_streamVars(VideoOutput) /\ WF_streamVars(AudioOutput)
FairStreamSpec == StreamSpec /\ StreamFairness

(***************************************************************************)
(* Properties.                                                             *)
(***************************************************************************)
StreamTypeOK ==
  /\ {finishing, surface, session, stop, shutdownOutput, audioEos, held, removed, starved, stray} \subseteq BOOLEAN
  /\ contents \in {"none", "quit", "create", "pin"} /\ dialogs \subseteq {"quit", "create", "pin"}
  /\ lib \in {"none", "connecting", "pin", "connected", "ended"}

\* The user sees what became of the stream, once the posted value was handed
\* over: that it ended, that a PIN is wanted, that there is none.
UserIsTold ==
  ui = "loop" /\ activity = "resumed" /\ ~finishing /\ pending = "none" =>
    /\ session /\ lib = "ended" => "quit" \in dialogs
    /\ session /\ lib = "pin" => "pin" \in dialogs
    /\ ~session => dialogs \cap {"quit", "create"} # {}

\* No thread of a session outlives what it uses, but the one of a video codec
\* that had no buffer left for the end of the stream.
NoneOutlives == stray => starved

\* An output thread is joined that was not sent the end of the stream.
Endless == ~audioEos /\ (ui = "joinAudio" \/ takion = "old")

\* Every call of the UI thread returns, unless a surface was taken from a
\* session, an audio frame kept its mutex, or the audio codec had no buffer
\* for the end of the stream.
UiReturns == ui # "loop" ~> ui = "loop" \/ removed \/ held \/ Endless
=============================================================================
