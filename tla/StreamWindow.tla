----------------------------- MODULE StreamWindow -----------------------------
(***************************************************************************)
(* A stream in the GUI.  StreamWindow lives on the main thread, with Qt's  *)
(* event loop, and owns a StreamSession, which owns a session of the       *)
(* library.  The session's threads emit signals and queue calls for the    *)
(* main thread; for audio they wait until the call was done.  Video goes   *)
(* from the Takion thread through the decoder to an uploader thread, which *)
(* fills one of two frames while the main thread paints the other.  Qt and *)
(* the library's threads are external, the user is a choice.               *)
(***************************************************************************)
EXTENDS Integers, Sequences, FiniteSets

CONSTANTS
  Actions,      \* settings: what closing does, of "ask" and "go"
  CodecMax,     \* frames the codec keeps before it is full
  MaxFrames,    \* bounds on the video frames sent
  MaxPins,      \* and on the requests of a login PIN
  Planes        \* planes of the pixel format, each a texture of its own

WindowAssumption == Planes \in Nat \ {0}

VARIABLES
  action,       \* GetDisconnectAction
  main,         \* the main thread: "loop", or the destructors "widget", "join", "gone"
  posted,       \* the events it has to handle
  asking,       \* it is inside closeEvent's question
  error,        \* it is inside SessionQuit's message
  pinDialog,    \* a LoginPINDialog is open
  canceled,     \* ghost: the question was canceled after the session had quit
  wlib,         \* the library's session: "connecting", "pin", "connected" or "ended"
  connected, wstop,
  pins,         \* PINs asked for so far
  sink,         \* the Takion thread: "idle", or "audio" while it waits for InitAudio
  audioIo,      \* audio_io # nullptr
  coded,        \* frames the codec has
  sent,         \* frames sent so far
  signals,      \* FfmpegFrameAvailable emitted and not handled
  uploader,     \* its thread: "idle", "write", "swap" or "ended"
  got,          \* the frame it has pulled
  frames,       \* the two frames: which frame each of its planes shows
  plane,        \* the plane Update has come to
  skipped,      \* ghost: frames with a plane that was not mapped the last time
  fg,           \* frame_fg
  dirty,        \* an update was asked for
  painting,     \* paintGL has the mutex and reads that frame, or -1
  shown         \* ghost: the whole frame painted last

closeVars == <<action, main, posted, asking, error, pinDialog, canceled>>
libVars == <<wlib, connected, wstop, pins>>
soundVars == <<sink, audioIo>>
codecVars == <<coded, sent, signals>>
frameVars == <<uploader, got, frames, plane, skipped, fg, dirty, painting, shown>>
windowVars == <<closeVars, libVars, soundVars, codecVars, frameVars>>

\* What StreamSession(), Init() and initializeGL() leave.
DecoderInit == coded = {} /\ sent = 0 /\ signals = 0
SessionInit == wlib = "connecting" /\ connected = FALSE /\ wstop = FALSE /\ pins = 0 /\ sink = "idle" /\ audioIo = FALSE
FramesInit ==
  /\ frames = [i \in {0, 1} |-> [p \in 1 .. Planes |-> 1]] /\ fg = 0
  /\ uploader = "idle" /\ got = 0 /\ plane = 1 /\ skipped = {}
WindowInit ==
  /\ action \in Actions /\ main = "loop" /\ posted = <<>>
  /\ asking = FALSE /\ error = FALSE /\ pinDialog = FALSE /\ canceled = FALSE
  /\ DecoderInit /\ SessionInit /\ FramesInit
  /\ dirty = FALSE /\ painting = -1 /\ shown = 1

-----------------------------------------------------------------------------
(* The window's end.                                                       *)

Post(e) == posted' = Append(posted, e)
\* deleteLater, of which Qt keeps one.
DeleteLater(q) == IF \E i \in DOMAIN q : q[i] = "delete" THEN q ELSE Append(q, "delete")
Accepted(q) == wstop' = TRUE /\ posted' = DeleteLater(q)

\* close() inside a close() does nothing; otherwise closeEvent asks, or stops
\* the session and has the window deleted.  q is what is posted still.
Close(q) ==
  IF asking THEN posted' = q /\ UNCHANGED <<asking, wstop>>
  ELSE IF connected /\ action = "ask" THEN asking' = TRUE /\ posted' = q /\ UNCHANGED wstop
  ELSE Accepted(q) /\ UNCHANGED asking

Looping == main = "loop" /\ painting = -1
Free == Looping /\ ~asking /\ ~error

UserCloses ==
  /\ Free /\ Close(posted)
  /\ UNCHANGED <<action, main, error, pinDialog, canceled, wlib, connected, pins, soundVars, codecVars, frameVars>>

\* The answer to the question; with "Cancel" the window stays.
UserAnswers ==
  /\ Looping /\ asking /\ ~error /\ asking' = FALSE
  /\ \/ Accepted(posted) /\ UNCHANGED canceled
     \/ UNCHANGED <<posted, wstop>> /\ canceled' = (canceled \/ wlib = "ended")
  /\ UNCHANGED <<action, main, error, pinDialog, wlib, connected, pins, soundVars, codecVars, frameVars>>

\* The message of SessionQuit is closed, and then the window.
UserReads ==
  /\ Looping /\ error /\ error' = FALSE /\ Close(posted)
  /\ UNCHANGED <<action, main, pinDialog, canceled, wlib, connected, pins, soundVars, codecVars, frameVars>>

\* LoginPINDialog is finished.
UserPins ==
  /\ Looping /\ ~asking /\ ~error /\ pinDialog /\ pinDialog' = FALSE
  /\ \/ wlib' = (IF wlib = "pin" THEN "connecting" ELSE wlib) /\ UNCHANGED wstop
     \/ wstop' = TRUE /\ UNCHANGED wlib
  /\ UNCHANGED <<action, main, posted, asking, error, canceled, connected, pins, soundVars, codecVars, frameVars>>

\* InitAudio replaces the output, and lets the thread go on that asked for it.
InitAudio(q) ==
  /\ posted' = q /\ sink' = "idle" /\ audioIo' \in BOOLEAN
  /\ UNCHANGED <<main, asking, error, pinDialog, wstop>>

SessionQuit(q, isError) ==
  /\ IF isError THEN error' = TRUE /\ posted' = q /\ UNCHANGED <<asking, wstop>> ELSE Close(q) /\ UNCHANGED error
  /\ UNCHANGED <<main, pinDialog, soundVars>>

LoginPINRequested(q) == pinDialog' = TRUE /\ posted' = q /\ UNCHANGED <<main, asking, error, wstop, soundVars>>

\* The deletion waits for the message boxes' own loops; it begins with the widget.
DeleteWindow(q) == ~asking /\ ~error /\ main' = "widget" /\ posted' = q /\ UNCHANGED <<asking, error, pinDialog, wstop, soundVars>>

\* The event loop, also that of a message box, handles what was posted in order.
HandleEvent ==
  /\ Looping /\ posted # <<>>
  /\ \/ Head(posted) = "audio" /\ InitAudio(Tail(posted))
     \/ Head(posted) = "quit" /\ SessionQuit(Tail(posted), FALSE)
     \/ Head(posted) = "error" /\ SessionQuit(Tail(posted), TRUE)
     \/ Head(posted) = "pin" /\ LoginPINRequested(Tail(posted))
     \/ Head(posted) = "delete" /\ DeleteWindow(Tail(posted))
  /\ UNCHANGED <<action, canceled, wlib, connected, pins, codecVars, frameVars>>

\* As if the thread was told to quit and not waited for.
WidgetGoneAnyway == main = "widget"
\* ~AVOpenGLWidget: the uploader ends with what it is doing.
WidgetGone == main = "widget" /\ uploader = "idle"
DeleteWidget ==
  /\ WidgetGone /\ main' = "join" /\ uploader' = (IF uploader = "idle" THEN "ended" ELSE uploader)
  /\ UNCHANGED <<action, posted, asking, error, pinDialog, canceled, libVars, soundVars, codecVars, got, frames, plane, skipped, fg, dirty, painting, shown>>

\* ~StreamSession joins the session; the calls for it are dropped after that.
DeleteSession ==
  /\ main = "join" /\ wlib = "ended" /\ main' = "gone" /\ posted' = <<>>
  /\ UNCHANGED <<action, asking, error, pinDialog, canceled, libVars, soundVars, codecVars, frameVars>>

-----------------------------------------------------------------------------
(* The session's threads: EventCb, AudioSettingsCb and the video sample.   *)

Alive == wlib # "ended"
SessionDoes(l, e) ==
  /\ wlib' = l /\ posted' = posted \o e
  /\ UNCHANGED <<action, main, asking, error, pinDialog, canceled, wstop, soundVars, codecVars, frameVars>>
ConnectedEvent == wlib = "connecting" /\ SessionDoes("connected", <<>>) /\ connected' = TRUE /\ UNCHANGED pins
PinEvent == wlib = "connecting" /\ pins < MaxPins /\ SessionDoes("pin", <<"pin">>) /\ pins' = pins + 1 /\ UNCHANGED connected
\* The Takion thread has ended by then.
QuitEvent ==
  /\ Alive /\ sink = "idle" /\ connected' = FALSE /\ UNCHANGED pins
  /\ \/ SessionDoes("ended", <<"quit">>)
     \/ SessionDoes("ended", <<"error">>)

AudioSettings ==
  /\ wlib = "connecting" /\ sink = "idle" /\ sink' = "audio" /\ Post("audio")
  /\ UNCHANGED <<action, main, asking, error, pinDialog, canceled, libVars, audioIo, codecVars, frameVars>>

Oldest(S) == CHOOSE n \in S : \A m \in S : n <= m
Newest(S) == CHOOSE n \in S : \A m \in S : m <= n

\* A full codec loses its oldest frame; one that refuses the sample gets none.
VideoSample ==
  /\ wlib = "connected" /\ sink = "idle" /\ sent < MaxFrames
  /\ sent' = sent + 1
  /\ \/ /\ coded' = (IF Cardinality(coded) < CodecMax THEN coded ELSE coded \ {Oldest(coded)}) \cup {sent + 2}
        /\ signals' = signals + 1
     \/ UNCHANGED <<coded, signals>>
  /\ UNCHANGED <<closeVars, libVars, soundVars, frameVars>>

-----------------------------------------------------------------------------
(* The uploader's thread and the painting.                                 *)

\* pull_frame takes all there are and returns the last one.
Pulled(S) == Newest(S)

UpdateFrameFromDecoder ==
  /\ uploader = "idle" /\ signals > 0 /\ signals' = signals - 1
  /\ IF coded = {} THEN UNCHANGED <<uploader, got, coded>>
     ELSE uploader' = "write" /\ got' = Pulled(coded) /\ coded' = {}
  /\ UNCHANGED <<closeVars, libVars, soundVars, sent, frames, plane, skipped, fg, dirty, painting, shown>>

\* AVOpenGLFrame::Update of the background frame refuses a frame of another
\* format, or there is none to update it with, lost in pull_from_hw.
UpdateRefuses ==
  /\ uploader = "write" /\ plane = 1 /\ uploader' = "idle"
  /\ UNCHANGED <<closeVars, libVars, soundVars, codecVars, got, frames, plane, skipped, fg, dirty, painting, shown>>

\* Otherwise it fills one plane after the other.  A plane whose buffer cannot
\* be mapped keeps what it shows, and Update succeeds all the same.
Update ==
  /\ uploader = "write"
  /\ \/ /\ frames' = [frames EXCEPT ![1 - fg][plane] = got]
        /\ skipped' = (IF plane = 1 THEN skipped \ {1 - fg} ELSE skipped)
     \/ skipped' = skipped \cup {1 - fg} /\ UNCHANGED frames
  /\ IF plane < Planes THEN plane' = plane + 1 /\ UNCHANGED uploader
     ELSE plane' = 1 /\ uploader' = "swap"
  /\ UNCHANGED <<closeVars, libVars, soundVars, codecVars, got, fg, dirty, painting, shown>>

\* As if painting took no mutex.
MaySwapAnyway == TRUE
MaySwap == painting = -1
SwapFrames ==
  /\ uploader = "swap" /\ MaySwap
  /\ fg' = 1 - fg /\ dirty' = TRUE /\ uploader' = "idle"
  /\ UNCHANGED <<closeVars, libVars, soundVars, codecVars, got, frames, plane, skipped, painting, shown>>

\* paintGL, from the lock to glFinish.
PaintGL ==
  /\ \/ Looping /\ dirty /\ painting' = fg /\ dirty' = FALSE /\ UNCHANGED shown
     \/ /\ painting # -1 /\ painting' = -1 /\ UNCHANGED dirty
        /\ shown' = (IF painting \in skipped THEN shown ELSE frames[painting][1])
  /\ UNCHANGED <<closeVars, libVars, soundVars, codecVars, uploader, got, frames, plane, skipped, fg>>

-----------------------------------------------------------------------------
MainStep == HandleEvent \/ DeleteWidget \/ DeleteSession
UploaderStep == UpdateFrameFromDecoder \/ UpdateRefuses \/ Update \/ SwapFrames

WindowNext ==
  \/ UserCloses \/ UserAnswers \/ UserReads \/ UserPins \/ MainStep \/ PaintGL
  \/ ConnectedEvent \/ PinEvent \/ QuitEvent \/ AudioSettings \/ VideoSample \/ UploaderStep

WindowSpec == WindowInit /\ [][WindowNext]_windowVars

WindowFairness ==
  /\ WF_windowVars(MainStep) /\ WF_windowVars(PaintGL) /\ WF_windowVars(UploaderStep)
  /\ SF_windowVars(wstop /\ QuitEvent)
FairWindowSpec == WindowSpec /\ WindowFairness

(***************************************************************************)
(* Properties.                                                             *)
(***************************************************************************)
\* What is painted is not being written; it is one frame in all its planes and
\* none older than the last, unless a plane of it could not be mapped; and the
\* session is not freed while the uploader works with its decoder.
ShownIsWhole ==
  /\ painting # -1 =>
       /\ uploader = "write" => painting = fg
       /\ painting \notin skipped =>
            \A p \in 1 .. Planes : frames[painting][p] = frames[painting][1] /\ frames[painting][p] >= shown
  /\ main = "gone" => uploader = "ended"

\* A window that was closed, or whose session has quit, goes away: unless the
\* user is asked or has canceled then, or the session waits for the main thread.
WindowEnds ==
  wstop \/ wlib = "ended" ~> main = "gone" \/ asking \/ error \/ canceled \/ sink = "audio"
=============================================================================
