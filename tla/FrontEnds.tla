------------------------------- MODULE FrontEnds -------------------------------
(***************************************************************************)
(* Around the session of a stream: the GUI's window (StreamWindow), the    *)
(* Android app's activity (AndroidStream) and the buffer of its audio      *)
(* output (AudioRing).  The first two each own a session of the library    *)
(* and get what its threads report; the third is filled by one thread and  *)
(* emptied by another, whatever becomes of the activity.  They share no    *)
(* state, so a behaviour is of one of them (a bound).                      *)
(***************************************************************************)
EXTENDS Integers, Sequences

CONSTANTS
  Actions, CodecMax, MaxFrames, MaxPins, Planes,  \* StreamWindow
  MaxSessions,                                    \* AndroidStream
  ChunksCount, ChunkSize, Frames, MaxPushed       \* AudioRing

VARIABLES
  part,
  action, main, posted, asking, error, pinDialog, canceled, wlib, connected, wstop, pins,
  sink, audioIo, coded, sent, signals, uploader, got, frames, plane, skipped, fg, dirty,
  painting, shown,
  activity, finishing, surface, ui, after, contents, dialogs, pending, session, made, lib, stop,
  takion, videoLock, video, videoOut, shutdownOutput, audio, audioOut, audioEos, held,
  removed, starved, stray,
  output, slot, head, tail, mem, rstep, todo, chunk, done, pushed, popped, aborted

windowVars == <<action, main, posted, asking, error, pinDialog, canceled, wlib, connected, wstop,
                pins, sink, audioIo, coded, sent, signals, uploader, got, frames, plane,
                skipped, fg, dirty, painting, shown>>
activityVars == <<activity, finishing, surface, ui, after, contents, dialogs, pending, session, made,
                  lib, stop, takion, videoLock, video, videoOut, shutdownOutput, audio, audioOut,
                  audioEos, held, removed, starved, stray>>
ringVars == <<output, slot, head, tail, mem, rstep, todo, chunk, done, pushed, popped, aborted>>
frontVars == <<part, windowVars, activityVars, ringVars>>

Window == INSTANCE StreamWindow
Activity == INSTANCE AndroidStream
Ring == INSTANCE AudioRing

\* The ring has chunks, and they have bytes; frames have planes.
ASSUME FrontEndsAssumption == Ring!RingAssumption /\ Window!WindowAssumption

\* The parts that do not run are in one of their initial states.
FrontInit ==
  /\ part \in {"window", "activity", "ring"}
  /\ Window!WindowInit /\ Activity!StreamInit /\ Ring!RingInit
  /\ part # "window" => action = (CHOOSE a \in Actions : TRUE)

Windowed(A) == part = "window" /\ A /\ UNCHANGED <<part, activityVars, ringVars>>
Streamed(A) == part = "activity" /\ A /\ UNCHANGED <<part, windowVars, ringVars>>
Played(A) == part = "ring" /\ A /\ UNCHANGED <<part, windowVars, activityVars>>

FrontNext == Windowed(Window!WindowNext) \/ Streamed(Activity!StreamNext) \/ Played(Ring!RingNext)

FrontSpec == FrontInit /\ [][FrontNext]_frontVars

\* That of the parts: threads run, and so do the event loops; neither the
\* console nor the user need do anything.
FrontFairness ==
  /\ WF_frontVars(Windowed(Window!MainStep)) /\ WF_frontVars(Windowed(Window!PaintGL))
  /\ WF_frontVars(Windowed(Window!UploaderStep)) /\ SF_frontVars(Windowed(wstop /\ Window!QuitEvent))
  /\ SF_frontVars(Streamed(Activity!SetSurface)) /\ WF_frontVars(Streamed(Activity!UiStep))
  /\ SF_frontVars(Streamed(stop /\ Activity!Quit))
  /\ WF_frontVars(Streamed(Activity!VideoSample /\ takion # "idle"))
  /\ WF_frontVars(Streamed(Activity!AudioHeader /\ takion # "idle"))
  /\ SF_frontVars(Streamed(Activity!VideoOutput)) /\ WF_frontVars(Streamed(Activity!AudioOutput))
FairFrontSpec == FrontSpec /\ FrontFairness

(***************************************************************************)
(* Properties: those of the parts.                                         *)
(***************************************************************************)

\* What is painted is a whole frame and none older than the last, unless a
\* plane of it could not be mapped.
ShownIsWhole == Window!ShownIsWhole

\* The user of an activity sees what became of the stream.
UserIsTold == Activity!UserIsTold

\* No thread of an activity's session outlives what it uses.
NoneOutlives == Activity!NoneOutlives

\* The device plays what was pushed, and no assertion of the buffer fails.
PlayedInOrder == Ring!PlayedInOrder

\* A window that was closed goes away, and the activity's calls return.
WindowEnds == part = "window" => Window!WindowEnds
UiReturns == part = "activity" => Activity!UiReturns
FrontEndGoesOn == WindowEnds /\ UiReturns
=============================================================================
