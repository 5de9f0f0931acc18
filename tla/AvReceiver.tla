----------------------------- MODULE AvReceiver -----------------------------
(***************************************************************************)
(* The receivers of a stream connection with the packet statistics they    *)
(* share and the thread that reports them (lib/src/congestioncontrol.c).   *)
(* The Takion thread calls the receivers, one packet after the other       *)
(* (stream_connection_takion_av); the congestion thread takes and resets   *)
(* the statistics at any moment of that, under their lock, which push_seq  *)
(* does not take.                                                          *)
(*                                                                         *)
(* The two receivers touch nothing of each other but different counters of *)
(* the statistics, so a behaviour has packets of one kind (a bound).       *)
(***************************************************************************)
EXTENDS PacketStats, Sequences

CONSTANTS MaxVideo, TotalOf, FecOf, ProfileOf, Profiles, MaxSlots, Flaws, MaxAudio, Copies, MaxPushed

VARIABLES
  kind,                                                  \* "video" or "audio"
  ground, rx, fp, frame, whole, reported, last, out,     \* VideoReceiver
  prev, startup, push, newest, heard, played,            \* AudioReceiver
  stats,
  report,    \* the last congestion packet, and what it should say
  since      \* what happened since: first and number of packets, any disorder

videoVars == <<ground, rx, fp, frame, whole, reported, last, out>>
audioVars == <<prev, startup, push, newest, heard, played>>
vars == <<kind, videoVars, audioVars, stats, report, since>>

Video == INSTANCE VideoReceiver WITH MaxFrame <- MaxVideo
Audio == INSTANCE AudioReceiver WITH MaxFrame <- MaxAudio

ASSUME AvAssumption == Video!VideoAssumption /\ Audio!AudioAssumption

Init ==
  /\ kind \in {"video", "audio"}
  /\ Video!Init /\ Audio!Init
  /\ report = [lost |-> 0, missing |-> 0, clean |-> FALSE]
  /\ since = [from |-> 0, count |-> 0, clean |-> TRUE]

\* stream_connection_takion_av
TakionVideo ==
  /\ kind = "video" /\ Video!Next
  /\ stats.genReceived + stats.genLost <= MaxPushed
  /\ UNCHANGED <<kind, audioVars, report, since>>

\* A late or repeated packet, or more than the numbers can tell apart, leaves
\* the statistics without a meaning to compare them with.
TakionAudio ==
  /\ kind = "audio" /\ Audio!Receive
  /\ since' = [since EXCEPT !.count = @ + 1,
                            !.clean = @ /\ newest' > newest /\ newest' - since.from < SeqSpace]
  /\ UNCHANGED <<kind, videoVars, stats, report>>

TakionPush ==
  /\ kind = "audio" /\ Audio!Push
  /\ UNCHANGED <<kind, videoVars, report, since>>

\* congestion_control_thread_func: 200 ms passed.  StreamConnection models
\* how the thread starts and stops.
CongestionReport ==
  /\ report' = [lost |-> IF kind = "audio" THEN Lost(stats) ELSE 0,
                missing |-> newest - since.from - since.count,
                clean |-> since.clean /\ push = Audio!Idle]
  /\ stats' = ResetStats(stats)
  /\ since' = [from |-> newest, count |-> 0, clean |-> push = Audio!Idle]
  /\ UNCHANGED <<kind, videoVars, audioVars>>

Next ==
  \/ TakionVideo \/ TakionAudio \/ TakionPush
  \/ CongestionReport

Spec == Init /\ [][Next]_vars

(***************************************************************************)
(* Properties: those of the receivers, and of the reports.                 *)
(***************************************************************************)
TypeOK == Audio!TypeOK /\ Video!TypeOK

\* The units counted are the slots filled (the assertion of frameprocessor.c:227)
\* and a sample is made of units of its frame, under the header of its profile.
SamplesAreWhole == TypeOK /\ Video!UnitsCounted /\ Video!SamplesAreWhole

\* And the console is told of exactly the video frames that were not decoded.
VideoIsRight == SamplesAreWhole /\ Video!CorruptIsReported

\* Frames of video and of audio come out in their order, none twice.
DeliveredInOrder == Video!SamplesInOrder /\ Audio!FramesInOrder

\* The newest audio frame that came was played.
NewestIsPlayed == Audio!NewestIsPlayed

\* With nothing late or repeated, and no packet being counted at that moment,
\* a report says exactly how many audio packets are missing, across the wrap
\* of the 16 bit numbers and their 64 bit difference (packetstats.c:64-67).
LossIsExact == kind = "audio" /\ report.clean => report.lost = report.missing % SeqSpace
=============================================================================
