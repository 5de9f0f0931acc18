---------------------------- MODULE AudioReceiver ----------------------------
(***************************************************************************)
(* lib/src/audioreceiver.c: a packet carries the frame it is numbered by,  *)
(* and copies of the frames before it.  Frames are counted without         *)
(* wrapping (`newest`, `played`) only to say what the receiver does with   *)
(* them.  push_seq of the packet statistics takes no lock: its read of the *)
(* counter, its write and its update of the maximum are steps of their     *)
(* own, between which another thread may reset the statistics.             *)
(***************************************************************************)
EXTENDS PacketStats, Sequences

CONSTANTS
  MaxFrame,   \* the last frame the console sends (a bound)
  Copies,     \* fec_units_count; source_units_count is 1
  MaxPushed   \* packets counted between two reports (a bound)

AudioAssumption ==
  /\ MaxFrame \in Nat \ {0} /\ MaxPushed \in Nat \ {0}
  /\ Copies \in Nat /\ Copies < Half   \* fec_units_count has 4 bits

VARIABLES
  prev,      \* frame_index_prev
  startup,   \* frame_index_startup
  push,      \* where chiaki_packet_stats_push_seq is, and what it holds
  stats,     \* ChiakiPacketStats
  newest,    \* the newest frame that arrived
  heard,     \* the frames the last packet made the sink play
  played     \* the last frame played

rxVars == <<prev, startup, newest, played>>
vars == <<rxVars, heard, push, stats>>

Idle == [at |-> "idle", seq |-> 0, count |-> 0]
Index(f) == f % SeqSpace

\* The frame of each unit in packet f: the source unit, then the copies, which
\* at first would be of frames before the first and are passed over.
SourceUnits(f) == <<f>>
CopyUnits(f) ==
  LET k == IF startup' /\ Index(f) < Copies + 1 THEN Copies + 1 - Index(f) ELSE 0
  IN  [i \in 1 .. Copies - k |-> f - Copies + k + i - 1]

\* Broken variant: the order of plain integers.
PlayPlain(s, f) ==
  IF Index(f) > s.prev THEN [s EXCEPT !.prev = Index(f), !.heard = Append(@, f)] ELSE s

\* chiaki_audio_receiver_frame
Play(s, f) ==
  IF SeqGt(Index(f), s.prev) THEN [s EXCEPT !.prev = Index(f), !.heard = Append(@, f)] ELSE s

PlayUnits(units) ==
  LET s[i \in 0 .. Len(units)] ==
        IF i = 0 THEN [prev |-> prev, heard |-> <<>>] ELSE Play(s[i - 1], units[i])
  IN  s[Len(units)]

\* chiaki_audio_receiver_av_packet of a packet of the right codec and size.
AudioPacket(f) ==
  /\ push = Idle /\ stats.seqReceived < MaxPushed
  /\ startup' = (startup /\ Index(f) <= Half)
  /\ LET s == PlayUnits(SourceUnits(f) \o CopyUnits(f))
     IN  /\ prev' = s.prev /\ heard' = s.heard
         /\ played' = IF s.heard = <<>> THEN played ELSE s.heard[Len(s.heard)]
  /\ newest' = IF f > newest THEN f ELSE newest
  /\ push' = [at |-> "load", seq |-> Index(f), count |-> 0]
  /\ UNCHANGED stats

\* chiaki_packet_stats_push_seq
PushLoad ==
  /\ push.at = "load"
  /\ push' = [push EXCEPT !.at = "store", !.count = stats.seqReceived + 1]
  /\ heard' = <<>>
  /\ UNCHANGED <<rxVars, stats>>

PushStore ==
  /\ push.at = "store"
  /\ push' = [push EXCEPT !.at = "max"]
  /\ stats' = [stats EXCEPT !.seqReceived = push.count]
  /\ UNCHANGED <<rxVars, heard>>

PushMax ==
  /\ push.at = "max"
  /\ push' = Idle
  /\ stats' = [stats EXCEPT !.seqMax = IF SeqGt(push.seq, @) THEN push.seq ELSE @]
  /\ UNCHANGED <<rxVars, heard>>

\* What the network may deliver: late or ahead by less than half the numbers.
Deliverable(f) ==
  /\ newest - f + Copies < Half
  /\ f - newest < Half

Init ==
  /\ prev = 0 /\ startup = TRUE
  /\ push = Idle /\ stats = StatsInit
  /\ newest = 0 /\ heard = <<>> /\ played = 0

Receive == \E f \in 1 .. MaxFrame : Deliverable(f) /\ AudioPacket(f)
Push == PushLoad \/ PushStore \/ PushMax
Next == Receive \/ Push

Spec == Init /\ [][Next]_vars

TypeOK ==
  /\ prev \in SeqNums /\ startup \in BOOLEAN
  /\ push.at \in {"idle", "load", "store", "max"} /\ push.seq \in SeqNums /\ push.count \in Nat
  /\ {stats.genReceived, stats.seqReceived} \subseteq Nat /\ stats.genLost \in Int
  /\ {stats.seqMin, stats.seqMax} \subseteq SeqNums
  /\ newest \in 0 .. MaxFrame /\ played \in 0 .. MaxFrame

(***************************************************************************)
(* Properties                                                              *)
(***************************************************************************)

\* Whatever is lost, late or repeated, and however often a copy comes, the
\* sink gets frames in their order and none twice, across the wrap
\* (audioreceiver.c:101, :116).
FramesInOrder ==
  [][\A i \in DOMAIN heard' :
       /\ heard'[i] > played
       /\ \A j \in 1 .. i - 1 : heard'[j] < heard'[i]]_<<rxVars, heard, push>>

\* The sink has always played the newest frame that came: no late packet and
\* no wrap makes the receiver deaf (audioreceiver.c:116).
NewestIsPlayed == played = newest
=============================================================================
