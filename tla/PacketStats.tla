----------------------------- MODULE PacketStats -----------------------------
(***************************************************************************)
(* lib/src/packetstats.c as operators on the value of a ChiakiPacketStats: *)
(* what arrived and what was lost since the last report.  Generations are  *)
(* the units of a video frame; numbered packets are those of audio.  The   *)
(* counters go out in 16 bits; SeqSpace stands for 2^16.                   *)
(***************************************************************************)
EXTENDS SeqNum

\* chiaki_packet_stats_init
StatsInit == [genReceived |-> 0, genLost |-> 0, seqMin |-> 0, seqMax |-> 0, seqReceived |-> 0]

\* reset_stats
ResetStats(s) ==
  [genReceived |-> 0, genLost |-> 0, seqMin |-> s.seqMax, seqMax |-> s.seqMax, seqReceived |-> 0]

\* chiaki_packet_stats_push_generation
PushGeneration(s, received, lost) ==
  [s EXCEPT !.genReceived = @ + received, !.genLost = @ + lost]

\* Broken variant: a maximum below the minimum counts as no difference.
SeqLostUnwrapped(s) ==
  LET diff == IF s.seqMax > s.seqMin THEN s.seqMax - s.seqMin ELSE 0
  IN  IF s.seqReceived > diff THEN diff ELSE diff - s.seqReceived

\* chiaki_packet_stats_get, cut to 16 bits by congestion_control_thread_func.
\* A negative difference becomes a huge unsigned number, which no count exceeds.
SeqLost(s) ==
  LET diff == s.seqMax - s.seqMin
  IN  IF diff >= 0 /\ s.seqReceived > diff THEN diff ELSE diff - s.seqReceived

Received(s) == (s.genReceived + s.seqReceived) % SeqSpace
Lost(s) == (s.genLost + SeqLost(s)) % SeqSpace
=============================================================================
