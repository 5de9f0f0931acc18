---------------------------- MODULE VideoReceiver ----------------------------
(***************************************************************************)
(* lib/src/videoreceiver.c with its frame processor, lib/src/              *)
(* frameprocessor.c: how the units of video frames, which Takion hands     *)
(* over in the order the network delivers them, become samples for the     *)
(* decoder.  A frame is sent as `total` units, `fec` of them redundant;    *)
(* packets are lost, repeated and late, and some are not what they should  *)
(* be.  A frame whose first packet cannot be taken at its word leaves the  *)
(* frame processor with the slots of an earlier frame, and the code goes   *)
(* on: what it may do then, up to the point where memory that is not its   *)
(* own is touched and C says nothing more, is in the model.                *)
(*                                                                         *)
(* The number a packet carries is its frame modulo SeqSpace.  Frames are   *)
(* counted without wrapping (`frame`) only to say what the receiver does   *)
(* with them; the code's own variables are rx and fp.                      *)
(***************************************************************************)
EXTENDS PacketStats, Sequences, FiniteSets

CONSTANTS
  MaxFrame,   \* the last frame the console sends (a bound)
  TotalOf,    \* units of each frame
  FecOf,      \* redundant units of each frame
  ProfileOf,  \* adaptive_stream_index of each frame's packets
  Profiles,   \* profiles_count of the stream info
  MaxSlots,   \* UNIT_SLOTS_MAX: 256
  Flaws       \* what is wrong with units of each frame, as pairs of unit and flaw

Frames == 0 .. MaxFrame

VideoAssumption ==
  /\ MaxFrame \in Nat /\ Profiles \in Nat /\ MaxSlots \in Nat
  /\ TotalOf \in [Frames -> Nat \ {0}] /\ FecOf \in [Frames -> Nat]
  /\ \A f \in Frames : FecOf[f] < TotalOf[f]
  /\ ProfileOf \in [Frames -> Nat]

VARIABLES
  ground,  \* whose the slots are: the current frame's, or those of an earlier one
           \* ("stale"), until other memory than theirs is touched ("undefined")
  rx,      \* ChiakiVideoReceiver: profiles count, current profile, frame numbers
  fp,      \* ChiakiFrameProcessor: units expected and received, unit slots
  frame,   \* the frame rx.cur stands for
  whole,   \* frames handed over completely
  reported,\* frames reported as corrupt to the console
  stats,   \* ChiakiPacketStats, shared with the audio receiver
  last,    \* the last frame handed over in whatever state
  out      \* what the last packet made the receiver hand over

vars == <<ground, rx, fp, stats, frame, whole, reported, last, out>>

Nobody == -1
Index(f) == f % SeqSpace
Source(f) == TotalOf[f] - FecOf[f]
Fec(f) == IF FecOf[f] < 1 THEN 1 ELSE FecOf[f]
Filled(p) == {u \in DOMAIN p.slots : p.slots[u] # Nobody}
Size(p) == Cardinality(DOMAIN p.slots)

\* A packet may claim more redundant units than units, be empty or of one byte,
\* or name a padding larger than a unit.  2 is every size that is large enough.
Flawed(f, u, flaw) == <<u, flaw>> \in Flaws[f]
DataSize(f, u) == IF Flawed(f, u, "empty") THEN 0 ELSE IF Flawed(f, u, "byte") THEN 1 ELSE 2

\* What the model leaves open: which allocation fails, and the outcome of what the
\* code does not define.
Lucks == {"good", "bad", "no slots", "no buffer"}

(***************************************************************************)
(* Frame processor.  A slot remembers the frame its unit came from.        *)
(***************************************************************************)
FpInit == [source |-> 0, fec |-> 0, gotSource |-> 0, gotFec |-> 0,
           slots |-> [u \in {} |-> Nobody], size |-> 0, flushed |-> TRUE]

\* Why alloc_frame returns early: counts that cannot be, a unit without a size,
\* too many slots, no memory for them.
BadCounts(f, u) == Flawed(f, u, "counts")
TooSmall(f, u) == DataSize(f, u) < (IF u < Source(f) THEN 2 ELSE 1)
TooMany(f) == Source(f) + Fec(f) > MaxSlots
NoSlots(p, f, luck) == luck = "no slots" /\ Source(f) + Fec(f) # Size(p)
Allocates(p, f, u, luck) ==
  ~BadCounts(f, u) /\ ~TooSmall(f, u) /\ ~TooMany(f) /\ ~NoSlots(p, f, luck)

Expect(p, f, u) ==
  [p EXCEPT !.source = Source(f), !.fec = Fec(f), !.size = DataSize(f, u), !.flushed = FALSE]
Cleared(p, f, u, slots) ==
  [Expect(p, f, u) EXCEPT !.gotSource = 0, !.gotFec = 0, !.slots = slots]
Empty(n) == [u \in 0 .. n - 1 |-> Nobody]

\* Broken variant: slots that already have the right number are not cleared.
AllocFrameKeepingSlots(p, f, u, luck) ==
  CASE BadCounts(f, u)                  -> p
    [] TooSmall(f, u)                   -> Expect(p, f, u)
    [] Source(f) + Fec(f) = Size(p)     -> Cleared(p, f, u, p.slots)
    [] OTHER                            -> Cleared(p, f, u, Empty(Source(f) + Fec(f)))

\* chiaki_frame_processor_alloc_frame.  Nobody looks at what it returns.
AllocFrame(p, f, u, luck) ==
  CASE Allocates(p, f, u, luck)         -> Cleared(p, f, u, Empty(Source(f) + Fec(f)))
    [] BadCounts(f, u)                  -> p
    [] ~BadCounts(f, u) /\ TooSmall(f, u) -> Expect(p, f, u)
    [] ~BadCounts(f, u) /\ ~TooSmall(f, u) /\ TooMany(f) -> Cleared(p, f, u, p.slots)
    [] OTHER                            -> Cleared(p, f, u, Empty(0))

\* Whose the slots are then.  Without a buffer the unit is written to no memory.
Ground(p, f, u, luck) ==
  IF ~Allocates(p, f, u, luck) THEN "stale" ELSE IF luck = "no buffer" THEN "undefined" ELSE "own"

\* chiaki_frame_processor_put_unit
Refuses(p, u, f) == u > Size(p) \/ DataSize(f, u) = 0 \/ DataSize(f, u) > p.size

\* The number past the slots is let through; and units of too many may not fit
\* a buffer that was made for an earlier frame.
Outside(p, u, f, luck) ==
  /\ ~Refuses(p, u, f)
  /\ \/ u = Size(p)
     \/ p.slots[u] = Nobody /\ p.source + p.fec > MaxSlots /\ luck = "bad"

Put(p, u, f) ==
  [p EXCEPT !.slots[u] = f,
            !.gotSource = IF u < p.source THEN @ + 1 ELSE @,
            !.gotFec = IF u < p.source THEN @ ELSE @ + 1]

PutUnit(p, u, f) ==
  IF ~Refuses(p, u, f) /\ u \in DOMAIN p.slots /\ p.slots[u] = Nobody THEN Put(p, u, f) ELSE p

\* chiaki_frame_processor_report_packet_stats
ReportStats(s, p) ==
  LET received == p.gotSource + p.gotFec
  IN  PushGeneration(s, received, p.source + p.fec - received)

FlushPossible(p) == p.gotSource + p.gotFec >= p.source

\* chiaki_frame_processor_fec and chiaki_fec_decode: the missing units can be
\* computed when there are at most as many as redundant ones, and memory for it.
\* More of them than were counted are an error; with fewer, which the assertion
\* erasure_index == erasures_count rules out where it is compiled in, the result
\* is open.
Erasures(p) == p.source + p.fec - (p.gotSource + p.gotFec)
Missing(p) == Cardinality((0 .. p.source + p.fec - 1) \ Filled(p))
FecDecodes(p, luck) ==
  /\ Missing(p) <= Erasures(p) /\ luck # "bad"
  /\ Missing(p) = Erasures(p) => Missing(p) <= p.fec

\* The sizes of the missing units are restored, but not the counts; a padding
\* larger than a unit leaves its slot empty.
Restored(p, f) ==
  [p EXCEPT !.slots =
     [u \in DOMAIN p.slots |->
        IF u < p.source /\ p.slots[u] = Nobody /\ ~Flawed(f, u, "padding") THEN f ELSE p.slots[u]]]

\* chiaki_frame_processor_flush
FlushResult(p, luck) ==
  CASE p.source = 0 \/ p.flushed  -> "failed"
    [] p.gotSource >= p.source    -> "success"
    [] FecDecodes(p, luck)        -> "fec_success"
    [] OTHER                      -> "fec_failed"

\* It looks at the slots of all units if it attempts FEC.
LooksAt(p) == IF p.gotSource >= p.source THEN p.source ELSE p.source + p.fec

(***************************************************************************)
(* Video receiver.  One packet may flush the last frame and its own; s is  *)
(* the receiver's state between these steps.                               *)
(***************************************************************************)
Sample(s, result, taken) ==
  [frame |-> s.frame, ok |-> result # "fec_failed" /\ taken, header |-> s.rx.profile,
   own |-> s.ground = "own",
   from |-> {s.fp.slots[u] : u \in {v \in Filled(s.fp) : v < s.fp.source}},
   missing |-> Missing(s.fp), erasures |-> Erasures(s.fp), fec |-> s.fp.fec]

\* chiaki_video_receiver_flush_frame; taken is what the decoder's callback returns.
FlushFrame(s, taken, luck) ==
  LET result == FlushResult(s.fp, luck)
      sample == Sample(s, result, taken)
  IN  IF result = "failed" THEN s
      ELSE IF LooksAt(s.fp) > Size(s.fp) THEN [s EXCEPT !.ground = "undefined"]
      ELSE [s EXCEPT !.out = Append(@, sample),
                     !.fp = IF result = "fec_success" THEN Restored(@, s.frame) ELSE @,
                     !.rx.prev = s.rx.cur,
                     !.rx.complete = IF sample.ok THEN s.rx.cur ELSE @]

\* Lines 64-80: the header of a new profile goes to the decoder at once.
SwitchProfile(s, p) == [s EXCEPT !.rx.profile = p]

\* Broken variant: counted from the last frame handed over in whatever state.
CorruptBeforePrev(s, f) ==
  LET expected == Cast((IF s.rx.prev < 0 THEN 0 ELSE s.rx.prev) + 1)
  IN  IF ~SeqGt(Index(f), expected) THEN {}
      ELSE {g \in Frames : g < f /\ f - g <= Dist(expected, Index(f))}

\* Frames from rx.complete + 1 up to the one before f, as the console will
\* understand the numbers of stream_connection_send_corrupt_frame.
CorruptBefore(s, f) ==
  LET expected == Cast(s.rx.complete + 1)
  IN  IF ~SeqGt(Index(f), expected) THEN {}
      ELSE {g \in Frames : g < f /\ f - g <= Dist(expected, Index(f))}

\* Lines 82-103
NextFrame(s, f, u, taken, luck) ==
  IF s.rx.cur >= 0 /\ ~SeqGt(Index(f), s.rx.cur) THEN s
  ELSE LET t == IF s.rx.cur >= 0 /\ s.rx.prev # s.rx.cur THEN FlushFrame(s, taken, luck) ELSE s
       IN  IF t.ground = "undefined" THEN t
           ELSE [t EXCEPT !.stats = ReportStats(@, s.fp), !.reported = @ \cup CorruptBefore(t, f),
                          !.rx.cur = Index(f), !.frame = f,
                          !.fp = AllocFrame(@, f, u, luck), !.ground = Ground(t.fp, f, u, luck)]

\* Broken variant: a frame that was flushed already is flushed again.
CollectAgain(s, u, f, taken, luck) ==
  LET t == [s EXCEPT !.fp = PutUnit(s.fp, u, f)]
  IN  IF FlushPossible(t.fp) THEN FlushFrame(t, taken, luck) ELSE t

\* Lines 105-113
Collect(s, u, f, taken, luck) ==
  LET t == [s EXCEPT !.fp = PutUnit(s.fp, u, f)]
  IN  IF s.ground = "undefined" \/ Outside(s.fp, u, f, luck) THEN [s EXCEPT !.ground = "undefined"]
      ELSE IF t.rx.cur # t.rx.prev /\ FlushPossible(t.fp) THEN FlushFrame(t, taken, luck)
      ELSE t

Max2(a, b) == IF a > b THEN a ELSE b

\* What the receiver makes of a packet it does not refuse.
Handled(f, u, taken, luck) ==
  LET s == [ground |-> ground, rx |-> rx, fp |-> fp, stats |-> stats, frame |-> frame,
            reported |-> reported, out |-> <<>>]
  IN  Collect(NextFrame(SwitchProfile(s, ProfileOf[f]), f, u, taken, luck), u, f, taken, luck)

\* chiaki_video_receiver_av_packet
Accept(s) ==
  /\ s.ground # "undefined"
  /\ ground' = s.ground /\ rx' = s.rx /\ fp' = s.fp /\ stats' = s.stats /\ frame' = s.frame
  /\ reported' = s.reported /\ out' = s.out
  /\ whole' = whole \cup {s.out[i].frame : i \in {j \in DOMAIN s.out : s.out[j].ok}}
  /\ last' = IF s.out = <<>> THEN last ELSE s.out[Len(s.out)].frame

\* Other memory was touched.
Lose(s) ==
  /\ s.ground = "undefined"
  /\ ground' = "undefined" /\ out' = <<>>
  /\ UNCHANGED <<rx, fp, stats, frame, whole, reported, last>>

Old(f) == rx.cur >= 0 /\ SeqLt(Index(f), rx.cur)

BadProfile(f) == rx.profile # ProfileOf[f] /\ ProfileOf[f] >= rx.profiles

Ignore ==
  /\ out' = <<>>
  /\ UNCHANGED <<ground, rx, fp, stats, frame, whole, reported, last>>

\* What the network may deliver: a packet is late by less than half the
\* numbers, and a whole frame has come within half the numbers.
LastWhole == IF whole = {} THEN 0 ELSE CHOOSE f \in whole : \A g \in whole : g <= f
Deliverable(f) ==
  /\ f > 0 => frame - f < Half
  /\ f - Max2(frame, 0) < Half
  /\ f - LastWhole <= Half

AvPacket ==
  \E f \in Frames \ {0}, taken \in BOOLEAN, luck \in Lucks :
    /\ Deliverable(f)
    /\ \E u \in 0 .. TotalOf[f] - 1 :
       IF Old(f) \/ BadProfile(f) THEN Ignore
       ELSE LET s == Handled(f, u, taken, luck) IN Accept(s) \/ Lose(s)

\* chiaki_video_receiver_stream_info: profiles are set once.
StreamInfo ==
  /\ rx' = IF rx.profiles > 0 THEN rx ELSE [rx EXCEPT !.profiles = Profiles]
  /\ out' = <<>>
  /\ UNCHANGED <<ground, fp, stats, frame, whole, reported, last>>

\* chiaki_video_receiver_init
Init ==
  /\ ground = "own"
  /\ rx = [profiles |-> 0, profile |-> -1, cur |-> -1, prev |-> -1, complete |-> 0]
  /\ fp = FpInit /\ stats = StatsInit
  /\ frame = 0 /\ whole = {} /\ reported = {} /\ last = 0 /\ out = <<>>

Next == ground # "undefined" /\ (AvPacket \/ StreamInfo)

Spec == Init /\ [][Next]_vars

TypeOK ==
  /\ rx \in [profiles : {0, Profiles}, profile : -1 .. Profiles, cur : -1 .. SeqSpace - 1,
             prev : -1 .. SeqSpace - 1, complete : SeqNums]
  /\ {fp.source, fp.fec, fp.gotSource, fp.gotFec} \subseteq Nat /\ fp.size \in 0 .. 2
  /\ fp.slots \in [DOMAIN fp.slots -> Frames \cup {Nobody}] /\ fp.flushed \in BOOLEAN
  /\ ground \in {"own", "stale", "undefined"}
  /\ frame \in Frames /\ whole \subseteq Frames /\ reported \subseteq Frames /\ last \in Frames
  /\ \A i \in DOMAIN out : out[i].frame \in Frames

(***************************************************************************)
(* Properties                                                              *)
(***************************************************************************)

\* Whatever is lost, late, repeated or wraps around, frames reach the decoder
\* in the order the console made them and none twice (videoreceiver.c:57, :90,
\* :108).
SamplesInOrder ==
  [][\A i \in DOMAIN out' :
       /\ out'[i].frame > last
       /\ \A j \in 1 .. i - 1 : out'[j].frame < out'[i].frame]_<<rx, fp, out>>

\* A sample is made of units of its own frame only, and one that counts as decoded
\* lacks no more units than redundancy can replace (frameprocessor.c:127); those
\* missing are as many as were counted (the assertion of frameprocessor.c:227),
\* and the decoder was given the header of the frame's profile last
\* (videoreceiver.c:79).  Not so of a frame whose slots could not be allocated.
SamplesAreWhole ==
  \A i \in DOMAIN out :
    out[i].own =>
      /\ out[i].from \subseteq {out[i].frame} /\ out[i].missing = out[i].erasures
      /\ out[i].ok => out[i].missing <= out[i].fec /\ out[i].header = ProfileOf[out[i].frame]

\* The frames reported to the console as corrupt are exactly those before the
\* current one that were not decoded (videoreceiver.c:93-98).
CorruptIsReported == reported = (1 .. frame - 1) \ whole

\* The units counted are the slots filled, until the frame is handed over; those
\* that FEC restored are not counted, not even when they come late.  So expected -
\* received of frameprocessor.c:195 is not negative, unless the slots are those
\* of an earlier frame.
UnitsCounted ==
  LET source == Cardinality({u \in Filled(fp) : u < fp.source})
      fec == Cardinality({u \in Filled(fp) : u >= fp.source})
  IN  /\ ground = "own" => /\ fp.gotFec = fec /\ fp.gotSource <= source
                           /\ rx.prev # rx.cur => fp.gotSource = source
                           /\ fp.gotSource + fp.gotFec <= fp.source + fp.fec
      /\ TypeOK

=============================================================================
