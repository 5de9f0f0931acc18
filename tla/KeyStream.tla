------------------------------ MODULE KeyStream ------------------------------
(***************************************************************************)
(* lib/src/gkcrypt.c for the keys of received packets: the position of a   *)
(* packet in the key stream, of which the packet carries the low 32 bits,  *)
(* the MAC key that position calls for, and the ring of key stream that a  *)
(* thread of its own keeps filled ahead of the packets.  The Takion thread *)
(* is the only reader.  Positions count blocks of 16 bytes; the content of *)
(* a slot of the ring is the counter its key stream was made from, an int: *)
(* from 2^31 blocks on it is no longer the position.                       *)
(*                                                                         *)
(* The lock key_buf_mutex is held from one waiting point to the next, so   *)
(* an action is what a thread does under it; the chunk is generated        *)
(* without the lock, into slots no reader may look at.                     *)
(***************************************************************************)
EXTENDS SeqNum, Gmac

CONSTANTS
  Chunk,      \* blocks of a chunk (KEY_BUF_CHUNK_SIZE)
  Chunks,     \* chunks of the ring (key_buf_chunks)
  IntHalf,    \* 2^31: the first counter an int does not hold
  MaxLength,  \* the longest request in blocks (a bound)
  MaxPos      \* the last position used by the console (a bound)

KeyStreamAssumption ==
  /\ {Chunk, Chunks, MaxLength, IntHalf} \subseteq Nat \ {0} /\ MaxPos \in Nat

VARIABLES
  prev,       \* ChiakiKeyState: the last authentic position
  buf, populated, min, start, last,   \* the ring, and last_key_pos
  thread,     \* gkcrypt_thread_func: waits, is to look again, generates, ended
  signal,     \* the reader is about to signal key_buf_cond
  stop,       \* key_buf_thread_stop
  mac,        \* key_gmac_index_current
  used        \* the last packet: its position, and what it was opened with

ringVars == <<buf, populated, min, start>>
vars == <<prev, ringVars, last, thread, signal, stop, mac, used>>

Size == Chunk * Chunks
Slots == 0 .. Size - 1
Positions == 0 .. MaxPos
Low(pos) == pos % SeqSpace

(***************************************************************************)
(* Positions                                                               *)
(***************************************************************************)

\* chiaki_key_state_request_pos
RequestPos(low) ==
  LET prevLow == Low(prev)
      high    == prev - prevLow
  IN  CASE SeqGt(low, prevLow) /\ low < prevLow            -> high + SeqSpace + low
        [] SeqLt(low, prevLow) /\ low > prevLow /\ high > 0 -> high - SeqSpace + low
        [] OTHER                                           -> high + low

(***************************************************************************)
(* Key stream                                                              *)
(***************************************************************************)

\* The cast of a count of blocks to int, which wraps.
Int32(b) == ((b + IntHalf) % (2 * IntHalf)) - IntHalf
Garbage == -(IntHalf + 1)    \* no counter

\* chiaki_gkcrypt_gen_key_stream: the counter of the i-th block from pos on, the
\* first being 0.  counter_offset++ beyond the largest int is undefined: it wraps
\* or, kept in a wider register, does not.
Counter(pos, i, wraps) == IF wraps THEN Int32(Int32(pos) + i) ELSE Int32(pos) + i

(***************************************************************************)
(* The ring                                                                *)
(***************************************************************************)
ShouldGenerate(l) == 2 * l > 2 * min + populated

InRing(pos, n) == pos >= min /\ pos + n < min + populated
Slot(pos) == (pos - min + start) % Size

\* chiaki_gkcrypt_get_key_stream: from the ring if it is there, else generated
\* on the spot.
Stream(pos, n, wraps) ==
  [i \in 0 .. n - 1 |-> IF InRing(pos, n) THEN buf[Slot(pos + i)] ELSE Counter(pos, i, wraps)]

\* takion_handle_packet_mac and av_packet_parse, then chiaki_gkcrypt_decrypt of
\* n blocks behind the header's.  The MAC verifies if the packet is undamaged
\* and the key and the position are those the console used.
Authentic(pos) ==
  /\ prev' = pos
  /\ \E n \in 1 .. MaxLength, wraps \in BOOLEAN :
       LET from == RequestPos(Low(pos)) + 1
           l    == IF from + n > last THEN from + n ELSE last
       IN  /\ last' = l
           /\ signal' = ShouldGenerate(l)
           /\ used' = [pos |-> pos, mac |-> MacKey(mac, RequestPos(Low(pos))),
                       stream |-> Stream(from, n, wraps)]
  /\ mac' = NewCurrent(mac, RequestPos(Low(pos)))
  /\ UNCHANGED <<ringVars, thread, stop>>

\* Broken variant: the position is remembered before the packet is known to be
\* authentic.
DamagedCommits(low) ==
  /\ prev' = RequestPos(low)
  /\ mac' = NewCurrent(mac, RequestPos(low))
  /\ UNCHANGED <<ringVars, last, thread, signal, stop, used>>

\* The MAC does not verify; the current MAC key moves on all the same.
Damaged(low) ==
  /\ mac' = NewCurrent(mac, RequestPos(low))
  /\ UNCHANGED <<prev, ringVars, last, thread, signal, stop, used>>

\* Packets are late or ahead by less than half the low numbers.
Receive ==
  /\ ~signal /\ ~stop
  /\ \/ \E pos \in Positions : pos - used.pos < Half /\ used.pos - pos < Half /\ Authentic(pos)
     \/ \E low \in SeqNums : Damaged(low)

\* chiaki_cond_signal: the thread looks again; without a waiter it is lost.
Wake == IF thread = "waits" THEN "looks" ELSE thread

Signal ==
  /\ signal
  /\ signal' = FALSE /\ thread' = Wake
  /\ UNCHANGED <<prev, ringVars, last, stop, mac, used>>

\* chiaki_gkcrypt_fini, by the session thread once no packet is received.
Fini ==
  /\ ~stop /\ ~signal
  /\ stop' = TRUE /\ thread' = Wake
  /\ UNCHANGED <<prev, ringVars, last, signal, mac, used>>

(***************************************************************************)
(* gkcrypt_thread_func                                                     *)
(***************************************************************************)

\* Broken variant: only a ring that is not full calls for work.
MustRefill == stop \/ populated < Size

\* key_buf_mutex_pred
MustWork == stop \/ populated < Size \/ ShouldGenerate(last)

ThreadWaits ==
  /\ thread = "looks" /\ ~MustWork
  /\ thread' = "waits"
  /\ UNCHANGED <<prev, ringVars, last, signal, stop, mac, used>>

ThreadStops ==
  /\ thread = "looks" /\ stop
  /\ thread' = "ended"
  /\ UNCHANGED <<prev, ringVars, last, signal, stop, mac, used>>

\* Broken variant: the oldest chunk stays readable while it is replaced.
MakeRoomLate ==
  IF last > min + populated
  THEN min' = (last \div Chunk) * Chunk /\ start' = 0 /\ populated' = 0
  ELSE IF populated = Size
  THEN /\ start' = (start + Chunk) % Size
       /\ UNCHANGED <<min, populated>>
  ELSE UNCHANGED <<min, start, populated>>

\* Skip ahead if the packets are beyond the ring, else give up the oldest chunk.
MakeRoom ==
  IF last > min + populated
  THEN min' = (last \div Chunk) * Chunk /\ start' = 0 /\ populated' = 0
  ELSE IF populated = Size
  THEN /\ start' = (start + Chunk) % Size
       /\ min' = min + Chunk /\ populated' = populated - Chunk
  ELSE UNCHANGED <<min, start, populated>>

\* gkcrypt_generate_next_chunk up to its unlock: the slots are being written.
NextSlots(p, s) == {(s + p + i) % Size : i \in 0 .. Chunk - 1}

GenerateBegins ==
  /\ thread = "looks" /\ ~stop /\ MustWork
  /\ MakeRoom
  /\ buf' = [s \in Slots |-> IF s \in NextSlots(populated', start') THEN Garbage ELSE buf[s]]
  /\ thread' = "generates"
  /\ UNCHANGED <<prev, last, signal, stop, mac, used>>

\* Its end: AES succeeded and the lock is held again.
GenerateEnds ==
  /\ thread = "generates"
  /\ \E wraps \in BOOLEAN :
       buf' = [s \in Slots |->
                 IF s \in NextSlots(populated, start)
                 THEN Counter(min + populated, (s - start - populated) % Size, wraps)
                 ELSE buf[s]]
  /\ populated' = populated + Chunk
  /\ thread' = "looks"
  /\ UNCHANGED <<prev, min, start, last, signal, stop, mac, used>>

\* AES failed: the thread ends, the ring stays as it is.
GenerateFails ==
  /\ thread = "generates"
  /\ thread' = "ended"
  /\ UNCHANGED <<prev, ringVars, last, signal, stop, mac, used>>

Done == thread = "ended" /\ stop /\ UNCHANGED vars

\* chiaki_gkcrypt_init
Init ==
  /\ prev = 0
  /\ buf = [s \in Slots |-> Garbage]
  /\ populated = 0 /\ min = 0 /\ start = 0 /\ last = 0
  /\ thread = "looks" /\ signal = FALSE /\ stop = FALSE /\ mac = 0
  /\ used = [pos |-> 0, mac |-> 0, stream |-> [i \in 0 .. 0 |-> 1]]

ThreadStep == ThreadWaits \/ ThreadStops \/ GenerateBegins \/ GenerateEnds
Next == Receive \/ Signal \/ Fini \/ ThreadStep \/ GenerateFails \/ Done

Spec == Init /\ [][Next]_vars
FairSpec == Spec /\ WF_vars(ThreadStep) /\ WF_vars(Signal)

(***************************************************************************)
(* Properties                                                              *)
(***************************************************************************)
TypeOK ==
  /\ prev \in Positions /\ last \in Nat /\ min \in Nat
  /\ buf \in [Slots -> Int]
  /\ populated \in 0 .. Size /\ start \in Slots
  /\ thread \in {"looks", "waits", "generates", "ended"}
  /\ signal \in BOOLEAN /\ stop \in BOOLEAN /\ mac \in Nat

\* Every packet is authenticated with the key of its position and decrypted with
\* the key stream that follows it: whatever came late, early or damaged before,
\* however positions wrap, and whatever the thread is writing at that moment
\* (gkcrypt.c:295-325, :364-372, :484-493, :551-563).  Not so for blocks whose
\* counter an int does not hold (gkcrypt.c:247), from 2^31 blocks or 32 GiB on.
OpenedRight ==
  /\ used.mac = KeyIndex(used.pos)
  /\ \A i \in DOMAIN used.stream :
       used.pos + 1 + i < IntHalf => used.stream[i] = used.pos + 1 + i

\* The ring holds the stream from min on, as far as the counters are right, the
\* assertion of gkcrypt.c:479 holds and the slots a chunk goes to are none of
\* those that are readable.
RingHolds ==
  /\ TypeOK
  /\ \A i \in 0 .. populated - 1 : min + i < IntHalf => buf[(start + i) % Size] = min + i
  /\ thread = "generates" => populated + Chunk <= Size

\* The thread does not sleep through a request: it gets ahead of the last one,
\* or it ends (gkcrypt.c:327: the signal comes after the unlock).
RingCatchesUp == ShouldGenerate(last) ~> (~ShouldGenerate(last) \/ thread = "ended")
=============================================================================
