------------------------------ MODULE AudioRing ------------------------------
(***************************************************************************)
(* Decoded audio on Android (audio-output.cpp): the decoder's output       *)
(* thread pushes frames into a CircularBuffer, and the audio device's      *)
(* callback pops what it asks for.  The buffer (circular-buf.hpp) is cut   *)
(* into chunks that travel between two lock-free queues with one producer  *)
(* and one consumer each (circular-fifo.hpp): "free" ones are filled by    *)
(* the decoder and go to "full", where the device takes them.  Bytes are   *)
(* numbered in the order they are pushed.                                  *)
(***************************************************************************)
EXTENDS Integers, Sequences, FiniteSets

CONSTANTS
  ChunksCount, ChunkSize,   \* of the buffer, 32 and 1024 in the code
  Frames,                   \* sizes of frames and of the device's requests
  MaxPushed                 \* bound on the bytes pushed

VARIABLES
  output,   \* the stream to the device: "closed" or "open"
  slot,     \* of each queue, the array: chunks
  head, tail,  \* of each queue, the two indices
  mem,      \* the bytes of each chunk
  rstep,    \* of the two threads, what they do
  todo,     \* bytes that their call still has to move
  chunk,    \* push_chunk and pop_chunk
  done,     \* bytes of that chunk filled, or taken
  pushed,   \* number of bytes pushed so far
  popped,   \* the bytes popped so far
  aborted   \* an assertion has failed

\* FrontEnds assumes it.
RingAssumption == {ChunksCount, ChunkSize} \subseteq Nat \ {0} /\ Frames \subseteq Nat

ringVars == <<output, slot, head, tail, mem, rstep, todo, chunk, done, pushed, popped, aborted>>

Threads == {"push", "pop"}
Chunks == 0..ChunksCount - 1
None == -1
From(t) == IF t = "push" THEN "free" ELSE "full"
To(t) == IF t = "push" THEN "full" ELSE "free"

\* As if the array had a place for each chunk and none to tell full from empty.
NextShort(i) == (i + 1) % ChunksCount
\* CircularFifo has one place more than it holds (Capacity = Size + 1).
NextPlace(i) == (i + 1) % (ChunksCount + 1)

RingInit ==
  /\ output = "closed"
  /\ slot = [q \in {"free", "full"} |-> [i \in 0..ChunksCount |-> IF q = "free" THEN NextPlace(i) ELSE 0]]
  /\ head = [q \in {"free", "full"} |-> 0]
  /\ tail = [q \in {"free", "full"} |-> IF q = "free" THEN ChunksCount - 1 ELSE 0]
  /\ mem = [c \in Chunks |-> <<>>]
  /\ rstep = [t \in Threads |-> "idle"] /\ todo = [t \in Threads |-> 0]
  /\ chunk = [t \in Threads |-> IF t = "push" THEN 0 ELSE None]
  /\ done = [t \in Threads |-> 0]
  /\ pushed = 0 /\ popped = <<>> /\ aborted = FALSE

\* A header opens the stream, which asks for data from then on.
Settings == output' = "open" /\ UNCHANGED <<slot, head, tail, mem, rstep, todo, chunk, done, pushed, popped, aborted>>

\* A frame is pushed, or the device asks for one.
Call(t, n) ==
  /\ rstep[t] = "idle"
  /\ IF t = "push" THEN pushed + n <= MaxPushed ELSE output = "open"
  /\ rstep' = [rstep EXCEPT ![t] = "loop"] /\ todo' = [todo EXCEPT ![t] = n]
  /\ UNCHANGED <<output, slot, head, tail, mem, chunk, done, pushed, popped, aborted>>

Return(t) == rstep' = [rstep EXCEPT ![t] = "idle"] /\ todo' = [todo EXCEPT ![t] = 0]

\* CircularFifo::pop reads both indices and the place at its head ...
Look(t) ==
  /\ rstep[t] = "loop" /\ todo[t] > 0 /\ chunk[t] = None /\ ~aborted
  /\ \/ /\ head[From(t)] = tail[From(t)] /\ Return(t)   \* overflow, or underflow
        /\ UNCHANGED <<chunk, done>>
     \/ /\ head[From(t)] # tail[From(t)]
        /\ chunk' = [chunk EXCEPT ![t] = slot[From(t)][head[From(t)]]]
        /\ done' = [done EXCEPT ![t] = 0]
        /\ rstep' = [rstep EXCEPT ![t] = "taking"] /\ UNCHANGED todo
  /\ UNCHANGED <<output, slot, head, tail, mem, pushed, popped, aborted>>

\* ... and then gives the place up.
Take(t) ==
  /\ rstep[t] = "taking"
  /\ head' = [head EXCEPT ![From(t)] = NextPlace(@)] /\ rstep' = [rstep EXCEPT ![t] = "loop"]
  /\ UNCHANGED <<output, slot, tail, mem, todo, chunk, done, pushed, popped, aborted>>

Least(a, b) == IF a < b THEN a ELSE b

\* memcpy, as much as the call has left and the chunk has room or bytes for.
Copy(t) ==
  LET n == Least(todo[t], ChunkSize - done[t])  all == done[t] + n
  IN /\ rstep[t] = "loop" /\ todo[t] > 0 /\ chunk[t] # None
     /\ done' = [done EXCEPT ![t] = all] /\ todo' = [todo EXCEPT ![t] = @ - n]
     /\ IF t = "push"
        THEN /\ mem' = [mem EXCEPT ![chunk[t]] = SubSeq(@, 1, done[t]) \o [i \in 1..n |-> pushed + i]]
             /\ pushed' = pushed + n /\ UNCHANGED popped
        ELSE /\ popped' = popped \o SubSeq(mem[chunk[t]], done[t] + 1, all)
             /\ UNCHANGED <<mem, pushed>>
     /\ rstep' = [rstep EXCEPT ![t] = IF all = ChunkSize THEN "give" ELSE "loop"]
     /\ UNCHANGED <<output, slot, head, tail, chunk, aborted>>

Given(t) == chunk' = [chunk EXCEPT ![t] = None] /\ rstep' = [rstep EXCEPT ![t] = "loop"]

HasRoom(q) == NextPlace(tail[q]) # head[q]

\* A full or empty chunk is given on.  CircularFifo::push writes the place at its tail, if that is not the last ...
Give(t) ==
  /\ rstep[t] = "give"
  /\ IF HasRoom(To(t))
     THEN /\ slot' = [slot EXCEPT ![To(t)][tail[To(t)]] = chunk[t]]
          /\ rstep' = [rstep EXCEPT ![t] = "giving"] /\ UNCHANGED <<chunk, aborted>>
     ELSE aborted' = TRUE /\ UNCHANGED <<slot, rstep, chunk>>   \* assert(success)
  /\ UNCHANGED <<output, head, tail, mem, todo, done, pushed, popped>>

\* ... and then publishes it.
Publish(t) ==
  /\ rstep[t] = "giving" /\ Given(t)
  /\ tail' = [tail EXCEPT ![To(t)] = NextPlace(@)]
  /\ UNCHANGED <<output, slot, head, mem, todo, done, pushed, popped, aborted>>

\* The loop ends when everything was moved.
Finish(t) ==
  /\ rstep[t] = "loop" /\ todo[t] = 0 /\ Return(t)
  /\ UNCHANGED <<output, slot, head, tail, mem, chunk, done, pushed, popped, aborted>>

RingStep(t) == Look(t) \/ Take(t) \/ Copy(t) \/ Give(t) \/ Publish(t) \/ Finish(t)

RingNext == Settings \/ (\E t \in Threads : RingStep(t) \/ \E n \in Frames : Call(t, n))

RingSpec == RingInit /\ [][RingNext]_ringVars

RingTypeOK ==
  /\ output \in {"closed", "open"}
  /\ \A q \in {"free", "full"} : {head[q], tail[q]} \subseteq 0..ChunksCount
  /\ \A t \in Threads : chunk[t] \in Chunks \cup {None} /\ done[t] \in 0..ChunkSize

\* What the device plays is what was pushed, byte for byte and in order, with
\* silence where there is nothing yet; and "we should have made the queues big
\* enough" (circular-buf.hpp:93, 128): the assertions of Push and Pop hold.
PlayedInOrder ==
  /\ RingTypeOK /\ ~aborted
  /\ \A i \in DOMAIN popped : popped[i] = i
=============================================================================
