# Verification of chiaki: session library and front ends

TLA+ specifications of chiaki, a PlayStation remote play client: the protocol library
under `src/chiaki-v2.2.0/lib`, the input, window and discovery code of the Qt GUI
(`gui`, `setsu`), and the streaming code of the Android app. The models follow the code
statement by statement where control is concerned, and abstract data to what the
properties tell apart. `PROJECT.json` maps every definition to the lines it stands for.
Paths below are relative to `src/chiaki-v2.2.0/lib`, those of the front ends to
`src/chiaki-v2.2.0`.

To run: `tlc -config <run>.cfg <module of the run>.tla`, `tlapm <Module>Proofs.tla`.

## The system

A *session* is one thread (`session_thread_func`) that runs four stages one after the
other, each with threads of its own:

    front end ──> session thread ──> request over HTTP (up to 3 attempts)
                       │  state_mutex/state_cond, stop_pipe
                       ├──> ctrl thread     (TCP; session id, login PIN, heartbeat)
                       ├──> senkusha        (measures MTU and RTT; own Takion)
                       └──> stream connection: BIG / BANG / STREAMINFO
                               ├──> Takion thread   (UDP; receive, reorder, ack)
                               │        ├──> video and audio receivers ──> decoders
                               │        └──> resend thread of the send buffer
                               ├──> key stream thread of each gkcrypt
                               ├──> congestion control thread
                               └──> feedback sender thread <── controller state

Discovery and registration are protocols of their own, used by the front ends before
there is a session. Threads talk through mutex-protected flags with condition variables,
through *stop pipes* (a level-triggered token a `select` waits for), and through
callbacks called with or without the caller's mutex. The front ends get callbacks on the
library's threads and carry them to their main thread by queued calls (Qt) or posted
values (Android), of which the last one wins.

### Inventory

| Component | State it keeps | Operations | What is hard | What makes it correct |
|---|---|---|---|---|
| Sequence numbers, `seqnum.h` | none | lt, gt, add of wrapping numbers | wrap, distance of half the space | an order as long as numbers are near |
| Reorder queue, `reorderqueue.c` | ring with `set` flags, `begin`, `count`, drop strategy | push, pull, peek, drop, fini | the ring and the numbers wrap; two loops; stale flags | elements owned once, pulled in order |
| Send buffer, `takionsendbuffer.c` | unacked packets, `should_stop` | push, ack, resend thread, fini | ack before push, senders out of order, lost wakeups, loss | nothing lost or reported too early; drains |
| Takion, `takion.c` | sequence numbers, key positions, postponed packets | connect handshake, receive, send, flush, ack | keys arrive while packets wait; counters under different locks | authenticated once, acked, fresh key stream, ended before freed |
| Session, `session.c` | stage flags, `quit_reason` | start, stop, set PIN, join; the thread | stop in every stage, PIN loop, quit reasons overwritten | ends after a stop, with the right reason |
| Ctrl, `ctrl.c` | receive buffer, message queue, notification pipe | start, stop, join, set PIN, send message; the thread | one pipe for three purposes; nested mutexes | no message or stop forgotten |
| Stream connection, `streamconnection.c` | `state`, `state_finished`, `state_failed`, keys | run, stop, Takion callback | one set of flags for four phases; early exits | threads end in order; CONNECTED only when complete |
| Congestion control, packet statistics | stop flag; 16-bit counters | start, stop; push, get, reset | early exit; wrap, read by another thread | stopped before Takion; the report is exact |
| Feedback sender, `feedback.c` | controller state, history ring | start, set state, fini; thread | loss, changes between two turns | what is held is what the console is told |
| Senkusha | state as the stream connection, bounds of the search | run | late answers to earlier sizes, retries | only sizes the path carries; ends |
| Video receiver, frame processor | frame indices, units of a frame | av packet, stream info, flush | reordering, duplicates, wrap | whole frames, once, in order |
| Audio receiver | previous frame index | av packet | FEC copies, first packet, wrap | newest frame played, none twice |
| GKCrypt, key state | key stream ring, key position, MAC key index | get, gmac, request_key_pos; thread | a thread refills the ring; 32-bit positions | the position the sender meant |
| Discovery service | list of hosts and their last ping | thread, response callback | list compacted while iterated; two reporters | lists who answers |
| Registration, `regist.c`, `http.c` | stop pipe, receive buffer | start, stop; thread | a header cut anywhere; stop in each stage | one right event per run |
| Controllers, Setsu, GUI input | slots, tracking ids, states to merge | events, polls, plug and unplug | devices vanish with keys and fingers down | every down gets its up |
| GUI window | event queue, dialogs, two frames | close, quit, PIN, audio, decode, swap, paint | threads that wait for the main thread | closing ends; whole frames are shown |
| Android stream | activity, dialogs, codecs, surface | resume, pause, reconnect, PIN, surface | posted values, codec threads | user told; no thread outlives its codec |
| Android audio output | two lock-free queues of chunks | push, pop, start, stop | one producer, one consumer, no lock | bytes in order |
| Threads, stop pipe | pthread wrappers | wait with predicate, timeouts | spurious wakeups, timeout arithmetic | a wait ends with its predicate or timeout |

## Modules

Every module has an initial predicate, one action per operation, thread step or
callback, and `Next`. Definitions whose comment begins "Broken variant" are what a bug
would make of the definition after them; the mutants of `PROJECT.json` put them in its
place.

### `SeqNum`, `ReorderQueue`, `OrderedWindow`

`SeqNum` is the arithmetic of `include/chiaki/seqnum.h` at any even width (`SeqSpace` =
2^bits). At distance exactly half neither `SeqLt` nor `SeqGt` holds; the code has this
hole and so has the model.

`ReorderQueue` has one action per outcome of `chiaki_reorder_queue_push`
(`PushDuplicate`, `PushHole`, `PushOld`, `PushAssertFails`, `PushBeyond`, `PushAppend`),
`Pull`, `Drop`, `Fini` and `SetDropStrategy`. `peek` changes nothing. `begin`, `count`,
`queue` and `drop_strategy` are the fields of the struct; `queue[i] = None` stands for a
cleared `set` flag, and a flag that was left behind by `pull` or by the eviction stays
in the model as it does in the ring. The two loops of push appear as the number of their
rounds (`Evicted`, `Grown`), each the least number for which the loop condition fails,
computed with the code's wrapping comparison, not with a distance. `held` is the
contract with the caller: the elements the queue owns. `pulled` and `dropped` are what
the last call returned or handed to `drop_cb`.

`OrderedWindow` is what the header promises, without ring, flags and loops: a partial
map from the numbers of a window to elements, and arrivals told apart by their distance.
`ReorderQueue!ImplementsWindow` is the refinement, with `slots <- ` the entries the ring
shows between `begin` and `end`.

### `SendBuffer`

The buffer (`packets`), the resend thread (`thread`: which wait it is in), `fini`, and
the senders and acks around it. Every critical section of the buffer's mutex is one
step; a sender takes a number, sends, and pushes in three steps, because
`chiaki_takion_send_message_data` holds no lock across them. `AckRound` is one round of
the ack loop with its `memmove`s on the array; `AckResult` is what the loop leaves after
the last, a recursive function; `AckIsFilter` compares it with a filter on every array
of up to `ArrayBound` packets: the k-th packet that is not covered is the k-th that stays.
Time is counted in wakeups of the resend thread. `FiniJoin` waits for the resend thread
only: the Takion thread frees the buffer while senders may be in any place, and one that
pushes then (`PushFreed`) is "undefined" for good. Network and peer are external: they
lose, duplicate, reorder, and acknowledge cumulatively.

### `Takion`, `TakionSend`

`Takion` is the receive side, over an instance of `ReorderQueue` whose elements are
received packets: `Push`, `Pull` and `Fini` are called, not modelled again. `thread` is
where `takion_thread_func` is; each round of its loop is "loop" (the recheck once the
keys are there), "postponed", "recv", and after a data message "flush", one `FlushPull`
per message handed out. Only the Takion thread touches this state, and other threads
reach it through the stop pipe alone, so a packet is received and pushed in one step.
`crypt` is `gkcrypt_remote`, set by the callback of BANG (`StreamConnection!DataBang`).
The console's messages are numbered from 0; `good` is whether a MAC verifies.
`delivered`, `acked` and `av` are history.

`TakionSend` is the send side with the four threads that use it. A data message takes
its span of key stream under `gkcrypt_local_mutex`, its sequence number under
`seq_num_local_mutex`, and its MAC under the first one again: three steps. A feedback
packet does all of it under one lock. The keys appear between two packets of the Takion
thread.

### `KeyStream`, `Gmac`, `CtrlChannel`, `Keys`

`KeyStream` is the receive side of `gkcrypt.c`: the extension of the 32-bit position
(`RequestPos`), the ring of key stream (`buf`, `min`, `start`, `populated`) with the
thread that refills it, and the one reader. A slot's content is the position whose key
stream it holds, or `Garbage` while it is written. The number of a block is an `int`
(`gkcrypt.c:247`): `Counter` is that number after the conversion (`Int32`), and what is
generated beyond `IntHalf` (2^31 blocks) is another block's key stream, or, when the
`int` overflows on the way, anything. `Gmac` is the MAC key's index.
`CtrlChannel` is what the ctrl connection carries: `told` is the console's messages, each
with its place in the stream of bytes, of which the receive buffer holds those from
`consumed` to `arrived`, cut anywhere by `Recv`; `Total` is 8 + payload_size in 32 bits,
and a message whose size wraps (`HandleWrapped`) takes the thread out of its buffer, where
`at` is "undefined"; `local` and `remote` are `crypt_counter_local` and
`crypt_counter_remote`, of which a message takes one only if it has a payload; `queue`
is `msg_queue`, sent with the PIN in `Woken`. `heard` and `said` are history: which
counter each payload was opened and closed with. `Keys` runs `KeyStream` for received
and `TakionSend` for sent packets, or `CtrlChannel`: three directions that share nothing.

### `AvReceiver`, `VideoReceiver`, `AudioReceiver`, `PacketStats`

`VideoReceiver` has the frame processor's slots (`fp`) and the receiver's indices (`rx`).
`alloc_frame` leaves by each of its error returns with what it has set by then, for
packets with a flaw (`Flaws`: counts that cannot be, no or too little data, too large a
padding), too many units and failing allocations (`luck`); nobody looks at its result, so
the code goes on with the slots of an earlier frame. `ground` says whose they are: "own",
"stale", or "undefined" once memory past them was touched, where the model ends.
`Restored` fills the slots of units that FEC has computed, which are not counted. A packet
names its frame modulo `SeqSpace`; `frame`, `whole`, `reported` count without wrapping, to
say what the receiver did. `AudioReceiver` takes the source unit and the copies of a
packet; `push_seq` is cut into the steps between which another thread may reset the
statistics. `PacketStats` is a module of operators. `AvReceiver` composes the receivers
with the congestion thread's report.

### `SideProtocols`: `Discovery`, `Regist`, `Senkusha`

`Discovery` is the service's thread and the receiving thread, with the GUI's list that is
set by queued calls; either thread may end by an error (`ServiceFails`, `ReceiverFails`)
that nobody is told of. `Regist` is the registration's thread and the dialog that stops
and joins it; an answer is a sequence of bytes told apart as `\r`, `\n` and others, cut
into packets at every place, so that the state of `chiaki_recv_http_header` is the code's.
The content's length and the header's are added in a `size_t` (`Total`, modulo
`SizeSpace`); a header longer than the buffer is written past it (`RecvOverflows`), where
`step` is "undefined"; `broken` says that the wait of the sleep failed. `Senkusha` runs
from one wait to the next under `state_mutex`; the answers on their way are a set of
requests they answer, of which the network loses, repeats and delays any; `late` is the
moment between a wait's timeout and the mutex. `SideProtocols` runs one of them.

### `Input`: `Controller`, `FeedbackSender`, `Setsu`

`Controller` are the operators on a controller's state. `Setsu` reads a touchpad:
`finger` is the hardware, `frames` and `udev` what the kernel holds for the next poll,
`slots` the code's. `FeedbackSender` turns the difference of two states into events,
keeps them in the ring and repeats them; `heard` is what the other side makes of it,
losing packets; its thread may end by a failing wait with the sender still active
(`SenderFails`). `Input` is the GUI's main thread, which merges keyboard, game controller
and touchpad, with `ids` the map of tracking ids to touch ids.

### `StreamWindow`, `AndroidStream`, `AudioRing`, `FrontEnds`

`StreamWindow`: the main thread with its event queue (`posted`), nested event loops
(`asking`, `error`, `pinDialog`), the session's thread, the Takion thread that waits in a
blocking call (`sink`), the codec's frames, the uploader thread and the double buffer
(`frames`, `fg`), each frame with its planes, which `Update` fills one by one: one that
cannot be mapped keeps what it had, and puts the frame into `skipped`. `AndroidStream`:
the UI thread, LiveData's one pending value, the library's threads, and the output threads
of both codecs with their mutexes; a codec may have no buffer left for the end of the
stream, which ends the video thread's join and not the audio one's. `AudioRing`: both
sides of the two queues, one step per access of an index. Qt, Android, the codecs and the
library behind them are external here. `FrontEnds` runs one of them.

### `SessionCtrl`

The session thread, the ctrl thread and the callers of the library, with the two mutexes
`M` (`session->state_mutex`) and `N` (`ctrl->notif_mutex`). A thread that blocks or
calls out while it holds a mutex keeps it from one step to the next; `MFree` and `NFree`
derive that from the two program counters `s` and `c`. A critical section without such a
point is one step. `notif_pipe` is the token of ctrl's pipe, which the code uses for
stop, PIN and queued messages alike; the session's own pipe is never reset, so
`should_stop` stands for it too. `attempt` and `address` are the loops of the session
request; `failing` is the list of reasons `ctrl_connect` and then `ctrl_thread_func`
pass to `ctrl_failed`, one after the other. `pin_sent` is history, and so is
`unprepared`: ctrl's thread, Senkusha or the keys of the stream could not be set up.

### `StreamConnection`

`chiaki_stream_connection_run` (`run`, `err`), the Takion thread (`takion`) with the
callbacks it runs under `state_mutex`, the threads of congestion control and of the
feedback sender, a user who stops and one who updates the controller state. `sent` are
the messages handed to Takion for the console. `HandleData` is the dispatch of the state;
`HandleEffect` are rumble and trigger effects, handled in every state. It hands to
`SessionCtrl` the fact that `run` returns SUCCESS or CANCELED only after a stop
(`EndIsExplained`), which `SessionCtrl!StreamReasons` uses. The two are not composed by
`INSTANCE`: `run` touches nothing of ctrl, and the product of the state spaces would
check nothing more.

### Composition

What shares state is composed: `Takion` calls `ReorderQueue`, `AvReceiver` the receivers
on one `stats`, `Input` the input's four modules. `Keys`, `SideProtocols` and
`FrontEnds` collect modules that share nothing: a behaviour is of one part while the
others rest in an initial state, so that one run checks them all without a product of
state spaces. The `*Proofs` modules hold the theorems; the `MC*` modules define
constants and symmetry.

## Runs

| Run | Question | Bounds |
|---|---|---|
| `ReorderQueue_safe` | Are elements owned once, kept, and pulled in order, and does the ring implement the window? | ring of 2, numbers 0..15, 3 elements, arrivals at every distance below 8 |
| `ReorderQueue_drop` | (violation) what `drop` leaves behind | same, 0..7 |
| `SendBuffer_safe` | Is every number accounted for once, no wakeup lost, the in-place compaction a filter? Does the buffer drain? | 2 senders, buffer of 2, 3 messages from 14 on (wraps), sends and waits may fail; arrays of up to 5; fini while senders are anywhere |
| `Takion_safe` | Are messages handed out once and in order, acked, checked once the keys are there; do stops and messages get through? | ring of 4, 4 messages from 14 on (wraps), BANG the second, 2 postponed packets |
| `Takion_recheck` | (violation) does the recheck survive a waiting message? | same |
| `Keys_safe` | Is each packet opened with its key stream, and no piece of it used twice; does ctrl cut and count its messages as the console does? | 8 low positions, ring of 2 chunks of 2, positions to 12 of which an int holds those below 12; 4 senders, 4 packets, limit 9; header of 2, buffer of 5, sizes modulo 8, 2 messages each way, both features |
| `AvReceiver_safe` | Are samples whole and in order, corrupt frames reported, the report exact? | numbers modulo 8, 12 video frames of 1, 3 and 4 units with 0 to 2 redundant, one of 5 for 4 slots, 5 with flawed units, any allocation may fail; 11 audio frames with 2 copies |
| `SessionCtrl_safe` | Reasons, tokens, the end of the ctrl thread and of the session | 2 addresses, all answers and messages, PINs, 1 caller, queue of 2 |
| `StreamConnection_safe` | What run returns, in which order threads end, and that they do | finite as it is |
| `SideProtocols_safe` | Is the list right, the answer read and told right, the size carried; do the protocols end? | 3 consoles for 2 places, 1 ping may be missed, 1 answer on its way; every header of up to 4 characters before the blank line's end and one longer than the buffer of 9, lengths modulo 16; sizes 1 to 5, 2 retries |
| `Input_safe` | Is what is held what the console is told? | 4 inputs, 3 slots, 2 touches, history of 2 |
| `FrontEnds_safe` | Whole frames, a told user, no thread left over, bytes in order; do calls and closing end? | 2 video frames of 2 planes, codec of 1, 1 PIN; 2 native sessions; ring of 3 chunks of 2, frames of 1 and 3, 10 bytes |

Why the bounds are enough. A ring of 2 in a space of 16 has every case of push: inside,
hole, beyond by one, beyond by more than the ring, behind, and both wraps; three
elements fill the ring and leave one to push. Three numbers from 14 on cross the wrap of
16. Five packets admit two gaps with runs on both sides of each, the smallest array in
which the compaction moves twice. Four messages with BANG the second put one before it,
one missing after it and one that waits behind the gap, which needs a ring of 4; two
postponed packets are a good and a bad one. One address that fails and one that succeeds
show every leftover reason; three attempts are the code's own constant. One thread that
queues messages suffices for the token, since the callers share no state but the queue
and the pipe; the theorems hold for any number of them. The stream connection has no
parameter but `WaitFails`.

Video frames to 11 pass the wrap at 8 and have each size of frame on both sides of it;
frames 0 and 4 change the profile, and one names a profile that does not exist. A gap of
whole lost frames is below half the number space, as with 16 bits it takes 32768 lost
frames. Each flaw is in a source and, where it matters, in a redundant unit, before and
behind the frames whose slots it leaves in use. Positions to 12 leave and re-enter the
ring and wrap the low part; four packets let each sender be overtaken, and 9 lets
positions run out. With a header of 2 and a buffer of 5, ctrl's messages are one without
payload, one that leaves room, one that fills the buffer, one that never fits and one
whose size wraps; two of them in a row are the fewest of which a part of the second
arrives with the first. The console is a ps5, which encrypts most of its request. Five
sizes make a bisection of three steps and both its ends. A header's blank line is four
characters: strings up to four before its last half have every near miss. Three fingers
for two touches are the first that find no place; four inputs connect, press, replace and
unplug. Two sessions are the one that is left and the one that gets its dialogs. Ten bytes
pass the end of a ring of three chunks, one of which the queue keeps empty; frames of 1
and 3 divide no chunk evenly. Two frames and a codec of one are the fewest with which the
oldest is taken out and one is painted while the other is written; two planes the fewest
of which one can be missed.

`CHECK_DEADLOCK FALSE` is set where the system really may stop: with PINs a ctrl thread
can lose its stop token (below), and session and ctrl can block on each other's mutex
(`session.c:445` takes N under M, `ctrl.c:557` and others take M under N); the user of
`Input` has done what he does; side protocols and front ends end.

### Properties worth knowing

* `QueuedAreHeld`: the elements the ring shows are exactly those the queue owns. A flag
  left by the ring would show up here as an element handed out twice.
* `Accounted`: every sequence number is in exactly one of: a sending thread, the buffer,
  the reported acks, the given-up ones - though acks overtake pushes.
* `CheckedOnceKeyed`: once the Takion thread noticed the keys, no message with a wrong
  MAC is handed out, though one may have entered the queue before them.
* `NoLostWakeup`: the resend thread waits without timeout only over an empty buffer.
* `ReasonIsRight`: every quit has a reason that somebody gave, unless the ctrl thread,
  Senkusha or the keys could not be set up. After the console
  accepted the request, a request reason is still there only if an earlier address or
  attempt left it; the code clears it nowhere, and `session.c:461` then reports it for a
  failing ctrl.
* `TokensAreKept`: a queued message and a stop keep their token, except a stop when a
  PIN took it along: the PIN branch of `ctrl.c:347` resets the pipe and continues
  without looking at `should_stop`. The exception is the code's, not the model's.
* `ConnectedIsComplete`: no phase of the stream connection takes the flags of an earlier
  one for its own, and the console gets BIG, CONTROLLERCONNECTION, STREAMINFOACK and
  heartbeats in this order only. `EndIsExplained`: what asked for a stream disconnects.
* `OpenedRight`: a packet that is late, early or damaged leaves the position of the next
  one as the console meant it, and what decrypts it is never what the thread is
  writing; the positions whose block an `int` does not count are exempt.
  Both ends of the ctrl connection count the same payloads, however the stream is cut,
  whatever fails to be sent, and whatever has no payload.
* `VideoIsRight`: samples are made of their own frame's units, those handed over as
  decoded lack no more than FEC replaces, and the corrupt frames are reported exactly,
  also when packets are flawed or allocations fail; what is in a sample whose slots could
  not be allocated is exempt.
* `ShownIsWhole`: a painted frame is one frame in all its planes, unless one could not be
  mapped, and is not written meanwhile.
* `FreshPackets`: two keyed packets never share key stream, and each MAC is of its
  position's key though senders overtake each other.
* `LossIsExact`: the congestion report equals what is missing, across the wrap of its
  16-bit difference, whenever no packet was late and none is being counted.
* `PathIsTested`: no late answer makes the search accept a size the path does not carry;
  with nothing lost it finds the largest.
* `InputArrives`: once nothing is left to send, the events sent leave exactly those
  buttons, trigger and touches held that some device holds.
* `UserIsTold`: a quit, a PIN request or a failed session has its dialog once the posted
  value was delivered.

### Fairness

Weak fairness for threads that can run, for timeouts (every wait of the session but the
one for a PIN has one, as has every wait of `run` and of senkusha), for event loops, and
for `select` on a readable pipe: the operating system schedules threads and fires
timers. Strong fairness for taking a mutex that is free again and again (`StopCtrl`,
`FiniFeedback`, `StopFeedback`, `StopCongestion`, Android's `SetSurface` and
`VideoOutput`): a thread that blocks in `pthread_mutex_lock` is not passed over forever
by one that releases it between waits. A session that was stopped quits though it may be
busy again and again (`QuitEvent`, `Quit`): that is `SessionEnds` of `SessionCtrl`,
assumed in the front ends. `SendBuffer` assumes of the network that a datagram resent
forever arrives at last, and the same of acks; `Takion` assumes the first of the
console's messages (strong fairness, written out with `MayArrive`, the guard of
`ReceiveData`). Nothing is assumed of the console elsewhere, and a user need never stop,
enter a PIN, answer or send.

### Findings

Two runs end in a violation; each is a disagreement between the code and a line of the
repository, quoted in `PROJECT.json`:

1. `chiaki_reorder_queue_drop` frees an element and leaves its entry set; the loop that
   should reduce `count` never runs (`ReorderQueue_drop`). Its one caller,
   `takion.c:717`, crashes first (2).
2. When the keys arrive while a message waits behind a gap, the recheck of that message
   passes NULL to `peek`, which stores through it (`Takion_recheck`).

Three more are stated as definitions that no run checks, and fail when they are: a
session stopped while ctrl connects reports CTRL_CONNECT_FAILED
(`SessionCtrl!StopIsReported`); a stop while Takion connects leaves the congestion
control thread running over a closed Takion and a stack frame that is gone
(`StreamConnection!CongestionWhileRunning`); a STREAMINFO handled before `run` noticed
the BANG is dropped and later said not to have been received
(`StreamConnection!MissingStreamInfoIsMissing`).

Seen while modelling. What the code does is in the model as it does it, and where it
would break a property, the property exempts it by name; so no run fails when it happens.
Some things are in no model, and said to be so: leaked memory, fields that are only passed
on (`discoverymanager.cpp:134`), `pin_incorrect`, and what the Qt and Kotlin code ignores.
Senkusha's assertion is in the model, but its run has a clock at which no sum is exact.
"Undefined" is where C says nothing of what follows (memory
past a buffer, a freed buffer): the models end there, and the properties say at most what
led there.

Library, session and Takion:

* `thread.c:246` carries nanoseconds only when they exceed 10^9, so a sum of exactly 10^9
  fails with EINVAL and ends the resend thread, after which a lost packet is never sent
  again (`Drains` exempts it), the feedback sender, which is told of changes and sends
  none (`InputArrives` is about a sender that waits), and congestion control; in senkusha
  the assertion at `senkusha.c:379` fails.
* `session.c:410`, `:472`, `:480`, `:494` and `:501` quit while `quit_reason` is still
  NONE: no ctrl thread, no Senkusha or one that was canceled, no random bytes, no ECDH
  (`unprepared`, which `QuitHasReason` exempts).
* A stop that comes while the wait for Takion's connect times out returns TIMEOUT from
  `run` (`streamconnection.c:209-215`: `CHECK_STOP` leaves with the error of the wait),
  which the session reports as an error; `EndIsExplained` says nothing against it.
* `gkcrypt.c:247` holds the number of a block in an `int`: from 2^31 blocks (32 GiB of a
  stream) on packets are decrypted with another block's key stream (`OpenedRight` and
  `RingHolds` exempt these).
* `ctrl.c:298-312` adds 8 to the size of a message in 32 bits; a size of nearly 4 GiB
  wraps, the message counts as whole, and what is taken from the buffer is more than it
  holds (`HandleWrapped`; `RoomIsLeft` says that no other message leads there).
* Messages that the BANG lets go in its own flush are handed out with no MAC check
  (`CheckedOnceKeyed` is about the thread that knows of the keys); packets postponed
  beyond 32, and those still postponed when the thread ends, are leaked (`takion.c:862`
  says that ownership is taken). A repeated message whose ack was lost is not acked again
  (`takion.c:975`; RFC 4960, which `takion.c:30` refers to, wants an ack at once):
  `DeliveredAndAcked` is about messages that are handed out, and says nothing of either.
* The 16-bit adapter of the reorder queue adds without wrapping (`ChiakiSeqNum16` promotes
  to `int`; nothing in `lib/` uses it); at distance exactly half the assertion of push
  fails (the runs and proofs keep arrivals nearer).
* A message queued while ctrl connects cancels the connect; CTRL_CONNECTION_REFUSED is
  always overwritten by CTRL_CONNECT_FAILED; `pin_incorrect` is set from the second
  request on whatever the console said (`session.h:161`, `session.c:433`).
* The Takion thread frees the send buffer when it ends (`takion.c:761`) while `run`, which
  is not told, may still send (`streamconnection.c:366`; `PushFreed`, where `Accounted`
  ends).
* A message whose send fails leaves a hole in the numbers that nothing fills
  (`takion.c:454`; `refused`, which `Drains` exempts).

Receivers and side protocols:

* `flushed` of the frame processor is not set again after a flush; the header of a new
  profile reaches the decoder before the last frame of the old one is flushed.
* The failure of `alloc_frame` is not looked at (`videoreceiver.c:102`). For a packet with
  impossible counts, without data or with too many units, or without memory, the units
  that follow go to the slots of an earlier frame, and it depends on their numbers whether
  memory past them is touched (`ground`; `SamplesAreWhole` and `UnitsCounted` are about
  frames with slots of their own). `put_unit` lets the number just past the slots through
  (`frameprocessor.c:150`).
* FEC fills the slots of the units it restores and does not count them
  (`frameprocessor.c:244-258`): the counts are those of the units received, and a unit
  that comes later is a duplicate (`UnitsCounted` compares both until the frame is handed
  over, and bounds them after).
* Nothing sets senkusha's `should_stop` (`session.c:474` holds `state_mutex` meanwhile);
  the outbound search starts at the inbound size and may never try the highest; an answer
  that comes just as its wait times out is still reported as a timeout.
* Closing the dialog of a registration waits for a TCP connect that cannot be canceled; an
  error of the sleep's `select` is reported as canceled (`regist.c:273-278`; `broken`,
  which `EndIsRight` exempts); the search looks at its timeout before it looks at the stop
  pipe. Both front ends ignore the result of `chiaki_regist_start`.
* The length of a registration's content and the header's are added in a `size_t`
  (`regist.c:582-588`): a length that wraps passes the check, and the content counts as
  whole (`EndIsRight` exempts it). `recv` is given the buffer's whole size wherever in it
  the header goes on (`http.c:152`), so that a longer header is written past its end
  (`RecvOverflows`).
* The threads of the discovery service end by an error of their waits, and nobody is told
  (`discoveryservice.c:118`, `discovery.c:296-310`): the list stays as it is
  (`GoneIsDropped` is about a service that runs).
* A list queued by a discovery service that was switched off is still shown;
  `discoverymanager.cpp:134` of the GUI assigns `host_request_port` to itself.

Input:

* A finger that is down when the touchpad is connected has no tracking id. A touch whose
  slot is taken over between two turns of the sender is told as lifted only. A change of
  the touchpad's button is not sent by itself, and the button stays pressed when the pad
  is unplugged. A touchpad unplugged and plugged in again between two polls is lost.
  `touch_id_next` wraps onto an id that may still be held.

Front ends:

* GUI: if the window is closed just as the audio header arrives, the Takion thread waits
  for the main thread (`streamsession.cpp:701`), which joins the session: neither goes
  on. A question that is canceled after the session has quit leaves a window without a
  session (`streamwindow.cpp:180`). A hardware frame whose transfer fails loses the
  older one too. A plane that cannot be mapped is skipped, and the frame shown with what
  the plane had before (`avopenglwidget.cpp:216-220`; `skipped`, which `ShownIsWhole`
  exempts).
* Android: taking the surface away (`video-decoder.c:64-72`) returns with `codec_mutex`
  held, or joins a thread that wants it, while the log at :69 says "Decoder shut down
  after surface was removed". An audio frame that finds no buffer keeps its mutex
  (`audio-decoder.c:186`). If no buffer is left for the end of the stream, the video
  output thread goes on with a deleted codec (`starved`, which `NoneOutlives` exempts),
  and that of audio is joined without end (`Endless` in `UiReturns`, which exempts all of
  these). Dialogs are never dismissed by the code
  (`StreamActivity.kt:459`: a local variable hides the property), so an old PIN dialog
  may answer a new session.

## Proofs

TLAPS proves the following for every value of the constants that satisfies the modules'
named assumptions: `SeqSpaceAssumption` (an even number of sequence numbers),
`QueueAssumption` (the ring is a small part of them, and divides them), `TakionAssumption`
and `SendBufferAssumption` (fewer messages than half the numbers: no two that are alive
are alike, the bound the comparison of `seqnum.h` has), `KeysAssumption` and
`GmacAssumption` (sizes are positive, a packet fits the limit of positions, a ctrl header
fits its buffer, and that is smaller than where sizes wrap), `WaitFailsAssumption`,
`SessionCtrlAssumption` and `SideAssumption` (types, that an answer is a sequence, that
sizes wrap somewhere, and that the pings' answers do not outlive their number),
`FrontEndsAssumption` (the audio ring has chunks, they have bytes, and frames of the
window have planes), `ControllerAssumption`, `FeedbackAssumption`, `OrderAssumption`,
`SetsuAssumption` and `InputAssumption` (there are touch ids, slots, frames and a history,
each button has one place in the order of bits, and the one that the user presses is among
them), and `AvAssumption` (types, fewer redundant units than units, and fewer copies in an
audio packet than half the numbers: their count has 4 bits, `takion.h:57`).

`SessionProofs`: first `TypeOK`, `QuitHasReason`, `StoppedWasAsked`,
`RequestReasonIsLeftOver` (together `ReasonIsRight`), `NoThreadAfterQuit`,
`MessageHasToken`, `StopHasToken` (together `TokensAreKept`): every safety property of
`SessionCtrl_safe`, for any number of addresses, callers and queued messages, any set of
answers and messages, any batch. Three inductive invariants carry them:

* `TInv`, the types by owner, strengthened with what makes `Head` meaningful: `failing`
  is not empty at "failing", `recv_buf` is not empty at "handle".
* `ReasonInv` adds that there is no reason at "start", that there is one from
  "stop_ctrl" on, and (`NotYet`) that ctrl has not touched the reason before it was
  started. Without it `RequestReasonIsLeftOver` is not inductive: ctrl might have left
  any reason behind before the request.
* `TokenInv` extends `MessageHasToken` and `StopHasToken` from "select" to every place
  of the ctrl thread: the token is written with the stop, and only removed together with
  its cause, or after a PIN.

Then every safety property of `FrontEnds_safe` (`ShownIsWhole`, `UserIsTold`,
`NoneOutlives`, `PlayedInOrder`), for any number of frames, PINs and sessions, and any
ring. The parts share no state, so `FrontInv` is the conjunction of an invariant of each,
kept by its own steps and by everybody else's:

* `WindowInv`: what the uploader has pulled is older than what the codec still has
  (`PulledInOrder`) and not older than the frame in front. The newest frame of a codec
  exists because its frames are finitely many (`NewestIs`).
* `ThreadsInv`: the library's session has ended before the UI thread goes on from its
  join, Takion before the session, and each output thread before its decoder's codec is
  freed. `ToldInv` says of a UI thread at any place what `UserIsTold` says of one that
  rests: a session's end or PIN request is still posted, on the screen, or about to be
  left by a call that ends in a new session or in a pause.
* `RingInv` is the longest. `QueuedOnce`, `HeldOnce` and `NoneLost` say that a chunk is in
  one place: then `Give` always finds room (the assertions of `push`), and a thread fills
  or reads a chunk that the other one cannot reach, although no lock is taken. `Steps`
  keeps what a thread has read or written between the two halves of a `pop` or a `push`.
  `FullBytes`, `HandBytes` and `Balance` say which bytes each full chunk holds, from those
  given to the device (`Eaten`) to those pushed (`Filled`). `Off` counts the places from a
  queue's head, so that the wrap of the indices stays in four lemmas.

`ReorderQueueProofs`: `TypeOK` (with `count <= Size`, the assertion at the head of each
operation), `NoAbort`, `BeginAdvances`, `AcceptedIsKept` (together `KeptInOrder`),
`QueuedAreHeld`, for every ring size and number space with room for it. `TypeOK` is
inductive by itself; the work is in the arithmetic: `PushPosition` (a number that is
neither inside nor behind is at `end` or beyond, by less than half the space), `EvictedIs`
and `GrownIs` (the number of rounds of the two loops, from the code's wrapping
comparison), and `AppendWindow` (where the window is afterwards). They need `2 * Size <=
Half` and arrivals nearer than half the space. `QueuedAreHeld` is carried by `Owned`,
which says it of every offset of the window; it rests on `OwnPlaces`, that numbers of one
window have different places in the ring, across the wrap too, so that what a push writes
and what it shows again are no other element's.

That the ring implements `OrderedWindow` (`Refines`) maps every step to a step of the
window or a stutter. `Mapped` is rewritten as a function `Map` of `begin`, `count` and the
ring, so that both ends of a step are instances of one definition; `AppendMaps` says what
a push does to it, `EvictedPairs` that what the loop of push evicts is what the window
drops in front of its new begin, in the same order.

`SendBufferProofs`: `Accounted`, `AckIsFilter`, `NoLostWakeup`, for any number of sending
threads and any size. `AckIsFilter` rests on the loop invariant of ack: after i rounds
either nothing was covered (`NoneYet`) or there is one gap, as wide as the number of
packets covered so far, with the packets that stay in front of it and the rest behind it
not moved yet (`OneGap`); a round without a cover keeps it, one next to the gap widens
it, any other moves the packets between and closes it. The invariant over the rounds is
by induction on their number, with `Induction` stated over sets and derived from
the well-foundedness of finite sets under inclusion, since a rule with a predicate as
parameter cannot be used. `Accounted` is inductive as `Places` (each number that was
given out is with a sender, in the buffer, reported or given up, and in one of them
only) with `AcksAreTrue` (an ack covers only what the peer received; without it ack
could report a packet that was lost). Senders do not stop when the buffer is freed, so
`Places` ends with it; what a thread had taken stays with it (`FreedKeeps`).

`TakionProofs`: `AvIsAuthentic` and `NothingPostponedAtRest` (together
`PostponedAreHandled`), for every size of the queue and of the postponed packets, any
number of messages, and whatever the queue does. Each is inductive by itself: a packet
reaches the callback with the keys set, and then through `MacOk`, or without encryption;
and the two ways into the wait leave nothing postponed.
`DeliveredAndAcked` and `CheckedOnceKeyed` follow from one invariant about the queue:
`InWindow`, the ring begins at the first message not handed out and shows each message
at its own number; `Flushed`, wherever the thread waits the head of the window is
missing and what was handed out is acked; `WaitingIsVerified`, once the thread knows of
the keys all that waits was verified. A push is unfolded by `PushIs` into what it does to
the window, again with the ring's `OwnPlaces`.

`KeysProofs`: `FreshPackets`, for any set of senders, any sizes and any limit. A packet
is in a sender's hands between its three critical sections, so the property of what was
sent is not inductive. The invariant `SendInv` says of every packet, held or sent, that
its span and number are below the counters (`AllTaken`), and that no two of them share
any (`AllClear`): what a thread holds already is its own, however it is overtaken. It
assumes that a packet is no larger than the limit of positions.

`RingHolds` and the half of `OpenedRight` that is about packets are carried by `RingInv`:
from `min` on the ring shows the key stream of its positions (`Content`), a whole number
of chunks, with room for the one that is generated while the mutex is not held (`Room`);
`PositionIs` says that a position is found from its low part whenever it is less than
half the space away from the last one. The other half is `ChannelInv`, for any messages
and sizes and any cut of the stream: what is consumed is the whole messages that were
heard (`Consumed`), both counts of payloads agree with the messages up to there
(`Counted`, `Closed`), and what waits in `msg_queue` is the end of what users queued
(`QueueIsTail`). Counts over sequences are cardinalities of sets of places, so that what
a new message adds to one is a lemma on finite sets.

`StreamProofs`: first `EndIsExplained`, `ConnectedIsComplete`, `ThreadsEndFirst`,
whether waits may fail or not. The state space is finite, and TLC covers it; the proof
says why they hold. `PhaseIsKept` ties the place of `run` to the state that the callbacks
test; `MessagesInOrder` and `AnswersAreOwn` say which answers a state can have been
finished by; `LeavesForReason` carries the reason from where `run` leaves its loop to
where it returns; `Lifetimes` says which threads are there wherever `run` is.

Then the three properties of `Input_safe`, for any number of slots, of frames that
wait, of buttons and of inputs, and any size of the history.

* `LossIsCovered`. `HistoryInv` says that the ring shows the newest events of `log`, the
  newest first (`Latest`), that every packet that was ever sent is the end of a beginning
  of `log` (`PacketIs`), and that what the console has is a beginning of it, unless it
  missed some (`HeardIs`). A turn pushes any number of events at once: `PushedLatest` is
  by induction over them, and `TakesHistory` finds that what a packet has more than the
  console, turned around, is what comes next in `log`. The rest of the invariant is types:
  a state that is merged is a state, whose difference to another one is a sequence of
  events (`EventsAre`), so the main thread's part had to be typed as well.
* `TouchesAreHeld`. Between the kernel and `setsu_ids` a finger is in a frame that waits, in
  a slot, or in an event that is still to be handled. `AliveIn` says of each entry of `ids`
  that a slot has its tracking id, or that an "up" for it is on its way; `TrackInv`, that
  the last frame of a slot that decides about its id, or with none the slot itself, is what
  the finger at the pad does now; so with nothing on its way an entry's finger is down.
  `TouchInv` says that entries and touches of `setsu_state` are in bijection. `CountInv`
  is why an id is not given twice: each position that may begin a touch has a moment of
  its own between the touches begun and the inputs so far (`Stamps`). What `setsu_poll`
  makes of all frames at once is unfolded by `PolledIs`, what the messages of udev make
  of the device by `UpdatedIs`.
* `InputArrives`. `TellsPrev` says that the events of `log` leave held what `prev` holds,
  each kind by itself: an event counts if none of its key comes after it (`LastOf`), and
  a turn's events, in their order of buttons, trigger and touches (`EventParts`), bring
  that from one state to the next (`ButtonsTold`, `TriggerTold`, `TouchesTold`). `Given`
  says that the session has the union of the devices but for the touchpad's button, and
  an active sender what the session has. `Settled` is why the order of a turn's events by
  place does no harm: a touch id has one place for as long as the session runs, so no
  touch is told down in one place and up in the other by the same turn. With no change
  left to send the three states are alike, and `HeldButtonsAre`, `HeldTriggerIs` and
  `HeldTouchesAre` turn what the events say into the sets that the property compares.

The theorems about touches, `TouchesHeld` and `InputArrive`, have the hypothesis
`MaxInputs < TouchIds`: `start_touch` takes the
next id without a look at whether it is in use (`controller.c:34-48`), so a touch held while
as many others begin as there are ids would share its id with the last of them. With
`TOUCH_ID_MASK` it takes 128 of them.

`SideProtocolsProofs`: `PathIsTested`, for all sizes and any number of pings, attempts
and ids. Its invariant `PathInv` has two halves. What makes sizes safe: `Fresh` (an
answer on its way is less than `Memory` requests old, and `Memory < Ids`, so no earlier
answer has the number of this request, `NumberIsNew`), and `SearchIsSound` (the lower
end is carried; an answer that is awaited is one to a size that is carried). What makes
them exact when nothing is lost: `SearchIsExact` (what is carried is below the upper
end, or nothing was tried there), from which `NarrowedIs` and `Neighbours` follow.

`RegistIsRight`, for any answers, any cut into packets and any buffer. Between two
packets the state that `chiaki_recv_http_header` keeps is what of a blank line was read
last (`NlIs`, `NlNext`), and the function that follows its two transition tables is
`ReadUpTo`, by induction over the packet (`StatesAre`); so the header ends with the first
blank line, wherever the cuts are (`FirstBlank`, `HeaderIs`). `ParsedIs` says what the
lines of the content leave in the host (`Left`): a valid line that no invalid one of the
same key clears. A key that has an invalid line in front of a valid one is found and then
cleared (`regist.c:664-674`), and the code ends with success all the same: for answers
that repeat a key (`KeyTwice`) the host may be incomplete.

`ListIsRight`, for any consoles, places and pings. `Dropped` is the invariant of the loop
of `discovery_service_drop_old_hosts`: what is left are hosts of before with their ages,
no young one was dropped, and those passed are young; `DropNext` is one round of it, a
removal from both arrays. `ListInv` ties the list to what was heard (`Heard`: a place in
it exactly for the consoles heard of late enough, with the pings since as their age), the
queued calls to the list (`ViewsAre`: the last of them, or with none what is shown, is the
service's list, unless it is stray), and the threads to the stop (`Controls`: no list
without a service, and one told to stop is waited for).

`AvReceiverProofs`: `VideoIsRight`, `NewestIsPlayed`, `LossIsExact`, `DeliveredInOrder`,
every property of `AvReceiver_safe`, for any frames, units, profiles and numbers. Numbers
are remainders: of two frames less than half the numbers apart `SeqGt` finds the newer
(`GtIs`), and `Dist` is how far they are apart (`DistIs`).

* `AudioInv` says that `frame_index_prev` is the number of the newest frame (`Playing`),
  from which `PlayedIs` follows, by induction over the units of a packet: its own frame is
  played if it is the newest, and a copy never. `Counting` says what the three steps of
  `push_seq` have counted so far, and `Recent` that the maximum is the newest packet's
  once it was counted; `LossIs` is the difference of 64 bits that a report is made of.
* `VideoInv` says of slots that are the current frame's that they hold its units only
  (`Holds`), and as many as were counted until it is handed over (`Exact`; after FEC there
  are more, `RestoredHolds`); that it is handed over as soon as as many units came as it
  has source units (`Collects`), so that a frame that a later one replaces is never one
  that could have been decoded (`ResultIs`); and that `frame_index_prev_complete` is the
  number of the last frame that was decoded (`Known`), from which `BeforeIs` finds the
  frames reported as corrupt. A packet is followed through the steps of
  `chiaki_video_receiver_av_packet`: `SwitchIs`, `NextIs`, `CollectIs`.

What is lost when slots could not be allocated is what `Collects` says under
`ground = "own"`; the order of frames and what is reported as corrupt hold without it.

The assumptions on the network are those of the model: a packet is late, and a decoded
frame behind, by less than half the numbers (`Deliverable`).

Only model-checked: everything under fairness, which is out of the prover's reach
(`RingCatchesUp`, and the liveness properties of the other runs). Every safety property
that a run checks to hold is stated by a theorem.

## Not modelled

* Cryptographic arithmetic (`ecdh.c`, `rpcrypt.c`, AES and GMAC of `gkcrypt.c`) and FEC
  (`fec.c`): numbers out of a model checker's reach; whether a MAC verifies and a frame
  can be restored are choices the models make.
* Formatting and parsing (`base64.c`, `launchspec.c`, `audio.c`, the text of
  `discovery.c` and of requests, protobuf): sequential conversions without state. The
  one parser with state across packets, the end of an HTTP header, is in `Regist`.
* `orientation.c` and the motion sensors: floating point filters.
* Of ctrl: the events of the on-screen keyboard, which are passed on, and the downgrade
  of the video profile by the answered server type (`ctrl.c:978-995`), which sets values
  that no model reads.
* `opusdecoder.c`, `pidecoder.c`: calls into libraries from one thread.
* Failing allocations and thread creations, but those of the frame processor, the ctrl
  thread, Senkusha, the session's keys, the decoders and the discovery thread.
* The Switch front end, the command line, and the GUI's and the Android app's lists and
  settings: further users of operations that are modelled, without threads of their own
  that the models do not have. Seen there: the Switch's discovery never forgets a host,
  and its registration callback joins the thread it runs on (`switch/src/host.cpp`).
* Haptics and the configuration of keys in the GUI, touch controls and the pose tracker
  on Android.
* Directories beside `chiaki-v2.2.0`, build files and scripts: not part of the program.
