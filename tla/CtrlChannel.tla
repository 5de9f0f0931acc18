---------------------------- MODULE CtrlChannel ----------------------------
(***************************************************************************)
(* lib/src/ctrl.c, the messages of the ctrl connection: a TCP stream that  *)
(* is cut into messages again, payloads that are encrypted under a counter *)
(* on either side, the queue users put messages in, and what ctrl answers  *)
(* by itself.  Who wakes whom, and how the thread ends, is SessionCtrl's.  *)
(*                                                                         *)
(* The stream is what the console has told, byte after byte; the buffer    *)
(* holds the bytes from consumed up to arrived.  A counter moves only with *)
(* a payload.  The console opens and closes payloads under its own counts. *)
(***************************************************************************)
EXTENDS Integers, Sequences, FiniteSets

CONSTANTS
  Header,     \* bytes of a message header: 8
  BufSize,    \* bytes of recv_buf: 512
  SizeSpace,  \* 2^32: sizes are added in 32 bits
  Spoken,     \* the messages a console may send, as type and size
  Targets,    \* the consoles: of "old", "ps4" and "ps5"
  Configs,    \* the features that may be enabled together
  MaxTold,    \* messages it sends (a bound)
  MaxQueued   \* messages users queue (a bound)

ChannelAssumption ==
  /\ {Header, BufSize} \subseteq Nat \ {0} /\ Header < BufSize
  /\ SizeSpace \in Nat /\ BufSize < SizeSpace
  /\ \A m \in Spoken : m.size \in 0 .. SizeSpace - 1
  /\ Targets \subseteq {"old", "ps4", "ps5"}
  /\ Configs \subseteq SUBSET {"dualsense", "keyboard"}
  /\ {MaxTold, MaxQueued} \subseteq Nat

VARIABLES
  at,              \* "connect", "drain", "select"; "overflow", "ended", "undefined"
  target,          \* the console: "old", "ps4" or "ps5"
  features,        \* of "dualsense" and "keyboard", those that are enabled
  local, remote,   \* crypt_counter_local, crypt_counter_remote
  typed,           \* the console encrypted its type in the answer
  told,            \* what the console has sent, and where in the stream it is
  arrived, consumed,
  heard,           \* what ctrl_message_received was given, with the counter used
  queue,           \* msg_queue
  pin,             \* login_pin_entered
  counter,         \* keyboard_text_counter
  stop,            \* should_stop
  broken,          \* sends fail
  queued, said     \* everything users queued; everything the console got

config == <<target, features>>
received == <<remote, typed, told, arrived, consumed, heard>>
users == <<queue, pin, counter, stop, queued>>
outgoing == <<local, broken, said>>
vars == <<at, config, received, users, outgoing>>

Unused == -1

(***************************************************************************)
(* The stream                                                              *)
(***************************************************************************)
Length == IF told = <<>> THEN 0 ELSE told[Len(told)].place + Header + told[Len(told)].size
Buffered == arrived - consumed

\* What is read as a header at a place of the stream.
ReadAt(place) ==
  IF \E i \in DOMAIN told : told[i].place = place
  THEN told[CHOOSE i \in DOMAIN told : told[i].place = place]
  ELSE [type |-> "garbage", size |-> 0, key |-> Unused, place |-> place]

Front == ReadAt(consumed)

(***************************************************************************)
(* ctrl_message_send                                                       *)
(***************************************************************************)
Message(type, payload, number) == [type |-> type, payload |-> payload, number |-> number]
Payload(type) == Message(type, TRUE, 0)
Bare(type) == Message(type, FALSE, 0)

\* How many of the first n messages of a list have a payload.
Payloads(list, n) == Cardinality({i \in 1 .. n : list[i].payload})

\* Broken variant: so does a message without one.
KeysTakenByAll(list, n) == n

KeysTaken(list, n) == Payloads(list, n)

Encrypted(list) ==
  [i \in DOMAIN list |->
    [message |-> list[i],
     key |-> IF list[i].payload THEN local + KeysTaken(list, i - 1) ELSE Unused]]

\* The messages go out one after the other; nobody looks whether they did, and
\* a payload that is not sent has taken its counter.
SendAll(list) ==
  /\ local' = local + KeysTaken(list, Len(list))
  /\ \E n \in 0 .. Len(list) :
       /\ broken => n = 0
       /\ said' = said \o SubSeq(Encrypted(list), 1, n)
       /\ broken' = (broken \/ n < Len(list))

(***************************************************************************)
(* ctrl_connect                                                            *)
(***************************************************************************)

\* Authentication, DID and OS type; a bitrate; a streaming type.
RequestKeys ==
  CASE target = "old" -> 3
    [] target = "ps4" -> 4
    [] target = "ps5" -> 5

\* A server type that is not there, or has not its size, takes no counter.
Connect ==
  /\ at = "connect"
  /\ local' = RequestKeys
  /\ typed' \in BOOLEAN
  /\ remote' = IF typed' THEN 1 ELSE 0
  /\ at' = "drain"
  /\ UNCHANGED <<config, told, arrived, consumed, heard, users, broken, said>>

Over == at \in {"overflow", "ended", "undefined"}

\* The console.  When the thread is gone nothing is told or queued (a bound).
Tell ==
  /\ at # "connect" /\ ~Over /\ Len(told) < MaxTold
  /\ \E m \in Spoken :
       told' = Append(told,
         [type |-> m.type, size |-> m.size, place |-> Length,
          key |-> IF m.size = 0 THEN Unused
                  ELSE (IF typed THEN 1 ELSE 0)
                       + Cardinality({i \in DOMAIN told : told[i].size > 0})])
  /\ UNCHANGED <<at, config, remote, typed, arrived, consumed, heard, users, outgoing>>

(***************************************************************************)
(* ctrl_thread_func                                                        *)
(***************************************************************************)

\* ctrl_enable_optional_features, after each session id
FeatureMessages ==
  (IF "dualsense" \in features THEN <<Payload("dualsense")>> ELSE <<>>)
  \o (IF "keyboard" \in features
      THEN <<Payload("signature"), Payload("pre_enable"), Payload("toggle"), Payload("pre_enable")>>
      ELSE <<>>)

\* ctrl_message_received_heartbeat_req
HeartbeatReply == <<Bare("heartbeat")>>

\* What ctrl sends for a message it got; the keyboard's go to the user.
Replies(type) ==
  CASE type = "session_id" -> FeatureMessages
    [] type = "heartbeat_req" -> HeartbeatReply
    [] OTHER -> <<>>

\* Broken variant: a message without payload takes a counter as well.
DecryptsAll(m) == TRUE
Decrypts(m) == m.size > 0

\* ctrl_message_received
Receive(m) ==
  /\ heard' = Append(heard, [type |-> m.type, key |-> IF Decrypts(m) THEN remote ELSE Unused])
  /\ remote' = IF Decrypts(m) THEN remote + 1 ELSE remote
  /\ SendAll(Replies(m.type))

\* 8 + payload_size
Total(m) == (Header + m.size) % SizeSpace
Wraps(m) == Header + m.size >= SizeSpace

Whole == Buffered >= Total(Front)

\* A message is taken out of the buffer; the rest moves to the front.
Handle ==
  /\ at = "drain" /\ Buffered >= Header /\ Whole /\ ~Wraps(Front)
  /\ Receive(Front)
  /\ consumed' = consumed + Header + Front.size
  /\ UNCHANGED <<at, config, typed, told, arrived, users>>

\* The sum wrapped, so the size is not compared with the buffer: what is decrypted
\* does not end in it, and C says nothing of what follows.
HandleWrapped ==
  /\ at = "drain" /\ Buffered >= Header /\ Whole /\ Wraps(Front)
  /\ at' = "undefined"
  /\ UNCHANGED <<config, received, users, outgoing>>

\* Broken variant: a buffer that a message fills counts as one it overflows.
TooLargeWhenFull(m) == Total(m) >= BufSize
TooLarge(m) == Total(m) > BufSize

\* No whole message is left: one that never fits ends the thread.
Drained ==
  /\ at = "drain"
  /\ Buffered < Header \/ ~Whole
  /\ at' = IF Buffered >= Header /\ TooLarge(Front) THEN "overflow" ELSE "select"
  /\ UNCHANGED <<config, received, users, outgoing>>

\* recv: some of the bytes there are, as many as fit, or the end.
Recv ==
  /\ at = "select"
  /\ \/ /\ \E n \in 1 .. BufSize - Buffered :
             arrived + n <= Length /\ arrived' = arrived + n
        /\ at' = "drain"
     \/ at' = "ended" /\ UNCHANGED arrived
  /\ UNCHANGED <<config, remote, typed, told, consumed, heard, users, outgoing>>

\* Woken by the pipe: the queue, then the PIN; without one a stop counts.
Woken ==
  /\ at = "select" /\ (queue # <<>> \/ pin \/ stop)
  /\ SendAll(queue \o IF pin THEN <<Payload("pin")>> ELSE <<>>)
  /\ queue' = <<>> /\ pin' = FALSE
  /\ at' = IF stop /\ ~pin THEN "ended" ELSE "drain"
  /\ UNCHANGED <<config, received, counter, stop, queued>>

(***************************************************************************)
(* The user                                                                *)
(***************************************************************************)

\* Broken variant: the message is put before the others.
EnqueuedFirst(message) == <<message>> \o queue

\* chiaki_ctrl_send_message
Enqueued(message) == Append(queue, message)

Queue(message) ==
  /\ ~Over /\ Len(queued) < MaxQueued
  /\ queue' = Enqueued(message) /\ queued' = Append(queued, message)
  /\ UNCHANGED <<at, config, received, outgoing, pin, stop>>

\* chiaki_ctrl_goto_bed
GotoBed == Queue(Bare("goto_bed")) /\ UNCHANGED counter

\* chiaki_ctrl_keyboard_set_text: the texts are numbered.
SetText == counter' = counter + 1 /\ Queue(Message("text", TRUE, counter'))

\* chiaki_ctrl_keyboard_accept and _reject
CloseKeyboard == Queue(Payload("close")) /\ UNCHANGED counter

\* chiaki_ctrl_set_login_pin; one PIN is sent (a bound).
SetPin ==
  /\ ~Over /\ ~pin /\ ~broken /\ \A i \in DOMAIN said : said[i].message.type # "pin"
  /\ pin' = TRUE
  /\ UNCHANGED <<at, config, received, outgoing, queue, counter, stop, queued>>

\* chiaki_ctrl_stop
Stop ==
  /\ ~Over /\ ~stop
  /\ stop' = TRUE
  /\ UNCHANGED <<at, config, received, outgoing, queue, pin, counter, queued>>

\* chiaki_ctrl_init and the start of ctrl_connect
Init ==
  /\ at = "connect"
  /\ target \in Targets /\ features \in Configs
  /\ local = 0 /\ remote = 0 /\ typed = FALSE
  /\ told = <<>> /\ arrived = 0 /\ consumed = 0 /\ heard = <<>>
  /\ queue = <<>> /\ pin = FALSE /\ counter = 0 /\ stop = FALSE
  /\ broken = FALSE /\ queued = <<>> /\ said = <<>>

Ended == Over /\ UNCHANGED vars

Next ==
  \/ Connect \/ Tell \/ Handle \/ HandleWrapped \/ Drained \/ Recv \/ Woken
  \/ GotoBed \/ SetText \/ CloseKeyboard \/ SetPin \/ Stop \/ Ended

Spec == Init /\ [][Next]_vars

(***************************************************************************)
(* Properties                                                              *)
(***************************************************************************)

\* However the stream is cut, ctrl is given the console's messages one by one
\* and in order, and opens each payload under the counter it was closed with
\* (ctrl.c:289-315, :442-452, :963).
HeardRight ==
  /\ Len(heard) <= Len(told)
  /\ \A i \in DOMAIN heard : heard[i].type = told[i].type /\ heard[i].key = told[i].key

\* The console opens what it gets under its own count, which began with the
\* request: whatever was sent without payload, or failed, in between, the two
\* counts agree (ctrl.c:402, :779-836).
SaidRight ==
  \A i \in DOMAIN said :
    said[i].message.payload =>
      said[i].key = RequestKeys + Cardinality({j \in 1 .. i - 1 : said[j].message.payload})

\* What users queue reaches the console in their order, none left out, and
\* whole unless the connection broke (ctrl.c:186-197, :333-341).
FromUsers(entry) == entry.message.type \in {"goto_bed", "text", "close"}
Passed(n) == Cardinality({i \in 1 .. n : FromUsers(said[i])})
QueueKeepsOrder ==
  /\ Passed(Len(said)) + Len(queue) <= Len(queued)
  /\ ~broken => Passed(Len(said)) + Len(queue) = Len(queued)
  /\ \A i \in DOMAIN said : FromUsers(said[i]) => said[i].message = queued[Passed(i)]

\* recv is never asked for no byte, which would look like the console's end;
\* only a message that can never fit is an overflow (ctrl.c:296-303, :362), and
\* only one whose size does not fit 32 bits with its header's is out of control.
RoomIsLeft ==
  /\ at = "select" => Buffered < BufSize
  /\ at = "overflow" => \E i \in DOMAIN told : Header + told[i].size > BufSize
  /\ at = "undefined" => \E i \in DOMAIN told : Header + told[i].size >= SizeSpace

\* All of it.
ChannelIsRight ==
  /\ at \in {"connect", "drain", "select", "overflow", "ended", "undefined"}
  /\ consumed <= arrived /\ arrived <= Length
  /\ HeardRight /\ SaidRight /\ QueueKeepsOrder /\ RoomIsLeft

=============================================================================
