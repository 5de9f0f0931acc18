----------------------------- MODULE TakionSend -----------------------------
(***************************************************************************)
(* The sending half of lib/src/takion.c.  Several threads send: the Takion *)
(* thread (acknowledgements, and messages from its callbacks), the stream  *)
(* connection, congestion control and the feedback sender.  A packet takes *)
(* a span of the key stream, a data message then takes a sequence number,  *)
(* and in the end the packet gets its MAC and goes out; each is a critical *)
(* section of its own.  The Takion thread gives Takion its keys, without   *)
(* the lock, between two packets of its own.                               *)
(***************************************************************************)
EXTENDS Gmac, Integers, FiniteSets, Sequences

CONSTANTS
  Senders,      \* threads, "takion" among them
  FeedbackSize, \* payload of a feedback packet
  MaxSize,      \* the largest data message (a bound)
  Limit,        \* SIZE_MAX: where positions end
  MaxPackets    \* packets sent (a bound)

TakionSendAssumption ==
  /\ "takion" \in Senders
  /\ {FeedbackSize, MaxSize} \subseteq Nat \ {0} /\ {Limit, MaxPackets} \subseteq Nat
  /\ MaxSize <= Limit

VARIABLES
  keys,     \* gkcrypt_local is set
  pos,      \* key_pos_local
  seq,      \* seq_num_local
  current,  \* key_gmac_index_current of gkcrypt_local
  sender,   \* what each thread is about to do, and the packet it holds
  sent,     \* the packets on the wire, in their order
  failed    \* a packet was given up for want of positions

vars == <<keys, pos, seq, current, sender, sent, failed>>

Block == 1          \* CHIAKI_GKCRYPT_BLOCK_SIZE, the MAC's share of a span
NoSeq == -1
NoPacket == [pos |-> 0, size |-> 0, seq |-> NoSeq, early |-> FALSE]
Held == {t \in Senders : sender[t].at # "idle"}

Rest(t) == sender[t].at = "idle" /\ Len(sent) + Cardinality(Held) < MaxPackets

Exhausted(size) == keys /\ Limit - pos < size

\* chiaki_takion_crypt_advance_key_pos, the first thing a packet needs.
TakePosition(t, at, size) ==
  /\ Rest(t)
  /\ IF Exhausted(size)
     THEN failed' = TRUE /\ UNCHANGED <<pos, sender>>
     ELSE /\ sender' = [sender EXCEPT ![t] =
                [at |-> at, packet |-> [pos |-> IF keys THEN pos ELSE 0, size |-> size,
                                        seq |-> NoSeq, early |-> ~keys]]]
          /\ pos' = IF keys THEN pos + size ELSE pos
          /\ UNCHANGED failed
  /\ UNCHANGED <<keys, seq, current, sent>>

\* chiaki_takion_send_message_data
SendData(t) == \E size \in 1 .. MaxSize : TakePosition(t, "number", size)
\* chiaki_takion_send_message_data_ack, by the Takion thread only, and
\* chiaki_takion_send_congestion, by a thread that sends nothing else.
SendPlain(t) == t \in {"takion", "congestion"} /\ TakePosition(t, "mac", Block)

TakeNumber(t) ==
  /\ sender[t].at = "number"
  /\ sender' = [sender EXCEPT ![t] = [at |-> "mac", packet |-> [@.packet EXCEPT !.seq = seq]]]
  /\ seq' = seq + 1
  /\ UNCHANGED <<keys, pos, current, sent, failed>>

\* A packet leaves with the MAC of the keys there are now, if any.
OnWire(p) ==
  [pos |-> p.pos, size |-> p.size, seq |-> p.seq, early |-> p.early,
   keyed |-> keys, mac |-> MacKey(current, p.pos)]

\* chiaki_takion_send
Send(t) ==
  /\ sender[t].at = "mac"
  /\ LET p == sender[t].packet
     IN  /\ sent' = Append(sent, OnWire(p))
         /\ current' = IF keys THEN NewCurrent(current, p.pos) ELSE current
  /\ sender' = [sender EXCEPT ![t] = [at |-> "idle", packet |-> NoPacket]]
  /\ UNCHANGED <<keys, pos, seq, failed>>

\* Broken variant: the span is the payload's alone.
SpanOfPayload(payload) == payload
\* A feedback packet takes a block for its MAC and encrypts behind it.
Span(payload) == payload + Block

\* takion_send_feedback_packet: all of it under gkcrypt_local_mutex.  The
\* feedback sender starts once there are keys.
SendFeedback(t) ==
  /\ t = "feedback" /\ keys /\ Rest(t)
  /\ IF Exhausted(Span(FeedbackSize))
     THEN failed' = TRUE /\ UNCHANGED <<pos, current, sent>>
     ELSE /\ pos' = pos + Span(FeedbackSize)
          /\ sent' = Append(sent, OnWire([pos |-> pos, size |-> FeedbackSize + Block,
                                           seq |-> NoSeq, early |-> FALSE]))
          /\ current' = NewCurrent(current, pos)
          /\ UNCHANGED failed
  /\ UNCHANGED <<keys, seq, sender>>

\* chiaki_takion_set_crypt, in the callback for BANG.
SetCrypt ==
  /\ ~keys /\ sender["takion"].at = "idle"
  /\ keys' = TRUE
  /\ UNCHANGED <<pos, seq, current, sender, sent, failed>>

Quiet == Len(sent) = MaxPackets /\ Held = {} /\ UNCHANGED vars

Init ==
  /\ keys = FALSE /\ pos = 0 /\ seq = 0 /\ current = 0
  /\ sender = [t \in Senders |-> [at |-> "idle", packet |-> NoPacket]]
  /\ sent = <<>> /\ failed = FALSE

Next ==
  \/ \E t \in Senders :
       \/ t \in {"takion", "stream"} /\ SendData(t)
       \/ SendPlain(t) \/ TakeNumber(t) \/ Send(t) \/ SendFeedback(t)
  \/ SetCrypt \/ Quiet

Spec == Init /\ [][Next]_vars

(***************************************************************************)
(* Properties                                                              *)
(***************************************************************************)
TypeOK ==
  /\ keys \in BOOLEAN /\ failed \in BOOLEAN
  /\ {pos, seq, current} \subseteq Nat
  /\ \A t \in Senders : sender[t].at \in {"idle", "number", "mac"}

Keyed == {i \in DOMAIN sent : sent[i].keyed}
Apart(p, q) == p.pos + p.size <= q.pos \/ q.pos + q.size <= p.pos

\* No two packets use the same piece of key stream, each has the MAC of the
\* key of its position however the threads overtake each other, positions end
\* at the limit and no two messages have the same number: takion.c:314-337,
\* :427-445.  A packet that took its position before there were keys and got
\* its MAC after that is not among them.
FreshPackets ==
  /\ TypeOK
  /\ \A i, j \in Keyed :
       i # j /\ ~sent[i].early /\ ~sent[j].early => Apart(sent[i], sent[j])
  /\ \A i \in Keyed : LET p == sent[i] IN p.mac = KeyIndex(p.pos) /\ p.pos + p.size <= Limit
  /\ \A i, j \in DOMAIN sent : i # j /\ sent[i].seq # NoSeq => sent[i].seq # sent[j].seq

=============================================================================
