----------------------------- MODULE KeysProofs -----------------------------
(***************************************************************************)
(* That what Takion sends never uses a piece of key stream or a number     *)
(* twice, for any set of threads, any sizes and any limit, however the     *)
(* threads overtake each other between their three critical sections; that *)
(* what is received is opened with the key and the key stream of its       *)
(* position, for any ring, any request and any order of the packets; and   *)
(* that ctrl messages are whole, in order and opened under their counters, *)
(* however the stream is cut and whenever the sends begin to fail.         *)
(***************************************************************************)
EXTENDS Keys, Sequences, FiniteSetTheorems, TLAPS

(***************************************************************************)
(* The invariant                                                           *)
(***************************************************************************)
Packets == [pos : Nat, size : Nat, seq : Int, early : BOOLEAN]
WirePackets ==
  [pos : Nat, size : Nat, seq : Int, early : BOOLEAN, keyed : BOOLEAN, mac : Nat]

SendTypes ==
  /\ keys \in BOOLEAN /\ failed \in BOOLEAN
  /\ pos \in Nat /\ seq \in Nat /\ current \in Nat
  /\ sender \in [Senders -> [at : {"idle", "number", "mac"}, packet : Packets]]
  /\ sent \in Seq(WirePackets)

\* A packet's span and number were taken from the counters.
Taken(p) ==
  /\ p.pos + p.size <= Limit
  /\ ~p.early => p.pos + p.size <= pos
  /\ p.seq < seq

\* Two packets share nothing.
Clear(p, q) ==
  /\ ~p.early /\ ~q.early => Local!Apart(p, q)
  /\ p.seq # Local!NoSeq => p.seq # q.seq

Holds(t) == sender[t].at # "idle"

AllTaken ==
  /\ pos <= Limit
  /\ \A t \in Senders : Holds(t) => Taken(sender[t].packet)
  /\ \A i \in DOMAIN sent : Taken(sent[i]) /\ sent[i].mac = Local!KeyIndex(sent[i].pos)

\* Those that threads hold, those on the wire, and one of each.
AllClear ==
  /\ \A t, u \in Senders :
       t # u /\ Holds(t) /\ Holds(u) => Clear(sender[t].packet, sender[u].packet)
  /\ \A t \in Senders, i \in DOMAIN sent :
       Holds(t) => Clear(sender[t].packet, sent[i]) /\ Clear(sent[i], sender[t].packet)
  /\ \A i, j \in DOMAIN sent : i # j => Clear(sent[i], sent[j])

SendInv == SendTypes /\ AllTaken /\ AllClear

(***************************************************************************)
(* Lemmas about packets                                                    *)
(***************************************************************************)
\* The constants, as the proofs need them.
LEMMA Constants ==
  /\ FeedbackSize \in Nat \ {0} /\ MaxSize \in Nat \ {0} /\ Limit \in Nat /\ MaxSize <= Limit
  /\ Refresh \in Nat \ {0}
BY KeysAssumption, GmacAssumption DEF Local!TakionSendAssumption

\* A key's index is a number.
LEMMA KeyIndexType ==
  ASSUME NEW p \in Nat
  PROVE  Local!KeyIndex(p) \in Nat
<1>1. PICK n \in Nat : n = (IF p > 0 THEN p - 1 ELSE 0)
  OBVIOUS
<1>2. n \div Refresh \in Nat
  BY Constants
<1> QED
  BY <1>1, <1>2 DEF Local!KeyIndex

\* chiaki_gkcrypt_gmac uses the key of the position, whichever is current.
LEMMA MacIsRight ==
  ASSUME NEW p \in Nat, NEW c \in Nat
  PROVE  Local!MacKey(c, p) = Local!KeyIndex(p) /\ Local!NewCurrent(c, p) \in Nat
BY KeyIndexType DEF Local!MacKey, Local!NewCurrent

\* On the wire a packet is what it was.
LEMMA WireType ==
  ASSUME NEW p \in Packets, keys \in BOOLEAN, current \in Nat
  PROVE  /\ Local!OnWire(p) \in WirePackets
         /\ Local!OnWire(p).pos = p.pos /\ Local!OnWire(p).size = p.size
         /\ Local!OnWire(p).seq = p.seq /\ Local!OnWire(p).early = p.early
         /\ Local!OnWire(p).mac = Local!KeyIndex(p.pos)
BY KeyIndexType, MacIsRight DEF Packets, WirePackets, Local!OnWire

\* A packet whose span begins at the counter, or that has none, and that has no
\* number or the next, shares nothing with one taken before.
LEMMA FreshIsClear ==
  ASSUME NEW p, NEW q, SendTypes, Taken(q),
         p.pos \in Nat, p.size \in Nat, q.pos \in Nat, q.size \in Nat, q.seq \in Int,
         ~p.early => p.pos = pos,
         p.seq = Local!NoSeq \/ p.seq = seq
  PROVE  Clear(p, q) /\ Clear(q, p)
BY DEF SendTypes, Taken, Clear, Local!Apart, Local!NoSeq

(***************************************************************************)
(* Initially                                                               *)
(***************************************************************************)
\* Nothing was sent at first, and all threads are idle.
LEMMA SendStarts == Local!Init => SendInv
<1> SUFFICES ASSUME Local!Init PROVE SendInv
  OBVIOUS
<1>1. Local!NoPacket \in Packets
  BY DEF Local!NoPacket, Local!NoSeq, Packets
<1>2. SendTypes
  <2>1. sent \in Seq(WirePackets)
    BY DEF Local!Init
  <2>2. sender \in [Senders -> [at : {"idle", "number", "mac"}, packet : Packets]]
    BY <1>1 DEF Local!Init
  <2> QED
    BY <2>1, <2>2 DEF Local!Init, SendTypes
<1>3. DOMAIN sent = {} /\ \A t \in Senders : ~Holds(t)
  BY DEF Local!Init, Holds
<1>4. pos <= Limit
  BY Constants DEF Local!Init
<1> QED
  BY <1>2, <1>3, <1>4 DEF SendInv, AllTaken, AllClear

(***************************************************************************)
(* The steps                                                               *)
(***************************************************************************)

\* A packet that a thread has taken stays taken while the counters grow.
LEMMA TakenStays ==
  ASSUME NEW p, p.pos \in Nat, p.size \in Nat, p.seq \in Int, Taken(p),
         pos \in Nat, pos' \in Nat, pos' >= pos, seq \in Nat, seq' \in Nat, seq' >= seq
  PROVE  p.pos + p.size <= Limit /\ (~p.early => p.pos + p.size <= pos') /\ p.seq < seq'
BY Constants DEF Taken

\* The fields of what is held and of what was sent.
LEMMA Fields ==
  ASSUME SendTypes
  PROVE  /\ \A t \in Senders :
              /\ sender[t].packet \in Packets
              /\ sender[t].packet.pos \in Nat /\ sender[t].packet.size \in Nat
              /\ sender[t].packet.seq \in Int
         /\ \A i \in DOMAIN sent :
              sent[i].pos \in Nat /\ sent[i].size \in Nat /\ sent[i].seq \in Int
<1>1. \A t \in Senders : sender[t].packet \in Packets
  BY DEF SendTypes
<1>2. \A i \in DOMAIN sent : sent[i] \in WirePackets
  BY DEF SendTypes
<1> QED
  BY <1>1, <1>2 DEF Packets, WirePackets

\* An idle thread takes a span of key stream.
LEMMA TakePositionKeeps ==
  ASSUME SendInv, NEW t \in Senders, NEW at_ \in {"number", "mac"}, NEW size \in 1 .. MaxSize,
         Local!TakePosition(t, at_, size)
  PROVE  SendInv'
<1> USE DEF SendInv
<1>1. CASE Local!Exhausted(size)
  BY <1>1 DEF Local!TakePosition, SendTypes, AllTaken, AllClear, Taken, Holds, Clear, Local!Apart
<1>2. CASE ~Local!Exhausted(size)
  <2>1. size \in Nat /\ size <= Limit /\ pos \in Nat /\ seq \in Nat /\ keys \in BOOLEAN
    BY Constants DEF SendTypes
  <2>2. PICK p \in Packets :
               /\ p = [pos |-> IF keys THEN pos ELSE 0, size |-> size,
                       seq |-> Local!NoSeq, early |-> ~keys]
               /\ p.pos = (IF keys THEN pos ELSE 0) /\ p.size = size
               /\ p.seq = Local!NoSeq /\ (~p.early => keys)
    <3>1. (IF keys THEN pos ELSE 0) \in Nat /\ Local!NoSeq \in Int /\ (~keys) \in BOOLEAN
      BY <2>1 DEF Local!NoSeq
    <3>2. [pos |-> IF keys THEN pos ELSE 0, size |-> size,
           seq |-> Local!NoSeq, early |-> ~keys] \in Packets
      BY <3>1, <2>1 DEF Packets
    <3>3. [pos |-> IF keys THEN pos ELSE 0, size |-> size,
           seq |-> Local!NoSeq, early |-> ~keys].early = ~keys
      BY Zenon
    <3> QED
      BY <3>2, <3>3, <2>1
  <2>3. /\ sender' = [sender EXCEPT ![t] = [at |-> at_, packet |-> p]]
        /\ pos' = IF keys THEN pos + size ELSE pos
        /\ UNCHANGED <<keys, seq, current, sent, failed>>
        /\ sender[t].at = "idle"
    BY <1>2, <2>2 DEF Local!TakePosition, Local!Rest
  <2>4. SendTypes'
    BY <2>3, <2>1, <2>2 DEF SendTypes
  <2>5. keys => pos + size <= Limit
    BY <1>2, <2>1, Constants DEF Local!Exhausted
  <2>6. pos' \in Nat /\ pos' >= pos /\ pos' <= Limit
    BY <2>3, <2>1, <2>5 DEF AllTaken
  <2>7. \A u \in Senders : u # t => sender'[u] = sender[u] /\ (Holds(u)' <=> Holds(u))
    BY <2>3 DEF SendTypes, Holds
  <2>8. sender'[t].packet = p /\ Holds(t)'
    BY <2>3 DEF SendTypes, Holds
  <2>9. AllTaken'
    <3>1. Taken(p)'
      BY <2>3, <2>1, <2>2, <2>5 DEF Taken, Local!NoSeq
    <3>2. \A u \in Senders : Holds(u)' => Taken(sender[u].packet)'
      <4> SUFFICES ASSUME NEW u \in Senders, Holds(u)' PROVE Taken(sender[u].packet)'
        OBVIOUS
      <4>1. CASE u = t
        BY <4>1, <3>1, <2>8 DEF Taken
      <4>2. CASE u # t
        BY <4>2, <2>3, <2>1, <2>6, <2>7, Fields, TakenStays DEF Taken, AllTaken
      <4> QED
        BY <4>1, <4>2
    <3>3. \A i \in DOMAIN sent : Taken(sent[i])'
      BY <2>3, <2>1, <2>6, Fields, TakenStays DEF Taken, AllTaken
    <3> QED
      BY <2>3, <2>6, <3>2, <3>3 DEF AllTaken
  <2>10. AllClear'
    <3>1. \A u \in Senders : Holds(u) => Clear(p, sender[u].packet) /\ Clear(sender[u].packet, p)
      BY <2>1, <2>2, Fields, FreshIsClear DEF AllTaken
    <3>2. \A i \in DOMAIN sent : Clear(p, sent[i]) /\ Clear(sent[i], p)
      BY <2>1, <2>2, Fields, FreshIsClear DEF AllTaken
    <3> QED
      BY <3>1, <3>2, <2>3, <2>7, <2>8 DEF AllClear, Clear
  <2> QED
    BY <2>4, <2>9, <2>10
<1> QED
  BY <1>1, <1>2

\* A message gets the next number.
LEMMA TakeNumberKeeps ==
  ASSUME SendInv, NEW t \in Senders, Local!TakeNumber(t)
  PROVE  SendInv'
<1> USE DEF SendInv
<1>1. sender[t].packet \in Packets /\ seq \in Nat /\ pos \in Nat
  BY DEF SendTypes
<1>2. PICK p \in Packets :
             /\ p = [sender[t].packet EXCEPT !.seq = seq]
             /\ p.pos = sender[t].packet.pos /\ p.size = sender[t].packet.size
             /\ p.seq = seq /\ p.early = sender[t].packet.early
  <2> DEFINE q == sender[t].packet
             p == [q EXCEPT !.seq = seq]
  <2>1. q \in Packets /\ seq \in Int
    BY <1>1
  <2> HIDE DEF q
  <2>2. p \in Packets /\ p.pos = q.pos /\ p.size = q.size /\ p.seq = seq /\ p.early = q.early
    BY <2>1 DEF Packets
  <2> QED
    BY <2>2 DEF q
<1>3. /\ sender' = [sender EXCEPT ![t] = [at |-> "mac", packet |-> p]]
      /\ seq' = seq + 1 /\ seq' \in Nat /\ seq' >= seq
      /\ UNCHANGED <<keys, pos, current, sent, failed>>
      /\ sender[t].at = "number"
  BY <1>1, <1>2 DEF Local!TakeNumber, SendTypes
<1>4. SendTypes'
  BY <1>2, <1>3 DEF SendTypes
<1>5. \A u \in Senders : u # t => sender'[u] = sender[u] /\ (Holds(u)' <=> Holds(u))
  BY <1>3 DEF SendTypes, Holds
<1>6. sender'[t].packet = p /\ Holds(t)' /\ Holds(t)
  BY <1>3 DEF SendTypes, Holds
<1>7. AllTaken'
  <2>1. Taken(p)'
    BY <1>1, <1>2, <1>3, <1>6, Fields DEF Taken, AllTaken
  <2>2. \A u \in Senders : Holds(u)' => Taken(sender[u].packet)'
    <3> SUFFICES ASSUME NEW u \in Senders, Holds(u)' PROVE Taken(sender[u].packet)'
      OBVIOUS
    <3>1. CASE u = t
      BY <3>1, <2>1, <1>6 DEF Taken
    <3>2. CASE u # t
      BY <3>2, <1>1, <1>3, <1>5, Fields, TakenStays DEF Taken, AllTaken
    <3> QED
      BY <3>1, <3>2
  <2>3. \A i \in DOMAIN sent : Taken(sent[i])'
    BY <1>1, <1>3, Fields, TakenStays DEF Taken, AllTaken
  <2> QED
    BY <1>3, <2>2, <2>3 DEF AllTaken
<1>8. AllClear'
  \* The span is the one it had, and the number is above all others.
  <2>1. \A u \in Senders :
          u # t /\ Holds(u) => Clear(p, sender[u].packet) /\ Clear(sender[u].packet, p)
    BY <1>1, <1>2, <1>6, Fields DEF AllTaken, AllClear, Taken, Clear, Local!Apart
  <2>2. \A i \in DOMAIN sent : Clear(p, sent[i]) /\ Clear(sent[i], p)
    BY <1>1, <1>2, <1>6, Fields DEF AllTaken, AllClear, Taken, Clear, Local!Apart
  <2> QED
    BY <2>1, <2>2, <1>3, <1>5, <1>6 DEF AllClear, Clear
<1> QED
  BY <1>4, <1>7, <1>8

\* A packet goes out: the list of packets sent, and what is known of each.
LEMMA Appended ==
  ASSUME SendTypes, NEW w \in WirePackets, sent' = Append(sent, w)
  PROVE  /\ sent' \in Seq(WirePackets)
         /\ DOMAIN sent' = DOMAIN sent \cup {Len(sent) + 1}
         /\ Len(sent) + 1 \notin DOMAIN sent
         /\ sent'[Len(sent) + 1] = w
         /\ \A i \in DOMAIN sent : sent'[i] = sent[i]
BY DEF SendTypes

\* A thread sends the packet it holds.
LEMMA SendKeeps ==
  ASSUME SendInv, NEW t \in Senders, Local!Send(t)
  PROVE  SendInv'
<1> USE DEF SendInv
<1> DEFINE p == sender[t].packet
           w == Local!OnWire(p)
<1>1. p \in Packets /\ keys \in BOOLEAN /\ current \in Nat /\ pos \in Nat /\ seq \in Nat
  BY DEF SendTypes
<1>2. /\ w \in WirePackets /\ w.pos = p.pos /\ w.size = p.size
      /\ w.seq = p.seq /\ w.early = p.early /\ w.mac = Local!KeyIndex(p.pos)
  BY <1>1, WireType
<1>3. /\ sent' = Append(sent, w)
      /\ sender' = [sender EXCEPT ![t] = [at |-> "idle", packet |-> Local!NoPacket]]
      /\ UNCHANGED <<keys, pos, seq, failed>>
      /\ Holds(t)
  BY DEF Local!Send, Holds
<1>4. current' \in Nat
  BY <1>1, MacIsRight DEF Local!Send, Packets
<1> HIDE DEF w
<1>5. SendTypes'
  <2>1. Local!NoPacket \in Packets
    BY DEF Local!NoPacket, Local!NoSeq, Packets
  <2> QED
    BY <1>2, <1>3, <1>4, <2>1, Appended DEF SendTypes
<1>6. \A u \in Senders : Holds(u)' => u # t /\ Holds(u) /\ sender'[u] = sender[u]
  BY <1>3 DEF SendTypes, Holds
<1>7. AllTaken'
  <2>1. Taken(w)
    BY <1>2, <1>3 DEF AllTaken, Taken
  <2>2. \A i \in DOMAIN sent' :
          Taken(sent'[i]) /\ sent'[i].mac = Local!KeyIndex(sent'[i].pos)
    BY <2>1, <1>2, <1>3, Appended DEF AllTaken
  <2>3. \A u \in Senders : Holds(u)' => Taken(sender'[u].packet)
    BY <1>6 DEF AllTaken
  <2> QED
    BY <1>3, <2>2, <2>3 DEF AllTaken, Taken
<1>8. AllClear'
  <2>1. \A u \in Senders :
          u # t /\ Holds(u) => Clear(w, sender[u].packet) /\ Clear(sender[u].packet, w)
    BY <1>2, <1>3 DEF AllClear, Clear, Local!Apart
  <2>2. \A i \in DOMAIN sent : Clear(w, sent[i]) /\ Clear(sent[i], w)
    BY <1>2, <1>3 DEF AllClear, Clear, Local!Apart
  <2>3. \A u, v \in Senders :
          u # v /\ Holds(u)' /\ Holds(v)' => Clear(sender'[u].packet, sender'[v].packet)
    BY <1>6 DEF AllClear
  <2>4. \A u \in Senders, i \in DOMAIN sent' :
          Holds(u)' => Clear(sender'[u].packet, sent'[i]) /\ Clear(sent'[i], sender'[u].packet)
    BY <1>2, <1>3, <1>6, <2>1, Appended DEF AllClear
  <2>5. \A i, j \in DOMAIN sent' : i # j => Clear(sent'[i], sent'[j])
    BY <1>2, <1>3, <2>2, Appended DEF AllClear
  <2> QED
    BY <2>3, <2>4, <2>5 DEF AllClear, Clear
<1> QED
  BY <1>5, <1>7, <1>8

\* A feedback packet takes its span and goes out in one critical section.
LEMMA SendFeedbackKeeps ==
  ASSUME SendInv, NEW t \in Senders, Local!SendFeedback(t)
  PROVE  SendInv'
<1> USE DEF SendInv
<1>1. CASE Local!Exhausted(Local!Span(FeedbackSize))
  BY <1>1 DEF Local!SendFeedback, SendTypes, AllTaken, AllClear, Taken, Holds, Clear, Local!Apart
<1>2. CASE ~Local!Exhausted(Local!Span(FeedbackSize))
  <2> DEFINE p == [pos |-> pos, size |-> FeedbackSize + Local!Block,
                   seq |-> Local!NoSeq, early |-> FALSE]
  <2>1. /\ keys \in BOOLEAN /\ current \in Nat /\ pos \in Nat /\ seq \in Nat
        /\ FeedbackSize + Local!Block \in Nat /\ pos <= Limit
    BY Constants DEF SendTypes, AllTaken, Local!Block
  <2>2. p \in Packets
    BY <2>1 DEF Packets, Local!NoSeq
  <2>3. PICK w \in WirePackets :
        /\ w = Local!OnWire(p) /\ w.pos = pos /\ w.size = FeedbackSize + Local!Block
        /\ w.seq = Local!NoSeq /\ w.early = FALSE /\ w.mac = Local!KeyIndex(pos)
    BY <2>1, <2>2, WireType
  <2>4. /\ pos' = pos + Local!Span(FeedbackSize)
        /\ sent' = Append(sent, w)
        /\ current' = Local!NewCurrent(current, pos)
        /\ UNCHANGED <<keys, seq, sender, failed>> /\ keys
    BY <1>2, <2>3 DEF Local!SendFeedback
  <2>5. /\ pos' \in Nat /\ pos' >= pos /\ pos' <= Limit /\ seq' = seq
        /\ w.pos + w.size = pos' /\ current' \in Nat
    <3>1. current' \in Nat
      BY <2>1, <2>4, MacIsRight
    <3>2. FeedbackSize \in Nat /\ Limit \in Nat /\ Local!Block = 1
      BY Constants DEF Local!Block
    <3>3. pos' = pos + (FeedbackSize + 1) /\ ~(Limit - pos < FeedbackSize + 1)
      BY <1>2, <2>4, <3>2 DEF Local!Exhausted, Local!Span
    <3> QED
      BY <2>1, <2>3, <2>4, <3>1, <3>2, <3>3
  <2>6. SendTypes'
    BY <2>3, <2>4, <2>5, Appended DEF SendTypes
  <2>7. AllTaken'
    <3>1. Taken(w)'
      BY <2>1, <2>3, <2>4, <2>5 DEF Taken, Local!NoSeq
    <3>2. \A u \in Senders : Holds(u) => Taken(sender[u].packet)'
      BY <2>1, <2>4, <2>5, Fields, TakenStays DEF Taken, AllTaken
    <3>3. \A i \in DOMAIN sent : Taken(sent[i])'
      BY <2>1, <2>3, <2>4, <2>5, Fields, TakenStays, Appended DEF Taken, AllTaken
    <3> QED
      BY <2>3, <2>4, <2>5, <3>1, <3>2, <3>3, Appended DEF AllTaken, Holds
  <2>8. AllClear'
    <3>1. \A u \in Senders : Holds(u) => Clear(w, sender[u].packet) /\ Clear(sender[u].packet, w)
      BY <2>1, <2>3, Fields, FreshIsClear, Constants DEF AllTaken, Local!Block
    <3>2. \A i \in DOMAIN sent : Clear(w, sent[i]) /\ Clear(sent[i], w)
      BY <2>1, <2>3, Fields, FreshIsClear, Constants DEF AllTaken, Local!Block
    <3> QED
      <4> HIDE DEF p
      <4>1. /\ DOMAIN sent' = DOMAIN sent \cup {Len(sent) + 1}
            /\ Len(sent) + 1 \notin DOMAIN sent
            /\ sent'[Len(sent) + 1] = w
            /\ \A i \in DOMAIN sent : sent'[i] = sent[i]
        BY <2>3, <2>4, Appended
      <4>2. \A u, v \in Senders :
              u # v /\ Holds(u) /\ Holds(v) => Clear(sender[u].packet, sender[v].packet)
        BY DEF AllClear
      <4>3. \A u \in Senders, i \in DOMAIN sent' :
              Holds(u) => Clear(sender[u].packet, sent'[i]) /\ Clear(sent'[i], sender[u].packet)
        BY <4>1, <3>1 DEF AllClear
      <4>4. \A i, j \in DOMAIN sent' : i # j => Clear(sent'[i], sent'[j])
        BY <4>1, <3>2 DEF AllClear
      <4> QED
        BY <2>4, <4>2, <4>3, <4>4 DEF AllClear, Clear, Holds
  <2> QED
    BY <2>6, <2>7, <2>8
<1> QED
  BY <1>1, <1>2

(***************************************************************************)
(* The theorem                                                             *)
(***************************************************************************)
\* The inductive invariant says of the sent packets what the property asks.
LEMMA SendInvImplies == SendInv => FreshPackets
<1> SUFFICES ASSUME SendInv PROVE Local!FreshPackets
  BY DEF FreshPackets
<1>1. Local!TypeOK
  BY DEF SendInv, SendTypes, Local!TypeOK
<1>2. \A i \in DOMAIN sent : sent[i].pos + sent[i].size <= Limit
  BY DEF SendInv, AllTaken, Taken
<1> QED
  BY <1>1, <1>2 DEF SendInv, AllTaken, AllClear, Clear, Local!FreshPackets, Local!Keyed

\* Each step of the sending half keeps the invariant.
LEMMA LocalKeeps == SendInv /\ Local!Next => SendInv'
<1> SUFFICES ASSUME SendInv, Local!Next PROVE SendInv'
  OBVIOUS
<1>1. ASSUME NEW t \in Senders, Local!SendData(t)
      PROVE  SendInv'
  BY <1>1, TakePositionKeeps DEF Local!SendData
<1>2. ASSUME NEW t \in Senders, Local!SendPlain(t)
      PROVE  SendInv'
  <2>1. Local!Block \in 1 .. MaxSize
    BY Constants DEF Local!Block
  <2> QED
    BY <1>2, <2>1, TakePositionKeeps DEF Local!SendPlain
<1>3. ASSUME NEW t \in Senders, Local!TakeNumber(t) \/ Local!Send(t) \/ Local!SendFeedback(t)
      PROVE  SendInv'
  BY <1>3, TakeNumberKeeps, SendKeeps, SendFeedbackKeeps
<1>4. CASE Local!SetCrypt
  BY <1>4 DEF Local!SetCrypt, SendInv, SendTypes, AllTaken, AllClear, Taken, Clear, Holds
<1>5. CASE Local!Quiet
  BY <1>5 DEF Local!Quiet, Local!vars, SendInv, SendTypes, AllTaken, AllClear, Taken, Clear, Holds
<1> QED
  BY <1>1, <1>2, <1>3, <1>4, <1>5 DEF Local!Next

\* And no step of the others touches it.
LEMMA SendInvStays == SendInv /\ [Next]_vars => SendInv'
<1> SUFFICES ASSUME SendInv, [Next]_vars PROVE SendInv'
  OBVIOUS
<1>1. CASE Sent(Local!Next)
  BY <1>1, LocalKeeps DEF Sent
<1>2. ASSUME UNCHANGED sendVars
      PROVE  SendInv'
  BY <1>2 DEF sendVars, SendInv, SendTypes, AllTaken, AllClear, Taken, Clear, Holds
<1> QED
  BY <1>1, <1>2 DEF Next, Received, Exchanged, vars

\* Two packets that were sent under the keys never share key stream, none
\* goes past the limit, each has the MAC of its position and each message a
\* number of its own (takion.c:314-337, :427-445).
THEOREM Fresh == Spec => []FreshPackets
<1>1. Init => SendInv
  BY SendStarts DEF Init
<1> QED
  BY <1>1, SendInvStays, SendInvImplies, PTL DEF Spec

(***************************************************************************)
(* What is received: the ring and the positions                            *)
(***************************************************************************)
\* The constants of the ring.
LEMMA RingConstants ==
  /\ Chunk \in Nat \ {0} /\ Chunks \in Nat \ {0} /\ MaxLength \in Nat \ {0} /\ MaxPos \in Nat
  /\ IntHalf \in Nat \ {0}
  /\ Remote!Size \in Nat /\ Chunk <= Remote!Size
  /\ Half \in Nat /\ SeqSpace = 2 * Half /\ Half >= 2 /\ Refresh \in Nat \ {0}
<1>1. /\ Chunk \in Nat \ {0} /\ Chunks \in Nat \ {0} /\ MaxLength \in Nat \ {0} /\ MaxPos \in Nat
      /\ IntHalf \in Nat \ {0}
  BY KeysAssumption DEF Remote!KeyStreamAssumption
<1>2. Chunk * Chunks \in Nat /\ Chunk <= Chunk * Chunks
  BY <1>1
<1> QED
  BY <1>1, <1>2, SeqSpaceAssumption, GmacAssumption DEF Remote!Size, Half

\* A place less than a ring outside of it, on either side.
LEMMA Wrapped ==
  ASSUME NEW x \in -Remote!Size .. 2 * Remote!Size - 1
  PROVE  x % Remote!Size = IF x < 0 THEN x + Remote!Size
                           ELSE IF x < Remote!Size THEN x ELSE x - Remote!Size
<1> DEFINE K == Remote!Size
<1>1. K \in Nat /\ K >= 1
  BY RingConstants
<1> HIDE DEF K
<1>2. PICK q \in Int, r \in 0 .. K - 1 : x = K * q + r /\ r = x % K
  <2>1. x \div K \in Int /\ x % K \in 0 .. K - 1 /\ x = K * (x \div K) + (x % K)
    BY <1>1 DEF K
  <2> QED
    BY <2>1
<1>3. q \in {-1, 0, 1}
  <2>1. CASE q <= -2
    <3>1. K * q <= -2 * K
      BY <1>1, <2>1
    <3> QED
      BY <1>1, <1>2, <3>1 DEF K
  <2>2. CASE q >= 2
    <3>1. K * q >= 2 * K
      BY <1>1, <2>2
    <3> QED
      BY <1>1, <1>2, <3>1 DEF K
  <2> QED
    BY <2>1, <2>2
<1>4. q = -1 => K * q = -K
  BY <1>1
<1>5. q = 0 => K * q = 0
  BY <1>1
<1>6. q = 1 => K * q = K
  BY <1>1
<1> QED
  BY <1>1, <1>2, <1>3, <1>4, <1>5, <1>6 DEF K

\* What the ring shows from min on, as far as an int counts.
Content ==
  \A i \in 0 .. populated - 1 : min + i < IntHalf => buf[(start + i) % Remote!Size] = min + i

\* Whole chunks are readable, and there is room for the one that is generated.
Room ==
  /\ \E c \in 0 .. Chunks : populated = c * Chunk
  /\ thread = "generates" => populated + Chunk <= Remote!Size

RingInv == Remote!TypeOK /\ Content /\ Room /\ used.pos = prev /\ Remote!OpenedRight

\* A position is its high part and its low one.
LEMMA LowIs ==
  ASSUME NEW p \in Nat
  PROVE  \E q \in Nat : p = SeqSpace * q + Remote!Low(p) /\ Remote!Low(p) \in 0 .. SeqSpace - 1
<1>1. SeqSpace \in Nat /\ SeqSpace >= 1
  BY RingConstants
<1>2. p \div SeqSpace \in Nat /\ p % SeqSpace \in 0 .. SeqSpace - 1
      /\ p = SeqSpace * (p \div SeqSpace) + (p % SeqSpace)
  BY <1>1
<1> QED
  BY <1>2 DEF Remote!Low

\* The receiver finds the whole position from its low part, while the packet
\* is late or ahead by less than half the low numbers.
LEMMA PositionIs ==
  ASSUME prev \in Nat, NEW p \in Nat, p - prev < Half, prev - p < Half
  PROVE  Remote!RequestPos(Remote!Low(p)) = p
<1> DEFINE low == Remote!Low(p)
           prevLow == Remote!Low(prev)
<1>1. PICK q \in Nat : p = SeqSpace * q + low /\ low \in 0 .. SeqSpace - 1
  BY LowIs
<1>2. PICK r \in Nat : prev = SeqSpace * r + prevLow /\ prevLow \in 0 .. SeqSpace - 1
  BY LowIs
<1>3. SeqSpace \in Nat /\ Half \in Nat /\ SeqSpace = 2 * Half /\ Half >= 2
  BY RingConstants
<1> HIDE DEF low, prevLow
<1>4. PICK A \in Nat : A = SeqSpace * q
  BY <1>3
<1>5. PICK B \in Nat : B = SeqSpace * r
  BY <1>3
<1>6. \/ A = B
      \/ A = B + SeqSpace
      \/ B = A + SeqSpace /\ B > 0
  <2>1. CASE q >= r + 2
    <3>1. SeqSpace * q >= SeqSpace * r + 2 * SeqSpace
      BY <1>3, <2>1
    <3> QED
      BY <1>1, <1>2, <1>3, <1>4, <1>5, <3>1
  <2>2. CASE r >= q + 2
    <3>1. SeqSpace * r >= SeqSpace * q + 2 * SeqSpace
      BY <1>3, <2>2
    <3> QED
      BY <1>1, <1>2, <1>3, <1>4, <1>5, <3>1
  <2>3. CASE q = r
    BY <1>4, <1>5, <2>3
  <2>4. CASE q = r + 1
    BY <1>3, <1>4, <1>5, <2>4
  <2>5. CASE r = q + 1
    BY <1>3, <1>4, <1>5, <2>5
  <2> QED
    BY <2>1, <2>2, <2>3, <2>4, <2>5
<1>7. p = A + low /\ prev = B + prevLow
  BY <1>1, <1>2, <1>4, <1>5
<1>8. /\ Remote!SeqGt(low, prevLow)
           <=> (low < prevLow /\ prevLow - low > Half) \/ (low > prevLow /\ low - prevLow < Half)
      /\ Remote!SeqLt(low, prevLow)
           <=> (low < prevLow /\ prevLow - low < Half) \/ (low > prevLow /\ low - prevLow > Half)
  BY DEF Remote!SeqGt, Remote!SeqLt, Remote!Half, Half
<1>9. Remote!RequestPos(low)
        = CASE Remote!SeqGt(low, prevLow) /\ low < prevLow -> B + SeqSpace + low
            [] Remote!SeqLt(low, prevLow) /\ low > prevLow /\ B > 0 -> B - SeqSpace + low
            [] OTHER -> B + low
  <2>1. prev - prevLow = B
    BY <1>2, <1>7
  <2> QED
    BY <2>1 DEF Remote!RequestPos, prevLow
<1>10. CASE A = B
  <2>1. ~(Remote!SeqGt(low, prevLow) /\ low < prevLow)
        /\ ~(Remote!SeqLt(low, prevLow) /\ low > prevLow)
    BY <1>1, <1>2, <1>3, <1>7, <1>8, <1>10
  <2> QED
    BY <1>7, <1>9, <1>10, <2>1 DEF low
<1>11. CASE A = B + SeqSpace
  <2>1. Remote!SeqGt(low, prevLow) /\ low < prevLow
    BY <1>1, <1>2, <1>3, <1>7, <1>8, <1>11
  <2>2. ~(low > prevLow)
    BY <1>1, <1>2, <2>1
  <2> QED
    BY <1>7, <1>9, <1>11, <2>1, <2>2 DEF low
<1>12. CASE B = A + SeqSpace /\ B > 0
  <2>1. Remote!SeqLt(low, prevLow) /\ low > prevLow
    BY <1>1, <1>2, <1>3, <1>7, <1>8, <1>12
  <2>2. ~(low < prevLow) /\ B - SeqSpace = A
    BY <1>1, <1>2, <1>3, <1>12, <2>1
  <2> QED
    BY <1>7, <1>9, <1>12, <2>1, <2>2 DEF low
<1> QED
  BY <1>6, <1>10, <1>11, <1>12

\* Whole chunks up to the ring's size leave room for one more, or none.
LEMMA RoomForOne ==
  ASSUME NEW c \in 0 .. Chunks
  PROVE  /\ c * Chunk \in 0 .. Remote!Size
         /\ c * Chunk # Remote!Size => c + 1 \in 0 .. Chunks
                                       /\ c * Chunk + Chunk = (c + 1) * Chunk
                                       /\ c * Chunk + Chunk <= Remote!Size
         /\ c * Chunk = Remote!Size => c - 1 \in 0 .. Chunks
                                       /\ c * Chunk - Chunk = (c - 1) * Chunk
<1>1. c \in Nat /\ Chunk \in Nat \ {0} /\ Chunks \in Nat \ {0} /\ c <= Chunks
  BY RingConstants
<1>2. c * Chunk \in Nat /\ c * Chunk <= Chunks * Chunk /\ Chunks * Chunk = Remote!Size
  BY <1>1 DEF Remote!Size
<1>3. (c + 1) * Chunk = c * Chunk + Chunk /\ (c - 1) * Chunk = c * Chunk - Chunk
  BY <1>1
<1>4. c + 1 <= Chunks => (c + 1) * Chunk <= Chunks * Chunk
  BY <1>1
<1>5. c = Chunks => c * Chunk = Remote!Size
  BY <1>2
<1>6. c = 0 => c * Chunk = 0
  BY <1>1
<1>7. Remote!Size \in Nat /\ Remote!Size >= 1
  BY RingConstants
<1> QED
  BY <1>1, <1>2, <1>3, <1>4, <1>5, <1>6, <1>7

\* Two places of the ring less than a ring apart are different slots.
LEMMA OtherSlot ==
  ASSUME NEW s \in Remote!Slots, NEW i \in Nat, NEW j \in Nat, i < j, j < Remote!Size
  PROVE  (s + i) % Remote!Size # (s + j) % Remote!Size
<1> DEFINE K == Remote!Size
<1>1. K \in Nat /\ s \in 0 .. K - 1
  BY RingConstants DEF Remote!Slots
<1> HIDE DEF K
<1>2. (s + i) % K = (IF s + i < K THEN s + i ELSE s + i - K)
  <2>1. s + i \in -K .. 2 * K - 1
    BY <1>1 DEF K
  <2> QED
    BY <1>1, <2>1, Wrapped DEF K
<1>3. (s + j) % K = (IF s + j < K THEN s + j ELSE s + j - K)
  <2>1. s + j \in -K .. 2 * K - 1
    BY <1>1 DEF K
  <2> QED
    BY <1>1, <2>1, Wrapped DEF K
<1>4. (s + i) % K # (s + j) % K
  BY <1>1, <1>2, <1>3 DEF K
<1> QED
  BY <1>4 DEF K

\* From slot s, i slots on and then j.
LEMMA SlotsOn ==
  ASSUME NEW s \in Remote!Slots, NEW i \in Nat, NEW j \in Nat, i + j < Remote!Size
  PROVE  (((s + i) % Remote!Size) + j) % Remote!Size = (s + (i + j)) % Remote!Size
<1> DEFINE K == Remote!Size
<1>1. K \in Nat /\ s \in 0 .. K - 1 /\ i + j < K
  BY RingConstants DEF Remote!Slots
<1> HIDE DEF K
<1>2. PICK x \in 0 .. K - 1 : x = (s + i) % K /\ x = (IF s + i < K THEN s + i ELSE s + i - K)
  <2>1. s + i \in -K .. 2 * K - 1
    BY <1>1
  <2>2. (s + i) % K = (IF s + i < K THEN s + i ELSE s + i - K)
    BY <1>1, <2>1, Wrapped DEF K
  <2> QED
    BY <1>1, <2>2
<1>3. (x + j) % K = (IF x + j < K THEN x + j ELSE x + j - K)
  <2>1. x + j \in -K .. 2 * K - 1
    BY <1>1, <1>2
  <2> QED
    BY <1>1, <1>2, <2>1, Wrapped DEF K
<1>4. (s + (i + j)) % K = (IF s + i + j < K THEN s + i + j ELSE s + i + j - K)
  <2>1. s + (i + j) \in -K .. 2 * K - 1
    BY <1>1
  <2> QED
    BY <1>1, <2>1, Wrapped DEF K
<1>5. (x + j) % K = (s + (i + j)) % K
  BY <1>1, <1>2, <1>3, <1>4
<1> QED
  BY <1>2, <1>5 DEF K

\* What a slot has to say of the place it is: how far it is from the start.
LEMMA SlotsBack ==
  ASSUME NEW s \in Remote!Slots, NEW p \in Nat, NEW k \in Nat, p + k < Remote!Size
  PROVE  ((((s + p + k) % Remote!Size) - s) - p) % Remote!Size = k
<1> DEFINE K == Remote!Size
<1>1. K \in Nat /\ s \in 0 .. K - 1 /\ p + k < K
  BY RingConstants DEF Remote!Slots
<1> HIDE DEF K
<1>2. PICK x \in Int : x = (s + p + k) % K /\ x = (IF s + p + k < K THEN s + p + k ELSE s + p + k - K)
  <2>1. s + p + k \in -K .. 2 * K - 1
    BY <1>1
  <2>2. (s + p + k) % K = (IF s + p + k < K THEN s + p + k ELSE s + p + k - K)
    BY <1>1, <2>1, Wrapped DEF K
  <2> QED
    BY <1>1, <2>2
<1>3. x - s - p \in {k, k - K}
  BY <1>1, <1>2
<1>4. (x - s - p) % K = k
  <2>1. x - s - p \in -K .. 2 * K - 1
    BY <1>1, <1>3
  <2>2. (x - s - p) % K = (IF x - s - p < 0 THEN x - s - p + K
                           ELSE IF x - s - p < K THEN x - s - p ELSE x - s - p - K)
    BY <2>1, Wrapped DEF K
  <2> QED
    BY <1>1, <1>3, <2>2
<1> QED
  BY <1>2, <1>4 DEF K

\* A key's index is a number, and it is the key that is used.
LEMMA RingKeys ==
  ASSUME NEW p \in Int, NEW c \in Nat
  PROVE  Remote!MacKey(c, p) = Remote!KeyIndex(p) /\ Remote!NewCurrent(c, p) \in Nat
<1>1. PICK n \in Nat : n = (IF p > 0 THEN p - 1 ELSE 0)
  OBVIOUS
<1>2. n \div Refresh \in Nat
  BY RingConstants
<1>3. Remote!KeyIndex(p) \in Nat
  BY <1>1, <1>2 DEF Remote!KeyIndex
<1> QED
  BY <1>3 DEF Remote!MacKey, Remote!NewCurrent

\* The rest of a small number is that number.
LEMMA SmallRest ==
  ASSUME NEW x \in Nat, NEW W \in Nat \ {0}
  PROVE  x % W \in 0 .. W - 1 /\ x % W <= x /\ (x < W => x % W = x)
<1> DEFINE q == x \div W
           k == x % W
<1>1. q \in Int /\ k \in 0 .. W - 1 /\ x = W * q + k
  OBVIOUS
<1> HIDE DEF q, k
<1>2. q <= -1 => W * q <= -W
  BY <1>1
<1>3. q = 0 => W * q = 0
  BY <1>1
<1>4. q >= 1 => W * q >= W
  BY <1>1
<1>5. k <= x /\ (x < W => k = x)
  BY <1>1, <1>2, <1>3, <1>4
<1> QED
  BY <1>1, <1>5 DEF k

\* An int holds a small counter as it is.
LEMMA IntHolds ==
  ASSUME NEW b \in Int
  PROVE  /\ Remote!Int32(b) \in Int
         /\ b \in 0 .. IntHalf - 1 => Remote!Int32(b) = b
<1> DEFINE H == IntHalf
<1>1. H \in Nat /\ H >= 1
  BY RingConstants
<1> HIDE DEF H
<1>2. PICK W \in Nat \ {0} : W = 2 * H
  BY <1>1
<1>3. (b + H) % W \in Int /\ (b \in 0 .. H - 1 => (b + H) % W = b + H)
  <2>1. (b + H) % W \in Int
    BY <1>1
  <2>2. ASSUME b \in 0 .. H - 1 PROVE (b + H) % W = b + H
    <3>1. b + H \in Nat /\ b + H < W
      BY <1>1, <1>2, <2>2
    <3> QED
      BY <3>1, SmallRest
  <2> QED
    BY <2>1, <2>2
<1>4. Remote!Int32(b) = ((b + H) % W) - H
  BY <1>2 DEF Remote!Int32, H
<1>5. H = IntHalf
  BY DEF H
<1> QED
  BY <1>1, <1>3, <1>4, <1>5

\* And so it is with the counter a block is made from.
LEMMA CounterIs ==
  ASSUME NEW b \in Nat, NEW i \in Nat, NEW wraps \in BOOLEAN
  PROVE  /\ Remote!Counter(b, i, wraps) \in Int
         /\ b + i < IntHalf => Remote!Counter(b, i, wraps) = b + i
<1>1. IntHalf \in Nat
  BY RingConstants
<1>2. Remote!Int32(b) \in Int /\ Remote!Int32(b) + i \in Int
  BY IntHolds
<1>3. Remote!Int32(Remote!Int32(b) + i) \in Int
  BY <1>2, IntHolds
<1>4. ASSUME b + i < IntHalf
      PROVE  Remote!Int32(b) + i = b + i /\ Remote!Int32(Remote!Int32(b) + i) = b + i
  <2>1. b \in 0 .. IntHalf - 1 /\ b + i \in 0 .. IntHalf - 1 /\ b + i \in Int
    BY <1>1, <1>4
  <2>2. Remote!Int32(b) = b
    BY <2>1, IntHolds
  <2>3. Remote!Int32(b + i) = b + i
    BY <2>1, IntHolds
  <2> QED
    BY <2>2, <2>3
<1> QED
  BY <1>2, <1>3, <1>4 DEF Remote!Counter

\* The first position is decrypted from no ring.
LEMMA RingStarts == Remote!Init => RingInv
<1> SUFFICES ASSUME Remote!Init PROVE RingInv
  OBVIOUS
<1>1. /\ prev = 0 /\ buf = [s \in Remote!Slots |-> Remote!Garbage]
      /\ populated = 0 /\ min = 0 /\ start = 0 /\ last = 0
      /\ thread = "looks" /\ signal = FALSE /\ stop = FALSE /\ mac = 0
      /\ used = [pos |-> 0, mac |-> 0, stream |-> [i \in 0 .. 0 |-> 1]]
  BY DEF Remote!Init
<1>2. Remote!TypeOK
  <2>1. buf \in [Remote!Slots -> Int]
    BY <1>1, RingConstants DEF Remote!Garbage
  <2>2. start \in Remote!Slots /\ populated \in 0 .. Remote!Size /\ prev \in Remote!Positions
    BY <1>1, RingConstants DEF Remote!Positions, Remote!Slots
  <2> QED
    BY <1>1, <2>1, <2>2 DEF Remote!TypeOK
<1>3. Content /\ Room
  <2>1. 0 \in 0 .. Chunks /\ 0 * Chunk = 0
    BY RingConstants
  <2> QED
    BY <1>1, <2>1 DEF Content, Room
<1>4. Remote!KeyIndex(0) = 0
  <2>1. 0 \div Refresh = 0
    BY RingConstants
  <2> QED
    BY <2>1 DEF Remote!KeyIndex
<1>5. /\ used.pos = 0 /\ used.mac = 0 /\ DOMAIN used.stream = 0 .. 0
      /\ \A i \in 0 .. 0 : used.stream[i] = 1 /\ i = 0
  BY <1>1
<1>6. Remote!OpenedRight
  BY <1>4, <1>5 DEF Remote!OpenedRight
<1> QED
  BY <1>1, <1>2, <1>3, <1>5, <1>6 DEF RingInv

\* An authentic packet: its whole position, its key and its key stream.
LEMMA AuthenticKeeps ==
  ASSUME RingInv, NEW p \in Remote!Positions, p - used.pos < Half, used.pos - p < Half,
         Remote!Authentic(p)
  PROVE  RingInv'
<1>1. /\ p \in Nat /\ prev \in Nat /\ used.pos = prev /\ min \in Nat /\ last \in Nat
      /\ mac \in Nat /\ populated \in 0 .. Remote!Size /\ start \in Remote!Slots
  BY RingConstants DEF RingInv, Remote!TypeOK, Remote!Positions
<1>2. Remote!RequestPos(Remote!Low(p)) = p
  BY <1>1, PositionIs
<1>3. PICK n \in 1 .. MaxLength, wraps \in BOOLEAN :
        /\ last' = (IF p + 1 + n > last THEN p + 1 + n ELSE last)
        /\ signal' = Remote!ShouldGenerate(last')
        /\ used' = [pos |-> p, mac |-> Remote!MacKey(mac, p), stream |-> Remote!Stream(p + 1, n, wraps)]
  BY <1>2 DEF Remote!Authentic
<1>4. /\ prev' = p /\ mac' = Remote!NewCurrent(mac, p)
      /\ UNCHANGED <<buf, populated, min, start, thread, stop>>
  BY <1>2 DEF Remote!Authentic, Remote!ringVars
<1>5. Remote!TypeOK'
  <2>1. n \in Nat /\ last' \in Nat
    BY <1>1, <1>3, RingConstants
  <2>2. signal' \in BOOLEAN
    BY <1>3 DEF Remote!ShouldGenerate
  <2>3. mac' \in Nat
    BY <1>1, <1>4, RingKeys
  <2> QED
    BY <1>4, <2>1, <2>2, <2>3 DEF RingInv, Remote!TypeOK
<1>6. Content' /\ Room'
  BY <1>4 DEF RingInv, Content, Room
<1>7. used.pos' = prev' /\ used'.pos = p /\ used'.mac = Remote!KeyIndex(p)
      /\ used'.stream = Remote!Stream(p + 1, n, wraps)
  BY <1>1, <1>3, <1>4, RingKeys
<1>8. \A i \in 0 .. n - 1 :
        p + 1 + i < IntHalf => Remote!Stream(p + 1, n, wraps)[i] = p + 1 + i
  <2> SUFFICES ASSUME NEW i \in 0 .. n - 1, p + 1 + i < IntHalf
               PROVE  Remote!Stream(p + 1, n, wraps)[i] = p + 1 + i
    OBVIOUS
  <2>1. Remote!Stream(p + 1, n, wraps)[i]
          = IF Remote!InRing(p + 1, n)
            THEN buf[Remote!Slot(p + 1 + i)] ELSE Remote!Counter(p + 1, i, wraps)
    BY DEF Remote!Stream
  <2>2. CASE Remote!InRing(p + 1, n)
    <3>1. PICK k \in 0 .. populated - 1 : k = p + 1 + i - min
      BY <1>1, <2>2, RingConstants DEF Remote!InRing
    <3>2. Remote!Slot(p + 1 + i) = (start + k) % Remote!Size
      <4>1. start \in Nat
        BY <1>1, RingConstants DEF Remote!Slots
      <4>2. (p + 1 + i) - min + start = start + k
        BY <1>1, <3>1, <4>1
      <4>3. Remote!Slot(p + 1 + i) = ((p + 1 + i) - min + start) % Remote!Size
        BY DEF Remote!Slot
      <4> QED
        BY <4>2, <4>3, Zenon
    <3>3. min + k = p + 1 + i
      BY <1>1, <3>1
    <3>4. buf[(start + k) % Remote!Size] = min + k
      BY <3>3 DEF RingInv, Content
    <3> QED
      BY <2>1, <2>2, <3>2, <3>3, <3>4
  <2>3. Remote!Counter(p + 1, i, wraps) = p + 1 + i
    <3>1. p + 1 \in Nat /\ i \in Nat
      BY <1>1
    <3> QED
      BY <3>1, CounterIs
  <2> QED
    BY <2>1, <2>2, <2>3
<1>9. DOMAIN Remote!Stream(p + 1, n, wraps) = 0 .. n - 1
  BY DEF Remote!Stream
<1>10. Remote!OpenedRight'
  BY <1>7, <1>8, <1>9 DEF Remote!OpenedRight
<1> QED
  BY <1>5, <1>6, <1>7, <1>10 DEF RingInv

\* A damaged one moves the current key only.
LEMMA DamagedKeeps ==
  ASSUME RingInv, NEW low \in SeqNums, Remote!Damaged(low)
  PROVE  RingInv'
<1>1. Remote!RequestPos(low) \in Int
  <2>1. prev \in Nat /\ SeqSpace \in Nat \ {0}
    BY RingConstants DEF RingInv, Remote!TypeOK, Remote!Positions
  <2>2. Remote!Low(prev) \in Int
    BY <2>1 DEF Remote!Low
  <2>3. low \in Int
    BY <2>1 DEF SeqNums
  <2> QED
    BY <2>1, <2>2, <2>3 DEF Remote!RequestPos
<1>2. mac' \in Nat
  BY <1>1, RingKeys DEF RingInv, Remote!TypeOK, Remote!Damaged
<1> QED
  BY <1>2
     DEF Remote!Damaged, Remote!ringVars, RingInv, Remote!TypeOK, Content, Room, Remote!OpenedRight

\* The thread begins a chunk: the slots it writes are not readable.
LEMMA GenerateBeginsKeeps ==
  ASSUME RingInv, Remote!GenerateBegins
  PROVE  RingInv'
<1>1. /\ min \in Nat /\ last \in Nat /\ populated \in 0 .. Remote!Size /\ start \in Remote!Slots
      /\ buf \in [Remote!Slots -> Int]
  BY DEF RingInv, Remote!TypeOK
<1>2. /\ Remote!MakeRoom
      /\ buf' = [s \in Remote!Slots |->
                   IF s \in Remote!NextSlots(populated', start') THEN Remote!Garbage ELSE buf[s]]
      /\ thread' = "generates"
      /\ UNCHANGED <<prev, last, signal, stop, mac, used>>
  BY DEF Remote!GenerateBegins
<1>3. Remote!Size \in Nat /\ Chunk \in Nat \ {0} /\ Chunk <= Remote!Size
  BY RingConstants
<1>4. PICK c \in 0 .. Chunks : populated = c * Chunk
  BY DEF RingInv, Room
\* What is left readable, where it starts, and what it holds.
<1>5. /\ min' \in Nat /\ start' \in Remote!Slots
      /\ populated' \in 0 .. Remote!Size /\ populated' + Chunk <= Remote!Size
      /\ \E d \in 0 .. Chunks : populated' = d * Chunk
      /\ \A i \in 0 .. populated' - 1 :
           min' + i < IntHalf => buf[(start' + i) % Remote!Size] = min' + i
  <2>1. CASE last > min + populated
    <3>1. min' = (last \div Chunk) * Chunk /\ start' = 0 /\ populated' = 0
      BY <1>2, <2>1 DEF Remote!MakeRoom
    <3>2. last \div Chunk \in Nat
      BY <1>1, <1>3
    <3>3. min' \in Nat
      BY <1>3, <3>1, <3>2
    <3>4. 0 \in 0 .. Chunks /\ 0 * Chunk = 0
      BY RingConstants
    <3> QED
      BY <1>3, <3>1, <3>3, <3>4 DEF Remote!Slots
  <2>2. CASE ~(last > min + populated) /\ populated = Remote!Size
    <3>1. start' = (start + Chunk) % Remote!Size /\ min' = min + Chunk
          /\ populated' = Remote!Size - Chunk
      BY <1>2, <2>2 DEF Remote!MakeRoom
    <3>2. start' \in Remote!Slots
      <4>1. start + Chunk \in Int /\ Remote!Size \in Nat \ {0}
        BY <1>1, <1>3 DEF Remote!Slots
      <4> QED
        BY <3>1, <4>1 DEF Remote!Slots
    <3>3. c - 1 \in 0 .. Chunks /\ populated' = (c - 1) * Chunk
      BY <1>4, <2>2, <3>1, RoomForOne
    <3>4. ASSUME NEW i \in 0 .. populated' - 1, min' + i < IntHalf
          PROVE  buf[(start' + i) % Remote!Size] = min' + i
      <4>1. i \in Nat /\ Chunk + i \in 0 .. populated - 1 /\ Chunk + i < Remote!Size
        BY <1>3, <2>2, <3>1
      <4>2. (start' + i) % Remote!Size = (start + (Chunk + i)) % Remote!Size
        BY <1>1, <1>3, <3>1, <4>1, SlotsOn
      <4>3. min + (Chunk + i) = min' + i
        BY <1>1, <1>3, <3>1, <4>1
      <4>4. buf[(start + (Chunk + i)) % Remote!Size] = min + (Chunk + i)
        BY <3>4, <4>1, <4>3 DEF RingInv, Content
      <4> QED
        BY <4>2, <4>3, <4>4
    <3> QED
      BY <1>1, <1>3, <3>1, <3>2, <3>3, <3>4
  <2>3. CASE ~(last > min + populated) /\ populated # Remote!Size
    <3>1. UNCHANGED <<min, start, populated>>
      BY <1>2, <2>3 DEF Remote!MakeRoom
    <3>2. populated + Chunk <= Remote!Size
      BY <1>4, <2>3, RoomForOne
    <3> QED
      BY <1>1, <1>4, <3>1, <3>2 DEF RingInv, Content
  <2> QED
    BY <2>1, <2>2, <2>3
<1>6. Remote!TypeOK'
  <2>1. buf' \in [Remote!Slots -> Int]
    BY <1>1, <1>2, RingConstants DEF Remote!Garbage
  <2> QED
    BY <1>2, <1>5, <2>1 DEF RingInv, Remote!TypeOK
<1>7. Content'
  <2> SUFFICES ASSUME NEW i \in 0 .. populated' - 1, min' + i < IntHalf
               PROVE  buf'[(start' + i) % Remote!Size] = min' + i
    BY DEF Content
  <2>1. (start' + i) % Remote!Size \notin Remote!NextSlots(populated', start')
    <3> SUFFICES ASSUME NEW j \in 0 .. Chunk - 1,
                        (start' + i) % Remote!Size = (start' + populated' + j) % Remote!Size
                 PROVE  FALSE
      BY DEF Remote!NextSlots
    <3>1. i \in Nat /\ populated' + j \in Nat /\ i < populated' + j /\ populated' + j < Remote!Size
      BY <1>3, <1>5
    <3>2. (start' + i) % Remote!Size # (start' + (populated' + j)) % Remote!Size
      BY <1>5, <3>1, OtherSlot
    <3>3. start' + (populated' + j) = start' + populated' + j
      BY <1>3, <1>5 DEF Remote!Slots
    <3> QED
      BY <3>2, <3>3
  <2>2. (start' + i) % Remote!Size \in Remote!Slots
    <3>1. start' + i \in Int /\ Remote!Size \in Nat \ {0}
      BY <1>3, <1>5 DEF Remote!Slots
    <3> QED
      BY <3>1 DEF Remote!Slots
  <2> QED
    BY <1>2, <1>5, <2>1, <2>2
<1>8. Room'
  BY <1>5 DEF Room
<1> QED
  BY <1>2, <1>6, <1>7, <1>8 DEF RingInv, Remote!OpenedRight

\* The chunk is readable: it follows what was.
LEMMA GenerateEndsKeeps ==
  ASSUME RingInv, Remote!GenerateEnds
  PROVE  RingInv'
<1>1. /\ min \in Nat /\ last \in Nat /\ populated \in 0 .. Remote!Size /\ start \in Remote!Slots
      /\ buf \in [Remote!Slots -> Int]
  BY DEF RingInv, Remote!TypeOK
<1>2. PICK wraps \in BOOLEAN :
      /\ thread = "generates" /\ thread' = "looks"
      /\ buf' = [s \in Remote!Slots |->
                   IF s \in Remote!NextSlots(populated, start)
                   THEN Remote!Counter(min + populated, (s - start - populated) % Remote!Size, wraps)
                   ELSE buf[s]]
      /\ populated' = populated + Chunk
      /\ UNCHANGED <<prev, min, start, last, signal, stop, mac, used>>
  BY DEF Remote!GenerateEnds
<1>3. Remote!Size \in Nat \ {0} /\ Chunk \in Nat \ {0} /\ populated + Chunk <= Remote!Size
  BY <1>2, RingConstants DEF RingInv, Room
<1>4. Room'
  <2>1. PICK c \in 0 .. Chunks : populated = c * Chunk
    BY DEF RingInv, Room
  <2>2. c + 1 \in 0 .. Chunks /\ populated' = (c + 1) * Chunk
    <3>1. c * Chunk # Remote!Size
      BY <1>1, <1>3, <2>1
    <3> QED
      BY <1>2, <2>1, <3>1, RoomForOne
  <2> QED
    BY <1>2, <2>2 DEF Room
<1>5. Remote!TypeOK'
  <2>1. ASSUME NEW s \in Remote!Slots
        PROVE  Remote!Counter(min + populated, (s - start - populated) % Remote!Size, wraps) \in Int
    <3>1. s - start - populated \in Int
      BY <1>1, <1>3 DEF Remote!Slots
    <3>2. (s - start - populated) % Remote!Size \in Nat
      BY <1>3, <3>1
    <3>3. min + populated \in Nat
      BY <1>1, <1>3
    <3> QED
      BY <3>2, <3>3, CounterIs
  <2>2. buf' \in [Remote!Slots -> Int]
    BY <1>1, <1>2, <2>1
  <2> QED
    BY <1>1, <1>2, <1>3, <2>2 DEF RingInv, Remote!TypeOK
<1>6. Content'
  <2> SUFFICES ASSUME NEW i \in 0 .. populated' - 1, min + i < IntHalf
               PROVE  buf'[(start + i) % Remote!Size] = min + i
    BY <1>2 DEF Content
  <2>1. (start + i) % Remote!Size \in Remote!Slots
    <3>1. start + i \in Int
      BY <1>1, <1>2, <1>3 DEF Remote!Slots
    <3> QED
      BY <1>3, <3>1 DEF Remote!Slots
  <2>2. CASE i < populated
    <3>1. (start + i) % Remote!Size \notin Remote!NextSlots(populated, start)
      <4> SUFFICES ASSUME NEW j \in 0 .. Chunk - 1,
                          (start + i) % Remote!Size = (start + populated + j) % Remote!Size
                   PROVE  FALSE
        BY DEF Remote!NextSlots
      <4>1. i \in Nat /\ populated + j \in Nat /\ i < populated + j /\ populated + j < Remote!Size
        BY <1>1, <1>2, <1>3, <2>2
      <4>2. (start + i) % Remote!Size # (start + (populated + j)) % Remote!Size
        BY <1>1, <4>1, OtherSlot
      <4>3. start + (populated + j) = start + populated + j
        BY <1>1, <1>3 DEF Remote!Slots
      <4> QED
        BY <4>2, <4>3
    <3>2. i \in 0 .. populated - 1
      BY <1>1, <1>2, <1>3, <2>2
    <3>3. buf[(start + i) % Remote!Size] = min + i
      BY <3>2 DEF RingInv, Content
    <3> QED
      BY <1>2, <2>1, <3>1, <3>3
  <2>3. CASE ~(i < populated)
    <3>1. PICK k \in 0 .. Chunk - 1 : i = populated + k
      <4>1. i - populated \in 0 .. Chunk - 1 /\ i = populated + (i - populated)
        BY <1>1, <1>2, <1>3, <2>3
      <4> QED
        BY <4>1
    <3>2. start + i = start + populated + k
      BY <1>1, <1>3, <3>1 DEF Remote!Slots
    <3>3. (start + i) % Remote!Size \in Remote!NextSlots(populated, start)
      BY <3>2 DEF Remote!NextSlots
    <3>4. ((((start + populated + k) % Remote!Size) - start) - populated) % Remote!Size = k
      BY <1>1, <1>3, <3>1, SlotsBack
    <3>5. buf'[(start + i) % Remote!Size] = Remote!Counter(min + populated, k, wraps)
      BY <1>2, <2>1, <3>2, <3>3, <3>4
    <3>6. min + populated + k = min + i /\ min + populated \in Nat /\ k \in Nat
      BY <1>1, <1>3, <3>1
    <3>7. Remote!Counter(min + populated, k, wraps) = min + populated + k
      BY <3>6, CounterIs
    <3> QED
      BY <3>5, <3>6, <3>7
  <2> QED
    BY <2>2, <2>3
<1> QED
  BY <1>2, <1>4, <1>5, <1>6 DEF RingInv, Remote!OpenedRight

\* Each step of the receiving half keeps the invariant.
LEMMA RemoteKeeps == RingInv /\ Remote!Next => RingInv'
<1> SUFFICES ASSUME RingInv, Remote!Next PROVE RingInv'
  OBVIOUS
<1>1. CASE Remote!Receive
  <2>1. ASSUME NEW p \in Remote!Positions, p - used.pos < Half, used.pos - p < Half,
               Remote!Authentic(p)
        PROVE  RingInv'
    BY <2>1, AuthenticKeeps
  <2>2. Remote!Half = Half /\ Remote!SeqNums = SeqNums
    BY DEF Remote!Half, Half, Remote!SeqNums, SeqNums
  <2> QED
    BY <1>1, <2>1, <2>2, DamagedKeeps DEF Remote!Receive
<1>2. CASE Remote!Signal \/ Remote!Fini \/ Remote!ThreadWaits \/ Remote!ThreadStops
           \/ Remote!GenerateFails
  <2>1. /\ UNCHANGED <<prev, buf, populated, min, start, last, mac, used>>
        /\ thread' = "generates" => thread = "generates"
    BY <1>2 DEF Remote!Signal, Remote!Fini, Remote!ThreadWaits, Remote!ThreadStops,
                Remote!GenerateFails, Remote!Wake, Remote!ringVars
  <2>2. thread' \in {"looks", "waits", "generates", "ended"}
    BY <1>2 DEF Remote!Signal, Remote!Fini, Remote!ThreadWaits, Remote!ThreadStops,
                Remote!GenerateFails, Remote!Wake, RingInv, Remote!TypeOK
  <2>3. signal' \in BOOLEAN /\ stop' \in BOOLEAN
    BY <1>2 DEF Remote!Signal, Remote!Fini, Remote!ThreadWaits, Remote!ThreadStops,
                Remote!GenerateFails, RingInv, Remote!TypeOK
  <2> QED
    BY <2>1, <2>2, <2>3 DEF RingInv, Remote!TypeOK, Content, Room, Remote!OpenedRight
<1>3. CASE Remote!Done
  BY <1>3 DEF Remote!Done, Remote!vars, Remote!ringVars, RingInv, Remote!TypeOK, Content, Room,
              Remote!OpenedRight
<1> QED
  BY <1>1, <1>2, <1>3, GenerateBeginsKeeps, GenerateEndsKeeps DEF Remote!Next, Remote!ThreadStep

\* And no step of the others touches it.
LEMMA RingInvStays == RingInv /\ [Next]_vars => RingInv'
<1> SUFFICES ASSUME RingInv, [Next]_vars PROVE RingInv'
  OBVIOUS
<1>1. CASE Received(Remote!Next)
  BY <1>1, RemoteKeeps DEF Received
<1>2. ASSUME UNCHANGED receiveVars
      PROVE  RingInv'
  BY <1>2 DEF receiveVars, RingInv, Remote!TypeOK, Content, Room, Remote!OpenedRight
<1> QED
  BY <1>1, <1>2 DEF Next, Sent, Exchanged, vars

(***************************************************************************)
(* The messages of the ctrl connection                                     *)
(***************************************************************************)
UserTypes == {"goto_bed", "text", "close"}
OwnTypes == {"dualsense", "signature", "pre_enable", "toggle", "heartbeat", "pin"}
Messages == [type : UserTypes \cup OwnTypes, payload : BOOLEAN, number : Nat]
UserMessages == [type : UserTypes, payload : BOOLEAN, number : Nat]
Kinds == {m.type : m \in Spoken}
ToldMessages == [type : Kinds, size : Nat, key : Int, place : Nat]

StreamTypes ==
  /\ told \in Seq(ToldMessages) /\ heard \in Seq([type : Kinds, key : Int])
  /\ arrived \in Nat /\ consumed \in Nat /\ remote \in Nat /\ typed \in BOOLEAN

SayTypes ==
  /\ target \in {"old", "ps4", "ps5"}
  /\ local \in Nat /\ counter \in Nat
  /\ queue \in Seq(UserMessages) /\ queued \in Seq(UserMessages)
  /\ said \in Seq([message : Messages, key : Int])

Flags ==
  /\ at \in {"connect", "drain", "select", "overflow", "ended", "undefined"}
  /\ broken \in BOOLEAN /\ pin \in BOOLEAN /\ stopped \in BOOLEAN

\* Nothing happens on the connection before it is made.
NothingYet ==
  at = "connect" => told = <<>> /\ heard = <<>> /\ said = <<>> /\ arrived = 0 /\ consumed = 0

\* Where a message ends.
End(i) == told[i].place + Header + told[i].size

\* The messages follow each other in the stream, from its beginning.
InStream ==
  /\ told # <<>> => told[1].place = 0
  /\ \A i \in DOMAIN told : i + 1 \in DOMAIN told => told[i + 1].place = End(i)
  /\ \A i, j \in DOMAIN told : i < j => End(i) <= told[j].place

\* How many of the first n told have a payload, and of the first n said; how
\* many of those are a user's.
Keyed(t, n) == Cardinality({i \in 1 .. n : t[i].size > 0})
Sealed(s, n) == Cardinality({i \in 1 .. n : s[i].message.payload})
Users(s, n) == Cardinality({i \in 1 .. n : s[i].message.type \in UserTypes})

\* The console's count starts with the type.
Base == IF typed THEN 1 ELSE 0

\* What is consumed are the messages that were heard, each whole.
Consumed ==
  /\ Len(heard) <= Len(told)
  /\ consumed = IF Len(heard) = Len(told) THEN Channel!Length ELSE told[Len(heard) + 1].place
  /\ consumed <= arrived /\ arrived <= Channel!Length

\* The console's counts and the receiver's.
Counted ==
  /\ \A i \in DOMAIN told :
       told[i].key = IF told[i].size = 0 THEN -1 ELSE Base + Keyed(told, i - 1)
  /\ at # "connect" => remote = Base + Keyed(told, Len(heard))

\* The sender's, while the sends succeed.
Closed == at # "connect" /\ ~broken => local = Channel!RequestKeys + Sealed(said, Len(said))

\* The queue is the end of what users queued.
QueueIsTail ==
  /\ Len(queue) <= Len(queued)
  /\ \A i \in DOMAIN queue : queue[i] = queued[Len(queued) - Len(queue) + i]

ChannelInv ==
  /\ StreamTypes /\ SayTypes /\ Flags /\ NothingYet
  /\ InStream /\ Consumed /\ Counted /\ Closed /\ QueueIsTail
  /\ Channel!HeardRight /\ Channel!SaidRight /\ Channel!QueueKeepsOrder /\ Channel!RoomIsLeft

\* The channel counts as the library does.
LEMMA SameCount ==
  ASSUME NEW S
  PROVE  Channel!Cardinality(S) = Cardinality(S)
BY DEF Channel!Cardinality, Cardinality

\* The properties, in these terms.
LEMMA InTheseTerms ==
  /\ Channel!SaidRight <=>
       \A i \in DOMAIN said :
         said[i].message.payload => said[i].key = Channel!RequestKeys + Sealed(said, i - 1)
  /\ Channel!QueueKeepsOrder <=>
       /\ Users(said, Len(said)) + Len(queue) <= Len(queued)
       /\ ~broken => Users(said, Len(said)) + Len(queue) = Len(queued)
       /\ \A i \in DOMAIN said :
            said[i].message.type \in UserTypes => said[i].message = queued[Users(said, i)]
<1>1. ASSUME NEW n
      PROVE  Channel!Passed(n) = Users(said, n)
  <2>1. Channel!Passed(n) = Channel!Cardinality({i \in 1 .. n : said[i].message.type \in UserTypes})
    BY DEF Channel!Passed, Channel!FromUsers, UserTypes
  <2> QED
    BY <2>1, SameCount DEF Users
<1>2. ASSUME NEW n
      PROVE  Channel!Cardinality({i \in 1 .. n : said[i].message.payload}) = Sealed(said, n)
  BY SameCount DEF Sealed
<1>3. Channel!SaidRight <=>
        \A i \in DOMAIN said :
          said[i].message.payload => said[i].key = Channel!RequestKeys + Sealed(said, i - 1)
  BY <1>2 DEF Channel!SaidRight
<1> QED
  BY <1>1, <1>3 DEF Channel!QueueKeepsOrder, Channel!FromUsers, UserTypes

\* How many of the first n places there are is a number.
LEMMA CountType ==
  ASSUME NEW n \in Nat, NEW S \in SUBSET (1 .. n)
  PROVE  IsFiniteSet(S) /\ Cardinality(S) \in Nat
<1>1. IsFiniteSet(1 .. n)
  BY FS_Interval
<1> QED
  BY <1>1, FS_Subset, FS_CardinalityType

\* U is some of the first L places, S, and some of the k after them, T.
IsJoin(U, S, L, T, k) ==
  /\ L \in Nat /\ k \in Nat
  /\ S \subseteq 1 .. L /\ T \subseteq 1 .. k
  /\ \A x : x \in U <=> x \in S \/ \E j \in T : x = L + j

\* To count some of the first L places, and some of k more.
LEMMA CountJoin ==
  ASSUME NEW L, NEW k, NEW S, NEW T, NEW U, IsJoin(U, S, L, T, k)
  PROVE  Cardinality(U) = Cardinality(S) + Cardinality(T)
<1> DEFINE V == {L + j : j \in T}
<1>0. L \in Nat /\ k \in Nat /\ S \in SUBSET (1 .. L) /\ T \in SUBSET (1 .. k)
  BY DEF IsJoin
<1>1. IsFiniteSet(S) /\ IsFiniteSet(T) /\ Cardinality(S) \in Nat /\ Cardinality(T) \in Nat
  BY <1>0, CountType
<1>2. IsFiniteSet(V) /\ Cardinality(V) = Cardinality(T)
  <2> DEFINE f == [j \in T |-> L + j]
  <2>1. f \in Bijection(T, V)
    <3>1. f \in [T -> V]
      OBVIOUS
    <3>2. \A a, b \in T : f[a] = f[b] => a = b
      BY <1>0
    <3>3. \A v \in V : \E a \in T : f[a] = v
      OBVIOUS
    <3> HIDE DEF f, V
    <3> QED
      BY <3>1, <3>2, <3>3 DEF Bijection, Injection, Surjection, IsInjective
  <2>2. ExistsBijection(T, V)
    BY <2>1 DEF ExistsBijection
  <2> HIDE DEF f, V
  <2> QED
    BY <1>1, <2>2, FS_Bijection
<1>3. S \cap V = {}
  BY <1>0
<1> HIDE DEF V
<1>4. Cardinality(S \cup V) = Cardinality(S) + Cardinality(V) - Cardinality(S \cap V)
  BY <1>1, <1>2, FS_Union
<1>5. Cardinality({}) = 0
  BY FS_EmptySet
<1>6. Cardinality(S \cup V) = Cardinality(S) + Cardinality(T) - 0
  BY <1>2, <1>3, <1>4, <1>5
<1>7. U = S \cup V
  BY DEF V, IsJoin
<1> QED
  BY <1>1, <1>6, <1>7

\* What is said after what was said.
LEMMA Joined ==
  ASSUME NEW E, NEW s \in Seq(E), NEW t \in Seq(E)
  PROVE  /\ s \o t \in Seq(E) /\ Len(s \o t) = Len(s) + Len(t)
         /\ \A i \in 1 .. Len(s) : (s \o t)[i] = s[i]
         /\ \A k \in 1 .. Len(t) : (s \o t)[Len(s) + k] = t[k]
<1>1. s \o t \in Seq(E) /\ Len(s \o t) = Len(s) + Len(t)
  OBVIOUS
<1>2. \A i \in 1 .. Len(s) : (s \o t)[i] = s[i]
  OBVIOUS
<1>3. ASSUME NEW k \in 1 .. Len(t) PROVE (s \o t)[Len(s) + k] = t[k]
  <2>1. Len(s) + k \in 1 .. Len(s) + Len(t) /\ ~(Len(s) + k <= Len(s)) /\ Len(s) + k - Len(s) = k
    OBVIOUS
  <2> QED
    BY <2>1
<1> QED
  BY <1>1, <1>2, <1>3

\* What a list adds to what was said, when its first n messages go out.
SaidMore(list, n) ==
  /\ said' \in Seq([message : Messages, key : Int])
  /\ Len(said') = Len(said) + n
  /\ \A i \in 1 .. Len(said) : said'[i] = said[i]
  /\ \A k \in 1 .. n :
       /\ said'[Len(said) + k].message = list[k]
       /\ said'[Len(said) + k].key =
            IF list[k].payload THEN local + Channel!Payloads(list, k - 1) ELSE -1

\* The messages that go out, under the counts they took.
LEMMA SendAllSays ==
  ASSUME SayTypes, Flags, NEW list \in Seq(Messages), Channel!SendAll(list)
  PROVE  \E n \in 0 .. Len(list) :
           /\ SaidMore(list, n)
           /\ broken => n = 0
           /\ broken' = (broken \/ n < Len(list))
           /\ local' = local + Channel!Payloads(list, Len(list)) /\ local' \in Nat
<1>1. PICK n \in 0 .. Len(list) :
        /\ broken => n = 0
        /\ said' = said \o SubSeq(Channel!Encrypted(list), 1, n)
        /\ broken' = (broken \/ n < Len(list))
  BY DEF Channel!SendAll
<1>2. \A k \in 0 .. Len(list) : Channel!Payloads(list, k) \in Nat
  <2> SUFFICES ASSUME NEW k \in 0 .. Len(list) PROVE Channel!Payloads(list, k) \in Nat
    OBVIOUS
  <2>1. IsFiniteSet(1 .. k) /\ k \in Nat
    BY FS_Interval
  <2>2. IsFiniteSet({i \in 1 .. k : list[i].payload})
    BY <2>1, FS_Subset
  <2> QED
    BY <2>2, FS_CardinalityType, SameCount DEF Channel!Payloads
<1> DEFINE e == Channel!Encrypted(list)
           entries == [message : Messages, key : Int]
<1>3. e = [i \in 1 .. Len(list) |->
             [message |-> list[i],
              key |-> IF list[i].payload THEN local + Channel!Payloads(list, i - 1) ELSE -1]]
  BY DEF Channel!Encrypted, Channel!KeysTaken, Channel!Unused
<1>4. \A i \in 1 .. Len(list) :
        e[i] \in entries /\ e[i].message = list[i]
        /\ e[i].key = IF list[i].payload THEN local + Channel!Payloads(list, i - 1) ELSE -1
  <2> SUFFICES ASSUME NEW i \in 1 .. Len(list)
               PROVE  e[i] \in entries /\ e[i].message = list[i]
        /\ e[i].key = IF list[i].payload THEN local + Channel!Payloads(list, i - 1) ELSE -1
    OBVIOUS
  <2>1. list[i] \in Messages /\ i - 1 \in 0 .. Len(list)
    OBVIOUS
  <2>2. local + Channel!Payloads(list, i - 1) \in Int
    <3>1. local \in Nat /\ Channel!Payloads(list, i - 1) \in Nat
      BY <1>2, <2>1 DEF SayTypes
    <3> QED
      BY <3>1
  <2> HIDE DEF e
  <2> QED
    BY <1>3, <2>1, <2>2
<1>5. e \in Seq(entries) /\ Len(e) = Len(list)
  <2> HIDE DEF e, entries
  <2> QED
    BY <1>3, <1>4
<1> HIDE DEF e
<1>6. said \in Seq(entries)
  BY DEF SayTypes
<1> DEFINE t == SubSeq(e, 1, n)
<1>7. t \in Seq(entries) /\ Len(t) = n /\ \A k \in 1 .. n : t[k] = e[k]
  <2> HIDE DEF entries
  <2> QED
    BY <1>5
<1>8. said' = said \o t
  BY <1>1 DEF e
<1> HIDE DEF t
<1>9. /\ said' \in Seq(entries) /\ Len(said') = Len(said) + n
      /\ \A i \in 1 .. Len(said) : said'[i] = said[i]
      /\ \A k \in 1 .. n : said'[Len(said) + k] = t[k]
  <2> HIDE DEF entries
  <2>1. t \in Seq(entries) /\ said \in Seq(entries)
    BY <1>6, <1>7
  <2>2. said \o t \in Seq(entries) /\ Len(said \o t) = Len(said) + Len(t)
    BY <2>1
  <2>3. \A i \in 1 .. Len(said) : (said \o t)[i] = said[i]
    BY <2>1, Joined
  <2>4. \A k \in 1 .. Len(t) : (said \o t)[Len(said) + k] = t[k]
    BY <2>1, Joined
  <2> QED
    BY <1>7, <1>8, <2>2, <2>3, <2>4
<1>10. SaidMore(list, n)
  <2>1. ASSUME NEW k \in 1 .. n
        PROVE  /\ said'[Len(said) + k].message = list[k]
               /\ said'[Len(said) + k].key =
                    IF list[k].payload THEN local + Channel!Payloads(list, k - 1) ELSE -1
    <3>1. k \in 1 .. Len(list)
      OBVIOUS
    <3>2. said'[Len(said) + k] = e[k]
      BY <1>7, <1>9
    <3> QED
      BY <1>4, <3>1, <3>2
  <2> QED
    BY <1>9, <2>1 DEF SaidMore
<1>11. local' = local + Channel!Payloads(list, Len(list)) /\ local' \in Nat
  BY <1>2 DEF Channel!SendAll, Channel!KeysTaken, SayTypes
<1> QED
  BY <1>1, <1>10, <1>11

\* The same of the next state.
LEMMA InTheseTermsNext ==
  /\ Channel!SaidRight' <=>
       \A i \in DOMAIN said' :
         said'[i].message.payload => said'[i].key = Channel!RequestKeys' + Sealed(said', i - 1)
  /\ Channel!QueueKeepsOrder' <=>
       /\ Users(said', Len(said')) + Len(queue') <= Len(queued')
       /\ ~broken' => Users(said', Len(said')) + Len(queue') = Len(queued')
       /\ \A i \in DOMAIN said' :
            said'[i].message.type \in UserTypes => said'[i].message = queued'[Users(said', i)]
<1> DEFINE passed(n) == Channel!Cardinality({i \in 1 .. n : said'[i].message.type \in UserTypes})
           sealed(n) == Channel!Cardinality({i \in 1 .. n : said'[i].message.payload})
<1>1. ASSUME NEW n
      PROVE  passed(n) = Users(said', n) /\ sealed(n) = Sealed(said', n)
  BY SameCount DEF Users, Sealed
<1>2. Channel!SaidRight' <=>
        \A i \in DOMAIN said' :
          said'[i].message.payload => said'[i].key = Channel!RequestKeys' + sealed(i - 1)
  BY DEF Channel!SaidRight
<1>3. Channel!QueueKeepsOrder' <=>
        /\ passed(Len(said')) + Len(queue') <= Len(queued')
        /\ ~broken' => passed(Len(said')) + Len(queue') = Len(queued')
        /\ \A i \in DOMAIN said' :
             said'[i].message.type \in UserTypes => said'[i].message = queued'[passed(i)]
  BY DEF Channel!QueueKeepsOrder, Channel!Passed, Channel!FromUsers, UserTypes
<1> HIDE DEF passed, sealed
<1> QED
  BY <1>1, <1>2, <1>3

\* How the counts go on over a list.
LEMMA SealedMore ==
  ASSUME SayTypes, NEW list \in Seq(Messages), NEW n \in 0 .. Len(list), SaidMore(list, n)
  PROVE  /\ \A i \in 0 .. Len(said) : Sealed(said', i) = Sealed(said, i)
         /\ \A k \in 0 .. n :
              Sealed(said', Len(said) + k) = Sealed(said, Len(said)) + Channel!Payloads(list, k)
<1> DEFINE L == Len(said)
<1>1. L \in Nat /\ n \in Nat
  BY DEF SayTypes
<1>2. \A i \in 1 .. L : said'[i] = said[i]
  BY DEF SaidMore
<1>3. \A k \in 1 .. n : said'[L + k].message = list[k]
  BY DEF SaidMore
<1> HIDE DEF L
<1>4. ASSUME NEW i \in 0 .. L
      PROVE  Sealed(said', i) = Sealed(said, i)
  <2>1. {j \in 1 .. i : said'[j].message.payload} = {j \in 1 .. i : said[j].message.payload}
    BY <1>1, <1>2
  <2> QED
    BY <2>1 DEF Sealed
<1>5. ASSUME NEW k \in 0 .. n
      PROVE  Sealed(said', L + k) = Sealed(said, L) + Channel!Payloads(list, k)
  <2> DEFINE S == {j \in 1 .. L : said[j].message.payload}
             T == {j \in 1 .. k : list[j].payload}
             U == {j \in 1 .. L + k : said'[j].message.payload}
  <2>1. \A x : x \in U <=> x \in S \/ \E m \in T : x = L + m
    <3>1. ASSUME NEW j \in U PROVE j \in S \/ \E m \in T : j = L + m
      <4>1. CASE j \in 1 .. L
        BY <1>2, <4>1
      <4>2. CASE j \notin 1 .. L
        <5>1. PICK m \in 1 .. k : j = L + m
          <6>1. j - L \in 1 .. k /\ j = L + (j - L)
            BY <1>1, <4>2
          <6> QED
            BY <6>1
        <5>2. m \in 1 .. n
          BY <1>1
        <5>3. m \in T
          BY <1>3, <5>1, <5>2
        <5> QED
          BY <5>1, <5>3
      <4> QED
        BY <4>1, <4>2
    <3>2. ASSUME NEW j \in S PROVE j \in U
      BY <1>1, <1>2
    <3>3. ASSUME NEW m \in T PROVE L + m \in U
      <4>1. m \in 1 .. n /\ L + m \in 1 .. L + k
        BY <1>1
      <4> QED
        BY <1>3, <4>1
    <3> QED
      BY <3>1, <3>2, <3>3
  <2>2. S \in SUBSET (1 .. L) /\ T \in SUBSET (1 .. k) /\ k \in Nat
    BY <1>1
  <2> HIDE DEF S, T, U
  <2>3. IsJoin(U, S, L, T, k)
    BY <1>1, <2>1, <2>2 DEF IsJoin
  <2>4. Cardinality(U) = Cardinality(S) + Cardinality(T)
    BY <2>3, CountJoin
  <2> QED
    BY <2>4, SameCount DEF S, T, U, Sealed, Channel!Payloads
<1> QED
  BY <1>4, <1>5 DEF L

\* And those of users' messages, when they are the first u.
LEMMA UsersMore ==
  ASSUME SayTypes, NEW list \in Seq(Messages), NEW n \in 0 .. Len(list), SaidMore(list, n),
         NEW u \in 0 .. Len(list),
         \A k \in 1 .. Len(list) : list[k].type \in UserTypes <=> k <= u
  PROVE  /\ \A i \in 0 .. Len(said) : Users(said', i) = Users(said, i)
         /\ \A k \in 0 .. n :
              Users(said', Len(said) + k) = Users(said, Len(said)) + (IF k <= u THEN k ELSE u)
         /\ Users(said, Len(said)) \in Nat
<1> DEFINE L == Len(said)
<1>1. L \in Nat /\ n \in Nat /\ n <= Len(list) /\ Len(list) \in Nat /\ u \in Nat
  BY DEF SayTypes
<1>2. \A i \in 1 .. L : said'[i] = said[i]
  BY DEF SaidMore
<1>3. \A k \in 1 .. n : said'[L + k].message = list[k]
  BY DEF SaidMore
<1> HIDE DEF L
<1>4. ASSUME NEW i \in 0 .. L
      PROVE  Users(said', i) = Users(said, i)
  <2>1. {j \in 1 .. i : said'[j].message.type \in UserTypes}
          = {j \in 1 .. i : said[j].message.type \in UserTypes}
    BY <1>1, <1>2
  <2> QED
    BY <2>1 DEF Users
<1>5. ASSUME NEW k \in 0 .. n
      PROVE  /\ Users(said', L + k) = Users(said, L) + (IF k <= u THEN k ELSE u)
             /\ Users(said, L) \in Nat
  <2> DEFINE m == IF k <= u THEN k ELSE u
             S == {j \in 1 .. L : said[j].message.type \in UserTypes}
             T == 1 .. m
             U == {j \in 1 .. L + k : said'[j].message.type \in UserTypes}
  <2>1. k \in Nat /\ m \in Nat /\ m <= k /\ m <= u
    BY <1>1
  <2>2. \A j \in 1 .. k : j \in 1 .. n /\ (list[j].type \in UserTypes <=> j \in 1 .. m)
    BY <1>1
  <2> HIDE DEF m
  <2>3. \A x : x \in U <=> x \in S \/ \E b \in T : x = L + b
    <3>1. ASSUME NEW j \in U PROVE j \in S \/ \E b \in T : j = L + b
      <4>1. CASE j \in 1 .. L
        BY <1>2, <4>1
      <4>2. CASE j \notin 1 .. L
        <5>1. PICK b \in 1 .. k : j = L + b
          <6>1. j - L \in 1 .. k /\ j = L + (j - L)
            BY <1>1, <2>1, <4>2
          <6> QED
            BY <6>1
        <5>2. b \in T
          BY <1>3, <2>2, <5>1
        <5> QED
          BY <5>1, <5>2
      <4> QED
        BY <4>1, <4>2
    <3>2. ASSUME NEW j \in S PROVE j \in U
      BY <1>1, <1>2, <2>1
    <3>3. ASSUME NEW b \in T PROVE L + b \in U
      <4>1. b \in 1 .. k /\ L + b \in 1 .. L + k
        BY <1>1, <2>1
      <4> QED
        BY <1>3, <2>2, <4>1
    <3> QED
      BY <3>1, <3>2, <3>3
  <2>4. S \in SUBSET (1 .. L) /\ T \in SUBSET (1 .. k)
    BY <2>1
  <2>5. Cardinality(T) = m
    BY <2>1, FS_Interval
  <2> HIDE DEF S, T, U
  <2>6. IsJoin(U, S, L, T, k)
    BY <1>1, <2>1, <2>3, <2>4 DEF IsJoin
  <2>7. Cardinality(U) = Cardinality(S) + Cardinality(T)
    BY <2>6, CountJoin
  <2>8. Cardinality(S) \in Nat
    BY <1>1, <2>4, CountType
  <2> QED
    BY <2>5, <2>7, <2>8 DEF S, U, Users, m
<1>6. 0 \in 0 .. n
  BY <1>1
<1> QED
  BY <1>4, <1>5, <1>6 DEF L

\* The first u messages of a list are users', and they are the queue or none.
UsersFirst(list, u) ==
  /\ list \in Seq(Messages) /\ u \in 0 .. Len(list)
  /\ \A k \in 1 .. Len(list) : list[k].type \in UserTypes <=> k <= u
  /\ \/ u = 0 /\ queue' = queue
     \/ u = Len(queue) /\ queue' = <<>> /\ \A k \in 1 .. u : list[k] = queue[k]

\* A list goes out, the first u messages of which are users': all that were
\* queued, or none.
LEMMA SendAllKeeps ==
  ASSUME SayTypes, Flags, Closed, QueueIsTail, Channel!SaidRight, Channel!QueueKeepsOrder,
         at # "connect", NEW list, NEW u, UsersFirst(list, u), Channel!SendAll(list),
         target' = target, queued' = queued
  PROVE  /\ said' \in Seq([message : Messages, key : Int]) /\ local' \in Nat /\ broken' \in BOOLEAN
         /\ Channel!SaidRight' /\ Channel!QueueKeepsOrder'
         /\ ~broken' => local' = Channel!RequestKeys' + Sealed(said', Len(said'))
<1> DEFINE L == Len(said)
           R == Channel!RequestKeys
<1>1. PICK n \in Nat :
        /\ n \in 0 .. Len(list) /\ SaidMore(list, n)
        /\ broken => n = 0
        /\ broken' = (broken \/ n < Len(list))
        /\ local' = local + Channel!Payloads(list, Len(list)) /\ local' \in Nat
  <2>1. \E n \in 0 .. Len(list) :
           /\ SaidMore(list, n)
           /\ broken => n = 0
           /\ broken' = (broken \/ n < Len(list))
           /\ local' = local + Channel!Payloads(list, Len(list)) /\ local' \in Nat
    BY SendAllSays DEF UsersFirst
  <2>2. \A n \in 0 .. Len(list) : n \in Nat
    OBVIOUS
  <2> QED
    BY <2>1, <2>2
<1>2. /\ \A i \in 0 .. L : Sealed(said', i) = Sealed(said, i)
      /\ \A k \in 0 .. n : Sealed(said', L + k) = Sealed(said, L) + Channel!Payloads(list, k)
  BY <1>1, SealedMore DEF UsersFirst
<1>3. /\ \A i \in 0 .. L : Users(said', i) = Users(said, i)
      /\ \A k \in 0 .. n : Users(said', L + k) = Users(said, L) + (IF k <= u THEN k ELSE u)
      /\ Users(said, L) \in Nat
  BY <1>1, UsersMore DEF UsersFirst
<1>4. /\ L \in Nat /\ n \in Nat /\ Len(list) \in Nat /\ n <= Len(list) /\ u \in Nat /\ u <= Len(list)
      /\ Len(said') = L + n
      /\ DOMAIN said = 1 .. L /\ DOMAIN said' = 1 .. L + n
      /\ Len(queue) \in Nat /\ Len(queued) \in Nat /\ DOMAIN queue = 1 .. Len(queue)
      /\ local \in Nat /\ said' \in Seq([message : Messages, key : Int])
  <2>1. /\ said \in Seq([message : Messages, key : Int]) /\ queue \in Seq(UserMessages)
        /\ queued \in Seq(UserMessages) /\ local \in Nat
    BY DEF SayTypes
  <2>2. said' \in Seq([message : Messages, key : Int]) /\ Len(said') = L + n
    BY <1>1 DEF SaidMore
  <2>3. Len(list) \in Nat /\ u \in 0 .. Len(list)
    BY DEF UsersFirst
  <2> QED
    BY <1>1, <2>1, <2>2, <2>3
<1>5. /\ \A i \in 1 .. L : said'[i] = said[i]
      /\ \A k \in 1 .. n :
           /\ said'[L + k].message = list[k]
           /\ said'[L + k].key =
                IF list[k].payload THEN local + Channel!Payloads(list, k - 1) ELSE -1
  BY <1>1 DEF SaidMore
<1>6. R \in Nat /\ Channel!RequestKeys' = R
  BY DEF SayTypes, Channel!RequestKeys
<1>7. n > 0 => ~broken
  BY <1>1, <1>4 DEF Flags
<1>8. ~broken => local = R + Sealed(said, L)
  BY DEF Closed
<1> HIDE DEF L, R
<1>9. \A k \in 0 .. n : Channel!Payloads(list, k) \in Nat
  <2> SUFFICES ASSUME NEW k \in 0 .. n PROVE Channel!Payloads(list, k) \in Nat
    OBVIOUS
  <2>1. k \in Nat
    BY <1>4
  <2>2. {i \in 1 .. k : list[i].payload} \in SUBSET (1 .. k)
    OBVIOUS
  <2> QED
    BY <2>1, <2>2, CountType, SameCount DEF Channel!Payloads
<1>10. Sealed(said, L) \in Nat
  <2>1. {i \in 1 .. L : said[i].message.payload} \in SUBSET (1 .. L)
    OBVIOUS
  <2> QED
    BY <1>4, <2>1, CountType DEF Sealed
<1>11. ~broken' => ~broken /\ ~(n < Len(list))
  BY <1>1, Zenon
<1>12. ~broken' => ~broken /\ n = Len(list)
  BY <1>4, <1>11
<1>13. Users(said, L) \in Nat
  BY <1>3
<1>14. /\ L \in Nat /\ n \in Nat /\ Len(list) \in Nat /\ n <= Len(list) /\ u \in Nat /\ u <= Len(list)
       /\ Len(queue) \in Nat /\ Len(queued) \in Nat
  BY <1>4
<1>15. Channel!SaidRight'
  <2> SUFFICES ASSUME NEW i \in 1 .. L + n, said'[i].message.payload
               PROVE  said'[i].key = R + Sealed(said', i - 1)
    BY <1>4, <1>6, InTheseTermsNext
  <2>1. CASE i \in 1 .. L
    <3>1. i - 1 \in 0 .. L /\ i \in DOMAIN said /\ said'[i] = said[i]
      BY <1>4, <1>5, <2>1
    <3>2. said[i].key = R + Sealed(said, i - 1)
      BY <3>1, InTheseTerms DEF R
    <3> QED
      BY <1>2, <3>1, <3>2
  <2>2. CASE i \notin 1 .. L
    <3>1. PICK k \in 1 .. n : i = L + k
      <4>1. i - L \in 1 .. n /\ i = L + (i - L)
        BY <1>4, <2>2
      <4> QED
        BY <4>1
    <3>2. k - 1 \in 0 .. n /\ i - 1 = L + (k - 1) /\ n > 0
      BY <1>4, <3>1
    <3>3. said'[i].key = local + Channel!Payloads(list, k - 1)
      BY <1>5, <3>1
    <3>4. Sealed(said', i - 1) = Sealed(said, L) + Channel!Payloads(list, k - 1)
      BY <1>2, <3>2
    <3>5. local = R + Sealed(said, L)
      BY <1>7, <1>8, <3>2
    <3>6. Channel!Payloads(list, k - 1) \in Nat
      BY <1>9, <3>2
    <3> QED
      BY <1>6, <1>10, <3>3, <3>4, <3>5, <3>6
  <2> QED
    BY <2>1, <2>2
<1>16. ASSUME ~broken' PROVE local' = R + Sealed(said', Len(said'))
  <2>1. ~broken /\ n = Len(list)
    BY <1>16, <1>12
  <2>2. Sealed(said', L + n) = Sealed(said, L) + Channel!Payloads(list, n)
    BY <1>2, <1>4
  <2>3. Channel!Payloads(list, n) \in Nat
    BY <1>4, <1>9
  <2> QED
    BY <1>1, <1>4, <1>6, <1>8, <1>10, <2>1, <2>2, <2>3
<1>17. /\ Users(said, L) + Len(queue) <= Len(queued)
       /\ ~broken => Users(said, L) + Len(queue) = Len(queued)
       /\ \A i \in 1 .. L :
            said[i].message.type \in UserTypes => said[i].message = queued[Users(said, i)]
  BY <1>4, InTheseTerms DEF L
<1>18. Users(said', L + n) = Users(said, L) + (IF n <= u THEN n ELSE u)
  BY <1>3, <1>4
<1>19. \/ u = 0 /\ Len(queue') = Len(queue)
       \/ u = Len(queue) /\ Len(queue') = 0
  BY DEF UsersFirst
<1>20. /\ Users(said', L + n) + Len(queue') <= Len(queued)
       /\ ~broken' => Users(said', L + n) + Len(queue') = Len(queued)
  <2>1. Users(said', L + n) + Len(queue') <= Len(queued)
    <3>1. Users(said, L) + Len(queue) <= Len(queued)
      BY <1>17
    <3> QED
      BY <1>13, <1>14, <1>18, <1>19, <3>1
  <2>2. ASSUME ~broken' PROVE Users(said', L + n) + Len(queue') = Len(queued)
    <3>1. ~broken /\ n = Len(list)
      BY <2>2, <1>12
    <3>2. Users(said, L) + Len(queue) = Len(queued)
      BY <1>17, <3>1
    <3>3. n <= u => n = u
      BY <1>14, <3>1
    <3> QED
      BY <1>13, <1>14, <1>18, <1>19, <3>2, <3>3
  <2> QED
    BY <2>1, <2>2
<1>21. ASSUME NEW i \in 1 .. L + n, said'[i].message.type \in UserTypes
       PROVE  said'[i].message = queued[Users(said', i)]
  <2>1. CASE i \in 1 .. L
    <3>1. i \in 0 .. L /\ said'[i] = said[i]
      BY <1>4, <1>5, <2>1
    <3> QED
      BY <1>3, <1>17, <1>21, <2>1, <3>1
  <2>2. CASE i \notin 1 .. L
    <3>1. PICK k \in 1 .. n : i = L + k
      <4>1. i - L \in 1 .. n /\ i = L + (i - L)
        BY <1>4, <2>2
      <4> QED
        BY <4>1
    <3>2. k \in 0 .. n /\ k \in 1 .. Len(list) /\ n > 0
      BY <1>4, <3>1
    <3>3. said'[i].message = list[k] /\ k <= u
      BY <1>5, <1>21, <3>1, <3>2 DEF UsersFirst
    <3>4. Users(said', i) = Users(said, L) + k
      BY <1>3, <3>1, <3>2, <3>3
    <3>5. u = Len(queue) /\ list[k] = queue[k]
      <4>1. u # 0 /\ k \in 1 .. u
        BY <1>4, <3>2, <3>3
      <4> QED
        BY <4>1 DEF UsersFirst
    <3>6. queue[k] = queued[Len(queued) - Len(queue) + k]
      <4>1. k \in DOMAIN queue
        BY <1>4, <3>2, <3>3, <3>5
      <4> QED
        BY <4>1 DEF QueueIsTail
    <3>7. Users(said, L) + Len(queue) = Len(queued)
      BY <1>7, <1>17, <3>2
    <3>8. Len(queued) - Len(queue) + k = Users(said, L) + k
      BY <1>13, <1>14, <3>2, <3>7
    <3> QED
      BY <3>3, <3>4, <3>5, <3>6, <3>8
  <2> QED
    BY <2>1, <2>2
<1>22. Channel!QueueKeepsOrder'
  BY <1>4, <1>20, <1>21, InTheseTermsNext
<1> QED
  BY <1>1, <1>4, <1>6, <1>15, <1>16, <1>22 DEF Flags

\* What the constants are.
LEMMA ChannelConstants ==
  /\ Header \in Nat \ {0} /\ BufSize \in Nat /\ Header < BufSize
  /\ SizeSpace \in Nat \ {0} /\ \A m \in Spoken : m.size \in Nat
  /\ Targets \subseteq {"old", "ps4", "ps5"}
BY KeysAssumption DEF Channel!ChannelAssumption

\* The parts that speak of the stream, and those that speak of what is sent.
StreamInv == StreamTypes /\ InStream /\ Consumed /\ Counted /\ Channel!HeardRight
SayInv ==
  /\ SayTypes /\ Closed /\ QueueIsTail
  /\ Channel!SaidRight /\ Channel!QueueKeepsOrder

\* The invariant is made of these.
LEMMA InParts ==
  ChannelInv <=> StreamInv /\ SayInv /\ Flags /\ NothingYet /\ Channel!RoomIsLeft
BY DEF ChannelInv, StreamInv, SayInv

\* A step that leaves the stream alone keeps what is said of it.
LEMMA StreamStays ==
  ASSUME StreamInv, UNCHANGED <<remote, typed, told, arrived, consumed, heard>>,
         at' # "connect" => at # "connect"
  PROVE  StreamInv'
<1> USE DEF StreamInv
<1>1. StreamTypes'
  BY DEF StreamTypes
<1>2. InStream' /\ Consumed'
  BY DEF InStream, Consumed, End, Channel!Length
<1>3. Counted' /\ Channel!HeardRight'
  BY DEF Counted, Base, Channel!HeardRight
<1> QED
  BY <1>1, <1>2, <1>3

\* So does one that sends and queues nothing.
LEMMA SayStays ==
  ASSUME SayInv, UNCHANGED <<target, local, broken, said, queue, queued, counter>>,
         at' # "connect" => at # "connect"
  PROVE  SayInv'
<1> USE DEF SayInv
<1>1. SayTypes'
  BY DEF SayTypes
<1>2. Closed' /\ QueueIsTail'
  BY DEF Closed, QueueIsTail, Channel!RequestKeys
<1>3. Channel!SaidRight' /\ Channel!QueueKeepsOrder'
  BY DEF Channel!SaidRight, Channel!RequestKeys, Channel!QueueKeepsOrder, Channel!Passed,
         Channel!FromUsers
<1> QED
  BY <1>1, <1>2, <1>3

\* What ctrl answers is never a user's message.
LEMMA RepliesAreOwn ==
  ASSUME NEW type
  PROVE  /\ Channel!Replies(type) \in Seq(Messages)
         /\ \A k \in 1 .. Len(Channel!Replies(type)) : Channel!Replies(type)[k].type \notin UserTypes
<1> DEFINE Own == [type : OwnTypes, payload : BOOLEAN, number : Nat]
<1>1. /\ \A x \in {"dualsense", "signature", "pre_enable", "toggle"} : Channel!Payload(x) \in Own
      /\ Channel!Bare("heartbeat") \in Own
  BY DEF Channel!Payload, Channel!Bare, Channel!Message, OwnTypes
<1> HIDE DEF Own
<1>2. Channel!FeatureMessages \in Seq(Own)
  <2> DEFINE a == IF "dualsense" \in features THEN <<Channel!Payload("dualsense")>> ELSE <<>>
             b == IF "keyboard" \in features
                  THEN <<Channel!Payload("signature"), Channel!Payload("pre_enable"),
                         Channel!Payload("toggle"), Channel!Payload("pre_enable")>> ELSE <<>>
  <2>1. a \in Seq(Own)
    BY <1>1
  <2>2. b \in Seq(Own)
    BY <1>1
  <2> HIDE DEF a, b
  <2>3. a \o b \in Seq(Own)
    BY <2>1, <2>2
  <2> QED
    BY <2>3 DEF Channel!FeatureMessages, a, b
<1>3. Channel!HeartbeatReply \in Seq(Own)
  BY <1>1 DEF Channel!HeartbeatReply
<1>4. <<>> \in Seq(Own)
  OBVIOUS
<1>5. Channel!Replies(type) \in Seq(Own)
  <2>1. CASE type = "session_id"
    BY <1>2, <2>1 DEF Channel!Replies
  <2>2. CASE type = "heartbeat_req"
    BY <1>3, <2>2 DEF Channel!Replies
  <2>3. CASE type # "session_id" /\ type # "heartbeat_req"
    BY <1>4, <2>3 DEF Channel!Replies
  <2> QED
    BY <2>1, <2>2, <2>3
<1> DEFINE r == Channel!Replies(type)
<1>6. \A x \in Own : x \in Messages /\ x.type \notin UserTypes
  BY DEF Own, Messages, OwnTypes, UserTypes
<1> HIDE DEF r
<1>7. r \in Seq(Own)
  BY <1>5 DEF r
<1>8. \A k \in 1 .. Len(r) : r[k] \in Own
  BY <1>7
<1>9. r \in Seq(Messages)
  BY <1>6, <1>7
<1> QED
  BY <1>6, <1>8, <1>9 DEF r

\* One more of the messages told may have a payload.
LEMMA KeyedMore ==
  ASSUME NEW t, NEW n \in Nat
  PROVE  /\ Keyed(t, n) \in Nat
         /\ Keyed(t, n + 1) = Keyed(t, n) + (IF t[n + 1].size > 0 THEN 1 ELSE 0)
<1> DEFINE S == {i \in 1 .. n : t[i].size > 0}
           T == {i \in 1 .. n + 1 : t[i].size > 0}
<1>1. S \in SUBSET (1 .. n)
  OBVIOUS
<1>2. T = IF t[n + 1].size > 0 THEN S \cup {n + 1} ELSE S
  OBVIOUS
<1>3. n + 1 \notin S
  OBVIOUS
<1> HIDE DEF S, T
<1>4. IsFiniteSet(S) /\ Cardinality(S) \in Nat
  BY <1>1, CountType
<1>5. Cardinality(S \cup {n + 1}) = Cardinality(S) + 1
  BY <1>3, <1>4, FS_AddElement
<1>6. Cardinality(T) = Cardinality(S) + (IF t[n + 1].size > 0 THEN 1 ELSE 0)
  BY <1>2, <1>4, <1>5
<1> QED
  BY <1>4, <1>6 DEF S, T, Keyed

\* The stream's length is where the next message begins.
LEMMA LengthIs ==
  ASSUME told \in Seq(ToldMessages)
  PROVE  /\ Channel!Length \in Nat
         /\ told = <<>> => Channel!Length = 0
         /\ told # <<>> => Len(told) \in DOMAIN told /\ Channel!Length = End(Len(told))
         /\ \A i \in DOMAIN told : /\ told[i].place \in Nat /\ told[i].size \in Nat
                                   /\ told[i].type \in Kinds /\ told[i].key \in Int
                                   /\ End(i) \in Nat /\ told[i].place < End(i)
<1>1. \A i \in DOMAIN told : told[i] \in ToldMessages
  OBVIOUS
<1>2. Header \in Nat /\ Header > 0
  BY ChannelConstants
<1>3. \A i \in DOMAIN told : /\ told[i].place \in Nat /\ told[i].size \in Nat
                             /\ told[i].type \in Kinds /\ told[i].key \in Int
                             /\ End(i) \in Nat /\ told[i].place < End(i)
  BY <1>1, <1>2 DEF ToldMessages, End
<1>4. told # <<>> => Len(told) \in DOMAIN told
  OBVIOUS
<1> QED
  BY <1>3, <1>4 DEF Channel!Length, End

\* The console sends a message.
LEMMA TellKeeps ==
  ASSUME ChannelInv, Channel!Tell
  PROVE  ChannelInv'
<1> USE DEF StreamInv
<1>1. StreamInv /\ SayInv /\ Flags /\ NothingYet /\ Channel!RoomIsLeft
  BY InParts
<1>2. PICK m \in Spoken :
        told' = Append(told,
          [type |-> m.type, size |-> m.size, place |-> Channel!Length,
           key |-> IF m.size = 0 THEN -1
                   ELSE Base + Channel!Cardinality({i \in DOMAIN told : told[i].size > 0})])
  BY DEF Channel!Tell, Channel!Unused, Base
<1>3. /\ at # "connect" /\ ~Channel!Over
      /\ UNCHANGED <<at, target, features, remote, typed, arrived, consumed, heard,
                     queue, pin, counter, stopped, queued, local, broken, said>>
  BY DEF Channel!Tell, Channel!config, Channel!users, Channel!outgoing
<1>4. told \in Seq(ToldMessages) /\ typed \in BOOLEAN /\ heard \in Seq([type : Kinds, key : Int])
      /\ arrived \in Nat /\ consumed \in Nat
  BY <1>1 DEF StreamTypes
<1>0. PICK N \in Nat : N = Len(told)
  BY <1>4
<1> DEFINE new == [type |-> m.type, size |-> m.size, place |-> Channel!Length,
                   key |-> IF m.size = 0 THEN -1 ELSE Base + Keyed(told, N)]
<1>5. N \in Nat /\ DOMAIN told = 1 .. N /\ Base \in {0, 1} /\ Keyed(told, N) \in Nat
  <2>1. N \in Nat /\ DOMAIN told = 1 .. N
    BY <1>0, <1>4
  <2>2. Keyed(told, N) \in Nat
    BY <2>1, KeyedMore
  <2> QED
    BY <2>1, <2>2 DEF Base
<1>6. Channel!Cardinality({i \in DOMAIN told : told[i].size > 0}) = Keyed(told, N)
  BY <1>0, <1>5, SameCount DEF Keyed
<1>7. told' = Append(told, new)
  BY <1>2, <1>6
<1>8. new \in ToldMessages /\ new.size = m.size /\ new.place = Channel!Length
      /\ new.key = (IF new.size = 0 THEN -1 ELSE Base + Keyed(told, N)) /\ new.size \in Nat
  <2>1. m.type \in Kinds /\ m.size \in Nat /\ Channel!Length \in Nat
    BY <1>4, ChannelConstants, LengthIs DEF Kinds
  <2>2. Base + Keyed(told, N) \in Int
    BY <1>5
  <2> QED
    BY <2>1, <2>2 DEF ToldMessages
<1> HIDE DEF new
<1>9. /\ told' \in Seq(ToldMessages) /\ Len(told') = N + 1 /\ DOMAIN told' = 1 .. N + 1
      /\ told'[N + 1] = new /\ \A i \in 1 .. N : told'[i] = told[i]
  <2> HIDE DEF StreamInv
  <2> QED
    BY <1>0, <1>4, <1>7, <1>8
<1>10. \A i \in 1 .. N : End(i)' = End(i)
  BY <1>9 DEF End
<1>11. End(N + 1)' = Channel!Length + Header + new.size
  BY <1>8, <1>9 DEF End
<1>12. Channel!Length' = End(N + 1)'
  <2>1. told' # <<>>
    BY <1>5, <1>9
  <2> QED
    BY <1>9, <2>1 DEF Channel!Length, End
<1>13. \A i \in 1 .. N : End(i) <= Channel!Length
  <2> SUFFICES ASSUME NEW i \in 1 .. N PROVE End(i) <= Channel!Length
    OBVIOUS
  <2>1. Channel!Length = End(N) /\ N \in 1 .. N
    BY <1>0, <1>4, <1>5, LengthIs
  <2>2. CASE i = N
    <3>1. End(N) \in Nat
      BY <1>4, <1>5, <2>1, LengthIs
    <3> QED
      BY <2>1, <2>2, <3>1
  <2>3. CASE i # N
    <3>1. i < N
      BY <1>5, <2>3
    <3>2. End(i) <= told[N].place
      BY <1>1, <1>5, <2>1, <3>1 DEF InStream
    <3>3. End(i) \in Nat /\ End(N) \in Nat /\ told[N].place \in Nat /\ told[N].place < End(N)
      BY <1>4, <1>5, <2>1, LengthIs
    <3> QED
      BY <2>1, <3>2, <3>3
  <2> QED
    BY <2>2, <2>3
<1>14. InStream'
  <2>1. told' # <<>> => told'[1].place = 0
    <3>1. CASE N = 0
      <4>1. told = <<>>
        BY <1>0, <1>4, <1>5, <3>1, LengthIs
      <4> QED
        BY <1>4, <1>8, <1>9, <3>1, <4>1, LengthIs
    <3>2. CASE N # 0
      <4>1. 1 \in 1 .. N /\ told # <<>>
        BY <1>0, <1>4, <1>5, <3>2
      <4> QED
        BY <1>1, <1>9, <4>1 DEF InStream
    <3> QED
      BY <3>1, <3>2
  <2>2. ASSUME NEW i \in 1 .. N + 1, i + 1 \in 1 .. N + 1
        PROVE  told'[i + 1].place = End(i)'
    <3>1. CASE i = N
      <4>1. told # <<>> /\ i \in 1 .. N
        BY <1>0, <1>4, <1>5, <3>1
      <4>2. Channel!Length = End(N)
        BY <1>0, <1>4, <4>1, LengthIs
      <4> QED
        BY <1>8, <1>9, <1>10, <3>1, <4>1, <4>2
    <3>2. CASE i # N
      <4>1. i \in 1 .. N /\ i + 1 \in 1 .. N
        BY <1>5, <2>2, <3>2
      <4>2. told[i + 1].place = End(i)
        BY <1>1, <1>5, <4>1 DEF InStream
      <4> QED
        BY <1>9, <1>10, <4>1, <4>2
    <3> QED
      BY <3>1, <3>2
  <2>3. ASSUME NEW i \in 1 .. N + 1, NEW j \in 1 .. N + 1, i < j
        PROVE  End(i)' <= told'[j].place
    <3>1. i \in 1 .. N
      BY <1>5, <2>3
    <3>2. CASE j = N + 1
      BY <1>8, <1>9, <1>10, <1>13, <3>1, <3>2
    <3>3. CASE j # N + 1
      <4>1. j \in 1 .. N
        BY <1>5, <3>3
      <4>2. End(i) <= told[j].place
        BY <1>1, <1>5, <2>3, <3>1, <4>1 DEF InStream
      <4> QED
        BY <1>9, <1>10, <3>1, <4>1, <4>2
    <3> QED
      BY <3>2, <3>3
  <2> QED
    BY <1>9, <2>1, <2>2, <2>3 DEF InStream
<1>15. Consumed'
  <2>1. /\ Len(heard) <= N /\ Len(heard) \in Nat
        /\ consumed = (IF Len(heard) = N THEN Channel!Length ELSE told[Len(heard) + 1].place)
        /\ consumed <= arrived /\ arrived <= Channel!Length
    BY <1>0, <1>1, <1>4 DEF Consumed
  <2>2. consumed = told'[Len(heard) + 1].place
    <3>1. CASE Len(heard) = N
      BY <1>8, <1>9, <2>1, <3>1
    <3>2. CASE Len(heard) # N
      <4>1. Len(heard) + 1 \in 1 .. N
        BY <1>5, <2>1, <3>2
      <4> QED
        BY <1>9, <2>1, <3>2, <4>1
    <3> QED
      BY <3>1, <3>2
  <2>3. Channel!Length \in Nat /\ Header \in Nat
    BY <1>4, LengthIs, ChannelConstants
  <2>4. arrived <= Channel!Length' /\ Len(heard) # N + 1 /\ Len(heard) <= N + 1
    BY <1>4, <1>5, <1>8, <1>11, <1>12, <2>1, <2>3
  <2> QED
    BY <1>3, <1>9, <2>1, <2>2, <2>4 DEF Consumed
<1>16. \A n \in 0 .. N : Keyed(told', n) = Keyed(told, n)
  <2> SUFFICES ASSUME NEW n \in 0 .. N PROVE Keyed(told', n) = Keyed(told, n)
    OBVIOUS
  <2>1. {i \in 1 .. n : told'[i].size > 0} = {i \in 1 .. n : told[i].size > 0}
    BY <1>5, <1>9
  <2> QED
    BY <2>1 DEF Keyed
<1>17. Counted'
  <2>1. ASSUME NEW i \in 1 .. N + 1
        PROVE  told'[i].key = IF told'[i].size = 0 THEN -1 ELSE Base + Keyed(told', i - 1)
    <3>1. CASE i = N + 1
      <4>1. i - 1 = N /\ N \in 0 .. N
        BY <1>5, <3>1
      <4> QED
        BY <1>8, <1>9, <1>16, <3>1, <4>1
    <3>2. CASE i # N + 1
      <4>1. i \in 1 .. N /\ i - 1 \in 0 .. N
        BY <1>5, <3>2
      <4> QED
        BY <1>1, <1>5, <1>9, <1>16, <4>1 DEF Counted
    <3> QED
      BY <3>1, <3>2
  <2>2. remote = Base + Keyed(told', Len(heard))
    <3>1. Len(heard) \in 0 .. N
      BY <1>0, <1>1, <1>4, <1>5 DEF Consumed
    <3> QED
      BY <1>1, <1>3, <1>16, <3>1 DEF Counted
  <2> QED
    BY <1>3, <1>9, <2>1, <2>2 DEF Counted, Base
<1>18. Channel!HeardRight'
  <2>1. /\ Len(heard) <= N /\ Len(heard) \in Nat
        /\ \A i \in DOMAIN heard : heard[i].type = told[i].type /\ heard[i].key = told[i].key
    BY <1>0, <1>1, <1>4 DEF Channel!HeardRight
  <2>2. \A i \in DOMAIN heard : i \in 1 .. N
    BY <1>4, <1>5, <2>1
  <2>3. Len(heard) <= N + 1
    BY <1>5, <2>1
  <2> QED
    BY <1>3, <1>9, <2>1, <2>2, <2>3 DEF Channel!HeardRight
<1>19. StreamTypes'
  BY <1>1, <1>3, <1>9 DEF StreamTypes
<1>20. SayInv'
  BY <1>1, <1>3, SayStays
<1>21. Flags' /\ NothingYet' /\ Channel!RoomIsLeft'
  <2>1. at # "overflow" /\ at # "undefined"
    BY <1>3 DEF Channel!Over
  <2> QED
    BY <1>1, <1>3, <2>1 DEF Flags, NothingYet, Channel!RoomIsLeft, Channel!Buffered
<1>22. StreamInv'
  BY <1>14, <1>15, <1>17, <1>18, <1>19
<1> QED
  BY <1>20, <1>21, <1>22 DEF ChannelInv, StreamInv, SayInv

\* The size of a message with its header, in 32 bits: never more than it is.
LEMMA TotalIs ==
  ASSUME NEW m, m.size \in Nat
  PROVE  /\ Channel!Total(m) \in Nat /\ Channel!Total(m) <= Header + m.size
         /\ ~Channel!Wraps(m) => Channel!Total(m) = Header + m.size
<1>1. Header + m.size \in Nat /\ SizeSpace \in Nat \ {0}
  BY ChannelConstants
<1>2. /\ (Header + m.size) % SizeSpace \in 0 .. SizeSpace - 1
      /\ (Header + m.size) % SizeSpace <= Header + m.size
      /\ Header + m.size < SizeSpace => (Header + m.size) % SizeSpace = Header + m.size
  BY <1>1, SmallRest
<1> QED
  BY <1>1, <1>2 DEF Channel!Total, Channel!Wraps

\* What stands at the front has a size.
LEMMA FrontSize ==
  ASSUME StreamInv
  PROVE  /\ Channel!Front.size \in Nat
         /\ \/ \E i \in DOMAIN told : Channel!Front = told[i]
            \/ Channel!Front.size = 0
<1>1. \/ \E i \in DOMAIN told : Channel!Front = told[i]
      \/ Channel!Front.size = 0
  BY DEF Channel!Front, Channel!ReadAt
<1> QED
  BY <1>1, LengthIs DEF StreamInv, StreamTypes

\* What is at the front of the buffer, if there is anything: the first message
\* that was not heard.
LEMMA FrontIs ==
  ASSUME StreamInv, Len(heard) < Len(told)
  PROVE  /\ Len(heard) + 1 \in DOMAIN told
         /\ Channel!Front = told[Len(heard) + 1] /\ consumed = told[Len(heard) + 1].place
<1>1. told \in Seq(ToldMessages) /\ heard \in Seq([type : Kinds, key : Int])
  BY DEF StreamInv, StreamTypes
<1>2. PICK h \in Nat : h = Len(heard) + 1
  BY <1>1
<1>3. h \in DOMAIN told /\ consumed = told[h].place
  BY <1>1, <1>2 DEF StreamInv, Consumed
<1>4. ASSUME NEW i \in DOMAIN told, told[i].place = consumed
      PROVE  i = h
  <2>1. i \in Nat /\ (i < h \/ h < i \/ i = h)
    BY <1>1, <1>2
  <2>2. CASE i < h
    <3>1. End(i) <= told[h].place
      BY <1>3, <2>2 DEF StreamInv, InStream
    <3>2. told[i].place < End(i) /\ told[i].place \in Nat /\ End(i) \in Nat /\ told[h].place \in Nat
      BY <1>1, <1>3, LengthIs
    <3> QED
      BY <1>3, <1>4, <3>1, <3>2
  <2>3. CASE h < i
    <3>1. End(h) <= told[i].place
      BY <1>3, <2>3 DEF StreamInv, InStream
    <3>2. told[h].place < End(h) /\ told[h].place \in Nat /\ End(h) \in Nat /\ told[i].place \in Nat
      BY <1>1, <1>3, LengthIs
    <3> QED
      BY <1>3, <1>4, <3>1, <3>2
  <2> QED
    BY <2>1, <2>2, <2>3
<1>5. (CHOOSE i \in DOMAIN told : told[i].place = consumed) = h
  BY <1>3, <1>4
<1>6. Channel!Front = told[h]
  BY <1>3, <1>5 DEF Channel!Front, Channel!ReadAt
<1> QED
  BY <1>2, <1>3, <1>6

\* A whole message is heard.
LEMMA HandleKeeps ==
  ASSUME ChannelInv, Channel!Handle
  PROVE  ChannelInv'
<1>1. StreamInv /\ SayInv /\ Flags /\ NothingYet /\ Channel!RoomIsLeft
  BY InParts
<1>2. told \in Seq(ToldMessages) /\ typed \in BOOLEAN /\ heard \in Seq([type : Kinds, key : Int])
      /\ arrived \in Nat /\ consumed \in Nat /\ remote \in Nat
  BY <1>1 DEF StreamInv, StreamTypes
<1>3. PICK N \in Nat : N = Len(told) /\ DOMAIN told = 1 .. N
  BY <1>2
<1>4. PICK h \in Nat : h = Len(heard) /\ DOMAIN heard = 1 .. h
  BY <1>2
<1> DEFINE m == told[h + 1]
<1>5. Header \in Nat /\ Header > 0 /\ Channel!Length \in Nat
  BY <1>2, ChannelConstants, LengthIs
<1>6. /\ h <= N
      /\ consumed = IF h = N THEN Channel!Length ELSE told[h + 1].place
      /\ consumed <= arrived /\ arrived <= Channel!Length
  BY <1>1, <1>3, <1>4 DEF StreamInv, Consumed
<1>7. at = "drain" /\ arrived - consumed >= Header /\ arrived - consumed >= Header + Channel!Front.size
  <2>1. /\ at = "drain" /\ arrived - consumed >= Header
        /\ arrived - consumed >= Channel!Total(Channel!Front) /\ ~Channel!Wraps(Channel!Front)
    BY DEF Channel!Handle, Channel!Whole, Channel!Buffered
  <2>2. Channel!Total(Channel!Front) = Header + Channel!Front.size
    BY <1>1, <2>1, FrontSize, TotalIs
  <2> QED
    BY <2>1, <2>2
<1>8. h < N
  BY <1>2, <1>5, <1>6, <1>7
<1>9. h + 1 \in 1 .. N /\ Channel!Front = m /\ consumed = m.place
  BY <1>1, <1>3, <1>4, <1>8, FrontIs
<1>10. m.place \in Nat /\ m.size \in Nat /\ m.type \in Kinds /\ m.key \in Int
       /\ End(h + 1) = m.place + Header + m.size
  BY <1>2, <1>3, <1>9, LengthIs DEF End
<1> HIDE DEF m
<1>11. /\ heard' = Append(heard, [type |-> m.type, key |-> IF m.size > 0 THEN remote ELSE -1])
       /\ remote' = IF m.size > 0 THEN remote + 1 ELSE remote
       /\ consumed' = consumed + Header + m.size
       /\ Channel!SendAll(Channel!Replies(m.type))
       /\ UNCHANGED <<at, target, features, typed, told, arrived, queue, pin, counter, stopped, queued>>
  BY <1>9 DEF Channel!Handle, Channel!Receive, Channel!Decrypts, Channel!Unused, Channel!config,
              Channel!users
<1>12. Keyed(told, h) \in Nat /\ Keyed(told, h + 1) = Keyed(told, h) + (IF m.size > 0 THEN 1 ELSE 0)
  BY KeyedMore DEF m
<1>13. /\ remote = Base + Keyed(told, h) /\ Base \in {0, 1}
       /\ m.key = IF m.size = 0 THEN -1 ELSE Base + Keyed(told, h)
  <2>1. h + 1 - 1 = h /\ h + 1 \in DOMAIN told
    BY <1>3, <1>9
  <2>2. m.key = IF m.size = 0 THEN -1 ELSE Base + Keyed(told, h + 1 - 1)
    BY <1>1, <2>1 DEF StreamInv, Counted, m
  <2>3. remote = Base + Keyed(told, h)
    BY <1>1, <1>4, <1>7 DEF StreamInv, Counted
  <2> QED
    BY <2>1, <2>2, <2>3 DEF Base
<1>14. heard' = Append(heard, [type |-> m.type, key |-> m.key])
  <2>1. (IF m.size > 0 THEN remote ELSE -1) = m.key
    BY <1>10, <1>13
  <2> QED
    BY <1>11, <2>1
<1>15. /\ heard' \in Seq([type : Kinds, key : Int]) /\ Len(heard') = h + 1
       /\ DOMAIN heard' = 1 .. h + 1
       /\ heard'[h + 1].type = m.type /\ heard'[h + 1].key = m.key
       /\ \A i \in 1 .. h : heard'[i] = heard[i]
  <2> DEFINE e == [type |-> m.type, key |-> m.key]
  <2>1. e \in [type : Kinds, key : Int] /\ e.type = m.type /\ e.key = m.key
    BY <1>10
  <2> HIDE DEF e
  <2>2. heard' = Append(heard, e)
    BY <1>14 DEF e
  <2> QED
    BY <1>2, <1>4, <2>1, <2>2
<1>16. StreamTypes'
  <2>1. remote' \in Nat /\ consumed' \in Nat
    BY <1>2, <1>5, <1>10, <1>11
  <2> QED
    BY <1>1, <1>11, <1>15, <2>1 DEF StreamInv, StreamTypes
<1>17. InStream' /\ Channel!Length' = Channel!Length
  BY <1>1, <1>11 DEF StreamInv, InStream, End, Channel!Length
<1>18. Consumed'
  <2>1. consumed' = End(h + 1) /\ consumed' <= arrived
    <3>1. consumed' = consumed + Header + m.size
      BY <1>11
    <3>2. arrived - consumed >= Header + m.size /\ consumed = m.place
      BY <1>7, <1>9
    <3> QED
      BY <1>2, <1>5, <1>10, <3>1, <3>2
  <2>2. CASE h + 1 = N
    <3>1. Channel!Length = End(h + 1)
      <4>1. told # <<>>
        BY <1>2, <1>3, <1>9
      <4> QED
        BY <1>2, <1>3, <2>2, <4>1, LengthIs
    <3>2. Len(heard') = Len(told') /\ consumed' = Channel!Length'
      BY <1>3, <1>11, <1>15, <1>17, <2>1, <2>2, <3>1
    <3> QED
      BY <1>6, <1>11, <1>17, <2>1, <3>2 DEF Consumed
  <2>3. CASE h + 1 # N
    <3>1. h + 1 + 1 \in DOMAIN told /\ h + 1 \in DOMAIN told /\ h + 1 <= N
      BY <1>3, <1>8, <2>3
    <3>2. told[h + 1 + 1].place = End(h + 1)
      BY <1>1, <3>1 DEF StreamInv, InStream
    <3>3. consumed' = told'[Len(heard') + 1].place
      BY <1>11, <1>15, <2>1, <3>2
    <3> QED
      BY <1>3, <1>6, <1>11, <1>15, <1>17, <2>1, <2>3, <3>1, <3>3 DEF Consumed
  <2> QED
    BY <2>2, <2>3
<1>19. Counted'
  <2>1. remote' = Base + Keyed(told, h + 1)
    BY <1>11, <1>12, <1>13
  <2>2. \A i \in DOMAIN told :
          told[i].key = IF told[i].size = 0 THEN -1 ELSE Base + Keyed(told, i - 1)
    BY <1>1 DEF StreamInv, Counted
  <2> QED
    BY <1>11, <1>15, <2>1, <2>2 DEF Counted, Base
<1>20. Channel!HeardRight'
  <2>1. \A i \in 1 .. h : heard[i].type = told[i].type /\ heard[i].key = told[i].key
    BY <1>1, <1>4 DEF StreamInv, Channel!HeardRight
  <2>2. ASSUME NEW i \in 1 .. h + 1
        PROVE  heard'[i].type = told[i].type /\ heard'[i].key = told[i].key
    <3>1. i = h + 1 \/ i \in 1 .. h
      OBVIOUS
    <3> QED
      BY <1>15, <2>1, <3>1 DEF m
  <2>3. h + 1 <= N
    BY <1>9
  <2> QED
    BY <1>3, <1>11, <1>15, <2>2, <2>3 DEF Channel!HeardRight
<1>21. UsersFirst(Channel!Replies(m.type), 0)
  <2> DEFINE r == Channel!Replies(m.type)
  <2>1. r \in Seq(Messages) /\ \A k \in 1 .. Len(r) : r[k].type \notin UserTypes
    BY RepliesAreOwn
  <2> HIDE DEF r
  <2>2. 0 \in 0 .. Len(r) /\ \A k \in 1 .. Len(r) : ~(k <= 0)
    BY <2>1
  <2>3. UsersFirst(r, 0)
    BY <1>11, <2>1, <2>2 DEF UsersFirst
  <2> QED
    BY <2>3 DEF r
<1>22. /\ said' \in Seq([message : Messages, key : Int]) /\ local' \in Nat /\ broken' \in BOOLEAN
       /\ Channel!SaidRight' /\ Channel!QueueKeepsOrder'
       /\ ~broken' => local' = Channel!RequestKeys' + Sealed(said', Len(said'))
  BY <1>1, <1>7, <1>11, <1>21, SendAllKeeps DEF SayInv
<1>23. SayTypes' /\ Closed' /\ QueueIsTail'
  BY <1>1, <1>11, <1>22 DEF SayInv, SayTypes, Closed, QueueIsTail
<1>24. Flags' /\ NothingYet' /\ Channel!RoomIsLeft'
  BY <1>1, <1>7, <1>11, <1>22 DEF Flags, NothingYet, Channel!RoomIsLeft
<1> QED
  BY <1>16, <1>17, <1>18, <1>19, <1>20, <1>22, <1>23, <1>24 DEF ChannelInv

\* Steps that hear nothing and send nothing.
LEMMA QuietKeeps ==
  ASSUME ChannelInv, Channel!Drained \/ Channel!SetPin \/ Channel!Stop \/ Channel!Ended
  PROVE  ChannelInv'
<1>1. StreamInv /\ SayInv /\ Flags /\ NothingYet /\ Channel!RoomIsLeft
  BY InParts
<1>2. UNCHANGED <<target, remote, typed, told, arrived, consumed, heard, local, broken, said,
                  queue, queued, counter>>
  BY DEF Channel!Drained, Channel!SetPin, Channel!Stop, Channel!Ended, Channel!config,
         Channel!received, Channel!users, Channel!outgoing, Channel!vars
<1>3. /\ at' # "connect" => at # "connect"
      /\ at' \in {"connect", "drain", "select", "overflow", "ended", "undefined"}
      /\ pin' \in BOOLEAN /\ stopped' \in BOOLEAN
      /\ at' = "connect" => at = "connect"
  BY <1>1 DEF Channel!Drained, Channel!SetPin, Channel!Stop, Channel!Ended, Channel!config,
         Channel!received, Channel!users, Channel!outgoing, Channel!vars, Flags
<1>4. StreamInv' /\ SayInv'
  BY <1>1, <1>2, <1>3, StreamStays, SayStays
<1>5. Flags' /\ NothingYet'
  BY <1>1, <1>2, <1>3 DEF Flags, NothingYet
<1>6. Channel!RoomIsLeft'
  <2>1. CASE at' = at
    BY <1>1, <1>2, <2>1 DEF Channel!RoomIsLeft, Channel!Buffered
  <2>2. CASE Channel!Drained
    <3>1. /\ arrived \in Nat /\ consumed \in Nat
          /\ Header \in Nat /\ BufSize \in Nat /\ Header < BufSize
      BY <1>1, ChannelConstants DEF StreamInv, StreamTypes
    <3>2. /\ Channel!Front.size \in Nat
          /\ \/ \E i \in DOMAIN told : Channel!Front = told[i]
             \/ Channel!Front.size = 0
      BY <1>1, FrontSize
    <3>3. /\ Channel!Total(Channel!Front) \in Nat
          /\ Channel!Total(Channel!Front) <= Header + Channel!Front.size
      BY <3>2, TotalIs
    <3>4. arrived' - consumed' = arrived - consumed
      BY <1>2
    <3>5. ASSUME at' = "select" PROVE arrived - consumed < BufSize
      <4>1. \/ arrived - consumed < Header
            \/ /\ ~(arrived - consumed >= Channel!Total(Channel!Front))
               /\ ~(Channel!Total(Channel!Front) > BufSize)
        BY <2>2, <3>1, <3>5 DEF Channel!Drained, Channel!Whole, Channel!TooLarge, Channel!Buffered
      <4> QED
        BY <3>1, <3>3, <4>1
    <3>6. ASSUME at' = "overflow" PROVE \E i \in DOMAIN told : Header + told[i].size > BufSize
      <4>0. Channel!Total(Channel!Front) > BufSize
        BY <2>2, <3>6 DEF Channel!Drained, Channel!TooLarge
      <4>1. Header + Channel!Front.size > BufSize
        BY <3>1, <3>2, <3>3, <4>0
      <4>2. Channel!Front.size # 0
        BY <3>1, <4>1
      <4> QED
        BY <3>2, <4>1, <4>2
    <3>7. at' # "undefined"
      BY <2>2 DEF Channel!Drained
    <3> QED
      BY <1>2, <3>4, <3>5, <3>6, <3>7 DEF Channel!RoomIsLeft, Channel!Buffered
  <2>3. CASE Channel!SetPin \/ Channel!Stop \/ Channel!Ended
    <3>1. at' = at
      BY <2>3 DEF Channel!SetPin, Channel!Stop, Channel!Ended, Channel!vars
    <3> QED
      BY <2>1, <3>1
  <2> QED
    BY <2>2, <2>3
<1> QED
  BY <1>4, <1>5, <1>6, InParts DEF ChannelInv, StreamInv, SayInv

\* A size that wraps with its header's: nothing more is said of the thread.
LEMMA HandleWrappedKeeps ==
  ASSUME ChannelInv, Channel!HandleWrapped
  PROVE  ChannelInv'
<1>1. StreamInv /\ SayInv /\ Flags /\ NothingYet /\ Channel!RoomIsLeft
  BY InParts
<1>2. /\ at = "drain" /\ at' = "undefined" /\ Channel!Wraps(Channel!Front)
      /\ UNCHANGED <<target, remote, typed, told, arrived, consumed, heard, local, broken, said,
                     queue, queued, counter, pin, stopped>>
  BY DEF Channel!HandleWrapped, Channel!config, Channel!received, Channel!users, Channel!outgoing
<1>3. StreamInv' /\ SayInv'
  BY <1>1, <1>2, StreamStays, SayStays
<1>4. Flags' /\ NothingYet'
  BY <1>1, <1>2 DEF Flags, NothingYet
<1>5. PICK i \in DOMAIN told : Channel!Front = told[i]
  <2>1. Channel!Front.size # 0
    BY <1>2, ChannelConstants, KeysAssumption DEF Channel!Wraps, Channel!ChannelAssumption
  <2> QED
    BY <1>1, <2>1, FrontSize
<1>6. Header + told[i].size >= SizeSpace
  BY <1>2, <1>5 DEF Channel!Wraps
<1>7. Channel!RoomIsLeft'
  BY <1>2, <1>6 DEF Channel!RoomIsLeft
<1> QED
  BY <1>3, <1>4, <1>7, InParts DEF ChannelInv, StreamInv, SayInv

\* recv: some bytes of what was told arrive.
LEMMA RecvKeeps ==
  ASSUME ChannelInv, Channel!Recv
  PROVE  ChannelInv'
<1>1. StreamInv /\ SayInv /\ Flags /\ NothingYet /\ Channel!RoomIsLeft
  BY InParts
<1>2. UNCHANGED <<target, remote, typed, told, consumed, heard, local, broken, said,
                  queue, queued, counter, pin, stopped>>
  BY DEF Channel!Recv, Channel!config, Channel!users, Channel!outgoing
<1>3. at = "select" /\ at' \in {"drain", "ended"}
  BY DEF Channel!Recv
<1>4. SayInv'
  BY <1>1, <1>2, <1>3, SayStays
<1>5. arrived' \in Nat /\ arrived' >= arrived /\ arrived' <= Channel!Length
  <2>1. arrived \in Nat /\ consumed \in Nat /\ arrived <= Channel!Length
    BY <1>1 DEF StreamInv, StreamTypes, Consumed
  <2>2. BufSize - Channel!Buffered \in Int
    BY <2>1, ChannelConstants DEF Channel!Buffered
  <2>3. CASE arrived' = arrived
    BY <2>1, <2>3
  <2>4. CASE arrived' # arrived
    <3>1. PICK n \in 1 .. BufSize - Channel!Buffered :
            arrived + n <= Channel!Length /\ arrived' = arrived + n
      BY <2>4 DEF Channel!Recv
    <3> QED
      BY <2>1, <2>2, <3>1
  <2> QED
    BY <2>3, <2>4
<1>6. StreamTypes' /\ InStream' /\ Counted' /\ Channel!HeardRight'
  BY <1>1, <1>2, <1>3, <1>5
     DEF StreamInv, StreamTypes, InStream, End, Counted, Base, Channel!HeardRight
<1>7. Consumed'
  <2>1. consumed \in Nat /\ arrived \in Nat /\ consumed <= arrived
    BY <1>1 DEF StreamInv, StreamTypes, Consumed
  <2>2. consumed <= arrived'
    BY <1>5, <2>1
  <2>3. Channel!Length' = Channel!Length
    BY <1>2 DEF Channel!Length
  <2> QED
    BY <1>1, <1>2, <1>5, <2>2, <2>3 DEF StreamInv, Consumed
<1>8. Flags' /\ NothingYet' /\ Channel!RoomIsLeft'
  BY <1>1, <1>2, <1>3 DEF Flags, NothingYet, Channel!RoomIsLeft
<1> QED
  BY <1>4, <1>6, <1>7, <1>8 DEF ChannelInv, SayInv

\* The queue goes out, and the PIN after it.
LEMMA WokenKeeps ==
  ASSUME ChannelInv, Channel!Woken
  PROVE  ChannelInv'
<1>1. StreamInv /\ SayInv /\ Flags /\ NothingYet /\ Channel!RoomIsLeft
  BY InParts
<1> DEFINE pinned == IF pin THEN <<Channel!Payload("pin")>> ELSE <<>>
           list == queue \o pinned
<1>2. /\ at = "select" /\ at' \in {"ended", "drain"}
      /\ Channel!SendAll(list)
      /\ queue' = <<>> /\ pin' = FALSE
      /\ UNCHANGED <<target, remote, typed, told, arrived, consumed, heard, counter, stopped, queued>>
  BY DEF Channel!Woken, Channel!config, Channel!received
<1>3. StreamInv'
  BY <1>1, <1>2, StreamStays
<1>4. queue \in Seq(UserMessages) /\ queued \in Seq(UserMessages)
  BY <1>1 DEF SayInv, SayTypes
<1>5. pinned \in Seq(Messages) /\ \A k \in 1 .. Len(pinned) : pinned[k].type \notin UserTypes
  <2>1. Channel!Payload("pin") \in Messages /\ Channel!Payload("pin").type \notin UserTypes
    BY DEF Channel!Payload, Channel!Message, Messages, OwnTypes, UserTypes
  <2>2. CASE pin
    <3>1. pinned = <<Channel!Payload("pin")>>
      BY <2>2
    <3> HIDE DEF pinned
    <3>2. Len(pinned) = 1 /\ pinned[1] = Channel!Payload("pin")
      BY <3>1
    <3>3. pinned \in Seq(Messages)
      BY <2>1, <3>1
    <3> QED
      BY <2>1, <3>2, <3>3
  <2>3. CASE ~pin
    <3>1. pinned = <<>>
      BY <2>3
    <3> HIDE DEF pinned
    <3> QED
      BY <3>1
  <2> QED
    BY <2>2, <2>3
<1> HIDE DEF pinned
<1>6. \A x \in UserMessages : x \in Messages /\ x.type \in UserTypes
  BY DEF UserMessages, Messages
<1>7. queue \in Seq(Messages) /\ \A k \in 1 .. Len(queue) : queue[k].type \in UserTypes
  BY <1>4, <1>6
<1>8. PICK q \in Nat : q = Len(queue)
  BY <1>4
<1>9. PICK l \in Nat : l = Len(pinned)
  BY <1>5
<1>10. /\ list \in Seq(Messages) /\ Len(list) = q + l
       /\ \A k \in 1 .. q : list[k] = queue[k]
  BY <1>5, <1>7, <1>8, <1>9
<1>11. \A k \in 1 .. l : list[q + k] = pinned[k]
  BY <1>5, <1>7, <1>8, <1>9, Joined
<1> HIDE DEF list
<1>12. ASSUME NEW k \in 1 .. q + l
       PROVE  list[k].type \in UserTypes <=> k <= q
  <2>1. CASE k <= q
    BY <1>7, <1>8, <1>10, <2>1
  <2>2. CASE ~(k <= q)
    <3>1. PICK j \in 1 .. l : k = q + j
      <4>1. k - q \in 1 .. l /\ k = q + (k - q)
        BY <2>2
      <4> QED
        BY <4>1
    <3> QED
      BY <1>5, <1>9, <1>11, <2>2, <3>1
  <2> QED
    BY <2>1, <2>2
<1>13. UsersFirst(list, q)
  <2>1. q \in 0 .. Len(list)
    BY <1>10
  <2> QED
    BY <1>2, <1>8, <1>10, <1>12, <2>1 DEF UsersFirst
<1>14. /\ said' \in Seq([message : Messages, key : Int]) /\ local' \in Nat /\ broken' \in BOOLEAN
       /\ Channel!SaidRight' /\ Channel!QueueKeepsOrder'
       /\ ~broken' => local' = Channel!RequestKeys' + Sealed(said', Len(said'))
  BY <1>1, <1>2, <1>13, SendAllKeeps DEF SayInv
<1>15. SayTypes' /\ Closed'
  BY <1>1, <1>2, <1>14 DEF SayInv, SayTypes, Closed
<1>16. QueueIsTail'
  <2>1. Len(queue') = 0 /\ DOMAIN queue' = {} /\ Len(queued') \in Nat
    BY <1>2, <1>4
  <2> QED
    BY <2>1 DEF QueueIsTail
<1>17. Flags' /\ NothingYet' /\ Channel!RoomIsLeft'
  BY <1>1, <1>2, <1>14 DEF Flags, NothingYet, Channel!RoomIsLeft
<1> QED
  BY <1>3, <1>14, <1>15, <1>16, <1>17 DEF ChannelInv, StreamInv

\* The connection is made: the request has taken the first counts.
LEMMA ConnectKeeps ==
  ASSUME ChannelInv, Channel!Connect
  PROVE  ChannelInv'
<1>1. StreamInv /\ SayInv /\ Flags /\ NothingYet /\ Channel!RoomIsLeft
  BY InParts
<1>2. /\ at = "connect" /\ at' = "drain" /\ typed' \in BOOLEAN
      /\ local' = Channel!RequestKeys
      /\ remote' = (IF typed' THEN 1 ELSE 0)
      /\ UNCHANGED <<target, told, arrived, consumed, heard, queue, pin, counter, stopped, queued,
                     broken, said>>
  BY DEF Channel!Connect, Channel!config, Channel!users
<1>3. told = <<>> /\ heard = <<>> /\ said = <<>> /\ arrived = 0 /\ consumed = 0
  BY <1>1, <1>2 DEF NothingYet
<1>4. Keyed(told, 0) = 0 /\ Sealed(said, 0) = 0
  <2>1. {i \in 1 .. 0 : told[i].size > 0} = {} /\ {i \in 1 .. 0 : said[i].message.payload} = {}
    OBVIOUS
  <2> QED
    BY <2>1, FS_EmptySet DEF Keyed, Sealed
<1>5. Channel!RequestKeys \in Nat /\ Channel!RequestKeys' = Channel!RequestKeys
  BY <1>1, <1>2 DEF SayInv, SayTypes, Channel!RequestKeys
<1>6. StreamTypes' /\ InStream' /\ Consumed' /\ Channel!HeardRight'
  BY <1>1, <1>2
     DEF StreamInv, StreamTypes, InStream, End, Consumed, Channel!Length, Channel!HeardRight
<1>7. Counted'
  <2>1. DOMAIN told' = {} /\ Len(heard') = 0
    BY <1>2, <1>3
  <2>2. remote' = Base' + Keyed(told', Len(heard'))
    BY <1>2, <1>4, <2>1 DEF Base
  <2> QED
    BY <2>1, <2>2 DEF Counted
<1>8. SayTypes' /\ QueueIsTail'
  BY <1>1, <1>2, <1>5 DEF SayInv, SayTypes, QueueIsTail
<1>9. Closed'
  <2>1. Len(said') = 0
    BY <1>2, <1>3
  <2>2. local' = Channel!RequestKeys' + Sealed(said', Len(said'))
    BY <1>2, <1>4, <1>5, <2>1
  <2> QED
    BY <2>2 DEF Closed
<1>10. Channel!SaidRight' /\ Channel!QueueKeepsOrder'
  BY <1>1, <1>2, <1>5 DEF SayInv, Channel!SaidRight, Channel!QueueKeepsOrder, Channel!Passed,
                          Channel!FromUsers
<1>11. Flags' /\ NothingYet' /\ Channel!RoomIsLeft'
  BY <1>1, <1>2 DEF Flags, NothingYet, Channel!RoomIsLeft
<1> QED
  BY <1>6, <1>7, <1>8, <1>9, <1>10, <1>11 DEF ChannelInv

\* Of the messages said, a user's is one of those queued.
LEMMA UsersWithin ==
  ASSUME SayTypes, NEW i \in 1 .. Len(said), said[i].message.type \in UserTypes
  PROVE  /\ Users(said, i) \in Nat /\ Users(said, i) >= 1
         /\ Users(said, Len(said)) \in Nat /\ Users(said, i) <= Users(said, Len(said))
<1> DEFINE L == Len(said)
           S == {j \in 1 .. i : said[j].message.type \in UserTypes}
           T == {j \in 1 .. L : said[j].message.type \in UserTypes}
<1>1. L \in Nat /\ i \in Nat /\ i >= 1 /\ i <= L
  BY DEF SayTypes
<1>2. S \in SUBSET (1 .. i) /\ T \in SUBSET (1 .. L) /\ i \in S
  BY <1>1
<1>3. S \in SUBSET T
  BY <1>1
<1> HIDE DEF S, T, L
<1>4. IsFiniteSet(S) /\ Cardinality(S) \in Nat /\ IsFiniteSet(T) /\ Cardinality(T) \in Nat
  BY <1>1, <1>2, CountType
<1>5. Cardinality(S) <= Cardinality(T)
  BY <1>3, <1>4, FS_Subset
<1>6. Cardinality(S) # 0
  BY <1>2, <1>4, FS_EmptySet
<1> QED
  BY <1>4, <1>5, <1>6 DEF S, T, L, Users

\* A user queues a message.
LEMMA QueueKeeps ==
  ASSUME ChannelInv, NEW m \in UserMessages, Channel!Queue(m), counter' \in Nat
  PROVE  ChannelInv'
<1>1. StreamInv /\ SayInv /\ Flags /\ NothingYet /\ Channel!RoomIsLeft
  BY InParts
<1>2. /\ queue' = Append(queue, m) /\ queued' = Append(queued, m)
      /\ UNCHANGED <<at, target, remote, typed, told, arrived, consumed, heard, local, broken, said,
                     pin, stopped>>
  BY DEF Channel!Queue, Channel!Enqueued, Channel!config, Channel!received, Channel!outgoing
<1>3. StreamInv'
  BY <1>1, <1>2, StreamStays
<1>4. queue \in Seq(UserMessages) /\ queued \in Seq(UserMessages)
  BY <1>1 DEF SayInv, SayTypes
<1>5. PICK q \in Nat : q = Len(queue) /\ DOMAIN queue = 1 .. q
  BY <1>4
<1>6. PICK a \in Nat : a = Len(queued) /\ DOMAIN queued = 1 .. a
  BY <1>4
<1>7. /\ queue' \in Seq(UserMessages) /\ Len(queue') = q + 1 /\ DOMAIN queue' = 1 .. q + 1
      /\ queue'[q + 1] = m /\ \A k \in 1 .. q : queue'[k] = queue[k]
  BY <1>2, <1>4, <1>5
<1>8. /\ queued' \in Seq(UserMessages) /\ Len(queued') = a + 1
      /\ queued'[a + 1] = m /\ \A k \in 1 .. a : queued'[k] = queued[k]
  BY <1>2, <1>4, <1>6
<1>9. SayTypes' /\ Closed'
  BY <1>1, <1>2, <1>7, <1>8 DEF SayInv, SayTypes, Closed, Channel!RequestKeys
<1>10. q <= a /\ \A k \in 1 .. q : queue[k] = queued[a - q + k]
  BY <1>1, <1>5, <1>6 DEF SayInv, QueueIsTail
<1>11. QueueIsTail'
  <2>1. ASSUME NEW k \in 1 .. q + 1 PROVE queue'[k] = queued'[(a + 1) - (q + 1) + k]
    <3>1. (a + 1) - (q + 1) + k = a - q + k
      OBVIOUS
    <3>2. CASE k = q + 1
      <4>1. a - q + k = a + 1
        BY <3>2
      <4> QED
        BY <1>7, <1>8, <3>1, <3>2, <4>1
    <3>3. CASE k # q + 1
      <4>1. k \in 1 .. q /\ a - q + k \in 1 .. a
        BY <1>10, <3>3
      <4> QED
        BY <1>7, <1>8, <1>10, <3>1, <4>1
    <3> QED
      BY <3>2, <3>3
  <2>2. q + 1 <= a + 1
    BY <1>10
  <2> QED
    BY <1>7, <1>8, <2>1, <2>2 DEF QueueIsTail
<1>12. /\ Users(said, Len(said)) + q <= a
       /\ ~broken => Users(said, Len(said)) + q = a
       /\ \A i \in DOMAIN said :
            said[i].message.type \in UserTypes => said[i].message = queued[Users(said, i)]
  BY <1>1, <1>5, <1>6, InTheseTerms DEF SayInv
<1>13. Users(said, Len(said)) \in Nat /\ DOMAIN said = 1 .. Len(said)
  <2>1. Len(said) \in Nat /\ DOMAIN said = 1 .. Len(said)
    BY <1>1 DEF SayInv, SayTypes
  <2>2. {j \in 1 .. Len(said) : said[j].message.type \in UserTypes} \in SUBSET (1 .. Len(said))
    OBVIOUS
  <2> QED
    BY <2>1, <2>2, CountType DEF Users
<1>14. ASSUME NEW i \in DOMAIN said, said[i].message.type \in UserTypes
       PROVE  said[i].message = queued'[Users(said, i)]
  <2>1. i \in 1 .. Len(said)
    BY <1>13
  <2>2. /\ Users(said, i) \in Nat /\ Users(said, i) >= 1
        /\ Users(said, i) <= Users(said, Len(said))
    BY <1>1, <1>14, <2>1, UsersWithin DEF SayInv
  <2>3. Users(said, Len(said)) + q <= a
    BY <1>12
  <2>4. Users(said, i) \in 1 .. a
    BY <1>13, <2>2, <2>3
  <2> QED
    BY <1>8, <1>12, <1>14, <2>4
<1>15. Channel!QueueKeepsOrder'
  <2>1. Users(said, Len(said)) + (q + 1) <= a + 1
    <3>1. Users(said, Len(said)) + q <= a
      BY <1>12
    <3> QED
      BY <1>13, <3>1
  <2>2. ~broken => Users(said, Len(said)) + (q + 1) = a + 1
    <3>1. ~broken => Users(said, Len(said)) + q = a
      BY <1>12
    <3> QED
      BY <1>13, <3>1
  <2> QED
    BY <1>2, <1>7, <1>8, <1>14, <2>1, <2>2, InTheseTermsNext
<1>16. Channel!SaidRight'
  BY <1>1, <1>2 DEF SayInv, Channel!SaidRight, Channel!RequestKeys
<1>17. Flags' /\ NothingYet' /\ Channel!RoomIsLeft'
  BY <1>1, <1>2 DEF Flags, NothingYet, Channel!RoomIsLeft, Channel!Buffered
<1> QED
  BY <1>3, <1>9, <1>11, <1>15, <1>16, <1>17 DEF ChannelInv, StreamInv

\* Each step of the channel keeps the invariant.
LEMMA ChannelKeeps == ChannelInv /\ Channel!Next => ChannelInv'
<1> SUFFICES ASSUME ChannelInv, Channel!Next PROVE ChannelInv'
  OBVIOUS
<1>1. counter \in Nat
  BY DEF ChannelInv, SayTypes
<1>2. CASE Channel!GotoBed
  <2>1. Channel!Bare("goto_bed") \in UserMessages
    BY DEF Channel!Bare, Channel!Message, UserMessages, UserTypes
  <2> QED
    BY <1>1, <1>2, <2>1, QueueKeeps DEF Channel!GotoBed
<1>3. CASE Channel!SetText
  <2>1. counter' = counter + 1 /\ counter' \in Nat
    BY <1>1, <1>3 DEF Channel!SetText
  <2>2. Channel!Message("text", TRUE, counter') \in UserMessages
    BY <2>1 DEF Channel!Message, UserMessages, UserTypes
  <2> QED
    BY <1>3, <2>1, <2>2, QueueKeeps DEF Channel!SetText
<1>4. CASE Channel!CloseKeyboard
  <2>1. Channel!Payload("close") \in UserMessages
    BY DEF Channel!Payload, Channel!Message, UserMessages, UserTypes
  <2> QED
    BY <1>1, <1>4, <2>1, QueueKeeps DEF Channel!CloseKeyboard
<1> QED
  BY <1>2, <1>3, <1>4, ConnectKeeps, TellKeeps, HandleKeeps, HandleWrappedKeeps, QuietKeeps, RecvKeeps, WokenKeeps
     DEF Channel!Next

\* And no step of the others touches it.
LEMMA ChannelInvStays == ChannelInv /\ [Next]_vars => ChannelInv'
<1> SUFFICES ASSUME ChannelInv, [Next]_vars PROVE ChannelInv'
  OBVIOUS
<1>1. CASE Exchanged(Channel!Next)
  BY <1>1, ChannelKeeps DEF Exchanged
<1>2. ASSUME UNCHANGED ctrlVars
      PROVE  ChannelInv'
  <2>1. StreamInv /\ SayInv /\ Flags /\ NothingYet /\ Channel!RoomIsLeft
    BY InParts
  <2>2. UNCHANGED <<at, target, features, local, remote, typed, told, arrived, consumed, heard,
                    queue, pin, counter, stopped, broken, queued, said>>
    BY <1>2 DEF ctrlVars
  <2>3. StreamInv' /\ SayInv'
    BY <2>1, <2>2, StreamStays, SayStays
  <2>4. Flags' /\ NothingYet' /\ Channel!RoomIsLeft'
    BY <2>1, <2>2 DEF Flags, NothingYet, Channel!RoomIsLeft, Channel!Buffered
  <2> QED
    BY <2>3, <2>4 DEF ChannelInv, StreamInv, SayInv
<1> QED
  BY <1>1, <1>2 DEF Next, Received, Sent, vars

\* Before the connection there is nothing.
LEMMA ChannelStarts == Channel!Init => ChannelInv
<1> SUFFICES ASSUME Channel!Init PROVE ChannelInv
  OBVIOUS
<1>1. /\ at = "connect" /\ target \in {"old", "ps4", "ps5"}
      /\ local = 0 /\ remote = 0 /\ typed = FALSE
      /\ told = <<>> /\ arrived = 0 /\ consumed = 0 /\ heard = <<>>
      /\ queue = <<>> /\ pin = FALSE /\ counter = 0 /\ stopped = FALSE
      /\ broken = FALSE /\ queued = <<>> /\ said = <<>>
  BY ChannelConstants DEF Channel!Init
<1>2. StreamTypes /\ SayTypes
  <2>1. /\ told \in Seq(ToldMessages) /\ heard \in Seq([type : Kinds, key : Int])
        /\ queue \in Seq(UserMessages) /\ queued \in Seq(UserMessages)
    BY <1>1
  <2>2. said \in Seq([message : Messages, key : Int])
    BY <1>1
  <2> QED
    BY <1>1, <2>1, <2>2 DEF StreamTypes, SayTypes
<1>3. Flags /\ NothingYet /\ Closed /\ Channel!RoomIsLeft
  BY <1>1 DEF Flags, NothingYet, Closed, Channel!RoomIsLeft
<1>4. DOMAIN told = {} /\ DOMAIN heard = {} /\ DOMAIN queue = {} /\ DOMAIN said = {}
      /\ Len(told) = 0 /\ Len(heard) = 0 /\ Len(queue) = 0 /\ Len(queued) = 0 /\ Len(said) = 0
  BY <1>1
<1>5. InStream /\ Consumed /\ Counted /\ QueueIsTail /\ Channel!HeardRight
  BY <1>1, <1>4 DEF InStream, Consumed, Channel!Length, Counted, QueueIsTail, Channel!HeardRight
<1>6. Channel!SaidRight /\ Channel!QueueKeepsOrder
  <2>1. Users(said, 0) = 0
    <3>1. {i \in 1 .. 0 : said[i].message.type \in UserTypes} = {}
      OBVIOUS
    <3> QED
      BY <3>1, FS_EmptySet DEF Users
  <2> QED
    BY <1>1, <1>4, <2>1, InTheseTerms
<1> QED
  BY <1>2, <1>3, <1>5, <1>6 DEF ChannelInv

\* ChannelIsRight follows.
LEMMA ChannelInvImplies == ChannelInv => Channel!ChannelIsRight
BY DEF ChannelInv, Flags, Consumed, Channel!ChannelIsRight

(***************************************************************************)
(* The theorems                                                            *)
(***************************************************************************)
\* What the ring shows from min on is the key stream from min on, and a chunk
\* that is being generated never goes over readable slots, wherever the ring
\* stands when the thread skips ahead or drops its oldest chunk
\* (gkcrypt.c:289-325, :478-543).
THEOREM Ring == Spec => []RingHolds
<1>1. Init => RingInv
  BY RingStarts DEF Init
<1>2. RingInv => RingHolds
  BY DEF RingInv, RingHolds, Remote!RingHolds, Content, Room
<1> QED
  BY <1>1, <1>2, RingInvStays, PTL DEF Spec

\* Each packet is opened with the MAC key and the key stream of the position it
\* was closed at, which the receiver finds from the low half, and each ctrl
\* payload under the count it was closed with, in both directions
\* (gkcrypt.c:295-325, :551-563, ctrl.c:289-315, :398-452).
THEOREM Opened == Spec => []OpenedRight
<1>1. Init => RingInv /\ ChannelInv
  BY RingStarts, ChannelStarts DEF Init
<1>2. RingInv /\ ChannelInv => OpenedRight
  BY ChannelInvImplies DEF RingInv, OpenedRight
<1> QED
  BY <1>1, <1>2, RingInvStays, ChannelInvStays, PTL DEF Spec
=============================================================================
