------------------------------- MODULE Takion -------------------------------
(***************************************************************************)
(* The receive side of lib/src/takion.c: the handshake, and the loop that  *)
(* checks MACs, postpones audio and video until the keys are there, brings *)
(* data into order through the reorder queue, hands it to the callback and *)
(* acknowledges it.  All of it happens in the Takion thread; others only   *)
(* stop it.                                                                *)
(*                                                                         *)
(* The console and the network are external.  A message of the console is  *)
(* known by how many it sent before; any that was sent may arrive, any     *)
(* number of times and in any order, or never.  `good` says whether its    *)
(* MAC verifies under the keys: those up to BANG carry none, a later one   *)
(* may be damaged.  Packets that change nothing here (unknown types, parse *)
(* errors, the acks SendBuffer models) are received and let go.  Failing   *)
(* allocations are left out.                                               *)
(***************************************************************************)
EXTENDS SeqNum, Sequences

CONSTANTS
  Size,           \* 2 ^ TAKION_REORDER_QUEUE_SIZE_EXP
  None,           \* an entry of the reorder queue that is not set
  FirstSeq,       \* the tag in the console's INIT_ACK, its first number
  MaxMessages,    \* the console sends this many messages at most
  Bang,           \* the message whose callback sets the keys
  PostponeSize    \* TAKION_POSTPONE_PACKETS_SIZE

VARIABLES
  thread,           \* where takion_thread_func is
  enable_crypt,
  crypt,            \* gkcrypt_remote is set
  crypt_available,  \* the thread's own flag
  stop,             \* the token in stop_pipe
  postponed,        \* the packets of postponed_packets: does the MAC verify?
  sent,             \* console: messages sent
  delivered,        \* history: the messages the callback got
  acked,            \* history: messages covered by the last ack sent
  av,               \* history: kinds of packets that reached the AV callback
  begin, count, queue, drop_strategy, held, pulled, dropped, status

queueVars == <<begin, count, queue, drop_strategy, held, pulled, dropped, status>>
vars == <<thread, enable_crypt, crypt, crypt_available, stop, postponed, sent,
          delivered, acked, av, queueVars>>

\* A buffer is allocated for every packet received; two tell a packet that
\* waits in the queue from a second copy of it.
Packets == [n : 0 .. MaxMessages - 1, good : BOOLEAN, buf : {1, 2}]

Queue == INSTANCE ReorderQueue WITH Elems <- Packets, Reach <- 0, Behind <- 0

ASSUME TakionAssumption ==
  /\ FirstSeq \in SeqNums
  /\ MaxMessages \in Nat /\ MaxMessages < Half
  /\ Bang \in 0 .. MaxMessages - 1
  /\ PostponeSize \in Nat \ {0}
  /\ Queue!QueueAssumption

SeqOf(n) == Cast(FirstSeq + n)
NewPacket(n, good) ==
  LET waits == [n |-> n, good |-> good, buf |-> 1] \in held
  IN  [n |-> n, good |-> good, buf |-> IF waits THEN 2 ELSE 1]

Running == {"loop", "postponed", "recv", "flush"}

TypeOK ==
  /\ thread \in {"start", "init_ack", "cookie_ack", "connected", "fini",
                 "disconnect", "exited", "crashed"} \cup Running
  /\ enable_crypt \in BOOLEAN /\ crypt \in BOOLEAN /\ crypt_available \in BOOLEAN
  /\ stop \in BOOLEAN
  /\ postponed \in Seq(BOOLEAN) /\ Len(postponed) <= PostponeSize
  /\ sent \in 0 .. MaxMessages
  /\ delivered \in Seq(0 .. MaxMessages - 1)
  /\ acked \in 0 .. MaxMessages
  /\ av \subseteq BOOLEAN
  /\ Queue!TypeOK

\* chiaki_takion_connect.  The queue gets its fields once the tag is known;
\* nothing reads them before.
Init ==
  /\ thread = "start"
  /\ enable_crypt \in BOOLEAN
  /\ crypt = FALSE /\ crypt_available = FALSE
  /\ stop = FALSE
  /\ postponed = <<>>
  /\ sent = 0 /\ delivered = <<>> /\ acked = 0 /\ av = {}
  /\ Queue!Init /\ begin = FirstSeq

\* chiaki_takion_close; the join that follows waits for "exited".
Stop ==
  /\ ~stop
  /\ stop' = TRUE
  /\ UNCHANGED <<thread, enable_crypt, crypt, crypt_available, postponed, sent,
                 delivered, acked, av, queueVars>>

\* External: the console sends its next message.
ConsoleSends ==
  /\ thread \in Running
  /\ sent < MaxMessages
  /\ sent' = sent + 1
  /\ UNCHANGED <<thread, enable_crypt, crypt, crypt_available, stop, postponed,
                 delivered, acked, av, queueVars>>

Goto(place) ==
  /\ thread' = place
  /\ UNCHANGED <<enable_crypt, stop, sent>>

Quiet == UNCHANGED <<crypt, delivered, acked, av, queueVars>>
-----------------------------------------------------------------------------
(* takion_handshake: INIT, INIT_ACK, COOKIE, COOKIE_ACK *)

SendInit ==
  /\ thread = "start" /\ Goto("init_ack")
  /\ Quiet /\ UNCHANGED <<crypt_available, postponed>>

ReceiveInitAck ==
  /\ thread = "init_ack" /\ ~stop /\ Goto("cookie_ack")
  /\ Quiet /\ UNCHANGED <<crypt_available, postponed>>

ReceiveCookieAck ==
  /\ thread = "cookie_ack" /\ ~stop /\ Goto("connected")
  /\ Quiet /\ UNCHANGED <<crypt_available, postponed>>

\* A send fails, nothing comes for 5 s, something else comes (data already, a
\* second INIT_ACK), or a stop.
HandshakeFails ==
  /\ thread \in {"start", "init_ack", "cookie_ack"} /\ Goto("disconnect")
  /\ Quiet /\ UNCHANGED <<crypt_available, postponed>>

\* Queue and send buffer are there; the callback gets CONNECTED.
Connected ==
  /\ thread = "connected" /\ Goto("loop")
  /\ crypt_available' = crypt
  /\ Quiet /\ UNCHANGED postponed
-----------------------------------------------------------------------------
(* The loop of takion_thread_func *)

RecheckDue == enable_crypt /\ ~crypt_available /\ crypt
Waiting == Queue!SetEntries(begin, count)

NoRecheck ==
  /\ thread = "loop" /\ ~RecheckDue /\ Goto("postponed")
  /\ Quiet /\ UNCHANGED <<crypt_available, postponed>>

\* The keys came: the messages that still wait in the queue are checked again.
\* Peek stores the number of an entry that is set through the pointer it got,
\* and the thread passes NULL; so the loop only ends if there is none.
Recheck ==
  /\ thread = "loop" /\ RecheckDue /\ Waiting = {} /\ Goto("postponed")
  /\ crypt_available' = TRUE
  /\ Quiet /\ UNCHANGED postponed

RecheckCrashes ==
  /\ thread = "loop" /\ RecheckDue /\ Waiting # {} /\ Goto("crashed")
  /\ crypt_available' = TRUE
  /\ Quiet /\ UNCHANGED postponed

\* Broken variants: the flush waits for a recheck that was already done; the
\* MAC is not looked at; a packet is handled though the keys may yet come.
FlushDueLate == postponed # <<>> /\ crypt /\ ~crypt_available
MacOkAlways(good) == TRUE
MustPostponeNever == FALSE

\* takion_handle_packet_mac
MacOk(good) == crypt => good
MustPostpone == enable_crypt /\ ~crypt

\* takion_handle_packet, for audio and video, with the keys set.
FlushDue == postponed # <<>> /\ crypt
Verified(packets) == {packets[i] : i \in {j \in DOMAIN packets : MacOk(packets[j])}}

FlushPostponed ==
  /\ thread = "postponed" /\ FlushDue /\ Goto("recv")
  /\ postponed' = <<>>
  /\ av' = av \cup Verified(postponed)
  /\ UNCHANGED <<crypt, crypt_available, delivered, acked, queueVars>>

NothingPostponed ==
  /\ thread = "postponed" /\ ~FlushDue /\ Goto("recv")
  /\ Quiet /\ UNCHANGED <<crypt_available, postponed>>

\* Broken variant: a packet is read before the stop pipe is looked at.
CanReceiveStopped == thread = "recv"

\* takion_recv without a timeout: the stop pipe goes first.
CanReceive == thread = "recv" /\ ~stop

\* Broken variant: one packet more than the array holds.
HasRoomOneMore == Len(postponed) <= PostponeSize
HasRoom == Len(postponed) < PostponeSize

\* A packet of audio or video; when it must wait and cannot, it is lost.
ReceiveAV(good) ==
  /\ CanReceive /\ MacOk(good)
  /\ Goto("loop")
  /\ IF MustPostpone
     THEN /\ postponed' = IF HasRoom THEN Append(postponed, good) ELSE postponed
          /\ UNCHANGED av
     ELSE av' = av \cup {good} /\ UNCHANGED postponed
  /\ UNCHANGED <<crypt, crypt_available, delivered, acked, queueVars>>

\* A data message enters the queue, which keeps it or frees it.
ReceiveData(n, good) ==
  /\ CanReceive /\ n < sent /\ MacOk(good)
  /\ n <= Bang => ~good
  /\ Goto("flush")
  /\ Queue!Push(SeqOf(n), NewPacket(n, good))
  /\ UNCHANGED <<crypt, crypt_available, postponed, delivered, acked, av>>

\* The MAC is wrong, or the packet is none of the two above.
ReceiveOther ==
  /\ CanReceive /\ Goto("loop")
  /\ Quiet /\ UNCHANGED <<crypt_available, postponed>>

RecvEnds ==
  /\ thread = "recv" /\ Goto("fini")
  /\ Quiet /\ UNCHANGED <<crypt_available, postponed>>

HeadWaits == count > 0 /\ Queue!Entry(begin) # None

\* takion_flush_data_queue pulls until the next message is missing.  The
\* callback may set the keys when it sees BANG
\* (chiaki_takion_set_crypt, called by the stream connection).
FlushPull ==
  /\ thread = "flush"
  /\ Queue!Pull
  /\ Goto("flush")
  /\ \E p \in pulled' :
       /\ delivered' = Append(delivered, p[2].n)
       /\ \/ crypt' = crypt
          \/ enable_crypt /\ p[2].n = Bang /\ crypt' = TRUE
  /\ UNCHANGED <<crypt_available, postponed, acked, av>>

\* Broken variant: the ack names the message that is missing.
AckedNext(p) == Dist(FirstSeq, p[1]) + 2

\* How many messages an ack of the pulled number covers.
Acked(p) == Dist(FirstSeq, p[1]) + 1

\* The ack goes out only if something was pulled.
FlushEnds ==
  /\ thread = "flush" /\ ~HeadWaits /\ Goto("loop")
  /\ \/ pulled = {} /\ UNCHANGED acked
     \/ \E p \in pulled : acked' = Acked(p)
  /\ UNCHANGED <<crypt, crypt_available, postponed, delivered, av, queueVars>>
-----------------------------------------------------------------------------
(* The end of the thread *)

FiniQueue ==
  /\ thread = "fini" /\ Goto("disconnect")
  /\ Queue!Fini
  /\ UNCHANGED <<crypt, crypt_available, postponed, delivered, acked, av>>

Disconnect ==
  /\ thread = "disconnect" /\ Goto("exited")
  /\ Quiet /\ UNCHANGED <<crypt_available, postponed>>

Ended == thread \in {"exited", "crashed"} /\ UNCHANGED vars

ThreadStep ==
  \/ SendInit \/ HandshakeFails \/ Connected
  \/ NoRecheck \/ Recheck \/ RecheckCrashes
  \/ FlushPostponed \/ NothingPostponed
  \/ FlushPull \/ FlushEnds
  \/ FiniQueue \/ Disconnect

Next ==
  \/ ThreadStep
  \/ ReceiveInitAck \/ ReceiveCookieAck
  \/ \E good \in BOOLEAN : ReceiveAV(good)
  \/ \E n \in 0 .. MaxMessages - 1, good \in BOOLEAN : ReceiveData(n, good)
  \/ ReceiveOther \/ RecvEnds
  \/ Stop \/ ConsoleSends
  \/ Ended

Spec == Init /\ [][Next]_vars

MayArrive(n) == CanReceive /\ n < sent /\ MacOk(n > Bang)

\* The thread runs; a wait of the handshake times out; a stop is noticed when
\* the thread selects.  A message sent again and again arrives at last, with
\* the MAC the console gave it.
Fairness ==
  /\ WF_vars(ThreadStep)
  /\ WF_vars(stop /\ RecvEnds)
  /\ \A n \in 0 .. MaxMessages - 1 :
       []<>MayArrive(n) => []<><<ReceiveData(n, n > Bang)>>_vars

FairSpec == Spec /\ Fairness
-----------------------------------------------------------------------------
(* Properties *)

\* The callback gets the console's messages in the order it sent them, each
\* once, whatever the network repeats and reorders, across the wrap.
InOrderOnce == \A i \in DOMAIN delivered : delivered[i] = i - 1

\* When the thread waits for the next packet, no message that could be handed
\* out is left in the queue, and the last ack covers exactly what was.
AckedAtRest == thread = "recv" => ~HeadWaits /\ acked = Len(delivered)

\* Both: what was handed out is in order, whole and acked.
DeliveredAndAcked == TypeOK /\ InOrderOnce /\ AckedAtRest

\* The wait has no timeout, so nothing postponed may be left when it starts
\* and the keys are there (takion.h: "all other packets are postponed until
\* gkcrypt_remote is set").
NothingPostponedAtRest == thread = "recv" /\ crypt => postponed = <<>>

\* With encryption no audio or video packet reaches the callback unless its
\* MAC was verified, those that came before the keys included.
AvIsAuthentic == enable_crypt => FALSE \notin av

\* Both: no packet is let through, and none is forgotten.
PostponedAreHandled == NothingPostponedAtRest /\ AvIsAuthentic

\* Once the thread knows of the keys it hands out no message whose MAC is
\* wrong.  The messages that BANG lets go in its own flush are handed out
\* before, unchecked.
CheckedOnceKeyed ==
  [][crypt_available /\ delivered' # delivered
       => \A p \in pulled' : p[2].good]_vars

\* The thread never dies over the recheck of waiting messages (takion.c:704:
\* "Crypt has become available. Re-checking MACs of %llu packets").
NoCrash == thread # "crashed"

\* A stop ends the thread, however busy the network keeps it.
StopEnds == stop ~> thread \in {"exited", "crashed"}

\* Every message the console sent is handed out unless the thread ends: the
\* MAC check, the queue and the ack of what came before never shut it out.
AllDelivered ==
  \A n \in 0 .. MaxMessages - 1 :
    sent > n ~> (n < Len(delivered) \/ thread \notin Running)

\* Both: the thread does what it runs for until it is told to stop.
ThreadGoesOn == StopEnds /\ AllDelivered
=============================================================================
