----------------------------- MODULE SendBuffer -----------------------------
(***************************************************************************)
(* lib/src/takionsendbuffer.c and the two functions of lib/src/takion.c    *)
(* that feed it: chiaki_takion_send_message_data, called by any thread,    *)
(* and takion_handle_packet_message_data_ack, called by the Takion thread. *)
(*                                                                         *)
(* Every critical section of send_buffer->mutex is one step; the resend    *)
(* thread releases the mutex only inside its two condition waits.  Time is *)
(* counted in wakeups of the resend thread (100 ms): a packet is due once  *)
(* ResendAge of them passed since it was last sent.                        *)
(*                                                                         *)
(* The peer and the network are external: datagrams and acks may be lost,  *)
(* duplicated and reordered; the peer acks cumulatively on every data      *)
(* packet it gets, as SCTP does.                                           *)
(***************************************************************************)
EXTENDS SeqNum, Sequences, FiniteSets, FiniteSetsExt, Functions

CONSTANTS
  Senders,       \* threads that send data messages
  Size,          \* packets_size
  FirstSeq,      \* tag_local, the first sequence number
  MaxMessages,   \* bound: messages sent in a behaviour
  ArrayBound,    \* bound: packets in the arrays AckIsFilter looks at
  ResendAge,     \* TAKION_DATA_RESEND_TIMEOUT_MS in wakeups
  SendFails,     \* may send(2) fail?
  WaitFails      \* may pthread_cond_timedwait fail (thread.c:246)?

ASSUME SendBufferAssumption ==
  /\ Size \in Nat \ {0}
  /\ FirstSeq \in SeqNums
  /\ MaxMessages \in Nat /\ MaxMessages < Half
  /\ ArrayBound \in Nat /\ ArrayBound < Half
  /\ ResendAge \in Nat \ {0}
  /\ SendFails \in BOOLEAN /\ WaitFails \in BOOLEAN

VARIABLES
  seq_num_local,  \* the next number to give out
  sender,         \* per thread: "idle", "numbered", "sent"; "undefined" once it
                  \* has used the freed buffer
  num,            \* per thread: the number of its message
  packets,        \* the buffer: a sequence of [seq_num, age]
  should_stop,
  thread,         \* "start", "timed", "untimed" (waits) or "exited"
  signalled,      \* the waiting thread was signalled
  fini,           \* "no", "stopping", "joining", "freed"
  wire, acks,     \* datagrams and cumulative acks on their way
  received,       \* numbers the peer has got
  refused,        \* numbers that will never be resent: send or push failed
  reported        \* numbers for which DATA_ACK was passed to the callback

vars == <<seq_num_local, sender, num, packets, should_stop, thread, signalled,
          fini, wire, acks, received, refused, reported>>

threadVars == <<should_stop, thread, signalled>>
netVars == <<wire, acks, received>>

Sent == Dist(FirstSeq, seq_num_local)
Numbers == {Add(FirstSeq, i) : i \in 0 .. MaxMessages - 1}
Buffered == {packets[i].seq_num : i \in DOMAIN packets}

TypeOK ==
  /\ seq_num_local \in SeqNums
  /\ sender \in [Senders -> {"idle", "numbered", "sent", "undefined"}]
  /\ num \in [Senders -> SeqNums]
  /\ packets \in Seq([seq_num : SeqNums, age : 0 .. ResendAge])
  /\ Len(packets) <= Size
  /\ should_stop \in BOOLEAN /\ signalled \in BOOLEAN
  /\ thread \in {"start", "timed", "untimed", "exited"}
  /\ fini \in {"no", "stopping", "joining", "freed"}
  /\ wire \subseteq Numbers /\ received \subseteq Numbers
  /\ refused \subseteq Numbers /\ reported \subseteq Numbers
  /\ acks \subseteq SeqNums

Init ==
  /\ seq_num_local = FirstSeq
  /\ sender = [s \in Senders |-> "idle"]
  /\ num = [s \in Senders |-> FirstSeq]
  /\ packets = <<>>
  /\ should_stop = FALSE /\ thread = "start" /\ signalled = FALSE
  /\ fini = "no"
  /\ wire = {} /\ acks = {} /\ received = {}
  /\ refused = {} /\ reported = {}
-----------------------------------------------------------------------------
(* chiaki_takion_send_message_data *)

\* seq_num_local++ under its own mutex: numbers are given out in an order
\* that says nothing about the order of the sends and pushes that follow.
TakeNumber(s) ==
  /\ sender[s] = "idle" /\ Sent < MaxMessages
  /\ num' = [num EXCEPT ![s] = seq_num_local]
  /\ seq_num_local' = Add(seq_num_local, 1)
  /\ sender' = [sender EXCEPT ![s] = "numbered"]
  /\ UNCHANGED <<packets, threadVars, fini, netVars, refused, reported>>

Send(s) ==
  /\ sender[s] = "numbered"
  /\ wire' = wire \cup {num[s]}
  /\ sender' = [sender EXCEPT ![s] = "sent"]
  /\ UNCHANGED <<seq_num_local, num, packets, threadVars, fini, acks, received,
                 refused, reported>>

\* The buffer is freed; the number is spent.
SendError(s) ==
  /\ SendFails
  /\ sender[s] = "numbered"
  /\ refused' = refused \cup {num[s]}
  /\ sender' = [sender EXCEPT ![s] = "idle"]
  /\ UNCHANGED <<seq_num_local, num, packets, threadVars, fini, netVars,
                 reported>>

\* Broken variants: one packet too many; a signal for the second packet.
FullOffByOne == Len(packets) > Size
SignalSecond(p) == Len(p) = 2 /\ thread \in {"timed", "untimed"}

Full == Len(packets) >= Size
Signal(p) == Len(p) = 1 /\ thread \in {"timed", "untimed"}

\* chiaki_takion_send_buffer_push; its error code is not looked at.
Push(s) ==
  /\ sender[s] = "sent" /\ fini # "freed"
  /\ sender' = [sender EXCEPT ![s] = "idle"]
  /\ IF Full \/ num[s] \in Buffered
     THEN /\ refused' = refused \cup {num[s]}
          /\ UNCHANGED <<packets, signalled>>
     ELSE /\ packets' = Append(packets, [seq_num |-> num[s], age |-> 0])
          /\ signalled' = (signalled \/ Signal(packets'))
          /\ UNCHANGED refused
  /\ UNCHANGED <<seq_num_local, num, should_stop, thread, fini, netVars,
                 reported>>

\* The Takion thread ends by itself when it is told to stop or cannot receive,
\* and frees the buffer, while another thread is about to push: what becomes of
\* that thread is undefined.
PushFreed(s) ==
  /\ sender[s] = "sent" /\ fini = "freed"
  /\ sender' = [sender EXCEPT ![s] = "undefined"]
  /\ UNCHANGED <<seq_num_local, num, packets, threadVars, fini, netVars, refused,
                 reported>>
-----------------------------------------------------------------------------
(* chiaki_takion_send_buffer_ack *)

NoGap == -1  \* SIZE_MAX

\* Broken variants: the order swapped; the acked number itself left out.
CoveredSwapped(n, ack) == n = ack \/ SeqGt(n, ack)
CoveredStrict(n, ack) == SeqLt(n, ack)

Covered(n, ack) == n = ack \/ SeqLt(n, ack)

\* Broken variant: nothing is moved.
MoveNothing(p, to, from, n) == p

\* memmove of n entries inside the array p, with the offsets of C.
Move(p, to, from, n) ==
  [i \in DOMAIN p |-> IF i - 1 \in to .. to + n - 1 THEN p[i + from - to]
                      ELSE p[i]]

\* Broken variant: the start of the gap is kept after a move.
AckRoundKeepsStart(acc, i, ack) ==
  IF ~Covered(acc.array[i + 1].seq_num, ack) THEN acc
  ELSE LET next == [acc EXCEPT !.acked = @ \cup {acc.array[i + 1].seq_num},
                               !.shift = @ + 1]
       IN  IF acc.start = NoGap THEN [next EXCEPT !.start = i]
           ELSE [next EXCEPT
                   !.array = Move(@, acc.start, acc.start + acc.shift,
                                  i - (acc.start + acc.shift))]

\* One round of the loop, for offset i; acc holds the array and the shift.
AckRound(acc, i, ack) ==
  IF ~Covered(acc.array[i + 1].seq_num, ack) THEN acc
  ELSE LET next == [acc EXCEPT !.acked = @ \cup {acc.array[i + 1].seq_num},
                               !.shift = @ + 1]
       IN  IF acc.start = NoGap THEN [next EXCEPT !.start = i]
           ELSE IF acc.start + acc.shift = i THEN next
           ELSE [next EXCEPT
                   !.array = Move(@, acc.start, acc.start + acc.shift,
                                  i - (acc.start + acc.shift)),
                   !.start = i - acc.shift]

AckResult(p, ack) ==
  LET after[n \in 0 .. Len(p)] ==
        IF n = 0 THEN [array |-> p, acked |-> {}, shift |-> 0, start |-> NoGap]
        ELSE AckRound(after[n - 1], n - 1, ack)
      end == after[Len(p)]
      rest == Move(end.array, end.start, end.start + end.shift,
                   Len(p) - (end.start + end.shift))
  IN  [packets |-> IF end.start = NoGap THEN p
                   ELSE SubSeq(rest, 1, Len(p) - end.shift),
       acked |-> end.acked]

\* The Takion thread receives a DATA_ACK; the ack may still be duplicated.
HandleAck(ack) ==
  /\ ack \in acks /\ fini = "no"
  /\ packets' = AckResult(packets, ack).packets
  /\ reported' = reported \cup AckResult(packets, ack).acked
  /\ UNCHANGED <<seq_num_local, sender, num, threadVars, fini, netVars, refused>>
-----------------------------------------------------------------------------
(* The resend thread *)

\* Broken variant: the thread stays until every packet was acked.
LoopDrains(p, stop) == IF p # <<>> THEN "timed" ELSE IF stop THEN "exited" ELSE "untimed"

\* The head of its loop: which wait it enters, or that it leaves.
Loop(p, stop) == IF stop THEN "exited" ELSE IF p # <<>> THEN "timed" ELSE "untimed"

ThreadStart ==
  /\ thread = "start"
  /\ thread' = Loop(packets, should_stop)
  /\ UNCHANGED <<seq_num_local, sender, num, packets, should_stop, signalled,
                 fini, netVars, refused, reported>>

\* Broken variant: a packet never becomes older.
OlderNot(p, waited) == p.age

\* takion_send_buffer_resend; waited tells whether a wakeup interval passed.
Older(p, waited) == IF waited /\ p.age < ResendAge THEN p.age + 1 ELSE p.age
Due(p, waited) == Older(p, waited) = ResendAge

Resend(waited) ==
  /\ wire' = wire \cup {p.seq_num : p \in {packets[i] : i \in
                          {j \in DOMAIN packets : Due(packets[j], waited)}}}
  /\ packets' = [i \in DOMAIN packets |->
       [packets[i] EXCEPT !.age = IF Due(packets[i], waited) THEN 0
                                  ELSE Older(packets[i], waited)]]

Wake(waited) ==
  /\ thread' = Loop(packets, should_stop)
  /\ signalled' = FALSE
  /\ IF should_stop THEN UNCHANGED <<wire, packets>> ELSE Resend(waited)
  /\ UNCHANGED <<seq_num_local, sender, num, should_stop, fini, acks, received,
                 refused, reported>>

TimedOut == thread = "timed" /\ Wake(TRUE)

\* A signal ends the wait only if its predicate holds.
TimedSignal ==
  /\ thread = "timed" /\ signalled
  /\ IF should_stop THEN Wake(FALSE)
     ELSE /\ signalled' = FALSE
          /\ UNCHANGED <<seq_num_local, sender, num, packets, should_stop, thread,
                         fini, netVars, refused, reported>>

UntimedSignal ==
  /\ thread = "untimed" /\ signalled
  /\ IF should_stop \/ packets # <<>> THEN Wake(FALSE)
     ELSE /\ signalled' = FALSE
          /\ UNCHANGED <<seq_num_local, sender, num, packets, should_stop, thread,
                         fini, netVars, refused, reported>>

\* Any error but a timeout ends the thread.
TimedError ==
  /\ WaitFails
  /\ thread = "timed"
  /\ thread' = "exited" /\ signalled' = FALSE
  /\ UNCHANGED <<seq_num_local, sender, num, packets, should_stop, fini, netVars,
                 refused, reported>>
-----------------------------------------------------------------------------
(* chiaki_takion_send_buffer_fini, called by the Takion thread when it ends *)

FiniStop ==
  /\ fini = "no"
  /\ should_stop' = TRUE /\ fini' = "stopping"
  /\ UNCHANGED <<seq_num_local, sender, num, packets, thread, signalled, netVars,
                 refused, reported>>

FiniSignal ==
  /\ fini = "stopping"
  /\ signalled' = (thread \in {"timed", "untimed"})
  /\ fini' = "joining"
  /\ UNCHANGED <<seq_num_local, sender, num, packets, should_stop, thread,
                 netVars, refused, reported>>

\* It waits for the resend thread, and for nobody who may still send.
FiniJoin ==
  /\ fini = "joining" /\ thread = "exited"
  /\ fini' = "freed" /\ packets' = <<>>
  /\ UNCHANGED <<seq_num_local, sender, num, threadVars, netVars, refused,
                 reported>>
-----------------------------------------------------------------------------
(* The network and the peer (external), until fini: no ack is taken after. *)

\* The last number of the gapless run the peer has got.
Cumulative(got) ==
  LET run == Max({n \in 0 .. MaxMessages : \A i \in 0 .. n - 1 :
                    Add(FirstSeq, i) \in got})
  IN  IF run = 0 THEN Add(FirstSeq, SeqSpace - 1) ELSE Add(FirstSeq, run - 1)

Deliver(n) ==
  /\ n \in wire /\ fini = "no"
  /\ received' = received \cup {n}
  /\ acks' = acks \cup {Cumulative(received')}
  /\ UNCHANGED <<seq_num_local, sender, num, packets, threadVars, fini, wire,
                 refused, reported>>

\* One that the peer has got is not lost but comes again, or never.
Lose(n) ==
  /\ n \in wire \ received /\ fini = "no"
  /\ wire' = wire \ {n}
  /\ UNCHANGED <<seq_num_local, sender, num, packets, threadVars, fini, acks,
                 received, refused, reported>>

LoseAck(n) ==
  /\ n \in acks /\ fini = "no"
  /\ acks' = acks \ {n}
  /\ UNCHANGED <<seq_num_local, sender, num, packets, threadVars, fini, wire,
                 received, refused, reported>>

Done == fini = "freed" /\ UNCHANGED vars

Next ==
  \/ \E s \in Senders : TakeNumber(s) \/ Send(s) \/ SendError(s) \/ Push(s) \/ PushFreed(s)
  \/ \E n \in SeqNums : HandleAck(n) \/ LoseAck(n)
  \/ \E n \in Numbers : Deliver(n) \/ Lose(n)
  \/ ThreadStart \/ TimedOut \/ TimedSignal \/ UntimedSignal \/ TimedError
  \/ FiniStop \/ FiniSignal \/ FiniJoin
  \/ Done

Spec == Init /\ [][Next]_vars

\* Threads that are ready run, the resend thread's timeout passes, and what is
\* sent again and again gets through at last: strong fairness, with its guards
\* spelled out.
MayDeliver(n) ==
  n \in wire /\ fini = "no" /\ (n \notin received \/ Cumulative(received) \notin acks)
MayAck(n) == n \in acks /\ fini = "no" /\ \E m \in Buffered : Covered(m, n)
Fairness ==
  /\ \A s \in Senders : WF_vars(Send(s) \/ Push(s))
  /\ WF_vars(ThreadStart \/ TimedOut \/ TimedSignal \/ UntimedSignal)
  /\ WF_vars(FiniSignal \/ FiniJoin)
  /\ \A n \in Numbers : /\ []<>MayDeliver(n) => []<><<Deliver(n)>>_vars
                        /\ []<>MayAck(n) => []<><<HandleAck(n)>>_vars

FairSpec == Spec /\ Fairness

-----------------------------------------------------------------------------
(* Properties *)

\* A number is reported as acked only if the peer has got it.
ReportedWasReceived == reported \subseteq received

\* Reliability: until the buffer is freed, every number given out is on its
\* way through a sending thread, waits in the buffer for its ack, was
\* reported as acked, and then received, or was given up with an error - and
\* only one of these, however sends, pushes and acks interleave.
InFlight == {num[s] : s \in {t \in Senders : sender[t] # "idle"}}
Accounted ==
  /\ TypeOK /\ ReportedWasReceived
  /\ fini # "freed" =>
       \A i \in 0 .. Sent - 1 :
         LET n == Add(FirstSeq, i)
         IN  Cardinality({w \in {1, 2, 3, 4} :
                            \/ w = 1 /\ n \in InFlight
                            \/ w = 2 /\ n \in Buffered
                            \/ w = 3 /\ n \in reported
                            \/ w = 4 /\ n \in refused}) = 1

\* The shifting loop of ack removes exactly the covered packets, reports
\* exactly their numbers and keeps the others in order: each ends up as far
\* in front as packets before it stay.  Racing senders may push in any order,
\* so this is checked for every order of up to ArrayBound packets; it says
\* nothing of the state, and is evaluated while nothing was sent yet.
Arrays ==
  {[i \in DOMAIN f |-> [seq_num |-> Add(FirstSeq, f[i]), age |-> 0]] :
     f \in UNION {{g \in [1 .. k -> 1 .. ArrayBound] : IsInjective(g)} :
                    k \in 0 .. ArrayBound}}

IsFiltered(p, ack) ==
  LET covered(k) == Covered(p[k].seq_num, ack)
      left(k)    == Cardinality({j \in 1 .. k : ~covered(j)})
      result     == AckResult(p, ack)
  IN  /\ Len(result.packets) = left(Len(p))
      /\ \A k \in 1 .. Len(p) : ~covered(k) => result.packets[left(k)] = p[k]
      /\ result.acked = {p[k].seq_num : k \in {j \in 1 .. Len(p) : covered(j)}}

AckIsFilter == Sent = 0 => \A p \in Arrays, ack \in SeqNums : IsFiltered(p, ack)

\* No lost wakeup: the resend thread sleeps without a timeout only while
\* there is nothing to resend and nobody wants it to stop.
NoLostWakeup ==
  thread = "untimed" /\ ~signalled =>
    packets = <<>> /\ fini \in {"no", "stopping"}

\* A packet is resent until it is acked: with the network above every number
\* that was sent reaches the peer, and leaves the buffer although an ack may
\* overtake the push of its packet, unless it was given up, the resend thread
\* ended by a failing wait, or Takion ends; and fini gets that thread to end.
Over == fini # "no" \/ thread = "exited" \/ refused # {}
Drains ==
  /\ <>[](Over \/ (InFlight = {} /\ Buffered = {}))
  /\ <>[](fini \in {"no", "freed"})
=============================================================================
