---------------------------- MODULE TakionProofs ----------------------------
(***************************************************************************)
(* Takion for every size of the queue, number of messages and place of the *)
(* wrap: that the thread lets no audio or video through unauthenticated    *)
(* and leaves none behind when it waits, that it hands out and acks the    *)
(* console's messages in order, and that it checks what it hands out.      *)
(***************************************************************************)
EXTENDS Takion, TLAPS

-----------------------------------------------------------------------------
(* Audio and video *)

\* Both invariants are inductive, each by itself.
LEMMA AVStarts == Init => AvIsAuthentic /\ NothingPostponedAtRest
BY DEF Init, AvIsAuthentic, NothingPostponedAtRest

\* Packets that are handled now are authentic, postponed ones included.
LEMMA VerifiedIsAuthentic ==
  ASSUME NEW packets, crypt
  PROVE  FALSE \notin Verified(packets)
BY DEF Verified, MacOk

\* A packet is handled only with the keys, or postponed, or nobody wants keys.
LEMMA AuthenticStays == AvIsAuthentic /\ [Next]_vars => AvIsAuthentic'
<1> SUFFICES ASSUME AvIsAuthentic, [Next]_vars PROVE AvIsAuthentic'
  OBVIOUS
<1>1. CASE FlushPostponed
  <2>1. crypt
    BY <1>1 DEF FlushPostponed, FlushDue
  <2>2. FALSE \notin Verified(postponed)
    BY <2>1, VerifiedIsAuthentic
  <2> QED
    BY <1>1, <2>2 DEF FlushPostponed, Goto, AvIsAuthentic
<1>2. ASSUME NEW good \in BOOLEAN, ReceiveAV(good)
      PROVE  AvIsAuthentic'
  <2>1. CASE MustPostpone
    BY <1>2, <2>1 DEF ReceiveAV, Goto, AvIsAuthentic
  <2>2. CASE ~MustPostpone
    <3>1. enable_crypt => good
      BY <1>2, <2>2 DEF ReceiveAV, MustPostpone, MacOk
    <3> QED
      BY <1>2, <2>2, <3>1 DEF ReceiveAV, Goto, AvIsAuthentic
  <2> QED
    BY <2>1, <2>2
<1>3. ASSUME UNCHANGED <<av, enable_crypt>>
      PROVE  AvIsAuthentic'
  BY <1>3 DEF AvIsAuthentic
<1>4. CASE SendInit \/ ReceiveInitAck \/ ReceiveCookieAck \/ HandshakeFails
           \/ Connected \/ NoRecheck \/ Recheck \/ RecheckCrashes
           \/ NothingPostponed \/ ReceiveOther \/ RecvEnds \/ Disconnect
  BY <1>3, <1>4 DEF SendInit, ReceiveInitAck, ReceiveCookieAck, HandshakeFails,
     Connected, NoRecheck, Recheck, RecheckCrashes, NothingPostponed,
     ReceiveOther, RecvEnds, Disconnect, Quiet, Goto
<1>5. CASE FlushPull \/ FlushEnds \/ FiniQueue
  BY <1>3, <1>5 DEF FlushPull, FlushEnds, FiniQueue, Goto
<1>6. ASSUME NEW n, NEW good, ReceiveData(n, good)
      PROVE  AvIsAuthentic'
  BY <1>3, <1>6 DEF ReceiveData, Goto
<1>7. CASE Stop \/ ConsoleSends
  BY <1>3, <1>7 DEF Stop, ConsoleSends
<1>8. CASE Ended \/ UNCHANGED vars
  BY <1>3, <1>8 DEF Ended, vars
<1> QED
  BY <1>1, <1>2, <1>4, <1>5, <1>6, <1>7, <1>8 DEF Next, ThreadStep

\* Only two actions lead to the wait, and both leave nothing to handle.
LEMMA NothingPostponedStays ==
  NothingPostponedAtRest /\ [Next]_vars => NothingPostponedAtRest'
<1> SUFFICES ASSUME NothingPostponedAtRest, [Next]_vars
             PROVE  NothingPostponedAtRest'
  OBVIOUS
<1>1. CASE FlushPostponed
  BY <1>1 DEF FlushPostponed, NothingPostponedAtRest
<1>2. CASE NothingPostponed
  <2>1. crypt => postponed = <<>>
    BY <1>2 DEF NothingPostponed, FlushDue
  <2> QED
    BY <1>2, <2>1 DEF NothingPostponed, Quiet, NothingPostponedAtRest
<1>3. ASSUME thread' # "recv"
      PROVE  NothingPostponedAtRest'
  BY <1>3 DEF NothingPostponedAtRest
<1>4. CASE SendInit \/ ReceiveInitAck \/ ReceiveCookieAck \/ HandshakeFails
           \/ Connected \/ NoRecheck \/ Recheck \/ RecheckCrashes
           \/ ReceiveOther \/ RecvEnds \/ Disconnect
  BY <1>3, <1>4 DEF SendInit, ReceiveInitAck, ReceiveCookieAck, HandshakeFails,
     Connected, NoRecheck, Recheck, RecheckCrashes, ReceiveOther, RecvEnds,
     Disconnect, Goto
<1>5. CASE FlushPull \/ FlushEnds \/ FiniQueue
  BY <1>3, <1>5 DEF FlushPull, FlushEnds, FiniQueue, Goto
<1>6. ASSUME NEW n, NEW good, ReceiveData(n, good) \/ ReceiveAV(good)
      PROVE  NothingPostponedAtRest'
  BY <1>3, <1>6 DEF ReceiveData, ReceiveAV, Goto
<1>7. CASE Stop \/ ConsoleSends \/ Ended \/ UNCHANGED vars
  BY <1>7 DEF Stop, ConsoleSends, Ended, vars, NothingPostponedAtRest
<1> QED
  BY <1>1, <1>2, <1>4, <1>5, <1>6, <1>7 DEF Next, ThreadStep

\* With encryption no audio or video packet reaches the callback unless its
\* MAC was verified.
THEOREM AVAuthentic == Spec => []AvIsAuthentic
<1>1. Init => AvIsAuthentic
  BY AVStarts
<1> QED
  BY <1>1, AuthenticStays, PTL DEF Spec

\* The thread never starts a wait without timeout over packets it could handle.
THEOREM PostponedHandled == Spec => []NothingPostponedAtRest
<1>1. Init => NothingPostponedAtRest
  BY AVStarts
<1> QED
  BY <1>1, NothingPostponedStays, PTL DEF Spec

\* No audio or video packet is let through unverified, and none is forgotten.
THEOREM Postponed == Spec => []PostponedAreHandled
<1>1. NothingPostponedAtRest /\ AvIsAuthentic => PostponedAreHandled
  BY DEF PostponedAreHandled
<1> QED BY AVAuthentic, PostponedHandled, <1>1, PTL
-----------------------------------------------------------------------------
(* Numbers and their places in the ring *)

\* The constants, as the proofs need them.
LEMMA Constants ==
  /\ Half \in Nat /\ SeqSpace = 2 * Half /\ SeqSpace \in Nat
  /\ FirstSeq \in 0 .. SeqSpace - 1 /\ MaxMessages \in Nat /\ MaxMessages < Half
  /\ Size \in Nat /\ Size >= 2 /\ 2 * Size <= Half /\ SeqSpace % Size = 0
  /\ None \notin Packets /\ PostponeSize \in Nat
BY SeqSpaceAssumption, TakionAssumption
DEF Queue!QueueAssumption, Queue!Half, Half, SeqNums

\* A number is its quotient and its rest.
LEMMA Division ==
  ASSUME NEW a \in Nat
  PROVE  /\ a \div Size \in Nat /\ a % Size \in 0 .. Size - 1
         /\ a = Size * (a \div Size) + (a % Size)
BY Constants

\* Numbers with the same rest are the same, or at least Size apart.
LEMMA RestsDiffer ==
  ASSUME NEW a \in Nat, NEW b \in Nat, a < b, b < a + Size
  PROVE  a % Size # b % Size
<1> SUFFICES ASSUME a % Size = b % Size PROVE FALSE
  OBVIOUS
<1>1. PICK q \in Nat, r \in Nat, t \in 0 .. Size - 1 : a = Size * q + t /\ b = Size * r + t
  BY Division
<1>2. Size \in Nat \ {0}
  BY Constants
<1>3. CASE r <= q
  <2>1. Size * r <= Size * q
    BY <1>1, <1>2, <1>3
  <2> QED
    BY <1>1, <1>2, <2>1
<1>4. CASE r >= q + 1
  <2>1. Size * r >= Size * q + Size
    BY <1>1, <1>2, <1>4
  <2> QED
    BY <1>1, <1>2, <2>1
<1> QED
  BY <1>1, <1>3, <1>4

\* Taking the space away from a number leaves its index.
LEMMA RestOfWrapped ==
  ASSUME NEW a \in Nat, a >= SeqSpace
  PROVE  (a - SeqSpace) % Size = a % Size
<1>1. PICK c \in Nat : SeqSpace = Size * c
  <2>1. PICK c \in Nat : SeqSpace = Size * c + 0
    BY Constants, Division
  <2>2. Size * c \in Nat
    BY Constants
  <2> QED
    BY <2>1, <2>2
<1>2. Size \in Nat /\ SeqSpace \in Nat /\ a - SeqSpace \in Nat
  BY Constants
<1>3. PICK q \in Nat, t \in 0 .. Size - 1 :
        a - SeqSpace = Size * q + t /\ t = (a - SeqSpace) % Size
  BY <1>2, Division
<1>4. PICK r \in Nat, u \in 0 .. Size - 1 : a = Size * r + u /\ u = a % Size
  BY Division
<1>5. a = Size * (q + c) + t
  BY <1>1, <1>2, <1>3
<1>6. q + c = r
  <2>1. CASE q + c >= r + 1
    <3>1. Size * (q + c) >= Size * r + Size
      BY <1>1, <1>2, <1>3, <1>4, <2>1
    <3> QED
      BY <1>2, <1>3, <1>4, <1>5, <3>1
  <2>2. CASE r >= q + c + 1
    <3>1. Size * r >= Size * (q + c) + Size
      BY <1>1, <1>2, <1>3, <1>4, <2>2
    <3> QED
      BY <1>1, <1>2, <1>3, <1>4, <1>5, <3>1
  <2> QED
    BY <1>1, <1>3, <1>4, <2>1, <2>2
<1>7. Size * r + t = Size * r + u
  BY <1>4, <1>5, <1>6
<1>8. Size * r \in Nat
  BY <1>2
<1> QED
  BY <1>3, <1>4, <1>7, <1>8

\* Two numbers less than Size apart have different places in the ring.
LEMMA OwnPlaces ==
  ASSUME NEW m \in Nat, NEW n \in Nat, m < n, n < m + Size, n < SeqSpace
  PROVE  Queue!Idx(SeqOf(m)) # Queue!Idx(SeqOf(n))
<1>1. /\ Size \in Nat /\ SeqSpace \in Nat /\ FirstSeq + m \in Nat /\ FirstSeq + n \in Nat
      /\ FirstSeq + m < FirstSeq + n /\ FirstSeq + n < FirstSeq + m + Size
  BY Constants
<1>2. ASSUME NEW c \in Nat
      PROVE  Cast(c) % Size = c % Size
  BY <1>1, RestOfWrapped DEF Cast
<1> QED
  BY <1>1, <1>2, RestsDiffer DEF Queue!Idx, SeqOf

\* The order of the queue, for numbers of the console less than half the
\* space apart, is that in which it sent them.
LEMMA OrderIs ==
  ASSUME NEW m \in 0 .. SeqSpace - 1, NEW n \in 0 .. SeqSpace - 1,
         m - n < Half, n - m < Half
  PROVE  /\ SeqOf(m) \in Queue!SeqNums
         /\ Queue!SeqLt(SeqOf(m), SeqOf(n)) <=> m < n
         /\ Queue!SeqGt(SeqOf(m), SeqOf(n)) <=> m > n
         /\ SeqOf(m) = SeqOf(n) <=> m = n
BY Constants DEF SeqOf, Cast, Queue!SeqNums, Queue!SeqLt, Queue!SeqGt, Queue!Half, Half

\* Counting on from a number.
LEMMA AddIs ==
  ASSUME NEW m \in Nat, NEW n \in Nat, m + n < SeqSpace
  PROVE  Queue!Add(SeqOf(m), n) = SeqOf(m + n)
BY Constants DEF SeqOf, Cast, Queue!Add, Queue!Cast

\* What an ack of a number covers.
LEMMA AckedIs ==
  ASSUME NEW m \in 0 .. MaxMessages - 1, NEW e
  PROVE  Acked(<<SeqOf(m), e>>) = m + 1
BY Constants DEF Acked, Dist, SeqOf, Cast
-----------------------------------------------------------------------------
(* The inductive invariant *)

\* How many messages were handed out, and the entry of the one i later.
Got == Len(delivered)
Place(i) == Queue!Entry(SeqOf(Got + i))

\* The types: of the thread and the console, of audio and video, of the queue.
Types ==
  /\ thread \in {"start", "init_ack", "cookie_ack", "connected", "fini",
                 "disconnect", "exited", "crashed", "loop", "postponed", "recv", "flush"}
  /\ enable_crypt \in BOOLEAN /\ crypt \in BOOLEAN /\ crypt_available \in BOOLEAN
  /\ stop \in BOOLEAN /\ sent \in 0 .. MaxMessages /\ acked \in 0 .. MaxMessages
  /\ delivered \in Seq(0 .. MaxMessages - 1)
AvTypes ==
  /\ postponed \in Seq(BOOLEAN) /\ Len(postponed) <= PostponeSize
  /\ av \subseteq BOOLEAN
QueueTypes ==
  /\ begin \in Queue!SeqNums /\ count \in 0 .. Size
  /\ queue \in [0 .. Size - 1 -> Packets \cup {None}]
  /\ drop_strategy = "end" /\ status \in {"live", "finished", "aborted"}
  /\ held \subseteq Packets
  /\ pulled \subseteq Queue!SeqNums \X Packets /\ dropped \subseteq Queue!SeqNums \X Packets

\* The window begins behind what was handed out, and what it shows is the
\* message of its number.
InWindow ==
  /\ begin = SeqOf(Got) /\ Got + count <= MaxMessages
  /\ \A i \in 0 .. count - 1 : Place(i) # None => Place(i) \in Packets /\ Place(i).n = Got + i

\* Nothing was received before the handshake ended.
Handshake ==
  thread \in {"start", "init_ack", "cookie_ack", "connected"} =>
    count = 0 /\ delivered = <<>> /\ acked = 0 /\ ~crypt /\ ~crypt_available

\* Outside of a flush the head is missing and what was handed out is acked;
\* in it what was pulled last is the last one handed out.
Flushed ==
  /\ thread \in {"loop", "postponed", "recv"} => ~HeadWaits /\ acked = Got
  /\ thread = "flush" =>
       /\ pulled = {} => acked = Got
       /\ \A p \in pulled : Got > 0 /\ p[1] = SeqOf(Got - 1)

\* Once the thread knows of the keys, all that waits was verified.
WaitingIsVerified ==
  crypt_available /\ thread # "crashed" =>
    crypt /\ \A i \in 0 .. count - 1 : Place(i) # None => Place(i).good

Inv == /\ Types /\ AvTypes /\ QueueTypes
       /\ InWindow /\ InOrderOnce /\ Handshake /\ Flushed /\ WaitingIsVerified
-----------------------------------------------------------------------------
(* A push *)

\* A smallest element is the one Least chooses.
LEMMA LeastIs ==
  ASSUME NEW S \in SUBSET Nat, NEW n \in S, \A m \in S : n <= m
  PROVE  Queue!Least(S) = n
<1>1. \E k \in S : \A m \in S : k <= m
  OBVIOUS
<1>2. Queue!Least(S) \in S /\ \A m \in S : Queue!Least(S) <= m
  BY <1>1 DEF Queue!Least
<1>3. Queue!Least(S) \in Nat /\ n \in Nat /\ n <= Queue!Least(S) /\ Queue!Least(S) <= n
  BY <1>2
<1> QED
  BY <1>3

\* Where a message belongs that the console sent after n others.
LEMMA Position ==
  ASSUME Types, QueueTypes, InWindow, NEW n \in 0 .. MaxMessages - 1
  PROVE  /\ Queue!Inside(SeqOf(n)) <=> Got <= n /\ n < Got + count
         /\ Queue!Ahead(SeqOf(n)) => Got + count <= n
         /\ Queue!Ahead(SeqOf(n)) /\ ~Queue!TooFar(SeqOf(n)) => n < Got + Size
         /\ Queue!End = SeqOf(Got + count)
         /\ Queue!TotalEnd(count) = SeqOf(Got + Size)
         /\ Queue!Add(SeqOf(n), 1) = SeqOf(n + 1)
<1>1. /\ Got \in Nat /\ count \in 0 .. Size /\ Got + count <= MaxMessages /\ begin = SeqOf(Got)
      /\ n \in Nat /\ n < MaxMessages /\ Size \in Nat /\ MaxMessages \in Nat
      /\ MaxMessages < Half /\ Half \in Nat /\ 2 * Size <= Half /\ SeqSpace = 2 * Half
  BY Constants DEF Types, QueueTypes, InWindow, Got
<1>2. /\ Queue!End = SeqOf(Got + count) /\ Queue!TotalEnd(count) = SeqOf(Got + Size)
      /\ Queue!Add(SeqOf(n), 1) = SeqOf(n + 1)
  <2>1. Queue!Add(SeqOf(Got), count) = SeqOf(Got + count)
    BY <1>1, AddIs
  <2>2. Queue!Add(SeqOf(Got + count), Size - count) = SeqOf((Got + count) + (Size - count))
    BY <1>1, AddIs
  <2>3. (Got + count) + (Size - count) = Got + Size
    BY <1>1
  <2>4. Queue!Add(SeqOf(n), 1) = SeqOf(n + 1)
    BY <1>1, AddIs
  <2> QED
    BY <1>1, <2>1, <2>2, <2>3, <2>4 DEF Queue!End, Queue!TotalEnd
<1>3. /\ Queue!Ge(SeqOf(n), begin) <=> Got <= n
      /\ Queue!SeqLt(SeqOf(n), begin) <=> n < Got
      /\ Queue!SeqLt(SeqOf(n), Queue!End) <=> n < Got + count
  <2>1. /\ n \in 0 .. SeqSpace - 1 /\ Got \in 0 .. SeqSpace - 1 /\ Got + count \in 0 .. SeqSpace - 1
        /\ n - Got < Half /\ Got - n < Half
        /\ n - (Got + count) < Half /\ (Got + count) - n < Half
    BY <1>1
  <2> HIDE DEF Got
  <2> QED
    BY <1>1, <1>2, <2>1, OrderIs DEF Queue!Ge
<1>4. Queue!Inside(SeqOf(n)) <=> Got <= n /\ n < Got + count
  BY <1>3 DEF Queue!Inside
<1>5. Queue!Ahead(SeqOf(n)) => Got + count <= n
  BY <1>1, <1>3, <1>4 DEF Queue!Ahead
<1>6. ASSUME Queue!Ahead(SeqOf(n)), ~Queue!TooFar(SeqOf(n)) PROVE n < Got + Size
  <2>1. /\ Got + Size \in 0 .. SeqSpace - 1 /\ n + 1 \in 0 .. SeqSpace - 1
        /\ (Got + Size) - (n + 1) < Half /\ (n + 1) - (Got + Size) < Half
    BY <1>1, <1>5, <1>6
  <2>2. Queue!SeqLt(SeqOf(Got + Size), SeqOf(n + 1)) <=> Got + Size < n + 1
    BY <2>1, OrderIs
  <2> QED
    BY <1>1, <1>2, <1>6, <2>2 DEF Queue!TooFar
<1> QED
  BY <1>2, <1>4, <1>5, <1>6

\* The end of the window moves right behind the number; nothing is evicted.
LEMMA LoopsAre ==
  ASSUME Types, QueueTypes, InWindow, NEW n \in 0 .. MaxMessages - 1,
         Queue!Ahead(SeqOf(n)), ~Queue!TooFar(SeqOf(n))
  PROVE  /\ Queue!Evicted(SeqOf(n)) = 0
         /\ Queue!Grown(begin, count, SeqOf(n)) = n + 1 - (Got + count)
<1>1. /\ Got \in Nat /\ count \in 0 .. Size /\ Got + count <= MaxMessages /\ begin = SeqOf(Got)
      /\ n \in Nat /\ n < MaxMessages /\ Size \in Nat /\ MaxMessages \in Nat
      /\ MaxMessages < Half /\ Half \in Nat /\ 2 * Size <= Half /\ SeqSpace = 2 * Half
      /\ Got + count <= n /\ n < Got + Size /\ SeqSpace \in Nat
  BY Constants, Position DEF Types, QueueTypes, InWindow, Got
<1>2. Queue!Evicted(SeqOf(n)) = 0
  <2> DEFINE K == {k \in 0 .. count :
                     k = count \/ ~Queue!SeqLt(Queue!TotalEnd(count - k), Queue!Add(SeqOf(n), 1))}
  <2>1. 0 \in K
    BY <1>1 DEF Queue!TooFar
  <2>2. K \in SUBSET Nat /\ \A m \in K : 0 <= m
    BY <1>1
  <2> HIDE DEF K
  <2>3. Queue!Least(K) = 0
    BY <2>1, <2>2, LeastIs
  <2> QED
    BY <2>3 DEF K, Queue!Evicted
<1>3. Queue!Grown(begin, count, SeqOf(n)) = n + 1 - (Got + count)
  <2> DEFINE g == n + 1 - (Got + count)
             K == {k \in 0 .. SeqSpace :
                     ~Queue!SeqLt(Queue!Add(begin, count + k), Queue!Add(SeqOf(n), 1))}
  <2>1. Queue!Add(SeqOf(n), 1) = SeqOf(n + 1)
    BY Position
  <2>2. g \in 0 .. SeqSpace
    BY <1>1
  <2>3. ASSUME NEW k \in 0 .. g
        PROVE  Queue!SeqLt(Queue!Add(begin, count + k), SeqOf(n + 1)) <=> k < g
    <3>1. Queue!Add(begin, count + k) = SeqOf(Got + (count + k))
      BY <1>1, AddIs
    <3>2. /\ Got + (count + k) \in 0 .. SeqSpace - 1 /\ n + 1 \in 0 .. SeqSpace - 1
          /\ (Got + (count + k)) - (n + 1) < Half /\ (n + 1) - (Got + (count + k)) < Half
          /\ Got + (count + k) < n + 1 <=> k < g
      BY <1>1
    <3> QED
      BY <3>1, <3>2, OrderIs
  <2>4. g \in K
    BY <2>1, <2>2, <2>3
  <2>5. K \in SUBSET Nat /\ \A m \in K : g <= m
    BY <1>1, <2>1, <2>2, <2>3
  <2> HIDE DEF K, g
  <2>6. Queue!Least(K) = g
    BY <2>4, <2>5, LeastIs
  <2> QED
    BY <2>6 DEF K, g, Queue!Grown
<1> QED
  BY <1>2, <1>3

\* What a push leaves in the window: what was there, and perhaps the newcomer.
Shows(n, p, i) ==
  LET e == queue'[Queue!Idx(SeqOf(Got + i))]
  IN  e # None => (e = p /\ Got + i = n) \/ (i < count /\ e = Place(i))

\* A hole of the window is filled.
LEMMA HoleIs ==
  ASSUME Types, QueueTypes, InWindow, NEW n \in 0 .. MaxMessages - 1,
         NEW p \in Packets, Queue!PushHole(SeqOf(n), p)
  PROVE  /\ queue' \in [0 .. Size - 1 -> Packets \cup {None}]
         /\ \A i \in 0 .. count - 1 : Shows(n, p, i)
<1>1. /\ Got \in Nat /\ count \in 0 .. Size /\ Got + count <= MaxMessages /\ Size \in Nat
      /\ Got <= n /\ n < Got + count /\ MaxMessages < SeqSpace /\ SeqSpace \in Nat
      /\ MaxMessages \in Nat /\ queue \in [0 .. Size - 1 -> Packets \cup {None}]
  BY Constants, Position DEF Types, QueueTypes, InWindow, Got, Queue!PushHole
<1>2. queue' = [queue EXCEPT ![Queue!Idx(SeqOf(n))] = p]
  BY DEF Queue!PushHole
<1>3. ASSUME NEW i \in 0 .. count - 1 PROVE Shows(n, p, i)
  <2>1. Place(i) = queue[Queue!Idx(SeqOf(Got + i))]
    BY DEF Queue!Entry, Place
  <2>2. CASE Got + i = n
    BY <1>1, <1>2, <2>1, <2>2 DEF Shows
  <2>3. CASE Got + i # n
    <3>1. Queue!Idx(SeqOf(Got + i)) # Queue!Idx(SeqOf(n))
      <4>1. /\ Got + i \in Nat /\ n \in Nat /\ Got + i < n + Size /\ n < Got + i + Size
            /\ Got + i < SeqSpace /\ n < SeqSpace /\ (Got + i < n \/ n < Got + i)
        BY <1>1, <2>3
      <4> QED
        BY <4>1, OwnPlaces
    <3> QED
      BY <1>1, <1>2, <2>1, <3>1 DEF Shows
  <2> QED
    BY <2>2, <2>3
<1> QED
  BY <1>1, <1>2, <1>3

\* The window grows up to the newcomer; what the loop adds before it is empty.
LEMMA AppendIs ==
  ASSUME Types, QueueTypes, InWindow, NEW n \in 0 .. MaxMessages - 1,
         NEW p \in Packets, Queue!PushAppend(SeqOf(n), p)
  PROVE  /\ begin' = begin /\ count' = n + 1 - Got /\ count' \in 0 .. Size
         /\ Got + count' <= MaxMessages
         /\ queue' \in [0 .. Size - 1 -> Packets \cup {None}]
         /\ held' \subseteq Packets /\ dropped' = {}
         /\ \A i \in 0 .. count' - 1 : Shows(n, p, i)
<1> DEFINE s == SeqOf(n)
           grow == n + 1 - (Got + count)
<1>1. Queue!Ahead(s) /\ ~Queue!TooFar(s)
  BY DEF QueueTypes, Queue!PushAppend, Queue!MayEvict
<1>2. Queue!Evicted(s) = 0 /\ Queue!Grown(begin, count, s) = grow /\ Queue!BeginAfter(s) = begin
  BY <1>1, LoopsAre DEF Queue!BeginAfter
<1>3. /\ Got \in Nat /\ count \in 0 .. Size /\ Got + count <= MaxMessages /\ begin = SeqOf(Got)
      /\ n \in Nat /\ n < MaxMessages /\ Size \in Nat /\ MaxMessages \in Nat
      /\ MaxMessages < SeqSpace /\ SeqSpace \in Nat /\ Got + count <= n /\ n < Got + Size
      /\ queue \in [0 .. Size - 1 -> Packets \cup {None}] /\ held \subseteq Packets
  BY <1>1, Constants, Position DEF Types, QueueTypes, InWindow, Got
<1>4. count - 0 = count /\ count + grow = n + 1 - Got /\ grow \in Nat
  BY <1>3
<1>5. /\ begin' = begin /\ count' = count + grow
      /\ queue' = [i \in 0 .. Size - 1 |->
                     IF i = Queue!Idx(s) THEN p
                     ELSE IF i \in Queue!Fresh(begin, count, grow) THEN None ELSE queue[i]]
      /\ held' = (held \ Queue!Users(Queue!SetEntries(begin, 0))) \cup {p}
      /\ dropped' = Queue!SetEntries(begin, 0)
  <2> HIDE DEF grow
  <2> QED
    BY <1>1, <1>2, <1>4 DEF Queue!PushAppend, Queue!Slots
<1>6. Queue!SetEntries(begin, 0) = {}
  <2>1. 0 .. 0 - 1 = {}
    OBVIOUS
  <2> QED
    BY <2>1 DEF Queue!SetEntries, Queue!Window
<1>7. count' = n + 1 - Got /\ count' \in 0 .. Size /\ Got + count' <= MaxMessages
  BY <1>3, <1>4, <1>5
<1>8. held' \subseteq Packets
  BY <1>3, <1>5
<1>9. queue' \in [0 .. Size - 1 -> Packets \cup {None}]
  BY <1>3, <1>5
<1>10. Queue!Fresh(begin, count, grow) = {Queue!Idx(SeqOf(Got + (count + j))) : j \in 0 .. grow - 1}
  <2>1. \A j \in 0 .. grow - 1 : Queue!Add(begin, count + j) = SeqOf(Got + (count + j))
    BY <1>3, AddIs
  <2> QED
    BY <2>1 DEF Queue!Fresh
<1>11. ASSUME NEW i \in 0 .. count' - 1 PROVE Shows(n, p, i)
  <2>1. Place(i) = queue[Queue!Idx(SeqOf(Got + i))]
    BY DEF Queue!Entry, Place
  <2>2. Queue!Idx(SeqOf(Got + i)) \in 0 .. Size - 1
    <3>1. SeqOf(Got + i) \in Nat
      BY <1>3, <1>7, Constants DEF SeqOf, Cast
    <3> QED
      BY <3>1, Division DEF Queue!Idx
  <2>3. CASE Got + i = n
    BY <1>5, <2>1, <2>2, <2>3 DEF Shows
  <2>4. CASE Got + i # n
    <3>1. Queue!Idx(SeqOf(Got + i)) # Queue!Idx(SeqOf(n))
      <4>1. /\ Got + i \in Nat /\ n \in Nat /\ n < Got + i + Size
            /\ n < SeqSpace /\ Got + i < n
        BY <1>3, <1>7, <2>4
      <4> QED
        BY <4>1, OwnPlaces
    <3>2. CASE i < count
      BY <1>5, <2>1, <2>2, <3>1, <3>2 DEF Shows
    <3>3. CASE i >= count
      <4>1. i - count \in 0 .. grow - 1 /\ Got + (count + (i - count)) = Got + i
        BY <1>3, <1>4, <1>7, <2>4, <3>3
      <4>2. Queue!Idx(SeqOf(Got + i)) \in Queue!Fresh(begin, count, grow)
        BY <1>10, <4>1
      <4> QED
        BY <1>5, <2>1, <2>2, <3>1, <4>2 DEF Shows
    <3> QED
      BY <1>3, <1>7, <3>2, <3>3
  <2> QED
    BY <2>3, <2>4
<1> QED
  BY <1>5, <1>6, <1>7, <1>8, <1>9, <1>11

\* A push leaves begin alone, and the window shows what it showed, and
\* perhaps the newcomer at its place.
LEMMA PushIs ==
  ASSUME Types, QueueTypes, InWindow, NEW n \in 0 .. MaxMessages - 1,
         NEW p \in Packets, Queue!Push(SeqOf(n), p)
  PROVE  /\ QueueTypes' /\ begin' = begin /\ pulled' = {} /\ Got + count' <= MaxMessages
         /\ \A i \in 0 .. count' - 1 : Shows(n, p, i)
<1> DEFINE s == SeqOf(n)
<1>1. pulled' = {} /\ drop_strategy' = drop_strategy
  BY DEF Queue!Push
<1>2. s \in Queue!SeqNums /\ {<<s, p>>} \subseteq Queue!SeqNums \X Packets
  <2>1. n \in 0 .. SeqSpace - 1 /\ n - n < Half
    BY Constants
  <2> QED
    BY <2>1, OrderIs
<1>3. CASE \/ Queue!PushDuplicate(s, p) \/ Queue!PushOld(s, p)
           \/ Queue!PushAssertFails(s, p) \/ Queue!PushBeyond(s, p)
  <2>1. UNCHANGED <<begin, count, queue, held>> /\ dropped' \in {{}, {<<s, p>>}}
        /\ status' \in {status, "aborted"}
    BY <1>3 DEF Queue!PushDuplicate, Queue!PushOld, Queue!PushAssertFails, Queue!PushBeyond
  <2>2. QueueTypes'
    BY <1>1, <1>2, <2>1 DEF QueueTypes
  <2>3. \A i \in 0 .. count' - 1 : Shows(n, p, i)
    BY <2>1 DEF Shows, Place, Queue!Entry, QueueTypes
  <2> QED
    BY <1>1, <2>1, <2>2, <2>3 DEF InWindow
<1>4. CASE Queue!PushHole(s, p)
  <2>1. /\ UNCHANGED <<begin, count, status>> /\ held' = held \cup {p} /\ dropped' = {}
    BY <1>4 DEF Queue!PushHole
  <2>2. /\ queue' \in [0 .. Size - 1 -> Packets \cup {None}]
        /\ \A i \in 0 .. count - 1 : Shows(n, p, i)
    BY <1>4, HoleIs
  <2>3. QueueTypes'
    BY <1>1, <2>1, <2>2 DEF QueueTypes
  <2> QED
    BY <1>1, <2>1, <2>2, <2>3 DEF InWindow
<1>5. CASE Queue!PushAppend(s, p)
  <2>1. /\ begin' = begin /\ count' \in 0 .. Size /\ Got + count' <= MaxMessages
        /\ queue' \in [0 .. Size - 1 -> Packets \cup {None}]
        /\ held' \subseteq Packets /\ dropped' = {}
        /\ \A i \in 0 .. count' - 1 : Shows(n, p, i)
    BY <1>5, AppendIs
  <2>2. status' = status
    BY <1>5 DEF Queue!PushAppend
  <2>3. QueueTypes'
    BY <1>1, <2>1, <2>2 DEF QueueTypes
  <2> QED
    BY <1>1, <2>1, <2>3
<1> QED
  BY <1>3, <1>4, <1>5 DEF Queue!Push
-----------------------------------------------------------------------------
(* Every step keeps the invariant *)

\* The first window is empty.
LEMMA InvInit == Init => Inv
<1> SUFFICES ASSUME Init PROVE Inv
  OBVIOUS
<1>1. /\ thread = "start" /\ enable_crypt \in BOOLEAN /\ crypt = FALSE
      /\ crypt_available = FALSE /\ stop = FALSE /\ postponed = <<>>
      /\ sent = 0 /\ delivered = <<>> /\ acked = 0 /\ av = {} /\ begin = FirstSeq
      /\ count = 0 /\ queue = [i \in 0 .. Size - 1 |-> None] /\ drop_strategy = "end"
      /\ held = {} /\ pulled = {} /\ dropped = {} /\ status = "live" /\ begin \in Queue!SeqNums
  BY DEF Init, Queue!Init, Queue!Slots
<1>2. Got = 0 /\ SeqOf(Got) = FirstSeq
  BY <1>1, Constants DEF Got, SeqOf, Cast
<1>3. Types
  <2>1. sent \in 0 .. MaxMessages /\ acked \in 0 .. MaxMessages
    BY <1>1, Constants
  <2>2. delivered \in Seq(0 .. MaxMessages - 1)
    BY <1>1
  <2>3. crypt \in BOOLEAN /\ crypt_available \in BOOLEAN /\ stop \in BOOLEAN
    BY <1>1
  <2> QED
    BY <1>1, <2>1, <2>2, <2>3 DEF Types
<1>4. AvTypes
  BY <1>1, Constants DEF AvTypes
<1>5. QueueTypes
  BY <1>1, Constants DEF QueueTypes
<1>6. InWindow
  BY <1>1, <1>2, Constants DEF InWindow
<1>7. InOrderOnce /\ Handshake /\ Flushed /\ WaitingIsVerified
  BY <1>1 DEF InOrderOnce, Handshake, Flushed, WaitingIsVerified
<1> QED
  BY <1>3, <1>4, <1>5, <1>6, <1>7 DEF Inv

\* What does not touch the queue keeps what is said of it.
LEMMA Untouched ==
  ASSUME Inv, UNCHANGED <<delivered, queueVars>>
  PROVE  /\ QueueTypes' /\ InWindow' /\ InOrderOnce'
         /\ Got' = Got /\ HeadWaits' = HeadWaits /\ \A i : Place(i)' = Place(i)
         /\ UNCHANGED <<delivered, begin, count, queue, pulled>>
<1>1. UNCHANGED <<delivered, begin, count, queue, drop_strategy, held, pulled, dropped, status>>
  BY DEF queueVars
<1>2. Got' = Got /\ HeadWaits' = HeadWaits /\ \A i : Place(i)' = Place(i)
  BY <1>1 DEF Got, HeadWaits, Place, Queue!Entry
<1>3. QueueTypes'
  BY <1>1 DEF Inv, QueueTypes
<1>4. InWindow' /\ InOrderOnce'
  BY <1>1, <1>2 DEF Inv, InWindow, InOrderOnce
<1> QED
  BY <1>1, <1>2, <1>3, <1>4

\* Until the first message, and over the recheck.
LEMMA HandshakeKeeps ==
  ASSUME Inv,
         \/ SendInit \/ ReceiveInitAck \/ ReceiveCookieAck \/ HandshakeFails \/ Connected
         \/ NoRecheck \/ Recheck \/ RecheckCrashes \/ NothingPostponed
         \/ ReceiveOther \/ RecvEnds \/ Disconnect
  PROVE  Inv'
<1>1. UNCHANGED <<enable_crypt, stop, sent, crypt, delivered, acked, av, postponed, queueVars>>
  BY DEF SendInit, ReceiveInitAck, ReceiveCookieAck, HandshakeFails, Connected, NoRecheck,
     Recheck, RecheckCrashes, NothingPostponed, ReceiveOther, RecvEnds, Disconnect, Goto, Quiet
<1>2. /\ QueueTypes' /\ InWindow' /\ InOrderOnce'
      /\ Got' = Got /\ HeadWaits' = HeadWaits /\ \A i : Place(i)' = Place(i)
      /\ UNCHANGED <<delivered, begin, count, queue, pulled>>
  BY <1>1, Untouched
<1>3. AvTypes'
  BY <1>1 DEF Inv, AvTypes
<1>4. /\ thread' \in {"init_ack", "cookie_ack", "connected", "disconnect", "loop", "postponed",
                      "crashed", "recv", "fini", "exited"}
      /\ crypt_available' \in BOOLEAN
  BY DEF SendInit, ReceiveInitAck, ReceiveCookieAck, HandshakeFails, Connected, NoRecheck,
     Recheck, RecheckCrashes, NothingPostponed, ReceiveOther, RecvEnds, Disconnect, Goto, Inv, Types
<1>5. Types'
  BY <1>1, <1>4 DEF Inv, Types
<1>6. Handshake'
  BY <1>1, <1>2
  DEF SendInit, ReceiveInitAck, ReceiveCookieAck, HandshakeFails, Connected, NoRecheck, Recheck,
     RecheckCrashes, NothingPostponed, ReceiveOther, RecvEnds, Disconnect, Goto, Inv, Handshake
<1>7. Flushed'
  <2>1. CASE Connected
    <3>1. count = 0 /\ acked = 0 /\ delivered = <<>> /\ thread' = "loop"
      BY <2>1 DEF Connected, Inv, Handshake, Goto
    <3>2. ~HeadWaits /\ acked = Got
      BY <3>1 DEF HeadWaits, Got
    <3> QED
      BY <1>1, <1>2, <3>1, <3>2 DEF Flushed
  <2>2. CASE NoRecheck \/ Recheck \/ NothingPostponed \/ ReceiveOther
    <3>1. thread' # "flush" /\ thread \in {"loop", "postponed", "recv"}
      BY <2>2 DEF NoRecheck, Recheck, NothingPostponed, ReceiveOther, CanReceive, Goto
    <3> QED
      BY <1>1, <1>2, <3>1 DEF Inv, Flushed
  <2>3. CASE thread' \notin {"loop", "postponed", "recv", "flush"}
    BY <2>3 DEF Flushed
  <2> QED
    BY <2>1, <2>2, <2>3 DEF SendInit, ReceiveInitAck, ReceiveCookieAck, HandshakeFails,
       RecheckCrashes, RecvEnds, Disconnect, Goto
<1>8. WaitingIsVerified'
  <2>1. CASE Recheck
    <3>1. crypt /\ Waiting = {}
      BY <2>1 DEF Recheck, RecheckDue
    <3>2. ASSUME NEW i \in 0 .. count - 1 PROVE Place(i) = None
      <4>1. Queue!Add(begin, i) = SeqOf(Got + i)
        BY Constants, AddIs DEF Inv, Types, QueueTypes, InWindow, Got
      <4>2. <<Queue!Add(begin, i), Queue!Entry(Queue!Add(begin, i))>> \in Queue!Window(begin, count)
        BY DEF Queue!Window
      <4> QED
        BY <3>1, <4>1, <4>2 DEF Waiting, Queue!SetEntries, Place
    <3> QED
      BY <1>1, <1>2, <3>1, <3>2 DEF WaitingIsVerified
  <2>2. CASE Connected
    BY <1>1, <2>2 DEF Connected, Inv, Handshake, WaitingIsVerified
  <2>3. CASE RecheckCrashes
    BY <2>3 DEF RecheckCrashes, Goto, WaitingIsVerified
  <2>4. CASE crypt_available' = crypt_available /\ thread # "crashed"
    BY <1>1, <1>2, <2>4 DEF Inv, WaitingIsVerified
  <2> QED
    BY <2>1, <2>2, <2>3, <2>4 DEF SendInit, ReceiveInitAck, ReceiveCookieAck, HandshakeFails,
       NoRecheck, NothingPostponed, ReceiveOther, RecvEnds, Disconnect, CanReceive
<1> QED
  BY <1>2, <1>3, <1>5, <1>6, <1>7, <1>8 DEF Inv

\* Audio and video pass the queue by.
LEMMA AvKeeps ==
  ASSUME Inv, FlushPostponed \/ \E good \in BOOLEAN : ReceiveAV(good)
  PROVE  Inv'
<1>1. UNCHANGED <<enable_crypt, stop, sent, crypt, crypt_available, delivered, acked, queueVars>>
      /\ thread \in {"postponed", "recv"} /\ thread' \in {"loop", "recv"}
  BY DEF FlushPostponed, ReceiveAV, CanReceive, Goto
<1>2. /\ QueueTypes' /\ InWindow' /\ InOrderOnce'
      /\ Got' = Got /\ HeadWaits' = HeadWaits /\ \A i : Place(i)' = Place(i)
      /\ UNCHANGED <<delivered, begin, count, queue, pulled>>
  BY <1>1, Untouched
<1>3. AvTypes'
  <2>1. postponed \in Seq(BOOLEAN) /\ Len(postponed) <= PostponeSize /\ av \subseteq BOOLEAN
        /\ PostponeSize \in Nat
    BY Constants DEF Inv, AvTypes
  <2>2. CASE FlushPostponed
    <3>1. Verified(postponed) \subseteq BOOLEAN
      BY <2>1 DEF Verified
    <3> QED
      BY <2>1, <2>2, <3>1 DEF FlushPostponed, AvTypes
  <2>3. ASSUME NEW good \in BOOLEAN, ReceiveAV(good) PROVE AvTypes'
    <3>1. CASE postponed' = postponed
      BY <2>1, <2>3, <3>1 DEF ReceiveAV, AvTypes
    <3>2. CASE postponed' = Append(postponed, good) /\ HasRoom
      <4>1. postponed' \in Seq(BOOLEAN) /\ Len(postponed') = Len(postponed) + 1
        BY <2>1, <3>2
      <4>2. av' \subseteq BOOLEAN
        BY <2>1, <2>3 DEF ReceiveAV
      <4> QED
        BY <2>1, <3>2, <4>1, <4>2 DEF AvTypes, HasRoom
    <3> QED
      BY <2>3, <3>1, <3>2 DEF ReceiveAV
  <2> QED
    BY <2>2, <2>3
<1>4. Types'
  BY <1>1, <1>2 DEF Inv, Types
<1>5. Handshake' /\ Flushed' /\ WaitingIsVerified'
  BY <1>1, <1>2 DEF Inv, Handshake, Flushed, WaitingIsVerified
<1> QED
  BY <1>2, <1>3, <1>4, <1>5 DEF Inv

\* A message enters the queue, at its place and, once keyed, verified.
LEMMA DataKeeps ==
  ASSUME Inv, NEW n \in 0 .. MaxMessages - 1, NEW good \in BOOLEAN, ReceiveData(n, good)
  PROVE  Inv'
<1> DEFINE p == NewPacket(n, good)
<1>1. /\ UNCHANGED <<enable_crypt, stop, sent, crypt, crypt_available, postponed, delivered,
                     acked, av>>
      /\ thread = "recv" /\ thread' = "flush" /\ (crypt => good)
      /\ Queue!Push(SeqOf(n), p)
  BY DEF ReceiveData, CanReceive, Goto, MacOk
<1>2. p \in Packets /\ p.n = n /\ p.good = good
  BY DEF NewPacket, Packets
<1> HIDE DEF p
<1>3. /\ QueueTypes' /\ begin' = begin /\ pulled' = {} /\ Got + count' <= MaxMessages
      /\ \A i \in 0 .. count' - 1 : Shows(n, p, i)
  BY <1>1, <1>2, PushIs DEF Inv
<1>4. Got' = Got
  BY <1>1 DEF Got
<1>5. ASSUME NEW i \in 0 .. count' - 1, Place(i)' # None
      PROVE  (Place(i)' = p /\ Got + i = n) \/ (i \in 0 .. count - 1 /\ Place(i)' = Place(i))
  <2>1. Place(i)' = queue'[Queue!Idx(SeqOf(Got + i))]
    BY <1>4 DEF Place, Queue!Entry
  <2>2. i \in Nat /\ count \in Nat
    <3>1. count \in 0 .. Size /\ count' \in 0 .. Size /\ Size \in Nat
      BY <1>3, Constants DEF Inv, QueueTypes
    <3> QED
      BY <3>1
  <2>3. Shows(n, p, i)
    BY <1>3
  <2> QED
    BY <1>5, <2>1, <2>2, <2>3 DEF Shows
<1>6. InWindow'
  <2>1. ASSUME NEW i \in 0 .. count' - 1, Place(i)' # None
        PROVE  Place(i)' \in Packets /\ (Place(i)').n = Got + i
    BY <1>2, <1>5, <2>1 DEF Inv, InWindow
  <2> QED
    BY <1>3, <1>4, <2>1 DEF Inv, InWindow
<1>7. WaitingIsVerified'
  <2>1. ASSUME crypt_available, NEW i \in 0 .. count' - 1, Place(i)' # None
        PROVE  (Place(i)').good
    BY <1>1, <1>2, <1>5, <2>1 DEF Inv, WaitingIsVerified
  <2> QED
    BY <1>1, <2>1 DEF Inv, WaitingIsVerified
<1>8. Types' /\ AvTypes' /\ InOrderOnce'
  BY <1>1 DEF Inv, Types, AvTypes, InOrderOnce
<1>9. Handshake' /\ Flushed'
  BY <1>1, <1>3, <1>4 DEF Inv, Handshake, Flushed
<1> QED
  BY <1>3, <1>6, <1>7, <1>8, <1>9 DEF Inv

\* What is pulled is the message of the number the window begins with.
LEMMA PulledIs ==
  ASSUME Inv, Queue!Pull
  PROVE  LET p == Queue!Entry(begin)
         IN  /\ pulled' = {<<SeqOf(Got), p>>} /\ p = Place(0) /\ count \in 1 .. Size
             /\ p \in Packets /\ p.n = Got /\ Got \in 0 .. MaxMessages - 1
<1>1. /\ pulled' = {<<begin, Queue!Entry(begin)>>} /\ count > 0 /\ Queue!Entry(begin) # None
  BY DEF Queue!Pull
<1>2. /\ Got \in Nat /\ count \in 1 .. Size /\ begin = SeqOf(Got) /\ Got + 0 = Got
      /\ Got + count <= MaxMessages /\ MaxMessages \in Nat /\ Size \in Nat
  BY <1>1, Constants DEF Inv, Types, QueueTypes, InWindow, Got
<1>3. Place(0) = Queue!Entry(begin) /\ 0 \in 0 .. count - 1
  BY <1>2 DEF Place
<1>4. Place(0) \in Packets /\ Place(0).n = Got + 0
  BY <1>1, <1>3 DEF Inv, InWindow
<1> QED
  BY <1>1, <1>2, <1>3, <1>4

\* A message is handed out: the window begins one later.
LEMMA PullKeeps ==
  ASSUME Inv, FlushPull
  PROVE  Inv'
<1> DEFINE p == Queue!Entry(begin)
<1>1. /\ UNCHANGED <<enable_crypt, stop, sent, crypt_available, postponed, acked, av, queue,
                     drop_strategy, status>>
      /\ thread = "flush" /\ thread' = "flush" /\ Queue!Pull
      /\ begin' = Queue!Add(begin, 1) /\ count' = count - 1
      /\ held' = held \ {p} /\ dropped' = {}
  BY DEF FlushPull, Queue!Pull, Goto
<1>2. /\ pulled' = {<<SeqOf(Got), p>>} /\ p = Place(0) /\ count \in 1 .. Size
      /\ p \in Packets /\ p.n = Got /\ Got \in 0 .. MaxMessages - 1
  BY <1>1, PulledIs
<1> HIDE DEF p
<1>3. delivered' = Append(delivered, Got) /\ (crypt' = crypt \/ crypt' = TRUE)
  BY <1>2 DEF FlushPull
<1>4. /\ delivered' \in Seq(0 .. MaxMessages - 1) /\ Got' = Got + 1 /\ Got \in Nat
      /\ \A i \in 1 .. Got : delivered'[i] = delivered[i]
      /\ delivered'[Got + 1] = Got /\ DOMAIN delivered = 1 .. Got
      /\ DOMAIN delivered' = 1 .. Got + 1
  BY <1>2, <1>3 DEF Inv, Types, Got
<1>5. InOrderOnce'
  BY <1>4 DEF Inv, InOrderOnce
<1>6. begin' = SeqOf(Got')
  <2>1. begin = SeqOf(Got) /\ Got + 1 < SeqSpace
    BY <1>2, Constants DEF Inv, InWindow
  <2> QED
    BY <1>1, <1>4, <2>1, AddIs
<1>7. QueueTypes'
  <2>1. /\ Got' \in 0 .. SeqSpace - 1 /\ Got \in 0 .. SeqSpace - 1
        /\ Got' - Got' < Half /\ Got - Got < Half
    BY <1>2, <1>4, Constants
  <2>2. begin' \in Queue!SeqNums /\ SeqOf(Got) \in Queue!SeqNums
    BY <1>6, <2>1, OrderIs
  <2>3. count' \in 0 .. Size
    BY <1>1, <1>2, Constants
  <2>4. pulled' \subseteq Queue!SeqNums \X Packets
    BY <1>2, <2>2
  <2> QED
    BY <1>1, <2>2, <2>3, <2>4 DEF Inv, QueueTypes
<1>8. ASSUME NEW i \in 0 .. count' - 1
      PROVE  Place(i)' = Place(i + 1) /\ i + 1 \in 0 .. count - 1 /\ Got' + i = Got + (i + 1)
  <2>1. i + 1 \in 0 .. count - 1 /\ Got' + i = Got + (i + 1)
    BY <1>1, <1>2, <1>4, Constants
  <2> QED
    BY <1>1, <2>1 DEF Place, Queue!Entry
<1>9. InWindow'
  <2>1. Got' + count' <= MaxMessages
    BY <1>1, <1>2, <1>4, Constants DEF Inv, InWindow
  <2>2. ASSUME NEW i \in 0 .. count' - 1, Place(i)' # None
        PROVE  Place(i)' \in Packets /\ (Place(i)').n = Got' + i
    BY <1>8, <2>2 DEF Inv, InWindow
  <2> QED
    BY <1>6, <2>1, <2>2 DEF InWindow
<1>10. WaitingIsVerified'
  <2>1. ASSUME crypt_available, NEW i \in 0 .. count' - 1, Place(i)' # None
        PROVE  (Place(i)').good
    BY <1>1, <1>8, <2>1 DEF Inv, WaitingIsVerified
  <2> QED
    BY <1>1, <1>3, <2>1 DEF Inv, WaitingIsVerified
<1>11. Types' /\ AvTypes'
  BY <1>1, <1>3, <1>4 DEF Inv, Types, AvTypes
<1>12. Handshake' /\ Flushed'
  <2>1. Got' > 0 /\ Got' - 1 = Got
    BY <1>4
  <2>2. pulled' # {} /\ \A q \in pulled' : q[1] = SeqOf(Got)
    BY <1>2
  <2>3. \A q \in pulled' : q[1] = SeqOf(Got' - 1)
    BY <2>1, <2>2
  <2>4. Flushed'
    BY <1>1, <2>1, <2>2, <2>3 DEF Flushed
  <2> QED
    BY <1>1, <2>4 DEF Handshake
<1> QED
  BY <1>5, <1>7, <1>9, <1>10, <1>11, <1>12 DEF Inv

\* The flush ends, with an ack of what was pulled last.
LEMMA FlushEndsKeeps ==
  ASSUME Inv, FlushEnds
  PROVE  Inv'
<1>1. /\ UNCHANGED <<enable_crypt, stop, sent, crypt, crypt_available, postponed, delivered, av,
                     queueVars>>
      /\ thread = "flush" /\ ~HeadWaits /\ thread' = "loop"
  BY DEF FlushEnds, Goto
<1>2. /\ QueueTypes' /\ InWindow' /\ InOrderOnce'
      /\ Got' = Got /\ HeadWaits' = HeadWaits /\ \A i : Place(i)' = Place(i)
      /\ UNCHANGED <<delivered, begin, count, queue, pulled>>
  BY <1>1, Untouched
<1>3. Got \in 0 .. MaxMessages
  BY Constants DEF Inv, Types, QueueTypes, InWindow, Got
<1>4. acked' = Got
  <2>1. CASE pulled = {} /\ UNCHANGED acked
    BY <1>1, <2>1 DEF Inv, Flushed
  <2>2. ASSUME NEW p \in pulled, acked' = Acked(p) PROVE acked' = Got
    <3>1. Got > 0 /\ p[1] = SeqOf(Got - 1)
      BY <1>1 DEF Inv, Flushed
    <3>2. p = <<p[1], p[2]>>
      BY DEF Inv, QueueTypes
    <3>3. Got - 1 \in 0 .. MaxMessages - 1 /\ (Got - 1) + 1 = Got
      BY <1>3, <3>1, Constants
    <3> QED
      BY <2>2, <3>1, <3>2, <3>3, AckedIs
  <2> QED
    BY <2>1, <2>2 DEF FlushEnds
<1>5. Types' /\ AvTypes'
  BY <1>1, <1>3, <1>4 DEF Inv, Types, AvTypes
<1>6. Handshake' /\ Flushed' /\ WaitingIsVerified'
  BY <1>1, <1>2, <1>4 DEF Inv, Handshake, Flushed, WaitingIsVerified
<1> QED
  BY <1>2, <1>5, <1>6 DEF Inv

\* fini gives the rest of the window to the drop callback.
LEMMA FiniKeeps ==
  ASSUME Inv, FiniQueue
  PROVE  Inv'
<1>1. /\ UNCHANGED <<enable_crypt, stop, sent, crypt, crypt_available, postponed, delivered,
                     acked, av, begin, count, queue, drop_strategy>>
      /\ thread = "fini" /\ thread' = "disconnect"
      /\ status' = "finished" /\ pulled' = {} /\ dropped' = Queue!SetEntries(begin, count)
      /\ held' = held \ Queue!Users(Queue!SetEntries(begin, count))
  BY DEF FiniQueue, Queue!Fini, Goto
<1>2. Got' = Got /\ \A i : Place(i)' = Place(i)
  BY <1>1 DEF Got, Place, Queue!Entry
<1>3. dropped' \subseteq Queue!SeqNums \X Packets
  <2>1. ASSUME NEW i \in 0 .. count - 1, Queue!Entry(Queue!Add(begin, i)) # None
        PROVE  Queue!Add(begin, i) \in Queue!SeqNums /\ Queue!Entry(Queue!Add(begin, i)) \in Packets
    <3>1. /\ Got \in Nat /\ count \in 0 .. Size /\ Got + count <= MaxMessages /\ begin = SeqOf(Got)
      BY DEF Inv, Types, QueueTypes, InWindow, Got
    <3>2. /\ Got + i \in 0 .. SeqSpace - 1 /\ (Got + i) - (Got + i) < Half /\ i \in Nat
          /\ Got + i < SeqSpace
      BY <3>1, Constants
    <3>3. Queue!Add(begin, i) = SeqOf(Got + i)
      BY <3>1, <3>2, AddIs
    <3>4. SeqOf(Got + i) \in Queue!SeqNums
      BY <3>2, OrderIs
    <3> QED
      BY <2>1, <3>3, <3>4 DEF Inv, InWindow, Place
  <2> QED
    BY <1>1, <2>1 DEF Queue!SetEntries, Queue!Window
<1>4. QueueTypes'
  BY <1>1, <1>3 DEF Inv, QueueTypes
<1>5. Types' /\ AvTypes' /\ InOrderOnce'
  BY <1>1 DEF Inv, Types, AvTypes, InOrderOnce
<1>6. InWindow' /\ Handshake' /\ Flushed' /\ WaitingIsVerified'
  BY <1>1, <1>2 DEF Inv, InWindow, Handshake, Flushed, WaitingIsVerified
<1> QED
  BY <1>4, <1>5, <1>6 DEF Inv

\* The other threads, the console, and the steps that change nothing.
LEMMA OthersKeep ==
  ASSUME Inv, Stop \/ ConsoleSends \/ Ended \/ UNCHANGED vars
  PROVE  Inv'
<1>1. /\ UNCHANGED <<thread, enable_crypt, crypt, crypt_available, postponed, delivered, acked,
                     av, queueVars>>
  BY DEF Stop, ConsoleSends, Ended, vars
<1>a. sent' \in 0 .. MaxMessages
  <2>1. sent' = sent \/ (sent < MaxMessages /\ sent' = sent + 1)
    BY DEF Stop, ConsoleSends, Ended, vars
  <2> QED
    BY <2>1, Constants DEF Inv, Types
<1>b. stop' \in BOOLEAN
  <2>1. CASE Stop
    BY <2>1 DEF Stop
  <2>2. CASE UNCHANGED stop
    BY <2>2 DEF Inv, Types
  <2> QED
    BY <2>1, <2>2 DEF ConsoleSends, Ended, vars
<1>2. /\ QueueTypes' /\ InWindow' /\ InOrderOnce'
      /\ Got' = Got /\ HeadWaits' = HeadWaits /\ \A i : Place(i)' = Place(i)
      /\ UNCHANGED <<delivered, begin, count, queue, pulled>>
  BY <1>1, Untouched
<1>3. Types' /\ AvTypes'
  BY <1>1, <1>a, <1>b DEF Inv, Types, AvTypes
<1>4. Handshake' /\ Flushed' /\ WaitingIsVerified'
  BY <1>1, <1>2 DEF Inv, Handshake, Flushed, WaitingIsVerified
<1> QED
  BY <1>2, <1>3, <1>4 DEF Inv

\* Every step keeps the invariant.
LEMMA InvStep == Inv /\ [Next]_vars => Inv'
<1> SUFFICES ASSUME Inv, [Next]_vars PROVE Inv'
  OBVIOUS
<1>1. CASE ThreadStep
  BY <1>1, HandshakeKeeps, AvKeeps, PullKeeps, FlushEndsKeeps, FiniKeeps DEF ThreadStep
<1>2. CASE ReceiveInitAck \/ ReceiveCookieAck \/ ReceiveOther \/ RecvEnds
  BY <1>2, HandshakeKeeps
<1>3. CASE \E good \in BOOLEAN : ReceiveAV(good)
  BY <1>3, AvKeeps
<1>4. CASE \E n \in 0 .. MaxMessages - 1, good \in BOOLEAN : ReceiveData(n, good)
  BY <1>4, DataKeeps
<1>5. CASE Stop \/ ConsoleSends \/ Ended \/ UNCHANGED vars
  BY <1>5, OthersKeep
<1> QED
  BY <1>1, <1>2, <1>3, <1>4, <1>5 DEF Next

\* The invariant holds in every state.
THEOREM Invariant == Spec => []Inv
<1> QED
  BY InvInit, InvStep, PTL DEF Spec

\* The callback gets the console's messages in the order it sent them, each
\* once and none left out, and when the thread waits for the next packet all
\* that could be handed out was, and was acked - whatever the network repeats
\* and reorders, and wherever the numbers wrap (takion.c:767-823).
THEOREM Delivered == Spec => []DeliveredAndAcked
<1>1. Inv => DeliveredAndAcked
  <2> SUFFICES ASSUME Inv PROVE DeliveredAndAcked
    OBVIOUS
  <2>1. Queue!TypeOK
    BY DEF Inv, QueueTypes, Queue!TypeOK, Queue!Slots
  <2>2. TypeOK
    BY <2>1 DEF Inv, Types, AvTypes, TypeOK, Running
  <2>3. AckedAtRest
    BY DEF Inv, Flushed, AckedAtRest, Got
  <2> QED
    BY <2>2, <2>3 DEF Inv, DeliveredAndAcked
<1> QED
  BY <1>1, Invariant, PTL

\* Once the thread knows of the keys it hands out no message whose MAC is
\* wrong: those that were in the queue before were handed out or end the
\* thread, and a later one must verify to enter it (takion.c:690-723).
THEOREM Checked == Spec => CheckedOnceKeyed
<1>1. Inv /\ [Next]_vars =>
        [crypt_available /\ delivered' # delivered => \A p \in pulled' : p[2].good]_vars
  <2> SUFFICES ASSUME Inv, [Next]_vars, crypt_available, delivered' # delivered
               PROVE  \A p \in pulled' : p[2].good
    OBVIOUS
  <2>1. FlushPull
    BY DEF Next, ThreadStep, SendInit, ReceiveInitAck, ReceiveCookieAck, HandshakeFails, Connected,
       NoRecheck, Recheck, RecheckCrashes, FlushPostponed, NothingPostponed, ReceiveAV,
       ReceiveData, ReceiveOther, RecvEnds, FlushEnds, FiniQueue, Disconnect, Stop, ConsoleSends,
       Ended, Quiet, vars
  <2>2. Queue!Pull /\ thread = "flush"
    BY <2>1 DEF FlushPull
  <2>3. /\ pulled' = {<<SeqOf(Got), Queue!Entry(begin)>>} /\ Queue!Entry(begin) = Place(0)
        /\ count \in 1 .. Size /\ Queue!Entry(begin) \in Packets
    BY <2>2, PulledIs
  <2>4. Place(0) # None /\ 0 \in 0 .. count - 1
    BY <2>3, Constants
  <2>5. Place(0).good
    BY <2>2, <2>4 DEF Inv, WaitingIsVerified
  <2> QED
    BY <2>3, <2>5
<1> QED
  BY <1>1, Invariant, PTL DEF Spec, CheckedOnceKeyed
=============================================================================
