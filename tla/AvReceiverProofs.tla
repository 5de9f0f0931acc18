------------------------- MODULE AvReceiverProofs -------------------------
(***************************************************************************)
(* Proofs about AvReceiver, for any frames, units, profiles and numbers.   *)
(* The argument rests on two facts about numbers that wrap: of two frames  *)
(* less than half the numbers apart the code's comparison finds the newer  *)
(* one, and the distance it computes is theirs (GtIs, DistIs).  AudioInv   *)
(* then says that the receiver's number is that of the newest frame and    *)
(* that the statistics' minimum and maximum are those of the packets       *)
(* counted; VideoInv that the frame processor, while the slots are its     *)
(* own, holds units of the current frame and counts all of them until it   *)
(* hands the frame over, which is as soon as enough of it came, and that   *)
(* the receiver knows the last frame that was decoded, whatever the frame  *)
(* processor holds.                                                        *)
(***************************************************************************)
EXTENDS AvReceiver, SequenceTheorems, WellFoundedInduction, FiniteSetTheorems, TLAPS

(***************************************************************************)
(* Numbers                                                                 *)
(***************************************************************************)
\* There are twice as many numbers as one can be ahead of another.
LEMMA SpaceIs == Half \in Nat /\ SeqSpace = 2 * Half /\ SeqSpace \in Nat /\ Half >= 2
BY SeqSpaceAssumption DEF Half

\* Two numbers with the same remainder differ by a multiple of the space: by
\* none if they are nearer than that.
LEMMA Remainder ==
  ASSUME NEW a \in Int
  PROVE  a % SeqSpace \in SeqNums /\ \E q \in Int : a = (a % SeqSpace) + q * SeqSpace
<1>1. PICK n \in Nat : n = SeqSpace /\ n > 0
  BY SpaceIs
<1>2. a % n \in 0 .. n - 1 /\ a = n * (a \div n) + (a % n) /\ a \div n \in Int
  BY <1>1
<1>3. PICK q \in Int, r \in 0 .. n - 1 : a = n * q + r /\ r = a % n
  BY <1>2
<1>4. a = r + q * n
  BY <1>3
<1> QED
  BY <1>1, <1>3, <1>4 DEF SeqNums

\* A sum of a remainder and a multiple.
LEMMA RemainderIs ==
  ASSUME NEW r \in SeqNums, NEW q \in Int
  PROVE  (r + q * SeqSpace) % SeqSpace = r
<1>1. PICK n \in Nat : n = SeqSpace /\ n > 0
  BY SpaceIs
<1>2. r \in 0 .. n - 1
  BY <1>1 DEF SeqNums
<1>3. (r + q * n) % n = r
  BY <1>1, <1>2
<1> QED
  BY <1>1, <1>3

\* The remainders of two numbers less than the space apart.
LEMMA NearRemainders ==
  ASSUME NEW a \in Int, NEW b \in Int, b - a \in 0 .. SeqSpace - 1
  PROVE  \/ b % SeqSpace = (a % SeqSpace) + (b - a)
         \/ b % SeqSpace = (a % SeqSpace) + (b - a) - SeqSpace
<1>1. PICK r \in SeqNums, q \in Int : r = a % SeqSpace /\ a = r + q * SeqSpace
  BY Remainder
<1>2. PICK d \in 0 .. SeqSpace - 1 : d = b - a
  OBVIOUS
<1>3. r \in Int /\ d \in Int /\ r >= 0 /\ r < SeqSpace /\ d >= 0 /\ d < SeqSpace
  BY SpaceIs DEF SeqNums
<1>4. CASE r + d < SeqSpace
  <2>1. r + d \in SeqNums
    BY <1>3, <1>4, SpaceIs DEF SeqNums
  <2>2. b = (r + d) + q * SeqSpace
    BY <1>1, <1>2, <1>3, SpaceIs
  <2>3. ((r + d) + q * SeqSpace) % SeqSpace = r + d
    BY <2>1, RemainderIs
  <2> QED
    BY <1>1, <1>2, <2>2, <2>3
<1>5. CASE r + d >= SeqSpace
  <2>1. r + d - SeqSpace \in SeqNums
    BY <1>3, <1>5, SpaceIs DEF SeqNums
  <2>2. b = (r + d - SeqSpace) + (q + 1) * SeqSpace
    <3>1. (q + 1) * SeqSpace = q * SeqSpace + SeqSpace /\ q * SeqSpace \in Int
      BY SpaceIs
    <3> QED
      BY <1>1, <1>2, <1>3, <3>1, SpaceIs
  <2>3. ((r + d - SeqSpace) + (q + 1) * SeqSpace) % SeqSpace = r + d - SeqSpace
    BY <2>1, RemainderIs
  <2> QED
    BY <1>1, <1>2, <2>2, <2>3
<1> QED
  BY <1>3, <1>4, <1>5, SpaceIs

\* The order of two numbers nearer than half the space is that of what they
\* stand for.
LEMMA GtIs ==
  ASSUME NEW a \in Int, NEW b \in Int, a - b < Half, b - a < Half
  PROVE  SeqGt(a % SeqSpace, b % SeqSpace) <=> a > b
<1>1. PICK r \in SeqNums : r = a % SeqSpace
  BY Remainder
<1>2. PICK s \in SeqNums : s = b % SeqSpace
  BY Remainder
<1>3. r \in Int /\ s \in Int /\ r >= 0 /\ r < SeqSpace /\ s >= 0 /\ s < SeqSpace
  BY SpaceIs DEF SeqNums
<1>4. CASE a > b
  <2>1. a - b \in 0 .. SeqSpace - 1
    BY <1>4, SpaceIs
  <2>2. r = s + (a - b) \/ r = s + (a - b) - SeqSpace
    BY <1>1, <1>2, <2>1, NearRemainders
  <2>3. SeqGt(r, s)
    BY <1>3, <1>4, <2>2, SpaceIs DEF SeqGt
  <2> QED
    BY <1>1, <1>2, <1>4, <2>3
<1>5. CASE ~(a > b)
  <2>1. b - a \in 0 .. SeqSpace - 1
    BY <1>5, SpaceIs
  <2>2. s = r + (b - a) \/ s = r + (b - a) - SeqSpace
    BY <1>1, <1>2, <2>1, NearRemainders
  <2>3. ~SeqGt(r, s)
    BY <1>3, <1>5, <2>2, SpaceIs DEF SeqGt
  <2> QED
    BY <1>1, <1>2, <1>5, <2>3
<1> QED
  BY <1>4, <1>5

\* The numbers up to k are a proper subset of those up to m.
LEMMA Below ==
  ASSUME NEW k \in Nat, NEW m \in Nat, k < m
  PROVE  <<0 .. k, 0 .. m>> \in StrictSubsetOrdering(Nat)
<1>1. 0 .. k \subseteq 0 .. m /\ 0 .. k # 0 .. m
  <2>1. m \in 0 .. m /\ m \notin 0 .. k
    OBVIOUS
  <2> QED
    BY <2>1
<1>2. <<0 .. k, 0 .. m>> \in (SUBSET Nat) \X (SUBSET Nat)
  OBVIOUS
<1> DEFINE p == <<0 .. k, 0 .. m>>
<1>3. p[1] = 0 .. k /\ p[2] = 0 .. m
  OBVIOUS
<1> QED
  BY <1>1, <1>2, <1>3, Zenon DEF StrictSubsetOrdering

\* A set of natural numbers has a least element.
LEMMA LeastExists ==
  ASSUME NEW S \in SUBSET Nat, S # {}
  PROVE  \E m \in S : \A k \in S : m <= k
<1> DEFINE R == StrictSubsetOrdering(Nat)
           T == {0 .. n : n \in S}
<1>1. IsWellFoundedOn(R, FiniteSubsetsOf(Nat))
  BY FS_StrictSubsetOrderingWellFounded
<1>2. T \subseteq FiniteSubsetsOf(Nat)
  <2>1. ASSUME NEW n \in S PROVE 0 .. n \in FiniteSubsetsOf(Nat)
    <3>1. n \in Int /\ 0 \in Int /\ 0 .. n \in SUBSET Nat
      OBVIOUS
    <3>2. IsFiniteSet(0 .. n)
      BY <3>1, FS_Interval
    <3> QED
      BY <3>1, <3>2, Zenon DEF FiniteSubsetsOf
  <2> HIDE DEF R
  <2> QED
    BY <2>1, Zenon DEF T
<1>3. T # {}
  BY Zenon
<1> HIDE DEF T, R
<1>4. \E x \in T : \A y \in T : <<y, x>> \notin R
  BY <1>1, <1>2, <1>3, WFMin, Zenon
<1>5. PICK m \in S : \A k \in S : <<0 .. k, 0 .. m>> \notin R
  BY <1>4, Zenon DEF T
<1>6. ASSUME NEW k \in S, k < m PROVE FALSE
  BY <1>5, <1>6, Below DEF R
<1> QED
  BY <1>5, <1>6

\* Induction, for a set instead of a predicate.
LEMMA Induction ==
  ASSUME NEW S \in SUBSET Nat, 0 \in S, \A n \in S : n + 1 \in S
  PROVE  S = Nat
<1> SUFFICES ASSUME Nat \ S # {} PROVE FALSE
  OBVIOUS
<1>1. PICK m \in Nat \ S : \A k \in Nat \ S : m <= k
  BY LeastExists, Nat \ S \in SUBSET Nat
<1>2. m # 0 /\ m - 1 \in Nat /\ m - 1 \in S
  BY <1>1
<1> QED
  BY <1>1, <1>2

(***************************************************************************)
(* Audio                                                                   *)
(***************************************************************************)
\* The constants, as the proofs need them.
LEMMA AudioConstants ==
  MaxAudio \in Nat \ {0} /\ Copies \in Nat /\ MaxPushed \in Nat \ {0} /\ Copies < Half
BY AvAssumption DEF Audio!AudioAssumption, Audio!Half, Half

\* The operators of the instance are those of SeqNum.
LEMMA AudioNumbers ==
  /\ Audio!Half = Half /\ Audio!SeqNums = SeqNums
  /\ \A a, b : Audio!SeqGt(a, b) <=> SeqGt(a, b)
  /\ \A f : Audio!Index(f) = f % SeqSpace
BY DEF Audio!Half, Half, Audio!SeqNums, SeqNums, Audio!SeqGt, SeqGt, Audio!Index

\* What a packet makes the sink play: its own frame, if that is the newest.  The
\* copies are of older frames, and come after it.
Newer(a, b) == IF a > b THEN a ELSE b
Played(f) ==
  IF f > newest THEN [prev |-> f % SeqSpace, heard |-> <<f>>] ELSE [prev |-> prev, heard |-> <<>>]
After(f, i) == IF i = 0 THEN [prev |-> prev, heard |-> <<>>] ELSE Played(f)

\* A packet's frame in front, then older ones, none so old that it would be taken
\* for a newer one.
Units(u, f) ==
  /\ Len(u) \in Nat \ {0} /\ u[1] = f
  /\ \A i \in 2 .. Len(u) : u[i] \in Int /\ u[i] < f /\ Newer(newest, f) - u[i] < Half

\* One unit of a packet.
LEMMA PlayNext ==
  ASSUME NEW f \in Nat, newest \in Nat, prev = newest % SeqSpace,
         f - newest < Half, newest - f < Half,
         NEW u, Units(u, f), NEW i \in 1 .. Len(u)
  PROVE  Audio!Play(After(f, i - 1), u[i]) = After(f, i)
<1>1. PICK n : n = newest /\ n \in Nat
  OBVIOUS
<1>2. CASE i = 1
  <2>1. After(f, i - 1) = [prev |-> prev, heard |-> <<>>] /\ After(f, i) = Played(f) /\ u[i] = f
    BY <1>2 DEF After, Units
  <2>2. SeqGt(f % SeqSpace, prev) <=> f > newest
    <3>1. SeqGt(f % SeqSpace, n % SeqSpace) <=> f > n
      BY <1>1, GtIs
    <3> QED
      BY <1>1, <3>1
  <2>3. PICK x : x = After(f, i - 1)
    OBVIOUS
  <2>4. x.prev = prev /\ x.heard = <<>> /\ x = [prev |-> x.prev, heard |-> x.heard]
    BY <2>1, <2>3
  <2>5. Audio!SeqGt(Audio!Index(f), x.prev) <=> f > newest
    BY <2>2, <2>4, AudioNumbers
  <2>6. CASE f > newest
    <3>1. Audio!Play(x, f) = [x EXCEPT !.prev = Audio!Index(f), !.heard = Append(@, f)]
      BY <2>5, <2>6 DEF Audio!Play
    <3>2. Append(x.heard, f) = <<f>>
      BY <2>4
    <3>3. Audio!Play(x, f) = [prev |-> Audio!Index(f), heard |-> <<f>>]
      BY <2>4, <3>1, <3>2
    <3> QED
      BY <2>1, <2>3, <2>6, <3>3, AudioNumbers DEF Played
  <2>7. CASE ~(f > newest)
    <3>1. Audio!Play(x, f) = x
      BY <2>5, <2>7 DEF Audio!Play
    <3> QED
      BY <2>1, <2>3, <2>7, <3>1 DEF Played
  <2> QED
    BY <2>6, <2>7
<1>3. CASE i # 1
  <2>1. i \in 2 .. Len(u) /\ i - 1 # 0 /\ i # 0
    <3>1. Len(u) \in Nat
      BY DEF Units
    <3> QED
      BY <1>3, <3>1
  <2>2. After(f, i - 1) = Played(f) /\ After(f, i) = Played(f)
    BY <2>1 DEF After
  <2>3. PICK v \in Int : v = u[i] /\ v < f /\ Newer(n, f) - v < Half
    BY <1>1, <2>1 DEF Units
  <2>4. PICK m \in Nat : m = Newer(n, f) /\ Played(f).prev = m % SeqSpace
    BY <1>1 DEF Newer, Played
  <2>5. ~SeqGt(v % SeqSpace, m % SeqSpace)
    <3>1. v - m < Half /\ m - v < Half /\ ~(v > m)
      BY <1>1, <2>3, <2>4, SpaceIs DEF Newer
    <3> QED
      BY <3>1, GtIs
  <2>6. PICK x : x = Played(f)
    OBVIOUS
  <2>7. Audio!Play(x, v) = x
    BY <2>4, <2>5, <2>6, AudioNumbers DEF Audio!Play
  <2> QED
    BY <2>2, <2>3, <2>6, <2>7
<1> QED
  BY <1>2, <1>3

\* All units of a packet.
PlaysAll(p, u) ==
  p = [i \in 0 .. Len(u) |->
         IF i = 0 THEN [prev |-> prev, heard |-> <<>>] ELSE Audio!Play(p[i - 1], u[i])]

\* They play what the newest of them makes the sink play.
LEMMA PlayedIs ==
  ASSUME NEW f \in Nat, newest \in Nat, prev = newest % SeqSpace,
         f - newest < Half, newest - f < Half,
         NEW u, Units(u, f)
  PROVE  Audio!PlayUnits(u) = Played(f)
<1>1. PICK n \in Nat : n = Len(u) /\ n # 0
  BY DEF Units
<1>2. \A i \in 1 .. n : Audio!Play(After(f, i - 1), u[i]) = After(f, i)
  BY <1>1, PlayNext
<1> DEFINE w == [i \in 0 .. n |-> After(f, i)]
<1>3. PlaysAll(w, u)
  <2>1. \A i \in 0 .. n :
          w[i] = IF i = 0 THEN [prev |-> prev, heard |-> <<>>] ELSE Audio!Play(w[i - 1], u[i])
    <3> SUFFICES ASSUME NEW i \in 0 .. n
                 PROVE  w[i] = IF i = 0 THEN [prev |-> prev, heard |-> <<>>]
                               ELSE Audio!Play(w[i - 1], u[i])
      OBVIOUS
    <3>1. w[i] = After(f, i)
      OBVIOUS
    <3>2. CASE i = 0
      BY <3>1, <3>2 DEF After
    <3>3. CASE i # 0
      <4>1. i \in 1 .. n /\ i - 1 \in 0 .. n
        BY <3>3
      <4>2. w[i - 1] = After(f, i - 1)
        BY <4>1
      <4> HIDE DEF w
      <4> QED
        BY <1>2, <3>1, <3>3, <4>1, <4>2
    <3> QED
      BY <3>2, <3>3
  <2>2. w = [i \in 0 .. n |-> w[i]]
    OBVIOUS
  <2> HIDE DEF w
  <2> QED
    BY <1>1, <2>1, <2>2, Zenon DEF PlaysAll
<1> HIDE DEF w
<1>4. PICK p : PlaysAll(p, u) /\ Audio!PlayUnits(u) = p[n]
  <2>1. Audio!PlayUnits(u) = (CHOOSE p : PlaysAll(p, u))[n]
    BY <1>1 DEF Audio!PlayUnits, PlaysAll
  <2> QED
    BY <1>3, <2>1
<1>5. \A i \in 0 .. n :
        p[i] = IF i = 0 THEN [prev |-> prev, heard |-> <<>>] ELSE Audio!Play(p[i - 1], u[i])
  BY <1>1, <1>4 DEF PlaysAll
<1> DEFINE S == {i \in Nat : i <= n => p[i] = After(f, i)}
<1>6. 0 \in S
  <2>1. 0 \in 0 .. n
    OBVIOUS
  <2>2. p[0] = [prev |-> prev, heard |-> <<>>]
    BY <1>5, <2>1
  <2>3. p[0] = After(f, 0)
    BY <2>2 DEF After
  <2> QED
    BY <2>3
<1>7. ASSUME NEW i \in S PROVE i + 1 \in S
  <2> SUFFICES ASSUME i + 1 <= n PROVE p[i + 1] = After(f, i + 1)
    OBVIOUS
  <2>1. i \in Nat /\ i + 1 \in 1 .. n /\ i + 1 \in 0 .. n /\ i + 1 # 0 /\ (i + 1) - 1 = i /\ i <= n
    OBVIOUS
  <2>2. p[i] = After(f, i)
    BY <2>1
  <2> HIDE DEF S
  <2> QED
    BY <1>2, <1>5, <2>1, <2>2
<1>8. S = Nat
  <2>1. S \in SUBSET Nat
    OBVIOUS
  <2> HIDE DEF S
  <2> QED
    BY <1>6, <1>7, <2>1, Induction
<1>9. p[n] = After(f, n)
  <2>1. n \in S
    BY <1>8
  <2> QED
    BY <2>1
<1> QED
  BY <1>1, <1>4, <1>9 DEF After

\* The units of a packet that the network may deliver are as Units says.
LEMMA UnitsAre ==
  ASSUME NEW f \in Nat, newest \in Nat, Audio!Deliverable(f)
  PROVE  Units(Audio!SourceUnits(f) \o Audio!CopyUnits(f), f)
<1>1. newest - f + Copies < Half /\ f - newest < Half
  BY AudioNumbers DEF Audio!Deliverable
<1>2. PICK k \in Nat : Audio!CopyUnits(f) = [i \in 1 .. Copies - k |-> f - Copies + k + i - 1]
  <2>1. f % SeqSpace \in SeqNums
    BY Remainder
  <2>2. PICK k : k = IF startup' /\ f % SeqSpace < Copies + 1 THEN Copies + 1 - (f % SeqSpace) ELSE 0
    OBVIOUS
  <2>3. k \in Nat
    BY <2>1, <2>2, SpaceIs, AudioConstants DEF SeqNums
  <2>4. Audio!CopyUnits(f) = [i \in 1 .. Copies - k |-> f - Copies + k + i - 1]
    BY <2>2, AudioNumbers DEF Audio!CopyUnits
  <2> QED
    BY <2>3, <2>4
<1>3. PICK c \in Seq(Int) : /\ c = Audio!CopyUnits(f)
                            /\ \A i \in 1 .. Len(c) : c[i] \in Int /\ c[i] < f /\ f - c[i] <= Copies
  <2>1. PICK c : c = [i \in 1 .. Copies - k |-> f - Copies + k + i - 1]
    OBVIOUS
  <2>2. PICK n \in Nat : 1 .. Copies - k = 1 .. n /\ (n = 0 \/ n = Copies - k)
    <3>1. CASE Copies - k >= 0
      BY <3>1, AudioConstants
    <3>2. CASE Copies - k < 0
      <4>1. 1 .. Copies - k = 1 .. 0
        BY <3>2, AudioConstants
      <4> QED
        BY <4>1
    <3> QED
      BY <3>1, <3>2, AudioConstants
  <2>3. \A i \in 1 .. n : f - Copies + k + i - 1 \in Int /\ f - Copies + k + i - 1 < f
                          /\ f - (f - Copies + k + i - 1) <= Copies
    BY <2>2, AudioConstants
  <2>4. c = [i \in 1 .. n |-> f - Copies + k + i - 1]
    BY <2>1, <2>2
  <2>5. c \in Seq(Int) /\ Len(c) = n
    BY <2>3, <2>4
  <2>6. \A i \in 1 .. n : c[i] = f - Copies + k + i - 1
    BY <2>4
  <2> QED
    BY <1>2, <2>1, <2>3, <2>5, <2>6
<1>4. PICK u : u = <<f>> \o c
  OBVIOUS
<1>5. Len(u) = 1 + Len(c) /\ u[1] = f /\ \A i \in 2 .. Len(u) : u[i] = c[i - 1]
  <2>1. <<f>> \in Seq(Int) /\ Len(<<f>>) = 1 /\ <<f>>[1] = f
    OBVIOUS
  <2> QED
    BY <1>4, <2>1
<1>6. ASSUME NEW i \in 2 .. Len(u)
      PROVE  u[i] \in Int /\ u[i] < f /\ Newer(newest, f) - u[i] < Half
  <2>1. Len(c) \in Nat /\ i - 1 \in 1 .. Len(c)
    BY <1>3, <1>5
  <2>2. c[i - 1] \in Int /\ c[i - 1] < f /\ f - c[i - 1] <= Copies /\ u[i] = c[i - 1]
    BY <1>3, <1>5, <2>1
  <2>3. PICK v \in Int : v = u[i] /\ v < f /\ f - v <= Copies
    BY <2>2
  <2>4. Newer(newest, f) - v < Half
    BY <1>1, <2>3, AudioConstants, SpaceIs DEF Newer
  <2> QED
    BY <2>3, <2>4
<1>7. Units(u, f)
  BY <1>3, <1>5, <1>6 DEF Units
<1> QED
  BY <1>3, <1>4, <1>7 DEF Audio!SourceUnits

AudioTypes ==
  /\ Audio!TypeOK
  /\ push = [at |-> push.at, seq |-> push.seq, count |-> push.count]
  /\ stats = [genReceived |-> stats.genReceived, genLost |-> stats.genLost, seqMin |-> stats.seqMin,
              seqMax |-> stats.seqMax, seqReceived |-> stats.seqReceived]
Since ==
  /\ since = [from |-> since.from, count |-> since.count, clean |-> since.clean]
  /\ since.from \in 0 .. MaxAudio /\ since.count \in Nat /\ since.clean \in BOOLEAN
Playing == prev = newest % SeqSpace /\ played = newest
Quiet == push.at # "load" => heard = <<>>

\* The maximum is the newest frame's number, once that was counted.
Meets(x, y, new) == x - y < Half /\ y - x < Half /\ new = Newer(x, y)
Recent ==
  /\ push.at = "idle" => push = Audio!Idle /\ stats.seqMax = newest % SeqSpace
  /\ push.at # "idle" =>
       \E x, y \in 0 .. MaxAudio :
         push.seq = x % SeqSpace /\ stats.seqMax = y % SeqSpace /\ Meets(x, y, newest)

\* What was counted is what came, less the one that is being counted.
Counting ==
  since.clean =>
    /\ since.from <= newest /\ newest - since.from < SeqSpace
    /\ since.count <= newest - since.from
    /\ stats.seqMin = since.from % SeqSpace
    /\ push.at \in {"load", "store"} => stats.seqReceived + 1 = since.count
    /\ push.at \in {"idle", "max"} => stats.seqReceived = since.count
    /\ push.at = "store" => push.count = since.count
Loss == (kind = "audio" => stats.genLost = 0) /\ LossIsExact
AudioInv == AudioTypes /\ Since /\ Playing /\ Quiet /\ Recent /\ Counting /\ Loss

\* The types of the state, one by one.
LEMMA AudioFields ==
  ASSUME AudioTypes
  PROVE  /\ newest \in 0 .. MaxAudio /\ newest \in Nat /\ played \in 0 .. MaxAudio
         /\ prev \in SeqNums /\ startup \in BOOLEAN
         /\ push.at \in {"idle", "load", "store", "max"} /\ push.seq \in SeqNums /\ push.count \in Nat
         /\ stats.genReceived \in Nat /\ stats.genLost \in Int /\ stats.seqReceived \in Nat
         /\ stats.seqMin \in SeqNums /\ stats.seqMax \in SeqNums
<1>1. {stats.genReceived, stats.seqReceived} \subseteq Nat /\ stats.genLost \in Int
      /\ {stats.seqMin, stats.seqMax} \subseteq SeqNums
  BY AudioNumbers DEF AudioTypes, Audio!TypeOK
<1>2. newest \in 0 .. MaxAudio /\ played \in 0 .. MaxAudio /\ prev \in SeqNums /\ startup \in BOOLEAN
      /\ push.at \in {"idle", "load", "store", "max"} /\ push.seq \in SeqNums /\ push.count \in Nat
  BY AudioNumbers DEF AudioTypes, Audio!TypeOK
<1>3. newest \in Nat
  BY <1>2, AudioConstants
<1> QED
  BY <1>1, <1>2, <1>3

\* A packet: it is played if it is the newest, and then counted.
LEMMA ReceiveKeeps ==
  ASSUME AudioInv, TakionAudio
  PROVE  /\ AudioInv'
         /\ \A i \in DOMAIN heard' : heard'[i] > played /\ \A j \in 1 .. i - 1 : heard'[j] < heard'[i]
<1>1. kind = "audio" /\ UNCHANGED <<kind, videoVars, stats, report>>
      /\ since' = [since EXCEPT !.count = @ + 1,
                                !.clean = @ /\ newest' > newest /\ newest' - since.from < SeqSpace]
  BY DEF TakionAudio
<1>2. PICK f \in 1 .. MaxAudio : Audio!Deliverable(f) /\ Audio!AudioPacket(f)
  BY DEF TakionAudio, Audio!Receive
<1>3. PICK n \in 0 .. MaxAudio : n = newest /\ n \in Nat
  BY AudioFields DEF AudioInv
<1>4. f \in Nat /\ f - n < Half /\ n - f < Half
  <2>1. n - f + Copies < Half /\ f - n < Half
    BY <1>2, <1>3, AudioNumbers DEF Audio!Deliverable
  <2> QED
    BY <2>1, <1>3, AudioConstants, SpaceIs
<1>5. PICK u : u = Audio!SourceUnits(f) \o Audio!CopyUnits(f)
  OBVIOUS
<1>6. /\ push = Audio!Idle
      /\ startup' = (startup /\ Audio!Index(f) <= Audio!Half)
      /\ prev' = Audio!PlayUnits(u).prev /\ heard' = Audio!PlayUnits(u).heard
      /\ played' = IF Audio!PlayUnits(u).heard = <<>> THEN played
                   ELSE Audio!PlayUnits(u).heard[Len(Audio!PlayUnits(u).heard)]
      /\ newest' = IF f > newest THEN f ELSE newest
      /\ push' = [at |-> "load", seq |-> Audio!Index(f), count |-> 0]
  BY <1>2, <1>5 DEF Audio!AudioPacket
<1>7. Audio!PlayUnits(u) = Played(f)
  <2>1. Units(u, f)
    BY <1>2, <1>3, <1>4, <1>5, UnitsAre
  <2> QED
    BY <1>3, <1>4, <2>1, PlayedIs DEF AudioInv, Playing
<1>8. newest' = Newer(f, n) /\ newest' \in 0 .. MaxAudio
  BY <1>3, <1>6 DEF Newer
<1>9. prev' = newest' % SeqSpace /\ played' = newest'
      /\ heard' = IF f > n THEN <<f>> ELSE <<>>
  <2>1. prev = n % SeqSpace /\ played = n
    BY <1>3 DEF AudioInv, Playing
  <2>2. CASE f > n
    <3>1. Played(f) = [prev |-> f % SeqSpace, heard |-> <<f>>]
      BY <1>3, <2>2 DEF Played
    <3>2. prev' = f % SeqSpace /\ heard' = <<f>>
      BY <1>6, <1>7, <3>1
    <3>3. <<f>> # <<>> /\ <<f>>[Len(<<f>>)] = f
      OBVIOUS
    <3>4. played' = f
      BY <1>6, <1>7, <3>1, <3>3
    <3> QED
      BY <1>3, <1>6, <2>2, <3>2, <3>4
  <2>3. CASE ~(f > n)
    <3>1. Played(f) = [prev |-> prev, heard |-> <<>>]
      BY <1>3, <2>3 DEF Played
    <3> QED
      BY <1>3, <1>6, <1>7, <2>1, <2>3, <3>1
  <2> QED
    BY <2>2, <2>3
<1>10. \A i \in DOMAIN heard' : heard'[i] > played /\ \A j \in 1 .. i - 1 : heard'[j] < heard'[i]
  <2>1. played = n
    BY <1>3 DEF AudioInv, Playing
  <2>2. CASE f > n
    <3>1. heard' = <<f>>
      BY <1>9, <2>2
    <3>2. \A i \in DOMAIN <<f>> : i = 1 /\ <<f>>[i] = f
      OBVIOUS
    <3> QED
      BY <2>1, <2>2, <3>1, <3>2
  <2>3. CASE ~(f > n)
    <3>1. heard' = <<>>
      BY <1>9, <2>3
    <3>2. DOMAIN heard' = {}
      BY <3>1
    <3> QED
      BY <3>2
  <2> QED
    BY <2>2, <2>3
<1>11. push'.at = "load" /\ push'.seq = f % SeqSpace /\ push'.count = 0
       /\ push' = [at |-> push'.at, seq |-> push'.seq, count |-> push'.count]
  BY <1>6, AudioNumbers
<1>12. AudioTypes'
  <2>1. f % SeqSpace \in SeqNums /\ newest' % SeqSpace \in SeqNums
    <3>1. newest' \in Int
      BY <1>8
    <3> QED
      BY <1>4, <3>1, Remainder
  <2>2. startup' \in BOOLEAN
    BY <1>6, AudioFields DEF AudioInv
  <2>3. stats' = stats /\ Audio!TypeOK
    BY <1>1 DEF AudioInv, AudioTypes
  <2>4. Audio!TypeOK'
    BY <1>8, <1>9, <1>11, <2>1, <2>2, <2>3, AudioNumbers DEF Audio!TypeOK
  <2> QED
    BY <1>11, <2>3, <2>4 DEF AudioInv, AudioTypes
<1>13. push.at = "idle" /\ stats.seqMax = n % SeqSpace
  <2>1. push.at = "idle"
    BY <1>6 DEF Audio!Idle
  <2> QED
    BY <1>3, <2>1 DEF AudioInv, Recent
<1>14. Recent'
  <2>1. f \in 0 .. MaxAudio /\ Meets(f, n, newest')
    BY <1>4, <1>8 DEF Meets
  <2> QED
    BY <1>1, <1>3, <1>11, <1>13, <2>1 DEF Recent
<1>15. /\ since'.from = since.from /\ since'.count = since.count + 1
       /\ since'.clean = (since.clean /\ newest' > n /\ newest' - since.from < SeqSpace)
       /\ since' = [from |-> since'.from, count |-> since'.count, clean |-> since'.clean]
  BY <1>1, <1>3 DEF AudioInv, Since
<1>16. Since'
  <2>1. since'.count \in Nat
    BY <1>15 DEF AudioInv, Since
  <2>2. since'.clean \in BOOLEAN
    BY <1>15
  <2> QED
    BY <1>15, <2>1, <2>2 DEF AudioInv, Since
<1>17. Counting'
  <2> SUFFICES ASSUME since'.clean
               PROVE  /\ since'.from <= newest' /\ newest' - since'.from < SeqSpace
                      /\ since'.count <= newest' - since'.from
                      /\ stats'.seqMin = since'.from % SeqSpace
                      /\ stats'.seqReceived + 1 = since'.count
    BY <1>11 DEF Counting
  <2>1. since.clean /\ newest' > n /\ newest' - since.from < SeqSpace
    BY <1>15
  <2>2. /\ since.from <= n /\ since.count <= n - since.from
        /\ stats.seqMin = since.from % SeqSpace /\ stats.seqReceived = since.count
    BY <1>3, <1>13, <2>1 DEF AudioInv, Counting
  <2>3. since.from \in Int /\ since.count \in Int /\ newest' \in Int /\ stats.seqReceived \in Int
    BY <1>8, AudioFields DEF AudioInv, Since
  <2> QED
    BY <1>1, <1>15, <2>1, <2>2, <2>3
<1>18. Loss'
  BY <1>1 DEF AudioInv, Loss, LossIsExact
<1> QED
  BY <1>9, <1>10, <1>11, <1>12, <1>14, <1>16, <1>17, <1>18 DEF AudioInv, Playing, Quiet

\* Counting it, in three steps.
LEMMA PushKeeps ==
  ASSUME AudioInv, TakionPush
  PROVE  AudioInv' /\ heard' = <<>>
<1>1. kind = "audio" /\ UNCHANGED <<kind, videoVars, report, since>> /\ Audio!Push
  BY DEF TakionPush
<1>2. UNCHANGED <<prev, startup, newest, played>>
  BY <1>1 DEF Audio!Push, Audio!PushLoad, Audio!PushStore, Audio!PushMax, Audio!rxVars
<1>3. Playing' /\ Since'
  BY <1>1, <1>2 DEF AudioInv, Playing, Since
<1>4. PICK st : st = stats
  OBVIOUS
<1>5. PICK pu : pu = push
  OBVIOUS
<1>6. pu = [at |-> pu.at, seq |-> pu.seq, count |-> pu.count]
      /\ st = [genReceived |-> st.genReceived, genLost |-> st.genLost, seqMin |-> st.seqMin,
               seqMax |-> st.seqMax, seqReceived |-> st.seqReceived]
  BY <1>4, <1>5 DEF AudioInv, AudioTypes
<1>7. CASE Audio!PushLoad
  <2>1. /\ pu.at = "load" /\ push' = [pu EXCEPT !.at = "store", !.count = st.seqReceived + 1]
        /\ stats' = st
    BY <1>4, <1>5, <1>7 DEF Audio!PushLoad
  <2>2. push'.at = "store" /\ push'.seq = pu.seq /\ push'.count = st.seqReceived + 1
        /\ push' = [at |-> push'.at, seq |-> push'.seq, count |-> push'.count]
    BY <1>6, <2>1
  <2>3. AudioTypes'
    <3>1. st.seqReceived + 1 \in Nat /\ pu.seq \in SeqNums
      BY <1>4, <1>5, AudioFields DEF AudioInv
    <3>2. Audio!TypeOK'
      BY <1>2, <1>4, <2>1, <2>2, <3>1, AudioNumbers DEF AudioInv, AudioTypes, Audio!TypeOK
    <3> QED
      BY <1>4, <1>6, <2>1, <2>2, <3>2 DEF AudioTypes
  <2>4. Recent'
    BY <1>2, <1>4, <1>5, <2>1, <2>2 DEF AudioInv, Recent
  <2>5. Counting'
    BY <1>1, <1>2, <1>4, <1>5, <2>1, <2>2 DEF AudioInv, Counting
  <2>6. Loss'
    BY <1>1, <1>4, <2>1 DEF AudioInv, Loss, LossIsExact
  <2> QED
    BY <1>3, <1>7, <2>3, <2>4, <2>5, <2>6 DEF AudioInv, Quiet, Audio!PushLoad
<1>8. CASE Audio!PushStore
  <2>1. /\ pu.at = "store" /\ push' = [pu EXCEPT !.at = "max"]
        /\ stats' = [st EXCEPT !.seqReceived = pu.count] /\ heard' = heard
    BY <1>4, <1>5, <1>8 DEF Audio!PushStore
  <2>2. push'.at = "max" /\ push'.seq = pu.seq /\ push'.count = pu.count
        /\ push' = [at |-> push'.at, seq |-> push'.seq, count |-> push'.count]
    BY <1>6, <2>1
  <2>3. /\ stats'.genReceived = st.genReceived /\ stats'.genLost = st.genLost
        /\ stats'.seqMin = st.seqMin /\ stats'.seqMax = st.seqMax /\ stats'.seqReceived = pu.count
        /\ stats' = [genReceived |-> stats'.genReceived, genLost |-> stats'.genLost, seqMin |-> stats'.seqMin,
                     seqMax |-> stats'.seqMax, seqReceived |-> stats'.seqReceived]
    BY <1>6, <2>1
  <2>4. AudioTypes'
    <3>1. pu.count \in Nat /\ pu.seq \in SeqNums /\ st.genReceived \in Nat /\ st.genLost \in Int
          /\ st.seqMin \in SeqNums /\ st.seqMax \in SeqNums
      BY <1>4, <1>5, AudioFields DEF AudioInv
    <3>2. Audio!TypeOK'
      BY <1>2, <2>2, <2>3, <3>1, AudioNumbers DEF AudioInv, AudioTypes, Audio!TypeOK
    <3> QED
      BY <2>2, <2>3, <3>2 DEF AudioTypes
  <2>5. Recent'
    BY <1>2, <1>4, <1>5, <2>1, <2>2, <2>3 DEF AudioInv, Recent
  <2>6. Counting'
    BY <1>1, <1>2, <1>4, <1>5, <2>1, <2>2, <2>3 DEF AudioInv, Counting
  <2>7. Loss'
    BY <1>1, <1>4, <2>3 DEF AudioInv, Loss, LossIsExact
  <2> QED
    BY <1>3, <1>5, <2>1, <2>4, <2>5, <2>6, <2>7 DEF AudioInv, Quiet
<1>9. CASE Audio!PushMax
  <2>1. /\ pu.at = "max" /\ push' = Audio!Idle /\ heard' = heard
        /\ stats' = [st EXCEPT !.seqMax = IF Audio!SeqGt(pu.seq, @) THEN pu.seq ELSE @]
    BY <1>4, <1>5, <1>9 DEF Audio!PushMax
  <2>2. push'.at = "idle" /\ push'.seq = 0 /\ push'.count = 0
        /\ push' = [at |-> push'.at, seq |-> push'.seq, count |-> push'.count]
    BY <2>1 DEF Audio!Idle
  <2>3. /\ stats'.genReceived = st.genReceived /\ stats'.genLost = st.genLost
        /\ stats'.seqMin = st.seqMin /\ stats'.seqReceived = st.seqReceived
        /\ stats'.seqMax = IF SeqGt(pu.seq, st.seqMax) THEN pu.seq ELSE st.seqMax
        /\ stats' = [genReceived |-> stats'.genReceived, genLost |-> stats'.genLost, seqMin |-> stats'.seqMin,
                     seqMax |-> stats'.seqMax, seqReceived |-> stats'.seqReceived]
    BY <1>6, <2>1, AudioNumbers
  <2>4. stats'.seqMax = newest % SeqSpace
    <3>1. PICK x, y \in 0 .. MaxAudio :
            pu.seq = x % SeqSpace /\ st.seqMax = y % SeqSpace /\ Meets(x, y, newest)
      BY <1>4, <1>5, <2>1 DEF AudioInv, Recent
    <3>2. SeqGt(x % SeqSpace, y % SeqSpace) <=> x > y
      BY <3>1, GtIs DEF Meets
    <3> QED
      BY <2>3, <3>1, <3>2 DEF Meets, Newer
  <2>5. AudioTypes'
    <3>1. st.seqReceived \in Nat /\ st.genReceived \in Nat /\ st.genLost \in Int
          /\ st.seqMin \in SeqNums /\ newest % SeqSpace \in SeqNums
      BY <1>4, AudioFields, Remainder DEF AudioInv
    <3>2. 0 \in SeqNums /\ 0 \in Nat
      BY SpaceIs DEF SeqNums
    <3>3. Audio!TypeOK'
      BY <1>2, <2>2, <2>3, <2>4, <3>1, <3>2, AudioNumbers DEF AudioInv, AudioTypes, Audio!TypeOK
    <3> QED
      BY <2>2, <2>3, <3>3 DEF AudioTypes
  <2>6. Recent'
    BY <1>2, <2>1, <2>2, <2>4 DEF Recent
  <2>7. Counting'
    BY <1>1, <1>2, <1>4, <1>5, <2>1, <2>2, <2>3 DEF AudioInv, Counting
  <2>8. Loss'
    BY <1>1, <1>4, <2>3 DEF AudioInv, Loss, LossIsExact
  <2> QED
    BY <1>3, <1>5, <2>1, <2>5, <2>6, <2>7, <2>8 DEF AudioInv, Quiet
<1> QED
  BY <1>1, <1>7, <1>8, <1>9 DEF Audio!Push

\* Video packets count their own units only.
LEMMA VideoLeavesAudio ==
  ASSUME AudioInv, kind = "video", UNCHANGED <<kind, audioVars, report, since>>,
         NEW r \in Nat, NEW l \in Int,
         stats' = [stats EXCEPT !.genReceived = r, !.genLost = l]
  PROVE  AudioInv'
<1>1. UNCHANGED <<kind, prev, startup, push, newest, heard, played, report, since>>
  BY DEF audioVars
<1>2. PICK st : st = stats
  OBVIOUS
<1>3. st = [genReceived |-> st.genReceived, genLost |-> st.genLost, seqMin |-> st.seqMin,
            seqMax |-> st.seqMax, seqReceived |-> st.seqReceived]
  BY <1>2 DEF AudioInv, AudioTypes
<1>4. /\ stats'.genReceived = r /\ stats'.genLost = l
      /\ stats'.seqMin = st.seqMin /\ stats'.seqMax = st.seqMax /\ stats'.seqReceived = st.seqReceived
      /\ stats' = [genReceived |-> stats'.genReceived, genLost |-> stats'.genLost, seqMin |-> stats'.seqMin,
                   seqMax |-> stats'.seqMax, seqReceived |-> stats'.seqReceived]
  BY <1>2, <1>3
<1>5. AudioTypes'
  <2>1. st.seqReceived \in Nat /\ st.seqMin \in SeqNums /\ st.seqMax \in SeqNums
    BY <1>2, AudioFields DEF AudioInv
  <2>2. Audio!TypeOK'
    BY <1>1, <1>4, <2>1, AudioNumbers DEF AudioInv, AudioTypes, Audio!TypeOK
  <2> QED
    BY <1>1, <1>4, <2>2 DEF AudioInv, AudioTypes
<1>6. Since' /\ Playing' /\ Quiet'
  BY <1>1 DEF AudioInv, Since, Playing, Quiet
<1>7. Recent'
  BY <1>1, <1>2, <1>4 DEF AudioInv, Recent
<1>8. Counting'
  BY <1>1, <1>2, <1>4 DEF AudioInv, Counting
<1>9. Loss'
  BY <1>1 DEF AudioInv, Loss, LossIsExact
<1> QED
  BY <1>5, <1>6, <1>7, <1>8, <1>9 DEF AudioInv

\* What is missing is what the statistics count as lost, across the wrap.
LEMMA LossIs ==
  ASSUME NEW new \in Nat, NEW from \in Nat, NEW count \in Nat, NEW st,
         from <= new, new - from < SeqSpace, count <= new - from,
         st.genLost = 0, st.seqMin = from % SeqSpace, st.seqMax = new % SeqSpace, st.seqReceived = count
  PROVE  Lost(st) = (new - from - count) % SeqSpace
<1>1. PICK x \in SeqNums, y \in SeqNums : x = from % SeqSpace /\ y = new % SeqSpace
  BY Remainder
<1>2. x \in Int /\ y \in Int /\ x >= 0 /\ x < SeqSpace /\ y >= 0 /\ y < SeqSpace
  BY <1>1, SpaceIs DEF SeqNums
<1>3. PICK d \in Nat : d = new - from /\ d < SeqSpace /\ count <= d
  OBVIOUS
<1>4. y = x + d \/ y = x + d - SeqSpace
  <2>1. new - from \in 0 .. SeqSpace - 1
    BY <1>3, SpaceIs
  <2> QED
    BY <1>1, <1>3, <2>1, NearRemainders
<1>5. SeqLost(st) = IF y - x >= 0 /\ count > y - x THEN y - x ELSE y - x - count
  BY <1>1 DEF SeqLost
<1>6. PICK z \in Int : z = d - count /\ z = new - from - count
  BY <1>3
<1>7. CASE y = x + d
  <2>1. SeqLost(st) = z
    BY <1>2, <1>3, <1>5, <1>6, <1>7
  <2>2. st.genLost + SeqLost(st) = z
    BY <2>1
  <2> QED
    BY <1>6, <2>2 DEF Lost
<1>8. CASE y = x + d - SeqSpace
  <2>1. SeqLost(st) = z - SeqSpace
    BY <1>2, <1>3, <1>5, <1>6, <1>8, SpaceIs
  <2>2. st.genLost + SeqLost(st) = z - SeqSpace
    BY <2>1, SpaceIs
  <2>3. (z - SeqSpace) % SeqSpace = z % SeqSpace
    <3>1. PICK r \in SeqNums, q \in Int : r = z % SeqSpace /\ z = r + q * SeqSpace
      BY Remainder
    <3>2. z - SeqSpace = r + (q - 1) * SeqSpace
      <4>1. (q - 1) * SeqSpace = q * SeqSpace - SeqSpace /\ q * SeqSpace \in Int
        BY SpaceIs
      <4>2. r \in Int
        BY SpaceIs DEF SeqNums
      <4> QED
        BY <3>1, <4>1, <4>2, SpaceIs
    <3>3. (r + (q - 1) * SeqSpace) % SeqSpace = r
      BY RemainderIs
    <3> QED
      BY <3>1, <3>2, <3>3
  <2> QED
    BY <1>6, <2>2, <2>3 DEF Lost
<1> QED
  BY <1>4, <1>7, <1>8

\* A report, at any moment.
LEMMA ReportsKeep ==
  ASSUME AudioInv, CongestionReport
  PROVE  AudioInv'
<1>1. /\ UNCHANGED <<kind, prev, startup, push, newest, heard, played>>
      /\ report' = [lost |-> IF kind = "audio" THEN Lost(stats) ELSE 0,
                    missing |-> newest - since.from - since.count,
                    clean |-> since.clean /\ push = Audio!Idle]
      /\ stats' = ResetStats(stats)
      /\ since' = [from |-> newest, count |-> 0, clean |-> push = Audio!Idle]
  BY DEF CongestionReport, audioVars
<1>2. PICK st : st = stats
  OBVIOUS
<1>3. /\ stats'.genReceived = 0 /\ stats'.genLost = 0
      /\ stats'.seqMin = st.seqMax /\ stats'.seqMax = st.seqMax /\ stats'.seqReceived = 0
      /\ stats' = [genReceived |-> stats'.genReceived, genLost |-> stats'.genLost, seqMin |-> stats'.seqMin,
                   seqMax |-> stats'.seqMax, seqReceived |-> stats'.seqReceived]
  BY <1>1, <1>2 DEF ResetStats
<1>4. since'.from = newest /\ since'.count = 0 /\ since'.clean = (push = Audio!Idle)
      /\ since' = [from |-> since'.from, count |-> since'.count, clean |-> since'.clean]
  BY <1>1
<1>5. AudioTypes'
  <2>1. st.seqMax \in SeqNums /\ 0 \in Nat
    BY <1>2, AudioFields DEF AudioInv
  <2>2. Audio!TypeOK'
    BY <1>1, <1>3, <2>1, AudioNumbers DEF AudioInv, AudioTypes, Audio!TypeOK
  <2> QED
    BY <1>1, <1>3, <2>2 DEF AudioInv, AudioTypes
<1>6. Since'
  <2>1. newest \in 0 .. MaxAudio /\ 0 \in Nat /\ (push = Audio!Idle) \in BOOLEAN
    BY AudioFields DEF AudioInv
  <2> QED
    BY <1>4, <2>1 DEF Since
<1>7. Playing' /\ Quiet'
  BY <1>1 DEF AudioInv, Playing, Quiet
<1>8. Recent'
  BY <1>1, <1>2, <1>3 DEF AudioInv, Recent
<1>9. Counting'
  <2> SUFFICES ASSUME push = Audio!Idle PROVE Counting'
    BY <1>4 DEF Counting
  <2>1. push.at = "idle"
    BY DEF Audio!Idle
  <2>2. st.seqMax = newest % SeqSpace
    BY <1>2, <2>1 DEF AudioInv, Recent
  <2>3. newest - newest = 0 /\ newest <= newest /\ 0 < SeqSpace /\ 0 <= 0
    BY AudioFields, SpaceIs DEF AudioInv
  <2> QED
    BY <1>1, <1>3, <1>4, <2>1, <2>2, <2>3 DEF Counting
<1>10. Loss'
  <2>1. LossIsExact'
    <3> SUFFICES ASSUME kind = "audio", since.clean, push = Audio!Idle
                 PROVE  Lost(st) = (newest - since.from - since.count) % SeqSpace
      BY <1>1, <1>2 DEF LossIsExact
    <3>1. push.at = "idle"
      BY DEF Audio!Idle
    <3>2. /\ since.from <= newest /\ newest - since.from < SeqSpace
          /\ since.count <= newest - since.from
          /\ st.seqMin = since.from % SeqSpace /\ st.seqReceived = since.count
          /\ st.seqMax = newest % SeqSpace /\ st.genLost = 0
      BY <1>2, <3>1 DEF AudioInv, Counting, Recent, Loss
    <3>3. PICK new \in Nat, from \in Nat, count \in Nat :
            new = newest /\ from = since.from /\ count = since.count
      BY AudioFields DEF AudioInv, Since
    <3>4. Lost(st) = (new - from - count) % SeqSpace
      BY <3>2, <3>3, LossIs
    <3> QED
      BY <3>3, <3>4
  <2> QED
    BY <1>3, <2>1 DEF Loss
<1> QED
  BY <1>5, <1>6, <1>7, <1>8, <1>9, <1>10 DEF AudioInv

\* Nothing came yet.
LEMMA AudioInit == Init => AudioInv
<1> SUFFICES ASSUME Init PROVE AudioInv
  OBVIOUS
<1>1. /\ prev = 0 /\ startup = TRUE /\ push = [at |-> "idle", seq |-> 0, count |-> 0]
      /\ stats = [genReceived |-> 0, genLost |-> 0, seqMin |-> 0, seqMax |-> 0, seqReceived |-> 0]
      /\ newest = 0 /\ heard = <<>> /\ played = 0
      /\ report.clean = FALSE
      /\ since = [from |-> 0, count |-> 0, clean |-> TRUE]
  BY DEF Init, Audio!Init, Audio!StatsInit, Audio!Idle
<1>2. 0 \in SeqNums /\ 0 % SeqSpace = 0 /\ 0 \in 0 .. MaxAudio /\ 0 < SeqSpace
  <2>1. PICK n \in Nat : n = SeqSpace /\ n > 0
    BY SpaceIs
  <2>2. 0 % n = 0
    BY <2>1
  <2> QED
    BY <2>1, <2>2, AudioConstants DEF SeqNums
<1>3. push.at = "idle" /\ push.seq = 0 /\ push.count = 0
      /\ push = [at |-> push.at, seq |-> push.seq, count |-> push.count]
  BY <1>1
<1>4. /\ stats.genReceived = 0 /\ stats.genLost = 0 /\ stats.seqMin = 0 /\ stats.seqMax = 0
      /\ stats.seqReceived = 0
      /\ stats = [genReceived |-> stats.genReceived, genLost |-> stats.genLost, seqMin |-> stats.seqMin,
                  seqMax |-> stats.seqMax, seqReceived |-> stats.seqReceived]
  BY <1>1
<1>5. since.from = 0 /\ since.count = 0 /\ since.clean = TRUE
      /\ since = [from |-> since.from, count |-> since.count, clean |-> since.clean]
  BY <1>1
<1>6. AudioTypes
  <2>1. Audio!TypeOK
    BY <1>1, <1>2, <1>3, <1>4, AudioNumbers DEF Audio!TypeOK
  <2> QED
    BY <1>3, <1>4, <2>1 DEF AudioTypes
<1>7. Since /\ Playing /\ Quiet
  BY <1>1, <1>2, <1>5 DEF Since, Playing, Quiet
<1>8. Recent
  BY <1>1, <1>2, <1>3, <1>4 DEF Recent, Audio!Idle
<1>9. Counting
  BY <1>1, <1>2, <1>3, <1>4, <1>5 DEF Counting
<1>10. Loss
  BY <1>1, <1>4 DEF Loss, LossIsExact
<1> QED
  BY <1>6, <1>7, <1>8, <1>9, <1>10 DEF AudioInv

(***************************************************************************)
(* The frame processor                                                     *)
(***************************************************************************)
\* The constants, as the proofs need them.
LEMMA VideoConstants ==
  /\ MaxVideo \in Nat /\ Profiles \in Nat
  /\ \A f \in 0 .. MaxVideo : /\ TotalOf[f] \in Nat \ {0} /\ FecOf[f] \in Nat /\ FecOf[f] < TotalOf[f]
                              /\ ProfileOf[f] \in Nat
BY AvAssumption DEF Video!VideoAssumption, Video!Frames

\* The operators of the instance are those of the library and of SeqNum.
LEMMA VideoNumbers ==
  /\ Video!Half = Half /\ Video!SeqNums = SeqNums
  /\ \A a, b : (Video!SeqGt(a, b) <=> SeqGt(a, b)) /\ (Video!SeqLt(a, b) <=> SeqLt(a, b))
  /\ \A a : Video!Cast(a) = Cast(a)
  /\ \A a, b : Video!Dist(a, b) = Dist(a, b)
  /\ \A f : Video!Index(f) = f % SeqSpace
  /\ Video!Nobody = -1 /\ Video!Frames = 0 .. MaxVideo
BY DEF Video!Half, Half, Video!SeqNums, SeqNums, Video!SeqGt, SeqGt, Video!SeqLt, SeqLt,
       Video!Cast, Cast, Video!Dist, Dist, Video!Index, Video!Nobody, Video!Frames

\* Sets have one cardinality in the instance and here.
LEMMA VideoCardinality ==
  ASSUME NEW S
  PROVE  Video!Cardinality(S) = Cardinality(S)
BY DEF Video!Cardinality, Cardinality

\* The slots of a frame, of which one redundant unit has one at least.
Slots(f) == 0 .. Video!Source(f) + Video!Fec(f) - 1

\* There are as many slots as units expected, and one for each unit sent.
LEMMA SlotsAre ==
  ASSUME NEW f \in 0 .. MaxVideo
  PROVE  /\ Video!Source(f) \in Nat \ {0} /\ Video!Fec(f) \in Nat \ {0}
         /\ Slots(f) \in SUBSET Nat /\ IsFiniteSet(Slots(f))
         /\ Cardinality(Slots(f)) = Video!Source(f) + Video!Fec(f)
         /\ 0 .. TotalOf[f] - 1 \subseteq Slots(f)
<1>1. TotalOf[f] \in Nat \ {0} /\ FecOf[f] \in Nat /\ FecOf[f] < TotalOf[f]
  BY VideoConstants
<1>2. Video!Source(f) \in Nat \ {0}
  BY <1>1 DEF Video!Source
<1>3. Video!Fec(f) \in Nat \ {0} /\ Video!Fec(f) >= FecOf[f]
  BY <1>1 DEF Video!Fec
<1>4. PICK n \in Nat \ {0} : n = Video!Source(f) + Video!Fec(f)
  BY <1>2, <1>3
<1>5. IsFiniteSet(0 .. n - 1) /\ Cardinality(0 .. n - 1) = n
  <2>1. 0 \in Int /\ n - 1 \in Int /\ ~(0 > n - 1) /\ n - 1 - 0 + 1 = n
    OBVIOUS
  <2> QED
    BY <2>1, FS_Interval
<1>6. TotalOf[f] <= n
  <2>1. PICK t \in Nat, e \in Nat, r \in Nat :
          t = TotalOf[f] /\ e = FecOf[f] /\ r = Video!Fec(f) /\ e <= r
    BY <1>1, <1>3
  <2>2. n = (t - e) + r
    BY <1>4, <2>1 DEF Video!Source
  <2> QED
    BY <2>1, <2>2
<1>7. Slots(f) = 0 .. n - 1
  <2>1. PICK a \in Nat, b \in Nat : a = Video!Source(f) /\ b = Video!Fec(f) /\ n = a + b
    BY <1>2, <1>3, <1>4
  <2>2. a + (b - 1) = n - 1
    BY <2>1
  <2>3. Slots(f) = 0 .. a + (b - 1)
    BY <2>1 DEF Slots
  <2> QED
    BY <2>2, <2>3
<1>8. 0 .. TotalOf[f] - 1 \subseteq 0 .. n - 1 /\ 0 .. n - 1 \in SUBSET Nat
  BY <1>1, <1>6
<1> QED
  BY <1>2, <1>3, <1>4, <1>5, <1>7, <1>8

\* The fields of a frame processor, whatever frame its slots are of.
Typed(p) ==
  /\ p = [source |-> p.source, fec |-> p.fec, gotSource |-> p.gotSource, gotFec |-> p.gotFec,
          slots |-> p.slots, size |-> p.size, flushed |-> p.flushed]
  /\ p.source \in Nat /\ p.fec \in Nat /\ p.gotSource \in Nat /\ p.gotFec \in Nat
  /\ p.size \in 0 .. 2 /\ p.flushed \in BOOLEAN
  /\ p.slots \in [DOMAIN p.slots -> (0 .. MaxVideo) \cup {-1}]

\* The processor holds units of frame f.  It counts those that came, which are
\* all it holds until FEC restores some.
HeldSource(p) == {u \in Video!Filled(p) : u < p.source}
HeldFec(p) == {u \in Video!Filled(p) : u >= p.source}
Exact(p) == p.gotSource = Cardinality(HeldSource(p))
Holds(p, f) ==
  /\ Typed(p)
  /\ p.source = Video!Source(f) /\ p.fec = Video!Fec(f) /\ p.flushed = FALSE
  /\ p.slots \in [Slots(f) -> {-1, f}]
  /\ p.gotSource <= Cardinality(HeldSource(p)) /\ p.gotFec = Cardinality(HeldFec(p))

\* What it counts is what is filled; what is missing are the other slots.
LEMMA HoldsCounts ==
  ASSUME NEW f \in 0 .. MaxVideo, NEW p, Holds(p, f)
  PROVE  /\ DOMAIN p.slots = Slots(f) /\ Video!Filled(p) \in SUBSET Slots(f)
         /\ \A u \in Video!Filled(p) : p.slots[u] = f
         /\ IsFiniteSet(HeldSource(p)) /\ IsFiniteSet(HeldFec(p))
         /\ p.gotSource \in Nat /\ p.gotFec \in Nat
         /\ p.gotSource <= p.source /\ p.gotFec <= p.fec
         /\ Exact(p) => Video!Missing(p) = Video!Erasures(p)
<1>1. PICK s \in Nat \ {0}, c \in Nat \ {0} : s = p.source /\ c = p.fec /\ Slots(f) = 0 .. s + c - 1
  BY SlotsAre DEF Holds, Slots
<1>2. IsFiniteSet(Slots(f)) /\ Cardinality(Slots(f)) = s + c
  BY <1>1, SlotsAre DEF Holds
<1>3. DOMAIN p.slots = Slots(f)
  BY DEF Holds
<1>4. PICK F : F = Video!Filled(p)
  OBVIOUS
<1>5. F = {u \in Slots(f) : p.slots[u] # -1}
  BY <1>3, <1>4, VideoNumbers DEF Video!Filled
<1>6. F \in SUBSET Slots(f) /\ \A u \in F : p.slots[u] = f
  BY <1>5 DEF Holds
<1>7. PICK A, B : A = {u \in F : u < s} /\ B = {u \in F : u >= s} /\ A = HeldSource(p) /\ B = HeldFec(p)
  BY <1>1, <1>4 DEF HeldSource, HeldFec
<1>8. A \in SUBSET (0 .. s - 1) /\ B \in SUBSET (s .. s + c - 1) /\ A \cup B = F /\ A \cap B = {}
  <2>1. \A u \in F : u \in 0 .. s + c - 1 /\ u \in Int
    BY <1>1, <1>6
  <2>2. A \in SUBSET (0 .. s - 1) /\ B \in SUBSET (s .. s + c - 1)
    BY <1>7, <2>1
  <2>3. A \cup B = F
    BY <1>7, <2>1
  <2>4. A \cap B = {}
    BY <1>7, <2>1
  <2> QED
    BY <2>2, <2>3, <2>4
<1>9. /\ IsFiniteSet(A) /\ Cardinality(A) <= s
  <2>1. PICK I : I = 0 .. s - 1
    OBVIOUS
  <2>2. IsFiniteSet(I) /\ Cardinality(I) = s
    <3>1. 0 \in Int /\ s - 1 \in Int /\ ~(0 > s - 1) /\ s - 1 - 0 + 1 = s
      OBVIOUS
    <3> QED
      BY <2>1, <3>1, FS_Interval
  <2>3. A \in SUBSET I
    BY <1>8, <2>1
  <2>4. IsFiniteSet(A) /\ Cardinality(A) <= Cardinality(I)
    BY <2>2, <2>3, FS_Subset
  <2> QED
    BY <2>2, <2>4
<1>10. /\ IsFiniteSet(B) /\ Cardinality(B) <= c
  <2>1. PICK I : I = s .. s + c - 1
    OBVIOUS
  <2>2. IsFiniteSet(I) /\ Cardinality(I) = c
    <3>1. s \in Int /\ s + c - 1 \in Int /\ ~(s > s + c - 1) /\ s + c - 1 - s + 1 = c
      OBVIOUS
    <3> QED
      BY <2>1, <3>1, FS_Interval
  <2>3. B \in SUBSET I
    BY <1>8, <2>1
  <2>4. IsFiniteSet(B) /\ Cardinality(B) <= Cardinality(I)
    BY <2>2, <2>3, FS_Subset
  <2> QED
    BY <2>2, <2>4
<1>11. Cardinality(A) \in Nat /\ Cardinality(B) \in Nat
  BY <1>9, <1>10, FS_CardinalityType
<1>12. Cardinality(F) = Cardinality(A) + Cardinality(B)
  <2>1. Cardinality(A \cup B) = Cardinality(A) + Cardinality(B) - Cardinality(A \cap B)
    BY <1>9, <1>10, FS_Union
  <2>2. Cardinality(A \cap B) = 0
    BY <1>8, FS_EmptySet
  <2>3. PICK x \in Nat, y \in Nat : x = Cardinality(A) /\ y = Cardinality(B)
    BY <1>11
  <2>4. Cardinality(F) = x + y - 0
    BY <1>8, <2>1, <2>2, <2>3
  <2> QED
    BY <2>3, <2>4
<1>13. Cardinality(Slots(f) \ F) = s + c - Cardinality(F)
  <2>1. PICK R : R = Slots(f) \ F
    OBVIOUS
  <2>2. IsFiniteSet(R) /\ IsFiniteSet(F)
    BY <1>2, <1>6, <2>1, FS_Subset
  <2>3. Cardinality(F \cup R) = Cardinality(F) + Cardinality(R) - Cardinality(F \cap R)
    BY <2>2, FS_Union
  <2>4. F \cup R = Slots(f) /\ F \cap R = {}
    BY <1>6, <2>1
  <2>5. Cardinality(F \cap R) = 0
    BY <2>4, FS_EmptySet
  <2>6. Cardinality(F) \in Nat /\ Cardinality(R) \in Nat
    BY <2>2, FS_CardinalityType
  <2>7. s + c = Cardinality(F) + Cardinality(R) - 0
    BY <1>2, <2>3, <2>4, <2>5
  <2> QED
    BY <2>1, <2>6, <2>7
<1>14. p.gotSource <= Cardinality(A) /\ p.gotFec = Cardinality(B)
  BY <1>7 DEF Holds
<1>15. Exact(p) => Video!Missing(p) = Video!Erasures(p)
  <2>1. Video!Missing(p) = Cardinality(Slots(f) \ F)
    BY <1>1, <1>4, VideoCardinality DEF Video!Missing
  <2>2. Video!Erasures(p) = s + c - (p.gotSource + p.gotFec)
    BY <1>1 DEF Video!Erasures
  <2>3. Exact(p) => p.gotSource = Cardinality(A)
    BY <1>7 DEF Exact
  <2> QED
    BY <1>12, <1>13, <1>14, <2>1, <2>2, <2>3
<1>16. p.gotSource \in Nat /\ p.gotFec \in Nat /\ p.gotSource <= p.source /\ p.gotFec <= p.fec
  <2>1. p.gotSource \in Nat /\ p.gotFec \in Nat
    BY DEF Holds, Typed
  <2>2. PICK a \in Nat, b \in Nat : a = Cardinality(A) /\ b = Cardinality(B) /\ a <= s /\ b <= c
    BY <1>9, <1>10, <1>11
  <2> QED
    BY <1>1, <1>14, <2>1, <2>2
<1> QED
  BY <1>1, <1>3, <1>4, <1>6, <1>7, <1>9, <1>10, <1>15, <1>16

\* The slots are cleared for a frame, or stay, or are lost.
Blank(q, f, S) ==
  /\ q.source = Video!Source(f) /\ q.fec = Video!Fec(f) /\ q.flushed = FALSE
  /\ q.gotSource = 0 /\ q.gotFec = 0 /\ q.slots = S

LEMMA ClearedIs ==
  ASSUME NEW f \in 0 .. MaxVideo, NEW p, Typed(p), NEW u, NEW S,
         S \in [DOMAIN S -> (0 .. MaxVideo) \cup {-1}]
  PROVE  /\ Typed(Video!Expect(p, f, u)) /\ Typed(Video!Cleared(p, f, u, S))
         /\ Blank(Video!Cleared(p, f, u, S), f, S)
<1>1. PICK n : n = Video!DataSize(f, u)
  OBVIOUS
<1>2. n \in 0 .. 2
  BY <1>1 DEF Video!DataSize
<1>3. Video!Source(f) \in Nat /\ Video!Fec(f) \in Nat
  BY SlotsAre
<1>4. PICK e : e = Video!Expect(p, f, u)
  OBVIOUS
<1>5. PICK q : q = Video!Cleared(p, f, u, S)
  OBVIOUS
<1>6. e = [p EXCEPT !.source = Video!Source(f), !.fec = Video!Fec(f), !.size = n, !.flushed = FALSE]
  BY <1>1, <1>4 DEF Video!Expect
<1>7. q = [e EXCEPT !.gotSource = 0, !.gotFec = 0, !.slots = S]
  BY <1>4, <1>5 DEF Video!Cleared
<1>8. /\ e.source = Video!Source(f) /\ e.fec = Video!Fec(f) /\ e.size = n /\ e.flushed = FALSE
      /\ e.gotSource = p.gotSource /\ e.gotFec = p.gotFec /\ e.slots = p.slots
      /\ e = [source |-> e.source, fec |-> e.fec, gotSource |-> e.gotSource, gotFec |-> e.gotFec,
              slots |-> e.slots, size |-> e.size, flushed |-> e.flushed]
  BY <1>6 DEF Typed
<1>9. /\ q.source = e.source /\ q.fec = e.fec /\ q.size = n /\ q.flushed = FALSE
      /\ q.gotSource = 0 /\ q.gotFec = 0 /\ q.slots = S
      /\ q = [source |-> q.source, fec |-> q.fec, gotSource |-> q.gotSource, gotFec |-> q.gotFec,
              slots |-> q.slots, size |-> q.size, flushed |-> q.flushed]
  BY <1>7, <1>8
<1>10. Typed(e)
  BY <1>2, <1>3, <1>8 DEF Typed
<1>11. Typed(q)
  <2>1. q.slots \in [DOMAIN q.slots -> (0 .. MaxVideo) \cup {-1}]
    BY <1>9
  <2>2. /\ q.source \in Nat /\ q.fec \in Nat /\ q.gotSource \in Nat /\ q.gotFec \in Nat
        /\ q.size \in 0 .. 2 /\ q.flushed \in BOOLEAN
    <3>1. q.source = Video!Source(f) /\ q.fec = Video!Fec(f) /\ q.size = n /\ q.flushed = FALSE
          /\ q.gotSource = 0 /\ q.gotFec = 0
      BY <1>8, <1>9
    <3>2. q.flushed \in BOOLEAN
      BY <3>1, Zenon
    <3> QED
      BY <1>2, <1>3, <3>1, <3>2
  <2> QED
    BY <1>9, <2>1, <2>2 DEF Typed
<1>12. Blank(q, f, S)
  BY <1>8, <1>9 DEF Blank
<1> QED
  BY <1>4, <1>5, <1>10, <1>11, <1>12

LEMMA AllocHolds ==
  ASSUME NEW f \in 0 .. MaxVideo, NEW p, Typed(p), NEW u, NEW luck
  PROVE  /\ Typed(Video!AllocFrame(p, f, u, luck))
         /\ Video!Ground(p, f, u, luck) \in {"own", "stale", "undefined"}
         /\ Video!Ground(p, f, u, luck) = "own" =>
              /\ Holds(Video!AllocFrame(p, f, u, luck), f) /\ Exact(Video!AllocFrame(p, f, u, luck))
              /\ ~Video!FlushPossible(Video!AllocFrame(p, f, u, luck))
<1> DEFINE A == Video!AllocFrame(p, f, u, luck)
           N == Video!Source(f) + Video!Fec(f)
           a == Video!Allocates(p, f, u, luck)
           b == Video!BadCounts(f, u)
           c == Video!TooSmall(f, u)
           d == Video!TooMany(f)
<1>1. A = CASE a -> Video!Cleared(p, f, u, Video!Empty(N))
            [] b -> p
            [] ~b /\ c -> Video!Expect(p, f, u)
            [] ~b /\ ~c /\ d -> Video!Cleared(p, f, u, p.slots)
            [] OTHER -> Video!Cleared(p, f, u, Video!Empty(0))
  BY Zenon DEF Video!AllocFrame
<1>2. a => ~b /\ ~c /\ ~d
  BY DEF Video!Allocates
<1>3. Video!Ground(p, f, u, luck) = IF ~a THEN "stale" ELSE IF luck = "no buffer" THEN "undefined" ELSE "own"
  BY DEF Video!Ground
<1>4. N \in Nat /\ Slots(f) = 0 .. N - 1
  <2>1. PICK s \in Nat, t \in Nat : s = Video!Source(f) /\ t = Video!Fec(f)
    BY SlotsAre
  <2>2. s + (t - 1) = s + t - 1
    BY <2>1
  <2> QED
    BY <2>1, <2>2 DEF Slots
<1>5. Video!Empty(N) = [v \in Slots(f) |-> -1] /\ Video!Empty(0) = [v \in 0 .. 0 - 1 |-> -1]
  BY <1>4, VideoNumbers DEF Video!Empty
<1> HIDE DEF A, N, a, b, c, d
<1>6. a => A = Video!Cleared(p, f, u, Video!Empty(N))
  BY <1>1, <1>2, Zenon
<1>7. b => A = p
  BY <1>1, <1>2, Zenon
<1>8. ~b /\ c => A = Video!Expect(p, f, u)
  BY <1>1, <1>2, Zenon
<1>9. ~a /\ ~b /\ ~c /\ d => A = Video!Cleared(p, f, u, p.slots)
  BY <1>1, Zenon
<1>10. ~a /\ ~b /\ ~c /\ ~d => A = Video!Cleared(p, f, u, Video!Empty(0))
  BY <1>1, Zenon
<1>11. PICK E, e : E = Video!Empty(N) /\ e = Video!Empty(0)
  OBVIOUS
<1>12. /\ E \in [DOMAIN E -> (0 .. MaxVideo) \cup {-1}] /\ e \in [DOMAIN e -> (0 .. MaxVideo) \cup {-1}]
       /\ E = [v \in Slots(f) |-> -1]
  BY <1>5, <1>11
<1>13. Typed(Video!Expect(p, f, u)) /\ Typed(Video!Cleared(p, f, u, E))
  BY <1>12, ClearedIs
<1>14. Typed(Video!Cleared(p, f, u, e))
  BY <1>12, ClearedIs
<1>15. Typed(Video!Cleared(p, f, u, p.slots))
  <2>1. PICK T : T = p.slots /\ T \in [DOMAIN T -> (0 .. MaxVideo) \cup {-1}]
    BY DEF Typed
  <2>2. Typed(Video!Cleared(p, f, u, T))
    BY <2>1, ClearedIs
  <2> QED
    BY <2>1, <2>2
<1>16. Typed(A)
  BY <1>6, <1>7, <1>8, <1>9, <1>10, <1>11, <1>13, <1>14, <1>15, Zenon
<1>17. ASSUME a PROVE Holds(A, f) /\ Exact(A) /\ ~Video!FlushPossible(A)
  <2>1. PICK q : q = A
    OBVIOUS
  <2>2. q = Video!Cleared(p, f, u, E)
    BY <1>6, <1>11, <1>17, <2>1
  <2>3. /\ q.source = Video!Source(f) /\ q.fec = Video!Fec(f) /\ q.flushed = FALSE
        /\ q.gotSource = 0 /\ q.gotFec = 0 /\ q.slots = E
    <3>1. E \in [DOMAIN E -> (0 .. MaxVideo) \cup {-1}]
      BY <1>12
    <3>2. Blank(Video!Cleared(p, f, u, E), f, E)
      BY <3>1, ClearedIs
    <3> QED
      BY <2>2, <3>2 DEF Blank
  <2>4. Video!Filled(q) = {}
    BY <1>12, <2>3, VideoNumbers DEF Video!Filled
  <2>5. HeldSource(q) = {} /\ HeldFec(q) = {}
    BY <2>4 DEF HeldSource, HeldFec
  <2>6. Cardinality(HeldSource(q)) = 0 /\ Cardinality(HeldFec(q)) = 0
    BY <2>5, FS_EmptySet
  <2>7. q.slots \in [Slots(f) -> {-1, f}]
    BY <1>12, <2>3
  <2>8. Holds(q, f) /\ Exact(q)
    BY <1>16, <2>1, <2>3, <2>6, <2>7 DEF Holds, Exact
  <2>9. Video!Source(f) \in Nat \ {0}
    BY SlotsAre
  <2>10. ~Video!FlushPossible(q)
    BY <2>3, <2>9 DEF Video!FlushPossible
  <2> QED
    BY <2>1, <2>8, <2>10
<1>18. Video!Ground(p, f, u, luck) \in {"own", "stale", "undefined"}
  BY <1>3
<1>19. Video!Ground(p, f, u, luck) = "own" => a
  BY <1>3
<1> QED
  BY <1>16, <1>17, <1>18, <1>19 DEF A

\* A unit is put into its slot, unless it is refused or there.
LEMMA PutIs ==
  ASSUME NEW p, Typed(p), NEW f \in 0 .. MaxVideo, NEW u \in DOMAIN p.slots, NEW q,
         q = Video!Put(p, u, f)
  PROVE  /\ Typed(q) /\ q.source = p.source /\ q.fec = p.fec /\ q.flushed = p.flushed
         /\ q.slots = [p.slots EXCEPT ![u] = f]
         /\ q.gotSource = IF u < p.source THEN p.gotSource + 1 ELSE p.gotSource
         /\ q.gotFec = IF u < p.source THEN p.gotFec ELSE p.gotFec + 1
<1>1. q = [p EXCEPT !.slots = [p.slots EXCEPT ![u] = f],
                    !.gotSource = IF u < p.source THEN @ + 1 ELSE @,
                    !.gotFec = IF u < p.source THEN @ ELSE @ + 1]
  BY DEF Video!Put
<1>2. /\ q.source = p.source /\ q.fec = p.fec /\ q.flushed = p.flushed /\ q.size = p.size
      /\ q.slots = [p.slots EXCEPT ![u] = f]
      /\ q.gotSource = IF u < p.source THEN p.gotSource + 1 ELSE p.gotSource
      /\ q.gotFec = IF u < p.source THEN p.gotFec ELSE p.gotFec + 1
      /\ q = [source |-> q.source, fec |-> q.fec, gotSource |-> q.gotSource, gotFec |-> q.gotFec,
              slots |-> q.slots, size |-> q.size, flushed |-> q.flushed]
  BY <1>1 DEF Typed
<1>3. q.slots \in [DOMAIN q.slots -> (0 .. MaxVideo) \cup {-1}]
  BY <1>2 DEF Typed
<1>4. q.source \in Nat /\ q.fec \in Nat /\ q.size \in 0 .. 2
  BY <1>2 DEF Typed
<1>5. q.flushed \in BOOLEAN
  BY <1>2, Zenon DEF Typed
<1>6. q.gotSource \in Nat /\ q.gotFec \in Nat
  BY <1>2 DEF Typed
<1> QED
  BY <1>2, <1>3, <1>4, <1>5, <1>6 DEF Typed

\* So the processor goes on holding the units of the frame, and counting them.
LEMMA PutHolds ==
  ASSUME NEW f \in 0 .. MaxVideo, NEW p, Typed(p), NEW u \in Nat
  PROVE  /\ Typed(Video!PutUnit(p, u, f))
         /\ Holds(p, f) => Holds(Video!PutUnit(p, u, f), f)
         /\ Holds(p, f) /\ Exact(p) => Exact(Video!PutUnit(p, u, f))
<1>1. PICK q : q = Video!PutUnit(p, u, f)
  OBVIOUS
<1>2. CASE ~Video!Refuses(p, u, f) /\ u \in DOMAIN p.slots /\ p.slots[u] = -1
  <2>1. q = Video!Put(p, u, f)
    BY <1>1, <1>2, VideoNumbers DEF Video!PutUnit
  <2>2. /\ Typed(q) /\ q.source = p.source /\ q.fec = p.fec /\ q.flushed = p.flushed
        /\ q.slots = [p.slots EXCEPT ![u] = f]
        /\ q.gotSource = IF u < p.source THEN p.gotSource + 1 ELSE p.gotSource
        /\ q.gotFec = IF u < p.source THEN p.gotFec ELSE p.gotFec + 1
    BY <1>2, <2>1, PutIs
  <2>3. ASSUME Holds(p, f) PROVE Holds(q, f) /\ (Exact(p) => Exact(q))
    <3>1. /\ DOMAIN p.slots = Slots(f) /\ Video!Filled(p) \in SUBSET Slots(f)
          /\ IsFiniteSet(HeldSource(p)) /\ IsFiniteSet(HeldFec(p))
          /\ p.gotSource \in Nat /\ p.gotFec \in Nat
      BY <2>3, HoldsCounts
    <3>2. q.slots \in [Slots(f) -> {-1, f}]
      BY <1>2, <2>2, <2>3, <3>1 DEF Holds
    <3>3. f # -1 /\ p.source \in Nat /\ Slots(f) \in SUBSET Nat
      BY SlotsAre DEF Typed
    <3>4. Video!Filled(q) = Video!Filled(p) \cup {u} /\ u \notin Video!Filled(p)
      <4>1. DOMAIN q.slots = Slots(f) /\ \A v \in Slots(f) : q.slots[v] = IF v = u THEN f ELSE p.slots[v]
        BY <2>2, <3>1
      <4>2. Video!Filled(q) = {v \in Slots(f) : q.slots[v] # -1}
        BY <4>1, VideoNumbers DEF Video!Filled
      <4>3. Video!Filled(p) = {v \in Slots(f) : p.slots[v] # -1}
        BY <3>1, VideoNumbers DEF Video!Filled
      <4> QED
        BY <1>2, <3>1, <3>3, <4>1, <4>2, <4>3
    <3>5. IsFiniteSet(HeldSource(p)) => Cardinality(HeldSource(p)) \in Nat
      BY FS_CardinalityType
    <3>6. CASE u < p.source
      <4>1. HeldSource(q) = HeldSource(p) \cup {u} /\ u \notin HeldSource(p)
        BY <2>2, <3>4, <3>6 DEF HeldSource
      <4>2. HeldFec(q) = HeldFec(p)
        BY <2>2, <3>3, <3>4, <3>6 DEF HeldFec
      <4>3. Cardinality(HeldSource(q)) = Cardinality(HeldSource(p)) + 1
        BY <3>1, <4>1, FS_AddElement
      <4>4. q.gotSource = p.gotSource + 1 /\ q.gotFec = p.gotFec
        BY <2>2, <3>6
      <4>5. q.gotSource <= Cardinality(HeldSource(q)) /\ q.gotFec = Cardinality(HeldFec(q))
        BY <2>3, <3>1, <3>5, <4>2, <4>3, <4>4 DEF Holds
      <4> QED
        BY <2>2, <2>3, <3>2, <4>3, <4>4, <4>5 DEF Holds, Exact
    <3>7. CASE ~(u < p.source)
      <4>1. HeldFec(q) = HeldFec(p) \cup {u} /\ u \notin HeldFec(p)
        BY <2>2, <3>3, <3>4, <3>7 DEF HeldFec
      <4>2. HeldSource(q) = HeldSource(p)
        BY <2>2, <3>4, <3>7 DEF HeldSource
      <4>3. Cardinality(HeldFec(q)) = Cardinality(HeldFec(p)) + 1
        BY <3>1, <4>1, FS_AddElement
      <4>4. q.gotSource = p.gotSource /\ q.gotFec = p.gotFec + 1
        BY <2>2, <3>7
      <4>5. q.gotSource <= Cardinality(HeldSource(q)) /\ q.gotFec = Cardinality(HeldFec(q))
        BY <2>3, <4>2, <4>3, <4>4 DEF Holds
      <4> QED
        BY <2>2, <2>3, <3>2, <4>2, <4>4, <4>5 DEF Holds, Exact
    <3> QED
      BY <3>6, <3>7
  <2> QED
    BY <1>1, <2>2, <2>3
<1>3. CASE ~(~Video!Refuses(p, u, f) /\ u \in DOMAIN p.slots /\ p.slots[u] = -1)
  <2>1. q = p
    BY <1>1, <1>3, VideoNumbers DEF Video!PutUnit
  <2> QED
    BY <1>1, <2>1
<1> QED
  BY <1>2, <1>3

\* FEC fills slots of missing units; what came is as it was counted.
LEMMA RestoredHolds ==
  ASSUME NEW f \in 0 .. MaxVideo, NEW p, Typed(p)
  PROVE  /\ Typed(Video!Restored(p, f))
         /\ Holds(p, f) => Holds(Video!Restored(p, f), f)
<1>1. PICK q : q = Video!Restored(p, f)
  OBVIOUS
<1> DEFINE Fills(u) == u < p.source /\ p.slots[u] = Video!Nobody /\ ~Video!Flawed(f, u, "padding")
           S == [u \in DOMAIN p.slots |-> IF Fills(u) THEN f ELSE p.slots[u]]
<1>2. q = [p EXCEPT !.slots = S]
  BY <1>1, Zenon DEF Video!Restored
<1>3. /\ DOMAIN S = DOMAIN p.slots
      /\ \A u \in DOMAIN p.slots : /\ S[u] = p.slots[u] \/ (S[u] = f /\ p.slots[u] = -1 /\ u < p.source)
  BY VideoNumbers
<1> HIDE DEF S, Fills
<1>4. /\ q.source = p.source /\ q.fec = p.fec /\ q.flushed = p.flushed /\ q.size = p.size
      /\ q.slots = S /\ q.gotSource = p.gotSource /\ q.gotFec = p.gotFec
      /\ q = [source |-> q.source, fec |-> q.fec, gotSource |-> q.gotSource, gotFec |-> q.gotFec,
              slots |-> q.slots, size |-> q.size, flushed |-> q.flushed]
  BY <1>2 DEF Typed
<1>5. S = [u \in DOMAIN p.slots |-> S[u]]
  BY DEF S
<1>6. Typed(q)
  <2>1. q.slots \in [DOMAIN q.slots -> (0 .. MaxVideo) \cup {-1}]
    <3>1. \A u \in DOMAIN p.slots : S[u] \in (0 .. MaxVideo) \cup {-1}
      BY <1>3 DEF Typed
    <3> QED
      BY <1>3, <1>4, <1>5, <3>1
  <2>2. q.source \in Nat /\ q.fec \in Nat /\ q.size \in 0 .. 2 /\ q.gotSource \in Nat /\ q.gotFec \in Nat
    BY <1>4 DEF Typed
  <2>3. q.flushed \in BOOLEAN
    BY <1>4, Zenon DEF Typed
  <2> QED
    BY <1>4, <2>1, <2>2, <2>3 DEF Typed
<1>7. ASSUME Holds(p, f) PROVE Holds(q, f)
  <2>1. /\ DOMAIN p.slots = Slots(f) /\ Slots(f) \in SUBSET Nat /\ IsFiniteSet(Slots(f))
        /\ p.gotSource \in Nat /\ p.source \in Nat
    BY <1>7, HoldsCounts, SlotsAre DEF Typed
  <2>2. q.slots \in [Slots(f) -> {-1, f}]
    <3>1. \A u \in DOMAIN p.slots : S[u] \in {-1, f}
      BY <1>3, <1>7, <2>1 DEF Holds
    <3> QED
      BY <1>4, <1>5, <2>1, <3>1
  <2>3. /\ Video!Filled(q) = {u \in Slots(f) : S[u] # -1}
        /\ Video!Filled(p) = {u \in Slots(f) : p.slots[u] # -1}
    BY <1>3, <1>4, <2>1, VideoNumbers DEF Video!Filled
  <2>4. f # -1
    OBVIOUS
  <2>5. HeldSource(p) \in SUBSET HeldSource(q)
    <3>1. \A u \in Video!Filled(p) : u \in Video!Filled(q)
      BY <1>3, <2>1, <2>3, <2>4
    <3> QED
      BY <1>4, <3>1 DEF HeldSource
  <2>6. HeldFec(q) = HeldFec(p)
    <3>1. \A u \in Slots(f) : u >= p.source => S[u] = p.slots[u]
      BY <1>3, <2>1
    <3> QED
      BY <1>4, <2>3, <3>1 DEF HeldFec
  <2>7. IsFiniteSet(HeldSource(q))
    <3>1. HeldSource(q) \in SUBSET Slots(f)
      BY <2>3 DEF HeldSource
    <3> QED
      BY <2>1, <3>1, FS_Subset
  <2>8. IsFiniteSet(HeldSource(p)) /\ Cardinality(HeldSource(p)) <= Cardinality(HeldSource(q))
    BY <2>5, <2>7, FS_Subset
  <2>9. PICK a \in Nat, b \in Nat : a = Cardinality(HeldSource(p)) /\ b = Cardinality(HeldSource(q))
    BY <2>7, <2>8, FS_CardinalityType
  <2>10. q.gotSource <= Cardinality(HeldSource(q)) /\ q.gotFec = Cardinality(HeldFec(q))
    BY <1>4, <1>7, <2>1, <2>6, <2>8, <2>9 DEF Holds
  <2> QED
    BY <1>4, <1>6, <1>7, <2>2, <2>10 DEF Holds
<1> QED
  BY <1>1, <1>6, <1>7

\* A frame is decoded only if no more is missing than redundancy replaces, and
\* never before as many units came as it has.
LEMMA ResultIs ==
  ASSUME NEW f \in 0 .. MaxVideo, NEW p, Holds(p, f), Exact(p), NEW luck
  PROVE  /\ Video!FlushResult(p, luck) # "failed"
         /\ ~Video!FlushPossible(p) => Video!FlushResult(p, luck) = "fec_failed"
         /\ Video!FlushResult(p, luck) # "fec_failed" => Video!Missing(p) <= p.fec
<1>1. /\ p.gotSource \in Nat /\ p.gotFec \in Nat /\ p.gotSource <= p.source
      /\ Video!Missing(p) = p.source + p.fec - (p.gotSource + p.gotFec)
      /\ Video!Missing(p) = Video!Erasures(p)
  BY HoldsCounts DEF Video!Erasures
<1>2. p.source \in Nat \ {0} /\ p.fec \in Nat \ {0} /\ p.flushed = FALSE
  BY SlotsAre DEF Holds
<1>3. PICK m : m = Video!Missing(p)
  OBVIOUS
<1>4. m = p.source + p.fec - (p.gotSource + p.gotFec) /\ m \in Int
  BY <1>1, <1>2, <1>3
<1>5. Video!FecDecodes(p, luck) => m <= p.fec
  BY <1>1, <1>3 DEF Video!FecDecodes
<1>6. PICK r : r = Video!FlushResult(p, luck)
  OBVIOUS
<1>7. ~(p.source = 0 \/ p.flushed)
  BY <1>2
<1>8. p.gotSource >= p.source => r = "success" \/ r = "fec_success"
  BY <1>6, <1>7 DEF Video!FlushResult
<1>9. ~(p.gotSource >= p.source) /\ Video!FecDecodes(p, luck) => r = "fec_success"
  BY <1>6, <1>7 DEF Video!FlushResult
<1>10. ~(p.gotSource >= p.source) /\ ~Video!FecDecodes(p, luck) => r = "fec_failed"
  BY <1>6, <1>7 DEF Video!FlushResult
<1>11. r # "failed"
  BY <1>8, <1>9, <1>10
<1>12. p.gotSource >= p.source => m <= p.fec
  BY <1>1, <1>2, <1>4
<1>13. ~Video!FlushPossible(p) => ~(p.gotSource >= p.source) /\ ~(m <= p.fec)
  BY <1>1, <1>2, <1>4 DEF Video!FlushPossible
<1>14. r # "fec_failed" => m <= p.fec
  BY <1>5, <1>9, <1>10, <1>12
<1>15. ~Video!FlushPossible(p) => r = "fec_failed"
  BY <1>5, <1>10, <1>13
<1> QED
  BY <1>3, <1>6, <1>11, <1>14, <1>15

(***************************************************************************)
(* The video receiver                                                      *)
(***************************************************************************)
\* The greatest member of a set of frames, and 0 of none.
Greatest(W) == IF W = {} THEN 0 ELSE CHOOSE f \in W : \A g \in W : g <= f

\* Some frame of a bounded set is the greatest.
LEMMA GreatestIs ==
  ASSUME NEW n \in Nat, NEW W \in SUBSET (1 .. n)
  PROVE  /\ Greatest(W) \in 0 .. n /\ W \subseteq 1 .. Greatest(W)
         /\ W # {} => Greatest(W) \in W
<1>1. CASE W = {}
  BY <1>1 DEF Greatest
<1>2. CASE W # {}
  <2> DEFINE D == {m \in 0 .. n : n - m \in W}
  <2>1. D \in SUBSET Nat /\ D # {}
    <3>1. PICK k \in W : TRUE
      BY <1>2
    <3>2. n - k \in 0 .. n /\ n - (n - k) = k
      BY <3>1
    <3>3. n - k \in D
      BY <3>1, <3>2
    <3>4. D \in SUBSET Nat
      OBVIOUS
    <3> QED
      BY <3>3, <3>4
  <2>2. PICK m \in D : \A k \in D : m <= k
    BY <2>1, LeastExists
  <2>3. n - m \in W /\ \A g \in W : g <= n - m
    <3>1. ASSUME NEW g \in W PROVE g <= n - m
      <4>1. g \in 1 .. n /\ n - g \in 0 .. n /\ n - (n - g) = g
        OBVIOUS
      <4>2. n - g \in D
        BY <4>1
      <4> QED
        BY <2>2, <4>1, <4>2
    <3> QED
      BY <2>2, <3>1
  <2>4. Greatest(W) \in W /\ \A g \in W : g <= Greatest(W)
    <3>1. \E g \in W : \A h \in W : h <= g
      BY <2>3
    <3>2. PICK c : c = CHOOSE g \in W : \A h \in W : h <= g
      OBVIOUS
    <3>3. c \in W /\ \A h \in W : h <= c
      BY <3>1, <3>2
    <3>4. Greatest(W) = c
      BY <1>2, <3>2 DEF Greatest
    <3> QED
      BY <3>3, <3>4
  <2> HIDE DEF D
  <2>5. PICK c \in W : c = Greatest(W) /\ \A g \in W : g <= c
    BY <2>4
  <2>6. c \in 1 .. n /\ \A g \in W : g \in 1 .. n /\ g <= c
    BY <2>5
  <2>7. W \subseteq 1 .. c
    BY <2>6
  <2> QED
    BY <2>5, <2>6, <2>7
<1> QED
  BY <1>1, <1>2

\* A later frame becomes the greatest.
LEMMA GreatestAdded ==
  ASSUME NEW n \in Nat \ {0}, NEW W \in SUBSET (1 .. n)
  PROVE  Greatest(W \cup {n}) = n
<1>1. PICK V : V = W \cup {n}
  OBVIOUS
<1>2. V \in SUBSET (1 .. n) /\ V # {} /\ n \in V
  BY <1>1
<1>3. Greatest(V) \in 1 .. n /\ V \subseteq 1 .. Greatest(V)
  BY <1>2, GreatestIs
<1> QED
  BY <1>1, <1>2, <1>3

\* The receiver's state while it handles a packet, field by field.
RxForm(r) ==
  r = [profiles |-> r.profiles, profile |-> r.profile, cur |-> r.cur, prev |-> r.prev,
       complete |-> r.complete]
Form(s) ==
  /\ s = [ground |-> s.ground, rx |-> s.rx, fp |-> s.fp, stats |-> s.stats, frame |-> s.frame,
          reported |-> s.reported, out |-> s.out]
  /\ RxForm(s.rx)

\* A sample of frame f, as the decoder is given it.  If the slots were its own,
\* they held units of that frame only, and all that matter if it counts as decoded.
Good(x, f) ==
  /\ x.frame = f /\ x.ok \in BOOLEAN /\ x.own \in BOOLEAN
  /\ x.own => /\ x.from \subseteq {f} /\ x.missing = x.erasures
              /\ x.ok => x.missing <= x.fec

\* s becomes t when x is handed over.
Flushed(s, t, x) ==
  /\ Form(t) /\ Typed(t.fp) /\ (s.ground = "own" => Holds(t.fp, s.frame))
  /\ t.ground = s.ground /\ t.stats = s.stats /\ t.frame = s.frame /\ t.reported = s.reported
  /\ t.rx.profiles = s.rx.profiles /\ t.rx.profile = s.rx.profile
  /\ t.rx.cur = s.rx.cur /\ t.rx.prev = s.rx.cur
  /\ t.rx.complete = IF x.ok THEN s.rx.cur ELSE s.rx.complete
  /\ t.out = Append(s.out, x) /\ x.header = s.rx.profile /\ (x.own <=> s.ground = "own")

\* A frame is handed over whole, or as one that was not decoded.  If the slots are
\* not its own it may not be handed over at all.
LEMMA FlushIs ==
  ASSUME NEW f \in 0 .. MaxVideo, NEW s, Form(s), s.frame = f, Typed(s.fp),
         s.ground = "own" => Holds(s.fp, f) /\ Exact(s.fp),
         NEW taken \in BOOLEAN, NEW luck, NEW t, t = Video!FlushFrame(s, taken, luck),
         t.ground # "undefined"
  PROVE  \/ t = s /\ s.ground # "own"
         \/ \E x : /\ Good(x, f) /\ Flushed(s, t, x)
                   /\ s.ground = "own" /\ ~Video!FlushPossible(s.fp) => ~x.ok
<1>1. PICK p, y : p = s.fp /\ y = s.rx
  OBVIOUS
<1>2. PICK r : r = Video!FlushResult(p, luck)
  OBVIOUS
<1>3. PICK x : x = Video!Sample(s, r, taken)
  OBVIOUS
<1>4. PICK q : q = IF r = "fec_success" THEN Video!Restored(p, f) ELSE p
  OBVIOUS
<1>5. /\ x.frame = f /\ x.ok = (r # "fec_failed" /\ taken) /\ x.header = y.profile
      /\ x.own = (s.ground = "own")
      /\ x.from = {p.slots[u] : u \in {v \in Video!Filled(p) : v < p.source}}
      /\ x.missing = Video!Missing(p) /\ x.erasures = Video!Erasures(p) /\ x.fec = p.fec
  BY <1>1, <1>3 DEF Video!Sample
<1>6. ASSUME s.ground = "own"
      PROVE  /\ r # "failed" /\ (~Video!FlushPossible(p) => r = "fec_failed")
             /\ (r # "fec_failed" => Video!Missing(p) <= p.fec)
             /\ Video!Missing(p) = Video!Erasures(p) /\ x.from \subseteq {f}
  <2>1. Holds(p, f) /\ Exact(p)
    BY <1>1, <1>6
  <2>2. /\ r # "failed" /\ (~Video!FlushPossible(p) => r = "fec_failed")
        /\ (r # "fec_failed" => Video!Missing(p) <= p.fec)
    BY <1>2, <2>1, ResultIs
  <2>3. Video!Missing(p) = Video!Erasures(p) /\ \A u \in Video!Filled(p) : p.slots[u] = f
    BY <2>1, HoldsCounts
  <2>4. x.from \subseteq {f}
    BY <1>5, <2>3
  <2> QED
    BY <2>2, <2>3, <2>4
<1>7. Good(x, f)
  <2>1. x.ok \in BOOLEAN /\ x.own \in BOOLEAN
    BY <1>5, Zenon
  <2>2. x.own => s.ground = "own"
    BY <1>5
  <2>3. x.ok => r # "fec_failed"
    BY <1>5
  <2>4. x.own => x.from \subseteq {f} /\ x.missing = x.erasures /\ (x.ok => x.missing <= x.fec)
    BY <1>5, <1>6, <2>2, <2>3
  <2> QED
    BY <1>5, <2>1, <2>4 DEF Good
<1>8. Typed(q) /\ (s.ground = "own" => Holds(q, f))
  <2>1. Typed(Video!Restored(p, f)) /\ (Holds(p, f) => Holds(Video!Restored(p, f), f))
    BY <1>1, RestoredHolds
  <2>2. CASE r = "fec_success"
    <3>1. q = Video!Restored(p, f)
      BY <1>4, <2>2
    <3> QED
      BY <1>1, <2>1, <3>1
  <2>3. CASE r # "fec_success"
    <3>1. q = p
      BY <1>4, <2>3
    <3> QED
      BY <1>1, <3>1
  <2> QED
    BY <2>2, <2>3
<1>9. CASE r = "failed"
  <2>1. t = s
    BY <1>1, <1>2, <1>9 DEF Video!FlushFrame
  <2> QED
    BY <1>6, <1>9, <2>1
<1>10. CASE r # "failed"
  <2>1. ~(Video!LooksAt(p) > Video!Size(p))
    <3> SUFFICES ASSUME Video!LooksAt(p) > Video!Size(p) PROVE FALSE
      OBVIOUS
    <3>1. t = [s EXCEPT !.ground = "undefined"]
      BY <1>1, <1>2, <1>10 DEF Video!FlushFrame
    <3> QED
      BY <3>1 DEF Form
  <2>2. t = [s EXCEPT !.out = Append(@, x), !.fp = q, !.rx.prev = s.rx.cur,
                      !.rx.complete = IF x.ok THEN s.rx.cur ELSE @]
    BY <1>1, <1>2, <1>3, <1>4, <1>10, <2>1 DEF Video!FlushFrame
  <2>3. PICK z : z = [y EXCEPT !.prev = y.cur, !.complete = IF x.ok THEN y.cur ELSE y.complete]
    OBVIOUS
  <2>4. /\ z.profiles = y.profiles /\ z.profile = y.profile /\ z.cur = y.cur /\ z.prev = y.cur
        /\ z.complete = IF x.ok THEN y.cur ELSE y.complete
        /\ RxForm(z)
    BY <1>1, <2>3 DEF Form, RxForm
  <2>5. /\ t.rx = z /\ t.fp = q /\ t.stats = s.stats /\ t.frame = s.frame /\ t.ground = s.ground
        /\ t.reported = s.reported /\ t.out = Append(s.out, x)
        /\ t = [ground |-> t.ground, rx |-> t.rx, fp |-> t.fp, stats |-> t.stats, frame |-> t.frame,
                reported |-> t.reported, out |-> t.out]
    BY <1>1, <2>2, <2>3 DEF Form
  <2>6. Form(t)
    BY <2>4, <2>5 DEF Form
  <2>7. x.own <=> s.ground = "own"
    BY <1>5
  <2>8. Flushed(s, t, x)
    BY <1>1, <1>5, <1>8, <2>4, <2>5, <2>6, <2>7 DEF Flushed
  <2>9. s.ground = "own" /\ ~Video!FlushPossible(s.fp) => ~x.ok
    BY <1>1, <1>5, <1>6
  <2> QED
    BY <1>7, <2>8, <2>9
<1> QED
  BY <1>9, <1>10

Rx(r) ==
  /\ RxForm(r)
  /\ r.profiles \in {0, Profiles} /\ r.profile \in -1 .. Profiles
  /\ r.cur \in -1 .. SeqSpace - 1 /\ r.prev \in -1 .. SeqSpace - 1 /\ r.complete \in SeqNums

\* Of the frames up to f those of W were decoded: the receiver knows the latest of
\* them, and told the console of the others.
Told(W, complete, told, f) ==
  /\ f \in 0 .. MaxVideo /\ W \in SUBSET (1 .. f) /\ told = (1 .. f - 1) \ W
  /\ complete = Greatest(W) % SeqSpace /\ f - Greatest(W) <= Half
Known == Told(whole, rx.complete, reported, frame) /\ last \in 0 .. frame

\* The units of frame f are being collected in p, if the slots are its own; l was
\* handed over last.
Collects(g, r, p, f) ==
  /\ Typed(p)
  /\ g = "own" => /\ Holds(p, f)
                  /\ r.prev # r.cur => Exact(p) /\ ~Video!FlushPossible(p)
Expecting(g, r, p, f, l) ==
  /\ r.cur = f % SeqSpace /\ f > 0 /\ Collects(g, r, p, f)
  /\ l = f => r.prev = r.cur
Current ==
  /\ ground \in {"own", "stale", "undefined"}
  /\ IF rx.cur = -1 THEN fp = Video!FpInit /\ frame = 0 ELSE Expecting(ground, rx, fp, frame, last)

\* What the last packet made the receiver hand over.
Fit(x) == /\ x.frame \in 0 .. MaxVideo /\ Good(x, x.frame)
          /\ x.own /\ x.ok => x.header = ProfileOf[x.frame]
Shown == \A i \in DOMAIN out : Fit(out[i])
VideoInv == Rx(rx) /\ Known /\ Current /\ Shown

\* The number after that of frame g.
LEMMA AfterIs ==
  ASSUME NEW g \in Nat
  PROVE  Cast((g % SeqSpace) + 1) = (g + 1) % SeqSpace
<1>1. PICK c \in SeqNums, q \in Int : c = g % SeqSpace /\ g = c + q * SeqSpace
  BY Remainder
<1>2. PICK n \in Nat : n = SeqSpace /\ n > 0 /\ c \in 0 .. n - 1
  BY SpaceIs DEF SeqNums
<1>3. CASE c + 1 < n
  <2>1. c + 1 \in SeqNums /\ g + 1 = (c + 1) + q * SeqSpace
    BY <1>1, <1>2, <1>3 DEF SeqNums
  <2>2. (g + 1) % SeqSpace = c + 1
    BY <2>1, RemainderIs
  <2> QED
    BY <1>1, <1>2, <1>3, <2>2 DEF Cast
<1>4. CASE ~(c + 1 < n)
  <2>1. c + 1 = n
    BY <1>2, <1>4
  <2>2. g + 1 = 0 + (q + 1) * n
    BY <1>1, <1>2, <2>1
  <2>3. 0 \in SeqNums /\ q + 1 \in Int
    BY <1>2 DEF SeqNums
  <2>4. (0 + (q + 1) * SeqSpace) % SeqSpace = 0
    BY <2>3, RemainderIs
  <2>5. (g + 1) % SeqSpace = 0
    BY <1>2, <2>2, <2>4
  <2>6. Cast(c + 1) = 0
    BY <1>2, <1>4, <2>1 DEF Cast
  <2> QED
    BY <1>1, <2>5, <2>6
<1> QED
  BY <1>3, <1>4

\* How far a number is ahead, for frames nearer than the space.
LEMMA DistIs ==
  ASSUME NEW a \in Nat, NEW b \in Nat, b - a \in 0 .. SeqSpace - 1
  PROVE  Dist(a % SeqSpace, b % SeqSpace) = b - a
<1>1. PICK x \in SeqNums, y \in SeqNums : x = a % SeqSpace /\ y = b % SeqSpace
  BY Remainder
<1>2. y = x + (b - a) \/ y = x + (b - a) - SeqSpace
  <2>1. a \in Int /\ b \in Int
    OBVIOUS
  <2> QED
    BY <1>1, <2>1, NearRemainders
<1>3. x \in Int /\ y \in Int /\ y >= 0 /\ x >= 0 /\ x < SeqSpace /\ y < SeqSpace /\ SeqSpace \in Nat
  BY <1>1, SpaceIs DEF SeqNums
<1>4. PICK d \in 0 .. SeqSpace - 1 : d = b - a
  OBVIOUS
<1>5. Dist(x, y) = d
  BY <1>2, <1>3, <1>4 DEF Dist
<1> QED
  BY <1>1, <1>4, <1>5

\* The frames reported as corrupt are those after the last that was decoded.
LEMMA BeforeIs ==
  ASSUME NEW f \in 1 .. MaxVideo, NEW g \in Nat, g < f, f - g <= Half,
         NEW s, s.rx.complete = g % SeqSpace
  PROVE  Video!CorruptBefore(s, f) = g + 1 .. f - 1
<1>1. PICK e : e = Video!Cast(s.rx.complete + 1)
  OBVIOUS
<1>2. e = (g + 1) % SeqSpace
  BY <1>1, AfterIs, VideoNumbers
<1>3. f \in Nat /\ f - (g + 1) < Half /\ g + 1 - f < Half /\ f - (g + 1) \in 0 .. SeqSpace - 1
  BY SpaceIs, VideoConstants
<1>4. Video!SeqGt(f % SeqSpace, e) <=> f > g + 1
  <2>1. f \in Int /\ g + 1 \in Int
    BY <1>3
  <2>2. SeqGt(f % SeqSpace, (g + 1) % SeqSpace) <=> f > g + 1
    BY <1>3, <2>1, GtIs
  <2> QED
    BY <1>2, <2>2, VideoNumbers
<1>5. Video!Dist(e, f % SeqSpace) = f - (g + 1)
  <2>1. g + 1 \in Nat
    OBVIOUS
  <2>2. Dist((g + 1) % SeqSpace, f % SeqSpace) = f - (g + 1)
    BY <1>3, <2>1, DistIs
  <2> QED
    BY <1>2, <2>2, VideoNumbers
<1>6. PICK B : B = Video!CorruptBefore(s, f)
  OBVIOUS
<1>7. B = IF ~(f > g + 1) THEN {} ELSE {h \in 0 .. MaxVideo : h < f /\ f - h <= f - (g + 1)}
  BY <1>1, <1>4, <1>5, <1>6, VideoNumbers DEF Video!CorruptBefore
<1>8. CASE f > g + 1
  <2>1. ASSUME NEW h PROVE h \in B <=> h \in g + 1 .. f - 1
    <3>1. h \in B <=> h \in 0 .. MaxVideo /\ h < f /\ f - h <= f - (g + 1)
      BY <1>7, <1>8
    <3> QED
      BY <1>3, <3>1, VideoConstants
  <2> QED
    BY <1>6, <2>1
<1>9. CASE ~(f > g + 1)
  <2>1. B = {} /\ g + 1 .. f - 1 = {}
    BY <1>3, <1>7, <1>9
  <2> QED
    BY <1>6, <2>1
<1> QED
  BY <1>8, <1>9

\* The statistics gain a generation of r received and l lost packets.
Tallied(st) == \E r \in Nat, l \in Int : st = [stats EXCEPT !.genReceived = r, !.genLost = l]

\* Samples of frames up to f come in order, after the last one.  Decoded are those
\* that count as such; Room is left if f itself was not among them.
Decoded(o) == {o[i].frame : i \in {j \in DOMAIN o : o[j].ok}}
Ascends(o) == \A i \in DOMAIN o : o[i].frame > last /\ \A j \in 1 .. i - 1 : o[j].frame < o[i].frame
Ends(o, f) == (\A i \in DOMAIN o : Fit(o[i]) /\ o[i].frame <= f) /\ Ascends(o)
Newest(o) == IF o = <<>> THEN last ELSE o[Len(o)].frame
Room(o, f) ==
  \/ o = <<>> /\ last < f
  \/ \E z : o = <<z>> /\ Fit(z) /\ last < z.frame /\ z.frame < f
All(o) == whole \cup Decoded(o)

\* The receiver collects the units of frame f, and knows of all before it.
Ready(s, f) ==
  /\ Form(s) /\ Rx(s.rx) /\ s.frame = f /\ s.ground \in {"own", "stale"}
  /\ s.rx.profile = ProfileOf[f] /\ s.rx.cur = f % SeqSpace
  /\ Collects(s.ground, s.rx, s.fp, f)
  /\ Told(All(s.out), s.rx.complete, s.reported, f) /\ Tallied(s.stats)
  /\ Ends(s.out, f) /\ Newest(s.out) \in 0 .. f
  /\ Newest(s.out) = f => s.rx.prev = s.rx.cur
  /\ s.rx.prev # s.rx.cur => Room(s.out, f)

\* It is about to begin with frame f: at most the frame before was handed over.
Handed(t, f) ==
  /\ Form(t) /\ Rx(t.rx) /\ Typed(t.fp) /\ t.rx.profile = ProfileOf[f]
  /\ Told(All(t.out), t.rx.complete, t.reported, frame)
  /\ f > frame /\ f - Greatest(All(t.out)) <= Half
  /\ \/ t.out = <<>>
     \/ \E x : t.out = <<x>> /\ Fit(x) /\ x.frame = frame /\ last < frame

\* The counters of the statistics, and what a generation adds to them.
LEMMA TallyIs ==
  ASSUME AudioInv, NEW p, p.gotSource \in Nat, p.gotFec \in Nat, p.source \in Nat, p.fec \in Nat
  PROVE  Tallied(Video!ReportStats(stats, p)) /\ Tallied(stats)
<1>1. PICK r \in Nat, a \in Nat :
        r = stats.genReceived /\ a = p.gotSource + p.gotFec
  BY AudioFields DEF AudioInv
<1>2. PICK l \in Int, b \in Int :
        l = stats.genLost /\ b = p.source + p.fec - (p.gotSource + p.gotFec)
  BY AudioFields DEF AudioInv
<1>3. PICK st : st = stats
  OBVIOUS
<1>4. st = [genReceived |-> st.genReceived, genLost |-> st.genLost, seqMin |-> st.seqMin,
            seqMax |-> st.seqMax, seqReceived |-> st.seqReceived]
  BY <1>3 DEF AudioInv, AudioTypes
<1>5. st = [st EXCEPT !.genReceived = r, !.genLost = l]
  BY <1>1, <1>2, <1>3, <1>4
<1>6. Tallied(stats)
  BY <1>3, <1>5 DEF Tallied
<1>7. Video!ReportStats(st, p) = [st EXCEPT !.genReceived = r + a, !.genLost = l + b]
  BY <1>1, <1>2, <1>3, <1>4 DEF Video!ReportStats, Video!PushGeneration
<1>8. r + a \in Nat /\ l + b \in Int
  BY <1>1, <1>2
<1>9. Tallied(Video!ReportStats(stats, p))
  BY <1>3, <1>7, <1>8 DEF Tallied
<1> QED
  BY <1>6, <1>9

\* A frame that is decoded is known.
LEMMA ToldMore ==
  ASSUME NEW f \in Nat \ {0}, NEW W, NEW c, NEW told, Told(W, c, told, f)
  PROVE  Told(W \cup {f}, f % SeqSpace, told, f)
<1>1. PICK V : V = W \cup {f}
  OBVIOUS
<1>2. f \in 0 .. MaxVideo /\ W \in SUBSET (1 .. f) /\ told = (1 .. f - 1) \ W
  BY DEF Told
<1>3. V \in SUBSET (1 .. f) /\ told = (1 .. f - 1) \ V
  BY <1>1, <1>2
<1>4. Greatest(V) = f
  BY <1>1, <1>2, GreatestAdded
<1>5. f - f <= Half
  BY SpaceIs
<1> QED
  BY <1>1, <1>2, <1>3, <1>4, <1>5 DEF Told

\* The frames before f that were not decoded are reported.
LEMMA ToldBefore ==
  ASSUME NEW W, NEW h, NEW t, Told(W, t.rx.complete, t.reported, h), NEW f \in 1 .. MaxVideo,
         f > h, f - Greatest(W) <= Half
  PROVE  Told(W, t.rx.complete, t.reported \cup Video!CorruptBefore(t, f), f)
<1>1. PICK g : g = Greatest(W)
  OBVIOUS
<1>2. /\ g \in 0 .. h /\ W \subseteq 1 .. g /\ W \in SUBSET (1 .. h)
      /\ (W # {} => g \in W) /\ h < f /\ f - g <= Half /\ h \in Nat /\ g \in Nat
      /\ t.rx.complete = g % SeqSpace /\ t.reported = (1 .. h - 1) \ W
  <2>1. h \in 0 .. MaxVideo /\ h \in Nat /\ W \in SUBSET (1 .. h) /\ t.rx.complete = g % SeqSpace
        /\ t.reported = (1 .. h - 1) \ W
    BY <1>1, VideoConstants DEF Told
  <2>2. g \in 0 .. h /\ W \subseteq 1 .. g /\ (W # {} => g \in W)
    BY <1>1, <2>1, GreatestIs
  <2> QED
    BY <1>1, <2>1, <2>2
<1>3. Video!CorruptBefore(t, f) = g + 1 .. f - 1
  <2>1. g < f
    BY <1>2
  <2> QED
    BY <1>2, <2>1, BeforeIs
<1>4. ((1 .. h - 1) \ W) \cup (g + 1 .. f - 1) = (1 .. f - 1) \ W
  <2>1. f \in Nat /\ \A k \in W : k \in 1 .. g
    BY <1>2, VideoConstants
  <2>2. W = {} => g = 0
    BY <1>1 DEF Greatest
  <2>3. ASSUME NEW k
        PROVE  k \in ((1 .. h - 1) \ W) \cup (g + 1 .. f - 1) <=> k \in (1 .. f - 1) \ W
    <3>1. CASE k \in W
      BY <1>2, <2>1, <3>1
    <3>2. CASE k \notin W
      <4>1. ASSUME k \in 1 .. h - 1 \/ k \in g + 1 .. f - 1 PROVE k \in 1 .. f - 1
        BY <1>2, <2>1, <4>1
      <4>2. ASSUME k \in 1 .. f - 1 PROVE k \in 1 .. h - 1 \/ k \in g + 1 .. f - 1
        <5>1. CASE k > g
          BY <1>2, <2>1, <4>2, <5>1
        <5>2. CASE ~(k > g)
          <6>1. W # {}
            BY <1>2, <2>2, <4>2, <5>2
          <6>2. k # g /\ k < g /\ k < h
            BY <1>2, <3>2, <4>2, <5>2, <6>1
          <6> QED
            BY <1>2, <4>2, <6>2
        <5> QED
          BY <5>1, <5>2
      <4> QED
        BY <3>2, <4>1, <4>2
    <3> QED
      BY <3>1, <3>2
  <2> QED
    BY <2>3
<1>5. f \in 0 .. MaxVideo /\ W \in SUBSET (1 .. f)
  BY <1>2, VideoConstants
<1>6. t.reported \cup Video!CorruptBefore(t, f) = (1 .. f - 1) \ W
  BY <1>2, <1>3, <1>4
<1> QED
  BY <1>1, <1>2, <1>5, <1>6 DEF Told

Fresh(t, f, u, luck, st) ==
  [t EXCEPT !.stats = st, !.reported = @ \cup Video!CorruptBefore(t, f),
            !.rx.cur = f % SeqSpace, !.frame = f,
            !.fp = Video!AllocFrame(@, f, u, luck), !.ground = Video!Ground(t.fp, f, u, luck)]

\* The frames that are lost before f are reported, and its units awaited.
LEMMA FreshIs ==
  ASSUME last \in 0 .. frame, frame \in 0 .. MaxVideo, NEW f \in 1 .. MaxVideo, NEW t, Handed(t, f),
         NEW st, Tallied(st), NEW u, NEW luck,
         NEW n, n = Fresh(t, f, u, luck, st), n.ground # "undefined"
  PROVE  Ready(n, f)
<1>1. PICK y, z : y = t.rx /\ z = [y EXCEPT !.cur = f % SeqSpace]
  OBVIOUS
<1>2. RxForm(y)
  BY <1>1 DEF Handed, Form
<1>3. /\ z.profiles = y.profiles /\ z.profile = y.profile /\ z.cur = f % SeqSpace
      /\ z.prev = y.prev /\ z.complete = y.complete /\ RxForm(z)
  BY <1>1, <1>2 DEF RxForm
<1>4. f % SeqSpace \in SeqNums
  BY Remainder
<1>5. Rx(z)
  <2>1. f % SeqSpace \in -1 .. SeqSpace - 1
    BY <1>4, SpaceIs DEF SeqNums
  <2> QED
    BY <1>1, <1>3, <2>1 DEF Rx, Handed
<1>6. PICK A, C, G : /\ A = Video!AllocFrame(t.fp, f, u, luck) /\ G = Video!Ground(t.fp, f, u, luck)
                     /\ C = t.reported \cup Video!CorruptBefore(t, f)
  OBVIOUS
<1>7. /\ n.rx = z /\ n.fp = A /\ n.stats = st /\ n.frame = f /\ n.reported = C /\ n.out = t.out
      /\ n.ground = G
      /\ n = [ground |-> n.ground, rx |-> n.rx, fp |-> n.fp, stats |-> n.stats, frame |-> n.frame,
              reported |-> n.reported, out |-> n.out]
  BY <1>1, <1>6 DEF Form, Fresh, Handed
<1>8. Form(n)
  BY <1>3, <1>7 DEF Form
<1>9. f \in 0 .. MaxVideo /\ f \in Nat /\ frame \in Nat /\ last \in Nat /\ last <= frame /\ frame < f
  BY VideoConstants DEF Handed
<1>10. /\ Typed(A) /\ G \in {"own", "stale", "undefined"}
       /\ G = "own" => Holds(A, f) /\ Exact(A) /\ ~Video!FlushPossible(A)
  BY <1>6, <1>9, AllocHolds DEF Handed
<1>11. Collects(n.ground, n.rx, n.fp, f) /\ n.ground \in {"own", "stale"}
  BY <1>7, <1>10 DEF Collects
<1>12. Told(All(n.out), n.rx.complete, n.reported, f)
  <2>1. PICK W : W = All(t.out)
    OBVIOUS
  <2>2. Told(W, t.rx.complete, t.reported, frame) /\ f > frame /\ f - Greatest(W) <= Half
    BY <2>1 DEF Handed
  <2>3. Told(W, t.rx.complete, C, f)
    BY <1>6, <2>2, ToldBefore
  <2> QED
    BY <1>1, <1>3, <1>7, <2>1, <2>3
<1>13. Ends(t.out, f) /\ Newest(t.out) \in 0 .. f /\ Newest(t.out) # f /\ Room(t.out, f)
  <2>1. CASE t.out = <<>>
    <3>1. DOMAIN t.out = {}
      BY <2>1
    <3>2. Newest(t.out) = last
      BY <2>1 DEF Newest
    <3> QED
      BY <1>9, <2>1, <3>1, <3>2 DEF Ends, Ascends, Room
  <2>2. CASE t.out # <<>>
    <3>1. PICK z1 : t.out = <<z1>> /\ Fit(z1) /\ z1.frame = frame /\ last < frame
      BY <2>2 DEF Handed
    <3>2. PICK o : o = t.out
      OBVIOUS
    <3>3. DOMAIN o = {1} /\ o[1] = z1 /\ Len(o) = 1 /\ o # <<>>
      BY <3>1, <3>2
    <3>4. Ascends(o)
      <4>1. 1 .. 1 - 1 = {}
        OBVIOUS
      <4>2. z1.frame > last
        BY <1>9, <3>1
      <4> QED
        BY <3>3, <4>1, <4>2 DEF Ascends
    <3>5. z1.frame <= f /\ z1.frame < f /\ last < z1.frame /\ frame \in 0 .. f /\ frame # f
      BY <1>9, <3>1
    <3>6. Ends(o, f)
      BY <3>1, <3>3, <3>4, <3>5 DEF Ends
    <3>7. Newest(o) = frame
      BY <3>1, <3>3 DEF Newest
    <3>8. Room(o, f)
      BY <3>1, <3>2, <3>5 DEF Room
    <3> QED
      BY <3>2, <3>5, <3>6, <3>7, <3>8
  <2> QED
    BY <2>1, <2>2
<1>14. n.rx.profile = ProfileOf[f]
  BY <1>1, <1>3, <1>7 DEF Handed
<1> QED
  BY <1>3, <1>5, <1>7, <1>8, <1>11, <1>12, <1>13, <1>14 DEF Ready

Start == [ground |-> ground, rx |-> rx, fp |-> fp, stats |-> stats, frame |-> frame,
          reported |-> reported, out |-> <<>>]

\* The state in which the receiver was, but for the profile.
Unchanged(s) ==
  /\ Form(s) /\ Rx(s.rx) /\ s.ground = ground /\ s.fp = fp /\ s.stats = stats /\ s.frame = frame
  /\ s.reported = reported /\ s.rx.profiles = rx.profiles
  /\ s.rx.cur = rx.cur /\ s.rx.complete = rx.complete

\* The profile of the packet is there.
LEMMA SwitchIs ==
  ASSUME Rx(rx), NEW f \in 0 .. MaxVideo, ~Video!BadProfile(f),
         NEW s, s = Video!SwitchProfile(Start, ProfileOf[f])
  PROVE  Unchanged(s) /\ s.rx.profile = ProfileOf[f] /\ s.rx.prev = rx.prev /\ s.out = <<>>
<1>1. PICK y, z, p : y = rx /\ p = ProfileOf[f] /\ z = [y EXCEPT !.profile = p]
  OBVIOUS
<1>2. /\ z.profiles = y.profiles /\ z.profile = p /\ z.cur = y.cur /\ z.prev = y.prev
      /\ z.complete = y.complete /\ RxForm(z)
  BY <1>1 DEF Rx, RxForm
<1>3. p \in -1 .. Profiles
  <2>1. p \in Nat /\ Profiles \in Nat
    BY <1>1, VideoConstants
  <2>2. CASE y.profile = p
    BY <1>1, <2>2 DEF Rx
  <2>3. CASE y.profile # p
    <3>1. ~(p >= y.profiles) /\ y.profiles \in {0, Profiles}
      BY <1>1, <2>3 DEF Video!BadProfile, Rx
    <3> QED
      BY <2>1, <3>1
  <2> QED
    BY <2>2, <2>3
<1>4. Rx(z)
  BY <1>1, <1>2, <1>3 DEF Rx
<1>5. /\ s.rx = z /\ s.fp = fp /\ s.stats = stats /\ s.frame = frame /\ s.reported = reported
      /\ s.out = <<>> /\ s.ground = ground
      /\ s = [ground |-> s.ground, rx |-> s.rx, fp |-> s.fp, stats |-> s.stats, frame |-> s.frame,
              reported |-> s.reported, out |-> s.out]
  BY <1>1 DEF Video!SwitchProfile, Start
<1>6. Form(s)
  BY <1>2, <1>5 DEF Form
<1> QED
  BY <1>1, <1>2, <1>4, <1>5, <1>6 DEF Unchanged

\* What the processor counts, before and after the first frame.
LEMMA CountsAre ==
  ASSUME Current
  PROVE  Typed(fp)
<1>1. CASE rx.cur = -1
  <2>1. PICK p : p = fp
    OBVIOUS
  <2>2. p = [source |-> 0, fec |-> 0, gotSource |-> 0, gotFec |-> 0,
             slots |-> [u \in {} |-> -1], size |-> 0, flushed |-> TRUE]
    BY <1>1, <2>1, VideoNumbers DEF Current, Video!FpInit
  <2>3. p.slots = [u \in {} |-> -1] /\ p.slots \in [DOMAIN p.slots -> (0 .. MaxVideo) \cup {-1}]
    BY <2>2
  <2>4. p = [source |-> p.source, fec |-> p.fec, gotSource |-> p.gotSource, gotFec |-> p.gotFec,
             slots |-> p.slots, size |-> p.size, flushed |-> p.flushed]
    BY <2>2
  <2>5. p.source = 0 /\ p.fec = 0 /\ p.gotSource = 0 /\ p.gotFec = 0 /\ p.size = 0
    BY <2>2
  <2>6. p.flushed = TRUE
    BY <2>2
  <2>7. p.flushed \in BOOLEAN
    BY <2>6, Zenon
  <2> QED
    BY <2>1, <2>3, <2>4, <2>5, <2>7 DEF Typed
<1>2. CASE rx.cur # -1
  BY <1>2 DEF Current, Expecting, Collects
<1> QED
  BY <1>1, <1>2

\* A packet that is not refused is of the frame that is being collected or of a
\* later one; what was collected of the earlier one is then given up.
LEMMA NextIs ==
  ASSUME AudioInv, VideoInv, NEW f \in 1 .. MaxVideo, NEW u, NEW taken \in BOOLEAN, NEW luck,
         Video!Deliverable(f), ~Video!Old(f),
         NEW s, Unchanged(s), s.rx.profile = ProfileOf[f], s.rx.prev = rx.prev, s.out = <<>>,
         ground # "undefined", NEW n, n = Video!NextFrame(s, f, u, taken, luck),
         n.ground # "undefined"
  PROVE  Ready(n, f)
<1>1. PICK h, g : h = frame /\ g = Greatest(whole) /\ h \in 0 .. MaxVideo /\ h \in Nat /\ f \in Nat
  BY VideoConstants DEF VideoInv, Known, Told
<1>2. last \in 0 .. h /\ g \in Nat /\ g <= h
  <2>1. whole \in SUBSET (1 .. h) /\ last \in 0 .. h
    BY <1>1 DEF VideoInv, Known, Told
  <2>2. g \in 0 .. h
    BY <1>1, <2>1, GreatestIs
  <2> QED
    BY <1>1, <2>1, <2>2
<1>3. f - h < Half /\ h - f < Half /\ f - g <= Half
  <2>1. Video!LastWhole = g
    BY <1>1 DEF Greatest, Video!LastWhole
  <2>2. Video!Max2(h, 0) = h
    BY <1>1 DEF Video!Max2
  <2> QED
    BY <1>1, <2>1, <2>2, VideoNumbers DEF Video!Deliverable
<1>4. Rx(rx) /\ Known /\ Current
  BY DEF VideoInv
<1>5. s.rx.cur = rx.cur /\ rx.cur \in -1 .. SeqSpace - 1 /\ rx.cur \in Int
  <2>1. s.rx.cur = rx.cur /\ rx.cur \in -1 .. SeqSpace - 1
    BY <1>4 DEF Unchanged, Rx
  <2> QED
    BY <2>1, SpaceIs
<1>6. Typed(s.fp) /\ Tallied(stats) /\ Tallied(Video!ReportStats(s.stats, s.fp))
  <2>1. PICK p : p = fp /\ Typed(p)
    BY <1>4, CountsAre
  <2>2. p.gotSource \in Nat /\ p.gotFec \in Nat /\ p.source \in Nat /\ p.fec \in Nat
    BY <2>1 DEF Typed
  <2>3. Tallied(Video!ReportStats(stats, p)) /\ Tallied(stats)
    BY <2>2, TallyIs
  <2> QED
    BY <2>1, <2>3 DEF Unchanged
<1>7. PICK st : st = Video!ReportStats(s.stats, s.fp)
  OBVIOUS
<1>8. Decoded(<<>>) = {} /\ All(<<>>) = whole
  BY DEF Decoded, All
<1>9. /\ Form(s) /\ Rx(s.rx) /\ s.ground = ground /\ ground \in {"own", "stale"} /\ s.frame = h
      /\ Told(All(s.out), s.rx.complete, s.reported, h)
  BY <1>1, <1>4, <1>8 DEF Unchanged, Known, Current
<1>10. f > h => Handed(s, f)
  BY <1>1, <1>3, <1>6, <1>8, <1>9 DEF Handed
<1>11. ASSUME NEW t, n = Fresh(t, f, u, luck, st), Handed(t, f)
       PROVE  Ready(n, f)
  <2>1. last \in 0 .. frame /\ frame \in 0 .. MaxVideo
    BY <1>1, <1>2
  <2> QED
    BY <1>6, <1>7, <1>11, <2>1, FreshIs
<1>12. CASE rx.cur = -1
  <2>1. h = 0 /\ f > h
    BY <1>1, <1>4, <1>12 DEF Current
  <2>2. n = Fresh(s, f, u, luck, st)
    <3>1. ~(s.rx.cur >= 0)
      BY <1>5, <1>12
    <3>2. ~(s.ground = "undefined")
      BY <1>9
    <3> QED
      BY <1>7, <3>1, <3>2, VideoNumbers DEF Video!NextFrame, Fresh
  <2> QED
    BY <1>10, <1>11, <2>1, <2>2
<1>13. ASSUME rx.cur # -1
       PROVE  /\ rx.cur = h % SeqSpace /\ h > 0 /\ Collects(ground, rx, fp, h) /\ rx.cur >= 0
              /\ (last = h => rx.prev = rx.cur)
              /\ (Video!SeqGt(f % SeqSpace, rx.cur) <=> f > h) /\ f >= h
  <2>1. /\ rx.cur = h % SeqSpace /\ h > 0 /\ Collects(ground, rx, fp, h)
        /\ (last = h => rx.prev = rx.cur)
    BY <1>1, <1>4, <1>13 DEF Current, Expecting
  <2>2. rx.cur >= 0
    BY <1>5, <1>13, SpaceIs
  <2>3. h \in Int /\ f \in Int
    BY <1>1
  <2>4. SeqGt(f % SeqSpace, h % SeqSpace) <=> f > h
    BY <1>3, <2>3, GtIs
  <2>5. SeqGt(h % SeqSpace, f % SeqSpace) <=> h > f
    BY <1>3, <2>3, GtIs
  <2>6. ~SeqLt(f % SeqSpace, h % SeqSpace)
    BY <2>1, <2>2, VideoNumbers DEF Video!Old
  <2>7. h % SeqSpace \in Int /\ f % SeqSpace \in Int /\ Half \in Int
    BY <2>3, Remainder, SpaceIs DEF SeqNums
  <2>8. SeqLt(f % SeqSpace, h % SeqSpace) <=> SeqGt(h % SeqSpace, f % SeqSpace)
    BY <2>7 DEF SeqLt, SeqGt
  <2>9. f >= h
    BY <2>3, <2>5, <2>6, <2>8
  <2> QED
    BY <2>1, <2>2, <2>4, <2>9, VideoNumbers
<1>14. CASE rx.cur # -1 /\ ~(f > h)
  <2>1. f = h
    BY <1>1, <1>13, <1>14
  <2>2. n = s
    BY <1>5, <1>13, <1>14, VideoNumbers DEF Video!NextFrame
  <2>3. /\ s.frame = f /\ s.rx.cur = f % SeqSpace /\ (last = f => s.rx.prev = s.rx.cur)
    BY <1>1, <1>5, <1>13, <1>14, <2>1 DEF Unchanged
  <2>4. Collects(s.ground, s.rx, s.fp, f)
    <3>1. Collects(ground, rx, fp, f)
      BY <1>13, <1>14, <2>1
    <3> QED
      BY <1>5, <1>9, <3>1 DEF Collects, Unchanged
  <2>5. Tallied(s.stats)
    BY <1>6 DEF Unchanged
  <2>6. Newest(<<>>) = last /\ DOMAIN <<>> = {}
    BY DEF Newest
  <2>7. Ends(s.out, f) /\ Newest(s.out) \in 0 .. f /\ (Newest(s.out) = f => s.rx.prev = s.rx.cur)
    BY <1>1, <1>2, <2>1, <2>3, <2>6 DEF Ends, Ascends
  <2>8. s.rx.prev # s.rx.cur => Room(s.out, f)
    BY <1>1, <1>2, <2>1, <2>3 DEF Room
  <2> QED
    BY <1>9, <2>1, <2>2, <2>3, <2>4, <2>5, <2>7, <2>8 DEF Ready
<1>15. CASE rx.cur # -1 /\ f > h /\ rx.prev = rx.cur
  <2>1. ~(s.ground = "undefined")
    BY <1>9
  <2>2. n = Fresh(s, f, u, luck, st)
    BY <1>5, <1>7, <1>13, <1>15, <2>1, VideoNumbers DEF Video!NextFrame, Fresh
  <2> QED
    BY <1>10, <1>11, <1>15, <2>2
<1>16. CASE rx.cur # -1 /\ f > h /\ rx.prev # rx.cur
  <2>1. PICK t : t = Video!FlushFrame(s, taken, luck)
    OBVIOUS
  <2>2. n = IF t.ground = "undefined" THEN t
            ELSE [t EXCEPT !.stats = Video!ReportStats(@, s.fp),
                           !.reported = @ \cup Video!CorruptBefore(t, f), !.rx.cur = f % SeqSpace,
                           !.frame = f, !.fp = Video!AllocFrame(@, f, u, luck),
                           !.ground = Video!Ground(t.fp, f, u, luck)]
    BY <1>5, <1>13, <1>16, <2>1, VideoNumbers DEF Video!NextFrame
  <2>3. t.ground # "undefined"
    BY <2>2
  <2>4. ASSUME t.stats = s.stats PROVE n = Fresh(t, f, u, luck, st)
    BY <1>7, <2>2, <2>3, <2>4 DEF Fresh
  <2>5. s.ground = "own" => Holds(s.fp, h) /\ Exact(s.fp) /\ ~Video!FlushPossible(s.fp)
    BY <1>13, <1>16 DEF Collects, Unchanged
  <2>6. \/ t = s
        \/ \E x : /\ Good(x, h) /\ Flushed(s, t, x)
                  /\ s.ground = "own" /\ ~Video!FlushPossible(s.fp) => ~x.ok
    <3>1. s.ground = "own" => Holds(s.fp, h) /\ Exact(s.fp)
      BY <2>5
    <3> QED
      BY <1>1, <1>6, <1>9, <2>1, <2>3, <3>1, FlushIs
  <2>7. CASE t = s
    <3>1. Handed(t, f)
      BY <1>10, <1>16, <2>7
    <3> QED
      BY <1>11, <2>4, <2>7, <3>1
  <2>8. ASSUME NEW x, Good(x, h), Flushed(s, t, x),
               s.ground = "own" /\ ~Video!FlushPossible(s.fp) => ~x.ok
        PROVE  Ready(n, f)
    <3>1. /\ Form(t) /\ Typed(t.fp) /\ t.reported = s.reported /\ t.stats = s.stats
          /\ t.rx.profile = s.rx.profile /\ t.rx.profiles = s.rx.profiles
          /\ t.rx.cur = s.rx.cur /\ t.rx.prev = s.rx.cur
          /\ t.rx.complete = IF x.ok THEN s.rx.cur ELSE s.rx.complete
          /\ t.out = <<x>> /\ (x.own <=> s.ground = "own")
      BY <2>8 DEF Flushed
    <3>2. s.rx.cur = h % SeqSpace /\ h > 0
      BY <1>5, <1>13, <1>16
    <3>3. h % SeqSpace \in SeqNums
      BY <1>1, Remainder
    <3>4. Rx(t.rx)
      <4>1. RxForm(t.rx)
        BY <3>1 DEF Form
      <4>2. t.rx.complete \in SeqNums
        BY <1>9, <3>1, <3>2, <3>3 DEF Rx
      <4> QED
        BY <1>9, <3>1, <4>1, <4>2 DEF Rx
    <3>5. x.frame = h /\ x.ok \in BOOLEAN /\ ~(x.own /\ x.ok)
      BY <2>5, <2>8, <3>1 DEF Good
    <3>6. Fit(x)
      BY <1>1, <2>8, <3>5 DEF Fit
    <3>7. last < h
      BY <1>1, <1>2, <1>13, <1>16
    <3>8. Decoded(<<x>>) = IF x.ok THEN {h} ELSE {}
      <4>1. DOMAIN <<x>> = {1} /\ <<x>>[1] = x
        OBVIOUS
      <4> QED
        BY <3>5, <4>1 DEF Decoded
    <3>9. Told(whole, s.rx.complete, s.reported, h)
      BY <1>8, <1>9
    <3>10. /\ Told(All(<<x>>), t.rx.complete, t.reported, h)
           /\ f - Greatest(All(<<x>>)) <= Half
      <4>1. CASE x.ok
        <5>1. All(<<x>>) = whole \cup {h} /\ t.rx.complete = h % SeqSpace
          BY <3>1, <3>2, <3>8, <4>1 DEF All
        <5>2. h \in Nat \ {0} /\ whole \in SUBSET (1 .. h)
          BY <1>1, <3>2, <3>9 DEF Told
        <5>3. Told(whole \cup {h}, h % SeqSpace, s.reported, h)
          BY <3>9, <5>2, ToldMore
        <5>4. Greatest(whole \cup {h}) = h
          BY <5>2, GreatestAdded
        <5>5. f - h <= Half
          BY <1>1, <1>3, SpaceIs
        <5> QED
          BY <3>1, <5>1, <5>3, <5>4, <5>5
      <4>2. CASE ~x.ok
        <5>1. All(<<x>>) = whole /\ t.rx.complete = s.rx.complete
          BY <3>1, <3>8, <4>2 DEF All
        <5> QED
          BY <1>1, <1>3, <3>1, <3>9, <5>1
      <4> QED
        BY <4>1, <4>2
    <3>11. Handed(t, f)
      BY <1>1, <1>16, <3>1, <3>4, <3>5, <3>6, <3>7, <3>10 DEF Handed
    <3> QED
      BY <1>11, <2>4, <3>1, <3>11
  <2>9. CASE t # s
    <3>1. PICK x : /\ Good(x, h) /\ Flushed(s, t, x)
                   /\ s.ground = "own" /\ ~Video!FlushPossible(s.fp) => ~x.ok
      BY <2>6, <2>9
    <3> QED
      BY <2>8, <3>1
  <2> QED
    BY <2>7, <2>9
<1> QED
  BY <1>12, <1>14, <1>15, <1>16

\* The sequence of two samples.
LEMMA AppendIs ==
  ASSUME NEW S, NEW e \in Seq(S), NEW y \in S
  PROVE  Len(e) = 1 => /\ Len(Append(e, y)) = 2 /\ Append(e, y)[1] = e[1] /\ Append(e, y)[2] = y
                       /\ DOMAIN Append(e, y) = {1, 2} /\ Append(e, y) # <<>>
<1>1. /\ Append(e, y) \in Seq(S) /\ Append(e, y) # <<>> /\ Len(Append(e, y)) = Len(e) + 1
      /\ \A i \in 1 .. Len(e) : Append(e, y)[i] = e[i]
      /\ Append(e, y)[Len(e) + 1] = y
  BY AppendProperties
<1>2. Len(e) = 1 => Len(Append(e, y)) = 2
  BY <1>1
<1>3. Len(e) = 1 => Append(e, y)[1] = e[1]
  BY <1>1
<1>4. Len(e) = 1 => Append(e, y)[2] = y
  BY <1>1
<1>5. DOMAIN Append(e, y) = 1 .. Len(Append(e, y))
  BY <1>1, LenProperties
<1>6. 1 .. 2 = {1, 2}
  OBVIOUS
<1>7. Len(e) = 1 => DOMAIN Append(e, y) = {1, 2}
  BY <1>2, <1>5, <1>6
<1> QED
  BY <1>1, <1>2, <1>3, <1>4, <1>7

\* One sample more.
LEMMA EndsAppend ==
  ASSUME NEW f \in 0 .. MaxVideo, last \in 0 .. MaxVideo, NEW o, NEW x, Fit(x), x.frame = f, Room(o, f)
  PROVE  /\ Ends(Append(o, x), f) /\ Newest(Append(o, x)) = f
         /\ Decoded(Append(o, x)) = Decoded(o) \cup (IF x.ok THEN {f} ELSE {})
<1>1. Fit(x) /\ x.frame = f /\ x.ok \in BOOLEAN
  BY DEF Fit, Good
<1>2. CASE o = <<>>
  <2>1. last < f
    BY <1>2 DEF Room
  <2>2. Append(o, x) = <<x>>
    BY <1>2
  <2>3. DOMAIN <<x>> = {1} /\ <<x>>[1] = x /\ Len(<<x>>) = 1 /\ <<x>> # <<>>
    OBVIOUS
  <2>4. Ascends(<<x>>)
    <3>1. 1 .. 1 - 1 = {}
      OBVIOUS
    <3> QED
      BY <1>1, <2>1, <2>3, <3>1 DEF Ascends
  <2>5. Decoded(<<x>>) = IF x.ok THEN {f} ELSE {}
    BY <1>1, <2>3 DEF Decoded
  <2>6. Newest(<<x>>) = f
    BY <1>1, <2>3 DEF Newest
  <2>7. Ends(<<x>>, f)
    BY <1>1, <2>3, <2>4 DEF Ends
  <2>8. Decoded(o) = {}
    <3>1. DOMAIN o = {}
      BY <1>2
    <3> QED
      BY <3>1 DEF Decoded
  <2> QED
    BY <2>2, <2>5, <2>6, <2>7, <2>8
<1>3. CASE o # <<>>
  <2>1. PICK z : o = <<z>> /\ Fit(z) /\ last < z.frame /\ z.frame < f
    BY <1>3 DEF Room
  <2>2. PICK w : w = Append(o, x)
    OBVIOUS
  <2>3. PICK S : S = {z, x}
    OBVIOUS
  <2>4. x \in S /\ o \in Seq(S) /\ Len(o) = 1 /\ o[1] = z
    BY <2>1, <2>3
  <2>5. DOMAIN w = {1, 2} /\ w[1] = z /\ w[2] = x /\ Len(w) = 2 /\ w # <<>>
    BY <2>2, <2>4, AppendIs
  <2>6. z.frame \in 0 .. MaxVideo /\ z.frame \in Nat /\ f \in Nat /\ last \in Nat
    BY <2>1, VideoConstants DEF Fit
  <2>7. Ascends(w)
    <3>1. 1 .. 1 - 1 = {} /\ 1 .. 2 - 1 = {1}
      OBVIOUS
    <3>2. w[1].frame > last /\ w[2].frame > last /\ w[1].frame < w[2].frame
      BY <1>1, <2>1, <2>5, <2>6
    <3> QED
      BY <2>5, <3>1, <3>2 DEF Ascends
  <2>8. Decoded(w) = Decoded(o) \cup (IF x.ok THEN {f} ELSE {})
    <3>1. z.ok \in BOOLEAN
      BY <2>1 DEF Fit, Good
    <3>2. Decoded(w) = (IF z.ok THEN {z.frame} ELSE {}) \cup (IF x.ok THEN {f} ELSE {})
      <4>1. \A v : v \in Decoded(w) <=> \E j \in {1, 2} : w[j].ok /\ v = w[j].frame
        BY <2>5 DEF Decoded
      <4> QED
        BY <1>1, <2>5, <3>1, <4>1
    <3>3. DOMAIN o = {1} /\ o[1] = z
      BY <2>1
    <3>4. Decoded(o) = IF z.ok THEN {z.frame} ELSE {}
      <4>1. \A v : v \in Decoded(o) <=> z.ok /\ v = z.frame
        BY <3>3 DEF Decoded
      <4> QED
        BY <3>1, <4>1
    <3> QED
      BY <3>2, <3>4
  <2>9. Newest(w) = f
    BY <1>1, <2>5 DEF Newest
  <2>10. Ends(w, f)
    <3>1. z.frame <= f /\ x.frame <= f
      BY <1>1, <2>1, <2>6
    <3> QED
      BY <1>1, <2>1, <2>5, <2>7, <3>1 DEF Ends
  <2> QED
    BY <2>2, <2>8, <2>9, <2>10
<1> QED
  BY <1>2, <1>3

\* The unit is put into its slot, and the frame handed over if that makes enough.
LEMMA CollectIs ==
  ASSUME VideoInv, NEW f \in 1 .. MaxVideo, NEW u \in Nat, NEW taken \in BOOLEAN, NEW luck,
         NEW n, Ready(n, f), NEW c, c = Video!Collect(n, u, f, taken, luck), c.ground # "undefined"
  PROVE  Ready(c, f)
<1>1. PICK p : p = Video!PutUnit(n.fp, u, f)
  OBVIOUS
<1>2. PICK t : t = [n EXCEPT !.fp = p]
  OBVIOUS
<1>3. f \in 0 .. MaxVideo /\ f \in Nat \ {0}
  BY VideoConstants
<1>4. /\ Typed(p) /\ (n.ground = "own" => Holds(p, f))
      /\ (n.ground = "own" /\ n.rx.prev # n.rx.cur => Exact(p))
  <2>1. Typed(n.fp) /\ (n.ground = "own" => Holds(n.fp, f))
        /\ (n.ground = "own" /\ n.rx.prev # n.rx.cur => Exact(n.fp))
    BY DEF Ready, Collects
  <2> QED
    BY <1>1, <1>3, <2>1, PutHolds
<1>5. /\ Form(t) /\ t.rx = n.rx /\ t.fp = p /\ t.stats = n.stats /\ t.frame = n.frame
      /\ t.reported = n.reported /\ t.out = n.out /\ t.ground = n.ground
  BY <1>2 DEF Ready, Form
<1>6. ~(n.ground = "undefined" \/ Video!Outside(n.fp, u, f, luck))
  <2> SUFFICES ASSUME n.ground = "undefined" \/ Video!Outside(n.fp, u, f, luck) PROVE FALSE
    OBVIOUS
  <2>1. c = [n EXCEPT !.ground = "undefined"]
    BY DEF Video!Collect
  <2> QED
    BY <2>1 DEF Ready, Form
<1>7. CASE n.rx.cur # n.rx.prev /\ Video!FlushPossible(p)
  <2>1. c = Video!FlushFrame(t, taken, luck)
    BY <1>1, <1>2, <1>5, <1>6, <1>7 DEF Video!Collect
  <2>2. t.frame = f /\ (t.ground = "own" => Holds(t.fp, f) /\ Exact(t.fp)) /\ Typed(t.fp)
    BY <1>4, <1>5, <1>7 DEF Ready
  <2>3. \/ c = t /\ t.ground # "own"
        \/ \E x : /\ Good(x, f) /\ Flushed(t, c, x)
                  /\ t.ground = "own" /\ ~Video!FlushPossible(t.fp) => ~x.ok
    BY <1>3, <1>5, <2>1, <2>2, FlushIs
  <2>4. CASE c = t /\ t.ground # "own"
    <3>1. Collects(c.ground, c.rx, c.fp, f)
      BY <1>4, <1>5, <2>4 DEF Collects
    <3> QED
      BY <1>5, <2>4, <3>1 DEF Ready
  <2>5. CASE ~(c = t /\ t.ground # "own")
    <3>1. PICK x : Good(x, f) /\ Flushed(t, c, x)
      BY <2>3, <2>5
    <3>2. /\ Form(c) /\ Typed(c.fp) /\ (c.ground = "own" => Holds(c.fp, f))
          /\ c.ground = n.ground /\ c.stats = n.stats /\ c.frame = f /\ c.reported = n.reported
          /\ c.rx.profiles = n.rx.profiles /\ c.rx.profile = n.rx.profile
          /\ c.rx.cur = n.rx.cur /\ c.rx.prev = n.rx.cur
          /\ c.rx.complete = IF x.ok THEN n.rx.cur ELSE n.rx.complete
          /\ c.out = Append(n.out, x) /\ x.header = n.rx.profile
      BY <1>5, <2>2, <3>1 DEF Flushed
    <3>3. /\ x.header = ProfileOf[f] /\ n.rx.cur = f % SeqSpace /\ n.ground \in {"own", "stale"}
          /\ n.rx.profile = ProfileOf[f] /\ Rx(n.rx) /\ Tallied(n.stats)
          /\ Told(All(n.out), n.rx.complete, n.reported, f) /\ Room(n.out, f)
      BY <1>7, <3>2 DEF Ready
    <3>4. x.frame = f /\ x.ok \in BOOLEAN /\ Fit(x)
      BY <1>3, <3>1, <3>3 DEF Good, Fit
    <3>5. /\ Ends(c.out, f) /\ Newest(c.out) = f
          /\ Decoded(c.out) = Decoded(n.out) \cup (IF x.ok THEN {f} ELSE {})
      <4>1. last \in 0 .. MaxVideo
        BY VideoConstants DEF VideoInv, Known, Told
      <4> QED
        BY <1>3, <3>2, <3>3, <3>4, <4>1, EndsAppend
    <3>6. Told(All(c.out), c.rx.complete, c.reported, f)
      <4>1. CASE x.ok
        <5>1. All(c.out) = All(n.out) \cup {f} /\ c.rx.complete = f % SeqSpace
          BY <3>2, <3>3, <3>5, <4>1 DEF All
        <5>2. Told(All(n.out) \cup {f}, f % SeqSpace, n.reported, f)
          BY <1>3, <3>3, ToldMore
        <5> QED
          BY <3>2, <5>1, <5>2
      <4>2. CASE ~x.ok
        <5>1. All(c.out) = All(n.out) /\ c.rx.complete = n.rx.complete
          BY <3>2, <3>5, <4>2 DEF All
        <5> QED
          BY <3>2, <3>3, <5>1
      <4> QED
        BY <4>1, <4>2
    <3>7. f % SeqSpace \in SeqNums
      BY <1>3, Remainder
    <3>8. Rx(c.rx)
      <4>1. RxForm(c.rx)
        BY <3>2 DEF Form
      <4>2. c.rx.complete \in SeqNums
        BY <3>2, <3>3, <3>4, <3>7 DEF Rx
      <4> QED
        BY <3>2, <3>3, <4>1, <4>2 DEF Rx
    <3>9. Collects(c.ground, c.rx, c.fp, f)
      BY <3>2 DEF Collects
    <3>10. f \in 0 .. f
      BY <1>3
    <3>11. c.rx.prev = c.rx.cur /\ c.rx.cur = f % SeqSpace
      BY <3>2, <3>3
    <3> QED
      BY <3>2, <3>3, <3>5, <3>6, <3>8, <3>9, <3>10, <3>11 DEF Ready
  <2> QED
    BY <2>4, <2>5
<1>8. CASE ~(n.rx.cur # n.rx.prev /\ Video!FlushPossible(p))
  <2>1. c = t
    BY <1>1, <1>2, <1>5, <1>6, <1>8 DEF Video!Collect
  <2>2. Collects(c.ground, c.rx, c.fp, f)
    BY <1>4, <1>5, <1>8, <2>1 DEF Collects
  <2> QED
    BY <1>5, <2>1, <2>2 DEF Ready
<1> QED
  BY <1>7, <1>8

\* What the receiver does with a packet it does not refuse.
LEMMA AcceptKeeps ==
  ASSUME AudioInv, VideoInv, ground # "undefined", NEW f \in 1 .. MaxVideo, NEW u \in Nat,
         NEW taken \in BOOLEAN, NEW luck,
         Video!Deliverable(f), ~Video!Old(f), ~Video!BadProfile(f),
         Video!Accept(Video!Handled(f, u, taken, luck))
  PROVE  VideoInv' /\ Tallied(stats') /\ Ascends(out')
<1>1. PICK s : s = Video!SwitchProfile(Start, ProfileOf[f])
  OBVIOUS
<1>2. PICK n : n = Video!NextFrame(s, f, u, taken, luck)
  OBVIOUS
<1>3. PICK c : c = Video!Collect(n, u, f, taken, luck)
  OBVIOUS
<1>4. c = Video!Handled(f, u, taken, luck)
  BY <1>1, <1>2, <1>3 DEF Video!Handled, Start
<1>5. /\ c.ground # "undefined" /\ ground' = c.ground
      /\ rx' = c.rx /\ fp' = c.fp /\ stats' = c.stats /\ frame' = c.frame
      /\ reported' = c.reported /\ out' = c.out
      /\ whole' = All(c.out) /\ last' = Newest(c.out)
  BY <1>4 DEF Video!Accept, All, Decoded, Newest
<1>6. f \in 0 .. MaxVideo /\ f \in Nat \ {0}
  BY VideoConstants
<1>7. Unchanged(s) /\ s.rx.profile = ProfileOf[f] /\ s.rx.prev = rx.prev /\ s.out = <<>>
  BY <1>1, <1>6, SwitchIs DEF VideoInv
<1>8. n.ground # "undefined"
  <2> SUFFICES ASSUME n.ground = "undefined" PROVE FALSE
    OBVIOUS
  <2>1. c = [n EXCEPT !.ground = "undefined"]
    BY <1>3 DEF Video!Collect
  <2>2. c = n
    <3>1. PICK m : m = n /\ m.ground = "undefined" /\ c = [m EXCEPT !.ground = m.ground]
      BY <2>1
    <3>2. "ground" \in DOMAIN c => c.ground = "undefined"
      BY <3>1
    <3> QED
      BY <1>5, <3>1, <3>2
  <2> QED
    BY <1>5, <2>2
<1>9. Ready(n, f)
  BY <1>2, <1>7, <1>8, NextIs
<1>10. Ready(c, f)
  BY <1>3, <1>5, <1>9, CollectIs
<1>11. Rx(rx') /\ Tallied(stats')
  BY <1>5, <1>10 DEF Ready
<1>12. frame' = f /\ last' \in 0 .. f
  BY <1>5, <1>10 DEF Ready
<1>13. Known'
  BY <1>5, <1>10, <1>12 DEF Ready, Known
<1>14. Current'
  <2>1. rx'.cur = f % SeqSpace /\ (last' = f => rx'.prev = rx'.cur)
    BY <1>5, <1>10 DEF Ready
  <2>2. Collects(ground', rx', fp', f) /\ ground' \in {"own", "stale", "undefined"}
    BY <1>5, <1>10 DEF Ready
  <2>3. f > 0
    BY <1>6
  <2>4. Expecting(ground', rx', fp', f, last')
    BY <2>1, <2>2, <2>3 DEF Expecting
  <2>5. rx'.cur # -1
    <3>1. f % SeqSpace \in SeqNums
      BY <1>6, Remainder
    <3> QED
      BY <2>1, <3>1, SpaceIs DEF SeqNums
  <2> QED
    BY <1>12, <2>2, <2>4, <2>5 DEF Current
<1>15. Shown' /\ Ascends(out')
  <2>1. Ascends(c.out) /\ \A i \in DOMAIN c.out : Fit(c.out[i])
    BY <1>10 DEF Ready, Ends
  <2>2. Ascends(out') /\ \A i \in DOMAIN out' : Fit(out'[i])
    BY <1>5, <2>1
  <2> QED
    BY <2>2 DEF Shown
<1> QED
  BY <1>11, <1>13, <1>14, <1>15 DEF VideoInv

\* A packet that is refused, the profiles, or memory that is not the receiver's:
\* nothing else changes.
LEMMA OthersKeep ==
  ASSUME VideoInv, UNCHANGED <<fp, frame, whole, reported, last>>, Rx(rx'),
         ground' = ground \/ ground' = "undefined",
         rx'.cur = rx.cur, rx'.prev = rx.prev, rx'.complete = rx.complete, out' = <<>>
  PROVE  VideoInv' /\ Ascends(out')
<1>1. Known'
  BY DEF VideoInv, Known
<1>2. Current'
  <2>1. ground' \in {"own", "stale", "undefined"}
    BY DEF VideoInv, Current
  <2>2. CASE rx.cur = -1
    BY <2>1, <2>2 DEF VideoInv, Current
  <2>3. CASE rx.cur # -1
    <3>1. Expecting(ground, rx, fp, frame, last)
      BY <2>3 DEF VideoInv, Current
    <3>2. Collects(ground', rx', fp', frame')
      BY <3>1 DEF Expecting, Collects
    <3> QED
      BY <2>1, <2>3, <3>1, <3>2 DEF Current, Expecting
  <2> QED
    BY <2>2, <2>3
<1>3. DOMAIN out' = {}
  OBVIOUS
<1>4. Shown' /\ Ascends(out')
  BY <1>3 DEF Shown, Ascends
<1> QED
  BY <1>1, <1>2, <1>4 DEF VideoInv

\* The profiles of the stream info.
LEMMA StreamInfoKeeps ==
  ASSUME VideoInv, Video!StreamInfo
  PROVE  VideoInv' /\ Ascends(out')
<1>1. PICK y, z : y = rx /\ z = rx'
  OBVIOUS
<1>2. z = (IF y.profiles > 0 THEN y ELSE [y EXCEPT !.profiles = Profiles])
      /\ out' = <<>> /\ UNCHANGED <<ground, fp, frame, whole, reported, last>>
  BY <1>1 DEF Video!StreamInfo
<1>3. Rx(y)
  BY <1>1 DEF VideoInv
<1>4. Rx(z) /\ z.cur = y.cur /\ z.prev = y.prev /\ z.complete = y.complete
  <2>1. CASE z = y
    BY <1>3, <2>1
  <2>2. CASE z = [y EXCEPT !.profiles = Profiles]
    <3>1. /\ z.profiles = Profiles /\ z.profile = y.profile /\ z.cur = y.cur /\ z.prev = y.prev
          /\ z.complete = y.complete /\ RxForm(z)
      BY <1>3, <2>2 DEF Rx, RxForm
    <3> QED
      BY <1>3, <3>1 DEF Rx
  <2> QED
    BY <1>2, <2>1, <2>2
<1> QED
  BY <1>1, <1>2, <1>4, OthersKeep

\* A step of the video receiver.
LEMMA VideoKeeps ==
  ASSUME AudioInv, VideoInv, TakionVideo
  PROVE  AudioInv' /\ VideoInv' /\ Ascends(out')
<1>1. kind = "video" /\ UNCHANGED <<kind, audioVars, report, since>> /\ Video!Next
  BY DEF TakionVideo
<1>2. ASSUME VideoInv', Ascends(out'), Tallied(stats')
      PROVE  AudioInv' /\ VideoInv' /\ Ascends(out')
  <2>1. PICK r \in Nat, l \in Int : stats' = [stats EXCEPT !.genReceived = r, !.genLost = l]
    BY <1>2 DEF Tallied
  <2>2. AudioInv'
    BY <1>1, <2>1, VideoLeavesAudio
  <2> QED
    BY <1>2, <2>2
<1>3. Tallied(stats) /\ Rx(rx)
  <2>1. PICK p : p = fp /\ Typed(p)
    BY CountsAre DEF VideoInv
  <2>2. p.gotSource \in Nat /\ p.gotFec \in Nat /\ p.source \in Nat /\ p.fec \in Nat
    BY <2>1 DEF Typed
  <2> QED
    BY <2>2, TallyIs DEF VideoInv
<1>4. ASSUME ground' = ground \/ ground' = "undefined", out' = <<>>,
             UNCHANGED <<rx, fp, stats, frame, whole, reported, last>>
      PROVE  AudioInv' /\ VideoInv' /\ Ascends(out')
  <2>1. VideoInv' /\ Ascends(out')
    BY <1>3, <1>4, OthersKeep
  <2>2. Tallied(stats')
    BY <1>3, <1>4
  <2> QED
    BY <1>2, <2>1, <2>2
<1>5. CASE Video!StreamInfo
  <2>1. stats' = stats
    BY <1>5 DEF Video!StreamInfo
  <2>2. Tallied(stats')
    BY <1>3, <2>1
  <2> QED
    BY <1>2, <1>5, <2>2, StreamInfoKeeps
<1>6. CASE ground # "undefined" /\ Video!AvPacket
  <2>1. PICK f \in Video!Frames \ {0} : \E taken \in BOOLEAN, luck \in Video!Lucks :
          /\ Video!Deliverable(f)
          /\ \E u \in 0 .. TotalOf[f] - 1 :
             IF Video!Old(f) \/ Video!BadProfile(f) THEN Video!Ignore
             ELSE LET s == Video!Handled(f, u, taken, luck) IN Video!Accept(s) \/ Video!Lose(s)
    BY <1>6 DEF Video!AvPacket
  <2>2. f \in 1 .. MaxVideo
    BY VideoNumbers, VideoConstants
  <2>3. PICK taken \in BOOLEAN, luck \in Video!Lucks :
          /\ Video!Deliverable(f)
          /\ \E u \in 0 .. TotalOf[f] - 1 :
             IF Video!Old(f) \/ Video!BadProfile(f) THEN Video!Ignore
             ELSE LET s == Video!Handled(f, u, taken, luck) IN Video!Accept(s) \/ Video!Lose(s)
    BY <2>1
  <2>4. PICK u \in 0 .. TotalOf[f] - 1 :
          IF Video!Old(f) \/ Video!BadProfile(f) THEN Video!Ignore
          ELSE LET s == Video!Handled(f, u, taken, luck) IN Video!Accept(s) \/ Video!Lose(s)
    BY <2>3
  <2>5. u \in Nat
    BY <2>2, VideoConstants
  <2>6. CASE Video!Old(f) \/ Video!BadProfile(f)
    BY <1>4, <2>4, <2>6 DEF Video!Ignore
  <2>7. CASE ~(Video!Old(f) \/ Video!BadProfile(f))
    <3>1. PICK s : s = Video!Handled(f, u, taken, luck)
      OBVIOUS
    <3>2. Video!Accept(s) \/ Video!Lose(s)
      BY <2>4, <2>7, <3>1
    <3>3. CASE Video!Accept(s)
      BY <1>2, <1>6, <2>2, <2>3, <2>5, <2>7, <3>1, <3>3, AcceptKeeps
    <3>4. CASE Video!Lose(s)
      BY <1>4, <3>4 DEF Video!Lose
    <3> QED
      BY <3>2, <3>3, <3>4
  <2> QED
    BY <2>6, <2>7
<1> QED
  BY <1>1, <1>5, <1>6 DEF Video!Next

\* Nothing of the video receiver changes in the other steps.
LEMMA VideoStays ==
  ASSUME VideoInv, UNCHANGED videoVars
  PROVE  VideoInv'
<1>1. Known'
  BY DEF VideoInv, Known, videoVars
<1>2. Current'
  BY DEF VideoInv, Current, Expecting, Collects, videoVars
<1>3. Shown' /\ Rx(rx')
  BY DEF VideoInv, Shown, videoVars
<1> QED
  BY <1>1, <1>2, <1>3 DEF VideoInv

\* No frame came.
LEMMA VideoInit == Init => VideoInv
<1> SUFFICES ASSUME Init PROVE VideoInv
  OBVIOUS
<1>1. /\ rx = [profiles |-> 0, profile |-> -1, cur |-> -1, prev |-> -1, complete |-> 0]
      /\ ground = "own" /\ fp = Video!FpInit
      /\ frame = 0 /\ whole = {} /\ reported = {} /\ last = 0 /\ out = <<>>
  BY DEF Init, Video!Init
<1>2. SeqSpace \in Nat /\ SeqSpace > 0 /\ MaxVideo \in Nat /\ Profiles \in Nat /\ Half \in Nat
  BY SpaceIs, VideoConstants
<1>3. /\ rx.profiles = 0 /\ rx.profile = -1 /\ rx.cur = -1 /\ rx.prev = -1 /\ rx.complete = 0
      /\ RxForm(rx)
  BY <1>1 DEF RxForm
<1>4. Rx(rx)
  BY <1>2, <1>3 DEF Rx, SeqNums
<1>5. Known
  <2>1. Greatest(whole) = 0
    BY <1>1 DEF Greatest
  <2>2. PICK n \in Nat : n = SeqSpace /\ n > 0
    BY <1>2
  <2>3. 0 % n = 0
    BY <2>2
  <2>4. frame \in 0 .. MaxVideo /\ last \in 0 .. frame /\ 1 .. frame - 1 = {}
    BY <1>1, <1>2
  <2>5. whole \in SUBSET (1 .. frame) /\ reported = (1 .. frame - 1) \ whole
    BY <1>1, <2>4
  <2>6. rx.complete = Greatest(whole) % SeqSpace
    BY <1>3, <2>1, <2>2, <2>3
  <2>7. frame - Greatest(whole) <= Half
    BY <1>1, <1>2, <2>1
  <2> QED
    BY <2>4, <2>5, <2>6, <2>7 DEF Known, Told
<1>6. Current
  <2>1. ground \in {"own", "stale", "undefined"}
    BY <1>1
  <2> QED
    BY <1>1, <1>3, <2>1 DEF Current
<1>7. DOMAIN out = {}
  BY <1>1
<1>8. Shown
  BY <1>7 DEF Shown
<1> QED
  BY <1>4, <1>5, <1>6, <1>8 DEF VideoInv

Inv == AudioInv /\ VideoInv
Ordered == \A i \in DOMAIN heard' : heard'[i] > played /\ \A j \in 1 .. i - 1 : heard'[j] < heard'[i]

\* Each step keeps both receivers in order.
LEMMA StepKeeps ==
  ASSUME Inv, [Next]_vars
  PROVE  /\ Inv'
         /\ Ascends(out') \/ UNCHANGED <<rx, fp, out>>
         /\ Ordered \/ UNCHANGED <<Audio!rxVars, heard, push>>
<1> USE DEF Inv
<1>1. CASE TakionVideo
  <2>1. UNCHANGED <<Audio!rxVars, heard, push>>
    BY <1>1 DEF TakionVideo, audioVars, Audio!rxVars
  <2> QED
    BY <1>1, <2>1, VideoKeeps
<1>2. CASE TakionAudio
  <2>1. UNCHANGED videoVars /\ UNCHANGED <<rx, fp, out>>
    BY <1>2 DEF TakionAudio, videoVars
  <2>2. AudioInv' /\ Ordered
    BY <1>2, ReceiveKeeps DEF Ordered
  <2> QED
    BY <2>1, <2>2, VideoStays
<1>3. CASE TakionPush
  <2>1. UNCHANGED videoVars /\ UNCHANGED <<rx, fp, out>>
    BY <1>3 DEF TakionPush, videoVars
  <2>2. AudioInv' /\ heard' = <<>>
    BY <1>3, PushKeeps
  <2>3. DOMAIN heard' = {}
    BY <2>2
  <2>4. Ordered
    BY <2>3 DEF Ordered
  <2> QED
    BY <2>1, <2>2, <2>4, VideoStays
<1>4. CASE CongestionReport
  <2>1. UNCHANGED videoVars /\ UNCHANGED <<rx, fp, out>> /\ UNCHANGED <<Audio!rxVars, heard, push>>
    BY <1>4 DEF CongestionReport, videoVars, audioVars, Audio!rxVars
  <2> QED
    BY <1>4, <2>1, ReportsKeep, VideoStays
<1>5. CASE UNCHANGED vars
  <2>1. UNCHANGED videoVars /\ UNCHANGED <<rx, fp, out>> /\ UNCHANGED <<Audio!rxVars, heard, push>>
    BY <1>5 DEF vars, videoVars, audioVars, Audio!rxVars
  <2>2. UNCHANGED <<kind, prev, startup, push, newest, heard, played, stats, report, since>>
    BY <1>5 DEF vars, audioVars
  <2>3. AudioTypes' /\ Since' /\ Playing' /\ Quiet'
    BY <2>2 DEF AudioInv, AudioTypes, Audio!TypeOK, Since, Playing, Quiet
  <2>4. Recent' /\ Counting' /\ Loss'
    BY <2>2 DEF AudioInv, Recent, Counting, Loss, LossIsExact, Audio!Idle
  <2> QED
    BY <2>1, <2>3, <2>4, VideoStays DEF AudioInv
<1> QED
  BY <1>1, <1>2, <1>3, <1>4, <1>5 DEF Next

\* The invariant holds in every state.
THEOREM Invariant == Spec => []Inv
<1>1. Init => Inv
  BY AudioInit, VideoInit DEF Inv
<1>2. Inv /\ [Next]_vars => Inv'
  BY StepKeeps
<1> QED
  BY <1>1, <1>2, PTL DEF Spec

\* The types of the video receiver's state.
LEMMA VideoTypes ==
  ASSUME VideoInv
  PROVE  Video!TypeOK
<1>1. Rx(rx) /\ Known /\ Current /\ Shown
  BY DEF VideoInv
<1>2. PICK y : y = rx
  OBVIOUS
<1>3. y \in [profiles : {0, Profiles}, profile : -1 .. Profiles, cur : -1 .. SeqSpace - 1,
             prev : -1 .. SeqSpace - 1, complete : SeqNums]
  BY <1>1, <1>2 DEF Rx, RxForm
<1>4. PICK p : p = fp /\ Typed(p)
  BY <1>1, CountsAre
<1>5. frame \in 0 .. MaxVideo /\ last \in 0 .. MaxVideo /\ whole \subseteq 0 .. MaxVideo
      /\ reported \subseteq 0 .. MaxVideo
  <2>1. frame \in 0 .. MaxVideo /\ last \in 0 .. frame /\ whole \in SUBSET (1 .. frame)
        /\ reported = (1 .. frame - 1) \ whole
    BY <1>1 DEF Known, Told
  <2>2. PICK h \in 0 .. MaxVideo : h = frame
    BY <2>1
  <2>3. 1 .. h \subseteq 0 .. MaxVideo /\ 0 .. h \subseteq 0 .. MaxVideo
        /\ 1 .. h - 1 \subseteq 0 .. MaxVideo
    BY <2>2, VideoConstants
  <2> QED
    BY <2>1, <2>2, <2>3
<1>6. /\ {p.source, p.fec, p.gotSource, p.gotFec} \subseteq Nat /\ p.size \in 0 .. 2
      /\ p.slots \in [DOMAIN p.slots -> (0 .. MaxVideo) \cup {-1}] /\ p.flushed \in BOOLEAN
  BY <1>4 DEF Typed
<1>7. \A i \in DOMAIN out : out[i].frame \in 0 .. MaxVideo
  BY <1>1 DEF Shown, Fit
<1>8. ground \in {"own", "stale", "undefined"}
  BY <1>1 DEF Current
<1> QED
  BY <1>2, <1>3, <1>4, <1>5, <1>6, <1>7, <1>8, VideoNumbers DEF Video!TypeOK

\* With slots of their own, frames have their units counted as they come in and
\* become samples made of their units only; and the console is told of exactly the
\* frames that were not decoded.
THEOREM Frames == Spec => []VideoIsRight
<1>1. Inv => VideoIsRight
  <2> SUFFICES ASSUME Inv PROVE VideoIsRight
    OBVIOUS
  <2>1. AudioInv /\ Rx(rx) /\ Known /\ Current /\ Shown
    BY DEF Inv, VideoInv
  <2>2. TypeOK
    BY VideoTypes DEF Inv, AudioInv, AudioTypes, TypeOK
  <2>3. PICK p, A, B : p = fp /\ A = HeldSource(p) /\ B = HeldFec(p)
    OBVIOUS
  <2>4. ASSUME ground = "own"
        PROVE  /\ p.gotFec = Cardinality(B) /\ p.gotSource <= Cardinality(A)
               /\ rx.prev # rx.cur => p.gotSource = Cardinality(A)
               /\ p.gotSource + p.gotFec <= p.source + p.fec
    <3>1. CASE rx.cur = -1
      <4>1. /\ p.gotSource = 0 /\ p.gotFec = 0 /\ p.source = 0 /\ p.fec = 0
            /\ p.slots = [u \in {} |-> -1]
        BY <2>1, <2>3, <3>1, VideoNumbers DEF Current, Video!FpInit
      <4>2. DOMAIN p.slots = {}
        BY <4>1
      <4>3. Video!Filled(p) = {}
        BY <4>2 DEF Video!Filled
      <4>4. A = {} /\ B = {}
        BY <2>3, <4>3 DEF HeldSource, HeldFec
      <4>5. Cardinality(A) = 0 /\ Cardinality(B) = 0
        BY <4>4, FS_EmptySet
      <4> QED
        BY <4>1, <4>5
    <3>2. CASE rx.cur # -1
      <4>1. Collects(ground, rx, p, frame)
        BY <2>1, <2>3, <3>2 DEF Current, Expecting
      <4>2. Holds(p, frame) /\ (rx.prev # rx.cur => Exact(p))
        BY <2>4, <4>1 DEF Collects
      <4>3. frame \in 0 .. MaxVideo
        BY <2>1 DEF Known, Told
      <4>4. p.gotFec = Cardinality(B) /\ p.gotSource <= Cardinality(A)
        BY <2>3, <4>2 DEF Holds
      <4>5. p.gotSource \in Nat /\ p.gotFec \in Nat /\ p.gotSource <= p.source /\ p.gotFec <= p.fec
        BY <4>2, <4>3, HoldsCounts
      <4>6. p.source \in Nat /\ p.fec \in Nat
        BY <4>2 DEF Holds, Typed
      <4>7. rx.prev # rx.cur => p.gotSource = Cardinality(A)
        BY <2>3, <4>2 DEF Exact
      <4> QED
        BY <4>4, <4>5, <4>6, <4>7
    <3> QED
      BY <3>1, <3>2
  <2>5. Video!Cardinality(A) = Cardinality(A) /\ Video!Cardinality(B) = Cardinality(B)
    BY VideoCardinality
  <2>6. /\ A = {u \in Video!Filled(fp) : u < fp.source}
        /\ B = {u \in Video!Filled(fp) : u >= fp.source}
    BY <2>3 DEF HeldSource, HeldFec
  <2>7. Video!TypeOK
    BY <2>2 DEF TypeOK
  <2>8. Video!UnitsCounted
    BY <2>3, <2>4, <2>5, <2>6, <2>7 DEF Video!UnitsCounted
  <2>9. Video!SamplesAreWhole
    BY <2>1 DEF Shown, Fit, Good, Video!SamplesAreWhole
  <2>10. Video!CorruptIsReported
    BY <2>1 DEF Known, Told, Video!CorruptIsReported
  <2> QED
    BY <2>2, <2>8, <2>9, <2>10 DEF VideoIsRight, SamplesAreWhole
<1> QED
  BY <1>1, Invariant, PTL

\* The sink has always played the newest audio frame that came.
THEOREM Playback == Spec => []NewestIsPlayed
<1>1. Inv => NewestIsPlayed
  BY DEF Inv, AudioInv, Playing, NewestIsPlayed, Audio!NewestIsPlayed
<1> QED
  BY <1>1, Invariant, PTL

\* A report says exactly how many audio packets are missing.
THEOREM Reports == Spec => []LossIsExact
<1>1. Inv => LossIsExact
  BY DEF Inv, AudioInv, Loss
<1> QED
  BY <1>1, Invariant, PTL

\* Frames of video and of audio come out in their order, none twice.
THEOREM Order == Spec => DeliveredInOrder
<1>1. Inv /\ [Next]_vars =>
        /\ [\A i \in DOMAIN out' :
               /\ out'[i].frame > last
               /\ \A j \in 1 .. i - 1 : out'[j].frame < out'[i].frame]_<<rx, fp, out>>
        /\ [\A i \in DOMAIN heard' :
               /\ heard'[i] > played
               /\ \A j \in 1 .. i - 1 : heard'[j] < heard'[i]]_<<Audio!rxVars, heard, push>>
  BY StepKeeps DEF Ascends, Ordered
<1> QED
  BY <1>1, Invariant, PTL DEF Spec, DeliveredInOrder, Video!SamplesInOrder, Audio!FramesInOrder
=============================================================================
