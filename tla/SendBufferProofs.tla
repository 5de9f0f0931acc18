-------------------------- MODULE SendBufferProofs --------------------------
(***************************************************************************)
(* SendBuffer for any number of senders, any buffer size, wherever the     *)
(* numbers wrap, and whether sends and waits may fail or not: what ack     *)
(* makes of the buffer, that no number given out is lost or counted twice, *)
(* and that the resend thread never sleeps through its work.               *)
(***************************************************************************)
EXTENDS SendBuffer, WellFoundedInduction, FiniteSetTheorems, TLAPS

-----------------------------------------------------------------------------
(* Natural numbers: a least element, induction, a greatest element *)

\* The numbers up to k are a proper subset of those up to m.
LEMMA Below ==
  ASSUME NEW k \in Nat, NEW m \in Nat, k < m
  PROVE  <<0 .. k, 0 .. m>> \in StrictSubsetOrdering(Nat)
<1>1. 0 .. k \subseteq 0 .. m /\ 0 .. k # 0 .. m
  <2>1. m \in 0 .. m /\ m \notin 0 .. k
    OBVIOUS
  <2> QED
    BY <2>1
<1>2. <<0 .. k, 0 .. m>> \in (SUBSET Nat) \X (SUBSET Nat)
  OBVIOUS
<1> DEFINE p == <<0 .. k, 0 .. m>>
<1>3. p[1] = 0 .. k /\ p[2] = 0 .. m
  OBVIOUS
<1> QED
  BY <1>1, <1>2, <1>3, Zenon DEF StrictSubsetOrdering

\* A set of natural numbers has a least element.
LEMMA LeastExists ==
  ASSUME NEW S \in SUBSET Nat, S # {}
  PROVE  \E m \in S : \A k \in S : m <= k
<1> DEFINE R == StrictSubsetOrdering(Nat)
           T == {0 .. n : n \in S}
<1>1. IsWellFoundedOn(R, FiniteSubsetsOf(Nat))
  BY FS_StrictSubsetOrderingWellFounded
<1>2. T \subseteq FiniteSubsetsOf(Nat)
  <2>1. ASSUME NEW n \in S PROVE 0 .. n \in FiniteSubsetsOf(Nat)
    <3>1. n \in Int /\ 0 \in Int /\ 0 .. n \in SUBSET Nat
      OBVIOUS
    <3>2. IsFiniteSet(0 .. n)
      BY <3>1, FS_Interval
    <3> QED
      BY <3>1, <3>2, Zenon DEF FiniteSubsetsOf
  <2> HIDE DEF R
  <2> QED
    BY <2>1, Zenon DEF T
<1>3. T # {}
  BY Zenon
<1> HIDE DEF T, R
<1>4. \E x \in T : \A y \in T : <<y, x>> \notin R
  BY <1>1, <1>2, <1>3, WFMin, Zenon
<1>5. PICK m \in S : \A k \in S : <<0 .. k, 0 .. m>> \notin R
  BY <1>4, Zenon DEF T
<1>6. ASSUME NEW k \in S, k < m PROVE FALSE
  BY <1>5, <1>6, Below DEF R
<1> QED
  BY <1>5, <1>6

\* Induction, for a set instead of a predicate.
LEMMA Induction ==
  ASSUME NEW S \in SUBSET Nat, 0 \in S, \A n \in S : n + 1 \in S
  PROVE  S = Nat
<1> SUFFICES ASSUME Nat \ S # {} PROVE FALSE
  OBVIOUS
<1>1. PICK m \in Nat \ S : \A k \in Nat \ S : m <= k
  BY LeastExists, Nat \ S \in SUBSET Nat
<1>2. m # 0 /\ m - 1 \in Nat /\ m - 1 \in S
  BY <1>1
<1> QED
  BY <1>1, <1>2

\* A set of numbers up to a bound has a greatest element.
LEMMA GreatestExists ==
  ASSUME NEW b \in Nat, NEW S \in SUBSET (0 .. b), S # {}
  PROVE  Max(S) \in S /\ \A k \in S : Max(S) >= k
<1> DEFINE D == {m \in 0 .. b : b - m \in S}
<1>1. D \in SUBSET Nat /\ D # {}
  <2>1. PICK k \in S : TRUE
    OBVIOUS
  <2>2. b - k \in D
    OBVIOUS
  <2> QED
    BY <2>2
<1>2. PICK m \in D : \A k \in D : m <= k
  <2> HIDE DEF D
  <2> QED
    BY <1>1, LeastExists
<1>3. b - m \in S /\ \A k \in S : b - m >= k
  <2>1. \A k \in S : b - k \in D
    OBVIOUS
  <2> QED
    BY <1>2, <2>1
<1> QED
  BY <1>3 DEF Max
-----------------------------------------------------------------------------
(* The loop of ack *)

First(p) == [array |-> p, acked |-> {}, shift |-> 0, start |-> NoGap]

\* The rounds of the loop, up to the n-th.
IsRounds(f, p, ack, n) ==
  f = [k \in 0 .. n |-> IF k = 0 THEN First(p) ELSE AckRound(f[k - 1], k - 1, ack)]

\* Their results exist, however many there are.
LEMMA RoundsExist ==
  ASSUME NEW p, NEW ack
  PROVE  \A n \in Nat : \E f : IsRounds(f, p, ack, n)
<1> DEFINE S == {n \in Nat : \E f : IsRounds(f, p, ack, n)}
<1>1. 0 \in S
  <2> DEFINE g == [k \in 0 .. 0 |-> First(p)]
  <2>1. g = [k \in 0 .. 0 |-> IF k = 0 THEN First(p) ELSE AckRound(g[k - 1], k - 1, ack)]
    OBVIOUS
  <2>2. IsRounds(g, p, ack, 0)
    BY <2>1 DEF IsRounds
  <2> QED
    BY <2>2
<1>2. ASSUME NEW n \in S PROVE n + 1 \in S
  <2>1. PICK f : IsRounds(f, p, ack, n)
    OBVIOUS
  <2> DEFINE g == [k \in 0 .. n + 1 |-> IF k = n + 1 THEN AckRound(f[n], n, ack) ELSE f[k]]
  <2>2. DOMAIN f = 0 .. n /\ \A k \in 0 .. n :
          f[k] = IF k = 0 THEN First(p) ELSE AckRound(f[k - 1], k - 1, ack)
    BY <2>1 DEF IsRounds
  <2>3. g[n + 1] = AckRound(f[n], n, ack) /\ \A k \in 0 .. n : g[k] = f[k]
    OBVIOUS
  <2>4. \A k \in 0 .. n + 1 :
          g[k] = IF k = 0 THEN First(p) ELSE AckRound(g[k - 1], k - 1, ack)
    <3> SUFFICES ASSUME NEW k \in 0 .. n + 1
                 PROVE  g[k] = IF k = 0 THEN First(p) ELSE AckRound(g[k - 1], k - 1, ack)
      OBVIOUS
    <3> HIDE DEF g
    <3>1. CASE k = n + 1
      <4>1. k # 0 /\ k - 1 = n /\ n \in 0 .. n
        BY <3>1
      <4> QED
        BY <2>3, <3>1, <4>1
    <3>2. CASE k # n + 1
      <4>1. k \in 0 .. n /\ (k # 0 => k - 1 \in 0 .. n)
        BY <3>2
      <4> QED
        BY <2>2, <2>3, <4>1
    <3> QED
      BY <3>1, <3>2
  <2>5. g = [k \in 0 .. n + 1 |-> g[k]]
    OBVIOUS
  <2> HIDE DEF g
  <2>6. IsRounds(g, p, ack, n + 1)
    BY <2>4, <2>5, Zenon DEF IsRounds
  <2> QED
    BY <2>6
<1> HIDE DEF S
<1>3. S \in SUBSET Nat
  BY DEF S
<1>4. S = Nat
  BY <1>1, <1>2, <1>3, Induction
<1> QED
  BY <1>4 DEF S

\* All of them.
Rounds(p, ack) == CHOOSE f : IsRounds(f, p, ack, Len(p))

\* What ack returns is read off the last round.
LEMMA ResultIs ==
  ASSUME NEW p, NEW ack
  PROVE  LET end == Rounds(p, ack)[Len(p)]
             rest == Move(end.array, end.start, end.start + end.shift,
                          Len(p) - (end.start + end.shift))
         IN  /\ AckResult(p, ack).packets = IF end.start = NoGap THEN p
                                  ELSE SubSeq(rest, 1, Len(p) - end.shift)
             /\ AckResult(p, ack).acked = end.acked
BY DEF AckResult, Rounds, IsRounds, First

\* How many of the first k packets stay.
Left(p, ack, k) == Cardinality({j \in 1 .. k : ~Covered(p[j].seq_num, ack)})

\* One packet more: it stays or it does not.
LEMMA LeftNext ==
  ASSUME NEW p, NEW ack, NEW k \in Nat
  PROVE  /\ Left(p, ack, 0) = 0
         /\ Left(p, ack, k) \in 0 .. k
         /\ Left(p, ack, k + 1) = IF Covered(p[k + 1].seq_num, ack)
                                  THEN Left(p, ack, k) ELSE Left(p, ack, k) + 1
<1> DEFINE K == {j \in 1 .. k : ~Covered(p[j].seq_num, ack)}
           N == {j \in 1 .. k + 1 : ~Covered(p[j].seq_num, ack)}
<1>1. {j \in 1 .. 0 : ~Covered(p[j].seq_num, ack)} = {}
  OBVIOUS
<1>2. IsFiniteSet(1 .. k) /\ Cardinality(1 .. k) = k
  BY FS_Interval
<1>3. IsFiniteSet(K) /\ Cardinality(K) \in Nat /\ Cardinality(K) <= k
  <2>1. K \subseteq 1 .. k
    OBVIOUS
  <2> HIDE DEF K
  <2> QED
    BY <1>2, <2>1, FS_Subset, FS_CardinalityType
<1>4. N = IF Covered(p[k + 1].seq_num, ack) THEN K ELSE K \cup {k + 1}
  OBVIOUS
<1>5. k + 1 \notin K
  OBVIOUS
<1> HIDE DEF K, N
<1>6. Cardinality(N) = IF Covered(p[k + 1].seq_num, ack)
                       THEN Cardinality(K) ELSE Cardinality(K) + 1
  BY <1>3, <1>4, <1>5, FS_AddElement
<1>7. Left(p, ack, 0) = 0
  BY <1>1, FS_EmptySet DEF Left
<1> QED
  BY <1>3, <1>6, <1>7 DEF Left, K, N

\* What the loop carries from round to round.
Shape(p, T) == [array : [1 .. Len(p) -> T],
                acked : SUBSET {p[k].seq_num : k \in 1 .. Len(p)},
                shift : Nat, start : Nat \cup {NoGap}]

\* The numbers among the first i that ack covers.
CoveredOf(p, ack, i) == {p[k].seq_num : k \in {j \in 1 .. i : Covered(p[j].seq_num, ack)}}

\* The loop's invariant after i rounds.  Either nothing was covered so far ...
NoneYet(a, p, ack, i) ==
  /\ a.start = NoGap /\ a.shift = 0 /\ a.array = p
  /\ \A k \in 0 .. i : Left(p, ack, k) = k

\* ... or there is one gap, of as many free places as packets were covered:
\* in front of it are those that stay of the packets before its end, each at
\* its place; the packets behind it were not moved yet, and none of those
\* looked at is covered.
OneGap(array, start, shift, p, ack, i) ==
  /\ start \in Nat /\ shift \in Nat /\ start + shift <= i
  /\ start = Left(p, ack, start + shift)
  /\ \A k \in start + shift .. i : Left(p, ack, k) = k - shift
  /\ \A k \in start + shift + 1 .. Len(p) : array[k] = p[k]
  /\ \A k \in 1 .. start + shift :
       ~Covered(p[k].seq_num, ack) =>
         Left(p, ack, k) \in 1 .. start /\ array[Left(p, ack, k)] = p[k]

AfterRound(a, p, ack, i) ==
  /\ a.acked = CoveredOf(p, ack, i)
  /\ \/ NoneYet(a, p, ack, i)
     \/ OneGap(a.array, a.start, a.shift, p, ack, i)

\* Before the first round nothing was looked at.
LEMMA FirstRound ==
  ASSUME NEW T, NEW p \in Seq(T), NEW ack
  PROVE  First(p) \in Shape(p, T) /\ AfterRound(First(p), p, ack, 0)
<1> DEFINE a == First(p)
<1>1. a.array = p /\ a.acked = {} /\ a.shift = 0 /\ a.start = NoGap
  BY DEF First
<1>2. p \in [1 .. Len(p) -> T]
  OBVIOUS
<1>3. Left(p, ack, 0) = 0
  BY LeftNext
<1>4. a \in Shape(p, T)
  BY <1>2 DEF First, Shape
<1> HIDE DEF a
<1> QED
  BY <1>1, <1>2, <1>3, <1>4 DEF AfterRound, NoneYet, CoveredOf, a

\* A packet that stays: the gap, if any, ends before it.
LEMMA RoundStays ==
  ASSUME NEW T, NEW p \in Seq(T), NEW ack, NEW i \in 0 .. Len(p) - 1,
         NEW a \in Shape(p, T), AfterRound(a, p, ack, i), ~Covered(p[i + 1].seq_num, ack)
  PROVE  AfterRound(a, p, ack, i + 1)
<1>0. Len(p) \in Nat /\ i \in Nat
  OBVIOUS
<1>1. Left(p, ack, i) \in 0 .. i /\ Left(p, ack, i + 1) = Left(p, ack, i) + 1
  BY <1>0, LeftNext
<1>2. CoveredOf(p, ack, i + 1) = CoveredOf(p, ack, i)
  <2>1. {j \in 1 .. i + 1 : Covered(p[j].seq_num, ack)} = {j \in 1 .. i : Covered(p[j].seq_num, ack)}
    BY <1>0
  <2> QED
    BY <2>1 DEF CoveredOf
<1>3. CASE NoneYet(a, p, ack, i)
  BY <1>0, <1>1, <1>2, <1>3 DEF AfterRound, NoneYet
<1>4. CASE OneGap(a.array, a.start, a.shift, p, ack, i)
  BY <1>0, <1>1, <1>2, <1>4 DEF AfterRound, OneGap
<1> QED
  BY <1>3, <1>4 DEF AfterRound

\* The sets of a round that finds a covered packet.
LEMMA CoveredNext ==
  ASSUME NEW T, NEW p \in Seq(T), NEW ack, NEW i \in 0 .. Len(p) - 1,
         Covered(p[i + 1].seq_num, ack)
  PROVE  /\ CoveredOf(p, ack, i + 1) = CoveredOf(p, ack, i) \cup {p[i + 1].seq_num}
         /\ Left(p, ack, i + 1) = Left(p, ack, i)
<1>0. Len(p) \in Nat /\ i \in Nat
  OBVIOUS
<1>1. {j \in 1 .. i + 1 : Covered(p[j].seq_num, ack)}
        = {j \in 1 .. i : Covered(p[j].seq_num, ack)} \cup {i + 1}
  BY <1>0
<1>2. {p[k].seq_num : k \in {j \in 1 .. i : Covered(p[j].seq_num, ack)} \cup {i + 1}}
        = {p[k].seq_num : k \in {j \in 1 .. i : Covered(p[j].seq_num, ack)}} \cup {p[i + 1].seq_num}
  OBVIOUS
<1>3. Left(p, ack, i + 1) = Left(p, ack, i)
  BY <1>0, LeftNext
<1> QED
  BY <1>1, <1>2, <1>3 DEF CoveredOf

\* The first covered packet opens the gap.
LEMMA RoundOpens ==
  ASSUME NEW T, NEW p \in Seq(T), NEW ack, NEW i \in 0 .. Len(p) - 1,
         NoneYet([start |-> NoGap, shift |-> 0, array |-> p], p, ack, i),
         Covered(p[i + 1].seq_num, ack)
  PROVE  OneGap(p, i, 1, p, ack, i + 1)
<1>0. Len(p) \in Nat /\ i \in Nat
  OBVIOUS
<1>1. \A k \in 0 .. i : Left(p, ack, k) = k
  BY DEF NoneYet
<1>2. Left(p, ack, i + 1) = i
  BY <1>0, <1>1, CoveredNext
<1> QED
  BY <1>0, <1>1, <1>2 DEF OneGap

\* A covered packet right behind the gap widens it.
LEMMA RoundWidens ==
  ASSUME NEW T, NEW p \in Seq(T), NEW ack, NEW i \in 0 .. Len(p) - 1,
         NEW array, NEW start, NEW shift, OneGap(array, start, shift, p, ack, i),
         Covered(p[i + 1].seq_num, ack), start + shift = i
  PROVE  OneGap(array, start, shift + 1, p, ack, i + 1)
<1>0. Len(p) \in Nat /\ i \in Nat
  OBVIOUS
<1>1. /\ start \in Nat /\ shift \in Nat /\ start = Left(p, ack, i)
      /\ \A k \in i + 1 .. Len(p) : array[k] = p[k]
      /\ \A k \in 1 .. i : ~Covered(p[k].seq_num, ack) =>
           Left(p, ack, k) \in 1 .. start /\ array[Left(p, ack, k)] = p[k]
  BY DEF OneGap
<1>2. Left(p, ack, i + 1) = start
  BY <1>1, CoveredNext
<1>3. start + (shift + 1) = i + 1 /\ i + 1 - (shift + 1) = start
  BY <1>0, <1>1
<1>4. \A k \in i + 1 .. i + 1 : Left(p, ack, k) = k - (shift + 1)
  <2>1. \A k \in i + 1 .. i + 1 : k = i + 1
    BY <1>0
  <2>2. \A k \in i + 1 .. i + 1 : k - (shift + 1) = start
    BY <1>0, <1>1, <1>3, <2>1
  <2> QED
    BY <1>2, <2>1, <2>2
<1>5. \A k \in i + 2 .. Len(p) : array[k] = p[k]
  BY <1>0, <1>1
<1>6. \A k \in 1 .. i + 1 : ~Covered(p[k].seq_num, ack) =>
        Left(p, ack, k) \in 1 .. start /\ array[Left(p, ack, k)] = p[k]
  BY <1>0, <1>1
<1> QED
  BY <1>0, <1>1, <1>2, <1>3, <1>4, <1>5, <1>6 DEF OneGap

\* The first i packets of the array p without those that are covered.
Closed(moved, p, T, ack, i, shift) ==
  /\ moved \in [1 .. Len(p) -> T]
  /\ \A k \in i + 1 .. Len(p) : moved[k] = p[k]
  /\ \A k \in 1 .. i : ~Covered(p[k].seq_num, ack) =>
       Left(p, ack, k) \in 1 .. i - shift /\ moved[Left(p, ack, k)] = p[k]

\* The packets behind the gap are moved over it.
LEMMA MoveCloses ==
  ASSUME NEW T, NEW p \in Seq(T), NEW ack, NEW i \in 0 .. Len(p),
         NEW array \in [1 .. Len(p) -> T], NEW start, NEW shift,
         OneGap(array, start, shift, p, ack, i), NEW moved,
         moved = Move(array, start, start + shift, i - (start + shift))
  PROVE  Closed(moved, p, T, ack, i, shift)
<1>0. Len(p) \in Nat /\ i \in Nat /\ i <= Len(p)
  OBVIOUS
<1>1. /\ start \in Nat /\ shift \in Nat /\ start + shift <= i
      /\ start = Left(p, ack, start + shift)
      /\ \A k \in start + shift .. i : Left(p, ack, k) = k - shift
      /\ \A k \in start + shift + 1 .. Len(p) : array[k] = p[k]
      /\ \A k \in 1 .. start + shift : ~Covered(p[k].seq_num, ack) =>
           Left(p, ack, k) \in 1 .. start /\ array[Left(p, ack, k)] = p[k]
  BY DEF OneGap
<1>2. moved = [k \in 1 .. Len(p) |-> IF k - 1 \in start .. i - shift - 1
                                     THEN array[k + shift] ELSE array[k]]
  <2>1. start + (i - (start + shift)) - 1 = i - shift - 1
    BY <1>0, <1>1
  <2>2. \A k \in Nat : k + (start + shift) - start = k + shift
    BY <1>0, <1>1
  <2>3. DOMAIN array = 1 .. Len(p)
    OBVIOUS
  <2> QED
    BY <2>1, <2>2, <2>3 DEF Move
<1>3. moved \in [1 .. Len(p) -> T]
  <2>1. \A k \in 1 .. Len(p) : k - 1 \in start .. i - shift - 1 => k + shift \in 1 .. Len(p)
    BY <1>0, <1>1
  <2> QED
    BY <1>2, <2>1
<1>4. \A k \in 1 .. Len(p) :
        moved[k] = IF k - 1 \in start .. i - shift - 1 THEN array[k + shift] ELSE array[k]
  BY <1>2
<1>5. ASSUME NEW k \in 1 .. i, ~Covered(p[k].seq_num, ack)
      PROVE  Left(p, ack, k) \in 1 .. i - shift /\ moved[Left(p, ack, k)] = p[k]
  <2> DEFINE n == Left(p, ack, k)
  <2>1. CASE k <= start + shift
    <3>1. n \in 1 .. start /\ array[n] = p[k]
      BY <1>1, <1>5, <2>1
    <3> HIDE DEF n
    <3>2. /\ n \in 1 .. Len(p) /\ n - 1 \notin start .. i - shift - 1
          /\ n \in 1 .. i - shift
      BY <1>0, <1>1, <3>1
    <3> QED
      BY <1>4, <3>1, <3>2 DEF n
  <2>2. CASE k > start + shift
    <3>1. k \in start + shift + 1 .. i
      BY <1>0, <1>1, <1>5, <2>2
    <3>2. n = k - shift /\ array[k] = p[k]
      BY <1>0, <1>1, <3>1
    <3> HIDE DEF n
    <3>3. /\ n \in 1 .. Len(p) /\ n - 1 \in start .. i - shift - 1
          /\ n + shift = k /\ n \in 1 .. i - shift
      BY <1>0, <1>1, <3>1, <3>2
    <3> QED
      BY <1>4, <3>2, <3>3 DEF n
  <2> QED
    BY <1>1, <2>1, <2>2
<1>6. \A k \in i + 1 .. Len(p) : moved[k] = p[k]
  <2>1. \A k \in i + 1 .. Len(p) :
          /\ k \in 1 .. Len(p) /\ k \in start + shift + 1 .. Len(p)
          /\ k - 1 \notin start .. i - shift - 1
    BY <1>0, <1>1
  <2> QED
    BY <1>1, <1>4, <2>1
<1> QED
  BY <1>3, <1>5, <1>6 DEF Closed

\* The packets between the gap and a covered one are moved, and a new gap
\* begins right behind them.
LEMMA RoundMoves ==
  ASSUME NEW T, NEW p \in Seq(T), NEW ack, NEW i \in 0 .. Len(p) - 1,
         NEW array \in [1 .. Len(p) -> T], NEW start, NEW shift,
         OneGap(array, start, shift, p, ack, i),
         Covered(p[i + 1].seq_num, ack), NEW moved,
         moved = Move(array, start, start + shift, i - (start + shift))
  PROVE  moved \in [1 .. Len(p) -> T] /\ OneGap(moved, i - shift, shift + 1, p, ack, i + 1)
<1>0. Len(p) \in Nat /\ i \in Nat /\ i \in 0 .. Len(p)
  OBVIOUS
<1>1. /\ moved \in [1 .. Len(p) -> T]
      /\ \A k \in i + 1 .. Len(p) : moved[k] = p[k]
      /\ \A k \in 1 .. i : ~Covered(p[k].seq_num, ack) =>
           Left(p, ack, k) \in 1 .. i - shift /\ moved[Left(p, ack, k)] = p[k]
  <2>1. Closed(moved, p, T, ack, i, shift)
    BY <1>0, MoveCloses
  <2> QED
    BY <2>1 DEF Closed
<1>2. start \in Nat /\ shift \in Nat /\ start + shift <= i /\ Left(p, ack, i) = i - shift
  BY <1>0 DEF OneGap
<1>3. Left(p, ack, i + 1) = i - shift
  BY <1>2, CoveredNext
<1>4. i - shift \in Nat /\ (i - shift) + (shift + 1) = i + 1
  BY <1>0, <1>2
<1>5. \A k \in i + 1 .. i + 1 : Left(p, ack, k) = k - (shift + 1)
  <2>1. \A k \in i + 1 .. i + 1 : k = i + 1
    BY <1>0
  <2>2. \A k \in i + 1 .. i + 1 : k - (shift + 1) = i - shift
    BY <1>0, <1>2, <2>1
  <2> QED
    BY <1>3, <2>1, <2>2
<1>6. \A k \in i + 2 .. Len(p) : moved[k] = p[k]
  BY <1>0, <1>1
<1>7. \A k \in 1 .. i + 1 : ~Covered(p[k].seq_num, ack) =>
        Left(p, ack, k) \in 1 .. i - shift /\ moved[Left(p, ack, k)] = p[k]
  BY <1>0, <1>1
<1>8. OneGap(moved, i - shift, shift + 1, p, ack, i + 1)
  BY <1>0, <1>2, <1>3, <1>4, <1>5, <1>6, <1>7 DEF OneGap
<1> QED
  BY <1>1, <1>8

\* One round of the loop.
LEMMA OneRound ==
  ASSUME NEW T, NEW p \in Seq(T), NEW ack, NEW i \in 0 .. Len(p) - 1,
         NEW a \in Shape(p, T), AfterRound(a, p, ack, i)
  PROVE  /\ AckRound(a, i, ack) \in Shape(p, T)
         /\ AfterRound(AckRound(a, i, ack), p, ack, i + 1)
<1> DEFINE b == AckRound(a, i, ack)
           acked == a.acked \cup {p[i + 1].seq_num}
<1>0. Len(p) \in Nat /\ i \in Nat /\ i + 1 \in 1 .. Len(p) /\ NoGap \notin Nat
  BY DEF NoGap
<1>1. a.array[i + 1] = p[i + 1]
  BY <1>0 DEF AfterRound, NoneYet, OneGap
<1>2. CASE ~Covered(p[i + 1].seq_num, ack)
  BY <1>1, <1>2, RoundStays DEF AckRound
<1>3. ASSUME Covered(p[i + 1].seq_num, ack)
      PROVE  /\ acked = CoveredOf(p, ack, i + 1)
             /\ acked \in SUBSET {p[k].seq_num : k \in 1 .. Len(p)}
  BY <1>0, <1>3, CoveredNext DEF AfterRound, Shape
<1>4. CASE Covered(p[i + 1].seq_num, ack) /\ a.start = NoGap
  <2>1. a.shift = 0 /\ a.array = p /\ NoneYet([start |-> NoGap, shift |-> 0, array |-> p], p, ack, i)
    BY <1>0, <1>4 DEF AfterRound, NoneYet, OneGap
  <2>2. b = [array |-> p, acked |-> acked, shift |-> 1, start |-> i]
    <3>1. b = [array |-> a.array, acked |-> acked, shift |-> a.shift + 1, start |-> i]
      BY <1>1, <1>4 DEF AckRound, Shape
    <3> QED
      BY <2>1, <3>1
  <2>3. OneGap(p, i, 1, p, ack, i + 1)
    BY <1>4, <2>1, RoundOpens
  <2>4. b \in Shape(p, T)
    BY <1>0, <1>3, <1>4, <2>2 DEF Shape
  <2> HIDE DEF b
  <2>5. b.array = p /\ b.acked = acked /\ b.shift = 1 /\ b.start = i
    BY <2>2
  <2> QED
    BY <1>3, <1>4, <2>3, <2>4, <2>5 DEF AfterRound, b
<1>5. CASE Covered(p[i + 1].seq_num, ack) /\ a.start # NoGap
  <2>1. /\ OneGap(a.array, a.start, a.shift, p, ack, i)
        /\ a.start \in Nat /\ a.shift \in Nat /\ a.start + a.shift <= i
    BY <1>5 DEF AfterRound, NoneYet, OneGap
  <2>2. CASE a.start + a.shift = i
    <3>1. b = [array |-> a.array, acked |-> acked, shift |-> a.shift + 1, start |-> a.start]
      BY <1>1, <1>5, <2>2 DEF AckRound, Shape
    <3>2. OneGap(a.array, a.start, a.shift + 1, p, ack, i + 1)
      BY <1>5, <2>1, <2>2, RoundWidens
    <3>3. b \in Shape(p, T)
      BY <1>3, <1>5, <3>1 DEF Shape
    <3> HIDE DEF b
    <3>4. b.array = a.array /\ b.acked = acked /\ b.shift = a.shift + 1 /\ b.start = a.start
      BY <3>1
    <3> QED
      BY <1>3, <1>5, <3>2, <3>3, <3>4 DEF AfterRound, b
  <2>3. CASE a.start + a.shift # i
    <3> DEFINE moved == Move(a.array, a.start, a.start + a.shift, i - (a.start + a.shift))
    <3>1. b = [array |-> moved, acked |-> acked, shift |-> a.shift + 1, start |-> i - a.shift]
      BY <1>1, <1>5, <2>3 DEF AckRound, Shape
    <3>2. moved \in [1 .. Len(p) -> T] /\ OneGap(moved, i - a.shift, a.shift + 1, p, ack, i + 1)
      <4>1. a.array \in [1 .. Len(p) -> T]
        BY DEF Shape
      <4> QED
        BY <1>5, <2>1, <4>1, RoundMoves
    <3>3. b \in Shape(p, T)
      BY <1>0, <1>3, <1>5, <2>1, <3>1, <3>2 DEF Shape
    <3> HIDE DEF b, moved
    <3>4. b.array = moved /\ b.acked = acked /\ b.shift = a.shift + 1 /\ b.start = i - a.shift
      BY <3>1
    <3> QED
      BY <1>3, <1>5, <3>2, <3>3, <3>4 DEF AfterRound, b
  <2> QED
    BY <2>2, <2>3
<1> QED
  BY <1>2, <1>4, <1>5

\* All rounds of the loop.
LEMMA AllRounds ==
  ASSUME NEW T, NEW p \in Seq(T), NEW ack
  PROVE  LET end == Rounds(p, ack)[Len(p)]
         IN  end \in Shape(p, T) /\ AfterRound(end, p, ack, Len(p))
<1> DEFINE r == Rounds(p, ack)
           S == {n \in Nat : n <= Len(p) => r[n] \in Shape(p, T) /\ AfterRound(r[n], p, ack, n)}
<1>0. Len(p) \in Nat
  OBVIOUS
<1>1. IsRounds(r, p, ack, Len(p))
  BY <1>0, RoundsExist DEF Rounds
<1>2. \A k \in 0 .. Len(p) :
        r[k] = IF k = 0 THEN First(p) ELSE AckRound(r[k - 1], k - 1, ack)
  BY <1>1 DEF IsRounds
<1> HIDE DEF r
<1>3. 0 \in S
  <2>1. r[0] = First(p)
    BY <1>0, <1>2
  <2> QED
    BY <2>1, FirstRound
<1>4. ASSUME NEW n \in S PROVE n + 1 \in S
  <2> SUFFICES ASSUME n + 1 <= Len(p)
               PROVE  r[n + 1] \in Shape(p, T) /\ AfterRound(r[n + 1], p, ack, n + 1)
    OBVIOUS
  <2>1. /\ n \in 0 .. Len(p) - 1 /\ n + 1 \in 0 .. Len(p) /\ n + 1 # 0 /\ (n + 1) - 1 = n
        /\ n <= Len(p)
    BY <1>0
  <2>2. r[n + 1] = AckRound(r[n], n, ack)
    BY <1>2, <2>1
  <2>3. r[n] \in Shape(p, T) /\ AfterRound(r[n], p, ack, n)
    BY <2>1
  <2> QED
    BY <2>1, <2>2, <2>3, OneRound
<1> HIDE DEF S
<1>5. S = Nat
  <2>1. S \in SUBSET Nat
    BY DEF S
  <2> QED
    BY <1>3, <1>4, <2>1, Induction
<1> QED
  BY <1>0, <1>5 DEF S, r

\* Every place of the result is taken by a packet that stays.
LEMMA LeftOnto ==
  ASSUME NEW p, NEW ack
  PROVE  \A m \in Nat : \A j \in 1 .. Left(p, ack, m) :
           \E k \in 1 .. m : ~Covered(p[k].seq_num, ack) /\ Left(p, ack, k) = j
<1> DEFINE Hit(m, j) == \E k \in 1 .. m : ~Covered(p[k].seq_num, ack) /\ Left(p, ack, k) = j
           S == {m \in Nat : \A j \in 1 .. Left(p, ack, m) : Hit(m, j)}
<1>1. 0 \in S
  BY LeftNext
<1>2. ASSUME NEW m \in S PROVE m + 1 \in S
  <2> SUFFICES ASSUME NEW j \in 1 .. Left(p, ack, m + 1) PROVE Hit(m + 1, j)
    OBVIOUS
  <2>1. /\ Left(p, ack, m) \in 0 .. m
        /\ Left(p, ack, m + 1) = IF Covered(p[m + 1].seq_num, ack)
                                 THEN Left(p, ack, m) ELSE Left(p, ack, m) + 1
    BY LeftNext
  <2>2. CASE j \in 1 .. Left(p, ack, m)
    <3>1. Hit(m, j)
      BY <2>2
    <3> QED
      BY <3>1
  <2>3. CASE j \notin 1 .. Left(p, ack, m)
    <3>1. ~Covered(p[m + 1].seq_num, ack) /\ j = Left(p, ack, m + 1)
      BY <2>1, <2>3
    <3> QED
      BY <3>1
  <2> QED
    BY <2>2, <2>3
<1>3. S \in SUBSET Nat
  OBVIOUS
<1> HIDE DEF S
<1>4. S = Nat
  BY <1>1, <1>2, <1>3, Induction
<1> QED
  BY <1>4 DEF S

\* What ack makes of the buffer, and what it reports.
LEMMA AckIs ==
  ASSUME NEW T, NEW p \in Seq(T), NEW ack
  PROVE  LET r == AckResult(p, ack).packets
         IN  /\ r \in Seq(T)
             /\ Len(r) = Left(p, ack, Len(p)) /\ Len(r) <= Len(p)
             /\ \A k \in 1 .. Len(p) : ~Covered(p[k].seq_num, ack) =>
                  Left(p, ack, k) \in 1 .. Len(r) /\ r[Left(p, ack, k)] = p[k]
             /\ AckResult(p, ack).acked = CoveredOf(p, ack, Len(p))
<1> DEFINE end == Rounds(p, ack)[Len(p)]
           rest == Move(end.array, end.start, end.start + end.shift,
                        Len(p) - (end.start + end.shift))
           r == AckResult(p, ack).packets
<1>0. Len(p) \in Nat /\ Len(p) \in 0 .. Len(p) /\ NoGap \notin Nat
  BY DEF NoGap
<1>1. end \in Shape(p, T) /\ AfterRound(end, p, ack, Len(p))
  BY AllRounds
<1>2. /\ r = IF end.start = NoGap THEN p ELSE SubSeq(rest, 1, Len(p) - end.shift)
      /\ AckResult(p, ack).acked = end.acked
  BY ResultIs
<1> HIDE DEF end, r
<1>3. AckResult(p, ack).acked = CoveredOf(p, ack, Len(p))
  BY <1>1, <1>2 DEF AfterRound
<1>4. CASE NoneYet(end, p, ack, Len(p))
  <2>1. r = p /\ \A k \in 0 .. Len(p) : Left(p, ack, k) = k
    BY <1>2, <1>4 DEF NoneYet
  <2> QED
    BY <1>0, <1>3, <2>1 DEF r
<1>5. CASE OneGap(end.array, end.start, end.shift, p, ack, Len(p))
  <2>1. /\ end.start \in Nat /\ end.shift \in Nat /\ end.start + end.shift <= Len(p)
        /\ Left(p, ack, Len(p)) = Len(p) - end.shift
    BY <1>0, <1>5 DEF OneGap
  <2>2. /\ rest \in [1 .. Len(p) -> T]
        /\ \A k \in 1 .. Len(p) : ~Covered(p[k].seq_num, ack) =>
             Left(p, ack, k) \in 1 .. Len(p) - end.shift /\ rest[Left(p, ack, k)] = p[k]
    <3>1. end.array \in [1 .. Len(p) -> T]
      BY <1>1 DEF Shape
    <3> QED
      <4> DEFINE array == end.array
                 start == end.start
                 shift == end.shift
      <4>1. array \in [1 .. Len(p) -> T] /\ OneGap(array, start, shift, p, ack, Len(p))
        BY <1>5, <3>1
      <4>2. rest = Move(array, start, start + shift, Len(p) - (start + shift))
        OBVIOUS
      <4> HIDE DEF rest, array, start, shift
      <4>3. Closed(rest, p, T, ack, Len(p), shift)
        BY <1>0, <4>1, <4>2, MoveCloses
      <4> QED
        BY <4>3 DEF Closed, shift
  <2> HIDE DEF rest
  <2> DEFINE m == Len(p) - end.shift
  <2>3. m \in 0 .. Len(p)
    BY <1>0, <2>1
  <2>4. r = SubSeq(rest, 1, m)
    BY <1>0, <1>2, <2>1
  <2> HIDE DEF m
  <2>5. rest \in Seq(T) /\ Len(rest) = Len(p)
    BY <1>0, <2>2
  <2>6. r \in Seq(T) /\ Len(r) = m /\ \A k \in 1 .. m : r[k] = rest[k]
    BY <1>0, <2>3, <2>4, <2>5
  <2> QED
    BY <1>0, <1>3, <2>1, <2>2, <2>3, <2>6 DEF m, r
<1> QED
  BY <1>1, <1>4, <1>5 DEF AfterRound

\* An ack is a filter, for every buffer.
LEMMA AckFilters ==
  ASSUME NEW T, NEW p \in Seq(T), NEW ack
  PROVE  IsFiltered(p, ack)
<1>1. /\ Len(AckResult(p, ack).packets) = Left(p, ack, Len(p))
      /\ \A k \in 1 .. Len(p) : ~Covered(p[k].seq_num, ack) =>
           AckResult(p, ack).packets[Left(p, ack, k)] = p[k]
      /\ AckResult(p, ack).acked = CoveredOf(p, ack, Len(p))
  BY AckIs
<1> QED
  BY <1>1 DEF IsFiltered, Left, CoveredOf

\* What stays and what is reported, as sets.
LEMMA AckSets ==
  ASSUME NEW T, NEW p \in Seq(T), NEW ack
  PROVE  LET r == AckResult(p, ack).packets
         IN  /\ {r[j].seq_num : j \in DOMAIN r}
                  = {n \in {p[k].seq_num : k \in DOMAIN p} : ~Covered(n, ack)}
             /\ AckResult(p, ack).acked
                  = {n \in {p[k].seq_num : k \in DOMAIN p} : Covered(n, ack)}
<1> DEFINE r == AckResult(p, ack).packets
<1>1. /\ r \in Seq(T) /\ Len(r) = Left(p, ack, Len(p)) /\ Len(p) \in Nat
      /\ \A k \in 1 .. Len(p) : ~Covered(p[k].seq_num, ack) =>
           Left(p, ack, k) \in 1 .. Len(r) /\ r[Left(p, ack, k)] = p[k]
      /\ AckResult(p, ack).acked = CoveredOf(p, ack, Len(p))
  BY AckIs
<1> HIDE DEF r
<1>2. DOMAIN r = 1 .. Len(r) /\ DOMAIN p = 1 .. Len(p)
  BY <1>1
<1>3. ASSUME NEW j \in 1 .. Len(r)
      PROVE  \E k \in 1 .. Len(p) : ~Covered(p[k].seq_num, ack) /\ r[j] = p[k]
  <2>1. PICK k \in 1 .. Len(p) : ~Covered(p[k].seq_num, ack) /\ Left(p, ack, k) = j
    BY <1>1, LeftOnto
  <2> QED
    BY <1>1, <2>1
<1>4. {r[j].seq_num : j \in DOMAIN r}
        = {n \in {p[k].seq_num : k \in DOMAIN p} : ~Covered(n, ack)}
  <2>1. ASSUME NEW n \in {r[j].seq_num : j \in DOMAIN r}
        PROVE  n \in {p[k].seq_num : k \in DOMAIN p} /\ ~Covered(n, ack)
    <3>1. PICK j \in 1 .. Len(r) : n = r[j].seq_num
      BY <1>2
    <3> QED
      BY <1>2, <1>3, <3>1
  <2>2. ASSUME NEW n \in {p[k].seq_num : k \in DOMAIN p}, ~Covered(n, ack)
        PROVE  n \in {r[j].seq_num : j \in DOMAIN r}
    <3>1. PICK k \in 1 .. Len(p) : n = p[k].seq_num
      BY <1>2
    <3>2. Left(p, ack, k) \in DOMAIN r /\ r[Left(p, ack, k)] = p[k]
      BY <1>1, <1>2, <2>2, <3>1
    <3> QED
      BY <3>1, <3>2
  <2> QED
    BY <2>1, <2>2
<1>5. CoveredOf(p, ack, Len(p)) = {n \in {p[k].seq_num : k \in DOMAIN p} : Covered(n, ack)}
  BY <1>2 DEF CoveredOf
<1> QED
  BY <1>1, <1>4, <1>5 DEF r
-----------------------------------------------------------------------------
(* The numbers *)

\* The constants, as the proofs need them.
LEMMA Constants ==
  /\ Half \in Nat /\ SeqSpace = 2 * Half /\ SeqSpace \in Nat /\ Half >= 2
  /\ FirstSeq \in 0 .. SeqSpace - 1
  /\ MaxMessages \in Nat /\ MaxMessages < Half
  /\ ArrayBound \in Nat /\ ArrayBound < Half
  /\ Size \in Nat /\ ResendAge \in Nat
BY SeqSpaceAssumption, SendBufferAssumption DEF Half, SeqNums

\* Counting from the first number.
LEMMA AddIs ==
  ASSUME NEW i \in 0 .. SeqSpace - 1
  PROVE  Add(FirstSeq, i) \in SeqNums /\ Dist(FirstSeq, Add(FirstSeq, i)) = i
BY Constants DEF Add, Cast, Dist, SeqNums

\* Every number is counted.
LEMMA DistIs ==
  ASSUME NEW n \in SeqNums
  PROVE  /\ Dist(FirstSeq, n) \in 0 .. SeqSpace - 1
         /\ Add(FirstSeq, Dist(FirstSeq, n)) = n
BY Constants DEF Add, Cast, Dist, SeqNums

\* One number more.
LEMMA NextIs ==
  ASSUME NEW n \in SeqNums, Dist(FirstSeq, n) < MaxMessages
  PROVE  Add(n, 1) \in SeqNums /\ Dist(FirstSeq, Add(n, 1)) = Dist(FirstSeq, n) + 1
BY Constants DEF Add, Cast, Dist, SeqNums

\* What an ack covers, counted from the first number: all up to its own,
\* and the ack of nothing covers nothing.
LEMMA CoveredIs ==
  ASSUME NEW i \in 0 .. MaxMessages - 1
  PROVE  /\ \A k \in 0 .. MaxMessages - 1 :
              Covered(Add(FirstSeq, i), Add(FirstSeq, k)) <=> i <= k
         /\ ~Covered(Add(FirstSeq, i), Add(FirstSeq, SeqSpace - 1))
BY Constants DEF Covered, SeqLt, Add, Cast

\* The peer acks only what it has got, with everything before it.
LEMMA CumulativeIs ==
  ASSUME NEW got
  PROVE  /\ Cumulative(got) \in SeqNums
         /\ \A n \in Numbers : Covered(n, Cumulative(got)) => n \in got
<1> DEFINE K == {n \in 0 .. MaxMessages : \A i \in 0 .. n - 1 : Add(FirstSeq, i) \in got}
           run == Max(K)
<1>1. run \in K
  <2>1. 0 \in K /\ K \in SUBSET (0 .. MaxMessages) /\ MaxMessages \in Nat
    BY Constants
  <2> HIDE DEF K
  <2> QED
    BY <2>1, GreatestExists
<1> HIDE DEF run
<1>2. /\ run \in 0 .. MaxMessages /\ \A i \in 0 .. run - 1 : Add(FirstSeq, i) \in got
      /\ MaxMessages \in Nat /\ SeqSpace \in Nat /\ MaxMessages < SeqSpace
  BY <1>1, Constants
<1>3. Cumulative(got) = IF run = 0 THEN Add(FirstSeq, SeqSpace - 1) ELSE Add(FirstSeq, run - 1)
  BY DEF Cumulative, run
<1>4. Cumulative(got) \in SeqNums
  <2>1. SeqSpace - 1 \in 0 .. SeqSpace - 1 /\ (run # 0 => run - 1 \in 0 .. SeqSpace - 1)
    BY <1>2, Constants
  <2> QED
    BY <1>3, <2>1, AddIs
<1>5. ASSUME NEW n \in Numbers, Covered(n, Cumulative(got)) PROVE n \in got
  <2>1. PICK i \in 0 .. MaxMessages - 1 : n = Add(FirstSeq, i)
    BY DEF Numbers
  <2>2. run # 0
    BY <1>3, <1>5, <2>1, CoveredIs
  <2>3. run - 1 \in 0 .. MaxMessages - 1
    BY <1>2, <2>2
  <2>4. i <= run - 1
    BY <1>3, <1>5, <2>1, <2>2, <2>3, CoveredIs
  <2>5. i \in 0 .. run - 1
    BY <1>2, <2>4
  <2> QED
    BY <1>2, <2>1, <2>5
<1> QED
  BY <1>4, <1>5
-----------------------------------------------------------------------------
(* The inductive invariant *)

\* The numbers given out, and the threads that hold one.
Given == {Add(FirstSeq, i) : i \in 0 .. Sent - 1}
Busy == {s \in Senders : sender[s] # "idle"}

\* Each number is in one place at most; until the buffer is freed, in one.
Places ==
  /\ InFlight \cup Buffered \cup reported \cup refused \subseteq Given
  /\ fini # "freed" => Given \subseteq InFlight \cup Buffered \cup reported \cup refused
  /\ \A s, t \in Busy : s # t => num[s] # num[t]
  /\ InFlight \cap Buffered = {} /\ InFlight \cap reported = {} /\ InFlight \cap refused = {}
  /\ Buffered \cap reported = {} /\ Buffered \cap refused = {} /\ reported \cap refused = {}

\* An ack on its way covers only numbers that the peer has got.
AcksAreTrue == \A a \in acks : \A n \in Numbers : Covered(n, a) => n \in received

Inv == TypeOK /\ Sent \in 0 .. MaxMessages /\ Places /\ AcksAreTrue /\ ReportedWasReceived

Packet == [seq_num : SeqNums, age : 0 .. ResendAge]

\* A number given out is one of those the bound allows.
LEMMA GivenIs ==
  ASSUME Sent \in 0 .. MaxMessages
  PROVE  /\ Given \subseteq Numbers /\ Numbers \subseteq SeqNums
         /\ \A n \in SeqNums : n \in Given <=> Dist(FirstSeq, n) < Sent
<1>1. MaxMessages \in Nat /\ MaxMessages < SeqSpace /\ SeqSpace \in Nat
  BY Constants
<1>2. Given \subseteq Numbers
  BY <1>1 DEF Given, Numbers
<1>3. Numbers \subseteq SeqNums
  <2>1. \A i \in 0 .. MaxMessages - 1 : i \in 0 .. SeqSpace - 1
    BY <1>1
  <2> QED
    BY <2>1, AddIs DEF Numbers
<1>4. ASSUME NEW n \in SeqNums
      PROVE  n \in Given <=> Dist(FirstSeq, n) < Sent
  <2>1. ASSUME n \in Given PROVE Dist(FirstSeq, n) < Sent
    <3>1. PICK i \in 0 .. Sent - 1 : n = Add(FirstSeq, i)
      BY <2>1 DEF Given
    <3>2. i \in 0 .. SeqSpace - 1 /\ i < Sent
      BY <1>1
    <3> QED
      BY <3>1, <3>2, AddIs
  <2>2. ASSUME Dist(FirstSeq, n) < Sent PROVE n \in Given
    <3>1. Dist(FirstSeq, n) \in 0 .. Sent - 1
      BY <1>1, <2>2, DistIs
    <3> QED
      BY <3>1, DistIs DEF Given
  <2> QED
    BY <2>1, <2>2
<1> QED
  BY <1>2, <1>3, <1>4

\* Nothing was given out at first.
LEMMA InvInit == Init => Inv
<1> SUFFICES ASSUME Init PROVE Inv
  OBVIOUS
<1>1. Sent = 0
  BY Constants DEF Init, Sent, Dist
<1>2. FirstSeq \in SeqNums
  BY SendBufferAssumption
<1>3. packets \in Seq(Packet) /\ Len(packets) = 0 /\ Buffered = {}
  BY DEF Init, Buffered
<1>a. sender \in [Senders -> {"idle", "numbered", "sent", "undefined"}] /\ num \in [Senders -> SeqNums]
  BY <1>2 DEF Init
<1>b. seq_num_local \in SeqNums /\ Len(packets) <= Size
  BY <1>2, <1>3, Constants DEF Init
<1>4. TypeOK
  BY <1>a, <1>b, <1>3 DEF Init, TypeOK, Packet
<1>5. InFlight = {} /\ Busy = {} /\ Given = {}
  BY <1>1 DEF Init, InFlight, Busy, Given
<1> QED
  BY <1>1, <1>3, <1>4, <1>5, Constants
  DEF Init, Inv, Places, AcksAreTrue, ReportedWasReceived

\* A number is taken: one more is given out, and in flight.
LEMMA TakeKeeps ==
  ASSUME Inv, NEW s \in Senders, TakeNumber(s)
  PROVE  Inv'
<1> DEFINE n == seq_num_local
<1>1. /\ n \in SeqNums /\ Dist(FirstSeq, n) = Sent /\ Sent < MaxMessages /\ Sent \in Nat
      /\ sender \in [Senders -> {"idle", "numbered", "sent", "undefined"}] /\ num \in [Senders -> SeqNums]
      /\ sender[s] = "idle"
      /\ num' = [num EXCEPT ![s] = n] /\ sender' = [sender EXCEPT ![s] = "numbered"]
      /\ seq_num_local' = Add(n, 1) /\ packets' = packets
      /\ UNCHANGED <<should_stop, thread, signalled, fini, wire, acks, received, refused,
                     reported>>
  BY DEF Inv, TypeOK, Sent, TakeNumber, netVars, threadVars
<1>2. seq_num_local' \in SeqNums /\ Sent' = Sent + 1
  BY <1>1, NextIs DEF Sent
<1>3. Sent' \in 0 .. MaxMessages
  BY <1>1, <1>2, Constants
<1>4. TypeOK'
  BY <1>1, <1>2 DEF Inv, TypeOK
<1>5. n \notin Given /\ Given' = Given \cup {n}
  <2>1. n \notin Given
    BY <1>1, GivenIs DEF Inv
  <2>2. Add(FirstSeq, Sent) = n
    BY <1>1, DistIs
  <2>3. 0 .. Sent' - 1 = (0 .. Sent - 1) \cup {Sent}
    BY <1>1, <1>2
  <2> QED
    BY <2>1, <2>2, <2>3 DEF Given
<1>6. Busy' = Busy \cup {s} /\ s \notin Busy /\ \A t \in Busy : num'[t] = num[t]
  BY <1>1 DEF Busy
<1>7. InFlight = {num[t] : t \in Busy} /\ InFlight' = {num'[t] : t \in Busy'}
  BY DEF InFlight, Busy
<1>8. InFlight' = InFlight \cup {n} /\ num'[s] = n
  BY <1>1, <1>6, <1>7
<1>9. Buffered' = Buffered
  BY <1>1 DEF Buffered
<1>10. Places'
  <2>1. n \notin InFlight \cup Buffered \cup reported \cup refused
    BY <1>5 DEF Inv, Places
  <2>2. \A t, u \in Busy' : t # u => num'[t] # num'[u]
    BY <1>6, <1>7, <1>8, <2>1 DEF Inv, Places
  <2> QED
    BY <1>1, <1>5, <1>8, <1>9, <2>1, <2>2 DEF Inv, Places
<1>11. AcksAreTrue' /\ ReportedWasReceived'
  BY <1>1 DEF Inv, AcksAreTrue, ReportedWasReceived
<1> QED
  BY <1>3, <1>4, <1>10, <1>11 DEF Inv

\* Nothing the places are made of changes.
LEMMA SamePlaces ==
  ASSUME Inv, UNCHANGED <<seq_num_local, num, refused, reported>>,
         Busy' = Busy, Buffered' = Buffered, fini' = fini \/ fini' \in {"stopping", "joining"},
         fini = "freed" => fini' = "freed"
  PROVE  Places' /\ Sent' \in 0 .. MaxMessages
<1>1. Sent' = Sent /\ Given' = Given
  BY DEF Sent, Given
<1>2. InFlight = {num[t] : t \in Busy} /\ InFlight' = {num'[t] : t \in Busy'}
  BY DEF InFlight, Busy
<1> QED
  BY <1>1, <1>2 DEF Inv, Places

\* The datagram goes out.
LEMMA SendKeeps ==
  ASSUME Inv, NEW s \in Senders, Send(s)
  PROVE  Inv'
<1>1. /\ sender \in [Senders -> {"idle", "numbered", "sent", "undefined"}] /\ num \in [Senders -> SeqNums]
      /\ sender[s] = "numbered" /\ sender' = [sender EXCEPT ![s] = "sent"]
      /\ wire' = wire \cup {num[s]}
      /\ UNCHANGED <<seq_num_local, num, packets, should_stop, thread, signalled, fini, acks,
                     received, refused, reported>>
  BY DEF Inv, TypeOK, Send, threadVars
<1>2. Busy' = Busy /\ Buffered' = Buffered
  BY <1>1 DEF Busy, Buffered
<1>3. num[s] \in Numbers
  BY <1>1, GivenIs DEF Inv, Places, InFlight
<1>4. TypeOK'
  BY <1>1, <1>3 DEF Inv, TypeOK
<1>5. Places' /\ Sent' \in 0 .. MaxMessages
  BY <1>1, <1>2, SamePlaces
<1> QED
  BY <1>1, <1>4, <1>5 DEF Inv, AcksAreTrue, ReportedWasReceived

\* A thread uses the freed buffer: its number stays with it.
LEMMA FreedKeeps ==
  ASSUME Inv, NEW s \in Senders, PushFreed(s)
  PROVE  Inv'
<1>1. /\ sender \in [Senders -> {"idle", "numbered", "sent", "undefined"}]
      /\ sender[s] = "sent" /\ sender' = [sender EXCEPT ![s] = "undefined"]
      /\ UNCHANGED <<seq_num_local, num, packets, should_stop, thread, signalled, fini, wire,
                     acks, received, refused, reported>>
  BY DEF Inv, TypeOK, PushFreed, threadVars, netVars
<1>2. Busy' = Busy /\ Buffered' = Buffered
  BY <1>1 DEF Busy, Buffered
<1>3. TypeOK'
  BY <1>1 DEF Inv, TypeOK
<1>4. Places' /\ Sent' \in 0 .. MaxMessages
  BY <1>1, <1>2, SamePlaces
<1> QED
  BY <1>1, <1>3, <1>4 DEF Inv, AcksAreTrue, ReportedWasReceived

\* A thread is done with its number: it is no longer in flight.
LEMMA DoneWith ==
  ASSUME Inv, NEW s \in Senders, s \in Busy, UNCHANGED num,
         sender' = [sender EXCEPT ![s] = "idle"]
  PROVE  /\ InFlight' = InFlight \ {num[s]} /\ num[s] \in InFlight /\ num[s] \in Numbers
         /\ \A t, u \in Busy' : t # u => num'[t] # num'[u]
         /\ num[s] \notin Buffered \cup reported \cup refused
         /\ num[s] \in SeqNums
<1>1. sender \in [Senders -> {"idle", "numbered", "sent", "undefined"}] /\ num \in [Senders -> SeqNums]
  BY DEF Inv, TypeOK
<1>2. Busy' = Busy \ {s}
  BY <1>1 DEF Busy
<1>3. InFlight = {num[t] : t \in Busy} /\ InFlight' = {num[t] : t \in Busy'}
  BY DEF InFlight, Busy
<1>4. num[s] \in InFlight /\ \A t \in Busy : t # s => num[t] # num[s]
  BY <1>3 DEF Inv, Places
<1>5. InFlight' = InFlight \ {num[s]}
  BY <1>2, <1>3, <1>4
<1>6. num[s] \in Numbers
  BY <1>4, GivenIs DEF Inv, Places
<1>7. num[s] \notin Buffered \cup reported \cup refused
  BY <1>4 DEF Inv, Places
<1>8. \A t, u \in Busy' : t # u => num'[t] # num'[u]
  BY <1>2 DEF Inv, Places
<1> QED
  BY <1>1, <1>4, <1>5, <1>6, <1>7, <1>8

\* The send fails: the number is spent.
LEMMA ErrorKeeps ==
  ASSUME Inv, NEW s \in Senders, SendError(s)
  PROVE  Inv'
<1>1. /\ sender \in [Senders -> {"idle", "numbered", "sent", "undefined"}]
      /\ s \in Busy /\ sender' = [sender EXCEPT ![s] = "idle"]
      /\ refused' = refused \cup {num[s]}
      /\ UNCHANGED <<seq_num_local, num, packets, should_stop, thread, signalled, fini, wire,
                     acks, received, reported>>
  BY DEF Inv, TypeOK, SendError, threadVars, netVars, Busy
<1>2. /\ InFlight' = InFlight \ {num[s]} /\ num[s] \in InFlight /\ num[s] \in Numbers
      /\ \A t, u \in Busy' : t # u => num'[t] # num'[u]
      /\ num[s] \notin Buffered \cup reported \cup refused
  BY <1>1, DoneWith
<1>3. TypeOK'
  BY <1>1, <1>2 DEF Inv, TypeOK
<1>4. Sent' = Sent /\ Given' = Given /\ Buffered' = Buffered
  BY <1>1 DEF Sent, Given, Buffered
<1>5. Places'
  BY <1>1, <1>2, <1>4 DEF Inv, Places
<1> QED
  BY <1>1, <1>3, <1>4, <1>5 DEF Inv, AcksAreTrue, ReportedWasReceived

\* The packet is buffered, or refused because the buffer is full.
LEMMA PushKeeps ==
  ASSUME Inv, NEW s \in Senders, Push(s)
  PROVE  Inv'
<1> DEFINE entry == [seq_num |-> num[s], age |-> 0]
<1>1. /\ sender \in [Senders -> {"idle", "numbered", "sent", "undefined"}]
      /\ s \in Busy /\ sender' = [sender EXCEPT ![s] = "idle"]
      /\ UNCHANGED <<seq_num_local, num, should_stop, thread, fini, wire,
                     acks, received, reported>>
      /\ fini # "freed" /\ packets \in Seq(Packet) /\ Len(packets) <= Size
  BY DEF Inv, TypeOK, Push, netVars, Busy, Packet
<1>2. /\ InFlight' = InFlight \ {num[s]} /\ num[s] \in InFlight /\ num[s] \in Numbers
      /\ \A t, u \in Busy' : t # u => num'[t] # num'[u]
      /\ num[s] \notin Buffered \cup reported \cup refused
      /\ num[s] \in SeqNums
  BY <1>1, DoneWith
<1>3. Sent' = Sent /\ Given' = Given
  BY <1>1 DEF Sent, Given
<1>4. AcksAreTrue' /\ ReportedWasReceived'
  BY <1>1 DEF Inv, AcksAreTrue, ReportedWasReceived
<1>5. CASE Full \/ num[s] \in Buffered
  <2>1. refused' = refused \cup {num[s]} /\ UNCHANGED <<packets, signalled>>
    BY <1>5 DEF Push
  <2>2. TypeOK'
    BY <1>1, <1>2, <2>1 DEF Inv, TypeOK
  <2>3. Buffered' = Buffered
    BY <2>1 DEF Buffered
  <2>4. Places'
    BY <1>1, <1>2, <1>3, <2>1, <2>3 DEF Inv, Places
  <2> QED
    BY <1>3, <1>4, <2>2, <2>4 DEF Inv
<1>6. CASE ~(Full \/ num[s] \in Buffered)
  <2>1. /\ refused' = refused /\ packets' = Append(packets, entry)
        /\ signalled' \in BOOLEAN /\ ~(Len(packets) >= Size)
    BY <1>6 DEF Push, Full, Inv, TypeOK, Signal
  <2>2. entry \in Packet
    BY <1>2, Constants DEF Packet
  <2>3. /\ packets' \in Seq(Packet) /\ Len(packets') = Len(packets) + 1
        /\ DOMAIN packets = 1 .. Len(packets)
        /\ DOMAIN packets' = 1 .. Len(packets) + 1
        /\ \A k \in 1 .. Len(packets) : packets'[k] = packets[k]
        /\ packets'[Len(packets) + 1] = entry
    <3> HIDE DEF entry
    <3> QED
      BY <1>1, <2>1, <2>2
  <2>4. Buffered' = Buffered \cup {num[s]}
    <3>1. Len(packets) \in Nat
      BY <1>1
    <3>2. 1 .. Len(packets) + 1 = (1 .. Len(packets)) \cup {Len(packets) + 1}
      BY <3>1
    <3>3. entry.seq_num = num[s]
      OBVIOUS
    <3> HIDE DEF entry
    <3> QED
      BY <2>3, <3>2, <3>3 DEF Buffered
  <2>5. Len(packets') <= Size
    BY <1>1, <2>1, <2>3, Constants
  <2>6. TypeOK'
    BY <1>1, <1>2, <2>1, <2>3, <2>5 DEF Inv, TypeOK, Packet
  <2>7. Places'
    BY <1>1, <1>2, <1>3, <2>1, <2>4 DEF Inv, Places
  <2> QED
    BY <1>3, <1>4, <2>6, <2>7 DEF Inv
<1> QED
  BY <1>5, <1>6
\* What an ack covers leaves the buffer and is reported, and the peer has it.
LEMMA AckKeeps ==
  ASSUME Inv, NEW ack, HandleAck(ack)
  PROVE  Inv'
<1> DEFINE gone == {n \in Buffered : Covered(n, ack)}
<1>1. /\ ack \in acks /\ packets' = AckResult(packets, ack).packets
      /\ reported' = reported \cup AckResult(packets, ack).acked
      /\ UNCHANGED <<seq_num_local, sender, num, should_stop, thread, signalled, fini, wire,
                     acks, received, refused>>
      /\ packets \in Seq(Packet) /\ Len(packets) <= Size
  BY DEF Inv, TypeOK, HandleAck, netVars, threadVars, Packet
<1>2. /\ packets' \in Seq(Packet) /\ Len(packets') <= Len(packets)
      /\ Len(packets) \in Nat /\ Len(packets') \in Nat
  BY <1>1, AckIs
<1>3. Buffered = {packets[k].seq_num : k \in DOMAIN packets}
  BY DEF Buffered
<1>4. AckResult(packets, ack).acked = gone /\ Buffered' = Buffered \ gone
  <2> DEFINE r == AckResult(packets, ack).packets
  <2>1. /\ {r[k].seq_num : k \in DOMAIN r}
             = {n \in {packets[k].seq_num : k \in DOMAIN packets} : ~Covered(n, ack)}
        /\ AckResult(packets, ack).acked
             = {n \in {packets[k].seq_num : k \in DOMAIN packets} : Covered(n, ack)}
    <3>1. packets \in Seq(Packet)
      BY <1>1
    <3> QED
      BY <3>1, AckSets, Zenon
  <2>2. packets' = r
    BY <1>1
  <2> HIDE DEF r
  <2>3. Buffered' = {r[k].seq_num : k \in DOMAIN r}
    BY <2>2 DEF Buffered
  <2> QED
    BY <1>3, <2>1, <2>3
<1>5. gone \subseteq received /\ gone \subseteq Buffered /\ gone \subseteq Numbers
  BY <1>1, GivenIs DEF Inv, Places, AcksAreTrue
<1> HIDE DEF gone
<1>6. Len(packets') <= Size
  BY <1>1, <1>2, Constants
<1>7. TypeOK'
  BY <1>1, <1>2, <1>4, <1>5, <1>6 DEF Inv, TypeOK, Packet
<1>8. Sent' = Sent /\ Given' = Given /\ InFlight' = InFlight /\ Busy' = Busy
  BY <1>1 DEF Sent, Given, InFlight, Busy
<1>9. Places'
  BY <1>1, <1>4, <1>5, <1>8 DEF Inv, Places
<1>10. AcksAreTrue' /\ ReportedWasReceived'
  BY <1>1, <1>4, <1>5 DEF Inv, AcksAreTrue, ReportedWasReceived
<1> QED
  BY <1>7, <1>8, <1>9, <1>10 DEF Inv

\* A resend changes ages, and puts on the wire what is buffered.
LEMMA ResendIs ==
  ASSUME Inv, NEW waited \in BOOLEAN, Resend(waited)
  PROVE  /\ packets' \in Seq(Packet) /\ Len(packets') = Len(packets)
         /\ Buffered' = Buffered /\ wire' \subseteq Numbers
<1>1. /\ packets \in Seq(Packet) /\ Len(packets) \in Nat /\ DOMAIN packets = 1 .. Len(packets)
      /\ wire \subseteq Numbers
  BY DEF Inv, TypeOK, Packet
<1>2. Buffered \subseteq Numbers
  BY GivenIs DEF Inv, Places
<1>3. ASSUME NEW q \in Packet
      PROVE  Older(q, waited) \in 0 .. ResendAge
  BY <1>3, Constants DEF Packet, Older
<1>4. ASSUME NEW i \in 1 .. Len(packets)
      PROVE  packets'[i] \in Packet /\ packets'[i].seq_num = packets[i].seq_num
  <2>1. packets[i] \in Packet
    BY <1>1
  <2>2. packets'[i] = [packets[i] EXCEPT !.age = IF Due(packets[i], waited) THEN 0
                                                ELSE Older(packets[i], waited)]
    BY <1>1 DEF Resend
  <2>3. (IF Due(packets[i], waited) THEN 0 ELSE Older(packets[i], waited)) \in 0 .. ResendAge
    BY <1>3, <2>1, Constants
  <2> QED
    BY <2>1, <2>2, <2>3 DEF Packet
<1>5. packets' = [i \in 1 .. Len(packets) |-> packets'[i]]
  BY <1>1 DEF Resend
<1>6. packets' \in [1 .. Len(packets) -> Packet]
  BY <1>4, <1>5
<1>7. packets' \in Seq(Packet) /\ Len(packets') = Len(packets)
      /\ DOMAIN packets' = 1 .. Len(packets)
  BY <1>1, <1>6
<1>8. Buffered' = Buffered
  BY <1>1, <1>4, <1>7 DEF Buffered
<1>9. wire' \subseteq wire \cup Buffered
  BY <1>1 DEF Resend, Buffered
<1> QED
  BY <1>1, <1>2, <1>7, <1>8, <1>9

\* A wakeup.
LEMMA WakeKeeps ==
  ASSUME Inv, NEW waited \in BOOLEAN, Wake(waited)
  PROVE  Inv'
<1>1. /\ UNCHANGED <<seq_num_local, sender, num, should_stop, fini, acks, received, refused,
                     reported>>
      /\ thread' \in {"exited", "timed", "untimed"} /\ signalled' = FALSE
  BY DEF Wake, Loop
<1>2. /\ packets' \in Seq(Packet) /\ Len(packets') = Len(packets)
      /\ Buffered' = Buffered /\ wire' \subseteq Numbers
  <2>1. CASE should_stop
    BY <2>1 DEF Wake, Inv, TypeOK, Packet, Buffered
  <2>2. CASE ~should_stop
    BY <2>2, ResendIs DEF Wake
  <2> QED
    BY <2>1, <2>2
<1>3. Busy' = Busy
  BY <1>1 DEF Busy
<1>4. TypeOK'
  BY <1>1, <1>2 DEF Inv, TypeOK, Packet
<1>5. Places' /\ Sent' \in 0 .. MaxMessages
  BY <1>1, <1>2, <1>3, SamePlaces
<1> QED
  BY <1>1, <1>4, <1>5 DEF Inv, AcksAreTrue, ReportedWasReceived

\* The steps of the resend thread.
LEMMA ThreadKeeps ==
  ASSUME Inv, ThreadStart \/ TimedOut \/ TimedSignal \/ UntimedSignal \/ TimedError
  PROVE  Inv'
<1>1. CASE \E waited \in BOOLEAN : Wake(waited)
  BY <1>1, WakeKeeps
<1>2. CASE /\ UNCHANGED <<seq_num_local, sender, num, packets, should_stop, fini, wire, acks,
                          received, refused, reported>>
           /\ thread' \in {"timed", "untimed", "exited"} /\ signalled' \in BOOLEAN
  <2>1. Busy' = Busy /\ Buffered' = Buffered
    BY <1>2 DEF Busy, Buffered
  <2>2. TypeOK'
    BY <1>2 DEF Inv, TypeOK
  <2>3. Places' /\ Sent' \in 0 .. MaxMessages
    BY <1>2, <2>1, SamePlaces
  <2> QED
    BY <1>2, <2>2, <2>3 DEF Inv, AcksAreTrue, ReportedWasReceived
<1>3. signalled \in BOOLEAN
  BY DEF Inv, TypeOK
<1> QED
  BY <1>1, <1>2, <1>3
  DEF ThreadStart, TimedOut, TimedSignal, UntimedSignal, TimedError, Loop, netVars

\* The end: the buffer is freed when the resend thread has ended.
LEMMA FiniKeeps ==
  ASSUME Inv, FiniStop \/ FiniSignal \/ FiniJoin
  PROVE  Inv'
<1>1. CASE FiniStop \/ FiniSignal
  <2>1. /\ UNCHANGED <<seq_num_local, sender, num, packets, thread, wire, acks, received,
                       refused, reported>>
        /\ should_stop' \in BOOLEAN /\ signalled' \in BOOLEAN
        /\ fini' \in {"stopping", "joining"} /\ fini # "freed"
    <3>1. CASE FiniStop
      BY <3>1 DEF FiniStop, netVars, Inv, TypeOK
    <3>2. CASE FiniSignal
      BY <3>2 DEF FiniSignal, netVars, Inv, TypeOK
    <3> QED
      BY <1>1, <3>1, <3>2
  <2>2. Busy' = Busy /\ Buffered' = Buffered
    BY <2>1 DEF Busy, Buffered
  <2>3. TypeOK'
    BY <2>1 DEF Inv, TypeOK
  <2>4. Places' /\ Sent' \in 0 .. MaxMessages
    BY <2>1, <2>2, SamePlaces
  <2> QED
    BY <2>1, <2>3, <2>4 DEF Inv, AcksAreTrue, ReportedWasReceived
<1>2. CASE FiniJoin
  <2>1. /\ UNCHANGED <<seq_num_local, sender, num, should_stop, thread, signalled, wire, acks,
                       received, refused, reported>>
        /\ fini' = "freed" /\ packets' = <<>>
    BY <1>2 DEF FiniJoin, netVars, threadVars
  <2>2. packets' \in Seq(Packet) /\ Len(packets') = 0 /\ Buffered' = {}
    BY <2>1 DEF Buffered
  <2>3. Len(packets') <= Size
    BY <2>2, Constants
  <2>4. TypeOK'
    BY <2>1, <2>2, <2>3 DEF Inv, TypeOK, Packet
  <2>5. Sent' = Sent /\ Given' = Given /\ InFlight' = InFlight /\ Busy' = Busy
    BY <2>1 DEF Sent, Given, InFlight, Busy
  <2>6. Places'
    BY <2>1, <2>2, <2>5 DEF Inv, Places
  <2> QED
    BY <2>1, <2>4, <2>5, <2>6 DEF Inv, AcksAreTrue, ReportedWasReceived
<1> QED
  BY <1>1, <1>2

\* The network and the peer.
LEMMA NetKeeps ==
  ASSUME Inv, NEW n, LoseAck(n) \/ Deliver(n) \/ Lose(n)
  PROVE  Inv'
<1>1. UNCHANGED <<seq_num_local, sender, num, packets, should_stop, thread, signalled, fini,
                  refused, reported>>
  BY DEF LoseAck, Deliver, Lose, threadVars
<1>2. Busy' = Busy /\ Buffered' = Buffered
  BY <1>1 DEF Busy, Buffered
<1>3. Places' /\ Sent' \in 0 .. MaxMessages
  BY <1>1, <1>2, SamePlaces
<1>a. wire \subseteq Numbers
  BY DEF Inv, TypeOK
<1>4. /\ wire' \subseteq wire
      /\ received \subseteq received' /\ received' \subseteq received \cup {n}
      /\ n \notin Numbers => received' = received
      /\ acks' \subseteq acks \cup {Cumulative(received')}
  BY <1>a DEF LoseAck, Deliver, Lose
<1>5. /\ Cumulative(received') \in SeqNums
      /\ \A m \in Numbers : Covered(m, Cumulative(received')) => m \in received'
  BY CumulativeIs
<1>6. wire' \subseteq Numbers /\ received' \subseteq Numbers /\ acks' \subseteq SeqNums
  BY <1>4, <1>5 DEF Inv, TypeOK
<1>7. TypeOK'
  BY <1>1, <1>6 DEF Inv, TypeOK
<1>8. AcksAreTrue' /\ ReportedWasReceived'
  BY <1>1, <1>4, <1>5 DEF Inv, AcksAreTrue, ReportedWasReceived
<1> QED
  BY <1>3, <1>7, <1>8 DEF Inv

\* Every step keeps the invariant.
LEMMA InvStep == Inv /\ [Next]_vars => Inv'
<1> SUFFICES ASSUME Inv, [Next]_vars PROVE Inv'
  OBVIOUS
<1>1. CASE \E s \in Senders : \/ TakeNumber(s) \/ Send(s) \/ SendError(s) \/ Push(s)
                          \/ PushFreed(s)
  BY <1>1, TakeKeeps, SendKeeps, ErrorKeeps, PushKeeps, FreedKeeps
<1>2. CASE \E n \in SeqNums : HandleAck(n) \/ LoseAck(n)
  <2>1. PICK n \in SeqNums : HandleAck(n) \/ LoseAck(n)
    BY <1>2
  <2>2. CASE LoseAck(n)
    BY <2>2, NetKeeps
  <2> QED
    BY <2>1, <2>2, AckKeeps
<1>3. CASE \E n \in Numbers : Deliver(n) \/ Lose(n)
  BY <1>3, NetKeeps
<1>4. CASE ThreadStart \/ TimedOut \/ TimedSignal \/ UntimedSignal \/ TimedError
  BY <1>4, ThreadKeeps
<1>5. CASE FiniStop \/ FiniSignal \/ FiniJoin
  BY <1>5, FiniKeeps
<1>6. CASE Done \/ UNCHANGED vars
  <2>1. UNCHANGED vars
    BY <1>6 DEF Done
  <2> QED
    <3>1. Busy' = Busy /\ Buffered' = Buffered
      BY <2>1 DEF vars, Busy, Buffered
    <3>2. TypeOK'
      BY <2>1 DEF vars, Inv, TypeOK
    <3>3. Places' /\ Sent' \in 0 .. MaxMessages
      BY <2>1, <3>1, SamePlaces DEF vars
    <3> QED
      BY <2>1, <3>2, <3>3 DEF vars, Inv, AcksAreTrue, ReportedWasReceived
<1> QED
  BY <1>1, <1>2, <1>3, <1>4, <1>5, <1>6 DEF Next

\* The invariant holds in every state.
THEOREM Invariant == Spec => []Inv
<1> QED
  BY InvInit, InvStep, PTL DEF Spec

\* What has one element at most, and one at least, has one.
LEMMA OneElement ==
  ASSUME NEW S, S \subseteq {1, 2, 3, 4}, S # {},
         \A v, w \in S : v = w
  PROVE  Cardinality(S) = 1
<1>1. PICK x \in S : TRUE
  OBVIOUS
<1>2. S = {x}
  BY <1>1
<1> QED
  BY <1>2, FS_Singleton

\* Until the buffer is freed every number is in exactly one place: with a
\* sending thread, in the buffer, reported as acked and then received, or
\* given up - however sends, pushes, resends and acks interleave, and
\* wherever the numbers wrap.
THEOREM NumbersAccounted == Spec => []Accounted
<1>1. Inv => Accounted
  <2> SUFFICES ASSUME Inv, fini # "freed", NEW i \in 0 .. Sent - 1
               PROVE  LET n == Add(FirstSeq, i)
                      IN  Cardinality({w \in {1, 2, 3, 4} :
                                         \/ w = 1 /\ n \in InFlight
                                         \/ w = 2 /\ n \in Buffered
                                         \/ w = 3 /\ n \in reported
                                         \/ w = 4 /\ n \in refused}) = 1
    BY DEF Inv, Accounted
  <2> DEFINE n == Add(FirstSeq, i)
  <2>1. n \in InFlight \cup Buffered \cup reported \cup refused
    BY DEF Inv, Places, Given
  <2>2. /\ ~(n \in InFlight /\ n \in Buffered) /\ ~(n \in InFlight /\ n \in reported)
        /\ ~(n \in InFlight /\ n \in refused) /\ ~(n \in Buffered /\ n \in reported)
        /\ ~(n \in Buffered /\ n \in refused) /\ ~(n \in reported /\ n \in refused)
    BY DEF Inv, Places
  <2> DEFINE S == {w \in {1, 2, 3, 4} :
                     \/ w = 1 /\ n \in InFlight
                     \/ w = 2 /\ n \in Buffered
                     \/ w = 3 /\ n \in reported
                     \/ w = 4 /\ n \in refused}
  <2> HIDE DEF n
  <2>3. (1 \in S <=> n \in InFlight) /\ (2 \in S <=> n \in Buffered)
        /\ (3 \in S <=> n \in reported) /\ (4 \in S <=> n \in refused)
        /\ S \subseteq {1, 2, 3, 4}
    OBVIOUS
  <2>4. Cardinality(S) = 1
    <3> HIDE DEF S
    <3>1. S # {}
      BY <2>1, <2>3
    <3>2. ASSUME NEW v \in S, NEW w \in S PROVE v = w
      BY <2>2, <2>3
    <3> QED
      BY <2>3, <3>1, <3>2, OneElement
  <2> QED
    BY <2>4 DEF n
<1> QED
  BY <1>1, Invariant, PTL
-----------------------------------------------------------------------------
(* Acks and wakeups *)

\* The in-place compaction of ack is a filter, for every order of the packets.
THEOREM AckIsRight == Spec => []AckIsFilter
<1>1. AckIsFilter
  <2> SUFFICES ASSUME NEW p \in Arrays, NEW ack \in SeqNums PROVE IsFiltered(p, ack)
    BY DEF AckIsFilter
  <2> DEFINE T == {[seq_num |-> Add(FirstSeq, x), age |-> 0] : x \in 1 .. ArrayBound}
  <2>1. PICK k \in 0 .. ArrayBound : \E f \in [1 .. k -> 1 .. ArrayBound] :
          p = [i \in DOMAIN f |-> [seq_num |-> Add(FirstSeq, f[i]), age |-> 0]]
    BY DEF Arrays
  <2>2. p \in [1 .. k -> T]
    BY <2>1
  <2>3. k \in Nat
    BY Constants
  <2> HIDE DEF T
  <2>4. p \in Seq(T)
    BY <2>2, <2>3
  <2> QED
    BY <2>4, AckFilters
<1> QED
  BY <1>1, PTL

\* Who wants the thread to stop is told by fini; and it sleeps without a
\* timeout only if nothing is buffered and no one waits for it.
Wakeups == (should_stop <=> fini # "no") /\ NoLostWakeup

\* The resend thread never sleeps through a packet or its own end: a push
\* into the empty buffer and fini signal it, and nothing else can put it to
\* sleep without a timeout while there is something to do.
THEOREM WakeupsKept == Spec => []NoLostWakeup
<1>1. Init => Wakeups
  BY DEF Init, Wakeups, NoLostWakeup
<1>2. Inv /\ Wakeups /\ [Next]_vars => Wakeups'
  <2> SUFFICES ASSUME Inv, Wakeups, [Next]_vars PROVE Wakeups'
    OBVIOUS
  <2>0. packets \in Seq(Packet) /\ signalled \in BOOLEAN /\ should_stop \in BOOLEAN
        /\ thread \in {"start", "timed", "untimed", "exited"}
        /\ fini \in {"no", "stopping", "joining", "freed"}
    BY DEF Inv, TypeOK, Packet
  <2>1. CASE UNCHANGED <<packets, should_stop, thread, signalled, fini>>
    BY <2>1 DEF Wakeups, NoLostWakeup
  <2>2. ASSUME NEW s \in Senders, Push(s) PROVE Wakeups'
    <3>1. CASE UNCHANGED <<packets, signalled>>
      BY <2>2, <2>1, <3>1 DEF Push
    <3>2. CASE /\ packets' = Append(packets, [seq_num |-> num[s], age |-> 0])
               /\ signalled' = (signalled \/ Signal(packets'))
      <4>1. /\ UNCHANGED <<should_stop, thread, fini>>
            /\ packets = <<>> => Len(packets') = 1
        BY <2>2, <3>2 DEF Push
      <4> QED
        BY <2>0, <3>2, <4>1 DEF Wakeups, NoLostWakeup, Signal
    <3> QED
      BY <2>2, <3>1, <3>2 DEF Push
  <2>3. ASSUME NEW n \in SeqNums, HandleAck(n) PROVE Wakeups'
    <3>1. UNCHANGED <<should_stop, thread, signalled, fini>>
      BY <2>3 DEF HandleAck, threadVars
    <3>2. packets = <<>> => packets' = <<>>
      <4>1. packets' \in Seq(Packet) /\ Len(packets') <= Len(packets) /\ Len(packets') \in Nat
        BY <2>0, <2>3, AckIs DEF HandleAck
      <4> QED
        BY <2>0, <4>1
    <3> QED
      BY <3>1, <3>2 DEF Wakeups, NoLostWakeup
  <2>4. ASSUME NEW waited \in BOOLEAN, Wake(waited) PROVE Wakeups'
    <3>1. UNCHANGED <<should_stop, fini>> /\ thread' = Loop(packets, should_stop)
      BY <2>4 DEF Wake
    <3>2. packets = <<>> => packets' = <<>>
      <4>1. CASE should_stop
        BY <2>4, <4>1 DEF Wake
      <4>2. CASE ~should_stop
        <5>1. packets' \in Seq(Packet) /\ Len(packets') = Len(packets)
          BY <2>4, <4>2, ResendIs DEF Wake
        <5> QED
          BY <2>0, <5>1
      <4> QED
        BY <4>1, <4>2
    <3> QED
      BY <3>1, <3>2 DEF Wakeups, NoLostWakeup, Loop
  <2>5. CASE ThreadStart
    BY <2>5 DEF ThreadStart, Loop, Wakeups, NoLostWakeup
  <2>6. CASE TimedOut
    BY <2>4, <2>6 DEF TimedOut
  <2>7. CASE TimedSignal
    BY <2>4, <2>7 DEF TimedSignal, Wakeups, NoLostWakeup
  <2>8. CASE UntimedSignal
    BY <2>0, <2>4, <2>8 DEF UntimedSignal, Wakeups, NoLostWakeup
  <2>9. CASE TimedError
    BY <2>9 DEF TimedError, Wakeups, NoLostWakeup
  <2>a. CASE FiniStop
    BY <2>a DEF FiniStop, Wakeups, NoLostWakeup
  <2>10. CASE FiniSignal
    <3>1. /\ thread' = thread /\ packets' = packets /\ should_stop' = should_stop
          /\ fini' = "joining" /\ fini = "stopping"
          /\ signalled' = (thread \in {"timed", "untimed"})
      BY <2>10 DEF FiniSignal
    <3>2. thread = "untimed" => signalled'
      BY <3>1
    <3> QED
      BY <3>1, <3>2 DEF Wakeups, NoLostWakeup
  <2>11. CASE FiniJoin
    BY <2>11 DEF FiniJoin, threadVars, Wakeups, NoLostWakeup
  <2>12. CASE \E s \in Senders : \/ TakeNumber(s) \/ Send(s) \/ SendError(s)
                             \/ PushFreed(s)
    BY <2>1, <2>12 DEF TakeNumber, Send, SendError, PushFreed, threadVars
  <2>13. CASE \E n \in SeqNums : LoseAck(n) \/ Deliver(n) \/ Lose(n)
    BY <2>1, <2>13 DEF LoseAck, Deliver, Lose, threadVars
  <2>14. CASE Done \/ UNCHANGED vars
    BY <2>1, <2>14 DEF Done, vars
  <2>15. Numbers \subseteq SeqNums
    BY GivenIs DEF Inv
  <2> QED
    BY <2>2, <2>3, <2>5, <2>6, <2>7, <2>8, <2>9, <2>a, <2>10, <2>11, <2>12, <2>13, <2>14, <2>15
    DEF Next
<1>3. Wakeups => NoLostWakeup
  BY DEF Wakeups
<1> QED
  BY <1>1, <1>2, <1>3, Invariant, PTL DEF Spec
=============================================================================
