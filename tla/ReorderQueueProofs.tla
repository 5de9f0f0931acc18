------------------------- MODULE ReorderQueueProofs -------------------------
(***************************************************************************)
(* ReorderQueue for every ring size, every number space that has room for  *)
(* it, and every set of elements: the types, the assertion of push, the    *)
(* order of what is pulled, and that accepted elements are kept.           *)
(***************************************************************************)
EXTENDS ReorderQueue, TLAPS

\* Half the space is a natural number, and twice it is the space.
LEMMA HalfNat == Half \in Nat /\ SeqSpace = 2 * Half /\ SeqSpace \in Nat /\ Half >= 2
BY SeqSpaceAssumption DEF Half

\* An index stays in the ring.
LEMMA IdxType == ASSUME NEW n \in Nat PROVE Idx(n) \in Slots
BY QueueAssumption DEF Idx, Slots

\* Adding less than the space stays in the space.
LEMMA AddType ==
  ASSUME NEW a \in SeqNums, NEW n \in 0 .. SeqSpace
  PROVE  /\ Add(a, n) \in SeqNums
         /\ Add(a, n) = a + n \/ Add(a, n) = a + n - SeqSpace
BY HalfNat DEF Add, Cast, SeqNums

\* The distance leads from one number to the other.
LEMMA DistType ==
  ASSUME NEW a \in SeqNums, NEW b \in SeqNums
  PROVE  Dist(a, b) \in SeqNums /\ Add(a, Dist(a, b)) = b
BY HalfNat DEF Dist, Add, Cast, SeqNums

\* A number is before another exactly when it is ahead by less than Half.
LEMMA LtIsDist ==
  ASSUME NEW a \in SeqNums, NEW b \in SeqNums
  PROVE  /\ SeqLt(a, b) <=> Dist(a, b) \in 1 .. Half - 1
         /\ SeqGt(a, b) <=> Dist(a, b) \in Half + 1 .. SeqSpace - 1
BY HalfNat DEF Dist, SeqLt, SeqGt, SeqNums

\* Both sides counted from the same number.
LEMMA LtFromBase ==
  ASSUME NEW a \in SeqNums, NEW m \in 0 .. SeqSpace - 1, NEW n \in 0 .. SeqSpace - 1
  PROVE  /\ m <= n => Dist(Add(a, m), Add(a, n)) = n - m
         /\ m > n => Dist(Add(a, m), Add(a, n)) = n - m + SeqSpace
BY HalfNat DEF Dist, Add, Cast, SeqNums

\* A smallest element is the one Least chooses.
LEMMA LeastIs ==
  ASSUME NEW S \in SUBSET Nat, NEW n \in S, \A m \in S : n <= m
  PROVE  Least(S) = n
<1>1. \E k \in S : \A m \in S : k <= m
  OBVIOUS
<1>2. Least(S) \in S /\ \A m \in S : Least(S) <= m
  BY <1>1 DEF Least
<1>3. Least(S) \in Nat /\ n \in Nat /\ n <= Least(S) /\ Least(S) <= n
  BY <1>2
<1> QED BY <1>3

\* Two sums from one base are one sum.
LEMMA AddAdd ==
  ASSUME NEW a \in SeqNums, NEW m \in Nat, NEW n \in Nat, m + n <= SeqSpace
  PROVE  Add(Add(a, m), n) = Add(a, m + n)
BY HalfNat DEF Add, Cast, SeqNums

\* The order, for numbers counted from one base, is that of the counts while
\* they are less than half the space apart.
LEMMA LtCounts ==
  ASSUME NEW a \in SeqNums, NEW m \in 0 .. SeqSpace - 1, NEW n \in 0 .. SeqSpace - 1,
         n - m < Half, m - n <= Half
  PROVE  SeqLt(Add(a, m), Add(a, n)) <=> m < n
<1>1. Add(a, m) \in SeqNums /\ Add(a, n) \in SeqNums
  BY AddType, HalfNat
<1>2. CASE m <= n
  <2>1. Dist(Add(a, m), Add(a, n)) = n - m
    BY <1>2, LtFromBase
  <2>2. n - m \in 1 .. Half - 1 <=> m < n
    BY <1>2, HalfNat
  <2> QED BY <1>1, <2>1, <2>2, LtIsDist
<1>3. CASE m > n
  <2>1. Dist(Add(a, m), Add(a, n)) = n - m + SeqSpace
    BY <1>3, LtFromBase
  <2>2. n - m + SeqSpace >= Half
    BY HalfNat
  <2>3. n - m + SeqSpace \notin 1 .. Half - 1
    BY <2>2, HalfNat
  <2>4. ~SeqLt(Add(a, m), Add(a, n))
    BY <1>1, <2>1, <2>3, LtIsDist
  <2> QED BY <1>3, <2>4, HalfNat
<1> QED BY <1>2, <1>3, HalfNat

\* What push compares, in terms of how far the number is ahead of begin.
LEMMA PushPosition ==
  ASSUME TypeOK, NEW s \in Arriving, Ahead(s)
  PROVE  /\ s \in SeqNums
         /\ Dist(begin, s) \in count .. Half - 1
         /\ s = Add(begin, Dist(begin, s))
         /\ Ge(s, End)
<1> DEFINE d == Dist(begin, s)
<1>1. /\ begin \in SeqNums /\ s \in SeqNums /\ count \in 0 .. Size
      /\ Size \in Nat /\ 2 * Size <= Half
  BY QueueAssumption DEF TypeOK, Arriving
<1>2. d \in SeqNums /\ s = Add(begin, d)
  BY <1>1, DistType
<1>3. d # Half
  BY <1>1, HalfNat, QueueAssumption DEF Arriving, Dist, SeqNums
<1>4. SeqLt(s, begin) <=> SeqGt(begin, s)
  BY <1>1 DEF SeqLt, SeqGt, SeqNums
<1>5. d < Half
  <2>1. ~SeqGt(begin, s)
    BY <1>4 DEF Ahead
  <2>2. d \notin Half + 1 .. SeqSpace - 1
    BY <1>1, <2>1, LtIsDist
  <2> QED BY <1>2, <1>3, <2>2, HalfNat DEF SeqNums
<1>6. Ge(s, begin)
  BY <1>1, <1>5, HalfNat DEF Ge, SeqGt, Dist, SeqNums
<1>7. ~SeqLt(s, End)
  BY <1>6 DEF Ahead, Inside
<1>8. d >= count
  BY <1>1, <1>2, <1>5, <1>7, LtCounts, HalfNat DEF End, SeqNums
<1>9. Ge(s, End)
  <2>1. End \in SeqNums
    BY <1>1, AddType, HalfNat DEF End
  <2>2. Dist(End, s) = d - count
    BY <1>1, <1>2, <1>5, <1>8, LtFromBase, HalfNat DEF End, SeqNums
  <2>3. Dist(End, s) < Half
    BY <1>1, <1>2, <1>5, <1>8, <2>2, HalfNat DEF SeqNums
  <2> QED BY <1>1, <2>1, <2>3, HalfNat DEF Ge, SeqGt, Dist, SeqNums
<1> QED BY <1>1, <1>2, <1>5, <1>8, <1>9, HalfNat DEF SeqNums

\* The eviction loop stops when the number fits, or when nothing is left.
LEMMA EvictedIs ==
  ASSUME TypeOK, NEW s \in Arriving, Ahead(s)
  PROVE  LET d == Dist(begin, s)
         IN  /\ TooFar(s) <=> d >= Size
             /\ Evicted(s) = IF d < Size THEN 0
                             ELSE IF d + 1 - Size < count THEN d + 1 - Size
                             ELSE count
<1> DEFINE d == Dist(begin, s)
           K == {k \in 0 .. count : k = count \/ ~SeqLt(TotalEnd(count - k), Add(s, 1))}
           e == IF d < Size THEN 0
                ELSE IF d + 1 - Size < count THEN d + 1 - Size ELSE count
<1>1. /\ begin \in SeqNums /\ count \in 0 .. Size /\ Size \in Nat \ {0}
      /\ 2 * Size <= Half
      /\ d \in count .. Half - 1 /\ s = Add(begin, d)
  BY PushPosition, QueueAssumption DEF TypeOK
<1>2. Add(s, 1) = Add(begin, d + 1)
  BY <1>1, AddAdd, HalfNat
<1>3. ASSUME NEW k \in 0 .. count
      PROVE  SeqLt(TotalEnd(count - k), Add(s, 1)) <=> Size + k < d + 1
  <2>1. TotalEnd(count - k) = Add(begin, count + (Size - (count - k)))
    BY <1>1, AddAdd, HalfNat DEF TotalEnd, End
  <2>2. count + (Size - (count - k)) = Size + k
    BY <1>1
  <2>3. /\ Size + k \in 0 .. SeqSpace - 1 /\ d + 1 \in 0 .. SeqSpace - 1
        /\ (d + 1) - (Size + k) < Half /\ (Size + k) - (d + 1) <= Half
    BY <1>1, HalfNat
  <2> HIDE DEF d
  <2> QED BY <1>1, <1>2, <2>1, <2>2, <2>3, LtCounts
<1>4. TooFar(s) <=> d >= Size
  <2>1. count - 0 = count /\ 0 \in 0 .. count
    BY <1>1
  <2>2. TooFar(s) <=> Size + 0 < d + 1
    BY <1>3, <2>1 DEF TooFar
  <2> QED BY <1>1, <2>2
<1>5. e \in K
  <2>1. e \in 0 .. count
    BY <1>1
  <2>2. e = count \/ ~(Size + e < d + 1)
    BY <1>1
  <2> QED BY <1>3, <2>1, <2>2
<1>6. ASSUME NEW k \in K PROVE e <= k
  <2>1. k \in 0 .. count /\ (k = count \/ ~(Size + k < d + 1))
    BY <1>3
  <2> QED BY <1>1, <2>1
<1>7. K \in SUBSET Nat
  BY <1>1
<1>8. Least(K) = e
  BY <1>5, <1>6, <1>7, LeastIs
<1> QED BY <1>4, <1>8 DEF Evicted

\* The growing loop stops right behind the number.
LEMMA GrownIs ==
  ASSUME NEW a \in SeqNums, NEW x \in Nat, NEW n \in Nat, NEW d \in Nat,
         x + n <= d + 1, d + 1 - (x + n) < Half, d < Half
  PROVE  Grown(Add(a, x), n, Add(a, d)) = d + 1 - (x + n)
<1> DEFINE g == d + 1 - (x + n)
           K == {k \in 0 .. SeqSpace :
                   ~SeqLt(Add(Add(a, x), n + k), Add(Add(a, d), 1))}
<1>1. Add(Add(a, d), 1) = Add(a, d + 1)
  BY AddAdd, HalfNat
<1>2. ASSUME NEW k \in 0 .. g
      PROVE  SeqLt(Add(Add(a, x), n + k), Add(Add(a, d), 1)) <=> k < g
  <2>1. Add(Add(a, x), n + k) = Add(a, x + (n + k))
    BY AddAdd, HalfNat
  <2>2. /\ x + (n + k) \in 0 .. SeqSpace - 1 /\ d + 1 \in 0 .. SeqSpace - 1
        /\ (d + 1) - (x + (n + k)) < Half
        /\ (x + (n + k)) - (d + 1) <= Half
    BY HalfNat
  <2> QED BY <1>1, <2>1, <2>2, LtCounts
<1>3. g \in K /\ K \in SUBSET Nat
  BY <1>2, HalfNat
<1>4. ASSUME NEW k \in K PROVE g <= k
  BY <1>2, HalfNat
<1>5. Least(K) = g
  BY <1>3, <1>4, LeastIs
<1> QED BY <1>5 DEF Grown
-----------------------------------------------------------------------------
(* What one append does to the window *)

\* How far the window slides for a number d ahead of it: not at all while it
\* fits, and to the number itself if nothing is left of the window.
ShiftFor(d) == IF d < Size THEN 0 ELSE IF d + 1 - Size < count THEN d + 1 - Size ELSE d

\* Where the window is after a push beyond its end: the number is its last,
\* and it is moved on by no more than the number is ahead.
LEMMA AppendWindow ==
  ASSUME TypeOK, NEW s \in Arriving, NEW e, PushAppend(s, e)
  PROVE  /\ \E shift \in 0 .. Dist(begin, s) :
              /\ shift = ShiftFor(Dist(begin, s))
              /\ begin' = Add(begin, shift)
              /\ count' = Dist(begin, s) + 1 - shift
              /\ Evicted(s) = IF shift < count THEN shift ELSE count
              /\ Grown(begin', count - Evicted(s), s) = count' - (count - Evicted(s))
         /\ count' \in 1 .. Size
         /\ Evicted(s) \in 0 .. count
         /\ ~TooFar(s) => dropped' = {}
<1> DEFINE d == Dist(begin, s)
           k == Evicted(s)
           b == IF TooFar(s) /\ k = count THEN s ELSE BeginAfter(s)
           grow == Grown(b, count - k, s)
<1>a. Ahead(s)
  BY DEF PushAppend
<1>1. /\ begin \in SeqNums /\ count \in 0 .. Size /\ Size \in Nat \ {0}
      /\ 2 * Size <= Half
      /\ d \in count .. Half - 1 /\ s = Add(begin, d)
  BY <1>a, PushPosition, QueueAssumption DEF TypeOK
<1>2. /\ TooFar(s) <=> d >= Size
      /\ k = IF d < Size THEN 0
             ELSE IF d + 1 - Size < count THEN d + 1 - Size ELSE count
  BY <1>a, EvictedIs
<1> HIDE DEF d
<1>3. /\ begin' = b /\ count' = count - k + grow
      /\ dropped' = SetEntries(begin, k)
  BY DEF PushAppend
<1>4. Evicted(s) \in 0 .. count
  BY <1>1, <1>2
<1>5. CASE d < Size
  <2>1. k = 0 /\ ~TooFar(s)
    BY <1>1, <1>2, <1>5
  <2>2. b = begin
    BY <2>1 DEF BeginAfter
  <2>3. begin = Add(begin, 0)
    BY <1>1, HalfNat DEF Add, Cast, SeqNums
  <2>4. grow = d + 1 - (0 + count)
    <3>1. grow = Grown(Add(begin, 0), count, Add(begin, d))
      <4>1. count - k = count
        BY <1>1, <2>1
      <4> QED BY <1>1, <2>2, <2>3, <4>1
    <3> QED BY <1>1, <1>5, <3>1, GrownIs, HalfNat
  <2>5. count' = d + 1
    BY <1>1, <1>3, <2>1, <2>4
  <2>6. SetEntries(begin, k) = {}
    BY <2>1 DEF SetEntries, Window
  <2>7. /\ 0 \in 0 .. d /\ 0 = ShiftFor(d)
        /\ k = (IF 0 < count THEN 0 ELSE count)
        /\ count' = d + 1 - 0
        /\ grow = count' - (count - k)
    BY <1>1, <1>5, <2>1, <2>4, <2>5 DEF ShiftFor
  <2> QED BY <1>1, <1>3, <1>5, <1>4, <2>1, <2>2, <2>3, <2>5, <2>6, <2>7 DEF d
<1>6. CASE d >= Size /\ d + 1 - Size < count
  <2>1. k = d + 1 - Size /\ TooFar(s) /\ k # count /\ k # 0 /\ k \in 1 .. d
    BY <1>1, <1>2, <1>6
  <2>2. b = Add(begin, k)
    <3>1. b = Add(Add(begin, k - 1), 1)
      BY <2>1 DEF BeginAfter
    <3> QED BY <1>1, <2>1, <3>1, AddAdd, HalfNat
  <2>3. grow = d + 1 - (k + (count - k))
    <3>1. grow = Grown(Add(begin, k), count - k, Add(begin, d))
      BY <1>1, <2>2
    <3> QED BY <1>1, <1>6, <2>1, <3>1, GrownIs, HalfNat
  <2>4. count' = Size
    BY <1>1, <1>3, <2>1, <2>3
  <2>5. /\ k \in 0 .. d /\ k = ShiftFor(d)
        /\ k = (IF k < count THEN k ELSE count)
        /\ count' = d + 1 - k
        /\ grow = count' - (count - k)
    BY <1>1, <1>6, <2>1, <2>3, <2>4 DEF ShiftFor
  <2> QED BY <1>1, <1>3, <1>4, <2>1, <2>2, <2>4, <2>5 DEF d
<1>7. CASE d >= Size /\ d + 1 - Size >= count
  <2>1. k = count /\ TooFar(s) /\ b = s
    BY <1>1, <1>2, <1>7
  <2>2. grow = d + 1 - (d + 0)
    <3>1. grow = Grown(Add(begin, d), 0, Add(begin, d))
      BY <1>1, <2>1
    <3> QED BY <1>1, <3>1, GrownIs, HalfNat
  <2>3. count' = 1
    BY <1>1, <1>3, <2>1, <2>2
  <2>4. /\ d \in 0 .. d /\ d = ShiftFor(d)
        /\ k = (IF d < count THEN d ELSE count)
        /\ count' = d + 1 - d
        /\ grow = count' - (count - k)
    BY <1>1, <1>7, <2>1, <2>2, <2>3 DEF ShiftFor
  <2> QED BY <1>1, <1>3, <1>4, <2>1, <2>3, <2>4 DEF d
<1> QED BY <1>1, <1>5, <1>6, <1>7
-----------------------------------------------------------------------------
(* Types *)

\* What the ring shows is a sequence number with an element.
LEMMA EntriesType ==
  ASSUME TypeOK, NEW n \in 0 .. count
  PROVE  SetEntries(begin, n) \in SUBSET (SeqNums \X Elems)
<1>1. begin \in SeqNums /\ count \in 0 .. Size /\ Size \in Nat /\ 2 * Size <= Half
  BY QueueAssumption DEF TypeOK
<1>2. ASSUME NEW i \in 0 .. n - 1
      PROVE  /\ Add(begin, i) \in SeqNums
             /\ Entry(Add(begin, i)) \in Elems \cup {None}
  <2>1. i \in 0 .. SeqSpace
    BY <1>1, HalfNat
  <2>2. Add(begin, i) \in SeqNums /\ Add(begin, i) \in Nat
    BY <1>1, <2>1, AddType, HalfNat DEF SeqNums
  <2>3. Idx(Add(begin, i)) \in Slots
    BY <2>2, IdxType
  <2> QED BY <2>2, <2>3 DEF TypeOK, Entry
<1> QED BY <1>2 DEF SetEntries, Window

\* The queue starts in a state of its types.
LEMMA TypeInit == Init => TypeOK
BY QueueAssumption DEF Init, TypeOK

\* Every outcome of push keeps the types.
LEMMA TypePush ==
  ASSUME TypeOK, NEW s \in Arriving, NEW e \in Elems, Push(s, e)
  PROVE  TypeOK'
<1>1. s \in SeqNums /\ s \in Nat /\ Idx(s) \in Slots
  BY IdxType, HalfNat DEF Arriving, SeqNums
<1>2. pulled' = {} /\ drop_strategy' = drop_strategy
  BY DEF Push
<1>3. CASE PushDuplicate(s, e)
  BY <1>1, <1>2, <1>3 DEF PushDuplicate, TypeOK
<1>4. CASE PushHole(s, e)
  BY <1>1, <1>2, <1>4 DEF PushHole, TypeOK
<1>5. CASE PushOld(s, e)
  BY <1>1, <1>2, <1>5 DEF PushOld, TypeOK
<1>6. CASE PushAssertFails(s, e)
  BY <1>1, <1>2, <1>6 DEF PushAssertFails, TypeOK
<1>7. CASE PushBeyond(s, e)
  BY <1>1, <1>2, <1>7 DEF PushBeyond, TypeOK
<1>8. CASE PushAppend(s, e)
  <2>1. PICK shift \in 0 .. Dist(begin, s) : begin' = Add(begin, shift)
    BY <1>8, AppendWindow
  <2>2. begin \in SeqNums /\ Dist(begin, s) \in SeqNums
    BY <1>1, DistType DEF TypeOK
  <2>3. begin' \in SeqNums
    <3>1. shift \in 0 .. SeqSpace
      BY <2>2, HalfNat DEF SeqNums
    <3> QED BY <2>1, <2>2, <3>1, AddType
  <2>4. count' \in 0 .. Size /\ Evicted(s) \in 0 .. count
    BY <1>8, AppendWindow, QueueAssumption
  <2>5. dropped' = SetEntries(begin, Evicted(s))
    BY <1>8 DEF PushAppend
  <2>6. dropped' \in SUBSET (SeqNums \X Elems)
    BY <2>4, <2>5, EntriesType
  <2>7. queue' \in [Slots -> Elems \cup {None}]
    BY <1>1, <1>8 DEF PushAppend, TypeOK
  <2>8. held' \subseteq Elems /\ status' = status
    BY <1>8 DEF PushAppend, TypeOK
  <2> QED BY <1>2, <2>3, <2>4, <2>6, <2>7, <2>8 DEF TypeOK
<1> QED BY <1>3, <1>4, <1>5, <1>6, <1>7, <1>8 DEF Push

\* So do the other operations.
LEMMA TypePull ==
  ASSUME TypeOK, Pull
  PROVE  TypeOK' /\ begin' = Add(begin, 1)
<1>1. begin \in SeqNums /\ begin \in Nat /\ count \in 0 .. Size
  BY HalfNat DEF TypeOK, SeqNums
<1>2. begin' = Add(begin, 1) /\ begin' \in SeqNums
  BY <1>1, AddType, HalfNat DEF Pull
<1>3. count' \in 0 .. Size
  BY <1>1, QueueAssumption DEF Pull
<1>4. Entry(begin) \in Elems
  <2>1. Idx(begin) \in Slots
    BY <1>1, IdxType
  <2>2. Entry(begin) # None
    BY DEF Pull
  <2> QED BY <2>1, <2>2 DEF Entry, TypeOK
<1> QED BY <1>1, <1>2, <1>3, <1>4 DEF Pull, TypeOK

\* fini hands over what the window shows.
LEMMA TypeFini ==
  ASSUME TypeOK, Fini
  PROVE  TypeOK'
<1>1. count \in 0 .. count
  BY QueueAssumption DEF TypeOK
<1>2. dropped' \in SUBSET (SeqNums \X Elems)
  BY <1>1, EntriesType DEF Fini
<1> QED BY <1>2 DEF Fini, TypeOK

\* Every step keeps the types.
LEMMA TypeStep == TypeOK /\ [Next]_vars => TypeOK'
<1> SUFFICES ASSUME TypeOK, [Next]_vars PROVE TypeOK'
  OBVIOUS
<1>1. CASE SetDropStrategy
  BY <1>1 DEF SetDropStrategy, TypeOK
<1>2. CASE \E s \in Arriving, e \in Elems : Push(s, e)
  BY <1>2, TypePush
<1>3. CASE Pull
  BY <1>3, TypePull
<1>4. CASE Fini
  BY <1>4, TypeFini
<1>5. CASE Stopped \/ UNCHANGED vars
  BY <1>5 DEF Stopped, vars, TypeOK
<1> QED BY <1>1, <1>2, <1>3, <1>4, <1>5 DEF Next

\* The ring, its window and its results keep their types: the window never
\* outgrows the ring (the assertions count <= QUEUE_SIZE).
THEOREM TypeCorrect == Spec => []TypeOK
<1>1. Init => TypeOK
  BY TypeInit
<1>2. TypeOK /\ [Next]_vars => TypeOK'
  BY TypeStep
<1> QED BY <1>1, <1>2, PTL DEF Spec
-----------------------------------------------------------------------------
(* Safety *)

\* A number that is neither in the window nor behind it is at its end or
\* beyond: assert(ge(seq_num, end)) of push holds for every number the peer
\* sends, before and after the sequence numbers wrap.
THEOREM AssertHolds == Spec => []NoAbort
<1>1. Init => NoAbort
  BY DEF Init, NoAbort
<1>2. TypeOK /\ NoAbort /\ [Next]_vars => NoAbort'
  <2> SUFFICES ASSUME TypeOK, NoAbort, [Next]_vars PROVE NoAbort'
    OBVIOUS
  <2>1. CASE \E s \in Arriving, e \in Elems : Push(s, e)
    <3>1. PICK s \in Arriving, e \in Elems : Push(s, e)
      BY <2>1
    <3>2. ~PushAssertFails(s, e)
      BY PushPosition DEF PushAssertFails
    <3>3. status' = status
      BY <3>1, <3>2 DEF Push, PushDuplicate, PushHole, PushOld, PushBeyond,
                        PushAppend
    <3> QED BY <3>3 DEF NoAbort
  <2>2. CASE SetDropStrategy \/ Pull \/ Fini \/ Stopped \/ UNCHANGED vars
    BY <2>2 DEF SetDropStrategy, Pull, Fini, Stopped, vars, NoAbort
  <2> QED BY <2>1, <2>2 DEF Next
<1> QED BY <1>1, <1>2, TypeCorrect, PTL DEF Spec

\* Moving on by less than half the space is moving forward.
LEMMA ForwardIs ==
  ASSUME NEW a \in SeqNums, NEW n \in 0 .. Half - 1
  PROVE  Add(a, n) = a \/ SeqGt(Add(a, n), a)
BY HalfNat DEF Add, Cast, SeqGt, SeqNums

\* The window only moves forward: a push skips ahead by less than half the
\* space, a pull by one, everything else leaves begin alone.
THEOREM InOrder == Spec => BeginAdvances
<1>1. TypeOK /\ [Next]_vars => [begin' = begin \/ SeqGt(begin', begin)]_vars
  <2> SUFFICES ASSUME TypeOK, [Next]_vars
               PROVE  begin' = begin \/ SeqGt(begin', begin)
    OBVIOUS
  <2>0. begin \in SeqNums
    BY DEF TypeOK
  <2>1. CASE \E s \in Arriving, e \in Elems : Push(s, e)
    <3>1. PICK s \in Arriving, e \in Elems : Push(s, e)
      BY <2>1
    <3>2. CASE PushAppend(s, e)
      <4>1. PICK shift \in 0 .. Dist(begin, s) : begin' = Add(begin, shift)
        BY <3>2, AppendWindow
      <4>2. Dist(begin, s) \in count .. Half - 1
        BY <3>2, PushPosition DEF PushAppend
      <4>3. shift \in 0 .. Half - 1
        BY <2>0, <4>2, HalfNat DEF Dist, SeqNums, TypeOK
      <4> QED BY <2>0, <4>1, <4>3, ForwardIs
    <3>3. CASE ~PushAppend(s, e)
      BY <3>1, <3>3 DEF Push, PushDuplicate, PushHole, PushOld, PushBeyond,
                        PushAssertFails
    <3> QED BY <3>2, <3>3
  <2>2. CASE Pull
    <3>1. 1 \in 0 .. Half - 1
      BY HalfNat
    <3> QED BY <2>0, <2>2, <3>1, TypePull, ForwardIs
  <2>3. CASE SetDropStrategy \/ Fini \/ Stopped \/ UNCHANGED vars
    BY <2>3 DEF SetDropStrategy, Fini, Stopped, vars
  <2> QED BY <2>1, <2>2, <2>3 DEF Next
<1> QED BY <1>1, TypeCorrect, PTL DEF Spec, BeginAdvances

\* With DROP_STRATEGY_END only the newcomer is ever given up: what the queue
\* accepted leaves it through pull or fini.
THEOREM Kept == Spec => AcceptedIsKept
<1>1. TypeOK /\ [Next]_vars =>
        [drop_strategy = "end" /\ status' = "live"
           => Users(dropped') \cap held = {}]_vars
  <2> SUFFICES ASSUME TypeOK, Next, drop_strategy = "end", status' = "live"
               PROVE  Users(dropped') \cap held = {}
    OBVIOUS
  <2>1. CASE \E s \in Arriving, e \in Elems : Push(s, e)
    <3>1. PICK s \in Arriving, e \in Elems : Push(s, e)
      BY <2>1
    <3>2. e \notin held
      BY <3>1 DEF Push
    <3>3. CASE dropped' = {<<s, e>>}
      BY <3>2, <3>3 DEF Users
    <3>4. CASE dropped' = {}
      BY <3>4 DEF Users
    <3>5. CASE PushAppend(s, e)
      <4>1. ~TooFar(s)
        BY <3>5 DEF PushAppend, MayEvict
      <4> QED BY <3>4, <3>5, <4>1, AppendWindow
    <3> QED BY <3>1, <3>3, <3>4, <3>5
            DEF Push, PushDuplicate, PushHole, PushOld, PushAssertFails, PushBeyond
  <2>2. CASE SetDropStrategy \/ Pull
    BY <2>2 DEF SetDropStrategy, Pull, Users
  <2>3. CASE Fini \/ Stopped
    BY <2>3 DEF Fini, Stopped, vars
  <2> QED BY <2>1, <2>2, <2>3 DEF Next
<1> QED BY <1>1, TypeCorrect, PTL DEF Spec, AcceptedIsKept

\* The window only moves forward, and what was accepted is kept.
THEOREM Queued == Spec => KeptInOrder
BY InOrder, Kept DEF KeptInOrder
-----------------------------------------------------------------------------
(* Ownership *)

\* The entry n places behind begin, and what the first n entries show.
Place(n) == Entry(Add(begin, n))
Shown(n) == {Place(i) : i \in 0 .. n - 1} \ {None}

\* A number is its quotient and its rest.
LEMMA Division ==
  ASSUME NEW a \in Nat
  PROVE  /\ a \div Size \in Nat /\ a % Size \in 0 .. Size - 1
         /\ a = Size * (a \div Size) + (a % Size)
BY QueueAssumption

\* Numbers with the same rest are the same, or at least Size apart.
LEMMA RestsDiffer ==
  ASSUME NEW a \in Nat, NEW b \in Nat, a < b, b < a + Size
  PROVE  a % Size # b % Size
<1> SUFFICES ASSUME a % Size = b % Size PROVE FALSE
  OBVIOUS
<1>1. PICK q \in Nat, r \in Nat, t \in 0 .. Size - 1 : a = Size * q + t /\ b = Size * r + t
  BY Division
<1>2. Size \in Nat \ {0}
  BY QueueAssumption
<1>3. CASE r <= q
  <2>1. Size * r <= Size * q
    BY <1>1, <1>2, <1>3
  <2> QED
    BY <1>1, <1>2, <2>1
<1>4. CASE r >= q + 1
  <2>1. Size * r >= Size * q + Size
    BY <1>1, <1>2, <1>4
  <2> QED
    BY <1>1, <1>2, <2>1
<1> QED
  BY <1>1, <1>3, <1>4

\* Taking the space away from a number leaves its index.
LEMMA RestOfWrapped ==
  ASSUME NEW a \in Nat, a >= SeqSpace
  PROVE  (a - SeqSpace) % Size = a % Size
<1>1. PICK c \in Nat : SeqSpace = Size * c
  <2>1. SeqSpace \in Nat /\ SeqSpace % Size = 0
    BY HalfNat, QueueAssumption
  <2>2. PICK c \in Nat : SeqSpace = Size * c + 0
    BY <2>1, Division
  <2>3. Size * c \in Nat
    BY QueueAssumption
  <2> QED
    BY <2>2, <2>3
<1>2. PICK q \in Nat, t \in 0 .. Size - 1 :
        a - SeqSpace = Size * q + t /\ t = (a - SeqSpace) % Size
  <2>1. a - SeqSpace \in Nat
    BY HalfNat
  <2> QED
    BY <2>1, Division
<1>3. PICK r \in Nat, u \in 0 .. Size - 1 : a = Size * r + u /\ u = a % Size
  BY Division
<1>4. Size \in Nat \ {0} /\ SeqSpace \in Nat
  BY QueueAssumption, HalfNat
<1>5. a = Size * (q + c) + t
  BY <1>1, <1>2, <1>4
<1>6. q + c = r
  <2>1. CASE q + c >= r + 1
    <3>1. Size * (q + c) >= Size * r + Size
      BY <1>1, <1>2, <1>3, <1>4, <2>1
    <3> QED
      BY <1>2, <1>3, <1>4, <1>5, <3>1
  <2>2. CASE r >= q + c + 1
    <3>1. Size * r >= Size * (q + c) + Size
      BY <1>1, <1>2, <1>3, <1>4, <2>2
    <3> QED
      BY <1>1, <1>2, <1>3, <1>4, <1>5, <3>1
  <2> QED
    BY <1>1, <1>2, <1>3, <2>1, <2>2
<1>7. Size * r \in Nat /\ Size * r + t = Size * r + u
  BY <1>3, <1>4, <1>5, <1>6
<1>8. t = u
  BY <1>7, <1>2, <1>3
<1> QED
  BY <1>2, <1>3, <1>8

\* A window no larger than the ring has each of its numbers in a place of its
\* own, across the wrap of the numbers as well as that of the ring.
LEMMA OwnPlaces ==
  ASSUME NEW a \in SeqNums, NEW m \in 0 .. Size - 1, NEW n \in 0 .. Size - 1, m # n
  PROVE  Idx(Add(a, m)) # Idx(Add(a, n))
<1>1. /\ Size \in Nat /\ SeqSpace \in Nat /\ Size <= SeqSpace /\ a \in Nat
      /\ a + m \in Nat /\ a + n \in Nat
  BY QueueAssumption, HalfNat DEF SeqNums
<1>2. Idx(Add(a, m)) = (a + m) % Size /\ Idx(Add(a, n)) = (a + n) % Size
  <2>1. ASSUME NEW c \in Nat
        PROVE  Cast(c) % Size = c % Size
    BY <1>1, <2>1, RestOfWrapped DEF Cast
  <2> QED
    BY <1>1, <2>1 DEF Idx, Add
<1>3. CASE m < n
  <2>1. a + m < a + n /\ a + n < (a + m) + Size
    BY <1>1, <1>3
  <2> QED
    BY <1>1, <1>2, <2>1, RestsDiffer
<1>4. CASE n < m
  <2>1. a + n < a + m /\ a + m < (a + n) + Size
    BY <1>1, <1>4
  <2> QED
    BY <1>1, <1>2, <2>1, RestsDiffer
<1> QED
  BY <1>3, <1>4

\* The elements of the first n entries.
LEMMA UsersShown ==
  ASSUME NEW n \in Nat
  PROVE  Users(SetEntries(begin, n)) = Shown(n)
<1>1. ASSUME NEW u \in Users(SetEntries(begin, n))
      PROVE  u \in Shown(n)
  <2>1. PICK p \in Window(begin, n) : p[2] # None /\ u = p[2]
    BY DEF Users, SetEntries
  <2>2. PICK i \in 0 .. n - 1 : p = <<Add(begin, i), Entry(Add(begin, i))>>
    BY DEF Window
  <2>3. p[2] = Place(i)
    BY <2>2 DEF Place
  <2> QED
    BY <2>1, <2>3 DEF Shown
<1>2. ASSUME NEW u \in Shown(n)
      PROVE  u \in Users(SetEntries(begin, n))
  <2>1. PICK i \in 0 .. n - 1 : u = Place(i) /\ u # None
    BY DEF Shown
  <2>2. PICK p : p = <<Add(begin, i), Entry(Add(begin, i))>>
    OBVIOUS
  <2>3. p \in Window(begin, n) /\ p[2] = u
    BY <2>1, <2>2 DEF Window, Place
  <2> QED
    BY <2>1, <2>3 DEF Users, SetEntries
<1> QED
  BY <1>1, <1>2

\* What the window shows is what the queue owns, each element once.
OwnsShown == held = Shown(count)
OnceEach ==
  \A i, j \in 0 .. count - 1 : i # j /\ Place(i) # None => Place(i) # Place(j)
Owned == TypeOK /\ (status = "live" => OwnsShown /\ OnceEach)

\* The property, from the same in terms of places.
LEMMA OwnedImplies == Owned => QueuedAreHeld
<1> SUFFICES ASSUME Owned, status = "live" PROVE QueuedAreHeld
  BY DEF QueuedAreHeld
<1>1. Users(SetEntries(begin, count)) = Shown(count)
  BY UsersShown DEF Owned, TypeOK
<1> QED
  BY <1>1 DEF Owned, OwnsShown, OnceEach, Place, QueuedAreHeld

\* The bounds that all cases need.
LEMMA Bounds ==
  ASSUME TypeOK
  PROVE  /\ begin \in SeqNums /\ count \in 0 .. Size
         /\ Size \in Nat /\ Size >= 2 /\ 2 * Size <= Half
         /\ \A n \in 0 .. Size - 1 : Add(begin, n) \in SeqNums /\ Idx(Add(begin, n)) \in Slots
<1>1. /\ begin \in SeqNums /\ count \in 0 .. Size
      /\ Size \in Nat /\ Size >= 2 /\ 2 * Size <= Half
  BY QueueAssumption DEF TypeOK
<1>2. ASSUME NEW n \in 0 .. Size - 1
      PROVE  Add(begin, n) \in SeqNums /\ Idx(Add(begin, n)) \in Slots
  <2>1. n \in 0 .. SeqSpace
    BY <1>1, HalfNat
  <2>2. Add(begin, n) \in SeqNums
    BY <1>1, <2>1, AddType
  <2>3. Add(begin, n) \in Nat
    BY <2>2, HalfNat DEF SeqNums
  <2> QED
    BY <2>2, <2>3, IdxType
<1> QED
  BY <1>1, <1>2

\* A number inside the window is fewer than count places behind begin.
LEMMA InsidePosition ==
  ASSUME TypeOK, NEW s \in SeqNums, Inside(s)
  PROVE  Dist(begin, s) \in 0 .. count - 1 /\ s = Add(begin, Dist(begin, s))
<1> DEFINE d == Dist(begin, s)
<1>1. begin \in SeqNums /\ count \in 0 .. Size /\ Size \in Nat /\ 2 * Size <= Half
  BY Bounds
<1>2. d \in SeqNums /\ s = Add(begin, d)
  BY <1>1, DistType
<1>3. d < Half
  <2>1. s = begin \/ SeqGt(s, begin)
    BY DEF Inside, Ge
  <2>2. s = begin \/ SeqLt(begin, s)
    BY <1>1, <2>1 DEF SeqLt, SeqGt, SeqNums
  <2> QED
    BY <1>1, <2>2, LtIsDist, HalfNat DEF Dist, SeqNums
<1>4. SeqLt(Add(begin, d), Add(begin, count))
  BY <1>2 DEF Inside, End
<1>5. /\ d \in 0 .. SeqSpace - 1 /\ count \in 0 .. SeqSpace - 1
      /\ count - d < Half /\ d - count <= Half
  BY <1>1, <1>2, <1>3, HalfNat DEF SeqNums
<1> HIDE DEF d
<1>6. d < count
  BY <1>1, <1>4, <1>5, LtCounts
<1> QED
  BY <1>1, <1>2, <1>5, <1>6 DEF d

\* A hole is filled: one entry of the window changes.
LEMMA HoleOwned ==
  ASSUME Owned, status = "live", NEW s \in Arriving, NEW e \in Elems \ held, PushHole(s, e)
  PROVE  OwnsShown' /\ OnceEach'
<1>1. TypeOK /\ OwnsShown /\ OnceEach /\ s \in SeqNums
  BY DEF Owned, Arriving
<1>2. PICK d \in 0 .. count - 1 : s = Add(begin, d)
  BY <1>1, InsidePosition DEF PushHole
<1>3. /\ count' = count /\ begin' = begin
      /\ queue' = [queue EXCEPT ![Idx(s)] = e]
      /\ held' = held \cup {e} /\ Place(d) = None
  BY <1>2 DEF PushHole, Place
<1>4. ASSUME NEW i \in 0 .. count - 1
      PROVE  Place(i)' = IF i = d THEN e ELSE Place(i)
  <2>1. i \in 0 .. Size - 1 /\ d \in 0 .. Size - 1
    BY <1>1, <1>2, Bounds
  <2>2. Idx(Add(begin, i)) \in Slots /\ (i # d => Idx(Add(begin, i)) # Idx(s))
    BY <1>1, <1>2, <2>1, Bounds, OwnPlaces
  <2> QED
    BY <1>1, <1>2, <1>3, <2>2 DEF Place, Entry, TypeOK
<1>5. e # None /\ e \notin Shown(count)
  BY <1>1, QueueAssumption DEF OwnsShown
<1>6. OwnsShown'
  <2>1. Shown(count)' = {IF i = d THEN e ELSE Place(i) : i \in 0 .. count - 1} \ {None}
    BY <1>3, <1>4 DEF Shown
  <2> QED
    BY <1>1, <1>2, <1>3, <1>5, <2>1 DEF OwnsShown, Shown
<1>7. OnceEach'
  BY <1>1, <1>2, <1>3, <1>4, <1>5 DEF OnceEach, Shown
<1> QED
  BY <1>6, <1>7

\* The first entry leaves: the others move one place down.
LEMMA PullOwned ==
  ASSUME Owned, Pull
  PROVE  OwnsShown' /\ OnceEach'
<1>1. TypeOK /\ OwnsShown /\ OnceEach /\ begin \in SeqNums
  BY DEF Owned, Pull, TypeOK
<1>2. /\ count > 0 /\ count' = count - 1 /\ begin' = Add(begin, 1) /\ queue' = queue
      /\ count \in 0 .. Size
  BY <1>1 DEF Pull, TypeOK
<1>3. ASSUME NEW i \in 0 .. count - 2
      PROVE  Place(i)' = Place(i + 1)
  <2>1. Add(Add(begin, 1), i) = Add(begin, i + 1)
    BY <1>1, <1>2, Bounds, AddAdd, HalfNat
  <2> QED
    BY <1>2, <2>1 DEF Place, Entry
<1>4. Place(0) = Entry(begin) /\ Place(0) # None
  <2>1. Add(begin, 0) = begin
    BY <1>1, HalfNat DEF Add, Cast, SeqNums
  <2> QED
    BY <2>1 DEF Place, Pull
<1>5. held' = held \ {Place(0)}
  BY <1>4 DEF Pull
<1>6. OwnsShown'
  <2>1. Shown(count)' = {Place(i + 1) : i \in 0 .. count - 2} \ {None}
    BY <1>2, <1>3 DEF Shown
  <2>2. {Place(i + 1) : i \in 0 .. count - 2} = {Place(i) : i \in 1 .. count - 1}
    <3>1. \A i \in 0 .. count - 2 : i + 1 \in 1 .. count - 1
      BY <1>2
    <3>2. \A j \in 1 .. count - 1 : j - 1 \in 0 .. count - 2 /\ (j - 1) + 1 = j
      BY <1>2
    <3> QED
      BY <3>1, <3>2
  <2>3. \A i \in 1 .. count - 1 : Place(i) # Place(0)
    BY <1>1, <1>2, <1>4 DEF OnceEach
  <2> QED
    BY <1>1, <1>2, <1>5, <2>1, <2>2, <2>3 DEF OwnsShown, Shown
<1>7. OnceEach'
  <2>1. \A i \in 0 .. count - 2 : i + 1 \in 0 .. count - 1
    BY <1>2
  <2> QED
    BY <1>1, <1>2, <1>3, <2>1 DEF OnceEach
<1> QED
  BY <1>6, <1>7

\* What the entries of the window are after an append: those that were not
\* evicted, moved down, then holes, and the number at the end.
LEMMA AppendPlaces ==
  ASSUME TypeOK, NEW s \in Arriving, NEW e \in Elems, PushAppend(s, e)
  PROVE  \E shift \in Nat, m \in 1 .. Size :
           /\ shift = ShiftFor(Dist(begin, s)) /\ shift + m = Dist(begin, s) + 1
           /\ begin' = Add(begin, shift) /\ count' = m /\ shift + m > count
           /\ Evicted(s) = IF shift < count THEN shift ELSE count
           /\ \A n \in 0 .. m - 1 :
                Place(n)' = IF n = m - 1 THEN e
                            ELSE IF shift + n < count THEN Place(shift + n) ELSE None
<1> DEFINE d == Dist(begin, s)
           k == Evicted(s)
<1>1. /\ d \in count .. Half - 1 /\ s = Add(begin, d) /\ s \in SeqNums
      /\ begin \in SeqNums /\ count \in 0 .. Size /\ Size \in Nat /\ 2 * Size <= Half
  BY PushPosition, Bounds DEF PushAppend
<1>2. PICK shift \in 0 .. d :
        /\ shift = ShiftFor(d)
        /\ begin' = Add(begin, shift) /\ count' = d + 1 - shift
        /\ k = IF shift < count THEN shift ELSE count
        /\ Grown(begin', count - k, s) = count' - (count - k)
  BY <1>1, AppendWindow
<1>3. PICK m \in 1 .. Size : m = count'
  BY <1>1, AppendWindow
<1>4. queue' = [i \in Slots |-> IF i = Idx(s) THEN e
                    ELSE IF i \in Fresh(begin', count - k, m - (count - k)) THEN None
                    ELSE queue[i]]
  BY <1>2, <1>3 DEF PushAppend
<1> HIDE DEF d, k
<1>5. begin' \in SeqNums
  BY <1>1, <1>2, AddType, HalfNat
<1>6. ASSUME NEW n \in 0 .. m - 1
      PROVE  /\ Add(begin', n) = Add(begin, shift + n)
             /\ Idx(Add(begin', n)) \in Slots
             /\ Place(n)' = queue'[Idx(Add(begin', n))]
  <2>1. Add(begin', n) = Add(begin, shift + n)
    BY <1>1, <1>2, <1>3, AddAdd, HalfNat
  <2>2. Add(begin', n) \in Nat
    <3>1. n \in 0 .. SeqSpace
      BY <1>1, HalfNat
    <3>2. Add(begin', n) \in SeqNums
      BY <1>5, <3>1, AddType
    <3> QED
      BY <3>2, HalfNat DEF SeqNums
  <2> QED
    BY <2>1, <2>2, IdxType DEF Place, Entry
<1>7. s = Add(begin', m - 1)
  BY <1>1, <1>2, <1>3, <1>6
<1>8. ASSUME NEW n \in 0 .. m - 1
      PROVE  Place(n)' = IF n = m - 1 THEN e
                         ELSE IF shift + n < count THEN Place(shift + n) ELSE None
  <2>1. CASE n = m - 1
    BY <1>4, <1>6, <1>7, <2>1
  <2>2. CASE n # m - 1 /\ shift + n < count
    <3>1. Idx(Add(begin', n)) # Idx(s)
      <4>1. n \in 0 .. Size - 1 /\ m - 1 \in 0 .. Size - 1 /\ n # m - 1
        BY <1>1, <2>2
      <4> QED
        BY <1>5, <1>7, <4>1, OwnPlaces
    <3>2. k = shift /\ n < count - k
      BY <1>1, <1>2, <2>2
    <3>3. Idx(Add(begin', n)) \notin Fresh(begin', count - k, m - (count - k))
      <4>1. ASSUME NEW j \in 0 .. (m - (count - k)) - 1
            PROVE  Idx(Add(begin', n)) # Idx(Add(begin', count - k + j))
        <5>1. /\ n \in 0 .. Size - 1 /\ count - k + j \in 0 .. Size - 1
              /\ n # count - k + j
          BY <1>1, <1>2, <1>3, <3>2
        <5> QED
          BY <1>5, <5>1, OwnPlaces
      <4> QED
        BY <4>1 DEF Fresh
    <3>4. Place(n)' = queue[Idx(Add(begin, shift + n))]
      BY <1>4, <1>6, <3>1, <3>3
    <3> QED
      BY <2>2, <3>4 DEF Place, Entry
  <2>3. CASE n # m - 1 /\ ~(shift + n < count)
    <3>1. Idx(Add(begin', n)) # Idx(s)
      <4>1. n \in 0 .. Size - 1 /\ m - 1 \in 0 .. Size - 1 /\ n # m - 1
        BY <1>1, <2>3
      <4> QED
        BY <1>5, <1>7, <4>1, OwnPlaces
    <3>2. Idx(Add(begin', n)) \in Fresh(begin', count - k, m - (count - k))
      <4>1. PICK j \in 0 .. (m - (count - k)) - 1 : n = count - k + j
        <5>1. n - (count - k) \in 0 .. (m - (count - k)) - 1
          BY <1>1, <1>2, <1>3, <2>3
        <5>2. n = count - k + (n - (count - k))
          BY <1>1, <1>2, <1>3
        <5> QED
          BY <5>1, <5>2
      <4> QED
        BY <4>1 DEF Fresh
    <3> QED
      BY <1>4, <1>6, <2>3, <3>1, <3>2
  <2> QED
    BY <2>1, <2>2, <2>3
<1>9. /\ shift \in Nat /\ shift + m = d + 1 /\ shift + m > count
      /\ k = IF shift < count THEN shift ELSE count
  BY <1>1, <1>2, <1>3
<1> QED
  BY <1>2, <1>3, <1>8, <1>9 DEF d, k

\* An append: what was evicted is given up, and the newcomer is owned.
LEMMA AppendOwned ==
  ASSUME Owned, status = "live", NEW s \in Arriving, NEW e \in Elems \ held, PushAppend(s, e)
  PROVE  OwnsShown' /\ OnceEach'
<1>1. TypeOK /\ OwnsShown /\ OnceEach /\ count \in 0 .. Size /\ Size \in Nat
  BY Bounds DEF Owned
<1>2. PICK shift \in Nat, m \in 1 .. Size :
        /\ count' = m /\ shift + m > count
        /\ Evicted(s) = IF shift < count THEN shift ELSE count
        /\ \A n \in 0 .. m - 1 :
             Place(n)' = IF n = m - 1 THEN e
                         ELSE IF shift + n < count THEN Place(shift + n) ELSE None
  BY <1>1, AppendPlaces
<1>10. /\ shift \in Nat /\ shift + m > count /\ m \in 1 .. Size /\ m \in Nat
       /\ count \in Nat
  BY <1>1, <1>2
<1>11. ASSUME NEW n \in 0 .. m - 1
       PROVE  Place(n)' = IF n = m - 1 THEN e
                          ELSE IF shift + n < count THEN Place(shift + n) ELSE None
  BY <1>2
<1>3. PICK k \in 0 .. count : k = Evicted(s) /\ (shift < count => k = shift)
                             /\ (shift >= count => k = count)
  BY <1>1, <1>2
<1>4. held' = (held \ Shown(k)) \cup {e}
  BY <1>1, <1>3, UsersShown DEF PushAppend
<1>5. e # None /\ e \notin Shown(count) /\ \A i \in 0 .. count - 1 : Place(i) # e
  BY <1>1, QueueAssumption DEF OwnsShown, Shown
<1>6. held \ Shown(k) = {Place(i) : i \in k .. count - 1} \ {None}
  <2>1. \A i \in k .. count - 1, j \in 0 .. k - 1 : Place(i) # None => Place(i) # Place(j)
    BY <1>1, <1>3 DEF OnceEach
  <2>2. 0 .. count - 1 = (0 .. k - 1) \cup (k .. count - 1)
    BY <1>1, <1>3
  <2> QED
    BY <1>1, <2>1, <2>2 DEF OwnsShown, Shown
<1>7. Shown(count)' = ({Place(i) : i \in k .. count - 1} \ {None}) \cup {e}
  <2>1. Shown(count)' = {Place(n)' : n \in 0 .. m - 1} \ {None}
    BY <1>2 DEF Shown
  <2>2. ASSUME NEW i \in k .. count - 1
        PROVE  Place(i) \in {Place(n)' : n \in 0 .. m - 1}
    <3>1. PICK n \in 0 .. m - 1 : shift + n = i /\ n # m - 1 /\ shift + n < count
      <4>1. i - shift \in 0 .. m - 1 /\ shift + (i - shift) = i /\ i - shift # m - 1 /\ i < count
        BY <1>3, <1>10
      <4> QED
        BY <4>1
    <3>2. Place(n)' = Place(i)
      <4>1. Place(n)' = Place(shift + n)
        BY <1>11, <3>1
      <4> QED
        BY <3>1, <4>1
    <3> QED
      BY <3>1, <3>2
  <2>3. ASSUME NEW n \in 0 .. m - 1
        PROVE  Place(n)' \in {Place(i) : i \in k .. count - 1} \cup {None, e}
    <3>1. CASE n # m - 1 /\ shift + n < count
      <4>1. shift + n \in k .. count - 1
        BY <1>3, <1>10, <3>1
      <4> QED
        BY <1>11, <3>1, <4>1
    <3> QED
      BY <1>11, <3>1
  <2>4. e \in {Place(n)' : n \in 0 .. m - 1}
    <3>1. m - 1 \in 0 .. m - 1
      BY <1>10
    <3>2. Place(m - 1)' = e
      BY <1>11, <3>1
    <3> QED
      BY <3>1, <3>2
  <2> QED
    BY <1>5, <2>1, <2>2, <2>3, <2>4
<1>8. OwnsShown'
  BY <1>4, <1>6, <1>7 DEF OwnsShown
<1>9. OnceEach'
  <2> SUFFICES ASSUME NEW i \in 0 .. m - 1, NEW j \in 0 .. m - 1,
                      i # j, Place(i)' # None
               PROVE  Place(i)' # Place(j)'
    BY <1>2 DEF OnceEach
  <2>1. CASE i = m - 1
    <3>1. Place(i)' = e /\ (Place(j)' = None \/ (shift + j \in 0 .. count - 1
                                              /\ Place(j)' = Place(shift + j)))
      BY <1>10, <1>11, <2>1
    <3> QED
      BY <1>5, <3>1
  <2>2. CASE i # m - 1
    <3>1. shift + i \in 0 .. count - 1 /\ Place(i)' = Place(shift + i)
      BY <1>10, <1>11, <2>2
    <3>2. CASE j = m - 1
      BY <1>5, <1>11, <3>1, <3>2
    <3>3. CASE j # m - 1 /\ shift + j < count
      <4>1. shift + j \in 0 .. count - 1 /\ shift + i # shift + j /\ Place(j)' = Place(shift + j)
        BY <1>10, <1>11, <3>3
      <4> QED
        BY <1>1, <3>1, <4>1 DEF OnceEach
    <3>4. CASE j # m - 1 /\ ~(shift + j < count)
      BY <1>11, <2>2, <3>4
    <3> QED
      BY <3>2, <3>3, <3>4
  <2> QED
    BY <2>1, <2>2
<1> QED
  BY <1>8, <1>9

\* The queue owns exactly what its window shows, each element in one entry:
\* the flags that pull and the eviction leave set in the ring never bring an
\* element back, and none is lost (reorderqueue.c:72-142, :144-161).
THEOREM OwnedOnce == Spec => []QueuedAreHeld
<1>1. Init => Owned
  <2> SUFFICES ASSUME Init PROVE Owned
    OBVIOUS
  <2>1. TypeOK
    BY TypeInit
  <2>2. count = 0 /\ held = {}
    BY DEF Init
  <2> QED
    BY <2>1, <2>2 DEF Owned, OwnsShown, OnceEach, Shown
<1>2. Owned /\ [Next]_vars => Owned'
  <2> SUFFICES ASSUME Owned, [Next]_vars, status' = "live"
               PROVE  OwnsShown' /\ OnceEach'
    BY TypeStep DEF Owned
  <2>1. CASE \E s \in Arriving, e \in Elems : Push(s, e)
    <3>1. PICK s \in Arriving, e \in Elems : Push(s, e)
      BY <2>1
    <3>2. status = "live" /\ e \in Elems \ held
      BY <3>1 DEF Push
    <3>3. CASE UNCHANGED <<begin, count, queue, held>>
      BY <3>2, <3>3 DEF Owned, OwnsShown, OnceEach, Shown, Place, Entry
    <3> QED
      BY <3>1, <3>2, <3>3, HoleOwned, AppendOwned
      DEF Push, PushDuplicate, PushOld, PushAssertFails, PushBeyond
  <2>2. CASE Pull
    BY <2>2, PullOwned
  <2>3. CASE SetDropStrategy \/ Stopped \/ UNCHANGED vars
    BY <2>3 DEF SetDropStrategy, Stopped, vars, Owned, OwnsShown, OnceEach, Shown, Place, Entry
  <2>4. CASE Fini
    BY <2>4 DEF Fini
  <2> QED
    BY <2>1, <2>2, <2>3, <2>4 DEF Next
<1> QED
  BY <1>1, <1>2, OwnedImplies, PTL DEF Spec
-----------------------------------------------------------------------------
(* The ordered window *)

\* The numbers of a window that are set, and what the ring shows for them.
Numbers(b, n, q) == {Add(b, i) : i \in {j \in 0 .. n - 1 : q[Idx(Add(b, j))] # None}}
Map(b, n, q) == [s \in Numbers(b, n, q) |-> q[Idx(s)]]

\* What stands for the slots of the ordered window.
Mapped == [s \in {p[1] : p \in SetEntries(begin, count)} |-> Entry(s)]

\* The numbers and values of the window, without its pairs.
LEMMA MappedIs == Mapped = Map(begin, count, queue)
<1>1. {p[1] : p \in SetEntries(begin, count)} = Numbers(begin, count, queue)
  <2>1. ASSUME NEW p \in SetEntries(begin, count)
        PROVE  p[1] \in Numbers(begin, count, queue)
    <3>1. PICK i \in 0 .. count - 1 : p = <<Add(begin, i), Entry(Add(begin, i))>>
      BY DEF SetEntries, Window
    <3>2. p[1] = Add(begin, i) /\ p[2] = queue[Idx(Add(begin, i))] /\ p[2] # None
      BY <3>1 DEF SetEntries, Entry
    <3> QED
      BY <3>2 DEF Numbers
  <2>2. ASSUME NEW s \in Numbers(begin, count, queue)
        PROVE  \E p \in SetEntries(begin, count) : s = p[1]
    <3>1. PICK i \in 0 .. count - 1 : s = Add(begin, i) /\ queue[Idx(Add(begin, i))] # None
      BY DEF Numbers
    <3>2. PICK p : p = <<Add(begin, i), Entry(Add(begin, i))>>
      OBVIOUS
    <3>3. p \in SetEntries(begin, count) /\ p[1] = s
      BY <3>1, <3>2 DEF SetEntries, Window, Entry
    <3> QED
      BY <3>3
  <2> QED
    BY <2>1, <2>2
<1> QED
  BY <1>1 DEF Mapped, Map, Entry

\* The same after a step.
LEMMA MappedNextIs == Mapped' = Map(begin', count', queue')
<1>1. (Mapped = Map(begin, count, queue))'
  BY MappedIs, PTL
<1> QED
  BY <1>1

\* A number counted from a base is as far from it as it was counted.
LEMMA DistAdd ==
  ASSUME NEW b \in SeqNums, NEW i \in 0 .. SeqSpace - 1
  PROVE  Dist(b, Add(b, i)) = i
BY HalfNat DEF Dist, Add, Cast, SeqNums

\* A number of the window is mapped exactly if its entry is set.
LEMMA NumbersAre ==
  ASSUME NEW b \in SeqNums, NEW n \in 0 .. Size, NEW q
  PROVE  \A i \in 0 .. n - 1 : Add(b, i) \in Numbers(b, n, q) <=> q[Idx(Add(b, i))] # None
<1> SUFFICES ASSUME NEW i \in 0 .. n - 1, Add(b, i) \in Numbers(b, n, q)
             PROVE  q[Idx(Add(b, i))] # None
  BY DEF Numbers
<1>1. PICK j \in 0 .. n - 1 : Add(b, i) = Add(b, j) /\ q[Idx(Add(b, j))] # None
  BY DEF Numbers
<1>2. i \in 0 .. SeqSpace - 1 /\ j \in 0 .. SeqSpace - 1
  BY QueueAssumption, HalfNat
<1>3. i = j
  BY <1>1, <1>2, DistAdd
<1> QED
  BY <1>1, <1>3

\* The arithmetic of the ordered window is that of the queue.
LEMMA SameArithmetic ==
  /\ Ordered!SeqNums = SeqNums /\ Ordered!Half = Half
  /\ \A a, b : Ordered!Dist(a, b) = Dist(a, b)
  /\ \A n : Ordered!Ahead(n) = Add(begin, n)
BY DEF Ordered!SeqNums, SeqNums, Ordered!Half, Half, Ordered!Dist, Dist,
       Ordered!Ahead, Ordered!Cast, Add, Cast

\* How far a number that arrives is ahead of the window.
LEMMA ArrivingIs ==
  ASSUME TypeOK, NEW s \in Arriving
  PROVE  /\ s \in SeqNums /\ begin \in SeqNums /\ Half \in Nat
         /\ Dist(begin, s) \in 0 .. SeqSpace - 1 /\ Dist(begin, s) # Half
         /\ Add(begin, Dist(begin, s)) = s
         /\ SeqLt(s, begin) <=> Dist(begin, s) > Half
<1>1. s \in SeqNums /\ begin \in SeqNums
  BY DEF TypeOK, Arriving
<1>2. Dist(begin, s) # Half
  BY <1>1, HalfNat, QueueAssumption DEF Arriving, Dist, SeqNums
<1>3. SeqLt(s, begin) <=> SeqGt(begin, s)
  BY <1>1 DEF SeqLt, SeqGt, SeqNums
<1>4. Dist(begin, s) \in SeqNums /\ Add(begin, Dist(begin, s)) = s
  BY <1>1, DistType
<1> QED
  BY <1>1, <1>2, <1>3, <1>4, LtIsDist, HalfNat DEF SeqNums

\* A number that comes late, twice or too early is refused.
LEMMA RefusedIs ==
  ASSUME TypeOK, status = "live", NEW s \in Arriving, NEW e \in Elems,
         PushDuplicate(s, e) \/ PushOld(s, e) \/ PushBeyond(s, e)
  PROVE  Ordered!Refuse(s, e)
<1> DEFINE d == Dist(begin, s)
<1>1. /\ s \in SeqNums /\ begin \in SeqNums /\ d \in 0 .. SeqSpace - 1 /\ d # Half
      /\ SeqLt(s, begin) <=> d > Half
  BY ArrivingIs
<1>2. UNCHANGED <<begin, count, queue, status>> /\ dropped' = {<<s, e>>}
  BY DEF PushDuplicate, PushOld, PushBeyond
<1>3. Mapped' = Mapped
  BY <1>2, MappedIs, MappedNextIs
<1>4. \/ d > Half
      \/ s \in DOMAIN Mapped
      \/ d >= Size /\ drop_strategy = "end"
  <2>1. CASE PushDuplicate(s, e)
    <3>1. d \in 0 .. count - 1 /\ s = Add(begin, d) /\ queue[Idx(s)] # None
      BY <1>1, <2>1, InsidePosition DEF PushDuplicate, Entry
    <3>2. s \in Numbers(begin, count, queue)
      BY <1>1, <3>1, NumbersAre DEF TypeOK
    <3> QED
      BY <3>2, MappedIs DEF Map
  <2>2. CASE PushOld(s, e)
    BY <1>1, <2>2 DEF PushOld, Old
  <2>3. CASE PushBeyond(s, e)
    BY <2>3, EvictedIs DEF PushBeyond, MayEvict, TypeOK
  <2> QED
    BY <2>1, <2>2, <2>3
<1> QED
  BY <1>1, <1>2, <1>3, <1>4, SameArithmetic DEF Ordered!Refuse, Mapped

\* The empty ring stands for the empty window.
LEMMA InitMaps == Init => Ordered!Init
<1> SUFFICES ASSUME Init PROVE Ordered!Init
  OBVIOUS
<1>1. Mapped = [s \in {} |-> {}]
  BY MappedIs DEF Init, Map, Numbers
<1> QED
  BY <1>1, SameArithmetic DEF Init, Ordered!Init, Mapped
\* What the mapping shows, counted from begin.
Seen ==
  /\ DOMAIN Mapped = {Add(begin, i) : i \in {j \in 0 .. count - 1 : Place(j) # None}}
  /\ \A i \in 0 .. count - 1 : Place(i) # None => Mapped[Add(begin, i)] = Place(i)
  /\ Mapped = [t \in DOMAIN Mapped |-> Mapped[t]]

\* The mapping shows the set entries of the window.
LEMMA SeenHolds == Seen
<1>1. Mapped = Map(begin, count, queue)
  BY MappedIs
<1>2. DOMAIN Mapped = Numbers(begin, count, queue)
  BY <1>1 DEF Map
<1>3. Numbers(begin, count, queue)
        = {Add(begin, i) : i \in {j \in 0 .. count - 1 : Place(j) # None}}
  BY DEF Numbers, Place, Entry
<1>4. \A t \in DOMAIN Mapped : Mapped[t] = queue[Idx(t)]
  BY <1>1 DEF Map
<1>5. Mapped = [t \in DOMAIN Mapped |-> Mapped[t]]
  BY <1>1 DEF Map
<1> QED
  BY <1>2, <1>3, <1>4, <1>5 DEF Seen, Place, Entry

\* It shows those of the next window after a step.
LEMMA SeenNext == Seen'
BY SeenHolds, PTL

\* A hole is filled: the newcomer is stored where there was room for it.
LEMMA HoleIsFit ==
  ASSUME TypeOK, NEW s \in Arriving, NEW e \in Elems, PushHole(s, e)
  PROVE  Ordered!Fit(s, e)
<1> DEFINE d == Dist(begin, s)
<1>1. /\ begin \in SeqNums /\ s \in SeqNums /\ count \in 0 .. Size
      /\ Size \in Nat /\ 2 * Size <= Half
  BY Bounds DEF Arriving
<1>2. d \in 0 .. count - 1 /\ s = Add(begin, d)
  BY <1>1, InsidePosition DEF PushHole
<1> HIDE DEF d
<1>3. /\ count' = count /\ begin' = begin /\ status' = status /\ dropped' = {}
      /\ queue' = [queue EXCEPT ![Idx(s)] = e] /\ Place(d) = None
  BY <1>2 DEF PushHole, Place
<1>4. ASSUME NEW i \in 0 .. count - 1
      PROVE  Place(i)' = IF i = d THEN e ELSE Place(i)
  <2>1. i \in 0 .. Size - 1 /\ d \in 0 .. Size - 1
    BY <1>1, <1>2
  <2>2. Idx(Add(begin, i)) \in Slots /\ (i # d => Idx(Add(begin, i)) # Idx(s))
    BY <1>1, <1>2, <2>1, Bounds, OwnPlaces
  <2> QED
    BY <1>1, <1>2, <1>3, <2>2 DEF Place, Entry, TypeOK
<1>5. e # None
  BY QueueAssumption
<1>6. \A i \in 0 .. count - 1 : Add(begin, i) = s => i = d
  BY <1>1, <1>2, DistAdd, HalfNat
<1>7. s \notin DOMAIN Mapped
  BY <1>2, <1>3, <1>6, SeenHolds DEF Seen
<1>8. DOMAIN Mapped' = DOMAIN Mapped \cup {s}
  <2>1. DOMAIN Mapped' = {Add(begin, i) : i \in {j \in 0 .. count - 1 : Place(j)' # None}}
    BY <1>3, SeenNext DEF Seen
  <2>2. {j \in 0 .. count - 1 : Place(j)' # None}
          = {j \in 0 .. count - 1 : Place(j) # None} \cup {d}
    BY <1>2, <1>4, <1>5
  <2> QED
    BY <1>2, <2>1, <2>2, SeenHolds DEF Seen
<1>9. \A t \in DOMAIN Mapped' : Mapped'[t] = IF t = s THEN e ELSE Mapped[t]
  <2> SUFFICES ASSUME NEW t \in DOMAIN Mapped'
               PROVE  Mapped'[t] = IF t = s THEN e ELSE Mapped[t]
    OBVIOUS
  <2>1. PICK i \in 0 .. count - 1 : t = Add(begin, i) /\ Place(i)' # None
    BY <1>3, SeenNext DEF Seen
  <2>2. Mapped'[t] = Place(i)'
    BY <1>3, <2>1, SeenNext DEF Seen
  <2>3. CASE i = d
    BY <1>2, <1>4, <2>1, <2>2, <2>3
  <2>4. CASE i # d
    BY <1>4, <1>6, <2>1, <2>2, <2>4, SeenHolds DEF Seen
  <2> QED
    BY <2>3, <2>4
<1>10. Mapped' = Ordered!Store(Mapped, s, e)
  <2>1. Mapped' = [t \in DOMAIN Mapped' |-> Mapped'[t]]
    BY SeenNext DEF Seen
  <2> QED
    BY <1>8, <1>9, <2>1 DEF Ordered!Store
<1>11. d < Size /\ d < count
  BY <1>1, <1>2
<1> QED
  BY <1>3, <1>7, <1>10, <1>11, SameArithmetic DEF Ordered!Fit, Mapped, d
\* The numbers of the window that an append leaves in it.
Rest(shift) == IF shift >= count THEN {} ELSE {Add(begin, n) : n \in shift .. count - 1}

\* An append stores the newcomer beside what it leaves in the window.
LEMMA AppendMaps ==
  ASSUME TypeOK, NEW s \in Arriving, NEW e \in Elems, PushAppend(s, e),
         NEW shift \in Nat, shift = ShiftFor(Dist(begin, s))
  PROVE  /\ Mapped' = Ordered!Store(Ordered!Keep(Mapped, Rest(shift)), s, e)
         /\ begin' = Add(begin, shift)
         /\ count' = Dist(begin, s) + 1 - shift
         /\ Evicted(s) = IF shift < count THEN shift ELSE count
<1> DEFINE d == Dist(begin, s)
<1>1. /\ d \in count .. Half - 1 /\ s = Add(begin, d) /\ s \in SeqNums
      /\ begin \in SeqNums /\ count \in 0 .. Size /\ Size \in Nat /\ 2 * Size <= Half
  BY PushPosition, Bounds DEF PushAppend
<1> HIDE DEF d
<1>2. PICK m \in 1 .. Size :
        /\ shift + m = d + 1
        /\ begin' = Add(begin, shift) /\ count' = m /\ shift + m > count
        /\ Evicted(s) = IF shift < count THEN shift ELSE count
        /\ \A n \in 0 .. m - 1 :
             Place(n)' = IF n = m - 1 THEN e
                         ELSE IF shift + n < count THEN Place(shift + n) ELSE None
  BY AppendPlaces DEF d
<1>3. ASSUME NEW n \in 0 .. m - 1
      PROVE  /\ Add(begin', n) = Add(begin, shift + n)
             /\ Place(n)' = IF n = m - 1 THEN e
                            ELSE IF shift + n < count THEN Place(shift + n) ELSE None
  <2>1. Add(begin', n) = Add(begin, shift + n)
    BY <1>1, <1>2, AddAdd, HalfNat
  <2> QED
    BY <1>2, <2>1
<1>4. e # None
  BY QueueAssumption
<1>5. \A i \in 0 .. count : Add(begin, i) = s => i = d
  BY <1>1, DistAdd, HalfNat DEF d
<1> DEFINE f == Ordered!Keep(Mapped, Rest(shift))
<1>6. DOMAIN f = {Add(begin, i) : i \in {j \in 0 .. count - 1 : Place(j) # None /\ j >= shift}}
  <2>1. ASSUME NEW i \in 0 .. count - 1
        PROVE  Add(begin, i) \in Rest(shift) <=> i >= shift
    <3>1. \A n \in shift .. count - 1 : Add(begin, n) = Add(begin, i) => n = i
      BY <1>1, DistAdd, HalfNat
    <3> QED
      BY <1>1, <3>1 DEF Rest
  <2>2. DOMAIN f = DOMAIN Mapped \cap Rest(shift)
    BY DEF Ordered!Keep
  <2> QED
    BY <2>1, <2>2, SeenHolds DEF Seen
<1>7. \A t \in DOMAIN f : f[t] = Mapped[t]
  BY DEF Ordered!Keep
<1> HIDE DEF f
<1>8. ASSUME NEW n \in 0 .. m - 1, Place(n)' # None
      PROVE  /\ Add(begin', n) \in DOMAIN f \cup {s}
             /\ Mapped'[Add(begin', n)] = IF Add(begin', n) = s THEN e ELSE f[Add(begin', n)]
  <2>1. Mapped'[Add(begin', n)] = Place(n)'
    BY <1>2, <1>8, SeenNext DEF Seen
  <2>2. CASE n = m - 1
    BY <1>1, <1>2, <1>3, <2>1, <2>2
  <2>3. CASE n # m - 1
    <3>1. shift + n \in 0 .. count - 1 /\ shift + n # d
      BY <1>1, <1>2, <1>3, <1>8, <2>3
    <3>2. Place(shift + n) # None /\ Place(n)' = Place(shift + n)
      BY <1>3, <1>8, <2>3, <3>1
    <3>3. Add(begin', n) \in DOMAIN f /\ Add(begin', n) # s
      <4>1. Add(begin', n) = Add(begin, shift + n) /\ shift + n >= shift
        BY <1>3, <3>1
      <4>2. PICK i \in 0 .. count - 1 : i = shift + n
        BY <3>1
      <4>3. i \in 0 .. count /\ i # d /\ Place(i) # None /\ i >= shift
        BY <1>1, <3>1, <3>2, <4>1, <4>2
      <4>4. Add(begin, i) \in DOMAIN f
        BY <1>6, <4>2, <4>3
      <4> QED
        BY <1>5, <4>1, <4>2, <4>3, <4>4
    <3>4. f[Add(begin', n)] = Place(shift + n)
      BY <1>3, <1>7, <3>1, <3>2, <3>3, SeenHolds DEF Seen
    <3> QED
      BY <2>1, <3>2, <3>3, <3>4
  <2> QED
    BY <2>2, <2>3
<1>9. DOMAIN Mapped' = {Add(begin', i) : i \in {j \in 0 .. m - 1 : Place(j)' # None}}
  BY <1>2, SeenNext DEF Seen
<1>10. ASSUME NEW t \in DOMAIN f \cup {s} PROVE t \in DOMAIN Mapped'
  <2>1. CASE t = s
    <3>1. m - 1 \in 0 .. m - 1 /\ shift + (m - 1) = d
      BY <1>1, <1>2
    <3>2. Add(begin', m - 1) = s /\ Place(m - 1)' = e
      BY <1>1, <1>3, <3>1
    <3> QED
      BY <1>4, <1>9, <2>1, <3>1, <3>2
  <2>2. CASE t \in DOMAIN f
    <3>1. PICK j \in 0 .. count - 1 : t = Add(begin, j) /\ Place(j) # None /\ j >= shift
      BY <1>6, <2>2
    <3>2. /\ j - shift \in 0 .. m - 1 /\ shift + (j - shift) = j
          /\ j - shift # m - 1 /\ j < count
      BY <1>1, <1>2, <3>1
    <3>3. PICK n \in 0 .. m - 1 : shift + n = j /\ n # m - 1
      BY <3>2
    <3>4. Add(begin', n) = t /\ Place(n)' = Place(j)
      BY <1>3, <3>1, <3>2, <3>3
    <3> QED
      BY <1>9, <3>1, <3>4
  <2> QED
    BY <2>1, <2>2
<1>11. DOMAIN Mapped' = DOMAIN f \cup {s}
  BY <1>8, <1>9, <1>10
<1>12. \A t \in DOMAIN Mapped' : Mapped'[t] = IF t = s THEN e ELSE f[t]
  BY <1>8, <1>9
<1>13. Mapped' = Ordered!Store(f, s, e)
  <2>1. Mapped' = [t \in DOMAIN Mapped' |-> Mapped'[t]]
    BY SeenNext DEF Seen
  <2> QED
    BY <1>11, <1>12, <2>1 DEF Ordered!Store
<1> QED
  BY <1>1, <1>2, <1>13 DEF d, f

\* What the eviction gives up are the elements that do not stay.
LEMMA EvictedPairs ==
  ASSUME TypeOK, NEW k \in 0 .. count, NEW shift \in Nat,
         k = IF shift < count THEN shift ELSE count
  PROVE  SetEntries(begin, k)
           = Ordered!Pairs(Ordered!Keep(Mapped, DOMAIN Mapped \ Rest(shift)))
<1> DEFINE f == Ordered!Keep(Mapped, DOMAIN Mapped \ Rest(shift))
<1>1. begin \in SeqNums /\ count \in 0 .. Size /\ Size \in Nat /\ 2 * Size <= Half
  BY Bounds
<1>2. ASSUME NEW i \in 0 .. count - 1
      PROVE  Add(begin, i) \in Rest(shift) <=> i >= k
  <2>1. \A n \in shift .. count - 1 : Add(begin, n) = Add(begin, i) => n = i
    BY <1>1, DistAdd, HalfNat
  <2> QED
    BY <1>1, <2>1 DEF Rest
<1>3. DOMAIN f = DOMAIN Mapped \ Rest(shift) /\ \A t \in DOMAIN f : f[t] = Mapped[t]
  BY DEF Ordered!Keep
<1>a. /\ DOMAIN Mapped = {Add(begin, i) : i \in {j \in 0 .. count - 1 : Place(j) # None}}
      /\ \A i \in 0 .. count - 1 : Place(i) # None => Mapped[Add(begin, i)] = Place(i)
  BY SeenHolds DEF Seen
<1> HIDE DEF f
<1>4. DOMAIN f = {Add(begin, i) : i \in {j \in 0 .. k - 1 : Place(j) # None}}
  <2>1. ASSUME NEW t \in DOMAIN f
        PROVE  \E i \in 0 .. k - 1 : Place(i) # None /\ t = Add(begin, i)
    <3>1. PICK i \in 0 .. count - 1 : Place(i) # None /\ t = Add(begin, i)
      BY <1>3, <1>a
    <3>2. ~(i >= k)
      BY <1>2, <1>3, <3>1
    <3> QED
      BY <1>1, <3>1, <3>2
  <2>2. ASSUME NEW i \in 0 .. k - 1, Place(i) # None
        PROVE  Add(begin, i) \in DOMAIN f
    <3>1. i \in 0 .. count - 1 /\ ~(i >= k)
      BY <1>1
    <3> QED
      BY <1>2, <1>3, <1>a, <2>2, <3>1
  <2> QED
    BY <2>1, <2>2
<1>5. \A i \in 0 .. k - 1 : Place(i) # None => f[Add(begin, i)] = Place(i)
  BY <1>1, <1>3, <1>4, <1>a
<1>6. Ordered!Pairs(f) = {<<t, f[t]>> : t \in DOMAIN f}
  BY DEF Ordered!Pairs
<1>7. SetEntries(begin, k)
        = {<<Add(begin, i), Place(i)>> : i \in {j \in 0 .. k - 1 : Place(j) # None}}
  <2>1. SetEntries(begin, k)
          = {p \in {<<Add(begin, i), Place(i)>> : i \in 0 .. k - 1} : p[2] # None}
    BY DEF SetEntries, Window, Place
  <2> QED
    BY <2>1
<1>8. ASSUME NEW p \in SetEntries(begin, k) PROVE p \in Ordered!Pairs(f)
  <2>1. PICK i \in 0 .. k - 1 : Place(i) # None /\ p = <<Add(begin, i), Place(i)>>
    BY <1>7
  <2> QED
    BY <1>4, <1>5, <1>6, <2>1
<1>9. ASSUME NEW p \in Ordered!Pairs(f) PROVE p \in SetEntries(begin, k)
  <2>1. PICK i \in 0 .. k - 1 : Place(i) # None /\ p = <<Add(begin, i), f[Add(begin, i)]>>
    BY <1>4, <1>6
  <2> QED
    BY <1>5, <1>7, <2>1
<1> QED
  BY <1>8, <1>9 DEF f
\* A number beyond the end that the ring has room for is stored as it is.
LEMMA AppendIsFit ==
  ASSUME TypeOK, NEW s \in Arriving, NEW e \in Elems, PushAppend(s, e),
         Dist(begin, s) < Size
  PROVE  Ordered!Fit(s, e)
<1> DEFINE d == Dist(begin, s)
<1>1. /\ d \in count .. Half - 1 /\ s = Add(begin, d)
      /\ begin \in SeqNums /\ count \in 0 .. Size /\ Size \in Nat /\ 2 * Size <= Half
  BY PushPosition, Bounds DEF PushAppend
<1>2. 0 = ShiftFor(d)
  BY DEF ShiftFor
<1>3. /\ Mapped' = Ordered!Store(Ordered!Keep(Mapped, Rest(0)), s, e)
      /\ begin' = Add(begin, 0) /\ count' = d + 1 - 0
      /\ Evicted(s) = IF 0 < count THEN 0 ELSE count
  BY <1>2, AppendMaps
<1>4. /\ status' = status /\ dropped' = SetEntries(begin, Evicted(s))
  BY DEF PushAppend
<1> HIDE DEF d
<1>5. begin' = begin /\ count' = d + 1
  <2>1. Add(begin, 0) = begin
    BY <1>1, HalfNat DEF Add, Cast, SeqNums
  <2> QED
    BY <1>1, <1>3, <2>1
<1>6. dropped' = {}
  <2>1. Evicted(s) = 0
    BY <1>1, <1>3
  <2> QED
    BY <1>4, <2>1 DEF SetEntries, Window
<1>7. Ordered!Keep(Mapped, Rest(0)) = Mapped
  <2>1. DOMAIN Mapped \subseteq Rest(0)
    BY <1>1, SeenHolds DEF Seen, Rest
  <2> QED
    BY <2>1, SeenHolds DEF Seen, Ordered!Keep
<1>8. s \notin DOMAIN Mapped
  <2>1. \A i \in 0 .. count - 1 : Add(begin, i) # s
    BY <1>1, DistAdd, HalfNat DEF d
  <2> QED
    BY <2>1, SeenHolds DEF Seen
<1>9. ~(d < count) /\ d < Size
  BY <1>1 DEF d
<1> QED
  BY <1>3, <1>4, <1>5, <1>6, <1>7, <1>8, <1>9, SameArithmetic
  DEF Ordered!Fit, Mapped, d

\* For a number that does not fit the window slides, or starts anew.
LEMMA AppendIsSlide ==
  ASSUME TypeOK, NEW s \in Arriving, NEW e \in Elems, PushAppend(s, e),
         Dist(begin, s) >= Size
  PROVE  Ordered!Slide(s, e)
<1> DEFINE d == Dist(begin, s)
           over == d + 1 - Size
           shift == ShiftFor(d)
<1>1. /\ d \in count .. Half - 1 /\ s = Add(begin, d)
      /\ begin \in SeqNums /\ count \in 0 .. Size /\ Size \in Nat /\ Size >= 2
      /\ 2 * Size <= Half
  BY PushPosition, Bounds DEF PushAppend
<1>2. shift \in Nat /\ shift = IF over < count THEN over ELSE d
  BY <1>1 DEF ShiftFor
<1>3. /\ Mapped' = Ordered!Store(Ordered!Keep(Mapped, Rest(shift)), s, e)
      /\ begin' = Add(begin, shift) /\ count' = d + 1 - shift
      /\ Evicted(s) = IF shift < count THEN shift ELSE count
  BY <1>2, AppendMaps
<1>4. Evicted(s) \in 0 .. count
  BY AppendWindow
<1>5. dropped' = Ordered!Pairs(Ordered!Keep(Mapped, DOMAIN Mapped \ Rest(shift)))
  BY <1>2, <1>3, <1>4, EvictedPairs DEF PushAppend
<1>6. drop_strategy = "begin" /\ status' = status
  <2>1. TooFar(s)
    BY EvictedIs DEF PushAppend
  <2> QED
    BY <2>1 DEF PushAppend, MayEvict
<1> HIDE DEF d
<1>7. over >= count <=> shift >= count
  BY <1>1, <1>2
<1>8. begin' = IF over >= count THEN s ELSE Add(begin, over)
  BY <1>1, <1>2, <1>3
<1>9. count' = IF over >= count THEN 1 ELSE Size
  BY <1>1, <1>2, <1>3
<1>10. Rest(shift) = IF over >= count THEN {} ELSE {Add(begin, n) : n \in over .. count - 1}
  BY <1>1, <1>2, <1>7 DEF Rest
<1>11. d \in Size .. Half /\ d # Half
  BY <1>1, HalfNat DEF d
<1> DEFINE rest == IF over >= count THEN {} ELSE {Ordered!Ahead(n) : n \in over .. count - 1}
<1>12. Rest(shift) = rest
  BY <1>10, SameArithmetic
<1>13. /\ begin' = IF over >= count THEN s ELSE Ordered!Ahead(over)
       /\ Mapped' = Ordered!Store(Ordered!Keep(Mapped, rest), s, e)
       /\ dropped' = Ordered!Pairs(Ordered!Keep(Mapped, DOMAIN Mapped \ rest))
  BY <1>3, <1>5, <1>8, <1>12, SameArithmetic
<1> QED
  BY <1>6, <1>9, <1>11, <1>13, SameArithmetic DEF Ordered!Slide, Mapped, d

\* A pull takes the first number out of the window and moves on by one.
LEMMA PullMaps == ASSUME TypeOK, Pull PROVE Ordered!Pull
<1>1. /\ begin \in SeqNums /\ count \in 1 .. Size /\ Size \in Nat /\ 2 * Size <= Half
      /\ begin' = Add(begin, 1) /\ count' = count - 1 /\ queue' = queue
  BY Bounds DEF Pull
<1>2. Add(begin, 0) = begin
  BY <1>1, HalfNat DEF Add, Cast, SeqNums
<1>3. Place(0) = Entry(begin) /\ Place(0) # None
  BY <1>2 DEF Pull, Place
<1>4. begin \in DOMAIN Mapped /\ Mapped[begin] = Entry(begin)
  <2>1. 0 \in 0 .. count - 1
    BY <1>1
  <2> QED
    BY <1>2, <1>3, <2>1, SeenHolds DEF Seen
<1>5. ASSUME NEW i \in 0 .. count - 2
      PROVE  Add(begin', i) = Add(begin, i + 1) /\ Place(i)' = Place(i + 1)
  <2>1. Add(begin', i) = Add(begin, i + 1)
    BY <1>1, AddAdd, HalfNat
  <2> QED
    BY <1>1, <2>1 DEF Place, Entry
<1>6. \A i \in 1 .. count - 1 : Add(begin, i) # begin
  BY <1>1, <1>2, DistAdd, HalfNat
<1> DEFINE f == Ordered!Keep(Mapped, DOMAIN Mapped \ {begin})
<1>7. DOMAIN f = DOMAIN Mapped \ {begin} /\ \A t \in DOMAIN f : f[t] = Mapped[t]
  BY DEF Ordered!Keep
<1>8. f = [t \in DOMAIN f |-> f[t]]
  BY DEF Ordered!Keep
<1> HIDE DEF f
<1>9. DOMAIN Mapped' = {Add(begin', i) : i \in {j \in 0 .. count - 2 : Place(j)' # None}}
  <2>1. 0 .. count' - 1 = 0 .. count - 2
    BY <1>1
  <2> QED
    BY <2>1, SeenNext DEF Seen
<1>10. ASSUME NEW i \in 0 .. count - 2, Place(i)' # None
       PROVE  Add(begin', i) \in DOMAIN f /\ Mapped'[Add(begin', i)] = f[Add(begin', i)]
  <2>1. i + 1 \in 0 .. count - 1 /\ i + 1 \in 1 .. count - 1 /\ i \in 0 .. count' - 1
    BY <1>1
  <2>2. Add(begin', i) \in DOMAIN Mapped /\ Mapped[Add(begin', i)] = Place(i + 1)
    BY <1>5, <1>10, <2>1, SeenHolds DEF Seen
  <2>3. Mapped'[Add(begin', i)] = Place(i)'
    BY <1>10, <2>1, SeenNext DEF Seen
  <2> QED
    BY <1>5, <1>6, <1>7, <2>1, <2>2, <2>3
<1>11. ASSUME NEW t \in DOMAIN f PROVE t \in DOMAIN Mapped'
  <2>1. PICK i \in 0 .. count - 1 : Place(i) # None /\ t = Add(begin, i)
    BY <1>7, SeenHolds DEF Seen
  <2>2. i # 0
    BY <1>2, <1>7, <2>1
  <2>3. PICK n \in 0 .. count - 2 : i = n + 1
    <3>1. i - 1 \in 0 .. count - 2 /\ i = (i - 1) + 1
      BY <1>1, <2>2
    <3> QED
      BY <3>1
  <2> QED
    BY <1>5, <1>9, <2>1, <2>3
<1>12. DOMAIN Mapped' = DOMAIN f /\ \A t \in DOMAIN f : Mapped'[t] = f[t]
  BY <1>9, <1>10, <1>11
<1>13. Mapped' = f
  <2>1. Mapped' = [t \in DOMAIN Mapped' |-> Mapped'[t]]
    BY SeenNext DEF Seen
  <2> QED
    BY <1>8, <1>12, <2>1
<1>14. begin' = Ordered!Ahead(1)
  BY <1>1, SameArithmetic
<1> QED
  BY <1>1, <1>4, <1>13, <1>14 DEF Pull, Ordered!Pull, Mapped, f

\* Fini gives up all that is left.
LEMMA FiniMaps == ASSUME TypeOK, Fini PROVE Ordered!Fini
<1>1. dropped' = SetEntries(begin, count) /\ UNCHANGED <<begin, count, queue>>
  BY DEF Fini
<1>2. count \in 0 .. count /\ count \in Nat
  BY Bounds
<1>3. dropped' = Ordered!Pairs(Ordered!Keep(Mapped, DOMAIN Mapped \ Rest(count)))
  BY <1>1, <1>2, EvictedPairs
<1>4. Rest(count) = {}
  BY <1>2 DEF Rest
<1>5. Ordered!Keep(Mapped, DOMAIN Mapped \ Rest(count)) = Mapped
  BY <1>4, SeenHolds DEF Seen, Ordered!Keep
<1>6. Mapped' = Mapped
  BY <1>1, MappedIs, MappedNextIs
<1> QED
  BY <1>1, <1>3, <1>5, <1>6 DEF Fini, Ordered!Fini, Mapped

\* Every step of the ring is a step of the ordered window, or none.
LEMMA StepMaps ==
  ASSUME TypeOK, [Next]_vars
  PROVE  [Ordered!Next]_(Ordered!avars)
<1>1. CASE \E s \in Arriving, e \in Elems : Push(s, e)
  <2>1. PICK s \in Arriving, e \in Elems : Push(s, e)
    BY <1>1
  <2>2. status = "live" /\ pulled' = {} /\ drop_strategy' = drop_strategy
    BY <2>1 DEF Push
  <2>3. ~PushAssertFails(s, e)
    BY PushPosition DEF PushAssertFails
  <2>4. Ordered!Refuse(s, e) \/ Ordered!Fit(s, e) \/ Ordered!Slide(s, e)
    <3>1. Dist(begin, s) < Size \/ Dist(begin, s) >= Size
      BY ArrivingIs, Bounds, HalfNat
    <3> QED
      BY <2>1, <2>2, <2>3, <3>1, RefusedIs, HoleIsFit, AppendIsFit, AppendIsSlide DEF Push
  <2>5. s \in Ordered!SeqNums
    BY ArrivingIs, SameArithmetic
  <2>6. Ordered!Push
    BY <2>2, <2>4, <2>5 DEF Ordered!Push
  <2> QED
    BY <2>6 DEF Ordered!Next
<1>2. CASE Pull
  BY <1>2, PullMaps DEF Ordered!Next
<1>3. CASE Fini
  BY <1>3, FiniMaps DEF Ordered!Next
<1>4. CASE SetDropStrategy
  <2>1. Mapped' = Mapped
    BY <1>4, MappedIs, MappedNextIs DEF SetDropStrategy
  <2> QED
    BY <1>4, <2>1 DEF SetDropStrategy, Ordered!SetRule, Ordered!Next, Mapped
<1>5. CASE Stopped \/ UNCHANGED vars
  <2>1. UNCHANGED vars
    BY <1>5 DEF Stopped
  <2>2. Mapped' = Mapped
    BY <2>1, MappedIs, MappedNextIs DEF vars
  <2> QED
    BY <2>1, <2>2 DEF vars, Ordered!avars, Mapped
<1> QED
  BY <1>1, <1>2, <1>3, <1>4, <1>5 DEF Next

\* The ring, its flags and the loops of push implement the ordered window:
\* whatever arrives, the caller cannot tell reorderqueue.c from a map from
\* numbers to elements that slides by exactly as much as a number needs.
THEOREM Refines == Spec => ImplementsWindow
<1>1. Init => Ordered!Init
  BY InitMaps
<1>2. TypeOK /\ [Next]_vars => [Ordered!Next]_(Ordered!avars)
  BY StepMaps
<1> QED
  BY <1>1, <1>2, TypeCorrect, PTL DEF Spec, Ordered!Spec, ImplementsWindow
=============================================================================
