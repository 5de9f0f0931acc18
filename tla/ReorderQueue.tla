---------------------------- MODULE ReorderQueue ----------------------------
(***************************************************************************)
(* lib/src/reorderqueue.c: a ring of 2^size_exp entries that turns packets *)
(* received in any order into packets pulled in order.                     *)
(*                                                                         *)
(* The caller allocates an element, hands it over with push and gets it    *)
(* back from pull; an element the queue gives up goes to drop_cb, which    *)
(* frees it (takion_data_drop).  `held` is the set of elements the queue   *)
(* owns by that contract: pushed, and neither pulled nor dropped since.    *)
(* An address is reused once it was given back.                            *)
(***************************************************************************)
EXTENDS SeqNum

CONSTANTS
  Size,      \* QUEUE_SIZE
  Elems,     \* elements (the user pointers)
  None,      \* an entry whose `set` is false
  Reach,     \* a pushed number is at most this far ahead of begin
  Behind     \* or at most this far behind it: less than half the space, as
             \* RFC 1982 wants it; one push at Half fails the assertion below

ASSUME QueueAssumption ==
  /\ Size \in Nat /\ Size >= 2
  /\ 2 * Size <= Half
  /\ SeqSpace % Size = 0
  /\ None \notin Elems
  /\ Reach \in 0 .. Half - 1
  /\ Behind \in 0 .. Half - 1

VARIABLES
  begin,          \* sequence number of the next element to be pulled
  count,          \* entries between begin and the highest number seen
  queue,          \* the ring: a user, or None where `set` is false
  drop_strategy,
  held,
  pulled,         \* what the last operation returned: {} or {<<seq, user>>}
  dropped,        \* what it handed to drop_cb: a set of <<seq, user>>
  status          \* "live", "finished" after fini, "aborted" by an assert

vars == <<begin, count, queue, drop_strategy, held, pulled, dropped, status>>

Slots == 0 .. Size - 1
\* Broken variant: the mask is one bit short.
IdxShort(s) == s % (Size \div 2)
Idx(s) == s % Size
Entry(s) == queue[Idx(s)]
End == Add(begin, count)

\* The entries of the window, as pairs of a sequence number and a user.
Window(b, n) == {<<Add(b, i), Entry(Add(b, i))>> : i \in 0 .. n - 1}
SetEntries(b, n) == {p \in Window(b, n) : p[2] # None}
Users(P) == {p[2] : p \in P}

Least(S) == CHOOSE n \in S : \A m \in S : n <= m

TypeOK ==
  /\ begin \in SeqNums
  /\ count \in 0 .. Size
  /\ queue \in [Slots -> Elems \cup {None}]
  /\ drop_strategy \in {"begin", "end"}
  /\ held \subseteq Elems
  /\ pulled \subseteq SeqNums \X Elems
  /\ dropped \subseteq SeqNums \X Elems
  /\ status \in {"live", "finished", "aborted"}

\* chiaki_reorder_queue_init, and the drop callback takion.c sets at once.
Init ==
  /\ begin \in SeqNums
  /\ count = 0
  /\ queue = [i \in Slots |-> None]
  /\ drop_strategy = "end"
  /\ held = {}
  /\ pulled = {}
  /\ dropped = {}
  /\ status = "live"

SetDropStrategy ==
  /\ status = "live"
  /\ drop_strategy' \in {"begin", "end"}
  /\ pulled' = {} /\ dropped' = {}
  /\ UNCHANGED <<begin, count, queue, held, status>>
-----------------------------------------------------------------------------
(* push *)

\* Broken variant: end taken for a number of the window.
InsideClosed(s) == Ge(s, begin) /\ ~SeqGt(s, End)

Inside(s) == Ge(s, begin) /\ SeqLt(s, End)
Old(s) == ~Inside(s) /\ SeqLt(s, begin)
Ahead(s) == ~Inside(s) /\ ~SeqLt(s, begin)

\* Broken variant: room for one entry more than the ring has.
TotalEndOneMore(n) == Add(End, Size - n + 1)

\* total_end once n entries are left; `end` is not updated by the loop.
TotalEnd(n) == Add(End, Size - n)
TooFar(s) == SeqLt(TotalEnd(count), Add(s, 1))

\* Broken variant: the window slides whatever the strategy says.
MayEvictAlways == TRUE
MayEvict == drop_strategy = "begin"

\* Runs of the two loops of push.
Evicted(s) == Least({k \in 0 .. count :
                       k = count \/ ~SeqLt(TotalEnd(count - k), Add(s, 1))})
Grown(b, n, s) == Least({k \in 0 .. SeqSpace : ~SeqLt(Add(b, n + k), Add(s, 1))})

BeginAfter(s) == IF Evicted(s) = 0 THEN begin
                 ELSE Add(Add(begin, Evicted(s) - 1), 1)

\* The entries the last loop clears: grow of them after the n that are left.
\* Broken variant: it clears none.
FreshNone(b, n, grow) == {}
Fresh(b, n, grow) == {Idx(Add(b, n + j)) : j \in 0 .. grow - 1}

PushDuplicate(s, e) ==
  /\ Inside(s) /\ Entry(s) # None
  /\ dropped' = {<<s, e>>}
  /\ UNCHANGED <<begin, count, queue, held, status>>

PushHole(s, e) ==
  /\ Inside(s) /\ Entry(s) = None
  /\ queue' = [queue EXCEPT ![Idx(s)] = e]
  /\ held' = held \cup {e}
  /\ dropped' = {}
  /\ UNCHANGED <<begin, count, status>>

PushOld(s, e) ==
  /\ Old(s)
  /\ dropped' = {<<s, e>>}
  /\ UNCHANGED <<begin, count, queue, held, status>>

\* assert(ge(seq_num, end))
PushAssertFails(s, e) ==
  /\ Ahead(s) /\ ~Ge(s, End)
  /\ status' = "aborted"
  /\ dropped' = {}
  /\ UNCHANGED <<begin, count, queue, held>>

PushBeyond(s, e) ==
  /\ Ahead(s) /\ Ge(s, End) /\ TooFar(s) /\ ~MayEvict
  /\ dropped' = {<<s, e>>}
  /\ UNCHANGED <<begin, count, queue, held, status>>

PushAppend(s, e) ==
  /\ Ahead(s) /\ Ge(s, End) /\ (TooFar(s) => MayEvict)
  /\ LET k     == Evicted(s)
         gone  == SetEntries(begin, k)
         b     == IF TooFar(s) /\ k = count THEN s ELSE BeginAfter(s)
         grow  == Grown(b, count - k, s)
     IN  /\ begin' = b
         /\ count' = count - k + grow
         /\ queue' = [i \in Slots |-> IF i = Idx(s) THEN e
                                      ELSE IF i \in Fresh(b, count - k, grow) THEN None
                                      ELSE queue[i]]
         /\ held' = (held \ Users(gone)) \cup {e}
         /\ dropped' = gone
  /\ UNCHANGED status

\* One call of push with a freshly allocated element.
Push(s, e) ==
  /\ status = "live"
  /\ e \in Elems \ held
  /\ pulled' = {}
  /\ UNCHANGED drop_strategy
  /\ \/ PushDuplicate(s, e)
     \/ PushHole(s, e)
     \/ PushOld(s, e)
     \/ PushAssertFails(s, e)
     \/ PushBeyond(s, e)
     \/ PushAppend(s, e)

\* The numbers the peer may send next.
Arriving == {s \in SeqNums : \/ Dist(begin, s) <= Reach
                             \/ Dist(s, begin) <= Behind}
-----------------------------------------------------------------------------
(* pull, drop, fini; peek changes nothing and returns what Entry says *)

Pull ==
  /\ status = "live"
  /\ count > 0 /\ Entry(begin) # None
  /\ pulled' = {<<begin, Entry(begin)>>}
  /\ dropped' = {}
  /\ held' = held \ {Entry(begin)}
  /\ begin' = Add(begin, 1)
  /\ count' = count - 1
  /\ UNCHANGED <<queue, drop_strategy, status>>

\* The callback frees the element; the entry stays set, so the loop that
\* would reduce count (while(!entry->set)) never runs.
Drop(i) ==
  /\ status = "live"
  /\ i < count /\ Entry(Add(begin, i)) # None
  /\ pulled' = {}
  /\ dropped' = {<<Add(begin, i), Entry(Add(begin, i))>>}
  /\ held' = held \ {Entry(Add(begin, i))}
  /\ UNCHANGED <<begin, count, queue, drop_strategy, status>>

Fini ==
  /\ status = "live"
  /\ status' = "finished"
  /\ pulled' = {}
  /\ dropped' = SetEntries(begin, count)
  /\ held' = held \ Users(SetEntries(begin, count))
  /\ UNCHANGED <<begin, count, queue, drop_strategy>>

\* Nothing is called after fini or after a failed assertion.
Stopped == status # "live" /\ UNCHANGED vars

Next ==
  \/ SetDropStrategy
  \/ \E s \in Arriving, e \in Elems : Push(s, e)
  \/ Pull
  \/ Fini
  \/ Stopped

NextWithDrop == Next \/ \E i \in Slots : Drop(i)

Spec == Init /\ [][Next]_vars
SpecWithDrop == Init /\ [][NextWithDrop]_vars
-----------------------------------------------------------------------------
(* Properties *)

\* Ownership: while the queue lives it owns exactly the elements its window
\* shows, each in one entry.  A stale flag left by the ring would show up as
\* an element that was already given back, a lost one as a leak.
QueuedAreHeld ==
  status = "live" =>
    /\ TypeOK
    /\ held = Users(SetEntries(begin, count))
    /\ \A i, j \in 0 .. count - 1 :
         /\ i # j
         /\ Entry(Add(begin, i)) # None
         => Entry(Add(begin, i)) # Entry(Add(begin, j))

\* The assertion of push never fails.
NoAbort == status # "aborted"

\* Elements leave in order: the window only ever moves forward, across the
\* wrap of the sequence numbers too, so what pull returns is never behind
\* what it returned before.
BeginAdvances == [][begin' = begin \/ SeqGt(begin', begin)]_vars

\* With DROP_STRATEGY_END an accepted element is never given up again while
\* the queue lives: it can only be pulled.
AcceptedIsKept ==
  [][drop_strategy = "end" /\ status' = "live"
       => Users(dropped') \cap held = {}]_vars

\* Both: the queue never goes back, and loses nothing it may not lose.
KeptInOrder == BeginAdvances /\ AcceptedIsKept

\* The ring, its flags and the loops of push implement the ordered window.
Ordered == INSTANCE OrderedWindow WITH
  head <- begin, span <- count, rule <- drop_strategy, got <- pulled,
  lost <- dropped,
  slots <- [s \in {p[1] : p \in SetEntries(begin, count)} |-> Entry(s)]
ImplementsWindow == Ordered!Spec
=============================================================================
