------------------------------- MODULE SeqNum -------------------------------
(***************************************************************************)
(* Serial numbers of lib/include/chiaki/seqnum.h (RFC 1982) and the 32 bit *)
(* adapters lib/src/reorderqueue.c builds on them.  SeqSpace is 2^bits.    *)
(* Nothing in lib/ uses the 16 bit adapters of the queue.                  *)
(***************************************************************************)
EXTENDS Integers

CONSTANT SeqSpace

ASSUME SeqSpaceAssumption ==
  /\ SeqSpace \in Nat
  /\ SeqSpace >= 4
  /\ SeqSpace = 2 * (SeqSpace \div 2)

SeqNums == 0 .. SeqSpace - 1
Half == SeqSpace \div 2

\* Truncation to the width of a number, of a sum of two numbers.
Cast(a) == IF a < SeqSpace THEN a ELSE a - SeqSpace

\* Broken variant: the order of plain integers.
SeqLtPlain(a, b) == a < b

\* chiaki_seq_num_*_lt and _gt.  At distance Half neither holds.
SeqLt(a, b) ==
  \/ a < b /\ b - a < Half
  \/ a > b /\ a - b > Half

SeqGt(a, b) ==
  \/ a < b /\ b - a > Half
  \/ a > b /\ a - b < Half

\* The macros of reorderqueue.c.  Broken variant: Ge without equality.
GeStrict(a, b) == SeqGt(a, b)
Ge(a, b) == a = b \/ SeqGt(a, b)
Add(a, n) == Cast(a + n)

\* How far b is ahead of a, counted around the circle.
Dist(a, b) == IF b >= a THEN b - a ELSE b - a + SeqSpace
=============================================================================
