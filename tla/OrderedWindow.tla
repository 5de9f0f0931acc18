--------------------------- MODULE OrderedWindow ---------------------------
(***************************************************************************)
(* What lib/include/chiaki/reorderqueue.h promises, without ring, flags or *)
(* loops: a window of `span` numbers that starts at `head`, a partial map  *)
(* from those numbers to elements, and positions told apart by their       *)
(* distance ahead of head.  ReorderQueue implements it.                    *)
(***************************************************************************)
EXTENDS SeqNum

CONSTANTS Size, Elems

VARIABLES head, span, slots, rule, got, lost, status

avars == <<head, span, slots, rule, got, lost, status>>

Ahead(n) == Cast(head + n)
Pairs(f) == {<<s, f[s]>> : s \in DOMAIN f}
Keep(f, S) == [s \in DOMAIN f \cap S |-> f[s]]
Store(f, s, e) == [t \in DOMAIN f \cup {s} |-> IF t = s THEN e ELSE f[t]]

Init ==
  /\ head \in SeqNums /\ span = 0 /\ slots = [s \in {} |-> {}]
  /\ rule = "end" /\ got = {} /\ lost = {} /\ status = "live"

SetRule ==
  /\ status = "live" /\ rule' \in {"begin", "end"}
  /\ got' = {} /\ lost' = {}
  /\ UNCHANGED <<head, span, slots, status>>

\* The newcomer is refused: it comes too late, twice, or too early.
Refuse(s, e) ==
  /\ LET d == Dist(head, s)
     IN  \/ d > Half
         \/ s \in DOMAIN slots
         \/ d >= Size /\ rule = "end" /\ (d = Half => span > 0)
  /\ lost' = {<<s, e>>}
  /\ UNCHANGED <<head, span, slots, status>>

\* There is room: the window reaches at least up to s from now on.
Fit(s, e) ==
  /\ Dist(head, s) < Size /\ s \notin DOMAIN slots
  /\ slots' = Store(slots, s, e)
  /\ span' = IF Dist(head, s) < span THEN span ELSE Dist(head, s) + 1
  /\ lost' = {}
  /\ UNCHANGED <<head, status>>

\* The window slides until s fits, or restarts at s when nothing is left.
Slide(s, e) ==
  /\ Dist(head, s) \in Size .. Half /\ rule = "begin"
  /\ Dist(head, s) = Half => span > 0
  /\ LET shift == Dist(head, s) + 1 - Size
         rest  == IF shift >= span THEN {} ELSE {Ahead(n) : n \in shift .. span - 1}
     IN  /\ head' = IF shift >= span THEN s ELSE Ahead(shift)
         /\ span' = IF shift >= span THEN 1 ELSE Size
         /\ slots' = Store(Keep(slots, rest), s, e)
         /\ lost' = Pairs(Keep(slots, DOMAIN slots \ rest))
  /\ UNCHANGED status

\* RFC 1982 leaves the order undefined at this distance.
Undefined(s, e) ==
  /\ Dist(head, s) = Half /\ span = 0
  /\ status' = "aborted" /\ lost' = {}
  /\ UNCHANGED <<head, span, slots>>

Push ==
  \E s \in SeqNums, e \in Elems :
    /\ status = "live" /\ got' = {} /\ UNCHANGED rule
    /\ Refuse(s, e) \/ Fit(s, e) \/ Slide(s, e) \/ Undefined(s, e)

Pull ==
  /\ status = "live" /\ head \in DOMAIN slots
  /\ got' = {<<head, slots[head]>>} /\ lost' = {}
  /\ slots' = Keep(slots, DOMAIN slots \ {head})
  /\ head' = Ahead(1) /\ span' = span - 1
  /\ UNCHANGED <<rule, status>>

\* The element leaves, the numbers around it stay where they are; the
\* window ends at the highest element left if this was the last one.
Drop ==
  \E s \in DOMAIN slots :
    /\ status = "live"
    /\ got' = {} /\ lost' = {<<s, slots[s]>>}
    /\ slots' = Keep(slots, DOMAIN slots \ {s})
    /\ span' = IF Dist(head, s) + 1 < span THEN span
               ELSE CHOOSE n \in 0 .. span :
                      /\ n > 0 => Ahead(n - 1) \in DOMAIN slots'
                      /\ \A m \in n .. span - 1 : Ahead(m) \notin DOMAIN slots'
    /\ UNCHANGED <<head, rule, status>>

Fini ==
  /\ status = "live" /\ status' = "finished"
  /\ got' = {} /\ lost' = Pairs(slots)
  /\ UNCHANGED <<head, span, slots, rule>>

Next == SetRule \/ Push \/ Pull \/ Drop \/ Fini

Spec == Init /\ [][Next]_avars
=============================================================================
