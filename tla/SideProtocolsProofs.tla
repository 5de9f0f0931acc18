------------------------ MODULE SideProtocolsProofs ------------------------
(***************************************************************************)
(* The test of the path (lib/src/senkusha.c): it never finds a size that   *)
(* is not carried, and with nothing lost the largest, for any sizes, any   *)
(* number of pings and attempts, and however answers are lost, late and    *)
(* repeated; and the console is not left echoing.                          *)
(*                                                                         *)
(* The registration (lib/src/regist.c, http.c): however the answer is cut  *)
(* into packets, the header ends with the first blank line, and success    *)
(* means a complete host, for any answers.                                 *)
(*                                                                         *)
(* The discovery service (lib/src/discoveryservice.c): a console is listed *)
(* exactly if it was heard of late enough, and the GUI shows the service's *)
(* list, for any consoles, places and pings.                               *)
(***************************************************************************)
EXTENDS SideProtocols, WellFoundedInduction, FiniteSetTheorems, TLAPS

(***************************************************************************)
(* The invariant of the test                                               *)
(***************************************************************************)
Searches == {"mtu in", "mtu out"}
InSearch == at \in Searches
Path == IF at = "mtu in" THEN pathIn ELSE pathOut

\* The answer the session thread waits for.
Awaited == [to |-> state, id |-> expected]

\* An answer that is still on its way is younger than the numbers are many, so
\* none of an earlier request has the number of this one.
Fresh ==
  \A a \in replies :
    /\ a = [to |-> a.to, id |-> a.id]
    /\ a.id \in 0 .. Ids - 1 /\ (expected - a.id) % Ids < Memory

Waiting ==
  /\ at \in Test!Waits => state = Test!StateOf(at)
  /\ at = "idle" => ~finished
  /\ late /\ clean /\ ~finished => Awaited \notin replies

\* What is carried is at least lo, and cur if it is or will be answered.
SearchIsSound ==
  InSearch =>
    /\ lo < hi /\ lo <= cur /\ cur <= hi /\ lo <= Path
    /\ finished \/ Awaited \in replies => cur <= Path

\* Nothing was tried at the upper end yet.
Untried == hi = Highest /\ (cur = hi \/ (at = "mtu out" /\ mtuIn < Highest))

\* With nothing lost, what is carried will be answered, and is less than hi.
SearchIsExact ==
  clean /\ InSearch =>
    /\ cur <= Path => finished \/ Awaited \in replies
    /\ Path < hi \/ Untried
    /\ at = "mtu out" /\ cur = hi => mtuIn = Highest

\* What has been found.
FoundIn == at \in {"command", "mtu out", "final", "completed"}
FoundOut == at \in {"final", "completed"}
Found ==
  /\ mtuIn <= pathIn /\ mtuOut <= pathOut
  /\ FoundIn => mtuIn \in Test!Sizes
  /\ clean /\ FoundIn => mtuIn = pathIn
  /\ clean /\ FoundOut =>
       mtuOut = IF mtuIn < Highest /\ pathOut = Highest THEN Highest - 1 ELSE pathOut

\* Pongs are counted with the pings; the console echoes between two commands.
Pongs ==
  /\ at \in {"idle", "connect", "bang", "echo on"} => pongs = 0
  /\ at = "ping" => pongs < count /\ count <= Pings
  /\ at \in {"mtu in", "command", "mtu out", "final", "completed"} => pongs > 0
Echo ==
  /\ at \in {"idle", "connect", "bang", "echo off", "mtu in", "command", "mtu out", "final", "completed"} => ~echo
  /\ at \in {"completed", "failed"} /\ echo => told
  /\ at = "completed" => told

PathInv ==
  /\ Test!TypeOK /\ Fresh /\ Waiting
  /\ SearchIsSound /\ SearchIsExact /\ Found /\ Pongs /\ Echo

(***************************************************************************)
(* Asking                                                                  *)
(***************************************************************************)
\* The constants, as the proofs need them.
LEMMA TestConstants ==
  /\ Lowest \in Nat /\ Highest \in Nat /\ Lowest < Highest
  /\ Ids \in Nat /\ Memory \in Nat \ {0} /\ Memory < Ids
  /\ Pings \in Nat \ {0} /\ Retries \in Nat \ {0}
BY SideAssumption DEF Test!SenkushaAssumption

\* The number of a request is not that of an answer still on its way.
LEMMA NumberIsNew ==
  ASSUME NEW e \in 0 .. Ids - 1, NEW i \in 0 .. Ids - 1, (e - i) % Ids < Memory
  PROVE  (e + 1) % Ids # i /\ (e + 1) % Ids \in 0 .. Ids - 1
<1>1. /\ Ids \in Nat \ {0} /\ Memory \in Nat /\ Memory < Ids
  BY TestConstants
<1>2. (e + 1) % Ids \in 0 .. Ids - 1
  BY <1>1
<1>3. CASE e + 1 = Ids
  <2>1. (e + 1) % Ids = 0
    BY <1>1, <1>3
  <2>2. i = 0 => e - i = Ids - 1 /\ (Ids - 1) % Ids = Ids - 1
    BY <1>1, <1>3
  <2> QED
    BY <1>1, <1>2, <2>1, <2>2
<1>4. CASE e + 1 # Ids
  <2>1. (e + 1) % Ids = e + 1
    BY <1>1, <1>4
  <2>2. i = e + 1 => e - i = -1 /\ (-1) % Ids = Ids - 1
    BY <1>1
  <2> QED
    BY <1>1, <1>2, <2>1, <2>2
<1> QED
  BY <1>3, <1>4

\* A request: the answer to it is on its way only if the path carries it, and
\* with nothing lost exactly then.
LEMMA Asked ==
  ASSUME Test!TypeOK, Fresh, NEW wait \in Test!Waits, NEW size, Test!Ask(wait, size)
  PROVE  /\ state' = Test!StateOf(wait) /\ finished' = FALSE /\ late' = FALSE
         /\ expected' \in 0 .. Ids - 1 /\ clean' \in BOOLEAN
         /\ at' \in {wait, "aborted"}
         /\ Fresh'
         /\ Awaited' \in replies' => Test!Carried(wait, size)
         /\ clean' => clean /\ (Test!Carried(wait, size) => Awaited' \in replies')
<1>1. /\ state' = Test!StateOf(wait) /\ finished' = FALSE /\ late' = FALSE
      /\ expected' = (expected + 1) % Ids
      /\ at' \in {wait, "aborted"}
  BY DEF Test!Ask
<1>2. Ids \in Nat \ {0} /\ Memory \in Nat \ {0} /\ expected \in 0 .. Ids - 1
  BY TestConstants DEF Test!TypeOK
<1>3. PICK e \in 0 .. Ids - 1 : e = expected'
  BY <1>1, <1>2
<1>4. PICK reply : reply = [to |-> Test!StateOf(wait), id |-> e]
  OBVIOUS
<1>5. PICK old : old = {a \in replies : (e - a.id) % Ids < Memory}
  OBVIOUS
<1>6. \/ Test!Carried(wait, size) /\ replies' = old \cup {reply} /\ clean' = clean
      \/ replies' = old /\ clean' = (clean /\ ~Test!Carried(wait, size))
  BY <1>1, <1>3, <1>4, <1>5 DEF Test!Ask
<1>7. Awaited' = reply
  BY <1>1, <1>3, <1>4 DEF Awaited
<1>8. reply \notin old
  <2>1. \A a \in replies : e # a.id
    BY <1>1, <1>2, <1>3, NumberIsNew DEF Fresh
  <2> QED
    BY <1>4, <1>5, <2>1
<1>9. Fresh'
  <2>1. reply.id = e /\ reply = [to |-> reply.to, id |-> reply.id] /\ (e - e) % Ids < Memory
    BY <1>2, <1>4
  <2>2. \A a \in replies' : a = [to |-> a.to, id |-> a.id]
                            /\ a.id \in 0 .. Ids - 1 /\ (e - a.id) % Ids < Memory
    BY <1>5, <1>6, <2>1 DEF Fresh
  <2> QED
    BY <1>3, <2>2 DEF Fresh
<1>10. clean \in BOOLEAN
  BY DEF Test!TypeOK
<1>11. clean' \in BOOLEAN
  <2>1. CASE clean' = clean
    BY <1>10, <2>1
  <2>2. CASE clean' = (clean /\ ~Test!Carried(wait, size))
    BY <2>2
  <2> QED
    BY <1>6, <2>1, <2>2
<1>12. Awaited' \in replies' => Test!Carried(wait, size)
  BY <1>6, <1>7, <1>8
<1>13. clean' => clean /\ (Test!Carried(wait, size) => Awaited' \in replies')
  BY <1>6, <1>7, <1>10
<1> QED
  BY <1>1, <1>3, <1>9, <1>11, <1>12, <1>13

\* The parts of the invariant about the request itself.
Request == Fresh /\ Waiting /\ SearchIsSound /\ SearchIsExact

\* A request that belongs to no search.
LEMMA AskedOutside ==
  ASSUME PathInv, NEW wait \in Test!Waits \ Searches, NEW size, Test!Ask(wait, size)
  PROVE  Request'
<1>1. /\ state' = Test!StateOf(wait) /\ finished' = FALSE /\ late' = FALSE
      /\ at' \in {wait, "aborted"} /\ Fresh'
  BY Asked DEF PathInv
<1>2. at' # "idle" /\ at' \notin Searches /\ (at' \in Test!Waits => at' = wait)
  BY <1>1 DEF Test!Waits, Searches
<1>3. Waiting'
  BY <1>1, <1>2 DEF Waiting
<1> QED
  BY <1>1, <1>2, <1>3 DEF Request, SearchIsSound, SearchIsExact, InSearch

\* A request for a size of a search.
LEMMA AskedInside ==
  ASSUME PathInv, NEW wait \in Searches,
         NEW a \in Nat, NEW b \in Nat, NEW c \in Nat, NEW path \in Nat, NEW m,
         lo' = a, hi' = b, cur' = c, mtuIn' = m, UNCHANGED <<pathIn, pathOut>>,
         path = IF wait = "mtu in" THEN pathIn ELSE pathOut,
         Test!Ask(wait, c),
         a < b, a <= c, c <= b, a <= path,
         clean => path < b \/ (b = Highest /\ (c = b \/ (wait = "mtu out" /\ m < Highest))),
         clean /\ wait = "mtu out" /\ c = b => m = Highest
  PROVE  Request' /\ at' \in {wait, "aborted"} /\ (clean' => clean)
<1>1. wait \in Test!Waits
  BY DEF Searches, Test!Waits
<1>2. Test!Carried(wait, c) <=> c <= path
  BY DEF Test!Carried, Searches
<1>3. /\ state' = Test!StateOf(wait) /\ finished' = FALSE /\ late' = FALSE
      /\ at' \in {wait, "aborted"} /\ Fresh'
      /\ Awaited' \in replies' => c <= path
      /\ clean' => clean /\ (c <= path => Awaited' \in replies')
  BY <1>1, <1>2, Asked DEF PathInv
<1>4. at' # "idle" /\ (at' \in Test!Waits => at' = wait) /\ (InSearch' => at' = wait)
  BY <1>1, <1>3 DEF Searches, Test!Waits, InSearch
<1>5. Waiting'
  BY <1>3, <1>4 DEF Waiting
<1>6. at' = wait => Path' = path
  BY DEF Path
<1>7. SearchIsSound'
  BY <1>3, <1>4, <1>6 DEF SearchIsSound
<1>8. SearchIsExact'
  BY <1>3, <1>4, <1>6 DEF SearchIsExact, Untried
<1> QED
  BY <1>3, <1>5, <1>7, <1>8 DEF Request

(***************************************************************************)
(* The searches                                                            *)
(***************************************************************************)

\* One more attempt, or a narrower range: what is known of the range is true of
\* it, and where it cannot be narrowed its lower end is the size.
LEMMA NarrowedIs ==
  ASSUME PathInv, InSearch, Test!Over, finished \/ ~(count < Retries)
  PROVE  LET r == Test!Narrowed(finished)
         IN  /\ r.lo \in Nat /\ r.hi \in Nat /\ r.lo <= r.hi
             /\ Lowest <= r.lo /\ r.hi <= Highest /\ r.lo <= Path
             /\ Test!Wide(r) => /\ r.lo < Test!Middle(r) /\ Test!Middle(r) < r.hi
                                /\ Test!Middle(r) \in Nat
             /\ ~Test!Wide(r) => Test!Middle(r) = r.lo
             /\ clean => \/ Path < r.hi
                         \/ r.lo = r.hi /\ Path = r.lo /\ (at = "mtu out" => mtuIn = Highest)
                         \/ r.hi = Highest /\ r.lo < r.hi /\ at = "mtu out" /\ mtuIn < Highest
<1> DEFINE r == Test!Narrowed(finished)
<1>1. /\ lo \in Nat /\ hi \in Nat /\ cur \in Nat /\ Lowest <= lo /\ hi <= Highest
      /\ Lowest \in Nat /\ Highest \in Nat /\ Path \in Nat /\ Path <= Highest
      /\ lo < hi /\ lo <= cur /\ cur <= hi /\ lo <= Path
  <2>1. lo < hi /\ lo <= cur /\ cur <= hi /\ lo <= Path
    BY DEF PathInv, SearchIsSound
  <2>2. /\ lo \in Lowest .. Highest /\ hi \in Lowest .. Highest /\ cur \in Lowest .. Highest
        /\ pathIn \in Lowest .. Highest /\ pathOut \in Lowest .. Highest
    BY DEF PathInv, Test!TypeOK, Test!Sizes
  <2>3. Path \in Lowest .. Highest
    BY <2>2 DEF Path
  <2> QED
    BY <2>1, <2>2, <2>3, TestConstants
<1>2. r.lo = (IF finished THEN cur ELSE lo) /\ r.hi = (IF finished THEN hi ELSE cur)
  BY DEF Test!Narrowed
<1>3. finished => cur <= Path
  BY DEF PathInv, SearchIsSound
<1>4. clean /\ ~finished => Path < cur
  <2>1. clean /\ ~finished => Awaited \notin replies
    BY DEF Test!Over, PathInv, Waiting
  <2> QED
    <3>1. clean /\ cur <= Path => finished \/ Awaited \in replies
      BY DEF PathInv, SearchIsExact
    <3> QED
      BY <1>1, <2>1, <3>1
<1>5. PICK a \in Nat, b \in Nat : a = r.lo /\ b = r.hi /\ a <= b /\ Lowest <= a /\ b <= Highest
                                  /\ a <= Path
  BY <1>1, <1>2, <1>3
<1>6. Test!Wide(r) <=> b - a > 1
  BY <1>5 DEF Test!Wide
<1>7. Test!Middle(r) = a + ((b - a) \div 2)
  BY <1>5 DEF Test!Middle
<1>8. /\ b - a > 1 => a < a + ((b - a) \div 2) /\ a + ((b - a) \div 2) < b
      /\ ~(b - a > 1) => a + ((b - a) \div 2) = a
      /\ a + ((b - a) \div 2) \in Nat
  BY <1>5
<1>9. clean => \/ Path < b
               \/ a = b /\ Path = a /\ (at = "mtu out" => mtuIn = Highest)
               \/ b = Highest /\ a < b /\ at = "mtu out" /\ mtuIn < Highest
  <2> SUFFICES ASSUME clean
               PROVE  \/ Path < b
                      \/ a = b /\ Path = a /\ (at = "mtu out" => mtuIn = Highest)
                      \/ b = Highest /\ a < b /\ at = "mtu out" /\ mtuIn < Highest
    OBVIOUS
  <2>1. CASE ~finished
    BY <1>2, <1>4, <1>5, <2>1
  <2>2. CASE finished
    <3>1. Path < hi \/ Untried
      BY DEF PathInv, SearchIsExact
    <3>2. at = "mtu out" /\ cur = hi => mtuIn = Highest
      BY DEF PathInv, SearchIsExact
    <3>3. a = cur /\ b = hi
      BY <1>2, <1>5, <2>2
    <3>4. CASE Path < hi
      BY <3>3, <3>4
    <3>5. CASE Untried /\ cur = hi
      <4>1. Path = a
        BY <1>1, <1>3, <2>2, <3>3, <3>5 DEF Untried
      <4> QED
        BY <3>2, <3>3, <3>5, <4>1
    <3>6. CASE Untried /\ cur # hi
      <4>1. b = Highest /\ a < b
        <5>1. cur < hi
          BY <1>1, <3>6
        <5>2. hi = Highest
          BY <3>6 DEF Untried
        <5> QED
          BY <3>3, <5>1, <5>2
      <4>2. at = "mtu out" /\ mtuIn < Highest
        BY <3>6 DEF Untried
      <4> QED
        BY <4>1, <4>2
    <3> QED
      BY <3>1, <3>4, <3>5, <3>6
  <2> QED
    BY <2>1, <2>2
<1> QED
  BY <1>5, <1>6, <1>7, <1>8, <1>9

(***************************************************************************)
(* The steps                                                               *)
(***************************************************************************)

\* What the types say, one by one.
LEMMA Types ==
  ASSUME Test!TypeOK
  PROVE  /\ state \in {Test!StateOf(w) : w \in Test!Waits} \cup {"IDLE"}
         /\ at \in Test!Waits \cup Test!Ends \cup {"idle"}
         /\ finished \in BOOLEAN /\ late \in BOOLEAN /\ echo \in BOOLEAN
         /\ told \in BOOLEAN /\ clean \in BOOLEAN
         /\ expected \in 0 .. Ids - 1 /\ count \in Nat /\ pongs \in 0 .. Pings /\ pongs \in Nat
         /\ lo \in Lowest .. Highest /\ hi \in Lowest .. Highest /\ cur \in Lowest .. Highest
         /\ pathIn \in Lowest .. Highest /\ pathOut \in Lowest .. Highest /\ lo <= hi
         /\ mtuIn \in (Lowest .. Highest) \cup {Test!Unknown}
         /\ mtuOut \in (Lowest .. Highest) \cup {Test!Unknown}
BY TestConstants DEF Test!TypeOK, Test!Sizes

\* A request keeps the types of what it changes.
LEMMA AskedTypes ==
  ASSUME Test!TypeOK, Fresh, NEW wait \in Test!Waits, NEW size, Test!Ask(wait, size),
         UNCHANGED <<pathIn, pathOut>>, echo' \in BOOLEAN, told' \in BOOLEAN,
         count' \in Nat, pongs' \in 0 .. Pings,
         lo' \in Test!Sizes, hi' \in Test!Sizes, cur' \in Test!Sizes, lo' <= hi',
         mtuIn' \in Test!Sizes \cup {Test!Unknown}, mtuOut' \in Test!Sizes \cup {Test!Unknown}
  PROVE  Test!TypeOK'
<1>1. /\ state' = Test!StateOf(wait) /\ finished' = FALSE /\ late' = FALSE
      /\ expected' \in 0 .. Ids - 1 /\ clean' \in BOOLEAN
      /\ at' \in {wait, "aborted"}
  BY Asked
<1>2. at' \in Test!Waits \cup Test!Ends \cup {"idle"}
  BY <1>1 DEF Test!Ends
<1>3. {pathIn, pathOut} \subseteq Test!Sizes
  BY DEF Test!TypeOK
<1> QED
  BY <1>1, <1>2, <1>3 DEF Test!TypeOK

\* The sizes are left alone outside of the searches.
Sizing == <<lo, hi, cur, mtuIn, mtuOut, pathIn, pathOut>>

\* A request of the round trip or before it.
LEMMA PlainKeeps ==
  ASSUME PathInv, NEW wait \in {"connect", "bang", "echo on", "ping", "echo off"},
         Test!Ask(wait, Lowest), UNCHANGED Sizing, told' = told, echo' \in BOOLEAN,
         count' \in Nat, pongs' \in 0 .. Pings,
         wait \in {"connect", "bang", "echo on"} => pongs' = 0,
         wait = "ping" => pongs' < count' /\ count' <= Pings,
         wait \in {"connect", "bang", "echo off"} => ~echo'
  PROVE  PathInv'
<1>1. wait \in Test!Waits \ Searches
  BY DEF Test!Waits, Searches
<1>2. Request'
  BY <1>1, AskedOutside
<1>3. at' \in {wait, "aborted"}
  BY <1>1, Asked DEF PathInv
<1>4. Test!TypeOK'
  BY <1>1, AskedTypes DEF PathInv, Sizing, Test!TypeOK
<1>5. Found' /\ Pongs' /\ Echo'
  BY <1>3 DEF PathInv, Found, FoundIn, FoundOut, Sizing, Pongs, Echo
<1> QED
  BY <1>2, <1>4, <1>5 DEF PathInv, Request

\* The end, with DISCONNECT or without it.
LEMMA EndKeeps ==
  ASSUME PathInv, NEW end \in {"completed", "failed"}, at' = end, late' = FALSE,
         UNCHANGED <<state, finished, expected, replies, echo, clean, count, pongs, Sizing>>,
         told' \in BOOLEAN, echo \/ end = "completed" => told',
         end = "completed" => at = "final"
  PROVE  PathInv'
<1>1. at' \notin Test!Waits /\ at' # "idle" /\ ~InSearch'
  BY DEF Test!Waits, InSearch, Searches
<1>2. Fresh' /\ Waiting' /\ SearchIsSound' /\ SearchIsExact'
  BY <1>1 DEF PathInv, Fresh, Waiting, SearchIsSound, SearchIsExact
<1>3. Found' /\ Pongs' /\ Echo'
  BY DEF PathInv, Found, FoundIn, FoundOut, Sizing, Pongs, Echo
<1>4. Test!TypeOK'
  BY DEF PathInv, Test!TypeOK, Test!Ends, Sizing
<1> QED
  BY <1>2, <1>3, <1>4 DEF PathInv

\* A wait times out.
LEMMA TimeoutKeeps == PathInv /\ Test!Timeout => PathInv'
<1> SUFFICES ASSUME PathInv, Test!Timeout PROVE PathInv'
  OBVIOUS
<1>1. /\ late' = TRUE /\ ~finished /\ at # "idle"
      /\ clean' = (clean /\ Awaited \notin replies)
      /\ UNCHANGED <<state, finished, expected, at, count, pongs, Sizing, replies, echo, told>>
  BY DEF Test!Timeout, Test!testVars, Test!pathVars, Sizing, Awaited, Test!Waits
<1>2. clean \in BOOLEAN /\ clean' \in BOOLEAN /\ (clean' => clean /\ Awaited \notin replies)
  BY <1>1, Types DEF PathInv
<1>3. Fresh' /\ Waiting'
  BY <1>1, <1>2 DEF PathInv, Fresh, Waiting, Awaited
<1>4. SearchIsSound' /\ SearchIsExact'
  BY <1>1, <1>2 DEF PathInv, SearchIsSound, SearchIsExact, Awaited, InSearch, Path, Sizing, Untried
<1>5. Found' /\ Pongs' /\ Echo'
  BY <1>1, <1>2 DEF PathInv, Found, FoundIn, FoundOut, Sizing, Pongs, Echo
<1>6. Test!TypeOK'
  BY <1>1, <1>2 DEF PathInv, Test!TypeOK, Sizing
<1> QED
  BY <1>3, <1>4, <1>5, <1>6 DEF PathInv

\* An answer comes, and may come again.
LEMMA ReceiveKeeps == PathInv /\ Test!Receive => PathInv'
<1> SUFFICES ASSUME PathInv, Test!Receive PROVE PathInv'
  OBVIOUS
<1>1. PICK reply \in replies :
        /\ finished' = (finished \/ Test!Accepts(reply))
        /\ replies' = replies \ {reply} \/ replies' = replies
        /\ UNCHANGED <<state, expected, at, late, count, pongs, Sizing, echo, told, clean>>
        /\ at # "idle"
  BY DEF Test!Receive, Test!testVars, Test!pathVars, Sizing, Test!Waits
<1>2. finished \in BOOLEAN /\ finished' \in BOOLEAN
  BY <1>1, Types DEF PathInv
<1>3. Awaited' = Awaited /\ replies' \subseteq replies
  BY <1>1 DEF Awaited
<1>4. reply = Awaited <=> Test!Accepts(reply)
  BY DEF PathInv, Fresh, Awaited, Test!Accepts
<1>5. /\ finished' => finished \/ Awaited \in replies
      /\ finished \/ Awaited \in replies => finished' \/ Awaited \in replies'
      /\ finished => finished'
  BY <1>1, <1>2, <1>4
<1>6. Fresh' /\ Waiting'
  BY <1>1, <1>3, <1>5 DEF PathInv, Fresh, Waiting
<1>7. SearchIsSound' /\ SearchIsExact'
  BY <1>1, <1>3, <1>5 DEF PathInv, SearchIsSound, SearchIsExact, InSearch, Path, Sizing, Untried
<1>8. Found' /\ Pongs' /\ Echo'
  BY <1>1 DEF PathInv, Found, FoundIn, FoundOut, Sizing, Pongs, Echo
<1>9. Test!TypeOK'
  BY <1>1, <1>2 DEF PathInv, Test!TypeOK, Sizing
<1> QED
  BY <1>6, <1>7, <1>8, <1>9 DEF PathInv

\* Before the searches: the connection, BANG and the round trip.
LEMMA RoundTripKeeps ==
  PathInv /\ (Test!Start \/ Test!Connected \/ Test!Bang \/ Test!EchoOn \/ Test!Ping) => PathInv'
<1> SUFFICES ASSUME PathInv,
                    Test!Start \/ Test!Connected \/ Test!Bang \/ Test!EchoOn \/ Test!Ping
             PROVE  PathInv'
  OBVIOUS
<1>1. /\ finished \in BOOLEAN /\ echo \in BOOLEAN /\ told \in BOOLEAN /\ count \in Nat
      /\ pongs \in 0 .. Pings /\ pongs \in Nat /\ Pings \in Nat \ {0}
  BY Types, TestConstants DEF PathInv
<1>2. CASE Test!Start
  <2>1. /\ at = "idle" /\ Test!Ask("connect", Lowest)
        /\ UNCHANGED <<count, pongs, Sizing, echo, told>>
    BY <1>2 DEF Test!Start, Test!testVars, Test!pathVars, Sizing
  <2> QED
    BY <1>1, <2>1, PlainKeeps DEF PathInv, Pongs, Echo
<1>3. CASE Test!Connected
  <2>1. at = "connect" /\ UNCHANGED <<count, pongs, Sizing>>
    BY <1>3 DEF Test!Connected, Test!testVars, Test!pathVars, Sizing
  <2>2. \/ Test!Ask("bang", Lowest) /\ UNCHANGED <<echo, told>>
        \/ Test!QuitTakion
    BY <1>3 DEF Test!Connected, Test!SendBig
  <2>3. ~echo /\ pongs = 0
    BY <2>1 DEF PathInv, Pongs, Echo
  <2>4. CASE Test!Ask("bang", Lowest) /\ UNCHANGED <<echo, told>>
    BY <1>1, <2>1, <2>3, <2>4, PlainKeeps
  <2>5. CASE Test!QuitTakion
    BY <1>1, <2>1, <2>3, <2>5, EndKeeps DEF Test!QuitTakion
  <2> QED
    BY <2>2, <2>4, <2>5
<1>4. CASE Test!Bang
  <2>1. at = "bang" /\ UNCHANGED <<count, pongs, Sizing>>
    BY <1>4 DEF Test!Bang, Test!testVars, Test!pathVars, Sizing
  <2>2. \/ Test!Ask("echo on", Lowest) /\ echo' = TRUE /\ told' = told
        \/ Test!QuitTakion
    BY <1>4 DEF Test!Bang, Test!SendEchoCommand
  <2>3. ~echo /\ pongs = 0
    BY <2>1 DEF PathInv, Pongs, Echo
  <2>4. CASE Test!Ask("echo on", Lowest) /\ echo' = TRUE /\ told' = told
    BY <1>1, <2>1, <2>3, <2>4, PlainKeeps
  <2>5. CASE Test!QuitTakion
    BY <1>1, <2>1, <2>3, <2>5, EndKeeps DEF Test!QuitTakion
  <2> QED
    BY <2>2, <2>4, <2>5
<1>5. CASE Test!EchoOn
  <2>1. at = "echo on" /\ UNCHANGED <<pongs, Sizing>>
    BY <1>5 DEF Test!EchoOn, Test!testVars, Test!pathVars, Sizing
  <2>2. \/ Test!Disconnect("failed") /\ count' = count
        \/ Test!Ask("ping", Lowest) /\ count' = 1 /\ UNCHANGED <<echo, told>>
    BY <1>5 DEF Test!EchoOn, Test!testVars, Test!SendPing
  <2>3. pongs = 0
    BY <2>1 DEF PathInv, Pongs
  <2>4. CASE Test!Disconnect("failed") /\ count' = count
    BY <1>1, <2>1, <2>4, EndKeeps DEF Test!Disconnect, Test!SendDisconnect
  <2>5. CASE Test!Ask("ping", Lowest) /\ count' = 1 /\ UNCHANGED <<echo, told>>
    <3>1. count' \in Nat /\ pongs' \in 0 .. Pings /\ pongs' < count' /\ count' <= Pings
      <4>1. count' = 1 /\ pongs' = 0
        BY <2>1, <2>3, <2>5
      <4>2. 0 \in 0 .. Pings /\ 1 <= Pings /\ 1 \in Nat
        BY TestConstants
      <4> QED
        BY <4>1, <4>2
    <3>2. Test!Ask("ping", Lowest) /\ told' = told /\ UNCHANGED Sizing
      BY <2>1, <2>5
    <3>3. echo' \in BOOLEAN
      BY <1>1, <2>5
    <3> QED
      BY <3>1, <3>2, <3>3, PlainKeeps
  <2> QED
    BY <2>2, <2>4, <2>5
<1>6. CASE Test!Ping
  <2>1. /\ at = "ping" /\ UNCHANGED Sizing /\ told' = told
        /\ pongs' = (IF finished THEN pongs + 1 ELSE pongs)
    BY <1>6 DEF Test!Ping, Test!pathVars, Sizing
  <2>2. \/ Test!Ask("ping", Lowest) /\ count < Pings /\ count' = count + 1 /\ echo' = echo
        \/ Test!Ask("echo off", Lowest) /\ count' = count /\ echo' = FALSE
    BY <1>6 DEF Test!Ping, Test!SendPing, Test!SendEchoCommand
  <2>3. pongs < count /\ count <= Pings
    BY <2>1 DEF PathInv, Pongs
  <2>4. pongs' \in 0 .. Pings /\ pongs' <= count
    BY <1>1, <2>1, <2>3
  <2>5. CASE Test!Ask("ping", Lowest) /\ count < Pings /\ count' = count + 1 /\ echo' = echo
    <3>1. count' \in Nat /\ pongs' < count' /\ count' <= Pings
      BY <1>1, <2>4, <2>5
    <3> QED
      BY <1>1, <2>1, <2>4, <2>5, <3>1, PlainKeeps
  <2>6. CASE Test!Ask("echo off", Lowest) /\ count' = count /\ echo' = FALSE
    BY <1>1, <2>1, <2>4, <2>6, PlainKeeps
  <2> QED
    BY <2>2, <2>5, <2>6
<1> QED
  BY <1>2, <1>3, <1>4, <1>5, <1>6

\* Sending fails, the connection fails, or the last wait is over.
LEMMA EndsKeep ==
  PathInv /\ (Test!SendFails \/ Test!ConnectFails \/ Test!Final) => PathInv'
<1> SUFFICES ASSUME PathInv, Test!SendFails \/ Test!ConnectFails \/ Test!Final
             PROVE  PathInv'
  OBVIOUS
<1>1. told \in BOOLEAN
  BY Types DEF PathInv
<1>2. UNCHANGED <<count, pongs, Sizing>>
  BY DEF Test!SendFails, Test!ConnectFails, Test!Final, Test!testVars, Test!pathVars, Sizing
<1>3. CASE at \in {"idle", "connect"} /\ Test!QuitTakion
  BY <1>1, <1>2, <1>3, EndKeeps DEF Test!QuitTakion, PathInv, Echo
<1>4. CASE Test!Disconnect("failed")
  BY <1>2, <1>4, EndKeeps DEF Test!Disconnect, Test!SendDisconnect
<1>5. CASE at = "final" /\ Test!Disconnect("completed")
  BY <1>2, <1>5, EndKeeps DEF Test!Disconnect, Test!SendDisconnect
<1> QED
  BY <1>3, <1>4, <1>5 DEF Test!SendFails, Test!ConnectFails, Test!Final

\* The searches begin.
LEMMA SearchesBegin == PathInv /\ (Test!EchoOff \/ Test!Command) => PathInv'
<1> SUFFICES ASSUME PathInv, Test!EchoOff \/ Test!Command PROVE PathInv'
  OBVIOUS
<1>1. /\ echo \in BOOLEAN /\ told \in BOOLEAN /\ pongs \in 0 .. Pings /\ pongs \in Nat
      /\ clean \in BOOLEAN
      /\ pathIn \in Lowest .. Highest /\ pathOut \in Lowest .. Highest
      /\ Lowest \in Nat /\ Highest \in Nat /\ Lowest < Highest
  BY Types, TestConstants DEF PathInv
<1>2. CASE Test!EchoOff
  <2>1. at = "echo off" /\ UNCHANGED <<pongs, mtuIn, mtuOut, pathIn, pathOut>>
    BY <1>2 DEF Test!EchoOff, Test!testVars, Test!pathVars
  <2>2. \/ Test!Disconnect("failed") /\ UNCHANGED <<count, Sizing>>
        \/ /\ Test!Ask("mtu in", Highest) /\ ~Test!RttFails
           /\ lo' = Lowest /\ hi' = Highest /\ cur' = Highest /\ count' = 1
           /\ UNCHANGED <<echo, told>>
    BY <1>2 DEF Test!EchoOff, Test!testVars, Test!pathVars, Test!SendMtuCommand, Sizing
  <2>3. CASE Test!Disconnect("failed") /\ UNCHANGED <<count, Sizing>>
    BY <1>1, <2>1, <2>3, EndKeeps DEF Test!Disconnect, Test!SendDisconnect
  <2>4. CASE /\ Test!Ask("mtu in", Highest) /\ ~Test!RttFails
             /\ lo' = Lowest /\ hi' = Highest /\ cur' = Highest /\ count' = 1
             /\ UNCHANGED <<echo, told>>
    <3>1. "mtu in" \in Test!Waits /\ "mtu in" \in Searches
      BY DEF Test!Waits, Searches
    <3>2. lo' = Lowest /\ hi' = Highest /\ cur' = Highest /\ count' = 1
      BY <2>4
    <3>3. PICK path \in Nat : path = pathIn /\ Lowest <= path /\ path <= Highest
      BY <1>1
    <3>4. Highest \in Nat /\ Lowest <= Highest
      BY <1>1
    <3>5. PICK m : m = mtuIn
      OBVIOUS
    <3>6. PICK top \in Nat : top = Highest
      BY <1>1
    <3>7. PICK bottom \in Nat : bottom = Lowest /\ bottom < top /\ bottom <= path
      BY <1>1, <3>3, <3>6
    <3>8. path = IF "mtu in" = "mtu in" THEN pathIn ELSE pathOut
      BY <3>3
    <3>9. Request' /\ at' \in {"mtu in", "aborted"}
      <4>1. /\ lo' = bottom /\ hi' = top /\ cur' = top /\ mtuIn' = m
            /\ UNCHANGED <<pathIn, pathOut>> /\ Test!Ask("mtu in", top)
        BY <2>1, <2>4, <3>2, <3>5, <3>6, <3>7
      <4>2. bottom <= top /\ top <= top
        BY <3>7
      <4> QED
        BY <3>1, <3>6, <3>7, <3>8, <4>1, <4>2, AskedInside
    <3>10. Test!TypeOK'
      <4>1. Lowest \in Test!Sizes /\ Highest \in Test!Sizes /\ lo' <= hi'
        BY <1>1, <3>2, <3>4 DEF Test!Sizes
      <4>2. mtuIn \in Test!Sizes \cup {Test!Unknown} /\ mtuOut \in Test!Sizes \cup {Test!Unknown}
        BY DEF PathInv, Test!TypeOK
      <4>3. Test!TypeOK /\ Fresh
        BY DEF PathInv
      <4>4. echo' \in BOOLEAN /\ told' \in BOOLEAN
        BY <1>1, <2>4
      <4>5. count' \in Nat /\ pongs' \in 0 .. Pings
        BY <1>1, <2>1, <3>2
      <4>6. /\ lo' \in Test!Sizes /\ hi' \in Test!Sizes /\ cur' \in Test!Sizes
            /\ mtuIn' \in Test!Sizes \cup {Test!Unknown}
            /\ mtuOut' \in Test!Sizes \cup {Test!Unknown}
        BY <2>1, <3>2, <4>1, <4>2
      <4> QED
        BY <2>1, <2>4, <3>1, <4>1, <4>3, <4>4, <4>5, <4>6, AskedTypes
    <3>11. pongs > 0 /\ ~echo
      <4>1. pongs # 0
        BY <2>4 DEF Test!RttFails
      <4>2. pongs > 0
        BY <1>1, <4>1
      <4>3. ~echo
        BY <2>1 DEF PathInv, Echo
      <4> QED
        BY <4>2, <4>3
    <3>12. Found' /\ Pongs' /\ Echo'
      BY <2>1, <2>4, <3>9, <3>11 DEF PathInv, Found, FoundIn, FoundOut, Pongs, Echo
    <3> QED
      BY <3>9, <3>10, <3>12 DEF PathInv, Request
  <2> QED
    BY <2>2, <2>3, <2>4
<1>3. CASE Test!Command
  <2>1. at = "command" /\ UNCHANGED <<pongs, mtuIn, mtuOut, pathIn, pathOut>>
    BY <1>3 DEF Test!Command, Test!testVars, Test!pathVars
  <2>2. \/ Test!Disconnect("failed") /\ UNCHANGED <<count, Sizing>>
        \/ /\ Test!Ask("mtu out", mtuIn)
           /\ lo' = Lowest /\ hi' = Highest /\ cur' = mtuIn /\ count' = 1
           /\ UNCHANGED <<echo, told>>
    BY <1>3 DEF Test!Command, Test!testVars, Test!pathVars, Test!SendPadded, Sizing
  <2>3. CASE Test!Disconnect("failed") /\ UNCHANGED <<count, Sizing>>
    BY <1>1, <2>1, <2>3, EndKeeps DEF Test!Disconnect, Test!SendDisconnect
  <2>4. CASE /\ Test!Ask("mtu out", mtuIn)
             /\ lo' = Lowest /\ hi' = Highest /\ cur' = mtuIn /\ count' = 1
             /\ UNCHANGED <<echo, told>>
    <3>1. "mtu out" \in Test!Waits /\ "mtu out" \in Searches
      BY DEF Test!Waits, Searches
    <3>2. /\ mtuIn \in Lowest .. Highest /\ pongs > 0 /\ ~echo
          /\ clean => mtuIn = pathIn
      BY <2>1 DEF PathInv, Found, FoundIn, Test!Sizes, Pongs, Echo
    <3>3. PICK m \in Nat : m = mtuIn /\ Lowest <= m /\ m <= Highest
      BY <1>1, <3>2
    <3>4. lo' = Lowest /\ hi' = Highest /\ cur' = m /\ count' = 1 /\ mtuIn' = m
      BY <2>1, <2>4, <3>3
    <3>5. PICK path \in Nat : path = pathOut /\ Lowest <= path /\ path <= Highest
      BY <1>1
    <3>6. Request' /\ at' \in {"mtu out", "aborted"} /\ (clean' => clean)
      <4>1. path < Highest \/ (Highest = Highest /\ (m = Highest \/ m < Highest))
        BY <1>1, <3>3
      <4>2. Test!Ask("mtu out", m)
        BY <2>4, <3>3
      <4> QED
        BY <1>1, <2>1, <3>1, <3>3, <3>4, <3>5, <4>1, <4>2, AskedInside
    <3>7. Test!TypeOK'
      <4>1. /\ Lowest \in Test!Sizes /\ Highest \in Test!Sizes /\ lo' <= hi'
            /\ m \in Test!Sizes
        BY <1>1, <3>3, <3>4 DEF Test!Sizes
      <4>2. mtuIn \in Test!Sizes \cup {Test!Unknown} /\ mtuOut \in Test!Sizes \cup {Test!Unknown}
        BY DEF PathInv, Test!TypeOK
      <4>3. Test!TypeOK /\ Fresh
        BY DEF PathInv
      <4>4. echo' \in BOOLEAN /\ told' \in BOOLEAN
        BY <1>1, <2>4
      <4>5. count' \in Nat /\ pongs' \in 0 .. Pings
        BY <1>1, <2>1, <3>4
      <4>6. /\ lo' \in Test!Sizes /\ hi' \in Test!Sizes /\ cur' \in Test!Sizes
            /\ mtuIn' \in Test!Sizes \cup {Test!Unknown}
            /\ mtuOut' \in Test!Sizes \cup {Test!Unknown}
        BY <2>1, <2>4, <3>4, <4>1, <4>2
      <4> QED
        BY <2>1, <2>4, <3>1, <4>1, <4>3, <4>4, <4>5, <4>6, AskedTypes
    <3>8. Found' /\ Pongs' /\ Echo'
      BY <2>1, <2>4, <3>2, <3>6 DEF PathInv, Found, FoundIn, FoundOut, Test!Sizes, Pongs, Echo
    <3> QED
      BY <3>6, <3>7, <3>8 DEF PathInv, Request
  <2> QED
    BY <2>2, <2>3, <2>4
<1> QED
  BY <1>2, <1>3

(***************************************************************************)
(* A step of a search                                                      *)
(***************************************************************************)

\* What is common to both searches when a size is asked for.
LEMMA TriedKeeps ==
  ASSUME PathInv, NEW wait \in Searches, at = wait, Request', at' \in {wait, "aborted"},
         NEW size, Test!Ask(wait, size), clean' => clean,
         UNCHANGED <<pongs, mtuIn, mtuOut, pathIn, pathOut, echo, told>>,
         lo' \in Test!Sizes, hi' \in Test!Sizes, cur' \in Test!Sizes, lo' <= hi', count' \in Nat
  PROVE  PathInv'
<1>1. wait \in Test!Waits
  BY DEF Searches, Test!Waits
<1>2. /\ echo' \in BOOLEAN /\ told' \in BOOLEAN /\ pongs' \in 0 .. Pings
  BY Types DEF PathInv
<1>3. /\ mtuIn' \in Test!Sizes \cup {Test!Unknown} /\ mtuOut' \in Test!Sizes \cup {Test!Unknown}
      /\ Test!TypeOK /\ Fresh
  BY DEF PathInv, Test!TypeOK
<1>4. Test!TypeOK'
  BY <1>1, <1>2, <1>3, AskedTypes
<1>5. Found' /\ Pongs' /\ Echo'
  BY DEF PathInv, Found, FoundIn, FoundOut, Pongs, Echo, Searches
<1> QED
  BY <1>4, <1>5 DEF PathInv, Request

\* The constants and sizes of a search as numbers.
LEMMA SearchNumbers ==
  ASSUME PathInv, NEW wait
  PROVE  /\ \E path \in Nat : /\ path = IF wait = "mtu in" THEN pathIn ELSE pathOut
                             /\ Lowest <= path /\ path <= Highest
         /\ \E m \in Int : m = mtuIn
<1>1. /\ pathIn \in Lowest .. Highest /\ pathOut \in Lowest .. Highest
      /\ mtuIn \in (Lowest .. Highest) \cup {Test!Unknown}
      /\ Lowest \in Nat /\ Highest \in Nat
  BY Types, TestConstants DEF PathInv
<1>2. \E m \in Int : m = mtuIn
  BY <1>1 DEF Test!Unknown
<1>3. PICK path : path = IF wait = "mtu in" THEN pathIn ELSE pathOut
  OBVIOUS
<1>4. path \in Lowest .. Highest
  BY <1>1, <1>3
<1>5. path \in Nat /\ Lowest <= path /\ path <= Highest
  BY <1>1, <1>4
<1> QED
  BY <1>2, <1>3, <1>5

\* Another attempt for the same size.
LEMMA AgainKeeps ==
  ASSUME PathInv, NEW wait \in Searches, at = wait, Test!Ask(wait, cur), count' \in Nat,
         UNCHANGED <<pongs, Sizing, echo, told>>
  PROVE  PathInv'
<1>1. /\ lo \in Lowest .. Highest /\ hi \in Lowest .. Highest /\ cur \in Lowest .. Highest
      /\ pathIn \in Lowest .. Highest /\ pathOut \in Lowest .. Highest
      /\ Lowest \in Nat /\ Highest \in Nat
  BY Types, TestConstants DEF PathInv
<1>2. PICK a \in Nat : a = lo
  BY <1>1
<1>3. PICK b \in Nat : b = hi
  BY <1>1
<1>4. PICK c \in Nat : c = cur
  BY <1>1
<1>5. PICK path \in Nat : path = IF wait = "mtu in" THEN pathIn ELSE pathOut
  BY SearchNumbers
<1>6. PICK m \in Int : m = mtuIn
  BY SearchNumbers
<1>7. InSearch /\ Path = path
  BY <1>5 DEF InSearch, Path
<1>8. a < b /\ a <= c /\ c <= b /\ a <= path
  BY <1>2, <1>3, <1>4, <1>7 DEF PathInv, SearchIsSound
<1>9. clean => path < b \/ (b = Highest /\ (c = b \/ (wait = "mtu out" /\ m < Highest)))
  BY <1>3, <1>4, <1>6, <1>7 DEF PathInv, SearchIsExact, Untried
<1>10. clean /\ wait = "mtu out" /\ c = b => m = Highest
  BY <1>3, <1>4, <1>6, <1>7 DEF PathInv, SearchIsExact
<1>11. /\ lo' = a /\ hi' = b /\ cur' = c /\ mtuIn' = m /\ UNCHANGED <<pathIn, pathOut>>
       /\ Test!Ask(wait, c)
  BY <1>2, <1>3, <1>4, <1>6 DEF Sizing
<1>12. Request' /\ at' \in {wait, "aborted"} /\ (clean' => clean)
  BY <1>5, <1>8, <1>9, <1>10, <1>11, AskedInside
<1>13. /\ lo' \in Test!Sizes /\ hi' \in Test!Sizes /\ cur' \in Test!Sizes
       /\ UNCHANGED <<mtuIn, mtuOut, pathIn, pathOut>>
  BY <1>1 DEF Test!Sizes, Sizing
<1>14. lo' <= hi'
  BY <1>8, <1>11
<1> QED
  BY <1>12, <1>13, <1>14, TriedKeeps

\* A size of a narrower range.
LEMMA NarrowerKeeps ==
  ASSUME PathInv, NEW wait \in Searches, at = wait, Test!Over, finished \/ ~(count < Retries),
         NEW r, r = Test!Narrowed(finished), Test!Wide(r), Test!Ask(wait, Test!Middle(r)),
         lo' = r.lo, hi' = r.hi, cur' = Test!Middle(r), count' = 1,
         UNCHANGED <<pongs, mtuIn, mtuOut, pathIn, pathOut, echo, told>>
  PROVE  PathInv'
<1>1. /\ pathIn \in Lowest .. Highest /\ pathOut \in Lowest .. Highest
      /\ Lowest \in Nat /\ Highest \in Nat
  BY Types, TestConstants DEF PathInv
<1>2. PICK path \in Nat : path = IF wait = "mtu in" THEN pathIn ELSE pathOut
  BY SearchNumbers
<1>3. PICK m \in Int : m = mtuIn
  BY SearchNumbers
<1>4. InSearch /\ Path = path
  BY <1>2 DEF InSearch, Path
<1>5. /\ r.lo \in Nat /\ r.hi \in Nat /\ Test!Middle(r) \in Nat
      /\ Lowest <= r.lo /\ r.hi <= Highest /\ r.lo <= path
      /\ r.lo < Test!Middle(r) /\ Test!Middle(r) < r.hi
      /\ clean => \/ path < r.hi
                  \/ r.lo = r.hi
                  \/ r.hi = Highest /\ wait = "mtu out" /\ m < Highest
  BY <1>3, <1>4, NarrowedIs
<1>6. PICK a \in Nat, b \in Nat, c \in Nat : a = r.lo /\ b = r.hi /\ c = Test!Middle(r)
  BY <1>5
<1>7. /\ Lowest <= a /\ b <= Highest /\ a <= path /\ a < c /\ c < b
  BY <1>5, <1>6
<1>8. clean => path < b \/ (b = Highest /\ (c = b \/ (wait = "mtu out" /\ m < Highest)))
  <2> SUFFICES ASSUME clean
               PROVE  path < b \/ (b = Highest /\ (c = b \/ (wait = "mtu out" /\ m < Highest)))
    OBVIOUS
  <2>1. \/ path < b
        \/ a = b
        \/ b = Highest /\ wait = "mtu out" /\ m < Highest
    BY <1>5, <1>6
  <2>2. a # b
    BY <1>7
  <2> QED
    BY <2>1, <2>2
<1>9. a < b /\ a <= c /\ c <= b /\ ~(c = b)
  BY <1>7
<1>10. /\ lo' = a /\ hi' = b /\ cur' = c /\ mtuIn' = m /\ UNCHANGED <<pathIn, pathOut>>
       /\ Test!Ask(wait, c)
  BY <1>3, <1>6
<1>11. Request' /\ at' \in {wait, "aborted"} /\ (clean' => clean)
  BY <1>2, <1>7, <1>8, <1>9, <1>10, AskedInside
<1>12. a \in Test!Sizes /\ b \in Test!Sizes /\ c \in Test!Sizes /\ a <= b
  BY <1>1, <1>7 DEF Test!Sizes
<1>13. lo' \in Test!Sizes /\ hi' \in Test!Sizes /\ cur' \in Test!Sizes /\ lo' <= hi'
  BY <1>10, <1>12
<1>14. count' \in Nat
  OBVIOUS
<1> QED
  BY <1>10, <1>11, <1>13, <1>14, TriedKeeps

\* Neighbours, of which the first is carried.
LEMMA Neighbours ==
  ASSUME NEW a \in Nat, NEW b \in Nat, NEW top \in Nat, NEW path \in Nat,
         a <= b, b <= top, a <= path, path <= top, ~(b - a > 1)
  PROVE  /\ path < b => a = path /\ path # top
         /\ b = top /\ a < b => a = top - 1 /\ (path = a \/ path = top)
OBVIOUS

\* The end of a search: its size is carried, and with nothing lost the largest,
\* but for the one that the outbound search may leave untried.
LEMMA SearchEnds ==
  ASSUME PathInv, NEW wait \in Searches, at = wait, Test!Over, finished \/ ~(count < Retries),
         NEW r, r = Test!Narrowed(finished), ~Test!Wide(r)
  PROVE  LET path == IF wait = "mtu in" THEN pathIn ELSE pathOut
         IN  /\ r.lo \in Test!Sizes /\ r.hi \in Test!Sizes /\ r.lo <= r.hi
             /\ Test!Middle(r) = r.lo /\ r.lo <= path
             /\ clean => r.lo = IF wait = "mtu out" /\ mtuIn < Highest /\ path = Highest
                                THEN Highest - 1 ELSE path
<1>1. /\ pathIn \in Lowest .. Highest /\ pathOut \in Lowest .. Highest
      /\ Lowest \in Nat /\ Highest \in Nat
  BY Types, TestConstants DEF PathInv
<1>2. PICK path \in Nat : path = (IF wait = "mtu in" THEN pathIn ELSE pathOut) /\ path <= Highest
  BY SearchNumbers
<1>3. PICK m \in Int : m = mtuIn
  BY SearchNumbers
<1>4. InSearch /\ Path = path
  BY <1>2 DEF InSearch, Path
<1>5. /\ r.lo \in Nat /\ r.hi \in Nat /\ Test!Middle(r) = r.lo
      /\ Lowest <= r.lo /\ r.lo <= r.hi /\ r.hi <= Highest /\ r.lo <= path
      /\ clean => \/ path < r.hi
                  \/ r.lo = r.hi /\ path = r.lo /\ (wait = "mtu out" => m = Highest)
                  \/ r.hi = Highest /\ r.lo < r.hi /\ wait = "mtu out" /\ m < Highest
  BY <1>3, <1>4, NarrowedIs
<1>6. PICK a \in Nat, b \in Nat : a = r.lo /\ b = r.hi
  BY <1>5
<1>7. /\ Lowest <= a /\ a <= b /\ b <= Highest /\ a <= path
  BY <1>5, <1>6
<1>8. ~(b - a > 1)
  BY <1>6 DEF Test!Wide
<1>9. /\ path < b => a = path /\ path # Highest
      /\ b = Highest /\ a < b => a = Highest - 1 /\ (path = a \/ path = Highest)
  <2>1. /\ a \in Nat /\ b \in Nat /\ Highest \in Nat /\ path \in Nat
        /\ a <= b /\ b <= Highest /\ a <= path /\ path <= Highest /\ ~(b - a > 1)
    BY <1>1, <1>2, <1>6, <1>7, <1>8
  <2> QED
    BY <2>1, Neighbours
<1>10. ASSUME clean
       PROVE  a = IF wait = "mtu out" /\ m < Highest /\ path = Highest THEN Highest - 1 ELSE path
  <2>1. CASE path < b
    <3>1. a = path /\ path # Highest
      BY <1>9, <2>1
    <3> QED
      BY <3>1
  <2>2. CASE a = b /\ path = a /\ (wait = "mtu out" => m = Highest)
    <3>1. ~(wait = "mtu out" /\ m < Highest)
      <4>1. m = Highest => ~(m < Highest)
        BY <1>1
      <4> QED
        BY <2>2, <4>1
    <3> QED
      BY <2>2, <3>1
  <2>3. CASE b = Highest /\ a < b /\ wait = "mtu out" /\ m < Highest
    <3>1. a = Highest - 1 /\ (path = a \/ path = Highest)
      BY <1>9, <2>3
    <3> QED
      BY <2>3, <3>1
  <2> QED
    BY <1>5, <1>6, <1>10, <2>1, <2>2, <2>3
<1>11. r.lo \in Test!Sizes /\ r.hi \in Test!Sizes
  BY <1>1, <1>6, <1>7 DEF Test!Sizes
<1> QED
  BY <1>2, <1>3, <1>5, <1>6, <1>10, <1>11

\* The search for the inbound size.
LEMMA MtuInKeeps == PathInv /\ Test!MtuIn => PathInv'
<1> SUFFICES ASSUME PathInv, Test!MtuIn PROVE PathInv'
  OBVIOUS
<1>1. at = "mtu in" /\ Test!Over /\ "mtu in" \in Searches /\ UNCHANGED <<pathIn, pathOut>>
  BY DEF Test!MtuIn, Searches, Test!pathVars
<1>2. PICK r : r = Test!Narrowed(finished)
  OBVIOUS
<1>3. count \in Nat /\ echo \in BOOLEAN /\ told \in BOOLEAN /\ pongs \in 0 .. Pings
  BY Types DEF PathInv
<1>4. \/ /\ ~finished /\ count < Retries /\ Test!Ask("mtu in", cur) /\ count' = count + 1
         /\ UNCHANGED <<echo, told, pongs, lo, hi, cur, mtuIn, mtuOut>>
      \/ /\ finished \/ ~(count < Retries)
         /\ Test!Wide(r) /\ Test!Ask("mtu in", Test!Middle(r))
         /\ lo' = r.lo /\ hi' = r.hi /\ cur' = Test!Middle(r) /\ count' = 1
         /\ UNCHANGED <<echo, told, pongs, mtuIn, mtuOut>>
      \/ /\ finished \/ ~(count < Retries)
         /\ ~Test!Wide(r) /\ Test!Ask("command", Lowest)
         /\ lo' = r.lo /\ hi' = r.hi /\ cur' = Test!Middle(r) /\ count' = 0
         /\ mtuIn' = r.lo /\ UNCHANGED <<echo, told, pongs, mtuOut>>
  BY <1>2 DEF Test!MtuIn, Test!SearchStep, Test!SendMtuCommand, Test!FoundIn,
              Test!SendClientMtuCommand
<1>5. CASE /\ Test!Ask("mtu in", cur) /\ count' = count + 1
           /\ UNCHANGED <<echo, told, pongs, lo, hi, cur, mtuIn, mtuOut>>
  <2>1. count' \in Nat
    <3>1. count' = count + 1
      BY <1>5
    <3>2. count \in Nat
      BY <1>3
    <3> QED
      BY <3>1, <3>2
  <2> QED
    BY <1>1, <1>5, <2>1, AgainKeeps DEF Sizing
<1>6. CASE /\ finished \/ ~(count < Retries)
           /\ Test!Wide(r) /\ Test!Ask("mtu in", Test!Middle(r))
           /\ lo' = r.lo /\ hi' = r.hi /\ cur' = Test!Middle(r) /\ count' = 1
           /\ UNCHANGED <<echo, told, pongs, mtuIn, mtuOut>>
  BY <1>1, <1>2, <1>6, NarrowerKeeps
<1>7. CASE /\ finished \/ ~(count < Retries)
           /\ ~Test!Wide(r) /\ Test!Ask("command", Lowest)
           /\ lo' = r.lo /\ hi' = r.hi /\ cur' = Test!Middle(r) /\ count' = 0
           /\ mtuIn' = r.lo /\ UNCHANGED <<echo, told, pongs, mtuOut>>
  <2>1. /\ r.lo \in Test!Sizes /\ r.hi \in Test!Sizes /\ r.lo <= r.hi
        /\ Test!Middle(r) = r.lo /\ r.lo <= pathIn /\ (clean => r.lo = pathIn)
    BY <1>1, <1>2, <1>7, SearchEnds
  <2>2. "command" \in Test!Waits \ Searches
    BY DEF Test!Waits, Searches
  <2>3. Request' /\ at' \in {"command", "aborted"} /\ (clean' => clean)
    BY <1>7, <2>2, AskedOutside, Asked DEF PathInv
  <2>4. Test!TypeOK'
    <3>1. /\ lo' \in Test!Sizes /\ hi' \in Test!Sizes /\ cur' \in Test!Sizes /\ lo' <= hi'
          /\ mtuIn' \in Test!Sizes \cup {Test!Unknown} /\ count' \in Nat
      BY <1>7, <2>1
    <3>2. Test!TypeOK /\ Fresh /\ mtuOut' \in Test!Sizes \cup {Test!Unknown}
      BY <1>7 DEF PathInv, Test!TypeOK
    <3>3. echo' \in BOOLEAN /\ told' \in BOOLEAN /\ pongs' \in 0 .. Pings
      BY <1>3, <1>7
    <3> QED
      BY <1>1, <1>7, <2>2, <3>1, <3>2, <3>3, AskedTypes
  <2>5. pongs > 0 /\ ~echo
    BY <1>1 DEF PathInv, Pongs, Echo
  <2>6. Found'
    <3>1. mtuIn' <= pathIn' /\ mtuIn' \in Test!Sizes /\ (clean => mtuIn' = pathIn')
      BY <1>1, <1>7, <2>1
    <3>2. mtuOut' <= pathOut'
      BY <1>1, <1>7 DEF PathInv, Found
    <3> QED
      BY <2>3, <3>1, <3>2 DEF Found, FoundIn, FoundOut
  <2>7. Pongs' /\ Echo'
    BY <1>7, <2>3, <2>5 DEF Pongs, Echo
  <2> QED
    BY <2>3, <2>4, <2>6, <2>7 DEF PathInv, Request
<1> QED
  BY <1>4, <1>5, <1>6, <1>7

\* The search for the outbound size.
LEMMA MtuOutKeeps == PathInv /\ Test!MtuOut => PathInv'
<1> SUFFICES ASSUME PathInv, Test!MtuOut PROVE PathInv'
  OBVIOUS
<1>1. at = "mtu out" /\ Test!Over /\ "mtu out" \in Searches /\ UNCHANGED <<pathIn, pathOut>>
  BY DEF Test!MtuOut, Searches, Test!pathVars
<1>2. PICK r : r = Test!Narrowed(finished)
  OBVIOUS
<1>3. count \in Nat /\ echo \in BOOLEAN /\ told \in BOOLEAN /\ pongs \in 0 .. Pings
  BY Types DEF PathInv
<1>4. \/ /\ ~finished /\ count < Retries /\ Test!Ask("mtu out", cur) /\ count' = count + 1
         /\ UNCHANGED <<echo, told, pongs, lo, hi, cur, mtuIn, mtuOut>>
      \/ /\ finished \/ ~(count < Retries)
         /\ Test!Wide(r) /\ Test!Ask("mtu out", Test!Middle(r))
         /\ lo' = r.lo /\ hi' = r.hi /\ cur' = Test!Middle(r) /\ count' = 1
         /\ UNCHANGED <<echo, told, pongs, mtuIn, mtuOut>>
      \/ /\ finished \/ ~(count < Retries)
         /\ ~Test!Wide(r) /\ Test!Ask("final", Lowest)
         /\ lo' = r.lo /\ hi' = r.hi /\ cur' = Test!Middle(r) /\ count' = 0
         /\ mtuOut' = r.lo /\ UNCHANGED <<echo, told, pongs, mtuIn>>
  BY <1>2 DEF Test!MtuOut, Test!SearchStep, Test!SendPadded, Test!FoundOut,
              Test!SendClientMtuCommand
<1>5. CASE /\ Test!Ask("mtu out", cur) /\ count' = count + 1
           /\ UNCHANGED <<echo, told, pongs, lo, hi, cur, mtuIn, mtuOut>>
  <2>1. count' \in Nat
    <3>1. count' = count + 1
      BY <1>5
    <3>2. count \in Nat
      BY <1>3
    <3> QED
      BY <3>1, <3>2
  <2> QED
    BY <1>1, <1>5, <2>1, AgainKeeps DEF Sizing
<1>6. CASE /\ finished \/ ~(count < Retries)
           /\ Test!Wide(r) /\ Test!Ask("mtu out", Test!Middle(r))
           /\ lo' = r.lo /\ hi' = r.hi /\ cur' = Test!Middle(r) /\ count' = 1
           /\ UNCHANGED <<echo, told, pongs, mtuIn, mtuOut>>
  BY <1>1, <1>2, <1>6, NarrowerKeeps
<1>7. CASE /\ finished \/ ~(count < Retries)
           /\ ~Test!Wide(r) /\ Test!Ask("final", Lowest)
           /\ lo' = r.lo /\ hi' = r.hi /\ cur' = Test!Middle(r) /\ count' = 0
           /\ mtuOut' = r.lo /\ UNCHANGED <<echo, told, pongs, mtuIn>>
  <2>1. /\ r.lo \in Test!Sizes /\ r.hi \in Test!Sizes /\ r.lo <= r.hi
        /\ Test!Middle(r) = r.lo /\ r.lo <= pathOut
        /\ clean => r.lo = IF mtuIn < Highest /\ pathOut = Highest THEN Highest - 1 ELSE pathOut
    BY <1>1, <1>2, <1>7, SearchEnds
  <2>2. "final" \in Test!Waits \ Searches
    BY DEF Test!Waits, Searches
  <2>3. Request' /\ at' \in {"final", "aborted"} /\ (clean' => clean)
    BY <1>7, <2>2, AskedOutside, Asked DEF PathInv
  <2>4. Test!TypeOK'
    <3>1. /\ lo' \in Test!Sizes /\ hi' \in Test!Sizes /\ cur' \in Test!Sizes /\ lo' <= hi'
          /\ mtuOut' \in Test!Sizes \cup {Test!Unknown} /\ count' \in Nat
      BY <1>7, <2>1
    <3>2. Test!TypeOK /\ Fresh /\ mtuIn' \in Test!Sizes \cup {Test!Unknown}
      BY <1>7 DEF PathInv, Test!TypeOK
    <3>3. echo' \in BOOLEAN /\ told' \in BOOLEAN /\ pongs' \in 0 .. Pings
      BY <1>3, <1>7
    <3> QED
      BY <1>1, <1>7, <2>2, <3>1, <3>2, <3>3, AskedTypes
  <2>5. pongs > 0 /\ ~echo
    BY <1>1 DEF PathInv, Pongs, Echo
  <2>6. Found'
    <3>1. /\ mtuIn <= pathIn /\ mtuIn \in Test!Sizes /\ (clean => mtuIn = pathIn)
      BY <1>1 DEF PathInv, Found, FoundIn
    <3>2. /\ mtuIn' = mtuIn /\ pathIn' = pathIn /\ pathOut' = pathOut /\ mtuOut' = r.lo
      BY <1>1, <1>7
    <3> QED
      BY <2>1, <2>3, <3>1, <3>2 DEF Found, FoundIn, FoundOut
  <2>7. Pongs' /\ Echo'
    BY <1>7, <2>3, <2>5 DEF Pongs, Echo
  <2> QED
    BY <2>3, <2>4, <2>6, <2>7 DEF PathInv, Request
<1> QED
  BY <1>4, <1>5, <1>6, <1>7

(***************************************************************************)
(* The theorem about the test                                              *)
(***************************************************************************)
\* Before the first request nothing was asked and nothing answered.
LEMMA PathInit == Init => PathInv
<1> SUFFICES ASSUME Init PROVE PathInv
  OBVIOUS
<1>1. Test!Init
  BY DEF Init
<1>2. /\ Ids \in Nat \ {0} /\ Lowest \in Nat /\ Highest \in Nat /\ Lowest < Highest /\ Pings \in Nat
  BY TestConstants
<1>3. Test!TypeOK
  <2>1. /\ expected \in 0 .. Ids - 1 /\ count \in Nat /\ pongs \in 0 .. Pings /\ lo <= hi
        /\ Lowest \in Test!Sizes /\ Highest \in Test!Sizes
    BY <1>1, <1>2 DEF Test!Init, Test!Sizes
  <2>2. /\ {lo, hi, cur, pathIn, pathOut} \subseteq Test!Sizes
        /\ {mtuIn, mtuOut} \subseteq Test!Sizes \cup {Test!Unknown}
    BY <1>1, <2>1 DEF Test!Init, Test!Sizes
  <2> QED
    BY <1>1, <2>1, <2>2 DEF Test!Init, Test!TypeOK
<1>4. Fresh /\ Waiting
  BY <1>1 DEF Test!Init, Fresh, Waiting, Test!Waits
<1>5. SearchIsSound /\ SearchIsExact
  BY <1>1 DEF Test!Init, SearchIsSound, SearchIsExact, InSearch, Searches
<1>6. Found
  <2>1. mtuIn <= pathIn /\ mtuOut <= pathOut
    BY <1>1, <1>2 DEF Test!Init, Test!Unknown
  <2> QED
    BY <1>1, <2>1 DEF Test!Init, Found, FoundIn, FoundOut
<1>7. Pongs /\ Echo
  BY <1>1 DEF Test!Init, Pongs, Echo
<1> QED
  BY <1>3, <1>4, <1>5, <1>6, <1>7 DEF PathInv

\* Steps of the other protocols, and steps that change nothing.
LEMMA RestKeeps == PathInv /\ UNCHANGED testVars => PathInv'
<1> SUFFICES ASSUME PathInv, UNCHANGED testVars PROVE PathInv'
  OBVIOUS
<1>1. Test!TypeOK'
  BY DEF PathInv, testVars, Test!TypeOK
<1>2. Fresh' /\ Waiting'
  BY DEF PathInv, testVars, Fresh, Waiting, Awaited
<1>3. SearchIsSound' /\ SearchIsExact'
  BY DEF PathInv, testVars, SearchIsSound, SearchIsExact, InSearch, Path, Awaited, Untried
<1>4. Found' /\ Pongs' /\ Echo'
  BY DEF PathInv, testVars, Found, FoundIn, FoundOut, Pongs, Echo
<1> QED
  BY <1>1, <1>2, <1>3, <1>4 DEF PathInv

\* Every step keeps the invariant, those of the other components too.
LEMMA PathStep == PathInv /\ [Next]_vars => PathInv'
<1> SUFFICES ASSUME PathInv, [Next]_vars PROVE PathInv'
  OBVIOUS
<1>1. CASE UNCHANGED testVars
  BY <1>1, RestKeeps
<1>2. CASE Test!Next
  <2>1. CASE Test!ThreadStep
    BY <2>1, RoundTripKeeps, SearchesBegin, MtuInKeeps, MtuOutKeeps, EndsKeep DEF Test!ThreadStep
  <2>2. CASE Test!ConnectFails \/ Test!SendFails
    BY <2>2, EndsKeep
  <2>3. CASE Test!Timeout \/ Test!Receive
    BY <2>3, TimeoutKeeps, ReceiveKeeps
  <2>4. CASE Test!Ended
    BY <1>1, <2>4 DEF Test!Ended, Test!vars, Test!testVars, Test!pathVars, testVars
  <2> QED
    BY <1>2, <2>1, <2>2, <2>3, <2>4 DEF Test!Next
<1> QED
  BY <1>1, <1>2 DEF Next, Listed, Registered, Tested, vars

\* The sizes found are those that the path carries, and the console is left
\* quiet (senkusha.c:684-690, :703-711, :354-404, :318-326).
THEOREM PathTested == Spec => []PathIsTested
<1>1. PathInv => PathIsTested
  <2> SUFFICES ASSUME PathInv PROVE PathIsTested
    OBVIOUS
  <2>1. Test!MtuIsCarried
    BY DEF PathInv, Found, Test!MtuIsCarried
  <2>2. Test!MtuIsExact
    BY DEF PathInv, Found, FoundIn, FoundOut, Test!MtuIsExact
  <2>3. Test!LeavesQuietly
    BY DEF PathInv, Pongs, Echo, Test!LeavesQuietly
  <2> QED
    BY <2>1, <2>2, <2>3 DEF PathIsTested, Test!MtuIsRight
<1> QED
  BY <1>1, PathInit, PathStep, PTL DEF Spec

(***************************************************************************)
(* Induction on natural numbers, without an operator as a parameter        *)
(***************************************************************************)
\* The numbers up to k are a proper subset of those up to m.
LEMMA Below ==
  ASSUME NEW k \in Nat, NEW m \in Nat, k < m
  PROVE  <<0 .. k, 0 .. m>> \in StrictSubsetOrdering(Nat)
<1>1. 0 .. k \subseteq 0 .. m /\ 0 .. k # 0 .. m
  <2>1. m \in 0 .. m /\ m \notin 0 .. k
    OBVIOUS
  <2> QED
    BY <2>1
<1>2. <<0 .. k, 0 .. m>> \in (SUBSET Nat) \X (SUBSET Nat)
  OBVIOUS
<1> DEFINE p == <<0 .. k, 0 .. m>>
<1>3. p[1] = 0 .. k /\ p[2] = 0 .. m
  OBVIOUS
<1> QED
  BY <1>1, <1>2, <1>3, Zenon DEF StrictSubsetOrdering

\* A set of natural numbers has a least element.
LEMMA LeastExists ==
  ASSUME NEW S \in SUBSET Nat, S # {}
  PROVE  \E m \in S : \A k \in S : m <= k
<1> DEFINE R == StrictSubsetOrdering(Nat)
           T == {0 .. n : n \in S}
<1>1. IsWellFoundedOn(R, FiniteSubsetsOf(Nat))
  BY FS_StrictSubsetOrderingWellFounded
<1>2. T \subseteq FiniteSubsetsOf(Nat)
  <2>1. ASSUME NEW n \in S PROVE 0 .. n \in FiniteSubsetsOf(Nat)
    <3>1. n \in Int /\ 0 \in Int /\ 0 .. n \in SUBSET Nat
      OBVIOUS
    <3>2. IsFiniteSet(0 .. n)
      BY <3>1, FS_Interval
    <3> QED
      BY <3>1, <3>2, Zenon DEF FiniteSubsetsOf
  <2> HIDE DEF R
  <2> QED
    BY <2>1, Zenon DEF T
<1>3. T # {}
  BY Zenon
<1> HIDE DEF T, R
<1>4. \E x \in T : \A y \in T : <<y, x>> \notin R
  BY <1>1, <1>2, <1>3, WFMin, Zenon
<1>5. PICK m \in S : \A k \in S : <<0 .. k, 0 .. m>> \notin R
  BY <1>4, Zenon DEF T
<1>6. ASSUME NEW k \in S, k < m PROVE FALSE
  BY <1>5, <1>6, Below DEF R
<1> QED
  BY <1>5, <1>6

\* Induction, for a set instead of a predicate.
LEMMA Induction ==
  ASSUME NEW S \in SUBSET Nat, 0 \in S, \A n \in S : n + 1 \in S
  PROVE  S = Nat
<1> SUFFICES ASSUME Nat \ S # {} PROVE FALSE
  OBVIOUS
<1>1. PICK m \in Nat \ S : \A k \in Nat \ S : m <= k
  BY LeastExists, Nat \ S \in SUBSET Nat
<1>2. m # 0 /\ m - 1 \in Nat /\ m - 1 \in S
  BY <1>1
<1> QED
  BY <1>1, <1>2

(***************************************************************************)
(* The header of an answer                                                 *)
(***************************************************************************)
\* A blank line ends at place i, or what of one has been read there.
Blank(g, i) == i >= 4 /\ g[i - 3] = "r" /\ g[i - 2] = "n" /\ g[i - 1] = "r" /\ g[i] = "n"
NlOf(g, i) ==
  IF Blank(g, i) THEN 4
  ELSE IF i >= 3 /\ g[i - 2] = "r" /\ g[i - 1] = "n" /\ g[i] = "r" THEN 3
  ELSE IF i >= 2 /\ g[i - 1] = "r" /\ g[i] = "n" THEN 2
  ELSE IF i >= 1 /\ g[i] = "r" THEN 1 ELSE 0

\* The states are what they stand for.
LEMMA NlIs ==
  ASSUME NEW g, NEW i \in Nat
  PROVE  NlOf(g, i) \in 0 .. 4 /\ (NlOf(g, i) = 4 <=> Blank(g, i))
BY DEF NlOf

\* Each element moves the state on as the code's table says.
LEMMA NlNext ==
  ASSUME NEW g, NEW i \in Nat, ~Blank(g, i)
  PROVE  NlOf(g, i + 1) = Dialog!NextNl(NlOf(g, i), g[i + 1])
<1>1. /\ (i + 1) - 1 = i /\ (i + 1) - 2 = i - 1 /\ (i + 1) - 3 = i - 2
      /\ (i + 1 >= 1) /\ (i + 1 >= 2 <=> i >= 1) /\ (i + 1 >= 3 <=> i >= 2) /\ (i + 1 >= 4 <=> i >= 3)
      /\ (i >= 3 => i >= 2) /\ (i >= 2 => i >= 1)
  OBVIOUS
<1>2. NlOf(g, i + 1) =
        IF i >= 3 /\ g[i - 2] = "r" /\ g[i - 1] = "n" /\ g[i] = "r" /\ g[i + 1] = "n" THEN 4
        ELSE IF i >= 2 /\ g[i - 1] = "r" /\ g[i] = "n" /\ g[i + 1] = "r" THEN 3
        ELSE IF i >= 1 /\ g[i] = "r" /\ g[i + 1] = "n" THEN 2
        ELSE IF g[i + 1] = "r" THEN 1 ELSE 0
  BY <1>1 DEF NlOf, Blank
<1>3. \A s \in 0 .. 3 :
        Dialog!NextNl(s, g[i + 1]) =
          IF g[i + 1] = "r" THEN IF s = 2 THEN 3 ELSE 1
          ELSE IF g[i + 1] = "n" THEN IF s = 1 THEN 2 ELSE IF s = 3 THEN 4 ELSE 0
          ELSE 0
  <2>1. \A s \in 0 .. 3 : <<1, 1, 3, 1>>[s + 1] = (IF s = 2 THEN 3 ELSE 1)
    OBVIOUS
  <2>2. \A s \in 0 .. 3 :
          <<0, 2, 0, 4>>[s + 1] = (IF s = 1 THEN 2 ELSE IF s = 3 THEN 4 ELSE 0)
    OBVIOUS
  <2> QED
    BY <2>1, <2>2 DEF Dialog!NextNl
<1>4. NlOf(g, i) \in 0 .. 3
  BY DEF NlOf
<1>5. NlOf(g, i) =
        IF i >= 3 /\ g[i - 2] = "r" /\ g[i - 1] = "n" /\ g[i] = "r" THEN 3
        ELSE IF i >= 2 /\ g[i - 1] = "r" /\ g[i] = "n" THEN 2
        ELSE IF i >= 1 /\ g[i] = "r" THEN 1 ELSE 0
  BY DEF NlOf
<1>6. PICK s \in 0 .. 3 : s = NlOf(g, i)
  BY <1>4
<1>7. Dialog!NextNl(s, g[i + 1]) =
        IF g[i + 1] = "r" THEN IF s = 2 THEN 3 ELSE 1
        ELSE IF g[i + 1] = "n" THEN IF s = 1 THEN 2 ELSE IF s = 3 THEN 4 ELSE 0
        ELSE 0
  BY <1>3
<1>8. "r" # "n"
  OBVIOUS
<1>9. CASE g[i + 1] = "r"
  BY <1>1, <1>2, <1>5, <1>6, <1>7, <1>8, <1>9
<1>10. CASE g[i + 1] = "n"
  BY <1>1, <1>2, <1>5, <1>6, <1>7, <1>8, <1>10
<1>11. CASE g[i + 1] \notin {"r", "n"}
  BY <1>1, <1>2, <1>5, <1>6, <1>7, <1>8, <1>11
<1> QED
  BY <1>9, <1>10, <1>11

\* What the receiver's state is behind each element of a packet.
ReadUpTo(g, l, i) == IF \E j \in 1 .. i : Blank(g, l + j) THEN 4 ELSE NlOf(g, l + i)

\* One element more.
LEMMA ReadNext ==
  ASSUME NEW g, NEW l \in Nat, NEW i \in Nat \ {0}, ~Blank(g, l)
  PROVE  ReadUpTo(g, l, i) = IF ReadUpTo(g, l, i - 1) = 4 THEN 4
                             ELSE Dialog!NextNl(ReadUpTo(g, l, i - 1), g[l + i])
<1>1. CASE \E j \in 1 .. i - 1 : Blank(g, l + j)
  <2>1. ReadUpTo(g, l, i - 1) = 4 /\ ReadUpTo(g, l, i) = 4
    <3>1. 1 .. i - 1 \subseteq 1 .. i
      OBVIOUS
    <3> QED
      BY <1>1, <3>1 DEF ReadUpTo
  <2> QED
    BY <2>1
<1>2. CASE ~\E j \in 1 .. i - 1 : Blank(g, l + j)
  <2>1. PICK n \in Nat : n = l + (i - 1)
    OBVIOUS
  <2>2. ~Blank(g, n)
    <3>1. CASE i = 1
      BY <2>1, <3>1
    <3>2. CASE i # 1
      <4>1. i - 1 \in 1 .. i - 1
        BY <3>2
      <4> QED
        BY <1>2, <2>1, <4>1
    <3> QED
      BY <3>1, <3>2
  <2>3. ReadUpTo(g, l, i - 1) = NlOf(g, n) /\ NlOf(g, n) # 4
    BY <1>2, <2>1, <2>2, NlIs DEF ReadUpTo
  <2>4. n + 1 = l + i
    BY <2>1
  <2>5. NlOf(g, l + i) = Dialog!NextNl(NlOf(g, n), g[l + i])
    BY <2>2, <2>4, NlNext
  <2>6. ReadUpTo(g, l, i) = NlOf(g, l + i)
    <3>1. CASE Blank(g, l + i)
      <4>1. i \in 1 .. i
        OBVIOUS
      <4>2. ReadUpTo(g, l, i) = 4
        BY <3>1, <4>1 DEF ReadUpTo
      <4>3. NlOf(g, l + i) = 4
        BY <3>1 DEF NlOf
      <4> QED
        BY <4>2, <4>3
    <3>2. CASE ~Blank(g, l + i)
      <4>1. \A j \in 1 .. i : j \in 1 .. i - 1 \/ j = i
        OBVIOUS
      <4> QED
        BY <1>2, <3>2, <4>1 DEF ReadUpTo
    <3> QED
      BY <3>1, <3>2
  <2> QED
    BY <2>3, <2>5, <2>6
<1> QED
  BY <1>1, <1>2

\* The states of a packet's elements, by induction on their number.
IsStates(f, s, c) ==
  f = [i \in 0 .. Len(c) |->
         IF i = 0 THEN s ELSE IF f[i - 1] = 4 THEN 4 ELSE Dialog!NextNl(f[i - 1], c[i])]

\* The recursive function that the code's transitions are has the closed form's values:
\* 4 from the end of the first blank line on, and before it what of one was read last.
LEMMA StatesAre ==
  ASSUME NEW g, NEW l \in Nat, NEW c, Len(c) \in Nat,
         \A i \in 1 .. Len(c) : c[i] = g[l + i],
         ~Blank(g, l)
  PROVE  \A i \in 0 .. Len(c) : Dialog!States(NlOf(g, l), c)[i] = ReadUpTo(g, l, i)
<1> DEFINE w == [i \in 0 .. Len(c) |-> ReadUpTo(g, l, i)]
           s == NlOf(g, l)
<1>1. ReadUpTo(g, l, 0) = s
  BY DEF ReadUpTo
<1>2. ASSUME NEW i \in 0 .. Len(c), i # 0
      PROVE  w[i] = IF w[i - 1] = 4 THEN 4 ELSE Dialog!NextNl(w[i - 1], c[i])
  <2>1. i \in Nat \ {0} /\ i \in 1 .. Len(c) /\ i - 1 \in 0 .. Len(c)
    BY <1>2
  <2>2. w[i] = ReadUpTo(g, l, i) /\ w[i - 1] = ReadUpTo(g, l, i - 1)
    BY <2>1
  <2> QED
    BY <2>1, <2>2, ReadNext
<1>3. \A i \in 0 .. Len(c) :
        w[i] = IF i = 0 THEN s ELSE IF w[i - 1] = 4 THEN 4 ELSE Dialog!NextNl(w[i - 1], c[i])
  <2>1. 0 \in 0 .. Len(c)
    OBVIOUS
  <2>2. w[0] = s
    BY <1>1, <2>1
  <2> HIDE DEF w, s
  <2> QED
    BY <1>2, <2>2
<1>4. w = [i \in 0 .. Len(c) |-> w[i]]
  OBVIOUS
<1> HIDE DEF w, s
<1>5. IsStates(w, s, c)
  BY <1>3, <1>4, Zenon DEF IsStates
<1>6. PICK f : f = Dialog!States(s, c) /\ IsStates(f, s, c)
  <2>1. Dialog!States(s, c) = CHOOSE f : IsStates(f, s, c)
    BY DEF Dialog!States, IsStates
  <2> QED
    BY <1>5, <2>1
<1> DEFINE S == {n \in Nat : n \in 0 .. Len(c) => f[n] = w[n]}
<1>7. 0 \in S
  <2>1. 0 \in 0 .. Len(c)
    OBVIOUS
  <2>2. f[0] = s /\ w[0] = s
    BY <1>3, <1>6, <2>1 DEF IsStates
  <2> QED
    BY <2>2
<1>8. ASSUME NEW n \in S PROVE n + 1 \in S
  <2> SUFFICES ASSUME n + 1 \in 0 .. Len(c) PROVE f[n + 1] = w[n + 1]
    OBVIOUS
  <2>1. n \in 0 .. Len(c) /\ n + 1 # 0 /\ (n + 1) - 1 = n
    OBVIOUS
  <2>2. f[n] = w[n]
    BY <2>1
  <2>3. f[n + 1] = IF f[n] = 4 THEN 4 ELSE Dialog!NextNl(f[n], c[n + 1])
    BY <1>6, <2>1 DEF IsStates
  <2>4. w[n + 1] = IF w[n] = 4 THEN 4 ELSE Dialog!NextNl(w[n], c[n + 1])
    BY <1>3, <2>1
  <2> QED
    BY <2>2, <2>3, <2>4
<1>9. S = Nat
  <2>1. S \in SUBSET Nat
    OBVIOUS
  <2> HIDE DEF S
  <2> QED
    BY <1>7, <1>8, <2>1, Induction
<1>10. \A i \in 0 .. Len(c) : f[i] = w[i]
  BY <1>9
<1> QED
  BY <1>6, <1>10 DEF w, s

\* The element of a packet behind which the header ends.
EndsAt(states, n) ==
  CHOOSE i \in 0 .. n : states[i] = 4 /\ \A j \in 0 .. (i - 1) : states[j] # 4

\* A packet is what follows the first l elements; the first n end no blank line.
Follows(c, g, l) == \A i \in 1 .. Len(c) : c[i] = g[l + i]
NoBlank(g, n) == \A i \in 0 .. n : ~Blank(g, i)

\* What the receiver makes of the packet's states: it goes on, or has the end.
EndsWhere(states, g, l, n) ==
  LET size == l + EndsAt(states, n)
  IN  /\ states[n] \in 0 .. 4
      /\ states[n] # 4 => states[n] = NlOf(g, l + n) /\ NoBlank(g, l + n)
      /\ states[n] = 4 => size \in l + 1 .. l + n /\ Blank(g, size) /\ NoBlank(g, size - 1)

\* The first blank line that a packet completes.
LEMMA FirstBlank ==
  ASSUME NEW g, NEW l \in Nat, NEW n \in Nat, NEW c, Len(c) = n,
         Follows(c, g, l), NoBlank(g, l)
  PROVE  EndsWhere(Dialog!States(NlOf(g, l), c), g, l, n)
<1> DEFINE states == Dialog!States(NlOf(g, l), c)
           size   == l + EndsAt(states, n)
<1> USE DEF NoBlank
<1>1. n \in Nat /\ \A i \in 0 .. n : states[i] = ReadUpTo(g, l, i)
  <2>1. ~Blank(g, l)
    OBVIOUS
  <2> QED
    BY <2>1, StatesAre DEF Follows
<1> HIDE DEF states, size
<1>2. \A i \in 0 .. n : states[i] = 4 <=> \E j \in 1 .. i : Blank(g, l + j)
  <2> SUFFICES ASSUME NEW i \in 0 .. n
               PROVE  states[i] = 4 <=> \E j \in 1 .. i : Blank(g, l + j)
    OBVIOUS
  <2>1. states[i] = ReadUpTo(g, l, i)
    BY <1>1
  <2>2. CASE \E j \in 1 .. i : Blank(g, l + j)
    BY <2>1, <2>2 DEF ReadUpTo
  <2>3. CASE ~\E j \in 1 .. i : Blank(g, l + j)
    <3>1. ~Blank(g, l + i)
      <4>1. i = 0 \/ i \in 1 .. i
        BY <1>1
      <4>2. i = 0 => l + i = l
        OBVIOUS
      <4>3. l \in 0 .. l
        OBVIOUS
      <4>4. ~Blank(g, l)
        BY <4>3
      <4> QED
        BY <2>3, <4>1, <4>2, <4>4
    <3>2. l + i \in Nat /\ states[i] = NlOf(g, l + i)
      BY <1>1, <2>1, <2>3 DEF ReadUpTo
    <3> QED
      BY <2>3, <3>1, <3>2, NlIs
  <2> QED
    BY <2>2, <2>3
<1>3. n \in 0 .. n
  BY <1>1
<1>4. states[n] \in 0 .. 4
  <2>1. l + n \in Nat
    BY <1>1
  <2> QED
    BY <1>1, <1>3, <2>1, NlIs DEF ReadUpTo
<1>5. ASSUME states[n] # 4
      PROVE  states[n] = NlOf(g, l + n) /\ \A i \in 0 .. l + n : ~Blank(g, i)
  <2>1. \A j \in 1 .. n : ~Blank(g, l + j)
    BY <1>2, <1>3, <1>5
  <2>2. states[n] = NlOf(g, l + n)
    BY <1>1, <1>3, <2>1 DEF ReadUpTo
  <2>3. ASSUME NEW i \in 0 .. l + n PROVE ~Blank(g, i)
    <3>1. CASE i \in 0 .. l
      BY <3>1
    <3>2. CASE i \notin 0 .. l
      <4>1. i - l \in 1 .. n /\ l + (i - l) = i
        BY <1>1, <3>2
      <4> QED
        BY <2>1, <4>1
    <3> QED
      BY <3>1, <3>2
  <2> QED
    BY <2>2, <2>3
<1>6. ASSUME states[n] = 4
      PROVE  /\ size \in l + 1 .. l + n /\ Blank(g, size)
             /\ \A i \in 0 .. size - 1 : ~Blank(g, i)
  <2> DEFINE S == {j \in 1 .. n : Blank(g, l + j)}
  <2>1. PICK m \in S : \A k \in S : m <= k
    <3>1. S # {}
      BY <1>2, <1>3, <1>6
    <3>2. S \in SUBSET Nat
      OBVIOUS
    <3> HIDE DEF S
    <3> QED
      BY <3>1, <3>2, LeastExists
  <2>2. m \in 0 .. n /\ states[m] = 4
    <3>1. m \in 0 .. n /\ m \in 1 .. m /\ Blank(g, l + m)
      BY <1>1, <2>1
    <3> QED
      BY <1>2, <3>1
  <2>3. \A j \in 0 .. (m - 1) : states[j] # 4
    <3> SUFFICES ASSUME NEW j \in 0 .. (m - 1), states[j] = 4 PROVE FALSE
      OBVIOUS
    <3>1. j \in 0 .. n
      BY <1>1, <2>2
    <3>2. PICK k \in 1 .. j : Blank(g, l + k)
      BY <1>2, <3>1
    <3>3. k \in S /\ k < m
      BY <1>1, <2>2, <3>1, <3>2
    <3>4. m \in Nat /\ k \in Nat /\ ~(m <= k)
      BY <1>1, <2>2, <3>3
    <3> HIDE DEF S
    <3> QED
      BY <2>1, <3>3, <3>4
  <2>4. \A i \in 0 .. n :
          states[i] = 4 /\ (\A j \in 0 .. (i - 1) : states[j] # 4) => i = m
    <3> SUFFICES ASSUME NEW i \in 0 .. n, states[i] = 4, \A j \in 0 .. (i - 1) : states[j] # 4
                 PROVE  i = m
      OBVIOUS
    <3>1. ~(i < m)
      BY <2>2, <2>3, i < m => i \in 0 .. (m - 1)
    <3>2. ~(m < i)
      BY <2>2, m < i => m \in 0 .. (i - 1)
    <3> QED
      BY <1>1, <2>2, <3>1, <3>2
  <2>5. size = l + m
    <3> HIDE DEF S
    <3>1. EndsAt(states, n) = m
      BY <2>2, <2>3, <2>4 DEF EndsAt
    <3> QED
      BY <3>1 DEF size
  <2>6. size \in l + 1 .. l + n /\ Blank(g, size)
    <3>1. m \in 1 .. n /\ Blank(g, l + m)
      BY <2>1
    <3>2. l + m \in l + 1 .. l + n
      BY <1>1, <3>1
    <3> QED
      BY <2>5, <3>1, <3>2
  <2>7. ASSUME NEW i \in 0 .. size - 1 PROVE ~Blank(g, i)
    <3>1. CASE i \in 0 .. l
      BY <3>1
    <3>2. CASE i \notin 0 .. l
      <4>1. m \in Int /\ i - l \in 1 .. n /\ l + (i - l) = i /\ i - l < m
        BY <1>1, <2>2, <2>5, <3>2
      <4>2. i - l \notin S
        <5>1. ~(m <= i - l)
          BY <4>1
        <5> HIDE DEF S
        <5> QED
          BY <2>1, <5>1
      <4> QED
        BY <4>1, <4>2
    <3> QED
      BY <3>1, <3>2
  <2> QED
    BY <2>6, <2>7
<1> QED
  BY <1>4, <1>5, <1>6 DEF EndsWhere, states, size

\* The end of the header, as the property has it.
LEMMA BlankIs ==
  ASSUME NEW E, NEW g \in Seq(E), NEW i \in 4 .. Len(g)
  PROVE  SubSeq(g, i - 3, i) = <<"r", "n", "r", "n">> <=> Blank(g, i)
<1> DEFINE s == SubSeq(g, i - 3, i)
<1>0. PICK k \in Nat : k = i - 3 /\ k # 0 /\ i = k + 3 /\ i <= Len(g) /\ Len(g) \in Nat
  OBVIOUS
<1>1. s \in Seq(E) /\ Len(s) = 4
      /\ s[1] = g[i - 3] /\ s[2] = g[i - 2] /\ s[3] = g[i - 1] /\ s[4] = g[i]
  <2>1. s = SubSeq(g, k, k + 3)
    BY <1>0
  <2>3. SubSeq(g, k, k + 3) \in Seq(E) /\ Len(SubSeq(g, k, k + 3)) = 4
    BY <1>0
  <2>4. \A q \in 1 .. 4 : SubSeq(g, k, k + 3)[q] = g[k + q - 1]
    BY <1>0
  <2> HIDE DEF s
  <2>5. s[1] = g[k] /\ s[2] = g[k + 1] /\ s[3] = g[k + 2] /\ s[4] = g[k + 3]
    BY <2>1, <2>4
  <2>6. i - 2 = k + 1 /\ i - 1 = k + 2
    BY <1>0
  <2> QED
    BY <1>0, <2>1, <2>3, <2>5, <2>6
<1> HIDE DEF s
<1>2. s = <<"r", "n", "r", "n">> <=>
        s[1] = "r" /\ s[2] = "n" /\ s[3] = "r" /\ s[4] = "n"
  BY <1>1
<1> QED
  BY <1>1, <1>2 DEF s, Blank

\* header is what comes up to the first blank line, or 0 if there was none.
HeaderRead(g, h) ==
  \/ h = 0 /\ \A i \in 0 .. Len(g) : ~Blank(g, i)
  \/ h \in 1 .. Len(g) /\ Blank(g, h) /\ \A i \in 0 .. h - 1 : ~Blank(g, i)

\* What RecvHeader finds is the end of the first blank line, or that there is none.
LEMMA HeaderIs ==
  ASSUME NEW E, NEW g \in Seq(E), NEW h, HeaderRead(g, h)
  PROVE  h = Dialog!BlankLineEnd(g)
<1> DEFINE ends == {i \in 4 .. Len(g) : SubSeq(g, i - 3, i) = <<"r", "n", "r", "n">>}
<1>1. ends = {i \in 4 .. Len(g) : Blank(g, i)}
  BY BlankIs
<1>2. Dialog!BlankLineEnd(g) = IF ends = {} THEN 0
                               ELSE CHOOSE i \in ends : \A j \in ends : i <= j
  BY DEF Dialog!BlankLineEnd
<1> HIDE DEF ends
<1>3. CASE h = 0 /\ \A i \in 0 .. Len(g) : ~Blank(g, i)
  <2>1. ends = {}
    BY <1>1, <1>3
  <2> QED
    BY <1>2, <1>3, <2>1
<1>4. CASE h \in 1 .. Len(g) /\ Blank(g, h) /\ \A i \in 0 .. h - 1 : ~Blank(g, i)
  <2>1. h \in ends
    <3>1. h >= 4
      BY <1>4 DEF Blank
    <3> QED
      BY <1>1, <1>4, <3>1
  <2>2. \A j \in ends : h <= j
    <3> SUFFICES ASSUME NEW j \in ends, j < h PROVE FALSE
      BY <1>1, <1>4
    <3>1. j \in 0 .. h - 1 /\ Blank(g, j)
      BY <1>1, <1>4
    <3> QED
      BY <1>4, <3>1
  <2>3. \A i \in ends : (\A j \in ends : i <= j) => i = h
    <3> SUFFICES ASSUME NEW i \in ends, \A j \in ends : i <= j PROVE i = h
      OBVIOUS
    <3>1. i <= h /\ h <= i /\ i \in Int /\ h \in Int
      BY <1>1, <1>4, <2>1, <2>2
    <3> QED
      BY <3>1
  <2> QED
    BY <1>2, <2>1, <2>2, <2>3
<1> QED
  BY <1>3, <1>4 DEF HeaderRead

(***************************************************************************)
(* The content of an answer                                                *)
(***************************************************************************)
\* A key has a valid line from the i-th on, and none before it clears it.
Valid(lines, i) == {k \in Dialog!Keys : \E j \in i .. Len(lines) : lines[j] = <<k, TRUE>>}
Left(lines, i) ==
  {k \in Dialog!Keys : \E j \in i .. Len(lines) :
     lines[j] = <<k, TRUE>> /\ \A m \in i .. j - 1 : lines[m] # <<k, FALSE>>}

\* One line more, from the end.
LEMMA LineNext ==
  ASSUME NEW lines, Len(lines) \in Nat, NEW i \in 1 .. Len(lines)
  PROVE  LET line == lines[i]
         IN  /\ line \notin Dialog!Keys \X BOOLEAN =>
                  Valid(lines, i) = Valid(lines, i + 1) /\ Left(lines, i) = Left(lines, i + 1)
             /\ line \in Dialog!Keys \X BOOLEAN /\ line[2] =>
                  /\ Valid(lines, i) = Valid(lines, i + 1) \cup {line[1]}
                  /\ Left(lines, i) = Left(lines, i + 1) \cup {line[1]}
             /\ line \in Dialog!Keys \X BOOLEAN /\ ~line[2] =>
                  /\ Valid(lines, i) = Valid(lines, i + 1)
                  /\ Left(lines, i) = Left(lines, i + 1) \ {line[1]}
<1> DEFINE line == lines[i]
<1>1. \A j : j \in i .. Len(lines) <=> j = i \/ j \in i + 1 .. Len(lines)
  OBVIOUS
<1>2. \A j \in i + 1 .. Len(lines) :
        \A m : m \in i .. j - 1 <=> m = i \/ m \in i + 1 .. j - 1
  OBVIOUS
<1>3. \A m : m \notin i .. i - 1
  OBVIOUS
<1>4. \A k \in Dialog!Keys :
        k \in Valid(lines, i) <=> line = <<k, TRUE>> \/ k \in Valid(lines, i + 1)
  BY <1>1 DEF Valid
<1>5. \A k \in Dialog!Keys :
        k \in Left(lines, i) <=>
          line = <<k, TRUE>> \/ (line # <<k, FALSE>> /\ k \in Left(lines, i + 1))
  <2> SUFFICES ASSUME NEW k \in Dialog!Keys
               PROVE  k \in Left(lines, i) <=>
                        line = <<k, TRUE>> \/ (line # <<k, FALSE>> /\ k \in Left(lines, i + 1))
    OBVIOUS
  <2>1. CASE line = <<k, TRUE>>
    <3>1. i \in i .. Len(lines)
      OBVIOUS
    <3>2. k \in Left(lines, i)
      BY <1>3, <2>1, <3>1 DEF Left
    <3> QED
      BY <2>1, <3>2
  <2>2. CASE line # <<k, TRUE>>
    <3>1. k \in Left(lines, i) <=>
            \E j \in i + 1 .. Len(lines) :
              lines[j] = <<k, TRUE>> /\ \A m \in i .. j - 1 : lines[m] # <<k, FALSE>>
      BY <1>1, <2>2 DEF Left
    <3>2. \A j \in i + 1 .. Len(lines) :
            (\A m \in i .. j - 1 : lines[m] # <<k, FALSE>>) <=>
              line # <<k, FALSE>> /\ \A m \in i + 1 .. j - 1 : lines[m] # <<k, FALSE>>
      BY <1>2
    <3>3. k \in Left(lines, i + 1) <=>
            \E j \in i + 1 .. Len(lines) :
              lines[j] = <<k, TRUE>> /\ \A m \in i + 1 .. j - 1 : lines[m] # <<k, FALSE>>
      BY DEF Left
    <3> QED
      BY <2>2, <3>1, <3>2, <3>3
  <2> QED
    BY <2>1, <2>2
<1>6. \A n : Valid(lines, n) \subseteq Dialog!Keys /\ Left(lines, n) \subseteq Dialog!Keys
  BY DEF Valid, Left
<1>7. ASSUME line \in Dialog!Keys \X BOOLEAN
      PROVE  \A k, b : line = <<k, b>> <=> k = line[1] /\ b = line[2]
  BY <1>7
<1> HIDE DEF line
<1>8. CASE line \notin Dialog!Keys \X BOOLEAN
  <2>1. \A k \in Dialog!Keys : line # <<k, TRUE>> /\ line # <<k, FALSE>>
    <3>1. \A k \in Dialog!Keys, b \in BOOLEAN : <<k, b>> \in Dialog!Keys \X BOOLEAN
      OBVIOUS
    <3> QED
      BY <1>8, <3>1
  <2>2. Valid(lines, i) = Valid(lines, i + 1)
    BY <1>4, <1>6, <2>1
  <2>3. Left(lines, i) = Left(lines, i + 1)
    <3>1. \A k \in Dialog!Keys : k \in Left(lines, i) <=> k \in Left(lines, i + 1)
      BY <1>5, <2>1
    <3>2. Left(lines, i) \subseteq Dialog!Keys /\ Left(lines, i + 1) \subseteq Dialog!Keys
      BY <1>6
    <3> QED
      BY <3>1, <3>2
  <2> QED
    BY <1>8, <2>2, <2>3 DEF line
<1>9. CASE line \in Dialog!Keys \X BOOLEAN /\ line[2]
  <2>1. line[1] \in Dialog!Keys /\ line[2] = TRUE
    BY <1>9
  <2>2. \A k \in Dialog!Keys : (line = <<k, TRUE>> <=> k = line[1]) /\ line # <<k, FALSE>>
    BY <1>7, <1>9, <2>1
  <2>3. Valid(lines, i) = Valid(lines, i + 1) \cup {line[1]}
    BY <1>4, <1>6, <2>1, <2>2
  <2>4. Left(lines, i) = Left(lines, i + 1) \cup {line[1]}
    BY <1>5, <1>6, <2>1, <2>2
  <2> QED
    BY <1>9, <2>3, <2>4 DEF line
<1>10. CASE line \in Dialog!Keys \X BOOLEAN /\ ~line[2]
  <2>1. line[1] \in Dialog!Keys /\ line[2] = FALSE
    BY <1>10
  <2>2. \A k \in Dialog!Keys : (line = <<k, FALSE>> <=> k = line[1]) /\ line # <<k, TRUE>>
    BY <1>7, <1>10, <2>1
  <2>3. Valid(lines, i) = Valid(lines, i + 1)
    BY <1>4, <1>6, <2>1, <2>2
  <2>4. Left(lines, i) = Left(lines, i + 1) \ {line[1]}
    BY <1>5, <1>6, <2>1, <2>2
  <2> QED
    BY <1>10, <2>3, <2>4 DEF line
<1> QED
  BY <1>8, <1>9, <1>10 DEF line

\* What is parsed from the i-th line on, as the code has it.
ParsedFrom(f, lines, i) ==
  IF i > Len(lines) THEN [set |-> {}, found |-> {}]
  ELSE LET later == f[i + 1]
           line  == lines[i]
       IN  IF line \notin Dialog!Keys \X BOOLEAN THEN later
           ELSE IF line[2] THEN [set |-> later.set \cup {line[1]},
                                 found |-> later.found \cup {line[1]}]
           ELSE [later EXCEPT !.set = @ \ {line[1]}]
IsParsed(f, lines) == f = [i \in 1 .. (Len(lines) + 1) |-> ParsedFrom(f, lines, i)]

\* What is parsed are the valid keys, less those that an invalid line clears.
LEMMA ParsedIs ==
  ASSUME NEW lines, Len(lines) \in Nat
  PROVE  Dialog!Parsed(lines) = [set |-> Left(lines, 1), found |-> Valid(lines, 1)]
<1> DEFINE P(i) == [set |-> Left(lines, i), found |-> Valid(lines, i)]
           n == Len(lines)
           w == [i \in 1 .. (n + 1) |-> P(i)]
<1>1. \A i \in 1 .. (n + 1) : w[i] = ParsedFrom(w, lines, i)
  <2> SUFFICES ASSUME NEW i \in 1 .. (n + 1) PROVE w[i] = ParsedFrom(w, lines, i)
    OBVIOUS
  <2>1. CASE i = n + 1
    <3>1. i > n /\ \A j : j \notin i .. n
      BY <2>1
    <3>2. Left(lines, i) = {} /\ Valid(lines, i) = {}
      BY <3>1 DEF Left, Valid
    <3> QED
      BY <3>1, <3>2 DEF ParsedFrom
  <2>2. CASE i # n + 1
    <3>1. i \in 1 .. n /\ i + 1 \in 1 .. (n + 1) /\ ~(i > n)
      BY <2>2
    <3>2. w[i] = P(i) /\ w[i + 1] = P(i + 1)
      BY <3>1
    <3>3. P(i) = IF lines[i] \notin Dialog!Keys \X BOOLEAN THEN P(i + 1)
                 ELSE IF lines[i][2] THEN [set |-> P(i + 1).set \cup {lines[i][1]},
                                           found |-> P(i + 1).found \cup {lines[i][1]}]
                 ELSE [P(i + 1) EXCEPT !.set = @ \ {lines[i][1]}]
      BY <3>1, LineNext
    <3> HIDE DEF P, w
    <3> QED
      BY <3>1, <3>2, <3>3 DEF ParsedFrom
  <2> QED
    BY <2>1, <2>2
<1>2. w = [i \in 1 .. (n + 1) |-> w[i]]
  OBVIOUS
<1>3. n \in Nat
  OBVIOUS
<1>4. w[1] = P(1)
  BY <1>3
<1> HIDE DEF w
<1>5. IsParsed(w, lines)
  BY <1>1, <1>2, Zenon DEF IsParsed
<1>6. PICK f : IsParsed(f, lines) /\ Dialog!Parsed(lines) = f[1]
  <2>1. Dialog!Parsed(lines) = (CHOOSE f : IsParsed(f, lines))[1]
    BY DEF Dialog!Parsed, IsParsed, ParsedFrom
  <2> QED
    BY <1>5, <2>1
<1> DEFINE S == {d \in Nat : d <= n => f[(n + 1) - d] = w[(n + 1) - d]}
<1>7. 0 \in S
  <2>1. n + 1 \in 1 .. (n + 1) /\ n + 1 > n /\ (n + 1) - 0 = n + 1
    OBVIOUS
  <2>2. f[n + 1] = ParsedFrom(f, lines, n + 1)
    BY <1>6, <2>1 DEF IsParsed
  <2>3. w[n + 1] = ParsedFrom(w, lines, n + 1)
    BY <1>1, <2>1
  <2> QED
    BY <2>1, <2>2, <2>3 DEF ParsedFrom
<1>8. ASSUME NEW d \in S PROVE d + 1 \in S
  <2> SUFFICES ASSUME d + 1 <= n
               PROVE  f[(n + 1) - (d + 1)] = w[(n + 1) - (d + 1)]
    OBVIOUS
  <2>1. PICK i \in 1 .. n : i = (n + 1) - (d + 1) /\ i + 1 = (n + 1) - d
    <3>1. (n + 1) - (d + 1) \in 1 .. n /\ ((n + 1) - (d + 1)) + 1 = (n + 1) - d
      OBVIOUS
    <3> QED
      BY <3>1
  <2>2. f[i + 1] = w[i + 1]
    BY <2>1
  <2>3. i \in 1 .. (n + 1)
    BY <1>3
  <2>4. f[i] = ParsedFrom(f, lines, i)
    BY <1>6, <2>3 DEF IsParsed
  <2>5. w[i] = ParsedFrom(w, lines, i)
    BY <1>1, <2>3
  <2>6. f[i] = w[i]
    BY <2>2, <2>4, <2>5 DEF ParsedFrom
  <2> QED
    BY <2>1, <2>6
<1>9. S = Nat
  <2>1. S \in SUBSET Nat
    OBVIOUS
  <2> HIDE DEF S
  <2> QED
    BY <1>7, <1>8, <2>1, Induction
<1>10. f[1] = w[1]
  <2>1. n \in S /\ (n + 1) - n = 1
    BY <1>3, <1>9
  <2> QED
    BY <2>1
<1> QED
  BY <1>4, <1>6, <1>10

\* If every key was found, and no key has two lines, none was cleared.
LEMMA AllLeft ==
  ASSUME NEW lines, Len(lines) \in Nat, Valid(lines, 1) = Dialog!Keys,
         Left(lines, 1) # Dialog!Keys
  PROVE  \E k \in Dialog!Keys, i, j \in 1 .. Len(lines) :
           i < j /\ lines[i] = <<k, FALSE>> /\ lines[j] = <<k, TRUE>>
<1>1. PICK k \in Dialog!Keys : k \notin Left(lines, 1)
  BY DEF Left
<1>2. PICK j \in 1 .. Len(lines) : lines[j] = <<k, TRUE>>
  BY <1>1 DEF Valid
<1>3. PICK i \in 1 .. j - 1 : lines[i] = <<k, FALSE>>
  BY <1>1, <1>2 DEF Left
<1>4. i \in 1 .. Len(lines) /\ i < j
  OBVIOUS
<1> QED
  BY <1>2, <1>3, <1>4

(***************************************************************************)
(* The registration                                                        *)
(***************************************************************************)
\* Whatever answers consist of.
Elements == UNION {{a.bytes[i] : i \in 1 .. Len(a.bytes)} : a \in Answers}

\* An answer is a sequence of elements.
LEMMA AnswerIs ==
  ASSUME NEW a \in Answers
  PROVE  a.bytes \in Seq(Elements) /\ a.length \in Nat /\ SizeSpace \in Nat \ {0}
<1>1. /\ Len(a.bytes) \in Nat /\ a.bytes = [i \in 1 .. Len(a.bytes) |-> a.bytes[i]]
      /\ a.length \in 0 .. SizeSpace - 1 /\ SizeSpace \in Nat \ {0}
  BY SideAssumption DEF Dialog!RegistAssumption
<1>2. \A i \in 1 .. Len(a.bytes) : a.bytes[i] \in Elements
  BY DEF Elements
<1>3. PICK n \in Nat : n = Len(a.bytes)
  BY <1>1
<1>4. a.bytes \in [1 .. n -> Elements]
  BY <1>1, <1>2, <1>3
<1> QED
  BY <1>1, <1>4

Steps == {"format", "search", "sleep", "connect", "header", "content", "event", "ended", "undefined"}
Early == {"format", "search", "sleep", "connect"}

DialogTypes ==
  /\ request \in Requests /\ answer \in Answers /\ step \in Steps
  /\ stopPipe \in BOOLEAN /\ broken \in BOOLEAN /\ header \in 0 .. Len(got) /\ nl \in 0 .. 4
  /\ got \in Seq(Elements) /\ wire \in Seq(Elements)
  /\ result \in {"none", "canceled", "success", "failed"}
  /\ host \subseteq Dialog!Keys /\ saved \subseteq Dialog!Keys
  /\ sent \in {"none", "online", "account"}
  /\ queue \in Seq({"success", "failed"})
  /\ dialog \in {"open", "closing", "gone"}

\* Until the header ends there is no blank line, and the state says how much
\* of one was read last.
Reading ==
  /\ step \in Early => got = <<>>
  /\ step \in Early \cup {"header"} => header = 0 /\ nl = NlOf(got, Len(got))
  /\ HeaderRead(got, header)
  /\ step = "content" => header # 0

\* The content is whole, unless a size_t does not hold the sum of the sizes.
Whole(g, h, a) == a.length + h < SizeSpace => Len(g) >= h + a.length

\* The result stands when the thread is about to tell it; what is told is it.
Result ==
  /\ step \in {"event", "ended"} <=> result # "none"
  /\ stopPipe => dialog # "open"
  /\ result = "canceled" => dialog # "open" \/ broken
  /\ result = "success" => (host = Dialog!Keys \/ Dialog!KeyTwice) /\ Whole(got, header, answer)
  /\ queue # <<>> => step = "ended"
  /\ \A i \in 1 .. Len(queue) : queue[i] = result
  /\ saved # {} => result = "success" /\ saved = host

DialogInv == DialogTypes /\ Reading /\ Result


\* A registration begins with nothing received.
LEMMA DialogInit == Init => DialogInv
<1> SUFFICES ASSUME Init PROVE DialogInv
  OBVIOUS
<1>1. Dialog!RegistInit
  BY DEF Init
<1>2. DialogTypes
  <2>1. /\ got = <<>> /\ wire = <<>> /\ queue = <<>> /\ header = 0 /\ nl = 0
        /\ host = {} /\ saved = {}
    BY <1>1 DEF Dialog!RegistInit
  <2>2. <<>> \in Seq(Elements) /\ <<>> \in Seq({"success", "failed"}) /\ 0 \in 0 .. Len(<<>>)
    OBVIOUS
  <2>3. got \in Seq(Elements) /\ wire \in Seq(Elements) /\ header \in 0 .. Len(got)
        /\ queue \in Seq({"success", "failed"})
    BY <2>1, <2>2
  <2>4. /\ request \in Requests /\ answer \in Answers /\ step \in Steps
        /\ result \in {"none", "canceled", "success", "failed"}
        /\ sent \in {"none", "online", "account"} /\ dialog \in {"open", "closing", "gone"}
    BY <1>1 DEF Dialog!RegistInit, Steps
  <2>5. stopPipe \in BOOLEAN /\ broken \in BOOLEAN
    BY <1>1 DEF Dialog!RegistInit
  <2>6. nl \in 0 .. 4 /\ host \subseteq Dialog!Keys /\ saved \subseteq Dialog!Keys
    BY <2>1
  <2> QED
    BY <2>3, <2>4, <2>5, <2>6 DEF DialogTypes
<1>3. Reading
  <2>1. \A i \in 0 .. 0 : ~Blank(got, i)
    BY DEF Blank
  <2>2. got = <<>> /\ Len(got) = 0 /\ header = 0 /\ nl = 0 /\ step = "format"
    BY <1>1 DEF Dialog!RegistInit
  <2>3. HeaderRead(got, header)
    BY <2>1, <2>2 DEF HeaderRead
  <2>4. NlOf(got, 0) = 0
    BY <2>1 DEF NlOf, Blank
  <2> QED
    BY <2>2, <2>3, <2>4 DEF Reading, Early
<1>4. Result
  BY <1>1 DEF Dialog!RegistInit, Result
<1> QED
  BY <1>2, <1>3, <1>4 DEF DialogInv

\* The waits of the thread, which do not read the answer.
LEMMA WaitsKeep ==
  ASSUME DialogInv,
         \/ Dialog!Begin \/ Dialog!Search \/ Dialog!SearchCanceled \/ Dialog!SearchTimesOut
         \/ Dialog!Sleep \/ Dialog!Connect \/ Dialog!WaitFails \/ Dialog!RecvOverflows
  PROVE  DialogInv'
<1> USE DEF DialogInv
<1>1. /\ UNCHANGED <<request, answer, got, nl, header, stopPipe, host, queue, dialog, saved>>
      /\ sent' = sent \/ sent' = Dialog!Payload(request)
      /\ wire' = wire \/ wire' = answer.bytes
  BY DEF Dialog!Begin, Dialog!Search, Dialog!SearchCanceled, Dialog!SearchTimesOut,
         Dialog!Sleep, Dialog!Connect, Dialog!WaitFails, Dialog!RecvOverflows
<1>2. /\ step \in Early \cup {"header", "content"} /\ step' \in Steps
      /\ step' \in Early => step \in Early
      /\ step' = "header" => step = "connect"
      /\ step' # "content" /\ step' # "ended"
  BY DEF Dialog!Begin, Dialog!Search, Dialog!SearchCanceled, Dialog!SearchTimesOut,
         Dialog!Sleep, Dialog!Connect, Dialog!WaitFails, Dialog!RecvOverflows, Dialog!Ends, Early, Steps
<1>3. /\ step' = "event" => result' \in {"canceled", "failed"}
      /\ step' # "event" => result' = result
      /\ result' = "canceled" => stopPipe \/ broken'
      /\ broken' \in {broken, TRUE}
  <2>1. result # "canceled"
    BY <1>2 DEF Result, Early
  <2>2. /\ step' = "event" => result' \in {"canceled", "failed"}
        /\ step' # "event" => result' = result
    BY DEF Dialog!Begin, Dialog!Search, Dialog!SearchCanceled, Dialog!SearchTimesOut, Dialog!Sleep,
           Dialog!Connect, Dialog!WaitFails, Dialog!RecvOverflows, Dialog!Ends, DialogTypes
  <2>3. /\ result' = "canceled" => stopPipe \/ broken' = TRUE
        /\ broken' \in {broken, TRUE}
    BY <2>1 DEF Dialog!Begin, Dialog!Search, Dialog!SearchCanceled, Dialog!SearchTimesOut, Dialog!Sleep,
                Dialog!Connect, Dialog!WaitFails, Dialog!RecvOverflows, Dialog!Ends, DialogTypes
  <2> QED
    BY <2>2, <2>3
<1>4. DialogTypes'
  <2>1. Dialog!Payload(request) \in {"none", "online", "account"}
    BY DEF Dialog!Payload
  <2>2. answer.bytes \in Seq(Elements)
    BY AnswerIs DEF DialogTypes
  <2>3. broken' \in BOOLEAN
    BY <1>3 DEF DialogTypes
  <2> QED
    BY <1>1, <1>2, <1>3, <2>1, <2>2, <2>3 DEF DialogTypes
<1>5. Reading'
  BY <1>1, <1>2 DEF Reading, Early
<1>6. Result'
  <2>1. result = "none" /\ queue = <<>> /\ saved = {}
    BY <1>2 DEF Result, Early
  <2> QED
    BY <1>1, <1>2, <1>3, <2>1 DEF Result, Early, Steps
<1> QED
  BY <1>4, <1>5, <1>6

\* More of the answer, of whatever length.
LEMMA Arrives ==
  ASSUME NEW g \in Seq(Elements), NEW v \in Seq(Elements), NEW n \in 1 .. Len(v),
         NEW c, c = SubSeq(v, 1, n), NEW h, h = g \o c
  PROVE  /\ c \in Seq(Elements) /\ Len(c) = n /\ h \in Seq(Elements) /\ Len(h) = Len(g) + n
         /\ SubSeq(v, n + 1, Len(v)) \in Seq(Elements)
         /\ \A i \in 1 .. n : c[i] = h[Len(g) + i]
         /\ \A i \in 1 .. Len(g) : h[i] = g[i]
<1>1. c \in Seq(Elements) /\ Len(c) = n /\ SubSeq(v, n + 1, Len(v)) \in Seq(Elements)
  OBVIOUS
<1>2. Len(g) \in Nat /\ h \in Seq(Elements) /\ Len(h) = Len(g) + n
  BY <1>1
<1>3. \A i \in 1 .. n : c[i] = h[Len(g) + i]
  BY <1>1
<1>4. \A i \in 1 .. Len(g) : h[i] = g[i]
  BY <1>1
<1> QED
  BY <1>1, <1>2, <1>3, <1>4

\* It does not change what was read.
LEMMA SameBlanks ==
  ASSUME NEW g, NEW h, Len(g) \in Nat, \A i \in 1 .. Len(g) : h[i] = g[i]
  PROVE  \A i \in 0 .. Len(g) : /\ Blank(g, i) <=> Blank(h, i)
                                /\ NlOf(g, i) = NlOf(h, i)
<1> SUFFICES ASSUME NEW i \in 0 .. Len(g)
             PROVE  (Blank(g, i) <=> Blank(h, i)) /\ NlOf(g, i) = NlOf(h, i)
  OBVIOUS
<1>1. /\ i >= 1 => i \in 1 .. Len(g)
      /\ i >= 2 => i \in 1 .. Len(g) /\ i - 1 \in 1 .. Len(g)
      /\ i >= 3 => i - 2 \in 1 .. Len(g)
      /\ i >= 4 => i - 3 \in 1 .. Len(g)
      /\ i >= 3 => i >= 2
      /\ i >= 4 => i >= 3
  OBVIOUS
<1>2. Blank(g, i) <=> Blank(h, i)
  BY <1>1 DEF Blank
<1> QED
  BY <1>1, <1>2 DEF NlOf

\* The header comes in, whole or in part.
LEMMA RecvHeaderKeeps == ASSUME DialogInv, Dialog!RecvHeader PROVE DialogInv'
<1> USE DEF DialogInv
<1>0. PICK l : l = Len(got)
  OBVIOUS
<1>1. PICK n \in 1 .. Len(wire) :
        LET states == Dialog!States(nl, SubSeq(wire, 1, n))
            size   == Len(got) + EndsAt(states, n)
        IN  /\ got' = got \o SubSeq(wire, 1, n) /\ wire' = SubSeq(wire, n + 1, Len(wire))
            /\ nl' = states[n]
            /\ IF states[n] # 4 THEN UNCHANGED <<step, header, result>>
               ELSE /\ header' = size
                    /\ IF answer.code # 200 \/ answer.length = 0
                          \/ Dialog!Total(size) > BufSize
                       THEN Dialog!Ends("failed") ELSE step' = "content" /\ UNCHANGED result
  BY DEF Dialog!RecvHeader, EndsAt
<1>2. /\ step = "header"
      /\ UNCHANGED <<request, answer, broken, stopPipe, host, sent, queue, dialog, saved>>
  BY DEF Dialog!RecvHeader
<1>3. PICK c : c = SubSeq(wire, 1, n)
  OBVIOUS
<1>4. PICK states : states = Dialog!States(nl, c)
  OBVIOUS
<1>5. PICK size : size = l + EndsAt(states, n)
  OBVIOUS
<1>6. /\ got' = got \o c /\ wire' = SubSeq(wire, n + 1, Len(wire))
      /\ nl' = states[n]
      /\ IF states[n] # 4 THEN UNCHANGED <<step, header, result>>
         ELSE /\ header' = size
              /\ \/ Dialog!Ends("failed")
                 \/ step' = "content" /\ UNCHANGED result
  BY <1>0, <1>1, <1>3, <1>4, <1>5
<1>7. /\ c \in Seq(Elements) /\ Len(c) = n /\ got' \in Seq(Elements) /\ Len(got') = l + n
      /\ wire' \in Seq(Elements)
      /\ \A i \in 1 .. n : c[i] = got'[l + i]
      /\ \A i \in 1 .. l : got'[i] = got[i]
  BY <1>0, <1>3, <1>6, Arrives DEF DialogTypes
<1>8. l \in Nat /\ n \in Nat
  BY <1>0 DEF DialogTypes
<1>9. header = 0 /\ nl = NlOf(got, l) /\ \A i \in 0 .. l : ~Blank(got, i)
  BY <1>0, <1>2, <1>8 DEF Reading, HeaderRead
<1>10. (\A i \in 0 .. l : ~Blank(got', i)) /\ nl = NlOf(got', l)
  <2>1. PICK h : h = got'
    OBVIOUS
  <2>2. \A i \in 0 .. l : (Blank(got, i) <=> Blank(h, i)) /\ NlOf(got, i) = NlOf(h, i)
    BY <1>0, <1>7, <1>8, <2>1, SameBlanks
  <2>3. l \in 0 .. l
    BY <1>8
  <2> QED
    BY <1>9, <2>1, <2>2, <2>3
<1>11. EndsWhere(states, got', l, n)
  <2>1. PICK h : h = got'
    OBVIOUS
  <2>2. Follows(c, h, l)
    BY <1>7, <2>1 DEF Follows
  <2>3. NoBlank(h, l) /\ states = Dialog!States(NlOf(h, l), c)
    BY <1>4, <1>10, <2>1 DEF NoBlank
  <2>4. EndsWhere(states, h, l, n)
    BY <1>7, <1>8, <2>2, <2>3, FirstBlank
  <2> QED
    BY <2>1, <2>4
<1>12. /\ states[n] \in 0 .. 4
       /\ states[n] # 4 => /\ states[n] = NlOf(got', l + n)
                           /\ \A i \in 0 .. l + n : ~Blank(got', i)
       /\ states[n] = 4 => /\ size \in l + 1 .. l + n /\ Blank(got', size)
                           /\ \A i \in 0 .. size - 1 : ~Blank(got', i)
  BY <1>5, <1>11 DEF EndsWhere, NoBlank
<1>13. result = "none" /\ queue = <<>> /\ saved = {}
  BY <1>2 DEF Result
<1>14. CASE states[n] # 4
  <2>1. UNCHANGED <<step, header, result>>
    BY <1>6, <1>14
  <2>2. DialogTypes'
    <3>1. header' \in 0 .. Len(got') /\ nl' \in 0 .. 4
      BY <1>6, <1>7, <1>8, <1>9, <1>12, <2>1
    <3> QED
      BY <1>2, <1>7, <2>1, <3>1 DEF DialogTypes
  <2>3. Reading'
    BY <1>2, <1>6, <1>7, <1>9, <1>12, <1>14, <2>1 DEF Reading, HeaderRead, Early
  <2>4. Result'
    BY <1>2, <1>13, <2>1 DEF Result
  <2> QED
    BY <2>2, <2>3, <2>4
<1>15. CASE states[n] = 4
  <2>1. header' = size /\ \/ step' = "event" /\ result' = "failed"
                          \/ step' = "content" /\ result' = result
    BY <1>6, <1>15 DEF Dialog!Ends
  <2>2. header' \in 1 .. Len(got') /\ Blank(got', header')
        /\ \A i \in 0 .. header' - 1 : ~Blank(got', i)
    BY <1>7, <1>8, <1>12, <1>15, <2>1
  <2>3. DialogTypes'
    <3>1. header' \in 0 .. Len(got') /\ nl' \in 0 .. 4
      BY <1>6, <1>12, <2>2
    <3> QED
      BY <1>2, <1>7, <2>1, <3>1 DEF DialogTypes, Steps
  <2>4. Reading'
    BY <2>1, <2>2 DEF Reading, HeaderRead, Early
  <2>5. Result'
    BY <1>2, <1>13, <2>1 DEF Result
  <2> QED
    BY <2>3, <2>4, <2>5
<1> QED
  BY <1>14, <1>15

\* More of the content comes in.
LEMMA RecvContentKeeps == ASSUME DialogInv, Dialog!RecvContent PROVE DialogInv'
<1> USE DEF DialogInv
<1>1. PICK n \in 1 .. Len(wire) :
        got' = got \o SubSeq(wire, 1, n) /\ wire' = SubSeq(wire, n + 1, Len(wire))
  BY DEF Dialog!RecvContent
<1>2. step = "content" /\ UNCHANGED <<request, answer, broken, step, stopPipe, nl, header, result,
                                      host, sent, queue, dialog, saved>>
  BY DEF Dialog!RecvContent
<1>3. PICK c : c = SubSeq(wire, 1, n)
  OBVIOUS
<1>4. /\ got' \in Seq(Elements) /\ Len(got') = Len(got) + n /\ wire' \in Seq(Elements)
      /\ \A i \in 1 .. Len(got) : got'[i] = got[i]
  BY <1>1, <1>3, Arrives DEF DialogTypes
<1>5. Len(got) \in Nat /\ n \in Nat
  BY DEF DialogTypes
<1>6. header \in 1 .. Len(got) /\ Blank(got, header)
      /\ \A i \in 0 .. header - 1 : ~Blank(got, i)
  BY <1>2 DEF Reading, HeaderRead
<1>7. PICK h : h = got'
  OBVIOUS
<1>8. \A i \in 0 .. Len(got) : Blank(got, i) <=> Blank(h, i)
  BY <1>4, <1>5, <1>7, SameBlanks
<1>9. DialogTypes'
  BY <1>2, <1>4, <1>5, <1>6 DEF DialogTypes
<1>10. Reading'
  <2>1. header' \in 1 .. Len(got') /\ Blank(got', header')
    <3>1. header \in 0 .. Len(got)
      BY <1>5, <1>6
    <3> QED
      BY <1>2, <1>4, <1>5, <1>6, <1>7, <1>8, <3>1
  <2>2. \A i \in 0 .. header' - 1 : ~Blank(got', i)
    <3>1. \A i \in 0 .. header - 1 : i \in 0 .. Len(got)
      BY <1>5, <1>6
    <3> QED
      BY <1>2, <1>6, <1>7, <1>8, <3>1
  <2> QED
    BY <1>2, <1>6, <2>1, <2>2 DEF Reading, HeaderRead, Early
<1>11. Result'
  BY <1>2 DEF Result
<1> QED
  BY <1>9, <1>10, <1>11

\* The content is parsed: it is whole, and found is every key with a valid line.
LEMMA ParseKeeps == ASSUME DialogInv, Dialog!Parse PROVE DialogInv'
<1> USE DEF DialogInv
<1> DEFINE lines == SubSeq(got, header + 1, Len(got))
<1>1. /\ step = "content" /\ ~Dialog!MoreToCome
      /\ host' = Dialog!Parsed(lines).set
      /\ Dialog!Ends(IF Dialog!Parsed(lines).found = Dialog!Keys THEN "success" ELSE "failed")
      /\ UNCHANGED <<request, answer, broken, stopPipe, wire, got, nl, header, sent, queue, dialog,
                     saved>>
  BY DEF Dialog!Parse
<1>2. /\ header \in Nat /\ Len(got) \in Nat /\ header <= Len(got) /\ answer.length \in Nat
      /\ SizeSpace \in Nat \ {0}
  BY AnswerIs DEF DialogTypes
<1>3. /\ lines \in Seq(Elements) /\ Len(lines) = Len(got) - header /\ Len(lines) \in Nat
      /\ \A i \in 1 .. Len(lines) : lines[i] = got[header + i]
  <2>1. PICK g \in Seq(Elements), h \in Nat : g = got /\ h = header /\ h <= Len(g)
    BY <1>2 DEF DialogTypes
  <2>2. PICK l : l = SubSeq(g, h + 1, Len(g))
    OBVIOUS
  <2>3. l \in Seq(Elements) /\ Len(l) = Len(g) - h /\ Len(l) \in Nat
    BY <2>1, <2>2
  <2>4. \A i \in 1 .. Len(l) : l[i] = g[h + i]
    BY <2>1, <2>2
  <2> QED
    BY <2>1, <2>2, <2>3, <2>4
<1> HIDE DEF lines
<1>4. host' = Left(lines, 1)
      /\ result' = (IF Valid(lines, 1) = Dialog!Keys THEN "success" ELSE "failed")
      /\ step' = "event"
  BY <1>1, <1>3, ParsedIs DEF Dialog!Ends
<1>5. Whole(got, header, answer)
  <2> SUFFICES ASSUME answer.length + header < SizeSpace PROVE Len(got) >= header + answer.length
    BY DEF Whole
  <2>1. PICK n \in Nat, m \in Nat : n = answer.length + header /\ m = SizeSpace /\ n < m
    BY <1>2
  <2>2. n % m = n
    BY <2>1
  <2> QED
    BY <1>1, <1>2, <2>1, <2>2 DEF Dialog!MoreToCome, Dialog!Total
<1>6. result' = "success" => host' = Dialog!Keys \/ Dialog!KeyTwice'
  <2> SUFFICES ASSUME result' = "success", host' # Dialog!Keys PROVE Dialog!KeyTwice'
    OBVIOUS
  <2>1. PICK k \in Dialog!Keys, i \in 1 .. Len(lines), j \in 1 .. Len(lines) :
          i < j /\ lines[i] = <<k, FALSE>> /\ lines[j] = <<k, TRUE>>
    BY <1>3, <1>4, AllLeft
  <2>2. /\ header + i \in (header + 1) .. Len(got) /\ header + j \in (header + 1) .. Len(got)
        /\ header + i < header + j
    BY <1>2, <1>3, <2>1
  <2>3. got[header + i] \in {k} \X BOOLEAN /\ got[header + j] \in {k} \X BOOLEAN
    <3>1. <<k, FALSE>> \in {k} \X BOOLEAN /\ <<k, TRUE>> \in {k} \X BOOLEAN
      OBVIOUS
    <3>2. got[header + i] = <<k, FALSE>> /\ got[header + j] = <<k, TRUE>>
      BY <1>3, <2>1
    <3> QED
      BY <3>1, <3>2
  <2>4. Dialog!KeyTwice
    BY <2>2, <2>3 DEF Dialog!KeyTwice
  <2> QED
    BY <1>1, <2>4 DEF Dialog!KeyTwice
<1>7. DialogTypes'
  <2>1. host' \subseteq Dialog!Keys
    BY <1>4 DEF Left
  <2> QED
    BY <1>1, <1>4, <2>1 DEF DialogTypes, Steps
<1>8. Reading'
  BY <1>1, <1>4 DEF Reading, Early
<1>9. Result'
  <2>1. result = "none" /\ queue = <<>> /\ saved = {}
    BY <1>1 DEF Result
  <2> QED
    BY <1>1, <1>4, <1>5, <1>6, <2>1 DEF Result
<1> QED
  BY <1>7, <1>8, <1>9

\* The event, and the dialog, which neither reads nor decides.
LEMMA DialogStepKeeps ==
  ASSUME DialogInv, Dialog!Deliver \/ Dialog!Handle \/ Dialog!Close \/ Dialog!Joined
  PROVE  DialogInv'
<1> USE DEF DialogInv
<1>1. /\ UNCHANGED <<request, answer, broken, wire, got, nl, header, result, host, sent>>
      /\ step' = step \/ (step = "event" /\ step' = "ended")
      /\ saved' \in {saved, host} /\ dialog' \in {dialog, "closing", "gone"}
      /\ stopPipe' \in {stopPipe, TRUE}
  BY DEF Dialog!Deliver, Dialog!Handle, Dialog!Close, Dialog!Joined
<1>2. queue' \in Seq({"success", "failed"})
  <2>1. queue \in Seq({"success", "failed"})
    BY DEF DialogTypes
  <2>2. CASE Dialog!Deliver
    <3>1. result \in {"canceled", "success", "failed"}
      BY <2>2 DEF Dialog!Deliver, DialogTypes, Result
    <3> QED
      BY <2>1, <2>2, <3>1 DEF Dialog!Deliver
  <2>3. CASE Dialog!Handle
    <3>1. queue # <<>> /\ queue' = Tail(queue)
      BY <2>3 DEF Dialog!Handle
    <3> QED
      BY <2>1, <3>1
  <2>4. CASE Dialog!Close \/ Dialog!Joined
    <3>1. queue' = queue \/ queue' = <<>>
      BY <2>4 DEF Dialog!Close, Dialog!Joined
    <3>2. <<>> \in Seq({"success", "failed"})
      OBVIOUS
    <3> QED
      BY <2>1, <3>1, <3>2
  <2> QED
    BY <2>2, <2>3, <2>4
<1>3. DialogTypes'
  BY <1>1, <1>2 DEF DialogTypes, Steps
<1>4. Reading'
  BY <1>1 DEF Reading, Early, HeaderRead
<1>5. Result'
  <2>1. (step' \in {"event", "ended"} <=> result' # "none")
        /\ (result' = "success" => (host' = Dialog!Keys \/ Dialog!KeyTwice')
                                   /\ Whole(got', header', answer'))
    BY <1>1 DEF Result, Dialog!KeyTwice
  <2>2. (stopPipe' => dialog' # "open") /\ (result' = "canceled" => dialog' # "open" \/ broken')
    BY <1>1 DEF Result, Dialog!Deliver, Dialog!Handle, Dialog!Close, Dialog!Joined
  <2>3. /\ queue' # <<>> => step' = "ended"
        /\ \A i \in 1 .. Len(queue') : queue'[i] = result'
    <3>1. CASE Dialog!Deliver
      <4>1. queue = <<>>
        BY <3>1 DEF Result, Dialog!Deliver
      <4>2. queue' = <<>> \/ queue' = <<result>>
        BY <3>1, <4>1 DEF Dialog!Deliver
      <4> QED
        BY <1>1, <3>1, <4>2 DEF Dialog!Deliver
    <3>2. CASE Dialog!Handle
      <4>1. queue' = Tail(queue) /\ step = "ended" /\ queue # <<>>
        BY <3>2 DEF Dialog!Handle, Result
      <4>2. \A i \in 1 .. Len(queue') : queue'[i] = queue[i + 1] /\ i + 1 \in 1 .. Len(queue)
        BY <4>1 DEF DialogTypes
      <4> QED
        BY <1>1, <4>1, <4>2 DEF Result
    <3>3. CASE Dialog!Close \/ Dialog!Joined
      BY <1>1, <3>3 DEF Dialog!Close, Dialog!Joined, Result
    <3> QED
      BY <3>1, <3>2, <3>3
  <2>4. saved' # {} => result' = "success" /\ saved' = host'
    <3>1. CASE Dialog!Handle /\ Head(queue) = "success"
      <4>1. result = "success"
        BY <3>1 DEF Dialog!Handle, Result, DialogTypes
      <4>2. saved' = host \/ saved' = saved
        BY <1>1
      <4> QED
        BY <1>1, <4>1, <4>2 DEF Result
    <3>2. CASE ~(Dialog!Handle /\ Head(queue) = "success")
      <4>1. saved' = saved
        BY <3>2 DEF Dialog!Deliver, Dialog!Handle, Dialog!Close, Dialog!Joined
      <4> QED
        BY <1>1, <4>1 DEF Result
    <3> QED
      BY <3>1, <3>2
  <2> QED
    BY <2>1, <2>2, <2>3, <2>4 DEF Result
<1> QED
  BY <1>3, <1>4, <1>5

\* Every step keeps the invariant, those of the other protocols too.
LEMMA DialogStep == DialogInv /\ [Next]_vars => DialogInv'
<1> SUFFICES ASSUME DialogInv, [Next]_vars PROVE DialogInv'
  OBVIOUS
<1>1. CASE UNCHANGED dialogVars
  BY <1>1 DEF dialogVars, DialogInv, DialogTypes, Reading, HeaderRead, Result, Whole, Dialog!KeyTwice
<1>2. CASE Dialog!RegistNext
  BY <1>2, WaitsKeep, RecvHeaderKeeps, RecvContentKeeps, ParseKeeps, DialogStepKeeps
     DEF Dialog!RegistNext, Dialog!Packet, Dialog!Thread
<1> QED
  BY <1>1, <1>2 DEF Next, Listed, Registered, Tested, vars

\* However the answer is cut into packets, the end of its header is found, and
\* a registration is told and saved as what it was (http.c:128-186,
\* regist.c:273-278, :588-605, :719-735).
THEOREM Registers == Spec => []RegistIsRight
<1>1. DialogInv => RegistIsRight
  <2> SUFFICES ASSUME DialogInv PROVE RegistIsRight
    OBVIOUS
  <2>1. Dialog!HeaderIsFound
    BY HeaderIs DEF DialogInv, DialogTypes, Reading, Dialog!HeaderIsFound
  <2>2. Dialog!RegistTypeOK
    BY DEF DialogInv, DialogTypes, Steps, Dialog!RegistTypeOK
  <2>3. Dialog!EndIsRight
    BY <2>2 DEF DialogInv, Result, Whole, Dialog!EndIsRight
  <2> QED
    BY <2>1, <2>3 DEF RegistIsRight, Dialog!RegistIsRight
<1> QED
  BY <1>1, DialogInit, DialogStep, PTL DEF Spec

(***************************************************************************)
(* The list of consoles                                                    *)
(***************************************************************************)
\* The arrays are of one length, and no console is in them twice.
IsList(h, a) ==
  /\ h \in Seq(Hosts) /\ a \in Seq(Nat) /\ Len(h) = Len(a)
  /\ \A i, j \in 1 .. Len(h) : h[i].id = h[j].id => i = j

\* A sequence without its i-th element.
Removed(E, s, i, r) ==
  /\ r \in Seq(E) /\ Len(r) = Len(s) - 1
  /\ \A k \in 1 .. Len(s) - 1 : r[k] = IF k < i THEN s[k] ELSE s[k + 1]

\* RemoveAt leaves the other elements in their order.
LEMMA RemovedIs ==
  ASSUME NEW E, NEW s \in Seq(E), NEW i \in 1 .. Len(s)
  PROVE  Removed(E, s, i, List!RemoveAt(s, i))
<1>0. PICK r : r = List!RemoveAt(s, i)
  OBVIOUS
<1> DEFINE u == SubSeq(s, 1, i - 1)
           v == SubSeq(s, i + 1, Len(s))
<1>1. u \in Seq(E) /\ Len(u) = i - 1 /\ \A k \in 1 .. i - 1 : u[k] = s[k]
  OBVIOUS
<1>2. v \in Seq(E) /\ Len(v) = Len(s) - i /\ \A k \in 1 .. Len(s) - i : v[k] = s[i + k]
  OBVIOUS
<1>3. r = u \o v
  BY <1>0 DEF List!RemoveAt
<1>4. i \in Nat /\ Len(s) \in Nat
  OBVIOUS
<1> HIDE DEF u, v
<1>5. r \in Seq(E) /\ Len(r) = Len(s) - 1
  BY <1>1, <1>2, <1>3, <1>4
<1>6. ASSUME NEW k \in 1 .. Len(s) - 1
      PROVE  r[k] = IF k < i THEN s[k] ELSE s[k + 1]
  <2>1. CASE k < i
    <3>1. k \in 1 .. i - 1
      BY <1>4, <2>1
    <3>2. r[k] = u[k]
      BY <1>1, <1>2, <1>3, <3>1
    <3> QED
      BY <1>1, <2>1, <3>1, <3>2
  <2>2. CASE ~(k < i)
    <3>1. k - (i - 1) \in 1 .. Len(s) - i /\ i + (k - (i - 1)) = k + 1
      BY <1>4, <2>2
    <3>2. r[k] = v[k - (i - 1)]
      BY <1>1, <1>2, <1>3, <1>4, <2>2
    <3> QED
      BY <1>2, <2>2, <3>1, <3>2
  <2> QED
    BY <2>1, <2>2
<1> QED
  BY <1>0, <1>5, <1>6 DEF Removed

\* After n rounds of the loop: what is left are hosts of before with their
\* ages, none that is young enough was dropped, and those passed are young
\* enough.
IsPair(s, k, h, a, j) == s.hosts[k] = h[j] /\ s.ages[k] = a[j]
Dropped(s, h, a, n) ==
  /\ s = [hosts |-> s.hosts, ages |-> s.ages, i |-> s.i] /\ IsList(s.hosts, s.ages)
  /\ s.i \in 1 .. Len(s.hosts) + 1 /\ Len(s.hosts) - s.i + 1 = Len(h) - n
  /\ Len(s.hosts) <= Len(h)
  /\ \A k \in 1 .. Len(s.hosts) : \E j \in 1 .. Len(h) : IsPair(s, k, h, a, j)
  /\ \A j \in 1 .. Len(h) :
       a[j] <= DropPings => \E k \in 1 .. Len(s.hosts) : IsPair(s, k, h, a, j)
  /\ \A k \in 1 .. s.i - 1 : s.ages[k] <= DropPings

\* One round: the host at i is passed, or dropped.
LEMMA DropNext ==
  ASSUME NEW h, NEW a, Len(h) \in Nat, NEW n \in Nat, n < Len(h),
         NEW s, Dropped(s, h, a, n), DropPings \in Nat
  PROVE  Dropped(List!DropRound(s), h, a, n + 1)
<1>1. /\ s.hosts \in Seq(Hosts) /\ s.ages \in Seq(Nat) /\ Len(s.hosts) = Len(s.ages)
      /\ \A i, j \in 1 .. Len(s.hosts) : s.hosts[i].id = s.hosts[j].id => i = j
  BY DEF Dropped, IsList
<1>2. PICK m \in Nat, i \in Nat, c \in Nat :
        m = Len(s.hosts) /\ i = s.i /\ c = Len(h)
  <2>1. Len(s.hosts) \in Nat /\ s.i \in 1 .. Len(s.hosts) + 1
    BY <1>1 DEF Dropped
  <2>2. s.i \in Nat
    BY <2>1
  <2> QED
    BY <2>1, <2>2
<1>3. i \in 1 .. m /\ ~(i > m)
  <2>1. m - i + 1 = c - n /\ n < c /\ i \in 1 .. m + 1
    BY <1>2 DEF Dropped
  <2> QED
    BY <2>1
<1>4. CASE s.ages[i] <= DropPings
  <2>1. List!DropRound(s) = [s EXCEPT !.i = @ + 1]
    BY <1>2, <1>3, <1>4 DEF List!DropRound
  <2>2. PICK t : t = List!DropRound(s)
    OBVIOUS
  <2>3. t.hosts = s.hosts /\ t.ages = s.ages /\ t.i = i + 1
        /\ t = [hosts |-> t.hosts, ages |-> t.ages, i |-> t.i]
    BY <1>2, <2>1, <2>2 DEF Dropped
  <2>4. t.i \in 1 .. m + 1 /\ m - t.i + 1 = c - (n + 1)
    <3>1. m - i + 1 = c - n
      BY <1>2 DEF Dropped
    <3> QED
      BY <1>3, <2>3, <3>1
  <2>5. ASSUME NEW k \in 1 .. t.i - 1 PROVE t.ages[k] <= DropPings
    <3>1. k \in 1 .. i - 1 \/ k = i
      BY <1>3, <2>3
    <3> QED
      BY <1>2, <1>4, <2>3, <3>1 DEF Dropped
  <2>6. Dropped(t, h, a, n + 1)
    BY <1>2, <2>3, <2>4, <2>5 DEF Dropped, IsPair
  <2> QED
    BY <2>2, <2>6
<1>5. CASE ~(s.ages[i] <= DropPings)
  <2>1. List!DropRound(s) = [hosts |-> List!RemoveAt(s.hosts, i),
                             ages |-> List!RemoveAt(s.ages, i), i |-> i]
    BY <1>2, <1>3, <1>5 DEF List!DropRound, List!NextAfterDrop
  <2>2. PICK t : t = List!DropRound(s)
    OBVIOUS
  <2>3. t.hosts = List!RemoveAt(s.hosts, i) /\ t.ages = List!RemoveAt(s.ages, i) /\ t.i = i
        /\ t = [hosts |-> t.hosts, ages |-> t.ages, i |-> t.i]
    BY <2>1, <2>2
  <2>4. /\ t.hosts \in Seq(Hosts) /\ Len(t.hosts) = m - 1
        /\ \A k \in 1 .. m - 1 : t.hosts[k] = IF k < i THEN s.hosts[k] ELSE s.hosts[k + 1]
    <3>1. PICK q : q = s.hosts
      OBVIOUS
    <3>2. q \in Seq(Hosts) /\ Len(q) = m /\ i \in 1 .. Len(q)
      BY <1>1, <1>2, <1>3, <3>1
    <3>3. PICK r : r = List!RemoveAt(q, i)
      OBVIOUS
    <3>4. Removed(Hosts, q, i, r)
      BY <3>2, <3>3, RemovedIs
    <3> QED
      BY <2>3, <3>1, <3>2, <3>3, <3>4 DEF Removed
  <2>5. /\ t.ages \in Seq(Nat) /\ Len(t.ages) = m - 1
        /\ \A k \in 1 .. m - 1 : t.ages[k] = IF k < i THEN s.ages[k] ELSE s.ages[k + 1]
    <3>1. PICK q : q = s.ages
      OBVIOUS
    <3>2. q \in Seq(Nat) /\ Len(q) = m /\ i \in 1 .. Len(q)
      BY <1>1, <1>2, <1>3, <3>1
    <3>3. PICK r : r = List!RemoveAt(q, i)
      OBVIOUS
    <3>4. Removed(Nat, q, i, r)
      BY <3>2, <3>3, RemovedIs
    <3> QED
      BY <2>3, <3>1, <3>2, <3>3, <3>4 DEF Removed
  <2>6. \A k \in 1 .. m - 1 : \E l \in 1 .. m :
          /\ l = (IF k < i THEN k ELSE k + 1) /\ l # i
          /\ t.hosts[k] = s.hosts[l] /\ t.ages[k] = s.ages[l]
    <3> SUFFICES ASSUME NEW k \in 1 .. m - 1
                 PROVE  \E l \in 1 .. m :
                          /\ l = (IF k < i THEN k ELSE k + 1) /\ l # i
                          /\ t.hosts[k] = s.hosts[l] /\ t.ages[k] = s.ages[l]
      OBVIOUS
    <3>1. PICK l \in 1 .. m : l = (IF k < i THEN k ELSE k + 1) /\ l # i
      BY <1>3
    <3>2. t.hosts[k] = s.hosts[l] /\ t.ages[k] = s.ages[l]
      BY <2>4, <2>5, <3>1
    <3> QED
      BY <3>1, <3>2
  <2>7. IsList(t.hosts, t.ages)
    <3>1. ASSUME NEW k \in 1 .. m - 1, NEW q \in 1 .. m - 1, t.hosts[k].id = t.hosts[q].id
          PROVE  k = q
      <4>1. PICK l \in 1 .. m : l = (IF k < i THEN k ELSE k + 1) /\ t.hosts[k] = s.hosts[l]
        BY <2>6
      <4>2. PICK p \in 1 .. m : p = (IF q < i THEN q ELSE q + 1) /\ t.hosts[q] = s.hosts[p]
        BY <2>6
      <4>3. l = p
        BY <1>1, <1>2, <3>1, <4>1, <4>2
      <4> QED
        BY <1>3, <4>1, <4>2, <4>3
    <3> QED
      BY <2>4, <2>5, <3>1 DEF IsList
  <2>8. t.i \in 1 .. (m - 1) + 1 /\ (m - 1) - t.i + 1 = c - (n + 1) /\ m - 1 <= c
    <3>1. m - i + 1 = c - n /\ m <= c
      BY <1>2 DEF Dropped
    <3> QED
      BY <1>3, <2>3, <3>1
  <2>9. ASSUME NEW k \in 1 .. m - 1 PROVE \E j \in 1 .. c : IsPair(t, k, h, a, j)
    <3>1. PICK l \in 1 .. m : t.hosts[k] = s.hosts[l] /\ t.ages[k] = s.ages[l]
      BY <2>6
    <3>2. PICK j \in 1 .. c : IsPair(s, l, h, a, j)
      BY <1>2 DEF Dropped
    <3> QED
      BY <3>1, <3>2 DEF IsPair
  <2>10. ASSUME NEW j \in 1 .. c, a[j] <= DropPings
         PROVE  \E k \in 1 .. m - 1 : IsPair(t, k, h, a, j)
    <3>1. PICK l \in 1 .. m : IsPair(s, l, h, a, j)
      BY <1>2, <2>10 DEF Dropped
    <3>2. l # i
      BY <1>5, <2>10, <3>1 DEF IsPair
    <3>3. PICK k \in 1 .. m - 1 : l = (IF k < i THEN k ELSE k + 1)
      <4>1. l < i => l \in 1 .. m - 1
        BY <1>3
      <4>2. ~(l < i) => l - 1 \in 1 .. m - 1 /\ ~(l - 1 < i) /\ l = (l - 1) + 1
        BY <1>3, <3>2
      <4> QED
        BY <4>1, <4>2
    <3>4. t.hosts[k] = s.hosts[l] /\ t.ages[k] = s.ages[l]
      BY <2>4, <2>5, <3>3
    <3> QED
      BY <3>1, <3>4 DEF IsPair
  <2>11. ASSUME NEW k \in 1 .. t.i - 1 PROVE t.ages[k] <= DropPings
    <3>1. k \in 1 .. i - 1 /\ k \in 1 .. m - 1 /\ k < i
      BY <1>3, <2>3
    <3>2. t.ages[k] = s.ages[k]
      BY <2>5, <3>1
    <3> QED
      BY <1>2, <3>1, <3>2 DEF Dropped
  <2>12. Dropped(t, h, a, n + 1)
    BY <1>2, <2>3, <2>4, <2>7, <2>8, <2>9, <2>10, <2>11 DEF Dropped
  <2> QED
    BY <2>2, <2>12
<1> QED
  BY <1>4, <1>5

\* The rounds of the loop, up to the n-th.
AllIn(h, a) == [hosts |-> h, ages |-> a, i |-> 1]
IsDrops(f, h, a, n) ==
  f = [k \in 0 .. n |-> IF k = 0 THEN AllIn(h, a) ELSE List!DropRound(f[k - 1])]

\* Their results exist, however many there are.
LEMMA DropsExist ==
  ASSUME NEW h, NEW a
  PROVE  \A n \in Nat : \E f : IsDrops(f, h, a, n)
<1> DEFINE S == {n \in Nat : \E f : IsDrops(f, h, a, n)}
<1>1. 0 \in S
  <2> DEFINE g == [k \in 0 .. 0 |-> AllIn(h, a)]
  <2>1. g = [k \in 0 .. 0 |-> IF k = 0 THEN AllIn(h, a) ELSE List!DropRound(g[k - 1])]
    OBVIOUS
  <2>2. IsDrops(g, h, a, 0)
    BY <2>1 DEF IsDrops
  <2> QED
    BY <2>2
<1>2. ASSUME NEW n \in S PROVE n + 1 \in S
  <2>1. PICK f : IsDrops(f, h, a, n)
    OBVIOUS
  <2> DEFINE g == [k \in 0 .. n + 1 |-> IF k = n + 1 THEN List!DropRound(f[n]) ELSE f[k]]
  <2>2. DOMAIN f = 0 .. n /\ \A k \in 0 .. n :
          f[k] = IF k = 0 THEN AllIn(h, a) ELSE List!DropRound(f[k - 1])
    BY <2>1 DEF IsDrops
  <2>3. g[n + 1] = List!DropRound(f[n]) /\ \A k \in 0 .. n : g[k] = f[k]
    OBVIOUS
  <2>4. \A k \in 0 .. n + 1 :
          g[k] = IF k = 0 THEN AllIn(h, a) ELSE List!DropRound(g[k - 1])
    <3> SUFFICES ASSUME NEW k \in 0 .. n + 1
                 PROVE  g[k] = IF k = 0 THEN AllIn(h, a) ELSE List!DropRound(g[k - 1])
      OBVIOUS
    <3> HIDE DEF g
    <3>1. CASE k = n + 1
      <4>1. k # 0 /\ k - 1 = n /\ n \in 0 .. n
        BY <3>1
      <4> QED
        BY <2>3, <3>1, <4>1
    <3>2. CASE k # n + 1
      <4>1. k \in 0 .. n /\ (k # 0 => k - 1 \in 0 .. n)
        BY <3>2
      <4> QED
        BY <2>2, <2>3, <4>1
    <3> QED
      BY <3>1, <3>2
  <2>5. g = [k \in 0 .. n + 1 |-> g[k]]
    OBVIOUS
  <2> HIDE DEF g
  <2>6. IsDrops(g, h, a, n + 1)
    BY <2>4, <2>5, Zenon DEF IsDrops
  <2> QED
    BY <2>6
<1> HIDE DEF S
<1>3. S \in SUBSET Nat
  BY DEF S
<1>4. S = Nat
  BY <1>1, <1>2, <1>3, Induction
<1> QED
  BY <1>4 DEF S

\* After the loop the hosts that are young enough are left, and they only.
Kept(new, h, a) ==
  /\ IsList(new.hosts, new.ages) /\ Len(new.hosts) <= Len(h)
  /\ \A k \in 1 .. Len(new.hosts) :
       new.ages[k] <= DropPings /\ \E j \in 1 .. Len(h) : IsPair(new, k, h, a, j)
  /\ \A j \in 1 .. Len(h) :
       a[j] <= DropPings => \E k \in 1 .. Len(new.hosts) : IsPair(new, k, h, a, j)

\* The loop of discovery_service_drop_old_hosts drops the old hosts and no other.
LEMMA DropKeeps ==
  ASSUME NEW h, NEW a, IsList(h, a)
  PROVE  Kept(List!DropOld(h, a), h, a)
<1>1. PICK c \in Nat : c = Len(h)
  BY DEF IsList
<1>2. DropPings \in Nat
  BY SideAssumption DEF List!DiscoveryAssumption
<1>3. PICK f : IsDrops(f, h, a, c) /\ List!DropOld(h, a) = f[c]
  <2>1. List!DropOld(h, a) = (CHOOSE f : IsDrops(f, h, a, c))[c]
    BY <1>1 DEF List!DropOld, IsDrops, AllIn
  <2> QED
    BY <2>1, DropsExist
<1>4. \A k \in 0 .. c : f[k] = IF k = 0 THEN AllIn(h, a) ELSE List!DropRound(f[k - 1])
  BY <1>3 DEF IsDrops
<1> DEFINE S == {n \in Nat : n <= c => Dropped(f[n], h, a, n)}
<1>5. 0 \in S
  <2>1. f[0] = AllIn(h, a)
    BY <1>4
  <2>2. PICK s : s = AllIn(h, a)
    OBVIOUS
  <2>3. /\ s.hosts = h /\ s.ages = a /\ s.i = 1
        /\ s = [hosts |-> s.hosts, ages |-> s.ages, i |-> s.i]
    BY <2>2 DEF AllIn
  <2>4. s.i \in 1 .. Len(h) + 1 /\ Len(h) - s.i + 1 = Len(h) - 0 /\ \A k : k \notin 1 .. s.i - 1
    BY <1>1, <2>3
  <2>5. Dropped(s, h, a, 0)
    BY <2>3, <2>4 DEF Dropped, IsPair
  <2> QED
    BY <2>1, <2>2, <2>5
<1>6. ASSUME NEW n \in S PROVE n + 1 \in S
  <2> SUFFICES ASSUME n + 1 <= c PROVE Dropped(f[n + 1], h, a, n + 1)
    OBVIOUS
  <2>1. n \in Nat /\ n < c /\ n <= c
    OBVIOUS
  <2>2. Dropped(f[n], h, a, n)
    BY <2>1
  <2>3. f[n + 1] = List!DropRound(f[n])
    <3>1. n + 1 \in 0 .. c /\ n + 1 # 0 /\ (n + 1) - 1 = n
      BY <2>1
    <3> QED
      BY <1>4, <3>1
  <2> HIDE DEF S
  <2> QED
    BY <1>1, <1>2, <2>1, <2>2, <2>3, DropNext
<1>7. S = Nat
  <2>1. S \in SUBSET Nat
    OBVIOUS
  <2> HIDE DEF S
  <2> QED
    BY <1>5, <1>6, <2>1, Induction
<1>8. Dropped(f[c], h, a, c)
  <2>1. c \in S
    BY <1>7
  <2> QED
    BY <2>1
<1>9. PICK s : s = f[c]
  OBVIOUS
<1>10. Dropped(s, h, a, c)
  BY <1>8, <1>9
<1>11. /\ Len(s.hosts) \in Nat /\ s.i - 1 = Len(s.hosts) /\ Len(s.hosts) <= c
  <2>1. PICK m \in Nat : m = Len(s.hosts)
    BY <1>10 DEF Dropped, IsList
  <2>2. s.i \in 1 .. m + 1 /\ m - s.i + 1 = c - c /\ m <= c
    BY <1>1, <1>10, <2>1 DEF Dropped
  <2>3. s.i - 1 = m
    BY <1>1, <2>1, <2>2
  <2> QED
    BY <2>1, <2>2, <2>3
<1> QED
  BY <1>1, <1>3, <1>9, <1>10, <1>11 DEF Dropped, Kept

\* A console is in the list exactly if it was heard of late enough, with the
\* pings since then as its age.
Heard(h, a, s) ==
  /\ s \in [List!Consoles -> Nat]
  /\ \A i \in 1 .. Len(h) : s[h[i].id] = a[i] /\ a[i] <= DropPings
  /\ \A c \in List!Consoles : s[c] <= DropPings => \E i \in 1 .. Len(h) : h[i].id = c
Entries(h, a, s) == IsList(h, a) /\ Len(h) <= HostsMax /\ Heard(h, a, s)

\* The constants, as the proofs need them.
LEMMA ListConstants ==
  HostsMax \in Nat \ {0} /\ DropPings \in Nat /\ MaxNet \in Nat \ {0} /\ MaxQueue \in Nat \ {0}
BY SideAssumption DEF List!DiscoveryAssumption

\* The identifier of a host in the list is a console's.
LEMMA IdOf ==
  ASSUME NEW h \in Seq(Hosts), NEW i \in 1 .. Len(h)
  PROVE  h[i] \in Hosts /\ h[i].id \in List!Consoles
<1>1. h[i] \in Hosts
  OBVIOUS
<1> QED
  BY <1>1 DEF List!Consoles

\* An empty list, and nothing heard.
LEMMA NoEntries == Entries(<<>>, <<>>, List!Unheard)
<1>1. List!Unheard \in [List!Consoles -> Nat] /\ \A c \in List!Consoles : ~(List!Unheard[c] <= DropPings)
  BY ListConstants DEF List!Unheard
<1>2. IsList(<<>>, <<>>)
  <2>1. <<>> \in Seq(Hosts) /\ <<>> \in Seq(Nat) /\ Len(<<>>) = 0
    OBVIOUS
  <2> QED
    BY <2>1 DEF IsList
<1>3. Len(<<>>) = 0 /\ Len(<<>>) <= HostsMax
  BY ListConstants
<1> QED
  BY <1>1, <1>2, <1>3 DEF Entries, Heard

\* A ping makes every host older and drops the old ones.
LEMMA PingedEntries ==
  ASSUME NEW h, NEW a, NEW s, Entries(h, a, s),
         NEW old, old = [i \in DOMAIN a |-> a[i] + 1],
         NEW t, t = [c \in List!Consoles |-> IF s[c] > DropPings THEN s[c] ELSE s[c] + 1],
         NEW new, new = List!DropOld(h, old)
  PROVE  Entries(new.hosts, new.ages, t)
<1>1. /\ h \in Seq(Hosts) /\ a \in Seq(Nat) /\ Len(h) = Len(a)
      /\ \A i, j \in 1 .. Len(h) : h[i].id = h[j].id => i = j
  BY DEF Entries, IsList
<1>2. PICK n \in Nat : n = Len(h)
  BY <1>1
<1>3. /\ s \in [List!Consoles -> Nat]
      /\ \A i \in 1 .. n : s[h[i].id] = a[i] /\ a[i] <= DropPings
      /\ \A c \in List!Consoles : s[c] <= DropPings => \E i \in 1 .. n : h[i].id = c
  BY <1>2 DEF Entries, Heard
<1>4. old \in Seq(Nat) /\ Len(old) = n /\ \A i \in 1 .. n : old[i] = a[i] + 1 /\ a[i] \in Nat
  BY <1>1, <1>2
<1>5. IsList(h, old)
  BY <1>1, <1>2, <1>4 DEF IsList
<1>6. Kept(new, h, old)
  BY <1>5, DropKeeps
<1>7. PICK m \in Nat : m = Len(new.hosts)
  BY <1>6 DEF Kept, IsList
<1>8. /\ IsList(new.hosts, new.ages) /\ m <= n
      /\ \A k \in 1 .. m : new.ages[k] <= DropPings /\ \E j \in 1 .. n : IsPair(new, k, h, old, j)
      /\ \A j \in 1 .. n : old[j] <= DropPings => \E k \in 1 .. m : IsPair(new, k, h, old, j)
  BY <1>2, <1>6, <1>7 DEF Kept
<1>9. t \in [List!Consoles -> Nat]
  BY <1>3
<1>10. \A j \in 1 .. n : t[h[j].id] = old[j]
  <2> SUFFICES ASSUME NEW j \in 1 .. n PROVE t[h[j].id] = old[j]
    OBVIOUS
  <2>1. h[j].id \in List!Consoles
    BY <1>1, <1>2, IdOf
  <2>2. t[h[j].id] = s[h[j].id] + 1
    <3>1. s[h[j].id] \in Nat /\ s[h[j].id] <= DropPings
      BY <1>3, <2>1
    <3> QED
      BY <2>1, <3>1, ListConstants
  <2> QED
    BY <1>3, <1>4, <2>2
<1>11. ASSUME NEW k \in 1 .. m PROVE t[new.hosts[k].id] = new.ages[k] /\ new.ages[k] <= DropPings
  <2>1. PICK j \in 1 .. n : new.hosts[k] = h[j] /\ new.ages[k] = old[j]
    BY <1>8 DEF IsPair
  <2> QED
    BY <1>8, <1>10, <2>1
<1>12. ASSUME NEW c \in List!Consoles, t[c] <= DropPings PROVE \E k \in 1 .. m : new.hosts[k].id = c
  <2>1. s[c] <= DropPings
    BY <1>3, <1>12, ListConstants
  <2>2. PICK j \in 1 .. n : h[j].id = c
    BY <1>3, <2>1
  <2>3. old[j] <= DropPings
    BY <1>10, <1>12, <2>2
  <2>4. PICK k \in 1 .. m : new.hosts[k] = h[j]
    BY <1>8, <2>3 DEF IsPair
  <2> QED
    BY <2>2, <2>4
<1>13. m <= HostsMax
  <2>1. n <= HostsMax
    BY <1>2 DEF Entries
  <2> QED
    BY <1>8, <2>1, ListConstants
<1> QED
  BY <1>7, <1>8, <1>9, <1>11, <1>12, <1>13 DEF Entries, Heard

\* A new host is put at the end, unless the list is full.
LEMMA NewEntry ==
  ASSUME NEW h, NEW a, NEW s, Entries(h, a, s), NEW x \in Hosts,
         \A i \in 1 .. Len(h) : h[i].id # x.id, Len(h) # HostsMax
  PROVE  Entries(Append(h, x), Append(a, 0), [s EXCEPT ![x.id] = 0])
<1>1. /\ h \in Seq(Hosts) /\ a \in Seq(Nat) /\ Len(h) = Len(a)
      /\ \A i, j \in 1 .. Len(h) : h[i].id = h[j].id => i = j
  BY DEF Entries, IsList
<1>2. PICK n \in Nat : n = Len(h)
  BY <1>1
<1>3. /\ s \in [List!Consoles -> Nat]
      /\ \A i \in 1 .. n : s[h[i].id] = a[i] /\ a[i] <= DropPings
      /\ \A c \in List!Consoles : s[c] <= DropPings => \E i \in 1 .. n : h[i].id = c
  BY <1>2 DEF Entries, Heard
<1>4. x.id \in List!Consoles
  BY DEF List!Consoles
<1>5. PICK g : g = Append(h, x)
  OBVIOUS
<1>6. PICK b : b = Append(a, 0)
  OBVIOUS
<1>7. PICK t : t = [s EXCEPT ![x.id] = 0]
  OBVIOUS
<1>8. /\ g \in Seq(Hosts) /\ Len(g) = n + 1 /\ g[n + 1] = x
      /\ \A i \in 1 .. n : g[i] = h[i]
  BY <1>1, <1>2, <1>5
<1>9. /\ b \in Seq(Nat) /\ Len(b) = n + 1 /\ b[n + 1] = 0
      /\ \A i \in 1 .. n : b[i] = a[i]
  BY <1>1, <1>2, <1>6
<1>10. /\ t \in [List!Consoles -> Nat] /\ t[x.id] = 0
       /\ \A c \in List!Consoles : c # x.id => t[c] = s[c]
  BY <1>3, <1>4, <1>7
<1>11. \A i \in 1 .. n + 1 : i = n + 1 \/ i \in 1 .. n
  OBVIOUS
<1>12. \A i \in 1 .. n : h[i].id # x.id /\ h[i].id \in List!Consoles
  BY <1>1, <1>2, IdOf
<1>13. \A i, j \in 1 .. n + 1 : g[i].id = g[j].id => i = j
  BY <1>1, <1>2, <1>8, <1>11, <1>12
<1>14. \A i \in 1 .. n + 1 : t[g[i].id] = b[i] /\ b[i] <= DropPings
  <2> SUFFICES ASSUME NEW i \in 1 .. n + 1 PROVE t[g[i].id] = b[i] /\ b[i] <= DropPings
    OBVIOUS
  <2>1. CASE i = n + 1
    <3>1. 0 <= DropPings
      BY ListConstants
    <3> QED
      BY <1>8, <1>9, <1>10, <2>1, <3>1
  <2>2. CASE i \in 1 .. n
    <3>1. t[g[i].id] = s[h[i].id]
      BY <1>8, <1>10, <1>12, <2>2
    <3> QED
      BY <1>3, <1>9, <2>2, <3>1
  <2> QED
    BY <1>11, <2>1, <2>2
<1>15. \A c \in List!Consoles : t[c] <= DropPings => \E i \in 1 .. n + 1 : g[i].id = c
  <2> SUFFICES ASSUME NEW c \in List!Consoles, t[c] <= DropPings
               PROVE  \E i \in 1 .. n + 1 : g[i].id = c
    OBVIOUS
  <2>1. CASE c = x.id
    <3>1. n + 1 \in 1 .. n + 1
      OBVIOUS
    <3> QED
      BY <1>8, <2>1, <3>1
  <2>2. CASE c # x.id
    <3>1. PICK i \in 1 .. n : h[i].id = c
      BY <1>3, <1>10, <2>2
    <3>2. i \in 1 .. n + 1
      OBVIOUS
    <3> QED
      BY <1>8, <3>1, <3>2
  <2> QED
    BY <2>1, <2>2
<1>16. n + 1 <= HostsMax
  <2>1. n <= HostsMax /\ n # HostsMax
    BY <1>2 DEF Entries
  <2> QED
    BY <2>1, ListConstants
<1>17. Entries(g, b, t)
  BY <1>8, <1>9, <1>10, <1>13, <1>14, <1>15, <1>16 DEF Entries, Heard, IsList
<1> QED
  BY <1>5, <1>6, <1>7, <1>17

\* A host that is known keeps its place.
LEMMA KnownEntry ==
  ASSUME NEW h, NEW a, NEW s, Entries(h, a, s), NEW x \in Hosts,
         NEW P, P = {i \in DOMAIN h : h[i].id = x.id}, P # {}
  PROVE  Entries([i \in DOMAIN h |-> IF i \in P THEN x ELSE h[i]],
                 [i \in DOMAIN a |-> IF i \in P THEN 0 ELSE a[i]],
                 [s EXCEPT ![x.id] = 0])
<1>1. /\ h \in Seq(Hosts) /\ a \in Seq(Nat) /\ Len(h) = Len(a)
      /\ \A i, j \in 1 .. Len(h) : h[i].id = h[j].id => i = j
  BY DEF Entries, IsList
<1>2. PICK n \in Nat : n = Len(h)
  BY <1>1
<1>3. /\ s \in [List!Consoles -> Nat]
      /\ \A i \in 1 .. n : s[h[i].id] = a[i] /\ a[i] <= DropPings
      /\ \A c \in List!Consoles : s[c] <= DropPings => \E i \in 1 .. n : h[i].id = c
  BY <1>2 DEF Entries, Heard
<1>4. x.id \in List!Consoles
  BY DEF List!Consoles
<1>5. PICK g : g = [i \in DOMAIN h |-> IF i \in P THEN x ELSE h[i]]
  OBVIOUS
<1>6. PICK b : b = [i \in DOMAIN a |-> IF i \in P THEN 0 ELSE a[i]]
  OBVIOUS
<1>7. PICK t : t = [s EXCEPT ![x.id] = 0]
  OBVIOUS
<1>8. DOMAIN h = 1 .. n /\ DOMAIN a = 1 .. n
      /\ \A i \in 1 .. n : h[i] \in Hosts /\ a[i] \in Nat
  BY <1>1, <1>2
<1>9. \A i \in 1 .. n : i \in P <=> h[i].id = x.id
  BY <1>8
<1>10. /\ g \in Seq(Hosts) /\ Len(g) = n
       /\ \A i \in 1 .. n : g[i].id = h[i].id
  <2>1. \A i \in 1 .. n : g[i] = (IF i \in P THEN x ELSE h[i]) /\ g[i] \in Hosts
    BY <1>5, <1>8
  <2>2. g = [i \in 1 .. n |-> g[i]]
    BY <1>5, <1>8
  <2>3. g \in Seq(Hosts) /\ Len(g) = n
    BY <1>2, <2>1, <2>2
  <2> QED
    BY <1>9, <2>1, <2>3
<1>11. /\ b \in Seq(Nat) /\ Len(b) = n
       /\ \A i \in 1 .. n : b[i] = IF h[i].id = x.id THEN 0 ELSE a[i]
  <2>1. \A i \in 1 .. n : b[i] = (IF i \in P THEN 0 ELSE a[i]) /\ b[i] \in Nat
    BY <1>6, <1>8
  <2>2. b = [i \in 1 .. n |-> b[i]]
    BY <1>6, <1>8
  <2>3. b \in Seq(Nat) /\ Len(b) = n
    BY <1>2, <2>1, <2>2
  <2> QED
    BY <1>9, <2>1, <2>3
<1>12. /\ t \in [List!Consoles -> Nat] /\ t[x.id] = 0
       /\ \A c \in List!Consoles : c # x.id => t[c] = s[c]
  BY <1>3, <1>4, <1>7
<1>13. \A i \in 1 .. n : t[g[i].id] = b[i] /\ b[i] <= DropPings
  <2> SUFFICES ASSUME NEW i \in 1 .. n PROVE t[g[i].id] = b[i] /\ b[i] <= DropPings
    OBVIOUS
  <2>1. h[i].id \in List!Consoles
    BY <1>1, <1>2, IdOf
  <2>2. CASE h[i].id = x.id
    <3>1. b[i] = 0 /\ t[g[i].id] = 0
      BY <1>10, <1>11, <1>12, <2>2
    <3> QED
      BY <3>1, ListConstants
  <2>3. CASE h[i].id # x.id
    <3>1. b[i] = a[i] /\ t[g[i].id] = s[h[i].id]
      BY <1>10, <1>11, <1>12, <2>1, <2>3
    <3> QED
      BY <1>3, <3>1
  <2> QED
    BY <2>2, <2>3
<1>14. \A c \in List!Consoles : t[c] <= DropPings => \E i \in 1 .. n : g[i].id = c
  <2> SUFFICES ASSUME NEW c \in List!Consoles, t[c] <= DropPings
               PROVE  \E i \in 1 .. n : h[i].id = c
    BY <1>10
  <2>1. CASE c = x.id
    BY <1>8, <2>1
  <2>2. CASE c # x.id
    BY <1>3, <1>12, <2>2
  <2> QED
    BY <2>1, <2>2
<1>15. n <= HostsMax
  BY <1>2 DEF Entries
<1>16. Entries(g, b, t)
  <2>1. IsList(g, b)
    BY <1>1, <1>2, <1>10, <1>11 DEF IsList
  <2>2. Heard(g, b, t)
    BY <1>10, <1>12, <1>13, <1>14 DEF Heard
  <2> QED
    BY <1>10, <1>15, <2>1, <2>2 DEF Entries
<1> QED
  BY <1>5, <1>6, <1>7, <1>16

\* What the GUI shows once the queued calls are done is what was reported last.
FinallyShown(q, x) == IF q = <<>> THEN x ELSE q[Len(q)]
ViewsAre ==
  /\ calls \in Seq(Seq(Hosts)) /\ Len(calls) <= MaxQueue
  /\ stray \in BOOLEAN /\ (~stray => FinallyShown(calls, shown) = hosts)

\* A service that is told to stop is waited for; there is no list without one.
Controls ==
  /\ service \in {"none", "waits", "stops", "ended"} /\ main \in {"idle", "fini"}
  /\ stop \in BOOLEAN /\ receiver \in BOOLEAN
  /\ service # "none" /\ stop => main = "fini"
  /\ receiver => service \in {"waits", "stops"}
  /\ main = "idle" /\ service = "none" => hosts = <<>>

Known == net \subseteq Hosts /\ Entries(hosts, ages, silent) /\ reported = hosts
ListInv == Known /\ ViewsAre /\ Controls

\* A queued list is the last one.
LEMMA LastAppended ==
  ASSUME NEW E, NEW q \in Seq(E), NEW l \in E, NEW x
  PROVE  /\ Append(q, l) \in Seq(E) /\ Len(Append(q, l)) = Len(q) + 1
         /\ FinallyShown(Append(q, l), x) = l
<1>1. PICK r : r = Append(q, l)
  OBVIOUS
<1>2. r \in Seq(E) /\ Len(r) = Len(q) + 1 /\ r[Len(q) + 1] = l /\ Len(q) \in Nat
  BY <1>1
<1>3. r # <<>>
  <2>1. Len(r) # 0
    BY <1>2
  <2> QED
    BY <2>1
<1> QED
  BY <1>1, <1>2, <1>3 DEF FinallyShown

\* Showing the first of the queued lists leaves the last one.
LEMMA LastShown ==
  ASSUME NEW E, NEW q \in Seq(E), q # <<>>, NEW x
  PROVE  /\ Tail(q) \in Seq(E) /\ Len(Tail(q)) <= Len(q)
         /\ FinallyShown(Tail(q), Head(q)) = FinallyShown(q, x)
<1>1. PICK n \in Nat : n = Len(q) /\ n # 0
  OBVIOUS
<1>2. PICK r : r = Tail(q)
  OBVIOUS
<1>3. r \in Seq(E) /\ Len(r) = n - 1 /\ \A i \in 1 .. n - 1 : r[i] = q[i + 1]
  BY <1>1, <1>2
<1>4. FinallyShown(q, x) = q[n]
  BY <1>1 DEF FinallyShown
<1>5. CASE n = 1
  <2>1. r = <<>>
    BY <1>3, <1>5
  <2>2. FinallyShown(r, Head(q)) = q[1]
    BY <2>1 DEF FinallyShown
  <2> QED
    BY <1>1, <1>2, <1>3, <1>4, <1>5, <2>2
<1>6. CASE n # 1
  <2>1. r # <<>> /\ n - 1 \in 1 .. n - 1
    <3>1. Len(r) # 0
      BY <1>1, <1>3, <1>6
    <3> QED
      BY <1>1, <1>6, <3>1
  <2>2. FinallyShown(r, Head(q)) = r[n - 1]
    BY <1>3, <2>1 DEF FinallyShown
  <2>3. r[n - 1] = q[n]
    <3>1. (n - 1) + 1 = n
      BY <1>1
    <3> QED
      BY <1>3, <2>1, <3>1
  <2>4. Len(r) <= Len(q)
    BY <1>1, <1>3
  <2> QED
    BY <1>2, <1>3, <1>4, <2>2, <2>3, <2>4
<1> QED
  BY <1>5, <1>6

\* Reporting the list that the service has from now on.
LEMMA ReportKeeps ==
  ASSUME ViewsAre, NEW list \in Seq(Hosts), List!Report(list), UNCHANGED stray, hosts' = list
  PROVE  ViewsAre' /\ reported' = hosts'
<1>1. Len(calls) < MaxQueue /\ calls' = Append(calls, list) /\ reported' = list /\ shown' = shown
  BY DEF List!Report
<1>2. calls \in Seq(Seq(Hosts)) /\ stray \in BOOLEAN
  BY DEF ViewsAre
<1>3. PICK q : q = calls
  OBVIOUS
<1>4. PICK x : x = shown
  OBVIOUS
<1>5. Append(q, list) \in Seq(Seq(Hosts)) /\ Len(Append(q, list)) = Len(q) + 1
      /\ FinallyShown(Append(q, list), x) = list
  <2>1. q \in Seq(Seq(Hosts))
    BY <1>2, <1>3
  <2> QED
    BY <2>1, LastAppended
<1>6. Len(q) + 1 <= MaxQueue
  <2>1. Len(q) \in Nat /\ Len(q) < MaxQueue
    BY <1>1, <1>2, <1>3
  <2> QED
    BY <2>1, ListConstants
<1> QED
  BY <1>1, <1>2, <1>3, <1>4, <1>5, <1>6 DEF ViewsAre

\* A ping makes the hosts older, drops the old ones and reports the list that is left.
LEMMA PingKeeps == ListInv /\ List!Ping => ListInv'
<1> SUFFICES ASSUME ListInv, List!Ping PROVE ListInv'
  OBVIOUS
<1>1. PICK old : old = [i \in DOMAIN ages |-> ages[i] + 1]
  OBVIOUS
<1>2. PICK new : new = List!DropOld(hosts, old)
  OBVIOUS
<1>3. /\ service = "waits" /\ ~stop
      /\ hosts' = new.hosts /\ ages' = new.ages
      /\ IF new.hosts # hosts THEN List!Report(new.hosts) ELSE UNCHANGED <<calls, shown, reported>>
      /\ net' \in SUBSET Hosts
      /\ silent' = [c \in List!Consoles |-> IF silent[c] > DropPings THEN silent[c] ELSE silent[c] + 1]
      /\ UNCHANGED <<stop, service, receiver, main, stray>>
  BY <1>1, <1>2 DEF List!Ping, List!views
<1>4. PICK h : h = hosts
  OBVIOUS
<1>5. PICK a : a = ages
  OBVIOUS
<1>6. PICK s : s = silent
  OBVIOUS
<1>7. PICK t : t = silent'
  OBVIOUS
<1>8. Entries(new.hosts, new.ages, t)
  <2>1. Entries(h, a, s)
    BY <1>4, <1>5, <1>6 DEF ListInv, Known
  <2>2. old = [i \in DOMAIN a |-> a[i] + 1]
    BY <1>1, <1>5
  <2>3. t = [c \in List!Consoles |-> IF s[c] > DropPings THEN s[c] ELSE s[c] + 1]
    BY <1>3, <1>6, <1>7
  <2>4. new = List!DropOld(h, old)
    BY <1>2, <1>4
  <2> QED
    BY <2>1, <2>2, <2>3, <2>4, PingedEntries
<1>9. Entries(hosts', ages', silent')
  BY <1>3, <1>7, <1>8
<1>10. ViewsAre' /\ reported' = hosts'
  <2>1. CASE new.hosts # hosts
    <3>1. PICK list : list = new.hosts
      OBVIOUS
    <3>2. list \in Seq(Hosts)
      BY <1>8, <3>1 DEF Entries, IsList
    <3>3. List!Report(list) /\ UNCHANGED stray /\ hosts' = list /\ ViewsAre
      BY <1>3, <2>1, <3>1 DEF ListInv
    <3> QED
      BY <3>2, <3>3, ReportKeeps
  <2>2. CASE new.hosts = hosts
    <3>1. UNCHANGED <<calls, shown, reported, stray, hosts>>
      BY <1>3, <2>2
    <3> QED
      BY <3>1 DEF ListInv, Known, ViewsAre
  <2> QED
    BY <2>1, <2>2
<1>11. Controls'
  BY <1>3 DEF ListInv, Controls
<1> QED
  BY <1>3, <1>9, <1>10, <1>11 DEF ListInv, Known

\* An answer is put into its host's place or a new one, and reported if it changes the
\* list; with no place left nothing changes.
LEMMA ReceivedKeeps == ListInv /\ List!HostReceived => ListInv'
<1> SUFFICES ASSUME ListInv, List!HostReceived PROVE ListInv'
  OBVIOUS
<1>1. PICK x \in net :
        LET new  == List!Places(x.id) = {}
            full == new /\ Len(hosts) = HostsMax
            put  == IF new THEN Append(hosts, x)
                    ELSE [i \in DOMAIN hosts |-> IF i \in List!Places(x.id) THEN x ELSE hosts[i]]
        IN  /\ net' = net \ {x}
            /\ IF full THEN UNCHANGED <<hosts, ages, calls, shown, reported, silent>>
               ELSE /\ hosts' = put
                    /\ ages' = IF new THEN Append(ages, 0)
                               ELSE [i \in DOMAIN ages |-> IF i \in List!Places(x.id) THEN 0 ELSE ages[i]]
                    /\ silent' = [silent EXCEPT ![x.id] = 0]
                    /\ IF List!Changes(x, new) THEN List!Report(put) ELSE UNCHANGED <<calls, shown, reported>>
  BY DEF List!HostReceived, List!lists, List!views
<1>2. receiver /\ UNCHANGED <<stop, service, receiver, main, stray>>
  BY DEF List!HostReceived
<1>3. PICK P : P = List!Places(x.id) /\ P = {i \in DOMAIN hosts : hosts[i].id = x.id}
  BY DEF List!Places
<1>4. PICK h : h = hosts
  OBVIOUS
<1>5. PICK a : a = ages
  OBVIOUS
<1>6. PICK s : s = silent
  OBVIOUS
<1>7. Entries(h, a, s) /\ x \in Hosts /\ net' \subseteq Hosts
  BY <1>1, <1>4, <1>5, <1>6 DEF ListInv, Known
<1>8. h \in Seq(Hosts) /\ DOMAIN h = 1 .. Len(h)
  BY <1>7 DEF Entries, IsList
<1>9. Controls'
  BY <1>2 DEF ListInv, Controls
<1>10. CASE P = {} /\ Len(h) = HostsMax
  <2>1. UNCHANGED <<hosts, ages, calls, shown, reported, silent>>
    BY <1>1, <1>3, <1>4, <1>10
  <2> QED
    BY <1>2, <1>7, <1>9, <2>1 DEF ListInv, Known, ViewsAre
<1>11. CASE P = {} /\ Len(h) # HostsMax
  <2>1. /\ hosts' = Append(h, x) /\ ages' = Append(a, 0) /\ silent' = [s EXCEPT ![x.id] = 0]
        /\ List!Report(Append(h, x))
    BY <1>1, <1>3, <1>4, <1>5, <1>6, <1>11 DEF List!Changes
  <2>2. \A i \in 1 .. Len(h) : h[i].id # x.id
    BY <1>3, <1>4, <1>8, <1>11
  <2>3. Entries(Append(h, x), Append(a, 0), [s EXCEPT ![x.id] = 0])
    BY <1>7, <1>11, <2>2, NewEntry
  <2>4. PICK list : list = Append(h, x)
    OBVIOUS
  <2>5. list \in Seq(Hosts)
    BY <1>7, <1>8, <2>4
  <2>6. ViewsAre' /\ reported' = hosts'
    <3>1. ViewsAre /\ List!Report(list) /\ UNCHANGED stray /\ hosts' = list
      BY <1>2, <2>1, <2>4 DEF ListInv
    <3> QED
      BY <2>5, <3>1, ReportKeeps
  <2>7. Entries(hosts', ages', silent')
    BY <2>1, <2>3
  <2> QED
    BY <1>7, <1>9, <2>6, <2>7 DEF ListInv, Known
<1>12. CASE P # {}
  <2>1. PICK list : list = [i \in DOMAIN h |-> IF i \in P THEN x ELSE h[i]]
    OBVIOUS
  <2>2. /\ hosts' = list /\ ages' = [i \in DOMAIN a |-> IF i \in P THEN 0 ELSE a[i]]
        /\ silent' = [s EXCEPT ![x.id] = 0]
        /\ IF List!Changes(x, FALSE) THEN List!Report(list) ELSE UNCHANGED <<calls, shown, reported>>
    BY <1>1, <1>3, <1>4, <1>5, <1>6, <1>12, <2>1
  <2>3. Entries(list, [i \in DOMAIN a |-> IF i \in P THEN 0 ELSE a[i]], [s EXCEPT ![x.id] = 0])
    <3>1. P = {i \in DOMAIN h : h[i].id = x.id}
      BY <1>3, <1>4
    <3> QED
      BY <1>7, <1>12, <2>1, <3>1, KnownEntry
  <2>4. Entries(hosts', ages', silent')
    BY <2>2, <2>3
  <2>5. ViewsAre' /\ reported' = hosts'
    <3>1. CASE List!Changes(x, FALSE)
      <4>1. list \in Seq(Hosts)
        BY <2>3 DEF Entries, IsList
      <4>2. ViewsAre /\ List!Report(list) /\ UNCHANGED stray /\ hosts' = list
        BY <1>2, <2>2, <3>1 DEF ListInv
      <4> QED
        BY <4>1, <4>2, ReportKeeps
    <3>2. CASE ~List!Changes(x, FALSE)
      <4>1. \A i \in P : h[i] = x
        BY <1>3, <1>4, <3>2 DEF List!Changes
      <4>2. list = h
        <5>1. h = [i \in DOMAIN h |-> h[i]]
          BY <1>8
        <5> QED
          BY <2>1, <4>1, <5>1
      <4>3. UNCHANGED <<calls, shown, reported, stray, hosts>>
        BY <1>2, <1>4, <2>2, <3>2, <4>2
      <4> QED
        BY <4>3 DEF ListInv, Known, ViewsAre
    <3> QED
      BY <3>1, <3>2
  <2> QED
    BY <1>7, <1>9, <2>4, <2>5 DEF ListInv, Known
<1> QED
  BY <1>10, <1>11, <1>12

\* The ends of the threads leave the list.
LEMMA EndsOfThreadsKeep ==
  ASSUME ListInv,
         \/ List!ServiceStops \/ List!ServiceFails \/ List!ServiceEnds
         \/ List!ReceiverEnds \/ List!ReceiverFails \/ List!Deactivate
  PROVE  ListInv'
<1>1. UNCHANGED <<net, hosts, ages, calls, shown, reported, silent, stray>>
  BY DEF List!ServiceStops, List!ServiceFails, List!ServiceEnds,
         List!ReceiverEnds, List!ReceiverFails, List!Deactivate,
         List!lists, List!views
<1>2. Known' /\ ViewsAre'
  BY <1>1 DEF ListInv, Known, ViewsAre
<1>3. Controls'
  <2>1. hosts' = hosts /\ Controls
    BY <1>1 DEF ListInv
  <2>2. CASE List!ServiceStops \/ List!ServiceFails
    BY <2>1, <2>2 DEF Controls, List!ServiceStops, List!ServiceFails
  <2>3. CASE List!ReceiverEnds \/ List!ReceiverFails
    <3>1. receiver' = FALSE /\ UNCHANGED <<stop, service, main>>
      BY <2>3 DEF List!ReceiverEnds, List!ReceiverFails
    <3>2. receiver' \in BOOLEAN
      BY <3>1, Zenon
    <3> QED
      BY <2>1, <3>1, <3>2 DEF Controls
  <2>4. CASE List!ServiceEnds
    BY <2>1, <2>4 DEF Controls, List!ServiceEnds
  <2>5. CASE List!Deactivate
    BY <2>1, <2>5 DEF Controls, List!Deactivate, List!Active
  <2> QED
    BY <2>2, <2>3, <2>4, <2>5
<1> QED
  BY <1>2, <1>3 DEF ListInv

\* A service begins with an empty list, which is what the GUI shows or will show.
LEMMA ActivateKeeps == ListInv /\ List!Activate => ListInv'
<1> SUFFICES ASSUME ListInv, List!Activate PROVE ListInv'
  OBVIOUS
<1>1. /\ main = "idle" /\ service = "none" /\ hosts' = <<>> /\ ages' = <<>>
      /\ reported' = <<>> /\ net' = {} /\ silent' = List!Unheard
      /\ UNCHANGED <<main, calls, shown, stray>>
  BY DEF List!Activate, List!Active
<1>2. Known'
  <2>1. Entries(hosts', ages', silent')
    BY <1>1, NoEntries
  <2> QED
    BY <1>1, <2>1 DEF Known
<1>3. ViewsAre'
  <2>1. hosts = <<>>
    BY <1>1 DEF ListInv, Controls
  <2> QED
    BY <1>1, <2>1 DEF ListInv, ViewsAre
<1>4. Controls'
  BY <1>1 DEF List!Activate, ListInv, Controls
<1> QED
  BY <1>2, <1>3, <1>4 DEF ListInv

\* The GUI's list is emptied with the service; what is still queued is stray.
LEMMA DeactivatedKeeps == ListInv /\ List!Deactivated => ListInv'
<1> SUFFICES ASSUME ListInv, List!Deactivated PROVE ListInv'
  OBVIOUS
<1>1. /\ service = "ended" /\ service' = "none" /\ main' = "idle" /\ shown' = <<>> /\ stray' = (calls # <<>>)
      /\ hosts' = <<>> /\ ages' = <<>> /\ reported' = <<>> /\ silent' = List!Unheard
      /\ UNCHANGED <<net, stop, receiver, calls>>
  BY DEF List!Deactivated
<1>2. Known'
  <2>1. Entries(hosts', ages', silent')
    BY <1>1, NoEntries
  <2> QED
    BY <1>1, <2>1 DEF ListInv, Known
<1>3. ViewsAre'
  <2>1. calls' \in Seq(Seq(Hosts)) /\ Len(calls') <= MaxQueue
    BY <1>1 DEF ListInv, ViewsAre
  <2>2. ~stray' => FinallyShown(calls', shown') = hosts'
    BY <1>1 DEF FinallyShown
  <2>3. stray' \in BOOLEAN
    BY <1>1
  <2> QED
    BY <2>1, <2>2, <2>3 DEF ViewsAre
<1>4. Controls'
  BY <1>1 DEF ListInv, Controls
<1> QED
  BY <1>2, <1>3, <1>4 DEF ListInv

\* The GUI takes the next queued list.
LEMMA ShowKeeps == ListInv /\ List!Show => ListInv'
<1> SUFFICES ASSUME ListInv, List!Show PROVE ListInv'
  OBVIOUS
<1>1. /\ calls # <<>> /\ shown' = Head(calls) /\ calls' = Tail(calls)
      /\ UNCHANGED <<net, hosts, ages, stop, service, receiver, main, reported, silent, stray>>
  BY DEF List!Show, List!lists
<1>2. Known' /\ Controls'
  BY <1>1 DEF ListInv, Known, Controls
<1>3. PICK q : q = calls
  OBVIOUS
<1>4. PICK x : x = shown
  OBVIOUS
<1>5. q \in Seq(Seq(Hosts)) /\ q # <<>> /\ Len(q) <= MaxQueue
  BY <1>1, <1>3 DEF ListInv, ViewsAre
<1>6. /\ Tail(q) \in Seq(Seq(Hosts)) /\ Len(Tail(q)) <= Len(q)
      /\ FinallyShown(Tail(q), Head(q)) = FinallyShown(q, x)
  BY <1>5, LastShown
<1>7. Len(Tail(q)) <= MaxQueue
  <2>1. Len(Tail(q)) \in Nat /\ Len(q) \in Nat
    BY <1>5, <1>6
  <2> QED
    BY <1>5, <1>6, <2>1, ListConstants
<1>8. ViewsAre'
  BY <1>1, <1>3, <1>4, <1>6, <1>7 DEF ListInv, ViewsAre
<1> QED
  BY <1>2, <1>8 DEF ListInv

\* No service runs at first.
LEMMA ListInit == Init => ListInv
<1> SUFFICES ASSUME Init PROVE ListInv
  OBVIOUS
<1>1. List!Init
  BY DEF Init
<1>2. Known
  <2>1. Entries(hosts, ages, silent)
    BY <1>1, NoEntries DEF List!Init
  <2> QED
    BY <1>1, <2>1 DEF Known, List!Init
<1>3. ViewsAre
  <2>1. calls = <<>> /\ calls \in Seq(Seq(Hosts)) /\ Len(calls) = 0 /\ 0 <= MaxQueue
    BY <1>1, ListConstants DEF List!Init
  <2> QED
    BY <1>1, <2>1 DEF ViewsAre, FinallyShown, List!Init
<1>4. Controls
  BY <1>1 DEF Controls, List!Init
<1> QED
  BY <1>2, <1>3, <1>4 DEF ListInv

\* Every step of the service, of the GUI and of the other protocols keeps the invariant.
LEMMA ListStep == ListInv /\ [Next]_vars => ListInv'
<1> SUFFICES ASSUME ListInv, [Next]_vars PROVE ListInv'
  OBVIOUS
<1>1. CASE UNCHANGED listVars
  BY <1>1 DEF listVars, ListInv, Known, ViewsAre, Controls
<1>2. CASE List!Next
  <2>1. CASE List!Ping
    BY <2>1, PingKeeps
  <2>2. CASE List!HostReceived
    BY <2>2, ReceivedKeeps
  <2>3. CASE \/ List!ServiceStops \/ List!ServiceFails \/ List!ServiceEnds
             \/ List!ReceiverEnds \/ List!ReceiverFails \/ List!Deactivate
    BY <2>3, EndsOfThreadsKeep
  <2>4. CASE List!Activate
    BY <2>4, ActivateKeeps
  <2>5. CASE List!Deactivated
    BY <2>5, DeactivatedKeeps
  <2>6. CASE List!Show
    BY <2>6, ShowKeeps
  <2>7. CASE List!Loses
    <3>1. /\ net' \subseteq net
          /\ UNCHANGED <<hosts, ages, stop, service, receiver, main>>
          /\ UNCHANGED <<calls, shown, reported, silent, stray>>
      BY <2>7 DEF List!Loses, List!lists, List!views
    <3> QED
      BY <3>1 DEF ListInv, Known, ViewsAre, Controls
  <2> QED
    BY <1>2, <2>1, <2>2, <2>3, <2>4, <2>5, <2>6, <2>7 DEF List!Next, List!ServiceStep
<1>3. List!Next \/ UNCHANGED listVars
  BY DEF Next, vars, Listed, Registered, Tested
<1> QED
  BY <1>1, <1>2, <1>3

\* The instance's cardinality is that of the library.
LEMMA ListCardinality ==
  ASSUME NEW S
  PROVE  List!Cardinality(S) = Cardinality(S)
BY DEF List!Cardinality, Cardinality

\* The invariant implies what the runs check.
LEMMA ListFollows == ListInv => ListIsRight
<1> SUFFICES ASSUME ListInv PROVE ListIsRight
  OBVIOUS
<1>1. /\ hosts \in Seq(Hosts) /\ ages \in Seq(Nat) /\ Len(hosts) = Len(ages)
      /\ Len(hosts) <= HostsMax /\ net \subseteq Hosts
      /\ \A i, j \in 1 .. Len(hosts) : hosts[i].id = hosts[j].id => i = j
  BY DEF ListInv, Known, Entries, IsList
<1>2. DOMAIN hosts = 1 .. Len(hosts) /\ DOMAIN ages = 1 .. Len(ages)
  BY <1>1
<1>3. List!TypeOK
  <2>1. List!Range(hosts) \subseteq Hosts
    BY <1>1, <1>2 DEF List!Range
  <2>2. List!Range(ages) \subseteq Nat
    BY <1>1, <1>2 DEF List!Range
  <2>3. {stop, receiver, stray} \subseteq BOOLEAN /\ Len(calls) <= MaxQueue
        /\ service \in {"none", "waits", "stops", "ended"} /\ main \in {"idle", "fini"}
    BY DEF ListInv, ViewsAre, Controls
  <2> QED
    BY <1>1, <2>1, <2>2, <2>3 DEF List!TypeOK
<1>4. ASSUME NEW c \in List!Consoles
      PROVE  List!Cardinality(List!Places(c)) = IF silent[c] <= DropPings THEN 1 ELSE 0
  <2>1. PICK P : P = List!Places(c)
    OBVIOUS
  <2>2. P = {i \in 1 .. Len(hosts) : hosts[i].id = c}
    BY <1>2, <2>1 DEF List!Places
  <2>3. /\ \A i \in 1 .. Len(hosts) : silent[hosts[i].id] = ages[i] /\ ages[i] <= DropPings
        /\ silent[c] <= DropPings => \E i \in 1 .. Len(hosts) : hosts[i].id = c
    BY DEF ListInv, Known, Entries, Heard
  <2>4. CASE silent[c] <= DropPings
    <3>1. PICK i \in 1 .. Len(hosts) : hosts[i].id = c
      BY <2>3, <2>4
    <3>2. P = {i}
      BY <1>1, <2>2, <3>1
    <3>3. Cardinality(P) = 1
      BY <3>2, FS_Singleton
    <3> QED
      BY <2>1, <2>4, <3>3, ListCardinality
  <2>5. CASE ~(silent[c] <= DropPings)
    <3>1. P = {}
      BY <2>2, <2>3, <2>5
    <3>2. Cardinality(P) = 0
      BY <3>1, FS_EmptySet
    <3> QED
      BY <2>1, <2>5, <3>2, ListCardinality
  <2> QED
    BY <2>4, <2>5
<1>5. List!FrontEndAgrees
  <2>1. reported = hosts /\ (calls = <<>> /\ ~stray => shown = hosts)
    BY DEF ListInv, Known, ViewsAre, FinallyShown
  <2> QED
    BY <2>1 DEF List!FrontEndAgrees
<1> QED
  BY <1>3, <1>4, <1>5 DEF ListIsRight, List!ListedAreHeard

\* Whatever consoles answer, are lost and fall silent, and however often the service is
\* started and stopped: a console is listed, once, exactly if it was heard of late enough,
\* and the GUI shows the service's list once the queued calls are done
\* (discoveryservice.c:175-198, :239-240, gui/src/discoverymanager.cpp:75-77).
THEOREM Lists == Spec => []ListIsRight
<1>1. Spec => []ListInv
  BY ListInit, ListStep, PTL DEF Spec
<1> QED
  BY <1>1, ListFollows, PTL
=============================================================================
