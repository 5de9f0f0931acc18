------------------------------ MODULE Senkusha ------------------------------
(***************************************************************************)
(* lib/src/senkusha.c: before the stream, the session thread measures the  *)
(* round trip and the largest packets the path carries each way.  It sends *)
(* a request, waits on state_cond until the Takion thread's callbacks set  *)
(* state_finished, and goes on; state_mutex is held from one wait to the   *)
(* next, so an action is all a thread does between two waits.  Answers may *)
(* be lost, late or repeated.  Nothing ever sets should_stop.              *)
(*                                                                         *)
(* A wait that times out has left the condition variable, but a callback   *)
(* may still have the mutex before it: `late` stands for that moment.      *)
(***************************************************************************)
EXTENDS Integers

CONSTANTS
  Lowest, Highest, \* packet sizes between which the path is searched
  Pings,           \* SENKUSHA_PING_COUNT_DEFAULT
  Retries,         \* attempts for one size
  Ids,             \* ids, tags and numbers told apart (a bound)
  Memory,          \* requests an answer may outlive its own by (a bound)
  Second,          \* nanoseconds of a second, in parts of one
  Clock            \* the parts of a second the clock may show

SenkushaAssumption ==
  /\ {Lowest, Highest, Ids} \subseteq Nat /\ Lowest < Highest /\ Memory < Ids
  /\ {Pings, Retries, Second, Memory} \subseteq Nat \ {0} /\ Clock \subseteq 0 .. Second - 1

VARIABLES
  state,      \* SenkushaState, what the callbacks accept
  finished,   \* state_finished
  expected,   \* mtu_id, ping_tag or data_ack_seq_num_expected of the request
  at,         \* where the session thread waits, or how it ended
  late,       \* its wait has timed out
  count,      \* pings sent, or attempts made for this size
  pongs,      \* pings_successful
  lo, hi, cur,\* min, max and cur of the search
  mtuIn, mtuOut,
  pathIn, pathOut,   \* the largest packet the path carries
  net,        \* answers on their way
  echo,       \* the console echoes
  told,       \* DISCONNECT was sent
  clean       \* no answer was lost or too late

testVars == <<count, pongs, lo, hi, cur, mtuIn, mtuOut>>
pathVars == <<pathIn, pathOut>>
vars == <<state, finished, expected, at, late, testVars, pathVars, net, echo, told, clean>>

Unknown == -1
Waits == {"connect", "bang", "echo on", "ping", "echo off", "mtu in", "command", "mtu out", "final"}
Ends == {"completed", "failed", "aborted"}

StateOf(step) ==
  CASE step = "connect" -> "TAKION_CONNECT"
    [] step = "bang" -> "EXPECT_BANG"
    [] step \in {"echo on", "echo off", "final"} -> "EXPECT_DATA_ACK"
    [] step \in {"ping", "mtu out"} -> "EXPECT_PONG"
    [] step = "mtu in" -> "EXPECT_MTU"
    [] step = "command" -> "EXPECT_CLIENT_MTU_COMMAND"

(***************************************************************************)
(* Waiting                                                                 *)
(***************************************************************************)

\* set_timeout (thread.c): a deadline a part of a second from now.
Deadline(now, part) ==
  LET nsec == now + part
  IN  IF nsec > Second THEN nsec % Second ELSE nsec

\* pthread_cond_timedwait takes a deadline of less than a second's nanoseconds.
ValidDeadline(now, part) == Deadline(now, part) < Second

\* The waits of the searches are a part of a second long, the others whole ones.
WaitIsValid(step, now) == step \in {"mtu in", "mtu out"} => ValidDeadline(now, 1)

\* The console answers a request: what the path does not carry is not answered.
Carried(step, size) ==
  CASE step = "mtu in" -> size <= pathIn
    [] step = "mtu out" -> size <= pathOut
    [] step = "ping" -> echo
    [] OTHER -> TRUE

\* The request of a step is sent and the thread waits.  An answer that will
\* come is on its way, unless it is lost.
Ask(step, size) ==
  /\ state' = StateOf(step) /\ finished' = FALSE /\ expected' = (expected + 1) % Ids
  /\ late' = FALSE
  /\ \E now \in Clock : at' = IF WaitIsValid(step, now) THEN step ELSE "aborted"
  /\ LET answer == [to |-> StateOf(step), id |-> expected']
         old    == {a \in net : (expected' - a.id) % Ids < Memory}
     IN  \/ /\ Carried(step, size)
            /\ net' = old \cup {answer} /\ UNCHANGED clean
         \/ /\ net' = old /\ clean' = (clean /\ ~Carried(step, size))

\* senkusha_send_big
SendBig == Ask("bang", Lowest)

\* senkusha_send_echo_command: the console has it, the acknowledgement may fail.
SendEchoCommand(enable) ==
  echo' = enable /\ Ask(IF enable THEN "echo on" ELSE "echo off", Lowest)

\* senkusha_send_mtu_command: an answer of this size, please.
SendMtuCommand(size) == Ask("mtu in", size)

\* senkusha_send_client_mtu_command: the first is answered by the console's own,
\* the last is only acknowledged.
SendClientMtuCommand(waitForAck) == Ask(IF waitForAck THEN "final" ELSE "command", Lowest)

\* A ping: of the plain size, or padded to the size that is tried.
SendPing == Ask("ping", Lowest)
SendPadded(size) == Ask("mtu out", size)

\* senkusha_send_disconnect
SendDisconnect == told' = TRUE

\* The label disconnect, and quit_takion behind it.
Disconnect(end) ==
  /\ at' = end /\ SendDisconnect /\ late' = FALSE
  /\ UNCHANGED <<state, finished, expected, net, echo, clean>>

QuitTakion ==
  /\ at' = "failed" /\ late' = FALSE
  /\ UNCHANGED <<state, finished, expected, net, echo, told, clean>>

\* The timeout elapses.  An answer on its way is now too late, or just in time.
Timeout ==
  /\ at \in Waits /\ ~finished /\ ~late
  /\ clean' = (clean /\ [to |-> state, id |-> expected] \notin net)
  /\ late' = TRUE
  /\ UNCHANGED <<state, finished, expected, at, testVars, pathVars, net, echo, told>>

Over == at \in Waits /\ (finished \/ late)

(***************************************************************************)
(* chiaki_senkusha_run                                                     *)
(***************************************************************************)
Start ==
  /\ at = "idle"
  /\ Ask("connect", Lowest)
  /\ UNCHANGED <<testVars, pathVars, echo, told>>

\* chiaki_takion_connect fails: no socket, no thread.
ConnectFails ==
  /\ at = "idle" /\ QuitTakion
  /\ UNCHANGED <<testVars, pathVars>>

Connected ==
  /\ Over /\ at = "connect"
  /\ IF finished THEN SendBig /\ UNCHANGED <<echo, told>> ELSE QuitTakion
  /\ UNCHANGED <<testVars, pathVars>>

Bang ==
  /\ Over /\ at = "bang"
  /\ IF finished
     THEN SendEchoCommand(TRUE) /\ UNCHANGED told
     ELSE QuitTakion
  /\ UNCHANGED <<testVars, pathVars>>

\* Sending fails: what is being tested is given up.
SendFails ==
  /\ Over
  /\ \/ at = "connect" /\ QuitTakion
     \/ at \in {"bang", "echo on", "ping", "echo off", "mtu in"} /\ Disconnect("failed")
  /\ UNCHANGED <<testVars, pathVars>>

(***************************************************************************)
(* senkusha_run_rtt_test                                                   *)
(***************************************************************************)

\* senkusha_send_data_wait_for_ack fails if it timed out, acknowledged or not.
EchoOn ==
  /\ Over /\ at = "echo on"
  /\ IF late
     THEN Disconnect("failed") /\ UNCHANGED testVars
     ELSE /\ SendPing /\ count' = 1
          /\ UNCHANGED <<echo, told, pongs, lo, hi, cur, mtuIn, mtuOut>>
  /\ UNCHANGED pathVars

Ping ==
  /\ Over /\ at = "ping"
  /\ pongs' = IF finished THEN pongs + 1 ELSE pongs
  /\ IF count < Pings
     THEN SendPing /\ count' = count + 1 /\ UNCHANGED echo
     ELSE SendEchoCommand(FALSE) /\ UNCHANGED count
  /\ UNCHANGED <<lo, hi, cur, mtuIn, mtuOut, pathVars, told>>

\* Broken variant: a round trip without a pong.
RttFailsLate == late
RttFails == late \/ pongs = 0

\* No pong, no round trip; else the search for the inbound size begins.
EchoOff ==
  /\ Over /\ at = "echo off"
  /\ IF RttFails
     THEN Disconnect("failed") /\ UNCHANGED testVars
     ELSE /\ SendMtuCommand(Highest)
          /\ lo' = Lowest /\ hi' = Highest /\ cur' = Highest /\ count' = 1
          /\ UNCHANGED <<echo, told, pongs, mtuIn, mtuOut>>
  /\ UNCHANGED pathVars

(***************************************************************************)
(* The searches                                                            *)
(***************************************************************************)

\* Broken variant: a size that was not answered is left out with its neighbour.
NarrowedPast(success) == IF success THEN [lo |-> cur, hi |-> hi] ELSE [lo |-> lo, hi |-> cur - 1]

\* What an answer, or none in all the attempts, says of the size.
Narrowed(success) == IF success THEN [lo |-> cur, hi |-> hi] ELSE [lo |-> lo, hi |-> cur]
Middle(range) == range.lo + ((range.hi - range.lo) \div 2)

Wide(range) == range.hi - range.lo > 1

\* One attempt is over: another one, another size, or the end of the search.
SearchStep(Try(_), Found(_)) ==
  IF ~finished /\ count < Retries
  THEN /\ Try(cur) /\ count' = count + 1
       /\ UNCHANGED <<echo, told, pongs, lo, hi, cur, mtuIn, mtuOut>>
  ELSE LET range == Narrowed(finished)
       IN  /\ lo' = range.lo /\ hi' = range.hi
           /\ IF Wide(range)
              THEN /\ Try(Middle(range)) /\ cur' = Middle(range) /\ count' = 1
                   /\ UNCHANGED <<echo, told, pongs, mtuIn, mtuOut>>
              ELSE /\ cur' = Middle(range) /\ count' = 0 /\ Found(range.lo)
                   /\ UNCHANGED pongs

\* senkusha_run_mtu_in_test, then the first command of the outbound test.
FoundIn(size) ==
  mtuIn' = size /\ SendClientMtuCommand(FALSE) /\ UNCHANGED <<mtuOut, echo, told>>

MtuIn == Over /\ at = "mtu in" /\ SearchStep(SendMtuCommand, FoundIn) /\ UNCHANGED pathVars

\* senkusha_run_mtu_out_test: the search starts at the inbound size.
Command ==
  /\ Over /\ at = "command"
  /\ IF ~finished
     THEN Disconnect("failed") /\ UNCHANGED testVars
     ELSE /\ lo' = Lowest /\ hi' = Highest /\ cur' = mtuIn /\ count' = 1
          /\ SendPadded(mtuIn)
          /\ UNCHANGED <<echo, told, pongs, mtuIn, mtuOut>>
  /\ UNCHANGED pathVars

FoundOut(size) ==
  mtuOut' = size /\ SendClientMtuCommand(TRUE) /\ UNCHANGED <<mtuIn, echo, told>>

MtuOut == Over /\ at = "mtu out" /\ SearchStep(SendPadded, FoundOut) /\ UNCHANGED pathVars

Final ==
  /\ Over /\ at = "final"
  /\ Disconnect(IF late THEN "failed" ELSE "completed")
  /\ UNCHANGED <<testVars, pathVars>>

(***************************************************************************)
(* Callbacks, in the Takion thread                                         *)
(***************************************************************************)

\* Broken variant: any answer of the right kind will do.
AcceptsKind(answer) == answer.to = state

\* senkusha_takion_cb, _data, _data_ack and _av: an answer counts in the state
\* that expects it, under the id, the tag or the number of the last request.
Accepts(answer) == answer.to = state /\ answer.id = expected

Receive ==
  /\ at \in Waits
  /\ \E answer \in net :
       /\ finished' = (finished \/ Accepts(answer))
       /\ \/ net' = net \ {answer}
          \/ net' = net
  /\ UNCHANGED <<state, expected, at, late, testVars, pathVars, echo, told, clean>>

Init ==
  /\ state = "IDLE" /\ finished = FALSE /\ expected = 0
  /\ at = "idle" /\ late = FALSE
  /\ count = 0 /\ pongs = 0 /\ lo = Lowest /\ hi = Highest /\ cur = Lowest
  /\ mtuIn = Unknown /\ mtuOut = Unknown
  /\ pathIn \in Lowest .. Highest /\ pathOut \in Lowest .. Highest
  /\ net = {} /\ echo = FALSE /\ told = FALSE /\ clean = TRUE

ThreadStep ==
  \/ Start \/ Connected \/ Bang \/ EchoOn \/ Ping \/ EchoOff
  \/ MtuIn \/ Command \/ MtuOut \/ Final

Ended == at \in Ends /\ UNCHANGED vars

Next == ThreadStep \/ ConnectFails \/ SendFails \/ Timeout \/ Receive \/ Ended

\* Timeouts elapse and the session thread runs.
Spec == Init /\ [][Next]_vars
FairSpec == Spec /\ WF_vars(ThreadStep) /\ WF_vars(Timeout)

(***************************************************************************)
(* Properties                                                              *)
(***************************************************************************)
Sizes == Lowest .. Highest

TypeOK ==
  /\ state \in {StateOf(w) : w \in Waits} \cup {"IDLE"}
  /\ at \in Waits \cup Ends \cup {"idle"}
  /\ {finished, late, echo, told, clean} \subseteq BOOLEAN
  /\ expected \in 0 .. Ids - 1 /\ count \in Nat /\ pongs \in 0 .. Pings
  /\ {lo, hi, cur, pathIn, pathOut} \subseteq Sizes /\ lo <= hi
  /\ {mtuIn, mtuOut} \subseteq Sizes \cup {Unknown}

\* No size is found that the path does not carry, whichever answers are lost,
\* late or repeated while another size is tried (senkusha.c:684-690, :703-711).
MtuIsCarried == TypeOK /\ mtuIn <= pathIn /\ mtuOut <= pathOut

\* With no answer lost the searches find the largest size there is: bisection
\* ends with neighbours, of which the first is carried (senkusha.c:354-404).  The
\* outbound search starts at the inbound size, so the highest may go untried.
MtuIsExact ==
  at = "completed" /\ clean =>
    /\ mtuIn = pathIn
    /\ mtuOut = IF mtuIn < Highest /\ pathOut = Highest THEN Highest - 1 ELSE pathOut

\* Both: what is told to the stream connection is what the path carries.
MtuIsRight == MtuIsCarried /\ MtuIsExact

\* However it ends, the console that started to echo was told to stop, and one
\* that answered was told to disconnect; what completed had a pong.
LeavesQuietly ==
  /\ at \in {"completed", "failed"} /\ echo => told
  /\ at = "completed" => ~echo /\ told /\ pongs > 0

\* The session gets its answer though nothing can stop the test: every wait
\* has its timeout and every loop its end.
SenkushaEnds == <>(at \in Ends)

=============================================================================
