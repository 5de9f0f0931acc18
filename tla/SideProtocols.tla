---------------------------- MODULE SideProtocols ----------------------------
(***************************************************************************)
(* The library's protocols beside that of a stream, each a thread that is  *)
(* started, stopped and joined by another one: the discovery service with  *)
(* the GUI's list of consoles (Discovery), the registration with its       *)
(* dialog (Regist), and the test of the path that a session runs before it *)
(* connects the stream (Senkusha).  They share no state and each has its   *)
(* own sockets, so a behaviour is of one of them (a bound).                *)
(***************************************************************************)
EXTENDS Integers, Sequences

CONSTANTS
  Hosts, HostsMax, DropPings, MaxNet, MaxQueue,              \* Discovery
  Requests, Answers, BufSize, SizeSpace,                     \* Regist
  Lowest, Highest, Pings, Retries, Ids, Memory, Second, Clock   \* Senkusha

VARIABLES
  part,
  net, hosts, ages, stop, service, receiver, main, calls, shown, reported, silent, stray,
  request, answer, broken, step, stopPipe, wire, got, nl, header, result, host, sent, queue, dialog, saved,
  state, finished, expected, at, late, count, pongs, lo, hi, cur, mtuIn, mtuOut, pathIn, pathOut,
  replies, echo, told, clean

listVars == <<net, hosts, ages, stop, service, receiver, main, calls, shown, reported, silent, stray>>
dialogVars == <<request, answer, broken, step, stopPipe, wire, got, nl, header,
                result, host, sent, queue, dialog, saved>>
testVars == <<state, finished, expected, at, late, count, pongs, lo, hi, cur, mtuIn, mtuOut,
              pathIn, pathOut, replies, echo, told, clean>>
vars == <<part, listVars, dialogVars, testVars>>

List == INSTANCE Discovery WITH Answers <- Hosts, queue <- calls
Dialog == INSTANCE Regist
Test == INSTANCE Senkusha WITH net <- replies

ASSUME SideAssumption ==
  List!DiscoveryAssumption /\ Dialog!RegistAssumption /\ Test!SenkushaAssumption

\* The protocols that do not run are in one of their initial states.
Init ==
  /\ part \in {"list", "dialog", "test"} /\ List!Init /\ Dialog!RegistInit /\ Test!Init
  /\ part # "dialog" => request = (CHOOSE r \in Requests : TRUE) /\ answer = (CHOOSE a \in Answers : TRUE)
  /\ part # "test" => pathIn = Lowest /\ pathOut = Lowest

Listed(A) == part = "list" /\ A /\ UNCHANGED <<part, dialogVars, testVars>>
Registered(A) == part = "dialog" /\ A /\ UNCHANGED <<part, listVars, testVars>>
Tested(A) == part = "test" /\ A /\ UNCHANGED <<part, listVars, dialogVars>>

Next == Listed(List!Next) \/ Registered(Dialog!RegistNext) \/ Tested(Test!Next)

Spec == Init /\ [][Next]_vars

\* Threads run, timers expire, and so does the GUI's event loop; neither the
\* console nor the user need do anything.
Fairness ==
  /\ WF_vars(Listed(List!ServiceStep)) /\ WF_vars(Listed(List!ReceiverEnds))
  /\ WF_vars(Listed(List!Deactivated)) /\ WF_vars(Listed(List!Show))
  /\ WF_vars(Registered(Dialog!Thread))
  /\ WF_vars(Registered(Dialog!Handle)) /\ WF_vars(Registered(Dialog!Joined))
  /\ WF_vars(Tested(Test!ThreadStep)) /\ WF_vars(Tested(Test!Timeout))
FairSpec == Spec /\ Fairness

(***************************************************************************)
(* Properties: those of the protocols.                                     *)
(***************************************************************************)

\* A console is listed, once, exactly if it was heard of late enough, and the
\* GUI shows what the service knows, once the queued calls are done.
ListIsRight == List!ListedAreHeard /\ List!FrontEndAgrees

\* A registration finds the end of the header, and ends as what it was.
RegistIsRight == Dialog!RegistIsRight

\* The sizes found are those the path carries, and with nothing lost the largest;
\* the console that was made to echo is told to stop, however the test ends.
PathIsTested == Test!MtuIsRight /\ Test!LeavesQuietly

\* Consoles that are gone leave the list; stopping the service or closing the
\* dialog ends their threads and returns; the test ends by itself.
ListEnds == part = "list" => List!Progress
DialogEnds == part = "dialog" => Dialog!RegistEnds
TestEnds == part = "test" => Test!SenkushaEnds
ProtocolsEnd == ListEnds /\ DialogEnds /\ TestEnds
=============================================================================
