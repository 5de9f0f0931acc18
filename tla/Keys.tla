-------------------------------- MODULE Keys --------------------------------
(***************************************************************************)
(* Where the library encrypts.  The keys of a stream connection            *)
(* (lib/src/gkcrypt.c) open what is received, with gkcrypt_remote          *)
(* (KeyStream), and close what is sent, with gkcrypt_local (TakionSend);   *)
(* the ctrl connection counts its payloads instead (CtrlChannel).  The     *)
(* three share no state, so a behaviour is of one of them (a bound).       *)
(***************************************************************************)
EXTENDS SeqNum, Gmac

CONSTANTS
  Chunk, Chunks, IntHalf, MaxLength, MaxPos,                 \* KeyStream
  Senders, FeedbackSize, MaxSize, Limit, MaxPackets,         \* TakionSend
  Header, BufSize, SizeSpace, Spoken, Targets, Configs, MaxTold, MaxQueued  \* CtrlChannel

VARIABLES
  direction,
  prev, buf, populated, min, start, last, thread, signal, stop, mac, used,
  keys, pos, seq, current, sender, sent, failed,
  at, target, features, local, remote, typed, told, arrived, consumed, heard,
  queue, pin, counter, stopped, broken, queued, said

receiveVars == <<prev, buf, populated, min, start, last, thread, signal, stop, mac, used>>
sendVars == <<keys, pos, seq, current, sender, sent, failed>>
ctrlVars == <<at, target, features, local, remote, typed, told, arrived, consumed, heard,
              queue, pin, counter, stopped, broken, queued, said>>
vars == <<direction, receiveVars, sendVars, ctrlVars>>

Remote == INSTANCE KeyStream
Local == INSTANCE TakionSend
Channel == INSTANCE CtrlChannel WITH stop <- stopped

ASSUME KeysAssumption ==
  Remote!KeyStreamAssumption /\ Local!TakionSendAssumption /\ Channel!ChannelAssumption

\* What does not run is in one of its initial states.
Init ==
  /\ direction \in {"receive", "send", "ctrl"}
  /\ Remote!Init /\ Local!Init /\ Channel!Init
  /\ direction # "ctrl" => target = (CHOOSE t \in Targets : TRUE)
                           /\ features = (CHOOSE c \in Configs : TRUE)

Received(A) == direction = "receive" /\ A /\ UNCHANGED <<direction, sendVars, ctrlVars>>
Sent(A) == direction = "send" /\ A /\ UNCHANGED <<direction, receiveVars, ctrlVars>>
Exchanged(A) == direction = "ctrl" /\ A /\ UNCHANGED <<direction, receiveVars, sendVars>>

Next == Received(Remote!Next) \/ Sent(Local!Next) \/ Exchanged(Channel!Next)

Spec == Init /\ [][Next]_vars

\* The ring's thread runs and the reader does not stop before its signal.
FairSpec ==
  Spec /\ WF_vars(Received(Remote!ThreadStep)) /\ WF_vars(Received(Remote!Signal))

(***************************************************************************)
(* Properties: those of the three.                                         *)
(***************************************************************************)

\* Every packet is authenticated with the key of its position and decrypted
\* with the key stream behind it, and every ctrl message is whole, in its place
\* and opened under the counter it was closed with, both ways.
OpenedRight == Remote!OpenedRight /\ Channel!ChannelIsRight

\* What the ring holds is key stream, and nothing readable is written.
RingHolds == Remote!RingHolds

\* The ring's thread does not sleep through a request.
RingCatchesUp == direction = "receive" => Remote!RingCatchesUp

\* Packets that are sent use a piece of key stream of their own.
FreshPackets == Local!FreshPackets

=============================================================================
