------------------------------ MODULE Discovery ------------------------------
(***************************************************************************)
(* lib/src/discoveryservice.c and discovery.c, with the lists the front    *)
(* ends keep of what they report (gui/src/discoverymanager.cpp,            *)
(* switch/src/discoverymanager.cpp).  The service's thread pings every     *)
(* ping_ms and drops the hosts that left too many pings unanswered, a      *)
(* second thread takes the answers, and both report the list to the front  *)
(* end under state_mutex.  The GUI's list is set by a queued call in its   *)
(* main thread, which also starts and stops the service.                   *)
(*                                                                         *)
(* last_ping_index is only ever compared with ping_index, so a host has    *)
(* the number of pings since its last answer, its age.                     *)
(***************************************************************************)
EXTENDS Sequences, SequencesExt, Integers, FiniteSets

CONSTANTS
  Answers,    \* what consoles may answer: records with an id and a state
  HostsMax,   \* hosts_max
  DropPings,  \* host_drop_pings
  MaxNet,     \* answers on their way (a bound)
  MaxQueue    \* queued calls of the GUI (a bound)

DiscoveryAssumption ==
  /\ \A a \in Answers : DOMAIN a = {"id", "state"}
  /\ HostsMax \in Nat \ {0} /\ DropPings \in Nat
  /\ MaxNet \in Nat \ {0} /\ MaxQueue \in Nat \ {0}

VARIABLES
  net,       \* answers on their way
  hosts, ages, \* hosts and host_discovery_infos, arrays of the same length
  stop,      \* stop_cond
  service,   \* the service's thread: none, waits, stops (discovery_thread_stop), ended
  receiver,  \* the discovery thread runs
  main,      \* the GUI's main thread: idle, or in discovery_service_fini
  queue,     \* queued calls with the lists they carry
  shown,     \* DiscoveryManager.hosts of the GUI
  reported,  \* the last list of this service that was reported
  silent,    \* pings since each console was last heard (and had a place)
  stray      \* a list of a service that has ended was still queued

lists == <<hosts, ages>>
views == <<queue, shown, reported>>
vars == <<net, lists, stop, service, receiver, main, views, silent, stray>>

Active == service # "none"
Running == service \in {"waits", "stops"}
Consoles == {a.id : a \in Answers}
Unheard == [c \in Consoles |-> DropPings + 1]

(***************************************************************************)
(* The list                                                                *)
(***************************************************************************)
\* Broken variant: the host that moves into the place is passed over.
NextAfterDropSkips(i) == i + 1

\* i-- where a host was dropped, and i++ of the loop.
NextAfterDrop(i) == i

\* One round of the loop; none of them is left once i has passed the last host.
DropRound(s) ==
  IF s.i > Len(s.hosts) THEN s
  ELSE IF s.ages[s.i] <= DropPings THEN [s EXCEPT !.i = @ + 1]
  ELSE [hosts |-> RemoveAt(s.hosts, s.i), ages |-> RemoveAt(s.ages, s.i),
        i |-> NextAfterDrop(s.i)]

\* discovery_service_drop_old_hosts: each round passes a host or drops one.
DropOld(h, a) ==
  LET after[n \in 0 .. Len(h)] ==
        IF n = 0 THEN [hosts |-> h, ages |-> a, i |-> 1] ELSE DropRound(after[n - 1])
  IN  after[Len(h)]

Places(id) == {i \in DOMAIN hosts : hosts[i].id = id}

\* discovery_service_report_state.  The GUI converts the list and queues a
\* call.
Report(list) ==
  /\ Len(queue) < MaxQueue
  /\ queue' = Append(queue, list)
  /\ reported' = list
  /\ UNCHANGED shown

(***************************************************************************)
(* The service's threads                                                   *)
(***************************************************************************)

\* ping_ms passed: discovery_service_ping.  Any consoles may answer.
Ping ==
  /\ service = "waits" /\ ~stop
  /\ LET old  == [i \in DOMAIN ages |-> ages[i] + 1]
         kept == DropOld(hosts, old)
     IN  /\ hosts' = kept.hosts /\ ages' = kept.ages
         /\ IF kept.hosts # hosts THEN Report(kept.hosts) ELSE UNCHANGED views
  /\ net' \in {n \in SUBSET Answers : net \subseteq n /\ Cardinality(n) <= MaxNet}
  /\ silent' = [c \in Consoles |-> IF silent[c] > DropPings THEN silent[c] ELSE silent[c] + 1]
  /\ UNCHANGED <<stop, service, receiver, main, stray>>

\* Broken variant: only a new host is a change.
ChangesIfNew(answer, new) == new
\* Fields that differ from those of the slot, or a new slot.
Changes(answer, new) ==
  new \/ \E i \in Places(answer.id) : hosts[i] # answer

\* chiaki_discovery_srch_response_parse and discovery_service_host_received:
\* an answer without an id is ignored, and one that finds no place.
HostReceived ==
  /\ receiver
  /\ \E answer \in net :
       LET new  == Places(answer.id) = {}
           full == new /\ Len(hosts) = HostsMax
           put  == IF new THEN Append(hosts, answer)
                   ELSE [i \in DOMAIN hosts |-> IF i \in Places(answer.id) THEN answer ELSE hosts[i]]
       IN  /\ net' = net \ {answer}
           /\ IF full THEN UNCHANGED <<lists, views, silent>>
              ELSE /\ hosts' = put
                   /\ ages' = IF new THEN Append(ages, 0)
                              ELSE [i \in DOMAIN ages |-> IF i \in Places(answer.id) THEN 0 ELSE ages[i]]
                   /\ silent' = [silent EXCEPT ![answer.id] = 0]
                   /\ IF Changes(answer, new) THEN Report(put) ELSE UNCHANGED views
  /\ UNCHANGED <<stop, service, receiver, main, stray>>

\* The wait ends by stop_cond.
ServiceStops ==
  /\ service = "waits" /\ stop
  /\ service' = "stops"
  /\ UNCHANGED <<net, lists, stop, receiver, main, views, silent, stray>>

\* The wait fails, or the discovery thread could not be started: the thread ends,
\* and nobody is told.
ServiceFails ==
  /\ service = "waits" /\ service' = "stops"
  /\ UNCHANGED <<net, lists, stop, receiver, main, views, silent, stray>>

\* discovery_thread_func sees the stop pipe, which the service's thread signals
\* before it joins it.
ReceiverEnds ==
  /\ receiver /\ service = "stops"
  /\ receiver' = FALSE
  /\ UNCHANGED <<net, lists, stop, service, main, views, silent, stray>>

\* Its select or recvfrom fails.
ReceiverFails ==
  /\ receiver /\ receiver' = FALSE
  /\ UNCHANGED <<net, lists, stop, service, main, views, silent, stray>>

ServiceEnds ==
  /\ service = "stops" /\ ~receiver
  /\ service' = "ended"
  /\ UNCHANGED <<net, lists, stop, receiver, main, views, silent, stray>>

(***************************************************************************)
(* The GUI's main thread                                                   *)
(***************************************************************************)

\* SetActive(true): chiaki_discovery_service_init starts both threads.
Activate ==
  /\ main = "idle" /\ ~Active
  /\ service' = "waits" /\ receiver' = TRUE /\ stop' = FALSE
  /\ hosts' = <<>> /\ ages' = <<>> /\ reported' = <<>> /\ net' = {}
  /\ silent' = Unheard
  /\ UNCHANGED <<main, queue, shown, stray>>

\* SetActive(false), up to the join in chiaki_discovery_service_fini.
Deactivate ==
  /\ main = "idle" /\ Active
  /\ main' = "fini" /\ stop' = TRUE
  /\ UNCHANGED <<net, lists, service, receiver, views, silent, stray>>

\* The rest of it: the list is emptied, but not the queue.
Deactivated ==
  /\ main = "fini" /\ service = "ended"
  /\ service' = "none"
  /\ main' = "idle" /\ shown' = <<>>
  /\ stray' = (queue # <<>>)
  /\ hosts' = <<>> /\ ages' = <<>> /\ reported' = <<>>
  /\ silent' = Unheard
  /\ UNCHANGED <<net, stop, receiver, queue>>

\* DiscoveryServiceHosts, the queued call.
Show ==
  /\ main = "idle" /\ queue # <<>>
  /\ shown' = Head(queue) /\ queue' = Tail(queue)
  /\ UNCHANGED <<net, lists, stop, service, receiver, main, reported, silent, stray>>

\* A datagram is lost.
Loses ==
  /\ \E answer \in net : net' = net \ {answer}
  /\ UNCHANGED <<lists, stop, service, receiver, main, views, silent, stray>>

Init ==
  /\ net = {} /\ hosts = <<>> /\ ages = <<>>
  /\ stop = FALSE /\ service = "none" /\ receiver = FALSE /\ main = "idle"
  /\ queue = <<>> /\ shown = <<>> /\ reported = <<>>
  /\ silent = Unheard /\ stray = FALSE

ServiceStep == Ping \/ ServiceStops \/ ServiceEnds
Next ==
  \/ ServiceStep \/ ServiceFails \/ HostReceived \/ ReceiverEnds \/ ReceiverFails
  \/ Activate \/ Deactivate \/ Deactivated \/ Show
  \/ Loses

\* Threads run, and so does the GUI's event loop; the user need not act, and no
\* call need fail.
Spec == Init /\ [][Next]_vars
Fairness ==
  /\ WF_vars(ServiceStep) /\ WF_vars(ReceiverEnds)
  /\ WF_vars(Deactivated) /\ WF_vars(Show)
FairSpec == Spec /\ Fairness

(***************************************************************************)
(* Properties                                                              *)
(***************************************************************************)
TypeOK ==
  /\ Range(hosts) \cup net \subseteq Answers
  /\ Len(hosts) = Len(ages) /\ Len(hosts) <= HostsMax /\ Range(ages) \subseteq Nat
  /\ service \in {"none", "waits", "stops", "ended"} /\ main \in {"idle", "fini"}
  /\ {stop, receiver, stray} \subseteq BOOLEAN
  /\ Len(queue) <= MaxQueue

\* A console is listed, once, exactly if it was heard within the last
\* host_drop_pings + 1 pings, however the arrays are compacted while several
\* go at once (discoveryservice.c:175-198, :239-240).
ListedAreHeard ==
  /\ TypeOK
  /\ \A c \in Consoles : Cardinality(Places(c)) = IF silent[c] <= DropPings THEN 1 ELSE 0

\* The front end knows what the service knows: the list it was last given is
\* the service's list, although both threads report, and once the queue is
\* empty the GUI shows it, unless a list of an earlier service was still queued
\* when that one was stopped (gui/src/discoverymanager.cpp:75-77).
FrontEndAgrees ==
  Active => /\ reported = hosts
            /\ queue = <<>> /\ ~stray => shown = hosts

\* A console that answers no more leaves the list, as long as the service's thread
\* runs, although that of the receiver may not.
GoneIsDropped ==
  \A c \in Consoles :
    (Running /\ Places(c) # {}) ~> (Places(c) = {} \/ (receiver /\ \E a \in net : a.id = c) \/ ~Running)

\* Stopping the service joins its threads and returns: neither thread holds
\* what the other one, or the caller, waits for.
FiniEnds == main = "fini" ~> main = "idle"

\* Both: the service does what it runs for, and ends when it is told to.
Progress == GoneIsDropped /\ FiniEnds
=============================================================================
