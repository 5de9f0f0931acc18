------------------------------- MODULE Regist -------------------------------
(***************************************************************************)
(* lib/src/regist.c, with the parts of http.c it receives the answer by    *)
(* and the GUI's dialog that runs it (gui/src/registdialog.cpp).  The      *)
(* registration's thread searches the console, connects, sends its request *)
(* and reads the answer; every wait but the TCP connect also listens to    *)
(* the stop pipe.  The thread tells its one event to a callback, which     *)
(* queues a call for the dialog, and the dialog's destructor stops the     *)
(* registration and joins the thread in the GUI's main thread.             *)
(*                                                                         *)
(* The answer is a sequence of elements: the characters "r", "n" and "x"   *)
(* (any other) of its header, and after it one element per decrypted       *)
(* header line of the content, a pair of its key and whether it is valid.  *)
(***************************************************************************)
EXTENDS Integers, Sequences, SequencesExt, FiniteSets

CONSTANTS
  Requests,   \* what may be asked for: target, online id, account id
  Answers,    \* what a console may answer: bytes, code and Content-Length
  BufSize,    \* sizeof(buf), in elements
  SizeSpace   \* values of size_t

\* ChiakiTarget: PS4 firmware before 9 takes online ids only from the front
\* ends, before 10 the library takes both, and later both take account ids.
Pre10 == {"PS4_8", "PS4_9"}
Targets == Pre10 \cup {"PS4_10", "PS5_1"}
Keys == {"RegistKey", "RP-Key", "Mac"}

RegistAssumption ==
  /\ \A r \in Requests : r.target \in Targets /\ {r.online, r.account} \subseteq BOOLEAN
  /\ \A a \in Answers :
       /\ a.code \in Nat /\ a.length \in 0 .. SizeSpace - 1
       /\ Len(a.bytes) \in Nat /\ a.bytes = [i \in 1 .. Len(a.bytes) |-> a.bytes[i]]
  /\ BufSize \in Nat /\ SizeSpace \in Nat \ {0}

VARIABLES
  request,   \* the ChiakiRegistInfo
  answer,    \* what this console will answer
  broken,    \* the wait of the sleep failed
  step,      \* where the thread is, or "undefined": buf was written past its end
  stopPipe,  \* the stop pipe is signalled
  wire,      \* elements of the answer still to come
  got,       \* elements received, buf up to buf_filled_size
  nl,        \* nl_state of chiaki_recv_http_header
  header,    \* header_size, once it is known
  result,    \* of the thread: none, canceled, success, failed
  host,      \* the keys of event.registered_host that hold a valid value
  sent,      \* the id the request carries: none, online, account
  queue,     \* events queued for the dialog
  dialog,    \* open, closing (in its destructor) or gone
  saved      \* keys of the host given to the settings

registVars == <<request, answer, broken, step, stopPipe, wire, got, nl, header,
                result, host, sent, queue, dialog, saved>>

(***************************************************************************)
(* The request and the answer                                              *)
(***************************************************************************)

\* chiaki_regist_request_payload_format: the id that is sent.
Payload(r) ==
  IF r.online /\ r.target \in Pre10 THEN "online"
  ELSE IF r.account THEN "account" ELSE "none"

\* Broken variant: a line of its own does not end the header line before it.
NextNlSplit(s, c) == CASE c = "r" -> 1 [] c = "n" -> (IF s = 1 THEN 2 ELSE IF s = 3 THEN 4 ELSE 0) [] OTHER -> 0
\* transitions_r and transitions_n of chiaki_recv_http_header.
NextNl(s, c) ==
  CASE c = "r" -> <<1, 1, 3, 1>>[s + 1]
    [] c = "n" -> <<0, 2, 0, 4>>[s + 1]
    [] OTHER   -> 0

\* The state after each of the elements, up to the one that ends the header.
States(s, chunk) ==
  LET f[i \in 0..Len(chunk)] ==
        IF i = 0 THEN s ELSE IF f[i - 1] = 4 THEN 4 ELSE NextNl(f[i - 1], chunk[i])
  IN  f

\* The values regist_parse_response_payload leaves in the host, and which it
\* found: http.c puts each line before the earlier ones, so the last comes
\* first, and one that is invalid clears the value.
Parsed(lines) ==
  LET f[i \in 1..(Len(lines) + 1)] ==
        IF i > Len(lines) THEN [set |-> {}, found |-> {}]
        ELSE LET later == f[i + 1]
                 line  == lines[i]
             IN  IF line \notin Keys \X BOOLEAN THEN later
                 ELSE IF line[2] THEN [set |-> later.set \cup {line[1]}, found |-> later.found \cup {line[1]}]
                 ELSE [later EXCEPT !.set = @ \ {line[1]}]
  IN  f[1]

\* content_size + header_size, which wraps for a huge Content-Length.
Total(size) == (answer.length + size) % SizeSpace

\* Broken variant: the size of the header is not counted.
MoreToComeOfContent == Len(got) < answer.length
\* buf_filled_size < content_size + header_size.
MoreToCome == Len(got) < Total(header)

(***************************************************************************)
(* The registration's thread                                               *)
(***************************************************************************)
Ends(r) == step' = "event" /\ result' = r

\* The payload is formatted, the name looked up and the search sent.
Begin ==
  /\ step = "format"
  /\ \/ /\ Payload(request) # "none"
        /\ step' = "search" /\ sent' = Payload(request) /\ UNCHANGED result
     \/ Ends("failed") /\ UNCHANGED sent
  /\ UNCHANGED <<request, answer, broken, stopPipe, wire, got, nl, header, host, queue, dialog, saved>>

\* regist_search: a packet comes, which may be another, or the recv fails.
Search ==
  /\ step = "search" /\ ~stopPipe
  /\ \/ step' = "sleep" /\ UNCHANGED result
     \/ Ends("failed")
  /\ UNCHANGED <<request, answer, broken, stopPipe, wire, got, nl, header, host, sent, queue, dialog, saved>>

SearchCanceled ==
  /\ step = "search" /\ stopPipe /\ Ends("canceled")
  /\ UNCHANGED <<request, answer, broken, stopPipe, wire, got, nl, header, host, sent, queue, dialog, saved>>

\* Broken variant: what was received starts the time anew.
SearchTimesOutAnew == step = "search" /\ UNCHANGED registVars
\* The time of all turns of the loop is up, which is seen before the pipe is.
SearchTimesOut ==
  /\ step = "search" /\ Ends("failed")
  /\ UNCHANGED <<request, answer, broken, stopPipe, wire, got, nl, header, host, sent, queue, dialog, saved>>

\* chiaki_stop_pipe_sleep: the PS4 does not accept requests immediately.  Only
\* a timeout means that it slept: a failing wait counts as canceled.
Sleep ==
  /\ step = "sleep"
  /\ \/ ~stopPipe /\ step' = "connect" /\ UNCHANGED <<result, broken>>
     \/ stopPipe /\ Ends("canceled") /\ UNCHANGED broken
     \/ Ends("canceled") /\ broken' = TRUE
  /\ UNCHANGED <<request, answer, stopPipe, wire, got, nl, header, host, sent, queue, dialog, saved>>

\* regist_request_connect, which nothing cancels, and both sends.
Connect ==
  /\ step = "connect"
  /\ \/ step' = "header" /\ wire' = answer.bytes /\ UNCHANGED result
     \/ Ends("failed") /\ UNCHANGED wire
  /\ UNCHANGED <<request, answer, broken, stopPipe, got, nl, header, host, sent, queue, dialog, saved>>

\* A wait for the answer ends by the stop pipe, by its timeout, or as it or the
\* connection fails.
WaitFails ==
  /\ step = "header" \/ (step = "content" /\ MoreToCome)
  /\ (stopPipe /\ Ends("canceled")) \/ Ends("failed")
  /\ UNCHANGED <<request, answer, broken, stopPipe, wire, got, nl, header, host, sent, queue, dialog, saved>>

\* chiaki_recv_http_header: one recv, which may bring the start of the content.
RecvHeader ==
  /\ step = "header" /\ ~stopPipe
  /\ \E n \in 1..Len(wire) :
       /\ Len(got) + n <= BufSize
       /\ LET states == States(nl, SubSeq(wire, 1, n))
              size   == Len(got) + CHOOSE i \in 0..n : states[i] = 4 /\ \A j \in 0..(i - 1) : states[j] # 4
          IN  /\ got' = got \o SubSeq(wire, 1, n) /\ wire' = SubSeq(wire, n + 1, Len(wire))
              /\ nl' = states[n]
              /\ IF states[n] # 4 THEN UNCHANGED <<step, header, result>>
                 ELSE /\ header' = size
                      /\ IF answer.code # 200 \/ answer.length = 0 \/ Total(size) > BufSize
                         THEN Ends("failed") ELSE step' = "content" /\ UNCHANGED result
  /\ UNCHANGED <<request, answer, broken, stopPipe, host, sent, queue, dialog, saved>>

\* Every recv is allowed sizeof(buf), wherever in buf it begins: a header that is
\* longer than that is written past the end, and C says nothing more.
RecvOverflows ==
  /\ step = "header" /\ ~stopPipe
  /\ \E n \in 1..Len(wire) : n <= BufSize /\ Len(got) + n > BufSize
  /\ step' = "undefined"
  /\ UNCHANGED <<request, answer, broken, stopPipe, wire, got, nl, header, result, host, sent, queue, dialog, saved>>

\* The loop for the rest of the content.
RecvContent ==
  /\ step = "content" /\ ~stopPipe /\ MoreToCome
  /\ \E n \in 1..Len(wire) :
       /\ n <= Total(header) - Len(got)
       /\ got' = got \o SubSeq(wire, 1, n) /\ wire' = SubSeq(wire, n + 1, Len(wire))
  /\ UNCHANGED <<request, answer, broken, step, stopPipe, nl, header, result, host, sent, queue, dialog, saved>>

\* regist_parse_response_payload.
Parse ==
  /\ step = "content" /\ ~MoreToCome
  /\ LET p == Parsed(SubSeq(got, header + 1, Len(got)))
     IN  /\ host' = p.set
         /\ Ends(IF p.found = Keys THEN "success" ELSE "failed")
  /\ UNCHANGED <<request, answer, broken, stopPipe, wire, got, nl, header, sent, queue, dialog, saved>>

\* The event and the end of the thread; the dialog's callback queues a call,
\* but none when it was canceled.
Deliver ==
  /\ step = "event"
  /\ step' = "ended"
  /\ queue' = IF result = "canceled" THEN queue ELSE Append(queue, result)
  /\ UNCHANGED <<request, answer, broken, stopPipe, wire, got, nl, header, result, host, sent, dialog, saved>>

(***************************************************************************)
(* The dialog                                                              *)
(***************************************************************************)

\* Success saves the host and accepts, Failed leaves the dialog open.  A console
\* that is known already is not saved if the user says so.
Handle ==
  /\ dialog = "open" /\ queue # <<>>
  /\ queue' = Tail(queue)
  /\ IF Head(queue) = "success"
     THEN saved' \in {host, saved} /\ dialog' = "closing" /\ stopPipe' = TRUE
     ELSE UNCHANGED <<saved, dialog, stopPipe>>
  /\ UNCHANGED <<request, answer, broken, step, wire, got, nl, header, result, host, sent>>

\* The user closes it: chiaki_regist_stop and chiaki_regist_fini.
Close ==
  /\ dialog = "open" /\ dialog' = "closing" /\ stopPipe' = TRUE
  /\ UNCHANGED <<request, answer, broken, step, wire, got, nl, header, result, host, sent, queue, saved>>

\* The thread is joined; what is queued for a dialog that is gone is dropped.
Joined ==
  /\ dialog = "closing" /\ step = "ended"
  /\ dialog' = "gone" /\ queue' = <<>>
  /\ UNCHANGED <<request, answer, broken, step, stopPipe, wire, got, nl, header, result, host, sent, saved>>

RegistInit ==
  /\ request \in Requests /\ answer \in Answers
  /\ step = "format" /\ stopPipe = FALSE /\ broken = FALSE
  /\ wire = <<>> /\ got = <<>> /\ nl = 0 /\ header = 0
  /\ result = "none" /\ host = {} /\ sent = "none"
  /\ queue = <<>> /\ dialog = "open" /\ saved = {}

Packet == Search \/ RecvHeader \/ RecvOverflows \/ RecvContent
Thread == Begin \/ SearchCanceled \/ SearchTimesOut \/ Sleep \/ Connect
          \/ WaitFails \/ Parse \/ Deliver
RegistNext == Packet \/ Thread \/ Handle \/ Close \/ Joined

\* The thread runs, its timers expire, and the GUI's event loop runs; nothing
\* is assumed of the console, and the user need not close the dialog.
RegistSpec == RegistInit /\ [][RegistNext]_registVars
RegistFairness ==
  /\ WF_registVars(Thread)
  /\ WF_registVars(Handle) /\ WF_registVars(Joined)
FairRegistSpec == RegistSpec /\ RegistFairness

(***************************************************************************)
(* Properties                                                              *)
(***************************************************************************)
RegistTypeOK ==
  /\ request \in Requests /\ answer \in Answers
  /\ step \in {"format", "search", "sleep", "connect", "header", "content", "event", "ended",
               "undefined"}
  /\ result \in {"none", "canceled", "success", "failed"}
  /\ {stopPipe, broken} \subseteq BOOLEAN /\ nl \in 0..4 /\ header <= Len(got)
  /\ dialog \in {"open", "closing", "gone"} /\ sent \in {"none", "online", "account"}
  /\ host \cup saved \subseteq Keys

\* The first place after a blank line, or 0: what the header's end means.
BlankLineEnd(s) ==
  LET ends == {i \in 4..Len(s) : SubSeq(s, i - 3, i) = <<"r", "n", "r", "n">>}
  IN  IF ends = {} THEN 0 ELSE CHOOSE i \in ends : \A j \in ends : i <= j

\* However the answer is cut into packets, the header is what comes up to the
\* first blank line (http.c:128-186), and none is missed.
HeaderIsFound == header = BlankLineEnd(got)

\* A key has more than one line: an invalid one clears what another one set.
KeyTwice ==
  \E i, j \in (header + 1) .. Len(got), k \in Keys :
    i < j /\ got[i] \in {k} \X BOOLEAN /\ got[j] \in {k} \X BOOLEAN

\* A registration ends as canceled only if it was asked to stop, or the wait of its
\* sleep failed, and as success only with every key valid (unless the answer repeats
\* one) and the whole content received (unless its size and the header's are more
\* than a size_t holds; regist.c:273-278, :588-605, :719-735); only such a host is
\* saved.
EndIsRight ==
  /\ RegistTypeOK
  /\ result = "canceled" => dialog # "open" \/ broken
  /\ result = "success" => /\ host = Keys \/ KeyTwice
                           /\ answer.length + header < SizeSpace => Len(got) >= header + answer.length
  /\ saved # {} => result = "success" /\ saved = host

\* Both: the answer is read as it was meant, and told to the user as it was.
RegistIsRight == HeaderIsFound /\ EndIsRight

\* Closing the dialog stops the thread and returns, and a registration nobody
\* stops ends by itself, unless the answer was written past its buffer.
RegistEnds ==
  /\ <>(step \in {"ended", "undefined"})
  /\ dialog = "closing" ~> dialog = "gone" \/ step = "undefined"
=============================================================================
