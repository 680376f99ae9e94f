----------------------------- MODULE WebServer ------------------------------
(***************************************************************************)
(* One connection of the web server: the lines of a request and its body   *)
(* as they arrive in segments (WebRequest.cpp), the handlers of the node   *)
(* (HTTP.cpp), and the response that goes out as acknowledgements and      *)
(* polls make room for it (WebResponses.cpp).  All callbacks run in the    *)
(* async_tcp task, one step each.  The bytes of a response are numbered.   *)
(***************************************************************************)
EXTENDS Integers, SequencesExt

CONSTANTS
  Requests,     \* what a browser may ask
  Pages,        \* the urls of files in /www
  HeadLengths,  \* what the head of a response may take
  FileLength,   \* those of a file
  TextLength,   \* those of a short answer
  SendBuffer    \* TCP_SND_BUF

VARIABLES
  conn,         \* "new", "open", "closing": _close_pcb is set, "closed"
  request,      \* what is asked
  parse,        \* _parseState
  lines,        \* the lines of the head that are still to come
  parsed,       \* _parsedLength
  response,     \* _response, or NoResponse
  answers,      \* how often send was called
  out,          \* the bytes that TCP took
  acked,        \* how many of them are acknowledged
  cut,          \* the file was truncated while it was sent
  starved       \* the heap had no room for a part of the response

vars == <<conn, request, parse, lines, parsed, response, answers, out, acked, cut, starved>>

NoResponse == [kind |-> "none"]
Alive == conn \in {"open", "closing"}

ServerTypeOK ==
  /\ conn \in {"new", "open", "closing", "closed"} /\ request \in Requests
  /\ parse \in {"start", "headers", "body", "end", "fail"}
  /\ lines \in 0 .. 3 /\ parsed \in 0 .. request.body
  /\ response.kind \in {"none", "basic", "abstract"}
  /\ answers \in Nat /\ out \in Seq(Nat)
  /\ acked \in 0 .. Len(out) /\ cut \in BOOLEAN /\ starved \in BOOLEAN

\* A request line, one header and the blank line, unless the first line is empty.
Init ==
  /\ conn = "new" /\ request \in Requests /\ parse = "start"
  /\ lines = (IF request.url = "blank" THEN 1 ELSE 3) /\ parsed = 0
  /\ response = NoResponse /\ answers = 0 /\ out = <<>> /\ acked = 0
  /\ cut = FALSE /\ starved = FALSE

-----------------------------------------------------------------------------
(* Responses.  A step of one gives the response and the data it writes.    *)

Least(a, b) == IF a < b THEN a ELSE b
First(s, n) == SubSeq(s, 1, n)
Rest(s, n) == SubSeq(s, n + 1, Len(s))
Bytes(first, n) == [i \in 1 .. n |-> first + i]

NewResponse(kind, head, n) ==
  [kind |-> kind, state |-> "setup", head |-> Bytes(0, head),
   content |-> Bytes(head, n), length |-> n, size |-> head + n,
   sent |-> 0, acked |-> 0, written |-> 0]
BasicResponse(head) == NewResponse("basic", head, TextLength)
FileResponse(head) == NewResponse("abstract", head, FileLength)
ResponseStream(head) == NewResponse("abstract", head, TextLength)

Finished(r) == r.state = "end"
Space == SendBuffer - (Len(out) - acked)
CanSend == Space > 0

Step(r, data) == [response |-> r, data |-> data]

RespondBasic(r, space) ==
  LET size == Len(r.head) + Len(r.content)
      shift == space - Len(r.head)
  IN  CASE space >= size -> Step([r EXCEPT !.state = "wait_ack"], r.head \o r.content)
        [] space > 0 /\ space < Len(r.head) ->
             Step([r EXCEPT !.content = Rest(r.head, space) \o @,
                            !.length = @ + Len(r.head) - space, !.state = "content"],
                  First(r.head, space))
        [] space > Len(r.head) /\ space < size ->
             Step([r EXCEPT !.sent = @ + shift, !.content = Rest(@, shift), !.state = "content"],
                  r.head \o First(r.content, shift))
        [] OTHER ->
             Step([r EXCEPT !.content = r.head \o @, !.length = @ + Len(r.head),
                            !.state = "content"], <<>>)

WaitAck(r) == Step([r EXCEPT !.state = IF r.acked >= r.written THEN "end" ELSE @], <<>>)

\* Faulty variant of AckBasic: what is left of the content is sent again from
\* its first byte.
AckBasicAgain(r, space) ==
  LET available == r.length - r.sent
  IN  IF r.state # "content" THEN WaitAck(r)
      ELSE IF space > available
      THEN Step([r EXCEPT !.content = <<>>, !.state = "wait_ack"], First(r.content, available))
      ELSE Step([r EXCEPT !.sent = @ + space], First(r.content, space))

AckBasic(r, space) ==
  LET available == r.length - r.sent
  IN  IF r.state # "content" THEN WaitAck(r)
      ELSE IF space > available
      THEN Step([r EXCEPT !.content = <<>>, !.state = "wait_ack"], First(r.content, available))
      ELSE Step([r EXCEPT !.content = Rest(@, space), !.sent = @ + space],
                First(r.content, space))

\* Faulty variant of SpaceBehind: the head is not counted.
SpaceBehindNothing(r, space) == space

\* The room behind the head.  A head that could not be put into a buffer
\* leaves the state, and is not counted the next time.
SpaceBehind(r, space) == IF r.state = "headers" THEN space - Len(r.head) ELSE space

\* _ack of a file or of a stream; heap: malloc finds room.
AckAbstract(r, space, heap) ==
  LET left == SpaceBehind(r, space)
      outLen == Least(r.length - r.sent, left)
      readLen == Least(outLen, Len(r.content))
  IN  IF r.state = "wait_ack" THEN WaitAck(r)
      ELSE IF r.state = "headers" /\ space < Len(r.head)
      THEN Step([r EXCEPT !.head = Rest(@, space)], First(r.head, space))
      ELSE IF ~heap THEN Step([r EXCEPT !.state = "content"], <<>>)
      ELSE Step([r EXCEPT !.head = <<>>, !.content = Rest(@, readLen), !.sent = @ + readLen,
                          !.state = IF r.sent + readLen = r.length THEN "wait_ack" ELSE "content"],
                r.head \o First(r.content, readLen))

Respond(r, space, heap) ==
  IF r.kind = "basic" THEN RespondBasic(r, space)
  ELSE AckAbstract([r EXCEPT !.state = "headers"], space, heap)

Ack(r, len, space, heap) ==
  LET a == [r EXCEPT !.acked = @ + len]
  IN  IF a.kind = "basic" THEN AckBasic(a, space) ELSE AckAbstract(a, space, heap)

\* AsyncClient::write takes what fits.
Write(r, data, space) ==
  LET taken == Least(space, Len(data))
  IN  /\ response' = [r EXCEPT !.written = @ + taken]
      /\ out' = out \o First(data, taken)

\* One malloc may fail, when a part is to be read.
Heap(heap) ==
  /\ (heap \/ ~starved)
  /\ starved' = (starved \/ ~heap)

-----------------------------------------------------------------------------
(* The handlers.                                                           *)

\* _attachHandler: the first that can handle it, in the order of load_handlers.
Handler(q) ==
  CASE q.method = "GET" /\ q.url \in Pages -> "static"
    [] q.url = "/" -> "index"
    [] q.method = "POST" /\ q.url \in {"save_systemfile", "get_systemfile"} -> q.url
    [] q.method = "GET" /\ q.url \in {"getvalue", "setvalue", "system_restart"} -> q.url
    [] OTHER -> "catch_all"

\* What handleRequest sends; "named" is the header, or the parameter, that says
\* which file or value is meant.
HandleRequest(q, head) ==
  CASE Handler(q) \in {"static", "index"} -> FileResponse(head)
    [] Handler(q) = "get_systemfile" -> IF q.named THEN FileResponse(head) ELSE NoResponse
    [] Handler(q) = "getvalue" -> IF q.named THEN ResponseStream(head) ELSE BasicResponse(head)
    [] Handler(q) \in {"setvalue", "catch_all"} -> BasicResponse(head)
    [] OTHER -> NoResponse

\* What handleBody sends: only a save has one.
HandleBody(q, head, index, len) ==
  IF Handler(q) = "save_systemfile" /\ q.named /\ index + len = q.body
  THEN BasicResponse(head) ELSE NoResponse

\* AsyncWebServerRequest::send; a handler that sends nothing leaves it at that.
Send(r) ==
  IF r = NoResponse
  THEN UNCHANGED <<response, answers, out, starved>>
  ELSE /\ answers' = answers + 1
       /\ \E heap \in BOOLEAN :
            /\ Heap(heap) /\ (heap \/ r.kind = "abstract")
            /\ \E s \in {Respond(r, Space, heap)} : Write(s.response, s.data, Space)

-----------------------------------------------------------------------------
(* The callbacks.                                                          *)

Accept ==
  /\ conn = "new" /\ conn' = "open"
  /\ UNCHANGED <<request, parse, lines, parsed, response, answers, out, acked, cut, starved>>

(* _onData: a segment with the next lines, or part of the body behind them. *)
(* The last line attaches the handler.                                      *)
Restarts == Handler(request) = "system_restart"

Lines ==
  /\ parse \in {"start", "headers"}
  /\ \E n \in 1 .. lines : lines' = lines - n
  /\ IF request.url = "blank"
     THEN /\ parse' = "fail" /\ conn' = "closing"
          /\ UNCHANGED <<response, answers, out, starved>>
     ELSE IF lines' > 0
     THEN parse' = "headers" /\ UNCHANGED <<conn, response, answers, out, starved>>
     ELSE IF request.body > 0
     THEN parse' = "body" /\ UNCHANGED <<conn, response, answers, out, starved>>
     ELSE /\ parse' = "end"
          /\ conn' = IF Restarts THEN "closed" ELSE conn
          /\ \E head \in HeadLengths : Send(HandleRequest(request, head))
  /\ UNCHANGED parsed

\* Both handleBody and handleRequest are called at the end; of the handlers
\* with a body none sends in both.
Body ==
  /\ parse = "body"
  /\ \E len \in 1 .. request.body - parsed :
       /\ parsed' = parsed + len
       /\ parse' = IF parsed' = request.body THEN "end" ELSE parse
       /\ \E head \in HeadLengths :
            LET sent == HandleBody(request, head, parsed, len)
            IN  Send(IF sent = NoResponse /\ parse' = "end"
                     THEN HandleRequest(request, head) ELSE sent)
  /\ UNCHANGED <<conn, lines>>

OnData ==
  /\ Alive
  /\ Lines \/ Body
  /\ UNCHANGED <<request, acked, cut>>

AckStep(len) ==
  \E heap \in BOOLEAN :
    /\ Heap(heap) /\ (heap \/ (response.kind = "abstract" /\ response.state # "wait_ack"))
    /\ \E space \in {SendBuffer - (Len(out) - acked')} :
         \E s \in {Ack(response, len, space, heap)} : Write(s.response, s.data, space)

OnAck ==
  /\ Alive
  /\ \E len \in 1 .. Len(out) - acked :
       /\ acked' = acked + len
       /\ IF response = NoResponse THEN UNCHANGED <<response, out, starved>>
          ELSE IF Finished(response) THEN response' = NoResponse /\ UNCHANGED <<out, starved>>
          ELSE AckStep(len)
  /\ UNCHANGED <<conn, request, parse, lines, parsed, answers, cut>>

\* Faulty variant of PollAsks: only acknowledgements move a response on.
PollAsksNever == FALSE

PollAsks == response # NoResponse /\ CanSend /\ ~Finished(response)

\* AsyncClient::_poll and _onPoll.
OnPoll ==
  /\ conn = "open" /\ PollAsks /\ acked' = acked
  /\ AckStep(0)
  /\ UNCHANGED <<conn, request, parse, lines, parsed, answers, cut>>

Closed ==
  /\ conn' = "closed"
  /\ UNCHANGED <<request, parse, lines, parsed, response, answers, out, acked, cut, starved>>

PollCloses == conn = "closing" /\ Closed

\* Three seconds without a byte; send turns this off.
RxTimeout == conn = "open" /\ answers = 0 /\ Closed

\* Five seconds without an acknowledgement: close, which the next poll does.
OnTimeout ==
  /\ conn = "open" /\ acked < Len(out) /\ conn' = "closing"
  /\ UNCHANGED <<request, parse, lines, parsed, response, answers, out, acked, cut, starved>>

\* The browser has its answer, or the user left.
Leaves == Alive /\ Closed

(* A save of the same file starts on another connection: the file that is  *)
(* open for reading ends here.                                             *)
FileCut ==
  /\ Alive /\ ~cut /\ cut' = TRUE
  /\ response.kind = "abstract" /\ response.length = FileLength
  /\ response.content # <<>>
  /\ response' = [response EXCEPT !.content = <<>>]
  /\ UNCHANGED <<conn, request, parse, lines, parsed, answers, out, acked, starved>>

Next ==
  \/ Accept \/ OnData \/ OnAck \/ OnPoll \/ PollCloses \/ RxTimeout \/ OnTimeout
  \/ Leaves \/ FileCut

\* lwIP polls, the browser acknowledges what it gets, and time passes.
Fairness == WF_vars(OnPoll) /\ WF_vars(OnAck) /\ WF_vars(RxTimeout)

Spec == Init /\ [][Next]_vars /\ Fairness

-----------------------------------------------------------------------------
(* The browser gets the bytes of the answer in their order, none twice and *)
(* none left out, however the room in the send buffer splits it; and a     *)
(* response that ends was sent and acknowledged in full.  Only a malloc    *)
(* that fails between the head and the content breaks this.                *)
WireInOrder ==
  ~starved => /\ \A i \in DOMAIN out : out[i] = i
              /\ response # NoResponse /\ Finished(response) =>
                   Len(out) = response.size /\ acked = Len(out)

(* A connection never stays open for nothing: its request is answered in   *)
(* full or it is closed, also when the handler sends nothing.  But a file  *)
(* that is shortened while it is sent keeps it open for ever.              *)
Settled ==
  \/ conn # "open" \/ cut
  \/ answers > 0 /\ (response = NoResponse \/ Finished(response))
NoneHangs == conn = "open" ~> Settled

=============================================================================
