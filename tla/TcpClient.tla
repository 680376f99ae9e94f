------------------------------ MODULE TcpClient ------------------------------
(***************************************************************************)
(* One connection of the web server as its users see it, the AsyncClient:  *)
(* add() and send() ask the lwIP thread to store and to send, an event     *)
(* tells of what was acknowledged, and a poll twice a second finds what    *)
(* was not.  The loop task writes (a web socket's messages), and so do the *)
(* callbacks in the async_tcp task; only that task closes.                 *)
(*                                                                         *)
(* What lwIP holds is counted in pieces.  How events are queued and how    *)
(* those of a closed client are removed is AsyncTcp's subject; here they   *)
(* are removed at once.  A connection has one life: how one is opened      *)
(* again is Peer's subject.                                                *)
(***************************************************************************)
EXTENDS Integers, SequencesExt

CONSTANTS
  SendBuffer,   \* pieces lwIP can hold
  EventRoom,    \* a bound on the events that wait for the async_tcp task
  AckTime,      \* _ack_timeout, in ticks
  RxTime        \* _rx_since_timeout of a request, in ticks; a web socket has none

VARIABLES
  fields,       \* _pcb # NULL, _pcb_busy and _close_pcb
  sent_age,     \* millis() - _pcb_sent_at, up to AckTime
  heard_age,    \* millis() - _rx_last_packet, up to the limit
  rx_limit,     \* _rx_since_timeout
  socket,       \* of lwIP: "open", "half" when the peer has closed, "gone"
  unacked,      \* what it holds
  waiting,      \* the events for the async_tcp task
  writing,      \* where each task is in write()
  node,         \* "up", or "restarted" after a write through a bad pointer
  owed,         \* send() returned true, and nothing has been heard since
  overtaken     \* an acknowledgement was handled before send() set _pcb_busy

ages == <<sent_age, heard_age>>
lwip == <<socket, unacked>>
history == <<owed, overtaken>>
clientVars == <<fields, ages, rx_limit, lwip, waiting, writing, node, history>>

Tasks == {"async_tcp", "loop"}
Held == socket \in {"open", "half"}
Limited(age, limit) == IF age < limit THEN age + 1 ELSE age

\* AsyncServer::_accept made the client.
ClientInit ==
  /\ fields = [pcb |-> TRUE, busy |-> FALSE, close |-> FALSE]
  /\ sent_age = 0 /\ heard_age = 0 /\ rx_limit \in {0, RxTime}
  /\ socket = "open" /\ unacked = 0 /\ waiting = <<>>
  /\ writing = [t \in Tasks |-> "no"]
  /\ node = "up" /\ owed = FALSE /\ overtaken = FALSE

-----------------------------------------------------------------------------
(* The lwIP thread.                                                        *)

Send(kind) ==
  /\ node = "up" /\ fields.pcb /\ Len(waiting) < EventRoom
  /\ waiting' = Append(waiting, kind)
  /\ UNCHANGED <<fields, ages, rx_limit, writing, node, history>>

\* The peer may acknowledge a part of what is out.
Acknowledged ==
  /\ Held /\ unacked > 0 /\ Send("sent")
  /\ unacked' \in 0 .. unacked - 1 /\ UNCHANGED socket

Received == socket = "open" /\ Send("recv") /\ UNCHANGED lwip
PeerEnds == socket = "open" /\ Send("fin") /\ socket' = "half" /\ UNCHANGED unacked

\* lwIP frees the connection before the client hears of it.
PeerResets == Held /\ Send("error") /\ socket' = "gone" /\ UNCHANGED unacked

\* One poll waits at a time: a bound of the model.
Polled == Held /\ ~Contains(waiting, "poll") /\ Send("poll") /\ UNCHANGED lwip

Traffic == Acknowledged \/ Received \/ PeerEnds \/ PeerResets \/ Polled

Tick ==
  /\ sent_age' = Limited(sent_age, AckTime) /\ heard_age' = Limited(heard_age, rx_limit)
  /\ UNCHANGED <<fields, rx_limit, lwip, waiting, writing, node, history>>

-----------------------------------------------------------------------------
(* write(), in either task.  Each API call waits for the lwIP thread.      *)

\* Of a connection lwIP has freed, _pcb->state may still say 4.
Space == \/ socket = "open" /\ unacked < SendBuffer
         \/ socket = "gone"

MayWrite == node = "up" /\ fields.pcb /\ Space

\* In the async_tcp task only a callback writes.
Write ==
  /\ MayWrite /\ writing["loop"] = "no"
  /\ writing' = [writing EXCEPT !["loop"] = "add"]
  /\ UNCHANGED <<fields, ages, rx_limit, lwip, waiting, node, history>>

\* tcp_write refuses what does not fit any more, and a connection that is closed.
TcpWrite(t) ==
  /\ writing[t] = "add"
  /\ IF Held /\ unacked < SendBuffer
     THEN unacked' = unacked + 1 /\ writing' = [writing EXCEPT ![t] = "send"]
     ELSE writing' = [writing EXCEPT ![t] = "no"] /\ UNCHANGED unacked
  /\ UNCHANGED <<fields, ages, rx_limit, socket, waiting, node, history>>

\* send() passes _pcb on as it finds it.  NULL, or memory lwIP has freed, may
\* restart the node; output may fail, and add()'s data stays.
TcpOutput(t) ==
  /\ writing[t] = "send"
  /\ \/ fields.pcb /\ writing' = [writing EXCEPT ![t] = "mark"] /\ UNCHANGED node
     \/ fields.pcb /\ writing' = [writing EXCEPT ![t] = "no"] /\ UNCHANGED node
     \/ (~fields.pcb \/ socket = "gone") /\ node' = "restarted" /\ UNCHANGED writing
  /\ UNCHANGED <<fields, ages, rx_limit, lwip, waiting, history>>

\* Faulty variant of Sent: the time is kept, the flag forgotten.
SentForgotten(t) ==
  /\ writing[t] = "mark"
  /\ writing' = [writing EXCEPT ![t] = "no"]
  /\ sent_age' = 0 /\ owed' = fields.pcb
  /\ UNCHANGED <<fields, heard_age, rx_limit, lwip, waiting, node, overtaken>>

\* ERR_OK: _pcb_busy and _pcb_sent_at.
Sent(t) ==
  /\ writing[t] = "mark"
  /\ writing' = [writing EXCEPT ![t] = "no"]
  /\ fields' = [fields EXCEPT !.busy = TRUE] /\ sent_age' = 0 /\ owed' = fields.pcb
  /\ UNCHANGED <<heard_age, rx_limit, lwip, waiting, node, overtaken>>

Writes(t) == node = "up" /\ (TcpWrite(t) \/ TcpOutput(t) \/ Sent(t))

-----------------------------------------------------------------------------
(* The async_tcp task.                                                     *)

\* The connection is closed, the client's events are removed and it is deleted.
Close ==
  /\ fields' = [fields EXCEPT !.pcb = FALSE, !.close = FALSE]
  /\ socket' = "gone" /\ waiting' = <<>> /\ owed' = FALSE
  /\ UNCHANGED <<heard_age, unacked, writing, overtaken>>

\* close() asks the next poll to do it.
CloseRequested(now) == [now EXCEPT !.close = TRUE]

\* A callback returns, writes, or asks for the client to be closed.
Callback(now) ==
  /\ waiting' = Tail(waiting) /\ UNCHANGED lwip
  /\ \/ fields' = now /\ UNCHANGED writing
     \/ MayWrite /\ fields' = now /\ writing' = [writing EXCEPT !["async_tcp"] = "add"]
     \/ fields' = CloseRequested(now) /\ UNCHANGED writing

Overtakes == overtaken' = (overtaken \/ writing["loop"] \in {"send", "mark"})

\* Faulty variant of HandleSent: what was sent is still waited for.
HandleSentKeeps ==
  heard_age' = 0 /\ owed' = FALSE /\ Overtakes /\ Callback(fields)

\* _sent: however little was acknowledged, nothing is waited for any more.
HandleSent ==
  heard_age' = 0 /\ owed' = FALSE /\ Overtakes /\ Callback([fields EXCEPT !.busy = FALSE])

HandleRecv == heard_age' = 0 /\ UNCHANGED history /\ Callback(fields)

\* Faulty variant of AckTimedOut: a full buffer is taken for one on its way.
AckTimedOutWithRoom == fields.busy /\ sent_age = AckTime /\ unacked < SendBuffer
AckTimedOut == fields.busy /\ sent_age = AckTime
RxTimedOut == rx_limit # 0 /\ heard_age = rx_limit

\* _poll.  The timeout callback closes the client, at once or at the next poll.
HandlePoll ==
  IF fields.close \/ (RxTimedOut /\ ~AckTimedOut) THEN Close
  ELSE IF AckTimedOut
  THEN /\ fields' = [fields EXCEPT !.busy = FALSE, !.close = TRUE]
       /\ waiting' = Tail(waiting) /\ owed' = FALSE
       /\ UNCHANGED <<heard_age, lwip, writing, overtaken>>
  ELSE Callback(fields) /\ UNCHANGED <<heard_age, history>>

\* Callbacks may also close at once; an end or an error always does.
Handle ==
  /\ node = "up" /\ writing["async_tcp"] = "no" /\ waiting # <<>>
  /\ \/ Close
     \/ Head(waiting) = "poll" /\ HandlePoll
     \/ Head(waiting) = "recv" /\ HandleRecv
     \/ Head(waiting) = "sent" /\ HandleSent
  /\ UNCHANGED <<sent_age, rx_limit, node>>

ClientNext == Traffic \/ Tick \/ Write \/ (\E t \in Tasks : Writes(t)) \/ Handle

\* Both tasks run, time passes, and lwIP polls: on a full queue it waits for its
\* turn.  Nothing is promised of the peer or of the writers.
ClientFairness ==
  /\ WF_clientVars(Handle) /\ WF_clientVars(Tick) /\ SF_clientVars(Polled)
  /\ \A t \in Tasks : WF_clientVars(Writes(t))

ClientSpec == ClientInit /\ [][ClientNext]_clientVars /\ ClientFairness

-----------------------------------------------------------------------------
ClientTypeOK ==
  /\ fields \in [{"pcb", "busy", "close"} -> BOOLEAN] /\ socket \in {"open", "half", "gone"}
  /\ sent_age \in 0 .. AckTime /\ heard_age \in 0 .. rx_limit /\ unacked \in 0 .. SendBuffer
  /\ Len(waiting) <= EventRoom

(* The client waits for an acknowledgement (_pcb_busy) only while lwIP     *)
(* holds something or one is queued: its timeout is no false alarm.  The   *)
(* exception is a send() of the loop task between whose tcp_write and last *)
(* line the async_tcp task handled an acknowledgement.                     *)
AckIsDue ==
  fields.busy /\ Held /\ ~overtaken => unacked > 0 \/ Contains(waiting, "sent")

(* A send() that returned true is followed by an acknowledgement, a        *)
(* timeout or the end of the connection, also with a mute peer and with    *)
(* two tasks that write until the buffer is full.  (It may be the          *)
(* acknowledgement of an earlier send; then a mute peer is noticed at the  *)
(* next send only, and by lwIP.)                                           *)
SendIsAnswered == owed ~> ~owed \/ node = "restarted"
=============================================================================
