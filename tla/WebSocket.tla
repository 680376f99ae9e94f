----------------------------- MODULE WebSocket ------------------------------
(***************************************************************************)
(* The web sockets of the node (AsyncWebSocket.cpp).  HTTP::send_message    *)
(* prints into one buffer and queues a message that refers to it at every  *)
(* client: in the loop task, and in the async_tcp task to answer a ping.   *)
(* Acknowledgements, polls and frames of the browsers are callbacks of     *)
(* that task.  A callback and a call to one client are one step; the loop  *)
(* task's walk over the clients is not.                                    *)
(***************************************************************************)
EXTENDS Integers, SequencesExt

CONSTANTS
  Clients,    \* the ids of the connections, 1 .. n in the order of _getNextId
  MaxQueued,  \* WS_MAX_QUEUED_MESSAGES
  Room,       \* TCP_SND_BUF
  Length,     \* the length of a message
  ControlLen, \* the length of a control frame
  MaxPrints,  \* a bound on the messages
  MaxFrames   \* a bound on the control frames of the browsers

VARIABLES
  status,     \* of each client: "none" before and "gone" after its life
  messages,   \* _messageQueue
  controls,   \* _controlQueue
  wire,       \* the sizes of the frames sent and not acknowledged
  partial,    \* _pstate: the opcode of a frame whose rest is to come
  buffers,    \* the buffers of the socket that are not freed
  locked,     \* those that are locked
  printed,    \* the number of buffers made
  made,       \* the buffer the loop task made last
  toTell,     \* textAll: the clients the loop still has to reach
  lpc,        \* HTTP::send_message: "idle", "made", "telling"
  pinged,     \* the control frames the browsers sent so far
  doubled,    \* the clients that were sent a control frame twice
  unguarded   \* the buffers freed between makeBuffer and lock

clientVars == <<status, messages, controls, wire, partial>>
bufferVars == <<buffers, locked, printed, made, toTell, lpc>>
vars == <<clientVars, bufferVars, pinged, doubled, unguarded>>

Sent == {"connected", "disconnecting"}

WsTypeOK ==
  /\ status \in [Clients -> Sent \cup {"none", "gone"}]
  /\ messages \in [Clients -> Seq([buffer : 1 .. MaxPrints, sent : 0 .. Length, ack : Nat,
                                   acked : Nat, state : {"sending", "sent"}])]
  /\ controls \in [Clients -> Seq([opcode : {"pong", "disconnect"}, finished : BOOLEAN])]
  /\ wire \in [Clients -> Seq(1 .. Room)]
  /\ partial \in [Clients -> {"none", "text", "other", "ping", "disconnect"}]
  /\ buffers \subseteq 1 .. MaxPrints /\ locked \subseteq buffers \cup unguarded
  /\ unguarded \subseteq 1 .. MaxPrints /\ made \in 0 .. MaxPrints
  /\ toTell \subseteq Clients /\ doubled \subseteq Clients

Init ==
  /\ status = [c \in Clients |-> "none"]
  /\ messages = [c \in Clients |-> <<>>] /\ controls = [c \in Clients |-> <<>>]
  /\ wire = [c \in Clients |-> <<>>] /\ partial = [c \in Clients |-> "none"]
  /\ buffers = {} /\ locked = {} /\ printed = 0 /\ made = 0 /\ toTell = {} /\ lpc = "idle"
  /\ pinged = 0 /\ doubled = {} /\ unguarded = {}

-----------------------------------------------------------------------------
(* Frames.  A queue is the record of one client while it is worked on.     *)

Total(w) == LET sum[n \in 0 .. Len(w)] == IF n = 0 THEN 0 ELSE sum[n - 1] + w[n]
            IN  sum[Len(w)]
Space(w) == Room - Total(w)
SendFrameWindow(w) == IF Space(w) < 9 THEN 0 ELSE Space(w) - 8
Header(len) == IF len > 125 THEN 4 ELSE 2

NewMessage(b) == [buffer |-> b, sent |-> 0, ack |-> 0, acked |-> 0, state |-> "sending"]
NewControl(op) == [opcode |-> op, finished |-> FALSE]
BetweenFrames(m) == m.acked = m.ack

MessageAck(m, len) ==
  LET a == [m EXCEPT !.acked = @ + len]
  IN  IF a.sent >= Length /\ a.acked >= a.ack THEN [a EXCEPT !.state = "sent"] ELSE a

\* AsyncWebSocketMultiMessage::send, and what it puts on the wire.
MessageSend(q) ==
  LET m == Head(q.messages)
      toSend == IF SendFrameWindow(q.wire) < Length - m.sent
                THEN SendFrameWindow(q.wire) ELSE Length - m.sent
  IN  IF m.state # "sending" \/ m.acked < m.ack THEN q
      ELSE IF m.sent = Length
      THEN [q EXCEPT !.messages[1].state = "sent"]
      ELSE [q EXCEPT !.messages[1] = [m EXCEPT !.sent = @ + toSend,
                                               !.ack = @ + toSend + Header(toSend)],
                     !.wire = Append(@, toSend + Header(toSend))]

\* AsyncWebSocketControl::send: nothing looks at finished before.
ControlSend(q) ==
  [q EXCEPT !.doubled = @ \/ Head(q.controls).finished,
            !.controls[1].finished = TRUE, !.wire = Append(@, ControlLen)]

\* Faulty variant of WithoutFinished: what is sent stays in front.
WithoutFinishedKept(q) == q

WithoutFinished(q) ==
  LET sending == {i \in DOMAIN q.messages : q.messages[i].state = "sending"}
  IN  [q EXCEPT !.messages = IF sending = {} THEN <<>> ELSE SubSeq(@, Min(sending), Len(@))]

SendNext(q) ==
  LET between == q.messages = <<>> \/ BetweenFrames(Head(q.messages))
  IN  IF q.controls # <<>> /\ between /\ SendFrameWindow(q.wire) > ControlLen - 1
      THEN ControlSend(q)
      ELSE IF q.messages # <<>> /\ between /\ SendFrameWindow(q.wire) > 0
      THEN MessageSend(q)
      ELSE q

\* The sets of one element bind a value that is used several times.
RunQueue(q) ==
  CHOOSE r \in {SendNext(left) : left \in {WithoutFinished(p) : p \in {q}}} : TRUE

CanSend(q) == Space(q.wire) > 0
RunIfCanSend(q) == IF CanSend(q) THEN RunQueue(q) ELSE q

\* A message more than the limit is still taken.
QueueMessage(q, b) ==
  RunIfCanSend(IF Len(q.messages) > MaxQueued THEN q
               ELSE [q EXCEPT !.messages = Append(@, NewMessage(b))])

QueueControl(q, op) == RunIfCanSend([q EXCEPT !.controls = Append(@, NewControl(op))])

-----------------------------------------------------------------------------
(* The clients.                                                            *)

Queue(c) == [messages |-> messages[c], controls |-> controls[c], wire |-> wire[c],
             doubled |-> c \in doubled]
SetQueue(c, queue) ==
  \E q \in {queue} :
    /\ messages' = [messages EXCEPT ![c] = q.messages]
    /\ controls' = [controls EXCEPT ![c] = q.controls]
    /\ wire' = [wire EXCEPT ![c] = q.wire]
    /\ doubled' = IF q.doubled THEN doubled \cup {c} ELSE doubled

\* _onDisconnect and the destructor: the client leaves the list with what
\* it had queued.
Leave(c) ==
  /\ status' = [status EXCEPT ![c] = "gone"]
  /\ SetQueue(c, [messages |-> <<>>, controls |-> <<>>, wire |-> <<>>,
                  doubled |-> c \in doubled])

Refers(queues, b) ==
  \E c \in Clients : \E i \in DOMAIN queues[c] : queues[c][i].buffer = b

\* Faulty variants of CanDelete: the lock, or the count of the messages that
\* refer to the buffer, is forgotten.
CanDeleteLocked(queues, b) == ~Refers(queues, b)
CanDeleteCounted(queues, b) == b \notin locked'

CanDelete(queues, b) == ~Refers(queues, b) /\ b \notin locked'

(* _cleanBuffers removes a buffer from the list it is walking, and goes on *)
(* from the list node it has just freed: whether it gets any further is    *)
(* undefined.  It is given the buffers and the messages it finds.          *)
CleanBuffers(list, queues) ==
  LET free == {b \in list : CanDelete(queues, b)}
  IN  \E removed \in SUBSET free :
        /\ free # {} => \E b \in removed : \A other \in free : b <= other
        /\ buffers' = list \ removed
        /\ unguarded' = IF lpc = "made" /\ made \in removed
                        THEN unguarded \cup {made} ELSE unguarded

\* AsyncWebSocketResponse::_ack, _addClient and the connect event.
Connect(c) ==
  /\ status[c] = "none"
  /\ \A d \in Clients : d < c => status[d] # "none"
  /\ status' = [status EXCEPT ![c] = "connected"]
  /\ UNCHANGED <<messages, controls, wire, partial, bufferVars, pinged, doubled, unguarded>>

Credit(q, len) ==
  IF len # 0 /\ q.messages # <<>> THEN [q EXCEPT !.messages[1] = MessageAck(@, len)] ELSE q

(* One callback may report several frames: the first n that are in flight. *)
(* The buffers are cleaned before the queue lets go of what is finished.   *)
OnAck(c) ==
  /\ status[c] \in Sent
  /\ UNCHANGED <<locked, printed, made, toTell, lpc, pinged>>
  /\ \E n \in 1 .. Len(wire[c]) :
       LET len == Total(SubSeq(wire[c], 1, n))
           q == [Queue(c) EXCEPT !.wire = SubSeq(@, n + 1, Len(@))]
           answered == q.controls # <<>> /\ Head(q.controls).finished
       IN  IF answered /\ status[c] = "disconnecting" /\ Head(q.controls).opcode = "disconnect"
           THEN /\ Leave(c) /\ partial' = [partial EXCEPT ![c] = "none"]
                /\ UNCHANGED <<buffers, unguarded>>
           ELSE /\ SetQueue(c, RunQueue(
                     IF answered THEN Credit([q EXCEPT !.controls = Tail(@)], len - ControlLen)
                     ELSE Credit(q, len)))
                /\ UNCHANGED <<status, partial>>
                /\ CleanBuffers(buffers, messages)

\* No keep-alive period is ever set.
OnPoll(c) ==
  /\ status[c] \in Sent
  /\ CanSend(Queue(c)) /\ (controls[c] # <<>> \/ messages[c] # <<>>)
  /\ SetQueue(c, RunQueue(Queue(c)))
  /\ UNCHANGED <<status, partial, bufferVars, pinged, unguarded>>

\* _onTimeout closes, and so does a browser that goes away.
OnTimeout(c) ==
  /\ status[c] \in Sent
  /\ Leave(c) /\ partial' = [partial EXCEPT ![c] = "none"]
  /\ UNCHANGED <<bufferVars, pinged, unguarded>>

-----------------------------------------------------------------------------
(* _onData: a frame in one segment, or its payload in two.  What comes     *)
(* in pieces is handed on in pieces, and HTTP::onEvent drops those.        *)

\* HTTP::send_message within the callback: the whole of printfAll.
Reply ==
  /\ printed < MaxPrints /\ printed' = printed + 1
  /\ \E queues \in {[d \in Clients |-> IF status[d] = "connected"
                                       THEN QueueMessage(Queue(d), printed') ELSE Queue(d)]} :
       /\ messages' = [d \in Clients |-> queues[d].messages]
       /\ controls' = [d \in Clients |-> queues[d].controls]
       /\ wire' = [d \in Clients |-> queues[d].wire]
       /\ doubled' = {d \in Clients : queues[d].doubled}
  /\ UNCHANGED <<locked, made, toTell, lpc>>
  /\ CleanBuffers(buffers \cup {printed'}, messages')

Frame(c, opcode, whole) ==
  /\ \/ opcode = "disconnect" /\ status[c] = "disconnecting" /\ Leave(c)
     \/ /\ opcode = "disconnect" /\ status[c] = "connected"
        /\ status' = [status EXCEPT ![c] = "disconnecting"]
        /\ SetQueue(c, QueueControl(Queue(c), "disconnect"))
     \/ opcode = "ping" /\ SetQueue(c, QueueControl(Queue(c), "pong")) /\ UNCHANGED status
     \/ opcode = "text" /\ whole /\ Reply /\ UNCHANGED status
     \/ /\ opcode = "other" \/ (opcode = "text" /\ ~whole)
        /\ UNCHANGED <<status, messages, controls, wire, doubled>>
  /\ partial' = [partial EXCEPT ![c] = "none"]
  /\ (opcode = "text" /\ whole) \/ UNCHANGED <<bufferVars, unguarded>>

\* A message other than the page's own ping ("other") makes no one answer here.
OnData(c) ==
  /\ status[c] \in Sent
  /\ \/ /\ partial[c] = "none" /\ pinged < MaxFrames /\ pinged' = pinged + 1
        /\ \E opcode \in {"text", "other", "ping", "disconnect"} :
             \/ Frame(c, opcode, TRUE)
             \/ /\ partial' = [partial EXCEPT ![c] = opcode]
                /\ UNCHANGED <<status, messages, controls, wire, doubled, bufferVars, unguarded>>
     \/ /\ partial[c] # "none" /\ Frame(c, partial[c], FALSE)
        /\ UNCHANGED pinged

-----------------------------------------------------------------------------
(* HTTP::send_message in the loop task: printfAll and textAll.             *)

PrintfAll ==
  /\ lpc = "idle" /\ printed < MaxPrints
  /\ printed' = printed + 1 /\ made' = printed' /\ buffers' = buffers \cup {made'}
  /\ lpc' = "made"
  /\ UNCHANGED <<clientVars, locked, toTell, pinged, doubled, unguarded>>

\* A buffer that is already freed is locked and used all the same.
TextAll ==
  /\ lpc = "made"
  /\ locked' = locked \cup {made}
  /\ toTell' = {c \in Clients : status[c] \in Sent} /\ lpc' = "telling"
  /\ UNCHANGED <<clientVars, buffers, printed, made, pinged, doubled, unguarded>>

\* The next client of the list, if it is still there.
Tell(c) ==
  /\ lpc = "telling" /\ c \in toTell /\ \A d \in toTell : c <= d
  /\ toTell' = toTell \ {c}
  /\ IF status[c] = "connected" THEN SetQueue(c, QueueMessage(Queue(c), made))
     ELSE UNCHANGED <<messages, controls, wire, doubled>>
  /\ UNCHANGED <<status, partial, buffers, locked, printed, made, lpc, pinged, unguarded>>

AllTold ==
  /\ lpc = "telling" /\ toTell = {}
  /\ locked' = locked \ {made} /\ lpc' = "idle"
  /\ UNCHANGED <<clientVars, printed, made, toTell, pinged, doubled>>
  /\ CleanBuffers(buffers, messages)

LoopTask == PrintfAll \/ TextAll \/ AllTold \/ \E c \in Clients : Tell(c)
Callback(c) == OnAck(c) \/ OnPoll(c) \/ OnTimeout(c) \/ OnData(c)

Next == LoopTask \/ \E c \in Clients : Connect(c) \/ Callback(c)

\* The network acknowledges or gives the connection up, lwIP polls, and the
\* loop task goes on.
Fairness ==
  /\ \A c \in Clients : WF_vars(OnAck(c)) /\ WF_vars(OnPoll(c))
  /\ WF_vars(LoopTask)

Spec == Init /\ [][Next]_vars /\ Fairness

-----------------------------------------------------------------------------
(* No message waits with a buffer that is freed, whichever callback cleans *)
(* the list while the loop task is half way through the clients; only a    *)
(* buffer freed between makeBuffer and lock is used after its end.         *)
BuffersLive ==
  \A c \in Clients : \A i \in DOMAIN messages[c] :
    messages[c][i].buffer \in buffers \cup unguarded

(* What is queued for a client goes out, or the client goes: the           *)
(* acknowledgements of control frames and messages are told apart, unless  *)
(* a control frame was sent twice.                                         *)
QueueDrains ==
  \A c \in Clients :
    messages[c] # <<>> ~> (messages[c] = <<>> \/ c \in doubled)

=============================================================================
