--------------------------- MODULE WebNode_proofs ---------------------------
(***************************************************************************)
(* What is proved of the layers between a page and the board: the messages *)
(* of the web sockets and the buffers they refer to (WebSocket), the       *)
(* page's requests with the files they save (AjaxQueue), the bytes of a    *)
(* response (WebServer), and which handler takes a request (Handlers).     *)
(***************************************************************************)
EXTENDS MCWebNode, FiniteSetTheorems, SequenceTheorems, WellFoundedInduction, TLAPS

-----------------------------------------------------------------------------
(* Sequences of messages that refer to given buffers only.                 *)

Refer(S, B) == \A m \in S : "buffer" \in DOMAIN m /\ m.buffer \in B

Keeps(s, B) == \E S : s \in Seq(S) /\ Refer(S, B)

\* A queue that keeps to some buffers keeps to more of them.
LEMMA Widening ==
  ASSUME NEW s, NEW B, NEW C, Keeps(s, B), B \subseteq C
  PROVE  Keeps(s, C)
BY DEF Keeps, Refer

\* An empty queue refers to nothing.
LEMMA Emptying ==
  ASSUME NEW B
  PROVE  Keeps(<<>>, B)
<1>1. <<>> \in Seq({}) /\ Refer({}, B)
  BY EmptySeq DEF Refer
<1> QED
  BY <1>1 DEF Keeps

\* A message more, with a buffer of the set.
LEMMA Adding ==
  ASSUME NEW s, NEW B, NEW m, Keeps(s, B), "buffer" \in DOMAIN m, m.buffer \in B
  PROVE  Keeps(Append(s, m), B)
<1>1. PICK S : s \in Seq(S) /\ Refer(S, B)
  BY DEF Keeps
<1>2. Refer(S \cup {m}, B)
  BY <1>1 DEF Refer
<1>3. s \in Seq(S \cup {m})
  BY <1>1
<1>4. Append(s, m) \in Seq(S \cup {m})
  BY <1>3
<1> QED
  BY <1>2, <1>4 DEF Keeps

\* The message in front refers to a buffer of the set.
LEMMA InFront ==
  ASSUME NEW s, NEW B, Keeps(s, B), s # <<>>
  PROVE  /\ 1 \in DOMAIN s /\ s[1] = Head(s)
         /\ "buffer" \in DOMAIN Head(s) /\ Head(s).buffer \in B
<1>1. PICK S : s \in Seq(S) /\ Refer(S, B)
  BY DEF Keeps
<1>2. 1 \in DOMAIN s /\ s[1] = Head(s) /\ Head(s) \in S
  BY <1>1
<1> QED
  BY <1>1, <1>2 DEF Refer

\* The first message in another state.
LEMMA Replacing ==
  ASSUME NEW s, NEW B, NEW m, Keeps(s, B), s # <<>>, "buffer" \in DOMAIN m, m.buffer \in B
  PROVE  Keeps([s EXCEPT ![1] = m], B)
<1>1. PICK S : s \in Seq(S) /\ Refer(S, B)
  BY DEF Keeps
<1>2. Refer(S \cup {m}, B)
  BY <1>1 DEF Refer
<1>3. s \in Seq(S \cup {m}) /\ 1 \in 1 .. Len(s)
  BY <1>1
<1>4. [s EXCEPT ![1] = m] \in Seq(S \cup {m})
  BY <1>3, ExceptSeq
<1> QED
  BY <1>2, <1>4 DEF Keeps

\* What is left when the messages in front are taken away.
LEMMA Dropping ==
  ASSUME NEW s, NEW B, Keeps(s, B), NEW i \in DOMAIN s
  PROVE  Keeps(SubSeq(s, i, Len(s)), B)
<1>1. PICK S : s \in Seq(S) /\ Refer(S, B)
  BY DEF Keeps
<1>2. SubSeq(s, i, Len(s)) \in Seq(S)
  BY <1>1
<1> QED
  BY <1>1, <1>2 DEF Keeps

\* Every message refers to a buffer of the set.
LEMMA Referring ==
  ASSUME NEW s, NEW B, Keeps(s, B), NEW i \in DOMAIN s
  PROVE  s[i].buffer \in B
<1>1. PICK S : s \in Seq(S) /\ Refer(S, B)
  BY DEF Keeps
<1>2. s[i] \in S
  BY <1>1
<1> QED
  BY <1>1, <1>2 DEF Refer

\* Buffers no message refers to may be freed.
LEMMA Freeing ==
  ASSUME NEW s, NEW B, NEW R, Keeps(s, B), \A i \in DOMAIN s : s[i].buffer \notin R
  PROVE  Keeps(s, B \ R)
<1>1. PICK S : s \in Seq(S) /\ Refer(S, B)
  BY DEF Keeps
<1>2. PICK T : T = {m \in S : m.buffer \notin R}
  OBVIOUS
<1>3. \A i \in 1 .. Len(s) : s[i] \in T
  BY <1>1, <1>2
<1>4. s \in Seq(T)
  BY <1>1, <1>3
<1>5. Refer(T, B \ R)
  BY <1>1, <1>2 DEF Refer
<1> QED
  BY <1>4, <1>5 DEF Keeps

-----------------------------------------------------------------------------
(* The record of one client's queue while it is worked on.                 *)

QueueKeeps(q, B) == "messages" \in DOMAIN q /\ Keeps(q.messages, B)

\* What an acknowledgement is credited to stays a message of its buffer.
LEMMA Acknowledging ==
  ASSUME NEW m, NEW len, NEW B, "buffer" \in DOMAIN m, m.buffer \in B
  PROVE  /\ "buffer" \in DOMAIN Sockets!MessageAck(m, len)
         /\ Sockets!MessageAck(m, len).buffer \in B
BY DEF Sockets!MessageAck

LEMMA Crediting ==
  ASSUME NEW q, NEW len, NEW B, QueueKeeps(q, B)
  PROVE  QueueKeeps(Sockets!Credit(q, len), B)
<1>1. CASE ~(len # 0 /\ q.messages # <<>>)
  BY <1>1 DEF Sockets!Credit
<1>2. CASE len # 0 /\ q.messages # <<>>
  <2>1. /\ 1 \in DOMAIN q.messages
        /\ "buffer" \in DOMAIN q.messages[1] /\ q.messages[1].buffer \in B
    BY <1>2, InFront DEF QueueKeeps
  <2>2. PICK m : m = Sockets!MessageAck(q.messages[1], len)
    OBVIOUS
  <2>3. Keeps([q.messages EXCEPT ![1] = m], B)
    BY <1>2, <2>1, <2>2, Acknowledging, Replacing DEF QueueKeeps
  <2>4. Sockets!Credit(q, len) = [q EXCEPT !.messages = [q.messages EXCEPT ![1] = m]]
    BY <1>2, <2>1, <2>2, SMTT(30) DEF Sockets!Credit
  <2> QED
    BY <2>3, <2>4 DEF QueueKeeps
<1> QED
  BY <1>1, <1>2

\* A frame of the first message goes out.
LEMMA SendingMessage ==
  ASSUME NEW q, NEW B, QueueKeeps(q, B), q.messages # <<>>
  PROVE  QueueKeeps(Sockets!MessageSend(q), B)
<1>1. /\ 1 \in DOMAIN q.messages /\ q.messages[1] = Head(q.messages)
      /\ "buffer" \in DOMAIN q.messages[1] /\ q.messages[1].buffer \in B
  BY InFront DEF QueueKeeps
<1>2. CASE Sockets!MessageSend(q) = q
  BY <1>2
<1>3. CASE \E s : Sockets!MessageSend(q) = [q EXCEPT !.messages[1].state = s]
  <2>1. PICK s : Sockets!MessageSend(q) = [q EXCEPT !.messages[1].state = s]
    BY <1>3
  <2>2. PICK m : m = [q.messages[1] EXCEPT !.state = s]
    OBVIOUS
  <2>3. "buffer" \in DOMAIN m /\ m.buffer \in B
    BY <1>1, <2>2
  <2>4. Keeps([q.messages EXCEPT ![1] = m], B)
    BY <2>3, Replacing DEF QueueKeeps
  <2>5. Sockets!MessageSend(q) = [q EXCEPT !.messages = [q.messages EXCEPT ![1] = m]]
    BY <2>1, <2>2
  <2> QED
    BY <2>4, <2>5 DEF QueueKeeps
<1>4. CASE \E s, a, w : Sockets!MessageSend(q)
             = [q EXCEPT !.messages[1] = [Head(q.messages) EXCEPT !.sent = s, !.ack = a],
                         !.wire = w]
  <2>1. PICK s, a, w : Sockets!MessageSend(q)
             = [q EXCEPT !.messages[1] = [Head(q.messages) EXCEPT !.sent = s, !.ack = a],
                         !.wire = w]
    BY <1>4
  <2>2. PICK m : m = [Head(q.messages) EXCEPT !.sent = s, !.ack = a]
    OBVIOUS
  <2>3. "buffer" \in DOMAIN m /\ m.buffer \in B
    BY <1>1, <2>2
  <2>4. Keeps([q.messages EXCEPT ![1] = m], B)
    BY <2>3, Replacing DEF QueueKeeps
  <2>5. Sockets!MessageSend(q) = [q EXCEPT !.messages = [q.messages EXCEPT ![1] = m], !.wire = w]
    BY <2>1, <2>2
  <2> QED
    BY <2>4, <2>5 DEF QueueKeeps
<1> QED
  BY <1>2, <1>3, <1>4 DEF Sockets!MessageSend

\* A control frame leaves the messages alone.
LEMMA SendingControl ==
  ASSUME NEW q, NEW B, QueueKeeps(q, B)
  PROVE  QueueKeeps(Sockets!ControlSend(q), B)
BY DEF Sockets!ControlSend, QueueKeeps

LEMMA SendingNext ==
  ASSUME NEW q, NEW B, QueueKeeps(q, B)
  PROVE  QueueKeeps(Sockets!SendNext(q), B)
BY SendingMessage, SendingControl DEF Sockets!SendNext

\* A set of positions has a first one.
LEMMA Least ==
  ASSUME NEW T, T \subseteq Nat, T # {}
  PROVE  Sockets!Min(T) \in T
<1>1. PICK R : R = OpToRel(<, Nat)
  OBVIOUS
<1>2. IsWellFoundedOn(R, Nat)
  BY <1>1, NatLessThanWellFounded
<1>3. PICK m \in T : \A k \in T : ~(<<k, m>> \in R)
  BY <1>2, WFMin
<1>4. \A k \in Nat : k < m => <<k, m>> \in R
  BY <1>1, <1>3 DEF OpToRel
<1>5. ASSUME NEW k \in T PROVE m <= k
  <2>1. k \in Nat /\ m \in Nat /\ ~(k < m)
    BY <1>3, <1>4
  <2> QED
    BY <2>1
<1> QED
  BY <1>5 DEF Sockets!Min

\* Finished messages leave the queue.
LEMMA LettingGo ==
  ASSUME NEW q, NEW B, QueueKeeps(q, B)
  PROVE  QueueKeeps(Sockets!WithoutFinished(q), B)
<1>1. PICK T : T = {i \in DOMAIN q.messages : q.messages[i].state = "sending"}
  OBVIOUS
<1>2. Sockets!WithoutFinished(q)
        = [q EXCEPT !.messages = IF T = {} THEN <<>>
                                 ELSE SubSeq(q.messages, Sockets!Min(T), Len(q.messages))]
  BY <1>1 DEF Sockets!WithoutFinished
<1>3. CASE T = {}
  BY <1>2, <1>3, Emptying DEF QueueKeeps
<1>4. CASE T # {}
  <2>1. T \subseteq Nat
    BY <1>1 DEF QueueKeeps, Keeps
  <2>2. Sockets!Min(T) \in DOMAIN q.messages
    BY <1>1, <1>4, <2>1, Least
  <2>3. Keeps(SubSeq(q.messages, Sockets!Min(T), Len(q.messages)), B)
    BY <2>2, Dropping DEF QueueKeeps
  <2> QED
    BY <1>2, <1>4, <2>3 DEF QueueKeeps
<1> QED
  BY <1>3, <1>4

LEMMA Running ==
  ASSUME NEW q, NEW B, QueueKeeps(q, B)
  PROVE  QueueKeeps(Sockets!RunQueue(q), B)
<1>1. Sockets!RunQueue(q) = Sockets!SendNext(Sockets!WithoutFinished(q))
  BY DEF Sockets!RunQueue
<1> QED
  BY <1>1, LettingGo, SendingNext

LEMMA RunningIfRoom ==
  ASSUME NEW q, NEW B, QueueKeeps(q, B)
  PROVE  QueueKeeps(Sockets!RunIfCanSend(q), B)
BY Running DEF Sockets!RunIfCanSend

\* A message joins the queue, or is dropped at the limit.
LEMMA QueueingMessage ==
  ASSUME NEW q, NEW B, NEW b, QueueKeeps(q, B), b \in B
  PROVE  QueueKeeps(Sockets!QueueMessage(q, b), B)
<1>1. Keeps(Append(q.messages, Sockets!NewMessage(b)), B)
  BY Adding DEF QueueKeeps, Sockets!NewMessage
<1>2. QueueKeeps([q EXCEPT !.messages = Append(q.messages, Sockets!NewMessage(b))], B)
  BY <1>1 DEF QueueKeeps
<1> QED
  BY <1>2, RunningIfRoom DEF Sockets!QueueMessage

LEMMA QueueingControl ==
  ASSUME NEW q, NEW B, NEW op, QueueKeeps(q, B)
  PROVE  QueueKeeps(Sockets!QueueControl(q, op), B)
<1>1. QueueKeeps([q EXCEPT !.controls = Append(q.controls, Sockets!NewControl(op))], B)
  BY DEF QueueKeeps
<1> QED
  BY <1>1, RunningIfRoom DEF Sockets!QueueControl

-----------------------------------------------------------------------------
(* The invariant.                                                          *)

\* Every message of every client refers to a buffer that is there, or that
\* was freed before it was locked.
AllKeep(queues, B) == \A c \in Clients : Keeps(queues[c], B)

\* The buffer the loop task made is there too, and locked while it is told.
SocketInv ==
  /\ messages = [c \in Clients |-> messages[c]]
  /\ AllKeep(messages, buffers \cup unguarded)
  /\ lpc \in {"made", "telling"} => made \in buffers \cup unguarded
  /\ lpc = "telling" => made \in locked

\* One client's queue is replaced.
LEMMA Setting ==
  ASSUME NEW c \in Clients, NEW q, NEW B, AllKeep(messages, B), QueueKeeps(q, B),
         messages = [d \in Clients |-> messages[d]], Sockets!SetQueue(c, q)
  PROVE  messages' = [d \in Clients |-> messages'[d]] /\ AllKeep(messages', B)
<1>1. messages' = [messages EXCEPT ![c] = q.messages]
  BY DEF Sockets!SetQueue
<1> QED
  BY <1>1 DEF AllKeep, QueueKeeps

\* What one client has queued is kept.
LEMMA Taken ==
  ASSUME NEW c \in Clients, NEW B, AllKeep(messages, B)
  PROVE  QueueKeeps(Sockets!Queue(c), B)
BY DEF AllKeep, QueueKeeps, Sockets!Queue

\* The queues as they were keep to what the cleaning leaves.
LEMMA Cleaning ==
  ASSUME NEW list, NEW queues, AllKeep(queues, list \cup unguarded),
         Sockets!CleanBuffers(list, queues)
  PROVE  AllKeep(queues, buffers' \cup unguarded')
<1>1. PICK removed \in SUBSET list :
        /\ \A b \in removed : ~Sockets!Refers(queues, b)
        /\ buffers' = list \ removed
        /\ unguarded' \in {unguarded, unguarded \cup {made}}
  BY DEF Sockets!CleanBuffers, Sockets!CanDelete
<1>2. ASSUME NEW c \in Clients PROVE Keeps(queues[c], buffers' \cup unguarded')
  <2>1. \A i \in DOMAIN queues[c] : queues[c][i].buffer \notin removed
    BY <1>1 DEF Sockets!Refers
  <2>2. Keeps(queues[c], (list \cup unguarded) \ removed)
    BY <2>1, Freeing DEF AllKeep
  <2>3. (list \cup unguarded) \ removed \subseteq buffers' \cup unguarded'
    BY <1>1
  <2> QED
    BY <2>2, <2>3, Widening
<1> QED
  BY <1>2 DEF AllKeep

\* The buffer in the loop task's hands survives the cleaning, if it is
\* locked, or is noted as freed too early.
LEMMA Surviving ==
  ASSUME NEW list, NEW queues, Sockets!CleanBuffers(list, queues),
         made \in list \cup unguarded, lpc = "made" \/ made \in locked'
  PROVE  made \in buffers' \cup unguarded'
BY DEF Sockets!CleanBuffers, Sockets!CanDelete

-----------------------------------------------------------------------------
(* The steps of the sockets.                                               *)

\* With the buffers as they were, what the queues refer to is what counts.
SocketRest == UNCHANGED <<buffers, locked, made, lpc, unguarded>>

\* One client's queue is worked on by a callback that makes no buffer.
LEMMA QueueStep ==
  ASSUME SocketInv, NEW c \in Clients, NEW q, QueueKeeps(q, buffers \cup unguarded),
         Sockets!SetQueue(c, q), SocketRest
  PROVE  SocketInv'
<1>1. /\ messages' = [d \in Clients |-> messages'[d]]
      /\ AllKeep(messages', buffers \cup unguarded)
  BY Setting DEF SocketInv
<1> QED
  BY <1>1 DEF SocketInv, SocketRest, AllKeep

LEMMA QuietStep ==
  ASSUME SocketInv, UNCHANGED messages, SocketRest
  PROVE  SocketInv'
BY DEF SocketInv, SocketRest, AllKeep

\* What a client leaves behind refers to nothing.
LEMMA LeaveStep ==
  ASSUME SocketInv, NEW c \in Clients, Sockets!Leave(c), SocketRest
  PROVE  SocketInv'
<1>1. PICK q : /\ q = [messages |-> <<>>, controls |-> <<>>, wire |-> <<>>,
                       doubled |-> c \in doubled]
              /\ Sockets!SetQueue(c, q)
  BY DEF Sockets!Leave
<1>2. QueueKeeps(q, buffers \cup unguarded)
  BY <1>1, Emptying DEF QueueKeeps
<1> QED
  BY <1>1, <1>2, QueueStep

\* The buffers are cleaned with the queues as they are, and then the queue
\* of the client goes on.
LEMMA AckStep ==
  ASSUME SocketInv, NEW c \in Clients, Sockets!OnAck(c)
  PROVE  SocketInv'
<1>1. UNCHANGED <<locked, made, lpc>>
  BY DEF Sockets!OnAck
<1>2. PICK len, rest :
        \/ Sockets!Leave(c) /\ UNCHANGED <<buffers, unguarded>>
        \/ /\ \E q \in {[Sockets!Queue(c) EXCEPT !.wire = rest]} :
               \/ Sockets!SetQueue(c, Sockets!RunQueue(Sockets!Credit(q, len)))
               \/ Sockets!SetQueue(c, Sockets!RunQueue(Sockets!Credit(
                     [q EXCEPT !.controls = Tail(q.controls)], len - ControlLen)))
           /\ Sockets!CleanBuffers(buffers, messages)
  BY DEF Sockets!OnAck
<1>3. CASE Sockets!Leave(c) /\ UNCHANGED <<buffers, unguarded>>
  BY <1>1, <1>3, LeaveStep DEF SocketRest
<1>4. CASE /\ \E q \in {[Sockets!Queue(c) EXCEPT !.wire = rest]} :
               \/ Sockets!SetQueue(c, Sockets!RunQueue(Sockets!Credit(q, len)))
               \/ Sockets!SetQueue(c, Sockets!RunQueue(Sockets!Credit(
                     [q EXCEPT !.controls = Tail(q.controls)], len - ControlLen)))
           /\ Sockets!CleanBuffers(buffers, messages)
  <2>1. PICK B : B = buffers' \cup unguarded'
    OBVIOUS
  <2>2. AllKeep(messages, B)
    BY <1>4, <2>1, Cleaning DEF SocketInv
  <2>3. PICK q : /\ q = [Sockets!Queue(c) EXCEPT !.wire = rest]
                 /\ \/ Sockets!SetQueue(c, Sockets!RunQueue(Sockets!Credit(q, len)))
                    \/ Sockets!SetQueue(c, Sockets!RunQueue(Sockets!Credit(
                          [q EXCEPT !.controls = Tail(q.controls)], len - ControlLen)))
    BY <1>4
  <2>4. QueueKeeps(Sockets!Queue(c), B)
    BY <2>2, Taken
  <2>5. QueueKeeps(q, B)
    BY <2>3, <2>4 DEF QueueKeeps
  <2>6. QueueKeeps([q EXCEPT !.controls = Tail(q.controls)], B)
    BY <2>5 DEF QueueKeeps
  <2>7. PICK r : QueueKeeps(r, B) /\ Sockets!SetQueue(c, r)
    BY <2>3, <2>5, <2>6, Crediting, Running
  <2>8. messages' = [d \in Clients |-> messages'[d]] /\ AllKeep(messages', B)
    BY <2>2, <2>7, Setting DEF SocketInv
  <2>9. lpc \in {"made", "telling"} => made \in buffers' \cup unguarded'
    BY <1>1, <1>4, Surviving DEF SocketInv
  <2> QED
    BY <1>1, <2>1, <2>8, <2>9 DEF SocketInv, AllKeep
<1> QED
  BY <1>2, <1>3, <1>4

LEMMA PollStep ==
  ASSUME SocketInv, NEW c \in Clients, Sockets!OnPoll(c)
  PROVE  SocketInv'
<1>1. QueueKeeps(Sockets!RunQueue(Sockets!Queue(c)), buffers \cup unguarded)
  BY Taken, Running DEF SocketInv
<1> QED
  BY <1>1, QueueStep DEF Sockets!OnPoll, SocketRest, Sockets!bufferVars

LEMMA TimeoutStep ==
  ASSUME SocketInv, NEW c \in Clients, Sockets!OnTimeout(c)
  PROVE  SocketInv'
BY LeaveStep DEF Sockets!OnTimeout, SocketRest, Sockets!bufferVars

\* printfAll within the callback: every client's queue may take the new
\* buffer, which is in the list when it is cleaned.
LEMMA ReplyStep ==
  ASSUME SocketInv, Sockets!Reply
  PROVE  SocketInv'
<1>1. PICK B : B = buffers \cup {printed'} \cup unguarded
  OBVIOUS
<1>2. PICK queues :
        /\ queues = [d \in Clients |-> IF status[d] = "connected"
                                       THEN Sockets!QueueMessage(Sockets!Queue(d), printed')
                                       ELSE Sockets!Queue(d)]
        /\ messages' = [d \in Clients |-> queues[d].messages]
  BY DEF Sockets!Reply
<1>3. UNCHANGED <<locked, made, lpc>>
      /\ Sockets!CleanBuffers(buffers \cup {printed'}, messages')
  BY DEF Sockets!Reply
<1>4. ASSUME NEW d \in Clients PROVE QueueKeeps(queues[d], B)
  <2>1. Keeps(messages[d], B)
    BY <1>1, Widening DEF SocketInv, AllKeep
  <2>2. QueueKeeps(Sockets!Queue(d), B)
    BY <2>1 DEF QueueKeeps, Sockets!Queue
  <2>3. QueueKeeps(Sockets!QueueMessage(Sockets!Queue(d), printed'), B)
    BY <1>1, <2>2, QueueingMessage
  <2> QED
    BY <1>2, <2>2, <2>3
<1>5. AllKeep(messages', B)
  BY <1>2, <1>4 DEF AllKeep, QueueKeeps
<1>6. AllKeep(messages', buffers' \cup unguarded')
  BY <1>1, <1>3, <1>5, Cleaning
<1>7. lpc \in {"made", "telling"} => made \in buffers' \cup unguarded'
  BY <1>3, Surviving DEF SocketInv
<1>8. messages' = [d \in Clients |-> messages'[d]]
  BY <1>2
<1> QED
  BY <1>3, <1>6, <1>7, <1>8 DEF SocketInv, AllKeep

LEMMA FrameStep ==
  ASSUME SocketInv, NEW c \in Clients, NEW opcode, NEW whole,
         Sockets!Frame(c, opcode, whole)
  PROVE  SocketInv'
<1>1. \A op : QueueKeeps(Sockets!QueueControl(Sockets!Queue(c), op), buffers \cup unguarded)
  BY Taken, QueueingControl DEF SocketInv
<1>2. CASE opcode = "text" /\ whole /\ Sockets!Reply
  BY <1>2, ReplyStep
<1>3. CASE ~(opcode = "text" /\ whole)
  <2>1. SocketRest
    BY <1>3 DEF Sockets!Frame, SocketRest, Sockets!bufferVars
  <2>2. \/ Sockets!Leave(c)
        \/ \E op : Sockets!SetQueue(c, Sockets!QueueControl(Sockets!Queue(c), op))
        \/ UNCHANGED messages
    BY <1>3 DEF Sockets!Frame
  <2> QED
    BY <1>1, <2>1, <2>2, LeaveStep, QueueStep, QuietStep
<1> QED
  BY <1>2, <1>3 DEF Sockets!Frame

LEMMA DataStep ==
  ASSUME SocketInv, NEW c \in Clients, Sockets!OnData(c)
  PROVE  SocketInv'
<1>1. CASE \E opcode, whole : Sockets!Frame(c, opcode, whole)
  BY <1>1, FrameStep
<1>2. CASE UNCHANGED <<messages, Sockets!bufferVars, unguarded>>
  BY <1>2, QuietStep DEF SocketRest, Sockets!bufferVars
<1> QED
  BY <1>1, <1>2 DEF Sockets!OnData

LEMMA ConnectStep ==
  ASSUME SocketInv, NEW c \in Clients, Sockets!Connect(c)
  PROVE  SocketInv'
BY QuietStep DEF Sockets!Connect, SocketRest, Sockets!bufferVars

\* Where the loop task makes a buffer, locks it, hands it to the clients one
\* by one and unlocks it.
LEMMA LoopStep ==
  ASSUME SocketInv, Sockets!LoopTask
  PROVE  SocketInv'
<1>1. CASE Sockets!PrintfAll
  <2>1. /\ UNCHANGED <<messages, locked, unguarded>> /\ lpc' = "made"
        /\ buffers' = buffers \cup {made'}
    BY <1>1 DEF Sockets!PrintfAll, Sockets!clientVars
  <2>2. buffers \cup unguarded \subseteq buffers' \cup unguarded'
    BY <2>1
  <2>3. \A c \in Clients : Keeps(messages[c], buffers' \cup unguarded')
    BY <2>2, Widening DEF SocketInv, AllKeep
  <2> QED
    BY <2>1, <2>3 DEF SocketInv, AllKeep
<1>2. CASE Sockets!TextAll
  <2>1. /\ UNCHANGED <<messages, buffers, made, unguarded>> /\ lpc = "made"
        /\ lpc' = "telling" /\ locked' = locked \cup {made}
    BY <1>2 DEF Sockets!TextAll, Sockets!clientVars
  <2> QED
    BY <2>1 DEF SocketInv, AllKeep
<1>3. CASE Sockets!AllTold
  <2>1. /\ UNCHANGED <<messages, made>> /\ lpc' = "idle"
        /\ Sockets!CleanBuffers(buffers, messages)
    BY <1>3 DEF Sockets!AllTold, Sockets!clientVars
  <2>2. AllKeep(messages, buffers' \cup unguarded')
    BY <2>1, Cleaning DEF SocketInv
  <2> QED
    BY <2>1, <2>2 DEF SocketInv, AllKeep
<1>4. ASSUME NEW c \in Clients, Sockets!Tell(c) PROVE SocketInv'
  <2>1. SocketRest /\ lpc = "telling"
    BY <1>4 DEF Sockets!Tell, SocketRest
  <2>2. QueueKeeps(Sockets!QueueMessage(Sockets!Queue(c), made), buffers \cup unguarded)
    BY <2>1, Taken, QueueingMessage DEF SocketInv
  <2>3. \/ Sockets!SetQueue(c, Sockets!QueueMessage(Sockets!Queue(c), made))
        \/ UNCHANGED messages
    BY <1>4 DEF Sockets!Tell
  <2> QED
    BY <2>1, <2>2, <2>3, QueueStep, QuietStep
<1> QED
  BY <1>1, <1>2, <1>3, <1>4 DEF Sockets!LoopTask

-----------------------------------------------------------------------------
(* The theorem.                                                            *)

\* A node begins with no client of the web socket.
LEMMA SocketStarts ==
  ASSUME NodeInit
  PROVE  SocketInv
<1>1. messages = [c \in Clients |-> <<>>] /\ lpc = "idle"
  BY DEF NodeInit, Sockets!Init
<1> QED
  BY <1>1, Emptying DEF SocketInv, AllKeep

LEMMA SocketSteps ==
  ASSUME SocketInv, [NodeNext]_allVars
  PROVE  SocketInv'
<1>1. CASE Sockets!Next
  BY <1>1, LoopStep, ConnectStep, AckStep, PollStep, TimeoutStep, DataStep
     DEF Sockets!Next, Sockets!Callback
<1>2. CASE UNCHANGED socketVars
  BY <1>2, QuietStep DEF socketVars, SocketRest
<1> QED
  BY <1>1, <1>2 DEF NodeNext, allVars

(* For any number of browsers, any sizes and any limits of the queues, and *)
(* whichever callback cleans the list of buffers while the loop task is    *)
(* half way through the clients, no message waits with a buffer that is    *)
(* freed, but for one freed between makeBuffer and lock (AsyncWebSocket's  *)
(* _cleanBuffers, textAll and printfAll).                                  *)
THEOREM MessagesKeepBuffers == NodeSpec => []BuffersLive
<1>1. NodeInit => SocketInv
  BY SocketStarts
<1>2. SocketInv /\ [NodeNext]_allVars => SocketInv'
  BY SocketSteps
<1>3. SocketInv => BuffersLive
  BY Referring DEF SocketInv, AllKeep, BuffersLive, Sockets!BuffersLive
<1> QED
  BY <1>1, <1>2, <1>3, PTL DEF NodeSpec

-----------------------------------------------------------------------------
(* The page's requests: one is with the board, the others wait behind it.  *)

Pending == [id : Nat, what : Files \cup {"load", "default"}, data : Nat,
            at : {"queued", "sent", "answered", "hung"}]

\* A queue whose ids were all given below n, and once; its head is with the
\* board and nothing else is.
Queued(reqs, n) ==
  /\ reqs \in Seq(Pending) /\ n \in Nat
  /\ \A i \in 1 .. Len(reqs) : reqs[i].id < n
  /\ \A i, j \in 1 .. Len(reqs) : reqs[i].id = reqs[j].id => i = j
  /\ \A i \in 1 .. Len(reqs) : reqs[i].at = "queued" <=> i # 1

\* The same request, whatever has become of it.
Alike(r, s) == r.id = s.id /\ r.what = s.what /\ r.data = s.data

\* The first request is with the board in another state.
LEMMA Heading ==
  ASSUME NEW s \in Seq(Pending), s # <<>>, NEW r \in Pending, Alike(r, s[1])
  PROVE  /\ [s EXCEPT ![1] = r] \in Seq(Pending) /\ Len([s EXCEPT ![1] = r]) = Len(s)
         /\ [s EXCEPT ![1] = r][1] = r
         /\ \A i \in 1 .. Len(s) : i # 1 => [s EXCEPT ![1] = r][i] = s[i]
         /\ \A i \in 1 .. Len(s) : Alike([s EXCEPT ![1] = r][i], s[i])
<1>1. 1 \in 1 .. Len(s)
  BY LenProperties, EmptySeq
<1>2. PICK t : t = [s EXCEPT ![1] = r]
  OBVIOUS
<1>3. /\ t \in Seq(Pending) /\ Len(t) = Len(s)
      /\ \A i \in 1 .. Len(s) : t[i] = IF i = 1 THEN r ELSE s[i]
  BY <1>1, <1>2, ExceptSeq
<1>4. \A i \in 1 .. Len(s) : Alike(t[i], s[i])
  BY <1>3 DEF Alike
<1> QED
  BY <1>1, <1>2, <1>3, <1>4

\* request_next: whatever is first now goes to the board.
LEMMA NextIsSent ==
  ASSUME NEW s \in Seq(Pending)
  PROVE  /\ RequestNext(s) \in Seq(Pending) /\ Len(RequestNext(s)) = Len(s)
         /\ \A i \in 1 .. Len(s) :
              /\ Alike(RequestNext(s)[i], s[i])
              /\ RequestNext(s)[i].at = IF i = 1 THEN "sent" ELSE s[i].at
<1>1. CASE s = <<>>
  BY <1>1, EmptySeq DEF RequestNext
<1>2. CASE s # <<>>
  <2>1. 1 \in 1 .. Len(s) /\ s[1] \in Pending
    BY <1>2, LenProperties, EmptySeq, ElementOfSeq
  <2>2. PICK r : r = [s[1] EXCEPT !.at = "sent"]
    OBVIOUS
  <2>3. r \in Pending /\ Alike(r, s[1]) /\ r.at = "sent"
    BY <2>1, <2>2 DEF Pending, Alike
  <2>4. RequestNext(s) = [s EXCEPT ![1] = r]
    BY <1>2, <2>2 DEF RequestNext
  <2>5. PICK t : t = [s EXCEPT ![1] = r]
    OBVIOUS
  <2>6. /\ t \in Seq(Pending) /\ Len(t) = Len(s) /\ t[1] = r
        /\ \A i \in 1 .. Len(s) : i # 1 => t[i] = s[i]
        /\ \A i \in 1 .. Len(s) : Alike(t[i], s[i])
    BY <1>2, <2>3, <2>5, Heading
  <2>7. ASSUME NEW i \in 1 .. Len(s) PROVE t[i].at = IF i = 1 THEN "sent" ELSE s[i].at
    BY <2>3, <2>6
  <2> QED
    BY <2>4, <2>5, <2>6, <2>7
<1> QED
  BY <1>1, <1>2

\* One request more, behind all others.
Grown(reqs, new, r) ==
  /\ Queued(new, r.id + 1) /\ Len(new) = Len(reqs) + 1
  /\ \A i \in 1 .. Len(reqs) : new[i] = reqs[i]
  /\ Alike(new[Len(reqs) + 1], r) /\ new[Len(reqs) + 1].at \in {"queued", "sent"}

\* add_request: one more at the end, and alone it is sent.
LEMMA OneMore ==
  ASSUME NEW reqs, NEW n, Queued(reqs, n), NEW data \in Nat,
         NEW what \in Files \cup {"load", "default"},
         NEW new, new = AddRequest(reqs, Request(n, what, data))
  PROVE  Grown(reqs, new, Request(n, what, data))
<1>1. PICK r : r = Request(n, what, data)
  OBVIOUS
<1>2. r \in Pending /\ r.id = n /\ r.what = what /\ r.data = data /\ r.at = "queued"
  BY <1>1 DEF Request, Pending, Queued
<1>3. PICK s : s = Append(reqs, r)
  OBVIOUS
<1>4. /\ reqs \in Seq(Pending) /\ n \in Nat /\ Len(reqs) \in Nat
      /\ \A i \in 1 .. Len(reqs) : reqs[i] \in Pending /\ reqs[i].id < n
      /\ \A i, j \in 1 .. Len(reqs) : reqs[i].id = reqs[j].id => i = j
      /\ \A i \in 1 .. Len(reqs) : reqs[i].at = "queued" <=> i # 1
  BY LenProperties, ElementOfSeq DEF Queued
<1>5. /\ s \in Seq(Pending) /\ Len(s) = Len(reqs) + 1 /\ s[Len(reqs) + 1] = r
      /\ \A i \in 1 .. Len(reqs) : s[i] = reqs[i]
  BY <1>2, <1>3, <1>4
<1>6. PICK t : t = new
  OBVIOUS
<1>7. t = IF Len(s) = 1 THEN RequestNext(s) ELSE s
  BY <1>1, <1>3, <1>6 DEF AddRequest
<1>8. /\ t \in Seq(Pending) /\ Len(t) = Len(reqs) + 1
      /\ \A i \in 1 .. Len(reqs) + 1 :
           /\ Alike(t[i], s[i])
           /\ t[i].at = IF i = 1 THEN IF Len(reqs) = 0 THEN "sent" ELSE s[1].at ELSE s[i].at
  <2>1. CASE Len(s) = 1
    <3>1. /\ t \in Seq(Pending) /\ Len(t) = Len(s)
          /\ \A i \in 1 .. Len(s) :
               Alike(t[i], s[i]) /\ t[i].at = IF i = 1 THEN "sent" ELSE s[i].at
      BY <1>5, <1>7, <2>1, NextIsSent
    <3>2. Len(reqs) = 0
      BY <1>4, <1>5, <2>1
    <3> QED
      BY <1>5, <3>1, <3>2
  <2>2. CASE Len(s) # 1
    <3>1. Len(reqs) # 0 /\ t = s
      BY <1>4, <1>5, <1>7, <2>2
    <3> QED
      BY <1>5, <3>1 DEF Alike
  <2> QED
    BY <2>1, <2>2
<1>9. /\ \A i \in 1 .. Len(reqs) : t[i] = reqs[i]
      /\ t[Len(reqs) + 1].id = n
      /\ t[Len(reqs) + 1].what = what /\ t[Len(reqs) + 1].data = data
      /\ t[Len(reqs) + 1].at \in {"queued", "sent"}
      /\ t[Len(reqs) + 1].at = "queued" <=> Len(reqs) + 1 # 1
  <2>1. CASE Len(reqs) = 0
    <3>1. 1 \in 1 .. Len(reqs) + 1
      BY <2>1
    <3>2. t[1].at = "sent" /\ Alike(t[1], s[1]) /\ s[1] = r
      BY <1>5, <1>8, <2>1, <3>1
    <3> QED
      BY <1>2, <2>1, <3>2 DEF Alike
  <2>2. CASE Len(reqs) # 0
    <3>1. t = s /\ Len(reqs) + 1 # 1
      BY <1>4, <1>5, <1>7, <2>2
    <3> QED
      BY <1>2, <1>5, <3>1
  <2> QED
    BY <2>1, <2>2
<1>10. Queued(t, n + 1)
  <2>1. n + 1 \in Nat
    BY <1>4
  <2>2. ASSUME NEW i \in 1 .. Len(t) PROVE t[i].id < n + 1
    <3>1. CASE i \in 1 .. Len(reqs)
      <4>1. t[i].id < n /\ t[i].id \in Nat
        BY <1>4, <1>9, <3>1 DEF Pending
      <4> QED
        BY <1>4, <4>1
    <3>2. CASE i = Len(reqs) + 1
      BY <1>4, <1>9, <3>2
    <3> QED
      BY <1>4, <1>8, <2>2, <3>1, <3>2
  <2>3. ASSUME NEW i \in 1 .. Len(t), NEW j \in 1 .. Len(t), t[i].id = t[j].id
        PROVE  i = j
    <3>1. ASSUME NEW k \in 1 .. Len(reqs) PROVE t[k].id # n
      <4>1. t[k] \in Pending /\ t[k].id < n
        BY <1>4, <1>9
      <4>2. t[k].id \in Nat
        BY <4>1 DEF Pending
      <4> QED
        BY <1>4, <4>1, <4>2
    <3>2. \A k \in 1 .. Len(t) : k \in 1 .. Len(reqs) \/ k = Len(reqs) + 1
      BY <1>4, <1>8
    <3> QED
      BY <1>4, <1>9, <2>3, <3>1, <3>2
  <2>4. ASSUME NEW i \in 1 .. Len(t) PROVE t[i].at = "queued" <=> i # 1
    <3>1. i \in 1 .. Len(reqs) \/ i = Len(reqs) + 1
      BY <1>4, <1>8
    <3> QED
      BY <1>4, <1>9, <3>1
  <2> QED
    BY <1>8, <2>1, <2>2, <2>3, <2>4 DEF Queued
<1>11. Alike(t[Len(reqs) + 1], r)
  BY <1>2, <1>9 DEF Alike
<1> QED
  BY <1>1, <1>2, <1>6, <1>8, <1>9, <1>10, <1>11 DEF Grown

\* Whatever is not waiting is the head.
LEMMA NotWaiting ==
  ASSUME NEW reqs, NEW n, Queued(reqs, n), NEW r \in Range(reqs), r.at # "queued"
  PROVE  /\ reqs # <<>> /\ r = reqs[1] /\ 1 \in 1 .. Len(reqs) /\ r \in Pending
         /\ {i \in DOMAIN reqs : reqs[i].id = r.id} = {1}
<1>1. reqs \in Seq(Pending) /\ Len(reqs) \in Nat /\ DOMAIN reqs = 1 .. Len(reqs)
  BY LenProperties DEF Queued
<1>2. PICK i \in 1 .. Len(reqs) : r = reqs[i]
  BY <1>1 DEF Range
<1>3. i = 1
  BY <1>2 DEF Queued
<1>4. reqs # <<>> /\ r \in Pending
  BY <1>1, <1>2, <1>3, EmptySeq, ElementOfSeq
<1>5. \A j \in 1 .. Len(reqs) : reqs[j].id = r.id <=> j = 1
  BY <1>1, <1>2, <1>3 DEF Queued
<1> QED
  BY <1>1, <1>2, <1>3, <1>4, <1>5

\* request_complete takes the head away and sends the next one.
LEMMA Completing ==
  ASSUME NEW reqs, NEW n, Queued(reqs, n), NEW r \in Range(reqs), r.at # "queued",
         NEW new, new = RequestComplete(reqs, r)
  PROVE  /\ Queued(new, n) /\ Len(new) = Len(reqs) - 1
         /\ \A i \in 1 .. Len(new) :
              /\ i + 1 \in 1 .. Len(reqs) /\ Alike(new[i], reqs[i + 1])
              /\ new[i].at \in {"queued", "sent"}
<1>1. /\ reqs # <<>> /\ r = reqs[1] /\ 1 \in 1 .. Len(reqs)
      /\ {i \in DOMAIN reqs : reqs[i].id = r.id} = {1}
  BY NotWaiting
<1>2. /\ reqs \in Seq(Pending) /\ n \in Nat /\ Len(reqs) \in Nat
      /\ \A i \in 1 .. Len(reqs) : reqs[i] \in Pending /\ reqs[i].id < n
      /\ \A i, j \in 1 .. Len(reqs) : reqs[i].id = reqs[j].id => i = j
      /\ \A i \in 1 .. Len(reqs) : reqs[i].at = "queued" <=> i # 1
  BY LenProperties, ElementOfSeq DEF Queued
<1>3. Min({1}) = 1
  BY DEF Min
<1>4. PICK s : s = Tail(reqs)
  OBVIOUS
<1>5. /\ s \in Seq(Pending) /\ Len(s) = Len(reqs) - 1
      /\ \A i \in 1 .. Len(s) : s[i] = reqs[i + 1]
  BY <1>1, <1>2, <1>4, HeadTailProperties
<1>6. RemoveAt(reqs, 1) = s
  <2>1. SubSeq(reqs, 1, 1 - 1) = <<>>
    BY SubSeqEmpty
  <2>2. SubSeq(reqs, 1 + 1, Len(reqs)) = s
    BY <1>1, <1>2, <1>4, TailIsSubSeq
  <2>3. <<>> \o s = s
    BY <1>5, ConcatEmptySeq
  <2> QED
    BY <2>1, <2>2, <2>3 DEF RemoveAt
<1>7. PICK t : t = new
  OBVIOUS
<1>8. t = RequestNext(s)
  BY <1>1, <1>3, <1>6, <1>7 DEF RequestComplete
<1>9. /\ t \in Seq(Pending) /\ Len(t) = Len(reqs) - 1
      /\ \A i \in 1 .. Len(t) :
           Alike(t[i], s[i]) /\ t[i].at = IF i = 1 THEN "sent" ELSE s[i].at
  BY <1>5, <1>8, NextIsSent
<1>10. ASSUME NEW i \in 1 .. Len(t)
       PROVE  /\ i + 1 \in 1 .. Len(reqs) /\ Alike(t[i], reqs[i + 1])
              /\ t[i].at \in {"queued", "sent"} /\ (t[i].at = "queued" <=> i # 1)
              /\ t[i].id = reqs[i + 1].id
  <2>1. i + 1 \in 1 .. Len(reqs) /\ i + 1 # 1 /\ i \in 1 .. Len(s)
    BY <1>2, <1>5, <1>9
  <2>2. s[i] = reqs[i + 1] /\ reqs[i + 1].at = "queued"
    BY <1>2, <1>5, <2>1
  <2> QED
    BY <1>9, <2>1, <2>2 DEF Alike
<1>11. \A i, j \in 1 .. Len(t) : t[i].id = t[j].id => i = j
  <2>1. ASSUME NEW i \in 1 .. Len(t), NEW j \in 1 .. Len(t), t[i].id = t[j].id PROVE i = j
    <3>1. i + 1 = j + 1
      BY <1>2, <1>10, <2>1
    <3> QED
      BY <3>1
  <2> QED
    BY <2>1
<1>12. Queued(t, n)
  BY <1>2, <1>9, <1>10, <1>11, SMTT(30) DEF Queued
<1> QED
  BY <1>7, <1>9, <1>10, <1>12

-----------------------------------------------------------------------------
(* The page's invariant.                                                   *)

\* The last request for file f is of the latest save and not answered yet.
Due(reqs, save, f) ==
  \E i \in 1 .. Len(reqs) :
    /\ reqs[i].what = f /\ reqs[i].data = save /\ reqs[i].at # "answered"
    /\ \A j \in 1 .. Len(reqs) : reqs[j].what = f => j <= i

\* All requests for file f are answered.
Through(reqs, f) == \A i \in 1 .. Len(reqs) : reqs[i].what = f => reqs[i].at = "answered"

\* The board has file f of the latest save, or is still to be sent it last.
Settles(reqs, save, has, f) == Due(reqs, save, f) \/ (has = save /\ Through(reqs, f))

PageInv ==
  /\ Queued(requests, next_id)
  /\ stored \in [Files -> Int] /\ saves \in Nat /\ spoiled \in BOOLEAN
  /\ spoiled = FALSE => \A f \in Files : Settles(requests, saves, stored[f], f)

LEMMA PageStarts ==
  ASSUME Init
  PROVE  PageInv
<1>1. requests \in Seq(Pending) /\ Len(requests) = 0
  BY EmptySeq DEF Init
<1>2. stored \in [Files -> Int] /\ \A f \in Files : stored[f] = saves
  BY DEF Init
<1>3. next_id \in Nat /\ saves \in Nat /\ spoiled \in BOOLEAN
  BY DEF Init
<1>4. \A f \in Files : Settles(requests, saves, stored[f], f)
  BY <1>1, <1>2 DEF Settles, Through
<1> QED
  BY <1>1, <1>2, <1>3, <1>4 DEF PageInv, Queued

\* A request more for something else changes nothing for a file.
LEMMA Besides ==
  ASSUME NEW reqs \in Seq(Pending), NEW new, NEW r, Grown(reqs, new, r), NEW f, r.what # f,
         NEW save, NEW has, Settles(reqs, save, has, f)
  PROVE  Settles(new, save, has, f)
<1>1. /\ Len(new) = Len(reqs) + 1 /\ \A i \in 1 .. Len(reqs) : new[i] = reqs[i]
      /\ new[Len(reqs) + 1].what # f
  BY DEF Grown, Alike
<1>2. Len(reqs) \in Nat
  BY LenProperties
<1>3. \A i \in 1 .. Len(new) : i \in 1 .. Len(reqs) \/ i = Len(reqs) + 1
  BY <1>1, <1>2
<1>4. CASE Due(reqs, save, f)
  <2>1. PICK i \in 1 .. Len(reqs) :
          /\ reqs[i].what = f /\ reqs[i].data = save /\ reqs[i].at # "answered"
          /\ \A j \in 1 .. Len(reqs) : reqs[j].what = f => j <= i
    BY <1>4 DEF Due
  <2>2. i \in 1 .. Len(new) /\ new[i] = reqs[i]
    BY <1>1, <1>2
  <2>3. \A j \in 1 .. Len(new) : new[j].what = f => j <= i
    BY <1>1, <1>3, <2>1
  <2> QED
    BY <2>1, <2>2, <2>3 DEF Due, Settles
<1>5. CASE has = save /\ Through(reqs, f)
  BY <1>1, <1>3, <1>5 DEF Through, Settles
<1> QED
  BY <1>4, <1>5 DEF Settles

LEMMA LoadStep ==
  ASSUME PageInv, LoadProject
  PROVE  PageInv'
<1>1. /\ requests' = AddRequest(requests, Request(next_id, "load", 0))
      /\ next_id' = next_id + 1 /\ UNCHANGED <<stored, saves, spoiled>>
  BY DEF LoadProject
<1>2. PICK new : new = AddRequest(requests, Request(next_id, "load", 0))
  OBVIOUS
<1>3. Grown(requests, new, Request(next_id, "load", 0))
  BY <1>2, OneMore DEF PageInv
<1>4. Queued(new, next_id + 1) /\ requests \in Seq(Pending)
  BY <1>3 DEF Grown, Request, PageInv, Queued
<1>5. \A f \in Files : Request(next_id, "load", 0).what # f
  BY DEF Files, Request
<1>6. ASSUME NEW f \in Files, spoiled = FALSE PROVE Settles(new, saves, stored[f], f)
  BY <1>3, <1>4, <1>5, <1>6, Besides DEF PageInv
<1> QED
  BY <1>1, <1>2, <1>4, <1>6 DEF PageInv

\* The three requests of a save are the last ones for their files.
LEMMA SaveStep ==
  ASSUME PageInv, SaveProject
  PROVE  PageInv'
<1>1. /\ next_id' = next_id + 3 /\ saves' = saves + 1 /\ UNCHANGED stored
      /\ spoiled' = FALSE
  BY DEF SaveProject
<1>2. saves \in Nat /\ saves' \in Nat /\ next_id \in Nat /\ Queued(requests, next_id)
  BY <1>1 DEF PageInv, Queued
<1>18. PICK v \in Nat : v = saves'
  BY <1>2
<1>3. PICK n \in Nat : n = Len(requests)
  BY <1>2, LenProperties DEF Queued
<1>17. /\ "project.txt" \in Files \cup {"load", "default"}
      /\ "bytecode.txt" \in Files \cup {"load", "default"}
      /\ "config.txt" \in Files \cup {"load", "default"}
  BY DEF Files
<1>4. PICK a : a = AddRequest(requests, Request(next_id, "project.txt", v))
  OBVIOUS
<1>5. Grown(requests, a, Request(next_id, "project.txt", v))
  BY <1>18, <1>2, <1>4, <1>17, OneMore
<1>6. PICK b : b = AddRequest(a, Request(next_id + 1, "bytecode.txt", v))
  OBVIOUS
<1>7. Grown(a, b, Request(next_id + 1, "bytecode.txt", v))
  <2>1. Queued(a, next_id + 1)
    BY <1>5 DEF Grown, Request
  <2> QED
    BY <1>18, <1>6, <1>17, <2>1, OneMore
<1>8. next_id + 1 + 1 = next_id + 2 /\ next_id + 2 + 1 = next_id + 3
  BY <1>2
<1>9. PICK c : c = AddRequest(b, Request(next_id + 2, "config.txt", v))
  OBVIOUS
<1>10. Grown(b, c, Request(next_id + 2, "config.txt", v))
  <2>1. Queued(b, next_id + 2)
    BY <1>7, <1>8 DEF Grown, Request
  <2> QED
    BY <1>18, <1>9, <1>17, <2>1, OneMore
<1>11. requests' = c
  BY <1>18, <1>4, <1>6, <1>9 DEF SaveProject
<1>12. /\ Len(c) = n + 3 /\ n + 1 \in 1 .. Len(c) /\ n + 2 \in 1 .. Len(c)
       /\ n + 3 \in 1 .. Len(c) /\ \A j \in 1 .. Len(c) : j <= n \/ j \in {n + 1, n + 2, n + 3}
       /\ Len(requests) + 1 = n + 1 /\ Len(a) + 1 = n + 2 /\ Len(b) + 1 = n + 3
       /\ n + 1 \in 1 .. Len(a) /\ n + 1 \in 1 .. Len(b) /\ n + 2 \in 1 .. Len(b)
  BY <1>3, <1>5, <1>7, <1>10 DEF Grown
<1>13. /\ c[n + 1].what = "project.txt" /\ c[n + 1].data = v
       /\ c[n + 1].at # "answered"
       /\ c[n + 2].what = "bytecode.txt" /\ c[n + 2].data = v
       /\ c[n + 2].at # "answered"
       /\ c[n + 3].what = "config.txt" /\ c[n + 3].data = v
       /\ c[n + 3].at # "answered"
  <2>1. c[n + 1] = b[n + 1] /\ b[n + 1] = a[n + 1] /\ c[n + 2] = b[n + 2]
    BY <1>7, <1>10, <1>12 DEF Grown
  <2> QED
    BY <1>5, <1>7, <1>10, <1>12, <2>1 DEF Grown, Alike, Request
<1>14. ASSUME NEW f \in Files PROVE Settles(requests', saves', stored'[f], f)
  <2>1. PICK i \in {n + 1, n + 2, n + 3} : c[i].what = f
    BY <1>13 DEF Files
  <2>2. i \in 1 .. Len(c) /\ c[i].data = v /\ c[i].at # "answered"
    BY <1>12, <1>13, <2>1
  <2>3. \A j \in {n + 1, n + 2, n + 3} : c[j].what = f => j = i
    BY <1>13, <2>1
  <2>4. \A j \in 1 .. Len(c) : c[j].what = f => j <= i
    BY <1>12, <2>1, <2>3
  <2> QED
    BY <1>18, <1>11, <2>1, <2>2, <2>4 DEF Due, Settles
<1>15. Queued(requests', next_id')
  BY <1>1, <1>8, <1>10, <1>11 DEF Grown, Request
<1>16. stored' \in [Files -> Int] /\ spoiled' \in BOOLEAN
  BY <1>1 DEF PageInv
<1> QED
  BY <1>1, <1>2, <1>14, <1>15, <1>16 DEF PageInv

\* What has become of the head, and nothing else, is noted.
LEMMA Marking ==
  ASSUME Queued(requests, next_id), NEW r \in Range(requests), r.at # "queued",
         NEW at \in {"answered", "hung"}, NEW new, new = At(r, at)
  PROVE  /\ Queued(new, next_id) /\ Len(new) = Len(requests)
         /\ new[1].at = at /\ Alike(new[1], requests[1])
         /\ \A i \in 1 .. Len(requests) : i # 1 => new[i] = requests[i]
<1>1. /\ requests # <<>> /\ r = requests[1] /\ 1 \in 1 .. Len(requests) /\ r \in Pending
      /\ {i \in DOMAIN requests : requests[i].id = r.id} = {1}
  BY NotWaiting
<1>2. requests \in Seq(Pending) /\ DOMAIN requests = 1 .. Len(requests)
  BY LenProperties DEF Queued
<1>3. PICK s : s = [r EXCEPT !.at = at]
  OBVIOUS
<1>4. s \in Pending /\ Alike(s, requests[1]) /\ s.at = at
  BY <1>1, <1>3 DEF Pending, Alike
<1>5. \A i \in DOMAIN requests : requests[i].id = r.id <=> i = 1
  BY <1>1
<1>6. new = [requests EXCEPT ![1] = s]
  BY <1>2, <1>3, <1>5 DEF At
<1>7. /\ new \in Seq(Pending) /\ Len(new) = Len(requests) /\ new[1] = s
      /\ \A i \in 1 .. Len(requests) : i # 1 => new[i] = requests[i]
      /\ \A i \in 1 .. Len(requests) : Alike(new[i], requests[i])
  BY <1>1, <1>2, <1>4, <1>6, Heading
<1>8. \A i \in 1 .. Len(requests) : new[i].id = requests[i].id
  BY <1>7 DEF Alike
<1>9. ASSUME NEW i \in 1 .. Len(requests) PROVE new[i].at = "queued" <=> i # 1
  <2>1. CASE i = 1
    BY <1>4, <1>7, <2>1
  <2>2. CASE i # 1
    BY <1>7, <2>2 DEF Queued
  <2> QED
    BY <2>1, <2>2
<1>10. Queued(new, next_id)
  BY <1>7, <1>8, <1>9 DEF Queued
<1> QED
  BY <1>1, <1>4, <1>7, <1>10

\* Whatever happens to the head, a file whose last request is still behind
\* it, or that is the head and not answered, stays due.
LEMMA MarkStep ==
  ASSUME PageInv, NEW r \in Range(requests), r.at # "queued",
         NEW at \in {"answered", "hung"}, requests' = At(r, at),
         UNCHANGED <<next_id, saves>>, stored' \in [Files -> Int], spoiled' \in BOOLEAN,
         \A f \in Files : f # r.what => stored'[f] = stored[f],
         spoiled' = FALSE => spoiled = FALSE,
         r.what \in Files /\ spoiled' = FALSE =>
           /\ r.at # "answered"
           /\ \/ at = "hung" /\ stored' = stored
              \/ at = "answered" /\ stored'[r.what] = r.data
              \/ at = "answered" /\ r.data # saves /\ stored' = stored
  PROVE  PageInv'
<1>1. /\ requests # <<>> /\ r = requests[1] /\ 1 \in 1 .. Len(requests)
  BY NotWaiting DEF PageInv
<1>2. PICK new : new = At(r, at)
  OBVIOUS
<1>3. /\ Queued(new, next_id) /\ Len(new) = Len(requests)
      /\ new[1].at = at /\ new[1].what = r.what /\ new[1].data = r.data
      /\ \A i \in 1 .. Len(requests) : i # 1 => new[i] = requests[i]
      /\ \A i \in 1 .. Len(requests) : new[i].what = requests[i].what
                                       /\ new[i].data = requests[i].data
  BY <1>1, <1>2, Marking DEF PageInv, Alike
<1>4. ASSUME NEW f \in Files, spoiled' = FALSE, Due(requests, saves, f)
      PROVE  Settles(new, saves, stored'[f], f)
  <2>1. PICK i \in 1 .. Len(requests) :
          /\ requests[i].what = f /\ requests[i].data = saves /\ requests[i].at # "answered"
          /\ \A j \in 1 .. Len(requests) : requests[j].what = f => j <= i
    BY <1>4 DEF Due
  <2>2. CASE i # 1 \/ at = "hung"
    <3>1. new[i].at # "answered"
      BY <1>1, <1>3, <2>1, <2>2
    <3>2. \A j \in 1 .. Len(new) : new[j].what = f => j <= i
      BY <1>3, <2>1
    <3> QED
      BY <1>3, <2>1, <3>1, <3>2 DEF Due, Settles
  <2>3. CASE i = 1 /\ at = "answered"
    <3>1. r.what = f /\ r.data = saves /\ stored'[f] = saves
      BY <1>1, <1>4, <2>1, <2>3
    <3>2. \A j \in 1 .. Len(new) : new[j].what = f => j = 1
      BY <1>3, <2>1, <2>3
    <3> QED
      BY <1>3, <2>3, <3>1, <3>2 DEF Through, Settles
  <2> QED
    BY <2>2, <2>3
<1>5. ASSUME NEW f \in Files, spoiled' = FALSE, stored[f] = saves, Through(requests, f)
      PROVE  Settles(new, saves, stored'[f], f)
  <2>1. \A i \in 1 .. Len(requests) : requests[i].what = f => requests[i].at = "answered"
    BY <1>5 DEF Through
  <2>2. CASE r.what = f
    <3>1. r.at = "answered"
      BY <1>1, <2>1, <2>2
    <3> QED
      BY <1>5, <2>2, <3>1
  <2>3. CASE r.what # f
    <3>1. stored'[f] = saves
      BY <1>5, <2>3
    <3>2. \A i \in 1 .. Len(new) : new[i].what = f => new[i].at = "answered"
      BY <1>1, <1>3, <2>1, <2>3
    <3> QED
      BY <3>1, <3>2 DEF Through, Settles
  <2> QED
    BY <2>2, <2>3
<1> QED
  BY <1>2, <1>3, <1>4, <1>5 DEF PageInv, Settles

LEMMA AnswerStep ==
  ASSUME PageInv, NEW r \in Range(requests), Answer(r)
  PROVE  PageInv'
<1>1. /\ r.at = "sent" /\ requests' = At(r, "answered") /\ UNCHANGED <<next_id, saves>>
  BY DEF Answer, Sent
<1>2. r \in Pending
  BY <1>1, NotWaiting DEF PageInv
<1>3. r.data \in Int
  BY <1>2 DEF Pending
<1>4. CASE /\ stored' = IF r.what \in Files THEN [stored EXCEPT ![r.what] = r.data] ELSE stored
           /\ UNCHANGED spoiled
  <2>1. stored' \in [Files -> Int] /\ \A f \in Files : f # r.what => stored'[f] = stored[f]
    BY <1>3, <1>4 DEF PageInv
  <2>2. r.what \in Files => stored'[r.what] = r.data
    BY <1>4 DEF PageInv
  <2>3. spoiled' \in BOOLEAN /\ (spoiled' = FALSE => spoiled = FALSE)
    BY <1>4 DEF PageInv
  <2> QED
    BY <1>1, <2>1, <2>2, <2>3, MarkStep
<1>5. CASE Spoils(r) /\ UNCHANGED stored /\ r.what \in Files
  <2>1. stored' \in [Files -> Int] /\ spoiled' \in BOOLEAN
    BY <1>5 DEF PageInv, Spoils
  <2>2. spoiled' = FALSE => spoiled = FALSE /\ r.data # saves
    BY <1>5 DEF PageInv, Spoils
  <2> QED
    BY <1>1, <1>5, <2>1, <2>2, MarkStep
<1> QED
  BY <1>4, <1>5 DEF Answer

LEMMA HangStep ==
  ASSUME PageInv, NEW r \in Range(requests), Hangs(r)
  PROVE  PageInv'
<1>1. /\ r.at = "sent" /\ requests' = At(r, "hung")
      /\ UNCHANGED <<next_id, saves, stored, spoiled>>
  BY DEF Hangs, Sent
<1>2. stored' \in [Files -> Int] /\ spoiled' \in BOOLEAN
  BY <1>1 DEF PageInv
<1>3. /\ \A f \in Files : f # r.what => stored'[f] = stored[f]
      /\ spoiled' = FALSE => spoiled = FALSE
  BY <1>1
<1> QED
  BY <1>1, <1>2, <1>3, MarkStep

\* The head leaves; a file it was not the last unanswered request of stays
\* as it was.
LEMMA WithoutHead ==
  ASSUME NEW reqs, NEW n, Queued(reqs, n), NEW r \in Range(reqs), r.at # "queued",
         NEW new, new = RequestComplete(reqs, r), NEW f, NEW save, NEW has, NEW had,
         Settles(reqs, save, had, f),
         has = had \/ (r.what = f /\ r.at # "answered"),
         r.what = f => r.at = "answered" \/ r.data # save
  PROVE  Settles(new, save, has, f)
<1>1. /\ reqs # <<>> /\ r = reqs[1] /\ 1 \in 1 .. Len(reqs)
  BY NotWaiting
<1>2. /\ Len(new) = Len(reqs) - 1
      /\ \A i \in 1 .. Len(new) :
           /\ i + 1 \in 1 .. Len(reqs) /\ new[i].what = reqs[i + 1].what
           /\ new[i].data = reqs[i + 1].data /\ new[i].at \in {"queued", "sent"}
  BY Completing DEF Alike
<1>3. Len(reqs) \in Nat
  BY LenProperties DEF Queued
<1>4. CASE Due(reqs, save, f)
  <2>1. PICK i \in 1 .. Len(reqs) :
          /\ reqs[i].what = f /\ reqs[i].data = save /\ reqs[i].at # "answered"
          /\ \A j \in 1 .. Len(reqs) : reqs[j].what = f => j <= i
    BY <1>4 DEF Due
  <2>2. i # 1
    BY <1>1, <2>1
  <2>3. PICK k : k = i - 1
    OBVIOUS
  <2>4. k \in 1 .. Len(new) /\ k + 1 = i
    BY <1>2, <1>3, <2>2, <2>3
  <2>5. new[k].what = f /\ new[k].data = save /\ new[k].at # "answered"
    BY <1>2, <2>1, <2>4
  <2>6. ASSUME NEW j \in 1 .. Len(new), new[j].what = f PROVE j <= k
    <3>1. j + 1 \in 1 .. Len(reqs) /\ reqs[j + 1].what = f
      BY <1>2, <2>6
    <3>2. j + 1 <= k + 1
      BY <2>1, <2>4, <3>1
    <3> QED
      BY <1>2, <1>3, <2>4, <3>2
  <2> QED
    BY <2>4, <2>5, <2>6 DEF Due, Settles
<1>5. CASE had = save /\ Through(reqs, f)
  <2>1. \A i \in 1 .. Len(reqs) : reqs[i].what = f => reqs[i].at = "answered"
    BY <1>5 DEF Through
  <2>2. has = save
    BY <1>1, <1>5, <2>1
  <2>3. ASSUME NEW i \in 1 .. Len(new), new[i].what = f PROVE FALSE
    <3>1. i + 1 \in 1 .. Len(reqs) /\ i + 1 # 1 /\ reqs[i + 1].what = f
      BY <1>2, <1>3, <2>3
    <3>2. reqs[i + 1].at = "answered" /\ reqs[i + 1].at = "queued"
      BY <2>1, <3>1 DEF Queued
    <3> QED
      BY <3>2
  <2> QED
    BY <2>2, <2>3 DEF Through, Settles
<1> QED
  BY <1>4, <1>5 DEF Settles

LEMMA LoadedStep ==
  ASSUME PageInv, NEW r \in Range(requests), Loaded(r)
  PROVE  PageInv'
<1>1. /\ r.at = "answered" /\ requests' = RequestComplete(requests, r)
      /\ UNCHANGED <<next_id, saves, stored, spoiled>>
  BY DEF Loaded
<1>2. PICK new : new = RequestComplete(requests, r)
  OBVIOUS
<1>3. Queued(new, next_id)
  BY <1>1, <1>2, Completing DEF PageInv
<1>4. ASSUME NEW f \in Files, spoiled = FALSE PROVE Settles(new, saves, stored[f], f)
  <2>1. Settles(requests, saves, stored[f], f) /\ Queued(requests, next_id)
    BY <1>4 DEF PageInv
  <2> QED
    BY <1>1, <1>2, <2>1, WithoutHead
<1> QED
  BY <1>1, <1>2, <1>3, <1>4 DEF PageInv

\* When it was the project that failed, the default one is asked for.
LEMMA FailedStep ==
  ASSUME PageInv, NEW r \in Range(requests), Failed(r)
  PROVE  PageInv'
<1>1. /\ r.at \in {"sent", "answered"} /\ UNCHANGED saves
      /\ spoiled' = (spoiled \/ (r.what \in Files /\ r.data = saves))
  BY DEF Failed, Spoils
<1>2. PICK rest : rest = RequestComplete(requests, r)
  OBVIOUS
<1>3. Queued(rest, next_id) /\ rest \in Seq(Pending)
  <2>1. Queued(rest, next_id)
    BY <1>1, <1>2, Completing DEF PageInv
  <2> QED
    BY <2>1 DEF Queued
<1>4. \/ r.at = "sent" /\ r.what \in Files /\ stored' = [stored EXCEPT ![r.what] = Partly]
      \/ stored' = stored
  BY DEF Failed
<1>5. /\ stored' \in [Files -> Int]
      /\ \A f \in Files : stored'[f] = stored[f] \/ (r.what = f /\ r.at = "sent")
  BY <1>4 DEF PageInv, Partly
<1>6. /\ spoiled' \in BOOLEAN
      /\ spoiled' = FALSE => spoiled = FALSE /\ ~(r.what \in Files /\ r.data = saves)
  BY <1>1 DEF PageInv
<1>7. ASSUME NEW f \in Files, spoiled' = FALSE PROVE Settles(rest, saves, stored'[f], f)
  <2>1. Settles(requests, saves, stored[f], f) /\ Queued(requests, next_id)
    BY <1>6, <1>7 DEF PageInv
  <2>2. r.what = f => r.data # saves
    BY <1>6, <1>7
  <2>3. stored'[f] = stored[f] \/ (r.what = f /\ r.at # "answered")
    BY <1>5
  <2> QED
    BY <1>1, <1>2, <2>1, <2>2, <2>3, WithoutHead
<1>8. CASE r.what # "load"
  <2>1. requests' = rest /\ UNCHANGED next_id
    BY <1>2, <1>8 DEF Failed
  <2> QED
    BY <1>1, <1>3, <1>5, <1>6, <1>7, <2>1 DEF PageInv
<1>9. CASE r.what = "load"
  <2>1. PICK new : new = AddRequest(rest, Request(next_id, "default", 0))
    OBVIOUS
  <2>2. requests' = new /\ next_id' = next_id + 1
    BY <1>2, <1>9, <2>1 DEF Failed
  <2>3. Grown(rest, new, Request(next_id, "default", 0))
    BY <1>3, <2>1, OneMore
  <2>4. Queued(new, next_id + 1)
    BY <2>3 DEF Grown, Request
  <2>5. \A f \in Files : Request(next_id, "default", 0).what # f
    BY DEF Files, Request
  <2>6. ASSUME NEW f \in Files, spoiled' = FALSE PROVE Settles(new, saves, stored'[f], f)
    BY <1>3, <1>7, <2>3, <2>5, <2>6, Besides
  <2> QED
    BY <1>1, <1>5, <1>6, <2>2, <2>4, <2>6 DEF PageInv
<1> QED
  BY <1>8, <1>9

LEMMA PageSteps ==
  ASSUME PageInv, [NodeNext]_allVars
  PROVE  PageInv'
<1>1. CASE Next
  BY <1>1, SaveStep, LoadStep, AnswerStep, LoadedStep, FailedStep, HangStep DEF Next
<1>2. CASE UNCHANGED vars
  BY <1>2 DEF PageInv, vars
<1> QED
  BY <1>1, <1>2 DEF NodeNext, allVars

(* For any number of requests and any of the faults: when the queue of the *)
(* page is empty and nothing failed in the latest save, the board's three  *)
(* files are that save's, however saves, loads and failures of earlier     *)
(* saves followed each other (AJAX.js, save_project).                      *)
THEOREM SavedFilesAgree == NodeSpec => []FilesAgree
<1>1. NodeInit => PageInv
  BY PageStarts DEF NodeInit
<1>2. PageInv /\ [NodeNext]_allVars => PageInv'
  BY PageSteps
<1>3. PageInv => FilesAgree
  <2>1. requests = <<>> => ~ \E i : i \in 1 .. Len(requests)
    BY EmptySeq
  <2> QED
    BY <2>1 DEF PageInv, Settles, Due, FilesAgree
<1> QED
  BY <1>1, <1>2, <1>3, PTL DEF NodeSpec

-----------------------------------------------------------------------------
(* Bytes of a response, numbered on from the k-th.                         *)

RunsOn(s, k) == s \in Seq(Nat) /\ \A i \in 1 .. Len(s) : s[i] = k + i

\* Nothing is a stretch of numbered bytes.
LEMMA NoBytes ==
  ASSUME NEW k \in Nat
  PROVE  RunsOn(<<>>, k) /\ Len(<<>>) = 0
BY EmptySeq DEF RunsOn

\* A stretch of numbered bytes, as Bytes makes it.
LEMMA NewBytes ==
  ASSUME NEW k \in Nat, NEW n \in Nat, NEW s, s = Server!Bytes(k, n)
  PROVE  RunsOn(s, k) /\ Len(s) = n
<1>1. s = [i \in 1 .. n |-> k + i]
  BY DEF Server!Bytes
<1>2. s \in [1 .. n -> Nat]
  BY <1>1
<1>3. s \in Seq(Nat) /\ Len(s) = n
  BY <1>2, SeqDef
<1> QED
  BY <1>1, <1>3 DEF RunsOn

\* What is in front of a cut and what is behind it.
LEMMA Splitting ==
  ASSUME NEW k \in Nat, NEW s, RunsOn(s, k), NEW n \in 0 .. Len(s),
         NEW a, a = Server!First(s, n), NEW b, b = Server!Rest(s, n), NEW m, m = k + n
  PROVE  RunsOn(a, k) /\ Len(a) = n /\ RunsOn(b, m) /\ Len(b) = Len(s) - n
<1>1. s \in Seq(Nat) /\ Len(s) \in Nat /\ n \in Nat /\ n <= Len(s)
      /\ \A i \in 1 .. Len(s) : s[i] = k + i /\ s[i] \in Nat
  BY LenProperties, ElementOfSeq DEF RunsOn
<1>2. a = SubSeq(s, 1, n) /\ b = SubSeq(s, n + 1, Len(s))
  BY DEF Server!First, Server!Rest
<1>3. /\ a \in Seq(Nat) /\ Len(a) = n
      /\ \A i \in 1 .. n : a[i] = s[i]
  <2>1. \A i \in 1 .. n : s[i] \in Nat
    BY <1>1
  <2>2. /\ a \in Seq(Nat) /\ Len(a) = IF 1 <= n THEN n - 1 + 1 ELSE 0
        /\ \A i \in 1 .. n - 1 + 1 : a[i] = s[1 + i - 1]
    BY <1>1, <1>2, <2>1, SubSeqProperties, SMTT(30)
  <2> QED
    BY <1>1, <2>2
<1>4. /\ b \in Seq(Nat) /\ Len(b) = Len(s) - n
      /\ \A i \in 1 .. Len(s) - n : b[i] = s[n + i]
  <2>1. \A i \in n + 1 .. Len(s) : s[i] \in Nat
    BY <1>1
  <2>2. /\ b \in Seq(Nat) /\ Len(b) = IF n + 1 <= Len(s) THEN Len(s) - (n + 1) + 1 ELSE 0
        /\ \A i \in 1 .. Len(s) - (n + 1) + 1 : b[i] = s[n + 1 + i - 1]
    BY <1>1, <1>2, <2>1, SubSeqProperties
  <2> QED
    BY <1>1, <2>2
<1>5. RunsOn(a, k)
  <2>1. ASSUME NEW i \in 1 .. n PROVE a[i] = k + i
    <3>1. i \in 1 .. Len(s)
      BY <1>1
    <3> QED
      BY <1>1, <1>3, <3>1
  <2> QED
    BY <1>3, <2>1 DEF RunsOn
<1>6. RunsOn(b, k + n)
  <2>1. ASSUME NEW i \in 1 .. Len(b) PROVE b[i] = k + n + i
    BY <1>1, <1>4, SMTT(30)
  <2> QED
    BY <1>4, <2>1 DEF RunsOn
<1> QED
  BY <1>3, <1>4, <1>5, <1>6

\* One stretch behind the other.
LEMMA Joining ==
  ASSUME NEW k \in Nat, NEW s, NEW t, RunsOn(s, k), NEW m, m = k + Len(s), RunsOn(t, m)
  PROVE  RunsOn(s \o t, k) /\ Len(s \o t) = Len(s) + Len(t)
<1>1. /\ s \in Seq(Nat) /\ Len(s) \in Nat /\ t \in Seq(Nat) /\ Len(t) \in Nat
      /\ \A i \in 1 .. Len(s) : s[i] = k + i
      /\ \A i \in 1 .. Len(t) : t[i] = k + Len(s) + i
  BY LenProperties DEF RunsOn
<1>2. PICK u : u = s \o t
  OBVIOUS
<1>3. /\ u \in Seq(Nat) /\ Len(u) = Len(s) + Len(t)
      /\ \A i \in 1 .. Len(s) + Len(t) : u[i] = IF i <= Len(s) THEN s[i] ELSE t[i - Len(s)]
  BY <1>1, <1>2, ConcatProperties
<1>4. ASSUME NEW i \in 1 .. Len(u) PROVE u[i] = k + i
  <2>1. CASE i <= Len(s)
    <3>1. i \in 1 .. Len(s) /\ i \in 1 .. Len(s) + Len(t)
      BY <1>1, <1>3, <2>1
    <3> QED
      BY <1>1, <1>3, <2>1, <3>1
  <2>2. CASE ~(i <= Len(s))
    <3>1. PICK j : j = i - Len(s)
      OBVIOUS
    <3>2. j \in 1 .. Len(t) /\ k + Len(s) + j = k + i
      BY <1>1, <1>3, <2>2, <3>1
    <3> QED
      BY <1>1, <1>3, <2>2, <3>1, <3>2
  <2> QED
    BY <2>1, <2>2
<1> QED
  BY <1>2, <1>3, <1>4 DEF RunsOn

-----------------------------------------------------------------------------
(* Responses.                                                              *)

Response ==
  [kind : {"basic", "abstract"},
   state : {"setup", "headers", "content", "wait_ack", "end"},
   head : Seq(Nat), content : Seq(Nat), length : Nat, size : Nat,
   sent : Nat, acked : Nat, written : Nat]

\* With n bytes on the wire the response holds the next ones, all or, when its
\* file was cut, those of the head; what waits for acknowledgements is out.
InBasic(r, n) ==
  /\ r.kind = "basic" /\ r.state = "content" /\ RunsOn(r.content, n)
  /\ r.sent + Len(r.content) = r.length /\ n + Len(r.content) = r.size

InAbstract(r, n) ==
  /\ r.kind = "abstract" /\ r.state \in {"headers", "content"}
  /\ r.state = "content" => r.head = <<>>
  /\ RunsOn(r.head, n) /\ RunsOn(r.content, n + Len(r.head))
  /\ r.sent <= r.length /\ n + Len(r.head) + (r.length - r.sent) = r.size
  /\ \/ r.sent + Len(r.content) = r.length
     \/ r.content = <<>> /\ r.sent < r.length

AllOut(r, n) ==
  /\ r.state \in {"wait_ack", "end"} /\ n = r.size
  /\ r.state = "end" => r.acked >= r.written

Flows(r, n) == r \in Response /\ (InBasic(r, n) \/ InAbstract(r, n) \/ AllOut(r, n))

\* A step of a response hands on the next bytes, no more than there is room.
Moves(r, n, space, s) ==
  /\ RunsOn(s.data, n) /\ Len(s.data) <= space /\ Flows(s.response, n + Len(s.data))
  /\ s.response.acked = r.acked /\ s.response.written = r.written
  /\ s.response.state = "end" => s.data = <<>>

\* What waits for acknowledgements ends, or stays, and sends nothing.
LEMMA Waiting ==
  ASSUME NEW r, NEW n \in Nat, NEW space \in Nat, Flows(r, n), r.state = "wait_ack",
         NEW s, s = Server!WaitAck(r)
  PROVE  Moves(r, n, space, s)
<1>1. PICK t : t = [r EXCEPT !.state = IF r.acked >= r.written THEN "end" ELSE r.state]
  OBVIOUS
<1>2. s.response = t /\ s.data = <<>>
  BY <1>1 DEF Server!WaitAck, Server!Step
<1>3. r \in Response
  BY DEF Flows
<1>4. /\ t \in Response /\ t.size = r.size /\ t.acked = r.acked /\ t.written = r.written
      /\ t.state = IF r.acked >= r.written THEN "end" ELSE "wait_ack"
  BY <1>1, <1>3 DEF Response
<1>5. n = r.size
  BY DEF Flows, InBasic, InAbstract, AllOut
<1>6. Flows(t, n)
  BY <1>4, <1>5 DEF Flows, AllOut
<1>7. RunsOn(<<>>, n) /\ Len(<<>>) = 0 /\ n + 0 = n
  BY NoBytes
<1> QED
  BY <1>2, <1>4, <1>6, <1>7 DEF Moves

\* A text of AsyncBasicResponse: as much of it as there is room for.
LEMMA AckingBasic ==
  ASSUME NEW r, NEW n \in Nat, NEW space \in Nat, Flows(r, n), r.kind = "basic",
         r.state # "end", NEW s, s = Server!AckBasic(r, space)
  PROVE  Moves(r, n, space, s)
<1>1. CASE r.state # "content"
  <2>1. r.state = "wait_ack"
    BY <1>1 DEF Flows, InBasic, InAbstract, AllOut
  <2>2. s = Server!WaitAck(r)
    BY <1>1 DEF Server!AckBasic
  <2> QED
    BY <2>1, <2>2, Waiting
<1>2. CASE r.state = "content"
  <2>1. r \in Response /\ InBasic(r, n)
    BY <1>2 DEF Flows, InAbstract, AllOut
  <2>2. PICK c : c = r.content
    OBVIOUS
  <2>3. /\ RunsOn(c, n) /\ c \in Seq(Nat) /\ Len(c) \in Nat
        /\ r.length \in Nat /\ r.sent \in Nat /\ r.size \in Nat
        /\ r.length - r.sent = Len(c) /\ r.sent + Len(c) = r.length /\ n + Len(c) = r.size
    BY <2>1, <2>2, LenProperties DEF InBasic, Response
  <2>4. CASE space > Len(c)
    <3>1. PICK a, b : a = Server!First(c, Len(c)) /\ b = Server!Rest(c, Len(c))
      OBVIOUS
    <3>2. RunsOn(a, n) /\ Len(a) = Len(c)
      <4>1. Len(c) \in 0 .. Len(c)
        BY <2>3
      <4> QED
        BY <2>3, <3>1, <4>1, Splitting, SMTT(30)
    <3>3. PICK t : t = [r EXCEPT !.content = <<>>, !.state = "wait_ack"]
      OBVIOUS
    <3>4. s.response = t /\ s.data = a
      BY <1>2, <2>2, <2>3, <2>4, <3>1, <3>3 DEF Server!AckBasic, Server!Step
    <3>5. /\ t \in Response /\ t.size = r.size /\ t.state = "wait_ack"
          /\ t.acked = r.acked /\ t.written = r.written
      BY <2>1, <3>3, EmptySeq DEF Response
    <3>6. Flows(t, n + Len(a))
      BY <2>3, <3>2, <3>5 DEF Flows, AllOut
    <3>7. Len(a) <= space
      BY <2>3, <2>4, <3>2
    <3> QED
      BY <3>2, <3>4, <3>5, <3>6, <3>7 DEF Moves
  <2>5. CASE ~(space > Len(c))
    <3>1. PICK a, b : a = Server!First(c, space) /\ b = Server!Rest(c, space)
      OBVIOUS
    <3>2. space \in 0 .. Len(c)
      BY <2>3, <2>5
    <3>3. RunsOn(a, n) /\ Len(a) = space /\ RunsOn(b, n + space) /\ Len(b) = Len(c) - space
      BY <2>3, <3>1, <3>2, Splitting, SMTT(30)
    <3>4. PICK t : t = [r EXCEPT !.content = b, !.sent = r.sent + space]
      OBVIOUS
    <3>5. s.response = t /\ s.data = a
      BY <1>2, <2>2, <2>3, <2>5, <3>1, <3>4 DEF Server!AckBasic, Server!Step
    <3>6. b \in Seq(Nat) /\ r.sent + space \in Nat
      BY <2>3, <3>3, SMTT(30) DEF RunsOn
    <3>7. /\ t \in Response /\ t.size = r.size /\ t.state = "content" /\ t.kind = "basic"
          /\ t.acked = r.acked /\ t.written = r.written /\ t.content = b
          /\ t.sent = r.sent + space /\ t.length = r.length
      BY <1>2, <2>1, <3>4, <3>6 DEF Response
    <3>8. r.sent + space + Len(b) = r.length /\ n + space + Len(b) = r.size
      <4>1. PICK m \in Nat, e \in Nat : m = Len(c) /\ e = r.sent
        BY <2>3
      <4>2. e + m = r.length /\ n + m = r.size /\ Len(b) = m - space
        BY <2>3, <3>3, <4>1
      <4>3. e + space + (m - space) = e + m /\ n + space + (m - space) = n + m
        BY <4>1, SMTT(30)
      <4> QED
        BY <4>1, <4>2, <4>3
    <3>9. Flows(t, n + space)
      BY <3>3, <3>7, <3>8 DEF Flows, InBasic
    <3> QED
      BY <3>3, <3>5, <3>7, <3>9 DEF Moves
  <2> QED
    BY <2>4, <2>5
<1> QED
  BY <1>1, <1>2

\* The data are a head and a part of the content; with room for both.
LEMMA AckingAbstract ==
  ASSUME NEW r, NEW n \in Nat, NEW space \in Nat, Flows(r, n), r.kind = "abstract",
         r.state # "end", NEW s, s = Server!AckAbstract(r, space, TRUE)
  PROVE  Moves(r, n, space, s)
<1>1. CASE r.state = "wait_ack"
  BY <1>1, Waiting DEF Server!AckAbstract
<1>2. CASE r.state # "wait_ack"
  <2>1. r \in Response /\ InAbstract(r, n)
    BY <1>2 DEF Flows, InBasic, AllOut
  <2>2. PICK h, c, e, l : h = r.head /\ c = r.content /\ e = r.sent /\ l = r.length
    OBVIOUS
  <2>3. /\ h \in Seq(Nat) /\ c \in Seq(Nat) /\ e \in Nat /\ l \in Nat /\ e <= l
        /\ Len(h) \in Nat /\ Len(c) \in Nat
        /\ RunsOn(h, n) /\ RunsOn(c, n + Len(h)) /\ n + Len(h) + (l - e) = r.size
        /\ e + Len(c) = l \/ (c = <<>> /\ e < l)
        /\ r.state \in {"headers", "content"} /\ (r.state = "content" => h = <<>>)
    BY <2>1, <2>2, LenProperties DEF InAbstract, Response
  <2>4. CASE r.state = "headers" /\ space < Len(h)
    <3>1. PICK a, b : a = Server!First(h, space) /\ b = Server!Rest(h, space)
      OBVIOUS
    <3>2. space \in 0 .. Len(h)
      BY <2>3, <2>4
    <3>3. RunsOn(a, n) /\ Len(a) = space /\ RunsOn(b, n + space) /\ Len(b) = Len(h) - space
      BY <2>3, <3>1, <3>2, Splitting
    <3>4. PICK t : t = [r EXCEPT !.head = b]
      OBVIOUS
    <3>5. s.response = t /\ s.data = a
      BY <1>2, <2>2, <2>4, <3>1, <3>4 DEF Server!AckAbstract, Server!Step
    <3>6. b \in Seq(Nat)
      BY <3>3 DEF RunsOn
    <3>7. /\ t \in Response /\ t.size = r.size /\ t.state = "headers" /\ t.kind = "abstract"
          /\ t.acked = r.acked /\ t.written = r.written /\ t.content = c /\ t.head = b
          /\ t.sent = e /\ t.length = l
      BY <2>1, <2>2, <2>4, <3>4, <3>6 DEF Response, InAbstract
    <3>8. n + space + Len(b) = n + Len(h)
      BY <2>3, <3>3
    <3>9. InAbstract(t, n + space)
      BY <2>3, <3>3, <3>7, <3>8 DEF InAbstract
    <3>10. Flows(t, n + Len(a)) /\ Len(a) <= space /\ t.state # "end"
      BY <3>3, <3>7, <3>9 DEF Flows
    <3> QED
      BY <3>3, <3>5, <3>7, <3>10 DEF Moves
  <2>5. CASE ~(r.state = "headers" /\ space < Len(h))
    <3>1. PICK left : left = Server!SpaceBehind(r, space)
      OBVIOUS
    <3>2. left = space - Len(h) /\ left \in Nat
      <4>1. CASE r.state = "headers"
        <5>1. left = space - Len(h) /\ Len(h) <= space
          BY <2>2, <2>3, <2>5, <3>1, <4>1 DEF Server!SpaceBehind
        <5> QED
          BY <2>3, <5>1
      <4>2. CASE r.state # "headers"
        <5>1. h = <<>> /\ left = space
          BY <2>3, <3>1, <4>2 DEF Server!SpaceBehind
        <5>2. Len(h) = 0
          BY <5>1, EmptySeq
        <5> QED
          BY <5>1, <5>2
      <4> QED
        BY <4>1, <4>2
    <3>3. PICK outLen : outLen = Server!Least(l - e, left)
      OBVIOUS
    <3>4. outLen \in Nat /\ outLen <= l - e /\ outLen <= left
      BY <2>3, <3>2, <3>3 DEF Server!Least
    <3>5. PICK k : k = Server!Least(outLen, Len(c))
      OBVIOUS
    <3>6. k \in 0 .. Len(c) /\ k \in Nat /\ k <= l - e /\ k <= left
      BY <2>3, <3>2, <3>4, <3>5, SMTT(30) DEF Server!Least
    <3>7. PICK a, b : a = Server!First(c, k) /\ b = Server!Rest(c, k)
      OBVIOUS
    <3>8. n + Len(h) \in Nat
      BY <2>3
    <3>9. RunsOn(a, n + Len(h)) /\ Len(a) = k /\ RunsOn(b, n + Len(h) + k) /\ Len(b) = Len(c) - k
      BY <2>3, <3>6, <3>7, <3>8, Splitting
    <3>10. PICK d : d = h \o a
      OBVIOUS
    <3>11. RunsOn(d, n) /\ Len(d) = Len(h) + k
      <4>1. RunsOn(h, n) /\ RunsOn(a, n + Len(h))
        BY <2>3, <3>9
      <4>2. RunsOn(h \o a, n) /\ Len(h \o a) = Len(h) + Len(a)
        BY <4>1, Joining
      <4> QED
        BY <3>9, <3>10, <4>2
    <3>12. PICK state : state = IF e + k = l THEN "wait_ack" ELSE "content"
      OBVIOUS
    <3>13. PICK t : t = [r EXCEPT !.head = <<>>, !.content = b, !.sent = e + k, !.state = state]
      BY SMTT(30)
    <3>14. s.response = t /\ s.data = d
      BY <1>2, <2>2, <2>5, <3>1, <3>3, <3>5, <3>7, <3>10, <3>12, <3>13
         DEF Server!AckAbstract, Server!Step
    <3>15. b \in Seq(Nat) /\ e + k \in Nat /\ <<>> \in Seq(Nat) /\ state \in {"wait_ack", "content"}
      BY <2>3, <3>6, <3>9, <3>12, EmptySeq DEF RunsOn
    <3>16. /\ t \in Response /\ t.size = r.size /\ t.state = state /\ t.kind = "abstract"
           /\ t.acked = r.acked /\ t.written = r.written /\ t.content = b /\ t.head = <<>>
           /\ t.sent = e + k /\ t.length = l
      BY <2>1, <2>2, <3>13, <3>15 DEF Response, InAbstract
    <3>17. PICK m : m = n + Len(d)
      OBVIOUS
    <3>18. m \in Nat /\ m = n + Len(h) + k /\ m + 0 + (l - (e + k)) = r.size /\ e + k <= l
      <4>1. PICK g \in Nat : g = Len(h)
        BY <2>3
      <4>2. n + g + (l - e) = r.size /\ m = n + (g + k)
        BY <2>3, <3>11, <3>17, <4>1
      <4>3. n + (g + k) + 0 + (l - (e + k)) = n + g + (l - e) /\ n + (g + k) = n + g + k
        BY <2>3, <3>6, <4>1
      <4> QED
        BY <2>3, <3>6, <4>1, <4>2, <4>3
    <3>19. Len(d) <= space
      BY <2>3, <3>2, <3>6, <3>11
    <3>20. Flows(t, m)
      <4>1. CASE e + k = l
        <5>1. m = r.size
          <6>1. l - (e + k) = 0
            BY <2>3, <4>1
          <6> QED
            BY <3>18, <6>1
        <5> QED
          BY <3>12, <3>16, <4>1, <5>1 DEF Flows, AllOut
      <4>2. CASE e + k # l
        <5>1. e + k < l
          BY <2>3, <3>6, <3>18, <4>2
        <5>2. e + k + Len(b) = l \/ (b = <<>> /\ e + k < l)
          <6>1. CASE e + Len(c) = l
            <7>1. PICK g \in Nat : g = Len(c)
              BY <2>3
            <7>2. e + g = l /\ Len(b) = g - k
              BY <3>9, <6>1, <7>1
            <7> QED
              <8>1. e + k + (g - k) = e + g
                BY <2>3, <3>6, <7>1
              <8> QED
                BY <7>2, <8>1
          <6>2. CASE c = <<>>
            <7>1. Len(b) = 0
              BY <3>6, <3>9, <6>2, EmptySeq
            <7> QED
              BY <3>15, <5>1, <7>1, EmptySeq
          <6> QED
            BY <2>3, <6>1, <6>2
        <5>3. RunsOn(<<>>, m) /\ RunsOn(b, m + Len(<<>>)) /\ Len(<<>>) = 0
          BY <3>9, <3>18, NoBytes
        <5>4. t.state = "content"
          BY <3>12, <3>16, <4>2
        <5>5. InAbstract(t, m)
          BY <3>16, <3>18, <5>2, <5>3, <5>4 DEF InAbstract
        <5> QED
          BY <3>16, <5>5 DEF Flows
      <4> QED
        BY <4>1, <4>2
    <3> QED
      BY <3>11, <3>12, <3>14, <3>16, <3>17, <3>19, <3>20 DEF Moves
  <2> QED
    BY <2>4, <2>5
<1> QED
  BY <1>1, <1>2

\* What the handlers send.
Fresh(r, head, n) ==
  /\ r \in Response /\ r.state = "setup" /\ r.sent = 0 /\ r.acked = 0 /\ r.written = 0
  /\ RunsOn(r.head, 0) /\ Len(r.head) = head /\ RunsOn(r.content, head) /\ Len(r.content) = n
  /\ r.length = n /\ r.size = head + n

LEMMA Making ==
  ASSUME NEW kind \in {"basic", "abstract"}, NEW head \in Nat, NEW n \in Nat,
         NEW r, r = Server!NewResponse(kind, head, n)
  PROVE  Fresh(r, head, n) /\ r.kind = kind
<1>1. PICK h, c : h = Server!Bytes(0, head) /\ c = Server!Bytes(head, n)
  OBVIOUS
<1>2. RunsOn(h, 0) /\ Len(h) = head /\ RunsOn(c, head) /\ Len(c) = n
  BY <1>1, NewBytes
<1>3. h \in Seq(Nat) /\ c \in Seq(Nat) /\ head + n \in Nat
  BY <1>2 DEF RunsOn
<1>4. r = [kind |-> kind, state |-> "setup", head |-> h, content |-> c, length |-> n,
           size |-> head + n, sent |-> 0, acked |-> 0, written |-> 0]
  BY <1>1 DEF Server!NewResponse
<1>5. r \in Response
  BY <1>3, <1>4 DEF Response
<1> QED
  BY <1>2, <1>4, <1>5 DEF Fresh

\* The first part of a short answer: all of it, part of the head, or the
\* head and part of the text.
LEMMA RespondingBasic ==
  ASSUME NEW r, NEW head \in Nat, NEW n \in Nat, Fresh(r, head, n), r.kind = "basic",
         NEW space \in Nat, NEW s, s = Server!RespondBasic(r, space)
  PROVE  Moves(r, 0, space, s)
<1>1. PICK h, c : h = r.head /\ c = r.content
  OBVIOUS
<1>2. /\ r \in Response /\ r.sent = 0 /\ r.length = n /\ r.size = head + n /\ r.state = "setup"
      /\ Len(h) = head /\ Len(c) = n
  BY <1>1 DEF Fresh
<1>8. RunsOn(h, 0) /\ RunsOn(c, head) /\ head = 0 + Len(h)
  BY <1>1 DEF Fresh
<1>3. RunsOn(h \o c, 0) /\ Len(h \o c) = head + n
  <2>1. RunsOn(h \o c, 0) /\ Len(h \o c) = Len(h) + Len(c)
    BY <1>8, Joining
  <2> QED
    BY <1>2, <2>1
<1>4. CASE space >= head + n
  <2>1. PICK t : t = [r EXCEPT !.state = "wait_ack"]
    OBVIOUS
  <2>2. s.response = t /\ s.data = h \o c
    <3>1. Len(r.head) = head /\ Len(r.content) = n /\ r.head = h /\ r.content = c
      BY <1>1, <1>2
    <3>2. space >= Len(r.head) + Len(r.content)
      BY <1>4, <3>1
    <3>3. Server!RespondBasic(r, space)
            = Server!Step([r EXCEPT !.state = "wait_ack"], r.head \o r.content)
      <4>1. /\ ~(space > 0 /\ space < Len(r.head))
            /\ ~(space > Len(r.head) /\ space < Len(r.head) + Len(r.content))
        BY <1>4, <3>1
      <4> QED
        BY <3>2, <4>1 DEF Server!RespondBasic
    <3> QED
      BY <2>1, <3>1, <3>3 DEF Server!Step
  <2>3. /\ t \in Response /\ t.size = r.size /\ t.state = "wait_ack"
        /\ t.acked = r.acked /\ t.written = r.written
    BY <1>2, <2>1 DEF Response
  <2>4. Flows(t, 0 + Len(h \o c))
    BY <1>2, <1>3, <2>3 DEF Flows, AllOut
  <2> QED
    BY <1>3, <1>4, <2>2, <2>3, <2>4 DEF Moves
<1>5. CASE space > 0 /\ space < head
  <2>1. PICK a, b : a = Server!First(h, space) /\ b = Server!Rest(h, space)
    OBVIOUS
  <2>2. RunsOn(a, 0) /\ Len(a) = space /\ RunsOn(b, space) /\ Len(b) = head - space
    <3>1. space \in 0 .. Len(h) /\ 0 + space = space
      BY <1>2, <1>5
    <3>2. RunsOn(a, 0) /\ Len(a) = space /\ RunsOn(b, space) /\ Len(b) = Len(h) - space
      BY <1>8, <2>1, <3>1, Splitting
    <3> QED
      BY <1>2, <3>2
  <2>3. RunsOn(b \o c, space) /\ Len(b \o c) = (head - space) + n
    <3>1. space + Len(b) = head
      BY <1>5, <2>2
    <3>2. RunsOn(b \o c, space) /\ Len(b \o c) = Len(b) + Len(c)
      BY <1>8, <2>2, <3>1, Joining
    <3> QED
      BY <1>2, <2>2, <3>2
  <2>4. PICK t : t = [r EXCEPT !.content = b \o c, !.length = n + head - space,
                              !.state = "content"]
    OBVIOUS
  <2>5. s.response = t /\ s.data = a
    BY <1>1, <1>2, <1>5, <2>1, <2>4 DEF Server!RespondBasic, Server!Step
  <2>6. b \o c \in Seq(Nat) /\ n + head - space \in Nat
    BY <1>5, <2>3 DEF RunsOn
  <2>7. /\ t \in Response /\ t.size = head + n /\ t.state = "content" /\ t.kind = "basic"
        /\ t.acked = r.acked /\ t.written = r.written /\ t.content = b \o c
        /\ t.sent = 0 /\ t.length = n + head - space
    BY <1>2, <2>4, <2>6 DEF Response
  <2>8. 0 + Len(b \o c) = n + head - space /\ 0 + Len(a) = space
        /\ space + Len(b \o c) = head + n /\ Len(a) <= space
    BY <2>2, <2>3
  <2>9. Flows(t, 0 + Len(a))
    BY <2>3, <2>7, <2>8 DEF Flows, InBasic
  <2> QED
    BY <2>2, <2>5, <2>7, <2>8, <2>9 DEF Moves
<1>6. CASE space > head /\ space < head + n
  <2>1. PICK k : k = space - head
    OBVIOUS
  <2>2. k \in 0 .. Len(c) /\ k \in Nat /\ head + k = space /\ k <= n
    BY <1>2, <1>6, <2>1
  <2>3. PICK a, b : a = Server!First(c, k) /\ b = Server!Rest(c, k)
    OBVIOUS
  <2>4. RunsOn(a, head) /\ Len(a) = k /\ RunsOn(b, space) /\ Len(b) = n - k
    <3>1. RunsOn(a, head) /\ Len(a) = k /\ RunsOn(b, space) /\ Len(b) = Len(c) - k
      BY <1>8, <2>2, <2>3, Splitting
    <3> QED
      BY <1>2, <3>1
  <2>5. RunsOn(h \o a, 0) /\ Len(h \o a) = space
    <3>2. RunsOn(a, head)
      BY <2>4
    <3>1. RunsOn(h \o a, 0) /\ Len(h \o a) = Len(h) + Len(a)
      BY <1>8, <3>2, Joining
    <3> QED
      BY <1>2, <2>2, <2>4, <3>1
  <2>6. PICK t : t = [r EXCEPT !.sent = 0 + k, !.content = b, !.state = "content"]
    OBVIOUS
  <2>7. s.response = t /\ s.data = h \o a
    <3>1. Len(r.head) = head /\ Len(r.content) = n /\ r.head = h /\ r.content = c /\ r.sent = 0
      BY <1>1, <1>2
    <3>2. ~(space >= head + n) /\ ~(space > 0 /\ space < head)
      BY <1>6
    <3>3. Server!RespondBasic(r, space)
            = Server!Step([r EXCEPT !.sent = 0 + k, !.content = Server!Rest(c, k),
                                    !.state = "content"], h \o Server!First(c, k))
      BY <1>6, <2>1, <3>1, <3>2 DEF Server!RespondBasic
    <3> QED
      BY <2>3, <2>6, <3>3 DEF Server!Step
  <2>8. b \in Seq(Nat) /\ 0 + k = k
    BY <2>2, <2>4 DEF RunsOn
  <2>9. /\ t \in Response /\ t.size = head + n /\ t.state = "content" /\ t.kind = "basic"
        /\ t.acked = r.acked /\ t.written = r.written /\ t.content = b
        /\ t.sent = k /\ t.length = n
    BY <1>2, <2>2, <2>6, <2>8 DEF Response
  <2>10. k + Len(b) = n /\ space + Len(b) = head + n /\ 0 + Len(h \o a) = space
    BY <2>2, <2>4, <2>5
  <2>11. Flows(t, 0 + Len(h \o a))
    BY <2>4, <2>9, <2>10 DEF Flows, InBasic
  <2>12. Len(h \o a) <= space
    BY <2>5
  <2> QED
    BY <2>5, <2>7, <2>9, <2>11, <2>12 DEF Moves
<1>7. CASE /\ ~(space >= head + n) /\ ~(space > 0 /\ space < head)
           /\ ~(space > head /\ space < head + n)
  <2>1. PICK t : t = [r EXCEPT !.content = h \o c, !.length = n + head, !.state = "content"]
    OBVIOUS
  <2>2. s.response = t /\ s.data = <<>>
    BY <1>1, <1>2, <1>7, <2>1 DEF Server!RespondBasic, Server!Step
  <2>3. h \o c \in Seq(Nat) /\ n + head \in Nat
    BY <1>3 DEF RunsOn
  <2>4. /\ t \in Response /\ t.size = head + n /\ t.state = "content" /\ t.kind = "basic"
        /\ t.acked = r.acked /\ t.written = r.written /\ t.content = h \o c
        /\ t.sent = 0 /\ t.length = n + head
    BY <1>2, <2>1, <2>3 DEF Response
  <2>5. 0 + Len(h \o c) = n + head /\ 0 + Len(h \o c) = head + n
    BY <1>3
  <2>6. Flows(t, 0)
    BY <1>3, <2>4, <2>5 DEF Flows, InBasic
  <2>7. RunsOn(<<>>, 0) /\ Len(<<>>) = 0 /\ 0 + 0 = 0 /\ 0 <= space
    BY NoBytes
  <2> QED
    BY <2>2, <2>4, <2>6, <2>7 DEF Moves
<1> QED
  BY <1>4, <1>5, <1>6, <1>7

LEMMA Responding ==
  ASSUME NEW r, NEW head \in Nat, NEW n \in Nat, Fresh(r, head, n),
         NEW space \in Nat, NEW s, s = Server!Respond(r, space, TRUE)
  PROVE  Moves(r, 0, space, s)
<1>1. CASE r.kind = "basic"
  BY <1>1, RespondingBasic DEF Server!Respond
<1>2. CASE r.kind # "basic"
  <2>1. PICK t : t = [r EXCEPT !.state = "headers"]
    OBVIOUS
  <2>2. s = Server!AckAbstract(t, space, TRUE)
    BY <1>2, <2>1 DEF Server!Respond
  <2>3. /\ t \in Response /\ t.kind = "abstract" /\ t.state = "headers" /\ t.head = r.head
        /\ t.content = r.content /\ t.sent = 0 /\ t.length = n /\ t.size = head + n
        /\ t.acked = r.acked /\ t.written = r.written
    BY <1>2, <2>1 DEF Fresh, Response
  <2>4. /\ RunsOn(t.head, 0) /\ Len(t.head) = head /\ RunsOn(t.content, 0 + Len(t.head))
        /\ 0 + Len(t.content) = n /\ 0 + Len(t.head) + (n - 0) = head + n /\ 0 <= n
    BY <2>3 DEF Fresh
  <2>5. InAbstract(t, 0)
    BY <2>3, <2>4 DEF InAbstract
  <2>6. Moves(t, 0, space, s)
    <3>1. Flows(t, 0) /\ t.state # "end"
      BY <2>3, <2>5 DEF Flows
    <3> QED
      <4>1. t.kind = "abstract" /\ 0 \in Nat
        BY <2>3
      <4> QED
        BY <2>2, <3>1, <4>1, AckingAbstract
  <2> QED
    BY <2>3, <2>6 DEF Moves
<1> QED
  BY <1>1, <1>2

-----------------------------------------------------------------------------
(* The invariant of the connection.                                        *)

\* What is on the wire are the first bytes, and the response has the others
\* and has counted what was written and acknowledged.
Wired ==
  /\ RunsOn(out, 0) /\ acked \in Nat /\ acked <= Len(out) /\ Len(out) - acked <= SendBuffer
  /\ parse # "end" => response = Server!NoResponse /\ out = <<>>
  /\ \/ response = Server!NoResponse
     \/ Flows(response, Len(out)) /\ response.acked = acked /\ response.written = Len(out)

WireInv == starved \in BOOLEAN /\ (starved = FALSE => Wired)

\* AsyncClient::write takes all of what a step hands on.
LEMMA Writing ==
  ASSUME RunsOn(out, 0), acked' \in Nat, acked' <= Len(out), NEW space \in Nat,
         space = SendBuffer - (Len(out) - acked'), SendBuffer \in Nat, parse' = "end",
         NEW r, NEW s, Moves(r, Len(out), space, s), r.acked = acked', r.written = Len(out),
         Server!Write(s.response, s.data, space)
  PROVE  Wired'
<1>1. PICK d, q : d = s.data /\ q = s.response
  OBVIOUS
<1>2. /\ RunsOn(d, Len(out)) /\ Len(d) <= space /\ Flows(q, Len(out) + Len(d))
      /\ q.acked = acked' /\ q.written = Len(out) /\ (q.state = "end" => d = <<>>)
  BY <1>1 DEF Moves
<1>3. out \in Seq(Nat) /\ Len(out) \in Nat /\ d \in Seq(Nat) /\ Len(d) \in Nat
  BY <1>2, LenProperties DEF RunsOn
<1>4. Server!Least(space, Len(d)) = Len(d)
  BY <1>2, <1>3 DEF Server!Least
<1>5. Server!First(d, Len(d)) = d
  BY <1>3, SubSeqFull DEF Server!First
<1>6. response' = [q EXCEPT !.written = q.written + Len(d)] /\ out' = out \o d
  BY <1>1, <1>4, <1>5 DEF Server!Write
<1>7. RunsOn(out', 0) /\ Len(out') = Len(out) + Len(d)
  <2>1. Len(out) = 0 + Len(out)
    BY <1>3
  <2>2. RunsOn(d, Len(out))
    BY <1>2
  <2>3. RunsOn(out \o d, 0) /\ Len(out \o d) = Len(out) + Len(d)
    BY <2>1, <2>2, Joining
  <2> QED
    BY <1>6, <2>3
<1>8. PICK w \in Nat : w = Len(out) + Len(d)
  BY <1>3
<1>9. q \in Response
  BY <1>2 DEF Flows
<1>10. PICK t : t = [q EXCEPT !.written = w]
  OBVIOUS
<1>11. response' = t
  BY <1>2, <1>6, <1>8, <1>10
<1>12. /\ t \in Response /\ t.kind = q.kind /\ t.state = q.state /\ t.head = q.head
       /\ t.content = q.content /\ t.length = q.length /\ t.size = q.size /\ t.sent = q.sent
       /\ t.acked = q.acked /\ t.written = w
  BY <1>8, <1>9, <1>10 DEF Response
<1>13. q.state = "end" => w = q.written
  BY <1>2, <1>3, <1>8, EmptySeq
<1>14. Flows(t, w)
  BY <1>2, <1>8, <1>12, <1>13 DEF Flows, InBasic, InAbstract, AllOut
<1>15. Len(out') = w /\ acked' <= w /\ w - acked' <= SendBuffer
  BY <1>2, <1>3, <1>7, <1>8, SMTT(30)
<1> QED
  BY <1>2, <1>7, <1>11, <1>12, <1>14, <1>15 DEF Wired

\* While the heap has room, a response is made and its first part sent, when
\* nothing is on the wire yet.
LEMMA SendStep ==
  ASSUME WireInv, parse # "end", starved' = FALSE, NEW r,
         \/ r = Server!NoResponse
         \/ \E head \in Nat, n \in Nat : Fresh(r, head, n),
         Server!Send(r), acked' = acked, parse' = "end" \/ r = Server!NoResponse,
         SendBuffer \in Nat
  PROVE  Wired'
<1>1. CASE r = Server!NoResponse
  <2>1. UNCHANGED <<response, out, starved, acked>>
    BY <1>1 DEF Server!Send
  <2> QED
    BY <2>1 DEF WireInv, Wired
<1>2. CASE r # Server!NoResponse
  <2>1. PICK head \in Nat, n \in Nat : Fresh(r, head, n)
    BY <1>2
  <2>2. PICK heap \in BOOLEAN :
          /\ Server!Heap(heap)
          /\ \E s \in {Server!Respond(r, Server!Space, heap)} :
               Server!Write(s.response, s.data, Server!Space)
    BY <1>2 DEF Server!Send
  <2>3. heap = TRUE /\ starved = FALSE
    BY <2>2 DEF Server!Heap, WireInv
  <2>4. Wired /\ out = <<>> /\ Len(out) = 0
    BY <2>3, EmptySeq DEF WireInv, Wired
  <2>5. acked = 0
    BY <2>4 DEF Wired
  <2>6. PICK space \in Nat : space = Server!Space
    BY <2>4, <2>5 DEF Server!Space
  <2>7. space = SendBuffer - (Len(out) - acked')
    BY <2>6 DEF Server!Space
  <2>8. PICK s : s = Server!Respond(r, space, TRUE) /\ Server!Write(s.response, s.data, space)
    BY <2>2, <2>3, <2>6
  <2>9. Moves(r, Len(out), space, s)
    BY <2>1, <2>4, <2>8, Responding
  <2>10. /\ acked' \in Nat /\ acked' <= Len(out) /\ r.acked = acked' /\ r.written = Len(out)
         /\ parse' = "end"
    BY <1>2, <2>1, <2>4, <2>5 DEF Fresh
  <2> QED
    BY <2>4, <2>7, <2>8, <2>9, <2>10, Writing DEF Wired
<1> QED
  BY <1>1, <1>2

\* An acknowledgement of len bytes, or with 0 a poll, moves a response on.
LEMMA MoveStep ==
  ASSUME WireInv, starved' = FALSE, response # Server!NoResponse,
         ~Server!Finished(response), NEW len \in Nat, len <= Len(out) - acked,
         acked' = acked + len, Server!AckStep(len), UNCHANGED parse, SendBuffer \in Nat
  PROVE  Wired'
<1>1. PICK heap, space, s :
        /\ heap \in BOOLEAN /\ Server!Heap(heap) /\ space = SendBuffer - (Len(out) - acked')
        /\ s = Server!Ack(response, len, space, heap)
        /\ Server!Write(s.response, s.data, space)
  BY DEF Server!AckStep
<1>2. heap = TRUE /\ starved = FALSE
  BY <1>1 DEF Server!Heap, WireInv
<1>3. /\ RunsOn(out, 0) /\ acked \in Nat /\ acked <= Len(out) /\ Len(out) - acked <= SendBuffer
      /\ parse = "end" /\ Flows(response, Len(out))
      /\ response.acked = acked /\ response.written = Len(out)
  BY <1>2 DEF WireInv, Wired
<1>4. Len(out) \in Nat
  BY <1>3, LenProperties DEF RunsOn
<1>5. space \in Nat /\ acked' \in Nat /\ acked' <= Len(out)
  BY <1>1, <1>3, <1>4
<1>6. PICK a : a = [response EXCEPT !.acked = acked']
  OBVIOUS
<1>7. a = [response EXCEPT !.acked = response.acked + len]
  BY <1>3, <1>6
<1>8. response \in Response /\ response.state # "end"
  BY <1>3 DEF Flows, Server!Finished
<1>9. /\ a \in Response /\ a.kind = response.kind /\ a.state = response.state
      /\ a.head = response.head /\ a.content = response.content /\ a.length = response.length
      /\ a.size = response.size /\ a.sent = response.sent /\ a.acked = acked'
      /\ a.written = response.written
  BY <1>5, <1>6, <1>8 DEF Response
<1>10. Flows(a, Len(out)) /\ a.state # "end"
  BY <1>3, <1>8, <1>9 DEF Flows, InBasic, InAbstract, AllOut
<1>11. Moves(a, Len(out), space, s)
  <2>1. CASE a.kind = "basic"
    <3>1. s = Server!AckBasic(a, space)
      BY <1>1, <1>7, <2>1 DEF Server!Ack
    <3> QED
      BY <1>4, <1>5, <1>10, <2>1, <3>1, AckingBasic
  <2>2. CASE a.kind = "abstract"
    <3>1. s = Server!AckAbstract(a, space, TRUE)
      BY <1>1, <1>2, <1>7, <2>2 DEF Server!Ack
    <3> QED
      BY <1>4, <1>5, <1>10, <2>2, <3>1, AckingAbstract
  <2> QED
    BY <1>9, <2>1, <2>2 DEF Response
<1>12. a.acked = acked' /\ a.written = Len(out) /\ parse' = "end"
  BY <1>3, <1>9
<1> QED
  BY <1>1, <1>3, <1>5, <1>11, <1>12, Writing

\* Nothing the property is about changes.
LEMMA StillStep ==
  ASSUME WireInv, UNCHANGED <<response, out, acked, parse, starved>>
  PROVE  WireInv'
BY DEF WireInv, Wired

\* What a handler answers is nothing or a new response.
LEMMA Handling ==
  ASSUME WireAssumption, NEW head \in HeadLengths, NEW q, NEW r,
         \/ r = Server!HandleRequest(q, head)
         \/ \E index, len : r = Server!HandleBody(q, head, index, len)
  PROVE  r = Server!NoResponse \/ \E h \in Nat, n \in Nat : Fresh(r, h, n)
<1>1. head \in Nat /\ FileLength \in Nat /\ TextLength \in Nat
  BY DEF WireAssumption
<1>2. r \in {Server!FileResponse(head), Server!ResponseStream(head), Server!BasicResponse(head),
             Server!NoResponse}
  BY DEF Server!HandleRequest, Server!HandleBody
<1>3. \/ r = Server!NoResponse
      \/ \E kind \in {"basic", "abstract"}, n \in Nat : r = Server!NewResponse(kind, head, n)
  BY <1>1, <1>2 DEF Server!FileResponse, Server!ResponseStream, Server!BasicResponse
<1>4. CASE \E kind \in {"basic", "abstract"}, n \in Nat : r = Server!NewResponse(kind, head, n)
  <2>1. PICK kind \in {"basic", "abstract"}, n \in Nat : r = Server!NewResponse(kind, head, n)
    BY <1>4
  <2>2. Fresh(r, head, n)
    BY <1>1, <2>1, Making
  <2> QED
    BY <1>1, <2>2
<1> QED
  BY <1>3, <1>4

\* A file that ends early: what is left of it is left out.
LEMMA CutStep ==
  ASSUME WireInv, Server!FileCut
  PROVE  WireInv'
<1>1. /\ UNCHANGED <<out, acked, parse, starved>>
      /\ response.kind = "abstract" /\ response.content # <<>>
      /\ response' = [response EXCEPT !.content = <<>>]
  BY DEF Server!FileCut
<1>2. ASSUME starved = FALSE PROVE Wired'
  <2>1. Wired
    BY <1>2 DEF WireInv
  <2>2. response # Server!NoResponse
    BY <1>1 DEF Server!NoResponse
  <2>3. Flows(response, Len(out)) /\ response.acked = acked /\ response.written = Len(out)
    BY <2>1, <2>2 DEF Wired
  <2>4. response \in Response
    BY <2>3 DEF Flows
  <2>5. PICK n : n = Len(out)
    OBVIOUS
  <2>6. n \in Nat
    BY <2>1, <2>5, LenProperties DEF Wired, RunsOn
  <2>7. PICK t : t = [response EXCEPT !.content = <<>>]
    OBVIOUS
  <2>8. /\ t \in Response /\ t.kind = response.kind /\ t.state = response.state
        /\ t.head = response.head /\ t.content = <<>> /\ t.length = response.length
        /\ t.size = response.size /\ t.sent = response.sent /\ t.acked = response.acked
        /\ t.written = response.written
    BY <2>4, <2>7, EmptySeq DEF Response
  <2>9. ASSUME InAbstract(response, n) PROVE Flows(t, n)
    <3>1. Len(response.content) \in Nat \ {0} /\ Len(response.head) \in Nat
          /\ response.sent \in Nat /\ response.length \in Nat
      BY <1>1, <2>4, EmptySeq, LenProperties DEF Response
    <3>2. response.sent < response.length
      BY <1>1, <2>9, <3>1 DEF InAbstract
    <3>3. n + Len(response.head) \in Nat
      BY <2>6, <3>1
    <3>4. RunsOn(<<>>, n + Len(response.head))
      BY <3>3, NoBytes
    <3>5. InAbstract(t, n)
      BY <2>8, <2>9, <3>2, <3>4 DEF InAbstract
    <3>6. t \in Response
      BY <2>8
    <3> QED
      BY <3>5, <3>6 DEF Flows
  <2>10. ASSUME AllOut(response, n) PROVE Flows(t, n)
    <3>1. /\ response.state \in {"wait_ack", "end"} /\ n = response.size
          /\ response.state = "end" => response.acked >= response.written
      BY <2>10 DEF AllOut
    <3>2. t.state = response.state /\ t.size = response.size /\ t.acked = response.acked
          /\ t.written = response.written /\ t \in Response
      BY <2>8
    <3>3. AllOut(t, n)
      BY <3>1, <3>2 DEF AllOut
    <3> QED
      BY <3>2, <3>3 DEF Flows
  <2>11. Flows(t, n)
    <3>1. Flows(response, n)
      BY <2>3, <2>5
    <3>2. response.kind # "basic"
      BY <1>1
    <3>3. ~InBasic(response, n)
      BY <3>2 DEF InBasic
    <3>4. InAbstract(response, n) \/ AllOut(response, n)
      BY <3>1, <3>3 DEF Flows
    <3> QED
      BY <2>9, <2>10, <3>4
  <2> QED
    BY <1>1, <2>1, <2>2, <2>3, <2>5, <2>7, <2>8, <2>11 DEF Wired
<1> QED
  BY <1>1, <1>2 DEF WireInv

\* The heap runs dry once and for all.
LEMMA HeapBooks ==
  ASSUME starved \in BOOLEAN, NEW heap \in BOOLEAN, Server!Heap(heap)
  PROVE  starved' \in BOOLEAN
BY DEF Server!Heap

\* Every callback says what becomes of starved.
LEMMA Starving ==
  ASSUME WireInv,
         \/ UNCHANGED starved
         \/ \E heap \in BOOLEAN : Server!Heap(heap),
         starved' = FALSE => Wired'
  PROVE  WireInv'
BY HeapBooks DEF WireInv

\* So does what a handler sends.
LEMMA SendBooks ==
  ASSUME NEW r, Server!Send(r)
  PROVE  UNCHANGED starved \/ \E heap \in BOOLEAN : Server!Heap(heap)
BY DEF Server!Send

\* A segment of the request: its handler may answer.
LEMMA DataServed ==
  ASSUME WireInv, WireAssumption, Server!OnData
  PROVE  WireInv'
<1>1. acked' = acked /\ SendBuffer \in Nat
  BY DEF Server!OnData, WireAssumption
<1>2. CASE Server!Lines
  <2>1. parse # "end"
    BY <1>2 DEF Server!Lines
  <2>2. CASE UNCHANGED <<response, out, starved>> /\ parse' # "end"
    <3>1. starved = FALSE => Wired'
      BY <1>1, <2>1, <2>2 DEF WireInv, Wired
    <3> QED
      BY <2>2, <3>1 DEF WireInv
  <2>3. CASE /\ parse' = "end"
             /\ \E head \in HeadLengths : Server!Send(Server!HandleRequest(request, head))
    <3>1. PICK head \in HeadLengths : Server!Send(Server!HandleRequest(request, head))
      BY <2>3
    <3>2. PICK r : r = Server!HandleRequest(request, head)
      OBVIOUS
    <3>3. r = Server!NoResponse \/ \E h \in Nat, n \in Nat : Fresh(r, h, n)
      BY <3>2, Handling
    <3>4. Server!Send(r)
      BY <3>1, <3>2
    <3>5. starved' = FALSE => Wired'
      BY <1>1, <2>1, <2>3, <3>3, <3>4, SendStep
    <3> QED
      BY <3>4, <3>5, SendBooks, Starving
  <2> QED
    BY <1>2, <2>2, <2>3 DEF Server!Lines
<1>3. CASE Server!Body
  <2>1. parse = "body"
    BY <1>3 DEF Server!Body
  <2>2. PICK head, len, r :
          /\ head \in HeadLengths /\ parsed' = parsed + len
          /\ parse' = IF parsed' = request.body THEN "end" ELSE parse
          /\ r = IF Server!HandleBody(request, head, parsed, len) = Server!NoResponse
                  /\ parse' = "end"
                 THEN Server!HandleRequest(request, head)
                 ELSE Server!HandleBody(request, head, parsed, len)
          /\ Server!Send(r)
    BY <1>3 DEF Server!Body
  <2>3. r = Server!NoResponse \/ \E h \in Nat, n \in Nat : Fresh(r, h, n)
    BY <2>2, Handling
  <2>4. parse' = "end" \/ r = Server!NoResponse
    BY <2>1, <2>2 DEF Server!HandleBody
  <2>5. starved' = FALSE => Wired'
    BY <1>1, <2>1, <2>2, <2>3, <2>4, SendStep
  <2> QED
    BY <2>2, <2>5, SendBooks, Starving
<1> QED
  BY <1>2, <1>3 DEF Server!OnData

\* And what an acknowledgement lets go.
LEMMA AckBooks ==
  ASSUME NEW len, Server!AckStep(len)
  PROVE  \E heap \in BOOLEAN : Server!Heap(heap)
BY DEF Server!AckStep

\* An acknowledgement: it counts for the response, which goes on.
LEMMA AckServed ==
  ASSUME WireInv, WireAssumption, Server!OnAck
  PROVE  WireInv'
<1>1. UNCHANGED parse /\ SendBuffer \in Nat
  BY DEF Server!OnAck, WireAssumption
<1>2. PICK len \in 1 .. Len(out) - acked :
        /\ acked' = acked + len
        /\ \/ /\ response = Server!NoResponse \/ response' = Server!NoResponse
              /\ response = Server!NoResponse => response' = response
              /\ UNCHANGED <<out, starved>>
           \/ /\ response # Server!NoResponse /\ ~Server!Finished(response)
              /\ Server!AckStep(len)
  BY DEF Server!OnAck
<1>3. CASE /\ response = Server!NoResponse \/ response' = Server!NoResponse
           /\ response = Server!NoResponse => response' = response
           /\ UNCHANGED <<out, starved>>
  <2>1. ASSUME starved = FALSE PROVE Wired'
    <3>1. Wired
      BY <2>1 DEF WireInv
    <3>2. Len(out) \in Nat /\ acked \in Nat
      BY <3>1, LenProperties DEF Wired, RunsOn
    <3>3. acked' \in Nat /\ acked' <= Len(out) /\ Len(out) - acked' <= SendBuffer
      BY <1>1, <1>2, <3>1, <3>2 DEF Wired
    <3> QED
      BY <1>1, <1>3, <3>1, <3>3 DEF Wired
  <2> QED
    BY <1>3, <2>1 DEF WireInv
<1>4. CASE /\ response # Server!NoResponse /\ ~Server!Finished(response)
           /\ Server!AckStep(len)
  <2>1. ASSUME starved' = FALSE PROVE Wired'
    <3>1. starved = FALSE
      BY <1>4, <2>1 DEF Server!AckStep, Server!Heap, WireInv
    <3>2. Len(out) \in Nat /\ acked \in Nat
      BY <3>1, LenProperties DEF WireInv, Wired, RunsOn
    <3>3. len \in Nat /\ len <= Len(out) - acked
      BY <3>2
    <3> QED
      BY <1>1, <1>2, <1>4, <2>1, <3>3, MoveStep
  <2> QED
    BY <1>4, <2>1, AckBooks, Starving
<1> QED
  BY <1>2, <1>3, <1>4

\* A poll of lwIP is an acknowledgement of nothing.
LEMMA PollServed ==
  ASSUME WireInv, WireAssumption, Server!OnPoll
  PROVE  WireInv'
<1>1. /\ response # Server!NoResponse /\ ~Server!Finished(response) /\ Server!AckStep(0)
      /\ UNCHANGED <<parse, acked>> /\ SendBuffer \in Nat
  BY DEF Server!OnPoll, Server!PollAsks, WireAssumption
<1>2. ASSUME starved' = FALSE PROVE Wired'
  <2>1. starved = FALSE
    BY <1>1, <1>2 DEF Server!AckStep, Server!Heap, WireInv
  <2>2. Len(out) \in Nat /\ acked \in Nat /\ acked <= Len(out)
    BY <2>1, LenProperties DEF WireInv, Wired, RunsOn
  <2>3. 0 \in Nat /\ 0 <= Len(out) - acked /\ acked' = acked + 0
    BY <1>1, <2>2
  <2> QED
    BY <1>1, <1>2, <2>3, MoveStep
<1> QED
  BY <1>1, <1>2, AckBooks, Starving

\* One case per callback of the connection.
LEMMA WireSteps ==
  ASSUME WireInv, WireAssumption, [NodeNext]_allVars
  PROVE  WireInv'
<1>1. CASE Server!Next
  <2>1. CASE Server!OnData \/ Server!OnAck \/ Server!OnPoll \/ Server!FileCut
    BY <2>1, DataServed, AckServed, PollServed, CutStep
  <2>2. CASE \/ Server!Accept \/ Server!PollCloses \/ Server!RxTimeout \/ Server!OnTimeout
             \/ Server!Leaves
    <3>1. UNCHANGED <<response, out, acked, parse, starved>>
      BY <2>2 DEF Server!Accept, Server!PollCloses, Server!RxTimeout, Server!OnTimeout,
                  Server!Leaves, Server!Closed
    <3> QED
      BY <3>1, StillStep
  <2> QED
    BY <1>1, <2>1, <2>2 DEF Server!Next
<1>2. CASE UNCHANGED serverVars
  BY <1>2, StillStep DEF serverVars
<1> QED
  BY <1>1, <1>2 DEF NodeNext, allVars

\* No byte is on the wire of a new connection.
LEMMA WireStarts ==
  ASSUME NodeInit, WireAssumption
  PROVE  WireInv
<1>1. Server!Init
  BY DEF NodeInit
<1>2. /\ parse = "start" /\ response = Server!NoResponse /\ out = <<>> /\ acked = 0
      /\ starved = FALSE
  BY <1>1 DEF Server!Init
<1>3. RunsOn(<<>>, 0) /\ Len(<<>>) = 0
  <2>1. 0 \in Nat
    OBVIOUS
  <2> QED
    BY <2>1, NoBytes
<1>4. RunsOn(out, 0) /\ Len(out) = 0
  BY <1>2, <1>3
<1>5. acked \in Nat /\ acked <= Len(out) /\ Len(out) - acked <= SendBuffer
  BY <1>2, <1>4 DEF WireAssumption
<1>6. parse # "end" => response = Server!NoResponse /\ out = <<>>
  BY <1>2
<1>7. Wired
  BY <1>2, <1>4, <1>5, <1>6 DEF Wired
<1> QED
  BY <1>2, <1>7 DEF WireInv

(* For any lengths of heads, files and texts and any send buffer: however  *)
(* the room splits an answer and whatever is cut short or closed, the      *)
(* browser gets its bytes in their order, none twice and none left out,    *)
(* and a response that ends was sent and acknowledged in full, as long as  *)
(* malloc finds room (WebResponses.cpp).                                   *)
THEOREM BytesInOrder == NodeSpec => []WireInOrder
<1>1. WireAssumption /\ NodeInit => WireInv
  BY WireStarts
<1>2. WireAssumption /\ WireInv /\ [NodeNext]_allVars => WireInv'
  BY WireSteps
<1>3. ASSUME WireInv PROVE WireInOrder
  <2>1. ASSUME ~starved PROVE Wired
    BY <1>3, <2>1 DEF WireInv
  <2>2. ASSUME Wired PROVE \A i \in DOMAIN out : out[i] = i
    <3>1. out \in Seq(Nat) /\ \A i \in 1 .. Len(out) : out[i] = 0 + i
      BY <2>2 DEF Wired, RunsOn
    <3> QED
      BY <3>1, LenProperties
  <2>3. ASSUME Wired, response # Server!NoResponse, Server!Finished(response)
        PROVE  Len(out) = response.size /\ acked = Len(out)
    <3>1. Flows(response, Len(out)) /\ response.acked = acked /\ response.written = Len(out)
          /\ response.state = "end" /\ acked <= Len(out) /\ acked \in Nat
      BY <2>3 DEF Wired, Server!Finished
    <3>2. Len(out) = response.size /\ response.acked >= response.written
      BY <3>1 DEF Flows, InBasic, InAbstract, AllOut
    <3>3. Len(out) \in Nat
      BY <2>3, LenProperties DEF Wired, RunsOn
    <3> QED
      BY <3>1, <3>2, <3>3
  <2> QED
    BY <2>1, <2>2, <2>3 DEF WireInOrder, Server!WireInOrder
<1> QED
  BY <1>1, <1>2, <1>3, WireAssumption, PTL DEF NodeSpec

-----------------------------------------------------------------------------
(* Which handler answers.                                                  *)

\* A request for a page gets the file that is stored under its url, if any.
PageRight(q, a) ==
  q.method = "GET" /\ q.type = "http" /\ q.url # <<>> =>
    /\ (a.kind = "page") = (\E coded \in BOOLEAN : <<q.url, coded>> \in in_www)
    /\ a.kind = "page" => a.url = q.url /\ <<a.url, a.coded>> \in in_www

\* A connection is only taken over by what was asked for.
TakeoverRight(q, a) ==
  /\ a.kind = "switch" => q.type = "ws" /\ q.url = <<"ws">> /\ q.version = 13 /\ q.key
  /\ a.kind = "stream" => q.type = "event"

ChoiceInv ==
  /\ DOMAIN asked = Connections /\ DOMAIN answer = Connections
  /\ in_www \subseteq MCNames \X BOOLEAN
  /\ \A c \in Connections :
       IF asked[c] = Choice!Nothing
       THEN answer[c] = Choice!Nothing /\ c \notin ws_clients /\ c \notin es_clients
       ELSE /\ PageRight(asked[c], answer[c]) /\ TakeoverRight(asked[c], answer[c])
            /\ c \in ws_clients => answer[c].kind = "switch"
            /\ c \in es_clients => answer[c].kind = "stream"

\* What the static handler finds is a file of this url.
LEMMA FindsFile ==
  ASSUME NEW url, in_www \subseteq MCNames \X BOOLEAN
  PROVE  /\ \A f \in Choice!FileFound(url) : f \in in_www /\ f = <<url, f[2]>> /\ f[1] = url
         /\ Choice!FileFound(url) # {} <=> \E coded \in BOOLEAN : <<url, coded>> \in in_www
<1>1. \A f \in in_www : f = <<f[1], f[2]>> /\ f[2] \in BOOLEAN
  OBVIOUS
<1>2. PICK found : found = {f \in in_www : f[1] = url}
  OBVIOUS
<1>3. Choice!FileFound(url) \subseteq found /\ (found # {} => Choice!FileFound(url) # {})
  BY <1>2 DEF Choice!FileFound
<1>4. \A f \in Choice!FileFound(url) : f \in in_www /\ f[1] = url
  BY <1>2, <1>3
<1>5. ASSUME NEW coded \in BOOLEAN, <<url, coded>> \in in_www PROVE Choice!FileFound(url) # {}
  <2>1. <<url, coded>> \in found
    BY <1>2, <1>5
  <2> QED
    BY <1>3, <2>1
<1> QED
  BY <1>1, <1>4, <1>5

LEMMA AsksAreAsked == ASSUME NEW q \in MCAsks PROVE q # Choice!Nothing
BY DEF MCAsks, Get, Choice!Nothing

\* Any request, and whatever handler takes it.
LEMMA RequestServed ==
  ASSUME ChoiceInv, NEW c \in Connections, NEW q, q # Choice!Nothing, Choice!Request(c, q)
  PROVE  ChoiceInv'
<1>1. /\ asked[c] = Choice!Nothing /\ asked' = [asked EXCEPT ![c] = q]
      /\ UNCHANGED <<in_www, ws_clients, es_clients>>
  BY DEF Choice!Request
<1>2. PICK a : /\ answer' = [answer EXCEPT ![c] = a]
               /\ PageRight(q, a) /\ TakeoverRight(q, a)
  <2>1. CASE Choice!SocketCanHandle(q)
    <3>1. answer' = [answer EXCEPT ![c] = Choice!Handshake(q)]
      BY <2>1 DEF Choice!Request, Choice!Answer
    <3>2. q.type = "ws" /\ q.url = <<"ws">>
      BY <2>1 DEF Choice!SocketCanHandle
    <3>3. PageRight(q, Choice!Handshake(q))
      BY <3>2 DEF PageRight
    <3>4. CASE q.version = 0 \/ ~q.key
      <4>1. Choice!Handshake(q) = [kind |-> "400"]
        BY <3>4 DEF Choice!Handshake, Choice!Simple
      <4>2. TakeoverRight(q, Choice!Handshake(q))
        BY <4>1 DEF TakeoverRight
      <4> QED
        BY <3>1, <3>3, <4>2
    <3>5. CASE ~(q.version = 0 \/ ~q.key) /\ q.version # 13
      <4>1. Choice!Handshake(q) = [kind |-> "400_version"]
        BY <3>5 DEF Choice!Handshake, Choice!Simple
      <4>2. TakeoverRight(q, Choice!Handshake(q))
        BY <4>1 DEF TakeoverRight
      <4> QED
        BY <3>1, <3>3, <4>2
    <3>6. CASE ~(q.version = 0 \/ ~q.key) /\ q.version = 13
      <4>1. Choice!Handshake(q) = [kind |-> "switch"]
        BY <3>6 DEF Choice!Handshake, Choice!Simple
      <4>2. Choice!Handshake(q).kind # "stream"
        BY <4>1
      <4>3. TakeoverRight(q, Choice!Handshake(q))
        BY <3>2, <3>6, <4>2 DEF TakeoverRight
      <4> QED
        BY <3>1, <3>3, <4>3
    <3> QED
      BY <3>4, <3>5, <3>6
  <2>2. CASE ~Choice!SocketCanHandle(q) /\ Choice!EventsCanHandle(q)
    <3>1. answer' = [answer EXCEPT ![c] = [kind |-> "stream"]]
      BY <2>2 DEF Choice!Request, Choice!Answer, Choice!Simple
    <3>2. q.type = "event"
      BY <2>2 DEF Choice!EventsCanHandle
    <3>3. PageRight(q, [kind |-> "stream"]) /\ TakeoverRight(q, [kind |-> "stream"])
      BY <3>2 DEF PageRight, TakeoverRight
    <3> QED
      BY <3>1, <3>3
  <2>3. CASE /\ ~Choice!SocketCanHandle(q) /\ ~Choice!EventsCanHandle(q)
             /\ Choice!StaticCanHandle(q)
    <3>1. PICK f \in Choice!FileFound(q.url) :
            answer' = [answer EXCEPT ![c] = [kind |-> "page", url |-> f[1], coded |-> f[2]]]
      BY <2>3 DEF Choice!Request, Choice!ServeFile, Choice!Answer, Choice!Page
    <3>2. f \in in_www /\ f = <<q.url, f[2]>> /\ f[1] = q.url /\ f[2] \in BOOLEAN
      BY <3>1, FindsFile DEF ChoiceInv
    <3>3. PICK p : p = [kind |-> "page", url |-> f[1], coded |-> f[2]]
      OBVIOUS
    <3>4. p.kind = "page" /\ p.url = f[1] /\ p.coded = f[2]
      BY <3>3
    <3>5. PageRight(q, p)
      BY <3>2, <3>4 DEF PageRight
    <3>6. TakeoverRight(q, p)
      BY <3>4 DEF TakeoverRight
    <3> QED
      BY <3>1, <3>3, <3>5, <3>6
  <2>4. CASE /\ ~Choice!SocketCanHandle(q) /\ ~Choice!EventsCanHandle(q)
             /\ ~Choice!StaticCanHandle(q)
    <3>1. PICK a : /\ answer' = [answer EXCEPT ![c] = a]
                   /\ a \in {[kind |-> "callback", number |-> Choice!CallbackOf(q)],
                             [kind |-> "not_found"]}
      BY <2>4 DEF Choice!Request, Choice!Answer, Choice!Simple
    <3>2. a.kind \notin {"page", "switch", "stream"}
      BY <3>1
    <3>3. ASSUME q.method = "GET", q.type = "http", q.url # <<>>
          PROVE  ~ \E coded \in BOOLEAN : <<q.url, coded>> \in in_www
      <4>1. Choice!FileFound(q.url) = {}
        BY <2>4, <3>3 DEF Choice!StaticCanHandle, Choice!GetFile
      <4> QED
        BY <4>1, FindsFile DEF ChoiceInv
    <3>4. PageRight(q, a)
      <4>1. (a.kind = "page") = FALSE
        BY <3>2
      <4> QED
        BY <3>3, <4>1 DEF PageRight
    <3>5. TakeoverRight(q, a)
      BY <3>2 DEF TakeoverRight
    <3> QED
      BY <3>1, <3>4, <3>5
  <2> QED
    BY <2>1, <2>2, <2>3, <2>4
<1>3. /\ asked'[c] = q /\ answer'[c] = a
      /\ \A d \in Connections \ {c} : asked'[d] = asked[d] /\ answer'[d] = answer[d]
      /\ DOMAIN asked' = Connections /\ DOMAIN answer' = Connections
  BY <1>1, <1>2 DEF ChoiceInv
<1>4. c \notin ws_clients /\ c \notin es_clients
  BY <1>1 DEF ChoiceInv
<1> QED
  BY <1>1, <1>2, <1>3, <1>4, ZenonT(60) DEF ChoiceInv, PageRight, TakeoverRight

LEMMA ChoiceSteps ==
  ASSUME ChoiceInv, [NodeNext]_allVars
  PROVE  ChoiceInv'
<1>1. ASSUME NEW c \in Connections, NEW len \in {0, 1}, Choice!Acknowledged(c, len)
      PROVE  ChoiceInv'
  <2>1. /\ answer[c].kind \in {"switch", "stream"} /\ UNCHANGED <<in_www, asked, answer>>
        /\ ws_clients' = IF answer[c].kind = "switch" THEN ws_clients \cup {c} ELSE ws_clients
        /\ es_clients' = IF answer[c].kind = "stream" THEN es_clients \cup {c} ELSE es_clients
    BY <1>1 DEF Choice!Acknowledged, Choice!requestVars
  <2>2. asked[c] # Choice!Nothing
    <3>1. Choice!Nothing.kind = "none"
      BY DEF Choice!Nothing
    <3> QED
      BY <2>1, <3>1 DEF ChoiceInv
  <2> QED
    BY <2>1, <2>2, ZenonT(60) DEF ChoiceInv, PageRight, TakeoverRight
<1>2. ASSUME NEW c \in Connections, Choice!Ends(c) PROVE ChoiceInv'
  BY <1>2, ZenonT(60) DEF Choice!Ends, Choice!Answer, ChoiceInv, PageRight, TakeoverRight
<1>3. CASE UNCHANGED handlerVars
  BY <1>3, ZenonT(60) DEF handlerVars, ChoiceInv, PageRight, TakeoverRight
<1>4. ASSUME NEW c \in Connections, NEW q \in MCAsks, Choice!Request(c, q) PROVE ChoiceInv'
  BY <1>4, AsksAreAsked, RequestServed
<1> QED
  BY <1>1, <1>2, <1>3, <1>4 DEF NodeNext, allVars, Choice!HandlersNext

(* For any number of connections, whatever files are stored and however    *)
(* many the static handler remembers: a page that is stored, plain or      *)
(* compressed, is answered with its own file, in whichever order the       *)
(* handler has come to look, and a connection is a web socket or an event  *)
(* source only if its own request was for one (WebHandlers.cpp,            *)
(* AsyncWebSocket.cpp).                                                    *)
THEOREM RequestsAnswered == NodeSpec => []Choice!AnsweredRight
<1>1. ASSUME NodeInit PROVE ChoiceInv
  <2>1. Choice!HandlersInit
    BY <1>1 DEF NodeInit
  <2>2. \A c \in Connections : asked[c] = Choice!Nothing /\ answer[c] = Choice!Nothing
    BY <2>1 DEF Choice!HandlersInit
  <2>3. /\ DOMAIN asked = Connections /\ DOMAIN answer = Connections
        /\ in_www \subseteq MCNames \X BOOLEAN /\ ws_clients = {} /\ es_clients = {}
    BY <2>1 DEF Choice!HandlersInit
  <2> QED
    BY <2>2, <2>3 DEF ChoiceInv
<1>2. ChoiceInv /\ [NodeNext]_allVars => ChoiceInv'
  BY ChoiceSteps
<1>3. ASSUME ChoiceInv PROVE Choice!AnsweredRight
  <2> SUFFICES ASSUME NEW c \in Connections, asked[c] # Choice!Nothing
               PROVE  /\ PageRight(asked[c], answer[c])
                      /\ c \in ws_clients => /\ asked[c].type = "ws" /\ asked[c].url = <<"ws">>
                                             /\ asked[c].version = 13 /\ asked[c].key
                      /\ c \in es_clients => asked[c].type = "event"
    BY DEF Choice!AnsweredRight, PageRight
  <2> QED
    BY <1>3 DEF ChoiceInv, TakeoverRight
<1> QED
  BY <1>1, <1>2, <1>3, PTL DEF NodeSpec

=============================================================================
