------------------------------ MODULE AsyncTcp ------------------------------
(***************************************************************************)
(* The connections of the web server in AsyncTCP.cpp: the lwIP thread puts *)
(* what happens to a connection into one queue, with the address of its    *)
(* AsyncClient, and the async_tcp task takes it from there.  A client that *)
(* is closed is deleted at once; a CLEAR event at the front of the queue   *)
(* then removes what is queued for its address, by turning the whole queue *)
(* once, while lwIP goes on.                                               *)
(***************************************************************************)
EXTENDS Integers, SequencesExt

CONSTANTS
  Addresses,    \* where an AsyncClient may be allocated
  QueueLength,  \* that of _async_queue
  MaxEvents,    \* a bound on the events of the connections
  MaxAccepts    \* a bound on the connections

VARIABLES
  attached,     \* of each address, the connection whose callbacks lwIP calls, or 0
  alive,        \* the connection of the AsyncClient there, or 0
  queue,        \* _async_queue
  hand,         \* the event the lwIP thread is sending, or Nothing
  task,         \* what the async_tcp task is doing
  events,       \* the number of events so far
  accepted,     \* the number of connections so far
  last,         \* of each connection, the last event that was handled
  stale,        \* an event was handled for a client that is gone
  lost,         \* a live connection's event was removed
  swapped,      \* two events of one connection changed their places
  mixed,        \* lwIP queued an event while the task turned the queue
  reused        \* a client was made where one is still to be cleared

lwipVars == <<attached, hand, events, accepted, reused>>
vars == <<lwipVars, alive, queue, task, last, stale, lost, swapped, mixed>>

Connections == 1 .. MaxAccepts
Kinds == {"recv", "fin", "poll", "error", "clear"}
Event(kind, a, conn, n) == [kind |-> kind, arg |-> a, conn |-> conn, n |-> n]
Nothing == [kind |-> "none"]

Idle == [at |-> "idle"]
Task(at, a, first, packet) == [at |-> at, arg |-> a, first |-> first, packet |-> packet]

TcpTypeOK ==
  /\ attached \in [Addresses -> 0 .. MaxAccepts] /\ alive \in [Addresses -> 0 .. MaxAccepts]
  /\ Len(queue) <= QueueLength /\ \A i \in DOMAIN queue : queue[i].kind \in Kinds
  /\ task.at \in {"idle", "closing", "clearing", "first", "keep_first", "turn", "keep"}
  /\ events \in 0 .. MaxEvents /\ accepted \in 0 .. MaxAccepts

Init ==
  /\ attached = [a \in Addresses |-> 0] /\ alive = [a \in Addresses |-> 0]
  /\ queue = <<>> /\ hand = Nothing /\ task = Idle /\ events = 0 /\ accepted = 0
  /\ last = [c \in Connections |-> 0]
  /\ stale = FALSE /\ lost = FALSE /\ swapped = FALSE /\ mixed = FALSE /\ reused = FALSE

-----------------------------------------------------------------------------
(* The lwIP thread.                                                        *)

ToClear(a) ==
  \/ \E i \in DOMAIN queue : queue[i].kind = "clear" /\ queue[i].arg = a
  \/ task.at \in {"first", "keep_first", "turn", "keep"} /\ task.arg = a

\* AsyncServer::_accept allocates the client in the lwIP thread.
Accept(a) ==
  /\ hand = Nothing /\ alive[a] = 0 /\ accepted < MaxAccepts
  /\ task.at \in {"closing", "clearing"} => task.arg # a
  /\ accepted' = accepted + 1
  /\ attached' = [attached EXCEPT ![a] = accepted'] /\ alive' = [alive EXCEPT ![a] = accepted']
  /\ reused' = (reused \/ ToClear(a))
  /\ UNCHANGED <<queue, hand, task, events, last, stale, lost, swapped, mixed>>

\* A reset frees the connection of lwIP; the AsyncClient learns of it later.
Happens(a) ==
  /\ hand = Nothing /\ attached[a] # 0 /\ events < MaxEvents
  /\ events' = events + 1
  /\ \E kind \in {"recv", "fin", "poll", "error"} :
       /\ hand' = Event(kind, a, attached[a], events')
       /\ attached' = IF kind = "error" THEN [attached EXCEPT ![a] = 0] ELSE attached
  /\ UNCHANGED <<alive, queue, task, accepted, last, stale, lost, swapped, mixed, reused>>

\* xQueueSend: lwIP waits while the queue is full.
SendAsyncEvent ==
  /\ hand # Nothing /\ Len(queue) < QueueLength
  /\ queue' = Append(queue, hand) /\ hand' = Nothing
  /\ mixed' = (mixed \/ task.at \in {"first", "keep_first", "turn", "keep"})
  /\ UNCHANGED <<attached, alive, task, events, accepted, last, stale, lost, swapped, reused>>

Lwip == SendAsyncEvent \/ \E a \in Addresses : Accept(a) \/ Happens(a)

-----------------------------------------------------------------------------
(* The async_tcp task.                                                     *)

Delete(a) == alive' = [alive EXCEPT ![a] = 0]

\* AsyncClient::_error: the client is deleted without a CLEAR.
HandleError(e) == Delete(e.arg) /\ task' = Idle /\ UNCHANGED attached

\* _close begins: the callbacks are taken from the connection.
HandleFin(e) ==
  /\ attached' = [attached EXCEPT ![e.arg] = 0]
  /\ task' = Task("closing", e.arg, Nothing, Nothing)
  /\ UNCHANGED alive

\* The client's callback returns, or it or a timeout closes the client.
HandleOther(e) ==
  \/ task' = Idle /\ UNCHANGED <<attached, alive>>
  \/ HandleFin(e)

HandleClear(e) ==
  /\ task' = Task("first", e.arg, Nothing, Nothing)
  /\ UNCHANGED <<attached, alive, last, stale, swapped>>

\* _async_service_task.  What is handled after the client is gone, or behind a
\* later event of its connection, is recorded.
Take ==
  /\ task = Idle /\ queue # <<>> /\ queue' = Tail(queue)
  /\ LET e == Head(queue)
     IN  IF e.kind = "clear" THEN HandleClear(e)
         ELSE /\ last' = [last EXCEPT ![e.conn] = e.n]
              /\ swapped' = (swapped \/ e.n < last[e.conn])
              /\ stale' = (stale \/ alive[e.arg] # e.conn)
              /\ \/ alive[e.arg] # e.conn /\ UNCHANGED <<attached, alive, task>>
                 \/ /\ alive[e.arg] = e.conn
                    /\ \/ e.kind = "error" /\ HandleError(e)
                       \/ e.kind = "fin" /\ HandleFin(e)
                       \/ e.kind \in {"recv", "poll"} /\ HandleOther(e)
  /\ UNCHANGED <<hand, events, accepted, lost, mixed, reused>>

\* tcp_close is executed by the lwIP thread, when it has sent what it holds.
TcpClose ==
  /\ task.at = "closing" /\ hand = Nothing
  /\ task' = [task EXCEPT !.at = "clearing"]
  /\ UNCHANGED <<lwipVars, alive, queue, last, stale, lost, swapped, mixed>>

\* Faulty variant of Prepend: the event waits for its turn.
PrependLast(q, e) == Append(q, e)

\* _prepend_async_event
Prepend(q, e) == <<e>> \o q

\* _tcp_clear_events, then the discard callback, which deletes the client.  On
\* a full queue the task waits for itself.
ClearEvents ==
  /\ task.at = "clearing" /\ Len(queue) < QueueLength
  /\ queue' = Prepend(queue, Event("clear", task.arg, 0, 0))
  /\ Delete(task.arg) /\ task' = Idle
  /\ UNCHANGED <<lwipVars, last, stale, lost, swapped, mixed>>

-----------------------------------------------------------------------------
(* _remove_events_with_arg: up to the first event of another client, which *)
(* goes to the back, and then once around until that one is in front.      *)

\* Faulty variant of Matches: everything is thrown away.
MatchesAll(e, a) == TRUE
Matches(e, a) == e.arg = a

Receive(keep) ==
  LET e == Head(queue)
  IN  /\ queue' = Tail(queue)
      /\ IF Matches(e, task.arg)
         THEN /\ lost' = (lost \/ (e.kind # "clear" /\ alive[e.arg] = e.conn))
              /\ UNCHANGED task
         ELSE /\ task' = [task EXCEPT !.at = keep, !.packet = e]
              /\ UNCHANGED lost

SendBack(first) ==
  /\ Len(queue) < QueueLength /\ queue' = Append(queue, task.packet)
  /\ task' = Task("turn", task.arg, first, Nothing)
  /\ UNCHANGED lost

Turned == queue = <<>> \/ (task.at = "turn" /\ Head(queue) = task.first)

RemoveEvents ==
  /\ \/ task.at \in {"first", "turn"} /\ Turned /\ task' = Idle /\ UNCHANGED <<queue, lost>>
     \/ task.at = "first" /\ ~Turned /\ Receive("keep_first")
     \/ task.at = "keep_first" /\ SendBack(task.packet)
     \/ task.at = "turn" /\ ~Turned /\ Receive("keep")
     \/ task.at = "keep" /\ SendBack(task.first)
  /\ UNCHANGED <<lwipVars, alive, last, stale, swapped, mixed>>

AsyncTask == Take \/ TcpClose \/ ClearEvents \/ RemoveEvents

Next == Lwip \/ AsyncTask

Spec == Init /\ [][Next]_vars

-----------------------------------------------------------------------------
(* No event reaches a client that was deleted, also when it was in lwIP's  *)
(* hand as the client was closed: tcp_close waits for it and the CLEAR is  *)
(* in front of it.  Only events that arrive while the queue is turned are  *)
(* not covered.                                                            *)
NoStaleEvent == ~mixed => ~stale

(* Clearing the events of one client takes none from another, unless the   *)
(* other was allocated where the first one was.                            *)
NoneLost == ~reused => ~lost

(* Both: what is queued for a client arrives, as long as there is a client *)
(* for it to arrive at, and no longer.                                     *)
EventsArrive == NoStaleEvent /\ NoneLost

(* "so we can keep the order" (AsyncTCP.cpp): the events of a connection   *)
(* are handled in the order in which they happened.                        *)
KeepsOrder == ~swapped

=============================================================================
