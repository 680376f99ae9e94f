-------------------------------- MODULE Peer --------------------------------
(***************************************************************************)
(* One System of the node: the connection it keeps to another node.  The   *)
(* loop task tests two flags and calls AsyncClient::connect; the lwIP      *)
(* thread and the async_tcp task run the callbacks that set and clear the  *)
(* same flags, between any two of its steps.                               *)
(*                                                                         *)
(* Of AsyncTCP.cpp we keep _pcb (with "dead" for a connection lwIP has     *)
(* already freed and whose error is queued), the connection attempt, one   *)
(* queued event, and the request to close.  Left out: pending, which no    *)
(* line of System.cpp ever sets, a full memory, and a poll that was queued *)
(* before lwIP freed its connection.                                       *)
(***************************************************************************)

VARIABLES
  connected, connecting,
  cur_client,       \* cur_client # NULL: there has been a connection
  at,               \* where check_connection is
  network,          \* network.get_connected()
  pcb,              \* AsyncClient::_pcb: "none", "open" or "dead"
  attempt,          \* a SYN is out
  event,            \* the event queued for the async_tcp task, or "none"
  clearing,         \* LWIP_TCP_CLEAR is at the front of its queue
  close_request,    \* AsyncClient::_close_pcb
  lost              \* System never learns how an attempt or a connection ended

flags == <<connected, connecting, cur_client>>
client == <<pcb, attempt, event, clearing, close_request>>
vars == <<flags, at, network, client, lost>>

TypeOK ==
  /\ {connected, connecting, cur_client, network, attempt, clearing,
    close_request, lost}
       \subseteq BOOLEAN
  /\ at \in {"rest", "connecting?", "connect", "returned"}
  /\ pcb \in {"none", "open", "dead"}
  /\ event \in {"none", "error", "fin"}
  /\ attempt => pcb = "none"            \* one control block at a time

Init ==
  /\ connected = FALSE /\ connecting = FALSE /\ cur_client = FALSE
  /\ at = "rest" /\ network \in BOOLEAN
  /\ pcb = "none" /\ attempt = FALSE /\ event = "none"
  /\ clearing = FALSE /\ close_request = FALSE
  /\ lost = FALSE

-----------------------------------------------------------------------------
(* check_connection, every 100 ms.                                         *)

TestConnected ==
  /\ at = "rest" /\ network /\ ~connected
  /\ at' = "connecting?"
  /\ UNCHANGED <<flags, network, client, lost>>

\* Faulty variant of TestConnecting: an attempt under way is not looked at.
TestNothing ==
  /\ at = "connecting?" /\ at' = "connect"
  /\ UNCHANGED <<flags, network, client, lost>>

TestConnecting ==
  /\ at = "connecting?"
  /\ at' = IF connecting THEN "rest" ELSE "connect"
  /\ UNCHANGED <<flags, network, client, lost>>

\* Faulty variant of CallConnect: a refusal is taken for an attempt.
CallConnectAnyway ==
  /\ at = "connect"
  /\ at' = "returned" /\ attempt' = TRUE
  /\ UNCHANGED <<flags, network, pcb, event, clearing, close_request, lost>>

\* What _tcp_connect says of a SYN that could not be sent is dropped by connect(),
\* which refuses while it holds a connection ("already connected").
TcpConnect == attempt' \in BOOLEAN /\ lost' = (lost \/ ~attempt')

Connect ==
  IF pcb # "none" THEN at' = "rest" /\ UNCHANGED <<attempt, lost>>
                  ELSE at' = "returned" /\ TcpConnect

CallConnect ==
  /\ at = "connect"
  /\ Connect
  /\ UNCHANGED <<flags, network, pcb, event, clearing, close_request>>

SetConnecting ==
  /\ at = "returned" /\ at' = "rest"
  /\ connecting' = TRUE
  /\ UNCHANGED <<connected, cur_client, network, client, lost>>

Loop == TestConnected \/ TestConnecting \/ CallConnect \/ SetConnecting

-----------------------------------------------------------------------------
(* The callbacks.                                                          *)

OnConnect ==
  connected' = TRUE /\ connecting' = FALSE /\ cur_client' = TRUE

\* Faulty variant of OnError: the attempt is not given up.
OnErrorKeepsConnecting ==
  /\ connected' = FALSE
  /\ close_request' = (close_request \/ cur_client)
  /\ UNCHANGED <<connecting, cur_client>>

\* cur_client->close() only asks the next poll to close: the one of the next
\* connection, as this one is gone.
OnError ==
  /\ connected' = FALSE /\ connecting' = FALSE
  /\ close_request' = (close_request \/ cur_client)
  /\ UNCHANGED cur_client

\* Faulty variant of OnDisconnect: the flag stays up.
OnDisconnectForgets == UNCHANGED flags

OnDisconnect ==
  connected' = FALSE /\ UNCHANGED <<connecting, cur_client>>

OnTimeout ==
  /\ connected' = FALSE /\ close_request' = TRUE
  /\ UNCHANGED <<connecting, cur_client>>

\* A callback between connect() and the store after it is overwritten.
Overtaken == lost' = (lost \/ at = "returned")

-----------------------------------------------------------------------------
(* The network: what lwIP's thread does, and the events it queues.         *)

NetworkChanges ==
  /\ network' = ~network
  /\ UNCHANGED <<flags, at, client, lost>>

\* One event waits at a time, besides one that is going to be cleared.
CanQueue == event = "none" \/ clearing

\* AsyncClient::_connected, in lwIP's own thread.
Established ==
  /\ attempt /\ CanQueue
  /\ attempt' = FALSE /\ pcb' = "open"
  /\ OnConnect /\ Overtaken
  /\ UNCHANGED <<at, network, event, clearing, close_request>>

\* Refused, or no answer.
Refused ==
  /\ attempt /\ CanQueue
  /\ attempt' = FALSE /\ event' = "error"
  /\ UNCHANGED <<flags, at, network, pcb, clearing, close_request, lost>>

Reset ==
  /\ pcb = "open" /\ CanQueue
  /\ pcb' = "dead" /\ event' = "error"
  /\ UNCHANGED <<flags, at, network, attempt, clearing, close_request, lost>>

PeerCloses ==
  /\ pcb = "open" /\ CanQueue
  /\ event' = "fin"
  /\ UNCHANGED <<flags, at, network, pcb, attempt, clearing, close_request, lost>>

-----------------------------------------------------------------------------
(* The async_tcp task, one event at a time from its queue.                 *)

\* AsyncClient::_error runs both callbacks; onDisconnect adds nothing.
HandleError ==
  /\ ~clearing /\ event = "error"
  /\ event' = "none" /\ pcb' = "none"
  /\ OnError /\ Overtaken
  /\ UNCHANGED <<at, network, attempt, clearing>>

\* AsyncClient::_close puts LWIP_TCP_CLEAR in front of all other events.
Close ==
  /\ pcb = "open" /\ pcb' = "none"
  /\ clearing' = TRUE
  /\ OnDisconnect

\* _remove_events_with_arg, of this client: what lwIP queued for the next
\* attempt meanwhile goes with the rest.
HandleClear ==
  /\ clearing /\ clearing' = FALSE
  /\ event' = "none" /\ lost' = (lost \/ event = "error")
  /\ UNCHANGED <<flags, at, network, pcb, attempt, close_request>>

\* AsyncClient::_recv without data.
HandleFin ==
  /\ ~clearing /\ event = "fin" /\ event' = "none"
  /\ Close
  /\ UNCHANGED <<at, network, attempt, close_request, lost>>

\* AsyncClient::_poll: a close request first, ...
PollCloses ==
  /\ ~clearing /\ close_request /\ close_request' = FALSE
  /\ Close
  /\ UNCHANGED <<at, network, attempt, event, lost>>

\* ... a message sent and not acknowledged, ...
AckTimeout ==
  /\ ~clearing /\ pcb = "open" /\ ~close_request /\ OnTimeout
  /\ UNCHANGED <<at, network, pcb, attempt, event, clearing, lost>>

\* ... then five seconds without a message.
RxTimeout ==
  /\ ~clearing /\ ~close_request /\ Close
  /\ UNCHANGED <<at, network, attempt, event, close_request, lost>>

Callbacks == HandleError \/ HandleClear \/ HandleFin \/ PollCloses

Next ==
  \/ Loop \/ Callbacks
  \/ NetworkChanges \/ Established \/ Refused \/ Reset \/ PeerCloses
  \/ RxTimeout \/ AckTimeout

Spec == Init /\ [][Next]_vars

\* loop() runs forever, the async_tcp task serves its queue, an open connection
\* is polled, and TCP decides every attempt.
Fairness ==
  /\ WF_vars(Loop)
  /\ WF_vars(HandleError) /\ WF_vars(HandleClear) /\ WF_vars(HandleFin)
  /\ WF_vars(PollCloses)
  /\ WF_vars(Established \/ Refused)

FairSpec == Spec /\ Fairness

-----------------------------------------------------------------------------
(* http_request writes only to a connection the client still holds.        *)
ConnectedIsHeld == connected => pcb # "none"

(* AsyncClient::connect learns of an attempt only when it has succeeded:   *)
(* a second call before that would leak the first one's connection.  The   *)
(* flag connecting is all that prevents it, and connecting is stored only  *)
(* after connect() has returned.                                           *)
OneAttempt == at = "connect" /\ pcb = "none" => ~attempt /\ event # "error"

(* While the network stays up the node connects, or tries, again and again *)
(* -- but for three ways to leave connecting, or connected, set for good:  *)
(* a SYN that could not be sent, a callback before the store of            *)
(* System.cpp:140, an error that is cleared with the events of the         *)
(* connection before.                                                      *)
KeepsTrying == <>[]network => []<>(connected \/ attempt) \/ <>lost

=============================================================================
