----------------------------- MODULE WifiClient -----------------------------
(***************************************************************************)
(* The socket below the MQTT session (WiFiClient.cpp): reading through a   *)
(* buffer that is filled while it is read, writing in pieces with a fixed  *)
(* number of attempts, and the test whether the peer is still there.       *)
(*                                                                         *)
(* The bytes of each direction are numbered, so that their order and their *)
(* loss show.  lwIP and the peer are external: between any two calls of    *)
(* the socket more may have arrived, or the connection may be gone.        *)
(***************************************************************************)
EXTENDS Naturals, Sequences

CONSTANTS
  RxSize,        \* size of the receive buffer (1436)
  WriteRetries,  \* WIFI_CLIENT_MAX_WRITE_RETRY (10)
  Inbound,       \* bound: bytes the peer sends on a connection
  Outbound,      \* bound: bytes written on a connection
  MaxSockets     \* bound: connections that are made

VARIABLES
  buffer, pos,       \* _buffer up to _fill, and _pos
  client_connected,  \* _connected
  open,              \* clientSocketHandle and _rxBuffer are there
  call,              \* the call of the loop task and where it is
  read, read_told,   \* the bytes copied to the callers; the sum of the results
  errno,
  arrived, received, \* what the socket has got, and what recv took of it
  wire, write_told,  \* what the socket took, and the sum of the results
  peer_link,              \* "up", "lost"
  sockets

rxVars == <<buffer, pos, received>>
readVars == <<read, read_told>>
writeVars == <<wire, write_told>>
socketVars == <<client_connected, open, errno, peer_link, sockets>>
clientVars == <<rxVars, readVars, writeVars, socketVars, call, arrived>>

Numbered(s) == s = [i \in 1 .. Len(s) |-> i]
Idle == [op |-> "none"]

WifiClientInit ==
  /\ buffer = <<>> /\ pos = 0 /\ received = 0
  /\ read = <<>> /\ read_told = 0 /\ wire = <<>> /\ write_told = 0
  /\ client_connected = FALSE /\ open = FALSE /\ errno = "none"
  /\ peer_link = "lost" /\ sockets = 0 /\ call = Idle /\ arrived = 0

\* stop(): the socket is closed, the buffer goes with it.
Stopped == open' = FALSE /\ client_connected' = FALSE /\ UNCHANGED <<errno, peer_link, sockets>>

\* connect(): a new socket with a buffer of its own, when the peer takes it.
OpenSocket ==
  /\ call = Idle /\ ~client_connected /\ sockets < MaxSockets
  /\ sockets' = sockets + 1 /\ peer_link' = "up" /\ UNCHANGED errno
  /\ open' = TRUE /\ client_connected' = TRUE
  /\ buffer' = <<>> /\ pos' = 0 /\ received' = 0 /\ arrived' = 0
  /\ read' = <<>> /\ read_told' = 0 /\ wire' = <<>> /\ write_told' = 0
  /\ UNCHANGED call

-----------------------------------------------------------------------------
(* Reading.                                                                *)

Unread(b, p) == Len(b) - p
Waiting == arrived - received

\* What recv may do: any number of bytes up to the room and what waits; it
\* may fail when the connection is lost.
Outcome(b, p, n, failed) == [buffer |-> b, pos |-> p, n |-> n, failed |-> failed]
Received(b, p, room) ==
  {Outcome(b \o [i \in 1 .. n |-> received + i], p, n, FALSE) :
     n \in {m \in 1 .. Waiting : m <= room}}
  \cup {Outcome(b, p, 0, TRUE) : lost \in {peer_link} \cap {"lost"}}

\* The buffer starts anew when all of it is read; a full one takes no more.
FillBuffer ==
  LET again == pos = Len(buffer)
      b == IF again THEN <<>> ELSE buffer
      p == IF again THEN 0 ELSE pos
  IN  IF Len(b) >= RxSize \/ Waiting = 0
      THEN {Outcome(b, p, 0, FALSE)}
      ELSE Received(b, p, RxSize - Len(b))

\* Faulty variant of Copied: the position stays where it was.
CopiedStays(o, n) ==
  /\ read' = read \o SubSeq(o.buffer, o.pos + 1, o.pos + n)
  /\ buffer' = o.buffer /\ pos' = o.pos /\ received' = received + o.n

\* The first n unread bytes of an outcome are copied to the caller.
Copied(o, n) ==
  /\ read' = read \o SubSeq(o.buffer, o.pos + 1, o.pos + n)
  /\ buffer' = o.buffer /\ pos' = o.pos + n /\ received' = received + o.n

\* Return n; WiFiClient::read stops after a failure.
Returned(o, n) ==
  /\ read_told' = read_told + n /\ call' = Idle
  /\ IF o.failed THEN errno' = "reset" /\ open' = FALSE /\ client_connected' = FALSE
                      /\ UNCHANGED <<peer_link, sockets>>
     ELSE UNCHANGED socketVars

GoesOn(o, next) ==
  /\ call' = [next EXCEPT !.failed = call.failed \/ o.failed]
  /\ UNCHANGED <<read_told, socketVars>>

ReadCall(n) ==
  /\ call = Idle /\ open /\ Len(read) < Inbound
  /\ call' = [op |-> "read", at |-> "first", len |-> n, left |-> n, failed |-> FALSE]
  /\ UNCHANGED <<rxVars, readVars, writeVars, socketVars, arrived>>

\* An empty buffer that cannot be filled: -1, which no caller counts.
ReadFirst ==
  /\ call.op = "read" /\ call.at = "first"
  /\ IF pos < Len(buffer)
     THEN /\ GoesOn(Outcome(buffer, pos, 0, FALSE), [call EXCEPT !.at = "second"])
          /\ UNCHANGED <<rxVars, read>>
     ELSE \E o \in FillBuffer :
            /\ Copied(o, 0)
            /\ IF o.n = 0 THEN Returned(o, 0) ELSE GoesOn(o, [call EXCEPT !.at = "second"])
  /\ UNCHANGED <<writeVars, arrived>>

\* All of it from the buffer, filled once more if that can be enough;
\* otherwise what was there before, and the rest piece by piece.
ReadSecond ==
  /\ call.op = "read" /\ call.at = "second"
  /\ LET a == Unread(buffer, pos)
         now == Outcome(buffer, pos, 0, FALSE)
         rest == [call EXCEPT !.at = "rest", !.left = call.len - a]
     IN  IF call.len <= a
         THEN Copied(now, call.len) /\ Returned(now, call.len)
         ELSE IF call.len - a > RxSize - Len(buffer)
              THEN Copied(now, a) /\ GoesOn(now, rest)
              ELSE \E o \in FillBuffer :
                     IF o.n >= call.len - a
                     THEN Copied(o, call.len) /\ Returned(o, call.len)
                     ELSE Copied(o, a) /\ GoesOn(o, rest)
  /\ UNCHANGED <<writeVars, arrived>>

ReadRest ==
  /\ call.op = "read" /\ call.at = "rest"
  /\ \E o \in FillBuffer :
       LET a == Unread(o.buffer, o.pos)
           n == IF a > call.left THEN call.left ELSE a
           failed == [o EXCEPT !.failed = o.failed \/ call.failed]
       IN  IF o.n = 0
           THEN Copied(o, 0) /\ Returned(failed, call.len - call.left)
           ELSE /\ Copied(o, n)
                /\ IF n = call.left THEN Returned(failed, call.len)
                   ELSE GoesOn(o, [call EXCEPT !.left = call.left - n])
  /\ UNCHANGED <<writeVars, arrived>>

ReadStep == ReadFirst \/ ReadSecond \/ ReadRest

-----------------------------------------------------------------------------
(* Writing.                                                                *)

\* A caller goes on behind what it was told.
WriteCall(n) ==
  /\ call = Idle /\ client_connected /\ open /\ write_told + n <= Outbound
  /\ call' = [op |-> "write", from |-> write_told, size |-> n, total |-> 0, retry |-> WriteRetries]
  /\ UNCHANGED <<rxVars, readVars, writeVars, socketVars, arrived>>

Piece(from, n) == [i \in 1 .. n |-> from + i]

\* The socket takes n bytes.
Send(n) ==
  /\ wire' = wire \o Piece(call.from + call.total, n)
  /\ call' = [call EXCEPT !.total = @ + n, !.retry = IF call.total + n >= call.size THEN 0 ELSE @ - 1]

\* One attempt: not ready within the timeout, a piece taken, busy, or the
\* connection is lost, after which nothing more is tried.
WriteTry ==
  /\ call.op = "write" /\ call.retry > 0
  /\ \/ /\ call' = [call EXCEPT !.retry = @ - 1]
        /\ errno' \in {errno, "again"}
        /\ UNCHANGED <<wire, client_connected, open, peer_link, sockets>>
     \/ /\ peer_link = "up" /\ \E n \in 1 .. call.size - call.total : Send(n)
        /\ UNCHANGED socketVars
     \/ /\ peer_link = "lost" /\ errno' = "reset" /\ UNCHANGED <<peer_link, sockets, wire>>
        /\ open' = FALSE /\ client_connected' = FALSE
        /\ call' = [call EXCEPT !.retry = 0]
  /\ UNCHANGED <<rxVars, readVars, write_told, arrived>>

WriteReturns ==
  /\ call.op = "write" /\ call.retry = 0
  /\ write_told' = write_told + call.total /\ call' = Idle
  /\ UNCHANGED <<rxVars, readVars, wire, socketVars, arrived>>

WriteStep == WriteTry \/ WriteReturns

-----------------------------------------------------------------------------
(* The test and the callers.                                               *)

\* Faulty variant of ConnectedTest: only a write finds the connection lost.
ConnectedTestLast ==
  /\ client_connected' = (client_connected /\ errno # "reset")
  /\ UNCHANGED errno

\* connected(): recv of no bytes.  When bytes wait it succeeds and the errno
\* that is tested is that of an earlier call.
ConnectedTest ==
  /\ errno' = IF Waiting > 0 THEN errno ELSE IF peer_link = "lost" THEN "reset" ELSE "again"
  /\ client_connected' = (errno' # "reset")

Connected ==
  /\ call = Idle /\ client_connected
  /\ ConnectedTest
  /\ UNCHANGED <<rxVars, readVars, writeVars, open, peer_link, sockets, call, arrived>>

\* lwmqtt closes a session that failed; the read of a socket that is gone
\* goes through a null pointer, which restarts the node.
StopCall ==
  /\ call = Idle /\ open
  /\ Stopped /\ UNCHANGED <<rxVars, readVars, writeVars, call, arrived>>

ReadGone ==
  /\ call = Idle /\ ~open /\ sockets > 0
  /\ client_connected' = FALSE /\ errno' = "none" /\ peer_link' = "lost"
  /\ buffer' = <<>> /\ pos' = 0 /\ received' = 0 /\ arrived' = 0
  /\ read' = <<>> /\ read_told' = 0 /\ wire' = <<>> /\ write_told' = 0
  /\ UNCHANGED <<open, sockets, call>>

-----------------------------------------------------------------------------
(* The peer and lwIP.                                                      *)

Arrives ==
  /\ open /\ peer_link = "up" /\ arrived < Inbound /\ arrived' = arrived + 1
  /\ UNCHANGED <<rxVars, readVars, writeVars, socketVars, call>>

Lost ==
  /\ open /\ peer_link = "up" /\ peer_link' = "lost"
  /\ UNCHANGED <<rxVars, readVars, writeVars, client_connected, open, errno, sockets, call, arrived>>

ClientNext ==
  \/ OpenSocket \/ ReadStep \/ WriteStep \/ Connected \/ StopCall \/ ReadGone \/ Arrives \/ Lost
  \/ \E n \in 1 .. Inbound : ReadCall(n)
  \/ \E n \in 1 .. Outbound : WriteCall(n)

\* The loop task finishes its calls, reads while something is available and
\* asks whether it is connected.
ClientFairness ==
  /\ WF_clientVars(ReadStep) /\ WF_clientVars(WriteStep)
  /\ SF_clientVars(\E n \in 1 .. Inbound : ReadCall(n))
  /\ SF_clientVars(Connected)

ClientSpec == WifiClientInit /\ [][ClientNext]_clientVars /\ ClientFairness

-----------------------------------------------------------------------------
(* Both directions keep every byte in its order, whatever the sizes of the *)
(* calls and of the pieces: what was received is with the callers or       *)
(* unread in the buffer, and the callers are told what they got and what   *)
(* the socket took, no more and no less.                                   *)
StreamsKept ==
  /\ Numbered(read) /\ Numbered(wire)
  /\ open => received = Len(read) + Unread(buffer, pos)
  /\ pos <= Len(buffer) /\ Len(buffer) <= RxSize
  /\ call = Idle => read_told = Len(read) /\ write_told = Len(wire)

(* What arrived is read in the end, and a connection that is lost is       *)
(* noticed, also one that is only read from.                               *)
StreamsMove ==
  /\ []<>(Len(read) = arrived \/ ~client_connected)
  /\ []<>(peer_link = "lost" => ~client_connected)

=============================================================================
