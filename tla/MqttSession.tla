---------------------------- MODULE MqttSession -----------------------------
(***************************************************************************)
(* The client library below the MQTT client: MQTTClient and lwmqtt, packet *)
(* by packet, over a connection to a broker.  A command sends its packet   *)
(* and reads until the kind of packet it needs has come; whatever else     *)
(* comes in between (messages, their handshakes, the other half of its     *)
(* own) is handled on the way.  What a packet looks like is MqttPacket's.  *)
(* The broker and the connection are external.                             *)
(***************************************************************************)
EXTENDS Naturals, Sequences, FiniteSets, SequencesExt

CONSTANTS
  LastPacketId,     \* 65535: the numbers of packets start again behind it
  MaxPublishes,     \* bound: messages the node publishes
  MaxMessages       \* bound: messages the broker has for it

VARIABLES
  net, linked,      \* netClient->connected(), and _connected
  doing,            \* where the library is: Waiting for a packet, in a yield, ...
  needed,           \* the number of the packet or message a command waits with
  available,        \* packets a yield still has to read
  last_packet_id, pong_pending,
  ping_due,         \* the keep-alive timer has run out
  up, down,         \* packets on the connection, to the broker and back
  mute,             \* the broker does nothing any more, and TCP does not tell
  granted,          \* the session's subscription: a QoS, or NoQos
  received,         \* broker: numbers of QoS 2 messages not released yet
  outgoing,         \* broker: numbers of its own messages not acknowledged yet
  stored,           \* broker: the messages it has taken, in order
  confirmed,        \* the messages whose publish returned true
  counts            \* <<published, sent by the broker>>

wireVars == <<up, down>>
brokerVars == <<mute, granted, received, outgoing, stored>>
stateVars == <<net, linked, doing, needed, available, last_packet_id, pong_pending, ping_due>>
sessionVars == <<stateVars, wireVars, brokerVars, confirmed, counts>>

Qos == 0 .. 2
NoQos == 3
Waiting == {"CONNACK", "SUBACK", "UNSUBACK", "PUBACK", "PUBCOMP"}

Packet(type, id) == [type |-> type, id |-> id, qos |-> 0, msg |-> 0]
Message(qos, id, m) == [type |-> "PUBLISH", id |-> id, qos |-> qos, msg |-> m]

SessionInit ==
  /\ net = FALSE /\ linked = FALSE /\ doing = "rest" /\ needed = 0 /\ available = 0
  /\ last_packet_id = 1 /\ pong_pending = FALSE /\ ping_due = FALSE
  /\ up = <<>> /\ down = <<>>
  /\ mute = FALSE /\ granted = NoQos /\ received = {} /\ outgoing = {} /\ stored = <<>>
  /\ confirmed = {} /\ counts = <<0, 0>>

SessionTypeOK ==
  /\ {net, linked, pong_pending, ping_due, mute} \subseteq BOOLEAN
  /\ doing \in Waiting \cup {"rest", "yield", "alive"}
  /\ last_packet_id \in 1 .. LastPacketId /\ available \in Nat
  /\ granted \in Qos \cup {NoQos}
  /\ confirmed \subseteq 1 .. MaxPublishes
  /\ ~net => up = <<>> /\ down = <<>>

Connected == net /\ linked

-----------------------------------------------------------------------------
(* What ends a session.                                                    *)

\* The session at the broker is clean: it ends with the connection.
ConnectionEnds ==
  /\ net' = FALSE /\ up' = <<>> /\ down' = <<>>
  /\ granted' = NoQos /\ received' = {} /\ outgoing' = {}
  /\ UNCHANGED <<mute, stored>>

\* Faulty variant of Close: what failed is only reported.
CloseNot == doing' = "rest" /\ UNCHANGED <<net, linked, wireVars, brokerVars>>

\* close(): after any error of a command.
Close == doing' = "rest" /\ linked' = FALSE /\ ConnectionEnds

Fail ==
  /\ Close /\ needed' = 0 /\ available' = 0
  /\ UNCHANGED <<last_packet_id, pong_pending, ping_due, confirmed, counts>>

-----------------------------------------------------------------------------
(* Commands.                                                               *)

\* lwmqtt_send_packet_in_buffer: sending puts the keep-alive off.
Send(packets) == up' = up \o packets /\ ping_due' = (ping_due /\ packets = <<>>)

Await(type, id) == doing' = type /\ needed' = id

NextId == IF last_packet_id = LastPacketId THEN 1 ELSE last_packet_id + 1

\* begin() and connect(): an open connection is closed first; a host that does
\* not answer makes the write fail.
Connect ==
  /\ doing = "rest"
  /\ last_packet_id' = 1 /\ pong_pending' = FALSE /\ ping_due' = FALSE
  /\ \/ net' = TRUE /\ up' = <<Packet("CONNECT", 0)>> /\ doing' = "CONNACK"
        /\ linked' = (linked /\ ~net)
     \/ net' = FALSE /\ up' = <<>> /\ doing' = "rest" /\ linked' = FALSE
  /\ down' = <<>> /\ granted' = NoQos /\ received' = {} /\ outgoing' = {}
  /\ UNCHANGED <<needed, available, mute, stored, confirmed, counts>>

\* lwmqtt_subscribe, and lwmqtt_unsubscribe.
Subscribe ==
  /\ doing = "rest" /\ Connected
  /\ last_packet_id' = NextId
  /\ \/ \E qos \in Qos :
          Await("SUBACK", NextId) /\ Send(<<[Packet("SUBSCRIBE", NextId) EXCEPT !.qos = qos]>>)
     \/ Await("UNSUBACK", NextId) /\ Send(<<Packet("UNSUBSCRIBE", NextId)>>)
  /\ UNCHANGED <<net, linked, available, pong_pending, down, brokerVars, confirmed, counts>>

\* lwmqtt_publish: QoS 0 has no number and waits for nothing.
Publish ==
  /\ doing = "rest" /\ Connected /\ counts[1] < MaxPublishes
  /\ counts' = [counts EXCEPT ![1] = @ + 1]
  /\ \/ Send(<<Message(0, 0, counts[1] + 1)>>) /\ UNCHANGED <<doing, needed, last_packet_id>>
     \/ \E qos \in {1, 2} :
          /\ last_packet_id' = NextId
          /\ Send(<<Message(qos, NextId, counts[1] + 1)>>)
          /\ Await((IF qos = 1 THEN "PUBACK" ELSE "PUBCOMP"), counts[1] + 1)
  /\ UNCHANGED <<net, linked, available, pong_pending, down, brokerVars, confirmed>>

\* disconnect(): the packet is sent, whatever becomes of it.
Disconnect == doing = "rest" /\ Connected /\ Fail

\* loop(): what is available is read first.
Service ==
  /\ doing = "rest" /\ Connected
  /\ available' = Len(down)
  /\ doing' = IF down = <<>> THEN "alive" ELSE "yield"
  /\ UNCHANGED <<net, linked, needed, last_packet_id, pong_pending, ping_due,
                 wireVars, brokerVars, confirmed, counts>>

\* Faulty variant of KeepAlive: it waits for the answer for ever.
KeepAliveWaits ==
  /\ doing = "alive" /\ doing' = "rest"
  /\ Send(IF ping_due /\ ~pong_pending THEN <<Packet("PINGREQ", 0)>> ELSE <<>>)
  /\ pong_pending' = (pong_pending \/ ping_due)
  /\ UNCHANGED <<net, linked, needed, available, last_packet_id, down, brokerVars,
                 confirmed, counts>>

\* lwmqtt_keep_alive: a ping is due, and must find the last one answered.
KeepAlive ==
  /\ doing = "alive"
  /\ IF ping_due /\ (pong_pending \/ ~net)
     THEN Fail
     ELSE /\ doing' = "rest"
          /\ Send(IF ping_due THEN <<Packet("PINGREQ", 0)>> ELSE <<>>)
          /\ pong_pending' = (pong_pending \/ ping_due)
          /\ UNCHANGED <<net, linked, needed, available, last_packet_id, down, brokerVars,
                         confirmed, counts>>

-----------------------------------------------------------------------------
(* Reading.                                                                *)

\* What lwmqtt_cycle sends back.
Answer(p) ==
  CASE p.type = "PUBLISH" /\ p.qos = 1 -> <<Packet("PUBACK", p.id)>>
    [] p.type = "PUBLISH" /\ p.qos = 2 -> <<Packet("PUBREC", p.id)>>
    [] p.type = "PUBREC" -> <<Packet("PUBREL", p.id)>>
    [] p.type = "PUBREL" -> <<Packet("PUBCOMP", p.id)>>
    [] OTHER -> <<>>

\* The packet is the one a command waits for, by its kind; CONNACK and SUBACK
\* may carry a refusal.
Finish(p) ==
  /\ p.type = doing
  /\ IF p.qos = NoQos
     THEN Close /\ UNCHANGED <<available, ping_due, confirmed>>
     ELSE /\ doing' = "rest"
          /\ linked' = (linked \/ p.type = "CONNACK")
          /\ confirmed' = confirmed \cup (IF doing \in {"PUBACK", "PUBCOMP"} THEN {needed} ELSE {})
          /\ down' = Tail(down)
          /\ UNCHANGED <<net, up, ping_due, available, brokerVars>>
  /\ needed' = 0
  /\ UNCHANGED <<last_packet_id, pong_pending, counts>>

\* Another packet: handled, and the next one is read.
Handle(p) ==
  /\ p.type # doing
  /\ Send(Answer(p)) /\ down' = Tail(down)
  /\ pong_pending' = (pong_pending /\ p.type # "PINGRESP")
  /\ available' = IF doing = "yield" THEN available - 1 ELSE available
  /\ doing' = IF doing = "yield" /\ available = 1 THEN "alive" ELSE doing
  /\ UNCHANGED <<net, linked, needed, last_packet_id, brokerVars, confirmed, counts>>

Read ==
  /\ doing \in Waiting \cup {"yield"} /\ down # <<>>
  /\ Finish(Head(down)) \/ Handle(Head(down))

\* The command timer runs out, before a packet or in the middle of one, or the
\* connection is gone; a yield that has read whole packets just ends.
TimedOut ==
  \/ doing \in Waiting \cup {"yield"} /\ Fail
  \/ /\ doing = "yield" /\ net /\ doing' = "alive" /\ available' = 0
     /\ UNCHANGED <<net, linked, needed, last_packet_id, pong_pending, ping_due,
                    wireVars, brokerVars, confirmed, counts>>

Library ==
  Connect \/ Subscribe \/ Publish \/ Disconnect \/ Service \/ KeepAlive \/ Read \/ TimedOut

-----------------------------------------------------------------------------
(* The broker, the connection and the clock.                               *)

PingDue ==
  /\ Connected /\ ~ping_due /\ ping_due' = TRUE
  /\ UNCHANGED <<net, linked, doing, needed, available, last_packet_id, pong_pending,
                 wireVars, brokerVars, confirmed, counts>>

Reply(packets) == down' = down \o packets

\* The broker takes the next packet.
BrokerTakes(p) ==
  \/ /\ p.type = "CONNECT"
     /\ \E code \in {0, NoQos} : Reply(<<[Packet("CONNACK", 0) EXCEPT !.qos = code]>>)
     /\ UNCHANGED <<granted, received, outgoing, stored>>
  \/ /\ p.type = "SUBSCRIBE"
     /\ \E qos \in {p.qos, NoQos} :
          granted' = qos /\ Reply(<<[Packet("SUBACK", p.id) EXCEPT !.qos = qos]>>)
     /\ UNCHANGED <<received, outgoing, stored>>
  \/ /\ p.type = "UNSUBSCRIBE" /\ granted' = NoQos /\ Reply(<<Packet("UNSUBACK", p.id)>>)
     /\ UNCHANGED <<received, outgoing, stored>>
  \/ /\ p.type = "PUBLISH"
     /\ stored' = IF p.qos = 2 /\ p.id \in received THEN stored ELSE Append(stored, p.msg)
     /\ received' = IF p.qos = 2 THEN received \cup {p.id} ELSE received
     /\ Reply(IF p.qos = 0 THEN <<>>
              ELSE <<Packet((IF p.qos = 1 THEN "PUBACK" ELSE "PUBREC"), p.id)>>)
     /\ UNCHANGED <<granted, outgoing>>
  \/ /\ p.type = "PUBREL" /\ received' = received \ {p.id} /\ Reply(<<Packet("PUBCOMP", p.id)>>)
     /\ UNCHANGED <<granted, outgoing, stored>>
  \/ /\ p.type = "PUBREC" /\ Reply(<<Packet("PUBREL", p.id)>>)
     /\ UNCHANGED <<granted, received, outgoing, stored>>
  \/ /\ p.type \in {"PUBACK", "PUBCOMP"} /\ outgoing' = outgoing \ {p.id} /\ Reply(<<>>)
     /\ UNCHANGED <<granted, received, stored>>
  \/ /\ p.type = "PINGREQ" /\ Reply(<<Packet("PINGRESP", 0)>>)
     /\ UNCHANGED <<granted, received, outgoing, stored>>

BrokerStep ==
  /\ ~mute /\ up # <<>> /\ up' = Tail(up)
  /\ BrokerTakes(Head(up))
  /\ UNCHANGED <<stateVars, mute, confirmed, counts>>

\* Its messages are numbered like the node's.
BrokerPublishes ==
  /\ ~mute /\ granted # NoQos /\ counts[2] < MaxMessages
  /\ LET id == (counts[2] % LastPacketId) + 1
     IN  /\ id \notin outgoing
         /\ Reply(<<Message(granted, (IF granted = 0 THEN 0 ELSE id), 0)>>)
         /\ outgoing' = IF granted = 0 THEN outgoing ELSE outgoing \cup {id}
  /\ counts' = [counts EXCEPT ![2] = @ + 1]
  /\ UNCHANGED <<stateVars, up, mute, granted, received, stored, confirmed>>

GoesMute == net /\ ~mute /\ mute' = TRUE
            /\ UNCHANGED <<stateVars, wireVars, granted, received, outgoing, stored, confirmed, counts>>

\* The connection breaks, and the network library knows.
Breaks ==
  /\ net /\ ConnectionEnds
  /\ UNCHANGED <<linked, doing, needed, available, last_packet_id, pong_pending, ping_due,
                 confirmed, counts>>

SessionWorld == PingDue \/ BrokerStep \/ BrokerPublishes \/ GoesMute \/ Breaks

SessionNext == Library \/ SessionWorld

\* The node calls loop() again and again; a command ends with its answer or
\* its timer; time passes.
SessionFairness ==
  /\ WF_sessionVars(Service) /\ WF_sessionVars(KeepAlive)
  /\ WF_sessionVars(Read) /\ WF_sessionVars(TimedOut) /\ WF_sessionVars(PingDue)

SessionSpec == SessionInit /\ [][SessionNext]_sessionVars /\ SessionFairness

-----------------------------------------------------------------------------
(* A publish with an acknowledgement that returned true was taken by the   *)
(* broker, and no message is taken twice, although no acknowledgement is   *)
(* compared with what it is for: the one of an abandoned command must not  *)
(* reach a later one.                                                      *)
PublishTrusted ==
  /\ confirmed \subseteq ToSet(stored)
  /\ IsInjective(stored)

(* The handshakes of both directions go through one buffer, inside any     *)
(* command's wait: when the session is open and the line is quiet none is  *)
(* left half done.                                                         *)
QuietMeansSettled ==
  Connected /\ doing = "rest" /\ up = <<>> /\ down = <<>> => received = {} /\ outgoing = {}

(* Both.                                                                   *)
MqttExchangesSound == PublishTrusted /\ QuietMeansSettled

(* lwmqtt_keep_alive: a broker that went mute is noticed, also when TCP    *)
(* says nothing, and the session is closed.                                *)
DeadBrokerNoticed == mute /\ Connected ~> ~Connected

=============================================================================
