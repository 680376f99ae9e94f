------------------------------ MODULE MCQueues ------------------------------
(***************************************************************************)
(* The queues between a task of the network stack and one of the node, the *)
(* node's two clients whose callbacks come through such a queue, and the   *)
(* library of the MQTT client.  A behaviour is that of one of them, which  *)
(* its initial state chooses:                                              *)
(*   "ring"     FIFO on a ring of four slots: the indices wrap, the ring   *)
(*              fills (three waiting events) and drains, and two event     *)
(*              values tell orders apart;                                  *)
(*   "tcp"      AsyncTcp with three connections at two addresses and a     *)
(*              queue of three events, which fills up;                     *)
(*   "conn"     TcpClient: a buffer of two pieces and two writing tasks;   *)
(*   "clients"  one MQTT client with one input, and one peer (NodeClients);*)
(*   "session"  MqttSession: two publishes and one message, and packet      *)
(*              numbers that wrap;                                         *)
(*   "packets"  MqttPacket: packets of each kind, with lengths of one and  *)
(*              of two bytes and some too large for the buffer.            *)
(***************************************************************************)
EXTENDS FIFO, NodeClients

CONSTANTS Addresses, QueueLength, MaxEvents, MaxAccepts,
          SendBuffer, EventRoom, AckTime, RxTime, LastPacketId, MaxPublishes, MaxMessages, BufferSize,
          Texts

VARIABLES
  part,
  attached, alive, queue, hand, task, events, accepted, last, stale, lost, swapped,
  mixed, reused,
  fields, sent_age, heard_age, rx_limit, socket, unacked, waiting, writing, node, owed, overtaken,
  net, linked, doing, needed, available, last_packet_id, pong_pending, ping_due, up, down, mute,
  granted, received, outgoing, stored, confirmed, counts,
  writer, packet, wire

tcpVars == <<attached, alive, queue, hand, task, events, accepted, last, stale, lost, swapped,
             mixed, reused>>

connVars == <<fields, sent_age, heard_age, rx_limit, socket, unacked, waiting, writing, node,
              owed, overtaken>>

\* The numbers of packets begin at 1 (65535 of them, MQTT's two bytes).
ASSUME LastIdAssumption == LastPacketId \in Nat \ {0}

\* The length of a text fits in its two bytes, and a name or topic fits in the
\* buffer with the ten bytes that go around a topic at most.
ASSUME TextsAssumption ==
  /\ BufferSize \in Nat /\ 10 <= BufferSize /\ BufferSize < 65536
  /\ Texts \subseteq Seq(0 .. 255) /\ \A t \in Texts : Len(t) + 10 <= BufferSize

Tcp == INSTANCE AsyncTcp
Conn == INSTANCE TcpClient
Session == INSTANCE MqttSession

\* Empty, short, with bytes that look like lengths, and longer than one byte of
\* length can say.
MCTexts == {<<>>, <<97>>, <<98, 200, 0>>, [i \in 1 .. 125 |-> 99]}

Packets == INSTANCE MqttPacket

sessionVars ==
  <<net, linked, doing, needed, available, last_packet_id, pong_pending, ping_due, up, down, mute,
    granted, received, outgoing, stored, confirmed, counts>>
packetVars == <<writer, packet, wire>>

\* The other parts have one of their initial states.
QueuesInit ==
  /\ part \in {"ring", "tcp", "conn", "clients", "session", "packets"}
  /\ Init /\ Tcp!Init /\ Conn!ClientInit /\ NodeInit
  /\ Session!SessionInit /\ Packets!PacketInit
  /\ part = "conn" \/ rx_limit = 0
  /\ part = "clients" \/ (retained = 0 /\ ~network)

QueuesNext ==
  /\ UNCHANGED part
  /\ \/ /\ part = "ring" /\ Next
        /\ UNCHANGED <<tcpVars, connVars, nodeVars, sessionVars, packetVars>>
     \/ /\ part = "tcp" /\ Tcp!Next
        /\ UNCHANGED <<vars, connVars, nodeVars, sessionVars, packetVars>>
     \/ /\ part = "conn" /\ Conn!ClientNext
        /\ UNCHANGED <<vars, tcpVars, nodeVars, sessionVars, packetVars>>
     \/ /\ part = "clients" /\ NodeNext
        /\ UNCHANGED <<vars, tcpVars, connVars, sessionVars, packetVars>>
     \/ /\ part = "session" /\ Session!SessionNext
        /\ UNCHANGED <<vars, tcpVars, connVars, nodeVars, packetVars>>
     \/ /\ part = "packets" /\ Packets!PacketNext
        /\ UNCHANGED <<vars, tcpVars, connVars, nodeVars, sessionVars>>

\* loop() runs forever and finds the 100 ms of systems.update passed again
\* and again; the library's fairness is Peer's.
ClientsFairness ==
  /\ WF_nodeVars(part = "clients" /\ NodeLoop)
  /\ SF_nodeVars(part = "clients" /\ CheckConnection)
  /\ WF_nodeVars(part = "clients" /\ ErrorHandled)
  /\ WF_nodeVars(part = "clients" /\ FinHandled)
  /\ WF_nodeVars(part = "clients" /\ PollHandled)
  /\ WF_nodeVars(part = "clients" /\ ClearHandled)
  /\ WF_nodeVars(part = "clients" /\ AttemptEnds)

\* Both tasks run, time passes and lwIP polls (TcpClient).
ConnFairness ==
  /\ WF_connVars(part = "conn" /\ Conn!Handle)
  /\ WF_connVars(part = "conn" /\ Conn!Tick)
  /\ SF_connVars(part = "conn" /\ Conn!Polled)
  /\ \A t \in Conn!Tasks : WF_connVars(part = "conn" /\ Conn!Writes(t))

\* The node calls the library's loop() again and again, a command ends with
\* its answer or its timer, and time passes.
SessionFairness ==
  /\ WF_sessionVars(part = "session" /\ Session!Service)
  /\ WF_sessionVars(part = "session" /\ Session!KeepAlive)
  /\ WF_sessionVars(part = "session" /\ Session!Read)
  /\ WF_sessionVars(part = "session" /\ Session!TimedOut)
  /\ WF_sessionVars(part = "session" /\ Session!PingDue)

QueuesSpec ==
  /\ QueuesInit
  /\ [][QueuesNext]_<<part, vars, tcpVars, connVars, nodeVars, sessionVars, packetVars>>
  /\ ConnFairness /\ ClientsFairness /\ SessionFairness

TcpIsSound == Tcp!EventsArrive /\ Conn!AckIsDue
KeepsOrder == Tcp!KeepsOrder
MqttExchangesSound == Session!MqttExchangesSound
PacketsAgree == Packets!PacketsAgree
SilenceIsNoticed ==
  /\ part = "session" => Session!DeadBrokerNoticed
  /\ part = "conn" => Conn!SendIsAnswered
PeerKeepsTrying == part = "clients" => P!KeepsTrying
=============================================================================
