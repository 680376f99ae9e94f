----------------------------- MODULE MqttPacket -----------------------------
(***************************************************************************)
(* The packets of the client library (lwmqtt/packet.c and helpers.c), as   *)
(* sequences of bytes: what it writes for a command, and what it makes of  *)
(* a packet of the broker.  The writers of the source append field after   *)
(* field and stop when the buffer is full; here a packet is the            *)
(* concatenation of its fields, or Failed.  A behaviour writes one packet  *)
(* of either side after the other.                                         *)
(***************************************************************************)
EXTENDS Naturals, Sequences

CONSTANTS
  BufferSize,       \* of both buffers: 128 in the firmware
  Texts             \* the texts used as names, topics and payloads

VARIABLES
  writer,           \* "client" or "server"
  packet,           \* the last packet written, as its fields
  wire              \* and as bytes

packetVars == <<writer, packet, wire>>

Failed == <<>>

\* The packet types, in the order of their numbers.
Types == <<"CONNECT", "CONNACK", "PUBLISH", "PUBACK", "PUBREC", "PUBREL", "PUBCOMP",
           "SUBSCRIBE", "SUBACK", "UNSUBSCRIBE", "UNSUBACK", "PINGREQ", "PINGRESP", "DISCONNECT">>
Number(type) == CHOOSE i \in DOMAIN Types : Types[i] = type

Receivable == {"CONNACK", "PUBLISH", "PUBACK", "PUBREC", "PUBREL", "PUBCOMP", "SUBACK", "UNSUBACK", "PINGRESP"}

-----------------------------------------------------------------------------
(* helpers.c.                                                              *)

\* lwmqtt_read_bits.
BitsOf(byte, pos, num) == (byte \div 2^pos) % 2^num

TypeOf(byte) == Types[BitsOf(byte, 4, 4)]

WriteNum(n) == <<n \div 256, n % 256>>
ReadNum(bytes, at) == 256 * bytes[at] + bytes[at + 1]
WriteString(text) == WriteNum(Len(text)) \o text

\* lwmqtt_write_varnum: seven bits a byte, and a flag when there is another.
Varnum[n \in Nat] ==
  IF n < 128 THEN <<n>> ELSE <<(n % 128) + 128>> \o Varnum[n \div 128]

WriteVarnum(n) == IF Len(Varnum[n]) > 4 THEN Failed ELSE Varnum[n]

\* lwmqtt_read_varnum at a place: the value and the length, or Failed; the
\* fifth byte is an overflow.
ReadVarnum(bytes, at) ==
  LET ends == {k \in 1 .. 4 : at + k - 1 <= Len(bytes) /\ bytes[at + k - 1] < 128}
      k == CHOOSE e \in ends : \A f \in ends : e <= f
      Part[i \in 0 .. 4] ==
        IF i = 0 THEN 0 ELSE Part[i - 1] + (bytes[at + i - 1] % 128) * 128^(i - 1)
  IN  IF ends = {} THEN Failed ELSE <<Part[k], k>>

\* lwmqtt_varnum_length, of which only the overflow is used.
VarnumOverflows(n) == ~ n < 268435455

Flag(condition) == IF condition THEN 1 ELSE 0

-----------------------------------------------------------------------------
(* What the client writes.                                                 *)

\* Type, dup, QoS and retained in the first byte; the remaining length; the
\* fields, if the buffer holds them.
Written(type, qos, retained, fields) ==
  LET bytes == <<16 * Number(type) + 2 * qos + retained>> \o WriteVarnum(Len(fields)) \o fields
  IN  IF VarnumOverflows(Len(fields)) \/ Len(bytes) > BufferSize THEN Failed ELSE bytes

\* lwmqtt_encode_connect: a password goes only with a user.
EncodeConnect(p) ==
  LET user == p.user # <<>>
      pass == user /\ p.pass # <<>>
      flags == 2 * Flag(p.clean) + (IF p.has_will THEN 4 + 8 * p.will_qos + 32 * Flag(p.will_retained) ELSE 0)
               + 64 * Flag(pass) + 128 * Flag(user)
  IN  Written("CONNECT", 0, 0,
        WriteString(<<77, 81, 84, 84>>) \o <<4, flags>> \o WriteNum(p.keep_alive)
        \o WriteString(p.client_id)
        \o (IF p.has_will THEN WriteString(p.will_topic) \o WriteString(p.will_payload) ELSE <<>>)
        \o (IF user THEN WriteString(p.user) ELSE <<>>)
        \o (IF pass THEN WriteString(p.pass) ELSE <<>>))

EncodeZero(p) == Written(p.type, 0, 0, <<>>)

EncodeAck(p) == Written(p.type, Flag(p.type = "PUBREL"), 0, WriteNum(p.id))

EncodePublish(p) ==
  Written("PUBLISH", p.qos, Flag(p.retained),
          WriteString(p.topic) \o (IF p.qos > 0 THEN WriteNum(p.id) ELSE <<>>) \o p.payload)

\* The library is only asked for one topic at a time.
EncodeSubscribe(p) == Written("SUBSCRIBE", 1, 0, WriteNum(p.id) \o WriteString(p.topic) \o <<p.qos>>)
EncodeUnsubscribe(p) == Written("UNSUBSCRIBE", 1, 0, WriteNum(p.id) \o WriteString(p.topic))

Encode(p) ==
  CASE p.type = "CONNECT" -> EncodeConnect(p)
    [] p.type = "PUBLISH" -> EncodePublish(p)
    [] p.type = "SUBSCRIBE" -> EncodeSubscribe(p)
    [] p.type = "UNSUBSCRIBE" -> EncodeUnsubscribe(p)
    [] p.type \in {"PUBACK", "PUBREC", "PUBREL", "PUBCOMP"} -> EncodeAck(p)
    [] OTHER -> EncodeZero(p)

-----------------------------------------------------------------------------
(* What the client reads.                                                  *)

\* lwmqtt_read_packet_in_buffer: the first byte, bytes of the length until
\* they make a number, the rest; what it has read, or Failed.
ReadPacket(stream) ==
  LET type == TypeOf(stream[1])
      length == ReadVarnum(stream, 2)
      whole == 1 + length[2] + length[1]
  IN  IF type \notin Receivable \/ length = Failed \/ whole > BufferSize
      THEN Failed ELSE SubSeq(stream, 1, whole)

\* The decoders are given the whole buffer; their fields start behind the length.
Start(buf) == 2 + ReadVarnum(buf, 2)[2]
Remaining(buf) == ReadVarnum(buf, 2)[1]

DecodeConnack(buf) ==
  IF Remaining(buf) # 2 THEN Failed
  ELSE [type |-> "CONNACK", code |-> buf[Start(buf) + 1]]

DecodeAck(buf) ==
  IF Remaining(buf) # 2 THEN Failed
  ELSE [type |-> TypeOf(buf[1]), id |-> ReadNum(buf, Start(buf))]

DecodeSuback(buf) ==
  IF Remaining(buf) < 3 THEN Failed
  ELSE [type |-> "SUBACK", id |-> ReadNum(buf, Start(buf)),
        code |-> IF buf[Start(buf) + 2] \in 0 .. 2 THEN buf[Start(buf) + 2] ELSE 128]

\* Faulty variant of DecodePublish: the payload goes to the end of the buffer.
DecodePublishLong(buf) ==
  LET start == Start(buf)
      topic == SubSeq(buf, start + 2, start + 1 + ReadNum(buf, start))
      qos == IF BitsOf(buf[1], 1, 2) = 3 THEN 0 ELSE BitsOf(buf[1], 1, 2)
      after == start + 2 + Len(topic)
  IN  [type |-> "PUBLISH", qos |-> qos, retained |-> BitsOf(buf[1], 0, 1) = 1, topic |-> topic,
       id |-> IF qos > 0 THEN ReadNum(buf, after) ELSE 0,
       payload |-> SubSeq(buf, after + (IF qos > 0 THEN 2 ELSE 0), Len(buf))]

\* lwmqtt_decode_publish: the payload is what the fields leave of the length.
DecodePublish(buf) ==
  LET start == Start(buf)
      last == start + Remaining(buf) - 1
      topic == SubSeq(buf, start + 2, start + 1 + ReadNum(buf, start))
      qos == IF BitsOf(buf[1], 1, 2) = 3 THEN 0 ELSE BitsOf(buf[1], 1, 2)
      after == start + 2 + Len(topic)
  IN  IF Remaining(buf) < 2 \/ last > Len(buf) \/ after - 1 + (IF qos > 0 THEN 2 ELSE 0) > last
      THEN Failed
      ELSE [type |-> "PUBLISH", qos |-> qos, retained |-> BitsOf(buf[1], 0, 1) = 1, topic |-> topic,
            id |-> IF qos > 0 THEN ReadNum(buf, after) ELSE 0,
            payload |-> SubSeq(buf, after + (IF qos > 0 THEN 2 ELSE 0), last)]

Decode(buf) ==
  LET type == TypeOf(buf[1]) IN
  CASE type = "CONNACK" -> DecodeConnack(buf)
    [] type = "SUBACK" -> DecodeSuback(buf)
    [] type = "PUBLISH" -> DecodePublish(buf)
    [] type = "PINGRESP" -> [type |-> "PINGRESP"]
    [] OTHER -> DecodeAck(buf)

-----------------------------------------------------------------------------
(* The other end: how the standard writes and reads them.                  *)

ServerWrites(p) ==
  LET Framed(first, fields) == <<16 * Number(p.type) + first>> \o Varnum[Len(fields)] \o fields IN
  CASE p.type = "CONNACK" -> Framed(0, <<0, p.code>>)
    [] p.type = "SUBACK" -> Framed(0, WriteNum(p.id) \o <<p.code>>)
    [] p.type = "PINGRESP" -> Framed(0, <<>>)
    [] p.type = "PUBLISH" ->
         Framed(2 * p.qos + Flag(p.retained),
                WriteString(p.topic) \o (IF p.qos > 0 THEN WriteNum(p.id) ELSE <<>>) \o p.payload)
    [] OTHER -> Framed((IF p.type = "PUBREL" THEN 2 ELSE 0), WriteNum(p.id))

\* A server takes one packet off the stream, field by field, and refuses one
\* whose first byte has the wrong flags.
ServerReads(bytes) ==
  LET type == TypeOf(bytes[1])
      flags == bytes[1] % 16
      start == 2 + ReadVarnum(bytes, 2)[2]
      end == start + ReadVarnum(bytes, 2)[1]       \* behind the packet
      Next2(at) == at + 2 + ReadNum(bytes, at)     \* behind the string at a place
      Text(at) == SubSeq(bytes, at + 2, Next2(at) - 1)
      odd == type # "PUBLISH" /\ flags # (IF type \in {"PUBREL", "SUBSCRIBE", "UNSUBSCRIBE"} THEN 2 ELSE 0)
  IN
  IF end # Len(bytes) + 1 \/ odd THEN Failed ELSE
  CASE type = "CONNECT" ->
         LET f == bytes[start + 7]
             will == start + 10 + 2 + ReadNum(bytes, start + 10)
             user == IF BitsOf(f, 2, 1) = 1 THEN Next2(Next2(will)) ELSE will
         IN  [type |-> "CONNECT", clean |-> BitsOf(f, 1, 1) = 1,
              keep_alive |-> ReadNum(bytes, start + 8), client_id |-> Text(start + 10),
              has_will |-> BitsOf(f, 2, 1) = 1,
              will_qos |-> BitsOf(f, 3, 2), will_retained |-> BitsOf(f, 5, 1) = 1,
              will_topic |-> IF BitsOf(f, 2, 1) = 1 THEN Text(will) ELSE <<>>,
              will_payload |-> IF BitsOf(f, 2, 1) = 1 THEN Text(Next2(will)) ELSE <<>>,
              user |-> IF BitsOf(f, 7, 1) = 1 THEN Text(user) ELSE <<>>,
              pass |-> IF BitsOf(f, 6, 1) = 1 THEN Text(Next2(user)) ELSE <<>>]
    [] type = "PUBLISH" ->
         LET qos == (flags % 8) \div 2
             body == Next2(start) + (IF qos > 0 THEN 2 ELSE 0)
         IN  [type |-> "PUBLISH", qos |-> qos, retained |-> flags % 2 = 1, topic |-> Text(start),
              id |-> IF qos > 0 THEN ReadNum(bytes, Next2(start)) ELSE 0,
              payload |-> SubSeq(bytes, body, end - 1)]
    [] type = "SUBSCRIBE" ->
         [type |-> "SUBSCRIBE", id |-> ReadNum(bytes, start), topic |-> Text(start + 2),
          qos |-> bytes[end - 1]]
    [] type = "UNSUBSCRIBE" ->
         [type |-> "UNSUBSCRIBE", id |-> ReadNum(bytes, start), topic |-> Text(start + 2)]
    [] type \in {"PINGREQ", "DISCONNECT"} -> [type |-> type]
    [] OTHER -> [type |-> type, id |-> ReadNum(bytes, start)]

-----------------------------------------------------------------------------
(* Packets, one after the other.                                           *)

Ids == {1, 255, 256, 65535}

Publishes ==
  {[type |-> "PUBLISH", qos |-> q, retained |-> r, topic |-> t, payload |-> m, id |-> IF q > 0 THEN i ELSE 0] :
     q \in 0 .. 2, r \in BOOLEAN, t \in Texts, m \in Texts, i \in Ids}
Acks(types) == {[type |-> t, id |-> i] : t \in types, i \in Ids}

\* The settings the program makes: no will without its topic, a password only
\* with a user.
Connects ==
  {[type |-> "CONNECT", clean |-> c, keep_alive |-> 10, client_id |-> n, has_will |-> w,
    will_qos |-> IF w THEN 2 ELSE 0, will_retained |-> w, will_topic |-> IF w THEN t ELSE <<>>,
    will_payload |-> IF w THEN n ELSE <<>>, user |-> u, pass |-> IF u = <<>> THEN <<>> ELSE t] :
     c \in BOOLEAN, n \in Texts, w \in BOOLEAN, t \in Texts, u \in Texts}

ClientPackets ==
  Connects \cup Publishes \cup Acks({"PUBACK", "PUBREC", "PUBREL", "PUBCOMP"})
  \cup {[type |-> "SUBSCRIBE", id |-> i, topic |-> t, qos |-> q] : i \in Ids, t \in Texts, q \in 0 .. 2}
  \cup {[type |-> "UNSUBSCRIBE", id |-> i, topic |-> t] : i \in Ids, t \in Texts}
  \cup {[type |-> t] : t \in {"PINGREQ", "DISCONNECT"}}

ServerPackets ==
  {[type |-> "CONNACK", code |-> c] : c \in 0 .. 5}
  \cup Publishes \cup Acks({"PUBACK", "PUBREC", "PUBREL", "PUBCOMP", "UNSUBACK"})
  \cup {[type |-> "SUBACK", id |-> i, code |-> c] : i \in Ids, c \in {0, 1, 2, 128}}
  \cup {[type |-> "PINGRESP"]}

Pingresp == ServerWrites([type |-> "PINGRESP"])

PacketInit == writer = "server" /\ packet = [type |-> "PINGRESP"] /\ wire = Pingresp

ClientWrites ==
  /\ writer' = "client" /\ packet' \in ClientPackets /\ wire' = Encode(packet')

ServerSends ==
  /\ writer' = "server" /\ packet' \in ServerPackets /\ wire' = ServerWrites(packet')

PacketNext == writer = "server" /\ packet.type = "PINGRESP" /\ (ClientWrites \/ ServerSends)

PacketSpec == PacketInit /\ [][PacketNext]_packetVars

-----------------------------------------------------------------------------
\* The length of a packet survives at every boundary of its bytes; what needs
\* a fifth byte is refused.
Boundaries == {0, 1, 127, 128, 129, 255, 256, 16383, 16384, 2097151, 2097152, 268435455}
LengthsSurvive ==
  \A n \in Boundaries :
    /\ ReadVarnum(WriteVarnum(n), 1) = <<n, Len(WriteVarnum(n))>>
    /\ WriteVarnum(268435456) = Failed

(* The server reads what the client meant, and a command is refused only   *)
(* when its packet is larger than the buffer.  The client takes exactly    *)
(* one packet off the stream, although the next has arrived, and reads     *)
(* what the server meant, whatever an earlier packet left in the buffer.   *)
PacketsAgree ==
  /\ LengthsSurvive
  /\ writer = "client" =>
       IF wire = Failed
       THEN packet.type \in {"CONNECT", "PUBLISH"}    \* the only ones that may be too large
       ELSE ServerReads(wire) = packet
  /\ writer = "server" =>
       LET read == ReadPacket(wire \o Pingresp)
       IN  IF Len(wire) > BufferSize THEN read = Failed
           ELSE /\ read = wire
                /\ Decode(read \o [i \in 1 .. BufferSize - Len(read) |-> 90]) = packet

=============================================================================
