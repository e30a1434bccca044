---------------------------- MODULE PacketCodecs ----------------------------
(***************************************************************************)
(* The packet library of src/mqtt: sizes, the remaining length, MQTTString, *)
(* and one operator for each function that writes a packet into a buffer or *)
(* reads one out of it, of the client and of the server side.               *)
(*                                                                         *)
(* A buffer is a sequence of bytes; a pointer into it is an index.  What    *)
(* a function returns is a record: rc and, where it succeeds, its outputs.  *)
(***************************************************************************)
EXTENDS Integers, Sequences, SequencesExt

CONSTANT NULL     \* a null pointer

PacketType ==
  [CONNECT |-> 1, CONNACK |-> 2, PUBLISH |-> 3, PUBACK |-> 4, PUBREC |-> 5,
   PUBREL |-> 6, PUBCOMP |-> 7, SUBSCRIBE |-> 8, SUBACK |-> 9, UNSUBSCRIBE |-> 10,
   UNSUBACK |-> 11, PINGREQ |-> 12, PINGRESP |-> 13, DISCONNECT |-> 14]
BUFFER_TOO_SHORT == -2
Byte == 0..255

Bit(cond) == IF cond THEN 1 ELSE 0
\* Bits i .. i + n - 1 of byte b, 2^i and 2^n given
Bits(b, powI, powN) == (b \div powI) % powN

HeaderByte(type, dup, qos, retain) == type * 16 + dup * 8 + qos * 2 + retain
TypeOf(b) == Bits(b, 16, 16)

-----------------------------------------------------------------------------
(* The remaining length *)

Pow128 == <<1, 128, 16384, 2097152>>
MaxRemLen == 128 * 2097152 - 1

EncodeSize(n) == IF n < Pow128[2] THEN 1 ELSE IF n < Pow128[3] THEN 2
                 ELSE IF n < Pow128[4] THEN 3 ELSE 4
MQTTPacket_encode(n) ==
  [i \in 1..EncodeSize(n) |->
     ((n \div Pow128[i]) % 128) + (IF i < EncodeSize(n) THEN 128 ELSE 0)]

\* Up to four bytes of b from index p on; a fourth with a continuation bit makes len 5
\* and leaves the value of the four
Stops(b, p) == {i \in 1..4 : (\A j \in 1..(i - 1) : b[p + j - 1] >= 128) /\ b[p + i - 1] < 128}
Digit(b, p, i) == (b[p + i - 1] % 128) * Pow128[i]
MQTTPacket_decodeBuf(b, p) ==
  LET n == IF Stops(b, p) = {} THEN 4 ELSE CHOOSE i \in Stops(b, p) : TRUE
      d(i) == IF i <= n THEN Digit(b, p, i) ELSE 0
  IN  [len |-> IF Stops(b, p) = {} THEN 5 ELSE n, value |-> d(1) + d(2) + d(3) + d(4)]

\* header byte forgotten
MutPacketLen(rem) == rem + (IF rem < 127 THEN 1 ELSE IF rem < 16383 THEN 2
                            ELSE IF rem < 2097150 THEN 3 ELSE 4)
\* The size a serialiser reserves; the bounds are compared with rem + 1
MQTTPacket_len(rem) == rem + 1 + (IF rem + 1 < 128 THEN 1 ELSE IF rem + 1 < 16384 THEN 2
                                  ELSE IF rem + 1 < 2097151 THEN 3 ELSE 4)

-----------------------------------------------------------------------------
(* Packet identifiers of MQTTClient.c: 0 is none of them                      *)

MAX_PACKET_ID == 65535
getNextPacketId(next_packetid) ==
  IF next_packetid = MAX_PACKET_ID THEN 1 ELSE next_packetid + 1

-----------------------------------------------------------------------------
(* Integers and strings.  An MQTTString has a cstring and a lenstring, each   *)
(* NULL or a sequence of bytes; who sizes it looks at cstring first, who      *)
(* writes it at lenstring.                                                    *)

WriteInt(n) == <<(n \div 256) % 256, n % 256>>
ReadInt(b, p) == 256 * b[p] + b[p + 1]
\* readChar returns a char, which is signed
ReadChar(b, p) == IF b[p] < 128 THEN b[p] ELSE b[p] - 256

CString(s) == [cstring |-> s, lenstring |-> NULL]
LenString(s) == [cstring |-> NULL, lenstring |-> s]
NoString == [cstring |-> NULL, lenstring |-> NULL]
\* What can be written: a length of two bytes, and one field set at most
Number == 0..65535
ByteString == {s \in Seq(Byte) : Len(s) \in Number}
MQTTString == {m \in [cstring : ByteString \cup {NULL}, lenstring : ByteString \cup {NULL}] :
                 NULL \in {m.cstring, m.lenstring}}
Flag == 0..1
\* MQTTPacket_willOptions and MQTTPacket_connectData; the will is NULL where there is none
Wills == [qos : 0..2, retained : Flag, topicName : MQTTString, message : MQTTString]
ConnectOptions == [MQTTVersion : {3, 4}, cleansession : Flag, keepAliveInterval : Number,
                   clientID : MQTTString, willFlag : Flag, will : Wills \cup {NULL},
                   username : MQTTString, password : MQTTString]
ASSUME NullAssumption == NULL \notin Seq(Byte)

IsSet(m) == m.cstring # NULL \/ m.lenstring # NULL

\* the bytes of it
Said(m) == IF m.cstring # NULL THEN m.cstring ELSE IF m.lenstring # NULL THEN m.lenstring
           ELSE << >>

MQTTstrlen(m) == IF m.cstring # NULL THEN Len(m.cstring)
                 ELSE IF m.lenstring # NULL THEN Len(m.lenstring) ELSE 0
WriteMQTTString(m) ==
  IF m.lenstring # NULL /\ m.lenstring # << >>
  THEN WriteInt(Len(m.lenstring)) \o m.lenstring
  ELSE IF m.cstring # NULL THEN WriteInt(Len(m.cstring)) \o m.cstring
  ELSE WriteInt(0)

\* The string at index p, for each p; end: the index behind the data
LenStrings(b, end) ==
  [p \in Nat |->
     IF end - p > 1 /\ p + 2 + ReadInt(b, p) <= end
     THEN [rc |-> 1, next |-> p + 2 + ReadInt(b, p),
           string |-> LenString(SubSeq(b, p + 2, p + 1 + ReadInt(b, p)))]
     ELSE [rc |-> 0, next |-> IF end - p > 1 THEN p + 2 ELSE p, string |-> NoString]]
ReadMQTTLenString(b, p, end) == LenStrings(b, end)[p]

-----------------------------------------------------------------------------
(* Writing *)

TooShort == [rc |-> BUFFER_TOO_SHORT, bytes |-> << >>]
\* header, remaining length rem, and the bytes the function then writes
Packet(header, rem, body) ==
  LET bytes == <<header>> \o MQTTPacket_encode(rem) \o body
  IN  [rc |-> Len(bytes), bytes |-> bytes]
\* the same, if `reserved' bytes fit
PacketWithin(buflen, reserved, header, rem, body) ==
  IF reserved > buflen THEN TooShort ELSE Packet(header, rem, body)

\* MQIsdp and MQTT
ProtocolName(version) == IF version = 4 THEN <<77, 81, 84, 84>>
                         ELSE <<77, 81, 73, 115, 100, 112>>

MQTTSerialize_connectLength(o) ==
  (IF o.MQTTVersion = 3 THEN 12 ELSE IF o.MQTTVersion = 4 THEN 10 ELSE 0)
  + MQTTstrlen(o.clientID) + 2
  + (IF o.willFlag = 1
     THEN MQTTstrlen(o.will.topicName) + 2 + MQTTstrlen(o.will.message) + 2 ELSE 0)
  + (IF IsSet(o.username) THEN MQTTstrlen(o.username) + 2 ELSE 0)
  + (IF IsSet(o.password) THEN MQTTstrlen(o.password) + 2 ELSE 0)

ConnectFlags(o) ==
  2 * o.cleansession
  + (IF o.willFlag = 1 THEN 4 + 8 * o.will.qos + 32 * o.will.retained ELSE 0)
  + 64 * Bit(IsSet(o.password)) + 128 * Bit(IsSet(o.username))

MQTTSerialize_connect(buflen, o) ==
  LET rem == MQTTSerialize_connectLength(o)
      name == ProtocolName(o.MQTTVersion)
  IN  PacketWithin(buflen, MQTTPacket_len(rem), HeaderByte(PacketType.CONNECT, 0, 0, 0), rem,
        WriteInt(Len(name)) \o name \o <<IF o.MQTTVersion = 4 THEN 4 ELSE 3, ConnectFlags(o)>>
        \o WriteInt(o.keepAliveInterval) \o WriteMQTTString(o.clientID)
        \o (IF o.willFlag = 1
            THEN WriteMQTTString(o.will.topicName) \o WriteMQTTString(o.will.message) ELSE << >>)
        \o (IF IsSet(o.username) THEN WriteMQTTString(o.username) ELSE << >>)
        \o (IF IsSet(o.password) THEN WriteMQTTString(o.password) ELSE << >>))

\* MQTTSerialize_disconnect and MQTTSerialize_pingreq
MQTTSerialize_zero(buflen, type) ==
  PacketWithin(buflen, 2, HeaderByte(type, 0, 0, 0), 0, << >>)

MQTTSerialize_connack(buflen, connackRc, sessionPresent) ==
  PacketWithin(buflen, 2, HeaderByte(PacketType.CONNACK, 0, 0, 0), 2,
               <<sessionPresent, connackRc>>)

\* MQTTSerialize_puback, _pubrel and _pubcomp are this with the type filled in
MQTTSerialize_ack(buflen, type, dup, id) ==
  PacketWithin(buflen, 4, HeaderByte(type, dup, Bit(type = PacketType.PUBREL), 0), 2,
               WriteInt(id))

SumOfLengths(filters) ==
  LET sum[n \in 0..Len(filters)] == IF n = 0 THEN 0
                                    ELSE sum[n - 1] + 2 + MQTTstrlen(filters[n])
  IN  sum[Len(filters)]
MQTTSerialize_subscribeLength(filters) == 2 + SumOfLengths(filters) + Len(filters)
MQTTSerialize_unsubscribeLength(filters) == 2 + SumOfLengths(filters)

MQTTSerialize_subscribe(buflen, dup, id, filters, qoss) ==
  LET rem == MQTTSerialize_subscribeLength(filters)
  IN  PacketWithin(buflen, MQTTPacket_len(rem), HeaderByte(PacketType.SUBSCRIBE, dup, 1, 0), rem,
        WriteInt(id) \o FlattenSeq([i \in DOMAIN filters |->
                                      WriteMQTTString(filters[i]) \o <<qoss[i]>>]))

MQTTSerialize_unsubscribe(buflen, dup, id, filters) ==
  LET rem == MQTTSerialize_unsubscribeLength(filters)
  IN  PacketWithin(buflen, MQTTPacket_len(rem), HeaderByte(PacketType.UNSUBSCRIBE, dup, 1, 0), rem,
        WriteInt(id) \o FlattenSeq([i \in DOMAIN filters |-> WriteMQTTString(filters[i])]))

MQTTSerialize_suback(buflen, id, granted) ==
  PacketWithin(buflen, 2 + Len(granted), HeaderByte(PacketType.SUBACK, 0, 0, 0),
               2 + Len(granted), WriteInt(id) \o granted)

MQTTSerialize_unsuback(buflen, id) ==
  PacketWithin(buflen, 2, HeaderByte(PacketType.UNSUBACK, 0, 0, 0), 2, WriteInt(id))

MQTTSerialize_publishLength(qos, topic, payload) ==
  2 + MQTTstrlen(topic) + Len(payload) + (IF qos > 0 THEN 2 ELSE 0)

\* the identifier sent with QoS 2 only
MutPublish(buflen, dup, qos, retained, id, topic, payload) ==
  LET rem == MQTTSerialize_publishLength(qos, topic, payload)
  IN  PacketWithin(buflen, MQTTPacket_len(rem),
        HeaderByte(PacketType.PUBLISH, dup, qos, retained), rem,
        WriteMQTTString(topic) \o (IF qos > 1 THEN WriteInt(id) ELSE << >>) \o payload)
MQTTSerialize_publish(buflen, dup, qos, retained, id, topic, payload) ==
  LET rem == MQTTSerialize_publishLength(qos, topic, payload)
  IN  PacketWithin(buflen, MQTTPacket_len(rem),
        HeaderByte(PacketType.PUBLISH, dup, qos, retained), rem,
        WriteMQTTString(topic) \o (IF qos > 0 THEN WriteInt(id) ELSE << >>) \o payload)

-----------------------------------------------------------------------------
(* Reading.  The client's functions find the end of the packet in its         *)
(* remaining length, the server's connect in the length of the buffer.        *)

Failed(rc) == [rc |-> rc]
HasType(b, type) == TypeOf(b[1]) = type
Remaining(b) == MQTTPacket_decodeBuf(b, 2)
Start(b) == 2 + Remaining(b).len
End(b) == Start(b) + Remaining(b).value

MQTTDeserialize_connack(b) ==
  IF ~HasType(b, PacketType.CONNACK) THEN Failed(0)
  ELSE IF Remaining(b).value < 2 THEN Failed(Remaining(b).len)
  ELSE [rc |-> 1, sessionPresent |-> Bits(b[Start(b)], 1, 2), connackRc |-> b[Start(b) + 1]]

\* of any type; a packet without an identifier fails with the number of length bytes
MQTTDeserialize_ack(b) ==
  IF Remaining(b).value < 2 THEN Failed(Remaining(b).len)
  ELSE [rc |-> 1, type |-> TypeOf(b[1]), dup |-> Bits(b[1], 8, 2), id |-> ReadInt(b, Start(b))]

\* an acknowledgement of another type is returned as it is, with its rc
MQTTDeserialize_unsuback(b) ==
  IF Remaining(b).value < 2
  THEN Failed(IF HasType(b, PacketType.UNSUBACK) THEN 1 ELSE Remaining(b).len)
  ELSE [rc |-> 1, id |-> ReadInt(b, Start(b))]

\* stops with -1 at the first code beyond maxcount + 1
MQTTDeserialize_suback(b, maxcount) ==
  IF ~HasType(b, PacketType.SUBACK) THEN Failed(0)
  ELSE IF Remaining(b).value < 2 THEN Failed(Remaining(b).len)
  ELSE IF Remaining(b).value - 2 > maxcount + 1 THEN Failed(-1)
  ELSE [rc |-> 1, id |-> ReadInt(b, Start(b)),
        granted |-> [i \in 1..(Remaining(b).value - 2) |-> ReadChar(b, Start(b) + 1 + i)]]

\* the payload is what is left; less than nothing if the identifier is cut off
MQTTDeserialize_publish(b) ==
  LET topic == ReadMQTTLenString(b, Start(b), End(b))
      qos == Bits(b[1], 2, 4)
      body == topic.next + (IF qos > 0 THEN 2 ELSE 0)
  IN  IF ~HasType(b, PacketType.PUBLISH) THEN Failed(0)
      ELSE IF topic.rc = 0 THEN Failed(Remaining(b).len)
      ELSE [rc |-> 1, dup |-> Bits(b[1], 8, 2), qos |-> qos, retained |-> Bits(b[1], 1, 2),
            id |-> IF qos > 0 THEN ReadInt(b, topic.next) ELSE NULL,
            topic |-> topic.string, payloadlen |-> End(b) - body,
            payload |-> SubSeq(b, body, End(b) - 1)]

\* The list of a SUBSCRIBE (extra = 1: a QoS behind each filter) or an UNSUBSCRIBE, from
\* index p on; << >> with rc 0 if a filter or its QoS is cut off
FiltersFrom(b, first, extra) ==
  LET list[p \in first..End(b)] ==
        LET f == ReadMQTTLenString(b, p, End(b))
        IN  IF p >= End(b) THEN [rc |-> 1, filters |-> << >>, qoss |-> << >>]
            ELSE IF f.rc = 0 \/ (extra = 1 /\ f.next >= End(b))
            THEN [rc |-> 0, filters |-> << >>, qoss |-> << >>]
            ELSE LET rest == list[f.next + extra]
                 IN  [rc |-> rest.rc, filters |-> <<f.string>> \o rest.filters,
                      qoss |-> (IF extra = 1 THEN <<ReadChar(b, f.next)>> ELSE << >>) \o rest.qoss]
  IN  list[first]

\* maxcount is not looked at
MQTTDeserialize_subscribe(b) ==
  LET list == FiltersFrom(b, Start(b) + 2, 1)
  IN  IF ~HasType(b, PacketType.SUBSCRIBE) THEN Failed(-1)
      ELSE IF list.rc = 0 THEN Failed(Remaining(b).len)
      ELSE [rc |-> 1, dup |-> Bits(b[1], 8, 2), id |-> ReadInt(b, Start(b)),
            filters |-> list.filters, qoss |-> list.qoss]

MQTTDeserialize_unsubscribe(b) ==
  LET list == FiltersFrom(b, Start(b) + 2, 0)
  IN  IF ~HasType(b, PacketType.UNSUBSCRIBE) THEN Failed(0)
      ELSE IF list.rc = 0 THEN Failed(Remaining(b).len)
      ELSE [rc |-> 1, dup |-> Bits(b[1], 8, 2), id |-> ReadInt(b, Start(b)),
            filters |-> list.filters]

\* the bytes of a name that is shorter are compared as far as they go
MQTTPacket_checkVersion(protocol, version) ==
  LET name == ProtocolName(version)
  IN  /\ version \in {3, 4}
      /\ \A i \in 1..Len(name) :
           i <= Len(protocol.lenstring) => protocol.lenstring[i] = name[i]

\* A string that is there if its flag is on
Absent(p) == [rc |-> 1, next |-> p, string |-> NULL]
TextIf(on, b, p, end) == IF on THEN ReadMQTTLenString(b, p, end) ELSE Absent(p)
\* A flagged user name or password needs three bytes, so one of length 0 at the end of
\* the packet is refused
SecretIf(on, b, p, end) ==
  IF on /\ end - p < 3 THEN [Absent(p) EXCEPT !.rc = 0] ELSE TextIf(on, b, p, end)

\* A password without a user name is refused
MQTTDeserialize_connect(b, len) ==
  LET end == len + 1
      protocol == ReadMQTTLenString(b, Start(b), end)
      version == b[protocol.next]
      flags == b[protocol.next + 1]
      On(pow) == Bits(flags, pow, 2) = 1
      client == ReadMQTTLenString(b, protocol.next + 4, end)
      topic == TextIf(On(4), b, client.next, end)
      message == TextIf(On(4), b, topic.next, end)
      user == SecretIf(On(128), b, message.next, end)
      pass == SecretIf(On(64), b, user.next, end)
  IN  IF ~HasType(b, PacketType.CONNECT) \/ protocol.rc = 0
         \/ ~MQTTPacket_checkVersion(protocol.string, version)
      THEN Failed(0)
      ELSE IF 0 \in {client.rc, topic.rc, message.rc, user.rc, pass.rc}
              \/ (On(64) /\ ~On(128))
      THEN Failed(0)
      ELSE [rc |-> 1, cleansession |-> Bits(flags, 2, 2),
            keepAliveInterval |-> ReadInt(b, protocol.next + 2),
            clientID |-> client.string, willFlag |-> Bits(flags, 4, 2),
            will |-> IF On(4) THEN [qos |-> Bits(flags, 8, 4), retained |-> Bits(flags, 32, 2),
                                      topicName |-> topic.string, message |-> message.string]
                     ELSE NULL,
            username |-> user.string, password |-> pass.string]

-----------------------------------------------------------------------------
(* Which reader a packet goes to: MQTTFormat_toClientString for what a client  *)
(* receives and MQTTFormat_toServerString for what a server does.  The         *)
(* formatter has room for one entry of a list.                                 *)

Acks == {PacketType.PUBACK, PacketType.PUBREC, PacketType.PUBREL, PacketType.PUBCOMP}
Empty == {PacketType.PINGREQ, PacketType.PINGRESP, PacketType.DISCONNECT}

Shared(b, type) ==
  IF type = PacketType.PUBLISH THEN MQTTDeserialize_publish(b)
  ELSE IF type \in Acks THEN MQTTDeserialize_ack(b)
  ELSE IF type \in Empty THEN [rc |-> 1]
  ELSE Failed(0)

ToClient(b) ==
  LET type == TypeOf(b[1])
  IN  IF type = PacketType.CONNACK THEN MQTTDeserialize_connack(b)
      ELSE IF type = PacketType.SUBACK THEN MQTTDeserialize_suback(b, 1)
      ELSE IF type = PacketType.UNSUBACK THEN MQTTDeserialize_unsuback(b)
      ELSE Shared(b, type)

ToServer(b, len) ==
  LET type == TypeOf(b[1])
  IN  IF type = PacketType.CONNECT THEN MQTTDeserialize_connect(b, len)
      ELSE IF type = PacketType.SUBSCRIBE THEN MQTTDeserialize_subscribe(b)
      ELSE IF type = PacketType.UNSUBSCRIBE THEN MQTTDeserialize_unsubscribe(b)
      ELSE Shared(b, type)
=============================================================================
