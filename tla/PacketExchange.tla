--------------------------- MODULE PacketExchange ---------------------------
(***************************************************************************)
(* A client and a server made of the functions of src/mqtt: one side writes *)
(* packets with MQTTSerialize_*, the other takes them off the transport     *)
(* with MQTTPacket_readnb and reads them with MQTTDeserialize_*, as         *)
(* MQTTFormat.c does for either side.                                       *)
(*                                                                         *)
(* A message is a record of the arguments of its serialiser: its kind, the  *)
(* side it goes to, and the rest.                                           *)
(***************************************************************************)
EXTENDS PacketReader, TopicMatch

CONSTANTS
  Conversations,   \* the sequences of messages one side sends to the other
  Tails            \* bytes that follow them, no packet

-----------------------------------------------------------------------------
(* The messages *)

Sides == {"client", "server"}
Codes == {g \in Seq(Byte) : 2 + Len(g) <= MaxRemLen}
Messages ==
  [kind : {"connect"}, to : {"server"}, options : ConnectOptions]
  \cup [kind : {"connack"}, to : {"client"}, rc : Byte, sessionPresent : Flag]
  \cup [kind : {"publish"}, to : Sides, dup : Flag, qos : 0..2, retained : Flag, id : Number,
        topic : MQTTString, payload : Seq(Byte)]
  \cup [kind : {"ack"}, to : Sides, type : Acks, dup : Flag, id : Number]
  \cup [kind : {"subscribe"}, to : {"server"}, dup : Flag, id : Number,
        filters : Seq(MQTTString), qoss : Seq(0..2)]
  \cup [kind : {"suback"}, to : {"client"}, id : Number, granted : Codes]
  \cup [kind : {"unsubscribe"}, to : {"server"}, dup : Flag, id : Number,
        filters : Seq(MQTTString)]
  \cup [kind : {"unsuback"}, to : {"client"}, id : Number]
  \cup [kind : {"zero"}, to : Sides, type : Empty]

\* The arguments are all there: the will that is announced, and a QoS for each filter
Given(d) ==
  /\ d.kind = "connect" /\ d.options.willFlag = 1 => d.options.will # NULL
  /\ d.kind = "subscribe" => Len(d.qoss) = Len(d.filters)

Serialize(d, buflen) ==
  CASE d.kind = "connect"     -> MQTTSerialize_connect(buflen, d.options)
    [] d.kind = "connack"     -> MQTTSerialize_connack(buflen, d.rc, d.sessionPresent)
    [] d.kind = "publish"     -> MQTTSerialize_publish(buflen, d.dup, d.qos, d.retained, d.id,
                                                       d.topic, d.payload)
    [] d.kind = "ack"         -> MQTTSerialize_ack(buflen, d.type, d.dup, d.id)
    [] d.kind = "subscribe"   -> MQTTSerialize_subscribe(buflen, d.dup, d.id, d.filters, d.qoss)
    [] d.kind = "suback"      -> MQTTSerialize_suback(buflen, d.id, d.granted)
    [] d.kind = "unsubscribe" -> MQTTSerialize_unsubscribe(buflen, d.dup, d.id, d.filters)
    [] d.kind = "unsuback"    -> MQTTSerialize_unsuback(buflen, d.id)
    [] d.kind = "zero"        -> MQTTSerialize_zero(buflen, d.type)

Roomy == MaxRemLen + 5      \* a buffer for the longest packet there is
Fitting == {d \in Messages : Given(d) /\ Serialize(d, Roomy).rc # BUFFER_TOO_SHORT}
Bytes(d) == Serialize(d, Roomy).bytes

\* A packet that begins t does not end within it, or the reader has no room for it
LengthEnds(t, i) == i \in DOMAIN t /\ t[i] < 128 /\ \A j \in 2..(i - 1) : t[j] >= 128
NoPacket(t) ==
  \A i \in 2..5 : LengthEnds(t, i) =>
    LET rem == MQTTPacket_decodeBuf(t, 2).value
    IN  1 + EncodeSize(rem) + rem > BufLen \/ i + rem > Len(t)

ASSUME ConversationsAssumption == \A c \in Conversations : c \in Seq(Fitting)
ASSUME TailsAssumption == \A t \in Tails : t \in Seq(Byte) /\ NoPacket(t)

-----------------------------------------------------------------------------

VARIABLE msgs      \* the conversation

Sent == [k \in DOMAIN msgs |-> Bytes(msgs[k])]

Init == /\ msgs \in Conversations
        /\ \E tail \in Tails : stream = FlattenSeq(Sent) \o tail
        /\ ReaderInit

Next == ReaderNext /\ UNCHANGED msgs
Spec == Init /\ [][Next]_<<vars, msgs>>

-----------------------------------------------------------------------------
(* Properties *)

\* What is in the reader's hands fits the caller's buffer, and what it gives away is one
\* packet of bytes
TypeOK == /\ taken \in 0..Len(stream) /\ state \in 0..2 /\ len \in 0..BufLen
          /\ rem_len \in 0..MaxRemLen /\ multiplier \in {0} \cup {128 * Pow128[i] : i \in 1..4}
          /\ buf \in [1..BufLen -> Byte] /\ rc \in -1..15
          /\ state = 2 => rem_len > 0 /\ len + rem_len <= BufLen
          /\ \A k \in DOMAIN got : got[k] \in Seq(Byte) /\ Len(got[k]) \in 2..BufLen

\* However the transport cuts the bytes up, and whatever it fails at, the caller is given
\* the packets that were sent, one by one, whole and in order (MQTTPacket.c:362-411), and
\* the blocking MQTTPacket_read takes the same packets, up to the very size of the buffer,
\* as readnb puts together from its pieces (MQTTPacket.c:290).
Channel == INSTANCE PacketChannel
BlockingReadAgrees ==
  state = 0 /\ rc > 0 => got[Len(got)] = MQTTPacket_read(stream, (taken - len) + 1)
PacketsAsSent == Channel!Spec /\ [][BlockingReadAgrees']_vars

\* What one side reads is what the other side meant, field by field: lengths, flags,
\* identifiers, strings and lists (the MQTTSerialize_* and MQTTDeserialize_* functions), for
\* every message there is, but for three things that come out as the readers have them.  A
\* CONNECT is refused if its password comes without a user name or is empty, or if its user
\* name is empty and the last thing in it (MQTTConnectServer.c:93-104): what the gateway
\* itself writes, with both empty, is one of these.  A SUBACK of more than two codes is
\* refused (MQTTSubscribeClient.c:123), where one is all there is room for: see
\* CodesFitMaxcount.  A code is a signed char, so 0x80, the failure code, is read as -128.
Heard(m) == LenString(Said(m))
HeardOrNull(m) == IF IsSet(m) THEN Heard(m) ELSE NULL
AllHeard(list) == [i \in DOMAIN list |-> Heard(list[i])]
Meaning(d) ==
  CASE d.kind = "connect" ->
         [rc |-> 1, cleansession |-> d.options.cleansession,
          keepAliveInterval |-> d.options.keepAliveInterval,
          clientID |-> Heard(d.options.clientID), willFlag |-> d.options.willFlag,
          will |-> IF d.options.willFlag = 1
                   THEN [d.options.will EXCEPT !.topicName = Heard(@), !.message = Heard(@)]
                   ELSE NULL,
          username |-> HeardOrNull(d.options.username),
          password |-> HeardOrNull(d.options.password)]
    [] d.kind = "connack"  -> [rc |-> 1, sessionPresent |-> d.sessionPresent, connackRc |-> d.rc]
    [] d.kind = "publish" ->
         [rc |-> 1, dup |-> d.dup, qos |-> d.qos, retained |-> d.retained,
          id |-> IF d.qos > 0 THEN d.id ELSE NULL, topic |-> Heard(d.topic),
          payloadlen |-> Len(d.payload), payload |-> d.payload]
    [] d.kind = "ack"         -> [rc |-> 1, type |-> d.type, dup |-> d.dup, id |-> d.id]
    [] d.kind = "subscribe"   -> [rc |-> 1, dup |-> d.dup, id |-> d.id,
                                  filters |-> AllHeard(d.filters), qoss |-> d.qoss]
    [] d.kind = "suback"      -> [rc |-> 1, id |-> d.id, granted |-> [i \in DOMAIN d.granted |-> ReadChar(d.granted, i)]]
    [] d.kind = "unsubscribe" -> [rc |-> 1, dup |-> d.dup, id |-> d.id,
                                  filters |-> AllHeard(d.filters)]
    [] d.kind = "unsuback"    -> [rc |-> 1, id |-> d.id]
    [] d.kind = "zero"        -> [rc |-> 1]
SecretsRefused(o) ==
  \/ IsSet(o.password) /\ (~IsSet(o.username) \/ Said(o.password) = << >>)
  \/ IsSet(o.username) /\ ~IsSet(o.password) /\ Said(o.username) = << >>
Outcome(d) ==
  IF d.kind = "connect" /\ SecretsRefused(d.options) THEN Failed(0)
  ELSE IF d.kind = "suback" /\ Len(d.granted) > 2 THEN Failed(-1)
  ELSE Meaning(d)
Understood(d, b) == IF d.to = "server" THEN ToServer(b, Len(b)) ELSE ToClient(b)
Newest == Len(got)
UnderstoodAsMeant ==
  state = 0 /\ Newest \in DOMAIN msgs =>
    Understood(msgs[Newest], got[Newest]) = Outcome(msgs[Newest])

\* A SUBACK that is read has no more codes than the caller gave room for: maxcount is "the
\* maximum number of members allowed in the grantedQoSs array" (MQTTSubscribeClient.c:93), and
\* MQTTFormat.c:164 gives room for one.  The code breaks this by one code
\* (MQTTSubscribeClient.c:123).
CodesFitMaxcount ==
  state = 0 /\ Newest \in DOMAIN msgs /\ msgs[Newest].kind = "suback" =>
    LET read == Understood(msgs[Newest], got[Newest])
    IN  read.rc = 1 => Len(read.granted) <= 1

\* The size a client function compares its buffer with is never smaller than what it then
\* writes, and larger by at most one byte (MQTTPacket.c:84: the bounds are those of the
\* size with the header byte), so a buffer is neither overrun nor refused without need.
Reserving == {"connect", "publish", "ack", "subscribe", "unsubscribe", "zero"}
ReservesEnough ==
  taken = 0 =>
    \A k \in DOMAIN msgs : msgs[k].kind \in Reserving =>
      LET size == Len(Bytes(msgs[k]))
      IN  \A n \in {0, size - 1, size, size + 1} :
            /\ Serialize(msgs[k], n).rc # BUFFER_TOO_SHORT => n >= size
            /\ n > size => Serialize(msgs[k], n).rc = size

\* A message's topic reaches the handler of a filter exactly when it matches level by
\* level, whatever the two strings are (MQTTClient.c:220-258).
MatchIsByLevel ==
  taken = 0 =>
    \A s, p \in DOMAIN msgs : msgs[s].kind = "subscribe" /\ msgs[p].kind = "publish" =>
      \A i \in DOMAIN msgs[s].filters :
        LET filter == Said(msgs[s].filters[i])
        IN  WellFormed(filter) =>
              (GoesTo(filter, Said(msgs[p].topic))
                 <=> MatchesByLevel(filter, Said(msgs[p].topic)))
=============================================================================
