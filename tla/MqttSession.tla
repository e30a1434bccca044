---------------------------- MODULE MqttSession ----------------------------
(***************************************************************************)
(* The MQTT session of the gateway: two threads over one MQTTClient.        *)
(*                                                                         *)
(*   - the application thread (main, mqttmakeRequest): MQTTConnect and      *)
(*     MQTTSubscribe, each of which writes its packet and then polls        *)
(*     client->ack in waitfor until the I/O thread has handled the answer   *)
(*     or the command timer has expired;                                    *)
(*   - the I/O thread (runio, loopRunForEver, mqttioRecv,                   *)
(*     mqttdoNextPacket): reads a packet into packetBuf, handles it, stores *)
(*     its type in client->ack, sleeps 200 ms, and runs keepalive;          *)
(*   - the broker and the TCP connection (external).                        *)
(*                                                                         *)
(* No lock protects the MQTTClient, packetBuf or sendBuf (MQTT_TASK is not  *)
(* defined), so a step ends wherever the other thread can see or change     *)
(* what the code uses next.  Packets are not cut into bytes here, which is  *)
(* the subject of PacketFraming, but a read of the socket may yield several *)
(* of them, or the start of one.                                            *)
(*                                                                         *)
(* Some properties hold whatever a read yields; those that end with the     *)
(* first read that has yielded several packets say so.                      *)
(***************************************************************************)
EXTENDS Integers, Sequences, FiniteSets

CONSTANTS
  Calls,         \* what the application calls, in order: 0 is MQTTConnect,
                 \* t > 0 is MQTTSubscribe(topic t); mqttmakeRequest is <<0, 1>>
  Topics,        \* bound: the topic filters are 1..Topics
  MaxHandlers,   \* MAX_MESSAGE_HANDLERS, 5 in MQTTClient.h:54
  MsgTopic,      \* bound: the messages the broker publishes are the elements
  MsgQoS,        \* of this sequence; topic and QoS of each
  ConnackCodes,  \* the CONNACK return codes the broker may answer with
  KeepAlive,     \* options->keepAliveInterval # 0
  PromptApp,     \* TRUE: the polling thread sees an ack within the 200 ms sleep
  MaxAgain       \* bound: how often the first of several packets read together is handled
                 \* again; 0: packets are never read together

ASSUME CallsAssumption ==
  Topics \in Nat \ {0} /\ Calls \in Seq(0..Topics)
ASSUME MaxHandlersAssumption == MaxHandlers \in Nat \ {0}
ASSUME MsgAssumption ==
  /\ MsgTopic \in Seq(1..Topics)
  /\ MsgQoS \in Seq(0..2)
  /\ Len(MsgQoS) = Len(MsgTopic)
ASSUME ConnackAssumption == ConnackCodes \subseteq 0..5
ASSUME FlagAssumption == KeepAlive \in BOOLEAN /\ PromptApp \in BOOLEAN
ASSUME MaxAgainAssumption == MaxAgain \in Nat

VARIABLES
  \* application thread
  appPc,           \* where it is
  results,         \* what the calls made so far have returned
  appSlot,         \* i of MQTTSetMessageHandler
  \* struct MQTTClient
  isconnected, runState, ack, pingOutstanding, messageHandlers,
  \* ClientStream_t and stream_t
  packetBuf,       \* the packet last read
  sendBuf,         \* the packet last serialised
  needread,        \* stream->needread # 0: inbuf holds the start of a packet
  behind,          \* how often the rest of inbuf will still be taken for a packet
  \* I/O thread
  ioPc,
  \* broker and connection
  toBroker, toClient,
  brokerUp,        \* the connection is open at the broker's end
  accepted,        \* the broker has answered a CONNECT with code 0
  bSub,            \* topic -> state of the subscription at the broker
  published,       \* messages published
  inflight,        \* messages of QoS 1 and 2 published and not acknowledged
  \* history, read by properties only
  handled,         \* PUBLISH packets handled by mqttdoNextPacket
  delivered,       \* messages passed to messageArrived, in order
  pingOverdue,     \* a keepalive interval has passed since the last PINGREQ
  faults           \* what has gone wrong: "close" MQTTCloseSession has run, "send"
                   \* sendPacket has failed, "joined" a read has yielded several
                   \* packets, "alarm" keepalive has returned FAILURE within the
                   \* keepalive interval

appVars    == <<appPc, results, appSlot>>
clientVars == <<isconnected, runState, ack, pingOutstanding, messageHandlers>>
brokerVars == <<brokerUp, accepted, bSub, published, inflight>>
history    == <<handled, delivered, pingOverdue, faults>>
inVars     == <<needread, behind>>
vars == <<appVars, clientVars, packetBuf, sendBuf, inVars, ioPc, toBroker, toClient,
          brokerVars, history>>

-----------------------------------------------------------------------------
(* Values *)

SUCCESS == 0
FAILURE == -1

Messages == 1..Len(MsgTopic)

PacketTypes == {"CONNECT", "CONNACK", "SUBSCRIBE", "SUBACK", "PINGREQ", "PINGRESP",
                "PUBLISH", "PUBACK", "PUBREC", "PUBREL", "PUBCOMP",
                "none",      \* the zeroes of memset
                "garbage"}   \* bytes that are no packet

\* arg is the return code of a CONNACK, the topic of a SUBSCRIBE, the topic
\* of a SUBACK (negated: refused), the message of a PUBLISH and its handshake
Pkt(type, arg) == [type |-> type, arg |-> arg]
Args == (0 - Topics)..(Len(MsgTopic) + Topics + 5)
Packets == [type : PacketTypes, arg : Args]
NoPacket == Pkt("none", 0)
Garbage == Pkt("garbage", 0)

\* What the serialisers leave in sendBuf
ConnectPacket == Pkt("CONNECT", 0)
SubscribePacket(t) == Pkt("SUBSCRIBE", t)
PingreqPacket == Pkt("PINGREQ", 0)
AckPacket(type, m) == Pkt(type, m)

NULL == 0                          \* no topic filter
Slots == 1..MaxHandlers
EmptySlot == [topicFilter |-> NULL, fp |-> FALSE]

AppPcs == {"call", "connectSend", "connackWait", "connackRead", "subscribeSend",
           "subackWait", "subackRead", "setFilter", "setHandler", "closeSession",
           "killed"}
IoPcs == {"select", "read", "handle", "ackSend", "sleep", "keepalive", "pingSend",
          "next", "lost", "disconnect", "exited", "killed"}

AppIdle == appPc = "call" /\ Len(results) = Len(Calls)   \* main's sleep loop
NextCall == Calls[Len(results) + 1]
CurrentTopic == NextCall                                 \* while a call runs

-----------------------------------------------------------------------------
Init ==
  /\ appPc = "call" /\ results = << >> /\ appSlot = 0
  /\ isconnected = FALSE /\ runState = "INVALID" /\ ack = "none"
  /\ pingOutstanding = FALSE
  /\ messageHandlers = [i \in Slots |-> EmptySlot]
  /\ packetBuf = NoPacket /\ sendBuf = NoPacket
  /\ needread = FALSE /\ behind = 0
  /\ ioPc = "select"
  /\ toBroker = << >> /\ toClient = << >>
  /\ brokerUp = TRUE /\ accepted = FALSE
  /\ bSub = [t \in 1..Topics |-> "none"] /\ published = 0 /\ inflight = {}
  /\ handled = 0 /\ delivered = << >>
  /\ pingOverdue = FALSE /\ faults = {}

-----------------------------------------------------------------------------
(* sendPacket, at the granularity AtomicSend justifies.  What goes out is   *)
(* what sendBuf holds at the time of the write; if the other thread has     *)
(* serialised over it, that is no packet of the length the caller computed. *)

\* The call returns SUCCESS: the packet is with the kernel; once the broker has
\* closed, the kernel may still take it, and drops it
SendSucceeds(own) ==
  \/ /\ brokerUp
     /\ toBroker' = Append(toBroker, IF sendBuf = own THEN own ELSE Garbage)
  \/ /\ ~brokerUp /\ ioPc # "exited"      \* after that the socket is closed
     /\ UNCHANGED toBroker

\* The call returns FAILURE: expired timer, full socket or dead connection, with
\* nothing or something that is not the packet written
SendFails ==
  \/ UNCHANGED toBroker
  \/ brokerUp /\ toBroker' = Append(toBroker, Garbage)

\* A write after the broker has reset the connection raises SIGPIPE, which
\* nothing handles: the process ends
Killed(ready) ==
  /\ ready /\ ~brokerUp
  /\ appPc' = "killed" /\ ioPc' = "killed"
  /\ UNCHANGED <<results, appSlot, clientVars, packetBuf, sendBuf, inVars, toBroker,
                 toClient, brokerVars, history>>

NoFilters == [i \in Slots |-> [messageHandlers[i] EXCEPT !.topicFilter = NULL]]

MQTTCleanSession == messageHandlers' = NoFilters

\* cleansession is 1 (mqttmakeRequest); runState is left as it is
MutStaysConnected == /\ pingOutstanding' = FALSE /\ UNCHANGED isconnected
                     /\ MQTTCleanSession
MQTTCloseSession == /\ pingOutstanding' = FALSE
                    /\ isconnected' = FALSE
                    /\ MQTTCleanSession

-----------------------------------------------------------------------------
(* The application thread.  The operands of UNCHANGED that every one of its *)
(* steps leaves alone:                                                      *)

AppLeaves == UNCHANGED <<packetBuf, inVars, ioPc, toClient, brokerVars, handled,
                         delivered, pingOverdue>>

Goto(pc) == appPc' = pc /\ UNCHANGED results
Return(rc) == appPc' = "call" /\ results' = Append(results, rc)

\* MQTTConnectWithResults up to the write: no second CONNECT while connected
ConnectBegin ==
  /\ appPc = "call" /\ ~AppIdle /\ NextCall = 0
  /\ \/ ~isconnected /\ sendBuf' = ConnectPacket /\ Goto("connectSend")
     \/ isconnected /\ Return(FAILURE) /\ UNCHANGED sendBuf
  /\ AppLeaves /\ UNCHANGED <<appSlot, clientVars, toBroker, faults>>

ConnectSend ==
  /\ appPc = "connectSend"
  /\ \/ SendSucceeds(ConnectPacket) /\ Goto("connackWait") /\ UNCHANGED faults
     \/ SendFails /\ Return(FAILURE) /\ faults' = faults \cup {"send"}
  /\ AppLeaves /\ UNCHANGED <<appSlot, clientVars, sendBuf>>

\* What waitfor polls: the type of the packet handled last, whatever it answered
MutAnsweredByAnything(type) == ack # "none"
Answered(type) == ack = type

\* waitfor(c, CONNACK, timer): the answer, or the command timer
MutConnackWaitForever ==
  /\ appPc = "connackWait" /\ Answered("CONNACK") /\ Goto("connackRead")
  /\ AppLeaves /\ UNCHANGED <<appSlot, clientVars, sendBuf, toBroker, faults>>
ConnackWait ==
  /\ appPc = "connackWait"
  /\ \/ Answered("CONNACK") /\ Goto("connackRead") /\ UNCHANGED runState
     \/ runState' = "DISCONNECTED" /\ Return(FAILURE)
  /\ AppLeaves
  /\ UNCHANGED <<appSlot, isconnected, ack, pingOutstanding, messageHandlers, sendBuf,
                 toBroker, faults>>

\* MQTTDeserialize_connack reads packetBuf, which the I/O thread may be writing;
\* the return code of the broker is the return code of the call
MutCodeIgnored == IF packetBuf.type = "CONNACK" THEN SUCCESS ELSE FAILURE
ConnackCode == IF packetBuf.type = "CONNACK" THEN packetBuf.arg ELSE FAILURE

ConnackRead ==
  /\ appPc = "connackRead"
  /\ Return(ConnackCode)
  /\ isconnected' = (isconnected \/ ConnackCode = SUCCESS)
  /\ pingOutstanding' = (pingOutstanding /\ ConnackCode # SUCCESS)
  /\ AppLeaves
  /\ UNCHANGED <<appSlot, runState, ack, messageHandlers, sendBuf, toBroker, faults>>

\* MQTTSubscribeWithResults up to the write
SubscribeBegin ==
  /\ appPc = "call" /\ ~AppIdle /\ NextCall # 0
  /\ \/ isconnected /\ sendBuf' = SubscribePacket(CurrentTopic) /\ Goto("subscribeSend")
     \/ ~isconnected /\ Goto("closeSession") /\ UNCHANGED sendBuf
  /\ AppLeaves /\ UNCHANGED <<appSlot, clientVars, toBroker, faults>>

SubscribeSend ==
  /\ appPc = "subscribeSend"
  /\ \/ /\ SendSucceeds(SubscribePacket(CurrentTopic)) /\ Goto("subackWait")
        /\ UNCHANGED faults
     \/ SendFails /\ Goto("closeSession") /\ faults' = faults \cup {"send"}
  /\ AppLeaves /\ UNCHANGED <<appSlot, clientVars, sendBuf>>

\* waitfor(c, SUBACK, timer)
SubackWait ==
  /\ appPc = "subackWait"
  /\ \/ Answered("SUBACK") /\ runState' = "CONNECTED" /\ Goto("subackRead")
     \/ runState' = "DISCONNECTED" /\ Goto("closeSession")
  /\ AppLeaves
  /\ UNCHANGED <<appSlot, isconnected, ack, pingOutstanding, messageHandlers, sendBuf,
                 toBroker, faults>>

\* The slot MQTTSetMessageHandler picks for filter t: the one that holds it,
\* otherwise the first empty one; 0 when the table is full
SlotsWith(t) == {i \in Slots : messageHandlers[i].topicFilter = t}
First(S) == IF S = {} THEN 0 ELSE CHOOSE i \in S : \A j \in S : i <= j
MutNoSearchForEmpty(t) == IF SlotsWith(t) # {} THEN First(SlotsWith(t)) ELSE MaxHandlers + 1
MutAlwaysNewSlot(t) == First(SlotsWith(NULL))
SlotFor(t) == First(IF SlotsWith(t) # {} THEN SlotsWith(t) ELSE SlotsWith(NULL))

\* MQTTDeserialize_suback on packetBuf.  A refusal (0x80) reads as -128, so the
\* handler is installed for it too; when packetBuf holds no SUBACK, rc is still
\* the SUCCESS of sendPacket
SubackRead ==
  /\ appPc = "subackRead"
  /\ \/ /\ packetBuf.type = "SUBACK"
        /\ appSlot' = SlotFor(CurrentTopic)
        /\ Goto(IF appSlot' = 0 THEN "closeSession" ELSE "setFilter")
     \/ packetBuf.type # "SUBACK" /\ Return(SUCCESS) /\ UNCHANGED appSlot
  /\ AppLeaves /\ UNCHANGED <<clientVars, sendBuf, toBroker, faults>>

\* messageHandlers[i].topicFilter = topicFilter
SetFilter ==
  /\ appPc = "setFilter" /\ Goto("setHandler")
  /\ messageHandlers' = [messageHandlers EXCEPT ![appSlot].topicFilter = CurrentTopic]
  /\ AppLeaves
  /\ UNCHANGED <<appSlot, isconnected, runState, ack, pingOutstanding, sendBuf, toBroker,
                 faults>>

\* messageHandlers[i].fp = messageHandler
SetHandler ==
  /\ appPc = "setHandler" /\ Return(SUCCESS)
  /\ messageHandlers' = [messageHandlers EXCEPT ![appSlot].fp = TRUE]
  /\ AppLeaves
  /\ UNCHANGED <<appSlot, isconnected, runState, ack, pingOutstanding, sendBuf, toBroker,
                 faults>>

\* exit of MQTTSubscribeWithResults with FAILURE
CloseSession ==
  /\ appPc = "closeSession" /\ Return(FAILURE)
  /\ MQTTCloseSession /\ faults' = faults \cup {"close"}
  /\ AppLeaves /\ UNCHANGED <<appSlot, runState, ack, sendBuf, toBroker>>

AppNext == \/ ConnectBegin \/ ConnectSend \/ ConnackWait \/ ConnackRead
           \/ SubscribeBegin \/ SubscribeSend \/ SubackWait \/ SubackRead
           \/ SetFilter \/ SetHandler \/ CloseSession
           \/ Killed(appPc \in {"connectSend", "subscribeSend"})

-----------------------------------------------------------------------------
(* The I/O thread *)

ReaderLeaves == UNCHANGED <<appVars, runState, brokerVars>>
IoLeaves == ReaderLeaves /\ UNCHANGED inVars

\* select reports the socket and srecv appends to inbuf what is there: the next n
\* packets, or, with needread, what is missing of one.  readOnePacket is to look at the
\* first of them only, so those behind it are lost; if inbuf still holds a packet that
\* has been handled, that is the first.  readOnePacket starts with memset(packetBuf)
ReadBegin ==
  /\ ioPc = "select"
  /\ \E n \in 1..Len(toClient) :
        /\ behind > 0 => n > 1
        /\ \/ n = 1 /\ behind' = 0 /\ UNCHANGED faults
           \/ /\ n > 1 /\ ~needread /\ behind' \in 1..MaxAgain
              /\ faults' = faults \cup {"joined"}
        /\ toClient' = <<Head(toClient)>> \o SubSeq(toClient, n + 1, Len(toClient))
  /\ packetBuf' = NoPacket /\ ioPc' = "read"
  /\ ReaderLeaves
  /\ UNCHANGED <<clientVars, sendBuf, needread, toBroker, handled, delivered, pingOverdue>>

\* NEEDREAD: only the start of the packet has come.  srecv is to read exactly what is
\* missing, so once is enough; mqttdoNextPacket resets ack
NeedMore ==
  /\ ioPc = "read" /\ ~needread /\ behind = 0
  /\ needread' = TRUE /\ ack' = "none" /\ ioPc' = "select"
  /\ ReaderLeaves
  /\ UNCHANGED <<isconnected, pingOutstanding, messageHandlers, packetBuf, sendBuf, behind,
                 toBroker, toClient, history>>

\* srecv reads more than is missing, and what it reads with the end of a packet is dropped
MutReadsBeyond ==
  IF behind > 0 THEN toClient
  ELSE IF needread /\ Len(toClient) > 1 THEN Tail(Tail(toClient)) ELSE Tail(toClient)
\* What is still to be read when readOnePacket is done.  It does not move the rest of
\* inbuf to the start but copies the start onto itself: where there is a rest, the
\* packet that has been read comes first again
Unread == IF behind > 0 THEN toClient ELSE Tail(toClient)

\* ... and ends with memcpy(packetBuf)
ReadEnd ==
  /\ ioPc = "read"
  /\ packetBuf' = Head(toClient) /\ toClient' = Unread /\ needread' = FALSE
  /\ ioPc' = "handle"
  /\ ReaderLeaves /\ UNCHANGED <<clientVars, sendBuf, behind, toBroker, history>>

\* The end of mqttdoNextPacket: with something left in inbuf it calls itself
Onward == IF behind > 0 THEN "next" ELSE "select"

\* What is left is long enough for the packet at the start of inbuf
Again ==
  /\ ioPc = "next" /\ ioPc' = "read"
  /\ behind' = behind - 1 /\ packetBuf' = NoPacket
  /\ ReaderLeaves /\ UNCHANGED <<clientVars, sendBuf, needread, toBroker, toClient, history>>

\* It is not: NEEDREAD, and what comes next from the socket, the start of some other
\* packet, is taken for the end of this one.  The reader is out of step with the stream
\* for good, and nothing it does from here on is modelled
Lose ==
  /\ behind > 0
  /\ \/ ioPc = "next"
     \/ ioPc = "select" /\ Len(toClient) > 1
  /\ ioPc' = "lost" /\ ack' = "none" /\ packetBuf' = NoPacket
  /\ IoLeaves
  /\ UNCHANGED <<isconnected, pingOutstanding, messageHandlers, sendBuf, toBroker, toClient,
                 history>>

\* mqttdoNextPacket, CONNACK and SUBACK: only the type is passed on
HandleAnswer ==
  /\ ioPc = "handle" /\ packetBuf.type \in {"CONNACK", "SUBACK"}
  /\ ack' = packetBuf.type /\ ioPc' = "sleep"
  /\ IoLeaves
  /\ UNCHANGED <<isconnected, pingOutstanding, messageHandlers, packetBuf, sendBuf,
                 toBroker, toClient, history>>

\* MQTTDeserialize_publish, as far as a model message needs it
MessageOf(p) == p.arg

\* MQTTSerialize_ack: what is answered to a PUBLISH of QoS 1 or 2, or to a PUBREL
AckTo(p) == AckPacket(IF p.type = "PUBREL" THEN "PUBCOMP"
                      ELSE IF MsgQoS[p.arg] = 1 THEN "PUBACK" ELSE "PUBREC", p.arg)

\* deliverMessage: every slot with the topic and a handler gets the message
Deliver(m) ==
  LET matching == {i \in Slots : /\ messageHandlers[i].topicFilter = MsgTopic[m]
                                 /\ messageHandlers[i].fp}
  IN  delivered' = delivered \o [i \in 1..Cardinality(matching) |-> m]

\* mqttdoNextPacket, PUBLISH
HandlePublish ==
  /\ ioPc = "handle" /\ packetBuf.type = "PUBLISH"
  /\ LET m == MessageOf(packetBuf)
     IN  /\ Deliver(m) /\ handled' = handled + 1
         /\ \/ /\ MsgQoS[m] = 0
               /\ ack' = "PUBLISH" /\ ioPc' = "sleep" /\ UNCHANGED sendBuf
            \/ /\ MsgQoS[m] # 0
               /\ sendBuf' = AckTo(packetBuf)
               /\ ioPc' = "ackSend" /\ UNCHANGED ack
  /\ IoLeaves
  /\ UNCHANGED <<isconnected, pingOutstanding, messageHandlers, packetBuf, toBroker,
                 toClient, pingOverdue, faults>>

\* mqttdoNextPacket, PUBREL
MutPubrelUnanswered ==
  /\ ioPc = "handle" /\ packetBuf.type = "PUBREL"
  /\ ack' = "PUBREL" /\ ioPc' = "sleep"
  /\ IoLeaves
  /\ UNCHANGED <<isconnected, pingOutstanding, messageHandlers, packetBuf, sendBuf,
                 toBroker, toClient, history>>
HandlePubrel ==
  /\ ioPc = "handle" /\ packetBuf.type = "PUBREL"
  /\ sendBuf' = AckTo(packetBuf) /\ ioPc' = "ackSend"
  /\ IoLeaves /\ UNCHANGED <<clientVars, packetBuf, toBroker, toClient, history>>

\* mqttdoNextPacket, PINGRESP
MutPingrespReturns ==
  /\ ioPc = "handle" /\ packetBuf.type = "PINGRESP"
  /\ pingOutstanding' = FALSE /\ ioPc' = Onward
  /\ IoLeaves
  /\ UNCHANGED <<isconnected, ack, messageHandlers, packetBuf, sendBuf, toBroker,
                 toClient, history>>
HandlePingresp ==
  /\ ioPc = "handle" /\ packetBuf.type = "PINGRESP"
  /\ pingOutstanding' = FALSE /\ ack' = "PINGRESP" /\ ioPc' = "sleep"
  /\ IoLeaves
  /\ UNCHANGED <<isconnected, messageHandlers, packetBuf, sendBuf, toBroker, toClient,
                 history>>

\* sendPacket of the acknowledgement, and exit: a FAILURE closes the session if it is connected
AckSend ==
  /\ ioPc = "ackSend"
  /\ \/ /\ SendSucceeds(AckTo(packetBuf))
        /\ ack' = packetBuf.type /\ ioPc' = "sleep"
        /\ UNCHANGED <<isconnected, pingOutstanding, messageHandlers, faults>>
     \/ /\ SendFails /\ ack' = "none" /\ ioPc' = "select"
        /\ \/ isconnected /\ MQTTCloseSession /\ faults' = faults \cup {"send", "close"}
           \/ /\ ~isconnected /\ faults' = faults \cup {"send"}
              /\ UNCHANGED <<isconnected, pingOutstanding, messageHandlers>>
  /\ IoLeaves /\ UNCHANGED <<packetBuf, sendBuf, toClient, handled, delivered, pingOverdue>>

\* The application thread has an answer to act on
AckNoticed == \/ appPc = "connackWait" /\ Answered("CONNACK")
              \/ appPc = "subackWait" /\ Answered("SUBACK")
              \/ appPc \in {"connackRead", "subackRead"}

\* runState decides whether keepalive is called, keepAliveInterval whether it acts
MutKeepaliveAlways == KeepAlive
KeepaliveDue == runState = "CONNECTED" /\ KeepAlive

\* usleep(200 ms) is over
Wake ==
  /\ ioPc = "sleep" /\ (PromptApp => ~AckNoticed)
  /\ ioPc' = IF KeepaliveDue THEN "keepalive" ELSE Onward
  /\ IoLeaves /\ UNCHANGED <<clientVars, packetBuf, sendBuf, toBroker, toClient, history>>

\* keepalive without the test of ping_outstanding
MutKeepalivePings ==
  /\ ioPc = "keepalive" /\ sendBuf' = PingreqPacket /\ ioPc' = "pingSend"
  /\ IoLeaves /\ UNCHANGED <<clientVars, packetBuf, toBroker, toClient, history>>

\* keepalive: last_sent is never set, so its timer is always expired; its FAILURE
\* changes nothing in mqttdoNextPacket or mqttioRecv
KeepaliveCheck ==
  /\ ioPc = "keepalive"
  /\ \/ /\ pingOutstanding /\ ioPc' = Onward /\ UNCHANGED sendBuf
        /\ faults' = faults \cup (IF pingOverdue THEN {} ELSE {"alarm"})
     \/ /\ ~pingOutstanding /\ sendBuf' = PingreqPacket /\ ioPc' = "pingSend"
        /\ UNCHANGED faults
  /\ IoLeaves
  /\ UNCHANGED <<clientVars, packetBuf, toBroker, toClient, handled, delivered, pingOverdue>>

PingSend ==
  /\ ioPc = "pingSend" /\ ioPc' = Onward
  /\ \/ /\ SendSucceeds(PingreqPacket)
        /\ pingOutstanding' = TRUE /\ pingOverdue' = FALSE /\ UNCHANGED faults
     \/ /\ SendFails /\ faults' = faults \cup {"send"}
        /\ UNCHANGED <<pingOutstanding, pingOverdue>>
  /\ IoLeaves
  /\ UNCHANGED <<isconnected, ack, messageHandlers, packetBuf, sendBuf, toClient, handled,
                 delivered>>

\* Nothing more comes from the socket; inbuf may hold a packet that has been handled
Drained == toClient = << >> \/ (behind > 0 /\ Len(toClient) = 1)

\* the end noticed only by a connected session
MutEofUnnoticed ==
  /\ ioPc = "select" /\ Drained /\ ~brokerUp /\ isconnected
  /\ ioPc' = "disconnect" /\ ack' = "none" /\ MQTTCloseSession
  /\ faults' = faults \cup {"close"}
  /\ IoLeaves
  /\ UNCHANGED <<packetBuf, sendBuf, toBroker, toClient, handled, delivered, pingOverdue>>

\* read returns 0 and srecv empties inbuf: mqttdoNextPacket with inSize = 0 drops the
\* filters, ends the loop (istcpconnected = 0) and closes the session if it is connected
Eof ==
  /\ ioPc = "select" /\ Drained /\ ~brokerUp
  /\ ioPc' = "disconnect" /\ ack' = "none" /\ behind' = 0
  /\ \/ isconnected /\ MQTTCloseSession /\ faults' = faults \cup {"close"}
     \/ ~isconnected /\ MQTTCleanSession /\ UNCHANGED <<isconnected, pingOutstanding, faults>>
  /\ ReaderLeaves
  /\ UNCHANGED <<packetBuf, sendBuf, needread, toBroker, toClient, handled, delivered,
                 pingOverdue>>

\* clientDisconnect: close(fd), free the stream
Disconnect ==
  /\ ioPc = "disconnect" /\ ioPc' = "exited"
  /\ IoLeaves /\ UNCHANGED <<clientVars, packetBuf, sendBuf, toBroker, toClient, history>>

IoNext == \/ ReadBegin \/ NeedMore \/ ReadEnd \/ Again \/ Lose \/ HandleAnswer
          \/ HandlePublish \/ HandlePubrel \/ HandlePingresp \/ AckSend
          \/ Wake \/ KeepaliveCheck \/ PingSend \/ Eof \/ Disconnect
          \/ Killed(ioPc \in {"ackSend", "pingSend"})

-----------------------------------------------------------------------------
(* The broker, the connection and the clock (external) *)

BrokerLeaves == UNCHANGED <<appVars, clientVars, packetBuf, sendBuf, inVars, ioPc, history>>

Receives(types) == brokerUp /\ toBroker # << >> /\ Head(toBroker).type \in types
ToClient(p) == toClient' = Append(toClient, p)

\* The first CONNECT is answered; a broker that refuses closes the connection
BrokerConnect ==
  /\ Receives({"CONNECT"}) /\ ~accepted
  /\ \E code \in ConnackCodes :
        /\ ToClient(Pkt("CONNACK", code))
        /\ accepted' = (code = 0) /\ brokerUp' = (code = 0)
  /\ toBroker' = Tail(toBroker)
  /\ BrokerLeaves /\ UNCHANGED <<bSub, published, inflight>>

BrokerSubscribe ==
  /\ Receives({"SUBSCRIBE"}) /\ accepted
  /\ LET t == Head(toBroker).arg
     IN  \/ bSub' = [bSub EXCEPT ![t] = "granting"] /\ UNCHANGED toClient
         \/ bSub' = [bSub EXCEPT ![t] = "refused"] /\ ToClient(Pkt("SUBACK", 0 - t))
  /\ toBroker' = Tail(toBroker)
  /\ BrokerLeaves /\ UNCHANGED <<brokerUp, accepted, published, inflight>>

\* A broker may send messages of a subscription before its SUBACK
BrokerSuback ==
  /\ brokerUp
  /\ \E t \in 1..Topics :
        /\ bSub[t] = "granting"
        /\ bSub' = [bSub EXCEPT ![t] = "granted"] /\ ToClient(Pkt("SUBACK", t))
  /\ BrokerLeaves /\ UNCHANGED <<toBroker, brokerUp, accepted, published, inflight>>

BrokerPing ==
  /\ Receives({"PINGREQ"}) /\ accepted
  /\ ToClient(Pkt("PINGRESP", 0)) /\ toBroker' = Tail(toBroker)
  /\ BrokerLeaves /\ UNCHANGED brokerVars

BrokerPublish ==
  /\ brokerUp /\ published < Len(MsgTopic)
  /\ LET m == published + 1
     IN  /\ bSub[MsgTopic[m]] \in {"granting", "granted"}
         /\ ToClient(Pkt("PUBLISH", m)) /\ published' = m
         /\ inflight' = IF MsgQoS[m] = 0 THEN inflight ELSE inflight \cup {m}
  /\ BrokerLeaves /\ UNCHANGED <<toBroker, brokerUp, accepted, bSub>>

BrokerAcknowledged ==
  /\ Receives({"PUBACK", "PUBCOMP"}) /\ accepted
  /\ inflight' = inflight \ {Head(toBroker).arg} /\ toBroker' = Tail(toBroker)
  /\ BrokerLeaves /\ UNCHANGED <<toClient, brokerUp, accepted, bSub, published>>

BrokerPubrec ==
  /\ Receives({"PUBREC"}) /\ accepted
  /\ ToClient(Pkt("PUBREL", Head(toBroker).arg)) /\ toBroker' = Tail(toBroker)
  /\ BrokerLeaves /\ UNCHANGED brokerVars

\* The broker closes: at will, and on anything it does not accept
BrokerClose ==
  /\ brokerUp /\ brokerUp' = FALSE /\ toBroker' = << >>
  /\ BrokerLeaves /\ UNCHANGED <<toClient, accepted, bSub, published, inflight>>

\* keepAliveInterval seconds have passed since the PINGREQ
IntervalPasses ==
  /\ pingOutstanding /\ ~pingOverdue /\ pingOverdue' = TRUE
  /\ UNCHANGED <<appVars, clientVars, packetBuf, sendBuf, inVars, ioPc, toBroker, toClient,
                 brokerVars, handled, delivered, faults>>

EnvNext == \/ BrokerConnect \/ BrokerSubscribe \/ BrokerSuback \/ BrokerPing
           \/ BrokerPublish \/ BrokerAcknowledged \/ BrokerPubrec \/ BrokerClose
           \/ IntervalPasses

-----------------------------------------------------------------------------
Next == AppNext \/ IoNext \/ EnvNext

Spec == Init /\ [][Next]_vars

\* Both threads are scheduled; a timer of waitfor expires, so that its FAILURE
\* branch is always among the steps the thread may take.  Nothing is assumed of
\* the broker.
FairSpec == Spec /\ WF_vars(AppNext) /\ WF_vars(IoNext)

-----------------------------------------------------------------------------
(* Properties *)

AppTypes ==
  /\ appPc \in AppPcs
  /\ results \in Seq(FAILURE..5) /\ Len(results) <= Len(Calls)
  /\ appPc \notin {"call", "killed"} => Len(results) < Len(Calls)
  /\ appPc \in {"subscribeSend", "subackWait", "subackRead", "setFilter", "setHandler"}
       => NextCall # 0
  /\ appSlot \in 0..MaxHandlers
  /\ appPc \in {"setFilter", "setHandler"} => appSlot \in Slots
ClientTypes ==
  /\ isconnected \in BOOLEAN /\ pingOutstanding \in BOOLEAN
  /\ runState \in {"INVALID", "CONNECTED", "DISCONNECTED"}
  /\ ack \in PacketTypes
  /\ messageHandlers \in [Slots -> [topicFilter : 0..Topics, fp : BOOLEAN]]
IoTypes ==
  /\ ioPc \in IoPcs
  /\ packetBuf \in Packets /\ sendBuf \in Packets
  /\ toBroker \in Seq(Packets) /\ toClient \in Seq(Packets)
ReaderTypes ==
  /\ needread \in BOOLEAN /\ behind \in 0..MaxAgain
  /\ ioPc = "next" => behind > 0
  /\ behind > 0 => "joined" \in faults
  /\ ioPc = "read" \/ needread \/ behind > 0 => toClient # << >>
BrokerTypes ==
  /\ brokerUp \in BOOLEAN /\ accepted \in BOOLEAN
  /\ bSub \in [1..Topics -> {"none", "granting", "granted", "refused"}]
  /\ published \in 0..Len(MsgTopic) /\ inflight \subseteq Messages
HistoryTypes ==
  /\ handled \in Nat /\ delivered \in Seq(Messages)
  /\ pingOverdue \in BOOLEAN /\ faults \subseteq {"close", "send", "joined", "alarm"}
TypeOK == AppTypes /\ ClientTypes /\ IoTypes /\ ReaderTypes /\ BrokerTypes /\ HistoryTypes

\* What the calls made so far returned
Connected(k)  == k \in DOMAIN results /\ Calls[k] = 0 /\ results[k] = SUCCESS
Subscribed(k) == k \in DOMAIN results /\ Calls[k] # 0 /\ results[k] = SUCCESS
Holds(t) == \E i \in Slots : messageHandlers[i] = [topicFilter |-> t, fp |-> TRUE]

\* MQTTConnect returns SUCCESS only if the broker has accepted the session, though
\* the answer comes through a shared word and a buffer without a lock
\* (MQTTClient.c:495, 579).
ConnectJustified == \A k \in DOMAIN Calls : Connected(k) => accepted

\* MQTTSubscribe returns SUCCESS only if the broker has answered that SUBSCRIBE
\* (MQTTClient.h:231: "wait for suback before returning"; MQTTClient.c:495).
SubscribeJustified ==
  \A k \in DOMAIN Calls : Subscribed(k) => bSub[Calls[k]] \in {"granted", "refused"}

\* MQTTSubscribe returns SUCCESS only for a subscription the broker granted
\* (MQTTClient.c:950: the handler is for grantedQoS != 0x80).
SubscribeGranted ==
  \A k \in DOMAIN Calls : Subscribed(k) => bSub[Calls[k]] # "refused"

\* With an application thread that looks at an ack within the 200 ms the I/O thread
\* sleeps, a subscription reported as SUCCESS has its handler, until the session is
\* closed (MQTTClient.c:743, 948-951).
SuccessMeansHandler ==
  \A k \in DOMAIN Calls : Subscribed(k) /\ "close" \notin faults => Holds(Calls[k])

\* The two threads are never both between serialising into the one sendBuf and
\* writing it: the order of the protocol does what no lock does
\* (MQTTClient.c:563-569, 685-696, 303-304).
SendBufExclusive ==
  ~ (appPc \in {"connectSend", "subscribeSend"} /\ ioPc \in {"ackSend", "pingSend"})

\* The packets of a type on their way
Count(channel, type) == Cardinality({i \in DOMAIN channel : channel[i].type = type})
Handling(type) == ioPc = "handle" /\ packetBuf.type = type

PingsInFlight == Count(toBroker, "PINGREQ") + Count(toClient, "PINGRESP")
                 + (IF Handling("PINGRESP") THEN 1 ELSE 0)

\* While the connection lives, the session has not been closed and no packets have been read
\* together, ping_outstanding is the number of pings on their way: none is sent twice, none
\* is forgotten (MQTTClient.c:294-305, 722).  A PINGRESP read together with the packet in
\* front of it is lost, and the flag stays set (MQTTClient.c:852).
PingAccounting ==
  brokerUp /\ faults \cap {"close", "joined"} = {}
    => PingsInFlight = (IF pingOutstanding THEN 1 ELSE 0)

\* Once subscribed, with every write successful and no packets read together, the I/O
\* thread never waits for the socket without a ping, or the answer to it, on its way: the
\* answer is what starts the next keepalive (MQTTClient.c:746-749).  It takes the prompt
\* application thread: if the I/O thread reads runState first, no ping is ever sent on an
\* idle connection.  And a PINGRESP lost behind another packet ends the chain.
KeepaliveChain ==
  (/\ \E k \in DOMAIN Calls : Subscribed(k)
   /\ KeepAlive /\ brokerUp /\ faults \cap {"send", "close", "joined"} = {}
   /\ ioPc = "select")
     => pingOutstanding /\ PingsInFlight = 1

\* The messages the application sees are, with one topic subscribed to, a run of the
\* messages read without a gap and up to the last one, until the session is closed or
\* packets are read together, of which all but the first are lost (MQTTClient.c:254-267,
\* 852, 907-908): what is lost before is lost because the handler is not yet there.
DeliveredWithoutGap ==
  faults \cap {"close", "joined"} = {} /\ delivered # << >>
    => delivered = [i \in 1..Len(delivered) |-> handled - Len(delivered) + i]

\* An unacknowledged message of QoS 1 or 2 has exactly one packet of its handshake on the
\* way or in the I/O thread's hands, if no write has failed and no packets have been read
\* together (MQTTClient.c:682-699, 702-717).  The second PUBLISH or PUBREL of one read has
\* none.
Handshake == {"PUBLISH", "PUBACK", "PUBREC", "PUBREL", "PUBCOMP"}
TokensOf(m) ==
    Cardinality({i \in DOMAIN toBroker : toBroker[i].type \in Handshake /\ toBroker[i].arg = m})
  + Cardinality({i \in DOMAIN toClient : toClient[i].type \in Handshake /\ toClient[i].arg = m})
  + (IF ioPc \in {"handle", "ackSend"} /\ packetBuf.type \in Handshake /\ packetBuf.arg = m
     THEN 1 ELSE 0)
HandshakeToken ==
  brokerUp /\ faults \cap {"send", "joined"} = {} =>
    \A m \in Messages : MsgQoS[m] # 0 => TokensOf(m) = (IF m \in inflight THEN 1 ELSE 0)

\* When the I/O thread is gone and the calls of mqttmakeRequest have returned, the
\* session is not left connected, whichever of the two noticed the end of the
\* connection first, and whatever the reads yielded before it
\* (MQTTClient.c:593-596, 764-768, 958-959).
EofClosesSession == ioPc = "exited" /\ AppIdle => ~isconnected

\* MQTTIsConnected says "whether the client is connected to the server"
\* (MQTTClient.h:268-270): not after the client itself has closed the socket.  That takes
\* an application thread that looks at the CONNACK within the 200 ms sleep (PromptApp): a
\* later one sets isconnected after the I/O thread has seen the end and gone
\* (MQTTClient.c:593-596, 764-768).
IsConnectedIsTruth == ioPc = "exited" => ~isconnected

\* keepalive's FAILURE means "PINGRESP not received in keepalive interval"
\* (MQTTClient.c:295).  The code breaks this: last_sent is never set, so the timers have
\* always expired.
FailureMeansNoPingresp == "alarm" \notin faults

\* No two slots hold one filter, so a message that is read once reaches its handler once,
\* also with filters dropped by one thread while the other installs them
\* (MQTTClient.c:879-909).  The first of two packets that are read together is handled again.
DeliveredOnce ==
  "joined" \notin faults =>
    \A i, j \in DOMAIN delivered : delivered[i] = delivered[j] => i = j

\* Every call returns, unless the process is killed (MQTTClient.c:490, 55).
CallsReturn == <>(AppIdle \/ appPc = "killed")

\* The end of the connection, which comes between packets, ends the I/O thread
\* (MQTTClient.c:623-628), or finds it out of step, where it is not followed.
EofEndsLoop == ~brokerUp ~> (ioPc \in {"exited", "killed", "lost"})

\* A message that reaches the client after its MQTTSubscribe has returned SUCCESS is passed
\* to the handler, unless the session is closed or packets are read together
\* (MQTTClient.c:248-267).
PublishedIsDelivered ==
  \A m \in Messages :
    (/\ \E i \in DOMAIN toClient : toClient[i] = Pkt("PUBLISH", m)
     /\ Holds(MsgTopic[m]))
      ~> (\/ \E i \in DOMAIN delivered : delivered[i] = m
          \/ faults \cap {"close", "joined"} # {} \/ ioPc = "killed")
=============================================================================
