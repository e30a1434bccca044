---------------------- MODULE SessionMessages_proofs ----------------------
(***************************************************************************)
(* What becomes of each packet and of each message, for any number of them: *)
(* how many pings and how many packets of a handshake are on their way, in  *)
(* what order the messages arrive, and which of them the application sees.  *)
(***************************************************************************)
EXTENDS MqttSession_proofs

-----------------------------------------------------------------------------
(* Counting the packets of a channel *)

\* How many places of s hold an element of T.
Places(s, T) == {i \in DOMAIN s : s[i] \in T}
NumberOf(s, T) == Cardinality(Places(s, T))

\* A channel has finitely many places.
LEMMA PlacesFinite ==
  ASSUME NEW S, NEW s \in Seq(S), NEW T
  PROVE  /\ IsFiniteSet(Places(s, T)) /\ NumberOf(s, T) \in Nat
         /\ Places(s, T) \subseteq 1..Len(s) /\ Len(s) \in Nat
<1>1. Len(s) \in Nat /\ DOMAIN s = 1..Len(s)
  BY LenProperties
<1>2. Places(s, T) \subseteq 1..Len(s) /\ IsFiniteSet(1..Len(s))
  BY <1>1, FS_Interval DEF Places
<1>3. IsFiniteSet(Places(s, T))
  BY <1>2, FS_Subset
<1> QED
  BY <1>1, <1>2, <1>3, FS_CardinalityType DEF NumberOf

\* A packet that is sent adds itself.
LEMMA NumberAppend ==
  ASSUME NEW S, NEW s \in Seq(S), NEW e \in S, NEW T
  PROVE  NumberOf(Append(s, e), T) = NumberOf(s, T) + (IF e \in T THEN 1 ELSE 0)
<1> DEFINE n == Len(s) + 1
<1>1. /\ Append(s, e) \in Seq(S) /\ Len(Append(s, e)) = n /\ Append(s, e)[n] = e
      /\ \A i \in 1..Len(s) : Append(s, e)[i] = s[i]
  BY AppendProperties
<1>2. /\ Len(s) \in Nat /\ DOMAIN s = 1..Len(s) /\ DOMAIN Append(s, e) = 1..n
      /\ n \notin Places(s, T)
  BY <1>1, LenProperties DEF Places
<1>3. Places(Append(s, e), T) = IF e \in T THEN Places(s, T) \cup {n} ELSE Places(s, T)
  BY <1>1, <1>2 DEF Places
<1>4. IsFiniteSet(Places(s, T)) /\ NumberOf(s, T) \in Nat
  BY PlacesFinite
<1>5. Cardinality(Places(s, T) \cup {n}) = Cardinality(Places(s, T)) + 1
  BY <1>2, <1>4, FS_AddElement
<1> QED
  BY <1>3, <1>4, <1>5 DEF NumberOf

\* A packet that is received takes itself away.
LEMMA NumberTail ==
  ASSUME NEW S, NEW s \in Seq(S), s # << >>, NEW T
  PROVE  NumberOf(Tail(s), T) = NumberOf(s, T) - (IF Head(s) \in T THEN 1 ELSE 0)
<1>1. /\ Tail(s) \in Seq(S) /\ Len(Tail(s)) = Len(s) - 1
      /\ \A i \in 1..Len(Tail(s)) : Tail(s)[i] = s[i + 1]
  BY HeadTailProperties
<1>2. /\ Len(s) \in Nat \ {0} /\ DOMAIN s = 1..Len(s) /\ DOMAIN Tail(s) = 1..(Len(s) - 1)
      /\ Head(s) = s[1]
  BY <1>1, LenProperties, EmptySeq
<1> DEFINE rest == Places(s, T) \ {1}
           shift == [i \in rest |-> i - 1]
<1>3. /\ \A i \in rest : i \in 2..Len(s) /\ s[i] \in T
      /\ \A j \in Places(Tail(s), T) : j + 1 \in rest /\ j \in Nat
  BY <1>1, <1>2 DEF Places
<1>4. \A i \in rest : shift[i] \in Places(Tail(s), T)
  BY <1>1, <1>2, <1>3 DEF Places
<1>5. shift \in Bijection(rest, Places(Tail(s), T))
  <2>1. shift \in [rest -> Places(Tail(s), T)]
    BY <1>4
  <2>2. \A i, j \in rest : shift[i] = shift[j] => i = j
    BY <1>3
  <2>3. \A j \in Places(Tail(s), T) : shift[j + 1] = j
    BY <1>3
  <2>4. \A j \in Places(Tail(s), T) : \E i \in rest : shift[i] = j
    BY <1>3, <2>3
  <2> HIDE DEF shift
  <2> QED
    BY <2>1, <2>2, <2>4 DEF Bijection, Injection, Surjection, IsInjective
<1>6. /\ IsFiniteSet(rest)
      /\ Cardinality(rest) = NumberOf(s, T) - (IF 1 \in Places(s, T) THEN 1 ELSE 0)
  BY PlacesFinite, FS_RemoveElement DEF NumberOf
<1>7. 1 \in Places(s, T) <=> Head(s) \in T
  BY <1>2 DEF Places
<1> HIDE DEF rest, shift
<1>8. Cardinality(Places(Tail(s), T)) = Cardinality(rest)
  BY <1>5, <1>6, FS_Bijection DEF ExistsBijection
<1> QED
  BY <1>6, <1>7, <1>8 DEF NumberOf

\* What is counted: the packets of a type, and those of a message's handshake.
OfType(type) == {p \in GoodPackets : p.type = type}
TokensFor(m) == {p \in GoodPackets : p.type \in Handshake /\ p.arg = m}

\* Count is such a number.
LEMMA CountIsNumber ==
  ASSUME NEW s \in Seq(GoodPackets), NEW type
  PROVE  Count(s, type) = NumberOf(s, OfType(type))
<1>1. \A i \in DOMAIN s : s[i] \in GoodPackets
  BY ElementOfSeq, LenProperties
<1>2. {i \in DOMAIN s : s[i].type = type} = Places(s, OfType(type))
  BY <1>1 DEF Places, OfType
<1> QED
  BY <1>2 DEF Count, NumberOf

\* So are the terms of TokensOf.
LEMMA TokensIsNumber ==
  ASSUME NEW s \in Seq(GoodPackets), NEW m
  PROVE  Cardinality({i \in DOMAIN s : s[i].type \in Handshake /\ s[i].arg = m})
           = NumberOf(s, TokensFor(m))
<1>1. \A i \in DOMAIN s : s[i] \in GoodPackets
  BY ElementOfSeq, LenProperties
<1>2. {i \in DOMAIN s : s[i].type \in Handshake /\ s[i].arg = m} = Places(s, TokensFor(m))
  BY <1>1 DEF Places, TokensFor
<1> QED
  BY <1>2 DEF NumberOf

\* A channel of other packets holds none.
LEMMA NumberZero ==
  ASSUME NEW S, NEW s \in Seq(S), NEW T, S \cap T = {}
  PROVE  NumberOf(s, T) = 0
<1>1. \A i \in DOMAIN s : s[i] \in S
  BY ElementOfSeq, LenProperties
<1>2. Places(s, T) = {}
  BY <1>1 DEF Places
<1> QED
  BY <1>2, FS_EmptySet DEF NumberOf

-----------------------------------------------------------------------------
(* What is sent is what was serialised *)

\* The one writer finds in sendBuf what it has put there.
SendBufIntact ==
  /\ appPc = "connectSend" => sendBuf = ConnectPacket
  /\ appPc = "subscribeSend" => sendBuf = SubscribePacket(CurrentTopic)
  /\ ioPc = "ackSend" => sendBuf = AckTo(packetBuf)
  /\ ioPc = "pingSend" => sendBuf = PingreqPacket /\ ~pingOutstanding

\* The application thread serialises while the I/O thread has nothing to send.
LEMMA AppIntact ==
  ASSUME TypeInv, QuietInv, SendBufIntact, AppNext
  PROVE  SendBufIntact'
<1> USE DEF TypeInv, TypeOK
<1>1. UNCHANGED packetBuf /\ ioPc' \in {ioPc, "killed"} /\ CallRuns
  BY AppSends, AppRuns
     DEF AppNext, ConnectBegin, ConnectSend, ConnackWait, ConnackRead, SubscribeBegin,
         SubscribeSend, SubackWait, SubackRead, SetFilter, SetHandler, CloseSession, Killed,
         AppLeaves
<1>2. CASE ConnectBegin \/ SubscribeBegin
  <2>1. ioPc \notin {"ackSend", "pingSend"}
    BY <1>1, <1>2 DEF ConnectBegin, SubscribeBegin, QuietInv, BeforeSubscribe, Quiet
  <2> QED
    BY <1>1, <1>2, <2>1
       DEF ConnectBegin, SubscribeBegin, SendBufIntact, Goto, Return, CurrentTopic, NextCall
<1>3. CASE /\ sendBuf' = sendBuf /\ (pingOutstanding' => pingOutstanding)
           /\ appPc' \notin {"connectSend", "subscribeSend"}
  <2>1. /\ ioPc' = "ackSend" => sendBuf' = AckTo(packetBuf')
        /\ ioPc' = "pingSend" => sendBuf' = PingreqPacket /\ ~pingOutstanding'
    BY <1>1, <1>3 DEF SendBufIntact, TypeInv, TypeOK, ClientTypes
  <2> QED
    BY <1>3, <2>1 DEF SendBufIntact
<1>4. CASE ConnackRead
  <2>1. sendBuf' = sendBuf /\ appPc' = "call"
    BY <1>4 DEF ConnackRead, Return
  <2>2. pingOutstanding' => pingOutstanding
    BY <1>4 DEF ConnackRead, ClientTypes
  <2> QED
    BY <1>3, <2>1, <2>2
<1>5. CASE SubackRead \/ SetFilter \/ SetHandler \/ CloseSession
  BY <1>3, <1>5
     DEF SubackRead, SetFilter, SetHandler, CloseSession, MQTTCloseSession, Goto, Return, clientVars
<1>6. CASE ConnectSend \/ ConnackWait \/ SubscribeSend \/ SubackWait
           \/ Killed(appPc \in {"connectSend", "subscribeSend"})
  BY <1>3, <1>6
     DEF ConnectSend, ConnackWait, SubscribeSend, SubackWait, Killed, Goto, Return, clientVars
<1> QED
  BY <1>2, <1>4, <1>5, <1>6 DEF AppNext

\* The I/O thread serialises when the application has nothing more to send.
LEMMA IoIntact ==
  ASSUME TypeInv, QuietInv, SendBufIntact, IoNext
  PROVE  SendBufIntact'
<1> USE DEF TypeInv, TypeOK
<1>1. UNCHANGED <<results, CurrentTopic>> /\ appPc' \in {appPc, "killed"}
  BY IoReads DEF CurrentTopic, NextCall
<1>2. CASE HandlePublish \/ HandlePubrel \/ KeepaliveCheck
  <2>1. ~BeforeSubscribe
    BY <1>2 DEF HandlePublish, HandlePubrel, KeepaliveCheck, QuietInv, Quiet, EarlyToClient
  <2>2. appPc \notin {"connectSend", "subscribeSend"}
    BY <2>1, CallRunning DEF BeforeSubscribe
  <2>3. /\ ioPc' = "ackSend" => sendBuf' = AckTo(packetBuf')
        /\ ioPc' = "pingSend" => sendBuf' = PingreqPacket /\ ~pingOutstanding'
    BY <1>2 DEF HandlePublish, HandlePubrel, KeepaliveCheck, Onward, clientVars
  <2> QED
    BY <1>1, <2>2, <2>3 DEF SendBufIntact
<1>3. CASE sendBuf' = sendBuf /\ ioPc' \notin {"ackSend", "pingSend"}
  BY <1>1, <1>3 DEF SendBufIntact
<1> QED
  BY <1>2, <1>3
     DEF IoNext, ReadBegin, NeedMore, ReadEnd, Again, Lose, HandleAnswer, HandlePingresp, AckSend,
         Wake, PingSend, Onward, Eof, Disconnect, Killed

\* Each thread of a session that subscribes once and last writes what it has serialised.
LEMMA IntactAlways ==
  ASSUME SubscribesOnceLast
  PROVE  Spec => []SendBufIntact
<1>1. Init => SendBufIntact
  BY DEF Init, SendBufIntact
<1>2. TypeInv /\ QuietInv /\ SendBufIntact /\ [Next]_vars => SendBufIntact'
  <2>1. CASE EnvNext \/ UNCHANGED vars
    <3>1. UNCHANGED <<appVars, packetBuf, sendBuf, ioPc, pingOutstanding>>
      BY <2>1, EnvReceives DEF vars, clientVars
    <3> QED
      BY <3>1 DEF SendBufIntact, CurrentTopic, NextCall, appVars
  <2> QED
    BY <2>1, AppIntact, IoIntact DEF Next
<1> QED
  BY <1>1, <1>2, TypeInvariance, QuietAlways, PTL DEF Spec

-----------------------------------------------------------------------------
(* What the broker sends *)

\* What the broker sends: pings are answered and messages go out nowhere else.
LEMMA EnvAnswers ==
  ASSUME TypeInv, EnvNext
  PROVE  \/ UNCHANGED toClient
         \/ \E p \in GoodPackets : /\ p.type = "PINGRESP" => BrokerPing
                                   /\ p.type = "PUBLISH" => BrokerPublish
                                   /\ p.type \in Handshake => BrokerPublish \/ BrokerPubrec
                                   /\ toClient' = Append(toClient, p)
<1> USE DEF TypeInv, TypeOK
<1> DEFINE Sent(p) == /\ p.type = "PINGRESP" => BrokerPing
                      /\ p.type = "PUBLISH" => BrokerPublish
                      /\ p.type \in Handshake => BrokerPublish \/ BrokerPubrec
                      /\ toClient' = Append(toClient, p)
<1>1. CASE BrokerSuback
  <2>1. PICK t \in 1..Topics : toClient' = Append(toClient, Pkt("SUBACK", t))
    BY <1>1 DEF BrokerSuback, ToClient
  <2>2. Pkt("SUBACK", t) \in GoodPackets /\ Pkt("SUBACK", t).type = "SUBACK"
    BY PacketsGood DEF Pkt
  <2>3. Sent(Pkt("SUBACK", t))
    BY <2>1, <2>2 DEF Handshake
  <2> QED
    BY <2>2, <2>3
<1>2. CASE BrokerSubscribe
  <2> DEFINE p == Pkt("SUBACK", 0 - Head(toBroker).arg)
  <2>1. Head(toBroker) \in GoodPackets /\ Head(toBroker).type = "SUBSCRIBE"
    BY <1>2, ReceiveGood DEF BrokerSubscribe, Receives, GoodChannels
  <2>2. Head(toBroker).arg \in 1..Topics
    BY <2>1 DEF GoodPackets, WellFormed
  <2>3. p \in GoodPackets /\ p.type = "SUBACK"
    BY <2>2, PacketsGood DEF Pkt
  <2>4. UNCHANGED toClient \/ toClient' = Append(toClient, p)
    BY <1>2 DEF BrokerSubscribe, ToClient
  <2> HIDE DEF p
  <2> QED
    BY <2>3, <2>4 DEF Handshake
<1>3. CASE BrokerConnect
  <2>1. PICK code \in ConnackCodes : toClient' = Append(toClient, Pkt("CONNACK", code))
    BY <1>3 DEF BrokerConnect, ToClient
  <2>2. Pkt("CONNACK", code) \in GoodPackets /\ Pkt("CONNACK", code).type = "CONNACK"
    BY PacketsGood DEF Pkt
  <2>3. Sent(Pkt("CONNACK", code))
    BY <2>1, <2>2 DEF Handshake
  <2> QED
    BY <2>2, <2>3
<1>4. CASE BrokerPing
  <2>1. Pkt("PINGRESP", 0) \in GoodPackets /\ Pkt("PINGRESP", 0).type = "PINGRESP"
    BY PacketsGood DEF Pkt
  <2>2. Sent(Pkt("PINGRESP", 0))
    BY <1>4, <2>1 DEF BrokerPing, ToClient, Handshake
  <2> QED
    BY <2>1, <2>2
<1>5. CASE BrokerPublish
  <2> DEFINE p == Pkt("PUBLISH", published + 1)
  <2>1. published + 1 \in Messages
    BY <1>5, MsgAssumption, LenProperties DEF BrokerPublish, Messages, BrokerTypes
  <2>2. p \in GoodPackets /\ p.type = "PUBLISH"
    BY <2>1, PacketsGood DEF Pkt, Handshake
  <2>3. Sent(p)
    BY <1>5, <2>2 DEF BrokerPublish, ToClient
  <2> HIDE DEF p
  <2> QED
    BY <2>2, <2>3
<1>6. CASE BrokerPubrec
  <2> DEFINE p == Pkt("PUBREL", Head(toBroker).arg)
  <2>1. Head(toBroker) \in GoodPackets /\ Head(toBroker).type = "PUBREC"
    BY <1>6, ReceiveGood DEF BrokerPubrec, Receives, GoodChannels
  <2>2. Head(toBroker).arg \in Messages
    BY <2>1 DEF GoodPackets, WellFormed, Handshake
  <2>3. p \in GoodPackets /\ p.type = "PUBREL"
    BY <2>2, PacketsGood DEF Pkt, Handshake
  <2>4. Sent(p)
    BY <1>6, <2>3 DEF BrokerPubrec, ToClient
  <2> HIDE DEF p
  <2> QED
    BY <2>3, <2>4
<1>7. CASE BrokerAcknowledged \/ BrokerClose \/ IntervalPasses
  BY <1>7 DEF BrokerAcknowledged, BrokerClose, IntervalPasses
<1> HIDE DEF Sent
<1> QED
  BY <1>1, <1>2, <1>3, <1>4, <1>5, <1>6, <1>7 DEF EnvNext, Sent

-----------------------------------------------------------------------------
(* Faults *)

\* No read has yielded several packets.
Apart == "joined" \notin faults

\* What has gone wrong stays on record, and a read that yields several packets with it.
LEMMA FaultsStay ==
  ASSUME TypeInv, [Next]_vars
  PROVE  faults \subseteq faults' /\ (Apart' => Apart)
<1>1. CASE AppNext
  BY <1>1
     DEF AppNext, ConnectBegin, ConnectSend, ConnackWait, ConnackRead, SubscribeBegin,
         SubscribeSend, SubackWait, SubackRead, SetFilter, SetHandler, CloseSession, Killed,
         history, Apart
<1> QED
  BY <1>1, IoRecords, EnvReceives DEF Next, vars, history, Apart

-----------------------------------------------------------------------------
(* Pings *)

\* The pings on the way to the broker, the answers on the way back, and the answer in hand.
Pings == NumberOf(toBroker, OfType("PINGREQ"))
Pongs == NumberOf(toClient, OfType("PINGRESP"))
PongInHand == IF Handling("PINGRESP") THEN 1 ELSE 0

\* PingsInFlight in these terms.
LEMMA PingNumbers ==
  ASSUME GoodChannels
  PROVE  PingsInFlight = Pings + Pongs + PongInHand /\ Pings \in Nat /\ Pongs \in Nat
BY CountIsNumber, PlacesFinite DEF GoodChannels, PingsInFlight, Pings, Pongs, PongInHand

\* PingAccounting in these terms.
PingsCounted ==
  brokerUp /\ faults \cap {"close", "joined"} = {}
    => Pings + Pongs + PongInHand = (IF pingOutstanding THEN 1 ELSE 0)

\* The application thread sends no ping, and forgets one only when it closes the session:
\* when it reads a CONNACK, none has been sent.
LEMMA AppCounts ==
  ASSUME TypeInv, QuietInv, PingsCounted, AppNext
  PROVE  PingsCounted'
<1> USE DEF TypeInv, TypeOK
<1>0. /\ UNCHANGED <<packetBuf, toClient, brokerUp>> /\ Pongs' = Pongs
      /\ toBroker \in Seq(GoodPackets) /\ Pings \in Nat /\ Pongs \in Nat
  BY AppSends, PingNumbers DEF brokerVars, Pongs, GoodChannels
<1>1. Pings' = Pings
  <2>1. ASSUME NEW p \in GoodPackets, p.type # "PINGREQ", toBroker' = Append(toBroker, p)
        PROVE  Pings' = Pings
    <3>1. p \notin OfType("PINGREQ")
      BY <2>1 DEF OfType
    <3>2. Pings' = Pings + 0
      BY <1>0, <2>1, <3>1, NumberAppend DEF Pings
    <3> QED
      BY <1>0, <3>2
  <2>2. appPc = "subscribeSend" => /\ SubscribePacket(CurrentTopic) \in GoodPackets
                                   /\ SubscribePacket(CurrentTopic).type # "PINGREQ"
    <3>1. appPc = "subscribeSend" => CurrentTopic \in 1..Topics
      BY AppRuns, NextCallType DEF AppTypes
    <3> QED
      BY <3>1, PacketsGood DEF SubscribePacket, Pkt
  <2>3. CASE UNCHANGED toBroker
    BY <2>3 DEF Pings
  <2> QED
    BY <2>1, <2>2, <2>3, AppSends
<1>2. /\ faults \subseteq faults'
      /\ (ioPc' = ioPc \/ ~brokerUp)
  BY DEF AppNext, ConnectBegin, ConnectSend, ConnackWait, ConnackRead, SubscribeBegin,
         SubscribeSend, SubackWait, SubackRead, SetFilter, SetHandler, CloseSession, Killed,
         AppLeaves, history
<1>3. CASE UNCHANGED pingOutstanding
  BY <1>0, <1>1, <1>2, <1>3 DEF PingsCounted, PongInHand, Handling
<1>4. CASE CloseSession
  BY <1>4 DEF CloseSession, PingsCounted
<1>5. CASE ConnackRead
  <2>1. Quiet
    BY <1>5, AppRuns DEF ConnackRead, QuietInv, BeforeSubscribe
  <2>2. Pings = 0
    <3>1. EarlyToBroker \cap OfType("PINGREQ") = {}
      BY DEF EarlyToBroker, OfType
    <3> QED
      BY <2>1, <3>1, NumberZero DEF Pings, Quiet
  <2>3. Pongs = 0
    <3>1. EarlyToClient \cap OfType("PINGRESP") = {}
      BY DEF EarlyToClient, OfType
    <3> QED
      BY <2>1, <3>1, NumberZero DEF Pongs, Quiet
  <2>4. PongInHand = 0 /\ PongInHand' = 0
    BY <1>0, <2>1 DEF PongInHand, Handling, Quiet, EarlyToClient
  <2>5. pingOutstanding \in BOOLEAN /\ (pingOutstanding' => pingOutstanding)
    BY <1>5 DEF ConnackRead, ClientTypes
  <2> QED
    BY <1>0, <1>1, <1>2, <2>2, <2>3, <2>4, <2>5 DEF PingsCounted
<1> QED
  BY <1>3, <1>4, <1>5
     DEF AppNext, ConnectBegin, ConnectSend, ConnackWait, SubscribeBegin, SubscribeSend,
         SubackWait, SubackRead, SetFilter, SetHandler, Killed, clientVars

\* The I/O thread counts a ping when it has sent one, and the answer when it handles it.
LEMMA IoCounts ==
  ASSUME TypeInv, SendBufIntact, PingsCounted, IoNext
  PROVE  PingsCounted'
<1> USE DEF TypeInv, TypeOK
<1>0. /\ brokerUp' = brokerUp /\ faults \subseteq faults' /\ pingOutstanding \in BOOLEAN
      /\ toBroker \in Seq(GoodPackets) /\ toClient \in Seq(GoodPackets)
      /\ Pings \in Nat /\ Pongs \in Nat
  BY IoReads, IoCloses, PingNumbers DEF brokerVars, GoodChannels, ClientTypes
<1>1. SUFFICES ASSUME brokerUp, "close" \notin faults', "close" \notin faults,
                      "joined" \notin faults',
                      Pings + Pongs + PongInHand = (IF pingOutstanding THEN 1 ELSE 0)
               PROVE  Pings' + Pongs' + PongInHand' = (IF pingOutstanding' THEN 1 ELSE 0)
  BY <1>0 DEF PingsCounted
<1>2. ASSUME NEW p \in GoodPackets, p.type # "PINGREQ", toBroker' = Append(toBroker, p)
      PROVE  Pings' = Pings
  <2>1. p \notin OfType("PINGREQ")
    BY <1>2 DEF OfType
  <2>2. Pings' = Pings + 0
    BY <1>0, <1>2, <2>1, NumberAppend DEF Pings
  <2> QED
    BY <1>0, <2>2
<1>3. Garbage \in GoodPackets /\ Garbage.type # "PINGREQ"
  BY PacketsGood DEF Garbage, Pkt
<1>4. CASE ReadEnd
  <2>1. /\ ioPc = "read" /\ ioPc' = "handle" /\ toClient # << >> /\ packetBuf' = Head(toClient)
        /\ toClient' = Tail(toClient) /\ UNCHANGED <<toBroker, pingOutstanding>>
    BY <1>1, <1>4, IoApart DEF ReadEnd, Unread, clientVars, ReaderTypes
  <2>2. Head(toClient) \in GoodPackets
    BY <1>0, <2>1, ReceiveGood
  <2>3. Pongs' = Pongs - (IF Head(toClient) \in OfType("PINGRESP") THEN 1 ELSE 0)
    BY <1>0, <2>1, NumberTail DEF Pongs
  <2>4. /\ PongInHand = 0
        /\ PongInHand' = IF Head(toClient) \in OfType("PINGRESP") THEN 1 ELSE 0
    BY <2>1, <2>2 DEF PongInHand, Handling, OfType
  <2>5. Pings' = Pings
    BY <2>1 DEF Pings
  <2> QED
    BY <1>0, <1>1, <2>1, <2>3, <2>4, <2>5
<1>5. CASE HandlePingresp
  <2>1. /\ PongInHand = 1 /\ PongInHand' = 0 /\ ~pingOutstanding'
        /\ UNCHANGED <<toBroker, toClient>>
    BY <1>5 DEF HandlePingresp, PongInHand, Handling
  <2>2. Pings' = Pings /\ Pongs' = Pongs
    BY <2>1 DEF Pings, Pongs
  <2> QED
    BY <1>0, <1>1, <2>1, <2>2
<1>6. CASE PingSend
  <2>1. /\ sendBuf = PingreqPacket /\ ~pingOutstanding /\ UNCHANGED toClient
        /\ PongInHand = 0 /\ PongInHand' = 0
    BY <1>6 DEF PingSend, SendBufIntact, PongInHand, Handling, Onward
  <2>2. CASE SendSucceeds(PingreqPacket) /\ pingOutstanding' = TRUE
    <3>1. toBroker' = Append(toBroker, PingreqPacket)
      BY <1>1, <2>1, <2>2 DEF SendSucceeds
    <3>2. PingreqPacket \in GoodPackets /\ PingreqPacket \in OfType("PINGREQ")
      BY PacketsGood DEF OfType, PingreqPacket, Pkt
    <3>3. Pings' = Pings + 1
      BY <1>0, <3>1, <3>2, NumberAppend DEF Pings
    <3>4. Pongs' = Pongs
      BY <2>1 DEF Pongs
    <3> QED
      BY <1>0, <1>1, <2>1, <2>2, <3>3, <3>4
  <2>3. CASE SendFails /\ UNCHANGED pingOutstanding
    <3>1. Pings' = Pings
      BY <1>2, <1>3, <2>3 DEF SendFails, Pings
    <3>2. Pongs' = Pongs
      BY <2>1 DEF Pongs
    <3> QED
      BY <1>1, <2>1, <2>3, <3>1, <3>2
  <2> QED
    BY <1>6, <2>2, <2>3 DEF PingSend
<1>7. CASE AckSend
  <2>1. AckTo(packetBuf) \in GoodPackets /\ AckTo(packetBuf).type # "PINGREQ"
    BY <1>7, AckToGood DEF AckSend, GoodChannels, AckTo, AckPacket, Pkt
  <2>2. /\ UNCHANGED <<toClient, pingOutstanding>> /\ PongInHand = 0 /\ PongInHand' = 0
        /\ SendSucceeds(AckTo(packetBuf)) \/ SendFails
    BY <1>1, <1>7 DEF AckSend, PongInHand, Handling
  <2>3. Pings' = Pings
    BY <1>2, <1>3, <2>1, <2>2 DEF SendSucceeds, SendFails, Pings
  <2>4. Pongs' = Pongs
    BY <2>2 DEF Pongs
  <2> QED
    BY <1>1, <2>2, <2>3, <2>4
<1>8. CASE UNCHANGED <<toBroker, toClient, pingOutstanding, PongInHand>>
  <2>1. Pings' = Pings /\ Pongs' = Pongs
    BY <1>8 DEF Pings, Pongs
  <2> QED
    BY <1>1, <1>8, <2>1
<1>9. CASE Eof \/ Killed(ioPc \in {"ackSend", "pingSend"})
  BY <1>1, <1>9 DEF Eof, Killed
<1>10. CASE ReadBegin \/ NeedMore \/ HandleAnswer \/ HandlePublish \/ HandlePubrel \/ Wake
            \/ KeepaliveCheck \/ Disconnect
  <2>1. UNCHANGED <<toBroker, toClient, pingOutstanding, PongInHand>>
    BY <1>1, <1>10, IoApart
       DEF ReadBegin, NeedMore, HandleAnswer, HandlePublish, HandlePubrel, Wake,
           KeepaliveCheck, Disconnect, PongInHand, Handling, clientVars
  <2> QED
    BY <1>8, <2>1
<1> QED
  BY <1>1, <1>4, <1>5, <1>6, <1>7, <1>9, <1>10, IoApart DEF IoNext

\* The broker turns a ping into its answer.
LEMMA EnvCounts ==
  ASSUME TypeInv, PingsCounted, EnvNext
  PROVE  PingsCounted'
<1> USE DEF TypeInv, TypeOK
<1>0. /\ UNCHANGED <<pingOutstanding, faults, PongInHand>> /\ (brokerUp' => brokerUp)
      /\ toBroker \in Seq(GoodPackets) /\ toClient \in Seq(GoodPackets)
      /\ Pings \in Nat /\ Pongs \in Nat
  BY EnvReceives, PingNumbers DEF GoodChannels, PongInHand, Handling, clientVars
<1>1. CASE BrokerPing
  <2>1. /\ toBroker # << >> /\ Head(toBroker).type = "PINGREQ" /\ toBroker' = Tail(toBroker)
        /\ toClient' = Append(toClient, Pkt("PINGRESP", 0))
    BY <1>1 DEF BrokerPing, Receives, ToClient
  <2>2. Head(toBroker) \in OfType("PINGREQ")
    BY <1>0, <2>1, ReceiveGood DEF OfType
  <2>3. Pings' = Pings - 1
    BY <1>0, <2>1, <2>2, NumberTail DEF Pings
  <2>4. Pkt("PINGRESP", 0) \in GoodPackets /\ Pkt("PINGRESP", 0) \in OfType("PINGRESP")
    BY PacketsGood DEF OfType, Pkt
  <2>5. Pongs' = Pongs + 1
    BY <1>0, <2>1, <2>4, NumberAppend DEF Pongs
  <2> QED
    BY <1>0, <2>3, <2>5 DEF PingsCounted
<1>2. CASE ~BrokerPing
  <2>1. SUFFICES ASSUME brokerUp' PROVE Pings' = Pings /\ Pongs' = Pongs
    BY <1>0 DEF PingsCounted
  <2>2. Pings' = Pings
    <3>1. \/ UNCHANGED toBroker
          \/ toBroker # << >> /\ toBroker' = Tail(toBroker) /\ Head(toBroker).type # "PINGREQ"
      BY <1>2, <2>1
         DEF EnvNext, BrokerConnect, BrokerSubscribe, BrokerSuback, BrokerPublish,
             BrokerAcknowledged, BrokerPubrec, BrokerClose, IntervalPasses, Receives
    <3>2. CASE UNCHANGED toBroker
      BY <3>2 DEF Pings
    <3>3. CASE toBroker # << >> /\ toBroker' = Tail(toBroker) /\ Head(toBroker).type # "PINGREQ"
      <4>1. Head(toBroker) \notin OfType("PINGREQ")
        BY <3>3 DEF OfType
      <4>2. Pings' = Pings - 0
        BY <1>0, <3>3, <4>1, NumberTail DEF Pings
      <4> QED
        BY <1>0, <4>2
    <3> QED
      BY <3>1, <3>2, <3>3
  <2>3. Pongs' = Pongs
    <3>1. \/ UNCHANGED toClient
          \/ \E p \in GoodPackets : p.type # "PINGRESP" /\ toClient' = Append(toClient, p)
      BY <1>2, EnvAnswers
    <3>2. CASE UNCHANGED toClient
      BY <3>2 DEF Pongs
    <3>3. ASSUME NEW p \in GoodPackets, p.type # "PINGRESP", toClient' = Append(toClient, p)
          PROVE  Pongs' = Pongs
      <4>1. p \notin OfType("PINGRESP")
        BY <3>3 DEF OfType
      <4>2. Pongs' = Pongs + 0
        BY <1>0, <3>3, <4>1, NumberAppend DEF Pongs
      <4> QED
        BY <1>0, <4>2
    <3> QED
      BY <3>1, <3>2, <3>3
  <2> QED
    BY <2>2, <2>3
<1> QED
  BY <1>1, <1>2

\* While the connection lives, the session has not been closed and no packets have been read
\* together, ping_outstanding is the number of pings on their way, however often a session
\* that subscribes once and last is pinged, and in whatever order the answers are handled.
THEOREM PingsAreAccounted ==
  ASSUME SubscribesOnceLast
  PROVE  Spec => []PingAccounting
<1>1. Init => PingsCounted
  <2> SUFFICES ASSUME Init PROVE PingsCounted
    OBVIOUS
  <2>1. GoodChannels
    BY InitTypes DEF TypeInv
  <2>2. toBroker \in Seq({}) /\ toClient \in Seq({})
    BY DEF Init
  <2>3. Pings = 0 /\ Pongs = 0
    BY <2>2, NumberZero DEF Pings, Pongs
  <2> QED
    BY <2>3 DEF Init, PingsCounted, PongInHand, Handling
<1>2. TypeInv /\ QuietInv /\ SendBufIntact /\ PingsCounted /\ [Next]_vars => PingsCounted'
  <2>1. UNCHANGED vars /\ PingsCounted => PingsCounted'
    BY DEF vars, clientVars, brokerVars, history, PingsCounted, Pings, Pongs, PongInHand, Handling
  <2> QED
    BY <2>1, AppCounts, IoCounts, EnvCounts DEF Next
<1>3. TypeInv /\ PingsCounted => PingAccounting
  BY PingNumbers DEF TypeInv, PingsCounted, PingAccounting
<1> QED
  BY <1>1, <1>2, <1>3, TypeInvariance, QuietAlways, IntactAlways, PTL DEF Spec

\* With a prompt application, every write successful and no packets read together, the I/O
\* thread of a session that is subscribed never waits for the socket without a ping or its
\* answer on the way: PingsGoOn has the flag set, PingAccounting puts the ping there.
THEOREM KeepaliveGoesOn ==
  ASSUME SubscribesOnceLast, PromptApp
  PROVE  Spec => []KeepaliveChain
<1>1. PingsGoOn /\ PingAccounting => KeepaliveChain
  BY DEF PingsGoOn, PingAccounting, KeepaliveChain, Answering, Done
<1> QED
  BY <1>1, PingsAlways, PingsAreAccounted, PTL

-----------------------------------------------------------------------------
(* The handshakes of QoS 1 and 2 *)

\* The packets of m's handshake on the way to the broker, to the client, and in the
\* I/O thread's hands.
Answers(m) == NumberOf(toBroker, TokensFor(m))
Offers(m) == NumberOf(toClient, TokensFor(m))
InHand(m) ==
  IF ioPc \in {"handle", "ackSend"} /\ packetBuf.type \in Handshake /\ packetBuf.arg = m
  THEN 1 ELSE 0

\* TokensOf in these terms.
LEMMA TokenNumbers ==
  ASSUME GoodChannels, NEW m
  PROVE  /\ TokensOf(m) = Answers(m) + Offers(m) + InHand(m)
         /\ Answers(m) \in Nat /\ Offers(m) \in Nat /\ InHand(m) \in {0, 1}
BY TokensIsNumber, PlacesFinite DEF GoodChannels, TokensOf, Answers, Offers, InHand

\* HandshakeToken in these terms; a message that is in flight has been published.
OneToken(m) == Answers(m) + Offers(m) + InHand(m) = (IF m \in inflight THEN 1 ELSE 0)
TokenInv ==
  /\ inflight \subseteq 1..published
  /\ brokerUp /\ faults \cap {"send", "joined"} = {} => \A m \in Messages : MsgQoS[m] # 0 => OneToken(m)

\* The application thread sends nothing of a handshake.
LEMMA AppTokens ==
  ASSUME TypeInv, TokenInv, AppNext
  PROVE  TokenInv'
<1> USE DEF TypeInv, TypeOK
<1>1. /\ UNCHANGED <<packetBuf, toClient, brokerUp, inflight, published>>
      /\ toBroker \in Seq(GoodPackets)
  BY AppSends DEF brokerVars, GoodChannels
<1>2. /\ faults \subseteq faults'
      /\ (ioPc' = ioPc \/ ~brokerUp)
  BY DEF AppNext, ConnectBegin, ConnectSend, ConnackWait, ConnackRead, SubscribeBegin,
         SubscribeSend, SubackWait, SubackRead, SetFilter, SetHandler, CloseSession, Killed,
         AppLeaves, history
<1>3. ASSUME NEW m \in Messages
      PROVE  Answers(m)' = Answers(m)
  <2>1. ASSUME NEW p \in GoodPackets, p.type \notin Handshake, toBroker' = Append(toBroker, p)
        PROVE  Answers(m)' = Answers(m)
    <3>1. p \notin TokensFor(m)
      BY <2>1 DEF TokensFor
    <3>2. Answers(m)' = Answers(m) + 0 /\ Answers(m) \in Nat
      BY <1>1, <2>1, <3>1, NumberAppend, TokenNumbers DEF Answers
    <3> QED
      BY <3>2
  <2>2. appPc = "subscribeSend" => /\ SubscribePacket(CurrentTopic) \in GoodPackets
                                   /\ SubscribePacket(CurrentTopic).type = "SUBSCRIBE"
    <3>1. appPc = "subscribeSend" => CurrentTopic \in 1..Topics
      BY AppRuns, NextCallType DEF AppTypes
    <3> QED
      BY <3>1, PacketsGood DEF SubscribePacket, Pkt
  <2>3. CASE UNCHANGED toBroker
    BY <2>3 DEF Answers
  <2> QED
    BY <2>1, <2>2, <2>3, AppSends DEF Handshake
<1>4. ASSUME NEW m \in Messages, brokerUp
      PROVE  OneToken(m) => OneToken(m)'
  BY <1>1, <1>2, <1>3, <1>4 DEF OneToken, Offers, InHand
<1> QED
  BY <1>1, <1>2, <1>4 DEF TokenInv

\* The I/O thread passes a packet on from the socket to its hands, and from its hands
\* to the broker.
LEMMA IoTokens ==
  ASSUME TypeInv, SendBufIntact, TokenInv, IoNext
  PROVE  TokenInv'
<1> USE DEF TypeInv, TypeOK
<1>0. /\ UNCHANGED <<brokerUp, inflight, published>> /\ faults \subseteq faults'
      /\ toBroker \in Seq(GoodPackets) /\ toClient \in Seq(GoodPackets)
  BY IoReads, IoCloses DEF brokerVars, GoodChannels
<1>1. SUFFICES ASSUME brokerUp, "send" \notin faults', "joined" \notin faults',
                      NEW m \in Messages, MsgQoS[m] # 0, OneToken(m)
               PROVE  OneToken(m)'
  BY <1>0 DEF TokenInv
<1>2. Answers(m) \in Nat /\ Offers(m) \in Nat /\ InHand(m) \in {0, 1}
  BY TokenNumbers
<1>3. CASE ReadEnd
  <2>1. /\ ioPc = "read" /\ ioPc' = "handle" /\ toClient # << >> /\ packetBuf' = Head(toClient)
        /\ toClient' = Tail(toClient) /\ UNCHANGED toBroker
    BY <1>1, <1>3, IoApart DEF ReadEnd, Unread, ReaderTypes
  <2>2. Head(toClient) \in GoodPackets
    BY <1>0, <2>1, ReceiveGood
  <2>3. Offers(m)' = Offers(m) - (IF Head(toClient) \in TokensFor(m) THEN 1 ELSE 0)
    BY <1>0, <2>1, NumberTail DEF Offers
  <2>4. /\ InHand(m) = 0
        /\ InHand(m)' = IF Head(toClient) \in TokensFor(m) THEN 1 ELSE 0
    BY <2>1, <2>2 DEF InHand, TokensFor
  <2>5. Answers(m)' = Answers(m)
    BY <2>1 DEF Answers
  <2> QED
    BY <1>0, <1>1, <1>2, <2>3, <2>4, <2>5 DEF OneToken
<1>4. CASE AckSend
  <2>1. /\ ioPc = "ackSend" /\ packetBuf \in GoodPackets /\ packetBuf.type \in {"PUBLISH", "PUBREL"}
        /\ sendBuf = AckTo(packetBuf) /\ UNCHANGED toClient
        /\ SendSucceeds(AckTo(packetBuf)) /\ ioPc' = "sleep"
    BY <1>1, <1>4 DEF AckSend, GoodChannels, SendBufIntact
  <2>2. toBroker' = Append(toBroker, AckTo(packetBuf))
    BY <1>1, <2>1 DEF SendSucceeds
  <2>3. AckTo(packetBuf) \in GoodPackets
    BY <2>1, AckToGood
  <2>4. AckTo(packetBuf) \in TokensFor(m) <=> packetBuf.arg = m
    BY <2>1, <2>3 DEF TokensFor, AckTo, AckPacket, Pkt, Handshake
  <2>5. Answers(m)' = Answers(m) + (IF packetBuf.arg = m THEN 1 ELSE 0)
    BY <1>0, <2>2, <2>3, <2>4, NumberAppend DEF Answers
  <2>6. InHand(m) = (IF packetBuf.arg = m THEN 1 ELSE 0) /\ InHand(m)' = 0
    BY <2>1 DEF InHand, Handshake
  <2>7. Offers(m)' = Offers(m)
    BY <2>1 DEF Offers
  <2> QED
    BY <1>0, <1>1, <1>2, <2>5, <2>6, <2>7 DEF OneToken
<1>5. ASSUME UNCHANGED <<toBroker, toClient>>, InHand(m)' = InHand(m)
      PROVE  OneToken(m)'
  <2>1. Answers(m)' = Answers(m) /\ Offers(m)' = Offers(m)
    BY <1>5 DEF Answers, Offers
  <2> QED
    BY <1>0, <1>1, <1>5, <2>1 DEF OneToken
<1>6. CASE PingSend
  <2>1. /\ sendBuf = PingreqPacket /\ UNCHANGED toClient /\ SendSucceeds(PingreqPacket)
        /\ InHand(m) = 0 /\ InHand(m)' = 0
    BY <1>1, <1>6 DEF PingSend, SendBufIntact, InHand, Onward
  <2>2. toBroker' = Append(toBroker, PingreqPacket)
    BY <1>1, <2>1 DEF SendSucceeds
  <2>3. PingreqPacket \in GoodPackets /\ PingreqPacket \notin TokensFor(m)
    BY PacketsGood DEF TokensFor, PingreqPacket, Pkt, Handshake
  <2>4. Answers(m)' = Answers(m) + 0
    BY <1>0, <2>2, <2>3, NumberAppend DEF Answers
  <2>5. Offers(m)' = Offers(m)
    BY <2>1 DEF Offers
  <2> QED
    BY <1>0, <1>1, <1>2, <2>1, <2>4, <2>5 DEF OneToken
<1>7. CASE HandlePublish \/ HandlePubrel
  <2>1. UNCHANGED <<toBroker, toClient, packetBuf>> /\ ioPc = "handle"
    BY <1>7 DEF HandlePublish, HandlePubrel
  <2>2. ioPc' = "ackSend" \/ (ioPc' = "sleep" /\ MsgQoS[packetBuf.arg] = 0)
    BY <1>7 DEF HandlePublish, HandlePubrel, MessageOf
  <2>3. InHand(m)' = InHand(m)
    BY <1>1, <2>1, <2>2 DEF InHand
  <2> QED
    BY <1>5, <2>1, <2>3
<1>8. CASE HandleAnswer \/ HandlePingresp
  <2>1. /\ UNCHANGED <<toBroker, toClient, packetBuf>> /\ ioPc' = "sleep"
        /\ packetBuf.type \notin Handshake
    BY <1>8 DEF HandleAnswer, HandlePingresp, Handshake
  <2> QED
    BY <1>5, <2>1 DEF InHand
<1>9. CASE ReadBegin \/ NeedMore \/ Wake \/ KeepaliveCheck \/ Eof \/ Disconnect
  <2>1. /\ UNCHANGED <<toBroker, toClient>>
        /\ ioPc \notin {"handle", "ackSend"} /\ ioPc' \notin {"handle", "ackSend"}
    BY <1>1, <1>9, IoApart DEF ReadBegin, NeedMore, Wake, KeepaliveCheck, Eof, Disconnect
  <2> QED
    BY <1>5, <2>1 DEF InHand
<1>10. CASE Killed(ioPc \in {"ackSend", "pingSend"})
  BY <1>1, <1>10 DEF Killed
<1> QED
  BY <1>1, <1>3, <1>4, <1>6, <1>7, <1>8, <1>9, <1>10, IoApart DEF IoNext

\* The broker answers a packet of a handshake with the next one, or ends it.
LEMMA EnvTokens ==
  ASSUME TypeInv, TokenInv, EnvNext
  PROVE  TokenInv'
<1> USE DEF TypeInv, TypeOK
<1>0. /\ UNCHANGED <<packetBuf, ioPc, faults>> /\ (brokerUp' => brokerUp)
      /\ toBroker \in Seq(GoodPackets) /\ toClient \in Seq(GoodPackets)
      /\ published \in Nat /\ \A m \in Messages : InHand(m)' = InHand(m)
  BY EnvReceives DEF GoodChannels, InHand, BrokerTypes
<1>1. (inflight \subseteq 1..published)'
  <2>1. CASE BrokerPublish
    <3>1. published' = published + 1 /\ inflight' \subseteq inflight \cup {published + 1}
      BY <2>1 DEF BrokerPublish
    <3>2. 1..published \cup {published + 1} \subseteq 1..(published + 1)
      BY <1>0
    <3> QED
      BY <3>1, <3>2 DEF TokenInv
  <2>2. CASE ~BrokerPublish
    BY <2>2
       DEF TokenInv, EnvNext, BrokerConnect, BrokerSubscribe, BrokerSuback, BrokerPing,
           BrokerAcknowledged, BrokerPubrec, BrokerClose, IntervalPasses, brokerVars
  <2> QED
    BY <2>1, <2>2
<1>2. SUFFICES ASSUME brokerUp, brokerUp', NEW m \in Messages, MsgQoS[m] # 0, OneToken(m)
               PROVE  OneToken(m)'
  BY <1>0, <1>1 DEF TokenInv
<1>3. Answers(m) \in Nat /\ Offers(m) \in Nat /\ InHand(m) \in {0, 1}
  BY TokenNumbers
<1>4. ASSUME toBroker # << >>, toBroker' = Tail(toBroker)
      PROVE  Answers(m)' = Answers(m) - (IF Head(toBroker) \in TokensFor(m) THEN 1 ELSE 0)
  BY <1>0, <1>4, NumberTail DEF Answers
<1>5. toBroker # << >> => Head(toBroker) \in GoodPackets
  BY <1>0, ReceiveGood
<1>6. ASSUME NEW p \in GoodPackets, toClient' = Append(toClient, p)
      PROVE  Offers(m)' = Offers(m) + (IF p \in TokensFor(m) THEN 1 ELSE 0)
  BY <1>0, <1>6, NumberAppend DEF Offers
<1>7. CASE BrokerPublish
  <2> DEFINE n == published + 1
  <2>1. n \in Messages /\ Pkt("PUBLISH", n) \in GoodPackets
    BY <1>7, MsgAssumption, LenProperties, PacketsGood
       DEF BrokerPublish, Messages, BrokerTypes, Handshake
  <2>2. Offers(m)' = Offers(m) + (IF n = m THEN 1 ELSE 0)
    <3>1. Pkt("PUBLISH", n) \in TokensFor(m) <=> n = m
      BY <2>1 DEF TokensFor, Pkt, Handshake
    <3>2. toClient' = Append(toClient, Pkt("PUBLISH", n))
      BY <1>7 DEF BrokerPublish, ToClient
    <3> QED
      BY <1>6, <2>1, <3>1, <3>2
  <2>3. Answers(m)' = Answers(m)
    BY <1>7 DEF BrokerPublish, Answers
  <2>4. m \in inflight' <=> m \in inflight \/ n = m
    BY <1>2, <1>7 DEF BrokerPublish
  <2>5. n \notin inflight
    BY <1>0 DEF TokenInv
  <2> HIDE DEF n
  <2> QED
    BY <1>0, <1>2, <1>3, <2>2, <2>3, <2>4, <2>5 DEF OneToken
<1>8. CASE BrokerAcknowledged
  <2> DEFINE p == Head(toBroker)
  <2>1. /\ toBroker # << >> /\ toBroker' = Tail(toBroker) /\ p.type \in {"PUBACK", "PUBCOMP"}
        /\ UNCHANGED toClient /\ inflight' = inflight \ {p.arg}
    BY <1>8 DEF BrokerAcknowledged, Receives
  <2>2. p \in TokensFor(m) <=> p.arg = m
    BY <1>5, <2>1 DEF TokensFor, Handshake
  <2>3. Answers(m)' = Answers(m) - (IF p.arg = m THEN 1 ELSE 0)
    BY <1>4, <2>1, <2>2
  <2>4. Answers(m)' \in Nat
    <3>1. toBroker' \in Seq(GoodPackets)
      BY <1>0, <2>1, ReceiveGood
    <3> QED
      BY <3>1, PlacesFinite DEF Answers
  <2>5. Offers(m)' = Offers(m)
    BY <2>1 DEF Offers
  <2>6. m \in inflight' <=> m \in inflight /\ p.arg # m
    BY <2>1
  <2> HIDE DEF p
  <2> QED
    BY <1>0, <1>2, <1>3, <2>3, <2>4, <2>5, <2>6 DEF OneToken
<1>9. CASE BrokerPubrec
  <2> DEFINE p == Head(toBroker)
             q == Pkt("PUBREL", p.arg)
  <2>1. /\ toBroker # << >> /\ toBroker' = Tail(toBroker) /\ p.type = "PUBREC"
        /\ toClient' = Append(toClient, q) /\ inflight' = inflight
    BY <1>9 DEF BrokerPubrec, Receives, ToClient, brokerVars
  <2>2. p.arg \in Messages
    BY <1>5, <2>1 DEF GoodPackets, WellFormed, Handshake
  <2>3. q \in GoodPackets
    BY <2>2, PacketsGood DEF Handshake
  <2>4. (p \in TokensFor(m) <=> p.arg = m) /\ (q \in TokensFor(m) <=> p.arg = m)
    BY <1>5, <2>1, <2>3 DEF TokensFor, Handshake, Pkt
  <2>5. Answers(m)' = Answers(m) - (IF p.arg = m THEN 1 ELSE 0)
    BY <1>4, <2>1, <2>4
  <2> HIDE DEF q
  <2>6. Offers(m)' = Offers(m) + (IF p.arg = m THEN 1 ELSE 0)
    BY <1>6, <2>1, <2>3, <2>4
  <2> HIDE DEF p
  <2> QED
    BY <1>0, <1>2, <1>3, <2>1, <2>5, <2>6 DEF OneToken
<1>10. CASE ~BrokerPublish /\ ~BrokerAcknowledged /\ ~BrokerPubrec
  <2>1. Offers(m)' = Offers(m)
    <3>1. CASE UNCHANGED toClient
      BY <3>1 DEF Offers
    <3>2. ASSUME NEW p \in GoodPackets, p.type \notin Handshake, toClient' = Append(toClient, p)
          PROVE  Offers(m)' = Offers(m)
      <4>1. Offers(m)' = Offers(m) + 0
        BY <1>6, <3>2 DEF TokensFor
      <4> QED
        BY <1>3, <4>1
    <3> QED
      BY <1>10, <3>1, <3>2, EnvAnswers
  <2>2. Answers(m)' = Answers(m)
    <3>1. /\ inflight' = inflight
          /\ \/ UNCHANGED toBroker
             \/ /\ toBroker # << >> /\ toBroker' = Tail(toBroker)
                /\ Head(toBroker).type \notin Handshake
      BY <1>2, <1>10
         DEF EnvNext, BrokerConnect, BrokerSubscribe, BrokerSuback, BrokerPing, BrokerClose,
             IntervalPasses, Receives, Handshake, brokerVars
    <3>2. CASE UNCHANGED toBroker
      BY <3>2 DEF Answers
    <3>3. CASE /\ toBroker # << >> /\ toBroker' = Tail(toBroker)
               /\ Head(toBroker).type \notin Handshake
      <4>1. Answers(m)' = Answers(m) - 0
        BY <1>4, <3>3 DEF TokensFor
      <4> QED
        BY <1>3, <4>1
    <3> QED
      BY <3>1, <3>2, <3>3
  <2>3. inflight' = inflight
    BY <1>10
       DEF EnvNext, BrokerConnect, BrokerSubscribe, BrokerSuback, BrokerPing, BrokerClose,
           IntervalPasses, brokerVars
  <2> QED
    BY <1>0, <1>2, <2>1, <2>2, <2>3 DEF OneToken
<1> QED
  BY <1>7, <1>8, <1>9, <1>10

\* An unacknowledged message of QoS 1 or 2 has exactly one packet of its handshake on the
\* way or in the I/O thread's hands, if no write has failed and no packets have been read
\* together, in a session that subscribes once and last: with two writers of sendBuf an
\* acknowledgement can go out as garbage.
THEOREM HandshakeHasOneToken ==
  ASSUME SubscribesOnceLast
  PROVE  Spec => []HandshakeToken
<1>1. Init => TokenInv
  <2> SUFFICES ASSUME Init PROVE TokenInv
    OBVIOUS
  <2>1. toBroker \in Seq({}) /\ toClient \in Seq({})
    BY DEF Init
  <2>2. ASSUME NEW m \in Messages
        PROVE  Answers(m) = 0 /\ Offers(m) = 0 /\ InHand(m) = 0
    <3>1. Answers(m) = 0 /\ Offers(m) = 0
      BY <2>1, NumberZero DEF Answers, Offers
    <3> QED
      BY <3>1 DEF Init, InHand
  <2> QED
    BY <2>2 DEF Init, TokenInv, OneToken
<1>2. TypeInv /\ SendBufIntact /\ TokenInv /\ [Next]_vars => TokenInv'
  <2>1. UNCHANGED vars /\ TokenInv => TokenInv'
    BY DEF vars, brokerVars, history, TokenInv, OneToken, Answers, Offers, InHand
  <2> QED
    BY <2>1, AppTokens, IoTokens, EnvTokens DEF Next
<1>3. TypeInv /\ TokenInv => HandshakeToken
  BY TokenNumbers DEF TypeInv, TokenInv, OneToken, HandshakeToken
<1> QED
  BY <1>1, <1>2, <1>3, TypeInvariance, IntactAlways, PTL DEF Spec

-----------------------------------------------------------------------------
(* Messages arrive in the order they were published *)

\* s holds the messages after low, up to high, each once and in order.
InOrder(s, low, high) ==
  /\ \A i \in DOMAIN s : s[i].type = "PUBLISH" => s[i].arg \in (low + 1)..high
  /\ \A i, j \in DOMAIN s : s[i].type = "PUBLISH" /\ s[j].type = "PUBLISH" /\ i < j
       => s[i].arg < s[j].arg
  /\ \A m \in (low + 1)..high : \E i \in DOMAIN s : s[i] = Pkt("PUBLISH", m)

\* The broker may send anything else in between, and the next message.
LEMMA OrderAppend ==
  ASSUME NEW s \in Seq(GoodPackets), NEW low \in Nat, NEW high \in Nat, low <= high,
         NEW p \in GoodPackets, InOrder(s, low, high)
  PROVE  /\ p.type # "PUBLISH" => InOrder(Append(s, p), low, high)
         /\ p = Pkt("PUBLISH", high + 1) => InOrder(Append(s, p), low, high + 1)
<1> DEFINE t == Append(s, p)
           n == Len(s) + 1
<1>1. /\ Len(s) \in Nat /\ DOMAIN s = 1..Len(s) /\ DOMAIN t = 1..n
      /\ t[n] = p /\ \A i \in 1..Len(s) : t[i] = s[i]
  BY AppendProperties, LenProperties
<1>2. n \in DOMAIN t /\ \A i \in DOMAIN t : i = n \/ (i \in DOMAIN s /\ i < n /\ t[i] = s[i])
  BY <1>1
<1>3. \A i \in DOMAIN s : i \in DOMAIN t /\ t[i] = s[i] /\ i < n
  BY <1>1
<1> HIDE DEF t, n
<1>4. \A i, j \in DOMAIN t : i < j => i # n /\ i \in DOMAIN s /\ t[i] = s[i]
  BY <1>1, <1>2
<1>5. ASSUME p.type # "PUBLISH" PROVE InOrder(t, low, high)
  <2>1. \A i \in DOMAIN t : t[i].type = "PUBLISH" => t[i].arg \in (low + 1)..high
    BY <1>1, <1>2, <1>5 DEF InOrder
  <2>2. \A i, j \in DOMAIN t : t[i].type = "PUBLISH" /\ t[j].type = "PUBLISH" /\ i < j
          => t[i].arg < t[j].arg
    BY <1>1, <1>2, <1>4, <1>5 DEF InOrder
  <2>3. \A m \in (low + 1)..high : \E i \in DOMAIN t : t[i] = Pkt("PUBLISH", m)
    BY <1>3 DEF InOrder
  <2> QED
    BY <2>1, <2>2, <2>3 DEF InOrder
<1>6. ASSUME p = Pkt("PUBLISH", high + 1) PROVE InOrder(t, low, high + 1)
  <2>0. p.type = "PUBLISH" /\ p.arg = high + 1
    BY <1>6 DEF Pkt
  <2>1. \A i \in DOMAIN t : t[i].type = "PUBLISH" => t[i].arg \in (low + 1)..(high + 1)
    BY <1>1, <1>2, <2>0 DEF InOrder
  <2>2. \A i, j \in DOMAIN t : t[i].type = "PUBLISH" /\ t[j].type = "PUBLISH" /\ i < j
          => t[i].arg < t[j].arg
    <3>1. \A i \in DOMAIN s : s[i].type = "PUBLISH" => s[i].arg < high + 1
      BY DEF InOrder
    <3> QED
      BY <1>1, <1>2, <1>4, <2>0, <3>1 DEF InOrder
  <2>3. \A m \in (low + 1)..(high + 1) : \E i \in DOMAIN t : t[i] = Pkt("PUBLISH", m)
    <3>1. \A m \in (low + 1)..(high + 1) : m = high + 1 \/ m \in (low + 1)..high
      OBVIOUS
    <3> QED
      BY <1>1, <1>2, <1>3, <1>6, <3>1 DEF InOrder
  <2> QED
    BY <2>1, <2>2, <2>3 DEF InOrder
<1> QED
  BY <1>5, <1>6 DEF t

\* The first PUBLISH that is read is the first message not yet read.
LEMMA OrderTail ==
  ASSUME NEW s \in Seq(GoodPackets), s # << >>, NEW low \in Nat, NEW high \in Nat,
         InOrder(s, low, high)
  PROVE  /\ Head(s).type # "PUBLISH" => InOrder(Tail(s), low, high)
         /\ Head(s).type = "PUBLISH" =>
              Head(s).arg = low + 1 /\ low + 1 <= high /\ InOrder(Tail(s), low + 1, high)
<1> DEFINE t == Tail(s)
<1>1. /\ Len(s) \in Nat \ {0} /\ DOMAIN s = 1..Len(s) /\ DOMAIN t = 1..(Len(s) - 1)
      /\ \A i \in 1..(Len(s) - 1) : t[i] = s[i + 1]
      /\ Head(s) = s[1]
  BY HeadTailProperties, LenProperties, EmptySeq
<1>2. \A i \in DOMAIN t : i \in Nat /\ i + 1 \in DOMAIN s /\ t[i] = s[i + 1] /\ 1 < i + 1
  BY <1>1
<1>3. \A i \in DOMAIN s : i = 1 \/ (i - 1 \in DOMAIN t /\ t[i - 1] = s[i] /\ 1 < i)
  BY <1>1
<1>4. 1 \in DOMAIN s
  BY <1>1
<1> HIDE DEF t
<1>5. \A i, j \in DOMAIN t : t[i].type = "PUBLISH" /\ t[j].type = "PUBLISH" /\ i < j
        => t[i].arg < t[j].arg
  <2> SUFFICES ASSUME NEW i \in DOMAIN t, NEW j \in DOMAIN t, i < j,
                      t[i].type = "PUBLISH", t[j].type = "PUBLISH"
               PROVE  t[i].arg < t[j].arg
    OBVIOUS
  <2>1. i + 1 \in DOMAIN s /\ j + 1 \in DOMAIN s /\ i + 1 < j + 1
    BY <1>2
  <2> QED
    BY <1>2, <2>1 DEF InOrder
<1>6. ASSUME Head(s).type # "PUBLISH" PROVE InOrder(t, low, high)
  <2>1. \A i \in DOMAIN t : t[i].type = "PUBLISH" => t[i].arg \in (low + 1)..high
    BY <1>2 DEF InOrder
  <2>2. \A m \in (low + 1)..high : \E i \in DOMAIN t : t[i] = Pkt("PUBLISH", m)
    <3> SUFFICES ASSUME NEW m \in (low + 1)..high
                 PROVE  \E i \in DOMAIN t : t[i] = Pkt("PUBLISH", m)
      OBVIOUS
    <3>1. PICK i \in DOMAIN s : s[i] = Pkt("PUBLISH", m)
      BY DEF InOrder
    <3>2. i # 1
      BY <1>1, <1>6, <3>1 DEF Pkt
    <3> QED
      BY <1>3, <3>1, <3>2
  <2> QED
    BY <1>5, <2>1, <2>2 DEF InOrder
<1>7. ASSUME Head(s).type = "PUBLISH"
      PROVE  Head(s).arg = low + 1 /\ low + 1 <= high /\ InOrder(t, low + 1, high)
  <2>1. s[1].type = "PUBLISH" /\ s[1].arg \in (low + 1)..high
    BY <1>1, <1>4, <1>7 DEF InOrder
  <2>2. \A i \in DOMAIN t : t[i].type = "PUBLISH" => s[1].arg < t[i].arg
    BY <1>2, <1>4, <2>1 DEF InOrder
  <2>3. s[1].arg = low + 1
    <3>1. PICK i \in DOMAIN s : s[i] = Pkt("PUBLISH", low + 1)
      BY <2>1 DEF InOrder
    <3>2. CASE i = 1
      BY <3>1, <3>2 DEF Pkt
    <3>3. CASE i # 1
      <4>1. t[i - 1] = Pkt("PUBLISH", low + 1) /\ i - 1 \in DOMAIN t
        BY <1>3, <3>1, <3>3
      <4>2. s[1].arg < low + 1
        BY <2>2, <4>1 DEF Pkt
      <4> QED
        BY <2>1, <4>2
    <3> QED
      BY <3>2, <3>3
  <2>4. \A i \in DOMAIN t : t[i].type = "PUBLISH" => t[i].arg \in (low + 1 + 1)..high
    <3>1. \A i \in DOMAIN t : t[i].type = "PUBLISH" => t[i].arg \in (low + 1)..high
      BY <1>2 DEF InOrder
    <3> QED
      BY <2>2, <2>3, <3>1
  <2>5. \A m \in (low + 1 + 1)..high : \E i \in DOMAIN t : t[i] = Pkt("PUBLISH", m)
    <3> SUFFICES ASSUME NEW m \in (low + 1 + 1)..high
                 PROVE  \E i \in DOMAIN t : t[i] = Pkt("PUBLISH", m)
      OBVIOUS
    <3>1. PICK i \in DOMAIN s : s[i] = Pkt("PUBLISH", m)
      BY DEF InOrder
    <3>2. i # 1
      BY <2>3, <3>1 DEF Pkt
    <3> QED
      BY <1>3, <3>1, <3>2
  <2> QED
    BY <1>1, <1>5, <2>1, <2>3, <2>4, <2>5 DEF InOrder
<1> QED
  BY <1>6, <1>7 DEF t

\* The messages read so far: those handled, and the one in the I/O thread's hands, which
\* is the next.
ReadIn == handled + (IF Handling("PUBLISH") THEN 1 ELSE 0)
OrderInv ==
  /\ ReadIn <= published
  /\ Handling("PUBLISH") => packetBuf.arg = handled + 1
  /\ ioPc # "killed" => InOrder(toClient, ReadIn, published)

\* The application thread reads no packet; it can end the process.
LEMMA AppOrder ==
  ASSUME TypeInv, OrderInv, AppNext
  PROVE  OrderInv'
<1> USE DEF TypeInv, TypeOK
<1>1. UNCHANGED <<packetBuf, toClient, published, handled>> /\ handled \in Nat /\ published \in Nat
  BY AppSends DEF brokerVars, HistoryTypes, BrokerTypes
<1>2. ioPc' \in {ioPc, "killed"}
  BY DEF AppNext, ConnectBegin, ConnectSend, ConnackWait, ConnackRead, SubscribeBegin,
         SubscribeSend, SubackWait, SubackRead, SetFilter, SetHandler, CloseSession, Killed,
         AppLeaves
<1>3. CASE ioPc' = ioPc
  BY <1>1, <1>3 DEF OrderInv, ReadIn, Handling
<1>4. CASE ioPc' = "killed"
  <2>1. ~Handling("PUBLISH")' /\ ReadIn' = handled
    BY <1>1, <1>4 DEF ReadIn, Handling
  <2>2. handled <= published
    BY <1>1 DEF OrderInv, ReadIn
  <2> QED
    BY <1>1, <1>4, <2>1, <2>2 DEF OrderInv
<1> QED
  BY <1>2, <1>3, <1>4

\* The I/O thread reads the head of the channel and handles what it has read.
LEMMA IoOrder ==
  ASSUME Apart', TypeInv, OrderInv, IoNext
  PROVE  OrderInv'
<1> USE DEF TypeInv, TypeOK
<1>a. "joined" \notin faults'
  BY DEF Apart
<1>0. /\ published' = published /\ handled \in Nat /\ published \in Nat
      /\ toClient \in Seq(GoodPackets)
  BY IoReads DEF brokerVars, HistoryTypes, BrokerTypes, GoodChannels
<1>1. CASE ReadEnd
  <2>1. /\ ioPc = "read" /\ ioPc' = "handle" /\ toClient # << >> /\ packetBuf' = Head(toClient)
        /\ toClient' = Tail(toClient) /\ handled' = handled
    BY <1>a, <1>1, IoApart DEF ReadEnd, Unread, ReaderTypes, history
  <2>2. ReadIn = handled /\ ReadIn <= published /\ InOrder(toClient, handled, published)
    BY <1>0, <2>1 DEF ReadIn, Handling, OrderInv
  <2>3. Handling("PUBLISH")' <=> Head(toClient).type = "PUBLISH"
    BY <2>1 DEF Handling
  <2>4. CASE Head(toClient).type = "PUBLISH"
    <3>1. /\ Head(toClient).arg = handled + 1 /\ handled + 1 <= published
          /\ InOrder(toClient', handled + 1, published)
      BY <1>0, <2>1, <2>2, <2>4, OrderTail
    <3>2. ReadIn' = handled + 1
      BY <2>1, <2>3, <2>4 DEF ReadIn
    <3> QED
      BY <1>0, <2>1, <3>1, <3>2 DEF OrderInv
  <2>5. CASE Head(toClient).type # "PUBLISH"
    <3>1. InOrder(toClient', handled, published)
      BY <1>0, <2>1, <2>2, <2>5, OrderTail
    <3>2. ReadIn' = handled /\ ~Handling("PUBLISH")'
      BY <1>0, <2>1, <2>3, <2>5 DEF ReadIn
    <3> QED
      BY <1>0, <2>2, <3>1, <3>2 DEF OrderInv
  <2> QED
    BY <2>4, <2>5
<1>2. CASE HandlePublish
  <2>1. /\ Handling("PUBLISH") /\ ioPc' \in {"sleep", "ackSend"} /\ ioPc # "killed"
        /\ handled' = handled + 1 /\ toClient' = toClient
    BY <1>2 DEF HandlePublish, Handling
  <2>2. ReadIn = handled + 1 /\ ReadIn' = handled + 1 /\ ~Handling("PUBLISH")'
    BY <1>0, <2>1 DEF ReadIn, Handling
  <2> QED
    BY <1>0, <2>1, <2>2 DEF OrderInv
<1>3. CASE Killed(ioPc \in {"ackSend", "pingSend"})
  <2>1. ioPc' = "killed" /\ handled' = handled /\ ~Handling("PUBLISH")' /\ ~Handling("PUBLISH")
    BY <1>3 DEF Killed, Handling, history
  <2> QED
    BY <1>0, <2>1 DEF OrderInv, ReadIn
<1>4. ASSUME UNCHANGED <<toClient, handled>>, ~Handling("PUBLISH"), ~Handling("PUBLISH")',
             ioPc # "killed"
      PROVE  OrderInv'
  <2>1. ReadIn' = ReadIn
    BY <1>4 DEF ReadIn
  <2> QED
    BY <1>0, <1>4, <2>1 DEF OrderInv
<1>5. CASE \/ ReadBegin \/ NeedMore \/ HandleAnswer \/ HandlePubrel \/ HandlePingresp
           \/ AckSend \/ Wake \/ KeepaliveCheck \/ PingSend \/ Eof \/ Disconnect
  <2>1. /\ UNCHANGED <<toClient, handled>> /\ ~Handling("PUBLISH") /\ ioPc' # "handle"
        /\ ioPc # "killed"
    BY <1>a, <1>5, IoApart
       DEF ReadBegin, NeedMore, HandleAnswer, HandlePubrel, HandlePingresp, AckSend, Wake,
           KeepaliveCheck, PingSend, Eof, Disconnect, Handling, history
  <2> QED
    BY <1>4, <2>1 DEF Handling
<1> QED
  BY <1>a, <1>1, <1>2, <1>3, <1>5, IoApart DEF IoNext

\* The broker publishes the next message behind the others.
LEMMA EnvOrder ==
  ASSUME TypeInv, OrderInv, EnvNext
  PROVE  OrderInv'
<1> USE DEF TypeInv, TypeOK
<1>0. /\ UNCHANGED <<packetBuf, ioPc, handled>> /\ handled \in Nat /\ published \in Nat
      /\ toClient \in Seq(GoodPackets)
  BY EnvReceives DEF HistoryTypes, BrokerTypes, GoodChannels
<1>1. /\ ReadIn' = ReadIn /\ ReadIn \in Nat /\ ReadIn <= published
      /\ (Handling("PUBLISH")' <=> Handling("PUBLISH"))
  BY <1>0 DEF ReadIn, Handling, OrderInv
<1>2. CASE BrokerPublish
  <2> DEFINE p == Pkt("PUBLISH", published + 1)
  <2>1. published' = published + 1 /\ toClient' = Append(toClient, p)
    BY <1>2 DEF BrokerPublish, ToClient
  <2>2. published + 1 \in Messages
    BY <1>2, MsgAssumption, LenProperties DEF BrokerPublish, Messages, BrokerTypes
  <2>3. p \in GoodPackets
    BY <2>2, PacketsGood DEF Handshake
  <2> HIDE DEF p
  <2>4. ioPc # "killed" => InOrder(toClient', ReadIn, published + 1)
    BY <1>0, <1>1, <2>1, <2>3, OrderAppend DEF OrderInv, p
  <2> QED
    BY <1>0, <1>1, <2>1, <2>4 DEF OrderInv
<1>3. CASE ~BrokerPublish
  <2>1. published' = published
    BY <1>3
       DEF EnvNext, BrokerConnect, BrokerSubscribe, BrokerSuback, BrokerPing, BrokerAcknowledged,
           BrokerPubrec, BrokerClose, IntervalPasses, brokerVars
  <2>2. ASSUME ioPc # "killed"
        PROVE  InOrder(toClient', ReadIn, published)
    <3>1. InOrder(toClient, ReadIn, published)
      BY <2>2 DEF OrderInv
    <3>2. CASE UNCHANGED toClient
      BY <3>1, <3>2
    <3>3. ASSUME NEW p \in GoodPackets, p.type # "PUBLISH", toClient' = Append(toClient, p)
          PROVE  InOrder(toClient', ReadIn, published)
      BY <1>0, <1>1, <3>1, <3>3, OrderAppend
    <3> QED
      BY <1>3, <3>2, <3>3, EnvAnswers
  <2> QED
    BY <1>0, <1>1, <2>1, <2>2 DEF OrderInv
<1> QED
  BY <1>2, <1>3

\* Until packets are read together, the messages not yet read are on their way in order.
LEMMA OrderAlways == Spec => [](Apart => OrderInv)
<1>1. Init => OrderInv
  <2> SUFFICES ASSUME Init PROVE OrderInv
    OBVIOUS
  <2>1. ReadIn = 0 /\ published = 0 /\ ~Handling("PUBLISH")
    BY DEF Init, ReadIn, Handling
  <2>2. InOrder(<< >>, 0, 0)
    BY DEF InOrder
  <2> QED
    BY <2>1, <2>2 DEF Init, OrderInv
<1>2. TypeInv /\ (Apart => OrderInv) /\ [Next]_vars => (Apart => OrderInv)'
  <2>1. UNCHANGED vars /\ OrderInv => OrderInv'
    BY DEF vars, brokerVars, history, OrderInv, ReadIn, Handling
  <2> QED
    BY <2>1, AppOrder, IoOrder, EnvOrder, FaultsStay DEF Next
<1> QED
  BY <1>1, <1>2, TypeInvariance, PTL DEF Spec

-----------------------------------------------------------------------------
(* Filters and deliveries *)

\* A filter is in one slot, and the slot a subscription is about to take holds no other.
FilterOf(i) == messageHandlers[i].topicFilter
UniqueFilters ==
  \A i, j \in Slots : FilterOf(i) = FilterOf(j) /\ FilterOf(i) # NULL => i = j
SlotReserved ==
  appPc = "setFilter" => /\ \A i \in SlotsWith(CurrentTopic) : i = appSlot
                         /\ FilterOf(appSlot) \in {NULL, CurrentTopic}
FilterInv == UniqueFilters /\ SlotReserved

\* MQTTSetMessageHandler takes the slot that holds the filter, otherwise an empty one.
LEMMA SlotForChoice ==
  ASSUME NEW t, SlotFor(t) # 0
  PROVE  SlotFor(t) \in (IF SlotsWith(t) # {} THEN SlotsWith(t) ELSE SlotsWith(NULL))
<1>1. ASSUME NEW S \in SUBSET Slots, First(S) # 0
      PROVE  First(S) \in S
  <2>1. S # {}
    BY <1>1 DEF First
  <2>2. \E i \in S : \A j \in S : i <= j
    BY <2>1, LeastSlot
  <2> QED
    BY <2>1, <2>2 DEF First
<1>2. SlotsWith(t) \subseteq Slots /\ SlotsWith(NULL) \subseteq Slots
  BY DEF SlotsWith
<1> QED
  BY <1>1, <1>2 DEF SlotFor

\* MQTTCleanSession empties the table.
LEMMA NoFilterLeft ==
  ASSUME ClientTypes, MQTTCleanSession
  PROVE  \A i \in Slots : FilterOf(i)' = NULL
<1>1. messageHandlers' = [i \in Slots |-> [messageHandlers[i] EXCEPT !.topicFilter = NULL]]
  BY DEF MQTTCleanSession, NoFilters
<1>2. ASSUME NEW i \in Slots
      PROVE  messageHandlers'[i].topicFilter = NULL
  <2>1. messageHandlers'[i] = [messageHandlers[i] EXCEPT !.topicFilter = NULL]
    BY <1>1
  <2>2. messageHandlers[i] \in [topicFilter : 0..Topics, fp : BOOLEAN]
    BY DEF ClientTypes
  <2> QED
    BY <2>1, <2>2
<1> QED
  BY <1>2 DEF FilterOf

\* One thread installs a filter, the other one drops them all.
LEMMA DroppedFilters ==
  ASSUME AppTypes, ClientTypes, FilterInv, MQTTCleanSession,
         UNCHANGED <<results, appSlot>>, appPc' = "setFilter" => appPc = "setFilter"
  PROVE  FilterInv'
<1>1. \A i \in Slots : FilterOf(i)' = NULL
  BY NoFilterLeft
<1>2. SlotReserved'
  <2> SUFFICES ASSUME appPc' = "setFilter" PROVE SlotReserved'
    BY DEF SlotReserved
  <2>1. appPc = "setFilter" /\ CurrentTopic # NULL /\ appSlot \in Slots
    BY DEF AppTypes, CurrentTopic, NULL
  <2>2. UNCHANGED <<CurrentTopic, appSlot>>
    BY DEF CurrentTopic, NextCall
  <2> QED
    BY <1>1, <2>1, <2>2 DEF SlotReserved, SlotsWith, FilterOf
<1> QED
  BY <1>1, <1>2 DEF FilterInv, UniqueFilters

\* The application thread reserves a slot and fills it in two steps.
LEMMA AppFilters ==
  ASSUME TypeInv, FilterInv, AppNext
  PROVE  FilterInv'
<1> USE DEF TypeInv, TypeOK
<1>1. CASE SubackRead
  <2>1. UNCHANGED messageHandlers
    BY <1>1 DEF SubackRead, clientVars
  <2>2. UniqueFilters /\ UniqueFilters'
    BY <2>1 DEF FilterInv, UniqueFilters, FilterOf
  <2>3. SUFFICES ASSUME appPc' = "setFilter" PROVE SlotReserved'
    BY <2>2 DEF FilterInv, SlotReserved
  <2>4. /\ appSlot' = SlotFor(CurrentTopic) /\ appSlot' # 0 /\ CurrentTopic' = CurrentTopic
        /\ CurrentTopic # NULL
    BY <1>1, <2>3 DEF SubackRead, Goto, Return, CurrentTopic, NextCall, AppTypes, NULL
  <2>5. appSlot' \in (IF SlotsWith(CurrentTopic) # {} THEN SlotsWith(CurrentTopic)
                      ELSE SlotsWith(NULL))
    BY <2>4, SlotForChoice
  <2>6. \A i \in SlotsWith(CurrentTopic) : i = appSlot'
    BY <2>2, <2>4, <2>5 DEF SlotsWith, UniqueFilters, FilterOf
  <2>7. FilterOf(appSlot') \in {NULL, CurrentTopic}
    BY <2>5 DEF SlotsWith, FilterOf
  <2> QED
    BY <2>1, <2>4, <2>6, <2>7 DEF SlotReserved, SlotsWith, FilterOf
<1>2. CASE SetFilter
  <2>1. /\ appPc = "setFilter" /\ appSlot \in Slots /\ appPc' # "setFilter"
        /\ messageHandlers' = [messageHandlers EXCEPT ![appSlot].topicFilter = CurrentTopic]
    BY <1>2 DEF SetFilter, Goto, AppTypes
  <2>2. \A i \in Slots : FilterOf(i)' = IF i = appSlot THEN CurrentTopic ELSE FilterOf(i)
    BY <2>1 DEF FilterOf, ClientTypes
  <2>3. \A i \in Slots : FilterOf(i) = CurrentTopic => i = appSlot
    BY <2>1 DEF FilterInv, SlotReserved, SlotsWith, FilterOf
  <2>4. UniqueFilters'
    BY <2>2, <2>3 DEF FilterInv, UniqueFilters
  <2> QED
    BY <2>1, <2>4 DEF FilterInv, SlotReserved
<1>3. CASE SetHandler
  <2>1. /\ appPc' # "setFilter"
        /\ messageHandlers' = [messageHandlers EXCEPT ![appSlot].fp = TRUE]
    BY <1>3 DEF SetHandler, Return
  <2>2. \A i \in Slots : FilterOf(i)' = FilterOf(i)
    BY <2>1 DEF FilterOf, ClientTypes
  <2> QED
    BY <2>1, <2>2 DEF FilterInv, UniqueFilters, SlotReserved
<1>4. CASE CloseSession
  <2>1. appPc' # "setFilter" /\ MQTTCleanSession
    BY <1>4 DEF CloseSession, Return, MQTTCloseSession
  <2>2. \A i \in Slots : FilterOf(i)' = NULL
    BY <2>1, NoFilterLeft
  <2> QED
    BY <2>1, <2>2 DEF FilterInv, UniqueFilters, SlotReserved
<1>5. CASE \/ ConnectBegin \/ ConnectSend \/ ConnackWait \/ ConnackRead \/ SubscribeBegin
           \/ SubscribeSend \/ SubackWait \/ Killed(appPc \in {"connectSend", "subscribeSend"})
  <2>1. appPc' # "setFilter" /\ UNCHANGED messageHandlers
    BY <1>5 DEF ConnectBegin, ConnectSend, ConnackWait, ConnackRead, SubscribeBegin,
                SubscribeSend, SubackWait, Killed, Goto, Return, clientVars
  <2> QED
    BY <2>1 DEF FilterInv, UniqueFilters, SlotReserved, FilterOf
<1> QED
  BY <1>1, <1>2, <1>3, <1>4, <1>5 DEF AppNext

\* The I/O thread can drop the filters between the two.
LEMMA IoFilters ==
  ASSUME TypeInv, FilterInv, IoNext
  PROVE  FilterInv'
<1> USE DEF TypeInv, TypeOK
<1>1. UNCHANGED <<results, appSlot>> /\ (appPc' = "setFilter" => appPc = "setFilter")
  BY IoReads
<1>2. CASE UNCHANGED messageHandlers
  <2>1. CurrentTopic' = CurrentTopic
    BY <1>1 DEF CurrentTopic, NextCall
  <2> QED
    BY <1>1, <1>2, <2>1 DEF FilterInv, UniqueFilters, SlotReserved, SlotsWith, FilterOf
<1>3. CASE MQTTCleanSession
  BY <1>1, <1>3, DroppedFilters
<1> QED
  BY <1>2, <1>3, IoCloses

\* Nobody else touches the table.
LEMMA EnvFilters ==
  ASSUME FilterInv, EnvNext \/ UNCHANGED vars
  PROVE  FilterInv'
<1>1. UNCHANGED <<appPc, results, appSlot, messageHandlers>>
  BY EnvReceives DEF appVars, clientVars, vars
<1>2. CurrentTopic' = CurrentTopic
  BY <1>1 DEF CurrentTopic, NextCall
<1> QED
  BY <1>1, <1>2 DEF FilterInv, UniqueFilters, SlotReserved, SlotsWith, FilterOf

\* In every state the table holds a filter once.
LEMMA FiltersAlways == Spec => []FilterInv
<1>1. Init => FilterInv
  BY DEF Init, EmptySlot, FilterInv, UniqueFilters, SlotReserved, FilterOf
<1>2. TypeInv /\ FilterInv /\ [Next]_vars => FilterInv'
  BY AppFilters, IoFilters, EnvFilters DEF Next
<1> QED
  BY <1>1, <1>2, TypeInvariance, PTL DEF Spec

\* deliverMessage calls one handler, or none: as many as there are slots with the topic
\* and a handler.
LEMMA DeliverOne ==
  ASSUME TypeInv, UniqueFilters, NEW m \in Messages, Deliver(m)
  PROVE  delivered' = IF Holds(MsgTopic[m]) THEN Append(delivered, m) ELSE delivered
<1> USE DEF TypeInv, TypeOK
<1> DEFINE matching == {i \in Slots : /\ messageHandlers[i].topicFilter = MsgTopic[m]
                                      /\ messageHandlers[i].fp}
           copies == [i \in 1..Cardinality(matching) |-> m]
<1>1. MsgTopic[m] \in 1..Topics
  BY MsgAssumption, ElementOfSeq DEF Messages
<1>2. \A i \in Slots : i \in matching
                         <=> messageHandlers[i] = [topicFilter |-> MsgTopic[m], fp |-> TRUE]
  BY DEF ClientTypes
<1>3. \A i, j \in matching : i = j
  BY <1>1 DEF UniqueFilters, FilterOf, NULL
<1>4. delivered' = delivered \o copies /\ delivered \in Seq(Messages)
  BY DEF Deliver, HistoryTypes
<1>5. CASE Holds(MsgTopic[m])
  <2>1. PICK i \in Slots : messageHandlers[i] = [topicFilter |-> MsgTopic[m], fp |-> TRUE]
    BY <1>5 DEF Holds
  <2>2. matching = {i}
    BY <1>2, <1>3, <2>1
  <2>3. Cardinality(matching) = 1
    BY <2>2, FS_Singleton
  <2> HIDE DEF matching
  <2>4. copies \in Seq(Messages) /\ Len(copies) = 1 /\ copies[1] = m
    BY <2>3
  <2> HIDE DEF copies
  <2>5. delivered \o copies = Append(delivered, m)
    <3>1. /\ delivered \o copies \in Seq(Messages)
          /\ Len(delivered \o copies) = Len(delivered) + Len(copies)
          /\ \A k \in 1..(Len(delivered) + Len(copies)) :
                (delivered \o copies)[k]
                  = IF k <= Len(delivered) THEN delivered[k] ELSE copies[k - Len(delivered)]
      BY <1>4, <2>4, ConcatProperties
    <3>2. /\ Append(delivered, m) \in Seq(Messages)
          /\ Len(Append(delivered, m)) = Len(delivered) + 1
          /\ Append(delivered, m)[Len(delivered) + 1] = m
          /\ \A k \in 1..Len(delivered) : Append(delivered, m)[k] = delivered[k]
      BY <1>4, AppendProperties
    <3>3. Len(delivered) \in Nat
      BY <1>4, LenProperties
    <3>4. \A k \in 1..(Len(delivered) + 1) : (delivered \o copies)[k] = Append(delivered, m)[k]
      BY <2>4, <3>1, <3>2, <3>3
    <3> QED
      BY <2>4, <3>1, <3>2, <3>4, SeqEqual
  <2> QED
    BY <1>4, <1>5, <2>5
<1>6. CASE ~Holds(MsgTopic[m])
  <2>1. matching = {}
    BY <1>2, <1>6 DEF Holds
  <2>2. Cardinality(matching) = 0
    BY <2>1, FS_EmptySet
  <2> HIDE DEF matching
  <2>3. copies = << >>
    BY <2>2
  <2> HIDE DEF copies
  <2> QED
    BY <1>4, <1>6, <2>3, ConcatEmptySeq
<1> QED
  BY <1>5, <1>6

\* Until packets are read together, nothing has been delivered that was not handled, and
\* nothing twice.
DeliveredInv ==
  Apart => /\ \A i \in DOMAIN delivered : delivered[i] <= handled
           /\ \A i, j \in DOMAIN delivered : delivered[i] = delivered[j] => i = j

\* Only the handling of a PUBLISH delivers, and it delivers the next message.
LEMMA Delivery ==
  ASSUME TypeInv, OrderInv, UniqueFilters, [Next]_vars
  PROVE  \/ UNCHANGED <<handled, delivered>>
         \/ /\ HandlePublish
            /\ handled' = handled + 1 /\ handled + 1 \in Messages
            /\ delivered' = IF Holds(MsgTopic[handled + 1])
                            THEN Append(delivered, handled + 1) ELSE delivered
<1> USE DEF TypeInv, TypeOK
<1>1. CASE HandlePublish
  <2>1. packetBuf \in GoodPackets /\ packetBuf.type = "PUBLISH" /\ Handling("PUBLISH")
    BY <1>1 DEF HandlePublish, GoodChannels, Handling
  <2>2. packetBuf.arg \in Messages /\ packetBuf.arg = handled + 1
    BY <2>1 DEF GoodPackets, WellFormed, Handshake, OrderInv
  <2>3. Deliver(handled + 1) /\ handled' = handled + 1
    BY <1>1, <2>2 DEF HandlePublish, MessageOf
  <2> QED
    BY <1>1, <2>2, <2>3, DeliverOne
<1>2. CASE ~HandlePublish
  <2>1. CASE IoNext
    BY <1>2, <2>1
       DEF IoNext, ReadBegin, NeedMore, ReadEnd, Again, Lose, HandleAnswer, HandlePubrel, HandlePingresp, AckSend, Wake,
           KeepaliveCheck, PingSend, Eof, Disconnect, Killed, history
  <2> QED
    BY <2>1, AppSends, EnvReceives DEF Next, vars, history
<1> QED
  BY <1>1, <1>2

\* A message reaches its handler once, whatever is called and however the threads
\* interleave, as long as no packets are read together: the messages are handled in order,
\* and no two slots hold one filter.
THEOREM MessagesAreDeliveredOnce == Spec => []DeliveredOnce
<1>1. Init => DeliveredInv
  BY DEF Init, DeliveredInv
<1>2. TypeInv /\ (Apart => OrderInv) /\ FilterInv /\ DeliveredInv /\ [Next]_vars
        => DeliveredInv'
  <2> SUFFICES ASSUME TypeInv, Apart => OrderInv, FilterInv, DeliveredInv, [Next]_vars, Apart'
               PROVE  DeliveredInv'
    BY DEF DeliveredInv
  <2>0. Apart /\ OrderInv
    BY FaultsStay
  <2>1. delivered \in Seq(Messages) /\ handled \in Nat
    BY DEF TypeInv, TypeOK, HistoryTypes
  <2>2. CASE handled' \in {handled, handled + 1} /\ delivered' = delivered
    <3>1. \A i \in DOMAIN delivered : delivered[i] \in Nat
      BY <2>1, ElementOfSeq, LenProperties DEF Messages
    <3> QED
      BY <2>0, <2>1, <2>2, <3>1 DEF DeliveredInv
  <2>3. CASE handled' = handled + 1 /\ handled + 1 \in Messages
             /\ delivered' = Append(delivered, handled + 1)
    <3> DEFINE n == Len(delivered) + 1
    <3>1. /\ Len(delivered) \in Nat /\ DOMAIN delivered = 1..Len(delivered)
          /\ DOMAIN delivered' = 1..n /\ delivered'[n] = handled + 1
          /\ \A i \in 1..Len(delivered) : delivered'[i] = delivered[i]
      BY <2>1, <2>3, AppendProperties, LenProperties
    <3>2. \A i \in 1..n : i = n \/ (i \in DOMAIN delivered /\ delivered'[i] = delivered[i])
      BY <3>1
    <3>3. \A i \in DOMAIN delivered : delivered[i] \in Nat /\ delivered[i] <= handled
      BY <2>0, <2>1, ElementOfSeq, LenProperties DEF Messages, DeliveredInv
    <3> HIDE DEF n
    <3>4. (\A i \in DOMAIN delivered : delivered[i] <= handled)'
      BY <2>1, <2>3, <3>1, <3>2, <3>3
    <3>5. (\A i, j \in DOMAIN delivered : delivered[i] = delivered[j] => i = j)'
      BY <2>0, <2>1, <3>1, <3>2, <3>3 DEF DeliveredInv
    <3> QED
      BY <3>4, <3>5 DEF DeliveredInv
  <2> QED
    BY <2>0, <2>2, <2>3, Delivery DEF FilterInv
<1>3. DeliveredInv => DeliveredOnce
  BY DEF DeliveredInv, DeliveredOnce, Apart
<1> QED
  BY <1>1, <1>2, <1>3, TypeInvariance, OrderAlways, FiltersAlways, PTL DEF Spec

-----------------------------------------------------------------------------
(* No gap *)

\* The messages are of one topic.
OneTopic == \A m, n \in Messages : MsgTopic[m] = MsgTopic[n]

\* Once a message has been delivered, the last one delivered is the last one handled, and
\* the handler stays until the session is closed or the I/O thread has ended.
IsRun == \A i \in DOMAIN delivered : delivered[i] = handled - Len(delivered) + i
GapInv ==
  faults \cap {"close", "joined"} = {} /\ delivered # << >> =>
    /\ IsRun
    /\ ioPc \notin {"disconnect", "exited", "killed"} => \A m \in Messages : Holds(MsgTopic[m])

\* A subscription for another filter takes no handler away.
LEMMA AppHolds ==
  ASSUME TypeInv, FilterInv, AppNext, "close" \notin faults', NEW t \in 1..Topics, Holds(t)
  PROVE  Holds(t)'
<1> USE DEF TypeInv, TypeOK
<1>0. PICK i \in Slots : messageHandlers[i] = [topicFilter |-> t, fp |-> TRUE]
  BY DEF Holds
<1>1. ASSUME messageHandlers'[i].topicFilter = t, messageHandlers'[i].fp = TRUE
      PROVE  Holds(t)'
  <2>1. messageHandlers'[i] \in [topicFilter : 0..Topics, fp : BOOLEAN]
    BY AppStepTypes DEF ClientTypes
  <2>2. messageHandlers'[i] = [topicFilter |-> t, fp |-> TRUE]
    BY <1>1, <2>1
  <2> QED
    BY <2>2 DEF Holds
<1>2. CASE SetFilter
  <2>1. /\ appPc = "setFilter" /\ appSlot \in Slots
        /\ messageHandlers' = [messageHandlers EXCEPT ![appSlot].topicFilter = CurrentTopic]
    BY <1>2 DEF SetFilter, AppTypes
  <2>2. i = appSlot => CurrentTopic = t
    BY <1>0, <2>1 DEF FilterInv, SlotReserved, FilterOf, NULL
  <2>3. messageHandlers'[i].topicFilter = t /\ messageHandlers'[i].fp = TRUE
    BY <1>0, <2>1, <2>2 DEF ClientTypes
  <2> QED
    BY <1>1, <2>3
<1>3. CASE SetHandler
  <2>1. messageHandlers' = [messageHandlers EXCEPT ![appSlot].fp = TRUE]
    BY <1>3 DEF SetHandler
  <2>2. messageHandlers'[i].topicFilter = t /\ messageHandlers'[i].fp = TRUE
    BY <1>0, <2>1 DEF ClientTypes
  <2> QED
    BY <1>1, <2>2
<1>4. CASE UNCHANGED messageHandlers
  BY <1>0, <1>4 DEF Holds
<1>5. ~CloseSession
  BY DEF CloseSession
<1> QED
  BY <1>2, <1>3, <1>4, <1>5
     DEF AppNext, ConnectBegin, ConnectSend, ConnackWait, ConnackRead, SubscribeBegin,
         SubscribeSend, SubackWait, SubackRead, Killed, clientVars

\* In a session that is not closed, the filters are dropped with the end of the I/O thread.
LEMMA IoHolds ==
  ASSUME TypeInv, IoNext, "close" \notin faults', ioPc' \notin {"disconnect", "exited", "killed"}
  PROVE  UNCHANGED messageHandlers /\ ioPc \notin {"disconnect", "exited", "killed"}
<1>1. UNCHANGED messageHandlers
  BY IoCloses
<1>2. ioPc \notin {"disconnect", "exited", "killed"}
  BY DEF IoNext, ReadBegin, NeedMore, ReadEnd, Again, Lose, HandleAnswer, HandlePublish,
         HandlePubrel, HandlePingresp, AckSend, Wake, KeepaliveCheck, PingSend, Eof, Disconnect,
         Killed
<1> QED
  BY <1>1, <1>2

\* What is handled next is delivered next.
LEMMA RunGrows ==
  ASSUME TypeInv, handled' = handled + 1, handled + 1 \in Messages,
         delivered' = Append(delivered, handled + 1), delivered # << >> => IsRun
  PROVE  IsRun'
<1> USE DEF TypeInv, TypeOK
<1> DEFINE n == Len(delivered) + 1
<1>0. delivered \in Seq(Messages) /\ handled \in Nat
  BY DEF HistoryTypes
<1>1. /\ Len(delivered) \in Nat /\ DOMAIN delivered = 1..Len(delivered)
      /\ DOMAIN delivered' = 1..n /\ Len(delivered') = n /\ delivered'[n] = handled + 1
      /\ \A i \in 1..Len(delivered) : delivered'[i] = delivered[i]
  BY <1>0, AppendProperties, LenProperties
<1>2. ASSUME NEW i \in DOMAIN delivered'
      PROVE  delivered'[i] = handled' - Len(delivered') + i
  <2>1. CASE i = n
    BY <1>0, <1>1, <2>1
  <2>2. CASE i # n
    <3>1. i \in DOMAIN delivered /\ delivered # << >>
      BY <1>1, <1>2, <2>2
    <3>2. delivered[i] = handled - Len(delivered) + i
      BY <3>1 DEF IsRun
    <3> QED
      BY <1>0, <1>1, <3>1, <3>2
  <2> QED
    BY <2>1, <2>2
<1> QED
  BY <1>2 DEF IsRun

\* The messages the application sees are a run of the messages read, without a gap and up
\* to the last one, until the session is closed or packets are read together, if they are
\* of one topic.
THEOREM DeliveryHasNoGap ==
  ASSUME OneTopic
  PROVE  Spec => []DeliveredWithoutGap
<1>1. Init => GapInv
  BY DEF Init, GapInv
<1>2. TypeInv /\ (Apart => OrderInv) /\ FilterInv /\ GapInv /\ [Next]_vars => GapInv'
  <2> SUFFICES ASSUME TypeInv, Apart => OrderInv, FilterInv, GapInv, [Next]_vars,
                      "close" \notin faults', Apart', delivered' # << >>
               PROVE  /\ IsRun'
                      /\ ioPc' \notin {"disconnect", "exited", "killed"} =>
                           \A m \in Messages : Holds(MsgTopic[m])'
    BY DEF GapInv, Apart
  <2>1. "close" \notin faults /\ faults \cap {"close", "joined"} = {} /\ OrderInv
    BY FaultsStay DEF Apart
  <2>2. CASE HandlePublish /\ handled' = handled + 1 /\ handled + 1 \in Messages
             /\ delivered' = IF Holds(MsgTopic[handled + 1])
                             THEN Append(delivered, handled + 1) ELSE delivered
    <3>1. ioPc = "handle" /\ UNCHANGED messageHandlers
      BY <2>2 DEF HandlePublish
    <3>2. delivered # << >> => IsRun /\ \A m \in Messages : Holds(MsgTopic[m])
      BY <2>1, <3>1 DEF GapInv
    <3>3. Holds(MsgTopic[handled + 1])
      BY <2>2, <3>2
    <3>4. \A m \in Messages : Holds(MsgTopic[m])
      BY <2>2, <3>3 DEF OneTopic
    <3>5. IsRun'
      BY <2>2, <3>2, <3>3, RunGrows
    <3> QED
      BY <3>1, <3>4, <3>5 DEF Holds
  <2>3. CASE UNCHANGED <<handled, delivered>>
    <3>1. /\ IsRun'
          /\ ioPc \notin {"disconnect", "exited", "killed"} =>
               \A m \in Messages : Holds(MsgTopic[m])
      BY <2>1, <2>3 DEF GapInv, IsRun
    <3>2. SUFFICES ASSUME ioPc' \notin {"disconnect", "exited", "killed"}, NEW m \in Messages
                   PROVE  Holds(MsgTopic[m])'
      BY <3>1
    <3>3. MsgTopic[m] \in 1..Topics
      BY MsgAssumption, ElementOfSeq DEF Messages
    <3>4. CASE AppNext
      <4>1. ioPc' = ioPc
        BY <3>2, <3>4
           DEF AppNext, ConnectBegin, ConnectSend, ConnackWait, ConnackRead, SubscribeBegin,
               SubscribeSend, SubackWait, SubackRead, SetFilter, SetHandler, CloseSession,
               Killed, AppLeaves
      <4> QED
        BY <3>1, <3>2, <3>3, <3>4, <4>1, AppHolds
    <3>5. CASE IoNext
      BY <3>1, <3>2, <3>5, IoHolds DEF Holds
    <3>6. CASE EnvNext \/ UNCHANGED vars
      BY <3>1, <3>2, <3>6, EnvReceives DEF vars, clientVars, Holds
    <3> QED
      BY <3>4, <3>5, <3>6 DEF Next
  <2> QED
    BY <2>1, <2>2, <2>3, Delivery DEF FilterInv
<1>3. TypeInv /\ GapInv => DeliveredWithoutGap
  <2> SUFFICES ASSUME TypeInv, IsRun
               PROVE  delivered = [i \in 1..Len(delivered) |-> handled - Len(delivered) + i]
    BY DEF GapInv, DeliveredWithoutGap
  <2>1. delivered \in Seq(Messages)
    BY DEF TypeInv, TypeOK, HistoryTypes
  <2> QED
    BY <2>1, LenProperties DEF IsRun
<1> QED
  BY <1>1, <1>2, <1>3, TypeInvariance, OrderAlways, FiltersAlways, PTL DEF Spec
===========================================================================
