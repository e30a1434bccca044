------------------------- MODULE MqttSession_proofs -------------------------
(***************************************************************************)
(* Proofs about the session for every sequence of calls, every number of    *)
(* topics, handlers and messages, and every set of CONNACK codes: the types *)
(* first, then what the two threads may rely on without a lock: an answer   *)
(* is the broker's, the end of the connection leaves no session behind,     *)
(* sendBuf has one writer, a subscription reported has its handler and its  *)
(* pings, and isconnected does not outlive the connection.                  *)
(***************************************************************************)
EXTENDS MqttSession, FiniteSetTheorems, SequenceTheorems, WellFoundedInduction, TLAPS

(***************************************************************************)
(* Packets carry arguments that fit their type.  It takes this to know that *)
(* what a handler takes out of packetBuf is a message, a topic or a code.   *)
(***************************************************************************)
WellFormed(p) ==
  /\ p.type \in Handshake => p.arg \in Messages
  /\ p.type = "SUBSCRIBE" => p.arg \in 1..Topics
  /\ p.type = "CONNACK" => p.arg \in 0..5

GoodPackets == {p \in Packets : WellFormed(p)}

GoodChannels ==
  /\ toBroker \in Seq(GoodPackets) /\ toClient \in Seq(GoodPackets)
  /\ packetBuf \in GoodPackets
  /\ ioPc = "ackSend" => packetBuf.type \in {"PUBLISH", "PUBREL"}

TypeInv == TypeOK /\ GoodChannels

-----------------------------------------------------------------------------
(* The handler table *)

\* A set of slots that is not empty has a least element.
LEMMA LeastSlot ==
  ASSUME NEW S \in SUBSET Slots, S # {}
  PROVE  \E i \in S : \A j \in S : i <= j
<1>1. S \subseteq Nat
  BY MaxHandlersAssumption DEF Slots
<1>2. \E i \in S : \A j \in S : ~ (<<j, i>> \in OpToRel(<, Nat))
  BY <1>1, NatLessThanWellFounded, WFMin
<1>3. PICK i \in S : \A j \in S : ~ (<<j, i>> \in OpToRel(<, Nat))
  BY <1>2
<1>4. ASSUME NEW j \in S PROVE i <= j
  <2>1. i \in Nat /\ j \in Nat
    BY <1>1
  <2>2. ~ (<<j, i>> \in {ss \in Nat \X Nat : ss[1] < ss[2]})
    BY <1>3 DEF OpToRel
  <2>3. ~ (j < i)
    BY <2>1, <2>2
  <2> QED
    BY <2>1, <2>3
<1> QED
  BY <1>4

\* MQTTSetMessageHandler finds a slot of the table or none: i stays within
\* MAX_MESSAGE_HANDLERS (MQTTClient.c:879-905).
LEMMA SlotForType ==
  ASSUME NEW t
  PROVE  SlotFor(t) \in 0..MaxHandlers
<1>1. ASSUME NEW S \in SUBSET Slots PROVE First(S) \in 0..MaxHandlers
  <2>1. CASE S = {}
    BY <2>1, MaxHandlersAssumption DEF First
  <2>2. CASE S # {}
    <3>1. First(S) \in S
      BY <2>2, LeastSlot DEF First
    <3>2. \A i \in S : i \in 0..MaxHandlers
      BY MaxHandlersAssumption DEF Slots
    <3> QED
      BY <3>1, <3>2
  <2> QED
    BY <2>1, <2>2
<1>2. SlotsWith(t) \in SUBSET Slots /\ SlotsWith(NULL) \in SUBSET Slots
  BY DEF SlotsWith
<1> QED
  BY <1>1, <1>2 DEF SlotFor

\* deliverMessage appends copies of a message to what was delivered.
LEMMA DeliverType ==
  ASSUME delivered \in Seq(Messages), NEW m \in Messages, Deliver(m)
  PROVE  delivered' \in Seq(Messages)
<1> DEFINE matching == {i \in Slots : /\ messageHandlers[i].topicFilter = MsgTopic[m]
                                      /\ messageHandlers[i].fp}
           copies == [i \in 1..Cardinality(matching) |-> m]
<1>1. IsFiniteSet(Slots)
  BY FS_Interval, MaxHandlersAssumption DEF Slots
<1>2. Cardinality(matching) \in Nat
  BY <1>1, FS_Subset, FS_CardinalityType
<1>3. copies \in Seq(Messages)
  BY <1>2
<1>4. delivered' = delivered \o copies
  BY DEF Deliver
<1> HIDE DEF copies
<1> QED
  BY <1>3, <1>4, ConcatProperties

-----------------------------------------------------------------------------
(* Packets and channels *)

\* Every packet the program serialises, and every packet the broker sends, is well
\* formed.
LEMMA PacketsGood ==
  /\ NoPacket \in GoodPackets /\ Garbage \in GoodPackets
  /\ ConnectPacket \in GoodPackets /\ PingreqPacket \in GoodPackets
  /\ Pkt("PINGRESP", 0) \in GoodPackets
  /\ \A c \in ConnackCodes : Pkt("CONNACK", c) \in GoodPackets
  /\ \A t \in 1..Topics : /\ SubscribePacket(t) \in GoodPackets
                          /\ Pkt("SUBACK", t) \in GoodPackets
                          /\ Pkt("SUBACK", 0 - t) \in GoodPackets
  /\ \A m \in Messages, type \in Handshake : Pkt(type, m) \in GoodPackets
<1> USE DEF GoodPackets, WellFormed, Packets, PacketTypes, Args, Handshake, Pkt
<1>0. Topics \in Nat \ {0} /\ Len(MsgTopic) \in Nat /\ ConnackCodes \subseteq 0..5
  BY CallsAssumption, MsgAssumption, ConnackAssumption
<1>1. NoPacket \in GoodPackets /\ Garbage \in GoodPackets
  BY <1>0 DEF NoPacket, Garbage
<1>2. /\ ConnectPacket \in GoodPackets /\ PingreqPacket \in GoodPackets
      /\ Pkt("PINGRESP", 0) \in GoodPackets
  BY <1>0 DEF ConnectPacket, PingreqPacket
<1>3. \A c \in ConnackCodes : Pkt("CONNACK", c) \in GoodPackets
  BY <1>0
<1>4. \A t \in 1..Topics : /\ SubscribePacket(t) \in GoodPackets
                           /\ Pkt("SUBACK", t) \in GoodPackets
                           /\ Pkt("SUBACK", 0 - t) \in GoodPackets
  BY <1>0 DEF SubscribePacket
<1>5. \A m \in Messages, type \in Handshake : Pkt(type, m) \in GoodPackets
  BY <1>0 DEF Messages
<1> QED
  BY <1>1, <1>2, <1>3, <1>4, <1>5

\* MQTTSerialize_ack turns a message packet into a packet of the same message
\* (MQTTClient.c:684-687, 709).
LEMMA AckToGood ==
  ASSUME NEW p \in GoodPackets, p.type \in {"PUBLISH", "PUBREL"}
  PROVE  AckTo(p) \in GoodPackets
<1>1. p.arg \in Messages
  BY DEF GoodPackets, WellFormed, Handshake
<1>2. \E type \in Handshake : AckTo(p) = Pkt(type, p.arg)
  BY DEF AckTo, AckPacket, Handshake
<1> QED
  BY <1>1, <1>2, PacketsGood

\* Whatever sendPacket makes of a packet, the broker receives packets.
LEMMA SendGood ==
  ASSUME toBroker \in Seq(GoodPackets), NEW p \in GoodPackets,
         SendSucceeds(p) \/ SendFails
  PROVE  toBroker' \in Seq(GoodPackets)
<1>1. CASE toBroker' = toBroker
  BY <1>1
<1>2. CASE toBroker' = Append(toBroker, p) \/ toBroker' = Append(toBroker, Garbage)
  BY <1>2, PacketsGood, AppendProperties
<1> QED
  BY <1>1, <1>2 DEF SendSucceeds, SendFails

\* A channel of packets gives its first one and keeps the rest.
LEMMA ReceiveGood ==
  ASSUME NEW s \in Seq(GoodPackets), s # << >>
  PROVE  Head(s) \in GoodPackets /\ Tail(s) \in Seq(GoodPackets)
  BY HeadTailProperties

\* Good channels hold packets.
LEMMA ChannelsTyped ==
  ASSUME GoodChannels
  PROVE  /\ toBroker \in Seq(Packets) /\ toClient \in Seq(Packets)
         /\ packetBuf \in Packets
<1>1. GoodPackets \subseteq Packets
  BY DEF GoodPackets
<1> QED
  BY <1>1, SeqMonotonic DEF GoodChannels

-----------------------------------------------------------------------------
(* TypeInv is an invariant *)

\* The two threads start with memset structures and empty channels.
LEMMA InitTypes == Init => TypeInv
<1> SUFFICES ASSUME Init PROVE TypeInv
  OBVIOUS
<1>0. Topics \in Nat \ {0} /\ MaxHandlers \in Nat \ {0} /\ Len(MsgTopic) \in Nat
      /\ Len(Calls) \in Nat
  BY CallsAssumption, MaxHandlersAssumption, MsgAssumption
<1>1. GoodChannels
  BY PacketsGood DEF Init, GoodChannels
<1>2. AppTypes
  BY <1>0 DEF Init, AppTypes, AppPcs
<1>3. ClientTypes
  <2>1. EmptySlot \in [topicFilter : 0..Topics, fp : BOOLEAN]
    BY <1>0 DEF EmptySlot, NULL
  <2>2. messageHandlers \in [Slots -> [topicFilter : 0..Topics, fp : BOOLEAN]]
    BY <2>1 DEF Init
  <2> QED
    BY <2>2 DEF Init, ClientTypes, PacketTypes
<1>4. IoTypes
  BY <1>1, PacketsGood, ChannelsTyped DEF Init, IoTypes, IoPcs, GoodPackets
<1>5. BrokerTypes
  <2>1. brokerUp \in BOOLEAN /\ accepted \in BOOLEAN
    BY DEF Init
  <2>2. bSub \in [1..Topics -> {"none", "granting", "granted", "refused"}]
    BY DEF Init
  <2>3. published \in 0..Len(MsgTopic) /\ inflight \subseteq Messages
    BY <1>0 DEF Init
  <2> QED
    BY <2>1, <2>2, <2>3 DEF BrokerTypes
<1>6. HistoryTypes
  <2>1. handled \in Nat /\ delivered \in Seq(Messages)
    BY DEF Init
  <2>2. pingOverdue \in BOOLEAN /\ faults \subseteq {"close", "send", "joined", "alarm"}
    BY DEF Init
  <2> QED
    BY <2>1, <2>2 DEF HistoryTypes
<1>7. ReaderTypes
  <2>1. needread = FALSE /\ behind = 0 /\ ioPc = "select"
    BY DEF Init
  <2>2. ~needread /\ needread \in BOOLEAN
    BY <2>1, Zenon
  <2>3. behind \in 0..MaxAgain /\ ~ (behind > 0) /\ ioPc \notin {"read", "next"}
    BY <2>1, MaxAgainAssumption
  <2> QED
    BY <2>2, <2>3, Zenon DEF ReaderTypes
<1> QED
  BY <1>1, <1>2, <1>3, <1>4, <1>5, <1>6, <1>7 DEF TypeInv, TypeOK

(***************************************************************************)
(* Steps of the application thread.                                         *)
(***************************************************************************)

\* A call that is made, or has not returned, is one of Calls.
CallRuns == Len(results) < Len(Calls)

\* The topic of a subscribe that runs is one of the topics (MQTTClient.c:926).
LEMMA NextCallType ==
  ASSUME AppTypes, CallRuns
  PROVE  /\ NextCall \in 0..Topics
         /\ NextCall # 0 => CurrentTopic \in 1..Topics
<1>1. Len(results) + 1 \in 1..Len(Calls)
  BY CallsAssumption DEF AppTypes, CallRuns
<1>2. Calls[Len(results) + 1] \in 0..Topics
  BY <1>1, CallsAssumption
<1> QED
  BY <1>2, CallsAssumption DEF NextCall, CurrentTopic

\* A thread that is in a call, or about to make one, has a call left to return from.
LEMMA CallRunning ==
  ASSUME AppTypes, appPc \notin {"call", "killed"} \/ (appPc = "call" /\ ~AppIdle)
  PROVE  CallRuns
<1>1. Len(results) \in Nat /\ Len(Calls) \in Nat /\ Len(results) <= Len(Calls)
  BY CallsAssumption DEF AppTypes
<1> QED
  BY <1>1 DEF AppTypes, AppIdle, CallRuns

\* A call that returns is recorded.
LEMMA ReturnTypes ==
  ASSUME AppTypes, CallRuns, NEW rc \in FAILURE..5, Return(rc), appSlot' \in 0..MaxHandlers
  PROVE  AppTypes'
<1>1. results' \in Seq(FAILURE..5) /\ Len(results') = Len(results) + 1
  BY AppendProperties DEF AppTypes, Return
<1>2. Len(results) \in Nat /\ Len(Calls) \in Nat
  BY CallsAssumption DEF AppTypes
<1> QED
  BY <1>1, <1>2 DEF AppTypes, AppPcs, Return, CallRuns

\* A step within a call.
LEMMA GotoTypes ==
  ASSUME AppTypes, CallRuns, NEW pc \in AppPcs \ {"call", "killed"}, Goto(pc),
         appSlot' \in 0..MaxHandlers,
         pc \in {"subscribeSend", "subackWait", "subackRead", "setFilter", "setHandler"}
           => NextCall # 0,
         pc \in {"setFilter", "setHandler"} => appSlot' \in Slots
  PROVE  AppTypes'
<1>1. NextCall' = NextCall
  BY DEF Goto, NextCall
<1> QED
  BY <1>1 DEF AppTypes, Goto, CallRuns

\* What is left to show of a step of the application thread.
LEMMA AppLeavesTypes ==
  ASSUME TypeInv, AppLeaves, AppTypes', ClientTypes', sendBuf' \in GoodPackets \/ sendBuf' = sendBuf,
         toBroker' \in Seq(GoodPackets),
         faults \subseteq faults', faults' \subseteq {"close", "send", "joined", "alarm"}
  PROVE  TypeInv'
<1>1. GoodChannels'
  BY DEF TypeInv, GoodChannels, AppLeaves
<1>2. IoTypes'
  BY <1>1, SeqMonotonic DEF TypeInv, TypeOK, IoTypes, AppLeaves, GoodChannels, GoodPackets
<1>3. BrokerTypes'
  BY DEF TypeInv, TypeOK, BrokerTypes, AppLeaves, brokerVars
<1>4. HistoryTypes'
  BY DEF TypeInv, TypeOK, HistoryTypes, AppLeaves
<1>5. ReaderTypes'
  BY DEF TypeInv, TypeOK, ReaderTypes, AppLeaves, inVars
<1> QED
  BY <1>1, <1>2, <1>3, <1>4, <1>5 DEF TypeInv, TypeOK

\* MQTTCloseSession and MQTTCleanSession leave a handler table.
LEMMA CleanTypes ==
  ASSUME ClientTypes, MQTTCleanSession
  PROVE  messageHandlers' \in [Slots -> [topicFilter : 0..Topics, fp : BOOLEAN]]
<1>1. Topics \in Nat /\ NULL \in 0..Topics
  BY CallsAssumption DEF NULL
<1>2. \A i \in Slots : [messageHandlers[i] EXCEPT !.topicFilter = NULL]
                         \in [topicFilter : 0..Topics, fp : BOOLEAN]
  BY <1>1 DEF ClientTypes
<1> QED
  BY <1>2 DEF MQTTCleanSession, NoFilters

\* MQTTCloseSession leaves flags and a handler table (MQTTClient.c:324).
LEMMA CloseTypes ==
  ASSUME ClientTypes, MQTTCloseSession
  PROVE  /\ messageHandlers' \in [Slots -> [topicFilter : 0..Topics, fp : BOOLEAN]]
         /\ isconnected' \in BOOLEAN /\ pingOutstanding' \in BOOLEAN
  BY CleanTypes DEF MQTTCloseSession

\* A process that is killed keeps what it had.
LEMMA KilledTypes ==
  ASSUME TypeInv, NEW ready, Killed(ready)
  PROVE  TypeInv'
<1> USE DEF TypeInv, TypeOK
<1>1. AppTypes'
  BY DEF Killed, AppTypes, AppPcs, NextCall
<1>2. ClientTypes'
  BY DEF Killed, ClientTypes, clientVars
<1>3. IoTypes'
  BY DEF Killed, IoTypes, IoPcs
<1>4. BrokerTypes' /\ HistoryTypes'
  BY DEF Killed, BrokerTypes, HistoryTypes, brokerVars, history
<1>5. GoodChannels'
  BY DEF Killed, GoodChannels
<1>6. ReaderTypes'
  BY DEF Killed, ReaderTypes, inVars, history
<1> QED
  BY <1>1, <1>2, <1>3, <1>4, <1>5, <1>6

\* Every step of the application thread keeps TypeInv.
LEMMA AppStepTypes ==
  ASSUME TypeInv, AppNext
  PROVE  TypeInv'
<1> USE DEF TypeInv, TypeOK
<1>0. /\ AppTypes /\ ClientTypes /\ GoodChannels
      /\ sendBuf \in Packets /\ toBroker \in Seq(GoodPackets)
      /\ appSlot \in 0..MaxHandlers /\ faults \subseteq {"close", "send", "joined", "alarm"}
  BY DEF AppTypes, IoTypes, HistoryTypes, GoodChannels
<1>f. FAILURE \in FAILURE..5 /\ SUCCESS \in FAILURE..5
  BY DEF FAILURE, SUCCESS
<1>1. CASE ConnectBegin
  <2>1. CallRuns
    BY <1>0, <1>1, CallRunning DEF ConnectBegin
  <2>2. appSlot' = appSlot /\ UNCHANGED <<clientVars, toBroker, faults>> /\ AppLeaves
    BY <1>1 DEF ConnectBegin
  <2>3. AppTypes'
    <3>1. CASE Goto("connectSend")
      BY <1>0, <2>1, <2>2, <3>1, GotoTypes DEF AppPcs
    <3>2. CASE Return(FAILURE)
      BY <1>0, <1>f, <2>1, <2>2, <3>2, ReturnTypes
    <3> QED
      BY <1>1, <3>1, <3>2 DEF ConnectBegin
  <2>4. sendBuf' \in GoodPackets \/ sendBuf' = sendBuf
    BY <1>1, PacketsGood DEF ConnectBegin
  <2> QED
    BY <1>0, <2>2, <2>3, <2>4, AppLeavesTypes DEF ClientTypes, clientVars
<1>2. CASE ConnectSend
  <2>1. CallRuns
    BY <1>0, <1>2, CallRunning DEF ConnectSend
  <2>2. appSlot' = appSlot /\ UNCHANGED <<clientVars, sendBuf>> /\ AppLeaves
        /\ faults \subseteq faults' /\ faults' \subseteq {"close", "send", "joined", "alarm"}
    BY <1>0, <1>2 DEF ConnectSend
  <2>3. AppTypes'
    <3>1. CASE Goto("connackWait")
      BY <1>0, <2>1, <2>2, <3>1, GotoTypes DEF AppPcs
    <3>2. CASE Return(FAILURE)
      BY <1>0, <1>f, <2>1, <2>2, <3>2, ReturnTypes
    <3> QED
      BY <1>2, <3>1, <3>2 DEF ConnectSend
  <2>4. toBroker' \in Seq(GoodPackets)
    BY <1>0, <1>2, SendGood, PacketsGood DEF ConnectSend
  <2> QED
    BY <1>0, <2>2, <2>3, <2>4, AppLeavesTypes DEF ClientTypes, clientVars
<1>3. CASE ConnackWait
  <2>1. CallRuns
    BY <1>0, <1>3, CallRunning DEF ConnackWait
  <2>2. /\ UNCHANGED <<appSlot, isconnected, ack, pingOutstanding, messageHandlers, sendBuf,
                       toBroker, faults>>
        /\ AppLeaves /\ runState' \in {runState, "DISCONNECTED"}
    BY <1>3 DEF ConnackWait
  <2>3. AppTypes'
    <3>1. CASE Goto("connackRead")
      BY <1>0, <2>1, <2>2, <3>1, GotoTypes DEF AppPcs
    <3>2. CASE Return(FAILURE)
      BY <1>0, <1>f, <2>1, <2>2, <3>2, ReturnTypes
    <3> QED
      BY <1>3, <3>1, <3>2 DEF ConnackWait
  <2> QED
    BY <1>0, <2>2, <2>3, AppLeavesTypes DEF ClientTypes
<1>4. CASE ConnackRead
  <2>1. CallRuns
    BY <1>0, <1>4, CallRunning DEF ConnackRead
  <2>2. /\ UNCHANGED <<appSlot, runState, ack, messageHandlers, sendBuf, toBroker, faults>>
        /\ AppLeaves /\ Return(ConnackCode)
        /\ isconnected' \in BOOLEAN /\ pingOutstanding' \in BOOLEAN
    BY <1>0, <1>4 DEF ConnackRead
  <2>3. ConnackCode \in FAILURE..5
    BY <1>0 DEF ConnackCode, FAILURE, GoodChannels, GoodPackets, WellFormed
  <2>4. AppTypes'
    BY <1>0, <2>1, <2>2, <2>3, ReturnTypes
  <2>5. ClientTypes'
    BY <1>0, <2>2 DEF ClientTypes
  <2> QED
    BY <1>0, <2>2, <2>4, <2>5, AppLeavesTypes
<1>5. CASE SubscribeBegin
  <2>1. CallRuns
    BY <1>0, <1>5, CallRunning DEF SubscribeBegin
  <2>2. appSlot' = appSlot /\ UNCHANGED <<clientVars, toBroker, faults>> /\ AppLeaves
        /\ NextCall # 0
    BY <1>5 DEF SubscribeBegin
  <2>3. AppTypes'
    <3>1. CASE Goto("subscribeSend")
      BY <1>0, <2>1, <2>2, <3>1, GotoTypes DEF AppPcs
    <3>2. CASE Goto("closeSession")
      BY <1>0, <2>1, <2>2, <3>2, GotoTypes DEF AppPcs
    <3> QED
      BY <1>5, <3>1, <3>2 DEF SubscribeBegin
  <2>4. sendBuf' \in GoodPackets \/ sendBuf' = sendBuf
    BY <1>0, <1>5, <2>1, <2>2, PacketsGood, NextCallType DEF SubscribeBegin
  <2> QED
    BY <1>0, <2>2, <2>3, <2>4, AppLeavesTypes DEF ClientTypes, clientVars
<1>6. CASE SubscribeSend
  <2>1. CallRuns /\ NextCall # 0
    BY <1>0, <1>6, CallRunning DEF SubscribeSend, AppTypes
  <2>2. appSlot' = appSlot /\ UNCHANGED <<clientVars, sendBuf>> /\ AppLeaves
        /\ faults \subseteq faults' /\ faults' \subseteq {"close", "send", "joined", "alarm"}
    BY <1>0, <1>6 DEF SubscribeSend
  <2>3. AppTypes'
    <3>1. CASE Goto("subackWait")
      BY <1>0, <2>1, <2>2, <3>1, GotoTypes DEF AppPcs
    <3>2. CASE Goto("closeSession")
      BY <1>0, <2>1, <2>2, <3>2, GotoTypes DEF AppPcs
    <3> QED
      BY <1>6, <3>1, <3>2 DEF SubscribeSend
  <2>4. toBroker' \in Seq(GoodPackets)
    BY <1>0, <1>6, <2>1, NextCallType, SendGood, PacketsGood DEF SubscribeSend
  <2> QED
    BY <1>0, <2>2, <2>3, <2>4, AppLeavesTypes DEF ClientTypes, clientVars
<1>7. CASE SubackWait
  <2>1. CallRuns /\ NextCall # 0
    BY <1>0, <1>7, CallRunning DEF SubackWait, AppTypes
  <2>2. /\ UNCHANGED <<appSlot, isconnected, ack, pingOutstanding, messageHandlers, sendBuf,
                       toBroker, faults>>
        /\ AppLeaves /\ runState' \in {"CONNECTED", "DISCONNECTED"}
    BY <1>7 DEF SubackWait
  <2>3. AppTypes'
    <3>1. CASE Goto("subackRead")
      BY <1>0, <2>1, <2>2, <3>1, GotoTypes DEF AppPcs
    <3>2. CASE Goto("closeSession")
      BY <1>0, <2>1, <2>2, <3>2, GotoTypes DEF AppPcs
    <3> QED
      BY <1>7, <3>1, <3>2 DEF SubackWait
  <2> QED
    BY <1>0, <2>2, <2>3, AppLeavesTypes DEF ClientTypes
<1>8. CASE SubackRead
  <2>1. CallRuns /\ NextCall # 0
    BY <1>0, <1>8, CallRunning DEF SubackRead, AppTypes
  <2>2. UNCHANGED <<clientVars, sendBuf, toBroker, faults>> /\ AppLeaves
    BY <1>8 DEF SubackRead
  <2>3. AppTypes'
    <3>1. CASE packetBuf.type = "SUBACK"
      <4>1. /\ appSlot' = SlotFor(CurrentTopic)
            /\ Goto(IF appSlot' = 0 THEN "closeSession" ELSE "setFilter")
        BY <1>8, <3>1 DEF SubackRead
      <4>2. appSlot' \in 0..MaxHandlers
        BY <4>1, SlotForType
      <4>3. CASE appSlot' = 0
        <5>1. Goto("closeSession")
          BY <4>1, <4>3
        <5> QED
          BY <1>0, <2>1, <4>2, <5>1, GotoTypes DEF AppPcs
      <4>4. CASE appSlot' # 0
        <5>1. Goto("setFilter")
          BY <4>1, <4>4
        <5>2. appSlot' \in Slots
          BY <4>2, <4>4, MaxHandlersAssumption DEF Slots
        <5> QED
          BY <1>0, <2>1, <4>2, <5>1, <5>2, GotoTypes DEF AppPcs
      <4> QED
        BY <4>3, <4>4
    <3>2. CASE packetBuf.type # "SUBACK"
      <4>1. Return(SUCCESS) /\ appSlot' = appSlot
        BY <1>8, <3>2 DEF SubackRead
      <4> QED
        BY <1>0, <1>f, <2>1, <4>1, ReturnTypes
    <3> QED
      BY <3>1, <3>2
  <2> QED
    BY <1>0, <2>2, <2>3, AppLeavesTypes DEF ClientTypes, clientVars
<1>9. CASE SetFilter
  <2>1. CallRuns /\ NextCall # 0 /\ appSlot \in Slots
    BY <1>0, <1>9, CallRunning DEF SetFilter, AppTypes
  <2>2. /\ UNCHANGED <<appSlot, isconnected, runState, ack, pingOutstanding, sendBuf, toBroker,
                       faults>>
        /\ AppLeaves /\ Goto("setHandler")
        /\ messageHandlers' = [messageHandlers EXCEPT ![appSlot].topicFilter = CurrentTopic]
    BY <1>9 DEF SetFilter
  <2>3. AppTypes'
    BY <1>0, <2>1, <2>2, GotoTypes DEF AppPcs
  <2>4. CurrentTopic \in 0..Topics
    BY <1>0, <2>1, NextCallType DEF CurrentTopic
  <2>5. messageHandlers' \in [Slots -> [topicFilter : 0..Topics, fp : BOOLEAN]]
    BY <1>0, <2>1, <2>2, <2>4 DEF ClientTypes
  <2>6. ClientTypes'
    BY <1>0, <2>2, <2>5 DEF ClientTypes
  <2> QED
    BY <1>0, <2>2, <2>3, <2>6, AppLeavesTypes
<1>10. CASE SetHandler
  <2>1. CallRuns /\ appSlot \in Slots
    BY <1>0, <1>10, CallRunning DEF SetHandler, AppTypes
  <2>2. /\ UNCHANGED <<appSlot, isconnected, runState, ack, pingOutstanding, sendBuf, toBroker,
                       faults>>
        /\ AppLeaves /\ Return(SUCCESS)
        /\ messageHandlers' = [messageHandlers EXCEPT ![appSlot].fp = TRUE]
    BY <1>10 DEF SetHandler
  <2>3. AppTypes'
    BY <1>0, <1>f, <2>1, <2>2, ReturnTypes
  <2>4. messageHandlers' \in [Slots -> [topicFilter : 0..Topics, fp : BOOLEAN]]
    BY <1>0, <2>1, <2>2 DEF ClientTypes
  <2>5. ClientTypes'
    BY <1>0, <2>2, <2>4 DEF ClientTypes
  <2> QED
    BY <1>0, <2>2, <2>3, <2>5, AppLeavesTypes
<1>11. CASE CloseSession
  <2>1. CallRuns
    BY <1>0, <1>11, CallRunning DEF CloseSession
  <2>2. /\ UNCHANGED <<appSlot, runState, ack, sendBuf, toBroker>>
        /\ AppLeaves /\ Return(FAILURE) /\ MQTTCloseSession
        /\ faults \subseteq faults' /\ faults' \subseteq {"close", "send", "joined", "alarm"}
    BY <1>0, <1>11 DEF CloseSession
  <2>3. AppTypes'
    BY <1>0, <1>f, <2>1, <2>2, ReturnTypes
  <2>4. ClientTypes'
    BY <1>0, <2>2, CloseTypes DEF ClientTypes
  <2> QED
    BY <1>0, <2>2, <2>3, <2>4, AppLeavesTypes
<1>12. CASE Killed(appPc \in {"connectSend", "subscribeSend"})
  BY <1>12, KilledTypes
<1> QED
  BY <1>1, <1>2, <1>3, <1>4, <1>5, <1>6, <1>7, <1>8, <1>9, <1>10, <1>11, <1>12 DEF AppNext

(***************************************************************************)
(* Steps of the I/O thread.                                                 *)
(***************************************************************************)

\* What is left to show of a step of the I/O thread.
LEMMA IoLeavesTypes ==
  ASSUME TypeInv, ReaderLeaves,
         isconnected' \in BOOLEAN, pingOutstanding' \in BOOLEAN, ack' \in PacketTypes,
         messageHandlers' \in [Slots -> [topicFilter : 0..Topics, fp : BOOLEAN]],
         ioPc' \in IoPcs, sendBuf' \in GoodPackets \/ sendBuf' = sendBuf,
         GoodChannels', ReaderTypes', HistoryTypes'
  PROVE  TypeInv'
<1> USE DEF TypeInv, TypeOK
<1>1. AppTypes'
  BY DEF ReaderLeaves, AppTypes, appVars, NextCall
<1>2. ClientTypes'
  BY DEF ReaderLeaves, ClientTypes
<1>3. IoTypes'
  BY SeqMonotonic DEF IoTypes, GoodChannels, GoodPackets
<1>4. BrokerTypes'
  BY DEF ReaderLeaves, BrokerTypes, brokerVars
<1> QED
  BY <1>1, <1>2, <1>3, <1>4

\* A step that leaves inbuf and the channel alone, and does not go on to read.
LEMMA IoLeavesReader ==
  ASSUME ReaderTypes, UNCHANGED <<inVars, toClient>>, faults \subseteq faults', ioPc' # "read",
         ioPc' = "next" => behind > 0
  PROVE  ReaderTypes'
  BY DEF ReaderTypes, inVars

\* What has gone wrong in the I/O thread stays on record.
LEMMA IoRecords ==
  ASSUME IoNext
  PROVE  faults \subseteq faults'
  BY DEF IoNext, ReadBegin, NeedMore, ReadEnd, Again, Lose, HandleAnswer, HandlePublish,
         HandlePubrel, HandlePingresp, AckSend, Wake, KeepaliveCheck, PingSend, Eof, Disconnect,
         Killed, history

\* What ReadBegin leaves in the channel: its head and some of what is behind.
LEMMA FirstAndLater ==
  ASSUME NEW S, NEW s \in Seq(S), NEW n \in 1..Len(s)
  PROVE  /\ <<Head(s)>> \o SubSeq(s, n + 1, Len(s)) \in Seq(S)
         /\ <<Head(s)>> \o SubSeq(s, n + 1, Len(s)) # << >>
         /\ n = 1 => <<Head(s)>> \o SubSeq(s, n + 1, Len(s)) = s
<1> DEFINE rest == SubSeq(s, n + 1, Len(s))
           taken == <<Head(s)>> \o rest
<1>1. Len(s) \in Nat /\ s # << >> /\ Head(s) \in S /\ Head(s) = s[1]
  OBVIOUS
<1>2. /\ rest \in Seq(S) /\ Len(rest) = Len(s) - n
      /\ \A i \in 1..(Len(s) - n) : rest[i] = s[n + i]
  <2>1. CASE n = Len(s)
    BY <1>1, <2>1
  <2>2. CASE n < Len(s)
    BY <1>1, <2>2, SubSeqProperties
  <2> QED
    BY <1>1, <2>1, <2>2
<1>3. <<Head(s)>> \in Seq(S) /\ Len(<<Head(s)>>) = 1
  BY <1>1
<1>4. taken \in Seq(S) /\ Len(taken) = 1 + Len(rest)
  BY <1>2, <1>3, ConcatProperties
<1>5. ASSUME n = 1 PROVE taken = s
  <2>1. Len(taken) = Len(s)
    BY <1>1, <1>2, <1>4, <1>5
  <2>2. \A i \in 1..Len(s) : taken[i] = s[i]
    BY <1>1, <1>2, <1>3, <1>5, ConcatProperties
  <2> QED
    BY <1>4, <2>1, <2>2, SeqEqual
<1> QED
  BY <1>2, <1>4, <1>5

\* Every step of the I/O thread keeps TypeInv.
LEMMA IoStepTypes ==
  ASSUME TypeInv, IoNext
  PROVE  TypeInv'
<1> USE DEF TypeInv, TypeOK
<1>0. /\ ClientTypes /\ GoodChannels /\ ReaderTypes /\ HistoryTypes
      /\ isconnected \in BOOLEAN /\ pingOutstanding \in BOOLEAN /\ ack \in PacketTypes
      /\ messageHandlers \in [Slots -> [topicFilter : 0..Topics, fp : BOOLEAN]]
      /\ toBroker \in Seq(GoodPackets) /\ toClient \in Seq(GoodPackets)
      /\ packetBuf \in GoodPackets /\ packetBuf.type \in PacketTypes
      /\ faults \subseteq {"close", "send", "joined", "alarm"}
  BY DEF ClientTypes, GoodChannels, HistoryTypes, GoodPackets, Packets
<1>f. faults \subseteq faults'
  BY IoRecords
<1>1. CASE ReadBegin
  <2>1. toClient' \in Seq(GoodPackets) /\ toClient' # << >> /\ behind' \in 0..MaxAgain
    BY <1>0, <1>1, FirstAndLater, MaxAgainAssumption DEF ReadBegin
  <2>2. /\ behind' > 0 => "joined" \in faults'
        /\ faults' \subseteq {"close", "send", "joined", "alarm"}
    <3>1. CASE behind' = 0 /\ UNCHANGED faults
      BY <1>0, <3>1
    <3>2. CASE faults' = faults \cup {"joined"}
      BY <1>0, <3>2
    <3> QED
      BY <1>1, <3>1, <3>2 DEF ReadBegin
  <2>3. GoodChannels' /\ ReaderTypes'
    BY <1>0, <1>1, <2>1, <2>2, PacketsGood DEF ReadBegin, GoodChannels, ReaderTypes
  <2>4. HistoryTypes'
    BY <1>0, <1>1, <2>2 DEF ReadBegin, HistoryTypes
  <2> QED
    BY <1>0, <1>1, <2>3, <2>4, IoLeavesTypes DEF ReadBegin, clientVars, IoPcs
<1>2. CASE ReadEnd
  <2>0. toClient # << >>
    BY <1>0, <1>2 DEF ReadEnd, ReaderTypes
  <2>1. GoodChannels'
    BY <1>0, <1>2, <2>0, ReceiveGood DEF ReadEnd, GoodChannels, Unread
  <2>2. ReaderTypes'
    BY <1>0, <1>f, <1>2, <2>0 DEF ReadEnd, ReaderTypes, Unread
  <2> QED
    BY <1>0, <1>2, <2>1, <2>2, IoLeavesTypes
       DEF ReadEnd, clientVars, history, HistoryTypes, IoPcs
<1>14. CASE NeedMore
  <2>1. GoodChannels' /\ ReaderTypes'
    BY <1>0, <1>f, <1>14 DEF NeedMore, GoodChannels, ReaderTypes
  <2> QED
    BY <1>0, <1>14, <2>1, IoLeavesTypes DEF NeedMore, history, HistoryTypes, IoPcs, PacketTypes
<1>15. CASE Again
  <2>1. GoodChannels'
    BY <1>0, <1>15, PacketsGood DEF Again, GoodChannels
  <2>2. ReaderTypes'
    BY <1>0, <1>f, <1>15, MaxAgainAssumption DEF Again, ReaderTypes
  <2> QED
    BY <1>0, <1>15, <2>1, <2>2, IoLeavesTypes
       DEF Again, clientVars, history, HistoryTypes, IoPcs
<1>16. CASE Lose
  <2>1. GoodChannels'
    BY <1>0, <1>16, PacketsGood DEF Lose, GoodChannels
  <2>2. ReaderTypes'
    BY <1>0, <1>f, <1>16, IoLeavesReader DEF Lose, IoLeaves
  <2> QED
    BY <1>0, <1>16, <2>1, <2>2, IoLeavesTypes
       DEF Lose, IoLeaves, history, HistoryTypes, IoPcs, PacketTypes
<1>3. CASE HandleAnswer
  <2>9. ReaderTypes'
    BY <1>0, <1>f, <1>3, IoLeavesReader DEF HandleAnswer, IoLeaves
  <2>1. GoodChannels'
    BY <1>0, <1>3 DEF HandleAnswer, GoodChannels
  <2> QED
    BY <1>0, <1>3, <2>1, <2>9, IoLeavesTypes DEF IoLeaves, HandleAnswer, history, HistoryTypes, IoPcs
<1>4. CASE HandlePublish
  <2>9. ReaderTypes'
    BY <1>0, <1>f, <1>4, IoLeavesReader DEF HandlePublish, IoLeaves
  <2>1. packetBuf.type = "PUBLISH" /\ MessageOf(packetBuf) \in Messages
    BY <1>0, <1>4 DEF HandlePublish, MessageOf, GoodPackets, WellFormed, Handshake
  <2>2. GoodChannels'
    BY <1>0, <1>4, <2>1 DEF HandlePublish, GoodChannels
  <2>3. /\ delivered' \in Seq(Messages) /\ handled' \in Nat
        /\ UNCHANGED <<pingOverdue, faults>>
    BY <1>0, <1>4, <2>1, DeliverType DEF HandlePublish, HistoryTypes
  <2>4. sendBuf' \in GoodPackets \/ sendBuf' = sendBuf
    BY <1>0, <1>4, <2>1, AckToGood DEF HandlePublish
  <2>5. ack' \in PacketTypes /\ ioPc' \in IoPcs
    BY <1>0, <1>4 DEF HandlePublish, PacketTypes, IoPcs
  <2>6. HistoryTypes'
    BY <1>0, <2>3 DEF HistoryTypes
  <2> QED
    BY <1>0, <1>4, <2>2, <2>4, <2>5, <2>6, <2>9, IoLeavesTypes DEF IoLeaves, HandlePublish
<1>5. CASE HandlePubrel
  <2>9. ReaderTypes'
    BY <1>0, <1>f, <1>5, IoLeavesReader DEF HandlePubrel, IoLeaves
  <2>1. GoodChannels'
    BY <1>0, <1>5 DEF HandlePubrel, GoodChannels
  <2>2. sendBuf' \in GoodPackets
    BY <1>0, <1>5, AckToGood DEF HandlePubrel
  <2> QED
    BY <1>0, <1>5, <2>1, <2>2, <2>9, IoLeavesTypes
       DEF IoLeaves, HandlePubrel, clientVars, history, HistoryTypes, IoPcs
<1>6. CASE HandlePingresp
  <2>9. ReaderTypes'
    BY <1>0, <1>f, <1>6, IoLeavesReader DEF HandlePingresp, IoLeaves
  <2>1. GoodChannels'
    BY <1>0, <1>6 DEF HandlePingresp, GoodChannels
  <2> QED
    BY <1>0, <1>6, <2>1, <2>9, IoLeavesTypes
       DEF IoLeaves, HandlePingresp, history, HistoryTypes, IoPcs, PacketTypes
<1>7. CASE AckSend
  <2>9. ReaderTypes'
    BY <1>0, <1>f, <1>7, IoLeavesReader DEF AckSend, IoLeaves
  <2>1. AckTo(packetBuf) \in GoodPackets
    BY <1>0, <1>7, AckToGood DEF AckSend, GoodChannels
  <2>2. GoodChannels'
    BY <1>0, <1>7, <2>1, SendGood DEF AckSend, GoodChannels
  <2>3. HistoryTypes'
    BY <1>0, <1>7 DEF AckSend, HistoryTypes
  <2>4. /\ isconnected' \in BOOLEAN /\ pingOutstanding' \in BOOLEAN
        /\ messageHandlers' \in [Slots -> [topicFilter : 0..Topics, fp : BOOLEAN]]
    BY <1>0, <1>7, CloseTypes DEF AckSend
  <2>5. ack' \in PacketTypes /\ ioPc' \in IoPcs
    BY <1>0, <1>7 DEF AckSend, PacketTypes, IoPcs
  <2> QED
    BY <1>0, <1>7, <2>2, <2>3, <2>4, <2>5, <2>9, IoLeavesTypes DEF IoLeaves, AckSend
<1>8. CASE Wake
  <2>9. ReaderTypes'
    BY <1>0, <1>f, <1>8, IoLeavesReader DEF Wake, IoLeaves, Onward
  <2>1. GoodChannels'
    BY <1>0, <1>8 DEF Wake, GoodChannels, Onward
  <2> QED
    BY <1>0, <1>8, <2>1, <2>9, IoLeavesTypes DEF IoLeaves, Wake, clientVars, history, HistoryTypes, IoPcs, Onward
<1>9. CASE KeepaliveCheck
  <2>9. ReaderTypes'
    BY <1>0, <1>f, <1>9, IoLeavesReader DEF KeepaliveCheck, IoLeaves, Onward
  <2>1. GoodChannels'
    BY <1>0, <1>9 DEF KeepaliveCheck, GoodChannels, Onward
  <2>2. HistoryTypes'
    BY <1>0, <1>9 DEF KeepaliveCheck, HistoryTypes
  <2>3. sendBuf' \in GoodPackets \/ sendBuf' = sendBuf
    BY <1>9, PacketsGood DEF KeepaliveCheck
  <2>4. ioPc' \in IoPcs
    BY <1>9 DEF KeepaliveCheck, IoPcs, Onward
  <2> QED
    BY <1>0, <1>9, <2>1, <2>2, <2>3, <2>4, <2>9, IoLeavesTypes DEF IoLeaves, KeepaliveCheck, clientVars
<1>10. CASE PingSend
  <2>9. ReaderTypes'
    BY <1>0, <1>f, <1>10, IoLeavesReader DEF PingSend, IoLeaves, Onward
  <2>1. GoodChannels'
    BY <1>0, <1>10, PacketsGood, SendGood DEF PingSend, GoodChannels, Onward
  <2>2. HistoryTypes'
    BY <1>0, <1>10 DEF PingSend, HistoryTypes
  <2>3. pingOutstanding' \in BOOLEAN /\ ioPc' \in IoPcs
    BY <1>0, <1>10 DEF PingSend, IoPcs, Onward
  <2> QED
    BY <1>0, <1>10, <2>1, <2>2, <2>3, <2>9, IoLeavesTypes DEF IoLeaves, PingSend
<1>11. CASE Eof
  <2>9. ReaderTypes'
    BY <1>0, <1>f, <1>11, MaxAgainAssumption DEF Eof, ReaderTypes, Drained
  <2>1. GoodChannels'
    BY <1>0, <1>11 DEF Eof, GoodChannels
  <2>2. HistoryTypes'
    BY <1>0, <1>11 DEF Eof, HistoryTypes
  <2>3. /\ isconnected' \in BOOLEAN /\ pingOutstanding' \in BOOLEAN
        /\ messageHandlers' \in [Slots -> [topicFilter : 0..Topics, fp : BOOLEAN]]
    BY <1>0, <1>11, CloseTypes, CleanTypes DEF Eof
  <2>4. ack' \in PacketTypes /\ ioPc' \in IoPcs
    BY <1>11 DEF Eof, PacketTypes, IoPcs
  <2> QED
    BY <1>0, <1>11, <2>1, <2>2, <2>3, <2>4, <2>9, IoLeavesTypes DEF Eof
<1>12. CASE Disconnect
  <2>9. ReaderTypes'
    BY <1>0, <1>f, <1>12, IoLeavesReader DEF Disconnect, IoLeaves
  <2>1. GoodChannels'
    BY <1>0, <1>12 DEF Disconnect, GoodChannels
  <2> QED
    BY <1>0, <1>12, <2>1, <2>9, IoLeavesTypes DEF IoLeaves, Disconnect, clientVars, history, HistoryTypes, IoPcs
<1>13. CASE Killed(ioPc \in {"ackSend", "pingSend"})
  BY <1>13, KilledTypes
<1> QED
  BY <1>1, <1>2, <1>3, <1>4, <1>5, <1>6, <1>7, <1>8, <1>9, <1>10, <1>11, <1>12, <1>13,
     <1>14, <1>15, <1>16 DEF IoNext

(***************************************************************************)
(* Steps of the broker, the connection and the clock.                       *)
(***************************************************************************)

\* The broker sends one packet or none.
SendsAtMostOne == UNCHANGED toClient \/ \E p \in GoodPackets : ToClient(p)

\* What is left to show of a step of the broker.
LEMMA BrokerLeavesTypes ==
  ASSUME TypeInv, BrokerLeaves, BrokerTypes', toBroker' \in Seq(GoodPackets), SendsAtMostOne
  PROVE  TypeInv'
<1> USE DEF TypeInv, TypeOK
<1>0. toClient' \in Seq(GoodPackets) /\ (toClient # << >> => toClient' # << >>)
  <2>1. toClient \in Seq(GoodPackets)
    BY DEF GoodChannels
  <2> HIDE DEF TypeInv, TypeOK
  <2>2. CASE UNCHANGED toClient
    BY <2>1, <2>2
  <2>3. ASSUME NEW p \in GoodPackets, ToClient(p)
        PROVE  toClient' \in Seq(GoodPackets) /\ toClient' # << >>
    BY <2>1, <2>3, AppendProperties DEF ToClient
  <2> QED BY <2>2, <2>3 DEF SendsAtMostOne
<1>1. AppTypes'
  BY DEF BrokerLeaves, AppTypes, appVars, NextCall
<1>2. ClientTypes'
  BY DEF BrokerLeaves, ClientTypes, clientVars
<1>3. GoodChannels'
  BY <1>0 DEF BrokerLeaves, GoodChannels
<1>4. IoTypes'
  BY <1>3, SeqMonotonic DEF IoTypes, GoodChannels, GoodPackets, BrokerLeaves
<1>5. HistoryTypes'
  BY DEF BrokerLeaves, HistoryTypes, history
<1>6. ReaderTypes'
  BY <1>0 DEF BrokerLeaves, ReaderTypes, inVars, history
<1> QED
  BY <1>1, <1>2, <1>3, <1>4, <1>5, <1>6

\* Every step of the broker, the connection and the clock keeps TypeInv.
LEMMA EnvStepTypes ==
  ASSUME TypeInv, EnvNext
  PROVE  TypeInv'
<1> USE DEF TypeInv, TypeOK
<1>0. /\ BrokerTypes /\ GoodChannels
      /\ toBroker \in Seq(GoodPackets) /\ toClient \in Seq(GoodPackets)
  BY DEF GoodChannels
<1>a. ASSUME NEW p \in GoodPackets, ToClient(p) PROVE SendsAtMostOne
  BY <1>a DEF SendsAtMostOne
<1>u. UNCHANGED toClient => SendsAtMostOne
  BY DEF SendsAtMostOne
<1>r. ASSUME NEW types, Receives(types)
      PROVE  /\ Head(toBroker) \in GoodPackets /\ Tail(toBroker) \in Seq(GoodPackets)
             /\ Head(toBroker).type \in types
  BY <1>0, <1>r, ReceiveGood DEF Receives
<1>1. CASE BrokerConnect
  <2>1. PICK code \in ConnackCodes : /\ ToClient(Pkt("CONNACK", code))
                                     /\ accepted' = (code = 0) /\ brokerUp' = (code = 0)
    BY <1>1 DEF BrokerConnect
  <2>2. SendsAtMostOne
    BY <1>a, <2>1, PacketsGood
  <2>3. BrokerTypes'
    BY <1>0, <1>1, <2>1 DEF BrokerConnect, BrokerTypes
  <2>4. toBroker' \in Seq(GoodPackets)
    BY <1>1, <1>r DEF BrokerConnect
  <2> QED
    BY <1>1, <2>2, <2>3, <2>4, BrokerLeavesTypes DEF BrokerConnect
<1>2. CASE BrokerSubscribe
  <2> DEFINE t == Head(toBroker).arg
  <2>0. /\ Head(toBroker) \in GoodPackets /\ Head(toBroker).type = "SUBSCRIBE"
        /\ toBroker' \in Seq(GoodPackets)
    BY <1>2, <1>r DEF BrokerSubscribe
  <2>1. toBroker' \in Seq(GoodPackets) /\ t \in 1..Topics
    BY <2>0 DEF GoodPackets, WellFormed
  <2>2. /\ UNCHANGED <<brokerUp, accepted, published, inflight>> /\ BrokerLeaves
        /\ \/ bSub' = [bSub EXCEPT ![t] = "granting"] /\ UNCHANGED toClient
           \/ bSub' = [bSub EXCEPT ![t] = "refused"] /\ ToClient(Pkt("SUBACK", 0 - t))
    BY <1>2 DEF BrokerSubscribe
  <2> HIDE DEF t
  <2>3. SendsAtMostOne
    BY <1>a, <1>u, <2>1, <2>2, PacketsGood
  <2>4. bSub' \in [1..Topics -> {"none", "granting", "granted", "refused"}]
    BY <1>0, <2>1, <2>2 DEF BrokerTypes
  <2>5. BrokerTypes'
    BY <1>0, <2>2, <2>4 DEF BrokerTypes
  <2> QED
    BY <2>1, <2>2, <2>3, <2>5, BrokerLeavesTypes
<1>3. CASE BrokerSuback
  <2>1. PICK t \in 1..Topics : /\ bSub' = [bSub EXCEPT ![t] = "granted"]
                               /\ ToClient(Pkt("SUBACK", t))
    BY <1>3 DEF BrokerSuback
  <2>2. SendsAtMostOne
    BY <1>a, <2>1, PacketsGood
  <2>3. bSub' \in [1..Topics -> {"none", "granting", "granted", "refused"}]
    BY <1>0, <2>1 DEF BrokerTypes
  <2>4. BrokerTypes'
    BY <1>0, <1>3, <2>3 DEF BrokerTypes, BrokerSuback
  <2> QED
    BY <1>0, <1>3, <2>2, <2>4, BrokerLeavesTypes DEF BrokerSuback
<1>4. CASE BrokerPing
  <2>1. toBroker' \in Seq(GoodPackets)
    BY <1>4, <1>r DEF BrokerPing
  <2>2. SendsAtMostOne
    BY <1>4, <1>a, PacketsGood DEF BrokerPing
  <2>3. BrokerTypes'
    BY <1>0, <1>4 DEF BrokerPing, BrokerTypes, brokerVars
  <2> QED
    BY <1>4, <2>1, <2>2, <2>3, BrokerLeavesTypes DEF BrokerPing
<1>5. CASE BrokerPublish
  <2> DEFINE m == published + 1
  <2>1. m \in Messages
    BY <1>0, <1>5, MsgAssumption DEF BrokerPublish, BrokerTypes, Messages
  <2>2. /\ ToClient(Pkt("PUBLISH", m)) /\ published' = m
        /\ inflight' = IF MsgQoS[m] = 0 THEN inflight ELSE inflight \cup {m}
        /\ BrokerLeaves /\ UNCHANGED <<toBroker, brokerUp, accepted, bSub>>
    BY <1>5 DEF BrokerPublish
  <2> HIDE DEF m
  <2>3. SendsAtMostOne
    BY <1>a, <2>1, <2>2, PacketsGood DEF Handshake
  <2>4. published' \in 0..Len(MsgTopic)
    BY <2>1, <2>2, MsgAssumption DEF Messages
  <2>5. BrokerTypes'
    BY <1>0, <2>1, <2>2, <2>4 DEF BrokerTypes
  <2> QED
    BY <1>0, <2>2, <2>3, <2>5, BrokerLeavesTypes
<1>6. CASE BrokerAcknowledged
  <2>1. toBroker' \in Seq(GoodPackets)
    BY <1>6, <1>r DEF BrokerAcknowledged
  <2>2. BrokerTypes'
    BY <1>0, <1>6 DEF BrokerAcknowledged, BrokerTypes
  <2> QED
    BY <1>6, <1>u, <2>1, <2>2, BrokerLeavesTypes DEF BrokerAcknowledged
<1>7. CASE BrokerPubrec
  <2>1. toBroker' \in Seq(GoodPackets) /\ Head(toBroker).arg \in Messages
    BY <1>7, <1>r DEF BrokerPubrec, GoodPackets, WellFormed, Handshake
  <2>2. SendsAtMostOne
    BY <1>7, <1>a, <2>1, PacketsGood DEF BrokerPubrec, Handshake
  <2>3. BrokerTypes'
    BY <1>0, <1>7 DEF BrokerPubrec, BrokerTypes, brokerVars
  <2> QED
    BY <1>7, <2>1, <2>2, <2>3, BrokerLeavesTypes DEF BrokerPubrec
<1>8. CASE BrokerClose
  <2>1. BrokerTypes'
    BY <1>0, <1>8 DEF BrokerClose, BrokerTypes
  <2> QED
    BY <1>8, <1>u, <2>1, BrokerLeavesTypes DEF BrokerClose
<1>9. CASE IntervalPasses
  <2>1. AppTypes'
    BY <1>9 DEF IntervalPasses, AppTypes, appVars, NextCall
  <2>2. ClientTypes' /\ BrokerTypes'
    BY <1>9 DEF IntervalPasses, ClientTypes, clientVars, BrokerTypes, brokerVars
  <2>3. IoTypes' /\ GoodChannels'
    BY <1>9 DEF IntervalPasses, IoTypes, GoodChannels
  <2>4. HistoryTypes'
    BY <1>9 DEF IntervalPasses, HistoryTypes
  <2>5. ReaderTypes'
    BY <1>9 DEF IntervalPasses, ReaderTypes, inVars
  <2> QED
    BY <2>1, <2>2, <2>3, <2>4, <2>5
<1> QED
  BY <1>1, <1>2, <1>3, <1>4, <1>5, <1>6, <1>7, <1>8, <1>9 DEF EnvNext

\* No step of either thread or of the broker breaks TypeInv.
LEMMA NextTypes == TypeInv /\ [Next]_vars => TypeInv'
<1> SUFFICES ASSUME TypeInv, [Next]_vars PROVE TypeInv'
  OBVIOUS
<1>1. CASE UNCHANGED vars
  <2> USE <1>1 DEF vars, appVars, clientVars, inVars, brokerVars, history, TypeInv, TypeOK
  <2>1. AppTypes' /\ ClientTypes'
    BY DEF AppTypes, ClientTypes, NextCall
  <2>2. IoTypes' /\ GoodChannels'
    BY DEF IoTypes, GoodChannels
  <2>3. BrokerTypes' /\ HistoryTypes' /\ ReaderTypes'
    BY DEF BrokerTypes, HistoryTypes, ReaderTypes
  <2> QED
    BY <2>1, <2>2, <2>3
<1> QED
  BY <1>1, AppStepTypes, IoStepTypes, EnvStepTypes DEF Next

\* Types and well-formed packets hold throughout.
THEOREM TypeInvariance == Spec => []TypeInv
  BY InitTypes, NextTypes, PTL DEF Spec

\* TypeOK holds in every state: the variables of the client, of both threads and of the
\* broker keep their types, for any calls, topics, handlers and messages.
THEOREM TypeCorrect == Spec => []TypeOK
<1>1. TypeInv => TypeOK
  BY DEF TypeInv
<1> QED
  BY <1>1, TypeInvariance, PTL

-----------------------------------------------------------------------------
(* An approval is the broker's *)

\* Until the broker has accepted, no packet on the way or in packetBuf says so.
NoApproval == {p \in GoodPackets : ~ (p.type = "CONNACK" /\ p.arg = 0)}
ApprovalFromBroker == ~accepted => toClient \in Seq(NoApproval) /\ packetBuf \in NoApproval
ApprovalInv == ApprovalFromBroker /\ ConnectJustified

\* A return that is no success of a connect, or comes after the broker has accepted,
\* keeps ConnectJustified.
LEMMA ReturnJustified ==
  ASSUME AppTypes, CallRuns, ConnectJustified, NEW rc, Return(rc), accepted' = accepted,
         rc = SUCCESS => NextCall # 0 \/ accepted
  PROVE  ConnectJustified'
<1>1. /\ Len(results) \in Nat /\ Len(Calls) \in Nat /\ Calls \in Seq(0..Topics)
      /\ results \in Seq(FAILURE..5)
  BY CallsAssumption DEF AppTypes
<1>2. results' = Append(results, rc)
  BY DEF Return
<1>3. /\ Len(results') = Len(results) + 1
      /\ results'[Len(results) + 1] = rc
      /\ \A k \in 1..Len(results) : results'[k] = results[k]
  <2>1. results \in Seq(FAILURE..5 \cup {rc}) /\ rc \in FAILURE..5 \cup {rc}
    BY <1>1, SeqMonotonic
  <2> QED
    BY <1>2, <2>1, AppendProperties
<1>4. DOMAIN results = 1..Len(results) /\ DOMAIN results' = 1..(Len(results) + 1)
  BY <1>1, <1>2, <1>3
<1>5. SUFFICES ASSUME NEW k \in DOMAIN Calls, Connected(k)'
               PROVE  accepted
  BY DEF ConnectJustified
<1>6. k \in 1..(Len(results) + 1) /\ Calls[k] = 0 /\ results'[k] = SUCCESS
  BY <1>4, <1>5 DEF Connected
<1>7. CASE k = Len(results) + 1
  BY <1>3, <1>6, <1>7 DEF NextCall
<1>8. CASE k \in 1..Len(results)
  BY <1>3, <1>4, <1>6, <1>8 DEF Connected, ConnectJustified
<1> QED
  BY <1>1, <1>6, <1>7, <1>8

\* The main thread returns SUCCESS from a connect only on an approval it has read.
LEMMA AppApproval ==
  ASSUME TypeInv, ApprovalInv, AppNext
  PROVE  ApprovalInv'
<1> USE DEF TypeInv, TypeOK, ApprovalInv
<1>0. UNCHANGED <<accepted, toClient, packetBuf>>
  BY DEF AppNext, ConnectBegin, ConnectSend, ConnackWait, ConnackRead, SubscribeBegin,
         SubscribeSend, SubackWait, SubackRead, SetFilter, SetHandler, CloseSession, Killed,
         AppLeaves, brokerVars
<1>1. ApprovalFromBroker'
  BY <1>0 DEF ApprovalFromBroker
<1>2. ASSUME UNCHANGED results PROVE ConnectJustified'
  BY <1>0, <1>2 DEF ConnectJustified, Connected
<1>3. ASSUME CallRuns, NEW rc \in FAILURE..5, Return(rc),
             rc = SUCCESS => NextCall # 0 \/ accepted
      PROVE  ConnectJustified'
  BY <1>0, <1>3, ReturnJustified
<1>4. UNCHANGED results \/ \E rc \in FAILURE..5 :
           CallRuns /\ Return(rc) /\ (rc = SUCCESS => NextCall # 0 \/ accepted)
  <2>0. FAILURE \in FAILURE..5 /\ SUCCESS \in FAILURE..5 /\ FAILURE # SUCCESS
    BY DEF FAILURE, SUCCESS
  <2>1. CASE ConnectBegin
    BY <2>0, <2>1, CallRunning DEF ConnectBegin, Goto
  <2>2. CASE ConnectSend
    BY <2>0, <2>2, CallRunning DEF ConnectSend, Goto
  <2>3. CASE ConnackWait
    BY <2>0, <2>3, CallRunning DEF ConnackWait, Goto
  <2>4. CASE ConnackRead
    <3>1. Return(ConnackCode) /\ CallRuns
      BY <2>4, CallRunning DEF ConnackRead
    <3>2. ConnackCode \in FAILURE..5
      BY DEF ConnackCode, FAILURE, GoodChannels, GoodPackets, WellFormed
    <3>3. ConnackCode = SUCCESS => accepted
      BY DEF ConnackCode, FAILURE, SUCCESS, ApprovalFromBroker, NoApproval
    <3> QED
      BY <3>1, <3>2, <3>3
  <2>5. CASE SubscribeBegin
    BY <2>5 DEF SubscribeBegin, Goto
  <2>6. CASE SubscribeSend
    BY <2>6 DEF SubscribeSend, Goto
  <2>7. CASE SubackWait
    BY <2>7 DEF SubackWait, Goto
  <2>8. CASE SubackRead
    <3>1. NextCall # 0 /\ CallRuns
      BY <2>8, CallRunning DEF SubackRead, AppTypes
    <3> QED
      BY <2>0, <2>8, <3>1 DEF SubackRead, Goto
  <2>9. CASE SetFilter
    BY <2>9 DEF SetFilter, Goto
  <2>10. CASE SetHandler
    <3>1. NextCall # 0 /\ CallRuns
      BY <2>10, CallRunning DEF SetHandler, AppTypes
    <3> QED
      BY <2>0, <2>10, <3>1 DEF SetHandler
  <2>11. CASE CloseSession
    BY <2>0, <2>11, CallRunning DEF CloseSession
  <2>12. CASE Killed(appPc \in {"connectSend", "subscribeSend"})
    BY <2>12 DEF Killed
  <2> QED
    BY <2>1, <2>2, <2>3, <2>4, <2>5, <2>6, <2>7, <2>8, <2>9, <2>10, <2>11, <2>12 DEF AppNext
<1> QED
  BY <1>1, <1>2, <1>3, <1>4

\* The I/O thread puts nothing into the channel it reads, and packetBuf holds what came out
\* of it: this is so however many packets a read yields and however often one is handled.
LEMMA IoChannel ==
  ASSUME TypeInv, IoNext, NEW S, toClient \in Seq(S), packetBuf \in S, NoPacket \in S
  PROVE  toClient' \in Seq(S) /\ packetBuf' \in S
<1>1. CASE ReadBegin
  BY <1>1, FirstAndLater DEF ReadBegin
<1>2. CASE ReadEnd
  <2>1. toClient # << >>
    BY <1>2 DEF ReadEnd, TypeInv, TypeOK, ReaderTypes
  <2>2. Head(toClient) \in S /\ Tail(toClient) \in Seq(S)
    BY <2>1, HeadTailProperties
  <2> QED
    BY <1>2, <2>2 DEF ReadEnd, Unread
<1>3. CASE UNCHANGED toClient /\ packetBuf' \in {packetBuf, NoPacket}
  BY <1>3
<1> QED
  BY <1>1, <1>2, <1>3
     DEF IoNext, NeedMore, Again, Lose, HandleAnswer, HandlePublish, HandlePubrel,
         HandlePingresp, AckSend, Wake, KeepaliveCheck, PingSend, Eof, Disconnect, Killed

\* The I/O thread only moves packets.
LEMMA IoApproval ==
  ASSUME TypeInv, ApprovalInv, IoNext
  PROVE  ApprovalInv'
<1> USE DEF TypeInv, ApprovalInv
<1>0. UNCHANGED <<accepted, results>>
  BY DEF IoNext, ReadBegin, NeedMore, ReadEnd, Again, Lose, HandleAnswer, HandlePublish,
         HandlePubrel, HandlePingresp,
         AckSend, Wake, KeepaliveCheck, PingSend, Eof, Disconnect, Killed, IoLeaves, ReaderLeaves, appVars,
         brokerVars
<1>1. ConnectJustified'
  BY <1>0 DEF ConnectJustified, Connected
<1>2. ApprovalFromBroker'
  <2>1. NoPacket \in NoApproval
    BY PacketsGood DEF NoApproval, NoPacket, Pkt
  <2> QED
    BY <1>0, <2>1, IoChannel DEF ApprovalFromBroker
<1> QED
  BY <1>1, <1>2

\* The broker sends an approval and has accepted in one step, and does not take it back.
LEMMA EnvApproval ==
  ASSUME TypeInv, ApprovalInv, EnvNext
  PROVE  ApprovalInv'
<1> USE DEF TypeInv, TypeOK, ApprovalInv
<1>0. UNCHANGED <<results, packetBuf>> /\ (accepted => accepted')
  BY DEF EnvNext, BrokerConnect, BrokerSubscribe, BrokerSuback, BrokerPing, BrokerPublish,
         BrokerAcknowledged, BrokerPubrec, BrokerClose, IntervalPasses, BrokerLeaves, appVars,
         brokerVars
<1>1. ConnectJustified'
  BY <1>0 DEF ConnectJustified, Connected
<1>2. ASSUME ~accepted' PROVE toClient' \in Seq(NoApproval)
  <2>0. toClient \in Seq(NoApproval)
    BY <1>0, <1>2 DEF ApprovalFromBroker
  <2>a. ASSUME NEW p \in NoApproval, ToClient(p) PROVE toClient' \in Seq(NoApproval)
    BY <2>0, <2>a, AppendProperties DEF ToClient
  <2>1. CASE BrokerConnect
    <3>1. PICK code \in ConnackCodes : ToClient(Pkt("CONNACK", code)) /\ accepted' = (code = 0)
      BY <2>1 DEF BrokerConnect
    <3>2. Pkt("CONNACK", code) \in NoApproval
      BY <1>2, <3>1, PacketsGood DEF NoApproval, Pkt
    <3> QED
      BY <2>a, <3>1, <3>2
  <2>2. CASE BrokerSuback
    <3>1. PICK t \in 1..Topics : ToClient(Pkt("SUBACK", t))
      BY <2>2 DEF BrokerSuback
    <3>2. Pkt("SUBACK", t) \in NoApproval
      BY PacketsGood DEF NoApproval, Pkt
    <3> QED
      BY <2>a, <3>1, <3>2
  <2>3. CASE BrokerPublish
    <3>1. published + 1 \in Messages
      BY <2>3, MsgAssumption DEF BrokerPublish, BrokerTypes, Messages
    <3>2. Pkt("PUBLISH", published + 1) \in NoApproval
      BY <3>1, PacketsGood DEF NoApproval, Pkt, Handshake
    <3> QED
      BY <2>a, <2>3, <3>2 DEF BrokerPublish
  <2>4. CASE BrokerSubscribe \/ BrokerPing \/ BrokerPubrec
    BY <1>2, <2>4 DEF BrokerSubscribe, BrokerPing, BrokerPubrec, brokerVars
  <2>5. CASE UNCHANGED toClient
    BY <2>0, <2>5
  <2> QED
    BY <2>1, <2>2, <2>3, <2>4, <2>5
       DEF EnvNext, BrokerAcknowledged, BrokerClose, IntervalPasses
<1> QED
  BY <1>0, <1>1, <1>2 DEF ApprovalFromBroker

\* MQTTConnect returns SUCCESS only after the broker has accepted, for any sequence of
\* calls, although answer and return code reach it through a shared word and buffer.
THEOREM ConnectIsJustified == Spec => []ConnectJustified
<1>1. Init => ApprovalInv
  <2>1. Init => NoPacket \in NoApproval /\ << >> \in Seq(NoApproval)
    BY PacketsGood DEF NoApproval, NoPacket, Pkt
  <2> QED
    BY <2>1 DEF Init, ApprovalInv, ApprovalFromBroker, ConnectJustified, Connected
<1>2. TypeInv /\ ApprovalInv /\ [Next]_vars => ApprovalInv'
  <2>1. UNCHANGED vars /\ ApprovalInv => ApprovalInv'
    BY DEF vars, appVars, brokerVars, ApprovalInv, ApprovalFromBroker, ConnectJustified, Connected
  <2> QED
    BY <2>1, AppApproval, IoApproval, EnvApproval DEF Next
<1>3. ApprovalInv => ConnectJustified
  BY DEF ApprovalInv
<1> QED
  BY <1>1, <1>2, <1>3, TypeInvariance, PTL DEF Spec

-----------------------------------------------------------------------------
(* The end of the connection leaves no session behind *)

\* The last call of the application is a subscribe, as in mqttmakeRequest.
LastSubscribes == Calls = << >> \/ Calls[Len(Calls)] # 0

\* The pc of a call is in the function that was called.
InTheirCall ==
  /\ appPc \in {"connectSend", "connackWait", "connackRead"} => CallRuns /\ NextCall = 0
  /\ appPc = "closeSession" => NextCall # 0

\* After the I/O thread has seen the end, nothing sets ack; so isconnected, which the
\* late reader of a CONNACK may still set, lasts no longer than to the next subscribe.
Ended == ioPc \in {"disconnect", "exited"}
LastReturned == results # << >> /\ Calls[Len(results)] = 0
EndInv ==
  /\ InTheirCall
  /\ Ended => ack = "none"
  /\ Ended /\ isconnected =>
       /\ appPc \notin {"subackRead", "setFilter", "setHandler"}
       /\ appPc = "call" => LastReturned

\* A connect that returns is the call that returned last.
LEMMA ConnectReturns ==
  ASSUME AppTypes, NextCall = 0, NEW rc \in FAILURE..5, Return(rc)
  PROVE  LastReturned'
<1>1. results \in Seq(FAILURE..5) /\ results' = Append(results, rc)
  BY DEF AppTypes, Return
<1>2. Len(results') = Len(results) + 1 /\ results' # << >>
  BY <1>1, AppendProperties
<1> QED
  BY <1>2 DEF LastReturned, NextCall

\* The application thread: a connect that returns late is in LastReturned, a subscribe
\* ends in CloseSession.
LEMMA AppEnd ==
  ASSUME TypeInv, EndInv, AppNext
  PROVE  EndInv'
<1> USE DEF TypeInv, TypeOK, EndInv
<1>0. ioPc' = ioPc \/ ioPc' = "killed"
  BY DEF AppNext, ConnectBegin, ConnectSend, ConnackWait, ConnackRead, SubscribeBegin,
         SubscribeSend, SubackWait, SubackRead, SetFilter, SetHandler, CloseSession, Killed,
         AppLeaves
<1>f. FAILURE \in FAILURE..5 /\ SUCCESS \in FAILURE..5
  BY DEF FAILURE, SUCCESS
<1>g. ASSUME NEW pc, Goto(pc)
      PROVE  NextCall' = NextCall /\ (CallRuns => CallRuns') /\ appPc' = pc
  BY <1>g DEF Goto, NextCall, CallRuns
<1>1. CASE ConnectBegin
  <2>1. NextCall = 0 /\ CallRuns /\ UNCHANGED <<isconnected, ack>>
    BY <1>1, CallRunning DEF ConnectBegin, clientVars
  <2>2. CASE Goto("connectSend") /\ ~isconnected
    BY <1>0, <1>g, <2>1, <2>2 DEF InTheirCall, Ended
  <2>3. CASE Return(FAILURE)
    <3>1. LastReturned' /\ appPc' = "call"
      BY <1>f, <2>1, <2>3, ConnectReturns DEF Return
    <3> QED
      BY <1>0, <2>1, <3>1 DEF InTheirCall, Ended
  <2> QED
    BY <1>1, <2>2, <2>3 DEF ConnectBegin
<1>2. CASE ConnectSend
  <2>1. NextCall = 0 /\ CallRuns /\ UNCHANGED <<isconnected, ack>>
    BY <1>2 DEF ConnectSend, InTheirCall, clientVars
  <2>2. CASE Goto("connackWait")
    BY <1>0, <1>g, <2>1, <2>2 DEF InTheirCall, Ended
  <2>3. CASE Return(FAILURE)
    <3>1. LastReturned' /\ appPc' = "call"
      BY <1>f, <2>1, <2>3, ConnectReturns DEF Return
    <3> QED
      BY <1>0, <2>1, <3>1 DEF InTheirCall, Ended
  <2> QED
    BY <1>2, <2>2, <2>3 DEF ConnectSend
<1>3. CASE ConnackWait
  <2>1. NextCall = 0 /\ CallRuns /\ UNCHANGED <<isconnected, ack>>
    BY <1>3 DEF ConnackWait, InTheirCall
  <2>2. CASE Goto("connackRead")
    BY <1>0, <1>g, <2>1, <2>2 DEF InTheirCall, Ended
  <2>3. CASE Return(FAILURE)
    <3>1. LastReturned' /\ appPc' = "call"
      BY <1>f, <2>1, <2>3, ConnectReturns DEF Return
    <3> QED
      BY <1>0, <2>1, <3>1 DEF InTheirCall, Ended
  <2> QED
    BY <1>3, <2>2, <2>3 DEF ConnackWait
<1>4. CASE ConnackRead
  <2>1. NextCall = 0 /\ UNCHANGED ack /\ Return(ConnackCode)
    BY <1>4 DEF ConnackRead, InTheirCall
  <2>2. ConnackCode \in FAILURE..5
    BY DEF ConnackCode, FAILURE, GoodChannels, GoodPackets, WellFormed
  <2>3. LastReturned' /\ appPc' = "call"
    BY <2>1, <2>2, ConnectReturns DEF Return
  <2> QED
    BY <1>0, <2>1, <2>3 DEF InTheirCall, Ended
<1>5. CASE SubscribeBegin
  <2>1. /\ NextCall # 0 /\ UNCHANGED <<isconnected, ack>>
        /\ Goto("subscribeSend") \/ Goto("closeSession")
    BY <1>5 DEF SubscribeBegin, clientVars
  <2> QED
    BY <1>0, <1>g, <2>1 DEF InTheirCall, Ended
<1>6. CASE SubscribeSend
  <2>1. /\ NextCall # 0 /\ UNCHANGED <<isconnected, ack>>
        /\ Goto("subackWait") \/ Goto("closeSession")
    BY <1>6 DEF SubscribeSend, clientVars, AppTypes
  <2> QED
    BY <1>0, <1>g, <2>1 DEF InTheirCall, Ended
<1>7. CASE SubackWait
  <2>1. /\ NextCall # 0 /\ UNCHANGED <<isconnected, ack>>
        /\ (Goto("subackRead") /\ ack = "SUBACK") \/ Goto("closeSession")
    BY <1>7 DEF SubackWait, Answered, AppTypes
  <2> QED
    BY <1>0, <1>g, <2>1 DEF InTheirCall, Ended
<1>8. CASE SubackRead
  <2>1. /\ NextCall # 0 /\ UNCHANGED <<isconnected, ack>> /\ appPc = "subackRead"
        /\ Goto("closeSession") \/ Goto("setFilter") \/ Return(SUCCESS)
    BY <1>8 DEF SubackRead, clientVars, AppTypes
  <2>2. Ended' => ~isconnected'
    BY <1>0, <2>1 DEF Ended
  <2>3. InTheirCall'
    BY <1>g, <2>1 DEF InTheirCall, Return
  <2> QED
    BY <1>0, <2>1, <2>2, <2>3 DEF Ended
<1>9. CASE SetFilter
  <2>1. UNCHANGED <<isconnected, ack>> /\ appPc = "setFilter" /\ Goto("setHandler")
    BY <1>9 DEF SetFilter
  <2> QED
    BY <1>0, <1>g, <2>1 DEF InTheirCall, Ended
<1>10. CASE SetHandler
  <2>1. UNCHANGED <<isconnected, ack>> /\ appPc = "setHandler" /\ Return(SUCCESS)
    BY <1>10 DEF SetHandler
  <2> QED
    BY <1>0, <2>1 DEF InTheirCall, Ended, Return
<1>11. CASE CloseSession
  <2>1. ~isconnected' /\ UNCHANGED ack /\ Return(FAILURE)
    BY <1>11 DEF CloseSession, MQTTCloseSession
  <2> QED
    BY <1>0, <2>1 DEF InTheirCall, Ended, Return
<1>12. CASE Killed(appPc \in {"connectSend", "subscribeSend"})
  BY <1>12 DEF Killed, InTheirCall, Ended
<1> QED
  BY <1>1, <1>2, <1>3, <1>4, <1>5, <1>6, <1>7, <1>8, <1>9, <1>10, <1>11, <1>12 DEF AppNext

\* The I/O thread: Eof is the last step that touches the session.
LEMMA IoEnd ==
  ASSUME TypeInv, EndInv, IoNext
  PROVE  EndInv'
<1> USE DEF EndInv
<1>1. CASE Killed(ioPc \in {"ackSend", "pingSend"})
  BY <1>1 DEF Killed, InTheirCall, Ended
<1>2. CASE UNCHANGED appVars
  <2>1. UNCHANGED <<appPc, results, NextCall, CallRuns, LastReturned>> /\ InTheirCall'
    BY <1>2 DEF appVars, NextCall, CallRuns, LastReturned, InTheirCall
  <2>2. CASE Eof
    <3>1. ack' = "none" /\ ~isconnected'
      BY <2>2 DEF Eof, MQTTCloseSession
    <3> QED
      BY <2>1, <3>1
  <2>3. CASE Disconnect
    BY <2>1, <2>3 DEF Disconnect, clientVars, Ended
  <2>4. CASE ~Ended'
    BY <2>1, <2>4
  <2> QED
    BY <2>2, <2>3, <2>4, <1>1
       DEF IoNext, ReadBegin, NeedMore, ReadEnd, Again, Lose, HandleAnswer, HandlePublish,
         HandlePubrel, HandlePingresp,
           AckSend, Wake, KeepaliveCheck, PingSend, Ended, Killed, Onward
<1> QED
  BY <1>1, <1>2
     DEF IoNext, ReadBegin, NeedMore, ReadEnd, Again, Lose, HandleAnswer, HandlePublish,
         HandlePubrel, HandlePingresp,
         AckSend, Wake, KeepaliveCheck, PingSend, Eof, Disconnect, IoLeaves, ReaderLeaves

\* The broker and the clock touch nothing of the session.
LEMMA EnvEnd ==
  ASSUME EndInv, EnvNext \/ UNCHANGED vars
  PROVE  EndInv'
<1>1. UNCHANGED <<appVars, isconnected, ack, ioPc>>
  BY DEF EnvNext, BrokerConnect, BrokerSubscribe, BrokerSuback, BrokerPing, BrokerPublish,
         BrokerAcknowledged, BrokerPubrec, BrokerClose, IntervalPasses, BrokerLeaves,
         clientVars, vars
<1> QED
  BY <1>1 DEF EndInv, InTheirCall, Ended, LastReturned, NextCall, CallRuns, appVars

\* Whichever thread notices the end of the connection first, the session is not left
\* connected, when the last call is a subscribe.
THEOREM EofClosesTheSession ==
  ASSUME LastSubscribes
  PROVE  Spec => []EofClosesSession
<1>1. Init => EndInv
  BY DEF Init, EndInv, InTheirCall, Ended
<1>2. TypeInv /\ EndInv /\ [Next]_vars => EndInv'
  BY AppEnd, IoEnd, EnvEnd DEF Next
<1>3. TypeInv /\ EndInv => EofClosesSession
  <2>1. SUFFICES ASSUME TypeInv, EndInv, ioPc = "exited", AppIdle, isconnected
                 PROVE  FALSE
    BY DEF EofClosesSession
  <2>2. results # << >> /\ Calls[Len(Calls)] = 0
    BY <2>1 DEF EndInv, Ended, AppIdle, LastReturned
  <2>3. results \in Seq(FAILURE..5) /\ Len(results) = Len(Calls)
    BY <2>1 DEF TypeInv, TypeOK, AppTypes, AppIdle
  <2>4. Len(Calls) # 0
    BY <2>2, <2>3, EmptySeq
  <2>5. Calls # << >>
    BY <2>4
  <2> QED
    BY <2>2, <2>5 DEF LastSubscribes
<1> QED
  BY <1>1, <1>2, <1>3, TypeInvariance, PTL DEF Spec

-----------------------------------------------------------------------------
(* sendBuf has one writer *)

\* The application subscribes once, and last, as mqttmakeRequest does.
SubscribesOnceLast == \A k \in DOMAIN Calls : Calls[k] # 0 => k = Len(Calls)

\* Before the SUBSCRIBE is on its way, nothing makes the I/O thread write: no packet that
\* leads to an answer has been sent, and keepalive is not called.
BeforeSubscribe ==
  CallRuns /\ appPc \in {"call", "connectSend", "connackWait", "connackRead", "subscribeSend"}
EarlyToBroker == {p \in GoodPackets : p.type \in {"CONNECT", "garbage"}}
EarlyToClient == {p \in GoodPackets : p.type \in {"CONNACK", "none"}}
Quiet ==
  /\ toBroker \in Seq(EarlyToBroker)
  /\ toClient \in Seq(EarlyToClient) /\ packetBuf \in EarlyToClient
  /\ \A t \in 1..Topics : bSub[t] = "none"
  /\ runState # "CONNECTED"
  /\ ioPc \notin {"ackSend", "keepalive", "pingSend"}
QuietInv == InTheirCall /\ (BeforeSubscribe => Quiet)

\* After the subscribe has returned no call is left.
LEMMA SubscribeReturns ==
  ASSUME SubscribesOnceLast, AppTypes, CallRuns, NextCall # 0, NEW rc \in FAILURE..5, Return(rc)
  PROVE  ~ CallRuns'
<1>1. /\ results \in Seq(FAILURE..5) /\ results' = Append(results, rc)
      /\ Calls \in Seq(0..Topics)
  BY CallsAssumption DEF AppTypes, Return
<1>2. Len(results') = Len(results) + 1
  BY <1>1, AppendProperties
<1>3. Len(results) + 1 \in DOMAIN Calls
  BY <1>1 DEF CallRuns
<1>4. Len(results) + 1 = Len(Calls)
  BY <1>3 DEF SubscribesOnceLast, NextCall
<1> QED
  BY <1>1, <1>2, <1>4 DEF CallRuns

\* Up to the SUBSCRIBE the main thread sends CONNECT or what becomes of it, and after it
\* there is no call left.
LEMMA AppQuiet ==
  ASSUME SubscribesOnceLast, TypeInv, EndInv, EndInv', QuietInv, AppNext
  PROVE  QuietInv'
<1> USE DEF TypeInv, TypeOK
<1>0. InTheirCall'
  BY DEF EndInv
<1>f. FAILURE \in FAILURE..5 /\ SUCCESS \in FAILURE..5
  BY DEF FAILURE, SUCCESS
<1>q. ASSUME BeforeSubscribe, UNCHANGED <<toBroker, toClient, packetBuf, bSub, ioPc>>,
             runState' # "CONNECTED" \/ runState' = runState
      PROVE  QuietInv'
  BY <1>0, <1>q DEF QuietInv, Quiet
<1>n. ASSUME ~ BeforeSubscribe' PROVE QuietInv'
  BY <1>0, <1>n DEF QuietInv
<1>1. CASE ConnectBegin
  <2>1. BeforeSubscribe
    BY <1>1, CallRunning DEF ConnectBegin, BeforeSubscribe
  <2> QED
    BY <1>1, <1>q, <2>1 DEF ConnectBegin, AppLeaves, brokerVars, clientVars
<1>2. CASE ConnectSend
  <2>1. BeforeSubscribe
    BY <1>2, CallRunning DEF ConnectSend, BeforeSubscribe
  <2>2. UNCHANGED <<toClient, packetBuf, bSub, ioPc, runState>>
    BY <1>2 DEF ConnectSend, AppLeaves, brokerVars, clientVars
  <2>3. ConnectPacket \in EarlyToBroker /\ Garbage \in EarlyToBroker
    BY PacketsGood DEF EarlyToBroker, ConnectPacket, Garbage, Pkt
  <2>4. toBroker' \in {toBroker, Append(toBroker, ConnectPacket), Append(toBroker, Garbage)}
    BY <1>2 DEF ConnectSend, SendSucceeds, SendFails
  <2>5. toBroker' \in Seq(EarlyToBroker)
    <3>1. toBroker \in Seq(EarlyToBroker)
      BY <2>1 DEF QuietInv, Quiet
    <3> HIDE DEF EarlyToBroker
    <3> QED
      BY <2>3, <2>4, <3>1, AppendProperties
  <2> QED
    BY <1>0, <2>1, <2>2, <2>5 DEF QuietInv, Quiet
<1>3. CASE ConnackWait
  <2>1. BeforeSubscribe
    BY <1>3, CallRunning DEF ConnackWait, BeforeSubscribe
  <2> QED
    BY <1>3, <1>q, <2>1 DEF ConnackWait, AppLeaves, brokerVars
<1>4. CASE ConnackRead
  <2>1. BeforeSubscribe
    BY <1>4, CallRunning DEF ConnackRead, BeforeSubscribe
  <2> QED
    BY <1>4, <1>q, <2>1 DEF ConnackRead, AppLeaves, brokerVars
<1>5. CASE SubscribeBegin
  <2>1. BeforeSubscribe
    BY <1>5, CallRunning DEF SubscribeBegin, BeforeSubscribe
  <2> QED
    BY <1>5, <1>q, <2>1 DEF SubscribeBegin, AppLeaves, brokerVars, clientVars
<1>6. CASE Goto("subackWait") \/ Goto("subackRead") \/ Goto("setFilter") \/ Goto("setHandler")
           \/ Goto("closeSession")
  BY <1>6, <1>n DEF Goto, BeforeSubscribe
<1>7. CASE \E rc \in FAILURE..5 : Return(rc) /\ CallRuns /\ NextCall # 0
  BY <1>7, <1>n, SubscribeReturns DEF BeforeSubscribe
<1>8. CASE SubscribeSend \/ SubackWait \/ SetFilter
  BY <1>6, <1>8 DEF SubscribeSend, SubackWait, SetFilter
<1>9. CASE SubackRead
  <2>1. CallRuns /\ NextCall # 0
    BY <1>9, CallRunning DEF SubackRead, AppTypes
  <2> QED
    BY <1>f, <1>6, <1>7, <1>9, <2>1 DEF SubackRead
<1>10. CASE SetHandler
  <2>1. CallRuns /\ NextCall # 0
    BY <1>10, CallRunning DEF SetHandler, AppTypes
  <2> QED
    BY <1>f, <1>7, <1>10, <2>1 DEF SetHandler
<1>11. CASE CloseSession
  <2>1. CallRuns /\ NextCall # 0
    BY <1>11, CallRunning DEF CloseSession, EndInv, InTheirCall
  <2> QED
    BY <1>f, <1>7, <1>11, <2>1 DEF CloseSession
<1>12. CASE Killed(appPc \in {"connectSend", "subscribeSend"})
  BY <1>12, <1>n DEF Killed, BeforeSubscribe
<1> QED
  BY <1>1, <1>2, <1>3, <1>4, <1>5, <1>8, <1>9, <1>10, <1>11, <1>12 DEF AppNext

\* The I/O thread has nothing to answer and does not call keepalive.
LEMMA IoQuiet ==
  ASSUME TypeInv, EndInv', QuietInv, IoNext
  PROVE  QuietInv'
<1> USE DEF TypeInv
<1>0. InTheirCall'
  BY DEF EndInv
<1>1. CASE Killed(ioPc \in {"ackSend", "pingSend"})
  BY <1>0, <1>1 DEF Killed, QuietInv, BeforeSubscribe
<1>2. CASE ReaderLeaves
  <2>1. UNCHANGED <<BeforeSubscribe, bSub, runState>>
    BY <1>2 DEF ReaderLeaves, appVars, brokerVars, BeforeSubscribe, CallRuns
  <2>2. SUFFICES ASSUME BeforeSubscribe, Quiet PROVE Quiet'
    BY <1>0, <2>1 DEF QuietInv
  <2>3. packetBuf.type \in {"CONNACK", "none"} /\ ~ KeepaliveDue
    BY <2>2 DEF Quiet, EarlyToClient, KeepaliveDue
  <2>4. toClient' \in Seq(EarlyToClient) /\ packetBuf' \in EarlyToClient
    <3>1. NoPacket \in EarlyToClient
      BY PacketsGood DEF EarlyToClient, NoPacket, Pkt
    <3> QED
      BY <2>2, <3>1, IoChannel DEF Quiet
  <2>5. CASE ReadBegin \/ NeedMore \/ ReadEnd \/ Again \/ Lose
    BY <2>1, <2>2, <2>4, <2>5 DEF ReadBegin, NeedMore, ReadEnd, Again, Lose, Quiet
  <2>6. CASE HandleAnswer \/ Wake \/ Eof \/ Disconnect
    BY <2>1, <2>2, <2>3, <2>6 DEF HandleAnswer, Wake, Onward, Eof, Disconnect, Quiet
  <2>7. CASE HandlePublish \/ HandlePubrel \/ HandlePingresp
    BY <2>3, <2>7 DEF HandlePublish, HandlePubrel, HandlePingresp
  <2>8. CASE AckSend \/ KeepaliveCheck \/ PingSend
    BY <2>2, <2>8 DEF AckSend, KeepaliveCheck, PingSend, Quiet
  <2>9. CASE Killed(ioPc \in {"ackSend", "pingSend"})
    BY <2>2, <2>9 DEF Killed, Quiet
  <2> QED
    BY <2>4, <2>5, <2>6, <2>7, <2>8, <2>9 DEF IoNext
<1> QED
  BY <1>1, <1>2
     DEF IoNext, ReadBegin, NeedMore, ReadEnd, Again, Lose, HandleAnswer, HandlePublish,
         HandlePubrel, HandlePingresp,
         AckSend, Wake, KeepaliveCheck, PingSend, Eof, Disconnect, IoLeaves

\* The broker answers a CONNECT and has nothing else to answer or to publish.
LEMMA EnvQuiet ==
  ASSUME TypeInv, EndInv', QuietInv, EnvNext
  PROVE  QuietInv'
<1> USE DEF TypeInv, TypeOK
<1>1. UNCHANGED <<appVars, packetBuf, ioPc, runState>>
  BY DEF EnvNext, BrokerConnect, BrokerSubscribe, BrokerSuback, BrokerPing, BrokerPublish,
         BrokerAcknowledged, BrokerPubrec, BrokerClose, IntervalPasses, BrokerLeaves, clientVars
<1>2. UNCHANGED BeforeSubscribe
  BY <1>1 DEF appVars, BeforeSubscribe, CallRuns
<1>3. SUFFICES ASSUME BeforeSubscribe, Quiet PROVE Quiet'
  BY <1>2 DEF QuietInv, EndInv
<1>4. ASSUME NEW types, Receives(types)
      PROVE  /\ Head(toBroker).type \in {"CONNECT", "garbage"} \cap types
             /\ Tail(toBroker) \in Seq(EarlyToBroker)
  <2>1. Head(toBroker) \in EarlyToBroker /\ Tail(toBroker) \in Seq(EarlyToBroker)
    BY <1>3, <1>4, HeadTailProperties DEF Quiet, Receives
  <2> QED
    BY <1>4, <2>1 DEF EarlyToBroker, Receives
<1>5. CASE BrokerConnect
  <2>1. PICK code \in ConnackCodes : ToClient(Pkt("CONNACK", code))
    BY <1>5 DEF BrokerConnect
  <2>2. Pkt("CONNACK", code) \in EarlyToClient
    BY PacketsGood DEF EarlyToClient, Pkt
  <2>3. toClient' \in Seq(EarlyToClient)
    BY <1>3, <2>1, <2>2, AppendProperties DEF Quiet, ToClient
  <2>4. toBroker' \in Seq(EarlyToBroker) /\ bSub' = bSub
    BY <1>4, <1>5 DEF BrokerConnect
  <2> QED
    BY <1>1, <1>3, <2>3, <2>4 DEF Quiet
<1>6. CASE BrokerSubscribe \/ BrokerPing \/ BrokerAcknowledged \/ BrokerPubrec
  BY <1>4, <1>6 DEF BrokerSubscribe, BrokerPing, BrokerAcknowledged, BrokerPubrec
<1>7. CASE BrokerSuback
  BY <1>3, <1>7 DEF BrokerSuback, Quiet
<1>8. CASE BrokerPublish
  <2>1. MsgTopic[published + 1] \in 1..Topics
    <3>1. published + 1 \in 1..Len(MsgTopic)
      BY <1>8, MsgAssumption DEF BrokerPublish, BrokerTypes
    <3>2. \A i \in 1..Len(MsgTopic) : MsgTopic[i] \in 1..Topics
      BY MsgAssumption, ElementOfSeq
    <3> QED
      BY <3>1, <3>2
  <2> QED
    BY <1>3, <1>8, <2>1 DEF BrokerPublish, Quiet
<1>9. CASE BrokerClose \/ IntervalPasses
  <2>1. << >> \in Seq(EarlyToBroker)
    OBVIOUS
  <2> QED
    BY <1>1, <1>3, <1>9, <2>1 DEF BrokerClose, IntervalPasses, Quiet, brokerVars
<1> QED
  BY <1>5, <1>6, <1>7, <1>8, <1>9 DEF EnvNext

\* What holds of a session that subscribes once and last.
LEMMA QuietAlways ==
  ASSUME SubscribesOnceLast
  PROVE  Spec => [](EndInv /\ QuietInv)
<1>1. Init => EndInv /\ QuietInv
  <2>1. Init => NoPacket \in EarlyToClient
    BY PacketsGood DEF EarlyToClient, NoPacket, Pkt
  <2> QED
    BY <2>1 DEF Init, EndInv, InTheirCall, Ended, QuietInv, Quiet
<1>2. TypeInv /\ EndInv /\ [Next]_vars => EndInv'
  BY AppEnd, IoEnd, EnvEnd DEF Next
<1>3. TypeInv /\ EndInv /\ EndInv' /\ QuietInv /\ [Next]_vars => QuietInv'
  <2>1. UNCHANGED vars /\ QuietInv => QuietInv'
    BY DEF vars, appVars, clientVars, brokerVars, QuietInv, Quiet, BeforeSubscribe, CallRuns,
           InTheirCall, NextCall
  <2> QED
    BY <2>1, AppQuiet, IoQuiet, EnvQuiet DEF Next
<1> QED
  BY <1>1, <1>2, <1>3, TypeInvariance, PTL DEF Spec

\* The order of the protocol gives sendBuf one writer at a time, for any number of
\* connects, topics and messages, when the application subscribes once and last.
THEOREM SendBufHasOneWriter ==
  ASSUME SubscribesOnceLast
  PROVE  Spec => []SendBufExclusive
<1>1. TypeInv /\ QuietInv => SendBufExclusive
  <2>1. TypeInv /\ appPc \in {"connectSend", "subscribeSend"} => BeforeSubscribe
    BY DEF TypeInv, TypeOK, AppTypes, BeforeSubscribe, CallRuns
  <2> QED
    BY <2>1 DEF SendBufExclusive, QuietInv, Quiet
<1> QED
  BY <1>1, TypeInvariance, QuietAlways, PTL

-----------------------------------------------------------------------------
(* What the steps do to the channels, in a few words *)

\* The application thread sends a CONNECT, its SUBSCRIBE, or what is no packet, and
\* touches neither what comes from the broker nor the broker.
LEMMA AppSends ==
  ASSUME TypeInv, AppNext
  PROVE  /\ UNCHANGED <<packetBuf, toClient, brokerVars, handled, delivered, pingOverdue>>
         /\ \/ UNCHANGED toBroker
            \/ \E p \in GoodPackets :
                  /\ p.type = "garbage" \/ (p.type = "CONNECT" /\ appPc = "connectSend")
                  /\ toBroker' = Append(toBroker, p)
            \/ /\ appPc = "subscribeSend"
               /\ toBroker' = Append(toBroker, SubscribePacket(CurrentTopic))
<1>1. UNCHANGED <<packetBuf, toClient, brokerVars, handled, delivered, pingOverdue>>
  BY DEF AppNext, ConnectBegin, ConnectSend, ConnackWait, ConnackRead, SubscribeBegin,
         SubscribeSend, SubackWait, SubackRead, SetFilter, SetHandler, CloseSession, Killed,
         AppLeaves, history
<1>2. /\ ConnectPacket \in GoodPackets /\ ConnectPacket.type = "CONNECT"
      /\ Garbage \in GoodPackets /\ Garbage.type = "garbage"
  BY PacketsGood DEF ConnectPacket, Garbage, Pkt
<1>3. CASE ConnectSend
  BY <1>1, <1>2, <1>3 DEF ConnectSend, SendSucceeds, SendFails
<1>4. CASE SubscribeSend
  BY <1>1, <1>2, <1>4 DEF SubscribeSend, SendSucceeds, SendFails
<1>5. CASE UNCHANGED toBroker
  BY <1>1, <1>5
<1> QED
  BY <1>3, <1>4, <1>5
     DEF AppNext, ConnectBegin, ConnackWait, ConnackRead, SubscribeBegin, SubackWait,
         SubackRead, SetFilter, SetHandler, CloseSession, Killed

\* The I/O thread sends acknowledgements, PINGREQ, or what is no packet.
LEMMA IoSends ==
  ASSUME TypeInv, IoNext
  PROVE  \/ UNCHANGED toBroker
         \/ \E p \in GoodPackets : /\ p.type \notin {"CONNECT", "SUBSCRIBE"}
                                   /\ toBroker' = Append(toBroker, p)
<1>1. /\ PingreqPacket \in GoodPackets /\ PingreqPacket.type = "PINGREQ"
      /\ Garbage \in GoodPackets /\ Garbage.type = "garbage"
  BY PacketsGood DEF PingreqPacket, Garbage, Pkt
<1>2. CASE AckSend
  <2>1. packetBuf \in GoodPackets /\ packetBuf.type \in {"PUBLISH", "PUBREL"}
    BY <1>2 DEF AckSend, TypeInv, GoodChannels
  <2>2. AckTo(packetBuf) \in GoodPackets
    BY <2>1, AckToGood
  <2>3. AckTo(packetBuf).type \notin {"CONNECT", "SUBSCRIBE"}
    BY DEF AckTo, AckPacket, Pkt
  <2> QED
    BY <1>1, <1>2, <2>2, <2>3 DEF AckSend, SendSucceeds, SendFails
<1>3. CASE PingSend
  BY <1>1, <1>3 DEF PingSend, SendSucceeds, SendFails
<1>4. CASE UNCHANGED toBroker
  BY <1>4
<1> QED
  BY <1>2, <1>3, <1>4
     DEF IoNext, ReadBegin, NeedMore, ReadEnd, Again, Lose, HandleAnswer, HandlePublish,
         HandlePubrel, HandlePingresp, Wake, KeepaliveCheck, Eof, Disconnect, Killed

\* What the I/O thread leaves to the others.
LEMMA IoReads ==
  ASSUME TypeInv, IoNext
  PROVE  /\ UNCHANGED <<results, appSlot, runState, brokerVars>>
         /\ \/ appPc' = appPc
            \/ /\ appPc' = "killed" /\ ioPc' = "killed" /\ ~brokerUp
               /\ UNCHANGED <<clientVars, history>>
  BY DEF IoNext, ReadBegin, NeedMore, ReadEnd, Again, Lose, HandleAnswer, HandlePublish,
         HandlePubrel, HandlePingresp, AckSend, Wake, KeepaliveCheck, PingSend, Eof, Disconnect,
         Killed, IoLeaves, ReaderLeaves, appVars, clientVars

\* Until packets are read together, the I/O thread clears packetBuf or reads into it the
\* first packet of the channel, which it takes out, and passes over no other.
LEMMA IoApart ==
  ASSUME "joined" \notin faults', TypeInv, IoNext
  PROVE  /\ behind = 0 /\ ~Again /\ ~Lose /\ Onward = "select" /\ Onward' = "select"
         /\ \/ UNCHANGED <<toClient, packetBuf>>
            \/ UNCHANGED toClient /\ packetBuf' = NoPacket
            \/ /\ toClient # << >>
               /\ packetBuf' = Head(toClient) /\ toClient' = Tail(toClient)
<1>1. behind = 0 /\ behind' = 0 /\ ioPc # "next"
  <2>1. TypeInv'
    BY NextTypes DEF Next
  <2>2. "joined" \notin faults
    BY IoRecords
  <2>3. behind \in Nat /\ behind' \in Nat
    BY <2>1, MaxAgainAssumption DEF TypeInv, TypeOK, ReaderTypes
  <2> QED
    BY <2>1, <2>2, <2>3 DEF TypeInv, TypeOK, ReaderTypes
<1>2. ~Again /\ ~Lose
  BY <1>1 DEF Again, Lose
<1>3. CASE ReadBegin
  <2>1. PICK n \in 1..Len(toClient) :
           n = 1 /\ toClient' = <<Head(toClient)>> \o SubSeq(toClient, n + 1, Len(toClient))
    BY <1>1, <1>3 DEF ReadBegin
  <2>2. toClient' = toClient
    BY <2>1, FirstAndLater DEF TypeInv, GoodChannels
  <2> QED
    BY <1>1, <1>2, <1>3, <2>2 DEF ReadBegin, Onward
<1>4. CASE ReadEnd
  BY <1>1, <1>2, <1>4 DEF ReadEnd, Unread, Onward, TypeInv, TypeOK, ReaderTypes
<1>5. CASE UNCHANGED toClient /\ packetBuf' \in {packetBuf, NoPacket}
  BY <1>1, <1>2, <1>5 DEF Onward
<1> QED
  BY <1>1, <1>2, <1>3, <1>4, <1>5
     DEF IoNext, NeedMore, HandleAnswer, HandlePublish, HandlePubrel, HandlePingresp, AckSend,
         Wake, KeepaliveCheck, PingSend, Eof, Disconnect, Killed

\* client->ack becomes the type of the packet in packetBuf, when that has been handled, or
\* none, when the session is closed.
LEMMA IoAcks ==
  ASSUME TypeInv, IoNext
  PROVE  \/ ack' \in {ack, "none"}
         \/ ack' = packetBuf.type /\ ioPc' = "sleep" /\ UNCHANGED packetBuf
  BY DEF IoNext, ReadBegin, NeedMore, ReadEnd, Again, Lose, HandleAnswer, HandlePublish,
         HandlePubrel, HandlePingresp,
         AckSend, Wake, KeepaliveCheck, PingSend, Eof, Disconnect, Killed, clientVars

\* The broker takes the first packet of its channel, or closes and drops them all; it
\* and the clock touch neither the threads nor the client.
LEMMA EnvReceives ==
  ASSUME EnvNext
  PROVE  /\ UNCHANGED <<appVars, clientVars, packetBuf, sendBuf, ioPc, handled, delivered, faults>>
         /\ brokerUp' => brokerUp
         /\ \/ UNCHANGED toBroker
            \/ toBroker # << >> /\ toBroker' = Tail(toBroker)
            \/ toBroker' = << >> /\ ~brokerUp'
  BY DEF EnvNext, BrokerConnect, BrokerSubscribe, BrokerSuback, BrokerPing, BrokerPublish,
         BrokerAcknowledged, BrokerPubrec, BrokerClose, IntervalPasses, BrokerLeaves, Receives,
         brokerVars, history

-----------------------------------------------------------------------------
(* What a call returns *)

\* A call returns what it records, and a subscribe returns SUCCESS in two places: with
\* its handler installed, or with no SUBACK found in packetBuf.
LEMMA AppReturns ==
  ASSUME TypeInv, InTheirCall, AppNext
  PROVE  \/ UNCHANGED results
         \/ \E rc \in FAILURE..5 :
               /\ CallRuns /\ Return(rc)
               /\ rc = SUCCESS /\ NextCall # 0 =>
                    SetHandler \/ (appPc = "subackRead" /\ packetBuf.type # "SUBACK")
<1> USE DEF TypeInv, TypeOK
<1>0. FAILURE \in FAILURE..5 /\ SUCCESS \in FAILURE..5 /\ FAILURE # SUCCESS
  BY DEF FAILURE, SUCCESS
<1>1. CASE ConnectBegin
  BY <1>0, <1>1, CallRunning DEF ConnectBegin, Goto
<1>2. CASE ConnectSend
  BY <1>0, <1>2, CallRunning DEF ConnectSend, Goto
<1>3. CASE ConnackWait
  BY <1>0, <1>3, CallRunning DEF ConnackWait, Goto
<1>4. CASE ConnackRead
  <2>1. Return(ConnackCode) /\ CallRuns /\ NextCall = 0
    BY <1>4, CallRunning DEF ConnackRead, InTheirCall
  <2>2. ConnackCode \in FAILURE..5
    BY DEF ConnackCode, FAILURE, GoodChannels, GoodPackets, WellFormed
  <2> QED
    BY <2>1, <2>2
<1>5. CASE SubscribeBegin \/ SubscribeSend \/ SubackWait \/ SetFilter
  BY <1>5 DEF SubscribeBegin, SubscribeSend, SubackWait, SetFilter, Goto
<1>6. CASE SubackRead
  BY <1>0, <1>6, CallRunning DEF SubackRead, Goto
<1>7. CASE SetHandler
  BY <1>0, <1>7, CallRunning DEF SetHandler
<1>8. CASE CloseSession
  BY <1>0, <1>8, CallRunning DEF CloseSession
<1>9. CASE Killed(appPc \in {"connectSend", "subscribeSend"})
  BY <1>9 DEF Killed
<1> QED
  BY <1>1, <1>2, <1>3, <1>4, <1>5, <1>6, <1>7, <1>8, <1>9 DEF AppNext

\* A return appends to the results.
LEMMA ReturnAppends ==
  ASSUME AppTypes, NEW rc \in FAILURE..5, Return(rc)
  PROVE  /\ Len(results) \in Nat
         /\ DOMAIN results = 1..Len(results) /\ DOMAIN results' = 1..(Len(results) + 1)
         /\ Len(results') = Len(results) + 1
         /\ results'[Len(results) + 1] = rc
         /\ \A k \in 1..Len(results) : results'[k] = results[k]
<1>1. results \in Seq(FAILURE..5) /\ results' = Append(results, rc)
  BY DEF AppTypes, Return
<1>2. results' \in Seq(FAILURE..5)
  BY <1>1, AppendProperties
<1> QED
  BY <1>1, <1>2, AppendProperties, LenProperties

\* A subscribe that has returned SUCCESS and had not before is the one that runs.
LEMMA NewSuccess ==
  ASSUME TypeInv, InTheirCall, AppNext, NEW k \in DOMAIN Calls, Subscribed(k)', ~Subscribed(k)
  PROVE  /\ CallRuns /\ NextCall # 0 /\ k = Len(results) + 1 /\ Return(SUCCESS)
         /\ SetHandler \/ (appPc = "subackRead" /\ packetBuf.type # "SUBACK")
<1>1. results' # results
  BY DEF Subscribed
<1>2. PICK rc \in FAILURE..5 :
         /\ CallRuns /\ Return(rc)
         /\ rc = SUCCESS /\ NextCall # 0 =>
              SetHandler \/ (appPc = "subackRead" /\ packetBuf.type # "SUBACK")
  BY <1>1, AppReturns
<1>3. /\ Len(results) \in Nat
      /\ DOMAIN results = 1..Len(results) /\ DOMAIN results' = 1..(Len(results) + 1)
      /\ results'[Len(results) + 1] = rc
      /\ \A i \in 1..Len(results) : results'[i] = results[i]
  BY <1>2, ReturnAppends DEF TypeInv, TypeOK
<1>4. k \in 1..(Len(results) + 1) /\ Calls[k] # 0 /\ results'[k] = SUCCESS
  BY <1>3 DEF Subscribed
<1>5. k \notin 1..Len(results)
  BY <1>3, <1>4 DEF Subscribed
<1>6. k = Len(results) + 1
  BY <1>3, <1>4, <1>5
<1> QED
  BY <1>2, <1>3, <1>4, <1>6 DEF NextCall

-----------------------------------------------------------------------------
(* A subscribe is answered *)

\* The broker's answer to the one subscribe there is.
LastTopic == Calls[Len(Calls)]
Settled == bSub[LastTopic] \in {"granted", "refused"}
NoneSubscribed == \A t \in 1..Topics : bSub[t] = "none"

\* One SUBSCRIBE is sent, and the broker sends one SUBACK to it.
ForLastTopic == {p \in GoodPackets : p.type = "SUBSCRIBE" => p.arg = LastTopic}
OneSubscribe ==
  /\ toBroker \in Seq(ForLastTopic)
  /\ \A i \in DOMAIN toBroker : toBroker[i].type = "SUBSCRIBE" =>
       /\ NoneSubscribed
       /\ \A j \in DOMAIN toBroker : toBroker[j].type = "SUBSCRIBE" => j = i
  /\ \A t \in 1..Topics : bSub[t] # "none" => t = LastTopic

\* Until it has, no packet and no thread says so.
NoSuback == {p \in GoodPackets : p.type # "SUBACK"}
SubackFromBroker ==
  ~Settled =>
    /\ toClient \in Seq(NoSuback) /\ packetBuf \in NoSuback /\ ack # "SUBACK"
    /\ appPc \notin {"subackRead", "setFilter", "setHandler"}
SubscribeInv == OneSubscribe /\ SubackFromBroker /\ SubscribeJustified

\* Packets other than SUBSCRIBE may be added.
LEMMA OtherSent ==
  ASSUME OneSubscribe, UNCHANGED bSub, NEW p \in GoodPackets, p.type # "SUBSCRIBE",
         toBroker' = Append(toBroker, p)
  PROVE  OneSubscribe'
<1>1. p \in ForLastTopic /\ toBroker \in Seq(ForLastTopic)
  BY DEF ForLastTopic, OneSubscribe
<1>2. /\ toBroker' \in Seq(ForLastTopic) /\ Len(toBroker') = Len(toBroker) + 1
      /\ \A i \in 1..Len(toBroker) : toBroker'[i] = toBroker[i]
      /\ toBroker'[Len(toBroker) + 1] = p
  <2> HIDE DEF ForLastTopic
  <2> QED
    BY <1>1, AppendProperties
<1>3. Len(toBroker) \in Nat /\ DOMAIN toBroker = 1..Len(toBroker)
      /\ DOMAIN toBroker' = 1..(Len(toBroker) + 1)
  BY <1>1, <1>2, LenProperties
<1>4. \A i \in DOMAIN toBroker' : toBroker'[i].type = "SUBSCRIBE" =>
         i \in DOMAIN toBroker /\ toBroker[i].type = "SUBSCRIBE"
  BY <1>2, <1>3
<1> QED
  BY <1>2, <1>4 DEF OneSubscribe, NoneSubscribed

\* Packets may be taken.
LEMMA OneTaken ==
  ASSUME OneSubscribe, toBroker # << >>, toBroker' = Tail(toBroker)
  PROVE  /\ toBroker' \in Seq(ForLastTopic) /\ Head(toBroker) \in ForLastTopic
         /\ \A i \in DOMAIN toBroker' : toBroker'[i].type = "SUBSCRIBE" =>
              /\ Head(toBroker).type # "SUBSCRIBE"
              /\ NoneSubscribed
              /\ \A j \in DOMAIN toBroker' : toBroker'[j].type = "SUBSCRIBE" => j = i
<1>1. toBroker \in Seq(ForLastTopic)
  BY DEF OneSubscribe
<1>2. /\ toBroker' \in Seq(ForLastTopic) /\ Head(toBroker) \in ForLastTopic
      /\ Len(toBroker') = Len(toBroker) - 1
      /\ \A i \in 1..Len(toBroker') : toBroker'[i] = toBroker[i + 1]
  <2> HIDE DEF ForLastTopic
  <2> QED
    BY <1>1, HeadTailProperties
<1>3. Len(toBroker) \in Nat \ {0} /\ DOMAIN toBroker = 1..Len(toBroker)
      /\ DOMAIN toBroker' = 1..(Len(toBroker) - 1)
  BY <1>1, <1>2, LenProperties, EmptySeq
<1>4. Head(toBroker) = toBroker[1]
  BY <1>1
<1>5. ASSUME NEW i \in DOMAIN toBroker', toBroker'[i].type = "SUBSCRIBE"
      PROVE  i + 1 \in DOMAIN toBroker /\ toBroker[i + 1].type = "SUBSCRIBE" /\ i \in Nat
  BY <1>2, <1>3, <1>5
<1>6. 1 \in DOMAIN toBroker
  BY <1>3
<1>7. ASSUME NEW i \in DOMAIN toBroker', toBroker'[i].type = "SUBSCRIBE"
      PROVE  /\ Head(toBroker).type # "SUBSCRIBE"
             /\ NoneSubscribed
             /\ \A j \in DOMAIN toBroker' : toBroker'[j].type = "SUBSCRIBE" => j = i
  <2>1. i + 1 \in DOMAIN toBroker /\ toBroker[i + 1].type = "SUBSCRIBE" /\ i \in Nat /\ i # 0
    BY <1>3, <1>5, <1>7
  <2>2. \A j \in DOMAIN toBroker : toBroker[j].type = "SUBSCRIBE" => j = i + 1
    BY <2>1 DEF OneSubscribe
  <2>3. NoneSubscribed
    BY <2>1 DEF OneSubscribe
  <2>4. 1 # i + 1
    BY <2>1
  <2>5. \A j \in DOMAIN toBroker' : toBroker'[j].type = "SUBSCRIBE" => j = i
    BY <1>5, <2>1, <2>2
  <2> QED
    BY <1>4, <1>6, <2>2, <2>3, <2>4, <2>5
<1> QED
  BY <1>2, <1>7

\* The application thread: the SUBSCRIBE goes out while nothing is subscribed to and none
\* is on its way, and SUCCESS is returned where the answer has been seen.
LEMMA AppSubscribe ==
  ASSUME SubscribesOnceLast, TypeInv, QuietInv, SubscribeInv, AppNext
  PROVE  SubscribeInv'
<1> USE DEF TypeInv, TypeOK
<1>0. /\ UNCHANGED <<packetBuf, toClient, bSub>> /\ OneSubscribe /\ InTheirCall
      /\ (Settled' <=> Settled)
  BY AppSends DEF brokerVars, SubscribeInv, QuietInv, Settled
<1>1. OneSubscribe'
  <2>1. CASE UNCHANGED toBroker
    BY <1>0, <2>1 DEF OneSubscribe, NoneSubscribed
  <2>2. ASSUME NEW p \in GoodPackets, p.type \in {"CONNECT", "garbage"},
               toBroker' = Append(toBroker, p)
        PROVE  OneSubscribe'
    BY <1>0, <2>2, OtherSent
  <2>3. CASE appPc = "subscribeSend" /\ toBroker' = Append(toBroker, SubscribePacket(CurrentTopic))
    <3>1. CallRuns /\ NextCall # 0
      BY <2>3, CallRunning DEF AppTypes
    <3>2. CurrentTopic \in 1..Topics /\ CurrentTopic = LastTopic
      <4>1. Len(results) + 1 \in DOMAIN Calls
        BY <3>1, CallsAssumption DEF CallRuns, AppTypes
      <4> QED
        BY <3>1, <4>1, NextCallType DEF SubscribesOnceLast, NextCall, CurrentTopic, LastTopic
    <3>3. Quiet
      BY <2>3, <3>1 DEF QuietInv, BeforeSubscribe
    <3>4. SubscribePacket(CurrentTopic) \in ForLastTopic
      BY <3>2, PacketsGood DEF ForLastTopic, SubscribePacket, Pkt
    <3>5. /\ toBroker' \in Seq(ForLastTopic) /\ Len(toBroker') = Len(toBroker) + 1
          /\ \A i \in 1..Len(toBroker) : toBroker'[i] = toBroker[i]
      <4>1. toBroker \in Seq(ForLastTopic)
        BY <1>0 DEF OneSubscribe
      <4> HIDE DEF ForLastTopic
      <4> QED
        BY <2>3, <3>4, <4>1, AppendProperties
    <3>6. \A i \in 1..Len(toBroker) : toBroker[i].type # "SUBSCRIBE"
      <4>1. \A i \in 1..Len(toBroker) : toBroker[i] \in EarlyToBroker
        BY <3>3, ElementOfSeq DEF Quiet
      <4> QED
        BY <4>1 DEF EarlyToBroker
    <3>7. Len(toBroker) \in Nat /\ DOMAIN toBroker' = 1..(Len(toBroker) + 1)
      BY <1>0, <3>5, LenProperties DEF OneSubscribe
    <3>8. \A i \in DOMAIN toBroker' : toBroker'[i].type = "SUBSCRIBE" => i = Len(toBroker) + 1
      BY <3>5, <3>6, <3>7
    <3>9. NoneSubscribed
      BY <3>3 DEF Quiet, NoneSubscribed
    <3> QED
      BY <1>0, <3>5, <3>8, <3>9 DEF OneSubscribe, NoneSubscribed
  <2> QED
    BY <2>1, <2>2, <2>3, AppSends
<1>2. SubackFromBroker'
  <2>1. SUFFICES ASSUME ~Settled
                 PROVE  /\ ack' # "SUBACK"
                        /\ appPc' \notin {"subackRead", "setFilter", "setHandler"}
    BY <1>0 DEF SubackFromBroker, SubscribeInv
  <2>2. ack # "SUBACK" /\ appPc \notin {"subackRead", "setFilter", "setHandler"}
    BY <2>1 DEF SubackFromBroker, SubscribeInv
  <2>3. ack' = ack
    BY DEF AppNext, ConnectBegin, ConnectSend, ConnackWait, ConnackRead, SubscribeBegin,
           SubscribeSend, SubackWait, SubackRead, SetFilter, SetHandler, CloseSession, Killed,
           clientVars
  <2> QED
    BY <2>2, <2>3
       DEF AppNext, ConnectBegin, ConnectSend, ConnackWait, ConnackRead, SubscribeBegin,
           SubscribeSend, SubackWait, SubackRead, SetFilter, SetHandler, CloseSession, Killed,
           Goto, Return, Answered
<1>3. SubscribeJustified'
  <2>1. SUFFICES ASSUME NEW k \in DOMAIN Calls, Subscribed(k)'
                 PROVE  bSub[Calls[k]] \in {"granted", "refused"}
    BY <1>0 DEF SubscribeJustified
  <2>2. CASE Subscribed(k)
    BY <2>2 DEF SubscribeInv, SubscribeJustified
  <2>3. CASE ~Subscribed(k)
    <3>1. NextCall # 0 /\ k = Len(results) + 1 /\ appPc \in {"subackRead", "setHandler"}
      BY <1>0, <2>1, <2>3, NewSuccess DEF SetHandler
    <3>2. Calls[k] = LastTopic
      BY <3>1 DEF SubscribesOnceLast, NextCall, LastTopic
    <3>3. Settled
      BY <3>1 DEF SubscribeInv, SubackFromBroker
    <3> QED
      BY <3>2, <3>3 DEF Settled
  <2> QED
    BY <2>2, <2>3
<1> QED
  BY <1>1, <1>2, <1>3 DEF SubscribeInv

\* The I/O thread only moves a SUBACK towards client->ack.
LEMMA IoSubscribe ==
  ASSUME TypeInv, SubscribeInv, IoNext
  PROVE  SubscribeInv'
<1>0. UNCHANGED <<bSub, results>> /\ (Settled' <=> Settled)
  BY IoReads DEF brokerVars, Settled
<1>1. OneSubscribe'
  <2>1. CASE UNCHANGED toBroker
    BY <1>0, <2>1 DEF SubscribeInv, OneSubscribe, NoneSubscribed
  <2>2. ASSUME NEW p \in GoodPackets, p.type \notin {"CONNECT", "SUBSCRIBE"},
               toBroker' = Append(toBroker, p)
        PROVE  OneSubscribe'
    BY <1>0, <2>2, OtherSent DEF SubscribeInv
  <2> QED
    BY <2>1, <2>2, IoSends
<1>2. SubackFromBroker'
  <2>1. SUFFICES ASSUME ~Settled
                 PROVE  /\ toClient' \in Seq(NoSuback) /\ packetBuf' \in NoSuback
                        /\ ack' # "SUBACK"
                        /\ appPc' \notin {"subackRead", "setFilter", "setHandler"}
    BY <1>0 DEF SubackFromBroker
  <2>2. /\ toClient \in Seq(NoSuback) /\ packetBuf \in NoSuback /\ ack # "SUBACK"
        /\ appPc \notin {"subackRead", "setFilter", "setHandler"}
    BY <2>1 DEF SubscribeInv, SubackFromBroker
  <2>3. appPc' \notin {"subackRead", "setFilter", "setHandler"}
    BY <2>2, IoReads
  <2>4. ack' # "SUBACK"
    BY <2>2, IoAcks DEF NoSuback
  <2>5. NoPacket \in NoSuback
    BY PacketsGood DEF NoSuback, NoPacket, Pkt
  <2> QED
    BY <2>2, <2>3, <2>4, <2>5, IoChannel
<1>3. SubscribeJustified'
  BY <1>0 DEF SubscribeInv, SubscribeJustified, Subscribed
<1> QED
  BY <1>1, <1>2, <1>3 DEF SubscribeInv

\* What the broker sends, and when it settles a subscription.
LEMMA EnvSends ==
  ASSUME TypeInv, EnvNext
  PROVE  \/ BrokerSubscribe \/ BrokerSuback
         \/ /\ UNCHANGED bSub
            /\ \/ UNCHANGED toClient
               \/ \E p \in GoodPackets : /\ p.type # "SUBACK"
                                         /\ p.type = "CONNACK" => BrokerConnect
                                         /\ toClient' = Append(toClient, p)
<1> USE DEF TypeInv, TypeOK
<1>1. CASE BrokerConnect
  <2>1. PICK code \in ConnackCodes : ToClient(Pkt("CONNACK", code))
    BY <1>1 DEF BrokerConnect
  <2>2. Pkt("CONNACK", code) \in GoodPackets /\ Pkt("CONNACK", code).type = "CONNACK"
    BY PacketsGood DEF Pkt
  <2> QED
    BY <1>1, <2>1, <2>2 DEF BrokerConnect, ToClient
<1>2. CASE BrokerPing
  <2>1. Pkt("PINGRESP", 0) \in GoodPackets /\ Pkt("PINGRESP", 0).type = "PINGRESP"
    BY PacketsGood DEF Pkt
  <2> QED
    BY <1>2, <2>1 DEF BrokerPing, ToClient, brokerVars
<1>3. CASE BrokerPublish
  <2>1. published + 1 \in Messages
    BY <1>3, MsgAssumption DEF BrokerPublish, BrokerTypes, Messages
  <2>2. /\ Pkt("PUBLISH", published + 1) \in GoodPackets
        /\ Pkt("PUBLISH", published + 1).type = "PUBLISH"
    BY <2>1, PacketsGood DEF Pkt, Handshake
  <2> QED
    BY <1>3, <2>2 DEF BrokerPublish, ToClient
<1>4. CASE BrokerPubrec
  <2>1. Head(toBroker) \in GoodPackets /\ Head(toBroker).type = "PUBREC"
    BY <1>4, ReceiveGood DEF BrokerPubrec, Receives, GoodChannels
  <2>2. Head(toBroker).arg \in Messages
    BY <2>1 DEF GoodPackets, WellFormed, Handshake
  <2>3. /\ Pkt("PUBREL", Head(toBroker).arg) \in GoodPackets
        /\ Pkt("PUBREL", Head(toBroker).arg).type = "PUBREL"
    BY <2>2, PacketsGood DEF Pkt, Handshake
  <2> QED
    BY <1>4, <2>3 DEF BrokerPubrec, ToClient, brokerVars
<1>5. CASE BrokerAcknowledged \/ BrokerClose \/ IntervalPasses
  BY <1>5 DEF BrokerAcknowledged, BrokerClose, IntervalPasses, brokerVars
<1> QED
  BY <1>1, <1>2, <1>3, <1>4, <1>5 DEF EnvNext

\* The broker answers when it has settled the one subscription, and keeps to that.
LEMMA EnvSubscribe ==
  ASSUME TypeInv, SubscribeInv, EnvNext
  PROVE  SubscribeInv'
<1> USE DEF TypeInv, TypeOK
<1>0. UNCHANGED <<appPc, results, packetBuf, ack>>
  BY EnvReceives DEF appVars, clientVars
<1>b. bSub \in [1..Topics -> {"none", "granting", "granted", "refused"}]
  BY DEF BrokerTypes
<1>o. OneSubscribe /\ SubackFromBroker /\ SubscribeJustified
  BY DEF SubscribeInv
<1>s. ASSUME Settled => Settled' PROVE SubscribeJustified'
  <2>1. SUFFICES ASSUME NEW k \in DOMAIN Calls, Subscribed(k)
                 PROVE  bSub'[Calls[k]] \in {"granted", "refused"}
    BY <1>0 DEF SubscribeJustified, Subscribed
  <2>2. Calls[k] # 0 /\ bSub[Calls[k]] \in {"granted", "refused"} /\ Calls[k] \in 0..Topics
    BY <1>o, <2>1, CallsAssumption DEF SubscribeJustified, Subscribed
  <2>3. Calls[k] = LastTopic
    BY <1>o, <2>2, CallsAssumption DEF OneSubscribe
  <2> QED
    BY <1>s, <2>2, <2>3 DEF Settled
<1>1. CASE BrokerSubscribe
  <2>0. /\ toBroker # << >> /\ Head(toBroker).type = "SUBSCRIBE" /\ toBroker' = Tail(toBroker)
        /\ \/ bSub' = [bSub EXCEPT ![Head(toBroker).arg] = "granting"] /\ UNCHANGED toClient
           \/ bSub' = [bSub EXCEPT ![Head(toBroker).arg] = "refused"]
    BY <1>1 DEF BrokerSubscribe, Receives
  <2>1. Head(toBroker).arg = LastTopic /\ LastTopic \in 1..Topics
    <3>1. Head(toBroker) \in ForLastTopic
      BY <1>o, <2>0, OneTaken
    <3> QED
      BY <2>0, <3>1 DEF ForLastTopic, GoodPackets, WellFormed
  <2>2. /\ toBroker' \in Seq(ForLastTopic)
        /\ \A i \in DOMAIN toBroker' : toBroker'[i].type # "SUBSCRIBE"
    BY <1>o, <2>0, OneTaken
  <2>3. \A t \in 1..Topics : bSub'[t] # "none" => t = LastTopic
    BY <1>o, <1>b, <2>0, <2>1 DEF OneSubscribe
  <2>4. OneSubscribe'
    BY <2>2, <2>3 DEF OneSubscribe
  <2>5. ~Settled
    <3>1. toBroker \in Seq(GoodPackets) /\ toBroker[1].type = "SUBSCRIBE" /\ 1 \in DOMAIN toBroker
      BY <2>0 DEF GoodChannels
    <3>2. NoneSubscribed
      BY <1>o, <3>1 DEF OneSubscribe
    <3> QED
      BY <2>1, <3>2 DEF NoneSubscribed, Settled
  <2>6. SubackFromBroker'
    <3>1. CASE bSub' = [bSub EXCEPT ![LastTopic] = "granting"] /\ UNCHANGED toClient
      BY <1>0, <1>o, <2>5, <3>1 DEF SubackFromBroker
    <3>2. CASE bSub' = [bSub EXCEPT ![LastTopic] = "refused"]
      BY <1>b, <2>1, <3>2 DEF SubackFromBroker, Settled
    <3> QED
      BY <2>0, <2>1, <3>1, <3>2
  <2> QED
    BY <1>s, <2>4, <2>5, <2>6 DEF SubscribeInv
<1>2. CASE BrokerSuback
  <2>1. /\ LastTopic \in 1..Topics /\ bSub[LastTopic] = "granting" /\ UNCHANGED toBroker
        /\ bSub' = [bSub EXCEPT ![LastTopic] = "granted"]
    BY <1>o, <1>2 DEF OneSubscribe, BrokerSuback
  <2>2. Settled'
    BY <1>b, <2>1 DEF Settled
  <2>3. ~NoneSubscribed
    BY <2>1 DEF NoneSubscribed
  <2>4. \A i \in DOMAIN toBroker : toBroker[i].type # "SUBSCRIBE"
    BY <1>o, <2>3 DEF OneSubscribe
  <2>5. OneSubscribe'
    BY <1>b, <1>o, <2>1, <2>4 DEF OneSubscribe
  <2> QED
    BY <1>s, <2>2, <2>5 DEF SubscribeInv, SubackFromBroker
<1>3. CASE /\ UNCHANGED bSub
           /\ \/ UNCHANGED toClient
              \/ \E p \in GoodPackets : p.type # "SUBACK" /\ toClient' = Append(toClient, p)
  <2>1. OneSubscribe'
    <3>1. CASE UNCHANGED toBroker
      BY <1>o, <1>3, <3>1 DEF OneSubscribe, NoneSubscribed
    <3>2. CASE toBroker # << >> /\ toBroker' = Tail(toBroker)
      BY <1>o, <1>3, <3>2, OneTaken DEF OneSubscribe, NoneSubscribed
    <3>3. CASE toBroker' = << >>
      BY <1>o, <1>3, <3>3 DEF OneSubscribe, NoneSubscribed
    <3> QED
      BY <3>1, <3>2, <3>3, EnvReceives
  <2>2. SubackFromBroker'
    <3>1. SUFFICES ASSUME ~Settled PROVE toClient' \in Seq(NoSuback)
      BY <1>o, <1>0, <1>3 DEF SubackFromBroker, Settled
    <3>2. toClient \in Seq(NoSuback)
      BY <1>o, <3>1 DEF SubackFromBroker
    <3>3. \A p \in NoSuback : Append(toClient, p) \in Seq(NoSuback)
      <4> HIDE DEF NoSuback
      <4> QED BY <3>2, AppendProperties
    <3> QED
      BY <1>3, <3>2, <3>3 DEF NoSuback
  <2> QED
    BY <1>s, <1>3, <2>1, <2>2 DEF SubscribeInv, Settled
<1> QED
  BY <1>1, <1>2, <1>3, EnvSends

\* The parts of SubscribeInv hold throughout.
LEMMA SubscribeAlways ==
  ASSUME SubscribesOnceLast
  PROVE  Spec => []SubscribeInv
<1>1. Init => SubscribeInv
  <2> SUFFICES ASSUME Init PROVE SubscribeInv
    OBVIOUS
  <2>1. NoPacket \in NoSuback
    BY PacketsGood DEF NoSuback, NoPacket, Pkt
  <2>2. OneSubscribe
    BY DEF Init, OneSubscribe
  <2>3. SubackFromBroker
    BY <2>1 DEF Init, SubackFromBroker
  <2>4. SubscribeJustified
    BY DEF Init, SubscribeJustified, Subscribed
  <2> QED
    BY <2>2, <2>3, <2>4 DEF SubscribeInv
<1>2. TypeInv /\ QuietInv /\ SubscribeInv /\ [Next]_vars => SubscribeInv'
  <2>1. UNCHANGED vars /\ SubscribeInv => SubscribeInv'
    BY DEF vars, appVars, clientVars, brokerVars, SubscribeInv, OneSubscribe, NoneSubscribed,
           SubackFromBroker, Settled, SubscribeJustified, Subscribed
  <2> QED
    BY <2>1, AppSubscribe, IoSubscribe, EnvSubscribe DEF Next
<1> QED
  BY <1>1, <1>2, TypeInvariance, QuietAlways, PTL DEF Spec

\* MQTTSubscribe returns SUCCESS only when the broker has answered the SUBSCRIBE, whatever
\* else the I/O thread has stored in client->ack and packetBuf.
THEOREM SubscribeIsJustified ==
  ASSUME SubscribesOnceLast
  PROVE  Spec => []SubscribeJustified
<1>1. SubscribeInv => SubscribeJustified
  BY DEF SubscribeInv
<1> QED
  BY <1>1, SubscribeAlways, PTL

-----------------------------------------------------------------------------
(* SUCCESS means that the handler is installed, and that pings go on *)

\* The I/O thread does not wake up while the application has an answer to look at.
LEMMA AnswerHoldsIo ==
  ASSUME PromptApp, TypeInv, IoNext, AckNoticed
  PROVE  ioPc # "sleep"
  BY DEF IoNext, ReadBegin, NeedMore, ReadEnd, Again, Lose, HandleAnswer, HandlePublish,
         HandlePubrel, HandlePingresp,
         AckSend, Wake, KeepaliveCheck, PingSend, Eof, Disconnect, Killed

\* What the I/O thread does to the session: it takes filters away when it closes it, or at
\* the end of a connection that was not made.
LEMMA IoCloses ==
  ASSUME TypeInv, IoNext
  PROVE  /\ faults \subseteq faults'
         /\ \/ UNCHANGED <<isconnected, messageHandlers>>
            \/ "close" \in faults' /\ ~isconnected' /\ MQTTCleanSession
            \/ ~isconnected /\ ~isconnected' /\ ioPc' = "disconnect" /\ MQTTCleanSession
<1>1. CASE AckSend
  BY <1>1 DEF AckSend, MQTTCloseSession
<1>2. CASE Eof
  BY <1>2 DEF Eof, MQTTCloseSession
<1>3. CASE faults \subseteq faults' /\ UNCHANGED <<isconnected, messageHandlers>>
  BY <1>3
<1> QED
  BY <1>1, <1>2, <1>3
     DEF IoNext, ReadBegin, NeedMore, ReadEnd, Again, Lose, HandleAnswer, HandlePublish,
         HandlePubrel, HandlePingresp,
         Wake, KeepaliveCheck, PingSend, Disconnect, Killed, clientVars, history

\* Every step of the application thread belongs to a call.
LEMMA AppRuns ==
  ASSUME TypeInv, AppNext
  PROVE  CallRuns /\ appPc # "killed"
<1> USE DEF TypeInv, TypeOK
<1>1. appPc # "killed" /\ (appPc = "call" => ~AppIdle)
  BY DEF AppNext, ConnectBegin, ConnectSend, ConnackWait, ConnackRead, SubscribeBegin,
         SubscribeSend, SubackWait, SubackRead, SetFilter, SetHandler, CloseSession, Killed
<1> QED
  BY <1>1, CallRunning

\* The one subscribe has returned SUCCESS; then no call is left.
Done == \E k \in DOMAIN Calls : Subscribed(k)

\* The subscription is the last call, so when it is done no other runs.
LEMMA DoneIsLast ==
  ASSUME SubscribesOnceLast, AppTypes, Done
  PROVE  ~CallRuns
<1>1. PICK k \in DOMAIN Calls : Subscribed(k)
  BY DEF Done
<1>2. k = Len(Calls) /\ k \in DOMAIN results
  BY <1>1 DEF Subscribed, SubscribesOnceLast
<1>3. results \in Seq(FAILURE..5) /\ Calls \in Seq(0..Topics)
  BY CallsAssumption DEF AppTypes
<1> QED
  BY <1>2, <1>3 DEF CallRuns

\* While the application has a SUBACK to look at, it stays in packetBuf.
AnswerInHand ==
  appPc = "subackRead" \/ (appPc = "subackWait" /\ ack = "SUBACK")
    => ioPc = "sleep" /\ packetBuf.type = "SUBACK"
\* From the SUBSCRIBE on the session is connected, and the filter just set stays set,
\* until the session is closed.
StaysConnected ==
  "close" \notin faults =>
    /\ Done \/ appPc \in {"subscribeSend", "subackWait", "subackRead", "setFilter", "setHandler"}
         => isconnected
    /\ appPc = "setHandler" => messageHandlers[appSlot].topicFilter = CurrentTopic
HandlerInv == AnswerInHand /\ StaysConnected /\ SuccessMeansHandler

\* A subscribe begins to wait for an answer that has not come yet.
LEMMA NoAnswerYet ==
  ASSUME SubscribesOnceLast, TypeInv, QuietInv, SubscribeInv, appPc = "subscribeSend"
  PROVE  ack # "SUBACK"
<1> USE DEF TypeInv, TypeOK
<1>1. CallRuns /\ NextCall # 0
  BY CallRunning DEF AppTypes
<1>2. Len(results) + 1 \in DOMAIN Calls
  BY <1>1, CallsAssumption DEF CallRuns, AppTypes
<1>3. CurrentTopic \in 1..Topics /\ CurrentTopic = LastTopic
  BY <1>1, <1>2, NextCallType DEF SubscribesOnceLast, NextCall, CurrentTopic, LastTopic
<1>4. Quiet
  BY <1>1 DEF QuietInv, BeforeSubscribe
<1>5. ~Settled
  BY <1>3, <1>4 DEF Quiet, Settled
<1> QED
  BY <1>5 DEF SubscribeInv, SubackFromBroker

\* The application thread goes from the answer to the handler.
LEMMA AppHandler ==
  ASSUME SubscribesOnceLast, TypeInv, QuietInv, SubscribeInv, HandlerInv, AppNext
  PROVE  HandlerInv'
<1> USE DEF TypeInv, TypeOK
<1>0. /\ UNCHANGED <<packetBuf>> /\ CallRuns /\ ~Done
      /\ AnswerInHand /\ StaysConnected /\ SuccessMeansHandler /\ InTheirCall
  BY AppSends, AppRuns, DoneIsLast DEF HandlerInv, QuietInv
<1>1. ack' = ack /\ (ioPc' = ioPc \/ appPc' = "killed")
  BY DEF AppNext, ConnectBegin, ConnectSend, ConnackWait, ConnackRead, SubscribeBegin,
         SubscribeSend, SubackWait, SubackRead, SetFilter, SetHandler, CloseSession, Killed,
         clientVars, AppLeaves
<1>2. AnswerInHand'
  <2>1. CASE SubscribeSend
    BY <1>0, <1>1, <2>1, NoAnswerYet DEF SubscribeSend, AnswerInHand, Goto
  <2>2. CASE SubackWait
    BY <1>0, <1>1, <2>2 DEF SubackWait, AnswerInHand, Goto, Answered
  <2>3. CASE appPc' \notin {"subackRead", "subackWait"}
    BY <2>3 DEF AnswerInHand
  <2> QED
    BY <2>1, <2>2, <2>3
       DEF AppNext, ConnectBegin, ConnectSend, ConnackWait, ConnackRead, SubscribeBegin,
           SubackRead, SetFilter, SetHandler, CloseSession, Killed, Goto, Return
<1>3. ASSUME NEW k \in DOMAIN Calls, Subscribed(k)'
      PROVE  SetHandler /\ Calls[k] = CurrentTopic /\ appPc' = "call"
  <2>1. ~Subscribed(k)
    BY <1>0 DEF Done
  <2>2. /\ NextCall # 0 /\ k = Len(results) + 1 /\ Return(SUCCESS)
        /\ SetHandler \/ (appPc = "subackRead" /\ packetBuf.type # "SUBACK")
    BY <1>0, <1>3, <2>1, NewSuccess
  <2> QED
    BY <1>0, <2>2 DEF AnswerInHand, NextCall, CurrentTopic, Return
<1>4. CASE SetHandler
  <2>1. /\ appPc = "setHandler" /\ appSlot \in Slots /\ appPc' = "call"
        /\ messageHandlers' = [messageHandlers EXCEPT ![appSlot].fp = TRUE]
        /\ UNCHANGED <<isconnected, faults>>
    BY <1>4 DEF SetHandler, AppTypes, Return
  <2>2. StaysConnected'
    BY <1>0, <2>1 DEF StaysConnected
  <2>3. SUFFICES ASSUME NEW k \in DOMAIN Calls, Subscribed(k)', "close" \notin faults
                 PROVE  Holds(Calls[k])'
    BY <1>2, <2>1, <2>2 DEF HandlerInv, SuccessMeansHandler
  <2>4. messageHandlers[appSlot].topicFilter = Calls[k]
    BY <1>0, <1>3, <2>1, <2>3 DEF StaysConnected
  <2>5. messageHandlers[appSlot] \in [topicFilter : 0..Topics, fp : BOOLEAN]
    BY <2>1 DEF ClientTypes
  <2>6. messageHandlers'[appSlot] = [topicFilter |-> Calls[k], fp |-> TRUE]
    BY <2>1, <2>4, <2>5 DEF ClientTypes
  <2> QED
    BY <2>1, <2>6 DEF Holds
<1>5. ASSUME ~SetHandler PROVE HandlerInv'
  <2>1. \A k \in DOMAIN Calls : ~Subscribed(k)'
    BY <1>3, <1>5
  <2>2. SuccessMeansHandler' /\ ~Done'
    BY <2>1 DEF SuccessMeansHandler, Done
  <2>3. faults \subseteq faults'
    BY DEF AppNext, ConnectBegin, ConnectSend, ConnackWait, ConnackRead, SubscribeBegin,
           SubscribeSend, SubackWait, SubackRead, SetFilter, SetHandler, CloseSession, Killed,
           history
  <2>4. SUFFICES ASSUME "close" \notin faults' PROVE StaysConnected'
    BY <1>2, <2>2 DEF HandlerInv, StaysConnected
  <2>5. "close" \notin faults
    BY <2>3, <2>4
  <2>6. CASE SubscribeBegin
    BY <2>2, <2>6 DEF SubscribeBegin, StaysConnected, Goto, clientVars
  <2>7. CASE SetFilter
    <3>1. /\ appPc = "setFilter" /\ appSlot \in Slots /\ appPc' = "setHandler"
          /\ messageHandlers' = [messageHandlers EXCEPT ![appSlot].topicFilter = CurrentTopic]
          /\ UNCHANGED <<isconnected, appSlot, results>>
      BY <2>7 DEF SetFilter, AppTypes, Goto
    <3>2. messageHandlers'[appSlot].topicFilter = CurrentTopic
      BY <3>1 DEF ClientTypes
    <3>3. CurrentTopic' = CurrentTopic
      BY <3>1 DEF CurrentTopic, NextCall
    <3> QED
      BY <1>0, <2>5, <3>1, <3>2, <3>3 DEF StaysConnected
  <2>8. CASE SubscribeSend \/ SubackWait \/ SubackRead
    BY <1>0, <2>2, <2>5, <2>8
       DEF SubscribeSend, SubackWait, SubackRead, StaysConnected, Goto, Return, clientVars
  <2>9. CASE CloseSession
    BY <2>4, <2>9 DEF CloseSession
  <2>10. CASE appPc' \notin {"subscribeSend", "subackWait", "subackRead", "setFilter", "setHandler"}
    BY <2>2, <2>10 DEF StaysConnected
  <2> QED
    BY <1>5, <2>6, <2>7, <2>8, <2>9, <2>10
       DEF AppNext, ConnectBegin, ConnectSend, ConnackWait, ConnackRead, Killed, Goto, Return
<1> QED
  BY <1>4, <1>5

\* The I/O thread does not wake up before the answer has been read, and takes a filter
\* away only with the session closed.
LEMMA IoHandler ==
  ASSUME PromptApp, TypeInv, HandlerInv, IoNext
  PROVE  HandlerInv'
<1> USE DEF HandlerInv
<1>0. /\ UNCHANGED <<results, appSlot>> /\ appPc' \in {appPc, "killed"}
      /\ (Done' <=> Done) /\ CurrentTopic' = CurrentTopic
      /\ \A k \in DOMAIN Calls : Subscribed(k)' <=> Subscribed(k)
  BY IoReads DEF Done, Subscribed, CurrentTopic, NextCall
<1>1. AnswerInHand'
  <2>1. SUFFICES ASSUME appPc = "subackRead" \/ (appPc = "subackWait" /\ ack' = "SUBACK")
                 PROVE  ioPc' = "sleep" /\ packetBuf'.type = "SUBACK"
    BY <1>0 DEF AnswerInHand
  <2>2. ~AckNoticed
    BY AnswerHoldsIo, <2>1 DEF AnswerInHand, AckNoticed, Answered
  <2>3. ack # "SUBACK" /\ ack' = "SUBACK"
    BY <2>1, <2>2 DEF AckNoticed, Answered
  <2> QED
    BY <2>3, IoAcks
<1>2. CASE UNCHANGED <<isconnected, messageHandlers>>
  <2>1. StaysConnected'
    BY <1>0, <1>2, IoCloses DEF StaysConnected
  <2>2. SuccessMeansHandler'
    BY <1>0, <1>2, IoCloses DEF SuccessMeansHandler, Holds
  <2> QED
    BY <1>1, <2>1, <2>2
<1>3. CASE "close" \in faults'
  BY <1>1, <1>3 DEF StaysConnected, SuccessMeansHandler
<1>4. CASE ~isconnected /\ ~isconnected' /\ "close" \notin faults'
  <2>1. "close" \notin faults
    BY <1>4, IoCloses
  <2>2. /\ ~Done
        /\ appPc \notin {"subscribeSend", "subackWait", "subackRead", "setFilter", "setHandler"}
    BY <1>4, <2>1 DEF StaysConnected
  <2> QED
    BY <1>0, <1>1, <2>2 DEF StaysConnected, SuccessMeansHandler, Done
<1> QED
  BY <1>2, <1>3, <1>4, IoCloses

\* The broker and the clock touch nothing of this.
LEMMA EnvHandler ==
  ASSUME HandlerInv, EnvNext \/ UNCHANGED vars
  PROVE  HandlerInv'
<1>1. UNCHANGED <<appVars, clientVars, packetBuf, ioPc, faults>>
  BY EnvReceives DEF vars, history
<1> QED
  BY <1>1 DEF HandlerInv, AnswerInHand, StaysConnected, SuccessMeansHandler, Done, Subscribed,
              Holds, CurrentTopic, NextCall, appVars, clientVars

\* With a prompt application, HandlerInv holds throughout.
LEMMA HandlerAlways ==
  ASSUME SubscribesOnceLast, PromptApp
  PROVE  Spec => []HandlerInv
<1>1. Init => HandlerInv
  BY DEF Init, HandlerInv, AnswerInHand, StaysConnected, SuccessMeansHandler, Done, Subscribed
<1>2. TypeInv /\ QuietInv /\ SubscribeInv /\ HandlerInv /\ [Next]_vars => HandlerInv'
  BY AppHandler, IoHandler, EnvHandler DEF Next
<1> QED
  BY <1>1, <1>2, TypeInvariance, QuietAlways, SubscribeAlways, PTL DEF Spec

\* A subscription reported as SUCCESS has its handler, until the session is closed, for
\* any number of topics and handlers, if the application looks at the answer within the
\* 200 ms the I/O thread sleeps.
THEOREM SuccessHasItsHandler ==
  ASSUME SubscribesOnceLast, PromptApp
  PROVE  Spec => []SuccessMeansHandler
<1>1. HandlerInv => SuccessMeansHandler
  BY DEF HandlerInv
<1> QED
  BY <1>1, HandlerAlways, PTL

\* From the answer to the subscribe on, keepalive is called after every packet, and the I/O
\* thread is back at select only with a ping sent.
Answering == Done \/ appPc \in {"subackRead", "setFilter", "setHandler"}
PingsGoOn ==
  (/\ KeepAlive /\ brokerUp /\ faults \cap {"send", "close"} = {}
   /\ Answering)
  => runState = "CONNECTED" /\ (ioPc \in {"select", "read", "next"} => pingOutstanding)

\* The application thread comes to Answering with the I/O thread asleep.
LEMMA AppPings ==
  ASSUME SubscribesOnceLast, TypeInv, InTheirCall, HandlerInv, HandlerInv', PingsGoOn, AppNext
  PROVE  PingsGoOn'
<1> USE DEF TypeInv, TypeOK
<1>0. brokerUp' = brokerUp /\ ~Done
  BY AppSends, AppRuns, DoneIsLast DEF brokerVars
<1>1. CASE SubackWait
  <2>1. SUFFICES ASSUME Answering'
                 PROVE  runState' = "CONNECTED" /\ ioPc' \notin {"select", "read", "next"}
    BY DEF PingsGoOn
  <2>2. ~Done'
    <3>1. ASSUME NEW k \in DOMAIN Calls, Subscribed(k)' PROVE FALSE
      BY <1>0, <1>1, <3>1 DEF SubackWait, Goto, Done, Subscribed
    <3> QED
      BY <3>1 DEF Done
  <2>3. appPc' = "subackRead" /\ runState' = "CONNECTED"
    BY <1>1, <2>1, <2>2 DEF SubackWait, Answering, Goto
  <2> QED
    BY <2>3 DEF HandlerInv, AnswerInHand
<1>2. CASE /\ UNCHANGED <<runState, ioPc, pingOutstanding>> /\ faults \subseteq faults'
           /\ (Answering' => Answering)
  BY <1>0, <1>2 DEF PingsGoOn
<1>3. CASE ~Answering'
  BY <1>3 DEF PingsGoOn
<1>4. Done' => appPc = "setHandler" \/ appPc = "subackRead"
  <2>1. SUFFICES ASSUME NEW k \in DOMAIN Calls, Subscribed(k)'
                 PROVE  appPc = "setHandler" \/ appPc = "subackRead"
    BY DEF Done
  <2>2. ~Subscribed(k)
    BY <1>0 DEF Done
  <2> QED
    BY <2>1, <2>2, NewSuccess DEF SetHandler
<1>5. CASE SubackRead \/ SetFilter \/ SetHandler
  <2>1. Answering
    BY <1>5 DEF SubackRead, SetFilter, SetHandler, Answering
  <2> QED
    BY <1>2, <1>5, <2>1 DEF SubackRead, SetFilter, SetHandler, AppLeaves, clientVars
<1> QED
  BY <1>0, <1>1, <1>3, <1>4, <1>5
     DEF AppNext, ConnectBegin, ConnectSend, ConnackWait, ConnackRead, SubscribeBegin,
         SubscribeSend, CloseSession, Killed, Goto, Return, Answering

\* The I/O thread passes keepalive on its way to select.
LEMMA IoPings ==
  ASSUME TypeInv, PingsGoOn, IoNext
  PROVE  PingsGoOn'
<1>0. UNCHANGED <<results, runState, brokerUp>> /\ faults \subseteq faults'
      /\ (appPc' = appPc \/ ~brokerUp)
  BY IoReads, IoCloses DEF brokerVars
<1>1. SUFFICES ASSUME KeepAlive, brokerUp, faults' \cap {"send", "close"} = {}, Answering,
                      runState = "CONNECTED", ioPc \in {"select", "read", "next"} => pingOutstanding
               PROVE  ioPc' \in {"select", "read", "next"} => pingOutstanding'
  BY <1>0 DEF PingsGoOn, Answering, Done, Subscribed
<1>2. CASE Wake
  BY <1>1, <1>2 DEF Wake, KeepaliveDue
<1>3. CASE AckSend
  BY <1>1, <1>3 DEF AckSend
<1>4. CASE PingSend
  BY <1>1, <1>4 DEF PingSend
<1>5. CASE KeepaliveCheck
  BY <1>5 DEF KeepaliveCheck, clientVars
<1>6. CASE ReadBegin \/ NeedMore \/ ReadEnd \/ Again \/ Lose
  BY <1>1, <1>6 DEF ReadBegin, NeedMore, ReadEnd, Again, Lose, clientVars
<1> QED
  BY <1>2, <1>3, <1>4, <1>5, <1>6
     DEF IoNext, HandleAnswer, HandlePublish, HandlePubrel, HandlePingresp, Eof, Disconnect, Killed

\* With a prompt application, PingsGoOn holds throughout.
LEMMA PingsAlways ==
  ASSUME SubscribesOnceLast, PromptApp
  PROVE  Spec => []PingsGoOn
<1>1. Init => PingsGoOn
  BY DEF Init, PingsGoOn, Answering, Done, Subscribed
<1>2. TypeInv /\ QuietInv /\ HandlerInv /\ HandlerInv' /\ PingsGoOn /\ [Next]_vars => PingsGoOn'
  <2>1. CASE EnvNext \/ UNCHANGED vars
    <3>1. PingsGoOn => PingsGoOn'
      BY <2>1, EnvReceives
         DEF vars, appVars, clientVars, brokerVars, history, PingsGoOn, Answering, Done, Subscribed
    <3> QED
      BY <3>1
  <2>2. QuietInv => InTheirCall
    BY DEF QuietInv
  <2> QED
    BY <2>1, <2>2, AppPings, IoPings DEF Next
<1> QED
  BY <1>1, <1>2, TypeInvariance, QuietAlways, HandlerAlways, PTL DEF Spec

-----------------------------------------------------------------------------
(* MQTTIsConnected does not outlive the connection *)

\* The application connects once, as mqttmakeRequest does.
ConnectsOnce == \A k, l \in DOMAIN Calls : Calls[k] = 0 /\ Calls[l] = 0 => k = l

\* Before its CONNECT is sent nothing looks like an answer to it, and while the
\* application has a CONNACK to look at the I/O thread is asleep.
ConnectAhead ==
  /\ appPc \notin {"connackWait", "connackRead", "killed"}
  /\ \E k \in DOMAIN Calls : Calls[k] = 0 /\ k > Len(results)
NoConnect == {p \in GoodPackets : p.type # "CONNECT"}
NoConnack == {p \in GoodPackets : p.type # "CONNACK"}
NothingBefore ==
  ConnectAhead =>
    /\ toBroker \in Seq(NoConnect)
    /\ toClient \in Seq(NoConnack) /\ packetBuf \in NoConnack /\ ack # "CONNACK"
ConnackInHand ==
  appPc = "connackRead" \/ (appPc = "connackWait" /\ ack = "CONNACK") => ioPc = "sleep"
TruthInv == NothingBefore /\ ConnackInHand /\ (Ended => ~isconnected)

\* The one connect is ahead while it is not sent, and no longer.
LEMMA ConnectComes ==
  ASSUME ConnectsOnce, TypeInv, InTheirCall, AppNext
  PROVE  /\ appPc = "connectSend" => ConnectAhead /\ ~ConnectAhead'
         /\ ConnectAhead' => ConnectAhead
<1> USE DEF TypeInv, TypeOK
<1>0. CallRuns /\ appPc # "killed" /\ Len(results) \in Nat /\ Len(Calls) \in Nat
      /\ DOMAIN Calls = 1..Len(Calls)
  BY AppRuns, CallsAssumption DEF AppTypes
<1>1. Len(results') \in {Len(results), Len(results) + 1}
  <2>1. CASE UNCHANGED results
    BY <2>1
  <2>2. ASSUME NEW rc \in FAILURE..5, Return(rc) PROVE Len(results') = Len(results) + 1
    BY <2>2, ReturnAppends
  <2> QED
    BY <2>1, <2>2, AppReturns
<1>2. CASE appPc \in {"connectSend", "connackWait", "connackRead"}
  <2>1. NextCall = 0 /\ Len(results) + 1 \in DOMAIN Calls
    BY <1>0, <1>2 DEF InTheirCall, CallRuns
  <2>2. \A k \in DOMAIN Calls : Calls[k] = 0 => k = Len(results) + 1
    BY <2>1 DEF NextCall, ConnectsOnce
  <2>3. appPc' \in {"connackWait", "connackRead", "killed"} \/ Len(results') = Len(results) + 1
    <3>1. CASE \E rc \in FAILURE..5 : Return(rc)
      BY <3>1, ReturnAppends
    <3>2. ConnackCode \in FAILURE..5 /\ FAILURE \in FAILURE..5
      BY DEF ConnackCode, FAILURE, GoodChannels, GoodPackets, WellFormed
    <3> QED
      BY <1>2, <3>1, <3>2
         DEF AppNext, ConnectBegin, ConnectSend, ConnackWait, ConnackRead, SubscribeBegin,
             SubscribeSend, SubackWait, SubackRead, SetFilter, SetHandler, CloseSession, Killed,
             Goto
  <2>4. ~ConnectAhead'
    BY <1>0, <2>2, <2>3 DEF ConnectAhead
  <2>5. appPc = "connectSend" => ConnectAhead
    BY <1>0, <2>1 DEF ConnectAhead, NextCall
  <2> QED
    BY <2>4, <2>5
<1>3. CASE appPc \notin {"connectSend", "connackWait", "connackRead"}
  BY <1>0, <1>1, <1>3 DEF ConnectAhead
<1> QED
  BY <1>2, <1>3

\* The application thread sets isconnected only while the I/O thread sleeps.
LEMMA AppTruth ==
  ASSUME ConnectsOnce, TypeInv, InTheirCall, TruthInv, AppNext
  PROVE  TruthInv'
<1> USE DEF TypeInv, TypeOK, TruthInv
<1>0. UNCHANGED <<packetBuf, toClient>>
  BY AppSends
<1>1. ack' = ack /\ (ioPc' = ioPc \/ (appPc' = "killed" /\ ioPc' = "killed"))
  BY DEF AppNext, ConnectBegin, ConnectSend, ConnackWait, ConnackRead, SubscribeBegin,
         SubscribeSend, SubackWait, SubackRead, SetFilter, SetHandler, CloseSession, Killed,
         clientVars, AppLeaves
<1>2. NothingBefore'
  <2>1. SUFFICES ASSUME ConnectAhead', ConnectAhead PROVE toBroker' \in Seq(NoConnect)
    BY <1>0, <1>1, ConnectComes DEF NothingBefore
  <2>2. toBroker \in Seq(NoConnect) /\ appPc # "connectSend"
    BY <2>1, ConnectComes DEF NothingBefore
  <2>3. ASSUME NEW p \in NoConnect, toBroker' = Append(toBroker, p)
        PROVE  toBroker' \in Seq(NoConnect)
    BY <2>2, <2>3, AppendProperties
  <2>4. appPc = "subscribeSend" => SubscribePacket(CurrentTopic) \in NoConnect
    <3>1. appPc = "subscribeSend" => CurrentTopic \in 1..Topics
      BY AppRuns, NextCallType DEF AppTypes
    <3> QED
      BY <3>1, PacketsGood DEF NoConnect, SubscribePacket, Pkt
  <2> QED
    BY <2>2, <2>3, <2>4, AppSends DEF NoConnect
<1>3. ConnackInHand'
  <2>1. CASE ConnectSend
    <3>1. ack # "CONNACK"
      BY <2>1, ConnectComes DEF ConnectSend, NothingBefore
    <3> QED
      BY <1>1, <2>1, <3>1 DEF ConnectSend, ConnackInHand, Goto, Return
  <2>2. CASE ConnackWait
    BY <1>1, <2>2 DEF ConnackWait, ConnackInHand, Goto, Return, Answered
  <2>3. CASE appPc' \notin {"connackWait", "connackRead"}
    BY <2>3 DEF ConnackInHand
  <2> QED
    BY <2>1, <2>2, <2>3
       DEF AppNext, ConnectBegin, ConnackRead, SubscribeBegin, SubscribeSend, SubackWait,
           SubackRead, SetFilter, SetHandler, CloseSession, Killed, Goto, Return
<1>4. Ended' => ~isconnected'
  <2>1. CASE ConnackRead
    BY <1>1, <2>1 DEF ConnackRead, ConnackInHand, Ended
  <2>2. CASE isconnected' \in {isconnected, FALSE}
    BY <1>1, <2>2 DEF Ended
  <2> QED
    BY <2>1, <2>2
       DEF AppNext, ConnectBegin, ConnectSend, ConnackWait, SubscribeBegin, SubscribeSend,
           SubackWait, SubackRead, SetFilter, SetHandler, CloseSession, MQTTCloseSession, Killed,
           clientVars
<1> QED
  BY <1>2, <1>3, <1>4

\* The I/O thread ends after the session has been closed.
LEMMA IoTruth ==
  ASSUME PromptApp, TypeInv, TruthInv, IoNext
  PROVE  TruthInv'
<1> USE DEF TruthInv
<1>0. UNCHANGED results /\ appPc' \in {appPc, "killed"}
  BY IoReads
<1>1. NothingBefore'
  <2>1. SUFFICES ASSUME ConnectAhead
                 PROVE  /\ toBroker' \in Seq(NoConnect) /\ toClient' \in Seq(NoConnack)
                        /\ packetBuf' \in NoConnack /\ ack' # "CONNACK"
    BY <1>0 DEF NothingBefore, ConnectAhead
  <2>2. /\ toBroker \in Seq(NoConnect) /\ toClient \in Seq(NoConnack)
        /\ packetBuf \in NoConnack /\ ack # "CONNACK"
    BY <2>1 DEF NothingBefore
  <2>3. toBroker' \in Seq(NoConnect)
    <3>1. ASSUME NEW p \in NoConnect, toBroker' = Append(toBroker, p)
          PROVE  toBroker' \in Seq(NoConnect)
      BY <2>2, <3>1, AppendProperties
    <3> QED
      BY <2>2, <3>1, IoSends DEF NoConnect
  <2>4. ack' # "CONNACK"
    BY <2>2, IoAcks DEF NoConnack
  <2>5. NoPacket \in NoConnack
    BY PacketsGood DEF NoConnack, NoPacket, Pkt
  <2> QED
    BY <2>2, <2>3, <2>4, <2>5, IoChannel
<1>2. ConnackInHand'
  <2>1. SUFFICES ASSUME appPc = "connackRead" \/ (appPc = "connackWait" /\ ack' = "CONNACK")
                 PROVE  ioPc' = "sleep"
    BY <1>0 DEF ConnackInHand
  <2>2. ~AckNoticed
    BY AnswerHoldsIo, <2>1 DEF ConnackInHand, AckNoticed, Answered
  <2>3. ack # "CONNACK" /\ ack' = "CONNACK"
    BY <2>1, <2>2 DEF AckNoticed, Answered
  <2> QED
    BY <2>3, IoAcks
<1>3. Ended' => ~isconnected'
  BY DEF IoNext, ReadBegin, NeedMore, ReadEnd, Again, Lose, HandleAnswer, HandlePublish,
         HandlePubrel, HandlePingresp,
         AckSend, Wake, KeepaliveCheck, PingSend, Eof, Disconnect, Killed, MQTTCloseSession,
         clientVars, Ended, Onward
<1> QED
  BY <1>1, <1>2, <1>3

\* The broker answers no CONNECT that was not sent.
LEMMA EnvTruth ==
  ASSUME TypeInv, TruthInv, EnvNext
  PROVE  TruthInv'
<1> USE DEF TypeInv, TypeOK, TruthInv
<1>0. UNCHANGED <<appPc, results, isconnected, ack, ioPc, packetBuf>>
  BY EnvReceives DEF appVars, clientVars
<1>1. SUFFICES ASSUME ConnectAhead
               PROVE  toBroker' \in Seq(NoConnect) /\ toClient' \in Seq(NoConnack)
  BY <1>0 DEF NothingBefore, ConnectAhead, ConnackInHand, Ended
<1>2. toBroker \in Seq(NoConnect) /\ toClient \in Seq(NoConnack)
  BY <1>1 DEF NothingBefore
<1>3. toBroker' \in Seq(NoConnect)
  <2>1. toBroker # << >> => Tail(toBroker) \in Seq(NoConnect)
    BY <1>2, HeadTailProperties
  <2>2. << >> \in Seq(NoConnect)
    OBVIOUS
  <2> QED
    BY <1>2, <2>1, <2>2, EnvReceives
<1>4. ~BrokerConnect
  <2>1. toBroker # << >> => Head(toBroker) \in NoConnect
    BY <1>2, HeadTailProperties
  <2> QED
    BY <2>1 DEF BrokerConnect, Receives, NoConnect
<1>5. ASSUME NEW p \in NoConnack, toClient' = Append(toClient, p)
      PROVE  toClient' \in Seq(NoConnack)
  BY <1>2, <1>5, AppendProperties
<1>6. CASE BrokerSubscribe \/ BrokerSuback
  <2>1. CASE BrokerSuback
    <3>1. PICK t \in 1..Topics : ToClient(Pkt("SUBACK", t))
      BY <2>1 DEF BrokerSuback
    <3>2. Pkt("SUBACK", t) \in NoConnack
      BY PacketsGood DEF NoConnack, Pkt
    <3> QED
      BY <1>3, <1>5, <3>1, <3>2 DEF ToClient
  <2>2. CASE BrokerSubscribe
    <3>1. Head(toBroker) \in GoodPackets /\ Head(toBroker).type = "SUBSCRIBE"
      BY <2>2, ReceiveGood DEF BrokerSubscribe, Receives, GoodChannels
    <3>2. Head(toBroker).arg \in 1..Topics
      BY <3>1 DEF GoodPackets, WellFormed
    <3>3. Pkt("SUBACK", 0 - Head(toBroker).arg) \in NoConnack
      BY <3>2, PacketsGood DEF NoConnack, Pkt
    <3> QED
      BY <1>2, <1>3, <1>5, <2>2, <3>3 DEF BrokerSubscribe, ToClient
  <2> QED
    BY <1>6, <2>1, <2>2
<1>7. toClient' \in Seq(NoConnack)
  BY <1>2, <1>4, <1>5, <1>6, EnvSends DEF NoConnack
<1> QED
  BY <1>3, <1>7

\* isconnected is not TRUE once the client has closed the socket, if the application
\* connects once and looks at the CONNACK within the 200 ms the I/O thread sleeps.
THEOREM ConnectedMeansOpen ==
  ASSUME ConnectsOnce, PromptApp
  PROVE  Spec => []IsConnectedIsTruth
<1>1. Init => EndInv /\ TruthInv
  <2> SUFFICES ASSUME Init PROVE EndInv /\ TruthInv
    OBVIOUS
  <2>1. NoPacket \in NoConnack
    BY PacketsGood DEF NoConnack, NoPacket, Pkt
  <2>2. EndInv
    BY DEF Init, EndInv, InTheirCall, Ended
  <2>3. NothingBefore
    BY <2>1 DEF Init, NothingBefore
  <2>4. ConnackInHand /\ (Ended => ~isconnected)
    BY DEF Init, ConnackInHand, Ended
  <2> QED
    BY <2>2, <2>3, <2>4 DEF TruthInv
<1>2. TypeInv /\ EndInv /\ [Next]_vars => EndInv'
  BY AppEnd, IoEnd, EnvEnd DEF Next
<1>3. TypeInv /\ EndInv /\ TruthInv /\ [Next]_vars => TruthInv'
  <2>1. UNCHANGED vars /\ TruthInv => TruthInv'
    BY DEF vars, appVars, clientVars, TruthInv, NothingBefore, ConnectAhead, ConnackInHand, Ended
  <2>2. EndInv => InTheirCall
    BY DEF EndInv
  <2> QED
    BY <2>1, <2>2, AppTruth, IoTruth, EnvTruth DEF Next
<1>4. TruthInv => IsConnectedIsTruth
  BY DEF TruthInv, IsConnectedIsTruth, Ended
<1> QED
  BY <1>1, <1>2, <1>3, <1>4, TypeInvariance, PTL DEF Spec
=============================================================================
