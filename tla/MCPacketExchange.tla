-------------------------- MODULE MCPacketExchange --------------------------
(***************************************************************************)
(* Instances of PacketExchange for TLC.                                     *)
(***************************************************************************)
EXTENDS PacketExchange

A == 97
Bee == 98

Will(qos, retained) == [qos |-> qos, retained |-> retained,
                        topicName |-> CString(<<A>>), message |-> LenString(<<Bee, A>>)]
Options(version, clean, will, username, password) ==
  [MQTTVersion |-> version, cleansession |-> clean, keepAliveInterval |-> 300,
   clientID |-> CString(<<A, Bee>>), willFlag |-> IF will = NULL THEN 0 ELSE 1,
   will |-> will, username |-> username, password |-> password]

Connects ==
  {[kind |-> "connect", to |-> "server", options |-> Options(v, c, w, u[1], u[2])] :
     v \in {3, 4}, c \in {0, 1}, w \in {NULL, Will(2, 0), Will(1, 1)},
     u \in {<<NoString, NoString>>, <<CString(<<A>>), NoString>>,
            <<LenString(<<A, A>>), CString(<<Bee>>)>>}}
\* the user name and the password that are refused, and an empty user name that is not; the
\* first is the gateway's
Refusable ==
  {[kind |-> "connect", to |-> "server", options |-> Options(4, 1, w, u[1], u[2])] :
     w \in {NULL, Will(1, 0)},
     u \in {<<CString(<< >>), CString(<< >>)>>, <<CString(<< >>), NoString>>,
            <<LenString(<<A>>), LenString(<< >>)>>, <<NoString, CString(<<A>>)>>,
            <<NoString, CString(<< >>)>>, <<CString(<< >>), CString(<<Bee>>)>>}}
Connacks == {[kind |-> "connack", to |-> "client", rc |-> r, sessionPresent |-> s] :
               r \in {0, 5}, s \in {0, 1}}
Acknowledgements == {[kind |-> "ack", to |-> side, type |-> t, dup |-> d, id |-> i] :
                       side \in {"client", "server"}, t \in Acks, d \in {0, 1}, i \in {1, 300}}
Publish(side, dup, qos, retained, topic, payload) ==
  [kind |-> "publish", to |-> side, dup |-> dup, qos |-> qos, retained |-> retained,
   id |-> 258, topic |-> topic, payload |-> payload]
Publishes ==
  {Publish(side, d, q, r, CString(<<A, Slash, Bee>>), p) :
     side \in {"client", "server"}, d \in {0, 1}, q \in 0..2, r \in {0, 1},
     p \in {<< >>, <<0, 255>>}}
\* remaining lengths of 125 to 129, around the second length byte
LongPublishes == {Publish("client", 0, 1, 0, LenString(<<A>>), [i \in 1..n |-> i]) : n \in 120..124}

Filters == {<<f>> : f \in {CString(<<A>>), LenString(<<A, Slash, Plus>>)}}
           \cup {<<CString(<<Hash>>), CString(<<A, A>>)>>}
Subscribe(f, q) == [kind |-> "subscribe", to |-> "server", dup |-> 0, id |-> 65535,
                    filters |-> f, qoss |-> q]
Subscribes == {Subscribe(f, [i \in DOMAIN f |-> i]) : f \in Filters}
Unsubscribes == {[kind |-> "unsubscribe", to |-> "server", dup |-> d, id |-> 1, filters |-> f] :
                   d \in {0, 1}, f \in Filters}
Subacks == {[kind |-> "suback", to |-> "client", id |-> 2, granted |-> g] :
              g \in {<< >>, <<0>>, <<128>>, <<2, 1>>, <<1, 255>>, <<0, 1, 2>>, <<0, 0, 0, 128>>}}
Unsubacks == {[kind |-> "unsuback", to |-> "client", id |-> 511]}
Zeros == {[kind |-> "zero", to |-> "server", type |-> t] : t \in Empty}

Single == Connects \cup Refusable \cup Connacks \cup Acknowledgements \cup Publishes \cup LongPublishes
          \cup Subscribes \cup Unsubscribes \cup Subacks \cup Unsubacks \cup Zeros

\* every filter and topic of up to four characters with at least one of the five kinds
Strings(chars) == UNION {[1..n -> chars] : n \in 1..4}
Matching == {<<Subscribe(<<CString(f)>>, <<0>>), Publish("client", 0, 0, 0, LenString(t), << >>)>> :
               f \in {f \in Strings({A, Slash, Plus, Hash}) : WellFormed(f)},
               t \in Strings({A, Slash})}

AllConversations ==
  {<<d>> : d \in Single}
  \cup {<<Publish("server", 0, 1, 0, CString(<<A>>), <<1>>), d>> : d \in Zeros \cup Subscribes}
  \cup Matching

\* nothing, a packet cut off, one too long for the reader, and a length of five bytes
AllTails == {<< >>, <<48, 2, 1>>, <<48, 255, 1>>, <<48, 128, 128, 128, 128, 0>>}
=============================================================================
