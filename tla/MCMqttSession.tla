--------------------------- MODULE MCMqttSession ---------------------------
(***************************************************************************)
(* Instances of MqttSession for TLC.  Topics and messages are numbers, as   *)
(* the broker publishes the messages in order; every bound is one of these  *)
(* sequences.                                                               *)
(***************************************************************************)
EXTENDS MqttSession

\* mqttmakeRequest (iot_mqttclient.c:250): one Connect, one Subscribe
GatewayCalls == <<0, 1>>

\* Further uses of the API the handler table is made for
TwoSubscriptions == <<0, 1, 2>>
CallAgain == <<0, 0, 1, 1, 2>>

\* QOS0 is what mqttmakeRequest asks for, so what the broker sends it
ThreeMessages == <<1, 1, 1>>
ThreeQoS0 == <<0, 0, 0>>

\* the handshakes
TwoMessages == <<1, 1>>
QoS1And2 == <<1, 2>>

\* one message of each of two topics
MessageOfEach == <<1, 2>>
QoS0And1 == <<0, 1>>
=============================================================================
