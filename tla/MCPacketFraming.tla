-------------------------- MODULE MCPacketFraming --------------------------
(***************************************************************************)
(* Instances of PacketFraming for TLC, with Base = 8.                       *)
(***************************************************************************)
EXTENDS PacketFraming

Connack == <<2, 2, 0, 0>>
Suback == <<9, 3, 0, 1, 0>>
Pingresp == <<13, 0>>
Publish == <<3, 5, 0, 1, 7, 5, 6>>
\* a remaining length of 9, which takes two bytes
LongPublish == <<3, 9, 1, 0, 1, 7, 1, 2, 3, 4, 5, 6>>

\* a remaining length of 12, one more than a packetBuf of 14 bytes takes
Overlong == <<3, 12, 1, 0, 1, 7, 1, 2, 3, 4, 5, 6, 7, 8, 9>>

\* What the gateway receives: the answers to its calls, messages, a long one first, as its
\* header may be cut, an answer to a ping, and a message that does not fit
GatewayPackets == <<LongPublish, Connack, Suback, Publish, Pingresp, Overlong, Pingresp>>

\* The answer to MQTTSubscribe and a retained message of the topic
Retained == <<Suback, Publish>>
=============================================================================
