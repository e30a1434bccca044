----------------------------- MODULE MCGateway -----------------------------
(***************************************************************************)
(* Instances of Gateway for TLC.                                            *)
(***************************************************************************)
EXTENDS Gateway

CONSTANTS t1, t2

\* gatewayDevice.c, and with the start-up of httpclient.c:17-22 before it
GatewayPrograms == {<<"mqtt">>, <<"http", "mqtt">>}
\* in the first word, the first one behind it, and the last one the set can hold
GatewayDescriptors == {3, 64, 127}
TwoTemperatures == {t1, t2}
=============================================================================
