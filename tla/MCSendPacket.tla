---------------------------- MODULE MCSendPacket ----------------------------
(***************************************************************************)
(* An instance of SendPacket for TLC.                                       *)
(***************************************************************************)
EXTENDS SendPacket

\* A countdown of 3000 ms from the first ends at the last of them; the others lie before it, one by
\* a whole second and one by a microsecond.
SomeTimes == {Timeval(7, 999999), Timeval(10, 0), Timeval(10, 999998), Timeval(10, 999999)}
=============================================================================
