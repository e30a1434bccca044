----------------------------- MODULE AtomicSend -----------------------------
(***************************************************************************)
(* What a caller of sendPacket (src/mqtt/MQTTClient.c) may rely on: one     *)
(* call, one answer, and SUCCESS exactly when the bytes that reached the    *)
(* socket are the packet, nothing missing and nothing added.  On FAILURE    *)
(* the socket holds either nothing of the packet or bytes that are not it   *)
(* (a part of it, or it and more).                                          *)
(***************************************************************************)
EXTENDS Integers

VARIABLES rc,      \* what the call has returned, Running while it has not
          onWire   \* what the socket holds of the call once it has returned

SUCCESS == 0
FAILURE == -1
Running == 1

Init == rc = Running /\ onWire = "nothing"

Succeed == rc = Running /\ rc' = SUCCESS /\ onWire' = "packet"

Fail == rc = Running /\ rc' = FAILURE /\ onWire' \in {"nothing", "other"}

Next == Succeed \/ Fail

Spec == Init /\ [][Next]_<<rc, onWire>>
=============================================================================
