----------------------------- MODULE SendPacket -----------------------------
(***************************************************************************)
(* sendPacket (src/mqtt/MQTTClient.c:51): the loop that writes `length'     *)
(* bytes of stream->sendBuf to the socket until the packet is out, a write  *)
(* fails or the timer has expired.  A byte is named by its offset in        *)
(* sendBuf, so `wire' says which bytes went out and in which order.         *)
(*                                                                         *)
(* The loop asks the kernel for `length' bytes from offset `sent', also     *)
(* when `sent' bytes are out already: after a partial write the next one    *)
(* may take bytes beyond the packet.  The model keeps that.                 *)
(*                                                                         *)
(* gettimeofday follows the clock of the system, which may be set while the *)
(* loop runs: it shows any time of Clock, an earlier one as well.           *)
(***************************************************************************)
EXTENDS Integers, Sequences, Timers

CONSTANTS MaxLength,    \* bound: the longest packet a caller serialises
          SendBufSize,  \* sizeof(stream->sendBuf), 5 * 1024 (stream.h:23)
          Clock,        \* bound: the times the clock of the system shows
          Timeout       \* the caller's TimerCountdownMS: command_timeout_ms, 1000 in keepalive

ASSUME MaxLengthAssumption == MaxLength \in Nat /\ MaxLength >= 2
\* connect, subscribe and acknowledgement packets are far below half of the buffer
ASSUME SendBufSizeAssumption == SendBufSize \in Nat /\ 2 * MaxLength <= SendBufSize
ASSUME ClockAssumption == Clock \subseteq Timevals /\ Timeout \in UnsignedInts

VARIABLES length,   \* the argument: size of the packet in sendBuf
          sent,     \* bytes the kernel has accepted so far
          wire,     \* offsets of the bytes accepted, in order
          timer,    \* the argument: when to give up
          now,      \* what gettimeofday returns
          rc        \* the value returned, Running until then

vars == <<length, sent, wire, timer, now, rc>>

SUCCESS == 0
FAILURE == -1
Running == 1

\* The bytes of sendBuf from offset `from', n of them
Bytes(from, n) == [i \in 1..n |-> from + i - 1]
Packet == Bytes(0, length)

Init == /\ length \in 2..MaxLength
        /\ sent = 0
        /\ wire = << >>
        /\ now \in Clock
        /\ \E start \in Clock : timer = TimerCountdownMS(Timeout, start)
        /\ rc = Running

MutLoopOnTimerOnly == rc = Running /\ ~TimerIsExpired(timer, now)
InLoop == rc = Running /\ sent < length /\ ~TimerIsExpired(timer, now)

\* write(socketId, sendBuf + sent, length): the kernel takes 1..length bytes
Write == /\ InLoop
         /\ \E n \in 1..length : /\ wire' = wire \o Bytes(sent, n)
                                 /\ sent' = sent + n
         /\ UNCHANGED <<length, timer, now, rc>>

\* write returns -1 (SO_SNDTIMEO of 200 ms, or the peer is gone): break, and
\* `sent' is not `length'
WriteError == InLoop /\ rc' = FAILURE /\ UNCHANGED <<length, sent, wire, timer, now>>

Tick == /\ rc = Running
        /\ \E t \in Clock \ {now} : now' = t
        /\ UNCHANGED <<length, sent, wire, timer, rc>>

\* SUCCESS for everything that is out, packet or more
MutSuccessIfOut == /\ rc = Running /\ ~InLoop
                   /\ rc' = IF sent >= length THEN SUCCESS ELSE FAILURE
                   /\ UNCHANGED <<length, sent, wire, timer, now>>

\* a loop that only ends with the packet out
MutTimerIgnored == /\ rc = Running /\ sent >= length
                   /\ rc' = IF sent = length THEN SUCCESS ELSE FAILURE
                   /\ UNCHANGED <<length, sent, wire, timer, now>>

\* the loop condition fails: SUCCESS if `sent' is exactly `length'
Return == /\ rc = Running /\ ~InLoop
          /\ rc' = IF sent = length THEN SUCCESS ELSE FAILURE
          /\ UNCHANGED <<length, sent, wire, timer, now>>

Thread == Write \/ WriteError \/ Return
Next == Thread \/ Tick

Spec == Init /\ [][Next]_vars

FairSpec == Spec /\ WF_vars(Thread)

-----------------------------------------------------------------------------
(* Properties *)

TypeOK == /\ length \in 2..MaxLength
          /\ sent \in 0..(2 * MaxLength)
          /\ wire \in Seq(0..(2 * MaxLength))
          /\ timer \in Timevals /\ now \in Clock
          /\ rc \in {SUCCESS, FAILURE, Running}

\* The bytes out are always the first `sent' bytes of sendBuf, each once and in
\* order, however the kernel cuts the writes up (MQTTClient.c:69, 79).
NothingSkipped == wire = Bytes(0, sent)

\* SUCCESS is returned exactly for the calls whose bytes on the socket are the
\* packet: never after a partial write ran beyond it (MQTTClient.c:81-87).
SuccessIffWholePacket == rc # Running => (rc = SUCCESS <=> wire = Packet)

\* No write of the loop reads behind the end of sendBuf, although it asks for
\* `length' bytes from `sent' on (MQTTClient.c:69).
ReadsInsideSendBuf == InLoop => sent + length <= SendBufSize

\* The call answers: the timer or the kernel ends the loop (MQTTClient.c:55).
Answers == <>(rc # Running)

\* sendPacket keeps the promise of AtomicSend
onWire == IF rc = Running \/ wire = << >> THEN "nothing"
          ELSE IF wire = Packet THEN "packet" ELSE "other"
Atomic == INSTANCE AtomicSend
ImplementsAtomicSend == Atomic!Spec
=============================================================================
