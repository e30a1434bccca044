-------------------------- MODULE SendPacket_proofs --------------------------
(***************************************************************************)
(* Proofs about the timers of src/mqtt/MQTTLinux.c, for every time and      *)
(* every timeout, and about sendPacket, for every packet length and buffer  *)
(* size.                                                                    *)
(* The inductive invariant Inv: the bytes on the wire are the first `sent'  *)
(* bytes of sendBuf, `sent' stays below two packets, and an answer agrees   *)
(* with `sent'.                                                             *)
(***************************************************************************)
EXTENDS SendPacket, SequenceTheorems, TLAPS

-----------------------------------------------------------------------------
(* Timers: one number of microseconds is the reference *)

Micros(t) == 1000000 * t.sec + t.usec

\* The macros of sys/time.h are addition and subtraction of microseconds, with the fields in
\* their ranges.
LEMMA TimerAdd ==
  ASSUME NEW a \in Timevals, NEW b \in Timevals
  PROVE  timeradd(a, b) \in Timevals /\ Micros(timeradd(a, b)) = Micros(a) + Micros(b)
BY SMT DEF Timevals, Timeval, timeradd, Micros

\* The same for the difference.
LEMMA TimerSub ==
  ASSUME NEW a \in Timevals, NEW b \in Timevals
  PROVE  timersub(a, b) \in Timevals /\ Micros(timersub(a, b)) = Micros(a) - Micros(b)
BY SMT DEF Timevals, Timeval, timersub, Micros

\* A timer has expired exactly from its end time on, to the microsecond, however the two fields
\* compare (MQTTLinux.c:25-31).
THEOREM ExpiresAtItsTime ==
  ASSUME NEW end_time \in Timevals, NEW time \in Timevals
  PROVE  TimerIsExpired(end_time, time) <=> Micros(time) >= Micros(end_time)
<1>1. timersub(end_time, time) \in Timevals
      /\ Micros(timersub(end_time, time)) = Micros(end_time) - Micros(time)
  BY SMT, TimerSub
<1> DEFINE res == timersub(end_time, time)
<1>2. TimerIsExpired(end_time, time) <=> res.sec < 0 \/ (res.sec = 0 /\ res.usec <= 0)
  BY SMT DEF TimerIsExpired
<1>3. (res.sec < 0 \/ (res.sec = 0 /\ res.usec <= 0)) <=> Micros(res) <= 0
  <2> HIDE DEF res
  <2>1. res.sec \in Int /\ res.usec \in Nat /\ res.usec < 1000000
    BY SMT, <1>1 DEF res, Timevals
  <2> QED BY SMT, <2>1 DEF Micros
<1>4. Micros(end_time) \in Int /\ Micros(time) \in Int
  BY SMT DEF Micros, Timevals
<1> QED BY SMT, <1>1, <1>2, <1>3, <1>4

\* A countdown ends exactly the timeout later, for every unsigned timeout in milliseconds or in
\* seconds (MQTTLinux.c:34-49).
THEOREM CountdownTakesTheTimeout ==
  ASSUME NEW timeout \in UnsignedInts, NEW time \in Timevals
  PROVE  /\ TimerCountdownMS(timeout, time) \in Timevals
         /\ Micros(TimerCountdownMS(timeout, time)) = Micros(time) + 1000 * timeout
         /\ TimerCountdown(timeout, time) \in Timevals
         /\ Micros(TimerCountdown(timeout, time)) = Micros(time) + 1000000 * timeout
<1> DEFINE ms == Timeval(timeout \div 1000, (timeout % 1000) * 1000)
           s == Timeval(timeout, 0)
<1>0. timeout = 1000 * (timeout \div 1000) + (timeout % 1000)
      /\ timeout \div 1000 \in Int /\ timeout % 1000 \in 0..999
  BY SMT DEF UnsignedInts
<1>1. ms \in Timevals /\ Micros(ms) = 1000 * timeout
  BY SMT, <1>0 DEF Timevals, Timeval, Micros, UnsignedInts
<1>2. s \in Timevals /\ Micros(s) = 1000000 * timeout
  BY SMT DEF Timevals, Timeval, Micros, UnsignedInts
<1> HIDE DEF ms, s
<1>3. TimerCountdownMS(timeout, time) = timeradd(time, ms)
      /\ TimerCountdown(timeout, time) = timeradd(time, s)
  BY SMT DEF TimerCountdownMS, TimerCountdown, ms, s
<1> QED BY SMT, <1>1, <1>2, <1>3, TimerAdd

\* What is left is rounded down to milliseconds, so the last millisecond of a timer that has not
\* expired counts as nothing; of more than 2^31 - 1 ms the int returned is something else
\* (MQTTLinux.c:52-59).
THEOREM LeftIsRoundedDown ==
  ASSUME NEW end_time \in Timevals, NEW time \in Timevals,
         Micros(end_time) - Micros(time) < 65536 * 32768 * 1000
  PROVE  IF TimerIsExpired(end_time, time)
         THEN TimerLeftMS(end_time, time) = 0
         ELSE LET left == TimerLeftMS(end_time, time)
              IN /\ left \in Nat /\ left < 65536 * 32768
                 /\ 1000 * left <= Micros(end_time) - Micros(time)
                 /\ Micros(end_time) - Micros(time) < 1000 * (left + 1)
<1> DEFINE res == timersub(end_time, time)
           ms == res.sec * 1000 + res.usec \div 1000
<1>1. res \in Timevals /\ Micros(res) = Micros(end_time) - Micros(time)
  BY SMT, TimerSub
<1>2. Micros(end_time) \in Int /\ Micros(time) \in Int
  BY SMT DEF Micros, Timevals
<1>3. TimerIsExpired(end_time, time) <=> Micros(res) <= 0
  BY SMT, <1>1, <1>2, ExpiresAtItsTime
<1>4. TimerLeftMS(end_time, time) = IF res.sec < 0 THEN 0 ELSE AsInt(ms)
  BY SMT DEF TimerLeftMS
<1> HIDE DEF res
<1>5. res.sec \in Int /\ res.usec \in Nat /\ res.usec < 1000000 /\ Micros(res) = 1000000 * res.sec + res.usec
  BY SMT, <1>1 DEF Timevals, Micros
<1>6. ms \in Int /\ 1000 * ms <= Micros(res) /\ Micros(res) < 1000 * (ms + 1)
  <2>1. res.usec \div 1000 \in Int /\ 1000 * (res.usec \div 1000) <= res.usec
        /\ res.usec < 1000 * (res.usec \div 1000 + 1)
    BY SMT, <1>5
  <2> QED BY SMT, <1>5, <2>1
<1> HIDE DEF ms
<1>7. ASSUME res.sec >= 0 PROVE ms \in Nat /\ ms < 65536 * 32768 /\ AsInt(ms) = ms
  <2>1. ms \in Nat /\ ms < 65536 * 32768
    <3>1. Micros(res) < 65536 * 32768 * 1000 /\ Micros(res) >= 0
      BY SMT, <1>1, <1>2, <1>5, <1>7
    <3> QED BY SMT, <1>5, <1>6, <3>1
  <2> QED BY SMT, <2>1 DEF AsInt, IntMin
<1>8. CASE res.sec < 0
  <2>1. Micros(res) <= 0
    BY SMT, <1>5, <1>8
  <2> QED BY SMT, <1>3, <1>4, <1>8, <2>1
<1>9. CASE res.sec >= 0
  <2>1. TimerLeftMS(end_time, time) = ms
    BY SMT, <1>4, <1>5, <1>7, <1>9
  <2>2. CASE Micros(res) <= 0
    <3>1. res.sec = 0 /\ res.usec = 0
      BY SMT, <1>5, <1>9, <2>2
    <3>2. ms = 0
      BY SMT, <3>1 DEF ms
    <3> QED BY SMT, <1>3, <2>1, <2>2, <3>2
  <2>3. CASE ~(Micros(res) <= 0)
    BY SMT, <1>1, <1>3, <1>6, <1>7, <1>9, <2>1, <2>3
  <2> QED BY SMT, <2>2, <2>3
<1> QED BY SMT, <1>5, <1>8, <1>9

\* A timer that was only initialised has expired at any time after 1970, which is why keepalive
\* takes every packet for the end of the interval: last_sent is never set
\* (MQTTLinux.c:20-23, MQTTClient.c:83, 290).
THEOREM NeverStartedIsExpired ==
  ASSUME NEW time \in Timevals, time.sec >= 0
  PROVE  TimerIsExpired(TimerInit, time)
<1>1. TimerInit \in Timevals /\ Micros(TimerInit) = 0
  BY SMT DEF TimerInit, Timevals, Timeval, Micros
<1>2. Micros(time) >= 0
  BY SMT DEF Timevals, Micros
<1> QED BY SMT, <1>1, <1>2, ExpiresAtItsTime

-----------------------------------------------------------------------------
(* sendPacket *)

Inv == /\ length \in 2..MaxLength
       /\ sent \in 0..(2 * length)
       /\ wire = Bytes(0, sent)
       /\ timer \in Timevals /\ now \in Clock
       /\ rc \in {SUCCESS, FAILURE, Running}
       /\ rc # Running => (rc = SUCCESS <=> sent = length)

-----------------------------------------------------------------------------
(* Facts about Bytes *)

\* A run of bytes is a sequence of that length.
LEMMA BytesSeq ==
  ASSUME NEW from \in Nat, NEW n \in Nat
  PROVE  /\ Bytes(from, n) \in Seq(from..(from + n))
         /\ Len(Bytes(from, n)) = n
  BY DEF Bytes

\* Two adjacent runs are one run: what a partial write leaves to the next one
\* (MQTTClient.c:69, 79).
LEMMA BytesJoin ==
  ASSUME NEW n \in Nat, NEW k \in Nat
  PROVE  Bytes(0, n) \o Bytes(n, k) = Bytes(0, n + k)
<1> DEFINE s == Bytes(0, n)
           t == Bytes(n, k)
           u == Bytes(0, n + k)
           S == 0..(n + k)
<1>1. /\ s \in Seq(S) /\ Len(s) = n
      /\ t \in Seq(S) /\ Len(t) = k
      /\ u \in Seq(S) /\ Len(u) = n + k
  BY DEF Bytes
<1>2. /\ s \o t \in Seq(S) /\ Len(s \o t) = n + k
      /\ \A i \in 1..(n + k) : (s \o t)[i] = IF i <= n THEN s[i] ELSE t[i - n]
  <2> HIDE DEF s, t, u, S
  <2> QED
    BY <1>1, ConcatProperties
<1>3. ASSUME NEW i \in 1..(n + k)
      PROVE  (IF i <= n THEN s[i] ELSE t[i - n]) = u[i]
  BY DEF Bytes
<1> HIDE DEF s, t, u, S
<1>4. \A i \in 1..Len(s \o t) : (s \o t)[i] = u[i]
  BY <1>2, <1>3
<1>5. s \o t = u
  BY <1>1, <1>2, <1>4, SeqEqual
<1> QED
  BY <1>5 DEF s, t, u

\* Runs from the start are equal exactly when they have the same length: whether the
\* wire holds the packet is a question of `sent' only (MQTTClient.c:81).
LEMMA BytesEqual ==
  ASSUME NEW n \in Nat, NEW k \in Nat
  PROVE  Bytes(0, n) = Bytes(0, k) <=> n = k
<1>1. Len(Bytes(0, n)) = n /\ Len(Bytes(0, k)) = k
  BY BytesSeq
<1> QED
  BY <1>1

-----------------------------------------------------------------------------
(* The invariant *)

\* Before the first write nothing is on the wire.
LEMMA InitInv == Init => Inv
<1> SUFFICES ASSUME Init PROVE Inv
  OBVIOUS
<1>1. wire = Bytes(0, 0)
  BY DEF Init, Bytes
<1>2. timer \in Timevals
  BY CountdownTakesTheTimeout, ClockAssumption DEF Init
<1> QED
  BY <1>1, <1>2, MaxLengthAssumption DEF Init, Inv, Running, SUCCESS, FAILURE

\* No round of the loop, error or return breaks Inv.
LEMMA NextInv == Inv /\ [Next]_vars => Inv'
<1> SUFFICES ASSUME Inv, [Next]_vars PROVE Inv'
  OBVIOUS
<1> USE DEF SUCCESS, FAILURE, Running
<1>1. CASE Write
  <2>1. PICK n \in 1..length : wire' = wire \o Bytes(sent, n) /\ sent' = sent + n
    BY <1>1 DEF Write
  <2>2. sent \in Nat /\ n \in Nat
    BY <2>1 DEF Inv
  <2>3. wire' = Bytes(0, sent')
    BY <2>1, <2>2, BytesJoin DEF Inv
  <2>4. sent' \in 0..(2 * length) /\ length' = length /\ rc' = Running
    BY <1>1, <2>1, MaxLengthAssumption DEF Inv, Write, InLoop
  <2> QED
    BY <1>1, <2>3, <2>4 DEF Inv, Write
<1>2. CASE WriteError
  <2>1. wire' = Bytes(0, sent')
    BY <1>2 DEF Inv, WriteError, Bytes
  <2> QED
    BY <1>2, <2>1 DEF Inv, WriteError, InLoop
<1>3. CASE Tick
  <2>1. wire' = Bytes(0, sent')
    BY <1>3 DEF Inv, Tick, Bytes
  <2> QED
    BY <1>3, <2>1 DEF Inv, Tick
<1>4. CASE Return
  <2>1. wire' = Bytes(0, sent')
    BY <1>4 DEF Inv, Return, Bytes
  <2> QED
    BY <1>4, <2>1 DEF Inv, Return
<1>5. CASE UNCHANGED vars
  <2>1. wire' = Bytes(0, sent')
    BY <1>5 DEF Inv, vars, Bytes
  <2> QED
    BY <1>5, <2>1 DEF Inv, vars
<1> QED
  BY <1>1, <1>2, <1>3, <1>4, <1>5 DEF Next, Thread

\* Inv holds throughout every execution of sendPacket.
THEOREM Invariance == Spec => []Inv
  BY InitInv, NextInv, PTL DEF Spec

-----------------------------------------------------------------------------
(* The properties *)

\* Type correctness of sendPacket (MQTTClient.c:51-89), for every packet length.
THEOREM TypeCorrect == Spec => []TypeOK
<1>1. Inv => TypeOK
  <2> SUFFICES ASSUME Inv PROVE TypeOK
    OBVIOUS
  <2>1. sent \in Nat /\ sent <= 2 * MaxLength
    BY MaxLengthAssumption DEF Inv
  <2>2. wire \in Seq(0..(2 * MaxLength))
    BY <2>1, MaxLengthAssumption DEF Inv, Bytes
  <2> QED
    BY <2>1, <2>2, MaxLengthAssumption DEF Inv, TypeOK
<1> QED
  BY <1>1, Invariance, PTL

\* However the kernel cuts the writes up, nothing of sendBuf is skipped or repeated
\* (MQTTClient.c:69, 79).
THEOREM NothingIsSkipped == Spec => []NothingSkipped
<1>1. Inv => NothingSkipped
  BY DEF Inv, NothingSkipped
<1> QED
  BY <1>1, Invariance, PTL

\* SUCCESS is returned exactly for the calls that put the packet on the wire, no less
\* and no more (MQTTClient.c:81-87).
THEOREM SuccessIsExact == Spec => []SuccessIffWholePacket
<1>1. Inv => SuccessIffWholePacket
  <2> SUFFICES ASSUME Inv PROVE SuccessIffWholePacket
    OBVIOUS
  <2>1. wire = Packet <=> sent = length
    BY BytesEqual DEF Inv, Packet
  <2> QED
    BY <2>1 DEF Inv, SuccessIffWholePacket
<1> QED
  BY <1>1, Invariance, PTL

\* With packets of at most half of sendBuf, no write reads behind it
\* (MQTTClient.c:69, stream.h:23).
THEOREM ReadsInside == Spec => []ReadsInsideSendBuf
<1>1. Inv => ReadsInsideSendBuf
  BY MaxLengthAssumption, SendBufSizeAssumption DEF Inv, ReadsInsideSendBuf, InLoop
<1> QED
  BY <1>1, Invariance, PTL

-----------------------------------------------------------------------------
(* Refinement *)

\* sendPacket implements AtomicSend: the loop of partial writes and the timer are
\* invisible to a caller, who sees one answer that is SUCCESS exactly when the packet
\* is out (MQTTClient.c:51-89).
THEOREM Refinement == Spec => ImplementsAtomicSend
<1> USE DEF SUCCESS, FAILURE, Running, Atomic!SUCCESS, Atomic!FAILURE, Atomic!Running
<1>1. Init => Atomic!Init
  BY DEF Init, Atomic!Init, onWire
<1>2. Inv /\ Inv' /\ [Next]_vars => [Atomic!Next]_<<rc, onWire>>
  <2> SUFFICES ASSUME Inv, Inv', [Next]_vars
               PROVE  [Atomic!Next]_<<rc, onWire>>
    OBVIOUS
  <2>1. CASE rc = Running /\ rc' = Running
    BY <2>1 DEF onWire
  <2>2. CASE rc = Running /\ rc' # Running
    <3>1. length' = length
      BY <2>2 DEF Next, Thread, Write, WriteError, Tick, Return, vars
    <3>2. wire' = Packet' <=> sent' = length'
      BY BytesEqual DEF Inv, Packet
    <3>3. wire' # << >> \/ sent' # length'
      <4>1. Len(Bytes(0, sent')) = sent'
        BY BytesSeq DEF Inv
      <4> QED
        BY <4>1 DEF Inv
    <3>4. CASE rc' = SUCCESS
      <4>1. onWire' = "packet"
        BY <3>2, <3>3, <3>4 DEF Inv, onWire
      <4> QED
        BY <2>2, <3>4, <4>1 DEF Atomic!Next, Atomic!Succeed
    <3>5. CASE rc' = FAILURE
      <4>1. onWire' \in {"nothing", "other"}
        BY <3>2, <3>5 DEF Inv, onWire
      <4> QED
        BY <2>2, <3>5, <4>1 DEF Atomic!Next, Atomic!Fail
    <3> QED
      BY <2>2, <3>4, <3>5 DEF Inv
  <2>3. CASE rc # Running
    <3>1. UNCHANGED vars
      BY <2>3 DEF Next, Thread, Write, WriteError, Tick, Return, InLoop, vars
    <3>2. UNCHANGED Packet
      BY <3>1 DEF Packet, Bytes, vars
    <3> QED
      BY <3>1, <3>2 DEF onWire, vars
  <2> QED
    BY <2>1, <2>2, <2>3
<1> QED
  BY <1>1, <1>2, Invariance, PTL DEF Spec, ImplementsAtomicSend, Atomic!Spec
=============================================================================
