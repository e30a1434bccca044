------------------------------- MODULE Timers -------------------------------
(***************************************************************************)
(* The timers of src/mqtt/MQTTLinux.c: a Timer is the struct timeval at     *)
(* which it expires, and every operation on it first asks gettimeofday for  *)
(* the time, here the argument `now'.                                       *)
(***************************************************************************)
EXTENDS Integers

Timevals == [sec : Int, usec : {u \in Nat : u < 1000000}]
Timeval(s, u) == [sec |-> s, usec |-> u]

UnsignedInts == {n \in Nat : n \div 65536 < 65536}

\* The value of an int the 64-bit x is returned as
IntMin == -(65536 * 32768)
AsInt(x) == ((x - IntMin) % (65536 * 65536)) + IntMin

\* timeradd and timersub of sys/time.h carry between the two fields
timeradd(a, b) == LET u == a.usec + b.usec
                      s == a.sec + b.sec
                  IN IF u >= 1000000 THEN Timeval(s + 1, u - 1000000) ELSE Timeval(s, u)
timersub(a, b) == LET u == a.usec - b.usec
                      s == a.sec - b.sec
                  IN IF u < 0 THEN Timeval(s - 1, u + 1000000) ELSE Timeval(s, u)

TimerInit == Timeval(0, 0)

TimerIsExpired(end_time, now) ==
  LET res == timersub(end_time, now)
  IN res.sec < 0 \/ (res.sec = 0 /\ res.usec <= 0)

TimerCountdownMS(timeout, now) ==
  timeradd(now, Timeval(timeout \div 1000, (timeout % 1000) * 1000))

TimerCountdown(timeout, now) == timeradd(now, Timeval(timeout, 0))

TimerLeftMS(end_time, now) ==
  LET res == timersub(end_time, now)
  IN IF res.sec < 0 THEN 0 ELSE AsInt(res.sec * 1000 + res.usec \div 1000)
=============================================================================
