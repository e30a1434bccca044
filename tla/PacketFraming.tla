--------------------------- MODULE PacketFraming ---------------------------
(***************************************************************************)
(* From bytes to packets: the I/O thread's srecv (libiot.a), which appends  *)
(* what a read returns to stream->inbuf, and readOnePacket, decodePacket    *)
(* and the recursion of mqttdoNextPacket (MQTTClient.c), which take packets *)
(* out of it.                                                               *)
(*                                                                         *)
(* A byte is a number below 2 * Base: the upper half has the continuation   *)
(* bit of a length byte.  In the code Base is 128 and the packet type is    *)
(* the upper half of the header byte; here Base is small, so that lengths   *)
(* of two bytes fit a small model, and the header byte is the type.         *)
(***************************************************************************)
EXTENDS Integers, Sequences

CONSTANTS
  Base,           \* 128 in MQTTClient.c:172-174
  Sent,           \* the packets the broker sends
  InBufSize,      \* sizeof(stream->inbuf), 5 * 1024
  PacketBufSize,  \* sizeof(ClientStream_t.packetBuf), 1024
  ReadSize,       \* sizeof(buffer) - 1 in srecv, 1023
  Coalesced,      \* FALSE: bytes of a packet only arrive when srecv has read the
                  \* one before, or waits for more than has arrived
  SplitHeaders    \* a read may end inside the fixed header of the first
                  \* SplitHeaders packets

Byte == 0..(2 * Base - 1)

ASSUME BaseAssumption == Base \in Nat /\ Base >= 8

\* MQTTPacket_encode: at most four digits, each with a continuation bit but the last
MaxRemLen == Base * Base * Base * Base - 1
Encoding(n) ==
  LET q1 == n \div Base
      q2 == q1 \div Base
      q3 == q2 \div Base
      size == IF q1 = 0 THEN 1 ELSE IF q2 = 0 THEN 2 ELSE IF q3 = 0 THEN 3 ELSE 4
  IN  [i \in 1..size |-> (<<n, q1, q2, q3>>[i] % Base) + (IF i < size THEN Base ELSE 0)]

\* What a broker sends: a header byte, the length of the rest, and the rest
Packets == {p \in Seq(Byte) :
              \E rem \in 0..MaxRemLen :
                /\ Len(p) = 1 + Len(Encoding(rem)) + rem
                /\ \A i \in DOMAIN Encoding(rem) : p[i + 1] = Encoding(rem)[i]}

ASSUME SentAssumption == Sent \in Seq(Packets)
\* the longest packet that packetBuf takes is read at once
ASSUME SizeAssumption ==
  /\ InBufSize \in Nat /\ PacketBufSize \in Nat /\ ReadSize \in Nat
  /\ 5 <= ReadSize /\ PacketBufSize <= ReadSize + 1
  /\ 5 <= PacketBufSize /\ PacketBufSize + 4 <= InBufSize /\ ReadSize < InBufSize
ASSUME RegimeAssumption == Coalesced \in BOOLEAN /\ SplitHeaders \in Nat

VARIABLES
  cut,       \* bytes of the stream the broker sends before it closes; set at the start
  arrived,   \* bytes of the stream that have reached the client's kernel
  taken,     \* bytes of it that srecv has read
  inbuf, inSize, needread,
  pc,        \* "select": in select or read; "parse": in mqttdoNextPacket; "ended"
  got        \* the packets handled

vars == <<cut, arrived, taken, inbuf, inSize, needread, pc, got>>

-----------------------------------------------------------------------------
(* The stream *)

\* Ends[k]: where the k-th packet ends
Ends[k \in 0..Len(Sent)] == IF k = 0 THEN 0 ELSE Ends[k - 1] + Len(Sent[k])
Total == Ends[Len(Sent)]
\* The packet byte i (from 1) belongs to, and the byte
PacketOf(i) == CHOOSE k \in 1..Len(Sent) : Ends[k - 1] < i /\ i <= Ends[k]
Stream(i) == Sent[PacketOf(i)][i - Ends[PacketOf(i) - 1]]

\* Bytes of the fixed header of packet k
HeaderSize(k) == 1 + (CHOOSE n \in 1..4 : /\ Sent[k][n + 1] < Base
                                         /\ \A j \in 1..(n - 1) : Sent[k][j + 1] >= Base)

\* After n bytes the stream stands inside a fixed header that must not be cut
InsideHeader(n) ==
  n < Total /\ LET k == PacketOf(n + 1)
               IN  /\ k > SplitHeaders
                   /\ n > Ends[k - 1] /\ n < Ends[k - 1] + HeaderSize(k)

-----------------------------------------------------------------------------
Init == /\ cut \in {n \in 0..Total : ~InsideHeader(n)}
        /\ arrived = 0 /\ taken = 0
        /\ inbuf = [i \in 0..(InBufSize - 1) |-> 0]
        /\ inSize = 0 /\ needread = 0
        /\ pc = "select" /\ got = << >>

Available == arrived - taken

\* TCP hands over more of the stream, cut anywhere the regime allows
Arrive ==
  /\ \E n \in (arrived + 1)..cut :
        /\ ~Coalesced =>
             n <= Ends[PacketOf(IF needread > Available THEN arrived + 1 ELSE taken + 1)]
        /\ ~InsideHeader(n)
        /\ arrived' = n
  /\ UNCHANGED <<cut, taken, inbuf, inSize, needread, pc, got>>

\* memcpy(inbuf + inSize, buffer, n) and the callback; without room the bytes are
\* dropped and the callback is not called
Take(n) ==
  /\ taken' = taken + n
  /\ IF inSize + n + 1 > InBufSize
     THEN UNCHANGED <<inbuf, inSize, pc>>
     ELSE /\ inbuf' = [i \in DOMAIN inbuf |->
                         IF i \in inSize..(inSize + n - 1)
                         THEN Stream(taken + i - inSize + 1) ELSE inbuf[i]]
          /\ inSize' = inSize + n /\ pc' = "parse"
  /\ UNCHANGED <<cut, arrived, got>>

\* srecv, needread = 0: one read, of what is there
ReadSome == /\ pc = "select" /\ needread = 0 /\ Available > 0
            /\ Take(IF Available < ReadSize THEN Available ELSE ReadSize)
            /\ UNCHANGED needread

\* srecv, needread > 0: reads until it has exactly that many bytes
ReadNeeded == /\ pc = "select" /\ needread > 0 /\ Available >= needread
              /\ Take(needread) /\ needread' = 0

\* srecv, needread = 0: read returns 0.  inbuf is emptied, and mqttdoNextPacket takes an
\* empty inbuf for the end of the connection.  With needread > 0 srecv reads those 0 bytes
\* again and again, which is no step
ReadEnd == /\ pc = "select" /\ needread = 0 /\ taken = cut
           /\ inbuf' = [i \in DOMAIN inbuf |-> 0] /\ inSize' = 0 /\ pc' = "ended"
           /\ UNCHANGED <<cut, arrived, taken, needread, got>>

-----------------------------------------------------------------------------
(* readOnePacket *)

\* decodePacket: up to four bytes from inbuf[1] on, whether inSize covers them or not
Continues(i) == inbuf[i] >= Base
LengthBytes == CHOOSE n \in 1..4 : /\ \A j \in 1..(n - 1) : Continues(j)
                                   /\ n = 4 \/ ~Continues(n)
Digit(i) == IF i <= LengthBytes THEN inbuf[i] % Base ELSE 0
MutMultiplier == Digit(1) + Digit(2) * (Base - 1) + Digit(3) * Base * Base
                 + Digit(4) * Base * Base * Base
RemLen == Digit(1) + Digit(2) * Base + Digit(3) * Base * Base
          + Digit(4) * Base * Base * Base
InStart == 1 + LengthBytes                            \* instartPos

\* behind the header and the length, encoded anew, in packetBuf
MutAlwaysFits == TRUE
Fits == RemLen <= PacketBufSize - 1 - Len(Encoding(RemLen))
MutAlwaysComplete == TRUE
Complete == inSize - InStart >= RemLen

\* what inbuf holds given up on an overflow
MutGivenUp == /\ pc = "parse" /\ ~Fits /\ pc' = "select" /\ inSize' = 0
              /\ UNCHANGED <<cut, arrived, taken, inbuf, needread, got>>

\* BUFFER_OVERFLOW: nothing is consumed, no session is closed
TooLong == /\ pc = "parse" /\ ~Fits /\ pc' = "select"
           /\ UNCHANGED <<cut, arrived, taken, inbuf, inSize, needread, got>>

\* the whole body asked for again
MutAllAgain == /\ pc = "parse" /\ Fits /\ ~Complete
               /\ needread' = RemLen /\ pc' = "select"
               /\ UNCHANGED <<cut, arrived, taken, inbuf, inSize, got>>

\* NEEDREAD: srecv is to read what is missing
NeedMore == /\ pc = "parse" /\ Fits /\ ~Complete
            /\ needread' = RemLen - (inSize - InStart) /\ pc' = "select"
            /\ UNCHANGED <<cut, arrived, taken, inbuf, inSize, got>>

\* The types mqttdoNextPacket has a case for, 0 included; with any other it returns
\* without looking at the rest of inbuf
HasCase(type) == type \in {0, 2, 3, 4, 5, 6, 7, 9, 11, 13}

\* The packet goes to packetBuf and is handled.  The rest is copied from the start of
\* inbuf to the start of inbuf (852-853), so inbuf stays as it is, with a smaller inSize;
\* if there is a rest, mqttdoNextPacket calls itself
PacketDone ==
  /\ pc = "parse" /\ Fits /\ Complete
  /\ got' = Append(got, <<inbuf[0]>> \o Encoding(RemLen)
                          \o [i \in 1..RemLen |-> inbuf[InStart + i - 1]])
  /\ inSize' = inSize - InStart - RemLen
  /\ pc' = IF inSize' > 0 /\ HasCase(inbuf[0]) THEN "parse" ELSE "select"
  /\ UNCHANGED <<cut, arrived, taken, inbuf, needread>>

Io == ReadSome \/ ReadNeeded \/ ReadEnd \/ TooLong \/ NeedMore \/ PacketDone
Next == Arrive \/ Io

Spec == Init /\ [][Next]_vars

\* The I/O thread is scheduled and TCP delivers
FairSpec == Spec /\ WF_vars(Io) /\ WF_vars(Arrive)

-----------------------------------------------------------------------------
(* Properties *)

\* srecv's local buffer takes the needread bytes it is asked for (MQTTClient.c:822).
TypeOK == /\ cut \in 0..Total /\ arrived \in 0..cut /\ taken \in 0..arrived
          /\ inbuf \in [0..(InBufSize - 1) -> Byte]
          /\ inSize \in 0..(InBufSize - 1)
          /\ needread \in 0..ReadSize
          /\ pc \in {"select", "parse", "ended"}
          /\ got \in Seq(Seq(Byte))

\* What is handled are the packets the broker sent, each once and in order, however TCP
\* cuts the stream (README.md:10: stream transport; MQTTClient.c:757-762).
FramesInOrder ==
  Len(got) <= Len(Sent) /\ \A k \in DOMAIN got : got[k] = Sent[k]

\* packets that packetBuf does not take
TooBig(k) == Len(Sent[k]) > PacketBufSize

\* Between two packets inbuf holds exactly the bytes read and not handled, from its
\* start on (MQTTClient.c:844-856), until a packet comes that does not fit.
BufferIsUnhandledBytes ==
  LET first == Ends[Len(got)]
  IN  \/ Len(got) < Len(Sent) /\ TooBig(Len(got) + 1)
      \/ /\ taken = first + inSize
         /\ \A i \in 0..(inSize - 1) : inbuf[i] = Stream(first + i + 1)

\* A packet longer than packetBuf is never skipped: from then on nothing is handled,
\* while srecv goes on reading until inbuf is full (MQTTClient.c:814-818, 769-772).  Only
\* the end of the connection empties it.
Stuck == inSize >= InStart /\ ~Fits
OverlongStopsReading == [][Stuck => got' = got /\ (inSize' >= inSize \/ pc' = "ended")]_vars

\* The reader implements PacketChannel for the packets the broker sends whole, up to the first
\* that packetBuf does not take, wherever the connection ends (MQTTClient.c:151-184, 243-298,
\* 757-762).
Whole == CHOOSE k \in 0..Len(Sent) :
           /\ Ends[k] <= cut /\ \A j \in 1..k : ~TooBig(j)
           /\ k = Len(Sent) \/ Ends[k + 1] > cut \/ TooBig(k + 1)
Channel == INSTANCE PacketChannel WITH Sent <- SubSeq(Sent, 1, Whole), got <- got
ImplementsChannel == Channel!Spec

\* And it handles all of them in the end: none is left in inbuf, or waited for when it is
\* there (MQTTClient.c:814-843); and the end of the connection ends the loop of the I/O thread,
\* if it does not come inside a packet: there srecv waits for the rest for ever
\* (iot_mqttclient.c:96-104, MQTTClient.c:622-628).
AllAreHandled == /\ <>[](Len(got) = Whole)
                 /\ (cut = Ends[Whole]) ~> (pc = "ended")
=============================================================================
