---------------------------- MODULE PacketReader ----------------------------
(***************************************************************************)
(* MQTTPacket_readnb (src/mqtt/MQTTPacket.c:362): reads one packet after    *)
(* another from a transport that may have nothing, or only a part, at any   *)
(* call.  What it has is kept in a MQTTTransport between the calls.  A step *)
(* is one call of trp->getfn; when getfn has nothing, readnb returns 0 and  *)
(* the next call comes back to the same getfn, so that is no step.          *)
(***************************************************************************)
EXTENDS PacketCodecs

CONSTANT BufLen       \* the length of the caller's buffer

\* a fixed header is put into the buffer before its size is compared
ASSUME BufLenAssumption == BufLen \in Nat /\ BufLen >= 5

VARIABLES
  stream,      \* the bytes the other side sends
  taken,       \* how many of them getfn has returned
  state, multiplier, rem_len, len,     \* MQTTTransport
  buf,         \* the caller's buffer
  rc,          \* what readnb returned last: a packet type, 0 or -1
  got          \* the packets the caller was given

trp == <<state, multiplier, rem_len, len>>
vars == <<stream, taken, trp, buf, rc, got>>

ReaderInit == /\ taken = 0 /\ state = 0 /\ multiplier = 0 /\ rem_len = 0 /\ len = 0
              /\ buf = [i \in 1..BufLen |-> 0] /\ rc = 0 /\ got = << >>

Calling == rc # -1                     \* a caller gives up at the first error
HasMore == taken < Len(stream)
Char == stream[taken + 1]

Fail == rc' = -1 /\ state' = 0 /\ UNCHANGED got
CallAgain == rc' = 0 /\ UNCHANGED got
\* the packet is in buf[1 .. n]
Complete(n) == /\ rc' = TypeOf(buf'[1]) /\ state' = 0
               /\ got' = Append(got, SubSeq(buf', 1, n))

ReadHeader ==
  /\ Calling /\ state = 0 /\ HasMore
  /\ buf' = [buf EXCEPT ![1] = Char] /\ taken' = taken + 1
  /\ len' = 0 /\ state' = 1 /\ CallAgain
  /\ UNCHANGED <<stream, multiplier, rem_len>>

\* MQTTPacket_decodenb before its getfn
LengthTooLong == /\ Calling /\ state = 1 /\ len >= 4 /\ Fail
                 /\ UNCHANGED <<stream, taken, multiplier, rem_len, len, buf>>

\* multiplier and rem_len are initialised when there is no length byte yet
FirstLengthByte == len = 0
MutFits(n) == TRUE
Fits(n) == n <= BufLen

\* The last length byte ends decodenb: the length goes back into the buffer, encoded
\* anew, and the packet must fit
ReadLength ==
  /\ Calling /\ state = 1 /\ len < 4 /\ HasMore
  /\ taken' = taken + 1
  /\ LET mul == IF FirstLengthByte THEN 1 ELSE multiplier
         rem == (IF FirstLengthByte THEN 0 ELSE rem_len) + (Char % 128) * mul
         n == 1 + EncodeSize(rem)
     IN  /\ multiplier' = mul * 128 /\ rem_len' = rem
         /\ IF Char >= 128
            THEN len' = len + 1 /\ CallAgain /\ UNCHANGED <<state, buf>>
            ELSE /\ len' = n
                 /\ buf' = [i \in DOMAIN buf |->
                              IF i \in 2..n THEN MQTTPacket_encode(rem)[i - 1] ELSE buf[i]]
                 /\ IF ~Fits(rem + n) THEN Fail
                    ELSE IF rem = 0 THEN Complete(n) ELSE state' = 2 /\ CallAgain
  /\ UNCHANGED stream

\* any part taken for the rest
MutReadBody ==
  /\ Calling /\ state = 2 /\ HasMore
  /\ \E n \in 1..rem_len :
       /\ n <= Len(stream) - taken
       /\ buf' = [i \in DOMAIN buf |->
                    IF i \in (len + 1)..(len + n) THEN stream[taken + i - len] ELSE buf[i]]
       /\ taken' = taken + n /\ len' = len + n /\ rem_len' = rem_len - n
       /\ Complete(len + n)
  /\ UNCHANGED <<stream, multiplier>>
\* getfn returns any part of what is missing
ReadBody ==
  /\ Calling /\ state = 2 /\ HasMore
  /\ \E n \in 1..rem_len :
       /\ n <= Len(stream) - taken
       /\ buf' = [i \in DOMAIN buf |->
                    IF i \in (len + 1)..(len + n) THEN stream[taken + i - len] ELSE buf[i]]
       /\ taken' = taken + n /\ len' = len + n /\ rem_len' = rem_len - n
       /\ IF n = rem_len THEN Complete(len + n) ELSE CallAgain /\ UNCHANGED state
  /\ UNCHANGED <<stream, multiplier>>

\* getfn returns -1
ReadFails == /\ Calling /\ Fail
             /\ UNCHANGED <<stream, taken, multiplier, rem_len, len, buf>>

ReaderNext == ReadHeader \/ LengthTooLong \/ ReadLength \/ ReadBody \/ ReadFails

-----------------------------------------------------------------------------
\* a packet that just fits refused
MutBlockingRead(s, p) ==
  LET rem == MQTTPacket_decodeBuf(s, p + 1).value
      first == p + 1 + MQTTPacket_decodeBuf(s, p + 1).len
      head == <<s[p]>> \o MQTTPacket_encode(rem)
  IN  IF Len(head) + rem >= BufLen THEN << >>
      ELSE head \o SubSeq(s, first, first + rem - 1)
\* MQTTPacket_read on a transport that blocks until it has what is asked for: the packet
\* that starts at index p of s, or << >> for an error.  A length of more than four bytes
\* is taken to end with the fourth
MQTTPacket_read(s, p) ==
  LET rem == MQTTPacket_decodeBuf(s, p + 1).value
      size == MQTTPacket_decodeBuf(s, p + 1).len
      first == p + 1 + (IF size = 5 THEN 4 ELSE size)
      head == <<s[p]>> \o MQTTPacket_encode(rem)
  IN  IF Len(head) + rem > BufLen THEN << >>
      ELSE head \o SubSeq(s, first, first + rem - 1)
=============================================================================
