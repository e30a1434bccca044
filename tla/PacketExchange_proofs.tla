------------------------ MODULE PacketExchange_proofs ------------------------
(***************************************************************************)
(* What the two sides of src/mqtt make of each other's packets, for every   *)
(* conversation of messages that can be sent: the reader stays within the   *)
(* caller's buffer, gives away the packets that were sent, whole and in     *)
(* order, and the readers of the packets find in them what the writers were *)
(* given.                                                                   *)
(***************************************************************************)
EXTENDS PacketExchange, PacketCodecs_proofs, FiniteSetTheorems

-----------------------------------------------------------------------------
(* The reader stays within the caller's buffer *)

TypeInv ==
  /\ TypeOK /\ stream \in Seq(Byte) /\ got \in Seq(Seq(Byte))
  /\ state = 1 => /\ len \in 0..4
                  /\ len > 0 => multiplier = 128 * Pow128[len] /\ rem_len < multiplier
  /\ state = 2 => len >= 2

\* A packet that is given away is made of bytes, and no longer than the buffer.
LEMMA Completed ==
  ASSUME TypeInv, buf' \in [1..BufLen -> Byte], NEW n \in 2..BufLen, Complete(n)
  PROVE  /\ rc' \in -1..15 /\ state' = 0 /\ got' \in Seq(Seq(Byte))
         /\ \A k \in DOMAIN got' : got'[k] \in Seq(Byte) /\ Len(got'[k]) \in 2..BufLen
<1>1. buf'[1] \in Byte /\ rc' = TypeOf(buf'[1]) /\ state' = 0
      /\ got' = Append(got, SubSeq(buf', 1, n))
  BY BufLenAssumption DEF Complete
<1>2. rc' \in -1..15
  <2>1. \A b \in Byte : TypeOf(b) \in -1..15
    BY DEF TypeOf, Bits, Byte
  <2> QED
    BY <1>1, <2>1
<1>3. SubSeq(buf', 1, n) \in Seq(Byte) /\ Len(SubSeq(buf', 1, n)) = n
  <2>1. \A i \in 1..n : buf'[i] \in Byte
    BY BufLenAssumption
  <2> QED
    BY <2>1, SubSeqProperties
<1>4. got \in Seq(Seq(Byte)) /\ \A k \in DOMAIN got : Len(got[k]) \in 2..BufLen
  BY DEF TypeInv, TypeOK
<1>5. /\ got' \in Seq(Seq(Byte)) /\ Len(got') = Len(got) + 1
      /\ \A k \in 1..Len(got) : got'[k] = got[k]
      /\ got'[Len(got) + 1] = SubSeq(buf', 1, n)
  BY <1>1, <1>3, <1>4, AppendProperties
<1>6. ASSUME NEW k \in DOMAIN got' PROVE got'[k] \in Seq(Byte) /\ Len(got'[k]) \in 2..BufLen
  <2>1. k \in 1..(Len(got) + 1) /\ Len(got) \in Nat /\ DOMAIN got = 1..Len(got)
    BY <1>4, <1>5, LenProperties
  <2>2. CASE k = Len(got) + 1
    BY <1>3, <1>5, <2>2
  <2>3. CASE k \in 1..Len(got)
    BY <1>4, <1>5, <2>1, <2>3, ElementOfSeq
  <2> QED
    BY <2>1, <2>2, <2>3
<1> QED
  BY <1>1, <1>2, <1>5, <1>6

\* What one byte of the remaining length adds to it.
LEMMA LengthGrows ==
  ASSUME NEW l \in 0..3, NEW r \in Nat, r < Pow128[l + 1], NEW c \in Byte
  PROVE  LET rem == r + (c % 128) * Pow128[l + 1]
         IN  rem \in Nat /\ rem < 128 * Pow128[l + 1] /\ rem <= MaxRemLen
<1>1. c % 128 \in 0..127
  BY DEF Byte
<1>2. CASE l = 0
  BY SMT, <1>1, <1>2 DEF Pow128, MaxRemLen
<1>3. CASE l = 1
  BY SMT, <1>1, <1>3 DEF Pow128, MaxRemLen
<1>4. CASE l = 2
  BY SMT, <1>1, <1>4 DEF Pow128, MaxRemLen
<1>5. CASE l = 3
  BY SMT, <1>1, <1>5 DEF Pow128, MaxRemLen
<1> QED
  BY <1>2, <1>3, <1>4, <1>5

\* The multiplier and the length before a length byte.
Mul == IF FirstLengthByte THEN 1 ELSE multiplier
Rem == (IF FirstLengthByte THEN 0 ELSE rem_len) + (Char % 128) * Mul

\* multiplier is the weight of the length byte that comes next ...
LEMMA LengthByte ==
  ASSUME TypeInv, state = 1, len < 4, HasMore
  PROVE  /\ Char \in Byte /\ Mul = Pow128[len + 1] /\ len \in 0..3
         /\ Rem \in Nat /\ Rem < 128 * Mul /\ Rem <= MaxRemLen
<1>1. len \in 0..3 /\ taken + 1 \in 1..Len(stream) /\ stream \in Seq(Byte)
  BY LenProperties DEF TypeInv, TypeOK, HasMore
<1>2. Char \in Byte
  BY <1>1, ElementOfSeq DEF Char
<1>3. Mul = Pow128[len + 1]
  BY SMT, <1>1 DEF Mul, FirstLengthByte, TypeInv, Pow128
<1> DEFINE r == IF FirstLengthByte THEN 0 ELSE rem_len
<1>4. r \in Nat /\ r < Pow128[len + 1]
  <2>1. CASE len = 0
    BY SMT, <2>1 DEF FirstLengthByte, Pow128
  <2>2. CASE len \in 1..3
    <3>1. multiplier = Pow128[len + 1]
      BY <2>2, <1>3 DEF Mul, FirstLengthByte
    <3>2. rem_len \in Nat /\ rem_len < multiplier
      <4>1. rem_len \in 0..MaxRemLen
        BY DEF TypeInv, TypeOK
      <4>2. rem_len < multiplier
        BY <2>2 DEF TypeInv
      <4> QED
        BY <4>1, <4>2
    <3> QED
      BY <2>2, <3>1, <3>2 DEF FirstLengthByte
  <2> QED
    BY <1>1, <2>1, <2>2
<1>5. Rem = r + (Char % 128) * Pow128[len + 1]
  BY <1>3 DEF Rem
<1> HIDE DEF r
<1> QED
  BY <1>1, <1>2, <1>3, <1>4, <1>5, LengthGrows

\* ... and this is what reading it does.
LEMMA LengthBytes ==
  ASSUME TypeInv, ReadLength
  PROVE  /\ taken' = taken + 1 /\ multiplier' = Mul * 128 /\ rem_len' = Rem /\ UNCHANGED stream
         /\ LET n == 1 + EncodeSize(Rem)
            IN  IF Char >= 128
                THEN len' = len + 1 /\ CallAgain /\ UNCHANGED <<state, buf>>
                ELSE /\ len' = n
                     /\ buf' = [i \in 1..BufLen |->
                                  IF i \in 2..n THEN MQTTPacket_encode(Rem)[i - 1] ELSE buf[i]]
                     /\ IF ~(Rem + n <= BufLen) THEN Fail
                        ELSE IF Rem = 0 THEN Complete(n) ELSE state' = 2 /\ CallAgain
<1>1. DOMAIN buf = 1..BufLen
  BY DEF TypeInv, TypeOK
<1> QED
  BY <1>1 DEF ReadLength, Mul, Rem, Fits

\* A length that is too long for the buffer ends the packet before a byte of it is stored.
LEMMA ReadLengthTypes ==
  ASSUME TypeInv, ReadLength
  PROVE  TypeInv'
<1> DEFINE n == 1 + EncodeSize(Rem)
<1>0. state = 1 /\ len < 4 /\ HasMore /\ taken' = taken + 1 /\ UNCHANGED stream
  BY DEF ReadLength
<1>1. /\ Char \in Byte /\ Mul = Pow128[len + 1] /\ len \in 0..3
      /\ Rem \in Nat /\ Rem < 128 * Mul /\ Rem <= MaxRemLen
  BY <1>0, LengthByte
<1>2. /\ multiplier' = Mul * 128 /\ rem_len' = Rem
      /\ IF Char >= 128
         THEN len' = len + 1 /\ CallAgain /\ UNCHANGED <<state, buf>>
         ELSE /\ len' = n
              /\ buf' = [i \in 1..BufLen |->
                           IF i \in 2..n THEN MQTTPacket_encode(Rem)[i - 1] ELSE buf[i]]
              /\ IF ~(Rem + n <= BufLen) THEN Fail
                 ELSE IF Rem = 0 THEN Complete(n) ELSE state' = 2 /\ CallAgain
  BY LengthBytes
<1>3. taken' \in 0..Len(stream') /\ stream' \in Seq(Byte)
  BY <1>0, LenProperties DEF TypeInv, TypeOK, HasMore
<1>4. rem_len' \in 0..MaxRemLen /\ multiplier' = 128 * Pow128[len + 1]
      /\ multiplier' \in {0} \cup {128 * Pow128[i] : i \in 1..4}
  <2>1. Mul * 128 = 128 * Mul /\ len + 1 \in 1..4
    BY SMT, <1>1 DEF Pow128
  <2>2. rem_len' \in 0..MaxRemLen
    BY <1>1, <1>2
  <2>3. multiplier' = 128 * Pow128[len + 1]
    BY <1>1, <1>2, <2>1
  <2>4. multiplier' \in {128 * Pow128[i] : i \in 1..4}
    BY <2>1, <2>3
  <2> QED
    BY <2>2, <2>3, <2>4
<1>5. n \in 2..5 /\ n \in 0..BufLen
  BY <1>1, EncodedBytes, BufLenAssumption
<1>6. CASE Char >= 128
  <2>1. len' = len + 1 /\ rc' = 0 /\ got' = got /\ state' = 1 /\ buf' = buf
    BY <1>0, <1>2, <1>6 DEF CallAgain
  <2>2. len' \in 0..4 /\ len' \in 0..BufLen /\ len' > 0
    BY <1>1, <2>1, BufLenAssumption
  <2>3. multiplier' = 128 * Pow128[len'] /\ rem_len' < multiplier'
    BY <1>1, <1>2, <1>4, <2>1
  <2> QED
    BY <1>3, <1>4, <2>1, <2>2, <2>3 DEF TypeInv, TypeOK
<1>7. CASE ~(Char >= 128)
  <2>1. len' = n /\ buf' = [i \in 1..BufLen |->
                              IF i \in 2..n THEN MQTTPacket_encode(Rem)[i - 1] ELSE buf[i]]
    BY <1>2, <1>7
  <2>2. buf' \in [1..BufLen -> Byte]
    <3>1. \A i \in 2..n : MQTTPacket_encode(Rem)[i - 1] \in Byte
      BY <1>1, <1>5, EncodedBytes
    <3>2. \A i \in 1..BufLen : buf[i] \in Byte
      BY DEF TypeInv, TypeOK
    <3> HIDE DEF n
    <3> QED
      BY <2>1, <3>1, <3>2
  <2>3. CASE ~(Rem + n <= BufLen)
    <3>1. rc' = -1 /\ state' = 0 /\ got' = got
      BY <1>2, <1>7, <2>3 DEF Fail
    <3> HIDE DEF n
    <3> QED
      BY <1>3, <1>4, <1>5, <2>1, <2>2, <3>1 DEF TypeInv, TypeOK
  <2>4. CASE Rem + n <= BufLen /\ Rem = 0
    <3>1. Complete(n) /\ n \in 2..BufLen
      BY <1>2, <1>5, <1>7, <2>4
    <3> HIDE DEF n
    <3>2. /\ rc' \in -1..15 /\ state' = 0 /\ got' \in Seq(Seq(Byte))
          /\ \A k \in DOMAIN got' : got'[k] \in Seq(Byte) /\ Len(got'[k]) \in 2..BufLen
      BY <2>2, <3>1, Completed
    <3> QED
      BY <1>3, <1>4, <1>5, <2>1, <2>2, <3>2 DEF TypeInv, TypeOK
  <2>5. CASE Rem + n <= BufLen /\ Rem # 0
    <3>1. state' = 2 /\ rc' = 0 /\ got' = got
      BY <1>2, <1>7, <2>5 DEF CallAgain
    <3>2. rem_len' > 0 /\ len' + rem_len' <= BufLen
      BY <1>1, <1>2, <1>5, <2>1, <2>5
    <3> HIDE DEF n
    <3> QED
      BY <1>3, <1>4, <1>5, <2>1, <2>2, <3>1, <3>2 DEF TypeInv, TypeOK
  <2> QED
    BY <2>3, <2>4, <2>5
<1> QED
  BY <1>6, <1>7

\* Whatever part of the rest comes, it is stored behind what is there.
LEMMA ReadBodyTypes ==
  ASSUME TypeInv, ReadBody
  PROVE  TypeInv'
<1>1. PICK n \in 1..rem_len :
        /\ n <= Len(stream) - taken
        /\ buf' = [i \in DOMAIN buf |->
                     IF i \in (len + 1)..(len + n) THEN stream[taken + i - len] ELSE buf[i]]
        /\ taken' = taken + n /\ len' = len + n /\ rem_len' = rem_len - n
        /\ IF n = rem_len THEN Complete(len + n) ELSE CallAgain /\ UNCHANGED state
  BY DEF ReadBody
<1>2. /\ state = 2 /\ UNCHANGED <<stream, multiplier>>
      /\ taken \in Nat /\ len \in Nat /\ rem_len \in Nat /\ n \in Nat /\ n >= 1 /\ n <= rem_len
      /\ len + rem_len <= BufLen /\ Len(stream) \in Nat /\ stream \in Seq(Byte) /\ BufLen \in Nat
      /\ taken + n <= Len(stream) /\ rem_len <= MaxRemLen
  <2>1. Len(stream) \in Nat
    BY LenProperties DEF TypeInv
  <2> QED
    BY SMTT(30), <1>1, <2>1, BufLenAssumption DEF ReadBody, TypeInv, TypeOK
<1>3. buf' \in [1..BufLen -> Byte]
  <2>1. ASSUME NEW i \in (len + 1)..(len + n) PROVE stream[taken + i - len] \in Byte
    <3>1. taken + i - len \in 1..Len(stream)
      BY <1>2
    <3> QED
      BY <1>2, <3>1, ElementOfSeq
  <2>2. DOMAIN buf = 1..BufLen /\ \A i \in 1..BufLen : buf[i] \in Byte
    BY DEF TypeInv, TypeOK
  <2> QED
    BY <1>1, <2>1, <2>2
<1>4. /\ taken' \in 0..Len(stream') /\ len' \in 0..BufLen /\ rem_len' \in 0..MaxRemLen
      /\ stream' \in Seq(Byte) /\ multiplier' = multiplier
  <2>1. rem_len - n \in Nat /\ (rem_len <= MaxRemLen => rem_len - n <= MaxRemLen)
    <3>1. MaxRemLen \in Int
      BY SMT DEF MaxRemLen
    <3> QED BY <1>2, <3>1
  <2>2. taken + n \in 0..Len(stream) /\ len + n \in 0..BufLen
    BY <1>2
  <2> QED
    BY <1>1, <1>2, <2>1, <2>2
<1>5. CASE n = rem_len
  <2>1. Complete(len + n)
    BY <1>1, <1>5
  <2>2. len + n \in 2..BufLen
    BY <1>2, <1>5 DEF TypeInv
  <2>3. /\ rc' \in -1..15 /\ state' = 0 /\ got' \in Seq(Seq(Byte))
        /\ \A k \in DOMAIN got' : got'[k] \in Seq(Byte) /\ Len(got'[k]) \in 2..BufLen
    BY <1>3, <2>1, <2>2, Completed
  <2> QED
    BY <1>3, <1>4, <2>3 DEF TypeInv, TypeOK
<1>6. CASE n # rem_len
  <2>1. rc' = 0 /\ got' = got /\ state' = 2
    BY <1>1, <1>2, <1>6 DEF CallAgain
  <2>2. rem_len' > 0 /\ len' + rem_len' <= BufLen /\ len' >= 2
    BY <1>1, <1>2, <1>6 DEF TypeInv
  <2> QED
    BY <1>3, <1>4, <2>1, <2>2 DEF TypeInv, TypeOK
<1> QED
  BY <1>5, <1>6

\* No step leaves the buffer.
LEMMA TypeStep ==
  ASSUME TypeInv, [Next]_<<vars, msgs>>
  PROVE  TypeInv'
<1>1. CASE ReadHeader
  <2>1. taken + 1 \in 1..Len(stream) /\ stream \in Seq(Byte)
    BY <1>1, LenProperties DEF ReadHeader, HasMore, TypeInv, TypeOK
  <2>2. Char \in Byte
    BY <2>1, ElementOfSeq DEF Char
  <2>3. buf' \in [1..BufLen -> Byte] /\ taken' \in 0..Len(stream)
    <3>1. buf \in [1..BufLen -> Byte] /\ taken \in Nat
      BY DEF TypeInv, TypeOK
    <3>2. buf' = [buf EXCEPT ![1] = Char] /\ taken' = taken + 1
      BY <1>1 DEF ReadHeader
    <3>3. buf' \in [1..BufLen -> Byte]
      BY <2>2, <3>1, <3>2
    <3>4. taken' \in 0..Len(stream)
      BY <2>1, <3>1, <3>2
    <3> QED
      BY <3>3, <3>4
  <2>4. len' = 0 /\ state' = 1 /\ rc' = 0 /\ UNCHANGED <<got, stream, multiplier, rem_len>>
    BY <1>1 DEF ReadHeader, CallAgain
  <2> QED
    BY <2>3, <2>4, BufLenAssumption DEF TypeInv, TypeOK
<1>2. CASE LengthTooLong \/ ReadFails
  <2>1. rc' = -1 /\ state' = 0
        /\ UNCHANGED <<got, stream, taken, multiplier, rem_len, len, buf>>
    BY <1>2 DEF LengthTooLong, ReadFails, Fail
  <2> QED
    BY <2>1 DEF TypeInv, TypeOK
<1>3. CASE UNCHANGED <<vars, msgs>>
  BY <1>3 DEF vars, trp, TypeInv, TypeOK
<1> QED
  BY <1>1, <1>2, <1>3, ReadLengthTypes, ReadBodyTypes DEF Next, ReaderNext

-----------------------------------------------------------------------------
(* The length read so far *)

Value(b, p, n) == LET d(i) == IF i <= n THEN Digit(b, p, i) ELSE 0
                  IN  d(1) + d(2) + d(3) + d(4)

\* One more length byte adds its digit.
LEMMA ValueGrows ==
  ASSUME NEW b, NEW p \in Nat, NEW n \in 0..3, \A i \in 1..(n + 1) : b[p + i - 1] \in Byte
  PROVE  /\ Value(b, p, n + 1) = Value(b, p, n) + (b[p + n] % 128) * Pow128[n + 1]
         /\ Value(b, p, 0) = 0
<1>1. ASSUME NEW i \in 1..4, i <= n + 1 PROVE Digit(b, p, i) \in Nat
  <2>1. b[p + i - 1] % 128 \in Nat
    BY <1>1 DEF Byte
  <2>2. Pow128[i] \in Nat
    BY SMT DEF Pow128
  <2> QED
    BY <2>1, <2>2 DEF Digit
<1>2. Digit(b, p, n + 1) = (b[p + n] % 128) * Pow128[n + 1]
  <2>1. p + (n + 1) - 1 = p + n
    OBVIOUS
  <2> QED
    BY <2>1 DEF Digit
<1>3. Value(b, p, 0) = 0
  BY DEF Value
<1>4. Value(b, p, n + 1) = Value(b, p, n) + Digit(b, p, n + 1)
  <2>1. CASE n = 0
    BY <1>1, <2>1 DEF Value
  <2>2. CASE n = 1
    BY <1>1, <2>2 DEF Value
  <2>3. CASE n = 2
    BY <1>1, <2>3 DEF Value
  <2>4. CASE n = 3
    BY <1>1, <2>4 DEF Value
  <2> QED
    BY <2>1, <2>2, <2>3, <2>4
<1> QED
  BY <1>2, <1>3, <1>4

\* A length of n bytes, as MQTTPacket_decodeBuf finds it.
LEMMA Stopping ==
  ASSUME NEW b, NEW p \in Nat, NEW n \in 1..4, \A i \in 1..n : b[p + i - 1] \in Byte,
         \A i \in 1..(n - 1) : b[p + i - 1] >= 128, b[p + n - 1] < 128
  PROVE  MQTTPacket_decodeBuf(b, p) = [len |-> n, value |-> Value(b, p, n)]
<1>1. Stops(b, p) = {n}
  <2>1. ASSUME NEW i \in 1..4 PROVE i \in Stops(b, p) <=> i = n
    <3>1. CASE i < n
      <4>1. b[p + i - 1] \in Byte /\ b[p + i - 1] >= 128
        BY <3>1
      <4>2. ~(b[p + i - 1] < 128)
        BY <4>1 DEF Byte
      <4> QED
        BY <3>1, <4>2 DEF Stops
    <3>2. CASE i = n
      BY <3>2 DEF Stops
    <3>3. CASE i > n
      <4>1. n \in 1..(i - 1) /\ ~(b[p + n - 1] >= 128)
        BY <3>3 DEF Byte
      <4> QED
        BY <3>3, <4>1 DEF Stops
    <3> QED
      BY <3>1, <3>2, <3>3
  <2>2. Stops(b, p) \subseteq 1..4
    BY DEF Stops
  <2> QED
    BY <2>1, <2>2
<1>2. (CHOOSE i \in Stops(b, p) : TRUE) = n
  BY <1>1
<1> QED
  BY <1>1, <1>2 DEF MQTTPacket_decodeBuf, Value

-----------------------------------------------------------------------------
(* Where the reader is *)

Packets ==
  {p \in Seq(Byte) : \E rem \in 0..MaxRemLen :
     /\ Len(p) = 1 + EncodeSize(rem) + rem
     /\ \A i \in 1..EncodeSize(rem) : p[1 + i] = MQTTPacket_encode(rem)[i]}
AtOf(seqs, s) == CHOOSE at \in [0..Len(seqs) -> Nat] : Layout(seqs, s, at)
At == AtOf(Sent, stream)
Here == At[Len(got)]
StreamInv ==
  /\ Sent \in Seq(Packets) /\ Layout(Sent, stream, At)
  /\ \E t \in Tails : /\ Len(stream) = At[Len(Sent)] + Len(t)
                      /\ \A i \in 1..Len(t) : stream[At[Len(Sent)] + i] = t[i]
GotSent == Len(got) <= Len(Sent) /\ \A k \in 1..Len(got) : got[k] = Sent[k]
Unread == Sent[Len(got) + 1]
InLength ==
  /\ taken = Here + 1 + len /\ buf[1] = stream[Here + 1]
  /\ \A i \in 1..len : stream[Here + 1 + i] >= 128
  /\ len > 0 => rem_len = Value(stream, Here + 2, len)
InBody ==
  IF Len(got) < Len(Sent)
  THEN /\ taken = Here + len /\ len + rem_len = Len(Unread)
       /\ \A i \in 1..len : buf[i] = stream[Here + i]
  ELSE taken + rem_len > Len(stream)
Position ==
  rc # -1 => /\ state = 0 => taken = Here
             /\ state = 1 => InLength
             /\ state = 2 => InBody
             /\ rc > 0 => state = 0 /\ Len(got) > 0 /\ len = Len(got[Len(got)])
ReaderInv == TypeInv /\ StreamInv /\ GotSent /\ Position

\* Where the next packet begins, where it ends, and that the stream holds it there.
LEMMA Landmarks ==
  ASSUME ReaderInv
  PROVE  /\ Len(got) \in Nat /\ Len(Sent) \in Nat /\ Len(stream) \in Nat /\ Len(got) <= Len(Sent)
         /\ got \in Seq(Seq(Byte)) /\ stream \in Seq(Byte)
         /\ At \in [0..Len(Sent) -> Nat] /\ Here \in Nat
         /\ Len(got) < Len(Sent) =>
              /\ Unread \in Packets /\ Unread \in Seq(Byte) /\ Len(Unread) \in Nat
              /\ At[Len(got) + 1] = Here + Len(Unread)
              /\ \A i \in 1..Len(Unread) : stream[Here + i] = Unread[i]
<1>1. Len(got) \in Nat /\ Len(Sent) \in Nat /\ Len(stream) \in Nat /\ Len(got) <= Len(Sent)
      /\ got \in Seq(Seq(Byte)) /\ stream \in Seq(Byte) /\ Sent \in Seq(Packets)
  BY LenProperties DEF ReaderInv, TypeInv, StreamInv, GotSent
<1>2. At \in [0..Len(Sent) -> Nat] /\ Layout(Sent, stream, At)
  BY DEF ReaderInv, StreamInv, Layout
<1>3. Here \in Nat
  BY <1>1, <1>2 DEF Here
<1>4. ASSUME Len(got) < Len(Sent)
      PROVE  /\ Unread \in Packets /\ Unread \in Seq(Byte) /\ Len(Unread) \in Nat
             /\ At[Len(got) + 1] = Here + Len(Unread)
             /\ \A i \in 1..Len(Unread) : stream[Here + i] = Unread[i]
  <2>1. Len(got) + 1 \in 1..Len(Sent) /\ (Len(got) + 1) - 1 = Len(got)
    BY <1>1, <1>4
  <2>2. Unread \in Packets
    BY <1>1, <2>1, ElementOfSeq DEF Unread
  <2>3. Unread \in Seq(Byte) /\ Len(Unread) \in Nat
    BY <2>2, LenProperties DEF Packets
  <2>4. /\ At[Len(got) + 1] = At[(Len(got) + 1) - 1] + Len(Sent[Len(got) + 1])
        /\ \A i \in 1..Len(Sent[Len(got) + 1]) :
              stream[At[(Len(got) + 1) - 1] + i] = Sent[Len(got) + 1][i]
    BY <1>2, <2>1 DEF Layout
  <2> QED
    BY <2>1, <2>2, <2>3, <2>4 DEF Here, Unread
<1> QED
  BY <1>1, <1>2, <1>3, <1>4

\* A whole packet is the next one that was sent.
LEMMA Whole ==
  ASSUME ReaderInv, Len(got) < Len(Sent), NEW m, m = Len(Unread), m \in 2..BufLen,
         buf' \in [1..BufLen -> Byte], \A i \in 1..m : buf'[i] = Unread[i],
         Complete(m), UNCHANGED <<stream, msgs>>, taken' = Here + m, len' = m
  PROVE  GotSent' /\ Position' /\ got' = Append(got, Unread)
<1>1. /\ Len(got) \in Nat /\ Len(Sent) \in Nat /\ got \in Seq(Seq(Byte))
      /\ At \in [0..Len(Sent) -> Nat] /\ Here \in Nat /\ Unread \in Seq(Byte)
      /\ At[Len(got) + 1] = Here + Len(Unread)
  BY Landmarks
<1>2. SubSeq(buf', 1, m) \in Seq(Byte) /\ Len(SubSeq(buf', 1, m)) = m
      /\ \A i \in 1..m : SubSeq(buf', 1, m)[i] = buf'[i]
  <2>1. \A i \in 1..m : buf'[i] \in Byte /\ 1 + i - 1 = i
    BY BufLenAssumption
  <2>2. /\ SubSeq(buf', 1, m) \in Seq(Byte)
        /\ Len(SubSeq(buf', 1, m)) = IF 1 <= m THEN m - 1 + 1 ELSE 0
        /\ \A i \in 1..(m - 1 + 1) : SubSeq(buf', 1, m)[i] = buf'[1 + i - 1]
    BY <2>1, SubSeqProperties
  <2>3. 1 <= m /\ m - 1 + 1 = m
    OBVIOUS
  <2> QED
    BY <2>1, <2>2, <2>3
<1>3. SubSeq(buf', 1, m) = Unread
  BY <1>1, <1>2, SeqEqual
<1>4. got' = Append(got, Unread) /\ state' = 0
  BY <1>3 DEF Complete
<1>5. /\ got' \in Seq(Seq(Byte)) /\ Len(got') = Len(got) + 1
      /\ \A k \in 1..Len(got) : got'[k] = got[k]
      /\ got'[Len(got) + 1] = Unread
  BY <1>1, <1>4, AppendProperties
<1>6. Sent' = Sent /\ At' = At
  BY DEF Sent, At
<1>7. \A k \in 1..Len(got') : got'[k] = Sent[k]
  <2>1. \A k \in 1..Len(got) : got[k] = Sent[k]
    BY DEF ReaderInv, GotSent
  <2>2. \A k \in 1..(Len(got) + 1) : k \in 1..Len(got) \/ k = Len(got) + 1
    BY <1>1
  <2> QED
    BY <1>5, <2>1, <2>2 DEF Unread
<1>8. GotSent'
  BY <1>1, <1>5, <1>6, <1>7 DEF GotSent
<1>9. taken' = Here'
  BY <1>1, <1>5, <1>6 DEF Here
<1>10. Len(got') > 0 /\ len' = Len(got'[Len(got')])
  BY <1>1, <1>5
<1> QED
  BY <1>4, <1>8, <1>9, <1>10 DEF Position

-----------------------------------------------------------------------------
(* The steps of the reader *)

\* A step that gives nothing away leaves the stream and the packets given as they are.
LEMMA NothingGiven ==
  ASSUME ReaderInv, UNCHANGED <<stream, msgs, got>>
  PROVE  StreamInv' /\ GotSent' /\ Here' = Here /\ Unread' = Unread /\ Sent' = Sent
<1>1. Sent' = Sent
  BY DEF Sent
<1>2. At' = At
  BY <1>1 DEF At
<1> QED
  BY <1>1, <1>2 DEF ReaderInv, StreamInv, GotSent, Here, Unread

\* The stream is what was sent, whatever the reader does with it.
LEMMA StreamStays ==
  ASSUME ReaderInv, UNCHANGED <<stream, msgs>>
  PROVE  StreamInv'
<1>1. Sent' = Sent
  BY DEF Sent
<1>2. At' = At
  BY <1>1 DEF At
<1> QED
  BY <1>1, <1>2 DEF ReaderInv, StreamInv

\* The first byte of a packet is put where the packet will be.
LEMMA HeaderStep ==
  ASSUME ReaderInv, ReadHeader, UNCHANGED msgs
  PROVE  StreamInv' /\ GotSent' /\ Position'
<1>1. state = 0 /\ rc # -1 /\ taken = Here
  BY DEF ReaderInv, Position, ReadHeader, Calling
<1>2. /\ buf' = [buf EXCEPT ![1] = Char] /\ taken' = taken + 1 /\ len' = 0 /\ state' = 1
      /\ rc' = 0 /\ UNCHANGED <<got, stream>>
  BY DEF ReadHeader, CallAgain
<1>3. StreamInv' /\ GotSent' /\ Here' = Here
  BY <1>2, NothingGiven
<1>4. buf'[1] = stream'[Here' + 1]
  <2>1. buf \in [1..BufLen -> Byte]
    BY DEF ReaderInv, TypeInv, TypeOK
  <2> QED
    BY <1>1, <1>2, <1>3, <2>1, BufLenAssumption DEF Char
<1>5. taken' = Here' + 1 + len'
  BY <1>1, <1>2, <1>3, Landmarks
<1> QED
  BY <1>2, <1>3, <1>4, <1>5 DEF Position, InLength

\* The bytes of the length so far, with the one that is read.
LEMMA LengthSoFar ==
  ASSUME ReaderInv, ReadLength
  PROVE  /\ len \in 0..3 /\ Here + 2 \in Nat
         /\ \A i \in 1..(len + 1) : /\ Here + 1 + i \in 1..Len(stream)
                                    /\ stream[Here + 1 + i] \in Byte
         /\ Char = stream[Here + 1 + (len + 1)]
         /\ Rem = Value(stream, Here + 2, len + 1)
         /\ Rem \in Nat /\ Rem <= MaxRemLen
         /\ InLength
<1>1. state = 1 /\ rc # -1 /\ HasMore /\ len < 4
  BY DEF ReadLength, Calling
<1>2. InLength
  BY <1>1 DEF ReaderInv, Position
<1>3. /\ Char \in Byte /\ Mul = Pow128[len + 1] /\ len \in 0..3
      /\ Rem \in Nat /\ Rem <= MaxRemLen
  BY <1>1, LengthByte DEF ReaderInv
<1>4. Here \in Nat /\ Len(stream) \in Nat /\ stream \in Seq(Byte) /\ taken = Here + 1 + len
      /\ taken < Len(stream)
  BY <1>1, <1>2, Landmarks DEF InLength, HasMore
<1>5. ASSUME NEW i \in 1..(len + 1)
      PROVE  Here + 1 + i \in 1..Len(stream) /\ stream[Here + 1 + i] \in Byte
  <2>1. Here + 1 + i \in 1..Len(stream)
    BY <1>3, <1>4
  <2> QED
    BY <1>4, <2>1, ElementOfSeq
<1>6. Char = stream[Here + 1 + (len + 1)]
  <2>1. taken + 1 = Here + 1 + (len + 1)
    BY <1>3, <1>4
  <2> QED
    BY <2>1 DEF Char
<1>7. Rem = Value(stream, Here + 2, len + 1)
  <2>1. \A i \in 1..(len + 1) : (Here + 2) + i - 1 = Here + 1 + i
    BY <1>3, <1>4
  <2>2. /\ Value(stream, Here + 2, len + 1)
             = Value(stream, Here + 2, len) + (stream[(Here + 2) + len] % 128) * Pow128[len + 1]
        /\ Value(stream, Here + 2, 0) = 0
    BY SMTT(30), <1>3, <1>4, <1>5, <2>1, ValueGrows
  <2>3. (Here + 2) + len = Here + 1 + (len + 1)
    BY <1>3, <1>4
  <2>4. (IF FirstLengthByte THEN 0 ELSE rem_len) = Value(stream, Here + 2, len)
    BY <1>2, <1>3, <2>2 DEF FirstLengthByte, InLength
  <2> QED
    BY <1>3, <1>6, <2>2, <2>3, <2>4 DEF Rem
<1> QED
  BY <1>2, <1>3, <1>4, <1>5, <1>6, <1>7

\* The byte that ends the length.
LEMMA LengthEnd ==
  ASSUME ReaderInv, ReadLength, ~(Char >= 128)
  PROVE  MQTTPacket_decodeBuf(stream, Here + 2) = [len |-> len + 1, value |-> Rem]
<1>1. /\ len \in 0..3 /\ Here + 2 \in Nat /\ Here \in Nat
      /\ \A i \in 1..(len + 1) : stream[Here + 1 + i] \in Byte
      /\ Char = stream[Here + 1 + (len + 1)]
      /\ Rem = Value(stream, Here + 2, len + 1)
      /\ InLength
  BY LengthSoFar, Landmarks
<1>2. \A i \in 1..(len + 1) : (Here + 2) + i - 1 = Here + 1 + i
  BY <1>1
<1>3. \A i \in 1..(len + 1) : stream[(Here + 2) + i - 1] \in Byte
  BY <1>1, <1>2
<1>4. \A i \in 1..((len + 1) - 1) : stream[(Here + 2) + i - 1] >= 128
  <2>1. (len + 1) - 1 = len /\ \A i \in 1..len : i \in 1..(len + 1)
    BY <1>1
  <2> QED
    BY <1>1, <1>2, <2>1 DEF InLength
<1>5. stream[(Here + 2) + (len + 1) - 1] < 128
  <2>1. Char \in Byte /\ (Here + 2) + (len + 1) - 1 = Here + 1 + (len + 1)
    BY <1>1
  <2>2. Char < 128
    BY <2>1 DEF Byte
  <2> QED
    BY <1>1, <2>1, <2>2
<1>6. len + 1 \in 1..4
  BY <1>1
<1> QED
  BY <1>1, <1>3, <1>4, <1>5, <1>6, Stopping

\* The length of a packet that was sent.
LEMMA LengthSent ==
  ASSUME ReaderInv, ReadLength, ~(Char >= 128), Len(got) < Len(Sent)
  PROVE  /\ Len(Unread) = 1 + EncodeSize(Rem) + Rem /\ len + 1 = EncodeSize(Rem)
         /\ \A i \in 1..EncodeSize(Rem) : Unread[1 + i] = MQTTPacket_encode(Rem)[i]
<1>1. /\ Unread \in Packets /\ Here \in Nat
      /\ \A i \in 1..Len(Unread) : stream[Here + i] = Unread[i]
  BY Landmarks
<1>2. PICK rem \in 0..MaxRemLen :
        /\ Len(Unread) = 1 + EncodeSize(rem) + rem
        /\ \A i \in 1..EncodeSize(rem) : Unread[1 + i] = MQTTPacket_encode(rem)[i]
  BY <1>1 DEF Packets
<1>3. rem \in Nat /\ rem <= MaxRemLen
  OBVIOUS
<1>4. EncodeSize(rem) \in 1..4
  BY <1>3, EncodedBytes
<1>5. ASSUME NEW i \in 1..EncodeSize(rem)
      PROVE  stream[(Here + 2) + i - 1] = MQTTPacket_encode(rem)[i]
  <2>1. 1 + i \in 1..Len(Unread) /\ (Here + 2) + i - 1 = Here + (1 + i)
    BY <1>1, <1>2, <1>3, <1>4
  <2> QED
    BY <1>1, <1>2, <2>1
<1>6. Here + 2 \in Nat
  BY <1>1
<1>7. MQTTPacket_decodeBuf(stream, Here + 2) = [len |-> EncodeSize(rem), value |-> rem]
  BY <1>3, <1>5, <1>6, LengthRoundTrip
<1>8. len + 1 = EncodeSize(rem) /\ Rem = rem
  BY <1>7, LengthEnd
<1> QED
  BY <1>2, <1>8

\* What follows the packets is none.
LEMMA LengthOfTail ==
  ASSUME ReaderInv, ReadLength, ~(Char >= 128), Len(got) = Len(Sent)
  PROVE  1 + EncodeSize(Rem) + Rem > BufLen \/ taken + 1 + Rem > Len(stream)
<1>1. PICK t \in Tails : /\ Len(stream) = Here + Len(t)
                         /\ \A i \in 1..Len(t) : stream[Here + i] = t[i]
  BY DEF ReaderInv, StreamInv, Here
<1>2. t \in Seq(Byte) /\ NoPacket(t)
  BY <1>1, TailsAssumption
<1>3. Len(t) \in Nat /\ DOMAIN t = 1..Len(t) /\ Here \in Nat
  BY <1>2, LenProperties, Landmarks
<1>4. /\ len \in 0..3
      /\ \A i \in 1..(len + 1) : Here + 1 + i \in 1..Len(stream) /\ stream[Here + 1 + i] \in Byte
      /\ Char = stream[Here + 1 + (len + 1)] /\ Rem \in Nat
      /\ Rem = Value(stream, Here + 2, len + 1)
      /\ InLength
  BY LengthSoFar
<1>5. ASSUME NEW i \in 1..(len + 1)
      PROVE  1 + i \in 1..Len(t) /\ t[1 + i] = stream[Here + 1 + i] /\ t[1 + i] \in Byte
             /\ Here + (1 + i) = Here + 1 + i /\ 2 + i - 1 = 1 + i
  <2>1. 1 + i \in 1..Len(t) /\ Here + (1 + i) = Here + 1 + i /\ 2 + i - 1 = 1 + i
    <3>1. Here + 1 + i \in 1..Len(stream) /\ i \in Nat /\ i >= 1
      BY <1>4
    <3>2. Len(stream) = Here + Len(t)
      BY <1>1
    <3>3. Here + 1 + i <= Here + Len(t)
      BY <3>1, <3>2
    <3>4. 1 + i <= Len(t)
      BY <1>3, <3>1, <3>3
    <3> QED
      BY <1>3, <3>1, <3>4
  <2>2. stream[Here + (1 + i)] = t[1 + i]
    BY <1>1, <2>1
  <2> QED
    BY <1>4, <2>1, <2>2
<1>6. t[len + 2] < 128 /\ len + 2 \in DOMAIN t /\ len + 2 \in 2..5
  <2>1. 1 + (len + 1) = len + 2 /\ len + 1 \in 1..(len + 1) /\ len + 2 \in 2..5
    BY <1>4
  <2>2. Char \in Byte
    BY <1>4, <2>1
  <2>3. Char < 128
    BY <2>2 DEF Byte
  <2> QED
    BY <1>3, <1>4, <1>5, <2>1, <2>3
<1>7. \A j \in 2..((len + 2) - 1) : t[j] >= 128
  <2> SUFFICES ASSUME NEW j \in 2..((len + 2) - 1) PROVE t[j] >= 128
    OBVIOUS
  <2>1. j - 1 \in 1..len /\ 1 + (j - 1) = j /\ j - 1 \in 1..(len + 1)
    BY <1>4
  <2>2. stream[Here + 1 + (j - 1)] >= 128
    BY <1>4, <2>1 DEF InLength
  <2> QED
    BY <1>5, <2>1, <2>2
<1>8. MQTTPacket_decodeBuf(t, 2).value = Rem
  <2>1. \A i \in 1..(len + 1) : t[2 + i - 1] \in Byte /\ t[2 + i - 1] = stream[Here + 1 + i]
    BY <1>5
  <2>2. \A i \in 1..((len + 1) - 1) : t[2 + i - 1] >= 128
    <3> SUFFICES ASSUME NEW i \in 1..((len + 1) - 1) PROVE t[2 + i - 1] >= 128
      OBVIOUS
    <3>1. 2 + i - 1 \in 2..((len + 2) - 1)
      BY <1>4
    <3> QED
      BY <1>7, <3>1
  <2>3. t[2 + (len + 1) - 1] < 128
    <3>1. 2 + (len + 1) - 1 = len + 2
      BY <1>4
    <3> QED
      BY <1>6, <3>1
  <2>4. len + 1 \in 1..4
    BY <1>4
  <2>5. MQTTPacket_decodeBuf(t, 2).value = Value(t, 2, len + 1)
    BY <2>1, <2>2, <2>3, <2>4, Stopping
  <2>6. Value(t, 2, len + 1) = Value(stream, Here + 2, len + 1)
    <3>1. \A i \in 1..(len + 1) : Digit(t, 2, i) = Digit(stream, Here + 2, i)
      <4> SUFFICES ASSUME NEW i \in 1..(len + 1) PROVE Digit(t, 2, i) = Digit(stream, Here + 2, i)
        OBVIOUS
      <4>1. (Here + 2) + i - 1 = Here + 1 + i
        BY <1>3, <1>4
      <4> QED
        BY <2>1, <4>1 DEF Digit
    <3>2. \A i \in 1..4 : i <= len + 1 => i \in 1..(len + 1)
      BY <1>4
    <3> QED
      BY <3>1, <3>2 DEF Value
  <2> QED
    BY <1>4, <2>5, <2>6
<1>9. LengthEnds(t, len + 2)
  BY <1>6, <1>7 DEF LengthEnds
<1>10. 1 + EncodeSize(Rem) + Rem > BufLen \/ (len + 2) + Rem > Len(t)
  BY <1>2, <1>6, <1>8, <1>9 DEF NoPacket
<1>11. taken = Here + 1 + len /\ taken \in Nat
  BY <1>3, <1>4 DEF InLength
<1>12. (len + 2) + Rem > Len(t) => taken + 1 + Rem > Len(stream)
  BY <1>1, <1>3, <1>4, <1>11
<1> QED
  BY <1>10, <1>12

\* A length byte of a packet that was sent leads to its body or to its end; one of the tail to a
\* packet that never ends.
LEMMA LengthStep ==
  ASSUME ReaderInv, ReadLength, UNCHANGED msgs
  PROVE  StreamInv' /\ GotSent' /\ Position'
<1> DEFINE n == 1 + EncodeSize(Rem)
<1>1. /\ taken' = taken + 1 /\ rem_len' = Rem /\ UNCHANGED stream
      /\ IF Char >= 128
         THEN len' = len + 1 /\ CallAgain /\ UNCHANGED <<state, buf>>
         ELSE /\ len' = n
              /\ buf' = [i \in 1..BufLen |->
                           IF i \in 2..n THEN MQTTPacket_encode(Rem)[i - 1] ELSE buf[i]]
              /\ IF ~(Rem + n <= BufLen) THEN Fail
                 ELSE IF Rem = 0 THEN Complete(n) ELSE state' = 2 /\ CallAgain
  BY LengthBytes DEF ReaderInv
<1>2. /\ len \in 0..3 /\ Here \in Nat /\ InLength /\ Rem \in Nat /\ Rem <= MaxRemLen
      /\ Rem = Value(stream, Here + 2, len + 1) /\ Char = stream[Here + 1 + (len + 1)]
      /\ stream[Here + 1 + (len + 1)] \in Byte
  <2>1. len \in 0..3 => len + 1 \in 1..(len + 1)
    OBVIOUS
  <2> QED
    BY <2>1, LengthSoFar, Landmarks
<1>3. taken = Here + 1 + len /\ buf[1] = stream[Here + 1]
      /\ \A i \in 1..len : stream[Here + 1 + i] >= 128
  BY <1>2 DEF InLength
<1>4. n \in 2..5 /\ BufLen \in Nat
  BY <1>2, EncodedBytes, BufLenAssumption
<1>5. StreamInv' /\ Len(got) \in Nat /\ Len(Sent) \in Nat /\ Len(got) <= Len(Sent)
  BY <1>1, StreamStays, Landmarks
<1>6. CASE Char >= 128
  <2>1. len' = len + 1 /\ rc' = 0 /\ got' = got /\ state' = 1 /\ buf' = buf
    BY <1>1, <1>6 DEF CallAgain, ReadLength
  <2>2. GotSent' /\ Here' = Here
    BY <1>1, <2>1, NothingGiven
  <2>3. \A i \in 1..len' : stream[Here + 1 + i] >= 128
    <3>1. \A i \in 1..(len + 1) : i \in 1..len \/ i = len + 1
      BY <1>2
    <3> QED
      BY <1>2, <1>3, <1>6, <2>1, <3>1
  <2>4. taken' = Here + 1 + len'
    BY <1>1, <1>2, <1>3, <2>1
  <2>5. InLength'
    BY <1>1, <1>2, <1>3, <2>1, <2>2, <2>3, <2>4 DEF InLength
  <2> QED
    BY <1>5, <2>1, <2>2, <2>5 DEF Position
<1>7. CASE ~(Char >= 128)
  <2>1. len' = n /\ buf' = [i \in 1..BufLen |->
                              IF i \in 2..n THEN MQTTPacket_encode(Rem)[i - 1] ELSE buf[i]]
    BY <1>1, <1>7
  <2>2. CASE ~(Rem + n <= BufLen)
    <3>1. rc' = -1 /\ got' = got
      BY <1>1, <1>7, <2>2 DEF Fail
    <3> QED
      BY <1>1, <1>5, <3>1, NothingGiven DEF Position
  <2>3. CASE Rem + n <= BufLen /\ Len(got) < Len(Sent)
    <3>1. /\ Len(Unread) = n + Rem /\ len + 1 = EncodeSize(Rem)
          /\ \A i \in 1..EncodeSize(Rem) : Unread[1 + i] = MQTTPacket_encode(Rem)[i]
      <4>1. 1 + EncodeSize(Rem) + Rem = n + Rem
        OBVIOUS
      <4> QED
        BY <1>7, <2>3, <4>1, LengthSent
    <3>2. \A i \in 1..Len(Unread) : stream[Here + i] = Unread[i]
      BY <2>3, Landmarks
    <3>3. ASSUME NEW i \in 1..n PROVE buf'[i] = Unread[i] /\ i \in 1..Len(Unread)
      <4>1. i \in 1..BufLen /\ i \in 1..Len(Unread) /\ 1 \in 1..Len(Unread)
        BY <1>2, <1>4, <2>3, <3>1
      <4>2. CASE i = 1
        BY <1>3, <2>1, <3>2, <4>1, <4>2
      <4>3. CASE i # 1
        <5>1. i \in 2..n /\ i - 1 \in 1..EncodeSize(Rem) /\ 1 + (i - 1) = i
          BY <1>2, <1>4, <4>3, EncodedBytes
        <5> QED
          BY <2>1, <3>1, <4>1, <5>1
      <4> QED
        BY <4>2, <4>3
    <3>4. taken' = Here + n
      BY <1>1, <1>2, <1>3, <3>1
    <3>5. CASE Rem = 0
      <4>1. n = Len(Unread) /\ n \in 2..BufLen /\ Complete(n)
        BY <1>1, <1>2, <1>4, <1>7, <2>3, <3>1, <3>5
      <4>2. buf' \in [1..BufLen -> Byte]
        BY ReadLengthTypes DEF ReaderInv, TypeInv, TypeOK
      <4> HIDE DEF n
      <4> QED
        BY <1>1, <1>5, <2>1, <2>3, <3>3, <3>4, <4>1, <4>2, Whole
    <3>6. CASE Rem # 0
      <4>1. state' = 2 /\ rc' = 0 /\ got' = got
        BY <1>1, <1>7, <2>3, <3>6 DEF CallAgain
      <4>2. GotSent' /\ Here' = Here /\ Unread' = Unread /\ Sent' = Sent
        BY <1>1, <4>1, NothingGiven
      <4>3. \A i \in 1..len' : buf'[i] = stream[Here + i]
        BY <2>1, <3>2, <3>3
      <4>4. len' + rem_len' = Len(Unread) /\ taken' = Here + len'
        BY <1>1, <2>1, <3>1, <3>4
      <4>5. InBody'
        BY <1>1, <2>3, <4>1, <4>2, <4>3, <4>4 DEF InBody
      <4> QED
        BY <1>5, <4>1, <4>2, <4>5 DEF Position
    <3> QED
      BY <3>5, <3>6
  <2>4. CASE Rem + n <= BufLen /\ Len(got) = Len(Sent)
    <3>1. taken + 1 + Rem > Len(stream)
      <4>1. ~(1 + EncodeSize(Rem) + Rem > BufLen)
        BY <1>2, <1>4, <2>4
      <4> QED
        BY <1>7, <2>4, <4>1, LengthOfTail
    <3>2. Rem # 0
      BY <1>2, <1>3, <3>1, Landmarks DEF ReadLength, HasMore
    <3>3. state' = 2 /\ rc' = 0 /\ got' = got
      BY <1>1, <1>7, <2>4, <3>2 DEF CallAgain
    <3>4. GotSent' /\ Sent' = Sent
      BY <1>1, <3>3, NothingGiven
    <3>5. InBody'
      BY <1>1, <1>5, <2>4, <3>1, <3>3, <3>4 DEF InBody
    <3> QED
      BY <1>5, <3>3, <3>4, <3>5 DEF Position
  <2> QED
    BY <1>5, <2>2, <2>3, <2>4
<1> QED
  BY <1>6, <1>7

\* A part of the rest is the next part of the packet that was sent.
LEMMA BodyStep ==
  ASSUME ReaderInv, ReadBody, UNCHANGED msgs
  PROVE  StreamInv' /\ GotSent' /\ Position'
<1>1. PICK n \in 1..rem_len :
        /\ n <= Len(stream) - taken
        /\ buf' = [i \in DOMAIN buf |->
                     IF i \in (len + 1)..(len + n) THEN stream[taken + i - len] ELSE buf[i]]
        /\ taken' = taken + n /\ len' = len + n /\ rem_len' = rem_len - n
        /\ IF n = rem_len THEN Complete(len + n) ELSE CallAgain /\ UNCHANGED state
  BY DEF ReadBody
<1>2. /\ state = 2 /\ rc # -1 /\ UNCHANGED stream /\ InBody
      /\ DOMAIN buf = 1..BufLen /\ BufLen \in Nat
      /\ len \in Nat /\ len >= 2 /\ rem_len \in Nat /\ len + rem_len <= BufLen /\ taken \in Nat
      /\ n \in Nat /\ n >= 1 /\ n <= rem_len
  BY <1>1, BufLenAssumption DEF ReadBody, Calling, ReaderInv, Position, TypeInv, TypeOK
<1>3. StreamInv' /\ Len(got) \in Nat /\ Len(Sent) \in Nat /\ Len(got) <= Len(Sent)
      /\ Len(stream) \in Nat /\ Here \in Nat
  BY <1>2, StreamStays, Landmarks
<1>4. CASE Len(got) < Len(Sent)
  <2>1. /\ taken = Here + len /\ len + rem_len = Len(Unread)
        /\ \A i \in 1..len : buf[i] = stream[Here + i]
    BY <1>2, <1>4 DEF InBody
  <2>2. ASSUME NEW i \in 1..(len + n) PROVE buf'[i] = stream[Here + i]
    <3>1. i \in 1..BufLen
      BY <1>2
    <3>2. CASE i <= len
      <4>1. i \in 1..len /\ i \notin (len + 1)..(len + n)
        BY <1>2, <3>2
      <4> QED
        BY <1>1, <1>2, <2>1, <3>1, <4>1
    <3>3. CASE i > len
      <4>1. i \in (len + 1)..(len + n) /\ taken + i - len = Here + i
        BY <1>2, <1>3, <2>1, <3>3
      <4> QED
        BY <1>1, <1>2, <3>1, <4>1
    <3> QED
      BY <1>2, <3>2, <3>3
  <2>3. taken' = Here + len' /\ len' + rem_len' = Len(Unread)
    BY SMTT(30), <1>1, <1>2, <1>3, <2>1
  <2>4. CASE n = rem_len
    <3>1. len + n = Len(Unread) /\ len + n \in 2..BufLen /\ Complete(len + n)
      BY <1>1, <1>2, <2>1, <2>4
    <3>2. \A i \in 1..(len + n) : buf'[i] = Unread[i]
      BY <1>4, <2>2, <3>1, Landmarks
    <3>3. buf' \in [1..BufLen -> Byte]
      BY ReadBodyTypes DEF ReaderInv, TypeInv, TypeOK
    <3>4. taken' = Here + (len + n) /\ len' = len + n
      BY <1>1, <2>3
    <3> QED
      BY <1>2, <1>3, <1>4, <3>1, <3>2, <3>3, <3>4, Whole
  <2>5. CASE n # rem_len
    <3>1. state' = 2 /\ rc' = 0 /\ got' = got
      BY <1>1, <1>2, <2>5 DEF CallAgain
    <3>2. GotSent' /\ Here' = Here /\ Unread' = Unread /\ Sent' = Sent
      BY <1>2, <3>1, NothingGiven
    <3>3. InBody'
      BY <1>1, <1>2, <1>4, <2>2, <2>3, <3>1, <3>2 DEF InBody
    <3> QED
      BY <1>3, <3>1, <3>2, <3>3 DEF Position
  <2> QED
    BY <2>4, <2>5
<1>5. CASE Len(got) = Len(Sent)
  <2>1. taken + rem_len > Len(stream)
    BY <1>2, <1>3, <1>5 DEF InBody
  <2>2. n # rem_len
    BY SMTT(30), <1>1, <1>2, <1>3, <2>1
  <2>3. state' = 2 /\ rc' = 0 /\ got' = got
    BY <1>1, <1>2, <2>2 DEF CallAgain
  <2>4. GotSent' /\ Sent' = Sent
    BY <1>2, <2>3, NothingGiven
  <2>5. taken' + rem_len' > Len(stream)
    BY <1>1, <1>2, <1>3, <2>1
  <2>6. InBody'
    BY <1>2, <1>3, <1>5, <2>3, <2>4, <2>5 DEF InBody
  <2> QED
    BY <1>3, <2>3, <2>4, <2>6 DEF Position
<1> QED
  BY <1>3, <1>4, <1>5

\* Every step keeps the invariant.
LEMMA ReaderStep ==
  ASSUME ReaderInv, [Next]_<<vars, msgs>>
  PROVE  ReaderInv'
<1>1. TypeInv'
  BY TypeStep DEF ReaderInv
<1>2. StreamInv' /\ GotSent' /\ Position'
  <2>1. CASE UNCHANGED <<vars, msgs>>
    <3>1. StreamInv' /\ GotSent' /\ Here' = Here /\ Unread' = Unread /\ Sent' = Sent
      BY <2>1, NothingGiven DEF vars
    <3> QED
      BY <2>1, <3>1 DEF vars, trp, ReaderInv, Position, InLength, InBody
  <2>2. CASE (LengthTooLong \/ ReadFails) /\ UNCHANGED msgs
    <3>1. rc' = -1 /\ UNCHANGED <<got, stream>>
      BY <2>2 DEF LengthTooLong, ReadFails, Fail
    <3> QED
      BY <2>2, <3>1, NothingGiven DEF Position
  <2> QED
    BY <2>1, <2>2, HeaderStep, LengthStep, BodyStep DEF Next, ReaderNext
<1> QED
  BY <1>1, <1>2 DEF ReaderInv

-----------------------------------------------------------------------------
(* What is written of a message *)

\* The header byte, the bytes behind the remaining length, and the size that is reserved
FirstByte(d) ==
  CASE d.kind = "connect"     -> HeaderByte(PacketType.CONNECT, 0, 0, 0)
    [] d.kind = "connack"     -> HeaderByte(PacketType.CONNACK, 0, 0, 0)
    [] d.kind = "publish"     -> HeaderByte(PacketType.PUBLISH, d.dup, d.qos, d.retained)
    [] d.kind = "ack"         -> HeaderByte(d.type, d.dup, Bit(d.type = PacketType.PUBREL), 0)
    [] d.kind = "subscribe"   -> HeaderByte(PacketType.SUBSCRIBE, d.dup, 1, 0)
    [] d.kind = "suback"      -> HeaderByte(PacketType.SUBACK, 0, 0, 0)
    [] d.kind = "unsubscribe" -> HeaderByte(PacketType.UNSUBSCRIBE, d.dup, 1, 0)
    [] d.kind = "unsuback"    -> HeaderByte(PacketType.UNSUBACK, 0, 0, 0)
    [] d.kind = "zero"        -> HeaderByte(d.type, 0, 0, 0)
Body(d) ==
  CASE d.kind = "connect"     -> ConnectBody(d.options)
    [] d.kind = "connack"     -> <<d.sessionPresent, d.rc>>
    [] d.kind = "publish"     -> PublishBody(d.qos, d.id, d.topic, d.payload)
    [] d.kind = "ack"         -> WriteInt(d.id)
    [] d.kind = "subscribe"   -> SubscribeBody(d.id, d.filters, d.qoss)
    [] d.kind = "suback"      -> SubackBody(d.id, d.granted)
    [] d.kind = "unsubscribe" -> UnsubscribeBody(d.id, d.filters)
    [] d.kind = "unsuback"    -> WriteInt(d.id)
    [] d.kind = "zero"        -> << >>
Sized == {"connect", "publish", "subscribe", "unsubscribe"}
Reserved(d) ==
  CASE d.kind \in Sized    -> MQTTPacket_len(Len(Body(d)))
    [] d.kind = "ack"      -> 4
    [] d.kind = "suback"   -> 2 + Len(d.granted)
    [] d.kind \in {"connack", "unsuback", "zero"} -> 2

\* The fields a message of each kind has.
LEMMA Kinds ==
  ASSUME NEW d \in Messages
  PROVE  \/ d.kind = "connect" /\ d.to = "server" /\ d.options \in ConnectOptions
         \/ d.kind = "connack" /\ d.to = "client" /\ d.rc \in Byte /\ d.sessionPresent \in 0..1
         \/ /\ d.kind = "publish" /\ d.to \in Sides /\ d.dup \in 0..1 /\ d.qos \in 0..2
            /\ d.retained \in 0..1 /\ d.id \in Number /\ d.topic \in MQTTString
            /\ d.payload \in Seq(Byte)
         \/ /\ d.kind = "ack" /\ d.to \in Sides /\ d.type \in Acks /\ d.dup \in 0..1
            /\ d.id \in Number
         \/ /\ d.kind = "subscribe" /\ d.to = "server" /\ d.dup \in 0..1 /\ d.id \in Number
            /\ d.filters \in Seq(MQTTString) /\ d.qoss \in Seq(0..2)
         \/ /\ d.kind = "suback" /\ d.to = "client" /\ d.id \in Number /\ d.granted \in Codes
         \/ /\ d.kind = "unsubscribe" /\ d.to = "server" /\ d.dup \in 0..1 /\ d.id \in Number
            /\ d.filters \in Seq(MQTTString)
         \/ d.kind = "unsuback" /\ d.to = "client" /\ d.id \in Number
         \/ d.kind = "zero" /\ d.to \in Sides /\ d.type \in Empty
BY DEF Messages, Flag

\* A serialiser writes this header byte, and these bytes behind their length.
Describes(d) ==
  /\ FirstByte(d) \in Byte /\ Body(d) \in Seq(Byte)
  /\ \A n : Serialize(d, n) = PacketWithin(n, Reserved(d), FirstByte(d), Len(Body(d)), Body(d))
  /\ d.kind \notin Sized \cup {"suback"} => Len(Body(d)) <= 4
  /\ d.kind = "suback" => Len(Body(d)) <= MaxRemLen

\* The header byte of a small type is a byte.
LEMMA SmallHeaders ==
  \A type \in 0..15 : \A dup \in 0..1 : \A qos \in 0..3 : \A retain \in 0..1 :
    HeaderByte(type, dup, qos, retain) \in Byte
BY HeaderIsByte

\* Each serialiser writes what Body says of its message.
LEMMA Described ==
  ASSUME NEW d \in Messages, Given(d)
  PROVE  Describes(d)
<1>1. CASE d.kind = "connect"
  <2>1. d.options \in Connects
    BY <1>1, Kinds DEF Given, Connects
  <2>2. /\ FirstByte(d) = HeaderByte(PacketType.CONNECT, 0, 0, 0)
        /\ Body(d) = ConnectBody(d.options) /\ Reserved(d) = MQTTPacket_len(Len(Body(d)))
        /\ \A n : Serialize(d, n) = MQTTSerialize_connect(n, d.options)
    BY <1>1 DEF FirstByte, Body, Reserved, Serialize, Sized
  <2>3. FirstByte(d) \in Byte
    BY <2>2, SmallHeaders, TypeNumbers
  <2> QED
    BY <1>1, <2>1, <2>2, <2>3, ConnectWritten DEF Describes, Sized
<1>2. CASE d.kind = "connack"
  <2>1. d.rc \in Byte /\ d.sessionPresent \in 0..1
    BY <1>2, Kinds
  <2>2. /\ FirstByte(d) = HeaderByte(PacketType.CONNACK, 0, 0, 0)
        /\ Body(d) = <<d.sessionPresent, d.rc>> /\ Reserved(d) = 2
        /\ \A n : Serialize(d, n) = MQTTSerialize_connack(n, d.rc, d.sessionPresent)
    BY <1>2 DEF FirstByte, Body, Reserved, Serialize, Sized
  <2>3. FirstByte(d) \in Byte
    BY <2>2, SmallHeaders, TypeNumbers
  <2>4. Body(d) \in Seq(Byte) /\ Len(Body(d)) = 2
    <3>1. d.sessionPresent \in Byte
      BY <2>1 DEF Byte
    <3> QED
      BY <2>1, <2>2, <3>1
  <2> QED
    BY <1>2, <2>2, <2>3, <2>4 DEF Describes, Sized, MQTTSerialize_connack
<1>3. CASE d.kind = "publish"
  <2>1. /\ d.dup \in 0..1 /\ d.qos \in 0..2 /\ d.retained \in 0..1 /\ d.id \in Number
        /\ d.topic \in MQTTString /\ d.payload \in Seq(Byte)
    BY <1>3, Kinds
  <2>2. /\ FirstByte(d) = HeaderByte(PacketType.PUBLISH, d.dup, d.qos, d.retained)
        /\ Body(d) = PublishBody(d.qos, d.id, d.topic, d.payload)
        /\ Reserved(d) = MQTTPacket_len(Len(Body(d)))
        /\ \A n : Serialize(d, n) = MQTTSerialize_publish(n, d.dup, d.qos, d.retained, d.id,
                                                          d.topic, d.payload)
    BY <1>3 DEF FirstByte, Body, Reserved, Serialize, Sized
  <2>3. FirstByte(d) \in Byte
    BY <2>1, <2>2, SmallHeaders, TypeNumbers
  <2>4. /\ Body(d) \in Seq(Byte)
        /\ Len(Body(d)) = MQTTSerialize_publishLength(d.qos, d.topic, d.payload)
    <3>1. /\ PublishBody(d.qos, d.id, d.topic, d.payload) \in Seq(Byte)
          /\ Len(PublishBody(d.qos, d.id, d.topic, d.payload))
               = MQTTSerialize_publishLength(d.qos, d.topic, d.payload)
      BY <2>1, PublishWritten
    <3> QED
      BY <2>2, <3>1
  <2>5. Body(d) = WriteMQTTString(d.topic) \o (IF d.qos > 0 THEN WriteInt(d.id) ELSE << >>)
                  \o d.payload
    BY <2>2 DEF PublishBody
  <2> QED
    BY <1>3, <2>2, <2>3, <2>4, <2>5 DEF Describes, Sized, MQTTSerialize_publish
<1>4. CASE d.kind = "ack"
  <2>1. d.type \in Acks /\ d.dup \in 0..1 /\ d.id \in Number
    BY <1>4, Kinds
  <2>2. /\ FirstByte(d) = HeaderByte(d.type, d.dup, Bit(d.type = PacketType.PUBREL), 0)
        /\ Body(d) = WriteInt(d.id) /\ Reserved(d) = 4
        /\ \A n : Serialize(d, n) = MQTTSerialize_ack(n, d.type, d.dup, d.id)
    BY <1>4 DEF FirstByte, Body, Reserved, Serialize, Sized
  <2>3. FirstByte(d) \in Byte
    <3>1. Bit(d.type = PacketType.PUBREL) \in 0..3 /\ d.type \in 0..15
      BY <2>1, TypeNumbers DEF Bit
    <3> QED
      BY <2>1, <2>2, <3>1, SmallHeaders
  <2>4. Body(d) \in Seq(Byte) /\ Len(Body(d)) = 2
    BY <2>1, <2>2, IntWritten
  <2> QED
    BY <1>4, <2>2, <2>3, <2>4 DEF Describes, Sized, MQTTSerialize_ack
<1>5. CASE d.kind = "subscribe"
  <2>1. /\ d.dup \in 0..1 /\ d.id \in Number /\ d.filters \in Seq(MQTTString)
        /\ d.qoss \in Seq(0..2) /\ Len(d.qoss) = Len(d.filters)
    BY <1>5, Kinds DEF Given
  <2>2. /\ FirstByte(d) = HeaderByte(PacketType.SUBSCRIBE, d.dup, 1, 0)
        /\ Body(d) = SubscribeBody(d.id, d.filters, d.qoss)
        /\ Reserved(d) = MQTTPacket_len(Len(Body(d)))
        /\ \A n : Serialize(d, n) = MQTTSerialize_subscribe(n, d.dup, d.id, d.filters, d.qoss)
    BY <1>5 DEF FirstByte, Body, Reserved, Serialize, Sized
  <2>3. FirstByte(d) \in Byte
    BY <2>1, <2>2, SmallHeaders, TypeNumbers
  <2> QED
    BY <1>5, <2>1, <2>2, <2>3, SubscribeWritten DEF Describes, Sized
<1>6. CASE d.kind = "suback"
  <2>1. d.id \in Number /\ d.granted \in Seq(Byte) /\ 2 + Len(d.granted) <= MaxRemLen
    BY <1>6, Kinds DEF Codes
  <2>2. /\ FirstByte(d) = HeaderByte(PacketType.SUBACK, 0, 0, 0)
        /\ Body(d) = SubackBody(d.id, d.granted) /\ Reserved(d) = 2 + Len(d.granted)
        /\ \A n : Serialize(d, n) = MQTTSerialize_suback(n, d.id, d.granted)
    BY <1>6 DEF FirstByte, Body, Reserved, Serialize, Sized
  <2>3. FirstByte(d) \in Byte
    BY <2>2, SmallHeaders, TypeNumbers
  <2>4. Body(d) \in Seq(Byte) /\ Len(Body(d)) = 2 + Len(d.granted)
    BY <2>1, <2>2, SubackWritten
  <2>5. Body(d) = WriteInt(d.id) \o d.granted
    BY <2>2 DEF SubackBody
  <2> QED
    BY <1>6, <2>1, <2>2, <2>3, <2>4, <2>5 DEF Describes, Sized, MQTTSerialize_suback
<1>7. CASE d.kind = "unsubscribe"
  <2>1. d.dup \in 0..1 /\ d.id \in Number /\ d.filters \in Seq(MQTTString)
    BY <1>7, Kinds
  <2>2. /\ FirstByte(d) = HeaderByte(PacketType.UNSUBSCRIBE, d.dup, 1, 0)
        /\ Body(d) = UnsubscribeBody(d.id, d.filters)
        /\ Reserved(d) = MQTTPacket_len(Len(Body(d)))
        /\ \A n : Serialize(d, n) = MQTTSerialize_unsubscribe(n, d.dup, d.id, d.filters)
    BY <1>7 DEF FirstByte, Body, Reserved, Serialize, Sized
  <2>3. FirstByte(d) \in Byte
    BY <2>1, <2>2, SmallHeaders, TypeNumbers
  <2> QED
    BY <1>7, <2>1, <2>2, <2>3, UnsubscribeWritten DEF Describes, Sized
<1>8. CASE d.kind = "unsuback"
  <2>1. d.id \in Number
    BY <1>8, Kinds
  <2>2. /\ FirstByte(d) = HeaderByte(PacketType.UNSUBACK, 0, 0, 0)
        /\ Body(d) = WriteInt(d.id) /\ Reserved(d) = 2
        /\ \A n : Serialize(d, n) = MQTTSerialize_unsuback(n, d.id)
    BY <1>8 DEF FirstByte, Body, Reserved, Serialize, Sized
  <2>3. FirstByte(d) \in Byte
    BY <2>2, SmallHeaders, TypeNumbers
  <2>4. Body(d) \in Seq(Byte) /\ Len(Body(d)) = 2
    BY <2>1, <2>2, IntWritten
  <2> QED
    BY <1>8, <2>2, <2>3, <2>4 DEF Describes, Sized, MQTTSerialize_unsuback
<1>9. CASE d.kind = "zero"
  <2>1. d.type \in Empty
    BY <1>9, Kinds
  <2>2. /\ FirstByte(d) = HeaderByte(d.type, 0, 0, 0) /\ Body(d) = << >> /\ Reserved(d) = 2
        /\ \A n : Serialize(d, n) = MQTTSerialize_zero(n, d.type)
    BY <1>9 DEF FirstByte, Body, Reserved, Serialize, Sized
  <2>3. FirstByte(d) \in Byte
    <3>1. d.type \in 0..15
      BY <2>1, TypeNumbers
    <3> QED
      BY <2>2, <3>1, SmallHeaders
  <2>4. Body(d) \in Seq(Byte) /\ Len(Body(d)) = 0
    BY <2>2, EmptySeq
  <2> QED
    BY <1>9, <2>2, <2>3, <2>4 DEF Describes, Sized, MQTTSerialize_zero
<1> QED
  BY <1>1, <1>2, <1>3, <1>4, <1>5, <1>6, <1>7, <1>8, <1>9, Kinds

\* What is sent of a message is one packet, whole.
LEMMA OnePacket ==
  ASSUME NEW d \in Fitting
  PROVE  /\ d \in Messages /\ Given(d) /\ Describes(d)
         /\ Len(Body(d)) \in Nat /\ Len(Body(d)) <= MaxRemLen
         /\ Bytes(d) = Packet(FirstByte(d), Len(Body(d)), Body(d)).bytes
         /\ Carries(Bytes(d), FirstByte(d), Body(d))
<1> DEFINE l == Len(Body(d))
<1>1. d \in Messages /\ Given(d) /\ Serialize(d, Roomy).rc # BUFFER_TOO_SHORT
  BY DEF Fitting
<1>2. Describes(d)
  BY <1>1, Described
<1>3. l \in Nat
  BY <1>2, LenProperties DEF Describes
<1>4. MaxRemLen \in Nat /\ MaxRemLen > 4
  BY SMT DEF MaxRemLen
<1>5. /\ Serialize(d, Roomy) = PacketWithin(Roomy, Reserved(d), FirstByte(d), l, Body(d))
      /\ PacketWithin(Roomy, Reserved(d), FirstByte(d), l, Body(d)).rc # BUFFER_TOO_SHORT
  BY <1>1, <1>2 DEF Describes
<1>6. l <= MaxRemLen
  <2>1. CASE d.kind \in Sized
    <3>1. Reserved(d) = MQTTPacket_len(l)
      BY <2>1 DEF Reserved, Sized
    <3>2. ~(Reserved(d) > Roomy)
      <4> HIDE DEF l
      <4> QED
        BY <1>5, Written
    <3> HIDE DEF l
    <3>3. ~(l > MaxRemLen)
      BY SMT, <1>3, <3>1, <3>2 DEF Roomy, MaxRemLen, MQTTPacket_len
    <3> QED
      BY <1>3, <1>4, <3>3
  <2>2. CASE d.kind \notin Sized \cup {"suback"}
    <3>1. l <= 4
      BY <1>2, <2>2 DEF Describes
    <3> HIDE DEF l
    <3> QED
      BY <1>3, <1>4, <3>1
  <2>3. CASE d.kind = "suback"
    BY <1>2, <2>3 DEF Describes
  <2> QED
    BY <2>1, <2>2, <2>3
<1>7. FirstByte(d) \in Byte /\ Body(d) \in Seq(Byte)
  BY <1>2 DEF Describes
<1>8. PacketWithin(Roomy, Reserved(d), FirstByte(d), l, Body(d)) = Packet(FirstByte(d), l, Body(d))
  <2> HIDE DEF l
  <2> QED
    BY <1>5, Written
<1>9. Bytes(d) = Packet(FirstByte(d), l, Body(d)).bytes
  BY <1>5, <1>8 DEF Bytes
<1>10. Carries(Bytes(d), FirstByte(d), Body(d))
  <2>1. Carries(PacketWithin(Roomy, Reserved(d), FirstByte(d), Len(Body(d)), Body(d)).bytes,
                FirstByte(d), Body(d))
    BY <1>5, <1>6, <1>7, WrittenCarries
  <2> QED
    BY <1>5, <2>1 DEF Bytes
<1> QED
  BY <1>1, <1>2, <1>3, <1>6, <1>9, <1>10

\* The size reserved for it is never smaller than what is written, and larger by at most one.
LEMMA EnoughFor ==
  ASSUME NEW d \in Fitting, d.kind \in Reserving
  PROVE  LET size == Len(Bytes(d))
         IN  \A n : n \in Nat =>
               /\ Serialize(d, n).rc # BUFFER_TOO_SHORT => n >= size
               /\ n > size => Serialize(d, n).rc = size
<1> DEFINE l == Len(Body(d))
           size == Len(Bytes(d))
           r == Reserved(d)
<1>1. /\ Describes(d) /\ l \in Nat /\ l <= MaxRemLen /\ FirstByte(d) \in Byte
      /\ Body(d) \in Seq(Byte) /\ Bytes(d) = Packet(FirstByte(d), l, Body(d)).bytes
  BY OnePacket DEF Describes
<1>2. /\ size = 1 + EncodeSize(l) + l /\ EncodeSize(l) \in 1..4 /\ size \in Nat
      /\ Packet(FirstByte(d), l, Body(d)).rc = size
  <2> DEFINE p == Packet(FirstByte(d), Len(Body(d)), Body(d))
  <2>1. /\ Len(p.bytes) = 1 + EncodeSize(Len(Body(d))) + Len(Body(d)) /\ p.rc = Len(p.bytes)
        /\ EncodeSize(Len(Body(d))) \in 1..4
    BY <1>1, PacketLayout
  <2>2. size = Len(p.bytes)
    BY <1>1
  <2> HIDE DEF p, size
  <2>3. /\ size = 1 + EncodeSize(l) + l /\ EncodeSize(l) \in 1..4 /\ p.rc = size
    BY <2>1, <2>2
  <2> HIDE DEF l
  <2>4. size \in Nat
    BY <1>1, <2>3
  <2> QED
    BY <2>3, <2>4 DEF p, l, size
<1>3. \A n : Serialize(d, n) = PacketWithin(n, r, FirstByte(d), l, Body(d))
  BY <1>1 DEF Describes
<1>4. r \in Nat /\ size <= r /\ r <= size + 1
  <2>1. CASE d.kind \in Sized
    <3>1. r = MQTTPacket_len(l)
      BY <2>1 DEF Reserved, Sized
    <3>2. size <= MQTTPacket_len(l) /\ MQTTPacket_len(l) <= size + 1
      BY <1>1, <1>2, ReservesThePacket
    <3>3. MQTTPacket_len(l) \in Nat
      <4> HIDE DEF l
      <4> QED
        BY SMT, <1>1 DEF MQTTPacket_len
    <3> QED
      BY <3>1, <3>2, <3>3
  <2>2. CASE d.kind = "ack"
    <3>1. r = 4 /\ l = 2
      <4>1. d.id \in Number
        BY <1>1, <2>2, OnePacket, Kinds
      <4> QED
        BY <2>2, <4>1, IntWritten DEF Reserved, Body, Sized
    <3>2. EncodeSize(2) = 1
      BY SMT DEF EncodeSize, Pow128
    <3> QED
      BY <1>2, <3>1, <3>2
  <2>3. CASE d.kind = "zero"
    <3>1. r = 2 /\ l = 0
      BY <2>3, EmptySeq DEF Reserved, Body, Sized
    <3>2. EncodeSize(0) = 1
      BY SMT DEF EncodeSize, Pow128
    <3> QED
      BY <1>2, <3>1, <3>2
  <2> QED
    BY <2>1, <2>2, <2>3 DEF Reserving, Sized
<1> SUFFICES ASSUME NEW n \in Nat
             PROVE  /\ Serialize(d, n).rc # BUFFER_TOO_SHORT => n >= size
                    /\ n > size => Serialize(d, n).rc = size
  OBVIOUS
<1>5. Serialize(d, n) = IF r > n THEN TooShort ELSE Packet(FirstByte(d), l, Body(d))
  BY <1>3 DEF PacketWithin
<1> HIDE DEF l, size, r
<1>6. CASE r > n
  BY <1>2, <1>4, <1>5, <1>6 DEF TooShort
<1>7. CASE ~(r > n)
  BY <1>2, <1>4, <1>5, <1>7
<1> QED
  BY <1>6, <1>7

\* What a reader gives back of what is sent is what was meant, unless it refuses it.
LEMMA ReadAsMeant ==
  ASSUME NEW d \in Fitting
  PROVE  Understood(d, Bytes(d)) = Outcome(d)
<1> DEFINE b == Bytes(d)
<1>1. d \in Messages /\ Given(d) /\ Carries(b, FirstByte(d), Body(d))
  BY OnePacket
<1> HIDE DEF b
<1>2. ASSUME d.kind = "connect" PROVE Understood(d, b) = Outcome(d)
  <2> DEFINE o == d.options
  <2>1. d.to = "server" /\ o \in Connects
    BY <1>1, <1>2, Kinds DEF Given, Connects
  <2>2. Carries(b, HeaderByte(PacketType.CONNECT, 0, 0, 0), ConnectBody(o))
    BY <1>1, <1>2 DEF FirstByte, Body
  <2> DEFINE heard == IF SecretsRefused(o) THEN Failed(0) ELSE ConnectHeard(o)
  <2>3. MQTTDeserialize_connect(b, Len(b)) = heard /\ TypeOf(b[1]) = PacketType.CONNECT
    <3>1. HasType(b, PacketType.CONNECT)
      BY <2>2, HeaderRead, TypeNumbers
    <3> HIDE DEF o
    <3> QED
      BY <2>1, <2>2, <3>1, ConnectRead DEF HasType, SecretsRefused, ShortUser, ShortPassword
  <2>4. Understood(d, b) = heard
    BY <2>1, <2>3 DEF Understood, ToServer
  <2>5. Meaning(d) = ConnectHeard(o)
    <3>1. o.willFlag = 1 =>
            [o.will EXCEPT !.topicName = Heard(@), !.message = Heard(@)]
              = [qos |-> o.will.qos, retained |-> o.will.retained,
                 topicName |-> LenString(Said(o.will.topicName)),
                 message |-> LenString(Said(o.will.message))]
      <4> SUFFICES ASSUME o.willFlag = 1
                   PROVE  [o.will EXCEPT !.topicName = Heard(@), !.message = Heard(@)]
                            = [qos |-> o.will.qos, retained |-> o.will.retained,
                               topicName |-> LenString(Said(o.will.topicName)),
                               message |-> LenString(Said(o.will.message))]
        OBVIOUS
      <4> DEFINE w == o.will
      <4>1. w \in Wills
        BY <2>1 DEF Connects, ConnectOptions
      <4> HIDE DEF w, o
      <4>2. [w EXCEPT !.topicName = Heard(@), !.message = Heard(@)]
              = [qos |-> w.qos, retained |-> w.retained,
                 topicName |-> LenString(Said(w.topicName)), message |-> LenString(Said(w.message))]
        <5>1. \A m : Heard(m) = LenString(Said(m))
          BY DEF Heard
        <5> DEFINE a == Heard(w.topicName)
                   c == Heard(w.message)
                   x == [w EXCEPT !.topicName = a]
                   y == [x EXCEPT !.message = c]
        <5>2. w \in [qos : {w.qos}, retained : {w.retained}, topicName : {w.topicName},
                     message : {w.message}]
          BY <4>1 DEF Wills
        <5> HIDE DEF a, c
        <5>3. x \in [qos : {w.qos}, retained : {w.retained}, topicName : {a}, message : {w.message}]
          BY <5>2
        <5> HIDE DEF x
        <5>4. y \in [qos : {w.qos}, retained : {w.retained}, topicName : {a}, message : {c}]
          BY <5>3
        <5> HIDE DEF y
        <5>5. y = [qos |-> w.qos, retained |-> w.retained, topicName |-> a, message |-> c]
          BY <5>4
        <5>6. x.message = w.message
          BY <5>3
        <5>7. [w EXCEPT !.topicName = Heard(@), !.message = Heard(@)] = y
          BY <5>6 DEF x, y, a, c
        <5> QED
          BY <5>1, <5>5, <5>7 DEF a, c
      <4> QED
        BY <4>2 DEF w
    <3>2. \A m : HeardOrNull(m) = HeardIf(m)
      BY DEF HeardOrNull, HeardIf, Heard
    <3>3. Meaning(d) =
            [rc |-> 1, cleansession |-> o.cleansession, keepAliveInterval |-> o.keepAliveInterval,
             clientID |-> Heard(o.clientID), willFlag |-> o.willFlag,
             will |-> IF o.willFlag = 1
                      THEN [o.will EXCEPT !.topicName = Heard(@), !.message = Heard(@)]
                      ELSE NULL,
             username |-> HeardOrNull(o.username), password |-> HeardOrNull(o.password)]
      BY <1>2 DEF Meaning
    <3> HIDE DEF o
    <3> QED
      BY <3>1, <3>2, <3>3 DEF ConnectHeard, Heard
  <2> QED
    BY <1>2, <2>4, <2>5 DEF Outcome
<1>3. ASSUME d.kind = "connack" PROVE Understood(d, b) = Outcome(d)
  <2>1. d.to = "client" /\ d.rc \in Byte /\ d.sessionPresent \in 0..1
    BY <1>1, <1>3, Kinds
  <2>2. Carries(b, HeaderByte(PacketType.CONNACK, 0, 0, 0), <<d.sessionPresent, d.rc>>)
    BY <1>1, <1>3 DEF FirstByte, Body
  <2>3. TypeOf(b[1]) = PacketType.CONNACK
    BY <2>2, HeaderRead, TypeNumbers
  <2>4. MQTTDeserialize_connack(b)
          = [rc |-> 1, sessionPresent |-> d.sessionPresent, connackRc |-> d.rc]
    BY <2>1, <2>2, ConnackRead
  <2>5. Understood(d, b) = MQTTDeserialize_connack(b)
    BY <2>1, <2>3 DEF Understood, ToClient
  <2> QED
    BY <1>3, <2>4, <2>5 DEF Outcome, Meaning
<1>4. ASSUME d.kind = "publish" PROVE Understood(d, b) = Outcome(d)
  <2>1. /\ d.to \in Sides /\ d.dup \in 0..1 /\ d.qos \in 0..2 /\ d.retained \in 0..1
        /\ d.id \in Number /\ d.topic \in MQTTString /\ d.payload \in Seq(Byte)
    BY <1>1, <1>4, Kinds
  <2>2. Carries(b, HeaderByte(PacketType.PUBLISH, d.dup, d.qos, d.retained),
                PublishBody(d.qos, d.id, d.topic, d.payload))
    BY <1>1, <1>4 DEF FirstByte, Body
  <2>3. TypeOf(b[1]) = 3
    <3>1. d.qos \in 0..3
      BY <2>1
    <3> QED
      BY <2>1, <2>2, <3>1, HeaderRead, TypeNumbers
  <2>4. MQTTDeserialize_publish(b) =
          [rc |-> 1, dup |-> d.dup, qos |-> d.qos, retained |-> d.retained,
           id |-> IF d.qos > 0 THEN d.id ELSE NULL, topic |-> LenString(Said(d.topic)),
           payloadlen |-> Len(d.payload), payload |-> d.payload]
    BY <2>1, <2>2, PublishRead
  <2>5. Understood(d, b) = MQTTDeserialize_publish(b)
    BY <2>3, TypeNumbers DEF Understood, ToServer, ToClient, Shared
  <2> QED
    BY <1>4, <2>4, <2>5 DEF Outcome, Meaning, Heard
<1>5. ASSUME d.kind = "ack" PROVE Understood(d, b) = Outcome(d)
  <2>1. d.to \in Sides /\ d.type \in Acks /\ d.dup \in 0..1 /\ d.id \in Number
    BY <1>1, <1>5, Kinds
  <2>2. Carries(b, HeaderByte(d.type, d.dup, Bit(d.type = PacketType.PUBREL), 0), WriteInt(d.id))
    BY <1>1, <1>5 DEF FirstByte, Body
  <2>3. /\ MQTTDeserialize_ack(b) = [rc |-> 1, type |-> d.type, dup |-> d.dup, id |-> d.id]
        /\ TypeOf(b[1]) = d.type
    BY <2>1, <2>2, AckRead
  <2>4. d.type \notin {1, 2, 3, 8, 9, 10, 11}
    BY <2>1, TypeNumbers
  <2>5. Understood(d, b) = MQTTDeserialize_ack(b)
    BY <2>1, <2>3, <2>4, TypeNumbers DEF Understood, ToServer, ToClient, Shared
  <2> QED
    BY <1>5, <2>3, <2>5 DEF Outcome, Meaning
<1>6. ASSUME d.kind = "subscribe" PROVE Understood(d, b) = Outcome(d)
  <2>1. /\ d.to = "server" /\ d.dup \in 0..1 /\ d.id \in Number /\ d.filters \in Seq(MQTTString)
        /\ d.qoss \in Seq(0..2) /\ Len(d.qoss) = Len(d.filters)
    BY <1>1, <1>6, Kinds DEF Given
  <2>2. Carries(b, HeaderByte(PacketType.SUBSCRIBE, d.dup, 1, 0),
                SubscribeBody(d.id, d.filters, d.qoss))
    BY <1>1, <1>6 DEF FirstByte, Body
  <2>3. TypeOf(b[1]) = 8
    BY <2>1, <2>2, HeaderRead, TypeNumbers
  <2>4. MQTTDeserialize_subscribe(b) =
          [rc |-> 1, dup |-> d.dup, id |-> d.id, filters |-> AllRead(d.filters), qoss |-> d.qoss]
    BY <2>1, <2>2, SubscribeRead
  <2>5. Understood(d, b) = MQTTDeserialize_subscribe(b)
    BY <2>1, <2>3, TypeNumbers DEF Understood, ToServer
  <2>6. AllHeard(d.filters) = AllRead(d.filters)
    BY DEF AllHeard, AllRead, Heard
  <2> QED
    BY <1>6, <2>4, <2>5, <2>6 DEF Outcome, Meaning
<1>7. ASSUME d.kind = "suback" PROVE Understood(d, b) = Outcome(d)
  <2>1. d.to = "client" /\ d.id \in Number /\ d.granted \in Seq(Byte)
    BY <1>1, <1>7, Kinds DEF Codes
  <2>2. Carries(b, HeaderByte(PacketType.SUBACK, 0, 0, 0), SubackBody(d.id, d.granted))
    BY <1>1, <1>7 DEF FirstByte, Body
  <2>3. TypeOf(b[1]) = 9
    BY <2>2, HeaderRead, TypeNumbers
  <2> DEFINE codes == [i \in DOMAIN d.granted |-> ReadChar(d.granted, i)]
  <2>4. MQTTDeserialize_suback(b, 1) =
          IF Len(d.granted) > 2 THEN Failed(-1) ELSE [rc |-> 1, id |-> d.id, granted |-> codes]
    BY <2>1, <2>2, SubackRead
  <2>5. Understood(d, b) = MQTTDeserialize_suback(b, 1)
    BY <2>1, <2>3, TypeNumbers DEF Understood, ToClient
  <2>6. Meaning(d) = [rc |-> 1, id |-> d.id, granted |-> codes]
    BY <1>7 DEF Meaning
  <2> HIDE DEF codes
  <2> QED
    BY <1>7, <2>4, <2>5, <2>6 DEF Outcome
<1>8. ASSUME d.kind = "unsubscribe" PROVE Understood(d, b) = Outcome(d)
  <2>1. d.to = "server" /\ d.dup \in 0..1 /\ d.id \in Number /\ d.filters \in Seq(MQTTString)
    BY <1>1, <1>8, Kinds
  <2>2. Carries(b, HeaderByte(PacketType.UNSUBSCRIBE, d.dup, 1, 0),
                UnsubscribeBody(d.id, d.filters))
    BY <1>1, <1>8 DEF FirstByte, Body
  <2>3. TypeOf(b[1]) = 10
    BY <2>1, <2>2, HeaderRead, TypeNumbers
  <2>4. MQTTDeserialize_unsubscribe(b) =
          [rc |-> 1, dup |-> d.dup, id |-> d.id, filters |-> AllRead(d.filters)]
    BY <2>1, <2>2, UnsubscribeRead
  <2>5. Understood(d, b) = MQTTDeserialize_unsubscribe(b)
    BY <2>1, <2>3, TypeNumbers DEF Understood, ToServer
  <2>6. AllHeard(d.filters) = AllRead(d.filters)
    BY DEF AllHeard, AllRead, Heard
  <2> QED
    BY <1>8, <2>4, <2>5, <2>6 DEF Outcome, Meaning
<1>9. ASSUME d.kind = "unsuback" PROVE Understood(d, b) = Outcome(d)
  <2>1. d.to = "client" /\ d.id \in Number
    BY <1>1, <1>9, Kinds
  <2>2. Carries(b, HeaderByte(PacketType.UNSUBACK, 0, 0, 0), WriteInt(d.id))
    BY <1>1, <1>9 DEF FirstByte, Body
  <2>3. TypeOf(b[1]) = 11
    BY <2>2, HeaderRead, TypeNumbers
  <2>4. MQTTDeserialize_unsuback(b) = [rc |-> 1, id |-> d.id]
    BY <2>1, <2>2, UnsubackRead
  <2>5. Understood(d, b) = MQTTDeserialize_unsuback(b)
    BY <2>1, <2>3, TypeNumbers DEF Understood, ToClient
  <2> QED
    BY <1>9, <2>4, <2>5 DEF Outcome, Meaning
<1>10. ASSUME d.kind = "zero" PROVE Understood(d, b) = Outcome(d)
  <2>1. d.to \in Sides /\ d.type \in {12, 13, 14}
    BY <1>1, <1>10, Kinds, TypeNumbers
  <2>2. Carries(b, HeaderByte(d.type, 0, 0, 0), << >>)
    BY <1>1, <1>10 DEF FirstByte, Body
  <2>3. TypeOf(b[1]) = d.type
    <3>1. d.type \in 0..15
      BY <2>1
    <3> QED
      BY <2>2, <3>1, HeaderRead
  <2>4. Understood(d, b) = [rc |-> 1]
    BY <2>1, <2>3, TypeNumbers DEF Understood, ToServer, ToClient, Shared
  <2> QED
    BY <1>10, <2>4 DEF Outcome, Meaning
<1> QED
  BY <1>1, <1>2, <1>3, <1>4, <1>5, <1>6, <1>7, <1>8, <1>9, <1>10, Kinds DEF b

\* What is sent of a message is a packet: its length says how long it is.
LEMMA Shape ==
  ASSUME NEW d \in Fitting
  PROVE  Bytes(d) \in Packets
<1> DEFINE l == Len(Body(d))
           b == Packet(FirstByte(d), Len(Body(d)), Body(d)).bytes
<1>1. /\ FirstByte(d) \in Byte /\ Body(d) \in Seq(Byte) /\ l \in Nat /\ l <= MaxRemLen
      /\ Bytes(d) = b
  BY OnePacket DEF Describes
<1>2. /\ b \in Seq(Byte) /\ Len(b) = 1 + EncodeSize(l) + l
      /\ \A i \in 1..EncodeSize(l) : b[1 + i] = MQTTPacket_encode(l)[i]
  BY <1>1, PacketLayout
<1>3. MaxRemLen \in Nat
  BY SMT DEF MaxRemLen
<1> HIDE DEF l, b
<1>4. l \in 0..MaxRemLen
  BY <1>1, <1>3
<1> QED
  BY <1>1, <1>2, <1>4 DEF Packets

-----------------------------------------------------------------------------
(* The theorems *)

\* What is sent is packets, one for each message.
LEMMA SentPackets ==
  ASSUME msgs \in Seq(Fitting)
  PROVE  /\ Sent \in Seq(Packets) /\ Len(Sent) = Len(msgs) /\ DOMAIN Sent = DOMAIN msgs
         /\ \A k \in DOMAIN msgs : msgs[k] \in Fitting /\ Sent[k] = Bytes(msgs[k])
<1>1. DOMAIN msgs = 1..Len(msgs) /\ Len(msgs) \in Nat
  BY LenProperties
<1>2. \A k \in DOMAIN msgs : msgs[k] \in Fitting /\ Bytes(msgs[k]) \in Packets
  BY <1>1, ElementOfSeq, Shape
<1>3. Sent = [k \in 1..Len(msgs) |-> Bytes(msgs[k])]
  BY <1>1 DEF Sent
<1>4. Sent \in [1..Len(msgs) -> Packets]
  BY <1>1, <1>2, <1>3
<1>5. Sent \in Seq(Packets) /\ Len(Sent) = Len(msgs)
  BY <1>1, <1>4
<1> QED
  BY <1>1, <1>2, <1>3, <1>5

\* At the start the stream is the packets in a row, and the tail.
LEMMA Beginning ==
  ASSUME Init
  PROVE  ReaderInv
<1>1. msgs \in Seq(Fitting)
  BY ConversationsAssumption DEF Init
<1>2. Sent \in Seq(Packets)
  BY <1>1, SentPackets
<1>3. Packets \subseteq Seq(Byte)
  BY DEF Packets
<1>4. Sent \in Seq(Seq(Byte))
  BY <1>2, <1>3, SeqMonotonic
<1>5. PICK tail \in Tails : stream = FlattenSeq(Sent) \o tail
  BY DEF Init
<1>6. tail \in Seq(Byte) /\ Len(tail) \in Nat
  BY TailsAssumption, LenProperties
<1> DEFINE flat == FlattenSeq(Sent)
<1>7. flat \in Seq(Byte)
  BY <1>4, Flattened
<1>8. PICK at \in [0..Len(Sent) -> Nat] : Layout(Sent, flat, at) /\ Len(flat) = at[Len(Sent)]
  BY <1>4, Flattened
<1> HIDE DEF flat
<1>9. /\ stream \in Seq(Byte) /\ Len(stream) = Len(flat) + Len(tail)
      /\ \A i \in 1..(Len(flat) + Len(tail)) :
            stream[i] = IF i <= Len(flat) THEN flat[i] ELSE tail[i - Len(flat)]
  BY <1>5, <1>6, <1>7, ConcatProperties DEF flat
<1>10. Len(Sent) \in Nat /\ \A k \in 1..Len(Sent) : Sent[k] \in Seq(Byte) /\ Len(Sent[k]) \in Nat
  BY <1>4, LenProperties, ElementOfSeq
<1>11. \A k \in 0..Len(Sent) : at[k] \in Nat
  OBVIOUS
<1>12. \A k \in 0..Len(Sent) : at[k] <= at[Len(Sent)]
  <2> DEFINE Low == {j \in Nat : j <= Len(Sent) => at[Len(Sent) - j] <= at[Len(Sent)]}
  <2>1. 0 \in Low
    BY <1>10, <1>11
  <2>2. ASSUME NEW j \in Nat, j \in Low PROVE j + 1 \in Low
    <3> SUFFICES ASSUME j + 1 <= Len(Sent)
                 PROVE  at[Len(Sent) - (j + 1)] <= at[Len(Sent)]
      OBVIOUS
    <3>1. Len(Sent) - j \in 1..Len(Sent) /\ (Len(Sent) - j) - 1 = Len(Sent) - (j + 1)
          /\ Len(Sent) - (j + 1) \in 0..Len(Sent) /\ Len(Sent) - j \in 0..Len(Sent)
          /\ Len(Sent) \in 0..Len(Sent) /\ j <= Len(Sent)
      BY <1>10
    <3>2. at[Len(Sent) - j] = at[(Len(Sent) - j) - 1] + Len(Sent[Len(Sent) - j])
      BY <1>8, <3>1 DEF Layout
    <3>3. at[Len(Sent) - j] <= at[Len(Sent)]
      BY <2>2, <3>1
    <3> DEFINE a == at[Len(Sent) - (j + 1)]  b == at[Len(Sent) - j]  c == at[Len(Sent)]
               l == Len(Sent[Len(Sent) - j])
    <3>4. a \in Nat /\ b \in Nat /\ c \in Nat /\ l \in Nat
      BY <1>10, <1>11, <3>1
    <3>5. b = a + l /\ b <= c
      BY <3>1, <3>2, <3>3
    <3> HIDE DEF a, b, c, l
    <3>6. a <= c
      BY <3>4, <3>5
    <3> QED
      BY <3>6 DEF a, c
  <2> HIDE DEF Low
  <2>3. \A j \in Nat : j \in Low
    BY <2>1, <2>2, Induction
  <2> SUFFICES ASSUME NEW k \in 0..Len(Sent) PROVE at[k] <= at[Len(Sent)]
    OBVIOUS
  <2>4. Len(Sent) - k \in Nat /\ Len(Sent) - k <= Len(Sent) /\ Len(Sent) - (Len(Sent) - k) = k
    BY <1>10
  <2> QED
    BY <2>3, <2>4 DEF Low
<1>13. Layout(Sent, stream, at)
  <2> SUFFICES ASSUME NEW k \in 1..Len(Sent), NEW i \in 1..Len(Sent[k])
               PROVE  stream[at[k - 1] + i] = Sent[k][i]
    BY <1>8 DEF Layout
  <2>1. at[k] = at[k - 1] + Len(Sent[k]) /\ flat[at[k - 1] + i] = Sent[k][i]
    BY <1>8 DEF Layout
  <2>2. k - 1 \in 0..Len(Sent) /\ k \in 0..Len(Sent) /\ Len(Sent[k]) \in Nat
    BY <1>10
  <2>3. at[k - 1] \in Nat /\ at[k] \in Nat /\ at[k] <= Len(flat) /\ Len(flat) \in Nat
    BY <1>7, <1>8, <1>11, <1>12, <2>2, LenProperties
  <2>4. at[k - 1] + i \in 1..(Len(flat) + Len(tail)) /\ at[k - 1] + i <= Len(flat)
    <3>1. at[k - 1] + i <= at[k] /\ at[k - 1] + i >= 1 /\ at[k - 1] + i \in Nat
      BY <2>1, <2>2, <2>3
    <3> QED
      BY <1>6, <2>3, <3>1
  <2> QED
    BY <1>9, <2>1, <2>4
<1>14. Layout(Sent, stream, At) /\ At \in [0..Len(Sent) -> Nat]
  <2>1. \E a \in [0..Len(Sent) -> Nat] : Layout(Sent, stream, a)
    BY <1>13
  <2> QED
    BY <2>1 DEF At, AtOf
<1>15. At[Len(Sent)] = at[Len(Sent)] /\ At[0] = 0
  <2> DEFINE Same == {j \in Nat : j <= Len(Sent) => At[j] = at[j]}
  <2>1. 0 \in Same
    BY <1>13, <1>14 DEF Layout
  <2>2. ASSUME NEW j \in Nat, j \in Same PROVE j + 1 \in Same
    <3> SUFFICES ASSUME j + 1 <= Len(Sent) PROVE At[j + 1] = at[j + 1]
      OBVIOUS
    <3>1. j + 1 \in 1..Len(Sent) /\ (j + 1) - 1 = j /\ j <= Len(Sent)
      BY <1>10
    <3>2. At[j] = at[j]
      BY <2>2, <3>1
    <3>3. At[j + 1] = At[(j + 1) - 1] + Len(Sent[j + 1]) /\ at[j + 1] = at[(j + 1) - 1] + Len(Sent[j + 1])
      BY <1>13, <1>14, <3>1 DEF Layout
    <3> QED
      BY <3>1, <3>2, <3>3
  <2> HIDE DEF Same
  <2>3. \A j \in Nat : j \in Same
    BY <2>1, <2>2, Induction
  <2> QED
    BY <1>10, <1>14, <2>3 DEF Same, Layout
<1>16. StreamInv
  <2>1. \A i \in 1..Len(tail) : stream[At[Len(Sent)] + i] = tail[i]
    <3> SUFFICES ASSUME NEW i \in 1..Len(tail) PROVE stream[At[Len(Sent)] + i] = tail[i]
      OBVIOUS
    <3>1. At[Len(Sent)] = Len(flat) /\ Len(flat) \in Nat
      BY <1>7, <1>8, <1>15, LenProperties
    <3>2. Len(flat) + i \in 1..(Len(flat) + Len(tail)) /\ ~(Len(flat) + i <= Len(flat))
          /\ (Len(flat) + i) - Len(flat) = i
      BY <1>6, <3>1
    <3> QED
      BY <1>9, <3>1, <3>2
  <2>2. Len(stream) = At[Len(Sent)] + Len(tail)
    BY <1>8, <1>9, <1>15
  <2> QED
    BY <1>2, <1>14, <2>1, <2>2 DEF StreamInv
<1>17. /\ taken = 0 /\ state = 0 /\ multiplier = 0 /\ rem_len = 0 /\ len = 0
       /\ buf = [i \in 1..BufLen |-> 0] /\ rc = 0 /\ got = << >>
  BY DEF Init, ReaderInit
<1>18. TypeInv
  <2>1. taken \in 0..Len(stream) /\ len \in 0..BufLen
    BY <1>9, <1>17, LenProperties, BufLenAssumption
  <2>2. rem_len \in 0..MaxRemLen
    <3>1. 0 \in 0..MaxRemLen
      <4>1. MaxRemLen \in Nat
        BY SMT DEF MaxRemLen
      <4> QED
        BY <4>1
    <3> QED
      BY <1>17, <3>1
  <2>3. buf \in [1..BufLen -> Byte]
    BY <1>17 DEF Byte
  <2> QED
    BY <1>9, <1>17, <2>1, <2>2, <2>3 DEF TypeInv, TypeOK
<1>19. GotSent /\ Position
  <2>1. Len(got) = 0
    BY <1>17
  <2> QED
    BY <1>10, <1>15, <1>17, <2>1 DEF GotSent, Position, Here
<1> QED
  BY <1>16, <1>18, <1>19 DEF ReaderInv

\* The reader never stores a byte outside the caller's buffer, and what it counts stays within
\* what a remaining length can be, whatever comes and in whatever pieces (MQTTPacket.c:330-411).
THEOREM ReaderStaysInBuffer == Spec => []TypeOK
<1>1. ReaderInv => TypeOK
  BY DEF ReaderInv, TypeInv
<1> QED
  BY <1>1, Beginning, ReaderStep, PTL DEF Spec

\* A step gives away one packet at most.
LEMMA OneAtATime ==
  ASSUME ReaderInv, Next
  PROVE  Sent' = Sent /\ (got' = got \/ \E p : got' = Append(got, p))
<1>1. Sent' = Sent
  BY DEF Next, Sent
<1> QED
  BY <1>1 DEF Next, ReaderNext, ReadHeader, LengthTooLong, ReadLength, ReadBody, ReadFails,
              CallAgain, Complete, Fail

\* A step of the reader hands on the next packet of the channel, or nothing.
LEMMA GivesTheNext ==
  ASSUME ReaderInv, [Next]_<<vars, msgs>>
  PROVE  [Channel!Handle]_<<Sent, got>>
<1>1. CASE UNCHANGED <<vars, msgs>>
  BY <1>1 DEF vars, Sent
<1>2. CASE Next
  <2>1. CASE got' = got
    BY <1>2, <2>1, OneAtATime
  <2>2. ASSUME NEW p, got' = Append(got, p) PROVE Channel!Handle
    <3>1. got \in Seq(Seq(Byte)) /\ got' \in Seq(Seq(Byte)) /\ Len(got) \in Nat
          /\ Sent' = Sent
      BY <1>2, OneAtATime, ReaderStep, Landmarks DEF ReaderInv, TypeInv
    <3>2. Len(got') = Len(got) + 1 /\ got'[Len(got) + 1] = p
      BY <2>2, <3>1
    <3>3. Len(got') <= Len(Sent) /\ got'[Len(got) + 1] = Sent[Len(got) + 1]
      <4>1. Len(got') <= Len(Sent') /\ \A k \in 1..Len(got') : got'[k] = Sent'[k]
        BY ReaderStep DEF ReaderInv, GotSent
      <4> QED
        BY <3>1, <3>2, <4>1
    <3>4. Len(Sent) \in Nat
      BY Landmarks
    <3> QED
      BY <2>2, <3>1, <3>2, <3>3, <3>4 DEF Channel!Handle
  <2> QED
    BY <1>2, <2>1, <2>2, OneAtATime
<1> QED
  BY <1>1, <1>2

\* The blocking reader takes the same bytes for the packet that readnb has given away.
LEMMA Blocking ==
  ASSUME ReaderInv
  PROVE  BlockingReadAgrees
<1> SUFFICES ASSUME state = 0, rc > 0
             PROVE  got[Len(got)] = MQTTPacket_read(stream, (taken - len) + 1)
  BY DEF BlockingReadAgrees
<1> DEFINE k == Len(got)
           q == got[k]
           p == At[k - 1] + 1
<1>1. rc # -1
  BY DEF ReaderInv, TypeInv, TypeOK
<1>2. taken = Here /\ k > 0 /\ len = Len(q)
  BY <1>1 DEF ReaderInv, Position
<1>3. k \in 1..Len(got) /\ k \in 1..Len(Sent) /\ k - 1 \in 0..Len(Sent) /\ k \in 0..Len(Sent)
      /\ At \in [0..Len(Sent) -> Nat]
  BY <1>2, Landmarks
<1>4. q = Sent[k] /\ q \in Packets /\ Len(q) <= BufLen
  <2>1. q = Sent[k]
    BY <1>3 DEF ReaderInv, GotSent
  <2>2. Sent[k] \in Packets
    BY <1>3, ElementOfSeq DEF ReaderInv, StreamInv
  <2>3. k \in DOMAIN got
    BY <1>3, Landmarks
  <2> QED
    BY <2>1, <2>2, <2>3, BufLenAssumption DEF ReaderInv, TypeInv, TypeOK
<1>5. At[k] = At[k - 1] + Len(q) /\ \A i \in 1..Len(q) : stream[At[k - 1] + i] = q[i]
  BY <1>3, <1>4 DEF ReaderInv, StreamInv, Layout
<1>6. PICK rem \in 0..MaxRemLen : /\ Len(q) = 1 + EncodeSize(rem) + rem
                                 /\ \A i \in 1..EncodeSize(rem) : q[1 + i] = MQTTPacket_encode(rem)[i]
  BY <1>4 DEF Packets
<1>7. /\ rem \in Nat /\ rem <= MaxRemLen /\ EncodeSize(rem) \in 1..4
      /\ MQTTPacket_encode(rem) \in Seq(Byte) /\ Len(MQTTPacket_encode(rem)) = EncodeSize(rem)
  BY EncodedBytes
<1>8. (taken - len) + 1 = p /\ p \in Nat /\ p >= 1 /\ p = At[k - 1] + 1 /\ At[k - 1] \in Nat
      /\ q \in Seq(Byte) /\ Len(q) \in Nat
  <2>1. q \in Seq(Byte) /\ Len(q) \in Nat /\ At[k - 1] \in Nat
    BY <1>3, <1>4, LenProperties DEF Packets
  <2> QED
    BY <1>2, <1>5, <2>1 DEF Here
<1> DEFINE n == EncodeSize(rem)
           head == <<stream[p]>> \o MQTTPacket_encode(rem)
           body == SubSeq(stream, p + 1 + n, (p + 1 + n) + rem - 1)
<1> HIDE DEF p, q, k
<1>9. MQTTPacket_decodeBuf(stream, p + 1) = [len |-> n, value |-> rem]
  <2>1. ASSUME NEW i \in 1..n PROVE stream[(p + 1) + i - 1] = MQTTPacket_encode(rem)[i]
    <3>1. 1 + i \in 1..Len(q) /\ (p + 1) + i - 1 = At[k - 1] + (1 + i)
      <4> DEFINE a == At[k - 1]
      <4>1. a \in Nat /\ p = a + 1 /\ i \in Nat /\ i >= 1 /\ i <= n
        BY <1>7, <1>8
      <4>2. 1 + i <= Len(q)
        BY <1>6, <1>7, <1>8, <4>1
      <4> HIDE DEF a
      <4>3. (p + 1) + i - 1 = a + (1 + i)
        BY <4>1
      <4> QED
        BY <1>8, <4>1, <4>2, <4>3 DEF a
    <3> QED
      BY <1>5, <1>6, <3>1
  <2>2. p + 1 \in Nat
    BY <1>8
  <2> QED
    BY <1>7, <2>1, <2>2, LengthRoundTrip
<1>10. stream[p] = q[1] /\ q[1] \in Byte
  <2>1. 1 \in 1..Len(q)
    BY <1>6, <1>7
  <2> QED
    BY <1>5, <1>8, <2>1, ElementOfSeq
<1>11. head \in Seq(Byte) /\ Len(head) = 1 + n
       /\ \A i \in 1..(1 + n) : head[i] = q[i]
  <2>1. <<stream[p]>> \in Seq(Byte) /\ Len(<<stream[p]>>) = 1 /\ <<stream[p]>>[1] = stream[p]
    BY <1>10
  <2>2. /\ head \in Seq(Byte) /\ Len(head) = 1 + n
        /\ \A i \in 1..(1 + n) : head[i] = IF i <= 1 THEN <<stream[p]>>[i]
                                           ELSE MQTTPacket_encode(rem)[i - 1]
    BY <1>7, <2>1, ConcatProperties
  <2> HIDE DEF head
  <2>3. ASSUME NEW i \in 1..(1 + n) PROVE head[i] = q[i]
    <3>1. CASE i = 1
      BY <1>10, <2>1, <2>2, <3>1
    <3>2. CASE i # 1
      <4>1. i - 1 \in 1..n /\ 1 + (i - 1) = i /\ ~(i <= 1)
        BY <1>7, <3>2
      <4>2. q[1 + (i - 1)] = MQTTPacket_encode(rem)[i - 1]
        BY <1>6, <4>1
      <4> QED
        BY <2>2, <4>1, <4>2
    <3> QED
      BY <3>1, <3>2
  <2> QED
    BY <2>2, <2>3
<1>12. /\ body \in Seq(Byte) /\ Len(body) = rem
       /\ \A i \in 1..rem : body[i] = q[1 + n + i]
  <2>1. ASSUME NEW j \in (p + 1 + n)..((p + 1 + n) + rem - 1)
        PROVE  stream[j] = q[j - p + 1] /\ stream[j] \in Byte
    <3>1. j - p + 1 \in 1..Len(q) /\ At[k - 1] + (j - p + 1) = j
      <4> DEFINE a == At[k - 1]
      <4>1. a \in Nat /\ p = a + 1 /\ n \in 1..4 /\ rem \in Nat /\ j \in Int
            /\ j >= p + 1 + n /\ j <= (p + 1 + n) + rem - 1
        BY <1>7, <1>8
      <4> HIDE DEF a
      <4>2. a + (j - p + 1) = j /\ j - p + 1 \in Nat /\ j - p + 1 >= 1
        BY <4>1
      <4>3. j - p + 1 <= 1 + n + rem
        BY <4>1
      <4> QED
        BY <1>6, <1>8, <4>2, <4>3 DEF a
    <3> QED
      BY <1>5, <1>8, <3>1, ElementOfSeq
  <2> DEFINE a == p + 1 + n
             z == (p + 1 + n) + rem - 1
  <2>2. a \in Int /\ z \in Int /\ z - a + 1 = rem /\ (IF a <= z THEN z - a + 1 ELSE 0) = rem
    BY SMTT(30), <1>7, <1>8
  <2>3. /\ SubSeq(stream, a, z) \in Seq(Byte)
        /\ Len(SubSeq(stream, a, z)) = IF a <= z THEN z - a + 1 ELSE 0
        /\ \A i \in 1..(z - a + 1) : SubSeq(stream, a, z)[i] = stream[a + i - 1]
    <3>1. \A j \in a..z : stream[j] \in Byte
      BY <2>1
    <3> HIDE DEF a, z
    <3> QED
      BY <2>2, <3>1, SubSeqProperties
  <2>4. ASSUME NEW i \in 1..rem PROVE stream[a + i - 1] = q[1 + n + i]
    <3>1. a + i - 1 \in (p + 1 + n)..((p + 1 + n) + rem - 1) /\ (a + i - 1) - p + 1 = 1 + n + i
      <4>1. p \in Nat /\ n \in 1..4 /\ rem \in Nat /\ i \in Nat /\ i >= 1 /\ i <= rem
        BY <1>7, <1>8
      <4>2. a + i - 1 >= p + 1 + n /\ a + i - 1 <= (p + 1 + n) + rem - 1 /\ a + i - 1 \in Int
        BY <4>1
      <4>3. (a + i - 1) - p + 1 = 1 + n + i
        BY <4>1
      <4>4. (p + 1 + n) \in Int /\ (p + 1 + n) + rem - 1 \in Int
        BY <4>1
      <4> QED
        BY <4>2, <4>3, <4>4
    <3> QED
      BY <2>1, <3>1
  <2> QED
    BY <2>2, <2>3, <2>4
<1>13. head \o body = q
  <2>1. /\ head \o body \in Seq(Byte) /\ Len(head \o body) = (1 + n) + rem
        /\ \A i \in 1..((1 + n) + rem) : (head \o body)[i] = IF i <= 1 + n THEN head[i]
                                                          ELSE body[i - (1 + n)]
    <3>0. head \in Seq(Byte) /\ body \in Seq(Byte) /\ Len(head) = 1 + n /\ Len(body) = rem
      BY <1>11, <1>12
    <3> HIDE DEF head, body
    <3>1. /\ head \o body \in Seq(Byte) /\ Len(head \o body) = Len(head) + Len(body)
          /\ \A i \in 1..(Len(head) + Len(body)) :
                (head \o body)[i] = IF i <= Len(head) THEN head[i] ELSE body[i - Len(head)]
      BY <3>0, ConcatProperties
    <3> QED
      BY <3>0, <3>1
  <2> HIDE DEF head, body
  <2>2. ASSUME NEW i \in 1..Len(q) PROVE (head \o body)[i] = q[i]
    <3>1. i \in 1..((1 + n) + rem)
      BY <1>6
    <3>2. CASE i <= 1 + n
      <4>1. i \in 1..(1 + n)
        BY <1>7, <3>2
      <4> QED
        BY <1>11, <2>1, <3>1, <3>2, <4>1
    <3>3. CASE ~(i <= 1 + n)
      <4>1. i - (1 + n) \in 1..rem /\ 1 + n + (i - (1 + n)) = i
        BY <1>7, <3>1, <3>3
      <4> QED
        BY <1>12, <2>1, <3>1, <3>3, <4>1
    <3> QED
      BY <3>2, <3>3
  <2>3. Len(head \o body) = Len(q)
    BY <1>6, <1>7, <2>1
  <2> QED
    BY <1>8, <2>1, <2>2, <2>3, SeqEqual
<1>14. MQTTPacket_read(stream, p) = IF Len(head) + rem > BufLen THEN << >> ELSE head \o body
  <2>1. n # 5
    BY <1>7
  <2> QED
    BY <1>9, <2>1 DEF MQTTPacket_read
<1>15. ~(Len(head) + rem > BufLen)
  <2>1. Len(head) + rem = Len(q)
    BY <1>6, <1>7, <1>11
  <2> QED
    BY <1>4, <1>8, <2>1, BufLenAssumption
<1> QED
  BY <1>8, <1>13, <1>14, <1>15 DEF q, k

\* However the transport cuts the bytes up, the caller is given the packets that were sent, one by
\* one, whole and in order: the reader implements the channel (MQTTPacket.c:362-411), and the
\* blocking reader agrees with it (MQTTPacket.c:290-327).
THEOREM PacketsArriveAsSent == Spec => PacketsAsSent
<1>1. Init => Channel!Init
  BY DEF Init, ReaderInit, Channel!Init
<1>2. ReaderInv => BlockingReadAgrees
  BY Blocking
<1>3. ReaderInv /\ [Next]_<<vars, msgs>> => [Channel!Handle]_<<Sent, got>>
  BY GivesTheNext
<1> QED
  BY <1>1, <1>2, <1>3, Beginning, ReaderStep, PTL DEF Spec, PacketsAsSent, Channel!Spec

\* The conversation is one of messages that can be sent, from the start to the end.
Conversing == msgs \in Seq(Fitting)

\* No step changes the conversation.
LEMMA ConversationStays == Spec => []Conversing
<1>1. Init => Conversing
  BY ConversationsAssumption DEF Init, Conversing
<1>2. Conversing /\ [Next]_<<vars, msgs>> => Conversing'
  BY DEF Next, Conversing
<1> QED
  BY <1>1, <1>2, PTL DEF Spec

\* A reader gives back, field by field, what the writer was given, for every message that can be
\* sent and however it arrives: CONNECT with its will, user name and password, lists of filters
\* of any length, payloads up to the longest packet; and it refuses exactly the CONNECTs and
\* SUBACKs that Outcome names (the MQTTSerialize_* and MQTTDeserialize_* functions).
THEOREM ReadersUnderstand == Spec => []UnderstoodAsMeant
<1>1. ReaderInv /\ Conversing => UnderstoodAsMeant
  <2> SUFFICES ASSUME ReaderInv, msgs \in Seq(Fitting), Newest \in DOMAIN msgs
               PROVE  Understood(msgs[Newest], got[Newest]) = Outcome(msgs[Newest])
    BY DEF UnderstoodAsMeant, Conversing
  <2>1. msgs[Newest] \in Fitting /\ Sent[Newest] = Bytes(msgs[Newest]) /\ Newest \in 1..Len(msgs)
    BY SentPackets, LenProperties
  <2>2. Newest \in 1..Len(got)
    BY <2>1, Landmarks DEF Newest
  <2>3. got[Newest] = Sent[Newest]
    BY <2>2 DEF ReaderInv, GotSent
  <2> QED
    BY <2>1, <2>3, ReadAsMeant
<1> QED
  BY <1>1, ConversationStays, Beginning, ReaderStep, PTL DEF Spec

\* MQTTPacket_len and the fixed sizes are never smaller than what the function then writes, and
\* larger by one byte at most: no buffer is overrun and none refused without need, for every
\* message that can be sent (MQTTPacket.c:84-98).
THEOREM SerialisersReserveEnough == Spec => []ReservesEnough
<1>1. Conversing => ReservesEnough
  <2> SUFFICES ASSUME msgs \in Seq(Fitting), NEW k \in DOMAIN msgs, msgs[k].kind \in Reserving
               PROVE  LET size == Len(Bytes(msgs[k]))
                      IN  \A n \in {0, size - 1, size, size + 1} :
                            /\ Serialize(msgs[k], n).rc # BUFFER_TOO_SHORT => n >= size
                            /\ n > size => Serialize(msgs[k], n).rc = size
    BY DEF ReservesEnough, Conversing
  <2> DEFINE d == msgs[k]
             size == Len(Bytes(d))
  <2>1. d \in Fitting
    BY SentPackets
  <2>2. size \in Nat /\ size # 0
    <3>1. Bytes(d) \in Packets
      BY <2>1, Shape
    <3> DEFINE max == MaxRemLen
    <3>2. max \in Nat
      BY SMT DEF MaxRemLen
    <3> HIDE DEF max
    <3>3. PICK rem \in 0..max : size = 1 + EncodeSize(rem) + rem
      BY <3>1 DEF Packets, max
    <3>4. rem \in Nat /\ EncodeSize(rem) \in 1..4
      <4>1. rem \in Nat /\ rem <= max
        BY <3>2
      <4> QED
        BY <4>1, EncodedBytes DEF max
    <3> HIDE DEF size
    <3> QED
      BY <3>3, <3>4
  <2>3. \A n \in Nat : /\ Serialize(d, n).rc # BUFFER_TOO_SHORT => n >= size
                       /\ n > size => Serialize(d, n).rc = size
    BY <2>1, EnoughFor
  <2> HIDE DEF d, size
  <2>4. {0, size - 1, size, size + 1} \subseteq Nat
    BY <2>2
  <2>5. \A n \in {0, size - 1, size, size + 1} :
          /\ Serialize(d, n).rc # BUFFER_TOO_SHORT => n >= size
          /\ n > size => Serialize(d, n).rc = size
    BY <2>3, <2>4
  <2> QED
    BY <2>5 DEF d, size
<1> QED
  BY <1>1, ConversationStays, PTL DEF Spec

-----------------------------------------------------------------------------
(* Matching a topic with a filter *)

\* A set of natural numbers has a least element.
LEMMA Least ==
  ASSUME NEW T \in SUBSET Nat, T # {}
  PROVE  \E n \in T : \A m \in T : n <= m
<1>1. PICK n \in T : \A m \in T : ~ (<<m, n>> \in OpToRel(<, Nat))
  BY NatLessThanWellFounded, WFMin
<1>2. \A m \in T : ~ (m < n)
  <2> TAKE m \in T
  <2>1. <<m, n>> \notin {ss \in Nat \X Nat : ss[1] < ss[2]}
    BY <1>1 DEF OpToRel
  <2> QED BY <2>1
<1> QED BY <1>2

\* The next separator is the first one behind, or the end.
LEMMA NextSeparatorIs ==
  ASSUME NEW S, NEW s \in Seq(S), NEW n \in 1..Len(s)
  PROVE  /\ NextSeparator(s, n) \in (n + 1)..(Len(s) + 1)
         /\ NextSeparator(s, n) = Len(s) + 1 \/ s[NextSeparator(s, n)] = Slash
         /\ \A k \in (n + 1)..(NextSeparator(s, n) - 1) : s[k] # Slash
<1>0. Len(s) \in Nat
  BY LenProperties
<1> DEFINE T == {m \in (n + 1)..(Len(s) + 1) : m = Len(s) + 1 \/ s[m] = Slash}
<1>1. T \in SUBSET Nat /\ Len(s) + 1 \in T
  BY <1>0
<1>2. PICK m \in T : \A k \in T : m <= k
  BY <1>1, Least
<1>3. /\ m \in (n + 1)..(Len(s) + 1) /\ (m = Len(s) + 1 \/ s[m] = Slash)
      /\ \A k \in (n + 1)..(m - 1) : s[k] # Slash
  BY <1>0, <1>2
<1> QED BY <1>3 DEF NextSeparator

\* match[f][n], from the row of the next character of the filter
After(filter, name, f, n) == IF filter[f] = Plus THEN NextSeparator(name, n)
                             ELSE IF filter[f] = Hash THEN Len(name) + 1 ELSE n + 1
RowFits(filter, name, f, n, row) ==
  IF f > Len(filter) \/ n > Len(name) THEN f > Len(filter) /\ n > Len(name)
  ELSE IF name[n] = Slash /\ filter[f] # Slash THEN FALSE
  ELSE IF filter[f] \notin {Plus, Hash, name[n]} THEN FALSE
  ELSE row[After(filter, name, f, n)]
RowOf(filter, name, f, row) == [n \in 1..(Len(name) + 1) |-> RowFits(filter, name, f, n, row)]

\* Behind the filter's last character no further row is looked at.
LEMMA LastRow ==
  ASSUME NEW S, NEW filter \in Seq(S), NEW name \in Seq(S), NEW f \in Int, f > Len(filter),
         NEW row1, NEW row2
  PROVE  RowOf(filter, name, f, row1) = RowOf(filter, name, f, row2)
<1>1. ASSUME NEW n \in 1..(Len(name) + 1)
      PROVE  RowFits(filter, name, f, n, row1) = RowFits(filter, name, f, n, row2)
  BY DEF RowFits
<1> QED BY <1>1 DEF RowOf

\* The recursion of isTopicMatched has a solution.
LEMMA MatchIs ==
  ASSUME NEW S, NEW filter \in Seq(S), NEW name \in Seq(S)
  PROVE  \E match :
           /\ \A f \in 1..(Len(filter) + 1) : match[f] = RowOf(filter, name, f, match[f + 1])
           /\ isTopicMatched(filter, name) = match[1][1]
<1> DEFINE F == 1..(Len(filter) + 1)
           IsF(m) == m = [f \in F |-> RowOf(filter, name, f, m[f + 1])]
           M == CHOOSE m : IsF(m)
           Upto(m, d) == \A f \in F : f + d > Len(filter) => m[f] = RowOf(filter, name, f, m[f + 1])
           T == {d \in Nat : \E m : Upto(m, d)}
<1>0. Len(filter) \in Nat /\ Len(name) \in Nat
  BY LenProperties
<1>1. isTopicMatched(filter, name) = M[1][1]
  BY DEF isTopicMatched, RowOf, RowFits, After
<1>2. 0 \in T
  <2> DEFINE m0 == [f \in F |-> RowOf(filter, name, f, f)]
  <2>1. ASSUME NEW f \in F, f + 0 > Len(filter) PROVE m0[f] = RowOf(filter, name, f, m0[f + 1])
    <3>1. f = Len(filter) + 1
      BY <1>0, <2>1
    <3>2. m0[f] = RowOf(filter, name, f, f)
      OBVIOUS
    <3>3. f \in Int /\ f > Len(filter)
      BY <1>0, <3>1
    <3> HIDE DEF m0
    <3> QED BY <3>2, <3>3, LastRow
  <2> HIDE DEF m0, F
  <2> QED BY <2>1
<1>3. ASSUME NEW d \in Nat, d \in T PROVE d + 1 \in T
  <2>1. PICK m : Upto(m, d)
    BY <1>3
  <2> DEFINE g == [f \in F |-> IF f + d = Len(filter) THEN RowOf(filter, name, f, m[f + 1]) ELSE m[f]]
  <2>2. ASSUME NEW f \in F, f + (d + 1) > Len(filter) PROVE g[f] = RowOf(filter, name, f, g[f + 1])
    <3>1. g[f] = RowOf(filter, name, f, m[f + 1])
      BY <1>0, <2>1, <2>2
    <3>2. CASE f = Len(filter) + 1
      <4>1. f \in Int /\ f > Len(filter)
        BY <1>0, <3>2
      <4> HIDE DEF g
      <4> QED BY <3>1, <4>1, LastRow
    <3>3. CASE f # Len(filter) + 1
      <4>1. g[f + 1] = m[f + 1]
        BY <1>0, <2>2, <3>3
      <4> HIDE DEF g
      <4> QED BY <3>1, <4>1
    <3> QED BY <3>2, <3>3
  <2> HIDE DEF g, F
  <2>3. Upto(g, d + 1)
    BY <2>2
  <2> QED BY <2>3
<1>4. Len(filter) \in T
  <2> HIDE DEF T
  <2> QED BY <1>0, <1>2, <1>3, Induction
<1>5. PICK m : Upto(m, Len(filter))
  BY <1>4
<1>6. \E m2 : IsF(m2)
  <2> DEFINE e == [f \in F |-> m[f]]
  <2>1. ASSUME NEW f \in F PROVE e[f] = RowOf(filter, name, f, e[f + 1])
    <3>1. e[f] = RowOf(filter, name, f, m[f + 1])
      BY <1>0, <1>5
    <3>2. CASE f = Len(filter) + 1
      <4>1. f \in Int /\ f > Len(filter)
        BY <1>0, <3>2
      <4> HIDE DEF e
      <4> QED BY <3>1, <4>1, LastRow
    <3>3. CASE f # Len(filter) + 1
      <4>1. e[f + 1] = m[f + 1]
        BY <1>0, <3>3
      <4> HIDE DEF e
      <4> QED BY <3>1, <4>1
    <3> QED BY <3>2, <3>3
  <2>2. e = [f \in F |-> RowOf(filter, name, f, e[f + 1])]
    <3>1. e = [f \in F |-> e[f]]
      OBVIOUS
    <3> HIDE DEF e, F
    <3> QED BY <2>1, <3>1
  <2> QED BY <2>2
<1>7. IsF(M)
  <2> HIDE DEF IsF
  <2> QED BY <1>6
<1>8. \A f \in F : M[f] = RowOf(filter, name, f, M[f + 1])
  <2> HIDE DEF M, F
  <2> QED BY <1>7
<1> HIDE DEF M
<1> QED BY <1>1, <1>8

-----------------------------------------------------------------------------
(* Levels *)

Seps(s) == {i \in DOMAIN s : s[i] = Slash}
Before(s, i) == Cardinality({j \in Seps(s) : j < i})

\* Separators are counted.
LEMMA SepsFinite ==
  ASSUME NEW S, NEW s \in Seq(S)
  PROVE  /\ Len(s) \in Nat /\ DOMAIN s = 1..Len(s)
         /\ Seps(s) \subseteq 1..Len(s) /\ IsFiniteSet(Seps(s)) /\ Cardinality(Seps(s)) \in Nat
         /\ \A i \in Int : /\ IsFiniteSet({j \in Seps(s) : j < i}) /\ Before(s, i) \in Nat
                           /\ Before(s, i) <= Cardinality(Seps(s))
<1>1. Len(s) \in Nat /\ DOMAIN s = 1..Len(s) /\ Seps(s) \subseteq 1..Len(s)
  BY LenProperties DEF Seps
<1>2. IsFiniteSet(1..Len(s))
  BY <1>1, FS_Interval
<1>3. IsFiniteSet(Seps(s)) /\ Cardinality(Seps(s)) \in Nat
  BY <1>1, <1>2, FS_Subset, FS_CardinalityType
<1>4. ASSUME NEW i \in Int
      PROVE  /\ IsFiniteSet({j \in Seps(s) : j < i}) /\ Before(s, i) \in Nat
             /\ Before(s, i) <= Cardinality(Seps(s))
  <2> DEFINE T == {j \in Seps(s) : j < i}
  <2>1. T \subseteq Seps(s)
    OBVIOUS
  <2>2. IsFiniteSet(T) /\ Cardinality(T) <= Cardinality(Seps(s)) /\ Cardinality(T) \in Nat
    <3> HIDE DEF T
    <3> QED BY <1>3, <2>1, FS_Subset, FS_CardinalityType
  <2> QED BY <2>2 DEF Before
<1> QED BY <1>1, <1>3, <1>4

\* A separator counts for every place behind it.
LEMMA BeforeRises ==
  ASSUME NEW S, NEW s \in Seq(S), NEW i \in Seps(s)
  PROVE  /\ \A k \in Int : i < k => Before(s, i) < Before(s, k)
         /\ Before(s, i) < Cardinality(Seps(s))
<1> DEFINE T(k) == {j \in Seps(s) : j < k}
<1>1. i \in Int /\ Seps(s) \subseteq Int /\ IsFiniteSet(Seps(s)) /\ i \notin T(i) /\ T(i) \subseteq Seps(s)
  BY SepsFinite
<1>2. ASSUME NEW k \in Int, i < k PROVE Before(s, i) < Before(s, k)
  <2>1. T(i) \subseteq T(k) /\ i \in T(k) /\ IsFiniteSet(T(k))
    BY <1>1, <1>2, SepsFinite
  <2>2. Cardinality(T(i)) < Cardinality(T(k))
    <3> HIDE DEF T
    <3>1. T(i) # T(k)
      BY <1>1, <2>1
    <3>2. Cardinality(T(i)) <= Cardinality(T(k)) /\ (Cardinality(T(i)) = Cardinality(T(k)) => T(i) = T(k))
      BY <2>1, FS_Subset
    <3>3. Cardinality(T(i)) \in Nat /\ Cardinality(T(k)) \in Nat
      BY <2>1, FS_Subset, FS_CardinalityType
    <3> QED BY <3>1, <3>2, <3>3
  <2> QED BY <2>2 DEF Before
<1>3. Before(s, i) < Cardinality(Seps(s))
  <2>1. Cardinality(T(i)) < Cardinality(Seps(s))
    <3> HIDE DEF T
    <3>1. T(i) # Seps(s)
      BY <1>1
    <3>2. /\ Cardinality(T(i)) <= Cardinality(Seps(s))
          /\ (Cardinality(T(i)) = Cardinality(Seps(s)) => T(i) = Seps(s))
      BY <1>1, FS_Subset
    <3>3. Cardinality(T(i)) \in Nat /\ Cardinality(Seps(s)) \in Nat
      BY <1>1, FS_Subset, FS_CardinalityType
    <3> QED BY <3>1, <3>2, <3>3
  <2> QED BY <2>1 DEF Before
<1> QED BY <1>2, <1>3

\* Behind m separators there is another one, as long as there are more.
LEMMA NthExists ==
  ASSUME NEW S, NEW s \in Seq(S)
  PROVE  \A m \in Nat : m < Cardinality(Seps(s)) => \E i \in Seps(s) : Before(s, i) = m
<1> DEFINE C == Cardinality(Seps(s))
           T == {m \in Nat : m < C => \E i \in Seps(s) : Before(s, i) = m}
<1>0. Seps(s) \in SUBSET Nat /\ Seps(s) \subseteq Int /\ C \in Nat /\ IsFiniteSet(Seps(s))
  BY SepsFinite
<1>1. 0 \in T
  <2> SUFFICES ASSUME 0 < C PROVE \E i \in Seps(s) : Before(s, i) = 0
    OBVIOUS
  <2>1. Seps(s) # {}
    BY <1>0, FS_EmptySet
  <2>2. PICK i \in Seps(s) : \A j \in Seps(s) : i <= j
    BY <1>0, <2>1, Least
  <2>3. {j \in Seps(s) : j < i} = {}
    BY <1>0, <2>2
  <2>4. Before(s, i) = 0
    BY <2>3, FS_EmptySet DEF Before
  <2> QED BY <2>4
<1>2. ASSUME NEW m \in Nat, m \in T PROVE m + 1 \in T
  <2> SUFFICES ASSUME m + 1 < C PROVE \E i \in Seps(s) : Before(s, i) = m + 1
    OBVIOUS
  <2>1. PICK i \in Seps(s) : Before(s, i) = m
    BY <1>0, <1>2
  <2> DEFINE L == {j \in Seps(s) : j < i}
             U == {j \in Seps(s) : i < j}
  <2>2. IsFiniteSet(L) /\ Cardinality(L) = m /\ i \notin L /\ i \in Int
    BY <1>0, <2>1, SepsFinite DEF Before
  <2>3. Cardinality(L \cup {i}) = m + 1
    <3> HIDE DEF L
    <3> QED BY <2>2, FS_AddElement
  <2>4. U # {}
    <3>1. L \cup {i} # Seps(s)
      <4> SUFFICES ASSUME L \cup {i} = Seps(s) PROVE FALSE
        OBVIOUS
      <4>1. Cardinality(L \cup {i}) = C
        BY Zenon
      <4> HIDE DEF L, C
      <4> QED BY <1>0, <2>3, <4>1
    <3> QED BY <1>0, <3>1
  <2>5. PICK k \in U : \A j \in U : k <= j
    <3>1. U \in SUBSET Nat
      BY <1>0
    <3> HIDE DEF U
    <3> QED BY <2>4, <3>1, Least
  <2>6. {j \in Seps(s) : j < k} = L \cup {i}
    BY <1>0, <2>5
  <2>7. Before(s, k) = m + 1 /\ k \in Seps(s)
    BY <2>3, <2>6 DEF Before
  <2> QED BY <2>7
<1> HIDE DEF T
<1>3. \A m \in Nat : m \in T
  BY <1>1, <1>2, Induction
<1> QED BY <1>3 DEF T

\* s has K levels, of which the k-th is from b[k] to e[k].
Parts(s, K, b, e) ==
  /\ K \in Nat \ {0} /\ b \in [1..K -> Int] /\ e \in [1..K -> Int]
  /\ Levels(s) = [k \in 1..K |-> SubSeq(s, b[k], e[k])]
  /\ b[1] = 1 /\ e[K] = Len(s)
  /\ \A k \in 1..K : /\ 1 <= b[k] /\ b[k] <= e[k] + 1 /\ e[k] <= Len(s)
                     /\ \A i \in b[k]..e[k] : s[i] # Slash
  /\ \A k \in 1..(K - 1) : e[k] < Len(s) /\ s[e[k] + 1] = Slash /\ b[k + 1] = e[k] + 2

\* The levels are what is between the separators.
LEMMA LevelsAre ==
  ASSUME NEW S, NEW s \in Seq(S)
  PROVE  \E K, b, e : Parts(s, K, b, e)
<1> DEFINE C == Cardinality(Seps(s))
           K == C + 1
           Nth(k) == CHOOSE i \in Seps(s) : Before(s, i) = k - 1
           b == [k \in 1..K |-> IF k = 1 THEN 1 ELSE Nth(k - 1) + 1]
           e == [k \in 1..K |-> IF k = K THEN Len(s) ELSE Nth(k) - 1]
<1>0. Len(s) \in Nat /\ DOMAIN s = 1..Len(s) /\ Seps(s) \subseteq 1..Len(s) /\ C \in Nat /\ K \in Nat \ {0}
  BY SepsFinite
<1>1. ASSUME NEW k \in 1..C PROVE Nth(k) \in Seps(s) /\ Before(s, Nth(k)) = k - 1
  <2>1. k - 1 \in Nat /\ k - 1 < C
    BY <1>0
  <2>2. \E i \in Seps(s) : Before(s, i) = k - 1
    BY <2>1, NthExists
  <2> QED BY <2>2
<1>2. ASSUME NEW i \in Seps(s), NEW k \in 1..C
      PROVE  /\ Nth(k) < i => Before(s, i) > k - 1
             /\ i < Nth(k) => Before(s, i) < k - 1
  <2> HIDE DEF Nth
  <2>1. i \in Int /\ Nth(k) \in Int
    BY <1>0, <1>1
  <2> QED BY <1>1, <2>1, BeforeRises
<1>3. Levels(s) = [k \in 1..K |-> SubSeq(s, b[k], e[k])]
  <2>1. Levels(s) = [k \in 1..K |-> SubSeq(s, IF k = 1 THEN 1 ELSE Nth(k - 1) + 1,
                                           IF k = K THEN Len(s) ELSE Nth(k) - 1)]
    BY DEF Levels, Seps, Before
  <2> HIDE DEF Nth
  <2> QED BY <2>1
<1> HIDE DEF Nth
<1>4. \A k \in 1..K : b[k] = (IF k = 1 THEN 1 ELSE Nth(k - 1) + 1) /\ e[k] = IF k = K THEN Len(s) ELSE Nth(k) - 1
  OBVIOUS
<1>5. \A k \in 1..C : Nth(k) \in 1..Len(s) /\ s[Nth(k)] = Slash /\ Nth(k) \in Int
  BY <1>0, <1>1 DEF Seps
<1>6. b \in [1..K -> Int] /\ e \in [1..K -> Int]
  BY <1>0, <1>5
<1> HIDE DEF b, e
<1>7. b[1] = 1 /\ e[K] = Len(s)
  BY <1>0, <1>4
<1>8. ASSUME NEW k \in 1..(K - 1) PROVE e[k] = Nth(k) - 1 /\ b[k + 1] = Nth(k) + 1
  <2>1. k \in 1..K /\ k + 1 \in 1..K /\ k # K /\ k + 1 # 1 /\ (k + 1) - 1 = k
    BY <1>0
  <2> QED BY <1>4, <2>1
<1>9. \A k \in 1..(K - 1) : e[k] < Len(s) /\ s[e[k] + 1] = Slash /\ b[k + 1] = e[k] + 2
  BY <1>0, <1>5, <1>8
<1>10. ASSUME NEW k \in 1..K
       PROVE  /\ 1 <= b[k] /\ b[k] <= e[k] + 1 /\ e[k] <= Len(s)
              /\ \A i \in b[k]..e[k] : s[i] # Slash
  <2>1. 1 <= b[k] /\ e[k] <= Len(s)
    <3>1. (k # 1 => k - 1 \in 1..C) /\ (k # K => k \in 1..C)
      BY <1>0
    <3> HIDE DEF K, C
    <3> QED BY <1>0, <1>4, <1>5, <3>1
  <2>2. ASSUME k # 1, k # K PROVE Nth(k - 1) < Nth(k)
    <3>1. k - 1 \in 1..C /\ k \in 1..C
      BY <1>0, <2>2
    <3>2. Before(s, Nth(k)) = k - 1 /\ Nth(k) \in Seps(s) /\ Before(s, Nth(k - 1)) = (k - 1) - 1
      BY <1>1, <3>1
    <3>3. Nth(k) # Nth(k - 1)
      BY <3>2
    <3>4. ~(Nth(k) < Nth(k - 1))
      BY <1>2, <3>1, <3>2
    <3> QED BY <1>5, <3>1, <3>3, <3>4
  <2>3. b[k] <= e[k] + 1
    <3>1. CASE k = 1
      BY <1>0, <1>4, <1>5, <3>1
    <3>2. CASE k # 1 /\ k = K
      <4>1. k - 1 \in 1..C
        BY <1>0, <3>2
      <4> QED BY <1>0, <1>4, <1>5, <3>2, <4>1
    <3>3. CASE k # 1 /\ k # K
      <4>1. k - 1 \in 1..C /\ k \in 1..C
        BY <1>0, <3>3
      <4> QED BY <1>0, <1>4, <1>5, <2>2, <3>3, <4>1
    <3> QED BY <3>1, <3>2, <3>3
  <2>4. ASSUME NEW i \in b[k]..e[k], s[i] = Slash PROVE FALSE
    <3>0. i \in Int /\ b[k] \in Int /\ e[k] \in Int /\ b[k] <= i /\ i <= e[k]
      BY <1>6
    <3>1. i \in Seps(s)
      BY <1>0, <2>1, <2>4, <3>0 DEF Seps
    <3>2. k # 1 => Before(s, i) > k - 2
      <4> SUFFICES ASSUME k # 1 PROVE Before(s, i) > k - 2
        OBVIOUS
      <4>1. k - 1 \in 1..C /\ b[k] = Nth(k - 1) + 1
        BY <1>0, <1>4
      <4>2. Nth(k - 1) < i
        BY <1>5, <3>0, <4>1
      <4> QED BY <1>2, <3>1, <4>1, <4>2
    <3>3. k # K => Before(s, i) < k - 1
      <4> SUFFICES ASSUME k # K PROVE Before(s, i) < k - 1
        OBVIOUS
      <4>1. k \in 1..C /\ e[k] = Nth(k) - 1
        BY <1>0, <1>4
      <4>2. i < Nth(k)
        BY <1>5, <3>0, <4>1
      <4> QED BY <1>2, <3>1, <4>1, <4>2
    <3>4. Before(s, i) \in Nat /\ Before(s, i) < C
      BY <3>0, <3>1, SepsFinite, BeforeRises
    <3> QED BY <1>0, <3>2, <3>3, <3>4
  <2> QED BY <2>1, <2>3, <2>4
<1>11. Parts(s, K, b, e)
  <2> HIDE DEF K
  <2> QED BY <1>0, <1>3, <1>6, <1>7, <1>9, <1>10 DEF Parts
<1> QED BY <1>11

-----------------------------------------------------------------------------
(* The pass over both strings *)

\* match, without the results: the pairs from which the rest of both strings matches
Matching(filter, name, M) ==
  \A f \in 1..(Len(filter) + 1), n \in 1..(Len(name) + 1) :
    <<f, n>> \in M <=>
      \/ f = Len(filter) + 1 /\ n = Len(name) + 1
      \/ /\ f <= Len(filter) /\ n <= Len(name)
         /\ name[n] = Slash => filter[f] = Slash
         /\ filter[f] \in {Plus, Hash, name[n]}
         /\ <<f + 1, After(filter, name, f, n)>> \in M

\* isTopicMatched decides by them.
LEMMA MatchingIs ==
  ASSUME NEW S, NEW filter \in Seq(S), NEW name \in Seq(S)
  PROVE  \E M : Matching(filter, name, M) /\ (isTopicMatched(filter, name) <=> <<1, 1>> \in M)
<1>0. Len(filter) \in Nat /\ Len(name) \in Nat
  BY LenProperties
<1>1. PICK match :
        /\ \A f \in 1..(Len(filter) + 1) : match[f] = RowOf(filter, name, f, match[f + 1])
        /\ isTopicMatched(filter, name) = match[1][1]
  BY MatchIs
<1> DEFINE M == {p \in (1..(Len(filter) + 1)) \X (1..(Len(name) + 1)) : match[p[1]][p[2]]}
<1>2. ASSUME NEW f \in 1..(Len(filter) + 1), NEW n \in 1..(Len(name) + 1)
      PROVE  <<f, n>> \in M <=> match[f][n]
  OBVIOUS
<1>3. ASSUME NEW f \in 1..(Len(filter) + 1), NEW n \in 1..(Len(name) + 1)
      PROVE  match[f][n] = RowFits(filter, name, f, n, match[f + 1])
  BY ZenonT(30), <1>1 DEF RowOf
<1>4. ASSUME NEW f \in 1..Len(filter), NEW n \in 1..Len(name)
      PROVE  After(filter, name, f, n) \in 1..(Len(name) + 1) /\ f + 1 \in 1..(Len(filter) + 1)
  BY <1>0, NextSeparatorIs DEF After
<1> HIDE DEF M
<1>5. ASSUME NEW f \in 1..(Len(filter) + 1), NEW n \in 1..(Len(name) + 1)
      PROVE  <<f, n>> \in M <=>
               \/ f = Len(filter) + 1 /\ n = Len(name) + 1
               \/ /\ f <= Len(filter) /\ n <= Len(name)
                  /\ name[n] = Slash => filter[f] = Slash
                  /\ filter[f] \in {Plus, Hash, name[n]}
                  /\ <<f + 1, After(filter, name, f, n)>> \in M
  <2>1. CASE f > Len(filter) \/ n > Len(name)
    <3>1. match[f][n] <=> f > Len(filter) /\ n > Len(name)
      BY <1>3, <2>1 DEF RowFits
    <3> QED BY <1>0, <1>2, <2>1, <3>1
  <2>2. CASE f <= Len(filter) /\ n <= Len(name)
    <3>0. f \in 1..Len(filter) /\ n \in 1..Len(name)
      BY <1>0, <2>2
    <3>1. CASE ~(name[n] = Slash => filter[f] = Slash) \/ filter[f] \notin {Plus, Hash, name[n]}
      <4>1. ~ match[f][n]
        <5>1. ~(f > Len(filter) \/ n > Len(name))
          BY <1>0, <2>2
        <5>2. RowFits(filter, name, f, n, match[f + 1]) = FALSE
          BY <3>1, <5>1, Zenon DEF RowFits
        <5> QED BY <1>3, <5>2
      <4> QED BY <1>0, <1>2, <2>2, <3>1, <4>1
    <3>2. CASE (name[n] = Slash => filter[f] = Slash) /\ filter[f] \in {Plus, Hash, name[n]}
      <4>1. match[f][n] = match[f + 1][After(filter, name, f, n)]
        <5>1. ~(f > Len(filter) \/ n > Len(name))
          BY <1>0, <2>2
        <5>2. RowFits(filter, name, f, n, match[f + 1]) = match[f + 1][After(filter, name, f, n)]
          BY <3>2, <5>1, Zenon DEF RowFits
        <5> QED BY <1>3, <5>2
      <4>2. <<f + 1, After(filter, name, f, n)>> \in M <=> match[f + 1][After(filter, name, f, n)]
        BY <1>2, <1>4, <3>0
      <4> QED BY <1>0, <1>2, <2>2, <3>2, <4>1, <4>2
    <3> QED BY <3>1, <3>2
  <2> QED BY <1>0, <2>1, <2>2
<1>6. Matching(filter, name, M)
  BY <1>5 DEF Matching
<1>7. isTopicMatched(filter, name) <=> <<1, 1>> \in M
  <2>1. 1 \in 1..(Len(filter) + 1) /\ 1 \in 1..(Len(name) + 1)
    BY <1>0
  <2> QED BY <1>1, <1>2, <2>1
<1> QED BY <1>6, <1>7

\* A level is a string of its own.
LEMMA LevelIs ==
  ASSUME NEW S, NEW s \in Seq(S), NEW K, NEW b, NEW e, Parts(s, K, b, e), NEW k \in 1..K
  PROVE  /\ K \in Nat \ {0} /\ DOMAIN Levels(s) = 1..K /\ Len(Levels(s)) = K
         /\ b[k] \in 1..(Len(s) + 1) /\ e[k] \in 0..Len(s) /\ b[k] <= e[k] + 1 /\ Len(s) \in Nat
         /\ Levels(s)[k] \in Seq(S) /\ Len(Levels(s)[k]) = e[k] - b[k] + 1
         /\ \A i \in 1..(e[k] - b[k] + 1) : Levels(s)[k][i] = s[b[k] + i - 1]
         /\ \A i \in b[k]..e[k] : s[i] # Slash
         /\ \/ e[k] = Len(s) /\ k = K
            \/ e[k] < Len(s) /\ k < K /\ s[e[k] + 1] = Slash /\ b[k + 1] = e[k] + 2
<1>0. K \in Nat \ {0} /\ Len(s) \in Nat /\ b[k] \in Int /\ e[k] \in Int
  BY LenProperties DEF Parts
<1>1. Levels(s) = [j \in 1..K |-> SubSeq(s, b[j], e[j])]
  BY DEF Parts
<1>2. DOMAIN Levels(s) = 1..K /\ Levels(s)[k] = SubSeq(s, b[k], e[k])
  BY <1>1
<1>3. Len(Levels(s)) = K
  <2>1. Levels(s) \in [1..K -> {SubSeq(s, b[j], e[j]) : j \in 1..K}]
    BY <1>1
  <2> QED BY <1>0, <2>1
<1>4. /\ 1 <= b[k] /\ b[k] <= e[k] + 1 /\ e[k] <= Len(s)
      /\ \A i \in b[k]..e[k] : s[i] # Slash
  BY DEF Parts
<1>5. \A i \in b[k]..e[k] : s[i] \in S
  BY <1>0, <1>4, ElementOfSeq
<1>6. /\ SubSeq(s, b[k], e[k]) \in Seq(S) /\ Len(SubSeq(s, b[k], e[k])) = e[k] - b[k] + 1
      /\ \A i \in 1..(e[k] - b[k] + 1) : SubSeq(s, b[k], e[k])[i] = s[b[k] + i - 1]
  BY SMTT(30), <1>0, <1>4, <1>5, SubSeqProperties
<1>7. \/ e[k] = Len(s) /\ k = K
      \/ e[k] < Len(s) /\ k < K /\ s[e[k] + 1] = Slash /\ b[k + 1] = e[k] + 2
  <2>1. CASE k = K
    <3>1. e[K] = Len(s)
      BY DEF Parts
    <3> QED BY <2>1, <3>1
  <2>2. CASE k # K
    <3>1. k \in 1..(K - 1) /\ k < K
      BY <1>0, <2>2
    <3> QED BY <3>1 DEF Parts
  <2> QED BY <2>1, <2>2
<1> QED BY SMTT(30), <1>0, <1>2, <1>3, <1>4, <1>6, <1>7

\* Both strings at the end of their k-th level
LEMMA EndOfLevel ==
  ASSUME NEW S, NEW filter \in Seq(S), NEW name \in Seq(S),
         NEW KF, NEW bf, NEW ef, Parts(filter, KF, bf, ef),
         NEW KN, NEW bn, NEW en, Parts(name, KN, bn, en),
         NEW M, Matching(filter, name, M), NEW k \in 1..KF, k <= KN
  PROVE  <<ef[k] + 1, en[k] + 1>> \in M
           <=> \/ k = KF /\ k = KN
               \/ k < KF /\ k < KN /\ <<bf[k + 1], bn[k + 1]>> \in M
<1> DEFINE f == ef[k] + 1  n == en[k] + 1
<1>0. KF \in Nat /\ KN \in Nat /\ k \in 1..KN
  BY DEF Parts
<1>1. /\ f \in 1..(Len(filter) + 1) /\ Len(filter) \in Nat
      /\ \/ f = Len(filter) + 1 /\ k = KF
         \/ f < Len(filter) + 1 /\ k < KF /\ filter[f] = Slash /\ bf[k + 1] = f + 1
  <2>1. /\ Len(filter) \in Nat /\ ef[k] \in 0..Len(filter)
        /\ \/ ef[k] = Len(filter) /\ k = KF
           \/ ef[k] < Len(filter) /\ k < KF /\ filter[ef[k] + 1] = Slash /\ bf[k + 1] = ef[k] + 2
    BY LevelIs
  <2> QED BY <2>1
<1>2. /\ n \in 1..(Len(name) + 1) /\ Len(name) \in Nat
      /\ \/ n = Len(name) + 1 /\ k = KN
         \/ n < Len(name) + 1 /\ k < KN /\ name[n] = Slash /\ bn[k + 1] = n + 1
  <2>1. /\ Len(name) \in Nat /\ en[k] \in 0..Len(name)
        /\ \/ en[k] = Len(name) /\ k = KN
           \/ en[k] < Len(name) /\ k < KN /\ name[en[k] + 1] = Slash /\ bn[k + 1] = en[k] + 2
    BY <1>0, LevelIs
  <2> QED BY <2>1
<1> HIDE DEF f, n
<1>3. <<f, n>> \in M <=>
      \/ f = Len(filter) + 1 /\ n = Len(name) + 1
      \/ /\ f <= Len(filter) /\ n <= Len(name)
         /\ name[n] = Slash => filter[f] = Slash
         /\ filter[f] \in {Plus, Hash, name[n]}
         /\ <<f + 1, After(filter, name, f, n)>> \in M
  BY <1>1, <1>2 DEF Matching
<1>4. CASE k < KF /\ k < KN
  <2>1. f < Len(filter) + 1 /\ n < Len(name) + 1 /\ filter[f] = Slash /\ name[n] = Slash
        /\ bf[k + 1] = f + 1 /\ bn[k + 1] = n + 1
    BY <1>0, <1>1, <1>2, <1>4
  <2>2. After(filter, name, f, n) = n + 1
    BY <2>1 DEF After, Slash, Plus, Hash
  <2>3. <<f, n>> \in M <=> <<bf[k + 1], bn[k + 1]>> \in M
    BY <1>1, <1>2, <1>3, <2>1, <2>2
  <2> QED BY <1>0, <1>4, <2>3 DEF f, n
<1>5. CASE k = KF /\ k = KN
  BY <1>0, <1>1, <1>2, <1>3, <1>5 DEF f, n
<1>6. CASE k = KF /\ k < KN
  <2>1. f = Len(filter) + 1 /\ n < Len(name) + 1
    BY <1>0, <1>1, <1>2, <1>6
  <2>2. <<f, n>> \notin M
    BY <1>1, <1>2, <1>3, <2>1
  <2> QED BY <1>0, <1>6, <2>2 DEF f, n
<1>7. CASE k < KF /\ k = KN
  <2>1. f < Len(filter) + 1 /\ n = Len(name) + 1
    BY <1>0, <1>1, <1>2, <1>7
  <2>2. <<f, n>> \notin M
    BY <1>1, <1>2, <1>3, <2>1
  <2> QED BY <1>0, <1>7, <2>2 DEF f, n
<1> QED BY <1>0, <1>4, <1>5, <1>6, <1>7

\* A level without wildcards is compared character by character.
LEMMA LiteralLevel ==
  ASSUME NEW S, NEW filter \in Seq(S), NEW name \in Seq(S),
         NEW KF, NEW bf, NEW ef, Parts(filter, KF, bf, ef),
         NEW KN, NEW bn, NEW en, Parts(name, KN, bn, en),
         NEW M, Matching(filter, name, M), NEW k \in 1..KF, k <= KN,
         \A i \in bf[k]..ef[k] : filter[i] \notin {Plus, Hash}
  PROVE  <<bf[k], bn[k]>> \in M <=>
           /\ ef[k] - bf[k] = en[k] - bn[k]
           /\ \A i \in 0..(ef[k] - bf[k]) : filter[bf[k] + i] = name[bn[k] + i]
           /\ <<ef[k] + 1, en[k] + 1>> \in M
<1> DEFINE E == ef[k]  D == en[k]
           Ends == <<E + 1, D + 1>> \in M
           Same(f, n) == \A i \in 0..(E - f) : filter[f + i] = name[n + i]
           Right(f, n) == <<f, n>> \in M <=> E - f = D - n /\ Same(f, n) /\ Ends
           T == {d \in Nat : \A f \in bf[k]..(E + 1), n \in bn[k]..(D + 1) : E + 1 - f = d => Right(f, n)}
<1>0. KF \in Nat /\ KN \in Nat /\ k \in 1..KN
  BY DEF Parts
<1>1. /\ Len(filter) \in Nat /\ bf[k] \in 1..(Len(filter) + 1) /\ E \in 0..Len(filter) /\ bf[k] <= E + 1
      /\ \A i \in bf[k]..E : filter[i] # Slash
      /\ E + 1 = Len(filter) + 1 \/ (E + 1 <= Len(filter) /\ filter[E + 1] = Slash)
  <2>1. /\ Len(filter) \in Nat /\ bf[k] \in 1..(Len(filter) + 1) /\ E \in 0..Len(filter) /\ bf[k] <= E + 1
        /\ \A i \in bf[k]..E : filter[i] # Slash
        /\ E = Len(filter) \/ (E < Len(filter) /\ filter[E + 1] = Slash)
    BY LevelIs
  <2> HIDE DEF E
  <2> QED BY <2>1
<1>2. /\ Len(name) \in Nat /\ bn[k] \in 1..(Len(name) + 1) /\ D \in 0..Len(name) /\ bn[k] <= D + 1
      /\ \A i \in bn[k]..D : name[i] # Slash
      /\ D + 1 = Len(name) + 1 \/ (D + 1 <= Len(name) /\ name[D + 1] = Slash)
  <2>1. /\ Len(name) \in Nat /\ bn[k] \in 1..(Len(name) + 1) /\ D \in 0..Len(name) /\ bn[k] <= D + 1
        /\ \A i \in bn[k]..D : name[i] # Slash
        /\ D = Len(name) \/ (D < Len(name) /\ name[D + 1] = Slash)
    BY <1>0, LevelIs
  <2> HIDE DEF D
  <2> QED BY <2>1
<1> HIDE DEF E, D
<1>3. ASSUME NEW f \in bf[k]..(E + 1), NEW n \in bn[k]..(D + 1)
      PROVE  /\ f \in 1..(Len(filter) + 1) /\ n \in 1..(Len(name) + 1)
             /\ <<f, n>> \in M <=>
                  \/ f = Len(filter) + 1 /\ n = Len(name) + 1
                  \/ /\ f <= Len(filter) /\ n <= Len(name)
                     /\ name[n] = Slash => filter[f] = Slash
                     /\ filter[f] \in {Plus, Hash, name[n]}
                     /\ <<f + 1, After(filter, name, f, n)>> \in M
  <2>1. f \in 1..(Len(filter) + 1) /\ n \in 1..(Len(name) + 1)
    BY SMTT(30), <1>1, <1>2
  <2> QED BY <2>1 DEF Matching
<1>4. 0 \in T
  <2> SUFFICES ASSUME NEW f \in bf[k]..(E + 1), NEW n \in bn[k]..(D + 1), E + 1 - f = 0
               PROVE  Right(f, n)
    OBVIOUS
  <2>1. f = E + 1 /\ Same(f, n)
    BY <1>1
  <2>2. CASE n = D + 1
    <3>1. E - f = D - n
      BY <1>1, <1>2, <2>1, <2>2
    <3> HIDE DEF Same
    <3> QED BY <2>1, <2>2, <3>1
  <2>3. CASE n # D + 1
    <3>1. n \in bn[k]..D /\ n <= Len(name) /\ name[n] # Slash
      BY <1>2, <2>3
    <3>2. <<f, n>> \notin M
      <4>1. CASE f = Len(filter) + 1
        <5>1. ~(f <= Len(filter)) /\ n # Len(name) + 1
          BY <1>1, <1>2, <3>1, <4>1
        <5> QED BY <1>3, <5>1
      <4>2. CASE f <= Len(filter) /\ filter[f] = Slash
        <5>1. filter[f] \notin {Plus, Hash, name[n]}
          BY <3>1, <4>2 DEF Slash, Plus, Hash
        <5>2. f # Len(filter) + 1
          BY <1>1, <4>2
        <5> QED BY <1>3, <5>1, <5>2
      <4> QED BY <1>1, <2>1, <4>1, <4>2
    <3>3. E - f # D - n
      BY <1>1, <1>2, <2>1, <3>1
    <3> QED BY <3>2, <3>3
  <2> QED BY <2>2, <2>3
<1>5. ASSUME NEW d \in Nat, d \in T PROVE d + 1 \in T
  <2> SUFFICES ASSUME NEW f \in bf[k]..(E + 1), NEW n \in bn[k]..(D + 1), E + 1 - f = d + 1
               PROVE  Right(f, n)
    OBVIOUS
  <2>1. f \in bf[k]..E /\ f + 1 \in bf[k]..(E + 1) /\ E + 1 - (f + 1) = d /\ f <= Len(filter)
    BY <1>1
  <2>2. filter[f] \notin {Plus, Hash} /\ filter[f] # Slash
    BY <1>1, <2>1 DEF E
  <2>3. CASE n = D + 1
    <3>1. E - f # D - n
      BY <1>1, <1>2, <2>1, <2>3
    <3>2. <<f, n>> \notin M
      <4>0. f # Len(filter) + 1
        BY <1>1, <2>1
      <4>1. CASE n = Len(name) + 1
        <5>1. ~(n <= Len(name))
          BY <1>2, <4>1
        <5> QED BY <1>3, <4>0, <5>1
      <4>2. CASE name[n] = Slash
        BY <1>3, <2>2, <4>0, <4>2
      <4> QED BY <1>2, <2>3, <4>1, <4>2
    <3> QED BY <3>1, <3>2
  <2>4. CASE n # D + 1
    <3>1. n \in bn[k]..D /\ n + 1 \in bn[k]..(D + 1) /\ n <= Len(name) /\ name[n] # Slash
      BY <1>2, <2>4
    <3>2. After(filter, name, f, n) = n + 1
      BY <2>2 DEF After
    <3>3. <<f, n>> \in M <=> filter[f] = name[n] /\ <<f + 1, n + 1>> \in M
      BY SMTT(30), <1>1, <1>2, <1>3, <2>1, <2>2, <3>1, <3>2
    <3>4. Right(f + 1, n + 1)
      BY <1>5, <2>1, <3>1
    <3>5. Same(f, n) <=> filter[f] = name[n] /\ Same(f + 1, n + 1)
      <4>0. f \in Int /\ n \in Int /\ E \in Int /\ 0 <= E - f
        BY <1>1, <1>2, <2>1
      <4>1. ASSUME Same(f, n) PROVE filter[f] = name[n] /\ Same(f + 1, n + 1)
        <5>1. filter[f + 0] = name[n + 0]
          <6>1. 0 \in 0..(E - f)
            BY <4>0
          <6> QED BY <4>1, <6>1
        <5>2. ASSUME NEW i \in 0..(E - (f + 1)) PROVE filter[(f + 1) + i] = name[(n + 1) + i]
          <6>1. i + 1 \in 0..(E - f) /\ (f + 1) + i = f + (i + 1) /\ (n + 1) + i = n + (i + 1)
            BY <4>0
          <6> QED BY <4>1, <6>1
        <5> QED BY <4>0, <5>1, <5>2
      <4>2. ASSUME filter[f] = name[n], Same(f + 1, n + 1) PROVE Same(f, n)
        <5> SUFFICES ASSUME NEW i \in 0..(E - f) PROVE filter[f + i] = name[n + i]
          OBVIOUS
        <5>1. CASE i = 0
          BY <4>0, <4>2, <5>1
        <5>2. CASE i # 0
          <6>1. i - 1 \in 0..(E - (f + 1)) /\ (f + 1) + (i - 1) = f + i /\ (n + 1) + (i - 1) = n + i
            BY <4>0, <5>2
          <6> QED BY <4>2, <6>1
        <5> QED BY <5>1, <5>2
      <4> HIDE DEF Same
      <4> QED BY <4>1, <4>2
    <3>6. E - f = D - n <=> E - (f + 1) = D - (n + 1)
      BY <1>1, <1>2
    <3> HIDE DEF Same, Ends
    <3> QED BY <3>3, <3>4, <3>5, <3>6
  <2> QED BY <2>3, <2>4
<1>6. \A d \in Nat : d \in T
  <2> HIDE DEF T
  <2> QED BY <1>4, <1>5, Induction
<1>7. Right(bf[k], bn[k])
  <2>1. E + 1 - bf[k] \in T /\ bf[k] \in bf[k]..(E + 1) /\ bn[k] \in bn[k]..(D + 1)
    <3>1. E + 1 - bf[k] \in Nat
      BY <1>1
    <3> HIDE DEF T
    <3> QED BY SMTT(30), <1>1, <1>2, <1>6, <3>1
  <2> HIDE DEF Right
  <2> QED BY <2>1
<1> QED BY <1>7 DEF E, D

\* A `+' takes a level that is not empty.
LEMMA PlusLevel ==
  ASSUME NEW S, NEW filter \in Seq(S), NEW name \in Seq(S),
         NEW KF, NEW bf, NEW ef, Parts(filter, KF, bf, ef),
         NEW KN, NEW bn, NEW en, Parts(name, KN, bn, en),
         NEW M, Matching(filter, name, M), NEW k \in 1..KF, k <= KN,
         ef[k] = bf[k], filter[bf[k]] = Plus
  PROVE  <<bf[k], bn[k]>> \in M <=> bn[k] <= en[k] /\ <<ef[k] + 1, en[k] + 1>> \in M
<1> DEFINE f == bf[k]  n == bn[k]  d == en[k]
<1>0. KF \in Nat /\ KN \in Nat /\ k \in 1..KN
  BY DEF Parts
<1>1. f \in 1..(Len(filter) + 1) /\ Len(filter) \in Nat /\ ef[k] \in 0..Len(filter) /\ f <= Len(filter)
  BY LevelIs
<1>2. /\ Len(name) \in Nat /\ n \in 1..(Len(name) + 1) /\ d \in 0..Len(name) /\ n <= d + 1
      /\ \A i \in n..d : name[i] # Slash
      /\ d = Len(name) \/ (d < Len(name) /\ name[d + 1] = Slash)
  BY <1>0, LevelIs
<1> HIDE DEF f, n, d
<1>3. <<f, n>> \in M <=>
      \/ f = Len(filter) + 1 /\ n = Len(name) + 1
      \/ /\ f <= Len(filter) /\ n <= Len(name)
         /\ name[n] = Slash => filter[f] = Slash
         /\ filter[f] \in {Plus, Hash, name[n]}
         /\ <<f + 1, After(filter, name, f, n)>> \in M
  BY <1>1, <1>2 DEF Matching
<1>4. filter[f] = Plus /\ f # Len(filter) + 1 /\ ef[k] + 1 = f + 1
  BY <1>1 DEF f
<1>5. CASE n <= d
  <2>1. n \in 1..Len(name) /\ n <= Len(name) /\ name[n] # Slash
    BY <1>2, <1>5
  <2>2. NextSeparator(name, n) = d + 1
    <3> DEFINE m == NextSeparator(name, n)
    <3>1. /\ m \in (n + 1)..(Len(name) + 1)
          /\ m = Len(name) + 1 \/ name[m] = Slash
          /\ \A j \in (n + 1)..(m - 1) : name[j] # Slash
      BY <2>1, NextSeparatorIs
    <3> HIDE DEF m
    <3>2. ~(m < d + 1)
      BY <1>2, <1>5, <2>1, <3>1
    <3>3. ~(d + 1 < m)
      <4> SUFFICES ASSUME d + 1 < m PROVE FALSE
        OBVIOUS
      <4>1. d + 1 \in (n + 1)..(m - 1)
        BY <1>2, <1>5, <3>1
      <4>2. d # Len(name)
        BY <1>2, <3>1
      <4> QED BY <1>2, <3>1, <4>1, <4>2
    <3> QED BY <1>2, <3>1, <3>2, <3>3 DEF m
  <2>3. After(filter, name, f, n) = d + 1
    BY <1>4, <2>2 DEF After
  <2>4. <<f, n>> \in M <=> <<f + 1, d + 1>> \in M
    BY <1>1, <1>3, <1>4, <2>1, <2>3
  <2> QED BY <1>4, <1>5, <2>4 DEF f, n, d
<1>6. CASE ~(n <= d)
  <2>1. n = d + 1
    BY <1>2, <1>6
  <2>2. <<f, n>> \notin M
    <3>1. CASE n = Len(name) + 1
      <4>1. ~(n <= Len(name))
        BY <1>2, <3>1
      <4> QED BY <1>3, <1>4, <4>1
    <3>2. CASE name[n] = Slash
      <4>1. filter[f] # Slash
        BY <1>4 DEF Slash, Plus
      <4> QED BY <1>3, <1>4, <3>2, <4>1
    <3> QED BY <1>2, <2>1, <3>1, <3>2
  <2> QED BY <1>6, <2>2 DEF f, n, d
<1> QED BY <1>5, <1>6

\* A `#' at the end takes all that is left, from a level that is not empty.
LEMMA HashLevel ==
  ASSUME NEW S, NEW filter \in Seq(S), NEW name \in Seq(S),
         NEW KF, NEW bf, NEW ef, Parts(filter, KF, bf, ef),
         NEW KN, NEW bn, NEW en, Parts(name, KN, bn, en),
         NEW M, Matching(filter, name, M), KF <= KN,
         ef[KF] = bf[KF], filter[bf[KF]] = Hash
  PROVE  <<bf[KF], bn[KF]>> \in M <=> bn[KF] <= en[KF]
<1> DEFINE f == bf[KF]  n == bn[KF]  d == en[KF]
<1>0. KF \in Nat /\ KN \in Nat /\ KF \in 1..KF /\ KF \in 1..KN
  BY DEF Parts
<1>1. f \in 1..(Len(filter) + 1) /\ Len(filter) \in Nat /\ f = Len(filter)
  BY <1>0, LevelIs DEF Parts
<1>2. /\ Len(name) \in Nat /\ n \in 1..(Len(name) + 1) /\ d \in 0..Len(name) /\ n <= d + 1
      /\ \A i \in n..d : name[i] # Slash
      /\ d = Len(name) \/ (d < Len(name) /\ name[d + 1] = Slash)
  BY SMTT(30), <1>0, LevelIs
<1> HIDE DEF f, n, d
<1>3. <<f, n>> \in M <=>
      \/ f = Len(filter) + 1 /\ n = Len(name) + 1
      \/ /\ f <= Len(filter) /\ n <= Len(name)
         /\ name[n] = Slash => filter[f] = Slash
         /\ filter[f] \in {Plus, Hash, name[n]}
         /\ <<f + 1, After(filter, name, f, n)>> \in M
  BY <1>1, <1>2 DEF Matching
<1>4. filter[f] = Hash /\ f # Len(filter) + 1 /\ f <= Len(filter) /\ f + 1 = Len(filter) + 1
  BY <1>1 DEF f
<1>5. CASE n <= d
  <2>1. n <= Len(name) /\ name[n] # Slash
    BY <1>2, <1>5
  <2>2. After(filter, name, f, n) = Len(name) + 1
    BY <1>4 DEF After, Hash, Plus
  <2>3. <<Len(filter) + 1, Len(name) + 1>> \in M
    <3>1. Len(filter) + 1 \in 1..(Len(filter) + 1) /\ Len(name) + 1 \in 1..(Len(name) + 1)
      BY <1>1, <1>2
    <3> QED BY <3>1 DEF Matching
  <2>4. <<f, n>> \in M
    BY <1>3, <1>4, <2>1, <2>2, <2>3
  <2> QED BY <1>5, <2>4 DEF f, n, d
<1>6. CASE ~(n <= d)
  <2>1. n = d + 1
    BY <1>2, <1>6
  <2>2. <<f, n>> \notin M
    <3>1. CASE n = Len(name) + 1
      <4>1. ~(n <= Len(name))
        BY <1>2, <3>1
      <4> QED BY <1>3, <1>4, <4>1
    <3>2. CASE name[n] = Slash
      <4>1. filter[f] # Slash
        BY <1>4 DEF Slash, Hash
      <4> QED BY <1>3, <1>4, <3>2, <4>1
    <3> QED BY <1>2, <2>1, <3>1, <3>2
  <2> QED BY <1>6, <2>2 DEF f, n, d
<1> QED BY <1>5, <1>6

\* The levels k are the same, or that of the name is not empty and that of the filter a wildcard.
Agree(fl, nl, k) == fl[k] = nl[k] \/ (fl[k] \in {<<Plus>>, <<Hash>>} /\ nl[k] # << >>)

\* What a level of a well-formed filter is
LEMMA LevelKinds ==
  ASSUME NEW S, NEW filter \in Seq(S), WellFormed(filter),
         NEW K, NEW b, NEW e, Parts(filter, K, b, e), NEW k \in 1..K
  PROVE  \/ b[k] = e[k] /\ filter[b[k]] = Plus /\ Levels(filter)[k] = <<Plus>>
         \/ b[k] = e[k] /\ filter[b[k]] = Hash /\ Levels(filter)[k] = <<Hash>> /\ k = K
         \/ /\ \A i \in b[k]..e[k] : filter[i] \notin {Plus, Hash}
            /\ Levels(filter)[k] \notin {<<Plus>>, <<Hash>>}
<1> DEFINE fl == Levels(filter)  s == fl[k]
<1>1. /\ DOMAIN fl = 1..K /\ Len(fl) = K /\ K \in Nat /\ Len(filter) \in Nat
      /\ b[k] \in 1..(Len(filter) + 1) /\ e[k] \in 0..Len(filter) /\ b[k] <= e[k] + 1
      /\ s \in Seq(S) /\ Len(s) = e[k] - b[k] + 1
      /\ \A i \in 1..(e[k] - b[k] + 1) : s[i] = filter[b[k] + i - 1]
  BY LevelIs
<1> DEFINE B == b[k]  E == e[k]  n == Len(filter)
<1>0. B \in Int /\ E \in Int /\ n \in Nat /\ 1 <= B /\ B <= E + 1 /\ E <= n /\ Len(s) = E - B + 1
  BY <1>1
<1>2. \A i \in 1..Len(filter) : i <= Len(s) /\ s[i] \in {Plus, Hash} => Len(s) = 1 /\ (s[i] = Hash => k = K)
  BY <1>1 DEF WellFormed
<1> HIDE DEF s, B, E, n
<1>5. Len(s) = 1 => E = B /\ B + 1 - 1 = B /\ B \in B..E
  <2> SUFFICES ASSUME Len(s) = 1 PROVE E = B /\ B + 1 - 1 = B /\ B \in B..E
    OBVIOUS
  <2>1. E - B + 1 = 1
    BY <1>0
  <2>2. E = B
    BY <1>0, <2>1
  <2> QED BY <1>0, <2>2
<1>3. CASE \E i \in b[k]..e[k] : filter[i] \in {Plus, Hash}
  <2>1. PICK i \in b[k]..e[k] : filter[i] \in {Plus, Hash}
    BY <1>3
  <2> DEFINE j == i - b[k] + 1
  <2>2. j \in 1..Len(filter) /\ j <= Len(s) /\ j \in 1..(e[k] - b[k] + 1) /\ b[k] + j - 1 = i
    <3>1. i \in B..E
      BY DEF B, E
    <3>2. i - B + 1 \in 1..n /\ i - B + 1 <= Len(s) /\ i - B + 1 \in 1..(E - B + 1) /\ B + (i - B + 1) - 1 = i
      BY <1>0, <3>1
    <3> QED BY <3>2 DEF B, E, n
  <2>3. s[j] = filter[i]
    BY <1>1, <2>2
  <2>4. Len(s) = 1 /\ (s[j] = Hash => k = K)
    BY <1>2, <2>1, <2>2, <2>3
  <2>5. j = 1 /\ i = b[k] /\ b[k] = e[k]
    <3>1. i \in B..E /\ E = B /\ j = i - B + 1
      BY <1>5, <2>4 DEF B, E
    <3>2. i = B /\ j = 1
      BY <1>0, <3>1
    <3> QED BY <3>1, <3>2 DEF B, E
  <2>6. s = <<filter[b[k]]>>
    BY SMTT(30), <1>1, <2>3, <2>4, <2>5
  <2> HIDE DEF j
  <2> QED BY <2>1, <2>3, <2>4, <2>5, <2>6 DEF s
<1>4. CASE \A i \in b[k]..e[k] : filter[i] \notin {Plus, Hash}
  <2>1. ASSUME NEW w \in {Plus, Hash}, s = <<w>> PROVE FALSE
    <3>1. Len(s) = 1 /\ s[1] = w
      BY <2>1
    <3>2. E = B /\ E - B + 1 = 1 /\ B + 1 - 1 = B /\ B \in B..E
      <4>1. E = B /\ B + 1 - 1 = B /\ B \in B..E
        BY <1>5, <3>1
      <4> QED BY <1>0, <4>1
    <3>3. s[1] = filter[b[k] + 1 - 1]
      <4>1. 1 \in 1..(e[k] - b[k] + 1)
        BY <3>2 DEF E, B
      <4> QED BY <1>1, <4>1 DEF s
    <3>4. s[1] = filter[B] /\ B \in B..E
      BY <3>2, <3>3 DEF B
    <3> QED BY <1>4, <3>1, <3>4 DEF B, E
  <2> QED BY <1>4, <2>1 DEF s
<1> QED BY <1>3, <1>4

\* One level of the pass
LEMMA LevelMatches ==
  ASSUME NEW S, NEW filter \in Seq(S), NEW name \in Seq(S), WellFormed(filter),
         NEW KF, NEW bf, NEW ef, Parts(filter, KF, bf, ef),
         NEW KN, NEW bn, NEW en, Parts(name, KN, bn, en),
         NEW M, Matching(filter, name, M), NEW k \in 1..KF, k <= KN
  PROVE  <<bf[k], bn[k]>> \in M <=>
           /\ Agree(Levels(filter), Levels(name), k)
           /\ \/ Levels(filter)[k] = <<Hash>>
              \/ k = KF /\ k = KN
              \/ k < KF /\ k < KN /\ <<bf[k + 1], bn[k + 1]>> \in M
<1> DEFINE fl == Levels(filter)  nl == Levels(name)  s == fl[k]  t == nl[k]
           Ends == <<ef[k] + 1, en[k] + 1>> \in M
           B == bf[k]  E == ef[k]  P == bn[k]  Q == en[k]
<1>0. KF \in Nat /\ KN \in Nat /\ k \in 1..KN
  BY DEF Parts
<1>1. /\ B \in Int /\ E \in Int /\ B <= E + 1
      /\ s \in Seq(S) /\ Len(s) = E - B + 1
      /\ \A i \in 1..(E - B + 1) : s[i] = filter[B + i - 1]
  BY LevelIs
<1>2. /\ P \in Int /\ Q \in Int /\ P <= Q + 1
      /\ t \in Seq(S) /\ Len(t) = Q - P + 1
      /\ \A i \in 1..(Q - P + 1) : t[i] = name[P + i - 1]
  BY <1>0, LevelIs
<1>3. Ends <=> (k = KF /\ k = KN) \/ (k < KF /\ k < KN /\ <<bf[k + 1], bn[k + 1]>> \in M)
  BY EndOfLevel
<1>4. (t # << >>) <=> P <= Q
  <2> HIDE DEF t, P, Q
  <2>1. t = << >> <=> Len(t) = 0
    BY <1>2, EmptySeq
  <2> QED BY <1>2, <2>1
<1> HIDE DEF Ends
<1>5. CASE B = E /\ filter[B] = Plus /\ s = <<Plus>>
  <2>1. <<bf[k], bn[k]>> \in M <=> P <= Q /\ Ends
    BY <1>5, PlusLevel DEF Ends
  <2>2. Agree(fl, nl, k) <=> t # << >>
    <3> HIDE DEF t
    <3>1. s # << >>
      BY <1>5
    <3> QED BY <1>5, <3>1 DEF Agree, t
  <2>3. s # <<Hash>>
    BY <1>5 DEF Plus, Hash
  <2> HIDE DEF t, s, P, Q
  <2> QED BY <1>3, <1>4, <2>1, <2>2, <2>3 DEF s
<1>6. CASE B = E /\ filter[B] = Hash /\ s = <<Hash>> /\ k = KF
  <2>1. <<bf[k], bn[k]>> \in M <=> P <= Q
    BY <1>6, HashLevel
  <2>2. Agree(fl, nl, k) <=> t # << >>
    <3> HIDE DEF t
    <3>1. s # << >>
      BY <1>6
    <3> QED BY <1>6, <3>1 DEF Agree, t
  <2> HIDE DEF t, P, Q
  <2> QED BY <1>4, <1>6, <2>1, <2>2
<1>7. CASE (\A i \in B..E : filter[i] \notin {Plus, Hash}) /\ s \notin {<<Plus>>, <<Hash>>}
  <2>1. <<bf[k], bn[k]>> \in M <=>
          /\ E - B = Q - P
          /\ \A i \in 0..(E - B) : filter[B + i] = name[P + i]
          /\ Ends
    BY <1>7, LiteralLevel DEF Ends
  <2>2. s = t <=> E - B = Q - P /\ \A i \in 0..(E - B) : filter[B + i] = name[P + i]
    <3> HIDE DEF s, t, B, E, P, Q
    <3>1. ASSUME s = t PROVE E - B = Q - P /\ \A i \in 0..(E - B) : filter[B + i] = name[P + i]
      <4>1. E - B = Q - P
        BY <1>1, <1>2, <3>1
      <4>2. ASSUME NEW i \in 0..(E - B) PROVE filter[B + i] = name[P + i]
        <5>1. i + 1 \in 1..(E - B + 1) /\ i + 1 \in 1..(Q - P + 1) /\ B + (i + 1) - 1 = B + i /\ P + (i + 1) - 1 = P + i
          BY <1>1, <1>2, <4>1
        <5>2. s[i + 1] = filter[B + (i + 1) - 1] /\ t[i + 1] = name[P + (i + 1) - 1]
          BY <1>1, <1>2, <5>1
        <5> QED BY <3>1, <5>1, <5>2
      <4> QED BY <4>1, <4>2
    <3>2. ASSUME E - B = Q - P, \A i \in 0..(E - B) : filter[B + i] = name[P + i] PROVE s = t
      <4>1. Len(s) = Len(t) /\ Len(s) = E - B + 1 /\ Len(s) \in Nat
        BY <1>1, <1>2, <3>2, LenProperties
      <4>2. ASSUME NEW i \in 1..Len(s) PROVE s[i] = t[i]
        <5>1. i - 1 \in 0..(E - B) /\ B + (i - 1) = B + i - 1 /\ P + (i - 1) = P + i - 1
              /\ i \in 1..(E - B + 1) /\ i \in 1..(Q - P + 1)
          BY <1>1, <1>2, <3>2, <4>1
        <5>2. s[i] = filter[B + i - 1] /\ t[i] = name[P + i - 1]
          BY <1>1, <1>2, <5>1
        <5> QED BY <3>2, <5>1, <5>2
      <4> QED BY <1>1, <1>2, <4>1, <4>2, SeqEqual
    <3> QED BY <3>1, <3>2
  <2>3. Agree(fl, nl, k) <=> s = t
    BY <1>7 DEF Agree
  <2>4. s # <<Hash>>
    BY <1>7
  <2> HIDE DEF s, t, B, E, P, Q
  <2> QED BY <1>3, <2>1, <2>2, <2>3, <2>4 DEF s
<1> QED BY <1>5, <1>6, <1>7, LevelKinds

\* The pass matches level by level.
LEMMA PassIsByLevel ==
  ASSUME NEW S, NEW filter \in Seq(S), NEW name \in Seq(S), WellFormed(filter)
  PROVE  isTopicMatched(filter, name) <=> MatchesByLevel(filter, name)
<1> DEFINE fl == Levels(filter)  nl == Levels(name)
<1>1. PICK KF, bf, ef : Parts(filter, KF, bf, ef)
  BY LevelsAre
<1>2. PICK KN, bn, en : Parts(name, KN, bn, en)
  BY LevelsAre
<1>3. PICK M : Matching(filter, name, M) /\ (isTopicMatched(filter, name) <=> <<1, 1>> \in M)
  BY MatchingIs
<1> DEFINE OpenEnd == fl[KF] = <<Hash>>
           Long == IF OpenEnd THEN KN >= KF ELSE KN = KF
           Rest(k) == Long /\ \A j \in k..KF : Agree(fl, nl, j)
           T == {d \in Nat : \A k \in 1..KF : KF - k = d /\ k <= KN
                               => (<<bf[k], bn[k]>> \in M <=> Rest(k))}
<1>4. KF \in Nat \ {0} /\ KN \in Nat \ {0} /\ bf[1] = 1 /\ bn[1] = 1 /\ Len(fl) = KF /\ Len(nl) = KN
  <2>1. KF \in Nat \ {0} /\ KN \in Nat \ {0} /\ bf[1] = 1 /\ bn[1] = 1
    BY <1>1, <1>2 DEF Parts
  <2>2. 1 \in 1..KF /\ 1 \in 1..KN
    BY <2>1
  <2> QED BY <1>1, <1>2, <2>1, <2>2, LevelIs
<1>5. ASSUME NEW k \in 1..KF, k <= KN
      PROVE  <<bf[k], bn[k]>> \in M <=>
               /\ Agree(fl, nl, k)
               /\ \/ fl[k] = <<Hash>>
                  \/ k = KF /\ k = KN
                  \/ k < KF /\ k < KN /\ <<bf[k + 1], bn[k + 1]>> \in M
  BY <1>1, <1>2, <1>3, <1>5, LevelMatches
<1>6. ASSUME NEW k \in 1..KF, fl[k] = <<Hash>> PROVE k = KF
  <2>1. <<Hash>> # <<Plus>>
    BY DEF Hash, Plus
  <2> QED BY <1>1, <1>6, <2>1, LevelKinds
<1> HIDE DEF fl, nl
<1>7. 0 \in T
  <2> SUFFICES ASSUME NEW k \in 1..KF, KF - k = 0, k <= KN PROVE <<bf[k], bn[k]>> \in M <=> Rest(k)
    OBVIOUS
  <2>1. k = KF /\ k..KF = {k}
    BY <1>4
  <2>2. <<bf[k], bn[k]>> \in M <=> Agree(fl, nl, k) /\ (fl[k] = <<Hash>> \/ k = KN)
    <3>1. ~(k < KF)
      BY <1>4, <2>1
    <3> QED BY <1>5, <2>1, <3>1
  <2>3. (\A j \in k..KF : Agree(fl, nl, j)) <=> Agree(fl, nl, k)
    BY <2>1
  <2>4. Long <=> fl[k] = <<Hash>> \/ k = KN
    BY <1>4, <2>1
  <2> HIDE DEF Long
  <2> QED BY <2>2, <2>3, <2>4
<1>8. ASSUME NEW d \in Nat, d \in T PROVE d + 1 \in T
  <2> SUFFICES ASSUME NEW k \in 1..KF, KF - k = d + 1, k <= KN PROVE <<bf[k], bn[k]>> \in M <=> Rest(k)
    OBVIOUS
  <2>1. k < KF /\ k + 1 \in 1..KF /\ KF - (k + 1) = d /\ k # KF
    BY <1>4
  <2>2. fl[k] # <<Hash>>
    BY <1>6, <2>1
  <2>3. <<bf[k], bn[k]>> \in M <=> Agree(fl, nl, k) /\ k < KN /\ <<bf[k + 1], bn[k + 1]>> \in M
    BY <1>5, <2>1, <2>2
  <2>4. Rest(k) <=> Agree(fl, nl, k) /\ Rest(k + 1)
    <3>1. \A j : j \in k..KF <=> j = k \/ j \in (k + 1)..KF
      BY <1>4, <2>1
    <3> HIDE DEF Long
    <3> QED BY <3>1
  <2>5. CASE k < KN
    <3>1. k + 1 <= KN
      BY <1>4, <2>5
    <3>2. <<bf[k + 1], bn[k + 1]>> \in M <=> Rest(k + 1)
      BY <1>8, <2>1, <3>1
    <3> HIDE DEF Rest
    <3> QED BY <2>3, <2>4, <2>5, <3>2
  <2>6. CASE ~(k < KN)
    <3>1. ~Long
      BY <1>4, <2>1, <2>6
    <3> QED BY <2>3, <2>6, <3>1
  <2> QED BY <2>5, <2>6
<1>9. KF - 1 \in T
  <2> HIDE DEF T
  <2> QED BY <1>4, <1>7, <1>8, Induction
<1>10. <<1, 1>> \in M <=> Rest(1)
  <2>1. 1 \in 1..KF /\ 1 <= KN
    BY <1>4
  <2>2. <<bf[1], bn[1]>> \in M <=> Rest(1)
    <3> HIDE DEF Rest
    <3> QED BY <1>9, <2>1
  <2> QED BY <1>4, <2>2
<1>11. MatchesByLevel(filter, name) <=> Rest(1)
  BY <1>4 DEF MatchesByLevel, Agree, fl, nl
<1> QED BY <1>3, <1>10, <1>11

\* A message goes to the handler of a filter exactly when the two match level by level.
LEMMA GoesByLevel ==
  ASSUME NEW S, NEW filter \in Seq(S), NEW name \in Seq(S), WellFormed(filter)
  PROVE  GoesTo(filter, name) <=> MatchesByLevel(filter, name)
<1>1. isTopicMatched(filter, name) <=> MatchesByLevel(filter, name)
  BY PassIsByLevel
<1>2. ASSUME name = filter PROVE MatchesByLevel(filter, name)
  <2>1. PICK K, b, e : Parts(filter, K, b, e)
    BY LevelsAre
  <2>2. K \in Nat /\ Len(Levels(filter)) = K
    <3>1. K \in 1..K
      BY <2>1 DEF Parts
    <3> QED BY <2>1, <3>1, LevelIs
  <2> QED BY <1>2, <2>2 DEF MatchesByLevel
<1> QED BY <1>1, <1>2 DEF GoesTo, MQTTPacket_equals

\* The strings of a message that can be sent are made of bytes.
LEMMA SaidInBytes ==
  ASSUME NEW m \in MQTTString
  PROVE  Said(m) \in Seq(Byte)
<1>1. m \in [cstring : ByteString \cup {NULL}, lenstring : ByteString \cup {NULL}]
  BY DEF MQTTString
<1>2. m.cstring \in ByteString \cup {NULL} /\ m.lenstring \in ByteString \cup {NULL}
  BY <1>1
<1>3. << >> \in Seq(Byte)
  OBVIOUS
<1> QED
  BY <1>2, <1>3 DEF Said, ByteString

\* A message's topic reaches the handler of a filter exactly when the two match level by level,
\* for all strings that can be sent (MQTTClient.c:220-258).
THEOREM MatchedByLevel == Spec => []MatchIsByLevel
<1>1. Conversing => MatchIsByLevel
  <2> SUFFICES ASSUME msgs \in Seq(Fitting), NEW s \in DOMAIN msgs, NEW p \in DOMAIN msgs,
                      msgs[s].kind = "subscribe", msgs[p].kind = "publish",
                      NEW i \in DOMAIN msgs[s].filters, WellFormed(Said(msgs[s].filters[i]))
               PROVE  GoesTo(Said(msgs[s].filters[i]), Said(msgs[p].topic))
                        <=> MatchesByLevel(Said(msgs[s].filters[i]), Said(msgs[p].topic))
    BY DEF Conversing, MatchIsByLevel
  <2>1. msgs[s] \in Messages /\ msgs[p] \in Messages
    <3>1. s \in 1..Len(msgs) /\ p \in 1..Len(msgs)
      OBVIOUS
    <3> QED
      BY <3>1, ElementOfSeq DEF Fitting
  <2>2. msgs[s].filters \in Seq(MQTTString)
    BY <2>1 DEF Messages
  <2>3. msgs[p].topic \in MQTTString
    BY <2>1 DEF Messages
  <2>4. msgs[s].filters[i] \in MQTTString
    BY <2>2, ElementOfSeq
  <2>5. Said(msgs[s].filters[i]) \in Seq(Byte) /\ Said(msgs[p].topic) \in Seq(Byte)
    BY <2>3, <2>4, SaidInBytes
  <2> QED
    BY <2>5, GoesByLevel
<1> QED
  BY <1>1, ConversationStays, PTL DEF Spec
==============================================================================
