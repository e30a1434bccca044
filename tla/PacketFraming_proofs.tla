------------------------ MODULE PacketFraming_proofs ------------------------
(***************************************************************************)
(* Proofs about PacketFraming, for every sequence of packets, every place   *)
(* TCP cuts it and the connection ends, and every size of the buffers.      *)
(*                                                                         *)
(* They hold in a Calm regime (but OverlongStops, which holds in every      *)
(* one).  There the I/O thread is InStep: inbuf begins with the current     *)
(* packet, and with nothing else.  Only of the first packet may the fixed   *)
(* header be incomplete; as inbuf was zero before it, decodePacket then     *)
(* finds a length that is too short, never one that is too long, and asks   *)
(* for no byte of the next packet.  A packet that does not fit takes the    *)
(* I/O thread out of step for good: then inbuf is Jammed.                   *)
(***************************************************************************)
EXTENDS PacketFraming, SequenceTheorems, WellFoundedInduction, TLAPS

\* The number that the first m digits in b stand for
Value(b, m) ==
  LET d(i) == IF i <= m THEN b[i] % Base ELSE 0
  IN  d(1) + d(2) * Base + d(3) * Base * Base + d(4) * Base * Base * Base

\* what packetBuf takes
FitsIn(n) == n <= PacketBufSize - 1 - Len(Encoding(n))

-----------------------------------------------------------------------------
(* Numbers *)

\* Quotient and remainder.
LEMMA DivMod ==
  ASSUME NEW n \in Nat
  PROVE  n \div Base \in Nat /\ n % Base \in 0..(Base - 1) /\ n = Base * (n \div Base) + (n % Base)
BY BaseAssumption, SMT

\* A quotient does not shrink when the number grows.
LEMMA DivMonotone ==
  ASSUME NEW m \in Nat, NEW n \in Nat, m <= n
  PROVE  m \div Base <= n \div Base
BY BaseAssumption, SMT

\* Neither does a product.
LEMMA TimesMonotone ==
  ASSUME NEW m \in Nat, NEW n \in Nat, m <= n
  PROVE  Base * m \in Nat /\ Base * m <= Base * n
BY BaseAssumption, SMT

\* Four digits, one factor at a time.
LEMMA Horner ==
  ASSUME NEW a \in Nat, NEW b \in Nat, NEW c \in Nat, NEW d \in Nat
  PROVE  a + b * Base + c * Base * Base + d * Base * Base * Base
           = a + Base * (b + Base * (c + Base * d))
BY BaseAssumption, SMT

\* The quotient of a number of at most m digits has at most m - 1.
LEMMA DivLess ==
  ASSUME NEW n \in Nat, NEW m \in Nat, n < m * Base
  PROVE  n \div Base < m
BY BaseAssumption, SMT

\* A byte is a digit, with a continuation bit or without.
LEMMA DigitOf ==
  ASSUME NEW d \in 0..(Base - 1)
  PROVE  d \in Byte /\ (d + Base) \in Byte /\ d % Base = d /\ (d + Base) % Base = d
<1>1. d \in Byte /\ (d + Base) \in Byte
  BY BaseAssumption DEF Byte
<1>2. d = Base * 0 + d /\ d + Base = Base * 1 + d
  BY BaseAssumption
<1>3. d % Base = d
  BY BaseAssumption, SMT
<1>4. (d + Base) % Base = d
  BY BaseAssumption, SMT
<1> QED BY <1>1, <1>3, <1>4

\* A longer prefix stands for a larger number.
LEMMA ValueGrows ==
  ASSUME NEW b, NEW m \in 0..4, NEW n \in 0..4, m <= n, \A i \in 1..n : b[i] \in Byte
  PROVE  Value(b, m) \in Nat /\ Value(b, m) <= Value(b, n) /\ Value(b, n) <= MaxRemLen
<1> DEFINE d(i, k) == IF i <= k THEN b[i] % Base ELSE 0
<1>1. \A i \in 1..4 : /\ d(i, m) \in 0..(Base - 1) /\ d(i, n) \in 0..(Base - 1)
                      /\ d(i, m) <= d(i, n)
  <2> TAKE i \in 1..4
  <2>1. i <= n => b[i] \in Nat
    BY BaseAssumption DEF Byte
  <2>2. i <= n => b[i] % Base \in 0..(Base - 1)
    BY <2>1, DivMod
  <2> QED BY <2>2, BaseAssumption
<1>2. /\ Value(b, m) = d(1, m) + d(2, m) * Base + d(3, m) * Base * Base + d(4, m) * Base * Base * Base
      /\ Value(b, n) = d(1, n) + d(2, n) * Base + d(3, n) * Base * Base + d(4, n) * Base * Base * Base
  BY DEF Value
<1> HIDE DEF d
<1> DEFINE x4 == d(4, m)  y4 == d(4, n)
           x3 == d(3, m) + Base * x4  y3 == d(3, n) + Base * y4
           x2 == d(2, m) + Base * x3  y2 == d(2, n) + Base * y3
           x1 == d(1, m) + Base * x2  y1 == d(1, n) + Base * y2
<1>3. x4 \in Nat /\ y4 \in Nat /\ x4 <= y4 /\ y4 <= Base - 1
  BY <1>1, BaseAssumption
<1>4. x3 \in Nat /\ y3 \in Nat /\ x3 <= y3 /\ y3 <= Base * Base - 1
  <2>1. Base * x4 \in Nat /\ Base * y4 \in Nat /\ Base * x4 <= Base * y4 /\ Base * y4 <= Base * (Base - 1)
    BY <1>3, TimesMonotone, BaseAssumption
  <2> HIDE DEF x4, y4
  <2> QED BY <1>1, <2>1, BaseAssumption
<1>5. x2 \in Nat /\ y2 \in Nat /\ x2 <= y2 /\ y2 <= Base * (Base * Base) - 1
  <2> HIDE DEF x3, y3
  <2>1. Base * Base \in Nat /\ Base * Base - 1 \in Nat
    BY BaseAssumption
  <2>2. Base * x3 \in Nat /\ Base * y3 \in Nat /\ Base * x3 <= Base * y3 /\ Base * y3 <= Base * (Base * Base - 1)
    BY <1>4, <2>1, TimesMonotone
  <2> QED BY <1>1, <2>1, <2>2, BaseAssumption
<1>6. x1 \in Nat /\ y1 \in Nat /\ x1 <= y1 /\ y1 <= Base * (Base * (Base * Base)) - 1
  <2> HIDE DEF x2, y2
  <2>1. Base * (Base * Base) \in Nat /\ Base * (Base * Base) - 1 \in Nat
    BY BaseAssumption
  <2>2. Base * x2 \in Nat /\ Base * y2 \in Nat /\ Base * x2 <= Base * y2 /\ Base * y2 <= Base * (Base * (Base * Base) - 1)
    BY <1>5, <2>1, TimesMonotone
  <2> QED BY <1>1, <2>1, <2>2, BaseAssumption
<1>7. MaxRemLen = Base * (Base * (Base * Base)) - 1
  BY BaseAssumption DEF MaxRemLen
<1>8. Value(b, m) = x1 /\ Value(b, n) = y1
  BY <1>1, <1>2, Horner, BaseAssumption
<1> QED BY <1>6, <1>7, <1>8

\* Only the digits count.
LEMMA ValueAgrees ==
  ASSUME NEW b, NEW c, NEW m \in 0..4, \A i \in 1..m : b[i] = c[i]
  PROVE  Value(b, m) = Value(c, m)
BY DEF Value

-----------------------------------------------------------------------------
(* What MQTTPacket_encode writes *)

\* The sizes of the quotients, and their order
LEMMA Quotients ==
  ASSUME NEW n \in 0..MaxRemLen
  PROVE  LET q1 == n \div Base  q2 == q1 \div Base  q3 == q2 \div Base
         IN  /\ q1 \in Nat /\ q2 \in Nat /\ q3 \in Nat /\ q3 < Base
             /\ q1 = 0 => q2 = 0 /\ q3 = 0
             /\ q2 = 0 => q3 = 0
             /\ n = Base * q1 + (n % Base) /\ q1 = Base * q2 + (q1 % Base) /\ q2 = Base * q3 + (q2 % Base)
<1> DEFINE q1 == n \div Base  q2 == q1 \div Base  q3 == q2 \div Base
<1>0. MaxRemLen \in Int /\ Base * Base * Base * Base = MaxRemLen + 1
  BY BaseAssumption DEF MaxRemLen
<1>1. q1 \in Nat /\ n = Base * q1 + (n % Base)
  BY <1>0, DivMod
<1>2. q2 \in Nat /\ q1 = Base * q2 + (q1 % Base)
  BY <1>1, DivMod
<1>3. q3 \in Nat /\ q2 = Base * q3 + (q2 % Base)
  BY <1>2, DivMod
<1>4. q1 < Base * Base * Base
  <2>1. Base * Base * Base \in Nat
    BY BaseAssumption
  <2>2. n \in Nat /\ n < (Base * Base * Base) * Base
    BY <1>0
  <2> QED BY <2>1, <2>2, DivLess
<1>5. q2 < Base * Base
  <2>1. Base * Base \in Nat
    BY BaseAssumption
  <2> HIDE DEF q1
  <2> QED BY <2>1, <1>1, <1>4, DivLess
<1>6. q3 < Base
  <2> HIDE DEF q2
  <2> QED BY <1>2, <1>5, DivLess, BaseAssumption
<1>7. 0 \div Base = 0
  BY BaseAssumption, SMT
<1> HIDE DEF q1
<1> QED BY <1>1, <1>2, <1>3, <1>6, <1>7 DEF q1

\* One to four digits, a continuation bit on all but the last, and they stand for the length.
LEMMA EncodingIs ==
  ASSUME NEW n \in 0..MaxRemLen
  PROVE  LET e == Encoding(n)  s == Len(e)
         IN  /\ s \in 1..4 /\ e \in Seq(Byte)
             /\ \A i \in 1..s : e[i] \in Byte /\ (e[i] >= Base <=> i < s)
             /\ Value(e, s) = n
<1> DEFINE q1 == n \div Base  q2 == q1 \div Base  q3 == q2 \div Base
           q == <<n, q1, q2, q3>>
           size == IF q1 = 0 THEN 1 ELSE IF q2 = 0 THEN 2 ELSE IF q3 = 0 THEN 3 ELSE 4
           e == Encoding(n)
<1>0. MaxRemLen \in Int /\ n \in Nat
  BY BaseAssumption DEF MaxRemLen
<1>1. /\ q1 \in Nat /\ q2 \in Nat /\ q3 \in Nat /\ q3 < Base
      /\ q1 = 0 => q2 = 0 /\ q3 = 0
      /\ q2 = 0 => q3 = 0
      /\ n = Base * q1 + (n % Base) /\ q1 = Base * q2 + (q1 % Base) /\ q2 = Base * q3 + (q2 % Base)
  BY Quotients
<1>2. e = [i \in 1..size |-> (q[i] % Base) + (IF i < size THEN Base ELSE 0)]
  BY DEF Encoding
<1> HIDE DEF q1, q2, q3, e
<1>3. size \in 1..4
  OBVIOUS
<1>4. \A i \in 1..4 : q[i] \in Nat
  BY <1>0, <1>1
<1>5. \A i \in 1..4 : q[i] % Base \in 0..(Base - 1)
  BY <1>4, DivMod
<1> HIDE DEF q
<1>6. \A i \in 1..size : e[i] \in Byte /\ (e[i] >= Base <=> i < size) /\ e[i] % Base = q[i] % Base
  <2> TAKE i \in 1..size
  <2> DEFINE d == q[i] % Base
  <2>1. d \in 0..(Base - 1) /\ e[i] = d + (IF i < size THEN Base ELSE 0)
    BY <1>2, <1>3, <1>5
  <2> HIDE DEF d
  <2>2. d \in Byte /\ (d + Base) \in Byte /\ d % Base = d /\ (d + Base) % Base = d
    BY <2>1, DigitOf
  <2>3. CASE i < size
    <3>1. e[i] = d + Base
      BY <2>1, <2>3
    <3> QED BY <2>1, <2>2, <2>3, <3>1, BaseAssumption DEF d
  <2>4. CASE ~(i < size)
    <3>1. e[i] = d
      BY <2>1, <2>4, BaseAssumption
    <3> QED BY <2>1, <2>2, <2>4, <3>1, BaseAssumption DEF d
  <2> QED BY <2>3, <2>4
<1>7. Len(e) = size /\ e \in Seq(Byte)
  <2> HIDE DEF size
  <2>1. e = [i \in 1..size |-> e[i]] /\ size \in Nat
    BY <1>2, <1>3
  <2> QED BY <1>6, <2>1
<1>8. Value(e, size) = n
  <2> DEFINE d(i) == IF i <= size THEN e[i] % Base ELSE 0
  <2>1. q[1] = n /\ q[2] = q1 /\ q[3] = q2 /\ q[4] = q3
    BY DEF q
  <2>2. 0 % Base = 0
    BY BaseAssumption, SMT
  <2>3. \A i \in 1..4 : i > size => q[i] = 0
    BY <1>1, <2>1
  <2>4. d(1) = n % Base /\ d(2) = q1 % Base /\ d(3) = q2 % Base /\ d(4) = q3 % Base
    <3>1. \A i \in 1..4 : d(i) = q[i] % Base
      <4> HIDE DEF size
      <4> QED BY <1>3, <1>6, <2>2, <2>3
    <3> HIDE DEF d
    <3> QED BY <2>1, <3>1
  <2>5. q3 % Base = q3
    BY <1>1, BaseAssumption, SMT
  <2>6. Value(e, size) = d(1) + d(2) * Base + d(3) * Base * Base + d(4) * Base * Base * Base
    BY DEF Value
  <2> HIDE DEF d, size
  <2>7. d(1) \in Nat /\ d(2) \in Nat /\ d(3) \in Nat /\ d(4) \in Nat
    BY <1>5, <2>1, <2>4, BaseAssumption
  <2>8. Value(e, size) = d(1) + Base * (d(2) + Base * (d(3) + Base * d(4)))
    BY <2>6, <2>7, Horner
  <2> QED BY <1>0, <1>1, <2>4, <2>5, <2>7, <2>8, BaseAssumption
<1> HIDE DEF size
<1> QED BY <1>3, <1>6, <1>7, <1>8 DEF e

\* A longer body has no shorter fixed header.
LEMMA EncodingGrows ==
  ASSUME NEW m \in 0..MaxRemLen, NEW n \in 0..MaxRemLen, m <= n
  PROVE  Len(Encoding(m)) <= Len(Encoding(n))
<1> DEFINE q1 == n \div Base  q2 == q1 \div Base  q3 == q2 \div Base
           p1 == m \div Base  p2 == p1 \div Base  p3 == p2 \div Base
<1>0. MaxRemLen \in Int /\ n \in Nat /\ m \in Nat
  BY BaseAssumption DEF MaxRemLen
<1>1. q1 \in Nat /\ q2 \in Nat /\ q3 \in Nat /\ (q1 = 0 => q2 = 0 /\ q3 = 0) /\ (q2 = 0 => q3 = 0)
  BY Quotients
<1>2. p1 \in Nat /\ p2 \in Nat /\ p3 \in Nat /\ (p1 = 0 => p2 = 0 /\ p3 = 0) /\ (p2 = 0 => p3 = 0)
  BY Quotients
<1>3. Len(Encoding(n)) = IF q1 = 0 THEN 1 ELSE IF q2 = 0 THEN 2 ELSE IF q3 = 0 THEN 3 ELSE 4
  BY DEF Encoding
<1>4. Len(Encoding(m)) = IF p1 = 0 THEN 1 ELSE IF p2 = 0 THEN 2 ELSE IF p3 = 0 THEN 3 ELSE 4
  BY DEF Encoding
<1>5. p1 <= q1
  BY <1>0, DivMonotone
<1> HIDE DEF p1, q1
<1>6. p2 <= q2
  BY <1>1, <1>2, <1>5, DivMonotone
<1> HIDE DEF p2, q2
<1>7. p3 <= q3
  BY <1>1, <1>2, <1>6, DivMonotone
<1> HIDE DEF p3, q3
<1> QED BY <1>1, <1>2, <1>3, <1>4, <1>5, <1>6, <1>7

\* What does not fit does not fit with more digits.
LEMMA FitsIsMonotone ==
  ASSUME NEW m \in 0..MaxRemLen, NEW n \in 0..MaxRemLen, m <= n, FitsIn(n)
  PROVE  FitsIn(m)
<1>1. Len(Encoding(m)) <= Len(Encoding(n)) /\ Len(Encoding(m)) \in 1..4 /\ Len(Encoding(n)) \in 1..4
  BY EncodingGrows, EncodingIs
<1>2. MaxRemLen \in Int
  BY BaseAssumption DEF MaxRemLen
<1> QED BY <1>1, <1>2, SizeAssumption DEF FitsIn

-----------------------------------------------------------------------------
(* The packets and the stream *)

\* Rem(k) bytes of packet k follow its fixed header.
Rem(k) == CHOOSE rem \in 0..MaxRemLen :
            /\ Len(Sent[k]) = 1 + Len(Encoding(rem)) + rem
            /\ \A i \in DOMAIN Encoding(rem) : Sent[k][i + 1] = Encoding(rem)[i]
LenBytes(k) == Len(Encoding(Rem(k)))

\* Every packet is a header byte, its length and a body.
LEMMA PacketIs ==
  ASSUME NEW k \in 1..Len(Sent)
  PROVE  /\ Sent[k] \in Seq(Byte) /\ Rem(k) \in 0..MaxRemLen /\ LenBytes(k) \in 1..4
         /\ Len(Sent[k]) = 1 + LenBytes(k) + Rem(k)
         /\ \A i \in 1..LenBytes(k) : Sent[k][i + 1] = Encoding(Rem(k))[i]
         /\ Len(Sent[k]) \in Nat /\ Len(Sent[k]) >= 2
<1>1. Sent[k] \in Packets
  BY SentAssumption, ElementOfSeq
<1>2. /\ Sent[k] \in Seq(Byte)
      /\ \E rem \in 0..MaxRemLen :
           /\ Len(Sent[k]) = 1 + Len(Encoding(rem)) + rem
           /\ \A i \in DOMAIN Encoding(rem) : Sent[k][i + 1] = Encoding(rem)[i]
  BY <1>1 DEF Packets
<1>3. /\ Rem(k) \in 0..MaxRemLen
      /\ Len(Sent[k]) = 1 + Len(Encoding(Rem(k))) + Rem(k)
      /\ \A i \in DOMAIN Encoding(Rem(k)) : Sent[k][i + 1] = Encoding(Rem(k))[i]
  BY <1>2 DEF Rem
<1>4. Encoding(Rem(k)) \in Seq(Byte) /\ Len(Encoding(Rem(k))) \in 1..4
  BY <1>3, EncodingIs
<1>5. DOMAIN Encoding(Rem(k)) = 1..LenBytes(k)
  BY <1>4, LenProperties DEF LenBytes
<1>6. MaxRemLen \in Int
  BY BaseAssumption DEF MaxRemLen
<1>7. LenBytes(k) \in 1..4 /\ Len(Sent[k]) = 1 + LenBytes(k) + Rem(k)
  BY <1>3, <1>4 DEF LenBytes
<1>8. \A i \in 1..LenBytes(k) : Sent[k][i + 1] = Encoding(Rem(k))[i]
  BY <1>3, <1>5
<1>9. Len(Sent[k]) \in Nat /\ Len(Sent[k]) >= 2
  BY <1>3, <1>6, <1>7
<1> QED BY <1>2, <1>3, <1>7, <1>8, <1>9

\* The length bytes of a packet end where the first of them without a continuation bit is.
LEMMA HeaderSizeIs ==
  ASSUME NEW k \in 1..Len(Sent)
  PROVE  HeaderSize(k) = 1 + LenBytes(k)
<1> DEFINE s == LenBytes(k)  Ends1(n) == Sent[k][n + 1] < Base /\ \A j \in 1..(n - 1) : Sent[k][j + 1] >= Base
<1>1. /\ s \in 1..4 /\ Rem(k) \in 0..MaxRemLen
      /\ \A i \in 1..s : Sent[k][i + 1] = Encoding(Rem(k))[i]
  BY PacketIs
<1>2. \A i \in 1..s : Encoding(Rem(k))[i] \in Byte /\ (Encoding(Rem(k))[i] >= Base <=> i < s)
  BY <1>1, EncodingIs DEF LenBytes
<1>3. \A i \in 1..s : Sent[k][i + 1] \in Int /\ (Sent[k][i + 1] >= Base <=> i < s)
  BY <1>1, <1>2 DEF Byte
<1> HIDE DEF s
<1>4. Ends1(s)
  BY <1>1, <1>3, BaseAssumption
<1>5. \A n \in 1..4 : Ends1(n) => n = s
  <2> TAKE n \in 1..4
  <2>1. CASE n < s
    BY <1>1, <1>3, <2>1, BaseAssumption
  <2>2. CASE n > s
    <3>1. s \in 1..(n - 1) /\ ~(Sent[k][s + 1] >= Base)
      BY <1>1, <1>3, <2>2
    <3> QED BY <3>1
  <2> QED BY <1>1, <2>1, <2>2
<1>6. (CHOOSE n \in 1..4 : Ends1(n)) = s
  BY <1>1, <1>4, <1>5
<1> QED BY <1>6 DEF HeaderSize, s

\* Induction over the natural numbers, for a set.
LEMMA Induction ==
  ASSUME NEW S, 0 \in S, \A n \in Nat : n \in S => n + 1 \in S
  PROVE  \A n \in Nat : n \in S
<1> SUFFICES ASSUME Nat \ S # {} PROVE FALSE
  OBVIOUS
<1>1. PICK n \in Nat \ S : \A m \in Nat \ S : ~ (<<m, n>> \in OpToRel(<, Nat))
  BY NatLessThanWellFounded, WFMin
<1>2. n # 0 /\ n \in Nat
  OBVIOUS
<1>3. n - 1 \in Nat /\ (n - 1) + 1 = n /\ n - 1 < n
  BY <1>2
<1>4. n - 1 \notin S
  BY <1>3
<1>5. <<n - 1, n>> \notin OpToRel(<, Nat)
  BY <1>1, <1>3, <1>4
<1>6. <<n - 1, n>> \notin {ss \in Nat \X Nat : ss[1] < ss[2]}
  BY <1>5 DEF OpToRel
<1> QED
  BY <1>2, <1>3, <1>6

\* Where the packets end: the recursion of Ends has a solution.
LEMMA EndsIs ==
  /\ Ends \in [0..Len(Sent) -> Nat] /\ Ends[0] = 0
  /\ \A k \in 1..Len(Sent) : Ends[k] = Ends[k - 1] + Len(Sent[k])
<1> DEFINE n == Len(Sent)
           Upto(f, m) == \A k \in 0..m : f[k] = IF k = 0 THEN 0 ELSE f[k - 1] + Len(Sent[k])
           Buildable(m) == m <= n => \E f \in [0..m -> Nat] : Upto(f, m)
           S == {m \in Nat : Buildable(m)}
<1>0. n \in Nat /\ \A k \in 1..n : Len(Sent[k]) \in Nat
  BY SentAssumption, PacketIs, LenProperties
<1>1. 0 \in S
  <2>1. Upto([k \in 0..0 |-> 0], 0) /\ [k \in 0..0 |-> 0] \in [0..0 -> Nat]
    OBVIOUS
  <2> QED BY <2>1
<1>2. ASSUME NEW m \in Nat, Buildable(m), m + 1 <= n
      PROVE  \E f \in [0..(m + 1) -> Nat] : Upto(f, m + 1)
  <2>0. m <= n
    BY <1>0, <1>2
  <2>1. PICK f \in [0..m -> Nat] : Upto(f, m)
    BY <1>2, <2>0
  <2> DEFINE g == [k \in 0..(m + 1) |-> IF k = m + 1 THEN f[m] + Len(Sent[m + 1]) ELSE f[k]]
  <2>2. g \in [0..(m + 1) -> Nat]
    BY <1>0, <1>2
  <2>3. ASSUME NEW k \in 0..(m + 1)
        PROVE  g[k] = IF k = 0 THEN 0 ELSE g[k - 1] + Len(Sent[k])
    <3>1. CASE k = m + 1
      BY <3>1
    <3>2. CASE k # m + 1
      <4>1. k \in 0..m /\ g[k] = f[k] /\ (k # 0 => g[k - 1] = f[k - 1])
        BY <3>2
      <4>2. f[k] = IF k = 0 THEN 0 ELSE f[k - 1] + Len(Sent[k])
        BY <2>1, <4>1
      <4> HIDE DEF g
      <4> QED BY <4>1, <4>2
    <3> QED BY <3>1, <3>2
  <2> HIDE DEF g
  <2> QED BY <2>2, <2>3
<1>3. \A m \in Nat : m \in S => m + 1 \in S
  <2>1. ASSUME NEW m \in Nat, Buildable(m) PROVE Buildable(m + 1)
    <3> HIDE DEF Upto
    <3> QED BY <1>2, <2>1
  <2> HIDE DEF Buildable
  <2> QED BY <2>1
<1>4. n \in S
  <2> HIDE DEF S
  <2> QED BY <1>0, <1>1, <1>3, Induction
<1>5. PICK f \in [0..n -> Nat] : Upto(f, n)
  BY <1>0, <1>4
<1> DEFINE IsEnds(h) == h = [k \in 0..Len(Sent) |-> IF k = 0 THEN 0 ELSE h[k - 1] + Len(Sent[k])]
<1>6. IsEnds(f)
  BY <1>5
<1>7. Ends = CHOOSE h : IsEnds(h)
  BY DEF Ends
<1>8. IsEnds(Ends)
  <2> HIDE DEF IsEnds
  <2> QED BY <1>6, <1>7
<1> HIDE DEF Upto
<1>9. DOMAIN Ends = 0..n /\ \A k \in 0..n : Ends[k] = IF k = 0 THEN 0 ELSE Ends[k - 1] + Len(Sent[k])
  BY <1>8
<1> HIDE DEF IsEnds
<1>10. \A m \in Nat : m <= n => Ends[m] \in Nat
  <2> DEFINE T == {m \in Nat : m <= n => Ends[m] \in Nat}
  <2>1. 0 \in T
    BY <1>0, <1>9
  <2>2. ASSUME NEW m \in Nat, m \in T PROVE m + 1 \in T
    BY <1>0, <1>9, <2>2
  <2> HIDE DEF T
  <2>3. \A m \in Nat : m \in T
    BY <2>1, <2>2, Induction
  <2> QED BY <2>3 DEF T
<1>11. Ends = [k \in 0..n |-> Ends[k]]
  BY <1>8 DEF IsEnds
<1>12. \A k \in 0..n : Ends[k] \in Nat
  BY <1>0, <1>10
<1>13. Ends \in [0..n -> Nat]
  BY <1>11, <1>12
<1>14. \A k \in 1..n : k \in 0..n /\ k # 0
  BY <1>0
<1> QED BY <1>0, <1>9, <1>13, <1>14

\* The packets end one after another.
LEMMA EndsGrow ==
  ASSUME NEW j \in 0..Len(Sent), NEW k \in 0..Len(Sent), j <= k
  PROVE  Ends[j] \in Nat /\ Ends[k] \in Nat /\ Ends[j] <= Ends[k]
<1> DEFINE n == Len(Sent)
           S == {m \in Nat : j <= m /\ m <= n => Ends[j] <= Ends[m]}
<1>0. n \in Nat /\ \A i \in 1..n : Len(Sent[i]) \in Nat
  BY SentAssumption, PacketIs, LenProperties
<1>1. \A m \in 0..n : Ends[m] \in Nat
  BY EndsIs
<1>2. 0 \in S
  BY <1>0, <1>1
<1>3. ASSUME NEW m \in Nat, m \in S PROVE m + 1 \in S
  <2> SUFFICES ASSUME j <= m + 1, m + 1 <= n PROVE Ends[j] <= Ends[m + 1]
    OBVIOUS
  <2>1. CASE j = m + 1
    BY <1>1, <2>1
  <2>2. CASE j <= m
    <3>1. Ends[m + 1] = Ends[m] + Len(Sent[m + 1])
      BY <1>0, EndsIs
    <3> QED BY <1>0, <1>1, <1>3, <2>2, <3>1
  <2> QED BY <1>0, <2>1, <2>2
<1> HIDE DEF S
<1>4. \A m \in Nat : m \in S
  BY <1>2, <1>3, Induction
<1> QED BY <1>0, <1>1, <1>4 DEF S

\* A byte of the stream belongs to one packet.
LEMMA PacketOfIs ==
  ASSUME NEW k \in 1..Len(Sent), NEW i \in Nat, Ends[k - 1] < i, i <= Ends[k]
  PROVE  PacketOf(i) = k
<1>0. Len(Sent) \in Nat
  BY SentAssumption, LenProperties
<1>1. ASSUME NEW j \in 1..Len(Sent), Ends[j - 1] < i, i <= Ends[j] PROVE j = k
  <2> j \in 0..Len(Sent) /\ k \in 0..Len(Sent) /\ j - 1 \in 0..Len(Sent) /\ k - 1 \in 0..Len(Sent)
    BY <1>0
  <2>0. Ends[j] \in Nat /\ Ends[k] \in Nat /\ Ends[j - 1] \in Nat /\ Ends[k - 1] \in Nat
    BY EndsIs
  <2>1. CASE j < k
    <3>1. Ends[j] <= Ends[k - 1]
      BY <1>0, <2>1, EndsGrow
    <3> QED BY <1>1, <2>0, <3>1
  <2>2. CASE k < j
    <3>1. Ends[k] <= Ends[j - 1]
      BY <1>0, <2>2, EndsGrow
    <3> QED BY <1>1, <2>0, <3>1
  <2> QED BY <1>0, <2>1, <2>2
<1> DEFINE P(j) == Ends[j - 1] < i /\ i <= Ends[j]
<1>2. P(k) /\ \A j \in 1..Len(Sent) : P(j) => j = k
  BY <1>1
<1> HIDE DEF P
<1>3. (CHOOSE j \in 1..Len(Sent) : P(j)) = k
  BY <1>2
<1> QED BY <1>3 DEF PacketOf, P

\* The stream is the packets in a row.
LEMMA StreamIs ==
  ASSUME NEW k \in 1..Len(Sent), NEW i \in 1..Len(Sent[k])
  PROVE  Stream(Ends[k - 1] + i) = Sent[k][i]
<1>0. Len(Sent) \in Nat
  BY SentAssumption, LenProperties
<1>1. Ends[k - 1] \in Nat /\ Ends[k] = Ends[k - 1] + Len(Sent[k]) /\ Len(Sent[k]) \in Nat
  <2>1. k - 1 \in 0..Len(Sent)
    BY <1>0
  <2> QED BY <2>1, EndsIs, PacketIs
<1>2. PacketOf(Ends[k - 1] + i) = k
  BY <1>1, PacketOfIs
<1>3. (Ends[k - 1] + i) - Ends[k - 1] = i
  BY <1>1
<1> QED BY <1>2, <1>3 DEF Stream

\* Every byte of the stream is one.
LEMMA StreamBytes ==
  ASSUME NEW i \in 1..Total
  PROVE  Stream(i) \in Byte
<1> DEFINE n == Len(Sent)
           S == {m \in Nat : m <= n /\ i <= Ends[m] => \E k \in 1..n : Ends[k - 1] < i /\ i <= Ends[k]}
<1>0. n \in Nat /\ Total = Ends[n] /\ \A m \in 0..n : Ends[m] \in Nat
  BY SentAssumption, EndsIs, LenProperties DEF Total
<1>1. 0 \in S
  BY <1>0, EndsIs
<1>2. ASSUME NEW m \in Nat, m \in S PROVE m + 1 \in S
  BY <1>0, <1>2
<1>3. \A m \in Nat : m \in S
  <2> HIDE DEF S
  <2> QED BY <1>1, <1>2, Induction
<1>4. PICK k \in 1..n : Ends[k - 1] < i /\ i <= Ends[k]
  BY <1>0, <1>3
<1>5. PacketOf(i) = k /\ i \in Nat
  BY <1>0, <1>4, PacketOfIs
<1>6. Ends[k] = Ends[k - 1] + Len(Sent[k]) /\ Sent[k] \in Seq(Byte)
  BY EndsIs, PacketIs
<1>7. i - Ends[k - 1] \in 1..Len(Sent[k])
  BY <1>0, <1>4, <1>5, <1>6, LenProperties
<1> QED BY <1>5, <1>6, <1>7, ElementOfSeq DEF Stream

-----------------------------------------------------------------------------
(* decodePacket *)

\* decodePacket looks at one to four bytes, as many as say so.
LEMMA Decodes ==
  ASSUME inbuf \in [0..(InBufSize - 1) -> Byte]
  PROVE  /\ LengthBytes \in 1..4 /\ \A i \in 1..4 : inbuf[i] \in Byte
         /\ \A j \in 1..(LengthBytes - 1) : inbuf[j] >= Base
         /\ LengthBytes = 4 \/ ~(inbuf[LengthBytes] >= Base)
         /\ RemLen = Value(inbuf, LengthBytes) /\ RemLen \in 0..MaxRemLen
<1> DEFINE P(n) == (\A j \in 1..(n - 1) : Continues(j)) /\ (n = 4 \/ ~Continues(n))
<1>0. \A i \in 1..4 : inbuf[i] \in Byte
  BY SizeAssumption
<1>1. \E n \in 1..4 : P(n)
  <2>1. CASE ~Continues(1)
    BY <2>1
  <2>2. CASE Continues(1) /\ ~Continues(2)
    <3>1. \A j \in 1..(2 - 1) : j = 1
      OBVIOUS
    <3> QED BY <2>2, <3>1
  <2>3. CASE Continues(1) /\ Continues(2) /\ ~Continues(3)
    <3>1. \A j \in 1..(3 - 1) : j = 1 \/ j = 2
      OBVIOUS
    <3> QED BY <2>3, <3>1
  <2>4. CASE Continues(1) /\ Continues(2) /\ Continues(3)
    <3>1. \A j \in 1..(4 - 1) : j = 1 \/ j = 2 \/ j = 3
      OBVIOUS
    <3> QED BY <2>4, <3>1
  <2> QED BY <2>1, <2>2, <2>3, <2>4
<1>2. LengthBytes = CHOOSE n \in 1..4 : P(n)
  BY DEF LengthBytes
<1>3. LengthBytes \in 1..4 /\ P(LengthBytes)
  <2> HIDE DEF P
  <2> QED BY <1>1, <1>2
<1>4. RemLen = Value(inbuf, LengthBytes)
  BY DEF RemLen, Digit, Value
<1>5. RemLen \in 0..MaxRemLen
  <2> HIDE DEF P
  <2>1. LengthBytes \in 0..4 /\ LengthBytes <= LengthBytes /\ \A i \in 1..LengthBytes : inbuf[i] \in Byte
    BY <1>0, <1>3
  <2>2. Value(inbuf, LengthBytes) \in Nat /\ Value(inbuf, LengthBytes) <= MaxRemLen
    BY <2>1, ValueGrows
  <2> QED BY <1>4, <2>2 DEF MaxRemLen
<1> QED BY <1>0, <1>3, <1>4, <1>5 DEF Continues

\* The same, of an inbuf in the invariant.
LEMMA LengthBytesIs ==
  ASSUME TypeOK
  PROVE  /\ LengthBytes \in 1..4 /\ \A i \in 1..4 : inbuf[i] \in Byte
         /\ \A j \in 1..(LengthBytes - 1) : inbuf[j] >= Base
         /\ LengthBytes = 4 \/ ~(inbuf[LengthBytes] >= Base)
         /\ RemLen = Value(inbuf, LengthBytes) /\ RemLen \in 0..MaxRemLen
<1>1. inbuf \in [0..(InBufSize - 1) -> Byte]
  BY DEF TypeOK
<1> QED BY <1>1, Decodes

\* inbuf starts with m digits that go on.
LEMMA DigitsGoOn ==
  ASSUME TypeOK, NEW m \in 1..4, \A j \in 1..(m - 1) : inbuf[j] >= Base
  PROVE  m <= LengthBytes /\ (m = 4 \/ ~(inbuf[m] >= Base) => LengthBytes = m)
<1>1. /\ LengthBytes \in 1..4
      /\ \A j \in 1..(LengthBytes - 1) : inbuf[j] >= Base
      /\ LengthBytes = 4 \/ ~(inbuf[LengthBytes] >= Base)
  BY LengthBytesIs
<1>2. m <= LengthBytes
  <2> SUFFICES ASSUME LengthBytes < m PROVE FALSE
    BY <1>1
  <2>1. LengthBytes \in 1..(m - 1) /\ LengthBytes # 4
    BY <1>1
  <2> QED BY <1>1, <2>1
<1>3. ASSUME ~(inbuf[m] >= Base) PROVE LengthBytes = m
  <2> SUFFICES ASSUME m < LengthBytes PROVE FALSE
    BY <1>1, <1>2
  <2>1. m \in 1..(LengthBytes - 1)
    BY <1>1
  <2> QED BY <1>1, <1>3, <2>1
<1> QED BY <1>1, <1>2, <1>3

\* The fixed header of packet k is in inbuf: decodePacket finds its length.
LEMMA WholeHeader ==
  ASSUME TypeOK, NEW k \in 1..Len(Sent), \A i \in 0..LenBytes(k) : inbuf[i] = Sent[k][i + 1]
  PROVE  LengthBytes = LenBytes(k) /\ RemLen = Rem(k)
<1> DEFINE s == LenBytes(k)  e == Encoding(Rem(k))
<1>1. s \in 1..4 /\ Rem(k) \in 0..MaxRemLen /\ \A i \in 1..s : inbuf[i] = e[i]
  <2>1. /\ Rem(k) \in 0..MaxRemLen /\ LenBytes(k) \in 1..4
        /\ \A i \in 1..LenBytes(k) : Sent[k][i + 1] = Encoding(Rem(k))[i]
    BY PacketIs
  <2> QED BY <2>1
<1>2. Len(e) = s /\ (\A i \in 1..s : e[i] \in Byte /\ (e[i] >= Base <=> i < s)) /\ Value(e, s) = Rem(k)
  BY <1>1, EncodingIs DEF LenBytes
<1> HIDE DEF s, e
<1>3. LengthBytes = s
  <2>1. (\A j \in 1..(s - 1) : inbuf[j] >= Base) /\ ~(inbuf[s] >= Base)
    BY <1>1, <1>2
  <2> QED BY <1>1, <2>1, DigitsGoOn
<1>4. Value(inbuf, s) = Value(e, s)
  BY SMTT(30), <1>1, ValueAgrees
<1> QED BY <1>2, <1>3, <1>4, LengthBytesIs DEF s

\* Only the first bytes of it, and zeros behind them: decodePacket finds a shorter length.
LEMMA PartOfHeader ==
  ASSUME TypeOK, NEW k \in 1..Len(Sent), NEW m \in 1..LenBytes(k),
         \A i \in 0..(m - 1) : inbuf[i] = Sent[k][i + 1], inbuf[m] = 0
  PROVE  LengthBytes = m /\ RemLen = Value(inbuf, m - 1) /\ RemLen <= Rem(k)
<1> DEFINE s == LenBytes(k)  e == Encoding(Rem(k))
<1>1. s \in 1..4 /\ Rem(k) \in 0..MaxRemLen /\ \A i \in 1..(m - 1) : inbuf[i] = e[i]
  <2>1. /\ Rem(k) \in 0..MaxRemLen /\ LenBytes(k) \in 1..4
        /\ \A i \in 1..LenBytes(k) : Sent[k][i + 1] = Encoding(Rem(k))[i]
    BY PacketIs
  <2> QED BY <2>1
<1>2. Len(e) = s /\ (\A i \in 1..s : e[i] \in Byte /\ (e[i] >= Base <=> i < s)) /\ Value(e, s) = Rem(k)
  BY <1>1, EncodingIs DEF LenBytes
<1>3. m \in 1..s
  OBVIOUS
<1> HIDE DEF s, e
<1>4. LengthBytes = m
  <2>1. (\A j \in 1..(m - 1) : inbuf[j] >= Base) /\ ~(inbuf[m] >= Base)
    BY <1>1, <1>2, <1>3, BaseAssumption
  <2> QED BY <1>1, <1>3, <2>1, DigitsGoOn
<1>5. Value(inbuf, m) = Value(inbuf, m - 1)
  <2> DEFINE d(i, l) == IF i <= l THEN inbuf[i] % Base ELSE 0
  <2>1. 0 % Base = 0
    BY BaseAssumption, SMT
  <2>2. \A i \in 1..4 : d(i, m) = d(i, m - 1)
    BY <1>1, <1>3, <2>1
  <2>3. /\ Value(inbuf, m) = d(1, m) + d(2, m) * Base + d(3, m) * Base * Base + d(4, m) * Base * Base * Base
        /\ Value(inbuf, m - 1) = d(1, m - 1) + d(2, m - 1) * Base + d(3, m - 1) * Base * Base
                                 + d(4, m - 1) * Base * Base * Base
    BY DEF Value
  <2> HIDE DEF d
  <2> QED BY <2>2, <2>3
<1>6. Value(inbuf, m - 1) = Value(e, m - 1)
  BY SMTT(30), <1>1, <1>3, ValueAgrees
<1>7. Value(e, m - 1) <= Value(e, s)
  BY SMTT(30), <1>1, <1>2, <1>3, ValueGrows
<1> QED BY <1>2, <1>4, <1>5, <1>6, <1>7, LengthBytesIs

-----------------------------------------------------------------------------
(* The invariant *)

\* A byte of a packet only arrives when those before it are read, and only the first packet's
\* header may be cut
Calm == ~Coalesced /\ SplitHeaders <= 1

Current == Len(got) + 1        \* the packet that is read
First == Ends[Len(got)]        \* and where it begins

\* Everything handled so far is right, and fitted
HandledWell ==
  /\ got \in Seq(Seq(Byte)) /\ FramesInOrder /\ First <= cut
  /\ \A j \in DOMAIN got : ~TooBig(j)

\* inbuf holds the beginning of the current packet, and at most that has arrived; srecv will
\* not read beyond it
InsideCurrent ==
  /\ inSize <= Len(Sent[Current])
  /\ \A i \in 0..(inSize - 1) : inbuf[i] = Sent[Current][i + 1]
  /\ inSize < Len(Sent[Current]) => arrived <= Ends[Current]
  /\ inSize = Len(Sent[Current]) /\ Current < Len(Sent) => arrived <= Ends[Current + 1]
  /\ needread # 0 => inSize + needread <= Len(Sent[Current])

\* decodePacket has the whole header before it, or zeros behind its first bytes
HeaderKnown ==
  IF got = << >> THEN \A i \in inSize..(InBufSize - 1) : inbuf[i] = 0
  ELSE inSize # 0 => inSize >= HeaderSize(Current)

InStep ==
  /\ taken = First + inSize
  /\ IF Len(got) < Len(Sent) THEN InsideCurrent ELSE inSize = 0 /\ needread = 0
  /\ HeaderKnown /\ ~InsideHeader(arrived)
  /\ pc = "parse" => needread = 0 /\ inSize # 0
  /\ pc = "select" => (inSize = 0 <=> needread = 0)
  /\ pc = "ended" => inSize = 0 /\ needread = 0 /\ taken = cut
  /\ inSize + needread <= PacketBufSize + 3 \/ needread = 0

\* The first digits in inbuf already stand for a packet that does not fit
Jammed ==
  /\ needread = 0
  /\ \E m \in 1..4 : /\ m < inSize /\ \A j \in 1..(m - 1) : inbuf[j] >= Base
                     /\ ~FitsIn(Value(inbuf, m))

Overlong == Len(got) < Len(Sent) /\ TooBig(Current)

IInv == TypeOK /\ HandledWell /\ (InStep \/ (Overlong /\ (Jammed \/ pc = "ended")))

\* What holds of the numbers in every regime
Numbers == /\ cut \in 0..Total /\ arrived \in 0..cut /\ taken \in 0..arrived
           /\ inbuf \in [0..(InBufSize - 1) -> Byte]
           /\ inSize \in 0..(InBufSize - 1) /\ needread \in Nat

-----------------------------------------------------------------------------
(* The steps of the invariant *)

\* Where the current packet lies in the stream.
LEMMA CurrentIs ==
  ASSUME TypeOK, HandledWell
  PROVE  /\ Len(got) \in Nat /\ Len(Sent) \in Nat /\ Len(got) <= Len(Sent)
         /\ First \in Nat /\ Total \in Nat /\ First <= Total
         /\ cut \in Nat /\ arrived \in Nat /\ taken \in Nat
         /\ taken <= arrived /\ arrived <= cut /\ cut <= Total
         /\ Len(got) = Len(Sent) => First = Total
         /\ Len(got) < Len(Sent) =>
              /\ Current \in 1..Len(Sent) /\ Current - 1 = Len(got)
              /\ Ends[Current] = First + Len(Sent[Current]) /\ Ends[Current] <= Total
<1>1. Len(got) \in Nat /\ Len(Sent) \in Nat /\ Len(got) <= Len(Sent)
  BY SentAssumption, LenProperties DEF HandledWell, FramesInOrder
<1>2. Total \in Nat /\ First \in Nat /\ First <= Total
  BY <1>1, EndsGrow DEF Total, First
<1>3. /\ cut \in Nat /\ arrived \in Nat /\ taken \in Nat
      /\ taken <= arrived /\ arrived <= cut /\ cut <= Total
  BY <1>2 DEF TypeOK
<1>4. ASSUME Len(got) < Len(Sent)
      PROVE  /\ Current \in 1..Len(Sent) /\ Current - 1 = Len(got)
             /\ Ends[Current] = First + Len(Sent[Current]) /\ Ends[Current] <= Total
  <2>1. Current \in 1..Len(Sent) /\ Current - 1 = Len(got)
    BY <1>1, <1>4 DEF Current
  <2>2. Ends[Current] = First + Len(Sent[Current])
    BY <2>1, EndsIs DEF First
  <2>3. Ends[Current] <= Total
    BY <1>1, <2>1, EndsGrow DEF Total
  <2> QED BY <2>1, <2>2, <2>3
<1> QED BY <1>1, <1>2, <1>3, <1>4 DEF First, Total

\* What was handled stays handled.
LEMMA HandledStays ==
  ASSUME HandledWell, UNCHANGED <<cut, got>>
  PROVE  HandledWell' /\ First' = First /\ Current' = Current /\ (Overlong => Overlong')
BY DEF HandledWell, FramesInOrder, First, Current, Overlong

\* Bytes arrive: not beyond the packet whose bytes are read next.
LEMMA ArrivePreserves ==
  ASSUME Calm, IInv, Arrive
  PROVE  IInv'
<1> USE DEF IInv
<1>1. PICK n \in (arrived + 1)..cut :
        /\ n <= Ends[PacketOf(IF needread > Available THEN arrived + 1 ELSE taken + 1)]
        /\ ~InsideHeader(n) /\ arrived' = n
  BY DEF Arrive, Calm
<1>2. UNCHANGED <<cut, taken, inbuf, inSize, needread, pc, got>>
  BY DEF Arrive
<1>3. /\ Len(got) \in Nat /\ Len(Sent) \in Nat /\ Len(got) <= Len(Sent)
      /\ First \in Nat
      /\ cut \in Nat /\ arrived \in Nat /\ taken \in Nat /\ taken <= arrived /\ arrived <= cut
      /\ Len(got) < Len(Sent) =>
           /\ Current \in 1..Len(Sent)
           /\ Ends[Current] = First + Len(Sent[Current])
  BY CurrentIs
<1>4. TypeOK'
  BY <1>1, <1>2, <1>3 DEF TypeOK
<1>5. HandledWell' /\ First' = First /\ Current' = Current /\ (Overlong => Overlong')
  BY <1>2, HandledStays
<1>6. ASSUME Overlong, Jammed \/ pc = "ended" PROVE IInv'
  BY <1>2, <1>4, <1>5, <1>6 DEF Jammed, Value, FitsIn
<1>7. ASSUME InStep PROVE InStep'
  <2>1. ASSUME Len(got) < Len(Sent) PROVE InsideCurrent'
    <3> DEFINE c == Current
               size == Len(Sent[c])
               i == IF needread > Available THEN arrived + 1 ELSE taken + 1
    <3>0. size \in Nat /\ inSize \in Nat /\ needread \in Nat /\ c \in Nat
      BY <1>3, <2>1, PacketIs, SizeAssumption DEF TypeOK
    <3>1. /\ taken = First + inSize /\ inSize <= size
          /\ inSize < size => arrived <= Ends[c]
          /\ needread # 0 => inSize + needread <= size
      BY <1>7, <2>1 DEF InStep, InsideCurrent
    <3>2. ASSUME inSize < size PROVE n <= Ends[c]
      <4>1. First < i /\ i <= Ends[c] /\ i \in Nat
        BY <1>3, <2>1, <3>0, <3>1, <3>2 DEF Available
      <4>2. First = Ends[c - 1]
        BY <1>3 DEF First, Current
      <4>3. PacketOf(i) = c
        BY <1>3, <2>1, <4>1, <4>2, PacketOfIs
      <4> QED BY <1>1, <4>3
    <3>3. ASSUME inSize = size, c < Len(Sent) PROVE n <= Ends[c + 1]
      <4>1. i = Ends[c] + 1
        <5>1. needread = 0
          BY <3>0, <3>1, <3>3
        <5>2. Ends[c] = taken
          BY <1>3, <2>1, <3>1, <3>3
        <5>3. ~(needread > Available)
          BY <1>3, <5>1 DEF Available
        <5> QED BY <5>2, <5>3
      <4>2. c + 1 \in 1..Len(Sent) /\ (c + 1) - 1 = c
        BY <1>3, <2>1, <3>0, <3>3
      <4>3. Ends[c] \in Nat /\ Ends[c + 1] = Ends[c] + Len(Sent[c + 1]) /\ Len(Sent[c + 1]) \in Nat
            /\ Len(Sent[c + 1]) >= 2
        BY SMTT(30), <1>3, <2>1, <3>0, <4>2, EndsIs, PacketIs
      <4>4. PacketOf(i) = c + 1
        BY SMTT(30), <4>1, <4>2, <4>3, PacketOfIs
      <4> QED BY <1>1, <4>4
    <3>4. /\ inSize' = inSize /\ needread' = needread /\ inbuf' = inbuf /\ arrived' = n /\ Current' = c
      BY <1>1, <1>2, <1>5
    <3>5. InsideCurrent
      BY <1>7, <2>1 DEF InStep
    <3> HIDE DEF c
    <3> QED BY <3>2, <3>3, <3>4, <3>5 DEF InsideCurrent, c
  <2>2. pc # "ended"
    BY <1>1, <1>3, <1>7 DEF InStep
  <2>3. HeaderKnown'
    BY <1>2, <1>5, <1>7 DEF InStep, HeaderKnown
  <2> QED BY <1>1, <1>2, <1>5, <1>7, <2>1, <2>2, <2>3 DEF InStep
<1> QED BY <1>4, <1>5, <1>6, <1>7

\* A read that inbuf has no room for is lost; any other is put behind what is there.
LEMMA TakePreservesNumbers ==
  ASSUME Numbers, NEW n \in Nat, n > 0, n <= Available, Take(n), needread' \in Nat
  PROVE  Numbers' /\ inSize' >= inSize /\ got' = got
<1>0. /\ cut \in Nat /\ arrived \in Nat /\ taken \in Nat /\ taken <= arrived /\ arrived <= cut /\ Total \in Nat
      /\ cut <= Total /\ inSize \in Nat /\ InBufSize \in Nat
      /\ taken' = taken + n /\ taken + n <= arrived
  <2>1. Total \in Nat
    BY EndsIs, SentAssumption, LenProperties DEF Total
  <2> QED BY <2>1, SizeAssumption DEF Numbers, Take, Available
<1>1. CASE inSize + n + 1 > InBufSize
  BY <1>0, <1>1 DEF Take, Numbers
<1>2. CASE ~(inSize + n + 1 > InBufSize)
  <2>1. /\ inbuf' = [i \in DOMAIN inbuf |->
                       IF i \in inSize..(inSize + n - 1)
                       THEN Stream(taken + i - inSize + 1) ELSE inbuf[i]]
        /\ inSize' = inSize + n /\ pc' = "parse"
    BY <1>2 DEF Take
  <2>2. inbuf \in [0..(InBufSize - 1) -> Byte]
    BY DEF Numbers
  <2>3. \A i \in inSize..(inSize + n - 1) : Stream(taken + i - inSize + 1) \in Byte
    <3> TAKE i \in inSize..(inSize + n - 1)
    <3>1. taken + i - inSize + 1 \in 1..Total
      BY <1>0
    <3> QED BY <3>1, StreamBytes
  <2>4. inbuf' \in [0..(InBufSize - 1) -> Byte]
    BY <2>1, <2>2, <2>3
  <2>5. inSize' \in 0..(InBufSize - 1) /\ inSize' >= inSize
    BY <1>0, <1>2, <2>1
  <2>6. UNCHANGED <<cut, arrived, got>> /\ taken' \in 0..arrived
    BY <1>0 DEF Take
  <2> QED BY <2>4, <2>5, <2>6 DEF Numbers
<1> QED BY <1>1, <1>2

\* The same with the type invariant.
LEMMA TakePreservesTypes ==
  ASSUME TypeOK, pc = "select", NEW n \in 1..ReadSize, n <= Available, Take(n), needread' \in 0..ReadSize
  PROVE  TypeOK'
<1>1. Numbers /\ n \in Nat /\ n > 0 /\ needread' \in Nat
  BY SizeAssumption DEF TypeOK, Numbers
<1>2. Numbers'
  BY <1>1, TakePreservesNumbers
<1> QED BY <1>2 DEF Take, TypeOK, Numbers

\* What is jammed stays so, whatever is read.
LEMMA TakeKeepsJam ==
  ASSUME TypeOK, Jammed, NEW n \in 1..ReadSize, Take(n), UNCHANGED needread
  PROVE  Jammed'
<1>1. inSize \in Nat /\ ReadSize \in Nat
  BY SizeAssumption DEF TypeOK
<1>2. CASE inSize + n + 1 > InBufSize
  BY <1>2 DEF Take, Jammed, Value, FitsIn
<1>3. CASE ~(inSize + n + 1 > InBufSize)
  <2>0. /\ inbuf' = [i \in DOMAIN inbuf |->
                       IF i \in inSize..(inSize + n - 1)
                       THEN Stream(taken + i - inSize + 1) ELSE inbuf[i]]
        /\ inSize' = inSize + n
    BY <1>3 DEF Take
  <2>1. inSize' = inSize + n /\ \A i \in 0..(inSize - 1) : inbuf'[i] = inbuf[i]
    <3>1. \A i \in 0..(inSize - 1) : i \in DOMAIN inbuf /\ ~(i \in inSize..(inSize + n - 1))
      BY <1>1, SizeAssumption DEF TypeOK
    <3> QED BY <2>0, <3>1
  <2>2. PICK m \in 1..4 : /\ m < inSize /\ \A j \in 1..(m - 1) : inbuf[j] >= Base
                          /\ ~FitsIn(Value(inbuf, m))
    BY DEF Jammed
  <2>3. Value(inbuf', m) = Value(inbuf, m)
    BY <1>1, <2>1, <2>2, ValueAgrees
  <2>4. m < inSize' /\ \A j \in 1..(m - 1) : inbuf'[j] >= Base
    BY <1>1, <2>1, <2>2
  <2>5. needread' = 0
    BY DEF Jammed
  <2>6. ~FitsIn(Value(inbuf', m))
    BY <2>2, <2>3
  <2> QED BY <2>4, <2>5, <2>6 DEF Jammed, FitsIn, Value
<1> QED BY <1>2, <1>3

\* A read that stays inside the current packet.
LEMMA TakeStaysInside ==
  ASSUME TypeOK, HandledWell, InStep, NEW n \in 1..ReadSize, n <= Available, Take(n),
         Len(got) < Len(Sent), inSize + n <= Len(Sent[Current]), inSize + n + 1 <= InBufSize,
         inSize < Len(Sent[Current]), needread' = 0,
         got = << >> \/ inSize + n >= HeaderSize(Current)
  PROVE  InStep' /\ HandledWell'
<1> DEFINE c == Current  size == Len(Sent[c])
<1>0. /\ First \in Nat /\ taken \in Nat /\ arrived \in Nat /\ cut \in Nat /\ c \in 1..Len(Sent)
      /\ Len(Sent) \in Nat /\ First = Ends[c - 1] /\ Ends[c] = First + size
      /\ inSize \in Nat /\ InBufSize \in Nat /\ ReadSize \in Nat /\ size \in Nat
      /\ Len(got) \in Nat
  BY SMTT(30), CurrentIs, SizeAssumption, PacketIs DEF TypeOK, First, Current
<1>1. /\ taken' = taken + n /\ UNCHANGED <<cut, arrived, got>>
      /\ inbuf' = [i \in DOMAIN inbuf |->
                     IF i \in inSize..(inSize + n - 1)
                     THEN Stream(taken + i - inSize + 1) ELSE inbuf[i]]
      /\ inSize' = inSize + n /\ pc' = "parse"
  BY <1>0 DEF Take
<1>2. DOMAIN inbuf = 0..(InBufSize - 1)
  BY DEF TypeOK
<1>3. HandledWell' /\ First' = First /\ Current' = c
  BY <1>1, HandledStays
<1>4. taken = First + inSize /\ InsideCurrent /\ HeaderKnown /\ ~InsideHeader(arrived)
  BY DEF InStep
<1> HIDE DEF c
<1>5. \A i \in 0..(inSize' - 1) : inbuf'[i] = Sent[c][i + 1]
  <2> TAKE i \in 0..(inSize' - 1)
  <2>1. CASE i \in inSize..(inSize + n - 1)
    <3>1. inbuf'[i] = Stream(taken + i - inSize + 1)
      BY <1>0, <1>1, <1>2, <2>1
    <3>0. taken + i - inSize + 1 = Ends[c - 1] + (i + 1)
      <4>1. i \in Int /\ taken = First + inSize
        BY <1>0, <1>4, <2>1
      <4>2. Ends[c - 1] = First /\ First \in Int /\ inSize \in Int
        BY <1>0
      <4> QED BY <4>1, <4>2
    <3>2. taken + i - inSize + 1 = Ends[c - 1] + (i + 1) /\ i + 1 \in 1..size
      <4>1. i + 1 <= inSize + n /\ i + 1 >= 1 /\ i + 1 \in Int
        BY <1>0, <2>1
      <4>2. inSize + n <= size
        BY DEF c
      <4> HIDE DEF size
      <4> QED BY <1>0, <3>0, <4>1, <4>2
    <3>3. Stream(Ends[c - 1] + (i + 1)) = Sent[c][i + 1]
      BY <1>0, <3>2, StreamIs
    <3> QED BY <3>1, <3>2, <3>3
  <2>2. CASE ~(i \in inSize..(inSize + n - 1))
    <3>1. i \in 0..(inSize - 1) /\ i \in DOMAIN inbuf
      BY <1>0, <1>1, <1>2, <2>2
    <3>2. inbuf'[i] = inbuf[i]
      BY <1>1, <2>2, <3>1
    <3>3. inbuf[i] = Sent[c][i + 1]
      BY <1>4, <3>1 DEF InsideCurrent, c
    <3> QED BY <3>2, <3>3
  <2> QED BY <2>1, <2>2
<1>6. InsideCurrent'
  <2>1. arrived <= Ends[c]
    BY <1>4 DEF InsideCurrent, c
  <2>2. ASSUME c < Len(Sent) PROVE Ends[c] <= Ends[c + 1] /\ Ends[c + 1] \in Nat
    <3>1. c \in 0..Len(Sent) /\ c + 1 \in 0..Len(Sent) /\ c <= c + 1
      BY <1>0, <2>2
    <3> QED BY <3>1, EndsGrow
  <2>3. ASSUME c < Len(Sent) PROVE arrived <= Ends[c + 1]
    BY SMTT(30), <1>0, <2>1, <2>2, <2>3
  <2>4. inSize' <= size
    BY <1>1 DEF c
  <2> QED BY <1>1, <1>3, <1>5, <2>1, <2>3, <2>4 DEF InsideCurrent
<1>7. HeaderKnown'
  <2>1. CASE got = << >>
    <3>1. \A i \in inSize'..(InBufSize - 1) : inbuf'[i] = 0
      <4> TAKE i \in inSize'..(InBufSize - 1)
      <4>1. i \in DOMAIN inbuf /\ ~(i \in inSize..(inSize + n - 1)) /\ i \in inSize..(InBufSize - 1)
        BY <1>0, <1>1, <1>2
      <4>2. inbuf'[i] = inbuf[i]
        BY <1>1, <4>1
      <4>3. inbuf[i] = 0
        BY <1>4, <2>1, <4>1 DEF HeaderKnown
      <4> QED BY <4>2, <4>3
    <3> QED BY <1>1, <2>1, <3>1 DEF HeaderKnown
  <2>2. CASE got # << >>
    <3>1. inSize' >= HeaderSize(c)
      BY <1>1, <2>2 DEF c
    <3>2. HeaderSize(Current') = HeaderSize(c)
      BY <1>3
    <3> QED BY <1>1, <1>3, <2>2, <3>1 DEF HeaderKnown
  <2> QED BY <2>1, <2>2
<1>8. taken' = First' + inSize' /\ inSize' # 0
  BY SMTT(30), <1>0, <1>1, <1>3, <1>4
<1>9. ~InsideHeader(arrived)' /\ Len(got') < Len(Sent)
  BY <1>1, <1>4
<1> QED BY <1>1, <1>3, <1>6, <1>7, <1>8, <1>9 DEF InStep

\* srecv reads what is there.
LEMMA ReadSomePreserves ==
  ASSUME Calm, IInv, ReadSome
  PROVE  IInv'
<1> USE DEF IInv
<1> DEFINE n == IF Available < ReadSize THEN Available ELSE ReadSize
           c == Current
<1>0. /\ Len(got) \in Nat /\ Len(Sent) \in Nat /\ Len(got) <= Len(Sent)
      /\ First \in Nat /\ Total \in Nat /\ cut \in Nat /\ arrived \in Nat /\ taken \in Nat
      /\ taken <= arrived /\ arrived <= cut /\ cut <= Total
      /\ Len(got) = Len(Sent) => First = Total
      /\ Len(got) < Len(Sent) =>
           /\ c \in 1..Len(Sent) /\ c - 1 = Len(got)
           /\ Ends[c] = First + Len(Sent[c]) /\ Ends[c] <= Total
  BY CurrentIs
<1>1. /\ pc = "select" /\ needread = 0 /\ Available > 0 /\ Take(n) /\ needread' = 0
  BY DEF ReadSome
<1>2. n \in 1..ReadSize /\ n <= Available /\ Available \in Nat /\ ReadSize \in Nat /\ 0 \in 0..ReadSize
  BY <1>0, <1>1, SizeAssumption DEF Available
<1> HIDE DEF n
<1>3. TypeOK'
  BY <1>1, <1>2, TakePreservesTypes
<1>4. ASSUME Overlong, Jammed PROVE IInv'
  <2>1. Jammed'
    BY <1>1, <1>2, <1>4, TakeKeepsJam
  <2>2. HandledWell' /\ Overlong'
    BY <1>1, <1>4, HandledStays DEF Take
  <2> QED BY <1>3, <2>1, <2>2
<1>5. ASSUME InStep PROVE IInv'
  <2>1. inSize = 0 /\ taken = First /\ ~InsideHeader(arrived)
    BY <1>0, <1>1, <1>5 DEF InStep
  <2>2. Len(got) < Len(Sent)
    BY <1>0, <1>1, <2>1 DEF Available
  <2>3. InsideCurrent /\ Len(Sent[c]) \in Nat /\ Len(Sent[c]) >= 2
    BY <1>0, <1>5, <2>2, PacketIs DEF InStep
  <2>4. arrived <= Ends[c] /\ 0 + n <= Len(Sent[c]) /\ 0 + n + 1 <= InBufSize
    <3>1. arrived <= Ends[c]
      BY <2>1, <2>3 DEF InsideCurrent
    <3>2. n <= Len(Sent[c])
      BY <1>0, <1>2, <2>1, <2>2, <2>3, <3>1 DEF Available
    <3> QED BY <1>2, <3>1, <3>2, SizeAssumption
  <2>5. ASSUME got # << >> PROVE n >= HeaderSize(c)
    <3>1. Len(got) # 0
      BY <2>5, EmptySeq DEF HandledWell
    <3>2. c > SplitHeaders /\ SplitHeaders \in Nat
      BY <1>0, <2>2, <3>1, RegimeAssumption DEF Calm
    <3>3. HeaderSize(c) \in 2..5 /\ HeaderSize(c) <= Len(Sent[c])
      <4>1. /\ HeaderSize(c) = 1 + LenBytes(c) /\ LenBytes(c) \in 1..4
            /\ Rem(c) \in 0..MaxRemLen /\ Len(Sent[c]) = 1 + LenBytes(c) + Rem(c)
        BY <1>0, <2>2, HeaderSizeIs, PacketIs
      <4>2. MaxRemLen \in Int
        BY BaseAssumption DEF MaxRemLen
      <4> QED BY <4>1, <4>2
    <3>4. CASE n = ReadSize
      BY <3>3, <3>4, SizeAssumption
    <3>5. CASE n = Available
      <4>1. CASE arrived = Ends[c]
        BY <1>0, <2>1, <2>2, <2>3, <3>3, <3>5, <4>1 DEF Available
      <4>2. CASE arrived # Ends[c]
        <5>1. arrived < Total /\ arrived > First /\ First = Ends[c - 1]
          BY SMTT(30), <1>0, <1>1, <2>1, <2>2, <2>4, <4>2 DEF Available, First
        <5>2. arrived + 1 <= Ends[c] /\ arrived + 1 \in Nat /\ Ends[c - 1] < arrived + 1
          BY SMTT(30), <1>0, <2>2, <2>3, <2>4, <4>2, <5>1
        <5>3. PacketOf(arrived + 1) = c
          BY <1>0, <2>2, <5>2, PacketOfIs
        <5>4. ~(arrived < Ends[c - 1] + HeaderSize(c))
          BY <2>1, <3>2, <5>1, <5>3 DEF InsideHeader
        <5> QED BY SMTT(30), <1>0, <2>1, <3>3, <3>5, <5>1, <5>4 DEF Available
      <4> QED BY <4>1, <4>2
    <3> QED BY <3>4, <3>5 DEF n
  <2>6. inSize + n <= Len(Sent[c]) /\ inSize + n + 1 <= InBufSize /\ inSize < Len(Sent[c])
        /\ (got = << >> \/ inSize + n >= HeaderSize(c))
    BY <2>1, <2>3, <2>4, <2>5, <1>2
  <2>7. InStep' /\ HandledWell'
    BY <1>1, <1>2, <1>5, <2>2, <2>6, TakeStaysInside
  <2> QED BY <1>3, <2>7
<1> QED BY <1>1, <1>4, <1>5

\* srecv reads what decodePacket has asked for.
LEMMA ReadNeededPreserves ==
  ASSUME IInv, ReadNeeded
  PROVE  IInv'
<1> USE DEF IInv
<1> DEFINE c == Current
<1>0. /\ Len(got) \in Nat /\ Len(Sent) \in Nat
      /\ Len(got) < Len(Sent) => c \in 1..Len(Sent)
  BY CurrentIs
<1>1. /\ pc = "select" /\ needread > 0 /\ Available >= needread /\ Take(needread) /\ needread' = 0
  BY DEF ReadNeeded
<1>2. needread \in 1..ReadSize /\ needread <= Available /\ 0 \in 0..ReadSize /\ inSize \in Nat
      /\ needread \in Nat
  <2>1. arrived \in Nat /\ taken \in Nat
    BY CurrentIs
  <2> QED BY <1>1, <2>1, SizeAssumption DEF TypeOK, Available
<1>3. TypeOK'
  BY <1>1, <1>2, TakePreservesTypes
<1>4. InStep
  BY <1>1 DEF Jammed
<1>5. Len(got) < Len(Sent)
  BY <1>1, <1>4 DEF InStep
<1>6. InsideCurrent /\ Len(Sent[c]) \in Nat /\ inSize # 0 /\ HeaderKnown
      /\ inSize + needread <= PacketBufSize + 3
  BY <1>0, <1>1, <1>4, <1>5, PacketIs DEF InStep
<1>7. inSize + needread <= Len(Sent[c]) /\ inSize < Len(Sent[c])
  BY <1>1, <1>2, <1>6 DEF InsideCurrent
<1>8. inSize + needread + 1 <= InBufSize
  BY <1>2, <1>6, SizeAssumption
<1>9. got = << >> \/ inSize + needread >= HeaderSize(c)
  <2> SUFFICES ASSUME got # << >> PROVE inSize + needread >= HeaderSize(c)
    OBVIOUS
  <2>1. inSize >= HeaderSize(c)
    BY <1>6 DEF HeaderKnown
  <2>2. HeaderSize(c) \in Int
    BY SMTT(30), <1>0, <1>5, HeaderSizeIs, PacketIs
  <2> QED BY <1>2, <2>1, <2>2
<1>10. InStep' /\ HandledWell'
  BY <1>1, <1>2, <1>4, <1>5, <1>7, <1>8, <1>9, TakeStaysInside
<1> QED BY <1>3, <1>10

\* The end of the connection, between two packets or behind one that does not fit.
LEMMA ReadEndPreserves ==
  ASSUME IInv, ReadEnd
  PROVE  IInv'
<1> USE DEF IInv
<1>1. /\ pc = "select" /\ needread = 0 /\ taken = cut
      /\ inbuf' = [i \in DOMAIN inbuf |-> 0] /\ inSize' = 0 /\ pc' = "ended"
      /\ UNCHANGED <<cut, arrived, taken, needread, got>>
  BY DEF ReadEnd
<1>2. TypeOK'
  <2>1. 0 \in Byte /\ 0 \in 0..(InBufSize - 1)
    BY BaseAssumption, SizeAssumption DEF Byte
  <2>2. inbuf' \in [0..(InBufSize - 1) -> Byte]
    BY <1>1, <2>1 DEF TypeOK
  <2> QED BY <1>1, <2>1, <2>2 DEF TypeOK
<1>3. HandledWell' /\ First' = First /\ Current' = Current /\ (Overlong => Overlong')
  BY <1>1, HandledStays
<1>4. ASSUME Overlong, Jammed PROVE IInv'
  BY <1>1, <1>2, <1>3, <1>4
<1>5. ASSUME InStep PROVE InStep'
  <2>1. inSize = 0
    BY <1>1, <1>5 DEF InStep
  <2>2. HeaderKnown'
    BY <1>1 DEF HeaderKnown, TypeOK
  <2>3. ASSUME Len(got) < Len(Sent) PROVE InsideCurrent'
    BY <1>1, <1>3, <1>5, <2>1, <2>3 DEF InStep, InsideCurrent
  <2>4. taken' = First' + inSize'
    BY <1>1, <1>3, <1>5, <2>1 DEF InStep
  <2> QED BY <1>1, <1>5, <2>2, <2>3, <2>4 DEF InStep
<1> QED BY <1>1, <1>2, <1>3, <1>4, <1>5

\* What decodePacket makes of inbuf when the I/O thread is in step: the length of the current
\* packet, or, of the first packet, a shorter one while its header is not complete.
LEMMA Decoded ==
  ASSUME TypeOK, HandledWell, InStep, pc = "parse"
  PROVE  /\ Len(got) < Len(Sent) /\ Current \in 1..Len(Sent) /\ inSize # 0
         /\ \/ /\ inSize >= 1 + LenBytes(Current)
               /\ LengthBytes = LenBytes(Current) /\ RemLen = Rem(Current)
            \/ /\ inSize <= LenBytes(Current)
               /\ LengthBytes = inSize /\ RemLen = Value(inbuf, inSize - 1)
               /\ RemLen <= Rem(Current)
<1> DEFINE c == Current
<1>1. Len(got) < Len(Sent) /\ c \in 1..Len(Sent) /\ inSize # 0 /\ inSize \in Nat /\ InsideCurrent
      /\ HeaderKnown /\ Len(got) \in Nat
  BY CurrentIs, SizeAssumption DEF InStep, TypeOK
<1>2. LenBytes(c) \in 1..4 /\ HeaderSize(c) = 1 + LenBytes(c)
  BY <1>1, PacketIs, HeaderSizeIs
<1>3. \A i \in 0..(inSize - 1) : inbuf[i] = Sent[c][i + 1]
  BY <1>1 DEF InsideCurrent
<1> HIDE DEF c
<1>4. CASE inSize >= 1 + LenBytes(c)
  <2>1. \A i \in 0..LenBytes(c) : inbuf[i] = Sent[c][i + 1]
    BY <1>1, <1>2, <1>3, <1>4
  <2> QED BY <1>1, <1>4, <2>1, WholeHeader DEF c
<1>5. CASE inSize <= LenBytes(c)
  <2>1. got = << >>
    BY <1>1, <1>2, <1>5 DEF HeaderKnown, c
  <2>2. inSize \in inSize..(InBufSize - 1)
    BY <1>1, <1>2, <1>5, SizeAssumption
  <2>3. inbuf[inSize] = 0
    BY <1>1, <2>1, <2>2 DEF HeaderKnown
  <2>4. inSize \in 1..LenBytes(c)
    BY <1>1, <1>2, <1>5
  <2> QED BY <1>1, <1>3, <1>5, <2>3, <2>4, PartOfHeader DEF c
<1> QED BY <1>1, <1>2, <1>4, <1>5

\* The first digits of what is jammed bound the length, so it does not fit.
LEMMA JamDoesNotFit ==
  ASSUME TypeOK, Jammed
  PROVE  ~Fits
<1>1. PICK m \in 1..4 : /\ m < inSize /\ \A j \in 1..(m - 1) : inbuf[j] >= Base
                        /\ ~FitsIn(Value(inbuf, m))
  BY DEF Jammed
<1>2. m <= LengthBytes /\ LengthBytes \in 1..4
  BY <1>1, DigitsGoOn, LengthBytesIs
<1>3. /\ \A i \in 1..LengthBytes : inbuf[i] \in Byte
      /\ RemLen = Value(inbuf, LengthBytes) /\ RemLen \in 0..MaxRemLen
  BY <1>2, LengthBytesIs
<1>4. Value(inbuf, m) \in Nat /\ Value(inbuf, m) <= RemLen
  BY <1>2, <1>3, ValueGrows
<1>5. Value(inbuf, m) \in 0..MaxRemLen
  <2>1. MaxRemLen \in Int
    BY BaseAssumption DEF MaxRemLen
  <2> HIDE DEF Value
  <2> QED BY <1>3, <1>4, <2>1
<1>6. ~FitsIn(RemLen)
  BY <1>1, <1>3, <1>4, <1>5, FitsIsMonotone
<1> QED BY <1>6 DEF Fits, FitsIn

\* A packet whose length is too long for packetBuf is too big, and the other way round.
LEMMA TooBigIs ==
  ASSUME NEW k \in 1..Len(Sent)
  PROVE  TooBig(k) <=> ~FitsIn(Rem(k))
<1>1. /\ Rem(k) \in 0..MaxRemLen /\ LenBytes(k) \in 1..4
      /\ Len(Sent[k]) = 1 + LenBytes(k) + Rem(k)
  BY PacketIs
<1>2. MaxRemLen \in Int
  BY BaseAssumption DEF MaxRemLen
<1> QED BY <1>1, <1>2, SizeAssumption DEF TooBig, FitsIn, LenBytes

\* BUFFER_OVERFLOW: only a packet that does not fit is refused, and from then on inbuf is
\* jammed.
LEMMA TooLongPreserves ==
  ASSUME IInv, TooLong
  PROVE  IInv' /\ (InStep => Overlong)
<1> USE DEF IInv
<1> DEFINE c == Current
<1>1. pc = "parse" /\ ~Fits /\ pc' = "select"
      /\ UNCHANGED <<cut, arrived, taken, inbuf, inSize, needread, got>>
  BY DEF TooLong
<1>2. TypeOK'
  BY <1>1 DEF TypeOK
<1>3. HandledWell' /\ (Overlong => Overlong') /\ (Jammed => Jammed')
  BY <1>1, HandledStays DEF Jammed, Value, FitsIn
<1>4. ASSUME InStep PROVE Overlong /\ Jammed
  <2>1. /\ Len(got) < Len(Sent) /\ c \in 1..Len(Sent) /\ inSize # 0
        /\ \/ inSize >= 1 + LenBytes(c) /\ LengthBytes = LenBytes(c) /\ RemLen = Rem(c)
           \/ /\ inSize <= LenBytes(c) /\ LengthBytes = inSize /\ RemLen = Value(inbuf, inSize - 1)
              /\ RemLen <= Rem(c)
    BY <1>1, <1>4, Decoded
  <2>2. Rem(c) \in 0..MaxRemLen /\ LenBytes(c) \in 1..4
    BY <2>1, PacketIs
  <2>3. /\ LengthBytes \in 1..4 /\ \A j \in 1..(LengthBytes - 1) : inbuf[j] >= Base
        /\ RemLen = Value(inbuf, LengthBytes) /\ RemLen \in 0..MaxRemLen
    BY LengthBytesIs
  <2>4. ~FitsIn(RemLen) /\ RemLen <= Rem(c)
    <3>1. MaxRemLen \in Int
      BY BaseAssumption DEF MaxRemLen
    <3> QED BY <1>1, <2>1, <2>2, <3>1 DEF Fits, FitsIn
  <2>5. Overlong
    <3>1. ~FitsIn(Rem(c))
      BY <2>2, <2>3, <2>4, FitsIsMonotone
    <3> QED BY <2>1, <3>1, TooBigIs DEF Overlong
  <2>6. needread = 0 /\ inSize \in Nat
    BY <1>1, <1>4 DEF InStep, TypeOK
  <2>7. CASE inSize >= 1 + LenBytes(c) /\ LengthBytes = LenBytes(c)
    <3>1. LengthBytes < inSize
      BY <2>2, <2>6, <2>7
    <3>2. ~FitsIn(Value(inbuf, LengthBytes))
      BY <2>3, <2>4
    <3> QED BY <2>3, <2>5, <2>6, <3>1, <3>2 DEF Jammed
  <2>8. CASE inSize <= LenBytes(c) /\ LengthBytes = inSize /\ RemLen = Value(inbuf, inSize - 1)
    <3>1. CASE inSize = 1
      <4>1. Value(inbuf, 0) = 0
        BY BaseAssumption DEF Value
      <4>2. FitsIn(0)
        <5>1. 0 \in 0..MaxRemLen /\ MaxRemLen \in Int
          <6>1. MaxRemLen \in Int
            BY BaseAssumption DEF MaxRemLen
          <6> QED BY <2>2, <6>1
        <5>2. Len(Encoding(0)) \in 1..4
          BY <5>1, EncodingIs
        <5>3. \A l \in 1..4 : 0 <= PacketBufSize - 1 - l
          BY SizeAssumption
        <5> QED BY <5>2, <5>3 DEF FitsIn
      <4> QED BY <2>4, <2>8, <3>1, <4>1, <4>2
    <3>2. CASE inSize > 1
      <4>1. inSize - 1 \in 1..4 /\ inSize - 1 < inSize
        BY <2>2, <2>6, <2>8, <3>2
      <4>2. \A j \in 1..((inSize - 1) - 1) : inbuf[j] >= Base
        BY <2>3, <2>6, <2>8
      <4>3. ~FitsIn(Value(inbuf, inSize - 1))
        BY <2>4, <2>8
      <4> QED BY <2>5, <2>6, <4>1, <4>2, <4>3 DEF Jammed
    <3> QED BY <2>1, <2>6, <3>1, <3>2
  <2> QED BY <2>1, <2>7, <2>8
<1> QED BY <1>1, <1>2, <1>3, <1>4

\* NEEDREAD: what is asked for is part of the current packet, and inbuf has room for it.
LEMMA NeedMorePreserves ==
  ASSUME IInv, NeedMore
  PROVE  IInv'
<1> USE DEF IInv
<1> DEFINE c == Current
<1>1. pc = "parse" /\ Fits /\ ~Complete /\ needread' = RemLen - (inSize - InStart) /\ pc' = "select"
      /\ UNCHANGED <<cut, arrived, taken, inbuf, inSize, got>>
  BY DEF NeedMore
<1>2. InStep
  BY <1>1, JamDoesNotFit
<1>3. /\ Len(got) < Len(Sent) /\ c \in 1..Len(Sent) /\ inSize # 0
      /\ \/ inSize >= 1 + LenBytes(c) /\ LengthBytes = LenBytes(c) /\ RemLen = Rem(c)
         \/ /\ inSize <= LenBytes(c) /\ LengthBytes = inSize /\ RemLen = Value(inbuf, inSize - 1)
            /\ RemLen <= Rem(c)
  BY <1>1, <1>2, Decoded
<1>4. /\ Rem(c) \in 0..MaxRemLen /\ LenBytes(c) \in 1..4 /\ Len(Sent[c]) = 1 + LenBytes(c) + Rem(c)
      /\ LengthBytes \in 1..4 /\ RemLen \in 0..MaxRemLen /\ MaxRemLen \in Int
  <2>1. MaxRemLen \in Int
    BY BaseAssumption DEF MaxRemLen
  <2> QED BY <1>3, <2>1, PacketIs, LengthBytesIs
<1>5. inSize \in Nat /\ inSize <= Len(Sent[c]) /\ InsideCurrent
  BY <1>2, <1>3, SizeAssumption DEF InStep, InsideCurrent, TypeOK
<1>6. Len(Encoding(RemLen)) \in 1..4 /\ RemLen <= PacketBufSize - 1 - Len(Encoding(RemLen))
  BY <1>1, <1>4, EncodingIs DEF Fits
<1>7. needread' = RemLen - (inSize - (1 + LengthBytes)) /\ inSize - (1 + LengthBytes) < RemLen
  BY <1>1, <1>4, <1>5 DEF Complete, InStart
<1> HIDE DEF c
<1>8. /\ needread' \in 1..ReadSize /\ inSize + needread' <= Len(Sent[c])
      /\ inSize + needread' <= PacketBufSize + 3
  <2>1. CASE inSize >= 1 + LenBytes(c) /\ LengthBytes = LenBytes(c) /\ RemLen = Rem(c)
    <3>1. inSize + needread' = Len(Sent[c])
      BY <1>4, <1>5, <1>7, <2>1
    <3>2. Len(Sent[c]) <= PacketBufSize
      BY <1>4, <1>6, <2>1, SizeAssumption DEF LenBytes
    <3> QED BY SMTT(30), <1>3, <1>4, <1>5, <1>7, <3>1, <3>2, <2>1, SizeAssumption
  <2>2. CASE inSize <= LenBytes(c) /\ LengthBytes = inSize /\ RemLen <= Rem(c)
    <3>1. needread' = RemLen + 1
      BY <1>4, <1>5, <1>7, <2>2
    <3>2. RemLen <= PacketBufSize - 2
      <4>1. \A l \in 1..4 : RemLen <= PacketBufSize - 1 - l => RemLen <= PacketBufSize - 2
        BY <1>4, SizeAssumption
      <4> QED BY <1>6, <4>1
    <3>3. needread' \in 1..ReadSize
      BY <1>4, <3>1, <3>2, SizeAssumption
    <3>4. inSize + needread' <= Len(Sent[c])
      BY <1>4, <1>5, <2>2, <3>1
    <3>5. inSize + needread' <= PacketBufSize + 3
      BY <1>4, <1>5, <2>2, <3>1, <3>2, SizeAssumption
    <3> QED BY <3>3, <3>4, <3>5
  <2> QED BY <1>3, <2>1, <2>2
<1>9. TypeOK'
  <2>1. needread' \in 0..ReadSize
    BY <1>8, SizeAssumption
  <2> QED BY <1>1, <2>1 DEF TypeOK
<1>10. HandledWell' /\ First' = First /\ Current' = c
  BY <1>1, HandledStays DEF c
<1>11. InStep'
  <2>1. InsideCurrent'
    BY <1>1, <1>5, <1>8, <1>10 DEF InsideCurrent, c
  <2>2. HeaderKnown'
    BY <1>1, <1>2, <1>10 DEF InStep, HeaderKnown, c
  <2>3. taken' = First' + inSize'
    BY <1>1, <1>2, <1>10 DEF InStep
  <2>4. needread' # 0
    BY <1>8
  <2> QED BY <1>1, <1>2, <1>3, <1>8, <2>1, <2>2, <2>3, <2>4 DEF InStep
<1> QED BY <1>9, <1>10, <1>11

\* A packet is done when all of it is in inbuf, and what goes to packetBuf is the packet sent.
LEMMA PacketDoneHandles ==
  ASSUME IInv, PacketDone
  PROVE  /\ InStep /\ Len(got) < Len(Sent) /\ Current \in 1..Len(Sent)
         /\ got' = Append(got, Sent[Current]) /\ ~TooBig(Current)
         /\ inSize = Len(Sent[Current]) /\ inSize' = 0
<1> USE DEF IInv
<1> DEFINE c == Current
<1>1. /\ pc = "parse" /\ Fits /\ Complete
      /\ got' = Append(got, <<inbuf[0]>> \o Encoding(RemLen)
                            \o [i \in 1..RemLen |-> inbuf[InStart + i - 1]])
      /\ inSize' = inSize - InStart - RemLen
  BY DEF PacketDone
<1>2. InStep
  BY <1>1, JamDoesNotFit
<1>3. /\ Len(got) < Len(Sent) /\ c \in 1..Len(Sent) /\ inSize # 0
      /\ \/ inSize >= 1 + LenBytes(c) /\ LengthBytes = LenBytes(c) /\ RemLen = Rem(c)
         \/ /\ inSize <= LenBytes(c) /\ LengthBytes = inSize /\ RemLen = Value(inbuf, inSize - 1)
            /\ RemLen <= Rem(c)
  BY <1>1, <1>2, Decoded
<1>4. /\ Rem(c) \in 0..MaxRemLen /\ LenBytes(c) \in 1..4 /\ Len(Sent[c]) = 1 + LenBytes(c) + Rem(c)
      /\ LengthBytes \in 1..4 /\ RemLen \in 0..MaxRemLen /\ MaxRemLen \in Int
      /\ Sent[c] \in Seq(Byte)
      /\ \A i \in 1..LenBytes(c) : Sent[c][i + 1] = Encoding(Rem(c))[i]
  <2>1. MaxRemLen \in Int
    BY BaseAssumption DEF MaxRemLen
  <2> QED BY <1>3, <2>1, PacketIs, LengthBytesIs
<1>5. inSize \in Nat /\ inSize <= Len(Sent[c]) /\ \A i \in 0..(inSize - 1) : inbuf[i] = Sent[c][i + 1]
  BY <1>2, <1>3, SizeAssumption DEF InStep, InsideCurrent, TypeOK
<1>6. inSize - (1 + LengthBytes) >= RemLen
  BY <1>1 DEF Complete, InStart
<1>7. LengthBytes = LenBytes(c) /\ RemLen = Rem(c) /\ inSize >= 1 + LenBytes(c)
  BY <1>3, <1>4, <1>5, <1>6
<1>8. inSize = Len(Sent[c]) /\ inSize' = 0
  <2>1. LengthBytes \in Nat /\ RemLen \in Nat /\ Len(Sent[c]) = 1 + LengthBytes + RemLen
    BY <1>4, <1>7
  <2>2. inSize = 1 + LengthBytes + RemLen
    BY <1>5, <1>6, <2>1
  <2>3. inSize' = inSize - (1 + LengthBytes) - RemLen
    BY <1>1 DEF InStart
  <2> QED BY <1>5, <2>1, <2>2, <2>3
<1>9. ~TooBig(c)
  BY <1>1, <1>3, <1>7, TooBigIs DEF Fits, FitsIn
<1>10. <<inbuf[0]>> \o Encoding(RemLen) \o [i \in 1..RemLen |-> inbuf[InStart + i - 1]] = Sent[c]
  <2> DEFINE l == LenBytes(c)  r == Rem(c)  e == Encoding(r)
             body == [i \in 1..r |-> inbuf[l + i]]
             p == <<inbuf[0]>> \o e \o body
  <2>1. e \in Seq(Byte) /\ Len(e) = l
    BY <1>4, EncodingIs DEF LenBytes
  <2>2. \A i \in 1..r : inbuf[l + i] = Sent[c][l + i + 1] /\ Sent[c][l + i + 1] \in Byte
    <3> TAKE i \in 1..r
    <3>1. l + i \in 0..(inSize - 1) /\ l + i + 1 \in 1..Len(Sent[c])
      BY <1>4, <1>8
    <3> QED BY <1>4, <1>5, <3>1, ElementOfSeq
  <2>3. inbuf[0] = Sent[c][1] /\ Sent[c][1] \in Byte
    <3>1. 0 \in 0..(inSize - 1) /\ 1 \in 1..Len(Sent[c]) /\ 0 + 1 = 1
      BY <1>4, <1>8
    <3> QED BY <1>4, <1>5, <3>1, ElementOfSeq
  <2>4. body \in Seq(Byte) /\ Len(body) = r
    BY <1>4, <2>2
  <2>5. p \in Seq(Byte) /\ Len(p) = 1 + l + r
    BY <1>4, <2>1, <2>3, <2>4
  <2> HIDE DEF e, body
  <2>6. \A i \in 1..Len(p) : p[i] = Sent[c][i]
    <3> TAKE i \in 1..Len(p)
    <3>1. CASE i = 1
      BY <2>1, <2>3, <2>4, <3>1
    <3>2. CASE i > 1 /\ i <= 1 + l
      <4>1. p[i] = e[i - 1]
        BY <1>4, <2>1, <2>3, <2>4, <2>5, <3>2
      <4>2. i - 1 \in 1..l /\ (i - 1) + 1 = i
        BY <1>4, <2>5, <3>2
      <4> QED BY <1>4, <4>1, <4>2 DEF e
    <3>3. CASE i > 1 + l
      <4>0. <<inbuf[0]>> \o e \in Seq(Byte) /\ Len(<<inbuf[0]>> \o e) = 1 + l
        BY <1>4, <2>1, <2>3
      <4>1. p[i] = body[i - (1 + l)]
        <5> HIDE DEF p
        <5>1. i \in 1..(1 + l + r) /\ r \in Nat /\ l \in Nat /\ i > 1 + l
          BY <1>4, <2>5, <3>3
        <5>2. i <= Len(<<inbuf[0]>> \o e) + Len(body) /\ i > Len(<<inbuf[0]>> \o e)
          BY <2>4, <4>0, <5>1
        <5> QED BY <2>4, <4>0, <5>1, <5>2, ConcatProperties DEF p
      <4>2. i - (1 + l) \in 1..r /\ l + (i - (1 + l)) + 1 = i
        BY SMTT(30), <1>4, <2>5, <3>3
      <4>3. body[i - (1 + l)] = inbuf[l + (i - (1 + l))]
        BY <4>2 DEF body
      <4> QED BY <2>2, <4>1, <4>2, <4>3
    <3> QED BY SMTT(30), <1>4, <2>5, <3>1, <3>2, <3>3
  <2>7. p = Sent[c]
    <3> HIDE DEF p
    <3> QED BY <1>4, <2>5, <2>6, SeqEqual
  <2>8. \A i \in 1..r : InStart + i - 1 = l + i
    BY <1>4, <1>7 DEF InStart
  <2>9. [i \in 1..RemLen |-> inbuf[InStart + i - 1]] = body
    BY <1>7, <2>8 DEF body
  <2> QED BY <1>7, <2>7, <2>9 DEF e
<1> QED BY <1>1, <1>2, <1>3, <1>8, <1>9, <1>10

\* The packet is handled, and the next one is current.
LEMMA PacketDonePreserves ==
  ASSUME IInv, PacketDone
  PROVE  IInv'
<1> USE DEF IInv
<1> DEFINE c == Current
<1>1. /\ InStep /\ Len(got) < Len(Sent) /\ c \in 1..Len(Sent)
      /\ got' = Append(got, Sent[c]) /\ ~TooBig(c)
      /\ inSize = Len(Sent[c]) /\ inSize' = 0
  BY PacketDoneHandles
<1>2. /\ pc' \in {"select", "parse"} /\ (pc' = "parse" => inSize' > 0)
      /\ pc = "parse" /\ UNCHANGED <<cut, arrived, taken, inbuf, needread>>
  BY DEF PacketDone
<1>3. /\ Len(got) \in Nat /\ Len(Sent) \in Nat /\ c = Len(got) + 1 /\ First \in Nat
      /\ Ends[c] = First + Len(Sent[c]) /\ taken <= cut /\ taken <= arrived /\ cut <= Total
      /\ cut \in Nat /\ arrived \in Nat /\ taken \in Nat /\ Len(Sent[c]) \in Nat
      /\ Sent[c] \in Seq(Byte) /\ arrived <= cut
  BY <1>1, CurrentIs, PacketIs DEF Current
<1> HIDE DEF c
<1>4. got \in Seq(Seq(Byte)) /\ FramesInOrder /\ \A j \in DOMAIN got : ~TooBig(j)
  BY DEF HandledWell
<1>5. /\ got' \in Seq(Seq(Byte)) /\ Len(got') = c /\ got' # << >>
      /\ \A j \in 1..c : got'[j] = IF j = c THEN Sent[c] ELSE got[j]
  BY <1>1, <1>3, <1>4, AppendProperties
<1>6. First' = Ends[c] /\ taken = Ends[c] /\ Current' = c + 1
  BY <1>1, <1>3, <1>5 DEF First, Current, InStep
<1>7. TypeOK'
  BY <1>1, <1>2, <1>5, SizeAssumption DEF TypeOK
<1>8. HandledWell'
  <2>1. \A j \in 1..c : got'[j] = Sent[j] /\ ~TooBig(j)
    <3> TAKE j \in 1..c
    <3>1. CASE j = c
      BY <1>1, <1>5, <3>1
    <3>2. CASE j # c
      <4>1. j \in DOMAIN got
        BY <1>3, <1>4, <3>2, LenProperties
      <4> QED BY <1>4, <1>5, <3>2, <4>1 DEF FramesInOrder
    <3> QED BY <3>1, <3>2
  <2>2. DOMAIN got' = 1..c /\ c <= Len(Sent)
    BY <1>1, <1>5, LenProperties
  <2>3. (First <= cut)'
    BY <1>2, <1>3, <1>6
  <2>4. FramesInOrder'
    BY <1>5, <2>1, <2>2 DEF FramesInOrder
  <2>5. \A j \in DOMAIN got' : ~TooBig(j)'
    BY <2>1, <2>2 DEF TooBig
  <2> QED BY <1>5, <2>3, <2>4, <2>5 DEF HandledWell
<1>9. InStep'
  <2>1. needread = 0 /\ ~InsideHeader(arrived) /\ InsideCurrent
    BY <1>1, <1>2 DEF InStep
  <2>2. pc' = "select"
    BY <1>1, <1>2
  <2>3. ASSUME Len(got') < Len(Sent) PROVE InsideCurrent'
    <3>1. c < Len(Sent) /\ c + 1 \in 1..Len(Sent)
      BY <1>1, <1>3, <1>5, <2>3
    <3>2. arrived <= Ends[c + 1]
      BY <1>1, <2>1, <3>1 DEF InsideCurrent, c
    <3>3. Len(Sent[c + 1]) \in Nat /\ Len(Sent[c + 1]) >= 2
      BY <3>1, PacketIs
    <3> QED BY <1>1, <1>2, <1>6, <2>1, <3>2, <3>3 DEF InsideCurrent
  <2>4. HeaderKnown'
    BY <1>1, <1>5 DEF HeaderKnown
  <2>5. taken' = First' + inSize'
    BY <1>1, <1>2, <1>3, <1>6
  <2> QED BY <1>1, <1>2, <2>1, <2>2, <2>3, <2>4, <2>5 DEF InStep
<1> QED BY <1>7, <1>8, <1>9

-----------------------------------------------------------------------------
(* The theorems *)

\* Nothing has arrived and inbuf is empty.
LEMMA FramingInit ==
  ASSUME Init
  PROVE  IInv /\ Numbers
<1>1. /\ cut \in 0..Total /\ ~InsideHeader(0) /\ arrived = 0 /\ taken = 0
      /\ inbuf = [i \in 0..(InBufSize - 1) |-> 0] /\ inSize = 0 /\ needread = 0
      /\ pc = "select" /\ got = << >>
  <2>1. ASSUME InsideHeader(0) PROVE FALSE
    <3> DEFINE k == PacketOf(0 + 1)
    <3>1. Total \in Nat /\ 0 < Total /\ Len(Sent) \in Nat
      BY <2>1, EndsIs, SentAssumption, LenProperties DEF InsideHeader, Total
    <3>2. Len(Sent) > 0
      BY <3>1, EndsIs DEF Total
    <3>3. 1 \in 1..Len(Sent) /\ 1 - 1 = 0
      BY <3>1, <3>2
    <3>4. Ends[0] = 0 /\ Ends[1] = Ends[0] + Len(Sent[1]) /\ Len(Sent[1]) \in Nat /\ Len(Sent[1]) >= 2
      BY <3>3, EndsIs, PacketIs
    <3>5. k = 1
      BY <3>3, <3>4, PacketOfIs
    <3>6. 0 > Ends[k - 1]
      BY <2>1 DEF InsideHeader
    <3> QED BY <3>3, <3>4, <3>5, <3>6
  <2> QED BY <2>1 DEF Init
<1>2. Total \in Nat /\ Len(Sent) \in Nat /\ 0 \in Byte /\ Ends[0] = 0 /\ 0 \in 0..(InBufSize - 1)
      /\ ReadSize \in Nat
  BY EndsIs, SentAssumption, LenProperties, BaseAssumption, SizeAssumption DEF Total, Byte
<1>3. Len(got) = 0 /\ DOMAIN got = {} /\ got \in Seq(Seq(Byte))
  BY <1>1
<1>4. TypeOK /\ Numbers
  BY <1>1, <1>2, <1>3 DEF TypeOK, Numbers
<1>5. HandledWell
  BY <1>1, <1>2, <1>3 DEF HandledWell, FramesInOrder, First
<1>6. InStep
  <2>1. HeaderKnown
    BY <1>1 DEF HeaderKnown
  <2>2. ASSUME Len(got) < Len(Sent) PROVE InsideCurrent
    <3>1. Current \in 1..Len(Sent) /\ Ends[Current] \in Nat /\ Len(Sent[Current]) \in Nat
          /\ Len(Sent[Current]) >= 2
      BY <1>2, <1>3, <2>2, EndsIs, PacketIs DEF Current
    <3> QED BY <1>1, <3>1 DEF InsideCurrent
  <2> QED BY <1>1, <1>2, <1>3, <2>1, <2>2 DEF InStep, First
<1> QED BY <1>4, <1>5, <1>6 DEF IInv

\* Every step of the I/O thread and of TCP.
LEMMA FramingNext ==
  ASSUME Calm, IInv, [Next]_vars
  PROVE  IInv'
<1>1. CASE Arrive
  BY <1>1, ArrivePreserves
<1>2. CASE ReadSome
  BY <1>2, ReadSomePreserves
<1>3. CASE ReadNeeded
  BY <1>3, ReadNeededPreserves
<1>4. CASE ReadEnd
  BY <1>4, ReadEndPreserves
<1>5. CASE TooLong
  BY <1>5, TooLongPreserves
<1>6. CASE NeedMore
  BY <1>6, NeedMorePreserves
<1>7. CASE PacketDone
  BY <1>7, PacketDonePreserves
<1>8. CASE UNCHANGED vars
  <2>1. TypeOK' = TypeOK /\ HandledWell' = HandledWell /\ Overlong' = Overlong /\ Jammed' = Jammed
    BY <1>8 DEF vars, TypeOK, HandledWell, FramesInOrder, First, Overlong, Current, Jammed, Value, FitsIn
  <2>2. InStep' = InStep
    BY <1>8 DEF vars, InStep, InsideCurrent, HeaderKnown, First, Current
  <2> QED BY <1>8, <2>1, <2>2 DEF IInv, vars
<1> QED BY <1>1, <1>2, <1>3, <1>4, <1>5, <1>6, <1>7, <1>8 DEF Next, Io

\* The inductive invariant, in a regime in which every fixed header but the first arrives whole
\* and no packet before the one in front of it is read.
THEOREM Invariant == ASSUME Calm PROVE Spec => []IInv
BY FramingInit, FramingNext, PTL DEF Spec

\* srecv's local buffer takes the needread bytes it is asked for, and so do inbuf and got.
THEOREM Types == ASSUME Calm PROVE Spec => []TypeOK
<1>1. IInv => TypeOK
  BY DEF IInv
<1> QED BY <1>1, Invariant, PTL

\* What is handled are the packets the broker sent, each once and in order.
THEOREM HandledInOrder == ASSUME Calm PROVE Spec => []FramesInOrder
<1>1. IInv => FramesInOrder
  BY DEF IInv, HandledWell
<1> QED BY <1>1, Invariant, PTL

\* Between two packets inbuf holds exactly the bytes read and not handled.
THEOREM BufferInStep == ASSUME Calm PROVE Spec => []BufferIsUnhandledBytes
<1>1. ASSUME IInv PROVE BufferIsUnhandledBytes
  <2>1. CASE Overlong
    BY <2>1 DEF BufferIsUnhandledBytes, Overlong, Current
  <2>2. CASE InStep
    <3>1. taken = First + inSize /\ inSize \in Nat /\ Len(got) \in Nat /\ First \in Nat
      BY <1>1, <2>2, CurrentIs, SizeAssumption DEF IInv, InStep, TypeOK
    <3>2. ASSUME NEW i \in 0..(inSize - 1) PROVE inbuf[i] = Stream(First + i + 1)
      <4>1. Len(got) < Len(Sent)
        BY <1>1, <2>2, <3>1, <3>2, CurrentIs DEF IInv, InStep
      <4>2. /\ Current \in 1..Len(Sent) /\ Current - 1 = Len(got)
            /\ inSize <= Len(Sent[Current]) /\ inbuf[i] = Sent[Current][i + 1]
        BY <1>1, <2>2, <3>2, <4>1, CurrentIs DEF IInv, InStep, InsideCurrent
      <4>3. Len(Sent[Current]) \in Nat
        BY <4>2, PacketIs
      <4>4. i + 1 \in 1..Len(Sent[Current])
        BY <3>1, <4>2, <4>3
      <4>5. Stream(Ends[Current - 1] + (i + 1)) = Sent[Current][i + 1]
        BY <4>2, <4>4, StreamIs
      <4>6. Ends[Current - 1] + (i + 1) = First + i + 1
        <5>1. Ends[Current - 1] = First /\ i \in Int
          BY <3>1, <4>2 DEF First
        <5> QED BY <3>1, <5>1
      <4> QED BY <4>2, <4>5, <4>6
    <3> QED BY <3>1, <3>2 DEF BufferIsUnhandledBytes, First
  <2> QED BY <1>1, <2>1, <2>2 DEF IInv
<1> QED BY <1>1, Invariant, PTL

\* The numbers stay in range in every regime, also when a header is cut behind another packet.
LEMMA NumbersStay ==
  ASSUME Numbers, [Next]_vars
  PROVE  Numbers'
<1>0. /\ Total \in Nat /\ cut \in Nat /\ arrived \in Nat /\ taken \in Nat /\ taken <= arrived
      /\ arrived <= cut /\ inSize \in Nat /\ InBufSize \in Nat /\ ReadSize \in Nat /\ ReadSize > 0
  <2>1. Total \in Nat
    BY EndsIs, SentAssumption, LenProperties DEF Total
  <2> QED BY <2>1, SizeAssumption DEF Numbers
<1>1. CASE Arrive
  BY <1>0, <1>1 DEF Arrive, Numbers
<1>2. CASE ReadSome
  <2> DEFINE n == IF Available < ReadSize THEN Available ELSE ReadSize
  <2>1. n \in Nat /\ n > 0 /\ n <= Available /\ Take(n) /\ needread' \in Nat
    BY <1>0, <1>2 DEF ReadSome, Available, Numbers
  <2> HIDE DEF n
  <2> QED BY <2>1, TakePreservesNumbers
<1>3. CASE ReadNeeded
  <2>1. needread \in Nat /\ needread > 0 /\ needread <= Available /\ Take(needread) /\ needread' \in Nat
    BY <1>0, <1>3 DEF ReadNeeded, Available, Numbers
  <2> QED BY <2>1, TakePreservesNumbers
<1>4. CASE ReadEnd
  <2>1. 0 \in Byte /\ 0 \in 0..(InBufSize - 1)
    BY BaseAssumption, SizeAssumption DEF Byte
  <2>2. inbuf' \in [0..(InBufSize - 1) -> Byte] /\ inSize' = 0 /\ UNCHANGED <<cut, arrived, taken, needread>>
    BY <1>4, <2>1 DEF ReadEnd, Numbers
  <2> QED BY <2>1, <2>2 DEF Numbers
<1>5. CASE TooLong
  BY <1>5 DEF TooLong, Numbers
<1>6. RemLen \in Nat /\ InStart \in Nat
  <2>1. inbuf \in [0..(InBufSize - 1) -> Byte] /\ MaxRemLen \in Int
    BY BaseAssumption DEF Numbers, MaxRemLen
  <2>2. RemLen \in 0..MaxRemLen /\ LengthBytes \in 1..4
    BY <2>1, Decodes
  <2> QED BY <2>1, <2>2 DEF InStart
<1>7. CASE NeedMore
  <2>1. needread' = RemLen - (inSize - InStart) /\ ~(inSize - InStart >= RemLen)
        /\ UNCHANGED <<cut, arrived, taken, inbuf, inSize>>
    BY <1>7 DEF NeedMore, Complete
  <2>2. needread' \in Nat
    BY <1>0, <1>6, <2>1
  <2> QED BY <2>1, <2>2 DEF Numbers
<1>8. CASE PacketDone
  <2>1. inSize' = inSize - InStart - RemLen /\ inSize - InStart >= RemLen
        /\ UNCHANGED <<cut, arrived, taken, inbuf, needread>>
    BY <1>8 DEF PacketDone, Complete
  <2>2. inSize' \in 0..(InBufSize - 1)
    <3>1. inSize \in 0..(InBufSize - 1)
      BY DEF Numbers
    <3> QED BY <1>0, <1>6, <2>1, <3>1
  <2> QED BY <2>1, <2>2 DEF Numbers
<1>9. CASE UNCHANGED vars
  BY <1>9 DEF vars, Numbers
<1> QED BY <1>1, <1>2, <1>3, <1>4, <1>5, <1>7, <1>8, <1>9 DEF Next, Io

\* A packet longer than packetBuf is never skipped: nothing is handled from then on, and
\* only the end of the connection empties inbuf.  This holds in every regime.
THEOREM OverlongStops == Spec => OverlongStopsReading
<1>1. ASSUME Numbers, Stuck, Next PROVE got' = got /\ (inSize' >= inSize \/ pc' = "ended")
  <2>0. /\ inSize \in Int /\ arrived \in Int /\ taken \in Int /\ ReadSize \in Nat /\ ReadSize > 0
    BY SizeAssumption, <1>1, EndsIs, SentAssumption, LenProperties DEF Numbers, Total
  <2>1. CASE Arrive
    BY <2>0, <2>1 DEF Arrive
  <2>2. CASE ReadSome
    <3> DEFINE n == IF Available < ReadSize THEN Available ELSE ReadSize
    <3>1. n \in Nat /\ n > 0 /\ n <= Available /\ Take(n) /\ needread' \in Nat
      BY <1>1, <2>0, <2>2 DEF ReadSome, Available, Numbers
    <3> HIDE DEF n
    <3> QED BY <1>1, <3>1, TakePreservesNumbers
  <2>3. CASE ReadNeeded
    <3>1. needread \in Nat /\ needread > 0 /\ needread <= Available /\ Take(needread) /\ needread' \in Nat
      BY <1>1, <2>0, <2>3 DEF ReadNeeded, Available, Numbers
    <3> QED BY <1>1, <3>1, TakePreservesNumbers
  <2>4. CASE ReadEnd
    BY <2>4 DEF ReadEnd
  <2>5. CASE TooLong \/ NeedMore
    BY <2>0, <2>5 DEF TooLong, NeedMore
  <2>6. ~PacketDone
    BY <1>1 DEF Stuck, PacketDone
  <2> QED BY <1>1, <2>1, <2>2, <2>3, <2>4, <2>5, <2>6 DEF Next, Io
<1>2. Numbers /\ [Next]_vars => [Stuck => got' = got /\ (inSize' >= inSize \/ pc' = "ended")]_vars
  BY <1>1
<1> QED BY <1>2, FramingInit, NumbersStay, PTL DEF Spec, OverlongStopsReading

\* Some packet is the last that is sent whole before one that does not fit.
LEMMA WholeExists ==
  ASSUME cut \in Nat
  PROVE  \E k \in 0..Len(Sent) :
           /\ Ends[k] <= cut /\ \A j \in 1..k : ~TooBig(j)
           /\ k = Len(Sent) \/ Ends[k + 1] > cut \/ TooBig(k + 1)
<1> DEFINE n == Len(Sent)
           Good(k) == Ends[k] <= cut /\ \A j \in 1..k : ~TooBig(j)
           S == {k \in Nat : k <= n => Good(k)}
<1>0. n \in Nat /\ \A k \in 0..n : Ends[k] \in Nat
  BY EndsIs, SentAssumption, LenProperties
<1> SUFFICES ASSUME \A k \in 0..n : Good(k) => k # n /\ Ends[k + 1] <= cut /\ ~TooBig(k + 1)
             PROVE  FALSE
  BY <1>0
<1>1. 0 \in S
  BY EndsIs
<1>2. ASSUME NEW k \in Nat, k \in S PROVE k + 1 \in S
  <2> SUFFICES ASSUME k + 1 <= n PROVE Good(k + 1)
    OBVIOUS
  <2>1. k \in 0..n /\ Good(k)
    BY <1>0, <1>2
  <2>2. Ends[k + 1] <= cut /\ ~TooBig(k + 1)
    BY <2>1
  <2>3. \A j \in 1..(k + 1) : j \in 1..k \/ j = k + 1
    BY <2>1
  <2> QED BY <2>1, <2>2, <2>3
<1>3. \A k \in Nat : k \in S
  <2> HIDE DEF S
  <2> QED BY <1>1, <1>2, Induction
<1>4. Good(n)
  BY <1>0, <1>3
<1> QED BY <1>0, <1>4

\* Whole is the last of them, so a packet that was sent whole and fits is counted.
LEMMA WholeIs ==
  ASSUME cut \in Nat, NEW k \in 0..Len(Sent), Ends[k] <= cut, \A j \in 1..k : ~TooBig(j)
  PROVE  Whole \in 0..Len(Sent) /\ k <= Whole
<1> DEFINE w == Whole
<1>1. w \in 0..Len(Sent) /\ (w = Len(Sent) \/ Ends[w + 1] > cut \/ TooBig(w + 1))
  BY WholeExists DEF Whole
<1>2. Len(Sent) \in Nat
  BY SentAssumption, LenProperties
<1> HIDE DEF w
<1>3. ASSUME w < k PROVE FALSE
  <2>1. w + 1 \in 0..Len(Sent) /\ w + 1 <= k /\ w + 1 \in 1..k /\ w # Len(Sent)
    BY <1>1, <1>2, <1>3
  <2>2. Ends[w + 1] <= Ends[k] /\ Ends[k] \in Nat /\ Ends[w + 1] \in Nat
    BY <2>1, EndsGrow
  <2> QED BY <1>1, <2>1, <2>2
<1> QED BY <1>1, <1>2, <1>3 DEF w

\* The reader implements PacketChannel.
THEOREM Implementation == ASSUME Calm PROVE Spec => ImplementsChannel
<1>1. Init => Channel!Init
  BY DEF Init, Channel!Init
<1>2. ASSUME IInv, [Next]_vars PROVE [Channel!Handle]_<<SubSeq(Sent, 1, Whole), got>>
  <2>1. UNCHANGED cut
    BY <1>2 DEF Next, Io, Arrive, ReadSome, ReadNeeded, ReadEnd, Take, TooLong, NeedMore, PacketDone, vars
  <2>2. Whole' = Whole
    BY <2>1 DEF Whole, TooBig
  <2>3. ASSUME ~PacketDone PROVE got' = got
    BY <1>2, <2>3 DEF Next, Io, Arrive, ReadSome, ReadNeeded, ReadEnd, Take, TooLong, NeedMore, vars
  <2>4. ASSUME PacketDone PROVE Channel!Handle
    <3> DEFINE c == Current
    <3>1. /\ InStep /\ Len(got) < Len(Sent) /\ c \in 1..Len(Sent)
          /\ got' = Append(got, Sent[c]) /\ ~TooBig(c) /\ inSize = Len(Sent[c])
      BY <1>2, <2>4, PacketDoneHandles
    <3>2. /\ Ends[c] = First + Len(Sent[c]) /\ taken <= cut /\ taken = First + inSize /\ cut \in Nat
          /\ taken \in Nat /\ arrived \in Nat /\ c = Len(got) + 1 /\ Len(got) \in Nat /\ Len(Sent) \in Nat
      BY <1>2, <3>1, CurrentIs DEF IInv, InStep, Current
    <3>3. \A j \in 1..c : ~TooBig(j)
      <4>1. \A j \in 1..Len(got) : ~TooBig(j)
        BY <1>2, LenProperties DEF IInv, HandledWell
      <4> HIDE DEF c
      <4>2. \A j \in 1..c : j \in 1..Len(got) \/ j = c
        BY <3>2
      <4> QED BY <3>1, <4>1, <4>2
    <3> HIDE DEF c
    <3>4. c \in 0..Len(Sent) /\ Ends[c] <= cut
      BY <3>1, <3>2
    <3>5. Whole \in 0..Len(Sent) /\ c <= Whole
      BY <3>2, <3>3, <3>4, WholeIs
    <3>6. Len(SubSeq(Sent, 1, Whole)) = Whole /\ SubSeq(Sent, 1, Whole)[c] = Sent[c]
      <4>1. 1 <= Whole /\ Whole <= Len(Sent) /\ c \in 1..Whole
        BY <3>1, <3>2, <3>5
      <4> QED BY <3>2, <3>5, <4>1, SentAssumption, SubSeqProperties
    <3>7. Len(got) < Len(SubSeq(Sent, 1, Whole))
      BY <3>2, <3>5, <3>6
    <3> QED BY <2>2, <3>1, <3>2, <3>6, <3>7 DEF Channel!Handle
  <2> QED BY <2>2, <2>3, <2>4
<1> QED BY <1>1, <1>2, Invariant, PTL DEF Spec, ImplementsChannel, Channel!Spec
=============================================================================
