------------------------ MODULE PacketCodecs_proofs ------------------------
(***************************************************************************)
(* What the packet library of src/mqtt does with numbers, for every number: *)
(* the remaining length, the size reserved for a packet, identifiers and    *)
(* header bytes.                                                            *)
(***************************************************************************)
EXTENDS PacketCodecs, SequenceTheorems, WellFoundedInduction, TLAPS

\* n = a + 128 b + 16384 c + 2097152 d, the digits of a remaining length
LEMMA FourDigits ==
  ASSUME NEW n \in Nat, n <= MaxRemLen
  PROVE  LET d(i) == (n \div Pow128[i]) % 128
         IN  /\ \A i \in 1..4 : d(i) \in 0..127
             /\ n = d(1) + 128 * d(2) + 16384 * d(3) + 2097152 * d(4)
             /\ n < 128 => d(2) = 0 /\ d(3) = 0 /\ d(4) = 0
             /\ n < 16384 => d(3) = 0 /\ d(4) = 0
             /\ n < 2097152 => d(4) = 0
<1>1. n \in Nat /\ n < 128 * 2097152
  BY SMT DEF MaxRemLen
<1>2. Pow128[1] = 1 /\ Pow128[2] = 128 /\ Pow128[3] = 16384 /\ Pow128[4] = 2097152
  BY SMT DEF Pow128
<1>3. /\ n \div 1 = n /\ n \div 16384 = (n \div 128) \div 128
      /\ n \div 2097152 = (n \div 16384) \div 128
      /\ n \div 2097152 < 128 /\ n \div 128 \in Nat /\ n \div 16384 \in Nat /\ n \div 2097152 \in Nat
  BY SMT, <1>1
<1> DEFINE d(i) == (n \div Pow128[i]) % 128
<1>4. d(1) = n % 128 /\ d(2) = (n \div 128) % 128 /\ d(3) = (n \div 16384) % 128
      /\ d(4) = n \div 2097152
  BY SMT, <1>2, <1>3
<1>5. n = 128 * (n \div 128) + (n % 128)
      /\ n \div 128 = 128 * (n \div 16384) + ((n \div 128) % 128)
      /\ n \div 16384 = 128 * (n \div 2097152) + ((n \div 16384) % 128)
  BY SMT, <1>3
<1>6. \A i \in 1..4 : d(i) \in 0..127
  BY SMT, <1>3, <1>4
<1>7. (n < 128 => n \div 128 = 0) /\ (n < 16384 => n \div 16384 = 0)
      /\ (n < 2097152 => n \div 2097152 = 0)
  BY SMT
<1>8. (n < 16384 => n \div 2097152 = 0) /\ (n < 128 => n \div 16384 = 0 /\ n \div 2097152 = 0)
  BY SMT
<1> HIDE DEF d
<1>9. n = d(1) + 128 * d(2) + 16384 * d(3) + 2097152 * d(4)
  <2> DEFINE q == n \div 128  r == n \div 16384  t == n \div 2097152
  <2>1. q \in Int /\ r \in Int /\ t \in Int
    BY SMT, <1>3
  <2>2. d(1) \in Int /\ d(2) \in Int /\ d(3) \in Int
    BY SMT, <1>6
  <2>3. n = 128 * q + d(1) /\ q = 128 * r + d(2) /\ r = 128 * t + d(3) /\ d(4) = t
    BY SMT, <1>4, <1>5
  <2> HIDE DEF q, r, t
  <2> QED BY SMT, <2>1, <2>2, <2>3
<1>10. (n < 128 => d(2) = 0 /\ d(3) = 0 /\ d(4) = 0) /\ (n < 16384 => d(3) = 0 /\ d(4) = 0)
      /\ (n < 2097152 => d(4) = 0)
  BY SMT, <1>4, <1>7, <1>8
<1> QED BY <1>6, <1>9, <1>10 DEF d

\* MQTTPacket_decodeBuf finds the remaining length that MQTTPacket_encode has put there, and
\* where it ends, for every length a packet can have (MQTTPacket.c:29-45, 54-81).
THEOREM LengthRoundTrip ==
  ASSUME NEW n \in Nat, n <= MaxRemLen, NEW b, NEW p \in Nat,
         \A i \in 1..EncodeSize(n) : b[p + i - 1] = MQTTPacket_encode(n)[i]
  PROVE  MQTTPacket_decodeBuf(b, p) = [len |-> EncodeSize(n), value |-> n]
<1> DEFINE d(i) == (n \div Pow128[i]) % 128
           k == EncodeSize(n)
<1>1. /\ \A i \in 1..4 : d(i) \in 0..127
      /\ n = d(1) + 128 * d(2) + 16384 * d(3) + 2097152 * d(4)
      /\ n < 128 => d(2) = 0 /\ d(3) = 0 /\ d(4) = 0
      /\ n < 16384 => d(3) = 0 /\ d(4) = 0
      /\ n < 2097152 => d(4) = 0
  BY FourDigits
<1>2. Pow128[1] = 1 /\ Pow128[2] = 128 /\ Pow128[3] = 16384 /\ Pow128[4] = 2097152
  BY SMT DEF Pow128
<1>3. /\ k \in 1..4
      /\ k < 2 => n < 128
      /\ k < 3 => n < 16384
      /\ k < 4 => n < 2097152
  BY SMT, <1>2 DEF EncodeSize
<1>4. \A i \in 1..k : b[p + i - 1] = d(i) + (IF i < k THEN 128 ELSE 0)
  BY SMT DEF MQTTPacket_encode
<1> HIDE DEF d, k
<1>5. Stops(b, p) = {k}
  <2>1. \A i \in 1..(k - 1) : b[p + i - 1] >= 128
    BY SMT, <1>1, <1>3, <1>4
  <2>2. b[p + k - 1] < 128
    BY SMT, <1>1, <1>3, <1>4
  <2>5. ~(b[p + k - 1] >= 128)
    BY SMT, <1>1, <1>3, <1>4
  <2>3. \A i \in 1..(k - 1) : ~(b[p + i - 1] < 128)
    BY SMT, <1>1, <1>3, <1>4
  <2>4. ASSUME NEW i \in 1..4 PROVE i \in Stops(b, p) <=> i = k
    <3>1. CASE i < k
      BY SMT, <1>3, <2>3, <3>1 DEF Stops
    <3>2. CASE i = k
      BY SMT, <1>3, <2>1, <2>2, <3>2 DEF Stops
    <3>3. CASE i > k
      BY SMT, <1>3, <2>5, <3>3 DEF Stops
    <3> QED BY SMT, <1>3, <3>1, <3>2, <3>3
  <2>6. Stops(b, p) \subseteq 1..4
    BY DEF Stops
  <2> QED BY <1>3, <2>4, <2>6
<1>6. (CHOOSE i \in Stops(b, p) : TRUE) = k
  BY <1>5
<1>7. \A i \in 1..k : Digit(b, p, i) = d(i) * Pow128[i]
  BY SMT, <1>1, <1>3, <1>4 DEF Digit
<1>8. MQTTPacket_decodeBuf(b, p) =
        LET e(i) == IF i <= k THEN Digit(b, p, i) ELSE 0
        IN  [len |-> k, value |-> e(1) + e(2) + e(3) + e(4)]
  BY <1>5, <1>6 DEF MQTTPacket_decodeBuf
<1> DEFINE e(i) == IF i <= k THEN Digit(b, p, i) ELSE 0
<1>9. e(1) = d(1) /\ e(2) = 128 * d(2) /\ e(3) = 16384 * d(3) /\ e(4) = 2097152 * d(4)
  BY SMT, <1>1, <1>2, <1>3, <1>7
<1>10. e(1) + e(2) + e(3) + e(4) = n
  BY SMT, <1>1, <1>9
<1> QED BY <1>8, <1>10 DEF k

\* A buffer of MQTTPacket_len(rem) bytes takes the packet, and one byte at most is asked for in
\* vain (MQTTPacket.c:84-98).
THEOREM ReservesThePacket ==
  ASSUME NEW rem \in Nat, rem <= MaxRemLen
  PROVE  LET size == 1 + EncodeSize(rem) + rem
         IN  size <= MQTTPacket_len(rem) /\ MQTTPacket_len(rem) <= size + 1
BY SMT DEF MQTTPacket_len, EncodeSize, Pow128

\* A 16-bit number is read as it was written (MQTTPacket.c:125-171).
THEOREM IntRoundTrip ==
  ASSUME NEW n \in Nat, n < 65536, NEW b, NEW p \in Nat,
         b[p] = WriteInt(n)[1], b[p + 1] = WriteInt(n)[2]
  PROVE  ReadInt(b, p) = n
BY SMT DEF ReadInt, WriteInt

\* The fields of a header byte do not run into each other (MQTTPacket.h:53-73).
THEOREM HeaderRoundTrip ==
  ASSUME NEW type \in 0..15, NEW dup \in 0..1, NEW qos \in 0..3, NEW retain \in 0..1
  PROVE  LET h == HeaderByte(type, dup, qos, retain)
         IN  TypeOf(h) = type /\ Bits(h, 8, 2) = dup /\ Bits(h, 2, 4) = qos /\ Bits(h, 1, 2) = retain
BY SMT DEF HeaderByte, TypeOf, Bits

\* An identifier is never 0, also where the count wraps, and never the one before it
\* (MQTTClient.c:46-48).
THEOREM NextPacketIdStays ==
  ASSUME NEW id \in Nat, 1 <= id, id <= MAX_PACKET_ID
  PROVE  LET next == getNextPacketId(id)
         IN  next \in Nat /\ 1 <= next /\ next <= MAX_PACKET_ID /\ next # id
BY SMT DEF getNextPacketId, MAX_PACKET_ID

-----------------------------------------------------------------------------
(* Induction, and sequences in a row *)

\* Induction over the natural numbers, for a set.
LEMMA Induction ==
  ASSUME NEW S, 0 \in S, \A n \in Nat : n \in S => n + 1 \in S
  PROVE  \A n \in Nat : n \in S
<1> SUFFICES ASSUME Nat \ S # {} PROVE FALSE
  OBVIOUS
<1>1. PICK n \in Nat \ S : \A m \in Nat \ S : ~ (<<m, n>> \in OpToRel(<, Nat))
  BY NatLessThanWellFounded, WFMin
<1>2. n # 0 /\ n \in Nat
  OBVIOUS
<1>3. n - 1 \in Nat /\ (n - 1) + 1 = n /\ n - 1 < n
  BY <1>2
<1>4. n - 1 \notin S
  BY <1>3
<1>5. <<n - 1, n>> \notin OpToRel(<, Nat)
  BY <1>1, <1>3, <1>4
<1>6. <<n - 1, n>> \notin {ss \in Nat \X Nat : ss[1] < ss[2]}
  BY <1>5 DEF OpToRel
<1> QED
  BY <1>2, <1>3, <1>6

\* The parts of FlattenSeq(seqs) are where the lengths before them say.
Layout(seqs, s, at) ==
  /\ at \in [0..Len(seqs) -> Nat] /\ at[0] = 0
  /\ \A k \in 1..Len(seqs) : /\ at[k] = at[k - 1] + Len(seqs[k])
                             /\ \A i \in 1..Len(seqs[k]) : s[at[k - 1] + i] = seqs[k][i]

\* Sequences in a row: a sequence of the same elements, and each part has its place in it.
LEMMA Flattened ==
  ASSUME NEW B, NEW seqs \in Seq(Seq(B))
  PROVE  /\ FlattenSeq(seqs) \in Seq(B)
         /\ \E at \in [0..Len(seqs) -> Nat] :
              Layout(seqs, FlattenSeq(seqs), at) /\ Len(FlattenSeq(seqs)) = at[Len(seqs)]
<1> DEFINE n == Len(seqs)
<1>0. n \in Nat /\ \A i \in 1..n : seqs[i] \in Seq(B) /\ Len(seqs[i]) \in Nat
  BY LenProperties, ElementOfSeq
<1>1. CASE n = 0
  <2>1. FlattenSeq(seqs) = << >> /\ seqs = << >>
    BY <1>1 DEF FlattenSeq
  <2>2. Layout(seqs, FlattenSeq(seqs), [k \in {0} |-> 0]) /\ 0..Len(seqs) = {0}
    BY <1>1, <2>1 DEF Layout
  <2>3. [k \in {0} |-> 0] \in [0..Len(seqs) -> Nat]
    BY <2>2 DEF Layout
  <2>4. Len(FlattenSeq(seqs)) = [k \in {0} |-> 0][Len(seqs)] /\ FlattenSeq(seqs) \in Seq(B)
    BY <1>1, <2>1
  <2> QED
    BY <2>2, <2>3, <2>4
<1>2. CASE n > 0
  <2> DEFINE IsFlat(f) == f = [i \in 1..n |-> IF i = 1 THEN seqs[i] ELSE f[i - 1] \o seqs[i]]
             flat == CHOOSE f : IsFlat(f)
             Upto(f, m) == \A i \in 1..m : f[i] = (IF i = 1 THEN seqs[i] ELSE f[i - 1] \o seqs[i])
             Buildable(m) == m <= n => \E f \in [1..m -> Seq(B)] : Upto(f, m)
             Some == {m \in Nat : Buildable(m)}
  <2>1. FlattenSeq(seqs) = flat[n]
    BY <1>0, <1>2 DEF FlattenSeq
  <2>2. Buildable(0)
    <3>1. Upto([i \in 1..0 |-> << >>], 0) /\ [i \in 1..0 |-> << >>] \in [1..0 -> Seq(B)]
      OBVIOUS
    <3> QED
      BY <3>1
  <2>3. ASSUME NEW m \in Nat, Buildable(m), m + 1 <= n
        PROVE  \E f \in [1..(m + 1) -> Seq(B)] : Upto(f, m + 1)
    <3>0. m <= n
      BY <1>0, <2>3
    <3>1. PICK f \in [1..m -> Seq(B)] : Upto(f, m)
      BY <3>0, <2>3
    <3> DEFINE new == IF m = 0 THEN seqs[1] ELSE f[m] \o seqs[m + 1]
               g == [i \in 1..(m + 1) |-> IF i = m + 1 THEN new ELSE f[i]]
    <3>2. new \in Seq(B)
      <4>1. m # 0 => m \in 1..m
        OBVIOUS
      <4> QED
        BY <1>0, <1>2, <2>3, <4>1, ConcatProperties
    <3>3. g \in [1..(m + 1) -> Seq(B)]
      BY <3>2
    <3>4. ASSUME NEW i \in 1..(m + 1)
          PROVE  g[i] = (IF i = 1 THEN seqs[i] ELSE g[i - 1] \o seqs[i])
      <4>1. CASE i = m + 1
        <5>1. m # 0 => g[i - 1] = f[m]
          BY <4>1
        <5> QED
          BY <4>1, <5>1
      <4>2. CASE i # m + 1
        <5>1. i \in 1..m /\ g[i] = f[i] /\ (i # 1 => i - 1 \in 1..(m + 1) /\ g[i - 1] = f[i - 1])
          BY <4>2
        <5>2. f[i] = (IF i = 1 THEN seqs[i] ELSE f[i - 1] \o seqs[i])
          BY <3>1, <5>1
        <5> HIDE DEF g
        <5> QED
          BY <5>1, <5>2
      <4> QED
        BY <4>1, <4>2
    <3> HIDE DEF g
    <3> QED
      BY <3>3, <3>4
  <2>4. \E f \in [1..n -> Seq(B)] : Upto(f, n)
    <3> HIDE DEF Buildable
    <3>1. \A m \in Nat : m \in Some => m + 1 \in Some
      <4>1. ASSUME NEW m \in Nat, Buildable(m) PROVE Buildable(m + 1)
        <5> SUFFICES ASSUME m + 1 <= n PROVE \E f \in [1..(m + 1) -> Seq(B)] : Upto(f, m + 1)
          BY DEF Buildable
        <5> QED BY <4>1, <2>3
      <4> QED BY <4>1
    <3>2. \A m \in Nat : m \in Some
      <4>1. 0 \in Some
        BY <2>2
      <4> HIDE DEF Some
      <4> QED BY <4>1, <3>1, Induction
    <3>3. Buildable(n) /\ n <= n
      BY <1>0, <3>2
    <3> QED
      BY <3>3 DEF Buildable
  <2>5. PICK f \in [1..n -> Seq(B)] : Upto(f, n)
    BY <2>4
  <2>6. IsFlat(f)
    BY <2>5
  <2>7. IsFlat(flat)
    <3> HIDE DEF IsFlat
    <3> QED BY <2>6
  <2>8. \A i \in 1..n : flat[i] = IF i = 1 THEN seqs[i] ELSE flat[i - 1] \o seqs[i]
    <3> HIDE DEF flat
    <3> QED BY <2>7
  <2> HIDE DEF flat
  <2> DEFINE Typed == {m \in Nat : m \in 1..n => flat[m] \in Seq(B)}
  <2>9. \A m \in 1..n : flat[m] \in Seq(B)
    <3>1. 0 \in Typed
      OBVIOUS
    <3>2. ASSUME NEW m \in Nat, m \in Typed PROVE m + 1 \in Typed
      <4> SUFFICES ASSUME m + 1 \in 1..n PROVE flat[m + 1] \in Seq(B)
        OBVIOUS
      <4>1. seqs[m + 1] \in Seq(B) /\ (m = 0 \/ m \in 1..n)
        BY <1>0
      <4>2. m + 1 # 1 => flat[m] \in Seq(B)
        BY <3>2, <4>1
      <4>3. flat[m + 1] = IF m + 1 = 1 THEN seqs[m + 1] ELSE flat[m] \o seqs[m + 1]
        BY <2>8
      <4>4. m + 1 # 1 => flat[m] \o seqs[m + 1] \in Seq(B)
        BY <4>1, <4>2, ConcatProperties
      <4> QED
        BY <4>1, <4>3, <4>4
    <3> HIDE DEF Typed
    <3>3. \A m \in Nat : m \in Typed
      BY <3>1, <3>2, Induction
    <3> QED
      BY <3>3 DEF Typed
  <2> DEFINE at == [k \in 0..n |-> IF k = 0 THEN 0 ELSE Len(flat[k])]
  <2>10. at \in [0..n -> Nat] /\ at[0] = 0
    <3>1. \A k \in 1..n : Len(flat[k]) \in Nat
      BY <2>9, LenProperties
    <3> QED
      BY <1>0, <3>1
  <2>11. \A k \in 1..n : at[k] = at[k - 1] + Len(seqs[k])
    <3> SUFFICES ASSUME NEW k \in 1..n PROVE at[k] = at[k - 1] + Len(seqs[k])
      OBVIOUS
    <3>1. CASE k = 1
      BY <1>0, <2>8, <3>1
    <3>2. CASE k # 1
      <4>0. k - 1 \in 1..n
        BY <1>0, <3>2
      <4>1. flat[k] = flat[k - 1] \o seqs[k]
        BY <2>8, <3>2
      <4>2. Len(flat[k]) = Len(flat[k - 1]) + Len(seqs[k])
        BY <1>0, <2>9, <4>0, <4>1, ConcatProperties
      <4>3. at[k] = Len(flat[k]) /\ at[k - 1] = Len(flat[k - 1])
        BY <1>0, <3>2, <4>0
      <4> QED
        BY <4>2, <4>3
    <3> QED
      BY <3>1, <3>2
  <2> DEFINE Placed(m) == \A k \in 1..m : /\ at[k] <= at[m]
                                         /\ \A i \in 1..Len(seqs[k]) : flat[m][at[k - 1] + i] = seqs[k][i]
             Good == {m \in Nat : m \in 1..n => Placed(m)}
  <2> HIDE DEF at
  <2>12. Placed(n)
    <3>1. ASSUME NEW m \in Nat, m \in 1..n => Placed(m), m + 1 \in 1..n, NEW k \in 1..(m + 1)
          PROVE  /\ at[k] <= at[m + 1]
                 /\ \A i \in 1..Len(seqs[k]) : flat[m + 1][at[k - 1] + i] = seqs[k][i]
      <4>0. seqs[m + 1] \in Seq(B) /\ Len(seqs[m + 1]) \in Nat /\ (m = 0 \/ m \in 1..n)
            /\ m \in 0..n /\ k \in 1..n /\ k - 1 \in 0..n /\ k \in 0..n
        BY <1>0, <3>1
      <4>1. CASE m = 0
        <5>1. k = 1 /\ at[k - 1] = 0
          BY <4>1, <2>10
        <5>2. flat[m + 1] = seqs[k]
          BY <1>2, <3>1, <2>8, <4>1, <5>1
        <5>5. k = m + 1
          BY <4>1
        <5>3. at[k] <= at[m + 1]
          BY <4>0, <5>5, <2>10
        <5>4. \A i \in 1..Len(seqs[k]) : at[k - 1] + i = i
          BY <5>1, <4>0, <1>0
        <5> QED
          BY <5>2, <5>3, <5>4
      <4>2. CASE m # 0
        <5>0. m \in 1..n
          BY <4>0, <4>2
        <5>1. flat[m + 1] = flat[m] \o seqs[m + 1] /\ flat[m] \in Seq(B)
          <6>1. m + 1 # 1 /\ (m + 1) - 1 = m
            BY <4>2
          <6> QED
            BY <3>1, <5>0, <6>1, <2>8, <2>9
        <5>2. \A j \in 1..(Len(flat[m]) + Len(seqs[m + 1])) :
                 flat[m + 1][j] = IF j <= Len(flat[m]) THEN flat[m][j]
                                  ELSE seqs[m + 1][j - Len(flat[m])]
          BY <5>1, <4>0, ConcatProperties
        <5>3. at[m] = Len(flat[m]) /\ at[m] \in Nat /\ at[m + 1] = at[m] + Len(seqs[m + 1])
          <6>1. (m + 1) - 1 = m
            OBVIOUS
          <6> QED
            BY <3>1, <6>1, <5>0, <4>0, <4>2, <2>10, <2>11 DEF at
        <5> DEFINE l == Len(seqs[m + 1])
        <5>9. l \in Nat /\ at[m] \in Nat /\ at[m + 1] = at[m] + l
          BY <5>3, <4>0
        <5>10. \A j \in 1..(at[m] + l) :
                 flat[m + 1][j] = IF j <= at[m] THEN flat[m][j] ELSE seqs[m + 1][j - at[m]]
          BY <5>2, <5>3
        <5>4. Placed(m)
          BY <3>1, <5>0
        <5>5. at[k] \in Nat /\ at[k - 1] \in Nat /\ at[k] = at[k - 1] + Len(seqs[k])
              /\ Len(seqs[k]) \in Nat
          BY <4>0, <2>10, <2>11, <1>0
        <5>6. CASE k = m + 1
          <6>1. at[k - 1] = at[m] /\ k - 1 = m
            BY <5>6
          <6>2. ASSUME NEW i \in 1..Len(seqs[k])
                PROVE  flat[m + 1][at[k - 1] + i] = seqs[k][i]
            <7>0. i \in Nat /\ i >= 1 /\ i <= l
              BY <5>5, <5>6
            <7> HIDE DEF l
            <7>1. at[m] + i \in 1..(at[m] + l) /\ ~(at[m] + i <= at[m]) /\ (at[m] + i) - at[m] = i
              BY <7>0, <5>9
            <7> QED
              BY <7>1, <6>1, <5>10, <5>6
          <6> QED
            BY <5>5, <5>6, <6>2
        <5>7. CASE k \in 1..m
          <6>1. at[k] <= at[m] /\ \A i \in 1..Len(seqs[k]) : flat[m][at[k - 1] + i] = seqs[k][i]
            BY <5>4, <5>7
          <6>2. ASSUME NEW i \in 1..Len(seqs[k])
                PROVE  flat[m + 1][at[k - 1] + i] = seqs[k][i]
            <7> HIDE DEF l
            <7>1. at[k - 1] + i \in 1..(at[m] + l) /\ at[k - 1] + i <= at[m]
              <8>1. i \in Nat /\ i >= 1 /\ i <= Len(seqs[k])
                BY <5>5
              <8>2. at[k - 1] + i <= at[k]
                BY <8>1, <5>5
              <8>3. at[k - 1] + i <= at[m] /\ at[k - 1] + i >= 1
                BY <8>1, <8>2, <5>5, <5>9, <6>1
              <8> QED BY <8>1, <8>3, <5>5, <5>9
            <7>2. flat[m + 1][at[k - 1] + i] = flat[m][at[k - 1] + i]
              BY <7>1, <5>10
            <7> QED
              BY <7>2, <6>1
          <6>3. at[k] <= at[m + 1]
            <7> HIDE DEF l
            <7>1. at[m] <= at[m + 1] /\ at[m + 1] \in Nat
              BY <5>9
            <7> QED BY <7>1, <5>9, <5>5, <6>1
          <6> QED
            BY <6>2, <6>3
        <5>8. k = m + 1 \/ k \in 1..m
          OBVIOUS
        <5> QED
          BY <5>6, <5>7, <5>8
      <4> QED
        BY <4>1, <4>2
    <3>2. \A m \in Nat : m \in Good
      <4> HIDE DEF Placed
      <4>1. \A m \in Nat : m \in Good => m + 1 \in Good
        <5>1. ASSUME NEW m \in Nat, m \in 1..n => Placed(m), m + 1 \in 1..n PROVE Placed(m + 1)
          BY <3>1, <5>1 DEF Placed
        <5>2. ASSUME NEW m \in Nat, m \in Good PROVE m + 1 \in Good
          <6>1. m \in 1..n => Placed(m)
            BY <5>2
          <6>2. m + 1 \in 1..n => Placed(m + 1)
            BY <5>1, <6>1
          <6>3. m + 1 \in Nat
            OBVIOUS
          <6> QED BY <6>2, <6>3
        <5> HIDE DEF Good
        <5> QED BY <5>2
      <4>2. 0 \in Good
        OBVIOUS
      <4> HIDE DEF Good
      <4> QED
        BY <4>1, <4>2, Induction
    <3>3. n \in 1..n
      BY <1>0, <1>2
    <3> HIDE DEF Placed
    <3> QED
      BY <3>2, <3>3
  <2>13. n \in 1..n
    BY <1>0, <1>2
  <2>14. Layout(seqs, flat[n], at)
    <3> HIDE DEF at
    <3> QED BY <2>10, <2>11, <2>12 DEF Layout
  <2>15. at[n] = Len(flat[n])
    BY <2>13, <1>2 DEF at
  <2> HIDE DEF at
  <2> QED
    BY <2>1, <2>9, <2>10, <2>13, <2>14, <2>15
<1> QED
  BY <1>0, <1>1, <1>2

\* A remaining length is written in at most four bytes.
LEMMA EncodedBytes ==
  ASSUME NEW n \in Nat, n <= MaxRemLen
  PROVE  /\ EncodeSize(n) \in 1..4
         /\ MQTTPacket_encode(n) \in Seq(Byte) /\ Len(MQTTPacket_encode(n)) = EncodeSize(n)
         /\ \A i \in 1..EncodeSize(n) : MQTTPacket_encode(n)[i] \in Byte
<1>1. EncodeSize(n) \in 1..4
  BY DEF EncodeSize
<1>2. ASSUME NEW i \in 1..EncodeSize(n)
      PROVE  ((n \div Pow128[i]) % 128) + (IF i < EncodeSize(n) THEN 128 ELSE 0) \in Byte
  <2>1. i \in 1..4
    BY <1>1
  <2>2. (n \div Pow128[i]) % 128 \in 0..127
    BY <2>1, FourDigits
  <2> DEFINE d == (n \div Pow128[i]) % 128
  <2> HIDE DEF d
  <2>3. d \in 0..127
    BY <2>2 DEF d
  <2>4. d + (IF i < EncodeSize(n) THEN 128 ELSE 0) \in Byte
    BY <2>3 DEF Byte
  <2> QED
    BY <2>4 DEF d
<1>3. \A i \in 1..EncodeSize(n) : MQTTPacket_encode(n)[i] \in Byte
  BY <1>2 DEF MQTTPacket_encode
<1>4. MQTTPacket_encode(n) \in [1..EncodeSize(n) -> Byte]
  BY <1>2 DEF MQTTPacket_encode
<1>5. MQTTPacket_encode(n) \in Seq(Byte) /\ Len(MQTTPacket_encode(n)) = EncodeSize(n)
  BY <1>1, <1>4
<1> QED
  BY <1>1, <1>3, <1>5

-----------------------------------------------------------------------------
(* What is where in a buffer *)

Holds(b, p, s) == \A i \in 1..Len(s) : b[p + i - 1] = s[i]

\* Bytes behind bytes are bytes.
LEMMA Joined ==
  ASSUME NEW s \in Seq(Byte), NEW t \in Seq(Byte), NEW k \in Nat, NEW l \in Nat,
         Len(s) = k, Len(t) = l
  PROVE  s \o t \in Seq(Byte) /\ Len(s \o t) = k + l /\ k + l \in Nat
<1>1. s \o t \in Seq(Byte) /\ Len(s \o t) = Len(s) + Len(t)
  BY ConcatProperties
<1> QED
  BY <1>1

\* What holds a concatenation holds its parts, one behind the other.
LEMMA HoldsBoth ==
  ASSUME NEW b, NEW p \in Nat, NEW s \in Seq(Byte), NEW t \in Seq(Byte), Holds(b, p, s \o t)
  PROVE  Holds(b, p, s) /\ Holds(b, p + Len(s), t) /\ p + Len(s) \in Nat
<1>1. Len(s) \in Nat /\ Len(t) \in Nat
  BY LenProperties
<1>2. /\ Len(s \o t) = Len(s) + Len(t)
      /\ \A i \in 1..(Len(s) + Len(t)) : (s \o t)[i] = IF i <= Len(s) THEN s[i] ELSE t[i - Len(s)]
  BY ConcatProperties
<1>3. \A i \in 1..(Len(s) + Len(t)) :
        b[p + i - 1] = IF i <= Len(s) THEN s[i] ELSE t[i - Len(s)]
  BY <1>2 DEF Holds
<1>4. ASSUME NEW i \in 1..Len(s) PROVE b[p + i - 1] = s[i]
  <2>1. i \in 1..(Len(s) + Len(t)) /\ i <= Len(s)
    BY <1>1
  <2> QED
    BY <1>3, <2>1
<1>5. ASSUME NEW i \in 1..Len(t) PROVE b[(p + Len(s)) + i - 1] = t[i]
  <2>1. /\ Len(s) + i \in 1..(Len(s) + Len(t)) /\ ~(Len(s) + i <= Len(s))
        /\ (Len(s) + i) - Len(s) = i /\ p + (Len(s) + i) - 1 = (p + Len(s)) + i - 1
    BY <1>1
  <2> QED
    BY <1>3, <2>1
<1> QED
  BY <1>1, <1>4, <1>5 DEF Holds

\* What is cut out of a buffer is what it holds there.
LEMMA HoldsCut ==
  ASSUME NEW b, NEW p \in Nat, NEW s \in Seq(Byte), Holds(b, p, s), NEW q \in Int,
         q = p + Len(s) - 1
  PROVE  SubSeq(b, p, q) = s
<1>1. Len(s) \in Nat
  BY LenProperties
<1>2. ASSUME NEW i \in p..q PROVE b[i] \in Byte
  <2>1. i - p + 1 \in 1..Len(s) /\ p + (i - p + 1) - 1 = i
    BY <1>1
  <2>2. b[p + (i - p + 1) - 1] = s[i - p + 1]
    BY <2>1 DEF Holds
  <2>3. s[i - p + 1] \in Byte
    BY <2>1, ElementOfSeq
  <2> QED
    BY <2>1, <2>2, <2>3
<1>3. /\ SubSeq(b, p, q) \in Seq(Byte) /\ Len(SubSeq(b, p, q)) = IF p <= q THEN q - p + 1 ELSE 0
      /\ \A i \in 1..(q - p + 1) : SubSeq(b, p, q)[i] = b[p + i - 1]
  BY <1>2, SubSeqProperties
<1>4. q - p + 1 = Len(s) /\ Len(SubSeq(b, p, q)) = Len(s)
  BY <1>1, <1>3
<1>5. \A i \in 1..Len(s) : SubSeq(b, p, q)[i] = s[i]
  BY <1>3, <1>4 DEF Holds
<1> QED
  BY <1>3, <1>4, <1>5, SeqEqual

\* A 16-bit number takes two bytes ...
LEMMA IntWritten ==
  ASSUME NEW n \in Number
  PROVE  WriteInt(n) \in Seq(Byte) /\ Len(WriteInt(n)) = 2
<1>0. n \in Nat
  BY SMT DEF Number
<1>1. (n \div 256) % 256 \in 0..255 /\ n % 256 \in 0..255
  BY SMT, <1>0
<1> QED
  BY <1>1 DEF WriteInt, Byte

\* ... and is read where it was written.
LEMMA IntRead ==
  ASSUME NEW n \in Number, NEW b, NEW p \in Nat, Holds(b, p, WriteInt(n))
  PROVE  ReadInt(b, p) = n
<1>1. Len(WriteInt(n)) = 2 /\ 1 \in 1..2 /\ 2 \in 1..2
  BY IntWritten
<1>2. p + 1 - 1 = p /\ p + 2 - 1 = p + 1
  OBVIOUS
<1>3. b[p] = WriteInt(n)[1] /\ b[p + 1] = WriteInt(n)[2]
  BY <1>1, <1>2 DEF Holds
<1>4. n \in Nat /\ n < 65536
  BY DEF Number
<1> QED
  BY <1>3, <1>4, IntRoundTrip

\* An MQTTString is sized, by its cstring first, as it is written, by its lenstring first.
LEMMA StringWritten ==
  ASSUME NEW m \in MQTTString
  PROVE  /\ Said(m) \in Seq(Byte) /\ Len(Said(m)) \in Number /\ MQTTstrlen(m) = Len(Said(m))
         /\ WriteMQTTString(m) = WriteInt(Len(Said(m))) \o Said(m)
         /\ WriteMQTTString(m) \in Seq(Byte) /\ Len(WriteMQTTString(m)) = 2 + Len(Said(m))
         /\ ~IsSet(m) => Said(m) = << >>
<1>1. /\ NULL \in {m.cstring, m.lenstring}
      /\ m.cstring \in ByteString \cup {NULL} /\ m.lenstring \in ByteString \cup {NULL}
  BY DEF MQTTString
<1>2. << >> \in Seq(Byte) /\ Len(<< >>) = 0 /\ 0 \in Number /\ NULL # << >>
  <2>1. << >> \in Seq(Byte) /\ Len(<< >>) = 0
    BY EmptySeq
  <2>2. 0 \in Number
    BY SMT DEF Number
  <2> QED
    BY <2>1, <2>2, NullAssumption
<1>3. Said(m) \in Seq(Byte) /\ Len(Said(m)) \in Number /\ MQTTstrlen(m) = Len(Said(m))
  BY <1>1, <1>2 DEF Said, MQTTstrlen, ByteString
<1>4. WriteInt(Len(Said(m))) \in Seq(Byte) /\ Len(WriteInt(Len(Said(m)))) = 2
  BY <1>3, IntWritten
<1>5. WriteMQTTString(m) = WriteInt(Len(Said(m))) \o Said(m)
  <2>1. CASE m.lenstring # NULL /\ m.lenstring # << >>
    BY <1>1, <2>1 DEF WriteMQTTString, Said
  <2>2. CASE m.lenstring # NULL /\ m.lenstring = << >>
    <3>1. m.cstring = NULL /\ Said(m) = << >>
      BY <1>1, <2>2 DEF Said
    <3>2. WriteMQTTString(m) = WriteInt(0) /\ WriteInt(0) \o << >> = WriteInt(0)
      BY <1>2, <2>2, <3>1, <1>4, ConcatEmptySeq DEF WriteMQTTString
    <3> QED
      BY <1>2, <3>1, <3>2
  <2>3. CASE m.lenstring = NULL /\ m.cstring # NULL
    BY <2>3 DEF WriteMQTTString, Said
  <2>4. CASE m.lenstring = NULL /\ m.cstring = NULL
    <3>1. Said(m) = << >>
      BY <2>4 DEF Said
    <3>2. WriteMQTTString(m) = WriteInt(0) /\ WriteInt(0) \o << >> = WriteInt(0)
      BY <1>2, <2>4, <3>1, <1>4, ConcatEmptySeq DEF WriteMQTTString
    <3> QED
      BY <1>2, <3>1, <3>2
  <2> QED
    BY <2>1, <2>2, <2>3, <2>4
<1>6. WriteMQTTString(m) \in Seq(Byte) /\ Len(WriteMQTTString(m)) = 2 + Len(Said(m))
  <2> DEFINE i == WriteInt(Len(Said(m)))
             s == Said(m)
  <2>1. i \in Seq(Byte) /\ s \in Seq(Byte) /\ Len(i) = 2 /\ WriteMQTTString(m) = i \o s
    BY <1>3, <1>4, <1>5
  <2> HIDE DEF i, s
  <2>2. i \o s \in Seq(Byte) /\ Len(i \o s) = Len(i) + Len(s)
    BY <2>1, ConcatProperties
  <2> QED
    BY <2>1, <2>2 DEF s
<1> QED
  BY <1>3, <1>5, <1>6 DEF IsSet, Said

\* readMQTTLenString finds the string that writeMQTTString has put there, if it ends before end.
LEMMA StringRead ==
  ASSUME NEW m \in MQTTString, NEW b, NEW p \in Nat, NEW end \in Nat,
         Holds(b, p, WriteMQTTString(m)), p + 2 + Len(Said(m)) <= end
  PROVE  ReadMQTTLenString(b, p, end) =
           [rc |-> 1, next |-> p + 2 + Len(Said(m)), string |-> LenString(Said(m))]
<1> DEFINE s == Said(m)
<1>1. /\ s \in Seq(Byte) /\ Len(s) \in Number /\ Len(s) \in Nat
      /\ WriteInt(Len(s)) \in Seq(Byte) /\ Len(WriteInt(Len(s))) = 2
      /\ WriteMQTTString(m) = WriteInt(Len(s)) \o s
  <2>1. s \in Seq(Byte) /\ Len(s) \in Number /\ WriteMQTTString(m) = WriteInt(Len(s)) \o s
    BY StringWritten
  <2> HIDE DEF s
  <2>2. Len(s) \in Nat
    BY <2>1, LenProperties
  <2> QED
    BY <2>1, <2>2, IntWritten
<1> HIDE DEF s
<1>2. Holds(b, p, WriteInt(Len(s))) /\ Holds(b, p + 2, s)
  BY <1>1, HoldsBoth
<1>3. ReadInt(b, p) = Len(s)
  BY <1>1, <1>2, IntRead
<1>4. SubSeq(b, p + 2, p + 1 + Len(s)) = s
  <2>1. p + 2 \in Nat /\ p + 1 + Len(s) \in Int /\ p + 1 + Len(s) = (p + 2) + Len(s) - 1
    BY <1>1
  <2> QED
    BY <1>1, <1>2, <2>1, HoldsCut
<1>5. p + 2 + Len(s) <= end
  BY DEF s
<1>6. end - p > 1
  <2> DEFINE l == Len(s)
  <2>1. l \in Nat /\ p + 2 + l <= end
    BY <1>1, <1>5
  <2> HIDE DEF l
  <2> QED
    BY <2>1
<1>7. ReadMQTTLenString(b, p, end) =
        [rc |-> 1, next |-> p + 2 + Len(s), string |-> LenString(s)]
  <2>1. end - p > 1 /\ p + 2 + ReadInt(b, p) <= end
    BY <1>3, <1>5, <1>6
  <2>2. LenStrings(b, end)[p] =
          [rc |-> 1, next |-> p + 2 + ReadInt(b, p),
           string |-> LenString(SubSeq(b, p + 2, p + 1 + ReadInt(b, p)))]
    BY <2>1 DEF LenStrings
  <2> QED
    BY <1>3, <1>4, <2>2 DEF ReadMQTTLenString
<1> QED
  BY <1>7 DEF s

-----------------------------------------------------------------------------
(* A packet *)

\* A packet is its header byte, its remaining length, and as many bytes as that says; a reader
\* finds the end of the length, and of the packet.
LEMMA PacketLayout ==
  ASSUME NEW h \in Byte, NEW body \in Seq(Byte), Len(body) <= MaxRemLen
  PROVE  LET b == Packet(h, Len(body), body).bytes
             n == EncodeSize(Len(body))
         IN  /\ b \in Seq(Byte) /\ Len(b) = 1 + n + Len(body) /\ n \in 1..4 /\ Len(body) \in Nat
             /\ Packet(h, Len(body), body).rc = Len(b) /\ b[1] = h
             /\ \A i \in 1..n : b[1 + i] = MQTTPacket_encode(Len(body))[i]
             /\ Remaining(b) = [len |-> n, value |-> Len(body)]
             /\ Start(b) = 2 + n /\ Start(b) \in Nat /\ End(b) = Start(b) + Len(body)
             /\ End(b) = Len(b) + 1 /\ Holds(b, Start(b), body)
<1> DEFINE rem == Len(body)
           e == MQTTPacket_encode(rem)
           n == EncodeSize(rem)
           b == Packet(h, rem, body).bytes
<1>1. rem \in Nat /\ <<h>> \in Seq(Byte) /\ Len(<<h>>) = 1 /\ <<h>>[1] = h
  BY LenProperties
<1>2. n \in 1..4 /\ e \in Seq(Byte) /\ Len(e) = n
  BY <1>1, EncodedBytes
<1>3. b = <<h>> \o e \o body /\ Packet(h, rem, body).rc = Len(b)
  BY DEF Packet
<1> HIDE DEF rem, e, n, b
<1>4. <<h>> \o e \in Seq(Byte) /\ Len(<<h>> \o e) = 1 + n
  BY <1>1, <1>2, ConcatProperties
<1>5. body \in Seq(Byte) /\ Len(body) = rem
  BY DEF rem
<1>6. b \in Seq(Byte) /\ Len(b) = 1 + n + rem
  <2> DEFINE f == <<h>> \o e
  <2>1. f \in Seq(Byte) /\ Len(f) = 1 + n /\ b = f \o body
    BY <1>3, <1>4
  <2> HIDE DEF f
  <2>2. f \o body \in Seq(Byte) /\ Len(f \o body) = Len(f) + Len(body)
    BY <1>5, <2>1, ConcatProperties
  <2> QED
    BY <1>5, <2>1, <2>2
<1>7. Holds(b, 1, b)
  BY DEF Holds
<1>8. Holds(b, 1, <<h>> \o e) /\ Holds(b, 1 + (1 + n), body)
  BY <1>3, <1>4, <1>7, HoldsBoth
<1>9. Holds(b, 1, <<h>>) /\ Holds(b, 1 + 1, e)
  BY <1>1, <1>2, <1>8, HoldsBoth
<1>10. b[1] = h
  <2>1. b[1 + 1 - 1] = <<h>>[1]
    BY <1>1, <1>9 DEF Holds
  <2> QED
    BY <1>1, <2>1
<1>11. \A i \in 1..n : b[1 + i] = e[i] /\ b[2 + i - 1] = e[i]
  <2> SUFFICES ASSUME NEW i \in 1..n PROVE b[1 + i] = e[i] /\ b[2 + i - 1] = e[i]
    OBVIOUS
  <2>1. b[(1 + 1) + i - 1] = e[i]
    BY <1>2, <1>9 DEF Holds
  <2>2. (1 + 1) + i - 1 = 1 + i /\ (1 + 1) + i - 1 = 2 + i - 1
    BY <1>2
  <2> QED
    BY <2>1, <2>2
<1>12. Remaining(b) = [len |-> n, value |-> rem]
  <2>1. rem <= MaxRemLen
    BY DEF rem
  <2> QED
    BY <1>1, <1>11, <2>1, LengthRoundTrip DEF Remaining, n, e
<1>13. Start(b) = 2 + n /\ Start(b) \in Nat /\ End(b) = Start(b) + rem
  BY <1>2, <1>12 DEF Start, End
<1>14. End(b) = Len(b) + 1 /\ 1 + (1 + n) = Start(b)
  BY <1>1, <1>2, <1>6, <1>13
<1> QED
  BY <1>1, <1>2, <1>3, <1>6, <1>8, <1>10, <1>11, <1>12, <1>13, <1>14 DEF rem, n, e, b

\* A serialiser that does not refuse has written the packet.
LEMMA Written ==
  ASSUME NEW n, NEW size, NEW h, NEW rem, NEW body,
         PacketWithin(n, size, h, rem, body).rc # BUFFER_TOO_SHORT
  PROVE  PacketWithin(n, size, h, rem, body) = Packet(h, rem, body) /\ ~(size > n)
BY DEF PacketWithin, TooShort

\* A header byte is a byte.
LEMMA HeaderIsByte ==
  ASSUME NEW type \in 0..15, NEW dup \in 0..1, NEW qos \in 0..3, NEW retain \in 0..1
  PROVE  HeaderByte(type, dup, qos, retain) \in Byte
BY DEF HeaderByte, Byte

-----------------------------------------------------------------------------
(* The packets of a fixed form, and PUBLISH *)

\* The numbers of the packet types, which differ.
LEMMA TypeNumbers ==
  /\ PacketType.CONNECT = 1 /\ PacketType.CONNACK = 2 /\ PacketType.PUBLISH = 3
  /\ PacketType.PUBACK = 4 /\ PacketType.PUBREC = 5 /\ PacketType.PUBREL = 6
  /\ PacketType.PUBCOMP = 7 /\ PacketType.SUBSCRIBE = 8 /\ PacketType.SUBACK = 9
  /\ PacketType.UNSUBSCRIBE = 10 /\ PacketType.UNSUBACK = 11 /\ PacketType.PINGREQ = 12
  /\ PacketType.PINGRESP = 13 /\ PacketType.DISCONNECT = 14
  /\ Acks = {4, 5, 6, 7} /\ Empty = {12, 13, 14}
BY DEF PacketType, Acks, Empty

\* b is the packet with this header byte and these bytes behind its remaining length.
Carries(b, h, body) ==
  /\ b \in Seq(Byte) /\ b[1] = h
  /\ Remaining(b).value = Len(body) /\ Remaining(b).len \in 1..4
  /\ Start(b) \in Nat /\ End(b) = Start(b) + Len(body) /\ End(b) = Len(b) + 1
  /\ Holds(b, Start(b), body)

\* A serialiser that does not refuse has written the packet.
LEMMA WrittenCarries ==
  ASSUME NEW n, NEW size, NEW h \in Byte, NEW body \in Seq(Byte), Len(body) <= MaxRemLen,
         PacketWithin(n, size, h, Len(body), body).rc # BUFFER_TOO_SHORT
  PROVE  Carries(PacketWithin(n, size, h, Len(body), body).bytes, h, body)
<1> DEFINE b == Packet(h, Len(body), body).bytes
           k == EncodeSize(Len(body))
<1>1. PacketWithin(n, size, h, Len(body), body).bytes = b
  BY Written
<1>2. /\ b \in Seq(Byte) /\ k \in 1..4 /\ b[1] = h
      /\ Remaining(b) = [len |-> k, value |-> Len(body)]
      /\ Start(b) \in Nat /\ End(b) = Start(b) + Len(body)
      /\ End(b) = Len(b) + 1 /\ Holds(b, Start(b), body)
  BY PacketLayout
<1> HIDE DEF b, k
<1>3. Remaining(b).len = k /\ Remaining(b).value = Len(body)
  BY <1>2
<1>4. Carries(b, h, body)
  BY <1>2, <1>3 DEF Carries
<1> QED
  BY <1>1, <1>4

\* The fields of its header byte.
LEMMA HeaderRead ==
  ASSUME NEW b, NEW type \in 0..15, NEW dup \in 0..1, NEW qos \in 0..3, NEW retain \in 0..1,
         NEW body, Carries(b, HeaderByte(type, dup, qos, retain), body)
  PROVE  /\ HasType(b, type) /\ TypeOf(b[1]) = type
         /\ Bits(b[1], 8, 2) = dup /\ Bits(b[1], 2, 4) = qos /\ Bits(b[1], 1, 2) = retain
<1>1. b[1] = HeaderByte(type, dup, qos, retain)
  BY DEF Carries
<1> QED
  BY <1>1, HeaderRoundTrip DEF HasType

\* MQTTDeserialize_connack reads what MQTTSerialize_connack writes.
LEMMA ConnackRead ==
  ASSUME NEW b, NEW sp \in 0..1, NEW code \in Byte,
         Carries(b, HeaderByte(PacketType.CONNACK, 0, 0, 0), <<sp, code>>)
  PROVE  MQTTDeserialize_connack(b) = [rc |-> 1, sessionPresent |-> sp, connackRc |-> code]
<1>1. HasType(b, PacketType.CONNACK)
  BY TypeNumbers, HeaderRead
<1>2. Remaining(b).value = 2 /\ Start(b) \in Nat
  BY DEF Carries
<1>3. b[Start(b)] = sp /\ b[Start(b) + 1] = code
  <2>1. \A i \in 1..2 : b[Start(b) + i - 1] = <<sp, code>>[i]
    BY DEF Carries, Holds
  <2>2. Start(b) + 1 - 1 = Start(b) /\ Start(b) + 2 - 1 = Start(b) + 1
    BY <1>2
  <2>3. b[Start(b) + 1 - 1] = sp /\ b[Start(b) + 2 - 1] = code
    BY <2>1
  <2> QED
    BY <2>2, <2>3
<1>4. Bits(sp, 1, 2) = sp
  BY DEF Bits
<1> QED
  BY <1>1, <1>2, <1>3, <1>4 DEF MQTTDeserialize_connack

\* An acknowledgement of any type is read with its type, its dup flag and its identifier.
LEMMA AckRead ==
  ASSUME NEW b, NEW type \in Acks, NEW dup \in 0..1, NEW id \in Number,
         Carries(b, HeaderByte(type, dup, Bit(type = PacketType.PUBREL), 0), WriteInt(id))
  PROVE  /\ MQTTDeserialize_ack(b) = [rc |-> 1, type |-> type, dup |-> dup, id |-> id]
         /\ TypeOf(b[1]) = type
<1>1. TypeOf(b[1]) = type /\ Bits(b[1], 8, 2) = dup
  <2>1. type \in 0..15 /\ Bit(type = PacketType.PUBREL) \in 0..3
    BY TypeNumbers DEF Bit
  <2> QED
    BY <2>1, HeaderRead
<1>2. Remaining(b).value = 2 /\ ReadInt(b, Start(b)) = id
  BY IntWritten, IntRead DEF Carries
<1> QED
  BY <1>1, <1>2 DEF MQTTDeserialize_ack

\* MQTTDeserialize_unsuback reads the identifier.
LEMMA UnsubackRead ==
  ASSUME NEW b, NEW id \in Number,
         Carries(b, HeaderByte(PacketType.UNSUBACK, 0, 0, 0), WriteInt(id))
  PROVE  MQTTDeserialize_unsuback(b) = [rc |-> 1, id |-> id]
<1>1. Remaining(b).value = 2 /\ ReadInt(b, Start(b)) = id
  BY IntWritten, IntRead DEF Carries
<1> QED
  BY <1>1 DEF MQTTDeserialize_unsuback

SubackBody(id, granted) == WriteInt(id) \o granted

\* A SUBACK is its identifier and one byte for each filter ...
LEMMA SubackWritten ==
  ASSUME NEW id \in Number, NEW granted \in Seq(Byte)
  PROVE  SubackBody(id, granted) \in Seq(Byte) /\ Len(SubackBody(id, granted)) = 2 + Len(granted)
<1>1. WriteInt(id) \in Seq(Byte) /\ Len(WriteInt(id)) = 2
  BY IntWritten
<1>2. WriteInt(id) \o granted \in Seq(Byte)
      /\ Len(WriteInt(id) \o granted) = Len(WriteInt(id)) + Len(granted)
  BY <1>1, ConcatProperties
<1> QED
  BY <1>1, <1>2 DEF SubackBody

\* ... and a reader with room for one takes two and no more, each as a signed char.
LEMMA SubackRead ==
  ASSUME NEW b, NEW id \in Number, NEW granted \in Seq(Byte),
         Carries(b, HeaderByte(PacketType.SUBACK, 0, 0, 0), SubackBody(id, granted))
  PROVE  MQTTDeserialize_suback(b, 1) =
           IF Len(granted) > 2 THEN Failed(-1)
           ELSE [rc |-> 1, id |-> id,
                 granted |-> [i \in DOMAIN granted |-> ReadChar(granted, i)]]
<1> DEFINE codes == [i \in DOMAIN granted |-> ReadChar(granted, i)]
<1>1. HasType(b, PacketType.SUBACK)
  BY TypeNumbers, HeaderRead
<1>2. Remaining(b).value = 2 + Len(granted) /\ Len(granted) \in Nat /\ Start(b) \in Nat
      /\ DOMAIN granted = 1..Len(granted)
  BY SubackWritten, LenProperties DEF Carries
<1>3. Holds(b, Start(b), WriteInt(id)) /\ Holds(b, Start(b) + 2, granted)
  <2>1. WriteInt(id) \in Seq(Byte) /\ Len(WriteInt(id)) = 2
    BY IntWritten
  <2>2. Holds(b, Start(b), WriteInt(id) \o granted)
    BY DEF Carries, SubackBody
  <2> QED
    BY <1>2, <2>1, <2>2, HoldsBoth
<1>4. ReadInt(b, Start(b)) = id
  BY <1>2, <1>3, IntRead
<1>5. [i \in 1..(Remaining(b).value - 2) |-> ReadChar(b, Start(b) + 1 + i)] = codes
  <2>1. Remaining(b).value - 2 = Len(granted)
    BY <1>2
  <2>2. ASSUME NEW i \in 1..Len(granted) PROVE ReadChar(b, Start(b) + 1 + i) = ReadChar(granted, i)
    <3>1. (Start(b) + 2) + i - 1 = Start(b) + 1 + i
      BY <1>2
    <3>2. b[Start(b) + 1 + i] = granted[i]
      BY <1>2, <1>3, <3>1 DEF Holds
    <3> QED
      BY <3>2 DEF ReadChar
  <2> QED
    BY <1>2, <2>1, <2>2
<1>6. ~(Remaining(b).value < 2) /\ (Remaining(b).value - 2 > 1 + 1 <=> Len(granted) > 2)
  BY <1>2
<1>7. MQTTDeserialize_suback(b, 1) =
        IF Len(granted) > 2 THEN Failed(-1) ELSE [rc |-> 1, id |-> id, granted |-> codes]
  <2> HIDE DEF codes
  <2> QED
    BY <1>1, <1>4, <1>5, <1>6 DEF MQTTDeserialize_suback
<1> QED
  BY <1>7

PublishBody(qos, id, topic, payload) ==
  WriteMQTTString(topic) \o (IF qos > 0 THEN WriteInt(id) ELSE << >>) \o payload

\* MQTTSerialize_publishLength is the length of what MQTTSerialize_publish then writes ...
LEMMA PublishWritten ==
  ASSUME NEW qos \in 0..2, NEW id \in Number, NEW topic \in MQTTString, NEW payload \in Seq(Byte)
  PROVE  /\ PublishBody(qos, id, topic, payload) \in Seq(Byte)
         /\ Len(PublishBody(qos, id, topic, payload))
              = MQTTSerialize_publishLength(qos, topic, payload)
         /\ Len(PublishBody(qos, id, topic, payload))
              = 2 + Len(Said(topic)) + (IF qos > 0 THEN 2 ELSE 0) + Len(payload)
<1> DEFINE t == WriteMQTTString(topic)
           i == IF qos > 0 THEN WriteInt(id) ELSE << >>
           l == Len(Said(topic))
<1>1. /\ t \in Seq(Byte) /\ Len(t) = 2 + l /\ MQTTstrlen(topic) = l /\ l \in Nat
  BY StringWritten, LenProperties
<1>2. i \in Seq(Byte) /\ Len(i) = IF qos > 0 THEN 2 ELSE 0
  BY IntWritten, EmptySeq
<1>3. Len(payload) \in Nat
  BY LenProperties
<1>4. PublishBody(qos, id, topic, payload) = t \o i \o payload
  BY DEF PublishBody
<1> HIDE DEF t, i, l
<1>5. t \o i \in Seq(Byte) /\ Len(t \o i) = Len(t) + Len(i)
  BY <1>1, <1>2, ConcatProperties
<1> DEFINE u == t \o i
<1>6. u \o payload \in Seq(Byte) /\ Len(u \o payload) = Len(u) + Len(payload)
  <2> HIDE DEF u
  <2>1. u \in Seq(Byte)
    BY <1>5 DEF u
  <2> QED
    BY <2>1, ConcatProperties
<1>7. MQTTSerialize_publishLength(qos, topic, payload) = 2 + l + Len(payload) + (IF qos > 0 THEN 2 ELSE 0)
  BY <1>1 DEF MQTTSerialize_publishLength
<1> QED
  BY <1>1, <1>2, <1>3, <1>4, <1>5, <1>6, <1>7 DEF l

\* ... and MQTTDeserialize_publish takes topic, identifier and payload apart again.
LEMMA PublishRead ==
  ASSUME NEW b, NEW dup \in 0..1, NEW qos \in 0..2, NEW retained \in 0..1, NEW id \in Number,
         NEW topic \in MQTTString, NEW payload \in Seq(Byte),
         Carries(b, HeaderByte(PacketType.PUBLISH, dup, qos, retained),
                 PublishBody(qos, id, topic, payload))
  PROVE  MQTTDeserialize_publish(b) =
           [rc |-> 1, dup |-> dup, qos |-> qos, retained |-> retained,
            id |-> IF qos > 0 THEN id ELSE NULL, topic |-> LenString(Said(topic)),
            payloadlen |-> Len(payload), payload |-> payload]
<1> DEFINE t == WriteMQTTString(topic)
           i == IF qos > 0 THEN WriteInt(id) ELSE << >>
           l == Len(Said(topic))
           k == IF qos > 0 THEN 2 ELSE 0
           s == Start(b)
           e == End(b)
           m == Len(payload)
<1>1. /\ HasType(b, PacketType.PUBLISH) /\ Bits(b[1], 8, 2) = dup /\ Bits(b[1], 2, 4) = qos
      /\ Bits(b[1], 1, 2) = retained
  <2>1. PacketType.PUBLISH \in 0..15 /\ qos \in 0..3
    BY TypeNumbers
  <2> QED
    BY <2>1, HeaderRead
<1>2. /\ t \in Seq(Byte) /\ Len(t) = 2 + l /\ l \in Nat
      /\ i \in Seq(Byte) /\ Len(i) = k /\ k \in Nat /\ m \in Nat
  BY StringWritten, IntWritten, EmptySeq, LenProperties
<1>3. s \in Nat /\ e = s + Len(PublishBody(qos, id, topic, payload))
      /\ Holds(b, s, t \o i \o payload)
  BY DEF Carries, PublishBody
<1>4. e = s + 2 + l + k + m /\ e \in Nat
  <2>1. Len(PublishBody(qos, id, topic, payload)) = 2 + l + k + m
    BY PublishWritten
  <2> HIDE DEF s, e, l, k, m
  <2> QED
    BY <1>2, <1>3, <2>1
<1>5. /\ Holds(b, s, t) /\ Holds(b, s + (2 + l), i) /\ Holds(b, s + (2 + l) + k, payload)
      /\ s + (2 + l) \in Nat /\ s + (2 + l) + k \in Nat
  <2> HIDE DEF t, i, l, k, s, e, m
  <2>1. t \o i \in Seq(Byte) /\ Len(t \o i) = 2 + l + k
    BY <1>2, ConcatProperties
  <2>2. Holds(b, s, t \o i) /\ Holds(b, s + (2 + l + k), payload)
    BY <1>3, <2>1, HoldsBoth
  <2>3. Holds(b, s, t) /\ Holds(b, s + (2 + l), i)
    BY <1>2, <1>3, <2>2, HoldsBoth
  <2>4. s + (2 + l + k) = s + (2 + l) + k /\ s + (2 + l) \in Nat /\ s + (2 + l) + k \in Nat
    BY <1>2, <1>3
  <2> QED
    BY <2>2, <2>3, <2>4
<1>6. s + (2 + l) = s + 2 + l /\ s + 2 + l + k + m - 1 = (s + 2 + l + k) + m - 1
      /\ s + 2 + l <= e /\ s + 2 + l \in Nat /\ s + 2 + l + k \in Nat
      /\ e - (s + 2 + l + k) = m /\ e - 1 = (s + 2 + l + k) + m - 1 /\ e - 1 \in Int
  <2> HIDE DEF s, e, l, k, m
  <2> QED
    BY <1>2, <1>3, <1>4
<1>7. ReadMQTTLenString(b, s, e) =
        [rc |-> 1, next |-> s + 2 + l, string |-> LenString(Said(topic))]
  BY <1>3, <1>4, <1>5, <1>6, StringRead
<1>8. qos > 0 => ReadInt(b, s + 2 + l) = id
  BY <1>5, <1>6, IntRead
<1>9. SubSeq(b, s + 2 + l + k, e - 1) = payload
  <2>1. Holds(b, s + 2 + l + k, payload)
    BY <1>5, <1>6
  <2> HIDE DEF s, e, l, k
  <2> QED
    BY <1>6, <2>1, HoldsCut
<1> HIDE DEF t, i, l
<1>10. LET r == ReadMQTTLenString(b, s, e)
       IN  r.rc = 1 /\ r.next = s + 2 + l /\ r.string = LenString(Said(topic))
  BY <1>7
<1> DEFINE r == ReadMQTTLenString(b, s, e)
           body == r.next + k
<1> DEFINE result ==
             [rc |-> 1, dup |-> Bits(b[1], 8, 2), qos |-> Bits(b[1], 2, 4),
              retained |-> Bits(b[1], 1, 2),
              id |-> IF Bits(b[1], 2, 4) > 0 THEN ReadInt(b, r.next) ELSE NULL,
              topic |-> r.string,
              payloadlen |-> e - (r.next + (IF Bits(b[1], 2, 4) > 0 THEN 2 ELSE 0)),
              payload |-> SubSeq(b, r.next + (IF Bits(b[1], 2, 4) > 0 THEN 2 ELSE 0), e - 1)]
<1>11. MQTTDeserialize_publish(b) =
         IF ~HasType(b, PacketType.PUBLISH) THEN Failed(0)
         ELSE IF r.rc = 0 THEN Failed(Remaining(b).len) ELSE result
  BY DEF MQTTDeserialize_publish
<1>12. result = [rc |-> 1, dup |-> dup, qos |-> qos, retained |-> retained,
                 id |-> IF qos > 0 THEN ReadInt(b, r.next) ELSE NULL, topic |-> r.string,
                 payloadlen |-> e - body, payload |-> SubSeq(b, body, e - 1)]
  <2> HIDE DEF r, e
  <2> QED
    BY <1>1
<1> HIDE DEF s, e, r, result
<1>13. r.rc = 1 /\ r.next = s + 2 + l /\ r.string = LenString(Said(topic))
       /\ body = s + 2 + l + k
  BY <1>10 DEF r
<1>14. MQTTDeserialize_publish(b) = result
  BY <1>1, <1>11, <1>13
<1>15. e - body = m /\ SubSeq(b, body, e - 1) = payload /\ (qos > 0 => ReadInt(b, r.next) = id)
  BY <1>6, <1>8, <1>9, <1>13
<1> HIDE DEF body, k, m
<1> QED
  BY <1>12, <1>13, <1>14, <1>15 DEF m

-----------------------------------------------------------------------------
(* Lists of filters *)

\* The filters of a list, each with extra bytes behind it, begin at these offsets.
Offsets(filters, extra, at) ==
  /\ at \in [0..Len(filters) -> Nat] /\ at[0] = 0
  /\ \A k \in 1..Len(filters) : at[k] = at[k - 1] + (2 + Len(Said(filters[k]))) + extra

\* The loop of MQTTSerialize_subscribeLength adds up what the list takes.
LEMMA SumIsTheEnd ==
  ASSUME NEW filters \in Seq(MQTTString), NEW extra \in 0..1, NEW at, Offsets(filters, extra, at)
  PROVE  /\ SumOfLengths(filters) \in Int
         /\ SumOfLengths(filters) + (IF extra = 1 THEN Len(filters) ELSE 0) = at[Len(filters)]
<1> DEFINE n == Len(filters)
           IsSum(f) == f = [k \in 0..n |-> IF k = 0 THEN 0
                                           ELSE f[k - 1] + 2 + MQTTstrlen(filters[k])]
           sum == CHOOSE f : IsSum(f)
           x(k) == IF extra = 1 THEN k ELSE 0
           g == [k \in 0..n |-> at[k] - x(k)]
<1>1. n \in Nat /\ \A k \in 1..n : filters[k] \in MQTTString
  BY LenProperties, ElementOfSeq
<1>2. \A k \in 1..n : MQTTstrlen(filters[k]) = Len(Said(filters[k])) /\ Len(Said(filters[k])) \in Nat
  <2> SUFFICES ASSUME NEW k \in 1..n
               PROVE  MQTTstrlen(filters[k]) = Len(Said(filters[k])) /\ Len(Said(filters[k])) \in Nat
    OBVIOUS
  <2>1. filters[k] \in MQTTString
    BY <1>1
  <2> QED
    BY <2>1, StringWritten, LenProperties
<1>3. SumOfLengths(filters) = sum[n]
  BY DEF SumOfLengths
<1>4. \A k \in 1..n : at[k] = at[k - 1] + (2 + MQTTstrlen(filters[k])) + extra
  BY <1>2 DEF Offsets
<1>5. \A k \in 0..n : at[k] \in Nat
  BY DEF Offsets
<1>6. ASSUME NEW k \in 0..n
      PROVE  g[k] = IF k = 0 THEN 0 ELSE g[k - 1] + 2 + MQTTstrlen(filters[k])
  <2>1. CASE k = 0
    BY <1>1, <2>1 DEF Offsets
  <2>2. CASE k # 0
    <3>1. k \in 1..n /\ k - 1 \in 0..n
      BY <1>1, <2>2
    <3> DEFINE a == at[k - 1]
               l == MQTTstrlen(filters[k])
    <3>2. at[k] = a + (2 + l) + extra /\ a \in Nat /\ l \in Nat
      BY <1>2, <1>4, <1>5, <3>1
    <3>3. g[k] = at[k] - x(k) /\ g[k - 1] = a - x(k - 1)
      BY <3>1
    <3> HIDE DEF g, a, l
    <3>4. g[k] = g[k - 1] + 2 + l
      BY <1>1, <3>2, <3>3
    <3> QED
      BY <2>2, <3>4 DEF l
  <2> QED
    BY <2>1, <2>2
<1>7. IsSum(g)
  BY <1>6
<1>8. IsSum(sum)
  <2> HIDE DEF IsSum, g
  <2> QED
    BY <1>7
<1> DEFINE Same == {k \in Nat : k \in 0..n => sum[k] = g[k]}
<1> HIDE DEF sum, g
<1>9. 0 \in Same
  BY <1>1, <1>6, <1>8
<1>10. ASSUME NEW k \in Nat, k \in Same PROVE k + 1 \in Same
  <2> SUFFICES ASSUME k + 1 \in 0..n PROVE sum[k + 1] = g[k + 1]
    OBVIOUS
  <2>1. k \in 0..n /\ k + 1 # 0 /\ (k + 1) - 1 = k
    BY <1>1
  <2>2. sum[k + 1] = sum[(k + 1) - 1] + 2 + MQTTstrlen(filters[k + 1])
    BY <1>8, <2>1
  <2>3. g[k + 1] = g[(k + 1) - 1] + 2 + MQTTstrlen(filters[k + 1])
    BY <1>6, <2>1
  <2> QED
    BY <1>10, <2>1, <2>2, <2>3
<1> HIDE DEF Same
<1>11. \A k \in Nat : k \in Same
  BY <1>9, <1>10, Induction
<1>12. sum[n] = g[n] /\ g[n] = at[n] - x(n) /\ at[n] \in Nat
  <2>1. n \in Nat /\ n \in 0..n
    BY <1>1
  <2>2. sum[n] = g[n]
    BY <1>11, <2>1 DEF Same
  <2>3. g[n] = at[n] - x(n)
    BY <2>1 DEF g
  <2> QED
    BY <1>5, <2>1, <2>2, <2>3
<1> QED
  <2> HIDE DEF n
  <2>1. sum[n] = at[n] - x(n) /\ x(n) \in Nat
    BY <1>1, <1>12
  <2> QED
    BY <1>3, <1>12, <2>1 DEF n

\* A string that is read ends behind where it begins, and not behind the packet.
LEMMA StringNext ==
  ASSUME NEW b \in Seq(Byte), NEW p \in Nat, p > 0, NEW end \in Nat, end = Len(b) + 1
  PROVE  LET f == ReadMQTTLenString(b, p, end)
         IN  f.rc = 0 \/ (f.rc = 1 /\ f.next \in Nat /\ f.next >= p + 2 /\ f.next <= end)
<1> DEFINE f == ReadMQTTLenString(b, p, end)
           i == ReadInt(b, p)
<1>1. Len(b) \in Nat
  BY LenProperties
<1>2. CASE end - p > 1 /\ p + 2 + i <= end
  <2>1. p \in 1..Len(b) /\ p + 1 \in 1..Len(b)
    BY <1>1, <1>2
  <2>2. b[p] \in Byte /\ b[p + 1] \in Byte
    BY <2>1, ElementOfSeq
  <2>3. i \in Nat
    <3>1. b[p] \in Nat /\ b[p + 1] \in Nat
      <4>1. \A c \in Byte : c \in Nat
        BY DEF Byte
      <4> QED
        BY <2>2, <4>1
    <3> QED
      BY <3>1 DEF ReadInt
  <2>4. f.rc = 1 /\ f.next = p + 2 + i
    BY <1>2 DEF ReadMQTTLenString, LenStrings
  <2> HIDE DEF f, i
  <2> QED
    BY <1>2, <2>3, <2>4 DEF f
<1>3. CASE ~(end - p > 1 /\ p + 2 + i <= end)
  <2>1. f.rc = 0
    BY <1>3 DEF ReadMQTTLenString, LenStrings
  <2> QED
    BY <2>1
<1> QED
  BY <1>2, <1>3

\* What is read at p, given what is read behind it.
FilterStep(b, extra, list, p) ==
  LET f == ReadMQTTLenString(b, p, End(b))
  IN  IF p >= End(b) THEN [rc |-> 1, filters |-> << >>, qoss |-> << >>]
      ELSE IF f.rc = 0 \/ (extra = 1 /\ f.next >= End(b))
      THEN [rc |-> 0, filters |-> << >>, qoss |-> << >>]
      ELSE LET rest == list[f.next + extra]
           IN  [rc |-> rest.rc, filters |-> <<f.string>> \o rest.filters,
                qoss |-> (IF extra = 1 THEN <<ReadChar(b, f.next)>> ELSE << >>) \o rest.qoss]

\* One step of the walk looks only at the rest of the list behind p.
LEMMA FilterStepSame ==
  ASSUME NEW b \in Seq(Byte), NEW extra \in 0..1, NEW p \in Nat, p > 0, End(b) = Len(b) + 1,
         NEW g, NEW h, \A q \in (p + 1)..End(b) : g[q] = h[q]
  PROVE  FilterStep(b, extra, g, p) = FilterStep(b, extra, h, p)
<1> DEFINE f == ReadMQTTLenString(b, p, End(b))
<1>1. End(b) \in Nat
  BY LenProperties
<1>2. f.rc = 0 \/ (f.rc = 1 /\ f.next \in Nat /\ f.next >= p + 2 /\ f.next <= End(b))
  BY <1>1, StringNext
<1>3. CASE p >= End(b)
  BY <1>3 DEF FilterStep
<1>4. CASE ~(p >= End(b)) /\ (f.rc = 0 \/ (extra = 1 /\ f.next >= End(b)))
  BY <1>4 DEF FilterStep
<1>5. CASE ~(p >= End(b)) /\ ~(f.rc = 0 \/ (extra = 1 /\ f.next >= End(b)))
  <2>1. f.next + extra \in (p + 1)..End(b)
    <3> HIDE DEF f
    <3> QED
      BY <1>1, <1>2, <1>5
  <2>2. g[f.next + extra] = h[f.next + extra]
    BY <2>1
  <2> QED
    BY <1>5, <2>2 DEF FilterStep
<1> QED
  BY <1>3, <1>4, <1>5

\* FiltersFrom reads the list step by step.
LEMMA FiltersAreRead ==
  ASSUME NEW b \in Seq(Byte), NEW extra \in 0..1, NEW first \in Nat, first > 0,
         End(b) = Len(b) + 1, first <= End(b)
  PROVE  \E list : /\ FiltersFrom(b, first, extra) = list[first]
                   /\ \A p \in first..End(b) : list[p] = FilterStep(b, extra, list, p)
<1> DEFINE end == End(b)
           IsList(f) == f = [p \in first..end |-> FilterStep(b, extra, f, p)]
           list == CHOOSE f : IsList(f)
           Upto(f, m) == \A p \in (end - m)..end : f[p] = FilterStep(b, extra, f, p)
           Some == {m \in Nat : m <= end - first => \E f : Upto(f, m)}
<1>1. end \in Nat /\ first <= end
  BY LenProperties
<1>2. FiltersFrom(b, first, extra) = list[first]
  BY DEF FiltersFrom, FilterStep
<1>3. 0 \in Some
  <2> DEFINE f == [p \in {end} |-> FilterStep(b, extra, << >>, p)]
  <2>1. \A q \in (end + 1)..end : << >>[q] = f[q]
    BY <1>1
  <2>2. FilterStep(b, extra, << >>, end) = FilterStep(b, extra, f, end)
    <3>1. end > 0
      BY <1>1
    <3> DEFINE none == << >>
    <3>2. \A q \in (end + 1)..End(b) : none[q] = f[q]
      BY <2>1
    <3>3. End(b) = Len(b) + 1 /\ end \in Nat
      BY <1>1
    <3> HIDE DEF f, none, end
    <3>4. FilterStep(b, extra, none, end) = FilterStep(b, extra, f, end)
      BY <3>1, <3>2, <3>3, FilterStepSame
    <3> QED
      BY <3>4 DEF none
  <2>3. \A p \in (end - 0)..end : p = end
    BY <1>1
  <2>4. f[end] = FilterStep(b, extra, f, end)
    BY <2>2
  <2> HIDE DEF f, end
  <2>5. Upto(f, 0)
    BY <2>3, <2>4
  <2> QED
    BY <2>5
<1>4. ASSUME NEW m \in Nat, m \in Some PROVE m + 1 \in Some
  <2> SUFFICES ASSUME m + 1 <= end - first PROVE \E f : Upto(f, m + 1)
    OBVIOUS
  <2>1. m <= end - first
    BY <1>1
  <2>2. PICK f : Upto(f, m)
    BY <1>4, <2>1
  <2> DEFINE o == end - (m + 1)
             g == [p \in first..end |-> IF p = o THEN FilterStep(b, extra, f, p) ELSE f[p]]
  <2>3. o \in Nat /\ o >= first /\ o > 0 /\ o \in first..end /\ end - m = o + 1
    BY <1>1
  <2>4. \A p \in (o + 1)..end : p \in first..end /\ p # o /\ g[p] = f[p]
    <3> HIDE DEF o
    <3> QED
      BY <1>1, <2>3
  <2>5. ASSUME NEW p \in o..end PROVE g[p] = FilterStep(b, extra, g, p)
    <3> HIDE DEF g, o
    <3>1. p \in Nat /\ p > 0 /\ p >= o
      BY <1>1, <2>3
    <3>2. ASSUME NEW q \in (p + 1)..end PROVE f[q] = g[q]
      <4>1. q \in (o + 1)..end
        BY <1>1, <2>3, <3>1
      <4> QED
        BY <2>4, <4>1
    <3>3. FilterStep(b, extra, f, p) = FilterStep(b, extra, g, p)
      BY <1>1, <3>1, <3>2, FilterStepSame
    <3>4. CASE p = o
      BY <2>3, <3>3, <3>4 DEF g
    <3>5. CASE p # o
      <4>1. p \in (o + 1)..end
        BY <1>1, <2>3, <3>1, <3>5
      <4>2. f[p] = FilterStep(b, extra, f, p)
        BY <2>2, <2>3, <4>1
      <4> QED
        BY <2>4, <3>3, <4>1, <4>2
    <3> QED
      BY <3>4, <3>5
  <2>6. Upto(g, m + 1)
    BY <2>5
  <2> HIDE DEF Upto, g
  <2> QED
    BY <2>6
<1>5. \A m \in Nat : m \in Some
  <2> HIDE DEF Some
  <2> QED
    BY <1>3, <1>4, Induction
<1>6. PICK f : Upto(f, end - first)
  <2>1. end - first \in Nat /\ end - first <= end - first
    BY <1>1
  <2> HIDE DEF Upto
  <2> QED
    BY <1>5, <2>1
<1> DEFINE h == [p \in first..end |-> f[p]]
<1>7. ASSUME NEW p \in first..end PROVE h[p] = FilterStep(b, extra, h, p)
  <2>1. p \in Nat /\ p > 0 /\ end - (end - first) = first
    BY <1>1
  <2>2. ASSUME NEW q \in (p + 1)..end PROVE f[q] = h[q]
    <3>1. q \in first..end
      BY <1>1, <2>1
    <3> QED
      BY <3>1
  <2>3. h[p] = f[p] /\ f[p] = FilterStep(b, extra, f, p)
    BY <1>6, <2>1
  <2> HIDE DEF h
  <2>4. FilterStep(b, extra, f, p) = FilterStep(b, extra, h, p)
    BY <1>1, <2>1, <2>2, FilterStepSame
  <2> QED
    BY <2>3, <2>4
<1>8. IsList(h)
  BY <1>7
<1>9. IsList(list)
  <2> HIDE DEF IsList, h
  <2> QED
    BY <1>8
<1>10. \A p \in first..end : list[p] = FilterStep(b, extra, list, p)
  <2> HIDE DEF list
  <2> QED
    BY <1>9
<1> HIDE DEF list
<1> QED
  BY <1>2, <1>10

\* What grows from place to place is highest at the last.
LEMMA LastIsHighest ==
  ASSUME NEW n \in Nat, NEW at \in [0..n -> Nat], \A k \in 1..n : at[k - 1] <= at[k]
  PROVE  \A k \in 0..n : at[k] <= at[n]
<1> DEFINE Low == {j \in Nat : j <= n => at[n - j] <= at[n]}
<1>0. \A k \in 0..n : at[k] \in Nat
  OBVIOUS
<1>1. 0 \in Low
  BY <1>0
<1>2. ASSUME NEW j \in Nat, j \in Low PROVE j + 1 \in Low
  <2> SUFFICES ASSUME j + 1 <= n PROVE at[n - (j + 1)] <= at[n]
    OBVIOUS
  <2> DEFINE k == n - j
             a == at[k - 1]
  <2>1. k \in 1..n /\ k - 1 = n - (j + 1) /\ k - 1 \in 0..n /\ k \in 0..n /\ n \in 0..n /\ j <= n
    OBVIOUS
  <2>2. a \in Nat /\ at[k] \in Nat /\ at[n] \in Nat /\ a <= at[k] /\ at[k] <= at[n]
    BY <1>0, <1>2, <2>1
  <2> HIDE DEF a
  <2>3. a <= at[n]
    BY <2>2
  <2> QED
    BY <2>1, <2>3 DEF a
<1> HIDE DEF Low
<1>3. \A j \in Nat : j \in Low
  BY <1>1, <1>2, Induction
<1> SUFFICES ASSUME NEW k \in 0..n PROVE at[k] <= at[n]
  OBVIOUS
<1>4. n - k \in Nat /\ n - k <= n /\ n - (n - k) = k
  OBVIOUS
<1> QED
  BY <1>3, <1>4 DEF Low

\* The rest of a sequence from k + 1 on.
From(s, k) == [i \in 1..(Len(s) - k) |-> s[k + i]]

\* The rest from one place earlier on has one element more in front.
LEMMA FromOneBefore ==
  ASSUME NEW S, NEW s \in Seq(S), NEW k \in 1..Len(s)
  PROVE  From(s, k - 1) = <<s[k]>> \o From(s, k)
<1>1. Len(s) \in Nat
  BY LenProperties
<1>2. \A i \in 1..(Len(s) - k) : s[k + i] \in S
  BY <1>1, ElementOfSeq
<1>3. From(s, k) \in Seq(S) /\ Len(From(s, k)) = Len(s) - k
  <2>1. From(s, k) \in [1..(Len(s) - k) -> S] /\ Len(s) - k \in Nat
    BY <1>1, <1>2 DEF From
  <2> QED
    BY <2>1
<1>4. <<s[k]>> \in Seq(S) /\ Len(<<s[k]>>) = 1
  BY <1>1, ElementOfSeq
<1> DEFINE t == <<s[k]>> \o From(s, k)
           m == Len(s) - (k - 1)
<1>5. /\ t \in Seq(S) /\ Len(t) = m
      /\ \A i \in 1..m : t[i] = IF i <= 1 THEN s[k] ELSE From(s, k)[i - 1]
  <2>1. /\ t \in Seq(S) /\ Len(t) = Len(<<s[k]>>) + Len(From(s, k))
        /\ \A i \in 1..(Len(<<s[k]>>) + Len(From(s, k))) :
             t[i] = IF i <= Len(<<s[k]>>) THEN <<s[k]>>[i] ELSE From(s, k)[i - Len(<<s[k]>>)]
    BY <1>3, <1>4, ConcatProperties
  <2> HIDE DEF t
  <2>2. Len(<<s[k]>>) + Len(From(s, k)) = m
    BY <1>1, <1>3, <1>4
  <2>3. ASSUME NEW i \in 1..m PROVE t[i] = IF i <= 1 THEN s[k] ELSE From(s, k)[i - 1]
    <3>1. CASE i <= 1
      <4>1. i = 1
        BY <1>1, <3>1
      <4> QED
        BY <1>4, <2>1, <2>2, <4>1
    <3>2. CASE ~(i <= 1)
      BY <1>4, <2>1, <2>2, <3>2
    <3> QED
      BY <3>1, <3>2
  <2> QED
    BY <2>1, <2>2, <2>3
<1> HIDE DEF t
<1>6. ASSUME NEW i \in 1..m PROVE From(s, k - 1)[i] = t[i] /\ s[(k - 1) + i] \in S
  <2>1. From(s, k - 1)[i] = s[(k - 1) + i] /\ (k - 1) + i \in 1..Len(s)
    BY <1>1 DEF From
  <2>2. CASE i = 1
    BY <1>5, <2>1, <2>2, ElementOfSeq
  <2>3. CASE i # 1
    <3>1. i - 1 \in 1..(Len(s) - k) /\ k + (i - 1) = (k - 1) + i /\ ~(i <= 1)
      BY <1>1, <2>3
    <3>2. From(s, k)[i - 1] = s[k + (i - 1)]
      BY <3>1 DEF From
    <3> QED
      BY <1>5, <2>1, <3>1, <3>2, ElementOfSeq
  <2> QED
    BY <2>2, <2>3
<1>7. From(s, k - 1) \in Seq(S) /\ Len(From(s, k - 1)) = m
  <2>1. From(s, k - 1) \in [1..m -> S] /\ m \in Nat
    <3>1. From(s, k - 1) = [i \in 1..m |-> s[(k - 1) + i]] /\ m \in Nat
      BY <1>1 DEF From
    <3> HIDE DEF m
    <3> QED
      BY <1>6, <3>1
  <2> HIDE DEF m
  <2> QED
    BY <2>1
<1> QED
  BY <1>5, <1>6, <1>7, SeqEqual DEF t

\* The rest from the start on is all of it, and nothing is left behind the end.
LEMMA FromStart ==
  ASSUME NEW S, NEW s \in Seq(S)
  PROVE  From(s, 0) = s /\ From(s, Len(s)) = << >>
<1>1. Len(s) \in Nat /\ s = [i \in 1..Len(s) |-> s[i]]
  BY LenProperties
<1>2. From(s, 0) = [i \in 1..Len(s) |-> s[i]]
  <2>1. Len(s) - 0 = Len(s) /\ \A i \in 1..Len(s) : 0 + i = i
    BY <1>1
  <2> QED
    BY <2>1 DEF From
<1>3. 1..(Len(s) - Len(s)) = {}
  BY <1>1
<1>4. From(s, Len(s)) = << >>
  BY <1>3 DEF From
<1> QED
  BY <1>1, <1>2, <1>4

\* What a reader gives back of a list
AllRead(list) == [i \in DOMAIN list |-> LenString(Said(list[i]))]

\* The entries of a list are in b from index first on, at these offsets, and then it ends.
ListAt(b, first, filters, qoss, extra, at) ==
  /\ b \in Seq(Byte) /\ first \in Nat /\ first > 0 /\ filters \in Seq(MQTTString)
  /\ extra = 1 => qoss \in Seq(0..2) /\ Len(qoss) = Len(filters)
  /\ Offsets(filters, extra, at)
  /\ End(b) = Len(b) + 1 /\ End(b) = first + at[Len(filters)]
  /\ \A k \in 1..Len(filters) :
       /\ Holds(b, first + at[k - 1], WriteMQTTString(filters[k]))
       /\ extra = 1 => b[first + at[k] - 1] = qoss[k]
ListHeard(filters, qoss, extra) ==
  [rc |-> 1, filters |-> AllRead(filters), qoss |-> IF extra = 1 THEN qoss ELSE << >>]

\* The readers of a list find every filter, and its QoS if it has one, where it has been
\* written.
LEMMA FiltersRead ==
  ASSUME NEW b, NEW first, NEW filters, NEW qoss, NEW extra \in 0..1, NEW at,
         ListAt(b, first, filters, qoss, extra, at)
  PROVE  FiltersFrom(b, first, extra) = ListHeard(filters, qoss, extra)
<1>0. /\ b \in Seq(Byte) /\ first \in Nat /\ first > 0 /\ filters \in Seq(MQTTString)
      /\ extra = 1 => qoss \in Seq(0..2) /\ Len(qoss) = Len(filters)
      /\ Offsets(filters, extra, at)
      /\ End(b) = Len(b) + 1 /\ End(b) = first + at[Len(filters)]
      /\ \A k \in 1..Len(filters) :
           /\ Holds(b, first + at[k - 1], WriteMQTTString(filters[k]))
           /\ extra = 1 => b[first + at[k] - 1] = qoss[k]
  BY DEF ListAt
<1> DEFINE n == Len(filters)
           heard == AllRead(filters)
           Q(k) == IF extra = 1 THEN From(qoss, k) ELSE << >>
           end == End(b)
           S == {LenString(s) : s \in Seq(Byte)}
<1>1. n \in Nat /\ \A k \in 0..n : at[k] \in Nat
  BY <1>0, LenProperties DEF Offsets
<1>2. \A k \in 1..n : /\ filters[k] \in MQTTString /\ Said(filters[k]) \in Seq(Byte)
                      /\ Len(Said(filters[k])) \in Nat
                      /\ at[k] = at[k - 1] + (2 + Len(Said(filters[k]))) + extra
  <2> SUFFICES ASSUME NEW k \in 1..n
               PROVE  /\ filters[k] \in MQTTString /\ Said(filters[k]) \in Seq(Byte)
                      /\ Len(Said(filters[k])) \in Nat
    BY <1>0 DEF Offsets
  <2>1. filters[k] \in MQTTString
    BY <1>0, ElementOfSeq
  <2> QED
    BY <2>1, StringWritten, LenProperties
<1>3. /\ heard \in Seq(S) /\ Len(heard) = n
      /\ \A k \in 1..n : heard[k] = LenString(Said(filters[k]))
  <2>1. DOMAIN filters = 1..n
    BY <1>0, LenProperties
  <2>2. heard = [k \in 1..n |-> LenString(Said(filters[k]))]
    BY <2>1 DEF AllRead
  <2>3. \A k \in 1..n : LenString(Said(filters[k])) \in S
    BY <1>2
  <2> HIDE DEF S, heard
  <2>4. heard \in [1..n -> S]
    BY <2>2, <2>3
  <2> QED
    BY <1>1, <2>2, <2>4
<1> HIDE DEF heard, S, n
<1>4. \A k \in 0..n : at[k] <= at[n]
  <2>1. at \in [0..n -> Nat]
    BY <1>0 DEF Offsets, n
  <2>2. ASSUME NEW k \in 1..n PROVE at[k - 1] <= at[k]
    <3> DEFINE a == at[k - 1]
               l == Len(Said(filters[k]))
    <3>1. k - 1 \in 0..n
      BY <1>1
    <3>2. a \in Nat /\ l \in Nat /\ at[k] = a + (2 + l) + extra
      BY <1>1, <1>2, <3>1
    <3> HIDE DEF a, l
    <3>3. a <= at[k]
      BY <3>2
    <3> QED
      BY <3>3 DEF a
  <2> QED
    BY <1>1, <2>1, <2>2, LastIsHighest
<1>5. end \in Nat /\ end = first + at[n] /\ first <= end /\ at[n] \in Nat
  BY <1>0, <1>1, LenProperties DEF n
<1>6. PICK list : /\ FiltersFrom(b, first, extra) = list[first]
                  /\ \A p \in first..end : list[p] = FilterStep(b, extra, list, p)
  BY <1>0, <1>5, FiltersAreRead
<1> HIDE DEF end
<1> DEFINE Found(k) == list[first + at[k]] = [rc |-> 1, filters |-> From(heard, k), qoss |-> Q(k)]
<1>7. Found(n)
  <2>1. first + at[n] \in first..end /\ first + at[n] >= end
    BY <1>5
  <2>2. list[first + at[n]] = [rc |-> 1, filters |-> << >>, qoss |-> << >>]
    BY <1>6, <2>1 DEF FilterStep, end
  <2>3. From(heard, n) = << >> /\ Q(n) = << >>
    BY <1>0, <1>3, FromStart DEF n
  <2> QED
    BY <2>2, <2>3
<1>8. ASSUME NEW k \in 1..n, Found(k) PROVE Found(k - 1)
  <2> DEFINE p == first + at[k - 1]
             l == Len(Said(filters[k]))
             f == ReadMQTTLenString(b, p, end)
  <2>1. at[k - 1] \in Nat /\ at[k] \in Nat /\ at[k] <= at[n] /\ l \in Nat
        /\ at[k] = at[k - 1] + (2 + l) + extra
    BY <1>1, <1>2, <1>4
  <2> HIDE DEF l
  <2>2. /\ p \in Nat /\ p \in first..end /\ ~(p >= end)
        /\ p + 2 + l <= end /\ (extra = 1 => ~(p + 2 + l >= end))
        /\ p + 2 + l + extra = first + at[k] /\ (extra = 1 => p + 2 + l = first + at[k] - 1)
    <3> DEFINE a == at[k - 1]
               c == at[k]
               z == at[n]
    <3>1. a \in Nat /\ c \in Nat /\ z \in Nat /\ c <= z /\ c = a + (2 + l) + extra
          /\ end = first + z
      BY <1>0, <1>5, <2>1
    <3>2. p = first + a
      OBVIOUS
    <3> HIDE DEF a, c, z, p
    <3>3. /\ p \in Nat /\ p >= first /\ p < end /\ p <= end
          /\ p + 2 + l <= end /\ (extra = 1 => p + 2 + l < end)
          /\ p + 2 + l + extra = first + c /\ (extra = 1 => p + 2 + l = first + c - 1)
      BY <1>0, <2>1, <3>1, <3>2
    <3> QED
      BY <1>0, <1>5, <2>1, <3>3 DEF c
  <2>3. f = [rc |-> 1, next |-> p + 2 + l, string |-> LenString(Said(filters[k]))]
    <3>1. Holds(b, p, WriteMQTTString(filters[k]))
      BY <1>0 DEF n
    <3> HIDE DEF p
    <3> QED
      BY <1>0, <1>2, <1>5, <2>2, <3>1, StringRead DEF l
  <2>4. f.rc = 1 /\ f.next = p + 2 + l /\ f.string = heard[k]
    <3> HIDE DEF f, p
    <3>1. f.rc = 1 /\ f.next = p + 2 + l /\ f.string = LenString(Said(filters[k]))
      BY <2>3
    <3> QED
      BY <1>3, <3>1
  <2> DEFINE rest == list[f.next + extra]
  <2>5. list[p] = [rc |-> rest.rc, filters |-> <<f.string>> \o rest.filters,
                   qoss |-> (IF extra = 1 THEN <<ReadChar(b, f.next)>> ELSE << >>) \o rest.qoss]
    <3>1. list[p] = FilterStep(b, extra, list, p)
      BY <1>6, <2>2
    <3>2. ~(f.rc = 0 \/ (extra = 1 /\ f.next >= end)) /\ ~(p >= end)
      BY <2>2, <2>4
    <3> HIDE DEF p
    <3> QED
      BY <3>1, <3>2 DEF FilterStep, end
  <2> HIDE DEF f
  <2>6. rest = [rc |-> 1, filters |-> From(heard, k), qoss |-> Q(k)]
    BY <1>8, <2>2, <2>4
  <2>7. <<f.string>> \o rest.filters = From(heard, k - 1)
    BY <1>3, <2>4, <2>6, FromOneBefore
  <2>8. (IF extra = 1 THEN <<ReadChar(b, f.next)>> ELSE << >>) \o rest.qoss = Q(k - 1)
    <3>1. rest.qoss = Q(k)
      BY <2>6
    <3>2. CASE extra = 1
      <4>1. qoss \in Seq(0..2) /\ k \in 1..Len(qoss)
        BY <1>0, <3>2 DEF n
      <4>2. b[first + at[k] - 1] = qoss[k] /\ qoss[k] \in 0..2
        BY <1>0, <3>2, <4>1, ElementOfSeq DEF n
      <4>3. ReadChar(b, f.next) = qoss[k]
        BY <2>2, <2>4, <3>2, <4>2 DEF ReadChar
      <4> QED
        BY <3>1, <3>2, <4>1, <4>3, FromOneBefore
    <3>3. CASE extra # 1
      <4>1. << >> \o << >> = << >>
        OBVIOUS
      <4> QED
        BY <3>1, <3>3, <4>1
    <3> QED
      BY <3>2, <3>3
  <2>9. rest.rc = 1
    BY <2>6
  <2> HIDE DEF rest, Q
  <2> QED
    BY <2>5, <2>7, <2>8, <2>9
<1>9. Found(0)
  <2> DEFINE Done == {j \in Nat : j <= n => Found(n - j)}
  <2> HIDE DEF Found
  <2>1. 0 \in Done
    <3>1. n - 0 = n
      BY <1>1
    <3> QED
      BY <1>7, <3>1
  <2>2. ASSUME NEW j \in Nat, j \in Done PROVE j + 1 \in Done
    <3> SUFFICES ASSUME j + 1 <= n PROVE Found(n - (j + 1))
      OBVIOUS
    <3>1. n - j \in 1..n /\ (n - j) - 1 = n - (j + 1) /\ j <= n
      BY <1>1
    <3>2. Found(n - j)
      BY <2>2, <3>1
    <3>3. Found((n - j) - 1)
      BY <1>8, <3>1, <3>2
    <3> QED
      BY <3>1, <3>3
  <2> HIDE DEF Done
  <2>3. \A j \in Nat : j \in Done
    BY <2>1, <2>2, Induction
  <2>4. n <= n /\ n - n = 0
    BY <1>1
  <2> QED
    BY <1>1, <2>3, <2>4 DEF Done
<1>10. first + at[0] = first
  BY <1>0 DEF Offsets
<1>11. From(heard, 0) = heard
  BY <1>3, FromStart
<1>12. Q(0) = IF extra = 1 THEN qoss ELSE << >>
  BY <1>0, FromStart
<1> HIDE DEF Q
<1> QED
  BY <1>6, <1>9, <1>10, <1>11, <1>12 DEF heard, ListHeard

\* The entries of a SUBSCRIBE (extra = 1) or an UNSUBSCRIBE, and what follows its length.
Entries(filters, qoss, extra) ==
  [i \in DOMAIN filters |->
     IF extra = 1 THEN WriteMQTTString(filters[i]) \o <<qoss[i]>> ELSE WriteMQTTString(filters[i])]
ListBody(id, filters, qoss, extra) == WriteInt(id) \o FlattenSeq(Entries(filters, qoss, extra))
Lists(filters, qoss, extra) ==
  filters \in Seq(MQTTString) /\ (extra = 1 => qoss \in Seq(0..2) /\ Len(qoss) = Len(filters))

\* An entry is the filter as it is written, and its QoS where there is one.
LEMMA EntryWritten ==
  ASSUME NEW filters, NEW qoss, NEW extra \in 0..1, Lists(filters, qoss, extra),
         NEW k \in 1..Len(filters)
  PROVE  LET e == Entries(filters, qoss, extra)[k]
             l == Len(Said(filters[k]))
         IN  /\ e \in Seq(Byte) /\ l \in Nat /\ Len(e) = (2 + l) + extra
             /\ Len(WriteMQTTString(filters[k])) = 2 + l
             /\ \A i \in 1..(2 + l) : e[i] = WriteMQTTString(filters[k])[i]
             /\ extra = 1 => e[(2 + l) + 1] = qoss[k]
<1> DEFINE e == Entries(filters, qoss, extra)[k]
           l == Len(Said(filters[k]))
           w == WriteMQTTString(filters[k])
<1>1. filters[k] \in MQTTString /\ k \in DOMAIN filters
  BY ElementOfSeq, LenProperties DEF Lists
<1>2. w \in Seq(Byte) /\ Len(w) = 2 + l /\ l \in Nat
  BY <1>1, StringWritten, LenProperties
<1>3. e = IF extra = 1 THEN w \o <<qoss[k]>> ELSE w
  BY <1>1 DEF Entries
<1> HIDE DEF e, w, l
<1>4. CASE extra = 1
  <2> DEFINE q == <<qoss[k]>>
  <2>1. qoss[k] \in 0..2
    BY <1>4, ElementOfSeq DEF Lists
  <2>2. \A c \in 0..2 : c \in Byte
    BY DEF Byte
  <2>3. q \in Seq(Byte) /\ Len(q) = 1 /\ q[1] = qoss[k]
    BY <2>1, <2>2
  <2> HIDE DEF q
  <2>4. /\ w \o q \in Seq(Byte) /\ Len(w \o q) = Len(w) + Len(q)
        /\ \A i \in 1..(Len(w) + Len(q)) : (w \o q)[i] = IF i <= Len(w) THEN w[i] ELSE q[i - Len(w)]
    BY <1>2, <2>3, ConcatProperties
  <2>5. e = w \o q
    BY <1>3, <1>4 DEF q
  <2>6. \A i \in 1..(2 + l) : e[i] = w[i]
    <3> SUFFICES ASSUME NEW i \in 1..(2 + l) PROVE e[i] = w[i]
      OBVIOUS
    <3>1. i \in 1..(Len(w) + Len(q)) /\ i <= Len(w)
      BY <1>2, <2>3
    <3> QED
      BY <2>4, <2>5, <3>1
  <2>7. e[(2 + l) + 1] = qoss[k]
    <3>1. (2 + l) + 1 \in 1..(Len(w) + Len(q)) /\ ~((2 + l) + 1 <= Len(w))
          /\ ((2 + l) + 1) - Len(w) = 1
      BY <1>2, <2>3
    <3> QED
      BY <2>3, <2>4, <2>5, <3>1
  <2>8. Len(e) = (2 + l) + extra
    BY <1>2, <1>4, <2>3, <2>4, <2>5
  <2> QED
    BY <1>2, <2>4, <2>5, <2>6, <2>7, <2>8 DEF e, w, l
<1>5. CASE extra = 0
  <2>1. e = w /\ Len(e) = (2 + l) + extra /\ extra # 1
    BY <1>2, <1>3, <1>5
  <2> QED
    BY <1>2, <2>1 DEF e, w, l
<1> QED
  BY <1>4, <1>5

\* The entries of a list are in flat at these offsets, and nothing else is.
EntriesAt(flat, filters, qoss, extra, at) ==
  /\ Offsets(filters, extra, at) /\ Len(flat) = at[Len(filters)]
  /\ \A k \in 1..Len(filters) :
       /\ \A i \in 1..(2 + Len(Said(filters[k]))) :
            flat[at[k - 1] + i] = WriteMQTTString(filters[k])[i]
       /\ extra = 1 => flat[at[k]] = qoss[k]

\* Where the entries are, and that the length announced is theirs.
LEMMA ListWritten ==
  ASSUME NEW id \in Number, NEW filters, NEW qoss, NEW extra \in 0..1, Lists(filters, qoss, extra)
  PROVE  LET body == ListBody(id, filters, qoss, extra)
             flat == FlattenSeq(Entries(filters, qoss, extra))
         IN  /\ body \in Seq(Byte) /\ flat \in Seq(Byte) /\ body = WriteInt(id) \o flat
             /\ Len(body) = 2 + SumOfLengths(filters) + (IF extra = 1 THEN Len(filters) ELSE 0)
             /\ Len(body) = 2 + Len(flat)
             /\ \E at : EntriesAt(flat, filters, qoss, extra, at)
<1> DEFINE n == Len(filters)
           seqs == Entries(filters, qoss, extra)
           flat == FlattenSeq(seqs)
           body == ListBody(id, filters, qoss, extra)
<1>1. n \in Nat /\ DOMAIN filters = 1..n
  BY LenProperties DEF Lists
<1>2. seqs \in Seq(Seq(Byte)) /\ Len(seqs) = n
  <2>1. seqs = [k \in 1..n |-> seqs[k]]
    BY <1>1 DEF Entries
  <2>2. \A k \in 1..n : seqs[k] \in Seq(Byte)
    BY EntryWritten
  <2> HIDE DEF seqs, n
  <2>3. seqs \in [1..n -> Seq(Byte)]
    BY <2>1, <2>2
  <2> QED
    BY <1>1, <2>3
<1>3. /\ flat \in Seq(Byte)
      /\ \E at \in [0..Len(seqs) -> Nat] :
           /\ at[0] = 0
           /\ \A k \in 1..Len(seqs) :
                /\ at[k] = at[k - 1] + Len(seqs[k])
                /\ \A i \in 1..Len(seqs[k]) : flat[at[k - 1] + i] = seqs[k][i]
           /\ Len(flat) = at[Len(seqs)]
  BY <1>2, Flattened DEF Layout
<1> HIDE DEF flat
<1>4. PICK at \in [0..n -> Nat] :
           /\ at[0] = 0
           /\ \A k \in 1..n :
                /\ at[k] = at[k - 1] + Len(seqs[k])
                /\ \A i \in 1..Len(seqs[k]) : flat[at[k - 1] + i] = seqs[k][i]
           /\ Len(flat) = at[n]
  BY <1>2, <1>3
<1> HIDE DEF seqs
<1>5. ASSUME NEW k \in 1..n
      PROVE  LET l == Len(Said(filters[k]))
             IN  /\ at[k] = at[k - 1] + (2 + l) + extra
                 /\ \A i \in 1..(2 + l) : flat[at[k - 1] + i] = WriteMQTTString(filters[k])[i]
                 /\ extra = 1 => flat[at[k]] = qoss[k]
  <2> DEFINE l == Len(Said(filters[k]))
             a == at[k - 1]
  <2>1. /\ l \in Nat /\ Len(seqs[k]) = (2 + l) + extra
        /\ \A i \in 1..(2 + l) : seqs[k][i] = WriteMQTTString(filters[k])[i]
        /\ extra = 1 => seqs[k][(2 + l) + 1] = qoss[k]
    BY EntryWritten DEF seqs
  <2>2. a \in Nat /\ at[k] = a + Len(seqs[k])
    BY <1>1, <1>4
  <2> HIDE DEF l
  <2>3. at[k] = a + (2 + l) + extra
    <3> HIDE DEF a
    <3> QED
      BY <2>1, <2>2
  <2>4. ASSUME NEW i \in 1..(2 + l) PROVE flat[a + i] = WriteMQTTString(filters[k])[i]
    <3>1. i \in 1..Len(seqs[k])
      BY <2>1
    <3> QED
      BY <1>4, <2>1, <3>1
  <2>5. ASSUME extra = 1 PROVE flat[at[k]] = qoss[k]
    <3>1. (2 + l) + 1 \in 1..Len(seqs[k]) /\ a + ((2 + l) + 1) = at[k]
      <4> HIDE DEF a
      <4> QED
        BY <2>1, <2>2, <2>3, <2>5
    <3>2. flat[a + ((2 + l) + 1)] = seqs[k][(2 + l) + 1]
      BY <1>4, <3>1
    <3> QED
      BY <2>1, <2>5, <3>1, <3>2
  <2> QED
    BY <2>3, <2>4, <2>5 DEF l
<1>6. Offsets(filters, extra, at)
  BY <1>4, <1>5 DEF Offsets
<1>7. body = WriteInt(id) \o flat
  BY DEF ListBody, flat, seqs
<1>8. body \in Seq(Byte) /\ Len(body) = 2 + Len(flat) /\ Len(flat) = at[n] /\ at[n] \in Nat
  <2>1. WriteInt(id) \in Seq(Byte) /\ Len(WriteInt(id)) = 2
    BY IntWritten
  <2>2. n \in 0..n
    BY <1>1
  <2> HIDE DEF body, n
  <2> QED
    <3> DEFINE w == WriteInt(id)
    <3>1. w \in Seq(Byte) /\ Len(w) = 2 /\ body = w \o flat
      BY <1>7, <2>1
    <3> HIDE DEF w
    <3>2. w \o flat \in Seq(Byte) /\ Len(w \o flat) = Len(w) + Len(flat)
      BY <1>3, <3>1, ConcatProperties
    <3> QED
      BY <1>4, <2>2, <3>1, <3>2
<1>9. SumOfLengths(filters) + (IF extra = 1 THEN n ELSE 0) = at[n]
    /\ SumOfLengths(filters) \in Int
  BY <1>6, SumIsTheEnd DEF Lists
<1>10. Len(body) = 2 + at[n]
  BY <1>8
<1>11. Len(body) = 2 + SumOfLengths(filters) + (IF extra = 1 THEN n ELSE 0)
  <2> DEFINE s == SumOfLengths(filters)
             x == IF extra = 1 THEN n ELSE 0
  <2>1. s + x = at[n]
    BY <1>9
  <2>2. Len(body) = 2 + s + x
    <3>1. s \in Int /\ x \in Nat /\ Len(body) = 2 + at[n]
      BY <1>1, <1>8, <1>9
    <3> HIDE DEF s, x, body, n
    <3> QED
      BY <2>1, <3>1
  <2> QED
    BY <2>2 DEF s, x
<1> HIDE DEF body, n
<1>12. EntriesAt(flat, filters, qoss, extra, at)
  BY <1>5, <1>6, <1>8 DEF EntriesAt, n
<1> QED
  BY <1>3, <1>7, <1>8, <1>11, <1>12 DEF body, n, flat, seqs

\* The identifier and the list are read as they were written.
LEMMA ListRead ==
  ASSUME NEW id \in Number, NEW filters, NEW qoss, NEW extra \in 0..1, Lists(filters, qoss, extra),
         NEW b, NEW h, Carries(b, h, ListBody(id, filters, qoss, extra))
  PROVE  /\ ReadInt(b, Start(b)) = id
         /\ FiltersFrom(b, Start(b) + 2, extra) = ListHeard(filters, qoss, extra)
<1> DEFINE n == Len(filters)
           body == ListBody(id, filters, qoss, extra)
           flat == FlattenSeq(Entries(filters, qoss, extra))
           s == Start(b)
<1>1. /\ flat \in Seq(Byte) /\ body = WriteInt(id) \o flat /\ Len(body) = 2 + Len(flat)
      /\ \E at : EntriesAt(flat, filters, qoss, extra, at)
  BY ListWritten
<1> HIDE DEF flat, body
<1>0. PICK at : EntriesAt(flat, filters, qoss, extra, at)
  BY <1>1
<1>2. /\ Offsets(filters, extra, at) /\ Len(flat) = at[n] /\ Len(body) = 2 + at[n]
      /\ \A k \in 1..n :
           /\ \A i \in 1..(2 + Len(Said(filters[k]))) :
                flat[at[k - 1] + i] = WriteMQTTString(filters[k])[i]
           /\ extra = 1 => flat[at[k]] = qoss[k]
  BY <1>0, <1>1 DEF EntriesAt
<1>3. /\ b \in Seq(Byte) /\ s \in Nat /\ End(b) = s + Len(body) /\ End(b) = Len(b) + 1
      /\ Holds(b, s, body)
  BY DEF Carries, body
<1>4. Holds(b, s, WriteInt(id)) /\ Holds(b, s + 2, flat)
  <2>1. WriteInt(id) \in Seq(Byte) /\ Len(WriteInt(id)) = 2
    BY IntWritten
  <2> HIDE DEF s
  <2> QED
    BY <1>1, <1>3, <2>1, HoldsBoth
<1>5. ReadInt(b, s) = id
  BY <1>3, <1>4, IntRead
<1>6. n \in Nat /\ at \in [0..n -> Nat] /\ \A k \in 0..n : at[k] \in Nat
  BY <1>2, LenProperties DEF Lists, Offsets
<1>7. \A k \in 1..n : /\ filters[k] \in MQTTString /\ Len(Said(filters[k])) \in Nat
                      /\ Len(WriteMQTTString(filters[k])) = 2 + Len(Said(filters[k]))
                      /\ at[k] = at[k - 1] + (2 + Len(Said(filters[k]))) + extra
  <2> SUFFICES ASSUME NEW k \in 1..n
               PROVE  /\ filters[k] \in MQTTString /\ Len(Said(filters[k])) \in Nat
                      /\ Len(WriteMQTTString(filters[k])) = 2 + Len(Said(filters[k]))
    BY <1>2 DEF Offsets
  <2>1. filters[k] \in MQTTString
    BY ElementOfSeq DEF Lists
  <2> QED
    BY <2>1, StringWritten, LenProperties
<1> HIDE DEF s, n
<1>8. \A k \in 0..n : at[k] <= at[n]
  <2>1. ASSUME NEW k \in 1..n PROVE at[k - 1] <= at[k]
    <3> DEFINE a == at[k - 1]
               l == Len(Said(filters[k]))
    <3>1. k - 1 \in 0..n
      BY <1>6
    <3>2. a \in Nat /\ l \in Nat /\ at[k] = a + (2 + l) + extra
      BY <1>6, <1>7, <3>1
    <3> HIDE DEF a, l
    <3>3. a <= at[k]
      BY <3>2
    <3> QED
      BY <3>3 DEF a
  <2> QED
    BY <1>6, <2>1, LastIsHighest
<1>9. ASSUME NEW k \in 1..n
      PROVE  /\ Holds(b, (s + 2) + at[k - 1], WriteMQTTString(filters[k]))
             /\ extra = 1 => b[(s + 2) + at[k] - 1] = qoss[k]
  <2> DEFINE a == at[k - 1]
             c == at[k]
             l == Len(Said(filters[k]))
  <2>1. k - 1 \in 0..n /\ k \in 0..n
    BY <1>6
  <2>2. a \in Nat /\ c \in Nat /\ l \in Nat /\ c = a + (2 + l) + extra /\ c <= Len(flat)
        /\ Len(flat) \in Nat /\ Len(WriteMQTTString(filters[k])) = 2 + l
    <3>1. a \in Nat /\ c \in Nat /\ c <= at[n]
      BY <1>6, <1>8, <2>1
    <3>2. l \in Nat /\ c = a + (2 + l) + extra /\ Len(WriteMQTTString(filters[k])) = 2 + l
      BY <1>7
    <3>3. Len(flat) = at[n] /\ Len(flat) \in Nat
      BY <1>1, <1>2, LenProperties DEF n
    <3> HIDE DEF a, c, l
    <3> QED
      BY <3>1, <3>2, <3>3
  <2>3. /\ \A i \in 1..(2 + l) : flat[a + i] = WriteMQTTString(filters[k])[i]
        /\ extra = 1 => flat[c] = qoss[k]
    BY <1>2
  <2>4. \A i \in 1..Len(flat) : b[(s + 2) + i - 1] = flat[i]
    BY <1>4 DEF Holds
  <2> HIDE DEF a, c, l
  <2>5. ASSUME NEW i \in 1..(2 + l) PROVE b[((s + 2) + a) + i - 1] = WriteMQTTString(filters[k])[i]
    <3>1. a + i \in 1..Len(flat) /\ (s + 2) + (a + i) - 1 = ((s + 2) + a) + i - 1
      BY <1>3, <2>2
    <3> QED
      BY <2>3, <2>4, <3>1
  <2>6. ASSUME extra = 1 PROVE b[(s + 2) + c - 1] = qoss[k]
    <3>1. c \in 1..Len(flat)
      BY <2>2
    <3> QED
      BY <2>3, <2>4, <2>6, <3>1
  <2> QED
    BY <2>2, <2>5, <2>6 DEF Holds, a, c
<1>10. End(b) = (s + 2) + at[n] /\ s + 2 \in Nat /\ s + 2 > 0
  <2>1. at[n] \in Nat
    BY <1>6
  <2> DEFINE z == at[n]
  <2>2. z \in Nat /\ End(b) = s + (2 + z) /\ s \in Nat
    BY <1>2, <1>3, <2>1 DEF n
  <2> HIDE DEF z
  <2>3. End(b) = (s + 2) + z /\ s + 2 \in Nat /\ s + 2 > 0
    BY <2>2
  <2> QED
    BY <2>3 DEF z
<1>11. ListAt(b, s + 2, filters, qoss, extra, at)
  BY <1>2, <1>3, <1>9, <1>10 DEF ListAt, Lists, n
<1>12. FiltersFrom(b, s + 2, extra) = ListHeard(filters, qoss, extra)
  BY <1>11, FiltersRead
<1> QED
  BY <1>5, <1>12 DEF s

SubscribeBody(id, filters, qoss) == ListBody(id, filters, qoss, 1)
UnsubscribeBody(id, filters) == ListBody(id, filters, << >>, 0)

\* MQTTSerialize_subscribeLength is the length of what MQTTSerialize_subscribe then writes.
LEMMA SubscribeWritten ==
  ASSUME NEW id \in Number, NEW filters \in Seq(MQTTString), NEW qoss \in Seq(0..2),
         Len(qoss) = Len(filters)
  PROVE  LET body == SubscribeBody(id, filters, qoss)
         IN  /\ body \in Seq(Byte) /\ Len(body) = MQTTSerialize_subscribeLength(filters)
             /\ \A n, dup : MQTTSerialize_subscribe(n, dup, id, filters, qoss)
                  = PacketWithin(n, MQTTPacket_len(Len(body)),
                                 HeaderByte(PacketType.SUBSCRIBE, dup, 1, 0), Len(body), body)
<1> DEFINE body == SubscribeBody(id, filters, qoss)
<1>1. Lists(filters, qoss, 1) /\ 1 \in 0..1
  BY DEF Lists
<1>2. body \in Seq(Byte) /\ Len(body) = 2 + SumOfLengths(filters) + Len(filters)
  BY <1>1, ListWritten DEF SubscribeBody
<1>3. body = WriteInt(id) \o FlattenSeq([i \in DOMAIN filters |->
                                           WriteMQTTString(filters[i]) \o <<qoss[i]>>])
  <2>1. Entries(filters, qoss, 1) = [i \in DOMAIN filters |->
                                       WriteMQTTString(filters[i]) \o <<qoss[i]>>]
    BY DEF Entries
  <2> QED
    BY <2>1 DEF SubscribeBody, ListBody
<1> HIDE DEF body
<1>4. Len(body) = MQTTSerialize_subscribeLength(filters)
  BY <1>2 DEF MQTTSerialize_subscribeLength
<1>5. ASSUME NEW n, NEW dup
      PROVE  MQTTSerialize_subscribe(n, dup, id, filters, qoss)
               = PacketWithin(n, MQTTPacket_len(Len(body)),
                              HeaderByte(PacketType.SUBSCRIBE, dup, 1, 0), Len(body), body)
  BY <1>3, <1>4 DEF MQTTSerialize_subscribe
<1> QED
  BY <1>2, <1>4, <1>5 DEF body

\* MQTTSerialize_unsubscribeLength is the length of what MQTTSerialize_unsubscribe then writes.
LEMMA UnsubscribeWritten ==
  ASSUME NEW id \in Number, NEW filters \in Seq(MQTTString)
  PROVE  LET body == UnsubscribeBody(id, filters)
         IN  /\ body \in Seq(Byte) /\ Len(body) = MQTTSerialize_unsubscribeLength(filters)
             /\ \A n, dup : MQTTSerialize_unsubscribe(n, dup, id, filters)
                  = PacketWithin(n, MQTTPacket_len(Len(body)),
                                 HeaderByte(PacketType.UNSUBSCRIBE, dup, 1, 0), Len(body), body)
<1> DEFINE body == UnsubscribeBody(id, filters)
<1>1. Lists(filters, << >>, 0) /\ 0 \in 0..1 /\ 0 # 1
  BY DEF Lists
<1>2. body \in Seq(Byte) /\ Len(body) = 2 + SumOfLengths(filters) + 0
  BY <1>1, ListWritten DEF UnsubscribeBody
<1>3. body = WriteInt(id) \o FlattenSeq([i \in DOMAIN filters |-> WriteMQTTString(filters[i])])
  <2>1. Entries(filters, << >>, 0) = [i \in DOMAIN filters |-> WriteMQTTString(filters[i])]
    BY <1>1 DEF Entries
  <2> QED
    BY <2>1 DEF UnsubscribeBody, ListBody
<1> HIDE DEF body
<1>4. Len(body) = MQTTSerialize_unsubscribeLength(filters)
  <2>1. \E at : Offsets(filters, 0, at)
    BY <1>1, ListWritten DEF EntriesAt
  <2>2. SumOfLengths(filters) \in Int
    BY <1>1, <2>1, SumIsTheEnd
  <2> QED
    BY <1>2, <2>2 DEF MQTTSerialize_unsubscribeLength
<1>5. ASSUME NEW n, NEW dup
      PROVE  MQTTSerialize_unsubscribe(n, dup, id, filters)
               = PacketWithin(n, MQTTPacket_len(Len(body)),
                              HeaderByte(PacketType.UNSUBSCRIBE, dup, 1, 0), Len(body), body)
  BY <1>3, <1>4 DEF MQTTSerialize_unsubscribe
<1> QED
  BY <1>2, <1>4, <1>5 DEF body

\* MQTTDeserialize_subscribe gives back every filter with its QoS, in order.
LEMMA SubscribeRead ==
  ASSUME NEW b, NEW dup \in 0..1, NEW id \in Number, NEW filters \in Seq(MQTTString),
         NEW qoss \in Seq(0..2), Len(qoss) = Len(filters),
         Carries(b, HeaderByte(PacketType.SUBSCRIBE, dup, 1, 0), SubscribeBody(id, filters, qoss))
  PROVE  MQTTDeserialize_subscribe(b) =
           [rc |-> 1, dup |-> dup, id |-> id, filters |-> AllRead(filters), qoss |-> qoss]
<1>1. HasType(b, PacketType.SUBSCRIBE) /\ Bits(b[1], 8, 2) = dup
  BY TypeNumbers, HeaderRead
<1>2. /\ ReadInt(b, Start(b)) = id
      /\ FiltersFrom(b, Start(b) + 2, 1) = [rc |-> 1, filters |-> AllRead(filters), qoss |-> qoss]
  <2>1. Lists(filters, qoss, 1) /\ 1 \in 0..1
    BY DEF Lists
  <2> QED
    <3>1. Carries(b, HeaderByte(PacketType.SUBSCRIBE, dup, 1, 0), ListBody(id, filters, qoss, 1))
      BY DEF SubscribeBody
    <3>2. /\ ReadInt(b, Start(b)) = id
          /\ FiltersFrom(b, Start(b) + 2, 1) = ListHeard(filters, qoss, 1)
      BY <2>1, <3>1, ListRead
    <3> QED
      BY <3>2 DEF ListHeard
<1> QED
  BY <1>1, <1>2 DEF MQTTDeserialize_subscribe

\* MQTTDeserialize_unsubscribe gives back every filter, in order.
LEMMA UnsubscribeRead ==
  ASSUME NEW b, NEW dup \in 0..1, NEW id \in Number, NEW filters \in Seq(MQTTString),
         Carries(b, HeaderByte(PacketType.UNSUBSCRIBE, dup, 1, 0), UnsubscribeBody(id, filters))
  PROVE  MQTTDeserialize_unsubscribe(b) =
           [rc |-> 1, dup |-> dup, id |-> id, filters |-> AllRead(filters)]
<1>1. HasType(b, PacketType.UNSUBSCRIBE) /\ Bits(b[1], 8, 2) = dup
  BY TypeNumbers, HeaderRead
<1>2. /\ ReadInt(b, Start(b)) = id
      /\ FiltersFrom(b, Start(b) + 2, 0) =
           [rc |-> 1, filters |-> AllRead(filters), qoss |-> << >>]
  <2>1. Lists(filters, << >>, 0) /\ 0 \in 0..1 /\ 0 # 1
    BY DEF Lists
  <2> QED
    <3>1. Carries(b, HeaderByte(PacketType.UNSUBSCRIBE, dup, 1, 0), ListBody(id, filters, << >>, 0))
      BY DEF UnsubscribeBody
    <3>2. /\ ReadInt(b, Start(b)) = id
          /\ FiltersFrom(b, Start(b) + 2, 0) = ListHeard(filters, << >>, 0)
      BY <2>1, <3>1, ListRead
    <3> QED
      BY <2>1, <3>2 DEF ListHeard
<1> QED
  BY <1>1, <1>2 DEF MQTTDeserialize_unsubscribe

-----------------------------------------------------------------------------
(* CONNECT *)

\* The flags of a CONNECT do not run into each other.
LEMMA FlagsRoundTrip ==
  ASSUME NEW c \in 0..1, NEW w \in 0..1, NEW q \in 0..2, NEW r \in 0..1, NEW p \in 0..1,
         NEW u \in 0..1
  PROVE  LET f == 2 * c + (IF w = 1 THEN 4 + 8 * q + 32 * r ELSE 0) + 64 * p + 128 * u
         IN  /\ f \in Byte /\ Bits(f, 2, 2) = c /\ Bits(f, 4, 2) = w
             /\ w = 1 => Bits(f, 8, 4) = q /\ Bits(f, 32, 2) = r
             /\ Bits(f, 64, 2) = p /\ Bits(f, 128, 2) = u
BY SMTT(60) DEF Bits, Byte

Connects == {o \in ConnectOptions : o.willFlag = 1 => o.will # NULL}

\* What follows the remaining length of a CONNECT, part by part.
Protocol(o) == LenString(ProtocolName(o.MQTTVersion))
Level(o) == <<IF o.MQTTVersion = 4 THEN 4 ELSE 3, ConnectFlags(o)>>
Topic(o) == IF o.willFlag = 1 THEN WriteMQTTString(o.will.topicName) ELSE << >>
Message(o) == IF o.willFlag = 1 THEN WriteMQTTString(o.will.message) ELSE << >>
Optional(m) == IF IsSet(m) THEN WriteMQTTString(m) ELSE << >>
ConnectFixed(o) == WriteMQTTString(Protocol(o)) \o Level(o) \o WriteInt(o.keepAliveInterval)
ConnectBody(o) ==
  ConnectFixed(o) \o WriteMQTTString(o.clientID) \o Topic(o) \o Message(o)
  \o Optional(o.username) \o Optional(o.password)

\* The types of the options of a CONNECT.
LEMMA ConnectTypes ==
  ASSUME NEW o \in Connects
  PROVE  /\ o.MQTTVersion \in {3, 4} /\ o.cleansession \in 0..1 /\ o.keepAliveInterval \in Number
         /\ o.clientID \in MQTTString /\ o.willFlag \in 0..1
         /\ o.username \in MQTTString /\ o.password \in MQTTString
         /\ o.willFlag = 1 => /\ o.will.qos \in 0..2 /\ o.will.retained \in 0..1
                              /\ o.will.topicName \in MQTTString /\ o.will.message \in MQTTString
BY DEF Connects, ConnectOptions, Wills, Flag

\* The name of a protocol is written as the string it is.
LEMMA ProtocolIsString ==
  ASSUME NEW v \in {3, 4}
  PROVE  LET n == ProtocolName(v)
         IN  /\ n \in Seq(Byte) /\ Len(n) = (IF v = 4 THEN 4 ELSE 6)
             /\ LenString(n) \in MQTTString /\ Said(LenString(n)) = n
             /\ WriteMQTTString(LenString(n)) = WriteInt(Len(n)) \o n
<1> DEFINE n == ProtocolName(v)
<1>1. n \in Seq(Byte) /\ Len(n) = (IF v = 4 THEN 4 ELSE 6)
  <2>1. \A c \in {77, 81, 84, 73, 115, 100, 112} : c \in Byte
    BY DEF Byte
  <2>2. <<77, 81, 84, 84>> \in Seq(Byte) /\ <<77, 81, 73, 115, 100, 112>> \in Seq(Byte)
    BY <2>1
  <2> QED
    BY <2>2 DEF ProtocolName
<1> HIDE DEF n
<1>2. NULL # n
  BY <1>1, NullAssumption
<1>3. n \in ByteString
  <2>1. 4 \in Number /\ 6 \in Number
    BY SMT DEF Number
  <2> QED
    BY <1>1, <2>1 DEF ByteString
<1>4. LenString(n) \in MQTTString
  BY <1>3 DEF LenString, MQTTString
<1>5. LenString(n).cstring = NULL /\ LenString(n).lenstring = n
  BY DEF LenString
<1>6. Said(LenString(n)) = n
  BY <1>2, <1>5 DEF Said
<1>7. n # << >>
  BY <1>1
<1>8. WriteMQTTString(LenString(n)) = WriteInt(Len(n)) \o n
  BY <1>2, <1>5, <1>7 DEF WriteMQTTString
<1> QED
  BY <1>1, <1>4, <1>6, <1>8 DEF n

\* How long the parts are.
Strings(o) == 2 + Len(Said(o.clientID))
TopicLen(o) == IF o.willFlag = 1 THEN 2 + Len(Said(o.will.topicName)) ELSE 0
MessageLen(o) == IF o.willFlag = 1 THEN 2 + Len(Said(o.will.message)) ELSE 0
OptionalLen(m) == IF IsSet(m) THEN 2 + Len(Said(m)) ELSE 0
ProtocolLen(o) == IF o.MQTTVersion = 4 THEN 4 ELSE 6

\* Each part of a CONNECT is bytes, as many as its length says.
LEMMA ConnectParts ==
  ASSUME NEW o \in Connects
  PROVE  /\ WriteMQTTString(Protocol(o)) \in Seq(Byte)
         /\ Len(WriteMQTTString(Protocol(o))) = 2 + ProtocolLen(o) /\ ProtocolLen(o) \in Nat
         /\ Level(o) \in Seq(Byte) /\ Len(Level(o)) = 2
         /\ WriteInt(o.keepAliveInterval) \in Seq(Byte) /\ Len(WriteInt(o.keepAliveInterval)) = 2
         /\ WriteMQTTString(o.clientID) \in Seq(Byte)
         /\ Len(WriteMQTTString(o.clientID)) = Strings(o) /\ Strings(o) \in Nat
         /\ Topic(o) \in Seq(Byte) /\ Len(Topic(o)) = TopicLen(o) /\ TopicLen(o) \in Nat
         /\ Message(o) \in Seq(Byte) /\ Len(Message(o)) = MessageLen(o) /\ MessageLen(o) \in Nat
         /\ \A m \in {o.username, o.password} :
              /\ Optional(m) \in Seq(Byte) /\ Len(Optional(m)) = OptionalLen(m)
              /\ OptionalLen(m) \in Nat
<1>1. /\ o.MQTTVersion \in {3, 4} /\ o.keepAliveInterval \in Number /\ o.clientID \in MQTTString
      /\ o.username \in MQTTString /\ o.password \in MQTTString
      /\ o.willFlag = 1 => o.will.topicName \in MQTTString /\ o.will.message \in MQTTString
  BY ConnectTypes
<1>2. ASSUME NEW m \in MQTTString
      PROVE  /\ WriteMQTTString(m) \in Seq(Byte) /\ Len(WriteMQTTString(m)) = 2 + Len(Said(m))
             /\ 2 + Len(Said(m)) \in Nat
  <2>1. Said(m) \in Seq(Byte)
    BY StringWritten
  <2>2. Len(Said(m)) \in Nat
    BY <2>1, LenProperties
  <2> QED
    BY <2>2, StringWritten
<1>3. << >> \in Seq(Byte) /\ Len(<< >>) = 0
  BY EmptySeq
<1>4. /\ WriteMQTTString(Protocol(o)) \in Seq(Byte)
      /\ Len(WriteMQTTString(Protocol(o))) = 2 + ProtocolLen(o) /\ ProtocolLen(o) \in Nat
  <2>1. /\ Protocol(o) \in MQTTString /\ Said(Protocol(o)) = ProtocolName(o.MQTTVersion)
        /\ Len(ProtocolName(o.MQTTVersion)) = ProtocolLen(o)
    BY <1>1, ProtocolIsString DEF Protocol, ProtocolLen
  <2> QED
    BY <1>2, <2>1 DEF ProtocolLen
<1>5. Level(o) \in Seq(Byte) /\ Len(Level(o)) = 2
  <2>1. ConnectFlags(o) \in Byte
    <3>1. /\ o.cleansession \in 0..1 /\ o.willFlag \in 0..1
          /\ o.willFlag = 1 => o.will.qos \in 0..2 /\ o.will.retained \in 0..1
      BY ConnectTypes
    <3>2. Bit(IsSet(o.password)) \in 0..1 /\ Bit(IsSet(o.username)) \in 0..1
      BY DEF Bit
    <3>3. CASE o.willFlag = 1
      BY <3>1, <3>2, <3>3, FlagsRoundTrip DEF ConnectFlags
    <3>4. CASE o.willFlag # 1
      <4>1. 0 \in 0..2 /\ 0 \in 0..1
        OBVIOUS
      <4> QED
        BY <3>1, <3>2, <3>4, <4>1, FlagsRoundTrip DEF ConnectFlags
    <3> QED
      BY <3>3, <3>4
  <2>2. 4 \in Byte /\ 3 \in Byte
    BY DEF Byte
  <2> QED
    BY <2>1, <2>2 DEF Level
<1>6. WriteInt(o.keepAliveInterval) \in Seq(Byte) /\ Len(WriteInt(o.keepAliveInterval)) = 2
  BY <1>1, IntWritten
<1>7. /\ WriteMQTTString(o.clientID) \in Seq(Byte)
      /\ Len(WriteMQTTString(o.clientID)) = Strings(o) /\ Strings(o) \in Nat
  BY <1>1, <1>2 DEF Strings
<1>8. Topic(o) \in Seq(Byte) /\ Len(Topic(o)) = TopicLen(o) /\ TopicLen(o) \in Nat
  BY <1>1, <1>2, <1>3 DEF Topic, TopicLen
<1>9. Message(o) \in Seq(Byte) /\ Len(Message(o)) = MessageLen(o) /\ MessageLen(o) \in Nat
  BY <1>1, <1>2, <1>3 DEF Message, MessageLen
<1>10. ASSUME NEW m \in {o.username, o.password}
       PROVE  /\ Optional(m) \in Seq(Byte) /\ Len(Optional(m)) = OptionalLen(m)
              /\ OptionalLen(m) \in Nat
  <2>1. m \in MQTTString
    BY <1>1
  <2> QED
    BY <1>2, <1>3, <2>1 DEF Optional, OptionalLen
<1> QED
  BY <1>4, <1>5, <1>6, <1>7, <1>8, <1>9, <1>10

\* Where the parts are in what holds them all.
Place(o) == 2 + ProtocolLen(o)
PlaceOfClient(o) == Place(o) + 2 + 2
PlaceOfTopic(o) == PlaceOfClient(o) + Strings(o)
PlaceOfMessage(o) == PlaceOfTopic(o) + TopicLen(o)
PlaceOfUser(o) == PlaceOfMessage(o) + MessageLen(o)
PlaceOfPassword(o) == PlaceOfUser(o) + OptionalLen(o.username)
ConnectEnd(o) == PlaceOfPassword(o) + OptionalLen(o.password)

\* The parts follow each other without a gap.
LEMMA ConnectPlaces ==
  ASSUME NEW o \in Connects
  PROVE  /\ ConnectBody(o) \in Seq(Byte) /\ Len(ConnectBody(o)) = ConnectEnd(o)
         /\ ConnectEnd(o) \in Nat
         /\ \A b, s : s \in Nat /\ Holds(b, s, ConnectBody(o)) =>
              /\ Holds(b, s, WriteMQTTString(Protocol(o))) /\ Holds(b, s + Place(o), Level(o))
              /\ Holds(b, s + (Place(o) + 2), WriteInt(o.keepAliveInterval))
              /\ Holds(b, s + PlaceOfClient(o), WriteMQTTString(o.clientID))
              /\ Holds(b, s + PlaceOfTopic(o), Topic(o))
              /\ Holds(b, s + PlaceOfMessage(o), Message(o))
              /\ Holds(b, s + PlaceOfUser(o), Optional(o.username))
              /\ Holds(b, s + PlaceOfPassword(o), Optional(o.password))
<1> DEFINE a1 == WriteMQTTString(Protocol(o))
           a2 == Level(o)
           a3 == WriteInt(o.keepAliveInterval)
           a4 == WriteMQTTString(o.clientID)
           a5 == Topic(o)
           a6 == Message(o)
           a7 == Optional(o.username)
           a8 == Optional(o.password)
           x2 == a1 \o a2
           x3 == x2 \o a3
           x4 == x3 \o a4
           x5 == x4 \o a5
           x6 == x5 \o a6
           x7 == x6 \o a7
           x8 == x7 \o a8
<1>1. /\ a1 \in Seq(Byte) /\ a2 \in Seq(Byte) /\ a3 \in Seq(Byte) /\ a4 \in Seq(Byte)
      /\ a5 \in Seq(Byte) /\ a6 \in Seq(Byte) /\ a7 \in Seq(Byte) /\ a8 \in Seq(Byte)
      /\ Len(a1) = Place(o) /\ Len(a2) = 2 /\ Len(a3) = 2 /\ Len(a4) = Strings(o)
      /\ Len(a5) = TopicLen(o) /\ Len(a6) = MessageLen(o) /\ Len(a7) = OptionalLen(o.username)
      /\ Len(a8) = OptionalLen(o.password)
      /\ Place(o) \in Nat /\ Strings(o) \in Nat /\ TopicLen(o) \in Nat /\ MessageLen(o) \in Nat
      /\ OptionalLen(o.username) \in Nat /\ OptionalLen(o.password) \in Nat
  BY ConnectParts DEF Place
<1>2. ConnectBody(o) = x8
  BY DEF ConnectBody, ConnectFixed
<1> HIDE DEF a1, a2, a3, a4, a5, a6, a7, a8
<1>3. x2 \in Seq(Byte) /\ Len(x2) = Place(o) + 2 /\ Place(o) + 2 \in Nat
  <2>1. 2 \in Nat
    OBVIOUS
  <2> QED
    BY <1>1, <2>1, Joined
<1>4. x3 \in Seq(Byte) /\ Len(x3) = PlaceOfClient(o) /\ PlaceOfClient(o) \in Nat
  <2> HIDE DEF x2
  <2> QED
    <3>1. 2 \in Nat
      OBVIOUS
    <3> QED
      BY <1>1, <1>3, <3>1, Joined DEF PlaceOfClient
<1>5. x4 \in Seq(Byte) /\ Len(x4) = PlaceOfTopic(o) /\ PlaceOfTopic(o) \in Nat
  <2> HIDE DEF x3
  <2> QED
    BY <1>1, <1>4, Joined DEF PlaceOfTopic
<1>6. x5 \in Seq(Byte) /\ Len(x5) = PlaceOfMessage(o) /\ PlaceOfMessage(o) \in Nat
  <2> HIDE DEF x4
  <2> QED
    BY <1>1, <1>5, Joined DEF PlaceOfMessage
<1>7. x6 \in Seq(Byte) /\ Len(x6) = PlaceOfUser(o) /\ PlaceOfUser(o) \in Nat
  <2> HIDE DEF x5
  <2> QED
    BY <1>1, <1>6, Joined DEF PlaceOfUser
<1>8. x7 \in Seq(Byte) /\ Len(x7) = PlaceOfPassword(o) /\ PlaceOfPassword(o) \in Nat
  <2> HIDE DEF x6
  <2> QED
    BY <1>1, <1>7, Joined DEF PlaceOfPassword
<1>9. x8 \in Seq(Byte) /\ Len(x8) = ConnectEnd(o) /\ ConnectEnd(o) \in Nat
  <2> HIDE DEF x7
  <2> QED
    BY <1>1, <1>8, Joined DEF ConnectEnd
<1>10. ASSUME NEW b, NEW s \in Nat, Holds(b, s, x8)
       PROVE  /\ Holds(b, s, a1) /\ Holds(b, s + Place(o), a2) /\ Holds(b, s + (Place(o) + 2), a3)
              /\ Holds(b, s + PlaceOfClient(o), a4) /\ Holds(b, s + PlaceOfTopic(o), a5)
              /\ Holds(b, s + PlaceOfMessage(o), a6) /\ Holds(b, s + PlaceOfUser(o), a7)
              /\ Holds(b, s + PlaceOfPassword(o), a8)
  <2>1. Holds(b, s, x7) /\ Holds(b, s + PlaceOfPassword(o), a8)
    <3> HIDE DEF x7
    <3> QED BY <1>1, <1>8, <1>10, HoldsBoth
  <2>2. Holds(b, s, x6) /\ Holds(b, s + PlaceOfUser(o), a7)
    <3> HIDE DEF x6
    <3> QED BY <1>1, <1>7, <2>1, HoldsBoth
  <2>3. Holds(b, s, x5) /\ Holds(b, s + PlaceOfMessage(o), a6)
    <3> HIDE DEF x5
    <3> QED BY <1>1, <1>6, <2>2, HoldsBoth
  <2>4. Holds(b, s, x4) /\ Holds(b, s + PlaceOfTopic(o), a5)
    <3> HIDE DEF x4
    <3> QED BY <1>1, <1>5, <2>3, HoldsBoth
  <2>5. Holds(b, s, x3) /\ Holds(b, s + PlaceOfClient(o), a4)
    <3> HIDE DEF x3
    <3> QED BY <1>1, <1>4, <2>4, HoldsBoth
  <2>6. Holds(b, s, x2) /\ Holds(b, s + (Place(o) + 2), a3)
    <3> HIDE DEF x2
    <3> QED BY <1>1, <1>3, <2>5, HoldsBoth
  <2>7. Holds(b, s, a1) /\ Holds(b, s + Place(o), a2)
    BY <1>1, <2>6, HoldsBoth
  <2> QED
    BY <2>1, <2>2, <2>3, <2>4, <2>5, <2>6, <2>7
<1> HIDE DEF x8
<1> QED
  BY <1>2, <1>9, <1>10 DEF a1, a2, a3, a4, a5, a6, a7, a8

\* MQTTSerialize_connectLength is the length of what MQTTSerialize_connect then writes.
LEMMA ConnectWritten ==
  ASSUME NEW o \in Connects
  PROVE  LET body == ConnectBody(o)
         IN  /\ body \in Seq(Byte) /\ Len(body) = MQTTSerialize_connectLength(o)
             /\ \A n : MQTTSerialize_connect(n, o)
                  = PacketWithin(n, MQTTPacket_len(Len(body)),
                                 HeaderByte(PacketType.CONNECT, 0, 0, 0), Len(body), body)
<1> DEFINE body == ConnectBody(o)
           name == ProtocolName(o.MQTTVersion)
           x4 == ConnectFixed(o) \o WriteMQTTString(o.clientID)
           will == IF o.willFlag = 1
                   THEN WriteMQTTString(o.will.topicName) \o WriteMQTTString(o.will.message)
                   ELSE << >>
<1>1. /\ o.MQTTVersion \in {3, 4} /\ o.clientID \in MQTTString /\ o.willFlag \in 0..1
      /\ o.username \in MQTTString /\ o.password \in MQTTString
      /\ o.willFlag = 1 => o.will.topicName \in MQTTString /\ o.will.message \in MQTTString
  BY ConnectTypes
<1>2. body \in Seq(Byte) /\ Len(body) = ConnectEnd(o)
  BY ConnectPlaces
<1>3. Len(body) = MQTTSerialize_connectLength(o)
  <2> DEFINE S(m) == Len(Said(m))
             w == IF o.willFlag = 1
                  THEN MQTTstrlen(o.will.topicName) + 2 + MQTTstrlen(o.will.message) + 2 ELSE 0
             u == IF IsSet(o.username) THEN MQTTstrlen(o.username) + 2 ELSE 0
             p == IF IsSet(o.password) THEN MQTTstrlen(o.password) + 2 ELSE 0
             c == MQTTstrlen(o.clientID) + 2
             v == IF o.MQTTVersion = 3 THEN 12 ELSE IF o.MQTTVersion = 4 THEN 10 ELSE 0
  <2>1. \A m \in MQTTString : MQTTstrlen(m) = S(m) /\ S(m) \in Nat
    <3> SUFFICES ASSUME NEW m \in MQTTString PROVE MQTTstrlen(m) = S(m) /\ S(m) \in Nat
      OBVIOUS
    <3>1. Said(m) \in Seq(Byte) /\ MQTTstrlen(m) = S(m)
      BY StringWritten
    <3> QED
      BY <3>1, LenProperties
  <2>2. MQTTSerialize_connectLength(o) = v + c + w + u + p
    <3>1. \A x : x + MQTTstrlen(o.clientID) + 2 = x + MQTTstrlen(o.clientID) + 2
      OBVIOUS
    <3>2. v \in Nat /\ MQTTstrlen(o.clientID) \in Nat
      BY <1>1, <2>1
    <3>3. MQTTSerialize_connectLength(o) = v + MQTTstrlen(o.clientID) + 2 + w + u + p
      BY DEF MQTTSerialize_connectLength
    <3>4. v + MQTTstrlen(o.clientID) + 2 = v + c
      <4> HIDE DEF v
      <4> QED
        BY <3>2
    <3> HIDE DEF v, w, u, p, c
    <3> QED
      BY <3>3, <3>4
  <2>3. c = Strings(o) /\ Strings(o) \in Nat
    <3> HIDE DEF S
    <3>1. S(o.clientID) = Len(Said(o.clientID))
      BY DEF S
    <3> QED
      BY <1>1, <2>1, <3>1 DEF Strings
  <2>4. w = TopicLen(o) + MessageLen(o) /\ TopicLen(o) \in Nat /\ MessageLen(o) \in Nat
    <3>1. CASE o.willFlag = 1
      <4> DEFINE t == o.will.topicName
                 m == o.will.message
      <4>1. /\ TopicLen(o) = 2 + S(t) /\ MessageLen(o) = 2 + S(m)
            /\ w = MQTTstrlen(t) + 2 + MQTTstrlen(m) + 2
        BY <3>1 DEF TopicLen, MessageLen
      <4>2. t \in MQTTString /\ m \in MQTTString
        BY <1>1, <3>1
      <4> HIDE DEF t, m, S, w
      <4>3. MQTTstrlen(t) = S(t) /\ S(t) \in Nat /\ MQTTstrlen(m) = S(m) /\ S(m) \in Nat
        BY <2>1, <4>2
      <4> QED
        BY <4>1, <4>3
    <3>2. CASE o.willFlag # 1
      BY <3>2 DEF TopicLen, MessageLen
    <3> QED
      BY <3>1, <3>2
  <2>5. u = OptionalLen(o.username) /\ p = OptionalLen(o.password)
        /\ OptionalLen(o.username) \in Nat /\ OptionalLen(o.password) \in Nat
    <3>1. ASSUME NEW m \in MQTTString
          PROVE  /\ (IF IsSet(m) THEN MQTTstrlen(m) + 2 ELSE 0) = OptionalLen(m)
                 /\ OptionalLen(m) \in Nat
      <4>1. OptionalLen(m) = IF IsSet(m) THEN 2 + S(m) ELSE 0
        BY DEF OptionalLen
      <4> HIDE DEF S
      <4>2. MQTTstrlen(m) = S(m) /\ S(m) \in Nat
        BY <2>1
      <4> QED
        BY <4>1, <4>2
    <3> QED
      BY <1>1, <3>1
  <2>6. v = ProtocolLen(o) + 6 /\ ProtocolLen(o) \in Nat
    BY <1>1 DEF ProtocolLen
  <2> HIDE DEF v, c, w, u, p
  <2>7. ConnectEnd(o) = v + c + w + u + p
    BY <2>3, <2>4, <2>5, <2>6 DEF ConnectEnd, PlaceOfPassword, PlaceOfUser, PlaceOfMessage,
                                  PlaceOfTopic, PlaceOfClient, Place
  <2> QED
    BY <1>2, <2>2, <2>7
<1>4. WriteMQTTString(Protocol(o)) = WriteInt(Len(name)) \o name
  BY <1>1, ProtocolIsString DEF Protocol
<1>5. (x4 \o Topic(o)) \o Message(o) = x4 \o will
  <2>1. x4 \in Seq(Byte) /\ << >> \in Seq(Byte)
    <3> DEFINE i == WriteInt(o.keepAliveInterval)
               a == WriteMQTTString(Protocol(o))
               c == WriteMQTTString(o.clientID)
    <3>1. a \in Seq(Byte) /\ Level(o) \in Seq(Byte) /\ i \in Seq(Byte) /\ c \in Seq(Byte)
      BY ConnectParts
    <3>2. ConnectFixed(o) = a \o Level(o) \o i
      BY DEF ConnectFixed
    <3> HIDE DEF i, a, c
    <3>3. a \o Level(o) \in Seq(Byte)
      BY <3>1, ConcatProperties
    <3>4. ConnectFixed(o) \in Seq(Byte)
      BY <3>1, <3>2, <3>3, ConcatProperties
    <3>5. ConnectFixed(o) \o c \in Seq(Byte)
      BY <3>1, <3>4, ConcatProperties
    <3> QED
      BY <3>5, EmptySeq DEF c
  <2>2. CASE o.willFlag = 1
    <3> DEFINE t == WriteMQTTString(o.will.topicName)
               m == WriteMQTTString(o.will.message)
    <3>1. t = Topic(o) /\ m = Message(o) /\ t \in Seq(Byte) /\ m \in Seq(Byte) /\ will = t \o m
      BY <2>2, ConnectParts DEF Topic, Message
    <3> HIDE DEF t, m, will, x4
    <3>2. (x4 \o t) \o m = x4 \o (t \o m)
      BY <2>1, <3>1, ConcatAssociative
    <3> QED
      BY <3>1, <3>2
  <2>3. CASE o.willFlag # 1
    <3>1. Topic(o) = << >> /\ Message(o) = << >> /\ will = << >>
      BY <2>3 DEF Topic, Message
    <3> HIDE DEF will, x4
    <3>2. x4 \o << >> = x4
      BY <2>1, ConcatEmptySeq
    <3> QED
      BY <3>1, <3>2
  <2> QED
    BY <2>2, <2>3
<1>6. body = WriteInt(Len(name)) \o name \o Level(o) \o WriteInt(o.keepAliveInterval)
             \o WriteMQTTString(o.clientID) \o will
             \o (IF IsSet(o.username) THEN WriteMQTTString(o.username) ELSE << >>)
             \o (IF IsSet(o.password) THEN WriteMQTTString(o.password) ELSE << >>)
  <2>1. body = ((x4 \o Topic(o)) \o Message(o)) \o Optional(o.username) \o Optional(o.password)
    BY DEF ConnectBody
  <2>2. x4 = WriteInt(Len(name)) \o name \o Level(o) \o WriteInt(o.keepAliveInterval)
             \o WriteMQTTString(o.clientID)
    BY <1>4 DEF ConnectFixed
  <2> HIDE DEF body, x4, will, name
  <2> QED
    BY <1>5, <2>1, <2>2 DEF Optional
<1>7. \A n : MQTTSerialize_connect(n, o)
               = PacketWithin(n, MQTTPacket_len(Len(body)),
                              HeaderByte(PacketType.CONNECT, 0, 0, 0), Len(body), body)
  <2> HIDE DEF body
  <2> QED
    BY <1>3, <1>6 DEF MQTTSerialize_connect, Level
<1> QED
  BY <1>2, <1>3, <1>7

\* What a reader can give back
HeardIf(m) == IF IsSet(m) THEN LenString(Said(m)) ELSE NULL
ConnectHeard(o) ==
  [rc |-> 1, cleansession |-> o.cleansession, keepAliveInterval |-> o.keepAliveInterval,
   clientID |-> LenString(Said(o.clientID)), willFlag |-> o.willFlag,
   will |-> IF o.willFlag = 1
            THEN [qos |-> o.will.qos, retained |-> o.will.retained,
                  topicName |-> LenString(Said(o.will.topicName)),
                  message |-> LenString(Said(o.will.message))]
            ELSE NULL,
   username |-> HeardIf(o.username), password |-> HeardIf(o.password)]

\* The flags say what is there.
LEMMA FlagsRead ==
  ASSUME NEW o \in Connects
  PROVE  LET f == ConnectFlags(o)
         IN  /\ Bits(f, 2, 2) = o.cleansession /\ Bits(f, 4, 2) = o.willFlag
             /\ o.willFlag = 1 => Bits(f, 8, 4) = o.will.qos /\ Bits(f, 32, 2) = o.will.retained
             /\ (Bits(f, 64, 2) = 1) <=> IsSet(o.password)
             /\ (Bits(f, 128, 2) = 1) <=> IsSet(o.username)
<1> DEFINE f == ConnectFlags(o)
           p == Bit(IsSet(o.password))
           u == Bit(IsSet(o.username))
<1>1. /\ o.cleansession \in 0..1 /\ o.willFlag \in 0..1
      /\ o.willFlag = 1 => o.will.qos \in 0..2 /\ o.will.retained \in 0..1
  BY ConnectTypes
<1>2. p \in 0..1 /\ u \in 0..1 /\ (p = 1 <=> IsSet(o.password)) /\ (u = 1 <=> IsSet(o.username))
  BY DEF Bit
<1> HIDE DEF p, u
<1>3. CASE o.willFlag = 1
  <2>1. f = 2 * o.cleansession
            + (IF o.willFlag = 1 THEN 4 + 8 * o.will.qos + 32 * o.will.retained ELSE 0)
            + 64 * p + 128 * u
    BY DEF ConnectFlags, p, u
  <2>2. /\ Bits(f, 2, 2) = o.cleansession /\ Bits(f, 4, 2) = 1
        /\ Bits(f, 8, 4) = o.will.qos /\ Bits(f, 32, 2) = o.will.retained
        /\ Bits(f, 64, 2) = p /\ Bits(f, 128, 2) = u
    <3> DEFINE c == o.cleansession
               w == o.willFlag
               q == o.will.qos
               r == o.will.retained
    <3>1. /\ c \in 0..1 /\ w \in 0..1 /\ q \in 0..2 /\ r \in 0..1 /\ w = 1
          /\ f = 2 * c + (IF w = 1 THEN 4 + 8 * q + 32 * r ELSE 0) + 64 * p + 128 * u
      BY <1>1, <1>3, <2>1
    <3> HIDE DEF f, c, w, q, r
    <3>2. /\ Bits(f, 2, 2) = c /\ Bits(f, 4, 2) = w /\ (w = 1 => Bits(f, 8, 4) = q /\ Bits(f, 32, 2) = r)
          /\ Bits(f, 64, 2) = p /\ Bits(f, 128, 2) = u
      BY <1>2, <3>1, FlagsRoundTrip
    <3> QED
      BY <3>1, <3>2 DEF c, q, r
  <2> QED
    BY <1>2, <1>3, <2>2
<1>4. CASE o.willFlag # 1
  <2>1. /\ f = 2 * o.cleansession + (IF o.willFlag = 1 THEN 4 + 8 * 0 + 32 * 0 ELSE 0)
                + 64 * p + 128 * u
        /\ 0 \in 0..2 /\ 0 \in 0..1 /\ o.willFlag = 0
    BY <1>1, <1>4 DEF ConnectFlags, p, u
  <2>2. /\ Bits(f, 2, 2) = o.cleansession /\ Bits(f, 4, 2) = 0
        /\ Bits(f, 64, 2) = p /\ Bits(f, 128, 2) = u
    <3> HIDE DEF f
    <3> QED
      BY <1>1, <1>2, <1>4, <2>1, FlagsRoundTrip
  <2> QED
    BY <1>2, <1>4, <2>1, <2>2
<1> QED
  BY <1>3, <1>4

\* Where a string ends.
LEMMA StringEnds ==
  ASSUME NEW m \in MQTTString, NEW p \in Nat, NEW q, q = p + (2 + Len(Said(m)))
  PROVE  p + 2 + Len(Said(m)) = q
<1> DEFINE l == Len(Said(m))
<1>1. l \in Nat
  BY StringWritten, LenProperties
<1>2. q = p + (2 + l)
  OBVIOUS
<1> HIDE DEF l
<1>3. p + 2 + l = q
  BY <1>1, <1>2
<1> QED
  BY <1>3 DEF l

\* A string that says something takes three bytes.
LEMMA ThreeBytes ==
  ASSUME NEW m \in MQTTString, Said(m) # << >>, NEW p \in Nat, NEW end \in Nat,
         p + 2 + Len(Said(m)) <= end
  PROVE  ~(end - p < 3)
<1> DEFINE l == Len(Said(m))
<1>1. Said(m) \in Seq(Byte)
  BY StringWritten
<1>2. l \in Nat /\ l # 0 /\ p + 2 + l <= end
  BY <1>1, EmptySeq, LenProperties
<1> HIDE DEF l
<1> QED
  BY <1>2

\* Fewer than three bytes are left at a user name or password ...
ShortUser(o) == IsSet(o.username) /\ ~IsSet(o.password) /\ Said(o.username) = << >>
ShortPassword(o) == IsSet(o.password) /\ Said(o.password) = << >>

\* ... and MQTTDeserialize_connect refuses these, and a password without a user name.  Otherwise
\* it gives back the options of a CONNECT: a string of it that is flagged is found behind those
\* before it, whichever of them are there.
LEMMA ConnectRead ==
  ASSUME NEW o \in Connects,
         NEW b, Carries(b, HeaderByte(PacketType.CONNECT, 0, 0, 0), ConnectBody(o))
  PROVE  MQTTDeserialize_connect(b, Len(b)) =
           IF ShortUser(o) \/ ShortPassword(o) \/ (IsSet(o.password) /\ ~IsSet(o.username))
           THEN Failed(0) ELSE ConnectHeard(o)
<1> DEFINE s == Start(b)
           end == Len(b) + 1
           name == ProtocolName(o.MQTTVersion)
           level == IF o.MQTTVersion = 4 THEN 4 ELSE 3
           flags == ConnectFlags(o)
           will == o.willFlag = 1
           user == IsSet(o.username)
           pass == IsSet(o.password)
           clientAt == s + PlaceOfClient(o)
           topicAt == s + PlaceOfTopic(o)
           messageAt == s + PlaceOfMessage(o)
           userAt == s + PlaceOfUser(o)
           passAt == s + PlaceOfPassword(o)
<1>1. HasType(b, PacketType.CONNECT)
  BY TypeNumbers, HeaderRead
<1>2. s \in Nat /\ end = s + ConnectEnd(o) /\ Holds(b, s, ConnectBody(o)) /\ end \in Nat
  <2>1. s \in Nat /\ End(b) = s + Len(ConnectBody(o)) /\ End(b) = Len(b) + 1
        /\ Holds(b, s, ConnectBody(o))
    BY DEF Carries
  <2>2. Len(ConnectBody(o)) = ConnectEnd(o) /\ ConnectEnd(o) \in Nat
    BY ConnectPlaces
  <2> QED
    BY <2>1, <2>2
<1>3. /\ Holds(b, s, WriteMQTTString(Protocol(o))) /\ Holds(b, s + Place(o), Level(o))
      /\ Holds(b, s + (Place(o) + 2), WriteInt(o.keepAliveInterval))
      /\ Holds(b, clientAt, WriteMQTTString(o.clientID))
      /\ Holds(b, topicAt, Topic(o)) /\ Holds(b, messageAt, Message(o))
      /\ Holds(b, userAt, Optional(o.username)) /\ Holds(b, passAt, Optional(o.password))
  BY <1>2, ConnectPlaces
<1>4. /\ o.MQTTVersion \in {3, 4} /\ o.keepAliveInterval \in Number /\ o.clientID \in MQTTString
      /\ o.username \in MQTTString /\ o.password \in MQTTString
      /\ o.willFlag = 1 => o.will.topicName \in MQTTString /\ o.will.message \in MQTTString
  BY ConnectTypes
<1>5. /\ ProtocolLen(o) \in Nat /\ Strings(o) \in Nat /\ TopicLen(o) \in Nat /\ MessageLen(o) \in Nat
      /\ OptionalLen(o.username) \in Nat /\ OptionalLen(o.password) \in Nat
  BY ConnectParts
<1> HIDE DEF s, end
<1>6. /\ clientAt \in Nat /\ topicAt \in Nat /\ messageAt \in Nat /\ userAt \in Nat /\ passAt \in Nat
      /\ clientAt = s + 2 + ProtocolLen(o) + 4
      /\ topicAt = clientAt + Strings(o) /\ messageAt = topicAt + TopicLen(o)
      /\ userAt = messageAt + MessageLen(o) /\ passAt = userAt + OptionalLen(o.username)
      /\ end = passAt + OptionalLen(o.password)
      /\ topicAt <= end /\ messageAt <= end /\ userAt <= end /\ passAt <= end
      /\ s + 2 + ProtocolLen(o) <= end /\ s + Place(o) = s + 2 + ProtocolLen(o)
      /\ s + 2 + ProtocolLen(o) \in Nat
  <2> DEFINE x == ProtocolLen(o)
             c == Strings(o)
             t == TopicLen(o)
             m == MessageLen(o)
             u == OptionalLen(o.username)
             p == OptionalLen(o.password)
             pc == PlaceOfClient(o)
             pt == PlaceOfTopic(o)
             pm == PlaceOfMessage(o)
             pu == PlaceOfUser(o)
             pp == PlaceOfPassword(o)
             pe == ConnectEnd(o)
             pl == Place(o)
  <2>1. /\ pl = 2 + x /\ pc = pl + 2 + 2 /\ pt = pc + c /\ pm = pt + t /\ pu = pm + m
        /\ pp = pu + u /\ pe = pp + p
    BY DEF ConnectEnd, PlaceOfPassword, PlaceOfUser, PlaceOfMessage, PlaceOfTopic,
           PlaceOfClient, Place
  <2>2. x \in Nat /\ c \in Nat /\ t \in Nat /\ m \in Nat /\ u \in Nat /\ p \in Nat
    BY <1>5
  <2>3. s \in Nat /\ end = s + pe
    BY <1>2
  <2> HIDE DEF x, c, t, m, u, p, pl, pc, pt, pm, pu, pp, pe
  <2>4. pl \in Nat /\ pc \in Nat /\ pt \in Nat /\ pm \in Nat /\ pu \in Nat /\ pp \in Nat
    BY <2>1, <2>2
  <2>5. /\ s + pc \in Nat /\ s + pt \in Nat /\ s + pm \in Nat /\ s + pu \in Nat /\ s + pp \in Nat
        /\ s + pc = s + 2 + x + 4 /\ s + pt = (s + pc) + c /\ s + pm = (s + pt) + t
        /\ s + pu = (s + pm) + m /\ s + pp = (s + pu) + u /\ end = (s + pp) + p
        /\ s + pt <= end /\ s + pm <= end /\ s + pu <= end /\ s + pp <= end
        /\ s + 2 + x <= end /\ s + pl = s + 2 + x /\ s + 2 + x \in Nat
    BY <2>1, <2>2, <2>3, <2>4
  <2> USE DEF x, c, t, m, u, p, pl, pc, pt, pm, pu, pp
  <2> QED
    BY <2>5
<1> HIDE DEF clientAt, topicAt, messageAt, userAt, passAt
<1> DEFINE next == s + 2 + ProtocolLen(o)
           r1 == ReadMQTTLenString(b, s, end)
<1>7. r1 = [rc |-> 1, next |-> next, string |-> LenString(name)]
  <2>1. /\ Protocol(o) \in MQTTString /\ Said(Protocol(o)) = name /\ Len(name) = ProtocolLen(o)
    BY <1>4, ProtocolIsString DEF Protocol, ProtocolLen
  <2> HIDE DEF name
  <2>2. Len(Said(Protocol(o))) = ProtocolLen(o) /\ Said(Protocol(o)) = name
    BY <2>1
  <2>3. /\ s \in Nat /\ end \in Nat /\ Holds(b, s, WriteMQTTString(Protocol(o)))
        /\ s + 2 + Len(Said(Protocol(o))) <= end
    BY <1>2, <1>3, <1>6, <2>2
  <2>4. ReadMQTTLenString(b, s, end)
          = [rc |-> 1, next |-> s + 2 + Len(Said(Protocol(o))),
             string |-> LenString(Said(Protocol(o)))]
    BY <2>1, <2>3, StringRead
  <2> QED
    BY <2>2, <2>4
<1>8. r1.rc = 1 /\ r1.next = next /\ r1.string = LenString(name)
  <2> HIDE DEF r1, next, name
  <2> QED
    BY <1>7
<1>9. b[next] = level /\ b[next + 1] = flags
  <2>1. \A i \in 1..2 : b[next + i - 1] = Level(o)[i]
    BY <1>3, <1>6, ConnectParts DEF Holds
  <2>2. next + 1 - 1 = next /\ next + 2 - 1 = next + 1
    BY <1>6
  <2>3. b[next + 1 - 1] = level /\ b[next + 2 - 1] = flags
    <3> HIDE DEF next
    <3> QED
      BY <2>1 DEF Level
  <2> HIDE DEF next
  <2> QED
    BY <2>2, <2>3
<1>10. MQTTPacket_checkVersion(LenString(name), level)
  <2>1. LenString(name).lenstring = name /\ level \in {3, 4} /\ ProtocolName(level) = name
    BY <1>4 DEF LenString, ProtocolName
  <2> HIDE DEF name, level
  <2> QED
    BY <2>1 DEF MQTTPacket_checkVersion
<1>11. ReadInt(b, next + 2) = o.keepAliveInterval /\ next + 4 = clientAt
  <2>1. s + (Place(o) + 2) = next + 2 /\ next + 2 \in Nat /\ next + 4 = clientAt
    <3> DEFINE x == ProtocolLen(o)
    <3>1. s \in Nat /\ x \in Nat /\ clientAt = s + 2 + x + 4 /\ Place(o) = 2 + x
      BY <1>2, <1>5, <1>6 DEF Place
    <3> HIDE DEF x
    <3>2. s + (Place(o) + 2) = (s + 2 + x) + 2 /\ (s + 2 + x) + 2 \in Nat
          /\ (s + 2 + x) + 4 = clientAt
      BY <3>1
    <3> QED
      BY <3>2 DEF x
  <2> HIDE DEF next
  <2> QED
    BY <1>3, <1>4, <2>1, IntRead
<1>12. /\ Bits(flags, 2, 2) = o.cleansession /\ Bits(flags, 4, 2) = o.willFlag
       /\ (Bits(flags, 4, 2) = 1) = will
       /\ o.willFlag = 1 => Bits(flags, 8, 4) = o.will.qos /\ Bits(flags, 32, 2) = o.will.retained
       /\ (Bits(flags, 64, 2) = 1) = pass /\ (Bits(flags, 128, 2) = 1) = user
  <2>1. /\ Bits(flags, 2, 2) = o.cleansession /\ Bits(flags, 4, 2) = o.willFlag
        /\ o.willFlag = 1 => Bits(flags, 8, 4) = o.will.qos /\ Bits(flags, 32, 2) = o.will.retained
        /\ (Bits(flags, 64, 2) = 1) <=> pass
        /\ (Bits(flags, 128, 2) = 1) <=> user
    BY FlagsRead
  <2>2. pass \in BOOLEAN /\ user \in BOOLEAN
    BY DEF IsSet
  <2> HIDE DEF flags, pass, user
  <2> QED
    BY Zenon, <2>1, <2>2
<1> HIDE DEF flags, level
<1> DEFINE r2 == ReadMQTTLenString(b, clientAt, end)
           r3 == TextIf(will, b, topicAt, end)
           r4 == TextIf(will, b, messageAt, end)
           r5 == SecretIf(user, b, userAt, end)
           r6 == SecretIf(pass, b, passAt, end)
<1>13. r2.rc = 1 /\ r2.next = topicAt /\ r2.string = LenString(Said(o.clientID))
  <2>1. clientAt + 2 + Len(Said(o.clientID)) = topicAt
    <3> DEFINE l == Len(Said(o.clientID))
    <3>1. l \in Nat
      BY <1>4, StringWritten, LenProperties
    <3>2. topicAt = clientAt + (2 + l)
      BY <1>6 DEF Strings
    <3> HIDE DEF l
    <3>3. clientAt + 2 + l = topicAt
      BY <1>6, <3>1, <3>2
    <3> QED
      BY <3>3 DEF l
  <2>2. r2 = [rc |-> 1, next |-> clientAt + 2 + Len(Said(o.clientID)),
              string |-> LenString(Said(o.clientID))]
    BY <1>2, <1>3, <1>4, <1>6, <2>1, StringRead
  <2> HIDE DEF r2
  <2>3. r2 = [rc |-> 1, next |-> topicAt, string |-> LenString(Said(o.clientID))]
    BY <2>1, <2>2
  <2> QED
    BY <2>3
<1> HIDE DEF r2
<1>14. /\ r3.rc = 1 /\ r3.next = messageAt
       /\ will => r3.string = LenString(Said(o.will.topicName))
  <2>1. will => /\ o.will.topicName \in MQTTString
                /\ Holds(b, topicAt, WriteMQTTString(o.will.topicName))
                /\ topicAt + 2 + Len(Said(o.will.topicName)) = messageAt
    BY <1>3, <1>4, <1>6, StringEnds DEF Topic, TopicLen
  <2>2. ~will => topicAt = messageAt
    BY <1>6 DEF TopicLen
  <2>3. r3 = [rc |-> 1,
              next |-> IF will THEN topicAt + 2 + Len(Said(o.will.topicName)) ELSE topicAt,
              string |-> IF will THEN LenString(Said(o.will.topicName)) ELSE NULL]
    <3>1. CASE will
      <4>1. ReadMQTTLenString(b, topicAt, end) =
              [rc |-> 1, next |-> topicAt + 2 + Len(Said(o.will.topicName)),
               string |-> LenString(Said(o.will.topicName))]
        BY <1>2, <1>6, <2>1, <3>1, StringRead
      <4> QED
        BY <3>1, <4>1 DEF TextIf
    <3>2. CASE ~will
      BY <3>2 DEF TextIf, Absent
    <3> QED
      BY <3>1, <3>2
  <2> HIDE DEF r3, will
  <2> QED
    BY <2>1, <2>2, <2>3
<1>15. /\ r4.rc = 1 /\ r4.next = userAt
       /\ will => r4.string = LenString(Said(o.will.message))
  <2>1. will => /\ o.will.message \in MQTTString
                /\ Holds(b, messageAt, WriteMQTTString(o.will.message))
                /\ messageAt + 2 + Len(Said(o.will.message)) = userAt
    BY <1>3, <1>4, <1>6, StringEnds DEF Message, MessageLen
  <2>2. ~will => messageAt = userAt
    BY <1>6 DEF MessageLen
  <2>3. r4 = [rc |-> 1,
              next |-> IF will THEN messageAt + 2 + Len(Said(o.will.message)) ELSE messageAt,
              string |-> IF will THEN LenString(Said(o.will.message)) ELSE NULL]
    <3>1. CASE will
      <4>1. ReadMQTTLenString(b, messageAt, end) =
              [rc |-> 1, next |-> messageAt + 2 + Len(Said(o.will.message)),
               string |-> LenString(Said(o.will.message))]
        BY <1>2, <1>6, <2>1, <3>1, StringRead
      <4> QED
        BY <3>1, <4>1 DEF TextIf
    <3>2. CASE ~will
      BY <3>2 DEF TextIf, Absent
    <3> QED
      BY <3>1, <3>2
  <2> HIDE DEF r4, will
  <2> QED
    BY <2>1, <2>2, <2>3
<1>16. IF ShortUser(o) THEN r5.rc = 0
       ELSE r5.rc = 1 /\ r5.next = passAt /\ r5.string = HeardIf(o.username)
  <2>1. user => /\ o.username \in MQTTString
                /\ Holds(b, userAt, WriteMQTTString(o.username))
                /\ userAt + 2 + Len(Said(o.username)) = passAt
    BY <1>3, <1>4, <1>6, StringEnds DEF Optional, OptionalLen
  <2>2. ~user => userAt = passAt
    BY <1>6 DEF OptionalLen
  <2>3. user \in BOOLEAN
    BY DEF IsSet
  <2>6. CASE ShortUser(o)
    <3>1. user /\ Len(Said(o.username)) = 0 /\ OptionalLen(o.password) = 0
      BY <2>6, EmptySeq DEF ShortUser, OptionalLen
    <3>2. userAt + 2 + 0 = end
      BY <1>2, <1>6, <2>1, <3>1
    <3>3. end - userAt < 3
      BY <1>2, <1>6, <3>2
    <3> QED
      BY <2>6, <3>1, <3>3 DEF SecretIf, Absent
  <2>7. ASSUME ~ShortUser(o), user PROVE ~(end - userAt < 3)
    <3>1. CASE Said(o.username) # << >>
      BY <1>2, <1>6, <2>1, <2>7, <3>1, ThreeBytes
    <3>2. CASE Said(o.username) = << >> /\ pass
      <4>1. userAt + 2 + 0 = passAt
        BY <2>1, <2>7, <3>2, EmptySeq
      <4>2. passAt + 2 + Len(Said(o.password)) = end /\ Len(Said(o.password)) \in Nat
        BY <1>4, <1>6, <3>2, StringEnds, StringWritten, LenProperties DEF OptionalLen
      <4> DEFINE l == Len(Said(o.password))
      <4> HIDE DEF l
      <4>3. passAt + 2 + l = end /\ l \in Nat
        BY <4>2 DEF l
      <4> QED
        BY <1>2, <1>6, <4>1, <4>3
    <3> QED
      BY <2>7, <3>1, <3>2 DEF ShortUser
  <2>4. ASSUME ~ShortUser(o)
        PROVE  r5 = [rc |-> 1,
                     next |-> IF user THEN userAt + 2 + Len(Said(o.username)) ELSE userAt,
                     string |-> IF user THEN LenString(Said(o.username)) ELSE NULL]
    <3>1. CASE user
      <4>1. ReadMQTTLenString(b, userAt, end) =
              [rc |-> 1, next |-> userAt + 2 + Len(Said(o.username)),
               string |-> LenString(Said(o.username))]
        BY <1>2, <1>6, <2>1, <3>1, StringRead
      <4>2. ~(end - userAt < 3)
        BY <2>4, <2>7, <3>1
      <4> QED
        BY <3>1, <4>1, <4>2 DEF SecretIf, TextIf
    <3>2. CASE ~user
      BY <3>2 DEF SecretIf, TextIf, Absent
    <3> QED
      BY <3>1, <3>2
  <2>5. HeardIf(o.username) = IF user THEN LenString(Said(o.username)) ELSE NULL
    BY DEF HeardIf
  <2> HIDE DEF r5, user
  <2> QED
    BY <2>1, <2>2, <2>4, <2>5, <2>6
<1>17. IF ShortPassword(o) THEN r6.rc = 0 ELSE r6.rc = 1 /\ r6.string = HeardIf(o.password)
  <2>1. pass => /\ o.password \in MQTTString
                /\ Holds(b, passAt, WriteMQTTString(o.password))
                /\ passAt + 2 + Len(Said(o.password)) = end
    BY <1>3, <1>4, <1>6, StringEnds DEF Optional, OptionalLen
  <2>2. end <= end
    BY <1>2
  <2>3. pass \in BOOLEAN
    BY DEF IsSet
  <2>6. CASE ShortPassword(o)
    <3>1. pass /\ Len(Said(o.password)) = 0
      BY <2>6, EmptySeq DEF ShortPassword
    <3>2. passAt + 2 + 0 = end
      BY <2>1, <3>1
    <3>3. end - passAt < 3
      BY <1>2, <1>6, <3>2
    <3> QED
      BY <2>6, <3>1, <3>3 DEF SecretIf, Absent
  <2>4. ASSUME ~ShortPassword(o)
        PROVE  r6 = [rc |-> 1,
                     next |-> IF pass THEN passAt + 2 + Len(Said(o.password)) ELSE passAt,
                     string |-> IF pass THEN LenString(Said(o.password)) ELSE NULL]
    <3>1. CASE pass
      <4>1. ReadMQTTLenString(b, passAt, end) =
              [rc |-> 1, next |-> passAt + 2 + Len(Said(o.password)),
               string |-> LenString(Said(o.password))]
        BY <1>2, <1>6, <2>1, <2>2, <3>1, StringRead
      <4>2. ~(end - passAt < 3)
        BY <1>2, <1>6, <2>1, <2>2, <2>4, <3>1, ThreeBytes DEF ShortPassword
      <4> QED
        BY <3>1, <4>1, <4>2 DEF SecretIf, TextIf
    <3>2. CASE ~pass
      BY <3>2 DEF SecretIf, TextIf, Absent
    <3> QED
      BY <3>1, <3>2
  <2>5. HeardIf(o.password) = IF pass THEN LenString(Said(o.password)) ELSE NULL
    BY DEF HeardIf
  <2> HIDE DEF r6, pass
  <2> QED
    BY <2>4, <2>5, <2>6
<1> HIDE DEF r3, r4, r5, r6
<1>18. MQTTDeserialize_connect(b, Len(b)) =
         IF ShortUser(o) \/ ShortPassword(o) \/ (pass /\ ~user) THEN Failed(0) ELSE ConnectHeard(o)
  <2> DEFINE protocol == ReadMQTTLenString(b, Start(b), Len(b) + 1)
             version == b[protocol.next]
             fl == b[protocol.next + 1]
             On(pow) == Bits(fl, pow, 2) = 1
             client == ReadMQTTLenString(b, protocol.next + 4, Len(b) + 1)
             topic == TextIf(On(4), b, client.next, Len(b) + 1)
             message == TextIf(On(4), b, topic.next, Len(b) + 1)
             username == SecretIf(On(128), b, message.next, Len(b) + 1)
             password == SecretIf(On(64), b, username.next, Len(b) + 1)
             got == [rc |-> 1, cleansession |-> Bits(fl, 2, 2),
                     keepAliveInterval |-> ReadInt(b, protocol.next + 2),
                     clientID |-> client.string, willFlag |-> Bits(fl, 4, 2),
                     will |-> IF On(4) THEN [qos |-> Bits(fl, 8, 4), retained |-> Bits(fl, 32, 2),
                                             topicName |-> topic.string,
                                             message |-> message.string]
                              ELSE NULL,
                     username |-> username.string, password |-> password.string]
             bad == \/ ~HasType(b, PacketType.CONNECT) \/ protocol.rc = 0
                    \/ ~MQTTPacket_checkVersion(protocol.string, version)
             short == \/ 0 \in {client.rc, topic.rc, message.rc, username.rc, password.rc}
                      \/ (On(64) /\ ~On(128))
  <2>1. MQTTDeserialize_connect(b, Len(b)) =
          IF bad THEN Failed(0) ELSE IF short THEN Failed(0) ELSE got
    BY DEF MQTTDeserialize_connect
  <2>2. protocol = r1 /\ Len(b) + 1 = end
    BY DEF s, end
  <2> HIDE DEF protocol, r1, next
  <2>3. protocol.rc = 1 /\ protocol.next = next /\ protocol.string = LenString(name)
    BY <1>8, <2>2
  <2>4. version = level /\ fl = flags /\ protocol.next + 4 = clientAt
        /\ ReadInt(b, protocol.next + 2) = o.keepAliveInterval
    BY <1>9, <1>11, <2>3
  <2> HIDE DEF version, fl
  <2>5. On(4) = will /\ On(64) = pass /\ On(128) = user
    BY <1>12, <2>4
  <2>6. client = r2
    BY <2>2, <2>4 DEF r2
  <2> HIDE DEF client, On
  <2>7. topic = r3
    BY <1>13, <2>2, <2>5, <2>6 DEF r3
  <2> HIDE DEF topic
  <2>8. message = r4
    BY <1>14, <2>2, <2>5, <2>7 DEF r4
  <2> HIDE DEF message
  <2>9. username = r5
    BY <1>15, <2>2, <2>5, <2>8 DEF r5
  <2> HIDE DEF username
  <2>10. ~ShortUser(o) => password = r6
    BY <1>16, <2>2, <2>5, <2>9 DEF r6
  <2> HIDE DEF password
  <2>11. ~bad
    BY <1>1, <1>10, <2>3, <2>4
  <2>12. short <=> ShortUser(o) \/ ShortPassword(o) \/ (pass /\ ~user)
    <3>1. CASE ShortUser(o)
      BY <1>16, <2>9, <3>1
    <3>2. CASE ~ShortUser(o) /\ ShortPassword(o)
      BY <1>17, <2>10, <3>2
    <3>3. CASE ~ShortUser(o) /\ ~ShortPassword(o)
      <4>1. client.rc = 1 /\ topic.rc = 1 /\ message.rc = 1
        BY <1>13, <1>14, <1>15, <2>6, <2>7, <2>8
      <4>2. username.rc = 1 /\ password.rc = 1
        BY <1>16, <1>17, <2>9, <2>10, <3>3
      <4>3. short <=> On(64) /\ ~On(128)
        BY <4>1, <4>2
      <4> HIDE DEF short
      <4> QED
        BY <2>5, <3>3, <4>3
    <3> QED
      BY <3>1, <3>2, <3>3
  <2>13. ASSUME ~ShortUser(o), ~ShortPassword(o) PROVE got = ConnectHeard(o)
    <3> DEFINE w == IF On(4) THEN [qos |-> Bits(fl, 8, 4), retained |-> Bits(fl, 32, 2),
                                   topicName |-> topic.string, message |-> message.string]
                    ELSE NULL
               x == IF o.willFlag = 1
                    THEN [qos |-> o.will.qos, retained |-> o.will.retained,
                          topicName |-> LenString(Said(o.will.topicName)),
                          message |-> LenString(Said(o.will.message))]
                    ELSE NULL
    <3>1. w = x
      <4>1. CASE o.willFlag = 1
        BY <1>12, <1>14, <1>15, <2>4, <2>5, <2>7, <2>8, <4>1
      <4>2. CASE o.willFlag # 1
        BY <2>5, <4>2
      <4> QED
        BY <4>1, <4>2
    <3>2. /\ Bits(fl, 2, 2) = o.cleansession /\ Bits(fl, 4, 2) = o.willFlag
          /\ client.string = LenString(Said(o.clientID))
          /\ username.string = HeardIf(o.username) /\ password.string = HeardIf(o.password)
          /\ ReadInt(b, protocol.next + 2) = o.keepAliveInterval
      BY <1>12, <1>13, <1>16, <1>17, <2>4, <2>6, <2>9, <2>10, <2>13
    <3>3. got = [rc |-> 1, cleansession |-> Bits(fl, 2, 2),
                 keepAliveInterval |-> ReadInt(b, protocol.next + 2),
                 clientID |-> client.string, willFlag |-> Bits(fl, 4, 2), will |-> w,
                 username |-> username.string, password |-> password.string]
      OBVIOUS
    <3>4. ConnectHeard(o) = [rc |-> 1, cleansession |-> o.cleansession,
                             keepAliveInterval |-> o.keepAliveInterval,
                             clientID |-> LenString(Said(o.clientID)), willFlag |-> o.willFlag,
                             will |-> x,
                             username |-> HeardIf(o.username), password |-> HeardIf(o.password)]
      BY DEF ConnectHeard
    <3> HIDE DEF got, w, x
    <3> QED
      BY <3>1, <3>2, <3>3, <3>4
  <2> HIDE DEF bad, short, got
  <2> QED
    BY <2>1, <2>11, <2>12, <2>13
<1> QED
  BY <1>18
=============================================================================
