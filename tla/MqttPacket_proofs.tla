-------------------------- MODULE MqttPacket_proofs --------------------------
(***************************************************************************)
(* Proofs about the packets of the MQTT client (MqttPacket), in the        *)
(* composition that is checked: for all texts that fit, and every size of  *)
(* the buffers.  What a reader finds at a place is stated with Holds, once *)
(* for a number, a text, the length and the frame of a packet; every kind  *)
(* of packet then follows from its fields.                                 *)
(***************************************************************************)
EXTENDS MCQueues, SequenceTheorems, WellFoundedInduction, TLAPS

\* The least of a set of numbers.
LEMMA Least ==
  ASSUME NEW T, T \subseteq Nat, T # {}
  PROVE  \E m \in T : \A k \in T : m <= k
<1>1. PICK R : R = OpToRel(<, Nat)
  OBVIOUS
<1>2. IsWellFoundedOn(R, Nat)
  BY <1>1, NatLessThanWellFounded
<1>3. PICK m \in T : \A k \in T : ~(<<k, m>> \in R)
  BY <1>2, WFMin
<1>4. \A k \in Nat : k < m => <<k, m>> \in R
  BY <1>1, <1>3 DEF OpToRel
<1>5. ASSUME NEW k \in T PROVE m <= k
  <2>1. k \in Nat /\ m \in Nat /\ ~(k < m)
    BY <1>3, <1>4
  <2> QED
    BY <2>1
<1> QED
  BY <1>5

-----------------------------------------------------------------------------
(* The length of a packet (MqttPacket).                                    *)

\* What varnum writes, up to n.
Digits(g, n) ==
  \A i \in 0 .. n :
    g[i] = IF i < 128 THEN <<i>> ELSE <<(i % 128) + 128>> \o g[i \div 128]

LEMMA Sevenths ==
  ASSUME NEW n \in Nat
  PROVE  /\ n \div 128 \in Nat /\ n % 128 \in 0 .. 127 /\ n = 128 * (n \div 128) + (n % 128)
         /\ n >= 128 => n \div 128 < n /\ n \div 128 \in 0 .. n - 1
OBVIOUS

LEMMA DigitsExist ==
  ASSUME NEW n \in Nat
  PROVE  \E g \in [0 .. n -> Seq(Nat)] : Digits(g, n)
<1>1. PICK bad : bad = {k \in Nat : ~ \E g \in [0 .. k -> Seq(Nat)] : Digits(g, k)}
  OBVIOUS
<1>2. CASE bad # {}
  <2>1. bad \subseteq Nat /\ bad # {}
    BY <1>1, <1>2
  <2>2. PICK k \in bad : \A j \in bad : k <= j
    BY <2>1, Least
  <2>3. k \in Nat /\ ~ \E g \in [0 .. k -> Seq(Nat)] : Digits(g, k)
    BY <1>1
  <2>4. PICK S : S = Seq(Nat)
    OBVIOUS
  <2>5. PICK g \in [0 .. k - 1 -> S] : Digits(g, k - 1)
    <3>1. CASE k = 0
      <4>1. PICK g : g = [i \in 0 .. k - 1 |-> <<>>]
        OBVIOUS
      <4>2. g \in [0 .. k - 1 -> S]
        BY <3>1, <4>1
      <4>3. Digits(g, k - 1)
        BY <3>1 DEF Digits
      <4> QED
        BY <4>2, <4>3
    <3>2. CASE k # 0
      <4>1. k - 1 \in Nat /\ ~(k <= k - 1)
        BY <2>3, <3>2
      <4> QED
        BY <1>1, <2>2, <2>4, <4>1
    <3> QED
      BY <3>1, <3>2
  <2>6. PICK a : a = IF k < 128 THEN <<k>> ELSE <<(k % 128) + 128>> \o g[k \div 128]
    OBVIOUS
  <2>7. a \in S
    <3>1. CASE k < 128
      BY <2>3, <2>4, <2>6, <3>1
    <3>2. CASE ~(k < 128)
      <4>1. k \div 128 \in 0 .. k - 1 /\ k % 128 \in 0 .. 127
        BY <2>3, <3>2, Sevenths
      <4>2. g[k \div 128] \in Seq(Nat)
        BY <2>4, <2>5, <4>1
      <4>3. PICK x : x = <<(k % 128) + 128>>
        OBVIOUS
      <4>4. x \in Seq(Nat)
        <5>1. PICK y \in Nat : y = (k % 128) + 128
          BY <2>3, <4>1
        <5>2. <<y>> \in Seq(Nat)
          OBVIOUS
        <5> QED
          BY <4>3, <5>1, <5>2
      <4>5. x \o g[k \div 128] \in Seq(Nat)
        BY <4>2, <4>4, ConcatProperties
      <4> QED
        BY <2>4, <2>6, <3>2, <4>3, <4>5
    <3> QED
      BY <3>1, <3>2
  <2>8. PICK h : h = [i \in 0 .. k |-> IF i = k THEN a ELSE g[i]]
    OBVIOUS
  <2>9. h \in [0 .. k -> S]
    <3>1. ASSUME NEW i \in 0 .. k PROVE (IF i = k THEN a ELSE g[i]) \in S
      <4>1. i = k \/ i \in 0 .. k - 1
        BY <2>3
      <4> QED
        BY <2>5, <2>7, <4>1
    <3> QED
      BY <2>8, <3>1
  <2>10. \A i \in 0 .. k - 1 : h[i] = g[i]
    <3>1. \A i \in 0 .. k - 1 : i \in 0 .. k /\ i # k
      BY <2>3
    <3> QED
      BY <2>8, <3>1
  <2>11. ASSUME NEW i \in 0 .. k
         PROVE  h[i] = IF i < 128 THEN <<i>> ELSE <<(i % 128) + 128>> \o h[i \div 128]
    <3>1. i \in Nat /\ (i >= 128 => i \div 128 \in 0 .. i - 1)
      BY Sevenths
    <3>2. i >= 128 => i \div 128 \in 0 .. k - 1
      BY <2>3, <3>1
    <3>3. i >= 128 => h[i \div 128] = g[i \div 128]
      BY <2>10, <3>2
    <3>4. CASE i = k
      <4>1. h[i] = a
        BY <2>8, <3>4
      <4>2. i < 128 \/ i >= 128
        BY <3>1
      <4> QED
        BY <2>6, <3>3, <3>4, <4>1, <4>2
    <3>5. CASE i # k
      <4>1. i \in 0 .. k - 1
        BY <2>3, <3>5
      <4>2. h[i] = g[i]
        BY <2>10, <4>1
      <4>3. g[i] = IF i < 128 THEN <<i>> ELSE <<(i % 128) + 128>> \o g[i \div 128]
        BY <2>5, <4>1 DEF Digits
      <4>4. i < 128 \/ i >= 128
        BY <3>1
      <4> QED
        BY <3>3, <4>2, <4>3, <4>4
    <3> QED
      BY <3>4, <3>5
  <2>12. Digits(h, k)
    BY <2>11 DEF Digits
  <2> QED
    BY <2>3, <2>4, <2>9, <2>12
<1> QED
  BY <1>1, <1>2

LEMMA DigitsUnique ==
  ASSUME NEW m \in Nat, NEW n \in Nat, NEW g, NEW h, Digits(g, m), Digits(h, n), m <= n
  PROVE  \A i \in 0 .. m : g[i] = h[i]
<1>1. PICK bad : bad = {i \in 0 .. m : g[i] # h[i]}
  OBVIOUS
<1>2. CASE bad # {}
  <2>1. bad \subseteq Nat /\ bad # {}
    BY <1>1, <1>2
  <2>2. PICK k \in bad : \A j \in bad : k <= j
    BY <2>1, Least
  <2>3. k \in 0 .. m /\ k \in 0 .. n /\ k \in Nat /\ g[k] # h[k]
    BY <1>1
  <2>4. /\ g[k] = IF k < 128 THEN <<k>> ELSE <<(k % 128) + 128>> \o g[k \div 128]
        /\ h[k] = IF k < 128 THEN <<k>> ELSE <<(k % 128) + 128>> \o h[k \div 128]
    BY <2>3 DEF Digits
  <2>5. CASE k < 128
    BY <2>3, <2>4, <2>5
  <2>6. CASE ~(k < 128)
    <3>1. k \div 128 \in 0 .. k - 1
      BY <2>3, <2>6, Sevenths
    <3>2. k \div 128 \in 0 .. m /\ ~(k <= k \div 128)
      BY <2>3, <3>1
    <3>3. g[k \div 128] = h[k \div 128]
      BY <1>1, <2>2, <3>2
    <3> QED
      BY <2>3, <2>4, <2>6, <3>3
  <2> QED
    BY <2>5, <2>6
<1> QED
  BY <1>1, <1>2

\* The definition of varnum, as a property of a function.
IsVarnum(h) == h = [k \in Nat |-> IF k < 128 THEN <<k>> ELSE <<(k % 128) + 128>> \o h[k \div 128]]

LEMMA VarnumSteps ==
  ASSUME NEW n \in Nat
  PROVE  /\ Packets!Varnum[n] \in Seq(Nat)
         /\ Packets!Varnum[n] =
              IF n < 128 THEN <<n>> ELSE <<(n % 128) + 128>> \o Packets!Varnum[n \div 128]
<1>1. PICK g : g = [k \in Nat |-> CHOOSE h \in [0 .. k -> Seq(Nat)] : Digits(h, k)]
  OBVIOUS
<1>2. ASSUME NEW k \in Nat PROVE g[k] \in [0 .. k -> Seq(Nat)] /\ Digits(g[k], k)
  BY <1>1, DigitsExist
<1>3. PICK f : f = [k \in Nat |-> g[k][k]]
  OBVIOUS
<1>4. ASSUME NEW k \in Nat
      PROVE  /\ f[k] \in Seq(Nat)
             /\ f[k] = IF k < 128 THEN <<k>> ELSE <<(k % 128) + 128>> \o f[k \div 128]
  <2>1. k \in 0 .. k
    OBVIOUS
  <2>2. f[k] = g[k][k] /\ g[k][k] \in Seq(Nat)
    BY <1>2, <1>3, <2>1
  <2>3. g[k][k] = IF k < 128 THEN <<k>> ELSE <<(k % 128) + 128>> \o g[k][k \div 128]
    BY <1>2, <2>1 DEF Digits
  <2>4. ASSUME ~(k < 128) PROVE g[k][k \div 128] = f[k \div 128]
    <3>1. PICK j \in Nat : j = k \div 128 /\ j <= k /\ j \in 0 .. j
      BY <2>4, Sevenths
    <3>2. g[j][j] = g[k][j]
      BY <1>2, <3>1, DigitsUnique, SMTT(30)
    <3> QED
      BY <1>3, <3>1, <3>2
  <2> QED
    BY <2>2, <2>3, <2>4
<1>5. IsVarnum(f)
  BY <1>3, <1>4, ZenonT(60) DEF IsVarnum
<1>6. PICK v : v = Packets!Varnum
  OBVIOUS
<1>7. v = CHOOSE h : IsVarnum(h)
  BY <1>6 DEF Packets!Varnum, IsVarnum
<1>8. IsVarnum(v)
  BY ONLY <1>5, <1>7, Zenon
<1>9. v[n] = f[n]
  <2>1. \A i \in 0 .. n : i \in Nat
    OBVIOUS
  <2>2. Digits(f, n)
    <3>1. \A k \in Nat : f[k] = IF k < 128 THEN <<k>> ELSE <<(k % 128) + 128>> \o f[k \div 128]
      BY <1>4, ZenonT(60)
    <3> QED
      BY <2>1, <3>1 DEF Digits
  <2>3. Digits(v, n)
    <3>1. \A k \in Nat : v[k] = IF k < 128 THEN <<k>> ELSE <<(k % 128) + 128>> \o v[k \div 128]
      BY <1>8 DEF IsVarnum
    <3> QED
      BY <2>1, <3>1 DEF Digits
  <2>4. n \in 0 .. n /\ n <= n
    OBVIOUS
  <2> QED
    BY <2>2, <2>3, <2>4, DigitsUnique
<1>10. v[n] = IF n < 128 THEN <<n>> ELSE <<(n % 128) + 128>> \o v[n \div 128]
  BY <1>8 DEF IsVarnum
<1> QED
  BY <1>4, <1>6, <1>9, <1>10

-----------------------------------------------------------------------------
(* Parts of a sequence of bytes.                                           *)

\* b has part at a place.
Holds(b, pos, piece) ==
  /\ pos + Len(piece) - 1 <= Len(b)
  /\ \A i \in 1 .. Len(piece) : b[pos + i - 1] = piece[i]

LEMMA HoldsBoth ==
  ASSUME NEW b \in Seq(Nat), NEW pos \in Nat, NEW x \in Seq(Nat), NEW y \in Seq(Nat),
         Holds(b, pos, x \o y)
  PROVE  Holds(b, pos, x) /\ Holds(b, pos + Len(x), y)
<1>1. PICK m \in Nat, n \in Nat : m = Len(x) /\ n = Len(y)
  BY LenProperties
<1>2. PICK z : z = x \o y
  OBVIOUS
<1>3. Len(z) = m + n /\ \A i \in 1 .. m + n : z[i] = IF i <= m THEN x[i] ELSE y[i - m]
  BY <1>1, <1>2, ConcatProperties
<1>4. pos + (m + n) - 1 <= Len(b) /\ \A i \in 1 .. m + n : b[pos + i - 1] = z[i]
  BY <1>2, <1>3 DEF Holds
<1>5. Len(b) \in Nat
  BY LenProperties
<1>6. pos + m - 1 <= Len(b) /\ pos + m + n - 1 <= Len(b)
  BY <1>4, <1>5
<1>7. ASSUME NEW i \in 1 .. m PROVE b[pos + i - 1] = x[i]
  <2>1. i \in 1 .. m + n /\ i <= m
    OBVIOUS
  <2> QED
    BY <1>3, <1>4, <2>1
<1>8. ASSUME NEW i \in 1 .. n PROVE b[pos + m + i - 1] = y[i]
  <2>1. PICK j \in 1 .. m + n : j = m + i /\ ~(j <= m) /\ j - m = i
    OBVIOUS
  <2>2. b[pos + j - 1] = y[i]
    BY <1>3, <1>4, <2>1
  <2>3. pos + m + i - 1 = pos + j - 1
    BY <2>1
  <2> QED
    BY <2>2, <2>3
<1> QED
  BY <1>1, <1>6, <1>7, <1>8 DEF Holds

\* A packet is in the stream it begins, and what is put together in itself.
LEMMA HoldsFirst ==
  ASSUME NEW x \in Seq(Nat), NEW y \in Seq(Nat)
  PROVE  x \o y \in Seq(Nat) /\ Holds(x \o y, 1, x) /\ Len(x \o y) = Len(x) + Len(y)
BY ConcatProperties, LenProperties DEF Holds

LEMMA HoldsItself ==
  ASSUME NEW x \in Seq(Nat)
  PROVE  Holds(x, 1, x)
BY LenProperties DEF Holds

\* What is cut out of a sequence is what it holds there.
LEMMA CutOut ==
  ASSUME NEW b \in Seq(Nat), NEW pos \in Nat \ {0}, NEW piece \in Seq(Nat), Holds(b, pos, piece)
  PROVE  SubSeq(b, pos, pos + Len(piece) - 1) = piece
<1>1. PICK n \in Nat, end \in Int : n = Len(piece) /\ end = pos + n - 1
  BY LenProperties
<1>2. \A i \in pos .. end : b[i] \in Nat
  <2>1. ASSUME NEW i \in pos .. end PROVE i \in 1 .. Len(b)
    BY <1>1, LenProperties DEF Holds
  <2> QED
    BY <2>1, ElementOfSeq
<1>3. PICK c : c = SubSeq(b, pos, end)
  OBVIOUS
<1>4. c \in Seq(Nat) /\ Len(c) = (IF pos <= end THEN end - pos + 1 ELSE 0)
      /\ \A i \in 1 .. end - pos + 1 : c[i] = b[pos + i - 1]
  BY <1>2, <1>3, SubSeqProperties
<1>5. Len(c) = n /\ \A i \in 1 .. n : c[i] = b[pos + i - 1]
  <2>1. end - pos + 1 = n
    BY <1>1
  <2>2. ~(pos <= end) => n = 0
    BY <1>1
  <2> QED
    BY <1>4, <2>1, <2>2
<1>6. \A i \in 1 .. n : c[i] = piece[i]
  BY <1>1, <1>5 DEF Holds
<1> QED
  BY <1>1, <1>3, <1>4, <1>5, <1>6, SeqEqual

LEMMA TwoBytes ==
  ASSUME NEW n \in Nat
  PROVE  /\ Packets!WriteNum(n) \in Seq(Nat) /\ Len(Packets!WriteNum(n)) = 2
         /\ Packets!WriteNum(n)[1] = n \div 256 /\ Packets!WriteNum(n)[2] = n % 256
<1>1. PICK x \in Nat : x = n \div 256
  OBVIOUS
<1>2. PICK y \in Nat : y = n % 256
  OBVIOUS
<1> QED
  BY <1>1, <1>2 DEF Packets!WriteNum

\* A number is read where it was written.
LEMMA NumRead ==
  ASSUME NEW b \in Seq(Nat), NEW pos \in Nat, NEW n \in Nat, Holds(b, pos, Packets!WriteNum(n))
  PROVE  Packets!ReadNum(b, pos) = n
<1>1. PICK w : w = Packets!WriteNum(n)
  OBVIOUS
<1>2. Len(w) = 2 /\ w[1] = n \div 256 /\ w[2] = n % 256
  BY <1>1, TwoBytes, SMTT(30)
<1>3. b[pos + 1 - 1] = n \div 256 /\ b[pos + 2 - 1] = n % 256
  BY <1>1, <1>2 DEF Holds
<1>4. b[pos] = n \div 256 /\ b[pos + 1] = n % 256
  <2>1. pos + 1 - 1 = pos /\ pos + 2 - 1 = pos + 1
    OBVIOUS
  <2> QED
    BY <1>3, <2>1
<1>5. 256 * (n \div 256) + (n % 256) = n
  OBVIOUS
<1> QED
  BY <1>4, <1>5 DEF Packets!ReadNum

LEMMA StringIs ==
  ASSUME NEW t \in Seq(Nat)
  PROVE  Packets!WriteString(t) \in Seq(Nat) /\ Len(Packets!WriteString(t)) = Len(t) + 2
<1>1. PICK w \in Seq(Nat) : w = Packets!WriteNum(Len(t)) /\ Len(w) = 2
  BY LenProperties, TwoBytes
<1>2. Packets!WriteString(t) = w \o t
  BY <1>1 DEF Packets!WriteString
<1>3. w \o t \in Seq(Nat) /\ Len(w \o t) = Len(w) + Len(t)
  BY ConcatProperties
<1>4. Len(t) \in Nat
  BY LenProperties
<1> QED
  BY <1>1, <1>2, <1>3, <1>4

\* A text is read where it was written.
LEMMA StringRead ==
  ASSUME NEW b \in Seq(Nat), NEW pos \in Nat \ {0}, NEW t \in Seq(Nat),
         Holds(b, pos, Packets!WriteString(t))
  PROVE  /\ Packets!ReadNum(b, pos) = Len(t)
         /\ SubSeq(b, pos + 2, pos + 2 + Len(t) - 1) = t
         /\ SubSeq(b, pos + 2, pos + 1 + Len(t)) = t
<1>1. PICK n \in Nat, w \in Seq(Nat) : n = Len(t) /\ w = Packets!WriteNum(n) /\ Len(w) = 2
  BY LenProperties, TwoBytes
<1>2. Holds(b, pos, w \o t)
  BY <1>1 DEF Packets!WriteString
<1>3. Holds(b, pos, w) /\ Holds(b, pos + 2, t)
  BY <1>1, <1>2, HoldsBoth
<1>4. Packets!ReadNum(b, pos) = n
  BY <1>1, <1>3, NumRead
<1>5. PICK p \in Nat \ {0}, end \in Int : p = pos + 2 /\ end = p + n - 1 /\ end = pos + 1 + n
  OBVIOUS
<1>6. Holds(b, p, t) /\ end = p + Len(t) - 1
  BY <1>1, <1>3, <1>5
<1>7. SubSeq(b, p, p + Len(t) - 1) = t
  BY <1>6, CutOut
<1> QED
  BY <1>1, <1>4, <1>5, <1>6, <1>7

-----------------------------------------------------------------------------
(* Reading the length.                                                     *)

LEMMA Powers == 128^0 = 1 /\ 128^1 = 128 /\ 128^2 = 16384 /\ 128^3 = 2097152
<1>1. 128^0 = 1
  OBVIOUS
<1>2. 128^1 = 128
  OBVIOUS
<1>3. 128^2 = 16384
  OBVIOUS
<1>4. 128^3 = 2097152
  OBVIOUS
<1> QED
  BY <1>1, <1>2, <1>3, <1>4

\* The value of the first k bytes at a place.
ValueOf(b, pos, k) ==
  (b[pos] % 128) + (IF k > 1 THEN (b[pos + 1] % 128) * 128 ELSE 0)
  + (IF k > 2 THEN (b[pos + 2] % 128) * 16384 ELSE 0)
  + (IF k > 3 THEN (b[pos + 3] % 128) * 2097152 ELSE 0)

\* The length ends with the first byte without a flag, if it is one of four.
LEMMA ReadVarnumIs ==
  ASSUME NEW b \in Seq(Nat), NEW pos \in Nat \ {0}
  PROVE  /\ \A k \in 1 .. 4 :
              /\ pos + k - 1 <= Len(b) /\ b[pos + k - 1] < 128
              /\ \A i \in 1 .. k - 1 : b[pos + i - 1] >= 128
              => Packets!ReadVarnum(b, pos) = <<ValueOf(b, pos, k), k>>
         /\ (\A k \in 1 .. 4 : pos + k - 1 <= Len(b) => b[pos + k - 1] >= 128)
              => Packets!ReadVarnum(b, pos) = Packets!Failed
<1>1. PICK ends : ends = {k \in 1 .. 4 : pos + k - 1 <= Len(b) /\ b[pos + k - 1] < 128}
  OBVIOUS
<1>2. ASSUME NEW k \in 1 .. 4, pos + k - 1 <= Len(b) PROVE b[pos + k - 1] \in Nat
  <2>1. pos + k - 1 \in 1 .. Len(b)
    BY <1>2, LenProperties
  <2> QED
    BY <2>1, ElementOfSeq
<1>3. PICK f : f = CHOOSE h : h = [i \in 0 .. 4 |->
                                   IF i = 0 THEN 0
                                   ELSE h[i - 1] + (b[pos + i - 1] % 128) * 128^(i - 1)]
  OBVIOUS
<1>4. Packets!ReadVarnum(b, pos) =
        IF ends = {} THEN Packets!Failed
        ELSE <<f[CHOOSE e \in ends : \A d \in ends : e <= d],
               CHOOSE e \in ends : \A d \in ends : e <= d>>
  BY <1>1, <1>3 DEF Packets!ReadVarnum
<1>5. ASSUME NEW k \in 1 .. 4, pos + k - 1 <= Len(b), b[pos + k - 1] < 128,
             \A i \in 1 .. k - 1 : b[pos + i - 1] >= 128
      PROVE  Packets!ReadVarnum(b, pos) = <<f[k], k>>
  <2>1. k \in ends
    BY <1>1, <1>5
  <2>2. ASSUME NEW d \in ends PROVE k <= d
    <3>1. d \in 1 .. 4 /\ pos + d - 1 <= Len(b) /\ b[pos + d - 1] < 128
      BY <1>1
    <3>2. b[pos + d - 1] \in Nat
      BY <1>2, <3>1
    <3>3. CASE d \in 1 .. k - 1
      BY <1>5, <3>1, <3>2, <3>3
    <3>4. CASE ~(d \in 1 .. k - 1)
      BY <3>1, <3>4
    <3> QED
      BY <3>3, <3>4
  <2>3. ASSUME NEW e \in ends, \A d \in ends : e <= d PROVE e = k
    <3>1. e \in 1 .. 4 /\ k \in 1 .. 4 /\ e <= k /\ k <= e
      BY <1>1, <2>1, <2>2, <2>3
    <3> QED
      BY <3>1
  <2>4. (CHOOSE e \in ends : \A d \in ends : e <= d) = k
    BY <2>1, <2>2, <2>3
  <2>5. ends # {}
    BY <2>1
  <2> QED
    BY <1>4, <2>4, <2>5
<1>6. PICK t : t = [i \in 1 .. 4 |-> (b[pos + i - 1] % 128) * 128^(i - 1)]
  OBVIOUS
<1>7. f = [i \in 0 .. 4 |->
             IF i = 0 THEN 0 ELSE f[i - 1] + (b[pos + i - 1] % 128) * 128^(i - 1)]
  <2>1. PICK g : g = [i \in 0 .. 4 |-> IF i = 0 THEN 0
                                       ELSE IF i = 1 THEN 0 + t[1]
                                       ELSE IF i = 2 THEN (0 + t[1]) + t[2]
                                       ELSE IF i = 3 THEN ((0 + t[1]) + t[2]) + t[3]
                                       ELSE (((0 + t[1]) + t[2]) + t[3]) + t[4]]
    OBVIOUS
  <2>2. g[0] = 0 /\ g[1] = 0 + t[1] /\ g[2] = (0 + t[1]) + t[2]
        /\ g[3] = ((0 + t[1]) + t[2]) + t[3] /\ g[4] = (((0 + t[1]) + t[2]) + t[3]) + t[4]
    BY <2>1
  <2>3. g[1] = g[0] + t[1] /\ g[2] = g[1] + t[2] /\ g[3] = g[2] + t[3] /\ g[4] = g[3] + t[4]
    BY <2>2
  <2>4. ASSUME NEW i \in 0 .. 4, i # 0 PROVE g[i] = g[i - 1] + t[i]
    <3>1. i = 1 \/ i = 2 \/ i = 3 \/ i = 4
      BY <2>4
    <3>2. 1 - 1 = 0 /\ 2 - 1 = 1 /\ 3 - 1 = 2 /\ 4 - 1 = 3
      OBVIOUS
    <3> QED
      BY <2>3, <3>1, <3>2
  <2>5. ASSUME NEW i \in 0 .. 4
        PROVE  g[i] = IF i = 0 THEN 0 ELSE g[i - 1] + (b[pos + i - 1] % 128) * 128^(i - 1)
    <3>1. i # 0 => t[i] = (b[pos + i - 1] % 128) * 128^(i - 1)
      BY <1>6
    <3> QED
      BY <2>2, <2>4, <3>1
  <2>6. g = [i \in 0 .. 4 |->
               IF i = 0 THEN 0 ELSE g[i - 1] + (b[pos + i - 1] % 128) * 128^(i - 1)]
    BY <2>1, <2>5
  <2> QED
    BY <1>3, <2>6
<1>8. ASSUME NEW i \in 1 .. 4 PROVE f[i] = f[i - 1] + (b[pos + i - 1] % 128) * 128^(i - 1)
  <2>1. i \in 0 .. 4 /\ i # 0
    OBVIOUS
  <2> QED
    BY <1>7, <2>1
<1>9. f[0] = 0
  BY <1>7
<1>10. ASSUME NEW k \in 1 .. 4, pos + k - 1 <= Len(b) PROVE f[k] = ValueOf(b, pos, k)
  <2>1. f[1] = f[0] + (b[pos + 1 - 1] % 128) * 128^(1 - 1)
    BY <1>8
  <2>2. f[2] = f[1] + (b[pos + 2 - 1] % 128) * 128^(2 - 1)
    BY <1>8
  <2>3. f[3] = f[2] + (b[pos + 3 - 1] % 128) * 128^(3 - 1)
    BY <1>8
  <2>4. f[4] = f[3] + (b[pos + 4 - 1] % 128) * 128^(4 - 1)
    BY <1>8
  <2>5. /\ pos + 1 - 1 = pos /\ pos + 2 - 1 = pos + 1 /\ pos + 3 - 1 = pos + 2 /\ pos + 4 - 1 = pos + 3
        /\ 1 - 1 = 0 /\ 2 - 1 = 1 /\ 3 - 1 = 2 /\ 4 - 1 = 3
    OBVIOUS
  <2>6. /\ f[1] = 0 + (b[pos] % 128) * 1 /\ f[2] = f[1] + (b[pos + 1] % 128) * 128
        /\ f[3] = f[2] + (b[pos + 2] % 128) * 16384 /\ f[4] = f[3] + (b[pos + 3] % 128) * 2097152
    BY <1>9, <2>1, <2>2, <2>3, <2>4, <2>5, Powers
  <2>7. b[pos] \in Nat
    <3>1. pos + 1 - 1 <= Len(b) /\ 1 \in 1 .. 4 /\ pos + 1 - 1 = pos
      BY <1>10, LenProperties
    <3> QED
      BY <1>2, <3>1
  <2>8. ASSUME k >= 2 PROVE b[pos + 1] \in Nat
    <3>1. pos + 2 - 1 <= Len(b) /\ 2 \in 1 .. 4 /\ pos + 2 - 1 = pos + 1
      BY <1>10, <2>8, LenProperties
    <3> QED
      BY <1>2, <3>1
  <2>9. ASSUME k >= 3 PROVE b[pos + 2] \in Nat
    <3>1. pos + 3 - 1 <= Len(b) /\ 3 \in 1 .. 4 /\ pos + 3 - 1 = pos + 2
      BY <1>10, <2>9, LenProperties
    <3> QED
      BY <1>2, <3>1
  <2>10. ASSUME k >= 4 PROVE b[pos + 3] \in Nat
    <3>1. pos + 4 - 1 <= Len(b) /\ 4 \in 1 .. 4 /\ pos + 4 - 1 = pos + 3
      BY <1>10, <2>10, LenProperties
    <3> QED
      BY <1>2, <3>1
  <2>11. CASE k = 1
    <3>1. PICK x \in Nat :
            /\ x = b[pos] % 128
      BY <2>7, <2>11
    <3>2. ValueOf(b, pos, 1) = x + 0 + 0 + 0
      BY <3>1 DEF ValueOf
    <3>3. f[1] = 0 + x * 1
      BY <2>6, <3>1
    <3>4. f[1] = ValueOf(b, pos, 1)
      BY <3>2, <3>3
    <3> QED
      BY <2>11, <3>4
  <2>12. CASE k = 2
    <3>1. PICK x \in Nat, y \in Nat :
            /\ x = b[pos] % 128 /\ y = b[pos + 1] % 128
      BY <2>7, <2>8, <2>12, SMTT(30)
    <3>2. ValueOf(b, pos, 2) = x + y * 128 + 0 + 0
      BY <3>1 DEF ValueOf
    <3>3. f[1] = 0 + x * 1 /\ f[2] = f[1] + y * 128
      BY <2>6, <3>1
    <3>4. f[2] = ValueOf(b, pos, 2)
      BY <3>2, <3>3
    <3> QED
      BY <2>12, <3>4
  <2>13. CASE k = 3
    <3>1. b[pos] \in Nat /\ b[pos + 1] \in Nat /\ b[pos + 2] \in Nat
      BY <2>7, <2>8, <2>9, <2>13
    <3>2. PICK x \in Nat : x = b[pos] % 128
      BY <3>1, SMTT(30)
    <3>3. PICK y \in Nat : y = b[pos + 1] % 128
      BY <3>1
    <3>4. PICK z \in Nat : z = b[pos + 2] % 128
      BY <3>1, SMTT(30)
    <3>5. ValueOf(b, pos, 3) = x + y * 128 + z * 16384 + 0
      BY <3>2, <3>3, <3>4 DEF ValueOf
    <3>6. f[1] = 0 + x * 1 /\ f[2] = f[1] + y * 128 /\ f[3] = f[2] + z * 16384
      BY <2>6, <3>2, <3>3, <3>4
    <3>7. f[3] = ValueOf(b, pos, 3)
      BY <3>5, <3>6
    <3> QED
      BY <2>13, <3>7
  <2>14. CASE k = 4
    <3>1. b[pos] \in Nat /\ b[pos + 1] \in Nat /\ b[pos + 2] \in Nat /\ b[pos + 3] \in Nat
      BY <2>7, <2>8, <2>9, <2>10, <2>14
    <3>2. PICK x \in Nat : x = b[pos] % 128
      BY <3>1, SMTT(30)
    <3>3. PICK y \in Nat : y = b[pos + 1] % 128
      BY <3>1, SMTT(30)
    <3>4. PICK z \in Nat : z = b[pos + 2] % 128
      BY <3>1
    <3>5. PICK u \in Nat : u = b[pos + 3] % 128
      BY <3>1, SMTT(30)
    <3>6. ValueOf(b, pos, 4) = x + y * 128 + z * 16384 + u * 2097152
      BY <3>2, <3>3, <3>4, <3>5 DEF ValueOf
    <3>7. /\ f[1] = 0 + x * 1 /\ f[2] = f[1] + y * 128 /\ f[3] = f[2] + z * 16384
          /\ f[4] = f[3] + u * 2097152
      BY <2>6, <3>2, <3>3, <3>4, <3>5
    <3>8. f[4] = ValueOf(b, pos, 4)
      BY <3>6, <3>7
    <3> QED
      BY <2>14, <3>8
  <2>15. k = 1 \/ k = 2 \/ k = 3 \/ k = 4
    OBVIOUS
  <2> QED
    BY <2>11, <2>12, <2>13, <2>14, <2>15
<1>11. ASSUME \A k \in 1 .. 4 : pos + k - 1 <= Len(b) => b[pos + k - 1] >= 128
       PROVE  Packets!ReadVarnum(b, pos) = Packets!Failed
  <2>1. ASSUME NEW k \in ends PROVE FALSE
    <3>1. k \in 1 .. 4 /\ pos + k - 1 <= Len(b) /\ b[pos + k - 1] < 128
      BY <1>1
    <3>2. b[pos + k - 1] \in Nat /\ b[pos + k - 1] >= 128
      BY <1>2, <1>11, <3>1
    <3> QED
      BY <3>1, <3>2
  <2> QED
    BY <1>4, <2>1
<1> QED
  BY <1>5, <1>10, <1>11

\* The first byte of a length, and the rest.
LEMMA VarnumFirst ==
  ASSUME NEW b \in Seq(Nat), NEW pos \in Nat, NEW n \in Nat, Holds(b, pos, Packets!Varnum[n])
  PROVE  /\ pos <= Len(b)
         /\ n < 128 => b[pos] = n /\ Len(Packets!Varnum[n]) = 1
         /\ n >= 128 => /\ b[pos] = (n % 128) + 128
                        /\ Holds(b, pos + 1, Packets!Varnum[n \div 128])
                        /\ Len(Packets!Varnum[n]) = 1 + Len(Packets!Varnum[n \div 128])
<1>1. PICK w \in Seq(Nat) : w = Packets!Varnum[n]
  BY VarnumSteps
<1>2. PICK q \in Nat, r \in Nat : q = n \div 128 /\ r = (n % 128) + 128
  <2>1. n \div 128 \in Nat /\ (n % 128) + 128 \in Nat
    OBVIOUS
  <2> QED
    BY <2>1
<1>3. PICK v \in Seq(Nat) : v = Packets!Varnum[q]
  BY VarnumSteps
<1>4. CASE n < 128
  <2>1. w = <<n>>
    BY <1>1, <1>4, VarnumSteps
  <2>2. Len(w) = 1 /\ w[1] = n
    BY <2>1
  <2>3. pos + 1 - 1 <= Len(b) /\ b[pos + 1 - 1] = n
    BY <1>1, <2>2 DEF Holds
  <2>4. pos + 1 - 1 = pos /\ ~(n >= 128)
    BY <1>4
  <2> QED
    BY <1>1, <2>2, <2>3, <2>4
<1>5. CASE n >= 128
  <2>1. ~(n < 128)
    BY <1>5
  <2>2. w = <<r>> \o v
    BY <1>1, <1>2, <1>3, <2>1, VarnumSteps, ZenonT(60)
  <2>3. PICK u \in Seq(Nat) : u = <<r>> /\ Len(u) = 1 /\ u[1] = r
    <3>1. <<r>> \in Seq(Nat) /\ Len(<<r>>) = 1 /\ <<r>>[1] = r
      OBVIOUS
    <3> QED
      BY <3>1
  <2>4. Holds(b, pos, u \o v)
    BY <1>1, <2>2, <2>3
  <2>5. Holds(b, pos, u) /\ Holds(b, pos + 1, v)
    BY <2>3, <2>4, HoldsBoth
  <2>6. pos + 1 - 1 <= Len(b) /\ b[pos + 1 - 1] = r
    BY <2>3, <2>5 DEF Holds
  <2>7. pos + 1 - 1 = pos
    OBVIOUS
  <2>8. Len(w) = Len(u) + Len(v)
    BY <2>2, <2>3, ConcatProperties
  <2> QED
    BY <1>1, <1>2, <1>3, <2>1, <2>3, <2>5, <2>6, <2>7, <2>8
<1>6. n < 128 \/ n >= 128
  OBVIOUS
<1> QED
  BY <1>4, <1>5, <1>6

LEMMA VarnumNotEmpty ==
  ASSUME NEW n \in Nat
  PROVE  Len(Packets!Varnum[n]) \in Nat /\ Len(Packets!Varnum[n]) >= 1
<1>1. PICK b \in Seq(Nat) : b = Packets!Varnum[n]
  BY VarnumSteps
<1>2. Holds(b, 1, Packets!Varnum[n])
  BY <1>1, HoldsItself
<1>3. 1 <= Len(b)
  BY <1>2, VarnumFirst
<1>4. Len(b) \in Nat
  BY LenProperties
<1> QED
  BY <1>1, <1>3, <1>4

LEMMA OneDigit ==
  ASSUME NEW n \in Nat
  PROVE  \E q \in Nat : \E r \in 0 .. 127 : q = n \div 128 /\ r = n % 128 /\ n = 128 * q + r
BY Sevenths

\* A length is read where it was written; one that needs five bytes is not.
LEMMA VarnumRead ==
  ASSUME NEW b \in Seq(Nat), NEW pos \in Nat \ {0}, NEW n \in Nat, Holds(b, pos, Packets!Varnum[n])
  PROVE  /\ n < 268435456 => /\ Packets!ReadVarnum(b, pos) = <<n, Len(Packets!Varnum[n])>>
                             /\ Len(Packets!Varnum[n]) \in 1 .. 4
         /\ n >= 268435456 => /\ Packets!ReadVarnum(b, pos) = Packets!Failed
                              /\ Len(Packets!Varnum[n]) > 4
<1>1. PICK q1 \in Nat, r0 \in 0 .. 127 : q1 = n \div 128 /\ r0 = n % 128 /\ n = 128 * q1 + r0
  BY OneDigit
<1>2. PICK q2 \in Nat, r1 \in 0 .. 127 : q2 = q1 \div 128 /\ r1 = q1 % 128 /\ q1 = 128 * q2 + r1
  BY OneDigit, SMTT(30)
<1>3. PICK q3 \in Nat, r2 \in 0 .. 127 : q3 = q2 \div 128 /\ r2 = q2 % 128 /\ q2 = 128 * q3 + r2
  BY OneDigit
<1>4. q3 < 128 <=> n < 268435456
  BY <1>1, <1>2, <1>3
<1>5. /\ q1 = n \div 128 /\ q2 = q1 \div 128 /\ q3 = q2 \div 128
      /\ r0 = n % 128 /\ r1 = q1 % 128 /\ r2 = q2 % 128
      /\ n = 128 * q1 + r0 /\ q1 = 128 * q2 + r1 /\ q2 = 128 * q3 + r2
      /\ q3 < 128 <=> n < 268435456
  BY <1>1, <1>2, <1>3, <1>4
<1>6. n = 128 * q1 + r0 /\ q1 = 128 * q2 + r1 /\ q2 = 128 * q3 + r2
  BY <1>5
<1>7. PICK p1 \in Nat \ {0}, p2 \in Nat \ {0}, p3 \in Nat \ {0} :
        p1 = pos + 1 /\ p2 = pos + 2 /\ p3 = pos + 3 /\ p2 = p1 + 1 /\ p3 = p2 + 1
  OBVIOUS
<1>8. PICK v0, v1, v2, v3 :
        /\ v0 = Packets!Varnum[n] /\ v1 = Packets!Varnum[q1]
        /\ v2 = Packets!Varnum[q2] /\ v3 = Packets!Varnum[q3]
  BY SMTT(30)
<1>9. pos <= Len(b) /\ (n < 128 => b[pos] = n /\ Len(v0) = 1)
      /\ (n >= 128 => b[pos] = r0 + 128 /\ Holds(b, p1, v1) /\ Len(v0) = 1 + Len(v1))
  BY <1>5, <1>7, <1>8, VarnumFirst, SMTT(30)
<1>10. ASSUME Holds(b, p1, v1)
       PROVE  p1 <= Len(b) /\ (q1 < 128 => b[p1] = q1 /\ Len(v1) = 1)
              /\ (q1 >= 128 => b[p1] = r1 + 128 /\ Holds(b, p2, v2) /\ Len(v1) = 1 + Len(v2))
  <2>1. p1 \in Nat /\ Holds(b, p1, Packets!Varnum[q1])
    BY <1>8, <1>10
  <2>2. /\ p1 <= Len(b) /\ (q1 < 128 => b[p1] = q1 /\ Len(Packets!Varnum[q1]) = 1)
        /\ (q1 >= 128 => b[p1] = (q1 % 128) + 128 /\ Holds(b, p1 + 1, Packets!Varnum[q1 \div 128])
                         /\ Len(Packets!Varnum[q1]) = 1 + Len(Packets!Varnum[q1 \div 128]))
    BY <2>1, VarnumFirst
  <2>3. Packets!Varnum[q1 \div 128] = v2 /\ q1 % 128 = r1 /\ p1 + 1 = p2
    BY <1>5, <1>7, <1>8
  <2> QED
    BY <1>8, <2>2, <2>3, SMTT(30)
<1>11. ASSUME Holds(b, p2, v2)
       PROVE  p2 <= Len(b) /\ (q2 < 128 => b[p2] = q2 /\ Len(v2) = 1)
              /\ (q2 >= 128 => b[p2] = r2 + 128 /\ Holds(b, p3, v3) /\ Len(v2) = 1 + Len(v3))
  <2>1. p2 \in Nat /\ Holds(b, p2, Packets!Varnum[q2])
    BY <1>8, <1>11
  <2>2. /\ p2 <= Len(b) /\ (q2 < 128 => b[p2] = q2 /\ Len(Packets!Varnum[q2]) = 1)
        /\ (q2 >= 128 => b[p2] = (q2 % 128) + 128 /\ Holds(b, p2 + 1, Packets!Varnum[q2 \div 128])
                         /\ Len(Packets!Varnum[q2]) = 1 + Len(Packets!Varnum[q2 \div 128]))
    BY <2>1, VarnumFirst
  <2>3. Packets!Varnum[q2 \div 128] = v3 /\ q2 % 128 = r2 /\ p2 + 1 = p3
    BY <1>5, <1>7, <1>8
  <2> QED
    BY <1>8, <2>2, <2>3, SMTT(30)
<1>12. ASSUME Holds(b, p3, v3)
       PROVE  p3 <= Len(b) /\ (q3 < 128 => b[p3] = q3 /\ Len(v3) = 1)
              /\ (q3 >= 128 => b[p3] = (q3 % 128) + 128 /\ Len(v3) = 1 + Len(Packets!Varnum[q3 \div 128]))
  <2>1. p3 \in Nat /\ Holds(b, p3, Packets!Varnum[q3])
    BY <1>8, <1>12
  <2>2. /\ p3 <= Len(b) /\ (q3 < 128 => b[p3] = q3 /\ Len(Packets!Varnum[q3]) = 1)
        /\ (q3 >= 128 => b[p3] = (q3 % 128) + 128
                         /\ Len(Packets!Varnum[q3]) = 1 + Len(Packets!Varnum[q3 \div 128]))
    BY <2>1, VarnumFirst
  <2> QED
    BY <1>8, <2>2
<1>13. /\ pos + 1 - 1 = pos /\ pos + 2 - 1 = p1 /\ pos + 3 - 1 = p2 /\ pos + 4 - 1 = p3
  BY <1>7
<1>14. (r0 + 128) % 128 = r0 /\ (r1 + 128) % 128 = r1 /\ (r2 + 128) % 128 = r2
  OBVIOUS
<1>15. r0 + 128 >= 128 /\ r1 + 128 >= 128 /\ r2 + 128 >= 128
  OBVIOUS
<1>16. CASE n < 128
  <2>1. b[pos] = n /\ pos <= Len(b) /\ Len(v0) = 1 /\ n % 128 = n
    BY <1>9, <1>16
  <2>2. ValueOf(b, pos, 1) = n
    BY <2>1 DEF ValueOf
  <2>3. Packets!ReadVarnum(b, pos) = <<n, 1>>
    <3>1. pos + 1 - 1 <= Len(b) /\ b[pos + 1 - 1] < 128 /\ \A i \in 1 .. 1 - 1 : b[pos + i - 1] >= 128
      BY <1>13, <1>16, <2>1
    <3>2. 1 \in 1 .. 4
      OBVIOUS
    <3> QED
      BY <2>2, <3>1, <3>2, ReadVarnumIs
  <2> QED
    BY <1>8, <1>16, <2>1, <2>3
<1>17. CASE n >= 128 /\ q1 < 128
  <2>1. /\ b[pos] = r0 + 128 /\ b[p1] = q1 /\ p1 <= Len(b) /\ Len(v0) = 2 /\ q1 % 128 = q1
        /\ n < 268435456
    <3>1. b[pos] = r0 + 128 /\ Holds(b, p1, v1) /\ Len(v0) = 1 + Len(v1)
      BY <1>9, <1>17
    <3>2. b[p1] = q1 /\ p1 <= Len(b) /\ Len(v1) = 1
      BY <1>10, <1>17, <3>1
    <3>3. q1 % 128 = q1 /\ n < 268435456
      BY <1>5, <1>17, SMTT(30)
    <3> QED
      BY <3>1, <3>2, <3>3
  <2>2. ValueOf(b, pos, 2) = n
    <3>1. ValueOf(b, pos, 2) = r0 + q1 * 128 + 0 + 0
      BY <1>7, <1>14, <2>1, SMTT(30) DEF ValueOf
    <3> QED
      BY <1>6, <3>1
  <2>3. Packets!ReadVarnum(b, pos) = <<n, 2>>
    <3>1. pos + 2 - 1 <= Len(b) /\ b[pos + 2 - 1] < 128
      <4>1. pos + 2 - 1 = p1
        BY <1>13
      <4>2. p1 <= Len(b) /\ b[p1] < 128
        BY <1>17, <2>1
      <4> QED
        BY <4>1, <4>2
    <3>2. ASSUME NEW i \in 1 .. 2 - 1 PROVE b[pos + i - 1] >= 128
      <4>1. i = 1
        OBVIOUS
      <4> QED
        BY <1>13, <1>15, <2>1, <4>1
    <3>3. 2 \in 1 .. 4
      OBVIOUS
    <3> QED
      BY <2>2, <3>1, <3>2, <3>3, ReadVarnumIs
  <2> QED
    BY <1>8, <2>1, <2>3
<1>18. CASE n >= 128 /\ q1 >= 128 /\ q2 < 128
  <2>1. /\ b[pos] = r0 + 128 /\ b[p1] = r1 + 128 /\ b[p2] = q2 /\ p2 <= Len(b) /\ Len(v0) = 3
        /\ q2 % 128 = q2 /\ n < 268435456
    <3>1. b[pos] = r0 + 128 /\ Holds(b, p1, v1) /\ Len(v0) = 1 + Len(v1)
      BY <1>9, <1>18
    <3>2. b[p1] = r1 + 128 /\ Holds(b, p2, v2) /\ Len(v1) = 1 + Len(v2)
      BY <1>10, <1>18, <3>1
    <3>3. b[p2] = q2 /\ p2 <= Len(b) /\ Len(v2) = 1
      BY <1>11, <1>18, <3>2
    <3>4. q2 % 128 = q2
      BY <1>18
    <3>5. n < 268435456
      BY <1>6, <1>18
    <3> QED
      BY <3>1, <3>2, <3>3, <3>4, <3>5
  <2>2. ValueOf(b, pos, 3) = n
    <3>1. b[pos] % 128 = r0
      BY <1>14, <2>1
    <3>2. b[pos + 1] % 128 = r1
      <4>1. b[pos + 1] = r1 + 128
        BY <1>7, <2>1
      <4> QED
        BY <1>14, <4>1
    <3>3. b[pos + 2] % 128 = q2
      <4>1. b[pos + 2] = q2
        BY <1>7, <2>1
      <4> QED
        BY <2>1, <4>1
    <3>4. ValueOf(b, pos, 3) = r0 + r1 * 128 + q2 * 16384 + 0
      BY <3>1, <3>2, <3>3, SMTT(30) DEF ValueOf
    <3> QED
      BY <1>6, <3>4
  <2>3. Packets!ReadVarnum(b, pos) = <<n, 3>>
    <3>1. pos + 3 - 1 <= Len(b) /\ b[pos + 3 - 1] < 128
      <4>1. pos + 3 - 1 = p2
        BY <1>13
      <4>2. p2 <= Len(b) /\ b[p2] < 128
        BY <1>18, <2>1
      <4> QED
        BY <4>1, <4>2
    <3>2. ASSUME NEW i \in 1 .. 3 - 1 PROVE b[pos + i - 1] >= 128
      <4>1. i = 1 \/ i = 2
        OBVIOUS
      <4>2. b[pos + 1 - 1] = r0 + 128 /\ b[pos + 2 - 1] = r1 + 128
        BY <1>13, <2>1, SMTT(30)
      <4> QED
        BY <1>15, <4>1, <4>2, ZenonT(60)
    <3>3. 3 \in 1 .. 4
      OBVIOUS
    <3> QED
      BY <2>2, <3>1, <3>2, <3>3, ReadVarnumIs
  <2> QED
    BY <1>8, <2>1, <2>3
<1>19. ASSUME n >= 128, q1 >= 128, q2 >= 128
       PROVE  /\ b[pos] = r0 + 128 /\ b[p1] = r1 + 128 /\ b[p2] = r2 + 128
              /\ Len(v0) = 3 + Len(v3) /\ Holds(b, p3, v3)
  <2>1. Len(v3) \in Nat
    BY <1>8, VarnumSteps, LenProperties
  <2>2. b[pos] = r0 + 128 /\ Holds(b, p1, v1) /\ Len(v0) = 1 + Len(v1)
    BY <1>9, <1>19
  <2>3. b[p1] = r1 + 128 /\ Holds(b, p2, v2) /\ Len(v1) = 1 + Len(v2)
    BY <1>10, <1>19, <2>2
  <2>4. b[p2] = r2 + 128 /\ Holds(b, p3, v3) /\ Len(v2) = 1 + Len(v3)
    BY <1>11, <1>19, <2>3, SMTT(30)
  <2> QED
    BY <2>1, <2>2, <2>3, <2>4
<1>20. CASE n >= 128 /\ q1 >= 128 /\ q2 >= 128 /\ q3 < 128
  <2>1. /\ b[pos] = r0 + 128 /\ b[p1] = r1 + 128 /\ b[p2] = r2 + 128 /\ b[p3] = q3
        /\ p3 <= Len(b) /\ Len(v0) = 4 /\ q3 % 128 = q3
    <3>1. /\ b[pos] = r0 + 128 /\ b[p1] = r1 + 128 /\ b[p2] = r2 + 128
          /\ Len(v0) = 3 + Len(v3) /\ Holds(b, p3, v3)
      BY <1>19, <1>20
    <3>2. b[p3] = q3 /\ p3 <= Len(b) /\ Len(v3) = 1
      BY <1>12, <1>20, <3>1
    <3>3. q3 % 128 = q3
      BY <1>20
    <3> QED
      BY <3>1, <3>2, <3>3
  <2>2. ValueOf(b, pos, 4) = n
    <3>1. b[pos] % 128 = r0
      BY <1>14, <2>1
    <3>2. b[pos + 1] % 128 = r1
      <4>1. b[pos + 1] = r1 + 128
        BY <1>7, <2>1
      <4> QED
        BY <1>14, <4>1
    <3>3. b[pos + 2] % 128 = r2
      <4>1. b[pos + 2] = r2 + 128
        BY <1>7, <2>1
      <4> QED
        BY <1>14, <4>1
    <3>4. b[pos + 3] % 128 = q3
      <4>1. b[pos + 3] = q3
        BY <1>7, <2>1
      <4> QED
        BY <2>1, <4>1
    <3>5. ValueOf(b, pos, 4) = r0 + r1 * 128 + r2 * 16384 + q3 * 2097152
      BY <3>1, <3>2, <3>3, <3>4, SMTT(30) DEF ValueOf
    <3> QED
      BY <1>6, <3>5
  <2>3. Packets!ReadVarnum(b, pos) = <<n, 4>>
    <3>1. pos + 4 - 1 <= Len(b) /\ b[pos + 4 - 1] < 128
      <4>1. pos + 4 - 1 = p3
        BY <1>13
      <4>2. p3 <= Len(b) /\ b[p3] < 128
        BY <1>20, <2>1
      <4> QED
        BY <4>1, <4>2
    <3>2. ASSUME NEW i \in 1 .. 4 - 1 PROVE b[pos + i - 1] >= 128
      <4>1. i = 1 \/ i = 2 \/ i = 3
        OBVIOUS
      <4>2. b[pos + 1 - 1] = r0 + 128 /\ b[pos + 2 - 1] = r1 + 128 /\ b[pos + 3 - 1] = r2 + 128
        BY <1>13, <2>1
      <4> QED
        BY <1>15, <4>1, <4>2, ZenonT(60)
    <3>3. 4 \in 1 .. 4
      OBVIOUS
    <3> QED
      BY <2>2, <3>1, <3>2, <3>3, ReadVarnumIs
  <2> QED
    BY <1>5, <1>8, <1>20, <2>1, <2>3
<1>21. CASE n >= 128 /\ q1 >= 128 /\ q2 >= 128 /\ q3 >= 128
  <2>1. PICK q4 \in Nat, r3 \in 0 .. 127 : q4 = q3 \div 128 /\ r3 = q3 % 128
    BY Sevenths, SMTT(30)
  <2>2. PICK v4 \in Seq(Nat) : v4 = Packets!Varnum[q4]
    BY VarnumSteps
  <2>3. b[p3] = r3 + 128 /\ p3 <= Len(b) /\ Len(v3) = 1 + Len(v4)
    <3>1. Holds(b, p3, Packets!Varnum[q3]) /\ p3 \in Nat
      BY <1>8, <1>19, <1>21
    <3>2. /\ p3 <= Len(b)
          /\ q3 >= 128 => /\ b[p3] = (q3 % 128) + 128
                          /\ Len(Packets!Varnum[q3]) = 1 + Len(Packets!Varnum[q3 \div 128])
      BY <3>1, VarnumFirst
    <3>3. q3 >= 128
      BY <1>21
    <3> QED
      BY <1>8, <2>1, <2>2, <3>2, <3>3
  <2>4. Len(v4) \in Nat /\ Len(v4) >= 1
    BY <2>2, VarnumNotEmpty
  <2>5. Len(v0) > 4
    BY <1>19, <1>21, <2>3, <2>4, SMTT(30)
  <2>6. Packets!ReadVarnum(b, pos) = Packets!Failed
    <3>1. b[pos] >= 128 /\ b[p1] >= 128 /\ b[p2] >= 128
      BY <1>15, <1>19, <1>21, ZenonT(60)
    <3>2. b[p3] >= 128
      BY <2>1, <2>3
    <3>3. ASSUME NEW k \in 1 .. 4 PROVE b[pos + k - 1] >= 128
      <4>1. k = 1 \/ k = 2 \/ k = 3 \/ k = 4
        OBVIOUS
      <4>2. /\ b[pos + 1 - 1] >= 128 /\ b[pos + 2 - 1] >= 128
            /\ b[pos + 3 - 1] >= 128 /\ b[pos + 4 - 1] >= 128
        BY <1>13, <3>1, <3>2, SMTT(30)
      <4> QED
        BY <4>1, <4>2
    <3> QED
      BY <3>3, ReadVarnumIs
  <2>7. ~(n < 268435456)
    BY <1>5, <1>21
  <2> QED
    BY <1>8, <2>5, <2>6, <2>7
<1>22. \/ n < 128
       \/ (n >= 128 /\ q1 < 128)
       \/ (n >= 128 /\ q1 >= 128 /\ q2 < 128)
       \/ (n >= 128 /\ q1 >= 128 /\ q2 >= 128 /\ q3 < 128)
       \/ (n >= 128 /\ q1 >= 128 /\ q2 >= 128 /\ q3 >= 128)
  OBVIOUS
<1> QED
  BY <1>16, <1>17, <1>18, <1>20, <1>21, <1>22

LEMMA LengthSurvives ==
  ASSUME NEW n \in Nat
  PROVE  /\ n < 268435456 =>
              Packets!ReadVarnum(Packets!WriteVarnum(n), 1) = <<n, Len(Packets!WriteVarnum(n))>>
         /\ n >= 268435456 => Packets!WriteVarnum(n) = Packets!Failed
<1>1. PICK b \in Seq(Nat) : b = Packets!Varnum[n]
  BY VarnumSteps
<1>2. Holds(b, 1, Packets!Varnum[n])
  BY <1>1, HoldsItself
<1>3. /\ n < 268435456 => Packets!ReadVarnum(b, 1) = <<n, Len(b)>> /\ Len(b) \in 1 .. 4
      /\ n >= 268435456 => Len(b) > 4
  BY <1>1, <1>2, VarnumRead
<1>4. n < 268435456 => ~(Len(b) > 4)
  BY <1>3, SMTT(30)
<1> QED
  BY <1>1, <1>3, <1>4 DEF Packets!WriteVarnum

-----------------------------------------------------------------------------
(* The first byte, and the frame of a packet.                              *)

AllTypes ==
  {"CONNECT", "CONNACK", "PUBLISH", "PUBACK", "PUBREC", "PUBREL", "PUBCOMP",
   "SUBSCRIBE", "SUBACK", "UNSUBSCRIBE", "UNSUBACK", "PINGREQ", "PINGRESP", "DISCONNECT"}

LEMMA TypesApart ==
  ASSUME NEW i \in 1 .. 14, NEW j \in 1 .. 14, Packets!Types[i] = Packets!Types[j]
  PROVE  i = j
BY DEF Packets!Types

LEMMA NumberIs ==
  ASSUME NEW type \in AllTypes
  PROVE  Packets!Number(type) \in 1 .. 14 /\ Packets!Types[Packets!Number(type)] = type
<1>1. DOMAIN Packets!Types = 1 .. 14
  BY DEF Packets!Types
<1>2. \E i \in 1 .. 14 : Packets!Types[i] = type
  BY DEF AllTypes, Packets!Types
<1> QED
  BY <1>1, <1>2 DEF Packets!Number

LEMMA SmallPowers ==
  2^0 = 1 /\ 2^1 = 2 /\ 2^2 = 4 /\ 2^3 = 8 /\ 2^4 = 16 /\ 2^5 = 32 /\ 2^6 = 64 /\ 2^7 = 128
<1>1. 2^0 = 1 /\ 2^1 = 2 /\ 2^2 = 4
  OBVIOUS
<1>2. 2^3 = 8 /\ 2^4 = 16 /\ 2^5 = 32
  OBVIOUS
<1>3. 2^6 = 64 /\ 2^7 = 128
  OBVIOUS
<1> QED
  BY <1>1, <1>2, <1>3

\* The type and the flags of a packet are read from its first byte.
First(type, f) == 16 * Packets!Number(type) + f

LEMMA FirstByte ==
  ASSUME NEW type \in AllTypes, NEW f \in 0 .. 15
  PROVE  /\ First(type, f) \in Nat /\ Packets!TypeOf(First(type, f)) = type /\ First(type, f) % 16 = f
         /\ Packets!BitsOf(First(type, f), 1, 2) = (f \div 2) % 4
         /\ Packets!BitsOf(First(type, f), 0, 1) = f % 2
<1>1. PICK k \in 1 .. 14, first \in Nat :
        k = Packets!Number(type) /\ Packets!Types[k] = type /\ first = 16 * k + f
  BY NumberIs
<1>2. first % 16 = f /\ first \div 16 = k /\ k % 16 = k
  BY <1>1
<1>3. Packets!BitsOf(first, 4, 4) = k
  BY <1>2, SmallPowers DEF Packets!BitsOf
<1>4. Packets!TypeOf(first) = type
  BY <1>1, <1>3 DEF Packets!TypeOf
<1>5. Packets!BitsOf(first, 1, 2) = (first \div 2) % 4 /\ Packets!BitsOf(first, 0, 1) = (first \div 1) % 2
  BY SmallPowers DEF Packets!BitsOf
<1>6. (first \div 2) % 4 = (f \div 2) % 4
  BY <1>1
<1>7. (first \div 1) % 2 = f % 2
  <2>1. first \div 1 = first /\ first % 2 = f % 2
    BY <1>1
  <2> QED
    BY <2>1
<1>8. First(type, f) = first
  BY <1>1 DEF First
<1> QED
  BY <1>2, <1>4, <1>5, <1>6, <1>7, <1>8

LEMMA BufferBound ==
  /\ BufferSize \in Nat /\ 10 <= BufferSize /\ BufferSize < 65536
  /\ \A t \in Texts : t \in Seq(Nat) /\ Len(t) + 10 <= BufferSize
<1>1. BufferSize \in Nat /\ 10 <= BufferSize /\ BufferSize < 65536
  BY TextsAssumption
<1>2. ASSUME NEW t \in Texts PROVE t \in Seq(Nat) /\ Len(t) + 10 <= BufferSize
  <2>1. t \in Seq(0 .. 255)
    BY TextsAssumption
  <2>2. 0 .. 255 \subseteq Nat
    OBVIOUS
  <2>3. t \in Seq(Nat)
    BY <2>1, <2>2, SeqMonotonic
  <2>4. Len(t) + 10 <= BufferSize
    BY TextsAssumption
  <2> QED
    BY <2>3, <2>4
<1> QED
  BY <1>1, <1>2

Framed(first, body) == <<first>> \o Packets!Varnum[Len(body)] \o body

\* What a reader finds in a packet that its stream begins with.
LEMMA FrameRead ==
  ASSUME NEW b \in Seq(Nat), NEW first \in Nat, NEW body \in Seq(Nat), Holds(b, 1, Framed(first, body))
  PROVE  \E v \in 1 .. Len(b) :
           /\ b[1] = first /\ Holds(b, 2 + v, body)
           /\ Framed(first, body) \in Seq(Nat) /\ Len(Framed(first, body)) = 1 + v + Len(body)
           /\ Len(body) < 268435456 => v \in 1 .. 4 /\ Packets!ReadVarnum(b, 2) = <<Len(body), v>>
           /\ Len(body) >= 268435456 => Packets!ReadVarnum(b, 2) = Packets!Failed
<1>1. PICK n \in Nat : n = Len(body)
  BY LenProperties
<1>2. PICK w \in Seq(Nat), v \in Nat : w = Packets!Varnum[n] /\ v = Len(w) /\ v >= 1
  BY VarnumSteps, VarnumNotEmpty
<1>3. PICK u \in Seq(Nat) : u = <<first>> /\ Len(u) = 1 /\ u[1] = first
  <2>1. <<first>> \in Seq(Nat) /\ Len(<<first>>) = 1 /\ <<first>>[1] = first
    OBVIOUS
  <2> QED
    BY <2>1
<1>4. PICK x \in Seq(Nat) : x = u \o w /\ Len(x) = 1 + v
  <2>1. u \o w \in Seq(Nat) /\ Len(u \o w) = Len(u) + Len(w)
    BY ConcatProperties
  <2> QED
    BY <1>2, <1>3, <2>1
<1>5. Framed(first, body) = x \o body
  BY <1>1, <1>2, <1>3, <1>4 DEF Framed
<1>6. x \o body \in Seq(Nat) /\ Len(x \o body) = Len(x) + Len(body)
  BY ConcatProperties
<1>7. 1 \in Nat /\ Holds(b, 1, x \o body)
  BY <1>5
<1>8. Holds(b, 1, u \o w) /\ Holds(b, 1 + (1 + v), body)
  BY <1>4, <1>7, HoldsBoth
<1>9. Holds(b, 1, u) /\ Holds(b, 1 + 1, w)
  BY <1>3, <1>7, <1>8, HoldsBoth
<1>10. b[1] = first
  <2>1. b[1 + 1 - 1] = first
    BY <1>3, <1>9 DEF Holds
  <2> QED
    BY <2>1
<1>11. 1 + 1 = 2 /\ 1 + (1 + v) = 2 + v /\ 2 \in Nat \ {0}
  OBVIOUS
<1>12. Holds(b, 2, Packets!Varnum[n])
  BY <1>2, <1>9, <1>11
<1>13. /\ n < 268435456 => Packets!ReadVarnum(b, 2) = <<n, v>> /\ v \in 1 .. 4
       /\ n >= 268435456 => Packets!ReadVarnum(b, 2) = Packets!Failed
  BY <1>2, <1>11, <1>12, VarnumRead
<1>14. v \in 1 .. Len(b)
  <2>1. 2 + v - 1 <= Len(b) /\ Len(b) \in Nat
    BY <1>2, <1>9, <1>11, LenProperties DEF Holds
  <2> QED
    BY <1>2, <2>1
<1> QED
  BY <1>1, <1>4, <1>5, <1>6, <1>8, <1>10, <1>11, <1>13, <1>14

\* What the client writes is the frame, if the buffer holds it.
LEMMA WrittenIs ==
  ASSUME NEW type, NEW qos, NEW kept, NEW body \in Seq(Nat),
         NEW first \in Nat, first = 16 * Packets!Number(type) + 2 * qos + kept
  PROVE  Packets!Written(type, qos, kept, body) =
           IF Len(Framed(first, body)) > BufferSize THEN Packets!Failed ELSE Framed(first, body)
<1>1. PICK n \in Nat, v \in Nat : n = Len(body) /\ v = Len(Packets!Varnum[n]) /\ v >= 1
  <2>1. PICK n \in Nat : n = Len(body)
    BY LenProperties
  <2> QED
    BY <2>1, VarnumNotEmpty
<1>2. PICK w : w = Framed(first, body)
  OBVIOUS
<1>3. w \in Seq(Nat) /\ Len(w) = 1 + v + n
  <2>1. <<first>> \in Seq(Nat) /\ Len(<<first>>) = 1
    OBVIOUS
  <2>2. PICK x \in Seq(Nat) : x = Packets!Varnum[n]
    BY VarnumSteps
  <2>3. <<first>> \o x \in Seq(Nat) /\ Len(<<first>> \o x) = 1 + Len(x)
    BY <2>1, ConcatProperties
  <2>4. PICK y \in Seq(Nat) : y = <<first>> \o x
    BY <2>3
  <2>5. y \o body \in Seq(Nat) /\ Len(y \o body) = Len(y) + Len(body)
    BY ConcatProperties
  <2>6. w = y \o body
    BY <1>1, <1>2, <2>2, <2>4 DEF Framed
  <2> QED
    BY <1>1, <2>2, <2>3, <2>4, <2>5, <2>6
<1>4. Holds(Packets!Varnum[n], 1, Packets!Varnum[n])
  BY VarnumSteps, HoldsItself
<1>5. ASSUME n < 268435456 PROVE v <= 4
  <2>1. PICK x \in Seq(Nat) : x = Packets!Varnum[n] /\ Holds(x, 1, Packets!Varnum[n])
    BY <1>4, VarnumSteps
  <2>2. Len(Packets!Varnum[n]) \in 1 .. 4
    BY <1>5, <2>1, VarnumRead
  <2>3. v \in 1 .. 4
    BY <1>1, <2>2
  <2> QED
    BY <2>3
<1>6. CASE n < 268435455
  <2>1. Packets!WriteVarnum(Len(body)) = Packets!Varnum[n] /\ ~Packets!VarnumOverflows(Len(body))
    <3>1. ~(v > 4)
      BY <1>5, <1>6
    <3> QED
      BY <1>1, <1>6, <3>1 DEF Packets!WriteVarnum, Packets!VarnumOverflows
  <2>2. <<16 * Packets!Number(type) + 2 * qos + kept>> \o Packets!WriteVarnum(Len(body)) \o body = w
    BY <1>1, <1>2, <2>1 DEF Framed
  <2> QED
    BY <1>2, <2>1, <2>2 DEF Packets!Written
<1>7. CASE ~(n < 268435455)
  <2>1. Len(w) > BufferSize
    <3>1. 1 + v + n > 65535
      BY <1>7
    <3>2. PICK size \in Nat : size = BufferSize /\ size < 65536
      BY BufferBound
    <3>3. 1 + v + n > size
      BY <3>1, <3>2
    <3> QED
      BY <1>3, <3>2, <3>3
  <2>2. Packets!VarnumOverflows(Len(body))
    BY <1>1, <1>7 DEF Packets!VarnumOverflows
  <2> QED
    BY <1>2, <2>1, <2>2 DEF Packets!Written
<1> QED
  BY <1>6, <1>7

-----------------------------------------------------------------------------
(* What the server reads of the client's packets.                          *)

LEMMA FramedIs ==
  ASSUME NEW first \in Nat, NEW body \in Seq(Nat)
  PROVE  Framed(first, body) \in Seq(Nat)
<1>1. PICK n \in Nat : n = Len(body)
  BY LenProperties
<1>2. <<first>> \in Seq(Nat)
  OBVIOUS
<1>3. PICK x \in Seq(Nat), u \in Seq(Nat) : x = Packets!Varnum[n] /\ u = <<first>>
  BY <1>2, VarnumSteps
<1>4. PICK y \in Seq(Nat) : y = u \o x
  BY ConcatProperties
<1>5. y \o body \in Seq(Nat)
  BY ConcatProperties
<1> QED
  BY <1>1, <1>3, <1>4, <1>5 DEF Framed

\* Where a reader finds the fields of a packet of a type and its flags.
Finds(bytes, start, type, f, body) ==
  /\ bytes \in Seq(Nat) /\ bytes # Packets!Failed /\ start \in Nat \ {0}
  /\ Packets!TypeOf(bytes[1]) = type /\ bytes[1] = First(type, f)
  /\ 2 + Packets!ReadVarnum(bytes, 2)[2] = start
  /\ Packets!ReadVarnum(bytes, 2)[1] = Len(body)
  /\ start + Len(body) = Len(bytes) + 1
  /\ Holds(bytes, start, body)

LEMMA ServerFinds ==
  ASSUME NEW type \in AllTypes, NEW f \in 0 .. 15, NEW body \in Seq(Nat), NEW bytes,
         bytes = Framed(First(type, f), body), Len(bytes) <= BufferSize
  PROVE  \E start \in Nat : Finds(bytes, start, type, f, body)
<1>1. PICK first \in Nat : first = First(type, f) /\ Packets!TypeOf(first) = type /\ first % 16 = f
  BY FirstByte
<1>2. bytes \in Seq(Nat)
  BY <1>1, FramedIs
<1>3. Holds(bytes, 1, Framed(first, body))
  BY <1>1, <1>2, HoldsItself
<1>4. PICK v \in 1 .. Len(bytes) :
        /\ bytes[1] = first /\ Holds(bytes, 2 + v, body)
        /\ Len(bytes) = 1 + v + Len(body)
        /\ Len(body) < 268435456 => v \in 1 .. 4 /\ Packets!ReadVarnum(bytes, 2) = <<Len(body), v>>
  BY <1>1, <1>2, <1>3, FrameRead
<1>5. PICK n \in Nat, m \in Nat : n = Len(body) /\ m = Len(bytes)
  BY <1>2, LenProperties
<1>6. n < 268435456
  <2>1. PICK size \in Nat : size = BufferSize /\ size < 65536
    BY BufferBound
  <2> QED
    BY <1>4, <1>5, <2>1
<1>7. PICK start \in Nat \ {0} : start = 2 + v
  BY <1>5
<1>8. Packets!ReadVarnum(bytes, 2) = <<n, v>>
  BY <1>4, <1>5, <1>6
<1>9. bytes # Packets!Failed
  <2>1. Len(bytes) # 0
    BY <1>4, <1>5
  <2> QED
    BY <2>1, EmptySeq DEF Packets!Failed
<1>10. start + n = m + 1
  BY <1>4, <1>5, <1>7
<1>11. Packets!ReadVarnum(bytes, 2)[1] = n /\ Packets!ReadVarnum(bytes, 2)[2] = v
  BY <1>8
<1>12. Holds(bytes, start, body) /\ 2 + v = start /\ start + Len(body) = Len(bytes) + 1
  BY <1>4, <1>5, <1>7, <1>10
<1>13. Packets!TypeOf(bytes[1]) = type /\ bytes[1] = First(type, f)
  BY <1>1, <1>4
<1>14. Finds(bytes, start, type, f, body)
  BY <1>2, <1>5, <1>9, <1>11, <1>12, <1>13 DEF Finds
<1> QED
  BY <1>14

\* A packet that fits is not refused.
LEMMA FrameFits ==
  ASSUME NEW first \in Nat, NEW body \in Seq(Nat), NEW n \in Nat, n = Len(body), n + 5 <= BufferSize
  PROVE  Len(Framed(first, body)) <= BufferSize
<1>1. PICK w \in Seq(Nat), v \in Nat : w = Packets!Varnum[n] /\ v = Len(w)
  BY VarnumSteps, LenProperties
<1>2. PICK size \in Nat : size = BufferSize /\ size < 65536
  BY BufferBound
<1>3. v \in 1 .. 4
  <2>1. Holds(w, 1, Packets!Varnum[n]) /\ 1 \in Nat \ {0}
    BY <1>1, HoldsItself
  <2>2. n < 268435456
    BY <1>2
  <2> QED
    BY <1>1, <2>1, <2>2, VarnumRead
<1>4. PICK u \in Seq(Nat) : u = <<first>> /\ Len(u) = 1
  <2>1. <<first>> \in Seq(Nat) /\ Len(<<first>>) = 1
    OBVIOUS
  <2> QED
    BY <2>1
<1>5. PICK y \in Seq(Nat) : y = u \o w /\ Len(y) = Len(u) + Len(w)
  BY ConcatProperties
<1>6. Len(y \o body) = Len(y) + Len(body)
  BY ConcatProperties
<1>7. Framed(first, body) = y \o body
  BY <1>1, <1>4, <1>5 DEF Framed
<1>8. Len(Framed(first, body)) = 1 + v + n
  BY <1>1, <1>4, <1>5, <1>6, <1>7
<1> QED
  BY <1>2, <1>3, <1>8

\* A command as its frame, with the flags f.
WrittenAs(type, qos, kept, f, body) ==
  Packets!Written(type, qos, kept, body) =
    IF Len(Framed(First(type, f), body)) > BufferSize
    THEN Packets!Failed ELSE Framed(First(type, f), body)

LEMMA WrittenFrame ==
  ASSUME NEW type \in AllTypes, NEW qos \in 0 .. 2, NEW kept \in 0 .. 1, NEW body \in Seq(Nat),
         NEW f, f = 2 * qos + kept
  PROVE  f \in 0 .. 15 /\ WrittenAs(type, qos, kept, f, body)
<1>1. f \in 0 .. 15
  OBVIOUS
<1>2. PICK first \in Nat : first = First(type, f)
  BY <1>1, FirstByte
<1>3. first = 16 * Packets!Number(type) + 2 * qos + kept
  <2>1. PICK k \in Nat : k = Packets!Number(type)
    BY NumberIs
  <2> QED
    BY <1>2, <2>1 DEF First
<1> QED
  BY <1>1, <1>2, <1>3, WrittenIs DEF WrittenAs

\* A command with a body that is short enough is written, and found.
LEMMA ShortWritten ==
  ASSUME NEW type \in AllTypes, NEW qos \in 0 .. 2, NEW body \in Seq(Nat), NEW n \in Nat,
         n = Len(body), n + 5 <= BufferSize
  PROVE  \E start \in Nat : Finds(Packets!Written(type, qos, 0, body), start, type, 2 * qos, body)
<1>1. PICK f \in 0 .. 15 : f = 2 * qos + 0 /\ f = 2 * qos
  OBVIOUS
<1>2. 0 \in 0 .. 1
  OBVIOUS
<1>3. PICK first \in Nat : first = First(type, f)
  BY FirstByte
<1>4. PICK w : w = Framed(First(type, f), body)
  OBVIOUS
<1>5. Len(w) <= BufferSize
  BY <1>3, <1>4, FrameFits
<1>6. ~(Len(w) > BufferSize)
  <2>1. PICK size \in Nat : size = BufferSize
    BY BufferBound
  <2>2. w \in Seq(Nat)
    BY <1>4, <1>5, ServerFinds DEF Finds
  <2>3. Len(w) \in Nat
    BY <2>2, LenProperties
  <2> QED
    BY <1>5, <2>1, <2>3
<1>7. Packets!Written(type, qos, 0, body) = w
  <2>1. WrittenAs(type, qos, 0, f, body)
    BY <1>1, <1>2, WrittenFrame
  <2> QED
    BY <1>4, <1>6, <2>1 DEF WrittenAs
<1>8. PICK start \in Nat : Finds(w, start, type, f, body)
  BY <1>4, <1>5, ServerFinds
<1> QED
  BY <1>1, <1>7, <1>8

\* The server's two checks of a packet.
Whole(bytes) ==
  (2 + Packets!ReadVarnum(bytes, 2)[2]) + Packets!ReadVarnum(bytes, 2)[1] = Len(bytes) + 1
Odd(bytes) ==
  /\ Packets!TypeOf(bytes[1]) # "PUBLISH"
  /\ bytes[1] % 16 # (IF Packets!TypeOf(bytes[1]) \in {"PUBREL", "SUBSCRIBE", "UNSUBSCRIBE"} THEN 2 ELSE 0)

LEMMA ServerLooks ==
  ASSUME NEW type \in AllTypes, NEW f \in 0 .. 15, NEW body \in Seq(Nat), NEW bytes, NEW start,
         Finds(bytes, start, type, f, body),
         type # "PUBLISH" => f = IF type \in {"PUBREL", "SUBSCRIBE", "UNSUBSCRIBE"} THEN 2 ELSE 0
  PROVE  Whole(bytes) /\ bytes[1] % 16 = f /\ ~Odd(bytes)
<1>1. bytes[1] = First(type, f) /\ Packets!TypeOf(bytes[1]) = type
  BY DEF Finds
<1>2. First(type, f) % 16 = f
  BY FirstByte
<1>3. Whole(bytes)
  BY DEF Finds, Whole
<1> QED
  BY <1>1, <1>2, <1>3 DEF Odd

LEMMA AckServed ==
  ASSUME NEW type \in {"PUBACK", "PUBREC", "PUBREL", "PUBCOMP"}, NEW id \in Nat,
         NEW p, p = [type |-> type, id |-> id]
  PROVE  Packets!Encode(p) # Packets!Failed /\ Packets!ServerReads(Packets!Encode(p)) = p
<1>1. type \in AllTypes
  BY DEF AllTypes
<1>2. PICK qos \in 0 .. 2 : qos = Packets!Flag(type = "PUBREL") /\ qos = IF type = "PUBREL" THEN 1 ELSE 0
  BY DEF Packets!Flag
<1>3. PICK body \in Seq(Nat) : body = Packets!WriteNum(id) /\ Len(body) = 2
  BY TwoBytes
<1>4. Packets!Encode(p) = Packets!Written(type, qos, 0, body)
  BY <1>2, <1>3 DEF Packets!Encode, Packets!EncodeAck
<1>5. PICK n \in Nat : n = 2 /\ n + 5 <= BufferSize /\ n = Len(body)
  BY <1>3, BufferBound
<1>6. PICK start \in Nat : Finds(Packets!Written(type, qos, 0, body), start, type, 2 * qos, body)
  BY <1>1, <1>5, ShortWritten
<1>7. PICK bytes : bytes = Packets!Encode(p) /\ Finds(bytes, start, type, 2 * qos, body)
  BY <1>4, <1>6
<1>8. Packets!ReadNum(bytes, start) = id
  BY <1>3, <1>7, NumRead DEF Finds
<1>9. Packets!ServerReads(bytes) = [type |-> type, id |-> Packets!ReadNum(bytes, start)]
  <2>1. PICK f \in 0 .. 15 :
          f = 2 * qos /\ f = IF type \in {"PUBREL", "SUBSCRIBE", "UNSUBSCRIBE"} THEN 2 ELSE 0
    BY <1>2
  <2>2. Whole(bytes) /\ ~Odd(bytes)
    BY <1>1, <1>7, <2>1, ServerLooks
  <2>3. /\ type # "CONNECT" /\ type # "PUBLISH" /\ type # "SUBSCRIBE" /\ type # "UNSUBSCRIBE"
        /\ type \notin {"PINGREQ", "DISCONNECT"}
    OBVIOUS
  <2>4. Packets!TypeOf(bytes[1]) = type /\ 2 + Packets!ReadVarnum(bytes, 2)[2] = start
    BY <1>7 DEF Finds
  <2> QED
    BY <2>2, <2>3, <2>4 DEF Packets!ServerReads, Whole, Odd
<1> QED
  BY <1>7, <1>8, <1>9 DEF Finds

LEMMA Joined ==
  ASSUME NEW x \in Seq(Nat), NEW y \in Seq(Nat), NEW m \in Nat, NEW n \in Nat, m = Len(x), n = Len(y)
  PROVE  x \o y \in Seq(Nat) /\ Len(x \o y) = m + n
BY ConcatProperties

LEMMA ZeroServed ==
  ASSUME NEW type \in {"PINGREQ", "DISCONNECT"}, NEW p, p = [type |-> type]
  PROVE  Packets!Encode(p) # Packets!Failed /\ Packets!ServerReads(Packets!Encode(p)) = p
<1>1. type \in AllTypes /\ 0 \in 0 .. 2
  BY DEF AllTypes
<1>2. PICK body \in Seq(Nat) : body = <<>> /\ Len(body) = 0
  <2>1. <<>> \in Seq(Nat) /\ Len(<<>>) = 0
    OBVIOUS
  <2> QED
    BY <2>1
<1>3. Packets!Encode(p) = Packets!Written(type, 0, 0, body)
  BY <1>2 DEF Packets!Encode, Packets!EncodeZero
<1>4. PICK n \in Nat : n = 0 /\ n + 5 <= BufferSize /\ n = Len(body)
  BY <1>2, BufferBound
<1>5. PICK start \in Nat : Finds(Packets!Written(type, 0, 0, body), start, type, 2 * 0, body)
  BY <1>1, <1>4, ShortWritten
<1>6. PICK f \in 0 .. 15 : f = 2 * 0 /\ f = 0
  OBVIOUS
<1>7. PICK bytes : bytes = Packets!Encode(p) /\ Finds(bytes, start, type, f, body)
  BY <1>3, <1>5, <1>6
<1>8. Packets!ServerReads(bytes) = [type |-> type]
  <2>1. f = IF type \in {"PUBREL", "SUBSCRIBE", "UNSUBSCRIBE"} THEN 2 ELSE 0
    BY <1>6
  <2>2. Whole(bytes) /\ ~Odd(bytes)
    BY <1>1, <1>7, <2>1, ServerLooks
  <2>3. type # "CONNECT" /\ type # "PUBLISH" /\ type # "SUBSCRIBE" /\ type # "UNSUBSCRIBE"
    OBVIOUS
  <2>4. Packets!TypeOf(bytes[1]) = type
    BY <1>7 DEF Finds
  <2> QED
    BY <2>2, <2>3, <2>4 DEF Packets!ServerReads, Whole, Odd
<1> QED
  BY <1>8, <1>7 DEF Finds

\* A number and a text behind it.
LEMMA NumAndText ==
  ASSUME NEW b \in Seq(Nat), NEW pos \in Nat \ {0}, NEW id \in Nat, NEW t \in Seq(Nat),
         NEW m \in Nat, m = Len(t),
         Holds(b, pos, Packets!WriteNum(id) \o Packets!WriteString(t))
  PROVE  /\ Packets!ReadNum(b, pos) = id /\ Packets!ReadNum(b, pos + 2) = m
         /\ SubSeq(b, pos + 4, pos + 3 + m) = t
<1>1. PICK x \in Seq(Nat) : x = Packets!WriteNum(id) /\ Len(x) = 2
  BY TwoBytes
<1>2. PICK y \in Seq(Nat) : y = Packets!WriteString(t)
  BY StringIs
<1>3. Holds(b, pos, x) /\ Holds(b, pos + 2, y)
  BY <1>1, <1>2, HoldsBoth
<1>4. PICK q \in Nat \ {0} : q = pos + 2 /\ q + 2 = pos + 4 /\ q + 1 + m = pos + 3 + m
  OBVIOUS
<1>5. Packets!ReadNum(b, pos) = id
  BY <1>1, <1>3, NumRead
<1>6. Packets!ReadNum(b, q) = Len(t) /\ SubSeq(b, q + 2, q + 1 + Len(t)) = t
  BY <1>2, <1>3, <1>4, StringRead, ZenonT(60)
<1> QED
  BY <1>4, <1>5, <1>6

LEMMA SubscribeServed ==
  ASSUME NEW id \in Nat, NEW t \in Texts, NEW q \in 0 .. 2,
         NEW p, p = [type |-> "SUBSCRIBE", id |-> id, topic |-> t, qos |-> q]
  PROVE  Packets!Encode(p) # Packets!Failed /\ Packets!ServerReads(Packets!Encode(p)) = p
<1>1. PICK type \in AllTypes : type = "SUBSCRIBE"
  BY DEF AllTypes
<1>2. PICK m \in Nat : m = Len(t) /\ t \in Seq(Nat) /\ m + 10 <= BufferSize
  BY BufferBound, LenProperties
<1>3. PICK x \in Seq(Nat), y \in Seq(Nat), z \in Seq(Nat) :
        /\ x = Packets!WriteNum(id) /\ Len(x) = 2
        /\ y = Packets!WriteString(t) /\ Len(y) = m + 2
        /\ z = <<q>> /\ Len(z) = 1 /\ z[1] = q
  <2>1. Packets!WriteNum(id) \in Seq(Nat) /\ Len(Packets!WriteNum(id)) = 2
    BY TwoBytes
  <2>2. Packets!WriteString(t) \in Seq(Nat) /\ Len(Packets!WriteString(t)) = m + 2
    BY <1>2, StringIs
  <2>3. <<q>> \in Seq(Nat) /\ Len(<<q>>) = 1 /\ <<q>>[1] = q
    OBVIOUS
  <2> QED
    BY <2>1, <2>2, <2>3
<1>4. PICK u \in Seq(Nat) : u = x \o y /\ Len(u) = m + 4
  <2>1. PICK i \in Nat, j \in Nat : i = 2 /\ j = m + 2 /\ i + j = m + 4
    OBVIOUS
  <2>2. i = Len(x) /\ j = Len(y)
    BY <1>3, <2>1
  <2>3. x \o y \in Seq(Nat) /\ Len(x \o y) = i + j
    BY <2>2, Joined
  <2> QED
    BY <2>1, <2>3
<1>5. PICK body \in Seq(Nat) : body = u \o z /\ Len(body) = m + 5
  <2>1. PICK i \in Nat, j \in Nat : i = m + 4 /\ j = 1 /\ i + j = m + 5
    OBVIOUS
  <2>2. i = Len(u) /\ j = Len(z)
    BY <1>3, <1>4, <2>1
  <2>3. u \o z \in Seq(Nat) /\ Len(u \o z) = i + j
    BY <2>2, Joined
  <2> QED
    BY <2>1, <2>3
<1>6. Packets!Encode(p) = Packets!Written(type, 1, 0, body)
  BY <1>1, <1>3, <1>4, <1>5 DEF Packets!Encode, Packets!EncodeSubscribe
<1>7. PICK n \in Nat : n = m + 5 /\ n + 5 <= BufferSize /\ n = Len(body)
  BY <1>2, <1>5, BufferBound
<1>8. PICK start \in Nat : Finds(Packets!Written(type, 1, 0, body), start, type, 2 * 1, body)
  <2>1. 1 \in 0 .. 2
    OBVIOUS
  <2> QED
    BY <1>7, <2>1, ShortWritten
<1>9. PICK f \in 0 .. 15 : f = 2 * 1 /\ f = 2
  OBVIOUS
<1>10. PICK bytes : bytes = Packets!Encode(p) /\ Finds(bytes, start, type, f, body)
  BY <1>9, <1>6, <1>8
<1>11. /\ bytes \in Seq(Nat) /\ start \in Nat \ {0} /\ Packets!TypeOf(bytes[1]) = type
       /\ 2 + Packets!ReadVarnum(bytes, 2)[2] = start /\ Packets!ReadVarnum(bytes, 2)[1] = n
       /\ Holds(bytes, start, u \o z)
  BY <1>5, <1>7, <1>10 DEF Finds
<1>12. Holds(bytes, start, u) /\ Holds(bytes, start + Len(u), z)
  BY <1>11, HoldsBoth
<1>13. /\ Packets!ReadNum(bytes, start) = id /\ Packets!ReadNum(bytes, start + 2) = m
       /\ SubSeq(bytes, start + 4, start + 3 + m) = t
  <2>1. Holds(bytes, start, Packets!WriteNum(id) \o Packets!WriteString(t))
    BY <1>3, <1>4, <1>12
  <2> QED
    BY <1>2, <1>11, <2>1, NumAndText
<1>14. bytes[(start + n) - 1] = q
  <2>1. 1 \in 1 .. Len(z) /\ Holds(bytes, start + (m + 4), z)
    BY <1>3, <1>4, <1>12
  <2>2. bytes[start + (m + 4) + 1 - 1] = z[1]
    BY <2>1 DEF Holds
  <2>3. start + (m + 4) + 1 - 1 = (start + n) - 1
    BY <1>7, <1>11
  <2> QED
    BY <1>3, <2>2, <2>3
<1>15. Packets!ServerReads(bytes) =
         [type |-> "SUBSCRIBE", id |-> Packets!ReadNum(bytes, start),
          topic |-> SubSeq(bytes, (start + 2) + 2, ((start + 2) + 2 + Packets!ReadNum(bytes, start + 2)) - 1),
          qos |-> bytes[(start + n) - 1]]
  <2>1. f = IF type \in {"PUBREL", "SUBSCRIBE", "UNSUBSCRIBE"} THEN 2 ELSE 0
    BY <1>9, <1>1
  <2>2. Whole(bytes) /\ ~Odd(bytes)
    BY <1>10, <2>1, ServerLooks
  <2>3. PICK s, e : s = 2 + Packets!ReadVarnum(bytes, 2)[2] /\ e = s + Packets!ReadVarnum(bytes, 2)[1]
    OBVIOUS
  <2>4. Packets!TypeOf(bytes[1]) = "SUBSCRIBE"
    BY <1>1, <1>11
  <2>5. Packets!ServerReads(bytes) =
         [type |-> "SUBSCRIBE", id |-> Packets!ReadNum(bytes, s),
          topic |-> SubSeq(bytes, (s + 2) + 2, ((s + 2) + 2 + Packets!ReadNum(bytes, s + 2)) - 1),
          qos |-> bytes[e - 1]]
    BY <2>2, <2>3, <2>4 DEF Packets!ServerReads, Whole, Odd
  <2>6. e = start + n
    BY <1>11, <2>3
  <2> QED
    BY <1>11, <2>3, <2>5, <2>6
<1>16. (start + 2) + 2 = start + 4 /\ ((start + 2) + 2 + m) - 1 = start + 3 + m
  BY <1>11
<1> QED
  BY <1>10, <1>13, <1>14, <1>15, <1>16 DEF Finds

LEMMA UnsubscribeServed ==
  ASSUME NEW id \in Nat, NEW t \in Texts, NEW p, p = [type |-> "UNSUBSCRIBE", id |-> id, topic |-> t]
  PROVE  Packets!Encode(p) # Packets!Failed /\ Packets!ServerReads(Packets!Encode(p)) = p
<1>1. PICK type \in AllTypes : type = "UNSUBSCRIBE"
  BY DEF AllTypes
<1>2. PICK m \in Nat : m = Len(t) /\ t \in Seq(Nat) /\ m + 10 <= BufferSize
  BY BufferBound, LenProperties
<1>3. PICK x \in Seq(Nat), y \in Seq(Nat) :
        /\ x = Packets!WriteNum(id) /\ Len(x) = 2 /\ y = Packets!WriteString(t) /\ Len(y) = m + 2
  <2>1. Packets!WriteNum(id) \in Seq(Nat) /\ Len(Packets!WriteNum(id)) = 2
    BY TwoBytes
  <2>2. Packets!WriteString(t) \in Seq(Nat) /\ Len(Packets!WriteString(t)) = m + 2
    BY <1>2, StringIs
  <2> QED
    BY <2>1, <2>2
<1>4. PICK body \in Seq(Nat) : body = x \o y /\ Len(body) = m + 4
  <2>1. PICK i \in Nat, j \in Nat : i = 2 /\ j = m + 2 /\ i + j = m + 4
    OBVIOUS
  <2>2. i = Len(x) /\ j = Len(y)
    BY <1>3, <2>1
  <2>3. x \o y \in Seq(Nat) /\ Len(x \o y) = i + j
    BY <2>2, Joined
  <2> QED
    BY <2>1, <2>3
<1>5. Packets!Encode(p) = Packets!Written(type, 1, 0, body)
  BY <1>1, <1>3, <1>4 DEF Packets!Encode, Packets!EncodeUnsubscribe
<1>6. PICK n \in Nat : n = m + 4 /\ n + 5 <= BufferSize /\ n = Len(body)
  BY <1>2, <1>4, BufferBound
<1>7. PICK start \in Nat : Finds(Packets!Written(type, 1, 0, body), start, type, 2 * 1, body)
  <2>1. 1 \in 0 .. 2
    OBVIOUS
  <2> QED
    BY <1>6, <2>1, ShortWritten
<1>8. PICK f \in 0 .. 15 : f = 2 * 1 /\ f = 2
  OBVIOUS
<1>9. PICK bytes : bytes = Packets!Encode(p) /\ Finds(bytes, start, type, f, body)
  BY <1>8, <1>5, <1>7
<1>10. /\ bytes \in Seq(Nat) /\ start \in Nat \ {0} /\ Packets!TypeOf(bytes[1]) = type
       /\ 2 + Packets!ReadVarnum(bytes, 2)[2] = start /\ Holds(bytes, start, x \o y)
  BY <1>4, <1>9 DEF Finds
<1>11. /\ Packets!ReadNum(bytes, start) = id /\ Packets!ReadNum(bytes, start + 2) = m
       /\ SubSeq(bytes, start + 4, start + 3 + m) = t
  BY <1>2, <1>3, <1>10, NumAndText
<1>12. Packets!ServerReads(bytes) =
         [type |-> "UNSUBSCRIBE", id |-> Packets!ReadNum(bytes, start),
          topic |-> SubSeq(bytes, (start + 2) + 2, ((start + 2) + 2 + Packets!ReadNum(bytes, start + 2)) - 1)]
  <2>1. f = IF type \in {"PUBREL", "SUBSCRIBE", "UNSUBSCRIBE"} THEN 2 ELSE 0
    BY <1>8, <1>1
  <2>2. Whole(bytes) /\ ~Odd(bytes)
    BY <1>9, <2>1, ServerLooks
  <2>3. PICK s : s = 2 + Packets!ReadVarnum(bytes, 2)[2]
    OBVIOUS
  <2>4. Packets!TypeOf(bytes[1]) = "UNSUBSCRIBE"
    BY <1>1, <1>10
  <2>5. Packets!ServerReads(bytes) =
         [type |-> "UNSUBSCRIBE", id |-> Packets!ReadNum(bytes, s),
          topic |-> SubSeq(bytes, (s + 2) + 2, ((s + 2) + 2 + Packets!ReadNum(bytes, s + 2)) - 1)]
    BY <2>2, <2>3, <2>4 DEF Packets!ServerReads, Whole, Odd
  <2> QED
    BY <1>10, <2>3, <2>5
<1>13. (start + 2) + 2 = start + 4 /\ ((start + 2) + 2 + m) - 1 = start + 3 + m
  BY <1>10
<1> QED
  BY <1>9, <1>11, <1>12, <1>13 DEF Finds

-----------------------------------------------------------------------------
(* Publishes, of both sides.                                               *)

\* The number of a publish is there with a quality of service only.
NumberOf(q, id) == IF q > 0 THEN Packets!WriteNum(id) ELSE <<>>
NumberLength(q) == IF q > 0 THEN 2 ELSE 0
PublishBody(q, id, t, m) == Packets!WriteString(t) \o NumberOf(q, id) \o m

LEMMA NumberThere ==
  ASSUME NEW q \in 0 .. 2, NEW id \in Nat
  PROVE  NumberOf(q, id) \in Seq(Nat) /\ Len(NumberOf(q, id)) = NumberLength(q) /\ NumberLength(q) \in Nat
<1>1. CASE q > 0
  BY <1>1, TwoBytes DEF NumberOf, NumberLength
<1>2. CASE ~(q > 0)
  <2>1. <<>> \in Seq(Nat) /\ Len(<<>>) = 0
    OBVIOUS
  <2> QED
    BY <1>2, <2>1 DEF NumberOf, NumberLength
<1> QED
  BY <1>1, <1>2

LEMMA BodyOfPublish ==
  ASSUME NEW q \in 0 .. 2, NEW id \in Nat, NEW t \in Seq(Nat), NEW m \in Seq(Nat),
         NEW k \in Nat, k = NumberLength(q), NEW c \in Nat, c = Len(t), NEW d \in Nat, d = Len(m)
  PROVE  PublishBody(q, id, t, m) \in Seq(Nat) /\ Len(PublishBody(q, id, t, m)) = (c + 2 + k) + d
<1>1. PICK x \in Seq(Nat), a \in Nat : x = Packets!WriteString(t) /\ a = Len(x) /\ a = c + 2
  <2>1. PICK a \in Nat : a = c + 2
    OBVIOUS
  <2> QED
    BY <2>1, StringIs
<1>2. PICK y \in Seq(Nat) : y = NumberOf(q, id) /\ k = Len(y)
  BY NumberThere
<1>3. x \o y \in Seq(Nat) /\ Len(x \o y) = Len(x) + Len(y)
  BY ConcatProperties
<1>4. PICK z \in Seq(Nat) : z = x \o y /\ Len(z) = a + k
  BY <1>1, <1>2, <1>3
<1>5. z \o m \in Seq(Nat) /\ Len(z \o m) = Len(z) + Len(m)
  BY ConcatProperties
<1>6. Len(z) + Len(m) = (c + 2 + k) + d
  BY <1>1, <1>4
<1> QED
  BY <1>1, <1>2, <1>4, <1>5, <1>6 DEF PublishBody

\* A reader finds the topic, the number and the payload.
PublishFound(b, pos, q, id, t, m) ==
  /\ Packets!ReadNum(b, pos) = Len(t) /\ SubSeq(b, pos + 2, pos + 1 + Len(t)) = t
  /\ q > 0 => Packets!ReadNum(b, pos + 2 + Len(t)) = id
  /\ SubSeq(b, pos + 2 + Len(t) + NumberLength(q), (pos + Len(PublishBody(q, id, t, m))) - 1) = m

LEMMA PublishRead ==
  ASSUME NEW b \in Seq(Nat), NEW pos \in Nat \ {0}, NEW q \in 0 .. 2, NEW id \in Nat,
         NEW t \in Seq(Nat), NEW m \in Seq(Nat),
         Holds(b, pos, PublishBody(q, id, t, m))
  PROVE  PublishFound(b, pos, q, id, t, m)
<1>1. PICK k \in Nat, c \in Nat, d \in Nat : k = NumberLength(q) /\ c = Len(t) /\ d = Len(m)
  BY NumberThere, LenProperties
<1>2. PICK after \in Nat, behind \in Nat : after = pos + 2 + c /\ behind = after + k + d
  OBVIOUS
<1>3. pos + Len(PublishBody(q, id, t, m)) = behind
  <2>1. Len(PublishBody(q, id, t, m)) = (c + 2 + k) + d
    BY <1>1, BodyOfPublish, SMTT(30)
  <2> QED
    BY <1>2, <2>1
<1>4. PICK x \in Seq(Nat) : x = Packets!WriteString(t) /\ Len(x) = c + 2
  BY <1>1, StringIs
<1>5. PICK y \in Seq(Nat) : y = NumberOf(q, id) /\ Len(y) = k
  BY <1>1, NumberThere
<1>6. PICK z \in Seq(Nat) : z = x \o y /\ Len(z) = Len(x) + Len(y)
  BY ConcatProperties
<1>7. Holds(b, pos, z \o m)
  BY <1>4, <1>5, <1>6 DEF PublishBody
<1>8. Holds(b, pos, x \o y) /\ Holds(b, pos + Len(z), m)
  BY <1>6, <1>7, HoldsBoth
<1>9. Holds(b, pos, x) /\ Holds(b, pos + Len(x), y)
  BY <1>8, HoldsBoth
<1>10. PICK a \in Nat \ {0}, e \in Nat \ {0} : a = after /\ e = after + k
  <2>1. after # 0
    BY <1>2
  <2>2. after + k # 0 /\ after + k \in Nat
    BY ONLY <2>1, after \in Nat, k \in Nat
  <2> QED
    BY <2>1, <2>2
<1>11. pos + Len(x) = a /\ pos + Len(z) = e
  BY <1>2, <1>4, <1>5, <1>6, <1>10
<1>12. Packets!ReadNum(b, pos) = c /\ SubSeq(b, pos + 2, pos + 1 + c) = t
  BY <1>1, <1>4, <1>9, StringRead
<1>13. ASSUME q > 0 PROVE Packets!ReadNum(b, a) = id
  <2>1. Holds(b, a, Packets!WriteNum(id))
    BY <1>5, <1>9, <1>11, <1>13 DEF NumberOf
  <2> QED
    BY <2>1, NumRead
<1>14. SubSeq(b, e, (e + Len(m)) - 1) = m
  <2>1. Holds(b, e, m)
    BY <1>8, <1>11
  <2>2. SubSeq(b, e, e + Len(m) - 1) = m
    BY <2>1, CutOut
  <2>3. e + Len(m) - 1 = (e + Len(m)) - 1
    OBVIOUS
  <2> QED
    BY <2>2, <2>3
<1>15. e + Len(m) = behind
  BY <1>1, <1>2, <1>10
<1> QED
  BY <1>1, <1>2, <1>3, <1>10, <1>12, <1>13, <1>14, <1>15 DEF PublishFound

LEMMA PublishServed ==
  ASSUME NEW q \in 0 .. 2, NEW r \in BOOLEAN, NEW t \in Texts, NEW m \in Texts, NEW i \in Nat,
         NEW p, p = [type |-> "PUBLISH", qos |-> q, retained |-> r, topic |-> t, payload |-> m,
                     id |-> IF q > 0 THEN i ELSE 0]
  PROVE  Packets!Encode(p) # Packets!Failed => Packets!ServerReads(Packets!Encode(p)) = p
<1>1. PICK type \in AllTypes : type = "PUBLISH"
  BY DEF AllTypes
<1>2. t \in Seq(Nat) /\ m \in Seq(Nat)
  BY BufferBound
<1>3. PICK id \in Nat : id = IF q > 0 THEN i ELSE 0
  OBVIOUS
<1>4. PICK kept \in 0 .. 1 : kept = Packets!Flag(r) /\ (kept = 1 <=> r)
  BY DEF Packets!Flag
<1>5. PICK k \in Nat, c \in Nat, d \in Nat : k = NumberLength(q) /\ c = Len(t) /\ d = Len(m)
  BY <1>2, LenProperties DEF NumberLength
<1>6. PICK body \in Seq(Nat), n \in Nat :
        body = PublishBody(q, id, t, m) /\ n = Len(body) /\ n = (c + 2 + k) + d
  <2>1. PublishBody(q, id, t, m) \in Seq(Nat) /\ Len(PublishBody(q, id, t, m)) = (c + 2 + k) + d
    BY <1>2, <1>5, BodyOfPublish, SMTT(30)
  <2>2. (c + 2 + k) + d \in Nat
    OBVIOUS
  <2> QED
    BY <2>1, <2>2
<1>7. PICK f \in 0 .. 15 : f = 2 * q + kept /\ (f % 8) \div 2 = q /\ f % 2 = kept
  OBVIOUS
<1>8. Packets!Encode(p) = Packets!Written(type, q, kept, body)
  BY <1>1, <1>3, <1>4, <1>6 DEF Packets!Encode, Packets!EncodePublish, PublishBody, NumberOf
<1>9. PICK w : w = Framed(First(type, f), body)
  OBVIOUS
<1>10. Packets!Encode(p) = IF Len(w) > BufferSize THEN Packets!Failed ELSE w
  <2>1. f = 2 * q + kept
    BY <1>7
  <2>2. WrittenAs(type, q, kept, f, body)
    BY <2>1, WrittenFrame
  <2> QED
    BY <1>8, <1>9, <2>2 DEF WrittenAs
<1>11. SUFFICES ASSUME ~(Len(w) > BufferSize)
                PROVE  Packets!ServerReads(w) = p
  BY <1>10
<1>12. Len(w) <= BufferSize
  <2>1. PICK first \in Nat : first = First(type, f)
    BY FirstByte
  <2>2. w \in Seq(Nat)
    BY <1>9, <2>1, FramedIs
  <2>3. Len(w) \in Nat /\ BufferSize \in Nat
    BY <2>2, BufferBound, LenProperties
  <2> QED
    BY <1>11, <2>3
<1>13. PICK start \in Nat : Finds(w, start, type, f, body)
  BY <1>9, <1>12, ServerFinds
<1>14. /\ w \in Seq(Nat) /\ start \in Nat \ {0} /\ Packets!TypeOf(w[1]) = "PUBLISH"
       /\ 2 + Packets!ReadVarnum(w, 2)[2] = start /\ Packets!ReadVarnum(w, 2)[1] = n
       /\ Holds(w, start, body)
  BY <1>1, <1>6, <1>13 DEF Finds
<1>15. Whole(w) /\ w[1] % 16 = f /\ ~Odd(w)
  BY <1>1, <1>13, ServerLooks
<1>16. PICK after \in Nat, behind \in Nat : after = start + 2 + c /\ behind = after + k + d
  BY <1>14
<1>17. /\ Packets!ReadNum(w, start) = c /\ SubSeq(w, start + 2, start + 1 + c) = t
       /\ q > 0 => Packets!ReadNum(w, after) = id
       /\ SubSeq(w, after + k, behind - 1) = m
  <2>1. w \in Seq(Nat) /\ start \in Nat \ {0} /\ Holds(w, start, PublishBody(q, id, t, m))
    BY <1>6, <1>14
  <2>2. PublishFound(w, start, q, id, t, m)
    BY <1>2, <2>1, PublishRead
  <2>3. start + Len(PublishBody(q, id, t, m)) = behind
    BY <1>6, <1>14, <1>16
  <2> QED
    BY <1>5, <1>16, <2>2, <2>3 DEF PublishFound
<1>18. PICK s, e, g, h :
         /\ s = 2 + Packets!ReadVarnum(w, 2)[2] /\ e = s + Packets!ReadVarnum(w, 2)[1]
         /\ g = ((w[1] % 16) % 8) \div 2 /\ h = s + 2 + Packets!ReadNum(w, s)
  OBVIOUS
<1>19. Packets!ServerReads(w) =
         [type |-> "PUBLISH", qos |-> g, retained |-> (w[1] % 16) % 2 = 1,
          topic |-> SubSeq(w, s + 2, h - 1),
          id |-> IF g > 0 THEN Packets!ReadNum(w, h) ELSE 0,
          payload |-> SubSeq(w, h + (IF g > 0 THEN 2 ELSE 0), e - 1)]
  BY <1>14, <1>15, <1>18 DEF Packets!ServerReads, Whole, Odd
<1>20. s = start /\ e = start + n /\ g = q
  BY <1>7, <1>14, <1>15, <1>18
<1>21. h = after /\ h - 1 = start + 1 + c /\ e = behind
  <2>1. h = start + 2 + c
    BY <1>17, <1>18, <1>20
  <2> QED
    BY <1>6, <1>14, <1>16, <1>20, <2>1
<1>22. ((w[1] % 16) % 2 = 1) = r
  BY <1>4, <1>7, <1>15
<1>23. (IF g > 0 THEN Packets!ReadNum(w, h) ELSE 0) = IF q > 0 THEN i ELSE 0
  BY <1>3, <1>17, <1>20, <1>21
<1>24. (IF g > 0 THEN 2 ELSE 0) = k
  BY <1>5, <1>20 DEF NumberLength
<1>25. SubSeq(w, s + 2, h - 1) = t /\ SubSeq(w, h + (IF g > 0 THEN 2 ELSE 0), e - 1) = m
  BY <1>17, <1>20, <1>21, <1>24
<1> QED
  BY <1>19, <1>20, <1>22, <1>23, <1>25

-----------------------------------------------------------------------------
(* The connect packet.                                                     *)

\* A text at a place, as the server reads it.
TextAt(b, pos, t) ==
  /\ Packets!ReadNum(b, pos) = Len(t)
  /\ SubSeq(b, pos + 2, (pos + 2 + Packets!ReadNum(b, pos)) - 1) = t

LEMMA TextRead ==
  ASSUME NEW b \in Seq(Nat), NEW pos \in Nat \ {0}, NEW t \in Seq(Nat),
         Holds(b, pos, Packets!WriteString(t))
  PROVE  TextAt(b, pos, t)
<1>1. Packets!ReadNum(b, pos) = Len(t) /\ SubSeq(b, pos + 2, pos + 2 + Len(t) - 1) = t
  BY StringRead
<1>2. PICK m \in Nat : m = Len(t)
  BY LenProperties
<1>3. pos + 2 + m - 1 = (pos + 2 + m) - 1
  OBVIOUS
<1> QED
  BY <1>1, <1>2, <1>3 DEF TextAt

TextPart(on, t) == IF on THEN Packets!WriteString(t) ELSE <<>>
TextLength(on, t) == IF on THEN Len(t) + 2 ELSE 0

LEMMA TextThere ==
  ASSUME NEW on \in BOOLEAN, NEW t \in Seq(Nat)
  PROVE  /\ TextPart(on, t) \in Seq(Nat) /\ Len(TextPart(on, t)) = TextLength(on, t)
         /\ TextLength(on, t) \in Nat
<1>1. CASE on
  <2>1. Len(t) + 2 \in Nat
    BY LenProperties
  <2> QED
    BY <1>1, <2>1, StringIs DEF TextPart, TextLength
<1>2. CASE ~on
  <2>1. <<>> \in Seq(Nat) /\ Len(<<>>) = 0
    OBVIOUS
  <2> QED
    BY <1>2, <2>1 DEF TextPart, TextLength
<1> QED
  BY <1>1, <1>2

\* The fields in front of the texts: the protocol, its level, the flags and
\* the time.
ConnectHead(f) == Packets!WriteString(<<77, 81, 84, 84>>) \o <<4, f>> \o Packets!WriteNum(10)

LEMMA ConnectHeadIs ==
  ASSUME NEW f \in Nat
  PROVE  ConnectHead(f) \in Seq(Nat) /\ Len(ConnectHead(f)) = 10
<1>1. PICK x \in Seq(Nat) : x = Packets!WriteString(<<77, 81, 84, 84>>) /\ Len(x) = 6
  <2>1. <<77, 81, 84, 84>> \in Seq(Nat) /\ Len(<<77, 81, 84, 84>>) = 4
    OBVIOUS
  <2>2. PICK m \in Seq(Nat) : m = <<77, 81, 84, 84>> /\ Len(m) = 4
    BY <2>1
  <2>3. Packets!WriteString(m) \in Seq(Nat) /\ Len(Packets!WriteString(m)) = Len(m) + 2
    BY StringIs
  <2> QED
    BY <2>2, <2>3
<1>2. PICK y \in Seq(Nat) : y = <<4, f>> /\ Len(y) = 2
  <2>1. <<4, f>> \in Seq(Nat) /\ Len(<<4, f>>) = 2
    OBVIOUS
  <2> QED
    BY <2>1
<1>3. PICK z \in Seq(Nat) : z = Packets!WriteNum(10) /\ Len(z) = 2
  <2>1. 10 \in Nat
    OBVIOUS
  <2> QED
    BY <2>1, TwoBytes, ZenonT(60)
<1>4. PICK u \in Seq(Nat) : u = x \o y /\ Len(u) = 8
  <2>1. x \o y \in Seq(Nat) /\ Len(x \o y) = Len(x) + Len(y)
    BY ConcatProperties
  <2>2. Len(x) = 6 /\ Len(y) = 2
    BY <1>1, <1>2
  <2>3. PICK u : u = x \o y
    OBVIOUS
  <2>4. u \in Seq(Nat) /\ Len(u) = 8
    BY <2>1, <2>2, <2>3
  <2> QED
    BY <2>3, <2>4
<1>5. u \o z \in Seq(Nat) /\ Len(u \o z) = Len(u) + Len(z)
  BY ConcatProperties
<1>6. Len(u) + Len(z) = 10
  <2>1. Len(u) = 8 /\ Len(z) = 2
    BY <1>3, <1>4
  <2> QED
    BY <2>1
<1>7. ConnectHead(f) = u \o z
  BY <1>1, <1>2, <1>3, <1>4 DEF ConnectHead
<1> QED
  BY <1>5, <1>6, <1>7

LEMMA ConnectHeadRead ==
  ASSUME NEW b \in Seq(Nat), NEW pos \in Nat \ {0}, NEW f \in Nat, Holds(b, pos, ConnectHead(f))
  PROVE  b[pos + 7] = f /\ Packets!ReadNum(b, pos + 8) = 10
<1>1. PICK x \in Seq(Nat) : x = Packets!WriteString(<<77, 81, 84, 84>>) /\ Len(x) = 6
  <2>1. <<77, 81, 84, 84>> \in Seq(Nat) /\ Len(<<77, 81, 84, 84>>) = 4
    OBVIOUS
  <2>2. PICK m \in Seq(Nat) : m = <<77, 81, 84, 84>> /\ Len(m) = 4
    BY <2>1
  <2>3. Packets!WriteString(m) \in Seq(Nat) /\ Len(Packets!WriteString(m)) = Len(m) + 2
    BY StringIs
  <2> QED
    BY <2>2, <2>3
<1>2. PICK y \in Seq(Nat) : y = <<4, f>> /\ Len(y) = 2 /\ y[2] = f
  <2>1. <<4, f>> \in Seq(Nat) /\ Len(<<4, f>>) = 2 /\ <<4, f>>[2] = f
    OBVIOUS
  <2> QED
    BY <2>1
<1>3. PICK ten \in Nat, z \in Seq(Nat) : ten = 10 /\ z = Packets!WriteNum(ten)
  <2>1. PICK ten \in Nat : ten = 10
    OBVIOUS
  <2> QED
    BY <2>1, TwoBytes
<1>4. PICK u \in Seq(Nat) : u = x \o y /\ Len(u) = 8
  <2>1. x \o y \in Seq(Nat) /\ Len(x \o y) = Len(x) + Len(y)
    BY ConcatProperties
  <2>2. Len(x) = 6 /\ Len(y) = 2
    BY <1>1, <1>2
  <2>3. PICK u : u = x \o y
    OBVIOUS
  <2>4. u \in Seq(Nat) /\ Len(u) = 8
    BY <2>1, <2>2, <2>3
  <2> QED
    BY <2>3, <2>4
<1>5. Holds(b, pos, u \o z)
  BY <1>1, <1>2, <1>3, <1>4 DEF ConnectHead
<1>6. Holds(b, pos, x \o y) /\ Holds(b, pos + Len(u), z)
  BY <1>4, <1>5, HoldsBoth
<1>7. Holds(b, pos + Len(x), y)
  BY <1>6, HoldsBoth
<1>8. PICK p6 \in Nat, p8 \in Nat : p6 = pos + 6 /\ p8 = pos + 8 /\ (p6 + 2) - 1 = pos + 7
  OBVIOUS
<1>9. b[(p6 + 2) - 1] = f
  <2>1. Len(x) = 6 /\ Len(y) = 2
    BY <1>1, <1>2
  <2>2. 2 \in 1 .. Len(y) /\ pos + Len(x) = p6
    BY <1>8, <2>1
  <2>3. Holds(b, p6, y) /\ 2 \in 1 .. Len(y)
    BY <1>7, <2>2
  <2>4. b[p6 + 2 - 1] = y[2]
    BY <2>3 DEF Holds
  <2>5. p6 + 2 - 1 = (p6 + 2) - 1
    OBVIOUS
  <2> QED
    BY <1>2, <2>4, <2>5
<1>10. Packets!ReadNum(b, p8) = 10
  <2>1. Holds(b, p8, Packets!WriteNum(ten))
    BY <1>3, <1>4, <1>6, <1>8
  <2> QED
    BY <1>3, <2>1, NumRead
<1> QED
  BY <1>8, <1>9, <1>10

\* Each flag is read where it was set.
FlagsFound(f, a, w, x, u) ==
  /\ Packets!BitsOf(f, 1, 1) = a /\ Packets!BitsOf(f, 2, 1) = w /\ Packets!BitsOf(f, 3, 2) = 2 * w
  /\ Packets!BitsOf(f, 5, 1) = w /\ Packets!BitsOf(f, 6, 1) = x /\ Packets!BitsOf(f, 7, 1) = u

LEMMA ConnectFlags ==
  ASSUME NEW a \in 0 .. 1, NEW w \in 0 .. 1, NEW x \in 0 .. 1, NEW u \in 0 .. 1,
         NEW f, f = 2 * a + 52 * w + 64 * x + 128 * u
  PROVE  FlagsFound(f, a, w, x, u)
<1>1. Packets!BitsOf(f, 1, 1) = a /\ Packets!BitsOf(f, 2, 1) = w
  BY SmallPowers DEF Packets!BitsOf
<1>2. Packets!BitsOf(f, 3, 2) = 2 * w /\ Packets!BitsOf(f, 5, 1) = w
  BY SmallPowers DEF Packets!BitsOf
<1>3. Packets!BitsOf(f, 6, 1) = x /\ Packets!BitsOf(f, 7, 1) = u
  BY SmallPowers DEF Packets!BitsOf
<1> QED
  BY <1>1, <1>2, <1>3 DEF FlagsFound

WillPart(w, t, n) == IF w THEN Packets!WriteString(t) \o Packets!WriteString(n) ELSE <<>>
WillLength(w, t, n) == IF w THEN (Len(t) + 2) + (Len(n) + 2) ELSE 0

LEMMA WillThere ==
  ASSUME NEW w \in BOOLEAN, NEW t \in Seq(Nat), NEW n \in Seq(Nat)
  PROVE  /\ WillPart(w, t, n) \in Seq(Nat) /\ Len(WillPart(w, t, n)) = WillLength(w, t, n)
         /\ WillLength(w, t, n) \in Nat
<1>1. CASE w
  <2>1. PICK x \in Seq(Nat) : x = Packets!WriteString(t) /\ Len(x) = Len(t) + 2
    BY StringIs
  <2>2. PICK y \in Seq(Nat) : y = Packets!WriteString(n) /\ Len(y) = Len(n) + 2
    BY StringIs
  <2>3. x \o y \in Seq(Nat) /\ Len(x \o y) = Len(x) + Len(y)
    BY ConcatProperties
  <2>4. (Len(t) + 2) + (Len(n) + 2) \in Nat
    BY LenProperties
  <2> QED
    BY <1>1, <2>1, <2>2, <2>3, <2>4 DEF WillPart, WillLength
<1>2. CASE ~w
  <2>1. <<>> \in Seq(Nat) /\ Len(<<>>) = 0
    OBVIOUS
  <2> QED
    BY <1>2, <2>1 DEF WillPart, WillLength
<1> QED
  BY <1>1, <1>2

ConnectBody(f, n, w, t, us, u, pa, x) ==
  ConnectHead(f) \o Packets!WriteString(n) \o WillPart(w, t, n) \o TextPart(us, u) \o TextPart(pa, x)

LEMMA ConnectBodyIs ==
  ASSUME NEW f \in Nat, NEW n \in Seq(Nat), NEW w \in BOOLEAN, NEW t \in Seq(Nat),
         NEW us \in BOOLEAN, NEW u \in Seq(Nat), NEW pa \in BOOLEAN, NEW x \in Seq(Nat)
  PROVE  ConnectBody(f, n, w, t, us, u, pa, x) \in Seq(Nat)
<1>1. PICK h \in Seq(Nat) : h = ConnectHead(f)
  BY ConnectHeadIs
<1>2. PICK i \in Seq(Nat) : i = Packets!WriteString(n)
  BY StringIs
<1>3. PICK j \in Seq(Nat) : j = WillPart(w, t, n)
  BY WillThere
<1>4. PICK k \in Seq(Nat) : k = TextPart(us, u)
  BY TextThere
<1>5. PICK l \in Seq(Nat) : l = TextPart(pa, x)
  BY TextThere
<1>6. PICK c1 \in Seq(Nat) : c1 = h \o i
  BY ConcatProperties
<1>7. PICK c2 \in Seq(Nat) : c2 = c1 \o j
  BY ConcatProperties
<1>8. PICK c3 \in Seq(Nat) : c3 = c2 \o k
  BY ConcatProperties
<1>9. c3 \o l \in Seq(Nat)
  BY ConcatProperties
<1> QED
  BY <1>1, <1>2, <1>3, <1>4, <1>5, <1>6, <1>7, <1>8, <1>9 DEF ConnectBody

\* Where the texts of a connect begin.
WillAt(pos, n) == pos + 10 + 2 + Len(n)
UserAt(pos, n, w, t) == WillAt(pos, n) + WillLength(w, t, n)
PassAt(pos, n, w, t, us, u) == UserAt(pos, n, w, t) + TextLength(us, u)

HeadFound(b, pos, f, n) == b[pos + 7] = f /\ Packets!ReadNum(b, pos + 8) = 10 /\ TextAt(b, pos + 10, n)
WillFound(b, pos, n, t) ==
  TextAt(b, WillAt(pos, n), t) /\ TextAt(b, WillAt(pos, n) + (Len(t) + 2), n)
ConnectFound(b, pos, f, n, w, t, us, u, pa, x) ==
  /\ HeadFound(b, pos, f, n)
  /\ w => WillFound(b, pos, n, t)
  /\ us => TextAt(b, UserAt(pos, n, w, t), u)
  /\ pa => TextAt(b, PassAt(pos, n, w, t, us, u), x)

HoldsConnect(b, pos, f, n, w, t, us, u, pa, x) ==
  /\ b \in Seq(Nat) /\ pos \in Nat \ {0} /\ f \in Nat /\ n \in Seq(Nat) /\ w \in BOOLEAN
  /\ t \in Seq(Nat) /\ us \in BOOLEAN /\ u \in Seq(Nat) /\ pa \in BOOLEAN /\ x \in Seq(Nat)
  /\ Holds(b, pos, ConnectBody(f, n, w, t, us, u, pa, x))

LEMMA ConnectRead ==
  ASSUME NEW b, NEW pos, NEW f, NEW n, NEW w, NEW t, NEW us, NEW u, NEW pa, NEW x,
         HoldsConnect(b, pos, f, n, w, t, us, u, pa, x)
  PROVE  ConnectFound(b, pos, f, n, w, t, us, u, pa, x)
<1>1. /\ b \in Seq(Nat) /\ pos \in Nat \ {0} /\ f \in Nat /\ n \in Seq(Nat) /\ w \in BOOLEAN
      /\ t \in Seq(Nat) /\ us \in BOOLEAN /\ u \in Seq(Nat) /\ pa \in BOOLEAN /\ x \in Seq(Nat)
  BY DEF HoldsConnect
<1> USE <1>1
<1>2. PICK h \in Seq(Nat) : h = ConnectHead(f) /\ Len(h) = 10
  BY ConnectHeadIs
<1>3. PICK i \in Seq(Nat) : i = Packets!WriteString(n) /\ Len(i) = Len(n) + 2
  BY StringIs
<1>4. PICK j \in Seq(Nat) : j = WillPart(w, t, n) /\ Len(j) = WillLength(w, t, n)
  BY WillThere
<1>5. PICK k \in Seq(Nat) : k = TextPart(us, u) /\ Len(k) = TextLength(us, u)
  BY TextThere
<1>6. PICK l \in Seq(Nat) : l = TextPart(pa, x)
  BY TextThere
<1>7. PICK c1 \in Seq(Nat) : c1 = h \o i /\ Len(c1) = Len(h) + Len(i)
  BY ConcatProperties
<1>8. PICK c2 \in Seq(Nat) : c2 = c1 \o j /\ Len(c2) = Len(c1) + Len(j)
  BY ConcatProperties
<1>9. PICK c3 \in Seq(Nat) : c3 = c2 \o k /\ Len(c3) = Len(c2) + Len(k)
  BY ConcatProperties, ZenonT(60)
<1>10. Holds(b, pos, c3 \o l)
  BY <1>2, <1>3, <1>4, <1>5, <1>6, <1>7, <1>8, <1>9 DEF ConnectBody, HoldsConnect
<1>11. Holds(b, pos, c2 \o k) /\ Holds(b, pos + Len(c3), l)
  BY <1>9, <1>10, HoldsBoth
<1>12. Holds(b, pos, c1 \o j) /\ Holds(b, pos + Len(c2), k)
  BY <1>8, <1>11, HoldsBoth
<1>13. Holds(b, pos, h \o i) /\ Holds(b, pos + Len(c1), j)
  BY <1>7, <1>12, HoldsBoth
<1>14. Holds(b, pos, h) /\ Holds(b, pos + Len(h), i)
  BY <1>13, HoldsBoth
<1>15. PICK lt \in Nat, ln \in Nat, lw \in Nat, lu \in Nat :
         lt = Len(t) /\ ln = Len(n) /\ lw = WillLength(w, t, n) /\ lu = TextLength(us, u)
  BY LenProperties, WillThere, TextThere
<1>16. PICK p1 \in Nat \ {0}, p2 \in Nat \ {0}, p3 \in Nat \ {0}, p4 \in Nat \ {0}, p5 \in Nat \ {0} :
         /\ p1 = pos + 10 /\ p2 = pos + 10 + 2 + ln /\ p3 = p2 + lw /\ p4 = p3 + lu
         /\ p5 = p2 + (lt + 2)
  BY SMTT(30)
<1>17. /\ p2 = WillAt(pos, n) /\ p3 = UserAt(pos, n, w, t) /\ p4 = PassAt(pos, n, w, t, us, u)
  BY <1>15, <1>16 DEF WillAt, UserAt, PassAt
<1>18. Len(h) = 10 /\ Len(i) = ln + 2 /\ Len(j) = lw /\ Len(k) = lu
  BY <1>2, <1>3, <1>4, <1>5, <1>15
<1>19. Len(c1) = 12 + ln /\ Len(c2) = 12 + ln + lw /\ Len(c3) = 12 + ln + lw + lu
  BY <1>7, <1>8, <1>9, <1>18
<1>20. pos + Len(h) = p1 /\ pos + Len(c1) = p2 /\ pos + Len(c2) = p3 /\ pos + Len(c3) = p4
  BY <1>16, <1>18, <1>19
<1>21. HeadFound(b, pos, f, n)
  <2>1. b[pos + 7] = f /\ Packets!ReadNum(b, pos + 8) = 10
    BY <1>2, <1>14, ConnectHeadRead
  <2>2. Holds(b, p1, Packets!WriteString(n))
    BY <1>3, <1>14, <1>20
  <2>3. TextAt(b, p1, n)
    BY <2>2, TextRead
  <2> QED
    BY <1>16, <2>1, <2>3 DEF HeadFound
<1>22. ASSUME w PROVE WillFound(b, pos, n, t)
  <2>1. PICK y \in Seq(Nat), z \in Seq(Nat) :
          y = Packets!WriteString(t) /\ Len(y) = lt + 2 /\ z = Packets!WriteString(n)
    BY <1>15, StringIs
  <2>2. Holds(b, p2, y \o z)
    BY <1>4, <1>13, <1>20, <1>22, <2>1 DEF WillPart
  <2>3. Holds(b, p2, y) /\ Holds(b, p2 + Len(y), z)
    BY <2>2, HoldsBoth
  <2>4. Holds(b, p2, Packets!WriteString(t)) /\ Holds(b, p5, Packets!WriteString(n))
    BY <1>16, <2>1, <2>3
  <2>5. TextAt(b, p2, t) /\ TextAt(b, p5, n)
    BY <2>4, TextRead
  <2> QED
    BY <1>15, <1>16, <1>17, <2>5 DEF WillFound
<1>23. ASSUME us PROVE TextAt(b, p3, u)
  <2>1. Holds(b, p3, Packets!WriteString(u))
    BY <1>5, <1>12, <1>20, <1>23 DEF TextPart
  <2> QED
    BY <2>1, TextRead
<1>24. ASSUME pa PROVE TextAt(b, p4, x)
  <2>1. Holds(b, p4, Packets!WriteString(x))
    BY <1>6, <1>11, <1>20, <1>24 DEF TextPart
  <2> QED
    BY <2>1, TextRead
<1> QED
  BY <1>17, <1>21, <1>22, <1>23, <1>24 DEF ConnectFound

\* The server's Text and Next2.
TextFrom(b, pos) == SubSeq(b, pos + 2, (pos + 2 + Packets!ReadNum(b, pos)) - 1)
Behind(b, pos) == pos + 2 + Packets!ReadNum(b, pos)

LEMMA TextFound ==
  ASSUME NEW b, NEW pos, NEW t, TextAt(b, pos, t)
  PROVE  TextFrom(b, pos) = t /\ Behind(b, pos) = pos + 2 + Len(t)
BY SMTT(30) DEF TextAt, TextFrom, Behind

\* What the server makes of a connect, given where the will and the user are.
TakenForConnect(b, s, f, v, y) ==
  Packets!ServerReads(b) =
    [type |-> "CONNECT", clean |-> Packets!BitsOf(f, 1, 1) = 1,
     keep_alive |-> Packets!ReadNum(b, s + 8), client_id |-> TextFrom(b, s + 10),
     has_will |-> Packets!BitsOf(f, 2, 1) = 1,
     will_qos |-> Packets!BitsOf(f, 3, 2), will_retained |-> Packets!BitsOf(f, 5, 1) = 1,
     will_topic |-> IF Packets!BitsOf(f, 2, 1) = 1 THEN TextFrom(b, v) ELSE <<>>,
     will_payload |-> IF Packets!BitsOf(f, 2, 1) = 1 THEN TextFrom(b, Behind(b, v)) ELSE <<>>,
     user |-> IF Packets!BitsOf(f, 7, 1) = 1 THEN TextFrom(b, y) ELSE <<>>,
     pass |-> IF Packets!BitsOf(f, 6, 1) = 1 THEN TextFrom(b, Behind(b, y)) ELSE <<>>]

LEMMA ServerReadsConnect ==
  ASSUME NEW b, Whole(b), ~Odd(b), Packets!TypeOf(b[1]) = "CONNECT",
         NEW s, s = 2 + Packets!ReadVarnum(b, 2)[2], NEW f, f = b[s + 7],
         NEW v, v = s + 10 + 2 + Packets!ReadNum(b, s + 10),
         NEW y, y = IF Packets!BitsOf(f, 2, 1) = 1 THEN Behind(b, Behind(b, v)) ELSE v
  PROVE  TakenForConnect(b, s, f, v, y)
BY DEF Packets!ServerReads, Whole, Odd, Behind, TextFrom, TakenForConnect

\* The connect of EncodeConnect, and its flags.
FlagsOf(p) ==
  2 * Packets!Flag(p.clean)
  + (IF p.has_will THEN 4 + 8 * p.will_qos + 32 * Packets!Flag(p.will_retained) ELSE 0)
  + 64 * Packets!Flag(p.user # <<>> /\ p.pass # <<>>) + 128 * Packets!Flag(p.user # <<>>)
ConnectWith(p, flags) ==
  Packets!Written("CONNECT", 0, 0,
    Packets!WriteString(<<77, 81, 84, 84>>) \o <<4, flags>> \o Packets!WriteNum(p.keep_alive)
    \o Packets!WriteString(p.client_id)
    \o (IF p.has_will THEN Packets!WriteString(p.will_topic) \o Packets!WriteString(p.will_payload)
         ELSE <<>>)
    \o (IF p.user # <<>> THEN Packets!WriteString(p.user) ELSE <<>>)
    \o (IF p.user # <<>> /\ p.pass # <<>> THEN Packets!WriteString(p.pass) ELSE <<>>))

LEMMA ConnectServed ==
  ASSUME NEW c \in BOOLEAN, NEW n \in Texts, NEW w \in BOOLEAN, NEW t \in Texts, NEW u \in Texts,
         NEW p, p = [type |-> "CONNECT", clean |-> c, keep_alive |-> 10, client_id |-> n, has_will |-> w,
                     will_qos |-> IF w THEN 2 ELSE 0, will_retained |-> w,
                     will_topic |-> IF w THEN t ELSE <<>>, will_payload |-> IF w THEN n ELSE <<>>,
                     user |-> u, pass |-> IF u = <<>> THEN <<>> ELSE t]
  PROVE  Packets!Encode(p) # Packets!Failed => Packets!ServerReads(Packets!Encode(p)) = p
<1>1. PICK type \in AllTypes : type = "CONNECT"
  BY DEF AllTypes
<1>2. n \in Seq(Nat) /\ t \in Seq(Nat) /\ u \in Seq(Nat)
  BY BufferBound
<1>3. PICK x \in Seq(Nat) : x = IF u = <<>> THEN <<>> ELSE t
  <2>1. <<>> \in Seq(Nat)
    OBVIOUS
  <2> QED
    BY <1>2, <2>1
<1>4. PICK us \in BOOLEAN, pa \in BOOLEAN : (us <=> u # <<>>) /\ (pa <=> (u # <<>> /\ x # <<>>))
  OBVIOUS
<1>5. PICK a \in 0 .. 1, wf \in 0 .. 1, xf \in 0 .. 1, uf \in 0 .. 1 :
        /\ a = Packets!Flag(c) /\ wf = Packets!Flag(w)
        /\ xf = Packets!Flag(u # <<>> /\ x # <<>>) /\ uf = Packets!Flag(u # <<>>)
  BY DEF Packets!Flag
<1>6. (a = 1 <=> c) /\ (wf = 1 <=> w) /\ (xf = 1 <=> pa) /\ (uf = 1 <=> us)
  BY <1>4, <1>5 DEF Packets!Flag
<1>7. PICK f \in Nat : f = 2 * a + 52 * wf + 64 * xf + 128 * uf
  OBVIOUS
<1>8. /\ Packets!BitsOf(f, 1, 1) = a /\ Packets!BitsOf(f, 2, 1) = wf /\ Packets!BitsOf(f, 3, 2) = 2 * wf
      /\ Packets!BitsOf(f, 5, 1) = wf /\ Packets!BitsOf(f, 6, 1) = xf /\ Packets!BitsOf(f, 7, 1) = uf
  <2>1. FlagsFound(f, a, wf, xf, uf)
    BY <1>7, ConnectFlags
  <2> QED
    BY <2>1 DEF FlagsFound
<1>9. PICK body \in Seq(Nat) : body = ConnectBody(f, n, w, t, us, u, pa, x)
  BY <1>2, ConnectBodyIs
<1>10. Packets!Encode(p) = Packets!Written(type, 0, 0, body)
  <2>1. f = 2 * Packets!Flag(c)
            + (IF w THEN 4 + 8 * (IF w THEN 2 ELSE 0) + 32 * Packets!Flag(w) ELSE 0)
            + 64 * Packets!Flag(u # <<>> /\ x # <<>>) + 128 * Packets!Flag(u # <<>>)
    <3>1. (IF w THEN 4 + 8 * (IF w THEN 2 ELSE 0) + 32 * Packets!Flag(w) ELSE 0) = 52 * wf
      BY <1>5, <1>6
    <3> QED
      BY <1>5, <1>7, <3>1
  <2>2. Packets!Encode(p) = Packets!EncodeConnect(p)
    BY DEF Packets!Encode
  <2>3. WillPart(w, t, n) = IF w THEN Packets!WriteString(IF w THEN t ELSE <<>>)
                                      \o Packets!WriteString(IF w THEN n ELSE <<>>)
                            ELSE <<>>
    BY DEF WillPart
  <2>4. /\ TextPart(us, u) = (IF u # <<>> THEN Packets!WriteString(u) ELSE <<>>)
        /\ TextPart(pa, x) = (IF u # <<>> /\ x # <<>> THEN Packets!WriteString(x) ELSE <<>>)
    BY <1>4 DEF TextPart
  <2>5. body = Packets!WriteString(<<77, 81, 84, 84>>) \o <<4, f>> \o Packets!WriteNum(10)
               \o Packets!WriteString(n)
               \o (IF w THEN Packets!WriteString(IF w THEN t ELSE <<>>)
                             \o Packets!WriteString(IF w THEN n ELSE <<>>) ELSE <<>>)
               \o (IF u # <<>> THEN Packets!WriteString(u) ELSE <<>>)
               \o (IF u # <<>> /\ x # <<>> THEN Packets!WriteString(x) ELSE <<>>)
    BY <1>9, <2>3, <2>4 DEF ConnectBody, ConnectHead
  <2>6. /\ p.user = u /\ p.pass = x /\ p.clean = c /\ p.has_will = w /\ p.will_retained = w
        /\ p.will_qos = (IF w THEN 2 ELSE 0) /\ p.keep_alive = 10 /\ p.client_id = n
        /\ p.will_topic = (IF w THEN t ELSE <<>>) /\ p.will_payload = (IF w THEN n ELSE <<>>)
    BY <1>3
  <2>7. Packets!EncodeConnect(p) = ConnectWith(p, FlagsOf(p))
    BY DEF Packets!EncodeConnect, ConnectWith, FlagsOf
  <2>8. FlagsOf(p) = f
    BY <2>1, <2>6 DEF FlagsOf
  <2>9. Packets!EncodeConnect(p) = ConnectWith(p, f)
    BY <2>7, <2>8
  <2>10. Packets!EncodeConnect(p) = Packets!Written("CONNECT", 0, 0, body)
    <3>1. Packets!EncodeConnect(p) =
            Packets!Written("CONNECT", 0, 0,
              Packets!WriteString(<<77, 81, 84, 84>>) \o <<4, f>> \o Packets!WriteNum(p.keep_alive)
              \o Packets!WriteString(p.client_id)
              \o (IF p.has_will THEN Packets!WriteString(p.will_topic) \o Packets!WriteString(p.will_payload)
                   ELSE <<>>)
              \o (IF p.user # <<>> THEN Packets!WriteString(p.user) ELSE <<>>)
              \o (IF p.user # <<>> /\ p.pass # <<>> THEN Packets!WriteString(p.pass) ELSE <<>>))
      BY <2>9 DEF ConnectWith
    <3>2. Packets!WriteNum(p.keep_alive) = Packets!WriteNum(10)
      BY <2>6
    <3>3. Packets!WriteString(p.client_id) = Packets!WriteString(n)
      BY <2>6
    <3>4. (IF p.has_will THEN Packets!WriteString(p.will_topic) \o Packets!WriteString(p.will_payload)
           ELSE <<>>) = WillPart(w, t, n)
      BY <2>3, <2>6
    <3>5. (IF p.user # <<>> THEN Packets!WriteString(p.user) ELSE <<>>) = TextPart(us, u)
      BY <2>4, <2>6
    <3>6. (IF p.user # <<>> /\ p.pass # <<>> THEN Packets!WriteString(p.pass) ELSE <<>>) = TextPart(pa, x)
      BY <2>4, <2>6
    <3>7. body = Packets!WriteString(<<77, 81, 84, 84>>) \o <<4, f>> \o Packets!WriteNum(10)
                 \o Packets!WriteString(n) \o WillPart(w, t, n) \o TextPart(us, u) \o TextPart(pa, x)
      BY <1>9 DEF ConnectBody, ConnectHead
    <3> QED
      BY ONLY <3>1, <3>2, <3>3, <3>4, <3>5, <3>6, <3>7, ZenonT(60)
  <2> QED
    BY <1>1, <2>2, <2>10
<1>11. PICK zero \in 0 .. 15 : zero = 0 /\ zero = 2 * 0 + 0
  OBVIOUS
<1>12. PICK b : b = Framed(First(type, zero), body)
  OBVIOUS
<1>13. Packets!Encode(p) = IF Len(b) > BufferSize THEN Packets!Failed ELSE b
  <2>1. PICK q \in 0 .. 2, kept \in 0 .. 1 : q = 0 /\ kept = 0 /\ zero = 2 * q + kept
    BY <1>11
  <2>2. WrittenAs(type, q, kept, zero, body)
    BY ONLY <2>1, WrittenFrame, type \in AllTypes, body \in Seq(Nat)
  <2> QED
    BY <1>10, <1>12, <2>1, <2>2 DEF WrittenAs
<1>14. SUFFICES ASSUME ~(Len(b) > BufferSize)
                PROVE  Packets!ServerReads(b) = p
  BY <1>13
<1>15. Len(b) <= BufferSize
  <2>1. PICK first \in Nat : first = First(type, zero)
    BY FirstByte
  <2>2. b \in Seq(Nat)
    BY <1>12, <2>1, FramedIs
  <2>3. Len(b) \in Nat /\ BufferSize \in Nat
    BY <2>2, BufferBound, LenProperties
  <2> QED
    BY <1>14, <2>3
<1>16. PICK start \in Nat : Finds(b, start, type, zero, body)
  BY <1>12, <1>15, ServerFinds
<1>17. /\ b \in Seq(Nat) /\ start \in Nat \ {0} /\ Packets!TypeOf(b[1]) = "CONNECT"
       /\ 2 + Packets!ReadVarnum(b, 2)[2] = start /\ Holds(b, start, body)
  BY <1>1, <1>16 DEF Finds
<1>18. Whole(b) /\ ~Odd(b)
  <2>1. zero = IF type \in {"PUBREL", "SUBSCRIBE", "UNSUBSCRIBE"} THEN 2 ELSE 0
    BY <1>1, <1>11
  <2> QED
    BY <1>16, <2>1, ServerLooks
<1>19. ConnectFound(b, start, f, n, w, t, us, u, pa, x)
  <2>1. Holds(b, start, ConnectBody(f, n, w, t, us, u, pa, x)) /\ b \in Seq(Nat) /\ start \in Nat \ {0}
    BY <1>9, <1>17
  <2>2. HoldsConnect(b, start, f, n, w, t, us, u, pa, x)
    BY <1>2, <2>1 DEF HoldsConnect
  <2> QED
    BY <2>2, ConnectRead
<1>20. PICK v, y :
         /\ v = start + 10 + 2 + Packets!ReadNum(b, start + 10)
         /\ y = IF Packets!BitsOf(f, 2, 1) = 1 THEN Behind(b, Behind(b, v)) ELSE v
  OBVIOUS
<1>21. b[start + 7] = f /\ Packets!ReadNum(b, start + 8) = 10 /\ TextAt(b, start + 10, n)
  BY <1>19 DEF ConnectFound, HeadFound
<1>22. PICK lt \in Nat, ln \in Nat, lu \in Nat : lt = Len(t) /\ ln = Len(n) /\ lu = Len(u)
  BY <1>2, LenProperties
<1>23. v = WillAt(start, n) /\ v \in Nat
  <2>1. Packets!ReadNum(b, start + 10) = ln
    BY <1>21, <1>22 DEF TextAt
  <2>2. v = start + 10 + 2 + ln
    BY <1>20, <2>1
  <2>3. v \in Nat
    BY <1>17, <2>2
  <2> QED
    BY <1>22, <2>2, <2>3 DEF WillAt
<1>24. ASSUME w PROVE /\ TextFrom(b, v) = t /\ TextFrom(b, Behind(b, v)) = n
                      /\ Behind(b, Behind(b, v)) = UserAt(start, n, w, t)
  <2>1. TextAt(b, v, t) /\ TextAt(b, v + (lt + 2), n)
    BY <1>19, <1>22, <1>23, <1>24 DEF ConnectFound, WillFound
  <2>2. TextFrom(b, v) = t /\ Behind(b, v) = v + 2 + lt
    BY <1>22, <2>1, TextFound
  <2>3. v + 2 + lt = v + (lt + 2)
    BY <1>23
  <2>4. TextFrom(b, v + (lt + 2)) = n /\ Behind(b, v + (lt + 2)) = v + (lt + 2) + 2 + ln
    BY <1>22, <2>1, TextFound
  <2>5. v + (lt + 2) + 2 + ln = UserAt(start, n, w, t)
    <3>1. UserAt(start, n, w, t) = v + ((lt + 2) + (ln + 2))
      BY <1>22, <1>23, <1>24 DEF UserAt, WillLength
    <3> QED
      BY <1>23, <3>1
  <2> QED
    BY <2>2, <2>3, <2>4, <2>5
<1>25. y = UserAt(start, n, w, t) /\ y \in Nat
  <2>1. CASE w
    <3>1. y = UserAt(start, n, w, t)
      BY <1>6, <1>8, <1>20, <1>24, <2>1
    <3>2. UserAt(start, n, w, t) = v + ((lt + 2) + (ln + 2))
      BY <1>22, <1>23, <2>1 DEF UserAt, WillLength
    <3> QED
      BY <1>23, <3>1, <3>2
  <2>2. CASE ~w
    <3>1. y = v
      BY <1>6, <1>8, <1>20, <2>2
    <3>2. UserAt(start, n, w, t) = v + 0
      BY <1>23, <2>2 DEF UserAt, WillLength
    <3> QED
      BY <1>23, <3>1, <3>2
  <2> QED
    BY <2>1, <2>2
<1>26. ASSUME us PROVE TextFrom(b, y) = u /\ Behind(b, y) = PassAt(start, n, w, t, us, u)
  <2>1. TextAt(b, y, u)
    BY <1>19, <1>25, <1>26 DEF ConnectFound
  <2>2. TextFrom(b, y) = u /\ Behind(b, y) = y + 2 + lu
    BY <1>22, <2>1, TextFound
  <2>3. PassAt(start, n, w, t, us, u) = y + (lu + 2)
    BY <1>22, <1>25, <1>26 DEF PassAt, TextLength
  <2>4. y + 2 + lu = y + (lu + 2)
    BY <1>25
  <2> QED
    BY <2>2, <2>3, <2>4
<1>27. ASSUME pa PROVE TextFrom(b, Behind(b, y)) = x
  <2>1. us
    BY <1>4, <1>27
  <2>2. TextAt(b, Behind(b, y), x)
    BY <1>19, <1>26, <1>27, <2>1 DEF ConnectFound
  <2> QED
    BY <2>2, TextFound
<1>28. TextFrom(b, start + 10) = n
  BY <1>21, TextFound
<1>29. TakenForConnect(b, start, f, v, y)
  BY <1>17, <1>18, <1>20, <1>21, ServerReadsConnect
<1>30. /\ (Packets!BitsOf(f, 1, 1) = 1) = c /\ (Packets!BitsOf(f, 2, 1) = 1) = w
       /\ (Packets!BitsOf(f, 5, 1) = 1) = w
  BY <1>6, <1>8
<1>31. Packets!BitsOf(f, 3, 2) = IF w THEN 2 ELSE 0
  BY <1>6, <1>8, SMTT(30)
<1>32. /\ (IF Packets!BitsOf(f, 2, 1) = 1 THEN TextFrom(b, v) ELSE <<>>) = IF w THEN t ELSE <<>>
       /\ (IF Packets!BitsOf(f, 2, 1) = 1 THEN TextFrom(b, Behind(b, v)) ELSE <<>>) = IF w THEN n ELSE <<>>
  BY <1>24, <1>30
<1>33. (IF Packets!BitsOf(f, 7, 1) = 1 THEN TextFrom(b, y) ELSE <<>>) = u
  BY <1>4, <1>6, <1>8, <1>26
<1>34. (IF Packets!BitsOf(f, 6, 1) = 1 THEN TextFrom(b, Behind(b, y)) ELSE <<>>) = x
  <2>1. ~pa => x = <<>>
    BY <1>3, <1>4
  <2>2. CASE pa
    BY <1>6, <1>8, <1>27, <2>2
  <2>3. CASE ~pa
    BY <1>6, <1>8, <2>1, <2>3
  <2> QED
    BY <2>2, <2>3
<1> QED
  BY <1>3, <1>21, <1>28, <1>29, <1>30, <1>31, <1>32, <1>33, <1>34, SMTT(30) DEF TakenForConnect

-----------------------------------------------------------------------------
(* The other direction: what the client reads of a server's packet.        *)

\* The client takes a packet off the stream, if the buffer holds it.
Takes(w, y) == Packets!ReadPacket(w \o y) = IF Len(w) > BufferSize THEN Packets!Failed ELSE w

LEMMA ClientTakes ==
  ASSUME NEW type \in Packets!Receivable, NEW f \in 0 .. 15, NEW body \in Seq(Nat), NEW y \in Seq(Nat),
         NEW w, w = Framed(First(type, f), body)
  PROVE  Takes(w, y)
<1>1. type \in AllTypes
  BY DEF Packets!Receivable, AllTypes
<1>2. PICK first \in Nat : first = First(type, f) /\ Packets!TypeOf(first) = type
  BY <1>1, FirstByte
<1>3. w \in Seq(Nat)
  BY <1>2, FramedIs
<1>4. PICK b \in Seq(Nat) : b = w \o y
  BY <1>3, ConcatProperties
<1>5. PICK n \in Nat, one \in Nat \ {0} : n = Len(body) /\ one = 1
  BY LenProperties
<1>6. Holds(b, 1, w) /\ Holds(b, 1, Framed(first, body))
  BY <1>2, <1>3, <1>4, HoldsFirst
<1>7. PICK v \in Nat :
        /\ b[1] = first /\ Len(w) = 1 + v + n /\ v >= 1
        /\ n < 268435456 => Packets!ReadVarnum(b, 2) = <<n, v>>
        /\ n >= 268435456 => Packets!ReadVarnum(b, 2) = Packets!Failed
  <2>1. PICK v \in 1 .. Len(b) :
          /\ b[1] = first
          /\ Framed(first, body) \in Seq(Nat) /\ Len(Framed(first, body)) = 1 + v + Len(body)
          /\ Len(body) < 268435456 => v \in 1 .. 4 /\ Packets!ReadVarnum(b, 2) = <<Len(body), v>>
          /\ Len(body) >= 268435456 => Packets!ReadVarnum(b, 2) = Packets!Failed
    BY <1>6, FrameRead
  <2> QED
    BY <1>2, <1>5, <2>1
<1>8. PICK k \in Nat : k = Len(w)
  BY <1>3, LenProperties
<1>9. PICK length : length = Packets!ReadVarnum(b, 2)
  OBVIOUS
<1>10. Packets!ReadPacket(b) =
         IF length = Packets!Failed \/ 1 + length[2] + length[1] > BufferSize
         THEN Packets!Failed ELSE SubSeq(b, 1, 1 + length[2] + length[1])
  BY <1>2, <1>7, <1>9 DEF Packets!ReadPacket
<1>11. CASE n >= 268435456
  <2>1. Packets!ReadPacket(b) = Packets!Failed
    BY <1>7, <1>9, <1>10, <1>11
  <2>2. Len(w) > BufferSize
    BY <1>5, <1>7, <1>11, BufferBound
  <2> QED
    BY <1>4, <2>1, <2>2 DEF Takes
<1>12. CASE n < 268435456
  <2>1. length = <<n, v>>
    BY <1>7, <1>9, <1>12
  <2>2. length # Packets!Failed /\ length[1] = n /\ length[2] = v
    BY <2>1 DEF Packets!Failed
  <2>3. 1 + length[2] + length[1] = k
    BY <1>7, <1>8, <2>2, SMTT(30)
  <2>4. SubSeq(b, 1, k) = w
    <3>1. SubSeq(b, one, one + Len(w) - 1) = w
      BY <1>3, <1>5, <1>6, CutOut
    <3>2. one + Len(w) - 1 = k
      BY <1>5, <1>8
    <3> QED
      BY <1>5, <3>1, <3>2
  <2>5. Packets!ReadPacket(b) = IF k > BufferSize THEN Packets!Failed ELSE w
    BY <1>10, <2>2, <2>3, <2>4
  <2> QED
    BY <1>4, <1>8, <2>5 DEF Takes
<1> QED
  BY <1>5, <1>11, <1>12

\* Where the client finds the fields in its buffer, behind them what is left
\* of an earlier packet.
Buffered(buf, start, type, f, body) ==
  /\ buf \in Seq(Nat) /\ start \in Nat \ {0}
  /\ Packets!TypeOf(buf[1]) = type /\ buf[1] = First(type, f)
  /\ Packets!Start(buf) = start /\ Packets!Remaining(buf) = Len(body)
  /\ (start + Len(body)) - 1 <= Len(buf) /\ Holds(buf, start, body)

LEMMA ClientFinds ==
  ASSUME NEW type \in AllTypes, NEW f \in 0 .. 15, NEW body \in Seq(Nat), NEW y \in Seq(Nat),
         NEW w, w = Framed(First(type, f), body), Len(w) <= BufferSize
  PROVE  \E start \in Nat : Buffered(w \o y, start, type, f, body)
<1>1. PICK first \in Nat : first = First(type, f) /\ Packets!TypeOf(first) = type
  BY FirstByte
<1>2. w \in Seq(Nat)
  BY <1>1, FramedIs
<1>3. PICK b \in Seq(Nat) : b = w \o y
  BY <1>2, ConcatProperties
<1>4. PICK n \in Nat, k \in Nat, l \in Nat : n = Len(body) /\ k = Len(w) /\ l = Len(b)
  BY <1>2, LenProperties
<1>5. Holds(b, 1, w) /\ Holds(b, 1, Framed(first, body))
  BY <1>1, <1>2, <1>3, HoldsFirst
<1>6. PICK v \in Nat :
        /\ b[1] = first /\ k = 1 + v + n /\ v >= 1 /\ Holds(b, 2 + v, body)
        /\ n < 268435456 => Packets!ReadVarnum(b, 2) = <<n, v>>
  <2>1. PICK v \in 1 .. Len(b) :
          /\ b[1] = first /\ Holds(b, 2 + v, body)
          /\ Framed(first, body) \in Seq(Nat) /\ Len(Framed(first, body)) = 1 + v + Len(body)
          /\ Len(body) < 268435456 => v \in 1 .. 4 /\ Packets!ReadVarnum(b, 2) = <<Len(body), v>>
          /\ Len(body) >= 268435456 => Packets!ReadVarnum(b, 2) = Packets!Failed
    BY <1>5, FrameRead
  <2> QED
    BY <1>1, <1>4, <2>1
<1>7. n < 268435456
  BY <1>4, <1>6, BufferBound
<1>8. Packets!ReadVarnum(b, 2) = <<n, v>>
  BY <1>6, <1>7
<1>9. Packets!Start(b) = 2 + v /\ Packets!Remaining(b) = n
  BY <1>8 DEF Packets!Start, Packets!Remaining
<1>10. (2 + v + n) - 1 <= l
  <2>1. 1 + k - 1 <= l
    BY <1>4, <1>5 DEF Holds
  <2> QED
    BY <1>6, <2>1
<1>11. 2 + v \in Nat \ {0}
  OBVIOUS
<1>12. Buffered(b, 2 + v, type, f, body)
  BY <1>1, <1>4, <1>6, <1>9, <1>10, <1>11 DEF Buffered
<1> QED
  BY <1>3, <1>11, <1>12

\* What the client makes of a packet that a server wrote, whatever is behind it
\* in the stream and in the buffer.
Understood(p) ==
  /\ Packets!ServerWrites(p) \in Seq(Nat)
  /\ \A y \in Seq(Nat) : Takes(Packets!ServerWrites(p), y)
  /\ Len(Packets!ServerWrites(p)) <= BufferSize =>
       \A y \in Seq(Nat) : Packets!Decode(Packets!ServerWrites(p) \o y) = p

\* The decoder makes a packet of these fields, wherever they are.
Decodes(type, f, body, p) ==
  \A b : \A start \in Nat : Buffered(b, start, type, f, body) => Packets!Decode(b) = p

SentAs(p, type, f, body) ==
  /\ type \in Packets!Receivable /\ f \in 0 .. 15 /\ body \in Seq(Nat)
  /\ Packets!ServerWrites(p) = Framed(First(type, f), body)

LEMMA Understands ==
  ASSUME NEW p, NEW type, NEW f, NEW body, SentAs(p, type, f, body), Decodes(type, f, body, p)
  PROVE  Understood(p)
<1>1. /\ type \in Packets!Receivable /\ type \in AllTypes /\ f \in 0 .. 15 /\ body \in Seq(Nat)
      /\ Packets!ServerWrites(p) = Framed(First(type, f), body)
  BY DEF SentAs, Packets!Receivable, AllTypes
<1>2. PICK w : w = Packets!ServerWrites(p) /\ w = Framed(First(type, f), body)
  BY <1>1
<1>3. w \in Seq(Nat)
  <2>1. PICK first \in Nat : first = First(type, f)
    BY <1>1, FirstByte
  <2> QED
    BY <1>1, <1>2, <2>1, FramedIs
<1>4. ASSUME NEW y \in Seq(Nat) PROVE Takes(w, y)
  <2>1. w = Framed(First(type, f), body)
    BY <1>2
  <2> QED
    BY <1>1, <2>1, ClientTakes
<1>5. ASSUME Len(w) <= BufferSize, NEW y \in Seq(Nat) PROVE Packets!Decode(w \o y) = p
  <2>1. PICK start \in Nat : Buffered(w \o y, start, type, f, body)
    BY <1>1, <1>2, <1>5, ClientFinds
  <2> QED
    BY <2>1 DEF Decodes
<1> QED
  BY <1>2, <1>3, <1>4, <1>5 DEF Understood

\* The answer to a connect.
LEMMA ConnackUnderstood ==
  ASSUME NEW code \in Nat, NEW p, p = [type |-> "CONNACK", code |-> code]
  PROVE  Understood(p)
<1>1. PICK type \in Packets!Receivable : type = "CONNACK"
  BY DEF Packets!Receivable
<1>2. PICK body \in Seq(Nat) : body = <<0, code>> /\ Len(body) = 2 /\ body[2] = code
  <2>1. <<0, code>> \in Seq(Nat) /\ Len(<<0, code>>) = 2 /\ <<0, code>>[2] = code
    OBVIOUS
  <2> QED
    BY <2>1
<1>3. PICK f \in 0 .. 15 : f = 0
  OBVIOUS
<1>4. Packets!ServerWrites(p) = Framed(First(type, f), body)
  BY <1>1, <1>2, <1>3 DEF Packets!ServerWrites, Framed, First
<1>5. Decodes(type, f, body, p)
  <2> SUFFICES ASSUME NEW b, NEW start \in Nat, Buffered(b, start, type, f, body)
               PROVE  Packets!Decode(b) = p
    BY DEF Decodes
  <2>1. Packets!TypeOf(b[1]) = "CONNACK" /\ Packets!Start(b) = start /\ Packets!Remaining(b) = 2
    BY <1>1, <1>2 DEF Buffered
  <2>2. b[start + 1] = code
    <3>1. b[start + 2 - 1] = code
      BY <1>2, SMTT(30) DEF Buffered, Holds
    <3> QED
      BY <3>1
  <2> QED
    BY <2>1, <2>2 DEF Packets!Decode, Packets!DecodeConnack
<1>6. SentAs(p, type, f, body)
  BY <1>4 DEF SentAs
<1> QED
  BY <1>5, <1>6, Understands

\* The answers to a publish and to the end of a subscription.
LEMMA AckUnderstood ==
  ASSUME NEW type \in {"PUBACK", "PUBREC", "PUBREL", "PUBCOMP", "UNSUBACK"}, NEW id \in Nat,
         NEW p, p = [type |-> type, id |-> id]
  PROVE  Understood(p)
<1>1. type \in Packets!Receivable
  BY DEF Packets!Receivable
<1>2. PICK body \in Seq(Nat) : body = Packets!WriteNum(id) /\ Len(body) = 2
  BY TwoBytes
<1>3. PICK f \in 0 .. 15 : f = IF type = "PUBREL" THEN 2 ELSE 0
  BY SMTT(30)
<1>4. Packets!ServerWrites(p) = Framed(First(type, f), body)
  <2>1. p.type = type /\ p.id = id
    OBVIOUS
  <2> QED
    BY <1>2, <1>3, <2>1 DEF Packets!ServerWrites, Framed, First
<1>5. Decodes(type, f, body, p)
  <2> SUFFICES ASSUME NEW b, NEW start \in Nat, Buffered(b, start, type, f, body)
               PROVE  Packets!Decode(b) = p
    BY DEF Decodes
  <2>1. /\ b \in Seq(Nat) /\ start \in Nat \ {0} /\ Holds(b, start, Packets!WriteNum(id))
        /\ Packets!TypeOf(b[1]) = type /\ Packets!Start(b) = start /\ Packets!Remaining(b) = 2
    BY <1>2 DEF Buffered
  <2>2. Packets!ReadNum(b, start) = id
    BY <2>1, NumRead
  <2> QED
    BY <2>1, <2>2 DEF Packets!Decode, Packets!DecodeAck
<1>6. SentAs(p, type, f, body)
  BY <1>1, <1>4 DEF SentAs
<1> QED
  BY <1>5, <1>6, Understands

\* The answer to a subscription: a number and a byte.
SubackBody(id, c) == Packets!WriteNum(id) \o <<c>>

LEMMA NumAndByte ==
  ASSUME NEW id \in Nat, NEW c \in Nat
  PROVE  /\ SubackBody(id, c) \in Seq(Nat) /\ Len(SubackBody(id, c)) = 3
         /\ \A b \in Seq(Nat) : \A start \in Nat \ {0} :
              Holds(b, start, SubackBody(id, c))
                => Packets!ReadNum(b, start) = id /\ b[start + 2] = c
<1>1. PICK x \in Seq(Nat) : x = Packets!WriteNum(id) /\ Len(x) = 2
  BY TwoBytes
<1>2. PICK y \in Seq(Nat) : y = <<c>>
  <2>1. <<c>> \in Seq(Nat)
    OBVIOUS
  <2> QED
    BY <2>1
<1>3. Len(y) = 1 /\ y[1] = c
  BY <1>2
<1>4. x \o y \in Seq(Nat) /\ Len(x \o y) = Len(x) + Len(y)
  BY ConcatProperties
<1>5. Len(x \o y) = 3
  <2>1. PICK m, n, s : m = Len(x) /\ n = Len(y) /\ s = Len(x \o y)
    OBVIOUS
  <2>2. m = 2 /\ n = 1 /\ s = m + n
    BY <1>1, <1>3, <1>4, <2>1
  <2> QED
    BY <2>1, <2>2
<1>6. ASSUME NEW b \in Seq(Nat), NEW start \in Nat \ {0}, Holds(b, start, x \o y)
      PROVE  Packets!ReadNum(b, start) = id /\ b[start + 2] = c
  <2>1. Holds(b, start, x) /\ Holds(b, start + Len(x), y)
    BY <1>6, HoldsBoth
  <2>2. Holds(b, start, Packets!WriteNum(id)) /\ Holds(b, start + 2, y)
    BY <1>1, <2>1
  <2>3. Packets!ReadNum(b, start) = id
    BY <2>2, NumRead
  <2>4. b[start + 2 + 1 - 1] = c
    BY <1>3, <2>2 DEF Holds
  <2> QED
    BY <2>3, <2>4
<1> QED
  BY <1>1, <1>2, <1>4, <1>5, <1>6 DEF SubackBody

LEMMA SubackUnderstood ==
  ASSUME NEW id \in Nat, NEW code \in {0, 1, 2, 128},
         NEW p, p = [type |-> "SUBACK", id |-> id, code |-> code]
  PROVE  Understood(p)
<1>1. PICK type \in Packets!Receivable : type = "SUBACK"
  BY DEF Packets!Receivable
<1>2. PICK c \in Nat : c = code
  OBVIOUS
<1>3. PICK body \in Seq(Nat) : body = SubackBody(id, c) /\ Len(body) = 3
  BY NumAndByte
<1>4. PICK f \in 0 .. 15 : f = 0
  OBVIOUS
<1>5. Packets!ServerWrites(p) = Framed(First(type, f), body)
  <2>1. p.type = "SUBACK" /\ p.id = id /\ p.code = c
    BY <1>2
  <2> QED
    BY <1>1, <1>3, <1>4, <2>1 DEF Packets!ServerWrites, Framed, First, SubackBody
<1>6. Decodes(type, f, body, p)
  <2> SUFFICES ASSUME NEW b, NEW start \in Nat, Buffered(b, start, type, f, body)
               PROVE  Packets!Decode(b) = p
    BY DEF Decodes
  <2>1. /\ b \in Seq(Nat) /\ start \in Nat \ {0} /\ Holds(b, start, SubackBody(id, c))
        /\ Packets!TypeOf(b[1]) = "SUBACK" /\ Packets!Start(b) = start /\ Packets!Remaining(b) = 3
    BY <1>1, <1>3 DEF Buffered
  <2>2. Packets!ReadNum(b, start) = id /\ b[start + 2] = c
    BY <2>1, NumAndByte, SMTT(30)
  <2>3. (IF b[start + 2] \in 0 .. 2 THEN b[start + 2] ELSE 128) = code
    BY <1>2, <2>2
  <2> QED
    BY <2>1, <2>2, <2>3 DEF Packets!Decode, Packets!DecodeSuback
<1>7. SentAs(p, type, f, body)
  BY <1>5 DEF SentAs
<1> QED
  BY <1>6, <1>7, Understands

\* The answer to a ping.
LEMMA PingrespUnderstood ==
  ASSUME NEW p, p = [type |-> "PINGRESP"]
  PROVE  Understood(p)
<1>1. PICK type \in Packets!Receivable : type = "PINGRESP"
  BY DEF Packets!Receivable
<1>2. PICK body \in Seq(Nat) : body = <<>>
  <2>1. <<>> \in Seq(Nat)
    OBVIOUS
  <2> QED
    BY <2>1
<1>3. PICK f \in 0 .. 15 : f = 0
  OBVIOUS
<1>4. Packets!ServerWrites(p) = Framed(First(type, f), body)
  BY <1>1, <1>2, <1>3 DEF Packets!ServerWrites, Framed, First
<1>5. Decodes(type, f, body, p)
  <2> SUFFICES ASSUME NEW b, NEW start \in Nat, Buffered(b, start, type, f, body)
               PROVE  Packets!Decode(b) = p
    BY DEF Decodes
  <2> QED
    BY <1>1 DEF Buffered, Packets!Decode
<1>6. SentAs(p, type, f, body)
  BY <1>4 DEF SentAs
<1> QED
  BY <1>5, <1>6, Understands

\* What the client makes of a publish, given its length and the length of its
\* topic.
TakenForPublish(b, s, n, c, g, k) ==
  Packets!DecodePublish(b) =
    IF n < 2 \/ s + n - 1 > Len(b) \/ (s + 2 + c) - 1 + k > s + n - 1
    THEN Packets!Failed
    ELSE [type |-> "PUBLISH", qos |-> g, retained |-> Packets!BitsOf(b[1], 0, 1) = 1,
          topic |-> SubSeq(b, s + 2, s + 1 + c),
          id |-> IF g > 0 THEN Packets!ReadNum(b, s + 2 + c) ELSE 0,
          payload |-> SubSeq(b, s + 2 + c + k, s + n - 1)]

LEMMA ClientReadsPublish ==
  ASSUME NEW b, NEW s, s = Packets!Start(b), NEW n, n = Packets!Remaining(b),
         NEW c, c = Packets!ReadNum(b, s), c = Len(SubSeq(b, s + 2, s + 1 + c)),
         NEW g, g = (IF Packets!BitsOf(b[1], 1, 2) = 3 THEN 0 ELSE Packets!BitsOf(b[1], 1, 2)),
         NEW k, k = IF g > 0 THEN 2 ELSE 0
  PROVE  TakenForPublish(b, s, n, c, g, k)
BY DEF Packets!DecodePublish, TakenForPublish

\* A message of the server.
LEMMA PublishUnderstood ==
  ASSUME NEW q \in 0 .. 2, NEW r \in BOOLEAN, NEW t \in Texts, NEW m \in Texts, NEW i \in Nat,
         NEW p, p = [type |-> "PUBLISH", qos |-> q, retained |-> r, topic |-> t, payload |-> m,
                     id |-> IF q > 0 THEN i ELSE 0]
  PROVE  Understood(p)
<1>1. PICK type \in Packets!Receivable : type = "PUBLISH"
  BY DEF Packets!Receivable
<1>2. t \in Seq(Nat) /\ m \in Seq(Nat)
  BY BufferBound
<1>3. PICK id \in Nat : id = IF q > 0 THEN i ELSE 0
  OBVIOUS
<1>4. PICK kept \in 0 .. 1 : kept = Packets!Flag(r) /\ (kept = 1 <=> r)
  BY DEF Packets!Flag
<1>5. PICK k \in Nat, c \in Nat, d \in Nat : k = NumberLength(q) /\ c = Len(t) /\ d = Len(m)
  BY <1>2, LenProperties DEF NumberLength
<1>6. PICK body \in Seq(Nat), n \in Nat :
        body = PublishBody(q, id, t, m) /\ n = Len(body) /\ n = (c + 2 + k) + d
  <2>1. PublishBody(q, id, t, m) \in Seq(Nat) /\ Len(PublishBody(q, id, t, m)) = (c + 2 + k) + d
    BY <1>2, <1>5, BodyOfPublish
  <2>2. (c + 2 + k) + d \in Nat
    OBVIOUS
  <2> QED
    BY <2>1, <2>2
<1>7. PICK f \in 0 .. 15 : f = 2 * q + kept /\ (f \div 2) % 4 = q /\ f % 2 = kept
  BY SMTT(30)
<1>8. Packets!ServerWrites(p) = Framed(First(type, f), body)
  <2>1. /\ p.type = "PUBLISH" /\ p.qos = q /\ p.retained = r /\ p.topic = t /\ p.payload = m /\ p.id = id
    BY <1>3
  <2> QED
    BY <1>1, <1>4, <1>6, <1>7, <2>1 DEF Packets!ServerWrites, Framed, First, PublishBody, NumberOf
<1>9. Decodes(type, f, body, p)
  <2> SUFFICES ASSUME NEW b, NEW start \in Nat, Buffered(b, start, type, f, body)
               PROVE  Packets!Decode(b) = p
    BY DEF Decodes
  <2>1. /\ b \in Seq(Nat) /\ start \in Nat \ {0} /\ Holds(b, start, PublishBody(q, id, t, m))
        /\ Packets!TypeOf(b[1]) = "PUBLISH" /\ b[1] = First(type, f)
        /\ Packets!Start(b) = start /\ Packets!Remaining(b) = n
    BY <1>1, <1>6 DEF Buffered
  <2>2. PICK l \in Nat : l = Len(b) /\ start + n - 1 <= l
    <3>1. (start + Len(body)) - 1 <= Len(b) /\ Len(b) \in Nat
      BY <2>1, LenProperties DEF Buffered
    <3>2. (start + n) - 1 <= Len(b)
      BY <1>6, <3>1
    <3>3. start + n - 1 = (start + n) - 1
      BY <2>1
    <3> QED
      BY <3>1, <3>2, <3>3
  <2>3. Packets!BitsOf(b[1], 1, 2) = q /\ Packets!BitsOf(b[1], 0, 1) = kept
    <3>1. type \in AllTypes
      BY <1>1 DEF AllTypes
    <3>2. /\ Packets!BitsOf(First(type, f), 1, 2) = (f \div 2) % 4
          /\ Packets!BitsOf(First(type, f), 0, 1) = f % 2
      BY <3>1, FirstByte
    <3> QED
      BY <1>7, <2>1, <3>2
  <2>4. PublishFound(b, start, q, id, t, m)
    BY <1>2, <2>1, PublishRead
  <2>5. /\ Packets!ReadNum(b, start) = c /\ SubSeq(b, start + 2, start + 1 + c) = t
        /\ q > 0 => Packets!ReadNum(b, start + 2 + c) = id
        /\ SubSeq(b, start + 2 + c + k, (start + n) - 1) = m
    BY <1>5, <1>6, <2>4 DEF PublishFound
  <2>6. PICK g : g = (IF Packets!BitsOf(b[1], 1, 2) = 3 THEN 0 ELSE Packets!BitsOf(b[1], 1, 2))
    OBVIOUS
  <2>7. g = q /\ k = IF g > 0 THEN 2 ELSE 0
    BY <1>5, <2>3, <2>6 DEF NumberLength
  <2>8. TakenForPublish(b, start, n, c, g, k)
    <3>1. c = Len(SubSeq(b, start + 2, start + 1 + c))
      BY <1>5, <2>5
    <3> QED
      BY <2>1, <2>5, <2>6, <2>7, <3>1, ClientReadsPublish
  <2>9. ~(n < 2 \/ start + n - 1 > Len(b) \/ (start + 2 + c) - 1 + k > start + n - 1)
    <3>1. ~(n < 2) /\ ~((start + 2 + c) - 1 + k > start + n - 1)
      BY <1>6, <2>1
    <3>2. ~(start + n - 1 > Len(b))
      BY <2>1, <2>2
    <3> QED
      BY <3>1, <3>2
  <2>10. start + n - 1 = (start + n) - 1
    BY <2>1
  <2>11. (Packets!BitsOf(b[1], 0, 1) = 1) = r
    BY <1>4, <2>3
  <2>12. (IF g > 0 THEN Packets!ReadNum(b, start + 2 + c) ELSE 0) = IF q > 0 THEN i ELSE 0
    BY <1>3, <2>5, <2>7
  <2>13. Packets!DecodePublish(b) = p
    BY <2>5, <2>7, <2>8, <2>9, <2>10, <2>11, <2>12 DEF TakenForPublish
  <2> QED
    BY <2>1, <2>13 DEF Packets!Decode
<1>10. SentAs(p, type, f, body)
  BY <1>8 DEF SentAs
<1> QED
  BY <1>9, <1>10, Understands

-----------------------------------------------------------------------------
(* Every packet of either side.                                            *)

AckTypes == {"PUBACK", "PUBREC", "PUBREL", "PUBCOMP"}

IsAck(p, types) == \E type \in types, id \in Nat : p = [type |-> type, id |-> id]
IsPublish(p) ==
  \E q \in 0 .. 2, r \in BOOLEAN, t \in Texts, m \in Texts, i \in Nat :
    p = [type |-> "PUBLISH", qos |-> q, retained |-> r, topic |-> t, payload |-> m,
         id |-> IF q > 0 THEN i ELSE 0]
IsConnect(p) ==
  \E c \in BOOLEAN, n \in Texts, w \in BOOLEAN, t \in Texts, u \in Texts :
    p = [type |-> "CONNECT", clean |-> c, keep_alive |-> 10, client_id |-> n, has_will |-> w,
         will_qos |-> IF w THEN 2 ELSE 0, will_retained |-> w,
         will_topic |-> IF w THEN t ELSE <<>>, will_payload |-> IF w THEN n ELSE <<>>,
         user |-> u, pass |-> IF u = <<>> THEN <<>> ELSE t]

LEMMA IdsAreNumbers == Packets!Ids \subseteq Nat
BY DEF Packets!Ids

LEMMA ClientPacketKinds ==
  ASSUME NEW p \in Packets!ClientPackets
  PROVE  \/ IsConnect(p) \/ IsPublish(p) \/ IsAck(p, AckTypes)
         \/ \E id \in Nat, t \in Texts, q \in 0 .. 2 :
              p = [type |-> "SUBSCRIBE", id |-> id, topic |-> t, qos |-> q]
         \/ \E id \in Nat, t \in Texts : p = [type |-> "UNSUBSCRIBE", id |-> id, topic |-> t]
         \/ \E type \in {"PINGREQ", "DISCONNECT"} : p = [type |-> type]
<1>1. CASE p \in Packets!Connects
  BY <1>1 DEF Packets!Connects, IsConnect
<1>2. CASE p \in Packets!Publishes
  BY <1>2, IdsAreNumbers DEF Packets!Publishes, IsPublish
<1>3. CASE p \in Packets!Acks({"PUBACK", "PUBREC", "PUBREL", "PUBCOMP"})
  BY <1>3, IdsAreNumbers DEF Packets!Acks, IsAck, AckTypes
<1>4. CASE p \in {[type |-> "SUBSCRIBE", id |-> i, topic |-> t, qos |-> q] :
                     i \in Packets!Ids, t \in Texts, q \in 0 .. 2}
  <2>1. PICK i \in Packets!Ids, t \in Texts, q \in 0 .. 2 :
          p = [type |-> "SUBSCRIBE", id |-> i, topic |-> t, qos |-> q]
    BY <1>4
  <2> QED
    BY <2>1, IdsAreNumbers
<1>5. CASE p \in {[type |-> "UNSUBSCRIBE", id |-> i, topic |-> t] : i \in Packets!Ids, t \in Texts}
  <2>1. PICK i \in Packets!Ids, t \in Texts : p = [type |-> "UNSUBSCRIBE", id |-> i, topic |-> t]
    BY <1>5
  <2> QED
    BY <2>1, IdsAreNumbers
<1>6. CASE p \in {[type |-> t] : t \in {"PINGREQ", "DISCONNECT"}}
  BY <1>6
<1> QED
  BY <1>1, <1>2, <1>3, <1>4, <1>5, <1>6 DEF Packets!ClientPackets

LEMMA ServerPacketKinds ==
  ASSUME NEW p \in Packets!ServerPackets
  PROVE  \/ \E code \in Nat : p = [type |-> "CONNACK", code |-> code]
         \/ IsPublish(p) \/ IsAck(p, {"PUBACK", "PUBREC", "PUBREL", "PUBCOMP", "UNSUBACK"})
         \/ \E id \in Nat, code \in {0, 1, 2, 128} : p = [type |-> "SUBACK", id |-> id, code |-> code]
         \/ p = [type |-> "PINGRESP"]
<1>1. CASE p \in {[type |-> "CONNACK", code |-> c] : c \in 0 .. 5}
  BY <1>1
<1>2. CASE p \in Packets!Publishes
  BY <1>2, IdsAreNumbers DEF Packets!Publishes, IsPublish
<1>3. CASE p \in Packets!Acks({"PUBACK", "PUBREC", "PUBREL", "PUBCOMP", "UNSUBACK"})
  BY <1>3, IdsAreNumbers DEF Packets!Acks, IsAck
<1>4. CASE p \in {[type |-> "SUBACK", id |-> i, code |-> c] : i \in Packets!Ids, c \in {0, 1, 2, 128}}
  BY <1>4, IdsAreNumbers
<1>5. CASE p \in {[type |-> "PINGRESP"]}
  BY <1>5
<1> QED
  BY <1>1, <1>2, <1>3, <1>4, <1>5 DEF Packets!ServerPackets

\* What a server reads of a packet of the client.
Served(p) ==
  IF Packets!Encode(p) = Packets!Failed
  THEN p.type \in {"CONNECT", "PUBLISH"} ELSE Packets!ServerReads(Packets!Encode(p)) = p

LEMMA ClientIsServed ==
  ASSUME NEW p \in Packets!ClientPackets
  PROVE  Served(p)
<1>1. CASE IsConnect(p)
  <2>1. p.type = "CONNECT"
    BY <1>1 DEF IsConnect
  <2>2. Packets!Encode(p) # Packets!Failed => Packets!ServerReads(Packets!Encode(p)) = p
    BY <1>1, ConnectServed DEF IsConnect
  <2> QED
    BY <2>1, <2>2 DEF Served
<1>2. CASE IsPublish(p)
  <2>1. p.type = "PUBLISH"
    BY <1>2 DEF IsPublish
  <2>2. Packets!Encode(p) # Packets!Failed => Packets!ServerReads(Packets!Encode(p)) = p
    BY <1>2, PublishServed DEF IsPublish
  <2> QED
    BY <2>1, <2>2 DEF Served
<1>3. CASE IsAck(p, AckTypes)
  <2>1. Packets!Encode(p) # Packets!Failed /\ Packets!ServerReads(Packets!Encode(p)) = p
    BY <1>3, AckServed DEF IsAck, AckTypes
  <2> QED
    BY <2>1 DEF Served
<1>4. CASE \E id \in Nat, t \in Texts, q \in 0 .. 2 :
             p = [type |-> "SUBSCRIBE", id |-> id, topic |-> t, qos |-> q]
  <2>1. Packets!Encode(p) # Packets!Failed /\ Packets!ServerReads(Packets!Encode(p)) = p
    BY <1>4, SubscribeServed
  <2> QED
    BY <2>1 DEF Served
<1>5. CASE \E id \in Nat, t \in Texts : p = [type |-> "UNSUBSCRIBE", id |-> id, topic |-> t]
  <2>1. Packets!Encode(p) # Packets!Failed /\ Packets!ServerReads(Packets!Encode(p)) = p
    BY <1>5, UnsubscribeServed
  <2> QED
    BY <2>1 DEF Served
<1>6. CASE \E type \in {"PINGREQ", "DISCONNECT"} : p = [type |-> type]
  <2>1. Packets!Encode(p) # Packets!Failed /\ Packets!ServerReads(Packets!Encode(p)) = p
    BY <1>6, ZeroServed
  <2> QED
    BY <2>1 DEF Served
<1> QED
  BY <1>1, <1>2, <1>3, <1>4, <1>5, <1>6, ClientPacketKinds

LEMMA ServerIsUnderstood ==
  ASSUME NEW p \in Packets!ServerPackets
  PROVE  Understood(p)
<1>1. CASE \E code \in Nat : p = [type |-> "CONNACK", code |-> code]
  BY <1>1, ConnackUnderstood
<1>2. CASE IsPublish(p)
  BY <1>2, PublishUnderstood DEF IsPublish
<1>3. CASE IsAck(p, {"PUBACK", "PUBREC", "PUBREL", "PUBCOMP", "UNSUBACK"})
  BY <1>3, AckUnderstood DEF IsAck
<1>4. CASE \E id \in Nat, code \in {0, 1, 2, 128} : p = [type |-> "SUBACK", id |-> id, code |-> code]
  BY <1>4, SubackUnderstood
<1>5. CASE p = [type |-> "PINGRESP"]
  BY <1>5, PingrespUnderstood
<1> QED
  BY <1>1, <1>2, <1>3, <1>4, <1>5, ServerPacketKinds

\* The bytes are those of the packet.
PacketInv ==
  /\ writer = "client" => packet \in Packets!ClientPackets /\ wire = Packets!Encode(packet)
  /\ writer = "server" => packet \in Packets!ServerPackets /\ wire = Packets!ServerWrites(packet)

LEMMA LengthsAreRead == Packets!LengthsSurvive
<1> SUFFICES ASSUME NEW n \in Packets!Boundaries
             PROVE  /\ Packets!ReadVarnum(Packets!WriteVarnum(n), 1) = <<n, Len(Packets!WriteVarnum(n))>>
                    /\ Packets!WriteVarnum(268435456) = Packets!Failed
  BY DEF Packets!LengthsSurvive
<1>1. Packets!ReadVarnum(Packets!WriteVarnum(n), 1) = <<n, Len(Packets!WriteVarnum(n))>>
  <2>1. n \in Nat /\ n < 268435456
    BY DEF Packets!Boundaries
  <2> QED
    BY <2>1, LengthSurvives
<1>2. Packets!WriteVarnum(268435456) = Packets!Failed
  <2>1. PICK large \in Nat : large = 268435456 /\ large >= 268435456
    OBVIOUS
  <2>2. Packets!WriteVarnum(large) = Packets!Failed
    BY <2>1, LengthSurvives
  <2> QED
    BY <2>1, <2>2
<1> QED
  BY <1>1, <1>2

LEMMA PacketsFollow == PacketInv => PacketsAgree
<1> SUFFICES ASSUME PacketInv PROVE PacketsAgree
  OBVIOUS
<1>1. ASSUME writer = "client"
      PROVE  IF wire = Packets!Failed THEN packet.type \in {"CONNECT", "PUBLISH"}
             ELSE Packets!ServerReads(wire) = packet
  <2>1. packet \in Packets!ClientPackets /\ wire = Packets!Encode(packet)
    BY <1>1 DEF PacketInv
  <2>2. Served(packet)
    BY <2>1, ClientIsServed
  <2> QED
    BY <2>1, <2>2 DEF Served
<1>2. ASSUME writer = "server"
      PROVE  IF Len(wire) > BufferSize
             THEN Packets!ReadPacket(wire \o Packets!Pingresp) = Packets!Failed
             ELSE /\ Packets!ReadPacket(wire \o Packets!Pingresp) = wire
                  /\ Packets!Decode(wire \o [i \in 1 .. BufferSize - Len(wire) |-> 90]) = packet
  <2>1. packet \in Packets!ServerPackets /\ wire = Packets!ServerWrites(packet)
    BY <1>2 DEF PacketInv
  <2>2. Understood(packet)
    BY <2>1, ServerIsUnderstood
  <2>3. Packets!Pingresp \in Seq(Nat)
    <3>1. PICK p : p = [type |-> "PINGRESP"]
      OBVIOUS
    <3>2. Packets!ServerWrites(p) \in Seq(Nat)
      BY <3>1, PingrespUnderstood DEF Understood
    <3> QED
      BY <3>1, <3>2 DEF Packets!Pingresp
  <2>4. Packets!ReadPacket(wire \o Packets!Pingresp) =
          IF Len(wire) > BufferSize THEN Packets!Failed ELSE wire
    BY <2>1, <2>2, <2>3 DEF Understood, Takes
  <2>5. PICK k \in Nat, s \in Nat : k = Len(wire) /\ s = BufferSize
    <3>1. wire \in Seq(Nat)
      BY <2>1, <2>2 DEF Understood
    <3> QED
      BY <3>1, LenProperties, BufferBound
  <2>6. ASSUME ~(k > s) PROVE Packets!Decode(wire \o [i \in 1 .. s - k |-> 90]) = packet
    <3>1. s - k \in Nat /\ k <= s
      BY <2>6
    <3>2. [i \in 1 .. s - k |-> 90] \in Seq(Nat)
      <4>1. [i \in 1 .. s - k |-> 90] \in [1 .. s - k -> Nat]
        OBVIOUS
      <4> QED
        BY <3>1, <4>1, SeqDef
    <3> QED
      BY <2>1, <2>2, <2>5, <3>1, <3>2 DEF Understood
  <2> QED
    BY <2>4, <2>5, <2>6
<1>3. Packets!PacketsAgree
  <2>1. PICK read : read = Packets!ReadPacket(wire \o Packets!Pingresp)
    OBVIOUS
  <2>2. writer = "server" =>
          IF Len(wire) > BufferSize THEN read = Packets!Failed
          ELSE /\ read = wire
               /\ Packets!Decode(read \o [i \in 1 .. BufferSize - Len(read) |-> 90]) = packet
    BY <1>2, <2>1
  <2> QED
    BY <1>1, <2>1, <2>2, LengthsAreRead DEF Packets!PacketsAgree
<1> QED
  BY <1>3 DEF PacketsAgree

LEMMA PacketStart == Packets!PacketInit => PacketInv
BY DEF Packets!PacketInit, Packets!Pingresp, Packets!ServerPackets, PacketInv

LEMMA PacketStep == PacketInv /\ Packets!PacketNext => PacketInv'
<1> SUFFICES ASSUME PacketInv, Packets!PacketNext PROVE PacketInv'
  OBVIOUS
<1>1. CASE Packets!ClientWrites
  BY <1>1 DEF Packets!ClientWrites, PacketInv
<1>2. CASE Packets!ServerSends
  BY <1>2 DEF Packets!ServerSends, PacketInv
<1> QED
  BY <1>1, <1>2 DEF Packets!PacketNext

\* A server reads what the client meant, and the client what the server meant,
\* whatever follows in the stream and is left in the buffer: for all texts and
\* every size of the buffer (lwmqtt_encode_*, lwmqtt_decode_*).
THEOREM PacketsAreRead == QueuesSpec => []PacketsAgree
<1>1. QueuesInit => PacketInv
  BY PacketStart DEF QueuesInit
<1>2. PacketInv /\ [QueuesNext]_<<part, vars, tcpVars, connVars, nodeVars, sessionVars, packetVars>>
        => PacketInv'
  <2> SUFFICES ASSUME PacketInv,
                      [QueuesNext]_<<part, vars, tcpVars, connVars, nodeVars, sessionVars, packetVars>>
               PROVE  PacketInv'
    OBVIOUS
  <2>1. Packets!PacketNext \/ UNCHANGED packetVars
    BY DEF QueuesNext
  <2>2. ASSUME UNCHANGED packetVars PROVE PacketInv'
    BY <2>2 DEF packetVars, PacketInv
  <2> QED
    BY <2>1, <2>2, PacketStep
<1>3. PacketInv => PacketsAgree
  BY PacketsFollow
<1> QED
  BY <1>1, <1>2, <1>3, PTL DEF QueuesSpec
=============================================================================
