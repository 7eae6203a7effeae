------------------------------ MODULE VbiProofs ------------------------------
(***************************************************************************)
(* What the encoder and the decoder of the Variable Byte Integer compute,  *)
(* for every number and whatever follows it in the buffer.                 *)
(*                                                                         *)
(* EncodeVbi is a recursive function, which stands for CHOOSE f : f = ...: *)
(* that there is such a function (EncodeUnfolds) is shown from the least   *)
(* number up to which there is none.  A fact about every number is shown   *)
(* in the same way, from its least counterexample.                         *)
(***************************************************************************)
EXTENDS Vbi, DataLemmas, SequenceTheorems

-----------------------------------------------------------------------------
(* Arithmetic.                                                             *)

LEMMA BaseType == Base \in Nat /\ Base > 1 /\ U32Max \in Nat
BY VbiAssumption

LEMMA DivMod ==
  ASSUME NEW n \in Nat
  PROVE  /\ n \div Base \in Nat
         /\ n % Base \in Nat /\ n % Base < Base
         /\ n = Base * (n \div Base) + (n % Base)
BY BaseType

LEMMA DivSmaller ==
  ASSUME NEW n \in Nat, n >= Base
  PROVE  n \div Base < n /\ n \div Base >= 1
BY BaseType, DivMod

LEMMA DivBound ==
  ASSUME NEW n \in Nat, NEW P \in Nat
  PROVE  n \div Base < P <=> n < Base * P
BY BaseType, DivMod

-----------------------------------------------------------------------------
(* Bytes.                                                                  *)

LEMMA BytesAssociative ==
  \A x, y, z \in Seq(Byte) : (x \o y) \o z = x \o (y \o z)
BY Associative, SMTT(30)

-----------------------------------------------------------------------------
(* The encoder.                                                            *)

\* The body of the recursive function.
Step(f, n) == IF n < Base THEN <<n>> ELSE <<(n % Base) + Base>> \o f[n \div Base]

\* g is the encoder on the numbers up to N.
UpTo(N, g) == g = [n \in 0 .. N |-> Step(g, n)]

LEMMA UpToUnique ==
  ASSUME NEW N \in Nat, NEW g, UpTo(N, g), NEW M \in Nat, NEW h, UpTo(M, h),
         NEW n \in Nat, n <= N, n <= M
  PROVE  g[n] = h[n]
<1> DEFINE S == {k \in Nat : k <= N /\ k <= M /\ g[k] # h[k]}
<1>1. SUFFICES ASSUME S # {} PROVE FALSE OBVIOUS
<1>2. S \in SUBSET Nat OBVIOUS
<1>3. PICK m \in S : \A k \in S : m <= k
  <2> HIDE DEF S
  <2> QED BY <1>1, <1>2, LeastNat
<1>4. g[m] = Step(g, m) /\ h[m] = Step(h, m)
  <2>1. m \in 0 .. N /\ m \in 0 .. M OBVIOUS
  <2>2. g = [i \in 0 .. N |-> Step(g, i)] /\ h = [i \in 0 .. M |-> Step(h, i)] BY DEF UpTo
  <2> HIDE DEF S
  <2>3. QED BY <2>1, <2>2
<1>5. m >= Base
  <2>1. ASSUME m < Base PROVE FALSE BY <1>4, <2>1 DEF Step
  <2>2. QED BY <2>1, BaseType
<1>6. m \div Base \in Nat /\ m \div Base < m BY <1>5, DivSmaller, DivMod
<1>7. g[m \div Base] = h[m \div Base] BY <1>6, <1>3
<1>8. Step(g, m) = Step(h, m) BY <1>7 DEF Step
<1>9. QED BY <1>4, <1>8

LEMMA UpToExists ==
  ASSUME NEW N \in Nat
  PROVE  \E g : UpTo(N, g)
<1> DEFINE S == {k \in Nat : ~ \E g : UpTo(k, g)}
<1>1. SUFFICES ASSUME S # {} PROVE FALSE OBVIOUS
<1>2. S \in SUBSET Nat OBVIOUS
<1>3. PICK m \in S : \A k \in S : m <= k
  <2> HIDE DEF S
  <2> QED BY <1>1, <1>2, LeastNat
<1>4. CASE m = 0
  <2> DEFINE g == [n \in 0 .. 0 |-> <<n>>]
  <2>1. g = [n \in 0 .. 0 |-> Step(g, n)]
    <3>1. ASSUME NEW n \in 0 .. 0 PROVE n < Base BY BaseType
    <3>2. QED BY <3>1 DEF Step
  <2>2. UpTo(0, g) BY <2>1 DEF UpTo
  <2>3. QED BY <2>2, <1>4
<1>5. CASE m # 0
  <2>1. m - 1 \in Nat /\ m - 1 < m BY <1>5
  <2>2. m - 1 \notin S BY <2>1, <1>3
  <2>3. PICK g : UpTo(m - 1, g) BY <2>1, <2>2
  <2> DEFINE h == [n \in 0 .. m |-> Step(g, n)]
  <2>4. ASSUME NEW n \in 0 .. m - 1 PROVE h[n] = g[n]
    <3>1. n \in 0 .. m /\ g[n] = Step(g, n) BY <2>3, <2>1 DEF UpTo
    <3>2. QED BY <3>1
  <2>5. ASSUME NEW n \in 0 .. m PROVE Step(g, n) = Step(h, n)
    <3>1. CASE n < Base BY <3>1 DEF Step
    <3>2. CASE n >= Base
      <4>1. n \in Nat OBVIOUS
      <4>2. n \div Base \in Nat /\ n \div Base < n BY <4>1, <3>2, DivSmaller, DivMod
      <4>3. n \div Base \in 0 .. m - 1 BY <4>2
      <4>4. h[n \div Base] = g[n \div Base] BY <4>3, <2>4
      <4> HIDE DEF h
      <4>5. QED BY <4>4 DEF Step
    <3>3. QED BY <3>1, <3>2, BaseType
  <2>6. h = [n \in 0 .. m |-> Step(h, n)]
    <3> DEFINE k == [n \in 0 .. m |-> Step(h, n)]
    <3>1. \A n \in 0 .. m : h[n] = k[n]
      <4>1. ASSUME NEW n \in 0 .. m PROVE h[n] = Step(g, n) /\ k[n] = Step(h, n) OBVIOUS
      <4> HIDE DEF h, k
      <4>2. QED BY <4>1, <2>5
    <3>2. QED BY <3>1
  <2>7. UpTo(m, h) BY <2>6 DEF UpTo
  <2>8. QED BY <2>7
<1>6. QED BY <1>4, <1>5

\* The encoder is what its definition says.
LEMMA EncodeUnfolds == EncodeVbi = [n \in Nat |-> Step(EncodeVbi, n)]
<1> DEFINE G(n) == CHOOSE g : UpTo(n, g)
           F == [n \in Nat |-> G(n)[n]]
           H == [n \in Nat |-> Step(F, n)]
<1>1. ASSUME NEW n \in Nat PROVE UpTo(n, G(n)) BY UpToExists
<1>2. ASSUME NEW n \in Nat PROVE F[n] = Step(F, n)
  <2>1. F[n] = G(n)[n] OBVIOUS
  <2>2. G(n)[n] = Step(G(n), n)
    <3>1. UpTo(n, G(n)) BY <1>1
    <3> HIDE DEF G
    <3>2. QED BY <3>1 DEF UpTo
  <2>3. Step(G(n), n) = Step(F, n)
    <3>1. CASE n < Base BY <3>1 DEF Step
    <3>2. CASE n >= Base
      <4> DEFINE k == n \div Base
      <4>1. k \in Nat /\ k <= n BY <3>2, DivSmaller, DivMod
      <4>2. F[k] = G(k)[k] BY <4>1
      <4>3. UpTo(k, G(k)) /\ UpTo(n, G(n)) BY <4>1, <1>1
      <4>4. G(k)[k] = G(n)[k]
        <5> HIDE DEF G, k
        <5> QED BY <4>1, <4>3, UpToUnique
      <4>5. G(n)[k] = F[k] BY <4>2, <4>4
      <4> HIDE DEF G, F
      <4>6. QED BY <4>5 DEF Step
    <3>3. QED BY <3>1, <3>2, BaseType
  <2>4. QED BY <2>1, <2>2, <2>3
<1>3. F = H
  <2>1. ASSUME NEW n \in Nat PROVE F[n] = H[n]
    <3>1. H[n] = Step(F, n) OBVIOUS
    <3>2. QED BY <3>1, <1>2
  <2>2. QED BY <2>1
<1>4. F = [n \in Nat |-> Step(F, n)] BY <1>3
<1> HIDE DEF F
<1>5. EncodeVbi = CHOOSE f : f = [n \in Nat |-> Step(f, n)] BY DEF EncodeVbi, Step
<1>6. QED BY <1>4, <1>5

LEMMA EncodeOne ==
  ASSUME NEW n \in Nat, n < Base
  PROVE  EncodeVbi[n] = <<n>>
BY EncodeUnfolds DEF Step

LEMMA EncodeMore ==
  ASSUME NEW n \in Nat, n >= Base
  PROVE  EncodeVbi[n] = <<(n % Base) + Base>> \o EncodeVbi[n \div Base]
<1>1. EncodeVbi[n] = Step(EncodeVbi, n) BY EncodeUnfolds
<1>2. ~ (n < Base) BY BaseType
<1>3. QED BY <1>1, <1>2 DEF Step

\* The bytes of a number: all but the last have the continuation bit.
IsCode(s) ==
  /\ s \in Seq(Byte) /\ Len(s) >= 1
  /\ \A i \in 1 .. Len(s) : More(s[i]) <=> i < Len(s)

LEMMA IsCodeCons ==
  ASSUME NEW b \in Byte, More(b), NEW s, IsCode(s)
  PROVE  /\ IsCode(<<b>> \o s)
         /\ Len(<<b>> \o s) = 1 + Len(s)
         /\ (<<b>> \o s)[1] = b
         /\ \A i \in 1 .. Len(s) : (<<b>> \o s)[i + 1] = s[i]
<1> DEFINE t == <<b>> \o s
<1>1. s \in Seq(Byte) /\ Len(s) \in Nat /\ Len(s) >= 1 BY DEF IsCode
<1>2. t \in Seq(Byte) /\ Len(t) = 1 + Len(s) BY <1>1
<1>3. t[1] = b BY <1>1
<1>4. \A i \in 1 .. Len(s) : t[i + 1] = s[i] BY <1>1
<1>5. ASSUME NEW i \in 1 .. Len(t) PROVE More(t[i]) <=> i < Len(t)
  <2>1. CASE i = 1 BY <2>1, <1>1, <1>2, <1>3
  <2>2. CASE i # 1
    <3>1. i - 1 \in 1 .. Len(s) /\ i = (i - 1) + 1 BY <2>2, <1>1, <1>2
    <3>2. t[i] = s[i - 1] BY <3>1, <1>4
    <3>3. More(s[i - 1]) <=> i - 1 < Len(s) BY <3>1 DEF IsCode
    <3>4. QED BY <3>2, <3>3, <1>1, <1>2
  <2>3. QED BY <2>1, <2>2
<1> HIDE DEF t
<1>6. IsCode(t) BY <1>1, <1>2, <1>5 DEF IsCode
<1>7. QED BY <1>2, <1>3, <1>4, <1>6 DEF t

LEMMA EncodeIsCode ==
  ASSUME NEW n \in Nat
  PROVE  IsCode(EncodeVbi[n])
<1> DEFINE S == {k \in Nat : ~ IsCode(EncodeVbi[k])}
<1>1. SUFFICES ASSUME S # {} PROVE FALSE OBVIOUS
<1>2. S \in SUBSET Nat OBVIOUS
<1>3. PICK m \in S : \A k \in S : m <= k
  <2> HIDE DEF S
  <2> QED BY <1>1, <1>2, LeastNat
<1>4. CASE m < Base
  <2>1. EncodeVbi[m] = <<m>> BY <1>4, EncodeOne
  <2>2. m \in Byte /\ ~ More(m) BY <1>4, BaseType DEF Byte, More
  <2>3. IsCode(<<m>>) BY <2>2 DEF IsCode
  <2>4. QED BY <2>1, <2>3
<1>5. CASE m >= Base
  <2>1. m \div Base \in Nat /\ m \div Base < m BY <1>5, DivSmaller, DivMod
  <2>2. IsCode(EncodeVbi[m \div Base]) BY <2>1, <1>3
  <2>3. m % Base \in Nat /\ m % Base < Base BY DivMod
  <2>4. (m % Base) + Base \in Byte /\ More((m % Base) + Base)
    BY <2>3, BaseType DEF Byte, More
  <2>5. IsCode(<<(m % Base) + Base>> \o EncodeVbi[m \div Base])
    BY <2>2, <2>4, IsCodeCons
  <2>6. QED BY <2>5, <1>5, EncodeMore
<1>6. QED BY <1>4, <1>5, BaseType

-----------------------------------------------------------------------------
(* The decoder: where the number ends.                                     *)

\* VbiLen is the place of the first byte without a continuation bit.
LEMMA VbiLenFirst ==
  ASSUME NEW s \in Seq(Byte), NEW m \in 1 .. Len(s), ~ More(s[m]),
         \A i \in 1 .. m - 1 : More(s[i])
  PROVE  VbiLen(s) = m
<1> DEFINE I == {i \in 1 .. Len(s) : ~ More(s[i])}
<1>1. m \in I OBVIOUS
<1>2. \A i \in I : m <= i
  <2>1. ASSUME NEW i \in I, i < m PROVE FALSE
    <3>1. i \in 1 .. m - 1 BY <2>1
    <3>2. QED BY <3>1
  <2>2. QED BY <2>1
<1>3. VbiLen(s) = Min(I)
  <2>1. I # {} BY <1>1
  <2>2. QED BY <2>1 DEF VbiLen, SelectInSeq
<1>4. Min(I) = m
  <2>1. I \subseteq Nat OBVIOUS
  <2> HIDE DEF I
  <2>2. Min(I) \in I /\ \A i \in I : Min(I) <= i BY <1>1, <1>2 DEF Min
  <2>3. Min(I) <= m /\ m <= Min(I) BY <1>1, <1>2, <2>2
  <2>4. Min(I) \in Nat /\ m \in Nat BY <1>1, <2>1, <2>2
  <2>5. QED BY <2>3, <2>4
<1>5. QED BY <1>3, <1>4

LEMMA VbiLenNone ==
  ASSUME NEW s \in Seq(Byte), \A i \in 1 .. Len(s) : More(s[i])
  PROVE  VbiLen(s) = 0
<1>1. {i \in 1 .. Len(s) : ~ More(s[i])} = {} OBVIOUS
<1>2. QED BY <1>1 DEF VbiLen, SelectInSeq

\* The number is found whatever follows it ...
LEMMA VbiLenOfCode ==
  ASSUME NEW c, IsCode(c), NEW rest \in Seq(Byte)
  PROVE  VbiLen(c \o rest) = Len(c)
<1>1. c \in Seq(Byte) /\ Len(c) \in Nat /\ Len(c) >= 1 BY DEF IsCode
<1>2. c \o rest \in Seq(Byte) /\ Len(c \o rest) = Len(c) + Len(rest) /\ Len(rest) \in Nat
  BY <1>1
<1>3. \A i \in 1 .. Len(c) : (c \o rest)[i] = c[i] BY <1>1
<1>4. Len(c) \in 1 .. Len(c \o rest) BY <1>1, <1>2
<1>5. ~ More((c \o rest)[Len(c)])
  <2>1. Len(c) \in 1 .. Len(c) /\ ~ (Len(c) < Len(c)) BY <1>1
  <2>2. ~ More(c[Len(c)]) BY <2>1 DEF IsCode
  <2>3. QED BY <2>1, <2>2, <1>3
<1>6. ASSUME NEW i \in 1 .. Len(c) - 1 PROVE More((c \o rest)[i])
  <2>1. i \in 1 .. Len(c) /\ i < Len(c) BY <1>1
  <2>2. More(c[i]) BY <2>1 DEF IsCode
  <2>3. QED BY <2>1, <2>2, <1>3
<1>7. QED BY <1>2, <1>4, <1>5, <1>6, VbiLenFirst

\* ... and not before its last byte is there.
LEMMA VbiLenOfPart ==
  ASSUME NEW c, IsCode(c), NEW k \in 0 .. Len(c) - 1
  PROVE  VbiLen(SubSeq(c, 1, k)) = 0
<1>1. c \in Seq(Byte) /\ Len(c) \in Nat BY DEF IsCode
<1>2. SubSeq(c, 1, k) \in Seq(Byte) /\ Len(SubSeq(c, 1, k)) = k BY <1>1
<1>3. ASSUME NEW i \in 1 .. k PROVE More(SubSeq(c, 1, k)[i])
  <2>1. SubSeq(c, 1, k)[i] = c[i] BY <1>1
  <2>2. i \in 1 .. Len(c) /\ i < Len(c) BY <1>1
  <2>3. QED BY <2>1, <2>2 DEF IsCode
<1>4. QED BY <1>2, <1>3, VbiLenNone

-----------------------------------------------------------------------------
(* The decoder: what the number is.                                        *)

LEMMA ModSmall ==
  ASSUME NEW r \in Nat, r < Base
  PROVE  r % Base = r /\ (r + Base) % Base = r
BY BaseType

LEMMA ValueOne ==
  ASSUME NEW b \in Nat
  PROVE  Value(<<b>>) = b % Base
<1>1. Len(<<b>>) = 1 /\ <<b>>[1] = b OBVIOUS
<1>2. b % Base \in Nat BY DivMod
<1>3. Base * 0 = 0 /\ 0 + 0 = 0 /\ (b % Base) + 0 = b % Base BY <1>2, BaseType
<1>4. QED BY <1>1, <1>3 DEF Value

LEMMA DigitType ==
  ASSUME NEW s \in Seq(Byte), NEW i \in 1 .. Len(s)
  PROVE  s[i] % Base \in Nat
<1>1. s[i] \in Byte OBVIOUS
<1>2. s[i] \in Nat BY <1>1, BaseType DEF Byte
<1>3. QED BY <1>2, DivMod

LEMMA ValueCons ==
  ASSUME NEW b \in Byte, NEW s \in Seq(Byte), Len(s) <= 4
  PROVE  Value(<<b>> \o s) = (b % Base) + Base * Value(s)
<1> DEFINE t == <<b>> \o s
           d(i) == IF i <= Len(s) THEN s[i] % Base ELSE 0
           e(i) == IF i <= Len(t) THEN t[i] % Base ELSE 0
<1>1. t \in Seq(Byte) /\ Len(t) = 1 + Len(s) /\ Len(s) \in Nat OBVIOUS
<1>2. e(1) = b % Base
  <2>1. t[1] = b /\ 1 <= Len(t) BY <1>1
  <2> HIDE DEF t
  <2>2. QED BY <2>1
<1>3. ASSUME NEW i \in 1 .. 4 PROVE e(i + 1) = d(i)
  <2>1. CASE i <= Len(s)
    <3>1. i \in 1 .. Len(s) BY <2>1, <1>1
    <3>2. t[i + 1] = s[i] /\ i + 1 <= Len(t) BY <3>1, <1>1
    <3> HIDE DEF t
    <3>3. QED BY <2>1, <3>2
  <2>2. CASE ~ (i <= Len(s))
    <3>1. ~ (i + 1 <= Len(t)) BY <2>2, <1>1
    <3> HIDE DEF t
    <3>2. QED BY <3>1, <2>2
  <2>3. QED BY <2>1, <2>2
<1>4. e(2) = d(1) /\ e(3) = d(2) /\ e(4) = d(3) /\ e(5) = d(4)
  <2>1. e(1 + 1) = d(1) /\ e(2 + 1) = d(2) /\ e(3 + 1) = d(3) /\ e(4 + 1) = d(4)
    <3> HIDE DEF e, d
    <3>1. QED BY <1>3
  <2>2. 1 + 1 = 2 /\ 2 + 1 = 3 /\ 3 + 1 = 4 /\ 4 + 1 = 5 OBVIOUS
  <2> HIDE DEF e, d
  <2>3. QED BY <2>1, <2>2
<1>5. d(5) = 0 BY <1>1
<1>6. d(4) \in Nat
  <2>1. CASE 4 <= Len(s)
    <3>1. 4 \in 1 .. Len(s) BY <2>1, <1>1
    <3>2. QED BY <2>1, <3>1, DigitType
  <2>2. CASE ~ (4 <= Len(s)) BY <2>2
  <2>3. QED BY <2>1, <2>2
<1>7. Value(s) = d(1) + Base * (d(2) + Base * (d(3) + Base * (d(4) + Base * d(5)))) BY DEF Value
<1>8. Value(t) = e(1) + Base * (e(2) + Base * (e(3) + Base * (e(4) + Base * e(5)))) BY DEF Value
<1> HIDE DEF d, e, t
<1>9. d(4) + Base * d(5) = d(4) BY <1>5, <1>6, BaseType
<1>10. QED BY <1>2, <1>4, <1>7, <1>8, <1>9 DEF t

\* The numbers below P have at most k bytes, are the only ones, and are read back.
Within(P, k) ==
  \A n \in Nat :
    /\ n < P <=> Len(EncodeVbi[n]) <= k
    /\ n < P => Value(EncodeVbi[n]) = n

LEMMA WithinOne == Within(Base, 1)
<1>1. SUFFICES ASSUME NEW n \in Nat
               PROVE  /\ n < Base <=> Len(EncodeVbi[n]) <= 1
                      /\ n < Base => Value(EncodeVbi[n]) = n
  BY DEF Within
<1>2. CASE n < Base
  <2>1. EncodeVbi[n] = <<n>> BY <1>2, EncodeOne
  <2>2. Value(<<n>>) = n % Base BY ValueOne
  <2>3. n % Base = n BY <1>2, ModSmall
  <2>4. Len(<<n>>) = 1 OBVIOUS
  <2>5. QED BY <1>2, <2>1, <2>2, <2>3, <2>4
<1>3. CASE n >= Base
  <2> DEFINE c == EncodeVbi[n \div Base]
             b == (n % Base) + Base
  <2>1. n \div Base \in Nat /\ n % Base \in Nat BY DivMod
  <2>2. c \in Seq(Byte) /\ Len(c) \in Nat /\ Len(c) >= 1 BY <2>1, EncodeIsCode DEF IsCode
  <2>3. EncodeVbi[n] = <<b>> \o c BY <1>3, EncodeMore
  <2> HIDE DEF b, c
  <2>4. Len(EncodeVbi[n]) = 1 + Len(c) BY <2>2, <2>3
  <2>5. ~ (n < Base) /\ ~ (Len(EncodeVbi[n]) <= 1) BY <1>3, <2>2, <2>4, BaseType
  <2>6. QED BY <2>5
<1>4. QED BY <1>2, <1>3, BaseType

LEMMA WithinMore ==
  ASSUME NEW P \in Nat, P >= 1, NEW k \in 1 .. 4, Within(P, k)
  PROVE  Within(Base * P, k + 1)
<1>1. SUFFICES ASSUME NEW n \in Nat
               PROVE  /\ n < Base * P <=> Len(EncodeVbi[n]) <= k + 1
                      /\ n < Base * P => Value(EncodeVbi[n]) = n
  BY DEF Within
<1>2. CASE n < Base
  <2>1. n < Base * P
    <3>1. Base <= Base * P BY BaseType
    <3>2. Base * P \in Nat BY BaseType
    <3>3. QED BY <1>2, <3>1, <3>2, BaseType
  <2>2. Len(EncodeVbi[n]) <= 1 /\ Value(EncodeVbi[n]) = n BY <1>2, WithinOne DEF Within
  <2>3. Len(EncodeVbi[n]) \in Nat BY EncodeIsCode DEF IsCode
  <2>4. Len(EncodeVbi[n]) <= k + 1 BY <2>2, <2>3
  <2>5. QED BY <2>1, <2>2, <2>4
<1>3. CASE n >= Base
  <2> DEFINE m == n \div Base
             c == EncodeVbi[m]
             b == (n % Base) + Base
  <2>1. m \in Nat /\ n % Base \in Nat /\ n % Base < Base /\ n = Base * m + (n % Base)
    BY DivMod
  <2>2. b \in Byte BY <2>1, BaseType DEF Byte
  <2>3. c \in Seq(Byte) /\ Len(c) \in Nat BY <2>1, EncodeIsCode DEF IsCode
  <2>4. EncodeVbi[n] = <<b>> \o c BY <1>3, EncodeMore
  <2>5. b % Base = n % Base BY <2>1, ModSmall
  <2>6. m < P <=> n < Base * P BY DivBound
  <2>7. (m < P <=> Len(c) <= k) /\ (m < P => Value(c) = m) BY <2>1 DEF Within
  <2> HIDE DEF b, c, m
  <2>8. Len(EncodeVbi[n]) = 1 + Len(c) BY <2>3, <2>4
  <2>9. Len(c) <= k <=> Len(EncodeVbi[n]) <= k + 1 BY <2>3, <2>8
  <2>10. ASSUME n < Base * P PROVE Value(EncodeVbi[n]) = n
    <3>1. Len(c) <= 4 /\ Value(c) = m BY <2>10, <2>3, <2>6, <2>7
    <3>2. Value(<<b>> \o c) = (b % Base) + Base * Value(c) BY <3>1, <2>2, <2>3, ValueCons
    <3>3. Base * m \in Nat BY <2>1, BaseType
    <3>4. (n % Base) + Base * m = n BY <2>1, <3>3
    <3>5. QED BY <2>4, <2>5, <3>1, <3>2, <3>4
  <2>11. QED BY <2>6, <2>7, <2>9, <2>10
<1>4. QED BY <1>2, <1>3, BaseType

LEMMA WithinFour ==
  ASSUME NEW n \in Nat
  PROVE  /\ n <= MaxVbi <=> Len(EncodeVbi[n]) <= MaxVbiLen
         /\ n <= MaxVbi => Value(EncodeVbi[n]) = n
<1>1. Base * Base \in Nat /\ Base * Base >= 1 BY BaseType
<1>2. Base * (Base * Base) \in Nat /\ Base * (Base * Base) >= 1 BY <1>1, BaseType
<1>3. Within(Base * Base, 2)
  <2>1. Base \in Nat /\ Base >= 1 /\ 1 \in 1 .. 4 /\ 1 + 1 = 2 BY BaseType
  <2>2. Within(Base * Base, 1 + 1) BY <2>1, WithinOne, WithinMore
  <2>3. QED BY <2>1, <2>2
<1>4. Within(Base * (Base * Base), 3)
  <2>1. 2 \in 1 .. 4 /\ 2 + 1 = 3 OBVIOUS
  <2>2. Within(Base * (Base * Base), 2 + 1) BY <1>1, <1>3, <2>1, WithinMore
  <2>3. QED BY <2>1, <2>2
<1>5. Within(Base * (Base * (Base * Base)), 4)
  <2>1. 3 \in 1 .. 4 /\ 3 + 1 = 4 OBVIOUS
  <2>2. Within(Base * (Base * (Base * Base)), 3 + 1) BY <1>2, <1>4, <2>1, WithinMore
  <2>3. QED BY <2>1, <2>2
<1>6. n <= MaxVbi <=> n < Base * (Base * (Base * Base))
  <2>1. Base * (Base * (Base * Base)) = Base * Base * Base * Base BY BaseType
  <2>2. Base * Base * Base * Base \in Nat BY BaseType
  <2>3. QED BY <2>1, <2>2 DEF MaxVbi
<1>7. QED BY <1>5, <1>6 DEF Within, MaxVbiLen

-----------------------------------------------------------------------------
(* The decoder.                                                            *)

\* A length that a packet may have (mqtt_codec.rs:15-18) is read back from the
\* bytes that encode it, whatever follows them, and exactly those are consumed.
LEMMA VbiRoundTrip ==
  ASSUME NEW n \in Nat, n <= MaxVbi, NEW rest \in Seq(Byte)
  PROVE  DecodeVbi(EncodeVbi[n] \o rest) = Parsed(n, Len(EncodeVbi[n]))
<1> DEFINE c == EncodeVbi[n]
           s == c \o rest
<1>1. IsCode(c) BY EncodeIsCode
<1>2. c \in Seq(Byte) /\ Len(c) \in Nat /\ Len(c) >= 1 BY <1>1 DEF IsCode
<1>3. Value(c) = n BY WithinFour
<1>4. Len(c) <= 4 BY WithinFour DEF MaxVbiLen
<1>5. VbiLen(s) = Len(c)
  <2> HIDE DEF c
  <2> QED BY <1>1, VbiLenOfCode
<1> HIDE DEF c
<1>6. SubSeq(s, 1, Len(c)) = c BY <1>2
<1> HIDE DEF s
<1>7. VbiLen(s) \in 1 .. MaxVbiLen /\ VbiLen(s) # 0
  <2>1. Len(c) \in Nat /\ Len(c) >= 1 BY <1>2
  <2>2. Len(c) \in 1 .. 4 /\ Len(c) # 0
    <3> DEFINE l == Len(c)
    <3>1. l \in Nat /\ l >= 1 /\ l <= 4 BY <2>1, <1>4
    <3> HIDE DEF l
    <3>2. l \in 1 .. 4 /\ l # 0 BY <3>1
    <3>3. QED BY <3>2 DEF l
  <2>3. QED BY <2>2, <1>5 DEF MaxVbiLen
<1>8. DecodeVbi(s) = Parsed(Value(SubSeq(s, 1, VbiLen(s))), VbiLen(s))
  BY <1>7 DEF DecodeVbi
<1>9. DecodeVbi(s) = Parsed(n, Len(c)) BY <1>3, <1>5, <1>6, <1>8
<1>10. QED BY <1>9 DEF c, s

\* As long as a byte of it is missing the decoder asks for more, and never takes
\* a length for a shorter one.
LEMMA VbiNeedsEveryByte ==
  ASSUME NEW n \in Nat, n <= MaxVbi, NEW k \in 0 .. Len(EncodeVbi[n]) - 1
  PROVE  DecodeVbi(SubSeq(EncodeVbi[n], 1, k)) = Failed("more")
<1> DEFINE c == EncodeVbi[n]
           s == SubSeq(c, 1, k)
<1>1. IsCode(c) /\ k \in 0 .. Len(c) - 1 BY EncodeIsCode
<1>2. c \in Seq(Byte) /\ Len(c) \in Nat BY <1>1 DEF IsCode
<1>3. Len(c) <= 4 BY WithinFour DEF MaxVbiLen
<1>4. VbiLen(s) = 0
  <2> HIDE DEF c
  <2> QED BY <1>1, VbiLenOfPart
<1>5. Len(s) <= 4
  <2> HIDE DEF c
  <2>1. Len(s) = k BY <1>1, <1>2
  <2> HIDE DEF s
  <2>2. QED BY <2>1, <1>1, <1>2, <1>3
<1> HIDE DEF s
<1>6. ~ (VbiLen(s) \in 1 .. MaxVbiLen) BY <1>4
<1>7. DecodeVbi(s) = Failed("more") BY <1>4, <1>5, <1>6 DEF DecodeVbi, MaxVbiLen
<1>8. QED BY <1>7 DEF s

\* A length beyond the largest is refused by the decoder, whatever follows it: it
\* neither waits for more bytes nor reads another length.
LEMMA VbiTooLong ==
  ASSUME NEW n \in Nat, n > MaxVbi, NEW rest \in Seq(Byte)
  PROVE  DecodeVbi(EncodeVbi[n] \o rest).result \in {"error", "panic"}
<1> DEFINE c == EncodeVbi[n]
           s == c \o rest
<1>1. IsCode(c) BY EncodeIsCode
<1>2. Len(c) \in Nat /\ ~ (Len(c) <= 4)
  <2>1. Len(c) \in Nat BY <1>1 DEF IsCode
  <2>2. MaxVbi \in Int BY BaseType DEF MaxVbi
  <2>3. ~ (n <= MaxVbi) BY <2>2
  <2>4. QED BY <2>1, <2>3, WithinFour DEF MaxVbiLen
<1>3. VbiLen(s) = Len(c)
  <2> HIDE DEF c
  <2> QED BY <1>1, VbiLenOfCode
<1> HIDE DEF s, c
<1>4. ~ (VbiLen(s) \in 1 .. MaxVbiLen) /\ VbiLen(s) # 0 BY <1>2, <1>3 DEF MaxVbiLen
<1>5. DecodeVbi(s) = Failed("panic") \/ DecodeVbi(s) = Failed("error")
  BY <1>4 DEF DecodeVbi
<1>6. QED BY <1>5 DEF Failed, s, c

\* No part of a length beyond the largest is read as a length.
LEMMA VbiPartNotOk ==
  ASSUME NEW n \in Nat, NEW k \in 0 .. Len(EncodeVbi[n]) - 1
  PROVE  DecodeVbi(SubSeq(EncodeVbi[n], 1, k)).result # "ok"
<1> DEFINE c == EncodeVbi[n]
           s == SubSeq(c, 1, k)
<1>1. IsCode(c) /\ k \in 0 .. Len(c) - 1 BY EncodeIsCode
<1>2. VbiLen(s) = 0
  <2> HIDE DEF c
  <2> QED BY <1>1, VbiLenOfPart
<1> HIDE DEF s
<1>3. ~ (VbiLen(s) \in 1 .. MaxVbiLen) BY <1>2
<1>4. DecodeVbi(s) \in {Failed("more"), Failed("panic"), Failed("error")}
  BY <1>3 DEF DecodeVbi
<1>5. QED BY <1>4 DEF Failed, s
==============================================================================
