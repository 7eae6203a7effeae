---------------------------- MODULE CodecProofs -----------------------------
(***************************************************************************)
(* What the codec modules compute, for every input: not those alone that   *)
(* MCCodec has for TLC.  The state of MCCodec is one input, so that a      *)
(* theorem about an input is one about a state.                            *)
(***************************************************************************)
EXTENDS MCCodec, VbiProofs

-----------------------------------------------------------------------------
(* The remaining length.                                                   *)

\* Whatever follows it in the buffer, every length that a packet may have is
\* read back from the bytes that encode it, and exactly those are consumed
\* (convert_to_mqtt and convert_from_mqtt of VBI, mod.rs:252-301).
THEOREM LengthIsReadBack ==
  ASSUME n \in Nat, rest \in Seq(Byte)
  PROVE  RoundTrip
BY VbiRoundTrip DEF RoundTrip

\* While a byte of any such length is missing, convert_from_mqtt asks for more
\* (mod.rs:283-286).
THEOREM LengthIsWaitedFor ==
  ASSUME n \in Nat
  PROVE  NeedsEveryByte
BY VbiNeedsEveryByte DEF NeedsEveryByte

\* Whatever follows it, convert_from_mqtt reads no length that is larger than a
\* packet may have (mod.rs:289-294).
THEOREM LongerLengthIsRefused ==
  ASSUME n \in Nat, rest \in Seq(Byte)
  PROVE  TooLongIsRefused
BY VbiTooLong DEF TooLongIsRefused

-----------------------------------------------------------------------------
(* Bytes: integers, strings and byte vectors.                              *)

LEMMA ByteFacts ==
  /\ ByteSize \in Nat /\ ByteSize = 2 * Base /\ ByteSize > 1 /\ U16Size \in Nat
  /\ Byte = 0 .. ByteSize - 1
BY BaseType DEF ByteSize, U16Size, Byte

Regroups(x, y, z) == (x \o y) \o z = x \o (y \o z)

LEMMA Regroup ==
  ASSUME NEW x \in Seq(Byte), NEW y \in Seq(Byte), NEW z \in Seq(Byte)
  PROVE  Regroups(x, y, z)
BY BytesAssociative, ZenonT(30) DEF Regroups

LEMMA U16RoundTrip ==
  ASSUME NEW m \in Nat, m < U16Size, NEW s \in Seq(Byte)
  PROVE  /\ U16Bytes(m) \in Seq(Byte) /\ Len(U16Bytes(m)) = 2
         /\ FirstU16(U16Bytes(m) \o s) = m
<1> DEFINE h == m \div ByteSize
           l == m % ByteSize
<1>1. h \in Nat /\ l \in Nat /\ l < ByteSize /\ m = h * ByteSize + l
  <2>1. PICK b \in Nat : b = ByteSize /\ b > 1 BY ByteFacts
  <2>2. m \div b \in Nat /\ m % b \in Nat /\ m % b < b /\ m = b * (m \div b) + (m % b)
    BY <2>1
  <2>3. b * (m \div b) = (m \div b) * b BY <2>1, <2>2
  <2>4. QED BY <2>1, <2>2, <2>3
<1>2. h < ByteSize
  <2>1. m < ByteSize * ByteSize BY DEF U16Size
  <2> HIDE DEF h, l
  <2>2. ASSUME h >= ByteSize PROVE FALSE
    <3>1. h * ByteSize >= ByteSize * ByteSize BY <1>1, <2>2, ByteFacts
    <3>2. h * ByteSize \in Nat /\ ByteSize * ByteSize \in Nat BY <1>1, ByteFacts
    <3>3. QED BY <1>1, <2>1, <3>1, <3>2
  <2>3. QED BY <1>1, <2>2, ByteFacts
<1>3. h % ByteSize = h
  <2> HIDE DEF h, l
  <2>1. PICK b \in Nat : b = ByteSize /\ b > 1 BY ByteFacts
  <2>2. h % b = h BY <1>1, <1>2, <2>1
  <2>3. QED BY <2>1, <2>2
<1>4. U16Bytes(m) = <<h, l>> BY <1>3 DEF U16Bytes
<1>5. h \in Byte /\ l \in Byte
  <2> HIDE DEF h, l
  <2> QED BY <1>1, <1>2, ByteFacts
<1> HIDE DEF h, l
<1>6. <<h, l>> \in Seq(Byte) /\ Len(<<h, l>>) = 2 BY <1>5
<1>7. (<<h, l>> \o s)[1] = h /\ (<<h, l>> \o s)[2] = l BY <1>5
<1>8. FirstU16(<<h, l>> \o s) = m BY <1>1, <1>7 DEF FirstU16
<1>9. QED BY <1>4, <1>6, <1>8

\* What begins with a and goes on with b: its parts.
LEMMA PartsOf ==
  ASSUME NEW S, NEW a \in Seq(S), NEW b \in Seq(S)
  PROVE  /\ a \o b \in Seq(S) /\ Len(a \o b) = Len(a) + Len(b)
         /\ SubSeq(a \o b, 1, Len(a)) = a /\ From(a \o b, Len(a)) = b
<1>0. PICK v : v = a \o b OBVIOUS
<1>1. Len(a) \in Nat /\ Len(b) \in Nat /\ v \in Seq(S) BY <1>0
<1>2. /\ Len(v) = Len(a) + Len(b)
      /\ \A i \in 1 .. Len(a) : v[i] = a[i]
      /\ \A i \in 1 .. Len(b) : v[Len(a) + i] = b[i]
  BY <1>0, ConcatElements
<1>3. SubSeq(v, 1, Len(a)) = a
  <2> DEFINE c == SubSeq(v, 1, Len(a))
  <2>1. c \in Seq(S) /\ Len(c) = Len(a) /\ \A i \in 1 .. Len(a) : c[i] = v[i]
    BY <1>1, <1>2
  <2> HIDE DEF c
  <2>2. \A i \in 1 .. Len(c) : c[i] = a[i] BY <1>2, <2>1
  <2>3. c = a BY <2>1, <2>2, SeqEqual
  <2>4. QED BY <2>3 DEF c
<1>4. From(v, Len(a)) = b
  <2> DEFINE c == From(v, Len(a))
  <2>1. c \in Seq(S) /\ Len(c) = Len(b) /\ \A i \in 1 .. Len(b) : c[i] = v[Len(a) + i]
    BY <1>1, <1>2 DEF From
  <2> HIDE DEF c
  <2>2. \A i \in 1 .. Len(c) : c[i] = b[i] BY <1>2, <2>1
  <2>3. c = b BY <2>1, <2>2, SeqEqual
  <2>4. QED BY <2>3 DEF c
<1>5. QED BY <1>0, <1>1, <1>2, <1>3, <1>4, Zenon

\* What fits after a length of two bytes.
Short(s) == s \in Seq(Byte) /\ Len(s) < U16Size
Text(s) == Short(s) /\ Utf8(s)

LEMMA EncodeBytesFacts ==
  ASSUME NEW s, Short(s), NEW t \in Seq(Byte)
  PROVE  /\ EncodeBytes(s) \in Seq(Byte) /\ Len(EncodeBytes(s)) = Len(s) + 2
         /\ EncodeBytes(s) \o t \in Seq(Byte)
         /\ Len(EncodeBytes(s) \o t) = Len(s) + 2 + Len(t) /\ Len(t) \in Nat
         /\ FirstU16(EncodeBytes(s) \o t) = Len(s)
         /\ SubSeq(EncodeBytes(s) \o t, 3, Len(s) + 2) = s
<1>0. s \in Seq(Byte) /\ Len(s) \in Nat /\ Len(s) < U16Size BY DEF Short
<1>1. PICK h \in Seq(Byte) : h = U16Bytes(Len(s)) /\ Len(h) = 2 BY <1>0, U16RoundTrip
<1>2. EncodeBytes(s) = h \o s BY <1>1 DEF EncodeBytes
<1>3. h \o s \in Seq(Byte) /\ Len(h \o s) = Len(s) + 2
  <2>1. Len(h) = 2 BY <1>1
  <2>2. h \o s \in Seq(Byte) /\ Len(h \o s) = Len(h) + Len(s) BY <1>0
  <2>3. QED BY <1>0, <2>1, <2>2
<1>4. FirstU16((h \o s) \o t) = Len(s)
  <2>0. Regroups(h, s, t) BY <1>0, Regroup, Zenon
  <2>1. (h \o s) \o t = h \o (s \o t) BY <2>0, Zenon DEF Regroups
  <2>2. s \o t \in Seq(Byte) BY <1>0
  <2>3. FirstU16(h \o (s \o t)) = Len(s) BY <1>0, <1>1, <2>2, U16RoundTrip
  <2>4. QED BY <2>1, <2>3
<1>5. SubSeq((h \o s) \o t, 3, Len(s) + 2) = s
  <2>1. SubSeq((h \o s) \o t, Len(h) + 1, Len(h) + Len(s)) = s BY <1>0, MiddleOfConcat
  <2>2. Len(h) + 1 = 3 /\ Len(h) + Len(s) = Len(s) + 2 BY <1>0, <1>1
  <2>3. QED BY <2>1, <2>2
<1>6. /\ (h \o s) \o t \in Seq(Byte) /\ Len(t) \in Nat
      /\ Len((h \o s) \o t) = Len(s) + 2 + Len(t)
  BY <1>3
<1>7. QED BY <1>2, <1>3, <1>4, <1>5, <1>6

\* A string, or a byte vector, is read back whatever follows it.
LEMMA StringRoundTrip ==
  ASSUME NEW s, Text(s), NEW t \in Seq(Byte)
  PROVE  DecodeString(EncodeBytes(s) \o t) = Parsed(s, Len(s) + 2)
<1>0. Short(s) /\ Utf8(s) /\ Len(s) \in Nat BY DEF Text, Short
<1>1. PICK b \in Seq(Byte) : b = EncodeBytes(s) \o t BY <1>0, EncodeBytesFacts
<1>2. Len(b) = Len(s) + 2 + Len(t) /\ Len(t) \in Nat BY <1>0, <1>1, EncodeBytesFacts
<1>3. FirstU16(b) = Len(s) /\ SubSeq(b, 3, Len(s) + 2) = s BY <1>0, <1>1, EncodeBytesFacts
<1>4. ~ (Len(b) < 2) /\ ~ (Len(b) < FirstU16(b) + 2) BY <1>0, <1>2, <1>3
<1>5. DecodeString(b) = Parsed(s, Len(s) + 2) BY <1>0, <1>3, <1>4 DEF DecodeString
<1>6. QED BY <1>1, <1>5

LEMMA VecRoundTrip ==
  ASSUME NEW s, Short(s), NEW t \in Seq(Byte)
  PROVE  DecodeVec(EncodeBytes(s) \o t) = Parsed(s, Len(s) + 2)
<1>0. Len(s) \in Nat BY DEF Short
<1>1. PICK b \in Seq(Byte) : b = EncodeBytes(s) \o t BY EncodeBytesFacts
<1>2. Len(b) = Len(s) + 2 + Len(t) /\ Len(t) \in Nat BY <1>0, <1>1, EncodeBytesFacts
<1>3. FirstU16(b) = Len(s) /\ SubSeq(b, 3, Len(s) + 2) = s BY <1>1, EncodeBytesFacts
<1>4. ~ (Len(b) < 2) /\ ~ (Len(b) < FirstU16(b) + 2) BY <1>0, <1>2, <1>3
<1>5. DecodeVec(b) = Parsed(s, Len(s) + 2) BY <1>3, <1>4 DEF DecodeVec
<1>6. QED BY <1>1, <1>5

LEMMA PktIdRoundTrip ==
  ASSUME NEW id \in 1 .. U16Size - 1, NEW t \in Seq(Byte)
  PROVE  DecodePktId(U16Bytes(id) \o t) = Parsed(id, 2)
<1>1. id \in Nat /\ id < U16Size /\ id # 0 BY ByteFacts
<1>2. PICK h \in Seq(Byte) : h = U16Bytes(id) /\ Len(h) = 2 BY <1>1, U16RoundTrip
<1>3. FirstU16(h \o t) = id BY <1>1, <1>2, U16RoundTrip
<1>4. ~ (Len(h \o t) < 2)
  <2>1. Len(h \o t) = Len(h) + Len(t) /\ Len(t) \in Nat OBVIOUS
  <2>2. Len(h) = 2 BY <1>2
  <2>3. QED BY <2>1, <2>2
<1>5. DecodePktId(h \o t) = Parsed(id, 2) BY <1>1, <1>3, <1>4 DEF DecodePktId
<1>6. QED BY <1>2, <1>5

-----------------------------------------------------------------------------
(* Loops over bytes.  Each reads an element and leaves the rest to the next *)
(* turn, in a recursive function.  That there is one is shown as for       *)
(* EncodeVbi, from the least length of a list up to which there is none.   *)

\* The body of the recursive function: where the loop L stops and with what, the
\* bytes that it leaves, and the value and the length of what it has read.
LoopStep(L, f, b) ==
  IF b \in L.stops THEN L.last[b]
  ELSE LET ps == f[L.rest[b]]
       IN  IF ps.result # "ok" THEN ps ELSE Parsed(<<L.value[b]>> \o ps.value, L.len[b] + ps.len)

\* Each turn takes a byte at least.
Progresses(L) ==
  \A b \in Seq(Nat) : b \notin L.stops => L.rest[b] \in Seq(Nat) /\ Len(L.rest[b]) < Len(b)

Below(k) == {b \in Seq(Nat) : Len(b) < k}

\* g is the loop on the lists of less than k bytes.
LoopTo(L, k, g) == g = [b \in Below(k) |-> LoopStep(L, g, b)]

\* f is the loop.
IsLoop(L, f) == f = [b \in Seq(Nat) |-> LoopStep(L, f, b)]

LEMMA LoopStepSame ==
  ASSUME NEW L, Progresses(L), NEW b \in Seq(Nat), NEW f, NEW g,
         \A c \in Seq(Nat) : Len(c) < Len(b) => f[c] = g[c]
  PROVE  LoopStep(L, f, b) = LoopStep(L, g, b)
<1>1. CASE b \in L.stops BY <1>1 DEF LoopStep
<1>2. CASE b \notin L.stops
  <2>1. PICK c \in Seq(Nat) : c = L.rest[b] /\ Len(c) < Len(b) BY <1>2 DEF Progresses
  <2>2. f[c] = g[c] BY <2>1
  <2>3. QED BY <1>2, <2>1, <2>2 DEF LoopStep
<1>3. QED BY <1>1, <1>2

LEMMA LoopToUnique ==
  ASSUME NEW L, Progresses(L), NEW k \in Nat, NEW g, LoopTo(L, k, g),
         NEW j \in Nat, NEW h, LoopTo(L, j, h), NEW b \in Seq(Nat), Len(b) < k, Len(b) < j
  PROVE  g[b] = h[b]
<1> DEFINE S == {m \in Nat : \E c \in Seq(Nat) : Len(c) = m /\ m < k /\ m < j /\ g[c] # h[c]}
<1>1. SUFFICES ASSUME S # {} PROVE FALSE OBVIOUS
<1>2. S \in SUBSET Nat OBVIOUS
<1>3. PICK m \in S : \A i \in S : m <= i
  <2> HIDE DEF S
  <2> QED BY <1>1, <1>2, LeastNat
<1>4. PICK c \in Seq(Nat) : Len(c) = m /\ m < k /\ m < j /\ g[c] # h[c] OBVIOUS
<1>5. g[c] = LoopStep(L, g, c) /\ h[c] = LoopStep(L, h, c)
  <2>1. c \in Below(k) /\ c \in Below(j) BY <1>4 DEF Below
  <2>2. g = [a \in Below(k) |-> LoopStep(L, g, a)] BY DEF LoopTo
  <2>3. h = [a \in Below(j) |-> LoopStep(L, h, a)] BY DEF LoopTo
  <2> HIDE DEF S
  <2>4. QED BY <2>1, <2>2, <2>3
<1>6. ASSUME NEW a \in Seq(Nat), Len(a) < Len(c) PROVE g[a] = h[a]
  <2>1. Len(a) \in Nat /\ ~ (m <= Len(a)) /\ Len(a) < k /\ Len(a) < j BY <1>4, <1>6
  <2>2. Len(a) \notin S
    <3> HIDE DEF S
    <3> QED BY <2>1, <1>3
  <2>3. QED BY <2>1, <2>2
<1> HIDE DEF S
<1>7. LoopStep(L, g, c) = LoopStep(L, h, c) BY <1>6, LoopStepSame
<1>8. QED BY <1>4, <1>5, <1>7

LEMMA LoopToExists ==
  ASSUME NEW L, Progresses(L), NEW k \in Nat
  PROVE  \E g : LoopTo(L, k, g)
<1> DEFINE S == {m \in Nat : ~ \E g : LoopTo(L, m, g)}
<1>1. SUFFICES ASSUME S # {} PROVE FALSE OBVIOUS
<1>2. S \in SUBSET Nat OBVIOUS
<1>3. PICK m \in S : \A i \in S : m <= i
  <2> HIDE DEF S
  <2> QED BY <1>1, <1>2, LeastNat
<1>4. CASE m = 0
  <2> DEFINE g == [b \in {} |-> LoopStep(L, <<>>, b)]
  <2>1. Below(0) = {}
    <3>1. ASSUME NEW b \in Below(0) PROVE FALSE
      <4>1. b \in Seq(Nat) /\ Len(b) < 0 BY DEF Below
      <4>2. Len(b) \in Nat BY <4>1
      <4>3. QED BY <4>1, <4>2
    <3>2. QED BY <3>1
  <2>2. g = [b \in {} |-> LoopStep(L, g, b)] OBVIOUS
  <2> HIDE DEF g
  <2>3. LoopTo(L, 0, g) BY <2>1, <2>2 DEF LoopTo
  <2>4. QED BY <2>3, <1>4
<1>5. CASE m # 0
  <2>1. m - 1 \in Nat /\ m - 1 < m BY <1>5
  <2>2. m - 1 \notin S BY <2>1, <1>3
  <2>3. PICK g : LoopTo(L, m - 1, g) BY <2>1, <2>2
  <2> DEFINE h == [b \in Below(m) |-> LoopStep(L, g, b)]
             e == [b \in Below(m) |-> LoopStep(L, h, b)]
  <2>4. ASSUME NEW b \in Seq(Nat), Len(b) < m - 1 PROVE h[b] = g[b]
    <3>1. b \in Below(m - 1) /\ b \in Below(m)
      <4>1. Len(b) \in Nat OBVIOUS
      <4>2. Len(b) < m BY <4>1, <2>1, <2>4
      <4> HIDE DEF S
      <4>3. QED BY <4>2, <2>4 DEF Below
    <3>2. g = [a \in Below(m - 1) |-> LoopStep(L, g, a)] BY <2>3 DEF LoopTo
    <3>3. g[b] = LoopStep(L, g, b)
      <4> HIDE DEF h, e, S
      <4> QED BY <3>1, <3>2
    <3>4. h[b] = LoopStep(L, g, b) BY <3>1
    <3>5. QED BY <3>3, <3>4
  <2>5. ASSUME NEW b \in Below(m) PROVE h[b] = e[b]
    <3>1. b \in Seq(Nat) /\ Len(b) \in Nat /\ Len(b) < m BY DEF Below
    <3>2. ASSUME NEW a \in Seq(Nat), Len(a) < Len(b) PROVE g[a] = h[a]
      <4>1. Len(a) \in Nat OBVIOUS
      <4>2. Len(a) < m - 1 BY <4>1, <3>1, <3>2, <2>1
      <4>3. QED BY <4>2, <2>4
    <3>3. h[b] = LoopStep(L, g, b) /\ e[b] = LoopStep(L, h, b) OBVIOUS
    <3> HIDE DEF h, e
    <3>4. LoopStep(L, g, b) = LoopStep(L, h, b) BY <3>1, <3>2, LoopStepSame
    <3>5. QED BY <3>3, <3>4
  <2>6. h = e
    <3>1. \A b \in Below(m) : h[b] = e[b] BY <2>5
    <3>2. QED BY <3>1
  <2>7. h = [b \in Below(m) |-> LoopStep(L, h, b)] BY <2>6
  <2> HIDE DEF h
  <2>8. LoopTo(L, m, h) BY <2>7 DEF LoopTo
  <2>9. QED BY <2>8
<1>6. QED BY <1>4, <1>5

LEMMA LoopExists ==
  ASSUME NEW L, Progresses(L)
  PROVE  \E f : IsLoop(L, f)
<1> DEFINE G(k) == CHOOSE g : LoopTo(L, k, g)
           f == [b \in Seq(Nat) |-> G(Len(b) + 1)[b]]
           e == [b \in Seq(Nat) |-> LoopStep(L, f, b)]
<1>1. ASSUME NEW k \in Nat PROVE LoopTo(L, k, G(k)) BY LoopToExists
<1>2. ASSUME NEW b \in Seq(Nat) PROVE f[b] = e[b]
  <2>1. PICK k \in Nat : k = Len(b) + 1 /\ Len(b) \in Nat /\ Len(b) < k OBVIOUS
  <2>2. PICK g : g = G(k) /\ LoopTo(L, k, g) BY <1>1
  <2>3. f[b] = g[b] BY <2>1, <2>2
  <2>4. g[b] = LoopStep(L, g, b)
    <3>1. b \in Below(k) BY <2>1 DEF Below
    <3>2. g = [a \in Below(k) |-> LoopStep(L, g, a)] BY <2>2 DEF LoopTo
    <3> HIDE DEF G, f, e
    <3>3. QED BY <3>1, <3>2
  <2>5. ASSUME NEW a \in Seq(Nat), Len(a) < Len(b) PROVE g[a] = f[a]
    <3>1. PICK j \in Nat : j = Len(a) + 1 /\ Len(a) \in Nat /\ Len(a) < j OBVIOUS
    <3>2. PICK h : h = G(j) /\ LoopTo(L, j, h) BY <1>1
    <3>3. f[a] = h[a] BY <3>1, <3>2
    <3>4. Len(a) < k BY <2>1, <2>5, <3>1
    <3> HIDE DEF G, f, e
    <3>5. h[a] = g[a] BY <2>2, <3>1, <3>2, <3>4, LoopToUnique
    <3>6. QED BY <3>3, <3>5
  <2>6. e[b] = LoopStep(L, f, b) OBVIOUS
  <2> HIDE DEF G, f, e
  <2>7. LoopStep(L, g, b) = LoopStep(L, f, b) BY <2>5, LoopStepSame
  <2>8. QED BY <2>3, <2>4, <2>6, <2>7
<1>3. f = e
  <2>1. \A b \in Seq(Nat) : f[b] = e[b] BY <1>2
  <2> HIDE DEF G
  <2>2. QED BY <2>1
<1>4. f = [b \in Seq(Nat) |-> LoopStep(L, f, b)] BY <1>3
<1> HIDE DEF f
<1>5. IsLoop(L, f) BY <1>4 DEF IsLoop
<1>6. QED BY <1>5

-----------------------------------------------------------------------------
(* Lists: the loops over the properties of a packet, or its topics.        *)

\* The loop that reads elements with the decoder D, one after the other.
ListOf(D) ==
  [stops |-> {b \in Seq(Nat) : b = <<>> \/ D[b].result # "ok"},
   last  |-> [b \in Seq(Nat) |-> IF b = <<>> THEN Parsed(<<>>, 0) ELSE D[b]],
   rest  |-> [b \in Seq(Nat) |-> From(b, D[b].len)],
   value |-> [b \in Seq(Nat) |-> D[b].value],
   len   |-> [b \in Seq(Nat) |-> D[b].len]]

ListStep(D, f, b) ==
  IF b = <<>> THEN Parsed(<<>>, 0)
  ELSE IF D[b].result # "ok" THEN D[b]
  ELSE LET ps == f[From(b, D[b].len)]
       IN  IF ps.result # "ok" THEN ps
           ELSE Parsed(<<D[b].value>> \o ps.value, D[b].len + ps.len)

IsList(D, f) == f = [b \in Seq(Nat) |-> ListStep(D, f, b)]

\* The decoder of an element takes a byte at least.
TakesBytes(D) ==
  \A b \in Seq(Nat) : b # <<>> /\ D[b].result = "ok" => D[b].len \in Nat /\ D[b].len >= 1

LEMMA RestIsShorter ==
  ASSUME NEW b \in Seq(Nat), b # <<>>, NEW k \in Nat, k >= 1
  PROVE  From(b, k) \in Seq(Nat) /\ Len(From(b, k)) < Len(b)
<1>1. Len(b) \in Nat /\ Len(b) > 0 BY EmptySeq
<1>2. From(b, k) \in Seq(Nat) BY <1>1 DEF From
<1>3. Len(From(b, k)) = IF k + 1 <= Len(b) THEN Len(b) - k ELSE 0 BY <1>1 DEF From
<1>4. Len(From(b, k)) < Len(b) BY <1>1, <1>3
<1>5. QED BY <1>2, <1>4

LEMMA ListProgresses ==
  ASSUME NEW D, TakesBytes(D)
  PROVE  Progresses(ListOf(D))
<1> SUFFICES ASSUME NEW b \in Seq(Nat), b \notin ListOf(D).stops
             PROVE  /\ ListOf(D).rest[b] \in Seq(Nat)
                    /\ Len(ListOf(D).rest[b]) < Len(b)
  BY DEF Progresses
<1>1. b # <<>> /\ D[b].result = "ok" BY DEF ListOf
<1>2. D[b].len \in Nat /\ D[b].len >= 1 BY <1>1 DEF TakesBytes
<1>3. ListOf(D).rest[b] = From(b, D[b].len) BY DEF ListOf
<1>4. QED BY <1>1, <1>2, <1>3, RestIsShorter

LEMMA ListStepIs ==
  ASSUME NEW D, NEW f, NEW b \in Seq(Nat)
  PROVE  LoopStep(ListOf(D), f, b) = ListStep(D, f, b)
BY DEF LoopStep, ListStep, ListOf

LEMMA ListExists ==
  ASSUME NEW D, TakesBytes(D)
  PROVE  \E f : IsList(D, f)
<1>1. PICK f : IsLoop(ListOf(D), f) BY ListProgresses, LoopExists
<1>2. f = [b \in Seq(Nat) |-> LoopStep(ListOf(D), f, b)] BY <1>1 DEF IsLoop
<1>3. [b \in Seq(Nat) |-> LoopStep(ListOf(D), f, b)] = [b \in Seq(Nat) |-> ListStep(D, f, b)]
  BY ListStepIs
<1>4. IsList(D, f) BY <1>2, <1>3 DEF IsList
<1>5. QED BY <1>4

\* D reads x from the bytes a, whatever follows them.
Reads(D, x, a) == \A t \in Seq(Byte) : D[a \o t] = Parsed(x, Len(a))

\* b is a and then t.
Joined(b, a, t) == b = a \o t /\ a \in Seq(Byte) /\ t \in Seq(Byte)

LEMMA JoinedParts ==
  ASSUME NEW a, NEW b, NEW t, Joined(b, a, t)
  PROVE  b \in Seq(Byte) /\ Len(b) = Len(a) + Len(t) /\ From(b, Len(a)) = t
<1>1. a \in Seq(Byte) /\ t \in Seq(Byte) /\ b = a \o t BY DEF Joined
<1>2. /\ a \o t \in Seq(Byte) /\ Len(a \o t) = Len(a) + Len(t)
      /\ From(a \o t, Len(a)) = t
  BY <1>1, PartsOf
<1>3. QED BY <1>1, <1>2, Zenon

LEMMA JoinedReads ==
  ASSUME NEW D, NEW x, NEW a, NEW b, NEW t, Joined(b, a, t), Reads(D, x, a)
  PROVE  D[b] = Parsed(x, Len(a))
BY Zenon DEF Joined, Reads

\* Each e[i] is an encoding of q[i].
Encodes(D, V, q, e) ==
  /\ q \in Seq(V) /\ e \in Seq(Seq(Byte)) /\ Len(e) = Len(q)
  /\ \A i \in 1 .. Len(q) : e[i] # <<>> /\ Reads(D, q[i], e[i])

LEMMA BytesAreNats == Seq(Byte) \subseteq Seq(Nat)
<1>1. Byte \subseteq Nat BY ByteFacts
<1>2. QED BY <1>1, SeqMonotonic

Splits(q) == q = <<Head(q)>> \o Tail(q)

LEMMA EncodesTail ==
  ASSUME NEW D, NEW V, NEW q, NEW e, Encodes(D, V, q, e), q # <<>>
  PROVE  /\ e # <<>> /\ Head(e) \in Seq(Byte) /\ Head(e) # <<>> /\ Head(q) \in V
         /\ Reads(D, Head(q), Head(e))
         /\ Len(Tail(q)) = Len(q) - 1 /\ Len(q) \in Nat
         /\ Splits(q) /\ Encodes(D, V, Tail(q), Tail(e))
<1>1. q \in Seq(V) /\ e \in Seq(Seq(Byte)) /\ Len(e) = Len(q) /\ Len(q) \in Nat
  BY DEF Encodes
<1>2. Len(q) >= 1 /\ e # <<>> BY <1>1, EmptySeq
<1>3. /\ Head(e) = e[1] /\ Head(q) = q[1] /\ Head(e) \in Seq(Byte) /\ Head(q) \in V
      /\ 1 \in 1 .. Len(q)
  BY <1>1, <1>2
<1>4. /\ Tail(q) \in Seq(V) /\ Tail(e) \in Seq(Seq(Byte))
      /\ Len(Tail(q)) = Len(q) - 1 /\ Len(Tail(e)) = Len(q) - 1
      /\ \A i \in 1 .. Len(q) - 1 : Tail(q)[i] = q[i + 1] /\ Tail(e)[i] = e[i + 1]
  BY <1>1, <1>2
<1>5. ASSUME NEW i \in 1 .. Len(Tail(q))
      PROVE  Tail(e)[i] # <<>> /\ Reads(D, Tail(q)[i], Tail(e)[i])
  <2>1. PICK j \in 1 .. Len(q) : j = i + 1 BY <1>1, <1>2, <1>4
  <2>2. Tail(e)[i] = e[j] /\ Tail(q)[i] = q[j] BY <1>4, <2>1
  <2>3. e[j] # <<>> /\ Reads(D, q[j], e[j]) BY DEF Encodes
  <2>4. QED BY <2>2, <2>3
<1>6. Encodes(D, V, Tail(q), Tail(e)) BY <1>4, <1>5 DEF Encodes
<1>7. Head(e) # <<>> /\ Reads(D, Head(q), Head(e)) BY <1>3 DEF Encodes
<1>8. Splits(q)
  <2>1. q \in Seq(V) /\ q # <<>> BY <1>1
  <2>2. QED BY <2>1 DEF Splits
<1>9. QED BY <1>1, <1>2, <1>3, <1>4, <1>6, <1>7, <1>8

\* One turn of the loop: the element that the bytes begin with, and the others.
Turn(D, f, b, x, k, p, l) == D[b] = Parsed(x, k) /\ f[From(b, k)] = Parsed(p, l)
AfterTurn(f, b, x, k, p, l) == f[b] = Parsed(<<x>> \o p, k + l)

LEMMA ListTurn ==
  ASSUME NEW D, NEW f, IsList(D, f), NEW b \in Seq(Byte), b # <<>>,
         NEW x, NEW k, NEW p, NEW l, Turn(D, f, b, x, k, p, l)
  PROVE  AfterTurn(f, b, x, k, p, l)
<1>1. D[b].result = "ok" /\ D[b].value = x /\ D[b].len = k BY DEF Turn, Parsed
<1>2. PICK ps : ps = f[From(b, k)] OBVIOUS
<1>3. ps.result = "ok" /\ ps.value = p /\ ps.len = l BY <1>2 DEF Turn, Parsed
<1>4. f[b] = ListStep(D, f, b)
  <2>1. b \in Seq(Nat) BY BytesAreNats
  <2>2. QED BY <2>1 DEF IsList
<1>5. ListStep(D, f, b) = Parsed(<<x>> \o p, k + l) BY <1>1, <1>2, <1>3 DEF ListStep
<1>6. QED BY <1>4, <1>5, Zenon DEF AfterTurn

\* The loop reads the elements that were written one after the other.
LEMMA ListRoundTrip ==
  ASSUME NEW D, NEW f, IsList(D, f), NEW V, NEW q, NEW e, Encodes(D, V, q, e)
  PROVE  f[FlattenSeq(e)] = Parsed(q, Len(FlattenSeq(e)))
<1> DEFINE S == {m \in Nat : \E r, d : /\ Encodes(D, V, r, d) /\ Len(r) = m
                                       /\ f[FlattenSeq(d)] # Parsed(r, Len(FlattenSeq(d)))}
<1>1. ASSUME S # {} PROVE FALSE
  <2>1. S \in SUBSET Nat OBVIOUS
  <2>2. PICK m \in S : \A i \in S : m <= i
    <3> HIDE DEF S
    <3> QED BY <1>1, <2>1, LeastNat
  <2>3. PICK r, d : /\ Encodes(D, V, r, d) /\ Len(r) = m
                    /\ f[FlattenSeq(d)] # Parsed(r, Len(FlattenSeq(d)))
    OBVIOUS
  <2>4. r \in Seq(V) /\ d \in Seq(Seq(Byte)) /\ Len(d) = Len(r) /\ Len(r) \in Nat
    BY <2>3 DEF Encodes
  <2>5. CASE r = <<>>
    <3>1. d = <<>> BY <2>4, <2>5, EmptySeq
    <3>2. FlattenSeq(d) = <<>> BY <3>1, FlattenEmpty, Zenon
    <3>3. f[<<>>] = Parsed(<<>>, 0)
      <4>1. <<>> \in Seq(Nat) OBVIOUS
      <4>2. f[<<>>] = ListStep(D, f, <<>>) BY <4>1 DEF IsList
      <4>3. QED BY <4>2 DEF ListStep
    <3>4. Len(<<>>) = 0 OBVIOUS
    <3>5. QED BY <2>3, <2>5, <3>2, <3>3, <3>4
  <2>6. CASE r # <<>>
    <3>1. Encodes(D, V, r, d) BY <2>3
    <3>2. PICK a \in Seq(Byte) : a = Head(d) BY <3>1, <2>6, EncodesTail
    <3>3. /\ d # <<>> /\ a # <<>> /\ Splits(r)
          /\ Len(Tail(r)) = Len(r) - 1
          /\ Encodes(D, V, Tail(r), Tail(d))
      BY <3>1, <2>6, <3>2, EncodesTail
    <3>4. PICK t \in Seq(Byte) : t = FlattenSeq(Tail(d))
      <4>1. Tail(d) \in Seq(Seq(Byte)) BY <3>3 DEF Encodes
      <4>2. QED BY <4>1, FlattenType
    <3>5. f[t] = Parsed(Tail(r), Len(t))
      <4>1. Len(Tail(r)) \in Nat /\ ~ (m <= Len(Tail(r)))
        <5>1. Len(r) # 0 BY <2>4, <2>6, EmptySeq
        <5>2. QED BY <2>3, <2>4, <3>3, <5>1
      <4>2. Len(Tail(r)) \notin S
        <5> HIDE DEF S
        <5> QED BY <2>2, <4>1
      <4>3. QED BY <3>3, <3>4, <4>1, <4>2
    <3> HIDE DEF S
    <3>6. PICK b \in Seq(Byte) : b = FlattenSeq(d) BY <2>4, FlattenType
    <3>7. Joined(b, a, t) BY <2>4, <3>2, <3>3, <3>4, <3>6, FlattenHead DEF Joined
    <3>8. D[b] = Parsed(Head(r), Len(a))
      <4>1. Reads(D, Head(r), a) BY <3>1, <2>6, <3>2, EncodesTail
      <4>2. QED BY <4>1, <3>7, JoinedReads
    <3>9. Len(b) = Len(a) + Len(t) /\ From(b, Len(a)) = t BY <3>7, JoinedParts
    <3>10. b # <<>>
      <4>1. Len(a) \in Nat /\ Len(t) \in Nat /\ Len(a) # 0 BY <3>3, EmptySeq
      <4>2. Len(b) # 0 BY <3>9, <4>1
      <4>3. QED BY <4>2
    <3>11. f[b] = Parsed(<<Head(r)>> \o Tail(r), Len(a) + Len(t))
      <4>1. f[From(b, Len(a))] = Parsed(Tail(r), Len(t)) BY <3>9, <3>5
      <4>2. Turn(D, f, b, Head(r), Len(a), Tail(r), Len(t)) BY <3>8, <4>1, Zenon DEF Turn
      <4>3. AfterTurn(f, b, Head(r), Len(a), Tail(r), Len(t)) BY <3>10, <4>2, ListTurn, Zenon
      <4>4. QED BY <4>3, Zenon DEF AfterTurn
    <3>12. f[b] = Parsed(r, Len(b)) BY <3>3, <3>9, <3>11, Zenon DEF Splits
    <3>13. QED BY <2>3, <3>6, <3>12
  <2>7. QED BY <2>5, <2>6
<1>2. Len(q) \in Nat BY DEF Encodes
<1>3. Len(q) \notin S BY <1>1
<1>4. QED BY <1>2, <1>3

-----------------------------------------------------------------------------
(* Properties.                                                             *)

PropertyDecoder == [b \in Seq(Nat) |-> DecodeProperty(b)]

LEMMA StringLen ==
  ASSUME NEW b \in Seq(Nat), DecodeString(b).result = "ok"
  PROVE  DecodeString(b).len \in Nat
<1>1. PICK s : s = SubSeq(b, 3, FirstU16(b) + 2) OBVIOUS
<1>2. ~ (Len(b) < 2) /\ ~ (Len(b) >= 2 /\ Len(b) < FirstU16(b) + 2)
  BY DEF DecodeString, Failed
<1>3. DecodeString(b) = IF Utf8(s) THEN Parsed(s, Len(s) + 2) ELSE Failed("error")
  BY <1>1, <1>2 DEF DecodeString
<1>4. DecodeString(b).len = Len(s) + 2 BY <1>3 DEF Parsed, Failed
<1>5. Len(s) \in Nat
  <2>1. FirstU16(b) \in Nat
    <3>1. Len(b) \in Nat /\ Len(b) >= 2 BY <1>2
    <3>2. b[1] \in Nat /\ b[2] \in Nat BY <3>1
    <3>3. b[1] * ByteSize \in Nat BY <3>2, ByteFacts
    <3>4. QED BY <3>2, <3>3 DEF FirstU16
  <2>2. s \in Seq(Nat) BY <1>1, <1>2, <2>1
  <2>3. QED BY <2>2
<1>6. QED BY <1>4, <1>5

LEMMA VecLen ==
  ASSUME NEW b \in Seq(Nat), DecodeVec(b).result = "ok"
  PROVE  DecodeVec(b).len \in Nat
<1>1. ~ (Len(b) < 2) /\ ~ (Len(b) >= 2 /\ Len(b) < FirstU16(b) + 2)
  BY DEF DecodeVec, Failed
<1>2. DecodeVec(b).len = FirstU16(b) + 2 BY <1>1 DEF DecodeVec, Parsed
<1>3. FirstU16(b) \in Nat
  <2>1. Len(b) \in Nat /\ Len(b) >= 2 BY <1>1
  <2>2. b[1] \in Nat /\ b[2] \in Nat BY <2>1
  <2>3. b[1] * ByteSize \in Nat BY <2>2, ByteFacts
  <2>4. QED BY <2>2, <2>3 DEF FirstU16
<1>4. QED BY <1>2, <1>3

LEMMA TwoStringsLen ==
  ASSUME NEW b \in Seq(Nat), DecodeTwoStrings(b).result = "ok"
  PROVE  DecodeTwoStrings(b).len \in Nat
<1>1. PICK k : k = DecodeString(b) OBVIOUS
<1>2. PICK v : v = DecodeString(From(b, k.len)) OBVIOUS
<1>3. DecodeTwoStrings(b) =
        IF k.result = "ok"
        THEN IF v.result = "ok" THEN Parsed(<<k.value, v.value>>, k.len + v.len) ELSE v
        ELSE k
  BY <1>1, <1>2 DEF DecodeTwoStrings, Then
<1>4. k.result = "ok" /\ v.result = "ok" BY <1>3
<1>5. k.len \in Nat BY <1>1, <1>4, StringLen
<1>6. From(b, k.len) \in Seq(Nat) BY <1>5 DEF From
<1>7. v.len \in Nat BY <1>2, <1>4, <1>6, StringLen
<1>8. DecodeTwoStrings(b).len = k.len + v.len BY <1>3, <1>4 DEF Parsed
<1>9. QED BY <1>5, <1>7, <1>8

LEMMA PropertyTakesBytes == TakesBytes(PropertyDecoder)
<1> SUFFICES ASSUME NEW b \in Seq(Nat), b # <<>>, PropertyDecoder[b].result = "ok"
             PROVE  PropertyDecoder[b].len \in Nat /\ PropertyDecoder[b].len >= 1
  BY DEF TakesBytes
<1>1. PICK d : d = DecodeProperty(b) OBVIOUS
<1>2. d = PropertyDecoder[b] /\ d.result = "ok" BY <1>1 DEF PropertyDecoder
<1>3. PICK t \in Seq(Nat) : t = Tail(b)
  <2>1. b # <<>> /\ b \in Seq(Nat) OBVIOUS
  <2>2. Tail(b) \in Seq(Nat) BY <2>1, HeadTailProperties
  <2>3. QED BY <2>2
<1>4. CASE Head(b) = 1
  <2>1. d = IF Len(b) < 2 THEN Failed("panic") ELSE Parsed(PayloadFormatId(b[2]), 2)
    BY <1>1, <1>4 DEF DecodeProperty
  <2>2. d.len = 2 BY <1>2, <2>1 DEF Failed, Parsed
  <2>3. QED BY <1>2, <2>2
<1>5. CASE Head(b) = 2
  <2>1. d = IF Len(b) < 5 THEN Failed("more")
            ELSE Parsed(MessageExpiryInterval(FirstU32(t)), 4)
    BY <1>1, <1>3, <1>5 DEF DecodeProperty
  <2>2. d.len = 4 BY <1>2, <2>1 DEF Failed, Parsed
  <2>3. QED BY <1>2, <2>2
<1>6. CASE Head(b) = 8
  <2>1. d = IF DecodeString(t).result = "ok"
            THEN Parsed(Property(Head(b), DecodeString(t).value), DecodeString(t).len + 1)
            ELSE DecodeString(t)
    BY <1>1, <1>3, <1>6 DEF DecodeProperty, DecodeWithId, Then
  <2>2. d.len = DecodeString(t).len + 1 /\ DecodeString(t).len \in Nat
    BY <1>2, <2>1, StringLen DEF Parsed
  <2>3. QED BY <1>2, <2>2
<1>7. CASE Head(b) = 9
  <2>1. d = IF DecodeVec(t).result = "ok"
            THEN Parsed(Property(Head(b), DecodeVec(t).value), DecodeVec(t).len + 1)
            ELSE DecodeVec(t)
    BY <1>1, <1>3, <1>7 DEF DecodeProperty, DecodeWithId, Then
  <2>2. d.len = DecodeVec(t).len + 1 /\ DecodeVec(t).len \in Nat
    BY <1>2, <2>1, VecLen DEF Parsed
  <2>3. QED BY <1>2, <2>2
<1>8. CASE Head(b) = 38
  <2>1. d = IF DecodeTwoStrings(t).result = "ok"
            THEN Parsed(Property(Head(b), DecodeTwoStrings(t).value), DecodeTwoStrings(t).len + 1)
            ELSE DecodeTwoStrings(t)
    BY <1>1, <1>3, <1>8 DEF DecodeProperty, DecodeWithId, Then
  <2>2. d.len = DecodeTwoStrings(t).len + 1 /\ DecodeTwoStrings(t).len \in Nat
    BY <1>2, <2>1, TwoStringsLen DEF Parsed
  <2>3. QED BY <1>2, <2>2
<1>9. CASE Head(b) \notin {1, 2, 8, 9, 38}
  <2>1. d = Failed("error") BY <1>1, <1>9 DEF DecodeProperty
  <2>2. QED BY <1>2, <2>1 DEF Failed
<1>10. QED BY <1>4, <1>5, <1>6, <1>7, <1>8, <1>9

LEMMA PropertiesLoop == IsList(PropertyDecoder, PropertiesIn)
<1>1. PICK g : IsList(PropertyDecoder, g) BY ListExists, PropertyTakesBytes
<1>2. ASSUME NEW f, NEW b \in Seq(Nat)
      PROVE  ListStep(PropertyDecoder, f, b) =
               IF b = <<>> THEN Parsed(<<>>, 0)
               ELSE Then(DecodeProperty(b), LAMBDA p :
                      Then(f[From(b, p.len)], LAMBDA ps :
                        Parsed(<<p.value>> \o ps.value, p.len + ps.len)))
  BY DEF ListStep, Then, PropertyDecoder
<1>3. QED BY <1>1, <1>2 DEF PropertiesIn, IsList

\* Base is large enough for the identifiers of the properties to be bytes.
IdsAreBytes == Base >= 32

LEMMA IdBytes == IdsAreBytes => {1, 8, 9, 38} \subseteq Byte
BY ByteFacts, BaseType DEF IdsAreBytes

\* Bytes after an identifier, and what follows them.
LEMMA AfterId ==
  ASSUME NEW i \in Byte, NEW a \in Seq(Byte)
  PROVE  /\ <<i>> \o a \in Seq(Byte) /\ Len(<<i>> \o a) = Len(a) + 1 /\ <<i>> \o a # <<>>
         /\ \A t \in Seq(Byte) :
              /\ (<<i>> \o a) \o t \in Seq(Nat) /\ Len((<<i>> \o a) \o t) = Len(a) + 1 + Len(t)
              /\ Head((<<i>> \o a) \o t) = i /\ Tail((<<i>> \o a) \o t) = a \o t
<1>1. PICK w \in Seq(Byte) : w = <<i>> \o a /\ Len(w) = Len(a) + 1
  <2>1. <<i>> \in Seq(Byte) /\ Len(<<i>>) = 1 OBVIOUS
  <2>2. <<i>> \o a \in Seq(Byte) /\ Len(<<i>> \o a) = Len(<<i>>) + Len(a) BY <2>1
  <2>3. Len(<<i>> \o a) = Len(a) + 1 BY <2>1, <2>2
  <2>4. QED BY <2>2, <2>3
<1>2. w # <<>>
  <2>1. Len(w) # 0 BY <1>1
  <2>2. QED BY <2>1
<1>3. w[1] = i /\ \A j \in 1 .. Len(a) : w[j + 1] = a[j] BY <1>1
<1>4. ASSUME NEW t \in Seq(Byte)
      PROVE  w \o t \in Seq(Nat) /\ Len(w \o t) = Len(a) + 1 + Len(t)
             /\ Head(w \o t) = i /\ Tail(w \o t) = a \o t
  <2>1. Len(w) = Len(a) + 1 /\ Len(a) \in Nat /\ Len(t) \in Nat BY <1>1
  <2>2. /\ w \o t \in Seq(Byte) /\ Len(w \o t) = Len(w) + Len(t)
        /\ \A j \in 1 .. Len(w) : (w \o t)[j] = w[j]
        /\ \A j \in 1 .. Len(t) : (w \o t)[Len(w) + j] = t[j]
    BY ConcatElements
  <2>3. w \o t \in Seq(Nat) BY <2>2, BytesAreNats
  <2>4. PICK c \in Seq(Byte) : c = w \o t BY <2>2
  <2>5. PICK d \in Seq(Byte) : d = a \o t BY PartsOf
  <2>6. /\ Len(d) = Len(a) + Len(t)
        /\ \A j \in 1 .. Len(a) : d[j] = a[j]
        /\ \A j \in 1 .. Len(t) : d[Len(a) + j] = t[j]
    BY <2>5, ConcatElements
  <2>7. Len(c) = Len(a) + 1 + Len(t) /\ c[1] = i
    <3>1. Len(c) = Len(a) + 1 + Len(t) BY <2>1, <2>2, <2>4
    <3>2. 1 \in 1 .. Len(w) BY <2>1
    <3>3. (w \o t)[1] = w[1] BY <2>2, <3>2
    <3>4. c[1] = i BY <2>4, <3>3, <1>3, Zenon
    <3>5. QED BY <3>1, <3>4
  <2>8. ASSUME NEW j \in 1 .. Len(d) PROVE c[j + 1] = d[j]
    <3>1. /\ \A l \in 1 .. Len(w) : c[l] = w[l]
          /\ \A l \in 1 .. Len(t) : c[Len(w) + l] = t[l]
      BY <2>2, <2>4, Zenon
    <3>2. CASE j <= Len(a)
      <4>1. j \in 1 .. Len(a) /\ j + 1 \in 1 .. Len(w) BY <2>1, <2>6, <3>2
      <4>2. QED BY <1>3, <2>6, <3>1, <4>1
    <3>3. CASE j > Len(a)
      <4>1. PICK l \in 1 .. Len(t) : j = Len(a) + l /\ j + 1 = Len(w) + l
        <5>1. j \in 1 .. Len(a) + Len(t) BY <2>6
        <5>2. j - Len(a) \in 1 .. Len(t) BY <2>1, <3>3, <5>1
        <5>3. j = Len(a) + (j - Len(a)) /\ j + 1 = Len(w) + (j - Len(a)) BY <2>1, <5>1
        <5>4. QED BY <5>2, <5>3
      <4>2. QED BY <2>6, <3>1, <4>1
    <3>4. QED BY <2>1, <2>6, <3>2, <3>3
  <2>9. Tail(c) = d
    <3>1. c # <<>>
      <4>1. Len(c) # 0 BY <2>1, <2>7
      <4>2. QED BY <4>1
    <3>2. Tail(c) \in Seq(Byte) /\ Len(Tail(c)) = Len(c) - 1
          /\ \A j \in 1 .. Len(c) - 1 : Tail(c)[j] = c[j + 1]
      BY <2>1, <2>7, <3>1
    <3>3. Len(Tail(c)) = Len(d) BY <2>1, <2>6, <2>7, <3>2
    <3>4. \A j \in 1 .. Len(Tail(c)) : Tail(c)[j] = d[j] BY <2>1, <2>7, <2>8, <3>2, <3>3
    <3>5. QED BY <3>2, <3>3, <3>4, SeqEqual
  <2>10. Head(c) = i BY <2>7
  <2>11. QED BY <2>1, <2>2, <2>3, <2>4, <2>5, <2>9, <2>10
<1>5. QED BY <1>1, <1>2, <1>4

\* D reads p from the bytes e, of which there are some.
IsReadBy(D, p, e) == e \in Seq(Byte) /\ e # <<>> /\ Reads(D, p, e)

\* p is read from the bytes that EncodeProperty makes of it.
WrittenAs(p, e) == EncodeProperty(p) = e /\ IsReadBy(PropertyDecoder, p, e)

LEMMA ReadsAfterId ==
  ASSUME NEW i \in Byte, NEW a \in Seq(Byte), NEW D, NEW p,
         \A b \in Seq(Nat), t \in Seq(Byte) :
            Head(b) = i /\ Tail(b) = a \o t /\ Len(b) = Len(a) + 1 + Len(t)
              => D[b] = Parsed(p, Len(a) + 1)
  PROVE  IsReadBy(D, p, <<i>> \o a)
<1>1. <<i>> \o a \in Seq(Byte) /\ Len(<<i>> \o a) = Len(a) + 1 /\ <<i>> \o a # <<>>
  BY AfterId
<1>2. ASSUME NEW t \in Seq(Byte)
      PROVE  D[(<<i>> \o a) \o t] = Parsed(p, Len(<<i>> \o a))
  <2>1. PICK b \in Seq(Nat) : /\ b = (<<i>> \o a) \o t /\ Head(b) = i /\ Tail(b) = a \o t
                              /\ Len(b) = Len(a) + 1 + Len(t)
    BY AfterId
  <2>2. D[b] = Parsed(p, Len(a) + 1) BY <2>1, Zenon
  <2>3. QED BY <1>1, <2>1, <2>2, Zenon
<1>3. QED BY <1>1, <1>2, Zenon DEF IsReadBy, Reads

LEMMA StringBytes ==
  ASSUME NEW s, Short(s)
  PROVE  EncodeBytes(s) \in Seq(Byte) /\ Len(EncodeBytes(s)) = Len(s) + 2 /\ Len(s) \in Nat
<1>1. <<>> \in Seq(Byte) OBVIOUS
<1>2. Len(s) \in Nat BY DEF Short
<1>3. QED BY <1>1, <1>2, EncodeBytesFacts

LEMMA FormatRoundTrip ==
  ASSUME IdsAreBytes, NEW i \in Byte
  PROVE  WrittenAs(PayloadFormatId(i), <<1>> \o <<i>>)
<1>1. 1 \in Byte /\ <<i>> \in Seq(Byte) BY IdBytes
<1>2. EncodeProperty(PayloadFormatId(i)) = <<1>> \o <<i>>
  BY DEF EncodeProperty, PayloadFormatId, Property
<1>3. ASSUME NEW b \in Seq(Nat), NEW t \in Seq(Byte),
             Head(b) = 1, Tail(b) = <<i>> \o t, Len(b) = Len(<<i>>) + 1 + Len(t)
      PROVE  PropertyDecoder[b] = Parsed(PayloadFormatId(i), Len(<<i>>) + 1)
  <2>1. Len(<<i>>) = 1 /\ Len(t) \in Nat OBVIOUS
  <2>2. Len(b) >= 2 BY <1>3, <2>1
  <2>3. b[2] = Tail(b)[1] BY <2>2
  <2>4. (<<i>> \o t)[1] = i OBVIOUS
  <2>5. b[2] = i BY <1>3, <2>3, <2>4, Zenon
  <2>6. DecodeProperty(b) = Parsed(PayloadFormatId(i), 2)
    <3>1. ~ (Len(b) < 2) BY <2>2
    <3>2. QED BY <1>3, <2>5, <3>1 DEF DecodeProperty
  <2>7. PropertyDecoder[b] = DecodeProperty(b) BY Zenon DEF PropertyDecoder
  <2>8. QED BY <2>1, <2>6, <2>7
<1>4. IsReadBy(PropertyDecoder, PayloadFormatId(i), <<1>> \o <<i>>)
  BY <1>1, <1>3, ReadsAfterId
<1>5. QED BY <1>2, <1>4 DEF WrittenAs

\* A string after an identifier, and two of them.
LEMMA StringAfterId ==
  ASSUME NEW s, Text(s), NEW b \in Seq(Nat), NEW t \in Seq(Byte),
         Tail(b) = EncodeBytes(s) \o t
  PROVE  DecodeWithId(b, DecodeString) = Parsed(Property(Head(b), s), Len(EncodeBytes(s)) + 1)
<1>1. Len(EncodeBytes(s)) = Len(s) + 2 BY StringBytes DEF Text
<1>2. PICK d : d = DecodeString(Tail(b)) OBVIOUS
<1>3. d = Parsed(s, Len(EncodeBytes(s))) BY <1>1, <1>2, StringRoundTrip
<1>4. d.result = "ok" /\ d.value = s /\ d.len = Len(EncodeBytes(s)) BY <1>3 DEF Parsed
<1>5. DecodeWithId(b, DecodeString) = Parsed(Property(Head(b), d.value), d.len + 1)
  BY <1>2, <1>4 DEF DecodeWithId, Then
<1>6. QED BY <1>4, <1>5, Zenon

LEMMA TopicRoundTrip ==
  ASSUME IdsAreBytes, NEW s, Text(s)
  PROVE  WrittenAs(ResponseTopic(s), <<8>> \o EncodeBytes(s))
<1>1. PICK a \in Seq(Byte) : a = EncodeBytes(s) BY StringBytes DEF Text
<1>2. 8 \in Byte BY IdBytes
<1>3. EncodeProperty(ResponseTopic(s)) = <<8>> \o a
  BY <1>1 DEF EncodeProperty, ResponseTopic, Property
<1>4. ASSUME NEW b \in Seq(Nat), NEW t \in Seq(Byte),
             Head(b) = 8, Tail(b) = a \o t, Len(b) = Len(a) + 1 + Len(t)
      PROVE  PropertyDecoder[b] = Parsed(ResponseTopic(s), Len(a) + 1)
  <2>1. DecodeProperty(b) = DecodeWithId(b, DecodeString) BY <1>4 DEF DecodeProperty
  <2>2. DecodeWithId(b, DecodeString) = Parsed(Property(8, s), Len(a) + 1)
    BY <1>1, <1>4, StringAfterId
  <2>3. PropertyDecoder[b] = DecodeProperty(b) BY Zenon DEF PropertyDecoder
  <2>4. QED BY <2>1, <2>2, <2>3, Zenon DEF ResponseTopic
<1>5. IsReadBy(PropertyDecoder, ResponseTopic(s), <<8>> \o a) BY <1>2, <1>4, ReadsAfterId
<1>6. QED BY <1>1, <1>3, <1>5 DEF WrittenAs

LEMMA DataRoundTrip ==
  ASSUME IdsAreBytes, NEW s, Short(s)
  PROVE  WrittenAs(CorrelationData(s), <<9>> \o EncodeBytes(s))
<1>1. PICK a \in Seq(Byte) : a = EncodeBytes(s) /\ Len(a) = Len(s) + 2 /\ Len(s) \in Nat
  BY StringBytes
<1>2. 9 \in Byte BY IdBytes
<1>3. EncodeProperty(CorrelationData(s)) = <<9>> \o a
  BY <1>1 DEF EncodeProperty, CorrelationData, Property
<1>4. ASSUME NEW b \in Seq(Nat), NEW t \in Seq(Byte),
             Head(b) = 9, Tail(b) = a \o t, Len(b) = Len(a) + 1 + Len(t)
      PROVE  PropertyDecoder[b] = Parsed(CorrelationData(s), Len(a) + 1)
  <2>1. PICK d : d = DecodeVec(Tail(b)) OBVIOUS
  <2>2. d = Parsed(s, Len(a)) BY <1>1, <1>4, <2>1, VecRoundTrip
  <2>3. DecodeProperty(b) = DecodeWithId(b, DecodeVec) BY <1>4 DEF DecodeProperty
  <2>4. DecodeWithId(b, DecodeVec) = Parsed(Property(9, s), Len(a) + 1)
    BY <1>4, <2>1, <2>2 DEF DecodeWithId, Then, Parsed
  <2>5. PropertyDecoder[b] = DecodeProperty(b) BY Zenon DEF PropertyDecoder
  <2>6. QED BY <2>3, <2>4, <2>5, Zenon DEF CorrelationData
<1>5. IsReadBy(PropertyDecoder, CorrelationData(s), <<9>> \o a) BY <1>2, <1>4, ReadsAfterId
<1>6. QED BY <1>1, <1>3, <1>5 DEF WrittenAs

LEMMA TwoStringsRoundTrip ==
  ASSUME NEW k, Text(k), NEW v, Text(v), NEW t \in Seq(Byte)
  PROVE  DecodeTwoStrings((EncodeBytes(k) \o EncodeBytes(v)) \o t)
           = Parsed(<<k, v>>, Len(EncodeBytes(k) \o EncodeBytes(v)))
<1>1. PICK x \in Seq(Byte) : x = EncodeBytes(k) /\ Len(x) = Len(k) + 2
  BY StringBytes DEF Text
<1>2. PICK y \in Seq(Byte) : y = EncodeBytes(v) /\ Len(y) = Len(v) + 2
  BY StringBytes DEF Text
<1>3. PICK u \in Seq(Byte) : u = y \o t BY PartsOf
<1>4. PICK b \in Seq(Byte) : b = x \o u /\ From(b, Len(x)) = u BY PartsOf
<1>5. b = (x \o y) \o t
  <2>1. Regroups(x, y, t) BY Regroup, Zenon
  <2>2. QED BY <1>3, <1>4, <2>1, Zenon DEF Regroups
<1>6. DecodeString(b) = Parsed(k, Len(x)) BY <1>1, <1>4, StringRoundTrip
<1>7. DecodeString(u) = Parsed(v, Len(y)) BY <1>2, <1>3, StringRoundTrip
<1>8. DecodeTwoStrings(b) = Parsed(<<k, v>>, Len(x) + Len(y))
  <2>0. PICK d : d = DecodeString(b) OBVIOUS
  <2>1. d = DecodeString(b) /\ d.result = "ok" /\ d.value = k /\ d.len = Len(x)
    BY <1>6, <2>0 DEF Parsed
  <2>2. PICK w : w = DecodeString(From(b, d.len)) OBVIOUS
  <2>3. w = Parsed(v, Len(y)) BY <1>4, <1>7, <2>1, <2>2, Zenon
  <2>4. w.result = "ok" /\ w.value = v /\ w.len = Len(y) BY <2>3 DEF Parsed
  <2>5. DecodeTwoStrings(b) = Parsed(<<d.value, w.value>>, d.len + w.len)
    BY <2>1, <2>2, <2>4 DEF DecodeTwoStrings, Then
  <2>6. QED BY <2>1, <2>4, <2>5, Zenon
<1>9. Len(x \o y) = Len(x) + Len(y) BY PartsOf
<1>10. QED BY <1>1, <1>2, <1>5, <1>8, <1>9, Zenon

PairFollows(b, a, k, v, t) == a = EncodeBytes(k) \o EncodeBytes(v) /\ Tail(b) = a \o t

PairIsRead(b, a, k, v) ==
  DecodeWithId(b, DecodeTwoStrings) = Parsed(Property(Head(b), <<k, v>>), Len(a) + 1)

LEMMA TwoStringsAfterId ==
  ASSUME NEW k, Text(k), NEW v, Text(v), NEW b \in Seq(Nat), NEW t \in Seq(Byte),
         NEW a, PairFollows(b, a, k, v, t)
  PROVE  PairIsRead(b, a, k, v)
<1>0. a = EncodeBytes(k) \o EncodeBytes(v) /\ Tail(b) = a \o t BY DEF PairFollows
<1>1. PICK d : d = DecodeTwoStrings(Tail(b)) OBVIOUS
<1>2. d = Parsed(<<k, v>>, Len(a)) BY <1>0, <1>1, TwoStringsRoundTrip, Zenon
<1>3. d.result = "ok" /\ d.value = <<k, v>> /\ d.len = Len(a) BY <1>2 DEF Parsed
<1>4. DecodeWithId(b, DecodeTwoStrings) = Parsed(Property(Head(b), d.value), d.len + 1)
  BY <1>1, <1>3 DEF DecodeWithId, Then
<1>5. QED BY <1>3, <1>4, Zenon DEF PairIsRead

LEMMA UserRoundTrip ==
  ASSUME IdsAreBytes, NEW k, Text(k), NEW v, Text(v)
  PROVE  WrittenAs(UserProperty(k, v), <<38>> \o (EncodeBytes(k) \o EncodeBytes(v)))
<1>1. EncodeBytes(k) \in Seq(Byte) /\ EncodeBytes(v) \in Seq(Byte) BY StringBytes DEF Text
<1>2. PICK a \in Seq(Byte) : a = EncodeBytes(k) \o EncodeBytes(v) BY <1>1, PartsOf
<1>3. 38 \in Byte BY IdBytes
<1>4. EncodeProperty(UserProperty(k, v)) = <<38>> \o a
  BY <1>2 DEF EncodeProperty, UserProperty, Property
<1>5. ASSUME NEW b \in Seq(Nat), NEW t \in Seq(Byte),
             Head(b) = 38, Tail(b) = a \o t, Len(b) = Len(a) + 1 + Len(t)
      PROVE  PropertyDecoder[b] = Parsed(UserProperty(k, v), Len(a) + 1)
  <2>1. DecodeProperty(b) = DecodeWithId(b, DecodeTwoStrings) BY <1>5 DEF DecodeProperty
  <2>2. PairFollows(b, a, k, v, t) BY <1>2, <1>5, Zenon DEF PairFollows
  <2>3. PairIsRead(b, a, k, v) BY <2>2, TwoStringsAfterId, Zenon
  <2>4. PropertyDecoder[b] = DecodeProperty(b) BY Zenon DEF PropertyDecoder
  <2>5. QED BY <1>5, <2>1, <2>3, <2>4, Zenon DEF PairIsRead, UserProperty
<1>6. IsReadBy(PropertyDecoder, UserProperty(k, v), <<38>> \o a) BY <1>3, <1>5, ReadsAfterId
<1>7. QED BY <1>2, <1>4, <1>6, Zenon DEF WrittenAs

\* The strings and the byte vectors whose length fits in its two bytes, the
\* properties and, for the rest, the publishes that can be written.
Vecs == {s \in Seq(Byte) : Len(s) < U16Size}
Texts == {s \in Vecs : Utf8(s)}

PublishProperties ==
  {PayloadFormatId(i) : i \in Byte}
  \cup {ResponseTopic(s) : s \in Texts}
  \cup {CorrelationData(s) : s \in Vecs}
  \cup {UserProperty(k, v) : k \in Texts, v \in Texts}

LEMMA PropertyRoundTrip ==
  ASSUME IdsAreBytes, NEW p \in PublishProperties
  PROVE  WrittenAs(p, EncodeProperty(p))
<1>1. ASSUME NEW e, WrittenAs(p, e) PROVE WrittenAs(p, EncodeProperty(p))
  <2>1. EncodeProperty(p) = e BY <1>1 DEF WrittenAs
  <2>2. QED BY <1>1, <2>1
<1>2. CASE \E i \in Byte : p = PayloadFormatId(i) BY <1>1, <1>2, FormatRoundTrip
<1>3. CASE \E s \in Texts : p = ResponseTopic(s)
  <2>1. PICK s \in Texts : p = ResponseTopic(s) BY <1>3
  <2>2. Text(s) BY DEF Texts, Vecs, Text, Short
  <2>3. QED BY <1>1, <2>1, <2>2, TopicRoundTrip
<1>4. CASE \E s \in Vecs : p = CorrelationData(s)
  <2>1. PICK s \in Vecs : p = CorrelationData(s) BY <1>4
  <2>2. Short(s) BY DEF Vecs, Short
  <2>3. QED BY <1>1, <2>1, <2>2, DataRoundTrip
<1>5. CASE \E k, v \in Texts : p = UserProperty(k, v)
  <2>1. PICK k \in Texts, v \in Texts : p = UserProperty(k, v) BY <1>5
  <2>2. Text(k) /\ Text(v) BY DEF Texts, Vecs, Text, Short
  <2>3. QED BY <1>1, <2>1, <2>2, UserRoundTrip
<1>6. QED BY <1>2, <1>3, <1>4, <1>5 DEF PublishProperties

EncodedProperties(ps) == [i \in DOMAIN ps |-> EncodeProperty(ps[i])]

LEMMA PropertiesEncoded ==
  ASSUME IdsAreBytes, NEW ps \in Seq(PublishProperties)
  PROVE  Encodes(PropertyDecoder, PublishProperties, ps, EncodedProperties(ps))
<1>1. PICK e : e = EncodedProperties(ps) OBVIOUS
<1>2. PICK k \in Nat : k = Len(ps) /\ DOMAIN ps = 1 .. k OBVIOUS
<1>3. e = [i \in 1 .. k |-> EncodeProperty(ps[i])] BY <1>1, <1>2 DEF EncodedProperties
<1>4. ASSUME NEW i \in 1 .. k
      PROVE  e[i] \in Seq(Byte) /\ e[i] # <<>> /\ Reads(PropertyDecoder, ps[i], e[i])
  <2>1. ps[i] \in PublishProperties BY <1>2
  <2>2. e[i] = EncodeProperty(ps[i]) BY <1>3
  <2>3. WrittenAs(ps[i], e[i]) BY <2>1, <2>2, PropertyRoundTrip
  <2>4. QED BY <2>3 DEF WrittenAs, IsReadBy
<1>5. e \in Seq(Seq(Byte)) /\ Len(e) = k
  <2>1. \A i \in 1 .. k : EncodeProperty(ps[i]) \in Seq(Byte) BY <1>3, <1>4
  <2>2. e \in [1 .. k -> Seq(Byte)] BY <1>3, <2>1
  <2>3. QED BY <2>2
<1>6. QED BY <1>1, <1>2, <1>4, <1>5 DEF Encodes

\* A list after its length, and how it is read.
ListBytes(l) == EncodeVbi[Len(l)] \o l

WholeList(f, b) ==
  Then(DecodeVbi(b), LAMBDA k :
    IF Len(b) < k.len + k.value THEN Failed("panic")
    ELSE Then(f[SubSeq(b, k.len + 1, k.len + k.value)], LAMBDA ps :
           Parsed(ps.value, k.len + k.value)))

LEMMA ListBytesFacts ==
  ASSUME NEW l \in Seq(Byte)
  PROVE  /\ EncodeVbi[Len(l)] \in Seq(Byte) /\ ListBytes(l) \in Seq(Byte)
         /\ Len(EncodeVbi[Len(l)]) \in Nat /\ Len(EncodeVbi[Len(l)]) >= 1
         /\ Len(ListBytes(l)) = Len(EncodeVbi[Len(l)]) + Len(l)
<1>1. PICK k \in Nat : k = Len(l) OBVIOUS
<1>2. PICK v \in Seq(Byte) : v = EncodeVbi[k] /\ Len(v) >= 1 BY EncodeIsCode DEF IsCode
<1>3. v \o l \in Seq(Byte) /\ Len(v \o l) = Len(v) + Len(l) BY PartsOf
<1>4. Len(v) \in Nat OBVIOUS
<1>5. QED BY <1>1, <1>2, <1>3, <1>4, Zenon DEF ListBytes

LEMMA WholeListRoundTrip ==
  ASSUME NEW f, NEW ps, NEW l \in Seq(Byte), f[l] = Parsed(ps, Len(l)),
         Len(ListBytes(l)) <= MaxVbi, NEW t \in Seq(Byte)
  PROVE  WholeList(f, ListBytes(l) \o t) = Parsed(ps, Len(ListBytes(l)))
<1>1. PICK k \in Nat : k = Len(l) OBVIOUS
<1>2. PICK v \in Seq(Byte) : v = EncodeVbi[k] BY <1>1, ListBytesFacts
<1>3. PICK w \in Seq(Byte) : w = v \o l /\ w = ListBytes(l) /\ Len(w) = Len(v) + k
  BY <1>1, <1>2, PartsOf DEF ListBytes
<1>4. Len(v) \in Nat /\ Len(t) \in Nat /\ MaxVbi \in Int BY BaseType DEF MaxVbi
<1>5. k <= MaxVbi
  <2>1. Len(w) <= MaxVbi BY <1>3, Zenon
  <2>2. QED BY <1>3, <1>4, <2>1
<1>6. PICK b \in Seq(Byte) : b = w \o t /\ Len(b) = Len(w) + Len(t) BY PartsOf
<1>7. DecodeVbi(b) = Parsed(k, Len(v))
  <2>1. Regroups(v, l, t) BY Regroup, Zenon
  <2>2. b = v \o (l \o t) BY <1>3, <1>6, <2>1, Zenon DEF Regroups
  <2>3. l \o t \in Seq(Byte) BY PartsOf
  <2>4. DecodeVbi(EncodeVbi[k] \o (l \o t)) = Parsed(k, Len(EncodeVbi[k]))
    BY <1>5, <2>3, VbiRoundTrip
  <2>5. QED BY <1>2, <2>2, <2>4, Zenon
<1>8. SubSeq(b, Len(v) + 1, Len(v) + k) = l
  <2>1. SubSeq((v \o l) \o t, Len(v) + 1, Len(v) + Len(l)) = l BY MiddleOfConcat
  <2>2. QED BY <1>1, <1>3, <1>6, <2>1, Zenon
<1>9. WholeList(f, b) = Parsed(ps, Len(v) + k)
  <2>1. PICK d : d = DecodeVbi(b) OBVIOUS
  <2>2. d.result = "ok" /\ d.value = k /\ d.len = Len(v) BY <1>7, <2>1 DEF Parsed
  <2>3. ~ (Len(b) < d.len + d.value)
    <3>1. Len(b) = Len(v) + k + Len(t) BY <1>3, <1>6
    <3>2. QED BY <2>2, <1>4, <3>1
  <2>4. PICK x : x = f[SubSeq(b, d.len + 1, d.len + d.value)] OBVIOUS
  <2>5. x = Parsed(ps, Len(l)) BY <1>8, <2>2, <2>4, Zenon
  <2>6. x.result = "ok" /\ x.value = ps BY <2>5 DEF Parsed
  <2>7. WholeList(f, b) = Parsed(x.value, d.len + d.value)
    BY <2>1, <2>2, <2>3, <2>4, <2>6 DEF WholeList, Then
  <2>8. QED BY <2>2, <2>6, <2>7, Zenon
<1>10. QED BY <1>3, <1>6, <1>9, Zenon

LEMMA PropertiesAreBytes ==
  ASSUME IdsAreBytes, NEW ps \in Seq(PublishProperties)
  PROVE  \E l \in Seq(Byte) : /\ EncodeProperties(ps) = ListBytes(l)
                              /\ PropertiesIn[l] = Parsed(ps, Len(l))
<1>1. PICK e : e = EncodedProperties(ps) OBVIOUS
<1>2. Encodes(PropertyDecoder, PublishProperties, ps, e) BY <1>1, PropertiesEncoded
<1>3. PICK l \in Seq(Byte) : l = FlattenSeq(e)
  <2>1. e \in Seq(Seq(Byte)) BY <1>2 DEF Encodes
  <2>2. QED BY <2>1, FlattenType
<1>4. PropertiesIn[l] = Parsed(ps, Len(l)) BY <1>2, <1>3, PropertiesLoop, ListRoundTrip
<1>5. EncodeProperties(ps) = ListBytes(l)
  BY <1>1, <1>3, Zenon DEF EncodeProperties, EncodedProperties, ListBytes
<1>6. QED BY <1>4, <1>5, Zenon

\* A list of properties is read back whatever follows it.
LEMMA PropertiesRoundTrip ==
  ASSUME IdsAreBytes, NEW ps \in Seq(PublishProperties), NEW t \in Seq(Byte),
         Len(EncodeProperties(ps)) <= MaxVbi
  PROVE  DecodeProperties(EncodeProperties(ps) \o t) = Parsed(ps, Len(EncodeProperties(ps)))
<1>1. PICK l \in Seq(Byte) : EncodeProperties(ps) = ListBytes(l) /\ PropertiesIn[l] = Parsed(ps, Len(l))
  BY PropertiesAreBytes
<1>2. Len(ListBytes(l)) <= MaxVbi BY <1>1, Zenon
<1>3. WholeList(PropertiesIn, ListBytes(l) \o t) = Parsed(ps, Len(ListBytes(l)))
  BY <1>1, <1>2, WholeListRoundTrip
<1>4. DecodeProperties(ListBytes(l) \o t) = WholeList(PropertiesIn, ListBytes(l) \o t)
  BY Zenon DEF DecodeProperties, WholeList
<1>5. QED BY <1>1, <1>3, <1>4, Zenon

-----------------------------------------------------------------------------
(* Publish.                                                                *)

\* The publishes whose fields can be written.
WritablePublishes ==
  {p \in [topic : Texts, text : BOOLEAN, payload : Seq(Byte),
          properties : Seq(PublishProperties), dup : BOOLEAN, qos : 0 .. 2,
          retain : BOOLEAN, pktid : 0 .. U16Size - 1] :
     /\ p.text <=> \E i \in DOMAIN p.properties : p.properties[i] = PayloadFormatId(1)
     /\ p.text => Utf8(p.payload)
     /\ p.qos = 0 <=> p.pktid = 0}

LEMMA FlagsRoundTrip ==
  ASSUME IdsAreBytes, NEW p, p.dup \in BOOLEAN, p.qos \in 0 .. 2, p.retain \in BOOLEAN
  PROVE  /\ FirstByte(p) \in Byte
         /\ Flags(FirstByte(p)) = [dup |-> p.dup, qos |-> p.qos, retain |-> p.retain]
<1>1. PICK d \in {0, 8} : d = Bit(p.dup, 8) /\ (p.dup = (d = 8)) BY DEF Bit
<1>2. PICK r \in {0, 1} : r = Bit(p.retain, 1) /\ (p.retain = (r = 1)) BY DEF Bit
<1>3. PICK q \in 0 .. 2 : q = p.qos OBVIOUS
<1>4. PICK b \in Nat : b = 48 + d + 2 * q + r /\ b < 64 BY <1>1, <1>2, <1>3
<1>5. FirstByte(p) = b
  <2>1. FirstByte(p) = 3 * 16 + d + 2 * q + r BY <1>1, <1>2, <1>3, Zenon DEF FirstByte
  <2>2. QED BY <1>4, <2>1
<1>6. b \in Byte BY <1>4, ByteFacts, BaseType DEF IdsAreBytes
<1>7. ((b \div 8) % 2 = 1) = (d = 8)
  <2>1. CASE d = 0
    <3>1. b = 8 * 6 + (2 * q + r) /\ 2 * q + r \in 0 .. 7 BY <1>4, <2>1
    <3>2. b \div 8 = 6 BY <3>1
    <3>3. QED BY <2>1, <3>2
  <2>2. CASE d = 8
    <3>1. b = 8 * 7 + (2 * q + r) /\ 2 * q + r \in 0 .. 7 BY <1>4, <2>2
    <3>2. b \div 8 = 7 BY <3>1
    <3>3. QED BY <2>2, <3>2
  <2>3. QED BY <2>1, <2>2
<1>8. (b \div 2) % 4 = q
  <2>1. PICK h \in {6, 7} : 48 + d = 8 * h
    <3>1. CASE d = 0 BY <3>1
    <3>2. CASE d = 8 BY <3>2
    <3>3. QED BY <3>1, <3>2
  <2>2. PICK m \in Nat : m = 4 * h + q BY <2>1
  <2>3. b = 2 * m + r BY <1>4, <2>1, <2>2
  <2>4. b \div 2 = m BY <2>2, <2>3
  <2>5. m % 4 = q BY <2>1, <2>2
  <2>6. QED BY <2>4, <2>5
<1>9. (b % 2 = 1) = (r = 1)
  <2>1. PICK m \in Nat : 48 + d + 2 * q = 2 * m
    <3>1. CASE d = 0
      <4>1. 24 + q \in Nat /\ 48 + d + 2 * q = 2 * (24 + q) BY <3>1
      <4>2. QED BY <4>1
    <3>2. CASE d = 8
      <4>1. 28 + q \in Nat /\ 48 + d + 2 * q = 2 * (28 + q) BY <3>2
      <4>2. QED BY <4>1
    <3>3. QED BY <3>1, <3>2
  <2>2. b = 2 * m + r BY <1>4, <2>1
  <2>3. b % 2 = r BY <2>2
  <2>4. QED BY <2>3
<1>10. Flags(b) = [dup |-> p.dup, qos |-> p.qos, retain |-> p.retain]
  BY <1>1, <1>2, <1>3, <1>7, <1>8, <1>9 DEF Flags
<1>11. QED BY <1>5, <1>6, <1>10

LEMMA WritableFields ==
  ASSUME NEW p \in WritablePublishes
  PROVE  /\ p = [topic |-> p.topic, text |-> p.text, payload |-> p.payload,
                 properties |-> p.properties, dup |-> p.dup, qos |-> p.qos,
                 retain |-> p.retain, pktid |-> p.pktid]
         /\ Text(p.topic) /\ p.payload \in Seq(Byte)
         /\ p.properties \in Seq(PublishProperties)
         /\ p.text \in BOOLEAN /\ p.dup \in BOOLEAN /\ p.retain \in BOOLEAN
         /\ p.qos \in 0 .. 2 /\ p.pktid \in 0 .. U16Size - 1
         /\ p.text <=> \E i \in DOMAIN p.properties : p.properties[i] = PayloadFormatId(1)
         /\ p.text => Utf8(p.payload)
         /\ p.qos = 0 <=> p.pktid = 0
<1>1. p \in [topic : Texts, text : BOOLEAN, payload : Seq(Byte),
             properties : Seq(PublishProperties), dup : BOOLEAN, qos : 0 .. 2,
             retain : BOOLEAN, pktid : 0 .. U16Size - 1]
  BY Zenon DEF WritablePublishes
<1>2. /\ p.text <=> \E i \in DOMAIN p.properties : p.properties[i] = PayloadFormatId(1)
      /\ p.text => Utf8(p.payload)
      /\ p.qos = 0 <=> p.pktid = 0
  BY Zenon DEF WritablePublishes
<1>3. /\ p = [topic |-> p.topic, text |-> p.text, payload |-> p.payload,
              properties |-> p.properties, dup |-> p.dup, qos |-> p.qos,
              retain |-> p.retain, pktid |-> p.pktid]
      /\ p.topic \in Texts /\ p.payload \in Seq(Byte)
      /\ p.properties \in Seq(PublishProperties)
      /\ p.text \in BOOLEAN /\ p.dup \in BOOLEAN /\ p.retain \in BOOLEAN
      /\ p.qos \in 0 .. 2 /\ p.pktid \in 0 .. U16Size - 1
  BY <1>1
<1>4. Text(p.topic) BY <1>3 DEF Texts, Vecs, Text, Short
<1>5. QED BY <1>2, <1>3, <1>4, Zenon

\* The parts of a body: the topic, the identifier, the properties and the payload.
IdBytesOf(p) == IF p.qos > 0 THEN U16Bytes(p.pktid) ELSE <<>>

LEMMA IdRoundTrip ==
  ASSUME NEW p \in WritablePublishes
  PROVE  /\ IdBytesOf(p) \in Seq(Byte)
         /\ \A t \in Seq(Byte) :
              (IF p.qos > 0 THEN DecodePktId(IdBytesOf(p) \o t) ELSE Parsed(0, 0))
                = Parsed(p.pktid, Len(IdBytesOf(p)))
<1>1. p.qos \in 0 .. 2 /\ p.pktid \in 0 .. U16Size - 1 /\ (p.qos = 0 <=> p.pktid = 0)
  BY WritableFields, Zenon
<1>2. CASE p.qos = 0
  <2>1. IdBytesOf(p) = <<>> /\ ~ (p.qos > 0) BY <1>2 DEF IdBytesOf
  <2>2. <<>> \in Seq(Byte) /\ Len(<<>>) = 0 OBVIOUS
  <2>3. p.pktid = 0 BY <1>1, <1>2
  <2>4. QED BY <2>1, <2>2, <2>3, Zenon
<1>3. CASE p.qos # 0
  <2>1. p.qos > 0 BY <1>1, <1>3
  <2>2. IdBytesOf(p) = U16Bytes(p.pktid) BY <2>1 DEF IdBytesOf
  <2>3. p.pktid \in 1 .. U16Size - 1 BY <1>1, <1>3, ByteFacts
  <2>4. p.pktid \in Nat /\ p.pktid < U16Size BY <2>3, ByteFacts
  <2>5. <<>> \in Seq(Byte) OBVIOUS
  <2>6. U16Bytes(p.pktid) \in Seq(Byte) /\ Len(U16Bytes(p.pktid)) = 2
    BY <2>4, <2>5, U16RoundTrip
  <2>7. ASSUME NEW t \in Seq(Byte)
        PROVE  DecodePktId(U16Bytes(p.pktid) \o t) = Parsed(p.pktid, 2)
    BY <2>3, PktIdRoundTrip
  <2>8. QED BY <2>1, <2>2, <2>6, <2>7, Zenon
<1>4. QED BY <1>2, <1>3

\* What DecodeBody makes of bytes whose parts are read as these.
ReadAs(b, m, flags, topic, x, id, y, ps, z, text, l, w) ==
  /\ DecodeString(b) = Parsed(topic, x)
  /\ (IF flags.qos > 0 THEN DecodePktId(From(b, x)) ELSE Parsed(0, 0)) = Parsed(id, y)
  /\ DecodeProperties(From(b, x + y)) = Parsed(ps, z)
  /\ DecodePayload(b, x + y + z, m, ps) = Parsed([text |-> text, bytes |-> l], w)

IsRead(b, m, flags, topic, x, id, y, ps, z, text, l, w) ==
  DecodeBody(b, m, flags) =
    Parsed([topic |-> topic, text |-> text, payload |-> l, properties |-> ps,
            dup |-> flags.dup, qos |-> flags.qos, retain |-> flags.retain, pktid |-> id],
           x + y + z + w)

LEMMA BodyOf ==
  ASSUME NEW b, NEW m, NEW flags, NEW topic, NEW x, NEW id, NEW y, NEW ps, NEW z,
         NEW text, NEW l, NEW w,
         ReadAs(b, m, flags, topic, x, id, y, ps, z, text, l, w)
  PROVE  IsRead(b, m, flags, topic, x, id, y, ps, z, text, l, w)
<1>0. /\ DecodeString(b) = Parsed(topic, x)
      /\ (IF flags.qos > 0 THEN DecodePktId(From(b, x)) ELSE Parsed(0, 0)) = Parsed(id, y)
      /\ DecodeProperties(From(b, x + y)) = Parsed(ps, z)
      /\ DecodePayload(b, x + y + z, m, ps) = Parsed([text |-> text, bytes |-> l], w)
  BY Zenon DEF ReadAs
<1>1. PICK t : t = DecodeString(b) OBVIOUS
<1>2. t.result = "ok" /\ t.value = topic /\ t.len = x BY <1>0, <1>1 DEF Parsed
<1>3. PICK i : i = IF flags.qos > 0 THEN DecodePktId(From(b, t.len)) ELSE Parsed(0, 0) OBVIOUS
<1>4. i = Parsed(id, y) BY <1>0, <1>2, <1>3, Zenon
<1>5. i.result = "ok" /\ i.value = id /\ i.len = y BY <1>4 DEF Parsed
<1>6. PICK p : p = DecodeProperties(From(b, t.len + i.len)) OBVIOUS
<1>7. p = Parsed(ps, z) BY <1>0, <1>2, <1>5, <1>6, Zenon
<1>8. p.result = "ok" /\ p.value = ps /\ p.len = z BY <1>7 DEF Parsed
<1>9. PICK c : c = DecodePayload(b, t.len + i.len + p.len, m, p.value) OBVIOUS
<1>10. c = Parsed([text |-> text, bytes |-> l], w) BY <1>0, <1>2, <1>5, <1>8, <1>9, Zenon
<1>11. PICK v : v = [text |-> text, bytes |-> l] OBVIOUS
<1>12. v.text = text /\ v.bytes = l BY <1>11
<1>13. c.result = "ok" /\ c.value = v /\ c.len = w BY <1>10, <1>11 DEF Parsed
<1>14. DecodeBody(b, m, flags) =
         Parsed([topic |-> t.value, text |-> c.value.text, payload |-> c.value.bytes,
                 properties |-> p.value, dup |-> flags.dup, qos |-> flags.qos,
                 retain |-> flags.retain, pktid |-> i.value],
                t.len + i.len + p.len + c.len)
  <2>1. DecodeBody(b, m, flags) =
          IF t.result = "ok"
          THEN IF i.result = "ok"
               THEN IF p.result = "ok"
                    THEN IF c.result = "ok"
                         THEN Parsed([topic |-> t.value, text |-> c.value.text,
                                      payload |-> c.value.bytes, properties |-> p.value,
                                      dup |-> flags.dup, qos |-> flags.qos,
                                      retain |-> flags.retain, pktid |-> i.value],
                                     t.len + i.len + p.len + c.len)
                         ELSE c
                    ELSE p
               ELSE i
          ELSE t
    BY <1>1, <1>3, <1>6, <1>9, ZenonT(60) DEF DecodeBody, Then
  <2>2. QED BY <2>1, <1>2, <1>5, <1>8, <1>13, Zenon
<1>15. QED BY <1>2, <1>5, <1>8, <1>12, <1>13, <1>14, Zenon DEF IsRead

\* A body and the offsets of its parts.
IsBody(b, a, i, ps, l) == b = a \o i \o ps \o l

HasParts(b, a, i, ps, l) ==
  /\ b \in Seq(Byte) /\ Len(ps) <= Len(b)
  /\ i \o (ps \o l) \in Seq(Byte) /\ b = a \o (i \o (ps \o l))
  /\ From(b, Len(a)) = i \o (ps \o l)
  /\ ps \o l \in Seq(Byte)
  /\ From(b, Len(a) + Len(i)) = ps \o l
  /\ From(b, Len(a) + Len(i) + Len(ps)) = l

LEMMA BodyParts ==
  ASSUME NEW a \in Seq(Byte), NEW i \in Seq(Byte), NEW ps \in Seq(Byte), NEW l \in Seq(Byte),
         NEW b, IsBody(b, a, i, ps, l)
  PROVE  HasParts(b, a, i, ps, l)
<1>1. PICK t \in Seq(Byte) : t = ps \o l /\ Len(t) = Len(ps) + Len(l) BY PartsOf
<1>2. PICK u \in Seq(Byte) : u = i \o t /\ Len(u) = Len(i) + Len(t) BY PartsOf
<1>3. PICK c \in Seq(Byte) : c = a \o i /\ Len(c) = Len(a) + Len(i) BY PartsOf
<1>4. PICK d \in Seq(Byte) : d = c \o ps /\ Len(d) = Len(c) + Len(ps) BY PartsOf
<1>5. b = d \o l BY <1>3, <1>4, Zenon DEF IsBody
<1>6. b = c \o t
  <2>1. Regroups(c, ps, l) BY Regroup, Zenon
  <2>2. QED BY <1>1, <1>4, <1>5, <2>1, Zenon DEF Regroups
<1>7. b = a \o u
  <2>1. Regroups(a, i, t) BY Regroup, Zenon
  <2>2. QED BY <1>2, <1>3, <1>6, <2>1, Zenon DEF Regroups
<1>8. a \o u \in Seq(Byte) /\ Len(a \o u) = Len(a) + Len(u) /\ From(a \o u, Len(a)) = u
  BY PartsOf
<1>9. From(c \o t, Len(c)) = t BY PartsOf
<1>10. From(d \o l, Len(d)) = l BY PartsOf
<1>11. b \in Seq(Byte) /\ From(b, Len(a)) = i \o (ps \o l) BY <1>1, <1>2, <1>7, <1>8, Zenon
<1>12. From(b, Len(a) + Len(i)) = t BY <1>3, <1>6, <1>9, Zenon
<1>13. From(b, Len(a) + Len(i) + Len(ps)) = l BY <1>3, <1>4, <1>5, <1>10, Zenon
<1>14. Len(ps) <= Len(b)
  <2>1. Len(b) = Len(a) + Len(u) BY <1>7, <1>8, Zenon
  <2>2. Len(a) \in Nat /\ Len(i) \in Nat /\ Len(ps) \in Nat /\ Len(l) \in Nat OBVIOUS
  <2>3. Len(u) = Len(i) + (Len(ps) + Len(l)) BY <1>1, <1>2
  <2>4. QED BY <2>1, <2>2, <2>3
<1>15. i \o (ps \o l) = u BY <1>1, <1>2, Zenon
<1>16. QED BY <1>1, <1>7, <1>15, <1>11, <1>12, <1>13, <1>14, Zenon DEF HasParts

\* A body goes on with what follows it.
LEMMA BodyGoesOn ==
  ASSUME NEW a \in Seq(Byte), NEW i \in Seq(Byte), NEW ps \in Seq(Byte), NEW l \in Seq(Byte),
         NEW r \in Seq(Byte), NEW b, IsBody(b, a, i, ps, l)
  PROVE  IsBody(b \o r, a, i, ps, l \o r)
<1>1. PICK c \in Seq(Byte) : c = a \o i BY PartsOf
<1>2. PICK d \in Seq(Byte) : d = c \o ps BY PartsOf
<1>3. Regroups(d, l, r) BY Regroup, Zenon
<1>4. b \o r = d \o (l \o r) BY <1>1, <1>2, <1>3, Zenon DEF IsBody, Regroups
<1>5. QED BY <1>1, <1>2, <1>4, Zenon DEF IsBody

\* What follows does not change what is cut out before it.
LEMMA PartStays ==
  ASSUME NEW b \in Seq(Byte), NEW r \in Seq(Byte), NEW h \in Nat, h <= Len(b)
  PROVE  SubSeq(b \o r, h + 1, Len(b)) = From(b, h)
<1>1. PICK w \in Seq(Byte) : w = b \o r BY PartsOf
<1>2. Len(b) \in Nat /\ Len(r) \in Nat OBVIOUS
<1>3. Len(w) = Len(b) + Len(r) /\ \A i \in 1 .. Len(b) : w[i] = b[i]
  BY <1>1, ConcatElements
<1>4. PICK c : c = SubSeq(w, h + 1, Len(b)) OBVIOUS
<1>5. PICK d : d = SubSeq(b, h + 1, Len(b)) OBVIOUS
<1>6. c \in Seq(Byte) /\ Len(c) = Len(b) - h /\ \A i \in 1 .. Len(b) - h : c[i] = w[h + i]
  BY <1>2, <1>3, <1>4
<1>7. d \in Seq(Byte) /\ Len(d) = Len(b) - h /\ \A i \in 1 .. Len(b) - h : d[i] = b[h + i]
  BY <1>2, <1>5
<1>8. ASSUME NEW i \in 1 .. Len(c)
      PROVE  c[i] = d[i]
  <2>1. PICK g \in Nat : g = Len(b) - h /\ Len(c) = g
    <3>1. PICK k \in Nat : k = Len(b) BY <1>2
    <3>2. h <= k BY <3>1
    <3>3. PICK g \in Nat : g = k - h BY <3>2
    <3>4. QED BY <1>6, <3>1, <3>3
  <2>2. i \in Nat /\ i \in 1 .. g /\ h + i \in 1 .. Len(b) BY <1>2, <2>1
  <2>3. c[i] = w[h + i] BY <1>6, <2>1, <2>2
  <2>4. d[i] = b[h + i] BY <1>7, <2>1, <2>2
  <2>5. w[h + i] = b[h + i] BY <1>3, <2>2
  <2>6. QED BY <2>3, <2>4, <2>5
<1>9. Len(c) = Len(d) BY <1>6, <1>7
<1>10. c = d BY <1>6, <1>7, <1>8, <1>9, SeqEqual
<1>11. QED BY <1>1, <1>4, <1>5, <1>10, Zenon DEF From

LEMMA BodyRoundTrip ==
  ASSUME IdsAreBytes, NEW p \in WritablePublishes, Len(EncodeBody(p)) <= MaxVbi,
         NEW flags, flags = [dup |-> p.dup, qos |-> p.qos, retain |-> p.retain],
         NEW r \in Seq(Byte)
  PROVE  /\ EncodeBody(p) \in Seq(Byte)
         /\ DecodeBody(EncodeBody(p) \o r, Len(EncodeBody(p)), flags)
              = Parsed(p, Len(EncodeBody(p)))
<1>1. PICK b : b = EncodeBody(p) OBVIOUS
<1>2. Text(p.topic) /\ p.payload \in Seq(Byte) /\ p.properties \in Seq(PublishProperties)
  BY WritableFields, Zenon
<1>3. PICK a \in Seq(Byte) : a = EncodeBytes(p.topic) /\ Len(a) = Len(p.topic) + 2
  BY <1>2, StringBytes DEF Text
<1>4. PICK i \in Seq(Byte) : i = IdBytesOf(p) BY IdRoundTrip
<1>5. PICK ps \in Seq(Byte) : ps = EncodeProperties(p.properties)
  <2>1. PICK m \in Seq(Byte) : EncodeProperties(p.properties) = ListBytes(m)
    BY <1>2, PropertiesAreBytes
  <2>2. QED BY <2>1, ListBytesFacts
<1>6. PICK l \in Seq(Byte) : l = p.payload BY <1>2
<1>7. IsBody(b, a, i, ps, l)
  BY <1>1, <1>3, <1>4, <1>5, <1>6, Zenon DEF IsBody, EncodeBody, IdBytesOf
<1>8. /\ b \in Seq(Byte) /\ Len(ps) <= Len(b)
      /\ i \o (ps \o l) \in Seq(Byte) /\ b = a \o (i \o (ps \o l))
      /\ ps \o l \in Seq(Byte)
      /\ From(b, Len(a) + Len(i) + Len(ps)) = l
  <2>1. HasParts(b, a, i, ps, l) BY <1>7, BodyParts, Zenon
  <2>2. QED BY <2>1, Zenon DEF HasParts
<1>9. PICK w \in Seq(Byte) : w = b \o r BY <1>8, PartsOf
<1>10. PICK e \in Seq(Byte) : e = l \o r BY PartsOf
<1>11. /\ i \o (ps \o e) \in Seq(Byte) /\ w = a \o (i \o (ps \o e))
       /\ From(w, Len(a)) = i \o (ps \o e) /\ ps \o e \in Seq(Byte)
       /\ From(w, Len(a) + Len(i)) = ps \o e
  <2>1. IsBody(w, a, i, ps, e) BY <1>7, <1>9, <1>10, BodyGoesOn, Zenon
  <2>2. HasParts(w, a, i, ps, e) BY <2>1, BodyParts, Zenon
  <2>3. QED BY <2>2, Zenon DEF HasParts
<1>12. DecodeString(w) = Parsed(p.topic, Len(a)) BY <1>2, <1>3, <1>11, StringRoundTrip, Zenon
<1>13. flags.qos = p.qos /\ flags.dup = p.dup /\ flags.retain = p.retain OBVIOUS
<1>14. (IF flags.qos > 0 THEN DecodePktId(From(w, Len(a))) ELSE Parsed(0, 0))
         = Parsed(p.pktid, Len(i))
  BY <1>4, <1>11, <1>13, IdRoundTrip, Zenon
<1>15. DecodeProperties(From(w, Len(a) + Len(i))) = Parsed(p.properties, Len(ps))
  <2>1. Len(ps) <= MaxVbi
    <3>1. Len(b) <= MaxVbi BY <1>1, Zenon
    <3>2. Len(b) \in Nat /\ Len(ps) \in Nat /\ MaxVbi \in Int
      <4>1. MaxVbi \in Int BY BaseType DEF MaxVbi
      <4>2. b \in Seq(Byte) BY <1>8
      <4>3. QED BY <4>1, <4>2
    <3>3. Len(ps) <= Len(b) BY <1>8
    <3>4. QED BY <3>1, <3>2, <3>3
  <2>2. DecodeProperties(ps \o e) = Parsed(p.properties, Len(ps))
    BY <1>2, <1>5, <2>1, PropertiesRoundTrip, Zenon
  <2>3. QED BY <1>11, <2>2, Zenon
<1>16. Len(b) = Len(a) + Len(i) + Len(ps) + Len(l)
  <2>1. Len(b) = Len(a) + Len(i \o (ps \o l)) BY <1>8, PartsOf
  <2>2. Len(i \o (ps \o l)) = Len(i) + Len(ps \o l) BY <1>8, PartsOf
  <2>3. Len(ps \o l) = Len(ps) + Len(l) BY PartsOf
  <2>4. Len(a) \in Nat /\ Len(i) \in Nat /\ Len(ps) \in Nat /\ Len(l) \in Nat OBVIOUS
  <2>5. QED BY <2>1, <2>2, <2>3, <2>4
<1>17. PICK h \in Nat : h = Len(a) + Len(i) + Len(ps) /\ Len(b) = h + Len(l)
  <2>1. PICK j \in Nat, k \in Nat, m \in Nat : j = Len(a) /\ k = Len(i) /\ m = Len(ps) OBVIOUS
  <2>2. PICK h \in Nat : h = j + k + m OBVIOUS
  <2>3. h = Len(a) + Len(i) + Len(ps) /\ Len(b) = h + Len(l) BY <1>16, <2>1, <2>2
  <2>4. QED BY <2>3
<1>18. DecodePayload(w, h, Len(b), p.properties) = Parsed([text |-> p.text, bytes |-> l], Len(l))
  <2>1. p.text \in BOOLEAN /\ (p.text => Utf8(p.payload))
        /\ (p.text <=> \E j \in DOMAIN p.properties : p.properties[j] = PayloadFormatId(1))
    BY WritableFields, Zenon
  <2>2. PICK x \in BOOLEAN : x = \E j \in DOMAIN p.properties : p.properties[j] = PayloadFormatId(1)
    OBVIOUS
  <2>3. x = p.text /\ (x => Utf8(l)) BY <1>6, <2>1, <2>2
  <2>4. SubSeq(w, h + 1, Len(b)) = l
    <3>1. h <= Len(b) BY <1>17
    <3>2. SubSeq(b \o r, h + 1, Len(b)) = From(b, h) BY <1>8, <3>1, PartStays
    <3>3. QED BY <1>8, <1>17, <1>9, <3>2, Zenon
  <2>5. Len(b) >= h /\ ~ (Len(b) < h) BY <1>17
  <2>6. DecodePayload(w, h, Len(b), p.properties) =
          CASE Len(b) < h -> Failed("panic")
            [] Len(b) >= h /\ x /\ ~Utf8(l) -> Failed("error")
            [] OTHER -> Parsed([text |-> x, bytes |-> l], Len(l))
    BY <2>2, <2>4, Zenon DEF DecodePayload
  <2>7. DecodePayload(w, h, Len(b), p.properties) = Parsed([text |-> x, bytes |-> l], Len(l))
    BY <2>3, <2>5, <2>6, Zenon
  <2>8. QED BY <2>3, <2>7, Zenon
<1>19. DecodeBody(w, Len(b), flags) =
         Parsed([topic |-> p.topic, text |-> p.text, payload |-> l,
                 properties |-> p.properties, dup |-> flags.dup, qos |-> flags.qos,
                 retain |-> flags.retain, pktid |-> p.pktid],
                Len(a) + Len(i) + Len(ps) + Len(l))
  <2>1. ReadAs(w, Len(b), flags, p.topic, Len(a), p.pktid, Len(i), p.properties, Len(ps),
               p.text, l, Len(l))
    BY <1>12, <1>14, <1>15, <1>17, <1>18, Zenon DEF ReadAs
  <2>2. IsRead(w, Len(b), flags, p.topic, Len(a), p.pktid, Len(i), p.properties, Len(ps),
               p.text, l, Len(l))
    BY <2>1, BodyOf, Zenon
  <2>3. QED BY <2>2, Zenon DEF IsRead
<1>20. p = [topic |-> p.topic, text |-> p.text, payload |-> p.payload,
            properties |-> p.properties, dup |-> p.dup, qos |-> p.qos,
            retain |-> p.retain, pktid |-> p.pktid]
  BY WritableFields, Zenon
<1>21. QED BY <1>1, <1>6, <1>8, <1>13, <1>19, <1>16, <1>20, <1>9, Zenon

\* Whatever is published is read back as it was written (PublishRoundTrip), if
\* its fields can be written and its length is one a packet may have, whatever
\* bytes follow it in the buffer: from
\* DecodePublish, convert_from_mqtt of Publish (publish.rs:198-256), of the bytes
\* of EncodePublish, convert_to_mqtt (publish.rs:172-196).  No such publish has a
\* message expiry interval, of which the decoder loses a byte.
THEOREM PublishIsReadBack ==
  ASSUME IdsAreBytes, publish \in WritablePublishes, Len(EncodeBody(publish)) <= MaxVbi,
         rest \in Seq(Byte)
  PROVE  PublishRoundTrip
<1>1. PICK p \in WritablePublishes : p = publish OBVIOUS
<1>2. p.dup \in BOOLEAN /\ p.qos \in 0 .. 2 /\ p.retain \in BOOLEAN BY WritableFields, Zenon
<1>3. PICK flags : flags = [dup |-> p.dup, qos |-> p.qos, retain |-> p.retain] OBVIOUS
<1>4. PICK h \in Byte : h = FirstByte(p) /\ Flags(h) = flags BY <1>2, <1>3, FlagsRoundTrip
<1>5. Len(EncodeBody(p)) <= MaxVbi BY <1>1
<1>6. PICK b \in Seq(Byte) :
         b = EncodeBody(p) /\ DecodeBody(b \o rest, Len(b), flags) = Parsed(p, Len(b))
  BY <1>3, <1>5, BodyRoundTrip
<1>7. PICK k \in Nat : k = Len(b) /\ k <= MaxVbi BY <1>5, <1>6
<1>8. PICK v \in Seq(Byte) : v = EncodeVbi[k] BY EncodeIsCode DEF IsCode
<1>9. PICK c \in Seq(Byte) : c = <<h>> \o v /\ Len(c) = Len(v) + 1 BY AfterId
<1>10. PICK t \in Seq(Byte) : t = b \o rest /\ Len(t) = k + Len(rest) BY <1>7, PartsOf
<1>11. PICK w \in Seq(Byte) : w = c \o b /\ Len(w) = Len(c) + k BY <1>7, PartsOf
<1>12. PICK x : x = w \o rest OBVIOUS
<1>13. /\ x = c \o t /\ x # <<>> /\ Len(x) = Len(c) + Len(t)
       /\ Head(x) = h /\ Tail(x) = v \o t /\ From(x, Len(c)) = t
  <2>1. Regroups(c, b, rest) BY Regroup, Zenon
  <2>2. x = c \o t BY <1>10, <1>11, <1>12, <2>1, Zenon DEF Regroups
  <2>3. Head((<<h>> \o v) \o t) = h /\ Tail((<<h>> \o v) \o t) = v \o t
    BY AfterId
  <2>4. From(c \o t, Len(c)) = t /\ Len(c \o t) = Len(c) + Len(t) BY PartsOf
  <2>5. x # <<>>
    <3>1. Len(x) = Len(c) + Len(t) BY <2>2, <2>4, Zenon
    <3>2. Len(c) \in Nat /\ Len(v) \in Nat /\ Len(t) \in Nat OBVIOUS
    <3>3. Len(x) # 0 BY <1>9, <3>1, <3>2
    <3>4. QED BY <3>3
  <2>6. QED BY <1>9, <2>2, <2>3, <2>4, <2>5, Zenon
<1>14. EncodePublish(p) = w
  BY <1>4, <1>6, <1>7, <1>8, <1>9, <1>11, Zenon DEF EncodePublish
<1>15. DecodeVbi(Tail(x)) = Parsed(k, Len(v)) BY <1>7, <1>8, <1>13, VbiRoundTrip, Zenon
<1>16. DecodePublish(x) = Parsed(p, Len(w))
  <2>1. Flags(Head(x)) = flags /\ ~ (flags.qos = 3)
    <3>1. flags.qos = p.qos BY <1>3
    <3>2. ~ (flags.qos = 3) BY <1>2, <3>1
    <3>3. QED BY <1>4, <1>13, <3>2, Zenon
  <2>2. PICK d : d = DecodeVbi(Tail(x)) OBVIOUS
  <2>3. d.result = "ok" /\ d.len = Len(v) /\ d.value = k BY <1>15, <2>2 DEF Parsed
  <2>4. 1 + d.len = Len(c) BY <1>9, <2>3
  <2>5. ~ (Len(x) < 1 + d.len + d.value)
    <3>1. Len(c) \in Nat /\ Len(rest) \in Nat OBVIOUS
    <3>2. Len(x) = Len(c) + (k + Len(rest)) BY <1>10, <1>13
    <3>3. QED BY <2>3, <2>4, <3>1, <3>2
  <2>6. PICK y : y = DecodeBody(From(x, 1 + d.len), d.value, Flags(Head(x))) OBVIOUS
  <2>7. y = Parsed(p, k) BY <1>6, <1>7, <1>10, <1>13, <2>1, <2>3, <2>4, <2>6, Zenon
  <2>8. y.result = "ok" /\ y.value = p /\ y.len = k BY <2>7 DEF Parsed
  <2>9. DecodePublish(x) = Parsed(y.value, 1 + d.len + y.len)
    <3>1. DecodePublish(x) =
            CASE x = <<>> -> Failed("more")
              [] x # <<>> /\ Flags(Head(x)).qos = 3 -> Failed("error")
              [] OTHER -> IF d.result = "ok"
                          THEN IF Len(x) < 1 + d.len + d.value THEN Failed("more")
                               ELSE IF y.result = "ok" THEN Parsed(y.value, 1 + d.len + y.len)
                                    ELSE y
                          ELSE d
      BY <2>2, <2>6, Zenon DEF DecodePublish, WithBody, Then
    <3>2. QED BY <3>1, <1>13, <2>1, <2>3, <2>5, <2>8, Zenon
  <2>10. 1 + d.len + y.len = Len(w) BY <1>11, <2>4, <2>8
  <2>11. QED BY <2>8, <2>9, <2>10, Zenon
<1>17. DecodePublish(EncodePublish(p) \o rest) = Parsed(p, Len(EncodePublish(p)))
  BY <1>12, <1>14, <1>16, Zenon
<1>18. QED BY <1>1, <1>17, Zenon DEF PublishRoundTrip

-----------------------------------------------------------------------------
(* The properties of the acknowledgements.                                 *)

\* The bytes of the code: the first bytes of the packets and the reasons that
\* they give are bytes.
BytesAreReal == Base = 128

LEMMA RealBytes ==
  ASSUME BytesAreReal
  PROVE  /\ Byte = 0 .. 255 /\ ByteSize = 256 /\ U16Size = 65536 /\ MaxVbi = 268435455
         /\ IdsAreBytes
BY BaseType DEF BytesAreReal, ByteSize, U16Size, MaxVbi, Byte, IdsAreBytes

AckPropertyDecoder == [b \in Seq(Nat) |-> DecodeAckProperty(b)]

LEMMA AckPropertyTakesBytes == TakesBytes(AckPropertyDecoder)
<1> SUFFICES ASSUME NEW b \in Seq(Nat), b # <<>>, AckPropertyDecoder[b].result = "ok"
             PROVE  AckPropertyDecoder[b].len \in Nat /\ AckPropertyDecoder[b].len >= 1
  BY DEF TakesBytes
<1>1. PICK d : d = DecodeAckProperty(b) OBVIOUS
<1>2. d = AckPropertyDecoder[b] /\ d.result = "ok" BY <1>1 DEF AckPropertyDecoder
<1>3. PICK t \in Seq(Nat) : t = Tail(b)
  <2>1. b # <<>> /\ b \in Seq(Nat) OBVIOUS
  <2>2. Tail(b) \in Seq(Nat) BY <2>1, HeadTailProperties
  <2>3. QED BY <2>2
<1>4. CASE Head(b) = 31
  <2>1. d = IF DecodeString(t).result = "ok"
            THEN Parsed(Property(Head(b), DecodeString(t).value), DecodeString(t).len + 1)
            ELSE DecodeString(t)
    BY <1>1, <1>3, <1>4 DEF DecodeAckProperty, DecodeWithId, Then
  <2>2. d.len = DecodeString(t).len + 1 /\ DecodeString(t).len \in Nat
    BY <1>2, <2>1, StringLen DEF Parsed
  <2>3. QED BY <1>2, <2>2
<1>5. CASE Head(b) = 38
  <2>1. d = IF DecodeTwoStrings(t).result = "ok"
            THEN Parsed(Property(Head(b), DecodeTwoStrings(t).value), DecodeTwoStrings(t).len + 1)
            ELSE DecodeTwoStrings(t)
    BY <1>1, <1>3, <1>5 DEF DecodeAckProperty, DecodeWithId, Then
  <2>2. d.len = DecodeTwoStrings(t).len + 1 /\ DecodeTwoStrings(t).len \in Nat
    BY <1>2, <2>1, TwoStringsLen DEF Parsed
  <2>3. QED BY <1>2, <2>2
<1>6. CASE Head(b) \notin {31, 38}
  <2>1. d = Failed("error") BY <1>1, <1>6 DEF DecodeAckProperty
  <2>2. QED BY <1>2, <2>1 DEF Failed
<1>7. QED BY <1>4, <1>5, <1>6

LEMMA AckPropertiesLoop == IsList(AckPropertyDecoder, AckPropertiesIn)
<1>1. PICK g : IsList(AckPropertyDecoder, g) BY ListExists, AckPropertyTakesBytes
<1>2. ASSUME NEW f, NEW b \in Seq(Nat)
      PROVE  ListStep(AckPropertyDecoder, f, b) =
               IF b = <<>> THEN Parsed(<<>>, 0)
               ELSE Then(DecodeAckProperty(b), LAMBDA p :
                      Then(f[From(b, p.len)], LAMBDA ps :
                        Parsed(<<p.value>> \o ps.value, p.len + ps.len)))
  BY DEF ListStep, Then, AckPropertyDecoder
<1>3. QED BY <1>1, <1>2 DEF AckPropertiesIn, IsList

\* p is read from the bytes e, an identifier and a string at least.
WrittenAsAck(p, e) ==
  EncodeAckProperty(p) = e /\ IsReadBy(AckPropertyDecoder, p, e) /\ Len(e) >= 3

LEMMA ReasonRoundTrip ==
  ASSUME IdsAreBytes, NEW s, Text(s)
  PROVE  WrittenAsAck(ReasonString(s), <<31>> \o EncodeBytes(s))
<1>1. PICK a \in Seq(Byte) : a = EncodeBytes(s) /\ Len(a) = Len(s) + 2 /\ Len(s) \in Nat
  BY StringBytes DEF Text
<1>2. 31 \in Byte BY ByteFacts, BaseType DEF IdsAreBytes
<1>3. EncodeAckProperty(ReasonString(s)) = <<31>> \o a
  BY <1>1 DEF EncodeAckProperty, ReasonString, Property
<1>4. ASSUME NEW b \in Seq(Nat), NEW t \in Seq(Byte),
             Head(b) = 31, Tail(b) = a \o t, Len(b) = Len(a) + 1 + Len(t)
      PROVE  AckPropertyDecoder[b] = Parsed(ReasonString(s), Len(a) + 1)
  <2>1. DecodeAckProperty(b) = DecodeWithId(b, DecodeString) BY <1>4 DEF DecodeAckProperty
  <2>2. DecodeWithId(b, DecodeString) = Parsed(Property(31, s), Len(a) + 1)
    BY <1>1, <1>4, StringAfterId
  <2>3. AckPropertyDecoder[b] = DecodeAckProperty(b) BY Zenon DEF AckPropertyDecoder
  <2>4. QED BY <2>1, <2>2, <2>3, Zenon DEF ReasonString
<1>5. IsReadBy(AckPropertyDecoder, ReasonString(s), <<31>> \o a) BY <1>2, <1>4, ReadsAfterId
<1>6. Len(<<31>> \o a) = Len(a) + 1 BY <1>2, AfterId
<1>7. QED BY <1>1, <1>3, <1>5, <1>6 DEF WrittenAsAck

LEMMA AckUserRoundTrip ==
  ASSUME IdsAreBytes, NEW k, Text(k), NEW v, Text(v)
  PROVE  WrittenAsAck(UserProperty(k, v), <<38>> \o (EncodeBytes(k) \o EncodeBytes(v)))
<1>1. /\ EncodeBytes(k) \in Seq(Byte) /\ EncodeBytes(v) \in Seq(Byte)
      /\ Len(EncodeBytes(k)) = Len(k) + 2 /\ Len(k) \in Nat
  BY StringBytes DEF Text
<1>2. PICK a \in Seq(Byte) : a = EncodeBytes(k) \o EncodeBytes(v) /\ Len(a) >= 2
  <2>1. PICK x \in Seq(Byte), y \in Seq(Byte) :
          x = EncodeBytes(k) /\ y = EncodeBytes(v) /\ Len(x) >= 2
    BY <1>1
  <2>2. x \o y \in Seq(Byte) /\ Len(x \o y) = Len(x) + Len(y) BY PartsOf
  <2>3. Len(x \o y) >= 2 BY <2>1, <2>2
  <2>4. QED BY <2>1, <2>2, <2>3
<1>3. 38 \in Byte BY IdBytes
<1>4. EncodeAckProperty(UserProperty(k, v)) = <<38>> \o a
  BY <1>2 DEF EncodeAckProperty, UserProperty, Property
<1>5. ASSUME NEW b \in Seq(Nat), NEW t \in Seq(Byte),
             Head(b) = 38, Tail(b) = a \o t, Len(b) = Len(a) + 1 + Len(t)
      PROVE  AckPropertyDecoder[b] = Parsed(UserProperty(k, v), Len(a) + 1)
  <2>1. DecodeAckProperty(b) = DecodeWithId(b, DecodeTwoStrings)
    BY <1>5 DEF DecodeAckProperty
  <2>2. PairFollows(b, a, k, v, t) BY <1>2, <1>5, Zenon DEF PairFollows
  <2>3. PairIsRead(b, a, k, v) BY <2>2, TwoStringsAfterId, Zenon
  <2>4. AckPropertyDecoder[b] = DecodeAckProperty(b) BY Zenon DEF AckPropertyDecoder
  <2>5. QED BY <1>5, <2>1, <2>3, <2>4, Zenon DEF PairIsRead, UserProperty
<1>6. IsReadBy(AckPropertyDecoder, UserProperty(k, v), <<38>> \o a)
  BY <1>3, <1>5, ReadsAfterId
<1>7. Len(<<38>> \o a) = Len(a) + 1 BY <1>3, AfterId
<1>8. QED BY <1>2, <1>4, <1>6, <1>7 DEF WrittenAsAck

\* The properties that a broker can write in an acknowledgement.
AckPropertySet ==
  {ReasonString(s) : s \in Texts} \cup {UserProperty(k, v) : k \in Texts, v \in Texts}

LEMMA AckPropertyRoundTrip ==
  ASSUME IdsAreBytes, NEW p \in AckPropertySet
  PROVE  WrittenAsAck(p, EncodeAckProperty(p))
<1>1. ASSUME NEW e, WrittenAsAck(p, e) PROVE WrittenAsAck(p, EncodeAckProperty(p))
  <2>1. EncodeAckProperty(p) = e BY <1>1 DEF WrittenAsAck
  <2>2. QED BY <1>1, <2>1
<1>2. CASE \E s \in Texts : p = ReasonString(s)
  <2>1. PICK s \in Texts : p = ReasonString(s) BY <1>2
  <2>2. Text(s) BY DEF Texts, Vecs, Text, Short
  <2>3. QED BY <1>1, <2>1, <2>2, ReasonRoundTrip
<1>3. CASE \E k, v \in Texts : p = UserProperty(k, v)
  <2>1. PICK k \in Texts, v \in Texts : p = UserProperty(k, v) BY <1>3
  <2>2. Text(k) /\ Text(v) BY DEF Texts, Vecs, Text, Short
  <2>3. QED BY <1>1, <2>1, <2>2, AckUserRoundTrip
<1>4. QED BY <1>2, <1>3 DEF AckPropertySet

EncodedAckProperties(ps) == [i \in DOMAIN ps |-> EncodeAckProperty(ps[i])]

LEMMA AckPropertiesEncoded ==
  ASSUME IdsAreBytes, NEW ps \in Seq(AckPropertySet)
  PROVE  Encodes(AckPropertyDecoder, AckPropertySet, ps, EncodedAckProperties(ps))
<1>1. PICK e : e = EncodedAckProperties(ps) OBVIOUS
<1>2. PICK k \in Nat : k = Len(ps) /\ DOMAIN ps = 1 .. k OBVIOUS
<1>3. e = [i \in 1 .. k |-> EncodeAckProperty(ps[i])]
  BY <1>1, <1>2 DEF EncodedAckProperties
<1>4. ASSUME NEW i \in 1 .. k
      PROVE  e[i] \in Seq(Byte) /\ e[i] # <<>> /\ Reads(AckPropertyDecoder, ps[i], e[i])
  <2>1. ps[i] \in AckPropertySet BY <1>2
  <2>2. e[i] = EncodeAckProperty(ps[i]) BY <1>3
  <2>3. WrittenAsAck(ps[i], e[i]) BY <2>1, <2>2, AckPropertyRoundTrip
  <2>4. QED BY <2>3 DEF WrittenAsAck, IsReadBy
<1>5. e \in Seq(Seq(Byte)) /\ Len(e) = k
  <2>1. \A i \in 1 .. k : EncodeAckProperty(ps[i]) \in Seq(Byte) BY <1>3, <1>4
  <2>2. e \in [1 .. k -> Seq(Byte)] BY <1>3, <2>1
  <2>3. QED BY <2>2
<1>6. QED BY <1>1, <1>2, <1>4, <1>5 DEF Encodes

\* The bytes of a list, without their length.
AckBytes(ps) == FlattenSeq(EncodedAckProperties(ps))

LEMMA AckBytesFacts ==
  ASSUME IdsAreBytes, NEW ps \in Seq(AckPropertySet)
  PROVE  /\ AckBytes(ps) \in Seq(Byte)
         /\ EncodeAckProperties(ps) = ListBytes(AckBytes(ps))
         /\ AckPropertiesIn[AckBytes(ps)] = Parsed(ps, Len(AckBytes(ps)))
         /\ ps = <<>> => AckBytes(ps) = <<>>
<1>1. PICK e : e = EncodedAckProperties(ps) OBVIOUS
<1>2. Encodes(AckPropertyDecoder, AckPropertySet, ps, e) BY <1>1, AckPropertiesEncoded
<1>3. PICK l \in Seq(Byte) : l = AckBytes(ps) /\ l = FlattenSeq(e)
  <2>1. e \in Seq(Seq(Byte)) BY <1>2 DEF Encodes
  <2>2. QED BY <1>1, <2>1, FlattenType DEF AckBytes
<1>4. AckPropertiesIn[l] = Parsed(ps, Len(l))
  BY <1>2, <1>3, AckPropertiesLoop, ListRoundTrip
<1>5. EncodeAckProperties(ps) = ListBytes(l)
  BY <1>1, <1>3, Zenon DEF EncodeAckProperties, EncodedAckProperties, ListBytes
<1>6. ASSUME ps = <<>> PROVE l = <<>>
  <2>1. Len(e) = 0 /\ e \in Seq(Seq(Byte)) BY <1>2, <1>6 DEF Encodes
  <2>2. e = <<>> BY <2>1, EmptySeq
  <2>3. QED BY <1>3, <2>2, FlattenEmpty, Zenon
<1>7. QED BY <1>3, <1>4, <1>5, <1>6, Zenon

LEMMA AckBytesSplit ==
  ASSUME IdsAreBytes, NEW ps \in Seq(AckPropertySet), ps # <<>>
  PROVE  /\ Head(ps) \in AckPropertySet /\ Tail(ps) \in Seq(AckPropertySet)
         /\ Joined(AckBytes(ps), EncodeAckProperty(Head(ps)), AckBytes(Tail(ps)))
         /\ Len(AckBytes(ps)) >= 3
<1>1. PICK q \in Seq(AckPropertySet) :
        /\ q = Tail(ps) /\ Head(ps) \in AckPropertySet /\ Head(ps) = ps[1]
        /\ Len(q) = Len(ps) - 1 /\ Len(ps) >= 1 /\ Len(ps) \in Nat
        /\ \A i \in 1 .. Len(q) : q[i] = ps[i + 1]
  <2>1. Len(ps) \in Nat /\ Len(ps) >= 1 BY EmptySeq
  <2>2. PICK q : q = Tail(ps) OBVIOUS
  <2>3. /\ q \in Seq(AckPropertySet) /\ Len(q) = Len(ps) - 1
        /\ \A i \in 1 .. Len(q) : q[i] = ps[i + 1]
    BY <2>1, <2>2
  <2>4. Head(ps) = ps[1] /\ ps[1] \in AckPropertySet BY <2>1
  <2>5. QED BY <2>1, <2>2, <2>3, <2>4, Zenon
<1>2. PICK e \in Seq(Seq(Byte)) : e = EncodedAckProperties(ps) /\ Len(e) = Len(ps)
  BY AckPropertiesEncoded DEF Encodes
<1>3. PICK d \in Seq(Seq(Byte)) : d = EncodedAckProperties(q) /\ Len(d) = Len(q)
  BY AckPropertiesEncoded DEF Encodes
<1>4. /\ \A i \in 1 .. Len(ps) : e[i] = EncodeAckProperty(ps[i])
      /\ \A i \in 1 .. Len(q) : d[i] = EncodeAckProperty(q[i])
  BY <1>2, <1>3 DEF EncodedAckProperties
<1>5. e # <<>> /\ Head(e) = EncodeAckProperty(Head(ps))
  <2>1. e # <<>> BY <1>1, <1>2
  <2>2. Head(e) = e[1] /\ 1 \in 1 .. Len(ps) BY <1>1, <1>2, <2>1
  <2>3. QED BY <1>1, <1>4, <2>1, <2>2
<1>6. Tail(e) = d
  <2>1. /\ Tail(e) \in Seq(Seq(Byte)) /\ Len(Tail(e)) = Len(q)
        /\ \A i \in 1 .. Len(q) : Tail(e)[i] = e[i + 1]
    BY <1>1, <1>2, <1>5
  <2>2. ASSUME NEW i \in 1 .. Len(Tail(e)) PROVE Tail(e)[i] = d[i]
    <3>1. i \in 1 .. Len(q) /\ i + 1 \in 1 .. Len(ps) BY <1>1, <2>1
    <3>2. QED BY <1>1, <1>4, <2>1, <3>1
  <2>3. QED BY <1>3, <2>1, <2>2, SeqEqual
<1>7. PICK a \in Seq(Byte) : a = EncodeAckProperty(Head(ps)) /\ Len(a) >= 3
  <2>1. WrittenAsAck(Head(ps), EncodeAckProperty(Head(ps))) BY <1>1, AckPropertyRoundTrip
  <2>2. QED BY <2>1 DEF WrittenAsAck, IsReadBy
<1>8. PICK t \in Seq(Byte) : t = AckBytes(q) /\ t = FlattenSeq(d)
  BY <1>3, FlattenType DEF AckBytes
<1>9. AckBytes(ps) = a \o t
  <2>1. FlattenSeq(e) = Head(e) \o FlattenSeq(Tail(e)) BY <1>5, FlattenHead
  <2>2. QED BY <1>2, <1>5, <1>6, <1>7, <1>8, <2>1, Zenon DEF AckBytes
<1>10. Joined(AckBytes(ps), a, t) BY <1>9, Zenon DEF Joined
<1>11. Len(AckBytes(ps)) >= 3
  <2>1. Len(AckBytes(ps)) = Len(a) + Len(t) BY <1>10, JoinedParts
  <2>2. Len(a) \in Nat /\ Len(t) \in Nat OBVIOUS
  <2>3. QED BY <1>7, <2>1, <2>2
<1>12. QED BY <1>1, <1>7, <1>8, <1>10, <1>11, Zenon

\* A list of properties is read back whatever follows it.
LEMMA AckPropertiesRoundTrip ==
  ASSUME IdsAreBytes, NEW ps \in Seq(AckPropertySet), NEW t \in Seq(Byte),
         Len(EncodeAckProperties(ps)) <= MaxVbi
  PROVE  DecodeAckProperties(EncodeAckProperties(ps) \o t)
           = Parsed(ps, Len(EncodeAckProperties(ps)))
<1>1. PICK l \in Seq(Byte) : /\ EncodeAckProperties(ps) = ListBytes(l)
                             /\ AckPropertiesIn[l] = Parsed(ps, Len(l))
  BY AckBytesFacts, Zenon
<1>2. Len(ListBytes(l)) <= MaxVbi BY <1>1, Zenon
<1>3. WholeList(AckPropertiesIn, ListBytes(l) \o t) = Parsed(ps, Len(ListBytes(l)))
  BY <1>1, <1>2, WholeListRoundTrip
<1>4. DecodeAckProperties(ListBytes(l) \o t) = WholeList(AckPropertiesIn, ListBytes(l) \o t)
  BY Zenon DEF DecodeAckProperties, WholeList
<1>5. QED BY <1>1, <1>3, <1>4, Zenon

LEMMA AckPropertiesAlone ==
  ASSUME IdsAreBytes, NEW ps \in Seq(AckPropertySet), Len(EncodeAckProperties(ps)) <= MaxVbi
  PROVE  DecodeAckProperties(EncodeAckProperties(ps)) = Parsed(ps, Len(EncodeAckProperties(ps)))
<1>1. PICK z \in Seq(Byte) : z = EncodeAckProperties(ps)
  BY AckBytesFacts, ListBytesFacts
<1>2. z \o <<>> = z /\ <<>> \in Seq(Byte) OBVIOUS
<1>3. QED BY <1>1, <1>2, AckPropertiesRoundTrip, Zenon

-----------------------------------------------------------------------------
(* Frames: the first byte, the length and the body.                        *)

\* w is a frame: the first byte is h, k bytes hold the length of the body b.
IsFrame(w, h, b, k) ==
  /\ w \in Seq(Nat) /\ k \in Nat /\ k >= 1 /\ b \in Seq(Byte)
  /\ Len(w) = 1 + k + Len(b)
  /\ Head(w) = h
  /\ DecodeVbi(Tail(w)) = Parsed(Len(b), k)
  /\ From(w, 1 + k) = b

\* The part of a frame that ends before its last byte.
IsPart(p, h, b, k) ==
  /\ p \in Seq(Nat) /\ Head(p) = h /\ Len(p) < 1 + k + Len(b)
  /\ DecodeVbi(Tail(p)) \in {Failed("more"), Parsed(Len(b), k)}

LEMMA FramedIsFrame ==
  ASSUME NEW h \in Byte, NEW b \in Seq(Byte), Len(b) <= MaxVbi
  PROVE  IsFrame(Framed(h, b), h, b, Len(EncodeVbi[Len(b)]))
<1>1. PICK m \in Nat : m = Len(b) /\ m <= MaxVbi OBVIOUS
<1>2. PICK v \in Seq(Byte) : v = EncodeVbi[m] /\ Len(v) >= 1
  BY <1>1, EncodeIsCode DEF IsCode
<1>3. PICK c \in Seq(Byte) : c = <<h>> \o v /\ Len(c) = Len(v) + 1 BY AfterId
<1>4. PICK w \in Seq(Nat) : /\ w = c \o b /\ Len(w) = Len(v) + 1 + Len(b)
                            /\ Head(w) = h /\ Tail(w) = v \o b
                            /\ From(w, Len(c)) = b
  <2>1. /\ (<<h>> \o v) \o b \in Seq(Nat) /\ Head((<<h>> \o v) \o b) = h
        /\ Len((<<h>> \o v) \o b) = Len(v) + 1 + Len(b)
        /\ Tail((<<h>> \o v) \o b) = v \o b
    BY AfterId
  <2>2. From(c \o b, Len(c)) = b BY PartsOf
  <2>3. QED BY <1>3, <2>1, <2>2, Zenon
<1>5. Framed(h, b) = w BY <1>1, <1>2, <1>3, <1>4, Zenon DEF Framed
<1>6. DecodeVbi(Tail(w)) = Parsed(m, Len(v)) BY <1>1, <1>2, <1>4, VbiRoundTrip, Zenon
<1>7. PICK k \in Nat : k = Len(v) /\ 1 + k = Len(c) /\ k >= 1 BY <1>2, <1>3
<1>8. From(w, 1 + k) = b BY <1>4, <1>7, Zenon
<1>9. Len(w) = 1 + k + Len(b)
  <2>1. Len(b) \in Nat OBVIOUS
  <2>2. QED BY <1>4, <1>7, <2>1
<1>10. IsFrame(w, h, b, k)
  <2>1. DecodeVbi(Tail(w)) = Parsed(Len(b), k) BY <1>1, <1>6, <1>7, Zenon
  <2>2. QED BY <1>4, <1>7, <1>8, <1>9, <2>1, Zenon DEF IsFrame
<1>11. k = Len(EncodeVbi[Len(b)]) BY <1>1, <1>2, <1>7, Zenon
<1>12. QED BY <1>5, <1>10, <1>11, Zenon

\* Without its last byte or more bytes, the length is known or not yet.
LEMMA FramedPart ==
  ASSUME NEW h \in Byte, NEW b \in Seq(Byte), Len(b) <= MaxVbi,
         NEW j \in 1 .. Len(Framed(h, b)) - 1
  PROVE  \E k \in Nat : IsPart(SubSeq(Framed(h, b), 1, j), h, b, k)
<1>1. PICK m \in Nat : m = Len(b) /\ m <= MaxVbi OBVIOUS
<1>2. PICK v \in Seq(Byte) : v = EncodeVbi[m] /\ Len(v) >= 1
  BY <1>1, EncodeIsCode DEF IsCode
<1>3. PICK c \in Seq(Byte) : c = <<h>> \o v /\ Len(c) = Len(v) + 1 BY AfterId
<1>4. PICK w \in Seq(Byte) : w = Framed(h, b) /\ w = c \o b /\ Len(w) = Len(c) + Len(b)
  <2>1. Framed(h, b) = c \o b BY <1>1, <1>2, <1>3, Zenon DEF Framed
  <2>2. QED BY <2>1, PartsOf
<1>5. j \in Nat /\ j >= 1 /\ j < Len(w) /\ Len(w) \in Nat BY <1>4
<1>6. PICK p \in Seq(Byte) : p = SubSeq(w, 1, j) /\ Len(p) = j
  <2>1. PICK q : q = SubSeq(w, 1, j) OBVIOUS
  <2>2. q \in Seq(Byte) /\ Len(q) = j BY <1>5, <2>1
  <2>3. QED BY <2>1, <2>2
<1>7. PICK z \in Seq(Byte) : w = p \o z
  <2>1. Len(p) <= Len(w) /\ SubSeq(p, 1, Len(p)) = SubSeq(w, 1, Len(p)) BY <1>5, <1>6
  <2>2. IsPrefix(p, w) BY <2>1 DEF IsPrefix
  <2>3. QED BY <2>2, PrefixSplits
<1>8. Cut(Byte, c, b, p, z) BY <1>4, <1>7, Zenon DEF Cut
<1>9. /\ Head(p) = h /\ Len(Tail(p)) = j - 1
      /\ Cut(Byte, v, b, Tail(p), z)
  <2>1. c = <<h>> \o v /\ Len(p) >= 1 BY <1>3, <1>5, <1>6
  <2>2. Head(p) = h /\ Len(Tail(p)) = Len(p) - 1 /\ Cut(Byte, v, b, Tail(p), z)
    BY <1>8, <2>1, CutTail, Zenon
  <2>3. QED BY <1>6, <2>2
<1>10. PICK q \in Seq(Byte) : q = Tail(p) BY <1>9 DEF Cut
<1>11. DecodeVbi(q) \in {Failed("more"), Parsed(m, Len(v))}
  <2>0. Len(v) \in Nat /\ Len(q) \in Nat OBVIOUS
  <2>1. CASE Len(q) < Len(v)
    <3>1. q = SubSeq(v, 1, Len(q)) BY <1>9, <1>10, <2>1, CutShort, Zenon
    <3>2. Len(q) \in 0 .. Len(v) - 1 BY <2>0, <2>1
    <3>3. DecodeVbi(SubSeq(EncodeVbi[m], 1, Len(q))) = Failed("more")
      BY <1>1, <1>2, <3>2, VbiNeedsEveryByte
    <3>4. QED BY <1>2, <3>1, <3>3, Zenon
  <2>2. CASE Len(q) >= Len(v)
    <3>1. PICK e \in Seq(Byte) : q = v \o e
      <4>1. After(q, Len(v)) \in Seq(Byte) /\ q = v \o After(q, Len(v))
        BY <1>9, <1>10, <2>2, CutLong, ZenonT(30)
      <4>2. QED BY <4>1, Zenon
    <3>2. DecodeVbi(EncodeVbi[m] \o e) = Parsed(m, Len(EncodeVbi[m]))
      BY <1>1, VbiRoundTrip
    <3>3. QED BY <1>2, <3>1, <3>2, Zenon
  <2>3. QED BY <2>0, <2>1, <2>2
<1>12. PICK k \in Nat : k = Len(v) OBVIOUS
<1>13. Len(p) < 1 + k + Len(b)
  <2>1. Len(b) \in Nat OBVIOUS
  <2>2. QED BY <1>3, <1>4, <1>5, <1>6, <1>12, <2>1
<1>14. IsPart(p, h, b, k)
  <2>1. DecodeVbi(Tail(p)) \in {Failed("more"), Parsed(Len(b), k)}
    BY <1>1, <1>10, <1>11, <1>12, Zenon
  <2>2. p \in Seq(Nat) BY BytesAreNats
  <2>3. QED BY <1>9, <1>13, <2>1, <2>2, Zenon DEF IsPart
<1>15. QED BY <1>4, <1>6, <1>14, Zenon

\* What WithBody makes of the length d and of the body, read as r.
FromBody(w, d, r) ==
  IF d.result # "ok" THEN d
  ELSE IF Len(w) < 1 + d.len + d.value THEN Failed("more")
  ELSE IF r.result # "ok" THEN r
  ELSE Parsed(r.value, 1 + d.len + r.len)

LEMMA BodyOfFrame ==
  ASSUME NEW w, NEW h, NEW b, NEW k, IsFrame(w, h, b, k), NEW r,
         NEW d, d = DecodeVbi(Tail(w))
  PROVE  /\ d.len = k /\ d.value = Len(b)
         /\ FromBody(w, d, r) =
              IF r.result # "ok" THEN r ELSE Parsed(r.value, 1 + k + r.len)
<1>1. d = Parsed(Len(b), k) /\ Len(w) = 1 + k + Len(b) /\ k \in Nat /\ b \in Seq(Byte)
  BY DEF IsFrame
<1>2. d.result = "ok" /\ d.len = k /\ d.value = Len(b) BY <1>1 DEF Parsed
<1>3. Len(b) \in Nat BY <1>1
<1>4. ~ (Len(w) < 1 + d.len + d.value) BY <1>1, <1>2, <1>3
<1>5. QED BY <1>2, <1>4 DEF FromBody

LEMMA BodyOfPart ==
  ASSUME NEW p, NEW h, NEW b, NEW k \in Nat, IsPart(p, h, b, k), NEW r
  PROVE  FromBody(p, DecodeVbi(Tail(p)), r) = Failed("more")
<1>1. PICK d : d = DecodeVbi(Tail(p)) OBVIOUS
<1>2. CASE d = Failed("more")
  <2>1. d.result # "ok" BY <1>2 DEF Failed
  <2>2. QED BY <1>1, <1>2, <2>1 DEF FromBody
<1>3. CASE d = Parsed(Len(b), k)
  <2>1. d.result = "ok" /\ d.len = k /\ d.value = Len(b) BY <1>3 DEF Parsed
  <2>2. Len(p) < 1 + d.len + d.value BY <2>1 DEF IsPart
  <2>3. QED BY <1>1, <2>1, <2>2 DEF FromBody
<1>4. QED BY <1>1, <1>2, <1>3 DEF IsPart

-----------------------------------------------------------------------------
(* Bodies: how each is read from its bytes.                                *)

ConnackBody(body) ==
  Then(DecodeCode(body, {0, 1}), LAMBDA flags :
    Then(DecodeCode(From(body, 1), ConnackReasons), LAMBDA reason :
      Then(DecodeAckProperties(From(body, 2)), LAMBDA props :
        Parsed(Connack(flags.value = 1, reason.value, props.value), 2 + props.len))))

\* SubAck and UnsubAck.
ReasonLast(type, codes, body) ==
  Then(DecodePktId(body), LAMBDA id :
    Then(DecodeAckProperties(From(body, 2)), LAMBDA props :
      Then(DecodeCode(From(body, 2 + props.len), codes), LAMBDA reason :
        Parsed(Ack(type, id.value, reason.value, props.value), 3 + props.len))))

PubAckBody(body, len) ==
  Then(DecodePktId(body), LAMBDA id :
    Then(IF len = 2 THEN Parsed(0, 0)
         ELSE DecodeCode(From(body, 2), PubAckReasons), LAMBDA reason :
      Then(IF len < 4 THEN Parsed(PubAckProperties(<<>>), 0)
           ELSE DecodePubAckProperties(From(body, 2 + reason.len)), LAMBDA props :
        Parsed(Ack("puback", id.value, reason.value, props.value),
               2 + reason.len + props.len))))

DisconnectBody(body, len) ==
  Then(IF len = 0 THEN Parsed(0, 0) ELSE DecodeCode(body, DisconnectReasons), LAMBDA reason :
    Then(IF len < 4 THEN Parsed(<<>>, 0)
         ELSE DecodeAckProperties(From(body, reason.len)), LAMBDA props :
      Parsed(Disconnect(reason.value, props.value), reason.len + props.len)))

ReadBody(type, body, len) ==
  CASE type = "connack" -> ConnackBody(body)
    [] type = "suback" -> ReasonLast("suback", SubAckReasons, body)
    [] type = "unsuback" -> ReasonLast("unsuback", UnsubAckReasons, body)
    [] type = "puback" -> PubAckBody(body, len)
    [] type = "disconnect" -> DisconnectBody(body, len)

AckTypes == {"connack", "suback", "unsuback", "puback", "disconnect"}

LEMMA FirstBytes ==
  /\ FirstByteOf["connack"] = 32 /\ FirstByteOf["puback"] = 64
  /\ FirstByteOf["suback"] = 144 /\ FirstByteOf["unsuback"] = 176
  /\ FirstByteOf["pingresp"] = 208 /\ FirstByteOf["disconnect"] = 224
BY DEF FirstByteOf

\* Every decoder but that of PingResp looks at the length, then at the body.
LEMMA DecoderIsFromBody ==
  ASSUME NEW type \in AckTypes, NEW w, Head(w) = FirstByteOf[type],
         NEW d, d = DecodeVbi(Tail(w))
  PROVE  DecoderFor(w) = FromBody(w, d, ReadBody(type, From(w, 1 + d.len), d.value))
<1>1. PICK h \in Int : h = Head(w) BY FirstBytes DEF AckTypes
<1>2. CASE type = "connack"
  <2>1. h \div 16 = 2 BY <1>1, <1>2, FirstBytes
  <2>2. DecoderFor(w) = DecodeConnack(w) BY <1>1, <2>1 DEF DecoderFor
  <2>3. PICK r : r = ConnackBody(From(w, 1 + d.len)) OBVIOUS
  <2>4. ReadBody(type, From(w, 1 + d.len), d.value) = r BY <1>2, <2>3 DEF ReadBody
  <2>5. DecodeConnack(w) = FromBody(w, d, r)
    BY <2>3 DEF DecodeConnack, WithBody, FromBody, ConnackBody, Then
  <2>6. QED BY <2>2, <2>4, <2>5
<1>3. CASE type = "suback"
  <2>1. h \div 16 = 9 BY <1>1, <1>3, FirstBytes
  <2>2. DecoderFor(w) = DecodeSubAck(w) BY <1>1, <2>1 DEF DecoderFor
  <2>3. PICK r : r = ReasonLast("suback", SubAckReasons, From(w, 1 + d.len)) OBVIOUS
  <2>4. ReadBody(type, From(w, 1 + d.len), d.value) = r BY <1>3, <2>3 DEF ReadBody
  <2>5. DecodeSubAck(w) = FromBody(w, d, r)
    BY <2>3 DEF DecodeSubAck, WithBody, FromBody, ReasonLast, Then
  <2>6. QED BY <2>2, <2>4, <2>5
<1>4. CASE type = "unsuback"
  <2>1. h \div 16 = 11 BY <1>1, <1>4, FirstBytes
  <2>2. DecoderFor(w) = DecodeUnsubAck(w) BY <1>1, <2>1 DEF DecoderFor
  <2>3. PICK r : r = ReasonLast("unsuback", UnsubAckReasons, From(w, 1 + d.len)) OBVIOUS
  <2>4. ReadBody(type, From(w, 1 + d.len), d.value) = r BY <1>4, <2>3 DEF ReadBody
  <2>5. DecodeUnsubAck(w) = FromBody(w, d, r)
    BY <2>3 DEF DecodeUnsubAck, WithBody, FromBody, ReasonLast, Then
  <2>6. QED BY <2>2, <2>4, <2>5
<1>5. CASE type = "puback"
  <2>1. h \div 16 = 4 BY <1>1, <1>5, FirstBytes
  <2>2. DecoderFor(w) = DecodePubAck(w) BY <1>1, <2>1 DEF DecoderFor
  <2>3. PICK r : r = PubAckBody(From(w, 1 + d.len), d.value) OBVIOUS
  <2>4. ReadBody(type, From(w, 1 + d.len), d.value) = r BY <1>5, <2>3 DEF ReadBody
  <2>5. DecodePubAck(w) = FromBody(w, d, r)
    <3>1. CASE d.result # "ok" BY <3>1 DEF DecodePubAck, WithBody, FromBody, Then
    <3>2. CASE d.result = "ok" /\ Len(w) < 1 + d.len + d.value
      BY <3>2 DEF DecodePubAck, WithBody, FromBody, Then
    <3>3. CASE d.result = "ok" /\ ~ (Len(w) < 1 + d.len + d.value)
      <4>1. FromBody(w, d, r) = Then(r, LAMBDA pkt : Parsed(pkt.value, 1 + d.len + pkt.len))
        BY <3>3 DEF FromBody, Then
      <4>2. DecodePubAck(w) =
              Then(PubAckBody(From(w, 1 + d.len), d.value),
                   LAMBDA pkt : Parsed(pkt.value, 1 + d.len + pkt.len))
        BY <3>3, Zenon DEF DecodePubAck, WithBody, PubAckBody, Then
      <4>3. QED BY <2>3, <4>1, <4>2
    <3>4. QED BY <3>1, <3>2, <3>3
  <2>6. QED BY <2>2, <2>4, <2>5
<1>6. CASE type = "disconnect"
  <2>1. h \div 16 = 14 BY <1>1, <1>6, FirstBytes
  <2>2. DecoderFor(w) = DecodeDisconnect(w) BY <1>1, <2>1 DEF DecoderFor
  <2>3. PICK r : r = DisconnectBody(From(w, 1 + d.len), d.value) OBVIOUS
  <2>4. ReadBody(type, From(w, 1 + d.len), d.value) = r BY <1>6, <2>3 DEF ReadBody
  <2>5. DecodeDisconnect(w) = FromBody(w, d, r)
    BY <2>3 DEF DecodeDisconnect, WithBody, FromBody, DisconnectBody, Then
  <2>6. QED BY <2>2, <2>4, <2>5
<1>7. QED BY <1>2, <1>3, <1>4, <1>5, <1>6 DEF AckTypes

\* A packet is read as its body is.
LEMMA FrameIsRead ==
  ASSUME NEW type \in AckTypes, NEW w, NEW b, NEW k,
         IsFrame(w, FirstByteOf[type], b, k),
         NEW r, ReadBody(type, b, Len(b)) = r
  PROVE  DecoderFor(w) = IF r.result # "ok" THEN r ELSE Parsed(r.value, 1 + k + r.len)
<1>1. PICK d : d = DecodeVbi(Tail(w)) OBVIOUS
<1>2. /\ d.len = k /\ d.value = Len(b)
      /\ FromBody(w, d, r) = IF r.result # "ok" THEN r ELSE Parsed(r.value, 1 + k + r.len)
  BY <1>1, BodyOfFrame
<1>3. Head(w) = FirstByteOf[type] /\ From(w, 1 + k) = b BY Zenon DEF IsFrame
<1>4. DecoderFor(w) = FromBody(w, d, ReadBody(type, From(w, 1 + d.len), d.value))
  BY <1>1, <1>3, DecoderIsFromBody
<1>5. ReadBody(type, From(w, 1 + d.len), d.value) = r BY <1>2, <1>3, Zenon
<1>6. QED BY <1>2, <1>4, <1>5, Zenon

LEMMA PartIsWaitedFor ==
  ASSUME NEW type \in AckTypes, NEW p, NEW b, NEW k \in Nat,
         IsPart(p, FirstByteOf[type], b, k)
  PROVE  DecoderFor(p) = Failed("more")
<1>1. PICK d : d = DecodeVbi(Tail(p)) OBVIOUS
<1>2. PICK r : r = ReadBody(type, From(p, 1 + d.len), d.value) OBVIOUS
<1>3. Head(p) = FirstByteOf[type] BY Zenon DEF IsPart
<1>4. DecoderFor(p) = FromBody(p, d, r) BY <1>1, <1>2, <1>3, DecoderIsFromBody
<1>5. FromBody(p, DecodeVbi(Tail(p)), r) = Failed("more") BY BodyOfPart
<1>6. QED BY <1>1, <1>4, <1>5, Zenon

-----------------------------------------------------------------------------
(* What a broker writes.                                                   *)

\* The acknowledgements that a broker can write.
PktIdRange == 1 .. U16Size - 1

WritableAcks ==
  {Connack(s, r, ps) : s \in BOOLEAN, r \in ConnackReasons, ps \in Seq(AckPropertySet)}
  \cup {Ack("suback", id, r, ps) :
          id \in PktIdRange, r \in SubAckReasons, ps \in Seq(AckPropertySet)}
  \cup {Ack("unsuback", id, r, ps) :
          id \in PktIdRange, r \in UnsubAckReasons, ps \in Seq(AckPropertySet)}
  \cup {Ack("puback", id, r, ps) :
          id \in PktIdRange, r \in PubAckReasons, ps \in Seq(AckPropertySet)}
  \cup {Disconnect(r, ps) : r \in DisconnectReasons, ps \in Seq(AckPropertySet)}
  \cup {PingResp}

LEMMA ReasonsAreBytes ==
  ASSUME BytesAreReal
  PROVE  /\ ConnackReasons \subseteq Byte /\ SubAckReasons \subseteq Byte
         /\ UnsubAckReasons \subseteq Byte /\ PubAckReasons \subseteq Byte
         /\ DisconnectReasons \subseteq Byte /\ {0, 1} \subseteq Byte
         /\ \A type \in AckTypes : FirstByteOf[type] \in Byte
<1>1. Byte = 0 .. 255 BY RealBytes
<1>2. ConnackReasons \subseteq Byte BY <1>1 DEF ConnackReasons
<1>3. SubAckReasons \subseteq Byte BY <1>1 DEF SubAckReasons
<1>4. UnsubAckReasons \subseteq Byte BY <1>1 DEF UnsubAckReasons
<1>5. PubAckReasons \subseteq Byte BY <1>1 DEF PubAckReasons
<1>6. DisconnectReasons \subseteq Byte BY <1>1 DEF DisconnectReasons
<1>7. \A type \in AckTypes : FirstByteOf[type] \in Byte BY <1>1, FirstBytes DEF AckTypes
<1>8. {0, 1} \subseteq Byte BY <1>1
<1>9. QED BY <1>2, <1>3, <1>4, <1>5, <1>6, <1>7, <1>8

\* Bytes of three parts.
Three(b, x, y, z) ==
  b = x \o y \o z /\ x \in Seq(Byte) /\ y \in Seq(Byte) /\ z \in Seq(Byte)

ThreeParts(b, x, y, z) ==
  /\ b \in Seq(Byte) /\ Len(b) = Len(x) + Len(y) + Len(z)
  /\ y \o z \in Seq(Byte) /\ b = x \o (y \o z)
  /\ From(b, Len(x)) = y \o z /\ From(b, Len(x) + Len(y)) = z

LEMMA PartsOfThree ==
  ASSUME NEW b, NEW x, NEW y, NEW z, Three(b, x, y, z)
  PROVE  ThreeParts(b, x, y, z)
<1>1. b = (x \o y) \o z /\ x \in Seq(Byte) /\ y \in Seq(Byte) /\ z \in Seq(Byte)
  BY Zenon DEF Three
<1>2. PICK u \in Seq(Byte) : u = y \o z /\ Len(u) = Len(y) + Len(z) BY <1>1, PartsOf
<1>3. PICK c \in Seq(Byte) : c = x \o y /\ Len(c) = Len(x) + Len(y) BY <1>1, PartsOf
<1>4. b = x \o u
  <2>1. Regroups(x, y, z) BY <1>1, Regroup, Zenon
  <2>2. QED BY <1>1, <1>2, <2>1, Zenon DEF Regroups
<1>5. x \o u \in Seq(Byte) /\ Len(x \o u) = Len(x) + Len(u) /\ From(x \o u, Len(x)) = u
  BY <1>1, PartsOf
<1>6. From(c \o z, Len(c)) = z BY <1>1, PartsOf
<1>7. b \in Seq(Byte) /\ From(b, Len(x)) = y \o z BY <1>2, <1>4, <1>5, Zenon
<1>8. From(b, Len(x) + Len(y)) = z BY <1>1, <1>3, <1>6, Zenon
<1>9. Len(b) = Len(x) + Len(y) + Len(z)
  <2>1. Len(b) = Len(x) + Len(u) BY <1>4, <1>5, Zenon
  <2>2. Len(x) \in Nat /\ Len(y) \in Nat /\ Len(z) \in Nat BY <1>1
  <2>3. QED BY <1>2, <2>1, <2>2
<1>10. QED BY <1>2, <1>4, <1>7, <1>8, <1>9, Zenon DEF ThreeParts

\* The second part begins at i and the third at j.
PartsAt(b, x, y, z, i, j) ==
  /\ b \in Seq(Byte) /\ Len(b) = j + Len(z) /\ Len(z) \in Nat
  /\ y \o z \in Seq(Byte) /\ b = x \o (y \o z)
  /\ From(b, i) = y \o z /\ From(b, j) = z

LEMMA PartsOfThreeAt ==
  ASSUME NEW b, NEW x, NEW y, NEW z, Three(b, x, y, z),
         NEW i, i = Len(x), NEW j, j = Len(x) + Len(y)
  PROVE  PartsAt(b, x, y, z, i, j)
<1>1. ThreeParts(b, x, y, z) BY PartsOfThree
<1>2. /\ b \in Seq(Byte) /\ Len(b) = Len(x) + Len(y) + Len(z)
      /\ y \o z \in Seq(Byte) /\ b = x \o (y \o z)
      /\ From(b, Len(x)) = y \o z /\ From(b, Len(x) + Len(y)) = z
  BY <1>1, Zenon DEF ThreeParts
<1>3. z \in Seq(Byte) BY Zenon DEF Three
<1>4. Len(z) \in Nat BY <1>3
<1>5. QED BY <1>2, <1>4, Zenon DEF PartsAt

LEMMA AckPropertyBytes ==
  ASSUME BytesAreReal, NEW ps \in Seq(AckPropertySet)
  PROVE  EncodeAckProperties(ps) \in Seq(Byte)
<1>1. PICK l \in Seq(Byte) : EncodeAckProperties(ps) = ListBytes(l)
  <2>1. IdsAreBytes BY RealBytes
  <2>2. QED BY <2>1, AckBytesFacts, Zenon
<1>2. QED BY <1>1, ListBytesFacts

LEMMA IdBytesFacts ==
  ASSUME NEW id \in PktIdRange
  PROVE  U16Bytes(id) \in Seq(Byte) /\ Len(U16Bytes(id)) = 2
<1>1. id \in Nat /\ id < U16Size BY ByteFacts DEF PktIdRange
<1>2. <<>> \in Seq(Byte) OBVIOUS
<1>3. QED BY <1>1, <1>2, U16RoundTrip

LEMMA ConnackBytes ==
  ASSUME BytesAreReal, NEW s \in BOOLEAN, NEW r \in ConnackReasons,
         NEW ps \in Seq(AckPropertySet)
  PROVE  Three(BrokerBody(Connack(s, r, ps), "full"),
               <<Bit(s, 1)>>, <<r>>, EncodeAckProperties(ps))
<1>1. BrokerBody(Connack(s, r, ps), "full") = <<Bit(s, 1)>> \o <<r>> \o EncodeAckProperties(ps)
  BY DEF BrokerBody, Connack
<1>2. Bit(s, 1) \in Byte /\ r \in Byte BY ReasonsAreBytes DEF Bit
<1>3. <<Bit(s, 1)>> \in Seq(Byte) /\ <<r>> \in Seq(Byte) BY <1>2
<1>4. QED BY <1>1, <1>3, AckPropertyBytes, Zenon DEF Three

LEMMA ReasonLastBytes ==
  ASSUME BytesAreReal, NEW type \in {"suback", "unsuback"}, NEW id \in PktIdRange,
         NEW r \in Byte, NEW ps \in Seq(AckPropertySet)
  PROVE  Three(BrokerBody(Ack(type, id, r, ps), "full"),
               U16Bytes(id), EncodeAckProperties(ps), <<r>>)
<1>1. BrokerBody(Ack(type, id, r, ps), "full") = U16Bytes(id) \o EncodeAckProperties(ps) \o <<r>>
  BY DEF BrokerBody, Ack
<1>2. <<r>> \in Seq(Byte) OBVIOUS
<1>3. QED BY <1>1, <1>2, AckPropertyBytes, IdBytesFacts, Zenon DEF Three

LEMMA PubAckBytes ==
  ASSUME BytesAreReal, NEW id \in PktIdRange, NEW r \in Byte,
         NEW ps \in Seq(AckPropertySet)
  PROVE  Three(BrokerBody(Ack("puback", id, r, ps), "full"),
               U16Bytes(id), <<r>>, EncodeAckProperties(ps))
<1>1. BrokerBody(Ack("puback", id, r, ps), "full")
        = U16Bytes(id) \o <<r>> \o EncodeAckProperties(ps)
  BY DEF BrokerBody, Ack
<1>2. <<r>> \in Seq(Byte) OBVIOUS
<1>3. QED BY <1>1, <1>2, AckPropertyBytes, IdBytesFacts, Zenon DEF Three

LEMMA DisconnectBytes ==
  ASSUME NEW r \in Byte, NEW ps
  PROVE  BrokerBody(Disconnect(r, ps), "full") = <<r>> \o EncodeAckProperties(ps)
BY DEF BrokerBody, Disconnect

\* Every body is bytes, and every packet but PingResp is one of AckTypes.
LEMMA BrokerBodyBytes ==
  ASSUME BytesAreReal, NEW a \in WritableAcks
  PROVE  BrokerBody(a, "full") \in Seq(Byte) /\ (a # PingResp => a.type \in AckTypes)
<1>1. CASE \E s \in BOOLEAN, r \in ConnackReasons, ps \in Seq(AckPropertySet) :
             a = Connack(s, r, ps)
  <2>1. PICK s \in BOOLEAN, r \in ConnackReasons, ps \in Seq(AckPropertySet) :
          a = Connack(s, r, ps)
    BY <1>1
  <2>2. BrokerBody(a, "full") \in Seq(Byte)
    BY <2>1, ConnackBytes, PartsOfThree, Zenon DEF ThreeParts
  <2>3. a.type = "connack" BY <2>1 DEF Connack
  <2>4. QED BY <2>2, <2>3 DEF AckTypes
<1>2. CASE \E type \in {"suback", "unsuback"}, id \in PktIdRange,
              r \in SubAckReasons \cup UnsubAckReasons, ps \in Seq(AckPropertySet) :
             a = Ack(type, id, r, ps)
  <2>1. PICK type \in {"suback", "unsuback"}, id \in PktIdRange,
             r \in SubAckReasons \cup UnsubAckReasons, ps \in Seq(AckPropertySet) :
          a = Ack(type, id, r, ps)
    BY <1>2
  <2>2. r \in Byte BY ReasonsAreBytes
  <2>3. BrokerBody(a, "full") \in Seq(Byte)
    BY <2>1, <2>2, ReasonLastBytes, PartsOfThree, Zenon DEF ThreeParts
  <2>4. a.type = type BY <2>1 DEF Ack
  <2>5. QED BY <2>3, <2>4 DEF AckTypes
<1>3. CASE \E id \in PktIdRange, r \in PubAckReasons, ps \in Seq(AckPropertySet) :
             a = Ack("puback", id, r, ps)
  <2>1. PICK id \in PktIdRange, r \in PubAckReasons, ps \in Seq(AckPropertySet) :
          a = Ack("puback", id, r, ps)
    BY <1>3
  <2>2. r \in Byte BY ReasonsAreBytes
  <2>3. BrokerBody(a, "full") \in Seq(Byte)
    BY <2>1, <2>2, PubAckBytes, PartsOfThree, Zenon DEF ThreeParts
  <2>4. a.type = "puback" BY <2>1 DEF Ack
  <2>5. QED BY <2>3, <2>4 DEF AckTypes
<1>4. CASE \E r \in DisconnectReasons, ps \in Seq(AckPropertySet) : a = Disconnect(r, ps)
  <2>1. PICK r \in DisconnectReasons, ps \in Seq(AckPropertySet) : a = Disconnect(r, ps)
    BY <1>4
  <2>2. r \in Byte BY ReasonsAreBytes
  <2>3. PICK z \in Seq(Byte) : z = EncodeAckProperties(ps) BY AckPropertyBytes
  <2>4. <<r>> \o z \in Seq(Byte) BY <2>2, AfterId
  <2>5. BrokerBody(a, "full") \in Seq(Byte) BY <2>1, <2>2, <2>3, <2>4, DisconnectBytes
  <2>6. a.type = "disconnect" BY <2>1 DEF Disconnect
  <2>7. QED BY <2>5, <2>6 DEF AckTypes
<1>5. CASE a = PingResp
  <2>1. BrokerBody(a, "full") = <<>> BY <1>5 DEF BrokerBody, PingResp
  <2>2. <<>> \in Seq(Byte) OBVIOUS
  <2>3. QED BY <1>5, <2>1, <2>2
<1>6. QED BY <1>1, <1>2, <1>3, <1>4, <1>5 DEF WritableAcks

LEMMA PingRespBytes ==
  ASSUME BytesAreReal
  PROVE  \E w \in Seq(Nat) : w = BrokerWrites(PingResp, "full") /\ Len(w) = 2 /\ Head(w) = 208
<1>1. 208 \in Byte /\ <<>> \in Seq(Byte) /\ Len(<<>>) = 0 BY RealBytes
<1>2. BrokerBody(PingResp, "full") = <<>> /\ FirstByteOf[PingResp.type] = 208
  BY FirstBytes DEF BrokerBody, PingResp
<1>3. BrokerWrites(PingResp, "full") = Framed(208, <<>>) BY <1>2 DEF BrokerWrites
<1>4. EncodeVbi[0] = <<0>> BY BaseType, EncodeOne
<1>5. Len(EncodeVbi[Len(<<>>)]) = 1
  <2>1. Len(<<0>>) = 1 OBVIOUS
  <2>2. QED BY <1>1, <1>4, <2>1, Zenon
<1>6. IsFrame(Framed(208, <<>>), 208, <<>>, 1)
  <2>1. Len(<<>>) <= MaxVbi BY <1>1, RealBytes
  <2>2. QED BY <1>1, <1>5, <2>1, FramedIsFrame, Zenon
<1>7. QED BY <1>1, <1>3, <1>6 DEF IsFrame

\* While a byte of an acknowledgement is missing, its decoder asks for more
\* (convert_from_mqtt of connack.rs, suback.rs, unsuback.rs, puback.rs,
\* disconnect.rs and pingresp.rs).
THEOREM AckIsWaitedFor ==
  ASSUME BytesAreReal, ack \in WritableAcks, Len(BrokerBody(ack, "full")) <= MaxVbi
  PROVE  NeedsWholeAck
<1>1. PICK w : w = BrokerWrites(ack, "full") OBVIOUS
<1>2. SUFFICES ASSUME NEW j \in 1 .. Len(w) - 1
               PROVE  DecoderFor(SubSeq(w, 1, j)) = Failed("more")
  BY <1>1 DEF NeedsWholeAck
<1>3. CASE ack = PingResp
  <2>1. w \in Seq(Nat) /\ Len(w) = 2 /\ Head(w) = 208 BY <1>1, <1>3, PingRespBytes
  <2>2. j = 1 BY <2>1
  <2>3. PICK p : p = SubSeq(w, 1, j) OBVIOUS
  <2>4. Len(p) = 1 /\ Head(p) = 208 BY <2>1, <2>2, <2>3
  <2>5. Head(p) \div 16 = 13 BY <2>4
  <2>6. DecoderFor(p) = DecodePingResp(p) BY <2>5 DEF DecoderFor
  <2>7. DecodePingResp(p) = Failed("more") BY <2>4 DEF DecodePingResp
  <2>8. QED BY <2>3, <2>6, <2>7
<1>4. CASE ack # PingResp
  <2>1. PICK b \in Seq(Byte) : b = BrokerBody(ack, "full") BY BrokerBodyBytes
  <2>2. PICK type \in AckTypes : type = ack.type BY <1>4, BrokerBodyBytes
  <2>3. PICK h \in Byte : h = FirstByteOf[type] BY ReasonsAreBytes
  <2>4. w = Framed(h, b) BY <1>1, <2>1, <2>2, <2>3 DEF BrokerWrites
  <2>5. j \in 1 .. Len(Framed(h, b)) - 1 BY <2>4
  <2>6. Len(b) <= MaxVbi BY <2>1
  <2>7. PICK k \in Nat : IsPart(SubSeq(Framed(h, b), 1, j), h, b, k)
    BY <2>5, <2>6, FramedPart
  <2>8. IsPart(SubSeq(w, 1, j), FirstByteOf[type], b, k) BY <2>3, <2>4, <2>7
  <2>9. QED BY <2>8, PartIsWaitedFor
<1>5. QED BY <1>3, <1>4

-----------------------------------------------------------------------------
(* What the client makes of it.                                            *)

LEMMA CodeIsRead ==
  ASSUME NEW codes, NEW c \in codes, NEW b \in Seq(Nat), b # <<>>, Head(b) = c
  PROVE  DecodeCode(b, codes) = Parsed(c, 1)
BY DEF DecodeCode

LEMMA CodeFirst ==
  ASSUME NEW codes, NEW c \in codes, c \in Byte, NEW t \in Seq(Byte)
  PROVE  DecodeCode(<<c>> \o t, codes) = Parsed(c, 1) /\ DecodeCode(<<c>>, codes) = Parsed(c, 1)
<1>1. <<c>> \in Seq(Byte) /\ <<c>> # <<>> /\ Head(<<c>>) = c OBVIOUS
<1>2. <<c>> \o t \in Seq(Byte) /\ <<c>> \o t # <<>> /\ Head(<<c>> \o t) = c
  <2>1. PICK d : d = <<c>> \o t OBVIOUS
  <2>2. d \in Seq(Byte) /\ Len(d) = 1 + Len(t) /\ Len(t) \in Nat /\ d[1] = c BY <2>1
  <2>3. d # <<>> /\ Head(d) = c BY <2>2
  <2>4. QED BY <2>1, <2>2, <2>3
<1>3. <<c>> \in Seq(Nat) /\ <<c>> \o t \in Seq(Nat) BY <1>1, <1>2, BytesAreNats
<1>4. QED BY <1>1, <1>2, <1>3, CodeIsRead

\* The body of a, in this form, is bytes, and is read as a is meant.
BodyIsRead(a, form) ==
  LET b == BrokerBody(a, form)
  IN  b \in Seq(Byte) /\ \E l \in 0 .. Len(b) : ReadBody(a.type, b, Len(b)) = Parsed(Meant(a), l)

PacketIsRead(a, form) ==
  LET bytes == BrokerWrites(a, form)
  IN  ParsePkt(bytes) \in {Parsed(Meant(a), k) : k \in 1 .. Len(bytes)}

LEMMA PacketOfBody ==
  ASSUME BytesAreReal, NEW a, a.type \in AckTypes, NEW form, BodyIsRead(a, form),
         Len(BrokerBody(a, form)) <= MaxVbi
  PROVE  PacketIsRead(a, form)
<1>1. PICK b : b = BrokerBody(a, form) OBVIOUS
<1>2. b \in Seq(Byte) /\ Len(b) <= MaxVbi BY <1>1 DEF BodyIsRead
<1>3. PICK l \in 0 .. Len(b) : ReadBody(a.type, b, Len(b)) = Parsed(Meant(a), l)
  BY <1>1 DEF BodyIsRead
<1>4. PICK type \in AckTypes : type = a.type OBVIOUS
<1>5. PICK h \in Byte : h = FirstByteOf[type] BY ReasonsAreBytes
<1>6. PICK w : w = Framed(h, b) OBVIOUS
<1>7. BrokerWrites(a, form) = w BY <1>1, <1>4, <1>5, <1>6 DEF BrokerWrites
<1>8. PICK k : IsFrame(w, h, b, k) BY <1>2, <1>6, FramedIsFrame
<1>9. PICK r : r = Parsed(Meant(a), l) OBVIOUS
<1>10. r.result = "ok" /\ r.value = Meant(a) /\ r.len = l BY <1>9 DEF Parsed
<1>11. DecoderFor(w) = Parsed(Meant(a), 1 + k + l)
  <2>1. IsFrame(w, FirstByteOf[type], b, k) BY <1>5, <1>8
  <2>2. ReadBody(type, b, Len(b)) = r BY <1>3, <1>4, <1>9
  <2>3. DecoderFor(w) = IF r.result # "ok" THEN r ELSE Parsed(r.value, 1 + k + r.len)
    BY <2>1, <2>2, FrameIsRead
  <2>4. QED BY <1>10, <2>3
<1>12. 1 + k + l \in 1 .. Len(w)
  <2>1. Len(w) = 1 + k + Len(b) /\ k \in Nat /\ Len(b) \in Nat BY <1>8 DEF IsFrame
  <2>2. QED BY <2>1
<1>13. ParsePkt(w) = Parsed(Meant(a), 1 + k + l)
  <2>1. PICK d : d = DecoderFor(w) OBVIOUS
  <2>2. d.result = "ok" BY <1>11, <2>1 DEF Parsed
  <2>3. ParsePkt(w) = d BY <2>1, <2>2 DEF ParsePkt
  <2>4. QED BY <1>11, <2>1, <2>3
<1>14. QED BY <1>7, <1>12, <1>13 DEF PacketIsRead

LEMMA ConnackIsRead ==
  ASSUME BytesAreReal, NEW s \in BOOLEAN, NEW r \in ConnackReasons,
         NEW ps \in Seq(AckPropertySet),
         Len(BrokerBody(Connack(s, r, ps), "full")) <= MaxVbi
  PROVE  BodyIsRead(Connack(s, r, ps), "full")
<1>1. PICK b : b = BrokerBody(Connack(s, r, ps), "full") OBVIOUS
<1>2. PICK z \in Seq(Byte) : z = EncodeAckProperties(ps) BY AckPropertyBytes
<1>3. PICK f \in {0, 1} : f = Bit(s, 1) /\ s = (f = 1) BY DEF Bit
<1>4. PICK x \in Seq(Byte), y \in Seq(Byte) : x = <<f>> /\ y = <<r>> /\ Len(x) = 1 /\ Len(y) = 1
  <2>1. f \in Byte /\ r \in Byte BY ReasonsAreBytes
  <2>2. <<f>> \in Seq(Byte) /\ <<r>> \in Seq(Byte) /\ Len(<<f>>) = 1 /\ Len(<<r>>) = 1
    BY <2>1
  <2>3. QED BY <2>2
<1>5. PartsAt(b, x, y, z, 1, 2)
  <2>1. Three(b, x, y, z) BY <1>1, <1>2, <1>3, <1>4, ConnackBytes
  <2>2. 1 = Len(x) /\ 2 = Len(x) + Len(y) BY <1>4
  <2>3. QED BY <2>1, <2>2, PartsOfThreeAt
<1>6. /\ b \in Seq(Byte) /\ Len(b) = 2 + Len(z) /\ Len(z) \in Nat
      /\ y \o z \in Seq(Byte) /\ b = x \o (y \o z)
      /\ From(b, 1) = y \o z /\ From(b, 2) = z
  BY <1>5, Zenon DEF PartsAt
<1>7. DecodeCode(b, {0, 1}) = Parsed(f, 1)
  <2>1. f \in {0, 1} /\ f \in Byte BY ReasonsAreBytes
  <2>2. QED BY <1>4, <1>6, <2>1, CodeFirst, Zenon
<1>8. DecodeCode(From(b, 1), ConnackReasons) = Parsed(r, 1)
  <2>1. r \in ConnackReasons /\ r \in Byte BY ReasonsAreBytes
  <2>2. DecodeCode(y \o z, ConnackReasons) = Parsed(r, 1)
    <3>1. DecodeCode(<<r>> \o z, ConnackReasons) = Parsed(r, 1) BY <2>1, CodeFirst, Zenon
    <3>2. QED BY <1>4, <3>1, Zenon
  <2>3. QED BY <1>6, <2>2, Zenon
<1>9. DecodeAckProperties(From(b, 2)) = Parsed(ps, Len(z))
  <2>1. Len(z) <= MaxVbi BY <1>1, <1>6, RealBytes
  <2>2. QED BY <1>2, <1>6, <2>1, AckPropertiesAlone, RealBytes
<1>10. ConnackBody(b) = Parsed(Connack(s, r, ps), 2 + Len(z))
  <2>1. PICK d : d = DecodeCode(b, {0, 1}) OBVIOUS
  <2>2. d.result = "ok" /\ d.value = f BY <1>7, <2>1 DEF Parsed
  <2>3. PICK e : e = DecodeCode(From(b, 1), ConnackReasons) OBVIOUS
  <2>4. e.result = "ok" /\ e.value = r BY <1>8, <2>3 DEF Parsed
  <2>5. PICK q : q = DecodeAckProperties(From(b, 2)) OBVIOUS
  <2>6. q.result = "ok" /\ q.value = ps /\ q.len = Len(z) BY <1>9, <2>5 DEF Parsed
  <2>7. ConnackBody(b) = Parsed(Connack(d.value = 1, e.value, q.value), 2 + q.len)
    BY <2>1, <2>2, <2>3, <2>4, <2>5, <2>6 DEF ConnackBody, Then
  <2>8. QED BY <1>3, <2>2, <2>4, <2>6, <2>7
<1>11. ReadBody("connack", b, Len(b)) = Parsed(Connack(s, r, ps), Len(b))
  BY <1>6, <1>10 DEF ReadBody
<1>12. Connack(s, r, ps).type = "connack" /\ Meant(Connack(s, r, ps)) = Connack(s, r, ps)
  BY DEF Connack, Meant
<1>13. Len(b) \in 0 .. Len(b) BY <1>6
<1>14. QED BY <1>1, <1>6, <1>11, <1>12, <1>13 DEF BodyIsRead

ReasonLastReads(type, codes) ==
  \A b, l : ReadBody(type, b, l) = ReasonLast(type, codes, b)

LEMMA ReasonLastIsRead ==
  ASSUME BytesAreReal, NEW type \in {"suback", "unsuback"}, NEW codes,
         ReasonLastReads(type, codes),
         NEW id \in PktIdRange, NEW r \in codes, r \in Byte, NEW ps \in Seq(AckPropertySet),
         Len(BrokerBody(Ack(type, id, r, ps), "full")) <= MaxVbi
  PROVE  BodyIsRead(Ack(type, id, r, ps), "full")
<1>1. PICK b : b = BrokerBody(Ack(type, id, r, ps), "full") OBVIOUS
<1>2. PICK y \in Seq(Byte) : y = EncodeAckProperties(ps) BY AckPropertyBytes
<1>3. PICK x \in Seq(Byte) : x = U16Bytes(id) /\ Len(x) = 2 BY IdBytesFacts
<1>4. PICK z \in Seq(Byte) : z = <<r>> /\ Len(z) = 1
  <2>1. <<r>> \in Seq(Byte) /\ Len(<<r>>) = 1 OBVIOUS
  <2>2. QED BY <2>1
<1>5. PartsAt(b, x, y, z, 2, 2 + Len(y))
  <2>1. Three(b, x, y, z) BY <1>1, <1>2, <1>3, <1>4, ReasonLastBytes
  <2>2. 2 = Len(x) /\ 2 + Len(y) = Len(x) + Len(y) BY <1>3
  <2>3. QED BY <2>1, <2>2, PartsOfThreeAt
<1>6. /\ b \in Seq(Byte) /\ Len(b) = 3 + Len(y) /\ Len(y) \in Nat
      /\ y \o z \in Seq(Byte) /\ b = x \o (y \o z)
      /\ From(b, 2) = y \o z /\ From(b, 2 + Len(y)) = z
  <2>1. /\ b \in Seq(Byte) /\ Len(b) = 2 + Len(y) + Len(z)
        /\ y \o z \in Seq(Byte) /\ b = x \o (y \o z)
        /\ From(b, 2) = y \o z /\ From(b, 2 + Len(y)) = z
    BY <1>5, Zenon DEF PartsAt
  <2>2. Len(y) \in Nat OBVIOUS
  <2>3. Len(b) = 3 + Len(y) BY <1>4, <2>1, <2>2
  <2>4. QED BY <2>1, <2>2, <2>3, Zenon
<1>7. DecodePktId(b) = Parsed(id, 2)
  BY <1>3, <1>6, PktIdRoundTrip, Zenon DEF PktIdRange
<1>8. DecodeAckProperties(From(b, 2)) = Parsed(ps, Len(y))
  <2>1. Len(y) <= MaxVbi /\ IdsAreBytes BY <1>1, <1>6, RealBytes
  <2>2. QED BY <1>2, <1>6, <2>1, AckPropertiesRoundTrip, Zenon
<1>9. DecodeCode(From(b, 2 + Len(y)), codes) = Parsed(r, 1)
  <2>1. <<>> \in Seq(Byte) OBVIOUS
  <2>2. QED BY <1>4, <1>6, <2>1, CodeFirst, Zenon
<1>10. ReasonLast(type, codes, b) = Parsed(Ack(type, id, r, ps), 3 + Len(y))
  <2>1. PICK d : d = DecodePktId(b) OBVIOUS
  <2>2. d.result = "ok" /\ d.value = id BY <1>7, <2>1 DEF Parsed
  <2>3. PICK q : q = DecodeAckProperties(From(b, 2)) OBVIOUS
  <2>4. q.result = "ok" /\ q.value = ps /\ q.len = Len(y) BY <1>8, <2>3 DEF Parsed
  <2>5. PICK e : e = DecodeCode(From(b, 2 + q.len), codes) OBVIOUS
  <2>6. e.result = "ok" /\ e.value = r BY <1>9, <2>4, <2>5 DEF Parsed
  <2>7. ReasonLast(type, codes, b) = Parsed(Ack(type, d.value, e.value, q.value), 3 + q.len)
    BY <2>1, <2>2, <2>3, <2>4, <2>5, <2>6 DEF ReasonLast, Then
  <2>8. QED BY <2>2, <2>4, <2>6, <2>7
<1>11. ReadBody(type, b, Len(b)) = Parsed(Ack(type, id, r, ps), Len(b))
  BY <1>6, <1>10 DEF ReasonLastReads
<1>12. Ack(type, id, r, ps).type = type /\ Meant(Ack(type, id, r, ps)) = Ack(type, id, r, ps)
  BY DEF Ack, Meant
<1>13. Len(b) \in 0 .. Len(b) BY <1>6
<1>14. QED BY <1>1, <1>6, <1>11, <1>12, <1>13 DEF BodyIsRead

LEMMA DisconnectIsRead ==
  ASSUME BytesAreReal, NEW r \in DisconnectReasons, NEW ps \in Seq(AckPropertySet),
         Len(BrokerBody(Disconnect(r, ps), "full")) <= MaxVbi
  PROVE  BodyIsRead(Disconnect(r, ps), "full")
<1>1. PICK b : b = BrokerBody(Disconnect(r, ps), "full") OBVIOUS
<1>2. PICK z \in Seq(Byte) : z = EncodeAckProperties(ps) BY AckPropertyBytes
<1>3. r \in Byte BY ReasonsAreBytes
<1>4. PICK x \in Seq(Byte) : x = <<r>> /\ Len(x) = 1
  <2>1. <<r>> \in Seq(Byte) /\ Len(<<r>>) = 1 BY <1>3
  <2>2. QED BY <2>1
<1>5. /\ b = x \o z /\ b \in Seq(Byte) /\ Len(b) = 1 + Len(z) /\ Len(z) \in Nat
      /\ From(b, 1) = z
  <2>1. b = x \o z BY <1>1, <1>2, <1>3, <1>4, DisconnectBytes, Zenon
  <2>2. x \o z \in Seq(Byte) /\ Len(x \o z) = Len(x) + Len(z) /\ From(x \o z, Len(x)) = z
    BY PartsOf
  <2>3. Len(z) \in Nat OBVIOUS
  <2>4. QED BY <1>4, <2>1, <2>2, <2>3, Zenon
<1>6. DecodeCode(b, DisconnectReasons) = Parsed(r, 1)
  BY <1>3, <1>4, <1>5, CodeFirst, Zenon
<1>7. DecodeAckProperties(z) = Parsed(ps, Len(z))
  <2>1. Len(z) <= MaxVbi /\ IdsAreBytes BY <1>1, <1>5, RealBytes
  <2>2. QED BY <1>2, <2>1, AckPropertiesAlone, Zenon
<1>8. PICK c \in Nat : c = Len(b) /\ c # 0 /\ c = 1 + Len(z) BY <1>5
<1>9. PICK d : d = IF c = 0 THEN Parsed(0, 0) ELSE DecodeCode(b, DisconnectReasons) OBVIOUS
<1>10. d.result = "ok" /\ d.value = r /\ d.len = 1 BY <1>6, <1>8, <1>9 DEF Parsed
<1>11. PICK q : q = IF c < 4 THEN Parsed(<<>>, 0) ELSE DecodeAckProperties(From(b, d.len))
  OBVIOUS
<1>12. q.result = "ok" /\ q.value = ps /\ q.len \in 0 .. Len(z)
  <2>1. CASE c < 4
    <3>1. ps = <<>>
      <4>1. SUFFICES ASSUME ps # <<>> PROVE FALSE OBVIOUS
      <4>2. IdsAreBytes BY RealBytes
      <4>3. PICK l \in Seq(Byte) : l = AckBytes(ps) /\ z = ListBytes(l) /\ Len(l) >= 3
        BY <1>2, <4>1, <4>2, AckBytesFacts, AckBytesSplit
      <4>4. Len(z) >= 4 /\ Len(l) \in Nat
        <5>1. /\ Len(EncodeVbi[Len(l)]) \in Nat /\ Len(EncodeVbi[Len(l)]) >= 1
              /\ Len(ListBytes(l)) = Len(EncodeVbi[Len(l)]) + Len(l)
          BY ListBytesFacts
        <5>2. Len(l) \in Nat OBVIOUS
        <5>3. QED BY <4>3, <5>1, <5>2
      <4>5. QED BY <1>5, <1>8, <2>1, <4>4
    <3>2. q = Parsed(<<>>, 0) BY <1>11, <2>1
    <3>3. QED BY <1>5, <3>1, <3>2 DEF Parsed
  <2>2. CASE ~ (c < 4)
    <3>1. q = DecodeAckProperties(From(b, d.len)) BY <1>11, <2>2
    <3>2. q = Parsed(ps, Len(z)) BY <1>5, <1>7, <1>10, <3>1, Zenon
    <3>3. q.result = "ok" /\ q.value = ps /\ q.len = Len(z) BY <3>2 DEF Parsed
    <3>4. QED BY <1>5, <3>3
  <2>3. QED BY <2>1, <2>2
<1>13. DisconnectBody(b, c) = Parsed(Disconnect(r, ps), 1 + q.len)
  <2>1. DisconnectBody(b, c) = Parsed(Disconnect(d.value, q.value), d.len + q.len)
    BY <1>9, <1>10, <1>11, <1>12 DEF DisconnectBody, Then
  <2>2. QED BY <1>10, <1>12, <2>1
<1>14. ReadBody("disconnect", b, Len(b)) = Parsed(Disconnect(r, ps), 1 + q.len)
  BY <1>8, <1>13 DEF ReadBody
<1>15. /\ Disconnect(r, ps).type = "disconnect"
       /\ Meant(Disconnect(r, ps)) = Disconnect(r, ps)
  BY DEF Disconnect, Meant
<1>16. 1 + q.len \in 0 .. Len(b) BY <1>5, <1>12
<1>17. QED BY <1>1, <1>5, <1>14, <1>15, <1>16 DEF BodyIsRead

\* The short forms: without properties, and without a reason.
LEMMA DisconnectShort ==
  ASSUME BytesAreReal, NEW r \in DisconnectReasons, NEW form,
         form = "noprops" \/ (form = "bare" /\ r = 0)
  PROVE  /\ BodyIsRead(Disconnect(r, <<>>), form)
         /\ Len(BrokerBody(Disconnect(r, <<>>), form)) <= 1
<1>1. PICK b : b = BrokerBody(Disconnect(r, <<>>), form) OBVIOUS
<1>2. r \in Byte BY ReasonsAreBytes
<1>3. b = (IF form = "bare" THEN <<>> ELSE <<r>>) \o <<>> BY <1>1 DEF BrokerBody, Disconnect
<1>4. b = IF form = "bare" THEN <<>> ELSE <<r>>
  <2>1. <<>> \o <<>> = <<>> OBVIOUS
  <2>2. <<r>> \o <<>> = <<r>> OBVIOUS
  <2>3. QED BY <1>3, <2>1, <2>2, Zenon
<1>5. b \in Seq(Byte) /\ Len(b) = IF form = "bare" THEN 0 ELSE 1 BY <1>2, <1>4
<1>6. PICK d : d = IF Len(b) = 0 THEN Parsed(0, 0) ELSE DecodeCode(b, DisconnectReasons)
  OBVIOUS
<1>7. d = Parsed(r, Len(b))
  <2>1. CASE form = "bare" BY <1>5, <1>6, <2>1
  <2>2. CASE form # "bare"
    <3>1. <<>> \in Seq(Byte) OBVIOUS
    <3>2. b = <<r>> /\ Len(b) = 1 BY <1>4, <1>5, <2>2
    <3>3. DecodeCode(b, DisconnectReasons) = Parsed(r, 1)
      BY <1>2, <3>1, <3>2, CodeFirst, Zenon
    <3>4. QED BY <1>6, <3>2, <3>3
  <2>3. QED BY <2>1, <2>2
<1>8. d.result = "ok" /\ d.value = r /\ d.len = Len(b) BY <1>7 DEF Parsed
<1>9. PICK q : q = Parsed(<<>>, 0) OBVIOUS
<1>10. q.result = "ok" /\ q.value = <<>> /\ q.len = 0 BY <1>9 DEF Parsed
<1>11. Len(b) \in Nat /\ Len(b) < 4 /\ Len(b) <= 1 BY <1>5
<1>12. DisconnectBody(b, Len(b)) = Parsed(Disconnect(r, <<>>), Len(b))
  <2>1. DisconnectBody(b, Len(b)) = Parsed(Disconnect(d.value, q.value), d.len + q.len)
    BY <1>6, <1>8, <1>9, <1>10, <1>11 DEF DisconnectBody, Then
  <2>2. d.len + q.len = Len(b) BY <1>8, <1>10, <1>11
  <2>3. QED BY <1>8, <1>10, <2>1, <2>2, Zenon
<1>13. ReadBody("disconnect", b, Len(b)) = Parsed(Disconnect(r, <<>>), Len(b))
  BY <1>12 DEF ReadBody
<1>14. /\ Disconnect(r, <<>>).type = "disconnect"
       /\ Meant(Disconnect(r, <<>>)) = Disconnect(r, <<>>)
  BY DEF Disconnect, Meant
<1>15. Len(b) \in 0 .. Len(b) BY <1>11
<1>16. BodyIsRead(Disconnect(r, <<>>), form) BY <1>1, <1>5, <1>13, <1>14, <1>15 DEF BodyIsRead
<1>17. QED BY <1>1, <1>11, <1>16

-----------------------------------------------------------------------------
(* PubAck: its loop skips a byte after each property.                      *)

PubAckLoop ==
  [stops |-> {b \in Seq(Nat) : \/ b = <<>>
                               \/ AckPropertyDecoder[b].result # "ok"
                               \/ Len(b) < AckPropertyDecoder[b].len + 1},
   last  |-> [b \in Seq(Nat) |->
                IF b = <<>> THEN Failed("more")
                ELSE IF AckPropertyDecoder[b].result # "ok" THEN AckPropertyDecoder[b]
                ELSE Parsed(<<AckPropertyDecoder[b].value>>, AckPropertyDecoder[b].len)],
   rest  |-> [b \in Seq(Nat) |-> From(b, AckPropertyDecoder[b].len + 1)],
   value |-> [b \in Seq(Nat) |-> AckPropertyDecoder[b].value],
   len   |-> [b \in Seq(Nat) |-> AckPropertyDecoder[b].len + 1]]

LEMMA PubAckProgresses == Progresses(PubAckLoop)
<1> SUFFICES ASSUME NEW b \in Seq(Nat), b \notin PubAckLoop.stops
             PROVE  /\ PubAckLoop.rest[b] \in Seq(Nat)
                    /\ Len(PubAckLoop.rest[b]) < Len(b)
  BY DEF Progresses
<1>1. PICK d : d = AckPropertyDecoder[b] OBVIOUS
<1>2. b # <<>> /\ d.result = "ok" BY <1>1 DEF PubAckLoop
<1>3. d.len \in Nat BY <1>1, <1>2, AckPropertyTakesBytes DEF TakesBytes
<1>4. PICK k \in Nat : k = d.len + 1 /\ k >= 1 BY <1>3
<1>5. PubAckLoop.rest[b] = From(b, k) BY <1>1, <1>4 DEF PubAckLoop
<1>6. QED BY <1>2, <1>4, <1>5, RestIsShorter

LEMMA PubAckLoopIs == IsLoop(PubAckLoop, PubAckPropertiesIn)
<1>1. PICK g : IsLoop(PubAckLoop, g) BY PubAckProgresses, LoopExists
<1>2. ASSUME NEW f, NEW b \in Seq(Nat)
      PROVE  LoopStep(PubAckLoop, f, b) =
               IF b = <<>> THEN Failed("more")
               ELSE Then(DecodeAckProperty(b), LAMBDA p :
                      IF Len(b) < p.len + 1 THEN Parsed(<<p.value>>, p.len)
                      ELSE Then(f[From(b, p.len + 1)], LAMBDA ps :
                             Parsed(<<p.value>> \o ps.value, p.len + 1 + ps.len)))
  <2>1. PICK d : d = DecodeAckProperty(b) OBVIOUS
  <2>2. AckPropertyDecoder[b] = d BY <2>1 DEF AckPropertyDecoder
  <2>3. /\ b \in PubAckLoop.stops <=> b = <<>> \/ d.result # "ok" \/ Len(b) < d.len + 1
        /\ PubAckLoop.last[b] = IF b = <<>> THEN Failed("more")
                                ELSE IF d.result # "ok" THEN d
                                ELSE Parsed(<<d.value>>, d.len)
        /\ PubAckLoop.rest[b] = From(b, d.len + 1) /\ PubAckLoop.value[b] = d.value
        /\ PubAckLoop.len[b] = d.len + 1
    BY <2>2 DEF PubAckLoop
  <2>4. QED BY <2>1, <2>3 DEF LoopStep, Then
<1>3. QED BY <1>1, <1>2 DEF PubAckPropertiesIn, IsLoop

LEMMA PubAckTurn ==
  ASSUME NEW b \in Seq(Nat), NEW r, r = LoopStep(PubAckLoop, PubAckPropertiesIn, b)
  PROVE  PubAckPropertiesIn[b] = r
BY PubAckLoopIs DEF IsLoop

LEMMA PubAckOne ==
  ASSUME IdsAreBytes, NEW ps \in Seq(AckPropertySet), Len(ps) = 1
  PROVE  PubAckPropertiesIn[AckBytes(ps)] = Parsed(ps, Len(AckBytes(ps)))
<1>1. ps # <<>> /\ Tail(ps) = <<>> /\ <<Head(ps)>> = ps
  <2>1. ps # <<>> /\ Head(ps) = ps[1] /\ ps[1] \in AckPropertySet OBVIOUS
  <2>2. Tail(ps) \in Seq(AckPropertySet) /\ Len(Tail(ps)) = 0 BY <2>1
  <2>3. Tail(ps) = <<>> BY <2>2, EmptySeq
  <2>4. PICK x : x = <<ps[1]>> OBVIOUS
  <2>5. x \in Seq(AckPropertySet) /\ Len(x) = 1 /\ x[1] = ps[1] BY <2>1, <2>4
  <2>6. x = ps BY <2>5, SeqEqual
  <2>7. QED BY <2>1, <2>3, <2>4, <2>6, Zenon
<1>2. PICK p \in AckPropertySet : p = Head(ps) BY <1>1
<1>3. PICK a \in Seq(Byte) : a = EncodeAckProperty(p) /\ Reads(AckPropertyDecoder, p, a)
  <2>1. WrittenAsAck(p, EncodeAckProperty(p)) BY AckPropertyRoundTrip
  <2>2. QED BY <2>1 DEF WrittenAsAck, IsReadBy
<1>4. PICK t \in Seq(Byte) : t = AckBytes(Tail(ps)) /\ Len(t) = 0
  <2>1. Tail(ps) \in Seq(AckPropertySet) BY <1>1
  <2>2. AckBytes(Tail(ps)) = <<>> BY <1>1, <2>1, AckBytesFacts
  <2>3. <<>> \in Seq(Byte) /\ Len(<<>>) = 0 OBVIOUS
  <2>4. QED BY <2>2, <2>3, Zenon
<1>5. PICK l : l = AckBytes(ps) OBVIOUS
<1>6. Joined(l, a, t) BY <1>1, <1>2, <1>3, <1>4, <1>5, AckBytesSplit
<1>7. l \in Seq(Byte) /\ Len(l) = Len(a) /\ Len(a) \in Nat
  <2>1. l \in Seq(Byte) /\ Len(l) = Len(a) + Len(t) BY <1>6, JoinedParts
  <2>2. Len(a) \in Nat OBVIOUS
  <2>3. QED BY <1>4, <2>1, <2>2
<1>8. AckPropertyDecoder[l] = Parsed(p, Len(a)) BY <1>3, <1>6, JoinedReads
<1>9. PICK d : d = AckPropertyDecoder[l] OBVIOUS
<1>10. d.result = "ok" /\ d.value = p /\ d.len = Len(a) BY <1>8, <1>9 DEF Parsed
<1>11. l # <<>>
  <2>1. Len(l) >= 3 BY <1>1, <1>5, AckBytesSplit
  <2>2. QED BY <2>1
<1>12. l \in Seq(Nat) BY <1>7, BytesAreNats
<1>13. l \in PubAckLoop.stops
  <2>1. Len(l) < d.len + 1 BY <1>7, <1>10
  <2>2. QED BY <1>9, <1>12, <2>1 DEF PubAckLoop
<1>14. PubAckLoop.last[l] = Parsed(<<d.value>>, d.len)
  BY <1>9, <1>10, <1>11, <1>12 DEF PubAckLoop
<1>15. PubAckPropertiesIn[l] = PubAckLoop.last[l]
  BY <1>12, <1>13, PubAckTurn DEF LoopStep
<1>16. <<d.value>> = ps BY <1>1, <1>2, <1>10
<1>17. QED BY <1>5, <1>7, <1>10, <1>14, <1>15, <1>16

LEMMA PubAckPropertiesRead ==
  ASSUME NEW l \in Seq(Byte), Len(ListBytes(l)) <= MaxVbi, NEW k, k = Len(ListBytes(l)),
         NEW r, r = PubAckPropertiesIn[l]
  PROVE  DecodePubAckProperties(ListBytes(l)) =
           IF l = <<>> THEN Parsed(PubAckProperties(<<>>), k)
           ELSE IF r.result # "ok" THEN r ELSE Parsed(PubAckProperties(r.value), k)
<1>1. PICK m \in Nat : m = Len(l) OBVIOUS
<1>2. PICK v \in Seq(Byte) : v = EncodeVbi[m] BY <1>1, ListBytesFacts
<1>3. PICK b \in Seq(Byte) : b = v \o l /\ b = ListBytes(l)
  BY <1>1, <1>2, PartsOf DEF ListBytes
<1>4. Len(b) = Len(v) + m /\ From(b, Len(v)) = l /\ Len(v) \in Nat
  <2>1. Len(v \o l) = Len(v) + Len(l) /\ From(v \o l, Len(v)) = l BY PartsOf
  <2>2. Len(v) \in Nat OBVIOUS
  <2>3. QED BY <1>1, <1>3, <2>1, <2>2, Zenon
<1>5. m <= MaxVbi
  <2>1. MaxVbi \in Int BY BaseType DEF MaxVbi
  <2>2. Len(b) <= MaxVbi BY <1>3, Zenon
  <2>3. QED BY <1>1, <1>4, <2>1, <2>2
<1>6. DecodeVbi(b) = Parsed(m, Len(v)) BY <1>2, <1>3, <1>5, VbiRoundTrip, Zenon
<1>7. PICK d : d = DecodeVbi(b) OBVIOUS
<1>8. d.result = "ok" /\ d.value = m /\ d.len = Len(v) BY <1>6, <1>7 DEF Parsed
<1>9. SubSeq(b, d.len + 1, d.len + d.value) = l
  <2>1. d.len + 1 = Len(v) + 1 /\ d.len + d.value = Len(b) BY <1>4, <1>8
  <2>2. QED BY <1>4, <2>1, Zenon DEF From
<1>10. m = 0 <=> l = <<>>
  <2>1. m = 0 => l = <<>> BY <1>1, EmptySeq
  <2>2. l = <<>> => m = 0 BY <1>1
  <2>3. QED BY <2>1, <2>2
<1>11. d.len + d.value = k /\ ~ (Len(b) < d.len + d.value) BY <1>1, <1>3, <1>4, <1>8
<1>12. CASE m = 0
  <2>1. DecodePubAckProperties(b) = Parsed(PubAckProperties(<<>>), d.len + d.value)
    BY <1>7, <1>8, <1>12 DEF DecodePubAckProperties, Then
  <2>2. QED BY <1>3, <1>10, <1>11, <1>12, <2>1
<1>13. CASE m # 0
  <2>1. DecodePubAckProperties(b) =
          IF r.result = "ok" THEN Parsed(PubAckProperties(r.value), d.len + d.value) ELSE r
    <3>1. PICK x : x = PubAckPropertiesIn[SubSeq(b, d.len + 1, d.len + d.value)] OBVIOUS
    <3>2. x = r BY <1>9, <3>1, Zenon
    <3>3. DecodePubAckProperties(b) =
            IF x.result = "ok" THEN Parsed(PubAckProperties(x.value), d.len + d.value) ELSE x
      BY <1>7, <1>8, <1>11, <1>13, <3>1 DEF DecodePubAckProperties, Then
    <3>4. QED BY <3>2, <3>3
  <2>2. QED BY <1>3, <1>10, <1>11, <1>13, <2>1
<1>14. QED BY <1>12, <1>13

\* The body in full, whose properties are read as q.
LEMMA PubAckFull ==
  ASSUME BytesAreReal, NEW id \in PktIdRange, NEW r \in PubAckReasons,
         NEW ps \in Seq(AckPropertySet),
         NEW b, b = BrokerBody(Ack("puback", id, r, ps), "full"),
         NEW q, q = DecodePubAckProperties(EncodeAckProperties(ps))
  PROVE  /\ b \in Seq(Byte) /\ Len(b) = 3 + Len(EncodeAckProperties(ps))
         /\ Len(EncodeAckProperties(ps)) \in Nat
         /\ ReadBody("puback", b, Len(b)) =
              IF q.result # "ok" THEN q ELSE Parsed(Ack("puback", id, r, q.value), 3 + q.len)
<1>1. r \in Byte BY ReasonsAreBytes
<1>2. PICK z \in Seq(Byte) : z = EncodeAckProperties(ps) BY AckPropertyBytes
<1>3. PICK x \in Seq(Byte) : x = U16Bytes(id) /\ Len(x) = 2 BY IdBytesFacts
<1>4. PICK y \in Seq(Byte) : y = <<r>> /\ Len(y) = 1
  <2>1. <<r>> \in Seq(Byte) /\ Len(<<r>>) = 1 BY <1>1
  <2>2. QED BY <2>1
<1>5. PartsAt(b, x, y, z, 2, 3)
  <2>1. Three(b, x, y, z) BY <1>1, <1>2, <1>3, <1>4, PubAckBytes
  <2>2. 2 = Len(x) /\ 3 = Len(x) + Len(y) BY <1>3, <1>4
  <2>3. QED BY <2>1, <2>2, PartsOfThreeAt
<1>6. /\ b \in Seq(Byte) /\ Len(b) = 3 + Len(z) /\ Len(z) \in Nat
      /\ y \o z \in Seq(Byte) /\ b = x \o (y \o z)
      /\ From(b, 2) = y \o z /\ From(b, 3) = z
  BY <1>5, Zenon DEF PartsAt
<1>7. DecodePktId(b) = Parsed(id, 2)
  BY <1>3, <1>6, PktIdRoundTrip, Zenon DEF PktIdRange
<1>8. DecodeCode(From(b, 2), PubAckReasons) = Parsed(r, 1)
  <2>1. DecodeCode(<<r>> \o z, PubAckReasons) = Parsed(r, 1) BY <1>1, CodeFirst, Zenon
  <2>2. QED BY <1>4, <1>6, <2>1, Zenon
<1>9. Len(z) >= 1
  <2>1. IdsAreBytes BY RealBytes
  <2>2. PICK l \in Seq(Byte) : z = ListBytes(l) BY <1>2, <2>1, AckBytesFacts
  <2>3. /\ Len(EncodeVbi[Len(l)]) \in Nat /\ Len(EncodeVbi[Len(l)]) >= 1
        /\ Len(ListBytes(l)) = Len(EncodeVbi[Len(l)]) + Len(l)
    BY ListBytesFacts
  <2>4. Len(l) \in Nat OBVIOUS
  <2>5. QED BY <2>2, <2>3, <2>4
<1>10. PICK c \in Nat : c = Len(b) /\ ~ (c = 2) /\ ~ (c < 4) BY <1>6, <1>9
<1>11. PICK d : d = DecodePktId(b) OBVIOUS
<1>12. d.result = "ok" /\ d.value = id BY <1>7, <1>11 DEF Parsed
<1>13. PICK e : e = IF c = 2 THEN Parsed(0, 0) ELSE DecodeCode(From(b, 2), PubAckReasons)
  OBVIOUS
<1>14. e.result = "ok" /\ e.value = r /\ e.len = 1 BY <1>8, <1>10, <1>13 DEF Parsed
<1>15. PICK p : p = IF c < 4 THEN Parsed(PubAckProperties(<<>>), 0)
                    ELSE DecodePubAckProperties(From(b, 2 + e.len))
  OBVIOUS
<1>16. p = q
  <2>1. 2 + e.len = 3 BY <1>14
  <2>2. p = DecodePubAckProperties(From(b, 2 + e.len)) BY <1>10, <1>15
  <2>3. QED BY <1>2, <1>6, <2>1, <2>2, Zenon
<1>17. PubAckBody(b, c) =
         IF p.result = "ok"
         THEN Parsed(Ack("puback", d.value, e.value, p.value), 2 + e.len + p.len) ELSE p
  BY <1>11, <1>12, <1>13, <1>14, <1>15 DEF PubAckBody, Then
<1>18. 2 + e.len + p.len = 3 + q.len
  <2>1. 2 + e.len = 3 BY <1>14
  <2>2. QED BY <1>16, <2>1, Zenon
<1>19. ReadBody("puback", b, Len(b)) = PubAckBody(b, c) BY <1>10 DEF ReadBody
<1>20. ReadBody("puback", b, Len(b)) =
         IF q.result # "ok" THEN q ELSE Parsed(Ack("puback", id, r, q.value), 3 + q.len)
  BY <1>12, <1>14, <1>16, <1>17, <1>18, <1>19
<1>21. QED BY <1>2, <1>6, <1>20, Zenon

LEMMA PubAckIsRead ==
  ASSUME BytesAreReal, NEW id \in PktIdRange, NEW r \in PubAckReasons,
         NEW ps \in Seq(AckPropertySet), Len(ps) <= 1,
         Len(BrokerBody(Ack("puback", id, r, ps), "full")) <= MaxVbi
  PROVE  BodyIsRead(Ack("puback", id, r, ps), "full")
<1>1. PICK b : b = BrokerBody(Ack("puback", id, r, ps), "full") OBVIOUS
<1>2. PICK q : q = DecodePubAckProperties(EncodeAckProperties(ps)) OBVIOUS
<1>3. PICK z : z = EncodeAckProperties(ps) OBVIOUS
<1>4. /\ b \in Seq(Byte) /\ Len(b) = 3 + Len(z) /\ Len(z) \in Nat
      /\ ReadBody("puback", b, Len(b)) =
           IF q.result # "ok" THEN q ELSE Parsed(Ack("puback", id, r, q.value), 3 + q.len)
  BY <1>1, <1>2, <1>3, PubAckFull
<1>5. q = Parsed(PubAckProperties(ps), Len(z))
  <2>1. IdsAreBytes /\ Len(z) <= MaxVbi BY <1>1, <1>4, RealBytes
  <2>2. PICK l \in Seq(Byte) : /\ l = AckBytes(ps) /\ z = ListBytes(l)
                               /\ ps = <<>> => l = <<>>
    BY <1>3, <2>1, AckBytesFacts
  <2>3. PICK x : x = PubAckPropertiesIn[l] OBVIOUS
  <2>4. q = IF l = <<>> THEN Parsed(PubAckProperties(<<>>), Len(z))
            ELSE IF x.result # "ok" THEN x ELSE Parsed(PubAckProperties(x.value), Len(z))
    <3>1. Len(ListBytes(l)) <= MaxVbi /\ Len(z) = Len(ListBytes(l)) BY <2>1, <2>2
    <3>2. q = DecodePubAckProperties(ListBytes(l)) BY <1>2, <1>3, <2>2
    <3>3. QED BY <2>3, <3>1, <3>2, PubAckPropertiesRead
  <2>5. CASE ps = <<>> BY <2>2, <2>4, <2>5
  <2>6. CASE ps # <<>>
    <3>1. Len(ps) = 1
      <4>1. PICK k \in Nat : k = Len(ps) OBVIOUS
      <4>2. k # 0 BY <2>6, <4>1, EmptySeq
      <4>3. k <= 1 BY <4>1, Zenon
      <4>4. k = 1 BY <4>2, <4>3
      <4>5. QED BY <4>1, <4>4
    <3>2. x = Parsed(ps, Len(l)) BY <2>1, <2>2, <2>3, <3>1, PubAckOne
    <3>3. x.result = "ok" /\ x.value = ps BY <3>2 DEF Parsed
    <3>4. l # <<>>
      <4>1. Len(l) >= 3 BY <2>1, <2>2, <2>6, AckBytesSplit
      <4>2. QED BY <4>1
    <3>5. QED BY <2>4, <3>3, <3>4
  <2>7. QED BY <2>5, <2>6
<1>6. q.result = "ok" /\ q.value = PubAckProperties(ps) /\ q.len = Len(z)
  BY <1>5 DEF Parsed
<1>7. ReadBody("puback", b, Len(b)) = Parsed(Ack("puback", id, r, PubAckProperties(ps)), Len(b))
  BY <1>4, <1>6
<1>8. /\ Ack("puback", id, r, ps).type = "puback"
      /\ Meant(Ack("puback", id, r, ps)) = Ack("puback", id, r, PubAckProperties(ps))
  BY DEF Ack, Meant
<1>9. Len(b) \in 0 .. Len(b) BY <1>4
<1>10. QED BY <1>1, <1>4, <1>7, <1>8, <1>9 DEF BodyIsRead

\* The short forms: without properties, and without a reason.
LEMMA PubAckShort ==
  ASSUME BytesAreReal, NEW id \in PktIdRange, NEW r \in PubAckReasons, NEW form,
         form = "noprops" \/ (form = "bare" /\ r = 0)
  PROVE  /\ BodyIsRead(Ack("puback", id, r, <<>>), form)
         /\ Len(BrokerBody(Ack("puback", id, r, <<>>), form)) <= 3
         /\ BrokerBody(Ack("puback", id, r, <<>>), form)
              = U16Bytes(id) \o (IF form = "bare" THEN <<>> ELSE <<r>>)
         /\ LET b == BrokerBody(Ack("puback", id, r, <<>>), form)
            IN  ReadBody("puback", b, Len(b))
                  = Parsed(Ack("puback", id, r, PubAckProperties(<<>>)), Len(b))
<1>1. PICK b : b = BrokerBody(Ack("puback", id, r, <<>>), form) OBVIOUS
<1>2. PICK x \in Seq(Byte) : x = U16Bytes(id) /\ Len(x) = 2 BY IdBytesFacts
<1>3. r \in Byte BY ReasonsAreBytes
<1>4. PICK y \in Seq(Byte) : y = IF form = "bare" THEN <<>> ELSE <<r>>
  <2>1. <<>> \in Seq(Byte) /\ <<r>> \in Seq(Byte) BY <1>3
  <2>2. QED BY <2>1
<1>5. Len(y) = IF form = "bare" THEN 0 ELSE 1 BY <1>4
<1>6. b = x \o y
  <2>1. b = (x \o y) \o <<>> BY <1>1, <1>2, <1>4 DEF BrokerBody, Ack
  <2>2. x \o y \in Seq(Byte) BY PartsOf
  <2>3. \A s \in Seq(Byte) : s \o <<>> = s OBVIOUS
  <2>4. QED BY <2>1, <2>2, <2>3, Zenon
<1>7. b \in Seq(Byte) /\ Len(b) = 2 + Len(y) /\ From(b, 2) = y
  <2>1. x \o y \in Seq(Byte) /\ Len(x \o y) = Len(x) + Len(y) /\ From(x \o y, Len(x)) = y
    BY PartsOf
  <2>2. QED BY <1>2, <1>6, <2>1, Zenon
<1>8. DecodePktId(b) = Parsed(id, 2)
  BY <1>2, <1>6, PktIdRoundTrip, Zenon DEF PktIdRange
<1>9. PICK c \in Nat : c = Len(b) /\ c < 4 /\ c <= 3 /\ (c = 2 <=> form = "bare")
  BY <1>5, <1>7
<1>10. PICK d : d = DecodePktId(b) OBVIOUS
<1>11. d.result = "ok" /\ d.value = id BY <1>8, <1>10 DEF Parsed
<1>12. PICK e : e = IF c = 2 THEN Parsed(0, 0) ELSE DecodeCode(From(b, 2), PubAckReasons)
  OBVIOUS
<1>13. e = Parsed(r, Len(y))
  <2>1. CASE form = "bare" BY <1>5, <1>9, <1>12, <2>1
  <2>2. CASE form # "bare"
    <3>1. <<>> \in Seq(Byte) OBVIOUS
    <3>2. DecodeCode(<<r>>, PubAckReasons) = Parsed(r, 1) BY <1>3, <3>1, CodeFirst, Zenon
    <3>3. y = <<r>> /\ Len(y) = 1 /\ c # 2 BY <1>4, <1>5, <1>9, <2>2
    <3>4. DecodeCode(From(b, 2), PubAckReasons) = Parsed(r, 1) BY <1>7, <3>2, <3>3, Zenon
    <3>5. QED BY <1>12, <3>3, <3>4
  <2>3. QED BY <2>1, <2>2
<1>14. e.result = "ok" /\ e.value = r /\ e.len = Len(y) BY <1>13 DEF Parsed
<1>15. PICK p : p = Parsed(PubAckProperties(<<>>), 0) OBVIOUS
<1>16. p.result = "ok" /\ p.value = PubAckProperties(<<>>) /\ p.len = 0
  BY <1>15 DEF Parsed
<1>17. PubAckBody(b, c) = Parsed(Ack("puback", d.value, e.value, p.value), 2 + e.len + p.len)
  BY <1>9, <1>10, <1>11, <1>12, <1>14, <1>15, <1>16 DEF PubAckBody, Then
<1>18. 2 + e.len + p.len = Len(b) BY <1>7, <1>9, <1>14, <1>16
<1>19. ReadBody("puback", b, Len(b)) =
         Parsed(Ack("puback", id, r, PubAckProperties(<<>>)), Len(b))
  BY <1>9, <1>11, <1>14, <1>16, <1>17, <1>18 DEF ReadBody
<1>20. /\ Ack("puback", id, r, <<>>).type = "puback"
       /\ Meant(Ack("puback", id, r, <<>>)) = Ack("puback", id, r, PubAckProperties(<<>>))
  BY DEF Ack, Meant
<1>21. Len(b) \in 0 .. Len(b) BY <1>9
<1>22. BodyIsRead(Ack("puback", id, r, <<>>), form)
  BY <1>1, <1>7, <1>19, <1>20, <1>21 DEF BodyIsRead
<1>23. b = U16Bytes(id) \o (IF form = "bare" THEN <<>> ELSE <<r>>)
  BY <1>2, <1>4, <1>6, Zenon
<1>24. Len(b) <= 3 BY <1>9
<1>25. QED BY <1>1, <1>19, <1>22, <1>23, <1>24, Zenon

LEMMA PingRespIsRead ==
  ASSUME BytesAreReal
  PROVE  PacketIsRead(PingResp, "full")
<1>1. PICK w \in Seq(Nat) : w = BrokerWrites(PingResp, "full") /\ Len(w) = 2 /\ Head(w) = 208
  BY PingRespBytes
<1>2. Head(w) \div 16 = 13 BY <1>1
<1>3. DecoderFor(w) = DecodePingResp(w) BY <1>2 DEF DecoderFor
<1>4. PICK d : d = DecoderFor(w) OBVIOUS
<1>5. d = Parsed(PingResp, 2) BY <1>1, <1>3, <1>4 DEF DecodePingResp
<1>6. d.result = "ok" BY <1>5 DEF Parsed
<1>7. ParsePkt(w) = Parsed(PingResp, 2) BY <1>4, <1>5, <1>6 DEF ParsePkt
<1>8. Meant(PingResp) = PingResp BY DEF Meant, PingResp
<1>9. 2 \in 1 .. Len(w) BY <1>1
<1>10. QED BY <1>1, <1>7, <1>8, <1>9 DEF PacketIsRead

\* The forms in which a packet may be written, by its kind.
LEMMA FormsOfConnack ==
  ASSUME NEW s, NEW r, NEW ps
  PROVE  Forms(Connack(s, r, ps)) = {"full"} /\ Connack(s, r, ps).type = "connack"
BY DEF Forms, Connack

LEMMA FormsOfReasonLast ==
  ASSUME NEW type \in {"suback", "unsuback"}, NEW id, NEW r, NEW ps
  PROVE  Forms(Ack(type, id, r, ps)) = {"full"} /\ Ack(type, id, r, ps).type = type
BY DEF Forms, Ack

LEMMA FormsOfPubAck ==
  ASSUME NEW id, NEW r, NEW ps, NEW form \in Forms(Ack("puback", id, r, ps))
  PROVE  \/ form = "full"
         \/ ps = <<>> /\ (form = "noprops" \/ (form = "bare" /\ r = 0))
BY DEF Forms, Ack

LEMMA FormsOfDisconnect ==
  ASSUME NEW r, NEW ps, NEW form \in Forms(Disconnect(r, ps))
  PROVE  \/ form = "full"
         \/ ps = <<>> /\ (form = "noprops" \/ (form = "bare" /\ r = 0))
BY DEF Forms, Disconnect

LEMMA FormsOfPingResp == Forms(PingResp) = {"full"}
BY DEF Forms, PingResp

\* Connack, SubAck, UnsubAck, PubAck and Disconnect, in full and in the short
\* forms, mean to the client what they meant to the broker, and so does
\* PingResp (convert_from_mqtt of each and parse_pkt).
THEOREM AckIsReadBack ==
  ASSUME BytesAreReal, ack \in WritableAcks, Len(BrokerBody(ack, "full")) <= MaxVbi
  PROVE  AckRoundTrip
<1> SUFFICES ASSUME ~ TooManyProperties(ack), NEW form \in Forms(ack)
             PROVE  PacketIsRead(ack, form)
  BY Zenon DEF AckRoundTrip, PacketIsRead
<1>1. MaxVbi = 268435455 BY RealBytes
<1>2. CASE \E s \in BOOLEAN, r \in ConnackReasons, ps \in Seq(AckPropertySet) :
             ack = Connack(s, r, ps)
  <2>1. PICK s \in BOOLEAN, r \in ConnackReasons, ps \in Seq(AckPropertySet) :
          ack = Connack(s, r, ps)
    BY <1>2
  <2>2. form = "full" /\ ack.type \in AckTypes BY <2>1, FormsOfConnack DEF AckTypes
  <2>3. BodyIsRead(ack, "full") BY <2>1, ConnackIsRead, Zenon
  <2>4. QED BY <2>2, <2>3, PacketOfBody, Zenon
<1>3. ASSUME NEW type \in {"suback", "unsuback"}, NEW codes, codes \subseteq Byte,
             ReasonLastReads(type, codes),
             NEW id \in PktIdRange, NEW r \in codes, NEW ps \in Seq(AckPropertySet),
             ack = Ack(type, id, r, ps)
      PROVE  PacketIsRead(ack, form)
  <2>1. form = "full" /\ ack.type \in AckTypes BY <1>3, FormsOfReasonLast DEF AckTypes
  <2>2. r \in Byte BY <1>3
  <2>3. BodyIsRead(ack, "full") BY <1>3, <2>2, ReasonLastIsRead, Zenon
  <2>4. QED BY <2>1, <2>3, PacketOfBody, Zenon
<1>4. CASE \E id \in PktIdRange, r \in SubAckReasons, ps \in Seq(AckPropertySet) :
             ack = Ack("suback", id, r, ps)
  <2>1. PICK id \in PktIdRange, r \in SubAckReasons, ps \in Seq(AckPropertySet) :
          ack = Ack("suback", id, r, ps)
    BY <1>4
  <2>2. ReasonLastReads("suback", SubAckReasons) BY DEF ReasonLastReads, ReadBody
  <2>3. SubAckReasons \subseteq Byte BY ReasonsAreBytes
  <2>4. QED BY <1>3, <2>1, <2>2, <2>3
<1>5. CASE \E id \in PktIdRange, r \in UnsubAckReasons, ps \in Seq(AckPropertySet) :
             ack = Ack("unsuback", id, r, ps)
  <2>1. PICK id \in PktIdRange, r \in UnsubAckReasons, ps \in Seq(AckPropertySet) :
          ack = Ack("unsuback", id, r, ps)
    BY <1>5
  <2>2. ReasonLastReads("unsuback", UnsubAckReasons) BY DEF ReasonLastReads, ReadBody
  <2>3. UnsubAckReasons \subseteq Byte BY ReasonsAreBytes
  <2>4. QED BY <1>3, <2>1, <2>2, <2>3
<1>6. CASE \E id \in PktIdRange, r \in PubAckReasons, ps \in Seq(AckPropertySet) :
             ack = Ack("puback", id, r, ps)
  <2>1. PICK id \in PktIdRange, r \in PubAckReasons, ps \in Seq(AckPropertySet) :
          ack = Ack("puback", id, r, ps)
    BY <1>6
  <2>2. ack.type = "puback" /\ ack.properties = ps BY <2>1 DEF Ack
  <2>3. Len(ps) <= 1
    <3>1. PICK k \in Nat : k = Len(ps) OBVIOUS
    <3>2. ~ (k > 1) BY <2>2, <3>1, Zenon DEF TooManyProperties
    <3>3. k <= 1 BY <3>2
    <3>4. QED BY <3>1, <3>3
  <2>4. ack.type \in AckTypes BY <2>2 DEF AckTypes
  <2>5. CASE form = "full"
    <3>1. BodyIsRead(ack, "full") BY <2>1, <2>3, PubAckIsRead, Zenon
    <3>2. QED BY <2>4, <2>5, <3>1, PacketOfBody, Zenon
  <2>6. CASE ps = <<>> /\ (form = "noprops" \/ (form = "bare" /\ r = 0))
    <3>1. BodyIsRead(ack, form) /\ Len(BrokerBody(ack, form)) <= 3
      BY <2>1, <2>6, PubAckShort, Zenon
    <3>2. PICK k : k = Len(BrokerBody(ack, form)) OBVIOUS
    <3>3. k \in Nat /\ k <= 3 BY <3>1, <3>2 DEF BodyIsRead
    <3>4. k <= MaxVbi BY <1>1, <3>3
    <3>5. QED BY <2>4, <3>1, <3>2, <3>4, PacketOfBody, Zenon
  <2>7. QED BY <2>1, <2>5, <2>6, FormsOfPubAck, Zenon
<1>7. CASE \E r \in DisconnectReasons, ps \in Seq(AckPropertySet) : ack = Disconnect(r, ps)
  <2>1. PICK r \in DisconnectReasons, ps \in Seq(AckPropertySet) : ack = Disconnect(r, ps)
    BY <1>7
  <2>2. ack.type \in AckTypes BY <2>1 DEF Disconnect, AckTypes
  <2>3. CASE form = "full"
    <3>1. BodyIsRead(ack, "full") BY <2>1, DisconnectIsRead, Zenon
    <3>2. QED BY <2>2, <2>3, <3>1, PacketOfBody, Zenon
  <2>4. CASE ps = <<>> /\ (form = "noprops" \/ (form = "bare" /\ r = 0))
    <3>1. BodyIsRead(ack, form) /\ Len(BrokerBody(ack, form)) <= 1
      BY <2>1, <2>4, DisconnectShort, Zenon
    <3>2. PICK k : k = Len(BrokerBody(ack, form)) OBVIOUS
    <3>3. k \in Nat /\ k <= 1 BY <3>1, <3>2 DEF BodyIsRead
    <3>4. k <= MaxVbi BY <1>1, <3>3
    <3>5. QED BY <2>2, <3>1, <3>2, <3>4, PacketOfBody, Zenon
  <2>5. QED BY <2>1, <2>3, <2>4, FormsOfDisconnect, Zenon
<1>8. CASE ack = PingResp
  <2>1. form = "full" BY <1>8, FormsOfPingResp
  <2>2. QED BY <1>8, <2>1, PingRespIsRead, Zenon
<1>9. QED BY <1>2, <1>4, <1>5, <1>6, <1>7, <1>8 DEF WritableAcks

-----------------------------------------------------------------------------
(* What the client sends besides publishes.                                *)

\* What is left of b from offset i on is t.
At(b, i, t) ==
  /\ b \in Seq(Byte) /\ i \in Nat /\ t \in Seq(Byte)
  /\ Len(b) = i + Len(t) /\ From(b, i) = t

LEMMA AtStart ==
  ASSUME NEW b \in Seq(Byte)
  PROVE  At(b, 0, b)
<1>1. Len(b) \in Nat OBVIOUS
<1>2. SubSeq(b, 1, Len(b)) = b OBVIOUS
<1>3. QED BY <1>1, <1>2 DEF At, From

LEMMA AtElement ==
  ASSUME NEW b, NEW i, NEW t, At(b, i, t), NEW j \in 1 .. Len(t)
  PROVE  b[i + j] = t[j]
<1>1. b \in Seq(Byte) /\ i \in Nat /\ t = SubSeq(b, i + 1, Len(b)) /\ Len(b) = i + Len(t)
      /\ Len(t) \in Nat
  BY DEF At, From
<1>2. QED BY <1>1

LEMMA AtNext ==
  ASSUME NEW b, NEW i, NEW t, At(b, i, t), NEW x, NEW y, Joined(t, x, y),
         NEW j, j = i + Len(x)
  PROVE  At(b, j, y)
<1>1. /\ b \in Seq(Byte) /\ i \in Nat /\ t \in Seq(Byte) /\ Len(b) = i + Len(t)
      /\ x \in Seq(Byte) /\ y \in Seq(Byte) /\ t = x \o y
  BY Zenon DEF At, Joined
<1>2. Len(x) \in Nat /\ Len(y) \in Nat BY <1>1
<1>3. Len(t) = Len(x) + Len(y) /\ \A k \in 1 .. Len(y) : t[Len(x) + k] = y[k]
  BY <1>1, ConcatElements
<1>4. j \in Nat /\ Len(b) = j + Len(y) BY <1>1, <1>2, <1>3
<1>5. PICK z : z = From(b, j) OBVIOUS
<1>6. /\ z \in Seq(Byte) /\ Len(z) = Len(y)
      /\ \A k \in 1 .. Len(y) : z[k] = b[j + k]
  BY <1>1, <1>2, <1>4, <1>5 DEF From
<1>7. ASSUME NEW k \in 1 .. Len(z) PROVE z[k] = y[k]
  <2>1. PICK h : h = Len(x) + k OBVIOUS
  <2>2. h \in 1 .. Len(t) /\ i + h = j + k BY <1>1, <1>2, <1>3, <1>6, <2>1
  <2>3. b[i + h] = t[h] BY <2>2, AtElement
  <2>4. t[h] = y[k] BY <1>3, <1>6, <2>1
  <2>5. z[k] = b[j + k] BY <1>6
  <2>6. QED BY <2>2, <2>3, <2>4, <2>5, Zenon
<1>8. z = y BY <1>1, <1>6, <1>7, SeqEqual
<1>9. QED BY <1>1, <1>4, <1>5, <1>8, Zenon DEF At

LEMMA TwoBytes ==
  ASSUME NEW x \in Byte, NEW y \in Byte
  PROVE  <<x>> \o <<y>> = <<x, y>> /\ <<x, y>> \o <<>> = <<x, y>>
<1>1. <<x>> \o <<y>> = <<x, y>>
  <2>1. PICK a \in Seq(Byte), c \in Seq(Byte) :
          a = <<x>> /\ c = <<y>> /\ Len(a) = 1 /\ Len(c) = 1 /\ a[1] = x /\ c[1] = y
    <3>1. <<x>> \in Seq(Byte) /\ Len(<<x>>) = 1 /\ <<x>>[1] = x OBVIOUS
    <3>2. <<y>> \in Seq(Byte) /\ Len(<<y>>) = 1 /\ <<y>>[1] = y OBVIOUS
    <3>3. QED BY <3>1, <3>2
  <2>2. PICK d \in Seq(Byte) : d = a \o c BY PartsOf
  <2>3. Len(d) = 2 /\ d[1] = x /\ d[2] = y
    <3>1. /\ Len(d) = Len(a) + Len(c) /\ \A i \in 1 .. Len(a) : d[i] = a[i]
          /\ \A i \in 1 .. Len(c) : d[Len(a) + i] = c[i]
      BY <2>2, ConcatElements
    <3>2. Len(a) = 1 /\ Len(c) = 1 /\ a[1] = x /\ c[1] = y BY <2>1, Zenon
    <3>3. QED BY <3>1, <3>2
  <2>4. PICK e \in Seq(Byte) : e = <<x, y>> /\ Len(e) = 2 /\ e[1] = x /\ e[2] = y
    <3>1. <<x, y>> \in Seq(Byte) /\ Len(<<x, y>>) = 2 OBVIOUS
    <3>2. <<x, y>>[1] = x /\ <<x, y>>[2] = y OBVIOUS
    <3>3. QED BY <3>1, <3>2
  <2>5. \A i \in 1 .. Len(d) : d[i] = e[i]
    <3>1. \A i \in 1 .. Len(d) : i = 1 \/ i = 2 BY <2>3
    <3>2. QED BY <2>3, <2>4, <3>1
  <2>6. d = e BY <2>3, <2>4, <2>5, SeqEqual
  <2>7. QED BY <2>1, <2>2, <2>4, <2>6, Zenon
<1>2. <<x, y>> \in Seq(Byte) OBVIOUS
<1>3. \A s \in Seq(Byte) : s \o <<>> = s OBVIOUS
<1>4. QED BY <1>1, <1>2, <1>3, Zenon

LEMMA Join ==
  ASSUME NEW x \in Seq(Byte), NEW y \in Seq(Byte)
  PROVE  \E t \in Seq(Byte) : t = x \o y /\ Joined(t, x, y) /\ Len(t) = Len(x) + Len(y)
BY PartsOf, Zenon DEF Joined

\* Four and five parts, from the left and from the right.
RegroupsFour(p, q, u, v) == ((p \o q) \o u) \o v = p \o (q \o (u \o v))
RegroupsFive(p, q, u, v, w) ==
  (((p \o q) \o u) \o v) \o w = p \o (q \o (u \o (v \o w)))

LEMMA RegroupFour ==
  ASSUME NEW p \in Seq(Byte), NEW q \in Seq(Byte), NEW u \in Seq(Byte), NEW v \in Seq(Byte)
  PROVE  RegroupsFour(p, q, u, v)
<1>1. PICK x \in Seq(Byte) : x = p \o q BY PartsOf
<1>2. PICK y \in Seq(Byte) : y = u \o v BY PartsOf
<1>3. Regroups(x, u, v) /\ Regroups(p, q, y) BY Regroup, Zenon
<1>4. (x \o u) \o v = x \o y BY <1>2, <1>3, Zenon DEF Regroups
<1>5. x \o y = p \o (q \o y) BY <1>1, <1>3, Zenon DEF Regroups
<1>6. (x \o u) \o v = p \o (q \o y) BY <1>4, <1>5, Zenon
<1>7. QED BY <1>1, <1>2, <1>6, Zenon DEF RegroupsFour

LEMMA RegroupFive ==
  ASSUME NEW p \in Seq(Byte), NEW q \in Seq(Byte), NEW u \in Seq(Byte), NEW v \in Seq(Byte),
         NEW w \in Seq(Byte)
  PROVE  RegroupsFive(p, q, u, v, w)
<1>1. PICK x \in Seq(Byte) : x = p \o q BY PartsOf
<1>2. PICK z \in Seq(Byte) : z = u \o (v \o w)
  <2>1. v \o w \in Seq(Byte) BY PartsOf
  <2>2. u \o (v \o w) \in Seq(Byte) BY <2>1, PartsOf
  <2>3. QED BY <2>2
<1>3. ((x \o u) \o v) \o w = x \o z
  <2>1. RegroupsFour(x, u, v, w) BY RegroupFour, Zenon
  <2>2. QED BY <1>2, <2>1, Zenon DEF RegroupsFour
<1>4. Regroups(p, q, z) BY Regroup, Zenon
<1>5. x \o z = p \o (q \o z) BY <1>1, <1>4, Zenon DEF Regroups
<1>6. ((x \o u) \o v) \o w = p \o (q \o z) BY <1>3, <1>5, Zenon
<1>7. QED BY <1>1, <1>2, <1>6, Zenon DEF RegroupsFive

\* A request is read as its body is.
LEMMA RequestOfBody ==
  ASSUME NEW w, NEW h, NEW b, NEW k, IsFrame(w, h, b, k), NEW p,
         \/ h = 16 /\ ReadConnect(b) = Parsed(p, Len(b))
         \/ h = 130 /\ ReadSubscribe(b) = Parsed(p, Len(b))
         \/ h = 162 /\ ReadUnsubscribe(b) = Parsed(p, Len(b))
  PROVE  ReadRequest(w) = Parsed(p, Len(b))
<1>1. Head(w) = h /\ DecodeVbi(Tail(w)) = Parsed(Len(b), k) /\ From(w, 1 + k) = b
  BY Zenon DEF IsFrame
<1>2. PICK d : d = DecodeVbi(Tail(w)) OBVIOUS
<1>3. d.len = k /\ d.value = Len(b) BY <1>1, <1>2 DEF Parsed
<1>4. From(w, 1 + d.len) = b BY <1>1, <1>3, Zenon
<1>5. PICK f : f = Parsed(p, Len(b)) OBVIOUS
<1>6. f.len = Len(b) BY <1>5 DEF Parsed
<1>7. PICK g : g = CASE Head(w) = 16 -> ReadConnect(b)
                    [] Head(w) = 130 -> ReadSubscribe(b)
                    [] Head(w) = 162 -> ReadUnsubscribe(b)
                    [] Head(w) = 192 -> Parsed(PingReq, 0)
                    [] OTHER -> Failed("error")
  OBVIOUS
<1>8. g = f
  <2>1. CASE h = 16 /\ ReadConnect(b) = Parsed(p, Len(b)) BY <1>1, <1>5, <1>7, <2>1
  <2>2. CASE h = 130 /\ ReadSubscribe(b) = Parsed(p, Len(b)) BY <1>1, <1>5, <1>7, <2>2
  <2>3. CASE h = 162 /\ ReadUnsubscribe(b) = Parsed(p, Len(b)) BY <1>1, <1>5, <1>7, <2>3
  <2>4. QED BY <2>1, <2>2, <2>3
<1>9. ReadRequest(w) = IF d.value = Len(b) /\ g.len = Len(b) THEN g ELSE Failed("error")
  <2>1. PICK c : c = From(w, 1 + d.len) OBVIOUS
  <2>2. c = b BY <1>4, <2>1, Zenon
  <2>3. g = CASE Head(w) = 16 -> ReadConnect(c)
              [] Head(w) = 130 -> ReadSubscribe(c)
              [] Head(w) = 162 -> ReadUnsubscribe(c)
              [] Head(w) = 192 -> Parsed(PingReq, 0)
              [] OTHER -> Failed("error")
    BY <1>7, <2>2
  <2>4. ReadRequest(w) = IF d.value = Len(c) /\ g.len = Len(c) THEN g ELSE Failed("error")
    BY <1>2, <2>1, <2>3 DEF ReadRequest
  <2>5. QED BY <2>2, <2>4
<1>10. QED BY <1>3, <1>5, <1>6, <1>8, <1>9

\* A list of no properties.
LEMMA NoProperties ==
  ASSUME BytesAreReal
  PROVE  /\ EncodeVbi[0] = <<0>> /\ <<0>> \in Seq(Byte) /\ Len(<<0>>) = 1
         /\ \A t \in Seq(Byte) : DecodeProperties(<<0>> \o t) = Parsed(<<>>, 1)
<1>1. EncodeVbi[0] = <<0>> BY BaseType, EncodeOne
<1>2. IdsAreBytes /\ 0 \in Byte /\ 1 <= MaxVbi BY RealBytes
<1>3. <<0>> \in Seq(Byte) /\ Len(<<0>>) = 1 BY <1>2
<1>4. PICK ps : ps = <<>> OBVIOUS
<1>5. ps \in Seq(PublishProperties) BY <1>4
<1>6. EncodeProperties(ps) = <<0>>
  <2>1. [i \in DOMAIN ps |-> EncodeProperty(ps[i])] = <<>> BY <1>4
  <2>2. EncodeProperties(ps) = EncodeVbi[Len(FlattenSeq(<<>>))] \o FlattenSeq(<<>>)
    BY <2>1, Zenon DEF EncodeProperties
  <2>3. Len(<<>>) = 0 OBVIOUS
  <2>4. EncodeProperties(ps) = <<0>> \o <<>> BY <1>1, <2>2, <2>3, FlattenEmpty, Zenon
  <2>5. <<0>> \o <<>> = <<0>> OBVIOUS
  <2>6. QED BY <2>4, <2>5, Zenon
<1>7. ASSUME NEW t \in Seq(Byte) PROVE DecodeProperties(<<0>> \o t) = Parsed(<<>>, 1)
  <2>1. Len(EncodeProperties(ps)) <= MaxVbi BY <1>2, <1>3, <1>6, Zenon
  <2>2. DecodeProperties(EncodeProperties(ps) \o t) = Parsed(ps, Len(EncodeProperties(ps)))
    BY <1>2, <1>5, <2>1, PropertiesRoundTrip, Zenon
  <2>3. QED BY <1>3, <1>4, <1>6, <2>2, Zenon
<1>8. QED BY <1>1, <1>3, <1>7

\* The body of a request.
RequestBody(p) ==
  CASE p.type = "connect" ->
         EncodeBytes(ProtocolName) \o <<5, 2>> \o U16Bytes(p.keep_alive) \o <<0>>
           \o EncodeBytes(p.client_id)
    [] p.type = "subscribe" ->
         U16Bytes(p.pktid) \o <<0>> \o EncodeBytes(p.topic) \o <<SubscribeOptions(p)>>
    [] p.type = "unsubscribe" ->
         U16Bytes(p.pktid) \o <<0>>
           \o FlattenSeq([i \in DOMAIN p.topics |-> EncodeBytes(p.topics[i])])
    [] OTHER -> <<>>

\* What a client can ask for.
WritableRequests ==
  {Connect(s, i) : s \in Texts, i \in 0 .. U16Size - 1}
  \cup {Subscribe(s, id, q) : s \in Texts, id \in PktIdRange, q \in 0 .. 2}
  \cup {Unsubscribe(ss, id) : ss \in Seq(Texts), id \in PktIdRange}
  \cup {PingReq}

LEMMA TextBytes ==
  ASSUME NEW s \in Texts
  PROVE  /\ EncodeBytes(s) \in Seq(Byte) /\ Len(EncodeBytes(s)) = Len(s) + 2 /\ Len(s) \in Nat
         /\ DecodeString(EncodeBytes(s)) = Parsed(s, Len(EncodeBytes(s)))
         /\ \A t \in Seq(Byte) :
              DecodeString(EncodeBytes(s) \o t) = Parsed(s, Len(EncodeBytes(s)))
<1>1. Short(s) /\ Text(s) BY DEF Texts, Vecs, Short, Text
<1>2. PICK a \in Seq(Byte) : a = EncodeBytes(s) /\ Len(a) = Len(s) + 2 /\ Len(s) \in Nat
  BY <1>1, StringBytes
<1>3. \A t \in Seq(Byte) : DecodeString(a \o t) = Parsed(s, Len(a))
  BY <1>1, <1>2, StringRoundTrip, Zenon
<1>4. a \o <<>> = a /\ <<>> \in Seq(Byte) OBVIOUS
<1>5. DecodeString(a) = Parsed(s, Len(a)) BY <1>3, <1>4, Zenon
<1>6. QED BY <1>2, <1>3, <1>5, Zenon

LEMMA ProtocolIsText ==
  ASSUME BytesAreReal
  PROVE  ProtocolName \in Texts /\ Len(ProtocolName) = 4
<1>1. Byte = 0 .. 255 /\ U16Size = 65536 /\ Base = 128 BY RealBytes DEF BytesAreReal
<1>2. ProtocolName \in Seq(Byte) /\ Len(ProtocolName) = 4 /\ 4 < U16Size
  BY <1>1 DEF ProtocolName
<1>3. Utf8(ProtocolName) BY <1>1 DEF Utf8, ProtocolName
<1>4. PICK s \in Seq(Byte) : s = ProtocolName /\ Len(s) < U16Size BY <1>2, Zenon
<1>5. s \in Vecs BY <1>4 DEF Vecs
<1>6. s \in Texts BY <1>3, <1>4, <1>5, Zenon DEF Texts
<1>7. QED BY <1>2, <1>4, <1>6, Zenon

LEMMA ConnectIsRead ==
  ASSUME BytesAreReal, NEW s \in Texts, NEW c \in 0 .. U16Size - 1
  PROVE  /\ RequestBody(Connect(s, c)) \in Seq(Byte)
         /\ ReadConnect(RequestBody(Connect(s, c)))
              = Parsed(Connect(s, c), Len(RequestBody(Connect(s, c))))
<1>1. PICK a \in Seq(Byte) : a = EncodeBytes(ProtocolName) /\ Len(a) = 6
  <2>1. ProtocolName \in Texts /\ Len(ProtocolName) = 4 BY ProtocolIsText
  <2>2. PICK a \in Seq(Byte) : a = EncodeBytes(ProtocolName) /\ Len(a) = Len(ProtocolName) + 2
    BY <2>1, TextBytes, Zenon
  <2>3. 4 + 2 = 6 OBVIOUS
  <2>4. Len(a) = 6 BY <2>1, <2>2, <2>3, Zenon
  <2>5. QED BY <2>2, <2>4
<1>2. PICK v \in Seq(Byte) : v = <<5, 2>> /\ Len(v) = 2
  <2>1. 5 \in Byte /\ 2 \in Byte BY RealBytes
  <2>2. <<5, 2>> \in Seq(Byte) /\ Len(<<5, 2>>) = 2 BY <2>1
  <2>3. QED BY <2>2
<1>3. c \in Nat /\ c < U16Size BY ByteFacts
<1>4. PICK u \in Seq(Byte) : u = U16Bytes(c) /\ Len(u) = 2
  <2>1. <<>> \in Seq(Byte) OBVIOUS
  <2>2. QED BY <1>3, <2>1, U16RoundTrip
<1>5. PICK o \in Seq(Byte) : o = <<0>> /\ Len(o) = 1 BY NoProperties
<1>6. PICK e \in Seq(Byte) : e = EncodeBytes(s) BY TextBytes
<1>7. PICK z \in Seq(Byte) : z = o \o e /\ Joined(z, o, e) /\ Len(z) = Len(o) + Len(e)
  BY Join
<1>8. PICK y \in Seq(Byte) : y = u \o z /\ Joined(y, u, z) /\ Len(y) = Len(u) + Len(z)
  BY Join
<1>9. PICK x \in Seq(Byte) : x = v \o y /\ Joined(x, v, y) /\ Len(x) = Len(v) + Len(y)
  BY Join
<1>10. PICK b \in Seq(Byte) : b = a \o x /\ Joined(b, a, x) /\ Len(b) = Len(a) + Len(x)
  BY Join
<1>11. RequestBody(Connect(s, c)) = b
  <2>1. /\ Connect(s, c).type = "connect" /\ Connect(s, c).keep_alive = c
        /\ Connect(s, c).client_id = s
    BY DEF Connect
  <2>2. RequestBody(Connect(s, c)) =
          (((EncodeBytes(ProtocolName) \o <<5, 2>>) \o U16Bytes(c)) \o <<0>>) \o EncodeBytes(s)
    BY <2>1 DEF RequestBody
  <2>3. RequestBody(Connect(s, c)) = (((a \o v) \o u) \o o) \o e
    BY <1>1, <1>2, <1>4, <1>5, <1>6, <2>2, Zenon
  <2>4. RegroupsFive(a, v, u, o, e) BY RegroupFive, Zenon
  <2>5. (((a \o v) \o u) \o o) \o e = a \o (v \o (u \o (o \o e)))
    BY <2>4, Zenon DEF RegroupsFive
  <2>6. QED BY <1>7, <1>8, <1>9, <1>10, <2>3, <2>5, Zenon
<1>12. At(b, 6, x)
  <2>1. At(b, 0, b) BY AtStart
  <2>2. 6 = 0 + Len(a) BY <1>1
  <2>3. QED BY <1>10, <2>1, <2>2, AtNext, Zenon
<1>13. At(b, 8, y)
  <2>1. 8 = 6 + Len(v) BY <1>2
  <2>2. QED BY <1>9, <1>12, <2>1, AtNext, Zenon
<1>14. At(b, 10, z)
  <2>1. 10 = 8 + Len(u) BY <1>4
  <2>2. QED BY <1>8, <1>13, <2>1, AtNext, Zenon
<1>15. At(b, 11, e)
  <2>1. 11 = 10 + Len(o) BY <1>5
  <2>2. QED BY <1>7, <1>14, <2>1, AtNext, Zenon
<1>16. /\ From(b, 8) = y /\ From(b, 10) = z /\ From(b, 11) = e /\ Len(b) = 11 + Len(e)
       /\ Len(e) \in Nat
  <2>1. Len(e) \in Nat OBVIOUS
  <2>2. QED BY <1>13, <1>14, <1>15, <2>1, Zenon DEF At
<1>17. PICK d : d = DecodeString(b) OBVIOUS
<1>18. d.result = "ok" /\ d.value = ProtocolName /\ d.len = 6
  <2>1. d = Parsed(ProtocolName, 6)
    <3>1. \A t \in Seq(Byte) : DecodeString(a \o t) = Parsed(ProtocolName, Len(a))
      BY <1>1, ProtocolIsText, TextBytes, Zenon
    <3>2. QED BY <1>1, <1>10, <1>17, <3>1, Zenon
  <2>2. QED BY <2>1 DEF Parsed
<1>19. PICK f : f = DecodeProperties(From(b, d.len + 4)) OBVIOUS
<1>20. f.result = "ok" /\ f.len = 1
  <2>1. d.len + 4 = 10 BY <1>18
  <2>2. DecodeProperties(z) = Parsed(<<>>, 1) BY <1>5, <1>7, NoProperties, Zenon
  <2>3. f = Parsed(<<>>, 1) BY <1>16, <1>19, <2>1, <2>2, Zenon
  <2>4. QED BY <2>3 DEF Parsed
<1>21. PICK g : g = DecodeString(From(b, d.len + 4 + f.len)) OBVIOUS
<1>22. g.result = "ok" /\ g.value = s /\ g.len = Len(e)
  <2>1. d.len + 4 + f.len = 11 BY <1>18, <1>20
  <2>2. DecodeString(e) = Parsed(s, Len(e)) BY <1>6, TextBytes, Zenon
  <2>3. g = Parsed(s, Len(e)) BY <1>16, <1>21, <2>1, <2>2, Zenon
  <2>4. QED BY <2>3 DEF Parsed
<1>23. b[d.len + 1] = 5
  <2>1. x[1] = 5
    <3>1. Len(y) \in Nat /\ \A k \in 1 .. Len(v) : (v \o y)[k] = v[k] BY ConcatElements
    <3>2. 1 \in 1 .. Len(v) /\ v[1] = 5 BY <1>2
    <3>3. QED BY <1>9, <3>1, <3>2
  <2>2. 1 \in 1 .. Len(x)
    <3>1. Len(y) \in Nat OBVIOUS
    <3>2. QED BY <1>2, <1>9, <3>1
  <2>3. b[6 + 1] = x[1] BY <1>12, <2>2, AtElement
  <2>4. d.len + 1 = 6 + 1 BY <1>18
  <2>5. QED BY <2>1, <2>3, <2>4, Zenon
<1>24. FirstU16(From(b, d.len + 2)) = c
  <2>1. d.len + 2 = 8 BY <1>18
  <2>2. FirstU16(y) = c BY <1>3, <1>4, <1>8, U16RoundTrip, Zenon
  <2>3. QED BY <1>16, <2>1, <2>2, Zenon
<1>25. ReadConnect(b) =
         Parsed(Connect(g.value, FirstU16(From(b, d.len + 2))), d.len + 4 + f.len + g.len)
  BY <1>17, <1>18, <1>19, <1>20, <1>21, <1>22, <1>23 DEF ReadConnect, Then
<1>26. d.len + 4 + f.len + g.len = Len(b) BY <1>16, <1>18, <1>20, <1>22
<1>27. ReadConnect(b) = Parsed(Connect(s, c), Len(b)) BY <1>22, <1>24, <1>25, <1>26, Zenon
<1>28. QED BY <1>11, <1>27, Zenon

LEMMA SubscribeIsRead ==
  ASSUME BytesAreReal, NEW s \in Texts, NEW id \in PktIdRange, NEW qos \in 0 .. 2
  PROVE  /\ RequestBody(Subscribe(s, id, qos)) \in Seq(Byte)
         /\ ReadSubscribe(RequestBody(Subscribe(s, id, qos)))
              = Parsed(Subscribe(s, id, qos), Len(RequestBody(Subscribe(s, id, qos))))
<1>1. PICK u \in Seq(Byte) : u = U16Bytes(id) /\ Len(u) = 2 BY IdBytesFacts
<1>2. PICK o \in Seq(Byte) : o = <<0>> /\ Len(o) = 1 BY NoProperties
<1>3. PICK e \in Seq(Byte) : e = EncodeBytes(s) BY TextBytes
<1>4. PICK v \in Seq(Byte) : v = <<qos>> /\ Len(v) = 1 /\ v[1] = qos
  <2>1. qos \in Byte
    <3>1. Byte = 0 .. 255 BY RealBytes
    <3>2. QED BY <3>1
  <2>2. <<qos>> \in Seq(Byte) /\ Len(<<qos>>) = 1 /\ <<qos>>[1] = qos BY <2>1
  <2>3. QED BY <2>2
<1>5. PICK z \in Seq(Byte) : z = e \o v /\ Joined(z, e, v) /\ Len(z) = Len(e) + Len(v)
  BY Join
<1>6. PICK y \in Seq(Byte) : y = o \o z /\ Joined(y, o, z) /\ Len(y) = Len(o) + Len(z)
  BY Join
<1>7. PICK b \in Seq(Byte) : b = u \o y /\ Joined(b, u, y) /\ Len(b) = Len(u) + Len(y)
  BY Join
<1>8. RequestBody(Subscribe(s, id, qos)) = b
  <2>1. /\ Subscribe(s, id, qos).type = "subscribe" /\ Subscribe(s, id, qos).pktid = id
        /\ Subscribe(s, id, qos).topic = s
    BY DEF Subscribe
  <2>2. SubscribeOptions(Subscribe(s, id, qos)) = qos
    BY DEF Subscribe, SubscribeOptions, Bit
  <2>3. RequestBody(Subscribe(s, id, qos)) =
          ((U16Bytes(id) \o <<0>>) \o EncodeBytes(s)) \o <<qos>>
    BY <2>1, <2>2 DEF RequestBody
  <2>4. RequestBody(Subscribe(s, id, qos)) = ((u \o o) \o e) \o v
    BY <1>1, <1>2, <1>3, <1>4, <2>3, Zenon
  <2>5. RegroupsFour(u, o, e, v) BY RegroupFour, Zenon
  <2>6. ((u \o o) \o e) \o v = u \o (o \o (e \o v)) BY <2>5, Zenon DEF RegroupsFour
  <2>7. QED BY <1>5, <1>6, <1>7, <2>4, <2>6, Zenon
<1>9. At(b, 2, y)
  <2>1. At(b, 0, b) BY AtStart
  <2>2. 2 = 0 + Len(u) BY <1>1
  <2>3. QED BY <1>7, <2>1, <2>2, AtNext, Zenon
<1>10. At(b, 3, z)
  <2>1. 3 = 2 + Len(o) BY <1>2
  <2>2. QED BY <1>6, <1>9, <2>1, AtNext, Zenon
<1>11. PICK k \in Nat : k = Len(e) OBVIOUS
<1>12. At(b, 3 + k, v) BY <1>5, <1>10, <1>11, AtNext, Zenon
<1>13. From(b, 2) = y /\ From(b, 3) = z /\ Len(b) = 3 + k + 1
  BY <1>4, <1>9, <1>10, <1>12, Zenon DEF At
<1>14. PICK d : d = DecodePktId(b) OBVIOUS
<1>15. d.result = "ok" /\ d.value = id
  <2>1. d = Parsed(id, 2) BY <1>1, <1>7, <1>14, PktIdRoundTrip, Zenon DEF PktIdRange
  <2>2. QED BY <2>1 DEF Parsed
<1>16. PICK f : f = DecodeProperties(From(b, 2)) OBVIOUS
<1>17. f.result = "ok" /\ f.len = 1
  <2>1. DecodeProperties(y) = Parsed(<<>>, 1) BY <1>2, <1>6, NoProperties, Zenon
  <2>2. f = Parsed(<<>>, 1) BY <1>13, <1>16, <2>1, Zenon
  <2>3. QED BY <2>2 DEF Parsed
<1>18. PICK g : g = DecodeString(From(b, 2 + f.len)) OBVIOUS
<1>19. g.result = "ok" /\ g.value = s /\ g.len = k
  <2>1. 2 + f.len = 3 BY <1>17
  <2>2. DecodeString(z) = Parsed(s, k) BY <1>3, <1>5, <1>11, TextBytes, Zenon
  <2>3. g = Parsed(s, k) BY <1>13, <1>18, <2>1, <2>2, Zenon
  <2>4. QED BY <2>3 DEF Parsed
<1>20. b[3 + f.len + g.len] % 4 = qos
  <2>1. 1 \in 1 .. Len(v) BY <1>4
  <2>2. b[(3 + k) + 1] = v[1] BY <1>12, <2>1, AtElement
  <2>3. 3 + f.len + g.len = (3 + k) + 1 BY <1>11, <1>17, <1>19
  <2>4. b[3 + f.len + g.len] = qos BY <1>4, <2>2, <2>3, Zenon
  <2>5. qos % 4 = qos
    <3>1. qos = 0 \/ qos = 1 \/ qos = 2 OBVIOUS
    <3>2. 0 % 4 = 0 /\ 1 % 4 = 1 /\ 2 % 4 = 2 OBVIOUS
    <3>3. QED BY <3>1, <3>2
  <2>6. QED BY <2>4, <2>5, Zenon
<1>21. ReadSubscribe(b) =
         Parsed(Subscribe(g.value, d.value, b[3 + f.len + g.len] % 4), 3 + f.len + g.len)
  BY <1>14, <1>15, <1>16, <1>17, <1>18, <1>19 DEF ReadSubscribe, Then
<1>22. 3 + f.len + g.len = Len(b) BY <1>11, <1>13, <1>17, <1>19
<1>23. ReadSubscribe(b) = Parsed(Subscribe(s, id, qos), Len(b))
  BY <1>15, <1>19, <1>20, <1>21, <1>22, Zenon
<1>24. QED BY <1>8, <1>23, Zenon

StringDecoder == [b \in Seq(Nat) |-> DecodeString(b)]

LEMMA StringTakesBytes == TakesBytes(StringDecoder)
<1> SUFFICES ASSUME NEW b \in Seq(Nat), b # <<>>, StringDecoder[b].result = "ok"
             PROVE  StringDecoder[b].len \in Nat /\ StringDecoder[b].len >= 1
  BY DEF TakesBytes
<1>1. PICK d : d = DecodeString(b) OBVIOUS
<1>2. d = StringDecoder[b] /\ d.result = "ok" BY <1>1 DEF StringDecoder
<1>3. d.len \in Nat BY <1>1, <1>2, StringLen
<1>4. PICK s : s = SubSeq(b, 3, FirstU16(b) + 2) OBVIOUS
<1>5. d = IF Utf8(s) THEN Parsed(s, Len(s) + 2) ELSE Failed("error")
  <2>1. ~ (Len(b) < 2) /\ ~ (Len(b) >= 2 /\ Len(b) < FirstU16(b) + 2)
    BY <1>1, <1>2 DEF DecodeString, Failed
  <2>2. QED BY <1>1, <1>4, <2>1 DEF DecodeString
<1>6. d.len = Len(s) + 2 BY <1>2, <1>5 DEF Parsed, Failed
<1>7. FirstU16(b) \in Nat
  <2>1. Len(b) \in Nat /\ Len(b) >= 2 BY <1>1, <1>2 DEF DecodeString, Failed
  <2>2. b[1] \in Nat /\ b[2] \in Nat BY <2>1
  <2>3. b[1] * ByteSize \in Nat BY <2>2, ByteFacts
  <2>4. QED BY <2>2, <2>3 DEF FirstU16
<1>8. Len(s) \in Nat
  <2>1. PICK c \in Nat : c = FirstU16(b) BY <1>7
  <2>2. s = SubSeq(b, 3, c + 2) BY <1>4, <2>1
  <2>3. Len(s) = IF 3 <= c + 2 THEN c + 2 - 3 + 1 ELSE 0 BY <2>1, <2>2
  <2>4. QED BY <2>1, <2>3
<1>9. QED BY <1>2, <1>3, <1>6, <1>8

LEMMA TopicsLoop == IsList(StringDecoder, Topics)
<1>1. PICK g : IsList(StringDecoder, g) BY ListExists, StringTakesBytes
<1>2. ASSUME NEW f, NEW b \in Seq(Nat)
      PROVE  ListStep(StringDecoder, f, b) =
               IF b = <<>> THEN Parsed(<<>>, 0)
               ELSE Then(DecodeString(b), LAMBDA d :
                      Then(f[From(b, d.len)], LAMBDA ps :
                        Parsed(<<d.value>> \o ps.value, d.len + ps.len)))
  BY DEF ListStep, Then, StringDecoder
<1>3. QED BY <1>1, <1>2 DEF Topics, IsList

TopicBytes(ss) == FlattenSeq([i \in DOMAIN ss |-> EncodeBytes(ss[i])])

LEMMA TopicsRoundTrip ==
  ASSUME NEW ss \in Seq(Texts)
  PROVE  TopicBytes(ss) \in Seq(Byte) /\ Topics[TopicBytes(ss)] = Parsed(ss, Len(TopicBytes(ss)))
<1>1. PICK e : e = [i \in DOMAIN ss |-> EncodeBytes(ss[i])] OBVIOUS
<1>2. PICK k \in Nat : k = Len(ss) /\ DOMAIN ss = 1 .. k OBVIOUS
<1>3. e = [i \in 1 .. k |-> EncodeBytes(ss[i])] BY <1>1, <1>2
<1>4. ASSUME NEW i \in 1 .. k
      PROVE  e[i] \in Seq(Byte) /\ e[i] # <<>> /\ Reads(StringDecoder, ss[i], e[i])
  <2>1. PICK s \in Texts : s = ss[i] BY <1>2
  <2>2. PICK a \in Seq(Byte) : /\ a = EncodeBytes(s) /\ Len(a) = Len(s) + 2 /\ Len(s) \in Nat
                               /\ \A t \in Seq(Byte) : DecodeString(a \o t) = Parsed(s, Len(a))
    BY TextBytes
  <2>3. e[i] = a BY <1>3, <2>1, <2>2
  <2>4. a # <<>>
    <3>1. Len(a) >= 1 BY <2>2
    <3>2. QED BY <3>1
  <2>5. ASSUME NEW t \in Seq(Byte) PROVE StringDecoder[a \o t] = Parsed(s, Len(a))
    <3>1. PICK c \in Seq(Byte) : c = a \o t BY PartsOf
    <3>2. c \in Seq(Nat) BY BytesAreNats
    <3>3. StringDecoder[c] = DecodeString(c) BY <3>2 DEF StringDecoder
    <3>4. QED BY <2>2, <3>1, <3>3, Zenon
  <2>6. QED BY <2>1, <2>3, <2>4, <2>5 DEF Reads
<1>5. e \in Seq(Seq(Byte)) /\ Len(e) = k
  <2>1. \A i \in 1 .. k : EncodeBytes(ss[i]) \in Seq(Byte) BY <1>3, <1>4
  <2>2. e \in [1 .. k -> Seq(Byte)] BY <1>3, <2>1
  <2>3. QED BY <2>2
<1>6. Encodes(StringDecoder, Texts, ss, e) BY <1>2, <1>4, <1>5 DEF Encodes
<1>7. PICK l \in Seq(Byte) : l = FlattenSeq(e) BY <1>5, FlattenType
<1>8. Topics[l] = Parsed(ss, Len(l)) BY <1>6, <1>7, TopicsLoop, ListRoundTrip
<1>9. TopicBytes(ss) = l BY <1>1, <1>7, Zenon DEF TopicBytes
<1>10. QED BY <1>8, <1>9, Zenon

LEMMA UnsubscribeIsRead ==
  ASSUME BytesAreReal, NEW ss \in Seq(Texts), NEW id \in PktIdRange
  PROVE  /\ RequestBody(Unsubscribe(ss, id)) \in Seq(Byte)
         /\ ReadUnsubscribe(RequestBody(Unsubscribe(ss, id)))
              = Parsed(Unsubscribe(ss, id), Len(RequestBody(Unsubscribe(ss, id))))
<1>1. PICK u \in Seq(Byte) : u = U16Bytes(id) /\ Len(u) = 2 BY IdBytesFacts
<1>2. PICK o \in Seq(Byte) : o = <<0>> /\ Len(o) = 1 BY NoProperties
<1>3. PICK l \in Seq(Byte) : l = TopicBytes(ss) /\ Topics[l] = Parsed(ss, Len(l))
  BY TopicsRoundTrip
<1>4. PICK y \in Seq(Byte) : y = o \o l /\ Joined(y, o, l) /\ Len(y) = Len(o) + Len(l)
  BY Join
<1>5. PICK b \in Seq(Byte) : b = u \o y /\ Joined(b, u, y) /\ Len(b) = Len(u) + Len(y)
  BY Join
<1>6. RequestBody(Unsubscribe(ss, id)) = b
  <2>1. /\ Unsubscribe(ss, id).type = "unsubscribe" /\ Unsubscribe(ss, id).pktid = id
        /\ Unsubscribe(ss, id).topics = ss
    BY DEF Unsubscribe
  <2>2. RequestBody(Unsubscribe(ss, id)) = (U16Bytes(id) \o <<0>>) \o TopicBytes(ss)
    BY <2>1 DEF RequestBody, TopicBytes
  <2>3. RequestBody(Unsubscribe(ss, id)) = (u \o o) \o l
    BY <1>1, <1>2, <1>3, <2>2, Zenon
  <2>4. Regroups(u, o, l) BY Regroup, Zenon
  <2>5. (u \o o) \o l = u \o (o \o l) BY <2>4, Zenon DEF Regroups
  <2>6. QED BY <1>4, <1>5, <2>3, <2>5, Zenon
<1>7. At(b, 2, y)
  <2>1. At(b, 0, b) BY AtStart
  <2>2. 2 = 0 + Len(u) BY <1>1
  <2>3. QED BY <1>5, <2>1, <2>2, AtNext, Zenon
<1>8. At(b, 3, l)
  <2>1. 3 = 2 + Len(o) BY <1>2
  <2>2. QED BY <1>4, <1>7, <2>1, AtNext, Zenon
<1>9. From(b, 2) = y /\ From(b, 3) = l /\ Len(b) = 3 + Len(l)
  BY <1>7, <1>8, Zenon DEF At
<1>10. PICK d : d = DecodePktId(b) OBVIOUS
<1>11. d.result = "ok" /\ d.value = id
  <2>1. d = Parsed(id, 2) BY <1>1, <1>5, <1>10, PktIdRoundTrip, Zenon DEF PktIdRange
  <2>2. QED BY <2>1 DEF Parsed
<1>12. PICK f : f = DecodeProperties(From(b, 2)) OBVIOUS
<1>13. f.result = "ok" /\ f.len = 1
  <2>1. DecodeProperties(y) = Parsed(<<>>, 1) BY <1>2, <1>4, NoProperties, Zenon
  <2>2. f = Parsed(<<>>, 1) BY <1>9, <1>12, <2>1, Zenon
  <2>3. QED BY <2>2 DEF Parsed
<1>14. PICK g : g = Topics[From(b, 2 + f.len)] OBVIOUS
<1>15. g.result = "ok" /\ g.value = ss /\ g.len = Len(l)
  <2>1. 2 + f.len = 3 BY <1>13
  <2>2. g = Parsed(ss, Len(l)) BY <1>3, <1>9, <1>14, <2>1, Zenon
  <2>3. QED BY <2>2 DEF Parsed
<1>16. ReadUnsubscribe(b) = Parsed(Unsubscribe(g.value, d.value), 2 + f.len + g.len)
  BY <1>10, <1>11, <1>12, <1>13, <1>14, <1>15 DEF ReadUnsubscribe, Then
<1>17. 2 + f.len + g.len = Len(b)
  <2>1. 2 + f.len = 3 BY <1>13
  <2>2. QED BY <1>9, <1>15, <2>1, Zenon
<1>18. ReadUnsubscribe(b) = Parsed(Unsubscribe(ss, id), Len(b))
  BY <1>11, <1>15, <1>16, <1>17, Zenon
<1>19. QED BY <1>6, <1>18, Zenon

\* The PubAck of the client is a short form of what a broker writes.
LEMMA NewPubAckIsRead ==
  ASSUME BytesAreReal, NEW id \in PktIdRange
  PROVE  ParsePkt(EncodePubAck(NewPubAck(id))) = Parsed(NewPubAck(id), 5)
<1>1. PICK b : b = BrokerBody(Ack("puback", id, 0, <<>>), "noprops") OBVIOUS
<1>2. PICK p : p = NewPubAck(id) OBVIOUS
<1>3. p = Ack("puback", id, 0, PubAckProperties(<<>>)) BY <1>2 DEF NewPubAck
<1>4. PICK u \in Seq(Byte) : u = U16Bytes(id) /\ Len(u) = 2 BY IdBytesFacts
<1>5. PICK o \in Seq(Byte) : o = <<0>> /\ Len(o) = 1 BY NoProperties
<1>6. 0 \in PubAckReasons BY DEF PubAckReasons
<1>7. b = u \o o /\ ReadBody("puback", b, Len(b)) = Parsed(p, Len(b))
  BY <1>1, <1>3, <1>4, <1>5, <1>6, PubAckShort
<1>8. b \in Seq(Byte) /\ Len(b) = 3
  <2>1. b \in Seq(Byte) /\ Len(b) = Len(u) + Len(o) BY <1>7, PartsOf
  <2>2. QED BY <1>4, <1>5, <2>1
<1>9. EncodeVbi[3] = <<3>> /\ 3 <= MaxVbi
  <2>1. 3 < Base BY DEF BytesAreReal
  <2>2. EncodeVbi[3] = <<3>> BY <2>1, EncodeOne
  <2>3. 3 <= MaxVbi BY RealBytes
  <2>4. QED BY <2>2, <2>3
<1>10. 64 \in Byte
  <2>1. Byte = 0 .. 255 BY RealBytes
  <2>2. QED BY <2>1
<1>11. PICK w : w = Framed(64, b) OBVIOUS
<1>12. EncodePubAck(p) = w
  <2>1. p.pktid = id /\ p.reason = 0 BY <1>3 DEF Ack
  <2>2. PICK h \in Seq(Byte) : h = <<64, 3>> /\ h = <<64>> \o <<3>>
    <3>1. 64 \in Byte /\ 3 \in Byte
      <4>1. Byte = 0 .. 255 BY RealBytes
      <4>2. QED BY <4>1
    <3>2. <<64, 3>> \in Seq(Byte) BY <3>1
    <3>3. QED BY <3>1, <3>2, TwoBytes
  <2>3. EncodePubAck(p) = (h \o u) \o o
    <3>1. 4 * 16 = 64 OBVIOUS
    <3>2. EncodePubAck(p) = (<<64, 3>> \o U16Bytes(id)) \o <<0>>
      BY <2>1, <3>1, Zenon DEF EncodePubAck
    <3>3. QED BY <1>4, <1>5, <2>2, <3>2, Zenon
  <2>4. Regroups(h, u, o) BY Regroup, Zenon
  <2>5. w = h \o b BY <1>8, <1>9, <1>11, <2>2, Zenon DEF Framed
  <2>6. QED BY <1>7, <2>3, <2>4, <2>5, Zenon DEF Regroups
<1>13. IsFrame(w, FirstByteOf["puback"], b, 1)
  <2>1. Len(EncodeVbi[Len(b)]) = 1
    <3>1. Len(<<3>>) = 1 OBVIOUS
    <3>2. QED BY <1>8, <1>9, <3>1, Zenon
  <2>2. IsFrame(w, 64, b, 1) BY <1>8, <1>9, <1>10, <1>11, <2>1, FramedIsFrame, Zenon
  <2>3. QED BY <2>2, FirstBytes, Zenon
<1>14. PICK r, k : r = Parsed(p, 3) /\ k = 1 OBVIOUS
<1>15. r.result = "ok" /\ r.value = p /\ r.len = 3 BY <1>14 DEF Parsed
<1>16. DecoderFor(w) = Parsed(p, 5)
  <2>1. ReadBody("puback", b, Len(b)) = r BY <1>7, <1>8, <1>14, Zenon
  <2>2. "puback" \in AckTypes BY DEF AckTypes
  <2>3. IsFrame(w, FirstByteOf["puback"], b, k) BY <1>13, <1>14, Zenon
  <2>4. DecoderFor(w) = IF r.result # "ok" THEN r ELSE Parsed(r.value, 1 + k + r.len)
    BY <2>1, <2>2, <2>3, FrameIsRead
  <2>5. 1 + k + r.len = 5 BY <1>14, <1>15
  <2>6. QED BY <1>15, <2>4, <2>5
<1>17. PICK d : d = DecoderFor(w) OBVIOUS
<1>18. d.result = "ok" BY <1>16, <1>17 DEF Parsed
<1>19. ParsePkt(w) = d BY <1>17, <1>18 DEF ParsePkt
<1>20. QED BY <1>2, <1>12, <1>16, <1>17, <1>19, Zenon

\* So is its Disconnect.
LEMMA NewDisconnectIsRead ==
  ASSUME BytesAreReal
  PROVE  ParsePkt(EncodeDisconnect(Disconnect(0, <<>>))).value = Disconnect(0, <<>>)
<1>1. PICK p : p = Disconnect(0, <<>>) OBVIOUS
<1>2. p.type = "disconnect" /\ p.reason = 0 /\ p.properties = <<>> /\ Meant(p) = p
  BY <1>1 DEF Disconnect, Meant
<1>3. PICK b : b = BrokerBody(p, "noprops") OBVIOUS
<1>4. 0 \in DisconnectReasons BY DEF DisconnectReasons
<1>5. BodyIsRead(p, "noprops") /\ Len(b) <= 1 BY <1>1, <1>3, <1>4, DisconnectShort
<1>6. b = <<0>>
  <2>1. b = <<0>> \o <<>> BY <1>2, <1>3 DEF BrokerBody
  <2>2. <<0>> \o <<>> = <<0>> OBVIOUS
  <2>3. QED BY <2>1, <2>2, Zenon
<1>7. PacketIsRead(p, "noprops")
  <2>1. p.type \in AckTypes BY <1>2 DEF AckTypes
  <2>2. Len(b) = 1 BY <1>6
  <2>3. 1 <= MaxVbi BY RealBytes
  <2>4. Len(BrokerBody(p, "noprops")) <= MaxVbi BY <1>3, <2>2, <2>3, Zenon
  <2>5. QED BY <1>5, <2>1, <2>4, PacketOfBody, Zenon
<1>8. BrokerWrites(p, "noprops") = EncodeDisconnect(p)
  <2>1. BrokerWrites(p, "noprops") = Framed(224, <<0>>)
    BY <1>2, <1>3, <1>6, FirstBytes DEF BrokerWrites
  <2>2. EncodeAckProperties(<<>>) = <<0>>
    <3>1. [i \in DOMAIN <<>> |-> EncodeAckProperty(<<>>[i])] = <<>> OBVIOUS
    <3>2. EncodeAckProperties(<<>>) = EncodeVbi[Len(FlattenSeq(<<>>))] \o FlattenSeq(<<>>)
      BY <3>1, Zenon DEF EncodeAckProperties
    <3>3. Len(<<>>) = 0 OBVIOUS
    <3>4. EncodeAckProperties(<<>>) = <<0>> \o <<>>
      BY <3>2, <3>3, FlattenEmpty, NoProperties, Zenon
    <3>5. <<0>> \o <<>> = <<0>> OBVIOUS
    <3>6. QED BY <3>4, <3>5, Zenon
  <2>3. 14 * 16 = 224 OBVIOUS
  <2>4. EncodeDisconnect(p) = Framed(224, <<0>>)
    BY <1>2, <2>2, <2>3, Zenon DEF EncodeDisconnect, Framed
  <2>5. QED BY <2>1, <2>4
<1>9. PICK j : ParsePkt(EncodeDisconnect(p)) = Parsed(p, j)
  BY <1>2, <1>7, <1>8 DEF PacketIsRead
<1>10. QED BY <1>1, <1>9 DEF Parsed

\* PingReq has no body, and its first byte is 192.
LEMMA PingReqIsRead ==
  ASSUME BytesAreReal
  PROVE  ReadRequest(EncodePingReq) = Parsed(PingReq, 0)
<1>1. PICK w : w = EncodePingReq OBVIOUS
<1>2. 192 \in Byte /\ 0 \in Byte /\ 0 <= MaxVbi
  <2>1. Byte = 0 .. 255 /\ 0 <= MaxVbi BY RealBytes
  <2>2. QED BY <2>1
<1>3. PICK b \in Seq(Byte) : b = <<>> /\ Len(b) = 0
  <2>1. <<>> \in Seq(Byte) /\ Len(<<>>) = 0 OBVIOUS
  <2>2. QED BY <2>1
<1>4. w = Framed(192, b)
  <2>1. Framed(192, b) = (<<192>> \o <<0>>) \o <<>>
    BY <1>3, NoProperties, Zenon DEF Framed
  <2>2. <<192>> \o <<0>> = <<192, 0>> /\ <<192, 0>> \o <<>> = <<192, 0>>
    BY <1>2, TwoBytes, Zenon
  <2>3. 12 * 16 = 192 OBVIOUS
  <2>4. w = <<192, 0>> BY <1>1, <2>3, Zenon DEF EncodePingReq
  <2>5. QED BY <2>1, <2>2, <2>4, Zenon
<1>5. PICK k : IsFrame(w, 192, b, k)
  <2>1. Len(b) <= MaxVbi BY <1>2, <1>3, Zenon
  <2>2. IsFrame(w, 192, b, Len(EncodeVbi[Len(b)])) BY <1>2, <1>4, <2>1, FramedIsFrame, Zenon
  <2>3. QED BY <2>2
<1>6. Head(w) = 192 /\ DecodeVbi(Tail(w)) = Parsed(0, k) /\ From(w, 1 + k) = b
  BY <1>3, <1>5, Zenon DEF IsFrame
<1>7. PICK d : d = DecodeVbi(Tail(w)) OBVIOUS
<1>8. d.len = k /\ d.value = 0 BY <1>6, <1>7 DEF Parsed
<1>9. PICK c : c = From(w, 1 + d.len) OBVIOUS
<1>10. Len(c) = 0 BY <1>3, <1>6, <1>8, <1>9, Zenon
<1>11. PICK f : f = Parsed(PingReq, 0) OBVIOUS
<1>12. f.len = 0 BY <1>11 DEF Parsed
<1>13. f = CASE Head(w) = 16 -> ReadConnect(c)
             [] Head(w) = 130 -> ReadSubscribe(c)
             [] Head(w) = 162 -> ReadUnsubscribe(c)
             [] Head(w) = 192 -> Parsed(PingReq, 0)
             [] OTHER -> Failed("error")
  BY <1>6, <1>11
<1>14. ReadRequest(w) = IF d.value = Len(c) /\ f.len = Len(c) THEN f ELSE Failed("error")
  BY <1>7, <1>9, <1>13 DEF ReadRequest
<1>15. QED BY <1>1, <1>8, <1>10, <1>11, <1>12, <1>14

\* The bytes of each request.
LEMMA RequestBytes ==
  ASSUME NEW p, p.type \in {"connect", "subscribe", "unsubscribe"}
  PROVE  EncodeRequest(p) =
           Framed(CASE p.type = "connect" -> 16 [] p.type = "subscribe" -> 130
                    [] p.type = "unsubscribe" -> 162, RequestBody(p))
<1>1. 1 * 16 = 16 /\ 8 * 16 + 2 = 130 /\ 10 * 16 + 2 = 162 OBVIOUS
<1>2. CASE p.type = "connect"
  <2>1. EncodeRequest(p) = EncodeConnect(p) BY <1>2 DEF EncodeRequest
  <2>2. EncodeConnect(p) = Framed(16, RequestBody(p))
    BY <1>1, <1>2 DEF EncodeConnect, RequestBody
  <2>3. QED BY <1>2, <2>1, <2>2
<1>3. CASE p.type = "subscribe"
  <2>1. EncodeRequest(p) = EncodeSubscribe(p) BY <1>3 DEF EncodeRequest
  <2>2. EncodeSubscribe(p) = Framed(130, RequestBody(p))
    BY <1>1, <1>3 DEF EncodeSubscribe, RequestBody
  <2>3. QED BY <1>3, <2>1, <2>2
<1>4. CASE p.type = "unsubscribe"
  <2>1. EncodeRequest(p) = EncodeUnsubscribe(p) BY <1>4 DEF EncodeRequest
  <2>2. EncodeUnsubscribe(p) = Framed(162, RequestBody(p))
    BY <1>1, <1>4 DEF EncodeUnsubscribe, RequestBody
  <2>3. QED BY <1>4, <2>1, <2>2
<1>5. QED BY <1>2, <1>3, <1>4

\* A broker reads each request as the client meant it, whatever the names, the
\* topics and the identifiers are, and the client's PubAck and Disconnect are
\* read back too (convert_to_mqtt of connect.rs, subscribe.rs, unsubscribe.rs,
\* pingreq.rs, puback.rs and disconnect.rs).
THEOREM RequestIsReadBack ==
  ASSUME BytesAreReal, request \in WritableRequests, Len(RequestBody(request)) <= MaxVbi
  PROVE  RequestRoundTrip
<1>1. \A id \in PktIdSamples : ParsePkt(EncodePubAck(NewPubAck(id))) = Parsed(NewPubAck(id), 5)
  <2>1. PktIdSamples \subseteq PktIdRange
    <3>1. ByteSize = 256 /\ U16Size = 65536 BY RealBytes
    <3>2. QED BY <3>1 DEF PktIdSamples, PktIdRange
  <2>2. QED BY <2>1, NewPubAckIsRead
<1>2. PICK w : w = EncodeRequest(request) OBVIOUS
<1>3. Byte = 0 .. 255 BY RealBytes
<1>4. PICK b : b = RequestBody(request) OBVIOUS
<1>5. ASSUME NEW h \in {16, 130, 162}, w = Framed(h, b), b \in Seq(Byte),
             \/ h = 16 /\ ReadConnect(b) = Parsed(request, Len(b))
             \/ h = 130 /\ ReadSubscribe(b) = Parsed(request, Len(b))
             \/ h = 162 /\ ReadUnsubscribe(b) = Parsed(request, Len(b))
      PROVE  \E j : ReadRequest(w) = Parsed(request, j)
  <2>1. h \in Byte BY <1>3
  <2>2. Len(b) <= MaxVbi BY <1>4, Zenon
  <2>3. PICK k : IsFrame(w, h, b, k) BY <1>5, <2>1, <2>2, FramedIsFrame
  <2>4. QED BY <1>5, <2>3, RequestOfBody
<1>6. \E j : ReadRequest(w) = Parsed(request, j)
  <2>1. CASE \E s \in Texts, i \in 0 .. U16Size - 1 : request = Connect(s, i)
    <3>1. PICK s \in Texts, i \in 0 .. U16Size - 1 : request = Connect(s, i) BY <2>1
    <3>2. request.type = "connect" BY <3>1 DEF Connect
    <3>3. w = Framed(16, b) BY <1>2, <1>4, <3>2, RequestBytes
    <3>4. b \in Seq(Byte) /\ ReadConnect(b) = Parsed(request, Len(b))
      BY <1>4, <3>1, ConnectIsRead, Zenon
    <3>5. QED BY <1>5, <3>3, <3>4
  <2>2. CASE \E s \in Texts, id \in PktIdRange, q \in 0 .. 2 : request = Subscribe(s, id, q)
    <3>1. PICK s \in Texts, id \in PktIdRange, q \in 0 .. 2 : request = Subscribe(s, id, q)
      BY <2>2
    <3>2. request.type = "subscribe" BY <3>1 DEF Subscribe
    <3>3. w = Framed(130, b) BY <1>2, <1>4, <3>2, RequestBytes
    <3>4. b \in Seq(Byte) /\ ReadSubscribe(b) = Parsed(request, Len(b))
      BY <1>4, <3>1, SubscribeIsRead, Zenon
    <3>5. QED BY <1>5, <3>3, <3>4
  <2>3. CASE \E ss \in Seq(Texts), id \in PktIdRange : request = Unsubscribe(ss, id)
    <3>1. PICK ss \in Seq(Texts), id \in PktIdRange : request = Unsubscribe(ss, id) BY <2>3
    <3>2. request.type = "unsubscribe" BY <3>1 DEF Unsubscribe
    <3>3. w = Framed(162, b) BY <1>2, <1>4, <3>2, RequestBytes
    <3>4. b \in Seq(Byte) /\ ReadUnsubscribe(b) = Parsed(request, Len(b))
      BY <1>4, <3>1, UnsubscribeIsRead, Zenon
    <3>5. QED BY <1>5, <3>3, <3>4
  <2>4. CASE request = PingReq
    <3>1. w = EncodePingReq BY <1>2, <2>4 DEF EncodeRequest, PingReq
    <3>2. ReadRequest(w) = Parsed(request, 0) BY <2>4, <3>1, PingReqIsRead
    <3>3. QED BY <3>2
  <2>5. QED BY <2>1, <2>2, <2>3, <2>4 DEF WritableRequests
<1>7. ReadRequest(w).result = "ok" /\ ReadRequest(w).value = request BY <1>6 DEF Parsed
<1>8. QED BY <1>1, <1>2, <1>7, NewDisconnectIsRead DEF RequestRoundTrip
=============================================================================
