---------------------------- MODULE FramingProofs ----------------------------
(***************************************************************************)
(* Safety of Framing, for every set of packets, every way to cut the       *)
(* stream and every point at which it ends.                                *)
(*                                                                         *)
(* The argument: TypeOK and FramesIntact are inductive together.  While    *)
(* the stream runs, the buffer begins where the frame of the first packet  *)
(* that is not yet yielded begins, so that what decode finds in it         *)
(* (OutcomeOfBuffer) depends on this frame and on how much of it is there  *)
(* alone: never on what follows it.                                        *)
(***************************************************************************)
EXTENDS Framing, VbiProofs

-----------------------------------------------------------------------------
(* The bytes of packets.                                                   *)

\* The encoded length of a packet's body.
Code(p) == EncodeVbi[Len(p.body)]

LEMMA FrameShape ==
  ASSUME NEW p \in Packets
  PROVE  /\ p = Pkt(p.first, p.body) /\ p.first \in Byte /\ p.body \in Seq(Byte)
         /\ Len(p.body) \in Nat /\ IsCode(Code(p))
         /\ Code(p) \in Seq(Byte) /\ Len(Code(p)) \in Nat /\ Len(Code(p)) >= 1
         /\ Frame(p) = <<p.first>> \o (Code(p) \o p.body)
         /\ Frame(p) \in Seq(Byte)
         /\ Len(Frame(p)) = 1 + Len(Code(p)) + Len(p.body)
<1>1. p \in [first : Byte, body : Seq(Byte)] BY FramingAssumption
<1>2. p = Pkt(p.first, p.body) /\ p.first \in Byte /\ p.body \in Seq(Byte)
  BY <1>1 DEF Pkt
<1>3. Len(p.body) \in Nat BY <1>2
<1>4. IsCode(Code(p)) BY <1>3, EncodeIsCode DEF Code
<1>5. Code(p) \in Seq(Byte) /\ Len(Code(p)) \in Nat /\ Len(Code(p)) >= 1
  BY <1>4 DEF IsCode
<1>6. Frame(p) = (<<p.first>> \o Code(p)) \o p.body BY DEF Frame, Code
<1>7. <<p.first>> \in Seq(Byte) /\ Len(<<p.first>>) = 1 BY <1>2
<1>8. Frame(p) = <<p.first>> \o (Code(p) \o p.body)
  <2>1. PICK a \in Seq(Byte) : a = <<p.first>> BY <1>7
  <2>2. PICK b \in Seq(Byte) : b = p.body BY <1>2
  <2>3. (a \o Code(p)) \o b = a \o (Code(p) \o b) BY <1>5, BytesAssociative, ZenonT(30)
  <2>4. QED BY <1>6, <2>1, <2>2, <2>3
<1>9. Code(p) \o p.body \in Seq(Byte) /\ Len(Code(p) \o p.body) = Len(Code(p)) + Len(p.body)
  BY <1>2, <1>5
<1>10. Frame(p) \in Seq(Byte) /\ Len(Frame(p)) = 1 + (Len(Code(p)) + Len(p.body))
  BY <1>7, <1>8, <1>9
<1>11. Len(Frame(p)) = 1 + Len(Code(p)) + Len(p.body)
  <2>1. \A i, j \in Nat : 1 + (i + j) = 1 + i + j OBVIOUS
  <2>2. 1 + (Len(Code(p)) + Len(p.body)) = 1 + Len(Code(p)) + Len(p.body)
    BY <2>1, <1>3, <1>5
  <2>3. QED BY <2>2, <1>10
<1>12. QED BY <1>2, <1>3, <1>4, <1>5, <1>8, <1>10, <1>11

Frames(q) == [i \in DOMAIN q |-> Frame(q[i])]

\* PendingBytes, for any packets.
BytesOf(q) == FlattenSeq(Frames(q))

LEMMA FramesType ==
  ASSUME NEW q \in Seq(Packets)
  PROVE  /\ Frames(q) \in Seq(Seq(Byte)) /\ Len(Frames(q)) = Len(q)
         /\ \A i \in 1 .. Len(q) : Frames(q)[i] = Frame(q[i])
<1>1. DOMAIN q = 1 .. Len(q) /\ Len(q) \in Nat OBVIOUS
<1>2. \A i \in 1 .. Len(q) : Frame(q[i]) \in Seq(Byte)
  <2>1. ASSUME NEW i \in 1 .. Len(q) PROVE Frame(q[i]) \in Seq(Byte)
    <3>1. q[i] \in Packets OBVIOUS
    <3>2. QED BY <3>1, FrameShape
  <2>2. QED BY <2>1
<1>3. Frames(q) = [i \in 1 .. Len(q) |-> Frame(q[i])] BY <1>1 DEF Frames
<1>4. QED BY <1>1, <1>2, <1>3

LEMMA BytesOfEmpty == BytesOf(<<>>) = <<>>
<1>1. <<>> \in Seq(Packets) OBVIOUS
<1>2. Frames(<<>>) \in Seq(Seq(Byte)) /\ Len(Frames(<<>>)) = 0 BY <1>1, FramesType
<1>3. Frames(<<>>) = <<>> BY <1>2
<1>4. QED BY <1>3, FlattenEmpty DEF BytesOf

LEMMA BytesOfType ==
  ASSUME NEW q \in Seq(Packets)
  PROVE  BytesOf(q) \in Seq(Byte)
BY FramesType, FlattenType DEF BytesOf

LEMMA BytesOfAppend ==
  ASSUME NEW q \in Seq(Packets), NEW p \in Packets
  PROVE  BytesOf(Append(q, p)) = BytesOf(q) \o Frame(p)
<1> DEFINE r == Append(q, p)
<1>1. r \in Seq(Packets) /\ Len(r) = Len(q) + 1 /\ Len(q) \in Nat OBVIOUS
<1>2. (\A i \in 1 .. Len(q) : r[i] = q[i]) /\ r[Len(q) + 1] = p OBVIOUS
<1> HIDE DEF r
<1>3. /\ Frames(r) \in Seq(Seq(Byte)) /\ Len(Frames(r)) = Len(r)
      /\ \A i \in 1 .. Len(r) : Frames(r)[i] = Frame(r[i])
  BY <1>1, FramesType
<1>4. /\ Frames(q) \in Seq(Seq(Byte)) /\ Len(Frames(q)) = Len(q)
      /\ \A i \in 1 .. Len(q) : Frames(q)[i] = Frame(q[i])
  BY FramesType
<1>5. Frame(p) \in Seq(Byte) BY FrameShape
<1> DEFINE t == Append(Frames(q), Frame(p))
<1>6. /\ t \in Seq(Seq(Byte)) /\ Len(t) = Len(q) + 1
      /\ (\A i \in 1 .. Len(q) : t[i] = Frames(q)[i]) /\ t[Len(q) + 1] = Frame(p)
  BY <1>4, <1>5
<1> HIDE DEF t
<1>7. ASSUME NEW i \in 1 .. Len(r) PROVE Frames(r)[i] = t[i]
  <2>1. CASE i = Len(q) + 1 BY <2>1, <1>2, <1>3, <1>6
  <2>2. CASE i # Len(q) + 1
    <3>1. i \in 1 .. Len(q) BY <2>2, <1>1
    <3>2. QED BY <3>1, <1>2, <1>3, <1>4, <1>6
  <2>3. QED BY <2>1, <2>2
<1>8. Frames(r) = t
  <2>1. Len(Frames(r)) = Len(t) BY <1>1, <1>3, <1>6
  <2>2. \A i \in 1 .. Len(Frames(r)) : Frames(r)[i] = t[i] BY <1>3, <1>7
  <2>3. QED BY <2>1, <2>2, <1>3, <1>6, SeqEqual
<1>9. FlattenSeq(t) = FlattenSeq(Frames(q)) \o Frame(p) BY <1>4, <1>5, FlattenAppend DEF t
<1>10. QED BY <1>8, <1>9 DEF BytesOf, r

LEMMA BytesOfHead ==
  ASSUME NEW q \in Seq(Packets), q # <<>>
  PROVE  BytesOf(q) = Frame(Head(q)) \o BytesOf(Tail(q))
<1>1. Head(q) \in Packets /\ Tail(q) \in Seq(Packets) OBVIOUS
<1>2. Len(q) \in Nat /\ Len(q) # 0 /\ Len(Tail(q)) = Len(q) - 1 OBVIOUS
<1>3. q[1] = Head(q) /\ \A i \in 1 .. Len(q) - 1 : Tail(q)[i] = q[i + 1] OBVIOUS
<1>4. /\ Frames(q) \in Seq(Seq(Byte)) /\ Len(Frames(q)) = Len(q)
      /\ \A i \in 1 .. Len(q) : Frames(q)[i] = Frame(q[i])
  BY FramesType
<1> DEFINE t == Tail(q)
           u == Tail(Frames(q))
<1>5. /\ Frames(t) \in Seq(Seq(Byte)) /\ Len(Frames(t)) = Len(q) - 1
      /\ \A i \in 1 .. Len(q) - 1 : Frames(t)[i] = Frame(t[i])
  BY <1>1, <1>2, FramesType
<1>6. Frames(q) # <<>>
  <2>1. Len(Frames(q)) # 0 BY <1>2, <1>4
  <2>2. QED BY <2>1
<1>7. Head(Frames(q)) = Frame(Head(q))
  <2>1. Head(Frames(q)) = Frames(q)[1] BY <1>4, <1>6
  <2>2. 1 \in 1 .. Len(q) BY <1>2
  <2>3. QED BY <2>1, <2>2, <1>3, <1>4
<1>8. /\ u \in Seq(Seq(Byte)) /\ Len(u) = Len(q) - 1
      /\ \A i \in 1 .. Len(q) - 1 : u[i] = Frames(q)[i + 1]
  BY <1>4, <1>6, HeadTailProperties
<1> HIDE DEF t, u
<1>9. ASSUME NEW i \in 1 .. Len(q) - 1 PROVE Frames(t)[i] = u[i]
  <2>1. PICK j \in 1 .. Len(q) : j = i + 1 BY <1>2
  <2>2. u[i] = Frame(q[j]) BY <2>1, <1>4, <1>8
  <2>3. t[i] = q[j] BY <2>1, <1>3 DEF t
  <2>4. QED BY <2>2, <2>3, <1>5
<1>10. Frames(t) = u
  <2>1. Len(Frames(t)) = Len(u) BY <1>5, <1>8
  <2>2. \A i \in 1 .. Len(Frames(t)) : Frames(t)[i] = u[i] BY <1>5, <1>9
  <2>3. QED BY <2>1, <2>2, <1>5, <1>8, SeqEqual
<1>11. FlattenSeq(Frames(q)) = Head(Frames(q)) \o FlattenSeq(u)
  BY <1>4, <1>6, FlattenHead DEF u
<1>12. QED BY <1>7, <1>10, <1>11 DEF BytesOf, t

-----------------------------------------------------------------------------
(* What decode finds in a buffer that begins where a frame begins.         *)

LEMMA DecodeOfPart ==
  ASSUME NEW n \in Nat, NEW d, NEW u, NEW w, Cut(Byte, EncodeVbi[n], d, u, w)
  PROVE  /\ Len(u) >= Len(EncodeVbi[n]) =>
              IF n > MaxVbi THEN DecodeVbi(u).result \in {"error", "panic"}
                            ELSE DecodeVbi(u) = Parsed(n, Len(EncodeVbi[n]))
         /\ Len(u) < Len(EncodeVbi[n]) =>
              /\ DecodeVbi(u).result # "ok"
              /\ ~ (n > MaxVbi) => DecodeVbi(u).result = "more"
<1>0. u \in Seq(Byte) BY DEF Cut
<1>1. PICK c \in Seq(Byte) : c = EncodeVbi[n] BY EncodeIsCode DEF IsCode
<1>2. Cut(Byte, c, d, u, w) BY <1>1
<1>3. /\ Len(u) >= Len(c) => \E r \in Seq(Byte) : u = c \o r
      /\ Len(u) < Len(c) => u = SubSeq(c, 1, Len(u))
  <2>1. ASSUME Len(u) >= Len(c) PROVE \E r \in Seq(Byte) : u = c \o r
    <3>1. After(u, Len(c)) \in Seq(Byte) /\ u = c \o After(u, Len(c))
      BY <1>2, <2>1, CutLong
    <3>2. QED BY <3>1
  <2>2. ASSUME Len(u) < Len(c) PROVE u = SubSeq(c, 1, Len(u)) BY <1>2, <2>2, CutShort
  <2>3. QED BY <2>1, <2>2
<1>4. MaxVbi \in Int BY BaseType DEF MaxVbi
<1>5. ASSUME Len(u) >= Len(c)
      PROVE  IF n > MaxVbi THEN DecodeVbi(u).result \in {"error", "panic"}
                           ELSE DecodeVbi(u) = Parsed(n, Len(EncodeVbi[n]))
  <2>1. PICK r \in Seq(Byte) : u = EncodeVbi[n] \o r BY <1>1, <1>3, <1>5
  <2>2. CASE n > MaxVbi
    <3>1. DecodeVbi(EncodeVbi[n] \o r).result \in {"error", "panic"}
      BY <2>2, VbiTooLong
    <3>2. QED BY <3>1, <2>1, <2>2
  <2>3. CASE ~ (n > MaxVbi)
    <3>1. n <= MaxVbi BY <2>3, <1>4
    <3>2. DecodeVbi(EncodeVbi[n] \o r) = Parsed(n, Len(EncodeVbi[n]))
      BY <3>1, VbiRoundTrip
    <3>3. QED BY <3>2, <2>1, <2>3
  <2>4. QED BY <2>2, <2>3
<1>6. ASSUME Len(u) < Len(c)
      PROVE  /\ DecodeVbi(u).result # "ok"
             /\ ~ (n > MaxVbi) => DecodeVbi(u).result = "more"
  <2>1. Len(u) \in Nat /\ Len(c) \in Nat BY <1>0
  <2>2. PICK k \in 0 .. Len(EncodeVbi[n]) - 1 : k = Len(u) BY <2>1, <1>1, <1>6
  <2>3. u = SubSeq(EncodeVbi[n], 1, k) BY <2>2, <1>1, <1>3, <1>6
  <2>4. DecodeVbi(u).result # "ok" BY <2>3, VbiPartNotOk
  <2>5. ASSUME ~ (n > MaxVbi) PROVE DecodeVbi(u).result = "more"
    <3>1. n <= MaxVbi BY <2>5, <1>4
    <3>2. DecodeVbi(u) = Failed("more") BY <3>1, <2>3, VbiNeedsEveryByte
    <3>3. QED BY <3>2 DEF Failed
  <2>6. QED BY <2>4, <2>5
<1>7. QED BY <1>1, <1>5, <1>6

\* A buffer a that begins where the frame of p begins, with its first byte.
LEMMA TailOfFrame ==
  ASSUME NEW p \in Packets, NEW more, NEW a, NEW w, Cut(Byte, Frame(p), more, a, w),
         Len(a) >= 1
  PROVE  /\ Head(a) = p.first /\ Len(Tail(a)) = Len(a) - 1
         /\ Cut(Byte, Code(p), p.body \o more, Tail(a), w)
<1>1. PICK b \in Seq(Byte) : b = p.body BY FrameShape
<1>2. PICK c \in Seq(Byte) : c = Code(p) BY FrameShape
<1>3. PICK x \in Byte : x = p.first BY FrameShape
<1>4. PICK d \in Seq(Byte) : d = c \o b
  <2>1. c \o b \in Seq(Byte) OBVIOUS
  <2>2. QED BY <2>1
<1>5. Frame(p) = <<x>> \o d BY <1>1, <1>2, <1>3, <1>4, FrameShape
<1>6. Head(a) = x /\ Len(Tail(a)) = Len(a) - 1 /\ Cut(Byte, d, more, Tail(a), w)
  BY <1>5, CutTail
<1>7. Cut(Byte, c, b \o more, Tail(a), w) BY <1>4, <1>6, CutInner
<1>8. QED BY <1>1, <1>2, <1>3, <1>6, <1>7

LEMMA LengthOfBuffer ==
  ASSUME NEW p \in Packets, NEW more, NEW w, Cut(Byte, Frame(p), more, src, w),
         Len(src) >= 1
  PROVE  /\ Len(src) >= 1 + Len(Code(p)) =>
              IF TooLong(p) THEN Length.result \in {"error", "panic"}
                            ELSE Length = Parsed(Len(p.body), Len(Code(p)))
         /\ Len(src) < 1 + Len(Code(p)) =>
              /\ Length.result # "ok"
              /\ ~ TooLong(p) => Length.result = "more"
<1>1. Len(Tail(src)) = Len(src) - 1 /\ Cut(Byte, Code(p), p.body \o more, Tail(src), w)
  BY TailOfFrame
<1>2. src \in Seq(Byte) BY DEF Cut
<1>3. PICK n \in Nat : n = Len(p.body) BY FrameShape
<1>4. PICK u : u = Tail(src) OBVIOUS
<1>5. PICK d : d = p.body \o more OBVIOUS
<1>6. Cut(Byte, EncodeVbi[n], d, u, w) BY <1>1, <1>3, <1>4, <1>5 DEF Code
<1>7. /\ Len(u) >= Len(EncodeVbi[n]) =>
           IF n > MaxVbi THEN DecodeVbi(u).result \in {"error", "panic"}
                         ELSE DecodeVbi(u) = Parsed(n, Len(EncodeVbi[n]))
      /\ Len(u) < Len(EncodeVbi[n]) =>
           /\ DecodeVbi(u).result # "ok"
           /\ ~ (n > MaxVbi) => DecodeVbi(u).result = "more"
  BY <1>6, DecodeOfPart
<1>8. Code(p) = EncodeVbi[n] /\ Length = DecodeVbi(u) /\ (TooLong(p) <=> n > MaxVbi)
  BY <1>3, <1>4 DEF Code, Length, TooLong
<1>9. /\ Len(src) >= 1 + Len(Code(p)) <=> Len(u) >= Len(EncodeVbi[n])
      /\ Len(src) < 1 + Len(Code(p)) <=> Len(u) < Len(EncodeVbi[n])
  <2>1. PICK i \in Nat : i = Len(Code(p)) BY FrameShape
  <2>2. PICK j \in Nat : j = Len(src) BY <1>2
  <2>3. Len(u) = j - 1 /\ Len(EncodeVbi[n]) = i BY <1>1, <1>4, <1>8, <2>1, <2>2
  <2>4. (j >= 1 + i <=> j - 1 >= i) /\ (j < 1 + i <=> j - 1 < i) OBVIOUS
  <2>5. QED BY <2>1, <2>2, <2>3, <2>4
<1>10. QED BY <1>3, <1>7, <1>8, <1>9

\* Where the body is.
LEMMA BodyOfBuffer ==
  ASSUME NEW p \in Packets, NEW more, NEW a, NEW w, Cut(Byte, Frame(p), more, a, w),
         Len(a) >= Len(Frame(p))
  PROVE  SubSeq(a, 2 + Len(Code(p)), 1 + Len(Code(p)) + Len(p.body)) = p.body
<1>1. After(a, Len(Frame(p))) \in Seq(Byte) /\ a = Frame(p) \o After(a, Len(Frame(p)))
  BY CutLong
<1>2. PICK u \in Seq(Byte) : u = After(a, Len(Frame(p))) BY <1>1
<1>3. PICK b \in Seq(Byte) : b = p.body BY FrameShape
<1>4. PICK c \in Seq(Byte) : c = Code(p) BY FrameShape
<1>5. PICK x \in Seq(Byte) : x = <<p.first>> \o c /\ Len(x) = 1 + Len(c)
  <2>1. p.first \in Byte BY FrameShape
  <2>2. <<p.first>> \o c \in Seq(Byte) /\ Len(<<p.first>> \o c) = 1 + Len(c) BY <2>1
  <2>3. QED BY <2>2
<1>6. Frame(p) = x \o b BY <1>3, <1>4, <1>5 DEF Frame, Code
<1>7. a = (x \o b) \o u BY <1>1, <1>2, <1>6, Zenon
<1>8. SubSeq((x \o b) \o u, Len(x) + 1, Len(x) + Len(b)) = b BY MiddleOfConcat
<1>9. Len(c) \in Nat /\ Len(x) + 1 = 2 + Len(c) /\ Len(x) + Len(b) = 1 + Len(c) + Len(b)
  BY <1>5
<1>10. SubSeq(a, 2 + Len(c), 1 + Len(c) + Len(b)) = b BY <1>7, <1>8, <1>9, Zenon
<1>11. QED BY <1>3, <1>4, <1>10, Zenon

\* What decode makes of a buffer that begins where the frame of p begins depends
\* on p, and on whether its frame is there, alone: the packet is taken exactly
\* when all of it is there, whatever follows it, and an error is an error of p.
LEMMA OutcomeOfBuffer ==
  ASSUME NEW p \in Packets, NEW more, NEW w, Cut(Byte, Frame(p), more, src, w)
  PROVE  /\ Outcome = "packet" =>
              /\ Len(src) >= Len(Frame(p)) /\ TotalLen = Len(Frame(p))
              /\ PktData = p
         /\ Outcome = "more" => Len(src) < Len(Frame(p))
         /\ Outcome = "error" => TypeOf(p.first) = 0 \/ TooLong(p)
         /\ Outcome = "panic" => TooLong(p)
<1>1. src \in Seq(Byte) BY DEF Cut
<1>2. PICK l \in Nat : l = Len(src) BY <1>1
<1>3. PICK c \in Nat : c = Len(Code(p)) /\ c >= 1 BY FrameShape
<1>4. PICK n \in Nat : n = Len(p.body) BY FrameShape
<1>5. Len(Frame(p)) = 1 + c + n BY <1>3, <1>4, FrameShape
<1>6. CASE l < 2
  <2>1. Outcome = "more" BY <1>2, <1>6 DEF Outcome
  <2>2. l < 1 + c + n BY <1>3, <1>6
  <2>3. QED BY <2>1, <2>2, <1>2, <1>5
<1>7. CASE ~ (l < 2)
  <2>1. l >= 2 /\ l >= 1 BY <1>7
  <2>2. Head(src) = p.first BY <2>1, <1>2, TailOfFrame
  <2>3. CASE TypeOf(p.first) = 0
    <3>1. Outcome = "error" BY <2>1, <2>2, <2>3, <1>2, <1>7 DEF Outcome
    <3>2. QED BY <3>1, <2>3
  <2>4. CASE TypeOf(p.first) # 0
    <3>1. Outcome = IF Length.result = "ok" /\ Len(src) < TotalLen THEN "more"
                    ELSE IF Length.result = "ok" THEN "packet"
                    ELSE Length.result
      BY <2>1, <2>2, <2>4, <1>2, <1>7 DEF Outcome
    <3>2. Len(src) >= 1 BY <2>1, <1>2
    <3>3. CASE l < 1 + c
      <4>1. Length.result # "ok" /\ (~ TooLong(p) => Length.result = "more")
        BY <3>2, <3>3, <1>2, <1>3, LengthOfBuffer
      <4>2. Outcome = Length.result BY <3>1, <4>1
      <4>3. l < 1 + c + n BY <3>3
      <4>4. Outcome # "packet"
        <5>1. CASE TooLong(p)
          <6>1. Length = DecodeVbi(Tail(src)) BY DEF Length
          <6>2. DecodeVbi(Tail(src)).result # "packet"
            BY DEF DecodeVbi, Parsed, Failed
          <6>3. QED BY <4>2, <6>1, <6>2
        <5>2. CASE ~ TooLong(p) BY <5>2, <4>1, <4>2
        <5>3. QED BY <5>1, <5>2
      <4>5. QED BY <4>1, <4>2, <4>3, <4>4, <1>2, <1>5
    <3>4. CASE ~ (l < 1 + c)
      <4>1. l >= 1 + c BY <3>4
      <4>2. IF TooLong(p) THEN Length.result \in {"error", "panic"}
                          ELSE Length = Parsed(n, c)
        BY <3>2, <4>1, <1>2, <1>3, <1>4, LengthOfBuffer
      <4>3. CASE TooLong(p)
        <5>1. Outcome \in {"error", "panic"} BY <4>2, <4>3, <3>1
        <5>2. QED BY <5>1, <4>3
      <4>4. CASE ~ TooLong(p)
        <5>1. Length.result = "ok" /\ Length.value = n /\ Length.len = c
          BY <4>2, <4>4 DEF Parsed
        <5>2. TotalLen = 1 + c + n BY <5>1 DEF TotalLen
        <5>3. Outcome = IF l < 1 + c + n THEN "more" ELSE "packet"
          BY <5>1, <5>2, <3>1, <1>2
        <5>4. ASSUME ~ (l < 1 + c + n) PROVE PktData = p
          <6>1. l >= 1 + c + n BY <5>4
          <6>2. SubSeq(src, 2 + c, 1 + c + n) = p.body
            BY <6>1, <1>2, <1>3, <1>4, <1>5, BodyOfBuffer
          <6>3. PktData = Pkt(p.first, p.body)
            BY <5>1, <5>2, <6>2, <2>2 DEF PktData
          <6>4. QED BY <6>3, FrameShape
        <5>5. ASSUME ~ (l < 1 + c + n) PROVE l >= 1 + c + n BY <5>5
        <5>6. QED BY <5>2, <5>3, <5>4, <5>5, <1>2, <1>5
      <4>5. QED BY <4>3, <4>4
    <3>5. QED BY <3>3, <3>4
  <2>5. QED BY <2>3, <2>4
<1>8. QED BY <1>6, <1>7

-----------------------------------------------------------------------------
(* The stream: the bytes in the buffer s, those on the way w, and those v  *)
(* that a connection which is closed (cl) will not deliver.                *)

Covers(cl, s, w, pb, v) ==
  /\ s \in Seq(Byte) /\ w \in Seq(Byte) /\ pb \in Seq(Byte) /\ v \in Seq(Byte)
  /\ ~ cl => v = <<>>
  /\ (s \o w) \o v = pb

\* The second part of FramesIntact.
Delivers(cl, s, w, pb) == IF cl THEN IsPrefix(s \o w, pb) ELSE s \o w = pb

\* u is w and then x.
Joins(u, w, x) == w \in Seq(Byte) /\ x \in Seq(Byte) /\ u = w \o x

LEMMA CoversExists ==
  ASSUME NEW cl \in BOOLEAN, NEW s \in Seq(Byte), NEW w \in Seq(Byte), NEW pb \in Seq(Byte),
         Delivers(cl, s, w, pb)
  PROVE  \E v : Covers(cl, s, w, pb, v)
<1>1. PICK x \in Seq(Byte) : x = s \o w
  <2>1. s \o w \in Seq(Byte) OBVIOUS
  <2>2. QED BY <2>1
<1>2. CASE cl
  <2>1. IsPrefix(x, pb) BY <1>1, <1>2 DEF Delivers
  <2>2. \E v \in Seq(Byte) : pb = x \o v BY <2>1, PrefixSplits
  <2>3. PICK v \in Seq(Byte) : pb = x \o v BY <2>2
  <2>4. Covers(cl, s, w, pb, v) BY <1>1, <1>2, <2>3 DEF Covers
  <2>5. QED BY <2>4
<1>3. CASE ~ cl
  <2>1. x = pb BY <1>1, <1>3 DEF Delivers
  <2>2. x \o <<>> = x OBVIOUS
  <2>3. <<>> \in Seq(Byte) OBVIOUS
  <2>4. Covers(cl, s, w, pb, <<>>) BY <1>1, <2>1, <2>2, <2>3 DEF Covers
  <2>5. QED BY <2>4
<1>4. QED BY <1>2, <1>3

LEMMA CoversPrefix ==
  ASSUME NEW cl \in BOOLEAN, NEW s, NEW w, NEW pb, NEW v, Covers(cl, s, w, pb, v)
  PROVE  Delivers(cl, s, w, pb)
<1>0. s \in Seq(Byte) /\ w \in Seq(Byte) /\ pb \in Seq(Byte) /\ v \in Seq(Byte) BY DEF Covers
<1>1. PICK x \in Seq(Byte) : x = s \o w
  <2>1. s \o w \in Seq(Byte) BY <1>0
  <2>2. QED BY <2>1
<1>2. pb = x \o v /\ (~ cl => v = <<>>) BY <1>1 DEF Covers
<1>3. IsPrefix(x, pb) BY <1>0, <1>2, PrefixSplits
<1>4. x \o <<>> = x OBVIOUS
<1>5. QED BY <1>1, <1>2, <1>3, <1>4, Zenon DEF Delivers

\* The broker writes x.
LEMMA CoversSend ==
  ASSUME NEW s, NEW w, NEW pb, NEW v, Covers(FALSE, s, w, pb, v), NEW x \in Seq(Byte)
  PROVE  Covers(FALSE, s, w \o x, pb \o x, <<>>)
<1>0. s \in Seq(Byte) /\ w \in Seq(Byte) /\ pb \in Seq(Byte) BY DEF Covers
<1>1. w \o x \in Seq(Byte) /\ pb \o x \in Seq(Byte) /\ <<>> \in Seq(Byte) BY <1>0
<1>2. (s \o w) \o x = s \o (w \o x) BY <1>0, ConcatAssociative
<1>3. s \o w = pb
  <2>1. v = <<>> /\ (s \o w) \o v = pb BY DEF Covers
  <2>2. s \o w \in Seq(Byte) BY <1>0
  <2>3. (s \o w) \o <<>> = s \o w BY <2>2, ConcatEmptySeq
  <2>4. QED BY <2>1, <2>3, Zenon
<1>4. PICK y \in Seq(Byte) : y = pb \o x BY <1>1
<1>5. y \o <<>> = y OBVIOUS
<1>6. (s \o (w \o x)) \o <<>> = pb \o x BY <1>2, <1>3, <1>4, <1>5, Zenon
<1>7. QED BY <1>0, <1>1, <1>6 DEF Covers

\* A part w of what is on the way is lost.
LEMMA CoversClose ==
  ASSUME NEW cl, NEW s, NEW w, NEW u, NEW x, NEW pb, NEW v, Covers(cl, s, u, pb, v),
         Joins(u, w, x)
  PROVE  Covers(TRUE, s, w, pb, x \o v)
<1>0. /\ s \in Seq(Byte) /\ pb \in Seq(Byte) /\ v \in Seq(Byte)
      /\ w \in Seq(Byte) /\ x \in Seq(Byte)
  BY DEF Covers, Joins
<1>1. (s \o u) \o v = pb BY DEF Covers
<1>2. u = w \o x /\ s \o (w \o x) = (s \o w) \o x
  <2>1. (s \o w) \o x = s \o (w \o x) BY <1>0, BytesAssociative, ZenonT(30)
  <2>2. u = w \o x BY DEF Joins
  <2>3. QED BY <2>1, <2>2, Zenon
<1>3. PICK y \in Seq(Byte) : y = s \o w
  <2>1. s \o w \in Seq(Byte) BY <1>0
  <2>2. QED BY <2>1
<1>4. (y \o x) \o v = y \o (x \o v)
  <2>1. y \in Seq(Byte) /\ x \in Seq(Byte) /\ v \in Seq(Byte) BY <1>0
  <2>2. QED BY <2>1, ConcatAssociative
<1>5. (s \o w) \o (x \o v) = pb BY <1>1, <1>2, <1>3, <1>4, Zenon
<1>6. x \o v \in Seq(Byte) BY <1>0
<1>7. QED BY <1>0, <1>5, <1>6 DEF Covers

\* The first part w of what is on the way is read.
LEMMA CoversRead ==
  ASSUME NEW cl, NEW s, NEW w, NEW u, NEW x, NEW pb, NEW v, Covers(cl, s, u, pb, v),
         Joins(u, w, x)
  PROVE  Covers(cl, s \o w, x, pb, v)
<1>0. /\ s \in Seq(Byte) /\ pb \in Seq(Byte) /\ v \in Seq(Byte)
      /\ w \in Seq(Byte) /\ x \in Seq(Byte)
  BY DEF Covers, Joins
<1>1. (s \o u) \o v = pb /\ (~ cl => v = <<>>) BY DEF Covers
<1>2. u = w \o x /\ s \o (w \o x) = (s \o w) \o x
  <2>1. (s \o w) \o x = s \o (w \o x) BY <1>0, BytesAssociative, ZenonT(30)
  <2>2. u = w \o x BY DEF Joins
  <2>3. QED BY <2>1, <2>2, Zenon
<1>3. ((s \o w) \o x) \o v = pb BY <1>1, <1>2, Zenon
<1>4. s \o w \in Seq(Byte) BY <1>0
<1>5. QED BY <1>0, <1>1, <1>3, <1>4 DEF Covers

\* The buffer begins where the first frame f that is to come begins ...
LEMMA CoversCut ==
  ASSUME NEW cl, NEW s, NEW w, NEW f \in Seq(Byte), NEW m \in Seq(Byte), NEW v, NEW pb,
         Covers(cl, s, w, pb, v), pb = f \o m
  PROVE  Cut(Byte, f, m, s, w \o v)
<1>0. s \in Seq(Byte) /\ w \in Seq(Byte) /\ v \in Seq(Byte) BY DEF Covers
<1>1. (s \o w) \o v = pb BY DEF Covers
<1>2. (s \o w) \o v = s \o (w \o v) BY <1>0, ConcatAssociative
<1>3. s \o (w \o v) = f \o m BY <1>1, <1>2, Zenon
<1>4. w \o v \in Seq(Byte) BY <1>0
<1>5. QED BY <1>0, <1>3, <1>4 DEF Cut

\* ... and when this frame is taken, where the next one does.
LEMMA CoversYield ==
  ASSUME NEW cl, NEW s, NEW w, NEW f \in Seq(Byte), NEW m \in Seq(Byte), NEW v, NEW pb,
         Covers(cl, s, w, pb, v), pb = f \o m, Len(s) >= Len(f)
  PROVE  Covers(cl, After(s, Len(f)), w, m, v)
<1>0. s \in Seq(Byte) /\ w \in Seq(Byte) /\ v \in Seq(Byte) /\ (~ cl => v = <<>>)
  BY DEF Covers
<1>1. Cut(Byte, f, m, s, w \o v) BY CoversCut
<1>2. m = After(s, Len(f)) \o (w \o v) BY <1>1, CutRest
<1>3. After(s, Len(f)) \in Seq(Byte) BY <1>1, CutLong
<1>4. PICK r \in Seq(Byte) : r = After(s, Len(f)) BY <1>3
<1>5. (r \o w) \o v = r \o (w \o v)
  BY <1>0, BytesAssociative, ZenonT(30)
<1>6. (r \o w) \o v = m BY <1>2, <1>4, <1>5, Zenon
<1>7. Covers(cl, r, w, m, v) BY <1>0, <1>6 DEF Covers
<1>8. QED BY <1>4, <1>7, Zenon

-----------------------------------------------------------------------------
(* The packets that were written, q, and those that were yielded, d.       *)

\* Pending, of any q and d.
RestOf(q, d) == SubSeq(q, Len(d) + 1, Len(q))

LEMMA PendingIs == Pending = RestOf(sent, decoded) /\ PendingBytes = BytesOf(Pending)
BY DEF Pending, RestOf, PendingBytes, BytesOf, Frames

LEMMA PrefixElements ==
  ASSUME NEW S, NEW s \in Seq(S), NEW t \in Seq(S)
  PROVE  IsPrefix(s, t) <=> Len(s) <= Len(t) /\ \A i \in 1 .. Len(s) : t[i] = s[i]
<1>1. Len(s) \in Nat /\ Len(t) \in Nat OBVIOUS
<1>2. SubSeq(s, 1, Len(s)) = s BY SubSeqFull
<1>3. ASSUME Len(s) <= Len(t)
      PROVE  SubSeq(t, 1, Len(s)) = s <=> \A i \in 1 .. Len(s) : t[i] = s[i]
  <2>1. /\ SubSeq(t, 1, Len(s)) \in Seq(S) /\ Len(SubSeq(t, 1, Len(s))) = Len(s)
        /\ \A i \in 1 .. Len(s) : SubSeq(t, 1, Len(s))[i] = t[i]
    BY <1>1, <1>3
  <2>2. ASSUME \A i \in 1 .. Len(s) : t[i] = s[i] PROVE SubSeq(t, 1, Len(s)) = s
    BY <2>1, <2>2, SeqEqual
  <2>3. QED BY <2>1, <2>2
<1>4. QED BY <1>2, <1>3 DEF IsPrefix

LEMMA RestType ==
  ASSUME NEW S, NEW q \in Seq(S), NEW d \in Seq(S), IsPrefix(d, q)
  PROVE  /\ Len(d) \in Nat /\ Len(q) \in Nat /\ Len(d) <= Len(q)
         /\ RestOf(q, d) \in Seq(S) /\ Len(RestOf(q, d)) = Len(q) - Len(d)
         /\ \A i \in 1 .. Len(q) - Len(d) : RestOf(q, d)[i] = q[Len(d) + i]
<1>1. Len(d) \in Nat /\ Len(q) \in Nat /\ Len(d) <= Len(q) BY PrefixElements
<1>2. QED BY <1>1 DEF RestOf

\* A packet is written.
LEMMA RestAppend ==
  ASSUME NEW S, NEW q \in Seq(S), NEW d \in Seq(S), IsPrefix(d, q), NEW p \in S
  PROVE  /\ IsPrefix(d, Append(q, p))
         /\ RestOf(Append(q, p), d) = Append(RestOf(q, d), p)
<1> DEFINE r == Append(q, p)
           a == RestOf(r, d)
           b == Append(RestOf(q, d), p)
<1>1. /\ r \in Seq(S) /\ Len(r) = Len(q) + 1 /\ r[Len(q) + 1] = p
      /\ \A i \in 1 .. Len(q) : r[i] = q[i]
  OBVIOUS
<1> HIDE DEF r
<1>2. /\ Len(d) \in Nat /\ Len(q) \in Nat /\ Len(d) <= Len(q)
      /\ \A i \in 1 .. Len(d) : q[i] = d[i]
  BY PrefixElements
<1>3. IsPrefix(d, r)
  <2>1. \A i \in 1 .. Len(d) : i \in 1 .. Len(q) BY <1>2
  <2>2. \A i \in 1 .. Len(d) : r[i] = d[i] BY <2>1, <1>1, <1>2
  <2>3. Len(d) <= Len(r) BY <1>1, <1>2
  <2>4. QED BY <2>2, <2>3, <1>1, PrefixElements
<1>4. /\ a \in Seq(S) /\ Len(a) = Len(r) - Len(d)
      /\ \A i \in 1 .. Len(r) - Len(d) : a[i] = r[Len(d) + i]
  BY <1>1, <1>3, RestType
<1>5. /\ RestOf(q, d) \in Seq(S) /\ Len(RestOf(q, d)) = Len(q) - Len(d)
      /\ \A i \in 1 .. Len(q) - Len(d) : RestOf(q, d)[i] = q[Len(d) + i]
  BY RestType
<1>6. /\ b \in Seq(S) /\ Len(b) = Len(q) - Len(d) + 1 /\ b[Len(q) - Len(d) + 1] = p
      /\ \A i \in 1 .. Len(q) - Len(d) : b[i] = RestOf(q, d)[i]
  BY <1>2, <1>5
<1> HIDE DEF a, b
<1>7. Len(a) = Len(b) BY <1>1, <1>2, <1>4, <1>6
<1>8. ASSUME NEW i \in 1 .. Len(a) PROVE a[i] = b[i]
  <2>1. CASE i = Len(q) - Len(d) + 1
    <3>1. Len(d) + i = Len(q) + 1 BY <2>1, <1>2
    <3>2. a[i] = r[Len(d) + i] BY <1>4
    <3>3. QED BY <3>1, <3>2, <2>1, <1>1, <1>6
  <2>2. CASE i # Len(q) - Len(d) + 1
    <3>1. i \in 1 .. Len(q) - Len(d) /\ Len(d) + i \in 1 .. Len(q)
      BY <2>2, <1>1, <1>2, <1>4
    <3>2. a[i] = r[Len(d) + i] BY <1>4
    <3>3. r[Len(d) + i] = q[Len(d) + i] BY <3>1, <1>1
    <3>4. b[i] = q[Len(d) + i] BY <3>1, <1>5, <1>6
    <3>5. QED BY <3>2, <3>3, <3>4
  <2>3. QED BY <2>1, <2>2
<1>9. a = b BY <1>4, <1>6, <1>7, <1>8, SeqEqual
<1>10. QED BY <1>3, <1>9 DEF a, b, r

\* The first of the rest is yielded.
LEMMA RestYield ==
  ASSUME NEW S, NEW q \in Seq(S), NEW d \in Seq(S), IsPrefix(d, q), RestOf(q, d) # <<>>
  PROVE  /\ Head(RestOf(q, d)) \in S
         /\ IsPrefix(Append(d, Head(RestOf(q, d))), q)
         /\ RestOf(q, Append(d, Head(RestOf(q, d)))) = Tail(RestOf(q, d))
<1> DEFINE a == RestOf(q, d)
           e == Append(d, Head(a))
           c == RestOf(q, e)
           b == Tail(a)
<1>1. /\ Len(d) \in Nat /\ Len(q) \in Nat /\ Len(d) <= Len(q)
      /\ a \in Seq(S) /\ Len(a) = Len(q) - Len(d)
      /\ \A i \in 1 .. Len(q) - Len(d) : a[i] = q[Len(d) + i]
  BY RestType
<1> HIDE DEF a
<1>2. a # <<>> BY DEF a
<1>3. Len(a) >= 1 BY <1>1, <1>2
<1>4. Head(a) \in S /\ Head(a) = a[1] BY <1>1, <1>2
<1>5. Head(a) = q[Len(d) + 1] /\ Len(d) + 1 <= Len(q)
  <2>1. 1 \in 1 .. Len(q) - Len(d) BY <1>1, <1>3
  <2>2. QED BY <2>1, <1>1, <1>3, <1>4
<1>6. /\ e \in Seq(S) /\ Len(e) = Len(d) + 1 /\ e[Len(d) + 1] = Head(a)
      /\ \A i \in 1 .. Len(d) : e[i] = d[i]
  BY <1>4
<1> HIDE DEF e
<1>7. IsPrefix(e, q)
  <2>1. ASSUME NEW i \in 1 .. Len(e) PROVE q[i] = e[i]
    <3>1. CASE i = Len(d) + 1 BY <3>1, <1>5, <1>6
    <3>2. CASE i # Len(d) + 1
      <4>1. i \in 1 .. Len(d) BY <3>2, <1>1, <1>6
      <4>2. q[i] = d[i] BY <4>1, PrefixElements
      <4>3. QED BY <4>1, <4>2, <1>6
    <3>3. QED BY <3>1, <3>2
  <2>2. Len(e) <= Len(q) BY <1>5, <1>6
  <2>3. QED BY <2>1, <2>2, <1>6, PrefixElements
<1>8. /\ c \in Seq(S) /\ Len(c) = Len(q) - Len(e)
      /\ \A i \in 1 .. Len(q) - Len(e) : c[i] = q[Len(e) + i]
  <2>1. e \in Seq(S) BY <1>6
  <2>2. QED BY <2>1, <1>7, RestType
<1>9. /\ b \in Seq(S) /\ Len(b) = Len(a) - 1
      /\ \A i \in 1 .. Len(b) : b[i] = a[i + 1]
  BY <1>1, <1>2, HeadTailProperties
<1> HIDE DEF b, c
<1>10. Len(b) = Len(c) BY <1>1, <1>6, <1>8, <1>9
<1>11. ASSUME NEW i \in 1 .. Len(c) PROVE c[i] = b[i]
  <2>1. c[i] = q[Len(e) + i] BY <1>8
  <2>2. PICK j \in 1 .. Len(q) - Len(d) : j = i + 1 BY <1>1, <1>6, <1>8
  <2>3. b[i] = a[j] BY <2>2, <1>9, <1>10
  <2>4. a[j] = q[Len(d) + j] BY <1>1
  <2>5. Len(e) + i = Len(d) + j BY <2>2, <1>1, <1>6
  <2>6. QED BY <2>1, <2>3, <2>4, <2>5
<1>12. c = b BY <1>8, <1>9, <1>10, <1>11, SeqEqual
<1>13. QED BY <1>4, <1>7, <1>12 DEF a, b, c, e

-----------------------------------------------------------------------------
(* The invariant.                                                          *)

Inv == TypeOK /\ FramesIntact

LEMMA PendingFacts ==
  ASSUME Inv
  PROVE  /\ Pending \in Seq(Packets) /\ PendingBytes \in Seq(Byte)
         /\ PendingBytes = BytesOf(Pending)
         /\ Pending # <<>> =>
              /\ Head(Pending) \in Packets /\ Tail(Pending) \in Seq(Packets)
              /\ Frame(Head(Pending)) \in Seq(Byte) /\ BytesOf(Tail(Pending)) \in Seq(Byte)
              /\ PendingBytes = Frame(Head(Pending)) \o BytesOf(Tail(Pending))
<1>1. sent \in Seq(Packets) /\ decoded \in Seq(Packets) /\ IsPrefix(decoded, sent)
  BY DEF Inv, TypeOK, FramesIntact
<1>2. RestOf(sent, decoded) \in Seq(Packets) BY <1>1, RestType
<1>3. Pending \in Seq(Packets) BY <1>2, PendingIs
<1>4. PendingBytes = BytesOf(Pending) BY PendingIs
<1>5. PendingBytes \in Seq(Byte) BY <1>3, <1>4, BytesOfType
<1>6. ASSUME Pending # <<>>
      PROVE  /\ Head(Pending) \in Packets /\ Tail(Pending) \in Seq(Packets)
             /\ Frame(Head(Pending)) \in Seq(Byte) /\ BytesOf(Tail(Pending)) \in Seq(Byte)
             /\ PendingBytes = Frame(Head(Pending)) \o BytesOf(Tail(Pending))
  <2>1. Head(Pending) \in Packets /\ Tail(Pending) \in Seq(Packets) BY <1>3, <1>6
  <2>2. BytesOf(Tail(Pending)) \in Seq(Byte) BY <2>1, BytesOfType
  <2>3. Frame(Head(Pending)) \in Seq(Byte) BY <2>1, FrameShape
  <2>4. BytesOf(Pending) = Frame(Head(Pending)) \o BytesOf(Tail(Pending))
    BY <1>3, <1>6, BytesOfHead
  <2>5. QED BY <1>4, <2>1, <2>2, <2>3, <2>4, Zenon
<1>7. QED BY <1>3, <1>4, <1>5, <1>6

\* As long as the stream runs, the buffer begins where the frame of the first
\* packet that is not yet yielded begins; it is empty if there is none.
LEMMA BufferFacts ==
  ASSUME Inv, ended = "no"
  PROVE  /\ \E v : Covers(closed, src, wire, PendingBytes, v)
         /\ Pending = <<>> => src = <<>>
         /\ Pending # <<>> =>
              \E w : Cut(Byte, Frame(Head(Pending)), BytesOf(Tail(Pending)), src, w)
<1>1. Delivers(closed, src, wire, PendingBytes) BY DEF Inv, FramesIntact, Delivers
<1>2. closed \in BOOLEAN /\ src \in Seq(Byte) /\ wire \in Seq(Byte) BY DEF Inv, TypeOK
<1>3. PendingBytes \in Seq(Byte) /\ PendingBytes = BytesOf(Pending) BY PendingFacts
<1>4. \E v : Covers(closed, src, wire, PendingBytes, v) BY <1>1, <1>2, <1>3, CoversExists
<1>5. PICK v : Covers(closed, src, wire, PendingBytes, v) BY <1>4
<1>6. ASSUME Pending = <<>> PROVE src = <<>>
  <2>1. PendingBytes = <<>> BY <1>3, <1>6, BytesOfEmpty, Zenon
  <2>2. v \in Seq(Byte) /\ (src \o wire) \o v = <<>> BY <1>5, <2>1 DEF Covers
  <2>3. src \o wire \in Seq(Byte) BY <1>2
  <2>4. src \o wire = <<>> BY <2>2, <2>3, ConcatSimplifications
  <2>5. QED BY <1>2, <2>4, ConcatSimplifications
<1>7. ASSUME Pending # <<>>
      PROVE  \E w : Cut(Byte, Frame(Head(Pending)), BytesOf(Tail(Pending)), src, w)
  <2>1. /\ Frame(Head(Pending)) \in Seq(Byte) /\ BytesOf(Tail(Pending)) \in Seq(Byte)
        /\ PendingBytes = Frame(Head(Pending)) \o BytesOf(Tail(Pending))
    BY <1>7, PendingFacts
  <2>2. Cut(Byte, Frame(Head(Pending)), BytesOf(Tail(Pending)), src, wire \o v)
    BY <1>5, <2>1, CoversCut
  <2>3. QED BY <2>2
<1>8. QED BY <1>4, <1>6, <1>7

\* What decode finds, in every state in which it is called.
LEMMA OutcomeFacts ==
  ASSUME Inv, ended = "no"
  PROVE  /\ Outcome \in {"packet", "error", "panic"} => Pending # <<>>
         /\ Outcome = "packet" =>
              /\ Len(src) >= Len(Frame(Head(Pending)))
              /\ TotalLen = Len(Frame(Head(Pending)))
              /\ PktData = Head(Pending)
         /\ Outcome = "more" /\ Pending # <<>> => Len(src) < Len(Frame(Head(Pending)))
         /\ Outcome = "error" => TypeOf(Head(Pending).first) = 0 \/ TooLong(Head(Pending))
         /\ Outcome = "panic" => TooLong(Head(Pending))
<1>1. CASE Pending = <<>>
  <2>1. src = <<>> BY <1>1, BufferFacts
  <2>2. Len(src) < 2 BY <2>1
  <2>3. Outcome = "more" BY <2>2 DEF Outcome
  <2>4. QED BY <2>3, <1>1
<1>2. CASE Pending # <<>>
  <2>1. PICK p \in Packets : p = Head(Pending) BY <1>2, PendingFacts
  <2>2. \E w : Cut(Byte, Frame(p), BytesOf(Tail(Pending)), src, w)
    BY <1>2, <2>1, BufferFacts
  <2>3. PICK w : Cut(Byte, Frame(p), BytesOf(Tail(Pending)), src, w) BY <2>2
  <2>4. PICK m : m = BytesOf(Tail(Pending)) OBVIOUS
  <2>5. Cut(Byte, Frame(p), m, src, w) BY <2>3, <2>4
  <2>6. /\ Outcome = "packet" =>
             /\ Len(src) >= Len(Frame(p)) /\ TotalLen = Len(Frame(p))
             /\ PktData = p
        /\ Outcome = "more" => Len(src) < Len(Frame(p))
        /\ Outcome = "error" => TypeOf(p.first) = 0 \/ TooLong(p)
        /\ Outcome = "panic" => TooLong(p)
    BY <2>5, OutcomeOfBuffer
  <2>7. QED BY <1>2, <2>1, <2>6
<1>3. QED BY <1>1, <1>2

LEMMA InvType ==
  ASSUME Inv
  PROVE  /\ sent \in Seq(Packets) /\ Len(sent) \in Nat /\ Len(sent) <= MaxPkts
         /\ wire \in Seq(Byte) /\ src \in Seq(Byte)
         /\ Len(wire) \in Nat /\ Len(src) \in Nat
         /\ closed \in BOOLEAN /\ reading \in BOOLEAN
         /\ decoded \in Seq(Packets)
         /\ ended \in {"no", "eof", "err", "panic"}
         /\ IsPrefix(decoded, sent)
BY DEF Inv, TypeOK, FramesIntact

LEMMA SendInv ==
  ASSUME Inv, NEW p \in Packets, Send(p)
  PROVE  Inv'
<1>1. /\ ~ closed /\ ended = "no" /\ Len(sent) < MaxPkts
      /\ sent' = Append(sent, p) /\ wire' = wire \o Frame(p)
      /\ UNCHANGED <<closed, src, reading, decoded, ended>>
  BY DEF Send
<1>2. PICK x \in Seq(Byte) : x = Frame(p) BY FrameShape
<1>3. TypeOK'
  <2>1. wire \o x \in Seq(Byte) BY InvType
  <2>2. wire' \in Seq(Byte) BY <1>1, <1>2, <2>1
  <2>3. sent' \in Seq(Packets) /\ Len(sent') <= MaxPkts
    <3>1. Append(sent, p) \in Seq(Packets) /\ Len(Append(sent, p)) = Len(sent) + 1
      BY InvType
    <3>2. Len(sent) + 1 <= MaxPkts BY <1>1, InvType, FramingAssumption
    <3>3. QED BY <1>1, <3>1, <3>2
  <2>4. QED BY <1>1, <2>2, <2>3, InvType DEF TypeOK
<1>4. /\ IsPrefix(decoded, Append(sent, p))
      /\ RestOf(Append(sent, p), decoded) = Append(RestOf(sent, decoded), p)
  BY InvType, RestAppend
<1>5. PendingBytes' = PendingBytes \o x
  <2>1. PICK q \in Seq(Packets) : q = Pending BY PendingFacts
  <2>2. Pending' = Append(q, p) BY <1>1, <1>4, <2>1 DEF Pending, RestOf
  <2>3. PendingBytes' = BytesOf(Pending') BY DEF PendingBytes, BytesOf, Frames
  <2>4. BytesOf(Append(q, p)) = BytesOf(q) \o Frame(p) BY BytesOfAppend
  <2>5. BytesOf(q) = PendingBytes BY <2>1, PendingFacts
  <2>6. QED BY <1>2, <2>2, <2>3, <2>4, <2>5, Zenon
<1>6. PICK v : Covers(closed, src, wire, PendingBytes, v) BY <1>1, BufferFacts
<1>7. Covers(FALSE, src, wire, PendingBytes, v)
  <2>1. closed = FALSE BY <1>1, InvType
  <2>2. QED BY <1>6, <2>1
<1>8. Covers(FALSE, src, wire \o x, PendingBytes \o x, <<>>) BY <1>7, CoversSend
<1>9. Delivers(FALSE, src, wire \o x, PendingBytes \o x)
  <2>1. PICK w, b : w = wire \o x /\ b = PendingBytes \o x OBVIOUS
  <2>2. Covers(FALSE, src, w, b, <<>>) BY <1>8, <2>1, Zenon
  <2>3. Delivers(FALSE, src, w, b) BY <2>2, CoversPrefix
  <2>4. QED BY <2>1, <2>3, Zenon
<1>10. Delivers(closed', src', wire', PendingBytes')
  <2>1. closed' = FALSE /\ src' = src /\ wire' = wire \o x BY <1>1, <1>2, InvType
  <2>2. QED BY <1>5, <1>9, <2>1, Zenon
<1>11. FramesIntact' BY <1>1, <1>4, <1>10 DEF FramesIntact, Delivers
<1>12. QED BY <1>3, <1>11 DEF Inv

LEMMA WireSplits ==
  ASSUME NEW w \in Seq(Byte), NEW k \in 0 .. Len(w)
  PROVE  /\ SubSeq(w, 1, k) \in Seq(Byte) /\ SubSeq(w, k + 1, Len(w)) \in Seq(Byte)
         /\ Joins(w, SubSeq(w, 1, k), SubSeq(w, k + 1, Len(w)))
<1>1. Len(w) \in Nat OBVIOUS
<1>2. SubSeq(w, 1, k) \in Seq(Byte) /\ SubSeq(w, k + 1, Len(w)) \in Seq(Byte) BY <1>1
<1>3. SubSeq(w, 1, k) \o SubSeq(w, k + 1, Len(w)) = SubSeq(w, 1, Len(w))
  <2>1. 1 \in 1 .. Len(w) + 1 /\ k \in 1 - 1 .. Len(w) /\ Len(w) \in k .. Len(w) BY <1>1
  <2>2. QED BY <2>1, ConcatAdjacentSubSeq
<1>4. SubSeq(w, 1, Len(w)) = w BY SubSeqFull
<1>5. QED BY <1>2, <1>3, <1>4, Zenon DEF Joins

LEMMA CloseInv ==
  ASSUME Inv, NEW k \in 0 .. Len(wire), Close(k)
  PROVE  Inv'
<1>1. /\ ended = "no" /\ closed' = TRUE /\ wire' = SubSeq(wire, 1, k)
      /\ UNCHANGED <<sent, src, reading, decoded, ended>>
  BY DEF Close
<1>2. PICK w, x : w = SubSeq(wire, 1, k) /\ x = SubSeq(wire, k + 1, Len(wire)) OBVIOUS
<1>3. w \in Seq(Byte) /\ Joins(wire, w, x) BY <1>2, InvType, WireSplits
<1>4. TypeOK' BY <1>1, <1>2, <1>3, InvType DEF TypeOK
<1>5. PICK v : Covers(closed, src, wire, PendingBytes, v) BY <1>1, BufferFacts
<1>6. Covers(TRUE, src, w, PendingBytes, x \o v) BY <1>3, <1>5, CoversClose
<1>7. Delivers(TRUE, src, w, PendingBytes)
  <2>1. PICK y : y = x \o v OBVIOUS
  <2>2. Covers(TRUE, src, w, PendingBytes, y) BY <1>6, <2>1
  <2>3. QED BY <2>2, CoversPrefix
<1>8. PendingBytes' = PendingBytes BY <1>1 DEF PendingBytes, Pending
<1>9. Delivers(closed', src', wire', PendingBytes')
  <2>1. closed' = TRUE /\ src' = src /\ wire' = w BY <1>1, <1>2
  <2>2. QED BY <1>7, <1>8, <2>1
<1>10. FramesIntact'
  <2>1. IsPrefix(decoded', sent') BY <1>1, InvType
  <2>2. QED BY <1>9, <2>1 DEF FramesIntact, Delivers
<1>11. QED BY <1>4, <1>10 DEF Inv

LEMMA ReadBytesInv ==
  ASSUME Inv, NEW k \in 1 .. Len(wire), ReadBytes(k)
  PROVE  Inv'
<1>1. /\ ended = "no" /\ src' = src \o SubSeq(wire, 1, k)
      /\ wire' = SubSeq(wire, k + 1, Len(wire)) /\ reading' = FALSE
      /\ UNCHANGED <<sent, closed, decoded, ended>>
  BY DEF ReadBytes
<1>2. PICK w, x : w = SubSeq(wire, 1, k) /\ x = SubSeq(wire, k + 1, Len(wire)) OBVIOUS
<1>3. w \in Seq(Byte) /\ x \in Seq(Byte) /\ Joins(wire, w, x)
  <2>1. k \in 0 .. Len(wire) BY InvType
  <2>2. QED BY <1>2, <2>1, InvType, WireSplits
<1>4. PICK s \in Seq(Byte) : s = src \o w
  <2>1. src \o w \in Seq(Byte) BY <1>3, InvType
  <2>2. QED BY <2>1
<1>5. src' = s /\ wire' = x BY <1>1, <1>2, <1>4
<1>6. TypeOK' BY <1>1, <1>3, <1>5, InvType DEF TypeOK
<1>7. PICK v : Covers(closed, src, wire, PendingBytes, v) BY <1>1, BufferFacts
<1>8. Covers(closed, s, x, PendingBytes, v)
  <2>1. Covers(closed, src \o w, x, PendingBytes, v) BY <1>3, <1>7, CoversRead
  <2>2. QED BY <1>4, <2>1
<1>9. Delivers(closed, s, x, PendingBytes) BY <1>8, InvType, CoversPrefix
<1>10. PendingBytes' = PendingBytes BY <1>1 DEF PendingBytes, Pending
<1>11. Delivers(closed', src', wire', PendingBytes') BY <1>1, <1>5, <1>9, <1>10
<1>12. FramesIntact'
  <2>1. IsPrefix(decoded', sent') BY <1>1, InvType
  <2>2. QED BY <1>11, <2>1 DEF FramesIntact, Delivers
<1>13. QED BY <1>6, <1>12 DEF Inv

LEMMA YieldInv ==
  ASSUME Inv, Yield
  PROVE  Inv'
<1>1. /\ ended = "no" /\ Outcome = "packet"
      /\ decoded' = Append(decoded, PktData)
      /\ src' = SubSeq(src, TotalLen + 1, Len(src))
      /\ UNCHANGED <<sent, wire, closed, reading, ended>>
  BY DEF Yield, Decoding, netVars
<1>2. Pending # <<>> BY <1>1, OutcomeFacts
<1>3. PICK p \in Packets : p = Head(Pending) BY <1>2, PendingFacts
<1>4. PICK f \in Seq(Byte) : f = Frame(p) BY FrameShape
<1>5. Len(src) >= Len(f) /\ TotalLen = Len(f) /\ PktData = p
  BY <1>1, <1>3, <1>4, OutcomeFacts
<1>6. PICK m \in Seq(Byte) : m = BytesOf(Tail(Pending)) BY <1>2, PendingFacts
<1>7. PendingBytes = f \o m BY <1>2, <1>3, <1>4, <1>6, PendingFacts
<1>8. PICK v : Covers(closed, src, wire, PendingBytes, v) BY <1>1, BufferFacts
<1>9. Covers(closed, After(src, Len(f)), wire, m, v) BY <1>5, <1>7, <1>8, CoversYield
<1>10. src' = After(src, Len(f)) BY <1>1, <1>5 DEF After
<1>11. Delivers(closed, After(src, Len(f)), wire, m) BY <1>9, InvType, CoversPrefix
<1>12. After(src, Len(f)) \in Seq(Byte) BY <1>9 DEF Covers
<1>13. /\ IsPrefix(Append(decoded, p), sent)
       /\ RestOf(sent, Append(decoded, p)) = Tail(RestOf(sent, decoded))
  BY <1>2, <1>3, InvType, RestYield, PendingIs
<1>14. TypeOK'
  <2>1. Append(decoded, p) \in Seq(Packets) BY InvType
  <2>2. QED BY <1>1, <1>5, <1>10, <1>12, <2>1, InvType DEF TypeOK
<1>15. PendingBytes' = m
  <2>1. Pending' = Tail(Pending) BY <1>1, <1>5, <1>13 DEF Pending, RestOf
  <2>2. PendingBytes' = BytesOf(Pending') BY DEF PendingBytes, BytesOf, Frames
  <2>3. QED BY <1>6, <2>1, <2>2
<1>16. Delivers(closed', src', wire', PendingBytes') BY <1>1, <1>10, <1>11, <1>15
<1>17. FramesIntact'
  <2>1. IsPrefix(decoded', sent') BY <1>1, <1>5, <1>13
  <2>2. QED BY <1>16, <2>1 DEF FramesIntact, Delivers
<1>18. QED BY <1>14, <1>17 DEF Inv

LEMMA RejectInv ==
  ASSUME Inv, Reject
  PROVE  Inv'
<1>1. /\ ended = "no" /\ ended' = "err"
      /\ UNCHANGED <<sent, wire, closed, reading, decoded>>
      /\ \/ UNCHANGED src
         \/ Outcome = "packet" /\ src' = SubSeq(src, TotalLen + 1, Len(src))
  BY DEF Reject, Decoding, netVars
<1>2. src' \in Seq(Byte)
  <2>1. CASE UNCHANGED src BY <2>1, InvType
  <2>2. CASE Outcome = "packet" /\ src' = SubSeq(src, TotalLen + 1, Len(src))
    <3>1. Pending # <<>> /\ TotalLen = Len(Frame(Head(Pending)))
      BY <1>1, <2>2, OutcomeFacts
    <3>2. Frame(Head(Pending)) \in Seq(Byte) BY <3>1, PendingFacts
    <3>3. PICK n \in Nat : n = TotalLen BY <3>1, <3>2
    <3>4. SubSeq(src, n + 1, Len(src)) \in Seq(Byte) BY InvType
    <3>5. QED BY <2>2, <3>3, <3>4
  <2>3. QED BY <1>1, <2>1, <2>2
<1>3. TypeOK' BY <1>1, <1>2, InvType DEF TypeOK
<1>4. FramesIntact' BY <1>1, InvType DEF FramesIntact
<1>5. QED BY <1>3, <1>4 DEF Inv

\* The steps that move no byte: the buffer, the bytes on the way and the packets
\* stay as they are, and at most the stream ends.
LEMMA QuietInv ==
  ASSUME Inv, UNCHANGED <<sent, wire, closed, src, decoded>>, reading' \in BOOLEAN,
         ended' \in {"no", "eof", "err", "panic"}, ended' = "no" => ended = "no"
  PROVE  Inv'
<1>1. TypeOK' BY InvType DEF TypeOK
<1>2. PendingBytes' = PendingBytes BY DEF PendingBytes, Pending
<1>3. IsPrefix(decoded', sent') BY InvType
<1>4. ended' = "no" => Delivers(closed, src, wire, PendingBytes)
  BY DEF Inv, FramesIntact, Delivers
<1>5. ended' = "no" => Delivers(closed', src', wire', PendingBytes') BY <1>2, <1>4
<1>6. FramesIntact' BY <1>3, <1>5 DEF FramesIntact, Delivers
<1>7. QED BY <1>1, <1>6 DEF Inv

LEMMA InitInv == Init => Inv
<1> SUFFICES ASSUME Init PROVE Inv OBVIOUS
<1>1. /\ sent = <<>> /\ wire = <<>> /\ closed = FALSE
      /\ src = <<>> /\ reading = TRUE /\ decoded = <<>> /\ ended = "no"
  BY DEF Init
<1>2. TypeOK
  <2>1. /\ <<>> \in Seq(Packets) /\ <<>> \in Seq(Byte) /\ Len(<<>>) = 0 OBVIOUS
  <2>2. 0 <= MaxPkts BY FramingAssumption
  <2>3. QED BY <1>1, <2>1, <2>2 DEF TypeOK
<1>3. Pending = <<>> BY <1>1 DEF Pending
<1>4. PendingBytes = <<>>
  <2>1. PendingBytes = BytesOf(Pending) BY DEF PendingBytes, BytesOf, Frames
  <2>2. QED BY <1>3, <2>1, BytesOfEmpty, Zenon
<1>5. IsPrefix(decoded, sent) BY <1>1 DEF IsPrefix
<1>6. src \o wire = <<>> BY <1>1
<1>7. FramesIntact BY <1>1, <1>4, <1>5, <1>6 DEF FramesIntact
<1>8. QED BY <1>2, <1>7 DEF Inv

LEMMA StepInv == Inv /\ [Next]_vars => Inv'
<1> SUFFICES ASSUME Inv, [Next]_vars PROVE Inv' OBVIOUS
<1>1. ASSUME NEW p \in Packets, Send(p) PROVE Inv' BY <1>1, SendInv
<1>2. ASSUME NEW k \in 0 .. Len(wire), Close(k) PROVE Inv' BY <1>2, CloseInv
<1>3. ASSUME NEW k \in 1 .. Len(wire), ReadBytes(k) PROVE Inv' BY <1>3, ReadBytesInv
<1>4. CASE ReadEof
  <2>1. /\ UNCHANGED <<sent, wire, closed, src, decoded, reading>>
        /\ ended' \in {"eof", "err"}
    BY <1>4 DEF ReadEof, netVars
  <2>2. QED BY <2>1, InvType, QuietInv
<1>5. CASE NeedMore
  <2>1. UNCHANGED <<sent, wire, closed, src, decoded, ended>> /\ reading' = TRUE
    BY <1>5 DEF NeedMore, netVars
  <2>2. QED BY <2>1, InvType, QuietInv
<1>6. CASE Yield BY <1>6, YieldInv
<1>7. CASE Reject BY <1>7, RejectInv
<1>8. CASE Panic
  <2>1. UNCHANGED <<sent, wire, closed, src, decoded, reading>> /\ ended' = "panic"
    BY <1>8 DEF Panic, netVars
  <2>2. QED BY <2>1, InvType, QuietInv
<1>9. CASE OtherBranch \/ UNCHANGED vars
  <2>1. UNCHANGED <<sent, wire, closed, src, decoded, reading, ended>>
    BY <1>9 DEF OtherBranch, vars, netVars
  <2>2. QED BY <2>1, InvType, QuietInv
<1>10. QED
  BY <1>1, <1>2, <1>3, <1>4, <1>5, <1>6, <1>7, <1>8, <1>9 DEF Next, Read, Decode

LEMMA Invariance == Spec => []Inv
<1>1. QED BY InitInv, StepInv, PTL DEF Spec

\* The buffer, the bytes on the way and the packets keep their types, and what
\* FramedRead has yielded are packets of the broker (MqttCodec::decode yields
\* nothing that the broker has not written).
THEOREM Types == Spec => []TypeOK
<1>1. Inv => TypeOK BY DEF Inv
<1>2. QED BY <1>1, Invariance, PTL

\* Whatever the lengths of the packets, however the connection cuts their bytes
\* and whenever select! drops the read, the packets that mqtt_read.next() yields
\* are those that the broker has written, in their order, and the buffer begins
\* where the next of them begins: decode waits for, takes and skips exactly the
\* bytes of one packet (mqtt_codec.rs:25-67).
THEOREM FramesStayIntact == Spec => []FramesIntact
<1>1. Inv => FramesIntact BY DEF Inv
<1>2. QED BY <1>1, Invariance, PTL

-----------------------------------------------------------------------------
(* No packet waits in the buffer.                                          *)

LEMMA WaitsStep == Inv /\ NoPacketWaits /\ [Next]_vars => NoPacketWaits'
<1> SUFFICES ASSUME Inv, NoPacketWaits, [Next]_vars PROVE NoPacketWaits' OBVIOUS
<1>1. ASSUME NEW p \in Packets, Send(p) PROVE NoPacketWaits'
  <2>1. /\ ended = "no" /\ sent' = Append(sent, p)
        /\ UNCHANGED <<closed, src, reading, decoded, ended>>
    BY <1>1 DEF Send
  <2>2. RestOf(Append(sent, p), decoded) = Append(RestOf(sent, decoded), p)
    BY InvType, RestAppend
  <2>3. PICK q \in Seq(Packets) : q = Pending BY PendingFacts
  <2>4. Pending' = Append(q, p) BY <2>1, <2>2, <2>3 DEF Pending, RestOf
  <2>5. CASE q = <<>>
    <3>1. src = <<>> BY <2>1, <2>3, <2>5, BufferFacts
    <3>2. Head(Pending') = p BY <2>4, <2>5
    <3>3. Len(Frame(p)) > 0
      <4>1. /\ Len(Code(p)) \in Nat /\ Len(p.body) \in Nat
            /\ Len(Frame(p)) = 1 + Len(Code(p)) + Len(p.body)
        BY FrameShape
      <4>2. PICK c, b, n : c = Len(Code(p)) /\ b = Len(p.body) /\ n = Len(Frame(p)) OBVIOUS
      <4>3. c \in Nat /\ b \in Nat /\ n = 1 + c + b BY <4>1, <4>2
      <4>4. n > 0 BY <4>3
      <4>5. QED BY <4>2, <4>4
    <3>4. Len(src') = 0 BY <2>1, <3>1
    <3>5. Len(src') < Len(Frame(Head(Pending'))) BY <3>2, <3>3, <3>4
    <3>6. QED BY <3>5 DEF NoPacketWaits
  <2>6. CASE q # <<>>
    <3>1. Head(Pending') = Head(q) BY <2>4, <2>6
    <3>2. reading => Len(src) < Len(Frame(Head(q)))
      BY <2>1, <2>3, <2>6 DEF NoPacketWaits
    <3>3. reading' => Len(src') < Len(Frame(Head(Pending'))) BY <2>1, <3>1, <3>2
    <3>4. QED BY <3>3 DEF NoPacketWaits
  <2>7. QED BY <2>5, <2>6
<1>2. ASSUME NEW k \in 0 .. Len(wire), Close(k) PROVE NoPacketWaits'
  <2>1. UNCHANGED <<sent, src, reading, decoded, ended>> BY <1>2 DEF Close
  <2>2. Pending' = Pending BY <2>1 DEF Pending
  <2>3. QED BY <2>1, <2>2 DEF NoPacketWaits
<1>3. ASSUME NEW k \in 1 .. Len(wire), ReadBytes(k) PROVE NoPacketWaits'
  <2>1. reading' = FALSE BY <1>3 DEF ReadBytes
  <2>2. QED BY <2>1 DEF NoPacketWaits
<1>4. CASE ReadEof
  <2>1. ended' # "no" BY <1>4 DEF ReadEof
  <2>2. QED BY <2>1 DEF NoPacketWaits
<1>5. CASE NeedMore
  <2>1. /\ ended = "no" /\ Outcome = "more"
        /\ UNCHANGED <<sent, src, decoded, ended>>
    BY <1>5 DEF NeedMore, Decoding, netVars
  <2>2. Pending' = Pending BY <2>1 DEF Pending
  <2>3. Pending # <<>> => Len(src) < Len(Frame(Head(Pending))) BY <2>1, OutcomeFacts
  <2>4. QED BY <2>1, <2>2, <2>3 DEF NoPacketWaits
<1>6. CASE Yield BY <1>6 DEF Yield, Decoding, NoPacketWaits
<1>7. CASE Reject BY <1>7 DEF Reject, NoPacketWaits
<1>8. CASE Panic BY <1>8 DEF Panic, NoPacketWaits
<1>9. CASE OtherBranch \/ UNCHANGED vars
  <2>1. UNCHANGED <<sent, src, reading, decoded, ended>>
    BY <1>9 DEF OtherBranch, vars, netVars
  <2>2. Pending' = Pending BY <2>1 DEF Pending
  <2>3. QED BY <2>1, <2>2 DEF NoPacketWaits
<1>10. QED
  BY <1>1, <1>2, <1>3, <1>4, <1>5, <1>6, <1>7, <1>8, <1>9 DEF Next, Read, Decode

\* FramedRead never waits for bytes while the buffer holds a whole packet: after
\* a packet decode is called again before the connection is read, and it asks
\* for more only inside a packet (mqtt_codec.rs:26-28 and 58-61).
THEOREM NoPacketIsHeldBack == Spec => []NoPacketWaits
<1>1. Init => NoPacketWaits
  <2> SUFFICES ASSUME Init PROVE NoPacketWaits OBVIOUS
  <2>1. Pending = <<>> BY DEF Init, Pending
  <2>2. QED BY <2>1 DEF NoPacketWaits
<1>2. QED BY <1>1, WaitsStep, Invariance, PTL DEF Spec

-----------------------------------------------------------------------------
(* How the stream ends.                                                    *)

\* The connection has ended, and the task has read its last byte.
LEMMA EofIsExact ==
  ASSUME Inv, NoPacketWaits, ReadEof
  PROVE  EndIsExact'
<1>1. /\ ended = "no" /\ reading /\ closed
      /\ ended' = IF src = <<>> THEN "eof" ELSE "err"
      /\ UNCHANGED <<sent, wire, closed, src, reading, decoded>>
  BY DEF ReadEof, netVars
<1>2. Pending' = Pending BY <1>1 DEF Pending
<1>3. CASE src = <<>>
  <2>1. ended' = "eof" /\ closed' /\ src' = <<>> BY <1>1, <1>3
  <2>2. QED BY <2>1 DEF EndIsExact
<1>4. CASE src # <<>>
  <2>1. Pending # <<>> BY <1>1, <1>4, BufferFacts
  <2>2. PICK f : f = Frame(Head(Pending)) OBVIOUS
  <2>3. Len(src) < Len(f) BY <1>1, <2>1, <2>2 DEF NoPacketWaits
  <2>4. PICK w : Cut(Byte, f, BytesOf(Tail(Pending)), src, w)
    BY <1>1, <2>1, <2>2, BufferFacts
  <2>5. src = SubSeq(f, 1, Len(src)) BY <2>3, <2>4, CutShort
  <2>6. f \in Seq(Byte) /\ src \in Seq(Byte) BY <2>4 DEF Cut
  <2>7. IsStrictPrefix(src, f)
    <3>1. Len(src) <= Len(f) /\ src # f BY <2>3, <2>6
    <3>2. SubSeq(src, 1, Len(src)) = src BY <2>6, SubSeqFull
    <3>3. SubSeq(src, 1, Len(src)) = SubSeq(f, 1, Len(src)) BY <2>5, <3>2
    <3>4. QED BY <3>1, <3>3 DEF IsStrictPrefix, IsPrefix
  <2>8. /\ ended' = "err" /\ closed' /\ src' # <<>>
        /\ IsStrictPrefix(src', Frame(Head(Pending')))
    BY <1>1, <1>2, <1>4, <2>2, <2>7
  <2>9. QED BY <2>8 DEF EndIsExact
<1>5. QED BY <1>3, <1>4

\* decode returns an error.
LEMMA RejectIsExact ==
  ASSUME Inv, Reject
  PROVE  EndIsExact'
<1>1. /\ ended = "no" /\ ended' = "err" /\ UNCHANGED <<sent, decoded>>
      /\ Outcome = "error" \/ (Outcome = "packet" /\ Malformed(PktData))
  BY DEF Reject, Decoding, netVars
<1>2. Pending' = Pending BY <1>1 DEF Pending
<1>3. PICK p : p = Head(Pending) OBVIOUS
<1>4. Pending # <<>> BY <1>1, OutcomeFacts
<1>5. Malformed(p) \/ TypeOf(p.first) = 0 \/ TooLong(p) BY <1>1, <1>3, OutcomeFacts
<1>6. QED BY <1>1, <1>2, <1>3, <1>4, <1>5 DEF EndIsExact

\* decode, or the parser that it calls, panics.
LEMMA PanicIsExact ==
  ASSUME Inv, Panic
  PROVE  EndIsExact'
<1>1. /\ ended = "no" /\ ended' = "panic" /\ UNCHANGED <<sent, decoded>>
      /\ Outcome = "panic" \/ (Outcome = "packet" /\ ~ Readable(PktData))
  BY DEF Panic, Decoding, netVars
<1>2. Pending' = Pending BY <1>1 DEF Pending
<1>3. PICK p : p = Head(Pending) OBVIOUS
<1>4. Pending # <<>> BY <1>1, OutcomeFacts
<1>5. ~ Readable(p) \/ TooLong(p) BY <1>1, <1>3, OutcomeFacts
<1>6. QED BY <1>1, <1>2, <1>3, <1>4, <1>5 DEF EndIsExact

LEMMA EndStep == Inv /\ NoPacketWaits /\ EndIsExact /\ [Next]_vars => EndIsExact'
<1> SUFFICES ASSUME Inv, NoPacketWaits, EndIsExact, [Next]_vars PROVE EndIsExact'
  OBVIOUS
<1>1. ASSUME ended' = "no" PROVE EndIsExact' BY <1>1 DEF EndIsExact
<1>2. ASSUME NEW p \in Packets, Send(p) PROVE EndIsExact' BY <1>1, <1>2 DEF Send
<1>3. ASSUME NEW k \in 0 .. Len(wire), Close(k) PROVE EndIsExact'
  BY <1>1, <1>3 DEF Close
<1>4. ASSUME NEW k \in 1 .. Len(wire), ReadBytes(k) PROVE EndIsExact'
  BY <1>1, <1>4 DEF ReadBytes
<1>5. CASE ReadEof BY <1>5, EofIsExact
<1>6. CASE NeedMore BY <1>1, <1>6 DEF NeedMore, Decoding
<1>7. CASE Yield BY <1>1, <1>7 DEF Yield, Decoding
<1>8. CASE Reject BY <1>8, RejectIsExact
<1>9. CASE Panic BY <1>9, PanicIsExact
<1>10. CASE OtherBranch \/ UNCHANGED vars
  <2>1. UNCHANGED <<sent, closed, src, decoded, ended>>
    BY <1>10 DEF OtherBranch, vars, netVars
  <2>2. Pending' = Pending BY <2>1 DEF Pending
  <2>3. QED BY <2>1, <2>2 DEF EndIsExact
<1>11. QED
  BY <1>2, <1>3, <1>4, <1>5, <1>6, <1>7, <1>8, <1>9, <1>10 DEF Next, Read, Decode

\* The stream ends cleanly only when every byte has been taken by a packet, with
\* an error only when the connection ends inside a packet or at a packet whose
\* type, length or body is wrong, and with a panic only at a packet that parse_pkt
\* has no arm for, a malformed one or one whose length overflows.
THEOREM EndsExactly == Spec => []EndIsExact
<1>1. Init => EndIsExact BY DEF Init, EndIsExact
<1>2. Spec => [](Inv /\ NoPacketWaits) BY Invariance, NoPacketIsHeldBack, PTL
<1>3. QED BY <1>1, <1>2, EndStep, PTL DEF Spec
==============================================================================
