----------------------------- MODULE DataLemmas -----------------------------
(***************************************************************************)
(* Facts about naturals and sequences that the proofs share.               *)
(*                                                                         *)
(* That a set of naturals has a least element follows from the             *)
(* well-foundedness of the strict subset ordering on finite sets.  A fact  *)
(* about every number is then shown from its least counterexample.         *)
(***************************************************************************)
EXTENDS SequencesExt, FiniteSetTheorems, SequenceTheorems, TLAPS

-----------------------------------------------------------------------------
(* Least and greatest elements of sets of naturals.                        *)

\* A set of naturals that is not empty has a least element.
LEMMA LeastNat ==
  ASSUME NEW S \in SUBSET Nat, S # {}
  PROVE  \E m \in S : \A k \in S : m <= k
<1> DEFINE T == {1 .. k : k \in S}
           R == StrictSubsetOrdering(Nat)
<1>1. T \subseteq FiniteSubsetsOf(Nat)
  <2>1. SUFFICES ASSUME NEW k \in S PROVE IsFiniteSet(1 .. k) /\ 1 .. k \subseteq Nat
    BY DEF FiniteSubsetsOf
  <2>2. QED BY FS_Interval
<1>2. T # {} OBVIOUS
<1>3. IsWellFoundedOn(R, FiniteSubsetsOf(Nat))
  BY FS_StrictSubsetOrderingWellFounded
<1>4. PICK x \in T : \A y \in T : ~ (<<y, x>> \in R)
  <2> HIDE DEF T, R
  <2> QED BY <1>1, <1>2, <1>3, WFMin, Zenon
<1>5. PICK m \in S : x = 1 .. m OBVIOUS
<1>6. ASSUME NEW k \in S, k < m PROVE FALSE
  <2>1. 1 .. k \subseteq 1 .. m /\ m \in 1 .. m /\ m \notin 1 .. k BY <1>6
  <2>2. <<1 .. k, 1 .. m>> \in R BY <2>1 DEF StrictSubsetOrdering
  <2>3. QED BY <2>2, <1>4, <1>5
<1>7. QED BY <1>6

\* So a bounded one has a greatest element.
LEMMA GreatestNat ==
  ASSUME NEW S \in SUBSET Nat, S # {}, NEW n \in Nat, \A k \in S : k <= n
  PROVE  \E m \in S : \A k \in S : k <= m
<1> DEFINE D == {d \in Nat : \E k \in S : k = n - d}
<1>1. D \in SUBSET Nat /\ D # {}
  <2>1. PICK k \in S : TRUE OBVIOUS
  <2>2. n - k \in Nat /\ k = n - (n - k) OBVIOUS
  <2>3. QED BY <2>2
<1>2. PICK d \in D : \A k \in D : d <= k
  <2> HIDE DEF D
  <2> QED BY <1>1, LeastNat
<1>3. PICK m \in S : m = n - d OBVIOUS
<1>4. ASSUME NEW k \in S PROVE k <= m
  <2>1. n - k \in D BY k = n - (n - k)
  <2>2. d <= n - k BY <2>1, <1>2
  <2>3. QED BY <2>2, <1>3
<1>5. QED BY <1>4

-----------------------------------------------------------------------------
(* Sequences.                                                              *)

LEMMA PrefixSplits ==
  ASSUME NEW S, NEW s \in Seq(S), NEW t \in Seq(S)
  PROVE  IsPrefix(s, t) <=> \E u \in Seq(S) : t = s \o u
<1>1. ASSUME IsPrefix(s, t) PROVE \E u \in Seq(S) : t = s \o u
  <2>1. Len(s) <= Len(t) /\ SubSeq(s, 1, Len(s)) = SubSeq(t, 1, Len(s))
    BY <1>1 DEF IsPrefix
  <2>2. Len(s) \in Nat /\ Len(t) \in Nat OBVIOUS
  <2>3. SubSeq(t, 1, Len(s)) \o SubSeq(t, Len(s) + 1, Len(t)) = SubSeq(t, 1, Len(t))
    <3>1. 1 \in 1 .. Len(t) + 1 /\ Len(s) \in 1 - 1 .. Len(t) /\ Len(t) \in Len(s) .. Len(t)
      BY <2>1, <2>2
    <3>2. QED BY <3>1, ConcatAdjacentSubSeq
  <2>4. SubSeq(s, 1, Len(s)) = s /\ SubSeq(t, 1, Len(t)) = t BY SubSeqFull
  <2>5. SubSeq(t, Len(s) + 1, Len(t)) \in Seq(S) BY <2>1, <2>2
  <2>6. QED BY <2>1, <2>3, <2>4, <2>5
<1>2. ASSUME NEW u \in Seq(S), t = s \o u PROVE IsPrefix(s, t)
  <2>1. Len(s) <= Len(t) BY <1>2
  <2>2. SubSeq(t, 1, Len(s)) = s BY <1>2
  <2>3. SubSeq(s, 1, Len(s)) = s BY SubSeqFull
  <2>4. QED BY <2>1, <2>2, <2>3 DEF IsPrefix
<1>3. QED BY <1>1, <1>2

\* What follows the first n elements of a.
After(a, n) == SubSeq(a, n + 1, Len(a))

\* Concatenation is associative, in a form that the provers use at once.
LEMMA Associative ==
  \A S : \A x, y, z \in Seq(S) : (x \o y) \o z = x \o (y \o z)
BY ConcatAssociative

\* The elements of a sequence that is a concatenation.
LEMMA ConcatElements ==
  ASSUME NEW S, NEW a \in Seq(S), NEW b \in Seq(S), NEW v, v = a \o b
  PROVE  /\ Len(v) = Len(a) + Len(b) /\ Len(b) \in Nat
         /\ \A i \in 1 .. Len(a) : v[i] = a[i]
         /\ \A i \in 1 .. Len(b) : v[Len(a) + i] = b[i]
OBVIOUS

\* a and b are the parts of a sequence that begins with s and goes on with t.
Cut(S, s, t, a, b) ==
  /\ s \in Seq(S) /\ t \in Seq(S) /\ a \in Seq(S) /\ b \in Seq(S)
  /\ a \o b = s \o t

\* A sequence that begins with s is cut after a: if s is in a, then a begins with
\* s, and what follows s goes on with b; if not, a is a part of s.
LEMMA CutLong ==
  ASSUME NEW S, NEW s, NEW t, NEW a, NEW b, Cut(S, s, t, a, b), Len(a) >= Len(s)
  PROVE  After(a, Len(s)) \in Seq(S) /\ a = s \o After(a, Len(s))
<1> DEFINE v == a \o b
           u == After(a, Len(s))
<1>0. s \in Seq(S) /\ t \in Seq(S) /\ a \in Seq(S) /\ b \in Seq(S) BY DEF Cut
<1>1. Len(a) \in Nat /\ Len(s) \in Nat BY <1>0
<1>2. /\ \A i \in 1 .. Len(a) : v[i] = a[i]
      /\ \A i \in 1 .. Len(s) : v[i] = s[i]
  <2>1. v = a \o b OBVIOUS
  <2>2. v = s \o t BY DEF Cut
  <2> HIDE DEF v
  <2>3. \A i \in 1 .. Len(a) : v[i] = a[i] BY <2>1, <1>0, ConcatElements
  <2>4. \A i \in 1 .. Len(s) : v[i] = s[i] BY <2>2, <1>0, ConcatElements
  <2>5. QED BY <2>3, <2>4
<1> HIDE DEF v
<1>3. u \in Seq(S) BY <1>0, <1>1 DEF After
<1>4. SubSeq(a, 1, Len(s)) = s
  <2>1. /\ SubSeq(a, 1, Len(s)) \in Seq(S) /\ Len(SubSeq(a, 1, Len(s))) = Len(s)
        /\ \A i \in 1 .. Len(s) : SubSeq(a, 1, Len(s))[i] = a[i]
    BY <1>0, <1>1
  <2>2. \A i \in 1 .. Len(s) : a[i] = s[i]
    <3>1. \A i \in 1 .. Len(s) : i \in 1 .. Len(a) BY <1>0, <1>1
    <3>2. QED BY <3>1, <1>2
  <2>3. QED BY <2>1, <2>2, <1>0, SeqEqual
<1>5. SubSeq(a, 1, Len(s)) \o SubSeq(a, Len(s) + 1, Len(a)) = SubSeq(a, 1, Len(a))
  <2>1. 1 \in 1 .. Len(a) + 1 /\ Len(s) \in 1 - 1 .. Len(a) /\ Len(a) \in Len(s) .. Len(a)
    BY <1>0, <1>1
  <2>2. QED BY <2>1, <1>0, ConcatAdjacentSubSeq
<1>6. SubSeq(a, 1, Len(a)) = a BY <1>0, SubSeqFull
<1>7. s \o u = a BY <1>4, <1>5, <1>6 DEF After
<1>8. QED BY <1>3, <1>7

LEMMA CutRest ==
  ASSUME NEW S, NEW s, NEW t, NEW a, NEW b, Cut(S, s, t, a, b), Len(a) >= Len(s)
  PROVE  t = After(a, Len(s)) \o b
<1>0. s \in Seq(S) /\ t \in Seq(S) /\ a \in Seq(S) /\ b \in Seq(S) BY DEF Cut
<1>1. After(a, Len(s)) \in Seq(S) /\ a = s \o After(a, Len(s)) BY CutLong
<1>2. PICK u \in Seq(S) : u = After(a, Len(s)) /\ a = s \o u BY <1>1
<1>3. s \o (u \o b) = s \o t
  <2>1. (s \o u) \o b = s \o (u \o b)
    <3>1. u \in Seq(S) BY <1>2
    <3>2. \A x, y, z \in Seq(S) : (x \o y) \o z = x \o (y \o z) BY Associative, SMTT(30)
    <3>3. QED BY <3>1, <3>2, <1>0, ZenonT(30)
  <2>2. a \o b = s \o t BY DEF Cut
  <2>3. QED BY <1>2, <2>1, <2>2, Zenon
<1>4. u \o b \in Seq(S) BY <1>0
<1>5. u \o b = t BY <1>0, <1>3, <1>4, ConcatSimplifications
<1>6. QED BY <1>2, <1>5

LEMMA CutShort ==
  ASSUME NEW S, NEW s, NEW t, NEW a, NEW b, Cut(S, s, t, a, b), Len(a) < Len(s)
  PROVE  a = SubSeq(s, 1, Len(a))
<1> DEFINE v == a \o b
           c == SubSeq(s, 1, Len(a))
<1>0. s \in Seq(S) /\ t \in Seq(S) /\ a \in Seq(S) /\ b \in Seq(S) BY DEF Cut
<1>1. Len(a) \in Nat /\ Len(s) \in Nat BY <1>0
<1>2. /\ \A i \in 1 .. Len(a) : v[i] = a[i]
      /\ \A i \in 1 .. Len(s) : v[i] = s[i]
  <2>1. v = a \o b OBVIOUS
  <2>2. v = s \o t BY DEF Cut
  <2> HIDE DEF v
  <2>3. \A i \in 1 .. Len(a) : v[i] = a[i] BY <2>1, <1>0, ConcatElements
  <2>4. \A i \in 1 .. Len(s) : v[i] = s[i] BY <2>2, <1>0, ConcatElements
  <2>5. QED BY <2>3, <2>4
<1> HIDE DEF v
<1>3. c \in Seq(S) /\ Len(c) = Len(a) /\ \A i \in 1 .. Len(a) : c[i] = s[i] BY <1>0, <1>1
<1> HIDE DEF c
<1>4. \A i \in 1 .. Len(a) : a[i] = c[i]
  <2>1. \A i \in 1 .. Len(a) : i \in 1 .. Len(s) BY <1>0, <1>1
  <2>2. QED BY <2>1, <1>2, <1>3
<1>5. a = c BY <1>3, <1>4, <1>0, SeqEqual
<1>6. QED BY <1>5 DEF c

LEMMA MiddleOfConcat ==
  ASSUME NEW S, NEW a \in Seq(S), NEW b \in Seq(S), NEW u \in Seq(S)
  PROVE  SubSeq((a \o b) \o u, Len(a) + 1, Len(a) + Len(b)) = b
<1> DEFINE t == (a \o b) \o u
           m == SubSeq(t, Len(a) + 1, Len(a) + Len(b))
<1>1. Len(a) \in Nat /\ Len(b) \in Nat /\ Len(u) \in Nat OBVIOUS
<1>2. t \in Seq(S) /\ Len(t) = Len(a) + Len(b) + Len(u) BY <1>1
<1>3. \A i \in 1 .. Len(b) : t[Len(a) + i] = b[i] BY <1>1
<1> HIDE DEF t
<1>4. m \in Seq(S) /\ Len(m) = Len(b) /\ \A i \in 1 .. Len(b) : m[i] = t[Len(a) + i]
  BY <1>1, <1>2
<1> HIDE DEF m
<1>5. m = b
  <2>1. \A i \in 1 .. Len(m) : m[i] = b[i] BY <1>3, <1>4
  <2>2. QED BY <2>1, <1>4, SeqEqual
<1>6. QED BY <1>5 DEF m, t

LEMMA TailOfConcat ==
  ASSUME NEW S, NEW x \in S, NEW f, f = <<x>>, NEW t, NEW a, NEW b, Cut(S, f, t, a, b),
         Len(a) >= 1
  PROVE  /\ Head(a) = x
         /\ Tail(a) \in Seq(S) /\ Len(Tail(a)) = Len(a) - 1
         /\ Tail(a) \o b = t
<1>0. t \in Seq(S) /\ a \in Seq(S) /\ b \in Seq(S) /\ a \o b = <<x>> \o t BY DEF Cut
<1>1. a # <<>> /\ Len(a) \in Nat
  <2>1. Len(a) # 0 /\ Len(a) \in Nat BY <1>0
  <2>2. QED BY <2>1
<1>2. /\ Head(a) = a[1] /\ Tail(a) \in Seq(S) /\ Len(Tail(a)) = Len(a) - 1
      /\ \A i \in 1 .. Len(Tail(a)) : Tail(a)[i] = a[i + 1]
  BY <1>0, <1>1, HeadTailProperties
<1> DEFINE v == <<x>> \o t
           r == Tail(a) \o b
<1>3. /\ v \in Seq(S) /\ Len(v) = 1 + Len(t) /\ Len(t) \in Nat
      /\ v[1] = x /\ \A i \in 1 .. Len(t) : v[i + 1] = t[i]
  <2>1. t \in Seq(S) BY <1>0
  <2>2. QED BY <2>1
<1>4. /\ Len(a) + Len(b) = Len(v) /\ Len(b) \in Nat
      /\ \A i \in 1 .. Len(a) : v[i] = a[i]
      /\ \A i \in 1 .. Len(b) : v[Len(a) + i] = b[i]
  <2>1. v = a \o b BY <1>0
  <2>2. a \in Seq(S) /\ b \in Seq(S) BY <1>0
  <2> HIDE DEF v
  <2>3. QED BY <2>1, <2>2, ConcatElements
<1>5. /\ r \in Seq(S) /\ Len(r) = Len(Tail(a)) + Len(b)
      /\ \A i \in 1 .. Len(Tail(a)) : r[i] = Tail(a)[i]
      /\ \A i \in 1 .. Len(b) : r[Len(Tail(a)) + i] = b[i]
  <2>1. a \in Seq(S) /\ b \in Seq(S) BY <1>0
  <2>2. QED BY <2>1, <1>2
<1> HIDE DEF v, r
<1>6. Head(a) = x
  <2>1. 1 \in 1 .. Len(a) BY <1>1
  <2>2. QED BY <2>1, <1>2, <1>3, <1>4
<1>7. Len(r) = Len(t) BY <1>1, <1>2, <1>3, <1>4, <1>5
<1>8. ASSUME NEW i \in 1 .. Len(r) PROVE r[i] = t[i]
  <2>1. i \in 1 .. Len(t) /\ t[i] = v[i + 1] BY <1>3, <1>7
  <2>2. CASE i <= Len(a) - 1
    <3>1. i \in 1 .. Len(Tail(a)) /\ i + 1 \in 1 .. Len(a) BY <2>1, <2>2, <1>1, <1>2
    <3>2. r[i] = a[i + 1] BY <3>1, <1>2, <1>5
    <3>3. QED BY <3>1, <3>2, <2>1, <1>4
  <2>3. CASE ~ (i <= Len(a) - 1)
    <3>1. PICK j \in 1 .. Len(b) : i = Len(Tail(a)) + j
      <4>1. i - (Len(a) - 1) \in 1 .. Len(b) BY <2>1, <2>3, <1>1, <1>3, <1>4
      <4>2. i = Len(Tail(a)) + (i - (Len(a) - 1)) BY <2>1, <1>1, <1>2
      <4>3. QED BY <4>1, <4>2
    <3>2. r[i] = b[j] BY <3>1, <1>5
    <3>3. i + 1 = Len(a) + j BY <3>1, <1>1, <1>2
    <3>4. QED BY <3>2, <3>3, <2>1, <1>4
  <2>4. QED BY <2>2, <2>3
<1>9. r = t
  <2>1. t \in Seq(S) BY <1>0
  <2>2. QED BY <2>1, <1>5, <1>7, <1>8, SeqEqual
<1>10. QED BY <1>2, <1>6, <1>9 DEF r

\* What is decoded from the part u of a number and what follows it.

\* If what is cut begins with the element x, then so does a, and its tail is
\* the first part of the rest.
LEMMA CutTail ==
  ASSUME NEW S, NEW x \in S, NEW s \in Seq(S), NEW f, f = <<x>> \o s,
         NEW t, NEW a, NEW b, Cut(S, f, t, a, b), Len(a) >= 1
  PROVE  Head(a) = x /\ Len(Tail(a)) = Len(a) - 1 /\ Cut(S, s, t, Tail(a), b)
<1>1. t \in Seq(S) /\ a \in Seq(S) /\ b \in Seq(S) /\ a \o b = f \o t BY DEF Cut
<1>2. PICK y \in Seq(S) : y = <<x>>
  <2>1. <<x>> \in Seq(S) OBVIOUS
  <2>2. QED BY <2>1
<1>3. (y \o s) \o t = y \o (s \o t)
  <2>1. t \in Seq(S) BY <1>1
  <2>2. QED BY <2>1, ConcatAssociative
<1>4. PICK v \in Seq(S) : v = s \o t
  <2>1. s \o t \in Seq(S) BY <1>1
  <2>2. QED BY <2>1
<1>5. Cut(S, y, v, a, b)
  <2>1. a \o b = y \o v BY <1>1, <1>2, <1>3, <1>4, Zenon
  <2>2. QED BY <1>1, <2>1 DEF Cut
<1>6. Head(a) = x /\ Tail(a) \in Seq(S) /\ Len(Tail(a)) = Len(a) - 1 /\ Tail(a) \o b = v
  BY <1>2, <1>5, TailOfConcat
<1>7. QED BY <1>1, <1>4, <1>6 DEF Cut

LEMMA CutInner ==
  ASSUME NEW S, NEW s \in Seq(S), NEW v \in Seq(S), NEW f, f = s \o v,
         NEW t, NEW a, NEW b, Cut(S, f, t, a, b)
  PROVE  Cut(S, s, v \o t, a, b)
<1>1. t \in Seq(S) /\ a \in Seq(S) /\ b \in Seq(S) /\ a \o b = f \o t BY DEF Cut
<1>2. (s \o v) \o t = s \o (v \o t)
  <2>1. \A x, y, z \in Seq(S) : (x \o y) \o z = x \o (y \o z) BY Associative, SMTT(30)
  <2>2. QED BY <1>1, <2>1, Zenon
<1>3. a \o b = s \o (v \o t) BY <1>1, <1>2, Zenon
<1>4. v \o t \in Seq(S) BY <1>1
<1>5. QED BY <1>1, <1>3, <1>4 DEF Cut

-----------------------------------------------------------------------------
(* FlattenSeq, whose recursive function is shown to exist as EncodeVbi is. *)

\* f is the concatenations of the first sequences of s, up to N of them.
ChainTo(s, N, f) ==
  f = [i \in 1 .. N |-> IF i = 1 THEN s[i] ELSE f[i - 1] \o s[i]]

LEMMA ChainExists ==
  ASSUME NEW s, NEW N \in Nat
  PROVE  \E f : ChainTo(s, N, f)
<1> DEFINE S == {k \in Nat : ~ \E f : ChainTo(s, k, f)}
<1>1. SUFFICES ASSUME S # {} PROVE FALSE OBVIOUS
<1>2. S \in SUBSET Nat OBVIOUS
<1>3. PICK m \in S : \A k \in S : m <= k
  <2> HIDE DEF S
  <2> QED BY <1>1, <1>2, LeastNat
<1>4. CASE m = 0
  <2> DEFINE f == [i \in 1 .. 0 |-> s[i]]
  <2>1. f = [i \in 1 .. 0 |-> IF i = 1 THEN s[i] ELSE f[i - 1] \o s[i]]
    <3> DEFINE g == [i \in 1 .. 0 |-> IF i = 1 THEN s[i] ELSE f[i - 1] \o s[i]]
    <3>1. \A i \in 1 .. 0 : FALSE OBVIOUS
    <3>2. \A i \in 1 .. 0 : f[i] = g[i] BY <3>1
    <3>3. QED BY <3>2
  <2>2. ChainTo(s, 0, f) BY <2>1 DEF ChainTo
  <2>3. QED BY <2>2, <1>4
<1>5. CASE m # 0
  <2>1. m - 1 \in Nat /\ m - 1 < m BY <1>5
  <2>2. m - 1 \notin S BY <2>1, <1>3
  <2>3. PICK f : ChainTo(s, m - 1, f) BY <2>1, <2>2
  <2> DEFINE E(h, i) == IF i = 1 THEN s[i] ELSE h[i - 1] \o s[i]
             g == [i \in 1 .. m |-> E(f, i)]
             h == [i \in 1 .. m |-> E(g, i)]
  <2>4. ASSUME NEW i \in 1 .. m - 1 PROVE g[i] = f[i]
    <3>1. f = [j \in 1 .. m - 1 |-> E(f, j)] BY <2>3 DEF ChainTo
    <3>2. f[i] = E(f, i)
      <4> HIDE DEF E
      <4> QED BY <3>1
    <3>3. i \in 1 .. m OBVIOUS
    <3> HIDE DEF E
    <3>4. g[i] = E(f, i) BY <3>3
    <3>5. QED BY <3>2, <3>4
  <2>5. ASSUME NEW i \in 1 .. m PROVE E(f, i) = E(g, i)
    <3> HIDE DEF g
    <3>1. CASE i = 1 BY <3>1
    <3>2. CASE i # 1
      <4>1. i - 1 \in 1 .. m - 1 BY <3>2
      <4>2. g[i - 1] = f[i - 1] BY <4>1, <2>4
      <4>3. QED BY <4>2
    <3>3. QED BY <3>1, <3>2
  <2>6. g = h
    <3> HIDE DEF E
    <3>1. ASSUME NEW i \in 1 .. m PROVE g[i] = h[i]
      <4>1. g[i] = E(f, i) /\ h[i] = E(g, i) OBVIOUS
      <4>2. QED BY <4>1, <2>5
    <3>2. QED BY <3>1
  <2> HIDE DEF g
  <2>7. ChainTo(s, m, g) BY <2>6 DEF ChainTo
  <2>8. QED BY <2>7
<1>6. QED BY <1>4, <1>5

\* The equation of a chain, and its type.
LEMMA ChainValue ==
  ASSUME NEW s, NEW N \in Nat, NEW f, ChainTo(s, N, f), NEW i \in 1 .. N
  PROVE  f[i] = IF i = 1 THEN s[i] ELSE f[i - 1] \o s[i]
<1> DEFINE E(j) == IF j = 1 THEN s[j] ELSE f[j - 1] \o s[j]
<1>1. f = [j \in 1 .. N |-> E(j)] BY DEF ChainTo
<1> HIDE DEF E
<1>2. f[i] = E(i) BY <1>1
<1>3. QED BY <1>2 DEF E

LEMMA ChainType ==
  ASSUME NEW B, NEW s \in Seq(Seq(B)), NEW f, ChainTo(s, Len(s), f),
         NEW i \in 1 .. Len(s)
  PROVE  f[i] \in Seq(B)
<1> DEFINE S == {k \in Nat : k \in 1 .. Len(s) /\ f[k] \notin Seq(B)}
<1>1. SUFFICES ASSUME S # {} PROVE FALSE OBVIOUS
<1>2. S \in SUBSET Nat OBVIOUS
<1>3. PICK m \in S : \A k \in S : m <= k
  <2> HIDE DEF S
  <2> QED BY <1>1, <1>2, LeastNat
<1>4. m \in Nat /\ m \in 1 .. Len(s) /\ Len(s) \in Nat /\ s[m] \in Seq(B) OBVIOUS
<1>5. f[m] = IF m = 1 THEN s[m] ELSE f[m - 1] \o s[m] BY <1>4, ChainValue
<1>6. m # 1 BY <1>4, <1>5
<1>7. m - 1 \in 1 .. Len(s) /\ m - 1 \in Nat /\ m - 1 < m BY <1>4, <1>6
<1>8. f[m - 1] \in Seq(B) BY <1>3, <1>7
<1>9. f[m] \in Seq(B) BY <1>4, <1>5, <1>6, <1>8
<1>10. QED BY <1>9

\* FlattenSeq is the last element of a chain.
LEMMA FlattenIs ==
  ASSUME NEW B, NEW s \in Seq(Seq(B)), s # <<>>
  PROVE  \E f : ChainTo(s, Len(s), f) /\ FlattenSeq(s) = f[Len(s)]
<1> DEFINE g == CHOOSE f : ChainTo(s, Len(s), f)
<1>1. Len(s) \in Nat /\ Len(s) # 0 OBVIOUS
<1>2. ChainTo(s, Len(s), g) BY <1>1, ChainExists
<1>3. FlattenSeq(s) = g[Len(s)] BY <1>1 DEF FlattenSeq, ChainTo
<1> HIDE DEF g
<1>4. QED BY <1>2, <1>3

LEMMA FlattenEmpty == FlattenSeq(<<>>) = <<>>
BY DEF FlattenSeq

LEMMA FlattenType ==
  ASSUME NEW B, NEW s \in Seq(Seq(B))
  PROVE  FlattenSeq(s) \in Seq(B)
<1>1. CASE s = <<>>
  <2>1. FlattenSeq(s) = <<>> BY <1>1, FlattenEmpty, Zenon
  <2>2. <<>> \in Seq(B) OBVIOUS
  <2>3. QED BY <2>1, <2>2, Zenon
<1>2. CASE s # <<>>
  <2>1. PICK f : ChainTo(s, Len(s), f) /\ FlattenSeq(s) = f[Len(s)] BY <1>2, FlattenIs
  <2>2. Len(s) \in 1 .. Len(s) BY <1>2
  <2>3. QED BY <2>1, <2>2, ChainType
<1>3. QED BY <1>1, <1>2

\* Two chains agree as long as their sequences do.
LEMMA ChainUnique ==
  ASSUME NEW s, NEW N \in Nat, NEW f, ChainTo(s, N, f),
         NEW t, NEW M \in Nat, NEW g, ChainTo(t, M, g),
         N <= M, \A i \in 1 .. N : s[i] = t[i]
  PROVE  \A i \in 1 .. N : f[i] = g[i]
<1> DEFINE S == {j \in Nat : j \in 1 .. N /\ f[j] # g[j]}
<1>1. SUFFICES ASSUME S # {} PROVE FALSE OBVIOUS
<1>2. S \in SUBSET Nat OBVIOUS
<1>3. PICK m \in S : \A j \in S : m <= j
  <2> HIDE DEF S
  <2> QED BY <1>1, <1>2, LeastNat
<1>4. m \in Nat /\ m \in 1 .. N /\ m \in 1 .. M /\ s[m] = t[m] OBVIOUS
<1>5. f[m] = IF m = 1 THEN s[m] ELSE f[m - 1] \o s[m] BY <1>4, ChainValue
<1>6. g[m] = IF m = 1 THEN t[m] ELSE g[m - 1] \o t[m] BY <1>4, ChainValue
<1>7. f[m] # g[m] OBVIOUS
<1>8. m # 1 BY <1>4, <1>5, <1>6, <1>7
<1>9. m - 1 \in 1 .. N /\ m - 1 \in Nat /\ m - 1 < m BY <1>4, <1>8
<1>10. f[m - 1] = g[m - 1] BY <1>3, <1>9
<1>11. QED BY <1>4, <1>5, <1>6, <1>7, <1>8, <1>10

LEMMA FlattenAppend ==
  ASSUME NEW B, NEW s \in Seq(Seq(B)), NEW x \in Seq(B)
  PROVE  FlattenSeq(Append(s, x)) = FlattenSeq(s) \o x
<1> DEFINE t == Append(s, x)
           n == Len(s)
<1>1. n \in Nat /\ t \in Seq(Seq(B)) /\ Len(t) = n + 1 /\ t # <<>>
  <2>1. n \in Nat /\ t \in Seq(Seq(B)) /\ Len(t) = n + 1 OBVIOUS
  <2> HIDE DEF t, n
  <2>2. Len(t) # 0 BY <2>1
  <2>3. t # <<>> BY <2>2
  <2>4. QED BY <2>1, <2>3
<1>2. (\A i \in 1 .. n : t[i] = s[i]) /\ t[n + 1] = x OBVIOUS
<1> HIDE DEF t, n
<1>3. PICK g : ChainTo(t, Len(t), g) /\ FlattenSeq(t) = g[Len(t)] BY <1>1, FlattenIs
<1>4. n + 1 \in 1 .. Len(t) /\ Len(t) \in Nat BY <1>1
<1>5. g[n + 1] = IF n = 0 THEN t[n + 1] ELSE g[n] \o t[n + 1]
  <2>1. PICK j \in 1 .. Len(t) : j = n + 1 BY <1>4
  <2>2. g[j] = IF j = 1 THEN t[j] ELSE g[j - 1] \o t[j] BY <1>3, <1>4, ChainValue
  <2>3. (j = 1 <=> n = 0) /\ j - 1 = n BY <2>1, <1>1
  <2>4. QED BY <2>1, <2>2, <2>3
<1>6. CASE s = <<>>
  <2>1. n = 0 BY <1>6 DEF n
  <2>2. g[n + 1] = x BY <2>1, <1>2, <1>5
  <2>3. FlattenSeq(s) \o x = x BY <1>6, FlattenEmpty
  <2>4. QED BY <2>2, <2>3, <1>1, <1>3 DEF t
<1>7. CASE s # <<>>
  <2>1. n # 0 /\ n \in 1 .. n BY <1>7 DEF n
  <2>2. PICK f : ChainTo(s, n, f) /\ FlattenSeq(s) = f[n] BY <1>7, FlattenIs DEF n
  <2>3. n <= Len(t) BY <1>1
  <2>4. f[n] = g[n]
    <3>1. \A i \in 1 .. n : s[i] = t[i] BY <1>2
    <3>2. ChainTo(s, n, f) /\ ChainTo(t, Len(t), g) /\ n \in Nat /\ Len(t) \in Nat
      BY <2>2, <1>1, <1>3, <1>4
    <3>3. \A i \in 1 .. n : f[i] = g[i] BY <2>3, <3>1, <3>2, ChainUnique
    <3>4. QED BY <2>1, <3>3
  <2>5. g[n + 1] = g[n] \o x BY <2>1, <1>2, <1>5
  <2>6. FlattenSeq(t) = FlattenSeq(s) \o x BY <2>2, <2>4, <2>5, <1>1, <1>3
  <2>7. QED BY <2>6 DEF t
<1>8. QED BY <1>6, <1>7

LEMMA FlattenHead ==
  ASSUME NEW B, NEW s \in Seq(Seq(B)), s # <<>>
  PROVE  FlattenSeq(s) = Head(s) \o FlattenSeq(Tail(s))
<1> DEFINE t == Tail(s)
           n == Len(t)
           h == Head(s)
<1>1. /\ n \in Nat /\ t \in Seq(Seq(B)) /\ Len(s) = n + 1
      /\ h \in Seq(B) /\ s[1] = h
  OBVIOUS
<1>2. \A i \in 1 .. n : t[i] = s[i + 1] OBVIOUS
<1>3. PICK f : ChainTo(s, Len(s), f) /\ FlattenSeq(s) = f[Len(s)] BY FlattenIs
<1>4. \A i \in 1 .. Len(s) : f[i] = IF i = 1 THEN s[i] ELSE f[i - 1] \o s[i]
  BY <1>1, <1>3, ChainValue
<1>5. f[1] = h
  <2>1. 1 \in 1 .. Len(s) BY <1>1
  <2>2. QED BY <2>1, <1>1, <1>4
<1>6. CASE t = <<>>
  <2>1. n = 0
    <3> HIDE DEF t
    <3> QED BY <1>6
  <2>2. FlattenSeq(t) = <<>> BY <1>6, FlattenEmpty
  <2>3. h \o <<>> = h BY <1>1
  <2>4. QED BY <2>1, <2>2, <2>3, <1>1, <1>3, <1>5
<1>7. CASE t # <<>>
  <2>1. n # 0 /\ n \in 1 .. n
    <3> HIDE DEF t
    <3> QED BY <1>1, <1>7
  <2>2. PICK g : ChainTo(t, n, g) /\ FlattenSeq(t) = g[n] BY <1>1, <1>7, FlattenIs
  <2> HIDE DEF t, n, h
  <2>3. \A i \in 1 .. n : g[i] = IF i = 1 THEN t[i] ELSE g[i - 1] \o t[i]
    BY <1>1, <2>2, ChainValue
  <2>4. \A i \in 1 .. n : g[i] \in Seq(B) BY <1>1, <2>2, ChainType DEF n
  <2> DEFINE S == {i \in Nat : i \in 1 .. n /\ f[i + 1] # h \o g[i]}
  <2>5. S = {}
    <3>1. SUFFICES ASSUME S # {} PROVE FALSE OBVIOUS
    <3>2. S \in SUBSET Nat OBVIOUS
    <3>3. PICK m \in S : \A i \in S : m <= i
      <4> HIDE DEF S
      <4> QED BY <3>1, <3>2, LeastNat
    <3>4. m \in Nat /\ m \in 1 .. n /\ f[m + 1] # h \o g[m] OBVIOUS
    <3>5. ASSUME NEW i \in 1 .. n, i < m PROVE f[i + 1] = h \o g[i]
      <4>1. i \in Nat BY <1>1
      <4>2. i \notin S
        <5> HIDE DEF S
        <5> QED BY <4>1, <3>3, <3>4, <3>5
      <4>3. QED BY <4>1, <4>2
    <3> HIDE DEF S
    <3>6. m + 1 \in 1 .. Len(s) /\ m + 1 # 1 /\ m + 1 - 1 = m BY <3>4, <1>1
    <3>7. f[m + 1] = f[m] \o t[m]
      <4>1. PICK j \in 1 .. Len(s) : j = m + 1 BY <3>6
      <4>2. f[j] = IF j = 1 THEN s[j] ELSE f[j - 1] \o s[j] BY <1>4
      <4>3. j # 1 /\ j - 1 = m BY <4>1, <3>4, <3>6
      <4>4. t[m] = s[j] BY <4>1, <3>4, <1>2
      <4>5. QED BY <4>1, <4>2, <4>3, <4>4
    <3>8. t[m] \in Seq(B) BY <3>4, <1>1 DEF n
    <3>9. CASE m = 1
      <4>1. g[m] = t[m] BY <3>9, <3>4, <2>3
      <4>2. f[m + 1] = h \o g[m] BY <4>1, <3>7, <3>9, <1>5
      <4>3. QED BY <4>2, <3>4
    <3>10. CASE m # 1
      <4>1. m - 1 \in 1 .. n /\ m - 1 < m /\ m - 1 + 1 = m BY <3>4, <3>10, <1>1
      <4>2. f[m - 1 + 1] = h \o g[m - 1] BY <4>1, <3>5
      <4>3. g[m] = g[m - 1] \o t[m] BY <3>4, <3>10, <2>3
      <4>4. g[m - 1] \in Seq(B) BY <4>1, <2>4
      <4>5. (h \o g[m - 1]) \o t[m] = h \o (g[m - 1] \o t[m])
        <5>1. PICK a \in Seq(B) : a = g[m - 1] BY <4>4
        <5>2. PICK b \in Seq(B) : b = t[m] BY <3>8
        <5>3. h \in Seq(B) BY <1>1
        <5>4. \A x, y, z \in Seq(B) : (x \o y) \o z = x \o (y \o z) BY Associative, SMTT(30)
        <5>5. (h \o a) \o b = h \o (a \o b) BY <5>3, <5>4, Zenon
        <5>6. QED BY <5>1, <5>2, <5>5
      <4>6. f[m + 1] = h \o g[m] BY <4>1, <4>2, <4>3, <4>5, <3>7
      <4>7. QED BY <4>6, <3>4
    <3>11. QED BY <3>9, <3>10
  <2>6. f[n + 1] = h \o g[n] BY <2>1, <2>5, <1>1
  <2>7. FlattenSeq(s) = h \o FlattenSeq(t) BY <2>2, <2>6, <1>1, <1>3
  <2>8. QED BY <2>7 DEF t, h
<1>8. QED BY <1>6, <1>7
=============================================================================
