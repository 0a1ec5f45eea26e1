---------------------------- MODULE SequenceLemmas ----------------------------
(***************************************************************************)
(* What the proofs about files need of sequences: one more element, a      *)
(* part, and a sequence of sequences put together, which FlattenSeq        *)
(* defines by a recursive function on its places.                          *)
(***************************************************************************)
EXTENDS Integers, Sequences, SequencesExt, SequenceTheorems, WellFoundedInduction, TLAPS

LEMMA AppendFacts ==
  ASSUME NEW S, NEW s \in Seq(S), NEW x \in S
  PROVE  /\ Append(s, x) \in Seq(S)
         /\ Len(Append(s, x)) = Len(s) + 1
         /\ \A n \in 1..Len(s) : Append(s, x)[n] = s[n]
         /\ Append(s, x)[Len(s) + 1] = x
         /\ DOMAIN s = 1..Len(s) /\ Len(s) \in Nat
  OBVIOUS

(* Part of a sequence.                                                     *)
LEMMA PartFacts ==
  ASSUME NEW S, NEW s \in Seq(S), NEW i \in Nat \ {0}, NEW j \in Nat, j <= Len(s)
  PROVE  /\ SubSeq(s, i, j) \in Seq(S)
         /\ i <= j => Len(SubSeq(s, i, j)) = j - i + 1
         /\ \A k \in 1..(j - i + 1) : SubSeq(s, i, j)[k] = s[i + k - 1]
<1>1. \A k \in i..j : s[k] \in S
  <2> SUFFICES ASSUME NEW k \in i..j  PROVE s[k] \in S
    OBVIOUS
  <2>1. k \in 1..Len(s)
    BY LenProperties
  <2> QED  BY <2>1, ElementOfSeq
<1> QED  BY <1>1, SubSeqProperties

LEMMA HeadFacts ==
  ASSUME NEW S, NEW s \in Seq(S), NEW n \in Nat, n <= Len(s)
  PROVE  /\ SubSeq(s, 1, n) \in Seq(S) /\ Len(SubSeq(s, 1, n)) = n
         /\ \A k \in 1..n : SubSeq(s, 1, n)[k] = s[k]
<1>1. CASE n = 0
  BY <1>1, SubSeqEmpty, EmptySeq
<1>2. CASE n # 0
  BY <1>2, PartFacts
<1> QED  BY <1>1, <1>2

(* A sequence that has one first and then the other.                       *)
LEMMA Placewise ==
  ASSUME NEW S, NEW x \in Seq(S), NEW y \in Seq(S), NEW z \in Seq(S),
         Len(z) = Len(x) + Len(y),
         \A i \in 1..Len(x) : z[i] = x[i],
         \A i \in 1..Len(y) : z[Len(x) + i] = y[i]
  PROVE  z = x \o y
<1>1. /\ x \o y \in Seq(S) /\ Len(x \o y) = Len(x) + Len(y)
      /\ \A i \in 1..Len(x) + Len(y) : (x \o y)[i] = IF i <= Len(x) THEN x[i] ELSE y[i - Len(x)]
  BY ConcatProperties
<1>2. Len(x) \in Nat /\ Len(y) \in Nat
  OBVIOUS
<1>3. ASSUME NEW i \in 1..Len(x) + Len(y)  PROVE z[i] = (x \o y)[i]
  <2>1. CASE i <= Len(x)
    BY <1>1, <1>2, <2>1
  <2>2. CASE ~(i <= Len(x))
    <3>1. i - Len(x) \in 1..Len(y) /\ Len(x) + (i - Len(x)) = i
      BY <1>2, <2>2
    <3>2. z[i] = y[i - Len(x)]
      BY <3>1
    <3> QED  BY <1>1, <2>2, <3>2
  <2> QED  BY <2>1, <2>2
<1> QED  BY <1>1, <1>3, SeqEqual

LEMMA FirstOf ==
  ASSUME NEW S \in SUBSET Nat, S # {}
  PROVE  \E n \in S : \A k \in S : n <= k
<1>1. ASSUME NEW j \in Nat, NEW k \in Nat, j < k
      PROVE  <<j, k>> \in OpToRel(<, Nat)
  BY <1>1, Zenon DEF OpToRel
<1>2. PICK k \in S : \A j \in S : ~(<<j, k>> \in OpToRel(<, Nat))
  BY WFMin, NatLessThanWellFounded
<1>3. ASSUME NEW j \in S PROVE ~(j < k)
  BY <1>1, <1>2
<1>4. \A j \in S : k <= j
  BY <1>3
<1> QED BY <1>4

-----------------------------------------------------------------------------
(* Sequences put together                                                  *)

(* f puts the first n of ss together.                                      *)
UpTo(f, ss, n) ==
    f = [i \in 1..n |-> IF i = 1 THEN ss[i] ELSE f[i - 1] \o ss[i]]

LEMMA UpToAt ==
  ASSUME NEW ss, NEW n, NEW f, UpTo(f, ss, n), NEW i \in 1..n
  PROVE  f[i] = IF i = 1 THEN ss[i] ELSE f[i - 1] \o ss[i]
BY DEF UpTo

LEMMA UpToNext ==
  ASSUME NEW ss, NEW n \in Nat, NEW f, UpTo(f, ss, n)
  PROVE  \E g : UpTo(g, ss, n + 1)
<1> DEFINE last == IF n + 1 = 1 THEN ss[n + 1] ELSE f[n] \o ss[n + 1]
           g == [i \in 1..(n + 1) |-> IF i = n + 1 THEN last ELSE f[i]]
           h == [i \in 1..(n + 1) |-> IF i = 1 THEN ss[i] ELSE g[i - 1] \o ss[i]]
<1>1. ASSUME NEW i \in 1..n
      PROVE  f[i] = IF i = 1 THEN ss[i] ELSE f[i - 1] \o ss[i]
  BY DEF UpTo
<1> HIDE DEF last
<1>2. ASSUME NEW i \in 1..(n + 1)
      PROVE  g[i] = IF i = 1 THEN ss[i] ELSE g[i - 1] \o ss[i]
  <2>1. CASE i = n + 1
    <3>1. g[i] = last
      BY <2>1
    <3>2. CASE n = 0
      BY <2>1, <3>1, <3>2 DEF last
    <3>3. CASE n # 0
      <4>1. n \in 1..(n + 1) /\ n # n + 1 /\ i - 1 = n /\ i # 1
        BY <2>1, <3>3
      <4>2. g[n] = f[n]
        BY <4>1
      <4> QED  BY <2>1, <3>1, <4>1, <4>2 DEF last
    <3> QED  BY <3>2, <3>3
  <2>2. CASE i \in 1..n
    <3>1. g[i] = f[i]
      BY <2>2
    <3>2. CASE i = 1
      BY <1>1, <2>2, <3>1, <3>2
    <3>3. CASE i # 1
      <4>1. i - 1 \in 1..(n + 1) /\ i - 1 # n + 1
        BY <2>2, <3>3
      <4>2. g[i - 1] = f[i - 1]
        BY <4>1
      <4> QED  BY <1>1, <2>2, <3>1, <3>3, <4>2
    <3> QED  BY <3>2, <3>3
  <2> QED  BY <2>1, <2>2
<1>3. g = h
  BY <1>2
<1> HIDE DEF g
<1> QED  BY <1>3 DEF UpTo

LEMMA UpToExists == ASSUME NEW ss PROVE \A n \in Nat : \E f : UpTo(f, ss, n)
<1> DEFINE B == {n \in Nat : ~ \E f : UpTo(f, ss, n)}
<1>1. SUFFICES ASSUME B # {}  PROVE FALSE
  OBVIOUS
<1>2. PICK n \in B : \A k \in B : ~(<<k, n>> \in OpToRel(<, Nat))
  BY <1>1, WFMin, NatLessThanWellFounded
<1>0. n \in Nat
  BY <1>2
<1>3. n # 0
  <2> DEFINE f == [i \in 1..0 |-> <<>>]
  <2>1. 1..0 = {}
    OBVIOUS
  <2>2. UpTo(f, ss, 0)
    BY <2>1 DEF UpTo
  <2> QED  BY <1>2, <2>2
<1>4. n - 1 \in Nat /\ n - 1 + 1 = n /\ n - 1 < n
  BY <1>0, <1>3
<1>5. n - 1 \notin B
  BY <1>2, <1>4 DEF OpToRel
<1>6. PICK f : UpTo(f, ss, n - 1)
  BY <1>4, <1>5
<1>7. \E g : UpTo(g, ss, n)
  BY <1>4, <1>6, UpToNext
<1> QED  BY <1>2, <1>7

Same(s, t, n) == \A i \in 1..n : t[i] = s[i]

(* What is put together depends on no later place.                         *)
LEMMA UpToAgree ==
  ASSUME NEW ss, NEW tt, NEW n \in Nat, NEW m \in Nat, n <= m,
         NEW f, NEW g, UpTo(f, ss, n), UpTo(g, tt, m), Same(ss, tt, n)
  PROVE  Same(f, g, n)
<1> DEFINE B == {i \in Nat : i \in 1..n /\ g[i] # f[i]}
<1>1. SUFFICES ASSUME B # {}  PROVE FALSE
  BY DEF Same
<1>2. PICK i \in B : \A j \in B : ~(<<j, i>> \in OpToRel(<, Nat))
  BY <1>1, WFMin, NatLessThanWellFounded
<1>0. i \in Nat /\ i \in 1..n
  BY <1>2
<1>3. /\ f[i] = IF i = 1 THEN ss[i] ELSE f[i - 1] \o ss[i]
      /\ g[i] = IF i = 1 THEN tt[i] ELSE g[i - 1] \o tt[i]
  <2>1. i \in 1..n /\ i \in 1..m
    BY <1>0
  <2> QED  BY <2>1 DEF UpTo
<1>4. i # 1
  BY <1>0, <1>2, <1>3 DEF Same
<1>5. i - 1 \in Nat /\ i - 1 \in 1..n /\ i - 1 < i
  BY <1>0, <1>4
<1>6. i - 1 \notin B
  BY <1>2, <1>5 DEF OpToRel
<1>7. g[i - 1] = f[i - 1]
  BY <1>5, <1>6
<1> QED  BY <1>0, <1>2, <1>3, <1>4, <1>7 DEF Same

LEMMA FlattenIs ==
  ASSUME NEW S, NEW ss \in Seq(Seq(S)), Len(ss) # 0
  PROVE  \E f : UpTo(f, ss, Len(ss)) /\ FlattenSeq(ss) = f[Len(ss)]
<1> DEFINE f == CHOOSE f : UpTo(f, ss, Len(ss))
<1>1. FlattenSeq(ss) = f[Len(ss)]
  BY DEF FlattenSeq, UpTo
<1>2. Len(ss) \in Nat
  OBVIOUS
<1>3. \E g : UpTo(g, ss, Len(ss))
  BY <1>2, UpToExists
<1>4. UpTo(f, ss, Len(ss))
  BY <1>3
<1> QED  BY <1>1, <1>4

LEMMA FlattenTyped == ASSUME NEW S, NEW ss \in Seq(Seq(S)) PROVE FlattenSeq(ss) \in Seq(S)
<1>1. CASE Len(ss) = 0
  BY <1>1, EmptySeq DEF FlattenSeq
<1>2. CASE Len(ss) # 0
  <2>1. PICK f : UpTo(f, ss, Len(ss)) /\ FlattenSeq(ss) = f[Len(ss)]
    BY <1>2, FlattenIs
  <2>2. Len(ss) \in Nat /\ \A i \in 1..Len(ss) : ss[i] \in Seq(S)
    OBVIOUS
  <2> DEFINE B == {i \in Nat : i \in 1..Len(ss) /\ f[i] \notin Seq(S)}
  <2>3. ASSUME B # {}  PROVE FALSE
    <3>1. PICK i \in B : \A k \in B : ~(<<k, i>> \in OpToRel(<, Nat))
      BY <2>3, WFMin, NatLessThanWellFounded
    <3>2. i \in 1..Len(ss) /\ f[i] = IF i = 1 THEN ss[i] ELSE f[i - 1] \o ss[i]
      BY <2>1, <3>1 DEF UpTo
    <3>3. i # 1
      BY <2>2, <3>1, <3>2
    <3>4. i - 1 \in Nat /\ i - 1 \in 1..Len(ss) /\ i - 1 < i
      BY <2>2, <3>2, <3>3
    <3>5. f[i - 1] \in Seq(S)
      BY <3>1, <3>4 DEF OpToRel
    <3> QED  BY <2>2, <3>1, <3>2, <3>3, <3>5, ConcatProperties, ZenonT(60)
  <2>4. Len(ss) \in 1..Len(ss)
    BY <1>2, <2>2
  <2> QED  BY <2>1, <2>2, <2>3, <2>4
<1> QED  BY <1>1, <1>2

LEMMA FlattenLonger ==
  ASSUME NEW S, NEW ss \in Seq(Seq(S)), NEW tt \in Seq(Seq(S)), NEW n \in Nat, NEW m \in Nat,
         m = n + 1, Len(ss) = n, Len(tt) = m, \A i \in 1..n : tt[i] = ss[i]
  PROVE  FlattenSeq(tt) = FlattenSeq(ss) \o tt[m]
<1>1. PICK g : UpTo(g, tt, m) /\ FlattenSeq(tt) = g[m]
  BY FlattenIs
<1>2. m \in 1..m /\ m - 1 = n /\ n <= m
  OBVIOUS
<1>3. g[m] = IF m = 1 THEN tt[m] ELSE g[n] \o tt[m]
  BY <1>1, <1>2, UpToAt
<1>4. CASE n = 0
  <2>1. FlattenSeq(ss) = <<>>
    BY <1>4, EmptySeq DEF FlattenSeq
  <2>2. tt[m] \in Seq(S)
    BY <1>2
  <2>3. <<>> \o tt[m] = tt[m]
    BY <2>2
  <2> QED  BY <1>1, <1>3, <1>4, <2>1, <2>3
<1>5. CASE n # 0
  <2>1. PICK f : UpTo(f, ss, n) /\ FlattenSeq(ss) = f[n]
    BY <1>5, FlattenIs
  <2>2. n \in 1..n /\ m # 1
    BY <1>5
  <2>3. Same(ss, tt, n)
    BY DEF Same
  <2>4. Same(f, g, n)
    BY <1>1, <1>2, <2>1, <2>3, UpToAgree
  <2>5. g[n] = f[n]
    BY <2>2, <2>4 DEF Same
  <2> QED  BY <1>1, <1>3, <2>1, <2>2, <2>5
<1> QED  BY <1>4, <1>5

(* One more sequence is put behind those before it.                        *)
LEMMA FlattenAppend ==
  ASSUME NEW S, NEW ss \in Seq(Seq(S)), NEW s \in Seq(S)
  PROVE  FlattenSeq(Append(ss, s)) = FlattenSeq(ss) \o s
<1>1. /\ Append(ss, s) \in Seq(Seq(S)) /\ Len(Append(ss, s)) = Len(ss) + 1
      /\ Len(ss) \in Nat /\ Len(ss) + 1 \in Nat
      /\ \A n \in 1..Len(ss) : Append(ss, s)[n] = ss[n]
      /\ Append(ss, s)[Len(ss) + 1] = s
  BY AppendFacts
<1> QED  BY <1>1, FlattenLonger, ZenonT(60)

(* Induction: the numbers of which something holds are all.                *)
LEMMA AllNumbers ==
  ASSUME NEW G \in SUBSET Nat, 0 \in G, \A n \in G : n + 1 \in G
  PROVE  \A n \in Nat : n \in G
<1> DEFINE B == Nat \ G
<1>1. SUFFICES ASSUME B # {}  PROVE FALSE
  OBVIOUS
<1>2. PICK n \in B : \A k \in B : ~(<<k, n>> \in OpToRel(<, Nat))
  BY <1>1, WFMin, NatLessThanWellFounded
<1>3. n \in Nat /\ n # 0
  BY <1>2
<1>4. n - 1 \in Nat /\ n - 1 < n /\ (n - 1) + 1 = n
  BY <1>3
<1>5. n - 1 \in G
  BY <1>2, <1>4 DEF OpToRel
<1> QED  BY <1>2, <1>4, <1>5

LEMMA OneMore ==
  ASSUME NEW S, NEW s \in Seq(S), NEW n \in Nat, n + 1 <= Len(s)
  PROVE  /\ SubSeq(s, 1, n) \in Seq(S) /\ s[n + 1] \in S
         /\ SubSeq(s, 1, n + 1) = Append(SubSeq(s, 1, n), s[n + 1])
<1>1. n + 1 \in 1..Len(s) /\ 1 \in 1..Len(s) /\ (n + 1) - 1 = n /\ n <= Len(s)
  OBVIOUS
<1>2. SubSeq(s, 1, n) \in Seq(S)
  BY <1>1, HeadFacts
<1>3. s[n + 1] \in S
  BY <1>1
<1>4. SubSeq(s, 1, n + 1) = SubSeq(s, 1, n) \o <<s[n + 1]>>
  BY <1>1, SubSeqRecursiveSecond
<1>5. SubSeq(s, 1, n) \o <<s[n + 1]>> = Append(SubSeq(s, 1, n), s[n + 1])
  BY <1>2, <1>3, AppendIsConcat
<1> QED  BY <1>2, <1>3, <1>4, <1>5

LEMMA FlattenNone == FlattenSeq(<<>>) = <<>>
BY DEF FlattenSeq

LEMMA Associative ==
  \A S : \A a, b, c \in Seq(S) : (a \o b) \o c = a \o (b \o c)
BY ConcatAssociative

LEMMA FlattenStep ==
  ASSUME NEW S, NEW ss \in Seq(Seq(S)), NEW u \in Seq(Seq(S)), NEW x \in Seq(S),
         FlattenSeq(ss \o u) = FlattenSeq(ss) \o FlattenSeq(u)
  PROVE  FlattenSeq(ss \o Append(u, x)) = FlattenSeq(ss) \o FlattenSeq(Append(u, x))
<1>1. ss \o Append(u, x) = Append(ss \o u, x) /\ ss \o u \in Seq(Seq(S))
  OBVIOUS
<1>2. FlattenSeq(Append(ss \o u, x)) = FlattenSeq(ss \o u) \o x
  BY <1>1, FlattenAppend
<1>3. FlattenSeq(Append(u, x)) = FlattenSeq(u) \o x
  BY FlattenAppend
<1>4. PICK a, b \in Seq(S) : a = FlattenSeq(ss) /\ b = FlattenSeq(u)
  BY FlattenTyped
<1>5. (a \o b) \o x = a \o (b \o x)
  BY Associative, SMTT(60)
<1> QED  BY <1>1, <1>2, <1>3, <1>4, <1>5

(* Two runs of sequences, put together.                                    *)
LEMMA FlattenConcat ==
  ASSUME NEW S, NEW ss \in Seq(Seq(S)), NEW tt \in Seq(Seq(S))
  PROVE  FlattenSeq(ss \o tt) = FlattenSeq(ss) \o FlattenSeq(tt)
<1> DEFINE First(n) == SubSeq(tt, 1, n)
           Holds(n) == n <= Len(tt) =>
                          FlattenSeq(ss \o First(n)) = FlattenSeq(ss) \o FlattenSeq(First(n))
           G == {n \in Nat : Holds(n)}
<1>1. FlattenSeq(ss) \in Seq(S) /\ Len(tt) \in Nat
  BY FlattenTyped
<1>2. Holds(0)
  <2>1. First(0) = <<>>
    BY SubSeqEmpty
  <2>2. ss \o <<>> = ss /\ FlattenSeq(ss) \o <<>> = FlattenSeq(ss)
    BY <1>1
  <2> QED  BY <2>1, <2>2, FlattenNone
<1>3. ASSUME NEW n \in Nat, Holds(n)  PROVE Holds(n + 1)
  <2> SUFFICES ASSUME n + 1 <= Len(tt)
               PROVE  FlattenSeq(ss \o First(n + 1))
                         = FlattenSeq(ss) \o FlattenSeq(First(n + 1))
    OBVIOUS
  <2> DEFINE u == SubSeq(tt, 1, n)
             x == tt[n + 1]
  <2>1. u \in Seq(Seq(S)) /\ x \in Seq(S) /\ First(n + 1) = Append(u, x)
    BY OneMore
  <2>2. FlattenSeq(ss \o u) = FlattenSeq(ss) \o FlattenSeq(u)
    BY <1>1, <1>3
  <2> HIDE DEF u, x, First
  <2> QED  BY <2>1, <2>2, FlattenStep, ZenonT(60)
<1> HIDE DEF Holds
<1>4. Holds(Len(tt))
  <2>1. G \in SUBSET Nat /\ 0 \in G /\ \A n \in G : n + 1 \in G
    BY <1>2, <1>3
  <2> HIDE DEF G
  <2>2. \A n \in Nat : n \in G
    BY <2>1, AllNumbers
  <2> QED  BY <1>1, <2>2 DEF G
<1>5. First(Len(tt)) = tt
  BY SubSeqFull
<1> HIDE DEF First
<1>6. Len(tt) <= Len(tt)
  BY <1>1
<1> QED  BY <1>4, <1>5, <1>6 DEF Holds

(* Sequences of one element each.                                          *)
LEMMA FlattenSingles ==
  ASSUME NEW S, NEW s \in Seq(S)
  PROVE  FlattenSeq([n \in 1..Len(s) |-> <<s[n]>>]) = s
<1> DEFINE Singles(n) == [i \in 1..n |-> <<s[i]>>]
           Holds(n) == n <= Len(s) => FlattenSeq(Singles(n)) = SubSeq(s, 1, n)
           G == {n \in Nat : Holds(n)}
<1>1. Len(s) \in Nat
  OBVIOUS
<1>2. Holds(0)
  <2>1. SubSeq(s, 1, 0) = <<>>
    BY SubSeqEmpty
  <2>2. Singles(0) = <<>>
    OBVIOUS
  <2> QED  BY <2>1, <2>2, FlattenNone
<1>3. ASSUME NEW n \in Nat, Holds(n)  PROVE Holds(n + 1)
  <2> SUFFICES ASSUME n + 1 <= Len(s)
               PROVE  FlattenSeq(Singles(n + 1)) = SubSeq(s, 1, n + 1)
    OBVIOUS
  <2> DEFINE x == s[n + 1]
             u == Singles(n)
  <2>1. SubSeq(s, 1, n) \in Seq(S) /\ x \in S
        /\ SubSeq(s, 1, n + 1) = Append(SubSeq(s, 1, n), x)
        /\ <<x>> \in Seq(S)
    BY OneMore
  <2>2. u \in Seq(Seq(S)) /\ Singles(n + 1) = Append(u, <<x>>)
    <3>1. \A i \in 1..n : s[i] \in S
      BY <1>1
    <3>2. u \in Seq(Seq(S)) /\ Len(u) = n
      BY <3>1
    <3> QED  BY <3>2
  <2>3. FlattenSeq(u) = SubSeq(s, 1, n)
    BY <1>1, <1>3
  <2> HIDE DEF u, x, Singles
  <2>4. FlattenSeq(Append(u, <<x>>)) = FlattenSeq(u) \o <<x>>
    BY <2>1, <2>2, FlattenAppend
  <2>5. SubSeq(s, 1, n) \o <<x>> = Append(SubSeq(s, 1, n), x)
    BY <2>1, AppendIsConcat
  <2> QED  BY <2>1, <2>2, <2>3, <2>4, <2>5
<1>4. SubSeq(s, 1, Len(s)) = s
  BY SubSeqFull
<1> HIDE DEF Holds
<1>6. Holds(Len(s))
  <2>1. G \in SUBSET Nat /\ 0 \in G /\ \A n \in G : n + 1 \in G
    BY <1>2, <1>3
  <2> HIDE DEF G
  <2>2. \A n \in Nat : n \in G
    BY <2>1, AllNumbers
  <2> QED  BY <1>1, <2>2 DEF G
<1> QED  BY <1>1, <1>4, <1>6 DEF Holds

-----------------------------------------------------------------------------
(* Sequences one behind the other in a text                                *)

LEMMA ConcatAt ==
  ASSUME NEW S, NEW a \in Seq(S), NEW b \in Seq(S)
  PROVE  /\ a \o b \in Seq(S) /\ Len(a \o b) = Len(a) + Len(b)
         /\ \A i \in 1..(Len(a) + Len(b)) :
               (a \o b)[i] = IF i <= Len(a) THEN a[i] ELSE b[i - Len(a)]
BY ConcatProperties

(* Positions in a text, given their own name to keep the provers from      *)
(* looking into it.                                                        *)
Marks == [Nat -> Nat]

(* Element n of ms takes the places after offs[n] up to offs[n + 1].       *)
Tiles(offs, ms) ==
    /\ offs[1] = 0
    /\ \A n \in 1..Len(ms) : offs[n + 1] = offs[n] + Len(ms[n])
    /\ \A i, j \in 1..(Len(ms) + 1) : i <= j => offs[i] <= offs[j]

LEMMA MarkFacts ==
  ASSUME NEW offs \in Marks, NEW n \in Nat
  PROVE  offs[n] \in Nat
  BY DEF Marks

LEMMA Behind ==
  ASSUME NEW a \in Nat, NEW b \in Nat, NEW k \in 1..b
  PROVE  a + k \in 1..(a + b) /\ ~(a + k <= a) /\ (a + k) - a = k /\ a + k \in Nat
  OBVIOUS

LEMMA Within ==
  ASSUME NEW a \in Nat, NEW b \in Nat, NEW c \in Nat, NEW k \in 1..b, a + b <= c
  PROVE  a + k \in 1..c
  OBVIOUS

(* One more message.                                                       *)
LEMMA Extended ==
  ASSUME NEW S, NEW ms \in Seq(Seq(S)), NEW m \in Seq(S), NEW offs \in Marks,
         Tiles(offs, ms)
  PROVE  \E new \in Marks :
            /\ Tiles(new, Append(ms, m))
            /\ \A n \in 1..(Len(ms) + 1) : new[n] = offs[n]
            /\ new[Len(ms) + 2] = offs[Len(ms) + 1] + Len(m)
<1> DEFINE N == Len(ms)
           new == [offs EXCEPT ![N + 2] = offs[N + 1] + Len(m)]
           more == Append(ms, m)
<1>1. N \in Nat /\ Len(m) \in Nat /\ offs[N + 1] \in Nat
  BY MarkFacts
<1>2. /\ Len(more) = N + 1 /\ \A n \in 1..N : more[n] = ms[n]
      /\ more[N + 1] = m
  BY AppendFacts
<1>3. /\ new \in Marks /\ new[N + 2] = offs[N + 1] + Len(m)
      /\ \A n \in 1..(N + 1) : new[n] = offs[n]
  <2> DEFINE a == N + 2
             v == offs[N + 1] + Len(m)
  <2>1. a \in Nat /\ v \in Nat /\ \A n \in 1..(N + 1) : n \in Nat /\ n # a
    BY <1>1
  <2> HIDE DEF a, v, N
  <2>2. [offs EXCEPT ![a] = v] \in Marks
    BY <2>1 DEF Marks
  <2>3. [offs EXCEPT ![a] = v][a] = v /\ \A n \in Nat : n # a => [offs EXCEPT ![a] = v][n] = offs[n]
    BY <2>1 DEF Marks
  <2>4. new = [offs EXCEPT ![a] = v]
    BY DEF a, v
  <2> QED  BY <2>1, <2>2, <2>3, <2>4 DEF a, v
<1> HIDE DEF new, more
<1>4. ASSUME NEW n \in 1..(N + 1)
      PROVE  new[n + 1] = new[n] + Len(more[n])
  <2>1. CASE n = N + 1
    BY <1>1, <1>2, <1>3, <2>1
  <2>2. CASE n \in 1..N
    <3>1. offs[n + 1] = offs[n] + Len(ms[n])
      BY <2>2 DEF Tiles
    <3> QED  BY <1>1, <1>2, <1>3, <2>2, <3>1
  <2> QED  BY <1>1, <2>1, <2>2
<1>5. ASSUME NEW i \in 1..(N + 2), NEW j \in 1..(N + 2), i <= j
      PROVE  new[i] <= new[j]
  <2>0. new[i] \in Nat /\ new[j] \in Nat /\ offs[i] \in Nat
    BY <1>1, <1>3, MarkFacts
  <2>1. CASE j \in 1..(N + 1)
    <3>1. i \in 1..(N + 1)
      BY <1>1, <1>5, <2>1
    <3>2. offs[i] <= offs[j]
      BY <1>5, <2>1, <3>1 DEF Tiles
    <3> QED  BY <1>3, <2>1, <3>1, <3>2
  <2>2. CASE j = N + 2 /\ i \in 1..(N + 1)
    <3>1. offs[i] <= offs[N + 1]
      BY <1>1, <2>2 DEF Tiles
    <3>2. new[i] = offs[i] /\ new[j] = offs[N + 1] + Len(m)
      BY <1>3, <2>2
    <3> QED  BY <1>1, <2>0, <3>1, <3>2
  <2>3. CASE i = N + 2 /\ j = N + 2
    BY <2>0, <2>3
  <2> QED  BY <1>1, <1>5, <2>1, <2>2, <2>3
<1>6. new[1] = 0
  BY <1>1, <1>3, SMTT(60) DEF Tiles
<1>7. Tiles(new, more)
  <2>1. Len(more) + 1 = N + 2
    BY <1>1, <1>2
  <2> QED  BY <1>2, <1>4, <1>5, <1>6, <2>1 DEF Tiles
<1> QED  BY <1>3, <1>7 DEF more

=============================================================================
