------------------------------ MODULE DataLemmas ------------------------------
(***************************************************************************)
(* What the proofs of several components need to know of data: numbers     *)
(* that are least, functions that are defined by recursion, and the        *)
(* endings of texts that Signatures speaks of.                             *)
(***************************************************************************)
EXTENDS Signatures, SequenceTheorems, WellFoundedInduction, TLAPS

(* A set of numbers that is not empty has a least one.                     *)
LEMMA LeastNumber ==
  ASSUME NEW T, T \subseteq Nat, T # {}
  PROVE  \E n \in T : \A m \in T : n <= m
<1> DEFINE R == {p \in Nat \X Nat : p[1] < p[2]}
<1>1. IsWellFoundedOn(R, Nat)
  BY NatLessThanWellFounded, Zenon DEF OpToRel
<1>2. \A m, n \in Nat : m < n => <<m, n>> \in R
  OBVIOUS
<1> HIDE DEF R
<1>3. PICK n \in T : \A m \in T : ~ (<<m, n>> \in R)
  BY <1>1, WFMin
<1>4. ASSUME NEW m \in T PROVE n <= m
  <2>1. m \in Nat /\ n \in Nat /\ ~(m < n)
    BY <1>2, <1>3
  <2> QED
    BY <2>1
<1> QED
  BY <1>3, <1>4

(* So a set that has 0 and with each number the next one has all numbers.  *)
LEMMA NumberInduction ==
  ASSUME NEW P, 0 \in P, \A n \in Nat : n \in P => n + 1 \in P
  PROVE  Nat \subseteq P
<1> DEFINE T == Nat \ P
<1> SUFFICES ASSUME T # {} PROVE FALSE
  OBVIOUS
<1>1. PICK n \in T : \A m \in T : n <= m
  BY LeastNumber
<1>2. n # 0 /\ n - 1 \in Nat /\ ~(n <= n - 1) /\ (n - 1) + 1 = n
  OBVIOUS
<1>3. n - 1 \in P
  BY <1>1, <1>2
<1> QED
  BY <1>2, <1>3

(* And so does a set that has every element for which it has all those of  *)
(* a smaller measure.                                                      *)
LEMMA MeasureInduction ==
  ASSUME NEW S, NEW P, NEW size \in [S -> Nat],
         \A x \in S : (\A y \in S : size[y] < size[x] => y \in P) => x \in P
  PROVE  S \subseteq P
<1> DEFINE T == {size[x] : x \in S \ P}
<1> SUFFICES ASSUME T # {} PROVE FALSE
  OBVIOUS
<1>1. T \subseteq Nat
  OBVIOUS
<1>2. PICK n \in T : \A m \in T : n <= m
  BY <1>1, LeastNumber
<1>3. PICK x \in S \ P : size[x] = n
  OBVIOUS
<1>4. ASSUME NEW y \in S, size[y] < size[x] PROVE y \in P
  <2>1. size[y] \in Nat /\ n \in Nat /\ ~(n <= size[y])
    BY <1>1, <1>3, <1>4
  <2>2. size[y] \notin T
    BY <1>2, <2>1
  <2> QED
    BY <2>2
<1> QED
  BY <1>3, <1>4

(***************************************************************************)
(* Recursive functions.  G says what the value at a place is, given the    *)
(* values at all places; "size" is a measure of places.  If a value        *)
(* depends only on values at smaller places, some function fits everywhere *)
(* (and so the function that is defined by the recursion does).            *)
(***************************************************************************)
FitsBelow(f, G, S, size, n) == \A x \in S : size[x] < n => f[x] = G[f][x]

Recursive(G, S, V, size) ==
  /\ size \in [S -> Nat]
  /\ G \in [[S -> V] -> [S -> V]]
  /\ \A f, g \in [S -> V], x \in S :
       (\A y \in S : size[y] < size[x] => f[y] = g[y]) => G[f][x] = G[g][x]

LEMMA FitsUpTo ==
  ASSUME NEW S, NEW V, NEW G, NEW size, Recursive(G, S, V, size), NEW f0 \in [S -> V]
  PROVE  \A n \in Nat : \E f \in [S -> V] : FitsBelow(f, G, S, size, n)
<1> DEFINE P == {n \in Nat : \E f \in [S -> V] : FitsBelow(f, G, S, size, n)}
<1>1. 0 \in P
  BY DEF FitsBelow, Recursive
<1>2. ASSUME NEW n \in Nat, n \in P PROVE n + 1 \in P
  <2>1. PICK f \in [S -> V] : FitsBelow(f, G, S, size, n)
    BY <1>2
  <2>2. G[f] \in [S -> V]
    BY DEF Recursive
  <2>3. ASSUME NEW x \in S, size[x] < n + 1 PROVE G[f][x] = G[G[f]][x]
    <3>1. \A y \in S : size[y] < size[x] => f[y] = G[f][y]
      BY <2>1, <2>3 DEF FitsBelow, Recursive
    <3> QED
      BY <2>2, <3>1 DEF Recursive
  <2> QED
    BY <2>2, <2>3 DEF FitsBelow
<1> QED
  BY <1>1, <1>2, NumberInduction

LEMMA FitsAgree ==
  ASSUME NEW S, NEW V, NEW G, NEW size, Recursive(G, S, V, size), NEW n \in Nat,
         NEW f \in [S -> V], NEW g \in [S -> V],
         FitsBelow(f, G, S, size, n), FitsBelow(g, G, S, size, n)
  PROVE  \A x \in S : size[x] < n => f[x] = g[x]
<1> DEFINE T == {size[x] : x \in {y \in S : size[y] < n /\ f[y] # g[y]}}
<1> SUFFICES ASSUME T # {} PROVE FALSE
  OBVIOUS
<1>1. T \subseteq Nat
  BY DEF Recursive
<1>2. PICK k \in T : \A m \in T : k <= m
  BY <1>1, LeastNumber
<1>3. PICK x \in S : size[x] = k /\ size[x] < n /\ f[x] # g[x]
  OBVIOUS
<1>4. ASSUME NEW y \in S, size[y] < size[x] PROVE f[y] = g[y]
  <2>1. size[y] \in Nat /\ size[x] \in Nat
    BY DEF Recursive
  <2>2. size[y] \notin T
    BY <1>2, <1>3, <1>4, <2>1
  <2>3. size[y] < n
    BY <1>3, <1>4, <2>1
  <2> QED
    BY <2>2, <2>3
<1> QED
  BY <1>3, <1>4 DEF Recursive, FitsBelow

LEMMA RecursionFits ==
  ASSUME NEW S, NEW V, NEW G, NEW size, Recursive(G, S, V, size), NEW f0 \in [S -> V]
  PROVE  \E f \in [S -> V] : f = G[f]
<1> DEFINE At(x) == CHOOSE f \in [S -> V] : FitsBelow(f, G, S, size, size[x] + 1)
           f == [x \in S |-> At(x)[x]]
<1>1. ASSUME NEW x \in S PROVE At(x) \in [S -> V] /\ FitsBelow(At(x), G, S, size, size[x] + 1)
  <2>1. size[x] + 1 \in Nat
    BY DEF Recursive
  <2> QED
    BY <2>1, FitsUpTo
<1> HIDE DEF At
<1>2. f \in [S -> V]
  BY <1>1
<1>3. ASSUME NEW x \in S PROVE f[x] = G[f][x]
  <2>1. ASSUME NEW y \in S, size[y] < size[x] PROVE f[y] = At(x)[y]
    <3>1. size[y] + 1 \in Nat /\ size[x] \in Nat /\ size[y] \in Nat
      BY DEF Recursive
    <3>2. FitsBelow(At(x), G, S, size, size[y] + 1)
      BY <1>1, <2>1, <3>1 DEF FitsBelow, Recursive
    <3> QED
      BY <1>1, <3>1, <3>2, FitsAgree
  <2>2. G[f][x] = G[At(x)][x]
    BY <1>1, <1>2, <2>1 DEF Recursive
  <2>3. At(x)[x] = G[At(x)][x]
    BY <1>1 DEF FitsBelow, Recursive
  <2> QED
    BY <2>2, <2>3
<1>4. f = G[f]
  <2>1. G[f] \in [S -> V]
    BY <1>2 DEF Recursive
  <2> QED
    BY <1>2, <1>3, <2>1
<1> QED
  BY <1>2, <1>4
-----------------------------------------------------------------------------
(* Endings of texts.  Texts and nodes are sequences over any alphabet B.   *)
LEMMA EndsWithPointwise ==
  ASSUME NEW B, NEW t \in Seq(B), NEW s \in Seq(B)
  PROVE  EndsWith(t, s) <=> /\ Len(s) <= Len(t)
                            /\ \A i \in 1 .. Len(s) : s[i] = t[Len(t) - Len(s) + i]
<1> DEFINE d == Len(t) - Len(s)
           u == SubSeq(t, d + 1, Len(t))
<1> SUFFICES ASSUME Len(s) <= Len(t)
             PROVE  u = s <=> \A i \in 1 .. Len(s) : s[i] = t[d + i]
  BY DEF EndsWith
<1>1. d \in Nat /\ Len(s) \in Nat /\ Len(t) \in Nat
  BY LenProperties
<1>2. \A i \in d + 1 .. Len(t) : t[i] \in B
  BY <1>1, ElementOfSeq
<1>3. /\ u \in Seq(B)
      /\ Len(u) = Len(s)
      /\ \A i \in 1 .. Len(s) : u[i] = t[d + i]
  BY <1>1, <1>2, SubSeqProperties
<1> HIDE DEF u, d
<1>4. u = s <=> \A i \in 1 .. Len(s) : s[i] = u[i]
  BY <1>3, SeqEqual
<1> QED
  BY <1>3, <1>4

(* Two endings of a text: the shorter one is an ending of the longer one.  *)
LEMMA EndingOfEnding ==
  ASSUME NEW B, NEW t \in Seq(B), NEW m \in Seq(B), NEW n \in Seq(B),
         EndsWith(t, m), EndsWith(t, n), Len(m) <= Len(n)
  PROVE  EndsWith(n, m) /\ (Len(m) = Len(n) => m = n)
<1>1. Len(t) \in Nat /\ Len(m) \in Nat /\ Len(n) \in Nat
  BY LenProperties
<1>2. /\ Len(m) <= Len(t) /\ \A i \in 1 .. Len(m) : m[i] = t[Len(t) - Len(m) + i]
      /\ Len(n) <= Len(t) /\ \A i \in 1 .. Len(n) : n[i] = t[Len(t) - Len(n) + i]
  BY EndsWithPointwise
<1>3. ASSUME NEW i \in 1 .. Len(m) PROVE m[i] = n[Len(n) - Len(m) + i]
  <2>1. Len(n) - Len(m) + i \in 1 .. Len(n)
    BY <1>1
  <2>2. n[Len(n) - Len(m) + i] = t[Len(t) - Len(n) + (Len(n) - Len(m) + i)]
    BY <1>2, <2>1
  <2>3. Len(t) - Len(n) + (Len(n) - Len(m) + i) = Len(t) - Len(m) + i
    BY <1>1
  <2> QED
    BY <1>2, <2>2, <2>3
<1>4. EndsWith(n, m)
  BY <1>3, EndsWithPointwise
<1>5. ASSUME Len(m) = Len(n) PROVE m = n
  BY <1>1, <1>3, <1>5, SeqEqual
<1> QED
  BY <1>4, <1>5

LEMMA EndsWithTransitive ==
  ASSUME NEW B, NEW t \in Seq(B), NEW m \in Seq(B), NEW n \in Seq(B),
         EndsWith(t, n), EndsWith(n, m)
  PROVE  EndsWith(t, m)
<1>1. Len(t) \in Nat /\ Len(m) \in Nat /\ Len(n) \in Nat
  BY LenProperties
<1>2. /\ Len(n) <= Len(t) /\ \A i \in 1 .. Len(n) : n[i] = t[Len(t) - Len(n) + i]
      /\ Len(m) <= Len(n) /\ \A i \in 1 .. Len(m) : m[i] = n[Len(n) - Len(m) + i]
  BY EndsWithPointwise
<1>3. ASSUME NEW i \in 1 .. Len(m) PROVE m[i] = t[Len(t) - Len(m) + i]
  <2>1. Len(n) - Len(m) + i \in 1 .. Len(n)
    BY <1>1, <1>2
  <2>2. n[Len(n) - Len(m) + i] = t[Len(t) - Len(n) + (Len(n) - Len(m) + i)]
    BY <1>2, <2>1
  <2>3. Len(t) - Len(n) + (Len(n) - Len(m) + i) = Len(t) - Len(m) + i
    BY <1>1
  <2> QED
    BY <1>2, <2>2, <2>3
<1> QED
  BY <1>1, <1>2, <1>3, EndsWithPointwise

LEMMA EndsWithItself ==
  ASSUME NEW B, NEW t \in Seq(B)
  PROVE  EndsWith(t, t) /\ EndsWith(t, Root) /\ Root \in Seq(B) /\ Len(Root) = 0
<1>1. Root \in Seq(B) /\ Len(Root) = 0
  BY EmptySeq DEF Root
<1>2. Len(t) \in Nat
  BY LenProperties
<1>3. EndsWith(t, t)
  <2>1. Len(t) <= Len(t) /\ \A i \in 1 .. Len(t) : t[i] = t[Len(t) - Len(t) + i]
    BY <1>2
  <2> QED
    BY <2>1, EndsWithPointwise
<1>4. EndsWith(t, Root)
  <2>1. Len(Root) <= Len(t) /\ \A i \in 1 .. Len(Root) : Root[i] = t[Len(t) - Len(Root) + i]
    BY <1>1, <1>2
  <2> QED
    BY <1>1, <2>1, EndsWithPointwise
<1> QED
  BY <1>1, <1>3, <1>4

LEMMA EndsWithAppend ==
  ASSUME NEW B, NEW t \in Seq(B), NEW s \in Seq(B), NEW b \in B, NEW c \in B
  PROVE  EndsWith(Append(t, b), Append(s, c)) <=> EndsWith(t, s) /\ b = c
<1> DEFINE tb == Append(t, b)
           sc == Append(s, c)
<1>1. /\ tb \in Seq(B) /\ Len(tb) = Len(t) + 1 /\ tb[Len(t) + 1] = b
      /\ \A i \in 1 .. Len(t) : tb[i] = t[i]
      /\ sc \in Seq(B) /\ Len(sc) = Len(s) + 1 /\ sc[Len(s) + 1] = c
      /\ \A i \in 1 .. Len(s) : sc[i] = s[i]
  BY AppendProperties
<1>2. Len(t) \in Nat /\ Len(s) \in Nat
  BY LenProperties
<1> HIDE DEF tb, sc
<1>3. EndsWith(tb, sc) <=> /\ Len(sc) <= Len(tb)
                           /\ \A i \in 1 .. Len(sc) : sc[i] = tb[Len(tb) - Len(sc) + i]
  <2>1. tb \in Seq(B) /\ sc \in Seq(B)
    BY <1>1
  <2> QED
    BY <2>1, EndsWithPointwise
<1>4. EndsWith(t, s) <=> /\ Len(s) <= Len(t)
                         /\ \A i \in 1 .. Len(s) : s[i] = t[Len(t) - Len(s) + i]
  BY EndsWithPointwise
<1>5. ASSUME EndsWith(tb, sc) PROVE EndsWith(t, s) /\ b = c
  <2>1. Len(s) <= Len(t)
    BY <1>1, <1>2, <1>3, <1>5
  <2>2. ASSUME NEW i \in 1 .. Len(s) PROVE s[i] = t[Len(t) - Len(s) + i]
    <3>1. /\ i \in 1 .. Len(sc) /\ Len(t) - Len(s) + i \in 1 .. Len(t)
          /\ Len(tb) - Len(sc) + i = Len(t) - Len(s) + i
      BY <1>1, <1>2, <2>1
    <3> QED
      BY <1>1, <1>3, <1>5, <3>1
  <2>3. b = c
    <3>1. Len(s) + 1 \in 1 .. Len(sc) /\ Len(tb) - Len(sc) + (Len(s) + 1) = Len(t) + 1
      BY <1>1, <1>2
    <3> QED
      BY <1>1, <1>3, <1>5, <3>1
  <2> QED
    BY <1>4, <2>1, <2>2, <2>3
<1>6. ASSUME EndsWith(t, s), b = c PROVE EndsWith(tb, sc)
  <2>1. ASSUME NEW i \in 1 .. Len(sc) PROVE sc[i] = tb[Len(tb) - Len(sc) + i]
    <3>1. CASE i = Len(s) + 1
      <4>1. Len(tb) - Len(sc) + i = Len(t) + 1
        BY <1>1, <1>2, <3>1
      <4> QED
        BY <1>1, <1>6, <3>1, <4>1
    <3>2. CASE i \in 1 .. Len(s)
      <4>1. /\ Len(tb) - Len(sc) + i = Len(t) - Len(s) + i
            /\ Len(t) - Len(s) + i \in 1 .. Len(t)
        BY <1>1, <1>2, <1>4, <1>6, <3>2
      <4> QED
        BY <1>1, <1>4, <1>6, <3>2, <4>1
    <3> QED
      BY <1>1, <1>2, <3>1, <3>2
  <2>2. Len(sc) <= Len(tb)
    BY <1>1, <1>2, <1>4, <1>6
  <2> QED
    BY <1>3, <2>1, <2>2
<1> QED
  BY <1>5, <1>6 DEF tb, sc
-----------------------------------------------------------------------------
(* A text that is not empty is a shorter one and a last byte.              *)
LEMMA LastByte ==
  ASSUME NEW B, NEW t \in Seq(B), t # <<>>
  PROVE  \E r \in Seq(B), c \in B : t = Append(r, c) /\ c = t[Len(t)] /\ Len(t) = Len(r) + 1
<1>1. PICK r \in Seq(B), c \in B : t = Append(r, c)
  BY SequenceEmptyOrAppend
<1>2. Len(t) = Len(r) + 1 /\ t[Len(r) + 1] = c
  BY <1>1, AppendProperties
<1> QED
  BY <1>1, <1>2

(* The first bytes of a text.                                              *)
LEMMA FirstBytes ==
  ASSUME NEW B, NEW t \in Seq(B), NEW n \in 0 .. Len(t)
  PROVE  /\ SubSeq(t, 1, n) \in Seq(B) /\ Len(SubSeq(t, 1, n)) = n
         /\ \A i \in 1 .. n : SubSeq(t, 1, n)[i] = t[i]
<1>1. Len(t) \in Nat
  BY LenProperties
<1>2. \A i \in 1 .. n : t[i] \in B
  BY <1>1, ElementOfSeq
<1>3. /\ SubSeq(t, 1, n) \in Seq(B)
      /\ Len(SubSeq(t, 1, n)) = (IF 1 <= n THEN n - 1 + 1 ELSE 0)
      /\ \A i \in 1 .. n - 1 + 1 : SubSeq(t, 1, n)[i] = t[1 + i - 1]
  BY <1>2, SubSeqProperties
<1> QED
  BY <1>1, <1>3

(* A text and a part of another grow together.                             *)
LEMMA NextByte ==
  ASSUME NEW B, NEW t \in Seq(B), NEW u \in Seq(B), NEW i \in 1 .. Len(u)
  PROVE  /\ u[i] \in B /\ t \o SubSeq(u, 1, i - 1) \in Seq(B)
         /\ t \o SubSeq(u, 1, i) = Append(t \o SubSeq(u, 1, i - 1), u[i])
<1>1. Len(u) \in Nat /\ u[i] \in B
  BY LenProperties, ElementOfSeq
<1>2. i - 1 \in 0 .. Len(u) /\ 1 \in 1 .. Len(u) /\ i \in 1 .. Len(u)
  BY <1>1
<1>3. SubSeq(u, 1, i) = SubSeq(u, 1, i - 1) \o <<u[i]>>
  BY <1>2, SubSeqRecursiveSecond
<1> DEFINE v == SubSeq(u, 1, i - 1)
<1>4. v \in Seq(B)
  BY <1>2, FirstBytes
<1> HIDE DEF v
<1>5. t \o v \in Seq(B)
  BY <1>4, ConcatProperties
<1>6. t \o (v \o <<u[i]>>) = (t \o v) \o <<u[i]>>
  BY <1>1, <1>4, ConcatAssociative
<1>7. (t \o v) \o <<u[i]>> = Append(t \o v, u[i])
  BY <1>1, <1>5, AppendIsConcat
<1> QED
  BY <1>1, <1>3, <1>5, <1>6, <1>7 DEF v

(* What occurs in two texts, one after the other, occurs in the first or   *)
(* ends somewhere in the second.                                           *)
LEMMA OccursInConcat ==
  ASSUME NEW B, NEW t \in Seq(B), NEW u \in Seq(B), NEW s
  PROVE  OccursIn(s, t \o u)
           <=> OccursIn(s, t) \/ \E i \in 1 .. Len(u) : EndsWith(t \o SubSeq(u, 1, i), s)
<1>1. Len(t) \in Nat /\ Len(u) \in Nat
  BY LenProperties
<1>2. /\ t \o u \in Seq(B) /\ Len(t \o u) = Len(t) + Len(u)
      /\ \A i \in 1 .. Len(t) + Len(u) :
           (t \o u)[i] = IF i <= Len(t) THEN t[i] ELSE u[i - Len(t)]
  BY ConcatProperties
<1>3. ASSUME NEW i \in 0 .. Len(t) PROVE SubSeq(t \o u, 1, i) = SubSeq(t, 1, i)
  <2>1. i \in 0 .. Len(t \o u)
    BY <1>1, <1>2
  <2>2. /\ SubSeq(t \o u, 1, i) \in Seq(B) /\ Len(SubSeq(t \o u, 1, i)) = i
        /\ \A j \in 1 .. i : SubSeq(t \o u, 1, i)[j] = (t \o u)[j]
    BY <1>2, <2>1, FirstBytes
  <2>3. /\ SubSeq(t, 1, i) \in Seq(B) /\ Len(SubSeq(t, 1, i)) = i
        /\ \A j \in 1 .. i : SubSeq(t, 1, i)[j] = t[j]
    BY FirstBytes
  <2>4. \A j \in 1 .. i : (t \o u)[j] = t[j]
    BY <1>1, <1>2
  <2> QED
    BY <2>2, <2>3, <2>4, SeqEqual
<1>4. ASSUME NEW i \in 1 .. Len(u)
      PROVE  SubSeq(t \o u, 1, Len(t) + i) = t \o SubSeq(u, 1, i)
  <2> DEFINE n == Len(t) + i
             v == SubSeq(u, 1, i)
  <2>1. n \in 0 .. Len(t \o u) /\ i \in 0 .. Len(u)
    BY <1>1, <1>2
  <2>2. /\ SubSeq(t \o u, 1, n) \in Seq(B) /\ Len(SubSeq(t \o u, 1, n)) = n
        /\ \A j \in 1 .. n : SubSeq(t \o u, 1, n)[j] = (t \o u)[j]
    BY <1>2, <2>1, FirstBytes
  <2>3. v \in Seq(B) /\ Len(v) = i /\ \A j \in 1 .. i : v[j] = u[j]
    BY <2>1, FirstBytes
  <2> HIDE DEF v
  <2>4. /\ t \o v \in Seq(B) /\ Len(t \o v) = n
        /\ \A j \in 1 .. n : (t \o v)[j] = IF j <= Len(t) THEN t[j] ELSE v[j - Len(t)]
    BY <2>3, ConcatProperties
  <2>5. \A j \in 1 .. n : (t \o u)[j] = (t \o v)[j]
    BY <1>1, <1>2, <2>3, <2>4
  <2> HIDE DEF n
  <2> QED
    BY <2>2, <2>4, <2>5, SeqEqual DEF v, n
<1>5. ASSUME OccursIn(s, t \o u)
      PROVE  OccursIn(s, t) \/ \E i \in 1 .. Len(u) : EndsWith(t \o SubSeq(u, 1, i), s)
  <2>1. PICK j \in 0 .. Len(t \o u) : EndsWith(SubSeq(t \o u, 1, j), s)
    BY <1>5 DEF OccursIn
  <2>2. CASE j <= Len(t)
    <3>1. j \in 0 .. Len(t)
      BY <1>1, <1>2, <2>1, <2>2
    <3>2. EndsWith(SubSeq(t, 1, j), s)
      BY <1>3, <2>1, <3>1
    <3> QED
      BY <3>1, <3>2 DEF OccursIn
  <2>3. CASE ~(j <= Len(t))
    <3>1. j - Len(t) \in 1 .. Len(u) /\ Len(t) + (j - Len(t)) = j
      BY <1>1, <1>2, <2>1, <2>3
    <3> QED
      BY <1>4, <2>1, <3>1
  <2> QED
    BY <2>2, <2>3
<1>6. ASSUME OccursIn(s, t) PROVE OccursIn(s, t \o u)
  <2>1. \A i \in 0 .. Len(t) : i \in 0 .. Len(t \o u)
    BY <1>1, <1>2
  <2> QED
    BY <1>3, <1>6, <2>1 DEF OccursIn
<1>7. ASSUME NEW i \in 1 .. Len(u), EndsWith(t \o SubSeq(u, 1, i), s)
      PROVE  OccursIn(s, t \o u)
  <2>1. Len(t) + i \in 0 .. Len(t \o u)
    BY <1>1, <1>2
  <2> QED
    BY <1>4, <1>7, <2>1 DEF OccursIn
<1> QED
  BY <1>5, <1>6, <1>7

(* Endings of a text that are not the text itself are endings of its tail. *)
LEMMA EndsWithTail ==
  ASSUME NEW B, NEW t \in Seq(B), t # <<>>, NEW m \in Seq(B), m # t
  PROVE  /\ Tail(t) \in Seq(B) /\ Len(Tail(t)) = Len(t) - 1
         /\ EndsWith(t, m) <=> EndsWith(Tail(t), m)
<1>1. Len(t) \in Nat /\ Len(m) \in Nat /\ Len(t) # 0
  BY LenProperties, EmptySeq
<1>2. /\ Tail(t) \in Seq(B) /\ Len(Tail(t)) = Len(t) - 1
      /\ \A i \in 1 .. Len(t) - 1 : Tail(t)[i] = t[i + 1]
  BY <1>1, HeadTailProperties
<1>3. EndsWith(t, Tail(t))
  <2>1. \A i \in 1 .. Len(Tail(t)) : Tail(t)[i] = t[Len(t) - Len(Tail(t)) + i]
    <3>1. \A i \in 1 .. Len(t) - 1 : i + 1 = Len(t) - (Len(t) - 1) + i
      BY <1>1
    <3> QED
      BY <1>2, <3>1
  <2>2. Len(Tail(t)) <= Len(t)
    BY <1>1, <1>2
  <2> QED
    BY <1>2, <2>1, <2>2, EndsWithPointwise
<1>4. EndsWith(Tail(t), m) => EndsWith(t, m)
  BY <1>2, <1>3, EndsWithTransitive
<1>5. ASSUME EndsWith(t, m) PROVE EndsWith(Tail(t), m)
  <2>1. Len(m) <= Len(t)
    BY <1>5, EndsWithPointwise
  <2>2. Len(m) # Len(t)
    BY <1>1, <1>5, <2>1, EndsWithItself, EndingOfEnding
  <2>3. Len(m) <= Len(Tail(t))
    BY <1>1, <1>2, <2>1, <2>2
  <2> QED
    BY <1>2, <1>3, <1>5, <2>3, EndingOfEnding
<1> QED
  BY <1>2, <1>4, <1>5
-----------------------------------------------------------------------------
(* The longest ending of a text among some nodes.                          *)
IsLongest(text, nodes, n) ==
  /\ n \in nodes
  /\ EndsWith(text, n)
  /\ \A m \in nodes : EndsWith(text, m) => Len(m) <= Len(n)

LEMMA LongestEndingFacts ==
  ASSUME NEW B, NEW N, N \subseteq Seq(B), Root \in N, NEW t \in Seq(B)
  PROVE  IsLongest(t, N, LongestEnding(t, N))
<1> DEFINE E == {m \in N : EndsWith(t, m)}
           T == {Len(t) - Len(m) : m \in E}
<1>1. \A m \in E : m \in Seq(B) /\ Len(m) \in Nat /\ Len(m) <= Len(t)
  BY LenProperties DEF EndsWith
<1>2. Len(t) \in Nat
  BY LenProperties
<1>3. Root \in E
  BY EndsWithItself
<1> HIDE DEF E
<1>4. T \subseteq Nat /\ T # {}
  BY <1>1, <1>2, <1>3
<1>5. PICK k \in T : \A j \in T : k <= j
  BY <1>4, LeastNumber
<1>6. PICK n \in E : k = Len(t) - Len(n)
  OBVIOUS
<1>7. ASSUME NEW m \in E PROVE Len(m) <= Len(n)
  <2>1. k <= Len(t) - Len(m)
    BY <1>5
  <2> QED
    BY <1>1, <1>2, <1>6, <2>1
<1>8. IsLongest(t, N, n)
  BY <1>7 DEF E, IsLongest
<1> QED
  BY <1>8 DEF LongestEnding, IsLongest

LEMMA LongestEndingUnique ==
  ASSUME NEW B, NEW N, N \subseteq Seq(B), Root \in N, NEW t \in Seq(B),
         NEW n, IsLongest(t, N, n)
  PROVE  LongestEnding(t, N) = n
<1> DEFINE l == LongestEnding(t, N)
<1>1. IsLongest(t, N, l)
  BY LongestEndingFacts
<1> HIDE DEF l
<1>2. l \in Seq(B) /\ n \in Seq(B) /\ Len(l) \in Nat /\ Len(n) \in Nat
  BY <1>1, LenProperties DEF IsLongest
<1>3. Len(n) <= Len(l) /\ Len(l) <= Len(n) /\ EndsWith(t, l) /\ EndsWith(t, n)
  BY <1>1 DEF IsLongest
<1>4. Len(n) = Len(l)
  BY <1>2, <1>3
<1> QED
  BY <1>2, <1>3, <1>4, EndingOfEnding DEF l

(* It has the same endings among the nodes as the text.                    *)
LEMMA SameEndings ==
  ASSUME NEW B, NEW N, N \subseteq Seq(B), Root \in N, NEW t \in Seq(B), NEW s \in N
  PROVE  EndsWith(t, s) <=> EndsWith(LongestEnding(t, N), s)
<1> DEFINE l == LongestEnding(t, N)
<1>1. IsLongest(t, N, l)
  BY LongestEndingFacts
<1> HIDE DEF l
<1>2. l \in Seq(B) /\ s \in Seq(B) /\ EndsWith(t, l)
  BY <1>1 DEF IsLongest
<1>3. EndsWith(l, s) => EndsWith(t, s)
  BY <1>2, EndsWithTransitive
<1>4. EndsWith(t, s) => EndsWith(l, s)
  BY <1>1, <1>2, EndingOfEnding DEF IsLongest
<1> QED
  BY <1>3, <1>4 DEF l

(* A text that is no node can forget its first byte.                       *)
LEMMA LongestEndingOfTail ==
  ASSUME NEW B, NEW N, N \subseteq Seq(B), Root \in N, NEW t \in Seq(B), t \notin N
  PROVE  LongestEnding(t, N) = LongestEnding(Tail(t), N)
<1>1. t # <<>>
  BY DEF Root
<1>2. \A m \in N : EndsWith(t, m) <=> EndsWith(Tail(t), m)
  BY <1>1, EndsWithTail
<1>3. Tail(t) \in Seq(B)
  BY <1>1, EmptySeq, EndsWithTail, EndsWithItself DEF Root
<1>4. IsLongest(Tail(t), N, LongestEnding(Tail(t), N))
  BY <1>3, LongestEndingFacts
<1>5. IsLongest(t, N, LongestEnding(Tail(t), N))
  BY <1>2, <1>4 DEF IsLongest
<1> QED
  BY <1>5, LongestEndingUnique

(* Nodes on the way to a node are nodes.                                   *)
PrefixClosed(nodes, B) ==
  \A n \in Seq(B), b \in B : Append(n, b) \in nodes => n \in nodes

(* What is remembered of a text and of the longest ending of the text is   *)
(* the same when both go on by the same byte.                              *)
LEMMA LongestEndingOfAppend ==
  ASSUME NEW B, NEW N, N \subseteq Seq(B), Root \in N, PrefixClosed(N, B),
         NEW t \in Seq(B), NEW b \in B
  PROVE  LongestEnding(Append(t, b), N) = LongestEnding(Append(LongestEnding(t, N), b), N)
<1> DEFINE p == LongestEnding(t, N)
           q == LongestEnding(Append(t, b), N)
<1>1. IsLongest(t, N, p)
  BY LongestEndingFacts
<1>2. Append(t, b) \in Seq(B)
  BY AppendProperties
<1>3. IsLongest(Append(t, b), N, q)
  BY <1>2, LongestEndingFacts
<1> HIDE DEF p, q
<1>4. p \in Seq(B) /\ q \in Seq(B)
  BY <1>1, <1>3 DEF IsLongest
<1>5. Append(p, b) \in Seq(B)
  BY <1>4, AppendProperties
<1>6. EndsWith(Append(t, b), Append(p, b))
  BY <1>1, <1>4, EndsWithAppend DEF IsLongest
<1>7. EndsWith(Append(p, b), q)
  <2>1. CASE q = Root
    BY <1>5, <2>1, EndsWithItself
  <2>2. CASE q # Root
    <3>1. PICK r \in Seq(B), c \in B : q = Append(r, c)
      BY <1>4, <2>2, LastByte DEF Root
    <3>2. EndsWith(t, r) /\ b = c
      BY <1>3, <3>1, EndsWithAppend DEF IsLongest
    <3>3. r \in N
      BY <1>3, <3>1 DEF IsLongest, PrefixClosed
    <3>4. EndsWith(p, r)
      BY <1>1, <1>4, <3>2, <3>3, EndingOfEnding DEF IsLongest
    <3> QED
      BY <1>4, <3>1, <3>2, <3>4, EndsWithAppend
  <2> QED
    BY <2>1, <2>2
<1>8. \A m \in N : EndsWith(Append(p, b), m) => Len(m) <= Len(q)
  BY <1>2, <1>3, <1>5, <1>6, EndsWithTransitive DEF IsLongest
<1>9. IsLongest(Append(p, b), N, q)
  BY <1>3, <1>7, <1>8 DEF IsLongest
<1> QED
  BY <1>5, <1>9, LongestEndingUnique DEF p, q

(* The nodes on the way to some signatures are such a set of nodes.        *)
LEMMA BeginningsFacts ==
  ASSUME NEW B, NEW S, S \subseteq Seq(B)
  PROVE  /\ Beginnings(S) \subseteq Seq(B) /\ Root \in Beginnings(S)
         /\ S \subseteq Beginnings(S)
         /\ PrefixClosed(Beginnings(S), B)
<1>1. ASSUME NEW s \in S, NEW n \in 0 .. Len(s)
      PROVE  /\ SubSeq(s, 1, n) \in Seq(B) /\ Len(SubSeq(s, 1, n)) = n
             /\ \A i \in 1 .. n : SubSeq(s, 1, n)[i] = s[i]
  BY FirstBytes
<1>2. Root \in Seq(B)
  BY EmptySeq DEF Root
<1>3. \A x : x \in Beginnings(S)
              <=> x = Root \/ \E s \in S : \E n \in 0 .. Len(s) : x = SubSeq(s, 1, n)
  BY DEF Beginnings
<1>4. Beginnings(S) \subseteq Seq(B) /\ Root \in Beginnings(S)
  BY <1>1, <1>2, <1>3
<1>5. S \subseteq Beginnings(S)
  <2> SUFFICES ASSUME NEW s \in S PROVE s = SubSeq(s, 1, Len(s)) /\ Len(s) \in 0 .. Len(s)
    BY DEF Beginnings
  <2>1. s \in Seq(B) /\ Len(s) \in 0 .. Len(s)
    BY LenProperties
  <2> QED
    BY <2>1, SubSeqFull
<1>6. ASSUME NEW n \in Seq(B), NEW b \in B, Append(n, b) \in Beginnings(S)
      PROVE  n \in Beginnings(S)
  <2>1. /\ Len(Append(n, b)) = Len(n) + 1 /\ Len(n) \in Nat
        /\ \A i \in 1 .. Len(n) : Append(n, b)[i] = n[i]
    BY AppendProperties, LenProperties
  <2>2. Append(n, b) # Root
    BY <2>1, EmptySeq DEF Root
  <2>3. PICK s \in S : \E k \in 0 .. Len(s) : Append(n, b) = SubSeq(s, 1, k)
    BY <1>3, <1>6, <2>2
  <2>4. PICK k \in 0 .. Len(s) : Append(n, b) = SubSeq(s, 1, k)
    BY <2>3
  <2>5. k = Len(n) + 1 /\ Len(n) \in 0 .. Len(s)
    <3>1. s \in Seq(B) /\ Len(s) \in Nat
      BY LenProperties
    <3> QED
      BY <1>1, <2>1, <2>4, <3>1
  <2>6. n = SubSeq(s, 1, Len(n))
    <3>1. \A i \in 1 .. Len(n) : n[i] = s[i]
      <4>1. \A i \in 1 .. Len(n) : i \in 1 .. k
        BY <2>1, <2>5
      <4> QED
        BY <1>1, <2>1, <2>4, <4>1
    <3> QED
      BY <1>1, <2>5, <3>1, SeqEqual
  <2> QED
    BY <1>3, <2>5, <2>6
<1> QED
  BY <1>4, <1>5, <1>6 DEF PrefixClosed

(* The first bytes of the first bytes of a text.                           *)
LEMMA FirstOfFirstBytes ==
  ASSUME NEW B, NEW t \in Seq(B), NEW n \in 0 .. Len(t), NEW k \in 0 .. n
  PROVE  SubSeq(SubSeq(t, 1, n), 1, k) = SubSeq(t, 1, k)
<1> DEFINE u == SubSeq(t, 1, n)
<1>1. Len(t) \in Nat /\ k \in 0 .. Len(t)
  BY LenProperties
<1>2. u \in Seq(B) /\ Len(u) = n /\ \A i \in 1 .. n : u[i] = t[i]
  BY FirstBytes
<1> HIDE DEF u
<1>3. /\ SubSeq(t, 1, k) \in Seq(B) /\ Len(SubSeq(t, 1, k)) = k
      /\ \A i \in 1 .. k : SubSeq(t, 1, k)[i] = t[i]
  BY <1>1, FirstBytes
<1>4. k \in 0 .. Len(u)
  BY <1>2
<1>5. /\ SubSeq(u, 1, k) \in Seq(B) /\ Len(SubSeq(u, 1, k)) = k
      /\ \A i \in 1 .. k : SubSeq(u, 1, k)[i] = u[i]
  BY <1>2, <1>4, FirstBytes
<1>6. \A i \in 1 .. k : SubSeq(u, 1, k)[i] = SubSeq(t, 1, k)[i]
  BY <1>1, <1>2, <1>3, <1>5
<1>7. SubSeq(u, 1, k) = SubSeq(t, 1, k)
  BY <1>3, <1>5, <1>6, SeqEqual
<1> QED
  BY <1>7 DEF u

LEMMA BeginningsOfBeginnings ==
  ASSUME NEW B, NEW S, S \subseteq Seq(B), NEW n \in Beginnings(S), NEW k \in 0 .. Len(n)
  PROVE  SubSeq(n, 1, k) \in Beginnings(S)
<1>1. CASE n = Root
  <2>1. k = 0
    BY <1>1, EmptySeq DEF Root
  <2>2. SubSeq(n, 1, k) = Root
    BY <1>1, <2>1, SubSeqEmpty DEF Root
  <2> QED
    BY <2>2 DEF Beginnings
<1>2. CASE n # Root
  <2>1. PICK s \in S : \E m \in 0 .. Len(s) : n = SubSeq(s, 1, m)
    BY <1>2 DEF Beginnings
  <2>2. PICK m \in 0 .. Len(s) : n = SubSeq(s, 1, m)
    BY <2>1
  <2>3. s \in Seq(B) /\ Len(s) \in Nat
    BY LenProperties
  <2>4. Len(n) = m /\ k \in 0 .. m /\ k \in 0 .. Len(s)
    <3>1. Len(n) = m
      BY <2>2, <2>3, FirstBytes
    <3> QED
      BY <2>3, <3>1
  <2>5. SubSeq(n, 1, k) = SubSeq(s, 1, k)
    BY <2>2, <2>3, <2>4, FirstOfFirstBytes
  <2> QED
    BY <2>4, <2>5 DEF Beginnings
<1> QED
  BY <1>1, <1>2
=============================================================================
